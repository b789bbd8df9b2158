--------------------------- MODULE MCJobScheduler ---------------------------
(* Small instances of JobScheduler.                                         *)
EXTENDS JobScheduler, TLC

Symmetries == Permutations(Invokers) \cup Permutations(Jobs) \cup Permutations(JobTypes)
=============================================================================
