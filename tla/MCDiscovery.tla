----------------------------- MODULE MCDiscovery -----------------------------
(* A small instance of Discovery.                                           *)
EXTENDS Discovery, TLC

CONSTANTS q1, q2

\* The first query finds posts that name a pain, the second posts that give nothing away.
Posts == q1 :> {"pain"} @@ q2 :> {}

\* Accounts and handles are told apart by nothing but their names.
Symmetry == Permutations(Accounts) \cup Permutations(Handles)
=============================================================================
