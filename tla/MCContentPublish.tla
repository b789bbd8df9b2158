-------------------------- MODULE MCContentPublish --------------------------
(* Small instances of ContentPublish.                                       *)
EXTENDS ContentPublish, TLC

\* Every draft is for an idea of its own.
IdeaPerDraft == [d \in Drafts |-> d]

Symmetries == Permutations(Drafts) \cup Permutations(Bodies) \cup Permutations(Publishers)
=============================================================================
