----------------------------- MODULE MCFollowUp -----------------------------
(* A small instance of FollowUp.                                            *)
EXTENDS FollowUp, TLC

\* Drafts and conversations are told apart by nothing but their ids.
Symmetry == Permutations(Drafts) \cup Permutations(Conversations)
=============================================================================
