------------------------- MODULE MCEvidenceAssembly -------------------------
(* A small instance of EvidenceAssembly.                                    *)
EXTENDS EvidenceAssembly, TLC

CONSTANTS d1, p1, p2, p3

\* Two prospects of one company, and one whose company is not known.
Companies == p1 :> d1 @@ p2 :> d1 @@ p3 :> NoDomain

\* Workers are told apart by nothing but their names.
Symmetry == Permutations(Workers)
=============================================================================
