--------------------------- MODULE MCOutreachSend ---------------------------
(* Small instances of OutreachSend.                                         *)
EXTENDS OutreachSend, TLC

CONSTANTS d1, d2, d3, p1, p2

\* Two original drafts for one prospect, and a follow-up for another.
DraftsThree == {d1, d2, d3}
ProspectsThree == d1 :> p1 @@ d2 :> p1 @@ d3 :> p2
StepsThree == d1 :> 1 @@ d2 :> 1 @@ d3 :> 2

\* An original draft and a follow-up for the same prospect.
DraftsTwo == {d1, d2}
ProspectsTwo == d1 :> p1 @@ d2 :> p1
StepsTwo == d1 :> 1 @@ d2 :> 2

SenderSymmetry == Permutations(Senders)
=============================================================================
