---------------------------- MODULE DraftRegistry ----------------------------
(***************************************************************************)
(* What a draft store promises its callers, in one atomic step per call: a *)
(* draft moves along the lifecycle and nowhere else, and a prospect has at *)
(* most one draft still waiting for a decision.  OutreachDrafts is shown   *)
(* to implement this when its calls do not overlap.                        *)
(***************************************************************************)
EXTENDS DraftLifecycle

CONSTANTS Drafts, Prospects, NoProspect

VARIABLES
  status,  \* status[d]: "NONE" before creation, then a lifecycle state
  owner    \* owner[d]: the prospect the draft is for

vars == <<status, owner>>

Init ==
  /\ status = [d \in Drafts |-> "NONE"]
  /\ owner = [d \in Drafts |-> NoProspect]

Create(d, p) ==
  /\ status[d] = "NONE"
  /\ \A e \in Drafts : owner[e] = p => IsTerminal(status[e])
  /\ status' = [status EXCEPT ![d] = "DRAFTED"]
  /\ owner' = [owner EXCEPT ![d] = p]

Move(d, t) ==
  /\ status[d] # "NONE"
  /\ ApplyTransition(status[d], t) # Invalid
  /\ status' = [status EXCEPT ![d] = ApplyTransition(status[d], t)]
  /\ UNCHANGED owner

Next ==
  \/ \E d \in Drafts, p \in Prospects : Create(d, p)
  \/ \E d \in Drafts, t \in Transitions : Move(d, t)

Spec == Init /\ [][Next]_vars
=============================================================================
