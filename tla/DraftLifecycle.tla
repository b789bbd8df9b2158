--------------------------- MODULE DraftLifecycle ---------------------------
(***************************************************************************)
(* The four-state lifecycle that outreach message drafts and content       *)
(* drafts share (packages/core/src/drafts/draft-lifecycle.ts): a pure      *)
(* transition function, no state of its own.                               *)
(***************************************************************************)

DraftStates == {"DRAFTED", "PENDING_APPROVAL", "APPROVED", "REJECTED"}

Transitions == {"SUBMIT_FOR_APPROVAL", "APPROVE", "REJECT"}

\* What applyDraftTransition answers when it throws InvalidDraftTransitionError.
Invalid == "INVALID"

\* The edges of the TRANSITIONS table, as <<from, transition, to>>.
TransitionTable ==
  { <<"DRAFTED", "SUBMIT_FOR_APPROVAL", "PENDING_APPROVAL">>,
    <<"DRAFTED", "REJECT", "REJECTED">>,
    <<"PENDING_APPROVAL", "APPROVE", "APPROVED">>,
    <<"PENDING_APPROVAL", "REJECT", "REJECTED">> }

IsTerminal(state) == state \in {"APPROVED", "REJECTED"}

\* A duplicate of the decision that made the draft terminal is answered, not refused.
IsDuplicateDecision(state, transition) ==
  \/ state = "APPROVED" /\ transition = "APPROVE"
  \/ state = "REJECTED" /\ transition = "REJECT"

\* applyDraftTransition: the next state, the same state for a duplicate decision, or Invalid.
ApplyTransition(state, transition) ==
  IF \E to \in DraftStates : <<state, transition, to>> \in TransitionTable
    THEN CHOOSE to \in DraftStates : <<state, transition, to>> \in TransitionTable
    ELSE IF IsDuplicateDecision(state, transition) THEN state ELSE Invalid
=============================================================================
