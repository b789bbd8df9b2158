--------------------------- MODULE OutreachDrafts ---------------------------
(***************************************************************************)
(* OutreachDraftService (packages/outreach/src/drafts/draft-store.ts).     *)
(*                                                                         *)
(* A draft has no row of its own: it is the fold of its audit_log events,  *)
(* ordered by the sequence number each event carries.  Every call reads    *)
(* the log, awaits, and writes one event later; there is no transaction,   *)
(* so calls of different actors (the automation job, a human reviewer)     *)
(* interleave at each database access.                                     *)
(*                                                                         *)
(* A call that changes nothing (an unknown draft, an InvalidDraftTransition*)
(* error, a duplicate decision, an existing draft returned as it is) is a  *)
(* stuttering step and has no action, except where it ends a call that is  *)
(* already under way.                                                      *)
(***************************************************************************)
EXTENDS Naturals, Sequences, FiniteSets, DraftLifecycle

CONSTANTS
  Actors,      \* callers whose calls may overlap
  Drafts,      \* the draft ids uuid() can produce
  Prospects,
  NoDraft, NoProspect,
  MaxRows      \* bound: events the audit log holds

ASSUME NoProspectAssumption == NoProspect \notin Prospects
ASSUME NoDraftAssumption == NoDraft \notin Drafts
ASSUME MaxRowsAssumption == MaxRows \in Nat

VARIABLES
  auditLog,  \* audit_log rows of outreach drafts, in insertion order
  call       \* call[a]: what actor a's call in progress has read so far

vars == <<auditLog, call>>

Events == {"created", "submitted", "approved", "rejected"}

Row == [draft: Drafts, event: Events, sequence: Nat, prospect: Prospects \cup {NoProspect}]

Call == [pc: {"idle", "fold", "insert", "count", "append"},
         prospect: Prospects \cup {NoProspect},
         listed: SUBSET Drafts,
         draft: Drafts \cup {NoDraft},
         transition: Transitions,
         sequence: Nat]

Idle == [pc |-> "idle", prospect |-> NoProspect, listed |-> {}, draft |-> NoDraft,
         transition |-> "REJECT", sequence |-> 0]

\* The event a transition writes: ACTION_TYPES.
EventOf(transition) ==
  CASE transition = "SUBMIT_FOR_APPROVAL" -> "submitted"
    [] transition = "APPROVE" -> "approved"
    [] transition = "REJECT" -> "rejected"
-----------------------------------------------------------------------------
(* Reading a draft back from the log.                                      *)

RowsOf(d) == {i \in DOMAIN auditLog : auditLog[i].draft = d}

Created(d) == \E i \in RowsOf(d) : auditLog[i].event = "created"

CreatedFor(p) == {d \in Drafts : \E i \in RowsOf(d) : auditLog[i].event = "created"
                                                        /\ auditLog[i].prospect = p}

\* The order fold() gives the events: by sequence, ties in row order (Array.sort is stable).
Precedes(i, j) ==
  \/ auditLog[i].sequence < auditLog[j].sequence
  \/ auditLog[i].sequence = auditLog[j].sequence /\ i < j

\* The last event that sets the status is e.
LastStatusEvent(d, e) ==
  \E i \in RowsOf(d) :
    /\ auditLog[i].event = e
    /\ \A j \in RowsOf(d) : auditLog[j].event # "created" => ~Precedes(i, j)

\* fold(): the loop over the sorted events, of which the last one wins.
StatusOf(d) ==
  IF LastStatusEvent(d, "approved") THEN "APPROVED"
  ELSE IF LastStatusEvent(d, "rejected") THEN "REJECTED"
  ELSE IF LastStatusEvent(d, "submitted") THEN "PENDING_APPROVAL"
  ELSE "DRAFTED"
-----------------------------------------------------------------------------
Init ==
  /\ auditLog = <<>>
  /\ call = [a \in Actors |-> Idle]

Finish(a) == call' = [call EXCEPT ![a] = Idle]

Append1(row) ==
  /\ Len(auditLog) < MaxRows
  /\ auditLog' = Append(auditLog, row)

\* generateDraft: listDraftsForProspect selects the created rows...
BeginGenerate(a, p) ==
  /\ call[a].pc = "idle"
  /\ call' = [call EXCEPT ![a] = [Idle EXCEPT !.pc = "fold", !.prospect = p,
                                              !.listed = CreatedFor(p)]]
  /\ UNCHANGED auditLog

\* Faulty variant: a submitted draft is no longer seen as waiting.
AwaitsSubmission(d) == StatusOf(d) = "DRAFTED"

AwaitsDecision(d) == ~IsTerminal(StatusOf(d))

\* ...then folds each of them: a draft awaiting a decision is returned instead of a new one.
FoldListed(a) ==
  /\ call[a].pc = "fold"
  /\ \/ /\ \E d \in call[a].listed : AwaitsDecision(d)
        /\ Finish(a)
     \/ /\ \A d \in call[a].listed : ~AwaitsDecision(d)
        /\ call' = [call EXCEPT ![a].pc = "insert"]
  /\ UNCHANGED auditLog

WriteCreated(a, d) ==
  /\ call[a].pc = "insert"
  /\ ~Created(d)
  /\ Append1([draft |-> d, event |-> "created", sequence |-> 0, prospect |-> call[a].prospect])
  /\ Finish(a)

\* Faulty variant: any transition out of a draft that is not terminal.
PermittedWithoutReview(d, t) == ~IsTerminal(StatusOf(d)) /\ t \in Transitions

\* Faulty variant: a recorded decision may be replaced by the opposite one.
PermittedAfterDecision(d, t) ==
  \/ ApplyTransition(StatusOf(d), t) \notin {Invalid, StatusOf(d)}
  \/ IsTerminal(StatusOf(d)) /\ t = "REJECT"

\* transition(): getDraft, then applyDraftTransition on the status it folded.
Permitted(d, t) ==
  LET next == ApplyTransition(StatusOf(d), t)
  IN  next # Invalid /\ next # StatusOf(d)

BeginTransition(a, d, t) ==
  /\ call[a].pc = "idle"
  /\ Created(d)
  /\ Permitted(d, t)
  /\ call' = [call EXCEPT ![a] = [Idle EXCEPT !.pc = "count", !.draft = d, !.transition = t]]
  /\ UNCHANGED auditLog

\* The second read: the event's sequence is the number of rows the draft has by now.
CountRows(a) ==
  /\ call[a].pc = "count"
  /\ call' = [call EXCEPT ![a].pc = "append",
                          ![a].sequence = Cardinality(RowsOf(call[a].draft))]
  /\ UNCHANGED auditLog

WriteEvent(a) ==
  /\ call[a].pc = "append"
  /\ Append1([draft |-> call[a].draft, event |-> EventOf(call[a].transition),
              sequence |-> call[a].sequence, prospect |-> NoProspect])
  /\ Finish(a)

\* The process dies between two database accesses, or the next access throws.
Crash(a) ==
  /\ call[a].pc # "idle"
  /\ Finish(a)
  /\ UNCHANGED auditLog

Next ==
  \E a \in Actors :
    \/ \E p \in Prospects : BeginGenerate(a, p)
    \/ FoldListed(a)
    \/ \E d \in Drafts : WriteCreated(a, d)
    \/ \E d \in Drafts, t \in Transitions : BeginTransition(a, d, t)
    \/ CountRows(a)
    \/ WriteEvent(a)
    \/ Crash(a)

Spec == Init /\ [][Next]_vars
-----------------------------------------------------------------------------
\* Every row and every call in progress has the fields the code gives it.
TypeOK ==
  /\ auditLog \in Seq(Row)
  /\ call \in [Actors -> Call]

\* However calls interleave or die, an approval is recorded only for a draft that was
\* submitted for review earlier: "PENDING_APPROVAL can never be skipped" (draft-lifecycle.ts).
ApprovalNeverSkipsReview ==
  \A i \in DOMAIN auditLog :
    auditLog[i].event = "approved" =>
      \E j \in 1..(i - 1) : auditLog[j].draft = auditLog[i].draft /\ auditLog[j].event = "submitted"

\* A sequence number is a row count read before the write, so it never runs ahead of the log:
\* an event can be folded too early by a stale count, never later than the rows written after it.
SequenceNeverAhead ==
  \A i \in DOMAIN auditLog :
    auditLog[i].sequence <= Cardinality({j \in RowsOf(auditLog[i].draft) : j < i})

\* A decision stands: APPROVED and REJECTED are terminal (draft-lifecycle.ts).
DecisionsStand ==
  [][\A d \in Drafts : IsTerminal(StatusOf(d)) => StatusOf(d)' = StatusOf(d)]_vars

\* The store implements the registry: each event it writes is one atomic Create or Move of the
\* draft as the fold reads it back.
Registry == INSTANCE DraftRegistry WITH
  status <- [d \in Drafts |-> IF Created(d) THEN StatusOf(d) ELSE "NONE"],
  owner <- [d \in Drafts |-> IF \E p \in Prospects : d \in CreatedFor(p)
                               THEN CHOOSE p \in Prospects : d \in CreatedFor(p)
                               ELSE NoProspect]

ImplementsRegistry == Registry!Spec
=============================================================================
