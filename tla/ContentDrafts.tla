---------------------------- MODULE ContentDrafts ----------------------------
(***************************************************************************)
(* ContentDraftService (packages/content/src/drafts): drafts of posts.     *)
(*                                                                         *)
(* A content draft is kept twice: a content_drafts row (its body and the   *)
(* approval_status column) and its audit_log events, from which status and *)
(* approval integrity are folded on every read.  A call writes the two one *)
(* after the other, so a crash in between leaves them apart.               *)
(*                                                                         *)
(* The calls that change a draft are made by one editor at a time.  The    *)
(* sequence numbers it gives a draft's events then grow in row order, so   *)
(* the fold is kept here as the state it answers, updated event by event   *)
(* (OutreachDrafts models the log itself, with callers that overlap).      *)
(***************************************************************************)
EXTENDS Naturals, DraftLifecycle

CONSTANTS
  Drafts,   \* the draft ids uuid() can produce
  IdeaOf,   \* IdeaOf[d]: the content idea draft d is for
  Bodies,   \* the texts a draft may have
  NoDraft, NoBody

ASSUME NoBodyAssumption == NoBody \notin Bodies
ASSUME NoContentDraftAssumption == NoDraft \notin Drafts

VARIABLES
  rows,  \* content_drafts
  log,   \* log[d]: what the folds over d's audit_log events answer
  edit   \* the editor's call in progress

draftVars == <<rows, log, edit>>

RowState ==
  [exists: BOOLEAN,
   body: Bodies \cup {NoBody},
   approvalStatus: {"pending", "approved", "rejected"},
   published: BOOLEAN,  \* x_manager_post_id is set
   recent: BOOLEAN]     \* updated_at lies in the last 24 hours

LogState ==
  [status: DraftStates,                    \* fold()
   approved: Bodies \cup {NoBody},         \* content hash of the last approval
   changed: BOOLEAN,                       \* a body change follows the last approval
   ready: BOOLEAN]                         \* getSchedulingState().readyForScheduling

Operations == Transitions \cup {"REAPPROVE", "REVALIDATE", "UPDATE_BODY"}

EditState ==
  [pc: {"idle", "insert", "body", "event", "column"},
   op: Operations,
   draft: Drafts \cup {NoDraft},
   body: Bodies \cup {NoBody}]

NoEdit == [pc |-> "idle", op |-> "REJECT", draft |-> NoDraft, body |-> NoBody]

Exists(d) == rows[d].exists

\* getSchedulingState
Ready(d) == log[d].ready

Touch(d, row) == rows' = [rows EXCEPT ![d] = [row EXCEPT !.recent = TRUE]]

\* Faulty variant: only the order of the events is compared, not the text.
IntegrityByOrder(d) ==
  /\ log[d].status = "APPROVED"
  /\ ~log[d].changed

\* getApprovalIntegrity: approved, and nothing changed since.
ApprovalCovers(d) ==
  /\ log[d].status = "APPROVED"
  /\ ~log[d].changed
  /\ log[d].approved = rows[d].body
-----------------------------------------------------------------------------
DraftsInit ==
  /\ rows = [d \in Drafts |-> [exists |-> FALSE, body |-> NoBody, approvalStatus |-> "pending",
                               published |-> FALSE, recent |-> FALSE]]
  /\ log = [d \in Drafts |-> [status |-> "DRAFTED", approved |-> NoBody, changed |-> FALSE,
                              ready |-> FALSE]]
  /\ edit = NoEdit

Begin(pc, op, d, b) ==
  /\ edit.pc = "idle"
  /\ edit' = [pc |-> pc, op |-> op, draft |-> d, body |-> b]
  /\ UNCHANGED <<rows, log>>

\* generateDraft: only when every draft of the idea is terminal.
BeginGenerate(d, b) ==
  /\ ~Exists(d)
  /\ \A e \in Drafts : Exists(e) /\ IdeaOf[e] = IdeaOf[d] => IsTerminal(log[e].status)
  /\ Begin("insert", "UPDATE_BODY", d, b)

\* The 'created' event that follows the insert changes nothing any fold answers.
InsertDraft ==
  /\ edit.pc = "insert"
  /\ Touch(edit.draft, [rows[edit.draft] EXCEPT !.exists = TRUE, !.body = edit.body])
  /\ edit' = NoEdit
  /\ UNCHANGED log

\* submitForApproval, approve and reject of a draft the lifecycle lets move; an approval
\* carries the hash of the body read here.
BeginTransition(d, t) ==
  /\ Exists(d)
  /\ ApplyTransition(log[d].status, t) \notin {Invalid, log[d].status}
  /\ Begin("event", t, d, rows[d].body)

\* approve() of an APPROVED draft whose body changed since.
BeginReapprove(d) ==
  /\ Exists(d)
  /\ log[d].status = "APPROVED" /\ ~ApprovalCovers(d)
  /\ Begin("event", "REAPPROVE", d, rows[d].body)

BeginUpdateBody(d, b) ==
  /\ Exists(d)
  /\ log[d].status # "REJECTED"
  /\ Begin("body", "UPDATE_BODY", d, b)

\* revalidate: the quality check, which is not modelled, of a draft that is still open.
BeginRevalidate(d) ==
  /\ Exists(d)
  /\ ~IsTerminal(log[d].status)
  /\ Begin("column", "REVALIDATE", d, NoBody)

WriteBody ==
  /\ edit.pc = "body"
  /\ Touch(edit.draft, [rows[edit.draft] EXCEPT !.body = edit.body])
  /\ edit' = [edit EXCEPT !.pc = "event"]
  /\ UNCHANGED log

\* The fold after one more event.
AfterEvent(l) ==
  CASE edit.op = "UPDATE_BODY" -> [l EXCEPT !.changed = TRUE]
    [] edit.op \in {"APPROVE", "REAPPROVE"} ->
         [l EXCEPT !.status = "APPROVED", !.approved = edit.body, !.changed = FALSE]
    [] OTHER -> [l EXCEPT !.status = ApplyTransition(@, edit.op)]

\* Faulty variant: the column is written without the event.
SkipEvent ==
  /\ edit.pc = "event"
  /\ edit' = IF edit.op \in {"APPROVE", "REAPPROVE", "REJECT"} THEN [edit EXCEPT !.pc = "column"]
                                                               ELSE NoEdit
  /\ UNCHANGED <<rows, log>>

WriteEvent ==
  /\ edit.pc = "event"
  /\ log' = [log EXCEPT ![edit.draft] = AfterEvent(@)]
  /\ edit' = IF edit.op \in {"APPROVE", "REAPPROVE", "REJECT"} THEN [edit EXCEPT !.pc = "column"]
                                                               ELSE NoEdit
  /\ UNCHANGED rows

\* A re-approval sets approved_by, a revalidation the result of the check: neither is modelled, but
\* both set updated_at.
WriteColumn ==
  /\ edit.pc = "column"
  /\ LET row == rows[edit.draft]
     IN  CASE edit.op = "APPROVE" -> Touch(edit.draft, [row EXCEPT !.approvalStatus = "approved"])
           [] edit.op = "REJECT" -> Touch(edit.draft, [row EXCEPT !.approvalStatus = "rejected"])
           [] edit.op \in {"REAPPROVE", "REVALIDATE"} -> Touch(edit.draft, row)
  /\ edit' = NoEdit
  /\ UNCHANGED log

\* The editor's process dies, or the next access throws.
CrashEdit ==
  /\ edit.pc # "idle"
  /\ edit' = NoEdit
  /\ UNCHANGED <<rows, log>>

\* markReadyForScheduling: one read and one event, which nothing ever takes back.  (scheduleFor
\* and the clock make a ready draft due or not due at any time; that is no state here.)
MarkReady(d) ==
  /\ log[d].status = "APPROVED"
  /\ ~Ready(d)
  /\ log' = [log EXCEPT ![d].ready = TRUE]
  /\ UNCHANGED <<rows, edit>>

BeginEdit ==
  \E d \in Drafts :
    \/ \E b \in Bodies : BeginGenerate(d, b) \/ BeginUpdateBody(d, b)
    \/ \E t \in Transitions : BeginTransition(d, t)
    \/ BeginReapprove(d) \/ BeginRevalidate(d)

EditStep ==
  \/ InsertDraft \/ WriteBody \/ WriteEvent \/ WriteColumn \/ CrashEdit
  \/ \E d \in Drafts : MarkReady(d)
=============================================================================
