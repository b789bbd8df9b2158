---------------------------- MODULE OutreachSend ----------------------------
(***************************************************************************)
(* SendApprovedDraftService.send() (packages/outreach/src/send) down to    *)
(* the HTTP request of the X client: the one path by which Metrivio writes *)
(* a direct message to the network.                                        *)
(*                                                                         *)
(* Each sender is a caller of send() with its own process state; every     *)
(* database access and the network call are separate steps, so senders     *)
(* interleave, a process can die between any two steps, and what was read  *)
(* in an earlier step may be stale in a later one.  X itself is external:  *)
(* it may deliver a message whether or not the answer reaches the client.  *)
(*                                                                         *)
(* A check that refuses (BLOCKED, NOT_APPROVED, ALREADY_SENT, ...) ends    *)
(* the call; the audit row it writes carries no state read back by code.   *)
(***************************************************************************)
EXTENDS Naturals, FiniteSets

CONSTANTS
  Senders,     \* concurrent callers of send()
  Drafts, Prospects,
  ProspectOf,  \* ProspectOf[d]: the prospect draft d is for
  StepOf,      \* StepOf[d]: 1 for an original draft, the sequence step (> 1) for a follow-up
  Sendable,    \* drafts whose target has an X user id and whose text passes the length check
  DailyLimit,  \* daily_limit_dms
  MaxRetries,  \* TwitterHttpClient's maxRetries
  MaxCopies,   \* bound: copies of one draft the inbox counter distinguishes
  NoDraft

ASSUME SendersAssumption == IsFiniteSet(Senders) /\ Senders # {}
ASSUME DraftsAssumption ==
  /\ NoDraft \notin Drafts
  /\ ProspectOf \in [Drafts -> Prospects]
  /\ StepOf \in [Drafts -> Nat \ {0}]
  /\ Sendable \subseteq Drafts
ASSUME BoundsAssumption ==
  /\ DailyLimit \in Nat
  /\ MaxRetries \in Nat
  /\ MaxCopies \in Nat \ {0}

VARIABLES
  killSwitch,   \* system_config kill_switch
  draftStatus,  \* draftStatus[d], as OutreachDraftService folds it
  manualIds,    \* how many 'stage_6b_manual_send' sequences rows exist
  rows,         \* outreach_messages, by its unique index
  recorded,     \* recorded[d]: outbound conversation_messages rows holding d's text
  send,         \* send[s]: sender s's call in progress
  inbox,        \* at X: copies of d's message the prospect received
  killedPosts   \* observed: requests sender s made since the kill switch was activated

vars == <<killSwitch, draftStatus, manualIds, rows, recorded, send, inbox, killedPosts>>

\* Sequence 0 is the follow-up sequence, 1, 2, ... the manual-send rows in creation order.
Sequences == 0..Cardinality(Senders)

Keys == Prospects \X Sequences \X {StepOf[d] : d \in Drafts}

IsFollowUp(d) == StepOf[d] > 1

RowState == [status: {"none", "sent", "failed"}, ambiguous: BOOLEAN, recent: BOOLEAN]

NoRow == [status |-> "none", ambiguous |-> FALSE, recent |-> FALSE]
SentRow == [status |-> "sent", ambiguous |-> FALSE, recent |-> TRUE]
FailedRow(ambiguous) == [status |-> "failed", ambiguous |-> ambiguous, recent |-> FALSE]

PastLimit == {"kill", "assert", "post", "saveSent"}

Places == {"idle", "load", "recheck", "findSequence", "createSequence", "lookup", "limit",
           "record", "audit", "saveFailed"} \cup PastLimit

SendState ==
  [pc: Places,
   draft: Drafts \cup {NoDraft},
   sequence: Sequences,
   existing: BOOLEAN,   \* existingRowId is set
   attempt: Nat,        \* retries made by TwitterHttpClient.request
   through: BOOLEAN,    \* observed: some request of this call was delivered, and X's answer to the
                        \* call did not become a definitive error
   ambiguous: BOOLEAN]  \* mapSendError's verdict, for the failed row

Idle == [pc |-> "idle", draft |-> NoDraft, sequence |-> 0, existing |-> FALSE, attempt |-> 0,
         through |-> FALSE, ambiguous |-> FALSE]

KeyOf(s) == <<ProspectOf[send[s].draft], send[s].sequence, StepOf[send[s].draft]>>

\* A row send() answers ALREADY_SENT for: sent, or failed with unknown delivery.
Blocks(row) == row.status = "sent" \/ (row.status = "failed" /\ row.ambiguous)

SentRecently == {k \in Keys : rows[k].status = "sent" /\ rows[k].recent}
-----------------------------------------------------------------------------
Init ==
  /\ killSwitch = FALSE
  /\ draftStatus = [d \in Drafts |-> "PENDING_APPROVAL"]
  /\ manualIds = 0
  /\ rows = [k \in Keys |-> NoRow]
  /\ recorded = [d \in Drafts |-> 0]
  /\ send = [s \in Senders |-> Idle]
  /\ inbox = [d \in Drafts |-> 0]
  /\ killedPosts = [s \in Senders |-> 0]

Goto(s, pc) == send' = [send EXCEPT ![s].pc = pc]
Return(s) == send' = [send EXCEPT ![s] = Idle]

Observed == <<inbox, killedPosts>>
Store == <<killSwitch, draftStatus, manualIds, rows, recorded>>

\* Faulty variant: the stored string 'true' is compared with the boolean true.
KillSwitchMisread == FALSE

\* Every read of the flag the code makes, in send(), in the adapter and in the scheduler.
KillSwitchActive == killSwitch

\* Steps 1-3: kill switch, then the draft is reloaded and must be APPROVED.
BeginSend(s, d) ==
  /\ send[s].pc = "idle"
  /\ ~KillSwitchActive
  /\ send' = [send EXCEPT ![s] = [Idle EXCEPT !.pc = "load", !.draft = d]]
  /\ UNCHANGED <<Store, Observed>>

\* Faulty variant: only a rejected draft is refused.
LoadUnlessRejected(s) ==
  LET d == send[s].draft IN
  /\ send[s].pc = "load"
  /\ IF draftStatus[d] # "REJECTED" /\ d \in Sendable
       THEN Goto(s, IF IsFollowUp(d) THEN "recheck" ELSE "findSequence")
       ELSE Return(s)
  /\ UNCHANGED <<Store, Observed>>

LoadDraft(s) ==
  LET d == send[s].draft IN
  /\ send[s].pc = "load"
  /\ IF draftStatus[d] = "APPROVED" /\ d \in Sendable
       THEN Goto(s, IF IsFollowUp(d) THEN "recheck" ELSE "findSequence")
       ELSE Return(s)
  /\ UNCHANGED <<Store, Observed>>

\* Step 4b, follow-ups only: the eligibility service answers ELIGIBLE or something else.
RecheckEligibility(s) ==
  /\ send[s].pc = "recheck"
  /\ Goto(s, "lookup") \/ Return(s)
  /\ UNCHANGED <<Store, Observed>>

\* getOrCreateManualSendSequenceId: the first row of that name, or a new one.
FindManualSequence(s) ==
  /\ send[s].pc = "findSequence"
  /\ IF manualIds > 0
       THEN send' = [send EXCEPT ![s].pc = "lookup", ![s].sequence = 1]
       ELSE Goto(s, "createSequence")
  /\ UNCHANGED <<Store, Observed>>

CreateManualSequence(s) ==
  /\ send[s].pc = "createSequence"
  /\ manualIds < Cardinality(Senders)
  /\ manualIds' = manualIds + 1
  /\ send' = [send EXCEPT ![s].pc = "lookup", ![s].sequence = manualIds + 1]
  /\ UNCHANGED <<killSwitch, draftStatus, rows, recorded, Observed>>

\* Faulty variant: only a 'sent' row is answered ALREADY_SENT.
LookupSentOnly(s) ==
  /\ send[s].pc = "lookup"
  /\ IF rows[KeyOf(s)].status = "sent"
       THEN Return(s)
       ELSE send' = [send EXCEPT ![s].pc = "limit",
                                 ![s].existing = rows[KeyOf(s)].status # "none"]
  /\ UNCHANGED <<Store, Observed>>

\* Step 6: duplicate-send protection.
LookupExisting(s) ==
  /\ send[s].pc = "lookup"
  /\ IF Blocks(rows[KeyOf(s)])
       THEN Return(s)
       ELSE send' = [send EXCEPT ![s].pc = "limit",
                                 ![s].existing = rows[KeyOf(s)].status # "none"]
  /\ UNCHANGED <<Store, Observed>>

\* Faulty variant: the limit itself may still be exceeded by one.
CheckDailyLimitLoosely(s) ==
  /\ send[s].pc = "limit"
  /\ IF Cardinality(SentRecently) > DailyLimit THEN Return(s) ELSE Goto(s, "kill")
  /\ UNCHANGED <<Store, Observed>>

\* Step 7: 'sent' rows of the last 24 hours against daily_limit_dms.
CheckDailyLimit(s) ==
  /\ send[s].pc = "limit"
  /\ IF Cardinality(SentRecently) >= DailyLimit THEN Return(s) ELSE Goto(s, "kill")
  /\ UNCHANGED <<Store, Observed>>

\* Step 8, and the exit of a dry run; dryRun is an input read nowhere else, chosen here.
RecheckKillSwitch(s) ==
  /\ send[s].pc = "kill"
  /\ \E dryRun \in BOOLEAN :
       IF KillSwitchActive \/ dryRun THEN Return(s) ELSE Goto(s, "assert")
  /\ UNCHANGED <<Store, Observed>>

Fail(s, ambiguous) ==
  send' = [send EXCEPT ![s].pc = "saveFailed", ![s].ambiguous = ambiguous]

\* XActionsSendAdapter: assertNotActive throws an error mapSendError does not know (ambiguous);
\* a missing session cookie is a known, non-ambiguous failure.
AdapterPreconditions(s) ==
  /\ send[s].pc = "assert"
  /\ \/ KillSwitchActive /\ Fail(s, TRUE)
     \/ ~KillSwitchActive /\ Fail(s, FALSE)
     \/ ~KillSwitchActive /\ Goto(s, "post")
  /\ UNCHANGED <<Store, Observed>>
-----------------------------------------------------------------------------
(* The request loop of TwitterHttpClient, and what X does with a request.  *)

Bump(n) == IF n < MaxCopies THEN n + 1 ELSE n

\* X receives the request, and delivers the message or not.
Request(s, delivered) ==
  /\ send[s].pc = "post"
  /\ inbox' = IF delivered THEN [inbox EXCEPT ![send[s].draft] = Bump(@)] ELSE inbox
  /\ killedPosts' = IF killSwitch THEN [killedPosts EXCEPT ![s] = @ + 1] ELSE killedPosts
  /\ UNCHANGED Store

\* 2xx with a JSON body.  sendDM takes the message's id and time from the body's event and, where
\* there is none, an empty id and the present: it asks for no proof that X created the message.
RequestSucceeds(s, delivered) ==
  /\ Request(s, delivered)
  /\ send' = [send EXCEPT ![s].pc = "saveSent", ![s].through = @ \/ delivered]

\* An answer classified as definitive: 429, 401, 403, 404 (refused by X), or any other status
\* from 400 on (and a 2xx whose timestamp sendDM cannot read), which becomes
\* XSendUnexpectedError and does not tell whether X delivered.
RequestAnsweredWithError(s, delivered) ==
  /\ Request(s, delivered)
  /\ send' = [send EXCEPT ![s].pc = "saveFailed", ![s].ambiguous = FALSE, ![s].through = FALSE]

\* Faulty variant: a call without an answer counts as safe to retry.
RequestLostAsUnsent(s, delivered) ==
  /\ Request(s, delivered)
  /\ IF send[s].attempt < MaxRetries
       THEN send' = [send EXCEPT ![s].attempt = @ + 1, ![s].through = @ \/ delivered]
       ELSE send' = [send EXCEPT ![s].pc = "saveFailed", ![s].ambiguous = FALSE,
                                 ![s].through = @ \/ delivered]

\* No usable answer (connection lost, body not JSON): the loop posts the message again until
\* MaxRetries is used up, then gives NetworkError, which is ambiguous.
RequestLost(s, delivered) ==
  /\ Request(s, delivered)
  /\ IF send[s].attempt < MaxRetries
       THEN send' = [send EXCEPT ![s].attempt = @ + 1, ![s].through = @ \/ delivered]
       ELSE send' = [send EXCEPT ![s].pc = "saveFailed", ![s].ambiguous = TRUE,
                                 ![s].through = @ \/ delivered]
-----------------------------------------------------------------------------
(* performRealSend: recording the outcome.                                 *)

\* upsertOutreachMessage: an update when a row was found, else an insert the unique index may refuse.
IndexRefuses(s) == ~send[s].existing /\ rows[KeyOf(s)].status # "none"

SaveSent(s) ==
  /\ send[s].pc = "saveSent"
  /\ IF IndexRefuses(s)
       THEN /\ Fail(s, TRUE)
            /\ UNCHANGED rows
       ELSE /\ rows' = [rows EXCEPT ![KeyOf(s)] = SentRow]
            /\ Goto(s, "record")
  /\ UNCHANGED <<killSwitch, draftStatus, manualIds, recorded, Observed>>

RecordConversationMessage(s) ==
  /\ send[s].pc = "record"
  /\ recorded' = [recorded EXCEPT ![send[s].draft] = Bump(@)]
  /\ Goto(s, "audit")
  /\ UNCHANGED <<killSwitch, draftStatus, manualIds, rows, Observed>>

FinishSent(s) ==
  /\ send[s].pc = "audit"
  /\ Return(s)
  /\ UNCHANGED <<Store, Observed>>

\* Faulty variant: an error after the network call is recorded as a known failure.
DatabaseThrowsKnown(s) ==
  /\ send[s].pc \in {"saveSent", "record", "audit"}
  /\ Fail(s, FALSE)
  /\ UNCHANGED <<Store, Observed>>

\* Any database call after the network call throws: the catch block maps it to an ambiguous failure.
DatabaseThrows(s) ==
  /\ send[s].pc \in {"saveSent", "record", "audit"}
  /\ Fail(s, TRUE)
  /\ UNCHANGED <<Store, Observed>>

\* The catch block writes the failure under the same key; a refused insert rejects the call.
SaveFailed(s) ==
  /\ send[s].pc = "saveFailed"
  /\ rows' = IF IndexRefuses(s) THEN rows
                                ELSE [rows EXCEPT ![KeyOf(s)] = FailedRow(send[s].ambiguous)]
  /\ Return(s)
  /\ UNCHANGED <<killSwitch, draftStatus, manualIds, recorded, Observed>>

\* The process dies, or the catch block's own write throws.
Crash(s) ==
  /\ send[s].pc # "idle"
  /\ Return(s)
  /\ UNCHANGED <<Store, Observed>>
-----------------------------------------------------------------------------
(* The operator, the reviewer and the clock.                               *)

\* approve() or reject() by a call that overlaps no other, so that the decision stands
\* (OutreachDrafts models the calls themselves, and what becomes of them when they overlap).
Decide(d, decision) ==
  /\ draftStatus[d] = "PENDING_APPROVAL"
  /\ draftStatus' = [draftStatus EXCEPT ![d] = decision]
  /\ UNCHANGED <<killSwitch, manualIds, rows, recorded, send, Observed>>

ActivateKillSwitch ==
  /\ ~killSwitch
  /\ killSwitch' = TRUE
  /\ UNCHANGED <<draftStatus, manualIds, rows, recorded, send, Observed>>

DeactivateKillSwitch ==
  /\ killSwitch
  /\ killSwitch' = FALSE
  /\ killedPosts' = [s \in Senders |-> 0]
  /\ UNCHANGED <<draftStatus, manualIds, rows, recorded, send, inbox>>

\* sentAt falls out of the rolling 24 hour window.
LeaveWindow(k) ==
  /\ k \in SentRecently
  /\ rows' = [rows EXCEPT ![k].recent = FALSE]
  /\ UNCHANGED <<killSwitch, draftStatus, manualIds, recorded, send, Observed>>

SendStep(s) ==
  \/ LoadDraft(s) \/ RecheckEligibility(s)
  \/ FindManualSequence(s) \/ CreateManualSequence(s)
  \/ LookupExisting(s) \/ CheckDailyLimit(s) \/ RecheckKillSwitch(s) \/ AdapterPreconditions(s)
  \/ \E delivered \in BOOLEAN : \/ RequestSucceeds(s, delivered)
                               \/ RequestAnsweredWithError(s, delivered)
                               \/ RequestLost(s, delivered)
  \/ SaveSent(s) \/ RecordConversationMessage(s) \/ FinishSent(s) \/ SaveFailed(s)

Environment ==
  \/ \E d \in Drafts, decision \in {"APPROVED", "REJECTED"} : Decide(d, decision)
  \/ ActivateKillSwitch \/ DeactivateKillSwitch
  \/ \E k \in Keys : LeaveWindow(k)

Next ==
  \/ \E s \in Senders :
       \/ \E d \in Drafts : BeginSend(s, d)
       \/ SendStep(s)
       \/ DatabaseThrows(s)
       \/ Crash(s)
  \/ Environment

Spec == Init /\ [][Next]_vars
-----------------------------------------------------------------------------
TypeOK ==
  /\ killSwitch \in BOOLEAN
  /\ draftStatus \in [Drafts -> {"PENDING_APPROVAL", "APPROVED", "REJECTED"}]
  /\ manualIds \in 0..Cardinality(Senders)
  /\ rows \in [Keys -> RowState]
  /\ recorded \in [Drafts -> Nat]
  /\ send \in [Senders -> SendState]
  /\ inbox \in [Drafts -> Nat]
  /\ killedPosts \in [Senders -> Nat]

\* The limit is read before the send and counted only after it, so overlapping calls may
\* overshoot daily_limit_dms, but by no more than one message per other call under way.
DailyLimitOvershootBounded ==
  Cardinality(SentRecently) <= DailyLimit + Cardinality(Senders) - 1

\* Activating the kill switch stops a sender at its next check: what is left are the requests of
\* the one call that is already inside the HTTP client's retry loop.
KillSwitchBoundsRequests ==
  killSwitch => \A s \in Senders : killedPosts[s] <= MaxRetries + 1

\* Whatever happens between the check in LoadDraft and the request, a message that reaches a
\* prospect is the text of a draft a human approved.
OnlyApprovedDraftsArrive ==
  \A d \in Drafts : inbox[d] > 0 => draftStatus[d] = "APPROVED"

\* Overlapping calls share a row, so a row that blocks a resend may be overwritten by one that does
\* not; but only by a call whose own message did not arrive, or to which X's answer became a
\* definitive error: no call that may have got through ever frees the row.
BlocksGiveWayToFailuresOnly ==
  [][\A k \in Keys : Blocks(rows[k]) /\ ~Blocks(rows'[k]) =>
       \E s \in Senders : /\ send[s].pc = "saveFailed" /\ KeyOf(s) = k
                         /\ ~send[s].through]_vars

\* Without overlapping calls: a call that reaches the network holds a key no row of which says
\* the message went out, or may have gone out.
NeverPostsOverABlockedRecord ==
  \A s \in Senders : send[s].pc = "post" => ~Blocks(rows[KeyOf(s)])

\* Without overlapping calls: once a row blocks a resend, no later step of any call, failing or
\* not, turns it into one that allows it.
BlocksForever ==
  [][\A k \in Keys : Blocks(rows[k]) => Blocks(rows'[k])]_vars

\* Without overlapping calls: a call that ran to its end and whose message arrived leaves a row
\* that blocks a resend, unless X's answer to it became a definitive error all the same.
DeliveryLeavesABlock ==
  [][\A s \in Senders :
       /\ send[s].through
       /\ FinishSent(s) \/ SaveFailed(s)
       => Blocks(rows'[KeyOf(s)])]_vars

\* "a prospect can never receive more than one Stage 6B manual send" (manual-sequence.ts).
OneManualMessagePerProspect ==
  \A d, e \in Drafts :
    /\ ~IsFollowUp(d) /\ ~IsFollowUp(e) /\ ProspectOf[d] = ProspectOf[e]
    /\ inbox[d] > 0 /\ inbox[e] > 0
    => d = e
=============================================================================
