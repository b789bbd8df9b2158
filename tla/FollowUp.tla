------------------------------- MODULE FollowUp -------------------------------
(***************************************************************************)
(* Follow-ups (packages/outreach/src/follow-up and src/automation): the    *)
(* three scheduled jobs that look for replies on X, decide for whom a      *)
(* follow-up is due, and draft it.                                         *)
(*                                                                         *)
(* A handler takes its candidates one after the other.  For each it looks  *)
(* at X, stores what it finds, folds everything ever stored into one reply *)
(* state, and (the prepare job only) drafts the next step and submits it   *)
(* for approval.  The calls are a chain of awaits: people reply, operators *)
(* stop prospects, draft first messages, decide drafts and send what was   *)
(* approved between any two, and turn the kill switch as they like: it is  *)
(* no variable, but every look at it may find it either way.               *)
(* X shows one page, so a reply seen once may be missing the next time.    *)
(***************************************************************************)
EXTENDS Integers, FiniteSets, FiniteSetsExt, DraftLifecycle

CONSTANTS
  Prospects,      \* prospect ids, which order the candidates
  Actors,         \* processes that run a job
  Conversations,  \* conversation ids uuid() can produce
  Messages,       \* X messages, numbered as they are sent
  OptOuts,        \* those that classifyOptOutIntent recognises
  Drafts,         \* draft ids
  LastStep,       \* the last step_order of the sequence
  MaxItems,       \* ctx.maxItems
  MaxAborts,      \* bound on crashes and failed accesses
  NoProspect, NoConversation, NoDraft

ASSUME CountsAssumption == Prospects \cup Messages \cup {LastStep, MaxItems, MaxAborts} \subseteq Nat
\* A sequence has at least the step that a first message is sent under.
ASSUME StepsAssumption == LastStep >= 1
ASSUME OptOutsAssumption == OptOuts \subseteq Messages /\ 0 \notin Messages
ASSUME NothingAssumption == /\ NoProspect \notin Prospects /\ NoConversation \notin Conversations
                            /\ NoDraft \notin Drafts

VARIABLES
  inbox,          \* inbox[p]: what p has written to us on X
  stopped,        \* prospects with a terminal outreach_status
  conversations,  \* conversations and conversation_messages
  sent,           \* sent[p]: the steps whose outreach_messages row has the status 'sent'
  everSent,       \* everSent[p]: those whose row was 'sent' at some time, which no code keeps
  drafts,         \* the prospects' drafts, but for that of the message that began the sequence
  auditLog,       \* the reply states against a follow-up that outreach.reply_detection.checked
                  \* has recorded, per prospect
  call,           \* call[a]: the job that process a is in
  aborts

world == <<inbox, stopped, sent, everSent>>
vars == <<world, conversations, drafts, auditLog, call, aborts>>

ReplyStates == {"NO_REPLY", "REPLIED", "UNKNOWN", "STOPPED", "OPTED_OUT"}
Against == {"REPLIED", "STOPPED", "OPTED_OUT"}
Intents == {"clarification", "reminder", "final_close"}

\* Times: inbound message m is written at 2 * m, and a send that follows it has the odd time after,
\* so the parity of a time is the direction.  0 is null.
Times == {0} \cup {2 * m : m \in Messages} \cup {2 * m + 1 : m \in Messages \cup {0}}

\* messages are the inbound conversation_messages, outbound the time of the last outbound one.
Conversation == [prospect: Prospects \cup {NoProspect}, messages: SUBSET Messages, outbound: Times,
                 classification: {"UNKNOWN", "OPT_OUT"}, lastMessageAt: Times]
NoRow == [prospect |-> NoProspect, messages |-> {}, outbound |-> 0, classification |-> "UNKNOWN",
          lastMessageAt |-> 0]

\* A first message's draft has neither a step nor an intent: 0 and "none".
Draft == [status: DraftStates \cup {"NONE"}, prospect: Prospects \cup {NoProspect},
          step: Nat, intent: Intents \cup {"none"}]
NoDraftYet == [status |-> "NONE", prospect |-> NoProspect, step |-> 0, intent |-> "none"]

Jobs == {"discover", "refresh", "prepare"}

\* answered is not a variable of the code: when the call took up the prospect, a finished
\* detection had found a reply, or the prospect was stopped.
Call == [pc: {"idle", "next", "detect", "fetch", "conversation", "create", "store", "fold", "update",
              "finish", "eligible", "resolve", "generate", "insert", "submit"},
         job: Jobs, todo: SUBSET Prospects, prospect: Prospects \cup {NoProspect},
         page: SUBSET Messages, conversation: Conversations \cup {NoConversation},
         replyState: ReplyStates, seen: Conversation, step: Nat,
         draft: Drafts \cup {NoDraft}, answered: BOOLEAN]

Idle == [pc |-> "idle", job |-> "refresh", todo |-> {}, prospect |-> NoProspect, page |-> {},
         conversation |-> NoConversation, replyState |-> "UNKNOWN", seen |-> NoRow, step |-> 0,
         draft |-> NoDraft, answered |-> FALSE]

\* The call goes on with its next candidate.
Next1(c) == [Idle EXCEPT !.pc = "next", !.job = c.job, !.todo = c.todo]

Init ==
  /\ inbox = [p \in Prospects |-> {}]
  /\ stopped = {}
  /\ conversations = [c \in Conversations |-> NoRow]
  /\ sent = [p \in Prospects |-> {}]
  /\ everSent = [p \in Prospects |-> {}]
  /\ drafts = [d \in Drafts |-> NoDraftYet]
  /\ auditLog = {}
  /\ call = [a \in Actors |-> Idle]
  /\ aborts = 0
-----------------------------------------------------------------------------
(* The pure parts.                                                         *)

\* findActiveSequenceCandidates: the first maxItems prospects that were sent something.
Candidates ==
  LET started == {p \in Prospects : sent[p] # {}}
  IN  {p \in started : Cardinality({q \in started : q < p}) < MaxItems}

\* deriveReplyState after a detection that succeeded; no code ever stops a conversation.
DeriveReplyState(messages) ==
  IF messages \cap OptOuts # {} THEN "OPTED_OUT"
  ELSE IF messages # {} THEN "REPLIED" ELSE "NO_REPLY"

\* Faulty variant: only what X still shows counts.
ReplyStateOfPage(c, row) == DeriveReplyState(c.page)

\* All inbound messages ever stored in the conversation count, not this page.
ReplyStateOf(c, row) == DeriveReplyState(row.messages)

\* Only silence that a detection has established lets a follow-up go on.
ProceedsOn(replyState) == replyState = "NO_REPLY"

\* pickIntent
FollowUpIntent(step) ==
  IF step >= LastStep THEN "final_close" ELSE IF step - 1 <= 1 THEN "clarification" ELSE "reminder"

\* findNextSequenceStep: the step after the highest one whose row is 'sent', if the sequence has it.
NextStep(p) == Max(sent[p]) + 1

HasNextStep(p) == sent[p] # {} /\ NextStep(p) <= LastStep

\* The conversation both services read: ORDER BY last_message_at DESC LIMIT 1.
LatestConversations(p) ==
  LET own == {c \in Conversations : conversations[c].prospect = p}
  IN  {c \in own : \A other \in own :
                     conversations[other].lastMessageAt <= conversations[c].lastMessageAt}

TierRank(tier) == CASE tier = "Reject" -> -1 [] tier = "C" -> 1 [] tier = "B" -> 2 [] tier = "A" -> 3

\* evaluateOutreachEligibility, asked of a prospect before a first message; nothing writes an
\* engaged outreach_status, and every conversation is 'active'.
OutreachEligibility(p, latest, killSwitch, score, minimumTier, hasEvidence) ==
  IF p \in stopped \/ \E c \in latest : conversations[c].classification = "OPT_OUT"
    THEN "STOPPED"
  ELSE IF killSwitch THEN "BLOCKED"
  ELSE IF \E c \in latest : conversations[c].lastMessageAt % 2 = 1 THEN "AWAITING_REPLY"
  ELSE IF score = "none" THEN "UNKNOWN"
  ELSE IF \/ score = "Reject" \/ minimumTier = "none" \/ ~hasEvidence
          \/ TierRank(score) < TierRank(minimumTier) THEN "INELIGIBLE"
  ELSE "ELIGIBLE"
-----------------------------------------------------------------------------
(* The handlers' loop.                                                     *)

Goto(a, c) == call' = [call EXCEPT ![a] = c]

Start(a, job) ==
  /\ call[a].pc = "idle"
  /\ Goto(a, [Idle EXCEPT !.pc = "next", !.job = job, !.todo = Candidates])
  /\ UNCHANGED <<world, conversations, drafts, auditLog, aborts>>

\* The eligibility service gives up at once under the kill switch; a refresh goes on.
NextCandidate(a) ==
  LET c == call[a] IN
  /\ c.pc = "next" /\ c.todo # {}
  /\ LET p == Min(c.todo)
         rest == [c EXCEPT !.todo = @ \ {p}]
     IN  \/ c.job # "refresh" /\ Goto(a, Next1(rest))
         \/ Goto(a, [rest EXCEPT !.pc = "detect", !.prospect = p, !.answered =
                         \/ p \in stopped
                         \/ \E s \in Against : <<p, s>> \in auditLog])
  /\ UNCHANGED <<world, conversations, drafts, auditLog, aborts>>

JobEnds(a) ==
  /\ call[a].pc = "next" /\ call[a].todo = {}
  /\ Goto(a, Idle)
  /\ UNCHANGED <<world, conversations, drafts, auditLog, aborts>>

\* The process dies, or an access throws and the handler goes on with the next candidate.
Abort(a) ==
  /\ call[a].pc \notin {"idle", "next"}
  /\ aborts < MaxAborts
  /\ aborts' = aborts + 1
  /\ Goto(a, Idle) \/ Goto(a, Next1(call[a]))
  /\ UNCHANGED <<world, conversations, drafts, auditLog>>
-----------------------------------------------------------------------------
(* ReplyDetectionService.detectReplies                                     *)

\* A stopped prospect, or else the kill switch, ends the detection before X is asked.
Detect(a) ==
  LET Conclude(replyState) == Goto(a, [call[a] EXCEPT !.pc = "finish", !.replyState = replyState])
  IN
  /\ call[a].pc = "detect"
  /\ IF call[a].prospect \in stopped THEN Conclude("STOPPED")
     ELSE Conclude("UNKNOWN") \/ Goto(a, [call[a] EXCEPT !.pc = "fetch"])
  /\ UNCHANGED <<world, conversations, drafts, auditLog, aborts>>

\* The adapter throws (rate limit, network, session, or the kill switch it checks again), or the
\* prospect has no x_user_id.
FetchFails(a) ==
  /\ call[a].pc = "fetch"
  /\ Goto(a, [call[a] EXCEPT !.pc = "finish", !.replyState = "UNKNOWN"])
  /\ UNCHANGED <<world, conversations, drafts, auditLog, aborts>>

\* The page shows any part of what was written; outside the first inbox page it shows nothing.
FetchPage(a, page) ==
  /\ call[a].pc = "fetch"
  /\ page \subseteq inbox[call[a].prospect]
  /\ Goto(a, [call[a] EXCEPT !.pc = "conversation", !.page = page])
  /\ UNCHANGED <<world, conversations, drafts, auditLog, aborts>>

\* getOrCreateConversation: the look-up,
FindConversation(a) ==
  LET found == LatestConversations(call[a].prospect) IN
  /\ call[a].pc = "conversation"
  /\ \/ \E c \in found : Goto(a, [call[a] EXCEPT !.pc = "store", !.conversation = c])
     \/ found = {} /\ Goto(a, [call[a] EXCEPT !.pc = "create"])
  /\ UNCHANGED <<world, conversations, drafts, auditLog, aborts>>

\* and the insert when there was none.
CreateConversation(a, c) ==
  /\ call[a].pc = "create"
  /\ conversations[c].prospect = NoProspect
  /\ conversations' = [conversations EXCEPT ![c].prospect = call[a].prospect]
  /\ Goto(a, [call[a] EXCEPT !.pc = "store", !.conversation = c])
  /\ UNCHANGED <<world, drafts, auditLog, aborts>>

\* One insert per message of the prospect's that is not stored yet.
StoreMessage(a) ==
  LET c == call[a].conversation
      new == call[a].page \ conversations[c].messages
  IN
  /\ call[a].pc = "store"
  /\ IF new = {}
       THEN /\ Goto(a, [call[a] EXCEPT !.pc = "fold"])
            /\ UNCHANGED conversations
       ELSE /\ conversations' = [conversations EXCEPT ![c].messages = @ \cup {Min(new)}]
            /\ UNCHANGED call
  /\ UNCHANGED <<world, drafts, auditLog, aborts>>

FoldReplies(a) ==
  LET row == conversations[call[a].conversation] IN
  /\ call[a].pc = "fold"
  /\ Goto(a, [call[a] EXCEPT !.pc = "update", !.page = {}, !.seen = row,
                                    !.replyState = ReplyStateOf(call[a], row)])
  /\ UNCHANGED <<world, conversations, drafts, auditLog, aborts>>

\* The most recent of all stored messages, inbound and outbound.
MostRecent(row) == Max({row.outbound} \cup {2 * m : m \in row.messages})

\* Faulty variant: the classification is left alone.
UpdateLastMessageOnly(a) ==
  LET seen == call[a].seen IN
  /\ call[a].pc = "update"
  /\ conversations' = [conversations EXCEPT ![call[a].conversation].lastMessageAt =
                         IF MostRecent(seen) = 0 THEN seen.lastMessageAt ELSE MostRecent(seen)]
  /\ Goto(a, [call[a] EXCEPT !.pc = "finish", !.seen = NoRow])
  /\ UNCHANGED <<world, drafts, auditLog, aborts>>

\* The update writes back what was read, whatever has changed since.
UpdateConversation(a) ==
  LET seen == call[a].seen
      c == call[a].conversation
  IN
  /\ call[a].pc = "update"
  /\ conversations' = [conversations EXCEPT
       ![c].classification = IF seen.messages \cap OptOuts # {} THEN "OPT_OUT" ELSE seen.classification,
       ![c].lastMessageAt = IF MostRecent(seen) = 0 THEN seen.lastMessageAt ELSE MostRecent(seen)]
  /\ Goto(a, [call[a] EXCEPT !.pc = "finish", !.seen = NoRow])
  /\ UNCHANGED <<world, drafts, auditLog, aborts>>

\* finish(): the audit record, then the job's use of the answer.
Finish(a) ==
  LET c == call[a] IN
  /\ c.pc = "finish"
  /\ auditLog' = auditLog \cup ({<<c.prospect, c.replyState>>} \cap (Prospects \X Against))
  /\ Goto(a, IF c.job = "prepare" /\ ProceedsOn(c.replyState)
               THEN [c EXCEPT !.pc = "eligible"] ELSE Next1(c))
  /\ UNCHANGED <<world, conversations, drafts, aborts>>
-----------------------------------------------------------------------------
(* FollowUpDraftService and PrepareFollowUpDraftsHandler                   *)

\* The rest of evaluateFollowUpEligibility: a next step exists, and its day_offset has passed since
\* the last one, or has not.  That it has a row already cannot be: it comes after the highest 'sent'
\* one, and no code writes a 'queued' one.
Eligible(a) ==
  /\ call[a].pc = "eligible"
  /\ \/ HasNextStep(call[a].prospect) /\ Goto(a, [call[a] EXCEPT !.pc = "resolve"])
     \/ Goto(a, Next1(call[a]))
  /\ UNCHANGED <<world, conversations, drafts, auditLog, aborts>>

\* Faulty variant: the step that was sent last is drafted again.
ResolveStepSent(a) ==
  /\ call[a].pc = "resolve" /\ sent[call[a].prospect] # {}
  /\ Goto(a, [call[a] EXCEPT !.pc = "generate", !.step = Max(sent[call[a].prospect])])
  /\ UNCHANGED <<world, conversations, drafts, auditLog, aborts>>

\* Faulty variant: the step after the last one drafted, sent or not.
ResolveStepAfterDrafts(a) ==
  LET p == call[a].prospect
      step == Max({1} \cup {drafts[d].step : d \in {e \in Drafts : drafts[e].prospect = p}}) + 1
  IN
  /\ call[a].pc = "resolve"
  /\ Goto(a, IF step <= LastStep THEN [call[a] EXCEPT !.pc = "generate", !.step = step]
             ELSE Next1(call[a]))
  /\ UNCHANGED <<world, conversations, drafts, auditLog, aborts>>

\* The step is looked up a second time: it may be another than the one that was judged due.
ResolveStep(a) ==
  LET p == call[a].prospect IN
  /\ call[a].pc = "resolve"
  /\ Goto(a, IF HasNextStep(p) THEN [call[a] EXCEPT !.pc = "generate", !.step = NextStep(p)]
             ELSE Next1(call[a]))
  /\ UNCHANGED <<world, conversations, drafts, auditLog, aborts>>

\* Those of listDraftsForProspect that are not decided, follow-up or first message.
OpenDrafts(p) == {d \in Drafts : /\ drafts[d].prospect = p
                                 /\ drafts[d].status \in DraftStates
                                 /\ ~IsTerminal(drafts[d].status)}

\* generateDraft: an open draft of the prospect is answered, whatever it was for.
GenerateDraft(a) ==
  LET open == OpenDrafts(call[a].prospect) IN
  /\ call[a].pc = "generate"
  /\ \/ /\ open = {}
        /\ Goto(a, [call[a] EXCEPT !.pc = "insert"])
     \/ \E d \in open :
          Goto(a, IF drafts[d].status = "DRAFTED"
                    THEN [call[a] EXCEPT !.pc = "submit", !.draft = d] ELSE Next1(call[a]))
  /\ UNCHANGED <<world, conversations, drafts, auditLog, aborts>>

InsertDraft(a, d) ==
  /\ call[a].pc = "insert"
  /\ drafts[d].status = "NONE"
  /\ drafts' = [drafts EXCEPT ![d] = [status |-> "DRAFTED", prospect |-> call[a].prospect,
                                      step |-> call[a].step, intent |-> FollowUpIntent(call[a].step)]]
  /\ Goto(a, [call[a] EXCEPT !.pc = "submit", !.draft = d])
  /\ UNCHANGED <<world, conversations, auditLog, aborts>>

\* submitForApproval, which throws once the draft has left DRAFTED; the handler counts the failure.
SubmitForApproval(a) ==
  LET d == call[a].draft
      next == ApplyTransition(drafts[d].status, "SUBMIT_FOR_APPROVAL")
  IN
  /\ call[a].pc = "submit"
  /\ drafts' = IF next = Invalid THEN drafts ELSE [drafts EXCEPT ![d].status = next]
  /\ Goto(a, Next1(call[a]))
  /\ UNCHANGED <<world, conversations, auditLog, aborts>>
-----------------------------------------------------------------------------
(* The people, the clock, and the sending of what was approved.            *)

Reply(p, m) ==
  /\ \A n \in inbox[p] : n < m
  /\ inbox' = [inbox EXCEPT ![p] = @ \cup {m}]
  /\ UNCHANGED <<stopped, sent, everSent>>
  /\ UNCHANGED <<conversations, drafts, auditLog, call, aborts>>

\* generateDraftForProspect: an operator has a first message drafted when no draft is open.
DraftOriginal(p, d) ==
  /\ OpenDrafts(p) = {}
  /\ drafts[d].status = "NONE"
  /\ drafts' = [drafts EXCEPT ![d] = [NoDraftYet EXCEPT !.status = "DRAFTED", !.prospect = p]]
  /\ UNCHANGED <<world, conversations, auditLog, call, aborts>>

\* An operator submits or decides a draft, or stops a prospect.
Decide(d, t) ==
  /\ drafts[d].status \in DraftStates
  /\ ApplyTransition(drafts[d].status, t) \notin {Invalid, drafts[d].status}
  /\ drafts' = [drafts EXCEPT ![d].status = ApplyTransition(@, t)]
  /\ UNCHANGED <<world, conversations, auditLog, call, aborts>>

Stop(p) ==
  /\ stopped' = stopped \cup {p}
  /\ UNCHANGED <<inbox, sent, everSent>>
  /\ UNCHANGED <<conversations, drafts, auditLog, call, aborts>>

\* SendApprovedDraftService, of which OutreachSend has the whole: only an approved draft is sent.
\* That of the first message is taken to be there; being decided, it is in no job's way.
MaySend(p, step) ==
  \/ step = 1
  \/ \E d \in Drafts : /\ drafts[d].status = "APPROVED" /\ drafts[d].prospect = p
                      /\ drafts[d].step = step

\* recordConversationMessage: the latest conversation, or a new one, holds the outbound message.
\* That a detection is between its look-up and its insert meanwhile is left out, and so is that one
\* looks between the row and this record: the prospect would have two conversations.
RecordSend(p) ==
  LET now == 2 * Max(inbox[p] \cup {0}) + 1
      rows == IF LatestConversations(p) # {} THEN LatestConversations(p)
              ELSE {c \in Conversations : conversations[c].prospect = NoProspect}
  IN  /\ \A a \in Actors : ~(call[a].pc = "create" /\ call[a].prospect = p)
      /\ \E c \in rows : conversations' = [conversations EXCEPT
           ![c].prospect = p, ![c].outbound = now, ![c].lastMessageAt = now]

\* The row becomes 'sent'.  The process may die before the record is made.
Sent(p, step) ==
  /\ MaySend(p, step) /\ step \notin sent[p]
  /\ sent' = [sent EXCEPT ![p] = @ \cup {step}]
  /\ everSent' = [everSent EXCEPT ![p] = @ \cup {step}]
  /\ \/ RecordSend(p) /\ UNCHANGED aborts
     \/ aborts < MaxAborts /\ aborts' = aborts + 1 /\ UNCHANGED conversations
  /\ UNCHANGED <<inbox, stopped, drafts, auditLog, call>>

\* The row becomes 'failed' again: its own call throws after it wrote 'sent', or one that it overlaps
\* fails.  Only over a row that had been 'failed' before: a second insert would throw instead.  That
\* no job tells a 'failed' row from none is why an attempt that fails at once changes nothing here.
TurnedBack(p, step) ==
  /\ step \in sent[p]
  /\ sent' = [sent EXCEPT ![p] = @ \ {step}]
  /\ UNCHANGED <<inbox, stopped, everSent, conversations, drafts, auditLog, call, aborts>>

Environment ==
  \/ \E p \in Prospects : Stop(p)
  \/ \E p \in Prospects, step \in 1..LastStep : Sent(p, step) \/ TurnedBack(p, step)
  \/ \E p \in Prospects, m \in Messages : Reply(p, m)
  \/ \E p \in Prospects, d \in Drafts : DraftOriginal(p, d)
  \/ \E d \in Drafts, t \in Transitions : Decide(d, t)

Step(a) ==
  \/ \E job \in Jobs : Start(a, job)
  \/ NextCandidate(a) \/ JobEnds(a) \/ Abort(a)
  \/ Detect(a) \/ FetchFails(a) \/ \E page \in SUBSET Messages : FetchPage(a, page)
  \/ FindConversation(a) \/ \E c \in Conversations : CreateConversation(a, c)
  \/ StoreMessage(a) \/ FoldReplies(a)
  \/ UpdateConversation(a) \/ Finish(a)
  \/ Eligible(a) \/ ResolveStep(a) \/ GenerateDraft(a) \/ SubmitForApproval(a)
  \/ \E d \in Drafts : InsertDraft(a, d)

Next == Environment \/ \E a \in Actors : Step(a)

Spec == Init /\ [][Next]_vars
-----------------------------------------------------------------------------
\* Every row and every job in progress has the fields the code gives it, and no follow-up is ever
\* drafted for the first message or past the sequence's last step.
FollowUpTypeOK ==
  /\ inbox \in [Prospects -> SUBSET Messages]
  /\ stopped \subseteq Prospects
  /\ conversations \in [Conversations -> Conversation]
  /\ {sent, everSent} \subseteq [Prospects -> SUBSET (1..LastStep)]
  /\ drafts \in [Drafts -> Draft]
  /\ \A d \in Drafts : drafts[d].step \in {0} \cup 2..LastStep
  /\ auditLog \subseteq Prospects \X Against
  /\ call \in [Actors -> Call]
  /\ aborts \in 0..MaxAborts

\* Once a detection has recorded a reply or an opt-out, or the prospect was stopped, no job that
\* takes the prospect up afterwards gets as far as drafting or submitting a follow-up: not when X
\* no longer shows the reply, not when the next look at X fails, not after a crash half-way.
RepliesEndFollowUps ==
  \A a \in Actors :
    call[a].answered => call[a].pc \notin {"eligible", "resolve", "generate", "insert", "submit"}

\* Once a detection has recorded an opt-out, the prospect is stopped for every later outreach,
\* whatever the kill switch, its score, the configured threshold and its evidence say.
OptOutIsFinal ==
  \A p \in Prospects : <<p, "OPTED_OUT">> \in auditLog =>
    LET latest == LatestConversations(p) IN
    \A score \in {"none", "Reject", "C", "B", "A"}, tier \in {"none", "C", "B", "A"},
       active, known \in BOOLEAN :
         OutreachEligibility(p, latest, active, score, tier, known) = "STOPPED"

\* A follow-up only ever continues: one for a step is drafted only after the message of every step
\* before it was recorded as sent, through the second look-up, sends that overtake it, attempts
\* that fail and 'sent' rows that a call turns back to 'failed'.
FollowUpsContinueTheSequence ==
  \A d \in Drafts : \A step \in 1..LastStep :
    step < drafts[d].step => step \in everSent[drafts[d].prospect]
=============================================================================
