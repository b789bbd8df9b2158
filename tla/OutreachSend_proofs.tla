------------------------- MODULE OutreachSend_proofs -------------------------
(***************************************************************************)
(* What holds of send() for any number of overlapping senders, any drafts, *)
(* any limit and any number of retries: the typing, the bound on what      *)
(* leaves after the kill switch is activated, the approval of everything   *)
(* that arrives, the bound on overshooting the daily limit, and what a row *)
(* that blocks a resend gives way to.  And, for calls that do not overlap, *)
(* the record: such a row is never posted over and never gives way.        *)
(***************************************************************************)
EXTENDS OutreachSend, FiniteSetTheorems, TLAPS

\* A call in progress is about a draft.
CallsHaveDrafts == \A s \in Senders : send[s].pc # "idle" => send[s].draft \in Drafts

Typed == TypeOK /\ CallsHaveDrafts

LEMMA SequencesAreNumbered == Cardinality(Senders) \in Nat /\ Cardinality(Senders) > 0
<1>1. IsFiniteSet(Senders)  BY SendersAssumption
<1>2. Cardinality(Senders) \in Nat  BY <1>1, FS_CardinalityType
<1>3. Cardinality(Senders) # 0  BY <1>1, SendersAssumption, FS_EmptySet
<1> QED  BY <1>2, <1>3

\* The key of a call in progress is a key of outreach_messages.
LEMMA KeyOfTyped ==
  ASSUME Typed, NEW s \in Senders, send[s].pc # "idle"
  PROVE  KeyOf(s) \in Keys
<1>1. send[s].draft \in Drafts /\ send[s].sequence \in Sequences
  BY DEF Typed, CallsHaveDrafts, TypeOK, SendState
<1> QED  BY <1>1, DraftsAssumption DEF KeyOf, Keys

\* send() never leaves the states its variables are declared for.
LEMMA TypedInit == Init => Typed
<1> SUFFICES ASSUME Init PROVE Typed  OBVIOUS
<1>1. Idle \in SendState  BY SequencesAreNumbered DEF Idle, SendState, Sequences, Places
<1>2. NoRow \in RowState  BY DEF NoRow, RowState
<1>3. send \in [Senders -> SendState] /\ CallsHaveDrafts
  BY <1>1 DEF Init, CallsHaveDrafts, Idle
<1>4. rows \in [Keys -> RowState]
  BY <1>2 DEF Init
<1>5. manualIds \in 0..Cardinality(Senders)
  BY SequencesAreNumbered DEF Init
<1>6. killSwitch \in BOOLEAN /\ draftStatus \in [Drafts -> {"PENDING_APPROVAL", "APPROVED", "REJECTED"}]
  BY DEF Init
<1>7. recorded \in [Drafts -> Nat] /\ inbox \in [Drafts -> Nat] /\ killedPosts \in [Senders -> Nat]
  BY DEF Init
<1> QED  BY <1>3, <1>4, <1>5, <1>6, <1>7 DEF Typed, TypeOK

LEMMA TypedStep == Typed /\ [Next]_vars => Typed'
<1> SUFFICES ASSUME Typed, [Next]_vars PROVE Typed'  OBVIOUS
<1> USE DEF Typed
<1>0. Idle \in SendState /\ Idle.pc = "idle"
  BY SequencesAreNumbered DEF Idle, SendState, Sequences, Places
<1> USE SequencesAreNumbered
<1>goto. ASSUME NEW s \in Senders, NEW pc \in Places, send[s].pc # "idle", Goto(s, pc)
         PROVE  send' \in [Senders -> SendState] /\ CallsHaveDrafts'
  BY <1>goto DEF Goto, TypeOK, CallsHaveDrafts, SendState
<1>return. ASSUME NEW s \in Senders, Return(s)
           PROVE  send' \in [Senders -> SendState] /\ CallsHaveDrafts'
  BY <1>return, <1>0 DEF Return, TypeOK, CallsHaveDrafts
<1>call. ASSUME NEW s \in Senders, NEW call \in SendState, call.pc # "idle" => call.draft \in Drafts,
                send' = [send EXCEPT ![s] = call]
         PROVE  send' \in [Senders -> SendState] /\ CallsHaveDrafts'
  BY <1>call DEF TypeOK, CallsHaveDrafts
<1>fail. ASSUME NEW s \in Senders, NEW ambiguous \in BOOLEAN, send[s].pc # "idle",
                Fail(s, ambiguous)
         PROVE  send' \in [Senders -> SendState] /\ CallsHaveDrafts'
  <2> DEFINE call == [send[s] EXCEPT !.pc = "saveFailed", !.ambiguous = ambiguous]
  <2>1. call \in SendState /\ call.draft \in Drafts
    BY <1>fail, ZenonT(40) DEF TypeOK, CallsHaveDrafts, SendState, Places
  <2>2. send' = [send EXCEPT ![s] = call]
    BY <1>fail DEF Fail, TypeOK, SendState
  <2> HIDE DEF call
  <2> QED  BY <2>1, <2>2, <1>call
<1>1. ASSUME NEW s \in Senders, NEW d \in Drafts, BeginSend(s, d) PROVE Typed'
  BY <1>1, <1>0 DEF BeginSend, TypeOK, CallsHaveDrafts, Store, Observed, Idle, SendState, Sequences, Places
<1>2. ASSUME NEW s \in Senders, LoadDraft(s) PROVE Typed'
  <2>1. Return(s) \/ \E pc \in Places : Goto(s, pc)
    BY <1>2 DEF LoadDraft, Places
  <2> QED  BY <1>2, <2>1, <1>goto, <1>return DEF LoadDraft, TypeOK, Store, Observed
<1>3. ASSUME NEW s \in Senders, RecheckEligibility(s) PROVE Typed'
  <2>1. Return(s) \/ \E pc \in Places : Goto(s, pc)
    BY <1>3 DEF RecheckEligibility, Places
  <2> QED  BY <1>3, <2>1, <1>goto, <1>return DEF RecheckEligibility, TypeOK, Store, Observed
<1>4. ASSUME NEW s \in Senders, FindManualSequence(s) PROVE Typed'
  <2> DEFINE call == [send[s] EXCEPT !.pc = "lookup", !.sequence = 1]
  <2>1. 1 \in Sequences /\ "createSequence" \in Places  BY DEF Sequences, Places
  <2>2. call \in SendState /\ call.draft \in Drafts
    BY <1>4, <2>1, ZenonT(40) DEF FindManualSequence, TypeOK, CallsHaveDrafts, SendState, Places
  <2>3. send' = [send EXCEPT ![s] = call] \/ Goto(s, "createSequence")
    BY <1>4 DEF FindManualSequence, TypeOK, SendState
  <2> HIDE DEF call
  <2>4. send' \in [Senders -> SendState] /\ CallsHaveDrafts'
    BY <1>4, <2>1, <2>2, <2>3, <1>call, <1>goto DEF FindManualSequence
  <2> QED  BY <1>4, <2>4 DEF FindManualSequence, TypeOK, Store, Observed
<1>5. ASSUME NEW s \in Senders, CreateManualSequence(s) PROVE Typed'
  <2> DEFINE call == [send[s] EXCEPT !.pc = "lookup", !.sequence = manualIds + 1]
  <2>1. manualIds + 1 \in Sequences /\ manualIds' \in 0..Cardinality(Senders)
    BY <1>5 DEF CreateManualSequence, TypeOK, Sequences
  <2>2. call \in SendState /\ call.draft \in Drafts
    BY <1>5, <2>1, ZenonT(40) DEF CreateManualSequence, TypeOK, CallsHaveDrafts, SendState, Places
  <2>3. send' = [send EXCEPT ![s] = call]
    BY <1>5 DEF CreateManualSequence, TypeOK, SendState
  <2> HIDE DEF call
  <2>4. send' \in [Senders -> SendState] /\ CallsHaveDrafts'
    BY <2>2, <2>3, <1>call
  <2> QED  BY <1>5, <2>1, <2>4 DEF CreateManualSequence, TypeOK, Observed
<1>6. ASSUME NEW s \in Senders, LookupExisting(s) PROVE Typed'
  BY <1>6, <1>0 DEF LookupExisting, TypeOK, CallsHaveDrafts, Store, Observed, Return, SendState, Places, PastLimit
<1>7. ASSUME NEW s \in Senders, CheckDailyLimit(s) PROVE Typed'
  <2>1. Return(s) \/ \E pc \in Places : Goto(s, pc)
    BY <1>7 DEF CheckDailyLimit, Places, PastLimit
  <2> QED  BY <1>7, <2>1, <1>goto, <1>return DEF CheckDailyLimit, TypeOK, Store, Observed
<1>8. ASSUME NEW s \in Senders, RecheckKillSwitch(s) PROVE Typed'
  <2>1. Return(s) \/ \E pc \in Places : Goto(s, pc)
    BY <1>8 DEF RecheckKillSwitch, Places, PastLimit
  <2> QED  BY <1>8, <2>1, <1>goto, <1>return DEF RecheckKillSwitch, TypeOK, Store, Observed
<1>9. ASSUME NEW s \in Senders, AdapterPreconditions(s) PROVE Typed'
  <2>1. Goto(s, "post") \/ \E ambiguous \in BOOLEAN : Fail(s, ambiguous)
    BY <1>9 DEF AdapterPreconditions
  <2>2. "post" \in Places  BY DEF Places, PastLimit
  <2> QED  BY <1>9, <2>1, <2>2, <1>goto, <1>fail DEF AdapterPreconditions, TypeOK, Store, Observed
<1>req. ASSUME NEW s \in Senders, NEW delivered \in BOOLEAN, Request(s, delivered)
        PROVE  /\ inbox' \in [Drafts -> Nat]
               /\ killedPosts' \in [Senders -> Nat]
               /\ UNCHANGED Store
  BY <1>req, BoundsAssumption DEF Request, TypeOK, CallsHaveDrafts, Bump
<1>10. ASSUME NEW s \in Senders, NEW delivered \in BOOLEAN, RequestSucceeds(s, delivered) PROVE Typed'
  <2> DEFINE call == [send[s] EXCEPT !.pc = "saveSent", !.through = @ \/ delivered]
  <2>a. call \in SendState /\ call.draft \in Drafts
    BY <1>10, ZenonT(40) DEF RequestSucceeds, Request, TypeOK, CallsHaveDrafts, SendState, Places, PastLimit
  <2>b. send' = [send EXCEPT ![s] = call]
    BY <1>10 DEF RequestSucceeds, TypeOK, SendState
  <2> HIDE DEF call
  <2>1. send' \in [Senders -> SendState] /\ CallsHaveDrafts'
    BY <2>a, <2>b, <1>call
  <2> QED  BY <1>10, <2>1, <1>req DEF RequestSucceeds, TypeOK, Store
<1>11. ASSUME NEW s \in Senders, NEW delivered \in BOOLEAN, RequestAnsweredWithError(s, delivered)
       PROVE  Typed'
  <2> DEFINE call == [send[s] EXCEPT !.pc = "saveFailed", !.ambiguous = FALSE, !.through = FALSE]
  <2>a. call \in SendState /\ call.draft \in Drafts
    BY <1>11, ZenonT(40) DEF RequestAnsweredWithError, Request, TypeOK, CallsHaveDrafts, SendState, Places
  <2>b. send' = [send EXCEPT ![s] = call]
    BY <1>11 DEF RequestAnsweredWithError, TypeOK, SendState
  <2> HIDE DEF call
  <2>1. send' \in [Senders -> SendState] /\ CallsHaveDrafts'
    BY <2>a, <2>b, <1>call
  <2> QED  BY <1>11, <2>1, <1>req DEF RequestAnsweredWithError, TypeOK, Store
<1>12. ASSUME NEW s \in Senders, NEW delivered \in BOOLEAN, RequestLost(s, delivered) PROVE Typed'
  <2> DEFINE again == [send[s] EXCEPT !.attempt = @ + 1, !.through = @ \/ delivered]
             last  == [send[s] EXCEPT !.pc = "saveFailed", !.ambiguous = TRUE, !.through = @ \/ delivered]
  <2>0. send[s] \in SendState /\ send[s].draft \in Drafts
    BY <1>12 DEF RequestLost, Request, TypeOK, CallsHaveDrafts
  <2>1. (send[s].through \/ delivered) \in BOOLEAN /\ "saveFailed" \in Places
    BY DEF Places
  <2>a. again \in SendState /\ again.draft \in Drafts
    <3>1. send[s].attempt + 1 \in Nat
      BY <2>0 DEF SendState
    <3>2. [send[s] EXCEPT !.attempt = send[s].attempt + 1] \in SendState
      BY <2>0, <3>1 DEF SendState
    <3> QED  BY <2>0, <2>1, <3>1, <3>2 DEF SendState
  <2>b. last \in SendState /\ last.draft \in Drafts
    BY <2>0, <2>1 DEF SendState
  <2>c. send' = [send EXCEPT ![s] = again] \/ send' = [send EXCEPT ![s] = last]
    BY <1>12 DEF RequestLost, TypeOK, SendState
  <2> HIDE DEF again, last
  <2>d. send' \in [Senders -> SendState] /\ CallsHaveDrafts'
    BY <2>a, <2>b, <2>c, <1>call
  <2> QED  BY <1>12, <2>d, <1>req DEF RequestLost, TypeOK, Store
<1>13. ASSUME NEW s \in Senders, SaveSent(s) PROVE Typed'
  <2>1. rows' \in [Keys -> RowState]
    <3>1. SentRow \in RowState  BY DEF SentRow, RowState
    <3> QED  BY <1>13, <3>1 DEF SaveSent, TypeOK
  <2>2. Fail(s, TRUE) \/ Goto(s, "record")
    BY <1>13 DEF SaveSent
  <2>3. "record" \in Places  BY DEF Places
  <2> QED  BY <1>13, <2>1, <2>2, <2>3, <1>goto, <1>fail DEF SaveSent, TypeOK, Observed
<1>14. ASSUME NEW s \in Senders, RecordConversationMessage(s) PROVE Typed'
  <2>1. recorded' \in [Drafts -> Nat]
    BY <1>14, BoundsAssumption DEF RecordConversationMessage, TypeOK, CallsHaveDrafts, Bump
  <2>2. Goto(s, "audit") /\ "audit" \in Places
    BY <1>14 DEF RecordConversationMessage, Places
  <2> QED  BY <1>14, <2>1, <2>2, <1>goto DEF RecordConversationMessage, TypeOK, Observed
<1>15. ASSUME NEW s \in Senders, FinishSent(s) PROVE Typed'
  BY <1>15, <1>return DEF FinishSent, TypeOK, Store, Observed
<1>16. ASSUME NEW s \in Senders, DatabaseThrows(s) PROVE Typed'
  BY <1>16, <1>fail DEF DatabaseThrows, TypeOK, Store, Observed
<1>17. ASSUME NEW s \in Senders, SaveFailed(s) PROVE Typed'
  <2>1. rows' \in [Keys -> RowState]
    BY <1>17 DEF SaveFailed, TypeOK, RowState, FailedRow, SendState
  <2> QED  BY <1>17, <1>return, <2>1 DEF SaveFailed, TypeOK, Observed
<1>18. ASSUME NEW s \in Senders, Crash(s) PROVE Typed'
  BY <1>18, <1>return DEF Crash, TypeOK, Store, Observed
<1>19. ASSUME Environment PROVE Typed'
  <2>1. ASSUME NEW d \in Drafts, NEW decision \in {"APPROVED", "REJECTED"}, Decide(d, decision)
        PROVE  Typed'
    BY <2>1 DEF Decide, TypeOK, CallsHaveDrafts, Observed
  <2>2. CASE ActivateKillSwitch
    BY <2>2 DEF ActivateKillSwitch, TypeOK, CallsHaveDrafts, Observed
  <2>3. CASE DeactivateKillSwitch
    BY <2>3 DEF DeactivateKillSwitch, TypeOK, CallsHaveDrafts
  <2>4. ASSUME NEW k \in Keys, LeaveWindow(k) PROVE Typed'
    <3>1. [rows[k] EXCEPT !.recent = FALSE] \in RowState
      BY DEF TypeOK, RowState
    <3>2. rows' = [rows EXCEPT ![k] = [rows[k] EXCEPT !.recent = FALSE]]
      BY <2>4 DEF LeaveWindow, TypeOK, RowState
    <3>3. rows' \in [Keys -> RowState]
      BY <3>1, <3>2 DEF TypeOK
    <3> QED  BY <2>4, <3>3 DEF LeaveWindow, TypeOK, CallsHaveDrafts, Observed
  <2> QED  BY <1>19, <2>1, <2>2, <2>3, <2>4 DEF Environment
<1>20. CASE UNCHANGED vars
  BY <1>20 DEF vars, TypeOK, CallsHaveDrafts
<1> QED
  BY <1>1, <1>2, <1>3, <1>4, <1>5, <1>6, <1>7, <1>8, <1>9, <1>10, <1>11, <1>12, <1>13, <1>14, <1>15,
     <1>16, <1>17, <1>18, <1>19, <1>20 DEF Next, SendStep

\* Every variable of send() keeps its type, and a call in progress is about a draft.
THEOREM TypeCorrect == Spec => []TypeOK
<1>1. Typed => TypeOK  BY DEF Typed
<1> QED  BY <1>1, TypedInit, TypedStep, PTL DEF Spec
-----------------------------------------------------------------------------
(* What a step of a call in progress may change, the fact every safety     *)
(* invariant below rests on: BeginSend and the environment aside, a step   *)
(* moves one call along, and only certain steps may enter the interesting  *)
(* part of it.                                                             *)

CallStep(s) == SendStep(s) \/ DatabaseThrows(s) \/ Crash(s)

\* The call keeps its draft or ends, and it passes "load" for an approved draft only.
KeepsItsDraft(s) ==
  /\ \A t \in Senders \ {s} : send'[t] = send[t]
  /\ \/ send'[s] = Idle
     \/ /\ send[s].pc # "idle"
        /\ send'[s].pc \notin {"idle", "load"}
        /\ send'[s].draft = send[s].draft
        /\ send[s].pc = "load" => draftStatus[send[s].draft] = "APPROVED"

\* It arrives at a prospect by a request, for its own draft.
DeliversItsDraft(s) ==
  \/ inbox' = inbox
  \/ /\ send[s].pc = "post"
     /\ \A d \in Drafts : d # send[s].draft => inbox'[d] = inbox[d]

\* It starts posting only while the switch is off, and every request uses up one attempt.
PostsWithinAttempts(s) ==
  /\ \A t \in Senders \ {s} : killedPosts'[t] = killedPosts[t]
  /\ \/ /\ send[s].pc # "post"
        /\ killedPosts' = killedPosts
        /\ send'[s] = Idle \/ send'[s].attempt = send[s].attempt
        /\ send'[s].pc = "post" => ~killSwitch
     \/ /\ send[s].pc = "post"
        /\ killedPosts'[s] = killedPosts[s] + (IF killSwitch THEN 1 ELSE 0)
        /\ \/ send'[s].pc # "post" /\ send'[s].attempt = send[s].attempt
           \/ send[s].attempt < MaxRetries /\ send'[s].attempt = send[s].attempt + 1
     \/ send'[s] = Idle /\ killedPosts' = killedPosts

\* It passes the limit check only below the limit, and adds one 'sent' row on the way out.
CountsTowardsLimit(s) ==
  /\ \/ send'[s].pc \notin PastLimit
     \/ send[s].pc \in PastLimit
     \/ ~(Cardinality(SentRecently) >= DailyLimit)
  /\ \/ SentRecently' \subseteq SentRecently
     \/ /\ send[s].pc \in PastLimit /\ send'[s].pc \notin PastLimit
        /\ SentRecently' \subseteq SentRecently \cup {KeyOf(s)}

\* Recording a row cannot make another row count as sent within the window.
LEMMA RecordingRows ==
  ASSUME Typed, NEW k \in Keys, NEW row \in RowState, rows' = [rows EXCEPT ![k] = row]
  PROVE  /\ SentRecently' \subseteq SentRecently \cup {k}
         /\ row.status # "sent" => SentRecently' \subseteq SentRecently
  BY DEF Typed, TypeOK, SentRecently

LEMMA CallSteps ==
  ASSUME Typed, NEW s \in Senders, CallStep(s)
  PROVE  /\ UNCHANGED <<killSwitch, draftStatus>>
         /\ KeepsItsDraft(s)
         /\ DeliversItsDraft(s)
         /\ PostsWithinAttempts(s)
         /\ CountsTowardsLimit(s)
<1> DEFINE Shape == /\ UNCHANGED <<killSwitch, draftStatus>>
                    /\ KeepsItsDraft(s)
                    /\ DeliversItsDraft(s)
                    /\ PostsWithinAttempts(s)
                    /\ CountsTowardsLimit(s)
<1> USE DEF KeepsItsDraft, DeliversItsDraft, PostsWithinAttempts, CountsTowardsLimit
<1>0. /\ send \in [Senders -> SendState]
      /\ send[s] \in SendState
      /\ Idle \in SendState /\ Idle.pc = "idle" /\ Idle.attempt = 0
      /\ "idle" \notin PastLimit
  BY SequencesAreNumbered DEF Typed, TypeOK, Idle, SendState, Sequences, Places, PastLimit
<1>quiet. UNCHANGED rows => SentRecently' = SentRecently
  BY DEF SentRecently
<1>1. ASSUME LoadDraft(s) PROVE Shape
  BY <1>1, <1>0, <1>quiet DEF LoadDraft, Goto, Return, Store, Observed, PastLimit, SendState
<1>2. ASSUME RecheckEligibility(s) PROVE Shape
  BY <1>2, <1>0, <1>quiet DEF RecheckEligibility, Goto, Return, Store, Observed, PastLimit, SendState
<1>3. ASSUME FindManualSequence(s) PROVE Shape
  BY <1>3, <1>0, <1>quiet DEF FindManualSequence, Goto, Store, Observed, PastLimit, SendState
<1>4. ASSUME CreateManualSequence(s) PROVE Shape
  BY <1>4, <1>0, <1>quiet DEF CreateManualSequence, Observed, PastLimit, SendState
<1>5. ASSUME LookupExisting(s) PROVE Shape
  BY <1>5, <1>0, <1>quiet DEF LookupExisting, Return, Store, Observed, PastLimit, SendState
<1>6. ASSUME CheckDailyLimit(s) PROVE Shape
  <2>1. CASE Cardinality(SentRecently) >= DailyLimit
    BY <1>6, <2>1, <1>0, <1>quiet DEF CheckDailyLimit, Return, Store, Observed, SendState
  <2>2. CASE ~(Cardinality(SentRecently) >= DailyLimit)
    BY <1>6, <2>2, <1>0, <1>quiet DEF CheckDailyLimit, Goto, Store, Observed, SendState
  <2> QED  BY <2>1, <2>2
<1>7. ASSUME RecheckKillSwitch(s) PROVE Shape
  BY <1>7, <1>0, <1>quiet DEF RecheckKillSwitch, Goto, Return, Store, Observed, PastLimit, SendState
<1>8. ASSUME AdapterPreconditions(s) PROVE Shape
  BY <1>8, <1>0, <1>quiet DEF AdapterPreconditions, KillSwitchActive, Goto, Fail, Store, Observed, PastLimit, SendState
<1>9. ASSUME NEW delivered \in BOOLEAN, RequestSucceeds(s, delivered) PROVE Shape
  BY <1>9, <1>0, <1>quiet DEF RequestSucceeds, Request, Store, PastLimit, SendState, Typed, TypeOK
<1>10. ASSUME NEW delivered \in BOOLEAN, RequestAnsweredWithError(s, delivered) PROVE Shape
  BY <1>10, <1>0, <1>quiet DEF RequestAnsweredWithError, Request, Store, PastLimit, SendState, Typed, TypeOK
<1>11. ASSUME NEW delivered \in BOOLEAN, RequestLost(s, delivered) PROVE Shape
  BY <1>11, <1>0, <1>quiet DEF RequestLost, Request, Store, PastLimit, SendState, Typed, TypeOK
<1>12. ASSUME SaveSent(s) PROVE Shape
  <2>1. KeyOf(s) \in Keys /\ SentRow \in RowState
    BY <1>12, KeyOfTyped DEF SaveSent, SentRow, RowState
  <2>2. SentRecently' \subseteq SentRecently \cup {KeyOf(s)}
    BY <1>12, <2>1, <1>quiet, RecordingRows DEF SaveSent
  <2>3. Goto(s, "record") \/ Fail(s, TRUE)
    BY <1>12 DEF SaveSent
  <2> QED
    BY <1>12, <2>2, <2>3, <1>0 DEF SaveSent, Goto, Fail, Observed, PastLimit, SendState
<1>13. ASSUME RecordConversationMessage(s) PROVE Shape
  BY <1>13, <1>0, <1>quiet DEF RecordConversationMessage, Goto, Observed, PastLimit, SendState
<1>14. ASSUME FinishSent(s) PROVE Shape
  BY <1>14, <1>0, <1>quiet DEF FinishSent, Return, Store, Observed, PastLimit, SendState
<1>15. ASSUME SaveFailed(s) PROVE Shape
  <2> DEFINE row == FailedRow(send[s].ambiguous)
  <2>1. KeyOf(s) \in Keys /\ row \in RowState /\ row.status # "sent"
    BY <1>15, <1>0, KeyOfTyped DEF SaveFailed, FailedRow, RowState, SendState
  <2>2. UNCHANGED rows \/ rows' = [rows EXCEPT ![KeyOf(s)] = row]
    BY <1>15 DEF SaveFailed
  <2> HIDE DEF row
  <2>3. SentRecently' \subseteq SentRecently
    BY <2>1, <2>2, <1>quiet, RecordingRows
  <2> QED
    BY <1>15, <2>3, <1>0 DEF SaveFailed, Return, Observed, PastLimit, SendState
<1>16. ASSUME DatabaseThrows(s) PROVE Shape
  BY <1>16, <1>0, <1>quiet DEF DatabaseThrows, Fail, Store, Observed, PastLimit, SendState
<1>17. ASSUME Crash(s) PROVE Shape
  BY <1>17, <1>0, <1>quiet DEF Crash, Return, Store, Observed, PastLimit, SendState
<1> QED
  BY <1>1, <1>2, <1>3, <1>4, <1>5, <1>6, <1>7, <1>8, <1>9, <1>10, <1>11, <1>12, <1>13, <1>14, <1>15,
     <1>16, <1>17 DEF CallStep, SendStep

\* Every step of the system is a call's step, a new call, an environment step or a stutter.
LEMMA StepKinds ==
  ASSUME [Next]_vars
  PROVE  \/ \E s \in Senders : CallStep(s)
         \/ \E s \in Senders, d \in Drafts : BeginSend(s, d)
         \/ \E d \in Drafts, decision \in {"APPROVED", "REJECTED"} : Decide(d, decision)
         \/ ActivateKillSwitch
         \/ DeactivateKillSwitch
         \/ \E k \in Keys : LeaveWindow(k)
         \/ UNCHANGED vars
  BY DEF Next, Environment, CallStep
-----------------------------------------------------------------------------
(* Approval.  A call past the check in LoadDraft is about an approved      *)
(* draft, and stays so: a decision is only made on a pending draft.        *)

ApprovedPastLoad ==
  \A s \in Senders : send[s].pc \notin {"idle", "load"} => draftStatus[send[s].draft] = "APPROVED"

ApprovalInv == Typed /\ ApprovedPastLoad /\ OnlyApprovedDraftsArrive

LEMMA ApprovalInit == Init => ApprovalInv
<1> SUFFICES ASSUME Init PROVE ApprovalInv  OBVIOUS
<1>1. ApprovedPastLoad  BY DEF Init, ApprovedPastLoad, Idle
<1>2. OnlyApprovedDraftsArrive  BY DEF Init, OnlyApprovedDraftsArrive
<1> QED  BY <1>1, <1>2, TypedInit DEF ApprovalInv

LEMMA ApprovalStep == ApprovalInv /\ [Next]_vars => ApprovalInv'
<1> SUFFICES ASSUME ApprovalInv, [Next]_vars
             PROVE  ApprovedPastLoad' /\ OnlyApprovedDraftsArrive'
  BY TypedStep DEF ApprovalInv
<1> USE DEF ApprovalInv, ApprovedPastLoad, OnlyApprovedDraftsArrive
<1>1. ASSUME NEW s \in Senders, CallStep(s)
      PROVE  ApprovedPastLoad' /\ OnlyApprovedDraftsArrive'
  <2>1. UNCHANGED draftStatus /\ KeepsItsDraft(s) /\ DeliversItsDraft(s)
    BY <1>1, CallSteps
  <2>2. ApprovedPastLoad'
    BY <2>1 DEF KeepsItsDraft, Idle
  <2>3. OnlyApprovedDraftsArrive'
    BY <2>1 DEF DeliversItsDraft
  <2> QED  BY <2>2, <2>3
<1>2. ASSUME NEW s \in Senders, NEW d \in Drafts, BeginSend(s, d)
      PROVE  ApprovedPastLoad' /\ OnlyApprovedDraftsArrive'
  BY <1>2 DEF BeginSend, Store, Observed, Typed, TypeOK, Idle
<1>3. ASSUME NEW d \in Drafts, NEW decision \in {"APPROVED", "REJECTED"}, Decide(d, decision)
      PROVE  ApprovedPastLoad' /\ OnlyApprovedDraftsArrive'
  BY <1>3 DEF Decide, Observed, Typed, TypeOK, CallsHaveDrafts
<1>4. CASE ActivateKillSwitch  BY <1>4 DEF ActivateKillSwitch, Observed
<1>5. CASE DeactivateKillSwitch  BY <1>5 DEF DeactivateKillSwitch
<1>6. ASSUME NEW k \in Keys, LeaveWindow(k)
      PROVE  ApprovedPastLoad' /\ OnlyApprovedDraftsArrive'
  BY <1>6 DEF LeaveWindow, Observed
<1>7. CASE UNCHANGED vars  BY <1>7 DEF vars
<1> QED  BY <1>1, <1>2, <1>3, <1>4, <1>5, <1>6, <1>7, StepKinds

\* Only text of drafts a human approved reaches a prospect, however many calls overlap.
THEOREM OnlyApproved == Spec => []OnlyApprovedDraftsArrive
<1>1. ApprovalInv => OnlyApprovedDraftsArrive  BY DEF ApprovalInv
<1> QED  BY <1>1, ApprovalInit, ApprovalStep, PTL DEF Spec
-----------------------------------------------------------------------------
(* Kill switch.  While the switch is on, the requests a sender has made    *)
(* plus those its current call may still make stay within one call's worth; *)
(* while it is off the requests are not counted.                           *)

AttemptsLeft(s) == IF send[s].pc = "post" THEN MaxRetries + 1 - send[s].attempt ELSE 0

RequestBudget ==
  \A s \in Senders :
    /\ send[s].attempt <= MaxRetries
    /\ killSwitch => killedPosts[s] + AttemptsLeft(s) <= MaxRetries + 1
    /\ ~killSwitch => killedPosts[s] = 0

KillInv == Typed /\ RequestBudget

LEMMA KillInit == Init => KillInv
<1> SUFFICES ASSUME Init PROVE RequestBudget
  BY TypedInit DEF KillInv
<1> QED  BY BoundsAssumption DEF Init, RequestBudget, Idle

LEMMA KillStep == KillInv /\ [Next]_vars => KillInv'
<1> SUFFICES ASSUME KillInv, [Next]_vars PROVE RequestBudget'
  BY TypedStep DEF KillInv
<1> USE BoundsAssumption DEF KillInv
<1>0. Typed /\ Typed'  BY TypedStep
<1>num. \A t \in Senders : /\ send[t].attempt \in Nat /\ killedPosts[t] \in Nat
                           /\ send'[t].attempt \in Nat /\ killedPosts'[t] \in Nat
  BY <1>0 DEF Typed, TypeOK, SendState
<1>1. ASSUME NEW s \in Senders, CallStep(s) PROVE RequestBudget'
  <2>1. UNCHANGED killSwitch /\ KeepsItsDraft(s) /\ PostsWithinAttempts(s)
    BY <1>1, CallSteps
  <2>2. ASSUME NEW t \in Senders, t # s
        PROVE  /\ send'[t].attempt <= MaxRetries
               /\ killSwitch' => killedPosts'[t] + AttemptsLeft(t)' <= MaxRetries + 1
               /\ ~killSwitch' => killedPosts'[t] = 0
    BY <2>1, <2>2, <1>num DEF KeepsItsDraft, PostsWithinAttempts, RequestBudget, AttemptsLeft
  <2>3. send'[s].attempt <= MaxRetries
    BY <2>1, <1>num DEF PostsWithinAttempts, RequestBudget, Idle
  <2>4. /\ killSwitch' => killedPosts'[s] + AttemptsLeft(s)' <= MaxRetries + 1
        /\ ~killSwitch' => killedPosts'[s] = 0
    BY <2>1, <1>num DEF PostsWithinAttempts, RequestBudget, AttemptsLeft, Idle
  <2> QED  BY <2>2, <2>3, <2>4 DEF RequestBudget
<1>2. ASSUME NEW s \in Senders, NEW d \in Drafts, BeginSend(s, d) PROVE RequestBudget'
  BY <1>2, <1>0, <1>num DEF BeginSend, KillSwitchActive, Store, Observed, Typed, TypeOK, Idle,
                            RequestBudget, AttemptsLeft
<1>3. ASSUME NEW d \in Drafts, NEW decision \in {"APPROVED", "REJECTED"}, Decide(d, decision)
      PROVE  RequestBudget'
  BY <1>3 DEF Decide, Observed, RequestBudget, AttemptsLeft
<1>4. CASE ActivateKillSwitch
  BY <1>4, <1>num DEF ActivateKillSwitch, Observed, RequestBudget, AttemptsLeft
<1>5. CASE DeactivateKillSwitch
  BY <1>5 DEF DeactivateKillSwitch, RequestBudget, AttemptsLeft
<1>6. ASSUME NEW k \in Keys, LeaveWindow(k) PROVE RequestBudget'
  BY <1>6 DEF LeaveWindow, Observed, RequestBudget, AttemptsLeft
<1>7. CASE UNCHANGED vars  BY <1>7 DEF vars, RequestBudget, AttemptsLeft
<1> QED  BY <1>1, <1>2, <1>3, <1>4, <1>5, <1>6, <1>7, StepKinds

\* After the kill switch is activated a sender makes at most the requests of one call.
THEOREM KillSwitchBound == Spec => []KillSwitchBoundsRequests
<1>1. KillInv => KillSwitchBoundsRequests
  <2> SUFFICES ASSUME KillInv, killSwitch, NEW s \in Senders
               PROVE  killedPosts[s] <= MaxRetries + 1
    BY DEF KillSwitchBoundsRequests
  <2>1. send[s].attempt \in Nat /\ killedPosts[s] \in Nat
    BY DEF KillInv, Typed, TypeOK, SendState
  <2> QED  BY <2>1, BoundsAssumption DEF KillInv, RequestBudget, AttemptsLeft
<1> QED  BY <1>1, KillInit, KillStep, PTL DEF Spec
-----------------------------------------------------------------------------
(* Daily limit.  The rows counted plus the calls past the check stay below *)
(* the limit plus the other senders: a call enters that part only when the *)
(* rows alone are below the limit, and leaves it for the row it adds.      *)

PastCheck == {s \in Senders : send[s].pc \in PastLimit}

CountedAndComing ==
  /\ IsFiniteSet(SentRecently)
  /\ Cardinality(SentRecently) + Cardinality(PastCheck) <= DailyLimit + Cardinality(Senders) - 1

LimitInv == Typed /\ CountedAndComing

LEMMA PastCheckFinite ==
  /\ IsFiniteSet(PastCheck)
  /\ Cardinality(PastCheck) \in Nat
  /\ Cardinality(PastCheck) <= Cardinality(Senders)
  BY SendersAssumption, FS_Subset, FS_CardinalityType DEF PastCheck

LEMMA LimitInit == Init => LimitInv
<1> SUFFICES ASSUME Init PROVE CountedAndComing
  BY TypedInit DEF LimitInv
<1>1. SentRecently = {}  BY DEF Init, SentRecently, NoRow
<1>2. PastCheck = {}  BY DEF Init, PastCheck, PastLimit, Idle
<1>3. IsFiniteSet({}) /\ Cardinality({}) = 0  BY FS_EmptySet
<1> QED  BY <1>1, <1>2, <1>3, SequencesAreNumbered, BoundsAssumption DEF CountedAndComing

\* Fewer rows counted and no more calls past the check keep the bound.
LEMMA LimitMonotone ==
  ASSUME CountedAndComing, SentRecently' \subseteq SentRecently, PastCheck' \subseteq PastCheck
  PROVE  CountedAndComing'
<1>1. /\ IsFiniteSet(SentRecently')
      /\ Cardinality(SentRecently') \in Nat /\ Cardinality(SentRecently) \in Nat
      /\ Cardinality(SentRecently') <= Cardinality(SentRecently)
  BY FS_Subset, FS_CardinalityType DEF CountedAndComing
<1>2. /\ Cardinality(PastCheck') \in Nat /\ Cardinality(PastCheck) \in Nat
      /\ Cardinality(PastCheck') <= Cardinality(PastCheck)
  BY PastCheckFinite, FS_Subset, FS_CardinalityType
<1> QED  BY <1>1, <1>2, SequencesAreNumbered, BoundsAssumption DEF CountedAndComing

LEMMA LimitStep == LimitInv /\ [Next]_vars => LimitInv'
<1> SUFFICES ASSUME LimitInv, [Next]_vars PROVE CountedAndComing'
  BY TypedStep DEF LimitInv
<1> USE DEF LimitInv
<1>0. Typed /\ Typed'  BY TypedStep
<1>fin. PastCheck' \subseteq Senders /\ IsFiniteSet(PastCheck') /\ Cardinality(PastCheck') \in Nat
        /\ Cardinality(PastCheck') <= Cardinality(Senders)
  BY SendersAssumption, FS_Subset, FS_CardinalityType DEF PastCheck
<1>1. ASSUME NEW s \in Senders, CallStep(s) PROVE CountedAndComing'
  <2>1. KeepsItsDraft(s) /\ CountsTowardsLimit(s)
    BY <1>1, CallSteps
  <2>2. CASE SentRecently' \subseteq SentRecently /\ PastCheck' \subseteq PastCheck
    BY <2>2, LimitMonotone
  \* The call passes the limit check.
  <2>3. CASE SentRecently' \subseteq SentRecently /\ ~(PastCheck' \subseteq PastCheck)
    <3>1. ~(Cardinality(SentRecently) >= DailyLimit)
      BY <2>1, <2>3 DEF KeepsItsDraft, CountsTowardsLimit, PastCheck
    <3>2. /\ IsFiniteSet(SentRecently')
          /\ Cardinality(SentRecently') \in Nat /\ Cardinality(SentRecently) \in Nat
          /\ Cardinality(SentRecently') <= Cardinality(SentRecently)
      BY <2>3, FS_Subset, FS_CardinalityType DEF CountedAndComing
    <3> QED  BY <3>1, <3>2, <1>fin, SequencesAreNumbered, BoundsAssumption DEF CountedAndComing
  \* The call records its 'sent' row.
  <2>4. CASE ~(SentRecently' \subseteq SentRecently)
    <3>1. /\ SentRecently' \subseteq SentRecently \cup {KeyOf(s)}
          /\ s \in PastCheck
          /\ PastCheck' \subseteq PastCheck \ {s}
      BY <2>1, <2>4 DEF KeepsItsDraft, CountsTowardsLimit, PastCheck
    <3>2. /\ IsFiniteSet(SentRecently \cup {KeyOf(s)})
          /\ Cardinality(SentRecently \cup {KeyOf(s)}) \in Nat
          /\ Cardinality(SentRecently) \in Nat
          /\ Cardinality(SentRecently \cup {KeyOf(s)}) <= Cardinality(SentRecently) + 1
      <4>1. IsFiniteSet(SentRecently) /\ Cardinality(SentRecently) \in Nat
        BY FS_CardinalityType DEF CountedAndComing
      <4>2. /\ IsFiniteSet(SentRecently \cup {KeyOf(s)})
            /\ \/ Cardinality(SentRecently \cup {KeyOf(s)}) = Cardinality(SentRecently)
               \/ Cardinality(SentRecently \cup {KeyOf(s)}) = Cardinality(SentRecently) + 1
        BY <4>1, FS_AddElement
      <4> QED  BY <4>1, <4>2
    <3>3. /\ IsFiniteSet(SentRecently')
          /\ Cardinality(SentRecently') \in Nat
          /\ Cardinality(SentRecently') <= Cardinality(SentRecently) + 1
      BY <3>1, <3>2, FS_Subset, FS_CardinalityType
    <3>4. /\ IsFiniteSet(PastCheck \ {s})
          /\ Cardinality(PastCheck \ {s}) = Cardinality(PastCheck) - 1
      BY <3>1, PastCheckFinite, FS_RemoveElement
    <3>5. Cardinality(PastCheck') <= Cardinality(PastCheck) - 1
      BY <3>1, <3>4, FS_Subset
    <3> QED  BY <3>2, <3>3, <3>5, <1>fin, PastCheckFinite, SequencesAreNumbered, BoundsAssumption
                DEF CountedAndComing
  <2> QED  BY <2>2, <2>3, <2>4
<1>2. ASSUME NEW s \in Senders, NEW d \in Drafts, BeginSend(s, d) PROVE CountedAndComing'
  <2>1. SentRecently' = SentRecently  BY <1>2 DEF BeginSend, Store, SentRecently
  <2>2. PastCheck' \subseteq PastCheck
    BY <1>2, <1>0 DEF BeginSend, PastCheck, PastLimit, Idle, Typed, TypeOK
  <2> QED  BY <2>1, <2>2, LimitMonotone
<1>3. ASSUME NEW d \in Drafts, NEW decision \in {"APPROVED", "REJECTED"}, Decide(d, decision)
      PROVE  CountedAndComing'
  BY <1>3, LimitMonotone DEF Decide, SentRecently, PastCheck
<1>4. CASE ActivateKillSwitch
  BY <1>4, LimitMonotone DEF ActivateKillSwitch, SentRecently, PastCheck
<1>5. CASE DeactivateKillSwitch
  BY <1>5, LimitMonotone DEF DeactivateKillSwitch, SentRecently, PastCheck
<1>6. ASSUME NEW k \in Keys, LeaveWindow(k) PROVE CountedAndComing'
  <2>1. SentRecently' \subseteq SentRecently
    BY <1>6, <1>0 DEF LeaveWindow, SentRecently, Typed, TypeOK, RowState
  <2>2. PastCheck' = PastCheck  BY <1>6 DEF LeaveWindow, PastCheck
  <2> QED  BY <2>1, <2>2, LimitMonotone
<1>7. CASE UNCHANGED vars
  BY <1>7, LimitMonotone DEF vars, SentRecently, PastCheck
<1> QED  BY <1>1, <1>2, <1>3, <1>4, <1>5, <1>6, <1>7, StepKinds

\* Overlapping calls overshoot the daily limit by at most one message per other sender.
THEOREM LimitOvershoot == Spec => []DailyLimitOvershootBounded
<1>1. LimitInv => DailyLimitOvershootBounded
  <2> SUFFICES ASSUME LimitInv PROVE DailyLimitOvershootBounded  OBVIOUS
  <2>1. Cardinality(SentRecently) \in Nat
    BY FS_CardinalityType DEF LimitInv, CountedAndComing
  <2> QED  BY <2>1, PastCheckFinite, SequencesAreNumbered, BoundsAssumption
              DEF LimitInv, CountedAndComing, DailyLimitOvershootBounded
<1> QED  BY <1>1, LimitInit, LimitStep, PTL DEF Spec
-----------------------------------------------------------------------------
(* The record.  While calls do not overlap, the row a call looked up is as *)
(* it was read until the call writes it, and whatever fails after a 'sent' *)
(* row was written leaves a row that blocks.                               *)

RowAsRead(c, row) == ~Blocks(row) /\ (c.existing <=> row.status # "none")

Knows(c, row) ==
  /\ c.pc \in {"limit", "kill", "assert", "post", "saveSent"} => RowAsRead(c, row)
  /\ c.pc \in {"record", "audit"} => row.status = "sent"
  /\ c.pc = "saveFailed" => RowAsRead(c, row) \/ (row.status = "sent" /\ c.ambiguous)

KeyIn(c) == <<ProspectOf[c.draft], c.sequence, StepOf[c.draft]>>

RecordIsCurrent == \A s \in Senders : Knows(send[s], rows[KeyIn(send[s])])

\* Before the request nothing arrived, and a call that gives up without a definitive answer to a
\* message that arrived says so: it is ambiguous.
OutcomeKnown(c) ==
  /\ c.pc \notin {"post", "saveSent", "record", "audit", "saveFailed"} => ~c.through
  /\ c.pc = "saveFailed" /\ c.through => c.ambiguous

OutcomesAreKnown == \A s \in Senders : OutcomeKnown(send[s])

\* Of a row, only its status and its ambiguity tell whether it blocks.
LEMMA SameRecord ==
  ASSUME NEW c, NEW row, NEW other, Knows(c, row),
         other.status = row.status, other.ambiguous = row.ambiguous
  PROVE  Knows(c, other)
BY DEF Knows, RowAsRead, Blocks

\* The steps of a call that leave the rows alone.
LEMMA RowSteps ==
  ASSUME Typed, NEW s \in Senders, CallStep(s)
  PROVE  \/ UNCHANGED rows
         \/ /\ send[s].pc = "saveSent"
            /\ rows' = [rows EXCEPT ![KeyOf(s)] = SentRow]
         \/ /\ SaveFailed(s) /\ ~IndexRefuses(s)
            /\ rows' = [rows EXCEPT ![KeyOf(s)] = FailedRow(send[s].ambiguous)]
<1>1. CASE \/ LoadDraft(s) \/ RecheckEligibility(s) \/ FindManualSequence(s) \/ CreateManualSequence(s)
           \/ LookupExisting(s) \/ CheckDailyLimit(s) \/ RecheckKillSwitch(s)
  BY <1>1 DEF LoadDraft, RecheckEligibility, FindManualSequence, CreateManualSequence,
              LookupExisting, CheckDailyLimit, RecheckKillSwitch, Store
<1>2. CASE \/ AdapterPreconditions(s) \/ RecordConversationMessage(s) \/ FinishSent(s)
           \/ DatabaseThrows(s) \/ Crash(s)
  BY <1>2 DEF AdapterPreconditions, RecordConversationMessage, FinishSent, DatabaseThrows, Crash, Store
<1>3. ASSUME NEW delivered \in BOOLEAN,
             \/ RequestSucceeds(s, delivered)
             \/ RequestAnsweredWithError(s, delivered)
             \/ RequestLost(s, delivered)
      PROVE  UNCHANGED rows
  BY <1>3 DEF RequestSucceeds, RequestAnsweredWithError, RequestLost, Request, Store
<1>4. CASE SaveSent(s)
  BY <1>4 DEF SaveSent
<1>5. CASE SaveFailed(s)
  BY <1>5 DEF SaveFailed
<1> QED  BY <1>1, <1>2, <1>3, <1>4, <1>5 DEF CallStep, SendStep

\* The fields of a call that a place and a verdict leave alone.
LEMMA CallMoves ==
  ASSUME NEW c \in SendState, NEW pc
  PROVE  LET d == [c EXCEPT !.pc = pc] IN
         /\ d.pc = pc /\ KeyIn(d) = KeyIn(c)
         /\ d.existing = c.existing /\ d.ambiguous = c.ambiguous
         /\ d.through = c.through
BY DEF SendState, KeyIn

LEMMA CallFails ==
  ASSUME NEW c \in SendState, NEW verdict
  PROVE  LET d == [c EXCEPT !.pc = "saveFailed", !.ambiguous = verdict] IN
         /\ d.pc = "saveFailed" /\ KeyIn(d) = KeyIn(c)
         /\ d.existing = c.existing /\ d.ambiguous = verdict
         /\ d.through = c.through
BY DEF SendState, KeyIn

LEMMA IdleKnows ==
  /\ OutcomeKnown(Idle)
  /\ \A row : Knows(Idle, row)
BY DEF OutcomeKnown, Knows, Idle

\* Each step of a call hands on what the call knows of its row and of its message.
LEMMA KnowledgeStep ==
  ASSUME Typed, NEW s \in Senders, CallStep(s),
         Knows(send[s], rows[KeyIn(send[s])]), OutcomeKnown(send[s])
  PROVE  \E c : send'[s] = c /\ OutcomeKnown(c) /\ Knows(c, rows'[KeyIn(c)])
<1> DEFINE Goal == \E c : send'[s] = c /\ OutcomeKnown(c) /\ Knows(c, rows'[KeyIn(c)])
<1> SUFFICES Goal
  OBVIOUS
<1>b. PICK b \in SendState : b = send[s]
  BY DEF Typed, TypeOK
<1>r. PICK r : r = rows[KeyIn(b)]
  OBVIOUS
<1>0. /\ Knows(b, r) /\ OutcomeKnown(b) /\ send \in [Senders -> SendState]
      /\ KeyOf(s) = KeyIn(b)
  BY <1>b, <1>r DEF Typed, TypeOK, KeyOf, KeyIn
<1>return. ASSUME Return(s) PROVE Goal
  <2>1. send'[s] = Idle
    BY <1>0, <1>return DEF Return
  <2> QED  BY <2>1, IdleKnows
<1>early. ASSUME NEW c, send'[s] = c, c.pc \in {"recheck", "findSequence", "createSequence", "lookup"},
                 b.pc \in {"load", "recheck", "findSequence", "createSequence"},
                 c.through = b.through
          PROVE  Goal
  <2>1. OutcomeKnown(c)
    BY <1>0, <1>early DEF OutcomeKnown
  <2>2. \A row : Knows(c, row)
    BY <1>early DEF Knows
  <2> QED  BY <1>early, <2>1, <2>2
<1>goto. ASSUME NEW pc, Goto(s, pc) PROVE send'[s] = [b EXCEPT !.pc = pc]
  BY <1>0, <1>b, <1>goto DEF Goto
<1>fail. ASSUME NEW verdict \in BOOLEAN, Fail(s, verdict)
         PROVE  send'[s] = [b EXCEPT !.pc = "saveFailed", !.ambiguous = verdict]
  BY <1>0, <1>b, <1>fail DEF Fail
\* A call that keeps its key and its row.
<1>on. ASSUME NEW c, send'[s] = c, KeyIn(c) = KeyIn(b), UNCHANGED rows, OutcomeKnown(c), Knows(c, r)
       PROVE  Goal
  BY <1>r, <1>on
\* The checks before the look-up.
<1>ahead. ASSUME NEW pc \in {"recheck", "findSequence", "createSequence", "lookup"}, Goto(s, pc),
                 b.pc \in {"load", "recheck", "findSequence", "createSequence"}
          PROVE  Goal
  <2>1. PICK c : c = [b EXCEPT !.pc = pc]
    OBVIOUS
  <2>2. c.pc = pc /\ c.through = b.through
    BY <2>1, CallMoves
  <2>3. send'[s] = c
    BY <1>ahead, <1>goto, <2>1
  <2> QED  BY <1>ahead, <2>2, <2>3, <1>early
<1>1. ASSUME LoadDraft(s) PROVE Goal
  <2>1. PICK pc \in {"recheck", "findSequence"} : Return(s) \/ Goto(s, pc)
    BY <1>1 DEF LoadDraft
  <2>2. b.pc = "load"
    BY <1>1, <1>b DEF LoadDraft
  <2> QED  BY <2>1, <2>2, <1>ahead, <1>return
<1>2. ASSUME RecheckEligibility(s) PROVE Goal
  <2>1. b.pc = "recheck" /\ (Goto(s, "lookup") \/ Return(s))
    BY <1>2, <1>b DEF RecheckEligibility
  <2> QED  BY <2>1, <1>ahead, <1>return
<1>3. ASSUME FindManualSequence(s) \/ CreateManualSequence(s) PROVE Goal
  <2>1. /\ b.pc \in {"findSequence", "createSequence"}
        /\ \/ Goto(s, "createSequence")
           \/ \E n : send' = [send EXCEPT ![s].pc = "lookup", ![s].sequence = n]
    BY <1>3, <1>b DEF FindManualSequence, CreateManualSequence
  <2>2. CASE Goto(s, "createSequence")
    BY <2>1, <2>2, <1>ahead
  <2>3. ASSUME NEW n, send' = [send EXCEPT ![s].pc = "lookup", ![s].sequence = n] PROVE Goal
    <3>1. PICK c : c = [b EXCEPT !.pc = "lookup", !.sequence = n]
      OBVIOUS
    <3>2. c.pc = "lookup" /\ c.through = b.through
      BY <3>1 DEF SendState
    <3>3. send'[s] = c
      BY <1>0, <1>b, <2>3, <3>1
    <3> QED  BY <2>1, <3>2, <3>3, <1>early
  <2> QED  BY <2>1, <2>2, <2>3
<1>4. ASSUME LookupExisting(s) PROVE Goal
  <2>1. /\ b.pc = "lookup" /\ UNCHANGED rows
        /\ \/ Return(s)
           \/ /\ ~Blocks(r)
              /\ send' = [send EXCEPT ![s].pc = "limit", ![s].existing = r.status # "none"]
    BY <1>0, <1>4, <1>b, <1>r DEF LookupExisting, Store
  <2>2. CASE ~Blocks(r) /\ send' = [send EXCEPT ![s].pc = "limit", ![s].existing = r.status # "none"]
    <3>1. PICK c : c = [b EXCEPT !.pc = "limit", !.existing = r.status # "none"]
      OBVIOUS
    <3>2. /\ c.pc = "limit" /\ c.through = b.through
          /\ KeyIn(c) = KeyIn(b) /\ c.existing = (r.status # "none")
      BY <3>1 DEF SendState, KeyIn
    <3>3. send'[s] = c
      BY <1>0, <1>b, <2>2, <3>1
    <3>4. OutcomeKnown(c)
      BY <1>0, <2>1, <3>2 DEF OutcomeKnown
    <3>5. Knows(c, r)
      BY <2>2, <3>2 DEF Knows, RowAsRead
    <3> QED  BY <2>1, <3>2, <3>3, <3>4, <3>5, <1>on
  <2> QED  BY <2>1, <2>2, <1>return
\* The checks between the look-up and the request.
<1>5. ASSUME NEW pc \in {"kill", "assert", "post"}, Goto(s, pc), UNCHANGED rows,
             b.pc \in {"limit", "kill", "assert"}
      PROVE  Goal
  <2>1. PICK c : c = [b EXCEPT !.pc = pc]
    OBVIOUS
  <2>2. /\ c.pc = pc /\ KeyIn(c) = KeyIn(b) /\ c.existing = b.existing
        /\ c.through = b.through
    BY <2>1, CallMoves
  <2>3. OutcomeKnown(c)
    BY <1>0, <1>5, <2>2 DEF OutcomeKnown
  <2>4. Knows(c, r)
    BY <1>0, <1>5, <2>2 DEF Knows, RowAsRead
  <2> QED  BY <1>5, <1>goto, <2>1, <2>2, <2>3, <2>4, <1>on
<1>6. CASE CheckDailyLimit(s) \/ RecheckKillSwitch(s)
  <2>1. /\ UNCHANGED rows /\ b.pc \in {"limit", "kill"}
        /\ Return(s) \/ Goto(s, "kill") \/ Goto(s, "assert")
    BY <1>6, <1>b DEF CheckDailyLimit, RecheckKillSwitch, Store
  <2> QED  BY <2>1, <1>5, <1>return
\* A call that fails where it has not posted, or where what it says is that delivery is unknown.
<1>7. ASSUME NEW verdict \in BOOLEAN, Fail(s, verdict), UNCHANGED rows,
             b.pc \in {"assert", "saveSent", "record", "audit"}, b.pc # "assert" => verdict
      PROVE  Goal
  <2>1. PICK c : c = [b EXCEPT !.pc = "saveFailed", !.ambiguous = verdict]
    OBVIOUS
  <2>2. /\ c.pc = "saveFailed" /\ KeyIn(c) = KeyIn(b) /\ c.existing = b.existing
        /\ c.ambiguous = verdict /\ c.through = b.through
    BY <2>1, CallFails
  <2>3. OutcomeKnown(c)
    BY <1>0, <1>7, <2>2 DEF OutcomeKnown
  <2>4. Knows(c, r)
    BY <1>0, <1>7, <2>2 DEF Knows, RowAsRead
  <2> QED  BY <1>7, <1>fail, <2>1, <2>2, <2>3, <2>4, <1>on
<1>8. CASE AdapterPreconditions(s)
  <2>1. /\ UNCHANGED rows /\ b.pc = "assert"
        /\ Fail(s, TRUE) \/ Fail(s, FALSE) \/ Goto(s, "post")
    BY <1>8, <1>b DEF AdapterPreconditions, Store
  <2> QED  BY <2>1, <1>5, <1>7
<1>9. CASE DatabaseThrows(s)
  <2>1. UNCHANGED rows /\ b.pc \in {"saveSent", "record", "audit"} /\ Fail(s, TRUE)
    BY <1>9, <1>b DEF DatabaseThrows, Store
  <2> QED  BY <2>1, <1>7
\* What a call makes of X's answer.
<1>10. ASSUME NEW c, send'[s] = c, UNCHANGED rows, b.pc = "post", KeyIn(c) = KeyIn(b),
              c.existing = b.existing, c.pc \in {"post", "saveSent", "saveFailed"},
              c.pc = "saveFailed" => ~c.through \/ c.ambiguous
       PROVE  Goal
  <2>1. OutcomeKnown(c)
    BY <1>10 DEF OutcomeKnown
  <2>2. Knows(c, r)
    BY <1>0, <1>10 DEF Knows, RowAsRead
  <2> QED  BY <1>10, <1>on, <2>1, <2>2
<1>11. ASSUME NEW delivered \in BOOLEAN, RequestSucceeds(s, delivered) PROVE Goal
  <2>1. PICK c : c = [b EXCEPT !.pc = "saveSent", !.through = @ \/ delivered]
    OBVIOUS
  <2>2. send'[s] = c /\ UNCHANGED rows /\ b.pc = "post"
    BY <1>0, <1>11, <1>b, <2>1 DEF RequestSucceeds, Request, Store
  <2>3. KeyIn(c) = KeyIn(b) /\ c.existing = b.existing /\ c.pc = "saveSent"
    BY <2>1 DEF SendState, KeyIn
  <2> QED  BY <2>2, <2>3, <1>10
<1>12. ASSUME NEW delivered \in BOOLEAN, RequestAnsweredWithError(s, delivered) PROVE Goal
  <2>1. PICK c : c = [b EXCEPT !.pc = "saveFailed", !.ambiguous = FALSE, !.through = FALSE]
    OBVIOUS
  <2>2. send'[s] = c /\ UNCHANGED rows /\ b.pc = "post"
    BY <1>0, <1>12, <1>b, <2>1 DEF RequestAnsweredWithError, Request, Store
  <2>3. KeyIn(c) = KeyIn(b) /\ c.existing = b.existing /\ c.pc = "saveFailed" /\ ~c.through
    BY <2>1 DEF SendState, KeyIn
  <2> QED  BY <2>2, <2>3, <1>10
<1>13. ASSUME NEW delivered \in BOOLEAN, RequestLost(s, delivered) PROVE Goal
  <2>1. UNCHANGED rows /\ b.pc = "post"
    BY <1>13, <1>b DEF RequestLost, Request, Store
  <2>2. CASE send[s].attempt < MaxRetries
    <3>1. PICK c : c = [b EXCEPT !.attempt = @ + 1, !.through = @ \/ delivered]
      OBVIOUS
    <3>2. send'[s] = c
      BY <1>0, <1>13, <1>b, <2>2, <3>1 DEF RequestLost
    <3>3. KeyIn(c) = KeyIn(b) /\ c.existing = b.existing /\ c.pc = b.pc
      BY <3>1 DEF SendState, KeyIn
    <3> QED  BY <2>1, <3>2, <3>3, <1>10
  <2>3. CASE ~(send[s].attempt < MaxRetries)
    <3>1. PICK c : c = [b EXCEPT !.pc = "saveFailed", !.ambiguous = TRUE, !.through = @ \/ delivered]
      OBVIOUS
    <3>2. send'[s] = c
      BY <1>0, <1>13, <1>b, <2>3, <3>1 DEF RequestLost
    <3>3. KeyIn(c) = KeyIn(b) /\ c.existing = b.existing /\ c.pc = "saveFailed" /\ c.ambiguous
      BY <3>1 DEF SendState, KeyIn
    <3> QED  BY <2>1, <3>2, <3>3, <1>10
  <2> QED  BY <2>2, <2>3
<1>14. CASE SaveSent(s)
  <2>1. CASE UNCHANGED rows /\ Fail(s, TRUE)
    <3>1. b.pc = "saveSent"
      BY <1>14, <1>b DEF SaveSent
    <3> QED  BY <2>1, <3>1, <1>7
  <2>2. CASE rows' = [rows EXCEPT ![KeyOf(s)] = SentRow] /\ Goto(s, "record")
    <3>1. PICK c : c = [b EXCEPT !.pc = "record"]
      OBVIOUS
    <3>2. c.pc = "record" /\ KeyIn(c) = KeyIn(b)
      BY <3>1, CallMoves
    <3>3. KeyIn(b) \in Keys
      <4>1. send[s].pc # "idle"
        BY <1>14 DEF SaveSent
      <4> QED  BY <1>0, <4>1, KeyOfTyped
    <3>4. rows'[KeyIn(c)] = SentRow
      BY <1>0, <2>2, <3>2, <3>3 DEF Typed, TypeOK
    <3>5. OutcomeKnown(c) /\ Knows(c, SentRow)
      BY <3>2 DEF OutcomeKnown, Knows, SentRow
    <3> QED  BY <2>2, <1>goto, <3>1, <3>4, <3>5
  <2> QED  BY <1>14, <2>1, <2>2 DEF SaveSent
<1>15. CASE RecordConversationMessage(s)
  <2>1. UNCHANGED rows /\ b.pc = "record" /\ Goto(s, "audit")
    BY <1>15, <1>b DEF RecordConversationMessage
  <2>2. PICK c : c = [b EXCEPT !.pc = "audit"]
    OBVIOUS
  <2>3. c.pc = "audit" /\ KeyIn(c) = KeyIn(b)
    BY <2>2, CallMoves
  <2>4. OutcomeKnown(c) /\ Knows(c, r)
    BY <1>0, <2>1, <2>3 DEF OutcomeKnown, Knows
  <2> QED  BY <2>1, <2>2, <2>3, <2>4, <1>goto, <1>on
<1>16. CASE FinishSent(s) \/ SaveFailed(s) \/ Crash(s)
  BY <1>16, <1>return DEF FinishSent, SaveFailed, Crash
<1> HIDE DEF Goal
<1> QED
  BY <1>1, <1>2, <1>3, <1>4, <1>6, <1>8, <1>9, <1>11, <1>12, <1>13, <1>14, <1>15, <1>16
  DEF CallStep, SendStep

RecordInv == Typed /\ RecordIsCurrent /\ OutcomesAreKnown

OneSender == \A s, t \in Senders : s = t

LEMMA RecordInit == Init => RecordInv
<1> SUFFICES ASSUME Init PROVE RecordIsCurrent /\ OutcomesAreKnown
  BY TypedInit DEF RecordInv
<1>1. \A s \in Senders : send[s] = Idle
  BY DEF Init
<1> QED  BY <1>1, IdleKnows DEF RecordIsCurrent, OutcomesAreKnown

LEMMA RecordStep ==
  ASSUME RecordInv, OneSender, [Next]_vars
  PROVE  RecordInv'
<1> DEFINE Kept == RecordIsCurrent' /\ OutcomesAreKnown'
<1> SUFFICES Kept
  BY TypedStep DEF RecordInv
<1>0. Typed /\ RecordIsCurrent /\ OutcomesAreKnown
  BY DEF RecordInv
<1>1. ASSUME NEW s \in Senders, CallStep(s) PROVE Kept
  <2>1. PICK c : send'[s] = c /\ OutcomeKnown(c) /\ Knows(c, rows'[KeyIn(c)])
    BY <1>0, <1>1, KnowledgeStep DEF RecordIsCurrent, OutcomesAreKnown
  <2>2. \A t \in Senders : send'[t] = c
    BY <2>1 DEF OneSender
  <2> QED  BY <2>1, <2>2 DEF RecordIsCurrent, OutcomesAreKnown
<1>2. ASSUME NEW s \in Senders, NEW d \in Drafts, BeginSend(s, d) PROVE Kept
  <2>1. PICK c : c = [Idle EXCEPT !.pc = "load", !.draft = d]
    OBVIOUS
  <2>2. \A t \in Senders : send'[t] = c
    BY <1>0, <1>2, <2>1 DEF BeginSend, OneSender, Typed, TypeOK
  <2>3. OutcomeKnown(c) /\ \A row : Knows(c, row)
    BY <2>1 DEF OutcomeKnown, Knows, Idle
  <2> QED  BY <2>2, <2>3 DEF RecordIsCurrent, OutcomesAreKnown
<1>3. CASE UNCHANGED <<rows, send>>
  BY <1>0, <1>3 DEF RecordIsCurrent, OutcomesAreKnown
<1>4. CASE \/ (\E d \in Drafts, decision \in {"APPROVED", "REJECTED"} : Decide(d, decision))
           \/ ActivateKillSwitch \/ DeactivateKillSwitch \/ UNCHANGED vars
  BY <1>3, <1>4 DEF Decide, ActivateKillSwitch, DeactivateKillSwitch, vars
<1>5. ASSUME NEW k \in Keys, LeaveWindow(k) PROVE Kept
  <2>1. UNCHANGED send
    BY <1>5 DEF LeaveWindow
  <2>2. \A key \in Keys : rows'[key].status = rows[key].status /\ rows'[key].ambiguous = rows[key].ambiguous
    BY <1>0, <1>5 DEF LeaveWindow, Typed, TypeOK, RowState
  <2>3. ASSUME NEW s \in Senders PROVE Knows(send[s], rows'[KeyIn(send[s])])
    <3>1. CASE send[s].pc = "idle"
      BY <3>1 DEF Knows
    <3>2. CASE send[s].pc # "idle"
      <4>1. KeyIn(send[s]) \in Keys
        BY <1>0, <3>2, KeyOfTyped DEF KeyOf, KeyIn
      <4> QED  BY <1>0, <2>2, <4>1, SameRecord DEF RecordIsCurrent
    <3> QED  BY <3>1, <3>2
  <2> QED  BY <1>0, <2>1, <2>3 DEF RecordIsCurrent, OutcomesAreKnown
<1> HIDE DEF Kept
<1> QED  BY <1>1, <1>2, <1>4, <1>5, StepKinds

LEMMA RecordAlways == ASSUME OneSender PROVE Spec => []RecordInv
<1>1. RecordInv /\ [Next]_vars => RecordInv'
  BY RecordStep
<1> QED  BY <1>1, RecordInit, PTL DEF Spec

\* While calls do not overlap, a call that reaches the network found no row that says the message
\* went out or may have gone out, and there is none now.
THEOREM NoPostOverABlockedRecord ==
  ASSUME \A s, t \in Senders : s = t
  PROVE  Spec => []NeverPostsOverABlockedRecord
<1>0. OneSender
  BY DEF OneSender
<1>1. RecordInv => NeverPostsOverABlockedRecord
  BY DEF RecordInv, RecordIsCurrent, Knows, RowAsRead, NeverPostsOverABlockedRecord, KeyOf, KeyIn
<1> QED  BY <1>0, <1>1, RecordAlways, PTL

\* While calls do not overlap, a row that blocks a resend blocks it for good: a failure after the
\* 'sent' row was written leaves it, or makes it one of unknown delivery.
THEOREM BlockedRowsStay ==
  ASSUME \A s, t \in Senders : s = t
  PROVE  Spec => BlocksForever
<1>0. OneSender
  BY DEF OneSender
<1>1. RecordInv /\ [Next]_vars => [\A k \in Keys : Blocks(rows[k]) => Blocks(rows'[k])]_vars
  <2> SUFFICES ASSUME RecordInv, [Next]_vars, NEW k \in Keys, Blocks(rows[k])
               PROVE  Blocks(rows'[k])
    OBVIOUS
  <2>0. Typed /\ RecordIsCurrent /\ rows \in [Keys -> RowState]
    BY DEF RecordInv, Typed, TypeOK
  <2>1. ASSUME NEW s \in Senders, CallStep(s) PROVE Blocks(rows'[k])
    <3>1. CASE UNCHANGED rows
      BY <3>1
    <3>2. CASE send[s].pc = "saveSent" /\ rows' = [rows EXCEPT ![KeyOf(s)] = SentRow]
      BY <2>0, <3>2 DEF Blocks, SentRow
    <3>3. CASE /\ SaveFailed(s) /\ ~IndexRefuses(s)
               /\ rows' = [rows EXCEPT ![KeyOf(s)] = FailedRow(send[s].ambiguous)]
      <4>1. send[s].pc = "saveFailed" /\ KeyOf(s) = KeyIn(send[s])
        BY <3>3 DEF SaveFailed, KeyOf, KeyIn
      <4>2. CASE k # KeyOf(s)
        BY <2>0, <3>3, <4>2
      <4>3. CASE k = KeyOf(s)
        <5>1. send[s].ambiguous
          BY <2>0, <4>1, <4>3 DEF RecordIsCurrent, Knows, RowAsRead
        <5> QED  BY <2>0, <3>3, <4>3, <5>1 DEF Blocks, FailedRow
      <4> QED  BY <4>2, <4>3
    <3> QED  BY <2>0, <2>1, <3>1, <3>2, <3>3, RowSteps
  <2>2. CASE \/ (\E s \in Senders, d \in Drafts : BeginSend(s, d))
             \/ (\E d \in Drafts, decision \in {"APPROVED", "REJECTED"} : Decide(d, decision))
             \/ ActivateKillSwitch \/ DeactivateKillSwitch \/ UNCHANGED vars
    BY <2>2 DEF BeginSend, Decide, ActivateKillSwitch, DeactivateKillSwitch, vars, Store
  <2>3. ASSUME NEW j \in Keys, LeaveWindow(j) PROVE Blocks(rows'[k])
    BY <2>0, <2>3 DEF LeaveWindow, Blocks, RowState
  <2> QED  BY <2>1, <2>2, <2>3, StepKinds
<1> QED  BY <1>0, <1>1, RecordAlways, PTL DEF Spec, BlocksForever

\* While calls do not overlap, a call that ran to its end and whose message arrived leaves a row
\* that blocks a resend, unless X answered it with a definitive error all the same.
THEOREM DeliveriesLeaveABlock ==
  ASSUME \A s, t \in Senders : s = t
  PROVE  Spec => DeliveryLeavesABlock
<1>0. OneSender
  BY DEF OneSender
<1> DEFINE Leaves == \A s \in Senders :
                       /\ send[s].through
                       /\ FinishSent(s) \/ SaveFailed(s)
                       => Blocks(rows'[KeyOf(s)])
<1>1. RecordInv /\ [Next]_vars => [Leaves]_vars
  <2> SUFFICES ASSUME RecordInv, [Next]_vars, NEW s \in Senders, send[s].through,
                      FinishSent(s) \/ SaveFailed(s)
               PROVE  Blocks(rows'[KeyOf(s)])
    OBVIOUS
  <2>0. /\ Typed /\ Knows(send[s], rows[KeyOf(s)]) /\ OutcomeKnown(send[s])
        /\ rows \in [Keys -> RowState]
    BY DEF RecordInv, RecordIsCurrent, OutcomesAreKnown, KeyOf, KeyIn, Typed, TypeOK
  <2>1. CASE FinishSent(s)
    BY <2>0, <2>1 DEF FinishSent, Store, Knows, Blocks
  <2>2. CASE SaveFailed(s)
    <3>1. /\ send[s].pc = "saveFailed" /\ send[s].ambiguous
          /\ rows' = IF IndexRefuses(s) THEN rows
                     ELSE [rows EXCEPT ![KeyOf(s)] = FailedRow(send[s].ambiguous)]
      BY <2>0, <2>2 DEF SaveFailed, OutcomeKnown
    <3>2. KeyOf(s) \in Keys
      BY <2>0, <3>1, KeyOfTyped
    <3>3. CASE IndexRefuses(s)
      BY <2>0, <3>1, <3>3 DEF IndexRefuses, Knows, RowAsRead, Blocks
    <3>4. CASE ~IndexRefuses(s)
      BY <2>0, <3>1, <3>2, <3>4 DEF Blocks, FailedRow
    <3> QED  BY <3>3, <3>4
  <2> QED  BY <2>1, <2>2
<1> QED  BY <1>0, <1>1, RecordAlways, PTL DEF Spec, DeliveryLeavesABlock
-----------------------------------------------------------------------------
(* Overlapping calls.  What a call knows of its own message needs nothing  *)
(* of the row it shares with others.                                       *)

LEMMA OutcomeStep ==
  ASSUME Typed, NEW s \in Senders, CallStep(s), OutcomeKnown(send[s])
  PROVE  OutcomeKnown(send'[s])
<1>0. /\ send \in [Senders -> SendState] /\ send[s] \in SendState
      /\ OutcomeKnown(send[s]) /\ OutcomeKnown(Idle)
  BY IdleKnows DEF Typed, TypeOK
<1>return. ASSUME Return(s) PROVE OutcomeKnown(send'[s])
  BY <1>0, <1>return DEF Return
<1>1. ASSUME \/ LoadDraft(s) \/ RecheckEligibility(s) \/ FindManualSequence(s)
             \/ CreateManualSequence(s) \/ LookupExisting(s)
      PROVE  OutcomeKnown(send'[s])
  BY <1>0, <1>1, <1>return
     DEF LoadDraft, RecheckEligibility, FindManualSequence, CreateManualSequence, LookupExisting,
         Goto, SendState, OutcomeKnown
<1>2. ASSUME CheckDailyLimit(s) \/ RecheckKillSwitch(s) \/ AdapterPreconditions(s)
      PROVE  OutcomeKnown(send'[s])
  BY <1>0, <1>2, <1>return
     DEF CheckDailyLimit, RecheckKillSwitch, AdapterPreconditions, Goto, Fail, SendState, OutcomeKnown
<1>3. ASSUME NEW delivered \in BOOLEAN,
             RequestSucceeds(s, delivered) \/ RequestAnsweredWithError(s, delivered)
      PROVE  OutcomeKnown(send'[s])
  BY <1>0, <1>3 DEF RequestSucceeds, RequestAnsweredWithError, SendState, OutcomeKnown
<1>4. ASSUME NEW delivered \in BOOLEAN, RequestLost(s, delivered)
      PROVE  OutcomeKnown(send'[s])
  <2>1. send[s].pc = "post"
    BY <1>4 DEF RequestLost, Request
  <2> QED  BY <1>0, <1>4, <2>1 DEF RequestLost, SendState, OutcomeKnown
<1>5. ASSUME SaveSent(s) \/ RecordConversationMessage(s) \/ DatabaseThrows(s)
      PROVE  OutcomeKnown(send'[s])
  BY <1>0, <1>5 DEF SaveSent, RecordConversationMessage, DatabaseThrows, Goto, Fail, SendState,
                    OutcomeKnown
<1>6. ASSUME FinishSent(s) \/ SaveFailed(s) \/ Crash(s) PROVE OutcomeKnown(send'[s])
  BY <1>6, <1>return DEF FinishSent, SaveFailed, Crash
<1> QED  BY <1>1, <1>2, <1>3, <1>4, <1>5, <1>6 DEF CallStep, SendStep

OutcomeInv == Typed /\ OutcomesAreKnown

LEMMA OutcomeAlways == Spec => []OutcomeInv
<1>1. Init => OutcomeInv
  BY TypedInit, RecordInit DEF OutcomeInv, RecordInv
<1>2. OutcomeInv /\ [Next]_vars => OutcomeInv'
  <2> SUFFICES ASSUME OutcomeInv, [Next]_vars, NEW t \in Senders
               PROVE  OutcomeKnown(send'[t])
    BY TypedStep DEF OutcomeInv, OutcomesAreKnown
  <2>0. Typed /\ OutcomeKnown(send[t])
    BY DEF OutcomeInv, OutcomesAreKnown
  <2>1. ASSUME NEW s \in Senders, CallStep(s) PROVE OutcomeKnown(send'[t])
    BY <2>0, <2>1, OutcomeStep, CallSteps DEF KeepsItsDraft
  <2>2. ASSUME NEW s \in Senders, NEW d \in Drafts, BeginSend(s, d) PROVE OutcomeKnown(send'[t])
    BY <2>0, <2>2 DEF BeginSend, Typed, TypeOK, Idle, OutcomeKnown
  <2>3. CASE \/ (\E d \in Drafts, decision \in {"APPROVED", "REJECTED"} : Decide(d, decision))
             \/ ActivateKillSwitch \/ DeactivateKillSwitch
             \/ (\E k \in Keys : LeaveWindow(k)) \/ UNCHANGED vars
    BY <2>0, <2>3 DEF Decide, ActivateKillSwitch, DeactivateKillSwitch, LeaveWindow, vars
  <2> QED  BY <2>1, <2>2, <2>3, StepKinds
<1> QED  BY <1>1, <1>2, PTL DEF Spec

\* However many calls overlap, a row that blocks a resend gives way only to a call whose own message
\* did not get through, or was answered with a definitive error.
THEOREM BlockedRowsGiveWayToFailures == Spec => BlocksGiveWayToFailuresOnly
<1> DEFINE GivesWay == \A k \in Keys : Blocks(rows[k]) /\ ~Blocks(rows'[k]) =>
                         \E s \in Senders : /\ send[s].pc = "saveFailed" /\ KeyOf(s) = k
                                           /\ ~send[s].through
<1>1. OutcomeInv /\ [Next]_vars => [GivesWay]_vars
  <2> SUFFICES ASSUME OutcomeInv, [Next]_vars, NEW k \in Keys, Blocks(rows[k]), ~Blocks(rows'[k])
               PROVE  \E s \in Senders : /\ send[s].pc = "saveFailed" /\ KeyOf(s) = k
                                        /\ ~send[s].through
    OBVIOUS
  <2>0. Typed /\ OutcomesAreKnown /\ rows \in [Keys -> RowState]
    BY DEF OutcomeInv, Typed, TypeOK
  <2>1. PICK s \in Senders : CallStep(s)
    <3>1. ~\E j \in Keys : LeaveWindow(j)
      BY <2>0 DEF LeaveWindow, Blocks, RowState
    <3>2. ~UNCHANGED rows
      OBVIOUS
    <3> QED
      BY <3>1, <3>2, StepKinds
      DEF BeginSend, Decide, ActivateKillSwitch, DeactivateKillSwitch, vars, Store
  <2>2. ~(send[s].pc = "saveSent" /\ rows' = [rows EXCEPT ![KeyOf(s)] = SentRow])
    BY <2>0 DEF Blocks, SentRow
  <2>3. SaveFailed(s) /\ rows' = [rows EXCEPT ![KeyOf(s)] = FailedRow(send[s].ambiguous)]
    BY <2>0, <2>1, <2>2, RowSteps
  <2>4. send[s].pc = "saveFailed" /\ KeyOf(s) = k /\ ~send[s].ambiguous
    BY <2>0, <2>3 DEF SaveFailed, Blocks, FailedRow
  <2> QED  BY <2>0, <2>4 DEF OutcomesAreKnown, OutcomeKnown
<1> QED  BY <1>1, OutcomeAlways, PTL DEF Spec, BlocksGiveWayToFailuresOnly
=============================================================================
