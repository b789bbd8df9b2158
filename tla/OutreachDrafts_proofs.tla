------------------------ MODULE OutreachDrafts_proofs ------------------------
(***************************************************************************)
(* What holds of the draft store for any number of overlapping callers,    *)
(* drafts and prospects and a log of any length: the typing, that review   *)
(* is never skipped, and that no event claims more predecessors than it    *)
(* has.  And what needs calls that do not overlap: that decisions stand,   *)
(* and that the store implements DraftRegistry.                            *)
(***************************************************************************)
EXTENDS OutreachDrafts, FiniteSetTheorems, SequenceTheorems, TLAPS

\* A call that has chosen its draft holds one of Drafts, and one that creates, a prospect.
CallsAreAboutSomething ==
  \A a \in Actors :
    /\ call[a].pc \in {"count", "append"} => call[a].draft \in Drafts
    /\ call[a].pc \in {"fold", "insert"} => call[a].prospect \in Prospects

Typed == TypeOK /\ CallsAreAboutSomething

LEMMA IdleTyped == Idle \in Call /\ Idle.pc = "idle"
  BY DEF Idle, Call, Transitions

\* A draft has finitely many rows.
LEMMA RowsFinite ==
  ASSUME TypeOK, NEW d
  PROVE  /\ IsFiniteSet(RowsOf(d))
         /\ Cardinality(RowsOf(d)) \in Nat
<1>1. Len(auditLog) \in Nat /\ RowsOf(d) \subseteq 1..Len(auditLog)
  BY DEF RowsOf, TypeOK
<1>2. IsFiniteSet(1..Len(auditLog))
  BY <1>1, FS_Interval
<1> QED  BY <1>1, <1>2, FS_Subset, FS_CardinalityType

LEMMA TypedInit == Init => Typed
<1> SUFFICES ASSUME Init PROVE Typed  OBVIOUS
<1>1. auditLog \in Seq(Row)  BY DEF Init
<1>2. call \in [Actors -> Call] /\ CallsAreAboutSomething
  BY IdleTyped DEF Init, CallsAreAboutSomething
<1> QED  BY <1>1, <1>2 DEF Typed, TypeOK

\* Whatever a step does, the log keeps its rows and gains at most one.
LEMMA TypedStep ==
  ASSUME Typed, [Next]_vars
  PROVE  /\ Typed'
         /\ \/ auditLog' = auditLog
            \/ \E row \in Row : auditLog' = Append(auditLog, row)
<1> DEFINE Grows == \/ auditLog' = auditLog
                    \/ \E row \in Row : auditLog' = Append(auditLog, row)
<1> USE DEF Typed
<1>call. ASSUME NEW a \in Actors, NEW c \in Call, call' = [call EXCEPT ![a] = c],
                c.pc \in {"count", "append"} => c.draft \in Drafts,
                c.pc \in {"fold", "insert"} => c.prospect \in Prospects
         PROVE  call' \in [Actors -> Call] /\ CallsAreAboutSomething'
  BY <1>call DEF TypeOK, CallsAreAboutSomething
<1>finish. ASSUME NEW a \in Actors, Finish(a)
           PROVE  call' \in [Actors -> Call] /\ CallsAreAboutSomething'
  BY <1>finish, <1>call, IdleTyped DEF Finish
<1>append. ASSUME NEW row \in Row, Append1(row)
           PROVE  auditLog' \in Seq(Row) /\ Grows
  BY <1>append DEF Append1, TypeOK
<1>1. ASSUME NEW a \in Actors, NEW p \in Prospects, BeginGenerate(a, p) PROVE Typed' /\ Grows
  <2> DEFINE c == [Idle EXCEPT !.pc = "fold", !.prospect = p, !.listed = CreatedFor(p)]
  <2>1. c \in Call /\ c.pc = "fold" /\ c.prospect \in Prospects
    BY IdleTyped DEF Call, CreatedFor
  <2>2. call' = [call EXCEPT ![a] = c] /\ UNCHANGED auditLog
    BY <1>1 DEF BeginGenerate
  <2> HIDE DEF c
  <2> QED  BY <2>1, <2>2, <1>call DEF TypeOK
<1>2. ASSUME NEW a \in Actors, FoldListed(a) PROVE Typed' /\ Grows
  <2> DEFINE c == [call[a] EXCEPT !.pc = "insert"]
  <2>1. c \in Call /\ c.pc = "insert" /\ c.prospect \in Prospects
    BY <1>2 DEF FoldListed, TypeOK, CallsAreAboutSomething, Call
  <2>2. UNCHANGED auditLog /\ (Finish(a) \/ call' = [call EXCEPT ![a] = c])
    BY <1>2 DEF FoldListed, TypeOK, Call
  <2> HIDE DEF c
  <2> QED  BY <2>1, <2>2, <1>call, <1>finish DEF TypeOK
<1>3. ASSUME NEW a \in Actors, NEW d \in Drafts, WriteCreated(a, d) PROVE Typed' /\ Grows
  <2> DEFINE row == [draft |-> d, event |-> "created", sequence |-> 0, prospect |-> call[a].prospect]
  <2>1. row \in Row
    BY <1>3 DEF WriteCreated, TypeOK, Call, Row, Events
  <2>2. Append1(row) /\ Finish(a)
    BY <1>3 DEF WriteCreated
  <2> HIDE DEF row
  <2> QED  BY <2>1, <2>2, <1>append, <1>finish DEF TypeOK
<1>4. ASSUME NEW a \in Actors, NEW d \in Drafts, NEW t \in Transitions, BeginTransition(a, d, t)
      PROVE  Typed' /\ Grows
  <2> DEFINE c == [Idle EXCEPT !.pc = "count", !.draft = d, !.transition = t]
  <2>1. c \in Call /\ c.pc = "count" /\ c.draft \in Drafts
    BY IdleTyped DEF Call
  <2>2. call' = [call EXCEPT ![a] = c] /\ UNCHANGED auditLog
    BY <1>4 DEF BeginTransition
  <2> HIDE DEF c
  <2> QED  BY <2>1, <2>2, <1>call DEF TypeOK
<1>5. ASSUME NEW a \in Actors, CountRows(a) PROVE Typed' /\ Grows
  <2> DEFINE n == Cardinality(RowsOf(call[a].draft))
             c == [call[a] EXCEPT !.pc = "append", !.sequence = n]
  <2>1. n \in Nat
    BY RowsFinite
  <2>2. call' = [call EXCEPT ![a] = [call[a] EXCEPT !.pc = "append", !.sequence = n]]
    BY <1>5 DEF CountRows, TypeOK, Call
  <2> HIDE DEF n
  <2>3. c \in Call /\ c.pc = "append" /\ c.draft \in Drafts
    BY <1>5, <2>1 DEF CountRows, TypeOK, CallsAreAboutSomething, Call
  <2> HIDE DEF c
  <2>4. call' \in [Actors -> Call] /\ CallsAreAboutSomething'
    BY <2>2, <2>3, <1>call DEF c
  <2> QED  BY <1>5, <2>4 DEF CountRows, TypeOK
<1>6. ASSUME NEW a \in Actors, WriteEvent(a) PROVE Typed' /\ Grows
  <2> DEFINE row == [draft |-> call[a].draft, event |-> EventOf(call[a].transition),
                     sequence |-> call[a].sequence, prospect |-> NoProspect]
  <2>1. row \in Row
    BY <1>6 DEF WriteEvent, TypeOK, CallsAreAboutSomething, Call, Row, Events, EventOf, Transitions
  <2>2. Append1(row) /\ Finish(a)
    BY <1>6 DEF WriteEvent
  <2> HIDE DEF row
  <2> QED  BY <2>1, <2>2, <1>append, <1>finish DEF TypeOK
<1>7. ASSUME NEW a \in Actors, Crash(a) PROVE Typed' /\ Grows
  BY <1>7, <1>finish DEF Crash, TypeOK
<1>8. CASE UNCHANGED vars
  BY <1>8 DEF vars, TypeOK, CallsAreAboutSomething
<1> QED  BY <1>1, <1>2, <1>3, <1>4, <1>5, <1>6, <1>7, <1>8 DEF Next

\* Every row and every call in progress keeps its type.
THEOREM TypeCorrect == Spec => []TypeOK
<1>1. Init => Typed  BY TypedInit
<1>2. Typed /\ [Next]_vars => Typed'  BY TypedStep
<1>3. Typed => TypeOK  BY DEF Typed
<1> QED  BY <1>1, <1>2, <1>3, PTL DEF Spec
-----------------------------------------------------------------------------
(* Growth of the log: rows are only added, at the end.                     *)

LEMMA Appended ==
  ASSUME TypeOK, NEW row \in Row, auditLog' = Append(auditLog, row)
  PROVE  /\ Len(auditLog) \in Nat
         /\ DOMAIN auditLog = 1..Len(auditLog)
         /\ DOMAIN auditLog' = 1..(Len(auditLog) + 1)
         /\ \A i \in 1..Len(auditLog) : auditLog'[i] = auditLog[i]
         /\ auditLog'[Len(auditLog) + 1] = row
  BY DEF TypeOK
-----------------------------------------------------------------------------
(* Review.  The table offers APPROVE from PENDING_APPROVAL only, the fold  *)
(* answers that only for a draft with a 'submitted' row, and rows stay.    *)

Submitted(d) == \E j \in DOMAIN auditLog : auditLog[j].draft = d /\ auditLog[j].event = "submitted"

LEMMA ApprovalIsPermittedFromPendingOnly ==
  ASSUME NEW d, Permitted(d, "APPROVE")
  PROVE  Submitted(d)
<1>1. StatusOf(d) \in DraftStates
  BY DEF StatusOf, DraftStates
<1>2. \A to \in DraftStates, from \in {"DRAFTED", "APPROVED", "REJECTED"} :
        <<from, "APPROVE", to>> \notin TransitionTable
  BY DEF TransitionTable
<1>3. ASSUME NEW from \in {"DRAFTED", "APPROVED", "REJECTED"}
      PROVE  ApplyTransition(from, "APPROVE") \in {Invalid, from}
  BY <1>2 DEF ApplyTransition
<1>4. StatusOf(d) = "PENDING_APPROVAL"
  BY <1>1, <1>3 DEF Permitted, DraftStates
<1>5. LastStatusEvent(d, "submitted")
  BY <1>4 DEF StatusOf
<1> QED  BY <1>5 DEF LastStatusEvent, RowsOf, Submitted

ApprovalsInProgressAreReviewed ==
  \A a \in Actors :
    call[a].pc \in {"count", "append"} /\ call[a].transition = "APPROVE" => Submitted(call[a].draft)

ReviewInv == Typed /\ ApprovalsInProgressAreReviewed /\ ApprovalNeverSkipsReview

LEMMA SubmittedStays ==
  ASSUME Typed, [Next]_vars, NEW d, Submitted(d)
  PROVE  Submitted(d)'
<1>1. CASE auditLog' = auditLog  BY <1>1 DEF Submitted
<1>2. ASSUME NEW row \in Row, auditLog' = Append(auditLog, row) PROVE Submitted(d)'
  BY <1>2, Appended DEF Submitted, Typed
<1> QED  BY <1>1, <1>2, TypedStep

\* A new row that is not an unreviewed approval keeps the history reviewed.
LEMMA ReviewedAppend ==
  ASSUME Typed, ApprovalNeverSkipsReview, NEW row \in Row, auditLog' = Append(auditLog, row),
         row.event = "approved" => Submitted(row.draft)
  PROVE  ApprovalNeverSkipsReview'
<1> SUFFICES ASSUME NEW i \in DOMAIN auditLog', auditLog'[i].event = "approved"
             PROVE  \E j \in 1..(i - 1) : /\ auditLog'[j].draft = auditLog'[i].draft
                                          /\ auditLog'[j].event = "submitted"
  BY DEF ApprovalNeverSkipsReview
<1>1. CASE i \in 1..Len(auditLog)
  <2>1. PICK j \in 1..(i - 1) : auditLog[j].draft = auditLog[i].draft /\ auditLog[j].event = "submitted"
    BY <1>1, Appended DEF ApprovalNeverSkipsReview, Typed
  <2> QED  BY <1>1, <2>1, Appended DEF Typed
<1>2. CASE i = Len(auditLog) + 1
  <2>1. PICK j \in 1..Len(auditLog) : auditLog[j].draft = row.draft /\ auditLog[j].event = "submitted"
    BY <1>2, Appended DEF Submitted, Typed
  <2> QED  BY <1>2, <2>1, Appended DEF Typed
<1> QED  BY <1>1, <1>2, Appended DEF Typed

LEMMA ReviewStep == ReviewInv /\ [Next]_vars => ReviewInv'
<1> SUFFICES ASSUME ReviewInv, [Next]_vars
             PROVE  ApprovalsInProgressAreReviewed' /\ ApprovalNeverSkipsReview'
  BY TypedStep DEF ReviewInv
<1> USE DEF ReviewInv
<1> DEFINE Kept == ApprovalsInProgressAreReviewed' /\ ApprovalNeverSkipsReview'
<1>0. TypeOK  BY DEF Typed
<1>other. ASSUME NEW a \in Actors, NEW c, call' = [call EXCEPT ![a] = c],
                 c.pc \in {"count", "append"} /\ c.transition = "APPROVE" => Submitted(c.draft)'
          PROVE  ApprovalsInProgressAreReviewed'
  BY <1>other, <1>0, SubmittedStays DEF ApprovalsInProgressAreReviewed, TypeOK
<1>finish. ASSUME NEW a \in Actors, Finish(a) PROVE ApprovalsInProgressAreReviewed'
  BY <1>finish, <1>other, IdleTyped DEF Finish
<1>1. ASSUME NEW a \in Actors, NEW p \in Prospects, BeginGenerate(a, p) PROVE Kept
  <2> DEFINE c == [Idle EXCEPT !.pc = "fold", !.prospect = p, !.listed = CreatedFor(p)]
  <2>1. c.pc = "fold"  BY DEF Idle
  <2>2. call' = [call EXCEPT ![a] = c] /\ UNCHANGED auditLog
    BY <1>1 DEF BeginGenerate
  <2> HIDE DEF c
  <2> QED  BY <2>1, <2>2, <1>other DEF ApprovalNeverSkipsReview
<1>2. ASSUME NEW a \in Actors, FoldListed(a) PROVE Kept
  <2> DEFINE c == [call[a] EXCEPT !.pc = "insert"]
  <2>1. c.pc = "insert"  BY <1>0 DEF TypeOK, Call
  <2>2. UNCHANGED auditLog /\ (Finish(a) \/ call' = [call EXCEPT ![a] = c])
    BY <1>2, <1>0 DEF FoldListed, TypeOK, Call
  <2> HIDE DEF c
  <2> QED  BY <2>1, <2>2, <1>other, <1>finish DEF ApprovalNeverSkipsReview
<1>3. ASSUME NEW a \in Actors, NEW d \in Drafts, WriteCreated(a, d) PROVE Kept
  <2> DEFINE row == [draft |-> d, event |-> "created", sequence |-> 0, prospect |-> call[a].prospect]
  <2>1. row \in Row /\ row.event = "created"
    BY <1>3, <1>0 DEF WriteCreated, TypeOK, Call, Row, Events
  <2>2. auditLog' = Append(auditLog, row) /\ Finish(a)
    BY <1>3 DEF WriteCreated, Append1
  <2> HIDE DEF row
  <2> QED  BY <2>1, <2>2, <1>finish, ReviewedAppend
<1>4. ASSUME NEW a \in Actors, NEW d \in Drafts, NEW t \in Transitions, BeginTransition(a, d, t)
      PROVE  Kept
  <2> DEFINE c == [Idle EXCEPT !.pc = "count", !.draft = d, !.transition = t]
  <2>1. c.draft = d /\ c.transition = t  BY DEF Idle
  <2>2. call' = [call EXCEPT ![a] = c] /\ UNCHANGED auditLog /\ Permitted(d, t)
    BY <1>4 DEF BeginTransition
  <2>3. t = "APPROVE" => Submitted(d)'
    BY <2>2, ApprovalIsPermittedFromPendingOnly, SubmittedStays
  <2> HIDE DEF c
  <2> QED  BY <2>1, <2>2, <2>3, <1>other DEF ApprovalNeverSkipsReview
<1>5. ASSUME NEW a \in Actors, CountRows(a) PROVE Kept
  <2>1. /\ UNCHANGED auditLog
        /\ \A b \in Actors : /\ call'[b].draft = call[b].draft
                             /\ call'[b].transition = call[b].transition
                             /\ call'[b].pc \in {"count", "append"} => call[b].pc \in {"count", "append"}
    BY <1>5, <1>0 DEF CountRows, TypeOK, Call
  <2> QED  BY <2>1 DEF ApprovalsInProgressAreReviewed, ApprovalNeverSkipsReview, Submitted
<1>6. ASSUME NEW a \in Actors, WriteEvent(a) PROVE Kept
  <2> DEFINE row == [draft |-> call[a].draft, event |-> EventOf(call[a].transition),
                     sequence |-> call[a].sequence, prospect |-> NoProspect]
  <2>1. row \in Row
    BY <1>6, <1>0 DEF WriteEvent, Typed, TypeOK, CallsAreAboutSomething, Call, Row, Events, EventOf, Transitions
  <2>2. row.event = "approved" => Submitted(row.draft)
    BY <1>6, <1>0 DEF WriteEvent, ApprovalsInProgressAreReviewed, EventOf, TypeOK, Call, Transitions
  <2>3. auditLog' = Append(auditLog, row) /\ Finish(a)
    BY <1>6 DEF WriteEvent, Append1
  <2> HIDE DEF row
  <2> QED  BY <2>1, <2>2, <2>3, <1>finish, ReviewedAppend
<1>7. ASSUME NEW a \in Actors, Crash(a) PROVE Kept
  BY <1>7, <1>finish DEF Crash, ApprovalNeverSkipsReview
<1>8. CASE UNCHANGED vars
  BY <1>8 DEF vars, ApprovalsInProgressAreReviewed, ApprovalNeverSkipsReview, Submitted
<1> QED  BY <1>1, <1>2, <1>3, <1>4, <1>5, <1>6, <1>7, <1>8 DEF Next

\* Whoever calls, in whatever order, an approval is recorded only after a submission for review.
THEOREM ReviewIsNeverSkipped == Spec => []ApprovalNeverSkipsReview
<1>1. Init => ReviewInv
  BY TypedInit, IdleTyped DEF Init, ReviewInv, ApprovalsInProgressAreReviewed, ApprovalNeverSkipsReview
<1>2. ReviewInv => ApprovalNeverSkipsReview  BY DEF ReviewInv
<1> QED  BY <1>1, <1>2, ReviewStep, PTL DEF Spec
-----------------------------------------------------------------------------
(* Sequence numbers.  A count read earlier is never above the rows there   *)
(* are when the event is written, because rows are never taken away.       *)

\* RowsOf, for a log that is named: the log before or after a step.
RowsIn(log, d) == {i \in DOMAIN log : log[i].draft = d}

CountsAreNotAhead ==
  \A a \in Actors :
    call[a].pc = "append" => call[a].sequence <= Cardinality(RowsOf(call[a].draft))

SequenceInv == Typed /\ CountsAreNotAhead /\ SequenceNeverAhead

LEMMA RowsInFinite ==
  ASSUME NEW log \in Seq(Row), NEW d
  PROVE  IsFiniteSet(RowsIn(log, d)) /\ Cardinality(RowsIn(log, d)) \in Nat
<1>1. Len(log) \in Nat /\ RowsIn(log, d) \subseteq 1..Len(log)
  BY DEF RowsIn
<1>2. IsFiniteSet(1..Len(log))
  BY <1>1, FS_Interval
<1> QED  BY <1>1, <1>2, FS_Subset, FS_CardinalityType

LEMMA RowsGrow ==
  ASSUME Typed, [Next]_vars, NEW d
  PROVE  /\ Cardinality(RowsIn(auditLog, d)) \in Nat
         /\ Cardinality(RowsIn(auditLog', d)) \in Nat
         /\ Cardinality(RowsIn(auditLog, d)) <= Cardinality(RowsIn(auditLog', d))
<1>0. auditLog \in Seq(Row) /\ auditLog' \in Seq(Row)
  BY TypedStep DEF Typed, TypeOK
<1>1. RowsIn(auditLog, d) \subseteq RowsIn(auditLog', d)
  <2>1. ASSUME NEW row \in Row, auditLog' = Append(auditLog, row)
        PROVE  RowsIn(auditLog, d) \subseteq RowsIn(auditLog', d)
    BY <2>1, Appended DEF RowsIn, Typed
  <2> QED  BY <2>1, TypedStep
<1> QED  BY <1>0, <1>1, RowsInFinite, FS_Subset

\* A new row whose number is not above its predecessors' count keeps all numbers so.
LEMMA CountedAppend ==
  ASSUME Typed, SequenceNeverAhead, NEW row \in Row, auditLog' = Append(auditLog, row),
         row.sequence <= Cardinality(RowsIn(auditLog, row.draft))
  PROVE  SequenceNeverAhead'
<1>0. TypeOK  BY DEF Typed
<1> SUFFICES ASSUME NEW i \in DOMAIN auditLog'
             PROVE  auditLog'[i].sequence
                      <= Cardinality({j \in RowsIn(auditLog', auditLog'[i].draft) : j < i})
  BY DEF SequenceNeverAhead, RowsOf, RowsIn
<1>1. CASE i \in 1..Len(auditLog)
  <2>1. auditLog'[i] = auditLog[i] /\ i \in DOMAIN auditLog
    BY <1>0, <1>1, Appended
  <2>2. {j \in RowsIn(auditLog', auditLog[i].draft) : j < i}
          = {j \in RowsIn(auditLog, auditLog[i].draft) : j < i}
    BY <1>0, <1>1, Appended DEF RowsIn
  <2>3. auditLog[i].sequence <= Cardinality({j \in RowsIn(auditLog, auditLog[i].draft) : j < i})
    BY <2>1 DEF SequenceNeverAhead, RowsOf, RowsIn
  <2> QED  BY <2>1, <2>2, <2>3
<1>2. CASE i = Len(auditLog) + 1
  <2>1. auditLog'[i] = row
    BY <1>0, <1>2, Appended
  <2>2. {j \in RowsIn(auditLog', row.draft) : j < i} = RowsIn(auditLog, row.draft)
    BY <1>0, <1>2, Appended DEF RowsIn
  <2> QED  BY <2>1, <2>2
<1>3. Len(auditLog) \in Nat /\ DOMAIN auditLog' = 1..(Len(auditLog) + 1)
  BY <1>0, Appended
<1>4. i \in 1..Len(auditLog) \/ i = Len(auditLog) + 1
  BY <1>3
<1> QED  BY <1>1, <1>2, <1>4

LEMMA SequenceStep == SequenceInv /\ [Next]_vars => SequenceInv'
<1> SUFFICES ASSUME SequenceInv, [Next]_vars
             PROVE  CountsAreNotAhead' /\ SequenceNeverAhead'
  BY TypedStep DEF SequenceInv
<1> USE DEF SequenceInv
<1> DEFINE Kept == CountsAreNotAhead' /\ SequenceNeverAhead'
<1>0. TypeOK /\ TypeOK'  BY TypedStep DEF Typed
<1>quiet. auditLog' = auditLog => SequenceNeverAhead'
  BY DEF SequenceNeverAhead, RowsOf
\* Calls that hold a count keep it while the rows only grow.
<1>held. ASSUME \A a \in Actors : \/ call'[a].pc # "append"
                                  \/ call'[a] = call[a]
         PROVE  CountsAreNotAhead'
  <2> SUFFICES ASSUME NEW a \in Actors, call'[a].pc = "append"
               PROVE  call'[a].sequence <= Cardinality(RowsIn(auditLog', call'[a].draft))
    BY DEF CountsAreNotAhead, RowsOf, RowsIn
  <2>1. call'[a] = call[a] /\ call[a].sequence \in Nat
    BY <1>held, <1>0 DEF TypeOK, Call
  <2>2. call[a].sequence <= Cardinality(RowsIn(auditLog, call[a].draft))
    BY <2>1 DEF CountsAreNotAhead, RowsOf, RowsIn
  <2> QED  BY <2>1, <2>2, RowsGrow
<1>finish. ASSUME NEW a \in Actors, Finish(a) PROVE CountsAreNotAhead'
  BY <1>finish, <1>held, <1>0, IdleTyped DEF Finish, TypeOK
<1>1. ASSUME NEW a \in Actors, NEW p \in Prospects, BeginGenerate(a, p) PROVE Kept
  <2>1. auditLog' = auditLog /\ \A b \in Actors : call'[b].pc # "append" \/ call'[b] = call[b]
    BY <1>1, <1>0 DEF BeginGenerate, Idle, TypeOK
  <2> QED  BY <2>1, <1>quiet, <1>held
<1>2. ASSUME NEW a \in Actors, FoldListed(a) PROVE Kept
  <2>1. CASE Finish(a)  BY <1>2, <2>1, <1>quiet, <1>finish DEF FoldListed
  <2>2. CASE call' = [call EXCEPT ![a].pc = "insert"]
    <3>1. \A b \in Actors : call'[b].pc # "append" \/ call'[b] = call[b]
      BY <2>2, <1>0 DEF TypeOK, Call
    <3> QED  BY <1>2, <3>1, <1>quiet, <1>held DEF FoldListed
  <2> QED  BY <1>2, <2>1, <2>2 DEF FoldListed
<1>3. ASSUME NEW a \in Actors, NEW d \in Drafts, WriteCreated(a, d) PROVE Kept
  <2> DEFINE row == [draft |-> d, event |-> "created", sequence |-> 0, prospect |-> call[a].prospect]
  <2>1. row \in Row /\ row.sequence = 0
    BY <1>3, <1>0 DEF WriteCreated, TypeOK, Call, Row, Events
  <2>2. auditLog' = Append(auditLog, row) /\ Finish(a)
    BY <1>3 DEF WriteCreated, Append1
  <2> HIDE DEF row
  <2>3. row.sequence <= Cardinality(RowsIn(auditLog, row.draft))
    <3>1. Cardinality(RowsIn(auditLog, row.draft)) \in Nat
      BY <1>0, RowsInFinite DEF TypeOK
    <3> QED  BY <2>1, <3>1
  <2> QED  BY <2>1, <2>2, <2>3, <1>finish, CountedAppend
<1>4. ASSUME NEW a \in Actors, NEW d \in Drafts, NEW t \in Transitions, BeginTransition(a, d, t)
      PROVE  Kept
  <2>1. auditLog' = auditLog /\ \A b \in Actors : call'[b].pc # "append" \/ call'[b] = call[b]
    BY <1>4, <1>0 DEF BeginTransition, Idle, TypeOK
  <2> QED  BY <2>1, <1>quiet, <1>held
<1>5. ASSUME NEW a \in Actors, CountRows(a) PROVE Kept
  <2>1. auditLog' = auditLog
    BY <1>5 DEF CountRows
  <2>2. \A b \in Actors \ {a} : call'[b] = call[b]
    BY <1>5, <1>0 DEF CountRows, TypeOK
  <2>3. call'[a].sequence = Cardinality(RowsIn(auditLog, call[a].draft)) /\ call'[a].draft = call[a].draft
    <3> DEFINE n == Cardinality(RowsOf(call[a].draft))
    <3>1. n = Cardinality(RowsIn(auditLog, call[a].draft))
      BY DEF RowsOf, RowsIn
    <3>2. call' = [call EXCEPT ![a].pc = "append", ![a].sequence = n]
      BY <1>5 DEF CountRows
    <3> HIDE DEF n
    <3>3. call'[a].sequence = n /\ call'[a].draft = call[a].draft
      BY <3>2, <1>0 DEF TypeOK, Call
    <3> QED  BY <3>1, <3>3
  <2>4. Cardinality(RowsIn(auditLog, call[a].draft)) \in Nat
    BY <1>0, RowsInFinite DEF TypeOK
  <2>5. ASSUME NEW b \in Actors, call'[b].pc = "append"
        PROVE  call'[b].sequence <= Cardinality(RowsIn(auditLog', call'[b].draft))
    <3>1. CASE b = a  BY <3>1, <2>1, <2>3, <2>4
    <3>2. CASE b # a
      <4>1. call[b].sequence <= Cardinality(RowsIn(auditLog, call[b].draft))
        BY <3>2, <2>2, <2>5 DEF CountsAreNotAhead, RowsOf, RowsIn
      <4> QED  BY <4>1, <3>2, <2>1, <2>2
    <3> QED  BY <3>1, <3>2
  <2> QED  BY <2>1, <2>5, <1>quiet DEF CountsAreNotAhead, RowsOf, RowsIn
<1>6. ASSUME NEW a \in Actors, WriteEvent(a) PROVE Kept
  <2> DEFINE row == [draft |-> call[a].draft, event |-> EventOf(call[a].transition),
                     sequence |-> call[a].sequence, prospect |-> NoProspect]
  <2>1. row \in Row
    BY <1>6, <1>0 DEF WriteEvent, Typed, TypeOK, CallsAreAboutSomething, Call, Row, Events, EventOf, Transitions
  <2>2. row.sequence <= Cardinality(RowsIn(auditLog, row.draft))
    BY <1>6 DEF WriteEvent, CountsAreNotAhead, RowsOf, RowsIn
  <2>3. auditLog' = Append(auditLog, row) /\ Finish(a)
    BY <1>6 DEF WriteEvent, Append1
  <2> HIDE DEF row
  <2> QED  BY <2>1, <2>2, <2>3, <1>finish, CountedAppend
<1>7. ASSUME NEW a \in Actors, Crash(a) PROVE Kept
  BY <1>7, <1>finish, <1>quiet DEF Crash
<1>8. CASE UNCHANGED vars
  BY <1>8, <1>quiet, <1>held DEF vars
<1> QED  BY <1>1, <1>2, <1>3, <1>4, <1>5, <1>6, <1>7, <1>8 DEF Next

\* However stale the counts, no event is numbered above the rows its draft had before it.
THEOREM SequencesNeverRunAhead == Spec => []SequenceNeverAhead
<1>1. Init => SequenceInv
  BY TypedInit, IdleTyped DEF Init, SequenceInv, CountsAreNotAhead, SequenceNeverAhead
<1>2. SequenceInv => SequenceNeverAhead  BY DEF SequenceInv
<1> QED  BY <1>1, <1>2, SequenceStep, PTL DEF Spec
-----------------------------------------------------------------------------
(* One caller at a time: a draft's events are in the order of their        *)
(* numbers, and what a call read is still so when it writes.               *)

LogInOrder ==
  /\ \A i, j \in DOMAIN auditLog :
       i < j /\ auditLog[i].draft = auditLog[j].draft => auditLog[i].sequence < auditLog[j].sequence
  /\ \A i \in DOMAIN auditLog : auditLog[i].sequence < Cardinality(RowsOf(auditLog[i].draft))

EachCreatedOnce ==
  /\ \A i \in DOMAIN auditLog : Created(auditLog[i].draft)
  /\ \A i, j \in DOMAIN auditLog :
       auditLog[i].event = "created" /\ auditLog[j].event = "created"
         /\ auditLog[i].draft = auditLog[j].draft => i = j
  /\ \A i \in DOMAIN auditLog : auditLog[i].event = "created" => auditLog[i].prospect \in Prospects

\* What call c read of the log it would read again.
IsCurrent(c) ==
  /\ c.pc \in {"count", "append"} => Created(c.draft) /\ Permitted(c.draft, c.transition)
  /\ c.pc = "append" => c.sequence = Cardinality(RowsOf(c.draft))
  /\ c.pc = "fold" => c.listed = CreatedFor(c.prospect)
  /\ c.pc = "insert" => \A d \in CreatedFor(c.prospect) : IsTerminal(StatusOf(d))

SerialInv == Typed /\ LogInOrder /\ EachCreatedOnce /\ \A a \in Actors : IsCurrent(call[a])

\* The status that an event sets.
StatusSet(event) ==
  CASE event = "created" -> "DRAFTED"
    [] event = "submitted" -> "PENDING_APPROVAL"
    [] event = "approved" -> "APPROVED"
    [] event = "rejected" -> "REJECTED"

\* The table knows one way out of a state for a transition, and none out of a terminal one.
LEMMA TableIsAFunction ==
  ASSUME NEW s \in DraftStates, NEW t \in Transitions, ApplyTransition(s, t) \notin {Invalid, s}
  PROVE  /\ ApplyTransition(s, t) = StatusSet(EventOf(t)) /\ ~IsTerminal(s)
         /\ EventOf(t) \in {"submitted", "approved", "rejected"}
<1>1. PICK to \in DraftStates : <<s, t, to>> \in TransitionTable
  BY DEF ApplyTransition
<1>2. to = StatusSet(EventOf(t)) /\ ~IsTerminal(s) /\ EventOf(t) \in {"submitted", "approved", "rejected"}
  BY <1>1 DEF TransitionTable, IsTerminal, StatusSet, EventOf
<1>3. \A other \in DraftStates : <<s, t, other>> \in TransitionTable => other = StatusSet(EventOf(t))
  BY DEF TransitionTable, StatusSet, EventOf
<1>4. ApplyTransition(s, t) \in DraftStates /\ <<s, t, ApplyTransition(s, t)>> \in TransitionTable
  BY <1>1 DEF ApplyTransition
<1> QED  BY <1>2, <1>3, <1>4

\* A new row leaves the other drafts as they are.
LEMMA OtherDrafts ==
  ASSUME TypeOK, NEW row \in Row, auditLog' = Append(auditLog, row), NEW d, d # row.draft
  PROVE  /\ RowsOf(d)' = RowsOf(d) /\ Created(d)' = Created(d) /\ StatusOf(d)' = StatusOf(d)
         /\ \A i \in RowsOf(d) : auditLog'[i] = auditLog[i]
<1>1. RowsOf(d)' = RowsOf(d) /\ \A i \in RowsOf(d) : auditLog'[i] = auditLog[i]
  BY Appended DEF RowsOf
<1>2. Created(d)' = Created(d)
  BY <1>1 DEF Created
<1>3. \A e : LastStatusEvent(d, e)' = LastStatusEvent(d, e)
  BY <1>1 DEF LastStatusEvent, Precedes
<1> QED  BY <1>1, <1>2, <1>3 DEF StatusOf

\* A row that is numbered last is what the fold goes by, whether it creates the draft or moves it.
LEMMA FoldGoesByTheLast ==
  ASSUME TypeOK, LogInOrder, NEW row \in Row, auditLog' = Append(auditLog, row),
         row.sequence = Cardinality(RowsOf(row.draft)),
         row.event = "created" => RowsOf(row.draft) = {}
  PROVE  StatusOf(row.draft)' = StatusSet(row.event)
<1>n. PICK n : n = Len(auditLog) + 1
  OBVIOUS
<1>d. PICK d : d = row.draft
  OBVIOUS
<1>1. /\ RowsOf(d)' = RowsOf(d) \cup {n} /\ n \notin RowsOf(d) /\ auditLog'[n] = row
      /\ \A i \in RowsOf(d) : auditLog'[i] = auditLog[i] /\ i \in DOMAIN auditLog /\ auditLog[i].draft = d
  BY <1>n, <1>d, Appended DEF RowsOf
<1>2. \A i \in RowsOf(d) : auditLog'[i].sequence < row.sequence
  BY <1>d, <1>1 DEF LogInOrder
<1>3. row.sequence \in Nat /\ \A i \in RowsOf(d) : auditLog'[i].sequence \in Nat
  <2>1. \A i \in DOMAIN auditLog : auditLog[i] \in Row
    BY DEF TypeOK
  <2> QED  BY <1>1, <2>1 DEF Row
<1>4. \A i \in RowsOf(d) : Precedes(i, n)' /\ ~Precedes(n, i)'
  BY <1>1, <1>2, <1>3 DEF Precedes
<1>5. ~Precedes(n, n)'
  <2>1. n \in Nat
    BY <1>n, Appended
  <2> QED  BY <1>1, <1>3, <2>1 DEF Precedes
<1>6. CASE row.event = "created"
  <2>1. RowsOf(d)' = {n} /\ auditLog'[n].event = "created"
    BY <1>d, <1>1, <1>6
  <2>2. \A e \in {"approved", "rejected", "submitted"} : ~LastStatusEvent(d, e)'
    BY <2>1 DEF LastStatusEvent
  <2> QED  BY <1>d, <1>6, <2>2 DEF StatusOf, StatusSet
<1>7. CASE row.event # "created"
  <2>1. LastStatusEvent(d, row.event)'
    BY <1>1, <1>4, <1>5 DEF LastStatusEvent
  <2>2. ASSUME NEW e, e # row.event PROVE ~LastStatusEvent(d, e)'
    BY <1>1, <1>4, <1>7, <2>2 DEF LastStatusEvent
  <2>3. row.event \in {"submitted", "approved", "rejected"}
    BY <1>7 DEF Row, Events
  <2> QED  BY <1>d, <2>1, <2>2, <2>3 DEF StatusOf, StatusSet
<1> QED  BY <1>6, <1>7

LEMMA SerialAppend ==
  ASSUME TypeOK, LogInOrder, EachCreatedOnce, NEW row \in Row, auditLog' = Append(auditLog, row),
         row.sequence = Cardinality(RowsOf(row.draft)),
         row.event = "created" => ~Created(row.draft) /\ row.prospect \in Prospects,
         row.event # "created" => Created(row.draft)
  PROVE  LogInOrder' /\ EachCreatedOnce'
<1>n. PICK n : n = Len(auditLog) + 1
  OBVIOUS
<1>d. PICK d : d = row.draft
  OBVIOUS
<1>0. /\ DOMAIN auditLog' = DOMAIN auditLog \cup {n} /\ n \notin DOMAIN auditLog /\ auditLog'[n] = row
      /\ \A i \in DOMAIN auditLog : auditLog'[i] = auditLog[i] /\ i < n /\ i \in Nat
      /\ n \in Nat
  BY <1>n, Appended
<1>1. RowsOf(d)' = RowsOf(d) \cup {n} /\ n \notin RowsOf(d)
  BY <1>d, <1>0 DEF RowsOf
<1>2. /\ Cardinality(RowsOf(d)') = Cardinality(RowsOf(d)) + 1 /\ Cardinality(RowsOf(d)) \in Nat
  BY <1>1, RowsFinite, FS_AddElement
<1>3. \A i \in DOMAIN auditLog : auditLog[i].sequence \in Nat
  <2>1. \A i \in DOMAIN auditLog : auditLog[i] \in Row
    BY DEF TypeOK
  <2> QED  BY <2>1 DEF Row
<1>4. ASSUME NEW i \in DOMAIN auditLog', NEW j \in DOMAIN auditLog', i < j,
             auditLog'[i].draft = auditLog'[j].draft
      PROVE  auditLog'[i].sequence < auditLog'[j].sequence
  <2>1. CASE j = n
    <3>1. i \in DOMAIN auditLog /\ auditLog[i].draft = d
      BY <1>d, <1>0, <1>4, <2>1
    <3> QED  BY <1>d, <1>0, <2>1, <3>1 DEF LogInOrder
  <2>2. CASE j # n
    <3>1. i \in DOMAIN auditLog /\ j \in DOMAIN auditLog
      BY <1>0, <1>4, <2>2
    <3> QED  BY <1>0, <1>4, <3>1 DEF LogInOrder
  <2> QED  BY <2>1, <2>2
<1>5. ASSUME NEW i \in DOMAIN auditLog'
      PROVE  auditLog'[i].sequence < Cardinality(RowsIn(auditLog', auditLog'[i].draft))
  <2>0. PICK e : e = auditLog'[i].draft
    OBVIOUS
  <2>s. RowsIn(auditLog', e) = RowsOf(e)'
    BY DEF RowsIn, RowsOf
  <2>1. CASE i = n
    BY <1>d, <1>0, <1>2, <2>0, <2>s, <2>1
  <2>2. CASE i \in DOMAIN auditLog /\ auditLog[i].draft = d
    <3>1. auditLog[i].sequence < Cardinality(RowsOf(d))
      BY <2>2 DEF LogInOrder
    <3> QED  BY <1>0, <1>2, <1>3, <2>0, <2>s, <2>2, <3>1
  <2>3. CASE i \in DOMAIN auditLog /\ auditLog[i].draft # d
    <3>1. e = auditLog[i].draft
      BY <1>0, <2>0, <2>3
    <3>2. RowsOf(e)' = RowsOf(e)
      BY <1>d, <2>3, <3>1, OtherDrafts
    <3>3. auditLog[i].sequence < Cardinality(RowsOf(e))
      BY <2>3, <3>1 DEF LogInOrder
    <3> QED  BY <1>0, <2>0, <2>s, <2>3, <3>1, <3>2, <3>3
  <2> QED  BY <1>0, <2>1, <2>2, <2>3
<1>6. LogInOrder'
  BY <1>4, <1>5 DEF LogInOrder, RowsOf, RowsIn
<1>7. ASSUME NEW i \in DOMAIN auditLog'
      PROVE  \E k \in DOMAIN auditLog' : auditLog'[k].draft = auditLog'[i].draft
                                            /\ auditLog'[k].event = "created"
  <2>1. \A e : Created(e) => \E k \in DOMAIN auditLog' : /\ auditLog'[k].draft = e
                                                         /\ auditLog'[k].event = "created"
    BY <1>0 DEF Created, RowsOf
  <2>2. CASE i = n /\ row.event = "created"
    BY <1>0, <2>2
  <2>3. CASE i = n /\ row.event # "created"
    BY <1>0, <2>1, <2>3
  <2>4. CASE i \in DOMAIN auditLog
    <3>1. Created(auditLog[i].draft)
      BY <2>4 DEF EachCreatedOnce
    <3> QED  BY <1>0, <2>1, <2>4, <3>1
  <2> QED  BY <1>0, <2>2, <2>3, <2>4
<1>8. \A i, j \in DOMAIN auditLog' :
        auditLog'[i].event = "created" /\ auditLog'[j].event = "created"
          /\ auditLog'[i].draft = auditLog'[j].draft => i = j
  BY <1>0 DEF EachCreatedOnce, Created, RowsOf
<1>9. \A i \in DOMAIN auditLog' : auditLog'[i].event = "created" => auditLog'[i].prospect \in Prospects
  BY <1>0 DEF EachCreatedOnce
<1> QED  BY <1>6, <1>7, <1>8, <1>9, ZenonT(40) DEF EachCreatedOnce, Created, RowsOf

\* A draft without a creation has no rows.
LEMMA NoRowsBeforeCreation ==
  ASSUME TypeOK, EachCreatedOnce, NEW d, ~Created(d)
  PROVE  RowsOf(d) = {} /\ Cardinality(RowsOf(d)) = 0
<1>1. RowsOf(d) = {}
  BY DEF EachCreatedOnce, RowsOf
<1> QED  BY <1>1, FS_EmptySet

\* What the two writes of a serial store do: the creation,
LEMMA CreatedEffect ==
  ASSUME SerialInv, NEW a \in Actors, NEW d \in Drafts, WriteCreated(a, d)
  PROVE  \E row \in Row, p \in Prospects :
           /\ p = call[a].prospect
           /\ auditLog' = Append(auditLog, row)
           /\ row.draft = d /\ row.event = "created" /\ row.prospect = p
           /\ ~Created(d) /\ LogInOrder' /\ EachCreatedOnce'
           /\ StatusOf(d)' = "DRAFTED"
           /\ \A e \in CreatedFor(p) : IsTerminal(StatusOf(e))
<1>0. TypeOK /\ LogInOrder /\ EachCreatedOnce /\ IsCurrent(call[a])
  BY DEF SerialInv, Typed
<1>p. PICK p \in Prospects : p = call[a].prospect
  BY DEF WriteCreated, SerialInv, Typed, CallsAreAboutSomething
<1>row. PICK row : row = [draft |-> d, event |-> "created", sequence |-> 0, prospect |-> p]
  OBVIOUS
<1>1. /\ row \in Row /\ row.draft = d /\ row.event = "created" /\ row.sequence = 0
      /\ row.prospect = p
  BY <1>row DEF Row, Events
<1>2. auditLog' = Append(auditLog, row) /\ ~Created(d) /\ call[a].pc = "insert"
  BY <1>p, <1>row DEF WriteCreated, Append1
<1>3. RowsOf(d) = {} /\ Cardinality(RowsOf(d)) = 0
  BY <1>0, <1>2, NoRowsBeforeCreation
<1>4. LogInOrder' /\ EachCreatedOnce'
  BY <1>0, <1>1, <1>2, <1>3, SerialAppend
<1>5. StatusOf(d)' = "DRAFTED"
  BY <1>0, <1>1, <1>2, <1>3, FoldGoesByTheLast DEF StatusSet
<1>6. \A e \in CreatedFor(p) : IsTerminal(StatusOf(e))
  BY <1>0, <1>2, <1>p DEF IsCurrent
<1> QED  BY <1>p, <1>1, <1>2, <1>4, <1>5, <1>6

\* and the event of a transition.
LEMMA EventEffect ==
  ASSUME SerialInv, NEW a \in Actors, WriteEvent(a)
  PROVE  \E row \in Row, d \in Drafts, t \in Transitions :
           /\ auditLog' = Append(auditLog, row)
           /\ row.draft = d /\ row.event # "created"
           /\ Created(d) /\ LogInOrder' /\ EachCreatedOnce'
           /\ ApplyTransition(StatusOf(d), t) # Invalid /\ ~IsTerminal(StatusOf(d))
           /\ StatusOf(d)' = ApplyTransition(StatusOf(d), t)
<1>0. TypeOK /\ LogInOrder /\ EachCreatedOnce /\ IsCurrent(call[a])
  BY DEF SerialInv, Typed
<1>d. PICK d \in Drafts : d = call[a].draft
  BY DEF WriteEvent, SerialInv, Typed, CallsAreAboutSomething
<1>t. PICK t \in Transitions : t = call[a].transition
  BY <1>0 DEF TypeOK, Call
<1>n. PICK n : n = call[a].sequence
  OBVIOUS
<1>1. Created(d) /\ Permitted(d, t) /\ n = Cardinality(RowsOf(d)) /\ n \in Nat
  BY <1>0, <1>d, <1>t, <1>n, RowsFinite DEF WriteEvent, IsCurrent
<1>2. /\ ApplyTransition(StatusOf(d), t) = StatusSet(EventOf(t)) /\ ~IsTerminal(StatusOf(d))
      /\ EventOf(t) \in {"submitted", "approved", "rejected"}
      /\ ApplyTransition(StatusOf(d), t) # Invalid
  <2>1. StatusOf(d) \in DraftStates
    BY DEF StatusOf, DraftStates
  <2>2. ApplyTransition(StatusOf(d), t) \notin {Invalid, StatusOf(d)}
    BY <1>1 DEF Permitted
  <2> QED  BY <2>1, <2>2, TableIsAFunction
<1>row. PICK row : row = [draft |-> d, event |-> EventOf(t), sequence |-> n, prospect |-> NoProspect]
  OBVIOUS
<1>3. /\ row \in Row /\ row.draft = d /\ row.event = EventOf(t) /\ row.event # "created"
      /\ row.sequence = Cardinality(RowsOf(d))
  BY <1>1, <1>2, <1>row DEF Row, Events
<1>4. auditLog' = Append(auditLog, row)
  BY <1>d, <1>t, <1>n, <1>row DEF WriteEvent, Append1
<1>5. LogInOrder' /\ EachCreatedOnce'
  BY <1>0, <1>1, <1>3, <1>4, SerialAppend
<1>6. StatusOf(d)' = StatusSet(EventOf(t))
  BY <1>0, <1>3, <1>4, FoldGoesByTheLast
<1> QED  BY <1>1, <1>2, <1>3, <1>4, <1>5, <1>6

\* The creations after a row is added.
LEMMA CreatedAppend ==
  ASSUME TypeOK, NEW row \in Row, auditLog' = Append(auditLog, row)
  PROVE  \A d, p : d \in CreatedFor(p)' <=>
           d \in CreatedFor(p) \/ (d = row.draft /\ row.event = "created" /\ row.prospect = p)
<1>n. PICK n : n = Len(auditLog) + 1
  OBVIOUS
<1>0. /\ DOMAIN auditLog' = DOMAIN auditLog \cup {n} /\ auditLog'[n] = row
      /\ \A i \in DOMAIN auditLog : auditLog'[i] = auditLog[i]
  BY <1>n, Appended
<1>1. row.draft \in Drafts
  BY DEF Row
<1> QED  BY <1>0, <1>1 DEF CreatedFor, RowsOf

LEMMA CreatedMeansCreatedFor ==
  ASSUME EachCreatedOnce, NEW d \in Drafts
  PROVE  Created(d) <=> \E p \in Prospects : d \in CreatedFor(p)
BY DEF EachCreatedOnce, Created, CreatedFor, RowsOf

\* Two callers are the same one.
OneCaller == \A a, b \in Actors : a = b

\* While the log stays, the one call goes on with what holds of its data.
LEMMA QuietCall ==
  ASSUME SerialInv, OneCaller, NEW a \in Actors, NEW c, call' = [call EXCEPT ![a] = c],
         UNCHANGED auditLog, IsCurrent(c)
  PROVE  LogInOrder' /\ EachCreatedOnce' /\ \A b \in Actors : IsCurrent(call[b])'
<1>1. LogInOrder' /\ EachCreatedOnce'
  BY DEF SerialInv, LogInOrder, EachCreatedOnce, Created, RowsOf
<1>2. IsCurrent(c)'
  BY DEF IsCurrent, Created, CreatedFor, Permitted, RowsOf, StatusOf, LastStatusEvent, Precedes
<1>3. ASSUME NEW b \in Actors PROVE IsCurrent(call[b])'
  <2>1. call'[b] = c
    BY DEF OneCaller, SerialInv, Typed, TypeOK
  <2> QED  BY <1>2, <2>1
<1> QED  BY <1>1, <1>3

LEMMA FinishedCall ==
  ASSUME Typed, OneCaller, NEW a \in Actors, Finish(a)
  PROVE  \A b \in Actors : IsCurrent(call[b])'
<1> SUFFICES ASSUME NEW b \in Actors PROVE IsCurrent(call[b])'
  OBVIOUS
<1>1. call'[b].pc = "idle"
  BY IdleTyped DEF Finish, OneCaller, Typed, TypeOK
<1> QED  BY <1>1 DEF IsCurrent

LEMMA SerialStep ==
  ASSUME SerialInv, OneCaller, [Next]_vars
  PROVE  SerialInv'
<1>0. Typed /\ TypeOK /\ LogInOrder /\ EachCreatedOnce /\ \A a \in Actors : IsCurrent(call[a]) /\ call[a] \in Call
  BY DEF SerialInv, Typed, TypeOK
<1> DEFINE Kept == LogInOrder' /\ EachCreatedOnce' /\ \A b \in Actors : IsCurrent(call[b])'
<1> SUFFICES Kept
  BY <1>0, TypedStep DEF SerialInv
<1>idle. ASSUME NEW a \in Actors, Finish(a), UNCHANGED auditLog PROVE Kept
  <2>1. LogInOrder' /\ EachCreatedOnce'
    BY <1>0, <1>idle DEF LogInOrder, EachCreatedOnce, Created, RowsOf
  <2> QED  BY <1>0, <1>idle, <2>1, FinishedCall
<1>1. ASSUME NEW a \in Actors, NEW p \in Prospects, BeginGenerate(a, p) PROVE Kept
  <2>1. PICK c : c = [Idle EXCEPT !.pc = "fold", !.prospect = p, !.listed = CreatedFor(p)]
    OBVIOUS
  <2>2. call' = [call EXCEPT ![a] = c] /\ UNCHANGED auditLog
    BY <1>1, <2>1 DEF BeginGenerate
  <2>3. IsCurrent(c)
    BY <2>1 DEF IsCurrent, Idle
  <2> HIDE DEF Kept
  <2> QED  BY <2>2, <2>3, QuietCall DEF Kept
<1>2. ASSUME NEW a \in Actors, FoldListed(a) PROVE Kept
  <2>1. PICK c : c = [call[a] EXCEPT !.pc = "insert"]
    OBVIOUS
  <2>2. CASE Finish(a)
    BY <1>2, <1>idle, <2>2 DEF FoldListed
  <2>3. CASE ~Finish(a)
    <3>1. /\ call' = [call EXCEPT ![a] = c] /\ UNCHANGED auditLog
          /\ call[a].pc = "fold" /\ \A d \in call[a].listed : ~AwaitsDecision(d)
      BY <1>0, <1>2, <2>1, <2>3 DEF FoldListed, Call
    <3>2. c.pc = "insert" /\ c.prospect = call[a].prospect /\ call[a].listed = CreatedFor(call[a].prospect)
      BY <1>0, <2>1, <3>1 DEF IsCurrent, Call
    <3>3. IsCurrent(c)
      BY <3>1, <3>2 DEF IsCurrent, AwaitsDecision
    <3> QED  BY <3>1, <3>3, QuietCall
  <2> QED  BY <2>2, <2>3
<1>3. ASSUME NEW a \in Actors, NEW d \in Drafts, WriteCreated(a, d) PROVE Kept
  <2>1. LogInOrder' /\ EachCreatedOnce'
    BY <1>3, CreatedEffect
  <2>2. Finish(a)
    BY <1>3 DEF WriteCreated
  <2> QED  BY <1>0, <2>1, <2>2, FinishedCall
<1>4. ASSUME NEW a \in Actors, NEW d \in Drafts, NEW t \in Transitions, BeginTransition(a, d, t)
      PROVE  Kept
  <2>1. PICK c : c = [Idle EXCEPT !.pc = "count", !.draft = d, !.transition = t]
    OBVIOUS
  <2>2. call' = [call EXCEPT ![a] = c] /\ UNCHANGED auditLog /\ Created(d) /\ Permitted(d, t)
    BY <1>4, <2>1 DEF BeginTransition
  <2>3. c.pc = "count" /\ c.draft = d /\ c.transition = t
    BY <2>1 DEF Idle
  <2>4. IsCurrent(c)
    BY <2>2, <2>3 DEF IsCurrent
  <2> QED  BY <2>2, <2>4, QuietCall
<1>5. ASSUME NEW a \in Actors, CountRows(a) PROVE Kept
  <2>1. PICK n : n = Cardinality(RowsOf(call[a].draft))
    OBVIOUS
  <2>2. PICK c : c = [call[a] EXCEPT !.pc = "append", !.sequence = n]
    OBVIOUS
  <2>3. call' = [call EXCEPT ![a] = c] /\ UNCHANGED auditLog /\ call[a].pc = "count"
    BY <1>0, <1>5, <2>1, <2>2 DEF CountRows, Call
  <2>4. /\ c.pc = "append" /\ c.draft = call[a].draft /\ c.transition = call[a].transition
        /\ c.sequence = n
    BY <1>0, <2>2 DEF Call
  <2>5. Created(call[a].draft) /\ Permitted(call[a].draft, call[a].transition)
    BY <1>0, <2>3 DEF IsCurrent
  <2>6. IsCurrent(c)
    BY <2>1, <2>4, <2>5 DEF IsCurrent
  <2> QED  BY <2>3, <2>6, QuietCall
<1>6. ASSUME NEW a \in Actors, WriteEvent(a) PROVE Kept
  <2>1. LogInOrder' /\ EachCreatedOnce'
    BY <1>6, EventEffect
  <2>2. Finish(a)
    BY <1>6 DEF WriteEvent
  <2> QED  BY <1>0, <2>1, <2>2, FinishedCall
<1>7. ASSUME NEW a \in Actors, Crash(a) PROVE Kept
  BY <1>7, <1>idle DEF Crash
<1>8. CASE UNCHANGED vars
  <2>1. ASSUME NEW a \in Actors PROVE Kept
    <3>1. PICK c : c = call[a]
      OBVIOUS
    <3>2. call' = [call EXCEPT ![a] = c] /\ UNCHANGED auditLog /\ IsCurrent(c)
      BY <1>0, <1>8, <3>1 DEF vars, TypeOK
    <3> QED  BY <3>2, QuietCall
  <2>2. LogInOrder' /\ EachCreatedOnce'
    BY <1>0, <1>8 DEF vars, LogInOrder, EachCreatedOnce, Created, RowsOf
  <2> QED  BY <2>1, <2>2
<1> HIDE DEF Kept
<1> QED  BY <1>1, <1>2, <1>3, <1>4, <1>5, <1>6, <1>7, <1>8 DEF Next

LEMMA SerialInit == Init => SerialInv
<1> SUFFICES ASSUME Init PROVE SerialInv
  OBVIOUS
<1>1. DOMAIN auditLog = {}
  BY DEF Init
<1>2. LogInOrder /\ EachCreatedOnce
  BY <1>1 DEF LogInOrder, EachCreatedOnce
<1>3. \A a \in Actors : IsCurrent(call[a])
  BY IdleTyped DEF Init, IsCurrent
<1> QED  BY <1>2, <1>3, TypedInit DEF SerialInv

\* What an action does to the drafts, as the fold reads them back.
LEMMA DraftsChange ==
  ASSUME SerialInv, [Next]_vars
  PROVE  \/ \A d \in Drafts : /\ StatusOf(d)' = StatusOf(d)
                              /\ Created(d)' = Created(d)
                              /\ \A p \in Prospects : CreatedFor(p)' = CreatedFor(p)
         \/ \E d \in Drafts, p \in Prospects :
              /\ ~Created(d) /\ Created(d)' /\ StatusOf(d)' = "DRAFTED"
              /\ \A e \in CreatedFor(p) : IsTerminal(StatusOf(e))
              /\ \A e \in Drafts \ {d} : StatusOf(e)' = StatusOf(e) /\ Created(e)' = Created(e)
              /\ \A q \in Prospects : CreatedFor(q)' = CreatedFor(q) \cup (IF q = p THEN {d} ELSE {})
         \/ \E d \in Drafts, t \in Transitions :
              /\ Created(d) /\ Created(d)'
              /\ ApplyTransition(StatusOf(d), t) # Invalid /\ ~IsTerminal(StatusOf(d))
              /\ StatusOf(d)' = ApplyTransition(StatusOf(d), t)
              /\ \A e \in Drafts \ {d} : StatusOf(e)' = StatusOf(e) /\ Created(e)' = Created(e)
              /\ \A q \in Prospects : CreatedFor(q)' = CreatedFor(q)
<1> DEFINE Same == \A d \in Drafts : /\ StatusOf(d)' = StatusOf(d)
                                     /\ Created(d)' = Created(d)
                                     /\ \A p \in Prospects : CreatedFor(p)' = CreatedFor(p)
<1>0. TypeOK
  BY DEF SerialInv, Typed
<1>1. CASE UNCHANGED auditLog
  <2>1. Same
    BY <1>1 DEF Created, CreatedFor, RowsOf, StatusOf, LastStatusEvent, Precedes
  <2> QED  BY <2>1
<1>2. ASSUME NEW a \in Actors, NEW d \in Drafts, WriteCreated(a, d)
      PROVE  \E p \in Prospects :
               /\ ~Created(d) /\ Created(d)' /\ StatusOf(d)' = "DRAFTED"
               /\ \A e \in CreatedFor(p) : IsTerminal(StatusOf(e))
               /\ \A e \in Drafts \ {d} : StatusOf(e)' = StatusOf(e) /\ Created(e)' = Created(e)
               /\ \A q \in Prospects : CreatedFor(q)' = CreatedFor(q) \cup (IF q = p THEN {d} ELSE {})
  <2>1. PICK row \in Row, p \in Prospects :
           /\ auditLog' = Append(auditLog, row)
           /\ row.draft = d /\ row.event = "created" /\ row.prospect = p
           /\ ~Created(d) /\ StatusOf(d)' = "DRAFTED"
           /\ \A e \in CreatedFor(p) : IsTerminal(StatusOf(e))
    BY <1>2, CreatedEffect
  <2>2. Created(d)'
    <3>1. d \in CreatedFor(p)'
      BY <1>0, <2>1, CreatedAppend
    <3> QED  BY <3>1 DEF CreatedFor, Created
  <2>3. \A e \in Drafts \ {d} : StatusOf(e)' = StatusOf(e) /\ Created(e)' = Created(e)
    BY <1>0, <2>1, OtherDrafts
  <2>4. ASSUME NEW q \in Prospects
        PROVE  CreatedFor(q)' = CreatedFor(q) \cup (IF q = p THEN {d} ELSE {})
    <3>1. \A e : e \in CreatedFor(q)' <=> e \in CreatedFor(q) \/ (e = d /\ p = q)
      BY <1>0, <2>1, CreatedAppend
    <3> QED  BY <3>1
  <2> QED  BY <2>1, <2>2, <2>3, <2>4
<1>3. ASSUME NEW a \in Actors, WriteEvent(a)
      PROVE  \E d \in Drafts, t \in Transitions :
               /\ Created(d) /\ Created(d)'
               /\ ApplyTransition(StatusOf(d), t) # Invalid /\ ~IsTerminal(StatusOf(d))
               /\ StatusOf(d)' = ApplyTransition(StatusOf(d), t)
               /\ \A e \in Drafts \ {d} : StatusOf(e)' = StatusOf(e) /\ Created(e)' = Created(e)
               /\ \A q \in Prospects : CreatedFor(q)' = CreatedFor(q)
  <2>1. PICK row \in Row, d \in Drafts, t \in Transitions :
           /\ auditLog' = Append(auditLog, row)
           /\ row.draft = d /\ row.event # "created" /\ Created(d)
           /\ ApplyTransition(StatusOf(d), t) # Invalid /\ ~IsTerminal(StatusOf(d))
           /\ StatusOf(d)' = ApplyTransition(StatusOf(d), t)
    BY <1>3, EventEffect
  <2>2. Created(d)'
    BY <1>0, <2>1, Appended DEF Created, RowsOf
  <2>3. \A e \in Drafts \ {d} : StatusOf(e)' = StatusOf(e) /\ Created(e)' = Created(e)
    BY <1>0, <2>1, OtherDrafts
  <2>4. ASSUME NEW q \in Prospects PROVE CreatedFor(q)' = CreatedFor(q)
    <3>1. \A e : e \in CreatedFor(q)' <=> e \in CreatedFor(q)
      BY <1>0, <2>1, CreatedAppend
    <3> QED  BY <3>1
  <2> QED  BY <2>1, <2>2, <2>3, <2>4
<1>4. \/ UNCHANGED auditLog
      \/ \E a \in Actors : WriteEvent(a) \/ \E d \in Drafts : WriteCreated(a, d)
  BY DEF Next, vars, BeginGenerate, FoldListed, BeginTransition, CountRows, Crash
<1> QED  BY <1>1, <1>2, <1>3, <1>4

\* A draft that was never created has no event to fold.
LEMMA UncreatedIsNotDecided ==
  ASSUME SerialInv, NEW d, ~Created(d)
  PROVE  ~IsTerminal(StatusOf(d))
<1>1. RowsOf(d) = {}
  BY NoRowsBeforeCreation DEF SerialInv, Typed
<1> QED  BY <1>1 DEF StatusOf, LastStatusEvent, IsTerminal

LEMMA SerialAlways == ASSUME OneCaller PROVE Spec => []SerialInv
<1>1. SerialInv /\ [Next]_vars => SerialInv'
  BY SerialStep
<1> QED  BY <1>1, SerialInit, PTL DEF Spec

\* While one caller writes at a time, a decision stands: no event is folded after an approval or
\* a rejection, so neither is ever replaced.
THEOREM DecisionsAreFinal ==
  ASSUME \A a, b \in Actors : a = b
  PROVE  Spec => DecisionsStand
<1>0. OneCaller
  BY DEF OneCaller
<1>1. SerialInv /\ [Next]_vars =>
        [\A d \in Drafts : IsTerminal(StatusOf(d)) => StatusOf(d)' = StatusOf(d)]_vars
  <2> SUFFICES ASSUME SerialInv, [Next]_vars, NEW d \in Drafts, IsTerminal(StatusOf(d))
               PROVE  StatusOf(d)' = StatusOf(d)
    OBVIOUS
  <2>1. Created(d)
    BY UncreatedIsNotDecided
  <2> QED  BY <2>1, DraftsChange
<1> QED  BY <1>0, <1>1, SerialAlways, PTL DEF Spec, DecisionsStand
-----------------------------------------------------------------------------
(* The refinement: the status and the owner the registry gives a draft.    *)

StatusIn(d) == IF Created(d) THEN StatusOf(d) ELSE "NONE"

OwnerIn(d) == IF \E p \in Prospects : d \in CreatedFor(p)
                THEN CHOOSE p \in Prospects : d \in CreatedFor(p)
                ELSE NoProspect

OwnersAreCreators ==
  \A d \in Drafts : /\ OwnerIn(d) \in Prospects \cup {NoProspect}
                    /\ \A p \in Prospects : d \in CreatedFor(p) <=> OwnerIn(d) = p

LEMMA OwnersAreThose == SerialInv => OwnersAreCreators
<1> SUFFICES ASSUME SerialInv, NEW d \in Drafts
             PROVE  /\ OwnerIn(d) \in Prospects \cup {NoProspect}
                    /\ \A p \in Prospects : d \in CreatedFor(p) <=> OwnerIn(d) = p
  BY DEF OwnersAreCreators
<1>1. \A p, q \in Prospects : d \in CreatedFor(p) /\ d \in CreatedFor(q) => p = q
  BY DEF SerialInv, EachCreatedOnce, CreatedFor, RowsOf
<1>2. CASE \E p \in Prospects : d \in CreatedFor(p)
  <2>1. OwnerIn(d) \in Prospects /\ d \in CreatedFor(OwnerIn(d))
    BY <1>2 DEF OwnerIn
  <2> QED  BY <1>1, <2>1
<1>3. CASE ~\E p \in Prospects : d \in CreatedFor(p)
  BY <1>3, NoProspectAssumption DEF OwnerIn
<1> QED  BY <1>2, <1>3

\* The registry's lifecycle is the store's.
LEMMA OneLifecycle ==
  /\ \A s, t : Registry!ApplyTransition(s, t) = ApplyTransition(s, t)
  /\ \A s : Registry!IsTerminal(s) <=> IsTerminal(s)
  /\ Registry!Invalid = Invalid /\ Registry!Transitions = Transitions
BY DEF Registry!ApplyTransition, ApplyTransition, Registry!TransitionTable, TransitionTable,
       Registry!DraftStates, DraftStates, Registry!IsDuplicateDecision, IsDuplicateDecision,
       Registry!IsTerminal, IsTerminal, Registry!Invalid, Invalid, Registry!Transitions, Transitions

LEMMA RegistryStep ==
  ASSUME SerialInv, OwnersAreCreators, OwnersAreCreators', [Next]_vars
  PROVE  [Registry!Next]_(Registry!vars)
<1>1. CASE \A d \in Drafts : /\ StatusOf(d)' = StatusOf(d)
                             /\ Created(d)' = Created(d)
                             /\ \A p \in Prospects : CreatedFor(p)' = CreatedFor(p)
  <2>1. \A d \in Drafts : StatusIn(d)' = StatusIn(d) /\ OwnerIn(d)' = OwnerIn(d)
    BY <1>1, NoProspectAssumption DEF StatusIn, OwnersAreCreators
  <2> QED  BY <2>1 DEF Registry!vars, StatusIn, OwnerIn
<1>2. ASSUME NEW d \in Drafts, NEW p \in Prospects,
             ~Created(d), Created(d)', StatusOf(d)' = "DRAFTED",
             \A e \in CreatedFor(p) : IsTerminal(StatusOf(e)),
             \A e \in Drafts \ {d} : StatusOf(e)' = StatusOf(e) /\ Created(e)' = Created(e),
             \A q \in Prospects : CreatedFor(q)' = CreatedFor(q) \cup (IF q = p THEN {d} ELSE {})
      PROVE  Registry!Create(d, p)
  <2>1. StatusIn(d) = "NONE"
    BY <1>2 DEF StatusIn
  <2>2. \A e \in Drafts : OwnerIn(e) = p => IsTerminal(StatusIn(e))
    BY <1>2, CreatedMeansCreatedFor DEF OwnersAreCreators, StatusIn, SerialInv
  <2>3. \A e \in Drafts : StatusIn(e)' = IF e = d THEN "DRAFTED" ELSE StatusIn(e)
    BY <1>2 DEF StatusIn
  <2>4. \A e \in Drafts : OwnerIn(e)' = IF e = d THEN p ELSE OwnerIn(e)
    BY <1>2, NoProspectAssumption DEF OwnersAreCreators
  <2> QED  BY <2>1, <2>2, <2>3, <2>4, OneLifecycle
            DEF Registry!Create, StatusIn, OwnerIn
<1>3. ASSUME NEW d \in Drafts, NEW t \in Transitions,
             Created(d), Created(d)',
             ApplyTransition(StatusOf(d), t) # Invalid,
             StatusOf(d)' = ApplyTransition(StatusOf(d), t),
             \A e \in Drafts \ {d} : StatusOf(e)' = StatusOf(e) /\ Created(e)' = Created(e),
             \A q \in Prospects : CreatedFor(q)' = CreatedFor(q)
      PROVE  Registry!Move(d, t)
  <2>1. StatusIn(d) # "NONE" /\ StatusIn(d) = StatusOf(d)
    BY <1>3 DEF StatusIn, StatusOf
  <2>2. \A e \in Drafts : StatusIn(e)' = IF e = d THEN ApplyTransition(StatusIn(d), t) ELSE StatusIn(e)
    BY <1>3 DEF StatusIn
  <2>3. \A e \in Drafts : OwnerIn(e)' = OwnerIn(e)
    BY <1>3, NoProspectAssumption DEF OwnersAreCreators
  <2> QED  BY <1>3, <2>1, <2>2, <2>3, OneLifecycle DEF Registry!Move, StatusIn, OwnerIn
<1> QED  BY <1>1, <1>2, <1>3, DraftsChange, OneLifecycle DEF Registry!Next

LEMMA RegistryInit == Init => Registry!Init
<1> SUFFICES ASSUME Init PROVE Registry!Init
  OBVIOUS
<1>1. \A d : RowsOf(d) = {}
  BY DEF Init, RowsOf
<1>2. \A d \in Drafts : ~Created(d) /\ \A p : d \notin CreatedFor(p)
  BY <1>1 DEF Created, CreatedFor
<1> QED  BY <1>2 DEF Registry!Init

\* While one caller writes at a time, the store is the registry: every event it writes is one
\* atomic creation or move along the lifecycle, and a prospect never has two undecided drafts.
THEOREM TheStoreIsTheRegistry ==
  ASSUME \A a, b \in Actors : a = b
  PROVE  Spec => ImplementsRegistry
<1>0. OneCaller
  BY DEF OneCaller
<1>1. SerialInv /\ OwnersAreCreators /\ OwnersAreCreators' /\ [Next]_vars
        => [Registry!Next]_(Registry!vars)
  BY RegistryStep
<1>2. Spec => []SerialInv
  BY <1>0, SerialAlways
<1> QED  BY <1>1, <1>2, RegistryInit, OwnersAreThose, PTL DEF Spec, ImplementsRegistry, Registry!Spec
=============================================================================
