------------------------ MODULE ContentPublish_proofs ------------------------
(***************************************************************************)
(* What holds of the content drafts and their publication for any number   *)
(* of drafts, texts and publishers.                                        *)
(***************************************************************************)
EXTENDS ContentPublish, FiniteSetTheorems, TLAPS

\* An edit in progress is about a draft, and one that is about to write its event or its column
\* still finds the log as it was when it was let through.
EditsAreAboutDrafts ==
  /\ edit.pc # "idle" => edit.draft \in Drafts
  /\ edit.pc = "body" => edit.op = "UPDATE_BODY"
  /\ edit.pc = "event" =>
       /\ edit.op # "REVALIDATE"
       /\ edit.op \in Transitions =>
            ApplyTransition(log[edit.draft].status, edit.op)
              \in DraftStates \ {log[edit.draft].status}
       /\ edit.op = "REAPPROVE" => log[edit.draft].status = "APPROVED"
  /\ edit.pc = "column" =>
       /\ edit.op \in {"APPROVE", "REJECT", "REAPPROVE", "REVALIDATE"}
       /\ edit.op = "APPROVE" => log[edit.draft].status = "APPROVED"
       /\ edit.op = "REJECT" => log[edit.draft].status = "REJECTED"

CallsAreAboutDrafts ==
  \A p \in Publishers : pub[p].pc \notin {"idle", "next"} => pub[p].draft \in Drafts

Typed == TypeOK /\ EditsAreAboutDrafts /\ CallsAreAboutDrafts
-----------------------------------------------------------------------------
(* The lifecycle, and the records a call starts from.                       *)

LEMMA Records ==
  /\ NoEdit \in EditState /\ NoEdit.pc = "idle"
  /\ NoPub \in PubState /\ NoPub.pc = "idle"
  /\ \A q \in SUBSET Drafts, pc \in {"next", "load"}, d \in Drafts \cup {NoDraft} :
       [pc |-> pc, queue |-> q, draft |-> d, text |-> NoBody] \in PubState
BY DEF NoEdit, EditState, NoPub, PubState, Operations, Transitions

\* A transition that is neither invalid nor a duplicate leads to another state, which is the one
\* its name says; nothing leads out of a terminal state.
LEMMA Lifecycle ==
  ASSUME NEW s \in DraftStates, NEW t \in Transitions,
         ApplyTransition(s, t) \notin {Invalid, s}
  PROVE  /\ ApplyTransition(s, t) \in DraftStates \ {s}
         /\ ~IsTerminal(s)
         /\ t = "APPROVE" => ApplyTransition(s, t) = "APPROVED"
         /\ t = "REJECT" => ApplyTransition(s, t) = "REJECTED"
         /\ t = "SUBMIT_FOR_APPROVAL" => ApplyTransition(s, t) = "PENDING_APPROVAL"
<1>1. PICK to \in DraftStates : <<s, t, to>> \in TransitionTable
  BY DEF ApplyTransition, IsDuplicateDecision
<1>2. \A u \in DraftStates : <<s, t, u>> \in TransitionTable => u = to
  BY <1>1 DEF TransitionTable
<1>3. ApplyTransition(s, t) = to
  BY <1>1, <1>2 DEF ApplyTransition
<1> QED  BY <1>1, <1>3 DEF TransitionTable, IsTerminal, DraftStates
-----------------------------------------------------------------------------
(* Typing.                                                                   *)

LEMMA TypedInit == Init => Typed
<1> SUFFICES ASSUME Init PROVE Typed  OBVIOUS
<1>1. rows \in [Drafts -> RowState] /\ log \in [Drafts -> LogState]
  BY DEF Init, DraftsInit, RowState, LogState, DraftStates
<1>2. edit \in EditState /\ pub \in [Publishers -> PubState] /\ postedNow \subseteq Drafts
  BY Records DEF Init, DraftsInit
<1>3. EditsAreAboutDrafts /\ CallsAreAboutDrafts
  BY Records DEF Init, DraftsInit, EditsAreAboutDrafts, CallsAreAboutDrafts
<1> QED  BY <1>1, <1>2, <1>3 DEF Typed, TypeOK

\* A publisher's step changes its own call, and of the drafts nothing but the rows.
LEMMA CallTyped ==
  ASSUME Typed, NEW p \in Publishers, NEW c \in PubState, pub' = [pub EXCEPT ![p] = c],
         c.pc \notin {"idle", "next"} => c.draft \in Drafts,
         rows' \in [Drafts -> RowState], postedNow' \subseteq Drafts, UNCHANGED <<log, edit>>
  PROVE  Typed'
<1>1. TypeOK'  BY DEF Typed, TypeOK
<1>2. EditsAreAboutDrafts'  BY DEF Typed, EditsAreAboutDrafts
<1>3. CallsAreAboutDrafts'  BY DEF Typed, TypeOK, CallsAreAboutDrafts
<1> QED  BY <1>1, <1>2, <1>3 DEF Typed

\* The places a call of publishDraft goes through once it has its draft.
LEMMA GotoTyped ==
  ASSUME Typed, NEW p \in Publishers,
         NEW pc \in {"integrity", "schedule", "row", "checks", "limit", "post", "save"},
         Goto(p, pc), pub[p].pc \notin {"idle", "next"},
         rows' \in [Drafts -> RowState], postedNow' \subseteq Drafts, UNCHANGED <<log, edit>>
  PROVE  Typed'
<1> DEFINE c == [pub[p] EXCEPT !.pc = pc]
<1>1. c \in PubState /\ c.draft = pub[p].draft
  BY DEF Typed, TypeOK, PubState
<1>2. pub' = [pub EXCEPT ![p] = c]
  BY DEF Goto
<1>3. c.draft \in Drafts
  BY <1>1 DEF Typed, CallsAreAboutDrafts
<1> HIDE DEF c
<1> QED  BY <1>1, <1>2, <1>3, CallTyped

LEMMA FinishTyped ==
  ASSUME Typed, NEW p \in Publishers, Finish(p),
         rows' \in [Drafts -> RowState], postedNow' \subseteq Drafts, UNCHANGED <<log, edit>>
  PROVE  Typed'
<1> DEFINE c == [NoPub EXCEPT !.pc = "next", !.queue = pub[p].queue]
<1>1. c \in PubState /\ c.pc = "next"
  BY DEF Typed, TypeOK, PubState, NoPub
<1>2. pub' = [pub EXCEPT ![p] = c]
  BY DEF Finish
<1> HIDE DEF c
<1> QED  BY <1>1, <1>2, CallTyped

LEMMA PublisherTyped ==
  ASSUME Typed, NEW p \in Publishers,
         \/ PublishStep(p) \/ BeginJob(p)
         \/ \E d \in Drafts : BeginPublish(p, d)
  PROVE  Typed'
<1>0. /\ rows \in [Drafts -> RowState] /\ postedNow \subseteq Drafts
      /\ pub \in [Publishers -> PubState]
      /\ pub[p].pc \notin {"idle", "next"} => pub[p].draft \in Drafts
  BY DEF Typed, TypeOK, CallsAreAboutDrafts
<1>1. CASE BeginJob(p)
  <2>1. PICK due \in SUBSET Publishable \ {{}} :
          pub' = [pub EXCEPT ![p] = [NoPub EXCEPT !.pc = "next", !.queue = due]]
    BY <1>1 DEF BeginJob
  <2> DEFINE c == [NoPub EXCEPT !.pc = "next", !.queue = due]
  <2>2. c \in PubState /\ c.pc = "next"
    BY <2>1 DEF PubState, NoPub, Publishable
  <2> HIDE DEF c
  <2> QED  BY <1>0, <1>1, <2>1, <2>2, CallTyped DEF BeginJob, draftVars, c
<1>2. ASSUME NEW d \in Drafts, BeginPublish(p, d) PROVE Typed'
  <2> DEFINE c == [NoPub EXCEPT !.pc = "load", !.draft = d]
  <2>1. c \in PubState /\ c.draft \in Drafts /\ pub' = [pub EXCEPT ![p] = c]
    BY <1>2 DEF PubState, NoPub, BeginPublish
  <2> HIDE DEF c
  <2> QED  BY <1>0, <1>2, <2>1, CallTyped DEF BeginPublish, draftVars
<1>3. CASE NextDue(p)
  <2>1. CASE pub' = [pub EXCEPT ![p] = NoPub]
    BY <1>0, <1>3, <2>1, Records, CallTyped DEF NextDue, draftVars
  <2>2. ASSUME NEW d \in pub[p].queue,
               pub' = [pub EXCEPT ![p] = [NoPub EXCEPT !.pc = "load", !.draft = d,
                                                       !.queue = pub[p].queue \ {d}]]
        PROVE  Typed'
    <3> DEFINE c == [NoPub EXCEPT !.pc = "load", !.draft = d, !.queue = pub[p].queue \ {d}]
    <3>1. c \in PubState /\ c.draft \in Drafts
      BY <1>0 DEF PubState, NoPub
    <3>2. pub' = [pub EXCEPT ![p] = c]
      BY <2>2
    <3> HIDE DEF c
    <3> QED  BY <1>0, <1>3, <3>1, <3>2, CallTyped DEF NextDue, draftVars
  <2> QED  BY <1>3, <2>1, <2>2 DEF NextDue
<1>4. CASE LoadDraft(p)
  <2>1. pub[p].draft \in Drafts
    BY <1>0, <1>4 DEF LoadDraft
  <2>2. CASE pub' = [pub EXCEPT ![p].pc = "integrity", ![p].text = rows[pub[p].draft].body]
    <3> DEFINE c == [pub[p] EXCEPT !.pc = "integrity", !.text = rows[pub[p].draft].body]
    <3>1. c \in PubState /\ c.draft \in Drafts
      BY <1>0, <2>1 DEF PubState, RowState
    <3>2. pub' = [pub EXCEPT ![p] = c]
      BY <1>0, <2>2 DEF PubState
    <3> HIDE DEF c
    <3> QED  BY <1>0, <1>4, <3>1, <3>2, CallTyped DEF LoadDraft, draftVars
  <2> QED  BY <1>0, <1>4, <2>2, FinishTyped DEF LoadDraft, draftVars
<1>5. CASE CheckIntegrity(p) \/ CheckSchedule(p) \/ CheckUnpublished(p) \/ OtherChecks(p) \/ CheckLimit(p)
  BY <1>0, <1>5, GotoTyped, FinishTyped
     DEF CheckIntegrity, CheckSchedule, CheckUnpublished, OtherChecks, CheckLimit, draftVars
<1>6. CASE PostSucceeds(p) \/ PostRefused(p) \/ PostUnknown(p) \/ SaveThrows(p)
  BY <1>0, <1>6, GotoTyped, FinishTyped
     DEF PostSucceeds, PostRefused, PostUnknown, SaveThrows, Posted, draftVars
<1>7. CASE SavePostId(p)
  <2>1. rows' \in [Drafts -> RowState]
    BY <1>0, <1>7 DEF SavePostId, Touch, RowState
  <2> QED  BY <1>0, <1>7, <2>1, FinishTyped DEF SavePostId
<1>8. CASE CrashPublisher(p)
  BY <1>0, <1>8, Records, CallTyped DEF CrashPublisher, draftVars
<1> QED  BY <1>1, <1>2, <1>3, <1>4, <1>5, <1>6, <1>7, <1>8 DEF PublishStep

\* A step of the editor leaves every publisher's call as it is.
LEMMA EditingTyped ==
  ASSUME Typed, rows' \in [Drafts -> RowState], log' \in [Drafts -> LogState],
         edit' \in EditState, EditsAreAboutDrafts', UNCHANGED <<pub, postedNow>>
  PROVE  Typed'
BY DEF Typed, TypeOK, CallsAreAboutDrafts

LEMMA BeginEditTyped ==
  ASSUME Typed, BeginEdit, UNCHANGED <<pub, postedNow>>
  PROVE  Typed'
<1>0. rows \in [Drafts -> RowState] /\ log \in [Drafts -> LogState]
  BY DEF Typed, TypeOK
<1>1. ASSUME NEW pc \in {"insert", "body", "event", "column"}, NEW op \in Operations,
             NEW d \in Drafts, NEW b \in Bodies \cup {NoBody}, Begin(pc, op, d, b),
             pc = "body" => op = "UPDATE_BODY",
             pc = "event" =>
               /\ op # "REVALIDATE"
               /\ op \in Transitions =>
                    ApplyTransition(log[d].status, op) \in DraftStates \ {log[d].status}
               /\ op = "REAPPROVE" => log[d].status = "APPROVED",
             pc = "column" => op = "REVALIDATE"
      PROVE  Typed'
  <2> DEFINE e == [pc |-> pc, op |-> op, draft |-> d, body |-> b]
  <2>1. e \in EditState
    BY DEF EditState
  <2>2. edit' = e /\ UNCHANGED <<rows, log>>
    BY <1>1 DEF Begin
  <2>3. EditsAreAboutDrafts'
    BY <1>1, <2>2 DEF EditsAreAboutDrafts
  <2> HIDE DEF e
  <2> QED  BY <1>0, <2>1, <2>2, <2>3, EditingTyped
<1>2. Transitions \subseteq Operations /\ {"REAPPROVE", "REVALIDATE", "UPDATE_BODY"} \subseteq Operations
  BY DEF Operations
<1>3. ASSUME NEW d \in Drafts, NEW b \in Bodies, BeginGenerate(d, b) \/ BeginUpdateBody(d, b)
      PROVE  Typed'
  BY <1>1, <1>2, <1>3 DEF BeginGenerate, BeginUpdateBody
<1>4. ASSUME NEW d \in Drafts, NEW t \in Transitions, BeginTransition(d, t)
      PROVE  Typed'
  <2>1. log[d].status \in DraftStates /\ rows[d].body \in Bodies \cup {NoBody}
    BY <1>0 DEF LogState, RowState
  <2>2. ApplyTransition(log[d].status, t) \in DraftStates \ {log[d].status}
    BY <1>4, <2>1, Lifecycle DEF BeginTransition
  <2>3. t \notin {"REVALIDATE", "REAPPROVE"}
    BY DEF Transitions
  <2> QED  BY <1>1, <1>2, <1>4, <2>1, <2>2, <2>3 DEF BeginTransition
<1>5. ASSUME NEW d \in Drafts, BeginReapprove(d)
      PROVE  Typed'
  <2>1. rows[d].body \in Bodies \cup {NoBody}
    BY <1>0 DEF RowState
  <2>2. "REAPPROVE" \notin Transitions
    BY DEF Transitions
  <2> QED  BY <1>1, <1>2, <1>5, <2>1, <2>2 DEF BeginReapprove
<1>6. ASSUME NEW d \in Drafts, BeginRevalidate(d)
      PROVE  Typed'
  BY <1>1, <1>2, <1>6 DEF BeginRevalidate
<1> QED  BY <1>3, <1>4, <1>5, <1>6 DEF BeginEdit

\* The fold after an event is a fold still, and its status is the one the event is for.
LEMMA EventStatus ==
  ASSUME Typed, edit.pc = "event"
  PROVE  LET l == AfterEvent(log[edit.draft]) IN
         /\ l \in LogState
         /\ edit.op \in {"APPROVE", "REAPPROVE"} => l.status = "APPROVED"
         /\ edit.op = "REJECT" => l.status = "REJECTED"
         /\ log[edit.draft].status \in {"APPROVED", "REJECTED"} => l.status = log[edit.draft].status
         /\ edit.op = "APPROVE" => ~IsTerminal(log[edit.draft].status)
<1> DEFINE l == AfterEvent(log[edit.draft])
<1> DEFINE s == log[edit.draft].status
<1>1. /\ edit.draft \in Drafts /\ log[edit.draft] \in LogState
      /\ edit.op \in Operations /\ edit.body \in Bodies \cup {NoBody}
      /\ s \in DraftStates
  BY DEF Typed, TypeOK, EditsAreAboutDrafts, EditState, LogState
<1>2. CASE edit.op = "UPDATE_BODY"
  <2>1. l = [log[edit.draft] EXCEPT !.changed = TRUE]
    BY <1>2 DEF AfterEvent
  <2>2. l \in LogState /\ l.status = s
    BY <1>1, <2>1 DEF LogState
  <2> QED  BY <1>2, <2>2
<1>3. CASE edit.op = "REAPPROVE"
  <2>1. l = [log[edit.draft] EXCEPT !.status = "APPROVED", !.approved = edit.body, !.changed = FALSE]
    BY <1>3 DEF AfterEvent
  <2>2. l \in LogState /\ l.status = "APPROVED"
    BY <1>1, <2>1 DEF LogState, DraftStates
  <2>3. s = "APPROVED"
    BY <1>3 DEF Typed, EditsAreAboutDrafts
  <2> QED  BY <1>3, <2>2, <2>3
<1>4. CASE edit.op \in Transitions
  <2>1. ApplyTransition(s, edit.op) \in DraftStates \ {s}
    BY <1>4 DEF Typed, EditsAreAboutDrafts
  <2>2. ApplyTransition(s, edit.op) \notin {Invalid, s}
    BY <2>1 DEF DraftStates, Invalid
  <2>3. /\ ~IsTerminal(s)
        /\ edit.op = "REJECT" => ApplyTransition(s, edit.op) = "REJECTED"
    BY <1>1, <1>4, <2>2, Lifecycle
  <2>4. CASE edit.op = "APPROVE"
    <3>1. l = [log[edit.draft] EXCEPT !.status = "APPROVED", !.approved = edit.body, !.changed = FALSE]
      BY <2>4 DEF AfterEvent
    <3>2. l \in LogState /\ l.status = "APPROVED"
      BY <1>1, <3>1 DEF LogState, DraftStates
    <3> QED  BY <2>3, <2>4, <3>2 DEF IsTerminal
  <2>5. CASE edit.op # "APPROVE"
    <3>1. l = [log[edit.draft] EXCEPT !.status = ApplyTransition(s, edit.op)]
      BY <1>4, <2>5 DEF AfterEvent, Transitions
    <3>2. l \in LogState /\ l.status = ApplyTransition(s, edit.op)
      BY <1>1, <2>1, <3>1 DEF LogState
    <3>3. edit.op # "REAPPROVE"
      BY <1>4 DEF Transitions
    <3> QED  BY <2>3, <2>5, <3>2, <3>3 DEF IsTerminal
  <2> QED  BY <2>4, <2>5
<1>5. edit.pc = "event" => edit.op # "REVALIDATE"
  BY DEF Typed, EditsAreAboutDrafts
<1> QED  BY <1>1, <1>2, <1>3, <1>4, <1>5 DEF Operations

LEMMA EditStepTyped ==
  ASSUME Typed, EditStep, UNCHANGED <<pub, postedNow>>
  PROVE  Typed'
<1>0. /\ rows \in [Drafts -> RowState] /\ log \in [Drafts -> LogState]
      /\ edit \in EditState /\ edit.body \in Bodies \cup {NoBody}
      /\ edit.pc # "idle" => edit.draft \in Drafts
  BY DEF Typed, TypeOK, EditsAreAboutDrafts, EditState
<1>1. ASSUME edit' = NoEdit PROVE EditsAreAboutDrafts' /\ edit' \in EditState
  BY <1>1, Records DEF EditsAreAboutDrafts
<1>2. CASE InsertDraft
  <2>1. rows' \in [Drafts -> RowState]
    BY <1>0, <1>2, ZenonT(40) DEF InsertDraft, Touch, RowState
  <2> QED  BY <1>0, <1>1, <1>2, <2>1, EditingTyped DEF InsertDraft
<1>3. CASE WriteBody
  <2>1. rows' \in [Drafts -> RowState]
    BY <1>0, <1>3 DEF WriteBody, Touch, RowState
  <2>2. edit' \in EditState /\ edit'.pc = "event" /\ edit'.op = edit.op /\ edit'.draft = edit.draft
    BY <1>0, <1>3 DEF WriteBody, EditState
  <2>3. edit.op = "UPDATE_BODY" /\ edit.draft \in Drafts
    BY <1>0, <1>3 DEF WriteBody, Typed, EditsAreAboutDrafts
  <2>4. EditsAreAboutDrafts'
    BY <2>2, <2>3 DEF EditsAreAboutDrafts, Transitions
  <2> QED  BY <1>0, <1>3, <2>1, <2>2, <2>4, EditingTyped DEF WriteBody
<1>4. CASE WriteEvent
  <2> DEFINE l == AfterEvent(log[edit.draft])
  <2>1. /\ edit.draft \in Drafts /\ l \in LogState
        /\ edit.op \in {"APPROVE", "REAPPROVE"} => l.status = "APPROVED"
        /\ edit.op = "REJECT" => l.status = "REJECTED"
    BY <1>0, <1>4, EventStatus DEF WriteEvent
  <2>2. log' = [log EXCEPT ![edit.draft] = l] /\ UNCHANGED rows
    BY <1>4 DEF WriteEvent
  <2> HIDE DEF l
  <2>3. log' \in [Drafts -> LogState] /\ log'[edit.draft] = l
    BY <1>0, <2>1, <2>2
  <2>4. CASE edit.op \in {"APPROVE", "REAPPROVE", "REJECT"}
    <3>1. /\ edit' \in EditState /\ edit'.pc = "column" /\ edit'.op = edit.op
          /\ edit'.draft = edit.draft
      BY <1>0, <1>4, <2>4 DEF WriteEvent, EditState
    <3>2. EditsAreAboutDrafts'
      BY <2>1, <2>3, <2>4, <3>1 DEF EditsAreAboutDrafts
    <3> QED  BY <1>0, <2>2, <2>3, <3>1, <3>2, EditingTyped
  <2>5. CASE edit.op \notin {"APPROVE", "REAPPROVE", "REJECT"}
    <3>1. edit' = NoEdit
      BY <1>4, <2>5 DEF WriteEvent
    <3> QED  BY <1>0, <1>1, <2>2, <2>3, <3>1, EditingTyped
  <2> QED  BY <2>4, <2>5
<1>5. CASE WriteColumn
  <2>1. edit.op \in {"APPROVE", "REJECT", "REAPPROVE", "REVALIDATE"} /\ edit.draft \in Drafts
    BY <1>0, <1>5 DEF WriteColumn, Typed, EditsAreAboutDrafts
  <2>2. rows' \in [Drafts -> RowState]
    <3>1. ASSUME NEW r \in RowState, Touch(edit.draft, r) PROVE rows' \in [Drafts -> RowState]
      BY <1>0, <2>1, <3>1 DEF Touch, RowState
    <3>2. /\ rows[edit.draft] \in RowState
          /\ [rows[edit.draft] EXCEPT !.approvalStatus = "approved"] \in RowState
          /\ [rows[edit.draft] EXCEPT !.approvalStatus = "rejected"] \in RowState
      BY <1>0, <2>1 DEF RowState
    <3>3. \/ Touch(edit.draft, rows[edit.draft])
          \/ Touch(edit.draft, [rows[edit.draft] EXCEPT !.approvalStatus = "approved"])
          \/ Touch(edit.draft, [rows[edit.draft] EXCEPT !.approvalStatus = "rejected"])
      BY <1>5, <2>1 DEF WriteColumn
    <3> QED  BY <3>1, <3>2, <3>3
  <2> QED  BY <1>0, <1>1, <1>5, <2>2, EditingTyped DEF WriteColumn
<1>6. CASE CrashEdit
  BY <1>0, <1>1, <1>6, EditingTyped DEF CrashEdit
<1>7. ASSUME NEW d \in Drafts, MarkReady(d) PROVE Typed'
  <2>1. log' \in [Drafts -> LogState] /\ \A e \in Drafts : log'[e].status = log[e].status
    BY <1>0, <1>7, ZenonT(40) DEF MarkReady, LogState
  <2>2. EditsAreAboutDrafts'
    BY <1>0, <1>7, <2>1 DEF MarkReady, Typed, EditsAreAboutDrafts
  <2> QED  BY <1>0, <1>7, <2>1, <2>2, EditingTyped DEF MarkReady
<1> QED  BY <1>2, <1>3, <1>4, <1>5, <1>6, <1>7 DEF EditStep

LEMMA TypedStep ==
  ASSUME Typed, [Next]_vars
  PROVE  Typed'
<1>1. ASSUME NEW d \in Drafts, PostAges(d) \/ RowAges(d) PROVE Typed'
  <2>1. rows' \in [Drafts -> RowState] /\ postedNow' \subseteq Drafts
    <3>1. CASE PostAges(d)
      BY <3>1 DEF PostAges, draftVars, Typed, TypeOK
    <3>2. CASE RowAges(d)
      BY <3>2 DEF RowAges, Typed, TypeOK, RowState
    <3> QED  BY <1>1, <3>1, <3>2
  <2> QED  BY <1>1, <2>1 DEF PostAges, RowAges, draftVars, Typed, TypeOK, EditsAreAboutDrafts,
                             CallsAreAboutDrafts
<1>2. CASE UNCHANGED vars
  BY <1>2 DEF vars, Typed, TypeOK, EditsAreAboutDrafts, CallsAreAboutDrafts
<1> QED  BY <1>1, <1>2, BeginEditTyped, EditStepTyped, PublisherTyped DEF Next

\* Every row, folded log and call keeps its form; an edit is about a draft, and one that is about
\* to write its event finds the log as it was when the call was let through.
THEOREM TypeCorrect == Spec => []Typed
<1> QED  BY TypedInit, TypedStep, PTL DEF Spec
-----------------------------------------------------------------------------
(* The column and the log.                                                   *)

\* A terminal status is terminal: no event leads out of it.
LEMMA StatusIsFinal ==
  ASSUME Typed, [Next]_vars, NEW d \in Drafts, IsTerminal(log[d].status)
  PROVE  log'[d].status = log[d].status
<1>1. CASE WriteEvent
  <2>1. edit.draft \in Drafts
    BY <1>1 DEF WriteEvent, Typed, EditsAreAboutDrafts
  <2>2. d = edit.draft => AfterEvent(log[edit.draft]).status = log[d].status
    BY <1>1, EventStatus DEF WriteEvent, IsTerminal
  <2> DEFINE l == AfterEvent(log[edit.draft])
  <2>3. log' = [log EXCEPT ![edit.draft] = l]
    BY <1>1 DEF WriteEvent
  <2> HIDE DEF l
  <2>4. log'[d] = IF d = edit.draft THEN l ELSE log[d]
    BY <2>1, <2>3 DEF Typed, TypeOK
  <2> QED  BY <2>2, <2>4 DEF l
<1>2. ASSUME NEW e \in Drafts, MarkReady(e) PROVE log'[d].status = log[d].status
  BY <1>2 DEF MarkReady, Typed, TypeOK, LogState
<1>3. ASSUME ~WriteEvent, \A e \in Drafts : ~MarkReady(e) PROVE log' = log
  <2>1. ASSUME NEW p \in Publishers, PublishStep(p) PROVE log' = log
    BY <2>1 DEF PublishStep, NextDue, LoadDraft, CheckIntegrity, CheckSchedule, CheckUnpublished,
                OtherChecks, CheckLimit, PostSucceeds, PostRefused, PostUnknown, SavePostId,
                SaveThrows, CrashPublisher, draftVars
  <2>2. ASSUME NEW p \in Publishers, BeginJob(p) \/ \E e \in Drafts : BeginPublish(p, e)
        PROVE  log' = log
    BY <2>2 DEF BeginJob, BeginPublish, draftVars
  <2>3. ASSUME BeginEdit PROVE log' = log
    BY <2>3 DEF BeginEdit, BeginGenerate, BeginUpdateBody, BeginTransition, BeginReapprove,
                BeginRevalidate, Begin
  <2>4. ASSUME EditStep PROVE log' = log
    BY <1>3, <2>4 DEF EditStep, InsertDraft, WriteBody, WriteColumn, CrashEdit
  <2>5. ASSUME NEW e \in Drafts, PostAges(e) \/ RowAges(e) PROVE log' = log
    BY <2>5 DEF PostAges, RowAges, draftVars
  <2> QED  BY <2>1, <2>2, <2>3, <2>4, <2>5, SMTT(30) DEF Next, vars
<1> QED  BY <1>1, <1>2, <1>3

\* The last step of an edit: the row of its draft is touched, and the column decided by the log.
LEMMA ColumnWritten ==
  ASSUME Typed, WriteColumn
  PROVE  /\ edit.draft \in Drafts
         /\ \E s \in {rows[edit.draft].approvalStatus, "approved", "rejected"} :
              /\ rows' = [rows EXCEPT ![edit.draft] =
                             [rows[edit.draft] EXCEPT !.approvalStatus = s, !.recent = TRUE]]
              /\ \/ s = rows[edit.draft].approvalStatus
                 \/ s = "approved" /\ edit.op = "APPROVE" /\ log[edit.draft].status = "APPROVED"
                 \/ s = "rejected" /\ log[edit.draft].status = "REJECTED"
<1>1. /\ edit.draft \in Drafts
      /\ edit.op \in {"APPROVE", "REJECT", "REAPPROVE", "REVALIDATE"}
      /\ edit.op = "APPROVE" => log[edit.draft].status = "APPROVED"
      /\ edit.op = "REJECT" => log[edit.draft].status = "REJECTED"
  BY DEF WriteColumn, Typed, EditsAreAboutDrafts
<1>2. rows[edit.draft] \in RowState
  BY <1>1 DEF Typed, TypeOK
<1> DEFINE now == rows[edit.draft].approvalStatus
<1> DEFINE written(s) == [rows[edit.draft] EXCEPT !.approvalStatus = s, !.recent = TRUE]
<1> DEFINE allowed(s) ==
         \/ s = now
         \/ s = "approved" /\ edit.op = "APPROVE" /\ log[edit.draft].status = "APPROVED"
         \/ s = "rejected" /\ log[edit.draft].status = "REJECTED"
<1>3. ASSUME edit.op = "APPROVE"
      PROVE  rows' = [rows EXCEPT ![edit.draft] = written("approved")] /\ allowed("approved")
  <2>1. Touch(edit.draft, [rows[edit.draft] EXCEPT !.approvalStatus = "approved"])
    BY <1>3 DEF WriteColumn
  <2> QED  BY <1>1, <1>3, <2>1 DEF Touch
<1>4. ASSUME edit.op = "REJECT"
      PROVE  rows' = [rows EXCEPT ![edit.draft] = written("rejected")] /\ allowed("rejected")
  <2>1. Touch(edit.draft, [rows[edit.draft] EXCEPT !.approvalStatus = "rejected"])
    BY <1>4 DEF WriteColumn
  <2> QED  BY <1>1, <1>4, <2>1 DEF Touch
<1>5. ASSUME edit.op \in {"REAPPROVE", "REVALIDATE"}
      PROVE  rows' = [rows EXCEPT ![edit.draft] = written(now)] /\ allowed(now)
  <2>1. Touch(edit.draft, rows[edit.draft])
    BY <1>5 DEF WriteColumn
  <2>2. [rows[edit.draft] EXCEPT !.recent = TRUE] = written(now)
    BY <1>2 DEF RowState
  <2>3. rows' = [rows EXCEPT ![edit.draft] = [rows[edit.draft] EXCEPT !.recent = TRUE]]
    BY <2>1 DEF Touch
  <2>4. allowed(now)
    OBVIOUS
  <2> HIDE DEF written, now, allowed
  <2> QED  BY <2>2, <2>3, <2>4
<1> HIDE DEF now, written, allowed
<1>6. \E s \in {now, "approved", "rejected"} :
        rows' = [rows EXCEPT ![edit.draft] = written(s)] /\ allowed(s)
  BY <1>1, <1>3, <1>4, <1>5
<1> QED  BY <1>1, <1>6 DEF now, written, allowed

\* Any other step leaves every row's column alone.
LEMMA ColumnUntouched ==
  ASSUME Typed, [Next]_vars, ~WriteColumn, NEW d \in Drafts
  PROVE  rows'[d].approvalStatus = rows[d].approvalStatus
<1>0. rows \in [Drafts -> RowState]
  BY DEF Typed, TypeOK
<1>1. ASSUME NEW p \in Publishers, PublishStep(p), ~SavePostId(p) PROVE rows' = rows
  BY <1>1 DEF PublishStep, NextDue, LoadDraft, CheckIntegrity, CheckSchedule, CheckUnpublished,
              OtherChecks, CheckLimit, PostSucceeds, PostRefused, PostUnknown,
              SaveThrows, CrashPublisher, draftVars
<1>2. ASSUME NEW p \in Publishers, SavePostId(p)
      PROVE  rows'[d].approvalStatus = rows[d].approvalStatus
  BY <1>0, <1>2 DEF SavePostId, Touch, RowState
<1>3. ASSUME NEW p \in Publishers, BeginJob(p) \/ \E e \in Drafts : BeginPublish(p, e)
      PROVE  rows' = rows
  BY <1>3 DEF BeginJob, BeginPublish, draftVars
<1>4. ASSUME BeginEdit PROVE rows' = rows
  BY <1>4 DEF BeginEdit, BeginGenerate, BeginUpdateBody, BeginTransition, BeginReapprove,
              BeginRevalidate, Begin
<1>5. ASSUME EditStep PROVE rows'[d].approvalStatus = rows[d].approvalStatus
  <2>1. CASE InsertDraft
    BY <1>0, <2>1 DEF InsertDraft, Touch, RowState
  <2>2. CASE WriteBody
    BY <1>0, <2>2 DEF WriteBody, Touch, RowState
  <2> QED  BY <1>5, <2>1, <2>2 DEF EditStep, WriteEvent, CrashEdit, MarkReady
<1>6. ASSUME NEW e \in Drafts, PostAges(e) \/ RowAges(e)
      PROVE  rows'[d].approvalStatus = rows[d].approvalStatus
  <2>1. CASE PostAges(e)
    BY <2>1 DEF PostAges, draftVars
  <2>2. CASE RowAges(e)
    BY <1>0, <2>2 DEF RowAges, RowState
  <2> QED  BY <1>6, <2>1, <2>2
<1> QED  BY <1>1, <1>2, <1>3, <1>4, <1>5, <1>6 DEF Next, vars

LEMMA ColumnStep ==
  ASSUME Typed, ColumnNeverAheadOfLog, [Next]_vars
  PROVE  ColumnNeverAheadOfLog'
<1>1. SUFFICES ASSUME NEW d \in Drafts
               PROVE  /\ rows'[d].approvalStatus = "approved" => log'[d].status = "APPROVED"
                      /\ rows'[d].approvalStatus = "rejected" => log'[d].status = "REJECTED"
  BY DEF ColumnNeverAheadOfLog
<1>2. /\ log[d].status = "APPROVED" => log'[d].status = "APPROVED"
      /\ log[d].status = "REJECTED" => log'[d].status = "REJECTED"
  BY StatusIsFinal DEF IsTerminal
<1>3. CASE WriteColumn
  <2>1. rows \in [Drafts -> RowState]
    BY DEF Typed, TypeOK
  <2> QED  BY <1>2, <1>3, <2>1, ColumnWritten DEF ColumnNeverAheadOfLog, RowState
<1>4. CASE ~WriteColumn
  BY <1>2, <1>4, ColumnUntouched DEF ColumnNeverAheadOfLog
<1> QED  BY <1>3, <1>4

\* ContentDraftService writes the audit event first and the approval_status column after it: in
\* every reachable state, crashes and overlapping calls included, a draft the column shows as
\* approved or rejected is so by its log.
THEOREM TheColumnLagsBehindTheLog == Spec => []ColumnNeverAheadOfLog
<1>1. Init => ColumnNeverAheadOfLog
  BY DEF Init, DraftsInit, ColumnNeverAheadOfLog
<1> QED  BY <1>1, TypedInit, TypedStep, ColumnStep, PTL DEF Spec
-----------------------------------------------------------------------------
(* What holds when calls do not overlap: the invariant.                      *)

\* One call at a time: the editor's, or one publisher's.
OneCallAtATime ==
  /\ edit.pc # "idle" => \A p \in Publishers : pub[p].pc = "idle"
  /\ \A p, q \in Publishers : pub[p].pc # "idle" /\ pub[q].pc # "idle" => p = q

Loaded == {"integrity", "schedule", "row", "checks", "limit", "post", "save"}

\* What a call of publishDraft has checked so far is still so.
StillSo(c) ==
  /\ c.pc \in Loaded => log[c.draft].status = "APPROVED" /\ c.text = rows[c.draft].body
  /\ c.pc \in Loaded \ {"integrity"} => ApprovalCovers(c.draft)
  /\ c.pc \in {"checks", "limit", "post", "save"} => ~rows[c.draft].published
  /\ c.pc \in {"post", "save"} => Cardinality(CountedPosts) < DailyLimit

\* A draft with a post id was approved, and was touched no earlier than it was posted.
PublishedDrafts ==
  \A d \in Drafts : rows[d].published =>
    /\ log[d].status = "APPROVED"
    /\ d \in postedNow => rows[d].recent

\* A draft that is being approved for the first time has no post id, so the column it is about
\* to get adds nothing to what counts against the limit.
FirstApproval ==
  edit.op = "APPROVE" /\ edit.pc \in {"event", "column"} => ~rows[edit.draft].published

RecordedPosts == {d \in postedNow : rows[d].approvalStatus = "approved" /\ rows[d].published}

Serial ==
  /\ OneCallAtATime
  /\ \A p \in Publishers : StillSo(pub[p])
  /\ PublishedDrafts
  /\ FirstApproval
  /\ Cardinality(RecordedPosts) <= DailyLimit

LEMMA SerialInit == Init => Serial
<1> SUFFICES ASSUME Init PROVE Serial  OBVIOUS
<1>1. OneCallAtATime /\ FirstApproval
  BY Records DEF Init, DraftsInit, OneCallAtATime, FirstApproval
<1>2. \A p \in Publishers : StillSo(pub[p])
  BY Records DEF Init, StillSo, Loaded
<1>3. PublishedDrafts
  BY DEF Init, DraftsInit, PublishedDrafts
<1>4. Cardinality(RecordedPosts) <= DailyLimit
  <2>1. RecordedPosts = {}
    BY DEF Init, RecordedPosts
  <2> QED  BY <2>1, FS_EmptySet, LimitsAssumption
<1> QED  BY <1>1, <1>2, <1>3, <1>4 DEF Serial

\* The sets that are counted are finite, and losing members never makes them larger.
LEMMA Counting ==
  ASSUME NEW A, NEW B, A \subseteq B, B \subseteq Drafts
  PROVE  /\ IsFiniteSet(A) /\ IsFiniteSet(B)
         /\ Cardinality(A) \in Nat /\ Cardinality(B) \in Nat
         /\ Cardinality(A) <= Cardinality(B)
BY FiniteDraftsAssumption, FS_Subset, FS_CardinalityType

\* A step of the editor: publishers are idle, no draft gets a post id, and no row that has one
\* is newly counted.
LEMMA EditingSerial ==
  ASSUME Typed, Typed', Serial, UNCHANGED <<pub, postedNow>>,
         \A p \in Publishers : pub[p].pc = "idle",
         \A d \in Drafts :
           /\ rows'[d].published = rows[d].published
           /\ rows[d].recent => rows'[d].recent
           /\ log[d].status = "APPROVED" => log'[d].status = "APPROVED"
           /\ rows'[d].published /\ rows'[d].approvalStatus = "approved" =>
                rows[d].approvalStatus = "approved",
         FirstApproval'
  PROVE  Serial'
<1>1. OneCallAtATime'
  BY DEF OneCallAtATime
<1>2. \A p \in Publishers : StillSo(pub[p])'
  BY DEF StillSo, Loaded
<1>3. PublishedDrafts'
  BY DEF Serial, PublishedDrafts, Typed, TypeOK
<1>4. (Cardinality(RecordedPosts) <= DailyLimit)'
  <2>1. RecordedPosts' \subseteq RecordedPosts /\ RecordedPosts \subseteq Drafts
    BY DEF RecordedPosts, Typed, TypeOK
  <2> QED  BY <2>1, Counting, LimitsAssumption DEF Serial
<1> QED  BY <1>1, <1>2, <1>3, <1>4 DEF Serial

LEMMA BeginEditSerial ==
  ASSUME Typed, Typed', Serial, ~Overlap, MayBegin, BeginEdit, UNCHANGED <<pub, postedNow>>
  PROVE  Serial'
<1>1. UNCHANGED <<rows, log>>
  BY DEF BeginEdit, BeginGenerate, BeginUpdateBody, BeginTransition, BeginReapprove,
         BeginRevalidate, Begin
<1>2. FirstApproval'
  <2>1. ASSUME NEW d \in Drafts, NEW t \in Transitions, BeginTransition(d, t)
        PROVE  FirstApproval'
    <3>1. log[d].status \in DraftStates
      BY DEF Typed, TypeOK, LogState
    <3>2. ~rows[d].published
      BY <2>1, <3>1, Lifecycle DEF BeginTransition, Serial, PublishedDrafts, IsTerminal
    <3>3. edit'.draft = d
      BY <2>1 DEF BeginTransition, Begin
    <3> QED  BY <1>1, <3>2, <3>3 DEF FirstApproval
  <2>2. ASSUME NEW d \in Drafts,
               \/ \E b \in Bodies : BeginGenerate(d, b) \/ BeginUpdateBody(d, b)
               \/ BeginReapprove(d) \/ BeginRevalidate(d)
        PROVE  edit'.op # "APPROVE"
    BY <2>2 DEF BeginGenerate, BeginUpdateBody, BeginReapprove, BeginRevalidate, Begin
  <2> QED  BY <2>1, <2>2 DEF BeginEdit, FirstApproval
<1>3. \A p \in Publishers : pub[p].pc = "idle"
  BY DEF MayBegin
<1> QED  BY <1>1, <1>2, <1>3, EditingSerial

LEMMA EditStepSerial ==
  ASSUME Typed, Typed', Serial, EditStep, UNCHANGED <<pub, postedNow>>
  PROVE  Serial'
<1>0. rows \in [Drafts -> RowState] /\ log \in [Drafts -> LogState]
  BY DEF Typed, TypeOK
<1>1. \A d \in Drafts : log[d].status = "APPROVED" => log'[d].status = "APPROVED"
  BY StatusIsFinal DEF Next, IsTerminal
<1>2. ASSUME edit.pc # "idle" PROVE \A p \in Publishers : pub[p].pc = "idle"
  BY <1>2 DEF Serial, OneCallAtATime
<1>3. ASSUME edit' = NoEdit PROVE FirstApproval'
  BY <1>3, Records DEF FirstApproval
<1>4. CASE InsertDraft
  <2>1. \A d \in Drafts : /\ rows'[d].published = rows[d].published
                          /\ rows[d].recent => rows'[d].recent
                          /\ rows'[d].approvalStatus = rows[d].approvalStatus
    BY <1>0, <1>4 DEF InsertDraft, Touch, RowState
  <2> QED  BY <1>1, <1>2, <1>3, <1>4, <2>1, EditingSerial DEF InsertDraft
<1>5. CASE WriteBody
  <2>1. \A d \in Drafts : /\ rows'[d].published = rows[d].published
                          /\ rows[d].recent => rows'[d].recent
                          /\ rows'[d].approvalStatus = rows[d].approvalStatus
    BY <1>0, <1>5 DEF WriteBody, Touch, RowState
  <2>2. edit'.op = "UPDATE_BODY"
    BY <1>5 DEF WriteBody, Typed, TypeOK, EditsAreAboutDrafts, EditState
  <2>3. FirstApproval'
    BY <2>2 DEF FirstApproval
  <2> QED  BY <1>1, <1>2, <1>5, <2>1, <2>3, EditingSerial DEF WriteBody
<1>6. CASE WriteEvent
  <2>1. edit' = NoEdit \/ (edit'.op = edit.op /\ edit'.draft = edit.draft)
    BY <1>6 DEF WriteEvent, Typed, TypeOK, EditState
  <2>2. FirstApproval'
    BY <1>3, <1>6, <2>1 DEF WriteEvent, Serial, FirstApproval
  <2> QED  BY <1>1, <1>2, <1>6, <2>2, EditingSerial DEF WriteEvent
<1>7. CASE WriteColumn
  <2>1. PICK s \in {rows[edit.draft].approvalStatus, "approved", "rejected"} :
          /\ rows' = [rows EXCEPT ![edit.draft] =
                         [rows[edit.draft] EXCEPT !.approvalStatus = s, !.recent = TRUE]]
          /\ s = "approved" => s = rows[edit.draft].approvalStatus \/ edit.op = "APPROVE"
    BY <1>7, ColumnWritten
  <2>2. edit.op = "APPROVE" => ~rows[edit.draft].published
    BY <1>7 DEF WriteColumn, Serial, FirstApproval
  <2>3. edit.draft \in Drafts
    BY <1>7, ColumnWritten
  <2>4. \A d \in Drafts : /\ rows'[d].published = rows[d].published
                          /\ rows[d].recent => rows'[d].recent
                          /\ rows'[d].published /\ rows'[d].approvalStatus = "approved" =>
                               rows[d].approvalStatus = "approved"
    BY <1>0, <2>1, <2>2, <2>3 DEF RowState
  <2> QED  BY <1>1, <1>2, <1>3, <1>7, <2>4, EditingSerial DEF WriteColumn
<1>8. CASE CrashEdit
  BY <1>1, <1>2, <1>3, <1>8, EditingSerial DEF CrashEdit
<1>9. ASSUME NEW e \in Drafts, MarkReady(e) PROVE Serial'
  <2>1. \A d \in Drafts : /\ log'[d].status = log[d].status
                          /\ log'[d].approved = log[d].approved
                          /\ log'[d].changed = log[d].changed
    BY <1>0, <1>9 DEF MarkReady, LogState
  <2>2. UNCHANGED <<rows, edit, pub, postedNow>>
    BY <1>9 DEF MarkReady
  <2>3. \A p \in Publishers : StillSo(pub[p])'
    <3> TAKE p \in Publishers
    <3>1. StillSo(pub[p])
      BY DEF Serial
    <3>2. pub[p].pc \in Loaded => pub[p].draft \in Drafts
      BY DEF Typed, CallsAreAboutDrafts, Loaded
    <3>3. CountedPosts' = CountedPosts
      BY <2>2 DEF CountedPosts
    <3> QED  BY <2>1, <2>2, <3>1, <3>2, <3>3 DEF StillSo, Loaded, ApprovalCovers
  <2>4. OneCallAtATime' /\ FirstApproval'
    BY <2>2 DEF Serial, OneCallAtATime, FirstApproval
  <2>5. PublishedDrafts'
    BY <2>1, <2>2 DEF Serial, PublishedDrafts
  <2>6. RecordedPosts' = RecordedPosts
    BY <2>2 DEF RecordedPosts
  <2> QED  BY <2>3, <2>4, <2>5, <2>6 DEF Serial
<1> QED  BY <1>4, <1>5, <1>6, <1>7, <1>8, <1>9 DEF EditStep

\* A publisher's step that leaves the drafts alone and posts nothing a post id is recorded for.
LEMMA CallSerial ==
  ASSUME Typed, Serial, NEW p \in Publishers, NEW c \in PubState, pub' = [pub EXCEPT ![p] = c],
         edit.pc = "idle", \A q \in Publishers : pub[q].pc # "idle" => q = p,
         StillSo(c), UNCHANGED draftVars,
         \A d \in Drafts : d \in postedNow' /\ rows[d].published => d \in postedNow,
         postedNow' \subseteq Drafts
  PROVE  Serial'
<1>1. OneCallAtATime'
  BY DEF OneCallAtATime, draftVars, Typed, TypeOK
<1>2. \A q \in Publishers : StillSo(pub[q])'
  <2> TAKE q \in Publishers
  <2>1. StillSo(pub'[q])
    BY DEF Serial, Typed, TypeOK
  <2>2. CountedPosts' = CountedPosts
    BY DEF CountedPosts, draftVars
  <2> QED  BY <2>1, <2>2 DEF StillSo, ApprovalCovers, draftVars
<1>3. PublishedDrafts'
  BY DEF Serial, PublishedDrafts, draftVars
<1>4. FirstApproval'
  BY DEF Serial, FirstApproval, draftVars
<1>5. (Cardinality(RecordedPosts) <= DailyLimit)'
  <2>1. RecordedPosts' \subseteq RecordedPosts /\ RecordedPosts \subseteq Drafts
    BY DEF RecordedPosts, draftVars, Typed, TypeOK
  <2> QED  BY <2>1, Counting, LimitsAssumption DEF Serial
<1> QED  BY <1>1, <1>2, <1>3, <1>4, <1>5 DEF Serial

\* Calls that have not loaded a draft have nothing to keep true.
LEMMA NothingCheckedYet ==
  ASSUME NEW c, c.pc \in {"idle", "next", "load"}
  PROVE  StillSo(c)
BY DEF StillSo, Loaded

LEMMA SavePostIdSerial ==
  ASSUME Typed, Typed', Serial, NEW p \in Publishers, SavePostId(p),
         edit.pc = "idle", \A q \in Publishers : pub[q].pc # "idle" => q = p
  PROVE  Serial'
<1> DEFINE d == pub[p].draft
<1>0. /\ rows \in [Drafts -> RowState] /\ log \in [Drafts -> LogState] /\ d \in Drafts
      /\ pub \in [Publishers -> PubState] /\ postedNow \subseteq Drafts
      /\ UNCHANGED <<log, edit, postedNow>>
  BY DEF Typed, TypeOK, CallsAreAboutDrafts, SavePostId
<1>1. /\ rows' = [rows EXCEPT ![d] = [rows[d] EXCEPT !.published = TRUE, !.recent = TRUE]]
      /\ log[d].status = "APPROVED" /\ Cardinality(CountedPosts) < DailyLimit
  BY DEF SavePostId, Touch, Serial, StillSo, Loaded
<1>2. pub'[p].pc = "next" /\ \A q \in Publishers \ {p} : pub'[q].pc = "idle"
  BY <1>0 DEF SavePostId, Finish, NoPub
<1>3. /\ rows'[d].published /\ rows'[d].recent
      /\ \A e \in Drafts \ {d} : rows'[e] = rows[e]
  BY <1>0, <1>1 DEF RowState
<1>4. OneCallAtATime'
  BY <1>0, <1>2 DEF OneCallAtATime
<1>5. \A q \in Publishers : StillSo(pub[q])'
  BY <1>2 DEF StillSo, Loaded
<1>6. PublishedDrafts'
  BY <1>0, <1>1, <1>3 DEF Serial, PublishedDrafts
<1>7. FirstApproval'
  BY <1>0 DEF FirstApproval
<1>8. (Cardinality(RecordedPosts) <= DailyLimit)'
  <2>1. RecordedPosts' \subseteq CountedPosts \cup {d}
    BY <1>0, <1>3 DEF RecordedPosts, CountedPosts, Serial, PublishedDrafts
  <2>2. CountedPosts \subseteq Drafts /\ CountedPosts \cup {d} \subseteq Drafts
    BY <1>0 DEF CountedPosts
  <2>3. Cardinality(CountedPosts \cup {d}) <= Cardinality(CountedPosts) + 1
    BY <2>2, Counting, FS_AddElement
  <2>4. /\ Cardinality(RecordedPosts') <= Cardinality(CountedPosts \cup {d})
        /\ Cardinality(RecordedPosts') \in Nat /\ Cardinality(CountedPosts \cup {d}) \in Nat
        /\ Cardinality(CountedPosts) \in Nat
    BY <2>1, <2>2, Counting
  <2> QED  BY <1>1, <2>3, <2>4, LimitsAssumption
<1> QED  BY <1>4, <1>5, <1>6, <1>7, <1>8 DEF Serial

LEMMA PublisherSerial ==
  ASSUME Typed, Typed', Serial, NEW p \in Publishers, PublishStep(p)
  PROVE  Serial'
<1>0. /\ rows \in [Drafts -> RowState] /\ pub \in [Publishers -> PubState] /\ pub[p] \in PubState
      /\ postedNow \subseteq Drafts /\ postedNow' \subseteq Drafts /\ pub'[p] \in PubState
      /\ pub[p].pc \notin {"idle", "next"} => pub[p].draft \in Drafts
  BY SMTT(30) DEF Typed, TypeOK, CallsAreAboutDrafts
<1>1. pub[p].pc # "idle"
  BY DEF PublishStep, NextDue, LoadDraft, CheckIntegrity, CheckSchedule, CheckUnpublished,
         OtherChecks, CheckLimit, PostSucceeds, PostRefused, PostUnknown, SavePostId,
         SaveThrows, CrashPublisher
<1>2. edit.pc = "idle" /\ \A q \in Publishers : pub[q].pc # "idle" => q = p
  BY <1>1 DEF Serial, OneCallAtATime
<1>3. StillSo(pub[p])
  BY DEF Serial
<1>4. ASSUME NEW c \in PubState, pub' = [pub EXCEPT ![p] = c], StillSo(c), UNCHANGED draftVars,
             \A d \in Drafts : d \in postedNow' /\ rows[d].published => d \in postedNow
      PROVE  Serial'
  BY <1>0, <1>2, <1>4, CallSerial
<1>5. ASSUME Finish(p), UNCHANGED draftVars,
             \A d \in Drafts : d \in postedNow' /\ rows[d].published => d \in postedNow
      PROVE  Serial'
  <2> DEFINE c == [NoPub EXCEPT !.pc = "next", !.queue = pub[p].queue]
  <2>1. c \in PubState /\ c.pc = "next" /\ pub' = [pub EXCEPT ![p] = c]
    BY <1>0, <1>5 DEF PubState, NoPub, Finish
  <2> HIDE DEF c
  <2>2. StillSo(c)
    BY <2>1, NothingCheckedYet
  <2> QED  BY <1>4, <1>5, <2>1, <2>2
<1>6. ASSUME NEW pc \in {"schedule", "row", "checks", "limit", "post", "save"}, Goto(p, pc),
             pub[p].pc \in Loaded, UNCHANGED draftVars,
             ApprovalCovers(pub[p].draft),
             pc \in {"checks", "limit", "post", "save"} => ~rows[pub[p].draft].published,
             pc \in {"post", "save"} => Cardinality(CountedPosts) < DailyLimit,
             \A d \in Drafts : d \in postedNow' /\ rows[d].published => d \in postedNow
      PROVE  Serial'
  <2> DEFINE c == [pub[p] EXCEPT !.pc = pc]
  <2>1. c \in PubState /\ c.pc = pc /\ c.draft = pub[p].draft /\ c.text = pub[p].text
    BY <1>0 DEF PubState
  <2>2. pub' = [pub EXCEPT ![p] = c]
    BY <1>6 DEF Goto
  <2> HIDE DEF c
  <2>3. log[c.draft].status = "APPROVED" /\ c.text = rows[c.draft].body
    BY <1>3, <1>6, <2>1 DEF StillSo
  <2>4. StillSo(c)
    BY <1>6, <2>1, <2>3 DEF StillSo
  <2> QED  BY <1>4, <1>6, <2>1, <2>2, <2>4
<1>7. CASE NextDue(p)
  <2>1. UNCHANGED draftVars /\ UNCHANGED postedNow
    BY <1>7 DEF NextDue
  <2>2. CASE pub' = [pub EXCEPT ![p] = NoPub]
    <3>1. NoPub \in PubState /\ StillSo(NoPub)
      BY Records, NothingCheckedYet
    <3> QED  BY <1>4, <2>1, <2>2, <3>1
  <2>3. ASSUME NEW d \in pub[p].queue,
               pub' = [pub EXCEPT ![p] = [NoPub EXCEPT !.pc = "load", !.draft = d,
                                                       !.queue = pub[p].queue \ {d}]]
        PROVE  Serial'
    <3> DEFINE c == [NoPub EXCEPT !.pc = "load", !.draft = d, !.queue = pub[p].queue \ {d}]
    <3>1. c \in PubState /\ c.pc = "load" /\ pub' = [pub EXCEPT ![p] = c]
      BY <1>0, <2>3 DEF PubState, NoPub
    <3> HIDE DEF c
    <3>2. StillSo(c)
      BY <3>1, NothingCheckedYet
    <3> QED  BY <1>4, <2>1, <3>1, <3>2
  <2> QED  BY <1>7, <2>2, <2>3 DEF NextDue
<1>8. CASE LoadDraft(p)
  <2>1. UNCHANGED draftVars /\ UNCHANGED postedNow /\ pub[p].draft \in Drafts
    BY <1>0, <1>8 DEF LoadDraft
  <2>2. CASE log[pub[p].draft].status = "APPROVED"
    <3> DEFINE c == [pub[p] EXCEPT !.pc = "integrity", !.text = rows[pub[p].draft].body]
    <3>1. /\ c \in PubState /\ c.pc = "integrity" /\ c.draft = pub[p].draft
          /\ c.text = rows[pub[p].draft].body
      BY <1>0, <2>1 DEF PubState, RowState
    <3>2. pub' = [pub EXCEPT ![p] = c]
      BY <1>0, <1>8, <2>2 DEF LoadDraft, PubState
    <3> HIDE DEF c
    <3>3. StillSo(c)
      BY <2>2, <3>1 DEF StillSo, Loaded
    <3> QED  BY <1>4, <2>1, <3>1, <3>2, <3>3
  <2>3. CASE log[pub[p].draft].status # "APPROVED"
    BY <1>5, <1>8, <2>1, <2>3 DEF LoadDraft
  <2> QED  BY <2>2, <2>3
<1>9. CASE CheckIntegrity(p) \/ CheckSchedule(p) \/ CheckUnpublished(p) \/ OtherChecks(p) \/ CheckLimit(p)
  <2>1. UNCHANGED draftVars /\ UNCHANGED postedNow /\ pub[p].pc \in Loaded
    BY <1>9 DEF CheckIntegrity, CheckSchedule, CheckUnpublished, OtherChecks, CheckLimit, Loaded
  <2>2. CASE Finish(p)
    BY <1>5, <2>1, <2>2
  <2>3. CASE CheckIntegrity(p) /\ ~Finish(p)
    BY <1>6, <2>1, <2>3 DEF CheckIntegrity
  <2>4. CASE CheckSchedule(p) /\ ~Finish(p)
    BY <1>3, <1>6, <2>1, <2>4 DEF CheckSchedule, StillSo, Loaded
  <2>5. CASE CheckUnpublished(p) /\ ~Finish(p)
    BY <1>3, <1>6, <2>1, <2>5 DEF CheckUnpublished, StillSo, Loaded
  <2>6. CASE OtherChecks(p) /\ ~Finish(p)
    BY <1>3, <1>6, <2>1, <2>6 DEF OtherChecks, StillSo, Loaded
  <2>7. CASE CheckLimit(p) /\ ~Finish(p)
    <3>1. CountedPosts \subseteq Drafts
      BY DEF CountedPosts
    <3>2. Cardinality(CountedPosts) < DailyLimit
      BY <2>7, <3>1, Counting, LimitsAssumption DEF CheckLimit
    <3> QED  BY <1>3, <1>6, <2>1, <2>7, <3>2 DEF CheckLimit, StillSo, Loaded
  <2> QED  BY <1>9, <2>2, <2>3, <2>4, <2>5, <2>6, <2>7
<1>10. CASE PostSucceeds(p) \/ PostRefused(p) \/ PostUnknown(p)
  <2>1. UNCHANGED draftVars /\ pub[p].pc = "post" /\ (Posted(p) \/ UNCHANGED postedNow)
    BY <1>10 DEF PostSucceeds, PostRefused, PostUnknown
  <2>2. /\ ~rows[pub[p].draft].published /\ ApprovalCovers(pub[p].draft)
        /\ Cardinality(CountedPosts) < DailyLimit
    BY <1>3, <2>1 DEF StillSo, Loaded
  <2>3. \A d \in Drafts : d \in postedNow' /\ rows[d].published => d \in postedNow
    BY <2>1, <2>2 DEF Posted
  <2> QED  BY <1>5, <1>6, <1>10, <2>1, <2>2, <2>3
           DEF PostSucceeds, PostRefused, PostUnknown, Loaded
<1>11. CASE SavePostId(p)
  BY <1>2, <1>11, SavePostIdSerial
<1>12. CASE SaveThrows(p)
  BY <1>5, <1>12 DEF SaveThrows
<1>13. CASE CrashPublisher(p)
  <2>1. NoPub \in PubState /\ StillSo(NoPub)
    BY Records, NothingCheckedYet
  <2> QED  BY <1>4, <1>13, <2>1 DEF CrashPublisher
<1> QED  BY <1>7, <1>8, <1>9, <1>10, <1>11, <1>12, <1>13 DEF PublishStep

LEMMA BeginPublishSerial ==
  ASSUME Typed, Serial, ~Overlap, NEW p \in Publishers,
         BeginJob(p) \/ \E d \in Drafts : BeginPublish(p, d)
  PROVE  Serial'
<1>1. /\ edit.pc = "idle" /\ \A q \in Publishers : pub[q].pc = "idle"
      /\ UNCHANGED draftVars /\ UNCHANGED postedNow /\ postedNow \subseteq Drafts
  BY DEF BeginJob, BeginPublish, MayBegin, Typed, TypeOK
<1>2. ASSUME NEW c \in PubState, pub' = [pub EXCEPT ![p] = c], c.pc \in {"next", "load"}
      PROVE  Serial'
  <2>1. StillSo(c)
    BY <1>2, NothingCheckedYet
  <2> QED  BY <1>1, <1>2, <2>1, CallSerial
<1>3. CASE BeginJob(p)
  <2>1. PICK due \in SUBSET Publishable \ {{}} :
          pub' = [pub EXCEPT ![p] = [NoPub EXCEPT !.pc = "next", !.queue = due]]
    BY <1>3 DEF BeginJob
  <2> DEFINE c == [NoPub EXCEPT !.pc = "next", !.queue = due]
  <2>2. c \in PubState /\ c.pc = "next" /\ pub' = [pub EXCEPT ![p] = c]
    BY <2>1 DEF PubState, NoPub, Publishable
  <2> HIDE DEF c
  <2> QED  BY <1>2, <2>2
<1>4. ASSUME NEW d \in Drafts, BeginPublish(p, d) PROVE Serial'
  <2> DEFINE c == [NoPub EXCEPT !.pc = "load", !.draft = d]
  <2>1. c \in PubState /\ c.pc = "load" /\ pub' = [pub EXCEPT ![p] = c]
    BY <1>4 DEF PubState, NoPub, BeginPublish
  <2> HIDE DEF c
  <2> QED  BY <1>2, <2>1
<1> QED  BY <1>3, <1>4

LEMMA AgesSerial ==
  ASSUME Typed, Serial, NEW d \in Drafts, PostAges(d) \/ RowAges(d)
  PROVE  Serial'
<1>0. rows \in [Drafts -> RowState] /\ postedNow \subseteq Drafts
  BY DEF Typed, TypeOK
<1>1. UNCHANGED <<log, edit, pub>> /\ postedNow' \subseteq postedNow
  BY DEF PostAges, RowAges, draftVars
<1>2. \A e \in Drafts : /\ rows'[e].published = rows[e].published
                        /\ rows'[e].body = rows[e].body
                        /\ rows'[e].approvalStatus = rows[e].approvalStatus
                        /\ rows'[e].recent => rows[e].recent
                        /\ e \in postedNow /\ rows[e].recent => rows'[e].recent
  <2>1. CASE PostAges(d)
    BY <2>1 DEF PostAges, draftVars
  <2>2. CASE RowAges(d)
    BY <1>0, <2>2 DEF RowAges, RowState
  <2> QED  BY <2>1, <2>2
<1>3. OneCallAtATime'
  BY <1>1 DEF Serial, OneCallAtATime
<1>4. \A p \in Publishers : StillSo(pub[p])'
  <2> TAKE p \in Publishers
  <2>1. CountedPosts' \subseteq CountedPosts /\ CountedPosts \subseteq Drafts
    BY <1>2 DEF CountedPosts
  <2>2. Cardinality(CountedPosts) < DailyLimit => Cardinality(CountedPosts') < DailyLimit
    BY <2>1, Counting, LimitsAssumption
  <2>3. pub[p].pc \in Loaded => pub[p].draft \in Drafts
    BY DEF Typed, CallsAreAboutDrafts, Loaded
  <2> QED  BY <1>1, <1>2, <2>2, <2>3 DEF Serial, StillSo, Loaded, ApprovalCovers
<1>5. PublishedDrafts'
  BY <1>0, <1>1, <1>2 DEF Serial, PublishedDrafts
<1>6. FirstApproval'
  BY <1>1, <1>2 DEF Serial, FirstApproval, Typed, EditsAreAboutDrafts
<1>7. (Cardinality(RecordedPosts) <= DailyLimit)'
  <2>1. RecordedPosts' \subseteq RecordedPosts /\ RecordedPosts \subseteq Drafts
    BY <1>0, <1>1, <1>2 DEF RecordedPosts
  <2> QED  BY <2>1, Counting, LimitsAssumption DEF Serial
<1> QED  BY <1>3, <1>4, <1>5, <1>6, <1>7 DEF Serial

LEMMA SerialStep ==
  ASSUME ~Overlap, Typed, Typed', Serial, [Next]_vars
  PROVE  Serial'
<1>1. CASE UNCHANGED vars
  BY <1>1 DEF vars, Serial, OneCallAtATime, StillSo, ApprovalCovers, PublishedDrafts, FirstApproval,
              RecordedPosts, CountedPosts
<1> QED  BY <1>1, BeginEditSerial, EditStepSerial, PublisherSerial, BeginPublishSerial, AgesSerial
         DEF Next

LEMMA SerialAlways == ASSUME ~Overlap PROVE Spec => []Serial
BY TypedInit, TypedStep, SerialInit, SerialStep, PTL DEF Spec
-----------------------------------------------------------------------------
\* When calls do not overlap, publishDraft posts the text its draft's last approval was given
\* for: the integrity it re-derived in step 3 still holds at the post.
THEOREM TheApprovalCoversThePost == ASSUME ~Overlap PROVE Spec => []ApprovalCoversThePost
<1>1. Typed /\ Serial => ApprovalCoversThePost
  BY DEF Serial, StillSo, Loaded, ApprovalCovers, ApprovalCoversThePost
<1> QED  BY <1>1, SerialAlways, TypeCorrect, PTL

\* When calls do not overlap, a draft with a recorded post id is not posted again, whatever edits
\* and re-approvals follow.
THEOREM NoDraftIsPostedTwice == ASSUME ~Overlap PROVE Spec => []NeverPostsOnceRecorded
<1>1. Serial => NeverPostsOnceRecorded
  BY DEF Serial, StillSo, NeverPostsOnceRecorded
<1> QED  BY <1>1, SerialAlways, PTL

\* When calls do not overlap, the recorded posts of the last 24 hours stay within
\* daily_limit_posts: countPublishedSince, which goes by updated_at, never counts too few of them.
THEOREM TheDailyLimitHolds == ASSUME ~Overlap PROVE Spec => []RecordedPostsWithinLimit
<1>1. Serial => RecordedPostsWithinLimit
  BY DEF Serial, RecordedPosts, RecordedPostsWithinLimit
<1> QED  BY <1>1, SerialAlways, PTL
-----------------------------------------------------------------------------
(* The refinement: drafts and publisher as one atomic publisher.             *)

\* A new text is a text, and the one an approval is for is still the draft's when it is given.
EditBodies ==
  /\ edit.pc \in {"insert", "body"} => edit.body \in Bodies
  /\ edit.pc = "event" /\ edit.op \in {"APPROVE", "REAPPROVE"} => edit.body = rows[edit.draft].body

LEMMA EditBodiesInit == Init => EditBodies
BY Records DEF Init, DraftsInit, EditBodies

LEMMA EditBodiesStep ==
  ASSUME Typed, EditBodies, [Next]_vars
  PROVE  EditBodies'
<1>0. /\ rows \in [Drafts -> RowState] /\ edit \in EditState
      /\ edit.pc # "idle" => edit.draft \in Drafts
  BY DEF Typed, TypeOK, EditsAreAboutDrafts
<1>1. ASSUME edit' = edit, \A d \in Drafts : rows'[d].body = rows[d].body PROVE EditBodies'
  BY <1>0, <1>1 DEF EditBodies
<1>2. ASSUME edit' = NoEdit PROVE EditBodies'
  BY <1>2, Records DEF EditBodies
<1>3. ASSUME BeginEdit PROVE EditBodies'
  <2>1. ASSUME NEW d \in Drafts, NEW b \in Bodies, BeginGenerate(d, b) \/ BeginUpdateBody(d, b)
        PROVE  EditBodies'
    BY <2>1 DEF BeginGenerate, BeginUpdateBody, Begin, EditBodies
  <2>2. ASSUME NEW d \in Drafts, \/ \E t \in Transitions : BeginTransition(d, t)
                                 \/ BeginReapprove(d) \/ BeginRevalidate(d)
        PROVE  EditBodies'
    BY <2>2 DEF BeginTransition, BeginReapprove, BeginRevalidate, Begin, EditBodies
  <2> QED  BY <1>3, <2>1, <2>2 DEF BeginEdit
<1>4. ASSUME EditStep PROVE EditBodies'
  <2>1. CASE WriteBody
    <3>1. edit'.pc = "event" /\ edit'.op = "UPDATE_BODY"
      BY <1>0, <2>1 DEF WriteBody, Typed, EditsAreAboutDrafts, EditState
    <3> QED  BY <3>1 DEF EditBodies
  <2>2. CASE WriteEvent
    <3>1. edit' = NoEdit \/ edit'.pc = "column"
      BY <1>0, <2>2 DEF WriteEvent, EditState
    <3> QED  BY <1>2, <3>1 DEF EditBodies
  <2>3. ASSUME NEW d \in Drafts, MarkReady(d) PROVE EditBodies'
    BY <1>1, <2>3 DEF MarkReady
  <2> QED  BY <1>2, <1>4, <2>1, <2>2, <2>3 DEF EditStep, InsertDraft, WriteColumn, CrashEdit
<1>5. ASSUME NEW p \in Publishers,
             PublishStep(p) \/ BeginJob(p) \/ \E d \in Drafts : BeginPublish(p, d)
      PROVE  EditBodies'
  <2>1. CASE SavePostId(p)
    <3>1. edit' = edit /\ \A d \in Drafts : rows'[d].body = rows[d].body
      BY <1>0, <2>1 DEF SavePostId, Touch, RowState
    <3> QED  BY <1>1, <3>1
  <2>2. CASE ~SavePostId(p)
    <3>1. UNCHANGED draftVars
      BY <1>5, <2>2
         DEF PublishStep, NextDue, LoadDraft, CheckIntegrity, CheckSchedule, CheckUnpublished,
             OtherChecks, CheckLimit, PostSucceeds, PostRefused, PostUnknown, SaveThrows,
             CrashPublisher, BeginJob, BeginPublish
    <3> QED  BY <1>1, <3>1 DEF draftVars
  <2> QED  BY <2>1, <2>2
<1>6. ASSUME NEW e \in Drafts, PostAges(e) \/ RowAges(e) PROVE EditBodies'
  <2>1. edit' = edit /\ \A d \in Drafts : rows'[d].body = rows[d].body
    BY <1>0, <1>6 DEF PostAges, RowAges, draftVars, RowState
  <2> QED  BY <1>1, <2>1
<1>7. CASE UNCHANGED vars
  BY <1>1, <1>7 DEF vars
<1> QED  BY <1>3, <1>4, <1>5, <1>6, <1>7 DEF Next

\* An event approves the text its draft has, or takes note of a change, or concerns a draft that
\* is not approved before or after it.
LEMMA EventMeaning ==
  ASSUME Typed, EditBodies, edit.pc = "event"
  PROVE  LET l == AfterEvent(log[edit.draft]) IN
         \/ /\ l.status = "APPROVED" /\ ~l.changed
            /\ l.approved = rows[edit.draft].body
         \/ /\ l.status = log[edit.draft].status /\ l.changed
            /\ l.approved = log[edit.draft].approved
         \/ /\ l.status # "APPROVED" /\ log[edit.draft].status # "APPROVED"
            /\ l.approved = log[edit.draft].approved
<1> DEFINE s == log[edit.draft].status
<1>1. /\ edit.draft \in Drafts /\ log[edit.draft] \in LogState /\ s \in DraftStates
      /\ edit.op \in Operations \ {"REVALIDATE"}
  BY DEF Typed, TypeOK, EditsAreAboutDrafts, EditState, LogState
<1>2. CASE edit.op = "UPDATE_BODY"
  BY <1>1, <1>2 DEF AfterEvent, LogState
<1>3. CASE edit.op \in {"APPROVE", "REAPPROVE"}
  BY <1>1, <1>3 DEF AfterEvent, LogState, EditBodies
<1>4. CASE edit.op \in Transitions \ {"APPROVE"}
  <2> DEFINE t == ApplyTransition(s, edit.op)
  <2>1. t \in DraftStates \ {s}
    BY <1>4 DEF Typed, EditsAreAboutDrafts
  <2>2. t \notin {Invalid, s}
    BY <2>1 DEF DraftStates, Invalid
  <2>3. t # "APPROVED" /\ s # "APPROVED"
    BY <1>1, <1>4, <2>2, Lifecycle DEF Transitions, IsTerminal
  <2>4. AfterEvent(log[edit.draft]) = [log[edit.draft] EXCEPT !.status = t]
    BY <1>4 DEF AfterEvent, Transitions
  <2> HIDE DEF t
  <2> QED  BY <1>1, <2>3, <2>4 DEF LogState
<1> QED  BY <1>1, <1>2, <1>3, <1>4 DEF Operations

\* Drafts whose approval no change has undone, and those a post id is still to be recorded for.
Standing == {d \in Drafts : log[d].status = "APPROVED" /\ ~log[d].changed}
Answered == {d \in Drafts : \E p \in Publishers : pub[p].pc = "save" /\ pub[p].draft = d}

\* A step of the editor, while every publisher is idle, as a step of the atomic publisher's texts.
LEMMA EditorsStep ==
  ASSUME Typed, Typed', \A p \in Publishers : pub[p].pc = "idle",
         UNCHANGED <<pub, postedNow>>,
         \A d \in Drafts : rows'[d].published = rows[d].published
  PROVE  Ideal!Edits
<1>1. Answered = {} /\ Answered' = {}
  BY DEF Answered
<1> QED  BY <1>1 DEF Ideal!Edits, Answered

LEMMA EditStepRefines ==
  ASSUME Typed, Typed', Serial, EditBodies, ColumnNeverAheadOfLog, ColumnNeverAheadOfLog',
         EditStep, UNCHANGED <<pub, postedNow>>
  PROVE  [Ideal!Next]_(Ideal!vars)
<1>0. /\ rows \in [Drafts -> RowState] /\ log \in [Drafts -> LogState]
      /\ edit.pc # "idle" => edit.draft \in Drafts
  BY DEF Typed, TypeOK, EditsAreAboutDrafts
<1>1. edit.pc # "idle" => \A p \in Publishers : pub[p].pc = "idle"
  BY DEF Serial, OneCallAtATime
<1>d. PICK d : d = edit.draft
  OBVIOUS
<1>2. CASE InsertDraft \/ WriteBody
  <2>b. PICK b : b = edit.body
    OBVIOUS
  <2>1. /\ d \in Drafts /\ b \in Bodies /\ edit.pc # "idle" /\ UNCHANGED log
    BY <1>0, <1>d, <2>b, <1>2 DEF InsertDraft, WriteBody, EditBodies
  <2>2. \A e \in Drafts : /\ rows'[e].body = (IF e = d THEN b ELSE rows[e].body)
                          /\ rows'[e].published = rows[e].published
                          /\ rows'[e].approvalStatus = rows[e].approvalStatus
    <3>1. CASE InsertDraft
      BY <1>0, <1>d, <2>b, <3>1 DEF InsertDraft, Touch, RowState
    <3>2. CASE WriteBody
      BY <1>0, <1>d, <2>b, <3>2 DEF WriteBody, Touch, RowState
    <3> QED  BY <1>2, <3>1, <3>2
  <2>3. Ideal!Edits
    BY <1>1, <2>1, <2>2, EditorsStep
  <2>4. Ideal!Rewrite(d, b)
    BY <2>1, <2>2, <2>3 DEF Ideal!Rewrite
  <2> QED  BY <2>1, <2>4 DEF Ideal!Next
<1>3. CASE WriteEvent
  <2>1. PICK l : l = AfterEvent(log[d])
    OBVIOUS
  <2>2. d \in Drafts /\ edit.pc = "event" /\ UNCHANGED rows /\ log' = [log EXCEPT ![d] = l]
    BY <1>0, <1>d, <1>3, <2>1 DEF WriteEvent
  <2>3. \A e \in Drafts : log'[e] = IF e = d THEN l ELSE log[e]
    BY <1>0, <1>d, <2>2
  <2>4. Ideal!Edits
    BY <1>1, <2>2, EditorsStep
  <2>5. CASE l.status = "APPROVED" /\ ~l.changed /\ l.approved = rows[d].body
    <3>1. [e \in Drafts |-> log'[e].approved]
            = [[e \in Drafts |-> log[e].approved] EXCEPT ![d] = rows[d].body]
      <4>1. \A e \in Drafts : log'[e].approved = IF e = d THEN rows[d].body ELSE log[e].approved
        BY <2>2, <2>3, <2>5
      <4> QED  BY <2>2, <4>1
    <3>2. Standing' = Standing \cup {d}
      BY <2>2, <2>3, <2>5 DEF Standing
    <3>3. Ideal!Approve(d)
      BY <2>2, <2>4, <3>1, <3>2 DEF Ideal!Approve, Standing
    <3> QED  BY <2>2, <3>3 DEF Ideal!Next
  <2>6. CASE \/ l.status = log[d].status /\ l.changed /\ l.approved = log[d].approved
             \/ l.status # "APPROVED" /\ log[d].status # "APPROVED" /\ l.approved = log[d].approved
    <3>1. Ideal!Undo(d)
      BY <2>2, <2>3, <2>4, <2>6 DEF Ideal!Undo
    <3> QED  BY <2>2, <3>1 DEF Ideal!Next
  <2> QED  BY <2>1, <2>2, <2>5, <2>6, <1>d, EventMeaning
<1>4. CASE WriteColumn
  <2>1. /\ d \in Drafts /\ edit.pc = "column" /\ UNCHANGED log
    BY <1>d, <1>4, ColumnWritten DEF WriteColumn
  <2>2. PICK s \in {rows[d].approvalStatus, "approved", "rejected"} :
          /\ rows' = [rows EXCEPT ![d] = [rows[d] EXCEPT !.approvalStatus = s, !.recent = TRUE]]
          /\ \/ s = rows[d].approvalStatus
             \/ s = "approved" /\ edit.op = "APPROVE"
             \/ s = "rejected" /\ log[d].status = "REJECTED"
    BY <1>d, <1>4, ColumnWritten
  <2>3. \A e \in Drafts : /\ rows'[e].body = rows[e].body
                          /\ rows'[e].published = rows[e].published
                          /\ rows'[e].approvalStatus = (IF e = d THEN s ELSE rows[e].approvalStatus)
    BY <1>0, <1>d, <2>1, <2>2 DEF RowState
  <2>4. Ideal!Edits
    BY <1>1, <2>1, <2>3, EditorsStep
  <2>5. CASE s = "approved" /\ edit.op = "APPROVE"
    <3>1. ~rows[d].published
      BY <1>d, <2>1, <2>5 DEF Serial, FirstApproval
    <3>2. Ideal!List(d)
      BY <2>1, <2>3, <2>4, <2>5, <3>1 DEF Ideal!List, Ideal!texts
    <3> QED  BY <2>1, <3>2 DEF Ideal!Next
  <2>6. CASE s = rows[d].approvalStatus \/ (s = "rejected" /\ log[d].status = "REJECTED")
    <3>1. \A e \in Drafts : rows'[e].approvalStatus = "approved" <=> rows[e].approvalStatus = "approved"
      BY <2>1, <2>3, <2>6 DEF ColumnNeverAheadOfLog
    <3> QED  BY <2>1, <2>3, <3>1 DEF Ideal!vars, Ideal!texts
  <2> QED  BY <2>2, <2>5, <2>6
<1>5. CASE CrashEdit
  BY <1>5 DEF CrashEdit, Ideal!vars, Ideal!texts
<1>6. ASSUME NEW e \in Drafts, MarkReady(e) PROVE UNCHANGED Ideal!vars
  <2>1. \A f \in Drafts : /\ log'[f].status = log[f].status
                          /\ log'[f].approved = log[f].approved
                          /\ log'[f].changed = log[f].changed
    BY <1>0, <1>d, <1>6 DEF MarkReady, LogState
  <2> QED  BY <1>6, <2>1 DEF MarkReady, Ideal!vars, Ideal!texts
<1> QED  BY <1>2, <1>3, <1>4, <1>5, <1>6 DEF EditStep

\* While no other call is under way, what is answered is what this call is about to save.
LEMMA AnsweredHere ==
  ASSUME Typed, Typed', NEW p \in Publishers,
         PublishStep(p) \/ BeginJob(p) \/ \E d \in Drafts : BeginPublish(p, d),
         \A q \in Publishers : pub[q].pc # "idle" => q = p
  PROVE  /\ Answered = IF pub[p].pc = "save" THEN {pub[p].draft} ELSE {}
         /\ Answered' = IF pub'[p].pc = "save" THEN {pub'[p].draft} ELSE {}
<1>1. PICK c : pub' = [pub EXCEPT ![p] = c]
  BY DEF PublishStep, NextDue, LoadDraft, CheckIntegrity, CheckSchedule, CheckUnpublished,
         OtherChecks, CheckLimit, PostSucceeds, PostRefused, PostUnknown, SavePostId,
         SaveThrows, CrashPublisher, BeginJob, BeginPublish, Goto, Finish
<1>2. \A q \in Publishers \ {p} : pub'[q].pc = "idle" /\ pub[q].pc = "idle"
  BY <1>1 DEF Typed, TypeOK
<1>3. /\ pub[p].pc = "save" => pub[p].draft \in Drafts
      /\ pub'[p].pc = "save" => pub'[p].draft \in Drafts
  BY DEF Typed, CallsAreAboutDrafts
<1> QED  BY <1>2, <1>3 DEF Answered

LEMMA PostRefines ==
  ASSUME Typed, Serial, NEW p \in Publishers, pub[p].pc = "post", Posted(p), UNCHANGED draftVars,
         NEW d, d = pub[p].draft, Answered = {}, Answered' \in {{}, {d}}
  PROVE  Ideal!Post(d)
<1>1. d \in Drafts /\ postedNow \subseteq Drafts
  BY DEF Typed, TypeOK, CallsAreAboutDrafts
<1>2. /\ ApprovalCovers(d) /\ ~rows[d].published /\ Cardinality(CountedPosts) < DailyLimit
  BY DEF Serial, StillSo, Loaded
<1>3. Cardinality(Ideal!Counting) < DailyLimit
  <2>1. Ideal!Counting \subseteq CountedPosts /\ CountedPosts \subseteq Drafts
    BY DEF Ideal!Counting, CountedPosts, Serial, PublishedDrafts
  <2> QED  BY <1>2, <2>1, Counting, LimitsAssumption
<1>4. \A S : Ideal!Cardinality(S) = Cardinality(S)
  BY DEF Ideal!Cardinality, Cardinality
<1>5. UNCHANGED Ideal!texts
  BY DEF draftVars, Ideal!texts
<1>6. d \in Standing /\ log[d].approved = rows[d].body
  BY <1>1, <1>2 DEF Standing, ApprovalCovers
<1> QED  BY <1>1, <1>2, <1>3, <1>4, <1>5, <1>6 DEF Standing, Ideal!Post, Posted, draftVars, Answered

LEMMA PublisherRefines ==
  ASSUME Typed, Typed', Serial, NEW p \in Publishers,
         PublishStep(p) \/ BeginJob(p) \/ \E d \in Drafts : BeginPublish(p, d),
         \A q \in Publishers : pub[q].pc # "idle" => q = p
  PROVE  [Ideal!Next]_(Ideal!vars)
<1>0. /\ rows \in [Drafts -> RowState] /\ pub \in [Publishers -> PubState] /\ pub[p] \in PubState
      /\ pub[p].pc \notin {"idle", "next"} => pub[p].draft \in Drafts
  BY DEF Typed, TypeOK, CallsAreAboutDrafts
<1>d. PICK d : d = pub[p].draft
  OBVIOUS
<1>1. /\ Answered = IF pub[p].pc = "save" THEN {d} ELSE {}
      /\ Answered' = IF pub'[p].pc = "save" THEN {pub'[p].draft} ELSE {}
  BY <1>d, AnsweredHere
<1>2. ASSUME NEW pc, Goto(p, pc) PROVE pub'[p].pc = pc /\ pub'[p].draft = d
  BY <1>0, <1>d, <1>2 DEF Goto, PubState
<1>3. ASSUME Finish(p) PROVE pub'[p].pc = "next"
  BY <1>0, <1>d, <1>3 DEF Finish, NoPub
<1>4. ASSUME UNCHANGED draftVars, UNCHANGED postedNow, pub[p].pc # "save", pub'[p].pc # "save"
      PROVE  UNCHANGED Ideal!vars
  BY <1>1, <1>4 DEF draftVars, Answered, Ideal!vars, Ideal!texts
<1>5. CASE NextDue(p) \/ BeginJob(p) \/ \E e \in Drafts : BeginPublish(p, e)
  <2>1. pub[p].pc # "save"
    BY <1>5 DEF NextDue, BeginJob, BeginPublish
  <2>2. ASSUME NextDue(p) PROVE pub'[p].pc # "save"
    <3>1. PICK c : pub' = [pub EXCEPT ![p] = c] /\ c.pc \in {"idle", "load"}
      BY <2>2 DEF NextDue, NoPub
    <3> QED  BY <1>0, <3>1
  <2>3. ASSUME BeginJob(p) PROVE pub'[p].pc # "save"
    BY <1>0, <2>3 DEF BeginJob, NoPub
  <2>4. ASSUME NEW e \in Drafts, BeginPublish(p, e) PROVE pub'[p].pc # "save"
    BY <1>0, <2>4 DEF BeginPublish, NoPub
  <2>5. pub'[p].pc # "save"
    BY <1>5, <2>2, <2>3, <2>4
  <2> QED  BY <1>4, <1>5, <2>1, <2>5 DEF NextDue, BeginJob, BeginPublish
<1>6. CASE LoadDraft(p)
  <2>1. pub'[p].pc # "save" /\ pub[p].pc # "save"
    BY <1>0, <1>d, <1>3, <1>6 DEF LoadDraft, PubState
  <2> QED  BY <1>4, <1>6, <2>1 DEF LoadDraft
<1>7. CASE CheckIntegrity(p) \/ CheckSchedule(p) \/ CheckUnpublished(p) \/ OtherChecks(p) \/ CheckLimit(p)
  <2>1. pub'[p].pc # "save" /\ pub[p].pc # "save"
    BY <1>2, <1>3, <1>7
       DEF CheckIntegrity, CheckSchedule, CheckUnpublished, OtherChecks, CheckLimit
  <2> QED  BY <1>4, <1>7, <2>1
           DEF CheckIntegrity, CheckSchedule, CheckUnpublished, OtherChecks, CheckLimit
<1>8. CASE PostSucceeds(p) \/ PostRefused(p) \/ PostUnknown(p)
  <2>1. pub[p].pc = "post" /\ UNCHANGED draftVars /\ d \in Drafts
    BY <1>0, <1>d, <1>8 DEF PostSucceeds, PostRefused, PostUnknown
  <2>2. CASE Posted(p)
    <3>1. Answered = {} /\ Answered' \in {{}, {d}}
      BY <1>1, <1>2, <1>3, <1>8, <2>1 DEF PostSucceeds, PostRefused, PostUnknown
    <3>2. Ideal!Post(d)
      BY <1>d, <2>1, <2>2, <3>1, PostRefines
    <3> QED  BY <2>1, <3>2 DEF Ideal!Next
  <2>3. CASE ~Posted(p)
    BY <1>3, <1>4, <1>8, <2>1, <2>3 DEF PostSucceeds, PostRefused, PostUnknown
  <2> QED  BY <2>2, <2>3
<1>9. CASE SavePostId(p)
  <2>1. /\ d \in Drafts /\ Answered = {d} /\ Answered' = {} /\ UNCHANGED <<log, postedNow>>
    BY <1>0, <1>d, <1>1, <1>3, <1>9 DEF SavePostId
  <2>2. \A e \in Drafts : /\ rows'[e].body = rows[e].body
                          /\ rows'[e].approvalStatus = rows[e].approvalStatus
                          /\ rows'[e].published <=> (e = d \/ rows[e].published)
    BY <1>0, <1>d, <1>9 DEF SavePostId, Touch, RowState
  <2>3. Ideal!Record(d)
    BY <2>1, <2>2 DEF Ideal!Record, Ideal!texts, Answered
  <2> QED  BY <2>1, <2>3 DEF Ideal!Next
<1>10. CASE SaveThrows(p) \/ CrashPublisher(p)
  <2>1. pub'[p].pc # "save" /\ UNCHANGED draftVars /\ UNCHANGED postedNow
    BY <1>0, <1>d, <1>3, <1>10 DEF SaveThrows, CrashPublisher, NoPub
  <2>2. Ideal!Forget
    BY <1>1, <2>1 DEF Ideal!Forget, Ideal!texts, draftVars, Answered
  <2> QED  BY <2>2 DEF Ideal!Next
<1> QED  BY <1>5, <1>6, <1>7, <1>8, <1>9, <1>10 DEF PublishStep

LEMMA AgesRefine ==
  ASSUME Typed, NEW d \in Drafts, PostAges(d) \/ RowAges(d)
  PROVE  [Ideal!Next]_(Ideal!vars)
<1>1. CASE PostAges(d)
  <2>1. Ideal!Age(d)
    BY <1>1 DEF PostAges, Ideal!Age, Ideal!texts, draftVars
  <2> QED  BY <2>1 DEF Ideal!Next
<1>2. CASE RowAges(d)
  <2>1. \A e \in Drafts : /\ rows'[e].body = rows[e].body
                          /\ rows'[e].approvalStatus = rows[e].approvalStatus
                          /\ rows'[e].published = rows[e].published
    BY <1>2 DEF RowAges, Typed, TypeOK, RowState
  <2> QED  BY <1>2, <2>1 DEF RowAges, Ideal!vars, Ideal!texts
<1> QED  BY <1>1, <1>2

LEMMA IdealStep ==
  ASSUME ~Overlap, Typed, Typed', Serial, EditBodies,
         ColumnNeverAheadOfLog, ColumnNeverAheadOfLog', [Next]_vars
  PROVE  [Ideal!Next]_(Ideal!vars)
<1>1. ASSUME BeginEdit, UNCHANGED <<pub, postedNow>> PROVE UNCHANGED Ideal!vars
  <2>1. UNCHANGED <<rows, log>>
    BY <1>1 DEF BeginEdit, BeginGenerate, BeginUpdateBody, BeginTransition, BeginReapprove,
                BeginRevalidate, Begin
  <2> QED  BY <1>1, <2>1 DEF Ideal!vars, Ideal!texts
<1>2. ASSUME NEW p \in Publishers, PublishStep(p) PROVE [Ideal!Next]_(Ideal!vars)
  <2>1. pub[p].pc # "idle"
    BY <1>2 DEF PublishStep, NextDue, LoadDraft, CheckIntegrity, CheckSchedule, CheckUnpublished,
                OtherChecks, CheckLimit, PostSucceeds, PostRefused, PostUnknown, SavePostId,
                SaveThrows, CrashPublisher
  <2>2. \A q \in Publishers : pub[q].pc # "idle" => q = p
    BY <2>1 DEF Serial, OneCallAtATime
  <2> QED  BY <1>2, <2>2, PublisherRefines
<1>3. ASSUME NEW p \in Publishers, BeginJob(p) \/ \E d \in Drafts : BeginPublish(p, d)
      PROVE  [Ideal!Next]_(Ideal!vars)
  <2>1. \A q \in Publishers : pub[q].pc = "idle"
    BY <1>3 DEF BeginJob, BeginPublish, MayBegin
  <2> QED  BY <1>3, <2>1, PublisherRefines
<1>4. CASE UNCHANGED vars
  BY <1>4 DEF vars, Ideal!vars, Ideal!texts
<1> QED  BY <1>1, <1>2, <1>3, <1>4, EditStepRefines, AgesRefine DEF Next

LEMMA IdealInit == Init => Ideal!Init
<1> SUFFICES ASSUME Init PROVE Ideal!Init
  OBVIOUS
<1>1. \A p \in Publishers : pub[p].pc = "idle"
  BY Records DEF Init
<1>2. \A d \in Drafts : /\ rows[d].body = NoBody /\ log[d].approved = NoBody
                        /\ log[d].status = "DRAFTED" /\ rows[d].approvalStatus = "pending"
                        /\ ~rows[d].published
  BY DEF Init, DraftsInit
<1> QED  BY <1>1, <1>2 DEF Init, Ideal!Init

\* When calls do not overlap, drafts and publisher are one atomic publisher: the checks of
\* publishDraft, each read at a time of its own, all hold at the moment X posts, and a post id is
\* recorded only for a post that was made.
THEOREM PublishingIsAtomic == ASSUME ~Overlap PROVE Spec => PublishesAtomically
<1>1. Typed /\ Typed' /\ Serial /\ EditBodies /\ ColumnNeverAheadOfLog /\ ColumnNeverAheadOfLog'
        /\ [Next]_vars => [Ideal!Next]_(Ideal!vars)
  BY IdealStep
<1>2. Typed /\ EditBodies /\ [Next]_vars => EditBodies'
  BY EditBodiesStep
<1> QED  BY <1>1, <1>2, IdealInit, EditBodiesInit, TypeCorrect, SerialAlways,
            TheColumnLagsBehindTheLog, PTL DEF Spec, PublishesAtomically, Ideal!Spec
=============================================================================
