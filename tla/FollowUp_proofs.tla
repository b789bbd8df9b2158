--------------------------- MODULE FollowUp_proofs ---------------------------
(***************************************************************************)
(* What holds of follow-ups for any number of prospects, messages, drafts  *)
(* and steps.  The typing and the order of the steps hold for any number   *)
(* of processes; that a reply or an opt-out is never forgotten, for one.   *)
(***************************************************************************)
EXTENDS FollowUp, FiniteSetTheorems, TLAPS

\* The places a job in progress can be at.
Places == {"idle", "next", "detect", "fetch", "conversation", "create", "store", "fold", "update",
           "finish", "eligible", "resolve", "generate", "insert", "submit"}

\* What a job in progress is about, and that X's pages and inboxes are finite.
Sound(c) ==
  /\ c.pc \notin {"idle", "next"} => c.prospect \in Prospects
  /\ c.pc \in {"store", "fold", "update"} => c.conversation \in Conversations
  /\ c.pc \in {"generate", "insert"} => c.step \in 2..LastStep
  /\ c.pc = "submit" => c.draft \in Drafts
  /\ IsFiniteSet(c.page) /\ IsFiniteSet(c.seen.messages)

Finite ==
  /\ \A p \in Prospects : IsFiniteSet(inbox[p])
  /\ \A c \in Conversations : IsFiniteSet(conversations[c].messages)

\* A draft for a step is somebody's, and its step is one that follows another.
DraftsSound ==
  /\ drafts \in [Drafts -> Draft]
  /\ \A d \in Drafts : /\ drafts[d].step \in {0} \cup 2..LastStep
                       /\ drafts[d].step # 0 => drafts[d].prospect \in Prospects

Typed ==
  /\ FollowUpTypeOK
  /\ Finite
  /\ DraftsSound
  /\ \A a \in Actors : Sound(call[a])
-----------------------------------------------------------------------------
(* The largest and the smallest of a set, and the latest of the messages.    *)

LEMMA Bounds ==
  /\ Prospects \subseteq Nat /\ Messages \subseteq Nat /\ MaxAborts \in Nat
  /\ LastStep \in Nat /\ LastStep >= 1
BY CountsAssumption, StepsAssumption

LEMMA TimesAreNumbers == Times \subseteq Int
<1>1. \A m \in Messages : m \in Nat
  BY Bounds
<1> QED  BY <1>1 DEF Times

\* Every finite set of numbers but the empty one has a largest and a smallest member: of the sets
\* that have none, a smallest would have none still when a member is taken from it.
LEMMA Extremes ==
  ASSUME NEW S \in SUBSET Int, IsFiniteSet(S), S # {}
  PROVE  (\E x \in S : \A y \in S : x >= y) /\ (\E x \in S : \A y \in S : x <= y)
<1> DEFINE Has(T) == (\E x \in T : \A y \in T : x >= y) /\ (\E x \in T : \A y \in T : x <= y)
<1> DEFINE Bad == {T \in FiniteSubsetsOf(S) : T # {} /\ ~Has(T)}
<1>1. SUFFICES ASSUME Bad # {} PROVE FALSE
  <2>1. S \in FiniteSubsetsOf(S)
    BY DEF FiniteSubsetsOf
  <2> QED  BY <2>1
<1>2. PICK T \in Bad : \A U \in Bad : ~(<<U, T>> \in StrictSubsetOrdering(S))
  <2>1. IsWellFoundedOn(StrictSubsetOrdering(S), FiniteSubsetsOf(S))
    BY FS_StrictSubsetOrderingWellFounded
  <2>2. Bad \subseteq FiniteSubsetsOf(S)
    OBVIOUS
  <2> HIDE DEF Bad
  <2> QED  BY <1>1, <2>1, <2>2, WFMin
<1>3. T \subseteq S /\ IsFiniteSet(T) /\ T # {} /\ ~Has(T)
  BY <1>2 DEF FiniteSubsetsOf
<1>4. PICK t \in T : TRUE
  BY <1>3
<1> DEFINE U == T \ {t}
<1>5. /\ U \subseteq S /\ IsFiniteSet(U) /\ <<U, T>> \in StrictSubsetOrdering(S)
      /\ T = U \cup {t} /\ t \in Int
  <2>1. U \subseteq S /\ T = U \cup {t} /\ t \in Int /\ U # T
    BY <1>3, <1>4
  <2>2. IsFiniteSet(U)
    BY <1>3, FS_RemoveElement
  <2> QED  BY <1>3, <2>1, <2>2 DEF StrictSubsetOrdering
<1>6. U = {} \/ Has(U)
  BY <1>2, <1>5 DEF FiniteSubsetsOf
<1> HIDE DEF U
<1>7. CASE U = {}
  BY <1>3, <1>5, <1>7
<1>8. CASE Has(U)
  <2>1. \E x \in T : \A y \in T : x >= y
    <3>1. PICK x \in U : \A y \in U : x >= y
      BY <1>8
    <3>2. CASE x >= t
      BY <1>5, <3>1, <3>2
    <3>3. CASE ~(x >= t)
      <4>1. x \in Int /\ \A y \in U : y \in Int
        BY <1>5, <3>1
      <4>2. \A y \in U : t >= y
        BY <1>5, <3>1, <3>3, <4>1
      <4> QED  BY <1>5, <4>2
    <3> QED  BY <3>2, <3>3
  <2>2. \E x \in T : \A y \in T : x <= y
    <3>1. PICK x \in U : \A y \in U : x <= y
      BY <1>8
    <3>2. CASE x <= t
      BY <1>5, <3>1, <3>2
    <3>3. CASE ~(x <= t)
      <4>1. x \in Int /\ \A y \in U : y \in Int
        BY <1>5, <3>1
      <4>2. \A y \in U : t <= y
        BY <1>5, <3>1, <3>3, <4>1
      <4> QED  BY <1>5, <4>2
    <3> QED  BY <3>2, <3>3
  <2> QED  BY <1>3, <2>1, <2>2
<1> QED  BY <1>6, <1>7, <1>8

LEMMA MaxOfFinite ==
  ASSUME NEW S \in SUBSET Int, IsFiniteSet(S), S # {}
  PROVE  Max(S) \in S /\ \A y \in S : Max(S) >= y
BY Extremes DEF Max

\* A set of naturals has a smallest member, finite or not.
LEMMA MinOfNats ==
  ASSUME NEW S \in SUBSET Nat, S # {}
  PROVE  Min(S) \in S
<1>1. PICK n \in S : TRUE
  OBVIOUS
<1> DEFINE T == S \cap (0..n)
<1>2. IsFiniteSet(T) /\ T \in SUBSET Int /\ n \in T
  <2>1. IsFiniteSet(0..n)
    BY <1>1, FS_Interval
  <2>2. IsFiniteSet(T)
    BY <2>1, FS_Subset
  <2> QED  BY <1>1, <2>2
<1>3. PICK x \in T : \A y \in T : x <= y
  <2> HIDE DEF T
  <2> QED  BY <1>2, Extremes
<1>4. x \in S /\ \A y \in S : x <= y
  BY <1>1, <1>2, <1>3
<1> QED  BY <1>4 DEF Min

\* The most recent message has the time of one of them.
LEMMA MostRecentIsATime ==
  ASSUME NEW row \in Conversation, IsFiniteSet(row.messages)
  PROVE  MostRecent(row) \in Times
<1> DEFINE S == {row.outbound} \cup {2 * m : m \in row.messages}
<1>1. row.messages \subseteq Messages /\ row.messages \subseteq Int /\ row.outbound \in Times
      /\ row.outbound \in Int
  <2>1. Times \subseteq Int
    BY TimesAreNumbers
  <2>2. row.messages \in SUBSET Messages /\ row.outbound \in Times
    BY DEF Conversation
  <2>3. Messages \subseteq Int
    BY Bounds
  <2> QED  BY <2>1, <2>2, <2>3
<1>2. S \subseteq Times
  BY <1>1 DEF Times
<1>3. \E x \in S : \A y \in S : x >= y
  <2>1. CASE row.messages = {}
    BY <1>1, <2>1
  <2>2. CASE row.messages # {}
    <3>1. PICK m \in row.messages : \A n \in row.messages : m >= n
      BY <1>1, <2>2, Extremes
    <3>2. \A n \in row.messages : 2 * m >= 2 * n
      BY <1>1, <3>1
    <3>3. CASE row.outbound >= 2 * m
      <4>1. \A n \in row.messages : row.outbound >= 2 * n
        BY <1>1, <3>1, <3>2, <3>3
      <4> QED  BY <1>1, <4>1
    <3>4. CASE ~(row.outbound >= 2 * m)
      BY <1>1, <3>1, <3>2, <3>4
    <3> QED  BY <3>3, <3>4
  <2> QED  BY <2>1, <2>2
<1> QED  BY <1>2, <1>3 DEF MostRecent, Max
-----------------------------------------------------------------------------
(* Typing.                                                                   *)

LEMMA Records ==
  /\ NoRow \in Conversation /\ NoRow.messages = {} /\ NoRow.prospect = NoProspect
  /\ NoDraftYet \in Draft /\ NoDraftYet.step = 0
  /\ Idle \in Call /\ Idle.pc = "idle" /\ Sound(Idle)
<1>1. NoRow \in Conversation /\ NoRow.messages = {} /\ NoRow.prospect = NoProspect
  BY DEF NoRow, Conversation, Times
<1>2. NoDraftYet \in Draft /\ NoDraftYet.step = 0
  BY DEF NoDraftYet, Draft, Intents
<1>3. Idle \in Call /\ Idle.pc = "idle"
  BY <1>1 DEF Idle, Call, Jobs, ReplyStates
<1>4. Sound(Idle)
  BY <1>1, FS_EmptySet DEF Idle, Sound
<1> QED  BY <1>1, <1>2, <1>3, <1>4

\* A job with another value of the right kind in one of its fields.
LEMMA CallUpdates ==
  ASSUME NEW c \in Call
  PROVE  /\ \A x \in Places : [c EXCEPT !.pc = x] \in Call
         /\ \A x \in Jobs : [c EXCEPT !.job = x] \in Call
         /\ \A x \in SUBSET Prospects : [c EXCEPT !.todo = x] \in Call
         /\ \A x \in Prospects \cup {NoProspect} : [c EXCEPT !.prospect = x] \in Call
         /\ \A x \in SUBSET Messages : [c EXCEPT !.page = x] \in Call
         /\ \A x \in Conversations \cup {NoConversation} : [c EXCEPT !.conversation = x] \in Call
         /\ \A x \in ReplyStates : [c EXCEPT !.replyState = x] \in Call
         /\ \A x \in Conversation : [c EXCEPT !.seen = x] \in Call
         /\ \A x \in Nat : [c EXCEPT !.step = x] \in Call
         /\ \A x \in Drafts \cup {NoDraft} : [c EXCEPT !.draft = x] \in Call
         /\ \A x \in BOOLEAN : [c EXCEPT !.answered = x] \in Call
<1>1. /\ \A x \in Places : [c EXCEPT !.pc = x] \in Call
      /\ \A x \in Jobs : [c EXCEPT !.job = x] \in Call
      /\ \A x \in SUBSET Prospects : [c EXCEPT !.todo = x] \in Call
      /\ \A x \in Prospects \cup {NoProspect} : [c EXCEPT !.prospect = x] \in Call
      /\ \A x \in SUBSET Messages : [c EXCEPT !.page = x] \in Call
  BY ZenonT(40) DEF Call, Places
<1>2. /\ \A x \in Conversations \cup {NoConversation} : [c EXCEPT !.conversation = x] \in Call
      /\ \A x \in ReplyStates : [c EXCEPT !.replyState = x] \in Call
  BY DEF Call
<1>3. \A x \in Conversation : [c EXCEPT !.seen = x] \in Call
  BY DEF Call
<1>4. \A x \in Nat : [c EXCEPT !.step = x] \in Call
  BY DEF Call
<1>5. \A x \in Drafts \cup {NoDraft} : [c EXCEPT !.draft = x] \in Call
  BY DEF Call
<1>6. \A x \in BOOLEAN : [c EXCEPT !.answered = x] \in Call
  BY DEF Call
<1> QED  BY <1>1, <1>2, <1>3, <1>4, <1>5, <1>6

LEMMA CallFields ==
  ASSUME NEW c \in Call
  PROVE  /\ c.job \in Jobs /\ c.todo \in SUBSET Prospects
         /\ c.prospect \in Prospects \cup {NoProspect} /\ c.page \in SUBSET Messages
         /\ c.conversation \in Conversations \cup {NoConversation} /\ c.replyState \in ReplyStates
         /\ c.seen \in Conversation /\ c.step \in Nat /\ c.draft \in Drafts \cup {NoDraft}
         /\ c.answered \in BOOLEAN
BY DEF Call

\* Going on with the next candidate.
LEMMA NextTyped ==
  ASSUME NEW c \in Call
  PROVE  /\ Next1(c) \in Call /\ Sound(Next1(c))
         /\ Next1(c).pc = "next" /\ Next1(c).answered = FALSE
<1>1. Next1(c) \in Call
  BY Records, CallUpdates, CallFields DEF Next1, Places
<1>2. /\ Next1(c).pc = "next" /\ Next1(c).answered = FALSE /\ Next1(c).todo = c.todo
      /\ Next1(c).page = {} /\ Next1(c).seen.messages = {}
  BY Records DEF Next1, Idle
<1> QED  BY <1>1, <1>2, FS_EmptySet DEF Sound

LEMMA TypedInit == Init => Typed
<1> SUFFICES ASSUME Init PROVE Typed  OBVIOUS
<1>0. 0 \in 0..MaxAborts
  BY Bounds
<1>1. /\ inbox \in [Prospects -> SUBSET Messages]
      /\ {sent, everSent} \subseteq [Prospects -> SUBSET (1..LastStep)]
      /\ stopped \subseteq Prospects /\ aborts \in 0..MaxAborts
      /\ auditLog \subseteq Prospects \X Against
  BY <1>0 DEF Init
<1>2. conversations \in [Conversations -> Conversation] /\ drafts \in [Drafts -> Draft]
      /\ call \in [Actors -> Call]
  BY Records DEF Init
<1>3. Finite /\ DraftsSound
  BY Records, FS_EmptySet DEF Init, Finite, DraftsSound
<1>4. \A a \in Actors : Sound(call[a])
  BY Records DEF Init
<1> QED  BY <1>1, <1>2, <1>3, <1>4 DEF Typed, FollowUpTypeOK, DraftsSound

\* A step of a job that changes no more than the job, the conversations, the drafts and the log.
LEMMA JobTyped ==
  ASSUME Typed, NEW a \in Actors, NEW c \in Call, Sound(c), Goto(a, c), UNCHANGED world,
         conversations' \in [Conversations -> Conversation],
         \A k \in Conversations : IsFiniteSet(conversations'[k].messages),
         DraftsSound', auditLog' \subseteq Prospects \X Against, aborts' \in 0..MaxAborts
  PROVE  Typed'
<1>1. call' \in [Actors -> Call] /\ \A b \in Actors : Sound(call'[b])
  BY DEF Goto, Typed, FollowUpTypeOK
<1>2. UNCHANGED <<inbox, stopped, sent, everSent>>
  BY DEF world
<1>3. FollowUpTypeOK'
  BY <1>1, <1>2 DEF Typed, FollowUpTypeOK, DraftsSound
<1> QED  BY <1>1, <1>2, <1>3 DEF Typed, Finite

\* A step of a job that changes no more than the job.
LEMMA MoveTyped ==
  ASSUME Typed, NEW a \in Actors, NEW c \in Call, Sound(c), Goto(a, c),
         UNCHANGED <<world, conversations, drafts, auditLog, aborts>>
  PROVE  Typed'
BY JobTyped DEF Typed, FollowUpTypeOK, Finite, DraftsSound

\* The candidate that a job takes up, and whether it has been answered by then.
TakenUp(c, before) ==
  /\ c.pc = "detect" /\ c.prospect \in Prospects
  /\ c.todo \subseteq before.todo /\ c.page = before.page /\ c.seen = before.seen
  /\ c.answered => \/ c.prospect \in stopped
                   \/ \E s \in Against : <<c.prospect, s>> \in auditLog

LEMMA NextCandidateEffect ==
  ASSUME Typed, NEW a \in Actors, NextCandidate(a)
  PROVE  \/ \E c \in Call : Goto(a, Next1(c))
         \/ \E c \in Call : Goto(a, c) /\ TakenUp(c, call[a])
<1>0. call[a] \in Call
  BY DEF Typed, FollowUpTypeOK
<1> DEFINE p == Min(call[a].todo)
           rest == [call[a] EXCEPT !.todo = @ \ {p}]
           answered == \/ p \in stopped
                       \/ \E s \in Against : <<p, s>> \in auditLog
           c == [rest EXCEPT !.pc = "detect", !.prospect = p, !.answered = answered]
<1>1. p \in Prospects
  <2>1. call[a].todo \in SUBSET Nat /\ call[a].todo # {} /\ call[a].todo \subseteq Prospects
    BY <1>0, Bounds, CallFields DEF NextCandidate
  <2> QED  BY <1>0, <2>1, MinOfNats
<1>2. Goto(a, Next1(rest)) \/ Goto(a, c)
  BY DEF NextCandidate
<1>3. /\ rest \in Call /\ rest.todo = call[a].todo \ {p} /\ rest.page = call[a].page
      /\ rest.seen = call[a].seen
  <2> HIDE DEF p
  <2>1. call[a].todo \ {p} \in SUBSET Prospects
    BY <1>0, CallFields
  <2> QED  BY <1>0, <2>1, CallUpdates, SMTT(30) DEF Call
<1>4. answered \in BOOLEAN
  OBVIOUS
<1>5. answered => \/ p \in stopped
                  \/ \E s \in Against : <<p, s>> \in auditLog
  OBVIOUS
<1> HIDE DEF p, rest, answered
<1>6. c \in Call
  BY <1>1, <1>3, <1>4, CallUpdates DEF Places
<1>7. /\ c.pc = "detect" /\ c.prospect = p /\ c.answered = answered /\ c.todo = rest.todo
      /\ c.page = rest.page /\ c.seen = rest.seen
  BY <1>3 DEF Call
<1> HIDE DEF c
<1>8. TakenUp(c, call[a])
  BY <1>1, <1>3, <1>5, <1>7 DEF TakenUp
<1> QED  BY <1>0, <1>2, <1>3, <1>6, <1>8

LEMMA LoopTyped ==
  ASSUME Typed, NEW a \in Actors,
         (\E job \in Jobs : Start(a, job)) \/ NextCandidate(a) \/ JobEnds(a) \/ Abort(a)
  PROVE  Typed'
<1>0. call[a] \in Call /\ call \in [Actors -> Call]
  BY DEF Typed, FollowUpTypeOK
<1>1. ASSUME NEW job \in Jobs, Start(a, job) PROVE Typed'
  <2> DEFINE c == [Idle EXCEPT !.pc = "next", !.job = job, !.todo = Candidates]
  <2>1. Candidates \in SUBSET Prospects
    BY DEF Candidates
  <2>2. c \in Call
    BY <2>1, Records, CallUpdates DEF Places
  <2>3. Sound(c)
    <3>1. c.pc = "next" /\ c.todo = Candidates /\ c.page = {} /\ c.seen.messages = {}
      BY Records DEF Idle
    <3> QED  BY <2>1, <3>1, FS_EmptySet DEF Sound
  <2> QED  BY <1>1, <2>2, <2>3, MoveTyped DEF Start
<1>2. CASE NextCandidate(a)
  <2>1. CASE \E c \in Call : Goto(a, Next1(c))
    BY <1>2, <2>1, NextTyped, MoveTyped DEF NextCandidate
  <2>2. CASE \E c \in Call : Goto(a, c) /\ TakenUp(c, call[a])
    <3>1. PICK c \in Call : Goto(a, c) /\ TakenUp(c, call[a])
      BY <2>2
    <3>2. Sound(c)
      BY <1>0, <3>1 DEF TakenUp, Typed, Sound
    <3> QED  BY <1>2, <3>1, <3>2, MoveTyped DEF NextCandidate
  <2> QED  BY <1>2, <2>1, <2>2, NextCandidateEffect
<1>3. CASE JobEnds(a)
  BY <1>3, MoveTyped, Records DEF JobEnds
<1>4. CASE Abort(a)
  <2>1. aborts' \in 0..MaxAborts
    BY <1>4, Bounds DEF Abort, Typed, FollowUpTypeOK
  <2>2. UNCHANGED <<world, conversations, drafts, auditLog>>
    BY <1>4 DEF Abort
  <2>3. PICK c \in Call : Sound(c) /\ Goto(a, c)
    <3>1. CASE Goto(a, Idle)
      BY <3>1, Records
    <3>2. CASE Goto(a, Next1(call[a]))
      BY <1>0, <3>2, NextTyped
    <3> QED  BY <1>4, <3>1, <3>2 DEF Abort
  <2> QED  BY <2>1, <2>2, <2>3, JobTyped DEF Typed, FollowUpTypeOK, Finite, DraftsSound
<1> QED  BY <1>1, <1>2, <1>3, <1>4

\* The detection, as far as the messages have been stored.
LEMMA DetectionTyped ==
  ASSUME Typed, NEW a \in Actors,
         \/ Detect(a) \/ FetchFails(a) \/ \E page \in SUBSET Messages : FetchPage(a, page)
         \/ FindConversation(a) \/ \E k \in Conversations : CreateConversation(a, k)
         \/ StoreMessage(a)
  PROVE  Typed'
<1>0. /\ call[a] \in Call /\ call \in [Actors -> Call] /\ conversations \in [Conversations -> Conversation]
      /\ Sound(call[a])
  BY DEF Typed, FollowUpTypeOK
<1>1. CASE Detect(a) \/ FetchFails(a)
  <2>1. PICK pc \in {"finish", "fetch"}, s \in ReplyStates :
          \/ Goto(a, [call[a] EXCEPT !.pc = pc, !.replyState = s])
          \/ Goto(a, [call[a] EXCEPT !.pc = pc])
    BY <1>1 DEF Detect, FetchFails, ReplyStates
  <2>2. UNCHANGED <<world, conversations, drafts, auditLog, aborts>>
    BY <1>1 DEF Detect, FetchFails
  <2>3. call[a].pc \in {"detect", "fetch"}
    BY <1>1 DEF Detect, FetchFails
  <2>4. /\ [call[a] EXCEPT !.pc = pc, !.replyState = s] \in Call
        /\ [call[a] EXCEPT !.pc = pc] \in Call
    BY <1>0, CallUpdates DEF Places
  <2>5. /\ Sound([call[a] EXCEPT !.pc = pc, !.replyState = s])
        /\ Sound([call[a] EXCEPT !.pc = pc])
    BY <1>0, <2>3 DEF Sound, Call
  <2> QED  BY <2>1, <2>2, <2>4, <2>5, MoveTyped
<1>2. ASSUME NEW page \in SUBSET Messages, FetchPage(a, page) PROVE Typed'
  <2> DEFINE c == [call[a] EXCEPT !.pc = "conversation", !.page = page]
  <2>1. c \in Call
    BY <1>0, CallUpdates DEF Places
  <2>2. IsFiniteSet(page)
    BY <1>0, <1>2, FS_Subset DEF FetchPage, Sound, Typed, Finite
  <2>3. Sound(c)
    BY <1>0, <1>2, <2>2, ZenonT(40) DEF FetchPage, Sound, Call
  <2> QED  BY <1>2, <2>1, <2>3, MoveTyped DEF FetchPage
<1>3. CASE FindConversation(a)
  <2>1. \/ \E k \in Conversations : Goto(a, [call[a] EXCEPT !.pc = "store", !.conversation = k])
        \/ Goto(a, [call[a] EXCEPT !.pc = "create"])
    BY <1>3 DEF FindConversation, LatestConversations
  <2>2. ASSUME NEW k \in Conversations
        PROVE  /\ [call[a] EXCEPT !.pc = "store", !.conversation = k] \in Call
               /\ Sound([call[a] EXCEPT !.pc = "store", !.conversation = k])
    <3>1. [call[a] EXCEPT !.pc = "store", !.conversation = k] \in Call
      BY <1>0, CallUpdates DEF Places
    <3>2. call[a].pc = "conversation"
      BY <1>3 DEF FindConversation
    <3> QED  BY <1>0, <3>2, <3>1 DEF Sound, Call
  <2>3. /\ [call[a] EXCEPT !.pc = "create"] \in Call
        /\ Sound([call[a] EXCEPT !.pc = "create"])
    <3>1. [call[a] EXCEPT !.pc = "create"] \in Call
      BY <1>0, CallUpdates DEF Places
    <3>2. call[a].pc = "conversation"
      BY <1>3 DEF FindConversation
    <3> QED  BY <1>0, <3>2, <3>1 DEF Sound, Call
  <2> QED  BY <1>3, <2>1, <2>2, <2>3, MoveTyped, ZenonT(40) DEF FindConversation
<1>4. ASSUME NEW k \in Conversations, CreateConversation(a, k) PROVE Typed'
  <2> DEFINE c == [call[a] EXCEPT !.pc = "store", !.conversation = k]
  <2>1. c \in Call
    BY <1>0, CallUpdates DEF Places
  <2>2. Sound(c)
    BY <1>0, <1>4 DEF CreateConversation, Sound, Call
  <2>3. [conversations[k] EXCEPT !.prospect = call[a].prospect] \in Conversation
    <3>1. call[a].prospect \in Prospects \cup {NoProspect}
      BY <1>0 DEF Call
    <3> QED  BY <1>0, <3>1 DEF Conversation
  <2>4. /\ conversations' \in [Conversations -> Conversation]
        /\ \A i \in Conversations : conversations'[i].messages = conversations[i].messages
    BY <1>0, <1>4, <2>3 DEF CreateConversation, Conversation
  <2> HIDE DEF c
  <2> QED  BY <1>4, <2>1, <2>2, <2>4, JobTyped
            DEF CreateConversation, c, Typed, FollowUpTypeOK, Finite, DraftsSound
<1>5. CASE StoreMessage(a)
  <2> DEFINE k == call[a].conversation
             new == call[a].page \ conversations[k].messages
  <2>0. k \in Conversations /\ new \in SUBSET Messages /\ call[a].pc = "store"
    BY <1>0, <1>5, CallFields DEF StoreMessage, Sound
  <2>1. CASE new = {}
    <3> DEFINE c == [call[a] EXCEPT !.pc = "fold"]
    <3>1. c \in Call
      BY <1>0, CallUpdates DEF Places
    <3>2. Sound(c)
      BY <1>0, <2>0 DEF Sound, Call
    <3>3. Goto(a, c) /\ UNCHANGED conversations
      BY <1>5, <2>1 DEF StoreMessage
    <3>4. UNCHANGED <<world, drafts, auditLog, aborts>>
      BY <1>5 DEF StoreMessage
    <3> HIDE DEF c
    <3> QED  BY <3>1, <3>2, <3>3, <3>4, MoveTyped
  <2>2. CASE new # {}
    <3>1. Min(new) \in Messages
      BY <2>0, <2>2, Bounds, MinOfNats
    <3>2. conversations' = [conversations EXCEPT ![k].messages = @ \cup {Min(new)}] /\ UNCHANGED call
      BY <1>5, <2>2 DEF StoreMessage
    <3>3. UNCHANGED <<world, drafts, auditLog, aborts>>
      BY <1>5 DEF StoreMessage
    <3> HIDE DEF k, new
    <3>4. /\ conversations[k].messages \cup {Min(new)} \in SUBSET Messages
          /\ IsFiniteSet(conversations[k].messages \cup {Min(new)})
      <4>1. conversations[k].messages \in SUBSET Messages /\ IsFiniteSet(conversations[k].messages)
        BY <1>0, <2>0 DEF Conversation, Typed, Finite
      <4> QED  BY <3>1, <4>1, FS_AddElement
    <3>5. [conversations[k] EXCEPT !.messages = conversations[k].messages \cup {Min(new)}]
            \in Conversation
      BY <1>0, <2>0, <3>4 DEF Conversation
    <3>6. /\ conversations' \in [Conversations -> Conversation]
          /\ \A i \in Conversations : IsFiniteSet(conversations'[i].messages)
      BY <1>0, <2>0, <3>2, <3>4, <3>5 DEF Conversation, Typed, Finite
    <3>7. Goto(a, call[a])
      BY <1>0, <3>2 DEF Goto
    <3> QED  BY <1>0, <3>3, <3>6, <3>7, JobTyped
              DEF Typed, FollowUpTypeOK, Finite, DraftsSound
  <2> QED  BY <2>1, <2>2
<1> QED  BY <1>1, <1>2, <1>3, <1>4, <1>5

\* The rest of the detection.
LEMMA FoldTyped ==
  ASSUME Typed, NEW a \in Actors, FoldReplies(a) \/ UpdateConversation(a) \/ Finish(a)
  PROVE  Typed'
<1>0. /\ call[a] \in Call /\ call \in [Actors -> Call] /\ conversations \in [Conversations -> Conversation]
      /\ Sound(call[a])
  BY DEF Typed, FollowUpTypeOK
<1>1. CASE FoldReplies(a)
  <2> DEFINE row == conversations[call[a].conversation]
             s == ReplyStateOf(call[a], row)
             c == [call[a] EXCEPT !.pc = "update", !.page = {}, !.seen = row, !.replyState = s]
  <2>1. row \in Conversation /\ IsFiniteSet(row.messages)
    BY <1>0, <1>1 DEF FoldReplies, Sound, Typed, Finite
  <2>2. s \in ReplyStates
    BY DEF ReplyStateOf, DeriveReplyState, ReplyStates
  <2>3. Goto(a, c) /\ UNCHANGED <<world, conversations, drafts, auditLog, aborts>>
    BY <1>1 DEF FoldReplies
  <2> HIDE DEF row, s
  <2>4. c \in Call
    BY <1>0, <2>1, <2>2, CallUpdates DEF Places
  <2>5. Sound(c)
    BY <1>0, <1>1, <2>1, FS_EmptySet DEF FoldReplies, Sound, Call
  <2> QED  BY <2>3, <2>4, <2>5, MoveTyped
<1>2. CASE UpdateConversation(a)
  <2> DEFINE k == call[a].conversation
             seen == call[a].seen
             latest == IF MostRecent(seen) = 0 THEN seen.lastMessageAt ELSE MostRecent(seen)
             kind == IF seen.messages \cap OptOuts # {} THEN "OPT_OUT" ELSE seen.classification
             c == [call[a] EXCEPT !.pc = "finish", !.seen = NoRow]
  <2>1. /\ k \in Conversations /\ seen \in Conversation /\ IsFiniteSet(seen.messages)
        /\ call[a].pc = "update"
    BY <1>0, <1>2, CallFields DEF UpdateConversation, Sound
  <2>2. latest \in Times /\ kind \in {"UNKNOWN", "OPT_OUT"}
    BY <2>1, MostRecentIsATime DEF Conversation
  <2>3. conversations' = [conversations EXCEPT ![k].classification = kind, ![k].lastMessageAt = latest]
    BY <1>2 DEF UpdateConversation
  <2>4. Goto(a, c) /\ UNCHANGED <<world, drafts, auditLog, aborts>>
    BY <1>2 DEF UpdateConversation
  <2> HIDE DEF k, latest, kind
  <2>5. c \in Call
    BY <1>0, Records, CallUpdates DEF Places
  <2>6. Sound(c)
    BY <1>0, <2>1, Records, FS_EmptySet DEF Sound, Call
  <2>7. [[conversations[k] EXCEPT !.classification = kind] EXCEPT !.lastMessageAt = latest]
          \in Conversation
    BY <1>0, <2>1, <2>2 DEF Conversation
  <2>8. /\ conversations' \in [Conversations -> Conversation]
        /\ \A i \in Conversations : conversations'[i].messages = conversations[i].messages
    BY <1>0, <2>1, <2>3, <2>7 DEF Conversation
  <2> HIDE DEF c
  <2> QED  BY <2>4, <2>5, <2>6, <2>8, JobTyped
            DEF Typed, FollowUpTypeOK, Finite, DraftsSound
<1>3. CASE Finish(a)
  <2> DEFINE c == [call[a] EXCEPT !.pc = "eligible"]
  <2>1. call[a].pc = "finish" /\ call[a].prospect \in Prospects /\ call[a].replyState \in ReplyStates
    BY <1>0, <1>3, CallFields DEF Finish, Sound
  <2>2. auditLog' \subseteq Prospects \X Against
    BY <1>3 DEF Finish, Typed, FollowUpTypeOK
  <2>3. c \in Call
    BY <1>0, CallUpdates DEF Places
  <2>4. Sound(c)
    BY <1>0, <2>1 DEF Sound, Call
  <2>5. Goto(a, c) \/ Goto(a, Next1(call[a]))
    BY <1>3 DEF Finish
  <2>6. UNCHANGED <<world, conversations, drafts, aborts>>
    BY <1>3 DEF Finish
  <2>7. PICK n \in Call : Sound(n) /\ Goto(a, n)
    <3> HIDE DEF c
    <3> QED  BY <1>0, <2>3, <2>4, <2>5, NextTyped DEF Sound
  <2> QED  BY <2>2, <2>6, <2>7, JobTyped DEF Typed, FollowUpTypeOK, Finite, DraftsSound
<1> QED  BY <1>1, <1>2, <1>3

\* A transition leads to a state of the lifecycle or nowhere.
LEMMA TransitionStates ==
  ASSUME NEW s \in DraftStates \cup {"NONE"}, NEW t \in Transitions
  PROVE  ApplyTransition(s, t) \in DraftStates \cup {Invalid}
BY DEF ApplyTransition, TransitionTable, IsDuplicateDecision, DraftStates, Transitions

\* What a job or an operator does to a draft leaves what it is about.
LEMMA TransitionTyped ==
  ASSUME Typed, NEW d \in Drafts, NEW t \in Transitions,
         ApplyTransition(drafts[d].status, t) # Invalid,
         drafts' = [drafts EXCEPT ![d].status = ApplyTransition(@, t)]
  PROVE  /\ DraftsSound'
         /\ \A e \in Drafts : /\ drafts'[e].prospect = drafts[e].prospect
                              /\ drafts'[e].step = drafts[e].step
<1> DEFINE s == ApplyTransition(drafts[d].status, t)
<1>1. /\ drafts \in [Drafts -> Draft] /\ drafts[d] \in Draft
      /\ drafts[d].status \in DraftStates \cup {"NONE"}
  BY DEF Typed, FollowUpTypeOK, Draft
<1>2. s \in DraftStates
  BY <1>1, TransitionStates
<1>3. drafts' = [drafts EXCEPT ![d] = [drafts[d] EXCEPT !.status = s]]
  BY <1>1
<1> HIDE DEF s
<1>4. [drafts[d] EXCEPT !.status = s] \in Draft
  BY <1>1, <1>2 DEF Draft
<1>5. /\ drafts' \in [Drafts -> Draft]
      /\ \A e \in Drafts : /\ drafts'[e].prospect = drafts[e].prospect
                           /\ drafts'[e].step = drafts[e].step
  BY <1>1, <1>2, <1>3, <1>4 DEF Draft
<1> QED  BY <1>5 DEF Typed, DraftsSound

\* The step after the last one sent is one that follows another.
LEMMA NextStepFollows ==
  ASSUME Typed, NEW p \in Prospects, HasNextStep(p)
  PROVE  NextStep(p) - 1 \in sent[p] /\ NextStep(p) \in 2..LastStep
<1>1. sent[p] \subseteq 1..LastStep
  BY DEF Typed, FollowUpTypeOK
<1>2. IsFiniteSet(sent[p])
  <2>1. IsFiniteSet(1..LastStep)
    BY Bounds, FS_Interval
  <2> QED  BY <1>1, <2>1, FS_Subset
<1>3. Max(sent[p]) \in sent[p]
  BY <1>1, <1>2, MaxOfFinite, Bounds DEF HasNextStep
<1>4. Max(sent[p]) \in 1..LastStep
  BY <1>1, <1>3
<1> QED  BY <1>3, <1>4, Bounds DEF HasNextStep, NextStep

\* The drafting of the next step.
LEMMA DraftingTyped ==
  ASSUME Typed, NEW a \in Actors,
         \/ Eligible(a) \/ ResolveStep(a) \/ GenerateDraft(a) \/ SubmitForApproval(a)
         \/ \E d \in Drafts : InsertDraft(a, d)
  PROVE  Typed'
<1>0. /\ call[a] \in Call /\ call \in [Actors -> Call] /\ Sound(call[a])
      /\ sent \in [Prospects -> SUBSET (1..LastStep)] /\ drafts \in [Drafts -> Draft]
  BY DEF Typed, FollowUpTypeOK
<1>next. Next1(call[a]) \in Call /\ Sound(Next1(call[a]))
  BY <1>0, NextTyped
<1>1. CASE Eligible(a)
  <2>1. [call[a] EXCEPT !.pc = "resolve"] \in Call
    BY <1>0, CallUpdates DEF Places
  <2>2. Sound([call[a] EXCEPT !.pc = "resolve"])
    BY <1>0, <1>1, <2>1 DEF Eligible, Sound, Call
  <2> QED  BY <1>1, <1>next, <2>1, <2>2, MoveTyped DEF Eligible
<1>2. CASE ResolveStep(a)
  <2> DEFINE step == NextStep(call[a].prospect)
             c == [call[a] EXCEPT !.pc = "generate", !.step = step]
  <2>1. call[a].pc = "resolve" /\ call[a].prospect \in Prospects
    BY <1>0, <1>2 DEF ResolveStep, Sound
  <2>2. (HasNextStep(call[a].prospect) /\ Goto(a, c)) \/ Goto(a, Next1(call[a]))
    BY <1>2 DEF ResolveStep
  <2>3. HasNextStep(call[a].prospect) => step \in 2..LastStep
    BY <2>1, NextStepFollows
  <2>4. UNCHANGED <<world, conversations, drafts, auditLog, aborts>>
    BY <1>2 DEF ResolveStep
  <2> HIDE DEF step
  <2>5. step \in 2..LastStep => c \in Call
    <3>1. step \in 2..LastStep => step \in Nat
      BY Bounds
    <3> QED  BY <1>0, <3>1, CallUpdates DEF Places
  <2>6. step \in 2..LastStep => Sound(c)
    BY <1>0, <2>1 DEF Sound, Call
  <2> QED  BY <1>next, <2>2, <2>3, <2>4, <2>5, <2>6, MoveTyped
<1>3. CASE GenerateDraft(a)
  <2>1. [call[a] EXCEPT !.pc = "insert"] \in Call
    BY <1>0, CallUpdates DEF Places
  <2>2. Sound([call[a] EXCEPT !.pc = "insert"])
    BY <1>0, <1>3, <2>1 DEF GenerateDraft, Sound, Call
  <2>3. ASSUME NEW d \in Drafts
        PROVE  /\ [call[a] EXCEPT !.pc = "submit", !.draft = d] \in Call
               /\ Sound([call[a] EXCEPT !.pc = "submit", !.draft = d])
    <3>1. [call[a] EXCEPT !.pc = "submit", !.draft = d] \in Call
      BY <1>0, CallUpdates DEF Places
    <3> QED  BY <1>0, <1>3, <3>1 DEF GenerateDraft, Sound, Call
  <2>4. PICK c \in Call : Sound(c) /\ Goto(a, c)
    BY <1>3, <1>next, <2>1, <2>2, <2>3 DEF GenerateDraft, OpenDrafts
  <2> QED  BY <1>3, <2>4, MoveTyped DEF GenerateDraft
<1>4. ASSUME NEW d \in Drafts, InsertDraft(a, d) PROVE Typed'
  <2> DEFINE c == [call[a] EXCEPT !.pc = "submit", !.draft = d]
             row == [status |-> "DRAFTED", prospect |-> call[a].prospect, step |-> call[a].step,
                     intent |-> FollowUpIntent(call[a].step)]
  <2>1. call[a].pc = "insert" /\ call[a].prospect \in Prospects /\ call[a].step \in 2..LastStep
    BY <1>0, <1>4 DEF InsertDraft, Sound
  <2>2. row \in Draft
    BY <2>1, Bounds DEF Draft, DraftStates, FollowUpIntent, Intents
  <2>3. drafts' = [drafts EXCEPT ![d] = row] /\ Goto(a, c)
    BY <1>4 DEF InsertDraft
  <2>4. UNCHANGED <<world, conversations, auditLog, aborts>>
    BY <1>4 DEF InsertDraft
  <2>5. c \in Call
    BY <1>0, CallUpdates DEF Places
  <2>6. Sound(c)
    BY <1>0, <2>1 DEF Sound, Call
  <2>7. row.step \in 2..LastStep /\ row.prospect \in Prospects
    BY <2>1
  <2> HIDE DEF c, row
  <2>8. DraftsSound'
    BY <1>0, <2>2, <2>3, <2>7 DEF Typed, DraftsSound
  <2> QED  BY <2>3, <2>4, <2>5, <2>6, <2>8, JobTyped DEF Typed, FollowUpTypeOK, Finite
<1>5. CASE SubmitForApproval(a)
  <2> DEFINE d == call[a].draft
             next == ApplyTransition(drafts[d].status, "SUBMIT_FOR_APPROVAL")
  <2>1. d \in Drafts
    BY <1>0, <1>5 DEF SubmitForApproval, Sound
  <2>2. /\ Goto(a, Next1(call[a])) /\ UNCHANGED <<world, conversations, auditLog, aborts>>
        /\ drafts' = IF next = Invalid THEN drafts ELSE [drafts EXCEPT ![d].status = next]
    BY <1>5 DEF SubmitForApproval
  <2>3. DraftsSound'
    <3>1. CASE next = Invalid
      <4>1. drafts' = drafts
        BY <2>2, <3>1, SMTT(30)
      <4> QED  BY <4>1 DEF Typed, DraftsSound
    <3>2. CASE next # Invalid
      BY <2>1, <2>2, <3>2, TransitionTyped DEF Transitions
    <3> QED  BY <3>1, <3>2
  <2> QED  BY <1>next, <2>2, <2>3, JobTyped DEF Typed, FollowUpTypeOK, Finite
<1> QED  BY <1>1, <1>2, <1>3, <1>4, <1>5

\* The record of a send goes to the latest conversation, or to a row that was nobody's.
LEMMA RecordSendEffect ==
  ASSUME Typed, NEW p \in Prospects, RecordSend(p)
  PROVE  \E c \in Conversations :
           /\ \/ c \in LatestConversations(p)
              \/ LatestConversations(p) = {} /\ conversations[c].prospect = NoProspect
           /\ conversations' \in [Conversations -> Conversation]
           /\ conversations'[c].prospect = p
           /\ conversations'[c].messages = conversations[c].messages
           /\ conversations'[c].classification = conversations[c].classification
           /\ \A i \in Conversations \ {c} : conversations'[i] = conversations[i]
<1> DEFINE now == 2 * Max(inbox[p] \cup {0}) + 1
<1>1. conversations \in [Conversations -> Conversation] /\ inbox \in [Prospects -> SUBSET Messages]
      /\ IsFiniteSet(inbox[p])
  BY DEF Typed, FollowUpTypeOK, Finite
<1>2. now \in Times
  <2>1. inbox[p] \cup {0} \in SUBSET Int /\ inbox[p] \cup {0} # {}
    <3>1. inbox[p] \subseteq Messages /\ Messages \subseteq Int
      BY <1>1, Bounds
    <3>2. \A x \in inbox[p] \cup {0} : x \in Int
      <4>1. \A x : x \in inbox[p] => x \in Int
        BY <3>1
      <4>2. 0 \in Int
        OBVIOUS
      <4> QED  BY <4>1, <4>2, Zenon
    <3>3. 0 \in inbox[p] \cup {0}
      OBVIOUS
    <3> QED  BY <3>2, <3>3
  <2>2. IsFiniteSet(inbox[p] \cup {0})
    BY <1>1, FS_AddElement
  <2>3. Max(inbox[p] \cup {0}) \in inbox[p] \cup {0}
    BY <2>1, <2>2, MaxOfFinite
  <2> QED  BY <1>1, <2>3 DEF Times
<1>3. PICK c \in Conversations :
        /\ \/ c \in LatestConversations(p)
           \/ LatestConversations(p) = {} /\ conversations[c].prospect = NoProspect
        /\ conversations' = [conversations EXCEPT ![c].prospect = p, ![c].outbound = now,
                                                  ![c].lastMessageAt = now]
  BY DEF RecordSend, LatestConversations
<1> HIDE DEF now
<1> DEFINE row == [[[conversations[c] EXCEPT !.prospect = p] EXCEPT !.outbound = now]
                     EXCEPT !.lastMessageAt = now]
<1>4. row \in Conversation
  BY <1>1, <1>2 DEF Conversation
<1>5. /\ row.prospect = p /\ row.messages = conversations[c].messages
      /\ row.classification = conversations[c].classification
  BY <1>1 DEF Conversation
<1>6. conversations' = [conversations EXCEPT ![c] = row]
  BY <1>1, <1>3
<1> HIDE DEF row
<1>7. /\ conversations' \in [Conversations -> Conversation] /\ conversations'[c] = row
      /\ \A i \in Conversations \ {c} : conversations'[i] = conversations[i]
  BY <1>1, <1>4, <1>6
<1> QED  BY <1>3, <1>5, <1>7

LEMMA EnvironmentTyped ==
  ASSUME Typed, Environment
  PROVE  Typed'
<1>0. /\ inbox \in [Prospects -> SUBSET Messages]
      /\ {sent, everSent} \subseteq [Prospects -> SUBSET (1..LastStep)]
      /\ conversations \in [Conversations -> Conversation] /\ drafts \in [Drafts -> Draft]
  BY DEF Typed, FollowUpTypeOK
<1>1. ASSUME NEW p \in Prospects, Stop(p) PROVE Typed'
  BY <1>1 DEF Stop, Typed, FollowUpTypeOK, Finite, DraftsSound
<1>2. ASSUME NEW p \in Prospects, NEW step \in 1..LastStep, TurnedBack(p, step) PROVE Typed'
  <2>1. sent' \in [Prospects -> SUBSET (1..LastStep)]
    BY <1>0, <1>2 DEF TurnedBack
  <2> QED  BY <1>2, <2>1 DEF TurnedBack, Typed, FollowUpTypeOK, Finite, DraftsSound
<1>3. ASSUME NEW p \in Prospects, NEW step \in 1..LastStep, Sent(p, step) PROVE Typed'
  <2>1. {sent', everSent'} \subseteq [Prospects -> SUBSET (1..LastStep)]
    BY <1>0, <1>3 DEF Sent
  <2>2. /\ conversations' \in [Conversations -> Conversation]
        /\ \A c \in Conversations : conversations'[c].messages = conversations[c].messages
    <3>1. CASE RecordSend(p)
      BY <3>1, RecordSendEffect
    <3>2. CASE UNCHANGED conversations
      BY <1>0, <3>2
    <3> QED  BY <1>3, <3>1, <3>2 DEF Sent
  <2>3. aborts' \in 0..MaxAborts /\ UNCHANGED <<inbox, stopped, drafts, auditLog, call>>
    BY <1>3, Bounds DEF Sent, Typed, FollowUpTypeOK
  <2> QED  BY <2>1, <2>2, <2>3 DEF Typed, FollowUpTypeOK, Finite, DraftsSound
<1>4. ASSUME NEW p \in Prospects, NEW m \in Messages, Reply(p, m) PROVE Typed'
  <2>1. IsFiniteSet(inbox[p] \cup {m})
    BY FS_AddElement DEF Typed, Finite
  <2>2. inbox' \in [Prospects -> SUBSET Messages] /\ \A q \in Prospects : IsFiniteSet(inbox'[q])
    BY <1>0, <1>4, <2>1 DEF Reply, Typed, Finite
  <2> QED  BY <1>4, <2>2 DEF Reply, Typed, FollowUpTypeOK, Finite, DraftsSound
<1>5. ASSUME NEW p \in Prospects, NEW d \in Drafts, DraftOriginal(p, d) PROVE Typed'
  <2> DEFINE row == [[NoDraftYet EXCEPT !.status = "DRAFTED"] EXCEPT !.prospect = p]
  <2>1. row \in Draft /\ row.step = 0
    BY Records DEF Draft, DraftStates
  <2>2. drafts' = [drafts EXCEPT ![d] = row] /\ UNCHANGED <<world, conversations, auditLog, call, aborts>>
    BY <1>5 DEF DraftOriginal
  <2>3. row.prospect = p
    BY Records DEF Draft
  <2> HIDE DEF row
  <2>4. DraftsSound'
    BY <1>0, <2>1, <2>2 DEF Typed, DraftsSound
  <2> QED  BY <2>2, <2>4 DEF world, Typed, FollowUpTypeOK, Finite, DraftsSound
<1>6. ASSUME NEW d \in Drafts, NEW t \in Transitions, Decide(d, t) PROVE Typed'
  <2>1. /\ drafts' = [drafts EXCEPT ![d].status = ApplyTransition(@, t)]
        /\ ApplyTransition(drafts[d].status, t) # Invalid
        /\ UNCHANGED <<world, conversations, auditLog, call, aborts>>
    BY <1>6 DEF Decide
  <2>2. DraftsSound'
    BY <2>1, TransitionTyped
  <2> QED  BY <2>1, <2>2 DEF world, Typed, FollowUpTypeOK, Finite, DraftsSound
<1> QED  BY <1>1, <1>2, <1>3, <1>4, <1>5, <1>6 DEF Environment

LEMMA TypedStep ==
  ASSUME Typed, [Next]_vars
  PROVE  Typed'
<1>1. CASE Environment
  BY <1>1, EnvironmentTyped
<1>2. ASSUME NEW a \in Actors, Step(a) PROVE Typed'
  BY <1>2, LoopTyped, DetectionTyped, FoldTyped, DraftingTyped DEF Step
<1>3. CASE UNCHANGED vars
  BY <1>3 DEF vars, world, Typed, FollowUpTypeOK, Finite, DraftsSound
<1> QED  BY <1>1, <1>2, <1>3 DEF Next

\* Every row and every job in progress keeps the fields the code gives it, and no follow-up is
\* drafted for the first message or past the sequence's last step, however many jobs overlap.
THEOREM TypeCorrect == Spec => []FollowUpTypeOK
<1>1. Typed => FollowUpTypeOK
  BY DEF Typed
<1> QED  BY <1>1, TypedInit, TypedStep, PTL DEF Spec
-----------------------------------------------------------------------------
(* The order of the steps, for any number of jobs at a time.                 *)

\* Every step before this one was recorded as sent to p at some time.
Reached(p, step) == \A j \in 1..LastStep : j < step => j \in everSent[p]

\* What is 'sent' has been, though it need not stay so; and a step is sent only after those before
\* it were, because its draft was made after them.
StepsFollow ==
  /\ \A d \in Drafts : Reached(drafts[d].prospect, drafts[d].step)
  /\ \A p \in Prospects : sent[p] \subseteq everSent[p]
  /\ \A p \in Prospects : \A k \in everSent[p] : Reached(p, k)
  /\ \A a \in Actors : call[a].pc \in {"generate", "insert"} =>
       Reached(call[a].prospect, call[a].step)

LEMMA StepsInit == Init => StepsFollow
<1> SUFFICES ASSUME Init PROVE StepsFollow  OBVIOUS
<1>1. /\ \A d \in Drafts : drafts[d].step = 0
      /\ \A p \in Prospects : sent[p] = {} /\ everSent[p] = {}
      /\ \A a \in Actors : call[a].pc = "idle"
  BY Records DEF Init
<1>2. \A j \in 1..LastStep : ~(j < 0)
  BY Bounds
<1> QED  BY <1>1, <1>2 DEF StepsFollow, Reached

\* Only three steps of a job lead to the drafting of a step.
LEMMA ElsewhereNoDraft ==
  ASSUME Typed, NEW a \in Actors, Step(a),
         call'[a].pc \in {"generate", "insert"} \/ \E d \in Drafts : InsertDraft(a, d)
  PROVE  ResolveStep(a) \/ GenerateDraft(a) \/ \E d \in Drafts : InsertDraft(a, d)
<1> DEFINE Away == call'[a].pc \notin {"generate", "insert"}
<1>0. call \in [Actors -> Call] /\ call[a] \in Call
  BY DEF Typed, FollowUpTypeOK
<1>pc. "pc" \in DOMAIN call[a]
  BY <1>0 DEF Call
<1>next. ASSUME NEW c, Goto(a, Next1(c)) PROVE Away
  BY <1>0, <1>next, Records DEF Goto, Next1, Idle
<1>idle. ASSUME Goto(a, Idle) PROVE Away
  BY <1>0, <1>idle, Records DEF Goto
<1>1. ASSUME NEW job \in Jobs, Start(a, job) PROVE Away
  BY <1>0, <1>1 DEF Start, Goto, Idle
<1>2. CASE NextCandidate(a)
  BY <1>0, <1>2, <1>next, NextCandidateEffect DEF TakenUp, Goto
<1>3. CASE JobEnds(a) \/ Abort(a)
  BY <1>3, <1>next, <1>idle DEF JobEnds, Abort
<1>4. CASE Detect(a) \/ FetchFails(a) \/ \E page \in SUBSET Messages : FetchPage(a, page)
  <2>1. CASE Detect(a)
    <3>1. \/ \E s : Goto(a, [call[a] EXCEPT !.pc = "finish", !.replyState = s])
          \/ Goto(a, [call[a] EXCEPT !.pc = "fetch"])
      BY <2>1 DEF Detect
    <3> QED  BY <1>0, <1>pc, <3>1 DEF Goto
  <2>2. CASE FetchFails(a)
    BY <1>0, <1>pc, <2>2 DEF FetchFails, Goto
  <2>3. CASE \E page \in SUBSET Messages : FetchPage(a, page)
    BY <1>0, <1>pc, <2>3 DEF FetchPage, Goto
  <2> QED  BY <1>4, <2>1, <2>2, <2>3
<1>5. CASE FindConversation(a) \/ \E k \in Conversations : CreateConversation(a, k)
  <2>1. \/ \E k : Goto(a, [call[a] EXCEPT !.pc = "store", !.conversation = k])
        \/ Goto(a, [call[a] EXCEPT !.pc = "create"])
    BY <1>5 DEF FindConversation, CreateConversation
  <2> QED  BY <1>0, <1>pc, <2>1 DEF Goto
<1>6. CASE StoreMessage(a)
  BY <1>0, <1>pc, <1>6 DEF StoreMessage, Goto
<1>7. CASE FoldReplies(a) \/ UpdateConversation(a)
  <2>1. \/ \E row, s : Goto(a, [call[a] EXCEPT !.pc = "update", !.page = {}, !.seen = row,
                                                !.replyState = s])
        \/ Goto(a, [call[a] EXCEPT !.pc = "finish", !.seen = NoRow])
    BY <1>7 DEF FoldReplies, UpdateConversation
  <2> QED  BY <1>0, <1>pc, <2>1 DEF Goto
<1>8. CASE Finish(a)
  BY <1>0, <1>pc, <1>8, <1>next DEF Finish, Goto
<1>9. CASE Eligible(a) \/ SubmitForApproval(a)
  BY <1>0, <1>pc, <1>9, <1>next DEF Eligible, SubmitForApproval, Goto
<1>10. CASE \E d \in Drafts : InsertDraft(a, d)
  BY <1>10
<1> QED
  BY <1>1, <1>2, <1>3, <1>4, <1>5, <1>6, <1>7, <1>8, <1>9, <1>10 DEF Step

\* A job changes nothing of the world, and no other job.
LEMMA JobFrame ==
  ASSUME Typed, NEW a \in Actors, Step(a)
  PROVE  UNCHANGED world /\ \A b \in Actors \ {a} : call'[b] = call[b]
<1>0. call \in [Actors -> Call]
  BY DEF Typed, FollowUpTypeOK
<1>1. UNCHANGED world /\ (UNCHANGED call \/ \E c : Goto(a, c))
  <2>1. CASE (\E job \in Jobs : Start(a, job)) \/ NextCandidate(a) \/ JobEnds(a) \/ Abort(a)
    BY <2>1 DEF Start, NextCandidate, JobEnds, Abort
  <2>2. CASE Detect(a) \/ FetchFails(a) \/ \E page \in SUBSET Messages : FetchPage(a, page)
    <3>1. CASE Detect(a)
      BY <3>1 DEF Detect
    <3>2. CASE FetchFails(a) \/ \E page \in SUBSET Messages : FetchPage(a, page)
      BY <3>2, ZenonT(40) DEF FetchFails, FetchPage
    <3> QED  BY <2>2, <3>1, <3>2
  <2>3. CASE \/ FindConversation(a) \/ \E c \in Conversations : CreateConversation(a, c)
             \/ StoreMessage(a)
    BY <2>3 DEF FindConversation, CreateConversation, StoreMessage
  <2>4. CASE FoldReplies(a) \/ UpdateConversation(a) \/ Finish(a)
    BY <2>4, SMTT(30) DEF FoldReplies, UpdateConversation, Finish
  <2>5. CASE Eligible(a) \/ ResolveStep(a) \/ GenerateDraft(a) \/ SubmitForApproval(a)
    BY <2>5 DEF Eligible, ResolveStep, GenerateDraft, SubmitForApproval
  <2>6. CASE \E d \in Drafts : InsertDraft(a, d)
    BY <2>6 DEF InsertDraft
  <2> QED  BY <2>1, <2>2, <2>3, <2>4, <2>5, <2>6 DEF Step
<1> QED  BY <1>0, <1>1 DEF Goto

\* No step of a job but the insert and the submission touches a draft.
LEMMA DraftsFrame ==
  ASSUME Typed, NEW a \in Actors, Step(a)
  PROVE  \/ UNCHANGED drafts
         \/ \E d \in Drafts : InsertDraft(a, d)
         \/ \A d \in Drafts : /\ drafts'[d].prospect = drafts[d].prospect
                              /\ drafts'[d].step = drafts[d].step
<1>1. CASE \/ (\E job \in Jobs : Start(a, job)) \/ NextCandidate(a) \/ JobEnds(a) \/ Abort(a)
           \/ Detect(a) \/ FetchFails(a) \/ \E page \in SUBSET Messages : FetchPage(a, page)
  <2>1. CASE \/ (\E job \in Jobs : Start(a, job)) \/ NextCandidate(a) \/ JobEnds(a) \/ Abort(a)
    BY <2>1 DEF Start, NextCandidate, JobEnds, Abort
  <2>2. CASE Detect(a)
    BY <2>2 DEF Detect
  <2>3. CASE FetchFails(a) \/ \E page \in SUBSET Messages : FetchPage(a, page)
    BY <2>3, ZenonT(40) DEF FetchFails, FetchPage
  <2> QED  BY <1>1, <2>1, <2>2, <2>3
<1>2. CASE \/ FindConversation(a) \/ (\E c \in Conversations : CreateConversation(a, c))
           \/ StoreMessage(a) \/ FoldReplies(a) \/ UpdateConversation(a) \/ Finish(a)
  BY <1>2 DEF FindConversation, CreateConversation, StoreMessage, FoldReplies, UpdateConversation,
              Finish
<1>3. CASE Eligible(a) \/ ResolveStep(a) \/ GenerateDraft(a)
  BY <1>3 DEF Eligible, ResolveStep, GenerateDraft
<1>4. CASE SubmitForApproval(a)
  <2>1. call[a].draft \in Drafts
    BY <1>4 DEF SubmitForApproval, Typed, Sound
  <2>2. CASE ApplyTransition(drafts[call[a].draft].status, "SUBMIT_FOR_APPROVAL") = Invalid
    <3>1. drafts' = drafts
      BY <1>4, <2>2, SMTT(30) DEF SubmitForApproval
    <3> QED  BY <3>1
  <2>3. CASE ApplyTransition(drafts[call[a].draft].status, "SUBMIT_FOR_APPROVAL") # Invalid
    BY <1>4, <2>1, <2>3, TransitionTyped DEF SubmitForApproval, Transitions
  <2> QED  BY <2>2, <2>3
<1>5. CASE \E d \in Drafts : InsertDraft(a, d)
  BY <1>5
<1> QED  BY <1>1, <1>2, <1>3, <1>4, <1>5 DEF Step

LEMMA StepsStep ==
  ASSUME Typed, StepsFollow, [Next]_vars
  PROVE  StepsFollow'
<1>0. /\ {sent, everSent} \subseteq [Prospects -> SUBSET (1..LastStep)]
      /\ drafts \in [Drafts -> Draft]
      /\ call \in [Actors -> Call] /\ \A a \in Actors : call[a] \in Call
  BY DEF Typed, FollowUpTypeOK
<1>1. ASSUME NEW a \in Actors, Step(a) PROVE StepsFollow'
  <2>1. UNCHANGED <<sent, everSent>> /\ \A b \in Actors \ {a} : call'[b] = call[b]
    BY <1>1, JobFrame DEF world
  <2>2. call'[a].pc \in {"generate", "insert"} => Reached(call'[a].prospect, call'[a].step)
    <3> SUFFICES ASSUME call'[a].pc \in {"generate", "insert"}
                 PROVE  Reached(call'[a].prospect, call'[a].step)
      OBVIOUS
    <3>1. CASE ResolveStep(a)
      <4> DEFINE p == call[a].prospect
                 c == [call[a] EXCEPT !.pc = "generate", !.step = NextStep(p)]
      <4>1. p \in Prospects
        BY <3>1 DEF ResolveStep, Typed, Sound
      <4>2. ~Goto(a, Next1(call[a]))
        BY <1>0, NextTyped DEF Goto
      <4>3. HasNextStep(p) /\ Goto(a, c)
        BY <3>1, <4>2 DEF ResolveStep
      <4>4. NextStep(p) - 1 \in everSent[p] /\ Reached(p, NextStep(p) - 1)
        BY <4>1, <4>3, NextStepFollows DEF StepsFollow
      <4>5. Reached(p, NextStep(p))
        <5>1. NextStep(p) \in 2..LastStep
          BY <4>1, <4>3, NextStepFollows
        <5>2. \A j \in 1..LastStep : j < NextStep(p) => j < NextStep(p) - 1 \/ j = NextStep(p) - 1
          BY <5>1, Bounds
        <5> QED  BY <4>4, <5>2 DEF Reached
      <4>6. call'[a].prospect = p /\ call'[a].step = NextStep(p)
        <5>1. c.prospect = p /\ c.step = NextStep(p)
          BY <1>0 DEF Call
        <5>2. call'[a] = c
          BY <1>0, <4>3 DEF Goto
        <5> QED  BY <5>1, <5>2
      <4> QED  BY <4>5, <4>6
    <3>2. CASE GenerateDraft(a)
      <4>1. call[a].pc = "generate"
        BY <3>2 DEF GenerateDraft
      <4>2. call'[a] = [call[a] EXCEPT !.pc = "insert"]
        <5>1. ~Goto(a, Next1(call[a]))
          BY <1>0, NextTyped DEF Goto
        <5>2. ASSUME NEW d, Goto(a, [call[a] EXCEPT !.pc = "submit", !.draft = d]) PROVE FALSE
          <6>1. [call[a] EXCEPT !.pc = "submit", !.draft = d].pc = "submit"
            BY <1>0 DEF Call
          <6> QED  BY <1>0, <5>2, <6>1 DEF Goto
        <5> QED  BY <1>0, <3>2, <5>1, <5>2 DEF GenerateDraft, Goto
      <4>3. call'[a].prospect = call[a].prospect /\ call'[a].step = call[a].step
        BY <1>0, <4>2 DEF Call
      <4>4. Reached(call[a].prospect, call[a].step)
        BY <4>1 DEF StepsFollow
      <4> QED  BY <4>3, <4>4
    <3>3. CASE \E d \in Drafts : InsertDraft(a, d)
      BY <1>0, <3>3 DEF InsertDraft, Goto, Call
    <3> QED  BY <1>1, <3>1, <3>2, <3>3, ElsewhereNoDraft
  <2>3. \A d \in Drafts : Reached(drafts'[d].prospect, drafts'[d].step)
    <3>1. CASE UNCHANGED drafts
      BY <3>1 DEF StepsFollow
    <3>2. ASSUME NEW d \in Drafts, InsertDraft(a, d)
          PROVE  \A e \in Drafts : Reached(drafts'[e].prospect, drafts'[e].step)
      <4>1. /\ drafts'[d].prospect = call[a].prospect /\ drafts'[d].step = call[a].step
            /\ \A e \in Drafts \ {d} : drafts'[e] = drafts[e]
        BY <1>0, <3>2 DEF InsertDraft
      <4>2. Reached(call[a].prospect, call[a].step)
        BY <3>2 DEF InsertDraft, StepsFollow
      <4>3. Reached(drafts'[d].prospect, drafts'[d].step)
        BY <4>1, <4>2
      <4> QED  BY <4>1, <4>3 DEF StepsFollow
    <3>3. CASE \A d \in Drafts : /\ drafts'[d].prospect = drafts[d].prospect
                                 /\ drafts'[d].step = drafts[d].step
      BY <3>3 DEF StepsFollow
    <3> QED  BY <1>1, <3>1, <3>2, <3>3, DraftsFrame
  <2>4. \A b \in Actors : call'[b].pc \in {"generate", "insert"} =>
          Reached(call'[b].prospect, call'[b].step)
    BY <2>1, <2>2 DEF StepsFollow
  <2> QED  BY <2>1, <2>3, <2>4 DEF StepsFollow, Reached
<1>2. CASE Environment
  <2>1. /\ UNCHANGED call
        /\ \A p \in Prospects : /\ everSent[p] \subseteq everSent'[p]
                                /\ sent'[p] \subseteq everSent'[p]
                                /\ \A k \in everSent'[p] : Reached(p, k)'
    <3>1. ASSUME NEW p \in Prospects, NEW step \in 1..LastStep, Sent(p, step)
          PROVE  /\ UNCHANGED call
                 /\ \A q \in Prospects : /\ everSent[q] \subseteq everSent'[q]
                                         /\ sent'[q] \subseteq everSent'[q]
                                         /\ \A k \in everSent'[q] : Reached(q, k)'
      <4>1. /\ sent' = [sent EXCEPT ![p] = @ \cup {step}]
            /\ everSent' = [everSent EXCEPT ![p] = @ \cup {step}] /\ UNCHANGED call
        BY <3>1 DEF Sent
      <4>2. \A q \in Prospects : everSent[q] \subseteq everSent'[q]
        BY <1>0, <4>1
      <4>3. \A q \in Prospects : sent'[q] \subseteq everSent'[q]
        BY <1>0, <4>1 DEF StepsFollow
      <4>4. Reached(p, step)
        <5>1. CASE step = 1
          <6>1. \A j \in 1..LastStep : ~(j < 1)
            BY Bounds
          <6> QED  BY <5>1, <6>1 DEF Reached
        <5>2. ASSUME NEW d \in Drafts, drafts[d].prospect = p, drafts[d].step = step
              PROVE  Reached(p, step)
          BY <5>2 DEF StepsFollow
        <5> QED  BY <3>1, <5>1, <5>2 DEF Sent, MaySend
      <4>5. \A q \in Prospects : \A k : Reached(q, k) => Reached(q, k)'
        BY <4>2 DEF Reached
      <4>6. ASSUME NEW q \in Prospects, NEW k \in everSent'[q] PROVE Reached(q, k)'
        <5>1. k \in everSent[q] \/ (q = p /\ k = step)
          BY <1>0, <4>1
        <5>2. Reached(q, k)
          BY <4>4, <5>1 DEF StepsFollow
        <5> QED  BY <4>5, <5>2
      <4> QED  BY <4>1, <4>2, <4>3, <4>6
    <3>2. ASSUME NEW p \in Prospects, NEW step \in 1..LastStep, TurnedBack(p, step)
          PROVE  /\ UNCHANGED <<call, everSent>>
                 /\ \A q \in Prospects : sent'[q] \subseteq everSent[q]
      BY <1>0, <3>2 DEF TurnedBack, StepsFollow
    <3>3. CASE UNCHANGED <<call, everSent>> /\ \A q \in Prospects : sent'[q] \subseteq everSent[q]
      BY <3>3 DEF StepsFollow, Reached
    <3>4. UNCHANGED <<call, sent, everSent>> =>
            UNCHANGED <<call, everSent>> /\ \A q \in Prospects : sent'[q] \subseteq everSent[q]
      BY DEF StepsFollow
    <3> QED  BY <1>2, <3>1, <3>2, <3>3, <3>4
             DEF Environment, Stop, Reply, DraftOriginal, Decide, world
  <2>2. ASSUME NEW d \in Drafts
        PROVE  \/ drafts'[d].step = 0
               \/ drafts'[d].prospect = drafts[d].prospect /\ drafts'[d].step = drafts[d].step
    <3>1. ASSUME NEW e \in Drafts, NEW t \in Transitions, Decide(e, t)
          PROVE  drafts'[d].prospect = drafts[d].prospect /\ drafts'[d].step = drafts[d].step
      BY <3>1, TransitionTyped DEF Decide
    <3>2. ASSUME NEW p \in Prospects, NEW e \in Drafts, DraftOriginal(p, e)
          PROVE  \/ drafts'[d].step = 0
                 \/ drafts'[d].prospect = drafts[d].prospect /\ drafts'[d].step = drafts[d].step
      <4> DEFINE row == [NoDraftYet EXCEPT !.status = "DRAFTED", !.prospect = p]
      <4>1. row.step = 0
        BY Records DEF NoDraftYet
      <4>2. drafts' = [drafts EXCEPT ![e] = row]
        BY <3>2 DEF DraftOriginal
      <4> HIDE DEF row
      <4> QED  BY <1>0, <4>1, <4>2
    <3> QED  BY <1>2, <3>1, <3>2 DEF Environment, Stop, Sent, TurnedBack, Reply
  <2>3. \A p \in Prospects : \A step : Reached(p, step) => Reached(p, step)'
    BY <2>1 DEF Reached
  <2>4. ASSUME NEW d \in Drafts PROVE Reached(drafts[d].prospect, drafts[d].step)'
    <3>1. CASE drafts'[d].step = 0
      <4>1. \A j \in 1..LastStep : ~(j < 0)
        BY Bounds
      <4> QED  BY <3>1, <4>1 DEF Reached
    <3>2. CASE /\ drafts'[d].prospect = drafts[d].prospect /\ drafts'[d].step = drafts[d].step
               /\ drafts[d].step # 0
      <4>0. drafts[d].prospect \in Prospects
        BY <3>2 DEF Typed, DraftsSound
      <4>1. PICK p \in Prospects : p = drafts[d].prospect
        BY <4>0
      <4>2. PICK k : k = drafts[d].step
        OBVIOUS
      <4>3. Reached(p, k)'
        BY <2>3, <4>1, <4>2 DEF StepsFollow
      <4> QED  BY <3>2, <4>1, <4>2, <4>3 DEF Reached
    <3> QED  BY <2>2, <3>1, <3>2
  <2>5. ASSUME NEW a \in Actors, call[a].pc \in {"generate", "insert"}
        PROVE  Reached(call[a].prospect, call[a].step)'
    <3>1. PICK p \in Prospects : p = call[a].prospect
      BY <2>5 DEF Typed, Sound
    <3>2. PICK k : k = call[a].step
      OBVIOUS
    <3>3. Reached(p, k)'
      BY <2>3, <2>5, <3>1, <3>2 DEF StepsFollow
    <3> QED  BY <2>1, <3>1, <3>2, <3>3 DEF Reached
  <2> QED  BY <2>1, <2>4, <2>5 DEF StepsFollow
<1>3. CASE UNCHANGED vars
  BY <1>3 DEF vars, world, StepsFollow, Reached
<1> QED  BY <1>1, <1>2, <1>3 DEF Next

\* A follow-up for a step is drafted only after the message of every step before it was recorded
\* as sent at some time, whatever jobs, sends and crashes overtake one another, and though a later
\* failure may have turned such a row back to 'failed' since.
THEOREM StepsAreNeverSkipped == Spec => []FollowUpsContinueTheSequence
<1>1. StepsFollow => FollowUpsContinueTheSequence
  BY DEF StepsFollow, Reached, FollowUpsContinueTheSequence
<1> QED  BY <1>1, TypedInit, TypedStep, StepsInit, StepsStep, PTL DEF Spec
-----------------------------------------------------------------------------
(* One conversation for each prospect, when one job runs at a time.          *)

HasConversation(p) == \E c \in Conversations : conversations[c].prospect = p

\* A prospect's messages are all kept in one place: a detection opens a conversation only when there
\* was none, and no send records its message between that look-up and the insert.
OneConversationEach ==
  \A c, k \in Conversations :
    conversations[c].prospect = conversations[k].prospect
      /\ conversations[c].prospect \in Prospects => c = k

InAConversation(c) ==
  /\ c.pc = "create" => ~HasConversation(c.prospect)
  /\ c.pc \in {"store", "fold", "update"} => conversations[c.conversation].prospect = c.prospect

OneConversation == OneConversationEach /\ \A a \in Actors : InAConversation(call[a])

LEMMA OneConversationInit == Init => OneConversation
<1> SUFFICES ASSUME Init PROVE OneConversation  OBVIOUS
<1>1. /\ \A c \in Conversations : conversations[c].prospect = NoProspect
      /\ \A a \in Actors : call[a].pc = "idle"
  BY Records DEF Init
<1>2. NoProspect \notin Prospects
  BY NothingAssumption
<1> QED  BY <1>1, <1>2 DEF OneConversation, OneConversationEach, InAConversation

LEMMA LatestIsTheOne ==
  ASSUME Typed, OneConversationEach, NEW p \in Prospects, NEW c \in Conversations,
         conversations[c].prospect = p
  PROVE  LatestConversations(p) = {c}
<1>1. conversations[c].lastMessageAt \in Int
  BY TimesAreNumbers DEF Typed, FollowUpTypeOK, Conversation
<1>2. \A k \in Conversations : conversations[k].prospect = p => k = c
  BY DEF OneConversationEach
<1>3. conversations[c].lastMessageAt <= conversations[c].lastMessageAt
  BY <1>1
<1> QED  BY <1>2, <1>3 DEF LatestConversations

\* Nobody's conversation is left: what a job or a send does only adds to what there is.
LEMMA NoLatestMeansNone ==
  ASSUME Typed, OneConversationEach, NEW p \in Prospects
  PROVE  HasConversation(p) <=> LatestConversations(p) # {}
BY LatestIsTheOne DEF HasConversation, LatestConversations

LEMMA OneConversationJob ==
  ASSUME Typed, OneConversation, NEW a \in Actors, Step(a), \A b \in Actors : b = a
  PROVE  OneConversation'
<1>0. /\ call \in [Actors -> Call] /\ call[a] \in Call /\ Sound(call[a])
      /\ conversations \in [Conversations -> Conversation]
      /\ InAConversation(call[a]) /\ OneConversationEach /\ NoProspect \notin Prospects
  BY NothingAssumption DEF Typed, FollowUpTypeOK, OneConversation
<1>one. ASSUME OneConversationEach', InAConversation(call[a])' PROVE OneConversation'
  BY <1>one DEF OneConversation
\* A job that does not touch the conversations, and one that goes where nothing is asked of it.
<1>quiet. ASSUME UNCHANGED conversations, InAConversation(call[a])' PROVE OneConversation'
  BY <1>0, <1>quiet, <1>one DEF OneConversationEach
<1>away. ASSUME UNCHANGED conversations, call'[a].pc \notin {"create", "store", "fold", "update"}
         PROVE  OneConversation'
  BY <1>away, <1>quiet DEF InAConversation
<1>next. ASSUME NEW n, Goto(a, Next1(n)) PROVE call'[a].pc = "next"
  BY <1>0, <1>next, Records DEF Goto, Next1, Idle
<1>1. CASE (\E job \in Jobs : Start(a, job)) \/ JobEnds(a) \/ Abort(a)
  <2>1. call'[a].pc \in {"idle", "next"}
    <3>1. Goto(a, Idle) => call'[a].pc = "idle"
      BY <1>0, Records DEF Goto
    <3>2. ASSUME NEW job \in Jobs, Start(a, job) PROVE call'[a].pc = "next"
      BY <1>0, <3>2 DEF Start, Goto, Idle
    <3>3. CASE JobEnds(a) \/ Abort(a)
      BY <3>1, <3>3, <1>next DEF JobEnds, Abort
    <3> QED  BY <1>1, <3>2, <3>3
  <2> QED  BY <1>1, <1>away, <2>1 DEF Start, JobEnds, Abort
<1>2. CASE NextCandidate(a)
  <2>1. call'[a].pc \in {"next", "detect"}
    BY <1>0, <1>2, <1>next, NextCandidateEffect DEF TakenUp, Goto
  <2> QED  BY <1>2, <1>away, <2>1 DEF NextCandidate
<1>3. CASE Detect(a) \/ FetchFails(a) \/ \E page \in SUBSET Messages : FetchPage(a, page)
  <2>1. call'[a].pc \in {"finish", "fetch", "conversation"}
    <3>1. \/ \E s : Goto(a, [call[a] EXCEPT !.pc = "finish", !.replyState = s])
          \/ Goto(a, [call[a] EXCEPT !.pc = "fetch"])
          \/ \E page : Goto(a, [call[a] EXCEPT !.pc = "conversation", !.page = page])
      BY <1>3 DEF Detect, FetchFails, FetchPage
    <3>2. ASSUME NEW s, Goto(a, [call[a] EXCEPT !.pc = "finish", !.replyState = s])
          PROVE  call'[a].pc = "finish"
      BY <1>0, <3>2 DEF Goto, Call
    <3>3. Goto(a, [call[a] EXCEPT !.pc = "fetch"]) => call'[a].pc = "fetch"
      BY <1>0 DEF Goto, Call
    <3>4. ASSUME NEW page, Goto(a, [call[a] EXCEPT !.pc = "conversation", !.page = page])
          PROVE  call'[a].pc = "conversation"
      BY <1>0, <3>4 DEF Goto, Call
    <3> QED  BY <3>1, <3>2, <3>3, <3>4
  <2> QED  BY <1>3, <1>away, <2>1 DEF Detect, FetchFails, FetchPage
<1>4. CASE FindConversation(a)
  <2>1. call[a].prospect \in Prospects
    BY <1>0, <1>4 DEF FindConversation, Sound
  <2>2. \/ \E k \in LatestConversations(call[a].prospect) :
             Goto(a, [call[a] EXCEPT !.pc = "store", !.conversation = k])
        \/ /\ LatestConversations(call[a].prospect) = {}
           /\ Goto(a, [call[a] EXCEPT !.pc = "create"])
    BY <1>4 DEF FindConversation
  <2>3. UNCHANGED conversations
    BY <1>4 DEF FindConversation
  <2>4. ASSUME NEW k \in LatestConversations(call[a].prospect),
               Goto(a, [call[a] EXCEPT !.pc = "store", !.conversation = k])
        PROVE  InAConversation(call[a])'
    <3>1. conversations[k].prospect = call[a].prospect
      BY DEF LatestConversations
    <3>2. call'[a].pc = "store" /\ call'[a].conversation = k /\ call'[a].prospect = call[a].prospect
      BY <1>0, <2>4 DEF Goto, Call
    <3> QED  BY <2>3, <3>1, <3>2 DEF InAConversation
  <2>5. ASSUME LatestConversations(call[a].prospect) = {}, Goto(a, [call[a] EXCEPT !.pc = "create"])
        PROVE  InAConversation(call[a])'
    <3>1. ~HasConversation(call[a].prospect)
      BY <1>0, <2>1, <2>5, NoLatestMeansNone
    <3>2. call'[a].pc = "create" /\ call'[a].prospect = call[a].prospect
      BY <1>0, <2>5 DEF Goto, Call
    <3> QED  BY <2>3, <3>1, <3>2 DEF InAConversation, HasConversation
  <2> QED  BY <1>quiet, <2>2, <2>3, <2>4, <2>5
<1>5. ASSUME NEW k \in Conversations, CreateConversation(a, k) PROVE OneConversation'
  <2>1. /\ call[a].prospect \in Prospects /\ ~HasConversation(call[a].prospect)
        /\ conversations[k].prospect = NoProspect
    BY <1>0, <1>5 DEF CreateConversation, Sound, InAConversation
  <2>2. /\ conversations'[k].prospect = call[a].prospect
        /\ \A i \in Conversations \ {k} : conversations'[i].prospect = conversations[i].prospect
    BY <1>0, <1>5 DEF CreateConversation, Conversation
  <2>3. OneConversationEach'
    <3>1. \A i \in Conversations \ {k} : conversations[i].prospect # call[a].prospect
      BY <2>1 DEF HasConversation
    <3> QED  BY <1>0, <2>2, <3>1 DEF OneConversationEach
  <2>4. call'[a].pc = "store" /\ call'[a].conversation = k /\ call'[a].prospect = call[a].prospect
    BY <1>0, <1>5 DEF CreateConversation, Goto, Call
  <2>5. InAConversation(call[a])'
    BY <2>2, <2>4 DEF InAConversation
  <2> QED  BY <1>one, <2>3, <2>5
<1>6. CASE StoreMessage(a) \/ UpdateConversation(a)
  <2>1. \A i \in Conversations : conversations'[i].prospect = conversations[i].prospect
    <3>1. CASE StoreMessage(a)
      BY <1>0, <3>1 DEF StoreMessage, Conversation
    <3>2. CASE UpdateConversation(a)
      <4>1. \E x, y : conversations' = [conversations EXCEPT ![call[a].conversation].classification = x,
                                                             ![call[a].conversation].lastMessageAt = y]
        BY <3>2 DEF UpdateConversation
      <4> QED  BY <1>0, <3>2, <4>1 DEF UpdateConversation, Conversation
    <3> QED  BY <1>6, <3>1, <3>2
  <2>2. OneConversationEach'
    BY <1>0, <2>1 DEF OneConversationEach
  <2>3. \/ /\ call'[a].pc \in {"store", "fold"} /\ call[a].pc = "store"
           /\ call'[a].prospect = call[a].prospect /\ call'[a].conversation = call[a].conversation
        \/ call'[a].pc = "finish"
    <3>1. CASE StoreMessage(a)
      BY <1>0, <3>1 DEF StoreMessage, Goto, Call
    <3>2. CASE UpdateConversation(a)
      <4>1. Goto(a, [call[a] EXCEPT !.pc = "finish", !.seen = NoRow])
        BY <3>2 DEF UpdateConversation
      <4> QED  BY <1>0, <4>1 DEF Goto, Call
    <3> QED  BY <1>6, <3>1, <3>2
  <2>4. InAConversation(call[a])'
    <3>1. CASE call'[a].pc = "finish"
      BY <3>1 DEF InAConversation
    <3>2. CASE call'[a].pc # "finish"
      <4>1. call[a].conversation \in Conversations
        BY <1>0, <2>3, <3>2 DEF Sound
      <4> QED  BY <1>0, <2>1, <2>3, <3>2, <4>1 DEF InAConversation
    <3> QED  BY <3>1, <3>2
  <2> QED  BY <1>one, <2>2, <2>4
<1>7. CASE FoldReplies(a)
  <2>1. /\ call'[a].pc = "update" /\ call'[a].prospect = call[a].prospect
        /\ call'[a].conversation = call[a].conversation
    <3>1. PICK row, s : Goto(a, [call[a] EXCEPT !.pc = "update", !.page = {}, !.seen = row,
                                                !.replyState = s])
      BY <1>7 DEF FoldReplies
    <3> QED  BY <1>0, <3>1 DEF Goto, Call
  <2>2. InAConversation(call[a])'
    BY <1>0, <1>7, <2>1 DEF FoldReplies, InAConversation
  <2> QED  BY <1>7, <1>quiet, <2>2 DEF FoldReplies
<1>8. CASE Finish(a)
  <2>1. call'[a].pc \in {"next", "eligible"}
    BY <1>0, <1>8, <1>next DEF Finish, Goto, Call
  <2> QED  BY <1>8, <1>away, <2>1 DEF Finish
<1>9. CASE \/ Eligible(a) \/ ResolveStep(a) \/ GenerateDraft(a) \/ SubmitForApproval(a)
           \/ \E d \in Drafts : InsertDraft(a, d)
  <2>1. call'[a].pc \in {"next", "submit", "generate", "resolve", "insert"}
    <3>1. \/ \E d : Goto(a, [call[a] EXCEPT !.pc = "submit", !.draft = d])
          \/ \E n : Goto(a, [call[a] EXCEPT !.pc = "generate", !.step = n])
          \/ \E pc \in {"resolve", "insert"} : Goto(a, [call[a] EXCEPT !.pc = pc])
          \/ Goto(a, Next1(call[a]))
      BY <1>9 DEF Eligible, ResolveStep, GenerateDraft, SubmitForApproval, InsertDraft
    <3>2. ASSUME NEW d, Goto(a, [call[a] EXCEPT !.pc = "submit", !.draft = d])
          PROVE  call'[a].pc = "submit"
      BY <1>0, <3>2 DEF Goto, Call
    <3>3. ASSUME NEW n, Goto(a, [call[a] EXCEPT !.pc = "generate", !.step = n])
          PROVE  call'[a].pc = "generate"
      BY <1>0, <3>3 DEF Goto, Call
    <3>4. ASSUME NEW pc \in {"resolve", "insert"}, Goto(a, [call[a] EXCEPT !.pc = pc])
          PROVE  call'[a].pc = pc
      BY <1>0, <3>4 DEF Goto, Call
    <3> QED  BY <1>next, <3>1, <3>2, <3>3, <3>4
  <2>2. UNCHANGED conversations
    BY <1>9 DEF Eligible, ResolveStep, GenerateDraft, SubmitForApproval, InsertDraft
  <2> QED  BY <1>away, <2>1, <2>2
<1> QED
  BY <1>1, <1>2, <1>3, <1>4, <1>5, <1>6, <1>7, <1>8, <1>9 DEF Step

\* A send records its message with the conversation that is there, and opens one only for a prospect
\* that has none and for whom no detection is about to insert one.
LEMMA SentEffect ==
  ASSUME Typed, OneConversationEach, NEW p \in Prospects, NEW step \in 1..LastStep, Sent(p, step)
  PROVE  /\ \A a \in Actors, q \in Prospects :
              call[a].pc = "create" /\ call[a].prospect = q /\ HasConversation(q)' =>
                HasConversation(q)
         /\ \A i \in Conversations : conversations[i].prospect \in Prospects =>
              conversations'[i].prospect = conversations[i].prospect
         /\ \A i \in Conversations : /\ conversations'[i].messages = conversations[i].messages
                                     /\ conversations'[i].classification = conversations[i].classification
         /\ OneConversationEach'
<1>0. conversations \in [Conversations -> Conversation] /\ NoProspect \notin Prospects
  BY NothingAssumption DEF Typed, FollowUpTypeOK
<1>1. CASE UNCHANGED conversations
  BY <1>0, <1>1 DEF HasConversation, OneConversationEach
<1>2. CASE RecordSend(p)
  <2>1. PICK c \in Conversations :
          /\ \/ c \in LatestConversations(p)
             \/ LatestConversations(p) = {} /\ conversations[c].prospect = NoProspect
          /\ conversations' \in [Conversations -> Conversation]
          /\ conversations'[c].prospect = p
          /\ conversations'[c].messages = conversations[c].messages
          /\ conversations'[c].classification = conversations[c].classification
          /\ \A i \in Conversations \ {c} : conversations'[i] = conversations[i]
    BY <1>2, RecordSendEffect
  <2>2. CASE c \in LatestConversations(p)
    <3>1. \A i \in Conversations : conversations'[i].prospect = conversations[i].prospect
      BY <2>1, <2>2 DEF LatestConversations
    <3>2. \A q : HasConversation(q) <=> HasConversation(q)'
      BY <3>1 DEF HasConversation
    <3>3. OneConversationEach'
      BY <1>0, <3>1 DEF OneConversationEach
    <3> QED  BY <2>1, <3>1, <3>2, <3>3
  <2>3. CASE LatestConversations(p) = {} /\ conversations[c].prospect = NoProspect
    <3>1. ~HasConversation(p)
      BY <2>3, NoLatestMeansNone
    <3>2. \A a \in Actors : ~(call[a].pc = "create" /\ call[a].prospect = p)
      BY <1>2 DEF RecordSend
    <3>3. /\ \A i \in Conversations : conversations[i].prospect \in Prospects =>
               conversations'[i].prospect = conversations[i].prospect
          /\ \A q \in Prospects \ {p} : HasConversation(q)' => HasConversation(q)
      BY <1>0, <2>1, <2>3 DEF HasConversation
    <3>4. OneConversationEach'
      BY <2>1, <3>1 DEF OneConversationEach, HasConversation
    <3> QED  BY <2>1, <3>2, <3>3, <3>4
  <2> QED  BY <2>1, <2>2, <2>3
<1> QED  BY <1>1, <1>2 DEF Sent

LEMMA OneConversationStep ==
  ASSUME Typed, OneConversation, [Next]_vars, \A a, b \in Actors : a = b
  PROVE  OneConversation'
<1>1. ASSUME NEW a \in Actors, Step(a) PROVE OneConversation'
  BY <1>1, OneConversationJob
<1>2. CASE Environment
  <2>1. ASSUME NEW p \in Prospects, NEW step \in 1..LastStep, Sent(p, step)
        PROVE  OneConversation'
    <3>1. UNCHANGED call
      BY <2>1 DEF Sent
    <3>2. ASSUME NEW a \in Actors PROVE InAConversation(call[a])'
      <4>1. /\ call[a].pc \notin {"idle", "next"} => call[a].prospect \in Prospects
            /\ call[a].pc \in {"store", "fold", "update"} => call[a].conversation \in Conversations
        BY DEF Typed, Sound
      <4>2. InAConversation(call[a]) /\ OneConversationEach
        BY DEF OneConversation
      <4>3. ASSUME call[a].pc = "create" PROVE ~HasConversation(call[a].prospect)'
        <5>1. PICK q \in Prospects : q = call[a].prospect
          BY <4>1, <4>3
        <5>2. ~HasConversation(q)
          BY <4>2, <4>3, <5>1 DEF InAConversation
        <5>3. ~HasConversation(q)'
          BY <2>1, <4>2, <4>3, <5>1, <5>2, SentEffect
        <5> QED  BY <3>1, <5>1, <5>3 DEF HasConversation
      <4>4. call[a].pc \in {"store", "fold", "update"} =>
              conversations'[call[a].conversation].prospect = call[a].prospect
        BY <2>1, <4>1, <4>2, SentEffect DEF InAConversation
      <4> QED  BY <3>1, <4>3, <4>4 DEF InAConversation, HasConversation
    <3> QED  BY <2>1, <3>2, SentEffect DEF OneConversation
  <2>2. CASE UNCHANGED <<conversations, call>>
    BY <2>2 DEF OneConversation, OneConversationEach, InAConversation, HasConversation
  <2> QED  BY <1>2, <2>1, <2>2 DEF Environment, Stop, TurnedBack, Reply, DraftOriginal, Decide
<1>3. CASE UNCHANGED vars
  BY <1>3 DEF vars, world, OneConversation, OneConversationEach, InAConversation, HasConversation
<1> QED  BY <1>1, <1>2, <1>3 DEF Next
-----------------------------------------------------------------------------
(* What was heard is never forgotten, when one job runs at a time.           *)

Heard(p) == \E c \in Conversations : conversations[c].prospect = p /\ conversations[c].messages # {}

OptedOut(p) ==
  \E c \in Conversations : conversations[c].prospect = p /\ conversations[c].classification = "OPT_OUT"

\* What the log says is still to be read from the conversations.
Remembered ==
  /\ \A p \in Prospects : <<p, "STOPPED">> \in auditLog => p \in stopped
  /\ \A p \in Prospects : <<p, "REPLIED">> \in auditLog \/ <<p, "OPTED_OUT">> \in auditLog => Heard(p)
  /\ \A p \in Prospects : <<p, "OPTED_OUT">> \in auditLog => OptedOut(p)

\* What a detection has found is in the conversation when it is folded, and what it answers follows
\* from the conversation; so a job of a prospect that answered before comes to no silence.
Listens(c) ==
  /\ c.pc = "update" => /\ c.replyState = DeriveReplyState(c.seen.messages)
                        /\ c.seen.messages = conversations[c.conversation].messages
                        /\ c.seen.classification = conversations[c.conversation].classification
  /\ c.pc = "finish" => /\ c.replyState = "STOPPED" => c.prospect \in stopped
                        /\ c.replyState \in {"REPLIED", "OPTED_OUT"} => Heard(c.prospect)
                        /\ c.replyState = "OPTED_OUT" => OptedOut(c.prospect)
  /\ c.answered =>
       /\ c.pc = "detect" => c.prospect \in stopped \/ Heard(c.prospect)
       /\ c.pc \in {"fetch", "conversation", "create", "store", "fold"} => Heard(c.prospect)
       /\ c.pc \in {"update", "finish"} => c.replyState # "NO_REPLY"
       /\ c.pc \notin {"eligible", "resolve", "generate", "insert", "submit"}

Memory == Remembered /\ \A a \in Actors : Listens(call[a])

LEMMA MemoryInit == Init => Memory
<1> SUFFICES ASSUME Init PROVE Memory  OBVIOUS
<1>1. auditLog = {} /\ \A a \in Actors : call[a].pc = "idle" /\ call[a].answered = FALSE
  BY DEF Init, Idle
<1> QED  BY <1>1 DEF Memory, Remembered, Listens

\* Conversations only gain messages, and none loses its classification.
LEMMA MemoryGrows ==
  ASSUME NEW p, \A i \in Conversations : conversations[i].prospect = p =>
           /\ conversations'[i].prospect = p
           /\ conversations[i].messages \subseteq conversations'[i].messages
           /\ conversations[i].classification = "OPT_OUT" => conversations'[i].classification = "OPT_OUT"
  PROVE  /\ Heard(p) => Heard(p)'
         /\ OptedOut(p) => OptedOut(p)'
BY DEF Heard, OptedOut

LEMMA RememberedStays ==
  ASSUME Remembered, UNCHANGED auditLog, stopped \subseteq stopped',
         \A p \in Prospects : (Heard(p) => Heard(p)') /\ (OptedOut(p) => OptedOut(p)')
  PROVE  Remembered'
BY DEF Remembered

\* No step of a job takes a message or an opt-out away from a prospect.
LEMMA JobRemembers ==
  ASSUME Typed, OneConversation, Memory, NEW a \in Actors, Step(a), NEW p \in Prospects
  PROVE  (Heard(p) => Heard(p)') /\ (OptedOut(p) => OptedOut(p)')
<1>0. /\ conversations \in [Conversations -> Conversation] /\ call[a] \in Call
      /\ Sound(call[a]) /\ InAConversation(call[a]) /\ Listens(call[a])
      /\ NoProspect \notin Prospects
  BY NothingAssumption DEF Typed, FollowUpTypeOK, OneConversation, Memory
<1>1. CASE UNCHANGED conversations
  BY <1>1 DEF Heard, OptedOut
<1>2. ASSUME NEW k \in Conversations, CreateConversation(a, k)
      PROVE  (Heard(p) => Heard(p)') /\ (OptedOut(p) => OptedOut(p)')
  <2>1. /\ conversations[k].prospect = NoProspect
        /\ \A i \in Conversations \ {k} : conversations'[i] = conversations[i]
    BY <1>0, <1>2 DEF CreateConversation
  <2> QED  BY <1>0, <2>1, MemoryGrows
<1>3. CASE StoreMessage(a)
  <2>1. \A i \in Conversations : /\ conversations'[i].prospect = conversations[i].prospect
                                 /\ conversations[i].messages \subseteq conversations'[i].messages
                                 /\ conversations'[i].classification = conversations[i].classification
    BY <1>0, <1>3 DEF StoreMessage, Conversation
  <2> QED  BY <2>1, MemoryGrows
<1>4. CASE UpdateConversation(a)
  <2> DEFINE k == call[a].conversation
             kind == IF call[a].seen.messages \cap OptOuts # {} THEN "OPT_OUT"
                     ELSE call[a].seen.classification
  <2>1. \E y : conversations' = [conversations EXCEPT ![k].classification = kind,
                                                      ![k].lastMessageAt = y]
    BY <1>4 DEF UpdateConversation
  <2>2. conversations[k].classification = "OPT_OUT" => kind = "OPT_OUT"
    BY <1>0, <1>4 DEF UpdateConversation, Listens
  <2>3. k \in Conversations
    BY <1>0, <1>4 DEF UpdateConversation, Sound
  <2> HIDE DEF k, kind
  <2>4. \A i \in Conversations :
          /\ conversations'[i].prospect = conversations[i].prospect
          /\ conversations'[i].messages = conversations[i].messages
          /\ conversations'[i].classification =
               IF i = k THEN kind ELSE conversations[i].classification
    BY <1>0, <2>1, <2>3 DEF Conversation
  <2> QED  BY <2>2, <2>4, MemoryGrows
<1>5. \/ UNCHANGED conversations
      \/ (\E k \in Conversations : CreateConversation(a, k)) \/ StoreMessage(a) \/ UpdateConversation(a)
  <2>1. CASE (\E job \in Jobs : Start(a, job)) \/ NextCandidate(a) \/ JobEnds(a) \/ Abort(a)
    BY <2>1 DEF Start, NextCandidate, JobEnds, Abort
  <2>2. CASE Detect(a) \/ FetchFails(a) \/ \E page \in SUBSET Messages : FetchPage(a, page)
    <3>1. CASE Detect(a)
      BY <3>1 DEF Detect
    <3>2. CASE FetchFails(a) \/ \E page \in SUBSET Messages : FetchPage(a, page)
      BY <3>2 DEF FetchFails, FetchPage
    <3> QED  BY <2>2, <3>1, <3>2
  <2>3. CASE FindConversation(a) \/ FoldReplies(a) \/ Finish(a)
    BY <2>3 DEF FindConversation, FoldReplies, Finish
  <2>4. CASE Eligible(a) \/ ResolveStep(a) \/ GenerateDraft(a) \/ SubmitForApproval(a)
    BY <2>4 DEF Eligible, ResolveStep, GenerateDraft, SubmitForApproval
  <2>5. CASE \E d \in Drafts : InsertDraft(a, d)
    BY <2>5 DEF InsertDraft
  <2> QED  BY <2>1, <2>2, <2>3, <2>4, <2>5 DEF Step
<1> QED  BY <1>1, <1>2, <1>3, <1>4, <1>5

\* No step of a job forgets what was heard.
LEMMA MemoryJob ==
  ASSUME Typed, OneConversation, Memory, NEW a \in Actors, Step(a), \A b \in Actors : b = a
  PROVE  Memory'
<1>0. /\ call \in [Actors -> Call] /\ call[a] \in Call /\ Sound(call[a])
      /\ conversations \in [Conversations -> Conversation]
      /\ InAConversation(call[a]) /\ OneConversationEach /\ Listens(call[a]) /\ Remembered
  BY DEF Typed, FollowUpTypeOK, OneConversation, Memory
<1>frame. UNCHANGED stopped
  BY JobFrame DEF world
<1>grows. \A p \in Prospects : (Heard(p) => Heard(p)') /\ (OptedOut(p) => OptedOut(p)')
  BY JobRemembers
<1>one. ASSUME UNCHANGED auditLog, Listens(call[a])' PROVE Memory'
  BY <1>0, <1>frame, <1>grows, <1>one, RememberedStays DEF Memory
<1>away. ASSUME call'[a].pc \in {"idle", "next"}, call'[a].answered = FALSE
         PROVE  Listens(call[a])'
  BY <1>away DEF Listens
<1>next. ASSUME NEW n, Goto(a, Next1(n)) PROVE call'[a].pc = "next" /\ call'[a].answered = FALSE
  BY <1>0, <1>next, Records DEF Goto, Next1, Idle
\* The steps after the answer: only a job that found silence takes them.
<1>late. ASSUME \/ call'[a].pc = "next" /\ call'[a].answered = FALSE
                \/ call'[a].pc \in {"eligible", "resolve", "generate", "insert", "submit"}
                   /\ call'[a].answered = FALSE
         PROVE  Listens(call[a])'
  BY <1>late DEF Listens
<1>1. CASE (\E job \in Jobs : Start(a, job)) \/ JobEnds(a) \/ Abort(a)
  <2>1. call'[a].pc \in {"idle", "next"} /\ call'[a].answered = FALSE
    <3>1. Goto(a, Idle) => call'[a].pc = "idle" /\ call'[a].answered = FALSE
      BY <1>0 DEF Goto, Idle
    <3>2. ASSUME NEW job \in Jobs, Start(a, job)
          PROVE  call'[a].pc = "next" /\ call'[a].answered = FALSE
      BY <1>0, <3>2 DEF Start, Goto, Idle
    <3> QED  BY <1>1, <1>next, <3>1, <3>2 DEF JobEnds, Abort
  <2> QED  BY <1>1, <1>one, <1>away, <2>1 DEF Start, JobEnds, Abort
<1>2. CASE NextCandidate(a)
  <2>1. UNCHANGED <<auditLog, conversations>>
    BY <1>2 DEF NextCandidate
  <2>2. CASE \E c \in Call : Goto(a, Next1(c))
    BY <1>one, <1>away, <1>next, <2>1, <2>2
  <2>3. ASSUME NEW c \in Call, Goto(a, c), TakenUp(c, call[a]) PROVE Listens(call[a])'
    <3>1. c.pc = "detect" /\ call'[a] = c
      BY <1>0, <2>3 DEF TakenUp, Goto
    <3>2. c.answered => c.prospect \in stopped \/ Heard(c.prospect)
      BY <1>0, <2>3 DEF TakenUp, Remembered, Against
    <3> QED  BY <1>frame, <2>1, <3>1, <3>2 DEF Listens, Heard
  <2> QED  BY <1>2, <1>one, <2>1, <2>2, <2>3, NextCandidateEffect
<1>3. CASE Detect(a) \/ FetchFails(a) \/ \E page \in SUBSET Messages : FetchPage(a, page)
  <2>1. UNCHANGED <<auditLog, conversations>>
    BY <1>3 DEF Detect, FetchFails, FetchPage
  <2>2. /\ call'[a].prospect = call[a].prospect /\ call'[a].answered = call[a].answered
        /\ \/ /\ call'[a].pc = "finish" /\ call'[a].replyState = "STOPPED"
              /\ call[a].prospect \in stopped
           \/ call'[a].pc = "finish" /\ call'[a].replyState = "UNKNOWN"
           \/ /\ call'[a].pc = "fetch" /\ call[a].pc = "detect" /\ call[a].prospect \notin stopped
           \/ call'[a].pc = "conversation" /\ call[a].pc = "fetch"
    <3>1. CASE Detect(a)
      <4>1. call[a].pc = "detect"
        BY <3>1 DEF Detect
      <4>2. \/ /\ call[a].prospect \in stopped
               /\ Goto(a, [call[a] EXCEPT !.pc = "finish", !.replyState = "STOPPED"])
            \/ Goto(a, [call[a] EXCEPT !.pc = "finish", !.replyState = "UNKNOWN"])
            \/ call[a].prospect \notin stopped /\ Goto(a, [call[a] EXCEPT !.pc = "fetch"])
        BY <3>1 DEF Detect
      <4>3. ASSUME NEW s, Goto(a, [call[a] EXCEPT !.pc = "finish", !.replyState = s])
            PROVE  /\ call'[a].prospect = call[a].prospect /\ call'[a].answered = call[a].answered
                   /\ call'[a].pc = "finish" /\ call'[a].replyState = s
        BY <1>0, <4>3 DEF Goto, Call
      <4>4. ASSUME Goto(a, [call[a] EXCEPT !.pc = "fetch"])
            PROVE  /\ call'[a].prospect = call[a].prospect /\ call'[a].answered = call[a].answered
                   /\ call'[a].pc = "fetch"
        BY <1>0, <4>4 DEF Goto, Call
      <4> QED  BY <4>1, <4>2, <4>3, <4>4
    <3>2. CASE FetchFails(a)
      BY <1>0, <3>2 DEF FetchFails, Goto, Call
    <3>3. ASSUME NEW page \in SUBSET Messages, FetchPage(a, page)
          PROVE  /\ call'[a].prospect = call[a].prospect /\ call'[a].answered = call[a].answered
                 /\ call'[a].pc = "conversation" /\ call[a].pc = "fetch"
      BY <1>0, <3>3 DEF FetchPage, Goto, Call
    <3> QED  BY <1>3, <3>1, <3>2, <3>3
  <2>3. Listens(call[a])'
    BY <1>0, <1>frame, <2>1, <2>2 DEF Listens, Heard
  <2> QED  BY <1>one, <2>1, <2>3
<1>4. CASE \/ FindConversation(a) \/ (\E k \in Conversations : CreateConversation(a, k))
           \/ StoreMessage(a)
  <2>1. /\ UNCHANGED auditLog /\ call'[a].prospect = call[a].prospect
        /\ call'[a].answered = call[a].answered
        /\ call[a].pc \in {"conversation", "create", "store"}
        /\ call'[a].pc \in {"create", "store", "fold"}
    <3>1. CASE FindConversation(a)
      <4>1. \/ \E k : Goto(a, [call[a] EXCEPT !.pc = "store", !.conversation = k])
            \/ Goto(a, [call[a] EXCEPT !.pc = "create"])
        BY <3>1 DEF FindConversation
      <4>2. /\ call'[a].prospect = call[a].prospect /\ call'[a].answered = call[a].answered
            /\ call'[a].pc \in {"create", "store"}
        <5>1. ASSUME NEW k, Goto(a, [call[a] EXCEPT !.pc = "store", !.conversation = k])
              PROVE  /\ call'[a].prospect = call[a].prospect /\ call'[a].pc = "store"
                     /\ call'[a].answered = call[a].answered
          BY <1>0, <5>1 DEF Goto, Call
        <5>2. ASSUME Goto(a, [call[a] EXCEPT !.pc = "create"])
              PROVE  /\ call'[a].prospect = call[a].prospect /\ call'[a].pc = "create"
                     /\ call'[a].answered = call[a].answered
          BY <1>0, <5>2 DEF Goto, Call
        <5> QED  BY <4>1, <5>1, <5>2
      <4> QED  BY <3>1, <4>2 DEF FindConversation
    <3>2. ASSUME NEW k \in Conversations, CreateConversation(a, k)
          PROVE  /\ UNCHANGED auditLog /\ call'[a].prospect = call[a].prospect
                 /\ call'[a].answered = call[a].answered
                 /\ call[a].pc = "create" /\ call'[a].pc = "store"
      BY <1>0, <3>2 DEF CreateConversation, Goto, Call
    <3>3. CASE StoreMessage(a)
      BY <1>0, <3>3 DEF StoreMessage, Goto, Call
    <3> QED  BY <1>4, <3>1, <3>2, <3>3
  <2>2. call[a].prospect \in Prospects
    BY <1>0, <2>1 DEF Sound
  <2>3. call[a].answered => Heard(call[a].prospect)
    BY <1>0, <2>1 DEF Listens
  <2>4. call'[a].answered => Heard(call[a].prospect)'
    <3>1. ASSUME NEW p \in Prospects, p = call[a].prospect, Heard(p)' PROVE Heard(call[a].prospect)'
      BY <2>1, <3>1 DEF Heard
    <3> QED  BY <1>grows, <2>1, <2>2, <2>3, <3>1
  <2>5. Listens(call[a])'
    BY <2>1, <2>4 DEF Listens
  <2> QED  BY <1>one, <2>1, <2>5
<1>5. CASE FoldReplies(a)
  <2> DEFINE row == conversations[call[a].conversation]
             s == DeriveReplyState(row.messages)
  <2>1. UNCHANGED <<auditLog, conversations>> /\ call[a].pc = "fold"
        /\ Goto(a, [call[a] EXCEPT !.pc = "update", !.page = {}, !.seen = row, !.replyState = s])
    BY <1>5 DEF FoldReplies, ReplyStateOf
  <2> HIDE DEF row, s
  <2>2. /\ call'[a].pc = "update" /\ call'[a].seen = row /\ call'[a].replyState = s
        /\ call'[a].conversation = call[a].conversation /\ call'[a].answered = call[a].answered
    BY <1>0, <2>1 DEF Goto, Call
  <2>3. call[a].answered => s # "NO_REPLY"
    <3>1. /\ conversations[call[a].conversation].prospect = call[a].prospect
          /\ call[a].conversation \in Conversations /\ call[a].prospect \in Prospects
      BY <1>0, <2>1 DEF InAConversation, Sound
    <3>2. Heard(call[a].prospect) => row.messages # {}
      BY <1>0, <3>1 DEF Heard, OneConversationEach, row
    <3> QED  BY <1>0, <2>1, <3>2 DEF Listens, DeriveReplyState, s
  <2>4. Listens(call[a])'
    BY <2>1, <2>2, <2>3 DEF Listens, row, s
  <2> QED  BY <1>one, <2>1, <2>4
<1>6. CASE UpdateConversation(a)
  <2> DEFINE k == call[a].conversation
             seen == call[a].seen
             kind == IF seen.messages \cap OptOuts # {} THEN "OPT_OUT" ELSE seen.classification
  <2>1. /\ UNCHANGED auditLog /\ call[a].pc = "update"
        /\ \E y : conversations' = [conversations EXCEPT ![k].classification = kind,
                                                         ![k].lastMessageAt = y]
        /\ Goto(a, [call[a] EXCEPT !.pc = "finish", !.seen = NoRow])
    BY <1>6 DEF UpdateConversation
  <2>2. /\ k \in Conversations /\ conversations[k].prospect = call[a].prospect
        /\ call[a].replyState = DeriveReplyState(seen.messages)
        /\ seen.messages = conversations[k].messages
    BY <1>0, <2>1 DEF Sound, InAConversation, Listens
  <2>3. /\ call'[a].pc = "finish" /\ call'[a].prospect = call[a].prospect
        /\ call'[a].replyState = call[a].replyState /\ call'[a].answered = call[a].answered
    BY <1>0, <2>1 DEF Goto, Call
  <2>4. call[a].replyState = "OPTED_OUT" => kind = "OPT_OUT"
    BY <2>2 DEF DeriveReplyState
  <2>5. call[a].replyState \in {"REPLIED", "OPTED_OUT"} => seen.messages # {}
    BY <2>2 DEF DeriveReplyState
  <2>6. call[a].replyState # "STOPPED"
    BY <2>2 DEF DeriveReplyState
  <2> HIDE DEF k, seen, kind
  <2>7. /\ conversations'[k].prospect = call[a].prospect
        /\ conversations'[k].messages = seen.messages
        /\ conversations'[k].classification = kind
    BY <1>0, <2>1, <2>2 DEF Conversation
  <2>8. /\ call[a].replyState \in {"REPLIED", "OPTED_OUT"} => Heard(call[a].prospect)'
        /\ call[a].replyState = "OPTED_OUT" => OptedOut(call[a].prospect)'
    BY <2>2, <2>3, <2>4, <2>5, <2>7 DEF Heard, OptedOut
  <2>9. call[a].answered => call[a].replyState # "NO_REPLY"
    BY <1>0, <2>1 DEF Listens
  <2>10. Listens(call[a])'
    BY <2>3, <2>6, <2>8, <2>9 DEF Listens
  <2> QED  BY <1>one, <2>1, <2>10
<1>7. CASE Finish(a)
  <2>1. /\ call[a].pc = "finish" /\ UNCHANGED conversations /\ call[a].prospect \in Prospects
        /\ auditLog' \subseteq auditLog \cup {<<call[a].prospect, call[a].replyState>>}
    BY <1>0, <1>7 DEF Finish, Sound
  <2>2. \/ call'[a].pc = "next" /\ call'[a].answered = FALSE
        \/ /\ call'[a].pc = "eligible" /\ call'[a].answered = call[a].answered
           /\ call[a].replyState = "NO_REPLY"
    BY <1>0, <1>7, <1>next DEF Finish, Goto, Call, ProceedsOn
  <2>3. Listens(call[a])'
    <3>1. call[a].answered \in BOOLEAN
      BY <1>0, CallFields
    <3>2. call[a].answered => call[a].replyState # "NO_REPLY"
      BY <1>0, <2>1 DEF Listens
    <3> QED  BY <1>late, <2>2, <3>1, <3>2
  <2>4. /\ call[a].replyState = "STOPPED" => call[a].prospect \in stopped
        /\ call[a].replyState \in {"REPLIED", "OPTED_OUT"} => Heard(call[a].prospect)
        /\ call[a].replyState = "OPTED_OUT" => OptedOut(call[a].prospect)
    BY <1>0, <2>1 DEF Listens
  <2>5. Remembered'
    <3>1. \A p \in Prospects : \A s \in ReplyStates : <<p, s>> \in auditLog' =>
            <<p, s>> \in auditLog \/ (p = call[a].prospect /\ s = call[a].replyState)
      <4>1. ASSUME NEW p, NEW s, NEW q, NEW r, <<p, s>> = <<q, r>> PROVE p = q /\ s = r
        BY <4>1
      <4> QED  BY <2>1, <4>1
    <3>2. \A p : (Heard(p) <=> Heard(p)') /\ (OptedOut(p) <=> OptedOut(p)')
      BY <2>1 DEF Heard, OptedOut
    <3> QED  BY <1>0, <1>frame, <2>4, <3>1, <3>2 DEF Remembered, ReplyStates
  <2> QED  BY <2>3, <2>5 DEF Memory
<1>8. CASE \/ Eligible(a) \/ ResolveStep(a) \/ GenerateDraft(a) \/ SubmitForApproval(a)
           \/ \E d \in Drafts : InsertDraft(a, d)
  <2>1. /\ UNCHANGED auditLog /\ call[a].answered = FALSE
    <3>1. UNCHANGED auditLog
          /\ call[a].pc \in {"eligible", "resolve", "generate", "insert", "submit"}
      BY <1>8 DEF Eligible, ResolveStep, GenerateDraft, SubmitForApproval, InsertDraft
    <3>2. call[a].answered \in BOOLEAN
      BY <1>0, CallFields
    <3> QED  BY <1>0, <3>1, <3>2 DEF Listens
  <2>2. \/ \E d : Goto(a, [call[a] EXCEPT !.pc = "submit", !.draft = d])
        \/ \E n : Goto(a, [call[a] EXCEPT !.pc = "generate", !.step = n])
        \/ \E pc \in {"resolve", "insert"} : Goto(a, [call[a] EXCEPT !.pc = pc])
        \/ Goto(a, Next1(call[a]))
    BY <1>8 DEF Eligible, ResolveStep, GenerateDraft, SubmitForApproval, InsertDraft
  <2>3. ASSUME NEW d, Goto(a, [call[a] EXCEPT !.pc = "submit", !.draft = d])
        PROVE  call'[a].pc = "submit" /\ call'[a].answered = call[a].answered
    BY <1>0, <2>3 DEF Goto, Call
  <2>4. ASSUME NEW n, Goto(a, [call[a] EXCEPT !.pc = "generate", !.step = n])
        PROVE  call'[a].pc = "generate" /\ call'[a].answered = call[a].answered
    BY <1>0, <2>4 DEF Goto, Call
  <2>5. ASSUME NEW pc \in {"resolve", "insert"}, Goto(a, [call[a] EXCEPT !.pc = pc])
        PROVE  call'[a].pc = pc /\ call'[a].answered = call[a].answered
    BY <1>0, <2>5, SMTT(30) DEF Goto, Call
  <2>6. Listens(call[a])'
    BY <1>late, <1>next, <2>1, <2>2, <2>3, <2>4, <2>5
  <2> QED  BY <1>one, <2>1, <2>6
<1> QED  BY <1>1, <1>2, <1>3, <1>4, <1>5, <1>6, <1>7, <1>8 DEF Step

LEMMA MemoryStep ==
  ASSUME Typed, OneConversation, Memory, [Next]_vars, \A a, b \in Actors : a = b
  PROVE  Memory'
<1>1. ASSUME NEW a \in Actors, Step(a) PROVE Memory'
  BY <1>1, MemoryJob
<1>2. CASE Environment
  <2>1. UNCHANGED <<call, auditLog>> /\ stopped \subseteq stopped'
    BY <1>2 DEF Environment, Stop, Sent, TurnedBack, Reply, DraftOriginal, Decide, world
  <2>2. \A i \in Conversations :
          /\ conversations[i].prospect \in Prospects =>
               conversations'[i].prospect = conversations[i].prospect
          /\ conversations'[i].messages = conversations[i].messages
          /\ conversations'[i].classification = conversations[i].classification
    <3>1. ASSUME NEW p \in Prospects, NEW step \in 1..LastStep, Sent(p, step)
          PROVE  \A i \in Conversations :
                   /\ conversations[i].prospect \in Prospects =>
                        conversations'[i].prospect = conversations[i].prospect
                   /\ conversations'[i].messages = conversations[i].messages
                   /\ conversations'[i].classification = conversations[i].classification
      BY <3>1, SentEffect DEF OneConversation
    <3> QED  BY <1>2, <3>1 DEF Environment, Stop, TurnedBack, Reply, DraftOriginal, Decide
  <2>3. \A p \in Prospects : (Heard(p) => Heard(p)') /\ (OptedOut(p) => OptedOut(p)')
    BY <2>2, MemoryGrows
  <2>4. ASSUME NEW a \in Actors PROVE Listens(call[a])'
    <3>1. Listens(call[a]) /\ Sound(call[a])
      BY DEF Memory, Typed
    <3>2. CASE call[a].pc \in {"idle", "next"}
      BY <2>1, <3>1, <3>2 DEF Listens
    <3>3. CASE call[a].pc \notin {"idle", "next"}
      <4>1. PICK p \in Prospects : p = call[a].prospect
        BY <3>1, <3>3 DEF Sound
      <4>2. call'[a] = call[a] /\ (Heard(p) => Heard(p)') /\ (OptedOut(p) => OptedOut(p)')
        BY <2>1, <2>3
      <4>3. /\ Heard(call[a].prospect) => Heard(call[a].prospect)'
            /\ OptedOut(call[a].prospect) => OptedOut(call[a].prospect)'
        BY <4>1, <4>2 DEF Heard, OptedOut
      <4>4. call[a].pc = "update" =>
              /\ conversations'[call[a].conversation].messages
                   = conversations[call[a].conversation].messages
              /\ conversations'[call[a].conversation].classification
                   = conversations[call[a].conversation].classification
        BY <2>2, <3>1 DEF Sound
      <4> QED  BY <2>1, <3>1, <4>2, <4>3, <4>4 DEF Listens
    <3> QED  BY <3>2, <3>3
  <2> QED  BY <2>1, <2>3, <2>4, RememberedStays DEF Memory
<1>3. CASE UNCHANGED vars
  BY <1>3 DEF vars, world, Memory, Remembered, Listens, Heard, OptedOut
<1> QED  BY <1>1, <1>2, <1>3 DEF Next

\* With one job at a time, a prospect whose reply a detection has recorded, or who was stopped, is
\* never taken as far as a follow-up again: whatever X shows by then, whatever fails or crashes.
THEOREM RepliesAreFinal ==
  ASSUME \A a, b \in Actors : a = b
  PROVE  Spec => []RepliesEndFollowUps
<1>1. Memory => RepliesEndFollowUps
  BY DEF Memory, Listens, RepliesEndFollowUps
<1>2. Typed /\ OneConversation /\ [Next]_vars => OneConversation'
  BY OneConversationStep
<1>3. Typed /\ OneConversation /\ Memory /\ [Next]_vars => Memory'
  BY MemoryStep
<1> QED  BY <1>1, <1>2, <1>3, TypedInit, TypedStep, OneConversationInit, MemoryInit, PTL DEF Spec

\* With one job at a time, a recorded opt-out stops the prospect for every later outreach,
\* whatever its score, the threshold and its evidence say.
THEOREM OptOutsAreFinal ==
  ASSUME \A a, b \in Actors : a = b
  PROVE  Spec => []OptOutIsFinal
<1>1. Typed /\ OneConversation /\ Memory => OptOutIsFinal
  <2> SUFFICES ASSUME Typed, OneConversation, Memory,
                      NEW p \in Prospects, <<p, "OPTED_OUT">> \in auditLog
               PROVE  \E c \in LatestConversations(p) : conversations[c].classification = "OPT_OUT"
    BY DEF OptOutIsFinal, OutreachEligibility
  <2>1. PICK c \in Conversations :
          conversations[c].prospect = p /\ conversations[c].classification = "OPT_OUT"
    BY DEF Memory, Remembered, OptedOut
  <2>2. LatestConversations(p) = {c}
    BY <2>1, LatestIsTheOne DEF OneConversation
  <2> QED  BY <2>1, <2>2
<1>2. Typed /\ OneConversation /\ [Next]_vars => OneConversation'
  BY OneConversationStep
<1>3. Typed /\ OneConversation /\ Memory /\ [Next]_vars => Memory'
  BY MemoryStep
<1> QED  BY <1>1, <1>2, <1>3, TypedInit, TypedStep, OneConversationInit, MemoryInit, PTL DEF Spec
=============================================================================
