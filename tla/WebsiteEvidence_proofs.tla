------------------------ MODULE WebsiteEvidence_proofs ------------------------
(***************************************************************************)
(* What holds of the website batch for any number of prospects, pages,     *)
(* runs and budgets, however often calls die and runs are resumed, and of  *)
(* the score for any facts.                                                *)
(***************************************************************************)
EXTENDS WebsiteEvidence, FiniteSetTheorems, TLAPS

\* A call is about a run, has read a budget, and visits a prospect with a website page by page.
CallsAreAboutRuns ==
  /\ call.pc # "idle" => call.run \in Runs /\ call.budget \in Budgets
  /\ call.pc \in {"mine", "pages"} => call.prospect \in Prospects
  /\ call.pc = "pages" => call.prospect \in HasDomain /\ call.page >= 1

Typed == WebsiteTypeOK /\ CallsAreAboutRuns
-----------------------------------------------------------------------------
(* Typing.                                                                   *)

LEMMA Bounds ==
  /\ MaxPages \in Nat /\ MaxAborts \in Nat /\ Budgets \subseteq Nat /\ Budgets # {}
  /\ Pages \in Seq(Page) /\ Len(Pages) \in Nat /\ DOMAIN Pages = 1..Len(Pages)
  /\ HasDomain \subseteq Prospects /\ Nobody \notin Prospects
<1>1. Pages \in Seq(Page)
  BY PagesAssumption
<1> QED  BY <1>1, LimitsAssumption, ProspectsAssumption

LEMMA Records ==
  /\ EmptyCheckpoint \in Checkpoint /\ EmptyCheckpoint.scrapesUsed = 0 /\ EmptyCheckpoint.done = {}
  /\ NoCall \in Call /\ NoCall.pc = "idle"
<1>1. EmptyCheckpoint \in Checkpoint /\ EmptyCheckpoint.scrapesUsed = 0 /\ EmptyCheckpoint.done = {}
  BY DEF EmptyCheckpoint, Checkpoint
<1>2. NoCall \in Call /\ NoCall.pc = "idle"
  BY <1>1 DEF NoCall, Call
<1> QED  BY <1>1, <1>2

LEMMA CheckpointUpdates ==
  ASSUME NEW c \in Checkpoint
  PROVE  /\ \A x \in SUBSET Prospects : [c EXCEPT !.done = x] \in Checkpoint
         /\ \A x \in SUBSET Prospects : [c EXCEPT !.errors = x] \in Checkpoint
         /\ \A x \in Nat : [c EXCEPT !.scrapesUsed = x] \in Checkpoint
         /\ \A x \in {"in_progress", "completed", "budget_exhausted"} :
              [c EXCEPT !.stoppedReason = x] \in Checkpoint
         /\ c.done \in SUBSET Prospects /\ c.errors \in SUBSET Prospects /\ c.scrapesUsed \in Nat
BY DEF Checkpoint

LEMMA CallUpdates ==
  ASSUME NEW c \in Call
  PROVE  /\ \A x \in {"idle", "next", "mine", "pages", "save", "finish", "complete"} :
              [c EXCEPT !.pc = x] \in Call
         /\ \A x \in Runs \cup {NoRun} : [c EXCEPT !.run = x] \in Call
         /\ \A x \in Nat : [c EXCEPT !.budget = x] \in Call
         /\ \A x \in Checkpoint : [c EXCEPT !.checkpoint = x] \in Call
         /\ \A x \in SUBSET Prospects : [c EXCEPT !.queue = x] \in Call
         /\ \A x \in Prospects \cup {Nobody} : [c EXCEPT !.prospect = x] \in Call
         /\ \A x \in Nat : [c EXCEPT !.page = x] \in Call
         /\ c.checkpoint \in Checkpoint /\ c.budget \in Nat /\ c.page \in Nat
         /\ c.queue \in SUBSET Prospects /\ c.prospect \in Prospects \cup {Nobody}
BY DEF Call

\* What a writer can store: no ad sighting, spend statement, paid channel, product line or funnel.
Storable == Roles \cup {"paid_media_job_posting_90d", "correct_profile_identified",
                        "employee_count_band", "warehouse_fulfillment_signal",
                        "confirmed_revenue_statement", "public_visibility"}

LEMMA StorableFacts ==
  /\ Storable \subseteq SignalCategories
  /\ \A p : CorrectProfile(p) \subseteq Storable
  /\ \A p, page : FactsOn(p, page) \subseteq Storable
BY DEF Storable, SignalCategories, RevenueSignals, PaidSignals, Roles, DecisionMakerSignals,
       MaturitySignals, CorrectProfile, FactsOn

LEMMA StorableTriggers ==
  ASSUME NEW page
  PROVE  TriggersOn(page) \subseteq [type: ValidTriggerTypes, sourced: {TRUE}]
<1>1. ASSUME NEW t \in ValidTriggerTypes
      PROVE  [type |-> t, sourced |-> TRUE] \in [type: ValidTriggerTypes, sourced: {TRUE}]
  OBVIOUS
<1>2. {"new_product_launch", "store_brand_expansion", "funding_growth_announcement",
       "funnel_offer_change"} \subseteq ValidTriggerTypes
  BY DEF ValidTriggerTypes
<1> QED  BY <1>1, <1>2 DEF TriggersOn

LEMMA TypedInit == Init => Typed
<1> SUFFICES ASSUME Init PROVE Typed  OBVIOUS
<1>1. facts \in [Prospects -> SUBSET SignalCategories]
  <2>1. Roles \cup {"paid_media_job_posting_90d"} \subseteq SignalCategories
    BY DEF SignalCategories, DecisionMakerSignals, PaidSignals
  <2> QED  BY <2>1 DEF Init
<1>2. /\ triggers \in [Prospects -> SUBSET [type: ValidTriggerTypes, sourced: {TRUE}]]
      /\ detected = {} /\ linked = {}
      /\ fetches \in [Runs -> Nat] /\ tried \in [Runs -> SUBSET (Prospects \X DOMAIN Pages)]
      /\ aborts \in 0..MaxAborts
  BY Bounds DEF Init
<1>3. jobRuns \in [Runs -> JobRun] /\ call \in Call /\ call.pc = "idle"
  BY Records DEF Init, JobRun
<1> QED  BY <1>1, <1>2, <1>3 DEF Typed, WebsiteTypeOK, CallsAreAboutRuns

LEMMA TypedStep ==
  ASSUME Typed, [Next]_vars
  PROVE  Typed'
<1>0. /\ facts \in [Prospects -> SUBSET SignalCategories]
      /\ triggers \in [Prospects -> SUBSET [type: ValidTriggerTypes, sourced: {TRUE}]]
      /\ jobRuns \in [Runs -> JobRun] /\ call \in Call /\ ck \in Checkpoint
      /\ fetches \in [Runs -> Nat] /\ tried \in [Runs -> SUBSET (Prospects \X DOMAIN Pages)]
      /\ aborts \in 0..MaxAborts
  BY CallUpdates DEF Typed, WebsiteTypeOK, ck
<1>about. /\ call.pc # "idle" => call.run \in Runs /\ call.budget \in Budgets
          /\ call.pc \in {"mine", "pages"} => call.prospect \in Prospects
          /\ call.pc = "pages" => call.prospect \in HasDomain /\ call.page >= 1
  BY DEF Typed, CallsAreAboutRuns
\* Most steps change the call alone.
<1>call. ASSUME UNCHANGED <<scoreInputs, jobRuns, fetches, tried, aborts>>, call' \in Call,
                CallsAreAboutRuns'
         PROVE  Typed'
  BY <1>call DEF Typed, WebsiteTypeOK, scoreInputs
<1>1. ASSUME NEW j \in Runs, NEW budget \in Budgets, NEW items \in SUBSET Prospects,
             StartBatch(j, budget, items) \/ ResumeBatch(j, budget, items)
      PROVE  Typed'
  <2>1. PICK c \in Checkpoint, q \in SUBSET Prospects : Begin(j, budget, c, q)
    <3>1. CASE StartBatch(j, budget, items)
      BY <3>1, Records DEF StartBatch
    <3>2. CASE ResumeBatch(j, budget, items)
      <4> DEFINE saved == jobRuns[j].checkpoint
                 c == [saved EXCEPT !.stoppedReason = "in_progress"]
      <4>1. saved \in Checkpoint
        BY <1>0 DEF JobRun
      <4>2. c \in Checkpoint
        BY <4>1, CheckpointUpdates
      <4>3. Begin(j, budget, c, items \ (saved.done \cup saved.errors))
        BY <3>2 DEF ResumeBatch
      <4> QED  BY <4>2, <4>3
    <3> QED  BY <1>1, <3>1, <3>2
  <2>2. jobRuns' \in [Runs -> JobRun]
    <3>1. [jobRuns[j] EXCEPT !.status = "running"] \in JobRun
      BY <1>0 DEF JobRun
    <3> QED  BY <1>0, <2>1, <3>1 DEF Begin
  <2>3. /\ call' \in Call /\ call'.pc = "next" /\ call'.run = j /\ call'.budget = budget
    <3>1. budget \in Nat
      BY Bounds
    <3> QED  BY <2>1, <3>1, Records DEF Begin, NoCall, Call
  <2> QED  BY <2>1, <2>2, <2>3 DEF Begin, Typed, WebsiteTypeOK, CallsAreAboutRuns, scoreInputs
<1>2. CASE NextProspect
  <2>1. CASE call' = [call EXCEPT !.pc = "finish", !.queue = {}, !.checkpoint.stoppedReason =
                       IF call.queue = {} THEN "completed" ELSE "budget_exhausted"]
    <3> DEFINE c == [ck EXCEPT !.stoppedReason =
                       IF call.queue = {} THEN "completed" ELSE "budget_exhausted"]
    <3>1. c \in Checkpoint
      BY <1>0, CheckpointUpdates
    <3>2. call' = [[[call EXCEPT !.pc = "finish"] EXCEPT !.queue = {}] EXCEPT !.checkpoint = c]
      BY <1>0, <2>1 DEF ck, Call
    <3> HIDE DEF c
    <3>3. call' \in Call
      BY <1>0, <3>1, <3>2, CallUpdates
    <3>4. call'.pc = "finish" /\ call'.run = call.run /\ call'.budget = call.budget
      BY <1>0, <3>2 DEF Call
    <3>5. CallsAreAboutRuns'
      BY <1>2, <1>about, <3>4 DEF NextProspect, CallsAreAboutRuns
    <3> QED  BY <1>2, <1>call, <3>3, <3>5 DEF NextProspect
  <2>2. ASSUME NEW p \in call.queue,
               call' = [call EXCEPT !.pc = "mine", !.queue = @ \ {p}, !.prospect = p]
        PROVE  Typed'
    <3>1. p \in Prospects /\ call.queue \ {p} \in SUBSET Prospects
      BY <1>0, CallUpdates
    <3>2. call' = [[[call EXCEPT !.pc = "mine"] EXCEPT !.queue = call.queue \ {p}] EXCEPT !.prospect = p]
      BY <1>0, <2>2 DEF Call
    <3>3. call' \in Call
      BY <1>0, <3>1, <3>2, CallUpdates
    <3>4. /\ call'.pc = "mine" /\ call'.run = call.run /\ call'.budget = call.budget
          /\ call'.prospect = p
      BY <1>0, <2>2 DEF Call
    <3>5. CallsAreAboutRuns'
      BY <1>2, <1>about, <3>1, <3>4 DEF NextProspect, CallsAreAboutRuns
    <3> QED  BY <1>2, <1>call, <3>3, <3>5 DEF NextProspect
  <2> QED  BY <1>2, <2>1, <2>2 DEF NextProspect
<1>3. CASE MineProfile
  <2>1. /\ call.prospect \in Prospects /\ call.pc = "mine"
        /\ UNCHANGED <<triggers, detected, linked, jobRuns, fetches, tried, aborts>>
    BY <1>3, <1>about DEF MineProfile
  <2>2. CASE call.prospect \in HasDomain
    <3>1. /\ facts' = [facts EXCEPT ![call.prospect] = @ \cup CorrectProfile(call.prospect)]
          /\ call' = [call EXCEPT !.pc = "pages", !.page = 1]
      BY <1>3, <2>2 DEF MineProfile
    <3>2. facts' \in [Prospects -> SUBSET SignalCategories]
      BY <1>0, <2>1, <3>1, StorableFacts
    <3>3. call' \in Call
      BY <1>0, <3>1, CallUpdates
    <3>4. /\ call'.pc = "pages" /\ call'.page = 1 /\ call'.prospect = call.prospect
          /\ call'.run = call.run /\ call'.budget = call.budget
      BY <1>0, <3>1 DEF Call
    <3>5. CallsAreAboutRuns'
      BY <1>about, <2>1, <2>2, <3>4 DEF CallsAreAboutRuns
    <3> QED  BY <2>1, <3>2, <3>3, <3>5 DEF Typed, WebsiteTypeOK
  <2>3. CASE call.prospect \notin HasDomain
    <3> DEFINE c == [ck EXCEPT !.done = @ \cup {call.prospect}]
    <3>1. c \in Checkpoint
      BY <1>0, <2>1, CheckpointUpdates
    <3>2. /\ UNCHANGED facts
          /\ call' = [call EXCEPT !.pc = "save", !.checkpoint.done = @ \cup {call.prospect}]
      BY <1>3, <2>3 DEF MineProfile
    <3>3. call' = [[call EXCEPT !.pc = "save"] EXCEPT !.checkpoint = c]
      BY <1>0, <3>2 DEF ck, Call
    <3> HIDE DEF c
    <3>4. call' \in Call
      BY <1>0, <3>1, <3>3, CallUpdates
    <3>5. call'.pc = "save" /\ call'.run = call.run /\ call'.budget = call.budget
      BY <1>0, <3>3 DEF Call
    <3>6. CallsAreAboutRuns'
      BY <1>about, <2>1, <3>5 DEF CallsAreAboutRuns
    <3> QED  BY <1>call, <2>1, <3>2, <3>4, <3>6 DEF scoreInputs
  <2> QED  BY <2>2, <2>3
<1>4. ASSUME NEW answered, FetchPage(answered) PROVE Typed'
  <2> DEFINE p == call.prospect
             page == Pages[call.page]
             c == [ck EXCEPT !.scrapesUsed = @ + 1]
  <2>1. /\ call.pc = "pages" /\ p \in Prospects /\ call.run \in Runs /\ call.page >= 1
        /\ call.page \in DOMAIN Pages /\ call.page + 1 \in Nat /\ call.page + 1 >= 1
    <3>1. call.pc = "pages" /\ call.page <= Len(Pages)
      BY <1>4 DEF FetchPage, MayFetchAnother
    <3>2. call.page \in Nat
      BY <1>0, CallUpdates
    <3> QED  BY <1>about, <3>1, <3>2, Bounds
  <2>2. fetches' \in [Runs -> Nat]
    BY <1>0, <1>4, <2>1 DEF FetchPage
  <2>3. tried' \in [Runs -> SUBSET (Prospects \X DOMAIN Pages)]
    BY <1>0, <1>4, <2>1 DEF FetchPage
  <2>4. facts' \in [Prospects -> SUBSET SignalCategories]
    <3>1. facts' = IF answered THEN [facts EXCEPT ![p] = @ \cup FactsOn(p, page)] ELSE facts
      BY <1>4 DEF FetchPage
    <3>2. FactsOn(p, page) \subseteq SignalCategories
      BY StorableFacts
    <3> HIDE DEF page, p
    <3> QED  BY <1>0, <2>1, <3>1, <3>2
  <2>5. triggers' \in [Prospects -> SUBSET [type: ValidTriggerTypes, sourced: {TRUE}]]
    <3>1. triggers' = IF answered THEN [triggers EXCEPT ![p] = @ \cup TriggersOn(page)] ELSE triggers
      BY <1>4 DEF FetchPage
    <3>2. TriggersOn(page) \subseteq [type: ValidTriggerTypes, sourced: {TRUE}]
      BY StorableTriggers
    <3> HIDE DEF page, p
    <3> QED  BY <1>0, <2>1, <3>1, <3>2
  <2>6. c \in Checkpoint
    <3>1. ck.scrapesUsed \in Nat
      BY <1>0, CheckpointUpdates
    <3>2. ck.scrapesUsed + 1 \in Nat
      BY <3>1
    <3> QED  BY <1>0, <3>2, CheckpointUpdates
  <2>7. call' = [[call EXCEPT !.page = call.page + 1] EXCEPT !.checkpoint = c]
    BY <1>0, <1>4 DEF FetchPage, ck, Call
  <2>8. UNCHANGED <<detected, linked, jobRuns, aborts>>
    BY <1>4 DEF FetchPage
  <2> HIDE DEF c
  <2>9. call' \in Call
    BY <1>0, <2>1, <2>6, <2>7, CallUpdates
  <2>10. /\ call'.pc = "pages" /\ call'.page = call.page + 1 /\ call'.prospect = call.prospect
         /\ call'.run = call.run /\ call'.budget = call.budget
    BY <1>0, <2>1, <2>7 DEF Call
  <2>11. CallsAreAboutRuns'
    BY <1>0, <1>about, <2>1, <2>10, CallUpdates DEF CallsAreAboutRuns
  <2> QED  BY <2>2, <2>3, <2>4, <2>5, <2>8, <2>9, <2>11 DEF Typed, WebsiteTypeOK
<1>5. CASE ProspectDone \/ ProspectThrows
  <2>1. /\ call.pc \in {"mine", "pages"} /\ call.prospect \in Prospects
        /\ UNCHANGED <<scoreInputs, jobRuns, fetches, tried, aborts>>
    BY <1>5, <1>about DEF ProspectDone, ProspectThrows
  <2>2. PICK c \in Checkpoint : call' = [[call EXCEPT !.pc = "save"] EXCEPT !.checkpoint = c]
    <3>1. CASE ProspectDone
      <4>1. [ck EXCEPT !.done = @ \cup {call.prospect}] \in Checkpoint
        BY <1>0, <2>1, CheckpointUpdates
      <4>2. call' = [[call EXCEPT !.pc = "save"] EXCEPT !.checkpoint =
                       [ck EXCEPT !.done = @ \cup {call.prospect}]]
        BY <1>0, <3>1 DEF ProspectDone, ck, Call
      <4> QED  BY <4>1, <4>2
    <3>2. CASE ProspectThrows
      <4>1. [ck EXCEPT !.errors = @ \cup {call.prospect}] \in Checkpoint
        BY <1>0, <2>1, CheckpointUpdates
      <4>2. call' = [[call EXCEPT !.pc = "save"] EXCEPT !.checkpoint =
                       [ck EXCEPT !.errors = @ \cup {call.prospect}]]
        BY <1>0, <3>2 DEF ProspectThrows, ck, Call
      <4> QED  BY <4>1, <4>2
    <3> QED  BY <1>5, <3>1, <3>2
  <2>3. call' \in Call
    BY <1>0, <2>2, CallUpdates
  <2>4. call'.pc = "save" /\ call'.run = call.run /\ call'.budget = call.budget
    BY <1>0, <2>2 DEF Call
  <2>5. CallsAreAboutRuns'
    BY <1>about, <2>1, <2>4 DEF CallsAreAboutRuns
  <2> QED  BY <1>call, <2>1, <2>3, <2>5
<1>6. CASE Save
  <2>1. call.pc \in {"save", "finish"} /\ call.run \in Runs
    BY <1>6, <1>about DEF Save
  <2>2. jobRuns' \in [Runs -> JobRun]
    <3>1. [jobRuns[call.run] EXCEPT !.checkpoint = ck] \in JobRun
      BY <1>0, <2>1 DEF JobRun
    <3> QED  BY <1>0, <1>6, <2>1, <3>1 DEF Save
  <2>3. PICK pc \in {"next", "complete"} :
          call' = [call EXCEPT !.pc = pc, !.prospect = Nobody, !.page = 0]
    BY <1>6 DEF Save
  <2>4. call' \in Call
    BY <1>0, <2>3, CallUpdates
  <2>5. call'.pc = pc /\ call'.run = call.run /\ call'.budget = call.budget
    BY <1>0, <2>3 DEF Call
  <2>6. CallsAreAboutRuns'
    BY <1>about, <2>1, <2>5 DEF CallsAreAboutRuns
  <2> QED  BY <1>6, <2>2, <2>4, <2>6 DEF Save, Typed, WebsiteTypeOK, scoreInputs
<1>7. CASE Complete
  <2>1. jobRuns' \in [Runs -> JobRun]
    <3>1. [jobRuns[call.run] EXCEPT !.status = "completed"] \in JobRun
      BY <1>0, <1>7, <1>about DEF Complete, JobRun
    <3> QED  BY <1>0, <1>7, <3>1 DEF Complete
  <2>2. call' \in Call /\ CallsAreAboutRuns'
    BY <1>7, Records DEF Complete, CallsAreAboutRuns
  <2> QED  BY <1>7, <2>1, <2>2 DEF Complete, Typed, WebsiteTypeOK, scoreInputs
<1>8. CASE Abort
  <2>1. aborts' \in 0..MaxAborts
    BY <1>0, <1>8, Bounds DEF Abort
  <2>2. call' \in Call /\ CallsAreAboutRuns'
    BY <1>8, Records DEF Abort, CallsAreAboutRuns
  <2> QED  BY <1>8, <2>1, <2>2 DEF Abort, Typed, WebsiteTypeOK, scoreInputs
<1>9. ASSUME NEW technologies \in {{}, {"Klaviyo", "Recharge", "GA4"}}, NEW handles \in {{}, HasDomain},
             Rescan(technologies, handles)
      PROVE  Typed'
  <2>1. technologies \subseteq RetentionTools \cup AnalyticsTags
    BY DEF RetentionTools, AnalyticsTags
  <2> QED  BY <1>9, <2>1 DEF Rescan, Typed, WebsiteTypeOK, CallsAreAboutRuns
<1>10. CASE UNCHANGED vars
  BY <1>10 DEF vars, scoreInputs, Typed, WebsiteTypeOK, CallsAreAboutRuns
<1> QED  BY <1>1, <1>2, <1>3, <1>4, <1>5, <1>6, <1>7, <1>8, <1>9, <1>10 DEF Next

\* Whatever is resumed, thrown or cut off, every row and the call keep the fields the code gives.
THEOREM TypeCorrect == Spec => []WebsiteTypeOK
<1>1. Typed => WebsiteTypeOK
  BY DEF Typed
<1> QED  BY <1>1, TypedInit, TypedStep, PTL DEF Spec
-----------------------------------------------------------------------------
(* What the steps of a batch do to the checkpoints.                          *)

SavedUse(j) == jobRuns[j].checkpoint.scrapesUsed

\* A run that was never started has fetched and saved nothing, and no call is about it.
FreshRuns ==
  \A j \in Runs : jobRuns[j].status = "none" =>
    /\ fetches[j] = 0 /\ jobRuns[j].checkpoint = EmptyCheckpoint
    /\ call.pc # "idle" => call.run # j

CheckpointsKept == \A i \in Runs : jobRuns'[i].checkpoint = jobRuns[i].checkpoint

\* The call goes on about the same run.
SameRun == call'.run = call.run /\ call'.budget = call.budget

LEMMA TypeFacts ==
  ASSUME Typed
  PROVE  /\ jobRuns \in [Runs -> JobRun] /\ call \in Call /\ ck \in Checkpoint
         /\ fetches \in [Runs -> Nat] /\ tried \in [Runs -> SUBSET (Prospects \X DOMAIN Pages)]
         /\ aborts \in 0..MaxAborts /\ aborts \in Nat /\ call.page \in Nat /\ ck.scrapesUsed \in Nat
         /\ call.pc # "idle" => call.run \in Runs /\ call.budget \in Budgets
         /\ \A j \in Runs : SavedUse(j) \in Nat
<1>1. jobRuns \in [Runs -> JobRun] /\ call \in Call /\ ck \in Checkpoint /\ aborts \in 0..MaxAborts
  BY CallUpdates DEF Typed, WebsiteTypeOK, ck
<1>2. \A j \in Runs : jobRuns[j].checkpoint \in Checkpoint
  BY <1>1 DEF JobRun
<1>3. ck.scrapesUsed \in Nat /\ \A j \in Runs : SavedUse(j) \in Nat
  BY <1>1, <1>2, CheckpointUpdates DEF SavedUse
<1>4. call.page \in Nat
  BY <1>1, CallUpdates
<1>5. aborts \in Nat
  BY <1>1, Bounds
<1>6. /\ fetches \in [Runs -> Nat] /\ tried \in [Runs -> SUBSET (Prospects \X DOMAIN Pages)]
      /\ call.pc # "idle" => call.run \in Runs /\ call.budget \in Budgets
  BY DEF Typed, WebsiteTypeOK, CallsAreAboutRuns
<1> QED  BY <1>1, <1>3, <1>4, <1>5, <1>6

LEMMA StartEffect ==
  ASSUME Typed, FreshRuns, NEW j \in Runs, NEW b \in Budgets, NEW items \in SUBSET Prospects,
         StartBatch(j, b, items) \/ ResumeBatch(j, b, items)
  PROVE  /\ call.pc = "idle" /\ call'.pc = "next" /\ call'.run = j /\ call'.budget = b
         /\ ck'.scrapesUsed = SavedUse(j) /\ ck'.done = jobRuns[j].checkpoint.done
         /\ CheckpointsKept /\ UNCHANGED <<scoreInputs, fetches, tried, aborts>>
         /\ \A i \in Runs : jobRuns'[i].status = "none" => jobRuns[i].status = "none" /\ i # j
<1>0. jobRuns \in [Runs -> JobRun] /\ jobRuns[j] \in JobRun /\ jobRuns[j].checkpoint \in Checkpoint
  BY TypeFacts DEF JobRun
<1> DEFINE saved == jobRuns[j].checkpoint
<1>1. PICK c, q : Begin(j, b, c, q) /\ c.scrapesUsed = saved.scrapesUsed /\ c.done = saved.done
  <2>1. CASE StartBatch(j, b, items)
    BY <2>1 DEF StartBatch, FreshRuns
  <2>2. CASE ResumeBatch(j, b, items)
    <3>1. Begin(j, b, [saved EXCEPT !.stoppedReason = "in_progress"],
                items \ (saved.done \cup saved.errors))
      BY <2>2 DEF ResumeBatch
    <3>2. /\ [saved EXCEPT !.stoppedReason = "in_progress"].scrapesUsed = saved.scrapesUsed
          /\ [saved EXCEPT !.stoppedReason = "in_progress"].done = saved.done
      BY <1>0 DEF Checkpoint
    <3> QED  BY <3>1, <3>2
  <2> QED  BY <2>1, <2>2
<1>3. call.pc = "idle" /\ call'.pc = "next" /\ call'.run = j /\ call'.budget = b /\ ck' = c
  BY <1>1 DEF Begin, NoCall, ck
<1>4. /\ CheckpointsKept
      /\ \A i \in Runs : jobRuns'[i].status = "none" => jobRuns[i].status = "none" /\ i # j
  BY <1>0, <1>1 DEF Begin, CheckpointsKept, JobRun
<1> QED  BY <1>1, <1>3, <1>4 DEF Begin, SavedUse

LEMMA NextProspectEffect ==
  ASSUME Typed, NextProspect
  PROVE  /\ call.pc = "next" /\ call'.pc \in {"finish", "mine"} /\ SameRun
         /\ ck'.scrapesUsed = ck.scrapesUsed /\ ck'.done = ck.done
         /\ UNCHANGED <<scoreInputs, jobRuns, fetches, tried, aborts>>
<1>0. call \in Call /\ ck \in Checkpoint
  BY TypeFacts
<1>1. ASSUME NEW r,
             call' = [call EXCEPT !.pc = "finish", !.queue = {}, !.checkpoint.stoppedReason = r]
      PROVE  /\ call'.pc = "finish" /\ SameRun
             /\ ck'.scrapesUsed = ck.scrapesUsed /\ ck'.done = ck.done
  <2>1. ck' = [ck EXCEPT !.stoppedReason = r] /\ call'.pc = "finish" /\ SameRun
    BY <1>0, <1>1 DEF SameRun, ck, Call
  <2> QED  BY <1>0, <2>1 DEF Checkpoint
<1>2. ASSUME NEW p, call' = [call EXCEPT !.pc = "mine", !.queue = @ \ {p}, !.prospect = p]
      PROVE  /\ call'.pc = "mine" /\ SameRun
             /\ ck'.scrapesUsed = ck.scrapesUsed /\ ck'.done = ck.done
  BY <1>0, <1>2 DEF SameRun, ck, Call
<1>3. call.pc = "next" /\ UNCHANGED <<scoreInputs, jobRuns, fetches, tried, aborts>>
  BY DEF NextProspect
<1>4. CASE call.queue = {} \/ ck.scrapesUsed >= call.budget
  BY <1>1, <1>3, <1>4 DEF NextProspect
<1>5. CASE ~(call.queue = {} \/ ck.scrapesUsed >= call.budget)
  BY <1>2, <1>3, <1>5 DEF NextProspect
<1> QED  BY <1>4, <1>5

LEMMA MineEffect ==
  ASSUME Typed, MineProfile
  PROVE  /\ call.pc = "mine" /\ SameRun /\ ck'.scrapesUsed = ck.scrapesUsed
         /\ UNCHANGED <<triggers, detected, linked, jobRuns, fetches, tried, aborts>>
         /\ \/ /\ call'.pc = "pages" /\ call'.page = 1 /\ call'.prospect = call.prospect
               /\ call.prospect \in HasDomain /\ ck'.done = ck.done
               /\ facts' = [facts EXCEPT ![call.prospect] = @ \cup CorrectProfile(call.prospect)]
            \/ /\ call'.pc = "save" /\ call.prospect \notin HasDomain
               /\ ck'.done = ck.done \cup {call.prospect} /\ UNCHANGED facts
<1>0. call \in Call /\ ck \in Checkpoint
  BY TypeFacts
<1>1. CASE call.prospect \in HasDomain
  <2>1. call' = [call EXCEPT !.pc = "pages", !.page = 1]
    BY <1>1 DEF MineProfile
  <2>2. /\ call'.pc = "pages" /\ call'.page = 1 /\ call'.prospect = call.prospect
        /\ SameRun /\ ck' = ck
    BY <1>0, <2>1 DEF SameRun, ck, Call
  <2> QED  BY <1>1, <2>2 DEF MineProfile
<1>2. CASE call.prospect \notin HasDomain
  <2>1. call' = [call EXCEPT !.pc = "save", !.checkpoint.done = @ \cup {call.prospect}]
    BY <1>2 DEF MineProfile
  <2>2. /\ call'.pc = "save" /\ SameRun /\ ck'.scrapesUsed = ck.scrapesUsed
        /\ ck'.done = ck.done \cup {call.prospect}
    BY <1>0, <2>1 DEF SameRun, ck, Call, Checkpoint
  <2> QED  BY <1>2, <2>2 DEF MineProfile
<1> QED  BY <1>1, <1>2

LEMMA FetchEffect ==
  ASSUME Typed, NEW answered, FetchPage(answered)
  PROVE  /\ call.pc = "pages" /\ call'.pc = "pages" /\ SameRun /\ call'.prospect = call.prospect
         /\ call.page <= Len(Pages) /\ call.page <= MaxPages /\ ck.scrapesUsed < call.budget
         /\ call'.page = call.page + 1 /\ ck'.scrapesUsed = ck.scrapesUsed + 1 /\ ck'.done = ck.done
         /\ fetches' = [fetches EXCEPT ![call.run] = @ + 1]
         /\ tried' = [tried EXCEPT ![call.run] = @ \cup {<<call.prospect, call.page>>}]
         /\ UNCHANGED <<detected, linked, jobRuns, aborts>>
<1>0. call \in Call /\ ck \in Checkpoint /\ call.pc = "pages"
  BY TypeFacts DEF FetchPage
<1>1. call' = [call EXCEPT !.page = @ + 1, !.checkpoint.scrapesUsed = @ + 1]
  BY DEF FetchPage
<1>2. /\ call'.pc = "pages" /\ SameRun /\ call'.prospect = call.prospect
      /\ call'.page = call.page + 1 /\ ck'.scrapesUsed = ck.scrapesUsed + 1 /\ ck'.done = ck.done
  BY <1>0, <1>1 DEF SameRun, ck, Call, Checkpoint
<1> QED  BY <1>0, <1>2 DEF FetchPage, MayFetchAnother

LEMMA EndOfProspectEffect ==
  ASSUME Typed, ProspectDone \/ ProspectThrows
  PROVE  /\ call.pc \in {"mine", "pages"} /\ call'.pc = "save" /\ SameRun
         /\ ck'.scrapesUsed = ck.scrapesUsed
         /\ UNCHANGED <<scoreInputs, jobRuns, fetches, tried, aborts>>
         /\ \/ ck'.done = ck.done
            \/ /\ call.pc = "pages" /\ ck'.done = ck.done \cup {call.prospect}
               /\ ~MayFetchAnother
<1>0. call \in Call /\ ck \in Checkpoint
  BY TypeFacts
<1>1. CASE ProspectDone
  <2>1. call' = [call EXCEPT !.pc = "save", !.checkpoint.done = @ \cup {call.prospect}]
    BY <1>1 DEF ProspectDone
  <2>2. /\ call'.pc = "save" /\ SameRun /\ ck'.scrapesUsed = ck.scrapesUsed
        /\ ck'.done = ck.done \cup {call.prospect}
    BY <1>0, <2>1 DEF SameRun, ck, Call, Checkpoint
  <2> QED  BY <1>1, <2>2 DEF ProspectDone
<1>2. CASE ProspectThrows
  <2>1. call' = [call EXCEPT !.pc = "save", !.checkpoint.errors = @ \cup {call.prospect}]
    BY <1>2 DEF ProspectThrows
  <2>2. /\ call'.pc = "save" /\ SameRun /\ ck'.scrapesUsed = ck.scrapesUsed /\ ck'.done = ck.done
    BY <1>0, <2>1 DEF SameRun, ck, Call, Checkpoint
  <2> QED  BY <1>2, <2>2 DEF ProspectThrows
<1> QED  BY <1>1, <1>2

LEMMA SaveEffect ==
  ASSUME Typed, Save
  PROVE  /\ \/ call.pc = "save" /\ call'.pc = "next"
            \/ call.pc = "finish" /\ call'.pc = "complete"
         /\ SameRun /\ ck' = ck /\ jobRuns'[call.run].checkpoint = ck
         /\ \A i \in Runs \ {call.run} : jobRuns'[i] = jobRuns[i]
         /\ \A i \in Runs : jobRuns'[i].status = jobRuns[i].status
         /\ UNCHANGED <<scoreInputs, fetches, tried, aborts>>
<1>0. /\ call \in Call /\ ck \in Checkpoint /\ jobRuns \in [Runs -> JobRun]
      /\ call.run \in Runs /\ jobRuns[call.run] \in JobRun
  BY TypeFacts DEF Save
<1>1. call' = [call EXCEPT !.pc = IF @ = "save" THEN "next" ELSE "complete",
                           !.prospect = Nobody, !.page = 0]
  BY DEF Save
<1>2. /\ call'.pc = (IF call.pc = "save" THEN "next" ELSE "complete") /\ SameRun /\ ck' = ck
  BY <1>0, <1>1 DEF SameRun, ck, Call
<1>3. /\ jobRuns'[call.run].checkpoint = ck
      /\ \A i \in Runs \ {call.run} : jobRuns'[i] = jobRuns[i]
      /\ \A i \in Runs : jobRuns'[i].status = jobRuns[i].status
  BY <1>0 DEF Save, JobRun
<1> QED  BY <1>2, <1>3 DEF Save

LEMMA CompleteEffect ==
  ASSUME Typed, Complete
  PROVE  /\ call.pc = "complete" /\ call'.pc = "idle" /\ CheckpointsKept
         /\ \A i \in Runs : jobRuns'[i].status = "none" => jobRuns[i].status = "none"
         /\ UNCHANGED <<scoreInputs, fetches, tried, aborts>>
<1>0. /\ jobRuns \in [Runs -> JobRun] /\ call.run \in Runs /\ jobRuns[call.run] \in JobRun
  BY TypeFacts DEF Complete
<1> QED  BY <1>0, Records DEF Complete, CheckpointsKept, JobRun

LEMMA AbortEffect ==
  ASSUME Abort
  PROVE  /\ call.pc # "idle" /\ call'.pc = "idle" /\ aborts' = aborts + 1
         /\ UNCHANGED <<scoreInputs, jobRuns, fetches, tried>>
BY Records DEF Abort

LEMMA FreshStep ==
  ASSUME Typed, Typed', FreshRuns, [Next]_vars
  PROVE  FreshRuns'
<1> USE DEF FreshRuns
<1>0. /\ jobRuns \in [Runs -> JobRun] /\ fetches \in [Runs -> Nat]
      /\ call.pc # "idle" => call.run \in Runs
  BY TypeFacts
<1>1. ASSUME NEW j \in Runs, NEW b \in Budgets, NEW items \in SUBSET Prospects,
             StartBatch(j, b, items) \/ ResumeBatch(j, b, items)
      PROVE  FreshRuns'
  BY <1>0, <1>1, StartEffect DEF CheckpointsKept
<1>2. CASE NextProspect
  BY <1>2, NextProspectEffect DEF SameRun
<1>3. CASE MineProfile
  BY <1>3, MineEffect DEF SameRun
<1>4. ASSUME NEW answered, FetchPage(answered) PROVE FreshRuns'
  <2>1. /\ call.pc = "pages" /\ SameRun /\ UNCHANGED jobRuns
        /\ fetches' = [fetches EXCEPT ![call.run] = @ + 1]
    BY <1>4, FetchEffect
  <2>2. \A j \in Runs \ {call.run} : fetches'[j] = fetches[j]
    BY <1>0, <2>1
  <2> QED  BY <1>0, <2>1, <2>2 DEF SameRun
<1>5. CASE ProspectDone \/ ProspectThrows
  BY <1>5, EndOfProspectEffect DEF SameRun
<1>6. CASE Save
  <2>1. /\ call.pc # "idle" /\ SameRun /\ UNCHANGED fetches
        /\ \A i \in Runs \ {call.run} : jobRuns'[i] = jobRuns[i]
        /\ \A i \in Runs : jobRuns'[i].status = jobRuns[i].status
    BY <1>6, SaveEffect
  <2> QED  BY <2>1 DEF SameRun
<1>7. CASE Complete
  BY <1>7, CompleteEffect DEF CheckpointsKept
<1>8. CASE Abort
  BY <1>8, AbortEffect
<1>9. ASSUME NEW technologies, NEW handles, Rescan(technologies, handles) PROVE FreshRuns'
  BY <1>9 DEF Rescan
<1>10. CASE UNCHANGED vars
  BY <1>10 DEF vars
<1> QED  BY <1>1, <1>2, <1>3, <1>4, <1>5, <1>6, <1>7, <1>8, <1>9, <1>10 DEF Next
-----------------------------------------------------------------------------
(* The budget of page fetches.                                               *)

\* A fetch is counted in the run's saved checkpoint, or in that of the call in progress, or it was
\* lost with a call that died; and no call has more to lose than the pages of one prospect.
SavedFetches ==
  \A j \in Runs : call.pc = "idle" \/ call.run # j => fetches[j] <= SavedUse(j) + aborts * MaxPages

CountedFetches ==
  call.pc # "idle" => /\ fetches[call.run] <= ck.scrapesUsed + aborts * MaxPages
                      /\ ck.scrapesUsed <= SavedUse(call.run) + MaxPages

UnsavedFetches ==
  /\ call.pc \in {"next", "mine", "complete"} => ck.scrapesUsed <= SavedUse(call.run)
  /\ call.pc = "pages" => /\ ck.scrapesUsed <= SavedUse(call.run) + (call.page - 1)
                          /\ call.page <= MaxPages + 1

FetchesAccountedFor == SavedFetches /\ CountedFetches /\ UnsavedFetches

\* No checkpoint counts more than some budget that a call has read.
UseWithinBudgets ==
  /\ \A j \in Runs : \E b \in Budgets : SavedUse(j) <= b
  /\ call.pc # "idle" => \E b \in Budgets : ck.scrapesUsed <= b

LEMMA AccountedStep ==
  ASSUME Typed, Typed', FreshRuns, FetchesAccountedFor, [Next]_vars
  PROVE  FetchesAccountedFor'
<1> USE DEF FetchesAccountedFor, SavedFetches, CountedFetches, UnsavedFetches
<1> DEFINE lost == aborts * MaxPages
<1>0. /\ jobRuns \in [Runs -> JobRun] /\ fetches \in [Runs -> Nat] /\ MaxPages \in Nat
      /\ call.pc # "idle" => call.run \in Runs
      /\ \A j \in Runs : SavedUse(j) \in Nat
      /\ ck.scrapesUsed \in Nat /\ call.page \in Nat /\ lost \in Nat /\ aborts \in Nat
  BY TypeFacts, Bounds
<1>1. ASSUME NEW j \in Runs, NEW b \in Budgets, NEW items \in SUBSET Prospects,
             StartBatch(j, b, items) \/ ResumeBatch(j, b, items)
      PROVE  FetchesAccountedFor'
  <2>1. /\ call.pc = "idle" /\ call'.pc = "next" /\ call'.run = j
        /\ ck'.scrapesUsed = SavedUse(j) /\ UNCHANGED <<fetches, aborts>>
        /\ \A i \in Runs : SavedUse(i)' = SavedUse(i)
    BY <1>1, StartEffect DEF CheckpointsKept, SavedUse
  <2> HIDE DEF lost
  <2>2. \A i \in Runs : fetches[i] <= SavedUse(i) + lost
    BY <2>1 DEF lost
  <2>3. lost' = lost
    BY <2>1 DEF lost
  <2> QED  BY <1>0, <2>1, <2>2, <2>3 DEF lost
<1>2. CASE NextProspect
  <2>1. /\ call.pc = "next" /\ call'.pc \in {"finish", "mine"} /\ SameRun
        /\ ck'.scrapesUsed = ck.scrapesUsed /\ UNCHANGED <<jobRuns, fetches, aborts>>
    BY <1>2, NextProspectEffect
  <2> QED  BY <1>0, <2>1 DEF SameRun, SavedUse
<1>3. CASE MineProfile
  <2>1. /\ call.pc = "mine" /\ SameRun /\ ck'.scrapesUsed = ck.scrapesUsed
        /\ UNCHANGED <<jobRuns, fetches, aborts>>
        /\ call'.pc \in {"save", "pages"} /\ (call'.pc = "pages" => call'.page = 1)
    <3>1. CASE call'.pc = "pages"
      BY <1>3, <3>1, MineEffect
    <3>2. CASE call'.pc # "pages"
      BY <1>3, <3>2, MineEffect
    <3> QED  BY <3>1, <3>2
  <2> QED  BY <1>0, <2>1 DEF SameRun, SavedUse
<1>4. ASSUME NEW answered, FetchPage(answered) PROVE FetchesAccountedFor'
  <2>1. /\ call.pc = "pages" /\ call'.pc = "pages" /\ SameRun /\ call.page <= MaxPages
        /\ call'.page = call.page + 1 /\ ck'.scrapesUsed = ck.scrapesUsed + 1
        /\ fetches' = [fetches EXCEPT ![call.run] = @ + 1] /\ UNCHANGED <<jobRuns, aborts>>
    BY <1>4, FetchEffect
  <2>2. /\ fetches'[call.run] = fetches[call.run] + 1
        /\ \A j \in Runs \ {call.run} : fetches'[j] = fetches[j]
    BY <1>0, <2>1
  <2>3. SavedFetches'
    BY <1>0, <2>1, <2>2 DEF SameRun, SavedUse
  <2>4. ck.scrapesUsed + 1 <= SavedUse(call.run) + MaxPages
    BY <1>0, <2>1
  <2>5. CountedFetches'
    <3> HIDE DEF lost
    <3>1. fetches[call.run] <= ck.scrapesUsed + lost /\ lost' = lost /\ lost \in Nat
      BY <1>0, <2>1 DEF lost
    <3>2. fetches'[call.run] <= ck'.scrapesUsed + lost'
      <4>1. fetches[call.run] \in Nat
        BY <1>0, <2>1
      <4> QED  BY <1>0, <2>1, <2>2, <3>1, <4>1
    <3> QED  BY <2>1, <2>4, <3>2 DEF SameRun, SavedUse, lost
  <2>6. UnsavedFetches'
    BY <1>0, <2>1 DEF SameRun, SavedUse
  <2> QED  BY <2>3, <2>5, <2>6
<1>5. CASE ProspectDone \/ ProspectThrows
  <2>1. /\ call.pc # "idle" /\ call'.pc = "save" /\ SameRun
        /\ ck'.scrapesUsed = ck.scrapesUsed /\ UNCHANGED <<jobRuns, fetches, aborts>>
    BY <1>5, EndOfProspectEffect
  <2> QED  BY <1>0, <2>1 DEF SameRun, SavedUse
<1>6. CASE Save
  <2>1. /\ call.pc # "idle" /\ call'.pc \in {"next", "complete"} /\ SameRun /\ ck' = ck
        /\ UNCHANGED <<fetches, aborts>> /\ SavedUse(call.run)' = ck.scrapesUsed
        /\ \A i \in Runs \ {call.run} : SavedUse(i)' = SavedUse(i)
    BY <1>6, SaveEffect DEF SavedUse, SameRun
  <2> QED  BY <1>0, <2>1 DEF SameRun
<1>7. CASE Complete
  <2>1. /\ call.pc = "complete" /\ call'.pc = "idle" /\ UNCHANGED <<fetches, aborts>>
        /\ \A i \in Runs : SavedUse(i)' = SavedUse(i)
    BY <1>7, CompleteEffect DEF CheckpointsKept, SavedUse
  <2>2. \A j \in Runs : fetches[j] <= SavedUse(j) + lost
    <3>1. fetches[call.run] <= SavedUse(call.run) + lost
      <4> HIDE DEF lost
      <4>1. fetches[call.run] <= ck.scrapesUsed + lost /\ ck.scrapesUsed <= SavedUse(call.run)
        BY <2>1 DEF lost
      <4>2. /\ fetches[call.run] \in Nat /\ SavedUse(call.run) \in Nat /\ ck.scrapesUsed \in Nat
            /\ lost \in Nat
        BY <1>0, <2>1
      <4> QED  BY <4>1, <4>2
    <3> QED  BY <3>1
  <2> QED  BY <2>1, <2>2
<1>8. CASE Abort
  <2>1. /\ call.pc # "idle" /\ call'.pc = "idle" /\ aborts' = aborts + 1
        /\ UNCHANGED <<jobRuns, fetches>>
    BY <1>8, AbortEffect
  <2>2. lost' = lost + MaxPages
    BY <1>0, <2>1
  <2>3. ASSUME NEW j \in Runs PROVE fetches[j] <= SavedUse(j) + (lost + MaxPages)
    <3>1. \/ fetches[j] <= SavedUse(j) + lost
          \/ fetches[j] <= ck.scrapesUsed + lost /\ ck.scrapesUsed <= SavedUse(j) + MaxPages
      BY <2>1
    <3>2. fetches[j] \in Nat /\ SavedUse(j) \in Nat /\ ck.scrapesUsed \in Nat /\ lost \in Nat
      BY <1>0
    <3> HIDE DEF lost
    <3> QED  BY <1>0, <3>1, <3>2
  <2> QED  BY <2>1, <2>2, <2>3 DEF SavedUse
<1>9. ASSUME NEW technologies, NEW handles, Rescan(technologies, handles)
      PROVE  FetchesAccountedFor'
  BY <1>9 DEF Rescan, SavedUse, ck
<1>10. CASE UNCHANGED vars
  BY <1>10 DEF vars, SavedUse, ck
<1> QED  BY <1>1, <1>2, <1>3, <1>4, <1>5, <1>6, <1>7, <1>8, <1>9, <1>10 DEF Next

LEMMA UseStep ==
  ASSUME Typed, FreshRuns, UseWithinBudgets, [Next]_vars
  PROVE  UseWithinBudgets'
<1> USE DEF UseWithinBudgets
<1>0. /\ call.pc # "idle" => call.run \in Runs /\ call.budget \in Budgets
      /\ ck.scrapesUsed \in Nat /\ Budgets \subseteq Nat
  BY TypeFacts, Bounds
<1>1. ASSUME NEW j \in Runs, NEW b \in Budgets, NEW items \in SUBSET Prospects,
             StartBatch(j, b, items) \/ ResumeBatch(j, b, items)
      PROVE  UseWithinBudgets'
  BY <1>1, StartEffect DEF CheckpointsKept, SavedUse
<1>2. CASE NextProspect
  BY <1>2, NextProspectEffect DEF SavedUse
<1>3. CASE MineProfile
  BY <1>3, MineEffect DEF SavedUse
<1>4. ASSUME NEW answered, FetchPage(answered) PROVE UseWithinBudgets'
  <2>1. /\ call.pc # "idle" /\ ck.scrapesUsed < call.budget
        /\ ck'.scrapesUsed = ck.scrapesUsed + 1 /\ UNCHANGED jobRuns
    BY <1>4, FetchEffect
  <2>2. call.budget \in Budgets /\ call.budget \in Nat
    BY <1>0, <2>1
  <2>3. ck'.scrapesUsed <= call.budget
    BY <1>0, <2>1, <2>2
  <2> QED  BY <2>1, <2>2, <2>3 DEF SavedUse
<1>5. CASE ProspectDone \/ ProspectThrows
  BY <1>5, EndOfProspectEffect DEF SavedUse
<1>6. CASE Save
  <2>1. /\ call.pc # "idle" /\ ck' = ck /\ SameRun /\ SavedUse(call.run)' = ck.scrapesUsed
        /\ \A i \in Runs \ {call.run} : SavedUse(i)' = SavedUse(i)
    BY <1>6, SaveEffect DEF SavedUse, SameRun
  <2>2. ASSUME NEW i \in Runs PROVE \E b \in Budgets : SavedUse(i)' <= b
    BY <2>1 DEF SameRun
  <2> QED  BY <2>1, <2>2
<1>7. CASE Complete
  BY <1>7, CompleteEffect DEF CheckpointsKept, SavedUse
<1>8. CASE Abort
  BY <1>8, AbortEffect DEF SavedUse
<1>9. ASSUME NEW technologies, NEW handles, Rescan(technologies, handles) PROVE UseWithinBudgets'
  BY <1>9 DEF Rescan, SavedUse, ck
<1>10. CASE UNCHANGED vars
  BY <1>10 DEF vars, SavedUse, ck
<1> QED  BY <1>1, <1>2, <1>3, <1>4, <1>5, <1>6, <1>7, <1>8, <1>9, <1>10 DEF Next

\* Before the first call there is nothing to account for.
LEMMA AccountsInit == Init => FreshRuns /\ FetchesAccountedFor /\ UseWithinBudgets
<1> SUFFICES ASSUME Init PROVE FreshRuns /\ FetchesAccountedFor /\ UseWithinBudgets  OBVIOUS
<1>1. /\ call.pc = "idle" /\ aborts = 0
      /\ \A j \in Runs : fetches[j] = 0 /\ jobRuns[j].checkpoint = EmptyCheckpoint /\ SavedUse(j) = 0
  BY Records DEF Init, SavedUse
<1>2. PICK b \in Budgets : b \in Nat
  BY Bounds
<1>3. FreshRuns /\ UseWithinBudgets
  BY <1>1, <1>2 DEF FreshRuns, UseWithinBudgets
<1>4. FetchesAccountedFor
  BY <1>1, Bounds DEF FetchesAccountedFor, SavedFetches, CountedFetches, UnsavedFetches
<1> QED  BY <1>3, <1>4

\* daily_limit_scrapes holds over a run and all its resumptions, though each call starts from the
\* checkpoint that the last one left: only what calls that died had not saved comes on top.
THEOREM PagesStayWithinTheBudget == Spec => []PagesWithinBudget
<1> DEFINE Accounts == FreshRuns /\ FetchesAccountedFor /\ UseWithinBudgets
<1>1. Typed /\ Accounts => PagesWithinBudget
  <2> SUFFICES ASSUME Typed, Accounts, NEW j \in Runs
               PROVE  \E b \in Budgets : fetches[j] <= b + aborts * MaxPages
    BY DEF PagesWithinBudget
  <2>0. /\ fetches[j] \in Nat /\ SavedUse(j) \in Nat /\ ck.scrapesUsed \in Nat
        /\ aborts * MaxPages \in Nat /\ Budgets \subseteq Nat
    BY TypeFacts, Bounds
  <2>1. CASE call.pc = "idle" \/ call.run # j
    <3>1. fetches[j] <= SavedUse(j) + aborts * MaxPages
      BY <2>1 DEF FetchesAccountedFor, SavedFetches
    <3>2. PICK b \in Budgets : SavedUse(j) <= b
      BY DEF UseWithinBudgets
    <3> QED  BY <2>0, <3>1, <3>2
  <2>2. CASE call.pc # "idle" /\ call.run = j
    <3>1. fetches[j] <= ck.scrapesUsed + aborts * MaxPages
      BY <2>2 DEF FetchesAccountedFor, CountedFetches
    <3>2. PICK b \in Budgets : ck.scrapesUsed <= b
      BY <2>2 DEF UseWithinBudgets
    <3> QED  BY <2>0, <3>1, <3>2
  <2> QED  BY <2>1, <2>2
<1>2. Typed /\ Typed' /\ Accounts /\ [Next]_vars => Accounts'
  BY FreshStep, AccountedStep, UseStep
<1> QED  BY <1>1, <1>2, TypedInit, TypedStep, AccountsInit, PTL DEF Spec
-----------------------------------------------------------------------------
(* The pages of a prospect.                                                  *)

EveryPageTried(p, j) == \A i \in DOMAIN Pages : i <= MaxPages => <<p, i>> \in tried[j]

\* The entries of a checkpoint of run j: a website was gone through, or the budget ended on it.
Earned(c, j) ==
  \A p \in c.done \cap HasDomain : EveryPageTried(p, j) \/ \E b \in Budgets : c.scrapesUsed >= b

DoneIsEarned ==
  /\ \A j \in Runs : Earned(jobRuns[j].checkpoint, j)
  /\ call.pc # "idle" => Earned(ck, call.run)
  /\ call.pc = "pages" =>
       \A i \in DOMAIN Pages : i < call.page => <<call.prospect, i>> \in tried[call.run]

\* A page tried stays tried.
LEMMA TriedStaysTried ==
  ASSUME Typed, FreshRuns, [Next]_vars
  PROVE  \A j \in Runs : tried[j] \subseteq tried'[j]
<1>0. tried \in [Runs -> SUBSET (Prospects \X DOMAIN Pages)] /\ (call.pc # "idle" => call.run \in Runs)
  BY TypeFacts
<1>1. ASSUME NEW answered, FetchPage(answered) PROVE \A j \in Runs : tried[j] \subseteq tried'[j]
  BY <1>0, <1>1, FetchEffect
<1>2. ASSUME NEW j \in Runs, NEW b \in Budgets, NEW items \in SUBSET Prospects,
             StartBatch(j, b, items) \/ ResumeBatch(j, b, items)
      PROVE  UNCHANGED tried
  BY <1>2, StartEffect
<1>3. ASSUME NEW technologies, NEW handles, Rescan(technologies, handles) PROVE UNCHANGED tried
  BY <1>3 DEF Rescan
<1>4. CASE ProspectDone \/ ProspectThrows
  BY <1>4, EndOfProspectEffect
<1>5. CASE NextProspect \/ MineProfile
  BY <1>5, NextProspectEffect, MineEffect
<1>6. CASE Save \/ Complete \/ Abort
  BY <1>6, SaveEffect, CompleteEffect, AbortEffect
<1>7. CASE UNCHANGED vars
  BY <1>7 DEF vars
<1> QED  BY <1>1, <1>2, <1>3, <1>4, <1>5, <1>6, <1>7 DEF Next

LEMMA EarnedStep ==
  ASSUME Typed, Typed', FreshRuns, DoneIsEarned, [Next]_vars
  PROVE  DoneIsEarned'
<1> DEFINE Tried(p, i, j) == <<p, i>> \in tried[j]
           BeforeThisPage == \A i \in DOMAIN Pages : i < call.page => Tried(call.prospect, i, call.run)
<1>0. /\ call.pc # "idle" => call.run \in Runs /\ call.budget \in Budgets
      /\ ck.scrapesUsed \in Nat /\ ck'.scrapesUsed \in Nat /\ Budgets \subseteq Nat
      /\ call.page \in Nat /\ tried \in [Runs -> SUBSET (Prospects \X DOMAIN Pages)]
  <2>1. ck' \in Checkpoint
    BY CallUpdates DEF Typed, WebsiteTypeOK, ck
  <2> QED  BY <2>1, TypeFacts, CheckpointUpdates, Bounds DEF SavedUse
<1>grow. \A j \in Runs : tried[j] \subseteq tried'[j]
  BY TriedStaysTried
<1>earned. /\ \A j \in Runs : Earned(jobRuns[j].checkpoint, j)
           /\ call.pc # "idle" => Earned(ck, call.run)
           /\ call.pc = "pages" => BeforeThisPage
  BY DEF DoneIsEarned
<1>runs. ASSUME CheckpointsKept PROVE \A j \in Runs : Earned(jobRuns[j].checkpoint, j)'
  <2> SUFFICES ASSUME NEW j \in Runs PROVE Earned(jobRuns[j].checkpoint, j)'  OBVIOUS
  <2>1. Earned(jobRuns[j].checkpoint, j)
    BY <1>earned
  <2>2. \A p : EveryPageTried(p, j) => EveryPageTried(p, j)'
    BY <1>grow DEF EveryPageTried
  <2> QED  BY <1>runs, <2>1, <2>2 DEF CheckpointsKept, Earned
\* Most steps of a call add no entry to its checkpoint and take no use from it.
<1>same. ASSUME call.pc # "idle", call'.run = call.run, ck'.done = ck.done,
                ck.scrapesUsed <= ck'.scrapesUsed
         PROVE  Earned(ck, call.run)'
  <2>1. \A p \in ck'.done \cap HasDomain :
          EveryPageTried(p, call.run)' \/ \E b \in Budgets : ck'.scrapesUsed >= b
    <3>1. \A p \in ck.done \cap HasDomain :
            EveryPageTried(p, call.run) \/ \E b \in Budgets : ck.scrapesUsed >= b
      BY <1>same, <1>earned DEF Earned
    <3>2. \A b \in Budgets : ck.scrapesUsed >= b => ck'.scrapesUsed >= b
      BY <1>0, <1>same
    <3>3. \A p : EveryPageTried(p, call.run) => EveryPageTried(p, call.run)'
      BY <1>0, <1>same, <1>grow DEF EveryPageTried
    <3> QED  BY <1>same, <3>1, <3>2, <3>3
  <2> QED  BY <2>1 DEF Earned
<1>1. ASSUME NEW j \in Runs, NEW b \in Budgets, NEW items \in SUBSET Prospects,
             StartBatch(j, b, items) \/ ResumeBatch(j, b, items)
      PROVE  DoneIsEarned'
  <2>1. /\ call'.pc = "next" /\ call'.run = j /\ CheckpointsKept
        /\ ck'.scrapesUsed = SavedUse(j) /\ ck'.done = jobRuns[j].checkpoint.done
    BY <1>1, StartEffect
  <2>2. Earned(jobRuns[j].checkpoint, j)'
    BY <1>runs, <2>1
  <2>3. Earned(ck, call.run)'
    BY <2>1, <2>2 DEF Earned, CheckpointsKept, SavedUse, EveryPageTried
  <2> QED  BY <1>runs, <2>1, <2>3 DEF DoneIsEarned
<1>2. CASE NextProspect
  <2>1. /\ call.pc # "idle" /\ call'.pc # "pages" /\ SameRun /\ UNCHANGED jobRuns
        /\ ck'.scrapesUsed = ck.scrapesUsed /\ ck'.done = ck.done
    BY <1>2, NextProspectEffect
  <2> QED  BY <1>0, <1>runs, <1>same, <2>1 DEF DoneIsEarned, SameRun, CheckpointsKept
<1>3. CASE MineProfile
  <2>1. /\ call.pc = "mine" /\ SameRun /\ UNCHANGED jobRuns /\ ck'.scrapesUsed = ck.scrapesUsed
    BY <1>3, MineEffect
  <2>2. CASE call'.pc = "pages"
    <3>1. ck'.done = ck.done /\ call'.page = 1
      BY <1>3, <2>2, MineEffect
    <3>2. Earned(ck, call.run)'
      BY <1>0, <1>same, <2>1, <3>1 DEF SameRun
    <3>3. BeforeThisPage'
      BY <3>1, Bounds
    <3> QED  BY <1>runs, <2>1, <3>2, <3>3 DEF DoneIsEarned, CheckpointsKept
  <2>3. CASE call'.pc # "pages"
    <3>1. call.prospect \notin HasDomain /\ ck'.done = ck.done \cup {call.prospect}
      BY <1>3, <2>3, MineEffect
    <3>2. Earned(ck, call.run)'
      BY <1>3, <1>earned, <2>1, <3>1 DEF SameRun, Earned, EveryPageTried, MineProfile
    <3> QED  BY <1>runs, <2>1, <2>3, <3>2 DEF DoneIsEarned, CheckpointsKept
  <2> QED  BY <2>2, <2>3
<1>4. ASSUME NEW answered, FetchPage(answered) PROVE DoneIsEarned'
  <2>1. /\ call.pc = "pages" /\ SameRun /\ UNCHANGED jobRuns /\ call'.prospect = call.prospect
        /\ call'.page = call.page + 1 /\ ck'.scrapesUsed = ck.scrapesUsed + 1 /\ ck'.done = ck.done
        /\ tried' = [tried EXCEPT ![call.run] = @ \cup {<<call.prospect, call.page>>}]
    BY <1>4, FetchEffect
  <2>2. Earned(ck, call.run)'
    BY <1>0, <1>same, <2>1 DEF SameRun
  <2>3. BeforeThisPage'
    <3> SUFFICES ASSUME NEW i \in DOMAIN Pages, i < call.page + 1
                 PROVE  <<call.prospect, i>> \in tried'[call.run]
      BY <2>1 DEF SameRun
    <3>1. i < call.page \/ i = call.page
      BY <1>0, Bounds
    <3> QED  BY <1>0, <1>earned, <2>1, <3>1
  <2> QED  BY <1>runs, <2>1, <2>2, <2>3 DEF DoneIsEarned, CheckpointsKept
<1>5. CASE ProspectDone \/ ProspectThrows
  <2>1. /\ call.pc \in {"mine", "pages"} /\ call'.pc = "save" /\ SameRun
        /\ ck'.scrapesUsed = ck.scrapesUsed /\ UNCHANGED <<jobRuns, tried>>
    BY <1>5, EndOfProspectEffect DEF ProspectDone, ProspectThrows
  <2>2. CASE ck'.done = ck.done
    <3>1. Earned(ck, call.run)'
      BY <1>0, <1>same, <2>1, <2>2 DEF SameRun
    <3> QED  BY <1>runs, <2>1, <3>1 DEF DoneIsEarned, CheckpointsKept
  <2>3. CASE ck'.done # ck.done
    <3>1. call.pc = "pages" /\ ck'.done = ck.done \cup {call.prospect} /\ ~MayFetchAnother
      BY <1>5, <2>3, EndOfProspectEffect
    <3>2. EveryPageTried(call.prospect, call.run) \/ \E b \in Budgets : ck.scrapesUsed >= b
      <4>1. CASE ck.scrapesUsed < call.budget
        <5>1. ~(call.page <= Len(Pages)) \/ ~(call.page <= MaxPages)
          BY <3>1, <4>1 DEF MayFetchAnother
        <5>2. \A i \in DOMAIN Pages : i <= MaxPages => i < call.page
          BY <1>0, <5>1, Bounds
        <5> QED  BY <1>earned, <3>1, <5>2 DEF EveryPageTried
      <4>2. CASE ~(ck.scrapesUsed < call.budget)
        <5>1. call.budget \in Budgets /\ call.budget \in Nat
          BY <1>0, <3>1
        <5> QED  BY <1>0, <4>2, <5>1
      <4> QED  BY <4>1, <4>2
    <3>3. Earned(ck, call.run)'
      BY <1>earned, <2>1, <3>1, <3>2 DEF SameRun, Earned, EveryPageTried
    <3> QED  BY <1>runs, <2>1, <3>3 DEF DoneIsEarned, CheckpointsKept
  <2> QED  BY <2>2, <2>3
<1>6. CASE Save
  <2>1. /\ call.pc # "idle" /\ call'.pc # "pages" /\ SameRun /\ ck' = ck
        /\ jobRuns'[call.run].checkpoint = ck /\ UNCHANGED tried
        /\ \A i \in Runs \ {call.run} : jobRuns'[i] = jobRuns[i]
    BY <1>6, SaveEffect
  <2>2. Earned(ck, call.run)'
    BY <1>0, <1>same, <2>1 DEF SameRun
  <2>3. ASSUME NEW j \in Runs PROVE Earned(jobRuns[j].checkpoint, j)'
    BY <1>earned, <2>1 DEF Earned, EveryPageTried
  <2> QED  BY <2>1, <2>2, <2>3 DEF DoneIsEarned
<1>7. CASE Complete
  BY <1>7, <1>runs, CompleteEffect DEF DoneIsEarned
<1>8. CASE Abort
  BY <1>8, <1>runs, AbortEffect DEF DoneIsEarned, CheckpointsKept
<1>9. CASE UNCHANGED <<jobRuns, call, tried>>
  BY <1>9, <1>earned DEF DoneIsEarned, Earned, EveryPageTried, ck
<1> QED
  <2>1. ASSUME NEW technologies, NEW handles, Rescan(technologies, handles) PROVE DoneIsEarned'
    BY <1>9, <2>1 DEF Rescan
  <2>2. CASE UNCHANGED vars
    BY <1>9, <2>2 DEF vars
  <2> QED  BY <1>1, <1>2, <1>3, <1>4, <1>5, <1>6, <1>7, <1>8, <2>1, <2>2 DEF Next

\* A prospect that a saved checkpoint lists is never visited again; by then each page of its
\* website that it may have was tried, unless the run's budget ended on it.
THEOREM DoneProspectsWereGoneThrough == Spec => []DoneMeansEveryPageTried
<1>1. Init => FreshRuns /\ DoneIsEarned
  <2> SUFFICES ASSUME Init PROVE DoneIsEarned  BY AccountsInit
  <2>1. call.pc = "idle" /\ \A j \in Runs : jobRuns[j].checkpoint.done = {}
    BY Records DEF Init
  <2> QED  BY <2>1 DEF DoneIsEarned, Earned
<1>2. Typed /\ Typed' /\ FreshRuns /\ DoneIsEarned /\ [Next]_vars => (FreshRuns /\ DoneIsEarned)'
  BY FreshStep, EarnedStep
<1>3. DoneIsEarned => DoneMeansEveryPageTried
  BY DEF DoneIsEarned, Earned, EveryPageTried, DoneMeansEveryPageTried
<1> QED  BY <1>1, <1>2, <1>3, TypedInit, TypedStep, PTL DEF Spec
-----------------------------------------------------------------------------
(* What the score makes of the facts.                                        *)

LEMMA FiniteSignals ==
  /\ IsFiniteSet(RevenueSignals) /\ IsFiniteSet(PaidSignals) /\ IsFiniteSet(ValidTriggerTypes)
<1>1. ASSUME NEW a, NEW b, NEW c, NEW d
      PROVE  IsFiniteSet({a, b, c, d})
  <2>1. IsFiniteSet({}) /\ IsFiniteSet({} \cup {a})
    BY FS_EmptySet, FS_AddElement
  <2>2. IsFiniteSet(({} \cup {a}) \cup {b})
    BY <2>1, FS_AddElement
  <2>3. IsFiniteSet((({} \cup {a}) \cup {b}) \cup {c})
    BY <2>2, FS_AddElement
  <2>4. IsFiniteSet(((({} \cup {a}) \cup {b}) \cup {c}) \cup {d})
    BY <2>3, FS_AddElement
  <2>5. ((({} \cup {a}) \cup {b}) \cup {c}) \cup {d} = {a, b, c, d}
    OBVIOUS
  <2> QED  BY <2>4, <2>5
<1>2. IsFiniteSet(RevenueSignals)
  BY <1>1 DEF RevenueSignals
<1>3. IsFiniteSet(PaidSignals)
  BY <1>1 DEF PaidSignals
<1>4. IsFiniteSet(ValidTriggerTypes)
  <2> DEFINE S == {"new_product_launch", "store_brand_expansion", "active_growth_hiring",
                   "funding_growth_announcement"}
  <2>1. IsFiniteSet(S)
    BY <1>1
  <2>2. IsFiniteSet((S \cup {"funnel_offer_change"}) \cup {"new_paid_channel_appearing"})
    BY <2>1, FS_AddElement
  <2>3. (S \cup {"funnel_offer_change"}) \cup {"new_paid_channel_appearing"} = ValidTriggerTypes
    BY DEF ValidTriggerTypes
  <2> QED  BY <2>2, <2>3
<1> QED  BY <1>2, <1>3, <1>4

\* More facts make no category less, and there are finitely many to count.
LEMMA CountsGrow ==
  ASSUME NEW F, NEW G, F \subseteq G
  PROVE  /\ CountRevenueFitCategories(F) \in Nat /\ CountRevenueFitCategories(G) \in Nat
         /\ CountRevenueFitCategories(F) <= CountRevenueFitCategories(G)
         /\ CountPaidAcquisitionCategories(F) \in Nat /\ CountPaidAcquisitionCategories(G) \in Nat
         /\ CountPaidAcquisitionCategories(F) <= CountPaidAcquisitionCategories(G)
<1>1. ASSUME NEW S, IsFiniteSet(S)
      PROVE  /\ Cardinality(F \cap S) \in Nat /\ Cardinality(G \cap S) \in Nat
             /\ Cardinality(F \cap S) <= Cardinality(G \cap S)
  <2>1. IsFiniteSet(G \cap S)
    BY <1>1, FS_Subset
  <2>2. IsFiniteSet(F \cap S) /\ Cardinality(F \cap S) <= Cardinality(G \cap S)
    BY <2>1, FS_Subset
  <2> QED  BY <2>1, <2>2, FS_CardinalityType
<1> QED  BY <1>1, FiniteSignals DEF CountRevenueFitCategories, CountPaidAcquisitionCategories

LEMMA TriggerCountsGrow ==
  ASSUME NEW S \in SUBSET [type: ValidTriggerTypes, sourced: {TRUE}],
         NEW T \in SUBSET [type: ValidTriggerTypes, sourced: {TRUE}], S \subseteq T
  PROVE  /\ CountVerifiedTriggers(ReadTriggerFacts(S)) \in Nat
         /\ CountVerifiedTriggers(ReadTriggerFacts(T)) \in Nat
         /\ CountVerifiedTriggers(ReadTriggerFacts(S)) <= CountVerifiedTriggers(ReadTriggerFacts(T))
<1> DEFINE Types(R) ==
      {r.type : r \in {q \in ReadTriggerFacts(R) : q.sourced /\ q.type # "new_paid_channel_appearing"}}
<1>1. Types(S) \subseteq Types(T) /\ Types(T) \subseteq ValidTriggerTypes
  BY DEF ReadTriggerFacts
<1>2. IsFiniteSet(Types(T))
  BY <1>1, FiniteSignals, FS_Subset
<1>3. IsFiniteSet(Types(S)) /\ Cardinality(Types(S)) <= Cardinality(Types(T))
  BY <1>1, <1>2, FS_Subset
<1> QED  BY <1>2, <1>3, FS_CardinalityType DEF CountVerifiedTriggers

LEMMA TierPoints ==
  ASSUME NEW n \in Nat, NEW m \in Nat, n <= m,
         NEW confirmed \in BOOLEAN, NEW confirmed2 \in BOOLEAN, confirmed => confirmed2
  PROVE  /\ PointsForTier(25, TierFromCategoryCount(n, confirmed)) \in 0..25
         /\ PointsForTier(25, TierFromCategoryCount(m, confirmed2)) \in 0..25
         /\ PointsForTier(25, TierFromCategoryCount(n, confirmed))
              <= PointsForTier(25, TierFromCategoryCount(m, confirmed2))
<1>1. /\ PointsForTier(25, "CONFIRMED") = 25 /\ PointsForTier(25, "STRONG_EVIDENCE") = 20
      /\ PointsForTier(25, "LIKELY") = 10 /\ PointsForTier(25, "UNKNOWN") = 0
  BY DEF PointsForTier, Percent
<1>2. ASSUME NEW k \in Nat, NEW c \in BOOLEAN
      PROVE  PointsForTier(25, TierFromCategoryCount(k, c)) =
               IF c THEN 25 ELSE IF k >= 2 THEN 20 ELSE IF k = 1 THEN 10 ELSE 0
  BY <1>1 DEF TierFromCategoryCount
<1> QED  BY <1>2

LEMMA OtherPoints ==
  ASSUME NEW F, NEW G, F \subseteq G
  PROVE  /\ MaturityPoints(F) \in 0..15 /\ MaturityPoints(G) \in 0..15
         /\ MaturityPoints(F) <= MaturityPoints(G)
         /\ DecisionMakerPoints(F) \in 0..15 /\ DecisionMakerPoints(G) \in 0..15
         /\ DecisionMakerPoints(F) <= DecisionMakerPoints(G)
         /\ DtcFitPoints(F) \in 0..5 /\ DtcFitPoints(G) \in 0..5
         /\ DtcFitPoints(F) <= DtcFitPoints(G)
<1>1. /\ MaturityPoints(F) \in 0..15 /\ MaturityPoints(G) \in 0..15
      /\ MaturityPoints(F) <= MaturityPoints(G)
  BY DEF MaturityPoints, If
<1>2. /\ DtcFitPoints(F) \in 0..5 /\ DtcFitPoints(G) \in 0..5 /\ DtcFitPoints(F) <= DtcFitPoints(G)
  BY DEF DtcFitPoints, If
<1> DEFINE Authority(H) == RolePoints[DecisionMakerRoleTier(H)]
<1>3. ASSUME NEW H
      PROVE  Authority(H) = IF "role_founder_or_ceo" \in H THEN 8
                            ELSE IF "role_director_with_authority_signal" \in H THEN 6
                            ELSE IF "role_other_marketing_adjacent" \in H THEN 3 ELSE 0
  BY DEF RolePoints, DecisionMakerRoleTier
<1>4. Authority(F) \in 0..8 /\ Authority(G) \in 0..8 /\ Authority(F) <= Authority(G)
  BY <1>3
<1> HIDE DEF Authority
<1>5. ASSUME NEW H PROVE DecisionMakerPoints(H) = Authority(H) + If("public_visibility" \in H, 4)
                           + If("correct_profile_identified" \in H, 3)
  BY DEF DecisionMakerPoints, Authority
<1>6. /\ DecisionMakerPoints(F) \in 0..15 /\ DecisionMakerPoints(G) \in 0..15
      /\ DecisionMakerPoints(F) <= DecisionMakerPoints(G)
  BY <1>4, <1>5 DEF If
<1> QED  BY <1>1, <1>2, <1>6

LEMMA TriggerPointsGrow ==
  ASSUME NEW S \in SUBSET [type: ValidTriggerTypes, sourced: {TRUE}],
         NEW T \in SUBSET [type: ValidTriggerTypes, sourced: {TRUE}], S \subseteq T
  PROVE  /\ TriggerPoints(S) \in 0..15 /\ TriggerPoints(T) \in 0..15
         /\ TriggerPoints(S) <= TriggerPoints(T)
<1> DEFINE count(R) == CountVerifiedTriggers(ReadTriggerFacts(R))
<1>1. count(S) \in Nat /\ count(T) \in Nat /\ count(S) <= count(T)
  BY TriggerCountsGrow
<1> HIDE DEF count
<1>2. ASSUME NEW R PROVE TriggerPoints(R) = If(count(R) = 1, 10) + If(count(R) >= 2, 15)
  BY DEF TriggerPoints, count
<1> QED  BY <1>1, <1>2 DEF If

\* The parts of the total, each within its weight.
LEMMA Parts ==
  ASSUME NEW F, NEW G, F \subseteq G
  PROVE  /\ PointsForTier(Weights.revenueFit, RevenueFitTier(F)) \in 0..25
         /\ PointsForTier(Weights.revenueFit, RevenueFitTier(G)) \in 0..25
         /\ PointsForTier(Weights.revenueFit, RevenueFitTier(F))
              <= PointsForTier(Weights.revenueFit, RevenueFitTier(G))
         /\ PointsForTier(Weights.paidAcquisition, PaidAcquisitionTier(F)) \in 0..25
         /\ PointsForTier(Weights.paidAcquisition, PaidAcquisitionTier(G)) \in 0..25
         /\ PointsForTier(Weights.paidAcquisition, PaidAcquisitionTier(F))
              <= PointsForTier(Weights.paidAcquisition, PaidAcquisitionTier(G))
<1>1. Weights.revenueFit = 25 /\ Weights.paidAcquisition = 25
  BY DEF Weights
<1>2. ASSUME NEW n \in Nat, NEW m \in Nat, n <= m, NEW confirmed
      PROVE  LET first == PointsForTier(25, TierFromCategoryCount(n, confirmed \in F))
                 second == PointsForTier(25, TierFromCategoryCount(m, confirmed \in G))
             IN  first \in 0..25 /\ second \in 0..25 /\ first <= second
  <2>1. (confirmed \in F) \in BOOLEAN /\ (confirmed \in G) \in BOOLEAN
    OBVIOUS
  <2>2. (confirmed \in F) => (confirmed \in G)
    OBVIOUS
  <2> QED  BY <1>2, <2>1, <2>2, TierPoints
<1>3. /\ CountRevenueFitCategories(F) \in Nat /\ CountRevenueFitCategories(G) \in Nat
      /\ CountRevenueFitCategories(F) <= CountRevenueFitCategories(G)
      /\ CountPaidAcquisitionCategories(F) \in Nat /\ CountPaidAcquisitionCategories(G) \in Nat
      /\ CountPaidAcquisitionCategories(F) <= CountPaidAcquisitionCategories(G)
  BY CountsGrow
<1>4. /\ PointsForTier(25, RevenueFitTier(F)) \in 0..25 /\ PointsForTier(25, RevenueFitTier(G)) \in 0..25
      /\ PointsForTier(25, RevenueFitTier(F)) <= PointsForTier(25, RevenueFitTier(G))
  BY <1>2, <1>3 DEF RevenueFitTier
<1>5. /\ PointsForTier(25, PaidAcquisitionTier(F)) \in 0..25
      /\ PointsForTier(25, PaidAcquisitionTier(G)) \in 0..25
      /\ PointsForTier(25, PaidAcquisitionTier(F)) <= PointsForTier(25, PaidAcquisitionTier(G))
  BY <1>2, <1>3 DEF PaidAcquisitionTier
<1> QED  BY <1>1, <1>4, <1>5

\* Each fact, and each trigger, can only add to the total.
LEMMA TotalGrows ==
  ASSUME NEW F, NEW G, F \subseteq G,
         NEW S \in SUBSET [type: ValidTriggerTypes, sourced: {TRUE}],
         NEW T \in SUBSET [type: ValidTriggerTypes, sourced: {TRUE}], S \subseteq T
  PROVE  /\ Total(F, S) \in Nat /\ Total(G, T) \in Nat /\ Total(F, S) <= Total(G, T)
<1> DEFINE revenue(H) == PointsForTier(Weights.revenueFit, RevenueFitTier(H))
           paid(H) == PointsForTier(Weights.paidAcquisition, PaidAcquisitionTier(H))
<1>1. /\ revenue(F) \in 0..25 /\ revenue(G) \in 0..25 /\ revenue(F) <= revenue(G)
      /\ paid(F) \in 0..25 /\ paid(G) \in 0..25 /\ paid(F) <= paid(G)
  BY Parts
<1> HIDE DEF revenue, paid
<1>2. ASSUME NEW H, NEW R
      PROVE  Total(H, R) = revenue(H) + paid(H) + MaturityPoints(H) + DecisionMakerPoints(H)
                             + TriggerPoints(R) + DtcFitPoints(H)
  BY DEF Total, revenue, paid
<1>3. /\ TriggerPoints(S) \in 0..15 /\ TriggerPoints(T) \in 0..15
      /\ TriggerPoints(S) <= TriggerPoints(T)
  BY TriggerPointsGrow
<1>4. /\ MaturityPoints(F) \in 0..15 /\ MaturityPoints(G) \in 0..15
      /\ MaturityPoints(F) <= MaturityPoints(G)
      /\ DecisionMakerPoints(F) \in 0..15 /\ DecisionMakerPoints(G) \in 0..15
      /\ DecisionMakerPoints(F) <= DecisionMakerPoints(G)
      /\ DtcFitPoints(F) \in 0..5 /\ DtcFitPoints(G) \in 0..5
      /\ DtcFitPoints(F) <= DtcFitPoints(G)
  BY OtherPoints
<1>5. Total(F, S) = revenue(F) + paid(F) + MaturityPoints(F) + DecisionMakerPoints(F)
                      + TriggerPoints(S) + DtcFitPoints(F)
  BY <1>2
<1>6. Total(G, T) = revenue(G) + paid(G) + MaturityPoints(G) + DecisionMakerPoints(G)
                      + TriggerPoints(T) + DtcFitPoints(G)
  BY <1>2
<1>7. /\ revenue(F) \in Nat /\ revenue(G) \in Nat /\ paid(F) \in Nat /\ paid(G) \in Nat
      /\ MaturityPoints(F) \in Nat /\ MaturityPoints(G) \in Nat
      /\ DecisionMakerPoints(F) \in Nat /\ DecisionMakerPoints(G) \in Nat
      /\ TriggerPoints(S) \in Nat /\ TriggerPoints(T) \in Nat
      /\ DtcFitPoints(F) \in Nat /\ DtcFitPoints(G) \in Nat
  BY <1>1, <1>3, <1>4
<1>8. ASSUME NEW a \in Nat, NEW b \in Nat, NEW c \in Nat, NEW d \in Nat, NEW e \in Nat, NEW f \in Nat,
             NEW a2 \in Nat, NEW b2 \in Nat, NEW c2 \in Nat, NEW d2 \in Nat, NEW e2 \in Nat,
             NEW f2 \in Nat, a <= a2, b <= b2, c <= c2, d <= d2, e <= e2, f <= f2
      PROVE  /\ a + b + c + d + e + f \in Nat /\ a2 + b2 + c2 + d2 + e2 + f2 \in Nat
             /\ a + b + c + d + e + f <= a2 + b2 + c2 + d2 + e2 + f2
  BY <1>8
<1> QED  BY <1>1, <1>3, <1>4, <1>5, <1>6, <1>7, <1>8

LEMMA ScoreGrows ==
  ASSUME NEW F, NEW G, F \subseteq G,
         NEW S \in SUBSET [type: ValidTriggerTypes, sourced: {TRUE}],
         NEW T \in SUBSET [type: ValidTriggerTypes, sourced: {TRUE}], S \subseteq T
  PROVE  /\ ScoreProspect(F, S, FALSE).scored => ScoreProspect(G, T, FALSE).scored
         /\ ScoreProspect(F, S, FALSE).score <= ScoreProspect(G, T, FALSE).score
<1>1. Total(F, S) \in Nat /\ Total(G, T) \in Nat /\ Total(F, S) <= Total(G, T)
  BY TotalGrows
<1>2. Excluded(G, FALSE) => Excluded(F, FALSE)
  BY DEF Excluded, NoPaidAcquisitionActivity
<1>3. Excluded(F, FALSE) \in BOOLEAN /\ Excluded(G, FALSE) \in BOOLEAN
  BY DEF Excluded, NoPaidAcquisitionActivity
<1>4. ASSUME NEW H, NEW R
      PROVE  /\ ScoreProspect(H, R, FALSE).scored = ~Excluded(H, FALSE)
             /\ ScoreProspect(H, R, FALSE).score = IF Excluded(H, FALSE) THEN 0 ELSE Total(H, R)
  BY DEF ScoreProspect
<1>5. ScoreProspect(F, S, FALSE).scored => ScoreProspect(G, T, FALSE).scored
  BY <1>2, <1>4
<1> DEFINE x == ScoreProspect(F, S, FALSE).score
           y == ScoreProspect(G, T, FALSE).score
<1>6. x = (IF Excluded(F, FALSE) THEN 0 ELSE Total(F, S))
  BY <1>4
<1>7. y = (IF Excluded(G, FALSE) THEN 0 ELSE Total(G, T))
  BY <1>4
<1> HIDE DEF x, y
<1>8. x <= y
  <2>1. CASE Excluded(F, FALSE)
    <3>1. x = 0
      BY <1>6, <2>1
    <3>2. y \in Nat
      <4>1. CASE Excluded(G, FALSE)
        BY <1>7, <4>1
      <4>2. CASE ~Excluded(G, FALSE)
        BY <1>1, <1>7, <4>2
      <4> QED  BY <4>1, <4>2
    <3> QED  BY <3>1, <3>2
  <2>2. CASE ~Excluded(F, FALSE)
    <3>1. x = Total(F, S) /\ y = Total(G, T)
      BY <1>2, <1>6, <1>7, <2>2
    <3> QED  BY <1>1, <3>1
  <2> QED  BY <2>1, <2>2
<1> QED  BY <1>5, <1>8 DEF x, y

\* What a step of the batch stores, it adds to what is stored.
LEMMA FactsAreAdded ==
  ASSUME Typed, FreshRuns, [Next]_vars
  PROVE  \/ UNCHANGED <<facts, triggers>>
         \/ /\ UNCHANGED <<detected, linked>>
            /\ \A p \in Prospects : facts[p] \subseteq facts'[p] /\ triggers[p] \subseteq triggers'[p]
<1>0. /\ facts \in [Prospects -> SUBSET SignalCategories]
      /\ triggers \in [Prospects -> SUBSET [type: ValidTriggerTypes, sourced: {TRUE}]]
  BY DEF Typed, WebsiteTypeOK
<1> DEFINE Goal ==
      \/ UNCHANGED <<facts, triggers>>
      \/ /\ UNCHANGED <<detected, linked>>
         /\ \A p \in Prospects : facts[p] \subseteq facts'[p] /\ triggers[p] \subseteq triggers'[p]
<1> SUFFICES Goal  OBVIOUS
<1>1. ASSUME NEW j \in Runs, NEW b \in Budgets, NEW items \in SUBSET Prospects,
             StartBatch(j, b, items) \/ ResumeBatch(j, b, items)
      PROVE  Goal
  BY <1>1, StartEffect DEF scoreInputs
<1>2. CASE NextProspect
  BY <1>2, NextProspectEffect DEF scoreInputs
<1>3. CASE MineProfile
  BY <1>0, <1>3 DEF MineProfile
<1>4. ASSUME NEW answered, FetchPage(answered) PROVE Goal
  <2> DEFINE q == call.prospect
             page == Pages[call.page]
  <2>1. facts' = IF answered THEN [facts EXCEPT ![q] = @ \cup FactsOn(q, page)] ELSE facts
    BY <1>4 DEF FetchPage
  <2>2. triggers' = IF answered THEN [triggers EXCEPT ![q] = @ \cup TriggersOn(page)] ELSE triggers
    BY <1>4 DEF FetchPage
  <2>3. UNCHANGED <<detected, linked>>
    BY <1>4 DEF FetchPage
  <2> HIDE DEF q, page
  <2> QED  BY <1>0, <2>1, <2>2, <2>3
<1>5. CASE ProspectDone \/ ProspectThrows
  BY <1>5, EndOfProspectEffect DEF scoreInputs
<1>6. CASE Save \/ Complete \/ Abort
  BY <1>6, SaveEffect, CompleteEffect, AbortEffect DEF scoreInputs
<1>7. ASSUME NEW technologies, NEW handles, Rescan(technologies, handles) PROVE Goal
  BY <1>7 DEF Rescan
<1>8. CASE UNCHANGED vars
  BY <1>8 DEF vars, scoreInputs
<1> QED  BY <1>1, <1>2, <1>3, <1>4, <1>5, <1>6, <1>7, <1>8 DEF Next

\* However the batch, its resumptions and the rescans interleave, a fact stored about a prospect
\* never takes its score away, nor any point of it.
THEOREM FactsOnlyRaiseAScore == Spec => FactsNeverLowerAScore
<1>1. Typed /\ Typed' /\ FreshRuns /\ [Next]_vars =>
        [\A p \in Prospects :
           facts'[p] # facts[p] \/ triggers'[p] # triggers[p] =>
             /\ Score(p).scored => Score(p)'.scored
             /\ Score(p).score <= Score(p)'.score]_vars
  <2> SUFFICES ASSUME Typed, Typed', FreshRuns, [Next]_vars, NEW p \in Prospects,
                      facts'[p] # facts[p] \/ triggers'[p] # triggers[p]
               PROVE  /\ Score(p).scored => Score(p)'.scored
                      /\ Score(p).score <= Score(p)'.score
    OBVIOUS
  <2>1. /\ UNCHANGED detected /\ facts[p] \subseteq facts'[p] /\ triggers[p] \subseteq triggers'[p]
    BY FactsAreAdded
  <2>2. /\ triggers[p] \in SUBSET [type: ValidTriggerTypes, sourced: {TRUE}]
        /\ triggers'[p] \in SUBSET [type: ValidTriggerTypes, sourced: {TRUE}]
    BY DEF Typed, WebsiteTypeOK
  <2> DEFINE scan == IF p \in HasDomain THEN ReadTechnologyEvidenceFacts(detected) ELSE {}
  <2>3. Score(p) = ScoreProspect(facts[p] \cup scan, triggers[p], FALSE)
    BY DEF Score
  <2>4. Score(p)' = ScoreProspect(facts'[p] \cup scan, triggers'[p], FALSE)
    BY <2>1 DEF Score
  <2> HIDE DEF scan
  <2>5. facts[p] \cup scan \subseteq facts'[p] \cup scan
    BY <2>1
  <2>6. /\ ScoreProspect(facts[p] \cup scan, triggers[p], FALSE).scored =>
             ScoreProspect(facts'[p] \cup scan, triggers'[p], FALSE).scored
        /\ ScoreProspect(facts[p] \cup scan, triggers[p], FALSE).score <=
             ScoreProspect(facts'[p] \cup scan, triggers'[p], FALSE).score
    BY <2>1, <2>2, <2>5, ScoreGrows
  <2> QED  BY <2>3, <2>4, <2>6
<1>2. Init => FreshRuns
  BY AccountsInit
<1>3. Typed /\ Typed' /\ FreshRuns /\ [Next]_vars => FreshRuns'
  BY FreshStep
<1> QED  BY <1>1, <1>2, <1>3, TypedInit, TypedStep, PTL DEF Spec, FactsNeverLowerAScore
-----------------------------------------------------------------------------
(* How far the writers' facts go.                                            *)

\* The writers store nothing else, and announcements only for a company with a website.
OnlyStorable ==
  \A p \in Prospects : facts[p] \subseteq Storable /\ (p \notin HasDomain => triggers[p] = {})

LEMMA StorableStep ==
  ASSUME Typed, FreshRuns, OnlyStorable, [Next]_vars
  PROVE  OnlyStorable'
<1> USE DEF OnlyStorable
<1>0. /\ facts \in [Prospects -> SUBSET SignalCategories]
      /\ triggers \in [Prospects -> SUBSET [type: ValidTriggerTypes, sourced: {TRUE}]]
  BY DEF Typed, WebsiteTypeOK
<1>1. ASSUME NEW j \in Runs, NEW b \in Budgets, NEW items \in SUBSET Prospects,
             StartBatch(j, b, items) \/ ResumeBatch(j, b, items)
      PROVE  OnlyStorable'
  BY <1>1, StartEffect DEF scoreInputs
<1>2. CASE NextProspect
  BY <1>2, NextProspectEffect DEF scoreInputs
<1>3. CASE MineProfile
  <2>1. CASE call.prospect \in HasDomain
    BY <1>0, <1>3, <2>1, StorableFacts DEF MineProfile
  <2>2. CASE call.prospect \notin HasDomain
    BY <1>3, <2>2 DEF MineProfile
  <2> QED  BY <2>1, <2>2
<1>4. ASSUME NEW answered, FetchPage(answered) PROVE OnlyStorable'
  <2> DEFINE q == call.prospect
             page == Pages[call.page]
  <2>1. facts' = IF answered THEN [facts EXCEPT ![q] = @ \cup FactsOn(q, page)] ELSE facts
    BY <1>4 DEF FetchPage
  <2>2. triggers' = IF answered THEN [triggers EXCEPT ![q] = @ \cup TriggersOn(page)] ELSE triggers
    BY <1>4 DEF FetchPage
  <2>3. q \in HasDomain
    BY <1>4 DEF FetchPage, Typed, CallsAreAboutRuns
  <2>4. FactsOn(q, page) \subseteq Storable
    BY StorableFacts
  <2> HIDE DEF q, page
  <2> QED  BY <1>0, <2>1, <2>2, <2>3, <2>4
<1>5. CASE ProspectDone \/ ProspectThrows
  BY <1>5, EndOfProspectEffect DEF scoreInputs
<1>6. CASE Save \/ Complete \/ Abort
  BY <1>6, SaveEffect, CompleteEffect, AbortEffect DEF scoreInputs
<1>7. ASSUME NEW technologies, NEW handles, Rescan(technologies, handles) PROVE OnlyStorable'
  BY <1>7 DEF Rescan
<1>8. CASE UNCHANGED vars
  BY <1>8 DEF vars, scoreInputs
<1> QED  BY <1>1, <1>2, <1>3, <1>4, <1>5, <1>6, <1>7, <1>8 DEF Next

\* One paid category of the four, two maturity checks of the four and no funnel.
LEMMA Ceiling ==
  ASSUME NEW F, NEW scan, F \subseteq Storable,
         scan \subseteq {"two_or_more_retention_tools", "analytics_tag_detected"},
         NEW S \in SUBSET [type: ValidTriggerTypes, sourced: {TRUE}]
  PROVE  /\ Total(F \cup scan, S) \in 0..73
         /\ ReadTriggerFacts(S) = {} => Total(F \cup scan, S) \in 0..58
         /\ "paid_media_job_posting_90d" \notin F => Excluded(F \cup scan, FALSE)
<1> DEFINE G == F \cup scan
<1>1. G \cap PaidSignals \subseteq {"paid_media_job_posting_90d"} /\ "confirmed_spend_statement" \notin G
  BY DEF Storable, PaidSignals, Roles
<1>2. PointsForTier(Weights.revenueFit, RevenueFitTier(G)) \in 0..25
  BY Parts
<1>3. PointsForTier(Weights.paidAcquisition, PaidAcquisitionTier(G)) \in 0..10
  <2>1. CountPaidAcquisitionCategories(G) \in 0..1
    <3>1. /\ IsFiniteSet({"paid_media_job_posting_90d"})
          /\ Cardinality({"paid_media_job_posting_90d"}) = 1
      BY FS_Singleton
    <3>2. IsFiniteSet(G \cap PaidSignals) /\ Cardinality(G \cap PaidSignals) <= 1
      BY <1>1, <3>1, FS_Subset
    <3>3. Cardinality(G \cap PaidSignals) \in Nat
      BY <3>2, FS_CardinalityType
    <3> QED  BY <3>2, <3>3 DEF CountPaidAcquisitionCategories
  <2>2. PaidAcquisitionTier(G) \in {"LIKELY", "UNKNOWN"}
    BY <1>1, <2>1 DEF PaidAcquisitionTier, TierFromCategoryCount
  <2> QED  BY <2>2 DEF PointsForTier, Percent, Weights
<1>4. MaturityPoints(G) \in 0..8
  <2>1. "two_or_more_paid_channels" \notin G /\ "two_or_more_product_lines" \notin G
    BY DEF Storable, Roles
  <2> QED  BY <2>1 DEF MaturityPoints, If
<1>5. DecisionMakerPoints(G) \in 0..15
  BY OtherPoints
<1>6. DtcFitPoints(G) = 0
  BY DEF DtcFitPoints, If, Storable, Roles
<1>7. TriggerPoints(S) \in 0..15 /\ (ReadTriggerFacts(S) = {} => TriggerPoints(S) = 0)
  <2>1. TriggerPoints(S) \in 0..15
    BY TriggerPointsGrow
  <2>2. ASSUME ReadTriggerFacts(S) = {} PROVE TriggerPoints(S) = 0
    <3>1. CountVerifiedTriggers(ReadTriggerFacts(S)) = 0
      BY <2>2, FS_EmptySet DEF CountVerifiedTriggers
    <3> QED  BY <3>1 DEF TriggerPoints, If
  <2> QED  BY <2>1, <2>2
<1> DEFINE revenue == PointsForTier(Weights.revenueFit, RevenueFitTier(G))
           paid == PointsForTier(Weights.paidAcquisition, PaidAcquisitionTier(G))
<1>8. Total(G, S) = revenue + paid + MaturityPoints(G) + DecisionMakerPoints(G) + TriggerPoints(S)
                      + DtcFitPoints(G)
  BY DEF Total
<1>9. Total(G, S) \in 0..73 /\ (ReadTriggerFacts(S) = {} => Total(G, S) \in 0..58)
  <2>1. revenue \in 0..25 /\ paid \in 0..10
    BY <1>2, <1>3
  <2> HIDE DEF revenue, paid, G
  <2>2. Total(G, S) = revenue + paid + MaturityPoints(G) + DecisionMakerPoints(G)
                        + TriggerPoints(S) + 0
    BY <1>6, <1>8
  <2>3. /\ MaturityPoints(G) \in 0..8 /\ DecisionMakerPoints(G) \in 0..15 /\ TriggerPoints(S) \in 0..15
    BY <1>4, <1>5, <1>7
  <2>4. Total(G, S) \in 0..73
    BY <2>1, <2>2, <2>3, SMTT(30)
  <2>5. TriggerPoints(S) = 0 => Total(G, S) \in 0..58
    BY <2>1, <2>2, <2>3
  <2> QED  BY <1>7, <2>4, <2>5
<1>10. "paid_media_job_posting_90d" \notin F => Excluded(G, FALSE)
  BY <1>1 DEF Excluded, NoPaidAcquisitionActivity, Storable, PaidSignals, Roles
<1> QED  BY <1>9, <1>10

\* The facts that the pipeline writes reach tier C and no higher, and only with a job posting and
\* an announcement on record: the rest of the points depend on facts that no writer stores.
THEOREM NoWriterReachesTierB == Spec => []PipelineStopsAtTierC
<1>1. Init => FreshRuns /\ OnlyStorable
  <2> SUFFICES ASSUME Init PROVE OnlyStorable  BY AccountsInit
  <2>1. Roles \cup {"paid_media_job_posting_90d"} \subseteq Storable
    BY DEF Storable
  <2> QED  BY <2>1 DEF Init, OnlyStorable
<1>2. Typed /\ Typed' /\ FreshRuns /\ OnlyStorable /\ [Next]_vars => (FreshRuns /\ OnlyStorable)'
  BY FreshStep, StorableStep
<1>3. Typed /\ OnlyStorable => PipelineStopsAtTierC
  <2> SUFFICES ASSUME Typed, OnlyStorable, NEW p \in Prospects
               PROVE  /\ Score(p).tier \in {"C", "Reject"}
                      /\ Score(p).tier = "C" => /\ "paid_media_job_posting_90d" \in facts[p]
                                                /\ ReadTriggerFacts(triggers[p]) # {}
                                                /\ p \in HasDomain
    BY DEF PipelineStopsAtTierC
  <2> DEFINE scan == IF p \in HasDomain THEN ReadTechnologyEvidenceFacts(detected) ELSE {}
             G == facts[p] \cup scan
             S == triggers[p]
  <2>1. S \in SUBSET [type: ValidTriggerTypes, sourced: {TRUE}]
    BY DEF Typed, WebsiteTypeOK
  <2>2. scan \subseteq {"two_or_more_retention_tools", "analytics_tag_detected"}
    BY DEF ReadTechnologyEvidenceFacts
  <2>3. facts[p] \subseteq Storable /\ (p \notin HasDomain => S = {})
    BY DEF OnlyStorable
  <2>4. Score(p).tier = (IF Excluded(G, FALSE) THEN "Reject" ELSE TierForScore(Total(G, S)))
    BY DEF Score, ScoreProspect
  <2> HIDE DEF scan, S
  <2>5. /\ Total(G, S) \in 0..73
        /\ ReadTriggerFacts(S) = {} => Total(G, S) \in 0..58
        /\ "paid_media_job_posting_90d" \notin facts[p] => Excluded(G, FALSE)
    BY <2>1, <2>2, <2>3, Ceiling
  <2> HIDE DEF G
  <2>6. ASSUME NEW n \in 0..73
        PROVE  TierForScore(n) \in {"C", "Reject"} /\ (n \in 0..58 => TierForScore(n) = "Reject")
    BY DEF TierForScore
  <2>7. S = {} => ReadTriggerFacts(S) = {}
    BY DEF ReadTriggerFacts
  <2> QED  BY <2>3, <2>4, <2>5, <2>6, <2>7 DEF S
<1> QED  BY <1>1, <1>2, <1>3, TypedInit, TypedStep, PTL DEF Spec
-----------------------------------------------------------------------------
(* A run goes on from its checkpoint: the batch implements ResumableRuns.    *)

\* The entries of a checkpoint, those of all saved ones, and the prospect being visited.
Entries(c) == c.done \cup c.errors
Saved == [j \in Runs |-> Entries(jobRuns[j].checkpoint)]
Spent == [j \in Runs |-> jobRuns[j].checkpoint.scrapesUsed]
AtHand == IF call.pc \in {"mine", "pages"} THEN {call.prospect} ELSE {}

\* Between calls nothing is remembered; the prospects still to visit, and the one being visited,
\* are without an entry and are all different.
VisitsAnew ==
  /\ call.pc = "idle" => call = NoCall
  /\ call.queue \cap Entries(ck) = {}
  /\ call.pc \in {"mine", "pages"} => call.prospect \notin call.queue \cup Entries(ck)

LEMMA AnewInit == Init => VisitsAnew
BY Records DEF Init, VisitsAnew, NoCall, Entries, ck

\* What each step does to the queue and to the entries.
LEMMA StartEntries ==
  ASSUME Typed, FreshRuns, NEW j \in Runs, NEW b \in Budgets, NEW items \in SUBSET Prospects,
         StartBatch(j, b, items) \/ ResumeBatch(j, b, items)
  PROVE  Entries(ck') = Entries(jobRuns[j].checkpoint) /\ call'.queue \cap Entries(ck') = {}
<1> DEFINE saved == jobRuns[j].checkpoint
<1>0. saved \in Checkpoint
  BY TypeFacts DEF JobRun
<1>1. PICK c, q : Begin(j, b, c, q) /\ Entries(c) = Entries(saved) /\ q \cap Entries(c) = {}
  <2>1. CASE StartBatch(j, b, items)
    <3>1. saved = EmptyCheckpoint /\ Entries(EmptyCheckpoint) = {}
      BY <2>1 DEF StartBatch, FreshRuns, Entries, EmptyCheckpoint
    <3> QED  BY <2>1, <3>1 DEF StartBatch
  <2>2. CASE ResumeBatch(j, b, items)
    <3>1. Begin(j, b, [saved EXCEPT !.stoppedReason = "in_progress"],
                items \ (saved.done \cup saved.errors))
      BY <2>2 DEF ResumeBatch
    <3>2. Entries([saved EXCEPT !.stoppedReason = "in_progress"]) = Entries(saved)
      BY <1>0 DEF Checkpoint, Entries
    <3>3. (items \ (saved.done \cup saved.errors)) \cap Entries(saved) = {}
      BY DEF Entries
    <3> QED  BY <3>1, <3>2, <3>3
  <2> QED  BY <2>1, <2>2
<1>2. ck' = c /\ call'.queue = q
  BY <1>1 DEF Begin, NoCall, ck
<1> QED  BY <1>1, <1>2

LEMMA NextEntries ==
  ASSUME Typed, NextProspect
  PROVE  /\ Entries(ck') = Entries(ck)
         /\ \/ call'.pc = "finish" /\ call'.queue = {}
            \/ \E p \in call.queue : /\ call'.pc = "mine" /\ call'.prospect = p
                                     /\ call'.queue = call.queue \ {p}
<1>0. call \in Call /\ ck \in Checkpoint
  BY TypeFacts
<1>1. ASSUME NEW r,
             call' = [call EXCEPT !.pc = "finish", !.queue = {}, !.checkpoint.stoppedReason = r]
      PROVE  call'.pc = "finish" /\ call'.queue = {} /\ Entries(ck') = Entries(ck)
  <2>1. ck' = [ck EXCEPT !.stoppedReason = r] /\ call'.pc = "finish" /\ call'.queue = {}
    BY <1>0, <1>1 DEF ck, Call
  <2> QED  BY <1>0, <2>1 DEF Checkpoint, Entries
<1>2. ASSUME NEW p, call' = [call EXCEPT !.pc = "mine", !.queue = @ \ {p}, !.prospect = p]
      PROVE  /\ call'.pc = "mine" /\ call'.prospect = p /\ call'.queue = call.queue \ {p}
             /\ Entries(ck') = Entries(ck)
  BY <1>0, <1>2 DEF ck, Call
<1>4. CASE call.queue = {} \/ ck.scrapesUsed >= call.budget
  BY <1>1, <1>4 DEF NextProspect
<1>5. CASE ~(call.queue = {} \/ ck.scrapesUsed >= call.budget)
  BY <1>2, <1>5 DEF NextProspect
<1> QED  BY <1>4, <1>5

\* The visit goes on, or ends with an entry of the one kind or the other.
LEMMA VisitEntries ==
  ASSUME Typed, MineProfile \/ ProspectDone \/ ProspectThrows \/ \E answered : FetchPage(answered)
  PROVE  /\ call'.queue = call.queue /\ call.prospect \in Prospects
         /\ call.pc \in {"mine", "pages"}
         /\ \/ /\ call'.pc = "pages" /\ call'.prospect = call.prospect /\ Entries(ck') = Entries(ck)
            \/ /\ call'.pc = "save" /\ Entries(ck') = Entries(ck) \cup {call.prospect}
<1>0. call \in Call /\ ck \in Checkpoint
  BY TypeFacts
<1>1. call.pc \in {"mine", "pages"} /\ call.prospect \in Prospects
  BY DEF Typed, CallsAreAboutRuns, MineProfile, ProspectDone, ProspectThrows, FetchPage
<1>2. CASE call' = [call EXCEPT !.pc = "save", !.checkpoint.done = @ \cup {call.prospect}]
  BY <1>0, <1>1, <1>2 DEF ck, Call, Checkpoint, Entries
<1>3. CASE call' = [call EXCEPT !.pc = "save", !.checkpoint.errors = @ \cup {call.prospect}]
  BY <1>0, <1>1, <1>3 DEF ck, Call, Checkpoint, Entries
<1>4. CASE call' = [call EXCEPT !.pc = "pages", !.page = 1]
  BY <1>0, <1>1, <1>4 DEF ck, Call, Entries
<1>5. CASE /\ call' = [call EXCEPT !.page = @ + 1, !.checkpoint.scrapesUsed = @ + 1]
           /\ call.pc = "pages"
  BY <1>0, <1>1, <1>5 DEF ck, Call, Checkpoint, Entries
<1>6. CASE MineProfile
  BY <1>2, <1>4, <1>6 DEF MineProfile
<1>7. ASSUME NEW answered, FetchPage(answered)
      PROVE  /\ call' = [call EXCEPT !.page = @ + 1, !.checkpoint.scrapesUsed = @ + 1]
             /\ call.pc = "pages"
  BY <1>7 DEF FetchPage
<1> QED  BY <1>2, <1>3, <1>5, <1>6, <1>7 DEF ProspectDone, ProspectThrows

LEMMA SaveEntries ==
  ASSUME Typed, Save
  PROVE  /\ call.pc \in {"save", "finish"} /\ call'.pc \in {"next", "complete"}
         /\ call'.queue = call.queue /\ ck' = ck
<1>1. call' = [call EXCEPT !.pc = IF @ = "save" THEN "next" ELSE "complete",
                           !.prospect = Nobody, !.page = 0]
  BY DEF Save
<1>2. call'.queue = call.queue
  BY <1>1, TypeFacts DEF Call
<1> QED  BY <1>2, SaveEffect

LEMMA AnewStep ==
  ASSUME Typed, FreshRuns, VisitsAnew, [Next]_vars
  PROVE  VisitsAnew'
<1>1. ASSUME NEW j \in Runs, NEW b \in Budgets, NEW items \in SUBSET Prospects,
             StartBatch(j, b, items) \/ ResumeBatch(j, b, items)
      PROVE  VisitsAnew'
  BY <1>1, StartEffect, StartEntries DEF VisitsAnew
<1>2. CASE NextProspect
  BY <1>2, NextEntries DEF VisitsAnew
<1>3. CASE MineProfile \/ ProspectDone \/ ProspectThrows \/ \E answered : FetchPage(answered)
  <2>1. /\ call'.queue = call.queue /\ call.pc \in {"mine", "pages"}
        /\ \/ /\ call'.pc = "pages" /\ call'.prospect = call.prospect /\ Entries(ck') = Entries(ck)
           \/ /\ call'.pc = "save" /\ Entries(ck') = Entries(ck) \cup {call.prospect}
    BY <1>3, VisitEntries
  <2> QED  BY <2>1 DEF VisitsAnew
<1>4. CASE Save
  BY <1>4, SaveEntries DEF VisitsAnew
<1>5. CASE Complete \/ Abort
  BY <1>5, Records DEF Complete, Abort, VisitsAnew, NoCall, Entries, ck
<1>6. ASSUME NEW technologies, NEW handles, Rescan(technologies, handles) PROVE VisitsAnew'
  BY <1>6 DEF Rescan, VisitsAnew, ck
<1>7. CASE UNCHANGED vars
  BY <1>7 DEF vars, VisitsAnew, ck
<1> QED  BY <1>1, <1>2, <1>3, <1>4, <1>5, <1>6, <1>7 DEF Next

LEMMA IdealInit == Init => Ideal!Init
<1> SUFFICES ASSUME Init PROVE Ideal!Init  OBVIOUS
<1>1. /\ call.pc = "idle" /\ call.run = NoRun /\ call.budget = 0 /\ ck = EmptyCheckpoint
  BY DEF Init, NoCall, ck
<1>2. EmptyCheckpoint.done \cup EmptyCheckpoint.errors = {} /\ EmptyCheckpoint.scrapesUsed = 0
  BY DEF EmptyCheckpoint
<1>3. \A j \in Runs : jobRuns[j].checkpoint = EmptyCheckpoint
  BY DEF Init
<1> QED  BY <1>1, <1>2, <1>3 DEF Ideal!Init, Ideal!Idle

\* What is saved changes with the checkpoints alone.
LEMMA SavedStays ==
  ASSUME CheckpointsKept
  PROVE  Saved' = Saved /\ Spent' = Spent
BY DEF CheckpointsKept, Saved, Spent, Entries

LEMMA IdealStep ==
  ASSUME Typed, FreshRuns, VisitsAnew, [Next]_vars
  PROVE  [Ideal!Next]_(Ideal!vars)
<1> USE DEF SameRun
<1>0. call.pc # "idle" => call.run \in Runs /\ call.run # NoRun
  BY TypeFacts, LimitsAssumption
<1>a. UNCHANGED jobRuns => Saved' = Saved /\ Spent' = Spent
  BY DEF Saved, Spent, Entries
<1>1. ASSUME NEW j \in Runs, NEW b \in Budgets, NEW items \in SUBSET Prospects,
             StartBatch(j, b, items) \/ ResumeBatch(j, b, items)
      PROVE  Ideal!Next
  <2>1. /\ call.pc = "idle" /\ call'.pc = "next" /\ call'.run = j /\ call'.budget = b
        /\ ck'.scrapesUsed = Spent[j] /\ CheckpointsKept
    BY <1>1, StartEffect DEF SavedUse, Spent
  <2>2. Entries(ck)' = Saved[j]
    BY <1>1, StartEntries DEF Saved
  <2>3. call.run = NoRun /\ AtHand' = {}
    BY <2>1 DEF VisitsAnew, NoCall, AtHand
  <2>4. Ideal!Begin(j, b)
    BY <2>1, <2>2, <2>3, SavedStays
       DEF Ideal!Begin, Ideal!record, Saved, Spent, Entries, AtHand
  <2> QED  BY <2>4 DEF Ideal!Next
<1>2. CASE NextProspect
  <2>1. /\ call.pc = "next" /\ SameRun /\ ck'.scrapesUsed = ck.scrapesUsed /\ UNCHANGED jobRuns
        /\ Entries(ck)' = Entries(ck)
    BY <1>2, NextProspectEffect, NextEntries
  <2>2. CASE call'.pc = "finish"
    <3>1. AtHand' = AtHand
      BY <2>1, <2>2 DEF AtHand
    <3> QED  BY <1>a, <2>1, <3>1 DEF Ideal!vars, Ideal!record, Saved, Spent, Entries, AtHand
  <2>3. ASSUME NEW p \in call.queue, call'.pc = "mine", call'.prospect = p
        PROVE  Ideal!Next
    <3>1. AtHand = {} /\ AtHand' = {p}
      BY <2>1, <2>3 DEF AtHand
    <3>2. p \notin Entries(ck) /\ p \in Prospects
      BY TypeFacts DEF VisitsAnew, Call
    <3>3. Ideal!Take(p)
      BY <1>0, <1>a, <2>1, <3>1, <3>2
         DEF Ideal!Take, Ideal!record, Saved, Spent, Entries, AtHand
    <3> QED  BY <3>2, <3>3 DEF Ideal!Next
  <2> QED  BY <1>2, <2>2, <2>3, NextEntries
<1>3. CASE MineProfile \/ ProspectDone \/ ProspectThrows
  <2>1. /\ SameRun /\ ck'.scrapesUsed = ck.scrapesUsed /\ UNCHANGED jobRuns
    BY <1>3, MineEffect, EndOfProspectEffect
  <2>2. PICK p : p = call.prospect
    OBVIOUS
  <2>3. /\ p \in Prospects /\ call.pc \in {"mine", "pages"}
        /\ \/ call'.pc = "pages" /\ call'.prospect = p /\ Entries(ck)' = Entries(ck)
           \/ call'.pc = "save" /\ Entries(ck)' = Entries(ck) \cup {p}
    BY <1>3, <2>2, VisitEntries
  <2>4. AtHand = {p} /\ p \notin Entries(ck)
    BY <2>2, <2>3 DEF AtHand, VisitsAnew
  <2>5. CASE call'.pc = "pages" /\ call'.prospect = p /\ Entries(ck)' = Entries(ck)
    <3>1. AtHand' = {p}
      BY <2>5 DEF AtHand
    <3> QED  BY <1>a, <2>1, <2>4, <2>5, <3>1 DEF Ideal!vars, Ideal!record, Saved, Spent, Entries, AtHand
  <2>6. CASE call'.pc = "save" /\ Entries(ck)' = Entries(ck) \cup {p}
    <3>1. AtHand' = {}
      BY <2>6 DEF AtHand
    <3>2. Ideal!Finish(p)
      BY <1>0, <1>a, <2>1, <2>3, <2>4, <2>6, <3>1
         DEF Ideal!Finish, Ideal!record, Saved, Spent, Entries, AtHand
    <3> QED  BY <2>3, <3>2 DEF Ideal!Next
  <2> QED  BY <2>3, <2>5, <2>6
<1>4. ASSUME NEW answered, FetchPage(answered) PROVE Ideal!Next
  <2>1. /\ call.pc = "pages" /\ call'.pc = "pages" /\ SameRun /\ call'.prospect = call.prospect
        /\ ck.scrapesUsed < call.budget /\ ck'.scrapesUsed = ck.scrapesUsed + 1
        /\ UNCHANGED jobRuns
    BY <1>4, FetchEffect
  <2>2. Entries(ck)' = Entries(ck) /\ AtHand' = AtHand
    BY <1>4, <2>1, VisitEntries DEF AtHand
  <2>3. Ideal!Charge
    BY <1>0, <1>a, <2>1, <2>2 DEF Ideal!Charge, Ideal!record, Saved, Spent, Entries, AtHand
  <2> QED  BY <2>3 DEF Ideal!Next
<1>5. CASE Save
  <2>1. /\ call.pc \in {"save", "finish"} /\ call'.pc \in {"next", "complete"} /\ SameRun /\ ck' = ck
        /\ jobRuns'[call.run].checkpoint = ck
        /\ \A i \in Runs \ {call.run} : jobRuns'[i] = jobRuns[i]
    BY <1>5, SaveEffect, SaveEntries
  <2>2. /\ Saved' = [Saved EXCEPT ![call.run] = Entries(ck)]
        /\ Spent' = [Spent EXCEPT ![call.run] = ck.scrapesUsed]
    BY <1>0, <2>1 DEF Saved, Spent
  <2>3. AtHand' = AtHand /\ Entries(ck)' = Entries(ck)
    BY <2>1 DEF AtHand, Entries
  <2>4. Ideal!Save
    BY <1>0, <2>1, <2>2, <2>3 DEF Ideal!Save, Saved, Spent, Entries, AtHand
  <2> QED  BY <2>4 DEF Ideal!Next
<1>6. CASE Complete \/ Abort
  <2>1. call.pc # "idle" /\ CheckpointsKept /\ call' = NoCall
    BY <1>6, CompleteEffect DEF Complete, Abort, CheckpointsKept
  <2>2. /\ call'.run = NoRun /\ call'.budget = 0 /\ Entries(ck)' = {} /\ AtHand' = {}
        /\ ck'.scrapesUsed = 0
    BY <2>1 DEF NoCall, ck, EmptyCheckpoint, Entries, AtHand
  <2>3. Ideal!End
    BY <1>0, <2>1, <2>2, SavedStays
       DEF Ideal!End, Ideal!Idle, Ideal!record, Saved, Spent, Entries, AtHand
  <2> QED  BY <2>3 DEF Ideal!Next
<1>7. CASE UNCHANGED <<jobRuns, call>>
  <2>1. AtHand' = AtHand /\ Entries(ck)' = Entries(ck) /\ ck'.scrapesUsed = ck.scrapesUsed /\ SameRun
    BY <1>7 DEF AtHand, Entries, ck
  <2> QED  BY <1>7, <1>a, <2>1 DEF Ideal!vars, Ideal!record, Saved, Spent, Entries, AtHand
<1>8. ASSUME NEW technologies, NEW handles, Rescan(technologies, handles)
      PROVE  UNCHANGED <<jobRuns, call>>
  BY <1>8 DEF Rescan
<1>9. UNCHANGED vars => UNCHANGED <<jobRuns, call>>
  BY DEF vars
<1> QED  BY <1>1, <1>2, <1>3, <1>4, <1>5, <1>6, <1>7, <1>8, <1>9 DEF Next

\* However its calls die and are resumed, a website batch goes on from exactly what its checkpoint
\* says was done: no prospect twice, not even one whose visit failed, and no page beyond the budget.
THEOREM WebsiteBatchResumes == Spec => ResumesItsRuns
<1>1. Init => FreshRuns
  BY Records DEF Init, FreshRuns
<1> QED  BY <1>1, TypedInit, TypedStep, FreshStep, AnewInit, AnewStep, IdealInit, IdealStep, PTL
            DEF Spec, ResumesItsRuns, Ideal!Spec
=============================================================================
