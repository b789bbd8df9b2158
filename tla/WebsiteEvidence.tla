--------------------------- MODULE WebsiteEvidence ---------------------------
(***************************************************************************)
(* WebsiteEvidenceService (packages/prospecting/src/website-evidence): the *)
(* batch that fetches a few pages of every prospect's company website and  *)
(* stores the facts it finds, under a budget of page fetches; and the ICP  *)
(* score that these facts, those of discovery and those of the latest      *)
(* technology scan add up to.                                              *)
(*                                                                         *)
(* One call runs at a time, may die or have an access throw at any point,  *)
(* and any run may be resumed.  Technology scans happen meanwhile.         *)
(***************************************************************************)
EXTENDS LeadScoring, Sequences

CONSTANTS
  Prospects,
  Finds,       \* Finds[p]: what discovery may have come upon, a bio and a post
  HasDomain,   \* prospects with a company_domain
  HasFullName, \* prospects whose display name is a first and a last name
  Pages,       \* Pages[i]: what the page at the i-th configured path says
  MaxPages,    \* getWebsiteEvidenceMaxPagesPerDomain()
  Runs,        \* job_runs ids
  Budgets,     \* values of daily_limit_scrapes, which each call reads anew
  MaxAborts,   \* bound on the calls that die
  NoRun, Nobody

ASSUME ProspectsAssumption == HasDomain \cup HasFullName \subseteq Prospects /\ Nobody \notin Prospects
ASSUME LimitsAssumption == /\ Budgets \cup {MaxPages, MaxAborts} \subseteq Nat /\ Budgets # {}
                           /\ NoRun \notin Runs

VARIABLES
  facts,     \* evidence: signal categories on record, by prospect
  triggers,  \* evidence of type trigger_signal, by prospect
  detected,  \* technologies of the companies' latest OK scan, one for them all
  linked,    \* prospects whose handle that scan's enrichment names
  jobRuns,   \* job_runs
  call,      \* runBatch in progress
  fetches,   \* fetches[j]: page fetches in the name of run j
  tried,     \* tried[j]: <<p, i>> once a call of run j tried page i of prospect p
  aborts     \* calls that died so far

scoreInputs == <<facts, triggers, detected, linked>>
vars == <<scoreInputs, jobRuns, call, fetches, tried, aborts>>
-----------------------------------------------------------------------------
(* What discovery has stored about the prospect before: the role that the    *)
(* bio's phrases make out, and a job posting for paid media.                 *)

BioPhrases == {"assistant to the founder", "founder", "head of growth", "growth marketer",
               "coordinator"}

\* classifyFounderCandidate: the first pattern that matches, the disqualifying one before all.
FounderRole(phrases) ==
  LET Has(p) == p \in phrases IN
  CASE Has("assistant to the founder") -> {"role_execution_only"}
    [] ~Has("assistant to the founder") /\ Has("founder") -> {"role_founder_or_ceo"}
    [] phrases \cap {"assistant to the founder", "founder"} = {} /\ Has("head of growth") ->
         {"role_director_with_authority_signal"}
    [] phrases \subseteq {"growth marketer", "coordinator"} /\ Has("growth marketer") ->
         {"role_other_marketing_adjacent"}
    [] phrases = {"coordinator"} -> {"role_execution_only"}
    [] OTHER -> {}

Posting == [title: BOOLEAN, hiring: BOOLEAN, age: {"unknown", "recent", "old"}]

Find == [bio: SUBSET BioPhrases, post: Posting]

ASSUME FindsAssumption == Finds \in [Prospects -> SUBSET Find]

\* classifyPaidMediaJobPosting
QualifiesAsPosting(post) == post.title /\ post.hiring /\ post.age = "recent"

DiscoveredFacts(find) ==
  FounderRole(find.bio) \cup (IF QualifiesAsPosting(find.post) THEN {"paid_media_job_posting_90d"} ELSE {})
-----------------------------------------------------------------------------
(* What a page gives away.                                                   *)

Page == [headcount: Nat,           \* the first headcount it states, 0 for none
         warehouse: BOOLEAN,
         revenue: BOOLEAN,         \* a dollar figure called revenue or sales
         funding: BOOLEAN,         \* words about an investment just before that figure
         quote: BOOLEAN,           \* the prospect's name by a quotation and "said"
         announced: SUBSET ValidTriggerTypes,
         notYet: SUBSET ValidTriggerTypes]  \* announcements with "coming soon" by them

ASSUME PagesAssumption == Pages \in Seq(Page)

\* classifyEmployeeCountBand, classifyWarehouseFulfillmentSignal, classifyConfirmedRevenueStatement
\* and classifyPublicVisibilityPressQuote.
FactsOn(p, page) ==
  (IF page.headcount \in 5..75 THEN {"employee_count_band"} ELSE {})
    \cup (IF page.warehouse THEN {"warehouse_fulfillment_signal"} ELSE {})
    \cup (IF page.revenue /\ ~page.funding THEN {"confirmed_revenue_statement"} ELSE {})
    \cup (IF page.quote /\ p \in HasFullName THEN {"public_visibility"} ELSE {})

\* classifyPressAnnouncementTriggers, stored with the page's address.
TriggersOn(page) ==
  {[type |-> t, sourced |-> TRUE] : t \in
     (page.announced \ page.notYet) \cap {"new_product_launch", "store_brand_expansion",
                                          "funding_growth_announcement", "funnel_offer_change"}}

\* fetchPage: refused by the kill switch or by robots.txt, or answered with a status (0: not at
\* all, within the timeout); anything but a success throws.
FetchSucceeds(killed, disallowed, status) == ~killed /\ ~disallowed /\ status \in 200..299
-----------------------------------------------------------------------------
Checkpoint == [done: SUBSET Prospects, errors: SUBSET Prospects, scrapesUsed: Nat,
               stoppedReason: {"in_progress", "completed", "budget_exhausted"}]

EmptyCheckpoint == [done |-> {}, errors |-> {}, scrapesUsed |-> 0, stoppedReason |-> "in_progress"]

JobRun == [status: {"none", "running", "completed"}, checkpoint: Checkpoint]

Call == [pc: {"idle", "next", "mine", "pages", "save", "finish", "complete"},
         run: Runs \cup {NoRun}, budget: Nat, checkpoint: Checkpoint, queue: SUBSET Prospects,
         prospect: Prospects \cup {Nobody}, page: Nat]

NoCall == [pc |-> "idle", run |-> NoRun, budget |-> 0, checkpoint |-> EmptyCheckpoint,
           queue |-> {}, prospect |-> Nobody, page |-> 0]

Init ==
  /\ facts \in {f \in [Prospects -> SUBSET (Roles \cup {"paid_media_job_posting_90d"})] :
                 \A p \in Prospects : \E find \in Finds[p] : f[p] = DiscoveredFacts(find)}
  /\ triggers = [p \in Prospects |-> {}]
  /\ detected = {} /\ linked = {}
  /\ jobRuns = [j \in Runs |-> [status |-> "none", checkpoint |-> EmptyCheckpoint]]
  /\ call = NoCall
  /\ fetches = [j \in Runs |-> 0]
  /\ tried = [j \in Runs |-> {}]
  /\ aborts = 0

ck == call.checkpoint
-----------------------------------------------------------------------------
(* collectForProspect.                                                       *)

\* mineEnrichmentForCorrectProfile: a handle found on the company's own pages is the prospect's.
CorrectProfile(p) == IF p \in linked THEN {"correct_profile_identified"} ELSE {}

\* The zero-fetch check; a prospect whose company is unknown is done after it.
MineProfile ==
  /\ call.pc = "mine"
  /\ IF call.prospect \in HasDomain
       THEN /\ facts' = [facts EXCEPT ![call.prospect] = @ \cup CorrectProfile(call.prospect)]
            /\ call' = [call EXCEPT !.pc = "pages", !.page = 1]
       ELSE /\ call' = [call EXCEPT !.pc = "save", !.checkpoint.done = @ \cup {call.prospect}]
            /\ UNCHANGED facts
  /\ UNCHANGED <<triggers, detected, linked, jobRuns, fetches, tried, aborts>>

MayFetchAnother ==
  /\ call.page <= Len(Pages)
  /\ call.page <= MaxPages  \* attempts, those that failed included
  /\ ck.scrapesUsed < call.budget

\* Faulty variant: a page that fails is not counted as an attempt on the budget.
FetchChargingSuccessOnly(answered) ==
  LET p == call.prospect  page == Pages[call.page] IN
  /\ call.pc = "pages" /\ MayFetchAnother
  /\ fetches' = [fetches EXCEPT ![call.run] = @ + 1]
  /\ tried' = [tried EXCEPT ![call.run] = @ \cup {<<p, call.page>>}]
  /\ facts' = IF answered THEN [facts EXCEPT ![p] = @ \cup FactsOn(p, page)] ELSE facts
  /\ triggers' = IF answered THEN [triggers EXCEPT ![p] = @ \cup TriggersOn(page)] ELSE triggers
  /\ call' = [call EXCEPT !.page = @ + 1,
                          !.checkpoint.scrapesUsed = IF answered THEN @ + 1 ELSE @]
  /\ UNCHANGED <<detected, linked, jobRuns, aborts>>

\* Faulty variant: the first page that fails ends the prospect.
FetchPageUntilOneFails(answered) ==
  LET p == call.prospect  page == Pages[call.page] IN
  /\ call.pc = "pages" /\ MayFetchAnother
  /\ fetches' = [fetches EXCEPT ![call.run] = @ + 1]
  /\ tried' = [tried EXCEPT ![call.run] = @ \cup {<<p, call.page>>}]
  /\ facts' = IF answered THEN [facts EXCEPT ![p] = @ \cup FactsOn(p, page)] ELSE facts
  /\ call' = [call EXCEPT !.page = IF answered THEN @ + 1 ELSE Len(Pages) + 1,
                          !.checkpoint.scrapesUsed = @ + 1]
  /\ UNCHANGED <<triggers, detected, linked, jobRuns, aborts>>

\* One page: charged to the budget before it is fetched, then each of its facts stored unless it
\* is stored already.
FetchPage(answered) ==
  LET p == call.prospect  page == Pages[call.page] IN
  /\ call.pc = "pages" /\ MayFetchAnother
  /\ fetches' = [fetches EXCEPT ![call.run] = @ + 1]
  /\ tried' = [tried EXCEPT ![call.run] = @ \cup {<<p, call.page>>}]
  /\ facts' = IF answered THEN [facts EXCEPT ![p] = @ \cup FactsOn(p, page)] ELSE facts
  /\ triggers' = IF answered THEN [triggers EXCEPT ![p] = @ \cup TriggersOn(page)] ELSE triggers
  /\ call' = [call EXCEPT !.page = @ + 1, !.checkpoint.scrapesUsed = @ + 1]
  /\ UNCHANGED <<detected, linked, jobRuns, aborts>>

\* The entry looks the same whether the pages or the budget came to their end.
ProspectDone ==
  /\ call.pc = "pages" /\ ~MayFetchAnother
  /\ call' = [call EXCEPT !.pc = "save", !.checkpoint.done = @ \cup {call.prospect}]
  /\ UNCHANGED <<scoreInputs, jobRuns, fetches, tried, aborts>>

\* The prospect does not exist, or an access throws: an entry with the error, never tried again.
ProspectThrows ==
  /\ call.pc \in {"mine", "pages"}
  /\ call' = [call EXCEPT !.pc = "save", !.checkpoint.errors = @ \cup {call.prospect}]
  /\ UNCHANGED <<scoreInputs, jobRuns, fetches, tried, aborts>>
-----------------------------------------------------------------------------
(* runBatch.                                                                 *)

Begin(j, budget, checkpoint, items) ==
  /\ call.pc = "idle"
  /\ jobRuns' = [jobRuns EXCEPT ![j].status = "running"]
  /\ call' = [NoCall EXCEPT !.pc = "next", !.run = j, !.budget = budget, !.checkpoint = checkpoint,
                            !.queue = items]
  /\ UNCHANGED <<scoreInputs, fetches, tried, aborts>>

StartBatch(j, budget, items) ==
  jobRuns[j].status = "none" /\ Begin(j, budget, EmptyCheckpoint, items)

\* Faulty variant: a resumed run visits the prospects again that it has errors for.
ResumeRetryingErrors(j, budget, items) ==
  /\ jobRuns[j].status # "none"
  /\ Begin(j, budget, [jobRuns[j].checkpoint EXCEPT !.stoppedReason = "in_progress"],
           items \ jobRuns[j].checkpoint.done)

\* Only prospects without an entry are taken; the fetches the run has made still count.
ResumeBatch(j, budget, items) ==
  LET saved == jobRuns[j].checkpoint IN
  /\ jobRuns[j].status # "none"
  /\ Begin(j, budget, [saved EXCEPT !.stoppedReason = "in_progress"],
           items \ (saved.done \cup saved.errors))

NextProspect ==
  /\ call.pc = "next"
  /\ IF call.queue = {} \/ ck.scrapesUsed >= call.budget
       THEN call' = [call EXCEPT !.pc = "finish", !.queue = {}, !.checkpoint.stoppedReason =
                       IF call.queue = {} THEN "completed" ELSE "budget_exhausted"]
       ELSE \E p \in call.queue :
              call' = [call EXCEPT !.pc = "mine", !.queue = @ \ {p}, !.prospect = p]
  /\ UNCHANGED <<scoreInputs, jobRuns, fetches, tried, aborts>>

\* updateCheckpoint(), after each prospect and once more at the end.
Save ==
  /\ call.pc \in {"save", "finish"}
  /\ jobRuns' = [jobRuns EXCEPT ![call.run].checkpoint = ck]
  /\ call' = [call EXCEPT !.pc = IF @ = "save" THEN "next" ELSE "complete",
                          !.prospect = Nobody, !.page = 0]
  /\ UNCHANGED <<scoreInputs, fetches, tried, aborts>>

Complete ==
  /\ call.pc = "complete"
  /\ jobRuns' = [jobRuns EXCEPT ![call.run].status = "completed"]
  /\ call' = NoCall
  /\ UNCHANGED <<scoreInputs, fetches, tried, aborts>>

\* The process dies, or updateCheckpoint throws: the run stays 'running'.
Abort ==
  /\ call.pc # "idle"
  /\ aborts < MaxAborts
  /\ aborts' = aborts + 1
  /\ call' = NoCall
  /\ UNCHANGED <<scoreInputs, jobRuns, fetches, tried>>

\* A newer OK scan of the companies: what it detects, and the handles it finds on their pages.
Rescan(technologies, handles) ==
  /\ detected' = technologies
  /\ linked' = handles
  /\ UNCHANGED <<facts, triggers, jobRuns, call, fetches, tried, aborts>>

Next ==
  \/ \E j \in Runs, budget \in Budgets, items \in SUBSET Prospects :
       StartBatch(j, budget, items) \/ ResumeBatch(j, budget, items)
  \/ NextProspect \/ MineProfile
  \/ \E answered \in {FetchSucceeds(killed, disallowed, status) :
                         killed, disallowed \in BOOLEAN, status \in {0, 200, 404, 429}} :
       FetchPage(answered)
  \/ ProspectDone \/ ProspectThrows \/ Save \/ Complete \/ Abort
  \/ \E technologies \in {{}, {"Klaviyo", "Recharge", "GA4"}}, handles \in {{}, HasDomain} :
       Rescan(technologies, handles)

Spec == Init /\ [][Next]_vars
-----------------------------------------------------------------------------
\* assembleAndScore, for a caller that determines no exclusion of its own.
Score(p) ==
  ScoreProspect(
    facts[p] \cup IF p \in HasDomain THEN ReadTechnologyEvidenceFacts(detected) ELSE {},
    triggers[p], FALSE)

\* The values the variables take; the invariant that proofs about this module start from.
WebsiteTypeOK ==
  /\ facts \in [Prospects -> SUBSET SignalCategories]
  /\ triggers \in [Prospects -> SUBSET [type: ValidTriggerTypes, sourced: {TRUE}]]
  /\ detected \subseteq RetentionTools \cup AnalyticsTags /\ linked \subseteq HasDomain
  /\ jobRuns \in [Runs -> JobRun]
  /\ call \in Call
  /\ fetches \in [Runs -> Nat]
  /\ tried \in [Runs -> SUBSET (Prospects \X DOMAIN Pages)]
  /\ aborts \in 0..MaxAborts

\* A run and all its resumptions fetch no more pages than the largest budget a call of it read,
\* but for those that a call which died had fetched since its last checkpoint: the pages of one
\* prospect.
PagesWithinBudget ==
  \A j \in Runs : \E b \in Budgets : fetches[j] <= b + aborts * MaxPages

\* A prospect on a saved checkpoint is never visited again.  All the pages it may have were tried
\* by then, unless the run's budget ended on it.
DoneMeansEveryPageTried ==
  \A j \in Runs :
    LET saved == jobRuns[j].checkpoint IN
    \A p \in saved.done \cap HasDomain :
      \/ \A i \in DOMAIN Pages : i <= MaxPages => <<p, i>> \in tried[j]
      \/ \E b \in Budgets : saved.scrapesUsed >= b

\* No fact that is added about a prospect, by whichever writer, takes points away, rejects a
\* prospect or lowers its tier; only a rescan, whose detections replace the last, may.
FactsNeverLowerAScore ==
  [][\A p \in Prospects :
       facts'[p] # facts[p] \/ triggers'[p] # triggers[p] =>
         /\ Score(p).scored => Score(p)'.scored
         /\ Score(p).score <= Score(p)'.score]_vars

\* Put together, the writers of the pipeline cannot lift a prospect above tier C, and one that
\* reaches C has a qualifying job posting and an announcement of its company's website on record:
\* no writer stores an ad sighting, a spend statement, the paid channels, the product lines or the
\* funnel, on which the rest of the points depend.
PipelineStopsAtTierC ==
  \A p \in Prospects :
    /\ Score(p).tier \in {"C", "Reject"}
    /\ Score(p).tier = "C" => /\ "paid_media_job_posting_90d" \in facts[p]
                              /\ ReadTriggerFacts(triggers[p]) # {}
                              /\ p \in HasDomain

\* The batch, with every prospect an item of its checkpoint.
Ideal == INSTANCE ResumableRuns WITH
  Items <- Prospects,
  saved <- [j \in Runs |-> jobRuns[j].checkpoint.done \cup jobRuns[j].checkpoint.errors],
  spent <- [j \in Runs |-> jobRuns[j].checkpoint.scrapesUsed],
  run <- call.run,
  budget <- call.budget,
  finished <- ck.done \cup ck.errors,
  doing <- IF call.pc \in {"mine", "pages"} THEN {call.prospect} ELSE {},
  used <- ck.scrapesUsed

\* Whatever dies and whenever it is resumed, a run goes on from its checkpoint: it visits no
\* prospect that has an entry, one with an error included, and fetches no page once its budget is
\* used up.
ResumesItsRuns == Ideal!Spec
=============================================================================
