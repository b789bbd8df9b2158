------------------------------ MODULE Discovery ------------------------------
(***************************************************************************)
(* DiscoveryService.run (packages/prospecting/src/discovery): a            *)
(* checkpointed job that searches X once per query, then retrieves the     *)
(* profile of every author it found and merges what the profile and the    *)
(* posts say into prospects, prospect_sources, evidence and pain_signals.  *)
(*                                                                         *)
(* One call runs at a time (scripts/run-automation.ts awaits it), but any  *)
(* database access may throw and the process may die between any two of    *)
(* them: run() has no catch, so the job_runs row stays 'running' and only  *)
(* its last checkpoint survives.  Any run can be resumed, a completed one  *)
(* too.  Meanwhile accounts on X change their handles.                     *)
(***************************************************************************)
EXTENDS Naturals, FiniteSets

CONSTANTS
  Accounts,     \* accounts on X, each with an id that never changes
  Handles,      \* lowercase usernames, which accounts take and give up
  Queries,      \* founder and pain-intent queries of the configuration
  SignalsIn,    \* SignalsIn[q]: what the classifiers find in a post that q finds
  Runs,         \* job_runs ids
  Budgets,      \* values of daily_limit_scrapes, which each call reads anew
  MaxProfiles,  \* getDiscoveryMaxProfilesPerRun()
  MaxAborts,    \* bound on the crashes and failed accesses of a behaviour
  MaxHoldings,  \* bound on the pairs of a handle and an account that ever held it
  Nobody, NoHandle, NoRun

ASSUME SignalsAssumption == SignalsIn \in [Queries -> SUBSET {"pain", "paid_media_job"}]
ASSUME BoundsAssumption == Budgets \cup {MaxProfiles, MaxAborts, MaxHoldings} \subseteq Nat /\ Budgets # {}
ASSUME NobodyAssumption == Nobody \notin Accounts /\ NoHandle \notin Handles /\ NoRun \notin Runs

VARIABLES
  holder,     \* holder[h]: the account that answers to handle h on X
  owners,     \* owners[h]: every account that ever did
  prospects,  \* prospects, by x_username (a unique column)
  evidence,   \* prospect_sources, evidence and pain_signals: <<row, account it is about, kind>>
  jobRuns,    \* job_runs
  call,       \* run() in progress
  scrapes,    \* scrapes[j]: searches and profile reads, calls of the adapter, for run j
  aborts      \* calls that died so far

db == <<prospects, evidence>>
world == <<holder, owners>>
vars == <<world, db, jobRuns, call, scrapes, aborts>>

PostKinds == {"source", "pain", "paid_media_job"} \X Queries
Kinds == PostKinds \cup {"role", "domain"} \X {"bio"}

\* What one candidate gives: the account that wrote the post or the bio, and what was found in it.
Findings == Accounts \X Kinds

\* match.query, and the account that had written the post when the search was made.
Matches == Queries \X Accounts

Row == [stored: BOOLEAN, xUserId: Accounts \cup {Nobody}, companyDomain: BOOLEAN]
NoRow == [stored |-> FALSE, xUserId |-> Nobody, companyDomain |-> FALSE]

Stops == {"in_progress", "completed", "budget_exhausted", "max_profiles_reached"}

Checkpoint == [pendingQueries: SUBSET Queries, found: [Handles -> SUBSET Matches],
               processed: SUBSET Handles, failed: SUBSET Handles,
               scrapesUsed: Nat, profilesRetrieved: 0..MaxProfiles, stoppedReason: Stops]

EmptyCheckpoint ==
  [pendingQueries |-> Queries, found |-> [h \in Handles |-> {}],
   processed |-> {}, failed |-> {}, scrapesUsed |-> 0, profilesRetrieved |-> 0,
   stoppedReason |-> "in_progress"]

JobRun == [status: {"none", "running", "completed"}, checkpoint: Checkpoint]

Call == [pc: {"idle", "search", "save_search", "enrich", "upsert", "write", "save_enrich",
              "finish", "complete"},
         run: Runs \cup {NoRun}, budget: Nat, checkpoint: Checkpoint,
         username: Handles \cup {NoHandle}, account: Accounts \cup {Nobody},
         hasId: BOOLEAN, row: Handles \cup {NoHandle}, todo: SUBSET Findings]

NoCall == [pc |-> "idle", run |-> NoRun, budget |-> 0, checkpoint |-> EmptyCheckpoint, username |-> NoHandle,
           account |-> Nobody, hasId |-> FALSE, row |-> NoHandle, todo |-> {}]

Init ==
  /\ holder \in {f \in [Handles -> Accounts \cup {Nobody}] :
                   \A g, h \in Handles : f[g] = f[h] /\ g # h => f[g] = Nobody}
  /\ owners = [h \in Handles |-> {holder[h]} \ {Nobody}]
  /\ prospects = [h \in Handles |-> NoRow]
  /\ evidence = {}
  /\ jobRuns = [j \in Runs |-> [status |-> "none", checkpoint |-> EmptyCheckpoint]]
  /\ call = NoCall
  /\ scrapes = [j \in Runs |-> 0]
  /\ aborts = 0
-----------------------------------------------------------------------------
(* The job: one checkpoint, saved whole after every query and candidate.     *)

ck == call.checkpoint

Start(j, budget) ==
  /\ call.pc = "idle"
  /\ jobRuns[j].status = "none"
  /\ jobRuns' = [jobRuns EXCEPT ![j].status = "running"]
  /\ call' = [NoCall EXCEPT !.pc = "search", !.run = j, !.budget = budget]
  /\ UNCHANGED <<world, db, scrapes, aborts>>

\* Faulty variant: a resumed run gets the whole budget again.
ResumeWithFreshBudget(j, budget) ==
  /\ call.pc = "idle"
  /\ jobRuns[j].status # "none"
  /\ jobRuns' = [jobRuns EXCEPT ![j].status = "running"]
  /\ call' = [NoCall EXCEPT !.pc = "search", !.run = j, !.budget = budget, !.checkpoint =
                [jobRuns[j].checkpoint EXCEPT !.stoppedReason = "in_progress", !.scrapesUsed = 0]]
  /\ UNCHANGED <<world, db, scrapes, aborts>>

\* The stale stop reason is reset; what the run has used up is not.
Resume(j, budget) ==
  /\ call.pc = "idle"
  /\ jobRuns[j].status # "none"
  /\ jobRuns' = [jobRuns EXCEPT ![j].status = "running"]
  /\ call' = [NoCall EXCEPT !.pc = "search", !.run = j, !.budget = budget,
                !.checkpoint = [jobRuns[j].checkpoint EXCEPT !.stoppedReason = "in_progress"]]
  /\ UNCHANGED <<world, db, scrapes, aborts>>

\* updateCheckpoint(), then the loop it stands in goes on.
Save ==
  /\ call.pc \in {"save_search", "save_enrich", "finish"}
  /\ jobRuns' = [jobRuns EXCEPT ![call.run].checkpoint = ck]
  /\ call' = [call EXCEPT !.pc = CASE @ = "save_search" -> "search"
                                   [] @ = "save_enrich" -> "enrich"
                                   [] OTHER -> "complete"]
  /\ UNCHANGED <<world, db, scrapes, aborts>>

Complete ==
  /\ call.pc = "complete"
  /\ jobRuns' = [jobRuns EXCEPT ![call.run].status = "completed"]
  /\ call' = NoCall
  /\ UNCHANGED <<world, db, scrapes, aborts>>

\* The process dies or an access throws: whatever was not saved is forgotten.
Abort ==
  /\ call.pc # "idle"
  /\ aborts < MaxAborts
  /\ aborts' = aborts + 1
  /\ call' = NoCall
  /\ UNCHANGED <<world, db, jobRuns, scrapes>>
-----------------------------------------------------------------------------
(* Phase 1.  A query is used up whether its search answers or throws (X      *)
(* refused, the kill switch is on): its entry in errors is never retried.    *)
(* searchTweets pages until it has enough posts, and retries what fails: one *)
(* scrape, as the code counts it, may be several requests.                   *)

\* A post is kept under the handle that its author has at that moment.
SearchOneQuery(q, authors) ==
  /\ call.pc = "search"
  /\ ck.scrapesUsed < call.budget
  /\ q \in ck.pendingQueries
  /\ Nobody \notin {holder[h] : h \in authors}
  /\ scrapes' = [scrapes EXCEPT ![call.run] = @ + 1]
  /\ call' = [call EXCEPT !.pc = "save_search", !.checkpoint =
                [ck EXCEPT !.pendingQueries = @ \ {q}, !.scrapesUsed = @ + 1,
                          !.found = [h \in Handles |->
                             IF h \in authors THEN ck.found[h] \cup {<<q, holder[h]>>} ELSE ck.found[h]]]]
  /\ UNCHANGED <<world, db, jobRuns, aborts>>

\* No query is left, or the budget is used up; then phase 2 is left out.
SearchEnds ==
  /\ call.pc = "search"
  /\ \/ /\ ck.pendingQueries = {}
        /\ call' = [call EXCEPT !.pc = "enrich"]
     \/ /\ ck.pendingQueries # {} /\ ck.scrapesUsed >= call.budget
        /\ call' = [call EXCEPT !.pc = "finish",
                                !.checkpoint = [ck EXCEPT !.stoppedReason = "budget_exhausted"]]
  /\ UNCHANGED <<world, db, jobRuns, scrapes, aborts>>
-----------------------------------------------------------------------------
(* Phase 2.                                                                  *)

PendingUsernames == {h \in Handles : ck.found[h] # {}} \ ck.processed

MayGoOn == ck.scrapesUsed < call.budget /\ ck.profilesRetrieved < MaxProfiles

Processed(c) == [c EXCEPT !.processed = @ \cup {call.username}, !.scrapesUsed = @ + 1]

\* What enrichOneCandidate writes: a source for every match, and what the post gives away of its
\* author...
InPosts(matches) ==
  {f \in Accounts \X PostKinds : /\ <<f[2][2], f[1]>> \in matches
                                 /\ f[2][1] \in {"source"} \cup SignalsIn[f[2][2]]}

\* ...and of the account that answers to the handle now, the role its bio names and its domain.
InProfile(account, domain, role) ==
  (IF role THEN {<<account, <<"role", "bio">>>>} ELSE {})
    \cup (IF domain THEN {<<account, <<"domain", "bio">>>>} ELSE {})

\* Faulty variant: the candidate is marked, and the mark saved, before its evidence is written.
GetProfileMarkingFirst(h, hasId, site, role) ==
  /\ call.pc = "enrich" /\ MayGoOn /\ h \in PendingUsernames
  /\ holder[h] # Nobody
  /\ scrapes' = [scrapes EXCEPT ![call.run] = @ + 1]
  /\ jobRuns' = [jobRuns EXCEPT ![call.run].checkpoint.processed = @ \cup {h}]
  /\ call' = [call EXCEPT !.pc = "upsert", !.username = h, !.account = holder[h], !.hasId = hasId,
                          !.todo = InPosts(ck.found[h]),
                          !.checkpoint.profilesRetrieved = @ + 1]
  /\ UNCHANGED <<world, db, aborts>>

\* resolveDomainFromWebsite: a link to a social platform, or none at all, names no company.
ResolvesDomain(site) == site = "company"

\* getProfile answers for whoever holds the handle now; the id may be missing from the answer.
GetProfile(h, hasId, site, role) ==
  /\ call.pc = "enrich" /\ MayGoOn /\ h \in PendingUsernames
  /\ holder[h] # Nobody
  /\ scrapes' = [scrapes EXCEPT ![call.run] = @ + 1]
  /\ call' = [call EXCEPT !.pc = "upsert", !.username = h, !.account = holder[h], !.hasId = hasId,
                          !.todo = InPosts(ck.found[h])
                                     \cup InProfile(holder[h], ResolvesDomain(site), role),
                          !.checkpoint = [ck EXCEPT !.profilesRetrieved = @ + 1]]
  /\ UNCHANGED <<world, db, jobRuns, aborts>>

\* getProfile throws: the candidate counts as processed, and is not asked for again.
ProfileFails(h) ==
  /\ call.pc = "enrich" /\ MayGoOn /\ h \in PendingUsernames
  /\ scrapes' = [scrapes EXCEPT ![call.run] = @ + 1]
  /\ call' = [call EXCEPT !.pc = "save_enrich", !.checkpoint =
                [ck EXCEPT !.processed = @ \cup {h}, !.failed = @ \cup {h}, !.scrapesUsed = @ + 1]]
  /\ UNCHANGED <<world, db, jobRuns, aborts>>

\* Faulty variant: a profile without an id is looked up by that missing id.
ExistingRowByMissingId ==
  {r \in Handles : /\ prospects[r].stored
                   /\ prospects[r].xUserId = IF call.hasId THEN call.account ELSE Nobody}
    \cup {r \in {call.username} : prospects[r].stored}

\* byUserId[0] ?? byUsername[0]
ExistingRow ==
  LET byUserId == {r \in Handles : call.hasId /\ prospects[r].xUserId = call.account}
  IN  IF byUserId # {} THEN byUserId ELSE {r \in {call.username} : prospects[r].stored}

\* upsertProspect: an existing row only gains what it does not know yet, and keeps its handle.
UpsertProspect ==
  LET id == IF call.hasId THEN call.account ELSE Nobody
      domain == <<call.account, <<"domain", "bio">>>> \in call.todo
      Known(old, new) == IF old = Nobody THEN new ELSE old
  IN
  /\ call.pc = "upsert"
  /\ \/ \E r \in ExistingRow :
          /\ prospects' = [prospects EXCEPT ![r].xUserId = Known(@, id),
                                            ![r].companyDomain = @ \/ domain]
          /\ call' = [call EXCEPT !.pc = "write", !.row = r, !.hasId = FALSE]
     \/ /\ ExistingRow = {}
        /\ prospects' = [prospects EXCEPT ![call.username] =
                           [stored |-> TRUE, xUserId |-> id, companyDomain |-> domain]]
        /\ call' = [call EXCEPT !.pc = "write", !.row = call.username, !.hasId = FALSE]
  /\ UNCHANGED <<world, evidence, jobRuns, scrapes, aborts>>

Turn(k) == CASE k[1] = "source" -> 1 [] k[1] = "role" -> 2 [] k[1] = "domain" -> 3 [] OTHER -> 4

\* recordProspectSource, insertEvidenceIfNew and writePainSignal: what is stored already is not
\* stored again; a source is the same whoever wrote the post.
WriteOne(a, k) ==
  /\ call.pc = "write"
  /\ <<a, k>> \in call.todo
  /\ \A other \in call.todo : Turn(k) <= Turn(other[2])
  /\ evidence' = IF k[1] = "source" /\ \E b \in Accounts : <<call.row, b, k>> \in evidence
                   THEN evidence ELSE evidence \cup {<<call.row, a, k>>}
  /\ call' = [call EXCEPT !.todo = @ \ {<<a, k>>}]
  /\ UNCHANGED <<world, prospects, jobRuns, scrapes, aborts>>

CandidateDone ==
  /\ call.pc = "write" /\ call.todo = {}
  /\ call' = [call EXCEPT !.pc = "save_enrich", !.checkpoint = Processed(ck), !.username = NoHandle,
                          !.account = Nobody, !.row = NoHandle]
  /\ UNCHANGED <<world, db, jobRuns, scrapes, aborts>>

EnrichEnds ==
  /\ call.pc = "enrich"
  /\ PendingUsernames = {} \/ ~MayGoOn
  /\ call' = [call EXCEPT !.pc = "finish", !.checkpoint = [ck EXCEPT !.stoppedReason =
                CASE PendingUsernames = {} -> "completed"
                  [] ck.scrapesUsed >= call.budget -> "budget_exhausted"
                  [] OTHER -> "max_profiles_reached"]]
  /\ UNCHANGED <<world, db, jobRuns, scrapes, aborts>>
-----------------------------------------------------------------------------
Holdings == {p \in Handles \X Accounts : p[2] \in owners[p[1]]}

\* X: an account leaves its handle, and takes another that nobody holds, or leaves X.
ChangeHandle(a, h) ==
  /\ h \in Handles => holder[h] = Nobody
  /\ h \in Handles => Cardinality({<<h, a>>} \cup Holdings) <= MaxHoldings
  /\ holder' = [g \in Handles |-> IF g = h THEN a ELSE IF holder[g] = a THEN Nobody ELSE holder[g]]
  /\ owners' = [g \in Handles |-> IF g = h THEN owners[g] \cup {a} ELSE owners[g]]
  /\ UNCHANGED <<db, jobRuns, call, scrapes, aborts>>

Sites == {"none", "social", "company"}

Next ==
  \/ \E j \in Runs, budget \in Budgets : Start(j, budget) \/ Resume(j, budget)
  \/ Save \/ Complete \/ Abort
  \/ \E q \in Queries, authors \in SUBSET Handles : SearchOneQuery(q, authors)
  \/ SearchEnds
  \/ \E h \in Handles : ProfileFails(h)
  \/ \E h \in Handles, hasId, role \in BOOLEAN, site \in Sites : GetProfile(h, hasId, site, role)
  \/ UpsertProspect
  \/ \E a \in Accounts, k \in Kinds : WriteOne(a, k)
  \/ CandidateDone \/ EnrichEnds
  \/ \E a \in Accounts, h \in Handles \cup {NoHandle} : ChangeHandle(a, h)

Spec == Init /\ [][Next]_vars
-----------------------------------------------------------------------------
\* The values the variables take: the invariant that a proof about this module starts from.
DiscoveryTypeOK ==
  /\ holder \in [Handles -> Accounts \cup {Nobody}]
  /\ owners \in [Handles -> SUBSET Accounts]
  /\ prospects \in [Handles -> Row]
  /\ evidence \subseteq Handles \X Accounts \X Kinds
  /\ jobRuns \in [Runs -> JobRun]
  /\ call \in Call
  /\ scrapes \in [Runs -> Nat]
  /\ aborts \in 0..MaxAborts

\* However often a run is resumed, all its searches and profile reads together stay within one
\* budget (the largest that a call of it read), but for the one of each call that died before it
\* saved that it had made one.  The budget is of calls of the adapter: how many requests to X each
\* of them is, is not limited by it.
OneBudgetPerRun == \A j \in Runs : \E b \in Budgets : scrapes[j] <= b + aborts

\* A candidate on a saved checkpoint is never looked at again, so by then everything its matches
\* gave must be in one prospect's rows, unless the checkpoint's errors name it.
ProcessedMeansStored ==
  \A j \in Runs :
    LET saved == jobRuns[j].checkpoint IN
    \A h \in saved.processed \ saved.failed :
      \E r \in Handles :
        /\ prospects[r].stored
        /\ \A f \in InPosts(saved.found[h]) :
             \E a \in Accounts : <<r, a, f[2]>> \in evidence

\* What is stored under a prospect is about an account that held the handle the row is kept under,
\* or a handle that the prospect's own account held as well: a handle that changed hands, between
\* two runs or between a search and the profile it leads to, is the only way for one person's
\* posts to end up under another's name.
EvidenceFollowsTheHandle ==
  \A e \in evidence :
    \E h \in Handles : /\ e[2] \in owners[h]
                       /\ h = e[1] \/ prospects[e[1]].xUserId \in owners[h]

\* The run, with its queries and its candidates as the items of one checkpoint.
Queried(c) == {"query"} \X (Queries \ c.pendingQueries)
Profiled(c) == {"profile"} \X c.processed

Ideal == INSTANCE ResumableRuns WITH
  Items <- {"query"} \X Queries \cup {"profile"} \X Handles,
  saved <- [j \in Runs |-> Queried(jobRuns[j].checkpoint) \cup Profiled(jobRuns[j].checkpoint)],
  spent <- [j \in Runs |-> jobRuns[j].checkpoint.scrapesUsed],
  run <- call.run,
  budget <- call.budget,
  finished <- Queried(ck) \cup Profiled(ck),
  doing <- IF call.pc \in {"upsert", "write"} THEN {<<"profile", call.username>>} ELSE {},
  used <- ck.scrapesUsed

\* Whatever dies and whenever it is resumed, a run goes on from its checkpoint: it begins no query
\* or candidate that has an entry, and makes no search and takes no candidate's observation for
\* done once its budget is used up.
ResumesItsRuns == Ideal!Spec
=============================================================================
