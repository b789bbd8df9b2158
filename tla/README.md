# A TLA+ model of Metrivio's growth engine

Metrivio finds prospects on X, collects evidence about them, scores them, drafts
direct messages and public posts, has a human approve each draft, and sends or
publishes what was approved. It is a TypeScript monorepo over one SQLite file. Its
promises are about *order* and *once*: nothing leaves without an approval of that
very text, nothing leaves twice, limits and a kill switch hold, and an interrupted
job can be taken up again.

No code under `packages/*/src` opens a database transaction, so every `await db...`
is a point where another process, a crash or a database error can come in. That is
where these modules look: **each database access and each network call is a step of
its own**, and what one step read may be stale in the next.

Paths below are relative to `packages/` of the repository unless they start with
`scripts/` or `.github/`.

## 1. Inventory

| Component | State it keeps | Operations | Talks to | Here |
|---|---|---|---|---|
| Draft lifecycle `core/src/drafts` | none | `applyDraftTransition`, `isTerminalDraftStatus` | called by both draft services | modelled |
| Outreach drafts `outreach/src/drafts` | `audit_log` rows only; a draft is the fold of its events | `generateDraft`, `submitForApproval`, `approve`, `reject`, reads | audit log, personalization | modelled |
| Send service `outreach/src/send` | `outreach_sequences`, `outreach_messages`, `conversation_messages` | `send()` | drafts, kill switch, config, X adapter | modelled |
| X send adapter and vendored HTTP client `adapters/src/xactions-send.adapter.ts`, `adapters/vendor/xactions-http` | retry counter of a request | `sendDirectMessage`, `request` | X | partly |
| Kill switch, configuration `core/src/kill-switch`, `core/src/config` | `system_config` | activate, deactivate, get, set, seed | everybody | modelled |
| Job runner `core/src/jobs` | `job_runs` | start, complete, fail, findResumable, markResumed, updateCheckpoint | scheduler, batch jobs | modelled |
| Automation scheduler `core/src/automation/scheduler.ts` | none | `runScheduledJob` | job runner, kill switch, handlers | modelled |
| Workflow and script `.github/workflows/metrivio-automation.yml`, `scripts/run-automation.ts` | the encrypted database as an artifact | restore, run the listed jobs, upload | scheduler, the batch jobs | modelled |
| Content drafts `content/src/drafts` | `content_drafts` rows and `audit_log` events | generate, submit, approve (again), reject, `updateBody`, `revalidate`, `markReadyForScheduling`, integrity and readiness reads | publishing | modelled |
| Content publishing `content/src/publishing`, `content/src/automation/publish-due-content-handler.ts` | `x_manager_post_id` | `publishDraft`, the PUBLISH_DUE_CONTENT job | content drafts, X | modelled |
| Follow-ups, reply detection `outreach/src/follow-up` | `conversations`, `conversation_messages`, follow-up drafts | `detectReplies`, evaluate eligibility, draft | X inbox, drafts, kill switch | partly |
| Outreach automation `outreach/src/automation` | none | the refresh, discover and prepare jobs | follow-ups, job runner | modelled |
| Technology enrichment `prospecting/src/enrichment` | `technology_scans`, `technology_detections`, `technology_change_events`, checkpoint in `job_runs` | `scanDomain`, `scanBatch` | job runner, detector | modelled |
| Evidence assembly `prospecting/src/evidence-assembly` | `icp_scores`, checkpoint in `job_runs` | `assembleAndScore`, `scoreBatch` | enrichment, job runner, scoring | modelled |
| Discovery `prospecting/src/discovery` | `prospects`, `prospect_sources`, `evidence`, `pain_signals`, checkpoint in `job_runs` | `run` | job runner, X | modelled |
| Website evidence `prospecting/src/website-evidence` | `evidence`, checkpoint in `job_runs` | `runBatch` | job runner, company websites | modelled |
| Lead scoring `core/src/scoring` | none (pure) | normalize, score | evidence assembly | modelled |
| Write guard `core/src/automation/guard.ts` | none | `checkBeforeWrite` | configuration | modelled |
| Outreach eligibility, state machine `outreach/src/eligibility`, `outreach/src/state-machine` | none (pure) | evaluate, transition | | partly |
| Read adapters `adapters/src` | none | read X, websites, technologies | X, the web | partly |
| Personalization, content validation and research, dashboard | text | rendering, parsing, reading | | not modelled |

What makes each part correct, and what makes it hard:

- **Drafts.** An approval never skips the review; a decision stands; a prospect has
  one open draft. Each call reads the log, decides, *counts* the draft's rows for a
  sequence number and writes, in separate accesses; the fold sorts by that number.
- **Sending.** Only an approved draft, at most once per prospect and step, within
  `daily_limit_dms`, and not while the kill switch is on. The request is not
  idempotent, its answer can be lost, the client retries on its own, and the record
  of the send is written after it.
- **Jobs.** One run per job type at a time, every run is closed, an interrupted job
  runs again. The guard and the insert are separate; some accesses lie outside the try
  block, some inside it after the run was already completed; and the row that a dead
  process leaves 'running' refuses every later run of its type in that database, so
  that it matters which database the next run starts from.
- **Content.** The posted text is the approved text, a post happens once, the limit
  holds. A draft lives in two places (row and log) that are written one after the
  other, and can be edited and approved anew at any time.
- **Batches.** Work is persisted before the checkpoint names it, several workers share
  the checkpoint, and a run can die anywhere and be resumed. A scan is many rows, and
  the next scan of the domain is compared with whatever the last one left. Discovery
  and website evidence draw on a budget that must survive resumptions, and discovery
  stores people under handles that can change hands.
- **Follow-ups.** Nobody who answered is followed up, an opt-out is for good, and a
  follow-up continues the sequence. What X shows is one page that may miss what it
  showed before, a detection is five accesses, and people and operators act meanwhile.
- **Scoring.** Facts come from three writers; more of them must never make a lead
  worth less, and what the tiers can be depends on what the writers store.
- **Configuration.** Each start seeds what is missing, one key at a time, from an
  environment that may have changed; that must neither undo what an operator set nor
  open the way for real sends half-way through.

`PROJECT.json` lists the hazards line by line with the properties that watch them.

## 2. Modules

| Module | Models |
|---|---|
| `DraftLifecycle` | the transition table as a set of edges, and `applyDraftTransition` |
| `OutreachDrafts` | the audit log and the draft calls of several actors over it |
| `DraftRegistry` | abstract: what a draft store promises, one atomic step per call |
| `ApprovedPosts` | abstract: what drafts and publisher promise, a post being one atomic step |
| `ResumableRuns` | abstract: what a checkpointed run promises over its resumptions |
| `OutreachSend` | `send()` of several processes, the client's retry loop, X, the kill switch, the reviewer, the clock |
| `JobScheduler` | `runScheduledJob` of several processes over `job_runs` |
| `AutomationWorkflow` | the workflow's runs, their jobs and the database they hand on |
| `TechnologyScans` | `scanDomain` row by row and the change events between two scans |
| `EvidenceAssembly` | extends it with `scanBatch` and `scoreBatch` over checkpointed runs |
| `Discovery` | the discovery job: searches, profiles, merging of prospects, evidence, checkpoint |
| `LeadScoring` | the ICP score as operators over the facts on record |
| `WebsiteEvidence` | extends it with the website evidence job and with what the other writers store |
| `FollowUp` | the three outreach jobs: reply detection, eligibility, follow-up drafts |
| `SystemConfig` | settings: seeding, edits, and what the readers make of them |
| `ContentDrafts` | content drafts: row, folded log, one editor's calls |
| `ContentPublish` | extends it with `publishDraft`, the job that publishes the due drafts, X and the clock |
| `MC...` | values of the constants and symmetry sets for TLC |
| `..._proofs` | theorems and proofs |

How to read a module: a record with a `pc` field (`call`, `send`, `inv`, `edit`,
`pub`) is one process's call in progress; `pc` names the *next* access. An action is
one access together with the decision the code takes from it before the next one.
`Crash...` drops the call and keeps the store. A definition marked "Faulty variant"
is a plausible bug, defined beside the action it would replace; no specification
uses it. A comment that starts with "observed:" marks a history variable or field
that no guard of the code reads.

### OutreachDrafts
`auditLog` is the sequence of rows; `StatusOf(d)` is `fold()`, with the stable sort by
sequence number as the order `Precedes`. `generateDraft` is `BeginGenerate` (the select
of the created rows), `FoldListed` (the fold of each) and `WriteCreated`; a transition
is `BeginTransition` (read and check), `CountRows` (the second read) and `WriteEvent`.
The folds of several listed drafts, which the code awaits together (`Promise.all`), are one
step: the text of a draft and `personalization` are left out, and a call that only
reads or is refused is a stuttering step.

### OutreachSend
The steps of `send()` in their order: kill switch, load and require APPROVED, the
follow-up recheck (which answers either way), find or create the manual-send
sequence, look up the `outreach_messages` row, the daily limit, the kill switch again
(and the exit of a dry run), the adapter's own checks, the request, the row, the
conversation message, the audit row; the catch block is `DatabaseThrows` and
`SaveFailed`. `rows` is indexed by the table's unique index, and `IndexRefuses` is the
insert that index rejects. `Sequences` lets each process create a manual-send
sequence of its own, because the code looks for one and inserts in two accesses.
X is external: it delivers, or not, whatever answer the client gets. A 429, 401, 403
or 404 answer and a 5xx one are the same action, since the code records both as a
definitive failure; whether X delivered is a choice in both. So it is for a 2xx answer:
`sendDM` takes any for a success, also one whose body names no event, and
`RequestSucceeds` says nothing of a delivery. `through` is observed: the call's message got
through, and no answer was a definitive error. The decisions on the drafts are atomic
here; a composition with `OutreachDrafts` is planned.

### JobScheduler
`Invoke`/`Guard`/`Start` is a fresh run, `InvokeResume`/`ReadAttempts`/`MarkResumed` a
resumed one; then the audit row (outside the try block), the handler, `Complete`, the
audit row (inside it). `Throws` leads to the catch block from every access inside the
try block, `Crash` stands for a death and for a throw outside it. `begun`, `returned`
and `abandoned` are observed.

### AutomationWorkflow
A run of the workflow is `Schedule` or `Dispatch`, `Restore`, `NextJob` and `JobEnds` for each
name of its list, then `Succeed`; `UnsupportedJob` and `Fail` end it too. The concurrency
group lets one run go on at a time. Of a database the module keeps the job types with a
run left 'running': `saved` is what the last successful run uploaded, which is what the
next one restores, or else it starts from nothing; `uploaded` is the newest artifact of all,
which no code looks at and a faulty variant of `Restore` does. A failed run may upload what it
has, what it started from (the rest being in the `-wal` file), or nothing. `NextJob` is the
scheduler's guard seen from outside; the direct jobs call their services and have none.
`interrupted` is observed.

### TechnologyScans and EvidenceAssembly
A row of `scans` is a `technology_scans` row with its detections: `found` is what the
detector answered (and `raw_response` keeps), `stored` the detection rows written so
far. `PickEarlier`, `ReadDetections`, `WriteChange` are `detectChanges`. The scans are in
the order of `scanned_at`, which is that of their insertion because scans of one domain
do not overlap. Which technologies are NOT_DETECTED, confidences and evidence texts are
left out, and so is the order among the detections (and among the added, and among the
removed technologies); `finished` is observed.

`batch` is the call in progress with its in-memory checkpoint, `task[w]` its workers;
`scoreBatch` has one worker at a time. Items are taken in any order, since a caller may
list them in any. Nothing else runs before a call's first item, so `get()` and
`markResumed` are one step, and the latter's attempt count is `JobScheduler`'s subject. A
worker whose checkpoint write throws rejects the call while the others run on; the model
starts the next call after they are through (or the process died). Here a score is a row
that is there or not; its value is `LeadScoring`'s subject.

### Discovery
`call` is `run()` with its in-memory checkpoint; `Save` is `updateCheckpoint`. Phase 1 is
`SearchOneQuery` (which uses a query up whether X answers or throws), phase 2 is
`GetProfile` or `ProfileFails`, `UpsertProspect` and one `WriteOne` per row; `Turn` is the
order in which the kinds of rows are written. `prospects` is indexed by handle, since
`x_username` is unique; `ChangeHandle` is X. A text is the set of things the classifiers
find in it. A match is a query and the account that had written the post when the search
was made, as its text is what the code keeps (`InPosts`); the bio is of whoever has the
handle when the profile is read (`InProfile`). The two may differ. One search is one
step, although it fetches its posts in pages: a handle that changes hands between two
pages of one search is left out. `owners`, `scrapes` and the accounts in matches and
`evidence` entries are observed. A scrape is a call of the adapter, as in the code's
own counter: a search takes a request per page, and the client retries.

### LeadScoring and WebsiteEvidence
A fact is its signal category, so a score is a function of a set. `Total` adds what
`scorer.ts` adds, in whole points; every factor of the code is one, and all of its
products are integers. Readers, normalization and scorer are operators of the names
the code uses.

`collectForProspect` is `MineProfile` and one `FetchPage` per page, charged before it is
fetched. A page is a record of what it says; `FactsOn` and `TriggersOn` are the classifiers,
as a relation between that and the facts stored. A page's rows are written in one step:
no other writer runs, each row is inserted only if it is missing, and a crash between two
of them is the crash before or after it with fewer facts. What discovery had stored is
the initial state, by way of its classifiers (`Finds`), and `Rescan` is a newer technology
scan. `Score(p)` is `assembleAndScore` for the facts on record. `fetches` and `tried` are
observed.

### FollowUp
A handler's loop is `Start`, `NextCandidate`, `JobEnds`; a detection is `Detect`, `FetchPage`,
`FindConversation`, `CreateConversation`, `StoreMessage` (one row each), `FoldReplies`,
`UpdateConversation`, `Finish`; then `Eligible`, the second look-up `ResolveStep`,
`GenerateDraft`, `InsertDraft`, `SubmitForApproval`. `FetchPage` shows any part of what was
written, down to nothing. Messages are numbered in the order in which they were written
and a time's parity says whose message it is. The sender is `Sent`, with or without its
conversation record, and `TurnedBack`, which sets a 'sent' row to 'failed' as the catch
block does when a later access of the call throws, or an overlapping call fails;
`OutreachSend` has the whole of it. No code writes a 'queued' row. Operators draft first
messages (`DraftOriginal`) and decide drafts. Neither the kill switch nor the clock is a
variable: at every look the switch may be on or off, and a step's `day_offset` may have
passed or not. `RecordSend` does not come between a detection's look-up of the conversation
and its insert, and a detection does not look between the row and its record: each would
give the prospect a second conversation. `answered` and `everSent` are observed.

### SystemConfig
One key for each way a row is read: `daily_limit` stands for the four limits, `max_items`
for the bounds that are not seeded, and so on. A write is `Select` and `Write`, and a
seed is `ReadKey` before them. An insert that comes second violates the primary key and
throws. The value of a row is the text in it, and each reader says what it makes of any
text. Two readers of lists apply `JSON.parse`, which throws on anything else; so
`FounderQueries` is a value for lists only, and `SettingsTypeOK` says that no row of such
a key ever holds anything else: the seed and the setter write JSON. `present` is observed.

### ContentDrafts and ContentPublish
The row is as the table has it. The log is kept as what its folds answer, one event
at a time; the model admits one editor at a time, whose events are numbered in row
order, so this is exactly the fold. (What overlapping editors do to the numbers is
`OutreachDrafts`' subject, the services share the pattern.) `publishDraft` is one step
per numbered check; the checks that read no modelled state (revalidation, kill switch,
mode, dry run, due date) answer either way. `revalidate` of the draft service writes
the row of an open draft, and so its `updated_at`; the verdict it stores is left out. `rows[d].recent` is "`updated_at` in the
last 24 hours", which *every* write to the row renews, while `postedNow` is what X saw.
`Overlap = FALSE` lets a call begin only when no other is under way (crashes included:
a died call leaves its half-written state behind); `TRUE` lifts that.

### The abstract specifications
Each is what a caller may rely on, and a module that makes many accesses is shown to implement
it (`INSTANCE ... WITH`, and the abstract `Spec` as a property): every step of the code is one
abstract step or a stutter.

`DraftRegistry`: creating, submitting and deciding a draft are one step each, and a prospect has
one open draft. `OutreachDrafts` implements it as `ImplementsRegistry`.

`ApprovedPosts`: `Post` is one step that finds the draft's last approval standing and given for
the very text it has, the draft not recorded as posted, and room below the limit; its answer is
recorded (`Record`) or gets lost (`Forget`: a death, a failing update, an answer that was not
understood). In the code these conditions are read in half a dozen accesses, of the row and of
the log, before the request. `ContentPublish` implements it as `PublishesAtomically`. The draft
that a late `List` adds to those that count is never one recorded as posted, which is why a crash
between the approved event and its column does not break the limit.

`ResumableRuns`: `Begin` takes up exactly what is saved of a run, whether that is nothing or the
rest of an earlier call; `Take` never begins an item that has an entry or is at work; `Charge`
and `Finish` spend only while the budget lasts; `Save` puts the entries and what was spent on
record together; `End` is a completion or a death, and forgets the rest. `Discovery` (items: its queries
and its profiles), `WebsiteEvidence` (items: prospects) and `EvidenceAssembly` (items: domains or prospects,
no budget, several workers) implement it, each as `ResumesItsRuns`. What they do to an item
differs, and is the subject of each module's own properties.

## 3. Runs

"Serial" runs have one caller: calls do not overlap, yet each may die between any two
accesses. "Overlap" runs check what is left of the promises when calls interleave.

| Run | Bounds | What it shows |
|---|---|---|
| `drafts_serial` | 1 actor, 3 drafts, 2 prospects, 6 rows; 36 thousand states | an approval follows a submission, a decision stands, and the store implements `DraftRegistry`, with its promise of one open draft per prospect |
| `send_overlap` | 2 senders, an original and a follow-up draft of one prospect, limit 1, no client retry; 3.1 million states | overshoot of the limit by at most one per other call, what the kill switch still lets through, only approved drafts arrive, a row that blocks a resend gives way only to a call that failed |
| `send_serial` | 1 sender, 3 drafts of 2 prospects, limit 1, 1 retry; 651 thousand states | the duplicate protection over lost answers, database errors, crashes and repeated calls; a row that blocks a resend blocks for ever |
| `send_twice` | 1 sender, two original drafts of one prospect | **violated**: a prospect gets two manual messages, after a 5xx answer to a message that arrived, or a death between request and record |
| `scheduler` | 2 invokers, 2 job types, 3 runs, 2 attempts; 2.4 million states | fresh runs in progress are bounded, no run is forgotten, a completed run's handler returned, attempts were made |
| `workflow` | 3 jobs of the scheduler, 1 direct job, a daily list of 3, 3 other lists of which one has a mistyped name, 3 failures, fairness; 1400 states | a job of the daily list that was cut short runs again once runs stop failing |
| `enrichment` | 2 workers, 2 domains, 1 technology, 3 scans, 3 prospects (two of one company, one without a domain), 1 run; 1.3 million states | an entry of the checkpoint stands for finished work, none is lost by a resume or another worker's write, change events between whole scans are true and complete, and both batches implement `ResumableRuns` |
| `content` | 2 drafts, 2 texts, 1 publisher, limit 1; 104 thousand states | the text about to be posted is the one last approved, nothing recorded is posted again, the recorded posts stay within the limit, the column is never ahead of the log, and drafts and publisher implement `ApprovedPosts` |
| `discovery` | 2 accounts, 2 handles, 2 queries, 1 run resumed any number of times, budgets 1 and 3, 1 profile, 1 abort, 3 pairs of a handle and an account; 2.3 million states | one budget of searches and profile reads for a run and all its resumptions; on the checkpoint means stored; no evidence under another's name but through the handle |
| `website` | 2 prospects, 3 pages of which 2 may be fetched, 1 run, budgets 2 and 3, 1 abort; 1.3 million states | the page budget over resumptions, no page left out but by the budget, no fact costs points, the collected facts alone reach tier C at most, and the job implements `ResumableRuns` |
| `followup` | 1 process, 1 prospect, 2 conversations, a reply and an opt-out, 3 steps, 2 drafts, 1 abort; 2.4 million states | who answered is not followed up, an opt-out stays, a follow-up continues the sequence though rows turn back from 'sent' |
| `config` | 1 process that starts again and again, 2 environments with the kill switch on, 1 operator with 8 edits; 1.4 million states | what was stored survives every start; no start arms the program |

What holds of the drafts when calls interleave is shown by the theorems
`ReviewIsNeverSkipped` and `SequencesNeverRunAhead`, which are for any number of
overlapping callers. With one caller, the second would say no more than that a number is the
count just read, so that no run checks it.

**Observed while modelling**, beyond the run that is violated. Most can be seen by
changing a bound or a property as described:

- An `approve()` and a `reject()` that overlap are both recorded and the later one wins,
  although both decisions are documented as terminal: `DecisionsStand` fails in
  `OutreachDrafts` with two actors.
- With `Overlap = TRUE`, `ApprovalCoversThePost` fails: `publishDraft` posts the text it read
  first, while the integrity check reads the draft again; and `PublishesAtomically` fails with it.
- A post whose answer was lost (`PostUnknown`), or that was not recorded before the process
  died, leaves its draft due, and the next run of the job posts it again.
- A scan that died between its row and its detections counts as a whole one, so the next
  scan reports a technology as added that was there all along; the property is stated
  for whole scans.
- One `send()` may post its message up to `MaxRetries + 1` times, because `request()`
  retries after a lost answer, while the header of `send-service.ts` promises "exactly one
  attempt". The properties of the send runs hold with that loop in place.
- A 'sent' row does not stand for a delivery: `sendDM` (`dm.js:247-254`) answers a 2xx body
  without an event with an empty message id and the present time, and the row becomes
  'sent', whereas `xactions-send.adapter.ts:74-76` says that an unrecognized response shape is
  never silently treated as a successful send.
- In a database that is kept, a run left 'running' by a dead process refuses its job type
  until somebody passes its id as `resumeJobId`, which no code does: `scheduler.ts:131` is the
  only caller of `findResumable`, and uses it as a guard, while `job-runner.ts:32-35` says that
  the next process to call it picks up where the last one left. Under the workflow this
  does not last, because the database of a failed run is not restored: that is what the run
  `workflow` shows. The job then starts anew, not from its checkpoint.
- The price of that: one rejected direct job or one mistyped name fails the run, and what its
  other jobs did is not in the database that the next run restores. And a failed download, or
  an artifact past its 30 days, lets a run start from a fresh database, which is then the base
  of all later runs.
- A row that was 'sent' can turn back to 'failed' (`send-service.ts:256-267`): the retry of a
  failed row succeeds and its conversation record throws, or an overlapping call fails. The
  follow-up jobs then draft its step again, which `send()` refuses if the failure is
  ambiguous, while a draft of the step after it that was approved before is sent all the same:
  the recheck before the send looks for the next step of the sequence, not at the draft's own.
- `generateFollowUpDraft` answers whatever open draft the prospect has, and the prepare job
  submits it for approval if it is DRAFTED, a first message included: the handler tests the
  draft's status and not `created`, while its header (`prepare-followup-drafts-handler.ts:12-13`)
  speaks of a freshly created draft only.
- `nextStepAlreadySent` is never true: the next step comes after the highest one with a 'sent'
  row, and no code writes a 'queued' one.
- The budget of discovery, named `daily_limit_scrapes`, counts calls of the adapter of one run.
  `searchTweets` fetches pages of 20 until it has what was asked for (25 by default) and the
  client retries each request, so the requests to X are several times as many.
- Nothing outside the tests constructs `SendApprovedDraftService`.
- Two overlapping detections of one prospect can both create a conversation, and the
  second write-back of a classification can undo an OPT_OUT recorded in between;
  `OptOutIsFinal` is checked with one process. For the same reason the model leaves out a
  detection between a send's row and its conversation record.
- A prospect on which the page budget ends is entered as completed and its other pages
  are never fetched.
- The collected facts cannot lift a lead above tier C: no writer stores the facts the
  rest of the points need, and C itself takes a qualifying job posting and an announcement.
- Kill switch and autonomous publishing read anything but `true` as off, so a lost or
  garbled `kill_switch` row means "not active". With an environment whose kill switch is off,
  a start that dies half-way can leave a mode of one environment beside a limit of
  another, which is why `StartingNeverArms` assumes it on.
- `findActiveSequenceCandidates` takes the first `maxItems` prospects in the order of their
  ids at every run: prospects beyond them are never looked at as long as these stay.

Why the bounds are enough: two actors give every pairwise interleaving, and no step of
the code looks at more than one other call's effects at a time; two drafts of one
prospect (or idea) and two texts are what the properties tell apart; 6 rows hold a
full life of one draft and part of another's; a limit of 1 is reached, then
passed, by two drafts; 2 attempts are one resume. `MaxRetries` is 1 where the retry loop
matters and 0 in the overlap run, which has the interleavings instead; the code's
default is 3, and the theorem about the kill switch is for every value. In `enrichment` three scans are
a pair to compare and one more in between or of the other domain, two workers share a
checkpoint, and one run is resumed any number of times; one technology suffices because
the set operations treat each by itself. In `discovery` two accounts and two handles let a
handle change hands and an account return under another name between any two steps;
budget 1 ends inside phase 1 and 3 inside phase 2. In `website` the two prospects differ
in what they say of themselves and in whether a quotation can be theirs; the three
pages hold every fact the classifiers know, and a page too many. In `followup` two messages
are an opt-out and a later harmless reply, three steps have a step in the middle, and
one prospect suffices because a handler takes them one after the other and shares
nothing between them; a second conversation is there to be created
by mistake. In `config` the environments differ in mode and
limit, and the edits are in range, out of range and not a number. `MaxAborts` is the
number of calls that die (in `followup`, also of sends whose conversation record is lost): one
death can come at every access and be followed by any number of resumptions, and the two
budget properties state how they depend on it. `MaxHoldings` lets each of two handles have an
account and one of them a second one. `MaxFailures` bounds the workflow's runs that fail by
themselves, not those that fail by a mistyped name: three can cut every job of the daily list
short. The bounds `MaxRows`, `MaxScans`, `MaxCopies`
and `MaxAttempts` cap counters: `MaxCopies` stops an observed counter, the others stop a
call from going on.

Deadlock is checked in every run. Permutation symmetry is used only where the
properties say nothing of a particular name, and in no run of a liveness property.

**Fairness.** Only `workflow` needs it. A step of a run that can be taken is taken, or the run
fails (`timeout-minutes` ends it at the latest): weak fairness of `Proceed`. The cron starts a
run every day, but only while no other run of the concurrency group goes on, and those come
and go: strong fairness of `Schedule`. GitHub's queue is what justifies the latter: a run
that waits is started when the group is free. Failures and dispatched runs are possible and
never fair, and the failures that are nobody's typing error are finitely many.

What the properties do not say: `OptOutIsFinal` is about `evaluateOutreachEligibility`, which
`send()` does not ask (for a follow-up, its recheck asks for the replies); and
`StartingNeverArms` is about limited sends, since jobs that create drafts ask for no limit.

## 4. What is proved

The theorems hold for every number of callers, drafts, prospects, runs, workers, limits
and retries, under the named assumptions of the modules: constants are sets of the right
kind and the "No..." values lie outside them; sets that are counted (`Senders`, `Invokers`,
`Jobs`, the `Drafts` of `ContentPublish`) are finite; a job reads some budget (`Budgets` is not
empty) and a sequence has a first step (`LastStep >= 1`). A theorem that
needs more says so as its hypothesis, and the last column names it.

| Module | Theorem | States | For |
|---|---|---|---|
| `OutreachDrafts_proofs` | `TypeCorrect` | `[]TypeOK` | overlapping calls |
| | `ReviewIsNeverSkipped` | `[]ApprovalNeverSkipsReview` | overlapping calls |
| | `SequencesNeverRunAhead` | `[]SequenceNeverAhead`, which no run checks | overlapping calls |
| | `DecisionsAreFinal` | `DecisionsStand` | one caller at a time |
| | `TheStoreIsTheRegistry` | `ImplementsRegistry` | one caller at a time |
| `OutreachSend_proofs` | `TypeCorrect` | `[]TypeOK` | overlapping calls |
| | `OnlyApproved` | `[]OnlyApprovedDraftsArrive` | overlapping calls |
| | `KillSwitchBound` | `[]KillSwitchBoundsRequests` | overlapping calls |
| | `LimitOvershoot` | `[]DailyLimitOvershootBounded` | overlapping calls |
| | `BlockedRowsGiveWayToFailures` | `BlocksGiveWayToFailuresOnly` | overlapping calls |
| | `NoPostOverABlockedRecord` | `[]NeverPostsOverABlockedRecord` | one sender at a time |
| | `BlockedRowsStay` | `BlocksForever` | one sender at a time |
| | `DeliveriesLeaveABlock` | `DeliveryLeavesABlock` | one sender at a time |
| `Core_proofs` | `TypeCorrect` | `[]TypeOK` | overlapping calls |
| | `RunsAreClosed` | `[]NoRunIsForgotten` | overlapping calls |
| | `CompletionsAreEarned` | `[]CompletedRunsReturned` | overlapping calls |
| | `AttemptsAreReal` | `[]AttemptsWereMade` | overlapping calls |
| | `FreshRunsStayBounded` | `[]FreshRunsBounded` | overlapping calls |
| | `SettingsAreTyped` | `[]SettingsTypeOK` | any number of writers |
| | `RestartsKeepSettings` | `RestartKeepsSettings` | any number of writers |
| | `StartsNeverArm` | `[]StartingNeverArms` | any number of writers |
| `ContentPublish_proofs` | `TypeCorrect` | `[]Typed` | overlapping calls |
| | `TheColumnLagsBehindTheLog` | `[]ColumnNeverAheadOfLog` | overlapping calls |
| | `TheApprovalCoversThePost` | `[]ApprovalCoversThePost` | `~Overlap` |
| | `NoDraftIsPostedTwice` | `[]NeverPostsOnceRecorded` | `~Overlap` |
| | `TheDailyLimitHolds` | `[]RecordedPostsWithinLimit` | `~Overlap` |
| | `PublishingIsAtomic` | `PublishesAtomically` | `~Overlap` |
| `EvidenceAssembly_proofs` | `TypeCorrect` | `[]TypeOK` | any number of workers |
| | `ChangeEventsAreTrue` | `[]ChangesBetweenWholeScansAreTrue` | any number of workers |
| | `FinishedScansAreRecorded` | `[]FinishedScansRecordEveryChange` | any number of workers |
| | `CheckpointsAreTrue` | `[]CheckpointNamesFinishedWork` | any number of workers |
| | `CheckpointsAreKept` | `CheckpointNeverShrinks` | any number of workers |
| | `BatchesResume` | `ResumesItsRuns` | any number of workers |
| `Discovery_proofs` | `TypeCorrect` | `[]DiscoveryTypeOK` | the one call there is |
| | `RunsKeepTheirBudget` | `[]OneBudgetPerRun` | the one call there is |
| | `ProcessedIsStored` | `[]ProcessedMeansStored` | the one call there is |
| | `EvidenceIsAboutTheHandle` | `[]EvidenceFollowsTheHandle` | the one call there is |
| | `DiscoveryResumes` | `ResumesItsRuns` | the one call there is |
| `WebsiteEvidence_proofs` | `TypeCorrect` | `[]WebsiteTypeOK` | the one call there is |
| | `PagesStayWithinTheBudget` | `[]PagesWithinBudget` | the one call there is |
| | `DoneProspectsWereGoneThrough` | `[]DoneMeansEveryPageTried` | the one call there is |
| | `FactsOnlyRaiseAScore` | `FactsNeverLowerAScore` | the one call there is |
| | `NoWriterReachesTierB` | `[]PipelineStopsAtTierC` | the one call there is |
| | `WebsiteBatchResumes` | `ResumesItsRuns` | the one call there is |
| `FollowUp_proofs` | `TypeCorrect` | `[]FollowUpTypeOK` | any number of jobs |
| | `StepsAreNeverSkipped` | `[]FollowUpsContinueTheSequence` | any number of jobs |
| | `RepliesAreFinal` | `[]RepliesEndFollowUps` | one job at a time |
| | `OptOutsAreFinal` | `[]OptOutIsFinal` | one job at a time |

Crashes, failing accesses and resumptions are in all of them. `~Overlap` and one caller,
sender or job at a time are what the runs have too; with overlapping calls TLC finds each of
those eleven properties violated.

Each invariant but the types needs a strengthening that speaks of the calls in progress:

- *Review.* A status folds to PENDING_APPROVAL only if a 'submitted' row exists, and a
  call about to write an approval has seen one. Rows are never removed, so what a call
  saw when it began is still true when it writes, however stale it is otherwise.
- *Sequence numbers.* A call about to write carries a count that is at most the present
  one: counts only grow.
- *The registry.* With one caller the log is in order (`LogInOrder`: a draft's later row has the
  larger number, and every number is below the draft's row count) and a draft is created once
  (`EachCreatedOnce`); what the call in progress read, it would read again (`IsCurrent`). So the
  event it writes is the one the fold goes by (`FoldGoesByTheLast`): the write is the
  registry's `Create` or `Move`, and every other step is a stutter (`RegistryStep`).
- *Kill switch.* The requests a sender made since the activation, plus those the call it
  is in may still make (`AttemptsLeft`), never exceed `MaxRetries + 1`: a sender before the
  last check may make none, because that check refuses while the switch is on.
- *Limit.* The messages counted plus the calls that are past the check and not yet
  recorded (`CountedAndComing`) stay below limit plus number of senders: a call joins
  the second term only when it saw room, and moves from the second to the first.
- *Rows that give way.* Only `SaveFailed` writes a row that does not block, and it does so only
  if the call's verdict is not "ambiguous"; a call whose message got through, with no
  definitive answer, has that verdict (`OutcomeKnown`), however many calls share the row.
- *The record.* With one sender the row that was looked up is as it was read until the call
  writes it, and a call that fails after its 'sent' row stands there carries the verdict
  "delivery unknown" (`RecordIsCurrent`).
- *Scheduler.* A row in progress has a call at a place from which every path closes it;
  a call about to complete has its run among the returned ones; a call about to write an
  attempt count has read one that was true before it took charge; and the fresh rows
  plus the calls between guard and insert never exceed the invokers, because the guard
  passes only while no row of the type is in progress.
- *Publishing.* While calls do not overlap, what a publisher read of its draft is still so
  (`StillSo`); a draft with a post id was approved, and was touched no earlier than it was
  posted (`PublishedDrafts`); a draft that is being approved for the first time has no post id,
  so its column adds nothing to what counts (`FirstApproval`); hence the recorded posts of a
  day are rows that the limit counts.
- *Scans.* The row of a scan in progress is the last OK one of its domain, because two
  workers never have one domain (`ItemsAreTakenOnce`); and what the call has still to do
  (`todo`) is exactly what its row lacks of the detections, then what the log lacks of the
  changes (`Progress`). So an event is written once both rows are final (`TellsApart`),
  and a finished scan is recorded in full when it returns and ever after.
- *Checkpoints.* Every step of the batches has one of four shapes (`Takes`, `Works`, `Begins`,
  `Ends`), and only a scan's own step writes the scans' tables (`Shapes`). Each entry with a
  result, on record or still in memory, stands for finished work, which stays finished;
  and the checkpoint in memory contains the one on record, so that writing it loses nothing.
- *Budgets of discovery and of the website job.* The scrapes made are those the checkpoint
  counts, plus those the call in progress has made since it was saved, plus those that died
  with a call (`ScrapesAccountedFor`, `FetchesAccountedFor`); what a call has used stays
  within a budget that was read.
- *Discovery's rows.* The rows a candidate still has to get are in the call (`WorkIsKept`), so a
  candidate that comes onto the checkpoint has them all. A match names an account that held the
  handle it is kept under when the search was made, on every checkpoint, and handles are
  never taken out of `owners`; so what a candidate is about to store is about an account
  that held its handle, and its row is kept under that handle or belongs to another that
  held it (`NamesAreRight`).
- *Atomic publishing.* Each publishing step maps to one of `ApprovedPosts` or to none. At the
  request, what `StillSo` keeps of the draft makes the four conditions of `Post` true at once; that
  the posts which count stay below the limit is `PublishedDrafts` again. On the editor's side, a
  text about to be written is a text, and the one an approval is about to be recorded for is
  still the draft's (`EditBodies`); without it an approval of an older text would be a step
  that `ApprovedPosts` does not have.
- *Resumptions.* An item at work, and each that a call has still to take, is without an entry
  (`ObservesAnew`, `VisitsAnew`, `TakesAnew`); with several workers, items at work are different ones
  (`ItemsAreTakenOnce`). Then taking an item is `Take`, whatever ends it is `Finish`, and both
  hold after a resumption because the pending items are computed from the very checkpoint
  that is taken up.
- *Settings.* A seeding goes through `SeedOrder`: what lies before its key is set, and what it is
  about to write is its environment's value for that key (`Seeding`). So while no operator has
  touched the switch or the limit, a limit that is set finds the kill switch set before it, to
  `true` (`SeededRows`). A write by a seeding is of a key that had no row when its process
  started, whatever other processes do meanwhile (`ConfigInv`).
- *Scores.* Readers, category counts and capped parts are each monotone in the facts
  (`CountsGrow`, `TriggerCountsGrow`, `TierPoints`, `OtherPoints`), so their sum is; and what the
  writers can store (`OnlyStorable`) lacks the facts that tier B takes (`Ceiling`).
- *Follow-ups.* Rows turn back, but what was sent at some time has been: those steps are closed
  downwards (`Reached`), 'sent' rows are among them, and a job that drafts a step read the row of
  the one before it (`StepsFollow`). With one job there is one conversation per prospect, since
  no other is there when a detection creates one (`OneConversation`); a recorded answer is in it whatever X shows, and every fold reads it
  again (`Memory`).

Every invariant, action property and refinement that a passing run checks is stated by a
theorem; the liveness property `InterruptedJobsRunAgain` and the one that is violated are
not. The other way round, some theorems have no run: `SequencesNeverRunAhead` needs overlapping
callers. `TypeOK` of `OutreachDrafts`, `OutreachSend`, `JobScheduler`,
`ContentPublish` and `EvidenceAssembly`, `DiscoveryTypeOK` and `WebsiteTypeOK` are the type
invariants from which the proofs start; the runs keep to the hazards. `ResumesItsRuns` of
`Discovery` is proved only: checking it would more than double the largest run, and TLC agreed on
a smaller instance (one account, budgets 1 and 4, two profiles). The runs of the other two
modules check it for them.

Liveness under fairness and ENABLED are out of the proof system's reach and stay
with TLC; so would what a RECURSIVE operator or an induction over data computes (no module
has a RECURSIVE operator).

## 5. What is not modelled, and why

Text: message rendering, hashes (a hash is the text), length and phrase checks, the
patterns of the classifiers, and the scan for secrets in audit payloads. Network input and
parsing: an adapter is the outcomes it can have. The read-only parts: dashboard,
analytics. `detectRepliesBatch`, which only tests call: the jobs call `detectReplies`. The state
machine of prospects in `outreach/src/state-machine`, which nothing drives: no code
writes `outreach_status` or stops a conversation, so `Stop` in `FollowUp` is an operator at
the database. Within the modelled services every early return that changes
nothing is the end of the call; which reason it reports is left out.

Hazards without a property yet, with the reason, are in `PROJECT.json`.

## 6. What could come next

- A composition of `OutreachSend` with `OutreachDrafts`, in place of decisions that are atomic, so
  that overlapping approvals meet the sender.
- A second conversation of one prospect in `FollowUp`, created by overlapping detections, once
  the code defines which one counts.
- An abstract specification of sending (a message per prospect and step, delivered at most
  once per record), to be implemented by `OutreachSend` with one sender.
