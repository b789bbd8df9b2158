-------------------------- MODULE EvidenceAssembly --------------------------
(***************************************************************************)
(* The two checkpointed batches of packages/prospecting that share the     *)
(* technology scans: TechnologyEnrichmentService.scanBatch over domains,   *)
(* with several workers, and EvidenceAssemblyService.scoreBatch over       *)
(* prospects, one after the other, scanning a domain that has no OK scan.  *)
(*                                                                         *)
(* One process runs at a time; it may die between any two accesses, and a  *)
(* later call may resume any run by its id.  Within scanBatch the workers  *)
(* share the checkpoint in memory, and one whose checkpoint write throws   *)
(* rejects the call while the others run on.  An item of scanBatch is a    *)
(* domain of its list, each named once.                                    *)
(***************************************************************************)
EXTENDS TechnologyScans

CONSTANTS
  Prospects,
  DomainOf,  \* DomainOf[p]: the prospect's company_domain, or NoDomain
  Runs,      \* job_runs ids
  NoRun, NoItem

ASSUME DomainOfAssumption == DomainOf \in [Prospects -> Domains \cup {NoDomain}]
ASSUME NoRunAssumption == NoRun \notin Runs
ASSUME NoItemAssumption == NoItem \notin Domains \cup Prospects

VARIABLES
  jobRuns,  \* job_runs
  scored,   \* icp_scores: <<j, p>> once prospect p has a score written by run j
  batch,    \* the batch call in progress
  task      \* task[w]: what worker w of that call is doing

vars == <<scanVars, jobRuns, scored, batch, task>>

Kinds == {"scan", "score"}
Items == Domains \cup Prospects
ItemsOf(kind) == IF kind = "scan" THEN Domains ELSE Prospects

\* completed in the checkpoint, as the entries with a result and the entries with an error.
RunState == [status: {"none", "running", "completed"}, kind: Kinds,
             done: SUBSET Items, errors: SUBSET Items]

NoRow == [status |-> "none", kind |-> "scan", done |-> {}, errors |-> {}]

BatchState == [running: BOOLEAN, kind: Kinds, run: Runs \cup {NoRun},
               done: SUBSET Items, errors: SUBSET Items,  \* the checkpoint in memory
               queue: SUBSET Items,                       \* pending items not yet taken
               rejected: BOOLEAN]                         \* a checkpoint write threw

NoBatch == [running |-> FALSE, kind |-> "scan", run |-> NoRun, done |-> {}, errors |-> {},
            queue |-> {}, rejected |-> FALSE]

TaskState == [pc: {"idle", "check", "scan", "score", "checkpoint", "dead"}, item: Items \cup {NoItem}]

NoTask == [pc |-> "idle", item |-> NoItem]

Init ==
  /\ ScansInit
  /\ jobRuns = [j \in Runs |-> NoRow]
  /\ scored = {}
  /\ batch = NoBatch
  /\ task = [w \in Workers |-> NoTask]

EndCall ==
  /\ batch' = NoBatch
  /\ task' = [w \in Workers |-> NoTask]
  /\ scan' = [w \in Workers |-> NoScan]
-----------------------------------------------------------------------------
StartBatch(j, kind, items) ==
  /\ ~batch.running
  /\ jobRuns[j].status = "none"
  /\ jobRuns' = [jobRuns EXCEPT ![j] = [NoRow EXCEPT !.status = "running", !.kind = kind]]
  /\ batch' = [NoBatch EXCEPT !.running = TRUE, !.kind = kind, !.run = j, !.queue = items]
  /\ UNCHANGED <<scanVars, scored, task>>

Resume(j, checkpoint, pending) ==
  /\ ~batch.running
  /\ jobRuns[j].status # "none"
  /\ jobRuns' = [jobRuns EXCEPT ![j].status = "running"]
  /\ batch' = [running |-> TRUE, kind |-> jobRuns[j].kind, run |-> j,
               done |-> checkpoint.done, errors |-> checkpoint.errors,
               queue |-> pending, rejected |-> FALSE]
  /\ UNCHANGED <<scanVars, scored, task>>

\* Faulty variant: a resumed run begins with an empty checkpoint.
ResumeFromNothing(j, items) == Resume(j, NoRow, items)

\* Faulty variant: a resumed run takes every item again.
ResumeWithEveryItem(j, items) == Resume(j, jobRuns[j], items)

\* get() and markResumed(); only the items that are not in the checkpoint are pending.
ResumeBatch(j, items) ==
  Resume(j, jobRuns[j], items \ (jobRuns[j].done \cup jobRuns[j].errors))

\* The next pending item: by any worker of scanBatch, after the last one is through in scoreBatch.
TakeItem(w, i) ==
  /\ batch.running
  /\ task[w].pc = "idle"
  /\ i \in batch.queue
  /\ batch.kind = "score" => ~batch.rejected /\ \A v \in Workers : task[v].pc = "idle"
  /\ batch' = [batch EXCEPT !.queue = @ \ {i}]
  /\ task' = [task EXCEPT ![w] = [pc |-> IF batch.kind = "scan" THEN "scan" ELSE "check",
                                  item |-> i]]
  /\ scan' = IF batch.kind = "scan" THEN [scan EXCEPT ![w] = CallOn(i)] ELSE scan
  /\ UNCHANGED <<scans, changes, jobRuns, scored>>

\* assembleAndScore: a domain with an OK scan is scanned again only if forceRescan asks for it.
CheckScanned(w) ==
  LET d == DomainOf[task[w].item] IN
  /\ task[w].pc = "check"
  /\ \E forceRescan \in BOOLEAN :
       IF d # NoDomain /\ (~HasSuccessfulScan(d) \/ forceRescan)
         THEN /\ task' = [task EXCEPT ![w].pc = "scan"]
              /\ scan' = [scan EXCEPT ![w] = CallOn(d)]
         ELSE /\ task' = [task EXCEPT ![w].pc = "score"]
              /\ UNCHANGED scan
  /\ UNCHANGED <<scans, changes, jobRuns, scored, batch>>

Scanning(w) ==
  /\ task[w].pc = "scan"
  /\ ScanStep(w)
  /\ UNCHANGED <<jobRuns, scored, batch, task>>

ScanReturned(w) ==
  /\ scan[w].pc = "returned"
  /\ scan' = [scan EXCEPT ![w] = NoScan]
  /\ IF batch.kind = "scan"
       THEN /\ task' = [task EXCEPT ![w].pc = "checkpoint"]
            /\ batch' = [batch EXCEPT !.done = @ \cup {task[w].item}]
       ELSE /\ task' = [task EXCEPT ![w].pc = "score"]
            /\ UNCHANGED batch
  /\ UNCHANGED <<scans, changes, jobRuns, scored>>

\* Reads the facts, computes the score and inserts the icp_scores row.
InsertScore(w) ==
  /\ task[w].pc = "score"
  /\ scored' = scored \cup {<<batch.run, task[w].item>>}
  /\ task' = [task EXCEPT ![w].pc = "checkpoint"]
  /\ batch' = [batch EXCEPT !.done = @ \cup {task[w].item}]
  /\ UNCHANGED <<scanVars, jobRuns>>

\* Faulty variant: the failed item gets an entry without the error.
ItemThrowsUnnoticed(w) ==
  /\ task[w].pc \in {"check", "score"} \/ ScanAccesses(w)
  /\ scan' = [scan EXCEPT ![w] = NoScan]
  /\ task' = [task EXCEPT ![w].pc = "checkpoint"]
  /\ batch' = [batch EXCEPT !.done = @ \cup {task[w].item}]
  /\ UNCHANGED <<scans, changes, jobRuns, scored>>

\* A database access for this item throws; the entry says so and the batch goes on.
ItemThrows(w) ==
  /\ task[w].pc \in {"check", "score"} \/ ScanAccesses(w)
  /\ scan' = [scan EXCEPT ![w] = NoScan]
  /\ task' = [task EXCEPT ![w].pc = "checkpoint"]
  /\ batch' = [batch EXCEPT !.errors = @ \cup {task[w].item}]
  /\ UNCHANGED <<scans, changes, jobRuns, scored>>

\* updateCheckpoint: the whole checkpoint as it is in memory, other workers' entries included.
SaveCheckpoint(w) ==
  /\ task[w].pc = "checkpoint"
  /\ jobRuns' = [jobRuns EXCEPT ![batch.run].done = batch.done,
                                ![batch.run].errors = batch.errors]
  /\ task' = [task EXCEPT ![w] = NoTask]
  /\ UNCHANGED <<scanVars, scored, batch>>

CheckpointThrows(w) ==
  /\ task[w].pc = "checkpoint"
  /\ task' = [task EXCEPT ![w] = [NoTask EXCEPT !.pc = "dead"]]
  /\ batch' = [batch EXCEPT !.rejected = TRUE]
  /\ UNCHANGED <<scanVars, jobRuns, scored>>

Complete ==
  /\ batch.running /\ ~batch.rejected
  /\ batch.queue = {} /\ \A w \in Workers : task[w].pc = "idle"
  /\ jobRuns' = [jobRuns EXCEPT ![batch.run].status = "completed"]
  /\ EndCall
  /\ UNCHANGED <<scans, changes, scored>>

\* A rejected call is over when its last worker is: the run stays 'running'.
Rejected ==
  /\ batch.rejected
  /\ \A w \in Workers : task[w].pc \in {"idle", "dead"}
  /\ \/ batch.kind = "score"
     \/ batch.queue = {}
     \/ \A w \in Workers : task[w].pc = "dead"
  /\ EndCall
  /\ UNCHANGED <<scans, changes, jobRuns, scored>>

\* The process dies.
Crash ==
  /\ batch.running
  /\ EndCall
  /\ UNCHANGED <<scans, changes, jobRuns, scored>>

Step(w) ==
  \/ \E i \in Items : TakeItem(w, i)
  \/ CheckScanned(w) \/ Scanning(w) \/ ScanReturned(w) \/ InsertScore(w) \/ ItemThrows(w)
  \/ SaveCheckpoint(w) \/ CheckpointThrows(w)

Next ==
  \/ \E j \in Runs, kind \in Kinds : \E items \in SUBSET ItemsOf(kind) : StartBatch(j, kind, items)
  \/ \E j \in Runs : \E items \in SUBSET ItemsOf(jobRuns[j].kind) : ResumeBatch(j, items)
  \/ \E w \in Workers : Step(w)
  \/ Complete \/ Rejected \/ Crash

Spec == Init /\ [][Next]_vars
-----------------------------------------------------------------------------
TypeOK ==
  /\ ScansTypeOK
  /\ jobRuns \in [Runs -> RunState]
  /\ scored \subseteq Runs \X Prospects
  /\ batch \in BatchState
  /\ task \in [Workers -> TaskState]

\* Whatever dies or throws, and however the workers' writes of the shared checkpoint fall: an
\* entry with a result stands for a scan that ran to its end, or for a score of that run.
CheckpointNamesFinishedWork ==
  \A j \in Runs : \A i \in jobRuns[j].done :
    IF jobRuns[j].kind = "scan"
      THEN \E n \in DOMAIN scans : scans[n].domain = i /\ scans[n].finished
      ELSE <<j, i>> \in scored

\* No resume and no worker's write takes an entry out of a run's checkpoint again: "a crash
\* mid-batch loses nothing already scored" (evidence-assembly-service.ts).
CheckpointNeverShrinks ==
  [][\A j \in Runs : /\ jobRuns[j].done \subseteq jobRuns'[j].done
                     /\ jobRuns[j].errors \subseteq jobRuns'[j].errors]_vars

\* Either batch, whose items cost nothing; an item is at work until it has its entry.
Ideal == INSTANCE ResumableRuns WITH
  Budgets <- {0},
  saved <- [j \in Runs |-> jobRuns[j].done \cup jobRuns[j].errors],
  spent <- [j \in Runs |-> 0],
  run <- batch.run,
  budget <- 0,
  finished <- batch.done \cup batch.errors,
  doing <- {i \in Items : \E w \in Workers : task[w].item = i /\ task[w].pc \in {"check", "scan", "score"}},
  used <- 0

\* Whatever dies or throws and whenever a run is resumed, and with several workers at once: a run
\* goes on from its checkpoint, and begins no domain or prospect that has an entry or that another
\* worker is at.
ResumesItsRuns == Ideal!Spec
=============================================================================
