-------------------------- MODULE AutomationWorkflow --------------------------
(***************************************************************************)
(* The scheduled workflow (.github/workflows/metrivio-automation.yml) and  *)
(* the script it runs (scripts/run-automation.ts): the one process of the  *)
(* repository that invokes jobs, and the way its database is carried from  *)
(* one run to the next.                                                    *)
(*                                                                         *)
(* Every run, failed or not, uploads its database; a run starts from the   *)
(* database of the last run that succeeded.  Of the database, the model    *)
(* keeps what decides whether a job may start: the job types with a run    *)
(* that is left 'running', which AutomationScheduler's guard refuses.  The *)
(* jobs that the script calls directly have no such guard.                 *)
(***************************************************************************)
EXTENDS Naturals, Sequences

CONSTANTS
  SchedulerJobs,  \* CONTENT_JOBS and OUTREACH_JOBS: they go through runScheduledJob
  DirectJobs,     \* DIRECT_JOBS
  DefaultJobs,    \* METRIVIO_JOBS of a run that the cron starts
  Dispatches,     \* METRIVIO_JOBS of the runs that people start; names may be mistyped
  MaxFailures     \* bound: runs that fail in a way that not their job list decides

Jobs == SchedulerJobs \cup DirectJobs

ASSUME JobsAreDisjoint == SchedulerJobs \cap DirectJobs = {}
ASSUME DefaultJobsAssumption == DefaultJobs \in Seq(Jobs)
ASSUME MaxFailuresAssumption == MaxFailures \in Nat

VARIABLES
  run,          \* the run in progress: the concurrency group allows one
  saved,        \* what the database artifact of the last successful run holds
  uploaded,     \* what the last uploaded artifact holds, whatever became of its run
  interrupted,  \* observed: jobs whose last start was cut short
  failures      \* bound

vars == <<run, saved, uploaded, interrupted, failures>>

\* restored: what the run started from; running: job types with a run that is left 'running'.
NoRun == [pc |-> "idle", todo |-> <<>>, restored |-> {}, running |-> {}]

Init ==
  /\ run = NoRun
  /\ saved = {}
  /\ uploaded = {}
  /\ interrupted = {}
  /\ failures = 0

Start(jobs) ==
  /\ run.pc = "idle"
  /\ run' = [NoRun EXCEPT !.pc = "restore", !.todo = jobs]
  /\ UNCHANGED <<saved, uploaded, interrupted, failures>>

Schedule == Start(DefaultJobs)

Dispatch == \E jobs \in Dispatches : Start(jobs)

\* An artifact that is not there, or no longer, leaves the run with a fresh database.
RestoreFrom(artifact) ==
  /\ run.pc = "restore"
  /\ \E rows \in {artifact, {}} :
       run' = [run EXCEPT !.pc = "script", !.restored = rows, !.running = rows]
  /\ UNCHANGED <<saved, uploaded, interrupted, failures>>

\* Faulty variant: the newest artifact is taken, whatever became of the run that uploaded it.
RestoreNewest == RestoreFrom(uploaded)

\* gh run list --status success --limit 1, and the download.
Restore == RestoreFrom(saved)

\* A job of the scheduler that has a run left 'running' is BLOCKED, and the script goes on.
NextJob ==
  /\ run.pc = "script" /\ run.todo # <<>>
  /\ LET job == Head(run.todo) IN
       /\ job \in Jobs
       /\ IF job \in run.running
            THEN run' = [run EXCEPT !.todo = Tail(@)] /\ UNCHANGED interrupted
            ELSE /\ run' = [run EXCEPT !.pc = "job", !.running = @ \cup ({job} \cap SchedulerJobs)]
                 /\ interrupted' = interrupted \ {job}
  /\ UNCHANGED <<saved, uploaded, failures>>

\* The job returns, or the scheduler catches what its handler throws: its run is closed.
JobEnds ==
  /\ run.pc = "job"
  /\ run' = [run EXCEPT !.pc = "script", !.todo = Tail(@), !.running = @ \ {Head(run.todo)}]
  /\ UNCHANGED <<saved, uploaded, interrupted, failures>>

\* A failed run uploads what it has (always()): all of it, only what it started from when the rest
\* is still in the -wal file, or nothing at all when there is no database yet or no key.
UploadOfAFailedRun == uploaded' \in {run.running, run.restored, uploaded}

\* "Unsupported automation job"
UnsupportedJob ==
  /\ run.pc = "script" /\ run.todo # <<>>
  /\ Head(run.todo) \notin Jobs
  /\ UploadOfAFailedRun
  /\ run' = NoRun
  /\ UNCHANGED <<saved, interrupted, failures>>

\* All jobs are through: the database is encrypted and uploaded, and the run has succeeded.
Succeed ==
  /\ run.pc = "script" /\ run.todo = <<>>
  /\ saved' = run.running
  /\ uploaded' = run.running
  /\ run' = NoRun
  /\ UNCHANGED <<interrupted, failures>>

\* Anything else that ends a run: a direct job rejects, or the catch block of the scheduler does; the
\* process dies or runs into timeout-minutes; the list of runs, the key, the migration, the kill
\* switch, the encryption or the upload fails it.
Fail ==
  /\ run.pc # "idle"
  /\ failures < MaxFailures
  /\ failures' = failures + 1
  /\ interrupted' = IF run.pc = "job" THEN interrupted \cup {Head(run.todo)} ELSE interrupted
  /\ UploadOfAFailedRun
  /\ run' = NoRun
  /\ UNCHANGED saved

Proceed == Restore \/ NextJob \/ JobEnds \/ UnsupportedJob \/ Succeed

Next == Schedule \/ Dispatch \/ Proceed \/ Fail

\* A run in progress goes on, or fails at timeout-minutes at the latest; the cron comes every day, and
\* other runs of the concurrency group, one at a time, do not keep its runs out for ever.
Fairness == WF_vars(Proceed) /\ SF_vars(Schedule)

Spec == Init /\ [][Next]_vars /\ Fairness
-----------------------------------------------------------------------------
\* A job of the daily list that a dead process or a failed run cut short is started again, once runs
\* stop failing: the row it leaves 'running', which would refuse every later start of its type, is
\* in an artifact that no later run restores, whatever is dispatched in between.
InterruptedJobsRunAgain ==
  \A i \in DOMAIN DefaultJobs :
    DefaultJobs[i] \in interrupted ~> DefaultJobs[i] \notin interrupted
=============================================================================
