---------------------------- MODULE JobScheduler ----------------------------
(***************************************************************************)
(* AutomationScheduler.runScheduledJob over the job_runs table of          *)
(* JobRunner (packages/core/src/automation, packages/core/src/jobs).       *)
(*                                                                         *)
(* An invoker is a process that calls runScheduledJob; each of its         *)
(* database accesses is a step.  job_runs is the only thing invokers       *)
(* share: the guard that refuses a second run of a job type reads it, and  *)
(* the insert that makes the run visible comes one access later.           *)
(***************************************************************************)
EXTENDS Naturals, FiniteSets

CONSTANTS
  Invokers,
  JobTypes,
  Jobs,        \* the job_runs ids uuid() can produce
  NoJob, NoType,
  MaxAttempts  \* bound: attempt_count up to which a run is resumed

ASSUME InvokersAssumption == IsFiniteSet(Invokers)
ASSUME JobsAssumption == IsFiniteSet(Jobs) /\ NoJob \notin Jobs
ASSUME NoTypeAssumption == NoType \notin JobTypes
ASSUME MaxAttemptsAssumption == MaxAttempts \in Nat \ {0}

VARIABLES
  jobRuns,    \* jobRuns[j]: the row of run j
  inv,        \* inv[i]: invoker i's call in progress
  begun,      \* observed: how often a call took charge of run j
  returned,   \* observed: runs whose handler returned a result
  abandoned   \* observed: runs whose call died, or was rejected, while in charge of them

vars == <<jobRuns, inv, begun, returned, abandoned>>

RunState == [status: {"none", "running", "completed", "failed"},
             jobType: JobTypes \cup {NoType},
             attemptCount: Nat]

NoRow == [status |-> "none", jobType |-> NoType, attemptCount |-> 0]

\* The call is in charge of a run: its row was inserted or marked as resumed by this call.
InCharge == {"auditStarted", "run", "complete", "auditCompleted", "fail", "auditFailed"}

InvocationState ==
  [pc: {"idle", "guard", "start", "readAttempts", "markResumed"} \cup InCharge,
   jobType: JobTypes \cup {NoType},
   job: Jobs \cup {NoJob},
   attempts: Nat]  \* attempt_count as markResumed read it

Idle == [pc |-> "idle", jobType |-> NoType, job |-> NoJob, attempts |-> 0]

InProgress(t) == {j \in Jobs : jobRuns[j].jobType = t /\ jobRuns[j].status = "running"}
-----------------------------------------------------------------------------
Init ==
  /\ jobRuns = [j \in Jobs |-> NoRow]
  /\ inv = [i \in Invokers |-> Idle]
  /\ begun = [j \in Jobs |-> 0]
  /\ returned = {}
  /\ abandoned = {}

Goto(i, pc) == inv' = [inv EXCEPT ![i].pc = pc]
Return(i) == inv' = [inv EXCEPT ![i] = Idle]
SetStatus(j, status) == jobRuns' = [jobRuns EXCEPT ![j].status = status]

Observed == <<begun, returned, abandoned>>

\* A call is in charge of j from here on: begun counts it, and a run left alone before no longer is.
TakeCharge(j) ==
  /\ begun' = [begun EXCEPT ![j] = @ + 1]
  /\ abandoned' = abandoned \ {j}
  /\ UNCHANGED returned

\* runScheduledJob(jobType); a call the kill switch refuses changes nothing and has no action.
Invoke(i, t) ==
  /\ inv[i].pc = "idle"
  /\ inv' = [inv EXCEPT ![i] = [Idle EXCEPT !.pc = "guard", !.jobType = t]]
  /\ UNCHANGED <<jobRuns, Observed>>

\* Faulty variant: the guard looks for a run of any other type.
GuardOtherTypes(i) ==
  /\ inv[i].pc = "guard"
  /\ IF \E t \in JobTypes \ {inv[i].jobType} : InProgress(t) # {}
       THEN Return(i) ELSE Goto(i, "start")
  /\ UNCHANGED <<jobRuns, Observed>>

\* findResumable: a run of this type still 'running' refuses the call.
Guard(i) ==
  /\ inv[i].pc = "guard"
  /\ IF InProgress(inv[i].jobType) # {} THEN Return(i) ELSE Goto(i, "start")
  /\ UNCHANGED <<jobRuns, Observed>>

Start(i, j) ==
  /\ inv[i].pc = "start"
  /\ jobRuns[j] = NoRow
  /\ jobRuns' = [jobRuns EXCEPT ![j] = [status |-> "running", jobType |-> inv[i].jobType,
                                        attemptCount |-> 1]]
  /\ inv' = [inv EXCEPT ![i].pc = "auditStarted", ![i].job = j]
  /\ TakeCharge(j)

\* runScheduledJob(jobType, {resumeJobId: j}): no guard, and any run of the type may be named,
\* whatever its status; get() reads nothing of it that ever changes.
InvokeResume(i, t, j) ==
  /\ inv[i].pc = "idle"
  /\ jobRuns[j].jobType = t
  /\ inv' = [inv EXCEPT ![i] = [Idle EXCEPT !.pc = "readAttempts", !.jobType = t, !.job = j]]
  /\ UNCHANGED <<jobRuns, Observed>>

\* markResumed: the row is read again for its attempt_count, then updated.
ReadAttempts(i) ==
  /\ inv[i].pc = "readAttempts"
  /\ jobRuns[inv[i].job].attemptCount < MaxAttempts
  /\ inv' = [inv EXCEPT ![i].pc = "markResumed",
                        ![i].attempts = jobRuns[inv[i].job].attemptCount]
  /\ UNCHANGED <<jobRuns, Observed>>

\* Faulty variant: the attempt count is bumped twice.
MarkResumedTwice(i) ==
  /\ inv[i].pc = "markResumed"
  /\ jobRuns' = [jobRuns EXCEPT ![inv[i].job].status = "running",
                                ![inv[i].job].attemptCount = inv[i].attempts + 2]
  /\ Goto(i, "auditStarted")
  /\ TakeCharge(inv[i].job)

MarkResumed(i) ==
  /\ inv[i].pc = "markResumed"
  /\ jobRuns' = [jobRuns EXCEPT ![inv[i].job].status = "running",
                                ![inv[i].job].attemptCount = inv[i].attempts + 1]
  /\ Goto(i, "auditStarted")
  /\ TakeCharge(inv[i].job)

AuditStarted(i) ==
  /\ inv[i].pc = "auditStarted"
  /\ Goto(i, "run")
  /\ UNCHANGED <<jobRuns, Observed>>

HandlerReturns(i) ==
  /\ inv[i].pc = "run"
  /\ returned' = returned \cup {inv[i].job}
  /\ Goto(i, "complete")
  /\ UNCHANGED <<jobRuns, begun, abandoned>>

Complete(i) ==
  /\ inv[i].pc = "complete"
  /\ SetStatus(inv[i].job, "completed")
  /\ Goto(i, "auditCompleted")
  /\ UNCHANGED Observed

AuditCompleted(i) ==
  /\ inv[i].pc = "auditCompleted"
  /\ Return(i)
  /\ UNCHANGED <<jobRuns, Observed>>

\* The handler, complete() or the audit of the completion throws: the catch block takes over.
Throws(i) ==
  /\ inv[i].pc \in {"run", "complete", "auditCompleted"}
  /\ Goto(i, "fail")
  /\ UNCHANGED <<jobRuns, Observed>>

\* Faulty variants: the catch block only writes the audit row, or closes the run as completed.
FailUnrecorded(i) ==
  /\ inv[i].pc = "fail"
  /\ Goto(i, "auditFailed")
  /\ UNCHANGED <<jobRuns, Observed>>

FailAsCompleted(i) ==
  /\ inv[i].pc = "fail"
  /\ SetStatus(inv[i].job, "completed")
  /\ Goto(i, "auditFailed")
  /\ UNCHANGED Observed

Fail(i) ==
  /\ inv[i].pc = "fail"
  /\ SetStatus(inv[i].job, "failed")
  /\ Goto(i, "auditFailed")
  /\ UNCHANGED Observed

AuditFailed(i) ==
  /\ inv[i].pc = "auditFailed"
  /\ Return(i)
  /\ UNCHANGED <<jobRuns, Observed>>

\* The process dies, or an access outside the try block (or in the catch block) throws.
Crash(i) ==
  /\ inv[i].pc # "idle"
  /\ Return(i)
  /\ abandoned' = IF inv[i].pc \in InCharge THEN abandoned \cup {inv[i].job} ELSE abandoned
  /\ UNCHANGED <<jobRuns, begun, returned>>

Proceed(i) ==
  \/ Guard(i) \/ \E j \in Jobs : Start(i, j)
  \/ ReadAttempts(i) \/ MarkResumed(i)
  \/ AuditStarted(i) \/ HandlerReturns(i) \/ Complete(i) \/ AuditCompleted(i)
  \/ Throws(i) \/ Fail(i) \/ AuditFailed(i)

Next ==
  \E i \in Invokers :
    \/ \E t \in JobTypes : Invoke(i, t)
    \/ \E t \in JobTypes, j \in Jobs : InvokeResume(i, t, j)
    \/ Proceed(i)
    \/ Crash(i)

Spec == Init /\ [][Next]_vars
-----------------------------------------------------------------------------
TypeOK ==
  /\ jobRuns \in [Jobs -> RunState]
  /\ inv \in [Invokers -> InvocationState]
  /\ begun \in [Jobs -> Nat]
  /\ returned \subseteq Jobs
  /\ abandoned \subseteq Jobs

FreshInProgress(t) == {j \in InProgress(t) : jobRuns[j].attemptCount = 1}

\* The guard and the insert are separate accesses, so calls that overlap may all pass it; still,
\* a job type never has more running rows that nobody resumed than there are invokers,
\* and exactly one at most when calls do not overlap.
FreshRunsBounded ==
  \A t \in JobTypes : Cardinality(FreshInProgress(t)) <= Cardinality(Invokers)

\* A row stays 'running' only while some call is in charge of it, or after such a call died:
\* no path through the try and the catch block forgets to close the run.
NoRunIsForgotten ==
  \A j \in Jobs : jobRuns[j].status = "running" =>
    \/ j \in abandoned
    \/ \E i \in Invokers : inv[i].job = j /\ inv[i].pc \in InCharge

\* A run is never closed as completed unless its handler returned, even when a resumed run has
\* two calls in charge of it.
CompletedRunsReturned ==
  \A j \in Jobs : jobRuns[j].status = "completed" => j \in returned

\* Overlapping resumes may lose an increment, but attempt_count never claims more attempts than
\* calls that took charge.
AttemptsWereMade ==
  \A j \in Jobs : jobRuns[j].attemptCount <= begun[j]
=============================================================================
