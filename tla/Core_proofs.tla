------------------------------ MODULE Core_proofs ------------------------------
(***************************************************************************)
(* What holds of the tables that packages/core keeps for all the others:   *)
(* of job_runs for any number of invokers, job types and runs, with        *)
(* crashes, overlapping calls and resumes in any order; and, in the last   *)
(* part, of system_config for any number of processes, environments and    *)
(* operators.                                                              *)
(***************************************************************************)
EXTENDS JobScheduler, SystemConfig, FiniteSetTheorems, TLAPS

\* Where a call names a run whose row exists.
NamesARun == {"readAttempts", "markResumed"} \cup InCharge

CallsNameRuns ==
  \A i \in Invokers :
    /\ inv[i].pc # "idle" => inv[i].jobType \in JobTypes
    /\ inv[i].pc \in NamesARun => inv[i].job \in Jobs /\ jobRuns[inv[i].job].status # "none"
    /\ inv[i].pc = "markResumed" => inv[i].attempts > 0

\* A row that exists has been begun at least once.
RowsHaveAttempts ==
  \A j \in Jobs : /\ jobRuns[j].status # "none" => jobRuns[j].attemptCount > 0
                  /\ jobRuns[j].status = "none" => jobRuns[j].jobType = NoType

Typed == TypeOK /\ CallsNameRuns /\ RowsHaveAttempts

LEMMA IdleTyped == Idle \in InvocationState /\ Idle.pc = "idle"
  BY DEF Idle, InvocationState

LEMMA NoRowTyped == NoRow \in RunState /\ NoRow.status = "none" /\ NoRow.jobType = NoType
  BY DEF NoRow, RunState

LEMMA TypedInit == Init => Typed
<1> SUFFICES ASSUME Init PROVE Typed  OBVIOUS
<1>1. TypeOK
  BY IdleTyped, NoRowTyped DEF Init, TypeOK
<1>2. CallsNameRuns /\ RowsHaveAttempts
  BY IdleTyped, NoRowTyped DEF Init, CallsNameRuns, RowsHaveAttempts, NamesARun, InCharge, Idle
<1> QED  BY <1>1, <1>2 DEF Typed

\* What a step may do to the call that makes it, and to the row it names.
CallMoves(i, c) == inv' = [inv EXCEPT ![i] = c]
RowMoves(j, row) == jobRuns' = [jobRuns EXCEPT ![j] = row]

\* A step that leaves the rows alone keeps the typing if its own call stays well formed.
LEMMA QuietStep ==
  ASSUME Typed, NEW i \in Invokers, NEW c \in InvocationState, CallMoves(i, c),
         UNCHANGED jobRuns,
         begun' \in [Jobs -> Nat], returned' \subseteq Jobs, abandoned' \subseteq Jobs,
         c.pc # "idle" => c.jobType \in JobTypes,
         c.pc \in NamesARun => c.job \in Jobs /\ jobRuns[c.job].status # "none",
         c.pc = "markResumed" => c.attempts > 0
  PROVE  Typed'
<1>1. TypeOK'  BY DEF Typed, TypeOK, CallMoves
<1>2. CallsNameRuns'  BY DEF Typed, TypeOK, CallMoves, CallsNameRuns
<1>3. RowsHaveAttempts'  BY DEF Typed, RowsHaveAttempts
<1> QED  BY <1>1, <1>2, <1>3 DEF Typed

\* So does one that writes an existing row's next state.
LEMMA RowStep ==
  ASSUME Typed, NEW i \in Invokers, NEW c \in InvocationState, CallMoves(i, c),
         NEW j \in Jobs, NEW row \in RunState, RowMoves(j, row),
         row.status # "none", row.attemptCount > 0,
         begun' \in [Jobs -> Nat], returned' \subseteq Jobs, abandoned' \subseteq Jobs,
         c.pc \in InCharge, c.job = j, c.jobType \in JobTypes
  PROVE  Typed'
<1>1. TypeOK'  BY DEF Typed, TypeOK, CallMoves, RowMoves
<1>2. CallsNameRuns'
  BY DEF Typed, TypeOK, CallMoves, RowMoves, CallsNameRuns, InCharge
<1>3. RowsHaveAttempts'  BY DEF Typed, TypeOK, RowMoves, RowsHaveAttempts
<1> QED  BY <1>1, <1>2, <1>3 DEF Typed

LEMMA TypedStep == Typed /\ [Next]_vars => Typed'
<1> SUFFICES ASSUME Typed, [Next]_vars PROVE Typed'  OBVIOUS
<1>0. /\ jobRuns \in [Jobs -> RunState] /\ inv \in [Invokers -> InvocationState]
      /\ begun \in [Jobs -> Nat] /\ returned \subseteq Jobs /\ abandoned \subseteq Jobs
  BY DEF Typed, TypeOK
<1>calls. \A i \in Invokers :
            /\ inv[i].pc # "idle" => inv[i].jobType \in JobTypes
            /\ inv[i].pc \in NamesARun => inv[i].job \in Jobs /\ jobRuns[inv[i].job].status # "none"
            /\ inv[i].pc = "markResumed" => inv[i].attempts > 0
  BY DEF Typed, CallsNameRuns
\* A call that ends, and one that moves on to a place no more demanding than where it is.
<1>return. ASSUME NEW i \in Invokers, Return(i), UNCHANGED jobRuns, begun' \in [Jobs -> Nat],
                  returned' \subseteq Jobs, abandoned' \subseteq Jobs
           PROVE  Typed'
  BY <1>return, IdleTyped, QuietStep DEF Return, CallMoves, NamesARun, InCharge
<1>goto. ASSUME NEW i \in Invokers, NEW pc \in InCharge \cup {"start"}, Goto(i, pc), UNCHANGED jobRuns,
                begun' \in [Jobs -> Nat], returned' \subseteq Jobs, abandoned' \subseteq Jobs,
                inv[i].pc # "idle", pc \in InCharge => inv[i].pc \in NamesARun
         PROVE  Typed'
  <2> DEFINE c == [inv[i] EXCEPT !.pc = pc]
  <2>1. c \in InvocationState /\ c.pc = pc /\ c.job = inv[i].job /\ c.jobType = inv[i].jobType
    BY <1>0 DEF InvocationState
  <2>2. CallMoves(i, c)
    BY <1>goto DEF Goto, CallMoves
  <2>3. c.pc \in NamesARun => c.pc \in InCharge
    BY <2>1 DEF NamesARun, InCharge
  <2>4. c.pc # "markResumed"
    BY <2>1 DEF InCharge
  <2> HIDE DEF c
  <2> QED  BY <1>goto, <1>calls, <2>1, <2>2, <2>3, <2>4, QuietStep
<1>status. ASSUME NEW i \in Invokers, NEW pc \in InCharge, NEW status \in {"completed", "failed"},
                  inv[i].pc \in InCharge, Goto(i, pc), SetStatus(inv[i].job, status), UNCHANGED Observed
           PROVE  Typed'
  <2> DEFINE c == [inv[i] EXCEPT !.pc = pc]
             row == [jobRuns[inv[i].job] EXCEPT !.status = status]
  <2>1. inv[i].job \in Jobs /\ jobRuns[inv[i].job].status # "none" /\ inv[i].jobType \in JobTypes
    BY <1>status, <1>calls DEF NamesARun, InCharge
  <2>2. c \in InvocationState /\ c.pc = pc /\ c.job = inv[i].job /\ c.jobType = inv[i].jobType
    BY <1>0 DEF InvocationState
  <2>3. row \in RunState /\ row.status = status /\ row.attemptCount > 0
    BY <1>0, <2>1 DEF RunState, Typed, RowsHaveAttempts
  <2>4. CallMoves(i, c) /\ RowMoves(inv[i].job, row)
    BY <1>status DEF Goto, SetStatus, CallMoves, RowMoves
  <2> HIDE DEF c, row
  <2> QED  BY <1>0, <1>status, <2>1, <2>2, <2>3, <2>4, RowStep DEF Observed
<1>1. ASSUME NEW i \in Invokers, NEW t \in JobTypes, Invoke(i, t) PROVE Typed'
  <2> DEFINE c == [Idle EXCEPT !.pc = "guard", !.jobType = t]
  <2>1. c \in InvocationState /\ c.pc = "guard" /\ c.jobType = t
    BY IdleTyped DEF InvocationState
  <2>2. CallMoves(i, c) /\ UNCHANGED <<jobRuns, Observed>>
    BY <1>1 DEF Invoke, CallMoves
  <2> HIDE DEF c
  <2> QED  BY <1>0, <2>1, <2>2, QuietStep DEF Observed, NamesARun, InCharge
<1>2. ASSUME NEW i \in Invokers, Guard(i) PROVE Typed'
  <2>1. inv[i].pc = "guard" /\ UNCHANGED <<jobRuns, Observed>> /\ (Return(i) \/ Goto(i, "start"))
    BY <1>2 DEF Guard
  <2>2. "start" \notin InCharge  BY DEF InCharge
  <2> QED  BY <1>0, <2>1, <2>2, <1>return, <1>goto DEF Observed
<1>3. ASSUME NEW i \in Invokers, NEW j \in Jobs, Start(i, j) PROVE Typed'
  <2> DEFINE c == [inv[i] EXCEPT !.pc = "auditStarted", !.job = j]
             row == [status |-> "running", jobType |-> inv[i].jobType, attemptCount |-> 1]
  <2>1. inv[i].jobType \in JobTypes
    BY <1>3, <1>calls DEF Start
  <2>2. c \in InvocationState /\ c.pc = "auditStarted" /\ c.job = j /\ c.jobType = inv[i].jobType
    BY <1>0 DEF InvocationState, InCharge
  <2>3. row \in RunState /\ row.status = "running" /\ row.attemptCount = 1
    BY <2>1 DEF RunState
  <2>4. RowMoves(j, row)
    BY <1>3 DEF Start, RowMoves
  <2>5. CallMoves(i, c)
    BY <1>3, <1>0 DEF Start, CallMoves, InvocationState
  <2>6. begun' \in [Jobs -> Nat] /\ returned' \subseteq Jobs /\ abandoned' \subseteq Jobs
    BY <1>3, <1>0 DEF Start, TakeCharge
  <2>7. "auditStarted" \in InCharge  BY DEF InCharge
  <2> HIDE DEF c, row
  <2> QED  BY <2>1, <2>2, <2>3, <2>4, <2>5, <2>6, <2>7, RowStep
<1>4. ASSUME NEW i \in Invokers, NEW t \in JobTypes, NEW j \in Jobs, InvokeResume(i, t, j) PROVE Typed'
  <2> DEFINE c == [Idle EXCEPT !.pc = "readAttempts", !.jobType = t, !.job = j]
  <2>1. c \in InvocationState /\ c.pc = "readAttempts" /\ c.jobType = t /\ c.job = j
    BY IdleTyped DEF InvocationState
  <2>2. CallMoves(i, c) /\ UNCHANGED <<jobRuns, Observed>>
    BY <1>4 DEF InvokeResume, CallMoves
  <2>3. jobRuns[j].status # "none"
    BY <1>4, NoTypeAssumption DEF InvokeResume, Typed, RowsHaveAttempts
  <2> HIDE DEF c
  <2> QED  BY <1>0, <2>1, <2>2, <2>3, QuietStep DEF Observed
<1>5. ASSUME NEW i \in Invokers, ReadAttempts(i) PROVE Typed'
  <2> DEFINE n == jobRuns[inv[i].job].attemptCount
             c == [inv[i] EXCEPT !.pc = "markResumed", !.attempts = n]
  <2>1. inv[i].job \in Jobs /\ jobRuns[inv[i].job].status # "none" /\ inv[i].jobType \in JobTypes
    BY <1>5, <1>calls DEF ReadAttempts, NamesARun
  <2>2. n \in Nat /\ n > 0
    BY <2>1, <1>0 DEF RunState, Typed, RowsHaveAttempts
  <2>3. CallMoves(i, c) /\ UNCHANGED <<jobRuns, Observed>>
    BY <1>5, <1>0 DEF ReadAttempts, CallMoves, InvocationState
  <2> HIDE DEF n
  <2>4. /\ c \in InvocationState /\ c.pc = "markResumed" /\ c.attempts = n
        /\ c.job = inv[i].job /\ c.jobType = inv[i].jobType
    BY <1>0, <2>2 DEF InvocationState
  <2> HIDE DEF c
  <2> QED  BY <1>0, <2>1, <2>2, <2>3, <2>4, QuietStep DEF Observed
<1>6. ASSUME NEW i \in Invokers, MarkResumed(i) PROVE Typed'
  <2> DEFINE c == [inv[i] EXCEPT !.pc = "auditStarted"]
             n == inv[i].attempts + 1
             old == jobRuns[inv[i].job]
             row == [old EXCEPT !.status = "running", !.attemptCount = n]
  <2>1. inv[i].job \in Jobs /\ inv[i].jobType \in JobTypes /\ inv[i].attempts \in Nat
    BY <1>6, <1>calls, <1>0 DEF MarkResumed, NamesARun, InvocationState
  <2>n. n \in Nat /\ n > 0
    BY <2>1
  <2>old. old \in RunState
    BY <2>1, <1>0
  <2>2. c \in InvocationState /\ c.pc = "auditStarted" /\ c.job = inv[i].job /\ c.jobType = inv[i].jobType
    BY <1>0 DEF InvocationState, InCharge
  <2>4. CallMoves(i, c)
    BY <1>6 DEF MarkResumed, CallMoves, Goto
  <2>5. RowMoves(inv[i].job, row)
    BY <1>6, <1>0 DEF MarkResumed, RowMoves, RunState
  <2> HIDE DEF n, old
  <2>3. row \in RunState /\ row.status = "running" /\ row.attemptCount > 0
    BY <2>n, <2>old DEF RunState
  <2>6. begun' \in [Jobs -> Nat] /\ returned' \subseteq Jobs /\ abandoned' \subseteq Jobs
    BY <1>6, <1>0, <2>1 DEF MarkResumed, TakeCharge
  <2>7. "auditStarted" \in InCharge  BY DEF InCharge
  <2> HIDE DEF c, row
  <2> QED  BY <2>1, <2>2, <2>3, <2>4, <2>5, <2>6, <2>7, RowStep
<1>7. ASSUME NEW i \in Invokers, AuditStarted(i) PROVE Typed'
  BY <1>7, <1>0, <1>goto DEF AuditStarted, Observed, NamesARun, InCharge
<1>8. ASSUME NEW i \in Invokers, HandlerReturns(i) PROVE Typed'
  <2>1. inv[i].job \in Jobs
    BY <1>8, <1>calls DEF HandlerReturns, NamesARun, InCharge
  <2> QED  BY <1>8, <1>0, <2>1, <1>goto DEF HandlerReturns, NamesARun, InCharge
<1>9. ASSUME NEW i \in Invokers, Complete(i) PROVE Typed'
  BY <1>9, <1>status DEF Complete, InCharge
<1>10. ASSUME NEW i \in Invokers, AuditCompleted(i) PROVE Typed'
  BY <1>10, <1>0, <1>return DEF AuditCompleted, Observed
<1>11. ASSUME NEW i \in Invokers, Throws(i) PROVE Typed'
  BY <1>11, <1>0, <1>goto DEF Throws, Observed, NamesARun, InCharge
<1>12. ASSUME NEW i \in Invokers, Fail(i) PROVE Typed'
  BY <1>12, <1>status DEF Fail, InCharge
<1>13. ASSUME NEW i \in Invokers, AuditFailed(i) PROVE Typed'
  BY <1>13, <1>0, <1>return DEF AuditFailed, Observed
<1>14. ASSUME NEW i \in Invokers, Crash(i) PROVE Typed'
  <2>1. abandoned' \subseteq Jobs
    BY <1>14, <1>0, <1>calls DEF Crash, NamesARun
  <2> QED  BY <1>14, <1>0, <2>1, <1>return DEF Crash
<1>15. CASE UNCHANGED vars
  BY <1>15 DEF vars, Observed, Typed, TypeOK, CallsNameRuns, RowsHaveAttempts
<1> QED
  BY <1>1, <1>2, <1>3, <1>4, <1>5, <1>6, <1>7, <1>8, <1>9, <1>10, <1>11, <1>12, <1>13, <1>14, <1>15
     DEF Next, Proceed

\* The job table and the calls keep their types, and a call in charge names an existing run.
THEOREM TypeCorrect == Spec => []TypeOK
<1>1. Typed => TypeOK  BY DEF Typed
<1> QED  BY <1>1, TypedInit, TypedStep, PTL DEF Spec
-----------------------------------------------------------------------------
\* The actions, one by one: what every invariant below splits a step into.
LEMMA StepKinds ==
  ASSUME [Next]_vars
  PROVE  \/ \E i \in Invokers : \/ \E t \in JobTypes : Invoke(i, t)
                                \/ \E t \in JobTypes, j \in Jobs : InvokeResume(i, t, j)
                                \/ Guard(i)
                                \/ \E j \in Jobs : Start(i, j)
                                \/ ReadAttempts(i) \/ MarkResumed(i)
                                \/ AuditStarted(i) \/ HandlerReturns(i) \/ Complete(i)
                                \/ AuditCompleted(i) \/ Throws(i) \/ Fail(i) \/ AuditFailed(i)
                                \/ Crash(i)
         \/ UNCHANGED vars
  BY DEF Next, Proceed

LEMMA TypedFacts ==
  ASSUME Typed
  PROVE  /\ jobRuns \in [Jobs -> RunState] /\ inv \in [Invokers -> InvocationState]
         /\ begun \in [Jobs -> Nat] /\ returned \subseteq Jobs /\ abandoned \subseteq Jobs
         /\ \A i \in Invokers :
              /\ inv[i].pc # "idle" => inv[i].jobType \in JobTypes
              /\ inv[i].pc \in NamesARun => inv[i].job \in Jobs /\ jobRuns[inv[i].job].status # "none"
              /\ inv[i].pc = "markResumed" => inv[i].attempts > 0
         /\ \A j \in Jobs : jobRuns[j].status # "none" => jobRuns[j].attemptCount > 0
  BY DEF Typed, TypeOK, CallsNameRuns, RowsHaveAttempts

\* What the EXCEPTs on a call come to, field by field.
LEMMA GotoFields ==
  ASSUME Typed, NEW i \in Invokers, NEW pc, Goto(i, pc)
  PROVE  /\ inv'[i].pc = pc /\ inv'[i].job = inv[i].job
         /\ inv'[i].jobType = inv[i].jobType /\ inv'[i].attempts = inv[i].attempts
         /\ \A k \in Invokers \ {i} : inv'[k] = inv[k]
  BY TypedFacts DEF Goto, InvocationState

LEMMA ReturnFields ==
  ASSUME Typed, NEW i \in Invokers, Return(i)
  PROVE  inv'[i] = Idle /\ \A k \in Invokers \ {i} : inv'[k] = inv[k]
  BY TypedFacts DEF Return

LEMMA SetStatusFields ==
  ASSUME Typed, NEW j \in Jobs, NEW status, SetStatus(j, status)
  PROVE  /\ jobRuns'[j].status = status /\ jobRuns'[j].jobType = jobRuns[j].jobType
         /\ jobRuns'[j].attemptCount = jobRuns[j].attemptCount
         /\ \A k \in Jobs \ {j} : jobRuns'[k] = jobRuns[k]
  BY TypedFacts DEF SetStatus, RunState

LEMMA StartFields ==
  ASSUME Typed, NEW i \in Invokers, NEW j \in Jobs, Start(i, j)
  PROVE  /\ inv'[i].pc = "auditStarted" /\ inv'[i].job = j /\ inv'[i].jobType = inv[i].jobType
         /\ \A k \in Invokers \ {i} : inv'[k] = inv[k]
         /\ jobRuns'[j].status = "running" /\ jobRuns'[j].jobType = inv[i].jobType
         /\ jobRuns'[j].attemptCount = 1
         /\ \A k \in Jobs \ {j} : jobRuns'[k] = jobRuns[k]
         /\ begun'[j] = begun[j] + 1 /\ \A k \in Jobs \ {j} : begun'[k] = begun[k]
         /\ returned' = returned /\ abandoned' = abandoned \ {j}
  BY TypedFacts DEF Start, TakeCharge, InvocationState

LEMMA MarkResumedFields ==
  ASSUME Typed, NEW i \in Invokers, MarkResumed(i)
  PROVE  /\ inv[i].job \in Jobs
         /\ inv'[i].pc = "auditStarted" /\ inv'[i].job = inv[i].job /\ inv'[i].jobType = inv[i].jobType
         /\ \A k \in Invokers \ {i} : inv'[k] = inv[k]
         /\ jobRuns'[inv[i].job].status = "running"
         /\ jobRuns'[inv[i].job].jobType = jobRuns[inv[i].job].jobType
         /\ jobRuns'[inv[i].job].attemptCount = inv[i].attempts + 1
         /\ \A k \in Jobs \ {inv[i].job} : jobRuns'[k] = jobRuns[k]
         /\ begun'[inv[i].job] = begun[inv[i].job] + 1
         /\ \A k \in Jobs \ {inv[i].job} : begun'[k] = begun[k]
         /\ returned' = returned /\ abandoned' = abandoned \ {inv[i].job}
<1>1. inv[i].job \in Jobs
  BY TypedFacts DEF MarkResumed, NamesARun
<1>2. Goto(i, "auditStarted") /\ TakeCharge(inv[i].job)
  BY DEF MarkResumed
<1>3. /\ jobRuns'[inv[i].job].status = "running"
      /\ jobRuns'[inv[i].job].jobType = jobRuns[inv[i].job].jobType
      /\ jobRuns'[inv[i].job].attemptCount = inv[i].attempts + 1
      /\ \A k \in Jobs \ {inv[i].job} : jobRuns'[k] = jobRuns[k]
  BY <1>1, TypedFacts DEF MarkResumed, RunState
<1>4. /\ begun'[inv[i].job] = begun[inv[i].job] + 1
      /\ \A k \in Jobs \ {inv[i].job} : begun'[k] = begun[k]
      /\ returned' = returned /\ abandoned' = abandoned \ {inv[i].job}
  BY <1>1, <1>2, TypedFacts DEF TakeCharge
<1> QED  BY <1>1, <1>2, <1>3, <1>4, GotoFields

LEMMA InvokedFields ==
  ASSUME Typed, NEW i \in Invokers, \/ \E t \in JobTypes : Invoke(i, t)
                                    \/ \E t \in JobTypes, j \in Jobs : InvokeResume(i, t, j)
  PROVE  inv'[i].pc \in {"guard", "readAttempts"} /\ \A k \in Invokers \ {i} : inv'[k] = inv[k]
<1>1. ASSUME NEW t \in JobTypes, Invoke(i, t)
      PROVE  inv'[i].pc = "guard" /\ \A k \in Invokers \ {i} : inv'[k] = inv[k]
  BY <1>1, TypedFacts, IdleTyped DEF Invoke, InvocationState
<1>2. ASSUME NEW t \in JobTypes, NEW j \in Jobs, InvokeResume(i, t, j)
      PROVE  inv'[i].pc = "readAttempts" /\ \A k \in Invokers \ {i} : inv'[k] = inv[k]
  <2> DEFINE c == [Idle EXCEPT !.pc = "readAttempts", !.jobType = t, !.job = j]
  <2>1. c.pc = "readAttempts"
    BY IdleTyped DEF InvocationState
  <2>2. inv' = [inv EXCEPT ![i] = c]
    BY <1>2 DEF InvokeResume
  <2> HIDE DEF c
  <2> QED  BY <2>1, <2>2, TypedFacts
<1> QED  BY <1>1, <1>2

LEMMA ReadAttemptsFields ==
  ASSUME Typed, NEW i \in Invokers, ReadAttempts(i)
  PROVE  /\ inv[i].job \in Jobs /\ jobRuns[inv[i].job].attemptCount > 0
         /\ inv'[i].pc = "markResumed" /\ inv'[i].job = inv[i].job /\ inv'[i].jobType = inv[i].jobType
         /\ inv'[i].attempts = jobRuns[inv[i].job].attemptCount
         /\ \A k \in Invokers \ {i} : inv'[k] = inv[k]
         /\ UNCHANGED <<jobRuns, Observed>>
<1>1. inv[i].job \in Jobs /\ jobRuns[inv[i].job].attemptCount > 0
  BY TypedFacts DEF ReadAttempts, NamesARun
<1>2. PICK n : /\ n = jobRuns[inv[i].job].attemptCount
               /\ inv'[i] = [inv[i] EXCEPT !.pc = "markResumed", !.attempts = n]
               /\ \A k \in Invokers \ {i} : inv'[k] = inv[k]
  BY TypedFacts DEF ReadAttempts, InvocationState
<1>3. /\ inv'[i].pc = "markResumed" /\ inv'[i].job = inv[i].job /\ inv'[i].jobType = inv[i].jobType
      /\ inv'[i].attempts = n
  BY <1>2, TypedFacts DEF InvocationState
<1> QED  BY <1>1, <1>2, <1>3 DEF ReadAttempts
-----------------------------------------------------------------------------
(* No run is forgotten: the call that will close a running row is still on its way to do so. *)

Closing == {"auditStarted", "run", "complete", "fail"}

RunningRowsHaveACloser ==
  \A j \in Jobs : jobRuns[j].status = "running" =>
    \/ j \in abandoned
    \/ \E i \in Invokers : inv[i].job = j /\ inv[i].pc \in Closing

LEMMA CloserStep == Typed /\ RunningRowsHaveACloser /\ [Next]_vars => RunningRowsHaveACloser'
<1> SUFFICES ASSUME Typed, RunningRowsHaveACloser, [Next]_vars,
                    NEW j \in Jobs, jobRuns'[j].status = "running"
             PROVE  \/ j \in abandoned'
                    \/ \E i \in Invokers : inv'[i].job = j /\ inv'[i].pc \in Closing
  BY DEF RunningRowsHaveACloser
<1> USE DEF Closing
<1>facts. /\ abandoned \subseteq Jobs
          /\ \A i \in Invokers : inv[i].pc \in NamesARun => inv[i].job \in Jobs
  BY TypedFacts
<1>before. jobRuns[j].status = "running" =>
             \/ j \in abandoned
             \/ \E i \in Invokers : inv[i].job = j /\ inv[i].pc \in Closing
  BY DEF RunningRowsHaveACloser
\* A call that closes nothing does not matter while the others stay where they are.
<1>others. ASSUME NEW i \in Invokers, \A k \in Invokers \ {i} : inv'[k] = inv[k],
                  inv[i].pc \notin Closing \/ inv[i].job # j \/ (inv'[i].pc \in Closing /\ inv'[i].job = j),
                  jobRuns[j].status = "running", abandoned \subseteq abandoned'
           PROVE  j \in abandoned' \/ \E k \in Invokers : inv'[k].job = j /\ inv'[k].pc \in Closing
  BY <1>before, <1>others
<1>status. ASSUME NEW i \in Invokers, NEW pc, NEW status \in {"completed", "failed"},
                  inv[i].pc \in InCharge, Goto(i, pc), SetStatus(inv[i].job, status), UNCHANGED Observed
           PROVE  j \in abandoned' \/ \E k \in Invokers : inv'[k].job = j /\ inv'[k].pc \in Closing
  <2>1. inv[i].job \in Jobs
    BY <1>status, <1>facts DEF NamesARun
  <2>2. inv[i].job # j /\ jobRuns[j].status = "running"
    BY <1>status, <2>1, SetStatusFields
  <2> QED  BY <1>status, <2>2, <1>others, GotoFields DEF Observed
<1>1. ASSUME NEW i \in Invokers, \/ \E t \in JobTypes : Invoke(i, t)
                                 \/ \E t \in JobTypes, k \in Jobs : InvokeResume(i, t, k)
      PROVE  j \in abandoned' \/ \E k \in Invokers : inv'[k].job = j /\ inv'[k].pc \in Closing
  <2>1. inv[i].pc = "idle" /\ UNCHANGED <<jobRuns, Observed>> /\ \A k \in Invokers \ {i} : inv'[k] = inv[k]
    BY <1>1, TypedFacts DEF Invoke, InvokeResume
  <2> QED  BY <2>1, <1>others DEF Observed
<1>2. ASSUME NEW i \in Invokers, Guard(i) \/ ReadAttempts(i)
      PROVE  j \in abandoned' \/ \E k \in Invokers : inv'[k].job = j /\ inv'[k].pc \in Closing
  <2>1. inv[i].pc \notin Closing /\ UNCHANGED <<jobRuns, Observed>> /\ \A k \in Invokers \ {i} : inv'[k] = inv[k]
    BY <1>2, GotoFields, ReturnFields, ReadAttemptsFields DEF Guard, ReadAttempts
  <2> QED  BY <2>1, <1>others DEF Observed
<1>3. ASSUME NEW i \in Invokers, NEW n \in Jobs, Start(i, n)
      PROVE  j \in abandoned' \/ \E k \in Invokers : inv'[k].job = j /\ inv'[k].pc \in Closing
  <2>1. CASE n = j
    BY <1>3, <2>1, StartFields
  <2>2. CASE n # j
    <3>1. inv[i].pc = "start"
      BY <1>3 DEF Start
    <3>2. jobRuns[j].status = "running" /\ (j \in abandoned => j \in abandoned')
      BY <1>3, <2>2, StartFields
    <3> QED  BY <1>3, <2>2, <3>1, <3>2, <1>before, StartFields
  <2> QED  BY <2>1, <2>2
<1>4. ASSUME NEW i \in Invokers, MarkResumed(i)
      PROVE  j \in abandoned' \/ \E k \in Invokers : inv'[k].job = j /\ inv'[k].pc \in Closing
  <2>1. CASE inv[i].job = j
    BY <1>4, <2>1, MarkResumedFields
  <2>2. CASE inv[i].job # j
    <3>1. inv[i].pc = "markResumed"
      BY <1>4 DEF MarkResumed
    <3>2. jobRuns[j].status = "running" /\ (j \in abandoned => j \in abandoned')
      BY <1>4, <2>2, MarkResumedFields
    <3> QED  BY <1>4, <2>2, <3>1, <3>2, <1>before, MarkResumedFields
  <2> QED  BY <2>1, <2>2
<1>5. ASSUME NEW i \in Invokers, AuditStarted(i) \/ HandlerReturns(i) \/ Throws(i)
      PROVE  j \in abandoned' \/ \E k \in Invokers : inv'[k].job = j /\ inv'[k].pc \in Closing
  <2>1. PICK pc \in {"run", "complete", "fail"} : Goto(i, pc) /\ UNCHANGED <<jobRuns, abandoned>>
    BY <1>5 DEF AuditStarted, HandlerReturns, Throws, Observed
  <2>2. inv'[i].pc \in Closing /\ inv'[i].job = inv[i].job /\ \A k \in Invokers \ {i} : inv'[k] = inv[k]
    BY <2>1, GotoFields
  <2> QED  BY <2>1, <2>2, <1>others
<1>6. ASSUME NEW i \in Invokers, Complete(i) \/ Fail(i)
      PROVE  j \in abandoned' \/ \E k \in Invokers : inv'[k].job = j /\ inv'[k].pc \in Closing
  <2>1. CASE Complete(i)
    BY <2>1, <1>status DEF Complete, InCharge
  <2>2. CASE Fail(i)
    BY <2>2, <1>status DEF Fail, InCharge
  <2> QED  BY <1>6, <2>1, <2>2
<1>7. ASSUME NEW i \in Invokers, AuditCompleted(i) \/ AuditFailed(i)
      PROVE  j \in abandoned' \/ \E k \in Invokers : inv'[k].job = j /\ inv'[k].pc \in Closing
  <2>1. inv[i].pc \notin Closing /\ UNCHANGED <<jobRuns, Observed>> /\ \A k \in Invokers \ {i} : inv'[k] = inv[k]
    BY <1>7, ReturnFields DEF AuditCompleted, AuditFailed
  <2> QED  BY <2>1, <1>others DEF Observed
<1>8. ASSUME NEW i \in Invokers, Crash(i)
      PROVE  j \in abandoned' \/ \E k \in Invokers : inv'[k].job = j /\ inv'[k].pc \in Closing
  <2>1. UNCHANGED jobRuns /\ \A k \in Invokers \ {i} : inv'[k] = inv[k]
    BY <1>8, ReturnFields DEF Crash
  <2>2. CASE inv[i].pc \in Closing /\ inv[i].job = j
    BY <1>8, <2>2 DEF Crash, InCharge
  <2>3. CASE ~(inv[i].pc \in Closing /\ inv[i].job = j)
    <3>1. abandoned \subseteq abandoned'
      BY <1>8 DEF Crash
    <3> QED  BY <2>1, <2>3, <3>1, <1>others
  <2> QED  BY <2>2, <2>3
<1>9. CASE UNCHANGED vars
  BY <1>9, <1>before DEF vars, Observed
<1> QED  BY <1>1, <1>2, <1>3, <1>4, <1>5, <1>6, <1>7, <1>8, <1>9, StepKinds

\* A row stays 'running' only while a call is in charge of it, or after such a call died:
\* no way through the try block, the catch block and a resume leaves a run unclosed.
THEOREM RunsAreClosed == Spec => []NoRunIsForgotten
<1>1. Init => RunningRowsHaveACloser
  BY NoRowTyped DEF Init, RunningRowsHaveACloser
<1>2. RunningRowsHaveACloser => NoRunIsForgotten
  BY DEF RunningRowsHaveACloser, NoRunIsForgotten, Closing, InCharge
<1> QED  BY <1>1, <1>2, TypedInit, TypedStep, CloserStep, PTL DEF Spec
-----------------------------------------------------------------------------
(* A completed run returned; attempt_count counts calls. *)

RunsThatReturned ==
  /\ \A j \in Jobs : jobRuns[j].status = "completed" => j \in returned
  /\ \A i \in Invokers : inv[i].pc \in {"complete", "auditCompleted"} => inv[i].job \in returned

AttemptsCounted ==
  /\ \A j \in Jobs : jobRuns[j].attemptCount <= begun[j]
  /\ \A i \in Invokers : inv[i].pc = "markResumed" => inv[i].attempts <= begun[inv[i].job]

\* Neither is disturbed by a step that writes no row and moves its call elsewhere.
LEMMA QuietFacts ==
  ASSUME Typed, RunsThatReturned, AttemptsCounted, NEW i \in Invokers,
         \A k \in Invokers \ {i} : inv'[k] = inv[k],
         inv'[i].pc \notin {"complete", "auditCompleted", "markResumed"},
         UNCHANGED <<jobRuns, begun, returned>>
  PROVE  RunsThatReturned' /\ AttemptsCounted'
  BY DEF RunsThatReturned, AttemptsCounted

\* A new status does not either, when a completion comes from a call that has its result.
LEMMA StatusFacts ==
  ASSUME Typed, RunsThatReturned, AttemptsCounted, NEW i \in Invokers,
         inv[i].job \in Jobs, NEW pc \in {"auditCompleted", "auditFailed"}, Goto(i, pc),
         NEW status \in {"completed", "failed"}, SetStatus(inv[i].job, status),
         status = "completed" \/ pc = "auditCompleted" => inv[i].job \in returned,
         UNCHANGED <<begun, returned>>
  PROVE  RunsThatReturned' /\ AttemptsCounted'
<1>1. /\ inv'[i].pc = pc /\ inv'[i].job = inv[i].job
      /\ \A k \in Invokers \ {i} : inv'[k] = inv[k]
  BY GotoFields
<1>2. /\ jobRuns'[inv[i].job].status = status
      /\ jobRuns'[inv[i].job].attemptCount = jobRuns[inv[i].job].attemptCount
      /\ \A k \in Jobs \ {inv[i].job} : jobRuns'[k] = jobRuns[k]
  BY SetStatusFields
<1>3. RunsThatReturned'
  BY <1>1, <1>2 DEF RunsThatReturned
<1>4. AttemptsCounted'
  BY <1>1, <1>2 DEF AttemptsCounted
<1> QED  BY <1>3, <1>4

LEMMA FactsStep ==
  Typed /\ RunsThatReturned /\ AttemptsCounted /\ [Next]_vars => RunsThatReturned' /\ AttemptsCounted'
<1> SUFFICES ASSUME Typed, RunsThatReturned, AttemptsCounted, [Next]_vars
             PROVE  RunsThatReturned' /\ AttemptsCounted'
  OBVIOUS
<1>typed. /\ \A k \in Jobs : jobRuns[k].attemptCount \in Nat /\ begun[k] \in Nat
          /\ \A k \in Invokers : inv[k].attempts \in Nat
          /\ \A k \in Invokers : inv[k].pc \in NamesARun => inv[k].job \in Jobs
          /\ returned \subseteq Jobs
  BY TypedFacts DEF RunState, InvocationState
<1>1. ASSUME NEW i \in Invokers, \/ \E t \in JobTypes : Invoke(i, t)
                                 \/ \E t \in JobTypes, k \in Jobs : InvokeResume(i, t, k)
      PROVE  RunsThatReturned' /\ AttemptsCounted'
  <2>1. \A k \in Invokers \ {i} : inv'[k] = inv[k]
    BY <1>1, InvokedFields
  <2>2. inv'[i].pc \in {"guard", "readAttempts"}
    BY <1>1, InvokedFields
  <2>3. UNCHANGED <<jobRuns, begun, returned>>
    BY <1>1 DEF Invoke, InvokeResume, Observed
  <2> QED  BY <2>1, <2>2, <2>3, QuietFacts
<1>2. ASSUME NEW i \in Invokers,
             \/ Guard(i) \/ AuditStarted(i) \/ AuditCompleted(i) \/ Throws(i) \/ AuditFailed(i) \/ Crash(i)
      PROVE  RunsThatReturned' /\ AttemptsCounted'
  <2>1. UNCHANGED <<jobRuns, begun, returned>>
    BY <1>2 DEF Guard, AuditStarted, AuditCompleted, Throws, AuditFailed, Crash, Observed
  <2>2. Return(i) \/ \E pc \in {"start", "run", "fail"} : Goto(i, pc)
    BY <1>2 DEF Guard, AuditStarted, AuditCompleted, Throws, AuditFailed, Crash
  <2>3. inv'[i].pc \in {"idle", "start", "run", "fail"} /\ \A k \in Invokers \ {i} : inv'[k] = inv[k]
    BY <2>2, GotoFields, ReturnFields, IdleTyped
  <2> QED  BY <2>1, <2>3, QuietFacts
<1>3. ASSUME NEW i \in Invokers, NEW n \in Jobs, Start(i, n)
      PROVE  RunsThatReturned' /\ AttemptsCounted'
  <2>1. RunsThatReturned'
    BY <1>3, StartFields DEF RunsThatReturned
  <2>2. AttemptsCounted'
    <3>1. \A k \in Jobs : begun[k] <= begun'[k] /\ jobRuns'[k].attemptCount <= begun'[k]
      BY <1>3, <1>typed, StartFields DEF AttemptsCounted
    <3>2. \A k \in Invokers : inv'[k].pc = "markResumed" => inv'[k] = inv[k] /\ inv[k].job \in Jobs
      BY <1>3, <1>typed, StartFields DEF NamesARun
    <3> QED  BY <3>1, <3>2, <1>3, <1>typed, StartFields DEF AttemptsCounted
  <2> QED  BY <2>1, <2>2
<1>4. ASSUME NEW i \in Invokers, ReadAttempts(i)
      PROVE  RunsThatReturned' /\ AttemptsCounted'
  <2>1. RunsThatReturned'
    BY <1>4, ReadAttemptsFields DEF RunsThatReturned, Observed
  <2>2. AttemptsCounted'
    BY <1>4, ReadAttemptsFields DEF AttemptsCounted, Observed
  <2> QED  BY <2>1, <2>2
<1>5. ASSUME NEW i \in Invokers, MarkResumed(i)
      PROVE  RunsThatReturned' /\ AttemptsCounted'
  <2>1. RunsThatReturned'
    BY <1>5, MarkResumedFields DEF RunsThatReturned
  <2>2. AttemptsCounted'
    <3>0. inv[i].attempts <= begun[inv[i].job]
      BY <1>5 DEF MarkResumed, AttemptsCounted
    <3>1. \A k \in Jobs : begun[k] <= begun'[k] /\ jobRuns'[k].attemptCount <= begun'[k]
      BY <1>5, <3>0, <1>typed, MarkResumedFields DEF AttemptsCounted
    <3>2. \A k \in Invokers : inv'[k].pc = "markResumed" => inv'[k] = inv[k] /\ inv[k].job \in Jobs
      BY <1>5, <1>typed, MarkResumedFields DEF NamesARun
    <3> QED  BY <3>1, <3>2, <1>5, <1>typed, MarkResumedFields DEF AttemptsCounted
  <2> QED  BY <2>1, <2>2
<1>6. ASSUME NEW i \in Invokers, HandlerReturns(i)
      PROVE  RunsThatReturned' /\ AttemptsCounted'
  <2>1. Goto(i, "complete") /\ returned' = returned \cup {inv[i].job} /\ UNCHANGED <<jobRuns, begun>>
    BY <1>6 DEF HandlerReturns
  <2>2. RunsThatReturned'
    BY <2>1, GotoFields DEF RunsThatReturned
  <2>3. AttemptsCounted'
    BY <2>1, GotoFields DEF AttemptsCounted
  <2> QED  BY <2>2, <2>3
<1>7. ASSUME NEW i \in Invokers, Complete(i)
      PROVE  RunsThatReturned' /\ AttemptsCounted'
  <2>1. inv[i].job \in returned /\ inv[i].job \in Jobs
    BY <1>7, <1>typed DEF Complete, RunsThatReturned
  <2> QED  BY <1>7, <2>1, StatusFacts DEF Complete, Observed
<1>8. ASSUME NEW i \in Invokers, Fail(i)
      PROVE  RunsThatReturned' /\ AttemptsCounted'
  <2>1. inv[i].job \in Jobs
    BY <1>8, <1>typed DEF Fail, NamesARun, InCharge
  <2> QED  BY <1>8, <2>1, StatusFacts DEF Fail, Observed
<1>9. CASE UNCHANGED vars
  BY <1>9 DEF vars, Observed, RunsThatReturned, AttemptsCounted
<1> QED  BY <1>1, <1>2, <1>3, <1>4, <1>5, <1>6, <1>7, <1>8, <1>9, StepKinds

LEMMA FactsInit == Init => RunsThatReturned /\ AttemptsCounted
  BY NoRowTyped, IdleTyped DEF Init, RunsThatReturned, AttemptsCounted, NoRow, Idle

\* A run is closed as completed only after its handler returned, even when a resumed run has
\* two calls in charge of it.
THEOREM CompletionsAreEarned == Spec => []CompletedRunsReturned
<1>1. RunsThatReturned => CompletedRunsReturned
  BY DEF RunsThatReturned, CompletedRunsReturned
<1> QED  BY <1>1, TypedInit, TypedStep, FactsInit, FactsStep, PTL DEF Spec

\* attempt_count never claims more attempts than calls that took charge of the run, however the
\* read and the write of overlapping markResumed calls interleave.
THEOREM AttemptsAreReal == Spec => []AttemptsWereMade
<1>1. AttemptsCounted => AttemptsWereMade
  BY DEF AttemptsCounted, AttemptsWereMade
<1> QED  BY <1>1, TypedInit, TypedStep, FactsInit, FactsStep, PTL DEF Spec
-----------------------------------------------------------------------------
(* How far calls that pass the guard together can exceed one run per job type. *)

\* Calls past the guard that have not inserted their row.
AboutToStart(t) == {i \in Invokers : inv[i].pc = "start" /\ inv[i].jobType = t}

FreshAndComing(t) == Cardinality(FreshInProgress(t)) + Cardinality(AboutToStart(t))

FreshBudget == \A t \in JobTypes : FreshAndComing(t) <= Cardinality(Invokers)

LEMMA FiniteSets ==
  ASSUME NEW t
  PROVE  /\ FreshInProgress(t) \subseteq Jobs /\ IsFiniteSet(FreshInProgress(t))
         /\ AboutToStart(t) \subseteq Invokers /\ IsFiniteSet(AboutToStart(t))
<1>1. FreshInProgress(t) \subseteq Jobs /\ AboutToStart(t) \subseteq Invokers
  BY DEF FreshInProgress, InProgress, AboutToStart
<1> QED  BY <1>1, JobsAssumption, InvokersAssumption, FS_Subset

LEMMA FiniteNumbers ==
  ASSUME NEW t
  PROVE  /\ Cardinality(FreshInProgress(t)) \in Nat /\ Cardinality(AboutToStart(t)) \in Nat
         /\ Cardinality(AboutToStart(t)) <= Cardinality(Invokers)
         /\ Cardinality(Invokers) \in Nat
  BY FiniteSets, InvokersAssumption, FS_CardinalityType, FS_Subset

\* The budget of a job type is kept while its two sets only shrink.
LEMMA ShrinkingBudget ==
  ASSUME NEW t, FreshAndComing(t) <= Cardinality(Invokers),
         FreshInProgress(t)' \subseteq FreshInProgress(t), AboutToStart(t)' \subseteq AboutToStart(t)
  PROVE  FreshAndComing(t)' <= Cardinality(Invokers)
<1>1. /\ Cardinality(FreshInProgress(t)') <= Cardinality(FreshInProgress(t))
      /\ Cardinality(AboutToStart(t)') <= Cardinality(AboutToStart(t))
      /\ Cardinality(FreshInProgress(t)') \in Nat /\ Cardinality(AboutToStart(t)') \in Nat
  BY FiniteSets, FS_Subset, FS_CardinalityType
<1> QED  BY <1>1, FiniteNumbers DEF FreshAndComing

LEMMA BudgetStep == Typed /\ FreshBudget /\ [Next]_vars => FreshBudget'
<1> SUFFICES ASSUME Typed, FreshBudget, [Next]_vars, NEW t \in JobTypes
             PROVE  FreshAndComing(t)' <= Cardinality(Invokers)
  BY DEF FreshBudget
<1>before. FreshAndComing(t) <= Cardinality(Invokers)
  BY DEF FreshBudget
\* Rows that stay as they are, leave 'running', or are resumed; a call that is not sent to "start".
<1>rows. ASSUME \A j \in Jobs : \/ jobRuns'[j] = jobRuns[j]
                                \/ jobRuns'[j].status # "running"
                                \/ jobRuns'[j].attemptCount # 1
         PROVE  FreshInProgress(t)' \subseteq FreshInProgress(t)
  BY <1>rows DEF FreshInProgress, InProgress
<1>calls. ASSUME NEW i \in Invokers, \A k \in Invokers \ {i} : inv'[k] = inv[k], inv'[i].pc # "start"
          PROVE  AboutToStart(t)' \subseteq AboutToStart(t)
  BY <1>calls DEF AboutToStart
<1>quiet. ASSUME NEW i \in Invokers, \A k \in Invokers \ {i} : inv'[k] = inv[k], inv'[i].pc # "start",
                 UNCHANGED jobRuns
          PROVE  FreshAndComing(t)' <= Cardinality(Invokers)
  BY <1>quiet, <1>rows, <1>calls, <1>before, ShrinkingBudget
<1>1. ASSUME NEW i \in Invokers, \/ \E u \in JobTypes : Invoke(i, u)
                                 \/ \E u \in JobTypes, k \in Jobs : InvokeResume(i, u, k)
      PROVE  FreshAndComing(t)' <= Cardinality(Invokers)
  <2>1. \A k \in Invokers \ {i} : inv'[k] = inv[k]
    BY <1>1, InvokedFields
  <2>2. inv'[i].pc \in {"guard", "readAttempts"}
    BY <1>1, InvokedFields
  <2>3. UNCHANGED jobRuns
    BY <1>1 DEF Invoke, InvokeResume
  <2> QED  BY <2>1, <2>2, <2>3, <1>quiet
<1>2. ASSUME NEW i \in Invokers, Guard(i)
      PROVE  FreshAndComing(t)' <= Cardinality(Invokers)
  <2>1. UNCHANGED jobRuns
    BY <1>2 DEF Guard
  <2>2. CASE Return(i)
    BY <2>1, <2>2, ReturnFields, IdleTyped, <1>quiet
  <2>3. CASE Goto(i, "start") /\ InProgress(inv[i].jobType) = {}
    <3>1. /\ inv'[i].jobType = inv[i].jobType
          /\ \A k \in Invokers \ {i} : inv'[k] = inv[k]
      BY <2>3, GotoFields
    <3>2. CASE inv[i].jobType = t
      <4>1. FreshInProgress(t)' = {}
        BY <2>1, <2>3, <3>2 DEF FreshInProgress, InProgress
      <4>2. Cardinality(FreshInProgress(t)') = 0
        BY <4>1, FS_EmptySet
      <4>3. AboutToStart(t)' \subseteq Invokers
        BY DEF AboutToStart
      <4>4. Cardinality(AboutToStart(t)') <= Cardinality(Invokers) /\ Cardinality(AboutToStart(t)') \in Nat
        BY <4>3, InvokersAssumption, FS_Subset, FS_CardinalityType
      <4> QED  BY <4>2, <4>4 DEF FreshAndComing
    <3>3. CASE inv[i].jobType # t
      <4>1. AboutToStart(t)' \subseteq AboutToStart(t)
        BY <3>1, <3>3 DEF AboutToStart
      <4> QED  BY <2>1, <4>1, <1>rows, <1>before, ShrinkingBudget
    <3> QED  BY <3>2, <3>3
  <2> QED  BY <1>2, <2>2, <2>3 DEF Guard
<1>3. ASSUME NEW i \in Invokers, NEW n \in Jobs, Start(i, n)
      PROVE  FreshAndComing(t)' <= Cardinality(Invokers)
  <2>1. inv[i].pc = "start"
    BY <1>3 DEF Start
  <2>2. AboutToStart(t)' \subseteq AboutToStart(t) \ {i}
    BY <1>3, StartFields DEF AboutToStart
  <2>3. CASE inv[i].jobType = t
    <3>1. FreshInProgress(t)' \subseteq FreshInProgress(t) \cup {n}
      BY <1>3, StartFields DEF FreshInProgress, InProgress
    <3>2. i \in AboutToStart(t)
      BY <2>1, <2>3 DEF AboutToStart
    <3>3. /\ Cardinality(FreshInProgress(t) \cup {n}) <= Cardinality(FreshInProgress(t)) + 1
          /\ IsFiniteSet(FreshInProgress(t) \cup {n})
          /\ Cardinality(FreshInProgress(t) \cup {n}) \in Nat
      <4>1. IsFiniteSet(FreshInProgress(t)) /\ Cardinality(FreshInProgress(t)) \in Nat
        BY FiniteSets, FiniteNumbers
      <4>2. /\ IsFiniteSet(FreshInProgress(t) \cup {n})
            /\ \/ Cardinality(FreshInProgress(t) \cup {n}) = Cardinality(FreshInProgress(t))
               \/ Cardinality(FreshInProgress(t) \cup {n}) = Cardinality(FreshInProgress(t)) + 1
        BY <4>1, FS_AddElement
      <4> QED  BY <4>1, <4>2
    <3>4. /\ Cardinality(AboutToStart(t) \ {i}) = Cardinality(AboutToStart(t)) - 1
          /\ IsFiniteSet(AboutToStart(t) \ {i})
      BY <3>2, FiniteSets, FS_RemoveElement
    <3>5. /\ Cardinality(FreshInProgress(t)') <= Cardinality(FreshInProgress(t) \cup {n})
          /\ Cardinality(FreshInProgress(t)') \in Nat
      BY <3>1, <3>3, FS_Subset, FS_CardinalityType
    <3>6. /\ Cardinality(AboutToStart(t)') <= Cardinality(AboutToStart(t) \ {i})
          /\ Cardinality(AboutToStart(t)') \in Nat
      BY <2>2, <3>4, FS_Subset, FS_CardinalityType
    <3> HIDE DEF FreshInProgress, AboutToStart
    <3> QED  BY <3>3, <3>4, <3>5, <3>6, <1>before, FiniteNumbers DEF FreshAndComing
  <2>4. CASE inv[i].jobType # t
    <3>1. FreshInProgress(t)' \subseteq FreshInProgress(t)
      BY <1>3, <2>4, StartFields DEF FreshInProgress, InProgress
    <3> QED  BY <2>2, <3>1, <1>before, ShrinkingBudget
  <2> QED  BY <2>3, <2>4
<1>4. ASSUME NEW i \in Invokers, ReadAttempts(i)
      PROVE  FreshAndComing(t)' <= Cardinality(Invokers)
  BY <1>4, ReadAttemptsFields, <1>quiet
<1>5. ASSUME NEW i \in Invokers, MarkResumed(i)
      PROVE  FreshAndComing(t)' <= Cardinality(Invokers)
  <2>1. inv[i].attempts \in Nat /\ inv[i].attempts > 0
    BY <1>5, TypedFacts DEF MarkResumed, InvocationState
  <2>2. \A j \in Jobs : jobRuns'[j] = jobRuns[j] \/ jobRuns'[j].attemptCount # 1
    BY <1>5, <2>1, MarkResumedFields
  <2>3. \A k \in Invokers \ {i} : inv'[k] = inv[k]
    BY <1>5, MarkResumedFields
  <2>4. inv'[i].pc # "start"
    BY <1>5, MarkResumedFields
  <2> QED  BY <2>2, <2>3, <2>4, <1>rows, <1>calls, <1>before, ShrinkingBudget
<1>6. ASSUME NEW i \in Invokers, AuditStarted(i) \/ HandlerReturns(i) \/ Throws(i)
      PROVE  FreshAndComing(t)' <= Cardinality(Invokers)
  <2>1. PICK pc \in {"run", "complete", "fail"} : Goto(i, pc) /\ UNCHANGED jobRuns
    BY <1>6 DEF AuditStarted, HandlerReturns, Throws
  <2> QED  BY <2>1, GotoFields, <1>quiet
<1>7. ASSUME NEW i \in Invokers, Complete(i) \/ Fail(i)
      PROVE  FreshAndComing(t)' <= Cardinality(Invokers)
  <2>1. PICK pc \in {"auditCompleted", "auditFailed"}, status \in {"completed", "failed"} :
          Goto(i, pc) /\ SetStatus(inv[i].job, status)
    BY <1>7 DEF Complete, Fail
  <2>2. inv[i].job \in Jobs
    BY <1>7, TypedFacts DEF Complete, Fail, NamesARun, InCharge
  <2>3. \A j \in Jobs : jobRuns'[j] = jobRuns[j] \/ jobRuns'[j].status # "running"
    BY <2>1, <2>2, SetStatusFields
  <2>4. inv'[i].pc # "start" /\ \A k \in Invokers \ {i} : inv'[k] = inv[k]
    BY <2>1, GotoFields
  <2> QED  BY <2>3, <2>4, <1>rows, <1>calls, <1>before, ShrinkingBudget
<1>8. ASSUME NEW i \in Invokers, AuditCompleted(i) \/ AuditFailed(i) \/ Crash(i)
      PROVE  FreshAndComing(t)' <= Cardinality(Invokers)
  <2>1. Return(i) /\ UNCHANGED jobRuns
    BY <1>8 DEF AuditCompleted, AuditFailed, Crash
  <2> QED  BY <2>1, ReturnFields, IdleTyped, <1>quiet
<1>9. CASE UNCHANGED vars
  BY <1>9, <1>before, ShrinkingBudget DEF vars, FreshInProgress, InProgress, AboutToStart
<1> QED  BY <1>1, <1>2, <1>3, <1>4, <1>5, <1>6, <1>7, <1>8, <1>9, StepKinds

LEMMA BudgetInit == Init => FreshBudget
<1> SUFFICES ASSUME Init, NEW t \in JobTypes PROVE FreshAndComing(t) <= Cardinality(Invokers)
  BY DEF FreshBudget
<1>1. FreshInProgress(t) = {}
  BY NoRowTyped DEF Init, FreshInProgress, InProgress
<1>2. Cardinality(FreshInProgress(t)) = 0
  BY <1>1, FS_EmptySet
<1> QED  BY <1>2, FiniteNumbers DEF FreshAndComing

\* The guard's read and the insert are separate accesses, so overlapping calls may all pass it;
\* still, no job type has more running rows nobody resumed than there are invokers, which with
\* one invoker is the "one run per job type at a time" of the scheduler's header.
THEOREM FreshRunsStayBounded == Spec => []FreshRunsBounded
<1>1. FreshBudget => FreshRunsBounded
  BY FiniteNumbers DEF FreshBudget, FreshAndComing, FreshRunsBounded
<1> QED  BY <1>1, TypedInit, TypedStep, BudgetInit, BudgetStep, PTL DEF Spec
-----------------------------------------------------------------------------
(* The settings.  What a row holds and what a call that writes one has     *)
(* still to do: a seeding works off the rest of SeedOrder, and every key   *)
(* before that rest has a row, as has every key that had one at the start. *)

Writers == Boots \cup People

\* The keys from the i-th on.
LeftFrom(i) == SubSeq(SeedOrder, i, Len(SeedOrder))

\* A call in progress; an edit has no environment of its own.
Calls == [pc: {"idle", "read", "select", "write"}, todo: Seq(Keys), value: Texts,
          updatedBy: {"system:boot-seed", "operator"}, exists: BOOLEAN,
          env: Envs \cup {CHOOSE e \in Envs : TRUE}, present: SUBSET Keys]

Seeding(c) ==
  /\ c \in Calls
  /\ c.updatedBy = "system:boot-seed"
  /\ c.pc \in {"read", "select", "write"}
  /\ c.env \in Envs
  /\ \E i \in DOMAIN SeedOrder :
       /\ c.todo = LeftFrom(i)
       /\ \A j \in DOMAIN SeedOrder : j < i => IsSet(SeedOrder[j])
       /\ c.pc # "read" => /\ c.value = Defaults(c.env)[SeedOrder[i]]
                           /\ SeedOrder[i] \notin c.present
  /\ \A k \in Keys : k \in c.present => IsSet(k)

Editing(c) ==
  /\ c \in Calls
  /\ c.updatedBy = "operator"
  /\ c.pc \in {"select", "write"}
  /\ c.value \in Texts
  /\ \E k \in Keys : c.todo = <<k>> /\ (k = "founder_queries" => c.value \in Lists)

\* A row that was seeded holds a default, and every key before it in the order has a row too.
SeededRows ==
  \A i \in DOMAIN SeedOrder : stored[SeedOrder[i]].updatedBy = "system:boot-seed" =>
    /\ \E env \in Envs : stored[SeedOrder[i]].value = Defaults(env)[SeedOrder[i]]
    /\ \A j \in DOMAIN SeedOrder : j < i => IsSet(SeedOrder[j])

\* What JSON.parse will be given is a list.
QueriesAreLists == IsSet("founder_queries") => stored["founder_queries"].value \in Lists

ConfigInv ==
  /\ stored \in [Keys -> Rows \cup {Absent}]
  /\ DOMAIN writer = Writers
  /\ \A w \in Writers : writer[w] = NoWriter \/ Seeding(writer[w]) \/ Editing(writer[w])
  /\ SeededRows
  /\ QueriesAreLists

\* A row that is set is a row.
LEMMA RowsAreSet ==
  /\ Absent.updatedBy = "none"
  /\ \A r \in Rows : r.updatedBy # "none" /\ r # Absent
<1>1. Absent.updatedBy = "none"
  BY DEF Absent
<1>2. \A r \in Rows : r.updatedBy # "none"
  BY DEF Rows
<1> QED  BY <1>1, <1>2

LEMMA NoWriterFields ==
  NoWriter \in Calls /\ NoWriter.pc = "idle" /\ NoWriter.updatedBy = "operator"
<1>1. PICK e : e = CHOOSE x \in Envs : TRUE
  OBVIOUS
<1>2. "0" \in Texts /\ <<>> \in Seq(Keys) /\ {} \in SUBSET Keys
  BY DEF Texts, Numeral
<1>3. NoWriter = [pc |-> "idle", todo |-> <<>>, value |-> "0", updatedBy |-> "operator",
                  exists |-> FALSE, env |-> e, present |-> {}]
  BY <1>1 DEF NoWriter
<1> QED  BY <1>1, <1>2, <1>3 DEF Calls

LEMMA TheOrder ==
  /\ DOMAIN SeedOrder = 1..5 /\ Len(SeedOrder) = 5
  /\ SeedOrder[1] = "automation_mode" /\ SeedOrder[2] = "kill_switch"
  /\ SeedOrder[3] = "daily_limit" /\ SeedOrder[4] = "founder_queries"
  /\ SeedOrder[5] = "max_profiles"
  /\ \A i \in DOMAIN SeedOrder : SeedOrder[i] \in Keys /\ SeedOrder[i] \in Seeded
  /\ \A i, j \in DOMAIN SeedOrder : SeedOrder[i] = SeedOrder[j] => i = j
  /\ SeedOrder = LeftFrom(1)
BY DEF SeedOrder, LeftFrom, Keys, Seeded

LEMMA WhatIsLeft ==
  ASSUME NEW i \in DOMAIN SeedOrder
  PROVE  /\ Len(LeftFrom(i)) = 6 - i
         /\ Head(LeftFrom(i)) = SeedOrder[i]
         /\ i < 5 => Tail(LeftFrom(i)) = LeftFrom(i + 1)
<1>1. i \in 1..5 /\ Len(SeedOrder) = 5
  BY TheOrder
<1>2. LeftFrom(i) = [j \in 1..(6 - i) |-> SeedOrder[i + j - 1]]
  BY <1>1 DEF LeftFrom, SeedOrder
<1> QED  BY <1>1, <1>2 DEF LeftFrom, SeedOrder

\* What is seeded and what is saved is text.
LEMMA DefaultsAreTexts ==
  ASSUME NEW env \in Envs, NEW k \in Seeded
  PROVE  Defaults(env)[k] \in Texts
<1>1. env \in Env
  BY EnvsAssumption
<1>2. Text(Default.max_profiles) \in DOMAIN Numeral
  BY DEF Text, Default, Numeral
<1>3. \A t \in DOMAIN Numeral \cup AutomationModes \cup Lists \cup {"true", "false"} : t \in Texts
  BY DEF Texts
<1>4. /\ env.automation_mode \in AutomationModes /\ env.kill_switch \in {"true", "false"}
      /\ env.daily_limit \in DOMAIN Numeral /\ Default.founder_queries \in Lists
  BY <1>1 DEF Env, Default, Lists
<1>5. \/ Defaults(env)[k] \in {env.automation_mode, env.kill_switch, env.daily_limit}
      \/ Defaults(env)[k] \in {Default.founder_queries, Text(Default.max_profiles)}
  BY DEF Defaults, Seeded
<1> QED  BY <1>2, <1>3, <1>4, <1>5

LEMMA EditsAreTexts ==
  ASSUME NEW e \in Edits
  PROVE  /\ e[1] \in Keys /\ Written(e[1], e[2]) \in Texts
         /\ e[1] = "founder_queries" => Written(e[1], e[2]) \in Lists
<1>1. /\ e[1] \in Keys /\ e[2] \in Texts
      /\ e[1] \in {"daily_limit", "max_items"} => e[2] \in DOMAIN Numeral \cup {"NaN"}
      /\ e[1] = "founder_queries" => e[2] \in Lists
  BY EditsAssumption
<1>2. Text(0) \in DOMAIN Numeral /\ Text(1) \in DOMAIN Numeral
  BY DEF Text, Numeral
<1> QED  BY <1>1, <1>2 DEF Written, AtLeast, Texts

LEMMA SettingsInit == ConfigInit => ConfigInv
<1> SUFFICES ASSUME ConfigInit PROVE ConfigInv
  OBVIOUS
<1>1. SeededRows
  BY TheOrder DEF ConfigInit, SeededRows, Absent
<1>2. QueriesAreLists
  BY DEF ConfigInit, QueriesAreLists, IsSet, Keys, Seeded
<1> QED  BY <1>1, <1>2 DEF ConfigInit, ConfigInv, Writers

\* A key that is done with leaves the rest of the order, or nothing.
LEMMA OnwardFields ==
  ASSUME NEW c \in Calls
  PROVE  /\ \A k : c.todo = <<k>> => Onward(c) = NoWriter
         /\ \A i \in DOMAIN SeedOrder : c.todo = LeftFrom(i) =>
              \/ i = 5 /\ Onward(c) = NoWriter
              \/ /\ i < 5 /\ Onward(c) \in Calls /\ Onward(c).pc = "read"
                 /\ Onward(c).todo = LeftFrom(i + 1) /\ Onward(c).updatedBy = c.updatedBy
                 /\ Onward(c).env = c.env /\ Onward(c).present = c.present
<1>1. ASSUME NEW k, c.todo = <<k>> PROVE Onward(c) = NoWriter
  BY <1>1 DEF Onward
<1>2. ASSUME NEW i \in DOMAIN SeedOrder, c.todo = LeftFrom(i), i = 5 PROVE Onward(c) = NoWriter
  BY <1>2, WhatIsLeft DEF Onward
<1>3. ASSUME NEW i \in DOMAIN SeedOrder, c.todo = LeftFrom(i), i # 5
      PROVE  /\ i < 5 /\ Onward(c) \in Calls /\ Onward(c).pc = "read"
             /\ Onward(c).todo = LeftFrom(i + 1) /\ Onward(c).updatedBy = c.updatedBy
             /\ Onward(c).env = c.env /\ Onward(c).present = c.present
  <2>1. i \in 1..5 /\ i < 5 /\ ~(Len(c.todo) <= 1) /\ Tail(c.todo) = LeftFrom(i + 1)
    BY <1>3, WhatIsLeft, TheOrder
  <2>2. Onward(c) = [c EXCEPT !.pc = "read", !.todo = LeftFrom(i + 1)]
    BY <2>1 DEF Onward
  <2>3. LeftFrom(i + 1) \in Seq(Keys)
    BY <2>1, TheOrder, WhatIsLeft DEF LeftFrom, SeedOrder, Keys, Seeded
  <2> QED  BY <2>1, <2>2, <2>3 DEF Calls
<1> QED  BY <1>1, <1>2, <1>3

\* A step of one call that writes no row.
LEMMA SettingCallStep ==
  ASSUME ConfigInv, NEW w \in Writers, NEW c, Becomes(w, c), UNCHANGED stored,
         c = NoWriter \/ Seeding(c) \/ Editing(c)
  PROVE  ConfigInv'
<1>1. \A v \in Writers : writer'[v] = IF v = w THEN c ELSE writer[v]
  BY DEF Becomes, ConfigInv
<1>2. \A v \in Writers : writer'[v] = NoWriter \/ Seeding(writer'[v]) \/ Editing(writer'[v])
  BY <1>1 DEF ConfigInv
<1>3. \A v \in Writers : (writer[v] = NoWriter \/ Seeding(writer[v]) \/ Editing(writer[v]))'
  BY <1>2 DEF Seeding, Editing, IsSet
<1>4. SeededRows' /\ QueriesAreLists'
  BY DEF ConfigInv, SeededRows, QueriesAreLists, IsSet
<1> QED  BY <1>3, <1>4 DEF ConfigInv, Becomes

\* The step of one call that writes a row: no row is taken away by it.
LEMMA SettingRowStep ==
  ASSUME ConfigInv, NEW w \in Writers, NEW k \in Keys, NEW row \in Rows, NEW c,
         Becomes(w, c), stored' = [stored EXCEPT ![k] = row],
         c = NoWriter \/ Seeding(c)', SeededRows', k = "founder_queries" => row.value \in Lists
  PROVE  ConfigInv'
<1>1. \A j \in Keys : IsSet(j) => IsSet(j)'
  BY RowsAreSet DEF ConfigInv, IsSet
<1>2. ASSUME NEW v \in Writers, v # w
      PROVE  (writer[v] = NoWriter \/ Seeding(writer[v]) \/ Editing(writer[v]))'
  <2>1. writer'[v] = writer[v]
    BY <1>2 DEF Becomes, ConfigInv
  <2>2. writer[v] = NoWriter \/ Seeding(writer[v]) \/ Editing(writer[v])
    BY DEF ConfigInv
  <2> QED  BY <1>1, <2>1, <2>2, TheOrder DEF Seeding, Editing
<1>3. (writer[w] = NoWriter \/ Seeding(writer[w]) \/ Editing(writer[w]))'
  <2>1. writer'[w] = c
    BY DEF Becomes, ConfigInv
  <2>2. CASE c = NoWriter
    BY <2>1, <2>2
  <2>3. CASE Seeding(c)'
    BY <2>1, <2>3 DEF Seeding
  <2> QED  BY <2>2, <2>3
<1>4. stored' \in [Keys -> Rows \cup {Absent}]
  BY DEF ConfigInv
<1>5. QueriesAreLists'
  <2>1. "founder_queries" \in Keys
    BY DEF Keys, Seeded
  <2>2. k = "founder_queries" \/ stored'["founder_queries"] = stored["founder_queries"]
    BY <2>1 DEF ConfigInv
  <2>3. k = "founder_queries" => stored'["founder_queries"] = row
    BY <2>1 DEF ConfigInv
  <2> QED  BY <2>2, <2>3 DEF ConfigInv, QueriesAreLists, IsSet
<1> QED  BY <1>2, <1>3, <1>4, <1>5 DEF ConfigInv, Becomes

LEMMA SettingsStep ==
  ASSUME ConfigInv, [ConfigNext]_configVars
  PROVE  ConfigInv'
<1>0. \A w \in Writers : writer[w] = NoWriter \/ Seeding(writer[w]) \/ Editing(writer[w])
  BY DEF ConfigInv
<1>1. ASSUME NEW b \in Boots, ReadKey(b) PROVE ConfigInv'
  <2> DEFINE c == writer[b]
  <2>1. Seeding(c) /\ b \in Writers /\ UNCHANGED stored /\ c.pc = "read"
    BY <1>0, <1>1, NoWriterFields DEF ReadKey, Editing, Writers
  <2>2. PICK i \in DOMAIN SeedOrder :
          /\ c.todo = LeftFrom(i)
          /\ \A j \in DOMAIN SeedOrder : j < i => IsSet(SeedOrder[j])
    BY <2>1 DEF Seeding
  <2>3. Head(c.todo) = SeedOrder[i] /\ i \in 1..5
    BY <2>2, WhatIsLeft, TheOrder
  <2>4. CASE IsSet(SeedOrder[i])
    <3>1. Becomes(b, Onward(c))
      BY <1>1, <2>3, <2>4 DEF ReadKey
    <3>2. Onward(c) = NoWriter \/ Seeding(Onward(c))
      <4>1. ASSUME i < 5, Onward(c) \in Calls, Onward(c).pc = "read", Onward(c).todo = LeftFrom(i + 1),
                   Onward(c).updatedBy = c.updatedBy, Onward(c).env = c.env,
                   Onward(c).present = c.present
            PROVE  Seeding(Onward(c))
        <5>1. i + 1 \in DOMAIN SeedOrder
              /\ \A j \in DOMAIN SeedOrder : j < i + 1 => IsSet(SeedOrder[j])
          BY <2>2, <2>3, <2>4, <4>1, TheOrder
        <5> HIDE DEF c
        <5> QED  BY <2>1, <4>1, <5>1 DEF Seeding
      <4>2. c \in Calls
        BY <2>1 DEF Seeding
      <4> QED  BY <2>2, <4>1, <4>2, OnwardFields
    <3> QED  BY <2>1, <3>1, <3>2, SettingCallStep
  <2>5. CASE ~IsSet(SeedOrder[i])
    <3> DEFINE n == [c EXCEPT !.pc = "select", !.value = Defaults(c.env)[SeedOrder[i]]]
    <3>1. Becomes(b, n)
      BY <1>1, <2>3, <2>5 DEF ReadKey
    <3>0. c \in Calls /\ Defaults(c.env)[SeedOrder[i]] \in Texts
      BY <2>1, TheOrder, DefaultsAreTexts DEF Seeding
    <3>2. /\ n \in Calls /\ n.pc = "select" /\ n.value = Defaults(n.env)[SeedOrder[i]]
          /\ n.todo = c.todo /\ n.env = c.env /\ n.present = c.present /\ n.updatedBy = c.updatedBy
      BY <3>0 DEF Calls
    <3>3. SeedOrder[i] \notin c.present
      BY <2>1, <2>5, TheOrder DEF Seeding
    <3> HIDE DEF n, c
    <3>4. Seeding(n)
      BY <2>1, <2>2, <3>2, <3>3 DEF Seeding
    <3> QED  BY <2>1, <3>1, <3>4, SettingCallStep
  <2> QED  BY <2>4, <2>5
<1>2. ASSUME NEW b \in Boots, NEW env \in Envs, Boot(b, env) PROVE ConfigInv'
  <2> DEFINE c == [NoWriter EXCEPT !.pc = "read", !.todo = SeedOrder, !.updatedBy = "system:boot-seed",
                                   !.env = env, !.present = {k \in Seeded : IsSet(k)}]
  <2>1. /\ c \in Calls /\ c.pc = "read" /\ c.todo = LeftFrom(1) /\ c.updatedBy = "system:boot-seed"
        /\ c.env = env /\ c.present = {k \in Seeded : IsSet(k)}
    <3>1. SeedOrder \in Seq(Keys) /\ SeedOrder = LeftFrom(1)
      BY TheOrder DEF SeedOrder, Keys, Seeded
    <3>2. {k \in Seeded : IsSet(k)} \in SUBSET Keys
      BY DEF Keys
    <3> QED  BY <3>1, <3>2, NoWriterFields DEF Calls
  <2>2. Becomes(b, c) /\ UNCHANGED stored /\ b \in Writers
    BY <1>2 DEF Boot, Writers
  <2> HIDE DEF c
  <2>3. Seeding(c)
    BY <2>1, TheOrder DEF Seeding
  <2> QED  BY <2>2, <2>3, SettingCallStep
<1>3. ASSUME NEW h \in People, NEW e \in Edits, Edit(h, e[1], e[2]) PROVE ConfigInv'
  <2> DEFINE c == [NoWriter EXCEPT !.pc = "select", !.todo = <<e[1]>>, !.value = Written(e[1], e[2])]
  <2>1. /\ c \in Calls /\ c.pc = "select" /\ c.todo = <<e[1]>> /\ c.updatedBy = "operator"
        /\ c.value = Written(e[1], e[2])
    <3>1. PICK k, t : k = e[1] /\ t = Written(e[1], e[2])
      OBVIOUS
    <3>2. k \in Keys /\ t \in Texts /\ <<k>> \in Seq(Keys)
      BY <3>1, EditsAreTexts
    <3> QED  BY <3>1, <3>2, NoWriterFields DEF Calls
  <2>2. Becomes(h, c) /\ UNCHANGED stored /\ h \in Writers
    BY <1>3 DEF Edit, Writers
  <2> HIDE DEF c
  <2>3. Editing(c)
    BY <2>1, EditsAreTexts DEF Editing
  <2> QED  BY <2>2, <2>3, SettingCallStep
<1>4. ASSUME NEW w \in Writers, Select(w) PROVE ConfigInv'
  <2>1. PICK x \in BOOLEAN : x = IsSet(Head(writer[w].todo))
    BY DEF IsSet
  <2> DEFINE c == [writer[w] EXCEPT !.pc = "write", !.exists = x]
  <2>2. Becomes(w, c) /\ UNCHANGED stored /\ writer[w].pc = "select"
    BY <1>4, <2>1 DEF Select
  <2>3. writer[w] \in Calls
    BY <1>0, <2>2, NoWriterFields DEF Seeding, Editing
  <2>4. /\ c \in Calls /\ c.pc = "write" /\ c.todo = writer[w].todo /\ c.value = writer[w].value
        /\ c.updatedBy = writer[w].updatedBy /\ c.env = writer[w].env
        /\ c.present = writer[w].present
    BY <2>3 DEF Calls
  <2>5. writer[w] # NoWriter
    BY <2>2, NoWriterFields
  <2> HIDE DEF c
  <2>6. Seeding(c) \/ Editing(c)
    BY <1>0, <2>2, <2>4, <2>5 DEF Seeding, Editing
  <2> QED  BY <2>2, <2>6, SettingCallStep
<1>5. ASSUME NEW w \in Writers, Write(w) PROVE ConfigInv'
  <2>1. PICK c, k, row : /\ c = writer[w] /\ k = Head(c.todo)
                         /\ row = [value |-> c.value, updatedBy |-> c.updatedBy]
    OBVIOUS
  <2>2. c.pc = "write" /\ (Seeding(c) \/ Editing(c))
    BY <1>0, <1>5, <2>1, NoWriterFields DEF Write
  <2>3. CASE Becomes(w, NoWriter) /\ UNCHANGED stored
    BY <2>3, SettingCallStep
  <2>4. ASSUME Becomes(w, Onward(c)), stored' = [stored EXCEPT ![k] = row], Seeding(c)
        PROVE  ConfigInv'
    <3>1. PICK i \in DOMAIN SeedOrder :
            /\ c.todo = LeftFrom(i)
            /\ \A j \in DOMAIN SeedOrder : j < i => IsSet(SeedOrder[j])
            /\ c.value = Defaults(c.env)[SeedOrder[i]]
      BY <2>2, <2>4 DEF Seeding
    <3>2. /\ k = SeedOrder[i] /\ i \in 1..5 /\ k \in Keys /\ k \in Seeded
          /\ c.updatedBy = "system:boot-seed" /\ c.env \in Envs /\ c \in Calls
      BY <2>1, <2>4, <3>1, WhatIsLeft, TheOrder DEF Seeding
    <3>3. /\ row \in Rows /\ row # Absent
          /\ row.updatedBy = "system:boot-seed" /\ row.value = c.value
      BY <2>1, <3>1, <3>2, DefaultsAreTexts, RowsAreSet DEF Rows
    <3>4. stored'[k] = row /\ \A j \in Keys \ {k} : stored'[j] = stored[j]
      BY <2>4, <3>2 DEF ConfigInv
    <3>5. IsSet(k)' /\ \A j \in Keys : IsSet(j) => IsSet(j)'
      BY <3>3, <3>4 DEF IsSet
    <3>6. SeededRows'
      <4> SUFFICES ASSUME NEW n \in DOMAIN SeedOrder,
                          stored'[SeedOrder[n]].updatedBy = "system:boot-seed"
                   PROVE  /\ \E env \in Envs : stored'[SeedOrder[n]].value = Defaults(env)[SeedOrder[n]]
                          /\ \A j \in DOMAIN SeedOrder : j < n => IsSet(SeedOrder[j])'
        BY DEF SeededRows
      <4>1. CASE n = i
        BY <3>1, <3>2, <3>3, <3>4, <3>5, <4>1, TheOrder
      <4>2. CASE n # i
        BY <3>2, <3>4, <3>5, <4>2, TheOrder DEF ConfigInv, SeededRows
      <4> QED  BY <4>1, <4>2
    <3>7. ASSUME NEW o, o = Onward(c), o # NoWriter PROVE Seeding(o)'
      <4>1. /\ i < 5 /\ o \in Calls /\ o.pc = "read" /\ o.todo = LeftFrom(i + 1)
            /\ o.updatedBy = c.updatedBy /\ o.env = c.env /\ o.present = c.present
        BY <3>1, <3>2, <3>7, OnwardFields
      <4>2. i + 1 \in DOMAIN SeedOrder
        BY <3>2, <4>1, TheOrder
      <4>3. ASSUME NEW j \in DOMAIN SeedOrder, j < i + 1 PROVE IsSet(SeedOrder[j])'
        <5>1. j < i \/ j = i
          BY <3>2, <4>3, TheOrder
        <5> QED  BY <3>1, <3>2, <3>5, <5>1, TheOrder
      <4>4. \A j \in Keys : j \in c.present => IsSet(j)'
        BY <2>4, <3>5 DEF Seeding
      <4> QED  BY <3>2, <4>1, <4>2, <4>3, <4>4 DEF Seeding
    <3>8. k = "founder_queries" => row.value \in Lists
      BY <3>1, <3>2, <3>3 DEF Defaults, Default, Lists
    <3> QED  BY <2>4, <3>2, <3>3, <3>6, <3>7, <3>8, SettingRowStep
  <2>5. ASSUME Becomes(w, Onward(c)), stored' = [stored EXCEPT ![k] = row], Editing(c)
        PROVE  ConfigInv'
    <3>1. /\ k \in Keys /\ c.updatedBy = "operator" /\ c.value \in Texts /\ Onward(c) = NoWriter
          /\ k = "founder_queries" => c.value \in Lists
      BY <2>1, <2>5, OnwardFields DEF Editing
    <3>2. /\ row \in Rows /\ row # Absent /\ row.updatedBy = "operator"
          /\ k = "founder_queries" => row.value \in Lists
      BY <2>1, <3>1, RowsAreSet DEF Rows
    <3>3. stored'[k] = row /\ \A j \in Keys \ {k} : stored'[j] = stored[j]
      BY <2>5, <3>1 DEF ConfigInv
    <3>4. IsSet(k)' /\ \A j \in Keys : IsSet(j) => IsSet(j)'
      BY <3>2, <3>3 DEF IsSet
    <3>5. SeededRows'
      BY <3>2, <3>3, <3>4, TheOrder DEF ConfigInv, SeededRows
    <3> QED  BY <2>5, <3>1, <3>2, <3>5, SettingRowStep
  <2> QED  BY <1>5, <2>1, <2>2, <2>3, <2>4, <2>5 DEF Write
<1>6. ASSUME NEW w \in Writers, WriterDies(w) PROVE ConfigInv'
  BY <1>6, SettingCallStep DEF WriterDies
<1>7. CASE UNCHANGED configVars
  BY <1>7 DEF configVars, ConfigInv, SeededRows, QueriesAreLists, Seeding, Editing, IsSet
<1> QED  BY <1>1, <1>2, <1>3, <1>4, <1>5, <1>6, <1>7 DEF ConfigNext, Writers

LEMMA SettingsAlways == ConfigSpec => []ConfigInv
BY SettingsInit, SettingsStep, PTL DEF ConfigSpec

\* Whatever edits and seedings overlap and die, every row holds text, and every getter answers
\* within the range that its callers rely on; the list getter, which would throw on text that is
\* not JSON, is never given any, because only seeds and setters of lists write its row.
THEOREM SettingsAreTyped == ConfigSpec => []SettingsTypeOK
<1>1. ConfigInv => SettingsTypeOK
  <2> SUFFICES ASSUME ConfigInv PROVE SettingsTypeOK
    OBVIOUS
  <2>1. \A k \in Keys : stored[k] \in Rows \cup {Absent}
    BY DEF ConfigInv
  <2>2. ASSUME NEW w \in Boots \cup People
        PROVE  writer[w] = NoWriter \/ Len(writer[w].todo) \in 1..Len(SeedOrder)
    <3>1. writer[w] = NoWriter \/ Seeding(writer[w]) \/ Editing(writer[w])
      BY DEF ConfigInv, Writers
    <3>2. CASE Seeding(writer[w])
      BY <3>2, WhatIsLeft, TheOrder DEF Seeding
    <3>3. CASE Editing(writer[w])
      BY <3>3, TheOrder DEF Editing
    <3> QED  BY <3>1, <3>2, <3>3
  <2>3. ASSUME NEW t PROVE t \in DOMAIN Numeral => Numeral[t] \in Int
    BY DEF Numeral
  <2>4. DailyLimit \in Nat
    BY DEF DailyLimit, ParsesTo
  <2>5. MaxProfilesPerRun \in Nat \ {0} /\ MaxItemsPerRun \in Nat \ {0}
    BY DEF MaxProfilesPerRun, MaxItemsPerRun, PositiveOrDefault, ParsesTo, Default
  <2>6. FounderQueries \in Lists
    <3>1. CASE IsSet("founder_queries")
      BY <3>1 DEF ConfigInv, QueriesAreLists, FounderQueries, Value
    <3>2. CASE ~IsSet("founder_queries")
      BY <3>2 DEF FounderQueries, Default, Lists
    <3> QED  BY <3>1, <3>2
  <2>7. IsAutonomousEnabled \in BOOLEAN /\ MinimumTier \in {"A", "B", "C", "none"}
    BY DEF IsAutonomousEnabled, MinimumTier
  <2> QED  BY <2>1, <2>2, <2>4, <2>5, <2>6, <2>7 DEF SettingsTypeOK
<1> QED  BY <1>1, SettingsAlways, PTL

\* Only a process that starts writes as one.
OnlyBootsSeed ==
  \A w \in Writers : writer[w].updatedBy = "system:boot-seed" => w \in Boots

LEMMA SeedersStep ==
  ASSUME ConfigInv, OnlyBootsSeed, [ConfigNext]_configVars
  PROVE  OnlyBootsSeed'
<1>1. ASSUME NEW w \in Writers, NEW c, Becomes(w, c),
             c.updatedBy \in {"operator", writer[w].updatedBy} \/ w \in Boots
      PROVE  OnlyBootsSeed'
  BY <1>1 DEF Becomes, OnlyBootsSeed, ConfigInv
<1>2. ASSUME NEW b \in Boots, ReadKey(b) \/ \E env \in Envs : Boot(b, env) PROVE OnlyBootsSeed'
  <2>1. \E c : Becomes(b, c)
    BY <1>2 DEF ReadKey, Boot
  <2> QED  BY <1>1, <2>1 DEF Writers
<1>3. ASSUME NEW h \in People, NEW e \in Edits, Edit(h, e[1], e[2]) PROVE OnlyBootsSeed'
  <2> DEFINE c == [NoWriter EXCEPT !.pc = "select", !.todo = <<e[1]>>, !.value = Written(e[1], e[2])]
  <2>1. c.updatedBy = "operator" /\ Becomes(h, c) /\ h \in Writers
    BY <1>3, NoWriterFields DEF Edit, Calls, Writers
  <2> HIDE DEF c
  <2> QED  BY <1>1, <2>1
<1>4. ASSUME NEW w \in Writers, Select(w) PROVE OnlyBootsSeed'
  <2>1. PICK x : x = IsSet(Head(writer[w].todo))
    OBVIOUS
  <2> DEFINE c == [writer[w] EXCEPT !.pc = "write", !.exists = x]
  <2>2. writer[w] \in Calls
    BY NoWriterFields DEF ConfigInv, Seeding, Editing
  <2>3. c.updatedBy = writer[w].updatedBy
    BY <2>2 DEF Calls
  <2>4. Becomes(w, c)
    BY <1>4, <2>1 DEF Select
  <2> HIDE DEF c
  <2> QED  BY <1>1, <2>3, <2>4
<1>5. ASSUME NEW w \in Writers, Write(w) \/ WriterDies(w) PROVE OnlyBootsSeed'
  <2>1. CASE Becomes(w, NoWriter)
    BY <1>1, <2>1, NoWriterFields
  <2>2. CASE Becomes(w, Onward(writer[w])) /\ writer[w].pc = "write"
    <3>1. writer[w] \in Calls /\ (Seeding(writer[w]) \/ Editing(writer[w]))
      BY <2>2, NoWriterFields DEF ConfigInv, Seeding, Editing
    <3>2. Onward(writer[w]) = NoWriter \/ Onward(writer[w]).updatedBy = writer[w].updatedBy
      BY <3>1, OnwardFields DEF Seeding, Editing
    <3> QED  BY <1>1, <2>2, <3>2, NoWriterFields
  <2> QED  BY <1>5, <2>1, <2>2 DEF Write, WriterDies
<1>6. CASE UNCHANGED configVars
  BY <1>6 DEF configVars, OnlyBootsSeed
<1> QED  BY <1>2, <1>3, <1>4, <1>5, <1>6 DEF ConfigNext, Writers

\* The only step that changes a row.
LEMMA WriteChangesItsKey ==
  ASSUME ConfigInv, [ConfigNext]_configVars, NEW k \in Keys, stored'[k] # stored[k]
  PROVE  \E w \in Writers :
           /\ writer[w].pc = "write" /\ Head(writer[w].todo) = k
           /\ stored'[k].updatedBy = writer[w].updatedBy
<1>1. PICK w \in Writers : Write(w)
  BY DEF ConfigNext, configVars, Writers, ReadKey, Boot, Edit, Select, WriterDies
<1> DEFINE row == [value |-> writer[w].value, updatedBy |-> writer[w].updatedBy]
<1>2. writer[w].pc = "write" /\ stored' = [stored EXCEPT ![Head(writer[w].todo)] = row]
  BY <1>1 DEF Write
<1>3. row.updatedBy = writer[w].updatedBy
  OBVIOUS
<1> HIDE DEF row
<1>4. Head(writer[w].todo) = k /\ stored'[k] = row
  BY <1>2 DEF ConfigInv
<1> QED  BY <1>2, <1>3, <1>4

\* seedDefaultsFromEnv leaves alone every key that had a row when its process started, however many
\* processes start, whatever their environments, and whatever operators edit meanwhile.
THEOREM RestartsKeepSettings == ConfigSpec => RestartKeepsSettings
<1>1. ConfigInit => OnlyBootsSeed
  BY NoWriterFields DEF ConfigInit, OnlyBootsSeed, Writers
<1>2. ConfigInv /\ OnlyBootsSeed /\ [ConfigNext]_configVars =>
        [\A k \in Keys :
           stored'[k] # stored[k] /\ stored'[k].updatedBy = "system:boot-seed" =>
             \E b \in Boots : /\ writer[b].pc = "write" /\ Head(writer[b].todo) = k
                              /\ k \notin writer[b].present]_configVars
  <2> SUFFICES ASSUME ConfigInv, OnlyBootsSeed, [ConfigNext]_configVars, NEW k \in Keys,
                      stored'[k] # stored[k], stored'[k].updatedBy = "system:boot-seed"
               PROVE  \E b \in Boots : /\ writer[b].pc = "write" /\ Head(writer[b].todo) = k
                                       /\ k \notin writer[b].present
    OBVIOUS
  <2>1. PICK w \in Writers : /\ writer[w].pc = "write" /\ Head(writer[w].todo) = k
                             /\ writer[w].updatedBy = "system:boot-seed"
    BY WriteChangesItsKey
  <2>2. w \in Boots /\ Seeding(writer[w])
    BY <2>1, NoWriterFields DEF OnlyBootsSeed, ConfigInv, Editing
  <2>3. k \notin writer[w].present
    BY <2>1, <2>2, WhatIsLeft DEF Seeding
  <2> QED  BY <2>1, <2>2, <2>3
<1> QED  BY <1>1, <1>2, SettingsInit, SettingsStep, SeedersStep, PTL DEF ConfigSpec, RestartKeepsSettings

\* The kill switch is seeded before the limit: while every environment has it on, settings that let
\* a job act for real hold a value that an operator saved.
THEOREM StartsNeverArm == ConfigSpec => []StartingNeverArms
<1>1. ConfigInv => StartingNeverArms
  <2> SUFFICES ASSUME ConfigInv, \A env \in Envs : env.kill_switch = "true", Armed,
                      ~ByOperator("kill_switch"), ~ByOperator("daily_limit")
               PROVE  FALSE
    BY DEF StartingNeverArms
  <2>1. /\ {"kill_switch", "daily_limit"} \subseteq Keys
        /\ SeedOrder[2] = "kill_switch" /\ SeedOrder[3] = "daily_limit"
        /\ 2 \in DOMAIN SeedOrder /\ 3 \in DOMAIN SeedOrder
    BY TheOrder DEF Keys, Seeded
  <2>2. \A k \in Keys : stored[k] = Absent \/ stored[k].updatedBy \in {"system:boot-seed", "operator"}
    BY DEF ConfigInv, Rows
  <2>3. Value("kill_switch") # "true" /\ DailyLimit > 0
    BY DEF Armed, CheckBeforeWrite, IsKillSwitchActive
  <2>4. IsSet("daily_limit")
    <3>1. "" \notin DOMAIN Numeral
      BY DEF Numeral
    <3>2. Value("daily_limit") \in DOMAIN Numeral
      BY <2>3 DEF DailyLimit, ParsesTo
    <3>3. Absent.value = ""
      BY DEF Absent
    <3> QED  BY <3>1, <3>2, <3>3 DEF Value, IsSet
  <2>5. stored["daily_limit"].updatedBy = "system:boot-seed"
    BY <2>1, <2>2, <2>4 DEF IsSet, ByOperator
  <2>6. IsSet("kill_switch")
    BY <2>1, <2>5 DEF ConfigInv, SeededRows
  <2>7. stored["kill_switch"].updatedBy = "system:boot-seed"
    BY <2>1, <2>2, <2>6 DEF IsSet, ByOperator
  <2>8. PICK env \in Envs : Value("kill_switch") = Defaults(env)["kill_switch"]
    BY <2>1, <2>7 DEF ConfigInv, SeededRows, Value
  <2>9. Defaults(env)["kill_switch"] = env.kill_switch
    BY DEF Defaults
  <2> QED  BY <2>3, <2>8, <2>9
<1> QED  BY <1>1, SettingsAlways, PTL
=============================================================================
