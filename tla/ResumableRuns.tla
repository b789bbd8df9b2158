---------------------------- MODULE ResumableRuns ----------------------------
(***************************************************************************)
(* What a checkpointed batch promises, however often its calls die and are *)
(* resumed: a call goes on from exactly what is saved of its run, begins   *)
(* no item the run has an entry for or is at work on, and charges the run  *)
(* only while its budget lasts; what is saved is what was done.            *)
(* Discovery, WebsiteEvidence and EvidenceAssembly are shown to implement  *)
(* this.                                                                   *)
(***************************************************************************)
EXTENDS Naturals

CONSTANTS Items, Runs, Budgets, NoRun

VARIABLES
  saved,     \* saved[j]: the items run j has a saved entry for
  spent,     \* spent[j]: what run j is known to have used of its budget
  run,       \* the run the call in progress is about, or NoRun
  budget,    \* the budget that call read
  finished,  \* the items the run has an entry for, the unsaved ones included
  doing,     \* the items at work
  used       \* what the run has used of its budget, the unsaved included

record == <<saved, spent>>
vars == <<record, run, budget, finished, doing, used>>

Idle == run = NoRun /\ budget = 0 /\ finished = {} /\ doing = {} /\ used = 0

Init == saved = [j \in Runs |-> {}] /\ spent = [j \in Runs |-> 0] /\ Idle

\* A run starts, or is resumed: all the same.
Begin(j, b) ==
  /\ run = NoRun
  /\ run' = j /\ budget' = b
  /\ finished' = saved[j] /\ used' = spent[j] /\ doing' = {}
  /\ UNCHANGED record

Take(x) ==
  /\ run # NoRun
  /\ x \notin finished \cup doing
  /\ doing' = doing \cup {x}
  /\ UNCHANGED <<record, run, budget, finished, used>>

Charge ==
  /\ run # NoRun
  /\ used < budget
  /\ used' = used + 1
  /\ UNCHANGED <<record, run, budget, finished, doing>>

\* An entry, with a result or an error; an item that is done in one step was never at work.
Finish(x) ==
  /\ run # NoRun
  /\ x \notin finished
  /\ finished' = finished \cup {x}
  /\ doing' = doing \ {x}
  /\ used' = used \/ (used < budget /\ used' = used + 1)
  /\ UNCHANGED <<record, run, budget>>

Save ==
  /\ run # NoRun
  /\ saved' = [saved EXCEPT ![run] = finished]
  /\ spent' = [spent EXCEPT ![run] = used]
  /\ UNCHANGED <<run, budget, finished, doing, used>>

\* The call is complete, or dies.
End ==
  /\ run # NoRun
  /\ Idle'
  /\ UNCHANGED record

Next ==
  \/ \E j \in Runs, b \in Budgets : Begin(j, b)
  \/ \E x \in Items : Take(x) \/ Finish(x)
  \/ Charge \/ Save \/ End

Spec == Init /\ [][Next]_vars
=============================================================================
