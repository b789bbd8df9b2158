----------------------- MODULE EvidenceAssembly_proofs -----------------------
(***************************************************************************)
(* What holds of technology scans and of the two checkpointed batches for  *)
(* any number of workers, domains, prospects and runs, wherever calls die, *)
(* throw and are resumed.                                                  *)
(***************************************************************************)
EXTENDS EvidenceAssembly, FiniteSetTheorems, SequenceTheorems, WellFoundedInduction, TLAPS

Active(w) == task[w].pc \notin {"idle", "dead"}
Scans(w) == scan[w].pc # "idle"
Working(w) == scan[w].pc \in {"detections", "diff", "changes"}

\* A batch is about a run that was started; its workers' items are of its kind, and a worker's
\* scan is of the company of its item.
CallsAreAboutRuns ==
  /\ batch.running => /\ batch.run \in Runs /\ jobRuns[batch.run].status # "none"
                      /\ batch.kind = jobRuns[batch.run].kind
                      /\ batch.queue \subseteq ItemsOf(batch.kind)
  /\ \A w \in Workers : Active(w) =>
       /\ batch.running /\ task[w].item \in ItemsOf(batch.kind)
       /\ task[w].pc \in {"check", "score"} => batch.kind = "score"
  /\ \A w \in Workers : Scans(w) <=> task[w].pc = "scan"
  /\ \A w \in Workers : Scans(w) =>
       /\ scan[w].domain \in Domains
       /\ scan[w].domain = IF batch.kind = "scan" THEN task[w].item ELSE DomainOf[task[w].item]

IdsAreKnown ==
  \A w \in Workers : /\ Working(w) => scan[w].id \in DOMAIN scans
                     /\ scan[w].pc \in {"diff", "changes"} => scan[w].earlier \in DOMAIN scans

\* The checkpoint of a run that was never started is empty.
FreshRuns == \A j \in Runs : jobRuns[j].status = "none" => jobRuns[j].done = {} /\ jobRuns[j].errors = {}

Typed == TypeOK /\ CallsAreAboutRuns /\ IdsAreKnown /\ FreshRuns

\* The domain's OK scans before row i; what tells two rows apart; the event for technology t;
\* the events on record about row i.
Before(i) == {j \in OkScans(scans[i].domain) : j < i}
Differ(i, j) == (scans[j].stored \ scans[i].stored) \cup (scans[i].stored \ scans[j].stored)
RecordOf(i, j, t) ==
  [earlier |-> i, later |-> j, technology |-> t, type |-> IF t \in scans[j].stored THEN "added" ELSE "removed"]
ChangesOf(i) == {c \in changes : c.later = i}
-----------------------------------------------------------------------------
(* The largest member of a set of row numbers, and the rows of the table.    *)

LEMMA MaxOfNumbers ==
  ASSUME NEW n \in Nat, NEW S \in SUBSET (1..n), S # {}
  PROVE  Max(S) \in S /\ \A y \in S : Max(S) >= y
<1> DEFINE Above == {m \in Nat : \A y \in S : y <= m}
<1>1. n \in Above
  OBVIOUS
<1>2. PICK m \in Above : \A k \in Above : ~(k < m)
  <2>1. IsWellFoundedOn(OpToRel(<, Nat), Nat)
    BY NatLessThanWellFounded
  <2>2. Above \subseteq Nat /\ Above # {}
    BY <1>1
  <2> HIDE DEF Above
  <2>3. PICK m \in Above : \A k \in Above : ~(<<k, m>> \in OpToRel(<, Nat))
    BY <2>1, <2>2, WFMin
  <2> QED  BY <2>2, <2>3 DEF OpToRel
<1>3. m \in S
  <2>1. CASE m = 0
    <3>1. PICK y \in S : y \in 1..n
      OBVIOUS
    <3> QED  BY <1>2, <2>1, <3>1
  <2>2. CASE m # 0 /\ m \notin S
    <3>1. m - 1 \in Above
      BY <1>2, <2>2
    <3> QED  BY <1>2, <3>1
  <2> QED  BY <2>1, <2>2
<1>4. \A y \in S : m >= y
  BY <1>2
<1> QED  BY <1>3, <1>4 DEF Max

LEMMA ScanUpdates ==
  ASSUME NEW c \in ScanState
  PROVE  /\ \A x \in {"idle", "analyze", "insertScan", "detections", "diff", "changes", "returned"} :
              [c EXCEPT !.pc = x] \in ScanState
         /\ \A x \in Domains \cup {NoDomain} : [c EXCEPT !.domain = x] \in ScanState
         /\ \A x \in BOOLEAN : [c EXCEPT !.ok = x] \in ScanState
         /\ \A x \in SUBSET Technologies : [c EXCEPT !.found = x] \in ScanState
         /\ \A x \in 0..MaxScans : [c EXCEPT !.id = x] \in ScanState
         /\ \A x \in 0..MaxScans : [c EXCEPT !.earlier = x] \in ScanState
         /\ \A x \in SUBSET Technologies : [c EXCEPT !.todo = x] \in ScanState
BY DEF ScanState

LEMMA Records ==
  /\ NoScan \in ScanState /\ NoScan.pc = "idle"
  /\ \A d \in Domains : CallOn(d) \in ScanState /\ CallOn(d).pc = "analyze" /\ CallOn(d).domain = d
  /\ NoTask \in TaskState /\ NoTask.pc = "idle"
  /\ NoRow \in RunState /\ NoRow.done = {} /\ NoRow.errors = {}
  /\ NoBatch \in BatchState /\ ~NoBatch.running
<1>1. NoScan \in ScanState /\ NoScan.pc = "idle"
  BY MaxScansAssumption DEF NoScan, ScanState
<1>2. \A d \in Domains : CallOn(d) \in ScanState /\ CallOn(d).pc = "analyze" /\ CallOn(d).domain = d
  <2> TAKE d \in Domains
  <2>1. CallOn(d) = [NoScan EXCEPT !.pc = "analyze", !.domain = d]
    BY DEF CallOn
  <2>2. CallOn(d).pc = "analyze" /\ CallOn(d).domain = d
    BY <2>1 DEF NoScan
  <2>3. CallOn(d) = [[NoScan EXCEPT !.pc = "analyze"] EXCEPT !.domain = d]
    BY <2>1 DEF NoScan
  <2>4. CallOn(d) \in ScanState
    <3>1. [NoScan EXCEPT !.pc = "analyze"] \in ScanState
      BY <1>1, ScanUpdates
    <3>2. d \in Domains \cup {NoDomain}
      OBVIOUS
    <3> QED  BY <2>3, <3>1, <3>2, ScanUpdates
  <2> QED  BY <2>2, <2>4
<1>3. NoTask \in TaskState /\ NoTask.pc = "idle"
  BY DEF NoTask, TaskState
<1>4. NoRow \in RunState /\ NoRow.done = {} /\ NoRow.errors = {}
  BY DEF NoRow, RunState, Kinds
<1>5. NoBatch \in BatchState /\ ~NoBatch.running
  BY DEF NoBatch, BatchState, Kinds
<1> QED  BY <1>1, <1>2, <1>3, <1>4, <1>5

LEMMA TypedInit == Init => Typed
<1> SUFFICES ASSUME Init PROVE Typed  OBVIOUS
<1>1. scans \in Seq(ScanRow) /\ Len(scans) <= MaxScans /\ changes \subseteq ChangeRow
  BY MaxScansAssumption DEF Init, ScansInit
<1>2. /\ scan \in [Workers -> ScanState] /\ task \in [Workers -> TaskState]
      /\ jobRuns \in [Runs -> RunState] /\ batch \in BatchState /\ scored = {}
  BY Records DEF Init, ScansInit
<1>3. ~batch.running /\ \A w \in Workers : scan[w].pc = "idle" /\ task[w].pc = "idle"
  BY Records DEF Init, ScansInit
<1>4. CallsAreAboutRuns /\ IdsAreKnown
  BY <1>3 DEF CallsAreAboutRuns, IdsAreKnown, Active, Scans, Working
<1>5. FreshRuns
  BY Records DEF Init, FreshRuns
<1> QED  BY <1>1, <1>2, <1>4, <1>5 DEF Typed, TypeOK, ScansTypeOK
-----------------------------------------------------------------------------
(* What each step of a scan does.                                            *)

\* Only w's own call moves, and it stays on its domain.
Moves(w, pc) ==
  /\ scan' \in [Workers -> ScanState]
  /\ scan'[w].pc = pc /\ scan'[w].domain = scan[w].domain
  /\ \A v \in Workers \ {w} : scan'[v] = scan[v]

LEMMA TypeFacts ==
  ASSUME Typed
  PROVE  /\ scans \in Seq(ScanRow) /\ Len(scans) \in Nat /\ Len(scans) <= MaxScans
         /\ DOMAIN scans = 1..Len(scans) /\ \A i \in DOMAIN scans : scans[i] \in ScanRow
         /\ changes \subseteq ChangeRow /\ scan \in [Workers -> ScanState]
         /\ MaxScans \in Nat
<1>1. /\ scans \in Seq(ScanRow) /\ Len(scans) <= MaxScans /\ changes \subseteq ChangeRow
      /\ scan \in [Workers -> ScanState]
  BY DEF Typed, TypeOK, ScansTypeOK
<1>2. Len(scans) \in Nat /\ DOMAIN scans = 1..Len(scans) /\ \A i \in DOMAIN scans : scans[i] \in ScanRow
  BY <1>1, LenProperties, ElementOfSeq
<1> QED  BY <1>1, <1>2, MaxScansAssumption

LEMMA AnalyzeEffect ==
  ASSUME Typed, NEW w \in Workers, Analyze(w)
  PROVE  scan[w].pc = "analyze" /\ Moves(w, "insertScan") /\ UNCHANGED <<scans, changes>>
<1>0. scan \in [Workers -> ScanState] /\ scan[w] \in ScanState
  BY TypeFacts
<1>1. PICK http \in {0, 200, 301, 403, 500}, seen \in SUBSET Technologies :
        LET result == AnalyzerResult(http, seen)
        IN  scan' = [scan EXCEPT ![w] = [@ EXCEPT !.pc = "insertScan", !.ok = result.ok,
                                                  !.found = result.found]]
  BY DEF Analyze
<1> DEFINE ok == AnalyzerResult(http, seen).ok
           found == AnalyzerResult(http, seen).found
           r == [[[scan[w] EXCEPT !.pc = "insertScan"] EXCEPT !.ok = ok] EXCEPT !.found = found]
<1>2. ok \in BOOLEAN /\ found \in SUBSET Technologies
  BY DEF AnalyzerResult
<1>3. scan' = [scan EXCEPT ![w] = r]
  BY <1>0, <1>1
<1> HIDE DEF ok, found
<1>4. r \in ScanState
  BY <1>0, <1>2, ScanUpdates, ZenonT(40)
<1>5. r.pc = "insertScan" /\ r.domain = scan[w].domain
  BY <1>0 DEF ScanState
<1> HIDE DEF r
<1> QED  BY <1>0, <1>3, <1>4, <1>5 DEF Analyze, Moves

LEMMA InsertScanEffect ==
  ASSUME Typed, NEW w \in Workers, InsertScan(w), scan[w].domain \in Domains
  PROVE  LET row == [domain |-> scan[w].domain, ok |-> scan[w].ok, found |-> scan[w].found,
                     stored |-> {}, finished |-> ~scan[w].ok]
         IN  /\ scan[w].pc = "insertScan" /\ Len(scans) + 1 \in 1..MaxScans
             /\ row \in ScanRow /\ scans' = Append(scans, row) /\ UNCHANGED changes
             /\ Moves(w, IF scan[w].ok THEN "detections" ELSE "returned")
             /\ scan'[w].id = Len(scans) + 1
             /\ scan'[w].found = scan[w].found /\ scan'[w].todo = scan[w].found
<1>0. scan \in [Workers -> ScanState] /\ scan[w] \in ScanState /\ Len(scans) + 1 \in 1..MaxScans
  BY TypeFacts DEF InsertScan
<1> DEFINE pc == IF scan[w].ok THEN "detections" ELSE "returned"
           r == [[[scan[w] EXCEPT !.id = Len(scans) + 1] EXCEPT !.pc = pc] EXCEPT !.todo = scan[w].found]
<1>1. scan' = [scan EXCEPT ![w] = r]
  BY <1>0 DEF InsertScan, ScanState
<1>2. r \in ScanState
  <2>1. /\ Len(scans) + 1 \in 0..MaxScans /\ scan[w].found \in SUBSET Technologies
        /\ pc \in {"idle", "analyze", "insertScan", "detections", "diff", "changes", "returned"}
    BY <1>0 DEF ScanState
  <2> HIDE DEF pc
  <2> QED  BY <1>0, <2>1, ScanUpdates
<1>3. /\ scan'[w].pc = pc /\ scan'[w].domain = scan[w].domain /\ scan'[w].id = Len(scans) + 1
      /\ scan'[w].found = scan[w].found /\ scan'[w].todo = scan[w].found
  BY <1>0, <1>1 DEF ScanState
<1>4. [domain |-> scan[w].domain, ok |-> scan[w].ok, found |-> scan[w].found, stored |-> {},
       finished |-> ~scan[w].ok] \in ScanRow
  BY <1>0 DEF ScanState, ScanRow
<1> HIDE DEF r
<1>5. Moves(w, pc)
  BY <1>0, <1>1, <1>2, <1>3 DEF Moves
<1> QED  BY <1>0, <1>3, <1>4, <1>5 DEF InsertScan

LEMMA InsertDetectionEffect ==
  ASSUME Typed, NEW w \in Workers, InsertDetection(w)
  PROVE  /\ scan[w].pc = "detections" /\ Moves(w, "detections") /\ UNCHANGED changes
         /\ \E t \in scan[w].todo : /\ scans' = [scans EXCEPT ![scan[w].id].stored = @ \cup {t}]
                                    /\ scan'[w].todo = scan[w].todo \ {t}
         /\ scan'[w].id = scan[w].id /\ scan'[w].found = scan[w].found
<1>0. scan \in [Workers -> ScanState] /\ scan[w] \in ScanState /\ scan[w].todo \in SUBSET Technologies
  BY TypeFacts DEF ScanState
<1>1. PICK t \in scan[w].todo : /\ scans' = [scans EXCEPT ![scan[w].id].stored = @ \cup {t}]
                                /\ scan' = [scan EXCEPT ![w].todo = @ \ {t}]
  BY DEF InsertDetection
<1>2. scan' = [scan EXCEPT ![w] = [scan[w] EXCEPT !.todo = scan[w].todo \ {t}]]
  BY <1>0, <1>1 DEF ScanState
<1>3. [scan[w] EXCEPT !.todo = scan[w].todo \ {t}] \in ScanState
  BY <1>0, ScanUpdates
<1>4. /\ scan'[w].pc = scan[w].pc /\ scan'[w].domain = scan[w].domain /\ scan'[w].id = scan[w].id
      /\ scan'[w].found = scan[w].found /\ scan'[w].todo = scan[w].todo \ {t}
  BY <1>0, <1>2 DEF ScanState
<1>5. Moves(w, "detections")
  BY <1>0, <1>2, <1>3, <1>4 DEF Moves, InsertDetection
<1> QED  BY <1>1, <1>4, <1>5 DEF InsertDetection

LEMMA ReturnEffect ==
  ASSUME Typed, NEW w \in Workers, ScanReturns(w)
  PROVE  /\ Moves(w, "returned") /\ scan'[w].id = scan[w].id
         /\ scans' = [scans EXCEPT ![scan[w].id].finished = TRUE]
<1>0. scan \in [Workers -> ScanState] /\ scan[w] \in ScanState
  BY TypeFacts
<1>1. scan' = [scan EXCEPT ![w] = [scan[w] EXCEPT !.pc = "returned"]]
  BY <1>0 DEF ScanReturns
<1>2. [scan[w] EXCEPT !.pc = "returned"] \in ScanState
  BY <1>0, ScanUpdates
<1>3. /\ scan'[w].pc = "returned" /\ scan'[w].domain = scan[w].domain /\ scan'[w].id = scan[w].id
  BY <1>0, <1>1 DEF ScanState
<1> QED  BY <1>0, <1>1, <1>2, <1>3 DEF Moves, ScanReturns

LEMMA PickEarlierEffect ==
  ASSUME Typed, NEW w \in Workers, PickEarlier(w)
  PROVE  LET others == OkScans(scan[w].domain) \ {scan[w].id}
         IN  /\ scan[w].pc = "detections" /\ scan[w].todo = {} /\ UNCHANGED changes
             /\ \/ others = {} /\ ScanReturns(w)
                \/ /\ others # {} /\ Moves(w, "diff") /\ UNCHANGED scans
                   /\ scan'[w].id = scan[w].id /\ scan'[w].found = scan[w].found
                   /\ scan'[w].earlier = Max(others) /\ Max(others) \in DOMAIN scans
<1>0. scan \in [Workers -> ScanState] /\ scan[w] \in ScanState
  BY TypeFacts
<1> DEFINE others == OkScans(scan[w].domain) \ {scan[w].id}
<1>1. CASE others = {}
  BY <1>1 DEF PickEarlier
<1>2. CASE others # {}
  <2>1. Max(others) \in DOMAIN scans /\ Max(others) \in 1..MaxScans
    <3>1. others \in SUBSET (1..Len(scans)) /\ Len(scans) \in Nat
      BY TypeFacts DEF OkScans
    <3> HIDE DEF others
    <3>2. Max(others) \in 1..Len(scans)
      BY <1>2, <3>1, MaxOfNumbers
    <3> QED  BY <3>2, TypeFacts
  <2>2. scan' = [scan EXCEPT ![w].pc = "diff", ![w].earlier = Max(others)] /\ UNCHANGED scans
    BY <1>2 DEF PickEarlier
  <2> HIDE DEF others
  <2>3. scan' = [scan EXCEPT ![w] = [[scan[w] EXCEPT !.pc = "diff"] EXCEPT !.earlier = Max(others)]]
    BY <1>0, <2>2 DEF ScanState
  <2>4. [[scan[w] EXCEPT !.pc = "diff"] EXCEPT !.earlier = Max(others)] \in ScanState
    <3>1. Max(others) \in 0..MaxScans
      BY <2>1, MaxScansAssumption
    <3> QED  BY <1>0, <3>1, ScanUpdates
  <2>5. /\ scan'[w].pc = "diff" /\ scan'[w].domain = scan[w].domain /\ scan'[w].id = scan[w].id
        /\ scan'[w].found = scan[w].found /\ scan'[w].earlier = Max(others)
    BY <1>0, <2>3 DEF ScanState
  <2>6. Moves(w, "diff")
    BY <1>0, <2>3, <2>4, <2>5 DEF Moves
  <2> QED  BY <1>2, <2>1, <2>2, <2>5, <2>6 DEF PickEarlier, others
<1> QED  BY <1>1, <1>2

LEMMA ReadDetectionsEffect ==
  ASSUME Typed, NEW w \in Workers, ReadDetections(w)
  PROVE  /\ scan[w].pc = "diff" /\ Moves(w, "changes") /\ UNCHANGED <<scans, changes>>
         /\ scan'[w].id = scan[w].id /\ scan'[w].earlier = scan[w].earlier
         /\ scan'[w].found = scan[w].found
         /\ scan'[w].todo = Differ(scan[w].earlier, scan[w].id)
<1>0. /\ scan \in [Workers -> ScanState] /\ scan[w] \in ScanState /\ scan[w].pc = "diff"
      /\ scan[w].id \in DOMAIN scans /\ scan[w].earlier \in DOMAIN scans
  BY TypeFacts DEF Typed, IdsAreKnown, Working, ReadDetections
<1> DEFINE todo == Differ(scan[w].earlier, scan[w].id)
<1>1. todo \in SUBSET Technologies
  <2>1. scans[scan[w].id] \in ScanRow /\ scans[scan[w].earlier] \in ScanRow
    BY <1>0, TypeFacts
  <2> QED  BY <2>1 DEF ScanRow, Differ
<1>2. scan' = [scan EXCEPT ![w].pc = "changes", ![w].todo = todo] /\ UNCHANGED <<scans, changes>>
  BY DEF ReadDetections, Differ
<1> HIDE DEF todo
<1>3. scan' = [scan EXCEPT ![w] = [[scan[w] EXCEPT !.pc = "changes"] EXCEPT !.todo = todo]]
  BY <1>0, <1>2 DEF ScanState
<1>4. [[scan[w] EXCEPT !.pc = "changes"] EXCEPT !.todo = todo] \in ScanState
  BY <1>0, <1>1, ScanUpdates
<1>5. /\ scan'[w].pc = "changes" /\ scan'[w].domain = scan[w].domain /\ scan'[w].id = scan[w].id
      /\ scan'[w].found = scan[w].found /\ scan'[w].earlier = scan[w].earlier /\ scan'[w].todo = todo
  BY <1>0, <1>3 DEF ScanState
<1>6. Moves(w, "changes")
  BY <1>0, <1>3, <1>4, <1>5 DEF Moves
<1> QED  BY <1>0, <1>2, <1>5, <1>6 DEF todo

LEMMA WriteChangeEffect ==
  ASSUME Typed, NEW w \in Workers, WriteChange(w)
  PROVE  /\ scan[w].pc = "changes" /\ Moves(w, "changes") /\ UNCHANGED scans
         /\ scan'[w].id = scan[w].id /\ scan'[w].earlier = scan[w].earlier
         /\ scan'[w].found = scan[w].found
         /\ \E t \in scan[w].todo :
              /\ changes' = changes \cup {RecordOf(scan[w].earlier, scan[w].id, t)}
              /\ RecordOf(scan[w].earlier, scan[w].id, t) \in ChangeRow
              /\ scan'[w].todo = scan[w].todo \ {t}
<1>0. /\ scan \in [Workers -> ScanState] /\ scan[w] \in ScanState /\ scan[w].pc = "changes"
      /\ scan[w].id \in 1..MaxScans /\ scan[w].earlier \in 1..MaxScans
      /\ scan[w].todo \in SUBSET Technologies
  <2>1. scan[w].id \in DOMAIN scans /\ scan[w].earlier \in DOMAIN scans /\ scan[w].pc = "changes"
    BY DEF Typed, IdsAreKnown, Working, WriteChange
  <2> QED  BY <2>1, TypeFacts DEF ScanState
<1>1. PICK t \in scan[w].todo : /\ changes' = changes \cup {ChangeOf(w, t)}
                                /\ scan' = [scan EXCEPT ![w].todo = @ \ {t}]
  BY DEF WriteChange
<1>2. ChangeOf(w, t) = RecordOf(scan[w].earlier, scan[w].id, t)
  BY DEF ChangeOf, RecordOf
<1>3. RecordOf(scan[w].earlier, scan[w].id, t) \in ChangeRow
  BY <1>0 DEF RecordOf, ChangeRow
<1>4. scan' = [scan EXCEPT ![w] = [scan[w] EXCEPT !.todo = scan[w].todo \ {t}]]
  BY <1>0, <1>1 DEF ScanState
<1>5. [scan[w] EXCEPT !.todo = scan[w].todo \ {t}] \in ScanState
  BY <1>0, ScanUpdates
<1>6. /\ scan'[w].pc = scan[w].pc /\ scan'[w].domain = scan[w].domain /\ scan'[w].id = scan[w].id
      /\ scan'[w].found = scan[w].found /\ scan'[w].earlier = scan[w].earlier
      /\ scan'[w].todo = scan[w].todo \ {t}
  BY <1>0, <1>4 DEF ScanState
<1>7. Moves(w, "changes")
  BY <1>0, <1>4, <1>5, <1>6 DEF Moves
<1> QED  BY <1>0, <1>1, <1>2, <1>3, <1>6, <1>7 DEF WriteChange

\* A row keeps its domain, its status, what was seen and that its scan ran to the end.
RowsKept ==
  /\ DOMAIN scans \subseteq DOMAIN scans'
  /\ \A i \in DOMAIN scans :
       /\ scans'[i].domain = scans[i].domain /\ scans'[i].ok = scans[i].ok
       /\ scans'[i].found = scans[i].found /\ (scans[i].finished => scans'[i].finished)

LEMMA AppendedRow ==
  ASSUME Typed, NEW row \in ScanRow, scans' = Append(scans, row), Len(scans) + 1 \in 1..MaxScans
  PROVE  /\ scans' \in Seq(ScanRow) /\ Len(scans') <= MaxScans /\ RowsKept
         /\ DOMAIN scans' = DOMAIN scans \cup {Len(scans) + 1}
         /\ scans'[Len(scans) + 1] = row /\ \A i \in DOMAIN scans : scans'[i] = scans[i]
<1>0. scans \in Seq(ScanRow) /\ Len(scans) \in Nat /\ DOMAIN scans = 1..Len(scans) /\ MaxScans \in Nat
  BY TypeFacts
<1>1. /\ scans' \in Seq(ScanRow) /\ Len(scans') = Len(scans) + 1
      /\ scans'[Len(scans) + 1] = row /\ \A i \in 1..Len(scans) : scans'[i] = scans[i]
  BY <1>0, AppendProperties
<1>2. DOMAIN scans' = 1..(Len(scans) + 1)
  BY <1>1, LenProperties
<1>3. DOMAIN scans' = DOMAIN scans \cup {Len(scans) + 1}
  BY <1>0, <1>2
<1> QED  BY <1>0, <1>1, <1>3 DEF RowsKept

LEMMA UpdatedRow ==
  ASSUME Typed, NEW k \in DOMAIN scans, NEW row \in ScanRow, scans' = [scans EXCEPT ![k] = row],
         row.domain = scans[k].domain, row.ok = scans[k].ok, row.found = scans[k].found,
         scans[k].finished => row.finished
  PROVE  /\ scans' \in Seq(ScanRow) /\ Len(scans') <= MaxScans /\ RowsKept
         /\ DOMAIN scans' = DOMAIN scans
         /\ scans'[k] = row /\ \A i \in DOMAIN scans \ {k} : scans'[i] = scans[i]
<1>0. scans \in Seq(ScanRow) /\ Len(scans) \in Nat /\ DOMAIN scans = 1..Len(scans)
      /\ Len(scans) <= MaxScans
  BY TypeFacts
<1>1. /\ scans' \in Seq(ScanRow) /\ Len(scans') = Len(scans)
      /\ scans'[k] = row /\ \A i \in DOMAIN scans \ {k} : scans'[i] = scans[i]
      /\ DOMAIN scans' = DOMAIN scans
  BY <1>0, ExceptSeq
<1> QED  BY <1>0, <1>1 DEF RowsKept

\* A scan's step keeps the tables and the calls well-formed.
LEMMA ScanStepTyped ==
  ASSUME Typed, NEW w \in Workers, ScanStep(w), scan[w].domain \in Domains
  PROVE  /\ ScansTypeOK' /\ IdsAreKnown' /\ RowsKept /\ Scans(w)' /\ Scans(w)
         /\ scan'[w].domain = scan[w].domain /\ \A v \in Workers \ {w} : scan'[v] = scan[v]
<1> DEFINE Goal == /\ ScansTypeOK' /\ IdsAreKnown' /\ RowsKept /\ Scans(w)' /\ Scans(w)
                   /\ scan'[w].domain = scan[w].domain /\ \A v \in Workers \ {w} : scan'[v] = scan[v]
<1> SUFFICES Goal  OBVIOUS
<1>0. /\ scans \in Seq(ScanRow) /\ Len(scans) <= MaxScans /\ changes \subseteq ChangeRow
      /\ scan \in [Workers -> ScanState] /\ \A i \in DOMAIN scans : scans[i] \in ScanRow
      /\ RowsKept \/ scans' # scans
  BY TypeFacts DEF RowsKept
<1>ids. \A v \in Workers : /\ Working(v) => scan[v].id \in DOMAIN scans
                           /\ scan[v].pc \in {"diff", "changes"} => scan[v].earlier \in DOMAIN scans
  BY DEF Typed, IdsAreKnown
<1> USE DEF Working, Scans, Moves, ScansTypeOK, IdsAreKnown
<1>1. CASE Analyze(w)
  BY <1>0, <1>1, <1>ids, AnalyzeEffect
<1>2. CASE InsertScan(w)
  <2> DEFINE row == [domain |-> scan[w].domain, ok |-> scan[w].ok, found |-> scan[w].found,
                     stored |-> {}, finished |-> ~scan[w].ok]
             pc == IF scan[w].ok THEN "detections" ELSE "returned"
  <2>1. /\ scan[w].pc = "insertScan" /\ Len(scans) + 1 \in 1..MaxScans
        /\ row \in ScanRow /\ scans' = Append(scans, row) /\ UNCHANGED changes
        /\ Moves(w, pc) /\ scan'[w].id = Len(scans) + 1
    BY <1>2, InsertScanEffect
  <2> HIDE DEF row
  <2>2. /\ scans' \in Seq(ScanRow) /\ Len(scans') <= MaxScans /\ RowsKept
        /\ DOMAIN scans' = DOMAIN scans \cup {Len(scans) + 1}
    BY <2>1, AppendedRow
  <2>3. pc \in {"detections", "returned"}
    OBVIOUS
  <2> HIDE DEF pc
  <2> QED  BY <1>0, <1>ids, <2>1, <2>2, <2>3
<1>3. CASE InsertDetection(w)
  <2>1. PICK t \in scan[w].todo : scans' = [scans EXCEPT ![scan[w].id].stored = @ \cup {t}]
    BY <1>3, InsertDetectionEffect
  <2>2. /\ scan[w].pc = "detections" /\ Moves(w, "detections") /\ UNCHANGED changes
        /\ scan'[w].id = scan[w].id /\ scan[w].id \in DOMAIN scans
    BY <1>3, <1>ids, InsertDetectionEffect
  <2> DEFINE row == [scans[scan[w].id] EXCEPT !.stored = @ \cup {t}]
  <2>3. t \in Technologies /\ scans[scan[w].id] \in ScanRow
    BY <1>0, <2>2 DEF ScanState
  <2>4. /\ row \in ScanRow /\ row.domain = scans[scan[w].id].domain /\ row.ok = scans[scan[w].id].ok
        /\ row.found = scans[scan[w].id].found /\ (scans[scan[w].id].finished => row.finished)
    BY <2>3 DEF ScanRow
  <2>5. scans' = [scans EXCEPT ![scan[w].id] = row]
    BY <2>1
  <2> HIDE DEF row
  <2>6. scans' \in Seq(ScanRow) /\ Len(scans') <= MaxScans /\ RowsKept /\ DOMAIN scans' = DOMAIN scans
    BY <2>2, <2>4, <2>5, UpdatedRow
  <2> QED  BY <1>0, <1>ids, <2>2, <2>6
\* scanDomain returns: the row's observed flag.
<1>ret. ASSUME ScanReturns(w), Working(w), UNCHANGED changes PROVE Goal
  <2> DEFINE row == [scans[scan[w].id] EXCEPT !.finished = TRUE]
  <2>1. /\ Moves(w, "returned") /\ scans' = [scans EXCEPT ![scan[w].id] = row]
        /\ scan[w].id \in DOMAIN scans
    BY <1>ret, <1>ids, ReturnEffect
  <2>2. scans[scan[w].id] \in ScanRow
    BY <1>0, <2>1
  <2>3. /\ row \in ScanRow /\ row.domain = scans[scan[w].id].domain /\ row.ok = scans[scan[w].id].ok
        /\ row.found = scans[scan[w].id].found /\ row.finished
    BY <2>2 DEF ScanRow
  <2> HIDE DEF row
  <2>4. scans' \in Seq(ScanRow) /\ Len(scans') <= MaxScans /\ RowsKept /\ DOMAIN scans' = DOMAIN scans
    BY <2>1, <2>3, UpdatedRow
  <2> QED  BY <1>0, <1>ids, <1>ret, <2>1, <2>4
<1>4. CASE PickEarlier(w)
  <2> DEFINE others == OkScans(scan[w].domain) \ {scan[w].id}
  <2>1. scan[w].pc = "detections" /\ UNCHANGED changes
    BY <1>4, PickEarlierEffect
  <2>2. CASE others = {}
    <3>1. ScanReturns(w)
      BY <1>4, <2>2, PickEarlierEffect
    <3> QED  BY <1>ret, <2>1, <3>1
  <2>3. CASE others # {}
    <3>1. /\ Moves(w, "diff") /\ UNCHANGED scans /\ scan'[w].id = scan[w].id
          /\ scan'[w].earlier \in DOMAIN scans
      BY <1>4, <2>3, PickEarlierEffect
    <3> QED  BY <1>0, <1>ids, <2>1, <3>1
  <2> QED  BY <2>2, <2>3
<1>5. CASE ReadDetections(w)
  BY <1>0, <1>5, <1>ids, ReadDetectionsEffect
<1>6. CASE WriteChange(w)
  BY <1>0, <1>6, <1>ids, WriteChangeEffect
<1>7. CASE FinishScan(w)
  BY <1>7, <1>ret DEF FinishScan
<1> QED  BY <1>1, <1>2, <1>3, <1>4, <1>5, <1>6, <1>7 DEF ScanStep
-----------------------------------------------------------------------------
(* Scans and change events.                                                  *)

\* No two workers scan one domain.
DomainsApart == \A v, w \in Workers : Scans(v) /\ Scans(w) /\ v # w => scan[v].domain # scan[w].domain

\* The row of a scan in progress is the last OK one of its domain.
RowOfScan(w) ==
  LET i == scan[w].id IN
  /\ i \in DOMAIN scans /\ scans[i].domain = scan[w].domain /\ scans[i].ok /\ ~scans[i].finished
  /\ scans[i].found = scan[w].found
  /\ \A j \in OkScans(scan[w].domain) : j <= i

\* How far it has come: the detections stored, and of the changes to the OK scan before it those
\* recorded, are all but the ones still to do.
Progress(w) ==
  LET i == scan[w].id  e == scan[w].earlier IN
  /\ scan[w].pc = "detections" =>
       /\ scan[w].todo \subseteq scan[w].found /\ scans[i].stored = scan[w].found \ scan[w].todo
       /\ ChangesOf(i) = {}
  /\ scan[w].pc \in {"diff", "changes"} => Whole(i) /\ Before(i) # {} /\ e = Max(Before(i))
  /\ scan[w].pc = "diff" => ChangesOf(i) = {}
  /\ scan[w].pc = "changes" =>
       /\ scan[w].todo \subseteq Differ(e, i)
       /\ ChangesOf(i) = {RecordOf(e, i, t) : t \in Differ(e, i) \ scan[w].todo}

ReturnedRow(w) ==
  /\ scan[w].id \in DOMAIN scans /\ scans[scan[w].id].domain = scan[w].domain
  /\ scans[scan[w].id].finished

CallsFollowTheirRow ==
  \A w \in Workers : /\ Working(w) => RowOfScan(w) /\ Progress(w)
                     /\ scan[w].pc = "returned" => ReturnedRow(w)

\* An event says what tells the stored detections of two OK scans of a domain apart, the later of
\* them whole.
TellsApart(c) ==
  /\ c.later \in DOMAIN scans /\ c.earlier \in Before(c.later)
  /\ scans[c.later].ok /\ Whole(c.later)
  /\ c.technology \in Differ(c.earlier, c.later) /\ c = RecordOf(c.earlier, c.later, c.technology)

ChangesTellStoredScansApart == \A c \in changes : TellsApart(c)

RecordedInFull(i) ==
  ChangesOf(i) = IF Before(i) = {} THEN {}
                 ELSE {RecordOf(Max(Before(i)), i, t) : t \in Differ(Max(Before(i)), i)}

FinishedAreRecorded == \A i \in DOMAIN scans : scans[i].finished /\ scans[i].ok => RecordedInFull(i)

ScansInv == CallsFollowTheirRow /\ ChangesTellStoredScansApart /\ FinishedAreRecorded

LEMMA LatestBefore ==
  ASSUME Typed, NEW i \in DOMAIN scans, Before(i) # {}
  PROVE  Max(Before(i)) \in Before(i) /\ \A j \in Before(i) : Max(Before(i)) >= j
<1>1. Before(i) \in SUBSET (1..Len(scans)) /\ Len(scans) \in Nat
  BY TypeFacts DEF Before, OkScans
<1> QED  BY <1>1, MaxOfNumbers

\* What a step of w touches: its row k, an OK one and the last of the domain if it is there yet,
\* and the events about it.
WritesOnly(w, k) ==
  /\ RowsKept
  /\ \A i \in DOMAIN scans \ {k} : scans'[i] = scans[i]
  /\ \A j \in DOMAIN scans' \ DOMAIN scans : j = Len(scans) + 1 /\ scans'[j].domain = scan[w].domain
  /\ k \in DOMAIN scans => /\ scans[k].domain = scan[w].domain /\ scans[k].ok
                           /\ \A j \in OkScans(scan[w].domain) : j <= k
  /\ changes \subseteq changes' /\ \A c \in changes' \ changes : c.later = k

LEMMA Elsewhere ==
  ASSUME Typed, NEW w \in Workers, NEW k, WritesOnly(w, k),
         NEW i \in DOMAIN scans, scans[i].ok, i # k
  PROVE  /\ i \in DOMAIN scans' /\ scans'[i] = scans[i] /\ Whole(i)' = Whole(i)
         /\ Before(i)' = Before(i) /\ ChangesOf(i)' = ChangesOf(i)
         /\ \A j \in Before(i) : /\ j \in DOMAIN scans /\ scans'[j] = scans[j]
                                 /\ Differ(j, i)' = Differ(j, i)
                                 /\ \A t : RecordOf(j, i, t)' = RecordOf(j, i, t)
<1>0. DOMAIN scans = 1..Len(scans) /\ Len(scans) \in Nat
  BY TypeFacts
<1>1. i \in DOMAIN scans' /\ scans'[i] = scans[i] /\ Whole(i)' = Whole(i)
  BY DEF WritesOnly, RowsKept, Whole
<1>2. k \notin Before(i)
  BY <1>0 DEF WritesOnly, Before, OkScans
<1>3. Before(i)' = Before(i)
  <2>1. ASSUME NEW j \in Before(i) PROVE j \in Before(i)'
    BY <1>1, <2>1 DEF Before, OkScans, WritesOnly, RowsKept
  <2>2. ASSUME NEW j \in Before(i)' PROVE j \in Before(i)
    <3>1. j \in DOMAIN scans' /\ j < i /\ scans'[j].domain = scans'[i].domain /\ scans'[j].ok
      BY <2>2 DEF Before, OkScans
    <3>2. j \in DOMAIN scans
      BY <1>0, <3>1 DEF WritesOnly
    <3> QED  BY <1>1, <3>1, <3>2 DEF Before, OkScans, WritesOnly, RowsKept
  <2> QED  BY <2>1, <2>2
<1>4. ChangesOf(i)' = ChangesOf(i)
  BY DEF ChangesOf, WritesOnly
<1>5. ASSUME NEW j \in Before(i)
      PROVE  /\ j \in DOMAIN scans /\ scans'[j] = scans[j]
             /\ Differ(j, i)' = Differ(j, i)
             /\ \A t : RecordOf(j, i, t)' = RecordOf(j, i, t)
  <2>1. j \in DOMAIN scans /\ scans'[j] = scans[j]
    BY <1>2, <1>5 DEF Before, OkScans, WritesOnly
  <2> QED  BY <1>1, <2>1 DEF Differ, RecordOf
<1> QED  BY <1>1, <1>3, <1>4, <1>5

\* The other workers' calls, the finished scans and the events on record stay as they are.
LEMMA OthersFollow ==
  ASSUME Typed, CallsFollowTheirRow, DomainsApart, NEW w \in Workers, NEW k, WritesOnly(w, k),
         Scans(w), NEW v \in Workers \ {w}, scan'[v] = scan[v]
  PROVE  /\ Working(v)' => RowOfScan(v)' /\ Progress(v)'
         /\ scan'[v].pc = "returned" => ReturnedRow(v)'
<1>1. CASE Working(v)
  <2> DEFINE i == scan[v].id
  <2>1. RowOfScan(v) /\ Progress(v) /\ scan[v].domain # scan[w].domain
    BY <1>1 DEF CallsFollowTheirRow, DomainsApart, Scans, Working
  <2>2. i \in DOMAIN scans /\ scans[i].ok /\ i # k /\ scans[i].domain = scan[v].domain
    BY <2>1 DEF RowOfScan, WritesOnly
  <2>3. /\ i \in DOMAIN scans' /\ scans'[i] = scans[i] /\ Whole(i)' = Whole(i)
        /\ Before(i)' = Before(i) /\ ChangesOf(i)' = ChangesOf(i)
        /\ \A j \in Before(i) : /\ Differ(j, i)' = Differ(j, i)
                                /\ \A t : RecordOf(j, i, t)' = RecordOf(j, i, t)
    BY <2>2, Elsewhere
  <2>4. RowOfScan(v)'
    <3>1. \A j \in OkScans(scan[v].domain)' : j \in OkScans(scan[v].domain)
      BY <2>1 DEF OkScans, WritesOnly, RowsKept
    <3> QED  BY <2>1, <2>2, <2>3, <3>1 DEF RowOfScan
  <2>5. Progress(v)'
    <3> DEFINE e == scan[v].earlier
    <3>1. scan[v].pc \in {"diff", "changes"} => e = Max(Before(i)) /\ e \in Before(i)
      BY <2>1, <2>2, LatestBefore DEF Progress
    <3>2. scan[v].pc = "changes" =>
            /\ Differ(e, i)' = Differ(e, i) /\ \A t : RecordOf(e, i, t)' = RecordOf(e, i, t)
      BY <2>3, <3>1
    <3> QED  BY <2>1, <2>3, <3>1, <3>2 DEF Progress
  <2> QED  BY <1>1, <2>4, <2>5 DEF Working
<1>2. CASE scan[v].pc = "returned"
  <2>1. ReturnedRow(v)
    BY <1>2 DEF CallsFollowTheirRow
  <2> QED  BY <1>2, <2>1 DEF ReturnedRow, WritesOnly, RowsKept, Working
<1>3. CASE ~Working(v) /\ scan[v].pc # "returned"
  BY <1>3 DEF Working
<1> QED  BY <1>1, <1>2, <1>3

LEMMA OthersRecorded ==
  ASSUME Typed, FinishedAreRecorded, ChangesTellStoredScansApart, NEW w \in Workers, NEW k, WritesOnly(w, k)
  PROVE  /\ \A i \in DOMAIN scans \ {k} : scans'[i].finished /\ scans'[i].ok => RecordedInFull(i)'
         /\ \A c \in changes : c.later # k => TellsApart(c)'
<1>1. ASSUME NEW i \in DOMAIN scans \ {k}, scans'[i].finished, scans'[i].ok
      PROVE  RecordedInFull(i)'
  <2>1. scans[i].finished /\ scans[i].ok
    BY <1>1 DEF WritesOnly
  <2>2. RecordedInFull(i)
    BY <2>1 DEF FinishedAreRecorded
  <2>3. /\ Before(i)' = Before(i) /\ ChangesOf(i)' = ChangesOf(i)
        /\ \A j \in Before(i) : /\ Differ(j, i)' = Differ(j, i)
                                /\ \A t : RecordOf(j, i, t)' = RecordOf(j, i, t)
    BY <2>1, Elsewhere
  <2>4. CASE Before(i) = {}
    BY <2>2, <2>3, <2>4 DEF RecordedInFull
  <2>5. CASE Before(i) # {}
    <3> DEFINE e == Max(Before(i))
    <3>1. e \in Before(i)
      BY <2>5, LatestBefore
    <3>2. Differ(e, i)' = Differ(e, i) /\ \A t : RecordOf(e, i, t)' = RecordOf(e, i, t)
      BY <2>3, <3>1
    <3> QED  BY <2>2, <2>3, <2>5, <3>2 DEF RecordedInFull
  <2> QED  BY <2>4, <2>5
<1>2. ASSUME NEW c \in changes, c.later # k PROVE TellsApart(c)'
  <2>1. TellsApart(c)
    BY DEF ChangesTellStoredScansApart
  <2> DEFINE i == c.later
             e == c.earlier
  <2>2. i \in DOMAIN scans /\ scans[i].ok /\ e \in Before(i)
    BY <2>1 DEF TellsApart
  <2>3. /\ i \in DOMAIN scans' /\ scans'[i] = scans[i] /\ Whole(i)' = Whole(i)
        /\ Before(i)' = Before(i)
        /\ Differ(e, i)' = Differ(e, i) /\ \A t : RecordOf(e, i, t)' = RecordOf(e, i, t)
    BY <1>2, <2>2, Elsewhere
  <2> QED  BY <2>1, <2>3 DEF TellsApart
<1> QED  BY <1>1, <1>2

\* That a scan returned is all that a row says anew: what tells the rows apart stays.
LEMMA SameRows ==
  ASSUME Typed, DOMAIN scans' = DOMAIN scans, UNCHANGED changes,
         \A i \in DOMAIN scans : /\ scans'[i].domain = scans[i].domain /\ scans'[i].ok = scans[i].ok
                                 /\ scans'[i].found = scans[i].found /\ scans'[i].stored = scans[i].stored,
         NEW i \in DOMAIN scans
  PROVE  /\ Whole(i)' = Whole(i) /\ Before(i)' = Before(i) /\ ChangesOf(i)' = ChangesOf(i)
         /\ \A j \in DOMAIN scans : /\ Differ(j, i)' = Differ(j, i)
                                    /\ \A t : RecordOf(j, i, t)' = RecordOf(j, i, t)
         /\ RecordedInFull(i) => RecordedInFull(i)'
<1>1. Before(i)' = Before(i)
  BY DEF Before, OkScans
<1>2. \A j \in DOMAIN scans : /\ Differ(j, i)' = Differ(j, i)
                              /\ \A t : RecordOf(j, i, t)' = RecordOf(j, i, t)
  BY DEF Differ, RecordOf
<1>3. Whole(i)' = Whole(i) /\ ChangesOf(i)' = ChangesOf(i)
  BY DEF Whole, ChangesOf
<1>4. ASSUME RecordedInFull(i) PROVE RecordedInFull(i)'
  <2>1. CASE Before(i) = {}
    BY <1>1, <1>3, <1>4, <2>1 DEF RecordedInFull
  <2>2. CASE Before(i) # {}
    <3>1. PICK e : e = Max(Before(i))
      OBVIOUS
    <3>2. e \in DOMAIN scans
      BY <2>2, <3>1, LatestBefore DEF Before, OkScans
    <3>3. Max(Before(i))' = e
      BY <1>1, <3>1
    <3>4. ChangesOf(i) = {RecordOf(e, i, t) : t \in Differ(e, i)}
      BY <1>4, <2>2, <3>1 DEF RecordedInFull
    <3>5. ChangesOf(i)' = {RecordOf(e, i, t)' : t \in Differ(e, i)'}
      BY <1>2, <1>3, <3>2, <3>4
    <3> QED  BY <1>1, <2>2, <3>3, <3>5 DEF RecordedInFull
  <2> QED  BY <2>1, <2>2
<1> QED  BY <1>1, <1>2, <1>3, <1>4

\* A step of a scan keeps every call in step with its row, and every event and finished scan true.
LEMMA ScanStepKeeps ==
  ASSUME Typed, ScansInv, DomainsApart, NEW w \in Workers, ScanStep(w), scan[w].domain \in Domains
  PROVE  ScansInv'
<1>k. PICK k : k = scan[w].id
  OBVIOUS
<1>0. /\ scans \in Seq(ScanRow) /\ \A i \in DOMAIN scans : scans[i] \in ScanRow
      /\ scan \in [Workers -> ScanState] /\ DOMAIN scans = 1..Len(scans) /\ Len(scans) \in Nat
  BY TypeFacts
<1>typed. /\ RowsKept /\ Scans(w) /\ scan'[w].domain = scan[w].domain
          /\ \A v \in Workers \ {w} : scan'[v] = scan[v]
  BY ScanStepTyped
<1>mine. Working(w) => RowOfScan(w) /\ Progress(w)
  BY DEF ScansInv, CallsFollowTheirRow
<1>only. ASSUME Working(w), \A i \in DOMAIN scans \ {k} : scans'[i] = scans[i],
                DOMAIN scans' = DOMAIN scans,
                changes \subseteq changes', \A c \in changes' \ changes : c.later = k
         PROVE  WritesOnly(w, k)
  BY <1>k, <1>only, <1>mine, <1>typed DEF WritesOnly, RowOfScan
\* What is left to show of a step that writes row r alone.
<1>rest. ASSUME NEW r, WritesOnly(w, r),
                Working(w)' => RowOfScan(w)' /\ Progress(w)',
                scan'[w].pc = "returned" => ReturnedRow(w)',
                \A c \in changes' : c.later = r => TellsApart(c)',
                \A i \in DOMAIN scans' : i = r \/ i \notin DOMAIN scans =>
                  (scans'[i].finished /\ scans'[i].ok => RecordedInFull(i)')
         PROVE  ScansInv'
  <2>1. CallsFollowTheirRow'
    <3>1. ASSUME NEW v \in Workers \ {w}
          PROVE  /\ Working(v)' => RowOfScan(v)' /\ Progress(v)'
                 /\ scan'[v].pc = "returned" => ReturnedRow(v)'
      BY <1>rest, <1>typed, OthersFollow DEF ScansInv
    <3> QED  BY <1>rest, <3>1 DEF CallsFollowTheirRow
  <2>2. ChangesTellStoredScansApart'
    <3>1. ASSUME NEW c \in changes', c.later # r PROVE TellsApart(c)'
      BY <1>rest, <3>1, OthersRecorded DEF ScansInv, WritesOnly
    <3> QED  BY <1>rest, <3>1 DEF ChangesTellStoredScansApart
  <2>3. FinishedAreRecorded'
    <3>1. ASSUME NEW i \in DOMAIN scans', i \in DOMAIN scans, i # r,
                 scans'[i].finished, scans'[i].ok
          PROVE  RecordedInFull(i)'
      BY <1>rest, <3>1, OthersRecorded DEF ScansInv
    <3> QED  BY <1>rest, <3>1 DEF FinishedAreRecorded
  <2> QED  BY <2>1, <2>2, <2>3 DEF ScansInv
<1>1. CASE Analyze(w)
  <2>1. /\ scan'[w].pc = "insertScan" /\ UNCHANGED <<scans, changes>>
    BY <1>1, AnalyzeEffect DEF Moves
  <2>2. WritesOnly(w, 0) /\ 0 \notin DOMAIN scans'
    BY <1>0, <1>typed, <2>1 DEF WritesOnly
  <2>3. \A c \in changes' : c.later # 0
    BY <1>0, <2>1 DEF ScansInv, ChangesTellStoredScansApart, TellsApart
  <2>4. ~Working(w)' /\ scan'[w].pc # "returned"
    BY <2>1 DEF Working
  <2> QED  BY <1>rest, <2>1, <2>2, <2>3, <2>4
<1>2. CASE InsertScan(w)
  <2> DEFINE row == [domain |-> scan[w].domain, ok |-> scan[w].ok, found |-> scan[w].found,
                     stored |-> {}, finished |-> ~scan[w].ok]
             pc == IF scan[w].ok THEN "detections" ELSE "returned"
  <2>n. PICK n : n = Len(scans) + 1
    OBVIOUS
  <2>1. /\ row \in ScanRow /\ scans' = Append(scans, row) /\ UNCHANGED changes
        /\ n \in 1..MaxScans /\ scan'[w].pc = pc /\ scan'[w].id = n
        /\ scan'[w].found = scan[w].found /\ scan'[w].todo = scan[w].found
    BY <1>2, <2>n, InsertScanEffect DEF Moves
  <2>2. /\ row.domain = scan[w].domain /\ row.ok = scan[w].ok /\ row.found = scan[w].found
        /\ row.stored = {} /\ row.finished = ~row.ok
    OBVIOUS
  <2> HIDE DEF row
  <2>3. /\ DOMAIN scans' = DOMAIN scans \cup {n} /\ n \notin DOMAIN scans
        /\ scans'[n] = row /\ \A i \in DOMAIN scans : scans'[i] = scans[i]
    BY <1>0, <2>n, <2>1, AppendedRow
  <2>4. WritesOnly(w, n)
    BY <1>typed, <2>n, <2>1, <2>2, <2>3 DEF WritesOnly
  <2>5. ChangesOf(n)' = {} /\ \A c \in changes' : c.later # n
    BY <2>1, <2>3 DEF ChangesOf, ScansInv, ChangesTellStoredScansApart, TellsApart
  <2>6. ASSUME scan[w].ok PROVE RowOfScan(w)' /\ Progress(w)'
    <3>1. scan'[w].pc = "detections"
      BY <2>1, <2>6
    <3>2. \A j \in OkScans(scan[w].domain)' : j <= n
      BY <1>0, <2>n, <2>3 DEF OkScans
    <3>3. RowOfScan(w)'
      BY <1>typed, <2>1, <2>2, <2>3, <2>6, <3>2 DEF RowOfScan
    <3>4. Progress(w)'
      BY <2>1, <2>2, <2>3, <2>5, <3>1 DEF Progress
    <3> QED  BY <3>3, <3>4
  <2>7. ASSUME ~scan[w].ok PROVE ~Working(w)' /\ ReturnedRow(w)'
    BY <1>typed, <2>1, <2>2, <2>3, <2>7 DEF Working, ReturnedRow
  <2>8. ~(scans'[n].finished /\ scans'[n].ok)
    BY <2>2, <2>3
  <2>9. scan[w].ok => scan'[w].pc # "returned"
    BY <2>1
  <2> QED  BY <1>rest, <2>3, <2>4, <2>5, <2>6, <2>7, <2>8, <2>9
<1>3. CASE InsertDetection(w)
  <2>1. PICK t \in scan[w].todo : /\ scans' = [scans EXCEPT ![k].stored = @ \cup {t}]
                                  /\ scan'[w].todo = scan[w].todo \ {t}
    BY <1>k, <1>3, InsertDetectionEffect
  <2>2. /\ scan[w].pc = "detections" /\ scan'[w].pc = "detections" /\ UNCHANGED changes
        /\ scan'[w].id = k /\ scan'[w].found = scan[w].found
    BY <1>k, <1>3, InsertDetectionEffect DEF Moves
  <2>3. RowOfScan(w) /\ Progress(w) /\ Working(w)
    BY <1>mine, <2>2 DEF Working
  <2>4. /\ DOMAIN scans' = DOMAIN scans /\ \A i \in DOMAIN scans \ {k} : scans'[i] = scans[i]
        /\ k \in DOMAIN scans /\ scans'[k] = [scans[k] EXCEPT !.stored = @ \cup {t}]
    BY <1>0, <1>k, <2>1, <2>3 DEF RowOfScan
  <2>5. /\ scans'[k].domain = scans[k].domain /\ scans'[k].ok = scans[k].ok
        /\ scans'[k].found = scans[k].found /\ scans'[k].finished = scans[k].finished
        /\ scans'[k].stored = scans[k].stored \cup {t}
    BY <1>0, <2>4 DEF ScanRow
  <2>6. WritesOnly(w, k)
    BY <1>only, <2>2, <2>3, <2>4
  <2>7. ChangesOf(k) = {} /\ ChangesOf(k)' = {} /\ \A c \in changes' : c.later # k
    BY <1>k, <2>2, <2>3 DEF Progress, ChangesOf
  <2>8. RowOfScan(w)'
    <3>1. \A j \in OkScans(scan[w].domain)' : j \in OkScans(scan[w].domain)
      BY <1>typed, <2>4, <2>5 DEF OkScans
    <3> QED  BY <1>k, <1>typed, <2>2, <2>3, <2>4, <2>5, <3>1 DEF RowOfScan
  <2>9. Progress(w)'
    <3>1. /\ scan[w].todo \subseteq scan[w].found /\ t \in scan[w].todo
          /\ scans[k].stored = scan[w].found \ scan[w].todo
      BY <1>k, <2>1, <2>2, <2>3 DEF Progress
    <3>2. scans'[k].stored = scan[w].found \ (scan[w].todo \ {t})
      BY <2>5, <3>1
    <3> QED  BY <2>1, <2>2, <2>7, <3>1, <3>2 DEF Progress
  <2>10. ~scans'[k].finished
    BY <1>k, <2>3, <2>5 DEF RowOfScan
  <2> QED  BY <1>rest, <2>2, <2>4, <2>6, <2>7, <2>8, <2>9, <2>10
\* scanDomain returns, with every change on record.
<1>ret. ASSUME ScanReturns(w), Working(w), UNCHANGED changes, RecordedInFull(k) PROVE ScansInv'
  <2>1. /\ scan'[w].pc = "returned" /\ scan'[w].id = k
        /\ scans' = [scans EXCEPT ![k].finished = TRUE]
    BY <1>k, <1>ret, ReturnEffect DEF Moves
  <2>2. RowOfScan(w) /\ k \in DOMAIN scans /\ scans[k].domain = scan[w].domain
    BY <1>k, <1>mine, <1>ret DEF RowOfScan
  <2>3. /\ DOMAIN scans' = DOMAIN scans /\ \A i \in DOMAIN scans \ {k} : scans'[i] = scans[i]
        /\ scans'[k] = [scans[k] EXCEPT !.finished = TRUE] /\ scans[k] \in ScanRow
    BY <1>0, <2>1, <2>2
  <2>4. /\ scans'[k].domain = scans[k].domain /\ scans'[k].ok = scans[k].ok /\ scans'[k].finished
        /\ scans'[k].found = scans[k].found /\ scans'[k].stored = scans[k].stored
    BY <2>3 DEF ScanRow
  <2>5. \A i \in DOMAIN scans :
          /\ scans'[i].domain = scans[i].domain /\ scans'[i].ok = scans[i].ok
          /\ scans'[i].found = scans[i].found /\ scans'[i].stored = scans[i].stored
    BY <2>3, <2>4
  <2>6. WritesOnly(w, k)
    BY <1>only, <1>ret, <2>3
  <2>7. ASSUME NEW c \in changes', c.later = k PROVE TellsApart(c)'
    <3>1. TellsApart(c)
      BY <1>ret, <2>7 DEF ScansInv, ChangesTellStoredScansApart
    <3>2. c.earlier \in DOMAIN scans
      BY <3>1 DEF TellsApart, Before, OkScans
    <3>3. /\ Whole(k)' = Whole(k) /\ Before(k)' = Before(k)
          /\ \A j \in DOMAIN scans : /\ Differ(j, k)' = Differ(j, k)
                                     /\ \A t : RecordOf(j, k, t)' = RecordOf(j, k, t)
      BY <1>ret, <2>2, <2>3, <2>5, SameRows
    <3> QED  BY <2>2, <2>3, <2>4, <2>7, <3>1, <3>2, <3>3 DEF TellsApart
  <2>8. RecordedInFull(k)'
    BY <1>ret, <2>2, <2>3, <2>5, SameRows
  <2>9. ReturnedRow(w)' /\ ~Working(w)'
    BY <1>typed, <2>1, <2>2, <2>3, <2>4 DEF ReturnedRow, Working
  <2> QED  BY <1>rest, <2>3, <2>6, <2>7, <2>8, <2>9
\* A step that leaves the rows alone, on the same row.
<1>same. ASSUME UNCHANGED scans, Working(w), scan'[w].id = k, scan'[w].found = scan[w].found,
                scan'[w].pc \in {"diff", "changes"}
         PROVE  /\ RowOfScan(w) /\ Progress(w) /\ RowOfScan(w)' /\ k \in DOMAIN scans /\ Working(w)'
                /\ Before(k)' = Before(k) /\ Whole(k)' = Whole(k)
                /\ \A i, j : Differ(i, j)' = Differ(i, j)
                /\ \A i, j, t : RecordOf(i, j, t)' = RecordOf(i, j, t)
                /\ \A c : TellsApart(c)' <=> TellsApart(c)
  <2>1. RowOfScan(w) /\ Progress(w) /\ k \in DOMAIN scans /\ Working(w)'
    BY <1>k, <1>mine, <1>same DEF RowOfScan, Working
  <2>2. \A d : OkScans(d)' = OkScans(d)
    BY <1>same DEF OkScans
  <2>3. Before(k)' = Before(k) /\ Whole(k)' = Whole(k)
    BY <1>same, <2>2 DEF Before, Whole
  <2>4. /\ \A i, j : Differ(i, j)' = Differ(i, j)
        /\ \A i, j, t : RecordOf(i, j, t)' = RecordOf(i, j, t)
    BY <1>same DEF Differ, RecordOf
  <2>5. \A c : TellsApart(c)' <=> TellsApart(c)
    BY <1>same DEF TellsApart, Before, OkScans, Whole, Differ, RecordOf
  <2>6. RowOfScan(w)'
    BY <1>k, <1>typed, <1>same, <2>1, <2>2 DEF RowOfScan
  <2> QED  BY <2>1, <2>3, <2>4, <2>5, <2>6
<1>4. CASE PickEarlier(w)
  <2> DEFINE others == OkScans(scan[w].domain) \ {k}
  <2>1. scan[w].pc = "detections" /\ scan[w].todo = {} /\ UNCHANGED changes /\ Working(w)
    BY <1>4, PickEarlierEffect DEF Working
  <2>2. RowOfScan(w) /\ Progress(w)
    BY <1>mine, <2>1
  <2>3. others = Before(k)
    <3>1. k \in DOMAIN scans /\ scans[k].domain = scan[w].domain
          /\ \A j \in OkScans(scan[w].domain) : j <= k
      BY <1>k, <2>2 DEF RowOfScan
    <3>2. \A j \in OkScans(scan[w].domain) : j # k <=> j < k
      BY <1>0, <3>1 DEF OkScans
    <3> QED  BY <3>1, <3>2 DEF Before
  <2>4. ChangesOf(k) = {} /\ scans[k].stored = scan[w].found /\ Whole(k)
    BY <1>k, <2>1, <2>2 DEF Progress, RowOfScan, Whole
  <2>5. CASE others = {}
    <3>1. ScanReturns(w)
      BY <1>4, <1>k, <2>5, PickEarlierEffect
    <3>2. RecordedInFull(k)
      BY <2>3, <2>4, <2>5 DEF RecordedInFull
    <3> QED  BY <1>ret, <2>1, <3>1, <3>2
  <2>6. CASE others # {}
    <3>1. /\ scan'[w].pc = "diff" /\ UNCHANGED scans /\ scan'[w].id = k
          /\ scan'[w].found = scan[w].found /\ scan'[w].earlier = Max(others)
      BY <1>4, <1>k, <2>6, PickEarlierEffect DEF Moves
    <3>2. /\ RowOfScan(w)' /\ k \in DOMAIN scans /\ Working(w)'
          /\ Before(k)' = Before(k) /\ Whole(k)' = Whole(k)
          /\ \A c : TellsApart(c)' <=> TellsApart(c)
      BY <1>same, <2>1, <3>1
    <3>3. ChangesOf(k)' = {} /\ \A c \in changes' : c.later # k
      BY <2>1, <2>4 DEF ChangesOf
    <3> HIDE DEF others
    <3>4. Progress(w)'
      BY <2>3, <2>4, <2>6, <3>1, <3>2, <3>3 DEF Progress
    <3>5. WritesOnly(w, k)
      BY <1>only, <2>1, <3>1
    <3>6. ~scans'[k].finished
      BY <1>k, <2>2, <3>1 DEF RowOfScan
    <3> QED  BY <1>rest, <3>1, <3>2, <3>3, <3>4, <3>5, <3>6
  <2> QED  BY <2>5, <2>6
<1>5. CASE ReadDetections(w)
  <2>1. /\ scan[w].pc = "diff" /\ scan'[w].pc = "changes" /\ UNCHANGED <<scans, changes>>
        /\ scan'[w].id = k /\ scan'[w].earlier = scan[w].earlier /\ scan'[w].found = scan[w].found
        /\ scan'[w].todo = Differ(scan[w].earlier, k) /\ Working(w)
    BY <1>5, <1>k, ReadDetectionsEffect DEF Moves, Working
  <2>2. /\ RowOfScan(w) /\ Progress(w) /\ RowOfScan(w)' /\ k \in DOMAIN scans /\ Working(w)'
        /\ Before(k)' = Before(k) /\ Whole(k)' = Whole(k)
        /\ \A i, j : Differ(i, j)' = Differ(i, j)
    BY <1>same, <2>1
  <2>3. /\ ChangesOf(k) = {} /\ Whole(k) /\ Before(k) # {} /\ scan[w].earlier = Max(Before(k))
    BY <1>k, <2>1, <2>2 DEF Progress
  <2>4. ChangesOf(k)' = {} /\ \A c \in changes' : c.later # k
    BY <2>1, <2>3 DEF ChangesOf
  <2>5. Progress(w)'
    <3>1. \A i, j : Differ(i, j) \ Differ(i, j) = {}
      OBVIOUS
    <3>2. Differ(scan[w].earlier, k)' = scan'[w].todo
      BY <2>1, <2>2
    <3> QED  BY <2>1, <2>2, <2>3, <2>4, <3>1, <3>2 DEF Progress
  <2>6. WritesOnly(w, k)
    BY <1>only, <2>1
  <2>7. ~scans'[k].finished
    BY <1>k, <2>1, <2>2 DEF RowOfScan
  <2> QED  BY <1>rest, <2>1, <2>2, <2>4, <2>5, <2>6, <2>7
<1>6. CASE WriteChange(w)
  <2>e. PICK e : e = scan[w].earlier
    OBVIOUS
  <2>1. /\ scan[w].pc = "changes" /\ scan'[w].pc = "changes" /\ UNCHANGED scans
        /\ scan'[w].id = k /\ scan'[w].earlier = e /\ scan'[w].found = scan[w].found /\ Working(w)
    BY <1>6, <1>k, <2>e, WriteChangeEffect DEF Moves, Working
  <2>2. PICK t \in scan[w].todo : /\ changes' = changes \cup {RecordOf(e, k, t)}
                                  /\ scan'[w].todo = scan[w].todo \ {t}
    BY <1>6, <1>k, <2>e, WriteChangeEffect
  <2>3. /\ RowOfScan(w) /\ Progress(w) /\ RowOfScan(w)' /\ k \in DOMAIN scans /\ Working(w)'
        /\ Before(k)' = Before(k) /\ Whole(k)' = Whole(k)
        /\ \A i, j : Differ(i, j)' = Differ(i, j)
        /\ \A i, j, u : RecordOf(i, j, u)' = RecordOf(i, j, u)
        /\ \A c : TellsApart(c)' <=> TellsApart(c)
    BY <1>same, <2>1
  <2>4. /\ Whole(k) /\ Before(k) # {} /\ e = Max(Before(k)) /\ scan[w].todo \subseteq Differ(e, k)
        /\ ChangesOf(k) = {RecordOf(e, k, u) : u \in Differ(e, k) \ scan[w].todo}
    BY <1>k, <2>e, <2>1, <2>3 DEF Progress
  <2>5. RecordOf(e, k, t).later = k /\ RecordOf(e, k, t).earlier = e /\ RecordOf(e, k, t).technology = t
    BY DEF RecordOf
  <2>6. ChangesOf(k)' = ChangesOf(k) \cup {RecordOf(e, k, t)}
    BY <2>2, <2>5 DEF ChangesOf
  <2>7. Progress(w)'
    <3>1. Differ(e, k) \ scan'[w].todo = (Differ(e, k) \ scan[w].todo) \cup {t}
      BY <2>2, <2>4
    <3>2. ChangesOf(k)' = {RecordOf(e, k, u) : u \in Differ(e, k) \ scan'[w].todo}
      BY <2>4, <2>6, <3>1
    <3>3. {RecordOf(e, k, u)' : u \in Differ(e, k) \ scan'[w].todo}
            = {RecordOf(e, k, u) : u \in Differ(e, k) \ scan'[w].todo}
      BY <2>3
    <3>4. scan'[w].todo \subseteq Differ(e, k)
      BY <2>2, <2>4
    <3> QED  BY <2>1, <2>3, <2>4, <3>2, <3>3, <3>4 DEF Progress
  <2>8. TellsApart(RecordOf(e, k, t))
    <3>1. e \in Before(k)
      BY <2>3, <2>4, LatestBefore
    <3>2. scans[k].ok
      BY <1>k, <2>3 DEF RowOfScan
    <3> QED  BY <2>2, <2>3, <2>4, <2>5, <3>1, <3>2 DEF TellsApart
  <2>9. \A c \in changes' : c.later = k => TellsApart(c)'
    BY <2>2, <2>3, <2>8 DEF ScansInv, ChangesTellStoredScansApart
  <2>10. WritesOnly(w, k)
    BY <1>only, <2>1, <2>2, <2>5
  <2>11. ~scans'[k].finished
    BY <1>k, <2>1, <2>3 DEF RowOfScan
  <2> QED  BY <1>rest, <2>1, <2>3, <2>7, <2>9, <2>10, <2>11
<1>7. CASE FinishScan(w)
  <2>1. scan[w].pc = "changes" /\ scan[w].todo = {} /\ ScanReturns(w) /\ UNCHANGED changes /\ Working(w)
    BY <1>7 DEF FinishScan, Working
  <2>2. RecordedInFull(k)
    <3>1. /\ Before(k) # {} /\ scan[w].earlier = Max(Before(k))
          /\ ChangesOf(k) = {RecordOf(scan[w].earlier, k, t) : t \in Differ(scan[w].earlier, k) \ {}}
      BY <1>k, <1>mine, <2>1 DEF Progress
    <3> QED  BY <3>1 DEF RecordedInFull
  <2> QED  BY <1>ret, <2>1, <2>2
<1> QED  BY <1>1, <1>2, <1>3, <1>4, <1>5, <1>6, <1>7 DEF ScanStep
-----------------------------------------------------------------------------
(* The batch calls: four shapes of step.                                     *)

SameBatch == /\ batch'.running = batch.running /\ batch'.kind = batch.kind /\ batch'.run = batch.run
             /\ batch.done \subseteq batch'.done /\ batch.errors \subseteq batch'.errors

\* Worker w's call stays in step with its task.
InStep(w) ==
  /\ task[w].pc \in {"check", "score"} => batch.kind = "score"
  /\ Scans(w) <=> task[w].pc = "scan"
  /\ Scans(w) => /\ scan[w].domain \in Domains
                 /\ scan[w].domain = IF batch.kind = "scan" THEN task[w].item ELSE DomainOf[task[w].item]

\* Row j is all that changes, and of it only what the checkpoint in memory says.
SavesAtMost ==
  \A j \in Runs :
    /\ jobRuns'[j].status = jobRuns[j].status /\ jobRuns'[j].kind = jobRuns[j].kind
    /\ \/ jobRuns'[j].done = jobRuns[j].done /\ jobRuns'[j].errors = jobRuns[j].errors
       \/ batch.running /\ j = batch.run /\ jobRuns'[j].done = batch.done /\ jobRuns'[j].errors = batch.errors

\* A worker goes on with its item, or is through with it.
Works(w) ==
  /\ TypeOK' /\ IdsAreKnown' /\ InStep(w)' /\ SameBatch /\ batch'.queue = batch.queue /\ SavesAtMost
  /\ Active(w) /\ (Active(w)' => task'[w].item = task[w].item)
  /\ \A v \in Workers \ {w} : task'[v] = task[v] /\ scan'[v] = scan[v]

\* A worker takes item i.
Takes(w, i) ==
  /\ TypeOK' /\ IdsAreKnown' /\ InStep(w)' /\ SameBatch /\ SavesAtMost
  /\ batch.running /\ ~Active(w) /\ task'[w].item = i
  /\ i \in batch.queue /\ batch'.queue = batch.queue \ {i} /\ batch'.done = batch.done
  /\ batch.kind = "score" => \A v \in Workers : ~Active(v)
  /\ \A v \in Workers \ {w} : task'[v] = task[v] /\ scan'[v] = scan[v]

\* A call of run j begins, with the checkpoint the run has.
Begins(j) ==
  /\ TypeOK' /\ UNCHANGED <<scan, task>> /\ ~batch.running /\ j \in Runs
  /\ batch'.run = j /\ batch'.kind = jobRuns'[j].kind /\ batch'.queue \subseteq ItemsOf(batch'.kind)
  /\ batch'.done = jobRuns[j].done /\ batch'.errors = jobRuns[j].errors
  /\ jobRuns'[j].status # "none" /\ (jobRuns[j].done # {} => jobRuns'[j].kind = jobRuns[j].kind)
  /\ jobRuns'[j].done = jobRuns[j].done /\ jobRuns'[j].errors = jobRuns[j].errors
  /\ \A i \in Runs \ {j} : jobRuns'[i] = jobRuns[i]

\* The call is over.
Ends ==
  /\ TypeOK' /\ ~batch'.running /\ \A w \in Workers : task'[w] = NoTask /\ scan'[w] = NoScan
  /\ \A j \in Runs : /\ jobRuns'[j].done = jobRuns[j].done /\ jobRuns'[j].errors = jobRuns[j].errors
                     /\ jobRuns'[j].kind = jobRuns[j].kind
                     /\ jobRuns'[j].status = "none" => jobRuns[j].status = "none"

\* What the scans' own state does in all steps but theirs.
Quiet ==
  /\ UNCHANGED <<scans, changes>> /\ scan' \in [Workers -> ScanState]
  /\ \A v \in Workers : scan'[v] = scan[v] \/ scan'[v].pc \in {"idle", "analyze"}

LEMMA QuietTyped ==
  ASSUME Typed, Quiet
  PROVE  ScansTypeOK' /\ IdsAreKnown'
BY DEF Typed, TypeOK, ScansTypeOK, IdsAreKnown, Quiet, Working

LEMMA BatchUpdates ==
  ASSUME NEW b \in BatchState
  PROVE  /\ \A x \in SUBSET Items : /\ [b EXCEPT !.queue = x] \in BatchState
                                    /\ [b EXCEPT !.done = x] \in BatchState
                                    /\ [b EXCEPT !.errors = x] \in BatchState
         /\ [b EXCEPT !.rejected = TRUE] \in BatchState
BY DEF BatchState

LEMMA TaskUpdates ==
  ASSUME Typed, NEW w \in Workers,
         NEW pc \in {"idle", "check", "scan", "score", "checkpoint", "dead"}
  PROVE  /\ [task EXCEPT ![w].pc = pc] \in [Workers -> TaskState]
         /\ [task EXCEPT ![w].pc = pc][w].pc = pc /\ [task EXCEPT ![w].pc = pc][w].item = task[w].item
         /\ \A v \in Workers \ {w} : [task EXCEPT ![w].pc = pc][v] = task[v]
<1>1. task \in [Workers -> TaskState]
  BY DEF Typed, TypeOK
<1> QED  BY <1>1 DEF TaskState

LEMMA StateFacts ==
  ASSUME Typed
  PROVE  /\ ScansTypeOK /\ jobRuns \in [Runs -> RunState] /\ scored \subseteq Runs \X Prospects
         /\ batch \in BatchState /\ task \in [Workers -> TaskState] /\ scan \in [Workers -> ScanState]
         /\ \A w \in Workers : InStep(w)
         /\ \A w \in Workers : Active(w) =>
              /\ batch.running /\ batch.run \in Runs /\ jobRuns[batch.run].kind = batch.kind
              /\ task[w].item \in ItemsOf(batch.kind) /\ task[w].item \in Items
BY NoItemAssumption DEF Typed, TypeOK, ScansTypeOK, CallsAreAboutRuns, InStep, Active, Scans, ItemsOf, Items

LEMMA TakeEffect ==
  ASSUME Typed, NEW w \in Workers, NEW i, TakeItem(w, i)
  PROVE  Takes(w, i) /\ Quiet /\ UNCHANGED <<jobRuns, scored>>
<1> DEFINE pc == IF batch.kind = "scan" THEN "scan" ELSE "check"
<1>0. /\ ScansTypeOK /\ jobRuns \in [Runs -> RunState] /\ scored \subseteq Runs \X Prospects
      /\ batch \in BatchState /\ task \in [Workers -> TaskState] /\ scan \in [Workers -> ScanState]
      /\ InStep(w)
  BY StateFacts
<1>1. /\ batch.running /\ task[w].pc = "idle" /\ i \in batch.queue
      /\ batch.kind = "score" => \A v \in Workers : task[v].pc = "idle"
      /\ batch' = [batch EXCEPT !.queue = batch.queue \ {i}]
      /\ task' = [task EXCEPT ![w] = [pc |-> pc, item |-> i]]
      /\ scan' = IF batch.kind = "scan" THEN [scan EXCEPT ![w] = CallOn(i)] ELSE scan
      /\ UNCHANGED <<scans, changes, jobRuns, scored>>
  BY <1>0 DEF TakeItem
<1>2. i \in ItemsOf(batch.kind) /\ i \in Items
  BY <1>1 DEF Typed, CallsAreAboutRuns, ItemsOf, Items
<1>3. /\ batch' \in BatchState /\ batch'.queue = batch.queue \ {i} /\ batch'.done = batch.done
      /\ batch'.errors = batch.errors
      /\ batch'.running = batch.running /\ batch'.kind = batch.kind /\ batch'.run = batch.run
  <2>1. batch.queue \ {i} \in SUBSET Items
    BY <1>0 DEF BatchState
  <2> QED  BY <1>0, <1>1, <2>1, BatchUpdates DEF BatchState
<1>4. /\ task' \in [Workers -> TaskState] /\ task'[w].pc = pc /\ task'[w].item = i
      /\ \A v \in Workers \ {w} : task'[v] = task[v]
  <2>1. [pc |-> pc, item |-> i] \in TaskState
    BY <1>2 DEF TaskState
  <2> QED  BY <1>0, <1>1, <2>1
<1>5. Quiet /\ InStep(w)' /\ \A v \in Workers \ {w} : scan'[v] = scan[v]
  <2>1. CASE batch.kind = "scan"
    <3>1. i \in Domains /\ scan' = [scan EXCEPT ![w] = CallOn(i)] /\ pc = "scan"
      BY <1>1, <1>2, <2>1 DEF ItemsOf
    <3>2. CallOn(i) \in ScanState /\ CallOn(i).pc = "analyze" /\ CallOn(i).domain = i
      BY <3>1, Records
    <3> QED  BY <1>0, <1>1, <1>3, <1>4, <2>1, <3>1, <3>2 DEF Quiet, InStep, Scans
  <2>2. CASE batch.kind # "scan"
    <3>1. batch.kind = "score"
      BY <1>0, <2>2 DEF BatchState, Kinds
    <3> QED  BY <1>0, <1>1, <1>3, <1>4, <2>2, <3>1 DEF Quiet, InStep, Scans
  <2> QED  BY <2>1, <2>2
<1>6. TypeOK' /\ IdsAreKnown'
  BY <1>0, <1>1, <1>3, <1>4, <1>5, QuietTyped DEF TypeOK
<1> HIDE DEF pc
<1>7. SameBatch /\ SavesAtMost /\ ~Active(w) /\ (batch.kind = "score" => \A v \in Workers : ~Active(v))
  BY <1>1, <1>3 DEF SameBatch, SavesAtMost, Active
<1> QED  BY <1>1, <1>3, <1>4, <1>5, <1>6, <1>7 DEF Takes

LEMMA BeginEffect ==
  ASSUME Typed, NEW j \in Runs,
         \/ \E kind \in Kinds : \E items \in SUBSET ItemsOf(kind) : StartBatch(j, kind, items)
         \/ \E items \in SUBSET ItemsOf(jobRuns[j].kind) : ResumeBatch(j, items)
  PROVE  Begins(j) /\ Quiet /\ UNCHANGED scored
<1>0. /\ ScansTypeOK /\ jobRuns \in [Runs -> RunState] /\ scored \subseteq Runs \X Prospects
      /\ task \in [Workers -> TaskState] /\ scan \in [Workers -> ScanState]
      /\ jobRuns[j] \in RunState
  BY StateFacts
<1> USE DEF Kinds
<1>1. ASSUME NEW kind \in Kinds, NEW items \in SUBSET ItemsOf(kind), StartBatch(j, kind, items)
      PROVE  Begins(j) /\ Quiet /\ UNCHANGED scored
  <2> DEFINE row == [NoRow EXCEPT !.status = "running", !.kind = kind]
  <2>1. /\ ~batch.running /\ jobRuns[j].status = "none"
        /\ jobRuns' = [jobRuns EXCEPT ![j] = row]
        /\ batch' = [NoBatch EXCEPT !.running = TRUE, !.kind = kind, !.run = j, !.queue = items]
        /\ UNCHANGED <<scanVars, scored, task>>
    BY <1>1 DEF StartBatch
  <2>2. row \in RunState /\ row.status = "running" /\ row.kind = kind /\ row.done = {} /\ row.errors = {}
    BY DEF NoRow, RunState
  <2> HIDE DEF row
  <2>3. jobRuns[j].done = {} /\ jobRuns[j].errors = {}
    BY <2>1 DEF Typed, FreshRuns
  <2>4. /\ jobRuns' \in [Runs -> RunState] /\ jobRuns'[j] = row
        /\ \A i \in Runs \ {j} : jobRuns'[i] = jobRuns[i]
    BY <1>0, <2>1, <2>2
  <2>5. items \in SUBSET Items
    BY DEF ItemsOf, Items
  <2>6. /\ batch' \in BatchState /\ batch'.run = j /\ batch'.kind = kind /\ batch'.queue = items
        /\ batch'.done = {} /\ batch'.errors = {}
    BY <2>1, <2>5 DEF NoBatch, BatchState
  <2>7. TypeOK'
    BY <1>0, <2>1, <2>4, <2>6 DEF TypeOK, ScansTypeOK, scanVars
  <2> QED  BY <1>0, <2>1, <2>2, <2>3, <2>4, <2>6, <2>7 DEF Begins, Quiet, scanVars
<1>2. ASSUME NEW items \in SUBSET ItemsOf(jobRuns[j].kind), ResumeBatch(j, items)
      PROVE  Begins(j) /\ Quiet /\ UNCHANGED scored
  <2> DEFINE row == [jobRuns[j] EXCEPT !.status = "running"]
             queue == items \ (jobRuns[j].done \cup jobRuns[j].errors)
  <2>1. /\ ~batch.running /\ jobRuns[j].status # "none"
        /\ jobRuns' = [jobRuns EXCEPT ![j] = row]
        /\ batch' = [running |-> TRUE, kind |-> jobRuns[j].kind, run |-> j,
                     done |-> jobRuns[j].done, errors |-> jobRuns[j].errors,
                     queue |-> queue, rejected |-> FALSE]
        /\ UNCHANGED <<scanVars, scored, task>>
    BY <1>2 DEF ResumeBatch, Resume
  <2>2. /\ row \in RunState /\ row.status = "running" /\ row.kind = jobRuns[j].kind
        /\ row.done = jobRuns[j].done /\ row.errors = jobRuns[j].errors
    BY <1>0 DEF RunState
  <2>3. queue \in SUBSET Items /\ queue \subseteq ItemsOf(jobRuns[j].kind)
    BY DEF ItemsOf, Items
  <2> HIDE DEF row, queue
  <2>4. /\ jobRuns' \in [Runs -> RunState] /\ jobRuns'[j] = row
        /\ \A i \in Runs \ {j} : jobRuns'[i] = jobRuns[i]
    BY <1>0, <2>1, <2>2
  <2>5. /\ batch' \in BatchState /\ batch'.run = j /\ batch'.kind = jobRuns[j].kind
        /\ batch'.queue = queue /\ batch'.done = jobRuns[j].done /\ batch'.errors = jobRuns[j].errors
    BY <1>0, <2>1, <2>3 DEF BatchState, RunState
  <2>6. TypeOK'
    BY <1>0, <2>1, <2>4, <2>5 DEF TypeOK, ScansTypeOK, scanVars
  <2> QED  BY <1>0, <2>1, <2>2, <2>3, <2>4, <2>5, <2>6 DEF Begins, Quiet, scanVars
<1> QED  BY <1>1, <1>2

LEMMA EndEffect ==
  ASSUME Typed, Complete \/ Rejected \/ Crash
  PROVE  Ends /\ Quiet /\ UNCHANGED scored
<1>0. /\ ScansTypeOK /\ jobRuns \in [Runs -> RunState] /\ scored \subseteq Runs \X Prospects
  BY StateFacts
<1>1. EndCall /\ UNCHANGED <<scans, changes, scored>>
  BY DEF Complete, Rejected, Crash
<1>2. /\ task' \in [Workers -> TaskState] /\ scan' \in [Workers -> ScanState] /\ batch' \in BatchState
      /\ ~batch'.running /\ \A w \in Workers : task'[w] = NoTask /\ scan'[w] = NoScan
  BY <1>1, Records DEF EndCall
<1>3. /\ jobRuns' \in [Runs -> RunState]
      /\ \A j \in Runs : /\ jobRuns'[j].done = jobRuns[j].done /\ jobRuns'[j].errors = jobRuns[j].errors
                         /\ jobRuns'[j].kind = jobRuns[j].kind
                         /\ jobRuns'[j].status = "none" => jobRuns[j].status = "none"
  <2>1. CASE UNCHANGED jobRuns
    BY <1>0, <2>1
  <2>2. CASE Complete
    BY <1>0, <2>2, ZenonT(40) DEF Complete, RunState
  <2> QED  BY <2>1, <2>2 DEF Rejected, Crash
<1>4. Quiet
  BY <1>1, <1>2, Records DEF Quiet
<1>5. TypeOK'
  BY <1>0, <1>1, <1>2, <1>3, <1>4, QuietTyped DEF TypeOK
<1> QED  BY <1>1, <1>2, <1>3, <1>4, <1>5 DEF Ends

\* The work an entry with a result stands for.
FinishedWork(j, kind, i) ==
  IF kind = "scan" THEN \E n \in DOMAIN scans : scans[n].domain = i /\ scans[n].finished
  ELSE <<j, i>> \in scored

\* The facts about a worker's step from which it is one of Works.
LEMMA WorksFrom ==
  ASSUME Typed, NEW w \in Workers, Active(w), Quiet, InStep(w)', SameBatch, batch'.queue = batch.queue,
         batch' \in BatchState, task' \in [Workers -> TaskState],
         jobRuns' \in [Runs -> RunState], scored' \subseteq Runs \X Prospects, SavesAtMost,
         Active(w)' => task'[w].item = task[w].item,
         \A v \in Workers \ {w} : task'[v] = task[v] /\ scan'[v] = scan[v]
  PROVE  Works(w)
<1>1. ScansTypeOK' /\ IdsAreKnown'
  BY QuietTyped
<1> QED  BY <1>1 DEF Works, TypeOK

LEMMA CheckEffect ==
  ASSUME Typed, NEW w \in Workers, CheckScanned(w)
  PROVE  Works(w) /\ Quiet /\ UNCHANGED scored /\ batch'.done = batch.done
<1>0. /\ jobRuns \in [Runs -> RunState] /\ scored \subseteq Runs \X Prospects
      /\ batch \in BatchState /\ task \in [Workers -> TaskState] /\ scan \in [Workers -> ScanState]
      /\ InStep(w)
  BY StateFacts
<1> DEFINE d == DomainOf[task[w].item]
<1>1. task[w].pc = "check" /\ UNCHANGED <<scans, changes, jobRuns, scored, batch>> /\ Active(w)
  BY DEF CheckScanned, Active
<1>2. batch.kind = "score" /\ d \in Domains \cup {NoDomain}
  <2>1. batch.kind = "score" /\ task[w].item \in ItemsOf(batch.kind)
    BY <1>0, <1>1, StateFacts DEF InStep
  <2> QED  BY <2>1, DomainOfAssumption DEF ItemsOf
<1>3. \/ /\ task' = [task EXCEPT ![w].pc = "scan"] /\ scan' = [scan EXCEPT ![w] = CallOn(d)]
         /\ d # NoDomain
      \/ task' = [task EXCEPT ![w].pc = "score"] /\ UNCHANGED scan
  BY DEF CheckScanned
<1>4. SameBatch /\ SavesAtMost
  BY <1>1 DEF SameBatch, SavesAtMost
<1>5. CASE /\ task' = [task EXCEPT ![w].pc = "scan"] /\ scan' = [scan EXCEPT ![w] = CallOn(d)]
           /\ d # NoDomain
  <2>1. CallOn(d) \in ScanState /\ CallOn(d).pc = "analyze" /\ CallOn(d).domain = d /\ d \in Domains
    BY <1>2, <1>5, Records
  <2>2. /\ task' \in [Workers -> TaskState] /\ task'[w].pc = "scan" /\ task'[w].item = task[w].item
        /\ \A v \in Workers \ {w} : task'[v] = task[v]
    BY <1>5, TaskUpdates
  <2>3. /\ scan' \in [Workers -> ScanState] /\ scan'[w] = CallOn(d)
        /\ \A v \in Workers \ {w} : scan'[v] = scan[v]
    BY <1>0, <1>5, <2>1
  <2>4. Quiet
    BY <1>1, <2>1, <2>3 DEF Quiet
  <2>5. InStep(w)'
    BY <1>1, <1>2, <2>1, <2>2, <2>3 DEF InStep, Scans
  <2>6. Works(w)
    BY <1>0, <1>1, <1>4, <2>2, <2>3, <2>4, <2>5, WorksFrom
  <2> QED  BY <1>1, <2>4, <2>6
<1>6. CASE task' = [task EXCEPT ![w].pc = "score"] /\ UNCHANGED scan
  <2>1. /\ task' \in [Workers -> TaskState] /\ task'[w].pc = "score" /\ task'[w].item = task[w].item
        /\ \A v \in Workers \ {w} : task'[v] = task[v]
    BY <1>6, TaskUpdates
  <2>2. Quiet
    BY <1>0, <1>1, <1>6 DEF Quiet
  <2>3. InStep(w)'
    BY <1>0, <1>1, <1>2, <1>6, <2>1 DEF InStep, Scans
  <2>4. Works(w)
    BY <1>0, <1>1, <1>4, <1>6, <2>1, <2>2, <2>3, WorksFrom
  <2> QED  BY <1>1, <2>2, <2>4
<1> QED  BY <1>3, <1>5, <1>6

LEMMA ScanningEffect ==
  ASSUME Typed, NEW w \in Workers, Scanning(w)
  PROVE  Works(w) /\ RowsKept /\ UNCHANGED <<scored, batch>>
<1>0. /\ jobRuns \in [Runs -> RunState] /\ scored \subseteq Runs \X Prospects
      /\ batch \in BatchState /\ task \in [Workers -> TaskState] /\ InStep(w)
  BY StateFacts
<1>1. task[w].pc = "scan" /\ ScanStep(w) /\ UNCHANGED <<jobRuns, scored, batch, task>> /\ Active(w)
  BY DEF Scanning, Active
<1>2. scan[w].domain \in Domains
  BY <1>0, <1>1 DEF InStep
<1>3. /\ ScansTypeOK' /\ IdsAreKnown' /\ RowsKept /\ Scans(w)' /\ Scans(w)
      /\ scan'[w].domain = scan[w].domain /\ \A v \in Workers \ {w} : scan'[v] = scan[v]
  BY <1>1, <1>2, ScanStepTyped
<1>4. TypeOK' /\ SameBatch /\ SavesAtMost
  BY <1>0, <1>1, <1>3 DEF TypeOK, SameBatch, SavesAtMost
<1>5. InStep(w)'
  BY <1>0, <1>1, <1>3 DEF InStep
<1> QED  BY <1>1, <1>3, <1>4, <1>5 DEF Works

\* A worker whose scan, if it had one, is over.
LEMMA ScanOver ==
  ASSUME Typed, NEW w \in Workers, scan' = [scan EXCEPT ![w] = NoScan], UNCHANGED <<scans, changes>>
  PROVE  Quiet /\ ~Scans(w)' /\ \A v \in Workers \ {w} : scan'[v] = scan[v]
<1>1. scan \in [Workers -> ScanState]
  BY StateFacts
<1> QED  BY <1>1, Records DEF Quiet, Scans

LEMMA ReturnedEffect ==
  ASSUME Typed, ScansInv, NEW w \in Workers, ScanReturned(w)
  PROVE  /\ Works(w) /\ Quiet /\ UNCHANGED scored
         /\ \A i \in batch'.done \ batch.done : FinishedWork(batch.run, batch.kind, i)'
<1>0. /\ jobRuns \in [Runs -> RunState] /\ scored \subseteq Runs \X Prospects
      /\ batch \in BatchState /\ task \in [Workers -> TaskState] /\ InStep(w)
  BY StateFacts
<1>1. /\ scan[w].pc = "returned" /\ scan' = [scan EXCEPT ![w] = NoScan]
      /\ UNCHANGED <<scans, changes, jobRuns, scored>> /\ Scans(w)
  BY DEF ScanReturned, Scans
<1>2. Quiet /\ ~Scans(w)' /\ \A v \in Workers \ {w} : scan'[v] = scan[v]
  BY <1>1, ScanOver
<1>3. Active(w) /\ task[w].item \in Items /\ SavesAtMost
  <2>1. Active(w)
    BY <1>0, <1>1 DEF InStep, Active
  <2> QED  BY <1>1, <2>1, StateFacts DEF SavesAtMost
<1>4. CASE batch.kind = "scan"
  <2>1. /\ task' = [task EXCEPT ![w].pc = "checkpoint"]
        /\ batch' = [batch EXCEPT !.done = batch.done \cup {task[w].item}]
    BY <1>0, <1>4 DEF ScanReturned, BatchState
  <2>2. /\ task' \in [Workers -> TaskState] /\ task'[w].pc = "checkpoint" /\ task'[w].item = task[w].item
        /\ \A v \in Workers \ {w} : task'[v] = task[v]
    BY <2>1, TaskUpdates
  <2>3. /\ batch' \in BatchState /\ SameBatch /\ batch'.queue = batch.queue
        /\ batch'.done = batch.done \cup {task[w].item} /\ batch'.kind = "scan"
    <3>1. batch.done \cup {task[w].item} \in SUBSET Items
      BY <1>0, <1>3 DEF BatchState
    <3>2. batch' \in BatchState
      BY <1>0, <2>1, <3>1, BatchUpdates
    <3> QED  BY <1>0, <1>4, <2>1, <3>2 DEF BatchState, SameBatch
  <2>4. InStep(w)'
    BY <1>2, <2>2 DEF InStep
  <2>5. Works(w)
    BY <1>0, <1>1, <1>2, <1>3, <2>2, <2>3, <2>4, WorksFrom
  <2>6. FinishedWork(batch.run, batch.kind, task[w].item)'
    <3>1. ReturnedRow(w) /\ scan[w].domain = task[w].item
      BY <1>0, <1>1, <1>4 DEF ScansInv, CallsFollowTheirRow, InStep
    <3> QED  BY <1>1, <2>2, <2>3, <3>1 DEF FinishedWork, ReturnedRow
  <2> QED  BY <1>1, <1>2, <2>2, <2>3, <2>5, <2>6
<1>5. CASE batch.kind # "scan"
  <2>1. task' = [task EXCEPT ![w].pc = "score"] /\ UNCHANGED batch
    BY <1>5 DEF ScanReturned
  <2>2. /\ task' \in [Workers -> TaskState] /\ task'[w].pc = "score" /\ task'[w].item = task[w].item
        /\ \A v \in Workers \ {w} : task'[v] = task[v]
    BY <2>1, TaskUpdates
  <2>3. InStep(w)'
    BY <1>0, <1>2, <1>5, <2>1, <2>2 DEF InStep, BatchState, Kinds
  <2>4. Works(w)
    BY <1>0, <1>1, <1>2, <1>3, <2>1, <2>2, <2>3, WorksFrom DEF SameBatch
  <2> QED  BY <1>1, <1>2, <2>1, <2>4
<1> QED  BY <1>4, <1>5

LEMMA InsertScoreEffect ==
  ASSUME Typed, NEW w \in Workers, InsertScore(w)
  PROVE  /\ Works(w) /\ Quiet /\ scored \subseteq scored'
         /\ \A i \in batch'.done \ batch.done : FinishedWork(batch.run, batch.kind, i)'
<1>0. /\ jobRuns \in [Runs -> RunState] /\ scored \subseteq Runs \X Prospects
      /\ batch \in BatchState /\ task \in [Workers -> TaskState] /\ InStep(w)
      /\ scan \in [Workers -> ScanState]
  BY StateFacts
<1>1. /\ task[w].pc = "score" /\ UNCHANGED <<scanVars, jobRuns>> /\ Active(w)
      /\ scored' = scored \cup {<<batch.run, task[w].item>>}
      /\ task' = [task EXCEPT ![w].pc = "checkpoint"]
      /\ batch' = [batch EXCEPT !.done = batch.done \cup {task[w].item}]
  BY <1>0 DEF InsertScore, Active, BatchState
<1>2. /\ batch.kind = "score" /\ batch.run \in Runs /\ task[w].item \in Prospects
      /\ task[w].item \in Items /\ ~Scans(w)
  BY <1>0, <1>1, StateFacts DEF InStep, ItemsOf
<1>3. /\ task' \in [Workers -> TaskState] /\ task'[w].pc = "checkpoint" /\ task'[w].item = task[w].item
      /\ \A v \in Workers \ {w} : task'[v] = task[v]
  BY <1>1, TaskUpdates
<1>4. /\ batch' \in BatchState /\ SameBatch /\ batch'.queue = batch.queue
      /\ batch'.done = batch.done \cup {task[w].item} /\ batch'.kind = "score" /\ batch'.run = batch.run
  <2>1. batch.done \cup {task[w].item} \in SUBSET Items
    BY <1>0, <1>2 DEF BatchState
  <2>2. batch' \in BatchState
    BY <1>0, <1>1, <2>1, BatchUpdates
  <2> QED  BY <1>0, <1>1, <1>2, <2>2 DEF BatchState, SameBatch
<1>5. Quiet /\ InStep(w)' /\ SavesAtMost /\ scored' \subseteq Runs \X Prospects
  BY <1>0, <1>1, <1>2, <1>3 DEF Quiet, scanVars, InStep, Scans, SavesAtMost
<1>6. Works(w)
  BY <1>0, <1>1, <1>3, <1>4, <1>5, WorksFrom DEF scanVars
<1>7. FinishedWork(batch.run, batch.kind, task[w].item)'
  BY <1>1, <1>3, <1>4 DEF FinishedWork
<1> QED  BY <1>1, <1>3, <1>4, <1>5, <1>6, <1>7

LEMMA ThrowEffect ==
  ASSUME Typed, NEW w \in Workers, ItemThrows(w)
  PROVE  Works(w) /\ Quiet /\ UNCHANGED scored /\ batch'.done = batch.done
<1>0. /\ jobRuns \in [Runs -> RunState] /\ scored \subseteq Runs \X Prospects
      /\ batch \in BatchState /\ task \in [Workers -> TaskState] /\ InStep(w)
  BY StateFacts
<1>1. /\ task[w].pc \in {"check", "score"} \/ ScanAccesses(w)
      /\ scan' = [scan EXCEPT ![w] = NoScan] /\ task' = [task EXCEPT ![w].pc = "checkpoint"]
      /\ batch' = [batch EXCEPT !.errors = batch.errors \cup {task[w].item}]
      /\ UNCHANGED <<scans, changes, jobRuns, scored>>
  BY <1>0 DEF ItemThrows, BatchState
<1>2. Active(w) /\ task[w].item \in Items /\ SavesAtMost
  <2>1. Active(w)
    BY <1>0, <1>1 DEF InStep, Active, Scans, ScanAccesses
  <2> QED  BY <1>1, <2>1, StateFacts DEF SavesAtMost
<1>3. /\ task' \in [Workers -> TaskState] /\ task'[w].pc = "checkpoint" /\ task'[w].item = task[w].item
      /\ \A v \in Workers \ {w} : task'[v] = task[v]
  BY <1>1, TaskUpdates
<1>4. batch' \in BatchState /\ SameBatch /\ batch'.queue = batch.queue /\ batch'.done = batch.done
  <2>1. batch.errors \cup {task[w].item} \in SUBSET Items
    BY <1>0, <1>2 DEF BatchState
  <2>2. batch' \in BatchState
    BY <1>0, <1>1, <2>1, BatchUpdates
  <2> QED  BY <1>0, <1>1, <2>2 DEF BatchState, SameBatch
<1>5. Quiet /\ ~Scans(w)' /\ \A v \in Workers \ {w} : scan'[v] = scan[v]
  BY <1>1, ScanOver
<1>6. InStep(w)'
  BY <1>3, <1>5 DEF InStep
<1>7. Works(w)
  BY <1>0, <1>1, <1>2, <1>3, <1>4, <1>5, <1>6, WorksFrom
<1> QED  BY <1>1, <1>4, <1>5, <1>7

LEMMA SaveEffect ==
  ASSUME Typed, NEW w \in Workers, SaveCheckpoint(w)
  PROVE  Works(w) /\ Quiet /\ UNCHANGED <<scored, batch>>
<1>0. /\ jobRuns \in [Runs -> RunState] /\ scored \subseteq Runs \X Prospects
      /\ batch \in BatchState /\ task \in [Workers -> TaskState] /\ InStep(w)
      /\ scan \in [Workers -> ScanState]
  BY StateFacts
<1>1. /\ task[w].pc = "checkpoint" /\ UNCHANGED <<scanVars, scored, batch>> /\ Active(w)
      /\ jobRuns' = [jobRuns EXCEPT ![batch.run].done = batch.done, ![batch.run].errors = batch.errors]
      /\ task' = [task EXCEPT ![w] = NoTask]
  BY DEF SaveCheckpoint, Active
<1>2. batch.running /\ batch.run \in Runs /\ ~Scans(w)
  BY <1>0, <1>1, StateFacts DEF InStep
<1> DEFINE row == [[jobRuns[batch.run] EXCEPT !.done = batch.done] EXCEPT !.errors = batch.errors]
<1>3. /\ row \in RunState /\ row.done = batch.done /\ row.errors = batch.errors
      /\ row.kind = jobRuns[batch.run].kind /\ row.status = jobRuns[batch.run].status
  BY <1>0, <1>2 DEF RunState, BatchState
<1>4. jobRuns' = [jobRuns EXCEPT ![batch.run] = row]
  BY <1>0, <1>1, <1>2
<1> HIDE DEF row
<1>5. jobRuns' \in [Runs -> RunState] /\ SavesAtMost
  BY <1>0, <1>2, <1>3, <1>4 DEF SavesAtMost
<1>6. /\ task' \in [Workers -> TaskState] /\ task'[w] = NoTask
      /\ \A v \in Workers \ {w} : task'[v] = task[v]
  BY <1>0, <1>1, Records
<1>7. Quiet /\ InStep(w)' /\ ~Active(w)' /\ SameBatch
  BY <1>0, <1>1, <1>2, <1>6, Records DEF Quiet, scanVars, InStep, Scans, Active, SameBatch
<1>8. Works(w)
  BY <1>0, <1>1, <1>5, <1>6, <1>7, WorksFrom DEF scanVars
<1> QED  BY <1>1, <1>7, <1>8

LEMMA DieEffect ==
  ASSUME Typed, NEW w \in Workers, CheckpointThrows(w)
  PROVE  Works(w) /\ Quiet /\ UNCHANGED scored /\ batch'.done = batch.done
<1>0. /\ jobRuns \in [Runs -> RunState] /\ scored \subseteq Runs \X Prospects
      /\ batch \in BatchState /\ task \in [Workers -> TaskState] /\ InStep(w)
      /\ scan \in [Workers -> ScanState]
  BY StateFacts
<1>1. /\ task[w].pc = "checkpoint" /\ UNCHANGED <<scanVars, jobRuns, scored>> /\ Active(w)
      /\ task' = [task EXCEPT ![w] = [NoTask EXCEPT !.pc = "dead"]]
      /\ batch' = [batch EXCEPT !.rejected = TRUE]
  BY DEF CheckpointThrows, Active
<1>2. ~Scans(w)
  BY <1>0, <1>1 DEF InStep
<1>3. /\ task' \in [Workers -> TaskState] /\ task'[w].pc = "dead"
      /\ \A v \in Workers \ {w} : task'[v] = task[v]
  <2>1. [NoTask EXCEPT !.pc = "dead"] \in TaskState /\ [NoTask EXCEPT !.pc = "dead"].pc = "dead"
    BY DEF NoTask, TaskState
  <2> QED  BY <1>0, <1>1, <2>1
<1>4. batch' \in BatchState /\ SameBatch /\ batch'.queue = batch.queue /\ batch'.done = batch.done
  BY <1>0, <1>1, BatchUpdates DEF BatchState, SameBatch
<1>5. Quiet /\ InStep(w)' /\ ~Active(w)' /\ SavesAtMost
  BY <1>0, <1>1, <1>2, <1>3 DEF Quiet, scanVars, InStep, Scans, Active, SavesAtMost
<1>6. Works(w)
  BY <1>0, <1>1, <1>3, <1>4, <1>5, WorksFrom DEF scanVars
<1> QED  BY <1>1, <1>4, <1>5, <1>6

\* A new entry with a result stands for finished work.
Earns == \A i \in batch'.done \ batch.done : FinishedWork(batch.run, batch.kind, i)'

\* Every step has one of the four shapes, and only a scan's own step writes the scans' tables.
LEMMA Shapes ==
  ASSUME Typed, ScansInv, Next
  PROVE  /\ \/ \E w \in Workers : \E i : Takes(w, i)
            \/ \E w \in Workers : Works(w) /\ Earns
            \/ \E j \in Runs : Begins(j)
            \/ Ends
         /\ Quiet \/ \E w \in Workers : Scanning(w) /\ Works(w)
         /\ RowsKept /\ scored \subseteq scored'
<1>quiet. Quiet => RowsKept
  BY DEF Quiet, RowsKept
<1> DEFINE Goal == /\ \/ \E w \in Workers : \E i : Takes(w, i)
                      \/ \E w \in Workers : Works(w) /\ Earns
                      \/ \E j \in Runs : Begins(j)
                      \/ Ends
                   /\ Quiet \/ \E w \in Workers : Scanning(w) /\ Works(w)
                   /\ RowsKept /\ scored \subseteq scored'
<1> SUFFICES Goal  OBVIOUS
<1>1. ASSUME NEW w \in Workers, NEW i, TakeItem(w, i) PROVE Goal
  BY <1>1, <1>quiet, TakeEffect
<1>2. ASSUME NEW w \in Workers, CheckScanned(w) PROVE Goal
  BY <1>2, <1>quiet, CheckEffect DEF Earns
<1>3. ASSUME NEW w \in Workers, Scanning(w) PROVE Goal
  BY <1>3, ScanningEffect DEF Earns
<1>4. ASSUME NEW w \in Workers, ScanReturned(w) PROVE Goal
  BY <1>4, <1>quiet, ReturnedEffect DEF Earns
<1>5. ASSUME NEW w \in Workers, InsertScore(w) PROVE Goal
  BY <1>5, <1>quiet, InsertScoreEffect DEF Earns
<1>6. ASSUME NEW w \in Workers, ItemThrows(w) PROVE Goal
  BY <1>6, <1>quiet, ThrowEffect DEF Earns
<1>7. ASSUME NEW w \in Workers, SaveCheckpoint(w) PROVE Goal
  BY <1>7, <1>quiet, SaveEffect DEF Earns
<1>8. ASSUME NEW w \in Workers, CheckpointThrows(w) PROVE Goal
  BY <1>8, <1>quiet, DieEffect DEF Earns
<1>9. ASSUME NEW j \in Runs,
             \/ \E kind \in Kinds : \E items \in SUBSET ItemsOf(kind) : StartBatch(j, kind, items)
             \/ \E items \in SUBSET ItemsOf(jobRuns[j].kind) : ResumeBatch(j, items)
      PROVE  Goal
  BY <1>9, <1>quiet, BeginEffect
<1>10. CASE Complete \/ Rejected \/ Crash
  BY <1>10, <1>quiet, EndEffect
<1>11. \/ \E j \in Runs :
            \/ \E kind \in Kinds : \E items \in SUBSET ItemsOf(kind) : StartBatch(j, kind, items)
            \/ \E items \in SUBSET ItemsOf(jobRuns[j].kind) : ResumeBatch(j, items)
       \/ \E w \in Workers : Step(w)
       \/ Complete \/ Rejected \/ Crash
  BY DEF Next
<1>12. ASSUME NEW w \in Workers, Step(w) PROVE Goal
  <2> HIDE DEF Goal
  <2> QED  BY <1>1, <1>2, <1>3, <1>4, <1>5, <1>6, <1>7, <1>8, <1>12 DEF Step
<1> HIDE DEF Goal
<1> QED  BY <1>9, <1>10, <1>11, <1>12

LEMMA TypedStep ==
  ASSUME Typed, ScansInv, Next
  PROVE  Typed'
<1>0. /\ batch.running => /\ batch.run \in Runs /\ jobRuns[batch.run].status # "none"
                          /\ batch.kind = jobRuns[batch.run].kind
                          /\ batch.queue \subseteq ItemsOf(batch.kind)
      /\ \A w \in Workers : Active(w) => batch.running /\ task[w].item \in ItemsOf(batch.kind)
      /\ \A w \in Workers : InStep(w)
      /\ FreshRuns
  BY StateFacts DEF Typed, CallsAreAboutRuns
<1>1. IdsAreKnown'
  BY Shapes, QuietTyped DEF Works
\* A call that goes on.
<1>run. ASSUME SameBatch, SavesAtMost, batch'.queue \subseteq batch.queue, batch.running
        PROVE  /\ batch'.running /\ batch'.run \in Runs /\ jobRuns'[batch'.run].status # "none"
               /\ batch'.kind = jobRuns'[batch'.run].kind /\ batch'.queue \subseteq ItemsOf(batch'.kind)
               /\ FreshRuns'
  <2>1. FreshRuns'
    BY <1>0, <1>run DEF FreshRuns, SavesAtMost
  <2> QED  BY <1>0, <1>run, <2>1 DEF SameBatch, SavesAtMost
<1>2. ASSUME NEW w \in Workers, InStep(w)', SameBatch, TypeOK', batch.running,
             \A v \in Workers \ {w} : task'[v] = task[v] /\ scan'[v] = scan[v],
             Active(w)' => task'[w].item \in ItemsOf(batch.kind),
             SavesAtMost, batch'.queue \subseteq batch.queue
      PROVE  Typed'
  <2>1. \A v \in Workers : InStep(v)'
    BY <1>0, <1>2 DEF InStep, Scans, SameBatch
  <2>2. \A v \in Workers : Active(v)' => task'[v].item \in ItemsOf(batch.kind)
    BY <1>0, <1>2 DEF Active
  <2>3. CallsAreAboutRuns'
    BY <1>2, <1>run, <2>1, <2>2 DEF CallsAreAboutRuns, InStep, SameBatch
  <2> QED  BY <1>1, <1>2, <1>run, <2>3 DEF Typed
<1>3. ASSUME NEW w \in Workers, NEW i, Takes(w, i) PROVE Typed'
  <2>1. i \in ItemsOf(batch.kind)
    BY <1>0, <1>3 DEF Takes
  <2> QED  BY <1>2, <1>3, <2>1 DEF Takes
<1>4. ASSUME NEW w \in Workers, Works(w) PROVE Typed'
  BY <1>0, <1>2, <1>4 DEF Works
<1>5. ASSUME NEW j \in Runs, Begins(j) PROVE Typed'
  <2>1. \A w \in Workers : ~Active(w) /\ ~Active(w)'
    BY <1>0, <1>5 DEF Begins, Active
  <2>2. \A w \in Workers : ~Scans(w)' /\ task'[w].pc # "scan"
    BY <1>0, <1>5, <2>1 DEF Begins, InStep, Active, Scans
  <2>3. FreshRuns'
    BY <1>0, <1>5 DEF Begins, FreshRuns
  <2>4. CallsAreAboutRuns'
    BY <1>5, <2>1, <2>2 DEF Begins, CallsAreAboutRuns
  <2> QED  BY <1>1, <1>5, <2>3, <2>4 DEF Typed, Begins
<1>6. ASSUME Ends PROVE Typed'
  <2>1. \A w \in Workers : ~Active(w)' /\ ~Scans(w)' /\ task'[w].pc # "scan"
    BY <1>6, Records DEF Ends, Active, Scans
  <2>2. FreshRuns'
    BY <1>0, <1>6 DEF Ends, FreshRuns
  <2>3. CallsAreAboutRuns'
    BY <1>6, <2>1 DEF Ends, CallsAreAboutRuns
  <2> QED  BY <1>1, <1>6, <2>2, <2>3 DEF Typed, Ends
<1> QED  BY <1>3, <1>4, <1>5, <1>6, Shapes

\* No two workers have one item, and scoreBatch has one worker at a time.
ItemsAreTakenOnce ==
  /\ \A v, w \in Workers : v # w /\ Active(v) /\ Active(w) =>
       batch.kind = "scan" /\ task[v].item # task[w].item
  /\ \A w \in Workers : Active(w) => task[w].item \notin batch.queue

LEMMA TakenOnceApart ==
  ASSUME Typed, ItemsAreTakenOnce
  PROVE  DomainsApart
BY DEF Typed, CallsAreAboutRuns, ItemsAreTakenOnce, DomainsApart, Active

LEMMA TakenOnceStep ==
  ASSUME Typed, ScansInv, ItemsAreTakenOnce, Next
  PROVE  ItemsAreTakenOnce'
<1>1. ASSUME NEW w \in Workers, NEW i, Takes(w, i) PROVE ItemsAreTakenOnce'
  <2>1. /\ \A v \in Workers \ {w} : task'[v] = task[v]
        /\ batch'.kind = batch.kind /\ batch'.queue = batch.queue \ {i} /\ i \in batch.queue
        /\ task'[w].item = i /\ ~Active(w)
    BY <1>1 DEF Takes, SameBatch
  <2>2. \A v \in Workers \ {w} : Active(v) => task[v].item # i /\ batch.kind = "scan"
    <3>1. batch.kind \in {"scan", "score"}
      BY StateFacts DEF BatchState, Kinds
    <3> QED  BY <1>1, <2>1, <3>1 DEF Takes, ItemsAreTakenOnce
  <2> QED  BY <2>1, <2>2 DEF ItemsAreTakenOnce, Active
<1>2. ASSUME NEW w \in Workers, Works(w) PROVE ItemsAreTakenOnce'
  <2>1. /\ \A v \in Workers \ {w} : task'[v] = task[v]
        /\ batch'.kind = batch.kind /\ batch'.queue = batch.queue
        /\ Active(w)' => task'[w].item = task[w].item
        /\ Active(w)
    BY <1>2 DEF Works, SameBatch
  <2> QED  BY <2>1 DEF ItemsAreTakenOnce, Active
<1>3. ASSUME NEW j \in Runs, Begins(j) PROVE ItemsAreTakenOnce'
  <2>1. \A w \in Workers : ~Active(w)'
    BY <1>3, StateFacts DEF Begins, Active
  <2> QED  BY <2>1 DEF ItemsAreTakenOnce
<1>4. ASSUME Ends PROVE ItemsAreTakenOnce'
  <2>1. \A w \in Workers : ~Active(w)'
    BY <1>4, Records DEF Ends, Active
  <2> QED  BY <2>1 DEF ItemsAreTakenOnce
<1> QED  BY <1>1, <1>2, <1>3, <1>4, Shapes

\* The calls, events and scans that a step leaves alone stay as true as they were.
LEMMA QuietKeeps ==
  ASSUME ScansInv, Quiet
  PROVE  ScansInv'
<1>1. UNCHANGED <<scans, changes>>
  BY DEF Quiet
<1>2. /\ \A i : Before(i)' = Before(i) /\ ChangesOf(i)' = ChangesOf(i) /\ Whole(i)' = Whole(i)
      /\ \A d : OkScans(d)' = OkScans(d)
  BY <1>1 DEF Before, OkScans, ChangesOf, Whole
<1>3. /\ \A i, j : Differ(i, j)' = Differ(i, j)
      /\ \A i, j, t : RecordOf(i, j, t)' = RecordOf(i, j, t)
  BY <1>1 DEF Differ, RecordOf
<1>4. ASSUME NEW w \in Workers
      PROVE  /\ Working(w)' => RowOfScan(w)' /\ Progress(w)'
             /\ scan'[w].pc = "returned" => ReturnedRow(w)'
  <2>1. CASE scan'[w].pc \in {"idle", "analyze"}
    BY <2>1 DEF Working
  <2>2. CASE scan'[w] = scan[w]
    <3>1. /\ Working(w) => RowOfScan(w) /\ Progress(w)
          /\ scan[w].pc = "returned" => ReturnedRow(w)
      BY DEF ScansInv, CallsFollowTheirRow
    <3>2. RowOfScan(w) => RowOfScan(w)'
      BY <1>1, <1>2, <2>2 DEF RowOfScan
    <3>3. Progress(w) => Progress(w)'
      BY <1>1, <1>2, <1>3, <2>2 DEF Progress
    <3>4. ReturnedRow(w) => ReturnedRow(w)'
      BY <1>1, <2>2 DEF ReturnedRow
    <3> QED  BY <2>2, <3>1, <3>2, <3>3, <3>4 DEF Working
  <2> QED  BY <2>1, <2>2 DEF Quiet
<1>5. CallsFollowTheirRow'
  BY <1>4 DEF CallsFollowTheirRow
<1>6. ChangesTellStoredScansApart'
  BY <1>1, <1>2, <1>3 DEF ScansInv, ChangesTellStoredScansApart, TellsApart
<1>7. FinishedAreRecorded'
  BY <1>1, <1>2, <1>3 DEF ScansInv, FinishedAreRecorded, RecordedInFull
<1> QED  BY <1>5, <1>6, <1>7 DEF ScansInv

LEMMA ScansInvStep ==
  ASSUME Typed, ScansInv, ItemsAreTakenOnce, Next
  PROVE  ScansInv'
<1>1. ASSUME NEW w \in Workers, Scanning(w) PROVE ScansInv'
  <2>1. DomainsApart
    BY TakenOnceApart
  <2>2. ScanStep(w) /\ task[w].pc = "scan"
    BY <1>1 DEF Scanning
  <2>3. scan[w].domain \in Domains
    BY <2>2, StateFacts DEF InStep
  <2> QED  BY <2>1, <2>2, <2>3, ScanStepKeeps
<1>2. CASE Quiet
  BY <1>2, QuietKeeps
<1> QED  BY <1>1, <1>2, Shapes

\* Every entry with a result, on record or still in memory, stands for finished work.
CheckpointsAreEarned ==
  /\ \A j \in Runs : \A i \in jobRuns[j].done : FinishedWork(j, jobRuns[j].kind, i)
  /\ batch.running => \A i \in batch.done : FinishedWork(batch.run, batch.kind, i)

\* What is finished stays finished.
LEMMA WorkStays ==
  ASSUME Typed, RowsKept, scored \subseteq scored'
  PROVE  \A j, kind, i : FinishedWork(j, kind, i) => FinishedWork(j, kind, i)'
BY DEF FinishedWork, RowsKept

LEMMA EarnedStep ==
  ASSUME Typed, ScansInv, CheckpointsAreEarned, Next
  PROVE  CheckpointsAreEarned'
<1>1. RowsKept /\ scored \subseteq scored'
  BY Shapes
<1>2. \A j, kind, i : FinishedWork(j, kind, i) => FinishedWork(j, kind, i)'
  BY <1>1, WorkStays
<1>3. ASSUME SameBatch, SavesAtMost, batch.running,
             \A i \in batch'.done \ batch.done : FinishedWork(batch.run, batch.kind, i)'
      PROVE  CheckpointsAreEarned'
  <2>1. batch'.run = batch.run /\ batch'.kind = batch.kind
    BY <1>3 DEF SameBatch
  <2>2. \A i \in batch.done : FinishedWork(batch.run, batch.kind, i)
    BY <1>3 DEF CheckpointsAreEarned
  <2>3. \A i \in batch'.done : FinishedWork(batch.run, batch.kind, i)'
    <3>1. PICK r, kind : r = batch.run /\ kind = batch.kind
      OBVIOUS
    <3>2. \A i \in batch.done : FinishedWork(r, kind, i)'
      BY <1>2, <2>2, <3>1
    <3>3. \A i \in batch'.done \ batch.done : FinishedWork(r, kind, i)'
      BY <1>3, <2>1, <3>1
    <3> QED  BY <2>1, <3>1, <3>2, <3>3
  <2>4. ASSUME NEW j \in Runs, NEW i \in jobRuns'[j].done PROVE FinishedWork(j, jobRuns[j].kind, i)'
    <3>1. PICK kind : kind = jobRuns[j].kind
      OBVIOUS
    <3>2. jobRuns'[j].kind = kind
      BY <1>3, <3>1 DEF SavesAtMost
    <3>3. CASE i \in jobRuns[j].done
      <4>1. FinishedWork(j, kind, i)
        BY <3>1, <3>3 DEF CheckpointsAreEarned
      <4> QED  BY <1>2, <3>2, <4>1
    <3>4. CASE j = batch.run /\ i \in batch.done
      <4>1. kind = batch.kind
        BY <1>3, <3>1, <3>4 DEF Typed, CallsAreAboutRuns
      <4>2. FinishedWork(j, kind, i)
        BY <2>2, <3>4, <4>1
      <4> QED  BY <1>2, <3>2, <4>2
    <3> QED  BY <1>3, <2>4, <3>3, <3>4 DEF SavesAtMost
  <2> QED  BY <2>3, <2>4 DEF CheckpointsAreEarned
<1>4. ASSUME NEW w \in Workers, NEW i, Takes(w, i) PROVE CheckpointsAreEarned'
  BY <1>3, <1>4 DEF Takes
<1>5. ASSUME NEW w \in Workers, Works(w), Earns PROVE CheckpointsAreEarned'
  <2>1. batch.running
    BY <1>5, StateFacts DEF Works
  <2> QED  BY <1>3, <1>5, <2>1 DEF Works, Earns
\* The rows keep their entries, and a row that has any its kind.
<1>rows. ASSUME \A j \in Runs : /\ jobRuns'[j].done = jobRuns[j].done
                                /\ jobRuns[j].done # {} => jobRuns'[j].kind = jobRuns[j].kind
         PROVE  \A j \in Runs : \A i \in jobRuns'[j].done : FinishedWork(j, jobRuns[j].kind, i)'
  <2> TAKE j \in Runs
  <2> TAKE i \in jobRuns'[j].done
  <2>1. PICK kind : kind = jobRuns[j].kind
    OBVIOUS
  <2>2. FinishedWork(j, kind, i)
    BY <1>rows, <2>1 DEF CheckpointsAreEarned
  <2> QED  BY <1>2, <1>rows, <2>1, <2>2
<1>6. ASSUME NEW j \in Runs, Begins(j) PROVE CheckpointsAreEarned'
  <2>1. \A r \in Runs : \A i \in jobRuns'[r].done : FinishedWork(r, jobRuns[r].kind, i)'
    BY <1>6, <1>rows DEF Begins
  <2>2. batch'.done = jobRuns'[j].done /\ batch'.run = j /\ batch'.kind = jobRuns'[j].kind
    BY <1>6 DEF Begins
  <2> QED  BY <2>1, <2>2 DEF CheckpointsAreEarned
<1>7. ASSUME Ends PROVE CheckpointsAreEarned'
  <2>1. \A r \in Runs : \A i \in jobRuns'[r].done : FinishedWork(r, jobRuns[r].kind, i)'
    BY <1>7, <1>rows DEF Ends
  <2> QED  BY <1>7, <2>1 DEF CheckpointsAreEarned, Ends
<1> QED  BY <1>4, <1>5, <1>6, <1>7, Shapes

\* What is on record of the run in progress is in the checkpoint in memory.
CheckpointsOnlyGrow ==
  batch.running => /\ jobRuns[batch.run].done \subseteq batch.done
                   /\ jobRuns[batch.run].errors \subseteq batch.errors

\* No step takes an entry out of a run's checkpoint.
KeepsEntries == \A j \in Runs : /\ jobRuns[j].done \subseteq jobRuns'[j].done
                                /\ jobRuns[j].errors \subseteq jobRuns'[j].errors

LEMMA GrowStep ==
  ASSUME Typed, ScansInv, CheckpointsOnlyGrow, Next
  PROVE  CheckpointsOnlyGrow' /\ KeepsEntries
<1>1. ASSUME SameBatch, SavesAtMost, batch.running PROVE CheckpointsOnlyGrow' /\ KeepsEntries
  <2>1. batch.run \in Runs
    BY <1>1 DEF Typed, CallsAreAboutRuns
  <2> QED  BY <1>1, <2>1 DEF SameBatch, SavesAtMost, CheckpointsOnlyGrow, KeepsEntries
<1>2. ASSUME NEW w \in Workers, NEW i, Takes(w, i) PROVE CheckpointsOnlyGrow' /\ KeepsEntries
  BY <1>1, <1>2 DEF Takes
<1>3. ASSUME NEW w \in Workers, Works(w) PROVE CheckpointsOnlyGrow' /\ KeepsEntries
  BY <1>1, <1>3, StateFacts DEF Works
<1>4. ASSUME NEW j \in Runs, Begins(j) PROVE CheckpointsOnlyGrow' /\ KeepsEntries
  BY <1>4 DEF Begins, CheckpointsOnlyGrow, KeepsEntries
<1>5. ASSUME Ends PROVE CheckpointsOnlyGrow' /\ KeepsEntries
  BY <1>5 DEF Ends, CheckpointsOnlyGrow, KeepsEntries
<1> QED  BY <1>2, <1>3, <1>4, <1>5, Shapes
-----------------------------------------------------------------------------
(* The inductive invariant and the theorems.                                 *)

IInv == Typed /\ ScansInv /\ ItemsAreTakenOnce /\ CheckpointsAreEarned /\ CheckpointsOnlyGrow

LEMMA IInvInit == Init => IInv
<1> SUFFICES ASSUME Init PROVE IInv  OBVIOUS
<1>1. Typed
  BY TypedInit
<1>2. /\ scans = <<>> /\ changes = {} /\ ~batch.running
      /\ \A w \in Workers : scan[w].pc = "idle" /\ task[w].pc = "idle"
      /\ \A j \in Runs : jobRuns[j].done = {}
  BY Records DEF Init, ScansInit
<1>3. ScansInv
  BY <1>2 DEF ScansInv, CallsFollowTheirRow, Working, ChangesTellStoredScansApart, FinishedAreRecorded
<1>4. ItemsAreTakenOnce /\ CheckpointsAreEarned /\ CheckpointsOnlyGrow
  BY <1>2 DEF ItemsAreTakenOnce, Active, CheckpointsAreEarned, CheckpointsOnlyGrow
<1> QED  BY <1>1, <1>3, <1>4 DEF IInv

LEMMA IInvStep == IInv /\ [Next]_vars => IInv' /\ KeepsEntries
<1> SUFFICES ASSUME IInv, [Next]_vars PROVE IInv' /\ KeepsEntries  OBVIOUS
<1>1. CASE Next
  BY <1>1, TypedStep, ScansInvStep, TakenOnceStep, EarnedStep, GrowStep DEF IInv
<1>2. CASE UNCHANGED vars
  <2>1. UNCHANGED <<scans, changes, scan, jobRuns, scored, batch, task>>
    BY <1>2 DEF vars, scanVars
  <2>2. Typed'
    BY <2>1 DEF IInv, Typed, TypeOK, ScansTypeOK, CallsAreAboutRuns, IdsAreKnown, FreshRuns, Active,
                Scans, Working
  <2>3. ScansInv'
    <3>1. Quiet
      BY <2>1, StateFacts DEF IInv, Quiet
    <3> QED  BY <3>1, QuietKeeps DEF IInv
  <2>4. ItemsAreTakenOnce' /\ CheckpointsAreEarned' /\ CheckpointsOnlyGrow' /\ KeepsEntries
    BY <2>1 DEF IInv, ItemsAreTakenOnce, Active, CheckpointsAreEarned, FinishedWork,
                CheckpointsOnlyGrow, KeepsEntries
  <2> QED  BY <2>2, <2>3, <2>4 DEF IInv
<1> QED  BY <1>1, <1>2

LEMMA IInvHolds == Spec => []IInv
BY IInvInit, IInvStep, PTL DEF Spec

\* Types: every row, call and checkpoint stays well-formed, and scored holds prospects of runs.
THEOREM TypeCorrect == Spec => []TypeOK
<1>1. IInv => TypeOK
  BY DEF IInv, Typed
<1> QED  BY <1>1, IInvHolds, PTL

\* ChangesBetweenWholeScansAreTrue: however scans are interrupted, a technology_change_events row
\* names as its later scan one stored as a whole, and says what the detector saw on the two dates
\* if the earlier one was stored as a whole too (detectChanges).
THEOREM ChangeEventsAreTrue == Spec => []ChangesBetweenWholeScansAreTrue
<1>1. IInv => ChangesBetweenWholeScansAreTrue
  <2> SUFFICES ASSUME IInv, NEW c \in changes
               PROVE  Whole(c.later) /\ (Whole(c.earlier) => Observed(c))
    BY DEF ChangesBetweenWholeScansAreTrue
  <2>1. TellsApart(c)
    BY DEF IInv, ScansInv, ChangesTellStoredScansApart
  <2>2. c.type = IF c.technology \in scans[c.later].stored THEN "added" ELSE "removed"
    BY <2>1 DEF TellsApart, RecordOf
  <2> QED  BY <2>1, <2>2 DEF TellsApart, Differ, Whole, Observed
<1> QED  BY <1>1, IInvHolds, PTL

\* FinishedScansRecordEveryChange: a scanDomain call that returned left exactly the change events
\* that tell its stored detections from those of the domain's OK scan before it, whatever the other
\* workers, crashes and resumed runs did meanwhile.
THEOREM FinishedScansAreRecorded == Spec => []FinishedScansRecordEveryChange
<1>1. IInv => FinishedScansRecordEveryChange
  <2> SUFFICES ASSUME IInv, NEW i \in DOMAIN scans, scans[i].finished, scans[i].ok
               PROVE  {<<c.earlier, c.technology>> : c \in ChangesOf(i)} =
                        IF Before(i) = {} THEN {}
                        ELSE {Max(Before(i))} \X
                               {t \in Technologies : t \in scans[i].stored
                                                       <=> t \notin scans[Max(Before(i))].stored}
    BY DEF FinishedScansRecordEveryChange, ChangesOf, Before
  <2>1. RecordedInFull(i)
    BY DEF IInv, ScansInv, FinishedAreRecorded
  <2>2. CASE Before(i) = {}
    BY <2>1, <2>2 DEF RecordedInFull
  <2>3. CASE Before(i) # {}
    <3>1. PICK m : m = Max(Before(i))
      OBVIOUS
    <3>2. m \in DOMAIN scans
      BY <2>3, <3>1, LatestBefore DEF IInv, Before, OkScans
    <3>3. scans[m].stored \subseteq Technologies /\ scans[i].stored \subseteq Technologies
      BY <3>2, TypeFacts DEF IInv, ScanRow
    <3>4. Differ(m, i) = {t \in Technologies : t \in scans[i].stored <=> t \notin scans[m].stored}
      BY <3>3 DEF Differ
    <3>5. {<<c.earlier, c.technology>> : c \in ChangesOf(i)} = {<<m, t>> : t \in Differ(m, i)}
      <4>1. ChangesOf(i) = {RecordOf(m, i, t) : t \in Differ(m, i)}
        BY <2>1, <2>3, <3>1 DEF RecordedInFull
      <4>2. \A t : RecordOf(m, i, t).earlier = m /\ RecordOf(m, i, t).technology = t
        BY DEF RecordOf
      <4> QED  BY <4>1, <4>2
    <3>6. {<<m, t>> : t \in Differ(m, i)} = {m} \X Differ(m, i)
      OBVIOUS
    <3> QED  BY <2>3, <3>1, <3>4, <3>5, <3>6
  <2> QED  BY <2>2, <2>3
<1> QED  BY <1>1, IInvHolds, PTL

\* CheckpointNamesFinishedWork: whatever dies or throws, and however the workers' writes of the
\* shared checkpoint fall, an entry with a result stands for a scan that ran to its end or for a
\* score of that run (scanBatch, scoreBatch).
THEOREM CheckpointsAreTrue == Spec => []CheckpointNamesFinishedWork
<1>1. IInv => CheckpointNamesFinishedWork
  BY DEF IInv, CheckpointsAreEarned, CheckpointNamesFinishedWork, FinishedWork
<1> QED  BY <1>1, IInvHolds, PTL

\* CheckpointNeverShrinks: no resume and no worker's write takes an entry out of a run's checkpoint.
THEOREM CheckpointsAreKept == Spec => CheckpointNeverShrinks
<1>1. IInv /\ [Next]_vars =>
        [\A j \in Runs : /\ jobRuns[j].done \subseteq jobRuns'[j].done
                         /\ jobRuns[j].errors \subseteq jobRuns'[j].errors]_vars
  BY IInvStep DEF KeepsEntries
<1> QED  BY <1>1, IInvHolds, PTL DEF Spec, CheckpointNeverShrinks
-----------------------------------------------------------------------------
(* A run goes on from its checkpoint: both batches implement ResumableRuns.  *)

\* The entries of the checkpoint in memory and of all saved ones, and the items at work.
Entries == batch.done \cup batch.errors
Saved == [j \in Runs |-> jobRuns[j].done \cup jobRuns[j].errors]
Open(w) == task[w].pc \in {"check", "scan", "score"}
AtHand == {i \in Items : \E w \in Workers : task[w].item = i /\ Open(w)}

\* Between calls nothing is remembered; neither the items still to take nor those at work have an
\* entry.
TakesAnew ==
  /\ ~batch.running => batch = NoBatch
  /\ batch.queue \cap Entries = {}
  /\ \A w \in Workers : Open(w) => task[w].item \notin Entries

RInv == IInv /\ TakesAnew

LEMMA OpenFacts ==
  ASSUME IInv, NEW w \in Workers, Open(w)
  PROVE  /\ task[w].item \in Items /\ task[w].item \notin batch.queue
         /\ \A v \in Workers \ {w} : Open(v) => task[v].item # task[w].item
<1>1. \A v \in Workers : Open(v) => Active(v)
  BY DEF Open, Active
<1> QED  BY <1>1, StateFacts DEF IInv, ItemsAreTakenOnce

\* A call begins with the entries of its run's row, and with none of them in its queue.
LEMMA BeginEntries ==
  ASSUME Typed, NEW j \in Runs,
         \/ \E kind \in Kinds : \E items \in SUBSET ItemsOf(kind) : StartBatch(j, kind, items)
         \/ \E items \in SUBSET ItemsOf(jobRuns[j].kind) : ResumeBatch(j, items)
  PROVE  /\ batch'.running /\ batch'.run = j /\ Entries' = Saved[j] /\ batch'.queue \cap Entries' = {}
         /\ ~batch.running /\ UNCHANGED task
         /\ \A i \in Runs : /\ jobRuns'[i].done = jobRuns[i].done
                            /\ jobRuns'[i].errors = jobRuns[i].errors
<1>1. Begins(j)
  BY BeginEffect
<1>2. Entries' = Saved[j] /\ \A i \in Runs : /\ jobRuns'[i].done = jobRuns[i].done
                                             /\ jobRuns'[i].errors = jobRuns[i].errors
  BY <1>1 DEF Begins, Entries, Saved
<1>3. ASSUME NEW kind \in Kinds, NEW items \in SUBSET ItemsOf(kind), StartBatch(j, kind, items)
      PROVE  batch'.running /\ batch'.queue \cap Entries' = {}
  <2>1. batch' = [NoBatch EXCEPT !.running = TRUE, !.kind = kind, !.run = j, !.queue = items]
    BY <1>3 DEF StartBatch
  <2>2. batch'.running /\ batch'.done = {} /\ batch'.errors = {}
    BY <2>1 DEF NoBatch
  <2> QED  BY <2>2 DEF Entries
<1>4. ASSUME NEW items \in SUBSET ItemsOf(jobRuns[j].kind), ResumeBatch(j, items)
      PROVE  batch'.running /\ batch'.queue \cap Entries' = {}
  <2>1. batch'.running /\ batch'.queue = items \ (jobRuns[j].done \cup jobRuns[j].errors)
    BY <1>4 DEF ResumeBatch, Resume
  <2> QED  BY <1>2, <2>1 DEF Saved
<1> QED  BY <1>1, <1>2, <1>3, <1>4 DEF Begins

LEMMA TakeEntries ==
  ASSUME Typed, NEW w \in Workers, NEW i, TakeItem(w, i)
  PROVE  /\ batch.running /\ batch'.running /\ batch'.run = batch.run /\ Entries' = Entries
         /\ i \in batch.queue /\ batch'.queue = batch.queue \ {i} /\ i \in Items
         /\ ~Open(w) /\ Open(w)' /\ task'[w].item = i
         /\ \A v \in Workers \ {w} : task'[v] = task[v]
         /\ UNCHANGED jobRuns
<1>1. batch \in BatchState /\ task \in [Workers -> TaskState]
  BY StateFacts
<1>2. /\ batch' = [batch EXCEPT !.queue = @ \ {i}] /\ task[w].pc = "idle" /\ i \in batch.queue
      /\ task' = [task EXCEPT ![w] = [pc |-> IF batch.kind = "scan" THEN "scan" ELSE "check",
                                      item |-> i]]
      /\ batch.running /\ UNCHANGED jobRuns
  BY DEF TakeItem
<1>3. /\ batch'.running = batch.running /\ batch'.run = batch.run /\ Entries' = Entries
      /\ batch'.queue = batch.queue \ {i} /\ i \in Items
  BY <1>1, <1>2 DEF BatchState, Entries
<1>4. ~Open(w) /\ Open(w)' /\ task'[w].item = i /\ \A v \in Workers \ {w} : task'[v] = task[v]
  BY <1>1, <1>2 DEF Open
<1> QED  BY <1>2, <1>3, <1>4

\* A worker goes on with its item, or gives it its entry, or is through with it.
WorksOn(w) ==
  /\ batch'.running = batch.running /\ batch'.run = batch.run /\ batch'.queue = batch.queue
  /\ \A v \in Workers \ {w} : task'[v] = task[v]
  /\ \/ Open(w) /\ Open(w)' /\ task'[w].item = task[w].item /\ Entries' = Entries
     \/ Open(w) /\ ~Open(w)' /\ Entries' = Entries \cup {task[w].item}
     \/ ~Open(w) /\ ~Open(w)' /\ Entries' = Entries

LEMMA WorkEntries ==
  ASSUME Typed, NEW w \in Workers,
         CheckScanned(w) \/ Scanning(w) \/ ScanReturned(w) \/ InsertScore(w) \/ ItemThrows(w)
  PROVE  WorksOn(w) /\ batch.running /\ UNCHANGED jobRuns
<1>0. batch \in BatchState /\ task \in [Workers -> TaskState] /\ InStep(w)
  BY StateFacts
<1>1. Open(w)
  <2>1. ScanAccesses(w) => Scans(w)
    BY DEF ScanAccesses, Scans
  <2>2. ScanReturned(w) => Scans(w)
    BY DEF ScanReturned, Scans
  <2> QED  BY <1>0, <2>1, <2>2 DEF CheckScanned, Scanning, InsertScore, ItemThrows, Open, InStep
<1>2. UNCHANGED jobRuns
  BY DEF CheckScanned, Scanning, ScanReturned, InsertScore, ItemThrows
<1>3. batch.running
  BY <1>1, StateFacts DEF Open, Active
<1>4. ASSUME UNCHANGED task, UNCHANGED batch PROVE WorksOn(w)
  BY <1>1, <1>4 DEF WorksOn, Open, Entries
<1>5. ASSUME NEW pc \in {"scan", "score"}, task' = [task EXCEPT ![w].pc = pc], UNCHANGED batch
      PROVE  WorksOn(w)
  <2>1. /\ task'[w].pc = pc /\ task'[w].item = task[w].item
        /\ \A v \in Workers \ {w} : task'[v] = task[v]
    BY <1>0, <1>5 DEF TaskState
  <2>2. Open(w)' /\ Entries' = Entries
    BY <1>5, <2>1 DEF Open, Entries
  <2> QED  BY <1>1, <1>5, <2>1, <2>2 DEF WorksOn
<1>6. ASSUME task' = [task EXCEPT ![w].pc = "checkpoint"],
             \/ batch' = [batch EXCEPT !.done = @ \cup {task[w].item}]
             \/ batch' = [batch EXCEPT !.errors = @ \cup {task[w].item}]
      PROVE  WorksOn(w)
  <2>1. /\ task'[w].pc = "checkpoint" /\ \A v \in Workers \ {w} : task'[v] = task[v]
    BY <1>6, TaskUpdates
  <2>2. /\ batch'.running = batch.running /\ batch'.run = batch.run /\ batch'.queue = batch.queue
        /\ Entries' = Entries \cup {task[w].item}
    BY <1>0, <1>6 DEF BatchState, Entries
  <2>3. ~Open(w)'
    BY <2>1 DEF Open
  <2> QED  BY <1>1, <2>1, <2>2, <2>3 DEF WorksOn
<1>7. CASE CheckScanned(w)
  <2>1. UNCHANGED batch /\ \E pc \in {"scan", "score"} : task' = [task EXCEPT ![w].pc = pc]
    BY <1>7 DEF CheckScanned
  <2> QED  BY <1>2, <1>3, <1>5, <2>1
<1>8. CASE Scanning(w)
  BY <1>2, <1>3, <1>4, <1>8 DEF Scanning
<1>9. CASE ScanReturned(w)
  <2>1. CASE batch.kind = "scan"
    <3>1. /\ task' = [task EXCEPT ![w].pc = "checkpoint"]
          /\ batch' = [batch EXCEPT !.done = @ \cup {task[w].item}]
      BY <1>9, <2>1 DEF ScanReturned
    <3> QED  BY <1>2, <1>3, <1>6, <3>1
  <2>2. CASE batch.kind # "scan"
    <3>1. task' = [task EXCEPT ![w].pc = "score"] /\ UNCHANGED batch
      BY <1>9, <2>2 DEF ScanReturned
    <3> QED  BY <1>2, <1>3, <1>5, <3>1
  <2> QED  BY <2>1, <2>2
<1>10. CASE InsertScore(w)
  BY <1>2, <1>3, <1>6, <1>10 DEF InsertScore
<1>11. CASE ItemThrows(w)
  BY <1>2, <1>3, <1>6, <1>11 DEF ItemThrows
<1> QED  BY <1>7, <1>8, <1>9, <1>10, <1>11

LEMMA ThroughEntries ==
  ASSUME Typed, NEW w \in Workers, SaveCheckpoint(w) \/ CheckpointThrows(w)
  PROVE  /\ WorksOn(w) /\ ~Open(w) /\ batch.running /\ batch.run \in Runs
         /\ \/ UNCHANGED jobRuns
            \/ SaveCheckpoint(w) /\ Saved' = [Saved EXCEPT ![batch.run] = Entries]
<1>0. /\ batch \in BatchState /\ task \in [Workers -> TaskState] /\ jobRuns \in [Runs -> RunState]
  BY StateFacts
<1>1. /\ task[w].pc = "checkpoint" /\ ~Open(w)
      /\ \E t : task' = [task EXCEPT ![w] = t] /\ t.pc \in {"idle", "dead"}
  BY DEF SaveCheckpoint, CheckpointThrows, NoTask, Open
<1>2. batch.running /\ batch.run \in Runs
  BY <1>1, StateFacts DEF Active
<1>3. /\ batch'.running = batch.running /\ batch'.run = batch.run /\ batch'.queue = batch.queue
      /\ Entries' = Entries
  BY <1>0 DEF SaveCheckpoint, CheckpointThrows, BatchState, Entries
<1>4. WorksOn(w)
  BY <1>0, <1>1, <1>3 DEF WorksOn, Open
<1>5. CASE SaveCheckpoint(w)
  <2>1. jobRuns' = [jobRuns EXCEPT ![batch.run].done = batch.done, ![batch.run].errors = batch.errors]
    BY <1>5 DEF SaveCheckpoint
  <2>2. \A j \in Runs : /\ jobRuns'[j].done = IF j = batch.run THEN batch.done ELSE jobRuns[j].done
                        /\ jobRuns'[j].errors = IF j = batch.run THEN batch.errors ELSE jobRuns[j].errors
    BY <1>0, <1>2, <2>1 DEF RunState
  <2>3. Saved' = [Saved EXCEPT ![batch.run] = Entries]
    BY <1>2, <2>2 DEF Saved, Entries
  <2> QED  BY <1>1, <1>2, <1>4, <1>5, <2>3
<1>6. CASE CheckpointThrows(w)
  BY <1>1, <1>2, <1>4, <1>6 DEF CheckpointThrows
<1> QED  BY <1>5, <1>6

\* The call is over, and forgets everything.
LEMMA EndEntries ==
  ASSUME IInv, TakesAnew, Complete \/ Rejected \/ Crash
  PROVE  /\ batch.running /\ batch' = NoBatch /\ Entries' = {} /\ Saved' = Saved
         /\ \A w \in Workers : ~Open(w)'
<1>1. EndCall /\ Ends
  BY EndEffect DEF IInv, Complete, Rejected, Crash
<1>2. batch' = NoBatch /\ Entries' = {} /\ \A w \in Workers : ~Open(w)'
  BY <1>1 DEF EndCall, NoBatch, NoTask, Entries, Open
<1>3. batch.running
  BY DEF Complete, Rejected, Crash, TakesAnew, NoBatch
<1>4. Saved' = Saved
  BY <1>1 DEF Ends, Saved
<1> QED  BY <1>2, <1>3, <1>4

LEMMA RInvInit == Init => RInv
<1> SUFFICES ASSUME Init PROVE TakesAnew
  BY IInvInit DEF RInv
<1>1. batch = NoBatch /\ \A w \in Workers : ~Open(w)
  BY Records DEF Init, Open
<1> QED  BY <1>1 DEF TakesAnew, NoBatch, Entries

LEMMA AnewStep ==
  ASSUME IInv, TakesAnew, [Next]_vars
  PROVE  TakesAnew'
<1>0. Typed
  BY DEF IInv
<1>1. CASE UNCHANGED vars
  BY <1>1 DEF vars, TakesAnew, Entries, Open
<1>2. ASSUME NEW j \in Runs,
             \/ \E kind \in Kinds : \E items \in SUBSET ItemsOf(kind) : StartBatch(j, kind, items)
             \/ \E items \in SUBSET ItemsOf(jobRuns[j].kind) : ResumeBatch(j, items)
      PROVE  TakesAnew'
  <2>1. batch'.running /\ batch'.queue \cap Entries' = {} /\ ~batch.running /\ UNCHANGED task
    BY <1>0, <1>2, BeginEntries
  <2>2. \A w \in Workers : ~Open(w)'
    BY <1>0, <2>1, StateFacts DEF Open, Active
  <2> QED  BY <2>1, <2>2 DEF TakesAnew
<1>3. ASSUME NEW w \in Workers, NEW i, TakeItem(w, i) PROVE TakesAnew'
  <2>1. /\ batch'.running /\ Entries' = Entries /\ i \in batch.queue
        /\ batch'.queue = batch.queue \ {i} /\ task'[w].item = i
        /\ \A v \in Workers \ {w} : task'[v] = task[v]
    BY <1>0, <1>3, TakeEntries
  <2> QED  BY <2>1 DEF TakesAnew, Open
<1>4. ASSUME NEW w \in Workers, WorksOn(w), batch.running PROVE TakesAnew'
  <2>1. /\ batch'.running /\ batch'.queue = batch.queue
        /\ \A v \in Workers \ {w} : task'[v] = task[v]
    BY <1>4 DEF WorksOn
  <2>2. CASE Open(w) /\ Open(w)' /\ task'[w].item = task[w].item /\ Entries' = Entries
    BY <2>1, <2>2 DEF TakesAnew, Open
  <2>3. CASE Open(w) /\ ~Open(w)' /\ Entries' = Entries \cup {task[w].item}
    <3>1. /\ task[w].item \notin batch.queue
          /\ \A v \in Workers \ {w} : Open(v) => task[v].item # task[w].item
      BY <2>3, OpenFacts
    <3>2. \A v \in Workers : Open(v)' => task'[v].item \notin Entries'
      BY <2>1, <2>3, <3>1 DEF TakesAnew, Open
    <3> QED  BY <2>1, <2>3, <3>1, <3>2 DEF TakesAnew
  <2>4. CASE ~Open(w) /\ ~Open(w)' /\ Entries' = Entries
    BY <2>1, <2>4 DEF TakesAnew, Open
  <2> QED  BY <1>4, <2>2, <2>3, <2>4 DEF WorksOn
<1>5. CASE Complete \/ Rejected \/ Crash
  <2>1. batch' = NoBatch /\ Entries' = {} /\ \A w \in Workers : ~Open(w)'
    BY <1>5, EndEntries
  <2> QED  BY <2>1 DEF TakesAnew
<1>6. ASSUME NEW w \in Workers, Step(w) PROVE TakesAnew'
  BY <1>0, <1>3, <1>4, <1>6, WorkEntries, ThroughEntries DEF Step
<1> QED  BY <1>1, <1>2, <1>5, <1>6 DEF Next

LEMMA RInvStep == RInv /\ [Next]_vars => RInv'
BY IInvStep, AnewStep DEF RInv

LEMMA IdealInit == Init => Ideal!Init
<1> SUFFICES ASSUME Init PROVE Ideal!Init  OBVIOUS
<1>1. batch.run = NoRun /\ Entries = {}
  BY DEF Init, NoBatch, Entries
<1>2. AtHand = {}
  BY Records DEF Init, AtHand, Open
<1>3. \A j \in Runs : jobRuns[j].done \cup jobRuns[j].errors = {}
  BY Records DEF Init
<1> QED  BY <1>1, <1>2, <1>3 DEF Ideal!Init, Ideal!Idle, Entries, AtHand, Open

LEMMA IdealStep ==
  ASSUME RInv, [Next]_vars
  PROVE  [Ideal!Next]_(Ideal!vars)
<1> USE DEF Ideal!vars, Ideal!record, Saved, Entries
<1>0. Typed /\ IInv /\ TakesAnew
  BY DEF RInv, IInv
<1>a. batch.running => batch.run \in Runs /\ batch.run # NoRun
  BY <1>0, NoRunAssumption DEF Typed, CallsAreAboutRuns
<1>1. CASE UNCHANGED vars
  BY <1>1 DEF vars
<1>2. ASSUME NEW j \in Runs,
             \/ \E kind \in Kinds : \E items \in SUBSET ItemsOf(kind) : StartBatch(j, kind, items)
             \/ \E items \in SUBSET ItemsOf(jobRuns[j].kind) : ResumeBatch(j, items)
      PROVE  Ideal!Next
  <2>1. /\ batch'.run = j /\ Entries' = Saved[j] /\ ~batch.running /\ UNCHANGED task
        /\ \A i \in Runs : /\ jobRuns'[i].done = jobRuns[i].done
                           /\ jobRuns'[i].errors = jobRuns[i].errors
    BY <1>0, <1>2, BeginEntries
  <2>2. batch.run = NoRun /\ Saved' = Saved
    BY <1>0, <2>1 DEF TakesAnew, NoBatch
  <2>3. AtHand' = {}
    <3>1. \A w \in Workers : ~Open(w)'
      BY <1>0, <2>1, StateFacts DEF Open, Active
    <3> QED  BY <3>1 DEF AtHand
  <2>4. Ideal!Begin(j, 0)
    BY <2>1, <2>2, <2>3 DEF Ideal!Begin, AtHand, Open
  <2> QED  BY <2>4 DEF Ideal!Next
<1>3. ASSUME NEW w \in Workers, NEW i, TakeItem(w, i) PROVE Ideal!Next
  <2>1. /\ batch.running /\ batch'.run = batch.run /\ Entries' = Entries
        /\ i \in batch.queue /\ i \in Items /\ ~Open(w) /\ Open(w)' /\ task'[w].item = i
        /\ \A v \in Workers \ {w} : task'[v] = task[v]
        /\ UNCHANGED jobRuns
    BY <1>0, <1>3, TakeEntries
  <2>2. AtHand' = AtHand \cup {i}
    BY <2>1 DEF AtHand, Open
  <2>3. i \notin Entries \cup AtHand
    <3>1. i \notin Entries
      BY <1>0, <2>1 DEF TakesAnew
    <3>2. \A v \in Workers : Open(v) => task[v].item # i
      BY <1>0, <2>1, OpenFacts
    <3> QED  BY <3>1, <3>2 DEF AtHand
  <2>4. Ideal!Take(i)
    BY <1>a, <2>1, <2>2, <2>3 DEF Ideal!Take, AtHand, Open
  <2> QED  BY <2>1, <2>4 DEF Ideal!Next
<1>4. ASSUME NEW w \in Workers, WorksOn(w), batch.running, UNCHANGED jobRuns
      PROVE  [Ideal!Next]_(Ideal!vars)
  <2>1. batch'.run = batch.run /\ \A v \in Workers \ {w} : task'[v] = task[v]
    BY <1>4 DEF WorksOn
  <2>2. CASE Open(w) /\ Open(w)' /\ task'[w].item = task[w].item /\ Entries' = Entries
    <3>1. AtHand' = AtHand
      <4>1. \A v \in Workers : Open(v)' <=> Open(v)
        BY <2>1, <2>2 DEF Open
      <4>2. \A v \in Workers : Open(v) => task'[v].item = task[v].item
        BY <2>1, <2>2
      <4> QED  BY <4>1, <4>2 DEF AtHand
    <3> QED  BY <1>4, <2>1, <2>2, <3>1 DEF AtHand, Open
  <2>3. CASE Open(w) /\ ~Open(w)' /\ Entries' = Entries \cup {task[w].item}
    <3>1. PICK i \in Items : i = task[w].item
      BY <1>0, <2>3, OpenFacts
    <3>2. \A v \in Workers \ {w} : Open(v) => task[v].item # i
      BY <1>0, <2>3, <3>1, OpenFacts
    <3>3. AtHand' = AtHand \ {i}
      BY <2>1, <2>3, <3>1, <3>2 DEF AtHand, Open
    <3>4. i \notin Entries
      BY <1>0, <2>3, <3>1 DEF TakesAnew
    <3>5. Ideal!Finish(i)
      BY <1>a, <1>4, <2>1, <2>3, <3>1, <3>3, <3>4 DEF Ideal!Finish, AtHand, Open
    <3> QED  BY <3>1, <3>5 DEF Ideal!Next
  <2>4. CASE ~Open(w) /\ ~Open(w)' /\ Entries' = Entries
    <3>1. AtHand' = AtHand
      BY <2>1, <2>4 DEF AtHand, Open
    <3> QED  BY <1>4, <2>1, <2>4, <3>1 DEF AtHand, Open
  <2> QED  BY <1>4, <2>2, <2>3, <2>4 DEF WorksOn
<1>5. ASSUME NEW w \in Workers, SaveCheckpoint(w) PROVE [Ideal!Next]_(Ideal!vars)
  <2>1. /\ WorksOn(w) /\ ~Open(w) /\ batch.running
        /\ UNCHANGED jobRuns \/ Saved' = [Saved EXCEPT ![batch.run] = Entries]
    BY <1>0, <1>5, ThroughEntries
  <2>2. CASE Saved' = [Saved EXCEPT ![batch.run] = Entries]
    <3>1. /\ batch'.run = batch.run /\ Entries' = Entries /\ ~Open(w)'
          /\ \A v \in Workers \ {w} : task'[v] = task[v]
      BY <2>1 DEF WorksOn
    <3>2. AtHand' = AtHand
      BY <2>1, <3>1 DEF AtHand, Open
    <3>3. Ideal!Save
      BY <1>a, <2>1, <2>2, <3>1, <3>2 DEF Ideal!Save, AtHand, Open
    <3> QED  BY <3>3 DEF Ideal!Next
  <2> QED  BY <1>4, <2>1, <2>2
<1>6. CASE Complete \/ Rejected \/ Crash
  <2>1. /\ batch.running /\ batch' = NoBatch /\ Entries' = {} /\ Saved' = Saved
        /\ \A w \in Workers : ~Open(w)'
    BY <1>0, <1>6, EndEntries
  <2>2. batch'.run = NoRun /\ AtHand' = {}
    BY <2>1 DEF NoBatch, AtHand
  <2>3. Ideal!End
    BY <1>a, <2>1, <2>2 DEF Ideal!End, Ideal!Idle, AtHand, Open
  <2> QED  BY <2>3 DEF Ideal!Next
<1>7. ASSUME NEW w \in Workers, CheckpointThrows(w) PROVE [Ideal!Next]_(Ideal!vars)
  BY <1>0, <1>4, <1>7, ThroughEntries DEF CheckpointThrows
<1>8. ASSUME NEW w \in Workers, Step(w) PROVE [Ideal!Next]_(Ideal!vars)
  BY <1>0, <1>3, <1>4, <1>5, <1>7, <1>8, WorkEntries DEF Step
<1> QED  BY <1>1, <1>2, <1>6, <1>8 DEF Next

\* ResumesItsRuns: whatever dies or throws, with any number of workers, a resumed scanBatch or
\* scoreBatch begins no item that has an entry or that another worker is at, and saves what was done.
THEOREM BatchesResume == Spec => ResumesItsRuns
BY RInvInit, RInvStep, IdealInit, IdealStep, PTL DEF Spec, ResumesItsRuns, Ideal!Spec
=============================================================================
