--------------------------- MODULE TechnologyScans ---------------------------
(***************************************************************************)
(* TechnologyEnrichmentService.scanDomain and detectChanges                *)
(* (packages/prospecting/src/enrichment): one scan of a company domain,    *)
(* stored row by row and compared with the domain's previous scan.         *)
(*                                                                         *)
(* A scan is a technology_scans row, which already says 'OK', and then one *)
(* technology_detections row per technology, each insert an access of its  *)
(* own.  What the detector sees on a site is external and may be any set.  *)
(***************************************************************************)
EXTENDS Naturals, Sequences, FiniteSets, FiniteSetsExt

CONSTANTS
  Workers,       \* loops that call scanDomain
  Domains, NoDomain,
  Technologies,
  MaxScans       \* bound: rows technology_scans holds

ASSUME NoDomainAssumption == NoDomain \notin Domains
ASSUME MaxScansAssumption == MaxScans \in Nat

VARIABLES
  scans,    \* technology_scans with their detections, in the order of scanned_at
  changes,  \* technology_change_events
  scan      \* scan[w]: worker w's scanDomain call in progress

scanVars == <<scans, changes, scan>>

ScanRow ==
  [domain: Domains,
   ok: BOOLEAN,                   \* scan_status is 'OK'
   found: SUBSET Technologies,    \* raw_response: the technologies with status DETECTED
   stored: SUBSET Technologies,   \* technology_detections rows with status DETECTED
   finished: BOOLEAN]             \* observed: scanDomain returned

ChangeRow == [earlier: 1..MaxScans, later: 1..MaxScans, technology: Technologies,
              type: {"added", "removed"}]

ScanState ==
  [pc: {"idle", "analyze", "insertScan", "detections", "diff", "changes", "returned"},
   domain: Domains \cup {NoDomain},
   ok: BOOLEAN,
   found: SUBSET Technologies,
   id: 0..MaxScans,
   earlier: 0..MaxScans,
   todo: SUBSET Technologies]  \* technologies with a row still to write

NoScan == [pc |-> "idle", domain |-> NoDomain, ok |-> FALSE, found |-> {}, id |-> 0,
           earlier |-> 0, todo |-> {}]

ScansInit ==
  /\ scans = <<>>
  /\ changes = {}
  /\ scan = [w \in Workers |-> NoScan]

OkScans(d) == {i \in DOMAIN scans : scans[i].domain = d /\ scans[i].ok}

HasSuccessfulScan(d) == OkScans(d) # {}
-----------------------------------------------------------------------------
CallOn(d) == [NoScan EXCEPT !.pc = "analyze", !.domain = d]

\* What the adapter makes of the page's HTTP status, 0 standing for no response at all.
ScanStatus(http) ==
  CASE http = 0 -> "ERROR"
    [] http \in 200..399 -> "OK"
    [] http \in {401, 403, 407, 429, 451} -> "BLOCKED"
    [] OTHER -> "INCONCLUSIVE"

\* Only a page that was read has technologies, whatever the detector saw of a refusal.
AnalyzerResult(http, seen) ==
  [ok |-> ScanStatus(http) = "OK", found |-> IF ScanStatus(http) = "OK" THEN seen ELSE {}]

Analyze(w) ==
  /\ scan[w].pc = "analyze"
  /\ \E http \in {0, 200, 301, 403, 500}, seen \in SUBSET Technologies :
       LET result == AnalyzerResult(http, seen)
       IN  scan' = [scan EXCEPT ![w] = [@ EXCEPT !.pc = "insertScan", !.ok = result.ok,
                                                 !.found = result.found]]
  /\ UNCHANGED <<scans, changes>>

\* A scan that is not OK is stored without detections and compared with nothing.
InsertScan(w) ==
  /\ scan[w].pc = "insertScan"
  /\ Len(scans) < MaxScans
  /\ scans' = Append(scans, [domain |-> scan[w].domain, ok |-> scan[w].ok,
                             found |-> scan[w].found, stored |-> {}, finished |-> ~scan[w].ok])
  /\ scan' = [scan EXCEPT ![w].id = Len(scans) + 1,
                          ![w].pc = IF scan[w].ok THEN "detections" ELSE "returned",
                          ![w].todo = scan[w].found]
  /\ UNCHANGED changes

InsertDetection(w) ==
  /\ scan[w].pc = "detections"
  /\ \E t \in scan[w].todo :
       /\ scans' = [scans EXCEPT ![scan[w].id].stored = @ \cup {t}]
       /\ scan' = [scan EXCEPT ![w].todo = @ \ {t}]
  /\ UNCHANGED changes

ScanReturns(w) ==
  /\ scans' = [scans EXCEPT ![scan[w].id].finished = TRUE]
  /\ scan' = [scan EXCEPT ![w].pc = "returned"]

\* detectChanges: the domain's most recent other OK scan.
PickEarlier(w) ==
  /\ scan[w].pc = "detections"
  /\ scan[w].todo = {}
  /\ LET others == OkScans(scan[w].domain) \ {scan[w].id}
     IN  IF others = {}
           THEN ScanReturns(w)
           ELSE /\ scan' = [scan EXCEPT ![w].pc = "diff", ![w].earlier = Max(others)]
                /\ UNCHANGED scans
  /\ UNCHANGED changes

\* Faulty variant: only what is new is looked at, not what is gone.
ReadAdditions(w) ==
  /\ scan[w].pc = "diff"
  /\ scan' = [scan EXCEPT ![w].pc = "changes",
                          ![w].todo = scans[scan[w].id].stored \ scans[scan[w].earlier].stored]
  /\ UNCHANGED <<scans, changes>>

\* Both scans' detections are read back from the table.
ReadDetections(w) ==
  LET earlier == scans[scan[w].earlier].stored
      later == scans[scan[w].id].stored
  IN  /\ scan[w].pc = "diff"
      /\ scan' = [scan EXCEPT ![w].pc = "changes",
                              ![w].todo = (later \ earlier) \cup (earlier \ later)]
      /\ UNCHANGED <<scans, changes>>

ChangeOf(w, t) ==
  [earlier |-> scan[w].earlier, later |-> scan[w].id, technology |-> t,
   type |-> IF t \in scans[scan[w].id].stored THEN "added" ELSE "removed"]

\* Faulty variant: the two kinds of change are mixed up.
WriteOppositeChange(w) ==
  /\ scan[w].pc = "changes"
  /\ \E t \in scan[w].todo :
       /\ changes' = changes \cup {[ChangeOf(w, t) EXCEPT !.type =
                                      IF @ = "added" THEN "removed" ELSE "added"]}
       /\ scan' = [scan EXCEPT ![w].todo = @ \ {t}]
  /\ UNCHANGED scans

\* First what was added, then what was removed.
WriteChange(w) ==
  /\ scan[w].pc = "changes"
  /\ \E t \in scan[w].todo :
       /\ ChangeOf(w, t).type = "removed" =>
            \A u \in scan[w].todo : ChangeOf(w, u).type = "removed"
       /\ changes' = changes \cup {ChangeOf(w, t)}
       /\ scan' = [scan EXCEPT ![w].todo = @ \ {t}]
  /\ UNCHANGED scans

FinishScan(w) ==
  /\ scan[w].pc = "changes"
  /\ scan[w].todo = {}
  /\ ScanReturns(w)
  /\ UNCHANGED changes

\* The access that w's call makes next may throw; analyze() may not, its throw is caught.
ScanAccesses(w) ==
  \/ scan[w].pc \in {"insertScan", "detections", "diff"}
  \/ scan[w].pc = "changes" /\ scan[w].todo # {}

ScanStep(w) ==
  \/ Analyze(w) \/ InsertScan(w) \/ InsertDetection(w) \/ PickEarlier(w)
  \/ ReadDetections(w) \/ WriteChange(w) \/ FinishScan(w)
-----------------------------------------------------------------------------
ScansTypeOK ==
  /\ scans \in Seq(ScanRow) /\ Len(scans) <= MaxScans
  /\ changes \subseteq ChangeRow
  /\ scan \in [Workers -> ScanState]

\* Every technology the detector saw has its row.
Whole(i) == scans[i].stored = scans[i].found

\* The detector saw what the change event c says, on both dates.
Observed(c) ==
  IF c.type = "added"
    THEN c.technology \in scans[c.later].found \ scans[c.earlier].found
    ELSE c.technology \in scans[c.earlier].found \ scans[c.later].found

\* However scans are interrupted, the later scan of a change event was stored as a whole; and if
\* the earlier one was too, then the event says what the detector saw on the two dates.
ChangesBetweenWholeScansAreTrue ==
  \A c \in changes : Whole(c.later) /\ (Whole(c.earlier) => Observed(c))

\* A scan that ran to its end left exactly the change events that tell its stored detections from
\* those of the domain's OK scan before it.
FinishedScansRecordEveryChange ==
  \A i \in DOMAIN scans : scans[i].finished /\ scans[i].ok =>
    LET before == {j \in OkScans(scans[i].domain) : j < i}
        recorded == {<<c.earlier, c.technology>> : c \in {c \in changes : c.later = i}}
    IN  recorded = IF before = {} THEN {}
                   ELSE {Max(before)} \X
                          {t \in Technologies : t \in scans[i].stored
                                                  <=> t \notin scans[Max(before)].stored}

=============================================================================
