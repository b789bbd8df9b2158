--------------------------- MODULE Discovery_proofs ---------------------------
(***************************************************************************)
(* What holds of discovery for any number of accounts, handles, queries    *)
(* and runs, however often runs are resumed and calls die.                 *)
(***************************************************************************)
EXTENDS Discovery, TLAPS

\* A candidate's profile was retrieved, but the checkpoint does not count the scrape yet.
Observing == {"upsert", "write"}

\* The call's own checkpoint counts a scrape that the saved one does not.
Unsaved == {"save_search", "save_enrich"}

\* A call is about a run and has read a budget; a candidate it observes is an account.
CallsAreAboutRuns ==
  /\ call.pc # "idle" => call.run \in Runs /\ call.budget \in Budgets
  /\ call.pc \in Observing => call.username \in Handles /\ call.account \in Accounts
  /\ call.pc = "write" => call.row \in Handles

Typed == DiscoveryTypeOK /\ CallsAreAboutRuns
-----------------------------------------------------------------------------
(* Typing.                                                                   *)

LEMMA Bounds == MaxProfiles \in Nat /\ MaxAborts \in Nat /\ Budgets \subseteq Nat /\ Budgets # {}
BY BoundsAssumption

\* A call that starts from nothing, and what a call knows.
LEMMA Records ==
  /\ NoCall \in Call /\ NoCall.pc = "idle" /\ EmptyCheckpoint \in Checkpoint
  /\ NoRow \in Row
BY Bounds DEF NoCall, Call, EmptyCheckpoint, Checkpoint, NoRow, Row, Stops

\* A checkpoint or a call with another value of the right kind in one field is one still.
LEMMA CheckpointUpdates ==
  ASSUME NEW c \in Checkpoint
  PROVE  /\ \A x \in SUBSET Queries : [c EXCEPT !.pendingQueries = x] \in Checkpoint
         /\ \A x \in [Handles -> SUBSET Matches] : [c EXCEPT !.found = x] \in Checkpoint
         /\ \A x \in SUBSET Handles : [c EXCEPT !.processed = x] \in Checkpoint
         /\ \A x \in SUBSET Handles : [c EXCEPT !.failed = x] \in Checkpoint
         /\ \A x \in Nat : [c EXCEPT !.scrapesUsed = x] \in Checkpoint
         /\ \A x \in 0..MaxProfiles : [c EXCEPT !.profilesRetrieved = x] \in Checkpoint
         /\ \A x \in Stops : [c EXCEPT !.stoppedReason = x] \in Checkpoint
BY DEF Checkpoint

LEMMA CheckpointFields ==
  ASSUME NEW c \in Checkpoint
  PROVE  /\ c.pendingQueries \in SUBSET Queries /\ c.found \in [Handles -> SUBSET Matches]
         /\ c.processed \in SUBSET Handles /\ c.failed \in SUBSET Handles
         /\ c.scrapesUsed \in Nat /\ c.profilesRetrieved \in 0..MaxProfiles
BY DEF Checkpoint

LEMMA CheckpointMoves ==
  ASSUME NEW c \in Checkpoint
  PROVE  /\ \A x \in SUBSET Queries, n \in Nat, f \in [Handles -> SUBSET Matches] :
              [c EXCEPT !.pendingQueries = x, !.scrapesUsed = n, !.found = f] \in Checkpoint
         /\ \A x, y \in SUBSET Handles, n \in Nat :
              [c EXCEPT !.processed = x, !.failed = y, !.scrapesUsed = n] \in Checkpoint
         /\ \A x \in SUBSET Handles, n \in Nat :
              [c EXCEPT !.processed = x, !.scrapesUsed = n] \in Checkpoint
BY CheckpointUpdates

LEMMA CallUpdates ==
  ASSUME NEW c \in Call
  PROVE  /\ \A x \in {"search", "save_search", "enrich", "upsert", "write", "save_enrich",
                     "finish", "complete"} : [c EXCEPT !.pc = x] \in Call
         /\ \A x \in Runs \cup {NoRun} : [c EXCEPT !.run = x] \in Call
         /\ \A x \in Nat : [c EXCEPT !.budget = x] \in Call
         /\ \A x \in Checkpoint : [c EXCEPT !.checkpoint = x] \in Call
         /\ \A x \in Handles \cup {NoHandle} : [c EXCEPT !.username = x] \in Call
         /\ \A x \in Accounts \cup {Nobody} : [c EXCEPT !.account = x] \in Call
         /\ \A x \in BOOLEAN : [c EXCEPT !.hasId = x] \in Call
         /\ \A x \in Handles \cup {NoHandle} : [c EXCEPT !.row = x] \in Call
         /\ \A x \in SUBSET Findings : [c EXCEPT !.todo = x] \in Call
BY SMTT(30) DEF Call

\* The step a call takes: the fields it changes and those it leaves.
LEMMA CallFields ==
  ASSUME NEW c \in Call
  PROVE  /\ c.checkpoint \in Checkpoint /\ c.budget \in Nat /\ c.todo \in SUBSET Findings
         /\ c.hasId \in BOOLEAN
BY DEF Call

LEMMA TypedInit == Init => Typed
<1> SUFFICES ASSUME Init PROVE Typed  OBVIOUS
<1>1. jobRuns \in [Runs -> JobRun]
  BY Records DEF Init, JobRun
<1>2. prospects \in [Handles -> Row]
  BY Records DEF Init
<1>3. scrapes \in [Runs -> Nat] /\ aborts \in 0..MaxAborts
  BY Bounds DEF Init
<1>4. CallsAreAboutRuns /\ call \in Call
  BY Records DEF Init, CallsAreAboutRuns, Observing
<1>5. holder \in [Handles -> Accounts \cup {Nobody}] /\ owners \in [Handles -> SUBSET Accounts]
  BY DEF Init
<1> QED  BY <1>1, <1>2, <1>3, <1>4, <1>5 DEF Init, Typed, DiscoveryTypeOK

\* Most steps change the call alone, or the call and the count of scrapes.
LEMMA CallTyped ==
  ASSUME Typed, UNCHANGED <<world, db, jobRuns>>, call' \in Call, CallsAreAboutRuns',
         scrapes' \in [Runs -> Nat], aborts' \in 0..MaxAborts
  PROVE  Typed'
BY DEF Typed, DiscoveryTypeOK, world, db

LEMMA StartTyped ==
  ASSUME Typed, NEW j \in Runs, NEW b \in Budgets, Start(j, b) \/ Resume(j, b)
  PROVE  Typed'
<1>0. b \in Nat /\ jobRuns \in [Runs -> JobRun]
  BY Bounds DEF Typed, DiscoveryTypeOK
<1>1. jobRuns' \in [Runs -> JobRun]
  BY <1>0 DEF Start, Resume, JobRun
<1>2. call' \in Call /\ call'.run = j /\ call'.budget = b /\ call'.pc = "search"
  <2>1. CASE Start(j, b)
    BY <1>0, <2>1, Records DEF Start, NoCall, Call
  <2>2. CASE Resume(j, b)
    <3>1. [jobRuns[j].checkpoint EXCEPT !.stoppedReason = "in_progress"] \in Checkpoint
      BY <1>0, SMTT(30) DEF JobRun, Checkpoint, Stops
    <3> DEFINE c == [jobRuns[j].checkpoint EXCEPT !.stoppedReason = "in_progress"]
    <3>2. call' = [NoCall EXCEPT !.pc = "search", !.run = j, !.budget = b, !.checkpoint = c]
      BY <2>2 DEF Resume
    <3> HIDE DEF c
    <3> QED  BY <1>0, <3>1, <3>2 DEF NoCall, Call, c
  <2> QED  BY <2>1, <2>2
<1>3. CallsAreAboutRuns'
  BY <1>2 DEF CallsAreAboutRuns, Observing
<1> QED  BY <1>1, <1>2, <1>3 DEF Start, Resume, Typed, DiscoveryTypeOK, world, db

LEMMA SaveTyped ==
  ASSUME Typed, Save \/ Complete \/ Abort
  PROVE  Typed'
<1>0. /\ call \in Call /\ jobRuns \in [Runs -> JobRun]
      /\ call.pc # "idle" => call.run \in Runs
  BY DEF Typed, DiscoveryTypeOK, CallsAreAboutRuns
<1>1. CASE Save
  <2>1. ck \in Checkpoint
    BY <1>0 DEF ck, Call
  <2>2. jobRuns' \in [Runs -> JobRun]
    <3>1. [jobRuns[call.run] EXCEPT !.checkpoint = ck] \in JobRun
      BY <1>0, <1>1, <2>1 DEF Save, JobRun
    <3> QED  BY <1>0, <1>1, <3>1 DEF Save
  <2>3. PICK pc \in {"search", "enrich", "complete"} : call' = [call EXCEPT !.pc = pc]
    BY <1>1 DEF Save
  <2>4. call' \in Call /\ call'.run = call.run /\ call'.budget = call.budget /\ call'.pc = pc
    <3>1. call' \in Call
      BY <1>0, <2>3, CallUpdates
    <3> QED  BY <1>0, <2>3, <3>1 DEF Call
  <2>5. CallsAreAboutRuns'
    BY <1>1, <2>4 DEF Save, Typed, CallsAreAboutRuns, Observing
  <2> QED  BY <1>1, <2>2, <2>4, <2>5 DEF Save, Typed, DiscoveryTypeOK, world, db
<1>2. CASE Complete
  <2>1. jobRuns' \in [Runs -> JobRun]
    <3>1. [jobRuns[call.run] EXCEPT !.status = "completed"] \in JobRun
      BY <1>0, <1>2 DEF Complete, JobRun
    <3> QED  BY <1>0, <1>2, <3>1 DEF Complete
  <2>2. call' \in Call /\ CallsAreAboutRuns'
    BY <1>2, Records DEF Complete, CallsAreAboutRuns, Observing
  <2> QED  BY <1>2, <2>1, <2>2 DEF Complete, Typed, DiscoveryTypeOK, world, db
<1>3. CASE Abort
  <2>1. aborts' \in 0..MaxAborts
    BY <1>3, Bounds DEF Abort, Typed, DiscoveryTypeOK
  <2>2. call' \in Call /\ CallsAreAboutRuns'
    BY <1>3, Records DEF Abort, CallsAreAboutRuns, Observing
  <2> QED  BY <1>3, <2>1, <2>2 DEF Abort, Typed, DiscoveryTypeOK, world, db
<1> QED  BY <1>1, <1>2, <1>3

LEMMA SearchTyped ==
  ASSUME Typed, SearchEnds \/ \E q \in Queries, authors \in SUBSET Handles : SearchOneQuery(q, authors)
  PROVE  Typed'
<1>0. /\ call \in Call /\ ck \in Checkpoint /\ scrapes \in [Runs -> Nat] /\ aborts \in 0..MaxAborts
      /\ call.pc # "idle" => call.run \in Runs /\ call.budget \in Budgets
  BY DEF Typed, DiscoveryTypeOK, CallsAreAboutRuns, Call, ck
<1>1. CASE SearchEnds
  <2>1. call' \in Call /\ call'.pc \in {"enrich", "finish"}
        /\ call'.run = call.run /\ call'.budget = call.budget
    <3> DEFINE c == [ck EXCEPT !.stoppedReason = "budget_exhausted"]
    <3>1. c \in Checkpoint
      BY <1>0, CheckpointUpdates DEF Stops
    <3>2. \/ call' = [call EXCEPT !.pc = "enrich"]
          \/ call' = [call EXCEPT !.pc = "finish", !.checkpoint = c]
      BY <1>1 DEF SearchEnds
    <3> HIDE DEF c
    <3>3. call' \in Call
      <4>1. [call EXCEPT !.pc = "enrich"] \in Call /\ [call EXCEPT !.pc = "finish"] \in Call
        BY <1>0, CallUpdates
      <4>2. [call EXCEPT !.pc = "finish", !.checkpoint = c] \in Call
        BY <3>1, <4>1, CallUpdates
      <4> QED  BY <3>2, <4>1, <4>2
    <3> QED  BY <1>0, <3>2, <3>3 DEF Call
  <2>2. CallsAreAboutRuns'
    BY <1>0, <1>1, <2>1 DEF SearchEnds, CallsAreAboutRuns, Observing
  <2> QED  BY <1>0, <1>1, <2>1, <2>2, CallTyped DEF SearchEnds
<1>2. ASSUME NEW q \in Queries, NEW authors \in SUBSET Handles, SearchOneQuery(q, authors)
      PROVE  Typed'
  <2> DEFINE found == [h \in Handles |-> IF h \in authors THEN ck.found[h] \cup {<<q, holder[h]>>}
                                           ELSE ck.found[h]]
  <2> DEFINE c == [ck EXCEPT !.pendingQueries = @ \ {q}, !.scrapesUsed = @ + 1, !.found = found]
  <2>1. found \in [Handles -> SUBSET Matches]
    <3>1. \A h \in authors : <<q, holder[h]>> \in Matches
      BY <1>2 DEF SearchOneQuery, Typed, DiscoveryTypeOK, Matches
    <3> QED  BY <1>0, <3>1 DEF Checkpoint
  <2>2. c \in Checkpoint
    <3> HIDE DEF found
    <3>1. ck.pendingQueries \ {q} \in SUBSET Queries /\ ck.scrapesUsed + 1 \in Nat
      BY <1>0, CheckpointFields, SMTT(30)
    <3> QED  BY <1>0, <2>1, <3>1, CheckpointMoves, ZenonT(40)
  <2>3. call' = [call EXCEPT !.pc = "save_search", !.checkpoint = c]
    BY <1>2 DEF SearchOneQuery, ck
  <2> HIDE DEF c
  <2>4. call' \in Call /\ call'.pc = "save_search" /\ call'.run = call.run /\ call'.budget = call.budget
    BY <1>0, <2>2, <2>3, ZenonT(40) DEF Call
  <2>5. CallsAreAboutRuns'
    BY <1>0, <1>2, <2>4 DEF SearchOneQuery, CallsAreAboutRuns, Observing
  <2>6. scrapes' \in [Runs -> Nat]
    <3>1. call.run \in Runs /\ scrapes' = [scrapes EXCEPT ![call.run] = @ + 1]
      BY <1>0, <1>2 DEF SearchOneQuery
    <3> QED  BY <1>0, <3>1, SMTT(30)
  <2> QED  BY <1>0, <1>2, <2>4, <2>5, <2>6, CallTyped DEF SearchOneQuery
<1> QED  BY <1>1, <1>2

\* What a candidate gives away is about accounts, and of the kinds the tables have.
LEMMA FindingsTyped ==
  ASSUME NEW matches, NEW a \in Accounts, NEW domain, NEW role
  PROVE  InPosts(matches) \cup InProfile(a, domain, role) \in SUBSET Findings
<1>1. InPosts(matches) \subseteq Findings
  BY DEF InPosts, Findings, Kinds
<1>2. <<"role", "bio">> \in Kinds /\ <<"domain", "bio">> \in Kinds
  BY DEF Kinds
<1>3. InProfile(a, domain, role) \subseteq Findings
  BY <1>2 DEF InProfile, Findings
<1> QED  BY <1>1, <1>3

LEMMA EnrichTyped ==
  ASSUME Typed, NEW h \in Handles,
         ProfileFails(h) \/ \E hasId, role \in BOOLEAN, site \in Sites : GetProfile(h, hasId, site, role)
  PROVE  Typed'
<1>0. /\ call \in Call /\ ck \in Checkpoint /\ scrapes \in [Runs -> Nat] /\ aborts \in 0..MaxAborts
      /\ call.pc # "idle" => call.run \in Runs /\ call.budget \in Budgets
  BY DEF Typed, DiscoveryTypeOK, CallsAreAboutRuns, Call, ck
<1>1. scrapes' \in [Runs -> Nat] /\ UNCHANGED <<world, db, jobRuns, aborts>>
  <2>1. /\ call.run \in Runs /\ scrapes' = [scrapes EXCEPT ![call.run] = @ + 1]
        /\ UNCHANGED <<world, db, jobRuns, aborts>>
    BY <1>0 DEF ProfileFails, GetProfile
  <2> QED  BY <1>0, <2>1
<1>2. CASE ProfileFails(h)
  <2> DEFINE c == [ck EXCEPT !.processed = @ \cup {h}, !.failed = @ \cup {h}, !.scrapesUsed = @ + 1]
  <2>1. c \in Checkpoint
    <3>1. /\ ck.processed \cup {h} \in SUBSET Handles /\ ck.failed \cup {h} \in SUBSET Handles
          /\ ck.scrapesUsed + 1 \in Nat
      BY <1>0, CheckpointFields
    <3> QED  BY <1>0, <3>1, CheckpointMoves
  <2>2. call' = [call EXCEPT !.pc = "save_enrich", !.checkpoint = c]
    BY <1>2 DEF ProfileFails, ck
  <2> HIDE DEF c
  <2>3. call' \in Call /\ call'.pc = "save_enrich" /\ call'.run = call.run /\ call'.budget = call.budget
    BY <1>0, <2>1, <2>2 DEF Call
  <2>4. CallsAreAboutRuns'
    BY <1>0, <1>2, <2>3 DEF ProfileFails, CallsAreAboutRuns, Observing
  <2> QED  BY <1>0, <1>1, <2>3, <2>4, CallTyped
<1>3. ASSUME NEW hasId \in BOOLEAN, NEW role \in BOOLEAN, NEW site \in Sites,
             GetProfile(h, hasId, site, role)
      PROVE  Typed'
  <2> DEFINE todo == InPosts(ck.found[h]) \cup InProfile(holder[h], ResolvesDomain(site), role)
  <2> DEFINE c == [ck EXCEPT !.profilesRetrieved = @ + 1]
  <2>2. c \in Checkpoint
    <3>1. ck.profilesRetrieved + 1 \in 0..MaxProfiles
      <4>1. ck.profilesRetrieved < MaxProfiles
        BY <1>3 DEF GetProfile, MayGoOn
      <4>2. ck.profilesRetrieved \in 0..MaxProfiles
        BY <1>0, CheckpointFields
      <4> QED  BY <4>1, <4>2, Bounds
    <3> QED  BY <1>0, <3>1, CheckpointUpdates
  <2>3. holder[h] \in Accounts
    BY <1>3 DEF GetProfile, Typed, DiscoveryTypeOK
  <2>1. todo \in SUBSET Findings
    BY <2>3, FindingsTyped
  <2>4. call' = [call EXCEPT !.pc = "upsert", !.username = h, !.account = holder[h], !.hasId = hasId,
                             !.todo = todo, !.checkpoint = c]
    BY <1>0, <1>3 DEF GetProfile, ck, Call
  <2> HIDE DEF todo, c
  <2>5. /\ call' \in Call /\ call'.pc = "upsert" /\ call'.run = call.run /\ call'.budget = call.budget
        /\ call'.username = h /\ call'.account \in Accounts
    BY <1>0, <2>1, <2>2, <2>3, <2>4 DEF Call
  <2>6. CallsAreAboutRuns'
    BY <1>0, <1>3, <2>5 DEF GetProfile, CallsAreAboutRuns, Observing
  <2> QED  BY <1>0, <1>1, <2>5, <2>6, CallTyped
<1> QED  BY <1>2, <1>3

\* The row a candidate is merged into.
LEMMA UpsertEffect ==
  ASSUME Typed, UpsertProspect
  PROVE  LET id == IF call.hasId THEN call.account ELSE Nobody
         IN  \E r \in Handles :
               /\ call' = [call EXCEPT !.pc = "write", !.row = r, !.hasId = FALSE]
               /\ prospects' \in [Handles -> Row]
               /\ \A g \in Handles \ {r} : prospects'[g] = prospects[g]
               /\ \/ /\ ExistingRow = {} /\ r = call.username
                     /\ prospects'[r].stored /\ prospects'[r].xUserId = id
                  \/ /\ r \in ExistingRow
                     /\ prospects'[r].stored = prospects[r].stored
                     /\ prospects'[r].xUserId = IF prospects[r].xUserId = Nobody THEN id
                                                ELSE prospects[r].xUserId
<1> DEFINE id == IF call.hasId THEN call.account ELSE Nobody
<1> DEFINE domain == <<call.account, <<"domain", "bio">>>> \in call.todo
<1>0. /\ prospects \in [Handles -> Row] /\ call.username \in Handles /\ id \in Accounts \cup {Nobody}
  BY DEF Typed, DiscoveryTypeOK, CallsAreAboutRuns, UpsertProspect, Observing
<1>1. CASE \E r \in ExistingRow :
             /\ prospects' = [prospects EXCEPT
                               ![r].xUserId = IF @ = Nobody THEN id ELSE @,
                               ![r].companyDomain = @ \/ domain]
             /\ call' = [call EXCEPT !.pc = "write", !.row = r, !.hasId = FALSE]
  <2>1. PICK r \in ExistingRow :
             /\ prospects' = [prospects EXCEPT
                               ![r].xUserId = IF @ = Nobody THEN id ELSE @,
                               ![r].companyDomain = @ \/ domain]
             /\ call' = [call EXCEPT !.pc = "write", !.row = r, !.hasId = FALSE]
    BY <1>1
  <2>2. r \in Handles
    BY <1>0 DEF ExistingRow
  <2> HIDE DEF id, domain
  <2>3. /\ prospects'[r] \in Row
        /\ prospects'[r].stored = prospects[r].stored
        /\ prospects'[r].xUserId = IF prospects[r].xUserId = Nobody THEN id ELSE prospects[r].xUserId
    BY <1>0, <2>1, <2>2 DEF Row
  <2>4. prospects' \in [Handles -> Row] /\ \A g \in Handles \ {r} : prospects'[g] = prospects[g]
    BY <1>0, <2>1, <2>2, <2>3
  <2> QED  BY <2>1, <2>2, <2>3, <2>4 DEF id
<1>2. CASE /\ ExistingRow = {}
           /\ prospects' = [prospects EXCEPT ![call.username] =
                              [stored |-> TRUE, xUserId |-> id, companyDomain |-> domain]]
           /\ call' = [call EXCEPT !.pc = "write", !.row = call.username, !.hasId = FALSE]
  <2>0. domain \in BOOLEAN
    OBVIOUS
  <2> HIDE DEF id, domain
  <2>1. [stored |-> TRUE, xUserId |-> id, companyDomain |-> domain] \in Row
    BY <1>0, <2>0 DEF Row
  <2>2. /\ prospects' \in [Handles -> Row]
        /\ \A g \in Handles \ {call.username} : prospects'[g] = prospects[g]
        /\ prospects'[call.username].stored /\ prospects'[call.username].xUserId = id
    BY <1>0, <1>2, <2>1
  <2> QED  BY <1>0, <1>2, <2>2 DEF id
<1> QED  BY <1>1, <1>2 DEF UpsertProspect

LEMMA WriteTyped ==
  ASSUME Typed, UpsertProspect \/ CandidateDone \/ EnrichEnds \/ \E b \in Accounts, k \in Kinds : WriteOne(b, k)
  PROVE  Typed'
<1>0. /\ call \in Call /\ ck \in Checkpoint /\ scrapes \in [Runs -> Nat] /\ aborts \in 0..MaxAborts
      /\ call.pc # "idle" => call.run \in Runs /\ call.budget \in Budgets
  BY DEF Typed, DiscoveryTypeOK, CallsAreAboutRuns, Call, ck
<1>1. CASE UpsertProspect
  <2>1. PICK r \in Handles : /\ call' = [call EXCEPT !.pc = "write", !.row = r, !.hasId = FALSE]
                             /\ prospects' \in [Handles -> Row]
    BY <1>1, UpsertEffect
  <2>2. /\ call' \in Call /\ call'.pc = "write" /\ call'.run = call.run /\ call'.budget = call.budget
        /\ call'.row = r /\ call'.username = call.username /\ call'.account = call.account
    BY <1>0, <2>1 DEF Call
  <2>3. CallsAreAboutRuns'
    BY <1>1, <2>2 DEF UpsertProspect, Typed, CallsAreAboutRuns, Observing
  <2> QED  BY <1>1, <2>1, <2>2, <2>3 DEF UpsertProspect, Typed, DiscoveryTypeOK, world
<1>2. ASSUME NEW b \in Accounts, NEW k \in Kinds, WriteOne(b, k) PROVE Typed'
  <2>1. call.row \in Handles
    BY <1>2 DEF WriteOne, Typed, CallsAreAboutRuns
  <2>2. evidence' \subseteq Handles \X Accounts \X Kinds
    <3>1. evidence' \subseteq evidence \cup {<<call.row, b, k>>}
      BY <1>2 DEF WriteOne
    <3> QED  BY <2>1, <3>1 DEF Typed, DiscoveryTypeOK
  <2>3. /\ call' \in Call /\ call'.pc = call.pc /\ call'.run = call.run /\ call'.budget = call.budget
        /\ call'.row = call.row /\ call'.username = call.username /\ call'.account = call.account
    BY <1>0, <1>2 DEF WriteOne, Call
  <2>4. CallsAreAboutRuns'
    BY <1>2, <2>3 DEF Typed, CallsAreAboutRuns
  <2> QED  BY <1>2, <2>2, <2>3, <2>4 DEF WriteOne, Typed, DiscoveryTypeOK, world
<1>3. CASE CandidateDone
  <2>1. Processed(ck) \in Checkpoint
    <3>1. call.username \in Handles
      BY <1>3 DEF CandidateDone, Typed, CallsAreAboutRuns, Observing
    <3>2. ck.processed \cup {call.username} \in SUBSET Handles /\ ck.scrapesUsed + 1 \in Nat
      BY <1>0, <3>1, CheckpointFields
    <3> QED  BY <1>0, <3>2, CheckpointMoves DEF Processed
  <2>2. call' = [call EXCEPT !.pc = "save_enrich", !.checkpoint = Processed(ck), !.username = NoHandle,
                             !.account = Nobody, !.row = NoHandle]
    BY <1>3 DEF CandidateDone, ck
  <2>3. call' \in Call /\ call'.pc = "save_enrich" /\ call'.run = call.run /\ call'.budget = call.budget
    BY <1>0, <2>1, <2>2 DEF Call
  <2>4. CallsAreAboutRuns'
    BY <1>0, <1>3, <2>3 DEF CandidateDone, CallsAreAboutRuns, Observing
  <2> QED  BY <1>0, <1>3, <2>3, <2>4, CallTyped DEF CandidateDone
<1>4. CASE EnrichEnds
  <2> DEFINE why == CASE PendingUsernames = {} -> "completed"
                      [] ck.scrapesUsed >= call.budget -> "budget_exhausted"
                      [] OTHER -> "max_profiles_reached"
  <2>0. why \in Stops
    BY DEF Stops
  <2>1. call' = [call EXCEPT !.pc = "finish", !.checkpoint = [ck EXCEPT !.stoppedReason = why]]
    BY <1>4 DEF EnrichEnds
  <2> HIDE DEF why
  <2>2. call' \in Call /\ call'.pc = "finish" /\ call'.run = call.run /\ call'.budget = call.budget
    <3> DEFINE c == [ck EXCEPT !.stoppedReason = why]
    <3>1. c \in Checkpoint
      BY <1>0, <2>0, CheckpointUpdates
    <3>2. call' = [call EXCEPT !.pc = "finish", !.checkpoint = c]
      BY <2>1
    <3> HIDE DEF c
    <3>3. call' \in Call
      BY <1>0, <3>1, <3>2, CallUpdates
    <3> QED  BY <1>0, <3>2, <3>3 DEF Call
  <2>3. CallsAreAboutRuns'
    BY <1>0, <1>4, <2>2 DEF EnrichEnds, CallsAreAboutRuns, Observing
  <2> QED  BY <1>0, <1>4, <2>2, <2>3, CallTyped DEF EnrichEnds
<1> QED  BY <1>1, <1>2, <1>3, <1>4

LEMMA WorldTyped ==
  ASSUME Typed, NEW a \in Accounts, NEW h \in Handles \cup {NoHandle}, ChangeHandle(a, h)
  PROVE  Typed'
<1>1. holder' \in [Handles -> Accounts \cup {Nobody}] /\ owners' \in [Handles -> SUBSET Accounts]
  BY DEF ChangeHandle, Typed, DiscoveryTypeOK
<1> QED  BY <1>1 DEF ChangeHandle, Typed, DiscoveryTypeOK, CallsAreAboutRuns, db

LEMMA TypedStep ==
  ASSUME Typed, [Next]_vars
  PROVE  Typed'
<1>1. CASE UNCHANGED vars
  BY <1>1 DEF vars, world, db, Typed, DiscoveryTypeOK, CallsAreAboutRuns
<1> QED  BY <1>1, StartTyped, SaveTyped, SearchTyped, EnrichTyped, WriteTyped, WorldTyped DEF Next

\* The rows, the checkpoints and the call in progress have the fields DiscoveryService gives them.
THEOREM TypeCorrect == Spec => []DiscoveryTypeOK
<1>1. Typed => DiscoveryTypeOK
  BY DEF Typed
<1> QED  BY <1>1, TypedInit, TypedStep, PTL DEF Spec
-----------------------------------------------------------------------------
(* What each step does to the call and to the saved checkpoints.             *)

\* A run that was never started has the checkpoint it would start from.
FreshRuns ==
  /\ \A j \in Runs : jobRuns[j].status = "none" => jobRuns[j].checkpoint = EmptyCheckpoint
  /\ call.pc # "idle" => jobRuns[call.run].status # "none"

\* Two checkpoints that differ in nothing but the stop reason and the count of profiles.
SameWork(c, d) ==
  /\ c.pendingQueries = d.pendingQueries /\ c.found = d.found
  /\ c.processed = d.processed /\ c.failed = d.failed
  /\ c.scrapesUsed = d.scrapesUsed

SavedAsBefore == \A j \in Runs : jobRuns'[j].checkpoint = jobRuns[j].checkpoint

LEMMA Parts ==
  ASSUME Typed
  PROVE  /\ call \in Call /\ ck \in Checkpoint /\ jobRuns \in [Runs -> JobRun]
         /\ \A j \in Runs : jobRuns[j].checkpoint \in Checkpoint
         /\ call.pc # "idle" => call.run \in Runs /\ call.budget \in Budgets
         /\ call.pc \in Observing => call.username \in Handles /\ call.account \in Accounts
         /\ call.pc = "write" => call.row \in Handles
BY DEF Typed, DiscoveryTypeOK, CallsAreAboutRuns, Call, ck, JobRun

LEMMA StartEffect ==
  ASSUME Typed, FreshRuns, NEW j \in Runs, NEW b \in Budgets, Start(j, b) \/ Resume(j, b)
  PROVE  /\ call.pc = "idle" /\ call'.pc = "search" /\ call'.run = j
         /\ SavedAsBefore /\ SameWork(ck', jobRuns[j].checkpoint)
         /\ \A i \in Runs : jobRuns'[i].status = IF i = j THEN "running" ELSE jobRuns[i].status
         /\ UNCHANGED <<world, db, scrapes, aborts>>
<1>1. /\ call.pc = "idle" /\ jobRuns' = [jobRuns EXCEPT ![j].status = "running"]
      /\ UNCHANGED <<world, db, scrapes, aborts>>
  BY DEF Start, Resume
<1>2. SavedAsBefore /\ \A i \in Runs : jobRuns'[i].status = IF i = j THEN "running" ELSE jobRuns[i].status
  BY <1>1, Parts DEF SavedAsBefore, JobRun
<1>3. CASE Start(j, b)
  <2>1. call' = [NoCall EXCEPT !.pc = "search", !.run = j, !.budget = b]
    BY <1>3 DEF Start
  <2>2. call'.pc = "search" /\ call'.run = j /\ ck' = EmptyCheckpoint
    BY <2>1 DEF NoCall, ck
  <2>3. jobRuns[j].checkpoint = EmptyCheckpoint
    BY <1>3 DEF Start, FreshRuns
  <2> QED  BY <1>1, <1>2, <2>2, <2>3 DEF SameWork
<1>4. CASE Resume(j, b)
  <2> DEFINE c == [jobRuns[j].checkpoint EXCEPT !.stoppedReason = "in_progress"]
  <2>1. call' = [NoCall EXCEPT !.pc = "search", !.run = j, !.budget = b, !.checkpoint = c]
    BY <1>4 DEF Resume
  <2>2. SameWork(c, jobRuns[j].checkpoint)
    BY Parts DEF SameWork, Checkpoint
  <2> HIDE DEF c
  <2>3. call'.pc = "search" /\ call'.run = j /\ ck' = c
    BY <2>1 DEF NoCall, ck
  <2> QED  BY <1>1, <1>2, <2>2, <2>3
<1> QED  BY <1>3, <1>4

LEMMA SaveEffect ==
  ASSUME Typed, Save
  PROVE  /\ call.pc \in {"save_search", "save_enrich", "finish"}
         /\ call'.pc = CASE call.pc = "save_search" -> "search"
                         [] call.pc = "save_enrich" -> "enrich"
                         [] OTHER -> "complete"
         /\ call'.run = call.run /\ ck' = ck
         /\ \A j \in Runs : jobRuns'[j].checkpoint = IF j = call.run THEN ck ELSE jobRuns[j].checkpoint
         /\ \A j \in Runs : jobRuns'[j].status = jobRuns[j].status
         /\ UNCHANGED <<world, db, scrapes, aborts>>
<1>1. /\ call.pc \in {"save_search", "save_enrich", "finish"} /\ UNCHANGED <<world, db, scrapes, aborts>>
      /\ jobRuns' = [jobRuns EXCEPT ![call.run].checkpoint = ck]
  BY DEF Save
<1>2. /\ \A j \in Runs : jobRuns'[j].checkpoint = IF j = call.run THEN ck ELSE jobRuns[j].checkpoint
      /\ \A j \in Runs : jobRuns'[j].status = jobRuns[j].status
  BY <1>1, Parts DEF JobRun
<1> DEFINE pc == CASE call.pc = "save_search" -> "search"
                  [] call.pc = "save_enrich" -> "enrich"
                  [] OTHER -> "complete"
<1>3. call' = [call EXCEPT !.pc = pc]
  BY DEF Save
<1> HIDE DEF pc
<1>4. call'.pc = pc /\ call'.run = call.run /\ ck' = ck
  BY <1>3, Parts DEF Call, ck
<1> QED  BY <1>1, <1>2, <1>4 DEF pc

LEMMA EndEffect ==
  ASSUME Typed, Complete \/ Abort
  PROVE  /\ call.pc # "idle" /\ call'.pc = "idle" /\ UNCHANGED <<world, db, scrapes>>
         /\ SavedAsBefore
         /\ \A j \in Runs : jobRuns'[j].status = "none" => jobRuns[j].status = "none"
         /\ (call.pc = "complete" /\ aborts' = aborts) \/ aborts' = aborts + 1
<1>1. CASE Complete
  <2>1. jobRuns' = [jobRuns EXCEPT ![call.run].status = "completed"]
    BY <1>1 DEF Complete
  <2> QED  BY <1>1, <2>1, Parts, Records DEF Complete, JobRun, SavedAsBefore
<1>2. CASE Abort
  BY <1>2, Records DEF Abort, SavedAsBefore
<1> QED  BY <1>1, <1>2

LEMMA SearchEffect ==
  ASSUME Typed, NEW q \in Queries, NEW authors \in SUBSET Handles, SearchOneQuery(q, authors)
  PROVE  /\ call.pc = "search" /\ call'.pc = "save_search" /\ call'.run = call.run
         /\ ck.scrapesUsed < call.budget /\ ck.pendingQueries # {}
         /\ ck'.scrapesUsed = ck.scrapesUsed + 1 /\ ck'.processed = ck.processed
         /\ \A h \in Handles : \A m \in ck'.found[h] :
              m \in ck.found[h] \/ (m = <<q, holder[h]>> /\ holder[h] # Nobody)
         /\ scrapes' = [scrapes EXCEPT ![call.run] = @ + 1]
         /\ UNCHANGED <<world, db, jobRuns, aborts>>
<1>1. /\ call.pc = "search" /\ ck.scrapesUsed < call.budget /\ q \in ck.pendingQueries
      /\ \A h \in authors : holder[h] # Nobody
      /\ scrapes' = [scrapes EXCEPT ![call.run] = @ + 1]
      /\ UNCHANGED <<world, db, jobRuns, aborts>>
  BY DEF SearchOneQuery
<1> DEFINE found == [h \in Handles |-> IF h \in authors THEN ck.found[h] \cup {<<q, holder[h]>>}
                                           ELSE ck.found[h]]
<1> DEFINE c == [ck EXCEPT !.pendingQueries = @ \ {q}, !.scrapesUsed = @ + 1, !.found = found]
<1>2. call' = [call EXCEPT !.pc = "save_search", !.checkpoint = c]
  BY DEF SearchOneQuery
<1>5. \A h \in Handles : \A m \in found[h] :
        m \in ck.found[h] \/ (m = <<q, holder[h]>> /\ holder[h] # Nobody)
  BY <1>1
<1> HIDE DEF found
<1>3. c.scrapesUsed = ck.scrapesUsed + 1 /\ c.processed = ck.processed /\ c.found = found
  BY Parts DEF Checkpoint
<1> HIDE DEF c
<1>4. call'.pc = "save_search" /\ call'.run = call.run /\ ck' = c
  BY <1>2, Parts DEF Call, ck
<1> QED  BY <1>1, <1>3, <1>4, <1>5

LEMMA LoopEndsEffect ==
  ASSUME Typed, SearchEnds \/ EnrichEnds
  PROVE  /\ call.pc \in {"search", "enrich"} /\ call'.pc \in {"enrich", "finish"}
         /\ call'.pc = "enrich" => ck.pendingQueries = {}
         /\ call'.run = call.run /\ SameWork(ck', ck)
         /\ UNCHANGED <<world, db, jobRuns, scrapes, aborts>>
<1>1. ASSUME NEW c, SameWork(c, ck), NEW pc, call' = [call EXCEPT !.pc = pc, !.checkpoint = c]
      PROVE  call'.pc = pc /\ call'.run = call.run /\ SameWork(ck', ck)
  BY <1>1, Parts DEF Call, ck
<1>2. ASSUME NEW why PROVE SameWork([ck EXCEPT !.stoppedReason = why], ck)
  BY Parts DEF SameWork, Checkpoint
<1>3. CASE SearchEnds
  <2>1. /\ call.pc = "search"
        /\ \/ ck.pendingQueries = {} /\ call' = [call EXCEPT !.pc = "enrich"]
           \/ call' = [call EXCEPT !.pc = "finish",
                                  !.checkpoint = [ck EXCEPT !.stoppedReason = "budget_exhausted"]]
        /\ UNCHANGED <<world, db, jobRuns, scrapes, aborts>>
    BY <1>3 DEF SearchEnds
  <2>2. CASE ck.pendingQueries = {} /\ call' = [call EXCEPT !.pc = "enrich"]
    BY <2>1, <2>2, Parts DEF Call, ck, SameWork
  <2>3. CASE call' = [call EXCEPT !.pc = "finish",
                                  !.checkpoint = [ck EXCEPT !.stoppedReason = "budget_exhausted"]]
    <3> DEFINE c == [ck EXCEPT !.stoppedReason = "budget_exhausted"]
    <3>1. SameWork(c, ck) /\ call' = [call EXCEPT !.pc = "finish", !.checkpoint = c]
      BY <1>2, <2>3
    <3> HIDE DEF c
    <3>2. call'.pc = "finish" /\ call'.run = call.run /\ SameWork(ck', ck)
      BY <1>1, <3>1
    <3> QED  BY <2>1, <3>2
  <2> QED  BY <2>1, <2>2, <2>3
<1>4. CASE EnrichEnds
  <2> DEFINE why == CASE PendingUsernames = {} -> "completed"
                      [] ck.scrapesUsed >= call.budget -> "budget_exhausted"
                      [] OTHER -> "max_profiles_reached"
  <2>1. /\ call' = [call EXCEPT !.pc = "finish", !.checkpoint = [ck EXCEPT !.stoppedReason = why]]
        /\ call.pc = "enrich" /\ UNCHANGED <<world, db, jobRuns, scrapes, aborts>>
    BY <1>4 DEF EnrichEnds
  <2> HIDE DEF why
  <2> DEFINE c == [ck EXCEPT !.stoppedReason = why]
  <2>2. SameWork(c, ck) /\ call' = [call EXCEPT !.pc = "finish", !.checkpoint = c]
    BY <1>2, <2>1
  <2> HIDE DEF c
  <2> QED  BY <1>1, <2>1, <2>2
<1> QED  BY <1>3, <1>4

LEMMA ProfileFailsEffect ==
  ASSUME Typed, NEW h \in Handles, ProfileFails(h)
  PROVE  /\ call.pc = "enrich" /\ call'.pc = "save_enrich" /\ call'.run = call.run
         /\ ck.scrapesUsed < call.budget /\ ck'.scrapesUsed = ck.scrapesUsed + 1
         /\ ck'.pendingQueries = ck.pendingQueries /\ ck'.found = ck.found
         /\ ck'.processed = ck.processed \cup {h} /\ ck'.failed = ck.failed \cup {h}
         /\ scrapes' = [scrapes EXCEPT ![call.run] = @ + 1]
         /\ UNCHANGED <<world, db, jobRuns, aborts>>
<1>1. /\ call.pc = "enrich" /\ ck.scrapesUsed < call.budget
      /\ scrapes' = [scrapes EXCEPT ![call.run] = @ + 1]
      /\ UNCHANGED <<world, db, jobRuns, aborts>>
  BY DEF ProfileFails, MayGoOn
<1> DEFINE c == [ck EXCEPT !.processed = @ \cup {h}, !.failed = @ \cup {h}, !.scrapesUsed = @ + 1]
<1>2. call' = [call EXCEPT !.pc = "save_enrich", !.checkpoint = c]
  BY DEF ProfileFails
<1>3. /\ c.scrapesUsed = ck.scrapesUsed + 1 /\ c.pendingQueries = ck.pendingQueries /\ c.found = ck.found
      /\ c.processed = ck.processed \cup {h} /\ c.failed = ck.failed \cup {h}
  BY Parts DEF Checkpoint
<1> HIDE DEF c
<1>4. call'.pc = "save_enrich" /\ call'.run = call.run /\ ck' = c
  BY <1>2, Parts DEF Call, ck
<1> QED  BY <1>1, <1>3, <1>4

LEMMA GetProfileEffect ==
  ASSUME Typed, NEW h \in Handles, NEW hasId \in BOOLEAN, NEW role \in BOOLEAN, NEW site \in Sites,
         GetProfile(h, hasId, site, role)
  PROVE  /\ call.pc = "enrich" /\ call'.pc = "upsert" /\ call'.run = call.run
         /\ call'.username = h /\ call'.account = holder[h] /\ holder[h] # Nobody
         /\ call'.todo = InPosts(ck.found[h]) \cup InProfile(holder[h], ResolvesDomain(site), role)
         /\ ck.scrapesUsed < call.budget /\ SameWork(ck', ck)
         /\ scrapes' = [scrapes EXCEPT ![call.run] = @ + 1]
         /\ UNCHANGED <<world, db, jobRuns, aborts>>
<1>1. /\ call.pc = "enrich" /\ ck.scrapesUsed < call.budget /\ holder[h] # Nobody
      /\ scrapes' = [scrapes EXCEPT ![call.run] = @ + 1]
      /\ UNCHANGED <<world, db, jobRuns, aborts>>
  BY DEF GetProfile, MayGoOn
<1> DEFINE todo == InPosts(ck.found[h]) \cup InProfile(holder[h], ResolvesDomain(site), role)
<1> DEFINE c == [ck EXCEPT !.profilesRetrieved = @ + 1]
<1>2. call' = [call EXCEPT !.pc = "upsert", !.username = h, !.account = holder[h], !.hasId = hasId,
                           !.todo = todo, !.checkpoint = c]
  BY DEF GetProfile
<1>3. SameWork(c, ck)
  BY Parts DEF SameWork, Checkpoint
<1> HIDE DEF c, todo
<1>4. /\ call'.pc = "upsert" /\ call'.run = call.run /\ call'.username = h
      /\ call'.account = holder[h] /\ call'.todo = todo /\ ck' = c
  BY <1>2, Parts DEF Call, ck
<1> QED  BY <1>1, <1>3, <1>4 DEF todo

LEMMA UpsertCallEffect ==
  ASSUME Typed, UpsertProspect
  PROVE  /\ call.pc = "upsert" /\ call'.pc = "write" /\ call'.run = call.run
         /\ call'.username = call.username /\ call'.account = call.account /\ call'.todo = call.todo
         /\ ck' = ck /\ UNCHANGED <<world, evidence, jobRuns, scrapes, aborts>>
<1>1. PICK r \in Handles : call' = [call EXCEPT !.pc = "write", !.row = r, !.hasId = FALSE]
  BY UpsertEffect
<1>2. /\ call'.pc = "write" /\ call'.run = call.run /\ call'.username = call.username
      /\ call'.account = call.account /\ call'.todo = call.todo /\ ck' = ck
  BY <1>1, Parts DEF Call, ck
<1> QED  BY <1>2 DEF UpsertProspect

LEMMA WriteOneEffect ==
  ASSUME Typed, NEW b \in Accounts, NEW k \in Kinds, WriteOne(b, k)
  PROVE  /\ call.pc = "write" /\ call'.pc = "write" /\ call'.run = call.run /\ call'.row = call.row
         /\ call'.username = call.username /\ <<b, k>> \in call.todo
         /\ call'.todo = call.todo \ {<<b, k>>} /\ ck' = ck
         /\ evidence \subseteq evidence' /\ evidence' \subseteq evidence \cup {<<call.row, b, k>>}
         /\ \E a \in Accounts : <<call.row, a, k>> \in evidence'
         /\ UNCHANGED <<world, prospects, jobRuns, scrapes, aborts>>
<1>1. /\ call.pc = "write" /\ <<b, k>> \in call.todo /\ call' = [call EXCEPT !.todo = @ \ {<<b, k>>}]
      /\ UNCHANGED <<world, prospects, jobRuns, scrapes, aborts>>
  BY DEF WriteOne
<1>2. /\ call'.pc = "write" /\ call'.run = call.run /\ call'.row = call.row
      /\ call'.username = call.username
      /\ call'.todo = call.todo \ {<<b, k>>} /\ ck' = ck
  BY <1>1, Parts DEF Call, ck
<1>3. \/ evidence' = evidence /\ \E a \in Accounts : <<call.row, a, k>> \in evidence
      \/ evidence' = evidence \cup {<<call.row, b, k>>}
  BY DEF WriteOne
<1> QED  BY <1>1, <1>2, <1>3

LEMMA CandidateDoneEffect ==
  ASSUME Typed, CandidateDone
  PROVE  /\ call.pc = "write" /\ call'.pc = "save_enrich" /\ call'.run = call.run /\ call.todo = {}
         /\ ck'.scrapesUsed = ck.scrapesUsed + 1
         /\ ck'.pendingQueries = ck.pendingQueries /\ ck'.found = ck.found
         /\ ck'.processed = ck.processed \cup {call.username} /\ ck'.failed = ck.failed
         /\ UNCHANGED <<world, db, jobRuns, scrapes, aborts>>
<1>1. /\ call.pc = "write" /\ call.todo = {} /\ UNCHANGED <<world, db, jobRuns, scrapes, aborts>>
      /\ call' = [call EXCEPT !.pc = "save_enrich", !.checkpoint = Processed(ck), !.username = NoHandle,
                              !.account = Nobody, !.row = NoHandle]
  BY DEF CandidateDone
<1>2. /\ Processed(ck).scrapesUsed = ck.scrapesUsed + 1
      /\ Processed(ck).pendingQueries = ck.pendingQueries /\ Processed(ck).found = ck.found
      /\ Processed(ck).processed = ck.processed \cup {call.username} /\ Processed(ck).failed = ck.failed
  BY Parts DEF Processed, Checkpoint
<1>3. call'.pc = "save_enrich" /\ call'.run = call.run /\ ck' = Processed(ck)
  BY <1>1, Parts DEF Call, ck
<1> QED  BY <1>1, <1>2, <1>3
-----------------------------------------------------------------------------
(* The budget: every scrape is in the saved checkpoint, is the one that the *)
(* call in progress has not saved yet, or was lost with a call that died.    *)

Counted(j) == IF call.run = j /\ call.pc \in Observing \cup Unsaved THEN 1 ELSE 0

ScrapesAccountedFor ==
  /\ \A j \in Runs : /\ scrapes[j] <= jobRuns[j].checkpoint.scrapesUsed + Counted(j) + aborts
                     /\ \E b \in Budgets : jobRuns[j].checkpoint.scrapesUsed + Counted(j) <= b
  /\ call.pc # "idle" =>
       ck.scrapesUsed = jobRuns[call.run].checkpoint.scrapesUsed
                          + (IF call.pc \in Unsaved THEN 1 ELSE 0)

LEMMA ScrapesInit == Init => FreshRuns /\ ScrapesAccountedFor
<1> SUFFICES ASSUME Init PROVE FreshRuns /\ ScrapesAccountedFor  OBVIOUS
<1>1. call.pc = "idle"
  BY Records DEF Init
<1>2. \A j \in Runs : Counted(j) = 0
  BY <1>1 DEF Counted, Observing, Unsaved
<1>3. EmptyCheckpoint.scrapesUsed = 0
  BY DEF EmptyCheckpoint
<1>4. PICK b \in Budgets : b \in Nat
  BY Bounds
<1> QED  BY <1>1, <1>2, <1>3, <1>4 DEF Init, FreshRuns, ScrapesAccountedFor

LEMMA ScrapesStep ==
  ASSUME Typed, Typed', FreshRuns, ScrapesAccountedFor, [Next]_vars
  PROVE  FreshRuns' /\ ScrapesAccountedFor'
<1> DEFINE used(j) == jobRuns[j].checkpoint.scrapesUsed
<1> DEFINE unsaved == IF call.pc \in Unsaved THEN 1 ELSE 0
<1>0. /\ \A j \in Runs : used(j) \in Nat /\ scrapes[j] \in Nat /\ Counted(j) \in {0, 1}
      /\ aborts \in Nat /\ ck.scrapesUsed \in Nat
  BY Parts, CheckpointFields, Bounds DEF Typed, DiscoveryTypeOK, Counted
<1>1. CASE UNCHANGED vars
  BY <1>1 DEF vars, FreshRuns, ScrapesAccountedFor, Counted, ck
<1>2. ASSUME NEW j \in Runs, NEW b \in Budgets, Start(j, b) \/ Resume(j, b)
      PROVE  FreshRuns' /\ ScrapesAccountedFor'
  <2>1. /\ call.pc = "idle" /\ call'.pc = "search" /\ call'.run = j
        /\ SavedAsBefore /\ SameWork(ck', jobRuns[j].checkpoint)
        /\ \A i \in Runs : jobRuns'[i].status = IF i = j THEN "running" ELSE jobRuns[i].status
        /\ UNCHANGED <<world, db, scrapes, aborts>>
    BY <1>2, StartEffect
  <2>2. FreshRuns'
    BY <2>1 DEF FreshRuns, SavedAsBefore
  <2>3. \A i \in Runs : Counted(i)' = 0 /\ Counted(i) = 0
    BY <2>1 DEF Counted, Observing, Unsaved
  <2>4. ck'.scrapesUsed = used(j)'
    BY <2>1 DEF SameWork, SavedAsBefore
  <2> QED  BY <1>0, <2>1, <2>2, <2>3, <2>4 DEF ScrapesAccountedFor, SavedAsBefore, Unsaved
<1>3. CASE Save
  <2>1. /\ call.pc \in {"save_search", "save_enrich", "finish"}
        /\ call'.pc \in {"search", "enrich", "complete"}
        /\ call'.run = call.run /\ ck' = ck
        /\ \A j \in Runs : jobRuns'[j].checkpoint = IF j = call.run THEN ck ELSE jobRuns[j].checkpoint
        /\ \A j \in Runs : jobRuns'[j].status = jobRuns[j].status
        /\ UNCHANGED <<scrapes, aborts>>
    BY <1>3, SaveEffect
  <2>2. call.run \in Runs
    BY <2>1, Parts
  <2>3. FreshRuns'
    BY <2>1, <2>2 DEF FreshRuns
  <2>4. \A j \in Runs : /\ Counted(j)' = 0
                        /\ Counted(j) = IF j = call.run THEN unsaved ELSE 0
    BY <2>1 DEF Counted, Observing, Unsaved
  <2>5. ck.scrapesUsed = used(call.run) + unsaved
    BY <2>1 DEF ScrapesAccountedFor
  <2>6. \A j \in Runs : used(j)' = used(j) + Counted(j)
    BY <2>1, <2>4, <2>5, <1>0
  <2>7. ck'.scrapesUsed = used(call.run)'
    BY <2>1, <2>2
  <2> HIDE DEF used, unsaved
  <2>8. \A j \in Runs : /\ scrapes'[j] <= used(j)' + Counted(j)' + aborts'
                        /\ \E b \in Budgets : used(j)' + Counted(j)' <= b
    BY <1>0, <2>1, <2>4, <2>6 DEF ScrapesAccountedFor, used
  <2> QED  BY <1>0, <2>1, <2>2, <2>3, <2>7, <2>8 DEF ScrapesAccountedFor, used, Unsaved
<1>4. CASE Complete \/ Abort
  <2>1. /\ call.pc # "idle" /\ call'.pc = "idle" /\ UNCHANGED <<world, db, scrapes>>
        /\ SavedAsBefore
        /\ \A j \in Runs : jobRuns'[j].status = "none" => jobRuns[j].status = "none"
        /\ (call.pc = "complete" /\ aborts' = aborts) \/ aborts' = aborts + 1
    BY <1>4, EndEffect
  <2>2. FreshRuns'
    BY <2>1 DEF FreshRuns, SavedAsBefore
  <2>3. \A j \in Runs : /\ Counted(j)' = 0 /\ Counted(j) + aborts <= aborts'
                        /\ used(j)' = used(j)
    BY <1>0, <2>1 DEF Counted, Observing, Unsaved, SavedAsBefore
  <2> HIDE DEF used
  <2>4. \A j \in Runs : /\ scrapes'[j] <= used(j)' + Counted(j)' + aborts'
                        /\ \E b \in Budgets : used(j)' + Counted(j)' <= b
    <3> TAKE j \in Runs
    <3>1. scrapes[j] <= used(j) + Counted(j) + aborts
      BY DEF ScrapesAccountedFor, used
    <3>2. PICK b \in Budgets : used(j) + Counted(j) <= b
      BY DEF ScrapesAccountedFor, used
    <3>3. b \in Nat /\ aborts' \in Nat
      BY <1>0, <2>1, Bounds
    <3> QED  BY <1>0, <2>1, <2>3, <3>1, <3>2, <3>3
  <2> QED  BY <2>1, <2>2, <2>4 DEF ScrapesAccountedFor, used
<1>5. ASSUME call.pc \in {"search", "enrich"}, call'.pc \in {"save_search", "save_enrich", "upsert"},
             call'.run = call.run, ck.scrapesUsed < call.budget,
             ck'.scrapesUsed = ck.scrapesUsed + (IF call'.pc = "upsert" THEN 0 ELSE 1),
             scrapes' = [scrapes EXCEPT ![call.run] = @ + 1], UNCHANGED <<jobRuns, aborts>>
      PROVE  FreshRuns' /\ ScrapesAccountedFor'
  <2>1. /\ call.run \in Runs /\ call.budget \in Budgets /\ call.budget \in Nat
        /\ ck.scrapesUsed = used(call.run)
    <3>1. call.run \in Runs /\ call.budget \in Budgets /\ call.budget \in Nat
      BY <1>5, Parts, Bounds
    <3>2. unsaved = 0 /\ ck.scrapesUsed = used(call.run) + unsaved
      BY <1>5 DEF ScrapesAccountedFor, Unsaved
    <3> HIDE DEF used, unsaved
    <3> QED  BY <1>0, <3>1, <3>2
  <2>2. FreshRuns'
    BY <1>5 DEF FreshRuns
  <2>3. \A j \in Runs : Counted(j) = 0 /\ Counted(j)' = IF j = call.run THEN 1 ELSE 0
    BY <1>5 DEF Counted, Observing, Unsaved
  <2>4. \A j \in Runs : scrapes'[j] = scrapes[j] + Counted(j)'
    BY <1>0, <1>5, <2>1, <2>3 DEF Typed, DiscoveryTypeOK
  <2>5. used(call.run)' + 1 <= call.budget
    BY <1>0, <1>5, <2>1
  <2>6. \A j \in Runs : /\ scrapes'[j] <= used(j)' + Counted(j)' + aborts'
                        /\ \E b \in Budgets : used(j)' + Counted(j)' <= b
    <3> TAKE j \in Runs
    <3>1. used(j)' = used(j) /\ aborts' = aborts
      BY <1>5
    <3> HIDE DEF used
    <3>2. scrapes[j] <= used(j) + aborts /\ \E b \in Budgets : used(j) <= b
      BY <1>0, <2>3 DEF ScrapesAccountedFor, used
    <3>3. CASE j = call.run
      <4>1. Counted(j)' = 1 /\ scrapes'[j] = scrapes[j] + 1
        BY <2>3, <2>4, <3>3
      <4>2. used(j)' + 1 <= call.budget
        BY <1>5, <2>5, <3>3 DEF used
      <4>3. scrapes'[j] <= used(j)' + Counted(j)' + aborts'
        BY <1>0, <3>1, <3>2, <4>1
      <4> QED  BY <2>1, <4>1, <4>2, <4>3
    <3>4. CASE j # call.run
      BY <1>0, <2>3, <2>4, <3>1, <3>2, <3>4
    <3> QED  BY <3>3, <3>4
  <2>7. ck'.scrapesUsed = used(call.run)' + unsaved'
    BY <1>0, <1>5, <2>1 DEF Unsaved
  <2> QED  BY <1>5, <2>2, <2>6, <2>7 DEF ScrapesAccountedFor
<1>6. ASSUME call.pc # "idle", call'.pc # "idle", call'.run = call.run,
             call.pc \in Observing \cup Unsaved <=> call'.pc \in Observing \cup Unsaved,
             ck'.scrapesUsed = ck.scrapesUsed +
               (IF call'.pc \in Unsaved /\ call.pc \notin Unsaved THEN 1 ELSE 0),
             call.pc \in Unsaved => call'.pc \in Unsaved, UNCHANGED <<jobRuns, scrapes, aborts>>
      PROVE  FreshRuns' /\ ScrapesAccountedFor'
  <2>1. FreshRuns'
    BY <1>6 DEF FreshRuns
  <2>2. \A j \in Runs : Counted(j)' = Counted(j)
    BY <1>6 DEF Counted
  <2>3. ck'.scrapesUsed = used(call.run)' + unsaved'
    <3>1. ck.scrapesUsed = used(call.run) + unsaved /\ used(call.run) \in Nat
      BY <1>0, <1>6, Parts DEF ScrapesAccountedFor
    <3> QED  BY <1>6, <3>1
  <2> QED  BY <1>6, <2>1, <2>2, <2>3 DEF ScrapesAccountedFor
<1>7. ASSUME NEW q \in Queries, NEW authors \in SUBSET Handles, SearchOneQuery(q, authors)
      PROVE  FreshRuns' /\ ScrapesAccountedFor'
  BY <1>5, <1>7, SearchEffect
<1>8. ASSUME NEW h \in Handles, ProfileFails(h) PROVE FreshRuns' /\ ScrapesAccountedFor'
  BY <1>5, <1>8, ProfileFailsEffect
<1>9. ASSUME NEW h \in Handles, NEW hasId \in BOOLEAN, NEW role \in BOOLEAN, NEW site \in Sites,
             GetProfile(h, hasId, site, role)
      PROVE  FreshRuns' /\ ScrapesAccountedFor'
  <2>1. /\ call.pc = "enrich" /\ call'.pc = "upsert" /\ call'.run = call.run
        /\ ck.scrapesUsed < call.budget /\ ck'.scrapesUsed = ck.scrapesUsed + 0
        /\ scrapes' = [scrapes EXCEPT ![call.run] = @ + 1] /\ UNCHANGED <<jobRuns, aborts>>
    BY <1>0, <1>9, GetProfileEffect DEF SameWork
  <2> QED  BY <1>5, <2>1
<1>10. CASE SearchEnds \/ EnrichEnds
  <2>1. /\ call.pc \in {"search", "enrich"} /\ call'.pc \in {"enrich", "finish"}
        /\ call'.run = call.run /\ ck'.scrapesUsed = ck.scrapesUsed + 0
        /\ UNCHANGED <<jobRuns, scrapes, aborts>>
    BY <1>0, <1>10, LoopEndsEffect DEF SameWork
  <2> QED  BY <1>6, <2>1 DEF Observing, Unsaved
<1>11. CASE UpsertProspect
  <2>1. /\ call.pc = "upsert" /\ call'.pc = "write" /\ call'.run = call.run
        /\ ck'.scrapesUsed = ck.scrapesUsed + 0 /\ UNCHANGED <<jobRuns, scrapes, aborts>>
    BY <1>0, <1>11, UpsertCallEffect
  <2> QED  BY <1>6, <2>1 DEF Observing, Unsaved
<1>12. ASSUME NEW b \in Accounts, NEW k \in Kinds, WriteOne(b, k) PROVE FreshRuns' /\ ScrapesAccountedFor'
  <2>0. ck'.scrapesUsed = ck.scrapesUsed
    BY <1>12, WriteOneEffect
  <2>1. /\ call.pc = "write" /\ call'.pc = "write" /\ call'.run = call.run
        /\ ck'.scrapesUsed = ck.scrapesUsed + 0 /\ UNCHANGED <<jobRuns, scrapes, aborts>>
    <3>1. /\ call.pc = "write" /\ call'.pc = "write" /\ call'.run = call.run
          /\ UNCHANGED <<jobRuns, scrapes, aborts>>
      BY <1>12, WriteOneEffect
    <3>2. ck.scrapesUsed = ck.scrapesUsed + 0
      BY <1>0
    <3> QED  BY <2>0, <3>1, <3>2
  <2> QED  BY <1>6, <2>1 DEF Observing, Unsaved
<1>13. CASE CandidateDone
  <2>1. /\ call.pc = "write" /\ call'.pc = "save_enrich" /\ call'.run = call.run
        /\ ck'.scrapesUsed = ck.scrapesUsed + 1 /\ UNCHANGED <<jobRuns, scrapes, aborts>>
    BY <1>13, CandidateDoneEffect
  <2> QED  BY <1>6, <2>1 DEF Observing, Unsaved
<1>14. ASSUME NEW a \in Accounts, NEW h \in Handles \cup {NoHandle}, ChangeHandle(a, h)
       PROVE  FreshRuns' /\ ScrapesAccountedFor'
  BY <1>14 DEF ChangeHandle, FreshRuns, ScrapesAccountedFor, Counted, ck
<1> QED  BY <1>1, <1>2, <1>3, <1>4, <1>7, <1>8, <1>9, <1>10, <1>11, <1>12, <1>13, <1>14 DEF Next

\* However often a discovery run is resumed, its searches and profile reads stay within one
\* daily_limit_scrapes that a call of it read, but for the one of each call that died before saving
\* that it had made one.  They are calls of the adapter, each of which may be several requests.
THEOREM RunsKeepTheirBudget == Spec => []OneBudgetPerRun
<1>1. Typed /\ ScrapesAccountedFor => OneBudgetPerRun
  <2> SUFFICES ASSUME Typed, ScrapesAccountedFor, NEW j \in Runs
               PROVE  \E b \in Budgets : scrapes[j] <= b + aborts
    BY DEF OneBudgetPerRun
  <2> DEFINE spent == jobRuns[j].checkpoint.scrapesUsed + Counted(j)
  <2>1. PICK b \in Budgets : spent <= b
    BY DEF ScrapesAccountedFor
  <2>2. scrapes[j] <= spent + aborts
    BY DEF ScrapesAccountedFor
  <2>3. spent \in Nat /\ aborts \in Nat /\ scrapes[j] \in Nat /\ b \in Nat
    BY Parts, CheckpointFields, Bounds DEF Typed, DiscoveryTypeOK, Counted
  <2> HIDE DEF spent
  <2> QED  BY <2>1, <2>2, <2>3
<1> QED  BY <1>1, TypedInit, TypedStep, ScrapesInit, ScrapesStep, PTL DEF Spec
-----------------------------------------------------------------------------
(* What is marked as processed is stored.                                    *)

\* One row of P, with evidence E, holds what the posts found for h give away.
Kept(P, E, c, h) ==
  \E r \in Handles :
    /\ P[r].stored
    /\ \A f \in InPosts(c.found[h]) : \E a \in Accounts : <<r, a, f[2]>> \in E

\* Candidates are processed only when the searches are over, so that nothing is found for one that
\* was processed already; and all but the failed ones are kept.
GoodWork(P, E, c) ==
  /\ c.processed # {} => c.pendingQueries = {}
  /\ \A h \in c.processed \ c.failed : Kept(P, E, c, h)

WorkIsKept ==
  /\ \A j \in Runs : GoodWork(prospects, evidence, jobRuns[j].checkpoint)
  /\ call.pc # "idle" => GoodWork(prospects, evidence, ck)
  /\ call.pc \in {"enrich", "save_enrich"} \cup Observing => ck.pendingQueries = {}
  /\ call.pc = "upsert" => InPosts(ck.found[call.username]) \subseteq call.todo
  /\ call.pc = "write" =>
       /\ prospects[call.row].stored
       /\ \A f \in InPosts(ck.found[call.username]) \ call.todo :
            \E a \in Accounts : <<call.row, a, f[2]>> \in evidence
  /\ \A r \in Handles : prospects[r].xUserId # Nobody => prospects[r].stored

\* More rows and more evidence keep what was kept, and so does a checkpoint with the same work.
LEMMA GoodWorkLasts ==
  ASSUME NEW P, NEW E, NEW P2, NEW E2, NEW c, NEW d,
         \A r \in Handles : P[r].stored => P2[r].stored, E \subseteq E2,
         SameWork(d, c), GoodWork(P, E, c)
  PROVE  GoodWork(P2, E2, d)
<1>1. \A h : Kept(P, E, c, h) => Kept(P2, E2, d, h)
  BY DEF Kept, SameWork
<1> QED  BY <1>1 DEF GoodWork, SameWork

LEMMA WorkInit == Init => WorkIsKept
<1> SUFFICES ASSUME Init PROVE WorkIsKept  OBVIOUS
<1>1. call.pc = "idle" /\ \A r \in Handles : prospects[r].xUserId = Nobody
  BY Records DEF Init, NoRow
<1>2. \A j \in Runs : jobRuns[j].checkpoint.processed = {}
  BY DEF Init, EmptyCheckpoint
<1> QED  BY <1>1, <1>2 DEF WorkIsKept, GoodWork, Observing

\* What all steps have in common: rows and evidence only grow, and every saved checkpoint was
\* saved before or is the call's own.
LEMMA SavedWorkStep ==
  ASSUME Typed, WorkIsKept,
         \A r \in Handles : prospects[r].stored => prospects'[r].stored, evidence \subseteq evidence',
         \A j \in Runs : \/ jobRuns'[j].checkpoint = jobRuns[j].checkpoint
                         \/ call.pc # "idle" /\ jobRuns'[j].checkpoint = ck,
         NEW j \in Runs
  PROVE  GoodWork(prospects', evidence', jobRuns'[j].checkpoint)
<1>1. CASE jobRuns'[j].checkpoint = jobRuns[j].checkpoint
  <2>1. SameWork(jobRuns'[j].checkpoint, jobRuns[j].checkpoint)
    BY <1>1 DEF SameWork
  <2>2. GoodWork(prospects, evidence, jobRuns[j].checkpoint)
    BY DEF WorkIsKept
  <2> QED  BY <2>1, <2>2, GoodWorkLasts
<1>2. CASE call.pc # "idle" /\ jobRuns'[j].checkpoint = ck
  <2>1. SameWork(jobRuns'[j].checkpoint, ck)
    BY <1>2 DEF SameWork
  <2>2. GoodWork(prospects, evidence, ck)
    BY <1>2 DEF WorkIsKept
  <2> QED  BY <2>1, <2>2, GoodWorkLasts
<1> QED  BY <1>1, <1>2

\* A step that leaves rows and evidence alone, and a candidate that is being observed untouched.
LEMMA QuietWorkStep ==
  ASSUME Typed, WorkIsKept, UNCHANGED db,
         \A j \in Runs : \/ jobRuns'[j].checkpoint = jobRuns[j].checkpoint
                         \/ call.pc # "idle" /\ jobRuns'[j].checkpoint = ck,
         call'.pc # "idle" => GoodWork(prospects, evidence, ck'),
         call'.pc \in {"enrich", "save_enrich"} => ck'.pendingQueries = {},
         call'.pc \notin Observing
  PROVE  WorkIsKept'
<1>1. \A j \in Runs : GoodWork(prospects', evidence', jobRuns'[j].checkpoint)
  BY SavedWorkStep DEF db
<1> QED  BY <1>1 DEF WorkIsKept, db, Observing

LEMMA WorkStep ==
  ASSUME Typed, Typed', FreshRuns, WorkIsKept, [Next]_vars
  PROVE  WorkIsKept'
<1>1. CASE UNCHANGED vars
  BY <1>1 DEF vars, db, WorkIsKept, ck
<1>2. ASSUME NEW j \in Runs, NEW b \in Budgets, Start(j, b) \/ Resume(j, b) PROVE WorkIsKept'
  <2>1. /\ call'.pc = "search" /\ SavedAsBefore /\ SameWork(ck', jobRuns[j].checkpoint)
        /\ UNCHANGED db
    BY <1>2, StartEffect
  <2>2. GoodWork(prospects, evidence, jobRuns[j].checkpoint)
    BY DEF WorkIsKept
  <2>3. GoodWork(prospects, evidence, ck')
    BY <2>1, <2>2, GoodWorkLasts
  <2> QED  BY <2>1, <2>3, QuietWorkStep DEF SavedAsBefore, Observing
<1>3. CASE Save
  <2>1. /\ call.pc \in {"save_search", "save_enrich", "finish"}
        /\ call'.pc \in {"search", "enrich", "complete"}
        /\ call'.pc = "enrich" => call.pc = "save_enrich"
        /\ ck' = ck /\ UNCHANGED db
        /\ \A j \in Runs : jobRuns'[j].checkpoint = IF j = call.run THEN ck ELSE jobRuns[j].checkpoint
    BY <1>3, SaveEffect
  <2>2. GoodWork(prospects, evidence, ck) /\ (call.pc = "save_enrich" => ck.pendingQueries = {})
    BY <2>1 DEF WorkIsKept
  <2>3. GoodWork(prospects, evidence, ck')
    BY <2>1, <2>2
  <2> QED  BY <2>1, <2>2, <2>3, QuietWorkStep DEF Observing
<1>4. CASE Complete \/ Abort
  BY <1>4, EndEffect, QuietWorkStep DEF SavedAsBefore, Observing
<1>5. ASSUME NEW q \in Queries, NEW authors \in SUBSET Handles, SearchOneQuery(q, authors)
      PROVE  WorkIsKept'
  <2>1. /\ call.pc = "search" /\ call'.pc = "save_search" /\ ck.pendingQueries # {}
        /\ ck'.processed = ck.processed /\ UNCHANGED <<db, jobRuns>>
    BY <1>5, SearchEffect
  <2>2. ck'.processed = {}
    BY <2>1 DEF WorkIsKept, GoodWork
  <2>3. GoodWork(prospects, evidence, ck')
    BY <2>2 DEF GoodWork
  <2> QED  BY <2>1, <2>3, QuietWorkStep DEF Observing
<1>6. CASE SearchEnds \/ EnrichEnds
  <2>1. /\ call.pc \in {"search", "enrich"} /\ call'.pc \in {"enrich", "finish"}
        /\ call'.pc = "enrich" => ck.pendingQueries = {}
        /\ SameWork(ck', ck) /\ UNCHANGED <<db, jobRuns>>
    BY <1>6, LoopEndsEffect
  <2>2. GoodWork(prospects, evidence, ck)
    BY <2>1 DEF WorkIsKept
  <2>3. GoodWork(prospects, evidence, ck')
    BY <2>1, <2>2, GoodWorkLasts
  <2> QED  BY <2>1, <2>3, QuietWorkStep DEF SameWork, Observing
<1>7. ASSUME NEW h \in Handles, ProfileFails(h) PROVE WorkIsKept'
  <2>1. /\ call.pc = "enrich" /\ call'.pc = "save_enrich"
        /\ ck'.pendingQueries = ck.pendingQueries /\ ck'.found = ck.found
        /\ ck'.processed = ck.processed \cup {h} /\ ck'.failed = ck.failed \cup {h}
        /\ UNCHANGED <<db, jobRuns>>
    BY <1>7, ProfileFailsEffect
  <2>2. GoodWork(prospects, evidence, ck) /\ ck.pendingQueries = {}
    BY <2>1 DEF WorkIsKept
  <2>3. \A g : Kept(prospects, evidence, ck, g) => Kept(prospects, evidence, ck', g)
    BY <2>1 DEF Kept
  <2>4. GoodWork(prospects, evidence, ck')
    BY <2>1, <2>2, <2>3 DEF GoodWork
  <2> QED  BY <2>1, <2>2, <2>4, QuietWorkStep DEF Observing
<1>8. ASSUME NEW h \in Handles, NEW hasId \in BOOLEAN, NEW role \in BOOLEAN, NEW site \in Sites,
             GetProfile(h, hasId, site, role)
      PROVE  WorkIsKept'
  <2>1. /\ call.pc = "enrich" /\ call'.pc = "upsert" /\ call'.username = h
        /\ call'.todo = InPosts(ck.found[h]) \cup InProfile(holder[h], ResolvesDomain(site), role)
        /\ SameWork(ck', ck) /\ UNCHANGED <<db, jobRuns>>
    BY <1>8, GetProfileEffect
  <2>2. GoodWork(prospects, evidence, ck) /\ ck.pendingQueries = {}
    BY <2>1 DEF WorkIsKept
  <2>3. GoodWork(prospects, evidence, ck')
    BY <2>1, <2>2, GoodWorkLasts
  <2>4. InPosts(ck'.found[h]) \subseteq call'.todo
    BY <2>1 DEF SameWork
  <2>5. \A j \in Runs : GoodWork(prospects', evidence', jobRuns'[j].checkpoint)
    BY <2>1, SavedWorkStep DEF db
  <2> QED  BY <2>1, <2>2, <2>3, <2>4, <2>5 DEF WorkIsKept, db, SameWork
<1>9. CASE UpsertProspect
  <2>1. /\ call.pc = "upsert" /\ call'.pc = "write" /\ call'.username = call.username
        /\ call'.todo = call.todo /\ ck' = ck /\ UNCHANGED <<evidence, jobRuns>>
    BY <1>9, UpsertCallEffect
  <2> DEFINE id == IF call.hasId THEN call.account ELSE Nobody
  <2>2. PICK r \in Handles :
               /\ call' = [call EXCEPT !.pc = "write", !.row = r, !.hasId = FALSE]
               /\ \A g \in Handles \ {r} : prospects'[g] = prospects[g]
               /\ \/ /\ ExistingRow = {} /\ r = call.username
                     /\ prospects'[r].stored /\ prospects'[r].xUserId = id
                  \/ /\ r \in ExistingRow
                     /\ prospects'[r].stored = prospects[r].stored
                     /\ prospects'[r].xUserId = IF prospects[r].xUserId = Nobody THEN id
                                                ELSE prospects[r].xUserId
    BY <1>9, UpsertEffect
  <2>3. call'.row = r
    BY <2>2, Parts DEF Call
  <2>4. r \in ExistingRow => prospects[r].stored
    BY <2>1, <2>2, Parts, NobodyAssumption DEF ExistingRow, WorkIsKept, Observing
  <2>5. prospects'[r].stored
    BY <2>2, <2>4
  <2> HIDE DEF id
  <2>6. \A g \in Handles : prospects[g].stored => prospects'[g].stored
    BY <2>2, <2>5
  <2>7. \A g \in Handles : prospects'[g].xUserId # Nobody => prospects'[g].stored
    BY <2>2, <2>5 DEF WorkIsKept
  <2>8. GoodWork(prospects', evidence', ck')
    <3>1. SameWork(ck', ck) /\ GoodWork(prospects, evidence, ck) /\ evidence \subseteq evidence'
      BY <2>1 DEF SameWork, WorkIsKept
    <3> QED  BY <2>6, <3>1, GoodWorkLasts
  <2>9. \A j \in Runs : GoodWork(prospects', evidence', jobRuns'[j].checkpoint)
    BY <2>1, <2>6, SavedWorkStep
  <2>10. ck'.pendingQueries = {} /\ InPosts(ck'.found[call'.username]) \subseteq call'.todo
    BY <2>1 DEF WorkIsKept, Observing
  <2> QED  BY <2>1, <2>3, <2>5, <2>7, <2>8, <2>9, <2>10 DEF WorkIsKept
<1>10. ASSUME NEW b \in Accounts, NEW k \in Kinds, WriteOne(b, k) PROVE WorkIsKept'
  <2>1. /\ call.pc = "write" /\ call'.pc = "write" /\ call'.row = call.row
        /\ call'.username = call.username /\ call'.todo = call.todo \ {<<b, k>>} /\ ck' = ck
        /\ evidence \subseteq evidence'
        /\ \E a \in Accounts : <<call.row, a, k>> \in evidence'
        /\ UNCHANGED <<prospects, jobRuns>>
    BY <1>10, WriteOneEffect
  <2>2. GoodWork(prospects', evidence', ck')
    <3>1. SameWork(ck', ck) /\ GoodWork(prospects, evidence, ck)
      BY <2>1 DEF SameWork, WorkIsKept
    <3> QED  BY <2>1, <3>1, GoodWorkLasts
  <2>3. \A j \in Runs : GoodWork(prospects', evidence', jobRuns'[j].checkpoint)
    BY <2>1, SavedWorkStep
  <2>4. \A m \in InPosts(ck.found[call.username]) \ call'.todo :
          \E a \in Accounts : <<call.row, a, m[2]>> \in evidence'
    <3> TAKE m \in InPosts(ck.found[call.username]) \ call'.todo
    <3>1. CASE m = <<b, k>>
      BY <2>1, <3>1
    <3>2. CASE m # <<b, k>>
      <4>1. m \in InPosts(ck.found[call.username]) \ call.todo
        BY <2>1, <3>2
      <4> QED  BY <2>1, <4>1 DEF WorkIsKept
    <3> QED  BY <3>1, <3>2
  <2>5. ck.pendingQueries = {} /\ prospects[call.row].stored
        /\ \A r \in Handles : prospects[r].xUserId # Nobody => prospects[r].stored
    BY <2>1 DEF WorkIsKept, Observing
  <2> QED  BY <2>1, <2>2, <2>3, <2>4, <2>5 DEF WorkIsKept
<1>11. CASE CandidateDone
  <2>1. /\ call.pc = "write" /\ call'.pc = "save_enrich" /\ call.todo = {}
        /\ ck'.pendingQueries = ck.pendingQueries /\ ck'.found = ck.found
        /\ ck'.processed = ck.processed \cup {call.username} /\ ck'.failed = ck.failed
        /\ UNCHANGED <<db, jobRuns>>
    BY <1>11, CandidateDoneEffect
  <2>2. GoodWork(prospects, evidence, ck) /\ ck.pendingQueries = {}
    BY <2>1 DEF WorkIsKept, Observing
  <2>3. Kept(prospects, evidence, ck', call.username)
    BY <2>1, Parts DEF Kept, WorkIsKept
  <2>4. \A g : Kept(prospects, evidence, ck, g) => Kept(prospects, evidence, ck', g)
    BY <2>1 DEF Kept
  <2>5. GoodWork(prospects, evidence, ck')
    BY <2>1, <2>2, <2>3, <2>4 DEF GoodWork
  <2> QED  BY <2>1, <2>2, <2>5, QuietWorkStep DEF Observing
<1>12. ASSUME NEW a \in Accounts, NEW h \in Handles \cup {NoHandle}, ChangeHandle(a, h)
       PROVE  WorkIsKept'
  BY <1>12 DEF ChangeHandle, WorkIsKept, ck, db
<1> QED  BY <1>1, <1>2, <1>3, <1>4, <1>5, <1>6, <1>7, <1>8, <1>9, <1>10, <1>11, <1>12 DEF Next

\* A candidate that a saved checkpoint counts as processed, and that no error names, has all its
\* posts gave away under one prospect: no crash, failed access or resumption loses it.
THEOREM ProcessedIsStored == Spec => []ProcessedMeansStored
<1>1. WorkIsKept => ProcessedMeansStored
  BY DEF WorkIsKept, GoodWork, Kept, ProcessedMeansStored
<1> QED  BY <1>1, TypedInit, TypedStep, ScrapesInit, ScrapesStep, WorkInit, WorkStep, PTL DEF Spec
-----------------------------------------------------------------------------
(* Whose evidence it is.                                                     *)

\* Account a held the handle that row r is kept under, or one that the row's own account held too.
Akin(P, O, r, a) == \E h \in Handles : a \in O[h] /\ (h = r \/ P[r].xUserId \in O[h])

\* A match names an account that held the handle it is kept under.
MatchesAreRight(O, c) == \A h \in Handles : \A m \in c.found[h] : m[2] \in O[h]

NamesAreRight ==
  /\ \A h \in Handles : holder[h] # Nobody => holder[h] \in owners[h]
  /\ \A e \in evidence : Akin(prospects, owners, e[1], e[2])
  /\ \A j \in Runs : MatchesAreRight(owners, jobRuns[j].checkpoint)
  /\ call.pc # "idle" => MatchesAreRight(owners, ck)
  /\ call.pc = "upsert" => /\ call.account \in owners[call.username]
                           /\ \A f \in call.todo : f[1] \in owners[call.username]
  /\ call.pc = "write" => \A f \in call.todo : Akin(prospects, owners, call.row, f[1])

LEMMA NamesInit == Init => NamesAreRight
<1> SUFFICES ASSUME Init PROVE NamesAreRight  OBVIOUS
<1>1. \A h \in Handles : EmptyCheckpoint.found[h] = {}
  BY DEF EmptyCheckpoint
<1>2. call.pc = "idle"
  BY Records DEF Init
<1> QED  BY <1>1, <1>2 DEF Init, NamesAreRight, MatchesAreRight

\* A step that leaves the world and the tables alone, outside the work on a candidate.
LEMMA QuietNamesStep ==
  ASSUME Typed, NamesAreRight, UNCHANGED <<world, db>>, call'.pc \notin Observing,
         \A j \in Runs : \/ jobRuns'[j].checkpoint = jobRuns[j].checkpoint
                         \/ call.pc # "idle" /\ jobRuns'[j].checkpoint = ck,
         call'.pc # "idle" => MatchesAreRight(owners, ck')
  PROVE  NamesAreRight'
<1>1. \A j \in Runs : MatchesAreRight(owners, jobRuns'[j].checkpoint)
  BY DEF NamesAreRight
<1> QED  BY <1>1 DEF world, db, NamesAreRight, Observing

LEMMA NamesStep ==
  ASSUME Typed, Typed', FreshRuns, WorkIsKept, NamesAreRight, [Next]_vars
  PROVE  NamesAreRight'
<1>0. evidence \subseteq Handles \X Accounts \X Kinds /\ owners \in [Handles -> SUBSET Accounts]
  BY DEF Typed, DiscoveryTypeOK
<1>a. \A c, d : SameWork(c, d) /\ MatchesAreRight(owners, d) => MatchesAreRight(owners, c)
  BY DEF SameWork, MatchesAreRight
<1>b. call.pc # "idle" => MatchesAreRight(owners, ck)
  BY DEF NamesAreRight
<1>1. CASE UNCHANGED vars
  BY <1>1 DEF vars, world, db, NamesAreRight, ck
<1>3. ASSUME NEW j \in Runs, NEW b \in Budgets, Start(j, b) \/ Resume(j, b) PROVE NamesAreRight'
  <2>1. /\ call'.pc = "search" /\ SavedAsBefore /\ SameWork(ck', jobRuns[j].checkpoint)
        /\ UNCHANGED <<world, db>>
    BY <1>3, StartEffect
  <2>2. MatchesAreRight(owners, ck')
    BY <1>a, <2>1 DEF NamesAreRight
  <2> QED  BY <2>1, <2>2, QuietNamesStep DEF SavedAsBefore, Observing
<1>4. CASE Save
  <2>1. /\ UNCHANGED <<world, db>> /\ call'.pc \in {"search", "enrich", "complete"} /\ call.pc # "idle"
        /\ ck' = ck
        /\ \A j \in Runs : jobRuns'[j].checkpoint = IF j = call.run THEN ck ELSE jobRuns[j].checkpoint
    BY <1>4, SaveEffect
  <2>2. MatchesAreRight(owners, ck')
    BY <1>b, <2>1
  <2> QED  BY <2>1, <2>2, QuietNamesStep DEF Observing
<1>5. CASE Complete \/ Abort
  BY <1>5, EndEffect, QuietNamesStep DEF SavedAsBefore, Observing
<1>6. ASSUME NEW q \in Queries, NEW authors \in SUBSET Handles, SearchOneQuery(q, authors)
      PROVE  NamesAreRight'
  <2>1. /\ call.pc = "search" /\ call'.pc = "save_search" /\ UNCHANGED <<world, db, jobRuns>>
        /\ \A h \in Handles : \A m \in ck'.found[h] :
             m \in ck.found[h] \/ (m = <<q, holder[h]>> /\ holder[h] # Nobody)
    BY <1>6, SearchEffect
  <2>2. MatchesAreRight(owners, ck')
    <3> SUFFICES ASSUME NEW h \in Handles, NEW m \in ck'.found[h] PROVE m[2] \in owners[h]
      BY DEF MatchesAreRight
    <3>1. CASE m \in ck.found[h]
      BY <1>b, <2>1, <3>1 DEF MatchesAreRight
    <3>2. CASE m = <<q, holder[h]>> /\ holder[h] # Nobody
      BY <3>2 DEF NamesAreRight
    <3> QED  BY <2>1, <3>1, <3>2
  <2> QED  BY <2>1, <2>2, QuietNamesStep DEF Observing
<1>7. CASE SearchEnds \/ EnrichEnds
  <2>1. /\ UNCHANGED <<world, db, jobRuns>> /\ call'.pc \in {"enrich", "finish"} /\ call.pc # "idle"
        /\ SameWork(ck', ck)
    BY <1>7, LoopEndsEffect
  <2>2. MatchesAreRight(owners, ck')
    BY <1>a, <1>b, <2>1
  <2> QED  BY <2>1, <2>2, QuietNamesStep DEF Observing
<1>8. ASSUME NEW h \in Handles, ProfileFails(h) PROVE NamesAreRight'
  <2>1. /\ UNCHANGED <<world, db, jobRuns>> /\ call'.pc = "save_enrich" /\ call.pc # "idle"
        /\ ck'.found = ck.found
    BY <1>8, ProfileFailsEffect
  <2>2. MatchesAreRight(owners, ck')
    BY <1>b, <2>1 DEF MatchesAreRight
  <2> QED  BY <2>1, <2>2, QuietNamesStep DEF Observing
<1>9. ASSUME NEW h \in Handles, NEW hasId \in BOOLEAN, NEW role \in BOOLEAN, NEW site \in Sites,
             GetProfile(h, hasId, site, role)
      PROVE  NamesAreRight'
  <2>1. /\ call.pc = "enrich" /\ call'.pc = "upsert" /\ call'.username = h /\ call'.account = holder[h]
        /\ call'.todo = InPosts(ck.found[h]) \cup InProfile(holder[h], ResolvesDomain(site), role)
        /\ holder[h] # Nobody /\ SameWork(ck', ck) /\ UNCHANGED <<world, db, jobRuns>>
    BY <1>9, GetProfileEffect
  <2>2. holder[h] \in owners[h] /\ MatchesAreRight(owners, ck')
    BY <1>a, <1>b, <2>1 DEF NamesAreRight
  <2>3. \A f \in call'.todo : f[1] \in owners[h]
    <3> TAKE f \in call'.todo
    <3>1. CASE f \in InPosts(ck.found[h])
      <4>1. PICK q, a : <<q, a>> \in ck.found[h] /\ f[1] = a
        BY <3>1 DEF InPosts
      <4> QED  BY <1>b, <2>1, <4>1 DEF MatchesAreRight
    <3>2. CASE f \in InProfile(holder[h], ResolvesDomain(site), role)
      BY <2>2, <3>2 DEF InProfile
    <3> QED  BY <2>1, <3>1, <3>2
  <2> QED  BY <2>1, <2>2, <2>3 DEF NamesAreRight, world, db
<1>10. CASE UpsertProspect
  <2>1. /\ call.pc = "upsert" /\ call'.pc = "write" /\ call'.todo = call.todo /\ ck' = ck
        /\ UNCHANGED <<holder, owners, evidence, jobRuns>>
    BY <1>10, UpsertCallEffect, SMTT(30) DEF world
  <2> DEFINE id == IF call.hasId THEN call.account ELSE Nobody
  <2>2. PICK r \in Handles :
               /\ call' = [call EXCEPT !.pc = "write", !.row = r, !.hasId = FALSE]
               /\ \A g \in Handles \ {r} : prospects'[g] = prospects[g]
               /\ \/ /\ ExistingRow = {} /\ r = call.username
                     /\ prospects'[r].stored /\ prospects'[r].xUserId = id
                  \/ /\ r \in ExistingRow
                     /\ prospects'[r].stored = prospects[r].stored
                     /\ prospects'[r].xUserId = IF prospects[r].xUserId = Nobody THEN id
                                                ELSE prospects[r].xUserId
    BY <1>10, UpsertEffect
  <2>3. call'.row = r
    BY <2>2, Parts DEF Call
  <2>4. /\ call.account \in Accounts /\ call.username \in Handles
        /\ call.account \in owners[call.username]
        /\ \A f \in call.todo : f[1] \in owners[call.username]
    BY <2>1, Parts DEF Observing, NamesAreRight
  <2>5. prospects[r].xUserId # Nobody => prospects'[r].xUserId = prospects[r].xUserId
    <3>1. ExistingRow = {} /\ r = call.username => ~prospects[r].stored
      BY <2>4 DEF ExistingRow
    <3> HIDE DEF id
    <3> QED  BY <2>2, <3>1 DEF WorkIsKept
  <2>6. \A f \in call.todo : Akin(prospects', owners', r, f[1])
    <3>1. CASE r = call.username
      BY <2>1, <2>4, <3>1 DEF Akin
    <3>2. CASE r # call.username
      <4>1. prospects[r].xUserId = call.account
        BY <2>2, <3>2 DEF ExistingRow
      <4>2. prospects'[r].xUserId = call.account
        BY <2>4, <2>5, <4>1, NobodyAssumption
      <4> QED  BY <2>1, <2>4, <4>2 DEF Akin
    <3> QED  BY <3>1, <3>2
  <2>7. \A e \in evidence : Akin(prospects', owners', e[1], e[2])
    <3> TAKE e \in evidence
    <3>1. Akin(prospects, owners, e[1], e[2])
      BY DEF NamesAreRight
    <3>2. PICK h \in Handles : e[2] \in owners[h] /\ (h = e[1] \/ prospects[e[1]].xUserId \in owners[h])
      BY <3>1 DEF Akin
    <3>3. Nobody \notin owners[h] /\ e[1] \in Handles
      BY <1>0, NobodyAssumption
    <3> HIDE DEF id
    <3>4. h = e[1] \/ prospects'[e[1]].xUserId \in owners[h]
      <4>1. CASE e[1] = r
        BY <2>5, <3>2, <3>3, <4>1
      <4>2. CASE e[1] # r
        BY <2>2, <3>2, <3>3, <4>2
      <4> QED  BY <4>1, <4>2
    <3> QED  BY <2>1, <3>2, <3>4 DEF Akin
  <2>8. MatchesAreRight(owners, ck)
    BY <1>b, <2>1
  <2> QED  BY <2>1, <2>3, <2>6, <2>7, <2>8 DEF NamesAreRight
<1>11. ASSUME NEW b \in Accounts, NEW k \in Kinds, WriteOne(b, k) PROVE NamesAreRight'
  <2>1. /\ call.pc = "write" /\ call'.pc = "write" /\ call'.row = call.row /\ ck' = ck
        /\ <<b, k>> \in call.todo /\ call'.todo = call.todo \ {<<b, k>>}
        /\ evidence' \subseteq evidence \cup {<<call.row, b, k>>}
        /\ UNCHANGED <<holder, owners, prospects, jobRuns>>
    BY <1>11, WriteOneEffect DEF world
  <2>2. Akin(prospects, owners, call.row, b)
    BY <2>1 DEF NamesAreRight
  <2>3. \A e \in evidence' : Akin(prospects', owners', e[1], e[2])
    BY <2>1, <2>2 DEF NamesAreRight
  <2> QED  BY <1>b, <2>1, <2>3 DEF NamesAreRight
<1>12. CASE CandidateDone
  <2>1. /\ UNCHANGED <<world, db, jobRuns>> /\ call'.pc = "save_enrich" /\ call.pc # "idle"
        /\ ck'.found = ck.found
    BY <1>12, CandidateDoneEffect
  <2>2. MatchesAreRight(owners, ck')
    BY <1>b, <2>1 DEF MatchesAreRight
  <2> QED  BY <2>1, <2>2, QuietNamesStep DEF Observing
<1>13. ASSUME NEW a \in Accounts, NEW h \in Handles \cup {NoHandle}, ChangeHandle(a, h)
       PROVE  NamesAreRight'
  <2>1. /\ UNCHANGED <<db, call, jobRuns>> /\ UNCHANGED <<prospects, evidence, ck>>
        /\ \A g \in Handles : owners[g] \subseteq owners'[g]
    BY <1>13 DEF ChangeHandle, db, ck
  <2>2. \A g \in Handles : holder'[g] # Nobody => holder'[g] \in owners'[g]
    BY <1>13 DEF ChangeHandle, NamesAreRight
  <2>3. \A r, x : Akin(prospects, owners, r, x) => Akin(prospects', owners', r, x)
    BY <2>1 DEF Akin
  <2>4. \A c : MatchesAreRight(owners, c) => MatchesAreRight(owners', c)
    BY <2>1 DEF MatchesAreRight
  <2>5. \A e \in evidence' : Akin(prospects', owners', e[1], e[2])
    BY <2>1, <2>3 DEF NamesAreRight
  <2>6. call.pc \in Observing => call.username \in Handles
    BY Parts
  <2>7. (call.pc = "write" => \A f \in call.todo : Akin(prospects, owners, call.row, f[1]))'
    BY <2>1, <2>3 DEF NamesAreRight
  <2>8. (call.pc = "upsert" => /\ call.account \in owners[call.username]
                               /\ \A f \in call.todo : f[1] \in owners[call.username])'
    BY <2>1, <2>6 DEF NamesAreRight, Observing
  <2>9. \A j \in Runs : MatchesAreRight(owners', jobRuns'[j].checkpoint)
    BY <2>1, <2>4 DEF NamesAreRight
  <2>10. call'.pc # "idle" => MatchesAreRight(owners', ck')
    BY <1>b, <2>1, <2>4
  <2> QED  BY <2>2, <2>5, <2>7, <2>8, <2>9, <2>10 DEF NamesAreRight
<1> QED  BY <1>1, <1>3, <1>4, <1>5, <1>6, <1>7, <1>8, <1>9, <1>10, <1>11, <1>12, <1>13 DEF Next

\* Discovery stores nothing under a prospect but what it found about an account that held the
\* handle the row is kept under, or a handle that the prospect's own account held as well.
THEOREM EvidenceIsAboutTheHandle == Spec => []EvidenceFollowsTheHandle
<1>1. NamesAreRight => EvidenceFollowsTheHandle
  BY DEF NamesAreRight, Akin, EvidenceFollowsTheHandle
<1> QED  BY <1>1, TypedInit, TypedStep, ScrapesInit, ScrapesStep, WorkInit, WorkStep, NamesInit,
            NamesStep, PTL DEF Spec
-----------------------------------------------------------------------------
(* A run goes on from its checkpoint: discovery implements ResumableRuns.    *)

\* The entries of a checkpoint, those of all saved ones, and the candidate in between.
Entries(c) == Queried(c) \cup Profiled(c)
Saved == [j \in Runs |-> Entries(jobRuns[j].checkpoint)]
Spent == [j \in Runs |-> jobRuns[j].checkpoint.scrapesUsed]
AtHand == IF call.pc \in Observing THEN {<<"profile", call.username>>} ELSE {}

\* Between calls nothing is remembered; a candidate is observed only while it has no entry yet and
\* its scrape is within the budget.
ObservesAnew ==
  /\ call.pc = "idle" => call = NoCall
  /\ call.pc \in Observing => call.username \notin ck.processed /\ ck.scrapesUsed < call.budget

LEMMA AnewInit == Init => ObservesAnew
BY Records DEF Init, ObservesAnew, Observing

\* The budget a call has read.
LEMMA BudgetEffect ==
  ASSUME Typed, Typed', [Next]_vars
  PROVE  /\ call'.budget = call.budget \/ call'.pc = "idle" \/ call.pc = "idle"
         /\ \A j \in Runs, b \in Budgets : Start(j, b) \/ Resume(j, b) => call'.budget = b
<1>1. \A j \in Runs, b \in Budgets : Start(j, b) \/ Resume(j, b) => call'.budget = b
  BY DEF Start, Resume, NoCall
<1>2. CASE UNCHANGED vars
  BY <1>1, <1>2 DEF vars
<1>3. CASE Complete \/ Abort
  BY <1>1, <1>3, EndEffect
<1>4. CASE Save
  <2>1. PICK pc : call' = [call EXCEPT !.pc = pc]
    BY <1>4 DEF Save
  <2> QED  BY <1>1, <2>1, Parts DEF Call
<1>5. CASE SearchEnds
  BY <1>1, <1>5, Parts DEF SearchEnds, Call
<1>6. CASE EnrichEnds
  <2>1. PICK why : call' = [call EXCEPT !.pc = "finish", !.checkpoint = [ck EXCEPT !.stoppedReason = why]]
    BY <1>6 DEF EnrichEnds
  <2> QED  BY <1>1, <2>1, Parts DEF Call
<1>7. ASSUME NEW q \in Queries, NEW authors \in SUBSET Handles, SearchOneQuery(q, authors)
      PROVE  call'.budget = call.budget
  BY <1>7, Parts DEF SearchOneQuery, Call
<1>8. ASSUME NEW h \in Handles, ProfileFails(h) PROVE call'.budget = call.budget
  BY <1>8, Parts DEF ProfileFails, Call
<1>9. ASSUME NEW h \in Handles, NEW hasId \in BOOLEAN, NEW role \in BOOLEAN, NEW site \in Sites,
             GetProfile(h, hasId, site, role)
      PROVE  call'.budget = call.budget
  BY <1>9, Parts DEF GetProfile, Call
<1>10. CASE UpsertProspect
  <2>1. PICK r : call' = [call EXCEPT !.pc = "write", !.row = r, !.hasId = FALSE]
    BY <1>10, UpsertEffect
  <2> QED  BY <1>1, <2>1, Parts DEF Call
<1>11. ASSUME NEW b \in Accounts, NEW k \in Kinds, WriteOne(b, k) PROVE call'.budget = call.budget
  BY <1>11, Parts DEF WriteOne, Call
<1>12. CASE CandidateDone
  BY <1>1, <1>12, Parts DEF CandidateDone, Call
<1>13. ASSUME NEW a \in Accounts, NEW h \in Handles \cup {NoHandle}, ChangeHandle(a, h)
       PROVE  call'.budget = call.budget
  BY <1>13 DEF ChangeHandle
<1>14. ASSUME NEW j \in Runs, NEW b \in Budgets, Start(j, b) \/ Resume(j, b) PROVE call.pc = "idle"
  BY <1>14 DEF Start, Resume
<1> QED  BY <1>1, <1>2, <1>3, <1>4, <1>5, <1>6, <1>7, <1>8, <1>9, <1>10, <1>11, <1>12, <1>13, <1>14
         DEF Next

LEMMA AnewStep ==
  ASSUME Typed, Typed', FreshRuns, ObservesAnew, [Next]_vars
  PROVE  ObservesAnew'
<1>1. CASE UNCHANGED vars
  BY <1>1 DEF vars, ObservesAnew, ck
<1>2. ASSUME call'.pc \notin {"idle"} \cup Observing PROVE ObservesAnew'
  BY <1>2 DEF ObservesAnew, Observing
<1>3. ASSUME NEW j \in Runs, NEW b \in Budgets, Start(j, b) \/ Resume(j, b) PROVE ObservesAnew'
  BY <1>2, <1>3, StartEffect DEF Observing
<1>4. CASE Save
  BY <1>2, <1>4, SaveEffect DEF Observing
<1>5. CASE Complete \/ Abort
  BY <1>5, Records DEF Complete, Abort, ObservesAnew, Observing
<1>6. ASSUME NEW q \in Queries, NEW authors \in SUBSET Handles, SearchOneQuery(q, authors)
      PROVE  ObservesAnew'
  BY <1>2, <1>6, SearchEffect DEF Observing
<1>7. CASE SearchEnds \/ EnrichEnds
  <2>1. call'.pc \in {"enrich", "finish"}
    BY <1>7, LoopEndsEffect
  <2> QED  BY <1>2, <2>1 DEF Observing
<1>8. ASSUME NEW h \in Handles, ProfileFails(h) PROVE ObservesAnew'
  BY <1>2, <1>8, ProfileFailsEffect DEF Observing
<1>9. ASSUME NEW h \in Handles, NEW hasId \in BOOLEAN, NEW role \in BOOLEAN, NEW site \in Sites,
             GetProfile(h, hasId, site, role)
      PROVE  ObservesAnew'
  <2>1. /\ call.pc = "enrich" /\ call'.pc = "upsert" /\ call'.username = h
        /\ ck.scrapesUsed < call.budget /\ SameWork(ck', ck)
    BY <1>9, GetProfileEffect
  <2>2. h \notin ck.processed
    BY <1>9 DEF GetProfile, PendingUsernames
  <2>3. call'.budget = call.budget
    BY <2>1, BudgetEffect
  <2> QED  BY <2>1, <2>2, <2>3 DEF SameWork, ObservesAnew
<1>10. CASE UpsertProspect
  BY <1>10, UpsertCallEffect, BudgetEffect DEF ObservesAnew, Observing
<1>11. ASSUME NEW b \in Accounts, NEW k \in Kinds, WriteOne(b, k) PROVE ObservesAnew'
  BY <1>11, WriteOneEffect, BudgetEffect DEF ObservesAnew, Observing
<1>12. CASE CandidateDone
  BY <1>2, <1>12, CandidateDoneEffect DEF Observing
<1>13. ASSUME NEW a \in Accounts, NEW h \in Handles \cup {NoHandle}, ChangeHandle(a, h)
       PROVE  ObservesAnew'
  BY <1>13 DEF ChangeHandle, ObservesAnew, ck
<1> QED  BY <1>1, <1>3, <1>4, <1>5, <1>6, <1>7, <1>8, <1>9, <1>10, <1>11, <1>12, <1>13 DEF Next
-----------------------------------------------------------------------------
LEMMA IdealInit == Init => Ideal!Init
<1> SUFFICES ASSUME Init PROVE Ideal!Init  OBVIOUS
<1>1. /\ call.pc = "idle" /\ call.run = NoRun /\ call.budget = 0 /\ ck = EmptyCheckpoint
  BY DEF Init, NoCall, ck
<1>2. Queried(EmptyCheckpoint) \cup Profiled(EmptyCheckpoint) = {} /\ EmptyCheckpoint.scrapesUsed = 0
  BY DEF Queried, Profiled, EmptyCheckpoint
<1>3. \A j \in Runs : jobRuns[j].checkpoint = EmptyCheckpoint
  BY DEF Init
<1> QED  BY <1>1, <1>2, <1>3 DEF Ideal!Init, Ideal!Idle

\* A step that neither the run's entries nor its budget notice.
LEMMA IdealStutters ==
  ASSUME SavedAsBefore, call'.run = call.run, call'.budget = call.budget, SameWork(ck', ck),
         AtHand' = AtHand
  PROVE  UNCHANGED Ideal!vars
<1>1. Saved' = Saved /\ Spent' = Spent
  BY DEF Saved, Spent, SavedAsBefore, Entries, Queried, Profiled
<1>2. UNCHANGED <<call.run, call.budget, Entries(ck), ck.scrapesUsed>>
  BY DEF SameWork, Entries, Queried, Profiled
<1> QED  BY <1>1, <1>2 DEF Ideal!vars, Ideal!record, Saved, Spent, Entries, AtHand, Observing

\* A query or a candidate gets its entry, and one scrape is charged.
LEMMA IdealFinishes ==
  ASSUME SavedAsBefore, call.run # NoRun, call'.run = call.run, call'.budget = call.budget,
         NEW x, x \in {"query"} \X Queries \cup {"profile"} \X Handles, x \notin Entries(ck),
         Entries(ck') = Entries(ck) \cup {x}, AtHand' = AtHand \ {x},
         ck.scrapesUsed < call.budget, ck'.scrapesUsed = ck.scrapesUsed + 1
  PROVE  Ideal!Next
<1>1. Saved' = Saved /\ Spent' = Spent
  BY DEF Saved, Spent, SavedAsBefore, Entries, Queried, Profiled
<1>2. Ideal!Finish(x)
  BY <1>1 DEF Ideal!Finish, Ideal!record, Saved, Spent, Entries, AtHand, Observing
<1> QED  BY <1>2 DEF Ideal!Next

LEMMA IdealStep ==
  ASSUME Typed, Typed', FreshRuns, ObservesAnew, [Next]_vars
  PROVE  [Ideal!Next]_(Ideal!vars)
<1>0. call.pc # "idle" => call.run # NoRun
  BY Parts, NobodyAssumption
<1>a. ASSUME UNCHANGED jobRuns PROVE SavedAsBefore
  BY <1>a DEF SavedAsBefore
<1>b. \A c, d : SameWork(c, d) => Entries(c) = Entries(d) /\ c.scrapesUsed = d.scrapesUsed
  BY DEF SameWork, Entries, Queried, Profiled
<1>1. CASE UNCHANGED vars
  BY <1>1, IdealStutters DEF vars, SavedAsBefore, SameWork, AtHand, ck
<1>2. ASSUME NEW j \in Runs, NEW b \in Budgets, Start(j, b) \/ Resume(j, b)
      PROVE  Ideal!Next
  <2>1. /\ call.pc = "idle" /\ call'.pc = "search" /\ call'.run = j
        /\ SavedAsBefore /\ SameWork(ck', jobRuns[j].checkpoint)
    BY <1>2, StartEffect
  <2>2. call'.budget = b /\ call.run = NoRun
    BY <1>2, <2>1, BudgetEffect DEF ObservesAnew, NoCall
  <2>3. Saved' = Saved /\ Spent' = Spent
    BY <2>1 DEF Saved, Spent, SavedAsBefore, Entries, Queried, Profiled
  <2>4. Entries(ck)' = Saved[j] /\ ck'.scrapesUsed = Spent[j] /\ AtHand' = {}
    BY <1>b, <2>1 DEF Saved, Spent, AtHand, Observing
  <2>5. Ideal!Begin(j, b)
    BY <2>1, <2>2, <2>3, <2>4 DEF Ideal!Begin, Ideal!record, Saved, Spent, Entries, AtHand, Observing
  <2> QED  BY <2>5 DEF Ideal!Next
<1>3. CASE Save
  <2>1. /\ call.pc \in {"save_search", "save_enrich", "finish"}
        /\ call'.pc \in {"search", "enrich", "complete"}
        /\ call'.run = call.run /\ ck' = ck
        /\ \A j \in Runs : jobRuns'[j].checkpoint = IF j = call.run THEN ck ELSE jobRuns[j].checkpoint
    BY <1>3, SaveEffect
  <2>2. call.run \in Runs /\ call.run # NoRun /\ call'.budget = call.budget
    BY <1>0, <2>1, Parts, BudgetEffect
  <2>3. /\ Saved' = [Saved EXCEPT ![call.run] = Entries(ck)]
        /\ Spent' = [Spent EXCEPT ![call.run] = ck.scrapesUsed]
    BY <2>1, <2>2 DEF Saved, Spent, Entries, Queried, Profiled
  <2>4. AtHand' = AtHand /\ Entries(ck)' = Entries(ck)
    BY <2>1 DEF AtHand, Observing, Entries, Queried, Profiled
  <2>5. Ideal!Save
    BY <2>1, <2>2, <2>3, <2>4 DEF Ideal!Save, Saved, Spent, Entries, AtHand, Observing
  <2> QED  BY <2>5 DEF Ideal!Next
<1>4. CASE Complete \/ Abort
  <2>1. call.pc # "idle" /\ SavedAsBefore /\ call' = NoCall
    BY <1>4, EndEffect DEF Complete, Abort
  <2>2. Saved' = Saved /\ Spent' = Spent
    BY <2>1 DEF Saved, Spent, SavedAsBefore, Entries, Queried, Profiled
  <2>3. /\ call'.run = NoRun /\ call'.budget = 0 /\ Entries(ck)' = {} /\ AtHand' = {}
        /\ ck'.scrapesUsed = 0
    BY <2>1 DEF NoCall, ck, EmptyCheckpoint, Entries, Queried, Profiled, AtHand, Observing
  <2>4. Ideal!End
    BY <1>0, <2>1, <2>2, <2>3
       DEF Ideal!End, Ideal!Idle, Ideal!record, Saved, Spent, Entries, AtHand, Observing
  <2> QED  BY <2>4 DEF Ideal!Next
<1>5. ASSUME NEW q \in Queries, NEW authors \in SUBSET Handles, SearchOneQuery(q, authors)
      PROVE  Ideal!Next
  <2>1. /\ call.pc = "search" /\ call'.pc = "save_search" /\ call'.run = call.run
        /\ ck.scrapesUsed < call.budget /\ ck'.scrapesUsed = ck.scrapesUsed + 1
        /\ ck'.processed = ck.processed /\ UNCHANGED jobRuns
    BY <1>5, SearchEffect
  <2>2. q \in ck.pendingQueries /\ ck'.pendingQueries = ck.pendingQueries \ {q}
    BY <1>5, Parts DEF SearchOneQuery, Call, Checkpoint, ck
  <2>3. Entries(ck)' = Entries(ck) \cup {<<"query", q>>} /\ <<"query", q>> \notin Entries(ck)
    BY <2>1, <2>2 DEF Entries, Queried, Profiled
  <2>4. AtHand' = AtHand \ {<<"query", q>>}
    BY <2>1 DEF AtHand, Observing
  <2> QED  BY <1>0, <1>a, <2>1, <2>3, <2>4, BudgetEffect, IdealFinishes
<1>6. CASE SearchEnds \/ EnrichEnds
  <2>1. /\ call.pc \in {"search", "enrich"} /\ call'.pc \in {"enrich", "finish"}
        /\ call'.run = call.run /\ SameWork(ck', ck) /\ UNCHANGED jobRuns
    BY <1>6, LoopEndsEffect
  <2>2. AtHand' = AtHand
    BY <2>1 DEF AtHand, Observing
  <2> QED  BY <1>a, <2>1, <2>2, BudgetEffect, IdealStutters
<1>7. ASSUME NEW h \in Handles, ProfileFails(h) PROVE Ideal!Next
  <2>1. /\ call.pc = "enrich" /\ call'.pc = "save_enrich" /\ call'.run = call.run
        /\ ck.scrapesUsed < call.budget /\ ck'.scrapesUsed = ck.scrapesUsed + 1
        /\ ck'.pendingQueries = ck.pendingQueries
        /\ ck'.processed = ck.processed \cup {h} /\ UNCHANGED jobRuns
    BY <1>7, ProfileFailsEffect
  <2>2. h \notin ck.processed
    BY <1>7 DEF ProfileFails, PendingUsernames
  <2>3. Entries(ck)' = Entries(ck) \cup {<<"profile", h>>} /\ <<"profile", h>> \notin Entries(ck)
    BY <2>1, <2>2 DEF Entries, Queried, Profiled
  <2>4. AtHand' = AtHand \ {<<"profile", h>>}
    BY <2>1 DEF AtHand, Observing
  <2> QED  BY <1>0, <1>a, <2>1, <2>3, <2>4, BudgetEffect, IdealFinishes
<1>8. ASSUME NEW h \in Handles, NEW hasId \in BOOLEAN, NEW role \in BOOLEAN, NEW site \in Sites,
             GetProfile(h, hasId, site, role)
      PROVE  Ideal!Next
  <2>1. /\ call.pc = "enrich" /\ call'.pc = "upsert" /\ call'.run = call.run
        /\ call'.username = h /\ SameWork(ck', ck) /\ UNCHANGED jobRuns
    BY <1>8, GetProfileEffect
  <2>2. h \notin ck.processed
    BY <1>8 DEF GetProfile, PendingUsernames
  <2>3. <<"profile", h>> \notin Entries(ck) \cup AtHand /\ AtHand' = AtHand \cup {<<"profile", h>>}
    BY <2>1, <2>2 DEF Entries, Queried, Profiled, AtHand, Observing
  <2>4. Saved' = Saved /\ Spent' = Spent
    BY <2>1 DEF Saved, Spent, Entries, Queried, Profiled
  <2>5. call'.budget = call.budget /\ call.run # NoRun
    BY <1>0, <2>1, BudgetEffect
  <2>6. Entries(ck)' = Entries(ck) /\ ck'.scrapesUsed = ck.scrapesUsed
    BY <1>b, <2>1
  <2>7. Ideal!Take(<<"profile", h>>)
    BY <2>1, <2>3, <2>4, <2>5, <2>6
       DEF Ideal!Take, Ideal!record, Saved, Spent, Entries, AtHand, Observing
  <2> QED  BY <2>7 DEF Ideal!Next
<1>9. CASE UpsertProspect
  <2>1. /\ call.pc = "upsert" /\ call'.pc = "write" /\ call'.run = call.run
        /\ call'.username = call.username /\ ck' = ck /\ UNCHANGED jobRuns
    BY <1>9, UpsertCallEffect
  <2> QED  BY <1>a, <2>1, BudgetEffect, IdealStutters DEF AtHand, Observing, SameWork
<1>10. ASSUME NEW b \in Accounts, NEW k \in Kinds, WriteOne(b, k) PROVE UNCHANGED Ideal!vars
  <2>1. /\ call.pc = "write" /\ call'.pc = "write" /\ call'.run = call.run
        /\ call'.username = call.username /\ ck' = ck /\ UNCHANGED jobRuns
    BY <1>10, WriteOneEffect
  <2> QED  BY <1>a, <2>1, BudgetEffect, IdealStutters DEF AtHand, Observing, SameWork
<1>11. CASE CandidateDone
  <2>1. /\ call.pc = "write" /\ call'.pc = "save_enrich" /\ call'.run = call.run
        /\ ck'.scrapesUsed = ck.scrapesUsed + 1 /\ ck'.pendingQueries = ck.pendingQueries
        /\ ck'.processed = ck.processed \cup {call.username} /\ UNCHANGED jobRuns
    BY <1>11, CandidateDoneEffect
  <2>2. PICK h \in Handles : h = call.username
    BY <2>1, Parts DEF Observing
  <2>3. h \notin ck.processed /\ ck.scrapesUsed < call.budget
    BY <2>1, <2>2 DEF ObservesAnew, Observing
  <2>4. Entries(ck)' = Entries(ck) \cup {<<"profile", h>>} /\ <<"profile", h>> \notin Entries(ck)
    BY <2>1, <2>2, <2>3 DEF Entries, Queried, Profiled
  <2>5. AtHand' = AtHand \ {<<"profile", h>>}
    BY <2>1, <2>2 DEF AtHand, Observing
  <2>6. call'.budget = call.budget /\ call.run # NoRun
    BY <1>0, <2>1, BudgetEffect
  <2> QED  BY <1>a, <2>1, <2>3, <2>4, <2>5, <2>6, IdealFinishes
<1>12. ASSUME NEW a \in Accounts, NEW h \in Handles \cup {NoHandle}, ChangeHandle(a, h)
       PROVE  UNCHANGED Ideal!vars
  BY <1>12, IdealStutters DEF ChangeHandle, SavedAsBefore, SameWork, AtHand, ck
<1> QED  BY <1>1, <1>2, <1>3, <1>4, <1>5, <1>6, <1>7, <1>8, <1>9, <1>10, <1>11, <1>12 DEF Next

\* However its calls die and are resumed, a discovery run goes on from exactly what its checkpoint
\* says was done: no query and no candidate twice, and nothing beyond the budget the call read.
THEOREM DiscoveryResumes == Spec => ResumesItsRuns
BY TypedInit, TypedStep, ScrapesInit, ScrapesStep, AnewInit, AnewStep, IdealInit, IdealStep, PTL
   DEF Spec, ResumesItsRuns, Ideal!Spec
=============================================================================
