---------------------------- MODULE ApprovedPosts ----------------------------
(***************************************************************************)
(* What drafts and publisher promise together, in one atomic step where    *)
(* the code makes many: at the moment a draft is posted, an approval       *)
(* stands for the very text it has, it is not recorded as posted before,   *)
(* and the recorded posts leave room below the limit; an approval is for   *)
(* the text the draft has when it is given; and what is recorded as posted *)
(* was posted.  ContentPublish is shown to implement this when its calls   *)
(* do not overlap.                                                         *)
(***************************************************************************)
EXTENDS Naturals, FiniteSets

CONSTANTS Drafts, Bodies, NoBody, DailyLimit

VARIABLES
  body,      \* body[d]: the draft's text
  approved,  \* approved[d]: the text its last approval was given for
  standing,  \* drafts whose last approval no change has undone
  listed,    \* drafts that are listed as approved, the only ones that count
  recorded,  \* drafts recorded as posted
  posted,    \* at X: drafts posted in the last 24 hours
  answered   \* drafts whose post was answered and is still to be recorded

texts == <<body, approved, standing>>
vars == <<texts, listed, recorded, posted, answered>>

Init ==
  /\ body = [d \in Drafts |-> NoBody] /\ approved = [d \in Drafts |-> NoBody]
  /\ standing = {} /\ listed = {} /\ recorded = {} /\ posted = {} /\ answered = {}

\* The texts and their approvals change only while no post waits to be recorded.
Edits == answered = {} /\ UNCHANGED <<recorded, posted, answered>>

Rewrite(d, b) ==
  /\ Edits
  /\ body' = [body EXCEPT ![d] = b]
  /\ UNCHANGED <<approved, standing, listed>>

Approve(d) ==
  /\ Edits
  /\ approved' = [approved EXCEPT ![d] = body[d]]
  /\ standing' = standing \cup {d}
  /\ UNCHANGED <<body, listed>>

Undo(d) ==
  /\ Edits
  /\ standing' = standing \ {d}
  /\ UNCHANGED <<body, approved, listed>>

\* Listing a draft late never adds a post to those that count.
List(d) ==
  /\ Edits
  /\ d \notin recorded
  /\ listed' = listed \cup {d}
  /\ UNCHANGED texts

Counting == posted \cap recorded \cap listed

\* The answer may be lost: then nothing will be recorded.
Post(d) ==
  /\ answered = {}
  /\ d \in standing /\ approved[d] = body[d]
  /\ d \notin recorded
  /\ Cardinality(Counting) < DailyLimit
  /\ posted' = posted \cup {d}
  /\ answered' \in {{}, {d}}
  /\ UNCHANGED <<texts, listed, recorded>>

Record(d) ==
  /\ d \in answered
  /\ recorded' = recorded \cup {d}
  /\ answered' = {}
  /\ UNCHANGED <<texts, listed, posted>>

Forget ==
  /\ answered' = {}
  /\ UNCHANGED <<texts, listed, recorded, posted>>

Age(d) ==
  /\ posted' = posted \ {d}
  /\ UNCHANGED <<texts, listed, recorded, answered>>

Next ==
  \/ Forget
  \/ \E d \in Drafts :
       \/ \E b \in Bodies : Rewrite(d, b)
       \/ Approve(d) \/ Undo(d) \/ List(d)
       \/ Post(d) \/ Record(d) \/ Age(d)

Spec == Init /\ [][Next]_vars
=============================================================================
