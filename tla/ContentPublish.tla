--------------------------- MODULE ContentPublish ---------------------------
(***************************************************************************)
(* PublishApprovedContentService.publishDraft and the PUBLISH_DUE_CONTENT  *)
(* job (packages/content/src/publishing, .../automation), over the drafts  *)
(* of ContentDrafts: the one path by which Metrivio posts in public.       *)
(*                                                                         *)
(* A publisher is one call of publishDraft, or one run of the job, which   *)
(* publishes the drafts it found one by one.  Each numbered check of       *)
(* publishDraft is a step (the row and log reads of one getDraft() are one *)
(* step).  X itself is external: an answer may be lost after X posted.     *)
(***************************************************************************)
EXTENDS ContentDrafts, FiniteSets

CONSTANTS
  Publishers,
  Overlap,     \* may calls begin while another is under way?
  DailyLimit   \* daily_limit_posts

ASSUME OverlapAssumption == Overlap \in BOOLEAN
ASSUME LimitsAssumption == DailyLimit \in Nat
ASSUME FiniteDraftsAssumption == IsFiniteSet(Drafts)

VARIABLES
  pub,       \* pub[p]: publisher p's call in progress
  postedNow  \* at X: drafts posted in the last 24 hours

vars == <<rows, log, edit, pub, postedNow>>

PubState ==
  [pc: {"idle", "next", "load", "integrity", "schedule", "row", "checks", "limit", "post", "save"},
   queue: SUBSET Drafts,  \* due drafts the job has still to publish
   draft: Drafts \cup {NoDraft},
   text: Bodies \cup {NoBody}]

NoPub == [pc |-> "idle", queue |-> {}, draft |-> NoDraft, text |-> NoBody]

Init ==
  /\ DraftsInit
  /\ pub = [p \in Publishers |-> NoPub]
  /\ postedNow = {}

MayBegin == Overlap \/ (edit.pc = "idle" /\ \A p \in Publishers : pub[p].pc = "idle")

Goto(p, pc) == pub' = [pub EXCEPT ![p].pc = pc]

\* publishDraft returns; the job goes on to its next draft.
Finish(p) == pub' = [pub EXCEPT ![p] = [NoPub EXCEPT !.pc = "next", !.queue = pub[p].queue]]

BeginPublish(p, d) ==
  /\ pub[p].pc = "idle"
  /\ MayBegin
  /\ Exists(d)
  /\ pub' = [pub EXCEPT ![p] = [NoPub EXCEPT !.pc = "load", !.draft = d]]
  /\ UNCHANGED <<draftVars, postedNow>>

\* findDueDraftIds: approved by the column, not published, ready; of these, those that are due.
Publishable == {d \in Drafts : /\ rows[d].approvalStatus = "approved"
                             /\ ~rows[d].published
                             /\ Ready(d)}

BeginJob(p) ==
  /\ pub[p].pc = "idle"
  /\ MayBegin
  /\ \E due \in SUBSET Publishable \ {{}} :
       pub' = [pub EXCEPT ![p] = [NoPub EXCEPT !.pc = "next", !.queue = due]]
  /\ UNCHANGED <<draftVars, postedNow>>

NextDue(p) ==
  /\ pub[p].pc = "next"
  /\ \/ /\ pub[p].queue = {}
        /\ pub' = [pub EXCEPT ![p] = NoPub]
     \/ \E d \in pub[p].queue :
          pub' = [pub EXCEPT ![p] = [NoPub EXCEPT !.pc = "load", !.draft = d,
                                                  !.queue = pub[p].queue \ {d}]]
  /\ UNCHANGED <<draftVars, postedNow>>

\* Steps 1-2: the text that will be posted is the body as it is read here.
LoadDraft(p) ==
  LET d == pub[p].draft IN
  /\ pub[p].pc = "load"
  /\ IF log[d].status = "APPROVED"
       THEN pub' = [pub EXCEPT ![p].pc = "integrity", ![p].text = rows[d].body]
       ELSE Finish(p)
  /\ UNCHANGED <<draftVars, postedNow>>

\* Step 3, re-derived from the row and the log as they are now.
CheckIntegrity(p) ==
  /\ pub[p].pc = "integrity"
  /\ IF ApprovalCovers(pub[p].draft) THEN Goto(p, "schedule") ELSE Finish(p)
  /\ UNCHANGED <<draftVars, postedNow>>

\* Step 4: ready, and due.
CheckSchedule(p) ==
  /\ pub[p].pc = "schedule"
  /\ \/ Ready(pub[p].draft) /\ Goto(p, "row")
     \/ Finish(p)
  /\ UNCHANGED <<draftVars, postedNow>>

\* Faulty variant: the row is read but x_manager_post_id is not looked at.
CheckUnpublishedSkipped(p) ==
  /\ pub[p].pc = "row"
  /\ Goto(p, "checks")
  /\ UNCHANGED <<draftVars, postedNow>>

\* Step 5, idempotency.
CheckUnpublished(p) ==
  /\ pub[p].pc = "row"
  /\ IF rows[pub[p].draft].published THEN Finish(p) ELSE Goto(p, "checks")
  /\ UNCHANGED <<draftVars, postedNow>>

\* Steps 6-8: revalidation, kill switch and publishing mode (a dry run included) pass or refuse.
OtherChecks(p) ==
  /\ pub[p].pc = "checks"
  /\ Goto(p, "limit") \/ Finish(p)
  /\ UNCHANGED <<draftVars, postedNow>>

\* countPublishedSince: by column, post id and updated_at.
CountedPosts == {d \in Drafts : /\ rows[d].approvalStatus = "approved"
                                /\ rows[d].published
                                /\ rows[d].recent}

\* Faulty variant: the limit may be exceeded by one.
CheckLimitLoosely(p) ==
  /\ pub[p].pc = "limit"
  /\ IF Cardinality(CountedPosts) > DailyLimit THEN Finish(p) ELSE Goto(p, "post")
  /\ UNCHANGED <<draftVars, postedNow>>

\* Step 9.
CheckLimit(p) ==
  /\ pub[p].pc = "limit"
  /\ IF Cardinality(CountedPosts) >= DailyLimit THEN Finish(p) ELSE Goto(p, "post")
  /\ UNCHANGED <<draftVars, postedNow>>

Posted(p) == postedNow' = postedNow \cup {pub[p].draft}

PostSucceeds(p) ==
  /\ pub[p].pc = "post"
  /\ Posted(p)
  /\ Goto(p, "save")
  /\ UNCHANGED draftVars

\* FAILED: the adapter's own checks or X refused, nothing was posted.
PostRefused(p) ==
  /\ pub[p].pc = "post"
  /\ Finish(p)
  /\ UNCHANGED <<draftVars, postedNow>>

\* Faulty variant: an answer that is not understood counts as a success.
PostUnknownAsSuccess(p) ==
  /\ pub[p].pc = "post"
  /\ Posted(p) \/ UNCHANGED postedNow
  /\ Goto(p, "save")
  /\ UNCHANGED draftVars

\* UNKNOWN: no answer, or one that is not understood; X posted or not, and the draft stays due.
PostUnknown(p) ==
  /\ pub[p].pc = "post"
  /\ Posted(p) \/ UNCHANGED postedNow
  /\ Finish(p)
  /\ UNCHANGED draftVars

SavePostId(p) ==
  /\ pub[p].pc = "save"
  /\ Touch(pub[p].draft, [rows[pub[p].draft] EXCEPT !.published = TRUE])
  /\ Finish(p)
  /\ UNCHANGED <<log, edit, postedNow>>

\* The update throws; the catch block reports FAILED and the job goes on.
SaveThrows(p) ==
  /\ pub[p].pc = "save"
  /\ Finish(p)
  /\ UNCHANGED <<draftVars, postedNow>>

CrashPublisher(p) ==
  /\ pub[p].pc # "idle"
  /\ pub' = [pub EXCEPT ![p] = NoPub]
  /\ UNCHANGED <<draftVars, postedNow>>

\* Time passes: a post leaves the 24 hour window, and the row's updated_at, never older than the
\* post it records, after it.
PostAges(d) ==
  /\ d \in postedNow
  /\ postedNow' = postedNow \ {d}
  /\ UNCHANGED <<draftVars, pub>>

RowAges(d) ==
  /\ rows[d].recent /\ d \notin postedNow
  /\ rows' = [rows EXCEPT ![d].recent = FALSE]
  /\ UNCHANGED <<log, edit, pub, postedNow>>

PublishStep(p) ==
  \/ NextDue(p)
  \/ LoadDraft(p) \/ CheckIntegrity(p) \/ CheckSchedule(p) \/ CheckUnpublished(p)
  \/ OtherChecks(p) \/ CheckLimit(p)
  \/ PostSucceeds(p) \/ PostRefused(p) \/ PostUnknown(p)
  \/ SavePostId(p) \/ SaveThrows(p) \/ CrashPublisher(p)

Next ==
  \/ MayBegin /\ BeginEdit /\ UNCHANGED <<pub, postedNow>>
  \/ EditStep /\ UNCHANGED <<pub, postedNow>>
  \/ \E p \in Publishers :
       \/ BeginJob(p) \/ \E d \in Drafts : BeginPublish(p, d)
       \/ PublishStep(p)
  \/ \E d \in Drafts : PostAges(d) \/ RowAges(d)

Spec == Init /\ [][Next]_vars
-----------------------------------------------------------------------------
TypeOK ==
  /\ rows \in [Drafts -> RowState]
  /\ log \in [Drafts -> LogState]
  /\ edit \in EditState
  /\ pub \in [Publishers -> PubState]
  /\ postedNow \subseteq Drafts

\* When calls do not overlap, the text about to be posted is the one the draft's last approval
\* was given for, whatever edits, crashes and re-approvals came before.
ApprovalCoversThePost ==
  \A p \in Publishers : pub[p].pc = "post" =>
    /\ log[pub[p].draft].status = "APPROVED"
    /\ log[pub[p].draft].approved = pub[p].text
    /\ ~log[pub[p].draft].changed

\* When calls do not overlap, a draft whose post id was recorded is never posted again, not even
\* after its body was changed and approved anew.
NeverPostsOnceRecorded ==
  \A p \in Publishers : pub[p].pc = "post" => ~rows[pub[p].draft].published

\* When calls do not overlap, the posts of the last 24 hours that carry an approved row and a
\* post id stay within daily_limit_posts, although the count goes by updated_at.
RecordedPostsWithinLimit ==
  Cardinality({d \in postedNow : rows[d].approvalStatus = "approved" /\ rows[d].published})
    <= DailyLimit

\* The column is written after the event, so a crash leaves it behind the log, never ahead of it:
\* the job never takes a draft for approved that the log does not show as approved.
ColumnNeverAheadOfLog ==
  \A d \in Drafts :
    /\ rows[d].approvalStatus = "approved" => log[d].status = "APPROVED"
    /\ rows[d].approvalStatus = "rejected" => log[d].status = "REJECTED"

\* The content store and X, as one atomic publisher would leave them.
Ideal == INSTANCE ApprovedPosts WITH
  body <- [d \in Drafts |-> rows[d].body],
  approved <- [d \in Drafts |-> log[d].approved],
  standing <- {d \in Drafts : log[d].status = "APPROVED" /\ ~log[d].changed},
  listed <- {d \in Drafts : rows[d].approvalStatus = "approved"},
  recorded <- {d \in Drafts : rows[d].published},
  posted <- postedNow,
  answered <- {d \in Drafts : \E p \in Publishers : pub[p].pc = "save" /\ pub[p].draft = d}

\* When calls do not overlap, publishDraft's checks and its post are one step to whoever looks at
\* the drafts and at X: all of them still hold when the post is made, although each was read at a
\* time of its own; and a post id is recorded for a post that was made, never for an answer that
\* was not understood.
PublishesAtomically == Ideal!Spec
=============================================================================
