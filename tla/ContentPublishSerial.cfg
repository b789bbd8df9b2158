\* One call at a time, with crashes and lost answers.
SPECIFICATION Spec
CONSTANTS
  Drafts = {d1, d2}
  IdeaOf <- IdeaPerDraft
  Bodies = {b1, b2}
  NoDraft = NoDraft
  NoBody = NoBody
  Publishers = {p1}
  Overlap = FALSE
  DailyLimit = 1
SYMMETRY Symmetries
INVARIANTS ApprovalCoversThePost NeverPostsOnceRecorded RecordedPostsWithinLimit ColumnNeverAheadOfLog
PROPERTIES PublishesAtomically
