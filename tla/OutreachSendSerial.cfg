\* One call at a time, with crashes and database errors: the record of what went out.
SPECIFICATION Spec
CONSTANTS
  d1 = d1
  d2 = d2
  d3 = d3
  p1 = p1
  p2 = p2
  Senders = {s1}
  Drafts <- DraftsThree
  Prospects = {p1, p2}
  ProspectOf <- ProspectsThree
  StepOf <- StepsThree
  Sendable = {d1, d2, d3}
  DailyLimit = 1
  MaxRetries = 1
  MaxCopies = 2
  NoDraft = NoDraft
INVARIANTS NeverPostsOverABlockedRecord
PROPERTIES BlocksForever DeliveryLeavesABlock
