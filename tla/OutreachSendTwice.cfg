\* Two original drafts reach the same prospect, one call after the other.
SPECIFICATION Spec
CONSTANTS
  d1 = d1
  d2 = d2
  d3 = d3
  p1 = p1
  p2 = p2
  Senders = {s1}
  Drafts <- DraftsThree
  Prospects = {p1, p2}
  ProspectOf <- ProspectsThree
  StepOf <- StepsThree
  Sendable = {d1, d2, d3}
  DailyLimit = 2
  MaxRetries = 1
  MaxCopies = 1
  NoDraft = NoDraft
INVARIANTS OneManualMessagePerProspect
