\* Two overlapping calls of send(): what survives any interleaving.
SPECIFICATION Spec
CONSTANTS
  d1 = d1
  d2 = d2
  d3 = d3
  p1 = p1
  p2 = p2
  Senders = {s1, s2}
  Drafts <- DraftsTwo
  Prospects = {p1}
  ProspectOf <- ProspectsTwo
  StepOf <- StepsTwo
  Sendable = {d1, d2}
  DailyLimit = 1
  MaxRetries = 0
  MaxCopies = 1
  NoDraft = NoDraft
SYMMETRY SenderSymmetry
INVARIANTS DailyLimitOvershootBounded KillSwitchBoundsRequests OnlyApprovedDraftsArrive
PROPERTIES BlocksGiveWayToFailuresOnly
