\* Both batches, with crashes, failing writes and resumptions.
SPECIFICATION Spec
CONSTANTS
  d1 = d1
  p1 = p1
  p2 = p2
  p3 = p3
  Workers = {w1, w2}
  Domains = {d1, d2}
  NoDomain = NoDomain
  Technologies = {t1}
  MaxScans = 3
  Prospects = {p1, p2, p3}
  DomainOf <- Companies
  Runs = {j1}
  NoRun = NoRun
  NoItem = NoItem
INVARIANTS ChangesBetweenWholeScansAreTrue FinishedScansRecordEveryChange CheckpointNamesFinishedWork
PROPERTIES CheckpointNeverShrinks ResumesItsRuns
SYMMETRY Symmetry
