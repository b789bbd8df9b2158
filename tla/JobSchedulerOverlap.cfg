\* Two processes that invoke and resume jobs: what survives any interleaving.
SPECIFICATION Spec
CONSTANTS
  Invokers = {i1, i2}
  JobTypes = {t1, t2}
  Jobs = {j1, j2, j3}
  NoJob = NoJob
  NoType = NoType
  MaxAttempts = 2
SYMMETRY Symmetries
INVARIANTS FreshRunsBounded NoRunIsForgotten CompletedRunsReturned AttemptsWereMade
