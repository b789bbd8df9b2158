\* Two candidates, two queries, handles that change hands, one abort.
SPECIFICATION Spec
CONSTANTS
  q1 = q1
  q2 = q2
  Accounts = {a1, a2}
  Handles = {h1, h2}
  Queries = {q1, q2}
  SignalsIn <- Posts
  Runs = {j1}
  Budgets = {1, 3}
  MaxProfiles = 1
  MaxAborts = 1
  MaxHoldings = 3
  Nobody = Nobody
  NoHandle = NoHandle
  NoRun = NoRun
INVARIANTS OneBudgetPerRun ProcessedMeansStored EvidenceFollowsTheHandle
SYMMETRY Symmetry
