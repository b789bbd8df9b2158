\* Two prospects with a website, one of them with a full name.
SPECIFICATION Spec
CONSTANTS
  p1 = p1
  p2 = p2
  Prospects = {p1, p2}
  Finds <- SelfDescriptions
  HasDomain = {p1, p2}
  HasFullName = {p1}
  Pages <- Site
  MaxPages = 2
  Runs = {j1}
  Budgets = {2, 3}
  MaxAborts = 1
  NoRun = NoRun
  Nobody = Nobody
INVARIANTS PagesWithinBudget DoneMeansEveryPageTried PipelineStopsAtTierC
PROPERTIES FactsNeverLowerAScore ResumesItsRuns
