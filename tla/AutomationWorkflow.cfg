\* Daily runs and dispatched ones, some of which fail: what was interrupted is started again.
SPECIFICATION Spec
CONSTANTS
  SchedulerJobs = {"ingest_content_signals", "analyze_own_content", "discover_due_followups"}
  DirectJobs = {"x_prospect_discovery"}
  DefaultJobs <- DailyList
  Dispatches <- OtherLists
  MaxFailures = 3
PROPERTIES InterruptedJobsRunAgain
