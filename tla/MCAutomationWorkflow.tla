------------------------- MODULE MCAutomationWorkflow -------------------------
(* A small instance of AutomationWorkflow.                                  *)
EXTENDS AutomationWorkflow

\* A direct job comes first, as in the workflow's list.
DailyList == <<"x_prospect_discovery", "ingest_content_signals", "analyze_own_content">>

\* Jobs of the daily list and others, in another order; one name is mistyped.
OtherLists ==
  {<<"ingest_content_signals">>, <<"discover_due_followups", "ingest_content_signals">>,
   <<"analyze_own_content", "ingest_content">>}
=============================================================================
