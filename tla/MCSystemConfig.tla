---------------------------- MODULE MCSystemConfig ----------------------------
(* A small instance of SystemConfig.                                        *)
EXTENDS SystemConfig

\* The environment changes from one start to the next, the kill switch stays on.
SwitchedOff(mode, limit) ==
  [automation_mode |-> mode, kill_switch |-> "true", daily_limit |-> limit]

SmallEnvs == {SwitchedOff("autonomous", "25"), SwitchedOff("dry_run", "0")}

\* Edits of seeded and other keys, with values in range, out of range and not a number.
SmallEdits == {<<"kill_switch", "true">>, <<"kill_switch", "false">>, <<"automation_mode", "autonomous">>,
               <<"daily_limit", "-1">>, <<"daily_limit", "NaN">>,
               <<"max_items", "0">>, <<"minimum_tier", "other">>, <<"founder_queries", "no queries">>}
=============================================================================
