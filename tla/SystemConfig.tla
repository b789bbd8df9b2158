----------------------------- MODULE SystemConfig -----------------------------
(***************************************************************************)
(* SystemConfigService (packages/core/src/config/system-config.ts): the    *)
(* settings that operators change at run time, one text row per key.       *)
(*                                                                         *)
(* Every process seeds the keys that have no row yet, in a fixed order,    *)
(* from its own environment; an operator writes one key at a time.  A      *)
(* write is a select and then an update or an insert, a seed has a select  *)
(* of its own before that, and the processes share nothing but the table.  *)
(* A getter reads one row and turns whatever text it finds into a value.   *)
(*                                                                         *)
(* One key stands for each way a row is read: daily_limit for the four     *)
(* limits, max_items for the bounds that are not seeded, and so on.        *)
(***************************************************************************)
EXTENDS Integers, Sequences, FiniteSets

CONSTANTS
  Boots,   \* processes that seed when they start
  People,  \* operators with the Settings page open
  Envs,    \* the environments a process may start with
  Edits    \* <<key, input>> pairs an operator may save

VARIABLES
  stored,  \* system_config: stored[k] is the row of key k
  writer   \* writer[w]: the seeding or the edit that w is in

configVars == <<stored, writer>>

Seeded == {"automation_mode", "kill_switch", "daily_limit", "founder_queries", "max_profiles"}
Keys == Seeded \cup {"minimum_tier", "max_items", "autonomous_enabled"}

AutomationModes == {"dry_run", "approval_required", "autonomous"}

\* Texts that parseInt reads as a number; the others it answers NaN.
Numeral ==
  [t \in {"-1", "0", "1", "25", "50"} |->
     CASE t = "-1" -> -1 [] t = "0" -> 0 [] t = "1" -> 1 [] t = "25" -> 25 [] t = "50" -> 50]
Text(n) == CHOOSE t \in DOMAIN Numeral : Numeral[t] = n

\* Texts that JSON.parse reads as a list.
Lists == {"queries", "no queries"}

Texts == DOMAIN Numeral \cup AutomationModes \cup Lists
           \cup {"NaN", "true", "false", "A", "B", "C", "other"}

\* envSchema: what a process starts with, or does not start at all.
Env == [automation_mode: AutomationModes, kill_switch: {"true", "false"},
        daily_limit: {t \in DOMAIN Numeral : Numeral[t] >= 0}]

ASSUME EnvsAssumption == Envs \subseteq Env

\* The setters of limits and bounds take a number, and the setter of a list takes a list.
ASSUME EditsAssumption ==
  Edits \subseteq {e \in Keys \X Texts :
                     /\ e[1] \in {"daily_limit", "max_items"} => e[2] \in DOMAIN Numeral \cup {"NaN"}
                     /\ e[1] = "founder_queries" => e[2] \in Lists}

\* The DEFAULT_... constants.
Default == [founder_queries |-> "queries", max_profiles |-> 50, max_items |-> 25]

\* The defaults object that is seeded: the environment's values, and some of the constants.
Defaults(env) ==
  [automation_mode |-> env.automation_mode, kill_switch |-> env.kill_switch,
   daily_limit |-> env.daily_limit,
   founder_queries |-> Default.founder_queries, max_profiles |-> Text(Default.max_profiles)]

Absent == [value |-> "", updatedBy |-> "none"]
Rows == [value: Texts, updatedBy: {"system:boot-seed", "operator"}]

\* present is not a variable of the code: the keys that had a row when the process started.
Writer == [pc: {"idle", "read", "select", "write"}, todo: Seq(Keys), value: Texts,
           updatedBy: {"system:boot-seed", "operator"}, exists: BOOLEAN,
           env: Envs, present: SUBSET Keys]

NoWriter == [pc |-> "idle", todo |-> <<>>, value |-> "0", updatedBy |-> "operator", exists |-> FALSE,
         env |-> CHOOSE e \in Envs : TRUE, present |-> {}]

ConfigInit ==
  /\ stored = [k \in Keys |-> Absent]
  /\ writer = [w \in Boots \cup People |-> NoWriter]
-----------------------------------------------------------------------------
(* The getters: what a text means to the code that acts on it.             *)

Value(k) == stored[k].value
IsSet(k) == stored[k] # Absent

\* getAutomationMode: an unset or unknown mode is a dry run.
AutomationMode ==
  IF Value("automation_mode") \in AutomationModes THEN Value("automation_mode") ELSE "dry_run"

\* What is unset or anything but 'true' is off: the kill switch and autonomous publishing alike.
IsKillSwitchActive == Value("kill_switch") = "true"
IsAutonomousEnabled == Value("autonomous_enabled") = "true"

ParsesTo(t, accepted) == t \in DOMAIN Numeral /\ Numeral[t] \in accepted

\* Faulty variant: a limit that cannot be read is no limit.
DailyLimitOrNone ==
  IF Value("daily_limit") \in DOMAIN Numeral THEN Numeral[Value("daily_limit")] ELSE -1

\* getDailyLimit: what cannot be read allows nothing.
DailyLimit == IF ParsesTo(Value("daily_limit"), Nat) THEN Numeral[Value("daily_limit")] ELSE 0

\* The bounds, seeded or not: what cannot be read, or allows nothing, is the default.
PositiveOrDefault(k) == IF ParsesTo(Value(k), Nat \ {0}) THEN Numeral[Value(k)] ELSE Default[k]

MaxProfilesPerRun == PositiveOrDefault("max_profiles")
MaxItemsPerRun == PositiveOrDefault("max_items")

\* The lists: a row that is set goes to JSON.parse, which throws on what is not JSON.
FounderQueries ==
  CASE ~IsSet("founder_queries") -> Default.founder_queries
    [] IsSet("founder_queries") /\ Value("founder_queries") \in Lists -> Value("founder_queries")
    [] OTHER -> "throws"

\* getOutreachMinimumTier
MinimumTier == IF Value("minimum_tier") \in {"A", "B", "C"} THEN Value("minimum_tier") ELSE "none"

\* WriteGuard.checkBeforeWrite: the mode, unless assertNotActive throws.
CheckBeforeWrite == IF IsKillSwitchActive THEN "refused" ELSE AutomationMode

\* resolveOutreachAutomationDryRun, and the caller's wish for a preview.
OutreachDryRun(force) == AutomationMode = "dry_run" \/ force
-----------------------------------------------------------------------------
(* The setters.                                                            *)

\* String(Math.max(least, Math.trunc(value))), of a value that may not be a number.
AtLeast(least, t) == IF t = "NaN" \/ Numeral[t] >= least THEN t ELSE Text(least)

\* What each setter makes of its argument.
Written(k, t) ==
  CASE k = "daily_limit" -> AtLeast(0, t)
    [] k = "max_items" -> AtLeast(1, t)
    [] OTHER -> t

\* Faulty variant: the kill switch is seeded after what it holds back.
SeedOrderSwitchLast ==
  <<"automation_mode", "daily_limit", "founder_queries", "max_profiles", "kill_switch">>

\* The order of the defaults object.
SeedOrder == <<"automation_mode", "kill_switch", "daily_limit", "founder_queries", "max_profiles">>

Becomes(w, c) == writer' = [writer EXCEPT ![w] = c]

\* The key in hand is done with: a seeding goes on to the next one.
Onward(c) == IF Len(c.todo) <= 1 THEN NoWriter ELSE [c EXCEPT !.pc = "read", !.todo = Tail(@)]

\* seedDefaultsFromEnv
Boot(b, env) ==
  /\ writer[b].pc = "idle"
  /\ Becomes(b, [NoWriter EXCEPT !.pc = "read", !.todo = SeedOrder, !.updatedBy = "system:boot-seed",
                             !.env = env, !.present = {k \in Seeded : IsSet(k)}])
  /\ UNCHANGED stored

\* Faulty variant: the value of the environment always wins.
ReadKeyAndForget(b) ==
  LET c == writer[b] IN
  /\ c.pc = "read"
  /\ Becomes(b, [c EXCEPT !.pc = "select", !.value = Defaults(c.env)[Head(c.todo)]])
  /\ UNCHANGED stored

\* A key with a row is left as it is.
ReadKey(b) ==
  LET c == writer[b] IN
  /\ c.pc = "read"
  /\ Becomes(b, IF IsSet(Head(c.todo)) THEN Onward(c)
                ELSE [c EXCEPT !.pc = "select", !.value = Defaults(c.env)[Head(c.todo)]])
  /\ UNCHANGED stored

Edit(h, k, t) ==
  /\ writer[h].pc = "idle"
  /\ Becomes(h, [NoWriter EXCEPT !.pc = "select", !.todo = <<k>>, !.value = Written(k, t)])
  /\ UNCHANGED stored

\* setRaw looks for the row...
Select(w) ==
  /\ writer[w].pc = "select"
  /\ Becomes(w, [writer[w] EXCEPT !.pc = "write", !.exists = IsSet(Head(writer[w].todo))])
  /\ UNCHANGED stored

\* ...and then updates it, or inserts one: the key is the table's primary key, so an insert that
\* comes second throws, and ends the seeding or the edit.
Write(w) ==
  LET c == writer[w]
      k == Head(c.todo)
      row == [value |-> c.value, updatedBy |-> c.updatedBy]
  IN
  /\ c.pc = "write"
  /\ \/ /\ c.exists \/ ~IsSet(k)
        /\ stored' = [stored EXCEPT ![k] = row]
        /\ Becomes(w, Onward(c))
     \/ /\ ~c.exists /\ IsSet(k)
        /\ Becomes(w, NoWriter)
        /\ UNCHANGED stored

WriterDies(w) ==
  /\ writer[w].pc # "idle"
  /\ Becomes(w, NoWriter)
  /\ UNCHANGED stored

ConfigNext ==
  \/ \E b \in Boots : ReadKey(b) \/ \E env \in Envs : Boot(b, env)
  \/ \E h \in People, e \in Edits : Edit(h, e[1], e[2])
  \/ \E w \in Boots \cup People : Select(w) \/ Write(w) \/ WriterDies(w)

ConfigSpec == ConfigInit /\ [][ConfigNext]_configVars
-----------------------------------------------------------------------------
\* Every row holds text, and every getter answers within the range its callers rely on.  The getters
\* of single values do so whatever the text is; the list getter would throw on text that is not
\* JSON, and no seed, edit or overlap of them leaves it such a row.
SettingsTypeOK ==
  /\ \A k \in Keys : stored[k] \in Rows \cup {Absent}
  /\ \A w \in Boots \cup People : writer[w] = NoWriter \/ Len(writer[w].todo) \in 1..Len(SeedOrder)
  /\ DailyLimit \in Nat
  /\ MaxProfilesPerRun \in Nat \ {0} /\ MaxItemsPerRun \in Nat \ {0}
  /\ FounderQueries \in Lists /\ IsAutonomousEnabled \in BOOLEAN
  /\ MinimumTier \in {"A", "B", "C", "none"}

\* What an operator stored before a process started, no restart reverts, with whatever environment:
\* a seed replaces a row only if that row came into being while the seeding was under way.
RestartKeepsSettings ==
  [][\A k \in Keys :
       stored'[k] # stored[k] /\ stored'[k].updatedBy = "system:boot-seed" =>
         \E b \in Boots : /\ writer[b].pc = "write" /\ Head(writer[b].todo) = k
                          /\ k \notin writer[b].present]_configVars

\* A guarded write of an outreach job that is not a preview, and that a limit still allows.
Armed ==
  /\ CheckBeforeWrite \notin {"refused", "dry_run"}
  /\ ~OutreachDryRun(FALSE)
  /\ DailyLimit > 0

ByOperator(k) == stored[k].updatedBy = "operator"

\* While every environment has the kill switch on, no start, unfinished start or restart with other
\* values leaves the settings open for a moment, whatever mode an operator chose before; only an
\* operator's own edit of the kill switch or the limit can do that.
StartingNeverArms ==
  /\ \A env \in Envs : env.kill_switch = "true"
  /\ Armed
  => ByOperator("kill_switch") \/ ByOperator("daily_limit")
=============================================================================
