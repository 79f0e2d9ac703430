---------------------------- MODULE TimedLogging -----------------------------
(***************************************************************************)
(* TimedLogging and TimedLogManager of timedlogging.cc: get() counts the   *)
(* managers that exist in current_level_ and enables the streams of a new  *)
(* one if the count is within the limits of create(). get() and create()   *)
(* hold mutex_; destroying or copying a manager, in any thread, does not.  *)
(* Prefixes and colours are left out.                                      *)
(***************************************************************************)
EXTENDS Integers, FiniteSets

CONSTANTS
  Managers,   \* the TimedLogManager objects
  Levels,     \* the limits create() is called with
  CopyLimit,  \* bound: how often managers are copied
  NoManager

ASSUME LoggingAssumption ==
  /\ Levels \subseteq Int
  /\ CopyLimit \in Nat
  /\ NoManager \notin Managers
  /\ IsFiniteSet(Managers)

VARIABLES
  created_, current_level_, max_info_level_, max_debug_level_, enable_warnings_,
  mutex_,   \* the manager get() is constructing, or NoManager
  stage,    \* per manager: "none", "info" or "debug" to be decided, "alive"
  info,     \* the managers whose info() is enabled_out
  debug,    \* the managers whose debug() is enabled_out
  warn,     \* the managers whose warn() is warn_out
  uncounted \* for the properties: how many managers the count has missed, being
            \* copies or older than create(), which starts it again

settings == <<created_, max_info_level_, max_debug_level_, enable_warnings_>>
streams == <<info, debug, warn>>
managerVars == <<settings, current_level_, mutex_, stage, streams, uncounted>>

Exists == {m \in Managers : stage[m] # "none"}

ManagersInit ==
  /\ created_ = FALSE
  /\ current_level_ = -1
  /\ max_info_level_ = -1 /\ max_debug_level_ = -1
  /\ enable_warnings_ = TRUE
  /\ mutex_ = NoManager
  /\ stage = [m \in Managers |-> "none"]
  /\ info = {} /\ debug = {} /\ warn = {}
  /\ uncounted = 0

\* A second create() throws and changes nothing.
create(i, d, w) ==
  /\ mutex_ = NoManager /\ ~created_
  /\ created_' = TRUE
  /\ max_info_level_' = i /\ max_debug_level_' = d
  /\ enable_warnings_' = w
  /\ current_level_' = -1
  /\ uncounted' = Cardinality(Exists)
  /\ UNCHANGED <<mutex_, stage, streams>>

\* get(): the lock and ++current_level_.
Get(m) ==
  /\ mutex_ = NoManager /\ stage[m] = "none"
  /\ mutex_' = m
  /\ current_level_' = current_level_ + 1
  /\ stage' = [stage EXCEPT ![m] = "info"]
  /\ UNCHANGED <<settings, streams, uncounted>>

\* Mutant: the limit is taken as a number of levels.
DecideInfoExclusive(m) ==
  /\ stage[m] = "info"
  /\ info' = IF current_level_ <= max_info_level_ + 1 THEN info \cup {m} ELSE info
  /\ stage' = [stage EXCEPT ![m] = "debug"]
  /\ UNCHANGED <<settings, current_level_, mutex_, debug, warn, uncounted>>

\* The constructor of TimedLogManager reads current_level_ for info_ ...
DecideInfo(m) ==
  /\ stage[m] = "info"
  /\ info' = IF current_level_ <= max_info_level_ THEN info \cup {m} ELSE info
  /\ stage' = [stage EXCEPT ![m] = "debug"]
  /\ UNCHANGED <<settings, current_level_, mutex_, debug, warn, uncounted>>

\* ... and once more for debug_; then get() returns.
DecideDebug(m) ==
  /\ stage[m] = "debug"
  /\ debug' = IF current_level_ <= max_debug_level_ THEN debug \cup {m} ELSE debug
  /\ warn' = IF enable_warnings_ THEN warn \cup {m} ELSE warn
  /\ stage' = [stage EXCEPT ![m] = "alive"]
  /\ mutex_' = NoManager
  /\ UNCHANGED <<settings, current_level_, info, uncounted>>

\* Mutant: the destructor does not count down.
DestroyUncounted(m) ==
  /\ stage[m] = "alive"
  /\ stage' = [stage EXCEPT ![m] = "none"]
  /\ info' = info \ {m} /\ debug' = debug \ {m} /\ warn' = warn \ {m}
  /\ UNCHANGED <<settings, current_level_, mutex_, uncounted>>

\* ~TimedLogManager()
Destroy(m) ==
  /\ stage[m] = "alive"
  /\ current_level_' = current_level_ - 1
  /\ stage' = [stage EXCEPT ![m] = "none"]
  /\ info' = info \ {m} /\ debug' = debug \ {m} /\ warn' = warn \ {m}
  /\ UNCHANGED <<settings, mutex_, uncounted>>

With(S, m, n) == IF m \in S THEN S \cup {n} ELSE S

\* The implicit copy constructor shares the streams of m and counts nothing;
\* the copy constructor of EnableDebugLoggingForCtors uses it.
Copy(m, n) ==
  /\ uncounted < CopyLimit /\ uncounted' = uncounted + 1
  /\ stage[m] = "alive" /\ stage[n] = "none"
  /\ stage' = [stage EXCEPT ![n] = "alive"]
  /\ info' = With(info, m, n) /\ debug' = With(debug, m, n) /\ warn' = With(warn, m, n)
  /\ UNCHANGED <<settings, current_level_, mutex_>>

ManagerStep(m) == Get(m) \/ DecideInfo(m) \/ DecideDebug(m) \/ Destroy(m)

ManagersNext ==
  \/ \E i, d \in Levels, w \in BOOLEAN : create(i, d, w)
  \/ \E m \in Managers : ManagerStep(m)
  \/ \E m, n \in Managers : Copy(m, n)

ManagersSpec == ManagersInit /\ [][ManagersNext]_managerVars

-----------------------------------------------------------------------------
ManagersTypeOK ==
  /\ created_ \in BOOLEAN
  /\ current_level_ \in Int
  /\ max_info_level_ \in Int /\ max_debug_level_ \in Int
  /\ enable_warnings_ \in BOOLEAN
  /\ mutex_ \in Managers \cup {NoManager}
  /\ stage \in [Managers -> {"none", "info", "debug", "alive"}]
  /\ info \subseteq Exists /\ debug \subseteq Exists /\ warn \subseteq Exists
  /\ uncounted \in Nat

Higher(a, b) == IF a > b THEN a ELSE b

\* current_level_ counts the managers there are from -1 on ("each time a new
\* TimedLogManager is created [...] increased, [...] goes out of scope [...]
\* decreased", timedlogging.hh:183), less those the count has missed: a copy is
\* counted by its destructor alone, and create() forgets who is there.
LevelCountsManagers == current_level_ = Cardinality(Exists) - 1 - uncounted

\* No more managers log at a time than the limits of create() say: -1 is
\* "disabled", 0 "only the first" (timedlogging.hh:200), 1 the first two, ... -
\* although managers disappear without a lock between the decisions of get().
\* Every manager the count has missed lets at most one more log.
EnabledWithinLimits ==
  /\ Cardinality(info) <= Higher(max_info_level_, -1) + 1 + uncounted
  /\ Cardinality(debug) <= Higher(max_debug_level_, -1) + 1 + uncounted
==============================================================================
