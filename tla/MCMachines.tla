------------------------------ MODULE MCMachines ------------------------------
(***************************************************************************)
(* The classes that one caller uses by itself, each checked on its own:    *)
(* a behaviour is that of one of them, chosen at the start.                *)
(***************************************************************************)
EXTENDS SuspendScopes, TimedPrefix, StorageProvider, TestTimings, ConvergenceStudy,
        Parameter, Bisection, BlockedMatrix, DenseSolve, FixedMap, Logging,
        ConfigurationReport, MCAlgorithms

VARIABLE machine

MCPriorities == -1 .. 2

MCSuites == {<<"a">>, <<"a", "b">>, <<"b", "a">>, <<"a", "b", "c">>}

MCWords == ("q" :> <<6>>) @@ ("two words" :> <<5, 6>>)
        @@ ("one two three" :> <<3, 3, 5>>) @@ ("much too long" :> <<9, 20>>)

\* All that a study has to print.
Printed(s) == {<<"target", s.targets[i]>> : i \in DOMAIN s.targets}
         \cup {<<"norm", s.norms[i]>> : i \in DOMAIN s.norms}
         \cup {<<"quantity", s.quantities[i]>> : i \in DOMAIN s.quantities}

\* Studies with and without targets, norms and quantities, filters, and one
\* value that the last level does not provide.
MCStudies == UNION {
  LET s == [targets |-> t, norms |-> n, quantities |-> q, only |-> o, refinements |-> r]
  IN {[targets |-> t, norms |-> n, quantities |-> q, only |-> o, refinements |-> r,
       gives |-> [l \in 0 .. r |-> Printed(s) \ IF l = r THEN missing ELSE {}], zero |-> z] :
       missing \in {{}} \cup {{x} : x \in Printed(s)}, z \in {{}, {<<0, "norm", "L2">>}}} :
  t \in {<<>>, <<"h">>, <<"h", "dt">>}, n \in {<<>>, <<"L2", "H1">>},
  q \in {<<>>, <<"q">>, <<"two words", "much too long">>, <<"q", "one two three">>},
  o \in {{}, {"h", "q", "H1"}}, r \in {0, 2}}

MCPoints == -2 .. 2
MCSearches == [left : {-2, 1, 2}, right : {-2, 0, 2}, condition : [MCPoints -> BOOLEAN],
               rel_error : {0, 1}, abs_error : {0, 1}]

MCEntries == {-1, 0, 2}

Rows(n) ==
  CASE n = 1 -> {<<0>>, <<1>>, <<2>>}
    [] n = 2 -> {<<0, 0>>, <<0, 1>>, <<1, 2>>, <<2, 2>>}
    [] n = 3 -> {<<0, 0, 2>>, <<1, 2, 0>>, <<2, 2, 1>>, <<0, 1, 1>>}
    [] n = 4 -> {<<0, 1, 0, 2>>, <<1, 0, 2, 0>>, <<2, 1, 1, 0>>, <<0, 0, 1, 1>>, <<1, 1, 0, 0>>}
MCSystems == UNION {[A : [1 .. n -> Rows(n)], b : {[r \in 1 .. n |-> r % 3]}] : n \in 1 .. 4}

\* Keys above, in and below one section, and the two that setup_() reads; the
\* directories have one name each.
MCDataDir == <<"global", "datadir">>
MCLogDir == <<"logging", "dir">>
MCPathOrder == << <<"a">>, MCDataDir, MCLogDir, <<"s", "a">>, <<"s", "t", "b">> >>
MCValuesOf ==
  (<<"a">> :> {1, 2}) @@ (<<"s", "a">> :> {1, 2}) @@ [p \in Range(MCPathOrder) |-> {1}]
MCInputs == {
  <<>>,
  <<"a">> :> 1,
  (<<"a">> :> 2) @@ (MCDataDir :> 1),
  MCLogDir :> 1,
  (<<"a">> :> 2) @@ (<<"s", "a">> :> 2),
  (<<"s", "a">> :> 1) @@ (<<"s", "t", "b">> :> 1)}
MCSubIds == {<<>>, <<"s">>}

-----------------------------------------------------------------------------
\* A machine that does not run has one initial state.
Idle(value, values) == value = CHOOSE v \in values : TRUE

MCInit ==
  /\ machine \in {"scopes", "prefix", "storage", "tests", "study", "parameter", "bisection",
                  "blocks", "solve", "fixed map", "logging", "configuration", "algorithms"}
  /\ machine # "tests" => Idle(suite, Suites)
  /\ machine # "study" => Idle(study, Studies)
  /\ machine # "bisection" => Idle(search, Searches)
  /\ machine # "solve" => Idle(system, Systems) /\ task = "solve"
  /\ machine # "logging" => Idle(filename_, Names)
  /\ ScopesInit /\ PrefixInit /\ StorageInit /\ TestTimingsInit /\ StudyInit
  /\ ParameterInit /\ BisectionInit /\ BlockedInit /\ SolveInit /\ FixedInit
  /\ LoggingInit /\ ConfigurationInit /\ SubjectInit

MCVars == <<machine, scopesVars, prefixVars, storageVars, testTimingsVars, studyVars,
            parameterVars, bisectionVars, blockedVars, solveVars, fixedVars, loggingVars,
            configurationVars, subject>>

Scopes == machine = "scopes" /\ ScopesNext /\ UNCHANGED <<machine, prefixVars, storageVars, testTimingsVars, studyVars, parameterVars,
  bisectionVars, blockedVars, solveVars, fixedVars, loggingVars, configurationVars, subject>>
Prefix == machine = "prefix" /\ PrefixNext /\ UNCHANGED <<machine, scopesVars, storageVars, testTimingsVars, studyVars, parameterVars,
  bisectionVars, blockedVars, solveVars, fixedVars, loggingVars, configurationVars, subject>>
Storage == machine = "storage" /\ StorageNext /\ UNCHANGED <<machine, scopesVars, prefixVars, testTimingsVars, studyVars, parameterVars,
  bisectionVars, blockedVars, solveVars, fixedVars, loggingVars, configurationVars, subject>>
Tests == machine = "tests" /\ TestTimingsNext /\ UNCHANGED <<machine, scopesVars, prefixVars, storageVars, studyVars, parameterVars,
  bisectionVars, blockedVars, solveVars, fixedVars, loggingVars, configurationVars, subject>>
Study == machine = "study" /\ StudyNext /\ UNCHANGED <<machine, scopesVars, prefixVars, storageVars, testTimingsVars, parameterVars,
  bisectionVars, blockedVars, solveVars, fixedVars, loggingVars, configurationVars, subject>>
Parametric == machine = "parameter" /\ ParameterNext /\ UNCHANGED <<machine, scopesVars, prefixVars, storageVars, testTimingsVars, studyVars,
  bisectionVars, blockedVars, solveVars, fixedVars, loggingVars, configurationVars, subject>>
Bisect == machine = "bisection" /\ BisectionNext /\ UNCHANGED <<machine, scopesVars, prefixVars, storageVars, testTimingsVars, studyVars,
  parameterVars, blockedVars, solveVars, fixedVars, loggingVars, configurationVars, subject>>
BlockMatrix == machine = "blocks" /\ BlockedNext /\ UNCHANGED <<machine, scopesVars, prefixVars, storageVars, testTimingsVars, studyVars,
  parameterVars, bisectionVars, solveVars, fixedVars, loggingVars, configurationVars, subject>>
Solve == machine = "solve" /\ SolveNext /\ UNCHANGED <<machine, scopesVars, prefixVars, storageVars, testTimingsVars, studyVars,
  parameterVars, bisectionVars, blockedVars, fixedVars, loggingVars, configurationVars, subject>>
Fixed == machine = "fixed map" /\ FixedNext /\ UNCHANGED <<machine, scopesVars, prefixVars, storageVars, testTimingsVars, studyVars,
  parameterVars, bisectionVars, blockedVars, solveVars, loggingVars, configurationVars, subject>>
LogStreams == machine = "logging" /\ LoggingNext /\ UNCHANGED <<machine, scopesVars, prefixVars, storageVars, testTimingsVars, studyVars,
  parameterVars, bisectionVars, blockedVars, solveVars, fixedVars, configurationVars, subject>>
Configure == machine = "configuration" /\ ConfigurationNext /\ UNCHANGED <<machine, scopesVars, prefixVars, storageVars, testTimingsVars, studyVars,
  parameterVars, bisectionVars, blockedVars, solveVars, fixedVars, loggingVars, subject>>
Algorithms == machine = "algorithms" /\ PickSubject /\ UNCHANGED <<machine, scopesVars, prefixVars, storageVars, testTimingsVars, studyVars,
  parameterVars, bisectionVars, blockedVars, solveVars, fixedVars, loggingVars, configurationVars>>

MCNext == Scopes \/ Prefix \/ Storage \/ Tests \/ Study \/ Parametric \/ Bisect \/ BlockMatrix \/ Solve
            \/ Fixed \/ LogStreams \/ Configure \/ Algorithms

\* The loop of find_largest_by_bisection() goes on whenever it can.
MCSpec == MCInit /\ [][MCNext]_MCVars /\ WF_bisectionVars(Bisect)

\* A bisection with tolerances that two neighbours are within comes to an end.
BisectionEnds == machine = "bisection" => SearchEnds
===============================================================================
