----------------------------- MODULE TestTimings -----------------------------
(***************************************************************************)
(* do_timings() of distribute_testing.py: the times of compiles and test   *)
(* runs are kept in files from one run of the script to the next, while    *)
(* the tests of the repository come, go and move. A binary and the string  *)
(* of its tests have the same name here, and the time measured for a       *)
(* target is its name, so that one sees whose time it is. A run may end    *)
(* between any two steps, killed or by a build that fails.                 *)
(***************************************************************************)
EXTENDS Naturals, SequencesExt

CONSTANTS
  Suites,      \* the lists of binaries there may be, already cut by testlimit
  HeaderLibs   \* the set of header libraries, cut as well

ASSUME TestTimingsAssumption == Suites \subseteq Seq(STRING) /\ HeaderLibs \subseteq STRING

VARIABLES
  suite,       \* the binaries of this run
  step,        \* what the run does next
  compiles,    \* the variables of do_timings()
  testruns,
  compilesFile, testrunsFile, totalsFile,
  mixed,       \* ghost: some run found known tests in front of new ones
  torn         \* ghost: some run was interrupted while it wrote a file

testTimingsVars == <<suite, step, compiles, testruns, compilesFile, testrunsFile, totalsFile, mixed, torn>>
files == <<compilesFile, testrunsFile, totalsFile>>

\* A file is missing, truncated, or holds an object.
Missing == [state |-> "missing"]
Truncated == [state |-> "truncated"]
Holding(object) == [state |-> "complete", object |-> object]

Targets == Range(suite) \cup HeaderLibs

TestTimingsInit ==
  /\ suite \in Suites
  /\ step = "compile"
  /\ compiles = <<>> /\ testruns = <<>>
  /\ compilesFile = Missing /\ testrunsFile = Missing /\ totalsFile = Missing
  /\ mixed = FALSE /\ torn = FALSE

\* _load() gives the object, or the default if there is no file; a truncated
\* file raises an exception that nobody catches.
Loadable(file) == file.state # "truncated"
Loaded(file, default) == IF file.state = "complete" THEN file.object ELSE default

\* dict.update()
Update(dict, other) ==
  [t \in DOMAIN dict \cup DOMAIN other |-> IF t \in DOMAIN other THEN other[t] ELSE dict[t]]

\* Mutant: binaries that are gone keep their times.
UpdatedKeepsRemoved(known) == Update([t \in Targets |-> t], known)

\* Removed targets are forgotten and new ones compiled.
Updated(known) == [t \in Targets |-> IF t \in DOMAIN known THEN known[t] ELSE t]

\* Mutant: the file is opened before the build that may fail.
CompileOpensFirst ==
  /\ step = "compile"
  /\ Loadable(compilesFile)
  /\ compiles' = Updated(Loaded(compilesFile, <<>>))
  /\ compilesFile' = Truncated
  /\ step' = "dump compiles"
  /\ UNCHANGED <<suite, testruns, testrunsFile, totalsFile, mixed, torn>>

Compile ==
  /\ step = "compile"
  /\ Loadable(compilesFile)
  /\ compiles' = Updated(Loaded(compilesFile, <<>>))
  /\ step' = "dump compiles"
  /\ UNCHANGED <<suite, testruns, files, mixed, torn>>

\* _dump() truncates the file when it opens it and writes it then.
Dump(open, write, file, object, next) ==
  \/ step = open /\ file' = Truncated /\ step' = write
  \/ step = write /\ file' = Holding(object) /\ step' = next

DumpCompiles ==
  /\ Dump("dump compiles", "write compiles", compilesFile, compiles, "test")
  /\ UNCHANGED <<suite, compiles, testruns, testrunsFile, totalsFile, mixed, torn>>

\* Mutant: the times of the known tests are forgotten.
TimesOfNew(known, names) == [t \in Range(names) |-> t]

\* Mutant: the pool gives its results in any order.
TimesUnordered(known, names) ==
  Update([t \in DOMAIN known \cap Range(suite) |-> known[t]],
         [t \in Range(names) |-> Reverse(suite)[CHOOSE i \in DOMAIN names : names[i] = t]])

\* _redo(): the names of the new tests are zipped with the results for all.
TimesOf(known, names) ==
  LET old == [t \in DOMAIN known \cap Range(suite) |-> known[t]]
      results == suite
  IN  Update(old, [t \in Range(names) |-> results[CHOOSE i \in DOMAIN names : names[i] = t]])

\* The tests of the suite that are not among names, in their order.
NewTests(names) ==
  LET Upto[n \in 0 .. Len(suite)] ==
        IF n = 0 THEN <<>>
        ELSE IF suite[n] \in Range(names) THEN Upto[n - 1]
        ELSE Append(Upto[n - 1], suite[n])
  IN  Upto[Len(suite)]

Test ==
  /\ step = "test"
  /\ Loadable(testrunsFile)
  /\ LET loaded == Loaded(testrunsFile, <<<<>>, <<>>>>)
         new == NewTests(loaded[1])
     IN  IF loaded[1] = suite
         THEN testruns' = loaded[2] /\ mixed' = mixed
         ELSE /\ testruns' = TimesOf(loaded[2], new)
              /\ mixed' = (mixed \/ ~IsPrefix(new, suite))
  /\ step' = "dump testruns"
  /\ UNCHANGED <<suite, compiles, files, torn>>

DumpTestruns ==
  /\ Dump("dump testruns", "write testruns", testrunsFile, <<suite, testruns>>, "dump totals")
  /\ UNCHANGED <<suite, compiles, testruns, compilesFile, totalsFile, mixed, torn>>

\* The totals of a binary are the times of its compile and its tests.
Totals == [t \in Targets |->
  IF t \in Range(suite) THEN <<compiles[t], testruns[t]>> ELSE <<compiles[t]>>]

DumpTotals ==
  /\ Dump("dump totals", "write totals", totalsFile, Totals, "done")
  /\ UNCHANGED <<suite, compiles, testruns, compilesFile, testrunsFile, mixed, torn>>

\* The run is over, or interrupted at any step; the next has another suite.
Restart ==
  /\ step' = "compile"
  /\ suite' \in Suites
  /\ compiles' = <<>> /\ testruns' = <<>>
  /\ torn' = (torn \/ step \in {"write compiles", "write testruns", "write totals"})
  /\ UNCHANGED <<files, mixed>>

TestTimingsNext == Compile \/ DumpCompiles \/ Test \/ DumpTestruns \/ DumpTotals \/ Restart

TestTimingsSpec == TestTimingsInit /\ [][TestTimingsNext]_testTimingsVars

-----------------------------------------------------------------------------
TestTimingsTypeOK ==
  /\ suite \in Suites
  /\ \A i \in DOMAIN files : files[i].state \in {"missing", "truncated", "complete"}
  /\ step \in {"dump testruns", "write testruns", "dump totals", "write totals", "done"} =>
       Range(suite) \subseteq DOMAIN testruns
  /\ compilesFile.state = "complete" =>
       DOMAIN compilesFile.object \subseteq HeaderLibs \cup UNION {Range(s) : s \in Suites}

\* Whatever came, went and moved between the runs, a finished run leaves the
\* totals of exactly the binaries and header libraries there are, each with the
\* time of its own compile.
TotalsCoverTargets ==
  step = "done" =>
    /\ DOMAIN totalsFile.object = Targets
    /\ \A t \in Targets : totalsFile.object[t][1] = t
    /\ DOMAIN compilesFile.object = Targets

\* The time of a test is its own unless some run met known tests in front of new
\* ones: distribute_testing.py:141 runs all tests, :142 names the first results
\* after the new tests.
TestTimesBelong ==
  ~mixed => \A t \in DOMAIN testruns : testruns[t] = t

\* As long as no run is interrupted while it writes, every file can be loaded by
\* the next run, although builds fail and runs are killed between the steps.
FilesLoadable ==
  (~torn /\ step = "compile") => \A i \in DOMAIN files : Loadable(files[i])

\* What runs leave to the next ones is complete, belongs to the names it is under
\* and can be loaded, but for mixed tests and torn files.
TestTimingsInv == TestTimingsTypeOK /\ TotalsCoverTargets /\ TestTimesBelong /\ FilesLoadable
==============================================================================
