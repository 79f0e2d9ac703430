# A verification development for dune-xt-common

dune-xt-common is the utility layer of the DUNE extension modules: threads and
per-thread storage, timings, logging, configuration, parameters, storage
helpers, vectors and matrices, and a large number of small algorithms. This
development models

* what has state and is used by several **threads, ranks or nested scopes** at
  once: `ThreadManager` and the per-thread storage, `Timings`, `Logging` and
  `TimedLogging`, their buffers, the signal handler;
* the **classes with state** that one caller uses by itself: `Configuration`, the
  storage providers, `FixedMap`, the studies, the parametric interface, the
  block matrices, the solvers, the search by bisection, the test distribution;
* the **algorithms without state** in which boundaries, sizes, tolerances and
  conversions are easily got wrong.

All paths below are relative to `src/dune/xt/common/` unless they say otherwise.

To run a check: `tlc -config <run>.cfg <Module>.tla`; to check proofs:
`tlapm <Module>.tla` for each of the eight modules of section 4. `PROJECT.json` lists the runs, the mutants
of the code that show each property can fail, the source lines of every
definition, the hazards of the code, the findings and the theorems.

## 1. The system

| component | state it keeps | operations | talks to | hard behaviour | what makes it correct |
|---|---|---|---|---|---|
| `ThreadManager` (parallel/threadmanager.*) | static concurrent map id -> number, static atomic counter, `threading.max_count` in the configuration, `max_threads_` | `thread`, `max_threads`, `current_threads`, `set_max_threads` | Configuration, TBB | lookup, counter and emplace are three atomic steps with nothing around them; thread ids are recycled | numbers are distinct, dense, stable |
| `UnsafePerThreadValue` (parallel/threadstorage.hh) | a deque of values | constructors, `operator=`, access | `ThreadManager` | size read once, index unchecked | index in bounds, slots isolated |
| `PerThreadValue`, `EnumerableThreadSpecificWrapper` | TBB's container, or one value | access, iteration, `accumulate`, `sum` | TBB | lazily made slots that outlive their threads; `sum` while others add | every addition counted once |
| `ThreadResultPropagator` | a functor, its base, a mutex that is never locked | `copy_imp`, `finalize_imp` | walkers of other modules | read, reduce and set in three steps by many threads | every result counted once |
| `Timings` (timings.*) | `known_timers_map_`, `commited_deltas_`, `mutex_` | `start`, `stop`, `reset`, `delta`, `walltime` | per-thread storage, boost timers | only `start` locks; steps overlap with the clock and other threads | no time lost, none counted twice |
| `ScopedTiming`, `OutputScopedTiming` | the name of a section | constructor, destructor | `Timings` | nesting, recursion, two destructors | a section runs while its scope lasts |
| Timings output | - | `output_all_measures` | MPI | collectives matched by their order | the right ranks' times are combined; all ranks finish |
| `SuspendableStrBuffer` (logstreams.*) | flags (by reference), saved flags, priority | `suspend`, `resume`, writing | its stream's flags | suspending twice, priorities | silent while suspended, flags come back |
| `OstreamBuffer` | text, two mutexes | `xsputn`, `overflow`, `sync` | a stream behind | the mutexes do not exclude each other | in order, nothing lost |
| `TimedPrefixedStreamBuffer` | text, `prefix_needed_` | `sync` | `tokenize` of string.hh | lines cut by flushes | one prefix per line |
| `Logging` (logging.*) | `flagmap_`, `streammap_`, `streamIDs_`, `logfile_`, `logflags_` | `create`, `set_prefix`, `set_stream_flags`, `add_stream`, `flush`, `suspend`, `resume`, destructor | `LogStream`, `DualLogStream`, std::ofstream | set up again while streams hold text, are suspended, or the file is open | no accepted text is lost |
| `SuspendLocal`, `ResumeLocal` | a priority | constructor, destructor | `Logging` | nested by modules that do not know each other, with the default priority too | flags come back, every suspension ends |
| `TimedLogging`, `TimedLogManager` (timedlogging.*) | level, limits, `created_`, a mutex | `create`, `get`, destructor, copies | its managers | managers die in other threads while `get` decides | the level counts managers, limits hold |
| signals (signals.*) | the installed handler, the signal mask | install, reset, the example handler | the log streams | the handler logs in the thread it interrupts | the process ends |
| `Configuration` (configuration.*) | a tree of keys, report flags, log file | `set`, `get`, `add`, `sub`, `flatten`, copies, reports, reading files | Dune::ParameterTree, validators | partial merge on error; the log file follows some calls that change its keys and not others; prefixes of reports | merges add what they say, tree and log file stay together, reports read back |
| `Parameter`, `ParameterType`, `ParametricInterface` (parameter.*) | a dictionary key -> size or values | set, sum, comparison, parsing | functions and operators of the extension modules | "unspecified" matches all; tolerances; the key "" | types and parameters fit, order strict and total |
| `StorageProvider`, `ConstStorageProvider`, shared (memory.*) | a reference or an owned object | copy, move, assignment, access | most classes of the extension modules | assignment from an empty provider | one count per object, none gone while held |
| `FixedMap` (fixed_map.hh) | an array of pairs | construction, lookup, iterators | - | lists of another length | acts as a map of its first keys |
| `ConvergenceStudy`, `LocalizationStudy` | none of their own | `run` | the studied problem | order of the callbacks, missing data, layout of headers | called in order, table aligned |
| test distribution (src/python/scripts/distribute_testing.py) | two cache files | update of timings | ctest, ninja | new tests against an old cache; interruption | times belong to their tests |
| `find_largest_by_bisection` (bisect.hh) | an interval | the search | a condition | neighbours with nothing in between | finds the boundary, ends |
| comparisons (float_cmp*, vector_less.hh, validation.hh) | none | six relations in four styles, orders, validators | `Configuration::get`, maps | relative tolerances are not symmetric, closeness not transitive | relations fit together |
| string conversion (string*.hh) | none | `from_string`, `to_string`, `tokenize` | `Configuration::get` | sizes asked for, found and static differ | what is written is read back |
| vectors and matrices (fvector.hh, fmatrix.hh, vector.hh, matrix.hh) | entries, blocks | construction, conversion, products, LU, solve | everything numerical | sizes checked in debug builds only; row swaps; zero outside of blocks | sizes kept, blocks behave as a dense matrix |
| backends (lapacke.*, cblas.*, mkl.*) | none | forwarding | LAPACK, BLAS, MKL | which build has what; failed solves | what `available()` says holds |
| numbers, ranges, tuples (math.hh, ranges.hh, misc.hh, tuple.hh, numeric_cast.hh) | none | pure functions, lists of types | - | ends, signs, truncation | what the doc comments say |
| filesystem, MPI adaptors, exceptions, random values, printing, colours, coordinates, bindings, scripts | none | forwarding, text | libraries | - | section 5 |

How they interact: `ThreadManager` numbers threads for `UnsafePerThreadValue`;
`Timings` keeps a per-thread timer in one of those; `ScopedTiming`s call the
singleton `Timings`; `Logging`, `TimedLogging` and `Timings` are singletons
shared by everything in a program; the signal handler logs. `Configuration`
converts with string_internal.hh and validates with validation.hh, which
compares with float_cmp.hh; `Parameter`s add up with tolerances of the same; the
block matrices decide with them what is zero. The only locks are the ones named
above.

## 2. The models

A comment before each definition names what it stands for. An operation that
other threads can observe half done is a sequence of actions with a program
counter per thread; one that they cannot is a single action. A function without
state is an operator. Operators described as bugs stand for plausible ones, and
no specification uses them.

| module | models | granularity |
|---|---|---|
| `ThreadManager` | threadmanager.cc (TBB build) | lookup / `map_size++` / emplace, each atomic; threads start, exit, and ids come back |
| `ThreadNumbering` | the promise of `thread()`: a dense numbering that only grows | one step per new number |
| `UnsafePerThreadValue` | the container, on top of `ThreadManager` (EXTENDS, joint next-state relation) | `thread()` as above, then one access |
| `PerThreadValue` | both builds: slots made on first access, or one value | read / write back apart; `sum` is one step, although the code goes from slot to slot |
| `ThreadResultPropagator` | copies of a functor and `finalize_imp` | read+reduce / set |
| `Timings` | start, stop, reset, stop all, reset all, with the clock | one step per access to a map or to the clock; `start` between lock and unlock |
| `ScopedTimings` | constructors and destructors of the two scope classes, over `Timings` | destructor of the derived class and of the base apart |
| `TimingsOutput` | the six collectives per section, on all ranks | entering and completing a collective |
| `SuspendableBuffer` | suspend and resume, as operators on a buffer (a record) | - |
| `SuspendScopes` | SuspendLocal and ResumeLocal over one stream | one action per constructor or destructor |
| `Logging` | logging.cc with LogStream, DualLogStream and the ofstream | one action per member function (Logging is used by one thread at a time) |
| `OstreamBuffer` | the buffer under its two mutexes | `out_ << str()` / `str("")` apart |
| `TimedPrefix` | `sync()` and `tokenize` | one flush |
| `TimedLogging` | `create`, `get` with the two decisions of the constructor, destructor, copy | one step per read of the level |
| `Signals` | a thread that logs, the signal and the handler that logs in it | one step per lock, signal and return |
| `Configuration` | the tree as a function from paths to values; constructors, copies and `operator=`, and all other calls | one step per key that `add_tree_` sets, one per other call |
| `ConfigurationReport` | the four kinds of report as lines, and the reader of ini files | operators |
| `Parameter` | types: union, extension of a function's type, `parse_parameter` | one action per part added |
| `ParameterValues` | dictionaries with values: pairs, `set`, sums, order | operators |
| `StorageProvider` | the three kinds of provider over objects and the counts of their owners | one action per constructor, assignment, destructor |
| `FixedMap` | the array, its iterators and lookups | one action per call |
| `ConvergenceStudy` | `run()`: levels, columns, ends of lines, the widths of header and rows, the loop that wraps a header | one action per call of the study |
| `LocalizationStudy` | what `run()` takes, prints and computes | operators |
| `TestTimings` | `do_timings()` with its files | one action per target and per file; a run may end between any two |
| `Bisection` | the loop of bisect.hh | bounds / one halving / end |
| `BlockedMatrix` | `BlockedFieldMatrix` and its vector | one action per member function |
| `DenseEntries` | the promise of a matrix of blocks: an ordinary matrix with zeros outside | one step per operation |
| `DenseSolve` | LU decomposition, determinant, inverse, solve of `FieldMatrix`, over a finite field | one turn of an outer loop |
| `FloatComparison` | float_cmp_internal.hh, validation.hh, vector_less.hh | operators |
| `StringConversion` | string_internal.hh | operators on sequences of symbols |
| `Containers` | matrix.hh, vector.hh; the classes behind the abstractions, fmatrix.hh, fvector.hh, in debug and release builds | operators |
| `Backends` | lapacke.cc, cblas.cc, mkl.cc for each build | operators |
| `Arithmetic` | math.hh, ranges.hh, misc.hh, tuple.hh | operators |
| `MCConcurrent`, `MCMachines`, `MCAlgorithms` | the instances TLC checks; `Timings`, `ScopedTimings` and, for violations, `Logging` and `SuspendScopes` are checked as they are | |
| `*Proofs` | the theorems (section 4) | |

Correspondence of state: variables carry the names of the members where there is
one (`thread_ids`, `map_size`, `commited`, `current_level_`, `logflags_`,
`parameter_type_`, `backend_`, `map_`, ...). Variables that the code does not
have are marked as being for the properties: `expected` in
`UnsafePerThreadValue`; `open`, `busy`, `span` and `matched` in `Timings`; `overruled`
(of a scope) and `tame` in `SuspendScopes`; `cut` in
`ScopedTimings`; `applied`, `seed` and `met` in `ThreadResultPropagator`; `met`
in `OstreamBuffer`; `uncounted` in `TimedLogging`; `due`, `accepted` and `wanted`
in `Logging`; `synced` in `TimedPrefix`; `call` and `before` in `Configuration`;
`keyed` in `FixedMap`; `parts` in `Parameter`.

Where the code relies on its callers, a model lets the program do what it likes
wherever that is possible and records in such a variable whether it did: `met`
that two calls overlapped, `cut` that an inner scope of the same name or a reset
stopped a section, `uncounted` how many managers were copied or are older than
`create()`, `matched` that a program only stops what runs, `tame` that priorities were not
negative and a `ResumeLocal` was inside a `SuspendLocal`. The properties then
say what holds in either case. Where they cannot, the assumption is named:
`Warm` in `Timings` (one thread uses every section before the others start),
`Careful` in `Logging` (set up again only when nothing is pending and with a
fresh file; flags not touched while suspended), paths of which none is a prefix of
another in `Configuration` (no key has the name of a section), one owner per raw
pointer in `StorageProvider` (as its documentation asks), lists that are not empty in
`FixedMap` (the constructor takes `*list.begin()`).

Abstractions. Texts and values are numbers, widths or members of small sets,
except in `StringConversion`, whose subject is texts. Log flags are sets of flags, not
bit masks: the bits are never computed with beyond and/or. Time is a counter.
The two buffers of a `DualLogStream` accept and write the same texts and are one.
All slots of the `UnsafePerThreadValue<TimingData>` in `Timings` share one timer,
because the assignment to it copies a shared pointer. Floating point numbers are
integers where the control depends on comparisons and not on rounding, the grid
of representable numbers in `Bisection`, and residues modulo a prime in
`DenseSolve`, where all of the algorithm's divisions are exact; rounding and the
thresholds for singular pivots are outside these models. Where the code has a
data race (the maps of `Timings`, the string buffer), the models state when it
happens (`MapsNotRaced`) or that the single accesses are atomic
(`OstreamBuffer`), and do not guess its outcome.

## 3. The runs

| run | module | instance | shows |
|---|---|---|---|
| `timings` | `Timings` | 2 threads with a section each, clock to 2 | `TimingsInv`: the unlocked stop() meets no insertion if the sections are known and have a committed time already, and the time reported is at least the time a section was open, in any order of calls; `NoTimeAdded`: it is at most the time it was in use since its last reset, when only running sections are stopped |
| `scopes` | `ScopedTimings` | 1 thread, 2 sections, scopes of both kinds 3 deep | the sections of the entered scopes run and only those, up to `cut`; no time lost |
| `concurrent` | `MCConcurrent` | seven machines, below | what threads and ranks share |
| `machines` | `MCMachines` | thirteen machines, below | what one caller uses by itself, and what has no state |

`concurrent` and `machines` check several classes in one run. The classes do not use each
other; a behaviour chooses one of them at the start and is a behaviour of that one
alone, while the variables of the others keep one initial value.

| run, machine | instance | properties |
|---|---|---|
| concurrent, threads | 3 ids, all alive at once; 2 or 3 slots, 2 values | `DistinctNumbers`, `NumberingRefines`, `ThreadReturns`: the numbering is dense and distinct although nothing is locked, `thread()` is atomic (refines `ThreadNumbering`) and a first call returns; `InBounds`: indices are in bounds as long as no more ids than slots were ever numbered, in-flight numbers included; `Isolation`: no thread sees another's value |
| concurrent, propagator | 3 copies, work up to 4 | `ResultsReachBase`: calls of `finalize_imp` that do not overlap lose nothing and count everything once, overlapping ones count nothing twice and invent nothing |
| concurrent, output | 3 ranks, every choice of subsets of 3 sections | `OutputInv`: sums and maxima are those of the section printed if the ranks have the same; `RanksPrint`: with equally many no rank is left waiting |
| concurrent, buffer | 3 threads, 6 texts | `InOrder`, `OnlyMetAreLost`: never twice, never out of order; what is missing was written during a sync() |
| concurrent, managers | 3 managers, limits -1, 0, 1, 3 copies | `LevelCountsManagers` in any interleaving, up to `uncounted`; `EnabledWithinLimits` |
| concurrent, value | 3 threads, initial value 0 or 2, 4 additions, with TBB and without; `sum()` between any two steps of the others | `SumCountsEveryAdd`: every addition is in `sum()`, and the initial value once per thread that has looked at its value |
| concurrent, signals | 1 thread, 2 locks, the info stream on or off | `SignalTerminates`: the process ends, but for a signal that interrupts a holder of the lock the handler needs |
| machines, scopes | priorities -1 to 2 in any order, 4 deep | `ScopesInv`: the flags come back as they were; inside a `SuspendLocal` nothing is logged until something resumes with its priority or more, be it the end of an inner `SuspendLocal`; under `tame` use every suspension ends |
| machines, logging | 1 standard stream, 1 added, 2 flag sets, 2 files, 2 texts, priorities 0 and 1; `Careful` | `LoggingInv`, `NoLoss`: no text lost, files complete, flags restored |
| machines, configuration | 5 keys above, in and below one section, 6 inputs, 1 section to add below, other configurations made of any two inputs to copy | `MergesAreSound`: a failed merge leaves an initial segment of the keys set, no key is lost, options win, and a log file other than the default comes with the two keys that name it; `ReadsAreSound`: `get` returns what is there and valid, `<` is a strict order; `ReportReadsBack`: every kind of report is read back as the tree |
| machines, prefix | all texts of up to 8 characters cut anywhere | `EveryLinePrefixed` |
| machines, storage | 2 providers, 2 shared ones, 2 objects on the heap and 1 on the stack | `OwnersInv`: counts are those of the owners, nothing held is gone, invalid only if moved from |
| machines, tests | 4 suites of 3 tests, one binary from a library of headers; interruption anywhere | `TestTimingsInv`: files can be loaded, totals cover the targets, and times stay with their tests up to the reruns the property names |
| machines, study | with and without targets, norms, quantities, filters, missing and zero values; 0 and 2 refinements | `StudyInv`: calls in order, result complete, rates only from data, header aligned and rows as wide as the header (if the infos have a title) |
| machines, parameter | 2 keys and "unspecified", 2 sizes, 3 parts | `ParameterInv`: the type of a function is the union of its parts, and each part accepts what `parse_parameter` returns |
| machines, bisection | all conditions on 5 numbers, 9 pairs of bounds in both orders, 4 pairs of tolerances | `FoundIsRight`, `BisectionEnds` |
| machines, solve | all matrices with rows from a set, 1 to 4 rows, modulo 3; determinant, inverse, solution | `SolveInv`: the results are right whatever rows were swapped; singular matrices are found (closed formulas up to 3 rows, the loop for 4) |
| machines, blocks | 2 blocks of 1 by 2, entries -1 to 1, tolerance 1 | `BlocksAreDense`: refines `DenseEntries`, and multiplies like it |
| machines, fixed map | 2 entries, 3 keys, lists of up to 3 | `FixedMapInv`: acts as a map given the same calls, `find` agrees with it |

The thirteenth machine of `machines`, algorithms, picks a subject in its only step; each
property speaks of the subjects it applies to:

| property | subjects |
|---|---|
| `ComparisonsFit` | all pairs of numbers, complex numbers, vectors and matrices of small integers, also of different shapes, with the tolerances of all four styles |
| `OrdersAreTotal` | intervals for the validator, triples of vectors for both orders, triples of parameters, triples of numbers for clamp, minmod and maxmod, sequences for MinMaxAvg |
| `TextsReadBack` | all texts of up to 5 symbols in brackets or 3 without, with the sizes asked for and static ones; complex numbers with both signs and exponents |
| `MatricesFit` | matrices up to 2 by 3, vectors up to 3, with unsigned and signed scalars; products, transposes, cross products, mv with every combination of sizes |
| `SizesFit` | every class of matrices and vectors in debug and release builds with sizes that fit and do not, and initializer lists; nothing is claimed of sizes a class takes in release builds without looking |
| `LibrariesFit` | builds with and without MKL and LAPACKE, memory with failed entries, every layout and leading dimension |
| `ListsAreComplete` | rows of a study; sums of parameters; dictionaries of pairs; lists of indices and types; ranges in both directions |

Eight runs check a statement of the repository that the code does not keep; TLC
finds each violated (quoted under "findings" in `PROJECT.json`):

| run | module | what happens |
|---|---|---|
| `timings_reset` | `Timings` | after `reset()` a section that was stopped has no committed time, and `walltime()` reports its stopped timer's: the time of before |
| `scopes_output_twice` | `ScopedTimings` | `~OutputScopedTiming` and `~ScopedTiming` both stop the section, whose time is committed twice |
| `logging_recreate_lost` | `Logging` | `create()` replaces the flags before the old streams flush, and texts are dropped |
| `logging_suspended` | `Logging` | `set_stream_flags()` on a suspended stream makes it accept text |
| `scopes_nested` | `SuspendScopes` | the end of a `SuspendLocal` inside another of the same priority ends the suspension of both |
| `study_overrun` | `MCMachines` | the loop over the words of a header skips the word after each it erases, and its iterator passes the end |
| `study_columns` | `MCAlgorithms` | names that miss an odd number of characters overfill the first column of a `LocalizationStudy`, which its assertion excludes |
| `wraparound` | `MCAlgorithms` | the int subscripts N and -1 of a `WraparoundArray` are not those of the example in its documentation |

Other places where the models follow the code and a comment, a name or a test
says something else, or more than the code does. The properties above state
what does hold there.

Threads, timings, logging:

* Numbers are never returned, so with a turnover of threads `thread()` reaches
  `current_threads()` and more (test/parallel.cc:114 expects less). `InBounds` is
  conditional on the numbers taken.
* Two overlapping `finalize_imp` calls lose a result; the member `mutex_` is there
  and not locked (`met` in `ThreadResultPropagator`).
* A TBB value belongs to the id of a thread; `sum()` has the initial value once per
  thread that has looked, so a test that multiplies by the number of threads relies
  on each having looked (`SumCountsEveryAdd`).
* Two threads that use one section: a `start()` between the mark and the timer of a
  `stop()` destroys the timer the latter refers to (timings.cc:112). The steps are in
  `Timings`, but the runs and theorems exclude a second user.
* Leaving an inner scope ends the timing of an outer one of the same name (`cut`).
* Ranks with different sections combine times of different sections, and with
  unequally many wait for each other (`SameSections` in `TimingsOutput`).
* Suspending a suspended stream raises its priority, where logstreams.hh:59
  says "no-op if already suspended"; a nested `SuspendLocal` of the same priority or a
  higher one ends an outer suspension with itself (`overruled` in `SuspendScopes`, and
  the run `scopes_nested`).
* A second `create()` with LOG_FILE opens the open ofstream: it fails, and the
  file gets nothing more. `Careful` excludes this, and setting the flags of a suspended
  stream, from the run `machines`; `logging_suspended` and `logging_recreate_lost` are
  without it.
* A text written between `out_ << str()` and `str("")` disappears (`met` in
  `OstreamBuffer`).
* A copied manager is counted by its destructor only, and `create()` restarts the
  count while managers exist (`uncounted` in `TimedLogging`). A second `create()`
  throws logger_error where the documentation names another exception.
* The example signal handler waits forever for a lock that the thread it interrupts
  holds (`WaitsForItself` in `Signals`).

Configuration, parameters, maps, studies:

* `add_tree_` leaves the keys before the conflict set; `set_logfile` checks its
  argument and stores nothing (`AddsInitialSegment`, `SetLogfile`). The log file is moved by
  `setup_()`, which constructors and `read_command_line` call, and by `operator=`, and by
  no other call that changes the keys it is named by (`LogfileHasDirectories`).
* Sums of parameters agree up to a tolerance, so three of them may be added in one
  order and not in another; constructors take the key "" that `set()` refuses, and
  `type()` throws then (`SumsKeepTypes`).
* The rerun of tests in distribute_testing.py pairs times with other names
  (`TestTimesBelong`); `ConvergenceStudy` returns all `compute()` gave, filtered or not,
  and with an empty title for the infos its rows are longer than its header (`RowStart`).

Vectors, matrices, numbers:

* `BlockedFieldMatrix::add_to_entry` with a zero outside of the blocks adds it inside
  one (up to the tolerance, `BlocksAreDense`); the matrix type of its
  abstraction keeps the shape of the blocks when transposed (fmatrix.hh:874).
* `mv` in matrix.hh:370 compares the number of rows twice, so it refuses matrices
  that are not square (`SquareMvMultiplies`).
* Sizes that do not fit are refused by assertions, in debug builds only
  (`ConversionsKeep`, `ListsFill`); test/fmatrix.cc:38-41 expects exceptions in release
  builds, where fmatrix.hh:61 has none. `data()` of a dynamic matrix reaches its first row;
  `static_size` in vector.hh:172 and 233 is a bool.
* cblas.cc looks at the first m numbers of a solution, in debug builds
  (`FailuresReported`).
* `value_range` leaves out the last incomplete step, where ranges.hh:28 has
  [start : increment : end) (`RangeIsHalfOpen` allows that and no more); the message of
  `ValidateLess` contradicts its check; `maxmod(0, 5)` is 5 and `maxmod(0, -5)` is 0;
  complex numbers with exponents or negative imaginary parts may be read wrongly
  (`ComplexReadsBack`); `TUPLE_TYPEDEFS_2_TUPLE` keeps nine types of any longer list.
* Code that no instantiation compiles is not modelled: the constructors of
  memory.hh:97, 176 and 294 for lvalues, `convert_to` in vector.hh with
  DXT_DISABLE_CHECKS, `serialize` there, `make_field_container_ptr`
  (fmatrix.hh:946, fvector.hh:486).

Bounds and why they suffice. Three threads are enough for one inside each of the
three steps of `thread()`; the numbering, level and buffer properties are
proved for any number besides. Two sections suffice for `Timings`: sections
share nothing but the maps and the lock, and the loops over all sections need
one behind and one ahead. `MaxClock` and `MaxTotal` bound only time; 2 ticks
already distinguish running, stopped, restarted and doubly counted time. Three
scopes are one inside another of the same name inside one of another name.
`Logging` needs two texts (one pending while another is written), two streams
(one muted, one not; one of them added), and two files (the one open and a new one).
Four scopes are a suspension inside another, resumed and suspended again inside; the
priorities are below, at and above the default. In `TimedLogging` the limits
-1, 0, 1 are below, at and above the first manager's level. Two providers and
two shared ones give every pair for copy, move and self assignment, and two heap
objects one to take and one to lose. Five keys are one above, three in and one
below sections, so that a report has and has not a common prefix, and merges meet
keys that exist first, later and not at all. Bisection over five numbers has intervals that halve
twice, and any condition at all. Four rows are the first size for which
`FieldMatrix` decomposes instead of using a formula. Two blocks that are not square
tell rows from columns and one block from the other. Deadlock checking is off where
the program really ends: all copies finalized, all ranks printed, the process
ended, a study, a search or a solver done, `Logging` destroyed, a subject picked.
Everywhere else TLC checks it.

Fairness. `ThreadManager`: weak fairness of `Claim` and `Emplace` of each
thread; there is no lock inside `thread()`, and an operating system schedules a
runnable thread eventually. Nothing is assumed of calls being made.
`TimingsOutput`: weak fairness of each rank's next collective and of the
completion of a collective all ranks have called, which is MPI's progress
guarantee. `Signals`: weak fairness of delivery and of the handler's steps, which is
what an operating system does with a pending signal; the interrupted thread owes
nothing, it does not run while the handler does. `Bisection`: weak fairness of its
loop. No other module states a liveness property.

## 4. The theorems

TLAPS checks them for every value of the constants that the named assumptions
admit; TLC evaluates these for the instances. 30 of the 40 properties of
the passing runs are theorems. A module of proofs is about one subject or about several that
need the same lemmas:

| module | theorem | property | for any |
|---|---|---|---|
| `UnsafePerThreadValueProofs` | `NumberingCorrect`, `NumbersAreStable` | `NumberingInv`, `NumberStable` | ids, limits, history of threads |
| | `NumbersAreDistinct`, `ThreadRefinesNumbering` | `DistinctNumbers`, `NumberingRefines` | |
| | `IndexInBounds`, `SlotsAreIsolated` | `InBounds`, `Isolation` | size of the container |
| `TimingsProofs` | `NoTimeIsLost`, `NoTimeIsAdded` | `TimingsInv`, `NoTimeAdded` | sections, threads, time; `Disciplined` |
| `ScopedTimingsProofs` | `ScopesKeepTime` | `ScopedInv` | sections, depth |
| `LoggingProofs` | `FilesAreComplete`, `NoTextIsLost` | `LoggingInv`, `NoLoss` | streams, flags, priorities, files, texts; `Careful` |
| `ConfigurationProofs` | `MergesKeepKeys`, `ReadsAreValid` | `MergesAreSound`, `ReadsAreSound` | paths, values, trees |
| `ConcurrentProofs` | `WrittenInOrder`, `TextsAreKept` | `InOrder`, `OnlyMetAreLost` | threads, texts |
| | `LevelIsCount`, `LimitsRespected` | `LevelCountsManagers`, `EnabledWithinLimits` | managers, limits, copies |
| | `ResultsAreHandedOver` | `ResultsReachBase` | copies, results, overlaps |
| | `EveryAddCounts` | `SumCountsEveryAdd` | threads, initial values, builds |
| | `RanksCombineTheSame` | `OutputInv` | ranks, sections, times |
| `MachinesProofs` | `FoundIsCorrect` | `FoundIsRight` | numbers, conditions, tolerances |
| | `FixedMapIsAMap` | `FixedMapInv` | entries, lists, keys, values |
| | `PartsFormTheType` | `ParameterInv` | keys, sizes, parts |
| | `OwnersAreCounted` | `OwnersInv` | providers, objects, pointers held |
| | `ScopesNest` | `ScopesInv` | priorities, depth |
| | `RunsLeaveTotals` | `TestTimingsInv` | suites, libraries, interruptions |
| | `BlocksAreADenseMatrix` | `BlocksAreDense` | number and sizes of blocks, entries, tolerance |
| | `LinesArePrefixed` | `EveryLinePrefixed` | texts, flushes |
| | `StudiesAreComplete` | `StudyInv` | levels, targets, norms, quantities, filters, data, widths |
| `AlgorithmsProofs` | `ComparisonsAlwaysFit` | `ComparisonsFit` | instance of `MCAlgorithms` |
| | `OrdersAlwaysTotal` | `OrdersAreTotal` | instance of `MCAlgorithms` |
| | `MatricesAlwaysFit` | `MatricesFit` | instance of `MCAlgorithms` |
| | `RelationsAlwaysFit`, `NumbersAreOrdered`, `ExchangeAlwaysMirrors` | what `ComparisonsFit` rests on | styles, shapes, numbers, tolerances |
| | `IntervalsAreClosed`, `VectorsAreOrdered`, `ChoicesAreOrdered`, `AveragesAreInside`, `ParametersAreOrdered` | what `OrdersAreTotal` rests on | numbers, vectors, sequences and dictionaries of any length |
| | `SerializationsAlwaysAgree`, `TransposingReverses`, `SquareMvAlwaysMultiplies`, `CrossIsAlwaysOrthogonal`, `ProductsAlwaysAgree`, `ComplexAlwaysMultiply` | what `MatricesFit` rests on | matrices and vectors of any size, integers |

The inputs of `MCAlgorithms` are definitions of that module and not constants, so
the three theorems about its properties say no more than that those inputs are among the
ones for which the fourteen general theorems below them hold; the fourteen are the results.

**Assumptions and hypotheses.** Constants are assumed to be of the right kind:
numbers are naturals or integers, values that stand for "nothing" (`None`,
`NoMap`, `NoObject`, `Nobody`) are none of the others, bounds are naturals. Sets whose
members are counted or summed are finite (threads of `PerThreadValue`, copies,
ranks, managers, providers, keys), as they are in a process. Six assume more:

* `TimingsAssumption`: there is a section. `ScopesAssumption` of `ScopedTimings`: the
  scopes are those of one thread; they are objects on its stack.
* `FixedAssumption`: the array has an entry and lists are not empty, because the
  constructor reads `*list.begin()`.
* `ConfigurationAssumption`: paths are sequences of strings that are not empty, none is
  another's prefix (the leaves of a tree), `PathOrder` has each once, and
  each takes its own values; `DATA_DIR` and the log directory are different keys.
* `TestTimingsAssumption`: suites are sequences of strings, libraries strings.
* `BlockedMatrixAssumption`: there is a block, and blocks have rows and columns.
* `StudiesAssumption`: a study gives, for each level, pairs of what is asked and a name;
  widths are naturals.

Two modules have theorems with a hypothesis on the program, the same as that of
their runs. `Disciplined`: there is one thread, or one thread has used all sections before
the others start and each section has one user. The class has per-thread timers
but only `start()` locks: without it an insertion by `start()` meets a lookup of
`stop()`. `Careful`: streams are set up again when they are not suspended and have nothing
pending, with a file that was not used, and their flags are not set while they are
suspended; without it `NoLoss` is false (`logging_recreate_lost`). Both are satisfied by the instances TLC runs, and by
programs that call `create()` once and time one section per thread.

**Arguments.** No property here is inductive by itself, but for `InBounds` and what
follows from other theorems. Most of the invariants were
checked with TLC on the instances of section 3 before they were proved.

*Numbering.* `NumberingInv`: committed entries and numbers in flight (`Numbering`)
together are 0 .. map_size-1, each once. Distinctness of the returned numbers
says nothing of numbers between `map_size++` and the emplace. It is split into what a
program counter promises (`PcInv`) and the dense numbering (`DenseInv`). Every
behaviour of the storage is one of the manager (`ContainsManager`), so its theorems
carry over; `IsolationInv` adds that a thread with a value has a stable number inside
the container.

*Timings.* `TimingsIndInv` has four parts: `Shape` (types; timers end after they begin),
`Protocol` (which function a label belongs to), `OwnWork` (who is inside a function
while others are) and `Balance`: the time a section was open is committed, in its timer
or in the local of the thread that is about to commit it. Each step moves time from one
to the next. For the other direction, `NoTimeAdded`, four more parts: a timer runs exactly
if its flag is set, except between the two, and a loop over all has stopped the sections
behind it (`TimersFollow`, `LoopOf`); a section that is on is in use (`Attended`); what
a section has committed and what its timer or the local of a `stop()` holds (`Total`) is at most its
`span` (`Within`). No step adds more to `Total` than to `span`, and when nobody is
inside a function `Total` is what `delta()` shows (`ReportedIsShown`).
`ScopedTimings` is a program over `Timings` with one thread, so its
invariant is that of `Timings`, and `ScopesFollow`: the sections that run are those of
the scopes entered and not `cut`, whichever destructor is running.

*Logging.* `LoggingIndInv`: a text that was accepted is in its stream, on the console and in the
file, or pending (`TextsKept`); the file is open under its name while it is
logged to (`FileOpen`); a suspended buffer has saved the flags it was given last
(`FlagsKept`).

*Configuration.* `MergeIndInv`: while `add()` runs, the tree is the one before with the
first n of the other's keys set, and without overwrite none of them existed
(`Progress`), and those the other had win (`OptionsWin`). Every call, copies and
`operator=` included, keeps the log file with the keys that name it
(`LogfileHasDirectories`). The keys of a flattened tree are all of its keys, each once; since `Flat`
collects them in a recursive function, this is proved by induction over the number of
paths. `<` is the lexicographic order of sorted lists of pairs (`LexLess`):
irreflexive, transitive and total, because the list determines the tree.

*OstreamBuffer.* `Ordered`: stream and buffer are increasing and, while nobody is
inside `sync()`, the stream is behind the buffer; between the halves of `sync()` that is
false. `Kept`: which texts both hold together in either half.

*TimedLogging.* The level is the number of managers minus one minus those it has missed,
by cardinalities of sets that gain or lose a member. A limit compares with the level
at that moment; a manager that disappears between the decisions lowers
both, one that is copied raises both.

*Sums.* Three theorems are about sums over sets of any size. `SumOf` is a
recursive function over subsets; that it exists, and changes with one summand, is shown for the
least subset for which it would fail (`LeastSubset`). `PropagatorIndInv`:
base and copies in flight hold the sums of sets of final copies,
and without overlap of all. `PerThreadIndInv`: the values add up to what was
added and one initial value each (`Counted`), and what a thread has read is
still there, unless two share a value. `OutputIndInv`: ranks are at
the same collective, and with equal sections at the same section.

*Bisection.* What is found says nothing of the loop; `Bracket` does: the
left end fulfils the condition, the right one does not, and they stay in order
whichever way the middle is rounded.

*FixedMap.* `FixedIndInv`: for each key of an entry, the map that was given the
same calls has the value of the first such entry. Repeated entries behind the end of a short
list do not disturb that.

*Parameter.* `ParameterIndInv`: the type holds each part, and no key that is in none.

*StorageProvider.* `CountInv`: the count of an object is the number of
providers, shared providers and pointers that own it, and it is alive exactly if that is
positive. One lemma (`ExchangeCounts`) serves all assignments, those to itself included.

*SuspendScopes.* `ScopesIndInv`: the flags are away while the buffer is suspended and the
original ones otherwise (`Kept`); a suspension that nothing overruled holds, with its
priority or a higher one (`HoldsOn`); under `tame` use the stack is one of such use
(`TameStack`), and some `SuspendLocal` on it has priority enough to resume what is suspended
(`WillResume`).

*TestTimings.* `TestsIndInv`: a file that is not torn holds the times of
what it lists (`FilesOK`), and what a run has computed belongs to its suite
(`RunOK`). With the new tests in front, the results of all tests and the names of
the new ones are zipped rightly; that is what `mixed` records.

*BlockedMatrix.* A row is a block and a row in it (`/` and `%`, unique), so what
`get_entry()` shows after each call is what `DenseEntries` has after its step. A product over all
columns is the one over the columns of the block, because sums with zero summands in front
and behind do not change; adding matrices and the tolerance are entry by entry.

*TimedPrefix.* `prefix_needed_` is set exactly at the start of a line, and the stream shows the
texts written up to the last flush with a prefix per line (`Prefixed`). What `sync()`
writes of a stretch follows by induction over its characters, cut at the end of lines as
`tokenize` does.

*ConvergenceStudy.* `StudyIInv`: where the next column starts (`RowIInv`); the rows above are
complete (`RowsAbove`); data and calls are those up to this level and column (`DataUpTo`,
`CallsUpTo`); what a rate needs was given before (`GivenBefore`). A row starts where its
title ends (`RowStart`), and the width of a line is a sum that its columns share out.

*Comparisons.* A vector is within the tolerance if each component is, so the relations of
vectors follow from those of numbers. An order of sequences is decided by the
first difference (`CountingUp` finds it); the order of parameters compares their keys in
ascending order first, and that enumeration determines the set of keys. An average is
between the extremes because partial sums are between multiples of them.

*Matrices.* The sums the loops compute (`Total`) are a recursive function of the number of
summands; that it exists is shown by counting up. It is linear, and that of vectors
beside each other is the sum of theirs. An entry of a product is the total of the
products along a row and a column (`Terms`), so transposes, products of stacked vectors
and blocks and those of real and imaginary parts agree if their terms do. The
running index of `serialize_rowwise` is a row and a column, uniquely (`/` and `%`).

**Only model-checked.**

* Liveness, which the prover does not do: `ThreadReturns`, `RanksPrint`,
  `SignalTerminates`, `BisectionEnds`.
* What is computed by RECURSIVE operators or by folds over data, for which
  the library's induction theorems cannot be used: `ReportReadsBack` (the reader of
  ini files) and `SolveInv` (Laplace expansion, elimination).
* `TextsReadBack`, `SizesFit`, `LibrariesFit` and `ListsAreComplete` of `MCAlgorithms`:
  functions without state over inputs of many kinds, written with folds over texts, rows
  and lists.
* What the eight runs of violations show: that a statement is false needs one instance.

## 5. Not modelled

What has no control to get wrong: filesystem.* (calls of the operating system),
exceptions.* (types and messages), coordinates.hh and vector_statistics.hh
(formulas over floating point numbers), random.hh, print.hh, color.*, the type
traits and other compile time machinery, the MPI adaptors in parallel/, the
Python bindings and the scripts that generate code or print tables. Of modelled
components: the build without TBB of `ThreadManager` (one thread, number 0),
`Logging::devnull`, the construction of log file names and of csv lines, the
rendered elapsed time, the debug messages of `EnableDebugLoggingForCtors`, the
binning of distribute_testing.py, number formatting, rounding and thresholds of
the solvers, elementwise operations that vectors and matrices forward to
dune-common, and sparsity patterns.

Known hazards that no property is about:

* timings.cc:112: two users of one section. The reference a `stop()` holds is to a
  destroyed timer, whose use is undefined.
* configuration.cc:115: `set_logfile()` stores nothing. The header says nothing of the call.
* logging.cc:104: references from `get_stream()` dangle after `create()` and
  `set_prefix()`. The model names streams by id, so it has no references.
* logging.cc:29: `devnull()` shares `logflags_`, so suspending it changes the flags
  `set_prefix()` creates streams with.
* logging.cc:69: `create()` leaves the streams of `add_stream()` with flags without
  their own id, mute.
* logstreams.cc:66 and 87: `overflow()` locks nothing, and a prefixed buffer's
  `sync()` locks what its writers do not.
* random.hh:162: all components are seeded alike.
* memory.hh:307: assigning from a provider that was moved from dereferences its null
  pointer. The model ends there (`crashed`), and no property forbids it.
* fmatrix.hh:61: sizes that release builds take without looking, beyond that nothing
  is claimed of the result.
* matrix.hh:370: `mv` of matrices that are not square. The products are claimed for
  square ones.
* threadmanager.cc:81: with a turnover of threads numbers grow without bound.

## 6. Plan

Done: threads, timings and logging, since they are what everything else in a
program shares; then `Configuration`, the storage providers, parameters, the
studies, the test distribution, `FixedMap`, the comparisons, conversions,
matrices and other algorithms, `PerThreadValue` and the signals.

Proofs: the theorems of section 4. Further ones, in this order:

1. The loop of `SolveInv` for any size: what a row swap keeps, without the determinant.
2. `Disciplined` weakened to sections with several users that exclude each other.

Further modelling: `Logging::devnull` and the flags of added streams, the binning of
distribute_testing.py, second users of a section, and larger instances
of the run `timings` and of the machine logging.
