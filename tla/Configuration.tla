---------------------------- MODULE Configuration ----------------------------
(***************************************************************************)
(* Configuration of configuration.hh and configuration.cc. A tree is a     *)
(* function from the paths of its keys to their values: the sections of a  *)
(* path are the subs, no key is also a sub. add_tree_() sets one key per   *)
(* step, every other call is one step. call and before keep what the last  *)
(* call was asked to do and what it found.                                 *)
(***************************************************************************)
EXTENDS Naturals, SequencesExt

CONSTANTS
  PathOrder,    \* the paths, in the order of std::map
  ValuesOf,     \* the values of each path, as numbers in the order of std::string
  Inputs,       \* the trees that are added, read from files or given as options
  SubIds,       \* the subs that trees are added to, << >> for none
  DataDir,      \* the path global.datadir
  LogDir,       \* the path logging.dir
  DefaultFile   \* ConfigurationDefaults().logfile

Paths == Range(PathOrder)
Trees == UNION {{t \in [S -> UNION {ValuesOf[p] : p \in Paths}] : \A p \in S : t[p] \in ValuesOf[p]} :
                S \in SUBSET Paths}

ASSUME ConfigurationAssumption ==
  /\ PathOrder \in Seq(Seq(STRING) \ {<<>>}) /\ IsInjective(PathOrder)
  /\ \A p, q \in Paths : IsPrefix(p, q) => p = q
  /\ ValuesOf \in [Paths -> SUBSET Nat]
  /\ {DataDir, LogDir} \subseteq Paths /\ DataDir # LogDir
  /\ Inputs \subseteq Trees /\ SubIds \subseteq Seq(STRING)

VARIABLES
  tree,          \* the keys and values
  log_on_exit_,
  logfile_,
  call,          \* the last call: what it is, its arguments and how it ends
  before         \* the tree it found

configurationVars == <<tree, log_on_exit_, logfile_, call, before>>

-----------------------------------------------------------------------------
\* flatten(): the keys of a tree in their order.
Flat(t) ==
  LET Upto[n \in 0 .. Len(PathOrder)] ==
        IF n = 0 THEN <<>>
        ELSE IF PathOrder[n] \in DOMAIN t THEN Append(Upto[n - 1], PathOrder[n])
        ELSE Upto[n - 1]
  IN  Upto[Len(PathOrder)]

\* Every key of s is set in t, and one key is.
Overlaid(s, t) == [p \in DOMAIN s \cup DOMAIN t |-> IF p \in DOMAIN s THEN s[p] ELSE t[p]]
With(t, p, value) == Overlaid([q \in {p} |-> value], t)

HasSub(t, id) == \E p \in DOMAIN t : IsStrictPrefix(id, p)

\* ParameterTree::sub()
SubTree(t, id) ==
  [p \in {SubSeq(q, Len(id) + 1, Len(q)) : q \in {q \in DOMAIN t : IsStrictPrefix(id, q)}} |-> t[id \o p]]

\* sub(), << >> when it throws: a default can stand in only if the caller allows
\* the sub to be missing.
Sub(t, id, fail_if_missing, default) ==
  IF HasSub(t, id) THEN <<SubTree(t, id)>>
  ELSE IF fail_if_missing THEN <<>> ELSE <<default>>

\* Mutant: a default is returned unvalidated.
GetDefaultUnvalidated(t, p, default, convertible, valid) ==
  IF p \notin DOMAIN t THEN <<default>>
  ELSE IF t[p] \in convertible \cap valid THEN <<t[p]>> ELSE <<>>

\* get() with a default, << >> when it throws: in get_valid_value() the default is
\* turned into a string, converted and validated like a value of the tree.
Get(t, p, default, convertible, valid) ==
  LET value == IF p \in DOMAIN t THEN t[p] ELSE default
  IN  IF value \in convertible \cap valid THEN <<value>> ELSE <<>>

Rank(p) == CHOOSE i \in DOMAIN PathOrder : PathOrder[i] = p
KeyValuePairs(t) == LET keys == Flat(t) IN [i \in DOMAIN keys |-> <<keys[i], t[keys[i]]>>]
SmallerPair(x, y) == Rank(x[1]) < Rank(y[1]) \/ (x[1] = y[1] /\ x[2] < y[2])

\* Mutant: only the keys are compared.
LessByKeys(s, t) ==
  LET x == Flat(s)
      y == Flat(t)
  IN  \E n \in 0 .. Len(x) :
        /\ n < Len(y) /\ \A i \in 1 .. n : x[i] = y[i]
        /\ n = Len(x) \/ Rank(x[n + 1]) < Rank(y[n + 1])

\* std::less: the flattened maps are compared lexicographically.
Less(s, t) ==
  LET x == KeyValuePairs(s)
      y == KeyValuePairs(t)
  IN  \E n \in 0 .. Len(x) :
        /\ n < Len(y) /\ \A i \in 1 .. n : x[i] = y[i]
        /\ n = Len(x) \/ SmallerPair(x[n + 1], y[n + 1])

-----------------------------------------------------------------------------
\* Mutant: one of the two keys is enough, the other reads as nothing.
SetUpByOne(t, file) ==
  IF DataDir \in DOMAIN t THEN <<t[DataDir], 0>> ELSE file

\* setup_(): where the report goes.
setup_(t, file) ==
  IF {DataDir, LogDir} \subseteq DOMAIN t THEN <<t[DataDir], t[LogDir]>> ELSE file

Return(of, ending) == call' = [of |-> of, end |-> ending]

ConfigurationInit ==
  /\ tree = <<>> /\ before = <<>>
  /\ log_on_exit_ = FALSE
  /\ logfile_ = DefaultFile
  /\ call = [of |-> "construct", end |-> "returned"]

Files == {DefaultFile} \cup {<<d, l>> : d \in ValuesOf[DataDir], l \in ValuesOf[LogDir]}

CallEnded == call.end # "running"

\* Mutant: the paramfile overwrites the options.
InitializedByFile(options, paramfile) == Overlaid(paramfile, options)

\* initialize(argc, argv): options win over the file that "paramfile" names.
Initialized(options, paramfile) == Overlaid(options, paramfile)

\* Configuration(argc, argv, defaults); without a paramfile it is the constructor
\* from a tree, or from keys and values, none of them twice.
ConstructFromTree ==
  /\ CallEnded
  /\ \E options, paramfile \in Inputs, log \in BOOLEAN :
       /\ before' = options
       /\ tree' = Initialized(options, paramfile)
       /\ log_on_exit_' = log
       /\ logfile_' = setup_(tree', DefaultFile)
  /\ Return("construct", "returned")

\* Configuration(initializer_list): the keys are set one by one and setup_() is
\* not called.
ConstructFromPairs ==
  /\ CallEnded
  /\ tree' \in Inputs
  /\ before' = tree'
  /\ log_on_exit_' = FALSE
  /\ logfile_' = DefaultFile
  /\ Return("other", "returned")

\* Configurations there may be elsewhere: they name a log file only if they have
\* the keys setup_() made it of, whatever the values are now.
Elsewhere ==
  {other \in [tree : {Overlaid(s, t) : s, t \in Inputs}, log_on_exit : BOOLEAN, logfile : Files] :
     other.logfile # DefaultFile => {DataDir, LogDir} \subseteq DOMAIN other.tree}

\* Mutant: operator= leaves out the log file.
CopyWithoutFile(other, found) ==
  /\ CallEnded
  /\ before' = found
  /\ tree' = other.tree /\ log_on_exit_' = other.log_on_exit /\ UNCHANGED logfile_
  /\ Return("other", "returned")

\* operator=, which finds the tree there is, and the copy constructor, which finds
\* none: all members are copied and setup_() is not called.
CopyFrom(other, found) ==
  /\ CallEnded
  /\ before' = found
  /\ tree' = other.tree /\ log_on_exit_' = other.log_on_exit /\ logfile_' = other.logfile
  /\ Return("other", "returned")

\* set()
Set(p, value, overwrite) ==
  /\ CallEnded
  /\ before' = tree
  /\ IF p \in DOMAIN tree /\ ~overwrite
     THEN tree' = tree /\ Return("set", "configuration_error")
     ELSE tree' = With(tree, p, value) /\ Return("set", "returned")
  /\ UNCHANGED <<log_on_exit_, logfile_>>

\* add() and operator+=; every key ends up inside of the paths
StartAdding(other, id, overwrite) ==
  /\ CallEnded
  /\ {id \o p : p \in DOMAIN other} \subseteq Paths
  /\ \A p \in DOMAIN other : other[p] \in ValuesOf[id \o p]
  /\ call' = [of |-> "add", other |-> other, id |-> id, overwrite |-> overwrite,
              rest |-> Flat(other), end |-> "running"]
  /\ before' = tree'

Add(other, id, overwrite) ==
  UNCHANGED <<tree, log_on_exit_, logfile_>> /\ StartAdding(other, id, overwrite)

\* Configuration(tree, sub_id): setup_() sees the empty tree, the keys come later.
ConstructFromSub(other, id) ==
  /\ tree' = <<>> /\ log_on_exit_' = FALSE /\ logfile_' = DefaultFile
  /\ StartAdding(other, id, FALSE)

\* Mutant: a key that exists is skipped and the rest is added.
AddSkips ==
  /\ call.end = "running"
  /\ IF call.rest = <<>>
     THEN call' = [call EXCEPT !.end = "returned"] /\ tree' = tree
     ELSE LET p == call.id \o Head(call.rest)
          IN  /\ call' = [call EXCEPT !.rest = Tail(@)]
              /\ tree' = IF p \in DOMAIN tree /\ ~call.overwrite
                         THEN tree ELSE With(tree, p, call.other[Head(call.rest)])
  /\ UNCHANGED <<log_on_exit_, logfile_, before>>

\* Mutant: the keys are set whether they exist or not.
AddOverwrites ==
  /\ call.end = "running"
  /\ IF call.rest = <<>>
     THEN call' = [call EXCEPT !.end = "returned"] /\ tree' = tree
     ELSE /\ call' = [call EXCEPT !.rest = Tail(@)]
          /\ tree' = With(tree, call.id \o Head(call.rest), call.other[Head(call.rest)])
  /\ UNCHANGED <<log_on_exit_, logfile_, before>>

\* One turn of the loop in add_tree_(), which set() may end with an exception.
AddKey ==
  /\ call.end = "running"
  /\ IF call.rest = <<>>
     THEN call' = [call EXCEPT !.end = "returned"] /\ tree' = tree
     ELSE LET p == call.id \o Head(call.rest)
          IN  IF p \in DOMAIN tree /\ ~call.overwrite
              THEN call' = [call EXCEPT !.end = "configuration_error"] /\ tree' = tree
              ELSE /\ call' = [call EXCEPT !.rest = Tail(@)]
                   /\ tree' = With(tree, p, call.other[Head(call.rest)])
  /\ UNCHANGED <<log_on_exit_, logfile_, before>>

\* read_command_line(): the file, if there is one, then the options, then setup_().
ReadCommandLine(file, options) ==
  /\ CallEnded
  /\ before' = tree
  /\ tree' = Overlaid(options, Overlaid(file, tree))
  /\ logfile_' = setup_(tree', logfile_)
  /\ call' = [of |-> "read_command_line", file |-> file, options |-> options, end |-> "returned"]
  /\ UNCHANGED log_on_exit_

\* read_options(): the options, and no setup_().
ReadOptions(options) ==
  /\ CallEnded
  /\ before' = tree
  /\ tree' = Overlaid(options, tree)
  /\ call' = [of |-> "read_options", options |-> options, end |-> "returned"]
  /\ UNCHANGED <<log_on_exit_, logfile_>>

\* set_logfile() creates the directory of the old file and stores nothing.
SetLogfile(file) ==
  /\ CallEnded
  /\ before' = tree
  /\ Return("other", "returned")
  /\ UNCHANGED <<tree, log_on_exit_, logfile_>>

\* set_log_on_exit()
SetLogOnExit(value) ==
  /\ CallEnded
  /\ log_on_exit_' = value
  /\ before' = tree
  /\ Return("other", "returned")
  /\ UNCHANGED <<tree, logfile_>>

ConfigurationNext ==
  \/ ConstructFromTree \/ ConstructFromPairs \/ AddKey
  \/ \E p \in Paths, overwrite \in BOOLEAN : \E v \in ValuesOf[p] : Set(p, v, overwrite)
  \/ \E other \in Inputs, id \in SubIds, overwrite \in BOOLEAN : Add(other, id, overwrite)
  \/ \E other \in Inputs, id \in SubIds : ConstructFromSub(other, id)
  \/ \E other \in Elsewhere, found \in {tree, <<>>} : CopyFrom(other, found)
  \/ \E file, options \in Inputs : ReadCommandLine(file, options)
  \/ \E options \in Inputs : ReadOptions(options)
  \/ \E file \in Files : SetLogfile(file)
  \/ \E value \in BOOLEAN : SetLogOnExit(value)

ConfigurationSpec == ConfigurationInit /\ [][ConfigurationNext]_configurationVars

-----------------------------------------------------------------------------
ConfigurationTypeOK ==
  /\ tree \in Trees /\ before \in Trees
  /\ log_on_exit_ \in BOOLEAN
  /\ logfile_ \in Files
  /\ call.end \in {"running", "returned", "configuration_error"}

\* add() without overwrite either adds the whole tree or ends with an
\* exception, and then exactly the keys before the first one that existed have
\* been added: configuration.cc:263 undoes nothing.
AddsInitialSegment ==
  (call.of = "add" /\ call.end # "running") =>
    LET Key(p) == call.id \o p
        met == {i \in DOMAIN Flat(call.other) : Key(Flat(call.other)[i]) \in DOMAIN before}
        kept == IF call.overwrite \/ met = {} THEN DOMAIN call.other
                ELSE {p \in DOMAIN call.other : \E i \in DOMAIN Flat(call.other) :
                        p = Flat(call.other)[i] /\ \A j \in met : i < j}
    IN  /\ (call.end = "returned") = (call.overwrite \/ met = {})
        /\ DOMAIN tree = DOMAIN before \cup {Key(p) : p \in kept}
        /\ SubTree([p \in {Key(q) : q \in kept} |-> tree[p]], call.id) = [p \in kept |-> call.other[p]]

\* Without overwrite neither set() nor add() changes or removes a key, whatever
\* happens half way.
KeysSurvive ==
  \/ call.of \notin {"set", "add"}
  \/ call.of = "set" /\ call.end = "returned"
  \/ call.of = "add" /\ call.overwrite
  \/ \A p \in DOMAIN before : p \in DOMAIN tree /\ tree[p] = before[p]

\* What is given on the command line wins over the file, and both win over what
\* was there, whatever order the two are parsed in.
OptionsWin ==
  /\ call.of = "read_command_line" => \A p \in DOMAIN tree :
       tree[p] = IF p \in DOMAIN call.options THEN call.options[p]
                 ELSE IF p \in DOMAIN call.file THEN call.file[p] ELSE before[p]
  /\ call.of = "read_options" => \A p \in DOMAIN tree :
       tree[p] = IF p \in DOMAIN call.options THEN call.options[p] ELSE before[p]
  /\ call.of = "construct" => \A p \in DOMAIN before : tree[p] = before[p]

\* A report goes to a file other than the default only if the tree has the two
\* keys that name its directories: in every sequence of calls, half done adds and
\* copies included, a file name comes and goes with these keys.
LogfileHasDirectories ==
  logfile_ # DefaultFile => {DataDir, LogDir} \subseteq DOMAIN tree

\* get() never returns what does not convert or the validator refuses, a default
\* included, and prefers the tree's value to the default. sub() has the keys
\* below it, so that adding it back under its name would change nothing.
GetsAreSound ==
  /\ \A p \in Paths : \A default \in ValuesOf[p], valid \in SUBSET ValuesOf[p] :
       LET got == Get(tree, p, default, ValuesOf[p], valid)
       IN  /\ Range(got) \subseteq valid
           /\ p \in DOMAIN tree /\ tree[p] \in valid => got = <<tree[p]>>
  /\ \A id \in SubIds \ {<<>>} : HasSub(tree, id) =>
       LET sub == Sub(tree, id, TRUE, <<>>)[1]
       IN  sub # <<>> /\ \A q \in DOMAIN sub : tree[id \o q] = sub[q]

\* std::less orders trees strictly and totally, as the keys of a std::map have
\* to be: of two trees that are not equal exactly one is less.
LessIsStrictOrder ==
  /\ \A t \in Inputs \cup {before} : (t # tree) = (Less(tree, t) # Less(t, tree)) /\ ~Less(t, t)
  /\ \A s, t \in Inputs : Less(s, tree) /\ Less(tree, t) => Less(s, t)

\* Merging trees, with and without overwriting and with the command line, keeps
\* what has to be kept and sets a known part of the rest; the log file and the
\* tree stay together.
MergesAreSound ==
  ConfigurationTypeOK /\ AddsInitialSegment /\ KeysSurvive /\ OptionsWin /\ LogfileHasDirectories

\* What is read and compared is what is in the tree, validated.
ReadsAreSound == GetsAreSound /\ LessIsStrictOrder
==============================================================================
