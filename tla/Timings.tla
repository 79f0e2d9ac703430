------------------------------- MODULE Timings -------------------------------
(***************************************************************************)
(* Timings of timings.cc: named sections, each with a flag and a timer in  *)
(* known_timers_map_ and an accumulated time in commited_deltas_. start()  *)
(* holds mutex_, stop() and reset() hold nothing. A member function is a   *)
(* sequence of steps, one per access to shared state; the clock may tick   *)
(* between any two of them.                                                *)
(***************************************************************************)
EXTENDS Integers, FiniteSets, FiniteSetsExt

CONSTANTS
  Threads,
  Sections,   \* section names, as numbers in the order of std::map
  Users,      \* section -> the threads that call Timings about it
  Warm,       \* TRUE: one thread uses every section before the others start
  First,      \* that thread
  MaxClock,   \* bound on the clock
  MaxTotal,   \* bound: no stop() of a section that has accumulated more
  None

ASSUME TimingsAssumption ==
  /\ Sections \subseteq Nat /\ Sections # {}
  /\ Users \in [Sections -> SUBSET Threads]
  /\ Warm \in BOOLEAN
  /\ First \in Threads
  /\ MaxClock \in Nat /\ MaxTotal \in Nat
  /\ None \notin Threads \cup Nat \cup BOOLEAN

\* Of threads that are numbered as the sections are each has its own section: a
\* value for Users.
EachItsOwn == [s \in Sections |-> {s} \cap Threads]

VARIABLES
  clock,
  mutex_,     \* its owner or None
  running,    \* known_timers_map_[s].first, None = the section is not known
  timer,      \* known_timers_map_[s].second
  commited,   \* commited_deltas_[s], None = no entry
  matched,    \* whether this program calls stop() for running sections only
  pc,         \* per thread: where it is in a member function
  call,       \* per thread: that function
  arg,        \* per thread: the section it is about
  ref,        \* per thread in stop(): is `timing` the timer of the section still?
  dlt,        \* per thread in stop(): the local of that name
  open,       \* for the properties: sections a start() has returned for and no
              \* stop or reset was called for since
  busy,       \* for the properties: how long each was open since its last reset
  span        \* for the properties: how long each was in use since then

shared == <<mutex_, running, timer, commited>>
local == <<pc, call, arg, ref, dlt>>
ghost == <<open, busy, span>>
vars == <<clock, matched, shared, local, ghost>>

\* Every slot of the UnsafePerThreadValue<TimingData> shares the cpu_timer of
\* the TimingData assigned to it, so a section has one timer. `blank` is the
\* timer of a value-initialised map entry.
NewTimer(blank) == [began |-> clock, ended |-> None, blank |-> blank]
NoTimer == [began |-> 0, ended |-> 0, blank |-> TRUE]

\* TimingData::delta()
Elapsed(t) == (IF t.ended = None THEN clock ELSE t.ended) - t.began

\* cpu_timer::stop() leaves a timer alone that is stopped.
Stopped(t) == IF t.ended = None THEN [t EXCEPT !.ended = clock] ELSE t

Known == {s \in Sections : running[s] # None}

On(s) == ~timer[s].blank /\ timer[s].ended = None

\* walltime() and delta(); None stands for InvalidStateException.
DeltaOf(s) ==
  IF commited[s] # None THEN commited[s]
  ELSE IF s \in Known THEN Elapsed(timer[s])
  ELSE None

\* s is open, or a call about it goes on.
InUse(s) ==
  \/ s \in open
  \/ \E t \in Threads : pc[t] # "idle" /\ (arg[t] = s \/ call[t] \in {"stop all", "reset all"})

-----------------------------------------------------------------------------
Init ==
  /\ clock = 0
  /\ mutex_ = None
  /\ matched \in BOOLEAN
  /\ running = [s \in Sections |-> None]
  /\ timer = [s \in Sections |-> NoTimer]
  /\ commited = [s \in Sections |-> None]
  /\ pc = [t \in Threads |-> "idle"]
  /\ call = [t \in Threads |-> "none"]
  /\ arg = [t \in Threads |-> None]
  /\ ref = [t \in Threads |-> TRUE]
  /\ dlt = [t \in Threads |-> 0]
  /\ open = {}
  /\ busy = [s \in Sections |-> 0]
  /\ span = [s \in Sections |-> 0]

Goto(t, label) == pc' = [pc EXCEPT ![t] = label]

Tick ==
  /\ clock < MaxClock
  /\ clock' = clock + 1
  /\ busy' = [s \in Sections |-> IF s \in open THEN busy[s] + 1 ELSE busy[s]]
  /\ span' = [s \in Sections |-> IF InUse(s) THEN span[s] + 1 ELSE span[s]]
  /\ UNCHANGED <<matched, shared, local, open>>

\* How the program uses the class.
WarmingUp ==
  /\ Warm
  /\ \/ \E s \in Sections : s \notin Known \/ commited[s] = None
     \/ /\ pc[First] # "idle"
        /\ call[First] \in {"stop all", "reset all"} \/ First \notin Users[arg[First]]

MayCall(t, s) == pc[t] = "idle" /\ IF WarmingUp THEN t = First ELSE t \in Users[s]

Call(t, f, s, label) ==
  /\ call' = [call EXCEPT ![t] = f]
  /\ arg' = [arg EXCEPT ![t] = s]
  /\ Goto(t, label)
  /\ open' = CASE f = "start" -> open [] s = None -> {} [] OTHER -> open \ {s}
  /\ UNCHANGED <<clock, matched, shared, ref, dlt, busy, span>>

CallStart(t, s) == MayCall(t, s) /\ Call(t, "start", s, "start")

Stoppable(s) ==
  /\ matched => running[s] = TRUE
  /\ commited[s] # None => commited[s] <= MaxTotal

CallStop(t, s) == MayCall(t, s) /\ Stoppable(s) /\ Call(t, "stop", s, "stop")

CallReset(t, s) == MayCall(t, s) /\ Call(t, "reset", s, "stop")

CallStopAll(t) ==
  /\ \A s \in Sections : MayCall(t, s) /\ (WarmingUp \/ Users[s] = {t})
  /\ \A s \in Known : Stoppable(s)
  /\ Call(t, "stop all", None, "next")

CallResetAll(t) ==
  /\ \A s \in Sections : MayCall(t, s) /\ (WarmingUp \/ Users[s] = {t})
  /\ Call(t, "reset all", None, "next")

-----------------------------------------------------------------------------
(* start(section_name)                                                     *)

StartRunning(t) ==
  /\ pc[t] = "start" /\ mutex_ = None
  /\ running[arg[t]] = TRUE
  /\ open' = open \cup {arg[t]}
  /\ Goto(t, "idle")
  /\ UNCHANGED <<clock, matched, shared, call, arg, ref, dlt, busy, span>>

StartKnown(t) ==
  /\ pc[t] = "start" /\ mutex_ = None
  /\ running[arg[t]] = FALSE
  /\ mutex_' = t
  /\ running' = [running EXCEPT ![arg[t]] = TRUE]
  /\ Goto(t, "replace")
  /\ UNCHANGED <<clock, matched, timer, commited, call, arg, ref, dlt, ghost>>

\* known_timers_map_[section_name] makes an entry ...
StartInsert(t) ==
  /\ pc[t] = "start" /\ mutex_ = None
  /\ arg[t] \notin Known
  /\ mutex_' = t
  /\ running' = [running EXCEPT ![arg[t]] = FALSE]
  /\ timer' = [timer EXCEPT ![arg[t]] = NewTimer(TRUE)]
  /\ Goto(t, "mark")
  /\ UNCHANGED <<clock, matched, commited, call, arg, ref, dlt, ghost>>

\* ... and the pair is assigned to it, its first member first.
StartMark(t) ==
  /\ pc[t] = "mark"
  /\ running' = [running EXCEPT ![arg[t]] = TRUE]
  /\ Goto(t, "replace")
  /\ UNCHANGED <<clock, matched, mutex_, timer, commited, call, arg, ref, dlt, ghost>>

\* Mutant: an entry that is known keeps its timer.
KeepTimer(t) ==
  /\ pc[t] = "replace"
  /\ IF timer[arg[t]].blank THEN timer' = [timer EXCEPT ![arg[t]] = NewTimer(FALSE)]
                            ELSE UNCHANGED timer
  /\ open' = open \cup {arg[t]}
  /\ mutex_' = None
  /\ Goto(t, "idle")
  /\ UNCHANGED <<clock, matched, running, commited, call, arg, ref, dlt, busy, span>>

\* The new TimingData: the one before it is destroyed, whoever refers to it.
StartReplace(t) ==
  /\ pc[t] = "replace"
  /\ timer' = [timer EXCEPT ![arg[t]] = NewTimer(FALSE)]
  /\ ref' = [u \in Threads |-> IF arg[u] = arg[t] THEN FALSE ELSE ref[u]]
  /\ open' = open \cup {arg[t]}
  /\ mutex_' = None
  /\ Goto(t, "idle")
  /\ UNCHANGED <<clock, matched, running, commited, call, arg, dlt, busy, span>>

-----------------------------------------------------------------------------
(* stop(section_name), called by the program, by reset() and by stop()     *)

AfterStop(t) ==
  CASE call[t] = "stop" -> "idle"
    [] call[t] = "reset" -> "zero"
    [] OTHER -> "next"

\* RangeError, which reset() ignores.
StopUnknown(t) ==
  /\ pc[t] = "stop" /\ arg[t] \notin Known
  /\ Goto(t, AfterStop(t))
  /\ UNCHANGED <<clock, matched, shared, call, arg, ref, dlt, ghost>>

StopMark(t) ==
  /\ pc[t] = "stop" /\ arg[t] \in Known
  /\ running' = [running EXCEPT ![arg[t]] = FALSE]
  /\ Goto(t, "ref")
  /\ UNCHANGED <<clock, matched, mutex_, timer, commited, call, arg, ref, dlt, ghost>>

StopRef(t) ==
  /\ pc[t] = "ref"
  /\ ref' = [ref EXCEPT ![t] = TRUE]
  /\ Goto(t, "timer")
  /\ UNCHANGED <<clock, matched, shared, call, arg, dlt, ghost>>

\* Through a reference to a destroyed timer nothing is known to happen; the
\* model leaves the section's timer alone then.
StopTimer(t) ==
  /\ pc[t] = "timer"
  /\ timer' = [timer EXCEPT ![arg[t]] = IF ref[t] THEN Stopped(@) ELSE @]
  /\ Goto(t, "delta")
  /\ UNCHANGED <<clock, matched, mutex_, running, commited, call, arg, ref, dlt, ghost>>

\* Mutant: the difference is taken the wrong way round.
DeltaFromZero(t) ==
  /\ pc[t] = "delta"
  /\ dlt' = [dlt EXCEPT ![t] = -Elapsed(timer[arg[t]])]
  /\ Goto(t, "commit")
  /\ UNCHANGED <<clock, matched, shared, call, arg, ref, ghost>>

StopDelta(t) ==
  /\ pc[t] = "delta"
  /\ dlt' = [dlt EXCEPT ![t] = Elapsed(timer[arg[t]])]
  /\ Goto(t, "commit")
  /\ UNCHANGED <<clock, matched, shared, call, arg, ref, ghost>>

\* Mutant: a second delta replaces the first.
CommitLast(t) ==
  /\ pc[t] = "commit"
  /\ commited' = [commited EXCEPT ![arg[t]] = dlt[t]]
  /\ Goto(t, AfterStop(t))
  /\ UNCHANGED <<clock, matched, mutex_, running, timer, call, arg, ref, dlt, ghost>>

StopCommit(t) ==
  /\ pc[t] = "commit"
  /\ commited' = [commited EXCEPT ![arg[t]] = (IF @ = None THEN 0 ELSE @) + dlt[t]]
  /\ Goto(t, AfterStop(t))
  /\ UNCHANGED <<clock, matched, mutex_, running, timer, call, arg, ref, dlt, ghost>>

-----------------------------------------------------------------------------
(* the rest of reset(section_name), and of stop() and reset()              *)

\* Mutant: the entry is erased.
ResetErase(t) ==
  /\ pc[t] = "zero"
  /\ commited' = [commited EXCEPT ![arg[t]] = None]
  /\ busy' = [busy EXCEPT ![arg[t]] = 0]
  /\ span' = [span EXCEPT ![arg[t]] = 0]
  /\ Goto(t, "idle")
  /\ UNCHANGED <<clock, matched, mutex_, running, timer, call, arg, ref, dlt, open>>

ResetZero(t) ==
  /\ pc[t] = "zero"
  /\ commited' = [commited EXCEPT ![arg[t]] = 0]
  /\ busy' = [busy EXCEPT ![arg[t]] = 0]
  /\ span' = [span EXCEPT ![arg[t]] = 0]
  /\ Goto(t, "idle")
  /\ UNCHANGED <<clock, matched, mutex_, running, timer, call, arg, ref, dlt, open>>

\* The loop over known_timers_map_ goes on behind the section stopped last.
Behind(t) == {s \in Known : arg[t] # None => s > arg[t]}

NextSection(t) ==
  /\ pc[t] = "next" /\ Behind(t) # {}
  /\ arg' = [arg EXCEPT ![t] = Min(Behind(t))]
  /\ Goto(t, "stop")
  /\ UNCHANGED <<clock, matched, shared, call, ref, dlt, ghost>>

LastSection(t) ==
  /\ pc[t] = "next" /\ Behind(t) = {}
  /\ Goto(t, IF call[t] = "reset all" THEN "clear" ELSE "idle")
  /\ UNCHANGED <<clock, matched, shared, call, arg, ref, dlt, ghost>>

Clear(t) ==
  /\ pc[t] = "clear"
  /\ commited' = [s \in Sections |-> None]
  /\ busy' = [s \in Sections |-> 0]
  /\ span' = [s \in Sections |-> 0]
  /\ Goto(t, "idle")
  /\ UNCHANGED <<clock, matched, mutex_, running, timer, call, arg, ref, dlt, open>>

Inside(t) ==
  \/ StartRunning(t) \/ StartKnown(t) \/ StartInsert(t) \/ StartMark(t) \/ StartReplace(t)
  \/ StopUnknown(t) \/ StopMark(t) \/ StopRef(t) \/ StopTimer(t) \/ StopDelta(t)
  \/ StopCommit(t)
  \/ ResetZero(t) \/ NextSection(t) \/ LastSection(t) \/ Clear(t)

Next ==
  \/ Tick
  \/ \E t \in Threads :
       \/ Inside(t)
       \/ CallStopAll(t) \/ CallResetAll(t)
       \/ \E s \in Sections : CallStart(t, s) \/ CallStop(t, s) \/ CallReset(t, s)

Spec == Init /\ [][Next]_vars

-----------------------------------------------------------------------------
Labels == {"idle", "start", "mark", "replace", "stop", "ref", "timer", "delta",
           "commit", "zero", "next", "clear"}

TypeOK ==
  /\ clock \in 0 .. MaxClock
  /\ mutex_ \in Threads \cup {None}
  /\ running \in [Sections -> BOOLEAN \cup {None}]
  /\ \A s \in Sections : Elapsed(timer[s]) \in 0 .. MaxClock
  /\ \A s \in Sections : commited[s] = None \/ commited[s] \in Nat
  /\ pc \in [Threads -> Labels]
  /\ arg \in [Threads -> Sections \cup {None}]
  /\ \A t \in Threads : dlt[t] \in Nat
  /\ matched \in BOOLEAN
  /\ open \subseteq Known
  /\ busy \in [Sections -> Nat] /\ span \in [Sections -> Nat]

\* No thread is inside a member function.
Quiet == \A t \in Threads : pc[t] = "idle"

\* However start(), stop() and the resets are called, in any order and number,
\* the time reported for a section that is not running is at least the time
\* it was open (as test/timings.cc:40 has it for a section used repeatedly).
NoTimeLost == Quiet => \A s \in Known : running[s] = FALSE => DeltaOf(s) >= busy[s]

\* No section is reported to have been on for longer than the program runs.
NotMoreThanElapsed == Quiet => \A s \in Known : DeltaOf(s) <= clock

\* The other bound: in a program that stops what runs no time is counted twice and
\* none that passed between the calls about a section, or before its last reset.
\* Not so for a section that is known and neither running nor committed: see
\* ResetsForget.
NoTimeAdded ==
  matched /\ Quiet =>
    \A s \in Known : running[s] = TRUE \/ commited[s] # None => DeltaOf(s) <= span[s]

\* reset() "stops and resets all timers and data" (timings.hh:122), so that no time
\* of before is reported after it.
ResetsForget == matched /\ Quiet => \A s \in Known : DeltaOf(s) <= span[s]

\* The maps thread t inserts into or clears in its next step.
Inserts(t) ==
  (IF pc[t] = "start" /\ arg[t] \notin Known THEN {"known"} ELSE {}) \cup
  (IF pc[t] = "clear" \/ (pc[t] \in {"commit", "zero"} /\ commited[arg[t]] = None)
   THEN {"commited"} ELSE {})

\* The maps thread t looks something up in.
Accesses(t) ==
  (IF pc[t] \in {"start", "mark", "replace", "stop", "ref", "next"} THEN {"known"} ELSE {})
  \cup (IF pc[t] \in {"commit", "zero", "clear"} THEN {"commited"} ELSE {})

\* No thread inserts into one of the two maps, or clears one, while another
\* thread looks something up in it: stop() does not lock.
MapsNotRaced == \A t, u \in Threads : t # u => Inserts(t) \cap Accesses(u) = {}

\* In any order of calls and any interleaving of their steps no time is lost, and
\* the maps are not changed under a thread that looks something up.
TimingsInv == TypeOK /\ NoTimeLost /\ MapsNotRaced
==============================================================================
