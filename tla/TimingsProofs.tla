---------------------------- MODULE TimingsProofs ----------------------------
(***************************************************************************)
(* Timings loses no time, counts none twice and its maps are not raced,    *)
(* for any threads and sections, in a program where one thread has used    *)
(* every section before the others start and each section is used by one   *)
(* thread only.                                                            *)
(***************************************************************************)
EXTENDS Timings, WellFoundedInduction, TLAPS

\* How the program has to use the class.
Disciplined ==
  \/ Threads = {First}
  \/ Warm /\ \A s \in Sections : \A t, u \in Users[s] : t = u

-----------------------------------------------------------------------------
\* The inductive invariant.

Timers == [began : Nat, ended : Nat \cup {None}, blank : BOOLEAN]
TimerOK(t, now) ==
  t \in Timers /\ t.began <= now /\ (t.ended # None => t.began <= t.ended /\ t.ended <= now)

Shape ==
  /\ clock \in 0 .. MaxClock
  /\ mutex_ \in Threads \cup {None}
  /\ matched \in BOOLEAN
  /\ running \in [Sections -> BOOLEAN \cup {None}]
  /\ timer \in [Sections -> Timers] /\ \A s \in Sections : TimerOK(timer[s], clock)
  /\ commited \in [Sections -> Nat \cup {None}]
  /\ pc \in [Threads -> Labels]
  /\ call \in [Threads -> {"none", "start", "stop", "reset", "stop all", "reset all"}]
  /\ arg \in [Threads -> Sections \cup {None}]
  /\ dlt \in [Threads -> Nat]
  /\ open \subseteq Sections
  /\ busy \in [Sections -> Nat] /\ span \in [Sections -> Nat]

\* Thread t is about all sections.
OfAll(t) == call[t] \in {"stop all", "reset all"}

\* Which function the steps of a thread belong to.
Protocol ==
  \A t \in Threads :
    /\ pc[t] \in {"start", "mark", "replace"} => call[t] = "start" /\ arg[t] \in Sections
    /\ pc[t] \in {"stop", "ref", "timer", "delta", "commit"} =>
         call[t] \in {"stop", "reset", "stop all", "reset all"} /\ arg[t] \in Sections
    /\ pc[t] = "zero" => call[t] = "reset" /\ arg[t] \in Sections
    /\ pc[t] = "next" => OfAll(t)
    /\ pc[t] = "clear" => call[t] = "reset all"

\* While a thread other than the first is inside a function all sections are known and
\* committed, and it keeps to its own.
OwnWork ==
  \A t \in Threads \ {First} : pc[t] # "idle" =>
    /\ ~WarmingUp
    /\ IF OfAll(t) THEN \A s \in Sections : Users[s] = {t} ELSE t \in Users[arg[t]]

\* The time of s that is committed.
Commited(s) == IF commited[s] = None THEN 0 ELSE commited[s]

\* A thread is about to change s.
Changing(s) ==
  \E t \in Threads :
    arg[t] = s /\ pc[t] \in {"mark", "replace", "ref", "timer", "delta", "commit"}

\* The time s was open is committed, or in the timer, or in a local of the thread t that
\* is about it: what thread t still has to do ...
ThreadOK(t) ==
  /\ pc[t] = "mark" => running[arg[t]] = FALSE /\ busy[arg[t]] = 0
  /\ pc[t] = "replace" => running[arg[t]] = TRUE /\ busy[arg[t]] <= Commited(arg[t])
  /\ pc[t] \in {"ref", "timer", "delta"} =>
       /\ running[arg[t]] = FALSE
       /\ busy[arg[t]] <= Commited(arg[t]) + Elapsed(timer[arg[t]])
  /\ pc[t] = "commit" =>
       running[arg[t]] = FALSE /\ busy[arg[t]] <= Commited(arg[t]) + dlt[t]
  /\ pc[t] \notin {"idle", "start", "next", "clear"} => arg[t] \notin open
  /\ pc[t] # "idle" /\ OfAll(t) => open = {}

\* ... and what is true of a section no thread is about to change.
SectionOK(s) ==
  /\ running[s] = None => busy[s] = 0
  /\ s \in open => running[s] = TRUE
  /\ ~Changing(s) /\ running[s] = TRUE =>
       timer[s].ended = None /\ busy[s] <= Commited(s) + Elapsed(timer[s])
  /\ ~Changing(s) /\ running[s] = FALSE => busy[s] <= Commited(s)

Balance ==
  /\ \A t \in Threads : ThreadOK(t)
  /\ \A s \in Sections : SectionOK(s)

TimingsIndInv == Shape /\ Protocol /\ OwnWork /\ Balance

-----------------------------------------------------------------------------
\* Least elements, and what a timer shows.

\* Smaller is a relation without infinite descent.
LEMMA LessThanIsARelation ==
  \E R : IsWellFoundedOn(R, Nat) /\ \A x, y \in Nat : y < x => <<y, x>> \in R
<1>1. \A x, y \in Nat : y < x => <<y, x>> \in OpToRel(<, Nat)
  BY DEF OpToRel
<1> QED
  BY <1>1, NatLessThanWellFounded, Zenon

\* A set of naturals has a least element.
LEMMA LeastNatural ==
  ASSUME NEW S \in SUBSET Nat, S # {}
  PROVE  \E n \in S : \A m \in S : n <= m
<1>1. PICK R : IsWellFoundedOn(R, Nat) /\ \A x, y \in Nat : y < x => <<y, x>> \in R
  BY LessThanIsARelation
<1>2. PICK n \in S : \A m \in S : ~(<<m, n>> \in R)
  BY <1>1, WFMin
<1>3. ASSUME NEW m \in S PROVE n <= m
  <2>1. m \in Nat /\ n \in Nat
    OBVIOUS
  <2>2. ~(m < n)
    BY <1>1, <1>2, <2>1
  <2> QED
    BY <2>1, <2>2
<1> QED
  BY <1>3

\* The loop over the sections goes on with one of those that are left.
LEMMA NextIsBehind ==
  ASSUME NEW t \in Threads, Behind(t) # {}
  PROVE  Min(Behind(t)) \in Behind(t)
<1>1. Behind(t) \in SUBSET Nat
  BY TimingsAssumption DEF Behind, Known
<1>2. \E n \in Behind(t) : \A m \in Behind(t) : n <= m
  BY <1>1, LeastNatural
<1> QED
  BY <1>2 DEF Min

\* Times are naturals, and None is none.
LEMMA Times ==
  ASSUME Shape
  PROVE  clock \in Nat /\ MaxClock \in Nat /\ clock <= MaxClock /\ None \notin Nat
<1>1. MaxClock \in Nat /\ None \notin Nat
  BY TimingsAssumption
<1>2. clock \in 0 .. MaxClock
  BY DEF Shape
<1> QED
  BY <1>1, <1>2

\* A timer shows a time the program has run for.
LEMMA ElapsedRange ==
  ASSUME Shape, NEW s \in Sections
  PROVE  Elapsed(timer[s]) \in 0 .. MaxClock
<1>1. timer[s] \in Timers /\ TimerOK(timer[s], clock)
  BY DEF Shape
<1>2. timer[s].began \in Nat /\ timer[s].ended \in Nat \cup {None}
  BY <1>1 DEF Timers
<1> QED
  BY <1>1, <1>2, Times DEF TimerOK, Elapsed

\* New timers and stopped ones are timers.
LEMMA TimersMade ==
  ASSUME Shape
  PROVE  /\ \A blank \in BOOLEAN : TimerOK(NewTimer(blank), clock) /\ NewTimer(blank).ended = None
         /\ \A s \in Sections : TimerOK(Stopped(timer[s]), clock)
         /\ \A s \in Sections : Elapsed(Stopped(timer[s])) = Elapsed(timer[s])
<1>1. clock \in Nat /\ None \notin Nat
  BY Times
<1>2. ASSUME NEW blank \in BOOLEAN
      PROVE  TimerOK(NewTimer(blank), clock) /\ NewTimer(blank).ended = None
  BY <1>1 DEF NewTimer, TimerOK, Timers
<1>3. ASSUME NEW s \in Sections
      PROVE  /\ TimerOK(Stopped(timer[s]), clock)
             /\ Elapsed(Stopped(timer[s])) = Elapsed(timer[s])
  <2>1. timer[s] \in Timers /\ TimerOK(timer[s], clock)
    BY DEF Shape
  <2>2. CASE timer[s].ended = None
    <3>1. Stopped(timer[s]) = [timer[s] EXCEPT !.ended = clock]
      BY <2>2 DEF Stopped
    <3>2. /\ Stopped(timer[s]) \in Timers /\ Stopped(timer[s]).ended = clock
          /\ Stopped(timer[s]).began = timer[s].began
      BY <1>1, <2>1, <3>1 DEF Timers
    <3> QED
      BY <1>1, <2>1, <2>2, <3>2 DEF TimerOK, Elapsed
  <2>3. CASE timer[s].ended # None
    BY <2>1, <2>3 DEF Stopped
  <2> QED
    BY <2>2, <2>3
<1> QED
  BY <1>2, <1>3

-----------------------------------------------------------------------------
\* Every step keeps the types of the variables, the timers and the clock in step.
LEMMA ShapeStep == Shape /\ Protocol /\ [Next]_vars => Shape'
<1> SUFFICES ASSUME Shape, Protocol, [Next]_vars PROVE Shape'
  OBVIOUS
<1> USE TimingsAssumption
<1>1. CASE Tick
  <2>1. clock' \in 0 .. MaxClock /\ clock' = clock + 1
    BY <1>1, Times DEF Tick
  <2>2. ASSUME NEW s \in Sections PROVE TimerOK(timer[s], clock')
    <3>1. timer[s] \in Timers /\ TimerOK(timer[s], clock)
      BY DEF Shape
    <3>2. timer[s].began \in Nat /\ timer[s].ended \in Nat \cup {None}
      BY <3>1 DEF Timers
    <3> QED
      BY <2>1, <3>1, <3>2, Times DEF TimerOK
  <2>3. busy' \in [Sections -> Nat]
    <3>1. busy \in [Sections -> Nat]
      BY DEF Shape
    <3>2. busy' = [s \in Sections |-> IF s \in open THEN busy[s] + 1 ELSE busy[s]]
      BY <1>1 DEF Tick
    <3> QED
      BY <3>1, <3>2
  <2>4. span' \in [Sections -> Nat]
    <3>1. span \in [Sections -> Nat]
      BY DEF Shape
    <3>2. span' = [s \in Sections |-> IF InUse(s) THEN span[s] + 1 ELSE span[s]]
      BY <1>1 DEF Tick
    <3> QED
      BY <3>1, <3>2
  <2> QED
    BY <1>1, <2>1, <2>2, <2>3, <2>4 DEF Tick, shared, local, Shape
<1>2. ASSUME NEW t \in Threads, Inside(t) PROVE Shape'
  <2> USE DEF shared, local, ghost
  <2>1. CASE StartRunning(t)
    BY <2>1 DEF StartRunning, Shape, Protocol, Goto, Labels
  <2>2. CASE StartKnown(t)
    BY <2>2 DEF StartKnown, Shape, Protocol, Goto, Labels
  <2>3. CASE StartInsert(t)
    BY <2>3, TimersMade DEF StartInsert, Shape, Goto, Labels, TimerOK
  <2>4. CASE StartMark(t)
    BY <2>4 DEF StartMark, Shape, Goto, Labels
  <2>5. CASE StartReplace(t)
    BY <2>5, TimersMade DEF StartReplace, Shape, Protocol, Goto, Labels, TimerOK
  <2>6. CASE StopUnknown(t)
    BY <2>6 DEF StopUnknown, AfterStop, Shape, Goto, Labels
  <2>7. CASE StopMark(t)
    BY <2>7 DEF StopMark, Shape, Goto, Labels
  <2>8. CASE StopRef(t)
    BY <2>8 DEF StopRef, Shape, Goto, Labels
  <2>9. CASE StopTimer(t)
    BY <2>9, TimersMade DEF StopTimer, Shape, Goto, Labels, TimerOK
  <2>10. CASE StopDelta(t)
    <3>1. arg[t] \in Sections
      BY <2>10 DEF StopDelta, Protocol
    <3>2. Elapsed(timer[arg[t]]) \in Nat
      <4>1. Elapsed(timer[arg[t]]) \in 0 .. MaxClock
        BY <3>1, ElapsedRange
      <4> QED
        BY <4>1
    <3> QED
      BY <2>10, <3>2 DEF StopDelta, Shape, Goto, Labels
  <2>11. CASE StopCommit(t)
    <3>1. arg[t] \in Sections /\ dlt[t] \in Nat
      BY <2>11 DEF StopCommit, Protocol, Shape
    <3>2. (IF commited[arg[t]] = None THEN 0 ELSE commited[arg[t]]) + dlt[t] \in Nat
      <4>1. commited[arg[t]] \in Nat \cup {None}
        BY <3>1 DEF Shape
      <4> QED
        BY <3>1, <4>1
    <3>3. commited' \in [Sections -> Nat \cup {None}]
      BY <2>11, <3>1, <3>2 DEF StopCommit, Shape
    <3>4. pc' \in [Threads -> Labels]
      BY <2>11 DEF StopCommit, AfterStop, Shape, Goto, Labels
    <3> QED
      BY <2>11, <3>3, <3>4 DEF StopCommit, Shape
  <2>12. CASE ResetZero(t)
    BY <2>12 DEF ResetZero, Shape, Goto, Labels
  <2>13. CASE NextSection(t)
    BY <2>13, NextIsBehind DEF NextSection, Behind, Known, Shape, Goto, Labels
  <2>14. CASE LastSection(t)
    BY <2>14 DEF LastSection, Shape, Goto, Labels
  <2>15. CASE Clear(t)
    BY <2>15 DEF Clear, Shape, Goto, Labels
  <2> QED
    BY <1>2, <2>1, <2>2, <2>3, <2>4, <2>5, <2>6, <2>7, <2>8, <2>9, <2>10, <2>11, <2>12,
       <2>13, <2>14, <2>15 DEF Inside
<1>3. ASSUME NEW t \in Threads, NEW s \in Sections \cup {None},
             NEW f \in {"start", "stop", "reset", "stop all", "reset all"},
             NEW label \in Labels, Call(t, f, s, label)
      PROVE  Shape'
  BY <1>3 DEF Call, Goto, shared, Shape
<1>4. ASSUME NEW t \in Threads, CallStopAll(t) \/ CallResetAll(t) PROVE Shape'
  BY <1>3, <1>4 DEF CallStopAll, CallResetAll, Labels
<1>5. ASSUME NEW t \in Threads, NEW s \in Sections,
             CallStart(t, s) \/ CallStop(t, s) \/ CallReset(t, s)
      PROVE  Shape'
  BY <1>3, <1>5 DEF CallStart, CallStop, CallReset, Labels
<1>6. CASE UNCHANGED vars
  BY <1>6 DEF vars, shared, local, ghost, Shape
<1> QED
  BY <1>1, <1>2, <1>4, <1>5, <1>6 DEF Next

\* A step inside a function is one of a thread that is inside; the other threads stay where
\* they are, and no section is forgotten unless all are reset.
InsideFrame(t) ==
  /\ pc[t] # "idle" /\ call' = call
  /\ \A u \in Threads \ {t} : pc'[u] = pc[u] /\ arg'[u] = arg[u] /\ dlt'[u] = dlt[u]
  /\ arg'[t] = arg[t] \/ OfAll(t)
  /\ \A s \in Sections : running[s] # None => running'[s] # None
  /\ \/ \A s \in Sections : commited[s] # None => commited'[s] # None
     \/ pc[t] = "clear" /\ pc'[t] = "idle"

\* That is what the steps of start(), stop() and the resets do.
LEMMA InsideFrames ==
  ASSUME Shape, Protocol, NEW t \in Threads, Inside(t)
  PROVE  InsideFrame(t)
<1> USE DEF shared, ghost, Goto, InsideFrame
<1>0. /\ pc \in [Threads -> Labels] /\ arg \in [Threads -> Sections \cup {None}]
      /\ dlt \in [Threads -> Nat] /\ running \in [Sections -> BOOLEAN \cup {None}]
      /\ commited \in [Sections -> Nat \cup {None}]
      /\ None \notin Nat /\ TRUE # None /\ FALSE # None
  BY TimingsAssumption DEF Shape
<1>1. CASE StartRunning(t)
  BY <1>0, <1>1 DEF StartRunning
<1>2. CASE StartKnown(t)
  BY <1>0, <1>2 DEF StartKnown
<1>3. CASE StartInsert(t)
  BY <1>0, <1>3 DEF StartInsert
<1>4. CASE StartMark(t)
  BY <1>0, <1>4 DEF StartMark
<1>5. CASE StartReplace(t)
  BY <1>0, <1>5 DEF StartReplace
<1>6. CASE StopUnknown(t)
  BY <1>0, <1>6 DEF StopUnknown
<1>7. CASE StopMark(t)
  BY <1>0, <1>7 DEF StopMark
<1>8. CASE StopRef(t)
  BY <1>0, <1>8 DEF StopRef
<1>9. CASE StopTimer(t)
  BY <1>0, <1>9 DEF StopTimer
<1>10. CASE StopDelta(t)
  BY <1>0, <1>10 DEF StopDelta
<1>11. CASE StopCommit(t)
  <2>1. arg[t] \in Sections /\ dlt[t] \in Nat
    BY <1>0, <1>11 DEF StopCommit, Protocol
  <2>2. commited[arg[t]] \in Nat \cup {None}
    BY <1>0, <2>1
  <2>3. (IF commited[arg[t]] = None THEN 0 ELSE commited[arg[t]]) + dlt[t] \in Nat
    BY <2>1, <2>2
  <2>4. \A s \in Sections : commited[s] # None => commited'[s] # None
    BY <1>0, <1>11, <2>1, <2>3 DEF StopCommit
  <2> QED
    BY <1>0, <1>11, <2>4 DEF StopCommit
<1>12. CASE ResetZero(t)
  <2>1. \A s \in Sections : commited[s] # None => commited'[s] # None
    BY <1>0, <1>12 DEF ResetZero
  <2> QED
    BY <1>0, <1>12, <2>1 DEF ResetZero
<1>13. CASE NextSection(t)
  BY <1>0, <1>13 DEF NextSection, Protocol
<1>14. CASE LastSection(t)
  BY <1>0, <1>14 DEF LastSection
<1>15. CASE Clear(t)
  BY <1>0, <1>15 DEF Clear
<1> QED
  BY <1>1, <1>2, <1>3, <1>4, <1>5, <1>6, <1>7, <1>8, <1>9, <1>10, <1>11, <1>12, <1>13,
     <1>14, <1>15 DEF Inside

\* What a call changes.
Called(t, f, s, label) ==
  /\ t \in Threads /\ Call(t, f, s, label) /\ pc[t] = "idle"
  /\ \/ /\ s \in Sections /\ MayCall(t, s)
        /\ \/ f = "start" /\ label = "start"
           \/ f \in {"stop", "reset"} /\ label = "stop"
     \/ /\ s = None /\ f \in {"stop all", "reset all"} /\ label = "next"
        /\ \A r \in Sections : MayCall(t, r)
        /\ WarmingUp \/ \A r \in Sections : Users[r] = {t}

\* What a program that is matched stops is running.
StopsRunning(f, s) ==
  matched => /\ f = "stop" => running[s] = TRUE
             /\ f = "stop all" => \A r \in Known : running[r] = TRUE

\* The calls a step may be.
LEMMA Calls ==
  ASSUME NEW t \in Threads,
         \/ CallStopAll(t) \/ CallResetAll(t)
         \/ \E s \in Sections : CallStart(t, s) \/ CallStop(t, s) \/ CallReset(t, s)
  PROVE  \E f, s, label : Called(t, f, s, label) /\ StopsRunning(f, s)
<1> USE TimingsAssumption
<1>1. CASE CallStopAll(t)
  <2>1. Called(t, "stop all", None, "next") /\ StopsRunning("stop all", None)
    BY <1>1 DEF CallStopAll, Called, MayCall, StopsRunning, Stoppable
  <2> QED
    BY <2>1
<1>2. CASE CallResetAll(t)
  <2>1. Called(t, "reset all", None, "next") /\ StopsRunning("reset all", None)
    BY <1>2 DEF CallResetAll, Called, MayCall, StopsRunning, Stoppable
  <2> QED
    BY <2>1
<1>3. ASSUME NEW s \in Sections, CallStart(t, s)
      PROVE  Called(t, "start", s, "start") /\ StopsRunning("start", s)
  BY <1>3 DEF CallStart, Called, MayCall, StopsRunning, Stoppable
<1>4. ASSUME NEW s \in Sections, CallStop(t, s)
      PROVE  Called(t, "stop", s, "stop") /\ StopsRunning("stop", s)
  BY <1>4 DEF CallStop, Called, MayCall, StopsRunning, Stoppable
<1>5. ASSUME NEW s \in Sections, CallReset(t, s)
      PROVE  Called(t, "reset", s, "stop") /\ StopsRunning("reset", s)
  BY <1>5 DEF CallReset, Called, MayCall, StopsRunning, Stoppable
<1> QED
  BY <1>1, <1>2, <1>3, <1>4, <1>5

\* The variables a call sets.
CallSet(t, f, s, label) ==
  /\ \A u \in Threads \ {t} :
       pc'[u] = pc[u] /\ arg'[u] = arg[u] /\ dlt'[u] = dlt[u] /\ call'[u] = call[u]
  /\ pc'[t] = label /\ arg'[t] = s /\ call'[t] = f
  /\ open' \subseteq open
  /\ f # "start" => s \notin open'
  /\ f \in {"stop all", "reset all"} => open' = {}
  /\ UNCHANGED <<running, timer, commited, busy, clock, dlt>>

\* Every call sets them so.
LEMMA CallSets ==
  ASSUME Shape, NEW t, NEW f, NEW s, NEW label, Called(t, f, s, label)
  PROVE  CallSet(t, f, s, label)
<1>1. Call(t, f, s, label) /\ t \in Threads
  BY DEF Called
<1>2. /\ pc \in [Threads -> Labels] /\ arg \in [Threads -> Sections \cup {None}]
      /\ call \in [Threads -> {"none", "start", "stop", "reset", "stop all", "reset all"}]
      /\ open \subseteq Sections
  BY DEF Shape
<1>3. open' = CASE f = "start" -> open [] s = None -> {} [] OTHER -> open \ {s}
  BY <1>1 DEF Call
<1>4. f \in {"stop all", "reset all"} => s = None
  BY TimingsAssumption DEF Called
<1>5. /\ open' \subseteq open
      /\ f # "start" => s \notin open'
      /\ f \in {"stop all", "reset all"} => open' = {}
  BY <1>3, <1>4
<1> QED
  BY <1>1, <1>2, <1>5 DEF Call, Goto, shared, CallSet

\* The steps of a function come in its order.
LEMMA ProtocolStep == Shape /\ Protocol /\ [Next]_vars => Protocol'
<1> SUFFICES ASSUME Shape, Protocol, [Next]_vars PROVE Protocol'
  OBVIOUS
<1>0. /\ pc \in [Threads -> Labels] /\ arg \in [Threads -> Sections \cup {None}]
      /\ call \in [Threads -> {"none", "start", "stop", "reset", "stop all", "reset all"}]
  BY DEF Shape
<1>1. CASE Tick
  BY <1>1 DEF Tick, local, Protocol, OfAll
<1>2. ASSUME NEW t \in Threads, Inside(t) PROVE Protocol'
  <2> DEFINE After(u) ==
        /\ pc'[u] \in {"start", "mark", "replace"} => call[u] = "start" /\ arg'[u] \in Sections
        /\ pc'[u] \in {"stop", "ref", "timer", "delta", "commit"} =>
             call[u] \in {"stop", "reset", "stop all", "reset all"} /\ arg'[u] \in Sections
        /\ pc'[u] = "zero" => call[u] = "reset" /\ arg'[u] \in Sections
        /\ pc'[u] = "next" => OfAll(u)
        /\ pc'[u] = "clear" => call[u] = "reset all"
  <2>1. InsideFrame(t)
    BY <1>2, InsideFrames
  <2>2. ASSUME NEW u \in Threads \ {t} PROVE After(u)
    BY <2>1 DEF InsideFrame, Protocol
  <2>3. After(t)
    <3> USE <1>0 DEF Protocol, OfAll, Goto, local
    <3>1. CASE \/ StartRunning(t) \/ StartKnown(t) \/ StartInsert(t) \/ StartMark(t)
               \/ StartReplace(t)
      BY <3>1 DEF StartRunning, StartKnown, StartInsert, StartMark, StartReplace
    <3>2. CASE StopMark(t) \/ StopRef(t) \/ StopTimer(t) \/ StopDelta(t)
      BY <3>2 DEF StopMark, StopRef, StopTimer, StopDelta
    <3>3. CASE StopUnknown(t) \/ StopCommit(t)
      BY <3>3 DEF StopUnknown, StopCommit, AfterStop
    <3>4. CASE ResetZero(t) \/ Clear(t)
      BY <3>4 DEF ResetZero, Clear
    <3>5. CASE NextSection(t)
      BY <3>5, NextIsBehind DEF NextSection, Behind, Known
    <3>6. CASE LastSection(t)
      BY <3>6 DEF LastSection
    <3> QED
      BY <1>2, <3>1, <3>2, <3>3, <3>4, <3>5, <3>6 DEF Inside
  <2>4. \A u \in Threads : After(u)
    BY <2>2, <2>3
  <2> QED
    BY <2>1, <2>4 DEF InsideFrame, Protocol, OfAll
<1>3. ASSUME NEW t \in Threads, NEW f, NEW s, NEW label, Called(t, f, s, label)
      PROVE  Protocol'
  <2>1. CallSet(t, f, s, label)
    BY <1>3, CallSets
  <2> QED
    BY <1>0, <1>3, <2>1 DEF CallSet, Called, Protocol, OfAll
<1>4. CASE UNCHANGED vars
  BY <1>4 DEF vars, local, Protocol, OfAll
<1> QED
  BY <1>1, <1>2, <1>3, <1>4, Calls DEF Next

-----------------------------------------------------------------------------
\* The threads keep out of each other's way.

\* Two threads that are inside functions are about different sections, and about sections
\* that are known and committed.
LEMMA Exclusive ==
  ASSUME Shape, Protocol, OwnWork, Disciplined,
         NEW t \in Threads, NEW u \in Threads, t # u, pc[t] # "idle", pc[u] # "idle"
  PROVE  /\ ~WarmingUp /\ Warm
         /\ ~OfAll(t) /\ ~OfAll(u)
         /\ t \in Users[arg[t]] /\ u \in Users[arg[u]]
<1> USE TimingsAssumption
<1>1. Warm /\ \A s \in Sections : \A v, w \in Users[s] : v = w
  BY DEF Disciplined
<1>2. ~WarmingUp
  BY DEF OwnWork
<1>3. ASSUME NEW v \in {t, u}
      PROVE  IF OfAll(v) THEN \A s \in Sections : Users[s] = {v} ELSE v \in Users[arg[v]]
  <2>1. CASE v = First
    BY <1>1, <1>2, <2>1 DEF WarmingUp, OfAll
  <2>2. CASE v # First
    BY <2>2 DEF OwnWork
  <2> QED
    BY <2>1, <2>2
<1>4. ASSUME NEW v \in {t, u}, ~OfAll(v) PROVE arg[v] \in Sections
  BY <1>4 DEF Protocol, Shape, Labels, OfAll
<1>5. PICK s \in Sections : TRUE
  OBVIOUS
<1>6. ~(OfAll(t) /\ OfAll(u))
  BY <1>3, <1>5
<1>7. ASSUME NEW v \in {t, u}, NEW w \in {t, u}, OfAll(v), ~OfAll(w) PROVE FALSE
  <2>1. arg[w] \in Sections /\ w \in Users[arg[w]]
    BY <1>3, <1>4, <1>7
  <2>2. Users[arg[w]] = {v}
    BY <1>3, <1>7, <2>1
  <2> QED
    BY <1>7, <2>1, <2>2
<1> QED
  BY <1>1, <1>2, <1>3, <1>6, <1>7

\* What that means for the sections they are about.
LEMMA Apart ==
  ASSUME Shape, Protocol, OwnWork, Disciplined,
         NEW t \in Threads, NEW u \in Threads, t # u, pc[t] # "idle", pc[u] # "idle"
  PROVE  /\ arg[t] \in Sections /\ arg[u] \in Sections /\ arg[t] # arg[u]
         /\ running[arg[t]] # None /\ commited[arg[t]] # None
<1>1. /\ ~WarmingUp /\ Warm /\ ~OfAll(t) /\ ~OfAll(u)
      /\ t \in Users[arg[t]] /\ u \in Users[arg[u]]
  BY Exclusive
<1>2. arg[t] \in Sections /\ arg[u] \in Sections
  BY <1>1 DEF Protocol, Shape, Labels, OfAll
<1>3. arg[t] # arg[u]
  BY <1>1, <1>2 DEF Disciplined
<1> QED
  BY <1>1, <1>2, <1>3 DEF WarmingUp, Known

\* No step sends a thread to a section of another one, and none makes the program warm up
\* again while threads other than the first are inside.
LEMMA OwnWorkStep ==
  Disciplined /\ Shape /\ Protocol /\ OwnWork /\ [Next]_vars => OwnWork'
<1> SUFFICES ASSUME Disciplined, Shape, Protocol, OwnWork, [Next]_vars,
                    NEW u \in Threads \ {First}, pc'[u] # "idle"
             PROVE  /\ ~WarmingUp'
                    /\ IF OfAll(u)' THEN \A s \in Sections : Users[s] = {u}
                       ELSE u \in Users[arg'[u]]
  BY DEF OwnWork
<1> USE TimingsAssumption
<1>0. /\ Warm /\ First \in Threads
      /\ \A s \in Sections : \A v, w \in Users[s] : v = w
  BY DEF Disciplined
<1>1. CASE Tick
  BY <1>1 DEF Tick, shared, local, OwnWork, WarmingUp, Known, OfAll
<1>2. ASSUME NEW t \in Threads, Inside(t)
      PROVE  /\ ~WarmingUp'
             /\ IF OfAll(u)' THEN \A s \in Sections : Users[s] = {u} ELSE u \in Users[arg'[u]]
  <2>1. InsideFrame(t)
    BY <1>2, InsideFrames
  <2>2. pc[u] # "idle"
    BY <2>1 DEF InsideFrame
  <2>3. /\ ~WarmingUp
        /\ IF OfAll(u) THEN \A s \in Sections : Users[s] = {u} ELSE u \in Users[arg[u]]
    BY <2>2 DEF OwnWork
  <2>4. IF OfAll(u)' THEN \A s \in Sections : Users[s] = {u} ELSE u \in Users[arg'[u]]
    BY <2>1, <2>3 DEF InsideFrame, OfAll
  <2>5. \A s \in Sections : running'[s] # None /\ commited'[s] # None
    <3>1. \A s \in Sections : running[s] # None /\ commited[s] # None
      BY <1>0, <2>3 DEF WarmingUp, Known
    <3>2. ~(pc[t] = "clear" /\ pc'[t] = "idle")
      <4>1. CASE t = u
        BY <4>1
      <4>2. CASE t # u
        <5>1. ~OfAll(t)
          BY <2>1, <2>2, <4>2, Exclusive DEF InsideFrame
        <5> QED
          BY <5>1 DEF Protocol, OfAll
      <4> QED
        BY <4>1, <4>2
    <3> QED
      BY <2>1, <3>1, <3>2 DEF InsideFrame
  <2>6. pc'[First] = "idle" \/ (~OfAll(First)' /\ First \in Users[arg'[First]])
    <3>1. pc[First] = "idle" \/ (~OfAll(First) /\ First \in Users[arg[First]])
      BY <1>0, <2>3 DEF WarmingUp, OfAll
    <3>2. CASE t = First
      BY <2>1, <3>1, <3>2 DEF InsideFrame, OfAll
    <3>3. CASE t # First
      BY <1>0, <2>1, <3>1, <3>3 DEF InsideFrame, OfAll
    <3> QED
      BY <3>2, <3>3
  <2> QED
    BY <1>0, <2>4, <2>5, <2>6 DEF WarmingUp, Known, OfAll
<1>3. ASSUME NEW t \in Threads, NEW f, NEW s, NEW label, Called(t, f, s, label)
      PROVE  /\ ~WarmingUp'
             /\ IF OfAll(u)' THEN \A r \in Sections : Users[r] = {u} ELSE u \in Users[arg'[u]]
  <2>1. /\ \A v \in Threads \ {t} : pc'[v] = pc[v] /\ arg'[v] = arg[v] /\ call'[v] = call[v]
        /\ pc'[t] = label /\ arg'[t] = s /\ call'[t] = f
        /\ UNCHANGED <<running, commited>>
    <3>1. CallSet(t, f, s, label)
      BY <1>3, CallSets
    <3> QED
      BY <3>1 DEF CallSet
  <2>2. pc[t] = "idle"
    BY <1>3 DEF Called
  <2>3. ~WarmingUp
    <3>1. CASE t = u
      <4>1. PICK r \in Sections : MayCall(t, r)
        BY <1>3 DEF Called
      <4> QED
        BY <3>1, <4>1 DEF MayCall
    <3>2. CASE t # u
      BY <2>1, <3>2 DEF OwnWork
    <3> QED
      BY <3>1, <3>2
  <2>4. \/ s \in Sections /\ t \in Users[s] /\ f \in {"start", "stop", "reset"}
        \/ f \in {"stop all", "reset all"} /\ \A r \in Sections : Users[r] = {t}
    BY <1>3, <2>3 DEF Called, MayCall
  <2>5. IF OfAll(u)' THEN \A r \in Sections : Users[r] = {u} ELSE u \in Users[arg'[u]]
    <3>1. CASE t = u
      BY <2>1, <2>4, <3>1 DEF OfAll
    <3>2. CASE t # u
      BY <2>1, <3>2 DEF OwnWork, OfAll
    <3> QED
      BY <3>1, <3>2
  <2>6. pc'[First] = "idle" \/ (~OfAll(First)' /\ First \in Users[arg'[First]])
    <3>1. CASE t = First
      <4>1. pc[u] # "idle"
        BY <2>1, <3>1
      <4>2. \E r \in Sections : u \in Users[r]
        <5>1. IF OfAll(u) THEN \A r \in Sections : Users[r] = {u} ELSE u \in Users[arg[u]]
          BY <4>1 DEF OwnWork
        <5>2. CASE OfAll(u)
          BY <5>1, <5>2
        <5>3. CASE ~OfAll(u)
          <6>1. pc[u] \in Labels /\ pc[u] \notin {"next", "clear", "idle"}
            BY <4>1, <5>3 DEF Protocol, OfAll, Shape
          <6>2. arg[u] \in Sections
            BY <6>1 DEF Protocol, Labels
          <6> QED
            BY <5>1, <5>3, <6>2
        <5> QED
          BY <5>2, <5>3
      <4>3. s \in Sections /\ t \in Users[s] /\ f \in {"start", "stop", "reset"}
        BY <2>4, <3>1, <4>2
      <4> QED
        BY <2>1, <3>1, <4>3 DEF OfAll
    <3>2. CASE t # First
      BY <1>0, <2>1, <2>3, <3>2 DEF WarmingUp, OfAll
    <3> QED
      BY <3>1, <3>2
  <2> QED
    BY <1>0, <2>1, <2>3, <2>5, <2>6 DEF WarmingUp, Known, OfAll
<1>4. CASE UNCHANGED vars
  BY <1>4 DEF vars, shared, local, OwnWork, WarmingUp, Known, OfAll
<1> QED
  BY <1>1, <1>2, <1>3, <1>4, Calls DEF Next

-----------------------------------------------------------------------------
\* No time is lost.

\* The steps at which thread t is about to change its section.
Midway == {"mark", "replace", "ref", "timer", "delta", "commit"}

\* A step of thread t that is about its section s only.
Confined(t, s) ==
  /\ t \in Threads /\ s \in Sections /\ arg[t] = s /\ pc[t] # "idle"
  /\ UNCHANGED <<arg, call, clock>>
  /\ \A u \in Threads \ {t} : pc'[u] = pc[u] /\ dlt'[u] = dlt[u]
  /\ \A r \in Sections \ {s} :
       /\ running'[r] = running[r] /\ timer'[r] = timer[r]
       /\ commited'[r] = commited[r] /\ busy'[r] = busy[r]
       /\ r \in open' <=> r \in open

Working == Disciplined /\ Shape /\ Protocol /\ OwnWork /\ Balance

\* Whether a section is about to be changed is up to the thread that is about it.
LEMMA ChangingOwn ==
  ASSUME Working, NEW t, NEW s, Confined(t, s)
  PROVE  /\ Changing(s) <=> pc[t] \in Midway
         /\ Changing(s)' <=> pc'[t] \in Midway
         /\ \A r \in Sections \ {s} : Changing(r)' <=> Changing(r)
<1> USE DEF Midway
<1>1. ASSUME NEW u \in Threads \ {t}, pc[u] # "idle"
      PROVE  arg[u] # s
  BY <1>1, Apart DEF Confined, Working
<1> QED
  BY <1>1 DEF Changing, Confined

\* The numbers of a section.
LEMMA Amounts ==
  ASSUME Shape, NEW s \in Sections
  PROVE  busy[s] \in Nat /\ Commited(s) \in Nat /\ Elapsed(timer[s]) \in Nat
<1>1. busy[s] \in Nat
  BY DEF Shape
<1>2. commited[s] \in Nat \cup {None}
  BY DEF Shape
<1>3. Elapsed(timer[s]) \in 0 .. MaxClock
  BY ElapsedRange
<1> QED
  BY <1>1, <1>2, <1>3 DEF Commited

\* Nothing changes for the other threads and sections.
LEMMA Elsewhere ==
  ASSUME Working, NEW t, NEW s, Confined(t, s)
  PROVE  /\ \A u \in Threads \ {t} : ThreadOK(u)'
         /\ \A r \in Sections \ {s} : SectionOK(r)'
<1>1. ASSUME NEW u \in Threads \ {t} PROVE ThreadOK(u)'
  <2>1. CASE pc[u] = "idle"
    BY <2>1 DEF Confined, ThreadOK
  <2>2. CASE pc[u] # "idle"
    <3>1. arg[u] \in Sections \ {s} /\ ~OfAll(u)
      BY <2>2, Apart, Exclusive DEF Confined, Working
    <3>2. ThreadOK(u)
      BY DEF Working, Balance
    <3> QED
      BY <3>1, <3>2 DEF Confined, ThreadOK, Commited, Elapsed, OfAll
  <2> QED
    BY <2>1, <2>2
<1>2. ASSUME NEW r \in Sections \ {s} PROVE SectionOK(r)'
  <2>1. SectionOK(r)
    BY DEF Working, Balance
  <2> QED
    BY <2>1, ChangingOwn DEF Confined, SectionOK, Commited, Elapsed
<1> QED
  BY <1>1, <1>2

\* What is left to show of a step that is confined.
LEMMA ConfinedStep ==
  ASSUME Working, NEW t, NEW s, Confined(t, s), ThreadOK(t)', SectionOK(s)'
  PROVE  Balance'
<1>1. /\ \A u \in Threads \ {t} : ThreadOK(u)'
      /\ \A r \in Sections \ {s} : SectionOK(r)'
  BY Elsewhere
<1> QED
  BY <1>1 DEF Balance

\* Each step of start(), of stop() and the end of reset() is about one section.
LEMMA StepIsConfined ==
  ASSUME Working, NEW t \in Threads, Inside(t),
         ~(NextSection(t) \/ LastSection(t) \/ Clear(t))
  PROVE  Confined(t, arg[t])
<1>0. PICK s : s = arg[t]
  OBVIOUS
<1> USE <1>0 DEF shared, ghost, Goto, Protocol, Shape, Confined, Working
<1>1. CASE StartRunning(t) \/ StartKnown(t)
  BY <1>1 DEF StartRunning, StartKnown
<1>2. CASE StartInsert(t) \/ StartMark(t)
  BY <1>2 DEF StartInsert, StartMark
<1>3. CASE StartReplace(t)
  BY <1>3 DEF StartReplace
<1>4. CASE StopUnknown(t) \/ StopMark(t)
  BY <1>4 DEF StopUnknown, StopMark
<1>5. CASE StopRef(t) \/ StopTimer(t)
  BY <1>5 DEF StopRef, StopTimer
<1>6. CASE StopDelta(t)
  BY <1>6 DEF StopDelta
<1>7. CASE StopCommit(t)
  BY <1>7 DEF StopCommit
<1>8. CASE ResetZero(t)
  BY <1>8 DEF ResetZero
<1> QED
  BY <1>1, <1>2, <1>3, <1>4, <1>5, <1>6, <1>7, <1>8 DEF Inside

\* Each of them keeps the time.
LEMMA SectionStep ==
  ASSUME Working, NEW t \in Threads, Inside(t),
         ~(NextSection(t) \/ LastSection(t) \/ Clear(t))
  PROVE  Balance'
<1>0. PICK s : s = arg[t]
  OBVIOUS
<1>1. Confined(t, s)
  BY <1>0, StepIsConfined
<1>2. /\ s \in Sections /\ ThreadOK(t) /\ SectionOK(s)
      /\ Changing(s) <=> pc[t] \in Midway
      /\ Changing(s)' <=> pc'[t] \in Midway
      /\ arg'[t] = s /\ call'[t] = call[t]
  BY <1>1, ChangingOwn DEF Confined, Working, Balance
<1>3. busy[s] \in Nat /\ Commited(s) \in Nat /\ Elapsed(timer[s]) \in Nat /\ dlt[t] \in Nat
  BY <1>2, Amounts DEF Working, Shape
<1>4. /\ pc \in [Threads -> Labels] /\ timer \in [Sections -> Timers]
      /\ running \in [Sections -> BOOLEAN \cup {None}] /\ open \subseteq Sections
      /\ busy \in [Sections -> Nat] /\ dlt \in [Threads -> Nat]
      /\ commited \in [Sections -> Nat \cup {None}]
      /\ None \notin Nat /\ None # TRUE /\ None # FALSE
  BY TimingsAssumption DEF Working, Shape
<1>5. ThreadOK(t)' /\ SectionOK(s)'
  <2> USE <1>0, <1>2, <1>4 DEF Goto, shared, ghost, Midway
  <2>1. CASE StartRunning(t)
    <3>1. pc'[t] = "idle" /\ running[s] = TRUE /\ open' = open \cup {s} /\ pc[t] = "start"
          /\ UNCHANGED <<running, timer, commited, busy, clock>>
      BY <2>1 DEF StartRunning
    <3> QED
      BY <1>3, <3>1 DEF ThreadOK, SectionOK, Commited, Elapsed
  <2>2. CASE StartKnown(t)
    <3>1. /\ pc[t] = "start" /\ pc'[t] = "replace" /\ running[s] = FALSE /\ running'[s] = TRUE
          /\ UNCHANGED <<timer, commited, open, busy, clock>>
      BY <2>2 DEF StartKnown
    <3>2. ~OfAll(t)
      BY <3>1 DEF Working, Protocol, OfAll
    <3> QED
      BY <1>3, <3>1, <3>2 DEF ThreadOK, SectionOK, Commited, OfAll
  <2>3. CASE StartInsert(t)
    <3>1. /\ pc[t] = "start" /\ pc'[t] = "mark" /\ running[s] = None /\ running'[s] = FALSE
          /\ UNCHANGED <<commited, open, busy, clock>>
      BY <2>3 DEF StartInsert, Known
    <3>2. ~OfAll(t)
      BY <3>1 DEF Working, Protocol, OfAll
    <3> QED
      BY <1>3, <3>1, <3>2 DEF ThreadOK, SectionOK, OfAll
  <2>4. CASE StartMark(t)
    <3>1. /\ pc[t] = "mark" /\ pc'[t] = "replace" /\ running'[s] = TRUE
          /\ UNCHANGED <<timer, commited, open, busy, clock>>
      BY <2>4 DEF StartMark
    <3>2. ~OfAll(t)
      BY <3>1 DEF Working, Protocol, OfAll
    <3>3. Commited(s)' = Commited(s)
      BY <3>1 DEF Commited
    <3>4. busy[s] = 0 /\ s \notin open
      BY <3>1 DEF ThreadOK
    <3>5. busy'[s] <= Commited(s)'
      <4>1. 0 <= Commited(s)
        BY <1>3
      <4> QED
        BY <3>1, <3>3, <3>4, <4>1
    <3> QED
      BY <1>3, <3>1, <3>2, <3>4, <3>5 DEF ThreadOK, SectionOK, OfAll
  <2>5. CASE StartReplace(t)
    <3>1. /\ pc[t] = "replace" /\ pc'[t] = "idle" /\ timer'[s] = NewTimer(FALSE)
          /\ UNCHANGED <<running, commited, busy, clock>>
      BY <2>5 DEF StartReplace
    <3>2. timer'[s].ended = None /\ Elapsed(timer[s])' \in Nat
      <4>1. clock \in Nat
        BY Times DEF Working
      <4> QED
        BY <3>1, <4>1 DEF NewTimer, Elapsed
    <3>3. Commited(s)' = Commited(s)
      BY <3>1 DEF Commited
    <3>4. busy'[s] <= Commited(s)' + Elapsed(timer[s])'
      <4>1. busy[s] <= Commited(s)
        BY <3>1 DEF ThreadOK
      <4>2. busy[s] <= Commited(s) + Elapsed(timer[s])'
        BY <1>3, <3>2, <4>1
      <4> QED
        BY <3>1, <3>3, <4>2
    <3> QED
      BY <1>3, <3>1, <3>2, <3>3, <3>4 DEF ThreadOK, SectionOK
  <2>6. CASE StopUnknown(t)
    <3>1. /\ pc[t] = "stop" /\ pc'[t] \in {"idle", "zero", "next"} /\ running[s] = None
          /\ UNCHANGED <<running, timer, commited, open, busy, clock>>
      BY <2>6 DEF StopUnknown, AfterStop, Known
    <3> QED
      BY <1>3, <3>1 DEF ThreadOK, SectionOK, Commited, Elapsed, OfAll
  <2>7. CASE StopMark(t)
    <3>1. /\ pc[t] = "stop" /\ pc'[t] = "ref" /\ running[s] # None /\ running'[s] = FALSE
          /\ UNCHANGED <<timer, commited, open, busy, clock>>
      BY <2>7 DEF StopMark, Known
    <3>2. busy[s] <= Commited(s) + Elapsed(timer[s])
      <4>1. running[s] = TRUE \/ running[s] = FALSE
        BY <3>1
      <4> QED
        BY <1>3, <3>1, <4>1 DEF SectionOK
    <3>3. Commited(s)' = Commited(s) /\ Elapsed(timer[s])' = Elapsed(timer[s])
      BY <3>1 DEF Commited, Elapsed
    <3> QED
      BY <1>3, <3>1, <3>2, <3>3 DEF ThreadOK, SectionOK, OfAll
  <2>8. CASE StopRef(t)
    <3>1. /\ pc[t] = "ref" /\ pc'[t] = "timer"
          /\ UNCHANGED <<running, timer, commited, open, busy, clock>>
      BY <2>8 DEF StopRef
    <3>2. Commited(s)' = Commited(s) /\ Elapsed(timer[s])' = Elapsed(timer[s])
      BY <3>1 DEF Commited, Elapsed
    <3> QED
      BY <1>3, <3>1, <3>2 DEF ThreadOK, SectionOK, OfAll
  <2>9. CASE StopTimer(t)
    <3>1. /\ pc[t] = "timer" /\ pc'[t] = "delta"
          /\ timer'[s] = timer[s] \/ timer'[s] = Stopped(timer[s])
          /\ UNCHANGED <<running, commited, open, busy, clock>>
      BY <2>9 DEF StopTimer
    <3>2. Commited(s)' = Commited(s) /\ Elapsed(timer[s])' = Elapsed(timer[s])
      <4>1. Elapsed(Stopped(timer[s])) = Elapsed(timer[s])
        BY TimersMade DEF Working
      <4>2. Elapsed(timer[s])' = Elapsed(timer'[s])
        BY <3>1 DEF Elapsed
      <4> QED
        BY <3>1, <4>1, <4>2 DEF Commited
    <3> QED
      BY <1>3, <3>1, <3>2 DEF ThreadOK, SectionOK, OfAll
  <2>10. CASE StopDelta(t)
    <3>1. /\ pc[t] = "delta" /\ pc'[t] = "commit" /\ dlt'[t] = Elapsed(timer[s])
          /\ UNCHANGED <<running, timer, commited, open, busy, clock>>
      BY <2>10 DEF StopDelta
    <3>2. Commited(s)' = Commited(s)
      BY <3>1 DEF Commited
    <3> QED
      BY <1>3, <3>1, <3>2 DEF ThreadOK, SectionOK, OfAll
  <2>11. CASE StopCommit(t)
    <3>1. /\ pc[t] = "commit" /\ pc'[t] \in {"idle", "zero", "next"}
          /\ commited'[s] = Commited(s) + dlt[t]
          /\ UNCHANGED <<running, timer, open, busy, clock>>
      BY <2>11 DEF StopCommit, AfterStop, Commited
    <3>2. Commited(s)' = Commited(s) + dlt[t]
      <4>1. Commited(s) + dlt[t] \in Nat
        BY <1>3
      <4> QED
        BY <3>1, <4>1 DEF Commited
    <3> QED
      BY <1>3, <3>1, <3>2 DEF ThreadOK, SectionOK, OfAll
  <2>12. CASE ResetZero(t)
    <3>1. /\ pc[t] = "zero" /\ pc'[t] = "idle" /\ commited'[s] = 0 /\ busy'[s] = 0
          /\ UNCHANGED <<running, timer, open, clock>>
      BY <2>12 DEF ResetZero
    <3>2. Commited(s)' = 0 /\ Elapsed(timer[s])' = Elapsed(timer[s])
      BY <3>1 DEF Commited, Elapsed
    <3> QED
      BY <1>3, <3>1, <3>2 DEF ThreadOK, SectionOK
  <2> QED
    BY <2>1, <2>2, <2>3, <2>4, <2>5, <2>6, <2>7, <2>8, <2>9, <2>10, <2>11, <2>12 DEF Inside
<1> QED
  BY <1>1, <1>5, ConfinedStep

\* stop() and reset() of all sections go from one to the next, and clear what is committed.
LEMMA AllStep ==
  ASSUME Working, NEW t \in Threads, NextSection(t) \/ LastSection(t) \/ Clear(t)
  PROVE  Balance'
<1> USE DEF shared, ghost, Goto
<1>1. /\ pc \in [Threads -> Labels] /\ arg \in [Threads -> Sections \cup {None}]
      /\ busy \in [Sections -> Nat] /\ commited \in [Sections -> Nat \cup {None}]
  BY DEF Working, Shape
<1>2. OfAll(t) /\ pc[t] \in {"next", "clear"}
  BY DEF Working, Protocol, NextSection, LastSection, Clear, OfAll
<1>3. ASSUME NEW u \in Threads \ {t} PROVE pc[u] = "idle"
  BY <1>2, Exclusive DEF Working
<1>4. open = {}
  BY <1>2 DEF Working, Balance, ThreadOK
<1>5. \A r \in Sections : ~Changing(r) /\ SectionOK(r)
  BY <1>2, <1>3 DEF Changing, Working, Balance
<1>6. /\ call' = call /\ open' = open
      /\ pc'[t] \in {"idle", "stop", "clear"} /\ \A u \in Threads \ {t} : pc'[u] = "idle"
      /\ UNCHANGED <<running, timer, clock>>
  BY <1>1, <1>3 DEF NextSection, LastSection, Clear
<1>7. \A u \in Threads : ThreadOK(u)'
  BY <1>4, <1>6 DEF ThreadOK
<1>8. \A r \in Sections : ~Changing(r)'
  BY <1>6 DEF Changing
<1>9. ASSUME NEW r \in Sections PROVE SectionOK(r)'
  <2>1. CASE NextSection(t) \/ LastSection(t)
    <3>1. UNCHANGED <<commited, busy>>
      BY <2>1 DEF NextSection, LastSection
    <3> QED
      BY <1>5, <1>6, <1>8, <3>1 DEF SectionOK, Commited, Elapsed
  <2>2. CASE Clear(t)
    <3>1. commited'[r] = None /\ busy'[r] = 0
      BY <2>2 DEF Clear
    <3>2. Commited(r)' = 0 /\ Elapsed(timer[r])' \in Nat
      BY <1>6, <3>1, Amounts DEF Commited, Elapsed, Working
    <3> QED
      BY <1>4, <1>5, <1>6, <3>1, <3>2 DEF SectionOK
  <2> QED
    BY <2>1, <2>2
<1> QED
  BY <1>7, <1>9 DEF Balance

\* A call changes no section; a stop or a reset closes those it is about.
LEMMA CallStep ==
  ASSUME Working, NEW t, NEW f, NEW s, NEW label, Called(t, f, s, label)
  PROVE  Balance'
<1>1. CallSet(t, f, s, label) /\ t \in Threads /\ pc[t] = "idle"
  BY CallSets DEF Working, Called
<1>2. label \in {"start", "stop", "next"}
  BY DEF Called
<1>3. ASSUME NEW u \in Threads PROVE ThreadOK(u)'
  <2>1. CASE u = t
    <3>1. label = "stop" => f # "start"
      BY DEF Called
    <3> QED
      BY <1>1, <1>2, <2>1, <3>1 DEF CallSet, ThreadOK, OfAll
  <2>2. CASE u # t
    <3>1. ThreadOK(u)
      BY DEF Working, Balance
    <3> QED
      BY <1>1, <2>2, <3>1 DEF CallSet, ThreadOK, OfAll, Commited, Elapsed
  <2> QED
    BY <2>1, <2>2
<1>4. ASSUME NEW r \in Sections PROVE SectionOK(r)'
  <2>1. SectionOK(r)
    BY DEF Working, Balance
  <2>2. Changing(r)' <=> Changing(r)
    BY <1>1, <1>2 DEF CallSet, Changing
  <2> QED
    BY <1>1, <2>1, <2>2 DEF CallSet, SectionOK, Commited, Elapsed
<1> QED
  BY <1>3, <1>4 DEF Balance

\* The clock ticks: what is open is running, so its timer goes on.
LEMMA TickStep == ASSUME Working, Tick PROVE Balance'
<1>1. clock' = clock + 1 /\ UNCHANGED <<running, timer, commited, pc, call, arg, dlt, open>>
  BY DEF Tick, shared, local
<1>2. ASSUME NEW r \in Sections
      PROVE  /\ busy'[r] = IF r \in open THEN busy[r] + 1 ELSE busy[r]
             /\ Commited(r)' = Commited(r)
             /\ timer[r].ended = None => Elapsed(timer[r])' = Elapsed(timer[r]) + 1
             /\ timer[r].ended # None => Elapsed(timer[r])' = Elapsed(timer[r])
  <2>1. busy'[r] = IF r \in open THEN busy[r] + 1 ELSE busy[r]
    BY DEF Tick
  <2>2. timer[r].began \in Nat /\ clock \in Nat
    BY Times DEF Working, Shape, Timers
  <2> QED
    BY <1>1, <2>1, <2>2 DEF Commited, Elapsed
<1>3. ASSUME NEW r \in Sections
      PROVE  busy[r] \in Nat /\ Commited(r) \in Nat /\ Elapsed(timer[r]) \in Nat
  BY Amounts DEF Working
<1>4. ASSUME NEW r \in Sections
      PROVE  Elapsed(timer[r])' \in Nat /\ Elapsed(timer[r]) <= Elapsed(timer[r])'
  BY <1>2, <1>3
<1>5. ASSUME NEW u \in Threads PROVE ThreadOK(u)'
  <2>1. ThreadOK(u)
    BY DEF Working, Balance
  <2>2. CASE pc[u] \in {"idle", "start", "next", "clear"}
    BY <1>1, <2>1, <2>2 DEF ThreadOK, OfAll
  <2>3. CASE pc[u] \notin {"idle", "start", "next", "clear"}
    <3>1. PICK r \in Sections : r = arg[u]
      BY <2>3 DEF Working, Shape, Labels, Protocol
    <3>2. r \notin open /\ dlt[u] \in Nat
      BY <2>1, <2>3, <3>1 DEF ThreadOK, Working, Shape
    <3>3. busy'[r] = busy[r] /\ Commited(r)' = Commited(r) /\ Elapsed(timer[r])' >= Elapsed(timer[r])
      BY <1>2, <1>3, <1>4, <3>2
    <3>4. pc[u] \in {"ref", "timer", "delta"} => busy'[r] <= Commited(r)' + Elapsed(timer[r])'
      <4>1. pc[u] \in {"ref", "timer", "delta"} => busy[r] <= Commited(r) + Elapsed(timer[r])
        BY <2>1, <3>1 DEF ThreadOK
      <4> QED
        BY <1>3, <1>4, <3>3, <4>1
    <3> QED
      BY <1>1, <2>1, <3>1, <3>2, <3>3, <3>4 DEF ThreadOK, OfAll
  <2> QED
    BY <2>2, <2>3
<1>6. ASSUME NEW r \in Sections PROVE SectionOK(r)'
  <2>1. SectionOK(r)
    BY DEF Working, Balance
  <2>2. Changing(r)' <=> Changing(r)
    BY <1>1 DEF Changing
  <2>3. r \in open => ~Changing(r) /\ running[r] = TRUE
    <3>1. ASSUME NEW u \in Threads, arg[u] = r, pc[u] \in Midway PROVE r \notin open
      BY <3>1 DEF Working, Balance, ThreadOK, Midway
    <3> QED
      BY <2>1, <3>1 DEF Changing, Midway, SectionOK
  <2>4. running[r] = None => busy'[r] = 0
    BY <1>2, <2>1, <2>3, TimingsAssumption DEF SectionOK
  <2>5. ~Changing(r) /\ running[r] = TRUE =>
          timer[r].ended = None /\ busy'[r] <= Commited(r)' + Elapsed(timer[r])'
    BY <1>2, <1>3, <1>4, <2>1 DEF SectionOK
  <2>6. ~Changing(r) /\ running[r] = FALSE => busy'[r] <= Commited(r)'
    BY <1>2, <1>3, <2>1, <2>3 DEF SectionOK
  <2> QED
    BY <1>1, <2>1, <2>2, <2>4, <2>5, <2>6 DEF SectionOK
<1> QED
  BY <1>5, <1>6 DEF Balance

\* So every step keeps the time.
LEMMA BalanceStep == Working /\ [Next]_vars => Balance'
<1> SUFFICES ASSUME Working, [Next]_vars PROVE Balance'
  OBVIOUS
<1>1. ASSUME NEW t \in Threads, Inside(t) PROVE Balance'
  BY <1>1, SectionStep, AllStep
<1>2. CASE UNCHANGED vars
  BY <1>2 DEF vars, shared, local, ghost, Working, Balance, ThreadOK, SectionOK, Changing,
     Commited, Elapsed, OfAll
<1> QED
  BY <1>1, <1>2, TickStep, CallStep, Calls DEF Next

-----------------------------------------------------------------------------
\* What the invariant says: at rest the time is committed, and whoever inserts is alone.
LEMMA RightTimes == Disciplined /\ TimingsIndInv => TimingsInv
<1> SUFFICES ASSUME Disciplined, TimingsIndInv PROVE TimingsInv
  OBVIOUS
<1> USE DEF TimingsIndInv
<1>1. TypeOK
  <2>1. open \subseteq Known
    <3>1. \A s \in open : s \in Sections /\ running[s] = TRUE
      BY DEF Balance, SectionOK, Shape
    <3> QED
      BY <3>1, TimingsAssumption DEF Known
  <2>2. \A s \in Sections : Elapsed(timer[s]) \in 0 .. MaxClock
    BY ElapsedRange
  <2>3. /\ \A s \in Sections : commited[s] = None \/ commited[s] \in Nat
        /\ \A t \in Threads : dlt[t] \in Nat
    BY DEF Shape
  <2> QED
    BY <2>1, <2>2, <2>3 DEF TypeOK, Shape
<1>2. NoTimeLost
  <2> SUFFICES ASSUME Quiet, NEW s \in Known, running[s] = FALSE PROVE DeltaOf(s) >= busy[s]
    BY DEF NoTimeLost
  <2>1. s \in Sections /\ ~Changing(s)
    BY DEF Known, Changing, Quiet
  <2>2. busy[s] <= Commited(s)
    BY <2>1 DEF Balance, SectionOK
  <2>3. /\ busy[s] \in Nat /\ Elapsed(timer[s]) \in Nat
        /\ commited[s] \in Nat \cup {None}
    BY <2>1, Amounts DEF Shape
  <2> QED
    BY <2>2, <2>3 DEF DeltaOf, Commited
<1>3. MapsNotRaced
  <2> SUFFICES ASSUME NEW t \in Threads, NEW u \in Threads, t # u
               PROVE  Inserts(t) \cap Accesses(u) = {}
    BY DEF MapsNotRaced
  <2>1. CASE pc[t] = "idle"
    BY <2>1 DEF Inserts
  <2>2. CASE pc[u] = "idle"
    BY <2>2 DEF Accesses
  <2>3. CASE pc[t] # "idle" /\ pc[u] # "idle"
    <3>1. arg[t] \in Sections /\ running[arg[t]] # None /\ commited[arg[t]] # None /\ ~OfAll(t)
      BY <2>3, Apart, Exclusive
    <3>2. pc[t] # "clear" /\ arg[t] \in Known
      BY <3>1 DEF Protocol, OfAll, Known
    <3> QED
      BY <3>1, <3>2 DEF Inserts
  <2> QED
    BY <2>1, <2>2, <2>3
<1> QED
  BY <1>1, <1>2, <1>3 DEF TimingsInv

\* At the start no thread is inside a function and nothing is timed.
LEMMA TimingsInitially == Init => TimingsIndInv
<1> SUFFICES ASSUME Init PROVE TimingsIndInv
  OBVIOUS
<1> USE TimingsAssumption DEF Init
<1>1. /\ \A t \in Threads : pc[t] = "idle"
      /\ \A s \in Sections : running[s] = None /\ timer[s] = NoTimer /\ busy[s] = 0
      /\ open = {}
  OBVIOUS
<1>2. NoTimer \in Timers /\ TimerOK(NoTimer, clock)
  BY DEF NoTimer, Timers, TimerOK
<1>3. Shape
  BY <1>1, <1>2 DEF Shape, Labels
<1>4. Protocol /\ OwnWork
  BY <1>1 DEF Protocol, OwnWork
<1>5. Balance
  BY <1>1 DEF Balance, ThreadOK, SectionOK
<1> QED
  BY <1>3, <1>4, <1>5 DEF TimingsIndInv

\* Every step keeps the invariant.
LEMMA TimingsStep == Disciplined /\ TimingsIndInv /\ [Next]_vars => TimingsIndInv'
BY ShapeStep, ProtocolStep, OwnWorkStep, BalanceStep DEF TimingsIndInv, Working

\* In a program where a thread has used every section before the others start and each
\* section is one thread's, for any number of both: however start(), stop() and the resets
\* interleave, no section reports less than it was open, and no map is changed under a
\* thread that looks something up in it, although stop() and reset() do not lock.
THEOREM NoTimeIsLost ==
  ASSUME Disciplined
  PROVE  Spec => []TimingsInv
<1>1. TimingsIndInv /\ [Next]_vars => TimingsIndInv'
  BY TimingsStep
<1>2. TimingsIndInv => TimingsInv
  BY RightTimes
<1> QED
  BY <1>1, <1>2, TimingsInitially, PTL DEF Spec

-----------------------------------------------------------------------------
(* The timers follow the flags.                                            *)

\* The sections thread t still has to stop.
ToStop(t) ==
  (IF pc[t] \in {"stop", "ref", "timer"} THEN {arg[t]} ELSE {})
  \cup (IF OfAll(t) THEN Behind(t) ELSE {})

\* The timer of the section thread t is about: off before start() replaces it, and since
\* stop() has stopped it; what stop() is going to commit is what it shows.
TimerOf(t) ==
  /\ pc[t] = "timer" => ref[t]
  /\ pc[t] \in {"mark", "replace", "zero"} => ~On(arg[t])
  /\ pc[t] \in {"delta", "commit"} => timer[arg[t]].ended # None
  /\ pc[t] = "commit" => dlt[t] = Elapsed(timer[arg[t]])

\* The loop over the sections: those that are left are running if the program stops what
\* runs only, the others are not.
LoopOf(t) ==
  pc[t] # "idle" =>
    /\ matched /\ call[t] \in {"stop", "stop all"} => \A s \in ToStop(t) : On(s)
    /\ OfAll(t) => \A s \in Sections \ ToStop(t) : ~On(s)
    /\ pc[t] = "clear" => Behind(t) = {}

\* The timers follow the flags, but for those that are being changed.
TimersFollow ==
  /\ ref \in [Threads -> BOOLEAN]
  /\ \A s \in Sections : ~Changing(s) => (On(s) <=> running[s] = TRUE)
  /\ \A s \in Sections : running[s] = None => commited[s] \in {None, 0}
  /\ \A t \in Threads : TimerOf(t) /\ LoopOf(t)

\* No two threads are inside functions about the same section.
AllApart ==
  \A t, u \in Threads : t # u /\ pc[t] # "idle" /\ pc[u] # "idle" =>
    /\ arg[t] \in Sections /\ arg[u] \in Sections /\ arg[t] # arg[u]
    /\ ~OfAll(t) /\ ~OfAll(u)

\* That is what Apart and Exclusive say ...
LEMMA KeptApart == Working => AllApart
BY Apart, Exclusive DEF Working, AllApart

\* ... and it holds after a step as well.
LEMMA StayApart == Working' => AllApart'
BY KeptApart, PTL

\* What a step of thread t leaves of its section s.
TimerLeft(t, s) ==
  /\ ref' \in [Threads -> BOOLEAN]
  /\ \A u \in Threads : ref'[u] = ref[u] \/ u = t \/ arg[u] = s
  /\ ~Changing(s)' => (On(s)' <=> running'[s] = TRUE)
  /\ running'[s] = None => commited'[s] \in {None, 0}
  /\ pc'[t] = "timer" => ref'[t]
  /\ pc'[t] \in {"mark", "replace", "zero"} => ~On(s)'
  /\ pc'[t] \in {"delta", "commit"} => timer'[s].ended # None
  /\ pc'[t] = "commit" => dlt'[t] = Elapsed(timer[s])'
  /\ pc'[t] \in {"stop", "ref", "timer"} =>
       (On(s)' <=> On(s)) /\ pc[t] \in {"stop", "ref", "timer"}
  /\ call[t] # "start" => (running'[s] = None <=> running[s] = None)
  /\ call[t] # "start" /\ pc'[t] \notin {"stop", "ref", "timer"} => ~On(s)'
  /\ call[t] = "start" /\ pc'[t] = "idle" => On(s)'
  /\ pc'[t] # "clear"

\* start() leaves it on, stop() and reset() leave it off.
LEMMA TimerStep ==
  ASSUME Working, TimersFollow, NEW t \in Threads, Inside(t),
         ~(NextSection(t) \/ LastSection(t) \/ Clear(t)),
         NEW s \in Sections, Confined(t, s)
  PROVE  TimerLeft(t, s)
<1>1. /\ Changing(s) <=> pc[t] \in Midway
      /\ Changing(s)' <=> pc'[t] \in Midway
  BY ChangingOwn
<1>2. /\ arg[t] = s /\ call' = call /\ clock' = clock
      /\ ~Changing(s) => (On(s) <=> running[s] = TRUE)
      /\ running[s] = None => commited[s] \in {None, 0}
      /\ ref \in [Threads -> BOOLEAN]
      /\ ThreadOK(t) /\ TimerOf(t)
  BY <1>1 DEF Confined, TimersFollow, Working, Balance
<1>3. /\ pc[t] \in {"start", "mark", "replace"} => call[t] = "start"
      /\ pc[t] \in {"stop", "ref", "timer", "delta", "commit"} =>
           call[t] \in {"stop", "reset", "stop all", "reset all"}
      /\ pc[t] = "zero" => call[t] = "reset"
  BY DEF Working, Protocol
<1>4. /\ pc \in [Threads -> Labels] /\ timer \in [Sections -> Timers]
      /\ running \in [Sections -> BOOLEAN \cup {None}]
      /\ commited \in [Sections -> Nat \cup {None}] /\ dlt \in [Threads -> Nat]
      /\ clock \in Nat /\ None \notin Nat /\ None # TRUE /\ None # FALSE
  BY Times, TimingsAssumption DEF Working, Shape
<1> USE <1>1, <1>2, <1>3, <1>4 DEF Goto, shared, ghost, Midway, TimerLeft
<1>5. CASE StartRunning(t)
  BY <1>5 DEF StartRunning, On
<1>6. CASE StartKnown(t)
  BY <1>6 DEF StartKnown, On
<1>7. CASE StartInsert(t)
  <2>1. /\ running'[s] = FALSE /\ timer'[s] = NewTimer(TRUE) /\ pc'[t] = "mark"
        /\ pc[t] = "start" /\ ref' = ref
    BY <1>7 DEF StartInsert
  <2>2. ~On(s)'
    BY <2>1 DEF On, NewTimer
  <2> QED
    BY <2>1, <2>2
<1>8. CASE StartMark(t)
  BY <1>8 DEF StartMark, On, TimerOf
<1>9. CASE StartReplace(t)
  <2>1. /\ timer'[s] = NewTimer(FALSE) /\ running'[s] = TRUE /\ pc'[t] = "idle"
        /\ call[t] = "start" /\ ref' \in [Threads -> BOOLEAN]
        /\ \A u \in Threads : ref'[u] = ref[u] \/ arg[u] = s
    BY <1>9 DEF StartReplace, ThreadOK
  <2>2. On(s)'
    BY <2>1 DEF On, NewTimer
  <2> QED
    BY <2>1, <2>2
<1>10. CASE StopUnknown(t)
  <2>1. /\ running[s] = None /\ UNCHANGED <<timer, running, commited, ref>>
        /\ pc[t] = "stop" /\ pc'[t] \in {"idle", "zero", "next"}
    BY <1>10 DEF StopUnknown, AfterStop, Known
  <2> QED
    BY <2>1 DEF On
<1>11. CASE StopMark(t) \/ StopRef(t)
  BY <1>11 DEF StopMark, StopRef, On, Known
<1>12. CASE StopTimer(t)
  <2>1. /\ timer'[s] = Stopped(timer[s]) /\ pc'[t] = "delta" /\ UNCHANGED <<ref, running, commited>>
        /\ pc[t] = "timer"
    BY <1>12 DEF StopTimer, TimerOf
  <2>2. Stopped(timer[s]).ended # None
    BY DEF Stopped, Timers
  <2> QED
    BY <2>1, <2>2 DEF On
<1>13. CASE StopDelta(t)
  BY <1>13 DEF StopDelta, On, TimerOf, Elapsed
<1>14. CASE StopCommit(t)
  <2>1. /\ running[s] = FALSE /\ UNCHANGED <<timer, running, ref>>
        /\ pc[t] = "commit" /\ pc'[t] \in {"idle", "zero", "next"} /\ ~On(s)
    BY <1>14 DEF StopCommit, AfterStop, ThreadOK, TimerOf, On
  <2> QED
    BY <2>1 DEF On
<1>15. CASE ResetZero(t)
  BY <1>15 DEF ResetZero, On, TimerOf
<1> QED
  BY <1>5, <1>6, <1>7, <1>8, <1>9, <1>10, <1>11, <1>12, <1>13, <1>14, <1>15
     DEF Inside

\* Whether the program stops what runs only is up to the program.
LEMMA MatchedStays ==
  ASSUME NEW t, Inside(t)
  PROVE  matched' = matched
BY DEF Inside, StartRunning, StartKnown, StartInsert, StartMark, StartReplace, StopUnknown,
       StopMark, StopRef, StopTimer, StopDelta, StopCommit, ResetZero, NextSection,
       LastSection, Clear

\* So the steps about one section keep the timers with the flags.
LEMMA SectionFollows ==
  ASSUME Working, TimersFollow, NEW t \in Threads, Inside(t),
         ~(NextSection(t) \/ LastSection(t) \/ Clear(t))
  PROVE  TimersFollow'
<1>1. PICK s : s = arg[t]
  OBVIOUS
<1>2. Confined(t, s) /\ s \in Sections
  BY <1>1, StepIsConfined DEF Confined
<1>3. TimerLeft(t, s)
  BY <1>2, TimerStep
<1>4. /\ UNCHANGED <<arg, call, clock, matched>>
      /\ \A u \in Threads \ {t} : pc'[u] = pc[u] /\ dlt'[u] = dlt[u]
      /\ \A r \in Sections \ {s} : (On(r)' <=> On(r)) /\ Elapsed(timer[r])' = Elapsed(timer[r])
      /\ \A r \in Sections \ {s} : running'[r] = running[r] /\ commited'[r] = commited[r]
      /\ \A r \in Sections \ {s} : timer'[r] = timer[r]
      /\ \A r \in Sections \ {s} : Changing(r)' <=> Changing(r)
  BY <1>2, ChangingOwn, MatchedStays DEF Confined, On, Elapsed
<1>5. AllApart /\ pc[t] # "idle" /\ arg[t] = s
  BY <1>2, KeptApart DEF Confined
<1>6. ASSUME NEW u \in Threads \ {t} PROVE TimerOf(u)' /\ LoopOf(u)'
  <2>1. TimerOf(u) /\ LoopOf(u)
    BY DEF TimersFollow
  <2>2. CASE pc[u] = "idle"
    BY <1>4, <2>2 DEF TimerOf, LoopOf
  <2>3. CASE pc[u] # "idle"
    <3>1. arg[u] \in Sections \ {s} /\ ~OfAll(u)
      BY <1>5, <2>3 DEF AllApart
    <3>2. TimerOf(u)'
      BY <1>3, <1>4, <2>1, <3>1 DEF TimerOf, TimerLeft
    <3>3. LoopOf(u)'
      <4>1. pc[u] # "clear" /\ pc'[u] = pc[u] /\ call' = call /\ arg' = arg
        BY <1>4, <3>1 DEF Working, Protocol, OfAll
      <4> QED
        BY <1>4, <2>1, <3>1, <4>1 DEF LoopOf, ToStop, OfAll
    <3> QED
      BY <3>2, <3>3
  <2> QED
    BY <2>2, <2>3
<1>7. TimerOf(t)'
  BY <1>3, <1>4, <1>5 DEF TimerLeft, TimerOf
<1>8. LoopOf(t)'
  <2>1. LoopOf(t) /\ pc'[t] # "clear"
    BY <1>3 DEF TimersFollow, TimerLeft
  <2>2. CASE ~OfAll(t)
    BY <1>3, <1>4, <1>5, <2>1, <2>2 DEF LoopOf, ToStop, OfAll, TimerLeft
  <2>3. CASE OfAll(t)
    <3>1. call[t] # "start"
      BY <2>3 DEF OfAll
    <3>2. Known' = Known
      BY <1>3, <1>4, <3>1 DEF Known, TimerLeft
    <3>3. Behind(t)' = Behind(t) /\ OfAll(t)'
      BY <1>4, <2>3, <3>2 DEF Behind, OfAll
    <3>4. s \in Nat /\ s # None /\ Behind(t) \subseteq Sections \ {s}
      BY <1>2, <1>5, TimingsAssumption DEF Behind, Known
    <3>5. \A r \in ToStop(t)' : On(r)' <=> On(r)
      BY <1>3, <1>4, <1>5, <3>3, <3>4 DEF ToStop, TimerLeft
    <3>6. ToStop(t)' \subseteq ToStop(t)
      BY <1>3, <1>4, <1>5, <2>3, <3>3 DEF ToStop, TimerLeft
    <3>7. ASSUME NEW r \in Sections \ ToStop(t)' PROVE ~On(r)'
      <4>1. CASE r = s
        BY <1>3, <1>4, <1>5, <3>1, <3>7, <4>1 DEF ToStop, TimerLeft
      <4>2. CASE r # s
        <5>1. r \notin ToStop(t)
          BY <1>5, <2>3, <3>3, <3>7, <4>2 DEF ToStop
        <5> QED
          BY <1>4, <1>5, <2>1, <2>3, <4>2, <5>1 DEF LoopOf
      <4> QED
        BY <4>1, <4>2
    <3> QED
      BY <1>4, <1>5, <2>1, <3>3, <3>5, <3>6, <3>7 DEF LoopOf, OfAll
  <2> QED
    BY <2>2, <2>3
<1>9. ASSUME NEW r \in Sections
      PROVE  /\ ~Changing(r)' => (On(r)' <=> running'[r] = TRUE)
             /\ running'[r] = None => commited'[r] \in {None, 0}
  <2>1. CASE r = s
    BY <1>3, <2>1 DEF TimerLeft
  <2>2. CASE r # s
    BY <1>4, <2>2 DEF TimersFollow
  <2> QED
    BY <2>1, <2>2
<1> QED
  BY <1>3, <1>6, <1>7, <1>8, <1>9 DEF TimersFollow, TimerLeft
\* While a thread is about all sections no other one is inside a function.
LEMMA AloneForAll ==
  ASSUME Working, NEW t \in Threads, OfAll(t), pc[t] # "idle"
  PROVE  \A u \in Threads \ {t} : pc[u] = "idle"
BY KeptApart DEF AllApart

\* The loop goes from one section to the next, until none is left.
LEMMA LoopFollows ==
  ASSUME Working, TimersFollow, NEW t \in Threads, Inside(t),
         NextSection(t) \/ LastSection(t) \/ Clear(t)
  PROVE  TimersFollow'
<1> USE DEF shared, ghost, Goto
<1>1. /\ pc \in [Threads -> Labels] /\ arg \in [Threads -> Sections \cup {None}]
      /\ Sections \subseteq Nat /\ None \notin Nat
  BY TimingsAssumption DEF Working, Shape
<1>2. OfAll(t) /\ pc[t] \in {"next", "clear"} /\ LoopOf(t)
  BY DEF Working, Protocol, NextSection, LastSection, Clear, OfAll, TimersFollow
<1>3. \A u \in Threads \ {t} : pc[u] = "idle"
  BY <1>2, AloneForAll
<1>4. /\ pc'[t] \in {"idle", "stop", "clear"} /\ \A u \in Threads \ {t} : pc'[u] = "idle"
      /\ UNCHANGED <<matched, running, timer, clock, call, ref, dlt>>
  BY <1>1, <1>3 DEF NextSection, LastSection, Clear
<1>5. /\ Known' = Known
      /\ \A r \in Sections : (On(r)' <=> On(r)) /\ ~Changing(r) /\ ~Changing(r)'
  BY <1>2, <1>3, <1>4 DEF Known, On, Changing
<1>6. \A r \in Sections : commited'[r] = commited[r] \/ commited'[r] = None
  BY DEF NextSection, LastSection, Clear
<1>7. ASSUME NEW u \in Threads PROVE TimerOf(u)'
  BY <1>4 DEF TimerOf
<1>8. ASSUME NEW u \in Threads PROVE LoopOf(u)'
  <2>1. CASE u # t
    BY <1>4, <2>1 DEF LoopOf
  <2>2. CASE NextSection(t)
    <3>1. PICK n : n = Min(Behind(t))
      OBVIOUS
    <3>2. /\ pc[t] = "next" /\ pc'[t] = "stop" /\ arg'[t] = n
          /\ n \in Behind(t) /\ \A r \in Behind(t) : n <= r
      <4>1. Behind(t) # {} /\ n \in Behind(t)
        BY <2>2, <3>1, NextIsBehind DEF NextSection
      <4>2. Behind(t) \in SUBSET Nat
        BY <1>1 DEF Behind, Known
      <4>3. \E m \in Behind(t) : \A r \in Behind(t) : m <= r
        BY <4>1, <4>2, LeastNatural
      <4>4. \A r \in Behind(t) : n <= r
        BY <3>1, <4>3 DEF Min
      <4> QED
        BY <1>1, <2>2, <3>1, <4>1, <4>4 DEF NextSection
    <3>3. Behind(t)' = {r \in Known : r > n}
      BY <1>1, <1>5, <3>2 DEF Behind, Known
    <3>4. ToStop(t)' = Behind(t) /\ ToStop(t) = Behind(t)
      <4>1. \A r \in Known : r \in Behind(t) <=> r > n \/ r = n
        <5>1. n \in Known /\ n \in Nat /\ Known \subseteq Nat
          BY <1>1, <3>2 DEF Behind, Known
        <5>2. arg[t] # None => n > arg[t] /\ arg[t] \in Nat
          BY <1>1, <3>2 DEF Behind
        <5>3. \A r \in Known : r \in Behind(t) <=> (arg[t] # None => r > arg[t])
          BY DEF Behind
        <5>4. \A r \in Known : r > n => (arg[t] # None => r > arg[t])
          BY <5>1, <5>2
        <5>5. \A r \in Behind(t) : r > n \/ r = n
          <6>1. Behind(t) \subseteq Nat
            BY <5>1 DEF Behind
          <6> QED
            BY <3>2, <5>1, <6>1
        <5> QED
          BY <3>2, <5>3, <5>4, <5>5
      <4>2. Behind(t) = Behind(t)' \cup {n}
        BY <3>2, <3>3, <4>1 DEF Behind
      <4>3. OfAll(t)' /\ OfAll(t)
        BY <1>2, <1>4 DEF OfAll
      <4> QED
        BY <3>2, <4>2, <4>3 DEF ToStop
    <3> QED
      BY <1>2, <1>4, <1>5, <2>1, <3>2, <3>4 DEF LoopOf, OfAll, Behind, Known
  <2>3. CASE LastSection(t)
    <3>1. Behind(t) = {} /\ arg' = arg /\ pc[t] = "next" /\ pc'[t] \in {"clear", "idle"}
      BY <1>1, <2>3 DEF LastSection
    <3>2. Behind(t)' = {}
      BY <1>5, <3>1 DEF Behind
    <3>3. ToStop(t) = {} /\ ToStop(t)' = {}
      BY <3>1, <3>2 DEF ToStop
    <3> QED
      BY <1>2, <1>4, <1>5, <2>1, <3>1, <3>2, <3>3 DEF LoopOf, OfAll
  <2>4. CASE Clear(t)
    BY <1>1, <2>1, <2>4 DEF Clear, LoopOf
  <2> QED
    BY <2>1, <2>2, <2>3, <2>4
<1>9. \A r \in Sections :
        /\ On(r)' <=> running'[r] = TRUE
        /\ running'[r] = None => commited'[r] \in {None, 0}
  BY <1>4, <1>5, <1>6 DEF TimersFollow
<1>10. ref' \in [Threads -> BOOLEAN]
  BY <1>4 DEF TimersFollow
<1> QED
  BY <1>7, <1>8, <1>9, <1>10 DEF TimersFollow

\* A call leaves all timers as they are.
LEMMA CallFollows ==
  ASSUME Working, Working', TimersFollow, NEW t, NEW f, NEW s, NEW label,
         Called(t, f, s, label), StopsRunning(f, s)
  PROVE  TimersFollow'
<1>1. CallSet(t, f, s, label) /\ t \in Threads /\ pc[t] = "idle"
  BY CallSets DEF Working, Called
<1>2. matched' = matched /\ ref' = ref
  BY DEF Called, Call, shared
<1>3. /\ Known' = Known
      /\ \A r \in Sections : On(r)' <=> On(r)
      /\ \A r \in Sections : Elapsed(timer[r])' = Elapsed(timer[r])
  BY <1>1 DEF CallSet, Known, On, Elapsed
<1>4. label \in {"start", "stop", "next"}
  BY DEF Called
<1>5. \A r \in Sections : Changing(r)' <=> Changing(r)
  BY <1>1, <1>4 DEF CallSet, Changing
<1>6. \A r \in Sections :
        /\ ~Changing(r)' => (On(r)' <=> running'[r] = TRUE)
        /\ running'[r] = None => commited'[r] \in {None, 0}
  BY <1>1, <1>3, <1>5 DEF TimersFollow, CallSet
<1>7. ASSUME NEW u \in Threads \ {t} PROVE TimerOf(u)' /\ LoopOf(u)'
  <2>1. TimerOf(u) /\ LoopOf(u)
    BY DEF TimersFollow
  <2>2. pc'[u] = pc[u] /\ arg'[u] = arg[u] /\ dlt'[u] = dlt[u] /\ call'[u] = call[u]
    BY <1>1 DEF CallSet
  <2>3. timer' = timer /\ clock' = clock
    BY <1>1 DEF CallSet
  <2>4. TimerOf(u)'
    BY <1>2, <2>1, <2>2, <2>3 DEF TimerOf, On, Elapsed
  <2>5. Behind(u)' = Behind(u) /\ ToStop(u)' = ToStop(u)
    BY <1>3, <2>2 DEF Behind, ToStop, OfAll
  <2>6. LoopOf(u)'
    BY <1>2, <2>1, <2>2, <2>3, <2>5 DEF LoopOf, OfAll, On
  <2> QED
    BY <2>4, <2>6
<1>8. TimerOf(t)'
  BY <1>1, <1>4 DEF CallSet, TimerOf
<1>9. LoopOf(t)'
  <2>1. pc'[t] = label /\ arg'[t] = s /\ call'[t] = f
    BY <1>1 DEF CallSet
  <2>2. CASE s \in Sections /\ f \in {"start", "reset"}
    BY <1>4, <2>1, <2>2 DEF LoopOf, OfAll
  <2>3. CASE s \in Sections /\ f = "stop" /\ label = "stop"
    <3>1. ~Changing(s)'
      BY <1>1, <2>1, <2>3, StayApart DEF AllApart, Changing
    <3>2. ToStop(t)' = {s} /\ ~OfAll(t)'
      BY <2>1, <2>3 DEF ToStop, OfAll
    <3>3. matched' => On(s)'
      BY <1>1, <1>2, <1>6, <2>3, <3>1 DEF StopsRunning, CallSet
    <3> QED
      BY <2>1, <2>3, <3>2, <3>3 DEF LoopOf
  <2>4. CASE s = None /\ f \in {"stop all", "reset all"} /\ label = "next"
    <3>1. OfAll(t)' /\ ToStop(t)' = Known
      BY <1>3, <2>1, <2>4 DEF OfAll, ToStop, Behind
    <3>2. \A u \in Threads \ {t} : pc'[u] = "idle"
      BY <1>1, <2>1, <2>4, <3>1, StayApart DEF AllApart
    <3>3. \A r \in Sections : ~Changing(r)'
      BY <2>1, <2>4, <3>2 DEF Changing
    <3>4. \A r \in Sections : On(r)' <=> running[r] = TRUE
      BY <1>1, <1>6, <3>3 DEF CallSet
    <3>5. matched' /\ f = "stop all" => \A r \in Known : On(r)'
      BY <1>2, <2>4, <3>4 DEF StopsRunning, Known
    <3>6. \A r \in Sections \ Known : ~On(r)'
      BY <3>4, TimingsAssumption DEF Known
    <3> QED
      BY <2>1, <2>4, <3>1, <3>5, <3>6 DEF LoopOf
  <2> QED
    BY <2>2, <2>3, <2>4 DEF Called
<1> QED
  BY <1>2, <1>6, <1>7, <1>8, <1>9 DEF TimersFollow

\* The clock leaves what a stopped timer shows as it is.
LEMMA TickFollows ==
  ASSUME Working, TimersFollow, Tick
  PROVE  TimersFollow'
<1>1. UNCHANGED <<matched, running, timer, commited, pc, call, arg, ref, dlt>>
  BY DEF Tick, shared, local
<1>2. \A r \in Sections : timer[r].ended # None => Elapsed(timer[r])' = Elapsed(timer[r])
  BY <1>1 DEF Elapsed
<1>3. ASSUME NEW t \in Threads PROVE TimerOf(t)' /\ LoopOf(t)'
  <2>1. TimerOf(t) /\ LoopOf(t)
    BY DEF TimersFollow
  <2>2. pc[t] = "commit" => arg[t] \in Sections
    BY DEF Working, Protocol
  <2>3. TimerOf(t)'
    BY <1>1, <1>2, <2>1, <2>2 DEF TimerOf, On
  <2>4. Behind(t)' = Behind(t)
    BY <1>1 DEF Behind, Known
  <2> QED
    BY <1>1, <2>1, <2>3, <2>4 DEF LoopOf, ToStop, OfAll, On
<1>4. \A r \in Sections : Changing(r)' <=> Changing(r)
  BY <1>1 DEF Changing
<1>5. /\ ref' \in [Threads -> BOOLEAN]
      /\ \A s \in Sections : ~Changing(s)' => (On(s)' <=> running'[s] = TRUE)
      /\ \A s \in Sections : running'[s] = None => commited'[s] \in {None, 0}
  <2>1. \A s \in Sections : On(s)' <=> On(s)
    BY <1>1 DEF On
  <2> QED
    BY <1>1, <1>4, <2>1 DEF TimersFollow
<1> QED
  BY <1>3, <1>5 DEF TimersFollow
\* So every step keeps the timers with the flags.
LEMMA FollowStep ==
  ASSUME Disciplined
  PROVE  TimingsIndInv /\ TimersFollow /\ [Next]_vars => TimersFollow'
<1> SUFFICES ASSUME Working, Working', TimersFollow, [Next]_vars PROVE TimersFollow'
  BY TimingsStep DEF Working, TimingsIndInv, Disciplined
<1>1. CASE UNCHANGED vars
  BY <1>1, ZenonT(60) DEF vars, shared, local, ghost, TimersFollow, TimerOf, LoopOf, ToStop, Behind, Known,
     On, Changing, Elapsed, OfAll
<1>2. ASSUME NEW t \in Threads, Inside(t) PROVE TimersFollow'
  BY <1>2, SectionFollows, LoopFollows
<1> QED
  BY <1>1, <1>2, TickFollows, CallFollows, Calls DEF Next

-----------------------------------------------------------------------------
\* What a section shows: what is committed and what its timer adds to it. A stop takes
\* effect when the timer stops, a reset too, although both still have to write
\* commited_deltas_.
Stopping(t, s) == call[t] \in {"stop", "stop all"} /\ arg[t] = s /\ pc[t] \in {"delta", "commit"}

Resetting(t, s) ==
  \/ call[t] = "reset" /\ arg[t] = s /\ pc[t] \in {"delta", "commit", "zero"}
  \/ call[t] = "reset all" /\ arg[t] = s /\ pc[t] \in {"delta", "commit"}
  \/ call[t] = "reset all" /\ pc[t] \in {"stop", "ref", "timer", "delta", "commit"}
     /\ s < arg[t]
  \/ call[t] = "reset all" /\ pc[t] \in {"next", "clear"} /\ s \notin Behind(t)

Uncommited(s) ==
  IF On(s) \/ \E t \in Threads : Stopping(t, s) THEN Elapsed(timer[s]) ELSE 0

Total(s) ==
  IF \E t \in Threads : Resetting(t, s) THEN 0
  ELSE (IF commited[s] = None THEN 0 ELSE commited[s]) + Uncommited(s)

BeingReset(s) == \E t \in Threads : Resetting(t, s)
BeingStopped(s) == \E t \in Threads : Stopping(t, s)

\* A reset has taken effect on s, or s is not known, or its time is committed and in the
\* timer if that runs or a stop() is about to commit it.
Shown(s) ==
  /\ BeingReset(s) \/ running[s] = None => ~On(s) /\ Total(s) = 0
  /\ ~BeingReset(s) /\ (On(s) \/ BeingStopped(s)) => Total(s) = Commited(s) + Elapsed(timer[s])
  /\ ~BeingReset(s) /\ ~On(s) /\ ~BeingStopped(s) => Total(s) = Commited(s)

\* Total() shows that.
LEMMA TotalIsShown == Working /\ TimersFollow => \A s \in Sections : Shown(s)
<1> SUFFICES ASSUME Working, TimersFollow, NEW s \in Sections PROVE Shown(s)
  OBVIOUS
<1> USE TimingsAssumption
<1>1. ASSUME NEW t \in Threads, Resetting(t, s) PROVE ~On(s)
  <2>1. TimerOf(t) /\ LoopOf(t)
    BY DEF TimersFollow
  <2>2. CASE arg[t] = s /\ pc[t] \in {"delta", "commit", "zero"}
    BY <2>1, <2>2 DEF TimerOf, On
  <2>3. CASE /\ call[t] = "reset all" /\ s < arg[t]
             /\ pc[t] \in {"stop", "ref", "timer", "delta", "commit"}
    <3>1. arg[t] \in Sections
      BY <2>3 DEF Working, Protocol
    <3>2. s \in Nat /\ arg[t] \in Nat
      BY <3>1
    <3>3. PICK n \in Nat : n = arg[t]
      BY <3>2
    <3>4. n # None /\ ~(s > n) /\ s # n
      <4>1. None \notin Nat
        OBVIOUS
      <4>2. s \in Nat /\ s < n
        BY <2>3, <3>2, <3>3
      <4> QED
        BY <4>1, <4>2
    <3>5. s \notin ToStop(t) /\ OfAll(t)
      BY <2>3, <3>3, <3>4 DEF ToStop, Behind, OfAll
    <3> QED
      BY <2>1, <2>3, <3>5 DEF LoopOf
  <2>4. CASE call[t] = "reset all" /\ pc[t] \in {"next", "clear"} /\ s \notin Behind(t)
    BY <2>1, <2>4 DEF LoopOf, ToStop, OfAll
  <2> QED
    BY <1>1, <2>2, <2>3, <2>4 DEF Resetting
<1>2. ASSUME running[s] = None
      PROVE  ~On(s) /\ ~BeingStopped(s) /\ commited[s] \in {None, 0}
  <2>1. ~Changing(s)
    <3>1. \A t \in Threads : ThreadOK(t)
      BY DEF Working, Balance
    <3> QED
      BY <1>2, <3>1 DEF Changing, ThreadOK
  <2> QED
    BY <1>2, <2>1 DEF TimersFollow, Changing, BeingStopped, Stopping
<1>3. Commited(s) \in Nat /\ Elapsed(timer[s]) \in Nat
  BY Amounts DEF Working
<1>4. Uncommited(s) = IF On(s) \/ BeingStopped(s) THEN Elapsed(timer[s]) ELSE 0
  BY DEF Uncommited, BeingStopped
<1>5. Total(s) = IF BeingReset(s) THEN 0 ELSE Commited(s) + Uncommited(s)
  BY DEF Total, BeingReset, Commited
<1>6. BeingReset(s) \/ running[s] = None => ~On(s) /\ Total(s) = 0
  <2>1. BeingReset(s) => ~On(s)
    BY <1>1 DEF BeingReset
  <2>2. running[s] = None => Commited(s) = 0 /\ Uncommited(s) = 0
    BY <1>2, <1>4 DEF Commited
  <2> QED
    BY <1>2, <1>5, <2>1, <2>2
<1>7. ~BeingReset(s) /\ (On(s) \/ BeingStopped(s)) => Total(s) = Commited(s) + Elapsed(timer[s])
  BY <1>4, <1>5
<1>8. ~BeingReset(s) /\ ~On(s) /\ ~BeingStopped(s) => Total(s) = Commited(s)
  BY <1>3, <1>4, <1>5
<1> QED
  BY <1>6, <1>7, <1>8 DEF Shown

\* After a step as well.
LEMMA TotalWillBeShown == Working' /\ TimersFollow' => \A s \in Sections : Shown(s)'
<1>1. (Working /\ TimersFollow => \A s \in Sections : Shown(s))'
  BY TotalIsShown, PTL
<1> QED
  BY <1>1

\* What a step may do to what s shows.
Same(s) == (On(s)' <=> On(s)) /\ Total(s)' = Total(s)
Began(s) == ~On(s) /\ On(s)' /\ Total(s)' = Total(s)
Ended(s) == On(s) /\ ~On(s)' /\ Total(s)' = Total(s)
Zeroed(s) == ~On(s)' /\ Total(s)' = 0

\* A step of the loop over all sections that is about one of them is one of stop(), and goes
\* on with the next section after it.
LEMMA AboutOne ==
  ASSUME Working, NEW t \in Threads, Inside(t),
         ~(NextSection(t) \/ LastSection(t) \/ Clear(t))
  PROVE  /\ pc[t] \notin {"next", "clear", "idle"}
         /\ OfAll(t) => pc'[t] \in {"ref", "timer", "delta", "commit", "next"}
<1> USE DEF Goto
<1>1. pc \in [Threads -> Labels] /\ Protocol
  BY DEF Working, Shape
<1>2. OfAll(t) => pc[t] \notin {"start", "mark", "replace", "zero"}
  BY <1>1 DEF Protocol, OfAll
<1>3. CASE \/ StartRunning(t) \/ StartKnown(t) \/ StartInsert(t) \/ StartMark(t)
           \/ StartReplace(t)
  BY <1>2, <1>3 DEF StartRunning, StartKnown, StartInsert, StartMark, StartReplace
<1>4. CASE StopMark(t) \/ StopRef(t) \/ StopTimer(t) \/ StopDelta(t)
  BY <1>1, <1>4 DEF StopMark, StopRef, StopTimer, StopDelta
<1>5. CASE StopUnknown(t) \/ StopCommit(t)
  BY <1>1, <1>5 DEF StopUnknown, StopCommit, AfterStop, OfAll
<1>6. CASE ResetZero(t)
  BY <1>2, <1>6 DEF ResetZero
<1> QED
  BY <1>3, <1>4, <1>5, <1>6 DEF Inside

\* What a step knows of the state and of the next one.
Stepping == Working /\ Working' /\ TimersFollow /\ TimersFollow'

\* A step about one section changes what no other one shows.
LEMMA OthersShowTheSame ==
  ASSUME Stepping, NEW t \in Threads, Inside(t),
         ~(NextSection(t) \/ LastSection(t) \/ Clear(t)),
         NEW s \in Sections, Confined(t, s), NEW r \in Sections \ {s}
  PROVE  Same(r)
<1> USE DEF Stepping
<1>1. Shown(r) /\ Shown(r)'
  BY TotalIsShown, TotalWillBeShown
<1>2. /\ running'[r] = running[r] /\ (On(r)' <=> On(r))
      /\ Commited(r)' = Commited(r) /\ Elapsed(timer[r])' = Elapsed(timer[r])
  BY DEF Confined, On, Commited, Elapsed
<1>3. AllApart /\ pc[t] # "idle" /\ arg[t] = s /\ arg' = arg /\ call' = call
      /\ \A u \in Threads \ {t} : pc'[u] = pc[u]
  BY KeptApart DEF Confined
<1>4. CASE running[r] = None
  BY <1>1, <1>2, <1>4 DEF Shown, Same
<1>5. CASE running[r] # None
  <2>1. r \in Known /\ r \in Known'
    BY <1>2, <1>5 DEF Known
  <2>2. ASSUME NEW u \in Threads
        PROVE  /\ Stopping(u, r)' <=> Stopping(u, r)
               /\ Resetting(u, r)' <=> Resetting(u, r)
    <3>1. CASE u # t
      <4>1. pc[u] = "idle" \/ ~OfAll(u)
        BY <1>3, <3>1 DEF AllApart
      <4>2. call'[u] = call[u] /\ arg'[u] = arg[u] /\ pc'[u] = pc[u]
        BY <1>3, <3>1
      <4> QED
        BY <4>1, <4>2 DEF Stopping, Resetting, OfAll
    <3>2. CASE u = t /\ ~OfAll(t)
      BY <1>3, <3>2 DEF Stopping, Resetting, OfAll
    <3>3. CASE u = t /\ OfAll(t)
      <4>1. pc[t] \in {"stop", "ref", "timer", "delta", "commit"}
            /\ pc'[t] \in {"stop", "ref", "timer", "delta", "commit", "next"}
        <5>1. pc[t] \in Labels
          BY DEF Working, Shape
        <5>2. pc[t] \notin {"start", "mark", "replace", "zero", "next", "clear", "idle"}
          BY <3>3, AboutOne DEF Working, Protocol, OfAll
        <5> QED
          BY <3>3, <5>1, <5>2, AboutOne DEF Labels
      <4>2. r \in Nat /\ s \in Nat /\ s # None /\ r # s
        BY TimingsAssumption
      <4>3. r \notin Behind(t)' <=> r < s
        BY <1>3, <2>1, <4>2 DEF Behind
      <4>4. Resetting(t, r) <=> call[t] = "reset all" /\ r < s
        BY <1>3, <3>3, <4>1, <4>2 DEF Resetting, OfAll
      <4>5. Resetting(t, r)' <=> call[t] = "reset all" /\ r < s
        BY <1>3, <3>3, <4>1, <4>2, <4>3 DEF Resetting, OfAll
      <4> QED
        BY <1>3, <3>3, <4>4, <4>5 DEF Stopping
    <3> QED
      BY <3>1, <3>2, <3>3
  <2>3. (BeingReset(r)' <=> BeingReset(r)) /\ (BeingStopped(r)' <=> BeingStopped(r))
    BY <2>2 DEF BeingReset, BeingStopped
  <2> QED
    BY <1>1, <1>2, <2>3 DEF Shown, Same
<1> QED
  BY <1>4, <1>5

\* What the provers need of sums.
LEMMA SumsOfNaturals == \A m, n \in Nat : m + n \in Nat /\ m + 0 = m
OBVIOUS

\* A step about s begins or ends it, sets it to zero, or does not show.
LEMMA OwnShows ==
  ASSUME Stepping, matched, NEW t \in Threads, Inside(t),
         ~(NextSection(t) \/ LastSection(t) \/ Clear(t)),
         NEW s \in Sections, Confined(t, s)
  PROVE  Same(s) \/ Began(s) \/ Ended(s) \/ Zeroed(s)
<1> USE DEF Stepping
<1>1. Shown(s) /\ Shown(s)' /\ TimerLeft(t, s)
  BY TotalIsShown, TotalWillBeShown, TimerStep
<1>2. /\ AllApart /\ pc[t] # "idle" /\ arg[t] = s /\ arg' = arg /\ call' = call /\ clock' = clock
      /\ \A u \in Threads \ {t} : pc'[u] = pc[u]
      /\ pc[t] \notin {"next", "clear", "idle"} /\ pc'[t] # "clear"
  BY <1>1, KeptApart, AboutOne DEF Confined, TimerLeft
<1>3. ASSUME NEW u \in Threads \ {t}
      PROVE  ~Resetting(u, s) /\ ~Stopping(u, s) /\ ~Resetting(u, s)' /\ ~Stopping(u, s)'
  <2>1. pc[u] = "idle" \/ (~OfAll(u) /\ arg[u] # s)
    BY <1>2 DEF AllApart
  <2>2. call'[u] = call[u] /\ arg'[u] = arg[u] /\ pc'[u] = pc[u]
    BY <1>2
  <2> QED
    BY <2>1, <2>2 DEF Resetting, Stopping, OfAll
<1>4. s \in Nat /\ s # None /\ ~(s < s) /\ ~(s > s)
  BY TimingsAssumption
<1>5. /\ BeingReset(s) <=> \/ call[t] = "reset" /\ pc[t] \in {"delta", "commit", "zero"}
                           \/ call[t] = "reset all" /\ pc[t] \in {"delta", "commit"}
      /\ BeingReset(s)' <=> \/ call[t] = "reset" /\ pc'[t] \in {"delta", "commit", "zero"}
                            \/ call[t] = "reset all" /\ pc'[t] \in {"delta", "commit", "next"}
  <2>1. s \notin Behind(t)'
    BY <1>2, <1>4 DEF Behind
  <2>2. Resetting(t, s) <=> \/ call[t] = "reset" /\ pc[t] \in {"delta", "commit", "zero"}
                            \/ call[t] = "reset all" /\ pc[t] \in {"delta", "commit"}
    BY <1>2, <1>4 DEF Resetting
  <2>3. Resetting(t, s)' <=> \/ call[t] = "reset" /\ pc'[t] \in {"delta", "commit", "zero"}
                             \/ call[t] = "reset all" /\ pc'[t] \in {"delta", "commit", "next"}
    BY <1>2, <1>4, <2>1 DEF Resetting
  <2> QED
    BY <1>3, <2>2, <2>3 DEF BeingReset
<1>6. /\ BeingStopped(s) <=> call[t] \in {"stop", "stop all"} /\ pc[t] \in {"delta", "commit"}
      /\ BeingStopped(s)' <=> call[t] \in {"stop", "stop all"} /\ pc'[t] \in {"delta", "commit"}
  BY <1>2, <1>3 DEF BeingStopped, Stopping
<1>7. /\ pc[t] \in {"start", "mark", "replace"} => call[t] = "start"
      /\ pc[t] \in {"stop", "ref", "timer", "delta", "commit"} =>
           call[t] \in {"stop", "reset", "stop all", "reset all"}
      /\ pc[t] = "zero" => call[t] = "reset"
      /\ pc \in [Threads -> Labels]
  BY DEF Working, Protocol, Shape
<1>8. Commited(s) \in Nat /\ TimerOf(t) /\ LoopOf(t) /\ None \notin Nat
  BY Amounts, TimingsAssumption DEF Working, TimersFollow
<1> USE <1>2, <1>5, <1>6, <1>7 DEF Goto, shared, ghost
<1>9. CASE StartRunning(t) \/ StartKnown(t)
  <2>1. UNCHANGED <<timer, commited>>
    BY <1>9 DEF StartRunning, StartKnown
  <2>2. /\ On(s)' <=> On(s)
        /\ Commited(s)' = Commited(s) /\ Elapsed(timer[s])' = Elapsed(timer[s])
    BY <2>1 DEF On, Commited, Elapsed
  <2>3. pc[t] = "start" /\ pc'[t] \in {"idle", "replace"}
    BY <1>9 DEF StartRunning, StartKnown
  <2> QED
    BY <1>1, <2>2, <2>3 DEF Shown, Same
<1>10. CASE StartInsert(t) \/ StartMark(t)
  <2>1. UNCHANGED commited
    BY <1>10 DEF StartInsert, StartMark
  <2>2. pc[t] \in {"start", "mark"} /\ pc'[t] \in {"mark", "replace"}
    BY <1>10 DEF StartInsert, StartMark
  <2>3. ~On(s)'
    BY <1>1, <2>2 DEF TimerLeft
  <2>4. ~On(s)
    BY <1>1, <1>8, <1>10 DEF StartInsert, StartMark, Known, Shown, TimerOf
  <2>5. Commited(s)' = Commited(s)
    BY <2>1 DEF Commited
  <2> QED
    BY <1>1, <2>2, <2>3, <2>4, <2>5 DEF Shown, Same
<1>11. CASE StartReplace(t)
  <2>1. pc[t] = "replace" /\ pc'[t] = "idle" /\ commited' = commited
        /\ timer'[s] = NewTimer(FALSE)
    BY <1>11 DEF StartReplace, Working, Shape
  <2>2. ~On(s) /\ On(s)'
    BY <1>1, <1>8, <2>1 DEF TimerOf, TimerLeft
  <2>3. Elapsed(timer[s])' = 0
    <3>1. clock \in Nat
      BY Times DEF Working
    <3> QED
      BY <2>1, <3>1 DEF NewTimer, Elapsed
  <2>4. Commited(s)' = Commited(s)
    BY <2>1 DEF Commited
  <2>5. Total(s) = Commited(s) /\ Total(s)' = Commited(s)' + Elapsed(timer[s])'
    BY <1>1, <2>1, <2>2 DEF Shown
  <2>6. Commited(s) + 0 = Commited(s)
    BY <1>8, SumsOfNaturals, Zenon
  <2> QED
    BY <2>2, <2>3, <2>4, <2>5, <2>6 DEF Began
<1>12. CASE StopUnknown(t)
  <2>1. running[s] = None /\ running'[s] = None
    BY <1>12 DEF StopUnknown, Known
  <2> QED
    BY <1>1, <2>1 DEF Shown, Same
<1>13. CASE StopMark(t) \/ StopRef(t)
  <2>1. UNCHANGED <<timer, commited>>
    BY <1>13 DEF StopMark, StopRef
  <2>2. /\ On(s)' <=> On(s)
        /\ Commited(s)' = Commited(s) /\ Elapsed(timer[s])' = Elapsed(timer[s])
    BY <2>1 DEF On, Commited, Elapsed
  <2>3. pc[t] \in {"stop", "ref"} /\ pc'[t] \in {"ref", "timer"}
    BY <1>13 DEF StopMark, StopRef
  <2> QED
    BY <1>1, <2>2, <2>3 DEF Shown, Same
<1>14. CASE StopTimer(t)
  <2>1. /\ pc[t] = "timer" /\ pc'[t] = "delta" /\ commited' = commited
        /\ timer'[s] = Stopped(timer[s])
    BY <1>8, <1>14 DEF StopTimer, TimerOf, Working, Shape
  <2>2. ~On(s)' /\ Commited(s)' = Commited(s)
    BY <1>1, <2>1 DEF TimerLeft, Commited
  <2>3. CASE call[t] \in {"reset", "reset all"}
    BY <1>1, <2>1, <2>2, <2>3 DEF Shown, Zeroed
  <2>4. CASE call[t] \in {"stop", "stop all"}
    <3>1. On(s)
      BY <1>8, <2>1, <2>4 DEF LoopOf, ToStop
    <3>2. Elapsed(timer[s])' = Elapsed(timer[s])
      <4>1. Elapsed(Stopped(timer[s])) = Elapsed(timer[s])
        BY TimersMade DEF Working
      <4>2. Elapsed(timer[s])' = Elapsed(timer'[s])
        BY DEF Elapsed
      <4> QED
        BY <2>1, <4>1, <4>2
    <3> QED
      BY <1>1, <2>1, <2>2, <2>4, <3>1, <3>2 DEF Shown, Ended
  <2> QED
    BY <2>1, <2>3, <2>4
<1>15. CASE StopDelta(t)
  <2>1. UNCHANGED <<timer, commited>> /\ pc[t] = "delta" /\ pc'[t] = "commit"
    BY <1>15 DEF StopDelta
  <2>2. /\ On(s)' <=> On(s)
        /\ Commited(s)' = Commited(s) /\ Elapsed(timer[s])' = Elapsed(timer[s])
    BY <2>1 DEF On, Commited, Elapsed
  <2> QED
    BY <1>1, <2>1, <2>2 DEF Shown, Same
<1>16. CASE StopCommit(t)
  <2>1. /\ pc[t] = "commit" /\ timer' = timer
        /\ call[t] \in {"stop", "stop all"} => pc'[t] \in {"idle", "next"}
        /\ call[t] = "reset" => pc'[t] = "zero"
        /\ call[t] = "reset all" => pc'[t] = "next"
        /\ commited'[s] = Commited(s) + dlt[t]
    BY <1>16 DEF StopCommit, AfterStop, Commited, Working, Shape
  <2>2. ~On(s) /\ ~On(s)' /\ dlt[t] = Elapsed(timer[s])
    BY <1>8, <2>1 DEF TimerOf, On
  <2>3. Commited(s)' = Commited(s) + dlt[t]
    <3>1. dlt[t] \in Nat
      BY DEF Working, Shape
    <3>2. Commited(s) + dlt[t] \in Nat
      BY <1>8, <3>1, SumsOfNaturals, Zenon
    <3> QED
      BY <1>8, <2>1, <3>2 DEF Commited
  <2> QED
    BY <1>1, <2>1, <2>2, <2>3 DEF Shown, Same
<1>17. CASE ResetZero(t)
  <2>1. /\ pc[t] = "zero" /\ pc'[t] = "idle" /\ commited'[s] = 0 /\ timer' = timer
    BY <1>17 DEF ResetZero, Working, Shape
  <2>2. ~On(s) /\ ~On(s)' /\ Commited(s)' = 0
    BY <1>8, <2>1 DEF TimerOf, On, Commited
  <2> QED
    BY <1>1, <2>1, <2>2 DEF Shown, Same
<1> QED
  BY <1>9, <1>10, <1>11, <1>12, <1>13, <1>14, <1>15, <1>16, <1>17 DEF Inside

\* Going on with the next section, and the end of the loop, do not show.
LEMMA LoopShowsTheSame ==
  ASSUME Stepping, NEW t \in Threads, Inside(t),
         NextSection(t) \/ LastSection(t) \/ Clear(t), NEW r \in Sections
  PROVE  Same(r)
<1> USE DEF Stepping, Goto, shared, ghost
<1>1. /\ pc \in [Threads -> Labels] /\ arg \in [Threads -> Sections \cup {None}]
      /\ None \notin Nat /\ r \in Nat /\ Sections \subseteq Nat
  BY TimingsAssumption DEF Working, Shape
<1>2. /\ OfAll(t) /\ pc[t] \in {"next", "clear"} /\ LoopOf(t)
      /\ pc[t] = "clear" => call[t] = "reset all"
  BY DEF Working, Protocol, NextSection, LastSection, Clear, OfAll, TimersFollow
<1>3. /\ \A u \in Threads \ {t} : pc[u] = "idle" /\ pc'[u] = "idle"
      /\ pc'[t] \in {"idle", "stop", "clear"}
      /\ UNCHANGED <<running, timer, clock, call>>
  <2>1. \A u \in Threads \ {t} : pc[u] = "idle"
    BY <1>2, AloneForAll
  <2> QED
    BY <1>1, <2>1 DEF NextSection, LastSection, Clear
<1>4. Shown(r) /\ Shown(r)'
  BY TotalIsShown, TotalWillBeShown
<1>5. /\ On(r)' <=> On(r)
      /\ Elapsed(timer[r])' = Elapsed(timer[r]) /\ Known' = Known
  BY <1>3 DEF On, Elapsed, Known
<1>6. ~BeingStopped(r) /\ ~BeingStopped(r)'
  BY <1>2, <1>3 DEF BeingStopped, Stopping
<1>7. /\ BeingReset(r) <=> Resetting(t, r)
      /\ BeingReset(r)' <=> Resetting(t, r)'
  BY <1>3 DEF BeingReset, Resetting
<1>8. CASE running[r] = None
  BY <1>3, <1>4, <1>8 DEF Shown, Same
<1>9. CASE running[r] # None /\ ~Clear(t)
  <2>1. commited' = commited /\ pc[t] = "next" /\ r \in Known
    BY <1>9 DEF NextSection, LastSection, Known
  <2>2. Commited(r)' = Commited(r)
    BY <2>1 DEF Commited
  <2>3. Resetting(t, r)' <=> Resetting(t, r)
    <3>1. Resetting(t, r) <=> call[t] = "reset all" /\ r \notin Behind(t)
      BY <2>1 DEF Resetting
    <3>2. CASE NextSection(t)
      <4>1. PICK n : n = Min(Behind(t))
        OBVIOUS
      <4>2. n \in Behind(t) /\ n \in Nat /\ pc'[t] = "stop" /\ arg'[t] = n
        BY <1>1, <3>2, <4>1, NextIsBehind DEF NextSection, Behind, Known
      <4>3. Resetting(t, r)' <=> call[t] = "reset all" /\ r < n
        BY <1>3, <4>2 DEF Resetting
      <4>4. r \in Behind(t) => ~(r < n)
        <5>1. Behind(t) \in SUBSET Nat /\ Behind(t) # {}
          BY <1>1, <4>2 DEF Behind, Known
        <5>2. \E m \in Behind(t) : \A q \in Behind(t) : m <= q
          BY <5>1, LeastNatural
        <5>3. \A q \in Behind(t) : n <= q
          BY <4>1, <5>2 DEF Min
        <5>4. r \in Behind(t) => n <= r
          BY <5>3
        <5> QED
          BY <1>1, <4>2, <5>4
      <4>5. r \notin Behind(t) => r < n
        <5>1. ASSUME r \notin Behind(t) PROVE arg[t] # None /\ ~(r > arg[t])
          BY <2>1, <5>1 DEF Behind
        <5>2. arg[t] # None => arg[t] \in Nat /\ n > arg[t]
          BY <1>1, <4>2 DEF Behind
        <5> QED
          BY <1>1, <4>2, <5>1, <5>2
      <4> QED
        BY <3>1, <4>3, <4>4, <4>5
    <3>3. CASE LastSection(t)
      <4>1. Behind(t)' = Behind(t) /\ (call[t] = "reset all" => pc'[t] = "clear")
        BY <1>1, <1>5, <3>3 DEF LastSection, Behind
      <4> QED
        BY <1>3, <3>1, <4>1 DEF Resetting
    <3> QED
      BY <1>9, <3>2, <3>3
  <2> QED
    BY <1>4, <1>5, <1>6, <1>7, <2>2, <2>3 DEF Shown, Same
<1>10. CASE running[r] # None /\ Clear(t)
  <2>1. pc[t] = "clear" /\ pc'[t] = "idle" /\ commited'[r] = None
    BY <1>1, <1>10 DEF Clear
  <2>2. Resetting(t, r) /\ ~Resetting(t, r)'
    BY <1>2, <2>1 DEF Resetting, LoopOf
  <2>3. Commited(r)' = 0
    BY <2>1 DEF Commited
  <2> QED
    BY <1>4, <1>5, <1>6, <1>7, <2>2, <2>3 DEF Shown, Same
<1> QED
  BY <1>8, <1>9, <1>10

\* Neither does a call.
LEMMA CallShowsTheSame ==
  ASSUME Stepping, NEW t, NEW f, NEW s, NEW label, Called(t, f, s, label), NEW r \in Sections
  PROVE  Same(r)
<1> USE DEF Stepping
<1>1. CallSet(t, f, s, label) /\ t \in Threads /\ pc[t] = "idle"
  BY CallSets DEF Working, Called
<1>2. Shown(r) /\ Shown(r)'
  BY TotalIsShown, TotalWillBeShown
<1>3. /\ On(r)' <=> On(r)
      /\ Commited(r)' = Commited(r) /\ Elapsed(timer[r])' = Elapsed(timer[r])
      /\ running'[r] = running[r] /\ Known' = Known
  BY <1>1 DEF CallSet, On, Commited, Elapsed, Known
<1>4. CASE running[r] = None
  BY <1>2, <1>3, <1>4 DEF Shown, Same
<1>5. CASE running[r] # None
  <2>1. ASSUME NEW u \in Threads
        PROVE  /\ Stopping(u, r)' <=> Stopping(u, r)
               /\ Resetting(u, r)' <=> Resetting(u, r)
    <3>1. CASE u # t
      <4>1. call'[u] = call[u] /\ arg'[u] = arg[u] /\ pc'[u] = pc[u]
        BY <1>1, <3>1 DEF CallSet
      <4>2. Behind(u)' = Behind(u)
        BY <1>3, <4>1 DEF Behind
      <4> QED
        BY <4>1, <4>2 DEF Stopping, Resetting
    <3>2. CASE u = t
      <4>1. pc'[t] = label /\ arg'[t] = s /\ call'[t] = f
        BY <1>1 DEF CallSet
      <4>2. ~Stopping(t, r) /\ ~Resetting(t, r)
        BY <1>1 DEF Stopping, Resetting
      <4>3. CASE label \in {"start", "stop"} /\ f \in {"start", "stop", "reset"}
        BY <3>2, <4>1, <4>2, <4>3 DEF Stopping, Resetting
      <4>4. CASE label = "next" /\ s = None
        <5>1. r \in Behind(t)'
          BY <1>3, <1>5, <4>1, <4>4 DEF Behind, Known
        <5> QED
          BY <3>2, <4>1, <4>2, <4>4, <5>1 DEF Stopping, Resetting
      <4> QED
        BY <4>3, <4>4 DEF Called
    <3> QED
      BY <3>1, <3>2
  <2>2. (BeingReset(r)' <=> BeingReset(r)) /\ (BeingStopped(r)' <=> BeingStopped(r))
    BY <2>1 DEF BeingReset, BeingStopped
  <2> QED
    BY <1>2, <1>3, <2>2 DEF Shown, Same
<1> QED
  BY <1>4, <1>5

\* The clock adds to the sections that are on.
LEMMA TickShows ==
  ASSUME Stepping, Tick, NEW r \in Sections
  PROVE  /\ On(r)' <=> On(r)
         /\ Total(r)' = IF On(r) THEN Total(r) + 1 ELSE Total(r)
<1> USE DEF Stepping
<1>1. clock' = clock + 1 /\ UNCHANGED <<running, timer, commited, pc, call, arg>>
  BY DEF Tick, shared, local
<1>2. Shown(r) /\ Shown(r)'
  BY TotalIsShown, TotalWillBeShown
<1>3. /\ On(r)' <=> On(r)
      /\ Commited(r)' = Commited(r) /\ running'[r] = running[r] /\ Known' = Known
  BY <1>1 DEF On, Commited, Known
<1>4. ASSUME NEW u \in Threads
      PROVE  /\ Stopping(u, r)' <=> Stopping(u, r)
             /\ Resetting(u, r)' <=> Resetting(u, r)
  <2>1. Behind(u)' = Behind(u)
    BY <1>1, <1>3 DEF Behind
  <2> QED
    BY <1>1, <2>1 DEF Stopping, Resetting
<1>5. (BeingReset(r)' <=> BeingReset(r)) /\ (BeingStopped(r)' <=> BeingStopped(r))
  BY <1>4 DEF BeingReset, BeingStopped
<1>6. /\ timer[r].ended = None => Elapsed(timer[r])' = Elapsed(timer[r]) + 1
      /\ timer[r].ended # None => Elapsed(timer[r])' = Elapsed(timer[r])
  <2>1. timer[r].began \in Nat /\ clock \in Nat
    BY Times DEF Working, Shape, Timers
  <2> QED
    BY <1>1, <2>1 DEF Elapsed
<1>7. Commited(r) \in Nat /\ Elapsed(timer[r]) \in Nat
  BY Amounts DEF Working
<1>8. CASE On(r)
  <2>1. ~BeingReset(r) /\ timer[r].ended = None
    BY <1>2, <1>8 DEF Shown, On
  <2> QED
    BY <1>2, <1>3, <1>5, <1>6, <1>7, <1>8, <2>1 DEF Shown
<1>9. CASE ~On(r)
  <2>1. BeingStopped(r) => timer[r].ended # None
    BY ZenonT(30) DEF BeingStopped, Stopping, TimersFollow, TimerOf
  <2>2. CASE BeingReset(r) \/ running[r] = None
    BY <1>2, <1>3, <1>5, <1>9, <2>2 DEF Shown
  <2>3. CASE ~(BeingReset(r) \/ running[r] = None) /\ BeingStopped(r)
    BY <1>2, <1>3, <1>5, <1>6, <1>9, <2>1, <2>3 DEF Shown
  <2>4. CASE ~(BeingReset(r) \/ running[r] = None) /\ ~BeingStopped(r)
    BY <1>2, <1>3, <1>5, <1>9, <2>4 DEF Shown
  <2> QED
    BY <2>2, <2>3, <2>4
<1> QED
  BY <1>8, <1>9

-----------------------------------------------------------------------------
(* No time is counted that passed while a section was not in use.          *)

\* The sections that are on are in use ...
Attended == \A s \in Sections : On(s) => InUse(s)

\* ... and none of them shows more time than it was in use.
Within == matched => \A s \in Sections : Total(s) <= span[s]

\* All that is shown is a time.
LEMMA TotalIsATime ==
  ASSUME Working, TimersFollow, NEW s \in Sections
  PROVE  Total(s) \in Nat /\ span[s] \in Nat
<1>1. Shown(s) /\ Commited(s) \in Nat /\ Elapsed(timer[s]) \in Nat
  BY TotalIsShown, Amounts DEF Working
<1>2. span[s] \in Nat
  BY DEF Working, Shape
<1> QED
  BY <1>1, <1>2 DEF Shown

\* start() opens its section before it returns.
LEMMA StartOpens ==
  ASSUME Working, NEW t \in Threads, Inside(t), call[t] = "start", pc'[t] = "idle"
  PROVE  arg[t] \in open'
<1> USE DEF Goto
<1>1. pc \in [Threads -> Labels] /\ Protocol
  BY DEF Working, Shape
<1>2. pc[t] \in {"start", "mark", "replace"}
  BY <1>1, InsideFrames DEF Working, Shape, InsideFrame, Labels, Protocol, OfAll
<1>3. CASE StartRunning(t) \/ StartReplace(t)
  BY <1>3 DEF StartRunning, StartReplace
<1>4. CASE StartKnown(t) \/ StartInsert(t) \/ StartMark(t)
  BY <1>1, <1>4 DEF StartKnown, StartInsert, StartMark
<1>5. CASE StopUnknown(t) \/ StopMark(t) \/ StopRef(t) \/ StopTimer(t) \/ StopDelta(t)
  BY <1>2, <1>5 DEF StopUnknown, StopMark, StopRef, StopTimer, StopDelta
<1>6. CASE StopCommit(t) \/ ResetZero(t) \/ NextSection(t) \/ LastSection(t) \/ Clear(t)
  BY <1>2, <1>6 DEF StopCommit, ResetZero, NextSection, LastSection, Clear
<1> QED
  BY <1>3, <1>4, <1>5, <1>6 DEF Inside

\* A step about one section leaves it in use, or off.
LEMMA SectionAttended ==
  ASSUME Working, TimersFollow, Attended, NEW t \in Threads, Inside(t),
         ~(NextSection(t) \/ LastSection(t) \/ Clear(t))
  PROVE  Attended'
<1>1. PICK s : s = arg[t]
  OBVIOUS
<1>2. Confined(t, s) /\ s \in Sections /\ TimerLeft(t, s)
  BY <1>1, StepIsConfined, TimerStep DEF Confined
<1>3. /\ arg' = arg /\ call' = call /\ arg[t] = s
      /\ \A u \in Threads \ {t} : pc'[u] = pc[u]
  BY <1>2 DEF Confined
<1>4. ASSUME NEW r \in Sections \ {s}, On(r)' PROVE InUse(r)'
  <2>1. InUse(r) /\ (r \in open' <=> r \in open)
    BY <1>2, <1>4 DEF Attended, Confined, On
  <2>2. OfAll(t) => pc'[t] # "idle"
    BY AboutOne
  <2> QED
    BY <1>3, <2>1, <2>2 DEF InUse, OfAll
<1>5. On(s)' => InUse(s)'
  <2>1. CASE pc'[t] # "idle"
    BY <1>3, <2>1 DEF InUse
  <2>2. CASE pc'[t] = "idle" /\ call[t] = "start"
    BY <1>1, <2>2, StartOpens DEF InUse
  <2>3. CASE pc'[t] = "idle" /\ call[t] # "start"
    BY <1>2, <2>3 DEF TimerLeft
  <2> QED
    BY <2>1, <2>2, <2>3
<1> QED
  BY <1>4, <1>5 DEF Attended

\* The loop over all sections ends when none of them is on.
LEMMA LoopAttended ==
  ASSUME Working, TimersFollow, Attended, NEW t \in Threads, Inside(t),
         NextSection(t) \/ LastSection(t) \/ Clear(t)
  PROVE  Attended'
<1> USE DEF Goto, shared, ghost
<1>1. pc \in [Threads -> Labels]
  BY DEF Working, Shape
<1>2. OfAll(t) /\ pc[t] \in {"next", "clear"} /\ LoopOf(t)
  BY DEF Working, Protocol, NextSection, LastSection, Clear, OfAll, TimersFollow
<1>3. UNCHANGED <<timer, call>>
  BY DEF NextSection, LastSection, Clear
<1>4. CASE pc'[t] # "idle"
  BY <1>2, <1>3, <1>4 DEF Attended, InUse, OfAll
<1>5. CASE pc'[t] = "idle"
  <2>1. Behind(t) = {}
    BY <1>1, <1>2, <1>5 DEF NextSection, LastSection, Clear, LoopOf
  <2>2. ToStop(t) = {}
    BY <1>2, <2>1 DEF ToStop
  <2>3. \A r \in Sections : ~On(r)
    BY <1>2, <2>2 DEF LoopOf
  <2> QED
    BY <1>3, <2>3 DEF Attended, On
<1> QED
  BY <1>4, <1>5

\* A call is about the sections it closes.
LEMMA CallAttended ==
  ASSUME Working, Attended, NEW t, NEW f, NEW s, NEW label, Called(t, f, s, label)
  PROVE  Attended'
<1>1. CallSet(t, f, s, label) /\ t \in Threads /\ pc[t] = "idle" /\ label # "idle"
  BY CallSets DEF Working, Called
<1>2. open' = CASE f = "start" -> open [] s = None -> {} [] OTHER -> open \ {s}
  BY DEF Called, Call
<1>3. ASSUME NEW r \in Sections, On(r)' PROVE InUse(r)'
  <2>1. InUse(r)
    BY <1>1, <1>3 DEF CallSet, On, Attended
  <2>2. CASE \E u \in Threads \ {t} : pc[u] # "idle" /\ (arg[u] = r \/ OfAll(u))
    BY <1>1, <2>2 DEF CallSet, InUse, OfAll
  <2>3. CASE r \in open /\ f = "start"
    <3>1. s # None
      BY <2>3, TimingsAssumption DEF Called
    <3>2. open' = open
      BY <1>2, <2>3, <3>1
    <3> QED
      BY <2>3, <3>2 DEF InUse
  <2>4. CASE r \in open /\ f \in {"stop all", "reset all"}
    BY <1>1, <2>4 DEF CallSet, InUse
  <2>5. CASE r \in open /\ f \in {"stop", "reset"} /\ r # s
    <3>1. s # None
      BY <2>5, TimingsAssumption DEF Called
    <3>2. open' = open \ {s}
      BY <1>2, <2>5, <3>1
    <3> QED
      BY <2>5, <3>2 DEF InUse
  <2>6. CASE r = s
    BY <1>1, <2>6 DEF CallSet, InUse
  <2>7. r \in open \/ \E u \in Threads \ {t} : pc[u] # "idle" /\ (arg[u] = r \/ OfAll(u))
    BY <1>1, <2>1 DEF InUse, OfAll
  <2>8. f \in {"start", "stop all", "reset all", "stop", "reset"}
    BY DEF Called
  <2> QED
    BY <2>2, <2>3, <2>4, <2>5, <2>6, <2>7, <2>8
<1> QED
  BY <1>3 DEF Attended

\* So whatever is on is in use after every step.
LEMMA AttendedStep == Stepping /\ Attended /\ [Next]_vars => Attended'
<1> SUFFICES ASSUME Stepping, Attended, [Next]_vars PROVE Attended'
  OBVIOUS
<1> USE DEF Stepping
<1>1. ASSUME NEW t \in Threads, Inside(t) PROVE Attended'
  BY <1>1, SectionAttended, LoopAttended
<1>2. CASE Tick
  BY <1>2 DEF Tick, shared, local, Attended, On, InUse
<1>3. CASE UNCHANGED vars
  BY <1>3 DEF vars, shared, local, ghost, Attended, On, InUse
<1> QED
  BY <1>1, <1>2, <1>3, CallAttended, Calls DEF Next

\* What a section was in use for is forgotten when it shows nothing only.
LEMMA SpanStays ==
  ASSUME Stepping, matched, NEW t \in Threads, Inside(t), NEW s \in Sections
  PROVE  span'[s] = span[s] \/ (span'[s] = 0 /\ Total(s)' = 0)
<1> USE DEF Stepping, Goto, shared, ghost
<1>1. Shown(s) /\ span \in [Sections -> Nat]
  BY TotalIsShown DEF Working, Shape
<1>2. CASE ResetZero(t) /\ arg[t] = s
  <2>1. Resetting(t, s) /\ ~(NextSection(t) \/ LastSection(t) \/ Clear(t))
    BY <1>2 DEF ResetZero, Resetting, Working, Protocol, NextSection, LastSection, Clear
  <2>2. Total(s) = 0
    BY <1>1, <2>1 DEF Shown, BeingReset
  <2>3. Confined(t, s)
    BY <1>2, <2>1, StepIsConfined
  <2>4. Same(s) \/ Began(s) \/ Ended(s) \/ Zeroed(s)
    BY <2>1, <2>3, OwnShows
  <2>5. span'[s] = 0
    BY <1>1, <1>2 DEF ResetZero
  <2> QED
    BY <2>2, <2>4, <2>5 DEF Same, Began, Ended, Zeroed
<1>3. CASE ResetZero(t) /\ arg[t] # s
  BY <1>1, <1>3 DEF ResetZero
<1>4. CASE Clear(t)
  <2>1. Same(s)
    BY <1>4, LoopShowsTheSame
  <2>2. pc[t] = "clear" /\ call[t] = "reset all" /\ LoopOf(t)
    BY <1>4 DEF Clear, Working, Protocol, TimersFollow
  <2>3. Resetting(t, s)
    BY <2>2 DEF Resetting, LoopOf
  <2>4. Total(s) = 0 /\ span'[s] = 0
    BY <1>1, <1>4, <2>3 DEF Shown, BeingReset, Clear
  <2> QED
    BY <2>1, <2>4 DEF Same
<1>5. CASE StartRunning(t) \/ StartKnown(t) \/ StartInsert(t) \/ StartMark(t) \/ StartReplace(t)
  BY <1>5 DEF StartRunning, StartKnown, StartInsert, StartMark, StartReplace
<1>6. CASE StopUnknown(t) \/ StopMark(t) \/ StopRef(t) \/ StopTimer(t) \/ StopDelta(t)
  BY <1>6 DEF StopUnknown, StopMark, StopRef, StopTimer, StopDelta
<1>7. CASE StopCommit(t) \/ NextSection(t) \/ LastSection(t)
  BY <1>7 DEF StopCommit, NextSection, LastSection
<1> QED
  BY <1>2, <1>3, <1>4, <1>5, <1>6, <1>7 DEF Inside

\* What a section shows after a step inside a function: as much as before, or nothing.
LEMMA InsideShows ==
  ASSUME Stepping, matched, NEW t \in Threads, Inside(t), NEW s \in Sections
  PROVE  Total(s)' = Total(s) \/ Total(s)' = 0
<1>1. CASE NextSection(t) \/ LastSection(t) \/ Clear(t)
  BY <1>1, LoopShowsTheSame DEF Same
<1>2. CASE ~(NextSection(t) \/ LastSection(t) \/ Clear(t))
  <2>1. PICK r : r = arg[t]
    OBVIOUS
  <2>2. Confined(t, r) /\ r \in Sections
    BY <1>2, <2>1, StepIsConfined DEF Stepping, Confined
  <2>3. CASE s = r
    BY <1>2, <2>2, <2>3, OwnShows DEF Same, Began, Ended, Zeroed
  <2>4. CASE s # r
    BY <1>2, <2>2, <2>4, OthersShowTheSame DEF Same
  <2> QED
    BY <2>3, <2>4
<1> QED
  BY <1>1, <1>2

\* So no step adds more than the clock.
LEMMA WithinStep == Stepping /\ Attended /\ Within /\ [Next]_vars => Within'
<1> SUFFICES ASSUME Stepping, Attended, Within, [Next]_vars, matched', NEW s \in Sections
             PROVE  Total(s)' <= span'[s]
  BY DEF Within
<1> USE DEF Stepping
<1>1. Total(s) \in Nat /\ span[s] \in Nat
  BY TotalIsATime
<1>2. matched => Total(s) <= span[s]
  BY DEF Within
<1>3. ASSUME NEW t \in Threads, Inside(t) PROVE Total(s)' <= span'[s]
  <2>1. matched
    BY <1>3, MatchedStays
  <2>2. span'[s] = span[s] \/ (span'[s] = 0 /\ Total(s)' = 0)
    BY <1>3, <2>1, SpanStays
  <2>3. Total(s)' = Total(s) \/ Total(s)' = 0
    BY <1>3, <2>1, InsideShows
  <2> QED
    BY <1>1, <1>2, <2>1, <2>2, <2>3
<1>4. ASSUME NEW t, NEW f, NEW r, NEW label, Called(t, f, r, label) PROVE Total(s)' <= span'[s]
  <2>1. matched' = matched /\ span' = span
    BY <1>4 DEF Called, Call
  <2>2. Total(s)' = Total(s)
    BY <1>4, CallShowsTheSame DEF Same
  <2> QED
    BY <1>2, <2>1, <2>2
<1>5. CASE Tick
  <2>1. matched' = matched /\ span'[s] = IF InUse(s) THEN span[s] + 1 ELSE span[s]
    BY <1>5 DEF Tick
  <2>2. Total(s)' = IF On(s) THEN Total(s) + 1 ELSE Total(s)
    BY <1>5, TickShows
  <2>3. On(s) => InUse(s)
    BY DEF Attended
  <2> QED
    BY <1>1, <1>2, <2>1, <2>2, <2>3
<1>6. CASE UNCHANGED vars
  <2>1. matched' = matched /\ span' = span /\ Total(s)' = Total(s)
    BY <1>6 DEF vars, shared, local, ghost, On, Total, Uncommited, Elapsed, Stopping, Resetting,
                Behind, Known
  <2> QED
    BY <1>2, <2>1
<1> QED
  BY <1>3, <1>4, <1>5, <1>6, Calls DEF Next

\* At first nothing is on and nothing is shown.
LEMMA FollowInitially == Init => TimersFollow /\ Attended /\ Within
<1> SUFFICES ASSUME Init PROVE TimersFollow /\ Attended /\ Within
  OBVIOUS
<1>1. /\ \A s \in Sections : /\ running[s] = None /\ timer[s] = NoTimer /\ commited[s] = None
                             /\ span[s] = 0
      /\ \A t \in Threads : pc[t] = "idle"
      /\ ref \in [Threads -> BOOLEAN]
  BY DEF Init
<1>2. \A s \in Sections : ~On(s) /\ ~Changing(s)
  BY <1>1 DEF On, NoTimer, Changing
<1>3. None # TRUE
  BY TimingsAssumption
<1>4. TimersFollow
  BY <1>1, <1>2, <1>3 DEF TimersFollow, TimerOf, LoopOf
<1>5. \A s \in Sections : Total(s) = 0
  <2>1. \A s \in Sections, t \in Threads : ~Stopping(t, s)
    BY <1>1 DEF Stopping
  <2> QED
    BY <1>1, <1>2, <2>1 DEF Total, Uncommited
<1>6. Within
  BY <1>1, <1>5 DEF Within
<1> QED
  BY <1>2, <1>4, <1>6 DEF Attended

\* At rest delta() reports what the section shows.
LEMMA ReportedIsShown ==
  ASSUME Working, TimersFollow, Within
  PROVE  NoTimeAdded
<1> SUFFICES ASSUME matched, Quiet, NEW s \in Known, running[s] = TRUE \/ commited[s] # None
             PROVE  DeltaOf(s) <= span[s]
  BY DEF NoTimeAdded
<1>1. /\ s \in Sections /\ running[s] # None
      /\ \A t \in Threads : pc[t] = "idle"
  BY DEF Known, Quiet
<1>2. ~BeingReset(s) /\ ~BeingStopped(s) /\ ~Changing(s)
  BY <1>1 DEF BeingReset, BeingStopped, Resetting, Stopping, Changing
<1>3. Total(s) <= span[s] /\ Total(s) \in Nat /\ span[s] \in Nat
  BY <1>1, TotalIsATime DEF Within
<1>4. Commited(s) \in Nat /\ Elapsed(timer[s]) \in Nat /\ Shown(s)
  BY <1>1, TotalIsShown, Amounts DEF Working
<1>5. CASE commited[s] # None
  <2>1. DeltaOf(s) = Commited(s)
    BY <1>5 DEF DeltaOf, Commited
  <2>2. Total(s) = Commited(s) \/ Total(s) = Commited(s) + Elapsed(timer[s])
    BY <1>1, <1>2, <1>4 DEF Shown
  <2> QED
    BY <1>3, <1>4, <2>1, <2>2
<1>6. CASE commited[s] = None
  <2>1. DeltaOf(s) = Elapsed(timer[s]) /\ Commited(s) = 0
    BY <1>6 DEF DeltaOf, Commited
  <2>2. On(s)
    BY <1>1, <1>2, <1>6 DEF TimersFollow
  <2>3. Total(s) = Commited(s) + Elapsed(timer[s])
    BY <1>1, <1>2, <1>4, <2>2 DEF Shown
  <2> QED
    BY <1>3, <1>4, <2>1, <2>3
<1> QED
  BY <1>5, <1>6

\* In a program where one thread has used every section before the others start and each
\* section is used by one thread only, and that stops only what runs, a section reports no
\* more than the time it was in use since its last reset, unless it was reset with all others
\* and not started since: no time is committed twice, and starting a section again forgets
\* the time between.
THEOREM NoTimeIsAdded ==
  ASSUME Disciplined
  PROVE  Spec => []NoTimeAdded
<1> DEFINE Inv == TimingsIndInv /\ TimersFollow /\ Attended /\ Within
<1>1. Init => Inv
  BY TimingsInitially, FollowInitially
<1>2. Inv /\ [Next]_vars => Inv'
  <2> SUFFICES ASSUME Inv, [Next]_vars PROVE Inv'
    OBVIOUS
  <2>1. TimingsIndInv' /\ TimersFollow'
    BY TimingsStep, FollowStep
  <2>2. Disciplined'
    BY DEF Disciplined
  <2>3. Stepping
    BY <2>1, <2>2 DEF Stepping, Working, TimingsIndInv
  <2> QED
    BY <2>1, <2>3, AttendedStep, WithinStep
<1>3. Inv => NoTimeAdded
  BY ReportedIsShown DEF Working, TimingsIndInv
<1> QED
  BY <1>1, <1>2, <1>3, PTL DEF Spec
==============================================================================
