---------------------------- MODULE ThreadManager ----------------------------
(***************************************************************************)
(* parallel/threadmanager.cc, the TBB build: thread() numbers the calling  *)
(* std::thread with a lookup in a concurrent map, an atomic counter and an *)
(* emplace, each of them atomic, none of them protected by the others.     *)
(* Threads come and go; the id of a joined thread may be handed out again. *)
(***************************************************************************)
EXTENDS Integers, FiniteSets

CONSTANTS
  Ids,        \* the std::thread::id values the platform hands out
  Counts,     \* the arguments set_max_threads() is called with
  Hardware,   \* std::thread::hardware_concurrency()
  LiveLimit,  \* how many threads the scheduler keeps alive at once
  None

ASSUME ManagerAssumption ==
  /\ Counts \subseteq Nat /\ Hardware \in Nat /\ LiveLimit \in Nat
  /\ None \notin Nat

VARIABLES
  pc,           \* per id: "absent", "running", or inside thread()
  thread_ids,   \* the static concurrent_unordered_map, None = no entry
  map_size,     \* the static atomic counter
  claim,        \* the value of map_size++ a thread is about to emplace
  number,       \* what thread() last returned to the thread now alive
  max_count,    \* the configuration value "threading.max_count"
  max_threads_  \* the member set next to it

threadVars == <<pc, thread_ids, map_size, claim, number>>
limitVars == <<max_count, max_threads_>>
vars == <<threadVars, limitVars>>

Live == {t \in Ids : pc[t] # "absent"}

max_threads == IF max_count = None THEN 1 ELSE max_count

-----------------------------------------------------------------------------
Init ==
  /\ pc = [t \in Ids |-> "absent"]
  /\ thread_ids = [t \in Ids |-> None]
  /\ map_size = 0
  /\ claim = [t \in Ids |-> None]
  /\ number = [t \in Ids |-> None]
  /\ max_count = None
  /\ max_threads_ = Hardware

\* A thread starts under an id no living thread has.
StartThread(t) ==
  /\ pc[t] = "absent" /\ Cardinality(Live) < LiveLimit
  /\ pc' = [pc EXCEPT ![t] = "running"]
  /\ number' = [number EXCEPT ![t] = None]
  /\ UNCHANGED <<thread_ids, map_size, claim, limitVars>>

ExitThread(t) ==
  /\ pc[t] = "running"
  /\ pc' = [pc EXCEPT ![t] = "absent"]
  /\ number' = [number EXCEPT ![t] = None]
  /\ UNCHANGED <<thread_ids, map_size, claim, limitVars>>

\* thread(): the id is found, its number is returned.
FindHit(t) ==
  /\ pc[t] = "running" /\ thread_ids[t] # None
  /\ number' = [number EXCEPT ![t] = thread_ids[t]]
  /\ UNCHANGED <<pc, thread_ids, map_size, claim, limitVars>>

\* thread(): no entry yet.
FindMiss(t) ==
  /\ pc[t] = "running" /\ thread_ids[t] = None
  /\ pc' = [pc EXCEPT ![t] = "missed"]
  /\ UNCHANGED <<thread_ids, map_size, claim, number, limitVars>>

\* Mutants: numbers taken from the size of the map, or counted from one.
ClaimMapSize(t) ==
  /\ pc[t] = "missed"
  /\ claim' = [claim EXCEPT ![t] = Cardinality({u \in Ids : thread_ids[u] # None})]
  /\ map_size' = map_size + 1
  /\ pc' = [pc EXCEPT ![t] = "claimed"]
  /\ UNCHANGED <<thread_ids, number, limitVars>>

ClaimPreIncrement(t) ==
  /\ pc[t] = "missed"
  /\ claim' = [claim EXCEPT ![t] = map_size + 1]
  /\ map_size' = map_size + 1
  /\ pc' = [pc EXCEPT ![t] = "claimed"]
  /\ UNCHANGED <<thread_ids, number, limitVars>>

\* thread(): map_size++, evaluated for the call of tbb_map_emplace.
Claim(t) ==
  /\ pc[t] = "missed"
  /\ claim' = [claim EXCEPT ![t] = map_size]
  /\ map_size' = map_size + 1
  /\ pc' = [pc EXCEPT ![t] = "claimed"]
  /\ UNCHANGED <<thread_ids, number, limitVars>>

\* tbb_map_emplace leaves an entry that is there alone; thread() returns the
\* entry's value.
Emplaced(t) == IF thread_ids[t] = None THEN claim[t] ELSE thread_ids[t]

\* Mutant: the claimed number is neither stored nor returned.
EmplaceDropped(t) ==
  /\ pc[t] = "claimed"
  /\ claim' = [claim EXCEPT ![t] = None]
  /\ pc' = [pc EXCEPT ![t] = "running"]
  /\ UNCHANGED <<thread_ids, number, map_size, limitVars>>

Emplace(t) ==
  /\ pc[t] = "claimed"
  /\ thread_ids' = [thread_ids EXCEPT ![t] = Emplaced(t)]
  /\ number' = [number EXCEPT ![t] = Emplaced(t)]
  /\ claim' = [claim EXCEPT ![t] = None]
  /\ pc' = [pc EXCEPT ![t] = "running"]
  /\ UNCHANGED <<map_size, limitVars>>

set_max_threads(count) ==
  /\ max_count' = count
  /\ max_threads_' = count
  /\ UNCHANGED threadVars

ThreadStep(t) == FindHit(t) \/ FindMiss(t) \/ Claim(t) \/ Emplace(t)

Next ==
  \/ \E t \in Ids : StartThread(t) \/ ExitThread(t) \/ ThreadStep(t)
  \/ \E count \in Counts : set_max_threads(count)

Spec == Init /\ [][Next]_vars

\* A thread inside thread() is not stopped for good by the operating system;
\* there is no lock in it that another thread could hold.
Fairness == \A t \in Ids : WF_vars(Claim(t)) /\ WF_vars(Emplace(t))

FairSpec == Spec /\ Fairness

-----------------------------------------------------------------------------
Numbers == Nat \cup {None}

TypeOK ==
  /\ pc \in [Ids -> {"absent", "running", "missed", "claimed"}]
  /\ thread_ids \in [Ids -> Numbers]
  /\ map_size \in Nat
  /\ claim \in [Ids -> Numbers]
  /\ number \in [Ids -> Numbers]
  /\ max_count \in Numbers
  /\ max_threads_ \in Nat

\* The number an id has or is about to have.
Numbering == [t \in Ids |-> IF pc[t] = "claimed" THEN claim[t] ELSE thread_ids[t]]

\* What makes the lookup, the counter and the emplace work together: entries
\* and claims are exactly the numbers counted so far, each of them once.
NumberingInv ==
  /\ \A t \in Ids : pc[t] = "claimed" => claim[t] \in Nat
  /\ \A t \in Ids : pc[t] \in {"missed", "claimed"} => thread_ids[t] = None
  /\ \A t \in Ids : number[t] # None => pc[t] # "absent" /\ number[t] = thread_ids[t]
  /\ \A t \in Ids : Numbering[t] # None => Numbering[t] < map_size
  /\ \A t, u \in Ids : Numbering[t] # None /\ Numbering[t] = Numbering[u] => t = u
  /\ \A n \in 0 .. (map_size - 1) : \E t \in Ids : Numbering[t] = n

\* Two threads alive at the same time never hold the same thread number,
\* however their first calls of thread() interleave and whichever ids were
\* used before (thread() in threadmanager.cc).
DistinctNumbers ==
  \A t, u \in Live : number[t] # None /\ number[t] = number[u] => t = u

\* From the start of a thread to its end thread() always returns the same
\* number to it: per-thread storage does not move under its owner.
NumberStable ==
  [][\A t \in Ids : number[t] # None /\ number'[t] # None => number'[t] = number[t]]_vars

Abstract == INSTANCE ThreadNumbering WITH numbering <- Numbering

\* thread() implements the atomic numbering: map_size++ is where a first call
\* takes effect, every other step changes nothing a caller can see.
NumberingRefines == Abstract!Spec

\* A thread that missed in the map gets its number without waiting for any
\* other thread to take a step.
ThreadReturns == \A t \in Ids : pc[t] = "missed" ~> number[t] # None
==============================================================================
