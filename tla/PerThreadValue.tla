---------------------------- MODULE PerThreadValue ----------------------------
(***************************************************************************)
(* PerThreadValue of parallel/threadstorage.hh, in a build with TBB, where *)
(* a thread that asks first gets a copy of the initial value, and in one   *)
(* without, where all threads share the one value. A thread changes what   *)
(* it was given a reference to by reading it and writing it back. A thread *)
(* that starts with the id of one that ended finds the value of that one.  *)
(***************************************************************************)
EXTENDS Naturals, FiniteSets, FiniteSetsExt

CONSTANTS
  Workers,     \* the ids of the threads
  Initials,    \* the values a container is made with
  AddLimit,    \* bound: how often something is added
  Shared,      \* stands for all threads where there is no TBB
  Nobody       \* "has not read"

ASSUME PerThreadAssumption ==
  /\ IsFiniteSet(Workers) /\ Shared \notin Workers /\ Nobody \notin Nat
  /\ Initials \subseteq Nat /\ AddLimit \in Nat

VARIABLES
  HAVE_TBB,    \* how the library was built
  initial,     \* what values_ was constructed with
  locals,      \* the values there are in values_
  register,    \* per thread: what it has read and is about to write back
  adds,        \* for the properties: how often 1 was added to a local value
  overlapped   \* for the properties: whether threads did so at the same time

perThreadVars == <<HAVE_TBB, initial, locals, register, adds, overlapped>>

\* Mutant: one value for all threads in either build.
KeyOfAll(w) == Shared

\* Where values_.local() finds the value of thread w.
Key(w) == IF HAVE_TBB THEN w ELSE Shared

\* values_ after local() in thread w.
Local(w) == [k \in DOMAIN locals \cup {Key(w)} |-> IF k \in DOMAIN locals THEN locals[k] ELSE initial]

Made(v) == [k \in IF HAVE_TBB THEN {} ELSE {Shared} |-> v]

-----------------------------------------------------------------------------
PerThreadInit ==
  /\ HAVE_TBB \in BOOLEAN
  /\ initial \in Initials
  /\ locals = Made(initial)
  /\ register = [w \in Workers |-> Nobody]
  /\ adds = 0 /\ overlapped = FALSE

\* The conversion and operator* of a constant container: they insert a value too.
Look(w) ==
  /\ locals' = Local(w)
  /\ UNCHANGED <<HAVE_TBB, initial, register, adds, overlapped>>

\* ++*value: what operator* refers to is read ...
Read(w) ==
  /\ register[w] = Nobody
  /\ locals' = Local(w)
  /\ register' = [register EXCEPT ![w] = Local(w)[Key(w)]]
  /\ overlapped' = (overlapped \/ \E other \in Workers : register[other] # Nobody)
  /\ UNCHANGED <<HAVE_TBB, initial, adds>>

\* ... and written.
WriteBack(w) ==
  /\ register[w] # Nobody /\ adds < AddLimit
  /\ locals' = [locals EXCEPT ![Key(w)] = register[w] + 1]
  /\ register' = [register EXCEPT ![w] = Nobody]
  /\ adds' = adds + 1
  /\ UNCHANGED <<HAVE_TBB, initial, overlapped>>

\* value = PerThreadValue(v), while no thread uses it.
Replace(v) ==
  /\ \A w \in Workers : register[w] = Nobody
  /\ initial' = v /\ locals' = Made(v)
  /\ adds' = 0 /\ overlapped' = FALSE
  /\ UNCHANGED <<HAVE_TBB, register>>

PerThreadNext ==
  \/ \E w \in Workers : Look(w) \/ Read(w) \/ WriteBack(w)
  \/ \E v \in Initials : Replace(v)

PerThreadSpec == PerThreadInit /\ [][PerThreadNext]_perThreadVars

-----------------------------------------------------------------------------
\* combine(std::plus): an empty container gives a value made for the occasion.
combine == IF locals = <<>> THEN initial ELSE MapThenSumSet(LAMBDA k : locals[k], DOMAIN locals)

sum == 0 + combine

\* sum() has all that was added, by whichever threads, at the same time as well
\* if there is TBB - and the initial value once for every thread that has so
\* much as looked at its value.
SumCountsEveryAdd ==
  HAVE_TBB \/ ~overlapped =>
    sum = adds + initial * (IF locals = <<>> THEN 1 ELSE Cardinality(DOMAIN locals))
==============================================================================
