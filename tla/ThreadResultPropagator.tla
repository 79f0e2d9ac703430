----------------------- MODULE ThreadResultPropagator ------------------------
(***************************************************************************)
(* ThreadResultPropagator of parallel/threadstorage.hh with its default    *)
(* reduction std::plus: functors are copied, the copies accumulate results *)
(* in their threads, finalize_imp() adds each of them to the base functor. *)
(* The base's result is read and set in two calls; mutex_ is not locked.   *)
(***************************************************************************)
EXTENDS Integers, FiniteSets, FiniteSetsExt

CONSTANTS
  Copies,     \* the copies a program makes
  Base,       \* the functor it makes them of
  Work,       \* the results a copy adds to its own at a time
  WorkLimit       \* bound: how much is accumulated altogether

ASSUME PropagatorAssumption ==
  /\ Base \notin Copies /\ IsFiniteSet(Copies)
  /\ Work \subseteq Nat /\ WorkLimit \in Nat

VARIABLES
  phase,       \* per copy: "unborn", "working", "reduced" or "final"
  result,   \* result() of the base and of every copy
  reduction,      \* what a copy inside finalize_imp() is about to set
  seed,     \* the result a copy was made with
  applied,  \* for the properties: all the work done so far
  overlap       \* for the properties: whether finalize_imp() calls overlapped

propagatorVars == <<phase, result, reduction, seed, applied, overlap>>

In(states) == {c \in Copies : phase[c] \in states}

PropagatorInit ==
  /\ phase = [c \in Copies |-> "unborn"]
  /\ result = [i \in Copies \cup {Base} |-> 0]
  /\ reduction = [c \in Copies |-> 0]
  /\ seed = [c \in Copies |-> 0]
  /\ applied = 0
  /\ overlap = FALSE

\* copy_imp() on functor s: the copy starts with the result s has by now and
\* shares its base.
copy_imp(s, c) ==
  /\ phase[c] = "unborn" /\ s \in In({"working"}) \cup {Base}
  /\ phase' = [phase EXCEPT ![c] = "working"]
  /\ result' = [result EXCEPT ![c] = result[s]]
  /\ seed' = [seed EXCEPT ![c] = result[s]]
  /\ UNCHANGED <<reduction, applied, overlap>>

Accumulate(c, w) ==
  /\ phase[c] = "working" /\ applied + w <= WorkLimit
  /\ result' = [result EXCEPT ![c] = @ + w]
  /\ applied' = applied + w
  /\ UNCHANGED <<phase, reduction, seed, overlap>>

\* Mutant: the reduction has its sign wrong.
ReduceMinus(c) ==
  /\ phase[c] = "working"
  /\ overlap' = (overlap \/ In({"reduced"}) # {})
  /\ reduction' = [reduction EXCEPT ![c] = result[Base] - result[c]]
  /\ phase' = [phase EXCEPT ![c] = "reduced"]
  /\ UNCHANGED <<result, seed, applied>>

\* finalize_imp(): reduce(base_->result(), imp_->result()).
Reduce(c) ==
  /\ phase[c] = "working"
  /\ overlap' = (overlap \/ In({"reduced"}) # {})
  /\ reduction' = [reduction EXCEPT ![c] = result[Base] + result[c]]
  /\ phase' = [phase EXCEPT ![c] = "reduced"]
  /\ UNCHANGED <<result, seed, applied>>

\* Mutant: the copy's result replaces the base's.
SetUnreduced(c) ==
  /\ phase[c] = "reduced"
  /\ result' = [result EXCEPT ![Base] = result[c]]
  /\ phase' = [phase EXCEPT ![c] = "final"]
  /\ UNCHANGED <<reduction, seed, applied, overlap>>

\* Mutant: the reduction is added to what the base has.
SetAdded(c) ==
  /\ phase[c] = "reduced"
  /\ result' = [result EXCEPT ![Base] = @ + reduction[c]]
  /\ phase' = [phase EXCEPT ![c] = "final"]
  /\ UNCHANGED <<reduction, seed, applied, overlap>>

\* finalize_imp(): base_->set_result(...).
SetResult(c) ==
  /\ phase[c] = "reduced"
  /\ result' = [result EXCEPT ![Base] = reduction[c]]
  /\ phase' = [phase EXCEPT ![c] = "final"]
  /\ UNCHANGED <<reduction, seed, applied, overlap>>

PropagatorNext == \E c \in Copies :
  \/ \E s \in Copies \cup {Base} : copy_imp(s, c)
  \/ \E w \in Work : Accumulate(c, w)
  \/ Reduce(c)
  \/ SetResult(c)

PropagatorSpec == PropagatorInit /\ [][PropagatorNext]_propagatorVars

-----------------------------------------------------------------------------
PropagatorTypeOK ==
  /\ phase \in [Copies -> {"unborn", "working", "reduced", "final"}]
  /\ result \in [Copies \cup {Base} -> Nat]
  /\ reduction \in [Copies -> Nat]
  /\ seed \in [Copies -> Nat]
  /\ applied \in 0 .. WorkLimit
  /\ overlap \in BOOLEAN

\* As long as no two finalize_imp() calls overlap the base functor holds what
\* the finalized copies handed over, all of it. (Overlapping calls may
\* overwrite each other's contribution: WorkCountedOnce does not hold then.)
NothingLost ==
  ~overlap => result[Base] = MapThenSumSet(LAMBDA c : result[c], In({"final"}))

\* Copies made of functors without a result contribute every piece of work
\* once: when all of them are finalized the base holds the total.
WorkCountedOnce ==
  ~overlap /\ In({"final"}) = Copies /\ (\A c \in Copies : seed[c] = 0)
  => result[Base] = applied

\* Whatever overlaps, nothing is invented or counted twice.
NothingInvented ==
  (\A c \in Copies : seed[c] = 0) => result[Base] <= applied

\* finalize_imp() calls that keep out of each other's way hand every result over
\* once, and however they overlap none is handed over twice.
ResultsReachBase == PropagatorTypeOK /\ NothingLost /\ WorkCountedOnce /\ NothingInvented
==============================================================================
