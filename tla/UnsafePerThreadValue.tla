------------------------ MODULE UnsafePerThreadValue -------------------------
(***************************************************************************)
(* UnsafePerThreadValue of parallel/threadstorage.hh on top of             *)
(* ThreadManager: a deque with one slot per thread the manager allowed     *)
(* when the container was built, indexed by thread() without a check.      *)
(***************************************************************************)
EXTENDS ThreadManager

CONSTANT Values

ASSUME ValuesAssumption == None \notin Values

VARIABLES
  built,     \* whether the constructor has run
  values_,   \* slot number -> value
  expected   \* per thread alive: what it last put into its slot, None = nothing

storageVars == <<built, values_, expected>>
allVars == <<vars, storageVars>>

Slots == DOMAIN values_

StorageInit ==
  /\ Init
  /\ built = FALSE
  /\ values_ = [i \in {} |-> None]
  /\ expected = [t \in Ids |-> None]

\* Mutant: the slots are left as they are made, empty.
FillNone(v) == [i \in 0 .. (max_threads - 1) |-> None]

Fill(v) == [i \in 0 .. (max_threads - 1) |-> v]

\* The constructors: max_threads() is read once, here.
Construct(v) ==
  /\ ~built /\ built' = TRUE
  /\ values_' = Fill(v)
  /\ UNCHANGED <<vars, expected>>

\* operator=(value) renews the slots of every thread.
AssignAll(v) ==
  /\ built
  /\ values_' = [i \in Slots |-> v]
  /\ expected' = [t \in Ids |-> IF expected[t] # None THEN v ELSE None]
  /\ UNCHANGED <<vars, built>>

\* operator*, operator-> and get_pointer(): thread() has returned number[t],
\* the slot with that index is handed out and written through. An index past
\* the end is undefined behaviour, which InBounds is about.
Write(t, v) ==
  /\ built /\ number[t] # None /\ number[t] \in Slots
  /\ values_' = [values_ EXCEPT ![number[t]] = v]
  /\ expected' = [expected EXCEPT ![t] = v]
  /\ UNCHANGED <<vars, built>>

\* A step of the manager; a thread that exits takes its expectations with it.
ManagerNext ==
  /\ Next
  /\ expected' = [t \in Ids |-> IF pc'[t] = "absent" THEN None ELSE expected[t]]
  /\ UNCHANGED <<built, values_>>

StorageNext ==
  \/ ManagerNext
  \/ \E v \in Values : Construct(v) \/ AssignAll(v)
  \/ \E t \in Ids, v \in Values : Write(t, v)

StorageSpec == StorageInit /\ [][StorageNext]_allVars

\* The storage over a manager whose thread() goes on when it is called.
FairStorageSpec == StorageSpec /\ Fairness

-----------------------------------------------------------------------------
StorageTypeOK ==
  /\ TypeOK
  /\ built \in BOOLEAN
  /\ \E n \in Nat : values_ \in [0 .. (n - 1) -> Values]
  /\ expected \in [Ids -> Values \cup {None}]

\* A container of n slots is indexed within its bounds as long as no more than
\* n thread ids have asked for a number since the program started: counting
\* the ids ever seen, not the threads alive, and with numbers still in flight.
InBounds ==
  built /\ map_size <= Cardinality(Slots) =>
    \A t \in Live : number[t] # None => number[t] \in Slots

\* Nobody but its owner, or an assignment to the whole container, changes the
\* value a thread finds in its slot.
Isolation ==
  \A t \in Live : expected[t] # None =>
    number[t] \in Slots /\ values_[number[t]] = expected[t]
==============================================================================
