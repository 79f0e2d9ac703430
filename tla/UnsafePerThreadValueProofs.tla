---------------------- MODULE UnsafePerThreadValueProofs ---------------------
(***************************************************************************)
(* ThreadManager::thread() numbers threads correctly for any set of ids,   *)
(* any number of threads and any history of starts, exits and id reuse;    *)
(* and what UnsafePerThreadValue can rely on, for any size of the          *)
(* container.                                                              *)
(***************************************************************************)
EXTENDS UnsafePerThreadValue, FiniteSetTheorems, TLAPS

\* The variables of ThreadManager have the types of the members they model.
THEOREM TypeCorrect == Spec => []TypeOK
<1> USE ManagerAssumption DEF Numbers
<1>1. Init => TypeOK
  BY DEF Init, TypeOK
<1>2. TypeOK /\ [Next]_vars => TypeOK'
  <2> SUFFICES ASSUME TypeOK, [Next]_vars PROVE TypeOK'
    OBVIOUS
  <2> USE DEF TypeOK
  <2>1. ASSUME NEW t \in Ids, StartThread(t) PROVE TypeOK'
    BY <2>1 DEF StartThread, limitVars
  <2>2. ASSUME NEW t \in Ids, ExitThread(t) PROVE TypeOK'
    BY <2>2 DEF ExitThread, limitVars
  <2>3. ASSUME NEW t \in Ids, FindHit(t) PROVE TypeOK'
    BY <2>3 DEF FindHit, limitVars
  <2>4. ASSUME NEW t \in Ids, FindMiss(t) PROVE TypeOK'
    BY <2>4 DEF FindMiss, limitVars
  <2>5. ASSUME NEW t \in Ids, Claim(t) PROVE TypeOK'
    BY <2>5 DEF Claim, limitVars
  <2>6. ASSUME NEW t \in Ids, Emplace(t) PROVE TypeOK'
    BY <2>6 DEF Emplace, Emplaced, limitVars
  <2>7. ASSUME NEW count \in Counts, set_max_threads(count) PROVE TypeOK'
    BY <2>7 DEF set_max_threads, threadVars
  <2>8. CASE UNCHANGED vars
    BY <2>8 DEF vars, threadVars, limitVars
  <2> QED
    BY <2>1, <2>2, <2>3, <2>4, <2>5, <2>6, <2>7, <2>8 DEF Next, ThreadStep
<1> QED
  BY <1>1, <1>2, PTL DEF Spec

\* A claim adds the number map_size to the numbering and nothing else.
LEMMA ClaimNumbers ==
  ASSUME TypeOK, NumberingInv, NEW t \in Ids, Claim(t)
  PROVE  /\ Numbering[t] = None
         /\ Numbering' = [Numbering EXCEPT ![t] = map_size]
         /\ map_size' = map_size + 1
BY ManagerAssumption DEF TypeOK, Numbers, NumberingInv, Claim, Numbering

\* No other step changes what an id is or will be numbered with.
LEMMA OtherStepsKeepNumbering ==
  ASSUME TypeOK, NumberingInv, NEW t \in Ids,
         StartThread(t) \/ ExitThread(t) \/ FindHit(t) \/ FindMiss(t) \/ Emplace(t)
  PROVE  Numbering' = Numbering /\ map_size' = map_size
<1> USE ManagerAssumption DEF TypeOK, Numbers, NumberingInv, Numbering
<1>1. CASE StartThread(t)
  BY <1>1 DEF StartThread
<1>2. CASE ExitThread(t)
  BY <1>2 DEF ExitThread
<1>3. CASE FindHit(t)
  BY <1>3 DEF FindHit
<1>4. CASE FindMiss(t)
  BY <1>4 DEF FindMiss
<1>5. CASE Emplace(t)
  BY <1>5 DEF Emplace, Emplaced
<1> QED
  BY <1>1, <1>2, <1>3, <1>4, <1>5

\* The part of NumberingInv about where a single thread stands.
PcInv ==
  /\ \A t \in Ids : pc[t] = "claimed" => claim[t] \in Nat
  /\ \A t \in Ids : pc[t] \in {"missed", "claimed"} => thread_ids[t] = None
  /\ \A t \in Ids : number[t] # None => pc[t] # "absent" /\ number[t] = thread_ids[t]

\* The part of NumberingInv that says numbers are unique and without gaps.
DenseInv ==
  /\ \A t \in Ids : Numbering[t] # None => Numbering[t] < map_size
  /\ \A t, u \in Ids : Numbering[t] # None /\ Numbering[t] = Numbering[u] => t = u
  /\ \A n \in 0 .. (map_size - 1) : \E t \in Ids : Numbering[t] = n

\* The invariant is that of the program counters and that of the numbering.
LEMMA SplitInv == NumberingInv <=> PcInv /\ DenseInv
BY DEF NumberingInv, PcInv, DenseInv

\* The promises of the program counters are kept by every step.
LEMMA PcInvInductive ==
  ASSUME TypeOK, NumberingInv, [Next]_vars PROVE PcInv'
<1> USE ManagerAssumption DEF TypeOK, Numbers, PcInv
<1>0. PcInv
  BY SplitInv
<1>1. ASSUME NEW t \in Ids, StartThread(t) PROVE PcInv'
  BY <1>0, <1>1 DEF StartThread
<1>2. ASSUME NEW t \in Ids, ExitThread(t) PROVE PcInv'
  BY <1>0, <1>2 DEF ExitThread
<1>3. ASSUME NEW t \in Ids, FindHit(t) PROVE PcInv'
  BY <1>0, <1>3 DEF FindHit
<1>4. ASSUME NEW t \in Ids, FindMiss(t) PROVE PcInv'
  BY <1>0, <1>4 DEF FindMiss
<1>5. ASSUME NEW t \in Ids, Claim(t) PROVE PcInv'
  BY <1>0, <1>5 DEF Claim
<1>6. ASSUME NEW t \in Ids, Emplace(t) PROVE PcInv'
  BY <1>0, <1>6 DEF Emplace, Emplaced
<1>7. ASSUME NEW count \in Counts, set_max_threads(count) PROVE PcInv'
  BY <1>0, <1>7 DEF set_max_threads, threadVars
<1>8. CASE UNCHANGED vars
  BY <1>0, <1>8 DEF vars, threadVars
<1> QED
  BY <1>1, <1>2, <1>3, <1>4, <1>5, <1>6, <1>7, <1>8 DEF Next, ThreadStep

\* The dense numbering is kept by every step.
LEMMA DenseInvInductive ==
  ASSUME TypeOK, NumberingInv, [Next]_vars PROVE DenseInv'
<1> USE DEF DenseInv
<1>0. DenseInv
  BY SplitInv
<1>1. ASSUME Numbering' = Numbering, map_size' = map_size PROVE DenseInv'
  BY <1>0, <1>1
<1>2. ASSUME NEW t \in Ids, Claim(t) PROVE DenseInv'
  <2>1. /\ Numbering[t] = None
        /\ Numbering' = [Numbering EXCEPT ![t] = map_size]
        /\ map_size' = map_size + 1 /\ map_size \in Nat
    BY <1>2, ClaimNumbers DEF TypeOK
  <2>2. DOMAIN Numbering = Ids /\ \A u \in Ids : Numbering[u] \in Nat \cup {None}
    BY DEF Numbering, NumberingInv, TypeOK, Numbers
  <2>3. \A n \in 0 .. map_size : \E u \in Ids : Numbering'[u] = n
    <3> TAKE n \in 0 .. map_size
    <3>1. CASE n = map_size
      BY <2>1, <2>2, <3>1
    <3>2. CASE n \in 0 .. (map_size - 1)
      <4>1. PICK u \in Ids : Numbering[u] = n
        BY <1>0, <3>2
      <4> QED
        BY <2>1, <2>2, <3>2, <4>1, ManagerAssumption
    <3> QED
      BY <2>1, <3>1, <3>2
  <2> QED
    BY <1>0, <2>1, <2>2, <2>3, ManagerAssumption
<1>3. ASSUME NEW t \in Ids,
             StartThread(t) \/ ExitThread(t) \/ FindHit(t) \/ FindMiss(t) \/ Emplace(t)
      PROVE DenseInv'
  BY <1>1, <1>3, OtherStepsKeepNumbering
<1>4. ASSUME NEW count \in Counts, set_max_threads(count) PROVE DenseInv'
  BY <1>1, <1>4 DEF set_max_threads, threadVars, Numbering
<1>5. CASE UNCHANGED vars
  BY <1>1, <1>5 DEF vars, threadVars, Numbering
<1> QED
  BY <1>2, <1>3, <1>4, <1>5 DEF Next, ThreadStep

\* Entries and claims are exactly the numbers counted so far, each once: the
\* inductive invariant of the lookup, the counter and the emplace together.
THEOREM NumberingCorrect == Spec => []NumberingInv
<1>1. Init => NumberingInv
  BY ManagerAssumption DEF Init, NumberingInv, Numbering
<1>2. TypeOK /\ NumberingInv /\ [Next]_vars => NumberingInv'
  BY PcInvInductive, DenseInvInductive, SplitInv DEF NumberingInv, PcInv, DenseInv
<1> QED
  BY <1>1, <1>2, TypeCorrect, PTL DEF Spec

\* No two threads that are alive together ever hold the same number.
THEOREM NumbersAreDistinct == Spec => []DistinctNumbers
<1>1. NumberingInv => DistinctNumbers
  BY DEF NumberingInv, DistinctNumbers, Live, Numbering
<1> QED
  BY <1>1, NumberingCorrect, PTL

\* thread() returns the same number to a thread for the whole of its life.
THEOREM NumbersAreStable == Spec => NumberStable
<1>1. NumberingInv /\ NumberingInv' /\ TypeOK /\ [Next]_vars =>
        [\A t \in Ids : number[t] # None /\ number'[t] # None => number'[t] = number[t]]_vars
  <2> SUFFICES ASSUME NumberingInv, NumberingInv', TypeOK, [Next]_vars,
                      NEW t \in Ids, number[t] # None, number'[t] # None
               PROVE  number'[t] = number[t]
    OBVIOUS
  <2>1. number[t] = thread_ids[t] /\ number'[t] = thread_ids'[t]
    BY DEF NumberingInv
  <2>2. thread_ids[t] # None => thread_ids'[t] = thread_ids[t]
    BY DEF Next, ThreadStep, StartThread, ExitThread, FindHit, FindMiss, Claim,
           Emplace, Emplaced, set_max_threads, vars, threadVars, TypeOK
  <2> QED
    BY <2>1, <2>2
<1> QED
  BY <1>1, TypeCorrect, NumberingCorrect, PTL DEF Spec, NumberStable

\* thread() refines the atomic numbering of module ThreadNumbering.
THEOREM ThreadRefinesNumbering == Spec => NumberingRefines
<1>1. Init => Abstract!Init
  BY DEF Init, Abstract!Init, Numbering
<1>2. TypeOK /\ NumberingInv /\ [Next]_vars => [Abstract!Next]_Numbering
  <2> SUFFICES ASSUME TypeOK, NumberingInv, [Next]_vars
               PROVE  Abstract!Next \/ Numbering' = Numbering
    OBVIOUS
  <2>1. ASSUME NEW t \in Ids, Claim(t) PROVE Abstract!Assign(t)
    <3>1. /\ Numbering[t] = None
          /\ Numbering' = [Numbering EXCEPT ![t] = map_size]
      BY <2>1, ClaimNumbers
    <3>2. Numbering'[t] = map_size /\ map_size \in Nat
      BY <3>1 DEF Numbering, TypeOK
    <3>3. \A u \in Abstract!Numbered : Numbering[u] # Numbering'[t]
      BY <3>2 DEF Abstract!Numbered, NumberingInv
    <3>4. \A n \in 0 .. (Numbering'[t] - 1) :
             \E u \in Abstract!Numbered : Numbering[u] = n
      BY <3>2, ManagerAssumption DEF Abstract!Numbered, NumberingInv
    <3> QED
      BY <3>1, <3>2, <3>3, <3>4 DEF Abstract!Assign
  <2>2. ASSUME NEW t \in Ids,
               StartThread(t) \/ ExitThread(t) \/ FindHit(t) \/ FindMiss(t) \/ Emplace(t)
        PROVE  Numbering' = Numbering
    BY <2>2, OtherStepsKeepNumbering
  <2>3. ASSUME NEW count \in Counts, set_max_threads(count) PROVE Numbering' = Numbering
    BY <2>3 DEF set_max_threads, threadVars, Numbering
  <2>4. CASE UNCHANGED vars
    BY <2>4 DEF vars, threadVars, Numbering
  <2> QED
    BY <2>1, <2>2, <2>3, <2>4 DEF Next, ThreadStep, Abstract!Next
<1> QED
  BY <1>1, <1>2, TypeCorrect, NumberingCorrect, PTL DEF Spec, NumberingRefines, Abstract!Spec

-----------------------------------------------------------------------------

\* The steps of the container leave the manager alone.
LEMMA ContainsManager == StorageSpec => Spec
<1>1. StorageInit => Init
  BY DEF StorageInit
<1>2. [StorageNext]_allVars => [Next]_vars
  BY DEF StorageNext, ManagerNext, Construct, AssignAll, Write, allVars
<1> QED
  BY <1>1, <1>2, PTL DEF StorageSpec, Spec

\* The slots are numbered from 0 on and hold values.
SlotsOK == built \in BOOLEAN /\ \E n \in Nat : values_ \in [0 .. (n - 1) -> Values]

\* The variables of the container have the types of the members they model.
THEOREM StorageTypeCorrect == StorageSpec => []StorageTypeOK
<1>1. StorageInit => SlotsOK /\ expected \in [Ids -> Values \cup {None}]
  <2> SUFFICES ASSUME StorageInit
               PROVE  SlotsOK /\ expected \in [Ids -> Values \cup {None}]
    OBVIOUS
  <2>1. values_ \in [0 .. (0 - 1) -> Values]
    BY DEF StorageInit
  <2> QED
    BY <2>1 DEF StorageInit, SlotsOK
<1>2. /\ TypeOK /\ SlotsOK /\ expected \in [Ids -> Values \cup {None}]
      /\ [StorageNext]_allVars
      => (SlotsOK /\ expected \in [Ids -> Values \cup {None}])'
  <2> SUFFICES ASSUME TypeOK, SlotsOK, expected \in [Ids -> Values \cup {None}],
                      [StorageNext]_allVars
               PROVE  SlotsOK' /\ expected' \in [Ids -> Values \cup {None}]
    OBVIOUS
  <2>1. CASE ManagerNext
    BY <2>1 DEF ManagerNext, SlotsOK
  <2>2. ASSUME NEW v \in Values, Construct(v)
        PROVE  SlotsOK' /\ expected' \in [Ids -> Values \cup {None}]
    <3>1. max_threads \in Nat
      BY DEF TypeOK, Numbers, max_threads
    <3>2. values_' \in [0 .. (max_threads - 1) -> Values]
      BY <2>2 DEF Construct, Fill
    <3> QED
      BY <2>2, <3>1, <3>2 DEF Construct, SlotsOK
  <2>3. ASSUME NEW v \in Values, AssignAll(v)
        PROVE  SlotsOK' /\ expected' \in [Ids -> Values \cup {None}]
    <3>1. PICK n \in Nat : values_ \in [0 .. (n - 1) -> Values]
      BY DEF SlotsOK
    <3>2. values_' \in [0 .. (n - 1) -> Values]
      BY <2>3, <3>1 DEF AssignAll, Slots
    <3> QED
      BY <2>3, <3>2 DEF AssignAll, SlotsOK
  <2>4. ASSUME NEW t \in Ids, NEW v \in Values, Write(t, v)
        PROVE  SlotsOK' /\ expected' \in [Ids -> Values \cup {None}]
    <3>2. PICK n \in Nat : values_ \in [0 .. (n - 1) -> Values]
      BY DEF SlotsOK
    <3>3. values_' \in [0 .. (n - 1) -> Values]
      BY <2>4, <3>2 DEF Write
    <3> QED
      BY <2>4, <3>3 DEF Write, SlotsOK
  <2>5. CASE UNCHANGED allVars
    BY <2>5 DEF allVars, storageVars, SlotsOK
  <2> QED
    BY <2>1, <2>2, <2>3, <2>4, <2>5 DEF StorageNext
<1>3. TypeOK /\ SlotsOK /\ expected \in [Ids -> Values \cup {None}] => StorageTypeOK
  BY DEF StorageTypeOK, SlotsOK
<1> QED
  BY <1>1, <1>2, <1>3, ContainsManager, TypeCorrect, PTL DEF StorageSpec

\* A thread number is a valid index of every container that has at least as
\* many slots as numbers were handed out.
THEOREM IndexInBounds == StorageSpec => []InBounds
<1>1. StorageTypeOK /\ NumberingInv => InBounds
  <2> SUFFICES ASSUME StorageTypeOK, NumberingInv,
                      map_size <= Cardinality(Slots), NEW t \in Live, number[t] # None
               PROVE  number[t] \in Slots
    BY DEF InBounds
  <2>1. PICK n \in Nat : values_ \in [0 .. (n - 1) -> Values]
    BY DEF StorageTypeOK
  <2>2. Slots = 0 .. (n - 1)
    BY <2>1 DEF Slots
  <2>3. Cardinality(Slots) = n
    BY <2>2, FS_Interval
  <2>4. t \in Ids /\ number[t] \in Nat /\ map_size \in Nat
    BY ManagerAssumption DEF StorageTypeOK, TypeOK, Numbers, Live
  <2>5. thread_ids[t] = number[t] /\ pc[t] # "claimed"
    BY <2>4, ManagerAssumption DEF NumberingInv
  <2>6. number[t] < map_size
    BY <2>4, <2>5 DEF NumberingInv, Numbering
  <2> QED
    BY <2>2, <2>3, <2>4, <2>6
<1> QED
  BY <1>1, StorageTypeCorrect, ContainsManager, NumberingCorrect, PTL

\* A thread with a value in its slot is alive, has a number, and keeps it.
IsolationInv ==
  \A t \in Ids : expected[t] # None =>
    /\ built /\ pc[t] # "absent" /\ number[t] # None
    /\ number[t] \in Slots /\ values_[number[t]] = expected[t]

\* A step of the manager leaves the number of a thread that lives on alone.
LEMMA NumberKept ==
  ASSUME TypeOK, NumberingInv, [Next]_vars,
         NEW t \in Ids, pc[t] # "absent", pc'[t] # "absent", number[t] # None
  PROVE  number'[t] = number[t]
<1> USE DEF TypeOK, NumberingInv
<1>1. ASSUME NEW u \in Ids, StartThread(u) \/ ExitThread(u) PROVE number'[t] = number[t]
  BY <1>1 DEF StartThread, ExitThread
<1>2. ASSUME NEW u \in Ids, FindHit(u) PROVE number'[t] = number[t]
  BY <1>2 DEF FindHit
<1>3. ASSUME NEW u \in Ids, FindMiss(u) \/ Claim(u) PROVE number'[t] = number[t]
  BY <1>3 DEF FindMiss, Claim
<1>4. ASSUME NEW u \in Ids, Emplace(u) PROVE number'[t] = number[t]
  BY <1>4 DEF Emplace
<1>5. ASSUME NEW c \in Counts, set_max_threads(c) PROVE number'[t] = number[t]
  BY <1>5 DEF set_max_threads, threadVars
<1>6. CASE UNCHANGED vars
  BY <1>6 DEF vars, threadVars
<1> QED
  BY <1>1, <1>2, <1>3, <1>4, <1>5, <1>6 DEF Next, ThreadStep

\* Every step keeps what the threads expect in their slots.
LEMMA IsolationStep ==
  ASSUME StorageTypeOK, NumberingInv, IsolationInv, [StorageNext]_allVars
  PROVE  IsolationInv'
<1> USE DEF IsolationInv
<1>0. TypeOK /\ expected \in [Ids -> Values \cup {None}]
  BY DEF StorageTypeOK
<1>1. CASE ManagerNext
  <2> SUFFICES ASSUME NEW t \in Ids, expected'[t] # None
               PROVE  /\ built' /\ pc'[t] # "absent" /\ number'[t] # None
                      /\ number'[t] \in Slots' /\ values_'[number'[t]] = expected'[t]
    OBVIOUS
  <2>1. pc'[t] # "absent" /\ expected'[t] = expected[t] /\ values_' = values_ /\ built' = built
    BY <1>1 DEF ManagerNext
  <2>2. Slots' = Slots
    BY <2>1 DEF Slots
  <2>3. number'[t] = number[t]
    BY <1>0, <1>1, <2>1, NumberKept DEF ManagerNext
  <2> QED
    BY <2>1, <2>2, <2>3
<1>2. ASSUME NEW v \in Values, Construct(v) PROVE IsolationInv'
  <2>1. ~built /\ UNCHANGED expected
    BY <1>2 DEF Construct
  <2> QED
    BY <1>0, <2>1
<1>3. ASSUME NEW v \in Values, AssignAll(v) PROVE IsolationInv'
  <2>1. number' = number /\ pc' = pc /\ Slots' = Slots
    BY <1>3 DEF AssignAll, vars, threadVars, Slots
  <2>2. \A i \in Slots : values_'[i] = v
    BY <1>3 DEF AssignAll
  <2>3. built' = built /\ \A t \in Ids : expected'[t] # None =>
          expected[t] # None /\ expected'[t] = v
    BY <1>0, <1>3 DEF AssignAll
  <2> SUFFICES ASSUME NEW t \in Ids, expected'[t] # None
               PROVE  /\ built' /\ pc'[t] # "absent" /\ number'[t] # None
                      /\ number'[t] \in Slots' /\ values_'[number'[t]] = expected'[t]
    OBVIOUS
  <2>4. /\ built /\ pc[t] # "absent" /\ number[t] # None /\ number[t] \in Slots
        /\ expected'[t] = v
    BY <2>3
  <2>5. values_'[number[t]] = v
    BY <2>2, <2>4
  <2> QED
    BY <2>1, <2>3, <2>4, <2>5
<1>4. ASSUME NEW t \in Ids, NEW v \in Values, Write(t, v) PROVE IsolationInv'
  <2>1. number' = number /\ pc' = pc
    BY <1>4 DEF Write, vars, threadVars
  <2>2. Slots' = Slots /\ built' = built /\ built
    BY <1>4 DEF Write, Slots
  <2>3. pc[t] # "absent"
    BY <1>4 DEF Write, NumberingInv
  <2> SUFFICES ASSUME NEW u \in Ids, expected'[u] # None
               PROVE  /\ built' /\ pc'[u] # "absent" /\ number'[u] # None
                      /\ number'[u] \in Slots' /\ values_'[number'[u]] = expected'[u]
    OBVIOUS
  <2>4. CASE u = t
    BY <1>0, <1>4, <2>1, <2>2, <2>3, <2>4 DEF Write, Slots
  <2>5. CASE u # t
    <3>1. expected'[u] = expected[u]
      BY <1>0, <1>4, <2>5 DEF Write
    <3>2. number[u] # number[t]
      BY <1>4, <2>5, <3>1 DEF Write, NumberingInv, Numbering
    <3>3. values_'[number[u]] = values_[number[u]]
      BY <1>4, <3>1, <3>2 DEF Write, Slots
    <3> QED
      BY <2>1, <2>2, <3>1, <3>3
  <2> QED
    BY <2>4, <2>5
<1>5. CASE UNCHANGED allVars
  BY <1>5 DEF allVars, storageVars, vars, threadVars, Slots
<1> QED
  BY <1>1, <1>2, <1>3, <1>4, <1>5 DEF StorageNext

\* A thread finds in its slot what it put there, or what was assigned to the
\* whole container since: no other thread reaches the slot.
THEOREM SlotsAreIsolated == StorageSpec => []Isolation
<1>1. StorageInit => IsolationInv
  BY DEF StorageInit, IsolationInv
<1>2. StorageTypeOK /\ NumberingInv /\ IsolationInv /\ [StorageNext]_allVars => IsolationInv'
  BY IsolationStep
<1>3. IsolationInv => Isolation
  BY DEF IsolationInv, Isolation, Live
<1> QED
  BY <1>1, <1>2, <1>3, StorageTypeCorrect, ContainsManager, NumberingCorrect, PTL DEF StorageSpec
==============================================================================
