--------------------------- MODULE MachinesProofs ---------------------------
(***************************************************************************)
(* Nine of the parts that one caller uses by itself, for all their inputs: *)
(* what find_largest_by_bisection() returns is a boundary of the           *)
(* condition; a FixedMap is a map however it is written to; a function     *)
(* whose ParameterType is made of parts serves each of them; the storage   *)
(* providers of memory.hh count owners correctly, for any number of        *)
(* providers and objects and any history of copies, moves and assignments; *)
(* nested SuspendLocal and ResumeLocal scopes leave a buffer as they found *)
(* it, for any priorities and any depth of nesting; what runs of the tests *)
(* leave to each other is complete and rightly named; a matrix of blocks   *)
(* calculates like one without; every line of a prefixed stream starts     *)
(* with its prefix, for any text and any sync(); a convergence study       *)
(* prints an aligned table and returns all the data it was asked for.      *)
(* Each part has its inductive invariant, the lemmas it needs and its      *)
(* theorems.                                                               *)
(***************************************************************************)
EXTENDS Bisection, BlockedMatrix, ConvergenceStudy, FixedMap, Parameter, StorageProvider,
        SuspendScopes, TestTimings, TimedPrefix, FiniteSetTheorems, SequenceTheorems,
        WellFoundedInduction, TLAPS

-----------------------------------------------------------------------------
(* find_largest_by_bisection()                                             *)

\* What an argument, a bound and the state of the search can be.
BisectionTypeOK ==
  /\ search \in Searches
  /\ ll \in Points /\ rr \in Points
  /\ bisection \in {"start", "running", "found", "bisection_error"}

\* x is where find_largest_by_bisection() was asked to search.
Sought(x) ==
  \/ search.left <= x /\ x <= search.right
  \/ search.right <= x /\ x <= search.left

\* While the bounds differ the condition changes between them. They are where
\* it was asked to search, and equal only at the right end.
Bracket ==
  bisection \in {"running", "found"} =>
    /\ Sought(ll) /\ Sought(rr) /\ ll <= rr /\ search.condition[ll]
    /\ bisection = "running" => ~search.condition[rr]
    /\ search.condition[rr] => search.left <= ll /\ search.right <= ll

BisectionInv == BisectionTypeOK /\ Bracket /\ FoundIsBoundary

\* The arguments are what Searches says they are.
LEMMA SearchTypes ==
  ASSUME NEW s \in Searches
  PROVE  /\ s.left \in Points /\ s.right \in Points
         /\ s.condition \in [Points -> BOOLEAN]
         /\ s.rel_error \in Nat /\ s.abs_error \in Nat
  BY SearchesAssumption

\* A product of absolute values and naturals is a natural.
LEMMA ToleranceIsNat ==
  ASSUME NEW x \in Int, NEW a \in Nat, NEW r \in Nat
  PROVE  a + Absolute(x) * r \in Nat
<1>1. Absolute(x) \in Nat
  BY DEF Absolute
<1> QED BY <1>1

\* The invariant holds at first.
LEMMA InitBisection == BisectionInit => BisectionInv
  BY SearchTypes DEF BisectionInit, BisectionInv, BisectionTypeOK, Bracket, FoundIsBoundary

\* Every step keeps it.
LEMMA NextBisection == BisectionInv /\ [BisectionNext]_bisectionVars => BisectionInv'
<1> SUFFICES ASSUME BisectionInv, [BisectionNext]_bisectionVars
             PROVE  BisectionInv'
  OBVIOUS
<1> USE DEF BisectionInv, BisectionTypeOK, Bracket, Sought
<1>0. /\ search \in Searches /\ ll \in Points /\ rr \in Points
      /\ search.left \in Points /\ search.right \in Points
      /\ search.condition \in [Points -> BOOLEAN]
      /\ search.rel_error \in Nat /\ search.abs_error \in Nat
      /\ Points \subseteq Int
  BY SearchTypes, SearchesAssumption
<1>00. /\ ll \in Int /\ rr \in Int
       /\ search.left \in Int /\ search.right \in Int
  BY <1>0
<1>1. CASE Bounds
  <2> DEFINE lower == IF search.left < search.right THEN search.left ELSE search.right
             upper == IF search.left < search.right THEN search.right ELSE search.left
  <2>1. /\ lower \in Points /\ upper \in Points
        /\ lower <= upper /\ search.left <= upper /\ search.right <= upper
        /\ Sought(lower) /\ Sought(upper)
    <3>1. CASE search.left < search.right
      BY <1>0, <1>00, <3>1
    <3>2. CASE ~(search.left < search.right)
      BY <1>0, <1>00, <3>2
    <3> QED BY <3>1, <3>2
  <2>2. search' = search /\ rr' = upper
    BY <1>1 DEF Bounds
  <2>3. CASE search.condition[upper]
    <3>1. ll' = upper /\ bisection' = "found"
      BY <1>1, <2>3 DEF Bounds
    <3> HIDE DEF upper, lower
    <3>2. BisectionTypeOK' /\ Bracket'
      BY <1>0, <2>1, <2>2, <2>3, <3>1
    <3>3. FoundIsBoundary'
      BY <2>2, <2>3, <3>1 DEF FoundIsBoundary
    <3> QED BY <3>2, <3>3
  <2>4. CASE ~search.condition[upper]
    <3>1. /\ ll' = lower
          /\ bisection' = IF search.condition[lower] THEN "running" ELSE "bisection_error"
      BY <1>1, <2>4 DEF Bounds
    <3> HIDE DEF upper, lower
    <3>2. BisectionTypeOK' /\ Bracket'
      BY <1>0, <2>1, <2>2, <2>4, <3>1
    <3>3. FoundIsBoundary'
      BY <3>1 DEF FoundIsBoundary
    <3> QED BY <3>2, <3>3
  <2> QED BY <2>3, <2>4
<1>2. CASE Halve
  <2>1. PICK middle \in ll .. rr :
          IF search.condition[middle] THEN ll' = middle /\ rr' = rr
          ELSE rr' = middle /\ ll' = ll
    BY <1>2 DEF Halve
  <2>2. middle \in Points
    BY <1>0, SearchesAssumption
  <2>3. bisection = "running" /\ bisection' = "running" /\ search' = search
    BY <1>2 DEF Halve
  <2>4. ll <= middle /\ middle <= rr
    BY <1>0, <2>1
  <2>5. BisectionTypeOK' /\ Bracket'
    <3>1. middle \in Int /\ Sought(middle)
      BY <1>00, <2>3, <2>4
    <3>2. CASE search.condition[middle]
      <4>1. ll' = middle /\ rr' = rr
        BY <2>1, <3>2
      <4> QED BY <1>0, <1>00, <2>2, <2>3, <2>4, <3>1, <3>2, <4>1
    <3>3. CASE ~search.condition[middle]
      <4>1. rr' = middle /\ ll' = ll
        BY <2>1, <3>3
      <4> QED BY <1>0, <1>00, <2>2, <2>3, <2>4, <3>1, <3>3, <4>1
    <3> QED BY <3>2, <3>3
  <2>6. FoundIsBoundary'
    BY <2>3 DEF FoundIsBoundary
  <2> QED BY <2>5, <2>6
<1>3. CASE Close
  <2>1. bisection = "running" /\ bisection' = "found" /\ UNCHANGED <<search, ll, rr>> /\ ~Apart
    BY <1>3 DEF Close
  <2>2. ll <= rr /\ search.condition[ll] /\ ~search.condition[rr]
    BY <2>1
  <2>3. search.abs_error + Absolute(ll) * search.rel_error \in Nat
    BY <1>0, ToleranceIsNat
  <2>4. ll # rr => rr - ll <= search.abs_error + Absolute(ll) * search.rel_error
    <3> DEFINE tolerance == search.abs_error + Absolute(ll) * search.rel_error
    <3>1. tolerance \in Nat
      BY <2>3
    <3>2. ll # rr => ~(Absolute(rr - ll) > tolerance)
      BY <2>1, <2>2, <1>0 DEF Apart
    <3> HIDE DEF tolerance
    <3>3. ll # rr => rr - ll <= tolerance
      BY <3>1, <3>2, <2>2, <1>0 DEF Absolute
    <3> QED BY <3>3 DEF tolerance
  <2> QED BY <1>0, <2>1, <2>2, <2>4 DEF FoundIsBoundary
<1>4. CASE UNCHANGED bisectionVars
  BY <1>0, <1>4 DEF bisectionVars, FoundIsBoundary
<1> QED BY <1>1, <1>2, <1>3, <1>4 DEF BisectionNext

\* The number that is returned fulfils the condition, and the next one that was
\* tried does not: lines 31 to 46 of bisect.hh, whatever the condition is.
THEOREM FoundIsABoundary == BisectionSpec => []FoundIsBoundary
<1>1. BisectionInv => FoundIsBoundary
  BY DEF BisectionInv
<1> QED BY InitBisection, NextBisection, <1>1, PTL DEF BisectionSpec

\* What the invariant says of the number returned if the doc's presumption holds.
LEMMA BracketIsLargest == BisectionInv => FoundIsLargest
<1> SUFFICES ASSUME BisectionInv, bisection = "found", Presumed,
                    NEW y \in search.left .. search.right \cup search.right .. search.left,
                    search.condition[y]
             PROVE  y <= ll + search.abs_error + Absolute(ll) * search.rel_error
  BY DEF FoundIsLargest
<1> DEFINE tolerance == search.abs_error + Absolute(ll) * search.rel_error
<1>1. /\ ll \in Int /\ rr \in Int /\ search.left \in Int /\ search.right \in Int
      /\ search.abs_error \in Nat /\ search.rel_error \in Nat
  BY SearchTypes, SearchesAssumption DEF BisectionInv, BisectionTypeOK
<1>2. tolerance \in Nat /\ Absolute(ll) * search.rel_error \in Nat
  <2>1. Absolute(ll) \in Nat
    BY <1>1 DEF Absolute
  <2> QED BY <1>1, <2>1
<1>3. CASE ll = rr
  <2>1. search.left <= ll /\ search.right <= ll
    BY <1>3 DEF BisectionInv, Bracket
  <2>2. y <= ll
    BY <1>1, <2>1
  <2> QED BY <1>1, <1>2, <2>2
<1>4. CASE ll # rr
  <2>1. ~search.condition[rr] /\ rr - ll <= tolerance
    BY <1>4 DEF BisectionInv, FoundIsBoundary
  <2>2. rr \in search.left .. search.right \cup search.right .. search.left
    BY <1>1 DEF BisectionInv, Bracket, Sought
  <2>3. ~(rr < y)
    BY <2>1, <2>2 DEF Presumed
  <2>4. y <= rr
    BY <1>1, <2>3
  <2> HIDE DEF tolerance
  <2>5. y <= ll + tolerance
    BY <1>1, <1>2, <2>1, <2>4
  <2> QED BY <1>1, <1>2, <2>5 DEF tolerance
<1> QED BY <1>3, <1>4

\* If the condition is as the doc of bisect.hh presumes, nothing right of the
\* number returned fulfils it, but for what the tolerances hide.
THEOREM FoundIsTheLargest == BisectionSpec => []FoundIsLargest
  BY InitBisection, NextBisection, BracketIsLargest, PTL DEF BisectionSpec

\* Both together: what find_largest_by_bisection() returns.
THEOREM FoundIsCorrect == BisectionSpec => []FoundIsRight
  BY FoundIsABoundary, FoundIsTheLargest, PTL DEF FoundIsRight

-----------------------------------------------------------------------------
(* FixedMap                                                                *)

\* Smaller is a relation without infinite descent.
LEMMA LessThanIsARelation ==
  \E R : IsWellFoundedOn(R, Nat) /\ \A x, y \in Nat : y < x => <<y, x>> \in R
<1>1. \A x, y \in Nat : y < x => <<y, x>> \in OpToRel(<, Nat)
  BY DEF OpToRel
<1> QED
  BY <1>1, NatLessThanWellFounded, Zenon

\* A set of naturals has a least element.
LEMMA LeastNatural ==
  ASSUME NEW S \in SUBSET Nat, S # {}
  PROVE  \E n \in S : \A m \in S : n <= m
<1>1. PICK R : IsWellFoundedOn(R, Nat) /\ \A x, y \in Nat : y < x => <<y, x>> \in R
  BY LessThanIsARelation
<1>2. PICK n \in S : \A m \in S : ~(<<m, n>> \in R)
  BY <1>1, WFMin
<1>3. ASSUME NEW m \in S PROVE n <= m
  <2>1. m \in Nat /\ n \in Nat
    OBVIOUS
  <2>2. ~(m < n)
    BY <1>1, <1>2, <2>1
  <2> QED
    BY <2>1, <2>2
<1> QED
  BY <1>3

\* Where a key stands first: what std::find_if() returns.
FirstAt(entries, key, i) ==
  /\ i \in 0 .. N - 1 /\ entries[i][1] = key
  /\ \A j \in 0 .. i - 1 : entries[j][1] # key

KeysOf(entries) == {entries[i][1] : i \in 0 .. N - 1}

\* get_idx() finds the first entry with a key exactly if there is one with it.
LEMMA GetIdx ==
  ASSUME NEW entries, NEW key
  PROVE  /\ key \in KeysOf(entries) => FirstAt(entries, key, get_idx(entries, key))
         /\ key \notin KeysOf(entries) => get_idx(entries, key) = N
         /\ \A i : FirstAt(entries, key, i) => get_idx(entries, key) = i
<1> USE FixedAssumption
<1>1. ASSUME NEW i, NEW j, FirstAt(entries, key, i), FirstAt(entries, key, j) PROVE i = j
  BY <1>1 DEF FirstAt
<1>2. ASSUME key \in KeysOf(entries) PROVE \E i \in 0 .. N - 1 : FirstAt(entries, key, i)
  <2> DEFINE S == {i \in 0 .. N - 1 : entries[i][1] = key}
  <2>1. S \in SUBSET Nat /\ S # {}
    BY <1>2 DEF KeysOf
  <2>2. PICK i \in S : \A j \in S : i <= j
    BY <2>1, LeastNatural
  <2> QED
    BY <2>1, <2>2 DEF FirstAt
<1>3. ASSUME key \in KeysOf(entries) PROVE FirstAt(entries, key, get_idx(entries, key))
  <2>1. \E i \in 0 .. N - 1 : entries[i][1] = key
    BY <1>3 DEF KeysOf
  <2>2. get_idx(entries, key) = CHOOSE i \in 0 .. N - 1 :
          entries[i][1] = key /\ \A j \in 0 .. i - 1 : entries[j][1] # key
    BY <2>1 DEF get_idx
  <2> QED
    BY <1>2, <1>3, <2>2 DEF FirstAt
<1>4. key \notin KeysOf(entries) => get_idx(entries, key) = N
  BY DEF KeysOf, get_idx
<1>5. ASSUME NEW i, FirstAt(entries, key, i) PROVE key \in KeysOf(entries)
  BY <1>5 DEF FirstAt, KeysOf
<1> QED
  BY <1>1, <1>3, <1>4, <1>5

\* The inductive invariant: the map given the same calls has the keys of the entries, and
\* for each the value of the first entry that has it.
FixedIndInv ==
  /\ map_ \in [0 .. N - 1 -> Pairs]
  /\ index_ \in 0 .. N \cup {NoMap}
  /\ keyed \in [KeysOf(map_) -> FixedValues]
  /\ \A key \in KeysOf(map_) : keyed[key] = map_[get_idx(map_, key)][2]

\* An array of pairs whose elements behind the m-th repeat it holds what inserting the
\* first m pairs makes.
LEMMA InsertedIsKeyed ==
  ASSUME NEW entries \in [0 .. N - 1 -> Pairs], NEW all \in Seq(Pairs),
         NEW m \in 1 .. N, m <= Len(all),
         \A i \in 0 .. m - 1 : entries[i] = all[i + 1],
         \A i \in m .. N - 1 : entries[i] = entries[m - 1]
  PROVE  /\ Inserted(all, m) \in [KeysOf(entries) -> FixedValues]
         /\ \A key \in KeysOf(entries) :
              Inserted(all, m)[key] = entries[get_idx(entries, key)][2]
<1> USE FixedAssumption
<1> DEFINE K == {all[i][1] : i \in 1 .. m}
           at(key) == CHOOSE i \in 1 .. m : all[i][1] = key /\ \A j \in 1 .. i - 1 : all[j][1] # key
<1>1. ASSUME NEW key \in KeysOf(entries)
      PROVE  LET i == get_idx(entries, key)
             IN  i \in 0 .. m - 1 /\ FirstAt(entries, key, i)
  <2> DEFINE i == get_idx(entries, key)
  <2>1. FirstAt(entries, key, i)
    BY <1>1, GetIdx
  <2>2. i \in 0 .. N - 1
    BY <2>1 DEF FirstAt
  <2>3. i \notin m .. N - 1
    BY <2>1, <2>2 DEF FirstAt
  <2> QED
    BY <2>1, <2>2, <2>3
<1>2. \A i \in 1 .. m : all[i] = entries[i - 1] /\ i - 1 \in 0 .. N - 1
  <2> TAKE i \in 1 .. m
  <2>1. i - 1 \in 0 .. m - 1 /\ (i - 1) + 1 = i /\ i - 1 \in 0 .. N - 1
    OBVIOUS
  <2> QED
    BY <2>1
<1>3. K = KeysOf(entries)
  <2>1. ASSUME NEW key \in KeysOf(entries) PROVE key \in K
    <3> DEFINE i == get_idx(entries, key)
    <3>1. i \in 0 .. m - 1 /\ entries[i][1] = key
      BY <1>1, <2>1 DEF FirstAt
    <3>2. i + 1 \in 1 .. m /\ all[i + 1][1] = key
      BY <3>1
    <3> QED
      BY <3>2
  <2>2. ASSUME NEW key \in K PROVE key \in KeysOf(entries)
    BY <1>2, <2>2 DEF KeysOf
  <2> QED
    BY <2>1, <2>2
<1>4. ASSUME NEW key \in KeysOf(entries)
      PROVE  at(key) \in 1 .. m /\ at(key) - 1 = get_idx(entries, key)
  <2> DEFINE i == get_idx(entries, key)
             P(k) == k \in 1 .. m /\ all[k][1] = key /\ \A j \in 1 .. k - 1 : all[j][1] # key
  <2>1. i \in 0 .. m - 1 /\ FirstAt(entries, key, i)
    BY <1>1, <1>4
  <2>2. P(i + 1)
    <3>1. i + 1 \in 1 .. m /\ all[i + 1][1] = key
      BY <2>1 DEF FirstAt
    <3>2. ASSUME NEW j \in 1 .. (i + 1) - 1 PROVE all[j][1] # key
      <4>1. j \in 1 .. m /\ j - 1 \in 0 .. i - 1
        BY <2>1, <3>2
      <4> QED
        BY <1>2, <2>1, <4>1 DEF FirstAt
    <3> QED
      BY <3>1, <3>2
  <2>3. ASSUME NEW k, P(k) PROVE k - 1 = i
    <3>1. k \in 1 .. m /\ k - 1 \in 0 .. N - 1 /\ entries[k - 1][1] = key
      BY <1>2, <2>3
    <3>2. ASSUME NEW j \in 0 .. (k - 1) - 1 PROVE entries[j][1] # key
      <4>1. j + 1 \in 1 .. k - 1 /\ j \in 0 .. m - 1
        BY <3>1, <3>2
      <4> QED
        BY <2>3, <4>1
    <3>3. FirstAt(entries, key, k - 1)
      BY <3>1, <3>2 DEF FirstAt
    <3> QED
      BY <3>3, GetIdx
  <2>4. at(key) = CHOOSE k : P(k)
    OBVIOUS
  <2>5. P(at(key))
    BY <2>2, <2>4
  <2> QED
    BY <2>3, <2>5
<1>5. Inserted(all, m) = [key \in K |-> all[at(key)][2]]
  BY DEF Inserted
<1> HIDE DEF at, K
<1>6. ASSUME NEW key \in KeysOf(entries)
      PROVE  all[at(key)][2] = entries[get_idx(entries, key)][2] /\ all[at(key)][2] \in FixedValues
  <2>1. all[at(key)] = entries[get_idx(entries, key)] /\ all[at(key)] \in Pairs
    BY <1>2, <1>4, <1>6
  <2> QED
    BY <2>1 DEF Pairs
<1> QED
  BY <1>3, <1>5, <1>6

\* A list of at least one pair makes a map.
LEMMA ConstructStep == ASSUME FixedIndInv, FixedConstruct PROVE FixedIndInv'
<1> USE FixedAssumption
<1>0. PICK n \in 1 .. MaxList : \E list \in [1 .. n -> Pairs] :
        /\ map_' = FromList(list) /\ index_' = NoMap
        /\ keyed' = LET all == Pad(list) IN
                    Inserted(all, IF Len(all) < N THEN Len(all) ELSE N)
  BY DEF FixedConstruct
<1>1. PICK list \in [1 .. n -> Pairs] :
        /\ map_' = FromList(list) /\ index_' = NoMap
        /\ keyed' = LET all == Pad(list) IN
                    Inserted(all, IF Len(all) < N THEN Len(all) ELSE N)
  BY <1>0
<1>2. DefaultPair \in Pairs /\ list \in Seq(Pairs) /\ Len(list) = n /\ n \in Nat \ {0}
  BY DEF DefaultPair, Pairs
<1> DEFINE all == Pad(list)
           m == IF Len(all) < N THEN Len(all) ELSE N
<1>3. /\ all \in Seq(Pairs) /\ m \in 1 .. N /\ m <= Len(all)
      /\ \A i \in 0 .. m - 1 : (IF i < n THEN list[i + 1] ELSE DefaultPair) = all[i + 1]
      /\ m < N => m = n + 1 /\ all[m] = DefaultPair
      /\ m = N => n + 1 >= N
  <2>1. CASE n < N
    <3>1. all = Append(list, DefaultPair) /\ Len(all) = n + 1 /\ m = n + 1
      BY <1>2, <2>1 DEF Pad
    <3>2. \A i \in 0 .. m - 1 : (IF i < n THEN list[i + 1] ELSE DefaultPair) = all[i + 1]
      BY <1>2, <3>1
    <3> QED
      BY <1>2, <2>1, <3>1, <3>2
  <2>2. CASE ~(n < N)
    <3>1. all = list /\ m = N
      BY <1>2, <2>2 DEF Pad
    <3> QED
      BY <1>2, <2>2, <3>1
  <2> QED
    BY <2>1, <2>2
<1>4. /\ map_' = [i \in 0 .. N - 1 |-> IF i < n THEN list[i + 1] ELSE DefaultPair]
      /\ map_' \in [0 .. N - 1 -> Pairs]
  BY <1>1, <1>2 DEF FromList
<1>5. keyed' = Inserted(all, m)
  BY <1>1
<1> HIDE DEF all, m
<1>6. \A i \in 0 .. m - 1 : map_'[i] = all[i + 1]
  BY <1>3, <1>4
<1>7. \A i \in m .. N - 1 : map_'[i] = map_'[m - 1]
  <2> TAKE i \in m .. N - 1
  <2>1. m < N /\ i \in 0 .. N - 1 /\ m - 1 \in 0 .. m - 1 /\ (m - 1) + 1 = m
    BY <1>3
  <2>2. m = n + 1 /\ all[m] = DefaultPair /\ ~(i < n)
    BY <1>2, <1>3, <2>1
  <2> QED
    BY <1>4, <1>6, <2>1, <2>2
<1>8. /\ Inserted(all, m) \in [KeysOf(map_') -> FixedValues]
      /\ \A key \in KeysOf(map_') : Inserted(all, m)[key] = map_'[get_idx(map_', key)][2]
  BY <1>3, <1>4, <1>6, <1>7, InsertedIsKeyed
<1> QED
  BY <1>1, <1>4, <1>5, <1>8 DEF FixedIndInv

\* after is what entries are when the value of the i-th is written.
Written(entries, after, i, value) ==
  /\ entries \in [0 .. N - 1 -> Pairs] /\ i \in 0 .. N - 1 /\ value \in FixedValues
  /\ after = [entries EXCEPT ![i][2] = value]

\* Writing value to the i-th changed its value, and nothing else.
SameButValue(entries, after, i, value) ==
  /\ after \in [0 .. N - 1 -> Pairs] /\ after[i][2] = value
  /\ \A j \in 0 .. N - 1 : after[j][1] = entries[j][1] /\ (j # i => after[j] = entries[j])
  /\ KeysOf(after) = KeysOf(entries)
  /\ \A key : get_idx(after, key) = get_idx(entries, key)

\* Writing the value of an entry moves no key.
LEMMA ValueWritten ==
  ASSUME NEW entries, NEW after, NEW i, NEW value, Written(entries, after, i, value)
  PROVE  SameButValue(entries, after, i, value)
<1>0. /\ entries \in [0 .. N - 1 -> Pairs] /\ i \in 0 .. N - 1 /\ value \in FixedValues
      /\ after = [entries EXCEPT ![i][2] = value]
  BY DEF Written
<1>1. PICK key \in FixedKeys, old \in FixedValues : entries[i] = <<key, old>>
  BY <1>0 DEF Pairs
<1>2. [entries[i] EXCEPT ![2] = value] = <<key, value>>
  BY <1>1
<1>3. after = [j \in 0 .. N - 1 |-> IF j = i THEN <<key, value>> ELSE entries[j]]
  BY <1>0, <1>2
<1>4. after \in [0 .. N - 1 -> Pairs]
  BY <1>0, <1>1, <1>3 DEF Pairs
<1>5. \A j \in 0 .. N - 1 : after[j][1] = entries[j][1] /\ (j # i => after[j] = entries[j])
  BY <1>1, <1>3
<1>6. KeysOf(after) = KeysOf(entries)
  BY <1>5 DEF KeysOf
<1>7. ASSUME NEW k PROVE get_idx(after, k) = get_idx(entries, k)
  <2>1. CASE k \notin KeysOf(entries)
    BY <1>6, <2>1, GetIdx
  <2>2. CASE k \in KeysOf(entries)
    <3> DEFINE at == get_idx(entries, k)
    <3>1. FirstAt(entries, k, at)
      BY <2>2, GetIdx
    <3>2. at \in 0 .. N - 1 /\ \A j \in 0 .. at - 1 : j \in 0 .. N - 1
      BY <3>1, FixedAssumption DEF FirstAt
    <3>3. FirstAt(after, k, at)
      BY <1>5, <3>1, <3>2 DEF FirstAt
    <3> QED
      BY <3>3, GetIdx
  <2> QED
    BY <2>1, <2>2
<1>8. after[i][2] = value
  BY <1>0, <1>3
<1> QED
  BY <1>4, <1>5, <1>6, <1>7, <1>8 DEF SameButValue

\* Writing by key or through an iterator keeps the invariant: only the first entry of a
\* key is seen by key.
LEMMA WriteStep ==
  ASSUME FixedIndInv, NEW i \in 0 .. N - 1, NEW value \in FixedValues,
         map_' = [map_ EXCEPT ![i][2] = value], UNCHANGED index_,
         keyed' = IF get_idx(map_, map_[i][1]) = i THEN [keyed EXCEPT ![map_[i][1]] = value]
                  ELSE keyed
  PROVE  FixedIndInv'
<1>1. map_ \in [0 .. N - 1 -> Pairs] /\ keyed \in [KeysOf(map_) -> FixedValues]
  BY DEF FixedIndInv
<1>2. /\ map_' \in [0 .. N - 1 -> Pairs] /\ map_'[i][2] = value
      /\ \A j \in 0 .. N - 1 : map_'[j][1] = map_[j][1] /\ (j # i => map_'[j] = map_[j])
      /\ KeysOf(map_') = KeysOf(map_)
      /\ \A key : get_idx(map_', key) = get_idx(map_, key)
  <2>1. Written(map_, map_', i, value)
    BY <1>1 DEF Written
  <2>2. SameButValue(map_, map_', i, value)
    BY <2>1, ValueWritten
  <2> QED
    BY <2>2 DEF SameButValue
<1>3. keyed' \in [KeysOf(map_') -> FixedValues]
  BY <1>1, <1>2
<1>4. ASSUME NEW key \in KeysOf(map_') PROVE keyed'[key] = map_'[get_idx(map_', key)][2]
  <2> DEFINE at == get_idx(map_, key)
  <2>1. FirstAt(map_, key, at) /\ get_idx(map_', key) = at /\ key \in KeysOf(map_)
    BY <1>2, <1>4, GetIdx
  <2>2. at \in 0 .. N - 1 /\ map_[at][1] = key
    BY <2>1 DEF FirstAt
  <2>3. keyed[key] = map_[at][2]
    BY <2>1 DEF FixedIndInv
  <2> HIDE DEF at
  <2>4. CASE at = i
    BY <1>1, <1>2, <2>1, <2>2, <2>4 DEF at
  <2>5. CASE at # i
    <3>1. keyed'[key] = keyed[key]
      BY <1>1, <2>1, <2>2, <2>5 DEF at
    <3> QED
      BY <1>2, <2>1, <2>2, <2>3, <2>5, <3>1
  <2> QED
    BY <2>4, <2>5
<1> QED
  BY <1>2, <1>3, <1>4 DEF FixedIndInv

\* Each operation keeps the invariant.
LEMMA FixedStep == FixedIndInv /\ [FixedNext]_fixedVars => FixedIndInv'
<1> SUFFICES ASSUME FixedIndInv, [FixedNext]_fixedVars PROVE FixedIndInv'
  OBVIOUS
<1> USE FixedAssumption
<1>1. CASE FixedConstruct
  BY <1>1, ConstructStep
<1>2. ASSUME NEW key \in FixedKeys, NEW value \in FixedValues, FixedWrite(key, value)
      PROVE  FixedIndInv'
  <2> DEFINE i == get_idx(map_, key)
  <2>1. i # N /\ map_' = [map_ EXCEPT ![i][2] = value] /\ UNCHANGED index_
        /\ keyed' = [keyed EXCEPT ![key] = value]
    BY <1>2 DEF FixedWrite
  <2>2. i \in 0 .. N - 1 /\ map_[i][1] = key
    BY <2>1, GetIdx DEF FirstAt
  <2> QED
    BY <2>1, <2>2, WriteStep
<1>3. ASSUME NEW key \in FixedKeys, FixedFind(key) PROVE FixedIndInv'
  <2>1. get_idx(map_, key) \in 0 .. N
    BY GetIdx DEF FirstAt
  <2> QED
    BY <1>3, <2>1 DEF FixedFind, FixedIndInv
<1>4. CASE FixedBegin
  BY <1>4 DEF FixedBegin, FixedIndInv
<1>5. CASE FixedIncrement
  BY <1>5 DEF FixedIncrement, FixedIndInv
<1>6. ASSUME NEW value \in FixedValues, FixedAssign(value) PROVE FixedIndInv'
  <2>1. index_ \in 0 .. N - 1
    BY <1>6 DEF FixedAssign, FixedIndInv
  <2> QED
    BY <1>6, <2>1, WriteStep DEF FixedAssign
<1>7. CASE UNCHANGED fixedVars
  BY <1>7 DEF fixedVars, FixedIndInv
<1> QED
  BY <1>1, <1>2, <1>3, <1>4, <1>5, <1>6, <1>7 DEF FixedNext

\* What the invariant says of the ways to look at a FixedMap.
LEMMA SeenAsMap == FixedIndInv => FixedMapInv
<1> SUFFICES ASSUME FixedIndInv PROVE FixedMapInv
  OBVIOUS
<1> USE FixedAssumption
<1>1. DOMAIN keyed = KeysOf(map_)
  BY DEF FixedIndInv
<1>2. ASSUME NEW key
      PROVE  /\ get_idx(map_, key) \in 0 .. N
             /\ get_idx(map_, key) # N <=> key \in KeysOf(map_)
  BY GetIdx DEF FirstAt
<1>3. ActsAsMap
  BY <1>1, <1>2 DEF ActsAsMap, FixedIndInv
<1>4. \A key \in FixedKeys : FixedEqual(get_idx(map_, key), N) = (key \notin DOMAIN keyed)
  <2> TAKE key \in FixedKeys
  <2>1. get_idx(map_, key) # NoMap /\ N # NoMap
    BY <1>2
  <2> QED
    BY <1>1, <1>2, <2>1 DEF FixedEqual
<1>5. {j \in 0 .. N : ~FixedEqual(j, N)} = 0 .. N - 1
  BY DEF FixedEqual
<1>6. {map_[i][1] : i \in {j \in 0 .. N : ~FixedEqual(j, N)}} = DOMAIN keyed
  BY <1>1, <1>5 DEF KeysOf
<1> QED
  BY <1>3, <1>4, <1>6 DEF FixedMapInv, FindAgrees

\* For any number of entries, lists of any length and any sequence of writes, by subscript
\* and through iterators, a FixedMap is the map that was given the same pairs and writes.
THEOREM FixedMapIsAMap == FixedSpec => []FixedMapInv
<1>1. FixedInit => FixedIndInv
  <2> SUFFICES ASSUME FixedInit PROVE FixedIndInv
    OBVIOUS
  <2> USE FixedAssumption
  <2> DEFINE all == <<DefaultPair>>
  <2>1. /\ map_ = [i \in 0 .. N - 1 |-> DefaultPair] /\ index_ = NoMap
        /\ keyed = Inserted(all, 1)
    BY DEF FixedInit
  <2>2. DefaultPair \in Pairs /\ map_ \in [0 .. N - 1 -> Pairs] /\ all \in Seq(Pairs)
    BY <2>1 DEF DefaultPair, Pairs
  <2>3. /\ 1 \in 1 .. N /\ 1 <= Len(all)
        /\ \A i \in 0 .. 1 - 1 : map_[i] = all[i + 1]
        /\ \A i \in 1 .. N - 1 : map_[i] = map_[1 - 1]
    BY <2>1
  <2> HIDE DEF all
  <2>4. /\ keyed \in [KeysOf(map_) -> FixedValues]
        /\ \A key \in KeysOf(map_) : keyed[key] = map_[get_idx(map_, key)][2]
    BY <2>1, <2>2, <2>3, InsertedIsKeyed
  <2> QED
    BY <2>1, <2>2, <2>4 DEF FixedIndInv
<1> QED
  BY <1>1, FixedStep, SeenAsMap, PTL DEF FixedSpec

-----------------------------------------------------------------------------
(* Parameter                                                               *)

\* s holds nothing that t does not hold.
Holds(t, s) == DOMAIN s \subseteq DOMAIN t /\ \A k \in DOMAIN s : s[k] = t[k]

\* A dictionary has finitely many keys.
LEMMA DictKeys ==
  ASSUME NEW d \in Dicts
  PROVE  /\ DOMAIN d \subseteq Keys /\ IsFiniteSet(DOMAIN d) /\ Cardinality(DOMAIN d) \in Nat
         /\ d = [k \in DOMAIN d |-> d[k]]
         /\ \A k \in DOMAIN d : d[k] \in Sizes
<1>1. PICK K \in SUBSET Keys : d \in [K -> Sizes]
  BY DEF Dicts
<1>2. IsFiniteSet(K)
  BY FS_Subset, ParameterAssumption
<1>3. DOMAIN d = K
  BY <1>1
<1> QED
  BY <1>1, <1>2, <1>3, FS_CardinalityType

\* A dictionary of one key has that key only.
LEMMA SingleKey ==
  ASSUME NEW d \in Dicts
  PROVE  Single(d) <=> \E k : DOMAIN d = {k} /\ KeyOf(d) = k
<1>1. IsFiniteSet(DOMAIN d)
  BY DictKeys
<1>2. Single(d) <=> \E k : DOMAIN d = {k}
  BY <1>1, FS_Singleton DEF Single
<1>3. ASSUME NEW k, DOMAIN d = {k} PROVE KeyOf(d) = k
  BY <1>3 DEF KeyOf
<1> QED
  BY <1>2, <1>3

\* A dictionary is within every one that holds it, whatever the keys are, and is a type
\* that accepts it.
LEMMA HeldIsWithin ==
  ASSUME NEW s \in Dicts, NEW t \in Dicts, Holds(t, s)
  PROVE  Within(s, t) /\ Accepts(s, t)
<1>1. CASE Single(s) /\ Single(t)
  <2>1. KeyOf(s) = KeyOf(t) /\ KeyOf(s) \in DOMAIN s
    BY <1>1, SingleKey DEF Holds
  <2> QED
    BY <1>1, <2>1 DEF Holds, Within, Accepts, SameType
<1>2. CASE ~(Single(s) /\ Single(t))
  <2>1. CASE DOMAIN s = DOMAIN t
    <3>1. s = t
      BY <2>1, DictKeys DEF Holds
    <3> QED
      BY <1>2, <3>1 DEF Within, Accepts, SameType
  <2>2. CASE DOMAIN s # DOMAIN t
    <3>1. Cardinality(DOMAIN s) < Cardinality(DOMAIN t)
      <4>1. DOMAIN s \subseteq DOMAIN t /\ IsFiniteSet(DOMAIN t)
        BY DictKeys DEF Holds
      <4>2. Cardinality(DOMAIN s) <= Cardinality(DOMAIN t)
        BY <4>1, FS_Subset
      <4>3. Cardinality(DOMAIN s) # Cardinality(DOMAIN t)
        BY <2>2, <4>1, FS_Subset
      <4> QED
        BY <4>2, <4>3, DictKeys
    <3>2. StrictlyWithin(s, t)
      BY <3>1 DEF Holds, StrictlyWithin
    <3> QED
      BY <1>2, <3>2 DEF Within, Accepts
  <2> QED
    BY <2>1, <2>2
<1> QED
  BY <1>1, <1>2

\* What merge() returns where it does not throw holds both dictionaries.
LEMMA MergedHolds ==
  ASSUME NEW s \in Dicts, NEW t \in Dicts, Mergeable(s, t)
  PROVE  /\ Merged(s, t) \in Dicts
         /\ DOMAIN Merged(s, t) = DOMAIN s \cup DOMAIN t
         /\ Holds(Merged(s, t), s) /\ Holds(Merged(s, t), t)
<1>1. Merged(s, t) = [k \in DOMAIN s \cup DOMAIN t |-> IF k \in DOMAIN s THEN s[k] ELSE t[k]]
  BY DEF Merged
<1> DEFINE m == Merged(s, t)
<1> HIDE DEF m
<1>2. DOMAIN m = DOMAIN s \cup DOMAIN t
  BY <1>1 DEF m
<1>3. \A k \in DOMAIN m : m[k] = IF k \in DOMAIN s THEN s[k] ELSE t[k]
  BY <1>1 DEF m
<1>4. Holds(m, s) /\ Holds(m, t)
  BY <1>2, <1>3 DEF Holds, Mergeable
<1>5. m \in [DOMAIN m -> Sizes] /\ DOMAIN m \in SUBSET Keys
  BY <1>1, <1>2, DictKeys DEF m
<1> QED
  BY <1>2, <1>4, <1>5 DEF Dicts, m

\* The inductive invariant: the type holds its parts, and no other key.
ParameterIndInv ==
  /\ parameter_type_ \in Dicts /\ parts \subseteq Dicts
  /\ DOMAIN parameter_type_ = UNION {DOMAIN p : p \in parts}
  /\ \A p \in parts : Holds(parameter_type_, p)

\* extend_parameter_type() keeps the invariant.
LEMMA ParameterStep == ParameterIndInv /\ [ParameterNext]_parameterVars => ParameterIndInv'
<1> SUFFICES ASSUME ParameterIndInv, [ParameterNext]_parameterVars PROVE ParameterIndInv'
  OBVIOUS
<1>1. ASSUME NEW type \in Dicts, extend_parameter_type(type) PROVE ParameterIndInv'
  <2>1. /\ Mergeable(parameter_type_, type) /\ parameter_type_' = Merged(parameter_type_, type)
        /\ parts' = parts \cup {type}
    BY <1>1 DEF extend_parameter_type
  <2>2. /\ parameter_type_' \in Dicts
        /\ DOMAIN parameter_type_' = DOMAIN parameter_type_ \cup DOMAIN type
        /\ Holds(parameter_type_', parameter_type_) /\ Holds(parameter_type_', type)
    BY <2>1, MergedHolds DEF ParameterIndInv
  <2>3. DOMAIN parameter_type_' = UNION {DOMAIN p : p \in parts'}
    BY <2>1, <2>2 DEF ParameterIndInv
  <2>4. ASSUME NEW p \in parts' PROVE Holds(parameter_type_', p)
    BY <2>1, <2>2 DEF ParameterIndInv, Holds
  <2> QED
    BY <2>1, <2>2, <2>3, <2>4 DEF ParameterIndInv
<1>2. CASE UNCHANGED parameterVars
  BY <1>2 DEF parameterVars, ParameterIndInv
<1> QED
  BY <1>1, <1>2 DEF ParameterNext

\* What parse_parameter() accepted and returned holds the type, up to the size of a
\* single key and to "__unspecified__".
LEMMA ParsedCases ==
  ASSUME NEW type \in Dicts, NEW mu \in Dicts, Accepts(type, mu)
  PROVE  LET nu == Parsed(type, mu) IN
         \/ nu = mu /\ Holds(mu, type)
         \/ /\ Single(type) /\ Single(mu) /\ nu \in Dicts /\ Single(nu)
            /\ KeyOf(nu) = KeyOf(type) \/ KeyOf(type) = Unspecified
<1>1. CASE ~(Single(type) /\ Single(mu))
  <2>1. Parsed(type, mu) = mu
    BY <1>1 DEF Parsed
  <2>2. StrictlyWithin(type, mu) \/ type = mu
    BY <1>1 DEF Accepts, Within, SameType
  <2>3. Holds(mu, type)
    BY <2>2 DEF StrictlyWithin, Holds
  <2> QED
    BY <2>1, <2>3
<1>2. CASE Single(type) /\ Single(mu) /\ KeyOf(type) # Unspecified /\ KeyOf(mu) = Unspecified
  <2>1. DOMAIN mu = {Unspecified} /\ mu[Unspecified] \in Sizes
    BY <1>2, SingleKey, DictKeys
  <2>2. KeyOf(type) \in Keys
    BY <1>2, SingleKey, DictKeys
  <2>3. Parsed(type, mu) = [k \in {KeyOf(type)} |-> mu[Unspecified]]
    BY <1>2 DEF Parsed
  <2>4. Parsed(type, mu) \in Dicts /\ DOMAIN Parsed(type, mu) = {KeyOf(type)}
    BY <2>1, <2>2, <2>3 DEF Dicts
  <2>5. Single(Parsed(type, mu)) /\ KeyOf(Parsed(type, mu)) = KeyOf(type)
    <3>1. KeyOf(Parsed(type, mu)) = KeyOf(type)
      BY <2>4 DEF KeyOf
    <3> QED
      BY <2>4, <3>1, SingleKey
  <2> QED
    BY <1>2, <2>4, <2>5
<1>3. CASE Single(type) /\ Single(mu) /\ (KeyOf(type) = Unspecified \/ KeyOf(mu) # Unspecified)
  BY <1>3 DEF Accepts, Parsed
<1> QED
  BY <1>1, <1>2, <1>3

\* What the invariant says of the parameters a function accepts.
LEMMA PartsAreServed == ParameterIndInv => ParameterInv
<1> SUFFICES ASSUME ParameterIndInv PROVE ParameterInv
  OBVIOUS
<1> DEFINE type == parameter_type_
<1>1. type \in Dicts /\ parts \subseteq Dicts /\ \A p \in parts : Holds(type, p)
  BY DEF ParameterIndInv
<1>2. TypeIsUnion
  BY <1>1, HeldIsWithin DEF TypeIsUnion, ParameterIndInv
<1>3. ASSUME NEW mu \in Dicts, Accepts(type, mu), NEW p \in parts
      PROVE  Accepts(p, Parsed(type, mu))
  <2> DEFINE nu == Parsed(type, mu)
  <2>1. CASE nu = mu /\ Holds(mu, type)
    <3>1. Holds(mu, p)
      BY <1>1, <2>1 DEF Holds
    <3> QED
      BY <1>1, <2>1, <3>1, HeldIsWithin
  <2>2. CASE /\ Single(type) /\ Single(mu) /\ nu \in Dicts /\ Single(nu)
             /\ KeyOf(nu) = KeyOf(type) \/ KeyOf(type) = Unspecified
    <3>1. DOMAIN p \subseteq {KeyOf(type)}
      BY <1>1, <2>2, SingleKey DEF Holds
    <3>2. CASE Single(p)
      <4>1. KeyOf(p) = KeyOf(type)
        BY <1>1, <3>1, <3>2, SingleKey
      <4> QED
        BY <2>2, <3>2, <4>1 DEF Accepts
    <3>3. CASE ~Single(p)
      <4>1. DOMAIN p = {}
        <5>1. DOMAIN p # {KeyOf(type)}
          <6>1. ASSUME DOMAIN p = {KeyOf(type)} PROVE KeyOf(p) = KeyOf(type)
            BY <6>1 DEF KeyOf
          <6> QED
            BY <1>1, <3>3, <6>1, SingleKey
        <5> QED
          BY <3>1, <5>1
      <4>2. Holds(nu, p)
        BY <4>1 DEF Holds
      <4> QED
        BY <1>1, <2>2, <4>2, HeldIsWithin
    <3> QED
      BY <3>2, <3>3
  <2> QED
    BY <1>1, <1>3, <2>1, <2>2, ParsedCases
<1>4. ASSUME NEW mu \in Dicts, Accepts(type, mu)
      PROVE  LET nu == Parsed(type, mu)
             IN  \/ Single(mu) /\ DOMAIN type = {Unspecified}
                 \/ /\ DOMAIN type \subseteq DOMAIN nu
                    /\ ~Single(mu) => \A k \in DOMAIN type : nu[k] = type[k]
  <2> DEFINE nu == Parsed(type, mu)
  <2>1. CASE nu = mu /\ Holds(mu, type)
    BY <2>1 DEF Holds
  <2>2. CASE /\ Single(type) /\ Single(mu) /\ nu \in Dicts /\ Single(nu)
             /\ KeyOf(nu) = KeyOf(type) \/ KeyOf(type) = Unspecified
    <3>1. DOMAIN type = {KeyOf(type)} /\ DOMAIN nu = {KeyOf(nu)}
      BY <1>1, <2>2, SingleKey
    <3> QED
      BY <2>2, <3>1
  <2> QED
    BY <1>1, <1>4, <2>1, <2>2, ParsedCases
<1> QED
  BY <1>2, <1>3, <1>4 DEF ParameterInv, PartsAccept, ParsedHasKeys

\* For any keys, sizes and parts, in any order: the type a function was extended to is made
\* of its parts and no more, and a parameter the function accepts is, as parse_parameter()
\* returned it, accepted by each of its parts.
THEOREM PartsFormTheType == ParameterSpec => []ParameterInv
<1>1. ParameterInit => ParameterIndInv
  <2> SUFFICES ASSUME ParameterInit PROVE ParameterIndInv
    OBVIOUS
  <2>1. parameter_type_ = <<>> /\ parts = {}
    BY DEF ParameterInit
  <2>2. parameter_type_ \in [{} -> Sizes] /\ DOMAIN parameter_type_ = {}
    BY <2>1
  <2>3. parameter_type_ \in Dicts
    BY <2>2 DEF Dicts
  <2> QED
    BY <2>1, <2>2, <2>3 DEF ParameterIndInv
<1> QED
  BY <1>1, ParameterStep, PartsAreServed, PTL DEF ParameterSpec

-----------------------------------------------------------------------------
(* ConstStorageProvider, StorageProvider and ConstSharedStorageProvider    *)

\* The providers of st, the shared providers of sh, that own o.
Owners(st, o) == {p \in Providers : o \in Owned(st[p])}
Sharers(sh, o) == {s \in SharedProviders : sh[s] = o}

\* How many own o.
Uses(st, sh, h, o) == Cardinality(Owners(st, o)) + Cardinality(Sharers(sh, o)) + h[o]

One(condition) == IF condition THEN 1 ELSE 0

\* What an access is made of, and what it owns.
LEMMA AccessForms ==
  ASSUME NEW a \in Accesses
  PROVE  /\ Owned(a) \subseteq Heap
         /\ Valid(a) <=> a # Nothing
BY DEF Accesses, Owned, Valid, Nothing, ByReference, ByPointer

\* Nothing is an access that owns no object.
LEMMA NothingOwnsNothing == Nothing \in Accesses /\ Owned(Nothing) = {} /\ ~Valid(Nothing)
BY DEF Accesses, Owned, Valid, Nothing

\* Putting element e into a finite set, or taking it out, changes its size by one.
LEMMA SizeStep ==
  ASSUME NEW S, IsFiniteSet(S), NEW T, NEW e, T \ {e} = S \ {e}
  PROVE  /\ IsFiniteSet(T)
         /\ Cardinality(S) \in Nat /\ Cardinality(T) \in Nat
         /\ Cardinality(T) = Cardinality(S) + One(e \in T) - One(e \in S)
<1> DEFINE rest == S \ {e}
<1>1. Cardinality(S) \in Nat
  BY FS_CardinalityType
<1>2. IsFiniteSet(rest) /\ Cardinality(rest) = Cardinality(S) - One(e \in S)
  BY <1>1, FS_RemoveElement DEF One
<1>3. IsFiniteSet(rest \cup {e}) /\ Cardinality(rest \cup {e}) = Cardinality(rest) + 1
  BY <1>2, FS_AddElement
<1>4. Cardinality(rest) \in Nat
  BY <1>2, FS_CardinalityType
<1>5. CASE e \in T
  <2>1. T = rest \cup {e}
    BY <1>5
  <2> QED
    BY <1>1, <1>2, <1>3, <1>4, <1>5, <2>1 DEF One
<1>6. CASE e \notin T
  <2>1. T = rest
    BY <1>6
  <2> QED
    BY <1>1, <1>2, <1>4, <1>6, <2>1 DEF One
<1> QED
  BY <1>5, <1>6

\* The owners among the providers, and among the shared ones, can be counted.
LEMMA OwnersFinite ==
  ASSUME NEW st, NEW sh, NEW o
  PROVE  /\ IsFiniteSet(Owners(st, o)) /\ Cardinality(Owners(st, o)) \in Nat
         /\ IsFiniteSet(Sharers(sh, o)) /\ Cardinality(Sharers(sh, o)) \in Nat
BY StorageAssumption, FS_Subset, FS_CardinalityType DEF Owners, Sharers

\* A provider that takes another access gains what that owns and loses what it owned.
LEMMA OwnersStep ==
  ASSUME NEW st \in [Providers -> Accesses], NEW p \in Providers, NEW a \in Accesses, NEW o,
         NEW after, after = [st EXCEPT ![p] = a]
  PROVE  Cardinality(Owners(after, o)) =
           Cardinality(Owners(st, o)) + One(o \in Owned(a)) - One(o \in Owned(st[p]))
<1>1. Owners(after, o) \ {p} = Owners(st, o) \ {p}
  BY DEF Owners
<1>2. (p \in Owners(after, o) <=> o \in Owned(a)) /\ (p \in Owners(st, o) <=> o \in Owned(st[p]))
  BY DEF Owners
<1>3. Cardinality(Owners(after, o)) =
        Cardinality(Owners(st, o)) + One(p \in Owners(after, o)) - One(p \in Owners(st, o))
  BY <1>1, OwnersFinite, SizeStep
<1> QED
  BY <1>2, <1>3 DEF One

\* So does a shared provider that points to another object.
LEMMA SharersStep ==
  ASSUME NEW sh \in [SharedProviders -> Heap \cup {NoObject}], NEW s \in SharedProviders,
         NEW n \in Heap \cup {NoObject}, NEW o \in Heap,
         NEW after, after = [sh EXCEPT ![s] = n]
  PROVE  Cardinality(Sharers(after, o)) =
           Cardinality(Sharers(sh, o)) + One(o \in SharedObjects(n)) - One(o \in SharedObjects(sh[s]))
<1>1. Sharers(after, o) \ {s} = Sharers(sh, o) \ {s}
  BY DEF Sharers
<1>2. /\ s \in Sharers(after, o) <=> o \in SharedObjects(n)
      /\ s \in Sharers(sh, o) <=> o \in SharedObjects(sh[s])
  BY StorageAssumption DEF Sharers, SharedObjects
<1>3. Cardinality(Sharers(after, o)) =
        Cardinality(Sharers(sh, o)) + One(s \in Sharers(after, o)) - One(s \in Sharers(sh, o))
  BY <1>1, OwnersFinite, SizeStep
<1> QED
  BY <1>2, <1>3 DEF One

\* The inductive invariant: the counts are right, and they decide what is alive.
CountInv ==
  /\ StorageTypeOK
  /\ \A o \in Heap : count[o] = Uses(storage_, shared_, held, o)
  /\ \A o \in Heap : o \in alive <=> count[o] > 0

\* Who gains and loses owners as Exchange() says keeps the counts right.
LEMMA ExchangeCounts ==
  ASSUME CountInv, NEW new \in SUBSET Heap, NEW old \in SUBSET Heap, Exchange(new, old),
         held' \in [Heap -> 0 .. MaxHeld],
         \A o \in Heap : Uses(storage_', shared_', held', o) =
           Uses(storage_, shared_, held, o) + One(o \in new) - One(o \in old)
  PROVE  /\ count' \in [Heap -> Nat]
         /\ alive' \subseteq Heap \cup Stack
         /\ \A o \in Heap : count'[o] = Uses(storage_', shared_', held', o)
         /\ \A o \in Heap : o \in alive' <=> count'[o] > 0
<1> USE DEF CountInv, StorageTypeOK
<1>1. count' = [o \in Heap |-> count[o] + One(o \in new) - One(o \in old)]
  <2>1. Gained(count, new) = [o \in Heap |-> count[o] + One(o \in new)]
    BY DEF Gained, One
  <2> QED
    BY <2>1 DEF Exchange, Lost, One
<1>2. ASSUME NEW o \in Heap
      PROVE  /\ count'[o] \in Nat /\ count'[o] = Uses(storage_', shared_', held', o)
             /\ o \in alive' <=> count'[o] > 0
  <2>1. Uses(storage_', shared_', held', o) \in Nat
    BY OwnersFinite DEF Uses
  <2>2. count'[o] = count[o] + One(o \in new) - One(o \in old)
    BY <1>1
  <2>3. count'[o] \in Nat /\ count'[o] = Uses(storage_', shared_', held', o)
    BY <2>1, <2>2
  <2>4. o \in alive' <=> (o \in alive \/ o \in new) /\ count'[o] # 0
    BY DEF Exchange, Dead
  <2>5. count[o] \in Nat
    OBVIOUS
  <2>6. count'[o] > 0 /\ o \notin new => count[o] > 0
    BY <2>2, <2>3, <2>5 DEF One
  <2> QED
    BY <2>3, <2>4, <2>6
<1>3. alive' \subseteq Heap \cup Stack
  BY DEF Exchange
<1> QED
  BY <1>1, <1>2, <1>3

\* The copy of an access, or nothing, moved into a provider.
LEMMA ProviderStep ==
  ASSUME CountInv, NEW p \in Providers, NEW a \in Accesses,
         storage_' = [storage_ EXCEPT ![p] = a], Exchange(Owned(a), Owned(storage_[p])),
         UNCHANGED <<shared_, held, crashed>>, emptied' \subseteq Providers
  PROVE  CountInv'
<1>1. storage_[p] \in Accesses /\ storage_' \in [Providers -> Accesses]
  BY DEF CountInv, StorageTypeOK
<1>2. Owned(a) \in SUBSET Heap /\ Owned(storage_[p]) \in SUBSET Heap
  BY <1>1, AccessForms
<1>3. \A o \in Heap : Uses(storage_', shared_', held', o) =
        Uses(storage_, shared_, held, o) + One(o \in Owned(a)) - One(o \in Owned(storage_[p]))
  <2> TAKE o \in Heap
  <2>1. Cardinality(Owners(storage_', o)) =
          Cardinality(Owners(storage_, o)) + One(o \in Owned(a)) - One(o \in Owned(storage_[p]))
    BY OwnersStep DEF CountInv, StorageTypeOK
  <2>2. held[o] \in Nat
    BY StorageAssumption DEF CountInv, StorageTypeOK
  <2> QED
    BY <2>1, <2>2, OwnersFinite DEF Uses, One
<1> QED
  BY <1>1, <1>2, <1>3, ExchangeCounts DEF CountInv, StorageTypeOK

\* Every step keeps the counts right.
LEMMA CountStep == CountInv /\ [StorageNext]_storageVars => CountInv'
<1> SUFFICES ASSUME CountInv, [StorageNext]_storageVars PROVE CountInv'
  OBVIOUS
<1>0. StorageTypeOK /\ count \in [Heap -> Nat]
  BY DEF CountInv, StorageTypeOK
<1>1. ASSUME NEW p \in Providers, NEW access \in Accesses, Construct(p, access) PROVE CountInv'
  <2>1. emptied' \subseteq Providers
    BY <1>0, <1>1 DEF Construct, StorageTypeOK
  <2> QED
    BY <1>1, <2>1, ProviderStep DEF Construct
<1>2. ASSUME NEW p \in Providers, NEW q \in Providers, CopyConstruct(p, q) PROVE CountInv'
  <2>1. storage_[q] \in Accesses /\ storage_[p] \in Accesses /\ emptied' \subseteq Providers
    BY <1>0, <1>2 DEF CopyConstruct, Emptied, StorageTypeOK
  <2>2. Owned(storage_[p]) = {}
    BY <1>2, <2>1, AccessForms, NothingOwnsNothing DEF CopyConstruct
  <2> QED
    BY <1>2, <2>1, <2>2, ProviderStep DEF CopyConstruct
<1>3. ASSUME NEW p \in Providers, NEW q \in Providers, CopyAssign(p, q) PROVE CountInv'
  <2>1. CASE p # q /\ Valid(storage_[q])
    <3>1. storage_[q] \in Accesses /\ emptied' \subseteq Providers
      BY <1>0, <1>3, <2>1 DEF CopyAssign, Emptied, StorageTypeOK
    <3> QED
      BY <1>3, <2>1, <3>1, ProviderStep DEF CopyAssign
  <2>2. CASE p = q \/ ~Valid(storage_[q])
    BY <1>3, <2>2 DEF CopyAssign, CountInv, StorageTypeOK, Uses
  <2> QED
    BY <2>1, <2>2
<1>4. ASSUME NEW p \in Providers, NEW q \in Providers, Move(p, q) PROVE CountInv'
  <2> DEFINE st == [storage_ EXCEPT ![q] = Nothing]
  <2>1. /\ storage_ \in [Providers -> Accesses] /\ st \in [Providers -> Accesses]
        /\ storage_[p] \in Accesses /\ storage_[q] \in Accesses /\ p # q /\ st[p] = storage_[p]
    BY <1>0, <1>4, NothingOwnsNothing DEF Move, StorageTypeOK
  <2>2. storage_' = [st EXCEPT ![p] = storage_[q]]
    BY <1>4, <2>1 DEF Move
  <2>3. storage_' \in [Providers -> Accesses]
    BY <2>1, <2>2
  <2>4. st = [storage_ EXCEPT ![q] = Nothing] /\ Nothing \in Accesses
    BY NothingOwnsNothing
  <2> HIDE DEF st
  <2>5. ASSUME NEW o \in Heap
        PROVE  Uses(storage_', shared_', held', o) =
                 Uses(storage_, shared_, held, o) + One(o \in {}) - One(o \in Owned(storage_[p]))
    <3>1. Cardinality(Owners(st, o)) =
            Cardinality(Owners(storage_, o)) + One(o \in Owned(Nothing)) - One(o \in Owned(storage_[q]))
      BY <1>0, <2>4, OwnersStep DEF StorageTypeOK
    <3>2. Cardinality(Owners(storage_', o)) =
            Cardinality(Owners(st, o)) + One(o \in Owned(storage_[q])) - One(o \in Owned(storage_[p]))
      <4>1. Cardinality(Owners(storage_', o)) =
              Cardinality(Owners(st, o)) + One(o \in Owned(storage_[q])) - One(o \in Owned(st[p]))
        <5>1. PICK s, a, after : s = st /\ a = storage_[q] /\ after = storage_'
          OBVIOUS
        <5>2. s \in [Providers -> Accesses] /\ a \in Accesses /\ after = [s EXCEPT ![p] = a]
          BY <2>1, <2>2, <5>1
        <5>3. Cardinality(Owners(after, o)) =
                Cardinality(Owners(s, o)) + One(o \in Owned(a)) - One(o \in Owned(s[p]))
          BY <5>2, OwnersStep
        <5> QED
          BY <5>1, <5>3, Zenon
      <4> QED
        BY <2>1, <4>1, Zenon
    <3>3. held'[o] = held[o] /\ held[o] \in Nat /\ shared_' = shared_
      BY <1>0, <1>4, StorageAssumption DEF Move, StorageTypeOK
    <3> QED
      BY <3>1, <3>2, <3>3, OwnersFinite, NothingOwnsNothing DEF Uses, One
  <2>6. Exchange({}, Owned(storage_[p])) /\ UNCHANGED <<shared_, held, crashed>>
    BY <1>4 DEF Move
  <2>7. emptied' \subseteq Providers
    BY <1>0, <1>4 DEF Move, Emptied, StorageTypeOK
  <2>8. {} \in SUBSET Heap /\ Owned(storage_[p]) \in SUBSET Heap
    BY <2>1, AccessForms
  <2> QED
    BY <1>0, <2>3, <2>5, <2>6, <2>7, <2>8, ExchangeCounts DEF CountInv, StorageTypeOK
<1>5. ASSUME NEW s \in SharedProviders, NEW n \in Heap \cup {NoObject},
             shared_' = [shared_ EXCEPT ![s] = n],
             Exchange(SharedObjects(n), SharedObjects(shared_[s])),
             UNCHANGED <<storage_, held, emptied, crashed>>
      PROVE  CountInv'
  <2>1. SharedObjects(n) \in SUBSET Heap /\ SharedObjects(shared_[s]) \in SUBSET Heap
    BY <1>0 DEF StorageTypeOK, SharedObjects
  <2>2. ASSUME NEW o \in Heap
        PROVE  Uses(storage_', shared_', held', o) =
                 Uses(storage_, shared_, held, o)
                 + One(o \in SharedObjects(n)) - One(o \in SharedObjects(shared_[s]))
    <3>1. Cardinality(Sharers(shared_', o)) =
            Cardinality(Sharers(shared_, o))
            + One(o \in SharedObjects(n)) - One(o \in SharedObjects(shared_[s]))
      BY <1>0, <1>5, SharersStep DEF StorageTypeOK
    <3>2. held'[o] = held[o] /\ held[o] \in Nat /\ storage_' = storage_
      BY <1>0, <1>5, StorageAssumption DEF StorageTypeOK
    <3> QED
      BY <3>1, <3>2, OwnersFinite DEF Uses, One
  <2>3. shared_' \in [SharedProviders -> Heap \cup {NoObject}]
    BY <1>0, <1>5 DEF StorageTypeOK
  <2> QED
    BY <1>0, <1>5, <2>1, <2>2, <2>3, ExchangeCounts DEF CountInv, StorageTypeOK
<1>6. ASSUME NEW s \in SharedProviders, NEW o \in Heap \cup {NoObject}, ConstructShared(s, o)
      PROVE  CountInv'
  BY <1>5, <1>6 DEF ConstructShared
<1>7. ASSUME NEW s \in SharedProviders, NEW r \in SharedProviders, AssignShared(s, r)
      PROVE  CountInv'
  <2>1. shared_[r] \in Heap \cup {NoObject}
    BY <1>0 DEF StorageTypeOK
  <2> QED
    BY <1>5, <1>7, <2>1 DEF AssignShared
<1>8. ASSUME NEW n \in Heap, NEW k \in 0 .. MaxHeld, NEW new \in SUBSET {n}, NEW old \in SUBSET {n},
             held' = [held EXCEPT ![n] = k], k = held[n] + One(n \in new) - One(n \in old),
             Exchange(new, old), UNCHANGED <<storage_, shared_, emptied, crashed>>
      PROVE  CountInv'
  <2>1. held' \in [Heap -> 0 .. MaxHeld]
    BY <1>0, <1>8 DEF StorageTypeOK
  <2>2. ASSUME NEW o \in Heap
        PROVE  Uses(storage_', shared_', held', o) =
                 Uses(storage_, shared_, held, o) + One(o \in new) - One(o \in old)
    <3>1. held[o] \in Nat /\ held'[o] = held[o] + One(o \in new) - One(o \in old)
      BY <1>0, <1>8, StorageAssumption DEF StorageTypeOK, One
    <3> QED
      BY <1>8, <3>1, OwnersFinite, SMTT(30) DEF Uses, One
  <2> QED
    BY <1>0, <1>8, <2>1, <2>2, ExchangeCounts, ZenonT(60) DEF CountInv, StorageTypeOK
<1>9. ASSUME NEW s \in SharedProviders, AccessShared(s) PROVE CountInv'
  <2>1. shared_[s] \in Heap /\ held[shared_[s]] \in 0 .. MaxHeld
    BY <1>0, <1>9 DEF AccessShared, StorageTypeOK
  <2> DEFINE o == shared_[s]
             k == held[o] + 1
  <2>2. k \in 0 .. MaxHeld /\ k = held[o] + One(o \in {o}) - One(o \in {})
    BY <1>9, <2>1, StorageAssumption DEF AccessShared, One
  <2>3. /\ held' = [held EXCEPT ![o] = k] /\ Exchange({o}, {})
        /\ UNCHANGED <<storage_, shared_, emptied, crashed>>
    BY <1>9 DEF AccessShared
  <2> HIDE DEF k
  <2> QED
    BY <1>8, <2>1, <2>2, <2>3
<1>10. ASSUME NEW o \in Heap, Drop(o) PROVE CountInv'
  <2>1. held[o] \in 0 .. MaxHeld
    BY <1>0 DEF StorageTypeOK
  <2> DEFINE k == held[o] - 1
  <2>2. k \in 0 .. MaxHeld /\ k = held[o] + One(o \in {}) - One(o \in {o})
    BY <1>10, <2>1, StorageAssumption DEF Drop, One
  <2>3. /\ held' = [held EXCEPT ![o] = k] /\ Exchange({}, {o})
        /\ UNCHANGED <<storage_, shared_, emptied, crashed>>
    BY <1>10 DEF Drop
  <2> HIDE DEF k
  <2> QED
    BY <1>8, <2>2, <2>3
<1>11. ASSUME NEW o \in Stack, LeaveScope(o) PROVE CountInv'
  BY <1>0, <1>11, StorageAssumption DEF LeaveScope, CountInv, StorageTypeOK, Uses
<1>12. CASE UNCHANGED storageVars
  BY <1>0, <1>12 DEF storageVars, CountInv, StorageTypeOK, Uses
<1> QED
  BY <1>1, <1>2, <1>3, <1>4, <1>6, <1>7, <1>9, <1>10, <1>11, <1>12 DEF StorageNext

\* Providers are valid or not.
LEMMA ValidityForms ==
  InvalidOnlyIfEmptied <=> \A p \in Providers : Valid(storage_[p]) <=> p \notin emptied
BY DEF InvalidOnlyIfEmptied, Valid

\* No copy, move or assignment leaves a provider without storage that was not emptied.
LEMMA ValidityStep ==
  StorageTypeOK /\ InvalidOnlyIfEmptied /\ [StorageNext]_storageVars => InvalidOnlyIfEmptied'
<1> SUFFICES ASSUME StorageTypeOK, [StorageNext]_storageVars,
                    \A p \in Providers : Valid(storage_[p]) <=> p \notin emptied
             PROVE  \A p \in Providers : Valid(storage_'[p]) <=> p \notin emptied'
  BY ValidityForms DEF InvalidOnlyIfEmptied, Valid
<1> DEFINE Goal == \A r \in Providers : Valid(storage_'[r]) <=> r \notin emptied'
<1>0. storage_ \in [Providers -> Accesses] /\ emptied \subseteq Providers
  BY DEF StorageTypeOK
<1>1. ASSUME NEW p \in Providers, NEW access \in Accesses, Construct(p, access) PROVE Goal
  <2>1. Valid(access) <=> access # Nothing
    BY AccessForms
  <2>2. /\ \A r \in Providers : storage_'[r] = IF r = p THEN access ELSE storage_[r]
        /\ emptied' = IF access = Nothing THEN emptied \cup {p} ELSE emptied \ {p}
    BY <1>0, <1>1 DEF Construct
  <2> QED
    BY <2>1, <2>2
<1>2. ASSUME NEW p \in Providers, NEW q \in Providers, CopyConstruct(p, q) PROVE Goal
  BY <1>0, <1>2 DEF CopyConstruct, Emptied
<1>3. ASSUME NEW p \in Providers, NEW q \in Providers, CopyAssign(p, q) PROVE Goal
  BY <1>0, <1>3 DEF CopyAssign, Emptied
<1>4. ASSUME NEW p \in Providers, NEW q \in Providers, Move(p, q) PROVE Goal
  <2>1. /\ \A r \in Providers : storage_'[r] = IF r = q THEN Nothing
                                             ELSE IF r = p THEN storage_[q] ELSE storage_[r]
        /\ emptied' = Emptied(p, q) \cup {q} /\ p # q
    BY <1>0, <1>4 DEF Move
  <2> QED
    BY <2>1, NothingOwnsNothing DEF Emptied
<1>5. CASE UNCHANGED <<storage_, emptied>>
  BY <1>5
<1> QED
  BY <1>1, <1>2, <1>3, <1>4, <1>5
  DEF StorageNext, ConstructShared, AssignShared, AccessShared, Drop, LeaveScope, storageVars

\* The state before the first provider is made.
LEMMA CountInitially == StorageInit => CountInv /\ InvalidOnlyIfEmptied
<1> SUFFICES ASSUME StorageInit PROVE CountInv /\ InvalidOnlyIfEmptied
  OBVIOUS
<1>1. storage_ = [p \in Providers |-> Nothing] /\ emptied = Providers
  BY DEF StorageInit
<1>2. InvalidOnlyIfEmptied
  BY <1>1, NothingOwnsNothing, ValidityForms
<1>3. storage_ \in [Providers -> Accesses]
  BY <1>1, NothingOwnsNothing
<1>4. StorageTypeOK
  <2>1. held \in [Heap -> 0 .. MaxHeld] /\ count \in [Heap -> Nat]
    BY StorageAssumption DEF StorageInit
  <2>2. shared_ \in [SharedProviders -> Heap \cup {NoObject}]
    BY DEF StorageInit
  <2> QED
    BY <1>3, <2>1, <2>2 DEF StorageInit, StorageTypeOK
<1>5. ASSUME NEW o \in Heap PROVE count[o] = 0 /\ Uses(storage_, shared_, held, o) = 0
  <2>1. Owners(storage_, o) = {} /\ Sharers(shared_, o) = {}
    BY StorageAssumption, NothingOwnsNothing DEF StorageInit, Owners, Sharers
  <2> QED
    BY <2>1, FS_EmptySet DEF StorageInit, Uses
<1>6. \A o \in Heap : o \notin alive
  BY StorageAssumption DEF StorageInit
<1> QED
  BY <1>2, <1>4, <1>5, <1>6 DEF CountInv

\* A count above zero means that there is an owner.
LEMMA OwnersFromCounts == CountInv /\ InvalidOnlyIfEmptied => OwnersInv
<1> SUFFICES ASSUME CountInv, InvalidOnlyIfEmptied PROVE OwnersInv
  OBVIOUS
<1> USE DEF CountInv
<1>1. CountsOwners
  BY DEF CountsOwners, Uses, Owners, Sharers
<1>2. OwnedIsAlive
  <2> SUFFICES ASSUME NEW o \in Heap
               PROVE  o \in alive <=> \/ \E p \in Providers : o \in Owned(storage_[p])
                                      \/ \E s \in SharedProviders : shared_[s] = o
                                      \/ held[o] > 0
    BY DEF OwnedIsAlive
  <2>1. Cardinality(Owners(storage_, o)) = 0 <=> Owners(storage_, o) = {}
    BY OwnersFinite, FS_EmptySet
  <2>2. Cardinality(Sharers(shared_, o)) = 0 <=> Sharers(shared_, o) = {}
    BY OwnersFinite, FS_EmptySet
  <2>3. held[o] \in Nat
    BY StorageAssumption DEF StorageTypeOK
  <2>4. count[o] > 0 <=> \/ Owners(storage_, o) # {} \/ Sharers(shared_, o) # {} \/ held[o] > 0
    BY <2>1, <2>2, <2>3, OwnersFinite DEF Uses
  <2> QED
    BY <2>4 DEF Owners, Sharers
<1> QED
  BY <1>1, <1>2 DEF OwnersInv

\* Through any sequence of copies, moves and assignments, to themselves included, every
\* object is there exactly as long as somebody owns it, its use count is the number of
\* its owners, and a provider is without storage only if it was emptied.
THEOREM OwnersAreCounted == StorageSpec => []OwnersInv
<1>1. CountInv => StorageTypeOK
  BY DEF CountInv
<1> QED
  BY <1>1, CountInitially, CountStep, ValidityStep, OwnersFromCounts, PTL DEF StorageSpec

-----------------------------------------------------------------------------
(* Logging::SuspendLocal and ResumeLocal: the invariant relates the buffer *)
(* to the stack of scopes that are alive.                                  *)

Scopes == [kind : {"suspend", "resume"}, priority : ScopePriorities, overruled : BOOLEAN]
Buffers == Buffer(StreamFlags \cup LOG_NONE, ScopePriorities \cup {default_suspend_priority})

\* The flags are away while the buffer is suspended, and the original ones otherwise.
Kept(b) ==
  IF b.suspended THEN b.flags = LOG_NONE /\ b.saved = StreamFlags ELSE b.flags = StreamFlags

\* A suspension that nothing overruled still holds, with its priority or a higher one.
HoldsOn(b, stack) ==
  \A i \in 1 .. Len(stack) :
    stack[i].kind = "suspend" /\ ~stack[i].overruled =>
      b.suspended /\ b.priority >= stack[i].priority

\* A SuspendLocal of the stack will resume what is suspended.
WillResume(b, stack) ==
  IF b.suspended THEN \E i \in 1 .. Len(stack) : Encloses(stack[i], b.priority)
                 ELSE b.priority = 0

\* A stack that scopes were entered on tamely.
TameStack(stack) ==
  \A j \in 1 .. Len(stack) :
    /\ stack[j].priority >= 0
    /\ stack[j].kind = "resume" =>
         \E i \in 1 .. j - 1 : Encloses(stack[i], stack[j].priority)

ScopesIndInv ==
  /\ scopes \in Seq(Scopes) /\ Depth <= MaxDepth /\ tame \in BOOLEAN
  /\ buf \in Buffers /\ Kept(buf) /\ HoldsOn(buf, scopes)
  /\ tame => TameStack(scopes) /\ WillResume(buf, scopes)

\* What suspend() makes of a buffer.
LEMMA BufferSuspended ==
  ASSUME NEW b \in Buffers, Kept(b), NEW p \in ScopePriorities
  PROVE  /\ Suspended(b, p) \in Buffers /\ Kept(Suspended(b, p))
         /\ Suspended(b, p).suspended /\ Suspended(b, p).priority = Higher(p, b.priority)
         /\ p \in Int /\ b.priority \in Int
<1> DEFINE F == SUBSET (StreamFlags \cup LOG_NONE)
           P == ScopePriorities \cup {default_suspend_priority}
           c == Suspended(b, p)
<1>1. b.flags \in F /\ b.saved \in F /\ b.suspended \in BOOLEAN /\ b.priority \in P
  BY DEF Buffers, Buffer
<1>2. p \in Int /\ b.priority \in Int
  <2>1. p \in Int /\ \A q \in P : q \in Int
    BY ScopesAssumption DEF default_suspend_priority
  <2>2. b.priority \in P
    BY <1>1
  <2> QED
    BY <2>1, <2>2
<1>3. Higher(p, b.priority) \in P
  <2>1. Higher(p, b.priority) = p \/ Higher(p, b.priority) = b.priority
    BY DEF Higher
  <2> QED
    BY <1>1, <2>1
<1>4. c = [flags |-> IF b.suspended THEN b.flags ELSE LOG_NONE,
           saved |-> IF b.suspended THEN b.saved ELSE b.flags,
           suspended |-> TRUE, priority |-> Higher(p, b.priority)]
  BY DEF Suspended
<1>5. /\ (IF b.suspended THEN b.flags ELSE LOG_NONE) \in F
      /\ (IF b.suspended THEN b.saved ELSE b.flags) \in F
  BY <1>1
<1>6. TRUE \in BOOLEAN
  OBVIOUS
<1>7. c \in [flags : F, saved : F, suspended : BOOLEAN, priority : P]
  <2> DEFINE f == IF b.suspended THEN b.flags ELSE LOG_NONE
             s == IF b.suspended THEN b.saved ELSE b.flags
             h == Higher(p, b.priority)
  <2>1. c = [flags |-> f, saved |-> s, suspended |-> TRUE, priority |-> h]
    BY <1>4
  <2>2. f \in F /\ s \in F /\ h \in P
    BY <1>3, <1>5
  <2> HIDE DEF f, s, h, F, P, c
  <2> QED
    BY <1>6, <2>1, <2>2
<1>8. /\ c.flags = IF b.suspended THEN b.flags ELSE LOG_NONE
      /\ c.saved = IF b.suspended THEN b.saved ELSE b.flags
      /\ c.suspended = TRUE /\ c.priority = Higher(p, b.priority)
  BY <1>4
<1> HIDE DEF c
<1>9. Kept(c)
  BY <1>1, <1>8 DEF Kept
<1> QED
  BY <1>2, <1>7, <1>8, <1>9 DEF c, F, P, Buffers, Buffer

\* What resume() makes of a buffer.
LEMMA BufferResumed ==
  ASSUME NEW b \in Buffers, Kept(b), NEW p \in ScopePriorities
  PROVE  /\ Resumed(b, p) \in Buffers /\ Kept(Resumed(b, p))
         /\ p < b.priority => Resumed(b, p) = b
         /\ ~(p < b.priority) => ~Resumed(b, p).suspended /\ Resumed(b, p).priority = 0
         /\ p \in Int /\ b.priority \in Int
<1> DEFINE F == SUBSET (StreamFlags \cup LOG_NONE)
           P == ScopePriorities \cup {default_suspend_priority}
           c == Resumed(b, p)
<1>1. b.flags \in F /\ b.saved \in F /\ b.suspended \in BOOLEAN /\ b.priority \in P
  BY DEF Buffers, Buffer
<1>2. p \in Int /\ b.priority \in Int
  <2>1. p \in Int /\ \A q \in P : q \in Int
    BY ScopesAssumption DEF default_suspend_priority
  <2>2. b.priority \in P
    BY <1>1
  <2> QED
    BY <2>1, <2>2
<1>3. p < b.priority => c = b
  BY DEF Resumed
<1>4. ASSUME ~(p < b.priority)
      PROVE  c \in Buffers /\ Kept(c) /\ c.suspended = FALSE /\ c.priority = 0
  <2>1. c = [b EXCEPT !.flags = IF b.suspended THEN b.saved ELSE b.flags,
                      !.suspended = FALSE, !.priority = default_suspend_priority]
    BY <1>4 DEF Resumed
  <2>2. default_suspend_priority \in P /\ (IF b.suspended THEN b.saved ELSE b.flags) \in F
    BY <1>1
  <2>3. FALSE \in BOOLEAN
    OBVIOUS
  <2>4. b \in [flags : F, saved : F, suspended : BOOLEAN, priority : P]
    BY DEF Buffers, Buffer
  <2>5. c \in [flags : F, saved : F, suspended : BOOLEAN, priority : P]
    <3> DEFINE f == IF b.suspended THEN b.saved ELSE b.flags
               d == default_suspend_priority
    <3>1. c = [b EXCEPT !.flags = f, !.suspended = FALSE, !.priority = d]
      BY <2>1
    <3>2. f \in F /\ d \in P
      BY <2>2
    <3> HIDE DEF f, d, F, P, c
    <3> QED
      BY <2>3, <2>4, <3>1, <3>2
  <2>6. /\ c.flags = IF b.suspended THEN b.saved ELSE b.flags
        /\ c.suspended = FALSE /\ c.priority = default_suspend_priority
    BY <2>1, <2>4
  <2> HIDE DEF c
  <2>7. Kept(c)
    BY <1>1, <2>6 DEF Kept
  <2> QED
    BY <2>5, <2>6, <2>7 DEF F, P, Buffers, Buffer, default_suspend_priority
<1> HIDE DEF c
<1>5. c \in Buffers /\ Kept(c)
  BY <1>3, <1>4
<1> QED
  BY <1>2, <1>3, <1>4, <1>5 DEF c

\* A resume() marks scopes and changes nothing else of a stack.
LEMMA OverruledStack ==
  ASSUME NEW stack \in Seq(Scopes), NEW p
  PROVE  /\ Overruled(stack, p) \in Seq(Scopes)
         /\ Len(Overruled(stack, p)) = Len(stack) /\ Len(stack) \in Nat
         /\ \A i \in 1 .. Len(stack) :
              /\ Overruled(stack, p)[i].kind = stack[i].kind
              /\ Overruled(stack, p)[i].priority = stack[i].priority
              /\ Overruled(stack, p)[i].overruled <=>
                   stack[i].overruled \/ p >= stack[i].priority
<1> DEFINE n == Len(stack)
           over == Overruled(stack, p)
           At(i) == [stack[i] EXCEPT !.overruled = @ \/ p >= stack[i].priority]
<1>1. n \in Nat /\ \A i \in 1 .. n : stack[i] \in Scopes
  OBVIOUS
<1>2. \A i \in 1 .. n : stack[i].overruled \in BOOLEAN
  BY <1>1 DEF Scopes
<1>3. ASSUME NEW s \in Scopes, NEW flag \in BOOLEAN
      PROVE  /\ [s EXCEPT !.overruled = flag] \in Scopes
             /\ [s EXCEPT !.overruled = flag].kind = s.kind
             /\ [s EXCEPT !.overruled = flag].priority = s.priority
             /\ [s EXCEPT !.overruled = flag].overruled = flag
  BY DEF Scopes
<1>4. ASSUME NEW i \in 1 .. n
      PROVE  /\ At(i) \in Scopes /\ At(i).kind = stack[i].kind
             /\ At(i).priority = stack[i].priority
             /\ At(i).overruled <=> stack[i].overruled \/ p >= stack[i].priority
  <2> DEFINE flag == stack[i].overruled \/ p >= stack[i].priority
  <2>1. flag \in BOOLEAN /\ At(i) = [stack[i] EXCEPT !.overruled = flag]
    OBVIOUS
  <2> HIDE DEF flag, At
  <2>2. /\ At(i) \in Scopes /\ At(i).kind = stack[i].kind
        /\ At(i).priority = stack[i].priority /\ At(i).overruled = flag
    BY <1>1, <1>3, <2>1
  <2> QED
    BY <2>2 DEF flag
<1>5. over = [i \in 1 .. n |-> At(i)]
  BY DEF Overruled
<1> HIDE DEF over, n, At
<1>6. over \in Seq(Scopes) /\ Len(over) = n /\ \A i \in 1 .. n : over[i] = At(i)
  BY <1>1, <1>4, <1>5
<1>7. \A i \in 1 .. n : /\ over[i].kind = stack[i].kind /\ over[i].priority = stack[i].priority
                        /\ over[i].overruled <=> stack[i].overruled \/ p >= stack[i].priority
  BY <1>4, <1>6
<1> QED
  BY <1>1, <1>6, <1>7 DEF over, n

\* One scope more on a stack.
LEMMA StackAppended ==
  ASSUME NEW stack \in Seq(Scopes), NEW scope \in Scopes
  PROVE  /\ Append(stack, scope) \in Seq(Scopes) /\ Len(stack) \in Nat
         /\ Len(Append(stack, scope)) = Len(stack) + 1
         /\ Append(stack, scope)[Len(stack) + 1] = scope
         /\ \A i \in 1 .. Len(stack) : Append(stack, scope)[i] = stack[i]
         /\ \A i : i \in 1 .. Len(stack) + 1 <=> i \in 1 .. Len(stack) \/ i = Len(stack) + 1
  OBVIOUS

\* The innermost scope of a stack, and those around it.
LEMMA StackTop ==
  ASSUME NEW stack \in Seq(Scopes), stack # <<>>
  PROVE  LET rest == SubSeq(stack, 1, Len(stack) - 1)
             n == Len(stack) - 1
         IN  /\ rest \in Seq(Scopes) /\ n \in Nat /\ Len(rest) = n /\ Len(stack) = n + 1
             /\ stack[Len(stack)] \in Scopes /\ stack[n + 1] = stack[Len(stack)]
             /\ \A i \in 1 .. n : rest[i] = stack[i]
<1> DEFINE rest == SubSeq(stack, 1, Len(stack) - 1)
<1>1. /\ rest \in Seq(Scopes) /\ stack[Len(stack)] \in Scopes
      /\ stack = Append(rest, stack[Len(stack)])
  OBVIOUS
<1> HIDE DEF rest
<1>2. /\ Len(rest) \in Nat /\ Len(stack) = Len(rest) + 1
      /\ \A i \in 1 .. Len(rest) : stack[i] = rest[i]
  BY <1>1, StackAppended
<1> QED
  BY <1>1, <1>2 DEF rest

\* The scopes of a stack have integers for priorities.
LEMMA StackTypes ==
  ASSUME NEW stack \in Seq(Scopes)
  PROVE  \A i \in 1 .. Len(stack) :
           stack[i] \in Scopes /\ stack[i].priority \in ScopePriorities /\ stack[i].priority \in Int
<1>1. \A i \in 1 .. Len(stack) : stack[i] \in Scopes
  OBVIOUS
<1>2. \A s \in Scopes : s.priority \in ScopePriorities
  BY DEF Scopes
<1> QED
  BY <1>1, <1>2, ScopesAssumption

\* Suspensions go on holding while others are added.
LEMMA HoldingSuspended ==
  ASSUME NEW stack \in Seq(Scopes), NEW b \in Buffers, NEW p \in ScopePriorities,
         Kept(b), HoldsOn(b, stack)
  PROVE  HoldsOn(Suspended(b, p), stack)
<1> DEFINE c == Suspended(b, p)
<1>1. /\ c.suspended /\ c.priority = Higher(p, b.priority) /\ p \in Int /\ b.priority \in Int
  BY BufferSuspended
<1>2. c.priority >= b.priority /\ c.priority \in Int
  BY <1>1 DEF Higher
<1> HIDE DEF c
<1>3. \A i \in 1 .. Len(stack) :
        stack[i].kind = "suspend" /\ ~stack[i].overruled => c.priority >= stack[i].priority
  BY <1>1, <1>2, StackTypes DEF HoldsOn
<1>4. HoldsOn(c, stack)
  BY <1>1, <1>3 DEF HoldsOn
<1> QED
  BY <1>4 DEF c

\* What a resume() ends is marked as overruled.
LEMMA HoldingResumed ==
  ASSUME NEW stack \in Seq(Scopes), NEW b \in Buffers, NEW p \in ScopePriorities,
         Kept(b), HoldsOn(b, stack)
  PROVE  HoldsOn(Resumed(b, p), Overruled(stack, p))
<1> DEFINE c == Resumed(b, p)
           over == Overruled(stack, p)
<1>1. /\ p < b.priority => c = b
      /\ p \in Int /\ b.priority \in Int
  BY BufferResumed
<1>2. /\ Len(over) = Len(stack) /\ Len(stack) \in Nat
      /\ \A i \in 1 .. Len(stack) :
           /\ over[i].kind = stack[i].kind /\ over[i].priority = stack[i].priority
           /\ over[i].overruled <=> stack[i].overruled \/ p >= stack[i].priority
  BY OverruledStack
<1> HIDE DEF c, over
<1>3. ASSUME NEW i \in 1 .. Len(over), over[i].kind = "suspend", ~over[i].overruled
      PROVE  c.suspended /\ c.priority >= over[i].priority
  <2>1. /\ i \in 1 .. Len(stack) /\ stack[i].kind = "suspend" /\ ~stack[i].overruled
        /\ ~(p >= stack[i].priority) /\ over[i].priority = stack[i].priority
    BY <1>2, <1>3
  <2>2. b.suspended /\ b.priority >= stack[i].priority
    BY <2>1 DEF HoldsOn
  <2>3. stack[i].priority \in Int
    BY <2>1, StackTypes
  <2>4. p < b.priority
    BY <1>1, <2>1, <2>2, <2>3
  <2> QED
    BY <1>1, <2>1, <2>2, <2>4
<1>4. HoldsOn(c, over)
  BY <1>3 DEF HoldsOn
<1> QED
  BY <1>4 DEF c, over

\* One more scope on the stack, whose own suspension holds if it is one.
LEMMA HoldingAppended ==
  ASSUME NEW stack \in Seq(Scopes), NEW scope \in Scopes, NEW b, HoldsOn(b, stack),
         scope.kind = "suspend" => b.suspended /\ b.priority >= scope.priority
  PROVE  HoldsOn(b, Append(stack, scope))
<1> DEFINE more == Append(stack, scope)
<1>1. /\ Len(more) = Len(stack) + 1 /\ more[Len(stack) + 1] = scope
      /\ \A i \in 1 .. Len(stack) : more[i] = stack[i]
      /\ \A i : i \in 1 .. Len(stack) + 1 <=> i \in 1 .. Len(stack) \/ i = Len(stack) + 1
  BY StackAppended
<1> HIDE DEF more
<1>2. HoldsOn(b, more)
  BY <1>1 DEF HoldsOn
<1> QED
  BY <1>2 DEF more

\* A suspension inside a SuspendLocal of at least its priority will be resumed.
LEMMA SuspensionEnds ==
  ASSUME NEW stack \in Seq(Scopes), NEW b \in Buffers, NEW p \in ScopePriorities,
         Kept(b), p >= 0, WillResume(b, stack),
         NEW k \in 1 .. Len(stack), Encloses(stack[k], p)
  PROVE  WillResume(Suspended(b, p), stack)
<1> DEFINE c == Suspended(b, p)
<1>1. c.suspended /\ c.priority = Higher(p, b.priority) /\ p \in Int /\ b.priority \in Int
  BY BufferSuspended
<1> HIDE DEF c
<1>2. CASE c.priority = p
  BY <1>1, <1>2 DEF WillResume, c
<1>3. CASE c.priority # p
  <2>1. c.priority = b.priority /\ p < b.priority
    BY <1>1, <1>3 DEF Higher
  <2>2. b.suspended
    BY <1>1, <2>1 DEF WillResume
  <2>3. \E i \in 1 .. Len(stack) : Encloses(stack[i], b.priority)
    BY <2>2 DEF WillResume
  <2> QED
    BY <1>1, <2>1, <2>3 DEF WillResume, c
<1> QED
  BY <1>2, <1>3

\* The constructors keep the invariant.
LEMMA EnterStep ==
  ASSUME ScopesIndInv, NEW kind \in {"suspend", "resume"}, NEW p \in ScopePriorities,
         EnterLocal(kind, p)
  PROVE  ScopesIndInv'
<1> DEFINE scope == [kind |-> kind, priority |-> p, overruled |-> FALSE]
           n == Len(scopes)
           under == IF kind = "suspend" THEN scopes ELSE Overruled(scopes, p)
<1>1. /\ scopes \in Seq(Scopes) /\ buf \in Buffers /\ Kept(buf) /\ HoldsOn(buf, scopes)
      /\ tame \in BOOLEAN
      /\ tame => TameStack(scopes) /\ WillResume(buf, scopes)
  BY DEF ScopesIndInv
<1>2. /\ scopes' = Append(under, scope) /\ n < MaxDepth
      /\ buf' = IF kind = "suspend" THEN Suspended(buf, p) ELSE Resumed(buf, p)
      /\ tame' = (/\ tame /\ p >= 0
                  /\ kind = "resume" => \E i \in 1 .. n : Encloses(scopes[i], p))
  BY DEF EnterLocal, Depth, default_suspend_priority
<1>3. scope \in Scopes /\ scope.kind = kind /\ scope.priority = p
  <2>1. FALSE \in BOOLEAN
    OBVIOUS
  <2> QED
    BY <2>1 DEF Scopes
<1>4. /\ under \in Seq(Scopes) /\ Len(under) = n /\ n \in Nat
      /\ \A i \in 1 .. n : under[i].kind = scopes[i].kind /\ under[i].priority = scopes[i].priority
  BY <1>1, OverruledStack
<1> HIDE DEF scope, under, n
<1>5. /\ scopes' \in Seq(Scopes) /\ Len(scopes') = n + 1 /\ scopes'[n + 1] = scope
      /\ \A i \in 1 .. n : scopes'[i] = under[i]
      /\ \A i : i \in 1 .. n + 1 <=> i \in 1 .. n \/ i = n + 1
  BY <1>2, <1>3, <1>4, StackAppended
<1>6. Depth' <= MaxDepth
  BY <1>2, <1>4, <1>5, ScopesAssumption DEF Depth
<1>7. tame' \in BOOLEAN
  BY <1>2
<1>8. buf' \in Buffers /\ Kept(buf')
  BY <1>1, <1>2, BufferSuspended, BufferResumed
<1>9. p \in Int /\ buf.priority \in Int
  BY <1>1, BufferResumed
<1>10. HoldsOn(buf', scopes')
  <2>1. CASE kind = "suspend"
    <3>1. HoldsOn(buf', under)
      BY <1>1, <1>2, <2>1, HoldingSuspended DEF under
    <3>2. buf'.suspended /\ buf'.priority = Higher(p, buf.priority)
      BY <1>1, <1>2, <2>1, BufferSuspended
    <3>3. buf'.priority >= scope.priority
      BY <1>3, <1>9, <3>2 DEF Higher
    <3> QED
      BY <1>2, <1>3, <1>4, <3>1, <3>2, <3>3, HoldingAppended
  <2>2. CASE kind = "resume"
    <3>1. HoldsOn(buf', under)
      BY <1>1, <1>2, <2>2, HoldingResumed DEF under
    <3>2. scope.kind # "suspend"
      BY <1>3, <2>2
    <3> QED
      BY <1>2, <1>3, <1>4, <3>1, <3>2, HoldingAppended
  <2> QED
    BY <2>1, <2>2
<1>11. ASSUME tame' PROVE TameStack(scopes') /\ WillResume(buf', scopes')
  <2>1. /\ tame /\ p >= 0 /\ TameStack(scopes) /\ WillResume(buf, scopes)
        /\ kind = "resume" => \E i \in 1 .. n : Encloses(scopes[i], p)
    BY <1>1, <1>2, <1>11
  <2>2. \A i \in 1 .. n : /\ scopes'[i].kind = scopes[i].kind
                          /\ scopes'[i].priority = scopes[i].priority
    BY <1>4, <1>5
  <2>3. \A i \in 1 .. n : \A q : Encloses(scopes[i], q) => Encloses(scopes'[i], q)
    BY <2>2 DEF Encloses
  <2>4. TameStack(scopes')
    <3>1. ASSUME NEW j \in 1 .. n
          PROVE  /\ scopes'[j].priority >= 0
                 /\ scopes'[j].kind = "resume" =>
                      \E i \in 1 .. j - 1 : Encloses(scopes'[i], scopes'[j].priority)
      <4>1. j - 1 \in Int /\ \A i \in 1 .. j - 1 : i \in 1 .. n
        BY <1>4
      <4>2. /\ scopes[j].priority >= 0
            /\ scopes[j].kind = "resume" =>
                 \E i \in 1 .. j - 1 : Encloses(scopes[i], scopes[j].priority)
        BY <2>1 DEF TameStack, n
      <4> QED
        BY <2>2, <2>3, <4>1, <4>2
    <3>2. /\ scopes'[n + 1].priority >= 0
          /\ scopes'[n + 1].kind = "resume" =>
               \E i \in 1 .. (n + 1) - 1 : Encloses(scopes'[i], scopes'[n + 1].priority)
      <4>1. (n + 1) - 1 = n
        BY <1>4
      <4> QED
        BY <1>3, <1>5, <2>1, <2>3, <4>1
    <3> QED
      BY <1>5, <3>1, <3>2 DEF TameStack
  <2>5. CASE kind = "suspend"
    <3>1. buf'.suspended /\ buf'.priority = Higher(p, buf.priority)
      BY <1>1, <1>2, <2>5, BufferSuspended
    <3>2. CASE buf'.priority = p
      <4>1. Encloses(scopes'[n + 1], p)
        BY <1>3, <1>5, <1>9, <2>5 DEF Encloses
      <4> QED
        BY <1>5, <2>4, <3>1, <3>2, <4>1 DEF WillResume
    <3>3. CASE buf'.priority # p
      <4>1. buf'.priority = buf.priority /\ p < buf.priority
        BY <1>9, <3>1, <3>3 DEF Higher
      <4>2. buf.suspended
        BY <1>9, <2>1, <4>1 DEF WillResume
      <4>3. \E i \in 1 .. n : Encloses(scopes[i], buf.priority)
        BY <2>1, <4>2 DEF WillResume, n
      <4>4. \E i \in 1 .. n + 1 : Encloses(scopes'[i], buf'.priority)
        BY <1>5, <2>3, <4>1, <4>3
      <4> QED
        BY <1>5, <2>4, <3>1, <4>4 DEF WillResume
    <3> QED
      BY <3>2, <3>3
  <2>6. CASE kind = "resume"
    <3>1. CASE p < buf.priority
      <4>1. buf' = buf
        BY <1>1, <1>2, <2>6, <3>1, BufferResumed
      <4>2. buf.suspended
        BY <1>9, <2>1, <3>1 DEF WillResume
      <4>3. \E i \in 1 .. n : Encloses(scopes[i], buf.priority)
        BY <2>1, <4>2 DEF WillResume, n
      <4>4. \E i \in 1 .. n + 1 : Encloses(scopes'[i], buf'.priority)
        BY <1>5, <2>3, <4>1, <4>3
      <4> QED
        BY <1>5, <2>4, <4>1, <4>2, <4>4 DEF WillResume
    <3>2. CASE ~(p < buf.priority)
      <4>1. ~buf'.suspended /\ buf'.priority = 0
        BY <1>1, <1>2, <2>6, <3>2, BufferResumed
      <4> QED
        BY <2>4, <4>1 DEF WillResume
    <3> QED
      BY <3>1, <3>2
  <2> QED
    BY <2>5, <2>6
<1> QED
  BY <1>5, <1>6, <1>7, <1>8, <1>10, <1>11 DEF ScopesIndInv

\* The destructors keep it.
LEMMA LeaveStep == ASSUME ScopesIndInv, LeaveLocal PROVE ScopesIndInv'
<1> DEFINE n == Len(scopes) - 1
           top == scopes[Len(scopes)]
           rest == SubSeq(scopes, 1, Len(scopes) - 1)
<1>1. /\ scopes \in Seq(Scopes) /\ buf \in Buffers /\ Kept(buf) /\ HoldsOn(buf, scopes)
      /\ tame \in BOOLEAN
      /\ tame => TameStack(scopes) /\ WillResume(buf, scopes)
      /\ Len(scopes) <= MaxDepth /\ scopes # <<>>
  BY DEF ScopesIndInv, LeaveLocal, Depth
<1>2. /\ top.kind = "suspend" => /\ buf' = Resumed(buf, top.priority)
                                 /\ scopes' = Overruled(rest, top.priority)
      /\ top.kind # "suspend" => buf' = Suspended(buf, top.priority) /\ scopes' = rest
      /\ tame' = tame
  BY DEF LeaveLocal, Depth
<1>3. /\ rest \in Seq(Scopes) /\ n \in Nat /\ Len(rest) = n /\ Len(scopes) = n + 1
      /\ top \in Scopes /\ scopes[n + 1] = top
      /\ \A i \in 1 .. n : rest[i] = scopes[i]
  BY <1>1, StackTop
<1>4. \A i : i \in 1 .. n + 1 <=> i \in 1 .. n \/ i = n + 1
  BY <1>3
<1>5. top.priority \in ScopePriorities /\ top.kind \in {"suspend", "resume"}
  BY <1>3 DEF Scopes
<1>6. top.priority \in Int /\ buf.priority \in Int
  BY <1>1, <1>5, BufferResumed
<1> HIDE DEF top, rest, n
<1>7. HoldsOn(buf, rest)
  BY <1>1, <1>3, <1>4 DEF HoldsOn
<1>8. buf' \in Buffers /\ Kept(buf')
  BY <1>1, <1>2, <1>5, BufferSuspended, BufferResumed
<1>9. /\ scopes' \in Seq(Scopes) /\ Len(scopes') = n
      /\ \A i \in 1 .. n : scopes'[i].kind = rest[i].kind /\ scopes'[i].priority = rest[i].priority
  BY <1>2, <1>3, OverruledStack
<1>10. HoldsOn(buf', scopes')
  BY <1>1, <1>2, <1>3, <1>5, <1>7, HoldingSuspended, HoldingResumed
<1>11. Depth' <= MaxDepth
  BY <1>1, <1>3, <1>9, ScopesAssumption DEF Depth
<1>12. ASSUME tame' PROVE TameStack(scopes') /\ WillResume(buf', scopes')
  <2>1. TameStack(scopes) /\ WillResume(buf, scopes)
    BY <1>1, <1>2, <1>12
  <2>2. \A i \in 1 .. n : /\ scopes'[i].kind = scopes[i].kind
                          /\ scopes'[i].priority = scopes[i].priority
    BY <1>3, <1>9
  <2>3. \A i \in 1 .. n : \A q : Encloses(scopes[i], q) => Encloses(scopes'[i], q)
    BY <2>2 DEF Encloses
  <2>4. TameStack(scopes')
    <3>1. ASSUME NEW j \in 1 .. n
          PROVE  /\ scopes'[j].priority >= 0
                 /\ scopes'[j].kind = "resume" =>
                      \E i \in 1 .. j - 1 : Encloses(scopes'[i], scopes'[j].priority)
      <4>1. j - 1 \in Int /\ \A i \in 1 .. j - 1 : i \in 1 .. n
        BY <1>3
      <4>2. /\ scopes[j].priority >= 0
            /\ scopes[j].kind = "resume" =>
                 \E i \in 1 .. j - 1 : Encloses(scopes[i], scopes[j].priority)
        BY <1>3, <1>4, <2>1 DEF TameStack
      <4> QED
        BY <2>2, <2>3, <4>1, <4>2
    <3> QED
      BY <1>9, <3>1 DEF TameStack
  <2>5. CASE top.kind = "suspend"
    <3>1. CASE top.priority < buf.priority
      <4>1. buf' = buf
        BY <1>1, <1>2, <1>5, <2>5, <3>1, BufferResumed
      <4>2. CASE buf.suspended
        <5>1. PICK i \in 1 .. n + 1 : Encloses(scopes[i], buf.priority)
          BY <1>3, <2>1, <4>2 DEF WillResume
        <5>2. i # n + 1
          <6>1. ~Encloses(top, buf.priority)
            BY <1>6, <3>1 DEF Encloses
          <6> QED
            BY <1>3, <5>1, <6>1
        <5>3. i \in 1 .. n /\ Encloses(scopes'[i], buf'.priority)
          BY <1>4, <2>3, <4>1, <5>1, <5>2
        <5> QED
          BY <1>9, <2>4, <4>1, <4>2, <5>3 DEF WillResume
      <4>3. CASE ~buf.suspended
        BY <2>1, <2>4, <4>1, <4>3 DEF WillResume
      <4> QED
        BY <4>2, <4>3
    <3>2. CASE ~(top.priority < buf.priority)
      <4>1. ~buf'.suspended /\ buf'.priority = 0
        BY <1>1, <1>2, <1>5, <2>5, <3>2, BufferResumed
      <4> QED
        BY <2>4, <4>1 DEF WillResume
    <3> QED
      BY <3>1, <3>2
  <2>6. CASE top.kind = "resume"
    <3>1. top.kind # "suspend"
      BY <2>6
    <3>2. buf' = Suspended(buf, top.priority) /\ scopes' = rest
      BY <1>2, <3>1
    <3>3. (n + 1) - 1 = n /\ n + 1 \in 1 .. n + 1
      BY <1>3
    <3>4. top.priority >= 0 /\ \E i \in 1 .. n : Encloses(scopes[i], top.priority)
      BY <1>3, <2>1, <2>6, <3>3 DEF TameStack
    <3>5. PICK k \in 1 .. n : Encloses(rest[k], top.priority)
      BY <1>3, <3>4
    <3>6. WillResume(buf, rest)
      <4>1. ASSUME buf.suspended PROVE \E i \in 1 .. n : Encloses(rest[i], buf.priority)
        <5>1. PICK i \in 1 .. n + 1 : Encloses(scopes[i], buf.priority)
          BY <1>3, <2>1, <4>1 DEF WillResume
        <5>2. i # n + 1
          BY <1>3, <3>1, <5>1 DEF Encloses
        <5> QED
          BY <1>3, <1>4, <5>1, <5>2
      <4>2. ~buf.suspended => buf.priority = 0
        BY <2>1 DEF WillResume
      <4> QED
        BY <1>3, <4>1, <4>2 DEF WillResume
    <3>7. WillResume(Suspended(buf, top.priority), rest)
      BY <1>1, <1>3, <1>5, <3>4, <3>5, <3>6, SuspensionEnds
    <3> QED
      BY <2>4, <3>2, <3>7
  <2> QED
    BY <1>5, <2>5, <2>6
<1>13. tame' \in BOOLEAN
  <2>1. tame' = tame
    BY DEF LeaveLocal
  <2>2. tame \in BOOLEAN
    BY <1>1
  <2> QED
    BY <2>1, <2>2
<1>14. scopes' \in Seq(Scopes)
  BY <1>9
<1> QED
  BY <1>8, <1>10, <1>11, <1>12, <1>13, <1>14 DEF ScopesIndInv

\* What the invariant says of the buffer.
LEMMA ScopesFromInv == ScopesIndInv => ScopesInv
<1> SUFFICES ASSUME ScopesIndInv PROVE ScopesInv
  OBVIOUS
<1>1. SuspendTypeOK
  BY DEF ScopesIndInv, SuspendTypeOK, Buffers
<1>2. FlagsKept
  BY DEF ScopesIndInv, FlagsKept, Kept
<1>3. SilentUntilOverruled
  BY DEF ScopesIndInv, SilentUntilOverruled, HoldsOn, Kept, Depth
<1>4. WillBeResumed
  BY DEF ScopesIndInv, WillBeResumed, WillResume, Depth, default_suspend_priority
<1> QED
  BY <1>1, <1>2, <1>3, <1>4 DEF ScopesInv

\* Whatever scopes are nested, to any depth and with any priorities: the flags come back
\* as they were, a SuspendLocal is silent until something resumes with its priority or
\* more, and under tame use every suspension ends with a SuspendLocal that is alive.
THEOREM ScopesNest == ScopesSpec => []ScopesInv
<1>1. ScopesInit => ScopesIndInv
  <2> SUFFICES ASSUME ScopesInit PROVE ScopesIndInv
    OBVIOUS
  <2>1. scopes = <<>> /\ Len(scopes) = 0 /\ scopes \in Seq(Scopes) /\ tame = TRUE
    BY DEF ScopesInit
  <2>2. /\ buf = [flags |-> StreamFlags, saved |-> StreamFlags, suspended |-> FALSE,
                  priority |-> default_suspend_priority]
    BY DEF ScopesInit, NewBuffer
  <2>3. FALSE \in BOOLEAN /\ TRUE \in BOOLEAN
    OBVIOUS
  <2>4. buf \in Buffers
    BY <2>2, <2>3 DEF Buffers, Buffer
  <2>5. buf.flags = StreamFlags /\ buf.suspended = FALSE /\ buf.priority = 0
    BY <2>2 DEF default_suspend_priority
  <2>6. Kept(buf) /\ WillResume(buf, scopes)
    BY <2>5 DEF Kept, WillResume
  <2>7. HoldsOn(buf, scopes) /\ TameStack(scopes)
    BY <2>1 DEF HoldsOn, TameStack
  <2> QED
    BY <2>1, <2>3, <2>4, <2>6, <2>7, ScopesAssumption DEF ScopesIndInv, Depth
<1>2. ScopesIndInv /\ [ScopesNext]_scopesVars => ScopesIndInv'
  <2>1. ScopesIndInv /\ UNCHANGED scopesVars => ScopesIndInv'
    BY DEF ScopesIndInv, scopesVars, Depth
  <2> QED
    BY <2>1, EnterStep, LeaveStep DEF ScopesNext
<1> QED
  BY <1>1, <1>2, ScopesFromInv, PTL DEF ScopesSpec

-----------------------------------------------------------------------------
(* do_timings() of distribute_testing.py                                   *)

\* Induction up to n: a set of naturals that has 0 and, below n, with each number the next
\* one, has n.
LEMMA CountingUp ==
  ASSUME NEW n \in Nat, NEW S, 0 \in S, \A m \in 0 .. (n - 1) : m \in S => m + 1 \in S
  PROVE  n \in S
<1> DEFINE Out == {m \in 0 .. n : m \notin S}
<1>1. SUFFICES ASSUME Out # {} PROVE FALSE
  OBVIOUS
<1>2. PICK m \in Out : \A k \in Out : m <= k
  <2>1. Out \in SUBSET Nat
    OBVIOUS
  <2> QED
    BY <1>1, <2>1, LeastNatural
<1>3. m \in 1 .. n
  BY <1>2
<1>4. m - 1 \in S
  BY <1>2, <1>3
<1>5. m - 1 \in 0 .. (n - 1) /\ (m - 1) + 1 = m
  BY <1>3
<1> QED
  BY <1>2, <1>4, <1>5


\* f[n] has the new tests among the first n of the suite, for the n up to m.
Collects(f, names, m) ==
  f = [n \in 0 .. m |-> IF n = 0 THEN <<>>
                        ELSE IF suite[n] \in Range(names) THEN f[n - 1]
                        ELSE Append(f[n - 1], suite[n])]

\* There is such a function.
LEMMA Collecting ==
  ASSUME NEW names, suite \in Seq(STRING)
  PROVE  \E f : Collects(f, names, Len(suite))
<1> DEFINE S == {m \in Nat : \E f : Collects(f, names, m)}
<1>1. 0 \in S
  <2>1. PICK f : f = [n \in 0 .. 0 |-> <<>>]
    OBVIOUS
  <2>2. Collects(f, names, 0)
    BY <2>1 DEF Collects
  <2> QED
    BY <2>2
<1>2. ASSUME NEW m \in Nat, m \in S PROVE m + 1 \in S
  <2>1. PICK f : Collects(f, names, m)
    BY <1>2
  <2>2. PICK g : g = [n \in 0 .. (m + 1) |->
                        IF n = m + 1 THEN IF suite[n] \in Range(names) THEN f[m]
                                          ELSE Append(f[m], suite[n])
                        ELSE f[n]]
    OBVIOUS
  <2>3. \A n \in 0 .. m : g[n] = f[n]
    BY <2>2
  <2>4. ASSUME NEW n \in 0 .. (m + 1)
        PROVE  g[n] = IF n = 0 THEN <<>>
                      ELSE IF suite[n] \in Range(names) THEN g[n - 1]
                      ELSE Append(g[n - 1], suite[n])
    <3>1. CASE n = m + 1
      <4>1. n # 0 /\ n - 1 = m /\ m \in 0 .. m
        BY <3>1
      <4> QED
        BY <2>2, <2>3, <3>1, <4>1
    <3>2. CASE n # m + 1
      <4>1. n \in 0 .. m /\ (n # 0 => n - 1 \in 0 .. m)
        BY <3>2
      <4>2. f[n] = IF n = 0 THEN <<>>
                   ELSE IF suite[n] \in Range(names) THEN f[n - 1]
                   ELSE Append(f[n - 1], suite[n])
        BY <2>1, <4>1 DEF Collects
      <4> QED
        BY <2>3, <4>1, <4>2
    <3> QED
      BY <3>1, <3>2
  <2>5. Collects(g, names, m + 1)
    BY <2>2, <2>4 DEF Collects
  <2> QED
    BY <2>5
<1>3. Len(suite) \in Nat /\ \A m \in 0 .. (Len(suite) - 1) : m \in Nat
  OBVIOUS
<1>4. Len(suite) \in S
  BY <1>1, <1>2, <1>3, CountingUp
<1> QED
  BY <1>4

\* The elements of s are the tests among the first m of the suite that names has not.
NewUpto(s, names, m) ==
  /\ s \in Seq(STRING)
  /\ Range(s) = {suite[i] : i \in 1 .. m} \ Range(names)

\* A sequence with one more element.
LEMMA RangeOfAppend ==
  ASSUME NEW S, NEW e \in S, NEW s \in Seq(S)
  PROVE  Append(s, e) \in Seq(S) /\ Range(Append(s, e)) = Range(s) \cup {e}
<1>1. PICK r : r = Append(s, e)
  OBVIOUS
<1>2. /\ r \in Seq(S) /\ Len(r) = Len(s) + 1
      /\ \A i \in 1 .. Len(s) : r[i] = s[i]
      /\ r[Len(s) + 1] = e
  BY <1>1, AppendProperties, ZenonT(90)
<1>3. PICK l \in Nat : l = Len(s)
  BY LenProperties
<1>4. DOMAIN r = 1 .. (l + 1) /\ DOMAIN s = 1 .. l
  BY <1>2, <1>3, LenProperties
<1>5. \A i : i \in 1 .. (l + 1) <=> i \in 1 .. l \/ i = l + 1
  BY <1>3
<1> QED
  BY <1>1, <1>2, <1>3, <1>4, <1>5 DEF Range

\* What _redo() is asked for are the tests that are not known.
LEMMA NewTestsAreNew ==
  ASSUME NEW names, suite \in Seq(STRING)
  PROVE  NewTests(names) \in Seq(STRING) /\ Range(NewTests(names)) = Range(suite) \ Range(names)
<1>1. PICK f : Collects(f, names, Len(suite))
  BY Collecting
<1>2. PICK g : g = CHOOSE h : Collects(h, names, Len(suite))
  OBVIOUS
<1>3. Collects(g, names, Len(suite))
  BY <1>1, <1>2
<1>4. NewTests(names) = g[Len(suite)]
  BY <1>2, Zenon DEF NewTests, Collects
<1>5. PICK size \in Nat : size = Len(suite)
  OBVIOUS
<1> DEFINE S == {m \in 0 .. size : NewUpto(g[m], names, m)}
<1>6. 0 \in S
  <2>1. g[0] = <<>>
    BY <1>3, <1>5 DEF Collects
  <2>2. NewUpto(<<>>, names, 0)
    BY DEF NewUpto, Range
  <2> QED
    BY <2>1, <2>2
<1>7. ASSUME NEW m \in 0 .. (size - 1), m \in S PROVE m + 1 \in S
  <2>1. PICK s, t : s = g[m] /\ t = suite[m + 1]
    OBVIOUS
  <2>2. g[m + 1] = IF t \in Range(names) THEN s ELSE Append(s, t)
    <3>1. m + 1 \in 0 .. size /\ m + 1 # 0 /\ (m + 1) - 1 = m
      BY <1>7
    <3> QED
      BY <1>3, <1>5, <2>1, <3>1 DEF Collects
  <2>3. t \in STRING
    BY <1>5, <1>7, <2>1
  <2>4. s \in Seq(STRING) /\ Range(s) = {suite[i] : i \in 1 .. m} \ Range(names)
    BY <1>7, <2>1 DEF NewUpto
  <2>5. {suite[i] : i \in 1 .. (m + 1)} = {suite[i] : i \in 1 .. m} \cup {t}
    <3>1. \A i : i \in 1 .. (m + 1) <=> i \in 1 .. m \/ i = m + 1
      BY <1>7
    <3> QED
      BY <2>1, <3>1
  <2>6. CASE t \in Range(names)
    <3>1. Range(s) = {suite[i] : i \in 1 .. (m + 1)} \ Range(names)
      BY <2>4, <2>5, <2>6
    <3>2. NewUpto(g[m + 1], names, m + 1)
      BY <2>2, <2>4, <2>6, <3>1 DEF NewUpto
    <3> QED
      BY <1>7, <3>2
  <2>7. CASE t \notin Range(names)
    <3>1. PICK r : r = Append(s, t)
      OBVIOUS
    <3>2. r \in Seq(STRING) /\ Range(r) = Range(s) \cup {t}
      BY <2>3, <2>4, <3>1, RangeOfAppend
    <3>3. Range(r) = {suite[i] : i \in 1 .. (m + 1)} \ Range(names)
      BY <2>4, <2>5, <2>7, <3>2
    <3>4. NewUpto(g[m + 1], names, m + 1)
      BY <2>2, <2>7, <3>1, <3>2, <3>3 DEF NewUpto
    <3> QED
      BY <1>7, <3>4
  <2> QED
    BY <2>6, <2>7
<1>8. NewUpto(g[size], names, size)
  BY <1>5, <1>6, <1>7, CountingUp
<1>9. Range(suite) = {suite[i] : i \in 1 .. size}
  BY <1>5 DEF Range
<1> QED
  BY <1>4, <1>5, <1>8, <1>9 DEF NewUpto

-----------------------------------------------------------------------------
\* Each target has its own time.
OwnTimes(times) == \A t \in DOMAIN times : times[t] = t

FileOK(file) == file = Missing \/ file = Truncated \/ file = Holding(file.object)

\* The files are missing, being written, or hold what a run wrote.
FilesOK ==
  /\ FileOK(compilesFile) /\ FileOK(testrunsFile) /\ FileOK(totalsFile)
  /\ compilesFile.state = "complete" =>
       /\ OwnTimes(compilesFile.object)
       /\ DOMAIN compilesFile.object \subseteq HeaderLibs \cup UNION {Range(s) : s \in Suites}
  /\ testrunsFile.state = "complete" =>
       /\ Range(testrunsFile.object[1]) \subseteq DOMAIN testrunsFile.object[2]
       /\ ~mixed => OwnTimes(testrunsFile.object[2])
  /\ ~torn => /\ compilesFile.state = "truncated" => step = "write compiles"
              /\ testrunsFile.state = "truncated" => step = "write testruns"
              /\ totalsFile.state = "truncated" => step = "write totals"

Tested == {"dump testruns", "write testruns", "dump totals", "write totals", "done"}
Compiled == Tested \cup {"dump compiles", "write compiles", "test"}

\* What the variables of a run hold at each step of it.
RunOK ==
  /\ suite \in Suites /\ step \in Compiled \cup {"compile"}
  /\ step \in Compiled => OwnTimes(compiles) /\ DOMAIN compiles = Targets
  /\ step \in Tested \cup {"test"} => compilesFile = Holding(compiles)
  /\ step \in Tested => Range(suite) \subseteq DOMAIN testruns
  /\ ~mixed => OwnTimes(testruns)
  /\ step = "done" => totalsFile = Holding(Totals)

TestsIndInv == FilesOK /\ RunOK

\* A file that a run writes holds nothing, or an object, and what it holds can be read.
LEMMA FileForms ==
  /\ Missing.state = "missing" /\ Truncated.state = "truncated"
  /\ \A object : Holding(object).state = "complete" /\ Holding(object).object = object
BY DEF Missing, Truncated, Holding

\* The compiles that are known are kept, the others are measured.
LEMMA CompileStep ==
  ASSUME TestsIndInv, Compile
  PROVE  TestsIndInv'
<1>1. /\ step = "compile" /\ Loadable(compilesFile)
      /\ compiles' = Updated(Loaded(compilesFile, <<>>)) /\ step' = "dump compiles"
      /\ UNCHANGED <<suite, testruns, compilesFile, testrunsFile, totalsFile, mixed, torn>>
  BY DEF Compile, files
<1>2. PICK known : known = Loaded(compilesFile, <<>>)
  OBVIOUS
<1>3. OwnTimes(known)
  <2>1. CASE compilesFile.state = "complete"
    <3>1. known = compilesFile.object
      BY <1>2, <2>1 DEF Loaded
    <3> QED
      BY <2>1, <3>1 DEF TestsIndInv, FilesOK, FileOK
  <2>2. CASE compilesFile.state # "complete"
    <3>1. known = <<>>
      BY <1>2, <2>2 DEF Loaded
    <3> QED
      BY <3>1 DEF OwnTimes
  <2> QED
    BY <2>1, <2>2
<1>4. compiles' = [t \in Targets |-> IF t \in DOMAIN known THEN known[t] ELSE t]
  BY <1>1, <1>2 DEF Updated
<1>5. Targets' = Targets /\ DOMAIN compiles' = Targets /\ OwnTimes(compiles')
  BY <1>1, <1>3, <1>4 DEF Targets, OwnTimes
<1>6. FilesOK'
  <2>1. /\ ~torn => compilesFile.state # "truncated" /\ testrunsFile.state # "truncated"
                    /\ totalsFile.state # "truncated"
    BY <1>1 DEF TestsIndInv, FilesOK, FileOK
  <2> QED
    BY <1>1, <2>1 DEF TestsIndInv, FilesOK, FileOK, OwnTimes
<1>7. RunOK'
  BY <1>1, <1>5 DEF TestsIndInv, RunOK, Compiled, Tested, OwnTimes
<1> QED
  BY <1>6, <1>7 DEF TestsIndInv

\* Known tests keep their times, and new ones that come first get their own.
LEMMA TestStep ==
  ASSUME TestsIndInv, Test, TestTimingsAssumption
  PROVE  TestsIndInv'
<1>1. /\ step = "test" /\ Loadable(testrunsFile) /\ step' = "dump testruns"
      /\ UNCHANGED <<suite, compiles, compilesFile, testrunsFile, totalsFile, torn>>
  BY DEF Test, files
<1>2. PICK loaded, new : /\ loaded = Loaded(testrunsFile, <<<<>>, <<>>>>)
                         /\ new = NewTests(loaded[1])
  OBVIOUS
<1>3. IF loaded[1] = suite
      THEN testruns' = loaded[2] /\ mixed' = mixed
      ELSE /\ testruns' = TimesOf(loaded[2], new)
           /\ mixed' = (mixed \/ ~IsPrefix(new, suite))
  BY <1>2, Zenon DEF Test
<1>4. Range(loaded[1]) \subseteq DOMAIN loaded[2] /\ (~mixed => OwnTimes(loaded[2]))
  <2>1. CASE testrunsFile.state = "complete"
    BY <1>2, <2>1 DEF TestsIndInv, FilesOK, FileOK, Loaded
  <2>2. CASE testrunsFile.state # "complete"
    BY <1>2, <2>2 DEF Loaded, Range, OwnTimes
  <2> QED
    BY <2>1, <2>2
<1>5. suite \in Seq(STRING)
  BY TestTimingsAssumption DEF TestsIndInv, RunOK
<1>6. Range(suite) \subseteq DOMAIN testruns' /\ (~mixed' => OwnTimes(testruns') /\ ~mixed)
  <2>1. CASE loaded[1] = suite
    BY <1>3, <1>4, <2>1
  <2>2. CASE loaded[1] # suite
    <3>1. PICK known : known = loaded[2]
      OBVIOUS
    <3>2. PICK old : old = [t \in DOMAIN known \cap Range(suite) |-> known[t]]
      OBVIOUS
    <3>3. PICK redone : redone = [t \in Range(new) |->
                                    suite[CHOOSE i \in DOMAIN new : new[i] = t]]
      OBVIOUS
    <3>4. testruns' = Update(old, redone) /\ mixed' = (mixed \/ ~IsPrefix(new, suite))
      BY <1>3, <2>2, <3>1, <3>2, <3>3 DEF TimesOf
    <3>5. DOMAIN testruns' = DOMAIN old \cup DOMAIN redone
          /\ \A t \in DOMAIN testruns' :
               testruns'[t] = IF t \in DOMAIN redone THEN redone[t] ELSE old[t]
      BY <3>4 DEF Update
    <3>6. new \in Seq(STRING) /\ Range(new) = Range(suite) \ Range(loaded[1])
      BY <1>2, <1>5, NewTestsAreNew
    <3>7. Range(suite) \subseteq DOMAIN testruns'
      BY <1>4, <3>1, <3>2, <3>3, <3>5, <3>6
    <3>8. ASSUME ~mixed' PROVE OwnTimes(testruns')
      <4>1. ~mixed /\ IsPrefix(new, suite)
        BY <3>4, <3>8
      <4>2. \A i \in DOMAIN new : new[i] = suite[i]
        <5>1. Len(new) <= Len(suite) /\ SubSeq(suite, 1, Len(new)) = new
          BY <1>5, <3>6, <4>1 DEF IsPrefix
        <5> QED
          BY <1>5, <3>6, <5>1
      <4>3. ASSUME NEW t \in Range(new) PROVE redone[t] = t
        <5>1. PICK i : i = CHOOSE k \in DOMAIN new : new[k] = t
          OBVIOUS
        <5>2. i \in DOMAIN new /\ new[i] = t
          BY <4>3, <5>1 DEF Range
        <5> QED
          BY <3>3, <4>2, <5>1, <5>2
      <4>4. \A t \in DOMAIN old : old[t] = t
        BY <1>4, <3>1, <3>2, <4>1 DEF OwnTimes
      <4> QED
        BY <3>3, <3>5, <4>3, <4>4 DEF OwnTimes
    <3> QED
      BY <3>4, <3>7, <3>8
  <2> QED
    BY <2>1, <2>2
<1>7. FilesOK'
  <2>1. ~torn => compilesFile.state # "truncated" /\ testrunsFile.state # "truncated"
                 /\ totalsFile.state # "truncated"
    BY <1>1 DEF TestsIndInv, FilesOK, FileOK
  <2> QED
    BY <1>1, <1>6, <2>1 DEF TestsIndInv, FilesOK, FileOK
<1>8. RunOK'
  BY <1>1, <1>6 DEF TestsIndInv, RunOK, Compiled, Tested, Targets
<1> QED
  BY <1>7, <1>8 DEF TestsIndInv

\* Files are opened, and then written.
LEMMA DumpStep ==
  ASSUME TestsIndInv, DumpCompiles \/ DumpTestruns \/ DumpTotals
  PROVE  TestsIndInv'
<1>1. /\ UNCHANGED <<suite, compiles, testruns, mixed, torn>> /\ Targets' = Targets
      /\ Totals' = Totals
  BY DEF DumpCompiles, DumpTestruns, DumpTotals, Targets, Totals
<1>2. /\ ~torn => /\ compilesFile.state = "truncated" => step = "write compiles"
                  /\ testrunsFile.state = "truncated" => step = "write testruns"
                  /\ totalsFile.state = "truncated" => step = "write totals"
  BY DEF TestsIndInv, FilesOK, FileOK
<1>3. CASE DumpCompiles
  <2>1. UNCHANGED <<testrunsFile, totalsFile>>
    BY <1>3 DEF DumpCompiles
  <2>2. CASE step = "dump compiles" /\ compilesFile' = Truncated /\ step' = "write compiles"
    <3>1. FilesOK'
      BY <1>1, <1>2, <2>1, <2>2, FileForms DEF TestsIndInv, FilesOK, FileOK
    <3>2. RunOK'
      BY <1>1, <2>1, <2>2 DEF TestsIndInv, RunOK, Compiled, Tested
    <3> QED
      BY <3>1, <3>2 DEF TestsIndInv
  <2>3. CASE step = "write compiles" /\ compilesFile' = Holding(compiles) /\ step' = "test"
    <3>1. OwnTimes(compiles) /\ DOMAIN compiles = Targets /\ suite \in Suites
      BY <2>3 DEF TestsIndInv, RunOK, Compiled
    <3>2. DOMAIN compiles \subseteq HeaderLibs \cup UNION {Range(s) : s \in Suites}
      BY <3>1 DEF Targets
    <3>3. FilesOK'
      BY <1>1, <1>2, <2>1, <2>3, <3>1, <3>2, FileForms DEF TestsIndInv, FilesOK, FileOK
    <3>4. RunOK'
      BY <1>1, <2>1, <2>3 DEF TestsIndInv, RunOK, Compiled, Tested
    <3> QED
      BY <3>3, <3>4 DEF TestsIndInv
  <2> QED
    BY <1>3, <2>2, <2>3 DEF DumpCompiles, Dump
<1>4. CASE DumpTestruns
  <2>1. UNCHANGED <<compilesFile, totalsFile>>
    BY <1>4 DEF DumpTestruns
  <2>2. CASE step = "dump testruns" /\ testrunsFile' = Truncated /\ step' = "write testruns"
    <3>1. FilesOK'
      BY <1>1, <1>2, <2>1, <2>2, FileForms DEF TestsIndInv, FilesOK, FileOK
    <3>2. RunOK'
      BY <1>1, <2>1, <2>2 DEF TestsIndInv, RunOK, Compiled, Tested
    <3> QED
      BY <3>1, <3>2 DEF TestsIndInv
  <2>3. CASE step = "write testruns" /\ testrunsFile' = Holding(<<suite, testruns>>)
             /\ step' = "dump totals"
    <3>1. Range(suite) \subseteq DOMAIN testruns /\ (~mixed => OwnTimes(testruns))
      BY <2>3 DEF TestsIndInv, RunOK, Tested
    <3>2. PICK object : object = <<suite, testruns>>
      OBVIOUS
    <3>3. object[1] = suite /\ object[2] = testruns /\ testrunsFile' = Holding(object)
      BY <2>3, <3>2
    <3>4. testrunsFile'.state = "complete" /\ testrunsFile'.object = object
      BY <3>3, FileForms
    <3>5. FilesOK'
      BY <1>1, <1>2, <2>1, <2>3, <3>1, <3>3, <3>4 DEF TestsIndInv, FilesOK, FileOK
    <3>6. RunOK'
      BY <1>1, <2>1, <2>3 DEF TestsIndInv, RunOK, Compiled, Tested
    <3> QED
      BY <3>5, <3>6 DEF TestsIndInv
  <2> QED
    BY <1>4, <2>2, <2>3 DEF DumpTestruns, Dump
<1>5. CASE DumpTotals
  <2>1. UNCHANGED <<compilesFile, testrunsFile>>
    BY <1>5 DEF DumpTotals
  <2>2. CASE step = "dump totals" /\ totalsFile' = Truncated /\ step' = "write totals"
    <3>1. FilesOK'
      BY <1>1, <1>2, <2>1, <2>2, FileForms DEF TestsIndInv, FilesOK, FileOK
    <3>2. RunOK'
      BY <1>1, <2>1, <2>2 DEF TestsIndInv, RunOK, Compiled, Tested
    <3> QED
      BY <3>1, <3>2 DEF TestsIndInv
  <2>3. CASE step = "write totals" /\ totalsFile' = Holding(Totals) /\ step' = "done"
    <3>1. FilesOK'
      BY <1>1, <1>2, <2>1, <2>3, FileForms DEF TestsIndInv, FilesOK, FileOK
    <3>2. RunOK'
      BY <1>1, <2>1, <2>3 DEF TestsIndInv, RunOK, Compiled, Tested
    <3> QED
      BY <3>1, <3>2 DEF TestsIndInv
  <2> QED
    BY <1>5, <2>2, <2>3 DEF DumpTotals, Dump
<1> QED
  BY <1>3, <1>4, <1>5

\* Runs are interrupted at any step and begin anew.
LEMMA RestartStep ==
  ASSUME TestsIndInv, Restart
  PROVE  TestsIndInv'
<1>1. /\ step' = "compile" /\ suite' \in Suites /\ compiles' = <<>> /\ testruns' = <<>>
      /\ torn' = (torn \/ step \in {"write compiles", "write testruns", "write totals"})
      /\ UNCHANGED <<compilesFile, testrunsFile, totalsFile, mixed>>
  BY DEF Restart, files
<1>2. OwnTimes(testruns')
  <2>1. testruns' = <<>>
    BY <1>1
  <2> QED
    BY <2>1 DEF OwnTimes
<1>3. FilesOK'
  <2>1. ~torn' => /\ ~torn /\ compilesFile.state # "truncated"
                  /\ testrunsFile.state # "truncated" /\ totalsFile.state # "truncated"
    BY <1>1 DEF TestsIndInv, FilesOK, FileOK
  <2> QED
    BY <1>1, <2>1 DEF TestsIndInv, FilesOK, FileOK
<1>4. RunOK'
  BY <1>1, <1>2 DEF RunOK, Compiled, Tested
<1> QED
  BY <1>3, <1>4 DEF TestsIndInv

\* The invariant says all that runs promise to each other.
LEMMA TestsPromise == TestsIndInv => TestTimingsInv
<1> SUFFICES ASSUME TestsIndInv PROVE TestTimingsInv
  OBVIOUS
<1>1. TestTimingsTypeOK
  <2>1. files = <<compilesFile, testrunsFile, totalsFile>> /\ DOMAIN files = 1 .. 3
    BY DEF files
  <2>2. \A file \in {compilesFile, testrunsFile, totalsFile} :
          file.state \in {"missing", "truncated", "complete"}
    <3>1. \A file : FileOK(file) => file.state \in {"missing", "truncated", "complete"}
      BY FileForms DEF FileOK
    <3> QED
      BY <3>1 DEF TestsIndInv, FilesOK
  <2>3. \A i \in DOMAIN files : files[i].state \in {"missing", "truncated", "complete"}
    BY <2>1, <2>2
  <2> QED
    BY <2>3 DEF TestsIndInv, FilesOK, FileOK, RunOK, Tested, TestTimingsTypeOK
<1>2. TotalsCoverTargets
  <2> SUFFICES ASSUME step = "done" PROVE TotalsCoverTargets
    BY DEF TotalsCoverTargets
  <2>1. /\ totalsFile = Holding(Totals) /\ compilesFile = Holding(compiles)
        /\ OwnTimes(compiles) /\ DOMAIN compiles = Targets
    BY DEF TestsIndInv, RunOK, Compiled, Tested
  <2>2. totalsFile.object = Totals /\ compilesFile.object = compiles
    BY <2>1, FileForms
  <2>3. DOMAIN Totals = Targets /\ \A t \in Targets : Totals[t][1] = t
    BY <2>1 DEF Totals, OwnTimes
  <2> QED
    BY <2>1, <2>2, <2>3 DEF TotalsCoverTargets
<1>3. TestTimesBelong
  BY DEF TestsIndInv, RunOK, OwnTimes, TestTimesBelong
<1>4. FilesLoadable
  <2>1. files = <<compilesFile, testrunsFile, totalsFile>> /\ DOMAIN files = 1 .. 3
    BY DEF files
  <2> QED
    BY <2>1 DEF TestsIndInv, FilesOK, FileOK, FilesLoadable, Loadable
<1> QED
  BY <1>1, <1>2, <1>3, <1>4 DEF TestTimingsInv

\* For any suites and header libraries, and however runs are interrupted: a finished
\* run leaves the totals of its targets, no time goes to another test unless known
\* tests were met in front of new ones, and what was not torn can be loaded.
THEOREM RunsLeaveTotals == TestTimingsSpec => []TestTimingsInv
<1>1. TestTimingsInit => TestsIndInv
  <2> SUFFICES ASSUME TestTimingsInit PROVE TestsIndInv
    OBVIOUS
  <2>1. OwnTimes(testruns)
    BY DEF TestTimingsInit, OwnTimes
  <2> QED
    BY <2>1, FileForms DEF TestTimingsInit, TestsIndInv, FilesOK, FileOK, RunOK, Compiled, Tested
<1>2. TestsIndInv /\ [TestTimingsNext]_testTimingsVars => TestsIndInv'
  <2> SUFFICES ASSUME TestsIndInv, [TestTimingsNext]_testTimingsVars PROVE TestsIndInv'
    OBVIOUS
  <2>1. CASE Compile
    BY <2>1, CompileStep
  <2>2. CASE DumpCompiles \/ DumpTestruns \/ DumpTotals
    BY <2>2, DumpStep
  <2>3. CASE Test
    BY <2>3, TestStep, TestTimingsAssumption
  <2>4. CASE Restart
    BY <2>4, RestartStep
  <2>5. CASE UNCHANGED testTimingsVars
    <3>1. /\ UNCHANGED <<suite, step, compiles, testruns, compilesFile, testrunsFile, totalsFile>>
          /\ UNCHANGED <<mixed, torn>>
      BY <2>5 DEF testTimingsVars
    <3>2. Targets' = Targets /\ Totals' = Totals
      BY <3>1 DEF Targets, Totals
    <3>3. FilesOK'
      BY <3>1 DEF TestsIndInv, FilesOK, FileOK, OwnTimes
    <3>4. RunOK'
      BY <3>1, <3>2 DEF TestsIndInv, RunOK, OwnTimes
    <3> QED
      BY <3>3, <3>4 DEF TestsIndInv
  <2> QED
    BY <2>1, <2>2, <2>3, <2>4, <2>5 DEF TestTimingsNext
<1> QED
  BY <1>1, <1>2, TestsPromise, PTL DEF TestTimingsSpec
-----------------------------------------------------------------------------
(* BlockedFieldMatrix                                                      *)

\* sum[k] is the sum of the first k values of v, for the k up to n.
Adds(sum, n, v) == sum = [k \in 0 .. n |-> IF k = 0 THEN 0 ELSE sum[k - 1] + v[k - 1]]

\* There is such a function.
LEMMA Adding ==
  ASSUME NEW n \in Nat, NEW v
  PROVE  \E sum : Adds(sum, n, v)
<1> DEFINE S == {m \in Nat : \E sum : Adds(sum, m, v)}
<1>1. 0 \in S
  <2>1. PICK f : f = [k \in 0 .. 0 |-> 0]
    OBVIOUS
  <2>2. Adds(f, 0, v)
    BY <2>1 DEF Adds
  <2> QED
    BY <2>2
<1>2. ASSUME NEW m \in Nat, m \in S PROVE m + 1 \in S
  <2>1. PICK f : Adds(f, m, v)
    BY <1>2
  <2>2. PICK g : g = [k \in 0 .. (m + 1) |-> IF k = m + 1 THEN f[m] + v[m] ELSE f[k]]
    OBVIOUS
  <2>3. \A k \in 0 .. m : g[k] = f[k]
    BY <2>2
  <2>4. ASSUME NEW k \in 0 .. (m + 1)
        PROVE  g[k] = IF k = 0 THEN 0 ELSE g[k - 1] + v[k - 1]
    <3>1. CASE k = m + 1
      <4>1. k # 0 /\ k - 1 = m /\ m \in 0 .. m
        BY <3>1
      <4> QED
        BY <2>2, <2>3, <3>1, <4>1
    <3>2. CASE k # m + 1
      <4>1. k \in 0 .. m /\ (k # 0 => k - 1 \in 0 .. m)
        BY <3>2
      <4>2. f[k] = IF k = 0 THEN 0 ELSE f[k - 1] + v[k - 1]
        BY <2>1, <4>1 DEF Adds
      <4> QED
        BY <2>3, <4>1, <4>2
    <3> QED
      BY <3>1, <3>2
  <2>5. Adds(g, m + 1, v)
    BY <2>2, <2>4 DEF Adds
  <2> QED
    BY <2>5
<1>3. n \in S
  BY <1>1, <1>2, CountingUp
<1> QED
  BY <1>3

\* sum has the partial sums of n integers v.
PartialSumsOf(sum, n, v) ==
  /\ sum[0] = 0 /\ \A k \in 0 .. n : sum[k] \in Int
  /\ \A k \in 0 .. (n - 1) : sum[k + 1] = sum[k] + v[k]

\* Sum() of integers is the last of their partial sums.
LEMMA PartialSums ==
  ASSUME NEW n \in Nat, NEW v, \A k \in 0 .. (n - 1) : v[k] \in Int
  PROVE  \E sum : PartialSumsOf(sum, n, v) /\ Dense!Sum(n, v) = sum[n]
<1>1. PICK sum : sum = CHOOSE s : s = [k \in 0 .. n |-> IF k = 0 THEN 0 ELSE s[k - 1] + v[k - 1]]
  OBVIOUS
<1>2. Dense!Sum(n, v) = sum[n]
  BY <1>1 DEF Dense!Sum
<1>3. Adds(sum, n, v)
  BY <1>1, Adding DEF Adds
<1>4. sum[0] = 0
  BY <1>3 DEF Adds
<1>5. ASSUME NEW k \in 0 .. (n - 1) PROVE sum[k + 1] = sum[k] + v[k]
  <2>1. k + 1 \in 0 .. n /\ k + 1 # 0 /\ (k + 1) - 1 = k
    OBVIOUS
  <2> QED
    BY <1>3, <2>1 DEF Adds
<1>6. ASSUME NEW k \in 0 .. n PROVE sum[k] \in Int
  <2> DEFINE S == {j \in 0 .. n : sum[j] \in Int}
  <2>1. 0 \in S
    BY <1>4
  <2>2. \A j \in 0 .. (k - 1) : j \in S => j + 1 \in S
    BY <1>5
  <2>3. k \in S
    <3> HIDE DEF S
    <3> QED
      BY <2>1, <2>2, CountingUp
  <2> QED
    BY <2>3
<1>7. PartialSumsOf(sum, n, v)
  BY <1>4, <1>5, <1>6 DEF PartialSumsOf
<1> QED
  BY <1>2, <1>7

\* A sum of integers is one.
LEMMA SumIsInt ==
  ASSUME NEW n \in Nat, NEW v, \A k \in 0 .. (n - 1) : v[k] \in Int
  PROVE  Dense!Sum(n, v) \in Int
BY PartialSums DEF PartialSumsOf

\* w is a block of v, which is zero outside of it.
IsBlock(w, size, v, n, first) ==
  /\ first + size <= n
  /\ \A k \in 0 .. (n - 1) : v[k] \in Int
  /\ \A k \in 0 .. (n - 1) : ~(first <= k /\ k < first + size) => v[k] = 0
  /\ \A k \in 0 .. (size - 1) : w[k] = v[first + k]

\* Then it has the same sum.
LEMMA SumOfBlock ==
  ASSUME NEW n \in Nat, NEW v, NEW first \in Nat, NEW size \in Nat, NEW w,
         IsBlock(w, size, v, n, first)
  PROVE  Dense!Sum(n, v) = Dense!Sum(size, w)
<1>0. /\ first + size <= n
      /\ \A k \in 0 .. (n - 1) : v[k] \in Int
      /\ \A k \in 0 .. (n - 1) : ~(first <= k /\ k < first + size) => v[k] = 0
      /\ \A k \in 0 .. (size - 1) : w[k] = v[first + k]
  BY DEF IsBlock
<1>1. PICK s : PartialSumsOf(s, n, v) /\ Dense!Sum(n, v) = s[n]
  BY <1>0, PartialSums
<1>2. \A k \in 0 .. (size - 1) : w[k] \in Int
  BY <1>0
<1>3. PICK t : PartialSumsOf(t, size, w) /\ Dense!Sum(size, w) = t[size]
  BY <1>2, PartialSums
<1> DEFINE S == {k \in 0 .. n : /\ k <= first => s[k] = 0
                                /\ first <= k /\ k <= first + size => s[k] = t[k - first]
                                /\ first + size <= k => s[k] = t[size]}
<1>4. 0 \in S
  BY <1>1, <1>3 DEF PartialSumsOf
<1>5. ASSUME NEW k \in 0 .. (n - 1), k \in S PROVE k + 1 \in S
  <2>1. s[k + 1] = s[k] + v[k] /\ s[k] \in Int /\ k + 1 \in 0 .. n
    BY <1>0, <1>1 DEF PartialSumsOf
  <2>2. CASE k < first
    <3>1. s[k + 1] = 0
      BY <1>0, <1>5, <2>1, <2>2
    <3> QED
      BY <1>0, <1>3, <2>1, <2>2, <3>1 DEF PartialSumsOf
  <2>3. CASE first <= k /\ k < first + size
    <3>1. PICK i \in 0 .. (size - 1) : i = k - first
      BY <1>0, <2>3
    <3>2. t[i + 1] = t[i] + w[i] /\ w[i] = v[k] /\ s[k] = t[i]
      BY <1>0, <1>3, <1>5, <2>3, <3>1 DEF PartialSumsOf
    <3>3. i + 1 = (k + 1) - first /\ s[k + 1] = t[(k + 1) - first]
      BY <2>1, <3>1, <3>2
    <3>4. first + size <= k + 1 => (k + 1) - first = size
      BY <1>0, <2>3
    <3> QED
      BY <1>0, <2>1, <2>3, <3>3, <3>4
  <2>4. CASE first + size <= k
    <3>1. s[k + 1] = t[size]
      BY <1>0, <1>5, <2>1, <2>4
    <3> QED
      BY <1>0, <2>1, <2>4, <3>1
  <2> QED
    BY <2>2, <2>3, <2>4
<1>6. n \in S
  <2> HIDE DEF S
  <2> QED
    BY <1>4, <1>5, CountingUp
<1> QED
  BY <1>0, <1>1, <1>3, <1>6

\* Sums of the same values are the same.
LEMMA SumOfSame ==
  ASSUME NEW n \in Nat, NEW v, NEW w,
         \A k \in 0 .. (n - 1) : v[k] \in Int /\ w[k] = v[k]
  PROVE  Dense!Sum(n, v) = Dense!Sum(n, w)
<1>1. IsBlock(w, n, v, n, 0)
  BY DEF IsBlock
<1> QED
  BY <1>1, SumOfBlock

\* A sum of zeros is zero.
LEMMA SumOfZeros ==
  ASSUME NEW n \in Nat, NEW v, \A k \in 0 .. (n - 1) : v[k] = 0
  PROVE  Dense!Sum(n, v) = 0
<1>1. Dense!Sum(n, v) = Dense!Sum(0, v)
  <2>1. IsBlock(v, 0, v, n, 0)
    BY DEF IsBlock
  <2> QED
    BY <2>1, SumOfBlock
<1>2. Dense!Sum(0, v) = 0
  <2>1. \A k \in 0 .. (0 - 1) : v[k] \in Int
    OBVIOUS
  <2> QED
    BY <2>1, PartialSums DEF PartialSumsOf
<1> QED
  BY <1>1, <1>2

\* Division with remainder.
LEMMA QuotientAndRest ==
  ASSUME NEW a \in Int, NEW b \in Int, b > 0
  PROVE  a = b * (a \div b) + (a % b)
OBVIOUS

\* The block of an index and its place in the block.
LEMMA BlockOfIndex ==
  ASSUME NEW n \in Nat, NEW size \in Nat \ {0}, NEW ii \in 0 .. (n * size - 1)
  PROVE  /\ ii \div size \in 0 .. (n - 1) /\ ii % size \in 0 .. (size - 1)
         /\ ii = size * (ii \div size) + (ii % size)
<1>1. ii \in Int /\ size \in Int /\ size > 0
  OBVIOUS
<1>2. ii = size * (ii \div size) + (ii % size)
  BY <1>1, QuotientAndRest
<1> QED
  BY <1>2

\* An index is within its block.
LEMMA WithinBlock ==
  ASSUME NEW n \in Nat, NEW size \in Nat \ {0}, NEW ii \in 0 .. (n * size - 1)
  PROVE  size * (ii \div size) <= ii /\ ii < size * (ii \div size) + size
<1>1. PICK q \in Int, rest \in 0 .. (size - 1) : q = ii \div size /\ ii = size * q + rest
  BY BlockOfIndex
<1>2. PICK first \in Int : first = size * q
  OBVIOUS
<1> QED
  BY <1>1, <1>2

\* The index of a place in a block.
LEMMA IndexOfBlock ==
  ASSUME NEW n \in Nat, NEW size \in Nat \ {0}, NEW q \in 0 .. (n - 1), NEW r \in 0 .. (size - 1)
  PROVE  /\ size * q + r \in 0 .. (n * size - 1) /\ size * q + r = q * size + r
         /\ (size * q + r) \div size = q /\ (size * q + r) % size = r
         /\ size * q \in Nat /\ size * q + size <= n * size
OBVIOUS

\* A matrix of blocks with integers.
IntBlocks == Blocks(block_rows, block_cols, Int)

\* There are rows and columns, and each block is within them.
LEMMA RowsAndColumns ==
  /\ num_blocks \in Nat /\ block_rows \in Nat \ {0} /\ block_cols \in Nat \ {0}
  /\ num_rows \in Nat /\ 0 \in Upto(num_rows) /\ num_cols \in Nat /\ 0 \in Upto(num_cols)
  /\ Upto(num_rows) = 0 .. (num_rows - 1) /\ Upto(num_cols) = 0 .. (num_cols - 1)
  /\ Upto(block_rows) = 0 .. (block_rows - 1) /\ Upto(block_cols) = 0 .. (block_cols - 1)
  /\ \A q \in Upto(num_blocks) : /\ block_rows * q \in Nat /\ block_rows * q + block_rows <= num_rows
                                 /\ block_cols * q \in Nat /\ block_cols * q + block_cols <= num_cols
<1>1. num_blocks \in Nat \ {0} /\ block_rows \in Nat \ {0} /\ block_cols \in Nat \ {0}
  BY BlockedMatrixAssumption
<1>2. num_blocks * block_rows \in Nat \ {0} /\ num_blocks * block_cols \in Nat \ {0}
  BY ONLY <1>1
<1>3. ASSUME NEW q \in 0 .. (num_blocks - 1)
      PROVE  /\ block_rows * q \in Nat /\ block_rows * q + block_rows <= num_blocks * block_rows
             /\ block_cols * q \in Nat /\ block_cols * q + block_cols <= num_blocks * block_cols
  BY <1>1, IndexOfBlock
<1> QED
  BY <1>1, <1>2, <1>3 DEF Upto, num_rows, num_cols

\* Row ii and column jj, and where their entry is.
LEMMA Places ==
  ASSUME NEW ii \in Upto(num_rows), NEW jj \in Upto(num_cols)
  PROVE  /\ ii \div block_rows \in Upto(num_blocks) /\ ii % block_rows \in Upto(block_rows)
         /\ ii = block_rows * (ii \div block_rows) + (ii % block_rows)
         /\ jj \div block_cols \in Upto(num_blocks) /\ jj % block_cols \in Upto(block_cols)
         /\ jj = block_cols * (jj \div block_cols) + (jj % block_cols)
         /\ block_rows * (ii \div block_rows) <= ii /\ ii < block_rows * (ii \div block_rows) + block_rows
         /\ block_cols * (jj \div block_cols) <= jj /\ jj < block_cols * (jj \div block_cols) + block_cols
<1>1. /\ num_blocks \in Nat /\ block_rows \in Nat \ {0} /\ block_cols \in Nat \ {0}
      /\ ii \in 0 .. (num_blocks * block_rows - 1) /\ jj \in 0 .. (num_blocks * block_cols - 1)
  BY RowsAndColumns DEF num_rows, num_cols
<1> QED
  BY <1>1, BlockOfIndex, WithinBlock DEF Upto

\* The row and the column of a place in a block.
LEMMA Indices ==
  ASSUME NEW q \in Upto(num_blocks), NEW r \in Upto(block_rows), NEW c \in Upto(block_cols)
  PROVE  /\ block_rows * q + r \in Upto(num_rows) /\ block_rows * q + r = q * block_rows + r
         /\ (block_rows * q + r) \div block_rows = q /\ (block_rows * q + r) % block_rows = r
         /\ block_cols * q + c \in Upto(num_cols) /\ block_cols * q + c = q * block_cols + c
         /\ (block_cols * q + c) \div block_cols = q /\ (block_cols * q + c) % block_cols = c
<1>1. /\ num_blocks \in Nat /\ block_rows \in Nat \ {0} /\ block_cols \in Nat \ {0}
      /\ q \in 0 .. (num_blocks - 1) /\ r \in 0 .. (block_rows - 1) /\ c \in 0 .. (block_cols - 1)
  BY BlockedMatrixAssumption DEF Upto
<1> QED
  BY <1>1, IndexOfBlock DEF Upto, num_rows, num_cols

\* What get_entry() shows of a place in a block.
LEMMA ShownInside ==
  ASSUME NEW B, NEW q \in Upto(num_blocks), NEW r \in Upto(block_rows), NEW c \in Upto(block_cols)
  PROVE  Shown(B)[<<block_rows * q + r, block_cols * q + c>>] = B[q][r][c]
BY Indices DEF Shown, get_entry, in_pattern

\* What get_entry() shows of any row and column.
LEMMA ShownAt ==
  ASSUME NEW B, NEW ii \in Upto(num_rows), NEW jj \in Upto(num_cols)
  PROVE  /\ in_pattern(ii, jj) =>
              Shown(B)[<<ii, jj>>] = B[ii \div block_rows][ii % block_rows][jj % block_cols]
         /\ ~in_pattern(ii, jj) => Shown(B)[<<ii, jj>>] = 0
BY DEF Shown, get_entry

\* All entries that are shown are integers.
LEMMA ShownIsInt ==
  ASSUME NEW B \in IntBlocks, NEW ii \in Upto(num_rows), NEW jj \in Upto(num_cols)
  PROVE  Shown(B)[<<ii, jj>>] \in Int
<1>1. ii \div block_rows \in Upto(num_blocks) /\ ii % block_rows \in Upto(block_rows)
      /\ jj % block_cols \in Upto(block_cols)
  BY Places
<1>2. B[ii \div block_rows][ii % block_rows][jj % block_cols] \in Int
  BY <1>1 DEF IntBlocks, Blocks
<1> QED
  BY <1>2, ShownAt

\* The dense matrix m has what is in the blocks of C, and zeros.
Mirrors(m, C) ==
  /\ m = [at \in Upto(num_rows) \X Upto(num_cols) |-> m[at]]
  /\ \A ii \in Upto(num_rows), jj \in Upto(num_cols) :
       /\ in_pattern(ii, jj) =>
            m[<<ii, jj>>] = C[ii \div block_rows][ii % block_rows][jj % block_cols]
       /\ ~in_pattern(ii, jj) => m[<<ii, jj>>] = 0

\* Then it is what get_entry() shows of C.
LEMMA ShownAlike == ASSUME NEW C, NEW m, Mirrors(m, C) PROVE m = Shown(C)
<1>1. ASSUME NEW at \in Upto(num_rows) \X Upto(num_cols) PROVE m[at] = get_entry(C, at[1], at[2])
  <2>1. PICK ii \in Upto(num_rows), jj \in Upto(num_cols) : at = <<ii, jj>>
    BY <1>1
  <2> QED
    BY <2>1 DEF get_entry, Mirrors
<1> QED
  BY <1>1 DEF Shown, Mirrors

\* What set_entry() and add_to_entry() write to.
SetAt(B, ii, jj, val) == [B EXCEPT ![ii \div block_rows][ii % block_rows][jj % block_cols] = val]
Target(ii, jj) == <<ii, block_cols * (ii \div block_rows) + (jj % block_cols)>>

\* The matrix that is shown changes there only.
LEMMA EntryWritten ==
  ASSUME NEW B \in IntBlocks, NEW ii \in Upto(num_rows), NEW jj \in Upto(num_cols), NEW val \in Int
  PROVE  /\ SetAt(B, ii, jj, val) \in IntBlocks
         /\ Target(ii, jj) \in Upto(num_rows) \X Upto(num_cols)
         /\ in_pattern(Target(ii, jj)[1], Target(ii, jj)[2])
         /\ Shown(B)[Target(ii, jj)] = B[ii \div block_rows][ii % block_rows][jj % block_cols]
         /\ Shown(SetAt(B, ii, jj, val)) = [Shown(B) EXCEPT ![Target(ii, jj)] = val]
<1>0. PICK C : C = SetAt(B, ii, jj, val)
  OBVIOUS
<1>1. PICK q \in Upto(num_blocks), r \in Upto(block_rows), c \in Upto(block_cols) :
        q = ii \div block_rows /\ r = ii % block_rows /\ c = jj % block_cols
  BY Places
<1>2. PICK line : line = [B[q][r] EXCEPT ![c] = val]
  OBVIOUS
<1>3. PICK block : block = [B[q] EXCEPT ![r] = line]
  OBVIOUS
<1>4. C = [B EXCEPT ![q] = block]
  BY <1>0, <1>1, <1>2, <1>3, Zenon DEF SetAt
<1>5. /\ B \in [Upto(num_blocks) -> [Upto(block_rows) -> [Upto(block_cols) -> Int]]]
      /\ B[q] \in [Upto(block_rows) -> [Upto(block_cols) -> Int]] /\ B[q][r] \in [Upto(block_cols) -> Int]
  BY DEF IntBlocks, Blocks
<1>6. line \in [Upto(block_cols) -> Int]
  BY <1>2, <1>5
<1>7. block \in [Upto(block_rows) -> [Upto(block_cols) -> Int]]
  BY <1>3, <1>5, <1>6
<1>8. C \in IntBlocks
  BY <1>4, <1>5, <1>7 DEF IntBlocks, Blocks
<1>9. \A q1 \in Upto(num_blocks), r1 \in Upto(block_rows), c1 \in Upto(block_cols) :
        C[q1][r1][c1] = IF q1 = q /\ r1 = r /\ c1 = c THEN val ELSE B[q1][r1][c1]
  BY <1>2, <1>3, <1>4, <1>5
<1>10. PICK kk : kk = block_cols * q + c
  OBVIOUS
<1>11. kk \in Upto(num_cols) /\ kk \div block_cols = q /\ kk % block_cols = c /\ ii = block_rows * q + r
  BY <1>1, <1>10, Places, Indices
<1>12. in_pattern(ii, kk)
  BY <1>1, <1>11 DEF in_pattern
<1>13. Shown(B)[<<ii, kk>>] = B[q][r][c]
  BY <1>10, <1>11, ShownInside
<1>14. PICK m : m = [Shown(B) EXCEPT ![<<ii, kk>>] = val]
  OBVIOUS
<1>15. /\ m = [at \in Upto(num_rows) \X Upto(num_cols) |-> m[at]]
       /\ \A at \in Upto(num_rows) \X Upto(num_cols) :
            m[at] = IF at = <<ii, kk>> THEN val ELSE Shown(B)[at]
  BY <1>14 DEF Shown
<1>16. ASSUME NEW i \in Upto(num_rows), NEW j \in Upto(num_cols)
       PROVE  /\ in_pattern(i, j) => m[<<i, j>>] = C[i \div block_rows][i % block_rows][j % block_cols]
              /\ ~in_pattern(i, j) => m[<<i, j>>] = 0
  <2>1. m[<<i, j>>] = IF i = ii /\ j = kk THEN val ELSE Shown(B)[<<i, j>>]
    BY <1>11, <1>15
  <2>2. PICK q1 \in Upto(num_blocks), r1 \in Upto(block_rows), c1 \in Upto(block_cols), q2 \in Upto(num_blocks) :
          /\ q1 = i \div block_rows /\ r1 = i % block_rows /\ i = block_rows * q1 + r1
          /\ q2 = j \div block_cols /\ c1 = j % block_cols /\ j = block_cols * q2 + c1
    BY Places
  <2>3. CASE i = ii /\ j = kk
    <3>1. q1 = q /\ r1 = r /\ c1 = c
      BY <1>1, <1>11, <2>2, <2>3
    <3>2. m[<<i, j>>] = C[q1][r1][c1]
      BY <1>9, <2>1, <2>3, <3>1
    <3> QED
      BY <1>12, <2>2, <2>3, <3>2
  <2>4. CASE ~(i = ii /\ j = kk)
    <3>1. m[<<i, j>>] = Shown(B)[<<i, j>>]
      BY <2>1, <2>4
    <3>2. q1 = q2 => ~(q1 = q /\ r1 = r /\ c1 = c)
      BY <1>10, <1>11, <2>2, <2>4
    <3>3. q1 = q2 => C[q1][r1][c1] = B[q1][r1][c1]
      BY <1>9, <3>2
    <3> QED
      BY <2>2, <3>1, <3>3, ShownAt DEF in_pattern
  <2> QED
    BY <2>3, <2>4
<1>17. m = Shown(C)
  <2>1. Mirrors(m, C)
    BY <1>15, <1>16 DEF Mirrors
  <2> QED
    BY <2>1, ShownAlike
<1>18. Target(ii, jj) = <<ii, kk>>
  BY <1>1, <1>10 DEF Target
<1>19. Target(ii, jj) \in Upto(num_rows) \X Upto(num_cols) /\ in_pattern(Target(ii, jj)[1], Target(ii, jj)[2])
  BY <1>11, <1>12, <1>18
<1>20. Shown(B)[Target(ii, jj)] = B[ii \div block_rows][ii % block_rows][jj % block_cols]
  BY <1>1, <1>13, <1>18, Zenon
<1>21. Shown(SetAt(B, ii, jj, val)) = [Shown(B) EXCEPT ![Target(ii, jj)] = val]
  BY <1>0, <1>14, <1>17, <1>18, Zenon
<1> QED
  BY <1>0, <1>8, <1>19, <1>20, <1>21, Zenon

\* Each place of the blocks C has the integer that is in the dense matrix m, and m is zero
\* outside of the blocks.
PlaceByPlace(C, m) ==
  /\ m = [at \in Upto(num_rows) \X Upto(num_cols) |-> m[at]]
  /\ C = [q \in Upto(num_blocks) |-> [r \in Upto(block_rows) |-> [c \in Upto(block_cols) |-> C[q][r][c]]]]
  /\ \A ii \in Upto(num_rows), jj \in Upto(num_cols) : m[<<ii, jj>>] \in Int
  /\ \A ii \in Upto(num_rows), jj \in Upto(num_cols) : ~in_pattern(ii, jj) => m[<<ii, jj>>] = 0
  /\ \A q \in Upto(num_blocks), r \in Upto(block_rows), c \in Upto(block_cols) :
       C[q][r][c] = m[<<block_rows * q + r, block_cols * q + c>>]

\* Then C has integers and get_entry() shows m.
LEMMA ShownBlockwise ==
  ASSUME NEW C, NEW m, PlaceByPlace(C, m)
  PROVE  C \in IntBlocks /\ m = Shown(C)
<1>1. ASSUME NEW q \in Upto(num_blocks), NEW r \in Upto(block_rows), NEW c \in Upto(block_cols)
      PROVE  C[q][r][c] \in Int
  <2>1. C[q][r][c] = m[<<block_rows * q + r, block_cols * q + c>>]
    BY DEF PlaceByPlace
  <2>2. block_rows * q + r \in Upto(num_rows) /\ block_cols * q + c \in Upto(num_cols)
    BY Indices
  <2> QED
    BY <2>1, <2>2 DEF PlaceByPlace
<1>2. C \in IntBlocks
  <2>1. C = [q \in Upto(num_blocks) |-> [r \in Upto(block_rows) |-> [c \in Upto(block_cols) |-> C[q][r][c]]]]
    BY DEF PlaceByPlace
  <2> QED
    BY <1>1, <2>1 DEF IntBlocks, Blocks
<1>3. ASSUME NEW ii \in Upto(num_rows), NEW jj \in Upto(num_cols), in_pattern(ii, jj)
      PROVE  m[<<ii, jj>>] = C[ii \div block_rows][ii % block_rows][jj % block_cols]
  <2>1. PICK q \in Upto(num_blocks), r \in Upto(block_rows), c \in Upto(block_cols) :
          /\ q = ii \div block_rows /\ r = ii % block_rows /\ c = jj % block_cols
          /\ ii = block_rows * q + r /\ jj = block_cols * q + c
    BY <1>3, Places DEF in_pattern
  <2>2. C[q][r][c] = m[<<block_rows * q + r, block_cols * q + c>>]
    BY DEF PlaceByPlace
  <2> QED
    BY <2>1, <2>2
<1>4. Mirrors(m, C)
  BY <1>3 DEF Mirrors, PlaceByPlace
<1> QED
  BY <1>2, <1>4, ShownAlike

\* What operator+= and -= make of blocks and of dense matrices.
IsSum(C, B, D, sign) ==
  C = [jj \in Upto(num_blocks) |-> [line \in Upto(block_rows) |-> [mm \in Upto(block_cols) |->
         B[jj][line][mm] + sign * D[jj][line][mm]]]]

SumShown(B, D, sign) == [at \in Upto(num_rows) \X Upto(num_cols) |-> Shown(B)[at] + sign * Shown(D)[at]]

\* operator+= and -= of blocks add up what is shown.
LEMMA Added ==
  ASSUME NEW B \in IntBlocks, NEW D \in IntBlocks, NEW sign \in Int, NEW C, IsSum(C, B, D, sign)
  PROVE  C \in IntBlocks /\ Shown(C) = SumShown(B, D, sign)
<1>1. PICK m : m = [at \in Upto(num_rows) \X Upto(num_cols) |-> Shown(B)[at] + sign * Shown(D)[at]]
  OBVIOUS
<1>2. ASSUME NEW ii \in Upto(num_rows), NEW jj \in Upto(num_cols)
      PROVE  m[<<ii, jj>>] \in Int /\ (~in_pattern(ii, jj) => m[<<ii, jj>>] = 0)
  <2>1. PICK v \in Int, w \in Int : v = Shown(B)[<<ii, jj>>] /\ w = Shown(D)[<<ii, jj>>]
    BY ShownIsInt
  <2>2. ~in_pattern(ii, jj) => v = 0 /\ w = 0
    BY <2>1, ShownAt
  <2>3. m[<<ii, jj>>] = v + sign * w
    BY <1>1, <2>1
  <2>4. v + sign * w \in Int /\ (v = 0 /\ w = 0 => v + sign * w = 0)
    OBVIOUS
  <2> QED
    BY <2>2, <2>3, <2>4, Zenon
<1>3. ASSUME NEW q \in Upto(num_blocks), NEW r \in Upto(block_rows), NEW c \in Upto(block_cols)
      PROVE  C[q][r][c] = m[<<block_rows * q + r, block_cols * q + c>>]
  <2>1. C[q][r][c] = B[q][r][c] + sign * D[q][r][c]
    BY DEF IsSum
  <2>2. PICK ii \in Upto(num_rows), jj \in Upto(num_cols) :
          ii = block_rows * q + r /\ jj = block_cols * q + c
    BY Indices
  <2>3. Shown(B)[<<ii, jj>>] = B[q][r][c] /\ Shown(D)[<<ii, jj>>] = D[q][r][c]
    BY <2>2, ShownInside
  <2> QED
    BY <1>1, <2>1, <2>2, <2>3
<1>4. m = [at \in Upto(num_rows) \X Upto(num_cols) |-> m[at]]
  BY <1>1
<1>5. C = [q \in Upto(num_blocks) |-> [r \in Upto(block_rows) |-> [c \in Upto(block_cols) |-> C[q][r][c]]]]
  BY DEF IsSum
<1>6. PlaceByPlace(C, m)
  BY <1>2, <1>3, <1>4, <1>5 DEF PlaceByPlace
<1> QED
  BY <1>1, <1>6, ShownBlockwise DEF SumShown

\* So does operator*= with the products.
LEMMA Scaled ==
  ASSUME NEW B \in IntBlocks, NEW val \in Int, NEW C,
         C = [jj \in Upto(num_blocks) |-> [line \in Upto(block_rows) |-> [mm \in Upto(block_cols) |->
               val * B[jj][line][mm]]]]
  PROVE  /\ C \in IntBlocks
         /\ Shown(C) = [at \in Upto(num_rows) \X Upto(num_cols) |-> val * Shown(B)[at]]
<1>1. PICK m : m = [at \in Upto(num_rows) \X Upto(num_cols) |-> val * Shown(B)[at]]
  OBVIOUS
<1>2. ASSUME NEW ii \in Upto(num_rows), NEW jj \in Upto(num_cols)
      PROVE  m[<<ii, jj>>] \in Int /\ (~in_pattern(ii, jj) => m[<<ii, jj>>] = 0)
  <2>1. PICK v \in Int : v = Shown(B)[<<ii, jj>>]
    BY ShownIsInt
  <2>2. ~in_pattern(ii, jj) => v = 0
    BY <2>1, ShownAt
  <2>3. m[<<ii, jj>>] = val * v
    BY <1>1, <2>1
  <2>4. val * v \in Int /\ (v = 0 => val * v = 0)
    OBVIOUS
  <2> QED
    BY <2>2, <2>3, <2>4, Zenon
<1>3. ASSUME NEW q \in Upto(num_blocks), NEW r \in Upto(block_rows), NEW c \in Upto(block_cols)
      PROVE  C[q][r][c] = m[<<block_rows * q + r, block_cols * q + c>>]
  <2>1. C[q][r][c] = val * B[q][r][c]
    OBVIOUS
  <2>2. PICK ii \in Upto(num_rows), jj \in Upto(num_cols) :
          ii = block_rows * q + r /\ jj = block_cols * q + c
    BY Indices
  <2>3. Shown(B)[<<ii, jj>>] = B[q][r][c]
    BY <2>2, ShownInside
  <2> QED
    BY <1>1, <2>1, <2>2, <2>3
<1>4. m = [at \in Upto(num_rows) \X Upto(num_cols) |-> m[at]]
  BY <1>1
<1>5. C = [q \in Upto(num_blocks) |-> [r \in Upto(block_rows) |-> [c \in Upto(block_cols) |-> C[q][r][c]]]]
  OBVIOUS
<1>6. PlaceByPlace(C, m)
  BY <1>2, <1>3, <1>4, <1>5 DEF PlaceByPlace
<1> QED
  BY <1>1, <1>6, ShownBlockwise

\* Assigning a dense matrix takes what is in the pattern.
LEMMA Assigned ==
  ASSUME NEW d, \A ii \in Upto(num_rows), jj \in Upto(num_cols) : d[<<ii, jj>>] \in Int
  PROVE  /\ FromDense(d) \in IntBlocks
         /\ Shown(FromDense(d)) = [at \in Upto(num_rows) \X Upto(num_cols) |->
                                     IF in_pattern(at[1], at[2]) THEN d[at] ELSE 0]
<1>1. PICK m : m = [at \in Upto(num_rows) \X Upto(num_cols) |-> IF in_pattern(at[1], at[2]) THEN d[at] ELSE 0]
  OBVIOUS
<1>2. PICK C : C = FromDense(d)
  OBVIOUS
<1>3. ASSUME NEW ii \in Upto(num_rows), NEW jj \in Upto(num_cols)
      PROVE  m[<<ii, jj>>] \in Int /\ (~in_pattern(ii, jj) => m[<<ii, jj>>] = 0)
  BY <1>1
<1>4. ASSUME NEW q \in Upto(num_blocks), NEW r \in Upto(block_rows), NEW c \in Upto(block_cols)
      PROVE  C[q][r][c] = m[<<block_rows * q + r, block_cols * q + c>>]
  <2>1. C[q][r][c] = d[<<q * block_rows + r, q * block_cols + c>>]
    BY <1>2 DEF FromDense, Blockwise
  <2>2. PICK ii \in Upto(num_rows), jj \in Upto(num_cols) :
          /\ ii = block_rows * q + r /\ jj = block_cols * q + c
          /\ ii = q * block_rows + r /\ jj = q * block_cols + c
          /\ in_pattern(ii, jj)
    BY Indices DEF in_pattern
  <2> QED
    BY <1>1, <2>1, <2>2
<1>5. m = [at \in Upto(num_rows) \X Upto(num_cols) |-> m[at]]
  BY <1>1
<1>6. C = [q \in Upto(num_blocks) |-> [r \in Upto(block_rows) |-> [c \in Upto(block_cols) |-> C[q][r][c]]]]
  BY <1>2 DEF FromDense, Blockwise
<1>7. PlaceByPlace(C, m)
  BY <1>3, <1>4, <1>5, <1>6 DEF PlaceByPlace
<1> QED
  BY <1>1, <1>2, <1>7, ShownBlockwise

\* A product with a row is that with the block of it.
LEMMA RowProduct ==
  ASSUME NEW B \in IntBlocks, NEW x, \A k \in Upto(num_cols) : x[k] \in Int, NEW ii \in Upto(num_rows)
  PROVE  Dense!Sum(num_cols, [jj \in Upto(num_cols) |-> Shown(B)[<<ii, jj>>] * x[jj]])
           = Dense!Sum(block_cols, [mm \in Upto(block_cols) |->
               B[ii \div block_rows][ii % block_rows][mm] * x[block_cols * (ii \div block_rows) + mm]])
<1>1. PICK v : v = [jj \in Upto(num_cols) |-> Shown(B)[<<ii, jj>>] * x[jj]]
  OBVIOUS
<1>2. PICK w : w = [mm \in Upto(block_cols) |->
                      B[ii \div block_rows][ii % block_rows][mm] * x[block_cols * (ii \div block_rows) + mm]]
  OBVIOUS
<1>3. PICK q \in Upto(num_blocks), r \in Upto(block_rows) :
        q = ii \div block_rows /\ r = ii % block_rows /\ ii = block_rows * q + r
  BY RowsAndColumns, Places
<1>4. /\ num_cols \in Nat /\ block_cols \in Nat
      /\ Upto(num_cols) = 0 .. (num_cols - 1) /\ Upto(block_cols) = 0 .. (block_cols - 1)
  BY RowsAndColumns
<1>5. PICK first \in Nat : first = block_cols * q /\ first + block_cols <= num_cols
  BY RowsAndColumns
<1>6. ASSUME NEW k \in Upto(num_cols)
      PROVE  /\ v[k] \in Int
             /\ ~(first <= k /\ k < first + block_cols) => v[k] = 0
  <2>1. PICK a \in Int, b \in Int : a = Shown(B)[<<ii, k>>] /\ b = x[k]
    BY ShownIsInt
  <2>2. v[k] = a * b
    BY <1>1, <2>1
  <2>3. a * b \in Int /\ (a = 0 => a * b = 0)
    BY ONLY a \in Int, b \in Int
  <2>4. ASSUME ~(first <= k /\ k < first + block_cols) PROVE a = 0
    <3>1. k \div block_cols # q
      BY <1>5, <2>4, RowsAndColumns, Places
    <3>2. ~in_pattern(ii, k)
      BY <1>3, <3>1 DEF in_pattern
    <3> QED
      BY <2>1, <3>2, ShownAt
  <2> QED
    BY <2>2, <2>3, <2>4
<1>7. ASSUME NEW mm \in Upto(block_cols) PROVE w[mm] = v[first + mm]
  <2>1. PICK k \in Upto(num_cols) : k = block_cols * q + mm /\ k = first + mm
    BY <1>5, Indices
  <2>2. Shown(B)[<<block_rows * q + r, block_cols * q + mm>>] = B[q][r][mm]
    BY ShownInside
  <2> QED
    BY <1>1, <1>2, <1>3, <2>1, <2>2
<1>8. IsBlock(w, block_cols, v, num_cols, first)
  BY <1>4, <1>5, <1>6, <1>7 DEF IsBlock
<1>9. Dense!Sum(num_cols, v) = Dense!Sum(block_cols, w)
  <2>1. num_cols \in Nat /\ block_cols \in Nat /\ first \in Nat
    BY <1>4
  <2> QED
    BY ONLY <1>8, <2>1, SumOfBlock
<1> QED
  BY <1>1, <1>2, <1>9, Zenon

\* A product with a column is that with the block of it.
LEMMA ColumnProduct ==
  ASSUME NEW B \in IntBlocks, NEW y, \A k \in Upto(num_rows) : y[k] \in Int, NEW jj \in Upto(num_cols)
  PROVE  Dense!Sum(num_rows, [ii \in Upto(num_rows) |-> Shown(B)[<<ii, jj>>] * y[ii]])
           = Dense!Sum(block_rows, [line \in Upto(block_rows) |->
               B[jj \div block_cols][line][jj % block_cols] * y[block_rows * (jj \div block_cols) + line]])
<1>1. PICK v : v = [ii \in Upto(num_rows) |-> Shown(B)[<<ii, jj>>] * y[ii]]
  OBVIOUS
<1>2. PICK w : w = [line \in Upto(block_rows) |->
                      B[jj \div block_cols][line][jj % block_cols] * y[block_rows * (jj \div block_cols) + line]]
  OBVIOUS
<1>3. PICK q \in Upto(num_blocks), c \in Upto(block_cols) :
        q = jj \div block_cols /\ c = jj % block_cols /\ jj = block_cols * q + c
  BY RowsAndColumns, Places
<1>4. /\ num_rows \in Nat /\ block_rows \in Nat
      /\ Upto(num_rows) = 0 .. (num_rows - 1) /\ Upto(block_rows) = 0 .. (block_rows - 1)
  BY RowsAndColumns
<1>5. PICK first \in Nat : first = block_rows * q /\ first + block_rows <= num_rows
  BY RowsAndColumns
<1>6. ASSUME NEW k \in Upto(num_rows)
      PROVE  /\ v[k] \in Int
             /\ ~(first <= k /\ k < first + block_rows) => v[k] = 0
  <2>1. PICK a \in Int, b \in Int : a = Shown(B)[<<k, jj>>] /\ b = y[k]
    BY ShownIsInt
  <2>2. v[k] = a * b
    BY <1>1, <2>1
  <2>3. a * b \in Int /\ (a = 0 => a * b = 0)
    BY ONLY a \in Int, b \in Int
  <2>4. ASSUME ~(first <= k /\ k < first + block_rows) PROVE a = 0
    <3>1. k \div block_rows # q
      BY <1>5, <2>4, RowsAndColumns, Places
    <3>2. ~in_pattern(k, jj)
      BY <1>3, <3>1 DEF in_pattern
    <3> QED
      BY <2>1, <3>2, ShownAt
  <2> QED
    BY <2>2, <2>3, <2>4
<1>7. ASSUME NEW line \in Upto(block_rows) PROVE w[line] = v[first + line]
  <2>1. PICK k \in Upto(num_rows) : k = block_rows * q + line /\ k = first + line
    BY <1>3, <1>5, Indices
  <2>2. Shown(B)[<<block_rows * q + line, block_cols * q + c>>] = B[q][line][c]
    BY ShownInside
  <2> QED
    BY <1>1, <1>2, <1>3, <2>1, <2>2
<1>8. IsBlock(w, block_rows, v, num_rows, first)
  BY <1>4, <1>5, <1>6, <1>7 DEF IsBlock
<1>9. Dense!Sum(num_rows, v) = Dense!Sum(block_rows, w)
  <2>1. num_rows \in Nat /\ block_rows \in Nat /\ first \in Nat
    BY <1>4
  <2> QED
    BY ONLY <1>8, <2>1, SumOfBlock
<1> QED
  BY <1>1, <1>2, <1>9, Zenon

\* rightmultiply(): the sum over a row of the matrix is that over its block.
LEMMA Multiplied ==
  ASSUME NEW B \in IntBlocks, NEW D \in Blocks(block_cols, block_cols, Int), NEW C,
         C = [jj \in Upto(num_blocks) |-> [line \in Upto(block_rows) |-> [mm \in Upto(block_cols) |->
               Dense!Sum(block_cols, [kk \in Upto(block_cols) |-> B[jj][line][kk] * D[jj][kk][mm]])]]]
  PROVE  /\ C \in IntBlocks
         /\ Shown(C) = [at \in Upto(num_rows) \X Upto(num_cols) |->
              Dense!Sum(num_cols, [k \in Upto(num_cols) |-> Shown(B)[<<at[1], k>>] * Square(D)[<<k, at[2]>>]])]
<1> DEFINE Row(ii, jj) == [k \in Upto(num_cols) |-> Shown(B)[<<ii, k>>] * Square(D)[<<k, jj>>]]
<1>1. PICK m : m = [at \in Upto(num_rows) \X Upto(num_cols) |-> Dense!Sum(num_cols, Row(at[1], at[2]))]
  OBVIOUS
<1>2. ASSUME NEW jj \in Upto(num_cols), NEW k \in Upto(num_cols)
      PROVE  /\ Square(D)[<<k, jj>>] \in Int
             /\ k \div block_cols # jj \div block_cols => Square(D)[<<k, jj>>] = 0
  <2>1. PICK q \in Upto(num_blocks), r \in Upto(block_cols), c \in Upto(block_cols) :
          q = k \div block_cols /\ r = k % block_cols /\ c = jj % block_cols
    BY RowsAndColumns, Places
  <2>2. D[q][r][c] \in Int
    BY DEF Blocks
  <2> QED
    BY <2>1, <2>2 DEF Square
<1>3. ASSUME NEW ii \in Upto(num_rows), NEW jj \in Upto(num_cols), NEW k \in Upto(num_cols)
      PROVE  /\ Row(ii, jj)[k] \in Int
             /\ ~(in_pattern(ii, k) /\ k \div block_cols = jj \div block_cols) => Row(ii, jj)[k] = 0
  <2>1. PICK v \in Int, w \in Int : v = Shown(B)[<<ii, k>>] /\ w = Square(D)[<<k, jj>>]
    BY <1>2, ShownIsInt
  <2>2. ~in_pattern(ii, k) => v = 0
    BY <2>1, ShownAt
  <2>3. Row(ii, jj)[k] = v * w
    BY <2>1
  <2>4. v * w \in Int /\ (v = 0 => v * w = 0) /\ (w = 0 => v * w = 0)
    BY ONLY v \in Int, w \in Int
  <2> HIDE DEF Row
  <2> QED
    BY <1>2, <2>1, <2>2, <2>3, <2>4, Zenon
<1>4. ASSUME NEW ii \in Upto(num_rows), NEW jj \in Upto(num_cols)
      PROVE  m[<<ii, jj>>] \in Int /\ (~in_pattern(ii, jj) => m[<<ii, jj>>] = 0)
  <2>1. m[<<ii, jj>>] = Dense!Sum(num_cols, Row(ii, jj))
    BY <1>1
  <2> HIDE DEF Row
  <2>2. m[<<ii, jj>>] \in Int
    BY <1>3, <2>1, RowsAndColumns, SumIsInt
  <2>3. ASSUME ~in_pattern(ii, jj) PROVE m[<<ii, jj>>] = 0
    <3>1. \A k \in 0 .. (num_cols - 1) : Row(ii, jj)[k] = 0
      BY <1>3, <2>3, RowsAndColumns DEF in_pattern
    <3> QED
      BY <2>1, <3>1, RowsAndColumns, SumOfZeros
  <2> QED
    BY <2>2, <2>3
<1>5. ASSUME NEW q \in Upto(num_blocks), NEW r \in Upto(block_rows), NEW c \in Upto(block_cols)
      PROVE  C[q][r][c] = m[<<block_rows * q + r, block_cols * q + c>>]
  <2>1. PICK ii \in Upto(num_rows), jj \in Upto(num_cols) :
          /\ ii = block_rows * q + r /\ jj = block_cols * q + c
          /\ ii \div block_rows = q /\ ii % block_rows = r
          /\ jj \div block_cols = q /\ jj % block_cols = c
    BY Indices
  <2>2. PICK x : x = [k \in Upto(num_cols) |-> Square(D)[<<k, jj>>]]
    OBVIOUS
  <2>3. \A k \in Upto(num_cols) : x[k] \in Int
    BY <1>2, <2>2
  <2>4. Dense!Sum(num_cols, [k \in Upto(num_cols) |-> Shown(B)[<<ii, k>>] * x[k]])
          = Dense!Sum(block_cols, [mm \in Upto(block_cols) |-> B[q][r][mm] * x[block_cols * q + mm]])
    BY <2>1, <2>3, RowProduct
  <2>5. ASSUME NEW mm \in Upto(block_cols) PROVE x[block_cols * q + mm] = D[q][mm][c]
    <3>1. PICK k \in Upto(num_cols) : k = block_cols * q + mm /\ k \div block_cols = q /\ k % block_cols = mm
      BY Indices
    <3> QED
      BY <2>1, <2>2, <3>1 DEF Square
  <2>6. [mm \in Upto(block_cols) |-> B[q][r][mm] * x[block_cols * q + mm]]
          = [kk \in Upto(block_cols) |-> B[q][r][kk] * D[q][kk][c]]
    BY <2>5
  <2>7. C[q][r][c] = Dense!Sum(block_cols, [kk \in Upto(block_cols) |-> B[q][r][kk] * D[q][kk][c]])
    OBVIOUS
  <2>8. Row(ii, jj) = [k \in Upto(num_cols) |-> Shown(B)[<<ii, k>>] * x[k]]
    BY <2>2
  <2>9. m[<<ii, jj>>] = Dense!Sum(num_cols, Row(ii, jj))
    BY <1>1
  <2> QED
    BY <2>1, <2>4, <2>6, <2>7, <2>8, <2>9, Zenon
<1>6. m = [at \in Upto(num_rows) \X Upto(num_cols) |-> m[at]]
  BY <1>1
<1>7. C = [q \in Upto(num_blocks) |-> [r \in Upto(block_rows) |-> [c \in Upto(block_cols) |-> C[q][r][c]]]]
  OBVIOUS
<1> QED
  <2>1. C \in IntBlocks /\ m = Shown(C)
    <3> HIDE DEF Row
    <3>1. PlaceByPlace(C, m)
      BY <1>4, <1>5, <1>6, <1>7 DEF PlaceByPlace
    <3> QED
      BY <3>1, ShownBlockwise
  <2> QED
    BY <1>1, <2>1

\* The other matrices have integers.
LEMMA OthersHaveIntegers ==
  /\ \A rows, cols : OtherBlocks(rows, cols) \subseteq Blocks(rows, cols, Int)
  /\ \A d \in DenseOthers : /\ d = [at \in Upto(num_rows) \X Upto(num_cols) |-> d[at]]
                            /\ \A ii \in Upto(num_rows), jj \in Upto(num_cols) : d[<<ii, jj>>] \in Int
<1>1. ASSUME NEW rows, NEW cols, NEW other \in OtherBlocks(rows, cols)
      PROVE  other \in Blocks(rows, cols, Int)
  <2>1. PICK block \in [Upto(rows) -> [Upto(cols) -> {0, 1}]] : other = [jj \in Upto(num_blocks) |-> block]
    BY DEF OtherBlocks
  <2>2. block \in [Upto(rows) -> [Upto(cols) -> Int]]
    OBVIOUS
  <2> QED
    BY <2>1, <2>2 DEF Blocks
<1>2. ASSUME NEW d \in DenseOthers
      PROVE  /\ d = [at \in Upto(num_rows) \X Upto(num_cols) |-> d[at]]
             /\ \A ii \in Upto(num_rows), jj \in Upto(num_cols) : d[<<ii, jj>>] \in Int
  <2>1. PICK r \in Upto(num_rows) :
          d = [at \in Upto(num_rows) \X Upto(num_cols) |-> IF at[1] = r THEN 1 ELSE at[2]]
    BY DEF DenseOthers
  <2>2. Upto(num_cols) \subseteq Int
    BY DEF Upto
  <2> QED
    BY <2>1, <2>2
<1> QED
  BY <1>1, <1>2

\* Each call is a step of the matrix without blocks.
LEMMA BlockedStep ==
  ASSUME backend_ \in IntBlocks, BlockedNext
  PROVE  backend_' \in IntBlocks /\ Dense!EntriesNext
<1>1. PICK B \in IntBlocks : B = backend_
  OBVIOUS
<1>2. PICK C : C = backend_'
  OBVIOUS
<1>3. /\ Dense!Rows = Upto(num_rows) /\ Dense!Cols = Upto(num_cols)
      /\ Shown(backend_)' = Shown(C) /\ Shown(backend_) = Shown(B)
  BY <1>1, <1>2 DEF Dense!Rows, Dense!Cols, Upto
<1>4. ASSUME NEW ii \in Upto(num_rows), NEW jj \in Upto(num_cols), NEW val \in EntryValues,
             set_entry(ii, jj, val), call_' = <<"set_entry", ii, jj, val>>
      PROVE  C \in IntBlocks /\ Dense!SetEntry
  <2>1. PICK at \in Upto(num_rows) \X Upto(num_cols) : at = <<ii, jj>>
    OBVIOUS
  <2>2. val \in Int
    BY BlockedMatrixAssumption
  <2>3. C \in IntBlocks /\ Shown(C) = IF in_pattern(ii, jj) THEN [Shown(B) EXCEPT ![at] = val] ELSE Shown(B)
    <3>1. CASE in_pattern(ii, jj)
      <4>1. C = SetAt(B, ii, jj, val)
        BY <1>1, <1>2, <1>4, <3>1, Zenon DEF set_entry, SetAt
      <4>2. Target(ii, jj) = at
        BY <2>1, <3>1, Places DEF in_pattern, Target
      <4> QED
        BY <2>2, <3>1, <4>1, <4>2, EntryWritten
    <3>2. CASE ~in_pattern(ii, jj)
      BY <1>1, <1>2, <1>4, <3>2, Zenon DEF set_entry
    <3> QED
      BY <3>1, <3>2
  <2> QED
    BY <1>3, <1>4, <2>1, <2>3 DEF Dense!SetEntry
<1>5. ASSUME NEW ii \in Upto(num_rows), NEW jj \in Upto(num_cols), NEW val \in EntryValues,
             add_to_entry(ii, jj, val), call_' = <<"add_to_entry", ii, jj, val>>
      PROVE  C \in IntBlocks /\ Dense!AddToEntry
  <2>1. PICK at \in Upto(num_rows) \X Upto(num_cols) : at = <<ii, jj>>
    OBVIOUS
  <2>2. val \in Int
    BY BlockedMatrixAssumption
  <2>3. PICK other : other = Target(ii, jj)
    OBVIOUS
  <2>4. CASE in_pattern(ii, jj) \/ ~NonZero(val)
    <3>1. PICK old : old = B[ii \div block_rows][ii % block_rows][jj % block_cols]
      OBVIOUS
    <3>2. old \in Int
      <4>1. PICK q \in Upto(num_blocks), r \in Upto(block_rows), c \in Upto(block_cols) :
              q = ii \div block_rows /\ r = ii % block_rows /\ c = jj % block_cols
        BY Places
      <4>2. B[q][r][c] \in Int
        BY DEF IntBlocks, Blocks
      <4> QED
        BY <3>1, <4>1, <4>2
    <3>3. C = SetAt(B, ii, jj, old + val)
      BY <1>1, <1>2, <1>5, <2>4, <3>1 DEF add_to_entry, SetAt
    <3>4. old + val \in Int
      BY <2>2, <3>2
    <3>5. /\ C \in IntBlocks /\ other \in Upto(num_rows) \X Upto(num_cols) /\ in_pattern(other[1], other[2])
          /\ Shown(B)[other] = old /\ Shown(C) = [Shown(B) EXCEPT ![other] = old + val]
      <4>1. PICK new \in Int : new = old + val
        BY <3>4
      <4>2. /\ SetAt(B, ii, jj, new) \in IntBlocks
            /\ Target(ii, jj) \in Upto(num_rows) \X Upto(num_cols)
            /\ in_pattern(Target(ii, jj)[1], Target(ii, jj)[2])
            /\ Shown(B)[Target(ii, jj)] = B[ii \div block_rows][ii % block_rows][jj % block_cols]
            /\ Shown(SetAt(B, ii, jj, new)) = [Shown(B) EXCEPT ![Target(ii, jj)] = new]
        BY EntryWritten
      <4> QED
        BY <2>3, <3>1, <3>3, <4>1, <4>2, Zenon
    <3>6. in_pattern(ii, jj) => other = at
      BY <2>1, <2>3, Places DEF in_pattern, Target
    <3>7. ~in_pattern(ii, jj) => Dense!Zero(val)
      <4>1. BlockTolerance \in Nat
        BY BlockedMatrixAssumption
      <4> QED
        BY <2>2, <2>4, <4>1 DEF NonZero, Dense!Zero
    <3>8. Shown(C) = [Shown(B) EXCEPT ![other] = @ + val]
      BY <3>5
    <3>9. call_' = <<"add_to_entry", at[1], at[2], val>>
      BY <1>5, <2>1
    <3>10. CASE in_pattern(ii, jj)
      BY <1>3, <2>1, <3>5, <3>6, <3>8, <3>9, <3>10 DEF Dense!AddToEntry
    <3>11. CASE ~in_pattern(ii, jj)
      <4>1. \E o \in {p \in Upto(num_rows) \X Upto(num_cols) : in_pattern(p[1], p[2])} :
              Shown(C) = [Shown(B) EXCEPT ![o] = @ + val]
        BY <3>5, <3>8
      <4>2. at \notin {p \in Upto(num_rows) \X Upto(num_cols) : in_pattern(p[1], p[2])}
        BY <2>1, <3>11
      <4> QED
        BY <1>3, <3>5, <3>7, <3>9, <3>11, <4>1, <4>2, Zenon DEF Dense!AddToEntry
    <3> QED
      BY <3>10, <3>11
  <2>5. CASE ~(in_pattern(ii, jj) \/ ~NonZero(val))
    <3>1. C = B
      BY <1>1, <1>2, <1>5, <2>5, Zenon DEF add_to_entry
    <3> QED
      BY <1>3, <1>5, <2>1, <2>5, <3>1 DEF Dense!AddToEntry
  <2> QED
    BY <2>4, <2>5
<1>6. ASSUME NEW other \in OtherBlocks(block_rows, block_cols), NEW sign \in {1, -1},
             Plus(other, sign), call_' = <<"add", Shown(other), sign>>
      PROVE  C \in IntBlocks /\ Dense!Add
  <2>1. other \in IntBlocks /\ sign \in Int
    BY OthersHaveIntegers DEF IntBlocks
  <2>2. IsSum(C, B, other, sign)
    BY <1>1, <1>2, <1>6 DEF Plus, Blockwise, IsSum
  <2>3. C \in IntBlocks /\ Shown(C) = SumShown(B, other, sign)
    BY <2>1, <2>2, Added
  <2> QED
    BY <1>3, <1>6, <2>3 DEF Dense!Add, SumShown
<1>7. ASSUME NEW val \in EntryValues, Times(val), call_' = <<"scale", val>>
      PROVE  C \in IntBlocks /\ Dense!Scale
  <2>1. val \in Int
    BY BlockedMatrixAssumption
  <2>2. C = [jj \in Upto(num_blocks) |-> [line \in Upto(block_rows) |-> [mm \in Upto(block_cols) |->
               val * B[jj][line][mm]]]]
    BY <1>1, <1>2, <1>7 DEF Times, Blockwise
  <2>3. /\ C \in IntBlocks
        /\ Shown(C) = [at \in Upto(num_rows) \X Upto(num_cols) |-> val * Shown(B)[at]]
    BY <2>1, <2>2, Scaled
  <2> QED
    BY <1>3, <1>7, <2>3 DEF Dense!Scale
<1>8. ASSUME NEW other \in OtherBlocks(block_cols, block_cols),
             rightmultiply(other), call_' = <<"rightmultiply", Square(other)>>
      PROVE  C \in IntBlocks /\ Dense!Multiply
  <2>1. other \in Blocks(block_cols, block_cols, Int)
    BY OthersHaveIntegers
  <2>2. C = [jj \in Upto(num_blocks) |-> [line \in Upto(block_rows) |-> [mm \in Upto(block_cols) |->
               Dense!Sum(block_cols, [kk \in Upto(block_cols) |-> B[jj][line][kk] * other[jj][kk][mm]])]]]
    BY <1>1, <1>2, <1>8 DEF rightmultiply, Blockwise
  <2>3. /\ C \in IntBlocks
        /\ Shown(C) = [at \in Upto(num_rows) \X Upto(num_cols) |->
             Dense!Sum(num_cols, [k \in Upto(num_cols) |-> Shown(B)[<<at[1], k>>] * Square(other)[<<k, at[2]>>]])]
    BY <2>1, <2>2, Multiplied
  <2> QED
    BY <1>3, <1>8, <2>3 DEF Dense!Multiply
<1>9. ASSUME NEW d \in DenseOthers, AssignDense(d), call_' = <<"assign", d>>
      PROVE  C \in IntBlocks /\ Dense!Assign
  <2>1. \A ii \in Upto(num_rows), jj \in Upto(num_cols) : d[<<ii, jj>>] \in Int
    BY OthersHaveIntegers
  <2>2. C = FromDense(d)
    BY <1>1, <1>2, <1>9 DEF AssignDense
  <2>3. /\ C \in IntBlocks
        /\ Shown(C) = [at \in Upto(num_rows) \X Upto(num_cols) |-> IF in_pattern(at[1], at[2]) THEN d[at] ELSE 0]
    BY <2>1, <2>2, Assigned
  <2>4. Shown(C) = [at \in Upto(num_rows) \X Upto(num_cols) |->
                      IF at \in {p \in Upto(num_rows) \X Upto(num_cols) : in_pattern(p[1], p[2])}
                      THEN d[<<at[1], at[2]>>] ELSE 0]
    BY <2>3
  <2> QED
    BY <1>3, <1>9, <2>3, <2>4 DEF Dense!Assign, Dense!Matrix
<1> QED
  <2>1. C \in IntBlocks /\ Dense!EntriesNext
    BY <1>4, <1>5, <1>6, <1>7, <1>8, <1>9 DEF BlockedNext, Dense!EntriesNext
  <2> QED
    BY <1>1, <1>2, <2>1

\* Multiplication and conversion agree with what is shown.
LEMMA BlocksMultiplyDense == backend_ \in IntBlocks => BlocksMultiply
<1> SUFFICES ASSUME backend_ \in IntBlocks PROVE BlocksMultiply
  OBVIOUS
<1>1. PICK B \in IntBlocks : B = backend_
  OBVIOUS
<1>2. PICK m : m = Shown(B)
  OBVIOUS
<1>3. PICK x, y : /\ x = [ii \in Upto(num_cols) |-> ii + 1]
                  /\ y = [ii \in Upto(num_rows) |-> ii + 1]
  OBVIOUS
<1>4. /\ \A k \in Upto(num_cols) : x[k] \in Int
      /\ \A k \in Upto(num_rows) : y[k] \in Int
  BY <1>3 DEF Upto
<1>5. convert_to_dynamic_matrix(B) = m
  <2>1. ASSUME NEW at \in Upto(num_rows) \X Upto(num_cols)
        PROVE  get_entry(B, at[1], at[2])
                 = IF at[1] \div block_rows = at[2] \div block_cols
                   THEN B[at[2] \div block_cols][at[1] % block_rows][at[2] % block_cols] ELSE 0
    BY DEF get_entry, in_pattern
  <2> QED
    BY <1>1, <1>2, <2>1 DEF convert_to_dynamic_matrix, Shown
<1>6. FromDense(m) = B
  <2>1. ASSUME NEW q \in Upto(num_blocks), NEW r \in Upto(block_rows), NEW c \in Upto(block_cols)
        PROVE  m[<<q * block_rows + r, q * block_cols + c>>] = B[q][r][c]
    <3>1. m[<<block_rows * q + r, block_cols * q + c>>] = B[q][r][c]
      BY <1>1, <1>2, ShownInside
    <3> QED
      BY <3>1, Indices
  <2>2. B = [q \in Upto(num_blocks) |-> [r \in Upto(block_rows) |-> [c \in Upto(block_cols) |-> B[q][r][c]]]]
    <3>1. ASSUME NEW q \in Upto(num_blocks)
          PROVE  B[q] = [r \in Upto(block_rows) |-> [c \in Upto(block_cols) |-> B[q][r][c]]]
      <4>1. B[q] \in [Upto(block_rows) -> [Upto(block_cols) -> Int]]
        BY DEF IntBlocks, Blocks
      <4> QED
        BY <4>1
    <3> QED
      BY <3>1 DEF IntBlocks, Blocks
  <2> QED
    BY <2>1, <2>2 DEF FromDense, Blockwise
<1>7. mv(B, x) = [ii \in Upto(num_rows) |->
                    Dense!Sum(num_cols, [jj \in Upto(num_cols) |-> m[<<ii, jj>>] * x[jj]])]
  BY <1>1, <1>2, <1>4, RowProduct, Zenon DEF mv
<1>8. mtv(B, y) = [jj \in Upto(num_cols) |->
                    Dense!Sum(num_rows, [ii \in Upto(num_rows) |-> m[<<ii, jj>>] * y[ii]])]
  BY <1>1, <1>2, <1>4, ColumnProduct, Zenon DEF mtv
<1>9. ASSUME NEW ii \in Upto(num_rows)
      PROVE  Entry(BlockMv(B, AsBlocks(x, block_cols)), block_rows, ii) = mv(B, x)[ii]
  <2>2. PICK q \in Upto(num_blocks), r \in Upto(block_rows) :
          q = ii \div block_rows /\ r = ii % block_rows
    BY RowsAndColumns, Places
  <2>3. PICK v : v = AsBlocks(x, block_cols)
    OBVIOUS
  <2>4. Entry(BlockMv(B, v), block_rows, ii)
          = Dense!Sum(block_cols, [mm \in Upto(block_cols) |-> B[q][r][mm] * v[q][mm]])
    BY <2>2, Zenon DEF Entry, BlockMv
  <2>5. mv(B, x)[ii] = Dense!Sum(block_cols, [mm \in Upto(block_cols) |-> B[q][r][mm] * x[block_cols * q + mm]])
    BY <2>2, Zenon DEF mv
  <2>6. ASSUME NEW mm \in Upto(block_cols) PROVE v[q][mm] = x[block_cols * q + mm]
    <3>1. v[q][mm] = x[q * block_cols + mm]
      BY <2>3 DEF AsBlocks
    <3> QED
      BY <2>2, <3>1, Indices
  <2>7. [mm \in Upto(block_cols) |-> B[q][r][mm] * v[q][mm]]
          = [mm \in Upto(block_cols) |-> B[q][r][mm] * x[block_cols * q + mm]]
    BY <2>6
  <2> QED
    BY <2>3, <2>4, <2>5, <2>7, Zenon
<1>10. ASSUME NEW jj \in Upto(num_blocks), NEW line \in Upto(block_rows), NEW mm \in Upto(block_cols)
      PROVE  transpose(B)[jj][mm][line] = m[<<jj * block_rows + line, jj * block_cols + mm>>]
  <2>1. transpose(B)[jj][mm][line] = B[jj][line][mm]
    BY DEF transpose, Blockwise
  <2>2. m[<<block_rows * jj + line, block_cols * jj + mm>>] = B[jj][line][mm]
    BY <1>1, <1>2, ShownInside
  <2> QED
    BY <2>1, <2>2, Indices
<1> QED
  BY <1>1, <1>2, <1>3, <1>5, <1>6, <1>7, <1>8, <1>9, <1>10 DEF BlocksMultiply

\* For any number and size of blocks, any values and tolerance, and calls in any order:
\* BlockedFieldMatrix is a matrix that is zero outside of its blocks, its get_entry()
\* follows set_entry(), add_to_entry(), +=, -=, *=, rightmultiply() and the assignment,
\* and mv(), mtv(), transpose() and the conversions multiply and show the same matrix.
THEOREM BlocksAreADenseMatrix == BlockedSpec => BlocksAreDense
<1>1. BlockedInit => backend_ \in IntBlocks /\ Dense!EntriesInit
  <2> SUFFICES ASSUME BlockedInit PROVE backend_ \in IntBlocks /\ Dense!EntriesInit
    OBVIOUS
  <2>1. backend_ = [q \in Upto(num_blocks) |-> [r \in Upto(block_rows) |-> [c \in Upto(block_cols) |-> 0]]]
    BY DEF BlockedInit, Blockwise
  <2>2. backend_ \in IntBlocks
    BY <2>1 DEF IntBlocks, Blocks
  <2>3. ASSUME NEW at \in Upto(num_rows) \X Upto(num_cols) PROVE Shown(backend_)[at] = 0
    <3>1. PICK ii \in Upto(num_rows), jj \in Upto(num_cols) : at = <<ii, jj>>
      OBVIOUS
    <3>2. /\ ii \div block_rows \in Upto(num_blocks) /\ ii % block_rows \in Upto(block_rows)
          /\ jj % block_cols \in Upto(block_cols)
      BY Places
    <3> QED
      BY <2>1, <3>1, <3>2, ShownAt
  <2>4. Dense!Rows = Upto(num_rows) /\ Dense!Cols = Upto(num_cols)
    BY DEF Dense!Rows, Dense!Cols, Upto
  <2> QED
    BY <2>2, <2>3, <2>4 DEF BlockedInit, Dense!EntriesInit
<1>2. backend_ \in IntBlocks /\ [BlockedNext]_blockedVars
        => (backend_ \in IntBlocks)' /\ [Dense!EntriesNext]_<<Shown(backend_), call_>>
  <2>1. backend_ \in IntBlocks /\ BlockedNext => (backend_ \in IntBlocks)' /\ Dense!EntriesNext
    BY BlockedStep DEF IntBlocks, Blocks
  <2>2. UNCHANGED blockedVars => UNCHANGED <<backend_, Shown(backend_), call_>>
    BY DEF blockedVars
  <2> QED
    BY <2>1, <2>2
<1> QED
  BY <1>1, <1>2, BlocksMultiplyDense, PTL DEF BlockedSpec, BlocksAreDense, Dense!EntriesSpec

-----------------------------------------------------------------------------
(* TimedPrefixedStreamBuffer                                               *)

\* f starts with base and goes on as G says.
Unfolds(f, T, base, G, n) ==
  f \in [0 .. n -> T] /\ f[0] = base /\ \A k \in 1 .. n : f[k] = G[<<f[k - 1], k>>]

\* A function that is defined by recursion exists.
LEMMA Recursing ==
  ASSUME NEW T, NEW base \in T, NEW G \in [T \X Nat -> T], NEW n \in Nat
  PROVE  \E f : Unfolds(f, T, base, G, n)
<1> DEFINE S == {m \in Nat : \E f \in [0 .. m -> T] :
                   f[0] = base /\ \A k \in 1 .. m : f[k] = G[<<f[k - 1], k>>]}
<1>1. 0 \in S
  <2>1. PICK f \in [0 .. 0 -> T] : f = [k \in 0 .. 0 |-> base]
    OBVIOUS
  <2>2. f[0] = base /\ \A k \in 1 .. 0 : f[k] = G[<<f[k - 1], k>>]
    BY <2>1
  <2> QED
    BY <2>2
<1>2. ASSUME NEW m \in Nat, m \in S PROVE m + 1 \in S
  <2>1. PICK f \in [0 .. m -> T] : f[0] = base /\ \A k \in 1 .. m : f[k] = G[<<f[k - 1], k>>]
    BY <1>2
  <2>2. PICK e \in T : e = G[<<f[m], m + 1>>]
    <3>1. f[m] \in T
      OBVIOUS
    <3> QED
      BY <3>1
  <2>3. PICK g \in [0 .. (m + 1) -> T] : g = [k \in 0 .. (m + 1) |-> IF k = m + 1 THEN e ELSE f[k]]
    <3>1. \A k \in 0 .. (m + 1) : k # m + 1 => k \in 0 .. m
      OBVIOUS
    <3> QED
      BY <3>1
  <2>4. g[m + 1] = e /\ \A k \in 0 .. m : g[k] = f[k]
    BY <2>3
  <2>5. g[0] = base
    BY <2>1, <2>4
  <2>6. ASSUME NEW k \in 1 .. (m + 1) PROVE g[k] = G[<<g[k - 1], k>>]
    <3>1. k - 1 \in 0 .. m /\ g[k - 1] = f[k - 1]
      BY <2>4
    <3>2. CASE k = m + 1
      <4>1. k - 1 = m
        BY <3>2
      <4> QED
        BY <2>2, <2>4, <3>1, <3>2, <4>1
    <3>3. CASE k # m + 1
      <4>1. k \in 1 .. m /\ k \in 0 .. m
        BY <3>3
      <4> QED
        BY <2>1, <2>4, <3>1, <4>1
    <3> QED
      BY <3>2, <3>3
  <2> QED
    BY <2>5, <2>6
<1>3. n \in S
  <2> HIDE DEF S
  <2> QED
    BY <1>1, <1>2, CountingUp
<1> QED
  BY <1>3 DEF Unfolds

\* What is written is made of these.
Marks == Chars \cup {"prefix"}

\* Joining texts.
LEMMA JoinedMarks ==
  ASSUME NEW s \in Seq(Marks), NEW t \in Seq(Marks), NEW u \in Seq(Marks)
  PROVE  /\ s \o t \in Seq(Marks) /\ (s \o t) \o u = s \o (t \o u)
         /\ s \o <<>> = s /\ <<>> \o s = s
  BY ConcatAssociative, ConcatProperties, ConcatEmptySeq

\* The same from the left.
LEMMA Regroup ==
  ASSUME NEW s \in Seq(Marks), NEW t \in Seq(Marks), NEW u \in Seq(Marks)
  PROVE  s \o (t \o u) = (s \o t) \o u
  BY JoinedMarks

\* The first lines of a text.
LinesOf(lines, str) ==
  /\ lines[0] = << <<>> >>
  /\ \A n \in 1 .. Len(str) :
       lines[n] = IF str[n] = "nl" THEN Append(lines[n - 1], <<>>)
                  ELSE [lines[n - 1] EXCEPT ![Len(lines[n - 1])] = Append(@, str[n])]
  /\ \A n \in 0 .. Len(str) : lines[n] \in Seq(Seq(Chars)) /\ lines[n] # <<>>

\* tokenize() gives the lines of all of the text.
LEMMA Tokenized ==
  ASSUME NEW str \in Seq(Chars)
  PROVE  \E lines : LinesOf(lines, str) /\ tokenize(str) = lines[Len(str)]
<1> DEFINE T == Seq(Seq(Chars)) \ {<<>>}
           Next(l, c) == IF c = "nl" THEN Append(l, <<>>) ELSE [l EXCEPT ![Len(l)] = Append(@, c)]
           G == [p \in T \X Nat |-> IF p[2] \in 1 .. Len(str) THEN Next(p[1], str[p[2]]) ELSE p[1]]
<1>1. << <<>> >> \in T
  OBVIOUS
<1>2. ASSUME NEW l \in T, NEW c \in Chars PROVE Next(l, c) \in T
  <2>1. Append(l, <<>>) \in T
    OBVIOUS
  <2>2. [l EXCEPT ![Len(l)] = Append(@, c)] \in T
    <3>1. PICK m \in Nat \ {0} : m = Len(l)
      OBVIOUS
    <3>2. l[m] \in Seq(Chars)
      BY <3>1
    <3>3. PICK e \in Seq(Chars) : e = Append(l[m], c)
      BY <3>2, AppendProperties
    <3>4. [l EXCEPT ![Len(l)] = Append(@, c)] = [l EXCEPT ![m] = e]
      BY <3>1, <3>3, Zenon
    <3>5. [l EXCEPT ![m] = e] \in Seq(Seq(Chars))
      BY <3>1, ExceptSeq
    <3>6. Len([l EXCEPT ![m] = e]) = m
      BY <3>1, ExceptSeq
    <3> QED
      BY <3>1, <3>4, <3>5, <3>6
  <2> QED
    BY <2>1, <2>2
<1>3. G \in [T \X Nat -> T]
  <2>1. ASSUME NEW p \in T \X Nat
        PROVE  (IF p[2] \in 1 .. Len(str) THEN Next(p[1], str[p[2]]) ELSE p[1]) \in T
    <3>1. p[1] \in T
      OBVIOUS
    <3>2. p[2] \in 1 .. Len(str) => str[p[2]] \in Chars
      OBVIOUS
    <3> HIDE DEF T, Next
    <3> QED
      BY <1>2, <3>1, <3>2
  <2> HIDE DEF T, Next
  <2> QED
    BY <2>1
<1>4. Len(str) \in Nat
  OBVIOUS
<1>5. PICK f \in [0 .. Len(str) -> T] :
        f[0] = << <<>> >> /\ \A k \in 1 .. Len(str) : f[k] = G[<<f[k - 1], k>>]
  <2>1. PICK base \in T : base = << <<>> >>
    BY <1>1
  <2>2. PICK g \in [T \X Nat -> T] : g = G
    BY <1>3
  <2> HIDE DEF T, G
  <2>3. PICK f : Unfolds(f, T, base, g, Len(str))
    BY <1>4, Recursing
  <2> QED
    BY <2>1, <2>2, <2>3, Zenon DEF Unfolds
<1>6. ASSUME NEW k \in 1 .. Len(str) PROVE f[k] = Next(f[k - 1], str[k])
  <2>1. k - 1 \in 0 .. Len(str) /\ k \in Nat
    BY <1>4
  <2>2. f[k - 1] \in T
    BY <2>1
  <2>3. PICK p : p = <<f[k - 1], k>> /\ p \in T \X Nat /\ p[1] = f[k - 1] /\ p[2] = k
    <3> HIDE DEF T
    <3>1. <<f[k - 1], k>> \in T \X Nat /\ <<f[k - 1], k>>[1] = f[k - 1] /\ <<f[k - 1], k>>[2] = k
      BY <2>1, <2>2
    <3> QED
      BY <3>1, Zenon
  <2>4. G[p] = Next(f[k - 1], str[k])
    <3> HIDE DEF T, Next
    <3> QED
      BY <2>3
  <2> QED
    BY <1>5, <2>3, <2>4, Zenon
<1>7. f = [n \in 0 .. Len(str) |->
             IF n = 0 THEN << <<>> >>
             ELSE IF str[n] = "nl" THEN Append(f[n - 1], <<>>)
             ELSE [f[n - 1] EXCEPT ![Len(f[n - 1])] = Append(@, str[n])]]
  <2>1. ASSUME NEW n \in 0 .. Len(str)
        PROVE  f[n] = IF n = 0 THEN << <<>> >>
                      ELSE IF str[n] = "nl" THEN Append(f[n - 1], <<>>)
                      ELSE [f[n - 1] EXCEPT ![Len(f[n - 1])] = Append(@, str[n])]
    <3>1. n = 0 \/ n \in 1 .. Len(str)
      BY <1>4
    <3> QED
      BY <1>5, <1>6, <3>1, Zenon
  <2>2. f = [n \in 0 .. Len(str) |-> f[n]]
    OBVIOUS
  <2> QED
    BY <2>1, <2>2, Zenon
<1>8. PICK lines : lines = CHOOSE l : l =
        [n \in 0 .. Len(str) |->
             IF n = 0 THEN << <<>> >>
             ELSE IF str[n] = "nl" THEN Append(l[n - 1], <<>>)
             ELSE [l[n - 1] EXCEPT ![Len(l[n - 1])] = Append(@, str[n])]]
  OBVIOUS
<1>9. tokenize(str) = lines[Len(str)]
  BY <1>8, Zenon DEF tokenize
<1>10. lines = [n \in 0 .. Len(str) |->
             IF n = 0 THEN << <<>> >>
             ELSE IF str[n] = "nl" THEN Append(lines[n - 1], <<>>)
             ELSE [lines[n - 1] EXCEPT ![Len(lines[n - 1])] = Append(@, str[n])]]
  BY <1>7, <1>8, Zenon
<1>11. lines[0] = << <<>> >> /\ \A n \in 1 .. Len(str) : lines[n] = Next(lines[n - 1], str[n])
  <2>1. 0 \in 0 .. Len(str) /\ \A n \in 1 .. Len(str) : n \in 0 .. Len(str) /\ n # 0
    BY <1>4
  <2> QED
    BY <1>10, <2>1, Zenon
<1>12. \A n \in 0 .. Len(str) : lines[n] \in T
  <2> DEFINE S == {n \in 0 .. Len(str) : lines[n] \in T}
  <2>1. 0 \in S
    <3>1. 0 \in 0 .. Len(str)
      BY <1>4
    <3> HIDE DEF T
    <3> QED
      BY <1>1, <1>11, <3>1, Zenon
  <2>2. ASSUME NEW m \in 0 .. (Len(str) - 1), m \in S PROVE m + 1 \in S
    <3>1. m + 1 \in 1 .. Len(str) /\ m + 1 \in 0 .. Len(str) /\ (m + 1) - 1 = m
      BY <1>4
    <3>2. str[m + 1] \in Chars
      BY <3>1
    <3>3. lines[m + 1] = Next(lines[m], str[m + 1])
      BY <1>11, <3>1
    <3> HIDE DEF T, Next
    <3> QED
      BY <1>2, <2>2, <3>1, <3>2, <3>3
  <2>3. ASSUME NEW n \in 0 .. Len(str) PROVE n \in S
    <3>1. n \in Nat /\ \A m \in 0 .. (n - 1) : m \in 0 .. (Len(str) - 1)
      BY <1>4
    <3> HIDE DEF S
    <3> QED
      BY <2>1, <2>2, <3>1, CountingUp
  <2> QED
    BY <2>3
<1>13. LinesOf(lines, str)
  <2>1. \A n \in 0 .. Len(str) : lines[n] \in Seq(Seq(Chars)) /\ lines[n] # <<>>
    BY <1>12
  <2> QED
    BY <1>11, <2>1, Zenon DEF LinesOf
<1> QED
  BY <1>9, <1>13

\* What is printed of the lines after the first.
LEMMA AfterFirst ==
  ASSUME NEW lines \in Seq(Seq(Chars)), lines # <<>>
  PROVE  /\ LinesAfterFirst(lines, 0) = <<>>
         /\ \A n \in 1 .. (Len(lines) - 1) :
              LinesAfterFirst(lines, n) = LinesAfterFirst(lines, n - 1) \o <<"nl", "prefix">> \o lines[n + 1]
         /\ \A n \in 0 .. (Len(lines) - 1) : LinesAfterFirst(lines, n) \in Seq(Marks)
<1>1. PICK m \in Nat : m = Len(lines) - 1
  OBVIOUS
<1> DEFINE T == Seq(Marks)
           G == [p \in T \X Nat |-> IF p[2] \in 1 .. m THEN p[1] \o <<"nl", "prefix">> \o lines[p[2] + 1] ELSE p[1]]
<1>2. <<>> \in T /\ <<"nl", "prefix">> \in T
  BY DEF Marks, Chars
<1>3. \A k \in 1 .. m : lines[k + 1] \in T
  <2>1. \A k \in 1 .. m : lines[k + 1] \in Seq(Chars)
    BY <1>1
  <2>2. \A u \in Seq(Chars) : u \in Seq(Marks)
    BY DEF Marks
  <2> QED
    BY <2>1, <2>2, Zenon
<1>4. ASSUME NEW s \in T, NEW k \in 1 .. m PROVE s \o <<"nl", "prefix">> \o lines[k + 1] \in T
  <2>1. lines[k + 1] \in T
    BY <1>3
  <2> QED
    BY <1>2, <2>1, JoinedMarks
<1>5. G \in [T \X Nat -> T]
  <2>1. ASSUME NEW p \in T \X Nat
        PROVE  (IF p[2] \in 1 .. m THEN p[1] \o <<"nl", "prefix">> \o lines[p[2] + 1] ELSE p[1]) \in T
    <3>1. p[1] \in T
      OBVIOUS
    <3> HIDE DEF T
    <3> QED
      BY <1>4, <3>1
  <2> HIDE DEF T
  <2> QED
    BY <2>1
<1>6. PICK f : f \in [0 .. m -> T] /\ f[0] = <<>> /\ \A k \in 1 .. m : f[k] = G[<<f[k - 1], k>>]
  <2>1. PICK base \in T : base = <<>>
    BY <1>2
  <2>2. PICK g \in [T \X Nat -> T] : g = G
    BY <1>5
  <2> HIDE DEF T, G
  <2>3. PICK f : Unfolds(f, T, base, g, m)
    BY <1>1, Recursing
  <2> QED
    BY <2>1, <2>2, <2>3, Zenon DEF Unfolds
<1>7. ASSUME NEW k \in 1 .. m PROVE f[k] = f[k - 1] \o <<"nl", "prefix">> \o lines[k + 1]
  <2>1. k - 1 \in 0 .. m /\ k \in Nat
    BY <1>1
  <2>2. f[k - 1] \in T
    BY <1>6, <2>1
  <2>3. PICK p : p = <<f[k - 1], k>> /\ p \in T \X Nat /\ p[1] = f[k - 1] /\ p[2] = k
    <3> HIDE DEF T
    <3>1. <<f[k - 1], k>> \in T \X Nat /\ <<f[k - 1], k>>[1] = f[k - 1] /\ <<f[k - 1], k>>[2] = k
      BY <2>1, <2>2
    <3> QED
      BY <3>1, Zenon
  <2>4. G[p] = f[k - 1] \o <<"nl", "prefix">> \o lines[k + 1]
    <3> HIDE DEF T
    <3> QED
      BY <2>3
  <2> QED
    BY <1>6, <2>3, <2>4, Zenon
<1>8. f = [ii \in 0 .. Len(lines) - 1 |->
             IF ii = 0 THEN <<>> ELSE f[ii - 1] \o <<"nl", "prefix">> \o lines[ii + 1]]
  <2>1. ASSUME NEW n \in 0 .. m
        PROVE  f[n] = IF n = 0 THEN <<>> ELSE f[n - 1] \o <<"nl", "prefix">> \o lines[n + 1]
    <3>1. n = 0 \/ n \in 1 .. m
      BY <1>1
    <3> QED
      BY <1>6, <1>7, <3>1, Zenon
  <2>2. f = [n \in 0 .. m |-> f[n]]
    BY <1>6
  <2> QED
    BY <1>1, <2>1, <2>2, Zenon
<1>9. PICK printed : printed = CHOOSE q : q =
        [ii \in 0 .. Len(lines) - 1 |->
             IF ii = 0 THEN <<>> ELSE q[ii - 1] \o <<"nl", "prefix">> \o lines[ii + 1]]
  OBVIOUS
<1>10. \A n : LinesAfterFirst(lines, n) = printed[n]
  BY <1>9, Zenon DEF LinesAfterFirst
<1>11. printed = [ii \in 0 .. m |->
             IF ii = 0 THEN <<>> ELSE printed[ii - 1] \o <<"nl", "prefix">> \o lines[ii + 1]]
  BY <1>1, <1>8, <1>9, Zenon
<1>12. printed[0] = <<>> /\ \A n \in 1 .. m : printed[n] = printed[n - 1] \o <<"nl", "prefix">> \o lines[n + 1]
  <2>1. 0 \in 0 .. m /\ \A n \in 1 .. m : n \in 0 .. m /\ n # 0
    BY <1>1
  <2> QED
    BY <1>11, <2>1, Zenon
<1>13. ASSUME NEW n \in 0 .. m PROVE printed[n] \in T
  <2> DEFINE S == {k \in 0 .. m : printed[k] \in T}
  <2>1. 0 \in S
    <3>1. 0 \in 0 .. m
      BY <1>1
    <3> HIDE DEF T
    <3> QED
      BY <1>2, <1>12, <3>1, Zenon
  <2>2. ASSUME NEW k \in 0 .. (n - 1), k \in S PROVE k + 1 \in S
    <3>1. k + 1 \in 1 .. m /\ k + 1 \in 0 .. m /\ (k + 1) - 1 = k
      BY <1>1
    <3>2. printed[k + 1] = printed[k] \o <<"nl", "prefix">> \o lines[(k + 1) + 1]
      BY <1>12, <3>1
    <3>3. printed[k] \in T
      BY <2>2
    <3>4. printed[k] \o <<"nl", "prefix">> \o lines[(k + 1) + 1] \in T
      BY <1>4, <3>1, <3>3
    <3> HIDE DEF T
    <3> QED
      BY <3>1, <3>2, <3>4, Zenon
  <2>3. n \in Nat
    BY <1>1
  <2>4. n \in S
    <3> HIDE DEF S
    <3> QED
      BY <2>1, <2>2, <2>3, CountingUp
  <2> QED
    BY <2>4
<1> QED
  BY <1>1, <1>10, <1>12, <1>13, Zenon

\* It only depends on those lines.
LEMMA SameAfterFirst ==
  ASSUME NEW lines \in Seq(Seq(Chars)), NEW other \in Seq(Seq(Chars)), NEW n \in Nat,
         n < Len(lines), n < Len(other), \A i \in 1 .. (n + 1) : lines[i] = other[i]
  PROVE  LinesAfterFirst(lines, n) = LinesAfterFirst(other, n)
<1>1. lines # <<>> /\ other # <<>> /\ Len(lines) \in Nat /\ Len(other) \in Nat
  OBVIOUS
<1> DEFINE S == {k \in 0 .. n : LinesAfterFirst(lines, k) = LinesAfterFirst(other, k)}
<1>2. 0 \in S
  <2>1. LinesAfterFirst(lines, 0) = <<>> /\ LinesAfterFirst(other, 0) = <<>>
    BY <1>1, AfterFirst
  <2> QED
    BY <2>1
<1>3. ASSUME NEW k \in 0 .. (n - 1), k \in S PROVE k + 1 \in S
  <2>1. /\ k + 1 \in 1 .. (Len(lines) - 1) /\ k + 1 \in 1 .. (Len(other) - 1) /\ k + 1 \in 0 .. n
        /\ (k + 1) - 1 = k /\ (k + 1) + 1 \in 1 .. (n + 1)
    BY <1>1
  <2>2. lines[(k + 1) + 1] = other[(k + 1) + 1]
    BY <2>1
  <2>3. LinesAfterFirst(lines, k + 1) = LinesAfterFirst(lines, (k + 1) - 1) \o <<"nl", "prefix">> \o lines[(k + 1) + 1]
    BY <1>1, <2>1, AfterFirst
  <2>4. LinesAfterFirst(other, k + 1) = LinesAfterFirst(other, (k + 1) - 1) \o <<"nl", "prefix">> \o other[(k + 1) + 1]
    BY <1>1, <2>1, AfterFirst
  <2>5. LinesAfterFirst(lines, k) = LinesAfterFirst(other, k)
    BY <1>3
  <2>6. LinesAfterFirst(lines, k + 1) = LinesAfterFirst(other, k + 1)
    BY <2>1, <2>2, <2>3, <2>4, <2>5
  <2> QED
    BY <2>1, <2>6
<1>4. n \in S
  <2> HIDE DEF S
  <2> QED
    BY <1>2, <1>3, CountingUp
<1> QED
  BY <1>4

\* What one more empty line adds to what is printed.
LEMMA RestOfOneMore ==
  ASSUME NEW lines \in Seq(Seq(Chars)), NEW m \in Nat \ {0}, m = Len(lines)
  PROVE  /\ m = 1 => Rest(Append(lines, <<>>)) = <<"nl">>
         /\ m > 1 /\ lines[m] = <<>> =>
              Rest(Append(lines, <<>>)) = (Rest(lines) \o <<"prefix">>) \o <<"nl">>
         /\ m > 1 /\ lines[m] # <<>> => Rest(Append(lines, <<>>)) = Rest(lines) \o <<"nl">>
         /\ Rest(lines) \in Seq(Marks)
<1>0. lines # <<>>
  OBVIOUS
<1>1. PICK more \in Seq(Seq(Chars)) : more = Append(lines, <<>>)
  <2>1. <<>> \in Seq(Chars)
    OBVIOUS
  <2> QED
    BY <2>1, AppendProperties
<1>2. Len(more) = m + 1 /\ more[m + 1] = <<>> /\ \A i \in 1 .. m : more[i] = lines[i]
  BY <1>1
<1>3. PICK A \in Seq(Marks) : A = LinesAfterFirst(lines, m - 1)
  <2>1. m - 1 \in 0 .. (m - 1) /\ lines # <<>>
    OBVIOUS
  <2> QED
    BY <2>1, AfterFirst
<1>4. LinesAfterFirst(more, m - 1) = A
  <2>1. m - 1 \in Nat /\ m - 1 < Len(lines) /\ m - 1 < Len(more)
        /\ \A i \in 1 .. ((m - 1) + 1) : lines[i] = more[i]
    BY <1>2
  <2> QED
    BY <1>3, <2>1, SameAfterFirst
<1>5. Rest(more) = A \o <<"nl">>
  <2>1. Len(more) # 1 /\ Last(more) = <<>> /\ Len(more) - 2 = m - 1
    BY <1>2 DEF Last
  <2> QED
    BY <1>4, <2>1, Zenon DEF Rest
<1>6. <<"nl">> \in Seq(Marks) /\ <<"prefix">> \in Seq(Marks) /\ <<"nl", "prefix">> \in Seq(Marks)
  BY DEF Marks, Chars
<1>7. CASE m = 1
  <2>1. A = <<>>
    <3>1. m - 1 = 0
      BY <1>7
    <3> QED
      BY <1>0, <1>3, <3>1, AfterFirst
  <2>2. <<>> \o <<"nl">> = <<"nl">>
    OBVIOUS
  <2>3. Rest(lines) = <<>> /\ <<>> \in Seq(Marks)
    BY <1>7 DEF Rest
  <2> QED
    BY <1>1, <1>5, <1>7, <2>1, <2>2, <2>3
<1>8. CASE m > 1
  <2>1. PICK B \in Seq(Marks) : B = LinesAfterFirst(lines, m - 2)
    <3>1. m - 2 \in 0 .. (m - 1) /\ lines # <<>>
      BY <1>8
    <3> QED
      BY <3>1, AfterFirst
  <2>2. A = B \o <<"nl", "prefix">> \o lines[m]
    <3>1. m - 1 \in 1 .. (Len(lines) - 1) /\ (m - 1) - 1 = m - 2 /\ (m - 1) + 1 = m /\ lines # <<>>
      BY <1>8
    <3>2. LinesAfterFirst(lines, m - 1) = LinesAfterFirst(lines, (m - 1) - 1) \o <<"nl", "prefix">> \o lines[(m - 1) + 1]
      BY <3>1, AfterFirst
    <3> QED
      BY <1>3, <2>1, <3>1, <3>2
  <2>3. CASE lines[m] = <<>>
    <3>1. Rest(lines) = B \o <<"nl">>
      <4>1. Len(lines) # 1 /\ Last(lines) = <<>> /\ Len(lines) - 2 = m - 2
        BY <1>8, <2>3 DEF Last
      <4> QED
        BY <2>1, <4>1, Zenon DEF Rest
    <3>2. A = Rest(lines) \o <<"prefix">>
      <4>1. <<"nl", "prefix">> = <<"nl">> \o <<"prefix">>
        OBVIOUS
      <4>2. PICK C \in Seq(Marks) : C = B \o <<"nl", "prefix">>
        BY <1>6, JoinedMarks
      <4>3. A = C
        BY <2>2, <2>3, <4>2, JoinedMarks
      <4>4. C = (B \o <<"nl">>) \o <<"prefix">>
        BY <1>6, <4>1, <4>2, JoinedMarks
      <4> QED
        BY <3>1, <4>3, <4>4
    <3>3. Rest(lines) \in Seq(Marks)
      BY <1>6, <3>1, JoinedMarks
    <3> QED
      BY <1>1, <1>5, <1>8, <2>3, <3>2, <3>3
  <2>4. CASE lines[m] # <<>>
    <3>1. Rest(lines) = A
      <4>1. Len(lines) # 1 /\ Last(lines) # <<>> /\ Len(lines) - 1 = m - 1
        <5>1. Len(lines) # 1 /\ Len(lines) - 1 = m - 1
          <6>1. m # 1
            BY ONLY <1>8, m \in Nat
          <6> QED
            BY <6>1, Zenon
        <5>2. Last(lines) = lines[m]
          BY DEF Last
        <5> QED
          BY <2>4, <5>1, <5>2, Zenon
      <4> QED
        BY <1>3, <4>1, Zenon DEF Rest
    <3>2. m # 1
      BY ONLY <1>8, m \in Nat
    <3> QED
      BY <1>1, <1>3, <1>5, <2>4, <3>1, <3>2, Zenon
  <2> QED
    BY <2>3, <2>4
<1>9. m = 1 \/ m > 1
  BY ONLY m \in Nat \ {0}
<1> QED
  BY <1>7, <1>8, <1>9, Zenon

\* What a longer last line adds to what is printed.
LEMMA RestOfGrown ==
  ASSUME NEW lines \in Seq(Seq(Chars)), NEW m \in Nat \ {0}, m = Len(lines), NEW c \in Chars,
         NEW more \in Seq(Seq(Chars)), Len(more) = m, more[m] = Append(lines[m], c),
         \A i \in 1 .. (m - 1) : more[i] = lines[i]
  PROVE  /\ m = 1 => Rest(more) = <<>>
         /\ m > 1 /\ lines[m] = <<>> => Rest(more) = (Rest(lines) \o <<"prefix">>) \o <<c>>
         /\ m > 1 /\ lines[m] # <<>> => Rest(more) = Rest(lines) \o <<c>>
<1>0. lines # <<>> /\ more # <<>>
  OBVIOUS
<1>1. lines[m] \in Seq(Chars)
  OBVIOUS
<1>2. Append(lines[m], c) = lines[m] \o <<c>> /\ Append(lines[m], c) # <<>>
  <2>1. PICK e \in Seq(Chars) : e = lines[m]
    BY <1>1
  <2>2. Append(e, c) = e \o <<c>>
    BY AppendIsConcat, Zenon
  <2>3. Append(e, c) # <<>>
    BY ONLY e \in Seq(Chars), c \in Chars, AppendProperties
  <2> QED
    BY <2>1, <2>2, <2>3, Zenon
<1>3. <<"nl">> \in Seq(Marks) /\ <<"prefix">> \in Seq(Marks) /\ <<"nl", "prefix">> \in Seq(Marks)
      /\ <<c>> \in Seq(Marks) /\ <<"nl", "prefix">> = <<"nl">> \o <<"prefix">>
  BY DEF Marks, Chars
<1>4. lines[m] \in Seq(Marks)
  BY <1>1 DEF Marks
<1>5. CASE m = 1
  BY <1>5 DEF Rest
<1>6. CASE m > 1
  <2>0. m # 1
    BY ONLY <1>6, m \in Nat
  <2>1. PICK B \in Seq(Marks) : B = LinesAfterFirst(lines, m - 2)
    <3>1. m - 2 \in 0 .. (m - 1)
      BY <1>6
    <3> QED
      BY <1>0, <3>1, AfterFirst
  <2>2. LinesAfterFirst(more, m - 2) = B
    <3>1. m - 2 \in Nat /\ m - 2 < Len(lines) /\ m - 2 < Len(more)
          /\ \A i \in 1 .. ((m - 2) + 1) : lines[i] = more[i]
      BY <1>6
    <3> QED
      BY <2>1, <3>1, SameAfterFirst
  <2>3. /\ LinesAfterFirst(lines, m - 1) = (B \o <<"nl", "prefix">>) \o lines[m]
        /\ LinesAfterFirst(more, m - 1) = (B \o <<"nl", "prefix">>) \o more[m]
    <3>1. m - 1 \in 1 .. (Len(lines) - 1) /\ m - 1 \in 1 .. (Len(more) - 1)
          /\ (m - 1) - 1 = m - 2 /\ (m - 1) + 1 = m
      BY <1>6
    <3>2. LinesAfterFirst(lines, m - 1) = LinesAfterFirst(lines, (m - 1) - 1) \o <<"nl", "prefix">> \o lines[(m - 1) + 1]
      BY <1>0, <3>1, AfterFirst
    <3>3. LinesAfterFirst(more, m - 1) = LinesAfterFirst(more, (m - 1) - 1) \o <<"nl", "prefix">> \o more[(m - 1) + 1]
      BY <1>0, <3>1, AfterFirst
    <3> QED
      BY <2>1, <2>2, <3>1, <3>2, <3>3
  <2>4. Rest(more) = (B \o <<"nl", "prefix">>) \o (lines[m] \o <<c>>)
    <3>1. Len(more) # 1 /\ Last(more) # <<>> /\ Len(more) - 1 = m - 1
      BY <1>2, <2>0 DEF Last
    <3>2. Rest(more) = LinesAfterFirst(more, m - 1)
      BY <3>1, Zenon DEF Rest
    <3> QED
      BY <1>2, <2>3, <3>2
  <2>5. PICK C \in Seq(Marks) : C = B \o <<"nl", "prefix">>
    BY <1>3, JoinedMarks
  <2>6. CASE lines[m] = <<>>
    <3>1. Rest(lines) = B \o <<"nl">>
      <4>1. Len(lines) # 1 /\ Last(lines) = <<>> /\ Len(lines) - 2 = m - 2
        BY <2>0, <2>6 DEF Last
      <4> QED
        BY <2>1, <4>1, Zenon DEF Rest
    <3>2. C = Rest(lines) \o <<"prefix">>
      BY <1>3, <2>5, <3>1, JoinedMarks
    <3>3. Rest(more) = C \o <<c>>
      <4>1. lines[m] \o <<c>> = <<c>>
        BY <1>3, <2>6, JoinedMarks
      <4> QED
        BY <2>4, <2>5, <4>1
    <3> QED
      BY <2>0, <2>6, <3>2, <3>3, Zenon
  <2>7. CASE lines[m] # <<>>
    <3>1. Rest(lines) = C \o lines[m]
      <4>1. Len(lines) # 1 /\ Last(lines) # <<>> /\ Len(lines) - 1 = m - 1
        BY <2>0, <2>7 DEF Last
      <4>2. Rest(lines) = LinesAfterFirst(lines, m - 1)
        BY <4>1, Zenon DEF Rest
      <4> QED
        BY <2>3, <2>5, <4>2
    <3>2. Rest(more) = (C \o lines[m]) \o <<c>>
      <4>1. PICK l \in Seq(Marks) : l = lines[m]
        BY <1>4
      <4>2. PICK k \in Seq(Marks) : k = <<c>>
        BY <1>3
      <4>3. C \o (l \o k) = (C \o l) \o k
        BY ONLY C \in Seq(Marks), l \in Seq(Marks), k \in Seq(Marks), Regroup
      <4> QED
        BY <2>4, <2>5, <4>1, <4>2, <4>3, Zenon
    <3> QED
      BY <2>0, <2>7, <3>1, <3>2, Zenon
  <2> QED
    BY <2>6, <2>7
<1> QED
  BY <1>5, <1>6

\* What sync() writes of the first n characters of a text, whose lines are these, if a
\* prefix is needed before the first.
BySync(needed, n, lines) ==
  ((IF needed /\ n > 0 THEN <<"prefix">> ELSE <<>>) \o lines[1]) \o Rest(lines)

\* The marks a character needs.
Mark(starts, c) == (IF starts THEN <<"prefix">> ELSE <<>>) \o <<c>>

\* After n characters in m lines comes c, which starts a line or does not.
OneMore(needed, n, c, lines, m, more, starts) ==
  /\ m = Len(lines)
  /\ n = 0 => m = 1 /\ lines[1] = <<>>
  /\ n > 0 /\ m = 1 => lines[1] # <<>>
  /\ more = IF c = "nl" THEN Append(lines, <<>>) ELSE [lines EXCEPT ![Len(lines)] = Append(@, c)]
  /\ starts <=> IF n = 0 THEN needed ELSE lines[m] = <<>>

\* One more character is written with its prefix if it starts a line.
LEMMA WrittenOneMore ==
  ASSUME NEW needed \in BOOLEAN, NEW n \in Nat, NEW c \in Chars,
         NEW lines \in Seq(Seq(Chars)), NEW m \in Nat \ {0}, NEW more, NEW starts \in BOOLEAN,
         OneMore(needed, n, c, lines, m, more, starts)
  PROVE  /\ BySync(needed, n + 1, more) = BySync(needed, n, lines) \o Mark(starts, c)
         /\ BySync(needed, n, lines) \in Seq(Marks)
<1>0. /\ m = Len(lines)
      /\ n = 0 => m = 1 /\ lines[1] = <<>>
      /\ n > 0 /\ m = 1 => lines[1] # <<>>
      /\ more = IF c = "nl" THEN Append(lines, <<>>) ELSE [lines EXCEPT ![Len(lines)] = Append(@, c)]
      /\ starts <=> IF n = 0 THEN needed ELSE lines[m] = <<>>
  BY Zenon DEF OneMore
<1> USE <1>0
<1>1. lines[1] \in Seq(Marks) /\ lines[m] \in Seq(Chars) /\ lines[1] \in Seq(Chars)
  BY DEF Marks
<1>2. <<"prefix">> \in Seq(Marks) /\ <<c>> \in Seq(Marks) /\ <<>> \in Seq(Marks)
  BY DEF Marks, Chars
<1>3. PICK R \in Seq(Marks) : R = Rest(lines)
  BY RestOfOneMore
<1>4. PICK F \in Seq(Marks) : F = IF needed THEN <<"prefix">> ELSE <<>>
  BY <1>2
<1>12. PICK p \in Seq(Marks) : p = <<"prefix">>
  BY <1>2
<1>13. PICK k \in Seq(Marks) : k = <<c>>
  BY <1>2
<1>14. PICK d \in Seq(Marks) : d = p \o k
  BY JoinedMarks
<1>15. (R \o p) \o k = R \o d
  BY ONLY <1>14, R \in Seq(Marks), p \in Seq(Marks), k \in Seq(Marks), JoinedMarks
<1>5. n + 1 > 0 /\ (n = 0 \/ n > 0) /\ ~(n = 0 /\ n > 0) /\ (m = 1 \/ m > 1)
  OBVIOUS
<1>6. n = 0 => m = 1 /\ R = <<>> /\ BySync(needed, n, lines) = <<>>
  <2> SUFFICES ASSUME n = 0 PROVE m = 1 /\ R = <<>> /\ BySync(needed, n, lines) = <<>>
    OBVIOUS
  <2>1. m = 1 /\ lines[1] = <<>> /\ ~(n > 0)
    OBVIOUS
  <2>2. R = <<>>
    BY <1>3, <2>1 DEF Rest
  <2>3. <<>> \o <<>> = <<>>
    OBVIOUS
  <2> QED
    BY <1>3, <2>1, <2>2, <2>3, Zenon DEF BySync
<1>7. n > 0 => BySync(needed, n, lines) = (F \o lines[1]) \o R
  BY <1>3, <1>4, Zenon DEF BySync
<1>8. BySync(needed, n, lines) \in Seq(Marks)
  <2>1. (F \o lines[1]) \o R \in Seq(Marks)
    BY <1>1, <1>3, <1>4, JoinedMarks
  <2> QED
    BY <1>2, <1>5, <1>6, <1>7, <2>1, Zenon
<1>9. BySync(needed, n + 1, more) = (F \o more[1]) \o Rest(more)
  BY <1>4, <1>5, Zenon DEF BySync
<1>10. CASE c = "nl"
  <2>1. more = Append(lines, <<>>) /\ more[1] = lines[1]
    BY <1>10
  <2>2. CASE n = 0
    <3>1. m = 1 /\ lines[1] = <<>> /\ Rest(more) = <<c>>
      BY <1>10, <2>1, <2>2, RestOfOneMore
    <3>2. (F \o <<>>) \o <<c>> = <<>> \o (F \o <<c>>)
      BY <1>2, <1>4, JoinedMarks
    <3>3. Mark(starts, c) = F \o <<c>>
      BY <1>4, <2>2 DEF Mark
    <3> QED
      BY <1>6, <1>8, <1>9, <2>1, <2>2, <3>1, <3>2, <3>3, Zenon
  <2>3. CASE n > 0
    <3>1. PICK W \in Seq(Marks) : W = F \o lines[1]
      BY <1>1, <1>4, JoinedMarks
    <3>2. BySync(needed, n, lines) = W \o R
      BY <1>7, <2>3, <3>1
    <3>3. ~(n = 0)
      BY <1>5, <2>3
    <3>4. CASE starts
      <4>1. m > 1 /\ lines[m] = <<>>
        BY <1>5, <2>3, <3>3, <3>4
      <4>2. Rest(more) = (R \o <<"prefix">>) \o <<c>>
        BY <1>3, <1>10, <2>1, <4>1, RestOfOneMore
      <4>3. Mark(starts, c) = <<"prefix">> \o <<c>>
        BY <3>4, Zenon DEF Mark
      <4>4. W \o (R \o d) = (W \o R) \o d
        BY Regroup, Zenon
      <4>5. W \o Rest(more) = (W \o R) \o (<<"prefix">> \o <<c>>)
        BY <1>12, <1>13, <1>14, <1>15, <4>2, <4>4, Zenon
      <4> QED
        BY <1>8, <1>9, <2>1, <3>1, <3>2, <4>3, <4>5, Zenon
    <3>5. CASE ~starts
      <4>1. lines[m] # <<>>
        BY <3>3, <3>5
      <4>2. Rest(more) = R \o <<c>>
        <5>1. CASE m = 1
          <6>1. R = <<>> /\ Rest(more) = <<c>>
            BY <1>3, <1>10, <2>1, <5>1, RestOfOneMore DEF Rest
          <6> QED
            BY <1>2, <6>1, JoinedMarks
        <5>2. CASE m > 1
          BY <1>3, <1>10, <2>1, <4>1, <5>2, RestOfOneMore
        <5> QED
          BY <1>5, <5>1, <5>2
      <4>3. Mark(starts, c) = <<c>>
        <5>1. <<>> \o <<c>> = <<c>>
          BY <1>2, JoinedMarks
        <5> QED
          BY <3>5, <5>1, Zenon DEF Mark
      <4>4. W \o Rest(more) = (W \o R) \o <<c>>
        <5>1. W \o (R \o k) = (W \o R) \o k
          BY Regroup, Zenon
        <5> QED
          BY <1>13, <4>2, <5>1, Zenon
      <4> QED
        BY <1>8, <1>9, <2>1, <3>1, <3>2, <4>3, <4>4, Zenon
    <3> QED
      BY <3>4, <3>5
  <2> QED
    BY <1>5, <2>2, <2>3
<1>11. CASE c # "nl"
  <2>0. PICK e \in Seq(Chars) : e = Append(lines[m], c) /\ e = lines[m] \o <<c>>
    <3>1. PICK d1 \in Seq(Chars) : d1 = lines[m]
      BY <1>1, Zenon
    <3>2. Append(d1, c) \in Seq(Chars)
      BY ONLY d1 \in Seq(Chars), c \in Chars, AppendProperties
    <3>3. Append(d1, c) = d1 \o <<c>>
      BY AppendIsConcat, Zenon
    <3> QED
      BY <3>1, <3>2, <3>3, Zenon
  <2>1. more = [lines EXCEPT ![m] = e]
    BY <1>11, <2>0, Zenon
  <2>2. /\ more \in Seq(Seq(Chars)) /\ Len(more) = m
        /\ \A j \in 1 .. m : more[j] = IF j = m THEN e ELSE lines[j]
    <3>1. m \in 1 .. Len(lines)
      OBVIOUS
    <3>2. Len([lines EXCEPT ![m] = e]) = Len(lines)
      BY <3>1, ExceptSeq
    <3>3. [lines EXCEPT ![m] = e] \in Seq(Seq(Chars))
      BY <3>1, ExceptSeq
    <3>4. \A j \in 1 .. m : [lines EXCEPT ![m] = e][j] = IF j = m THEN e ELSE lines[j]
      <4>1. 1 .. m = 1 .. Len(lines)
        BY Zenon
      <4>2. \A j \in 1 .. Len(lines) : [lines EXCEPT ![m] = e][j] = IF j = m THEN e ELSE lines[j]
        BY ONLY <3>1, lines \in Seq(Seq(Chars)), e \in Seq(Chars), ExceptSeq
      <4> QED
        BY <4>1, <4>2, Zenon
    <3> QED
      BY <2>1, <3>2, <3>3, <3>4
  <2>3. more[m] = Append(lines[m], c) /\ \A i \in 1 .. (m - 1) : more[i] = lines[i]
    BY <2>0, <2>2
  <2>4. /\ m = 1 => Rest(more) = <<>>
        /\ m > 1 /\ lines[m] = <<>> => Rest(more) = (R \o <<"prefix">>) \o <<c>>
        /\ m > 1 /\ lines[m] # <<>> => Rest(more) = R \o <<c>>
    <3>1. more \in Seq(Seq(Chars))
      BY <2>2
    <3>2. Len(more) = m
      BY <2>2
    <3>3. more[m] = Append(lines[m], c)
      BY <2>3
    <3>4. \A i \in 1 .. (m - 1) : more[i] = lines[i]
      BY <2>3
    <3>5. m = Len(lines)
      OBVIOUS
    <3>6. /\ m = 1 => Rest(more) = <<>>
          /\ m > 1 /\ lines[m] = <<>> => Rest(more) = (Rest(lines) \o <<"prefix">>) \o <<c>>
          /\ m > 1 /\ lines[m] # <<>> => Rest(more) = Rest(lines) \o <<c>>
      BY ONLY <3>1, <3>2, <3>3, <3>4, <3>5, c \in Chars, lines \in Seq(Seq(Chars)),
              m \in Nat \ {0}, RestOfGrown
    <3> QED
      BY <1>3, <3>6, Zenon
  <2>5. CASE n = 0
    <3>1. m = 1 /\ lines[1] = <<>> /\ Rest(more) = <<>>
      BY <2>4, <2>5
    <3>2. more[1] = <<c>>
      <4>1. <<>> \o <<c>> = <<c>>
        BY <1>2, JoinedMarks
      <4> QED
        BY <2>0, <2>2, <3>1, <4>1
    <3>3. (F \o <<c>>) \o <<>> = <<>> \o (F \o <<c>>)
      <4>1. F \o <<c>> \in Seq(Marks)
        BY <1>2, <1>4, JoinedMarks
      <4> QED
        BY <4>1, JoinedMarks
    <3>4. Mark(starts, c) = F \o <<c>>
      BY <1>4, <2>5 DEF Mark
    <3> QED
      BY <1>6, <1>8, <1>9, <2>5, <3>1, <3>2, <3>3, <3>4, Zenon
  <2>6. CASE n > 0
    <3>1. ~(n = 0)
      BY <1>5, <2>6
    <3>2. CASE m = 1
      <4>1. ~starts /\ R = <<>> /\ Rest(more) = <<>>
        <5>1. ~starts
          BY <2>6, <3>1, <3>2
        <5>2. R = <<>>
          BY <1>3, <3>2 DEF Rest
        <5> QED
          BY <2>4, <3>2, <5>1, <5>2
      <4>2. more[1] = lines[1] \o <<c>>
        BY <2>0, <2>2, <3>2
      <4>3. PICK W \in Seq(Marks) : W = F \o lines[1]
        BY <1>1, <1>4, JoinedMarks
      <4>4. F \o (lines[1] \o <<c>>) = W \o <<c>> /\ W \o <<c>> \in Seq(Marks)
        <5>1. PICK l \in Seq(Marks) : l = lines[1]
          BY <1>1
        <5>2. F \o (l \o k) = (F \o l) \o k
          BY Regroup, ZenonT(60)
        <5>3. W \o k \in Seq(Marks)
          BY JoinedMarks
        <5> QED
          BY <1>13, <4>3, <5>1, <5>2, <5>3, Zenon
      <4>5. (F \o more[1]) \o Rest(more) = W \o <<c>>
        BY <4>1, <4>2, <4>4, JoinedMarks
      <4>6. BySync(needed, n, lines) = W
        BY <1>7, <2>6, <4>1, <4>3, JoinedMarks
      <4>7. Mark(starts, c) = <<c>>
        <5>1. <<>> \o <<c>> = <<c>>
          BY <1>2, JoinedMarks
        <5> QED
          BY <4>1, <5>1, Zenon DEF Mark
      <4> QED
        BY <1>8, <1>9, <4>5, <4>6, <4>7, Zenon
    <3>3. CASE m > 1
      <4>0. more[1] = lines[1]
        <5>1. 1 \in 1 .. m /\ 1 # m
          BY ONLY <3>3, m \in Nat
        <5> QED
          BY <2>2, <5>1
      <4>1. PICK W \in Seq(Marks) : W = F \o lines[1]
        BY <1>1, <1>4, JoinedMarks
      <4>2. BySync(needed, n, lines) = W \o R
        BY <1>7, <2>6, <4>1
      <4>3. CASE starts
        <5>1. lines[m] = <<>>
          BY <3>1, <4>3
        <5>2. Rest(more) = (R \o <<"prefix">>) \o <<c>>
          BY <2>4, <3>3, <5>1
        <5>3. Mark(starts, c) = <<"prefix">> \o <<c>>
          BY <4>3, Zenon DEF Mark
        <5>4. W \o (R \o d) = (W \o R) \o d
          BY Regroup, Zenon
        <5>5. W \o Rest(more) = (W \o R) \o (<<"prefix">> \o <<c>>)
          BY <1>12, <1>13, <1>14, <1>15, <5>2, <5>4, Zenon
        <5> QED
          BY <1>8, <1>9, <4>0, <4>1, <4>2, <5>3, <5>5, Zenon
      <4>4. CASE ~starts
        <5>1. lines[m] # <<>>
          BY <3>1, <4>4
        <5>2. Rest(more) = R \o <<c>>
          BY <2>4, <3>3, <5>1
        <5>3. Mark(starts, c) = <<c>>
          <6>1. <<>> \o <<c>> = <<c>>
            BY <1>2, JoinedMarks
          <6> QED
            BY <4>4, <6>1, Zenon DEF Mark
        <5>4. W \o Rest(more) = (W \o R) \o <<c>>
          <6>1. W \o (R \o k) = (W \o R) \o k
            BY Regroup, Zenon
          <6> QED
            BY <1>13, <5>2, <6>1, Zenon
        <5> QED
          BY <1>8, <1>9, <4>0, <4>1, <4>2, <5>3, <5>4, Zenon
      <4> QED
        BY <4>3, <4>4
    <3> QED
      BY <1>5, <3>2, <3>3
  <2> QED
    BY <1>5, <2>5, <2>6
<1> QED
  BY <1>8, <1>10, <1>11

\* Which of the first lines are empty.
LEMMA LastLines ==
  ASSUME NEW str \in Seq(Chars), NEW lines, LinesOf(lines, str), NEW n \in 1 .. Len(str)
  PROVE  /\ lines[n][Len(lines[n])] = <<>> <=> str[n] = "nl"
         /\ Len(lines[n]) = 1 => lines[n][1] # <<>>
<1>1. n - 1 \in 0 .. Len(str) /\ str[n] \in Chars
  OBVIOUS
<1>2. PICK l \in Seq(Seq(Chars)) : l = lines[n - 1] /\ l # <<>>
  BY <1>1 DEF LinesOf
<1>3. PICK m \in Nat \ {0} : m = Len(l)
  BY <1>2
<1>4. lines[n] = IF str[n] = "nl" THEN Append(l, <<>>) ELSE [l EXCEPT ![Len(l)] = Append(@, str[n])]
  BY <1>2, Zenon DEF LinesOf
<1>5. CASE str[n] = "nl"
  <2>1. lines[n] = Append(l, <<>>)
    BY <1>4, <1>5, Zenon
  <2>2. Len(lines[n]) = m + 1 /\ lines[n][m + 1] = <<>> /\ m + 1 # 1
    BY <1>3, <2>1
  <2> QED
    BY <1>5, <2>2
<1>6. CASE str[n] # "nl"
  <2>1. l[m] \in Seq(Chars)
    BY <1>3
  <2>2. PICK e \in Seq(Chars) : e = Append(l[m], str[n]) /\ e # <<>>
    BY <1>1, <2>1, AppendProperties
  <2>3. lines[n] = [l EXCEPT ![m] = e]
    BY <1>3, <1>4, <1>6, <2>2, Zenon
  <2>4. m \in 1 .. Len(l)
    BY <1>3
  <2>5. Len([l EXCEPT ![m] = e]) = Len(l)
    BY <2>4, ExceptSeq
  <2>6. \A j \in 1 .. m : [l EXCEPT ![m] = e][j] = IF j = m THEN e ELSE l[j]
    BY <1>3, <2>4, ExceptSeq
  <2>7. Len(lines[n]) = m /\ lines[n][m] = e
    BY <1>3, <2>3, <2>5, <2>6
  <2> QED
    BY <1>6, <2>2, <2>7
<1> QED
  BY <1>5, <1>6

\* What is shown of the first characters of a text.
ShownOf(shown, str) ==
  /\ shown[0] = <<>>
  /\ \A n \in 1 .. Len(str) :
       shown[n] = shown[n - 1] \o (IF LineStarts(str, n) THEN <<"prefix">> ELSE <<>>) \o <<str[n]>>
  /\ \A n \in 0 .. Len(str) : shown[n] \in Seq(Marks)

\* All of the text is shown with its prefixes.
LEMMA ShownLines ==
  ASSUME NEW str \in Seq(Chars)
  PROVE  \E shown : ShownOf(shown, str) /\ Prefixed(str) = shown[Len(str)]
<1>1. PICK m \in Nat : m = Len(str)
  OBVIOUS
<1> DEFINE T == Seq(Marks)
           Next(s, n) == s \o (IF LineStarts(str, n) THEN <<"prefix">> ELSE <<>>) \o <<str[n]>>
           G == [p \in T \X Nat |-> IF p[2] \in 1 .. m THEN Next(p[1], p[2]) ELSE p[1]]
<1>2. <<>> \in T /\ <<"prefix">> \in T
  BY DEF Marks
<1>3. \A k \in 1 .. m : <<str[k]>> \in T
  <2>1. ASSUME NEW k \in 1 .. m PROVE <<str[k]>> \in T
    <3>1. PICK c \in Marks : c = str[k]
      BY <1>1 DEF Marks
    <3>2. <<c>> \in Seq(Marks)
      OBVIOUS
    <3> QED
      BY <3>1, <3>2
  <2> QED
    BY <2>1
<1>4. ASSUME NEW s \in T, NEW k \in 1 .. m PROVE Next(s, k) \in T
  <2>1. <<str[k]>> \in T
    BY <1>3
  <2>2. PICK p \in T : p = IF LineStarts(str, k) THEN <<"prefix">> ELSE <<>>
    BY <1>2
  <2>3. (s \o p) \o <<str[k]>> \in T
    BY <2>1, JoinedMarks
  <2> QED
    BY <2>2, <2>3, Zenon
<1>5. G \in [T \X Nat -> T]
  <2>1. ASSUME NEW p \in T \X Nat
        PROVE  (IF p[2] \in 1 .. m THEN Next(p[1], p[2]) ELSE p[1]) \in T
    <3>1. p[1] \in T
      OBVIOUS
    <3> HIDE DEF T, Next
    <3> QED
      BY <1>4, <3>1
  <2> HIDE DEF T, Next
  <2> QED
    BY <2>1
<1>6. PICK f : f \in [0 .. m -> T] /\ f[0] = <<>> /\ \A k \in 1 .. m : f[k] = G[<<f[k - 1], k>>]
  <2>1. PICK base \in T : base = <<>>
    BY <1>2
  <2>2. PICK g \in [T \X Nat -> T] : g = G
    BY <1>5
  <2> HIDE DEF T, G
  <2>3. PICK f : Unfolds(f, T, base, g, m)
    BY <1>1, Recursing
  <2> QED
    BY <2>1, <2>2, <2>3, Zenon DEF Unfolds
<1>7. ASSUME NEW k \in 1 .. m PROVE f[k] = Next(f[k - 1], k)
  <2>1. k - 1 \in 0 .. m /\ k \in Nat
    BY <1>1
  <2>2. f[k - 1] \in T
    BY <1>6, <2>1
  <2>3. PICK p : p = <<f[k - 1], k>> /\ p \in T \X Nat /\ p[1] = f[k - 1] /\ p[2] = k
    <3> HIDE DEF T
    <3>1. <<f[k - 1], k>> \in T \X Nat /\ <<f[k - 1], k>>[1] = f[k - 1] /\ <<f[k - 1], k>>[2] = k
      BY <2>1, <2>2
    <3> QED
      BY <3>1, Zenon
  <2>4. G[p] = Next(f[k - 1], k)
    <3> HIDE DEF T, Next
    <3> QED
      BY <2>3
  <2> QED
    BY <1>6, <2>3, <2>4, Zenon
<1>8. f = [n \in 0 .. Len(str) |->
             IF n = 0 THEN <<>>
             ELSE f[n - 1] \o (IF LineStarts(str, n) THEN <<"prefix">> ELSE <<>>) \o <<str[n]>>]
  <2>1. ASSUME NEW n \in 0 .. m
        PROVE  f[n] = IF n = 0 THEN <<>> ELSE Next(f[n - 1], n)
    <3>1. n = 0 \/ n \in 1 .. m
      BY <1>1
    <3> QED
      BY <1>6, <1>7, <3>1, Zenon
  <2>2. f = [n \in 0 .. m |-> f[n]]
    BY <1>6
  <2> QED
    BY <1>1, <2>1, <2>2, Zenon
<1>9. PICK shown : shown = CHOOSE q : q =
        [n \in 0 .. Len(str) |->
             IF n = 0 THEN <<>>
             ELSE q[n - 1] \o (IF LineStarts(str, n) THEN <<"prefix">> ELSE <<>>) \o <<str[n]>>]
  OBVIOUS
<1>10. Prefixed(str) = shown[Len(str)]
  BY <1>9, Zenon DEF Prefixed
<1>11. shown = [n \in 0 .. m |-> IF n = 0 THEN <<>> ELSE Next(shown[n - 1], n)]
  BY <1>1, <1>8, <1>9, Zenon
<1>12. shown[0] = <<>> /\ \A n \in 1 .. m : shown[n] = Next(shown[n - 1], n)
  <2>1. 0 \in 0 .. m /\ \A n \in 1 .. m : n \in 0 .. m /\ n # 0
    BY <1>1
  <2> QED
    BY <1>11, <2>1, Zenon
<1>13. ASSUME NEW n \in 0 .. m PROVE shown[n] \in T
  <2> DEFINE S == {k \in 0 .. m : shown[k] \in T}
  <2>1. 0 \in S
    <3>1. 0 \in 0 .. m
      BY <1>1
    <3> HIDE DEF T
    <3> QED
      BY <1>2, <1>12, <3>1, Zenon
  <2>2. ASSUME NEW k \in 0 .. (n - 1), k \in S PROVE k + 1 \in S
    <3>1. k + 1 \in 1 .. m /\ k + 1 \in 0 .. m /\ (k + 1) - 1 = k
      BY <1>1
    <3>2. shown[k + 1] = Next(shown[k], k + 1)
      BY <1>12, <3>1
    <3>3. shown[k] \in T
      BY <2>2
    <3>4. Next(shown[k], k + 1) \in T
      BY <1>4, <3>1, <3>3
    <3> HIDE DEF T, Next
    <3> QED
      BY <3>1, <3>2, <3>4, Zenon
  <2>3. n \in Nat
    BY <1>1
  <2>4. n \in S
    <3> HIDE DEF S
    <3> QED
      BY <2>1, <2>2, <2>3, CountingUp
  <2> QED
    BY <2>4
<1>14. ShownOf(shown, str)
  BY <1>1, <1>12, <1>13, Zenon DEF ShownOf
<1> QED
  BY <1>10, <1>14

\* One more character is shown with its prefix if it starts a line.
LEMMA ShownOneMore ==
  ASSUME NEW str \in Seq(Chars), NEW shown, ShownOf(shown, str), NEW n \in 1 .. Len(str)
  PROVE  /\ shown[n] = shown[n - 1] \o Mark(LineStarts(str, n), str[n])
         /\ Mark(LineStarts(str, n), str[n]) \in Seq(Marks)
<1>1. PICK s \in Seq(Marks) : s = shown[n - 1]
  <2>1. n - 1 \in 0 .. Len(str)
    OBVIOUS
  <2> QED
    BY <2>1, Zenon DEF ShownOf
<1>2. <<>> \in Seq(Marks) /\ <<"prefix">> \in Seq(Marks)
  BY DEF Marks
<1>3. PICK p \in Seq(Marks) : p = IF LineStarts(str, n) THEN <<"prefix">> ELSE <<>>
  BY <1>2
<1>4. PICK k \in Seq(Marks) : k = <<str[n]>>
  <2>1. PICK c \in Marks : c = str[n]
    BY DEF Marks
  <2>2. <<c>> \in Seq(Marks)
    OBVIOUS
  <2> QED
    BY <2>1, <2>2
<1>5. s \o (p \o k) = (s \o p) \o k
  BY Regroup, Zenon
<1>6. p \o k \in Seq(Marks)
  BY JoinedMarks
<1>7. Mark(LineStarts(str, n), str[n]) = p \o k
  BY <1>3, <1>4, Zenon DEF Mark
<1>8. shown[n] = (s \o p) \o k
  BY <1>1, <1>3, <1>4, Zenon DEF ShownOf
<1> QED
  BY <1>1, <1>5, <1>6, <1>7, <1>8, Zenon

\* Where the first of two texts ended decides whether the second starts with a prefix.
LEMMA Cut ==
  ASSUME NEW a \in Seq(Chars), NEW b \in Seq(Chars), NEW needed \in BOOLEAN,
         needed <=> (a = <<>> \/ a[Len(a)] = "nl")
  PROVE  /\ Prefixed(a \o b) = Prefixed(a) \o BySync(needed, Len(b), tokenize(b))
         /\ Prefixed(a) \in Seq(Marks)
<1>1. PICK str \in Seq(Chars) : str = a \o b
  BY ConcatProperties
<1>2. PICK A \in Nat : A = Len(a)
  OBVIOUS
<1>3. PICK M \in Nat : M = Len(b)
  OBVIOUS
<1>4. /\ Len(str) = A + M
      /\ \A i \in 1 .. A : str[i] = a[i]
      /\ \A i \in 1 .. M : str[A + i] = b[i]
  BY <1>1, <1>2, <1>3, ConcatProperties
<1>5. PICK whole : ShownOf(whole, str) /\ Prefixed(str) = whole[Len(str)]
  BY ShownLines
<1>6. PICK start : ShownOf(start, a) /\ Prefixed(a) = start[Len(a)]
  BY ShownLines
<1>7. PICK lines : LinesOf(lines, b) /\ tokenize(b) = lines[Len(b)]
  BY Tokenized
<1>8. whole[A] = start[A]
  <2> DEFINE S == {k \in 0 .. A : whole[k] = start[k]}
  <2>1. 0 \in S
    <3>1. whole[0] = start[0]
      BY <1>5, <1>6 DEF ShownOf
    <3> QED
      BY <3>1
  <2>2. ASSUME NEW k \in 0 .. (A - 1), k \in S PROVE k + 1 \in S
    <3>1. k + 1 \in 1 .. Len(str) /\ k + 1 \in 1 .. Len(a) /\ (k + 1) - 1 = k
      BY <1>2, <1>4
    <3>2. str[k + 1] = a[k + 1] /\ (k # 0 => str[k] = a[k])
      BY <1>2, <1>4
    <3>3. LineStarts(str, k + 1) <=> LineStarts(a, k + 1)
      BY <3>1, <3>2 DEF LineStarts
    <3>4. Mark(LineStarts(str, k + 1), str[k + 1]) = Mark(LineStarts(a, k + 1), a[k + 1])
      BY <3>2, <3>3, Zenon DEF Mark
    <3>5. whole[k + 1] = whole[(k + 1) - 1] \o Mark(LineStarts(str, k + 1), str[k + 1])
      BY <1>5, <3>1, ShownOneMore
    <3>6. start[k + 1] = start[(k + 1) - 1] \o Mark(LineStarts(a, k + 1), a[k + 1])
      BY <1>6, <3>1, ShownOneMore
    <3>7. whole[k + 1] = start[k + 1]
      BY <2>2, <3>1, <3>4, <3>5, <3>6
    <3> QED
      BY <1>2, <3>1, <3>7
  <2>3. A \in S
    <3> HIDE DEF S
    <3> QED
      BY <2>1, <2>2, CountingUp
  <2> QED
    BY <2>3
<1>9. PICK P \in Seq(Marks) : P = Prefixed(a)
  <2>1. Len(a) \in 0 .. Len(a)
    BY <1>2
  <2> QED
    BY <1>6, <2>1, Zenon DEF ShownOf
<1>10. whole[A] = P
  BY <1>2, <1>6, <1>8, <1>9
<1> DEFINE S == {k \in 0 .. M : whole[A + k] = P \o BySync(needed, k, lines[k])}
<1>11. 0 \in S
  <2>1. lines[0] = << <<>> >> /\ Len(lines[0]) = 1 /\ lines[0][1] = <<>>
    BY <1>7 DEF LinesOf
  <2>2. Rest(lines[0]) = <<>>
    BY <2>1 DEF Rest
  <2>3. ~(0 > 0) /\ (<<>> \o <<>>) \o <<>> = <<>>
    OBVIOUS
  <2>4. BySync(needed, 0, lines[0]) = <<>>
    BY <2>1, <2>2, <2>3, Zenon DEF BySync
  <2>5. P \o <<>> = P
    BY JoinedMarks
  <2>6. whole[A + 0] = P \o BySync(needed, 0, lines[0])
    BY <1>10, <2>4, <2>5
  <2> QED
    BY <2>6
<1>12. ASSUME NEW k \in 0 .. (M - 1), k \in S PROVE k + 1 \in S
  <2>1. PICK n \in Nat : n = k /\ n + 1 \in 1 .. M /\ n \in 0 .. Len(b) /\ n + 1 \in 1 .. Len(b)
                         /\ (n + 1) - 1 = n
    BY <1>3
  <2>2. PICK c \in Chars : c = b[n + 1]
    BY <2>1
  <2>3. PICK l \in Seq(Seq(Chars)) : l = lines[n] /\ l # <<>>
    BY <1>7, <2>1, Zenon DEF LinesOf
  <2>4. PICK m \in Nat \ {0} : m = Len(l)
    BY <2>3
  <2>5. PICK more : more = lines[n + 1]
                    /\ more = IF c = "nl" THEN Append(l, <<>>) ELSE [l EXCEPT ![Len(l)] = Append(@, c)]
    BY <1>7, <2>1, <2>2, <2>3, Zenon DEF LinesOf
  <2>6. n = 0 => m = 1 /\ l[1] = <<>>
    <3>1. n = 0 => l = << <<>> >>
      BY <1>7, <2>3 DEF LinesOf
    <3>2. Len(<< <<>> >>) = 1 /\ << <<>> >>[1] = <<>>
      OBVIOUS
    <3> QED
      BY <2>4, <3>1, <3>2, Zenon
  <2>7. n > 0 => n \in 1 .. Len(b) /\ n \in 1 .. M
    BY <1>3, <2>1
  <2>8. n > 0 => (l[m] = <<>> <=> b[n] = "nl") /\ (m = 1 => l[1] # <<>>)
    BY <1>7, <2>3, <2>4, <2>7, LastLines
  <2>9. PICK starts \in BOOLEAN : starts = LineStarts(str, A + (n + 1))
    <3>1. LineStarts(str, A + (n + 1)) \in BOOLEAN
      BY DEF LineStarts
    <3> QED
      BY <3>1
  <2>10. starts <=> IF n = 0 THEN needed ELSE l[m] = <<>>
    <3>1. LineStarts(str, A + (n + 1)) <=> (A + n = 0 \/ str[A + n] = "nl")
      <4>1. (A + (n + 1) = 1 <=> A + n = 0) /\ (A + (n + 1)) - 1 = A + n
        OBVIOUS
      <4> QED
        BY <4>1 DEF LineStarts
    <3>2. CASE n = 0
      <4>1. A = 0 <=> a = <<>>
        BY <1>2
      <4>2. A # 0 => str[A] = a[A]
        BY <1>4
      <4>3. A + n = A
        BY <3>2
      <4> QED
        BY <1>2, <2>9, <3>1, <3>2, <4>1, <4>2, <4>3
    <3>3. CASE n > 0
      <4>1. A + n # 0 /\ n # 0
        BY <3>3
      <4>2. str[A + n] = b[n]
        BY <1>4, <2>7, <3>3
      <4> QED
        BY <2>8, <2>9, <3>1, <3>3, <4>1, <4>2
    <3> QED
      BY <3>2, <3>3
  <2>11. /\ BySync(needed, n + 1, more) = BySync(needed, n, l) \o Mark(starts, c)
         /\ BySync(needed, n, l) \in Seq(Marks)
    <3>1. n > 0 /\ m = 1 => l[1] # <<>>
      BY <2>8
    <3>2. m = Len(l)
      BY <2>4
    <3>3. more = IF c = "nl" THEN Append(l, <<>>) ELSE [l EXCEPT ![Len(l)] = Append(@, c)]
      BY <2>5
    <3>4. OneMore(needed, n, c, l, m, more, starts)
      BY <2>6, <2>10, <3>1, <3>2, <3>3, Zenon DEF OneMore
    <3> QED
      BY ONLY <3>4, n \in Nat, c \in Chars, m \in Nat \ {0}, l \in Seq(Seq(Chars)),
              starts \in BOOLEAN, needed \in BOOLEAN, WrittenOneMore
  <2>12. A + (n + 1) \in 1 .. Len(str) /\ (A + (n + 1)) - 1 = A + n /\ str[A + (n + 1)] = c
    <3>1. n + 1 \in 1 .. M
      BY <2>1, Zenon
    <3>2. A + (n + 1) \in 1 .. (A + M) /\ (A + (n + 1)) - 1 = A + n
      BY ONLY <3>1, A \in Nat, M \in Nat, n \in Nat
    <3> QED
      BY <1>4, <2>2, <3>1, <3>2, Zenon
  <2>13. /\ whole[A + (n + 1)] = whole[A + n] \o Mark(starts, c)
         /\ Mark(starts, c) \in Seq(Marks)
    <3>1. PICK at \in 1 .. Len(str) : at = A + (n + 1)
      BY <2>12, Zenon
    <3>2. /\ whole[at] = whole[at - 1] \o Mark(LineStarts(str, at), str[at])
          /\ Mark(LineStarts(str, at), str[at]) \in Seq(Marks)
      BY <1>5, ShownOneMore, Zenon
    <3> QED
      BY <2>9, <2>12, <3>1, <3>2, Zenon
  <2>14. PICK w \in Seq(Marks) : w = BySync(needed, n, l)
    BY <2>11
  <2>15. PICK k1 \in Seq(Marks) : k1 = Mark(starts, c)
    BY <2>13
  <2>16. P \o (w \o k1) = (P \o w) \o k1
    BY Regroup, Zenon
  <2>17. whole[A + n] = P \o w
    BY <1>12, <2>1, <2>3, <2>14
  <2>18. whole[A + (n + 1)] = P \o BySync(needed, n + 1, lines[n + 1])
    BY <2>5, <2>11, <2>13, <2>14, <2>15, <2>16, <2>17, Zenon
  <2> QED
    BY <2>1, <2>18
<1>13. M \in S
  <2> HIDE DEF S
  <2> QED
    BY <1>11, <1>12, CountingUp
<1>14. whole[A + M] = P \o BySync(needed, M, lines[M])
  BY <1>13
<1> QED
  BY <1>1, <1>3, <1>4, <1>5, <1>7, <1>9, <1>14

\* The prefix sync() starts with, and whether the next one needs one.
FirstOf(needed, str) == IF needed /\ str # <<>> THEN <<"prefix">> ELSE <<>>

NeededAfter(needed, str) ==
  (needed /\ str = <<>>) \/ (Len(tokenize(str)) > 1 /\ Last(tokenize(str)) = <<>>)

\* What sync() leaves of its stretch of the text: all of it written, and a prefix needed
\* exactly if the text so far ends with a line.
LEMMA Synced ==
  ASSUME NEW a \in Seq(Chars), NEW b \in Seq(Chars), NEW needed \in BOOLEAN,
         needed <=> (a = <<>> \/ a[Len(a)] = "nl")
  PROVE  /\ Prefixed(a \o b) = Prefixed(a) \o FirstOf(needed, b) \o tokenize(b)[1] \o Rest(tokenize(b))
         /\ NeededAfter(needed, b) \in BOOLEAN
         /\ NeededAfter(needed, b) <=> (a \o b = <<>> \/ (a \o b)[Len(a \o b)] = "nl")
         /\ a \o b \in Seq(Chars)
<1>11. PICK lines : lines = tokenize(b)
  OBVIOUS
<1>12. PICK first : first = FirstOf(needed, b) /\ first = IF needed /\ b # <<>> THEN <<"prefix">> ELSE <<>>
  BY Zenon DEF FirstOf
<1>13. PICK next : /\ next = NeededAfter(needed, b)
                   /\ next = ((needed /\ b = <<>>) \/ (Len(lines) > 1 /\ Last(lines) = <<>>))
  BY <1>11, Zenon DEF NeededAfter
<1>1. PICK str \in Seq(Chars) : str = a \o b
  BY ConcatProperties
<1>2. PICK A \in Nat, M \in Nat : A = Len(a) /\ M = Len(b)
  OBVIOUS
<1>3. Len(str) = A + M /\ \A i \in 1 .. M : str[A + i] = b[i]
  BY <1>1, <1>2, ConcatProperties
<1>4. PICK l : LinesOf(l, b) /\ lines = l[M]
  BY <1>2, <1>11, Tokenized
<1>5. lines \in Seq(Seq(Chars)) /\ lines # <<>>
  <2>1. M \in 0 .. Len(b)
    BY <1>2
  <2> QED
    BY <1>4, <2>1, Zenon DEF LinesOf
<1>6. PICK m \in Nat \ {0} : m = Len(lines)
  BY <1>5
<1>7. Prefixed(str) = Prefixed(a) \o first \o lines[1] \o Rest(lines)
  <2>1. Prefixed(str) = Prefixed(a) \o BySync(needed, M, lines) /\ Prefixed(a) \in Seq(Marks)
    BY <1>1, <1>2, <1>11, Cut
  <2>2. first = IF needed /\ M > 0 THEN <<"prefix">> ELSE <<>>
    <3>1. M > 0 <=> b # <<>>
      BY <1>2
    <3> QED
      BY <1>12, <3>1, Zenon
  <2>3. PICK P \in Seq(Marks) : P = Prefixed(a)
    BY <2>1
  <2>4. PICK F \in Seq(Marks) : F = first
    <3>1. <<>> \in Seq(Marks) /\ <<"prefix">> \in Seq(Marks)
      BY DEF Marks
    <3> QED
      BY <1>12, <3>1, Zenon
  <2>5. PICK L \in Seq(Marks) : L = lines[1]
    <3>1. lines[1] \in Seq(Chars)
      BY <1>5
    <3> QED
      BY <3>1 DEF Marks
  <2>6. PICK R \in Seq(Marks) : R = Rest(lines)
    BY <1>5, <1>6, RestOfOneMore
  <2>7. PICK w \in Seq(Marks) : w = F \o L
    BY JoinedMarks
  <2>8. P \o (F \o L) = (P \o F) \o L
    BY Regroup, Zenon
  <2>9. P \o (w \o R) = (P \o w) \o R
    BY Regroup, Zenon
  <2>10. BySync(needed, M, lines) = w \o R
    BY <2>2, <2>4, <2>5, <2>6, <2>7, Zenon DEF BySync
  <2> QED
    BY <2>1, <2>3, <2>4, <2>5, <2>6, <2>7, <2>8, <2>9, <2>10, Zenon
<1>8. next \in BOOLEAN
  BY <1>13
<1>9. CASE M = 0
  <2>1. b = <<>> /\ str = a
    <3>1. b = <<>>
      BY ONLY <1>2, <1>9, b \in Seq(Chars), EmptySeq
    <3>2. a \o <<>> = a
      BY ConcatEmptySeq, Zenon
    <3> QED
      BY <1>1, <3>1, <3>2, Zenon
  <2>2. lines = << <<>> >>
    BY <1>4, <1>9 DEF LinesOf
  <2>3. ~(Len(lines) > 1)
    BY <2>2
  <2>4. next <=> needed
    BY <1>13, <2>1, <2>3, Zenon
  <2> QED
    BY <1>1, <1>7, <1>8, <1>11, <1>12, <1>13, <2>1, <2>4, Zenon
<1>10. CASE M # 0
  <2>1. M \in 1 .. Len(b) /\ b # <<>> /\ str # <<>>
    BY <1>2, <1>3, <1>10
  <2>2. str[Len(str)] = b[M]
    BY <1>2, <1>3, <2>1
  <2>3. (lines[Len(lines)] = <<>> <=> b[M] = "nl") /\ (Len(lines) = 1 => lines[1] # <<>>)
    BY <1>4, <2>1, LastLines
  <2>4. Last(lines) = lines[Len(lines)]
    BY DEF Last
  <2>5. Len(lines) > 1 \/ Len(lines) = 1
    BY <1>6
  <2>6. ~(Len(lines) > 1 /\ Len(lines) = 1)
    <3>1. ~(m > 1 /\ m = 1)
      BY ONLY m \in Nat
    <3> QED
      BY <1>6, <3>1, Zenon
  <2>7. next <=> str[Len(str)] = "nl"
    BY <1>13, <2>1, <2>2, <2>3, <2>4, <2>5, <2>6, Zenon
  <2> QED
    BY <1>1, <1>7, <1>8, <1>11, <1>12, <1>13, <2>1, <2>7, Zenon
<1> QED
  BY <1>9, <1>10

\* A prefix is needed exactly at the start of a line.
PrefixIInv ==
  /\ text \in Seq(Chars) /\ synced \in Seq(Chars) /\ prefix_needed_ \in BOOLEAN
  /\ prefix_needed_ <=> (synced = <<>> \/ synced[Len(synced)] = "nl")
  /\ EveryLinePrefixed

\* Every line starts with elapsed time and prefix, whatever sync() cuts the text into.
THEOREM LinesArePrefixed == PrefixSpec => []EveryLinePrefixed
<1>1. PrefixInit => PrefixIInv
  <2> SUFFICES ASSUME PrefixInit PROVE PrefixIInv
    OBVIOUS
  <2>1. <<>> \in Seq(Chars) /\ Len(<<>>) = 0
    OBVIOUS
  <2>2. PICK shown : ShownOf(shown, <<>>) /\ Prefixed(<<>>) = shown[Len(<<>>)]
    BY <2>1, ShownLines
  <2>3. Prefixed(<<>>) = <<>>
    BY <2>1, <2>2, Zenon DEF ShownOf
  <2> QED
    BY <2>1, <2>3 DEF PrefixInit, PrefixIInv, EveryLinePrefixed
<1>2. PrefixIInv /\ [PrefixNext]_prefixVars => PrefixIInv'
  <2> SUFFICES ASSUME PrefixIInv, [PrefixNext]_prefixVars PROVE PrefixIInv'
    OBVIOUS
  <2>1. CASE sync
    <3>1. PICK a \in Seq(Chars), b \in Seq(Chars), needed \in BOOLEAN :
            a = synced /\ b = text /\ needed = prefix_needed_
      BY DEF PrefixIInv
    <3>2. needed <=> (a = <<>> \/ a[Len(a)] = "nl")
      BY <3>1 DEF PrefixIInv
    <3>3. /\ Prefixed(a \o b) = Prefixed(a) \o FirstOf(needed, b) \o tokenize(b)[1] \o Rest(tokenize(b))
          /\ NeededAfter(needed, b) \in BOOLEAN
          /\ NeededAfter(needed, b) <=> (a \o b = <<>> \/ (a \o b)[Len(a \o b)] = "nl")
          /\ a \o b \in Seq(Chars)
      BY <3>2, Synced
    <3>4. out_ = Prefixed(a)
      BY <3>1, Zenon DEF PrefixIInv, EveryLinePrefixed
    <3>5. /\ out_' = Prefixed(a) \o FirstOf(needed, b) \o tokenize(b)[1] \o Rest(tokenize(b))
          /\ prefix_needed_' = NeededAfter(needed, b) /\ synced' = a \o b /\ text' = <<>>
      BY <2>1, <3>1, <3>4, Zenon DEF sync, FirstOf, NeededAfter
    <3>6. <<>> \in Seq(Chars)
      OBVIOUS
    <3>7. out_' = Prefixed(a \o b)
      BY <3>3, <3>5, Zenon
    <3> QED
      BY <3>3, <3>5, <3>6, <3>7, Zenon DEF PrefixIInv, EveryLinePrefixed
  <2>2. ASSUME NEW c \in Chars, Write(c) PROVE PrefixIInv'
    <3>1. text' \in Seq(Chars)
      BY <2>2 DEF Write, PrefixIInv
    <3> QED
      BY <2>2, <3>1, Zenon DEF Write, PrefixIInv, EveryLinePrefixed
  <2>3. CASE UNCHANGED prefixVars
    BY <2>3, Zenon DEF prefixVars, PrefixIInv, EveryLinePrefixed
  <2> QED
    BY <2>1, <2>2, <2>3 DEF PrefixNext
<1>3. PrefixIInv => EveryLinePrefixed
  BY DEF PrefixIInv
<1> QED
  BY <1>1, <1>2, <1>3, PTL DEF PrefixSpec

-----------------------------------------------------------------------------
(* ConvergenceStudy                                                        *)

\* The first ids that pass the filter.
KeptOf(ret, ids, only) ==
  /\ ret[0] = <<>>
  /\ \A n \in 1 .. Len(ids) :
       ret[n] = IF only = {} \/ ids[n] \in only THEN Append(ret[n - 1], ids[n]) ELSE ret[n - 1]
  /\ \A n \in 0 .. Len(ids) : ret[n] \in Seq(STRING)

\* filter() looks at all of the ids.
LEMMA FilterGoesThrough ==
  ASSUME NEW ids \in Seq(STRING), NEW only
  PROVE  \E ret : KeptOf(ret, ids, only) /\ Filtered(ids, only) = ret[Len(ids)]
<1>1. PICK m \in Nat : m = Len(ids)
  OBVIOUS
<1> DEFINE T == Seq(STRING)
           Next(s, n) == IF only = {} \/ ids[n] \in only THEN Append(s, ids[n]) ELSE s
           G == [p \in T \X Nat |-> IF p[2] \in 1 .. m THEN Next(p[1], p[2]) ELSE p[1]]
<1>2. <<>> \in T
  OBVIOUS
<1>3. \A k \in 1 .. m : ids[k] \in STRING
  BY <1>1
<1>4. ASSUME NEW s \in T, NEW k \in 1 .. m PROVE Next(s, k) \in T
  <2>1. Append(s, ids[k]) \in T
    BY <1>3, AppendProperties
  <2> QED
    BY <2>1, Zenon
<1>5. G \in [T \X Nat -> T]
  <2>1. ASSUME NEW p \in T \X Nat
        PROVE  (IF p[2] \in 1 .. m THEN Next(p[1], p[2]) ELSE p[1]) \in T
    <3>1. p[1] \in T
      OBVIOUS
    <3> HIDE DEF T, Next
    <3> QED
      BY <1>4, <3>1
  <2> HIDE DEF T, Next
  <2> QED
    BY <2>1
<1>6. PICK f : f \in [0 .. m -> T] /\ f[0] = <<>> /\ \A k \in 1 .. m : f[k] = G[<<f[k - 1], k>>]
  <2>1. PICK base \in T : base = <<>>
    BY <1>2
  <2>2. PICK g \in [T \X Nat -> T] : g = G
    BY <1>5
  <2> HIDE DEF T, G
  <2>3. PICK f : Unfolds(f, T, base, g, m)
    BY <1>1, Recursing
  <2> QED
    BY <2>1, <2>2, <2>3, Zenon DEF Unfolds
<1>7. ASSUME NEW k \in 1 .. m PROVE f[k] = Next(f[k - 1], k)
  <2>1. k - 1 \in 0 .. m /\ k \in Nat
    BY <1>1
  <2>2. f[k - 1] \in T
    BY <1>6, <2>1
  <2>3. PICK p : p = <<f[k - 1], k>> /\ p \in T \X Nat /\ p[1] = f[k - 1] /\ p[2] = k
    <3> HIDE DEF T
    <3>1. <<f[k - 1], k>> \in T \X Nat /\ <<f[k - 1], k>>[1] = f[k - 1] /\ <<f[k - 1], k>>[2] = k
      BY <2>1, <2>2
    <3> QED
      BY <3>1, Zenon
  <2>4. G[p] = Next(f[k - 1], k)
    <3> HIDE DEF T, Next
    <3> QED
      BY <2>3
  <2> QED
    BY <1>6, <2>3, <2>4, Zenon
<1>8. f = [n \in 0 .. Len(ids) |->
             IF n = 0 THEN <<>>
             ELSE IF only = {} \/ ids[n] \in only THEN Append(f[n - 1], ids[n]) ELSE f[n - 1]]
  <2>1. ASSUME NEW n \in 0 .. m
        PROVE  f[n] = IF n = 0 THEN <<>> ELSE Next(f[n - 1], n)
    <3>1. n = 0 \/ n \in 1 .. m
      BY <1>1
    <3> QED
      BY <1>6, <1>7, <3>1, Zenon
  <2>2. f = [n \in 0 .. m |-> f[n]]
    BY <1>6
  <2> QED
    BY <1>1, <2>1, <2>2, Zenon
<1>9. PICK ret : ret = CHOOSE q : q =
        [n \in 0 .. Len(ids) |->
             IF n = 0 THEN <<>>
             ELSE IF only = {} \/ ids[n] \in only THEN Append(q[n - 1], ids[n]) ELSE q[n - 1]]
  OBVIOUS
<1>10. Filtered(ids, only) = ret[Len(ids)]
  BY <1>9, Zenon DEF Filtered
<1>11. ret = [n \in 0 .. m |-> IF n = 0 THEN <<>> ELSE Next(ret[n - 1], n)]
  BY <1>1, <1>8, <1>9, Zenon
<1>12. ret[0] = <<>> /\ \A n \in 1 .. m : ret[n] = Next(ret[n - 1], n)
  <2>1. 0 \in 0 .. m /\ \A n \in 1 .. m : n \in 0 .. m /\ n # 0
    BY <1>1
  <2> QED
    BY <1>11, <2>1, Zenon
<1>13. ASSUME NEW n \in 0 .. m PROVE ret[n] \in T
  <2> DEFINE S == {k \in 0 .. m : ret[k] \in T}
  <2>1. 0 \in S
    <3>1. 0 \in 0 .. m
      BY <1>1
    <3> HIDE DEF T
    <3> QED
      BY <1>2, <1>12, <3>1, Zenon
  <2>2. ASSUME NEW k \in 0 .. (n - 1), k \in S PROVE k + 1 \in S
    <3>1. k + 1 \in 1 .. m /\ k + 1 \in 0 .. m /\ (k + 1) - 1 = k
      BY <1>1
    <3>2. ret[k + 1] = Next(ret[k], k + 1)
      BY <1>12, <3>1
    <3>3. ret[k] \in T
      BY <2>2
    <3>4. Next(ret[k], k + 1) \in T
      BY <1>4, <3>1, <3>3
    <3> HIDE DEF T, Next
    <3> QED
      BY <3>1, <3>2, <3>4, Zenon
  <2>3. n \in Nat
    BY <1>1
  <2>4. n \in S
    <3> HIDE DEF S
    <3> QED
      BY <2>1, <2>2, <2>3, CountingUp
  <2> QED
    BY <2>4
<1>14. KeptOf(ret, ids, only)
  BY <1>1, <1>12, <1>13, Zenon DEF KeptOf
<1> QED
  BY <1>10, <1>14

\* filter() keeps what is asked for.
LEMMA FilterKeeps ==
  ASSUME NEW ids \in Seq(STRING), NEW only
  PROVE  /\ Filtered(ids, only) \in Seq(STRING)
         /\ \A id \in Range(ids) : only = {} \/ id \in only => id \in Range(Filtered(ids, only))
<1>1. PICK ret : KeptOf(ret, ids, only) /\ Filtered(ids, only) = ret[Len(ids)]
  BY FilterGoesThrough
<1>2. PICK m \in Nat : m = Len(ids)
  OBVIOUS
<1>3. \A n \in 0 .. m : ret[n] \in Seq(STRING)
  BY <1>1, <1>2, Zenon DEF KeptOf
<1> DEFINE S == {n \in 0 .. m : \A k \in 1 .. n :
                   only = {} \/ ids[k] \in only => \E i \in 1 .. Len(ret[n]) : ret[n][i] = ids[k]}
<1>4. 0 \in S
  OBVIOUS
<1>5. ASSUME NEW n \in 0 .. (m - 1), n \in S PROVE n + 1 \in S
  <2>1. n + 1 \in 1 .. m /\ n + 1 \in 0 .. m /\ (n + 1) - 1 = n /\ n \in 0 .. m
    BY <1>2
  <2>2. PICK r \in Seq(STRING) : r = ret[n]
    BY <1>3, <2>1
  <2>3. PICK id \in STRING : id = ids[n + 1]
    <3>1. n + 1 \in 1 .. Len(ids)
      BY <1>2, <2>1
    <3>2. ids[n + 1] \in STRING
      BY ONLY ids \in Seq(STRING), n + 1 \in 1 .. Len(ids)
    <3> QED
      BY <3>2, Zenon
  <2>4. ret[n + 1] = IF only = {} \/ id \in only THEN Append(r, id) ELSE r
    BY <1>1, <1>2, <2>1, <2>2, <2>3, Zenon DEF KeptOf
  <2>5. ASSUME NEW k \in 1 .. (n + 1), only = {} \/ ids[k] \in only
        PROVE  \E i \in 1 .. Len(ret[n + 1]) : ret[n + 1][i] = ids[k]
    <3>1. CASE k = n + 1
      <4>1. ret[n + 1] = Append(r, id)
        BY <2>3, <2>4, <2>5, <3>1, Zenon
      <4>2. Len(Append(r, id)) \in 1 .. Len(Append(r, id)) /\ Append(r, id)[Len(Append(r, id))] = id
        BY ONLY r \in Seq(STRING), id \in STRING, AppendProperties
      <4> QED
        BY <2>3, <3>1, <4>1, <4>2, Zenon
    <3>2. CASE k # n + 1
      <4>1. k \in 1 .. n
        BY <3>2
      <4>2. PICK i \in 1 .. Len(r) : r[i] = ids[k]
        BY <1>5, <2>2, <2>5, <4>1, Zenon
      <4>3. i \in 1 .. Len(Append(r, id)) /\ Append(r, id)[i] = r[i]
        BY ONLY r \in Seq(STRING), id \in STRING, i \in 1 .. Len(r), AppendProperties
      <4> QED
        BY <2>4, <4>2, <4>3, Zenon
    <3> QED
      BY <3>1, <3>2
  <2> QED
    BY <2>1, <2>5
<1>6. m \in S
  <2> HIDE DEF S
  <2> QED
    BY <1>4, <1>5, CountingUp
<1>7. Filtered(ids, only) \in Seq(STRING)
  <2>1. m \in 0 .. m
    OBVIOUS
  <2> QED
    BY <1>1, <1>2, <1>3, <2>1
<1>8. ASSUME NEW id \in Range(ids), only = {} \/ id \in only PROVE id \in Range(Filtered(ids, only))
  <2>1. PICK k \in 1 .. m : id = ids[k]
    BY <1>2 DEF Range
  <2>2. PICK i \in 1 .. Len(ret[m]) : ret[m][i] = ids[k]
    BY <1>6, <1>8, <2>1, Zenon
  <2>3. PICK r \in Seq(STRING) : r = ret[m]
    BY <1>1, <1>2, <1>7
  <2>4. DOMAIN r = 1 .. Len(r)
    OBVIOUS
  <2> QED
    BY <1>1, <1>2, <2>1, <2>2, <2>3, <2>4, Zenon DEF Range
<1> QED
  BY <1>7, <1>8

\* filter() keeps nothing else.
LEMMA FilterSelects ==
  ASSUME NEW ids \in Seq(STRING), NEW only, NEW id \in Range(Filtered(ids, only))
  PROVE  id \in Range(ids)
<1>1. PICK ret : KeptOf(ret, ids, only) /\ Filtered(ids, only) = ret[Len(ids)]
  BY FilterGoesThrough
<1>2. PICK m \in Nat : m = Len(ids)
  OBVIOUS
<1>3. \A n \in 0 .. m : ret[n] \in Seq(STRING)
  BY <1>1, <1>2, Zenon DEF KeptOf
<1> DEFINE S == {n \in 0 .. m : \A i \in 1 .. Len(ret[n]) : \E k \in 1 .. m : ret[n][i] = ids[k]}
<1>4. 0 \in S
  <2>1. ret[0] = <<>>
    BY <1>1, Zenon DEF KeptOf
  <2> QED
    BY <2>1
<1>5. ASSUME NEW n \in 0 .. (m - 1), n \in S PROVE n + 1 \in S
  <2>1. n + 1 \in 1 .. m /\ n + 1 \in 0 .. m /\ (n + 1) - 1 = n /\ n \in 0 .. m
    BY <1>2
  <2>2. PICK r \in Seq(STRING) : r = ret[n]
    BY <1>3, <2>1
  <2>3. PICK x \in STRING : x = ids[n + 1]
    <3>1. n + 1 \in 1 .. Len(ids)
      BY <1>2, <2>1
    <3>2. ids[n + 1] \in STRING
      BY ONLY ids \in Seq(STRING), n + 1 \in 1 .. Len(ids)
    <3> QED
      BY <3>2, Zenon
  <2>4. ret[n + 1] = Append(r, x) \/ ret[n + 1] = r
    BY <1>1, <1>2, <2>1, <2>2, <2>3, Zenon DEF KeptOf
  <2>5. CASE ret[n + 1] = r
    BY <1>5, <2>1, <2>2, <2>5, Zenon
  <2>6. CASE ret[n + 1] = Append(r, x)
    <3>1. ASSUME NEW i \in 1 .. Len(Append(r, x)) PROVE \E k \in 1 .. m : Append(r, x)[i] = ids[k]
      <4>1. CASE i \in 1 .. Len(r)
        <5>1. Append(r, x)[i] = r[i]
          BY ONLY r \in Seq(STRING), x \in STRING, i \in 1 .. Len(r), AppendProperties
        <5> QED
          BY <1>5, <2>2, <4>1, <5>1, Zenon
      <4>2. CASE i \notin 1 .. Len(r)
        <5>1. Append(r, x)[i] = x
          <6>1. Len(Append(r, x)) = Len(r) + 1 /\ Append(r, x)[Len(r) + 1] = x
            BY ONLY r \in Seq(STRING), x \in STRING, AppendProperties
          <6>2. i = Len(r) + 1
            BY <4>2, <6>1, LenProperties
          <6> QED
            BY <6>1, <6>2, Zenon
        <5> QED
          BY <2>1, <2>3, <5>1, Zenon
      <4> QED
        BY <4>1, <4>2
    <3> QED
      BY <2>1, <2>6, <3>1, Zenon
  <2> QED
    BY <2>4, <2>5, <2>6
<1>6. m \in S
  <2> HIDE DEF S
  <2> QED
    BY <1>4, <1>5, CountingUp
<1>7. PICK r \in Seq(STRING) : r = ret[m]
  <2>1. m \in 0 .. m
    OBVIOUS
  <2> QED
    BY <1>3, <2>1
<1>8. PICK i \in 1 .. Len(r) : id = r[i]
  <2>1. id \in Range(r)
    BY <1>1, <1>2, <1>7, Zenon
  <2> QED
    BY <2>1 DEF Range
<1>9. PICK k \in 1 .. m : id = ids[k]
  BY <1>6, <1>7, <1>8, Zenon
<1> QED
  BY <1>2, <1>9 DEF Range

\* The ids of a type, of the targets ts, norms ns and quantities qs.
IdsOf(type, ts, ns, qs) == IF type = "target" THEN ts ELSE IF type = "norm" THEN ns ELSE qs

\* A column to print: t targets, n norms and q quantities.
ColumnOf(c, t, n, q) ==
  \/ \E i \in 1 .. t : c = Column("target", i, 0)
  \/ \E i \in 1 .. n, j \in 0 .. t : c = Column("norm", i, j)
  \/ \E i \in 1 .. q : c = Column("quantity", i, 0)
  \/ c = EndOfRow

\* What has been printed of a row before a column, next to the title: w is the width of a
\* norm with its EOCs, e of one of these.
RowAt(c, t, n, q, w, e) ==
  IF c.type = "target" THEN 11 * (c.i - 1)
  ELSE IF c.type = "norm" THEN 11 * t + w * (c.i - 1) + (IF c.j = 0 THEN 0 ELSE 11 + e * (c.j - 1))
  ELSE IF c.type = "quantity" THEN 11 * t + w * n + 11 * (c.i - 1)
  ELSE 11 * t + w * n + 11 * q

\* The value of the k-th id of a type is printed before a column.
Before(type, k, c) ==
  \/ type = c.type /\ (k < c.i \/ (k = c.i /\ c.j > 0))
  \/ type = "target" /\ c.type \in {"norm", "quantity", "end"}
  \/ type = "norm" /\ c.type \in {"quantity", "end"}
  \/ type = "quantity" /\ c.type = "end"

\* The values that are printed before a column are among those given.
GivenBefore(given, c, ts, ns, qs) ==
  \A type \in Types : \A k \in 1 .. Len(IdsOf(type, ts, ns, qs)) :
    Before(type, k, c) => <<type, IdsOf(type, ts, ns, qs)[k]>> \in given

\* The calls there are.
Announced == {"discretization_info", "compute"} \X Nat

\* The calls up to a level.
CallsUpTo(cs, m) ==
  /\ cs \in Seq(Announced) /\ Len(cs) = 2 * m
  /\ \A i \in 1 .. (2 * m) :
       cs[i] = <<IF i % 2 = 1 THEN "discretization_info" ELSE "compute", (i - 1) \div 2>>

\* The data of the first m levels of a study.
DataUpTo(d, gives, m) == DOMAIN d = 0 .. (m - 1) /\ \A l \in 0 .. (m - 1) : d[l] = gives[l]

\* The levels that were computed.
Computed == IF level \in DOMAIN data THEN level + 1 ELSE level

\* A row in which printing goes on is aligned, and has its values so far.
RowIInv ==
  /\ ColumnOf(column, Len(ActualTargets), Len(ActualNorms), Len(ActualQuantities))
  /\ row = RowStart + RowAt(column, Len(ActualTargets), Len(ActualNorms), Len(ActualQuantities),
                                  11 + Len(ActualTargets) * Cell(eoc_column_width), Cell(eoc_column_width))
  /\ GivenBefore(study.gives[level], column, ActualTargets, ActualNorms, ActualQuantities)

\* The rows above have all of their values.
RowsAbove ==
  \A l \in 0 .. (level - 1) :
    GivenBefore(study.gives[l], EndOfRow, ActualTargets, ActualNorms, ActualQuantities)

\* The table goes on where it is aligned, and above this level it is full.
StudyIInv ==
  /\ study \in Studies /\ level \in 0 .. study.refinements
  /\ outcome \in {"start", "you_are_using_this_wrong", "undefined", "running",
                  "requirements_not_met", "done"}
  /\ DataUpTo(data, study.gives, Computed) /\ CallsUpTo(calls, Computed)
  /\ outcome = "start" => level \notin DOMAIN data
  /\ outcome \in {"running", "requirements_not_met", "done"} => study.targets # <<>>
  /\ (level \in DOMAIN data => RowIInv) /\ RowsAbove
  /\ outcome = "done" => level = study.refinements /\ level \in DOMAIN data /\ column = EndOfRow
  /\ EocsHaveData

\* What is asked for of a study are texts.
LEMMA ActualTexts ==
  ASSUME study \in Studies
  PROVE  /\ ActualTargets \in Seq(STRING) /\ ActualNorms \in Seq(STRING) /\ ActualQuantities \in Seq(STRING)
         /\ study.targets # <<>> => ActualTargets # <<>>
<1>1. study.targets \in Seq(STRING) /\ study.norms \in Seq(STRING) /\ study.quantities \in Seq(STRING)
  BY StudiesAssumption
<1>2. Filtered(study.targets, study.only) \in Seq(STRING)
  BY <1>1, FilterKeeps
<1>3. Filtered(study.norms, study.only) \in Seq(STRING)
  BY <1>1, FilterKeeps
<1>4. Filtered(study.quantities, study.only) \in Seq(STRING)
  BY <1>1, FilterKeeps
<1> QED
  BY <1>1, <1>2, <1>3, <1>4, Zenon DEF ActualTargets, ActualNorms, ActualQuantities

\* What is asked for is among what is computed; if no target is, all of them are.
LEMMA ActualsAreAsked ==
  ASSUME study \in Studies,
         NEW id \in UNION {Range(study.targets), Range(study.norms), Range(study.quantities)},
         study.only = {} \/ id \in study.only
  PROVE  id \in Range(ActualTargets) \/ id \in Range(ActualNorms) \/ id \in Range(ActualQuantities)
<1>1. study.targets \in Seq(STRING) /\ study.norms \in Seq(STRING) /\ study.quantities \in Seq(STRING)
  BY StudiesAssumption
<1>2. id \in Range(study.targets) => id \in Range(Filtered(study.targets, study.only))
  BY <1>1, FilterKeeps
<1>3. id \in Range(study.norms) => id \in Range(Filtered(study.norms, study.only))
  BY <1>1, FilterKeeps
<1>4. id \in Range(study.quantities) => id \in Range(Filtered(study.quantities, study.only))
  BY <1>1, FilterKeeps
<1>5. id \in Range(study.targets) \/ id \in Range(study.norms) \/ id \in Range(study.quantities)
  BY Zenon
<1> QED
  BY <1>2, <1>3, <1>4, <1>5, Zenon DEF ActualTargets, ActualNorms, ActualQuantities

\* Adding eleven as often as there are quantities.
LEMMA QuantitiesAreAdded ==
  ASSUME NEW r \in 1 .. 3, ActualQuantities \in Seq(STRING)
  PROVE  QuantitiesWidth(r) = 11 * Len(ActualQuantities)
<1>1. PICK q \in Nat : q = Len(ActualQuantities)
  OBVIOUS
<1>2. ASSUME NEW x PROVE Cell(QuantityHeader(x)[r]) = 11
  <2>1. r = 1 \/ r = 2 \/ r = 3
    OBVIOUS
  <2>2. QuantityHeader(x)[r] = 8
    BY <2>1 DEF QuantityHeader, column_width
  <2> QED
    BY <2>2 DEF Cell
<1>3. PICK f : f = [n \in 0 .. q |-> 11 * n]
  OBVIOUS
<1>4. f = [n \in 0 .. Len(ActualQuantities) |->
             IF n = 0 THEN 0 ELSE f[n - 1] + Cell(QuantityHeader(ActualQuantities[n])[r])]
  <2>1. ASSUME NEW n \in 0 .. q
        PROVE  11 * n = IF n = 0 THEN 0 ELSE f[n - 1] + Cell(QuantityHeader(ActualQuantities[n])[r])
    <3>1. CASE n = 0
      BY <3>1
    <3>2. CASE n # 0
      <4>1. n - 1 \in 0 .. q
        BY <3>2
      <4>2. f[n - 1] = 11 * (n - 1)
        BY <1>3, <4>1
      <4>3. Cell(QuantityHeader(ActualQuantities[n])[r]) = 11
        BY <1>2, Zenon
      <4> QED
        BY <3>2, <4>2, <4>3
    <3> QED
      BY <3>1, <3>2
  <2> QED
    BY <1>1, <1>3, <2>1, Zenon
<1>5. PICK sum : sum = CHOOSE g : g =
        [n \in 0 .. Len(ActualQuantities) |->
          IF n = 0 THEN 0 ELSE g[n - 1] + Cell(QuantityHeader(ActualQuantities[n])[r])]
  OBVIOUS
<1>6. QuantitiesWidth(r) = sum[q]
  BY <1>1, <1>5, Zenon DEF QuantitiesWidth
<1>7. ASSUME NEW n \in 0 .. q PROVE sum[n] = IF n = 0 THEN 0 ELSE sum[n - 1] + 11
  <2>1. sum = [k \in 0 .. Len(ActualQuantities) |->
               IF k = 0 THEN 0 ELSE sum[k - 1] + Cell(QuantityHeader(ActualQuantities[k])[r])]
    BY <1>4, <1>5, Zenon
  <2>2. sum[n] = IF n = 0 THEN 0 ELSE sum[n - 1] + Cell(QuantityHeader(ActualQuantities[n])[r])
    BY <1>1, <2>1, Zenon
  <2>3. Cell(QuantityHeader(ActualQuantities[n])[r]) = 11
    BY <1>2, Zenon
  <2> QED
    BY <2>2, <2>3, Zenon
<1> DEFINE S == {n \in 0 .. q : sum[n] = 11 * n}
<1>8. 0 \in S
  <2>1. 0 \in 0 .. q
    OBVIOUS
  <2>2. sum[0] = 0
    BY <1>7, <2>1, Zenon
  <2> QED
    BY <2>1, <2>2
<1>9. ASSUME NEW n \in 0 .. (q - 1), n \in S PROVE n + 1 \in S
  <2>1. n + 1 \in 0 .. q /\ (n + 1) # 0 /\ (n + 1) - 1 = n
    OBVIOUS
  <2>2. sum[n + 1] = sum[n] + 11
    BY <1>7, <2>1, Zenon
  <2> QED
    BY <1>9, <2>1, <2>2
<1>10. q \in S
  <2> HIDE DEF S
  <2> QED
    BY <1>8, <1>9, CountingUp
<1> QED
  BY <1>1, <1>6, <1>10

\* The width of a cell with an EOC.
LEMMA EocWidth == Cell(eoc_column_width) \in Nat
  BY DEF Cell, eoc_column_width

\* The rows of the header are as wide as a row of numbers.
LEMMA HeadersAgree ==
  ASSUME study \in Studies, NEW i \in 1 .. 4
  PROVE  HeaderWidths[i] =
           TitleWidth + 2 + RowAt(EndOfRow, Len(ActualTargets), Len(ActualNorms), Len(ActualQuantities),
                                  11 + Len(ActualTargets) * Cell(eoc_column_width), Cell(eoc_column_width))
<1>1. PICK t \in Nat, n \in Nat, q \in Nat :
        t = Len(ActualTargets) /\ n = Len(ActualNorms) /\ q = Len(ActualQuantities)
  BY ActualTexts
<1>2. PICK e \in Nat : e = Cell(eoc_column_width) /\ 1 + eoc_column_width + 2 = e
  BY EocWidth DEF Cell, eoc_column_width
<1>3. PICK te \in Nat, w \in Nat : te = t * e /\ w = 11 + te
  OBVIOUS
<1>4. PICK nw \in Nat, nt \in Nat, nte \in Nat : nw = n * w /\ nt = n * t /\ nte = n * te
  OBVIOUS
<1>5. nw = 11 * n + nte
  BY <1>3, <1>4
<1>6. nt * e = nte
  BY <1>3, <1>4
<1>7. w * n = nw
  BY <1>4
<1>8. \A r \in 1 .. 3 : QuantitiesWidth(r) = 11 * q
  BY <1>1, ActualTexts, QuantitiesAreAdded
<1>9. PICK T \in Nat : T = TitleWidth
  BY StudiesAssumption
<1>10. RowAt(EndOfRow, t, n, q, w, e) = 11 * t + nw + 11 * q
  BY <1>7 DEF RowAt, EndOfRow, Column
<1>11. HeaderWidths =
    << 2 + T + t * 11 + n * (3 + (8 + te)) + 11 * q,
       T + 2 + t * 11 + n * (11 + te) + 11 * q,
       1 + T + 1 + t * 11 + n * (11 + te) + 11 * q,
       T + 2 + (t + n + q) * 11 + nt * e >>
  <2>1. Cell(column_width) = 11 /\ column_width = 8 /\ \A x : Cell(x) = 3 + x
    BY DEF Cell, column_width
  <2>2. t * (8 + 3) = t * 11 /\ 1 + 8 + 2 = 11
    OBVIOUS
  <2>3. QuantitiesWidth(1) = 11 * q /\ QuantitiesWidth(2) = 11 * q /\ QuantitiesWidth(3) = 11 * q
    BY <1>8
  <2>4. 8 + 3 = 11
    OBVIOUS
  <2> QED
    BY <1>1, <1>2, <1>3, <1>4, <1>9, <2>1, <2>2, <2>3, <2>4, Zenon DEF HeaderWidths
<1>12. n * (3 + (8 + te)) = nw /\ n * (11 + te) = nw
  BY <1>3, <1>4
<1>13. HeaderWidths[i] = T + 2 + 11 * t + nw + 11 * q
  <2>1. i = 1 \/ i = 2 \/ i = 3 \/ i = 4
    OBVIOUS
  <2>2. HeaderWidths[1] = 2 + T + t * 11 + nw + 11 * q
    BY <1>11, <1>12
  <2>3. HeaderWidths[2] = T + 2 + t * 11 + nw + 11 * q
    BY <1>11, <1>12
  <2>4. HeaderWidths[3] = 1 + T + 1 + t * 11 + nw + 11 * q
    BY <1>11, <1>12
  <2>5. HeaderWidths[4] = T + 2 + (t + n + q) * 11 + nte
    BY <1>6, <1>11
  <2> QED
    BY <1>5, <2>1, <2>2, <2>3, <2>4, <2>5
<1> QED
  BY <1>1, <1>2, <1>3, <1>9, <1>10, <1>13

\* A column is followed by one, which begins where it ends.
LEMMA NextColumn ==
  ASSUME NEW t \in Nat, NEW n \in Nat, NEW q \in Nat, NEW e \in Nat, NEW c, c # EndOfRow,
         study \in Studies, t = Len(ActualTargets), n = Len(ActualNorms), q = Len(ActualQuantities),
         t # 0, ColumnOf(c, t, n, q)
  PROVE  /\ ColumnOf(After(c), t, n, q)
         /\ RowAt(After(c), t, n, q, 11 + t * e, e) = RowAt(c, t, n, q, 11 + t * e, e) + (IF c.j = 0 THEN 11 ELSE e)
<1>1. PICK te \in Nat, w \in Nat : te = t * e /\ w = 11 + te
  OBVIOUS
<1>2. w * 0 = 0 /\ e * 0 = 0
  OBVIOUS
<1>3. (ActualNorms = <<>> <=> n = 0) /\ (ActualQuantities = <<>> <=> q = 0)
  BY ActualTexts
<1>4. \A i \in Nat : w * ((i + 1) - 1) = w * (i - 1) + w
  OBVIOUS
<1>5. e * (t - 1) + e = te
  BY <1>1
<1>6. \A j \in Nat : e * ((j + 1) - 1) = e * (j - 1) + e
  OBVIOUS
<1>7. w * (n - 1) + w = w * n
  OBVIOUS
<1>8. ColumnOf(FirstQuantity, t, n, q) /\ RowAt(FirstQuantity, t, n, q, w, e) = 11 * t + w * n
  <2>1. CASE q = 0
    <3>1. FirstQuantity = EndOfRow
      BY <1>3, <2>1 DEF FirstQuantity
    <3> QED
      BY <2>1, <3>1 DEF ColumnOf, RowAt, EndOfRow, Column
  <2>2. CASE q # 0
    <3>1. FirstQuantity = Column("quantity", 1, 0) /\ 1 \in 1 .. q
      BY <1>3, <2>2 DEF FirstQuantity
    <3>2. ColumnOf(FirstQuantity, t, n, q)
      BY <3>1, Zenon DEF ColumnOf
    <3> QED
      BY <3>1, <3>2 DEF RowAt, Column
  <2> QED
    BY <2>1, <2>2
<1>9. ColumnOf(FirstNorm, t, n, q) /\ RowAt(FirstNorm, t, n, q, w, e) = 11 * t
  <2>1. CASE n = 0
    <3>1. FirstNorm = FirstQuantity
      BY <1>3, <2>1 DEF FirstNorm
    <3> QED
      BY <1>2, <1>8, <2>1, <3>1
  <2>2. CASE n # 0
    <3>1. FirstNorm = Column("norm", 1, 0) /\ 1 \in 1 .. n /\ 0 \in 0 .. t
      BY <1>3, <2>2 DEF FirstNorm
    <3>2. ColumnOf(FirstNorm, t, n, q)
      BY <3>1, Zenon DEF ColumnOf
    <3>3. RowAt(FirstNorm, t, n, q, w, e) = 11 * t + w * (1 - 1) + 0
      BY <3>1 DEF RowAt, Column
    <3>4. w * (1 - 1) = 0
      OBVIOUS
    <3> QED
      BY <3>2, <3>3, <3>4
  <2> QED
    BY <2>1, <2>2
<1>10. ASSUME NEW i \in 1 .. t, c = Column("target", i, 0)
       PROVE  ColumnOf(After(c), t, n, q) /\ RowAt(After(c), t, n, q, w, e) = RowAt(c, t, n, q, w, e) + 11
  <2>1. RowAt(c, t, n, q, w, e) = 11 * (i - 1)
    BY <1>10 DEF RowAt, Column
  <2>2. CASE i < t
    <3>1. After(c) = Column("target", i + 1, 0) /\ i + 1 \in 1 .. t
      BY <1>10, <2>2 DEF After, Column, ActualIds
    <3>2. ColumnOf(After(c), t, n, q)
      BY <3>1, Zenon DEF ColumnOf
    <3>3. RowAt(After(c), t, n, q, w, e) = 11 * ((i + 1) - 1)
      BY <3>1 DEF RowAt, Column
    <3> QED
      BY <2>1, <3>2, <3>3
  <2>3. CASE i = t
    <3>1. After(c) = FirstNorm
      BY <1>10, <2>3 DEF After, Column, ActualIds
    <3> QED
      BY <1>9, <2>1, <2>3, <3>1
  <2> QED
    BY <2>2, <2>3
<1>11. ASSUME NEW i \in 1 .. q, c = Column("quantity", i, 0)
       PROVE  ColumnOf(After(c), t, n, q) /\ RowAt(After(c), t, n, q, w, e) = RowAt(c, t, n, q, w, e) + 11
  <2> DEFINE base == 11 * t + w * n
  <2>1. RowAt(c, t, n, q, w, e) = base + 11 * (i - 1)
    BY <1>11 DEF RowAt, Column
  <2>2. CASE i < q
    <3>1. After(c) = Column("quantity", i + 1, 0) /\ i + 1 \in 1 .. q
      BY <1>11, <2>2 DEF After, Column, ActualIds
    <3>2. ColumnOf(After(c), t, n, q)
      BY <3>1, Zenon DEF ColumnOf
    <3>3. RowAt(After(c), t, n, q, w, e) = base + 11 * ((i + 1) - 1)
      BY <3>1 DEF RowAt, Column
    <3>4. base \in Nat
      OBVIOUS
    <3> HIDE DEF base
    <3> QED
      BY <2>1, <3>2, <3>3, <3>4
  <2>3. CASE i = q
    <3>1. After(c) = EndOfRow
      BY <1>11, <2>3 DEF After, Column, ActualIds
    <3>2. ColumnOf(After(c), t, n, q)
      BY <3>1, Zenon DEF ColumnOf
    <3>3. RowAt(After(c), t, n, q, w, e) = base + 11 * q
      BY <3>1 DEF RowAt, EndOfRow, Column
    <3>4. base \in Nat
      OBVIOUS
    <3> HIDE DEF base
    <3> QED
      BY <2>1, <2>3, <3>2, <3>3, <3>4
  <2> QED
    BY <2>2, <2>3
<1>12. ASSUME NEW i \in 1 .. n, NEW j \in 0 .. t, c = Column("norm", i, j)
       PROVE  ColumnOf(After(c), t, n, q)
              /\ RowAt(After(c), t, n, q, w, e) = RowAt(c, t, n, q, w, e) + (IF j = 0 THEN 11 ELSE e)
  <2>1. PICK base \in Nat, wi \in Nat : base = 11 * t /\ wi = w * (i - 1)
    OBVIOUS
  <2>2. RowAt(c, t, n, q, w, e) = base + wi + (IF j = 0 THEN 0 ELSE 11 + e * (j - 1))
    BY <1>12, <2>1 DEF RowAt, Column
  <2>3. CASE j < t
    <3>1. After(c) = Column("norm", i, j + 1) /\ j + 1 \in 0 .. t /\ j + 1 # 0
      BY <1>12, <2>3 DEF After, Column
    <3>2. ColumnOf(After(c), t, n, q)
      BY <3>1, Zenon DEF ColumnOf
    <3>3. RowAt(After(c), t, n, q, w, e) = base + wi + (11 + e * ((j + 1) - 1))
      BY <2>1, <3>1 DEF RowAt, Column
    <3>4. CASE j = 0
      <4>1. e * ((j + 1) - 1) = 0
        BY <3>4
      <4> QED
        BY <2>1, <2>2, <3>2, <3>3, <3>4, <4>1
    <3>5. CASE j # 0
      <4>1. PICK ej \in Nat : ej = e * (j - 1)
        BY <3>5
      <4>2. e * ((j + 1) - 1) = ej + e
        BY <1>6, <4>1
      <4>3. RowAt(c, t, n, q, w, e) = base + wi + (11 + ej)
        BY <2>2, <3>5, <4>1
      <4>4. RowAt(After(c), t, n, q, w, e) = base + wi + (11 + (ej + e))
        BY <3>3, <4>2
      <4> QED
        BY <3>2, <3>5, <4>3, <4>4
    <3> QED
      BY <3>4, <3>5
  <2>4. CASE j = t
    <3>1. PICK et \in Nat : et = e * (t - 1)
      OBVIOUS
    <3>2. RowAt(c, t, n, q, w, e) + e = base + wi + w
      <4>1. RowAt(c, t, n, q, w, e) = base + wi + (11 + et)
        BY <2>2, <2>4, <3>1
      <4>2. w = 11 + et + e
        BY <1>1, <1>5, <3>1
      <4> QED
        BY <2>1, <3>1, <4>1, <4>2
    <3>3. CASE i < n
      <4>1. After(c) = Column("norm", i + 1, 0) /\ i + 1 \in 1 .. n /\ 0 \in 0 .. t
        BY <1>12, <2>4, <3>3 DEF After, Column, ActualIds
      <4>2. ColumnOf(After(c), t, n, q)
        BY <4>1, Zenon DEF ColumnOf
      <4>3. RowAt(After(c), t, n, q, w, e) = base + w * ((i + 1) - 1) + 0
        BY <2>1, <4>1 DEF RowAt, Column
      <4>4. w * ((i + 1) - 1) = wi + w
        BY <1>4, <2>1
      <4>5. RowAt(After(c), t, n, q, w, e) = base + wi + w
        BY <2>1, <4>3, <4>4
      <4> QED
        BY <2>4, <3>2, <4>2, <4>5
    <3>4. CASE i = n
      <4>1. After(c) = FirstQuantity
        BY <1>12, <2>4, <3>4 DEF After, Column, ActualIds
      <4>2. RowAt(After(c), t, n, q, w, e) = base + (wi + w)
        BY <1>7, <1>8, <2>1, <3>4, <4>1
      <4> QED
        BY <1>8, <2>1, <2>4, <3>2, <4>1, <4>2
    <3> QED
      BY <3>3, <3>4
  <2> QED
    BY <2>3, <2>4
<1>13. ColumnOf(After(c), t, n, q)
       /\ RowAt(After(c), t, n, q, w, e) = RowAt(c, t, n, q, w, e) + (IF c.j = 0 THEN 11 ELSE e)
  <2>1. CASE \E i \in 1 .. t : c = Column("target", i, 0)
    <3>1. PICK i \in 1 .. t : c = Column("target", i, 0)
      BY <2>1
    <3>2. c.j = 0
      BY <3>1 DEF Column
    <3> QED
      BY <1>10, <3>1, <3>2, Zenon
  <2>2. CASE \E i \in 1 .. n, j \in 0 .. t : c = Column("norm", i, j)
    <3>1. PICK i \in 1 .. n, j \in 0 .. t : c = Column("norm", i, j)
      BY <2>2
    <3>2. c.j = j
      BY <3>1 DEF Column
    <3> QED
      BY <1>12, <3>1, <3>2, Zenon
  <2>3. CASE \E i \in 1 .. q : c = Column("quantity", i, 0)
    <3>1. PICK i \in 1 .. q : c = Column("quantity", i, 0)
      BY <2>3
    <3>2. c.j = 0
      BY <3>1 DEF Column
    <3> QED
      BY <1>11, <3>1, <3>2, Zenon
  <2> QED
    BY <2>1, <2>2, <2>3, Zenon DEF ColumnOf
<1> QED
  BY <1>1, <1>13, Zenon

\* What is printed before the next column is printed before this one, or is this one.
LEMMA BeforeNext ==
  ASSUME NEW c, c # EndOfRow, study \in Studies, ActualTargets # <<>>,
         ColumnOf(c, Len(ActualTargets), Len(ActualNorms), Len(ActualQuantities)),
         NEW type \in Types, NEW k \in 1 .. Len(ActualIds(type)), Before(type, k, After(c))
  PROVE  Before(type, k, c) \/ (c.j = 0 /\ type = c.type /\ k = c.i)
<1>1. PICK t \in Nat, n \in Nat, q \in Nat :
        t = Len(ActualTargets) /\ n = Len(ActualNorms) /\ q = Len(ActualQuantities)
  BY ActualTexts
<1>2. t # 0 /\ (ActualNorms = <<>> <=> n = 0) /\ (ActualQuantities = <<>> <=> q = 0)
  BY <1>1, ActualTexts
<1>3. (type = "target" /\ k \in 1 .. t) \/ (type = "norm" /\ k \in 1 .. n) \/ (type = "quantity" /\ k \in 1 .. q)
  BY <1>1 DEF Types, ActualIds
<1>4. ASSUME NEW i \in 1 .. t, c = Column("target", i, 0)
      PROVE  Before(type, k, c) \/ (c.j = 0 /\ type = c.type /\ k = c.i)
  <2>1. After(c) = IF i < t THEN Column("target", i + 1, 0) ELSE FirstNorm
    BY <1>1, <1>4 DEF After, Column, ActualIds
  <2>2. FirstNorm = IF n # 0 THEN Column("norm", 1, 0) ELSE IF q # 0 THEN Column("quantity", 1, 0) ELSE EndOfRow
    BY <1>2 DEF FirstNorm, FirstQuantity
  <2> QED
    BY <1>3, <1>4, <2>1, <2>2 DEF Before, Column, EndOfRow
<1>5. ASSUME NEW i \in 1 .. n, NEW j \in 0 .. t, c = Column("norm", i, j)
      PROVE  Before(type, k, c) \/ (c.j = 0 /\ type = c.type /\ k = c.i)
  <2>1. After(c) = IF j < t THEN Column("norm", i, j + 1)
                   ELSE IF i < n THEN Column("norm", i + 1, 0) ELSE FirstQuantity
    BY <1>1, <1>5 DEF After, Column, ActualIds
  <2>2. FirstQuantity = IF q # 0 THEN Column("quantity", 1, 0) ELSE EndOfRow
    BY <1>2 DEF FirstQuantity
  <2> QED
    BY <1>2, <1>3, <1>5, <2>1, <2>2 DEF Before, Column, EndOfRow
<1>6. ASSUME NEW i \in 1 .. q, c = Column("quantity", i, 0)
      PROVE  Before(type, k, c) \/ (c.j = 0 /\ type = c.type /\ k = c.i)
  <2>1. After(c) = IF i < q THEN Column("quantity", i + 1, 0) ELSE EndOfRow
    BY <1>1, <1>6 DEF After, Column, ActualIds
  <2> QED
    BY <1>3, <1>6, <2>1 DEF Before, Column, EndOfRow
<1> QED
  BY <1>1, <1>4, <1>5, <1>6, Zenon DEF ColumnOf

\* When a value is there, what is given goes on.
LEMMA GivenGoesOn ==
  ASSUME NEW given, NEW c, c # EndOfRow, study \in Studies, ActualTargets # <<>>,
         ColumnOf(c, Len(ActualTargets), Len(ActualNorms), Len(ActualQuantities)),
         GivenBefore(given, c, ActualTargets, ActualNorms, ActualQuantities),
         c.j = 0 => <<c.type, IdOf(c)>> \in given
  PROVE  GivenBefore(given, After(c), ActualTargets, ActualNorms, ActualQuantities)
<1>1. \A type : IdsOf(type, ActualTargets, ActualNorms, ActualQuantities) = ActualIds(type)
  BY Zenon DEF IdsOf, ActualIds
<1>2. ASSUME NEW type \in Types, NEW k \in 1 .. Len(ActualIds(type)), Before(type, k, After(c))
      PROVE  <<type, ActualIds(type)[k]>> \in given
  <2>1. Before(type, k, c) \/ (c.j = 0 /\ type = c.type /\ k = c.i)
    BY <1>2, BeforeNext
  <2>2. Before(type, k, c) => <<type, ActualIds(type)[k]>> \in given
    BY <1>1, Zenon DEF GivenBefore
  <2> QED
    BY <2>1, <2>2, Zenon DEF IdOf
<1> QED
  BY <1>1, <1>2, Zenon DEF GivenBefore

\* The columns start with the first target.
LEMMA FirstColumn ==
  ASSUME NEW given, study \in Studies, ActualTargets # <<>>, NEW w, NEW e
  PROVE  /\ ColumnOf(Column("target", 1, 0), Len(ActualTargets), Len(ActualNorms), Len(ActualQuantities))
         /\ RowAt(Column("target", 1, 0), Len(ActualTargets), Len(ActualNorms), Len(ActualQuantities), w, e) = 0
         /\ GivenBefore(given, Column("target", 1, 0), ActualTargets, ActualNorms, ActualQuantities)
<1>1. 1 \in 1 .. Len(ActualTargets)
  BY ActualTexts
<1>2. ColumnOf(Column("target", 1, 0), Len(ActualTargets), Len(ActualNorms), Len(ActualQuantities))
  BY <1>1, Zenon DEF ColumnOf
<1>3. ASSUME NEW type \in Types, NEW k \in Nat, k >= 1 PROVE ~Before(type, k, Column("target", 1, 0))
  BY <1>3 DEF Before, Column, Types
<1>4. ASSUME NEW type \in Types, NEW k \in 1 .. Len(IdsOf(type, ActualTargets, ActualNorms, ActualQuantities))
      PROVE  k \in Nat /\ k >= 1
  BY DEF IdsOf
<1>5. GivenBefore(given, Column("target", 1, 0), ActualTargets, ActualNorms, ActualQuantities)
  BY <1>3, <1>4, Zenon DEF GivenBefore
<1> QED
  BY <1>2, <1>5 DEF RowAt, Column

\* In an aligned row the data for an EOC has been given, and a value is there if it is given.
LEMMA EocsAreAvailable ==
  ASSUME StudyIInv, level \in DOMAIN data, column # EndOfRow
  PROVE  /\ column.j = 0 => (Available(column) <=> <<column.type, IdOf(column)>> \in study.gives[level])
         /\ column.j # 0 => Available(column)
<1>1. DataUpTo(data, study.gives, level + 1) /\ level \in 0 .. study.refinements /\ study \in Studies
  BY DEF StudyIInv, Computed
<1>2. level \in Nat
  BY <1>1, StudiesAssumption
<1>3. \A l \in 0 .. level : l \in DOMAIN data /\ data[l] = study.gives[l]
  BY <1>1, <1>2 DEF DataUpTo
<1>4. ASSUME column.j = 0
      PROVE  Available(column) <=> <<column.type, IdOf(column)>> \in study.gives[level]
  <2>1. data[level] = study.gives[level]
    BY <1>2, <1>3
  <2> QED
    BY <1>4, <2>1, Zenon DEF Available, HasData
<1>5. ASSUME column.j # 0 PROVE Available(column)
  <2>1. PICK i \in 1 .. Len(ActualNorms), j \in 0 .. Len(ActualTargets) : column = Column("norm", i, j)
    BY <1>5 DEF StudyIInv, ColumnOf, Column, RowIInv
  <2>2. column.type = "norm" /\ column.i = i /\ column.j = j /\ j # 0 /\ j \in 1 .. Len(ActualTargets)
    <3>1. Len(ActualTargets) \in Nat
      BY <1>1, ActualTexts
    <3> QED
      BY <1>5, <2>1, <3>1 DEF Column
  <2>3. PICK id, target : id = IdOf(column) /\ target = ActualTargets[column.j]
    OBVIOUS
  <2>4. id = ActualNorms[i] /\ target = ActualTargets[j]
    BY <2>2, <2>3 DEF IdOf, ActualIds
  <2>5. IdsOf("norm", ActualTargets, ActualNorms, ActualQuantities) = ActualNorms
        /\ IdsOf("target", ActualTargets, ActualNorms, ActualQuantities) = ActualTargets
    BY DEF IdsOf
  <2>6. ASSUME NEW given, NEW c, GivenBefore(given, c, ActualTargets, ActualNorms, ActualQuantities),
               c = column \/ c = EndOfRow
        PROVE  <<"norm", id>> \in given /\ <<"target", target>> \in given
    <3>1. Before("norm", i, column) /\ Before("target", j, column)
      BY <2>2 DEF Before
    <3>2. Before("norm", i, EndOfRow) /\ Before("target", j, EndOfRow)
      BY DEF Before, EndOfRow, Column
    <3>3. "norm" \in Types /\ "target" \in Types
      BY DEF Types
    <3> QED
      BY <2>2, <2>4, <2>5, <2>6, <3>1, <3>2, <3>3, Zenon DEF GivenBefore
  <2>7. <<"norm", id>> \in study.gives[level] /\ <<"target", target>> \in study.gives[level]
    BY <2>6, Zenon DEF StudyIInv, RowIInv
  <2>8. HasData(level, "norm", id) /\ HasData(level, "target", target)
    <3>1. level \in 0 .. level
      BY <1>2
    <3> QED
      BY <1>3, <2>7, <3>1, Zenon DEF HasData
  <2>9. CASE level = 0
    BY <2>2, <2>9 DEF Available
  <2>10. CASE level # 0
    <3>1. level - 1 \in 0 .. (level - 1) /\ level - 1 \in 0 .. level
      BY <1>2, <2>10
    <3>2. GivenBefore(study.gives[level - 1], EndOfRow, ActualTargets, ActualNorms, ActualQuantities)
      BY <3>1, Zenon DEF StudyIInv, RowsAbove
    <3>3. <<"norm", id>> \in study.gives[level - 1] /\ <<"target", target>> \in study.gives[level - 1]
      BY <2>6, <3>2, Zenon
    <3>4. HasData(level - 1, "norm", id) /\ HasData(level - 1, "target", target)
      BY <1>3, <3>1, <3>3, Zenon DEF HasData
    <3>5. EocHas("norm", id, target)
      BY <2>8, <3>4, Zenon DEF EocHas
    <3> QED
      BY <2>2, <2>3, <3>5, Zenon DEF Available
  <2> QED
    BY <2>9, <2>10
<1> QED
  BY <1>4, <1>5

\* What has been printed has a width.
LEMMA RowIsNatural ==
  ASSUME NEW t \in Nat, NEW n \in Nat, NEW q \in Nat, NEW w \in Nat, NEW e \in Nat, NEW c,
         ColumnOf(c, t, n, q)
  PROVE  RowAt(c, t, n, q, w, e) \in Nat
<1>1. PICK wn \in Nat : wn = w * n
  OBVIOUS
<1>2. ASSUME NEW i \in 1 .. t, c = Column("target", i, 0) PROVE RowAt(c, t, n, q, w, e) \in Nat
  BY <1>2 DEF RowAt, Column
<1>3. ASSUME NEW i \in 1 .. n, NEW j \in 0 .. t, c = Column("norm", i, j) PROVE RowAt(c, t, n, q, w, e) \in Nat
  <2>1. PICK wi \in Nat : wi = w * (i - 1)
    OBVIOUS
  <2>2. j # 0 => e * (j - 1) \in Nat
    OBVIOUS
  <2>3. RowAt(c, t, n, q, w, e) = 11 * t + wi + (IF j = 0 THEN 0 ELSE 11 + e * (j - 1))
    BY <1>3, <2>1 DEF RowAt, Column
  <2> QED
    BY <2>2, <2>3
<1>4. ASSUME NEW i \in 1 .. q, c = Column("quantity", i, 0) PROVE RowAt(c, t, n, q, w, e) \in Nat
  <2>1. RowAt(c, t, n, q, w, e) = 11 * t + wn + 11 * (i - 1)
    BY <1>1, <1>4 DEF RowAt, Column
  <2> QED
    BY <2>1
<1>5. c = EndOfRow => RowAt(c, t, n, q, w, e) \in Nat
  <2>1. c = EndOfRow => RowAt(c, t, n, q, w, e) = 11 * t + wn + 11 * q
    BY <1>1 DEF RowAt, EndOfRow, Column
  <2> QED
    BY <2>1
<1> QED
  BY <1>2, <1>3, <1>4, <1>5, Zenon DEF ColumnOf

\* A pair.
LEMMA PairOfBoth == ASSUME NEW A, NEW B, NEW a \in A, NEW b \in B PROVE <<a, b>> \in A \X B
  OBVIOUS

\* Two more calls.
LEMMA TwoMore ==
  ASSUME NEW S, NEW s \in Seq(S), NEW a \in S, NEW b \in S, NEW m \in Nat, Len(s) = 2 * m
  PROVE  /\ s \o <<a, b>> \in Seq(S) /\ Len(s \o <<a, b>>) = 2 * (m + 1)
         /\ (s \o <<a, b>>)[2 * m + 1] = a /\ (s \o <<a, b>>)[2 * m + 2] = b
         /\ \A i \in 1 .. (2 * m) : (s \o <<a, b>>)[i] = s[i]
<1>1. <<a, b>> \in Seq(S) /\ Len(<<a, b>>) = 2 /\ <<a, b>>[1] = a /\ <<a, b>>[2] = b
  BY ONLY a \in S, b \in S
<1>2. PICK two : two = <<a, b>> /\ two \in Seq(S) /\ Len(two) = 2 /\ two[1] = a /\ two[2] = b
  BY <1>1, Zenon
<1>3. s \o two \in Seq(S) /\ Len(s \o two) = 2 * (m + 1)
      /\ (s \o two)[2 * m + 1] = a /\ (s \o two)[2 * m + 2] = b
      /\ \A i \in 1 .. (2 * m) : (s \o two)[i] = s[i]
  BY <1>2
<1> QED
  BY <1>2, <1>3, Zenon

\* Nothing was computed when a study starts.
LEMMA StudyInitIInv ==
  ASSUME StudyInit
  PROVE  StudyIInv
<1>1. study \in Studies /\ level = 0 /\ level \in 0 .. study.refinements /\ outcome = "start"
  BY StudiesAssumption DEF StudyInit
<1>2. DOMAIN data = {} /\ Computed = 0
  BY DEF StudyInit, Computed
<1>3. DataUpTo(data, study.gives, Computed)
  BY <1>2 DEF DataUpTo
<1>4. CallsUpTo(calls, Computed)
  <2>1. calls = <<>>
    BY DEF StudyInit
  <2> QED
    BY <1>2, <2>1 DEF CallsUpTo
<1>5. \A l \in 0 .. (level - 1) :
        GivenBefore(study.gives[l], EndOfRow, ActualTargets, ActualNorms, ActualQuantities)
  BY <1>1
<1> QED
  BY <1>1, <1>2, <1>3, <1>4, <1>5, Zenon DEF StudyIInv, EocsHaveData, RowsAbove

\* What is asked for does not change.
LEMMA ActualsStay ==
  ASSUME study' = study
  PROVE  /\ ActualTargets' = ActualTargets /\ ActualNorms' = ActualNorms
         /\ ActualQuantities' = ActualQuantities /\ Cell(eoc_column_width)' = Cell(eoc_column_width)
<1>1. ActualTargets' = ActualTargets /\ ActualNorms' = ActualNorms /\ ActualQuantities' = ActualQuantities
  BY Zenon DEF ActualTargets, ActualNorms, ActualQuantities
<1>2. Cell(eoc_column_width)' = Cell(eoc_column_width)
  BY <1>1, Zenon DEF Cell, eoc_column_width
<1> QED
  BY <1>1, <1>2

\* The row stays as it is.
LEMMA RowStays ==
  ASSUME RowIInv, UNCHANGED <<study, level, column, row>>
  PROVE  RowIInv'
  BY ActualsStay, Zenon DEF RowIInv

\* The rows above stay as well.
LEMMA RowsAboveStay ==
  ASSUME RowsAbove, UNCHANGED <<study, level>>
  PROVE  RowsAbove'
<1>1. EndOfRow' = EndOfRow
  BY DEF EndOfRow, Column
<1> QED
  BY <1>1, ActualsStay, Zenon DEF RowsAbove

\* Start checks what there is to print.
LEMMA StartIInv ==
  ASSUME StudyIInv, Start
  PROVE  StudyIInv'
<1>1. UNCHANGED <<study, level, column, row, data, calls>> /\ level \notin DOMAIN data
  BY DEF Start, StudyIInv
<1>2. outcome' \in {"you_are_using_this_wrong", "undefined", "running"}
      /\ (outcome' # "you_are_using_this_wrong" => study.targets # <<>>)
  BY Zenon DEF Start
<1>3. Computed' = Computed
  BY <1>1, Zenon DEF Computed
<1>4. DataUpTo(data, study.gives, Computed)' /\ CallsUpTo(calls, Computed)'
  BY <1>1, <1>3, Zenon DEF StudyIInv, DataUpTo, CallsUpTo
<1>5. RowsAbove'
  BY <1>1, RowsAboveStay, Zenon DEF StudyIInv
<1>7. study' \in Studies /\ level' \in 0 .. study'.refinements
  BY <1>1, Zenon DEF StudyIInv
<1>8. level' \notin DOMAIN data' /\ (outcome' # "you_are_using_this_wrong" => study'.targets # <<>>)
  BY <1>1, <1>2, Zenon
<1>9. outcome' # "start" /\ outcome' # "done" /\ outcome' # "requirements_not_met"
  BY <1>2
<1> QED
  BY <1>2, <1>4, <1>5, <1>7, <1>8, <1>9, Zenon DEF StudyIInv, EocsHaveData

\* A level is computed after it was announced.
LEMMA LevelIInv ==
  ASSUME StudyIInv, Level
  PROVE  StudyIInv'
<1>1. UNCHANGED <<study, level, outcome>> /\ outcome = "running" /\ level \notin DOMAIN data /\ Computed = level
  BY DEF Level, Computed
<1>2. level \in Nat /\ study \in Studies /\ level \in 0 .. study.refinements
  BY StudiesAssumption DEF StudyIInv
<1>3. data' = [l \in 0 .. level |-> IF l = level THEN study.gives[l] ELSE data[l]]
  BY DEF Level
<1>4. level' \in DOMAIN data' /\ Computed' = level + 1
  <2>1. level \in 0 .. level
    BY <1>2
  <2> QED
    BY <1>1, <1>3, <2>1, Zenon DEF Computed
<1>5. DataUpTo(data', study.gives, level + 1)
  <2>1. \A l \in 0 .. (level - 1) : data[l] = study.gives[l]
    BY <1>1 DEF StudyIInv, DataUpTo
  <2>2. (level + 1) - 1 = level /\ \A l \in 0 .. level : l = level \/ l \in 0 .. (level - 1)
    BY <1>2
  <2> QED
    BY <1>3, <2>1, <2>2, Zenon DEF DataUpTo
<1>6. CallsUpTo(calls', level + 1)
  <2>1. CallsUpTo(calls, level)
    BY <1>1 DEF StudyIInv
  <2>2. PICK a \in Announced : a = <<"discretization_info", level>>
    <3>1. "discretization_info" \in {"discretization_info", "compute"}
      OBVIOUS
    <3>2. <<"discretization_info", level>> \in Announced
      BY <1>2, <3>1, PairOfBoth DEF Announced
    <3> QED
      BY <3>2, Zenon
  <2>3. PICK b \in Announced : b = <<"compute", level>>
    <3>1. "compute" \in {"discretization_info", "compute"}
      OBVIOUS
    <3>2. <<"compute", level>> \in Announced
      BY <1>2, <3>1, PairOfBoth DEF Announced
    <3> QED
      BY <3>2, Zenon
  <2>4. calls' = calls \o <<a, b>>
    BY <2>2, <2>3 DEF Level
  <2>5. PICK s \in Seq(Announced) : s = calls /\ Len(s) = 2 * level
    BY <2>1 DEF CallsUpTo
  <2>6. PICK z : z = s \o <<a, b>>
    OBVIOUS
  <2>7. z \in Seq(Announced) /\ Len(z) = 2 * (level + 1) /\ z[2 * level + 1] = a /\ z[2 * level + 2] = b
        /\ \A i \in 1 .. (2 * level) : z[i] = s[i]
    <3>1. PICK m \in Nat : m = level /\ Len(s) = 2 * m
      BY <1>2, <2>5
    <3>2. /\ s \o <<a, b>> \in Seq(Announced) /\ Len(s \o <<a, b>>) = 2 * (m + 1)
          /\ (s \o <<a, b>>)[2 * m + 1] = a /\ (s \o <<a, b>>)[2 * m + 2] = b
          /\ \A i \in 1 .. (2 * m) : (s \o <<a, b>>)[i] = s[i]
      BY <3>1, TwoMore
    <3> QED
      BY <2>6, <3>1, <3>2, Zenon
  <2>8. ASSUME NEW i \in 1 .. (2 * (level + 1))
        PROVE  z[i] = <<IF i % 2 = 1 THEN "discretization_info" ELSE "compute", (i - 1) \div 2>>
    <3>1. CASE i \in 1 .. (2 * level)
      BY <2>1, <2>5, <2>7, <3>1, Zenon DEF CallsUpTo
    <3>2. CASE i = 2 * level + 1
      <4>1. i % 2 = 1 /\ (i - 1) \div 2 = level
        BY <1>2, <3>2
      <4> QED
        BY <2>2, <2>7, <3>2, <4>1, Zenon
    <3>3. CASE i = 2 * level + 2
      <4>1. i % 2 # 1 /\ (i - 1) \div 2 = level
        BY <1>2, <3>3
      <4> QED
        BY <2>3, <2>7, <3>3, <4>1, Zenon
    <3>4. i \in 1 .. (2 * level) \/ i = 2 * level + 1 \/ i = 2 * level + 2
      BY <1>2
    <3> QED
      BY <3>1, <3>2, <3>3, <3>4, Zenon
  <2> QED
    BY <2>4, <2>5, <2>6, <2>7, <2>8, Zenon DEF CallsUpTo
<1>7. RowIInv'
  <2>1. ActualTargets # <<>>
    BY <1>1, <1>2, ActualTexts DEF StudyIInv
  <2>2. column' = Column("target", 1, 0) /\ row' = RowStart
    BY DEF Level
  <2>3. RowStart = RowStart + 0
    BY StudiesAssumption DEF RowStart
  <2> QED
    BY <1>1, <1>2, <2>1, <2>2, <2>3, ActualsStay, FirstColumn, Zenon DEF RowIInv
<1>8. RowsAbove'
  BY <1>1, RowsAboveStay, Zenon DEF StudyIInv
<1>9. study' \in Studies /\ level' \in 0 .. study'.refinements /\ study'.targets # <<>>
      /\ outcome' = "running"
  BY <1>1, Zenon DEF StudyIInv
<1>10. DataUpTo(data, study.gives, Computed)' /\ CallsUpTo(calls, Computed)'
  BY <1>1, <1>4, <1>5, <1>6, Zenon DEF DataUpTo, CallsUpTo
<1> QED
  BY <1>7, <1>8, <1>9, <1>10, Zenon DEF StudyIInv, EocsHaveData

\* A column is printed where the one before ended, or its value was not given.
LEMMA FillColumnIInv ==
  ASSUME StudyIInv, FillColumn
  PROVE  StudyIInv'
<1>1. UNCHANGED <<study, level, data, calls>> /\ outcome = "running" /\ level \in DOMAIN data /\ column # EndOfRow
  BY DEF FillColumn
<1>2. study \in Studies /\ study.targets # <<>>
  BY <1>1 DEF StudyIInv
<1>3. Computed' = Computed
  BY <1>1, Zenon DEF Computed
<1>4. DataUpTo(data, study.gives, Computed)' /\ CallsUpTo(calls, Computed)'
  BY <1>1, <1>3, Zenon DEF StudyIInv, DataUpTo, CallsUpTo
<1>5. RowsAbove'
  BY <1>1, RowsAboveStay, Zenon DEF StudyIInv
<1>6. study' \in Studies /\ level' \in 0 .. study'.refinements /\ study'.targets # <<>>
  BY <1>1, <1>2, Zenon DEF StudyIInv
<1>7. CASE Available(column)
  <2>1. column' = After(column) /\ outcome' = "running"
        /\ row' = row + Cell(IF column.j = 0 THEN column_width ELSE eoc_column_width)
    BY <1>1, <1>7, Zenon DEF FillColumn
  <2>2. RowIInv'
    <3>1. PICK t \in Nat, n \in Nat, q \in Nat, e \in Nat :
            t = Len(ActualTargets) /\ n = Len(ActualNorms) /\ q = Len(ActualQuantities)
            /\ e = Cell(eoc_column_width)
      BY <1>2, ActualTexts, EocWidth
    <3>2. t # 0 /\ ActualTargets # <<>>
      BY <1>2, <3>1, ActualTexts
    <3>3. ColumnOf(column, t, n, q)
      BY <1>1, <3>1 DEF StudyIInv, RowIInv
    <3>4. ColumnOf(After(column), t, n, q)
          /\ RowAt(After(column), t, n, q, 11 + t * e, e)
               = RowAt(column, t, n, q, 11 + t * e, e) + (IF column.j = 0 THEN 11 ELSE e)
      BY <1>1, <1>2, <3>1, <3>2, <3>3, NextColumn
    <3>5. GivenBefore(study.gives[level], After(column), ActualTargets, ActualNorms, ActualQuantities)
      <4>1. GivenBefore(study.gives[level], column, ActualTargets, ActualNorms, ActualQuantities)
        BY <1>1, Zenon DEF StudyIInv, RowIInv
      <4>2. column.j = 0 => <<column.type, IdOf(column)>> \in study.gives[level]
        BY <1>1, <1>7, EocsAreAvailable, Zenon
      <4> QED
        BY <1>1, <1>2, <3>1, <3>2, <3>3, <4>1, <4>2, GivenGoesOn, Zenon
    <3>6. row' = RowStart + RowAt(After(column), t, n, q, 11 + t * e, e)
      <4>1. row = RowStart + RowAt(column, t, n, q, 11 + t * e, e)
        BY <1>1, <3>1, Zenon DEF StudyIInv, RowIInv
      <4>2. row' = row + (IF column.j = 0 THEN 11 ELSE e)
        BY <2>1, <3>1 DEF Cell, column_width
      <4>3. RowAt(column, t, n, q, 11 + t * e, e) \in Nat
        <5>1. PICK w \in Nat : w = 11 + t * e
          OBVIOUS
        <5>2. RowAt(column, t, n, q, w, e) \in Nat
          BY <3>3, RowIsNatural
        <5> QED
          BY <5>1, <5>2, Zenon
      <4>4. PICK here, there : here \in Nat /\ here = RowAt(column, t, n, q, 11 + t * e, e)
                                       /\ there = RowAt(After(column), t, n, q, 11 + t * e, e)
        BY <4>3, Zenon
      <4>5. there = here + (IF column.j = 0 THEN 11 ELSE e) /\ row = RowStart + here
        BY <3>4, <4>1, <4>4, Zenon
      <4>6. row' = RowStart + there
        BY ONLY <4>2, <4>4, <4>5, e \in Nat, StudiesAssumption, SMTT(60) DEF RowStart
      <4> QED
        BY <4>4, <4>6, Zenon
    <3> QED
      BY <1>1, <2>1, <3>1, <3>4, <3>5, <3>6, ActualsStay, Zenon DEF RowIInv
  <2> QED
    BY <1>4, <1>5, <1>6, <2>1, <2>2, Zenon DEF StudyIInv, EocsHaveData
<1>8. CASE ~Available(column)
  <2>1. outcome' = "requirements_not_met" /\ UNCHANGED <<column, row>>
    BY <1>1, <1>8, Zenon DEF FillColumn
  <2>2. RowIInv'
    BY <1>1, <2>1, RowStays, Zenon DEF StudyIInv
  <2>3. column.j = 0 /\ <<column.type, IdOf(column)>> \notin study.gives[level]
    BY <1>1, <1>8, EocsAreAvailable, Zenon
  <2>4. IdOf(column)' = IdOf(column)
    BY <1>1, <2>1, ActualsStay, Zenon DEF IdOf, ActualIds
  <2>5. EocsHaveData'
    BY <1>1, <2>1, <2>3, <2>4, Zenon DEF EocsHaveData
  <2> QED
    BY <1>1, <1>4, <1>5, <1>6, <2>1, <2>2, <2>5, Zenon DEF StudyIInv
<1> QED
  BY <1>7, <1>8

\* A full row is followed by the next level, or it was the last.
LEMMA EndOfLineIInv ==
  ASSUME StudyIInv, EndOfLine
  PROVE  StudyIInv'
<1>1. UNCHANGED <<study, column, row, data, calls>> /\ outcome = "running" /\ level \in DOMAIN data /\ column = EndOfRow
  BY DEF EndOfLine
<1>2. study \in Studies /\ study.targets # <<>> /\ level \in 0 .. study.refinements /\ Computed = level + 1
  BY <1>1 DEF StudyIInv, Computed
<1>3. level \in Nat /\ study.refinements \in Nat
  BY <1>2, StudiesAssumption
<1>4. study' \in Studies /\ study'.targets # <<>>
  BY <1>1, <1>2, Zenon
<1>5. CASE level < study.refinements
  <2>1. level' = level + 1 /\ outcome' = "running"
    BY <1>1, <1>5, Zenon DEF EndOfLine
  <2>2. DOMAIN data = 0 .. level
    BY <1>2, <1>3 DEF StudyIInv, DataUpTo
  <2>3. level' \notin DOMAIN data' /\ Computed' = level + 1
    <3>1. level + 1 \notin 0 .. level
      BY <1>3
    <3> QED
      BY <1>1, <2>1, <2>2, <3>1, Zenon DEF Computed
  <2>4. DataUpTo(data, study.gives, Computed)' /\ CallsUpTo(calls, Computed)'
    BY <1>1, <1>2, <2>3, Zenon DEF StudyIInv, DataUpTo, CallsUpTo
  <2>5. level' \in 0 .. study'.refinements
    <3>1. level + 1 \in 0 .. study.refinements
      BY <1>3, <1>5
    <3> QED
      BY <1>1, <2>1, <3>1, Zenon
  <2>6. RowsAbove'
    <3>1. ASSUME NEW l \in 0 .. level
          PROVE  GivenBefore(study.gives[l], EndOfRow, ActualTargets, ActualNorms, ActualQuantities)
      <4>1. l = level \/ l \in 0 .. (level - 1)
        BY <1>3
      <4> QED
        BY <1>1, <4>1, Zenon DEF StudyIInv, RowIInv, RowsAbove
    <3>2. level' - 1 = level
      BY <1>3, <2>1
    <3>3. EndOfRow' = EndOfRow
      BY DEF EndOfRow, Column
    <3> QED
      BY <1>1, <3>1, <3>2, <3>3, ActualsStay, Zenon DEF RowsAbove
  <2> QED
    BY <1>4, <2>1, <2>3, <2>4, <2>5, <2>6, Zenon DEF StudyIInv, EocsHaveData
<1>6. CASE ~(level < study.refinements)
  <2>1. level' = level /\ outcome' = "done"
    BY <1>1, <1>6, Zenon DEF EndOfLine
  <2>2. level = study.refinements
    BY <1>2, <1>3, <1>6
  <2>3. Computed' = Computed
    BY <1>1, <2>1, Zenon DEF Computed
  <2>4. DataUpTo(data, study.gives, Computed)' /\ CallsUpTo(calls, Computed)'
    BY <1>1, <2>1, <2>3, Zenon DEF StudyIInv, DataUpTo, CallsUpTo
  <2>5. RowsAbove'
    BY <1>1, <2>1, RowsAboveStay, Zenon DEF StudyIInv
  <2>6. RowIInv'
    BY <1>1, <2>1, RowStays, Zenon DEF StudyIInv
  <2>7. EndOfRow' = EndOfRow
    BY DEF EndOfRow, Column
  <2>8. level' \in 0 .. study'.refinements /\ level' = study'.refinements /\ level' \in DOMAIN data'
        /\ column' = EndOfRow'
    BY <1>1, <1>2, <2>1, <2>2, <2>7, Zenon
  <2> QED
    BY <1>4, <2>1, <2>4, <2>5, <2>6, <2>8, Zenon DEF StudyIInv, EocsHaveData
<1> QED
  BY <1>5, <1>6

\* Nothing changes.
LEMMA StudyStutters ==
  ASSUME StudyIInv, UNCHANGED studyVars
  PROVE  StudyIInv'
<1>1. UNCHANGED <<study, level, column, row, data, calls, outcome>>
  BY DEF studyVars
<1>2. Computed' = Computed
  BY <1>1, Zenon DEF Computed
<1>3. DataUpTo(data, study.gives, Computed)' /\ CallsUpTo(calls, Computed)'
  BY <1>1, <1>2, Zenon DEF StudyIInv, DataUpTo, CallsUpTo
<1>4. RowsAbove'
  BY <1>1, RowsAboveStay, Zenon DEF StudyIInv
<1>5. level \in DOMAIN data => RowIInv'
  BY <1>1, RowStays, Zenon DEF StudyIInv
<1>6. EndOfRow' = EndOfRow
  BY DEF EndOfRow, Column
<1>7. IdOf(column)' = IdOf(column)
  BY <1>1, ActualsStay, Zenon DEF IdOf, ActualIds
<1>8. EocsHaveData'
  BY <1>1, <1>7, Zenon DEF EocsHaveData, StudyIInv
<1>9. Range(ActualQuantities)' = Range(ActualQuantities)
  BY <1>1, ActualsStay, Zenon
<1> QED
  BY <1>1, <1>3, <1>4, <1>5, <1>6, <1>8, <1>9, Zenon DEF StudyIInv

\* The inductive invariant of a study holds in every state.
LEMMA StudyIInvHolds == StudySpec => []StudyIInv
<1>1. StudyInit => StudyIInv
  BY StudyInitIInv
<1>2. StudyIInv /\ [StudyNext]_studyVars => StudyIInv'
  <2>1. SUFFICES ASSUME StudyIInv, [StudyNext]_studyVars PROVE StudyIInv'
    OBVIOUS
  <2>2. CASE Start
    BY <2>1, <2>2, StartIInv
  <2>3. CASE Level
    BY <2>1, <2>3, LevelIInv
  <2>4. CASE FillColumn
    BY <2>1, <2>4, FillColumnIInv
  <2>5. CASE EndOfLine
    BY <2>1, <2>5, EndOfLineIInv
  <2>6. CASE UNCHANGED studyVars
    BY <2>1, <2>6, StudyStutters
  <2> QED
    BY <2>1, <2>2, <2>3, <2>4, <2>5, <2>6, Zenon DEF StudyNext
<1> QED
  BY <1>1, <1>2, PTL DEF StudySpec

\* The header is as wide as the rows below it.
LEMMA AlignedByInv ==
  ASSUME StudyIInv
  PROVE  TableAligned
<1>1. SUFFICES ASSUME outcome \in {"running", "done"} PROVE
        /\ \A i \in 1 .. 4 : HeaderWidths[i] = HeaderWidths[1]
        /\ TitleWidth # 0 /\ level \in DOMAIN data /\ column = EndOfRow => row = HeaderWidths[1]
  BY DEF TableAligned
<1>2. study \in Studies
  BY DEF StudyIInv
<1>3. \A i \in 1 .. 4 : HeaderWidths[i] = HeaderWidths[1]
  <2>1. 1 \in 1 .. 4
    OBVIOUS
  <2> QED
    BY <1>2, <2>1, HeadersAgree, Zenon
<1>4. ASSUME TitleWidth # 0, level \in DOMAIN data, column = EndOfRow PROVE row = HeaderWidths[1]
  <2>1. 1 \in 1 .. 4
    OBVIOUS
  <2>2. RowStart = TitleWidth + 2
    BY <1>4, StudiesAssumption DEF RowStart
  <2> QED
    BY <1>2, <1>4, <2>1, <2>2, HeadersAgree, Zenon DEF StudyIInv, RowIInv
<1> QED
  BY <1>3, <1>4

\* The calls are those of the levels so far.
LEMMA CallsByInv ==
  ASSUME StudyIInv
  PROVE  CalledInOrder
<1>1. CallsUpTo(calls, Computed)
  BY DEF StudyIInv
<1>2. DOMAIN calls = 1 .. (2 * Computed)
  BY <1>1 DEF CallsUpTo
<1>3. outcome = "done" => Len(calls) = 2 * (study.refinements + 1)
  BY <1>1 DEF StudyIInv, CallsUpTo, Computed
<1> QED
  BY <1>1, <1>2, <1>3, Zenon DEF CalledInOrder, CallsUpTo

\* All rows of a study that ends have all of their values.
LEMMA CompleteByInv ==
  ASSUME StudyIInv
  PROVE  ResultComplete
<1>1. SUFFICES ASSUME outcome = "done",
                      NEW id \in UNION {Range(study.targets), Range(study.norms), Range(study.quantities)},
                      study.only = {} \/ id \in study.only
               PROVE  \E type \in Types : ReturnData(type, id) = 0 .. study.refinements
  BY Zenon DEF ResultComplete
<1>2. study \in Studies /\ level = study.refinements /\ level \in DOMAIN data /\ column = EndOfRow
  BY <1>1, Zenon DEF StudyIInv
<1>3. level \in Nat
  BY <1>2, StudiesAssumption
<1>4. DOMAIN data = 0 .. level /\ \A l \in 0 .. level : data[l] = study.gives[l]
  BY <1>2, <1>3 DEF StudyIInv, Computed, DataUpTo
<1>5. ASSUME NEW l \in 0 .. level
      PROVE  GivenBefore(study.gives[l], EndOfRow, ActualTargets, ActualNorms, ActualQuantities)
  <2>1. l = level \/ l \in 0 .. (level - 1)
    BY <1>3
  <2> QED
    BY <1>2, <2>1, Zenon DEF StudyIInv, RowIInv, RowsAbove
<1>6. ASSUME NEW type \in Types, NEW k \in 1 .. Len(IdsOf(type, ActualTargets, ActualNorms, ActualQuantities)),
             id = IdsOf(type, ActualTargets, ActualNorms, ActualQuantities)[k]
      PROVE  ReturnData(type, id) = 0 .. study.refinements
  <2>1. Before(type, k, EndOfRow)
    BY DEF Before, EndOfRow, Column, Types
  <2>2. \A l \in 0 .. level : <<type, id>> \in data[l]
    BY <1>4, <1>5, <1>6, <2>1, Zenon DEF GivenBefore
  <2> QED
    BY <1>2, <1>4, <2>2 DEF ReturnData
<1>7. PICK type \in Types, s \in Seq(STRING) :
        id \in Range(s) /\ s = IdsOf(type, ActualTargets, ActualNorms, ActualQuantities)
  <2>1. id \in Range(ActualTargets) \/ id \in Range(ActualNorms) \/ id \in Range(ActualQuantities)
    BY <1>1, <1>2, ActualsAreAsked
  <2>2. "target" \in Types /\ "norm" \in Types /\ "quantity" \in Types
    BY DEF Types
  <2>3. IdsOf("target", ActualTargets, ActualNorms, ActualQuantities) = ActualTargets
        /\ IdsOf("norm", ActualTargets, ActualNorms, ActualQuantities) = ActualNorms
        /\ IdsOf("quantity", ActualTargets, ActualNorms, ActualQuantities) = ActualQuantities
    BY DEF IdsOf
  <2> QED
    BY <1>2, <2>1, <2>2, <2>3, ActualTexts, Zenon
<1>8. PICK k \in 1 .. Len(s) : id = s[k]
  BY <1>7 DEF Range
<1> QED
  BY <1>6, <1>7, <1>8, Zenon

\* For any studies: a table is aligned whatever is asked for, an EOC never lacks data, each
\* level is announced and computed once and in order, what is returned has every value that
\* was asked for (ConvergenceStudy::run()).
THEOREM StudiesAreComplete == StudySpec => []StudyInv
<1>1. StudyIInv => StudyInv
  BY AlignedByInv, CallsByInv, CompleteByInv, Zenon DEF StudyInv, StudyIInv
<1> QED
  BY <1>1, StudyIInvHolds, PTL
=============================================================================
