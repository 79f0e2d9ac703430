------------------------------ MODULE FixedMap ------------------------------
(***************************************************************************)
(* FixedMap (fixed_map.hh): an array of N pairs used as a map, searched     *)
(* from the front, and its forward iterator.  The state is the array, one  *)
(* iterator (the index it points to, N at the end; NoMap when it was        *)
(* default constructed) and, for the properties, what a map given the same *)
(* calls would hold.  A list without elements is outside the model: the    *)
(* constructor takes *list.begin() of it.                                  *)
(***************************************************************************)
EXTENDS Integers, Sequences

CONSTANTS N,           \* number of entries
          FixedKeys,   \* keys used, DefaultKey among them
          FixedValues, \* values used, DefaultValue among them
          DefaultKey,  \* key_type()
          DefaultValue, \* T()
          MaxList,     \* bound on the length of the lists constructed from
          NoMap
ASSUME FixedAssumption ==
  /\ N \in Nat \ {0} /\ MaxList \in Nat \ {0}
  /\ DefaultKey \in FixedKeys /\ DefaultValue \in FixedValues
  /\ NoMap \notin Nat

VARIABLES map_, index_, keyed
fixedVars == <<map_, index_, keyed>>

Pairs == FixedKeys \X FixedValues
DefaultPair == <<DefaultKey, DefaultValue>>

\* Bug: of a list that is too long the last N elements are taken.
FromListUncut(list) ==
  [i \in 0..N - 1 |->
     IF i < Len(list) THEN list[IF Len(list) > N THEN i + Len(list) - N + 1 ELSE i + 1]
     ELSE DefaultPair]

\* The first N elements of the list, padded with default pairs.
FromList(list) ==
  [i \in 0..N - 1 |-> IF i < Len(list) THEN list[i + 1] ELSE DefaultPair]

\* Bug: the search runs from the back.
FindsLast(entries, key) ==
  IF \E i \in 0..N - 1 : entries[i][1] = key
  THEN CHOOSE i \in 0..N - 1 :
         entries[i][1] = key /\ \A j \in i + 1..N - 1 : entries[j][1] # key
  ELSE N

\* The first entry with this key, N if there is none.
get_idx(entries, key) ==
  IF \E i \in 0..N - 1 : entries[i][1] = key
  THEN CHOOSE i \in 0..N - 1 :
         entries[i][1] = key /\ \A j \in 0..i - 1 : entries[j][1] # key
  ELSE N

\* What a map holds after inserting the pairs in order: the first of a key stays.
Inserted(pairs, n) ==
  [key \in {pairs[i][1] : i \in 1..n} |->
     pairs[CHOOSE i \in 1..n : pairs[i][1] = key
                                 /\ \A j \in 1..i - 1 : pairs[j][1] # key][2]]
Pad(pairs) == IF Len(pairs) < N THEN Append(pairs, DefaultPair) ELSE pairs

FixedInit ==
  /\ map_ = [i \in 0..N - 1 |-> DefaultPair]
  /\ index_ = NoMap
  /\ keyed = Inserted(<<DefaultPair>>, 1)

FixedConstruct ==
  \E n \in 1..MaxList : \E list \in [1..n -> Pairs] :
    /\ map_' = FromList(list)
    /\ keyed' = LET all == Pad(list) IN
                Inserted(all, IF Len(all) < N THEN Len(all) ELSE N)
    /\ index_' = NoMap

\* map[key] = value; a missing key is a RangeError.
FixedWrite(key, value) ==
  /\ get_idx(map_, key) # N
  /\ map_' = [map_ EXCEPT ![get_idx(map_, key)][2] = value]
  /\ keyed' = [keyed EXCEPT ![key] = value]
  /\ UNCHANGED index_

FixedFind(key) == index_' = get_idx(map_, key) /\ UNCHANGED <<map_, keyed>>
FixedBegin == index_' = 0 /\ UNCHANGED <<map_, keyed>>

FixedIncrement ==
  /\ index_ # NoMap /\ index_ # N
  /\ index_' = index_ + 1
  /\ UNCHANGED <<map_, keyed>>

\* it->second = value: an entry behind another of its key is not seen by key.
FixedAssign(value) ==
  /\ index_ # NoMap /\ index_ # N
  /\ map_' = [map_ EXCEPT ![index_][2] = value]
  /\ keyed' = IF get_idx(map_, map_[index_][1]) = index_
              THEN [keyed EXCEPT ![map_[index_][1]] = value] ELSE keyed
  /\ UNCHANGED index_

\* it == other, of iterators of this map; a default constructed one equals
\* nothing, itself included.
FixedEqual(i, j) == i # NoMap /\ j # NoMap /\ i = j

FixedNext ==
  \/ FixedConstruct
  \/ \E key \in FixedKeys, value \in FixedValues : FixedWrite(key, value)
  \/ \E key \in FixedKeys : FixedFind(key)
  \/ FixedBegin
  \/ FixedIncrement
  \/ \E value \in FixedValues : FixedAssign(value)

FixedSpec == FixedInit /\ [][FixedNext]_fixedVars

-----------------------------------------------------------------------------
\* Seen by key a FixedMap is a map: it holds the first N pairs of the list,
\* the first of each key, the default key if it was padded, and the values
\* written since; every other key throws (fixed_map.hh:182).
ActsAsMap ==
  \A key \in FixedKeys :
    LET at == get_idx(map_, key)
    IN  IF key \in DOMAIN keyed THEN at # N /\ map_[at][2] = keyed[key] ELSE at = N

\* find() returns end() exactly for the keys the map does not hold, and the
\* entries visited from begin() to end() have exactly the keys it holds.
FindAgrees ==
  /\ \A key \in FixedKeys : FixedEqual(get_idx(map_, key), N) = (key \notin DOMAIN keyed)
  /\ {map_[i][1] : i \in {j \in 0..N : ~FixedEqual(j, N)}} = DOMAIN keyed

\* Through any writes, by subscript and by iterator, a FixedMap is a map for all
\* ways of looking at it.
FixedMapInv == ActsAsMap /\ FindAgrees
=============================================================================
