------------------------- MODULE ConfigurationProofs -------------------------
(***************************************************************************)
(* What Configuration promises, for any paths, values and trees: merges    *)
(* set an initial segment of the keys or all of them, the command line     *)
(* wins, what is read is valid, and trees are strictly ordered.            *)
(***************************************************************************)
EXTENDS Configuration, SequenceTheorems, WellFoundedInduction, TLAPS

-----------------------------------------------------------------------------
\* Numbers.

\* The order of the naturals is well founded: the relation behind it.
LEMMA LessThanIsARelation ==
  \E R : IsWellFoundedOn(R, Nat) /\ \A x, y \in Nat : y < x => <<y, x>> \in R
<1>1. \A x, y \in Nat : y < x => <<y, x>> \in OpToRel(<, Nat)
  BY DEF OpToRel
<1> QED
  BY <1>1, NatLessThanWellFounded, Zenon

\* A set of naturals has a least element.
LEMMA LeastNatural ==
  ASSUME NEW S \in SUBSET Nat, S # {}
  PROVE  \E n \in S : \A m \in S : n <= m
<1>1. PICK R : IsWellFoundedOn(R, Nat) /\ \A x, y \in Nat : y < x => <<y, x>> \in R
  BY LessThanIsARelation
<1>2. PICK n \in S : \A m \in S : ~(<<m, n>> \in R)
  BY <1>1, WFMin
<1>3. ASSUME NEW m \in S PROVE n <= m
  <2>1. m \in Nat /\ n \in Nat
    OBVIOUS
  <2>2. ~(m < n)
    BY <1>1, <1>2, <2>1
  <2> QED
    BY <2>1, <2>2
<1> QED
  BY <1>3

\* Induction up to n: a set of naturals that has 0 and, below n, with each number the next
\* one, has n.
LEMMA CountingUp ==
  ASSUME NEW n \in Nat, NEW S, 0 \in S, \A m \in 0 .. (n - 1) : m \in S => m + 1 \in S
  PROVE  n \in S
<1> DEFINE Out == {m \in 0 .. n : m \notin S}
<1>1. SUFFICES ASSUME Out # {} PROVE FALSE
  OBVIOUS
<1>2. PICK m \in Out : \A k \in Out : m <= k
  <2>1. Out \in SUBSET Nat
    OBVIOUS
  <2> QED
    BY <1>1, <2>1, LeastNatural
<1>3. m \in 1 .. n
  BY <1>2
<1>4. m - 1 \in S
  BY <1>2, <1>3
<1>5. m - 1 \in 0 .. (n - 1) /\ (m - 1) + 1 = m
  BY <1>3
<1> QED
  BY <1>2, <1>4, <1>5

-----------------------------------------------------------------------------
\* The order of the paths.

\* A path has a rank, and a rank has a path.
LEMMA Ranks ==
  /\ Len(PathOrder) \in Nat /\ DOMAIN PathOrder = 1 .. Len(PathOrder)
  /\ Paths \subseteq Seq(STRING) \ {<<>>}
  /\ \A i \in 1 .. Len(PathOrder) : PathOrder[i] \in Paths /\ Rank(PathOrder[i]) = i
  /\ \A p \in Paths : Rank(p) \in 1 .. Len(PathOrder) /\ PathOrder[Rank(p)] = p
<1>1. /\ Len(PathOrder) \in Nat /\ DOMAIN PathOrder = 1 .. Len(PathOrder)
      /\ Paths \subseteq Seq(STRING) \ {<<>>}
      /\ \A i \in 1 .. Len(PathOrder) : PathOrder[i] \in Paths
  BY ConfigurationAssumption DEF Paths, Range
<1>2. ASSUME NEW p \in Paths
      PROVE  Rank(p) \in 1 .. Len(PathOrder) /\ PathOrder[Rank(p)] = p
  <2>1. \E i \in DOMAIN PathOrder : PathOrder[i] = p
    BY DEF Paths, Range
  <2>2. Rank(p) \in DOMAIN PathOrder /\ PathOrder[Rank(p)] = p
    BY <2>1 DEF Rank
  <2> QED
    BY <1>1, <2>2
<1>3. ASSUME NEW i \in 1 .. Len(PathOrder) PROVE Rank(PathOrder[i]) = i
  BY <1>1, <1>2, <1>3, ConfigurationAssumption DEF IsInjective
<1> QED
  BY <1>1, <1>2, <1>3

\* f[n] has the keys of t among the first n paths, for the n up to m.
Collects(f, t, m) ==
  f = [n \in 0 .. m |-> IF n = 0 THEN <<>>
                        ELSE IF PathOrder[n] \in DOMAIN t THEN Append(f[n - 1], PathOrder[n])
                        ELSE f[n - 1]]

\* There is such a function.
LEMMA Collecting == \A t : \E f : Collects(f, t, Len(PathOrder))
<1> SUFFICES ASSUME NEW t PROVE \E f : Collects(f, t, Len(PathOrder))
  OBVIOUS
<1> DEFINE S == {m \in Nat : \E f : Collects(f, t, m)}
<1>1. 0 \in S
  <2>1. PICK f : f = [n \in 0 .. 0 |-> <<>>]
    OBVIOUS
  <2>2. Collects(f, t, 0)
    BY <2>1 DEF Collects
  <2> QED
    BY <2>2
<1>2. ASSUME NEW m \in Nat, m \in S PROVE m + 1 \in S
  <2>1. PICK f : Collects(f, t, m)
    BY <1>2
  <2>2. PICK g : g = [n \in 0 .. (m + 1) |->
                        IF n = m + 1 THEN IF PathOrder[n] \in DOMAIN t
                                          THEN Append(f[m], PathOrder[n]) ELSE f[m]
                        ELSE f[n]]
    OBVIOUS
  <2>3. \A n \in 0 .. m : g[n] = f[n]
    BY <2>2
  <2>4. ASSUME NEW n \in 0 .. (m + 1)
        PROVE  g[n] = IF n = 0 THEN <<>>
                      ELSE IF PathOrder[n] \in DOMAIN t THEN Append(g[n - 1], PathOrder[n])
                      ELSE g[n - 1]
    <3>1. CASE n = m + 1
      <4>1. n # 0 /\ n - 1 = m /\ m \in 0 .. m
        BY <3>1
      <4> QED
        BY <2>2, <2>3, <3>1, <4>1
    <3>2. CASE n # m + 1
      <4>1. n \in 0 .. m /\ (n # 0 => n - 1 \in 0 .. m)
        BY <3>2
      <4>2. f[n] = IF n = 0 THEN <<>>
                   ELSE IF PathOrder[n] \in DOMAIN t THEN Append(f[n - 1], PathOrder[n])
                   ELSE f[n - 1]
        BY <2>1, <4>1 DEF Collects
      <4> QED
        BY <2>3, <4>1, <4>2
    <3> QED
      BY <3>1, <3>2
  <2>5. Collects(g, t, m + 1)
    BY <2>2, <2>4 DEF Collects
  <2> QED
    BY <2>5
<1>3. Len(PathOrder) \in S
  <2>1. \A m \in 0 .. (Len(PathOrder) - 1) : m \in S => m + 1 \in S
    BY <1>2
  <2> QED
    BY <1>1, <2>1, Ranks, CountingUp
<1> QED
  BY <1>3

\* flatten() gives what it collects from all paths.
LEMMA FlatCollects == \A t : \E f : Collects(f, t, Len(PathOrder)) /\ Flat(t) = f[Len(PathOrder)]
<1> SUFFICES ASSUME NEW t
             PROVE  \E f : Collects(f, t, Len(PathOrder)) /\ Flat(t) = f[Len(PathOrder)]
  OBVIOUS
<1>1. PICK f : Collects(f, t, Len(PathOrder))
  BY Collecting
<1>2. PICK g : g = CHOOSE h : Collects(h, t, Len(PathOrder))
  OBVIOUS
<1>3. Collects(g, t, Len(PathOrder))
  BY <1>1, <1>2
<1>4. Flat(t) = g[Len(PathOrder)]
  BY <1>2, Zenon DEF Flat, Collects
<1> QED
  BY <1>3, <1>4

\* The sequence s has the elements of D up to rank m, by rank.
Sorted(s, D, m) ==
  /\ s \in Seq(D)
  /\ \A i \in 1 .. Len(s) : Rank(s[i]) <= m
  /\ \A i, j \in 1 .. Len(s) : i < j => Rank(s[i]) < Rank(s[j])
  /\ \A p \in D : Rank(p) <= m => \E i \in 1 .. Len(s) : s[i] = p

\* flatten() gives all keys, by rank.
LEMMA FlatIsSorted ==
  ASSUME NEW t, DOMAIN t \subseteq Paths
  PROVE  Sorted(Flat(t), DOMAIN t, Len(PathOrder))
<1>1. PICK f : Collects(f, t, Len(PathOrder)) /\ Flat(t) = f[Len(PathOrder)]
  BY FlatCollects
<1>2. PICK N \in Nat : N = Len(PathOrder)
  BY Ranks
<1> DEFINE S == {m \in 0 .. N : Sorted(f[m], DOMAIN t, m)}
<1>3. 0 \in S
  <2>1. f[0] = <<>>
    BY <1>1, <1>2 DEF Collects
  <2>2. \A p \in DOMAIN t : ~(Rank(p) <= 0)
    BY Ranks
  <2>3. Sorted(<<>>, DOMAIN t, 0)
    BY <2>2 DEF Sorted
  <2> QED
    BY <2>1, <2>3
<1>4. ASSUME NEW m \in 0 .. (N - 1), m \in S PROVE m + 1 \in S
  <2>1. PICK s : s = f[m]
    OBVIOUS
  <2>2. PICK p : p = PathOrder[m + 1]
    OBVIOUS
  <2>3. f[m + 1] = IF p \in DOMAIN t THEN Append(s, p) ELSE s
    <3>1. m + 1 \in 0 .. N /\ m + 1 # 0 /\ (m + 1) - 1 = m
      BY <1>4
    <3> QED
      BY <1>1, <1>2, <2>1, <2>2, <3>1 DEF Collects
  <2>4. /\ p \in Paths /\ Rank(p) = m + 1
        /\ \A q \in DOMAIN t : Rank(q) \in Nat
        /\ \A q \in DOMAIN t : Rank(q) = m + 1 => q = p
    BY <1>2, <2>2, Ranks
  <2>5. Sorted(s, DOMAIN t, m) /\ Len(s) \in Nat /\ \A i \in 1 .. Len(s) : s[i] \in DOMAIN t
    BY <1>4, <2>1 DEF Sorted
  <2>6. CASE p \in DOMAIN t
    <3>1. PICK r : r = Append(s, p)
      OBVIOUS
    <3>2. /\ r \in Seq(DOMAIN t) /\ Len(r) = Len(s) + 1
          /\ \A i \in 1 .. Len(s) : r[i] = s[i]
          /\ r[Len(s) + 1] = p
      BY <2>5, <2>6, <3>1 DEF Sorted
    <3>3. \A i \in 1 .. Len(r) : i = Len(s) + 1 \/ i \in 1 .. Len(s)
      BY <2>5, <3>2
    <3>4. \A i \in 1 .. Len(s) : Rank(s[i]) <= m /\ Rank(s[i]) \in Nat
      BY <2>4, <2>5 DEF Sorted
    <3>5. \A i \in 1 .. Len(r) : Rank(r[i]) <= m + 1
      BY <2>4, <3>2, <3>3, <3>4
    <3>6. ASSUME NEW i \in 1 .. Len(r), NEW j \in 1 .. Len(r), i < j
          PROVE  Rank(r[i]) < Rank(r[j])
      <4>1. i \in 1 .. Len(s)
        BY <2>5, <3>2, <3>6
      <4>2. CASE j = Len(s) + 1
        BY <2>4, <3>2, <3>4, <4>1, <4>2
      <4>3. CASE j \in 1 .. Len(s)
        BY <2>5, <3>2, <3>6, <4>1, <4>3 DEF Sorted
      <4> QED
        BY <3>3, <4>2, <4>3
    <3>7. ASSUME NEW q \in DOMAIN t, Rank(q) <= m + 1 PROVE \E i \in 1 .. Len(r) : r[i] = q
      <4>1. CASE Rank(q) <= m
        <5>1. PICK i \in 1 .. Len(s) : s[i] = q
          BY <2>5, <4>1 DEF Sorted
        <5> QED
          BY <2>5, <3>2, <5>1
      <4>2. CASE ~(Rank(q) <= m)
        <5>1. q = p
          BY <2>4, <3>7, <4>2
        <5>2. Len(s) + 1 \in 1 .. Len(r)
          BY <2>5, <3>2
        <5> QED
          BY <3>2, <5>1, <5>2
      <4> QED
        BY <4>1, <4>2
    <3>8. Sorted(r, DOMAIN t, m + 1)
      BY <3>2, <3>5, <3>6, <3>7 DEF Sorted
    <3>9. m + 1 \in 0 .. N /\ f[m + 1] = r
      BY <1>4, <2>3, <2>6, <3>1
    <3> QED
      BY <3>8, <3>9
  <2>7. CASE p \notin DOMAIN t
    <3>1. \A i \in 1 .. Len(s) : Rank(s[i]) <= m + 1
      BY <2>4, <2>5 DEF Sorted
    <3>2. \A q \in DOMAIN t : Rank(q) <= m + 1 => Rank(q) <= m
      BY <2>4, <2>7
    <3>3. Sorted(s, DOMAIN t, m + 1)
      BY <2>5, <3>1, <3>2 DEF Sorted
    <3> QED
      BY <2>3, <2>7, <3>3
  <2> QED
    BY <2>6, <2>7
<1>5. N \in S
  <2> HIDE DEF S
  <2> QED
    BY <1>3, <1>4, CountingUp
<1> QED
  BY <1>1, <1>2, <1>5

-----------------------------------------------------------------------------
\* Trees.

\* A tree has a value of its own for each of its paths.
LEMMA TreesAreTyped ==
  \A t : t \in Trees <=> /\ t = [p \in DOMAIN t |-> t[p]]
                         /\ DOMAIN t \subseteq Paths
                         /\ \A p \in DOMAIN t : t[p] \in ValuesOf[p]
<1> DEFINE All == UNION {ValuesOf[p] : p \in Paths}
           On(S) == {t \in [S -> All] : \A p \in S : t[p] \in ValuesOf[p]}
<1>1. Trees = UNION {On(S) : S \in SUBSET Paths}
  BY DEF Trees
<1> SUFFICES ASSUME NEW t
             PROVE  t \in Trees <=> /\ t = [p \in DOMAIN t |-> t[p]]
                                    /\ DOMAIN t \subseteq Paths
                                    /\ \A p \in DOMAIN t : t[p] \in ValuesOf[p]
  OBVIOUS
<1>2. ASSUME t \in Trees
      PROVE  /\ t = [p \in DOMAIN t |-> t[p]]
             /\ DOMAIN t \subseteq Paths
             /\ \A p \in DOMAIN t : t[p] \in ValuesOf[p]
  <2>1. PICK S \in SUBSET Paths : t \in On(S)
    BY <1>1, <1>2
  <2> QED
    BY <2>1
<1>3. ASSUME t = [p \in DOMAIN t |-> t[p]], DOMAIN t \subseteq Paths,
             \A p \in DOMAIN t : t[p] \in ValuesOf[p]
      PROVE  t \in Trees
  <2>1. t \in [DOMAIN t -> All]
    BY <1>3
  <2>2. t \in On(DOMAIN t)
    BY <1>3, <2>1
  <2> QED
    BY <1>1, <1>3, <2>2
<1> QED
  BY <1>2, <1>3

\* Merging two trees gives a tree, and so does setting a key.
LEMMA OverlaidIsTree ==
  ASSUME NEW s \in Trees, NEW t \in Trees
  PROVE  Overlaid(s, t) \in Trees
<1>1. PICK m : m = Overlaid(s, t)
  OBVIOUS
<1>2. /\ m = [p \in DOMAIN s \cup DOMAIN t |-> IF p \in DOMAIN s THEN s[p] ELSE t[p]]
      /\ DOMAIN m = DOMAIN s \cup DOMAIN t
  BY <1>1 DEF Overlaid
<1>3. /\ m = [p \in DOMAIN m |-> m[p]] /\ DOMAIN m \subseteq Paths
      /\ \A p \in DOMAIN m : m[p] \in ValuesOf[p]
  BY <1>2, TreesAreTyped
<1> QED
  BY <1>1, <1>3, TreesAreTyped

\* What a tree has when a key is set.
LEMMA WithKey ==
  ASSUME NEW t \in Trees, NEW p \in Paths, NEW v \in ValuesOf[p]
  PROVE  /\ With(t, p, v) \in Trees
         /\ DOMAIN With(t, p, v) = DOMAIN t \cup {p}
         /\ With(t, p, v)[p] = v
         /\ \A q \in DOMAIN t \ {p} : With(t, p, v)[q] = t[q]
<1>1. PICK one : one = [q \in {p} |-> v]
  OBVIOUS
<1>2. one \in Trees
  BY <1>1, TreesAreTyped
<1>3. With(t, p, v) \in Trees
  BY <1>1, <1>2, OverlaidIsTree DEF With
<1> QED
  BY <1>3 DEF With, Overlaid

\* The keys in order: each of them once.
LEMMA FlatKeys ==
  ASSUME NEW t \in Trees
  PROVE  /\ Flat(t) \in Seq(DOMAIN t) /\ Len(Flat(t)) \in Nat
         /\ DOMAIN Flat(t) = 1 .. Len(Flat(t))
         /\ \A i \in 1 .. Len(Flat(t)) : Flat(t)[i] \in DOMAIN t
         /\ \A i, j \in 1 .. Len(Flat(t)) : Flat(t)[i] = Flat(t)[j] => i = j
         /\ \A p \in DOMAIN t : \E i \in 1 .. Len(Flat(t)) : Flat(t)[i] = p
<1>1. DOMAIN t \subseteq Paths
  BY TreesAreTyped
<1>2. PICK s : s = Flat(t)
  OBVIOUS
<1>3. Sorted(s, DOMAIN t, Len(PathOrder))
  BY <1>1, <1>2, FlatIsSorted
<1>4. /\ s \in Seq(DOMAIN t) /\ Len(s) \in Nat /\ DOMAIN s = 1 .. Len(s)
      /\ \A i \in 1 .. Len(s) : s[i] \in DOMAIN t
  BY <1>3 DEF Sorted
<1>5. \A i \in 1 .. Len(s) : Rank(s[i]) \in Nat
  BY <1>1, <1>4, Ranks
<1>6. ASSUME NEW i \in 1 .. Len(s), NEW j \in 1 .. Len(s), s[i] = s[j] PROVE i = j
  <2>1. ~(i < j) /\ ~(j < i)
    BY <1>3, <1>5, <1>6 DEF Sorted
  <2> QED
    BY <1>4, <2>1
<1>7. \A p \in DOMAIN t : \E i \in 1 .. Len(s) : s[i] = p
  BY <1>1, <1>3, Ranks DEF Sorted
<1> QED
  BY <1>2, <1>4, <1>6, <1>7

\* Paths below a sub.
LEMMA BelowSub ==
  ASSUME NEW id \in Seq(STRING), NEW p \in Seq(STRING) \ {<<>>}
  PROVE  /\ id \o p \in Seq(STRING)
         /\ IsStrictPrefix(id, id \o p)
         /\ SubSeq(id \o p, Len(id) + 1, Len(id \o p)) = p
<1>1. PICK q : q = id \o p
  OBVIOUS
<1>2. /\ q \in Seq(STRING) /\ Len(q) = Len(id) + Len(p)
      /\ Len(id) \in Nat /\ Len(p) \in Nat \ {0}
      /\ \A i \in 1 .. Len(id) : q[i] = id[i]
      /\ \A i \in 1 .. Len(p) : q[Len(id) + i] = p[i]
  BY <1>1
<1>3. SubSeq(q, 1, Len(id)) = id
  <2>1. \A i \in 1 .. Len(id) : q[i] \in STRING
    BY <1>2
  <2>2. PICK r : r = SubSeq(q, 1, Len(id))
    OBVIOUS
  <2>3. /\ r \in Seq(STRING) /\ Len(r) = IF 1 <= Len(id) THEN Len(id) - 1 + 1 ELSE 0
        /\ \A i \in 1 .. (Len(id) - 1 + 1) : r[i] = q[1 + i - 1]
    BY <1>2, <2>1, <2>2, SubSeqProperties
  <2>4. Len(r) = Len(id) /\ \A i \in 1 .. Len(id) : r[i] = id[i]
    BY <1>2, <2>3
  <2> QED
    BY <2>2, <2>3, <2>4
<1>4. SubSeq(q, Len(id) + 1, Len(q)) = p
  <2>1. \A i \in (Len(id) + 1) .. Len(q) : q[i] \in STRING
    BY <1>2
  <2>2. PICK r : r = SubSeq(q, Len(id) + 1, Len(q))
    OBVIOUS
  <2>3. /\ r \in Seq(STRING)
        /\ Len(r) = IF Len(id) + 1 <= Len(q) THEN Len(q) - (Len(id) + 1) + 1 ELSE 0
        /\ \A i \in 1 .. (Len(q) - (Len(id) + 1) + 1) : r[i] = q[(Len(id) + 1) + i - 1]
    BY <1>2, <2>1, <2>2, SubSeqProperties
  <2>4. Len(r) = Len(p) /\ \A i \in 1 .. Len(p) : r[i] = p[i]
    <3>1. Len(r) = Len(p)
      BY <1>2, <2>3
    <3>2. ASSUME NEW i \in 1 .. Len(p) PROVE r[i] = p[i]
      <4>1. i \in 1 .. (Len(q) - (Len(id) + 1) + 1) /\ (Len(id) + 1) + i - 1 = Len(id) + i
        BY <1>2
      <4> QED
        BY <1>2, <2>3, <4>1
    <3> QED
      BY <3>1, <3>2
  <2> QED
    BY <2>2, <2>3, <2>4, SeqEqual
<1>5. IsStrictPrefix(id, q)
  <2>1. SubSeq(id, 1, Len(id)) = id
    BY <1>2
  <2>2. Len(id) <= Len(q) /\ id # q
    BY <1>2
  <2> QED
    BY <1>3, <2>1, <2>2 DEF IsStrictPrefix, IsPrefix
<1> QED
  BY <1>1, <1>2, <1>4, <1>5

-----------------------------------------------------------------------------
\* The inductive invariant.

\* What c says of a call of add(): every key ends up inside of the paths.
Adding(c) ==
  /\ c = [of |-> "add", other |-> c.other, id |-> c.id, overwrite |-> c.overwrite,
          rest |-> c.rest, end |-> c.end]
  /\ c.other \in Trees /\ c.id \in Seq(STRING) /\ c.overwrite \in BOOLEAN
  /\ \A p \in DOMAIN c.other : c.id \o p \in Paths /\ c.other[p] \in ValuesOf[c.id \o p]

\* The key number i of those that call c adds, and the first n of them.
KeyAt(c, i) == c.id \o Flat(c.other)[i]
KeysUpTo(c, n) == {KeyAt(c, i) : i \in 1 .. n}

\* The first n keys have been set in b, which gives t, and the others are left.
Progress(c, t, b, n) ==
  /\ n \in 0 .. Len(Flat(c.other))
  /\ c.rest = SubSeq(Flat(c.other), n + 1, Len(Flat(c.other)))
  /\ DOMAIN t = DOMAIN b \cup KeysUpTo(c, n)
  /\ \A i \in 1 .. n : t[KeyAt(c, i)] = c.other[Flat(c.other)[i]]
  /\ \A p \in DOMAIN b \ KeysUpTo(c, n) : t[p] = b[p]
  /\ c.overwrite \/ KeysUpTo(c, n) \cap DOMAIN b = {}
  /\ c.end = "returned" => n = Len(Flat(c.other))
  /\ c.end = "configuration_error" =>
       ~c.overwrite /\ n < Len(Flat(c.other)) /\ KeyAt(c, n + 1) \in DOMAIN b

MergeIndInv ==
  /\ ConfigurationTypeOK
  /\ call.end = "running" => call.of = "add"
  /\ call.of = "add" => Adding(call) /\ \E n : Progress(call, tree, before, n)
  /\ call.of = "set" /\ call.end # "returned" => tree = before
  /\ OptionsWin

-----------------------------------------------------------------------------
\* The keys that a call adds are paths, each another one.
LEMMA KeysApart ==
  ASSUME NEW c, Adding(c)
  PROVE  /\ Len(Flat(c.other)) \in Nat
         /\ \A i \in 1 .. Len(Flat(c.other)) :
              /\ Flat(c.other)[i] \in DOMAIN c.other /\ KeyAt(c, i) \in Paths
              /\ c.other[Flat(c.other)[i]] \in ValuesOf[KeyAt(c, i)]
         /\ \A i, j \in 1 .. Len(Flat(c.other)) : KeyAt(c, i) = KeyAt(c, j) => i = j
<1>1. PICK f : f = Flat(c.other)
  OBVIOUS
<1>2. /\ Len(f) \in Nat /\ \A i \in 1 .. Len(f) : f[i] \in DOMAIN c.other
      /\ \A i, j \in 1 .. Len(f) : f[i] = f[j] => i = j
  BY <1>1, FlatKeys DEF Adding
<1>3. DOMAIN c.other \subseteq Seq(STRING) \ {<<>>} /\ c.id \in Seq(STRING)
  BY Ranks, TreesAreTyped DEF Adding
<1>4. \A i \in 1 .. Len(f) : KeyAt(c, i) = c.id \o f[i]
  BY <1>1 DEF KeyAt
<1>5. ASSUME NEW i \in 1 .. Len(f), NEW j \in 1 .. Len(f), KeyAt(c, i) = KeyAt(c, j) PROVE i = j
  <2>1. c.id \o f[i] = c.id \o f[j]
    BY <1>4, <1>5
  <2>2. /\ SubSeq(c.id \o f[i], Len(c.id) + 1, Len(c.id \o f[i])) = f[i]
        /\ SubSeq(c.id \o f[j], Len(c.id) + 1, Len(c.id \o f[j])) = f[j]
    BY <1>2, <1>3, BelowSub
  <2>3. f[i] = f[j]
    BY <2>1, <2>2, Zenon
  <2> QED
    BY <1>2, <2>3
<1> QED
  BY <1>1, <1>2, <1>4, <1>5 DEF Adding

\* They depend on the tree and the sub only.
LEMMA SameKeys ==
  ASSUME NEW c, NEW e, c.other = e.other, c.id = e.id
  PROVE  /\ Flat(c.other) = Flat(e.other)
         /\ \A i : KeyAt(c, i) = KeyAt(e, i)
         /\ \A n : KeysUpTo(c, n) = KeysUpTo(e, n)
<1>1. Flat(c.other) = Flat(e.other)
  BY Zenon
<1>2. \A i : KeyAt(c, i) = KeyAt(e, i)
  BY <1>1, Zenon DEF KeyAt
<1> QED
  BY <1>1, <1>2 DEF KeysUpTo

\* What makes progress up.
LEMMA ProgressMade ==
  ASSUME NEW c, NEW t, NEW b, NEW n, NEW f, f = Flat(c.other),
         n \in 0 .. Len(f),
         c.rest = SubSeq(f, n + 1, Len(f)),
         DOMAIN t = DOMAIN b \cup KeysUpTo(c, n),
         \A i \in 1 .. n : t[KeyAt(c, i)] = c.other[f[i]],
         \A p \in DOMAIN b \ KeysUpTo(c, n) : t[p] = b[p],
         c.overwrite \/ KeysUpTo(c, n) \cap DOMAIN b = {},
         c.end = "returned" => n = Len(f),
         c.end = "configuration_error" =>
           ~c.overwrite /\ n < Len(f) /\ KeyAt(c, n + 1) \in DOMAIN b
  PROVE  Progress(c, t, b, n)
BY Zenon DEF Progress

\* A call that ends has set what it had set.
LEMMA ProgressEnds ==
  ASSUME NEW c, NEW e, NEW t, NEW b, NEW n, Progress(e, t, b, n),
         c.other = e.other, c.id = e.id, c.rest = e.rest, c.overwrite = e.overwrite,
         c.end = "returned" => n = Len(Flat(e.other)),
         c.end = "configuration_error" =>
           ~e.overwrite /\ n < Len(Flat(e.other)) /\ KeyAt(e, n + 1) \in DOMAIN b
  PROVE  Progress(c, t, b, n)
<1>1. PICK f : f = Flat(e.other)
  OBVIOUS
<1>2. /\ f = Flat(c.other) /\ \A i : KeyAt(c, i) = KeyAt(e, i)
      /\ KeysUpTo(c, n) = KeysUpTo(e, n)
  BY <1>1, SameKeys, Zenon
<1>3. /\ n \in 0 .. Len(f)
      /\ c.rest = SubSeq(f, n + 1, Len(f))
      /\ DOMAIN t = DOMAIN b \cup KeysUpTo(c, n)
      /\ \A i \in 1 .. n : t[KeyAt(c, i)] = c.other[f[i]]
      /\ \A p \in DOMAIN b \ KeysUpTo(c, n) : t[p] = b[p]
      /\ c.overwrite \/ KeysUpTo(c, n) \cap DOMAIN b = {}
  BY <1>1, <1>2, Zenon DEF Progress
<1>4. c.end = "returned" => n = Len(f)
  BY <1>1
<1>5. c.end = "configuration_error" =>
        ~c.overwrite /\ n < Len(f) /\ KeyAt(c, n + 1) \in DOMAIN b
  BY <1>1, <1>2, Zenon
<1> QED
  BY <1>2, <1>3, <1>4, <1>5, ProgressMade

\* A call of add() begins with no key set.
LEMMA AddBegins ==
  ASSUME NEW other \in Inputs, NEW id \in SubIds, NEW overwrite \in BOOLEAN,
         StartAdding(other, id, overwrite),
         tree' \in Trees, log_on_exit_' \in BOOLEAN, logfile_' \in Files
  PROVE  MergeIndInv'
<1>1. /\ call' = [of |-> "add", other |-> other, id |-> id, overwrite |-> overwrite,
                  rest |-> Flat(other), end |-> "running"]
      /\ before' = tree'
      /\ \A p \in DOMAIN other : id \o p \in Paths /\ other[p] \in ValuesOf[id \o p]
  BY DEF StartAdding
<1>2. other \in Trees /\ id \in Seq(STRING)
  BY ConfigurationAssumption
<1>3. /\ call'.of = "add" /\ call'.other = other /\ call'.id = id /\ call'.end = "running"
      /\ call'.overwrite = overwrite /\ call'.rest = Flat(other)
  BY <1>1
<1>4. Adding(call)'
  BY <1>1, <1>2, <1>3 DEF Adding
<1>5. Progress(call', tree', before', 0)
  <2>1. KeysUpTo(call', 0) = {}
    BY DEF KeysUpTo
  <2>2. Flat(other) \in Seq(DOMAIN other) /\ Len(Flat(other)) \in Nat
    BY <1>2, FlatKeys
  <2>3. PICK f : f = Flat(other)
    OBVIOUS
  <2>4. f = SubSeq(f, 0 + 1, Len(f)) /\ 0 \in 0 .. Len(f)
    BY <2>2, <2>3
  <2>5. call'.rest = SubSeq(Flat(call'.other), 0 + 1, Len(Flat(call'.other)))
    BY <1>3, <2>3, <2>4
  <2> QED
    <3>1. PICK c, b : c = call' /\ b = before'
      OBVIOUS
    <3>2. /\ DOMAIN b = DOMAIN b \cup KeysUpTo(c, 0)
          /\ \A i \in 1 .. 0 : b[KeyAt(c, i)] = c.other[f[i]]
          /\ \A p \in DOMAIN b \ KeysUpTo(c, 0) : b[p] = b[p]
          /\ KeysUpTo(c, 0) \cap DOMAIN b = {}
      BY <2>1, <3>1
    <3>3. c.end = "running" /\ f = Flat(c.other) /\ c.rest = SubSeq(f, 0 + 1, Len(f))
      BY <1>3, <2>3, <2>5, <3>1
    <3>4. Progress(c, b, b, 0)
      BY <2>4, <3>2, <3>3, ProgressMade
    <3> QED
      BY <1>1, <3>1, <3>4
<1>6. ConfigurationTypeOK'
  BY <1>1, <1>3 DEF ConfigurationTypeOK
<1> QED
  BY <1>3, <1>4, <1>5, <1>6 DEF MergeIndInv, OptionsWin

\* A step of add_tree_() sets the next key, is done or meets a key that exists.
LEMMA AddGoesOn ==
  ASSUME MergeIndInv, AddKey
  PROVE  MergeIndInv'
<1>1. /\ call.end = "running" /\ call.of = "add" /\ Adding(call)
      /\ before' = before /\ UNCHANGED <<log_on_exit_, logfile_>> /\ ConfigurationTypeOK
  BY DEF AddKey, MergeIndInv
<1>2. PICK n : Progress(call, tree, before, n)
  BY <1>1 DEF MergeIndInv
<1>3. PICK f : f = Flat(call.other)
  OBVIOUS
<1>4. /\ f \in Seq(DOMAIN call.other) /\ Len(f) \in Nat /\ n \in 0 .. Len(f)
      /\ call.rest = SubSeq(f, n + 1, Len(f))
  BY <1>1, <1>2, <1>3, FlatKeys DEF Progress, Adding
<1>5. PICK o, d, w, r :
        call = [of |-> "add", other |-> o, id |-> d, overwrite |-> w, rest |-> r,
                end |-> "running"]
  BY <1>1 DEF Adding
<1>6. ASSUME NEW rest, NEW end \in {"running", "returned", "configuration_error"},
             call' = [of |-> "add", other |-> o, id |-> d, overwrite |-> w, rest |-> rest,
                      end |-> end],
             NEW m, Progress(call', tree', before', m), tree' \in Trees
      PROVE  MergeIndInv'
  <2>1. /\ call'.of = "add" /\ call'.other = o /\ call'.id = d /\ call'.overwrite = w
        /\ call'.rest = rest /\ call'.end = end
    BY <1>6
  <2>2. Adding(call)'
    BY <1>1, <1>5, <1>6, <2>1 DEF Adding
  <2>3. ConfigurationTypeOK'
    BY <1>1, <1>6, <2>1 DEF ConfigurationTypeOK
  <2>4. \E k : Progress(call', tree', before', k)
    BY <1>6
  <2>5. OptionsWin'
    BY <2>1 DEF OptionsWin
  <2> QED
    BY <2>1, <2>2, <2>3, <2>4, <2>5 DEF MergeIndInv
<1>7. /\ Flat(o) = f /\ call.other = o /\ call.id = d /\ call.overwrite = w /\ call.rest = r
      /\ call.of = "add" /\ call.end = "running"
  BY <1>3, <1>5
<1>8. CASE call.rest = <<>>
  <2>1. call' = [call EXCEPT !.end = "returned"] /\ tree' = tree
    BY <1>8 DEF AddKey
  <2>2. call' = [of |-> "add", other |-> o, id |-> d, overwrite |-> w, rest |-> r,
                 end |-> "returned"]
    BY <1>5, <2>1
  <2>3. n = Len(f)
    <3>1. CASE n < Len(f)
      <4>1. n + 1 \in 1 .. Len(f) /\ Len(f) \in (n + 1) .. Len(f)
        BY <1>4, <3>1
      <4>2. \A i \in (n + 1) .. Len(f) : f[i] \in DOMAIN call.other
        BY <1>4, <4>1
      <4>3. Len(call.rest) = IF n + 1 <= Len(f) THEN Len(f) - (n + 1) + 1 ELSE 0
        BY <1>4, <4>1, <4>2, SubSeqProperties
      <4> QED
        BY <1>4, <1>8, <3>1, <4>3
    <3> QED
      BY <1>4, <3>1
  <2>4. Progress(call', tree', before', n)
    <3>1. /\ call'.other = call.other /\ call'.id = call.id /\ call'.rest = call.rest
          /\ call'.overwrite = call.overwrite /\ call'.end = "returned"
      BY <1>7, <2>2
    <3>2. PICK c : c = call'
      OBVIOUS
    <3>3. c.end = "returned" /\ n = Len(Flat(call.other))
      BY <1>3, <2>3, <3>1, <3>2
    <3>4. Progress(c, tree, before, n)
      BY <1>2, <3>1, <3>2, <3>3, ProgressEnds
    <3> QED
      BY <1>1, <2>1, <3>2, <3>4
  <2> QED
    BY <1>1, <1>6, <2>1, <2>2, <2>4 DEF ConfigurationTypeOK
<1>9. CASE call.rest # <<>>
  <2>1. n < Len(f)
    <3>1. CASE n = Len(f)
      <4>1. Len(f) < n + 1
        BY <1>4, <3>1
      <4>2. call.rest = <<>>
        BY <1>4, <4>1, SubSeqEmpty
      <4> QED
        BY <1>9, <4>2
    <3> QED
      BY <1>4, <3>1
  <2>2. /\ Head(call.rest) = f[n + 1]
        /\ Tail(call.rest) = SubSeq(f, (n + 1) + 1, Len(f))
    <3>1. n + 1 \in 1 .. Len(f) /\ Len(f) \in (n + 1) .. Len(f)
      BY <1>4, <2>1
    <3> QED
      BY <1>4, <3>1, HeadTailOfSubSeq
  <2>3. PICK p : p = KeyAt(call, n + 1)
    OBVIOUS
  <2>4. p = call.id \o Head(call.rest) /\ p \in Paths
        /\ call.other[Head(call.rest)] \in ValuesOf[p]
        /\ \A i \in 1 .. n : KeyAt(call, i) # p
    <3>1. n + 1 \in 1 .. Len(f) /\ 1 .. n \subseteq 1 .. Len(f) /\ n + 1 \notin 1 .. n
      BY <1>4, <2>1
    <3> QED
      BY <1>1, <1>3, <2>2, <2>3, <3>1, KeysApart DEF KeyAt
  <2>5. CASE p \in DOMAIN tree /\ ~call.overwrite
    <3>1. call' = [call EXCEPT !.end = "configuration_error"] /\ tree' = tree
      BY <1>9, <2>4, <2>5 DEF AddKey
    <3>2. call' = [of |-> "add", other |-> o, id |-> d, overwrite |-> w, rest |-> r,
                   end |-> "configuration_error"]
      BY <1>5, <3>1
    <3>3. p \in DOMAIN before
      BY <1>2, <2>4, <2>5 DEF Progress, KeysUpTo
    <3>4. Progress(call', tree', before', n)
      <4>1. /\ call'.other = call.other /\ call'.id = call.id /\ call'.rest = call.rest
            /\ call'.overwrite = call.overwrite /\ call'.end = "configuration_error"
        BY <1>7, <3>2
      <4>2. PICK c : c = call'
        OBVIOUS
      <4>3. /\ ~call.overwrite /\ n < Len(Flat(call.other))
            /\ KeyAt(call, n + 1) \in DOMAIN before
        BY <1>3, <2>1, <2>3, <2>5, <3>3
      <4>4. Progress(c, tree, before, n)
        BY <1>2, <4>1, <4>2, <4>3, ProgressEnds
      <4> QED
        BY <1>1, <3>1, <4>2, <4>4
    <3> QED
      BY <1>1, <1>6, <3>1, <3>2, <3>4 DEF ConfigurationTypeOK
  <2>6. CASE ~(p \in DOMAIN tree /\ ~call.overwrite)
    <3>1. PICK v : v = call.other[Head(call.rest)]
      OBVIOUS
    <3>2. call' = [call EXCEPT !.rest = Tail(call.rest)] /\ tree' = With(tree, p, v)
      BY <1>9, <2>4, <2>6, <3>1 DEF AddKey
    <3>3. call' = [of |-> "add", other |-> o, id |-> d, overwrite |-> w,
                   rest |-> Tail(call.rest), end |-> "running"]
      BY <1>5, <3>2
    <3>4. /\ tree' \in Trees /\ DOMAIN tree' = DOMAIN tree \cup {p} /\ tree'[p] = v
          /\ \A q \in DOMAIN tree \ {p} : tree'[q] = tree[q]
      <4>1. tree \in Trees /\ p \in Paths /\ v \in ValuesOf[p] /\ tree' = With(tree, p, v)
        BY <1>1, <2>4, <3>1, <3>2 DEF ConfigurationTypeOK
      <4> QED
        BY <4>1, WithKey
    <3>5. KeysUpTo(call, n + 1) = KeysUpTo(call, n) \cup {p}
      <4>1. \A i : i \in 1 .. (n + 1) <=> i \in 1 .. n \/ i = n + 1
        BY <1>4
      <4> QED
        BY <2>3, <4>1 DEF KeysUpTo
    <3>6. /\ call'.other = call.other /\ call'.id = call.id /\ call'.overwrite = call.overwrite
          /\ call'.rest = Tail(call.rest) /\ call'.end = "running"
      BY <1>7, <3>3
    <3>7. /\ Flat(call'.other) = f /\ \A i : KeyAt(call', i) = KeyAt(call, i)
          /\ KeysUpTo(call', n + 1) = KeysUpTo(call, n) \cup {p}
      BY <1>3, <3>5, <3>6, SameKeys
    <3>8. /\ DOMAIN tree' = DOMAIN before \cup KeysUpTo(call', n + 1)
          /\ \A q \in DOMAIN before \ KeysUpTo(call', n + 1) : tree'[q] = before[q]
          /\ call'.overwrite \/ KeysUpTo(call', n + 1) \cap DOMAIN before = {}
      BY <1>1, <1>2, <2>6, <3>4, <3>6, <3>7 DEF Progress
    <3>9. ASSUME NEW i \in 1 .. (n + 1) PROVE tree'[KeyAt(call', i)] = call.other[f[i]]
      <4>1. CASE i = n + 1
        BY <2>2, <2>3, <3>1, <3>4, <3>7, <4>1
      <4>2. CASE i # n + 1
        <5>1. i \in 1 .. n
          BY <1>4, <4>2
        <5>2. KeyAt(call, i) \in DOMAIN tree \ {p} /\ tree[KeyAt(call, i)] = call.other[f[i]]
          BY <1>2, <1>3, <2>4, <5>1 DEF Progress, KeysUpTo
        <5> QED
          BY <3>4, <3>7, <5>2
      <4> QED
        BY <4>1, <4>2
    <3>10. n + 1 \in 0 .. Len(f)
      BY <1>4, <2>1
    <3>11. Progress(call', tree', before', n + 1)
      <4>1. PICK c, t, b : c = call' /\ t = tree' /\ b = before'
        OBVIOUS
      <4>2. /\ f = Flat(c.other) /\ c.rest = SubSeq(f, (n + 1) + 1, Len(f))
            /\ c.end = "running"
        BY <2>2, <3>6, <3>7, <4>1
      <4>3. /\ DOMAIN t = DOMAIN b \cup KeysUpTo(c, n + 1)
            /\ \A q \in DOMAIN b \ KeysUpTo(c, n + 1) : t[q] = b[q]
            /\ c.overwrite \/ KeysUpTo(c, n + 1) \cap DOMAIN b = {}
        BY <1>1, <3>8, <4>1
      <4>4. \A i \in 1 .. (n + 1) : t[KeyAt(c, i)] = c.other[f[i]]
        BY <3>6, <3>9, <4>1
      <4>5. Progress(c, t, b, n + 1)
        BY <3>10, <4>2, <4>3, <4>4, ProgressMade
      <4> QED
        BY <4>1, <4>5
    <3> QED
      BY <1>6, <3>3, <3>4, <3>11
  <2> QED
    BY <2>5, <2>6
<1> QED
  BY <1>8, <1>9
\* Where the report goes is the default or made of a value of each of two keys.
LEMMA SetupIsFile ==
  ASSUME NEW t \in Trees, NEW file \in Files
  PROVE  setup_(t, file) \in Files
<1>1. DataDir \in Paths /\ LogDir \in Paths
  BY ConfigurationAssumption
<1>2. CASE {DataDir, LogDir} \subseteq DOMAIN t
  <2>1. t[DataDir] \in ValuesOf[DataDir] /\ t[LogDir] \in ValuesOf[LogDir]
    BY <1>2, TreesAreTyped
  <2> QED
    BY <1>2, <2>1 DEF setup_, Files
<1>3. CASE ~({DataDir, LogDir} \subseteq DOMAIN t)
  BY <1>3 DEF setup_
<1> QED
  BY <1>2, <1>3

\* A call other than add() ends at once: what it leaves if it returns.
LEMMA CallReturned ==
  ASSUME MergeIndInv, tree' \in Trees, before' \in Trees, log_on_exit_' \in BOOLEAN,
         logfile_' \in Files, NEW of, of # "add", call'.of = of,
         NEW end \in {"returned", "configuration_error"}, call'.end = end,
         of = "set" /\ end # "returned" => tree' = before', OptionsWin'
  PROVE  MergeIndInv'
<1>1. ConfigurationTypeOK'
  BY DEF ConfigurationTypeOK
<1>2. call'.end # "running" /\ call'.of # "add"
  OBVIOUS
<1> QED
  BY <1>1, <1>2 DEF MergeIndInv

\* The tree without keys is one.
LEMMA EmptyTree == <<>> \in Trees
<1>1. PICK empty : empty = [p \in {} |-> 0]
  OBVIOUS
<1>2. DOMAIN empty = {} /\ empty = [p \in DOMAIN empty |-> empty[p]]
  BY <1>1
<1>3. empty \in Trees
  BY <1>2, TreesAreTyped
<1>4. empty = <<>>
  BY <1>1
<1> QED
  BY <1>3, <1>4

\* Every such call keeps the invariant.
LEMMA OthersEnd ==
  ASSUME MergeIndInv, ConfigurationAssumption,
         \/ ConstructFromTree \/ ConstructFromPairs
         \/ \E p \in Paths, overwrite \in BOOLEAN : \E v \in ValuesOf[p] : Set(p, v, overwrite)
         \/ \E other \in Elsewhere, found \in {tree, <<>>} : CopyFrom(other, found)
         \/ \E file, options \in Inputs : ReadCommandLine(file, options)
         \/ \E options \in Inputs : ReadOptions(options)
         \/ \E file \in Files : SetLogfile(file)
         \/ \E value \in BOOLEAN : SetLogOnExit(value)
  PROVE  MergeIndInv'
<1>1. /\ tree \in Trees /\ before \in Trees /\ log_on_exit_ \in BOOLEAN /\ logfile_ \in Files
      /\ DefaultFile \in Files
  BY DEF MergeIndInv, ConfigurationTypeOK, Files
<1>2. Inputs \subseteq Trees
  BY ConfigurationAssumption
<1>3. CASE ConstructFromTree
  <2>1. PICK options \in Inputs, paramfile \in Inputs, log \in BOOLEAN :
          /\ before' = options /\ tree' = Initialized(options, paramfile)
          /\ log_on_exit_' = log /\ logfile_' = setup_(tree', DefaultFile)
    BY <1>3 DEF ConstructFromTree
  <2>2. PICK t : t = Overlaid(options, paramfile)
    OBVIOUS
  <2>3. t \in Trees /\ tree' = t
    BY <1>2, <2>1, <2>2, OverlaidIsTree DEF Initialized
  <2>4. logfile_' \in Files
    BY <1>1, <2>1, <2>3, SetupIsFile
  <2>5. call'.of = "construct" /\ call'.end = "returned"
    BY <1>3 DEF ConstructFromTree, Return
  <2>6. \A p \in DOMAIN before' : tree'[p] = before'[p]
    BY <2>1, <2>2, <2>3 DEF Overlaid
  <2>7. OptionsWin'
    BY <2>5, <2>6 DEF OptionsWin
  <2> QED
    BY <1>2, <2>1, <2>3, <2>4, <2>5, <2>7, CallReturned
<1>4. CASE ConstructFromPairs
  <2>1. /\ tree' \in Trees /\ before' = tree' /\ log_on_exit_' = FALSE /\ logfile_' = DefaultFile
        /\ call'.of = "other" /\ call'.end = "returned"
    BY <1>2, <1>4 DEF ConstructFromPairs, Return
  <2>2. OptionsWin'
    BY <2>1 DEF OptionsWin
  <2> QED
    BY <1>1, <2>1, <2>2, CallReturned
<1>5. CASE \E p \in Paths, overwrite \in BOOLEAN : \E v \in ValuesOf[p] : Set(p, v, overwrite)
  <2>1. PICK p \in Paths, overwrite \in BOOLEAN : \E v \in ValuesOf[p] : Set(p, v, overwrite)
    BY <1>5
  <2>2. PICK v \in ValuesOf[p] : Set(p, v, overwrite)
    BY <2>1
  <2>3. before' = tree /\ UNCHANGED <<log_on_exit_, logfile_>>
    BY <2>2 DEF Set
  <2>4. CASE p \in DOMAIN tree /\ ~overwrite
    <3>1. tree' = tree /\ call'.of = "set" /\ call'.end = "configuration_error"
      BY <2>2, <2>4 DEF Set, Return
    <3>2. OptionsWin'
      BY <3>1 DEF OptionsWin
    <3> QED
      BY <1>1, <2>3, <3>1, <3>2, CallReturned
  <2>5. CASE ~(p \in DOMAIN tree /\ ~overwrite)
    <3>1. tree' = With(tree, p, v) /\ call'.of = "set" /\ call'.end = "returned"
      BY <2>2, <2>5 DEF Set, Return
    <3>2. tree' \in Trees
      BY <1>1, <3>1, WithKey
    <3>3. OptionsWin'
      BY <3>1 DEF OptionsWin
    <3> QED
      BY <1>1, <2>3, <3>1, <3>2, <3>3, CallReturned
  <2> QED
    BY <2>4, <2>5
<1>6. CASE \E file, options \in Inputs : ReadCommandLine(file, options)
  <2>1. PICK file \in Inputs, options \in Inputs : ReadCommandLine(file, options)
    BY <1>6
  <2>2. /\ before' = tree /\ log_on_exit_' = log_on_exit_
        /\ tree' = Overlaid(options, Overlaid(file, tree)) /\ logfile_' = setup_(tree', logfile_)
        /\ call' = [of |-> "read_command_line", file |-> file, options |-> options,
                    end |-> "returned"]
    BY <2>1 DEF ReadCommandLine
  <2>3. /\ call'.of = "read_command_line" /\ call'.end = "returned"
        /\ call'.file = file /\ call'.options = options
    BY <2>2
  <2>4. PICK t, m : t = Overlaid(options, m) /\ m = Overlaid(file, tree)
    OBVIOUS
  <2>5. m \in Trees /\ t \in Trees /\ tree' = t
    BY <1>1, <1>2, <2>2, <2>4, OverlaidIsTree
  <2>6. logfile_' \in Files
    BY <1>1, <2>2, <2>5, SetupIsFile
  <2>7. \A p \in DOMAIN t :
          t[p] = IF p \in DOMAIN options THEN options[p]
                 ELSE IF p \in DOMAIN file THEN file[p] ELSE tree[p]
    BY <2>4 DEF Overlaid
  <2>8. OptionsWin'
    BY <2>2, <2>3, <2>5, <2>7 DEF OptionsWin
  <2> QED
    BY <1>1, <2>2, <2>3, <2>5, <2>6, <2>8, CallReturned
<1>7. CASE \E file \in Files : SetLogfile(file)
  <2>1. /\ before' = tree /\ UNCHANGED <<tree, log_on_exit_, logfile_>>
        /\ call'.of = "other" /\ call'.end = "returned"
    BY <1>7 DEF SetLogfile, Return
  <2>2. OptionsWin'
    BY <2>1 DEF OptionsWin
  <2> QED
    BY <1>1, <2>1, <2>2, CallReturned
<1>8. CASE \E value \in BOOLEAN : SetLogOnExit(value)
  <2>1. /\ before' = tree /\ UNCHANGED <<tree, logfile_>> /\ log_on_exit_' \in BOOLEAN
        /\ call'.of = "other" /\ call'.end = "returned"
    BY <1>8 DEF SetLogOnExit, Return
  <2>2. OptionsWin'
    BY <2>1 DEF OptionsWin
  <2> QED
    BY <1>1, <2>1, <2>2, CallReturned
<1>9. CASE \E other \in Elsewhere, found \in {tree, <<>>} : CopyFrom(other, found)
  <2>1. PICK other \in Elsewhere, found \in {tree, <<>>} : CopyFrom(other, found)
    BY <1>9
  <2>2. /\ other.log_on_exit \in BOOLEAN /\ other.logfile \in Files
        /\ \E s, t \in Inputs : other.tree = Overlaid(s, t)
    BY DEF Elsewhere
  <2>3. PICK s \in Inputs, t \in Inputs : other.tree = Overlaid(s, t)
    BY <2>2
  <2>4. other.tree \in Trees
    BY <1>2, <2>3, OverlaidIsTree
  <2>5. /\ before' = found /\ tree' = other.tree /\ log_on_exit_' = other.log_on_exit
        /\ logfile_' = other.logfile /\ call'.of = "other" /\ call'.end = "returned"
    BY <2>1 DEF CopyFrom, Return
  <2>6. OptionsWin'
    BY <2>5 DEF OptionsWin
  <2>7. before' \in Trees
    BY <1>1, <2>5, EmptyTree
  <2> QED
    BY <2>2, <2>4, <2>5, <2>6, <2>7, CallReturned
<1>10. CASE \E options \in Inputs : ReadOptions(options)
  <2>1. PICK options \in Inputs : ReadOptions(options)
    BY <1>10
  <2>2. /\ before' = tree /\ UNCHANGED <<log_on_exit_, logfile_>>
        /\ tree' = Overlaid(options, tree)
        /\ call' = [of |-> "read_options", options |-> options, end |-> "returned"]
    BY <2>1 DEF ReadOptions
  <2>3. call'.of = "read_options" /\ call'.end = "returned" /\ call'.options = options
    BY <2>2
  <2>4. PICK t : t = Overlaid(options, tree)
    OBVIOUS
  <2>5. t \in Trees /\ tree' = t
    BY <1>1, <1>2, <2>2, <2>4, OverlaidIsTree
  <2>6. \A p \in DOMAIN t : t[p] = IF p \in DOMAIN options THEN options[p] ELSE tree[p]
    BY <2>4 DEF Overlaid
  <2>7. OptionsWin'
    BY <2>2, <2>3, <2>5, <2>6 DEF OptionsWin
  <2> QED
    BY <1>1, <2>2, <2>3, <2>5, <2>7, CallReturned
<1> QED
  BY <1>3, <1>4, <1>5, <1>6, <1>7, <1>8, <1>9, <1>10

\* The invariant holds of a new, empty tree.
LEMMA MergeInit ==
  ConfigurationInit => MergeIndInv
<1> SUFFICES ASSUME ConfigurationInit PROVE MergeIndInv
  OBVIOUS
<1>1. /\ tree = <<>> /\ before = <<>> /\ log_on_exit_ = FALSE /\ logfile_ = DefaultFile
      /\ call.of = "construct" /\ call.end = "returned"
  BY DEF ConfigurationInit
<1>2. PICK empty : empty = [p \in {} |-> 0]
  OBVIOUS
<1>3. empty = <<>> /\ DOMAIN empty = {}
  BY <1>2
<1>4. tree \in Trees /\ before \in Trees
  BY <1>1, <1>2, <1>3, TreesAreTyped
<1>5. ConfigurationTypeOK
  <2>1. log_on_exit_ \in BOOLEAN /\ call.end \in {"running", "returned", "configuration_error"}
    BY <1>1
  <2>2. logfile_ \in Files
    BY <1>1 DEF Files
  <2> QED
    BY <1>4, <2>1, <2>2, Zenon DEF ConfigurationTypeOK
<1>6. OptionsWin
  BY <1>1, <1>3 DEF OptionsWin
<1> QED
  BY <1>1, <1>5, <1>6 DEF MergeIndInv

\* Every step keeps it.
LEMMA MergeStep ==
  MergeIndInv /\ [ConfigurationNext]_configurationVars => MergeIndInv'
<1> SUFFICES ASSUME MergeIndInv, [ConfigurationNext]_configurationVars PROVE MergeIndInv'
  OBVIOUS
<1>1. CASE UNCHANGED configurationVars
  <2>1. tree' = tree /\ before' = before /\ call' = call /\ UNCHANGED <<log_on_exit_, logfile_>>
    BY <1>1 DEF configurationVars
  <2>2. OptionsWin' /\ ConfigurationTypeOK'
    BY <2>1 DEF MergeIndInv, OptionsWin, ConfigurationTypeOK
  <2>3. call'.of = "add" => Adding(call') /\ \E n : Progress(call', tree', before', n)
    BY <2>1, Zenon DEF MergeIndInv
  <2> QED
    BY <2>1, <2>2, <2>3 DEF MergeIndInv
<1>2. CASE AddKey
  BY <1>2, AddGoesOn
<1>3. CASE \E other \in Inputs, id \in SubIds, overwrite \in BOOLEAN : Add(other, id, overwrite)
  <2>1. PICK other \in Inputs, id \in SubIds, overwrite \in BOOLEAN : Add(other, id, overwrite)
    BY <1>3
  <2>2. tree' \in Trees /\ log_on_exit_' \in BOOLEAN /\ logfile_' \in Files
    BY <2>1 DEF Add, MergeIndInv, ConfigurationTypeOK
  <2>3. StartAdding(other, id, overwrite)
    BY <2>1 DEF Add
  <2> QED
    BY <2>2, <2>3, AddBegins
<1>4. CASE \E other \in Inputs, id \in SubIds : ConstructFromSub(other, id)
  <2>1. PICK other \in Inputs, id \in SubIds : ConstructFromSub(other, id)
    BY <1>4
  <2>2. tree' = <<>> /\ log_on_exit_' = FALSE /\ logfile_' = DefaultFile
    BY <2>1 DEF ConstructFromSub
  <2>3. tree' \in Trees
    BY <2>2, EmptyTree
  <2>5. log_on_exit_' \in BOOLEAN /\ logfile_' \in Files
    <3>1. log_on_exit_' \in BOOLEAN
      BY <2>2, Zenon
    <3>2. DefaultFile \in Files
      BY DEF Files
    <3> QED
      BY <2>2, <3>1, <3>2
  <2>4. StartAdding(other, id, FALSE)
    BY <2>1 DEF ConstructFromSub
  <2> QED
    BY <2>3, <2>4, <2>5, AddBegins
<1> QED
  BY <1>1, <1>2, <1>3, <1>4, OthersEnd, ConfigurationAssumption DEF ConfigurationNext

\* A tree of keys below a sub is, below that sub, the tree of those keys.
LEMMA SubTreeOfKeys ==
  ASSUME NEW id \in Seq(STRING), NEW keys \in SUBSET (Seq(STRING) \ {<<>>}), NEW t
  PROVE  SubTree([p \in {id \o q : q \in keys} |-> t[p]], id) = [q \in keys |-> t[id \o q]]
<1>1. PICK s : s = [p \in {id \o q : q \in keys} |-> t[p]]
  OBVIOUS
<1>2. PICK below : below = {SubSeq(q, Len(id) + 1, Len(q)) :
                             q \in {q \in DOMAIN s : IsStrictPrefix(id, q)}}
  OBVIOUS
<1>3. \A q \in keys : /\ IsStrictPrefix(id, id \o q)
                      /\ SubSeq(id \o q, Len(id) + 1, Len(id \o q)) = q
  BY BelowSub
<1>4. DOMAIN s = {id \o q : q \in keys} /\ \A q \in keys : s[id \o q] = t[id \o q]
  BY <1>1
<1>5. below = keys
  <2>1. ASSUME NEW p \in below PROVE p \in keys
    <3>1. PICK q \in DOMAIN s : p = SubSeq(q, Len(id) + 1, Len(q))
      BY <1>2, <2>1
    <3>2. PICK k \in keys : q = id \o k
      BY <1>4, <3>1
    <3> QED
      BY <1>3, <3>1, <3>2
  <2>2. ASSUME NEW p \in keys PROVE p \in below
    <3>1. PICK q : q = id \o p
      OBVIOUS
    <3>2. q \in DOMAIN s /\ IsStrictPrefix(id, q) /\ SubSeq(q, Len(id) + 1, Len(q)) = p
      BY <1>3, <1>4, <3>1
    <3> QED
      BY <1>2, <3>2
  <2> QED
    BY <2>1, <2>2
<1>6. SubTree(s, id) = [p \in below |-> s[id \o p]]
  BY <1>2 DEF SubTree
<1> QED
  BY <1>1, <1>4, <1>5, <1>6

\* A call of add() that ended has set the whole tree, or the keys before the first
\* that existed.
LEMMA AddsAreInitial ==
  ASSUME MergeIndInv
  PROVE  AddsInitialSegment
<1> SUFFICES ASSUME call.of = "add", call.end # "running" PROVE AddsInitialSegment
  BY Zenon DEF AddsInitialSegment
<1>1. PICK n : Progress(call, tree, before, n)
  BY DEF MergeIndInv
<1>2. PICK f, o, id, w : /\ f = Flat(call.other) /\ o = call.other /\ id = call.id
                         /\ w = call.overwrite
  OBVIOUS
<1>3. /\ DOMAIN tree = DOMAIN before \cup KeysUpTo(call, n)
      /\ \A i \in 1 .. n : tree[KeyAt(call, i)] = o[f[i]]
      /\ w \/ KeysUpTo(call, n) \cap DOMAIN before = {}
  BY <1>1, <1>2, Zenon DEF Progress
<1>4. /\ n \in 0 .. Len(f)
      /\ call.end = "returned" => n = Len(f)
      /\ call.end = "configuration_error" =>
           ~w /\ n < Len(f) /\ KeyAt(call, n + 1) \in DOMAIN before
  BY <1>1, <1>2, Zenon DEF Progress
<1>5. Adding(call)
  BY DEF MergeIndInv
<1>6. /\ o \in Trees /\ id \in Seq(STRING) /\ DOMAIN o \subseteq Seq(STRING) \ {<<>>}
  BY <1>2, <1>5, Ranks, TreesAreTyped DEF Adding
<1>7. /\ Len(f) \in Nat /\ DOMAIN f = 1 .. Len(f)
      /\ \A i \in 1 .. Len(f) : f[i] \in DOMAIN o
      /\ \A i, j \in 1 .. Len(f) : f[i] = f[j] => i = j
      /\ \A p \in DOMAIN o : \E i \in 1 .. Len(f) : f[i] = p
  <2>1. f = Flat(o)
    BY <1>2, Zenon
  <2>2. /\ Len(Flat(o)) \in Nat /\ DOMAIN Flat(o) = 1 .. Len(Flat(o))
        /\ \A i \in 1 .. Len(Flat(o)) : Flat(o)[i] \in DOMAIN o
        /\ \A i, j \in 1 .. Len(Flat(o)) : Flat(o)[i] = Flat(o)[j] => i = j
        /\ \A p \in DOMAIN o : \E i \in 1 .. Len(Flat(o)) : Flat(o)[i] = p
    BY <1>6, FlatKeys, Zenon
  <2> QED
    BY <2>1, <2>2, Zenon
<1>8. /\ Len(f) \in Nat /\ n \in Nat /\ n <= Len(f) /\ 1 .. n \subseteq 1 .. Len(f)
      /\ \A i \in 1 .. Len(f) : i \in 1 .. n <=> ~(n < i)
      /\ \A i \in 1 .. Len(f) : \A j \in 1 .. Len(f) : i \in 1 .. n /\ n < j => i < j
      /\ \A i \in 1 .. Len(f) : n + 1 \in 1 .. Len(f) /\ i < n + 1 => i \in 1 .. n
      /\ n < Len(f) => n + 1 \in 1 .. Len(f)
  <2>1. PICK l : l = Len(f)
    OBVIOUS
  <2>2. l \in Nat /\ n \in 0 .. l
    BY <1>4, <1>7, <2>1
  <2> QED
    BY <2>1, <2>2
<1>9. PICK met : met = {i \in DOMAIN f : id \o f[i] \in DOMAIN before}
  OBVIOUS
<1>10. PICK kept : kept = IF w \/ met = {} THEN DOMAIN o
                         ELSE {p \in DOMAIN o : \E i \in DOMAIN f : p = f[i] /\ \A j \in met : i < j}
  OBVIOUS
<1>11. \A i \in 1 .. Len(f) : KeyAt(call, i) = id \o f[i]
  BY <1>2 DEF KeyAt
<1>12. \A j \in met : w \/ n < j
  <2> SUFFICES ASSUME NEW j \in met, ~w, ~(n < j) PROVE FALSE
    OBVIOUS
  <2>1. j \in 1 .. n /\ KeyAt(call, j) \in DOMAIN before
    BY <1>7, <1>8, <1>9, <1>11
  <2>2. KeyAt(call, j) \in KeysUpTo(call, n)
    BY <2>1 DEF KeysUpTo
  <2> QED
    BY <1>3, <2>1, <2>2
<1>13. (call.end = "returned") = (w \/ met = {})
  <2>1. CASE call.end = "returned"
    <3>1. n = Len(f)
      BY <1>4, <2>1
    <3>2. \A j \in met : ~(n < j)
      BY <1>7, <1>8, <1>9, <3>1
    <3> QED
      BY <1>12, <2>1, <3>2
  <2>2. CASE call.end # "returned"
    <3>1. call.end = "configuration_error"
      BY <2>2 DEF MergeIndInv, ConfigurationTypeOK
    <3>2. ~w /\ n + 1 \in 1 .. Len(f) /\ KeyAt(call, n + 1) \in DOMAIN before
      BY <1>4, <1>8, <3>1
    <3>3. n + 1 \in met
      BY <1>7, <1>9, <1>11, <3>2
    <3> QED
      BY <2>2, <3>2, <3>3
  <2> QED
    BY <2>1, <2>2
<1>14. kept = {f[i] : i \in 1 .. n}
  <2>1. CASE w \/ met = {}
    <3>1. n = Len(f) /\ kept = DOMAIN o
      BY <1>4, <1>10, <1>13, <2>1
    <3>2. ASSUME NEW p \in kept PROVE p \in {f[i] : i \in 1 .. n}
      BY <1>7, <3>1, <3>2
    <3>3. ASSUME NEW p \in {f[i] : i \in 1 .. n} PROVE p \in kept
      BY <1>7, <3>1, <3>3
    <3> QED
      BY <3>2, <3>3
  <2>2. CASE ~(w \/ met = {})
    <3>1. /\ n + 1 \in 1 .. Len(f) /\ n + 1 \in met
      <4>1. call.end = "configuration_error"
        BY <1>13, <2>2 DEF MergeIndInv, ConfigurationTypeOK
      <4>2. n + 1 \in 1 .. Len(f) /\ KeyAt(call, n + 1) \in DOMAIN before
        BY <1>4, <1>8, <4>1
      <4> QED
        BY <1>7, <1>9, <1>11, <4>2
    <3>2. \A i \in 1 .. Len(f) : (\A j \in met : i < j) <=> i \in 1 .. n
      <4>1. ASSUME NEW i \in 1 .. Len(f), \A j \in met : i < j PROVE i \in 1 .. n
        <5>1. i < n + 1
          BY <3>1, <4>1
        <5> QED
          BY <1>8, <3>1, <5>1
      <4>2. ASSUME NEW i \in 1 .. n, NEW j \in met PROVE i < j
        <5>1. n < j /\ j \in 1 .. Len(f)
          BY <1>7, <1>9, <1>12, <2>2
        <5> QED
          BY <1>8, <5>1
      <4> QED
        BY <4>1, <4>2
    <3>3. kept = {p \in DOMAIN o : \E i \in DOMAIN f : p = f[i] /\ \A j \in met : i < j}
      BY <1>10, <2>2
    <3>4. \A p \in DOMAIN o : p \in kept <=> \E i \in 1 .. Len(f) : p = f[i] /\ i \in 1 .. n
      BY <1>7, <3>2, <3>3, Zenon
    <3>5. kept \subseteq DOMAIN o
      BY <3>3
    <3> QED
      BY <1>7, <1>8, <3>4, <3>5
  <2> QED
    BY <2>1, <2>2
<1>15. kept \subseteq DOMAIN o /\ 1 .. n \subseteq 1 .. Len(f)
  BY <1>7, <1>8, <1>14
<1>16. {id \o p : p \in kept} = KeysUpTo(call, n)
  BY <1>11, <1>14, <1>15 DEF KeysUpTo
<1>17. SubTree([p \in {id \o q : q \in kept} |-> tree[p]], id) = [p \in kept |-> o[p]]
  <2>1. kept \in SUBSET (Seq(STRING) \ {<<>>})
    BY <1>6, <1>15
  <2>2. SubTree([p \in {id \o q : q \in kept} |-> tree[p]], id) = [q \in kept |-> tree[id \o q]]
    <3>1. PICK t, x, ks : t = tree /\ x = id /\ ks = kept
      OBVIOUS
    <3>2. x \in Seq(STRING) /\ ks \in SUBSET (Seq(STRING) \ {<<>>})
      BY <1>6, <2>1, <3>1
    <3>3. SubTree([p \in {x \o q : q \in ks} |-> t[p]], x) = [q \in ks |-> t[x \o q]]
      BY <3>2, SubTreeOfKeys, ZenonT(60)
    <3> QED
      BY <3>1, <3>3, SMTT(30)
  <2>3. ASSUME NEW q \in kept PROVE tree[id \o q] = o[q]
    <3>1. PICK i \in 1 .. n : q = f[i]
      BY <1>14
    <3> QED
      BY <1>3, <1>11, <1>15, <3>1
  <2> QED
    BY <2>2, <2>3
<1>18. DOMAIN tree = DOMAIN before \cup {id \o p : p \in kept}
  BY <1>3, <1>16
<1> QED
  BY <1>2, <1>9, <1>10, <1>13, <1>17, <1>18 DEF AddsInitialSegment

\* Neither set() nor add() changes what is there unless it may.
LEMMA KeysAreKept ==
  ASSUME MergeIndInv
  PROVE  KeysSurvive
<1>1. CASE call.of = "set"
  BY <1>1 DEF MergeIndInv, KeysSurvive
<1>2. CASE call.of = "add"
  <2>1. PICK n : Progress(call, tree, before, n)
    BY <1>2 DEF MergeIndInv
  <2>2. /\ DOMAIN tree = DOMAIN before \cup KeysUpTo(call, n)
        /\ \A p \in DOMAIN before \ KeysUpTo(call, n) : tree[p] = before[p]
        /\ call.overwrite \/ KeysUpTo(call, n) \cap DOMAIN before = {}
    BY <2>1, Zenon DEF Progress
  <2>3. CASE ~call.overwrite
    <3>1. \A p \in DOMAIN before : p \in DOMAIN tree /\ tree[p] = before[p]
      BY <2>2, <2>3
    <3> QED
      BY <3>1, Zenon DEF KeysSurvive
  <2> QED
    BY <1>2, <2>3 DEF KeysSurvive
<1> QED
  BY <1>1, <1>2 DEF KeysSurvive

-----------------------------------------------------------------------------
\* The file and the keys that name it.

\* The parts of the invariant that this needs: keys only go when the file does.
LEMMA FileAndKeys ==
  LogfileHasDirectories /\ [ConfigurationNext]_configurationVars => LogfileHasDirectories'
<1> SUFFICES ASSUME LogfileHasDirectories, [ConfigurationNext]_configurationVars
             PROVE  LogfileHasDirectories'
  OBVIOUS
<1>1. CASE logfile_' = logfile_ /\ DOMAIN tree \subseteq DOMAIN tree'
  BY <1>1 DEF LogfileHasDirectories
<1>2. CASE logfile_' = DefaultFile
  BY <1>2 DEF LogfileHasDirectories
<1>3. CASE ConstructFromTree
  BY <1>3 DEF ConstructFromTree, setup_, LogfileHasDirectories
<1>4. CASE ConstructFromPairs
  BY <1>2, <1>4 DEF ConstructFromPairs
<1>5. CASE \E other \in Inputs, id \in SubIds : ConstructFromSub(other, id)
  BY <1>2, <1>5 DEF ConstructFromSub
<1>6. CASE \E other \in Elsewhere, found \in {tree, <<>>} : CopyFrom(other, found)
  BY <1>6 DEF CopyFrom, Elsewhere, LogfileHasDirectories
<1>7. CASE \E file, options \in Inputs : ReadCommandLine(file, options)
  <2>1. PICK file \in Inputs, options \in Inputs : ReadCommandLine(file, options)
    BY <1>7
  <2>2. tree' = Overlaid(options, Overlaid(file, tree)) /\ logfile_' = setup_(tree', logfile_)
    BY <2>1 DEF ReadCommandLine
  <2>3. DOMAIN tree \subseteq DOMAIN tree'
    BY <2>2 DEF Overlaid
  <2>4. logfile_' # logfile_ => {DataDir, LogDir} \subseteq DOMAIN tree'
    BY <2>2 DEF setup_
  <2> QED
    BY <2>3, <2>4 DEF LogfileHasDirectories
<1>8. CASE \E options \in Inputs : ReadOptions(options)
  <2>1. PICK options \in Inputs : tree' = Overlaid(options, tree) /\ logfile_' = logfile_
    BY <1>8 DEF ReadOptions
  <2> QED
    BY <1>1, <2>1 DEF Overlaid
<1>9. CASE \E p \in Paths, overwrite \in BOOLEAN : \E v \in ValuesOf[p] : Set(p, v, overwrite)
  <2>1. PICK p, v : (tree' = tree \/ tree' = With(tree, p, v)) /\ logfile_' = logfile_
    BY <1>9 DEF Set
  <2> QED
    BY <1>1, <2>1 DEF With, Overlaid
<1>10. CASE AddKey
  <2>1. PICK p, v : (tree' = tree \/ tree' = With(tree, p, v)) /\ logfile_' = logfile_
    BY <1>10 DEF AddKey
  <2> QED
    BY <1>1, <2>1 DEF With, Overlaid
<1>11. CASE \E other \in Inputs, id \in SubIds, overwrite \in BOOLEAN : Add(other, id, overwrite)
  BY <1>1, <1>11 DEF Add
<1>12. CASE \E file \in Files : SetLogfile(file)
  BY <1>1, <1>12 DEF SetLogfile
<1>13. CASE \E value \in BOOLEAN : SetLogOnExit(value)
  BY <1>1, <1>13 DEF SetLogOnExit
<1>14. CASE UNCHANGED configurationVars
  BY <1>1, <1>14 DEF configurationVars
<1> QED
  BY <1>3, <1>4, <1>5, <1>6, <1>7, <1>8, <1>9, <1>10, <1>11, <1>12, <1>13, <1>14
     DEF ConfigurationNext

\* Merging is sound, for any paths, values and trees: a call of add() that meets a
\* key that exists has set exactly the keys before it, nothing is lost without
\* overwrite, what is given on the command line wins, and a log file other than
\* the default is named by keys of the tree.
THEOREM MergesKeepKeys == ConfigurationSpec => []MergesAreSound
<1>1. MergeIndInv /\ LogfileHasDirectories => MergesAreSound
  BY AddsAreInitial, KeysAreKept DEF MergeIndInv, MergesAreSound
<1>2. ConfigurationInit => LogfileHasDirectories
  BY DEF ConfigurationInit, LogfileHasDirectories
<1> QED
  BY <1>1, <1>2, MergeInit, MergeStep, FileAndKeys, PTL DEF ConfigurationSpec

-----------------------------------------------------------------------------
\* Reading.

\* What get() returns is valid, and what sub() returns is below the sub.
LEMMA GetsAreValid ==
  ASSUME ConfigurationTypeOK
  PROVE  GetsAreSound
<1>1. ASSUME NEW p \in Paths, NEW default \in ValuesOf[p], NEW valid \in SUBSET ValuesOf[p]
      PROVE  LET got == Get(tree, p, default, ValuesOf[p], valid)
             IN  /\ Range(got) \subseteq valid
                 /\ p \in DOMAIN tree /\ tree[p] \in valid => got = <<tree[p]>>
  <2>1. PICK value : value = IF p \in DOMAIN tree THEN tree[p] ELSE default
    OBVIOUS
  <2>2. PICK got : got = Get(tree, p, default, ValuesOf[p], valid)
    OBVIOUS
  <2>3. got = IF value \in ValuesOf[p] \cap valid THEN <<value>> ELSE <<>>
    BY <2>1, <2>2, Zenon DEF Get
  <2>4. Range(got) \subseteq valid
    BY <2>3 DEF Range
  <2>5. p \in DOMAIN tree /\ tree[p] \in valid => got = <<tree[p]>>
    BY <2>1, <2>3
  <2> QED
    BY <2>2, <2>4, <2>5
<1>2. ASSUME NEW id \in SubIds \ {<<>>}, HasSub(tree, id)
      PROVE  LET sub == Sub(tree, id, TRUE, <<>>)[1]
             IN  sub # <<>> /\ \A q \in DOMAIN sub : tree[id \o q] = sub[q]
  <2>1. PICK sub : sub = SubTree(tree, id)
    OBVIOUS
  <2>2. Sub(tree, id, TRUE, <<>>)[1] = sub
    BY <1>2, <2>1 DEF Sub
  <2>3. PICK p \in DOMAIN tree : IsStrictPrefix(id, p)
    BY <1>2 DEF HasSub
  <2>4. PICK below : below = {SubSeq(q, Len(id) + 1, Len(q)) :
                               q \in {q \in DOMAIN tree : IsStrictPrefix(id, q)}}
    OBVIOUS
  <2>5. sub = [q \in below |-> tree[id \o q]]
    BY <2>1, <2>4 DEF SubTree
  <2>6. SubSeq(p, Len(id) + 1, Len(p)) \in below
    BY <2>3, <2>4
  <2>7. sub # <<>>
    BY <2>5, <2>6
  <2> QED
    BY <2>2, <2>5, <2>7
<1> QED
  BY <1>1, <1>2, Zenon DEF GetsAreSound

-----------------------------------------------------------------------------
\* The order of trees.

PathsAndValues == Paths \X Nat

\* The keys and values, as std::less compares them, are compared as sequences.
LexLess(x, y) ==
  \E n \in 0 .. Len(x) :
    /\ n < Len(y) /\ \A i \in 1 .. n : x[i] = y[i]
    /\ n = Len(x) \/ SmallerPair(x[n + 1], y[n + 1])

\* The first n entries of x and y are the same, the next one says which is less.
LessAt(x, y, n) ==
  /\ n \in 0 .. Len(x) /\ n < Len(y)
  /\ \A i \in 1 .. n : x[i] = y[i]
  /\ n = Len(x) \/ SmallerPair(x[n + 1], y[n + 1])

\* A key and its value are ordered strictly and totally.
LEMMA PairsAreOrdered ==
  /\ \A a \in PathsAndValues : ~SmallerPair(a, a)
  /\ \A a, b \in PathsAndValues : a # b => SmallerPair(a, b) \/ SmallerPair(b, a)
  /\ \A a, b, c \in PathsAndValues : SmallerPair(a, b) /\ SmallerPair(b, c) => SmallerPair(a, c)
<1>1. \A p \in Paths : Rank(p) \in Nat /\ PathOrder[Rank(p)] = p
  BY Ranks
<1>2. \A a \in PathsAndValues : a[1] \in Paths /\ a[2] \in Nat /\ Rank(a[1]) \in Nat
  BY <1>1 DEF PathsAndValues
<1>3. ASSUME NEW a \in PathsAndValues PROVE ~SmallerPair(a, a)
  BY <1>2 DEF SmallerPair
<1>4. ASSUME NEW a \in PathsAndValues, NEW b \in PathsAndValues, a # b
      PROVE  SmallerPair(a, b) \/ SmallerPair(b, a)
  <2>1. CASE a[1] = b[1]
    <3>1. a[2] # b[2]
      BY <1>4, <2>1 DEF PathsAndValues
    <3>2. a[2] < b[2] \/ b[2] < a[2]
      BY <1>2, <3>1
    <3> QED
      BY <2>1, <3>2 DEF SmallerPair
  <2>2. CASE a[1] # b[1]
    <3>1. Rank(a[1]) # Rank(b[1])
      BY <1>1, <1>2, <2>2
    <3>2. Rank(a[1]) < Rank(b[1]) \/ Rank(b[1]) < Rank(a[1])
      BY <1>2, <3>1
    <3> QED
      BY <3>2 DEF SmallerPair
  <2> QED
    BY <2>1, <2>2
<1>5. ASSUME NEW a \in PathsAndValues, NEW b \in PathsAndValues, NEW c \in PathsAndValues,
             SmallerPair(a, b), SmallerPair(b, c)
      PROVE  SmallerPair(a, c)
  <2>1. PICK ra, rb, rc : ra = Rank(a[1]) /\ rb = Rank(b[1]) /\ rc = Rank(c[1])
    OBVIOUS
  <2>2. ra \in Nat /\ rb \in Nat /\ rc \in Nat /\ a[2] \in Nat /\ b[2] \in Nat /\ c[2] \in Nat
    BY <1>2, <2>1
  <2>3. /\ ra < rb \/ (a[1] = b[1] /\ a[2] < b[2])
        /\ rb < rc \/ (b[1] = c[1] /\ b[2] < c[2])
    BY <1>5, <2>1 DEF SmallerPair
  <2>4. ra < rc \/ (a[1] = c[1] /\ a[2] < c[2])
    BY <2>1, <2>2, <2>3
  <2> QED
    BY <2>1, <2>4 DEF SmallerPair
<1> QED
  BY <1>3, <1>4, <1>5

\* So are sequences of them: none is less than itself, no two are less than each
\* other,
LEMMA LexIsAsymmetric ==
  ASSUME NEW x \in Seq(PathsAndValues), NEW y \in Seq(PathsAndValues)
  PROVE  ~(LexLess(x, y) /\ LexLess(y, x))
<1> SUFFICES ASSUME LexLess(x, y), LexLess(y, x) PROVE FALSE
  OBVIOUS
<1>1. PICK n, m : LessAt(x, y, n) /\ LessAt(y, x, m)
  BY DEF LexLess, LessAt
<1>2. PICK lx, ly : lx = Len(x) /\ ly = Len(y)
  OBVIOUS
<1>3. lx \in Nat /\ ly \in Nat /\ n \in 0 .. lx /\ n < ly /\ m \in 0 .. ly /\ m < lx
  BY <1>1, <1>2 DEF LessAt
<1>4. /\ \A i \in 1 .. lx : x[i] \in PathsAndValues
      /\ \A i \in 1 .. ly : y[i] \in PathsAndValues
  BY <1>2
<1>5. /\ \A i \in 1 .. n : x[i] = y[i]
      /\ \A i \in 1 .. m : x[i] = y[i]
  BY <1>1 DEF LessAt
<1>6. /\ n = lx \/ SmallerPair(x[n + 1], y[n + 1])
      /\ m = ly \/ SmallerPair(y[m + 1], x[m + 1])
  BY <1>1, <1>2, Zenon DEF LessAt
<1>7. CASE n < m
  <2>1. n + 1 \in 1 .. m /\ n # lx /\ n + 1 \in 1 .. lx
    BY <1>3, <1>7
  <2>2. SmallerPair(x[n + 1], x[n + 1])
    BY <1>5, <1>6, <2>1, Zenon
  <2> QED
    BY <1>4, <2>1, <2>2, PairsAreOrdered, Zenon
<1>8. CASE m < n
  <2>1. m + 1 \in 1 .. n /\ m # ly /\ m + 1 \in 1 .. ly
    BY <1>3, <1>8
  <2>2. SmallerPair(y[m + 1], y[m + 1])
    BY <1>5, <1>6, <2>1, Zenon
  <2> QED
    BY <1>4, <2>1, <2>2, PairsAreOrdered, Zenon
<1>9. CASE m = n
  <2>1. n # lx /\ m # ly /\ n + 1 \in 1 .. lx /\ n + 1 \in 1 .. ly
    BY <1>3, <1>9
  <2>2. SmallerPair(x[n + 1], y[n + 1]) /\ SmallerPair(y[n + 1], x[n + 1])
    BY <1>6, <1>9, <2>1, Zenon
  <2>3. SmallerPair(x[n + 1], x[n + 1])
    <3>1. PICK a, b : a = x[n + 1] /\ b = y[n + 1]
      OBVIOUS
    <3>2. a \in PathsAndValues /\ b \in PathsAndValues /\ SmallerPair(a, b) /\ SmallerPair(b, a)
      BY <1>4, <2>1, <2>2, <3>1, Zenon
    <3> QED
      BY <3>1, <3>2, PairsAreOrdered
  <2> QED
    BY <1>4, <2>1, <2>3, PairsAreOrdered, Zenon
<1> QED
  BY <1>3, <1>7, <1>8, <1>9

\* of two that differ one is less,
LEMMA LexIsTotal ==
  ASSUME NEW x \in Seq(PathsAndValues), NEW y \in Seq(PathsAndValues), x # y
  PROVE  LexLess(x, y) \/ LexLess(y, x)
<1>1. /\ Len(x) \in Nat /\ Len(y) \in Nat
      /\ \A i \in 1 .. Len(x) : x[i] \in PathsAndValues
      /\ \A i \in 1 .. Len(y) : y[i] \in PathsAndValues
  OBVIOUS
<1>2. PICK apart : apart = {i \in Nat : i \in 1 .. Len(x) /\ i \in 1 .. Len(y) /\ x[i] # y[i]}
  OBVIOUS
<1>3. CASE apart = {}
  <2>1. \A i \in 1 .. Len(x) : i \in 1 .. Len(y) => x[i] = y[i]
    BY <1>2, <1>3
  <2>2. Len(x) # Len(y)
    <3>1. CASE Len(x) = Len(y)
      BY <2>1, <3>1, SeqEqual
    <3> QED
      BY <3>1
  <2>3. CASE Len(x) < Len(y)
    <3>1. Len(x) \in 0 .. Len(x) /\ \A i \in 1 .. Len(x) : i \in 1 .. Len(y)
      BY <1>1, <2>3
    <3> QED
      BY <2>1, <2>3, <3>1 DEF LexLess
  <2>4. CASE Len(y) < Len(x)
    <3>1. Len(y) \in 0 .. Len(y) /\ \A i \in 1 .. Len(y) : i \in 1 .. Len(x)
      BY <1>1, <2>4
    <3> QED
      BY <2>1, <2>4, <3>1 DEF LexLess
  <2> QED
    BY <1>1, <2>2, <2>3, <2>4
<1>4. CASE apart # {}
  <2>1. PICK d \in apart : \A i \in apart : d <= i
    BY <1>2, <1>4, LeastNatural
  <2>2. d \in Nat /\ d \in 1 .. Len(x) /\ d \in 1 .. Len(y) /\ x[d] # y[d]
    BY <1>2, <2>1
  <2>3. PICK n : n = d - 1
    OBVIOUS
  <2>4. /\ n \in Nat /\ n + 1 = d /\ n < Len(x) /\ n < Len(y)
        /\ n \in 0 .. Len(x) /\ n \in 0 .. Len(y)
        /\ \A i \in 1 .. n : i \in Nat /\ i \in 1 .. Len(x) /\ i \in 1 .. Len(y) /\ ~(d <= i)
    BY <1>1, <2>2, <2>3
  <2>5. \A i \in 1 .. n : x[i] = y[i]
    BY <1>2, <2>1, <2>4
  <2>6. SmallerPair(x[n + 1], y[n + 1]) \/ SmallerPair(y[n + 1], x[n + 1])
    BY <1>1, <2>2, <2>4, PairsAreOrdered
  <2> QED
    BY <2>4, <2>5, <2>6 DEF LexLess
<1> QED
  BY <1>3, <1>4

\* and what is less than a lesser one is less.
LEMMA LexIsTransitive ==
  ASSUME NEW x \in Seq(PathsAndValues), NEW y \in Seq(PathsAndValues),
         NEW z \in Seq(PathsAndValues), LexLess(x, y), LexLess(y, z)
  PROVE  LexLess(x, z)
<1>1. PICK n, m : LessAt(x, y, n) /\ LessAt(y, z, m)
  BY DEF LexLess, LessAt
<1>2. PICK lx, ly, lz : lx = Len(x) /\ ly = Len(y) /\ lz = Len(z)
  OBVIOUS
<1>3. /\ lx \in Nat /\ ly \in Nat /\ lz \in Nat
      /\ n \in 0 .. lx /\ n < ly /\ m \in 0 .. ly /\ m < lz
  BY <1>1, <1>2 DEF LessAt
<1>4. /\ \A i \in 1 .. lx : x[i] \in PathsAndValues
      /\ \A i \in 1 .. ly : y[i] \in PathsAndValues
      /\ \A i \in 1 .. lz : z[i] \in PathsAndValues
  BY <1>2
<1>5. /\ \A i \in 1 .. n : x[i] = y[i]
      /\ \A i \in 1 .. m : y[i] = z[i]
  BY <1>1 DEF LessAt
<1>6. /\ n = lx \/ SmallerPair(x[n + 1], y[n + 1])
      /\ m = ly \/ SmallerPair(y[m + 1], z[m + 1])
  BY <1>1, <1>2, Zenon DEF LessAt
<1>7. CASE n < m
  <2>1. n + 1 \in 1 .. m /\ n < lz /\ \A i \in 1 .. n : i \in 1 .. m
    BY <1>3, <1>7
  <2>2. \A i \in 1 .. n : x[i] = z[i]
    BY <1>5, <2>1, Zenon
  <2>3. n = lx \/ SmallerPair(x[n + 1], z[n + 1])
    BY <1>5, <1>6, <2>1, Zenon
  <2>4. LessAt(x, z, n)
    BY <1>2, <1>3, <2>1, <2>2, <2>3, Zenon DEF LessAt
  <2> QED
    BY <2>4, Zenon DEF LexLess, LessAt
<1>8. CASE m < n
  <2>1. m + 1 \in 1 .. n /\ m # ly /\ m \in 0 .. lx /\ \A i \in 1 .. m : i \in 1 .. n
    BY <1>3, <1>8
  <2>2. \A i \in 1 .. m : x[i] = z[i]
    BY <1>5, <2>1, Zenon
  <2>3. SmallerPair(x[m + 1], z[m + 1])
    BY <1>5, <1>6, <2>1, Zenon
  <2>4. LessAt(x, z, m)
    BY <1>2, <1>3, <2>1, <2>2, <2>3, Zenon DEF LessAt
  <2> QED
    BY <2>4, Zenon DEF LexLess, LessAt
<1>9. CASE m = n
  <2>1. m # ly /\ n + 1 \in 1 .. ly /\ n + 1 \in 1 .. lz /\ n < lz
    BY <1>3, <1>9
  <2>2. \A i \in 1 .. n : x[i] = z[i]
    BY <1>5, <1>9, Zenon
  <2>3. ASSUME n # lx PROVE SmallerPair(x[n + 1], z[n + 1])
    <3>1. n + 1 \in 1 .. lx
      BY <1>3, <2>3
    <3>2. SmallerPair(x[n + 1], y[n + 1]) /\ SmallerPair(y[n + 1], z[n + 1])
      BY <1>6, <1>9, <2>1, <2>3, Zenon
    <3>3. PICK a, b, c : a = x[n + 1] /\ b = y[n + 1] /\ c = z[n + 1]
      OBVIOUS
    <3>4. /\ a \in PathsAndValues /\ b \in PathsAndValues /\ c \in PathsAndValues
          /\ SmallerPair(a, b) /\ SmallerPair(b, c)
      BY <1>4, <2>1, <3>1, <3>2, <3>3, Zenon
    <3>5. SmallerPair(a, c)
      BY <3>4, PairsAreOrdered
    <3> QED
      BY <3>3, <3>5, Zenon
  <2>4. LessAt(x, z, n)
    BY <1>2, <1>3, <2>1, <2>2, <2>3, Zenon DEF LessAt
  <2> QED
    BY <2>4, Zenon DEF LexLess, LessAt
<1> QED
  BY <1>3, <1>7, <1>8, <1>9

\* The pairs are those of the keys of t and their values.
Shows(pairs, t) ==
  \A p, v : (p \in DOMAIN t /\ v = t[p]) <=> \E i \in DOMAIN pairs : <<p, v>> = pairs[i]

\* Trees are compared by their keys and values, which say everything of a tree.
LEMMA PairsSayAll ==
  /\ \A t \in Trees : KeyValuePairs(t) \in Seq(PathsAndValues)
  /\ \A s, t \in Trees : KeyValuePairs(s) = KeyValuePairs(t) => s = t
  /\ \A s, t : Less(s, t) = LexLess(KeyValuePairs(s), KeyValuePairs(t))
<1>1. ASSUME NEW t \in Trees
      PROVE  /\ KeyValuePairs(t) \in Seq(PathsAndValues)
             /\ Shows(KeyValuePairs(t), t)
  <2>1. PICK keys : keys = Flat(t)
    OBVIOUS
  <2>2. /\ Len(keys) \in Nat /\ DOMAIN keys = 1 .. Len(keys)
        /\ \A i \in 1 .. Len(keys) : keys[i] \in DOMAIN t
        /\ \A p \in DOMAIN t : \E i \in 1 .. Len(keys) : keys[i] = p
    BY <2>1, FlatKeys
  <2>3. PICK pairs : pairs = [i \in DOMAIN keys |-> <<keys[i], t[keys[i]]>>]
    OBVIOUS
  <2>4. KeyValuePairs(t) = pairs
    BY <2>1, <2>3 DEF KeyValuePairs
  <2>5. /\ DOMAIN pairs = 1 .. Len(keys)
        /\ \A i \in 1 .. Len(keys) : pairs[i] = <<keys[i], t[keys[i]]>>
    BY <2>2, <2>3
  <2>6. \A p \in DOMAIN t : p \in Paths /\ t[p] \in Nat
    BY TreesAreTyped, ConfigurationAssumption
  <2>7. \A i \in 1 .. Len(keys) : pairs[i] \in PathsAndValues
    <3>1. ASSUME NEW i \in 1 .. Len(keys) PROVE pairs[i] \in PathsAndValues
      <4>1. keys[i] \in Paths /\ t[keys[i]] \in Nat
        BY <2>2, <2>6
      <4>2. PICK p, v : p = keys[i] /\ v = t[p]
        OBVIOUS
      <4>3. <<p, v>> \in PathsAndValues
        BY <4>1, <4>2 DEF PathsAndValues
      <4> QED
        BY <2>5, <4>2, <4>3, Zenon
    <3> QED
      BY <3>1
  <2>8. pairs \in [1 .. Len(keys) -> PathsAndValues]
    BY <2>2, <2>3, <2>5, <2>7
  <2>9. pairs \in Seq(PathsAndValues)
    BY <2>2, <2>8
  <2>10. ASSUME NEW p, NEW v
         PROVE  (p \in DOMAIN t /\ v = t[p]) <=> \E i \in DOMAIN pairs : <<p, v>> = pairs[i]
    BY <2>2, <2>5
  <2>11. Shows(pairs, t)
    BY <2>10, Zenon DEF Shows
  <2> QED
    BY <2>4, <2>9, <2>11, Zenon
<1>2. ASSUME NEW s \in Trees, NEW t \in Trees, KeyValuePairs(s) = KeyValuePairs(t) PROVE s = t
  <2>1. \A p, v : (p \in DOMAIN s /\ v = s[p]) <=> (p \in DOMAIN t /\ v = t[p])
    <3>1. PICK pairs : pairs = KeyValuePairs(s) /\ pairs = KeyValuePairs(t)
      BY <1>2
    <3>2. Shows(pairs, s) /\ Shows(pairs, t)
      BY <1>1, <3>1, Zenon
    <3> QED
      BY <3>2, Zenon DEF Shows
  <2>2. DOMAIN s = DOMAIN t /\ \A p \in DOMAIN s : s[p] = t[p]
    BY <2>1
  <2>3. s = [p \in DOMAIN s |-> s[p]] /\ t = [p \in DOMAIN t |-> t[p]]
    BY TreesAreTyped
  <2> QED
    BY <2>2, <2>3
<1>3. ASSUME NEW s, NEW t PROVE Less(s, t) = LexLess(KeyValuePairs(s), KeyValuePairs(t))
  BY DEF Less, LexLess
<1> QED
  BY <1>1, <1>2, <1>3

\* std::less is a strict total order of the trees.
LEMMA TreesAreOrdered ==
  /\ \A s, t \in Trees : (t # s) = (Less(s, t) # Less(t, s)) /\ ~Less(t, t)
  /\ \A r, s, t \in Trees : Less(r, s) /\ Less(s, t) => Less(r, t)
<1>1. ASSUME NEW t \in Trees PROVE ~Less(t, t)
  BY LexIsAsymmetric, PairsSayAll
<1>2. ASSUME NEW s \in Trees, NEW t \in Trees, t # s PROVE Less(s, t) # Less(t, s)
  <2>1. PICK x, y : x = KeyValuePairs(s) /\ y = KeyValuePairs(t)
    OBVIOUS
  <2>2. x \in Seq(PathsAndValues) /\ y \in Seq(PathsAndValues) /\ x # y
    BY <1>2, <2>1, PairsSayAll
  <2>3. ~(LexLess(x, y) /\ LexLess(y, x)) /\ (LexLess(x, y) \/ LexLess(y, x))
    BY <2>2, LexIsAsymmetric, LexIsTotal
  <2>4. Less(s, t) = LexLess(x, y) /\ Less(t, s) = LexLess(y, x)
    BY <2>1, PairsSayAll, Zenon
  <2> QED
    BY <2>3, <2>4, Zenon
<1>3. ASSUME NEW r \in Trees, NEW s \in Trees, NEW t \in Trees, Less(r, s), Less(s, t)
      PROVE  Less(r, t)
  <2>1. PICK x, y, z : x = KeyValuePairs(r) /\ y = KeyValuePairs(s) /\ z = KeyValuePairs(t)
    OBVIOUS
  <2>2. x \in Seq(PathsAndValues) /\ y \in Seq(PathsAndValues) /\ z \in Seq(PathsAndValues)
    BY <2>1, PairsSayAll
  <2>3. LexLess(x, y) /\ LexLess(y, z)
    BY <1>3, <2>1, PairsSayAll
  <2>4. LexLess(x, z)
    BY <2>2, <2>3, LexIsTransitive
  <2> QED
    BY <2>1, <2>4, PairsSayAll
<1> QED
  BY <1>1, <1>2, <1>3

\* Reading is sound, for any paths, values and trees: no value is returned that was
\* not validated, a default included, sub() has what is below the sub, and trees are
\* ordered strictly and totally.
THEOREM ReadsAreValid == ConfigurationSpec => []ReadsAreSound
<1>1. MergeIndInv => ReadsAreSound
  <2> SUFFICES ASSUME MergeIndInv PROVE ReadsAreSound
    OBVIOUS
  <2>1. ConfigurationTypeOK /\ tree \in Trees /\ before \in Trees
    BY DEF MergeIndInv, ConfigurationTypeOK
  <2>2. Inputs \subseteq Trees
    BY ConfigurationAssumption
  <2>3. LessIsStrictOrder
    <3>1. ASSUME NEW t \in Inputs \cup {before}
          PROVE  (t # tree) = (Less(tree, t) # Less(t, tree)) /\ ~Less(t, t)
      <4>1. t \in Trees
        BY <2>1, <2>2
      <4> QED
        BY <2>1, <4>1, TreesAreOrdered
    <3>2. ASSUME NEW s \in Inputs, NEW t \in Inputs, Less(s, tree), Less(tree, t) PROVE Less(s, t)
      <4>1. s \in Trees /\ t \in Trees
        BY <2>2
      <4> QED
        BY <2>1, <3>2, <4>1, TreesAreOrdered
    <3> QED
      BY <3>1, <3>2 DEF LessIsStrictOrder
  <2> QED
    BY <2>1, <2>3, GetsAreValid DEF ReadsAreSound
<1> QED
  BY <1>1, MergeInit, MergeStep, PTL DEF ConfigurationSpec
==============================================================================
