-------------------------- MODULE AlgorithmsProofs --------------------------
(***************************************************************************)
(* The comparisons, orders, matrices and vectors of the algorithms without *)
(* a state, for all numbers, vectors, matrices, parameters and tolerances. *)
(***************************************************************************)
EXTENDS MCAlgorithms, FiniteSetTheorems, WellFoundedInduction, TLAPS

-----------------------------------------------------------------------------
(* Numbers *)

\* Smaller is a relation without infinite descent.
LEMMA LessThanIsARelation ==
  \E R : IsWellFoundedOn(R, Nat) /\ \A x, y \in Nat : y < x => <<y, x>> \in R
<1>1. \A x, y \in Nat : y < x => <<y, x>> \in OpToRel(<, Nat)
  BY DEF OpToRel
<1> QED
  BY <1>1, NatLessThanWellFounded, Zenon

\* A set of naturals has a least element.
LEMMA LeastNatural ==
  ASSUME NEW S \in SUBSET Nat, S # {}
  PROVE  \E n \in S : \A m \in S : n <= m
<1>1. PICK R : IsWellFoundedOn(R, Nat) /\ \A x, y \in Nat : y < x => <<y, x>> \in R
  BY LessThanIsARelation
<1>2. PICK n \in S : \A m \in S : ~(<<m, n>> \in R)
  BY <1>1, WFMin
<1>3. ASSUME NEW m \in S PROVE n <= m
  <2>1. m \in Nat /\ n \in Nat
    OBVIOUS
  <2>2. ~(m < n)
    BY <1>1, <1>2, <2>1
  <2> QED
    BY <2>1, <2>2
<1> QED
  BY <1>3

\* Induction up to n: a set of naturals that has 0 and, below n, with each number the next
\* one, has n.
LEMMA CountingUp ==
  ASSUME NEW n \in Nat, NEW S, 0 \in S, \A m \in 0 .. (n - 1) : m \in S => m + 1 \in S
  PROVE  n \in S
<1> DEFINE Out == {m \in 0 .. n : m \notin S}
<1>1. SUFFICES ASSUME Out # {} PROVE FALSE
  OBVIOUS
<1>2. PICK m \in Out : \A k \in Out : m <= k
  <2>1. Out \in SUBSET Nat
    OBVIOUS
  <2> QED
    BY <1>1, <2>1, LeastNatural
<1>3. m \in 1 .. n
  BY <1>2
<1>4. m - 1 \in S
  BY <1>2, <1>3
<1>5. m - 1 \in 0 .. (n - 1) /\ (m - 1) + 1 = m
  BY <1>3
<1> QED
  BY <1>2, <1>4, <1>5

-----------------------------------------------------------------------------
(* float_cmp_internal.hh                                                   *)

Styles == {"numpy", "absolute", "relativeWeak", "relativeStrong"}

\* An operand has numbers as its parts, and for each of them there is a tolerance.
Comparable(x, tol) ==
  /\ tol.style \in Styles
  /\ \A c \in DOMAIN x : /\ x[c] \in Int /\ c[3] \in DOMAIN tol.rtol
                          /\ tol.rtol[c[3]] \in Nat /\ tol.atol[c[3]] \in Nat

\* Products of naturals are naturals.
LEMMA ProductIsNat ==
  ASSUME NEW a \in Nat, NEW b \in Nat PROVE a * b \in Nat
OBVIOUS

\* The tolerances are not negative: every number is equal to itself.
LEMMA WithinItself ==
  ASSUME NEW v \in Int, NEW rtol \in Nat, NEW atol \in Nat
  PROVE  /\ WithinNumpy(v, v, rtol, atol)
         /\ \A style \in Styles \ {"numpy"} : WithinDune(style, v, v, rtol)
<1>1. Magnitude(v) \in Nat /\ Magnitude(v - v) = 0 /\ Larger(Magnitude(v), Magnitude(v)) = Magnitude(v)
      /\ Smaller(Magnitude(v), Magnitude(v)) = Magnitude(v)
  BY DEF Magnitude, Larger, Smaller
<1>2. PICK m \in Nat : m = Magnitude(v)
  BY <1>1
<1>3. ToleranceUnit \in Nat /\ ToleranceUnit * 0 = 0 /\ ToleranceUnit * atol \in Nat /\ m * rtol \in Nat /\ rtol * m \in Nat
  BY UnitAssumption, ProductIsNat
<1>4. WithinNumpy(v, v, rtol, atol)
  <2>1. PICK a \in Nat, b \in Nat : a = ToleranceUnit * atol /\ b = m * rtol
    BY <1>3
  <2>2. 0 <= a + b
    OBVIOUS
  <2> QED
    BY <1>1, <1>2, <1>3, <2>1, <2>2 DEF WithinNumpy
<1>5. ASSUME NEW style \in Styles \ {"numpy"} PROVE WithinDune(style, v, v, rtol)
  <2>1. PICK b \in Nat : b = rtol * m
    BY <1>3
  <2>2. 0 <= rtol /\ 0 <= b
    OBVIOUS
  <2> QED
    BY <1>1, <1>2, <1>3, <1>5, <2>1, <2>2 DEF WithinDune, Styles
<1> QED
  BY <1>4, <1>5

\* Only numpy's relative tolerance depends on the order of the numbers.
LEMMA WithinBothWays ==
  ASSUME NEW v \in Int, NEW w \in Int, NEW rtol \in Nat, NEW atol \in Nat
  PROVE  /\ WithinNumpy(v, w, 0, atol) = WithinNumpy(w, v, 0, atol)
         /\ \A style \in Styles \ {"numpy"} : WithinDune(style, v, w, rtol) = WithinDune(style, w, v, rtol)
<1>1. Magnitude(v) \in Nat /\ Magnitude(w) \in Nat /\ Magnitude(v - w) = Magnitude(w - v)
  BY DEF Magnitude
<1>2. PICK a \in Nat, b \in Nat : a = Magnitude(v) /\ b = Magnitude(w)
  BY <1>1
<1>3. Larger(a, b) = Larger(b, a) /\ Smaller(a, b) = Smaller(b, a) /\ a * 0 = 0 /\ b * 0 = 0
  BY DEF Larger, Smaller
<1>4. WithinNumpy(v, w, 0, atol) = WithinNumpy(w, v, 0, atol)
  BY <1>1, <1>2, <1>3 DEF WithinNumpy
<1>5. ASSUME NEW style \in Styles \ {"numpy"}
      PROVE  WithinDune(style, v, w, rtol) = WithinDune(style, w, v, rtol)
  BY <1>1, <1>2, <1>3, <1>5 DEF WithinDune, Styles
<1> QED
  BY <1>4, <1>5

\* Equality in one part, in the style of the tolerance.
Within(x, y, tol, c) ==
  IF tol.style = "numpy" THEN WithinNumpy(x[c], y[c], tol.rtol[c[3]], tol.atol[c[3]])
  ELSE WithinDune(tol.style, x[c], y[c], tol.rtol[c[3]])

\* The relations, part by part.
LEMMA RelationForms ==
  ASSUME NEW x, NEW y, NEW tol
  PROVE  /\ FloatEq(x, y, tol) <=> SameSize(x, y) /\ \A c \in DOMAIN x : Within(x, y, tol, c)
         /\ FloatNe(x, y, tol) <=> ~FloatEq(x, y, tol)
         /\ FloatLt(x, y, tol) <=> /\ SameSize(x, y) /\ \A c \in DOMAIN x : x[c] < y[c]
                                   /\ \E c \in DOMAIN x : ~Within(x, y, tol, c)
         /\ FloatGt(x, y, tol) <=> /\ SameSize(x, y) /\ \A c \in DOMAIN x : x[c] > y[c]
                                   /\ \E c \in DOMAIN x : ~Within(x, y, tol, c)
         /\ FloatLe(x, y, tol) <=> SameSize(x, y) /\ \A c \in DOMAIN x : x[c] < y[c] \/ Within(x, y, tol, c)
         /\ FloatGe(x, y, tol) <=> SameSize(x, y) /\ \A c \in DOMAIN x : x[c] > y[c] \/ Within(x, y, tol, c)
<1>1. CASE tol.style = "numpy"
  BY <1>1, Zenon DEF FloatEq, FloatNe, FloatLt, FloatGt, FloatLe, FloatGe, Within, float_cmp_eq, cmp_gt, cmp_lt, cmp_ge, cmp_le
<1>2. CASE tol.style # "numpy"
  BY <1>2, Zenon DEF FloatEq, FloatNe, FloatLt, FloatGt, FloatLe, FloatGe, Within, dune_float_cmp_eq, cmp_gt, cmp_lt, dune_cmp_ge, dune_cmp_le
<1> QED
  BY <1>1, <1>2

\* For operands of any shape and any tolerances the six relations fit together: <= and
\* >= together are equality, < excludes >, >= and equality, operands of different sizes
\* are unequal and in no other relation.
THEOREM RelationsAlwaysFit ==
  ASSUME NEW x, NEW y, NEW tol, Comparable(x, tol), Comparable(y, tol)
  PROVE  RelationsFit(x, y, tol)
<1>1. ASSUME SameSize(x, y), NEW c \in DOMAIN x PROVE ~(x[c] < y[c] /\ x[c] > y[c])
  <2>1. x[c] \in Int /\ y[c] \in Int
    BY <1>1 DEF Comparable, SameSize
  <2> QED
    BY <2>1
<1>2. (FloatLe(x, y, tol) /\ FloatGe(x, y, tol)) <=> FloatEq(x, y, tol)
  BY <1>1, RelationForms, Zenon
<1>3. FloatLt(x, y, tol) => FloatLe(x, y, tol) /\ FloatNe(x, y, tol)
                              /\ ~FloatGt(x, y, tol) /\ ~FloatGe(x, y, tol)
  BY <1>1, RelationForms, Zenon
<1>4. ~SameSize(x, y) => ~FloatLe(x, y, tol) /\ ~FloatGe(x, y, tol) /\ ~FloatGt(x, y, tol)
  BY RelationForms, Zenon
<1>5. FloatNe(x, y, tol) = ~FloatEq(x, y, tol)
  BY DEF FloatNe
<1>6. (FloatLe(x, y, tol) /\ FloatGe(x, y, tol)) = FloatEq(x, y, tol)
  BY <1>2 DEF FloatLe, FloatGe, FloatEq, cmp_le, cmp_ge, dune_cmp_le, dune_cmp_ge, float_cmp_eq, dune_float_cmp_eq
<1> QED
  BY <1>3, <1>4, <1>5, <1>6, Zenon DEF RelationsFit

\* Equal numbers are within any tolerance of each other.
LEMMA EqualPartsWithin ==
  ASSUME NEW x, NEW y, NEW tol, Comparable(x, tol), NEW c \in DOMAIN x, x[c] = y[c]
  PROVE  Within(x, y, tol, c)
<1>1. PICK v \in Int, rtol \in Nat, atol \in Nat :
        v = x[c] /\ rtol = tol.rtol[c[3]] /\ atol = tol.atol[c[3]]
  BY DEF Comparable
<1>2. WithinNumpy(v, v, rtol, atol) /\ \A style \in Styles \ {"numpy"} : WithinDune(style, v, v, rtol)
  BY WithinItself
<1> QED
  BY <1>1, <1>2, Zenon DEF Within, Comparable

\* Any two numbers are less, equal or greater, exactly one of the three, and <= and >=
\* are the negations of > and <, whatever the style and the tolerances.
THEOREM NumbersAreOrdered ==
  ASSUME NEW x, NEW y, NEW tol, Comparable(x, tol), Comparable(y, tol)
  PROVE  NumbersOrdered(x, y, tol)
<1> SUFFICES ASSUME DOMAIN x = {<<1, 1, 1>>}, SameSize(x, y)
             PROVE  LET lt == FloatLt(x, y, tol)  eq == FloatEq(x, y, tol)  gt == FloatGt(x, y, tol)
                    IN  /\ lt \/ eq \/ gt
                        /\ ~(lt /\ eq) /\ ~(lt /\ gt) /\ ~(eq /\ gt)
                        /\ FloatLe(x, y, tol) = ~gt
                        /\ FloatGe(x, y, tol) = ~lt
  BY Zenon DEF NumbersOrdered
<1>1. PICK c : c = <<1, 1, 1>>
  OBVIOUS
<1>2. DOMAIN x = {c}
  BY <1>1
<1>3. x[c] \in Int /\ y[c] \in Int
  BY <1>2 DEF Comparable, SameSize
<1>4. /\ x[c] < y[c] \/ x[c] = y[c] \/ x[c] > y[c]
      /\ ~(x[c] < y[c] /\ x[c] > y[c])
  BY <1>3
<1>5. x[c] = y[c] => Within(x, y, tol, c)
  BY <1>2, EqualPartsWithin
<1>6. /\ FloatEq(x, y, tol) <=> Within(x, y, tol, c)
      /\ FloatLt(x, y, tol) <=> x[c] < y[c] /\ ~Within(x, y, tol, c)
      /\ FloatGt(x, y, tol) <=> x[c] > y[c] /\ ~Within(x, y, tol, c)
      /\ FloatLe(x, y, tol) <=> x[c] < y[c] \/ Within(x, y, tol, c)
      /\ FloatGe(x, y, tol) <=> x[c] > y[c] \/ Within(x, y, tol, c)
  BY <1>2, RelationForms, Zenon
<1>7. FloatLe(x, y, tol) \in BOOLEAN /\ FloatGe(x, y, tol) \in BOOLEAN
  BY Zenon DEF FloatLe, FloatGe, cmp_le, cmp_ge, dune_cmp_le, dune_cmp_ge
<1>8. (FloatLe(x, y, tol) <=> ~FloatGt(x, y, tol)) /\ (FloatGe(x, y, tol) <=> ~FloatLt(x, y, tol))
  BY <1>4, <1>5, <1>6, Zenon
<1>9. FloatLe(x, y, tol) = (~FloatGt(x, y, tol)) /\ FloatGe(x, y, tol) = (~FloatLt(x, y, tol))
  BY <1>7, <1>8
<1> QED
  BY <1>4, <1>5, <1>6, <1>9, Zenon

\* With the operands exchanged, equality in a part stays unless numpy's relative
\* tolerance decides.
LEMMA WithinMirrors ==
  ASSUME NEW x, NEW y, NEW tol, Comparable(x, tol), Comparable(y, tol), SameSize(x, y),
         tol.style = "numpy" => \A p \in DOMAIN tol.rtol : tol.rtol[p] = 0, NEW c \in DOMAIN x
  PROVE  Within(x, y, tol, c) = Within(y, x, tol, c)
<1>1. PICK v \in Int, w \in Int, rtol \in Nat, atol \in Nat :
        v = x[c] /\ w = y[c] /\ rtol = tol.rtol[c[3]] /\ atol = tol.atol[c[3]]
  BY DEF Comparable, SameSize
<1>2. /\ WithinNumpy(v, w, 0, atol) = WithinNumpy(w, v, 0, atol)
      /\ \A style \in Styles \ {"numpy"} : WithinDune(style, v, w, rtol) = WithinDune(style, w, v, rtol)
  BY WithinBothWays
<1>3. CASE tol.style = "numpy"
  <2>1. rtol = 0
    BY <1>1, <1>3 DEF Comparable
  <2> QED
    BY <1>1, <1>2, <1>3, <2>1, Zenon DEF Within
<1>4. CASE tol.style # "numpy"
  <2>1. tol.style \in Styles \ {"numpy"}
    BY <1>4 DEF Comparable
  <2> QED
    BY <1>1, <1>2, <1>4, <2>1, Zenon DEF Within
<1> QED
  BY <1>3, <1>4

\* Exchanging the operands, of any shape, exchanges < with > and <= with >= and keeps
\* equality, unless the tolerance is numpy's and relative.
THEOREM ExchangeAlwaysMirrors ==
  ASSUME NEW x, NEW y, NEW tol, Comparable(x, tol), Comparable(y, tol)
  PROVE  ExchangeMirrors(x, y, tol)
<1> SUFFICES ASSUME tol.style = "numpy" => \A p \in DOMAIN tol.rtol : tol.rtol[p] = 0
             PROVE  /\ FloatEq(x, y, tol) = FloatEq(y, x, tol)
                    /\ FloatLt(x, y, tol) = FloatGt(y, x, tol)
                    /\ FloatLe(x, y, tol) = FloatGe(y, x, tol)
  BY Zenon DEF ExchangeMirrors
<1>1. ASSUME SameSize(x, y), NEW c \in DOMAIN x
      PROVE  (Within(x, y, tol, c) <=> Within(y, x, tol, c)) /\ (x[c] < y[c] <=> y[c] > x[c])
  <2>1. Within(x, y, tol, c) = Within(y, x, tol, c)
    BY <1>1, WithinMirrors
  <2>2. x[c] \in Int /\ y[c] \in Int
    BY <1>1 DEF Comparable, SameSize
  <2> QED
    BY <2>1, <2>2
<1>2. SameSize(x, y) <=> SameSize(y, x)
  BY DEF SameSize
<1>3. SameSize(x, y) => DOMAIN x = DOMAIN y
  BY DEF SameSize
<1>4. FloatEq(x, y, tol) <=> FloatEq(y, x, tol)
  BY <1>1, <1>2, <1>3, RelationForms, Zenon
<1>5. FloatLt(x, y, tol) <=> FloatGt(y, x, tol)
  BY <1>1, <1>2, <1>3, RelationForms, Zenon
<1>6. FloatLe(x, y, tol) <=> FloatGe(y, x, tol)
  BY <1>1, <1>2, <1>3, RelationForms, Zenon
<1>7. /\ FloatEq(x, y, tol) \in BOOLEAN /\ FloatEq(y, x, tol) \in BOOLEAN
      /\ FloatLe(x, y, tol) \in BOOLEAN /\ FloatGe(y, x, tol) \in BOOLEAN
      /\ FloatLt(x, y, tol) \in BOOLEAN /\ FloatGt(y, x, tol) \in BOOLEAN
  BY Zenon DEF FloatEq, FloatLe, FloatGe, FloatLt, FloatGt, float_cmp_eq, dune_float_cmp_eq,
               cmp_le, cmp_ge, dune_cmp_le, dune_cmp_ge
<1> QED
  BY <1>4, <1>5, <1>6, <1>7

\* A number, on its own, is comparable.
LEMMA ScalarsAreComparable ==
  ASSUME NEW v \in Int, NEW tol, tol.style \in Styles, 1 \in DOMAIN tol.rtol,
         tol.rtol[1] \in Nat, tol.atol[1] \in Nat
  PROVE  Comparable(Scalar(v), tol) /\ DOMAIN Scalar(v) = {<<1, 1, 1>>} /\ Scalar(v)[<<1, 1, 1>>] = v
<1>1. PICK one : one = <<1, 1, 1>> /\ one[3] = 1
  <2>1. <<1, 1, 1>>[3] = 1
    OBVIOUS
  <2> QED
    BY <2>1, Zenon
<1>2. Scalar(v) = [c \in {one} |-> v]
  BY <1>1 DEF Scalar
<1>3. DOMAIN Scalar(v) = {one} /\ Scalar(v)[one] = v
  BY <1>2
<1>4. Comparable(Scalar(v), tol)
  BY <1>1, <1>3 DEF Comparable
<1> QED
  BY <1>1, <1>3, <1>4

\* Up to no tolerance, the relations are those of the numbers.
LEMMA ExactOrder ==
  ASSUME NEW v \in Int, NEW w \in Int
  PROVE  /\ FloatLt(Scalar(v), Scalar(w), Exact) <=> v < w
         /\ FloatGt(Scalar(v), Scalar(w), Exact) <=> v > w
<1>1. Exact.style = "numpy" /\ Exact.rtol = [p \in {1, 2} |-> 0] /\ Exact.atol = [p \in {1, 2} |-> 0]
  BY DEF Exact, Tolerance
<1>2. PICK one : one = <<1, 1, 1>> /\ one[3] = 1
  <2>1. <<1, 1, 1>>[3] = 1
    OBVIOUS
  <2> QED
    BY <2>1, Zenon
<1>3. /\ DOMAIN Scalar(v) = {one} /\ Scalar(v)[one] = v
      /\ DOMAIN Scalar(w) = {one} /\ Scalar(w)[one] = w
  BY <1>1, <1>2, ScalarsAreComparable DEF Styles
<1>4. Within(Scalar(v), Scalar(w), Exact, one) <=> WithinNumpy(v, w, 0, 0)
  BY <1>1, <1>2, <1>3 DEF Within
<1>5. WithinNumpy(v, w, 0, 0) <=> v = w
  <2>1. PICK m \in Nat : m = Magnitude(v - w) /\ (m = 0 <=> v = w)
    BY DEF Magnitude
  <2>2. PICK l \in Nat : l = Magnitude(w)
    BY DEF Magnitude
  <2>3. PICK u \in Nat : u = ToleranceUnit /\ u > 0
    BY UnitAssumption
  <2>4. u * m <= 0 <=> m = 0
    BY <2>3
  <2>5. u * 0 + l * 0 = 0
    BY <2>2, <2>3
  <2> QED
    BY <2>1, <2>2, <2>3, <2>4, <2>5 DEF WithinNumpy
<1>6. SameSize(Scalar(v), Scalar(w))
  BY <1>3 DEF SameSize
<1>7. /\ FloatLt(Scalar(v), Scalar(w), Exact) <=> v < w /\ ~(v = w)
      /\ FloatGt(Scalar(v), Scalar(w), Exact) <=> v > w /\ ~(v = w)
  BY <1>3, <1>4, <1>5, <1>6, RelationForms, Zenon
<1> QED
  BY <1>7

\* ValidateInterval accepts the closed interval, and its halves are accepted by the two
\* validators of one bound.
THEOREM IntervalsAreClosed ==
  ASSUME NEW min \in Int, NEW max \in Int, NEW value \in Int
  PROVE  IntervalIsClosed(min, max, value)
<1>1. ValidateGreaterOrEqual(value, min) = (min <= value)
  BY ExactOrder DEF ValidateGreaterOrEqual, ValidateLess
<1>2. ValidateGreaterOrEqual(max, value) = (value <= max)
  BY ExactOrder DEF ValidateGreaterOrEqual, ValidateLess
<1>3. ValidateLessOrEqual(min, value) = (min <= value)
  BY ExactOrder DEF ValidateLessOrEqual, ValidateGreater
<1>4. Validates([kind |-> "interval", min |-> min, max |-> max], value)
        = (ValidateGreaterOrEqual(value, min) /\ ValidateGreaterOrEqual(max, value))
  BY DEF Validates, ValidateInterval
<1>5. /\ Validates([kind |-> "less_or_equal", lhs |-> min], value) = ValidateLessOrEqual(min, value)
      /\ Validates([kind |-> "greater_or_equal", lhs |-> max], value) = ValidateGreaterOrEqual(max, value)
  BY DEF Validates
<1> QED
  BY <1>1, <1>2, <1>3, <1>4, <1>5 DEF IntervalIsClosed

-----------------------------------------------------------------------------
(* vector_less.hh and fvector.hh *)

\* A vector has one number per row.
IsVector(a) ==
  /\ a = [c \in DOMAIN a |-> a[c]]
  /\ \A c \in DOMAIN a : c[1] \in Nat /\ a[c] \in Int /\ \A d \in DOMAIN a : c[1] = d[1] => c = d

\* Exactly one of three: how the orders say that they are total.
LEMMA OneOfThree ==
  ASSUME NEW P \in BOOLEAN, NEW Q \in BOOLEAN, NEW R \in BOOLEAN,
         P \/ Q \/ R, ~(P /\ Q), ~(P /\ R), ~(Q /\ R)
  PROVE  Cardinality({r \in {<<1, P>>, <<2, Q>>, <<3, R>>} : r[2]}) = 1
<1>1. PICK p : p = <<1, P>> /\ p[2] = P
  <2>1. <<1, P>>[2] = P
    OBVIOUS
  <2> QED
    BY <2>1, Zenon
<1>2. PICK q : q = <<2, Q>> /\ q[2] = Q
  <2>1. <<2, Q>>[2] = Q
    OBVIOUS
  <2> QED
    BY <2>1, Zenon
<1>3. PICK s : s = <<3, R>> /\ s[2] = R
  <2>1. <<3, R>>[2] = R
    OBVIOUS
  <2> QED
    BY <2>1, Zenon
<1>4. {r \in {p, q, s} : r[2]} = {p} \/ {r \in {p, q, s} : r[2]} = {q} \/ {r \in {p, q, s} : r[2]} = {s}
  <2>1. CASE P
    <3>1. p[2] /\ ~q[2] /\ ~s[2]
      BY <1>1, <1>2, <1>3, <2>1
    <3>2. {r \in {p, q, s} : r[2]} = {p}
      BY <3>1, Zenon
    <3> QED
      BY <3>2
  <2>2. CASE Q
    <3>1. ~p[2] /\ q[2] /\ ~s[2]
      BY <1>1, <1>2, <1>3, <2>2
    <3>2. {r \in {p, q, s} : r[2]} = {q}
      BY <3>1, Zenon
    <3> QED
      BY <3>2
  <2>3. CASE R
    <3>1. ~p[2] /\ ~q[2] /\ s[2]
      BY <1>1, <1>2, <1>3, <2>3
    <3>2. {r \in {p, q, s} : r[2]} = {s}
      BY <3>1, Zenon
    <3> QED
      BY <3>2
  <2> QED
    BY <2>1, <2>2, <2>3
<1>5. {r \in {<<1, P>>, <<2, Q>>, <<3, R>>} : r[2]} = {r \in {p, q, s} : r[2]}
  BY <1>1, <1>2, <1>3, Zenon
<1>6. Cardinality({p}) = 1 /\ Cardinality({q}) = 1 /\ Cardinality({s}) = 1
  BY FS_Singleton
<1> QED
  BY <1>4, <1>5, <1>6, Zenon

\* Of some components of a vector, one comes first.
LEMMA FirstComponent ==
  ASSUME NEW a, IsVector(a), NEW S \in SUBSET DOMAIN a, S # {}
  PROVE  \E c \in S : \A d \in S : c[1] <= d[1]
<1> DEFINE R == {c[1] : c \in S}
<1>1. R \in SUBSET Nat /\ R # {}
  BY DEF IsVector
<1>2. PICK n \in R : \A m \in R : n <= m
  <2> HIDE DEF R
  <2> QED
    BY <1>1, LeastNatural
<1> QED
  BY <1>2

\* Vectors that differ do so in a first component.
LEMMA FirstDifference ==
  ASSUME NEW a, NEW b, IsVector(a), IsVector(b), DOMAIN a = DOMAIN b, a # b
  PROVE  \E c \in DOMAIN a : a[c] # b[c] /\ \A d \in DOMAIN a : d[1] < c[1] => a[d] = b[d]
<1> DEFINE S == {c \in DOMAIN a : a[c] # b[c]}
<1>1. S # {}
  <2>1. SUFFICES ASSUME \A c \in DOMAIN a : a[c] = b[c] PROVE FALSE
    OBVIOUS
  <2>2. a = [c \in DOMAIN a |-> a[c]] /\ b = [c \in DOMAIN a |-> b[c]]
    BY DEF IsVector
  <2>3. a = b
    BY <2>1, <2>2
  <2> QED
    BY <2>3
<1>2. PICK c \in S : \A d \in S : c[1] <= d[1]
  <2>1. S \in SUBSET DOMAIN a
    OBVIOUS
  <2> HIDE DEF S
  <2> QED
    BY <1>1, <2>1, FirstComponent
<1>3. ASSUME NEW d \in DOMAIN a, d[1] < c[1] PROVE a[d] = b[d]
  <2>1. c[1] \in Nat /\ d[1] \in Nat
    BY DEF IsVector
  <2>2. ~(c[1] <= d[1])
    BY <1>3, <2>1
  <2> QED
    BY <1>2, <2>2
<1> QED
  BY <1>2, <1>3

\* In the order of vectors, the first difference decides; what comes first of two
\* components decides which of two differences that is.
LEMMA VectorsTrichotomy ==
  ASSUME NEW a, NEW b, IsVector(a), IsVector(b), DOMAIN a = DOMAIN b
  PROVE  /\ VectorLess(a, b) \/ a = b \/ VectorLess(b, a)
         /\ ~(VectorLess(a, b) /\ a = b) /\ ~(VectorLess(a, b) /\ VectorLess(b, a))
         /\ ~(a = b /\ VectorLess(b, a))
<1>1. ASSUME a # b PROVE VectorLess(a, b) \/ VectorLess(b, a)
  <2>1. PICK c \in DOMAIN a : a[c] # b[c] /\ \A d \in DOMAIN a : d[1] < c[1] => a[d] = b[d]
    BY <1>1, FirstDifference
  <2>2. a[c] < b[c] \/ b[c] < a[c]
    <3>1. a[c] \in Int /\ b[c] \in Int
      BY DEF IsVector
    <3> QED
      BY <2>1, <3>1
  <2>3. \A d \in DOMAIN b : d[1] < c[1] => b[d] = a[d]
    BY <2>1
  <2> QED
    BY <2>1, <2>2, <2>3, Zenon DEF VectorLess
<1>2. ~VectorLess(a, a) /\ ~VectorLess(b, b)
  <2>1. \A c \in DOMAIN a : ~(a[c] < a[c])
    BY DEF IsVector
  <2>2. \A c \in DOMAIN b : ~(b[c] < b[c])
    BY DEF IsVector
  <2> QED
    BY <2>1, <2>2 DEF VectorLess
<1>3. ~(VectorLess(a, b) /\ VectorLess(b, a))
  <2> SUFFICES ASSUME VectorLess(a, b), VectorLess(b, a) PROVE FALSE
    OBVIOUS
  <2>1. PICK c \in DOMAIN a : a[c] < b[c] /\ \A d \in DOMAIN a : d[1] < c[1] => a[d] = b[d]
    BY DEF VectorLess
  <2>2. PICK e \in DOMAIN a : b[e] < a[e] /\ \A d \in DOMAIN a : d[1] < e[1] => b[d] = a[d]
    BY DEF VectorLess
  <2>3. /\ c[1] \in Nat /\ e[1] \in Nat /\ (c[1] = e[1] => c = e)
        /\ a[c] \in Int /\ b[c] \in Int /\ a[e] \in Int /\ b[e] \in Int
    BY DEF IsVector
  <2>4. CASE c[1] < e[1]
    BY <2>1, <2>2, <2>3, <2>4
  <2>5. CASE e[1] < c[1]
    BY <2>1, <2>2, <2>3, <2>5
  <2>6. CASE c[1] = e[1]
    BY <2>1, <2>2, <2>3, <2>6
  <2> QED
    BY <2>3, <2>4, <2>5, <2>6
<1> QED
  BY <1>1, <1>2, <1>3, Zenon

\* The order of vectors is transitive.
LEMMA VectorsTransitive ==
  ASSUME NEW a, NEW b, NEW c, IsVector(a), IsVector(b), IsVector(c),
         DOMAIN a = DOMAIN b, DOMAIN b = DOMAIN c, VectorLess(a, b), VectorLess(b, c)
  PROVE  VectorLess(a, c)
<1>1. PICK u \in DOMAIN a : a[u] < b[u] /\ \A d \in DOMAIN a : d[1] < u[1] => a[d] = b[d]
  BY DEF VectorLess
<1>2. PICK w \in DOMAIN a : b[w] < c[w] /\ \A d \in DOMAIN a : d[1] < w[1] => b[d] = c[d]
  BY DEF VectorLess
<1>3. /\ u[1] \in Nat /\ w[1] \in Nat /\ (u[1] = w[1] => u = w)
      /\ a[u] \in Int /\ b[u] \in Int /\ c[u] \in Int
      /\ a[w] \in Int /\ b[w] \in Int /\ c[w] \in Int
  BY DEF IsVector
<1>4. \A d \in DOMAIN a : d[1] \in Nat
  BY DEF IsVector
<1>5. CASE u[1] < w[1]
  <2>1. a[u] < c[u]
    BY <1>1, <1>2, <1>3, <1>5
  <2>2. \A d \in DOMAIN a : d[1] < u[1] => a[d] = c[d]
    BY <1>1, <1>2, <1>3, <1>4, <1>5
  <2> QED
    BY <2>1, <2>2 DEF VectorLess
<1>6. CASE ~(u[1] < w[1])
  <2>1. a[w] < c[w]
    BY <1>1, <1>2, <1>3, <1>6
  <2>2. \A d \in DOMAIN a : d[1] < w[1] => a[d] = c[d]
    BY <1>1, <1>2, <1>3, <1>4, <1>6
  <2> QED
    BY <2>1, <2>2 DEF VectorLess
<1> QED
  BY <1>5, <1>6

\* A tolerance for numbers.
IsTolerance(tol) ==
  /\ tol.style \in Styles /\ 1 \in DOMAIN tol.rtol
  /\ tol.rtol[1] \in Nat /\ tol.atol[1] \in Nat

\* Of equal numbers none is less, of unequal ones that is less which is.
LEMMA ToleratedOrder ==
  ASSUME NEW v \in Int, NEW w \in Int, NEW tol, IsTolerance(tol)
  PROVE  /\ FloatNe(Scalar(v), Scalar(w), tol) =>
              /\ FloatLt(Scalar(v), Scalar(w), tol) <=> v < w
              /\ FloatGt(Scalar(v), Scalar(w), tol) <=> v > w
         /\ v = w => ~FloatLt(Scalar(v), Scalar(w), tol) /\ ~FloatGt(Scalar(v), Scalar(w), tol)
<1>1. PICK one : one = <<1, 1, 1>>
  OBVIOUS
<1>2. /\ DOMAIN Scalar(v) = {one} /\ Scalar(v)[one] = v
      /\ DOMAIN Scalar(w) = {one} /\ Scalar(w)[one] = w
  BY <1>1, ScalarsAreComparable DEF IsTolerance
<1>3. SameSize(Scalar(v), Scalar(w))
  BY <1>2 DEF SameSize
<1>4. /\ FloatEq(Scalar(v), Scalar(w), tol) <=> Within(Scalar(v), Scalar(w), tol, one)
      /\ FloatNe(Scalar(v), Scalar(w), tol) <=> ~FloatEq(Scalar(v), Scalar(w), tol)
      /\ FloatLt(Scalar(v), Scalar(w), tol) <=> v < w /\ ~Within(Scalar(v), Scalar(w), tol, one)
      /\ FloatGt(Scalar(v), Scalar(w), tol) <=> v > w /\ ~Within(Scalar(v), Scalar(w), tol, one)
  BY <1>2, <1>3, RelationForms, Zenon
<1>5. v = w => ~(v < w) /\ ~(v > w)
  OBVIOUS
<1> QED
  BY <1>4, <1>5, Zenon

\* VectorFloatLess decides like VectorLess where no components are only nearly equal.
LEMMA FarApart ==
  ASSUME NEW a, NEW b, NEW tol, IsVector(a), IsVector(b), DOMAIN a = DOMAIN b, IsTolerance(tol),
         \A d \in DOMAIN a : a[d] = b[d] \/ FloatNe(Scalar(a[d]), Scalar(b[d]), tol)
  PROVE  VectorFloatLess(a, b, tol) = VectorLess(a, b)
<1>1. ASSUME NEW d \in DOMAIN a
      PROVE  /\ FloatLt(Scalar(a[d]), Scalar(b[d]), tol) <=> a[d] < b[d]
             /\ (~FloatLt(Scalar(a[d]), Scalar(b[d]), tol)
                   /\ ~FloatGt(Scalar(a[d]), Scalar(b[d]), tol)) <=> a[d] = b[d]
  <2>1. a[d] \in Int /\ b[d] \in Int
    BY DEF IsVector
  <2>2. PICK v \in Int, w \in Int : v = a[d] /\ w = b[d]
    BY <2>1
  <2>3. v = w \/ FloatNe(Scalar(v), Scalar(w), tol)
    BY <2>2
  <2>4. (v = w => ~(v < w)) /\ (v = w <=> ~(v < w) /\ ~(v > w))
    OBVIOUS
  <2>5. /\ FloatLt(Scalar(v), Scalar(w), tol) <=> v < w
        /\ (~FloatLt(Scalar(v), Scalar(w), tol) /\ ~FloatGt(Scalar(v), Scalar(w), tol)) <=> v = w
    BY <2>3, <2>4, ToleratedOrder, Zenon
  <2> QED
    BY <2>2, <2>5, Zenon
<1>2. VectorFloatLess(a, b, tol) <=> VectorLess(a, b)
  BY <1>1, Zenon DEF VectorFloatLess, VectorLess
<1> QED
  BY <1>2 DEF VectorFloatLess, VectorLess

\* The orders of FieldVector are written differently and are the same.
LEMMA FieldVectorsAlike ==
  ASSUME NEW a, NEW b, NEW tol, IsVector(a), IsVector(b), DOMAIN a = DOMAIN b
  PROVE  /\ FieldVectorLess(a, b) = VectorLess(a, b)
         /\ FieldVectorFloatLess(a, b, tol) = VectorFloatLess(a, b, tol)
<1>1. \A c \in DOMAIN a : a[c] = b[c] <=> ~(a[c] < b[c] \/ a[c] > b[c])
  BY DEF IsVector
<1>2. \A c, d \in DOMAIN a : c[1] <= d[1] <=> ~(d[1] < c[1])
  BY DEF IsVector
<1>3. FieldVectorLess(a, b) <=> VectorLess(a, b)
  BY <1>1, <1>2, Zenon DEF FieldVectorLess, VectorLess
<1>4. FieldVectorFloatLess(a, b, tol) <=> VectorFloatLess(a, b, tol)
  BY <1>2, Zenon DEF FieldVectorFloatLess, VectorFloatLess
<1> QED
  BY <1>3, <1>4 DEF FieldVectorLess, VectorLess, FieldVectorFloatLess, VectorFloatLess

\* Vectors of any length are ordered strictly and totally by VectorLess, VectorFloatLess
\* is that order where no components are closer than the tolerance, and the orders of
\* FieldVector are the same.
THEOREM VectorsAreOrdered ==
  ASSUME NEW a, NEW b, NEW c, NEW tol, IsVector(a), IsVector(b), IsVector(c), IsTolerance(tol)
  PROVE  VectorsOrdered(a, b, c, tol)
<1> SUFFICES ASSUME DOMAIN a = DOMAIN b, DOMAIN b = DOMAIN c
    PROVE  /\ Cardinality({r \in {<<1, VectorLess(a, b)>>, <<2, a = b>>, <<3, VectorLess(b, a)>>} : r[2]}) = 1
           /\ VectorLess(a, b) /\ VectorLess(b, c) => VectorLess(a, c)
           /\ (\A d \in DOMAIN a : a[d] = b[d] \/ FloatNe(Scalar(a[d]), Scalar(b[d]), tol)) =>
                VectorFloatLess(a, b, tol) = VectorLess(a, b)
           /\ FieldVectorLess(a, b) = VectorLess(a, b)
           /\ FieldVectorFloatLess(a, b, tol) = VectorFloatLess(a, b, tol)
  BY Zenon DEF VectorsOrdered
<1>1. Cardinality({r \in {<<1, VectorLess(a, b)>>, <<2, a = b>>, <<3, VectorLess(b, a)>>} : r[2]}) = 1
  <2>1. PICK P \in BOOLEAN, Q \in BOOLEAN, R \in BOOLEAN :
          P = VectorLess(a, b) /\ Q = (a = b) /\ R = VectorLess(b, a)
    <3>1. VectorLess(a, b) \in BOOLEAN /\ (a = b) \in BOOLEAN /\ VectorLess(b, a) \in BOOLEAN
      BY Zenon DEF VectorLess
    <3> QED
      BY <3>1
  <2>2. (P \/ Q \/ R) /\ ~(P /\ Q) /\ ~(P /\ R) /\ ~(Q /\ R)
    BY <2>1, VectorsTrichotomy
  <2>3. Cardinality({r \in {<<1, P>>, <<2, Q>>, <<3, R>>} : r[2]}) = 1
    BY <2>2, OneOfThree
  <2> QED
    BY <2>1, <2>3, Zenon
<1>2. VectorLess(a, b) /\ VectorLess(b, c) => VectorLess(a, c)
  BY VectorsTransitive
<1> QED
  BY <1>1, <1>2, FarApart, FieldVectorsAlike, Zenon

-----------------------------------------------------------------------------
(* math.hh *)

\* clamp() gives what is next to var of all numbers between the bounds, minmod and maxmod
\* choose between numbers of one sign, whichever comes first, and alike of the mirrored
\* numbers unless one is zero: for all integers.
THEOREM ChoicesAreOrdered ==
  ASSUME NEW x \in Int, NEW y \in Int, NEW z \in Int
  PROVE  ChoicesOrdered(x, y, z)
<1>1. PICK clamped : clamped = Clamp(x, y, z)
  OBVIOUS
<1>2. IF y <= z THEN clamped \in y..z /\ \A w \in y..z : Abs(clamped - x) <= Abs(w - x)
      ELSE clamped \in {y, z}
  BY <1>1 DEF Clamp, Abs
<1>3. Minmod(x, y) = Minmod(y, x)
  BY DEF Minmod, SameSign, Abs
<1>4. Maxmod(x, y) = Maxmod(y, x)
  BY DEF Maxmod, SameSign, Abs
<1>5. SameSign(x, y) => /\ {Minmod(x, y), Maxmod(x, y)} = {x, y}
                        /\ Abs(Minmod(x, y)) <= Abs(Maxmod(x, y))
  BY DEF Minmod, Maxmod, SameSign, Abs
<1>6. (x # 0 /\ y # 0) => Maxmod(-x, -y) = -Maxmod(x, y)
  BY DEF Maxmod, SameSign, Abs
<1>7. (x = 0 /\ y > 0) => Maxmod(x, y) = y /\ Maxmod(-x, -y) = 0
  BY DEF Maxmod, SameSign, Abs
<1>8. Minmod(-x, -y) = -Minmod(x, y)
  BY DEF Minmod, SameSign, Abs
<1> QED
  BY <1>1, <1>2, <1>3, <1>4, <1>5, <1>6, <1>7, <1>8, Zenon DEF ChoicesOrdered

\* acc[k] is what MinMaxAvg has taken of the first k elements, for the k up to n.
Takes(acc, n, elements) ==
  acc = [k \in 0 .. n |-> IF k = 0 THEN [count |-> 0, sum |-> 0, min |-> 0, max |-> 0]
                          ELSE Taken(acc[k - 1], elements[k])]

\* There is such a function.
LEMMA Taking ==
  ASSUME NEW n \in Nat, NEW elements
  PROVE  \E acc : Takes(acc, n, elements)
<1> DEFINE S == {m \in Nat : \E acc : Takes(acc, m, elements)}
<1>1. 0 \in S
  <2>1. PICK f : f = [k \in 0 .. 0 |-> [count |-> 0, sum |-> 0, min |-> 0, max |-> 0]]
    OBVIOUS
  <2>2. Takes(f, 0, elements)
    BY <2>1 DEF Takes
  <2> QED
    BY <2>2
<1>2. ASSUME NEW m \in Nat, m \in S PROVE m + 1 \in S
  <2>1. PICK f : Takes(f, m, elements)
    BY <1>2
  <2>2. PICK g : g = [k \in 0 .. (m + 1) |-> IF k = m + 1 THEN Taken(f[m], elements[m + 1]) ELSE f[k]]
    OBVIOUS
  <2>3. \A k \in 0 .. m : g[k] = f[k]
    BY <2>2
  <2>4. ASSUME NEW k \in 0 .. (m + 1)
        PROVE  g[k] = IF k = 0 THEN [count |-> 0, sum |-> 0, min |-> 0, max |-> 0]
                      ELSE Taken(g[k - 1], elements[k])
    <3>1. CASE k = m + 1
      <4>1. k # 0 /\ k - 1 = m /\ m \in 0 .. m
        BY <3>1
      <4> QED
        BY <2>2, <2>3, <3>1, <4>1
    <3>2. CASE k # m + 1
      <4>1. k \in 0 .. m /\ (k # 0 => k - 1 \in 0 .. m)
        BY <3>2
      <4>2. f[k] = IF k = 0 THEN [count |-> 0, sum |-> 0, min |-> 0, max |-> 0]
                   ELSE Taken(f[k - 1], elements[k])
        BY <2>1, <4>1 DEF Takes
      <4> QED
        BY <2>3, <4>1, <4>2
    <3> QED
      BY <3>1, <3>2
  <2>5. Takes(g, m + 1, elements)
    BY <2>2, <2>4 DEF Takes
  <2> QED
    BY <2>5
<1>3. n \in S
  BY <1>1, <1>2, CountingUp
<1> QED
  BY <1>3

\* The accumulator knows how many elements it has taken, and the least and the
\* greatest of them.
Summary(acc, k, elements) ==
  /\ acc = [count |-> k, sum |-> acc.sum, min |-> acc.min, max |-> acc.max]
  /\ acc.sum \in Int /\ acc.min \in Int /\ acc.max \in Int
  /\ \E i \in 1 .. k : acc.min = elements[i]
  /\ \E i \in 1 .. k : acc.max = elements[i]
  /\ \A i \in 1 .. k : acc.min <= elements[i] /\ elements[i] <= acc.max

\* Taking one more element.
LEMMA TakenOneMore ==
  ASSUME NEW acc, NEW k \in Nat \ {0}, NEW elements, Summary(acc, k, elements),
         NEW el \in Int, el = elements[k + 1], \A i \in 1 .. k : elements[i] \in Int
  PROVE  /\ Summary(Taken(acc, el), k + 1, elements)
         /\ Taken(acc, el).sum = acc.sum + el
<1>1. acc.count = k
  BY DEF Summary
<1>2. PICK sum \in Int, min \in Int, max \in Int : sum = acc.sum /\ min = acc.min /\ max = acc.max
  BY DEF Summary
<1>3. PICK lower \in Int, upper \in Int :
        /\ lower = Min({min, el}) /\ lower <= min /\ lower <= el /\ lower \in {min, el}
        /\ upper = Max({max, el}) /\ upper >= max /\ upper >= el /\ upper \in {max, el}
  <2>1. Min({min, el}) = IF min <= el THEN min ELSE el
    BY DEF Min
  <2>2. Max({max, el}) = IF max >= el THEN max ELSE el
    BY DEF Max
  <2> QED
    BY <2>1, <2>2
<1>4. Taken(acc, el) = [count |-> k + 1, sum |-> sum + el, min |-> lower, max |-> upper]
  BY <1>1, <1>2, <1>3 DEF Taken
<1>5. PICK new : new = Taken(acc, el)
  OBVIOUS
<1>6. new.count = k + 1 /\ new.sum = sum + el /\ new.min = lower /\ new.max = upper
      /\ new = [count |-> k + 1, sum |-> new.sum, min |-> new.min, max |-> new.max]
  BY <1>4, <1>5
<1>7. \E i \in 1 .. (k + 1) : lower = elements[i]
  <2>1. \E i \in 1 .. k : min = elements[i]
    BY <1>2 DEF Summary
  <2> QED
    BY <1>3, <2>1
<1>8. \E i \in 1 .. (k + 1) : upper = elements[i]
  <2>1. \E i \in 1 .. k : max = elements[i]
    BY <1>2 DEF Summary
  <2> QED
    BY <1>3, <2>1
<1>9. ASSUME NEW i \in 1 .. (k + 1) PROVE lower <= elements[i] /\ elements[i] <= upper
  <2>1. CASE i = k + 1
    BY <1>3, <2>1
  <2>2. CASE i # k + 1
    <3>1. i \in 1 .. k
      BY <2>2
    <3>2. min <= elements[i] /\ elements[i] <= max /\ elements[i] \in Int
      BY <1>2, <3>1 DEF Summary
    <3> QED
      BY <1>3, <3>2
  <2> QED
    BY <2>1, <2>2
<1> QED
  BY <1>2, <1>5, <1>6, <1>7, <1>8, <1>9 DEF Summary

\* s has the sums of the first elements.
RunsUp(s, n, elements) ==
  /\ s[0] = 0 /\ \A k \in 0 .. n : s[k] \in Int
  /\ \A k \in 0 .. (n - 1) : s[k + 1] = s[k] + elements[k + 1]

\* What MinMaxAvg has taken in the end.
LEMMA AllTaken ==
  ASSUME NEW n \in Nat \ {0}, NEW elements, Len(elements) = n, \A i \in 1 .. n : elements[i] \in Int
  PROVE  \E s : /\ RunsUp(s, n, elements) /\ MinMaxAvg(elements).sum = s[n]
                /\ Summary(MinMaxAvg(elements), n, elements)
<1>1. PICK acc : acc = CHOOSE f : f =
        [k \in 0 .. Len(elements) |->
           IF k = 0 THEN [count |-> 0, sum |-> 0, min |-> 0, max |-> 0] ELSE Taken(f[k - 1], elements[k])]
  OBVIOUS
<1>2. MinMaxAvg(elements) = acc[n]
  BY <1>1 DEF MinMaxAvg
<1>3. Takes(acc, n, elements)
  <2>1. \E f : Takes(f, n, elements)
    BY Taking
  <2> QED
    BY <1>1, <2>1, Zenon DEF Takes
<1>4. acc[0] = [count |-> 0, sum |-> 0, min |-> 0, max |-> 0]
  BY <1>3 DEF Takes
<1>5. ASSUME NEW k \in 0 .. (n - 1) PROVE acc[k + 1] = Taken(acc[k], elements[k + 1])
  <2>1. k + 1 \in 0 .. n /\ k + 1 # 0 /\ (k + 1) - 1 = k
    OBVIOUS
  <2> QED
    BY <1>3, <2>1 DEF Takes
<1> DEFINE s == [k \in 0 .. n |-> acc[k].sum]
<1> DEFINE S == {k \in Nat : k + 1 \in 1 .. n => /\ Summary(acc[k + 1], k + 1, elements)
                                                 /\ acc[k + 1].sum = acc[k].sum + elements[k + 1]}
<1>6. 0 \in S
  <2>1. acc[0 + 1] = Taken(acc[0], elements[0 + 1])
    BY <1>5
  <2>2. PICK el \in Int : el = elements[1]
    OBVIOUS
  <2>3. PICK new : new = acc[1]
    OBVIOUS
  <2>4. new = [count |-> 1, sum |-> el, min |-> el, max |-> el]
    BY <1>4, <2>1, <2>2, <2>3 DEF Taken
  <2>5. Summary(new, 1, elements)
    BY <2>2, <2>4 DEF Summary
  <2>6. acc[0].sum = 0 /\ new.sum = el
    BY <1>4, <2>4
  <2> QED
    BY <2>2, <2>3, <2>5, <2>6
<1>7. ASSUME NEW k \in Nat, k \in S PROVE k + 1 \in S
  <2> SUFFICES ASSUME (k + 1) + 1 \in 1 .. n
               PROVE  /\ Summary(acc[(k + 1) + 1], (k + 1) + 1, elements)
                      /\ acc[(k + 1) + 1].sum = acc[k + 1].sum + elements[(k + 1) + 1]
    OBVIOUS
  <2>1. Summary(acc[k + 1], k + 1, elements)
    BY <1>7
  <2>2. PICK m \in Nat \ {0} : m = k + 1
    OBVIOUS
  <2>3. PICK el \in Int : el = elements[m + 1]
    BY <2>2
  <2>4. acc[m + 1] = Taken(acc[m], el)
    BY <1>5, <2>2, <2>3
  <2>5. \A i \in 1 .. m : elements[i] \in Int
    BY <2>2
  <2>6. Summary(Taken(acc[m], el), m + 1, elements) /\ Taken(acc[m], el).sum = acc[m].sum + el
    BY <2>1, <2>2, <2>3, <2>5, TakenOneMore
  <2> QED
    BY <2>2, <2>3, <2>4, <2>6
<1>8. \A k \in Nat : k \in S
  <2> HIDE DEF S
  <2> TAKE k \in Nat
  <2>1. \A m \in 0 .. (k - 1) : m \in S => m + 1 \in S
    BY <1>7
  <2> QED
    BY <1>6, <2>1, CountingUp
<1>9. ASSUME NEW k \in 0 .. (n - 1)
      PROVE  Summary(acc[k + 1], k + 1, elements) /\ acc[k + 1].sum = acc[k].sum + elements[k + 1]
  <2>1. k \in Nat /\ k + 1 \in 1 .. n
    OBVIOUS
  <2> QED
    BY <1>8, <2>1
<1>10. Summary(acc[n], n, elements)
  <2>1. n - 1 \in 0 .. (n - 1) /\ (n - 1) + 1 = n
    OBVIOUS
  <2>2. Summary(acc[(n - 1) + 1], (n - 1) + 1, elements)
    BY <1>9, <2>1
  <2> QED
    BY <2>1, <2>2
<1>11. RunsUp(s, n, elements)
  <2>1. s[0] = 0
    BY <1>4
  <2>2. ASSUME NEW k \in 0 .. n PROVE s[k] \in Int
    <3>1. CASE k = 0
      BY <2>1, <3>1
    <3>2. CASE k # 0
      <4>1. k - 1 \in 0 .. (n - 1) /\ (k - 1) + 1 = k
        BY <3>2
      <4>2. Summary(acc[(k - 1) + 1], (k - 1) + 1, elements)
        BY <1>9, <4>1
      <4>3. acc[k].sum \in Int
        BY <4>1, <4>2 DEF Summary
      <4> QED
        BY <4>3
    <3> QED
      BY <3>1, <3>2
  <2>3. ASSUME NEW k \in 0 .. (n - 1) PROVE s[k + 1] = s[k] + elements[k + 1]
    <3>1. k \in 0 .. n /\ k + 1 \in 0 .. n
      OBVIOUS
    <3> QED
      BY <1>9, <3>1
  <2> HIDE DEF s
  <2> QED
    BY <2>1, <2>2, <2>3 DEF RunsUp
<1>12. s[n] = acc[n].sum
  OBVIOUS
<1> HIDE DEF s, S
<1> QED
  BY <1>2, <1>10, <1>11, <1>12

\* A sum is between as many times the least and the greatest element.
LEMMA SumBetween ==
  ASSUME NEW n \in Nat, NEW s, NEW elements, RunsUp(s, n, elements), NEW min \in Int, NEW max \in Int,
         \A i \in 1 .. n : elements[i] \in Int /\ min <= elements[i] /\ elements[i] <= max
  PROVE  n * min <= s[n] /\ s[n] <= n * max
<1> DEFINE S == {k \in 0 .. n : k * min <= s[k] /\ s[k] <= k * max}
<1>1. 0 \in S
  BY DEF RunsUp
<1>2. ASSUME NEW k \in 0 .. (n - 1), k \in S PROVE k + 1 \in S
  <2>1. k + 1 \in 1 .. n /\ k + 1 \in 0 .. n /\ k \in 0 .. n
    OBVIOUS
  <2>2. PICK a \in Int, el \in Int : a = s[k] /\ el = elements[k + 1] /\ s[k + 1] = a + el
    BY <2>1 DEF RunsUp
  <2>3. min <= el /\ el <= max /\ k * min <= a /\ a <= k * max
    BY <1>2, <2>1, <2>2
  <2>4. PICK low \in Int, high \in Int : low = k * min /\ high = k * max
    OBVIOUS
  <2>5. (k + 1) * min = low + min /\ (k + 1) * max = high + max
    BY <2>4
  <2>6. low + min <= a + el /\ a + el <= high + max
    BY <2>3, <2>4
  <2> QED
    BY <2>1, <2>2, <2>5, <2>6
<1>3. n \in S
  <2> HIDE DEF S
  <2> QED
    BY <1>1, <1>2, CountingUp
<1> QED
  BY <1>3

\* Elements in the opposite order have the same sum.
LEMMA SumReversed ==
  ASSUME NEW n \in Nat, NEW s, NEW elements, RunsUp(s, n, elements), NEW t, NEW turned,
         RunsUp(t, n, turned), \A i \in 1 .. n : elements[i] \in Int,
         \A i \in 1 .. n : turned[i] = elements[(n - i) + 1]
  PROVE  t[n] = s[n]
<1> DEFINE S == {k \in 0 .. n : t[k] = s[n] - s[n - k]}
<1>1. 0 \in S
  BY DEF RunsUp
<1>2. ASSUME NEW k \in 0 .. (n - 1), k \in S PROVE k + 1 \in S
  <2>1. PICK j \in 0 .. (n - 1) : j = n - (k + 1) /\ j + 1 = n - k /\ (n - (k + 1)) + 1 = j + 1
    OBVIOUS
  <2>2. k + 1 \in 1 .. n /\ k + 1 \in 0 .. n /\ k \in 0 .. n /\ j \in 0 .. n /\ j + 1 \in 0 .. n /\ n \in 0 .. n
    BY <2>1
  <2>3. t[k + 1] = t[k] + turned[k + 1] /\ s[j + 1] = s[j] + elements[j + 1]
        /\ turned[k + 1] = elements[j + 1]
    BY <2>1, <2>2 DEF RunsUp
  <2>4. s[j] \in Int /\ s[j + 1] \in Int /\ s[n] \in Int /\ t[k] \in Int /\ t[k + 1] \in Int
    BY <2>2 DEF RunsUp
  <2>5. t[k] = s[n] - s[j + 1]
    BY <1>2, <2>1
  <2>6. elements[j + 1] \in Int
    OBVIOUS
  <2> QED
    BY <2>1, <2>2, <2>3, <2>4, <2>5, <2>6
<1>3. n \in S
  <2> HIDE DEF S
  <2> QED
    BY <1>1, <1>2, CountingUp
<1> QED
  BY <1>3 DEF RunsUp

\* If the first element comes last instead, the sum is the same.
LEMMA SumRotated ==
  ASSUME NEW n \in Nat \ {0}, NEW s, NEW elements, RunsUp(s, n, elements), NEW t, NEW turned,
         RunsUp(t, n, turned), \A i \in 1 .. n : elements[i] \in Int,
         \A i \in 1 .. (n - 1) : turned[i] = elements[i + 1],
         turned[n] = elements[1]
  PROVE  t[n] = s[n]
<1> DEFINE S == {k \in 0 .. (n - 1) : t[k] = s[k + 1] - s[1]}
<1>0. s[1] \in Int /\ 0 \in 0 .. (n - 1)
  BY DEF RunsUp
<1>1. 0 \in S
  BY <1>0 DEF RunsUp
<1>2. ASSUME NEW k \in 0 .. ((n - 1) - 1), k \in S PROVE k + 1 \in S
  <2>1. k + 1 \in 1 .. (n - 1) /\ k \in 0 .. (n - 1) /\ k + 1 \in 0 .. (n - 1)
        /\ (k + 1) + 1 \in 0 .. n /\ k \in 0 .. n /\ k + 1 \in 0 .. n
    OBVIOUS
  <2>2. PICK m \in Nat : m = k + 1
    OBVIOUS
  <2>3. t[m] = t[k] + elements[m + 1] /\ s[m + 1] = s[m] + elements[m + 1]
    BY <2>1, <2>2 DEF RunsUp
  <2>4. s[m] \in Int /\ s[m + 1] \in Int /\ t[k] \in Int /\ t[m] \in Int
    BY <2>1, <2>2 DEF RunsUp
  <2>5. t[k] = s[m] - s[1]
    BY <1>2, <2>2
  <2>6. t[m] = s[m + 1] - s[1]
    <3>1. PICK el \in Int : el = elements[m + 1]
      BY <2>1, <2>2
    <3> QED
      BY <1>0, <2>3, <2>4, <2>5, <3>1
  <2> QED
    BY <2>1, <2>2, <2>6
<1>3. n - 1 \in S
  <2>1. n - 1 \in Nat
    OBVIOUS
  <2> HIDE DEF S
  <2> QED
    BY <1>1, <1>2, <2>1, CountingUp
<1>4. t[n - 1] = s[n] - s[1] /\ t[n] = t[n - 1] + turned[n] /\ s[1] = s[0] + elements[1] /\ s[0] = 0
  <2>1. n - 1 \in 0 .. (n - 1) /\ (n - 1) + 1 = n /\ 0 + 1 = 1
    OBVIOUS
  <2>2. t[(n - 1) + 1] = t[n - 1] + turned[(n - 1) + 1]
    BY <2>1 DEF RunsUp
  <2>3. s[0 + 1] = s[0] + elements[0 + 1] /\ s[0] = 0
    BY <1>0 DEF RunsUp
  <2>4. t[n - 1] = s[(n - 1) + 1] - s[1]
    BY <1>3
  <2> QED
    BY <2>1, <2>2, <2>3, <2>4
<1>5. s[n] \in Int /\ t[n] \in Int /\ t[n - 1] \in Int /\ elements[1] \in Int
  BY DEF RunsUp
<1> QED
  BY <1>0, <1>4, <1>5

\* What has been taken of the same elements in another order is the same.
LEMMA SameSummary ==
  ASSUME NEW n \in Nat, NEW acc, NEW other, NEW elements, NEW turned,
         Summary(acc, n, elements), Summary(other, n, turned), acc.sum = other.sum,
         \A i \in 1 .. n : \E j \in 1 .. n : turned[i] = elements[j],
         \A i \in 1 .. n : \E j \in 1 .. n : elements[i] = turned[j]
  PROVE  acc = other
<1>1. /\ acc.min \in Int /\ other.min \in Int /\ acc.max \in Int /\ other.max \in Int
      /\ acc = [count |-> n, sum |-> acc.sum, min |-> acc.min, max |-> acc.max]
      /\ other = [count |-> n, sum |-> other.sum, min |-> other.min, max |-> other.max]
  BY DEF Summary
<1>2. acc.min <= other.min /\ other.max <= acc.max
  BY DEF Summary
<1>3. other.min <= acc.min /\ acc.max <= other.max
  BY DEF Summary
<1>4. acc.min = other.min /\ acc.max = other.max
  BY <1>1, <1>2, <1>3
<1> QED
  BY <1>1, <1>4

\* A truncated quotient and what it leaves.
LEMMA TruncatedQuotient ==
  ASSUME NEW n \in Nat \ {0}, NEW a \in Nat
  PROVE  \E q \in Nat, r \in 0 .. (n - 1) : a \div n = q /\ a = n * q + r
<1>1. a = n * (a \div n) + (a % n) /\ (a % n) \in 0 .. (n - 1) /\ a \div n \in Nat
  OBVIOUS
<1> QED
  BY <1>1

\* Of two multiples of n, one less than the other.
LEMMA SmallerFactor ==
  ASSUME NEW n \in Nat \ {0}, NEW a \in Int, NEW b \in Int, n * a < n * b + n
  PROVE  a <= b
<1>1. n * (b + 1) = n * b + n
  OBVIOUS
<1>2. SUFFICES ASSUME a >= b + 1 PROVE FALSE
  OBVIOUS
<1>3. PICK d \in Nat : a = (b + 1) + d
  <2>1. a - (b + 1) \in Nat /\ a = (b + 1) + (a - (b + 1))
    BY <1>2
  <2> QED
    BY <2>1
<1>4. n * a = n * (b + 1) + n * d /\ n * d \in Nat
  <2>1. n * ((b + 1) + d) = n * (b + 1) + n * d
    OBVIOUS
  <2>2. n * d \in Nat
    BY ProductIsNat
  <2> QED
    BY <1>3, <2>1, <2>2
<1>5. PICK p \in Int, q \in Nat : p = n * b /\ q = n * d
  BY <1>4
<1> QED
  BY <1>1, <1>4, <1>5

\* The truncated average keeps between what the sum keeps between, and leaves less than
\* the number of elements.
LEMMA AverageBetween ==
  ASSUME NEW acc, NEW n \in Nat \ {0}, NEW sum \in Int, NEW min \in Int, NEW max \in Int,
         acc.count = n, acc.sum = sum, n * min <= sum, sum <= n * max
  PROVE  /\ Average(acc) \in Int /\ min <= Average(acc) /\ Average(acc) <= max
         /\ Abs(sum) - Abs(Average(acc)) * n \in 0 .. n - 1
<1>1. PICK low \in Int, high \in Int : low = n * min /\ high = n * max /\ low <= sum /\ sum <= high
  OBVIOUS
<1>2. CASE sum >= 0
  <2>1. PICK q \in Nat, r \in 0 .. (n - 1) : sum \div n = q /\ sum = n * q + r
    BY <1>2, TruncatedQuotient
  <2>2. Average(acc) = q
    <3>1. Abs(sum) = sum
      BY <1>2 DEF Abs
    <3>2. CASE sum = 0
      <4>1. q = 0
        <5>1. n * q = 0
          <6>1. n * q \in Nat
            BY ProductIsNat
          <6> QED
            BY <2>1, <3>2, <6>1
        <5> QED
          BY <5>1
      <4>2. Signum(sum) = 0
        BY <3>2 DEF Signum
      <4> QED
        BY <2>1, <3>1, <4>1, <4>2 DEF Average
    <3>3. CASE sum > 0
      <4>1. Signum(sum) = 1 /\ 1 * q = q
        BY <3>3 DEF Signum
      <4> QED
        BY <2>1, <3>1, <4>1 DEF Average
    <3> QED
      BY <1>2, <3>2, <3>3
  <2>3. PICK p \in Int : p = n * q
    OBVIOUS
  <2>4. n * min < n * q + n
    <3>1. low < p + n
      BY <1>1, <2>1, <2>3
    <3> QED
      BY <1>1, <2>3, <3>1
  <2>5. n * q < n * max + n
    <3>1. p < high + n
      BY <1>1, <2>1, <2>3
    <3> QED
      BY <1>1, <2>3, <3>1
  <2>6. min <= q /\ q <= max
    BY <2>4, <2>5, SmallerFactor
  <2>7. Abs(sum) - Abs(q) * n \in 0 .. n - 1
    <3>1. Abs(sum) = p + r /\ Abs(q) = q /\ q * n = p
      BY <1>2, <2>1, <2>3 DEF Abs
    <3> QED
      BY <2>3, <3>1
  <2> QED
    BY <2>2, <2>6, <2>7
<1>3. CASE sum < 0
  <2>1. PICK q \in Nat, r \in 0 .. (n - 1) : (-sum) \div n = q /\ -sum = n * q + r
    <3>1. PICK a \in Nat : a = -sum
      BY <1>3
    <3> QED
      BY <3>1, TruncatedQuotient
  <2>2. Average(acc) = -q
    <3>1. Abs(sum) = -sum /\ Signum(sum) = -1 /\ (-1) * q = -q
      BY <1>3 DEF Abs, Signum
    <3> QED
      BY <2>1, <3>1 DEF Average
  <2>3. PICK p \in Int : p = n * q /\ n * (-q) = -p
    OBVIOUS
  <2>4. n * min < n * (-q) + n
    <3>1. low < -p + n
      BY <1>1, <2>1, <2>3
    <3> QED
      BY <1>1, <2>3, <3>1
  <2>5. n * (-q) < n * max + n
    <3>1. -p < high + n
      BY <1>1, <2>1, <2>3
    <3> QED
      BY <1>1, <2>3, <3>1
  <2>6. PICK m \in Int : m = -q
    OBVIOUS
  <2>7. min <= m /\ m <= max
    BY <2>4, <2>5, <2>6, SmallerFactor
  <2>8. Abs(sum) - Abs(m) * n \in 0 .. n - 1
    <3>1. Abs(sum) = p + r /\ Abs(m) = q /\ q * n = p
      BY <1>3, <2>1, <2>3, <2>6 DEF Abs
    <3> QED
      BY <2>3, <3>1
  <2> QED
    BY <2>2, <2>6, <2>7, <2>8
<1> QED
  BY <1>2, <1>3

\* The truncated average of any integers is between the least and the greatest of them,
\* is the element if all are equal, and no turning or rotating of the elements changes what
\* MinMaxAvg knows.
THEOREM AveragesAreInside ==
  ASSUME NEW elements \in Seq(Int)
  PROVE  AveragesInside(elements)
<1> SUFFICES ASSUME elements # <<>>
    PROVE  LET acc == MinMaxAvg(elements)
           IN  /\ acc.min <= Average(acc) /\ Average(acc) <= acc.max
               /\ acc.min = acc.max => Average(acc) = acc.min
               /\ Abs(acc.sum) - Abs(Average(acc)) * acc.count \in 0..acc.count - 1
               /\ MinMaxAvg(Reverse(elements)) = acc
               /\ MinMaxAvg(Tail(elements) \o <<Head(elements)>>) = acc
  BY Zenon DEF AveragesInside
<1>1. PICK n \in Nat \ {0} : n = Len(elements)
  OBVIOUS
<1>2. \A i \in 1 .. n : elements[i] \in Int
  BY <1>1
<1>3. PICK s : /\ RunsUp(s, n, elements) /\ MinMaxAvg(elements).sum = s[n]
               /\ Summary(MinMaxAvg(elements), n, elements)
  BY <1>1, <1>2, AllTaken
<1>4. PICK acc : acc = MinMaxAvg(elements)
  OBVIOUS
<1>5. PICK sum \in Int, min \in Int, max \in Int :
        acc.count = n /\ acc.sum = sum /\ acc.min = min /\ acc.max = max /\ s[n] = sum
  BY <1>3, <1>4 DEF Summary
<1>6. \A i \in 1 .. n : min <= elements[i] /\ elements[i] <= max
  BY <1>3, <1>4, <1>5 DEF Summary
<1>7. n * min <= sum /\ sum <= n * max
  <2>1. \A i \in 1 .. n : elements[i] \in Int /\ min <= elements[i] /\ elements[i] <= max
    BY <1>2, <1>6
  <2>2. n * min <= s[n] /\ s[n] <= n * max
    BY <1>3, <2>1, SumBetween
  <2> QED
    BY <1>5, <2>2, Zenon
<1>8. /\ Average(acc) \in Int /\ min <= Average(acc) /\ Average(acc) <= max
      /\ Abs(sum) - Abs(Average(acc)) * n \in 0 .. n - 1
  BY <1>5, <1>7, AverageBetween
<1>9. min = max => Average(acc) = min
  BY <1>8
<1>10. MinMaxAvg(Reverse(elements)) = acc
  <2>1. PICK turned : turned = Reverse(elements)
    OBVIOUS
  <2>2. turned = [i \in 1 .. n |-> elements[(n - i) + 1]]
    BY <1>1, <2>1 DEF Reverse
  <2>3. Len(turned) = n
    BY <2>2
  <2>4. \A i \in 1 .. n : turned[i] = elements[(n - i) + 1] /\ turned[i] \in Int
    BY <1>2, <2>2
  <2>5. PICK t : RunsUp(t, n, turned) /\ MinMaxAvg(turned).sum = t[n] /\ Summary(MinMaxAvg(turned), n, turned)
    BY <2>3, <2>4, AllTaken
  <2>6. t[n] = s[n]
    BY <1>2, <1>3, <2>4, <2>5, SumReversed
  <2>7. \A i \in 1 .. n : \E j \in 1 .. n : turned[i] = elements[j]
    BY <2>4
  <2>8. \A i \in 1 .. n : \E j \in 1 .. n : elements[i] = turned[j]
    <3> TAKE i \in 1 .. n
    <3>1. (n - i) + 1 \in 1 .. n /\ (n - ((n - i) + 1)) + 1 = i
      OBVIOUS
    <3> QED
      BY <2>4, <3>1
  <2> QED
    BY <1>3, <1>4, <2>1, <2>5, <2>6, <2>7, <2>8, SameSummary
<1>11. MinMaxAvg(Tail(elements) \o <<Head(elements)>>) = acc
  <2>1. PICK turned : turned = Tail(elements) \o <<Head(elements)>>
    OBVIOUS
  <2>2. /\ Len(turned) = n /\ \A i \in 1 .. (n - 1) : turned[i] = elements[i + 1]
        /\ turned[n] = elements[1]
    BY <1>1, <2>1
  <2>3. \A i \in 1 .. n : turned[i] \in Int
    <3> TAKE i \in 1 .. n
    <3>1. CASE i = n
      BY <1>2, <2>2, <3>1
    <3>2. CASE i # n
      <4>1. i \in 1 .. (n - 1) /\ i + 1 \in 1 .. n
        BY <3>2
      <4> QED
        BY <1>2, <2>2, <4>1
    <3> QED
      BY <3>1, <3>2
  <2>4. PICK t : RunsUp(t, n, turned) /\ MinMaxAvg(turned).sum = t[n] /\ Summary(MinMaxAvg(turned), n, turned)
    BY <2>2, <2>3, AllTaken
  <2>5. t[n] = s[n]
    BY <1>2, <1>3, <2>2, <2>4, SumRotated
  <2>6. \A i \in 1 .. n : \E j \in 1 .. n : turned[i] = elements[j]
    <3> TAKE i \in 1 .. n
    <3>1. CASE i = n
      <4>1. 1 \in 1 .. n
        OBVIOUS
      <4> QED
        BY <2>2, <3>1, <4>1
    <3>2. CASE i # n
      <4>1. i \in 1 .. (n - 1) /\ i + 1 \in 1 .. n
        BY <3>2
      <4> QED
        BY <2>2, <4>1
    <3> QED
      BY <3>1, <3>2
  <2>7. \A i \in 1 .. n : \E j \in 1 .. n : elements[i] = turned[j]
    <3> TAKE i \in 1 .. n
    <3>1. CASE i = 1
      <4>1. n \in 1 .. n
        OBVIOUS
      <4> QED
        BY <2>2, <3>1, <4>1
    <3>2. CASE i # 1
      <4>1. i - 1 \in 1 .. (n - 1) /\ i - 1 \in 1 .. n /\ (i - 1) + 1 = i
        BY <3>2
      <4> QED
        BY <2>2, <4>1
    <3> QED
      BY <3>1, <3>2
  <2> QED
    BY <1>3, <1>4, <2>1, <2>4, <2>5, <2>6, <2>7, SameSummary
<1> QED
  BY <1>4, <1>5, <1>8, <1>9, <1>10, <1>11, Zenon

-----------------------------------------------------------------------------
(* parameter.cc *)

\* R orders S strictly and totally.
Strict(R, S) ==
  /\ \A x \in S : <<x, x>> \notin R
  /\ \A x, y \in S : x = y \/ <<x, y>> \in R \/ <<y, x>> \in R
  /\ \A x, y, z \in S : <<x, y>> \in R /\ <<y, z>> \in R => <<x, z>> \in R

\* LexicographicLess() of a relation that is a set.
LexLess(s, t, R) ==
  \E i \in DOMAIN t :
    /\ i > Len(s) \/ <<s[i], t[i]>> \in R
    /\ \A j \in 1..i - 1 : j \in DOMAIN s /\ <<s[j], t[j]>> \notin R /\ <<t[j], s[j]>> \notin R

\* It is decided where one sequence has ended or the elements differ.
LexAt(s, t, R, i) ==
  /\ i = Len(s) + 1 \/ (i <= Len(s) /\ <<s[i], t[i]>> \in R)
  /\ \A j \in 1..(i - 1) : j <= Len(s) /\ s[j] = t[j]

\* That is one place.
LEMMA LexPlace ==
  ASSUME NEW S, NEW R, Strict(R, S), NEW s \in Seq(S), NEW t \in Seq(S)
  PROVE  LexLess(s, t, R) <=> \E i \in 1 .. Len(t) : LexAt(s, t, R, i)
<1>0. DOMAIN s = 1 .. Len(s) /\ DOMAIN t = 1 .. Len(t) /\ Len(s) \in Nat /\ Len(t) \in Nat
      /\ (\A i \in 1 .. Len(s) : s[i] \in S) /\ (\A i \in 1 .. Len(t) : t[i] \in S)
  OBVIOUS
<1>1. ASSUME NEW i \in 1 .. Len(t), NEW j \in 1..(i - 1), j \in 1 .. Len(s)
      PROVE  (<<s[j], t[j]>> \notin R /\ <<t[j], s[j]>> \notin R) <=> s[j] = t[j]
  <2>1. j \in 1 .. Len(t)
    BY <1>0
  <2>2. s[j] \in S /\ t[j] \in S
    BY <1>0, <1>1, <2>1
  <2> QED
    BY <2>2 DEF Strict
<1>2. ASSUME NEW i \in 1 .. Len(t)
      PROVE  (\A j \in 1..(i - 1) : j \in DOMAIN s /\ <<s[j], t[j]>> \notin R /\ <<t[j], s[j]>> \notin R)
               <=> \A j \in 1..(i - 1) : j <= Len(s) /\ s[j] = t[j]
  <2>1. \A j \in 1..(i - 1) : j \in DOMAIN s <=> j <= Len(s)
    BY <1>0
  <2>2. \A j \in 1..(i - 1) : j \in 1 .. Len(s) <=> j <= Len(s)
    BY <1>0
  <2> QED
    BY <1>1, <2>1, <2>2, Zenon
<1>3. ASSUME NEW i \in 1 .. Len(t), \A j \in 1..(i - 1) : j <= Len(s)
      PROVE  (i > Len(s) \/ <<s[i], t[i]>> \in R)
               <=> (i = Len(s) + 1 \/ (i <= Len(s) /\ <<s[i], t[i]>> \in R))
  <2>1. i <= Len(s) + 1
    <3>1. CASE i = 1
      BY <1>0, <3>1
    <3>2. CASE i # 1
      <4>1. i - 1 \in 1..(i - 1)
        BY <1>0, <3>2
      <4> QED
        BY <1>0, <1>3, <4>1
    <3> QED
      BY <3>1, <3>2
  <2>2. (i > Len(s) <=> i = Len(s) + 1) /\ (i <= Len(s) <=> ~(i > Len(s)))
    BY <1>0, <2>1
  <2> QED
    BY <2>2, Zenon
<1> QED
  BY <1>0, <1>2, <1>3, Zenon DEF LexLess, LexAt

\* Sequences of what is strictly ordered are.
LEMMA LexTotal ==
  ASSUME NEW S, NEW R, Strict(R, S), NEW s \in Seq(S), NEW t \in Seq(S), s # t
  PROVE  LexLess(s, t, R) \/ LexLess(t, s, R)
<1>0. DOMAIN s = 1 .. Len(s) /\ DOMAIN t = 1 .. Len(t) /\ Len(s) \in Nat /\ Len(t) \in Nat
      /\ (\A i \in 1 .. Len(s) : s[i] \in S) /\ (\A i \in 1 .. Len(t) : t[i] \in S)
  OBVIOUS
<1> DEFINE Both(i) == i <= Len(s) /\ i <= Len(t) /\ s[i] = t[i]
           E == {i \in Nat \ {0} : (i <= Len(s) \/ i <= Len(t)) /\ ~Both(i)}
<1>1. E # {}
  <2> SUFFICES ASSUME E = {} PROVE FALSE
    OBVIOUS
  <2>1. \A i \in Nat \ {0} : i <= Len(s) \/ i <= Len(t) => Both(i)
    OBVIOUS
  <2>2. Len(s) = Len(t)
    <3>1. PICK m \in Nat, n \in Nat : m = Len(s) /\ n = Len(t)
      BY <1>0
    <3>2. \A i \in Nat \ {0} : i <= m \/ i <= n => i <= m /\ i <= n
      BY <2>1, <3>1
    <3>3. m = n
      BY ONLY <3>2, m \in Nat, n \in Nat
    <3> QED
      BY <3>1, <3>3
  <2>3. \A i \in 1 .. Len(s) : s[i] = t[i]
    BY <1>0, <2>1
  <2>4. s = t
    BY <2>2, <2>3
  <2> QED
    BY <2>4
<1>2. PICK i \in E : \A k \in E : i <= k
  <2>1. E \in SUBSET Nat
    OBVIOUS
  <2> HIDE DEF E
  <2> QED
    BY <1>1, <2>1, LeastNatural
<1>3. i \in Nat \ {0} /\ (i <= Len(s) \/ i <= Len(t)) /\ ~Both(i)
  BY <1>2
<1>4. ASSUME NEW j \in 1 .. (i - 1) PROVE Both(j)
  <2>1. j \in Nat \ {0} /\ (j <= Len(s) \/ j <= Len(t)) /\ ~(i <= j)
    BY <1>0, <1>3
  <2>2. j \notin E
    BY <1>2, <2>1
  <2> QED
    BY <2>1, <2>2
<1>5. \A j \in 1 .. (i - 1) : j <= Len(s) /\ j <= Len(t) /\ s[j] = t[j] /\ t[j] = s[j]
  BY <1>4
<1>6. i <= Len(s) + 1 /\ i <= Len(t) + 1
  <2>1. CASE i = 1
    BY <1>0, <2>1
  <2>2. CASE i # 1
    <3>1. i - 1 \in 1 .. (i - 1)
      BY <1>3, <2>2
    <3> QED
      BY <1>0, <1>3, <1>5, <3>1
  <2> QED
    BY <2>1, <2>2
<1>7. CASE i > Len(s)
  <2>1. i = Len(s) + 1 /\ i \in 1 .. Len(t)
    BY <1>0, <1>3, <1>6, <1>7
  <2>2. LexAt(s, t, R, i)
    BY <1>5, <2>1 DEF LexAt
  <2> QED
    BY <2>1, <2>2, LexPlace
<1>8. CASE i > Len(t)
  <2>1. i = Len(t) + 1 /\ i \in 1 .. Len(s)
    BY <1>0, <1>3, <1>6, <1>8
  <2>2. LexAt(t, s, R, i)
    BY <1>5, <2>1 DEF LexAt
  <2> QED
    BY <2>1, <2>2, LexPlace
<1>9. CASE i <= Len(s) /\ i <= Len(t)
  <2>1. i \in 1 .. Len(s) /\ i \in 1 .. Len(t) /\ s[i] # t[i]
    BY <1>0, <1>3, <1>9
  <2>2. s[i] \in S /\ t[i] \in S
    BY <1>0, <2>1
  <2>3. <<s[i], t[i]>> \in R \/ <<t[i], s[i]>> \in R
    BY <2>1, <2>2 DEF Strict
  <2>4. LexAt(s, t, R, i) \/ LexAt(t, s, R, i)
    BY <1>5, <1>9, <2>3 DEF LexAt
  <2> QED
    BY <2>1, <2>4, LexPlace
<1> QED
  BY <1>0, <1>3, <1>7, <1>8, <1>9

\* No sequence is before itself.
LEMMA LexIrreflexive ==
  ASSUME NEW S, NEW R, Strict(R, S), NEW s \in Seq(S)
  PROVE  ~LexLess(s, s, R)
<1>1. ASSUME NEW i \in 1 .. Len(s), LexAt(s, s, R, i) PROVE FALSE
  <2>1. i # Len(s) + 1 /\ s[i] \in S
    OBVIOUS
  <2>2. <<s[i], s[i]>> \in R
    BY <1>1, <2>1 DEF LexAt
  <2> QED
    BY <2>1, <2>2 DEF Strict
<1> QED
  BY <1>1, LexPlace

\* The order of sequences is transitive.
LEMMA LexTransitive ==
  ASSUME NEW S, NEW R, Strict(R, S), NEW s \in Seq(S), NEW t \in Seq(S), NEW u \in Seq(S),
         LexLess(s, t, R), LexLess(t, u, R)
  PROVE  LexLess(s, u, R)
<1>0. Len(s) \in Nat /\ Len(t) \in Nat /\ Len(u) \in Nat
      /\ (\A i \in 1 .. Len(s) : s[i] \in S) /\ (\A i \in 1 .. Len(t) : t[i] \in S)
      /\ (\A i \in 1 .. Len(u) : u[i] \in S)
  OBVIOUS
<1>1. PICK i \in 1 .. Len(t) : LexAt(s, t, R, i)
  BY LexPlace
<1>2. PICK k \in 1 .. Len(u) : LexAt(t, u, R, k)
  BY LexPlace
<1>3. i \in Nat /\ k \in Nat /\ i >= 1 /\ k >= 1 /\ i <= Len(t) /\ k <= Len(u)
  BY <1>0
<1>4. CASE i < k
  <2>1. i \in 1 .. (k - 1) /\ i \in 1 .. Len(u)
    BY <1>0, <1>3, <1>4
  <2>2. t[i] = u[i]
    BY <1>2, <2>1 DEF LexAt
  <2>3. i = Len(s) + 1 \/ (i <= Len(s) /\ <<s[i], u[i]>> \in R)
    BY <1>1, <2>2 DEF LexAt
  <2>4. ASSUME NEW j \in 1 .. (i - 1) PROVE j <= Len(s) /\ s[j] = u[j]
    <3>1. j \in 1 .. (k - 1)
      BY <1>3, <1>4
    <3> QED
      BY <1>1, <1>2, <3>1 DEF LexAt
  <2>5. LexAt(s, u, R, i)
    BY <2>3, <2>4 DEF LexAt
  <2> QED
    BY <2>1, <2>5, LexPlace
<1>5. CASE i = k
  <2>1. <<t[i], u[i]>> \in R /\ i \in 1 .. Len(u)
    <3>1. i # Len(t) + 1
      BY <1>0, <1>3
    <3> QED
      BY <1>2, <1>5, <3>1 DEF LexAt
  <2>2. i = Len(s) + 1 \/ (i <= Len(s) /\ <<s[i], u[i]>> \in R)
    <3>1. CASE i = Len(s) + 1
      BY <3>1
    <3>2. CASE i <= Len(s) /\ <<s[i], t[i]>> \in R
      <4>1. i \in 1 .. Len(s)
        BY <1>0, <1>3, <3>2
      <4>2. s[i] \in S /\ t[i] \in S /\ u[i] \in S
        BY <1>0, <2>1, <4>1
      <4> QED
        BY <2>1, <3>2, <4>2 DEF Strict
    <3> QED
      BY <1>1, <3>1, <3>2 DEF LexAt
  <2>3. ASSUME NEW j \in 1 .. (i - 1) PROVE j <= Len(s) /\ s[j] = u[j]
    BY <1>1, <1>2, <1>5 DEF LexAt
  <2>4. LexAt(s, u, R, i)
    BY <2>2, <2>3 DEF LexAt
  <2> QED
    BY <2>1, <2>4, LexPlace
<1>6. CASE k < i
  <2>1. k \in 1 .. (i - 1) /\ k # Len(t) + 1
    BY <1>0, <1>3, <1>6
  <2>2. k <= Len(s) /\ s[k] = t[k] /\ <<t[k], u[k]>> \in R
    BY <1>1, <1>2, <2>1 DEF LexAt
  <2>3. ASSUME NEW j \in 1 .. (k - 1) PROVE j <= Len(s) /\ s[j] = u[j]
    <3>1. j \in 1 .. (i - 1)
      BY <1>3, <1>6
    <3> QED
      BY <1>1, <1>2, <3>1 DEF LexAt
  <2>4. LexAt(s, u, R, k)
    BY <2>2, <2>3 DEF LexAt
  <2> QED
    BY <2>4, LexPlace
<1> QED
  BY <1>3, <1>4, <1>5, <1>6

\* The sequences in order.
LexOrder(R, S) == {p \in Seq(S) \X Seq(S) : LexLess(p[1], p[2], R)}

\* What orders elements strictly and totally orders sequences of them so.
LEMMA LexStrict ==
  ASSUME NEW S, NEW R, Strict(R, S)
  PROVE  Strict(LexOrder(R, S), Seq(S))
<1>1. \A s, t \in Seq(S) : <<s, t>> \in LexOrder(R, S) <=> LexLess(s, t, R)
  <2> TAKE s, t \in Seq(S)
  <2>1. PICK p : p = <<s, t>> /\ p \in Seq(S) \X Seq(S) /\ p[1] = s /\ p[2] = t
    <3>1. <<s, t>> \in Seq(S) \X Seq(S) /\ <<s, t>>[1] = s /\ <<s, t>>[2] = t
      OBVIOUS
    <3> QED
      BY <3>1, Zenon
  <2> QED
    BY <2>1, Zenon DEF LexOrder
<1>2. \A s \in Seq(S) : ~LexLess(s, s, R)
  BY LexIrreflexive
<1>3. \A s, t \in Seq(S) : s = t \/ LexLess(s, t, R) \/ LexLess(t, s, R)
  BY LexTotal
<1>4. \A s, t, u \in Seq(S) : LexLess(s, t, R) /\ LexLess(t, u, R) => LexLess(s, u, R)
  BY LexTransitive
<1> QED
  BY <1>1, <1>2, <1>3, <1>4, Zenon DEF Strict

\* The keys in order.
IsAscending(seq, keys) ==
  /\ seq \in [1..Cardinality(keys) -> keys]
  /\ \A i, j \in DOMAIN seq : i < j => seq[i] < seq[j]
  /\ \A k \in keys : \E i \in DOMAIN seq : seq[i] = k

\* Finitely many numbers can be put in order.
LEMMA AscendingExists ==
  ASSUME NEW n \in Nat, NEW keys \in SUBSET (0 .. (n - 1))
  PROVE  \E seq : IsAscending(seq, keys)
<1> DEFINE S == {m \in Nat : \A K \in SUBSET (0 .. (m - 1)) : \E seq : IsAscending(seq, K)}
<1>1. 0 \in S
  <2> SUFFICES ASSUME NEW K \in SUBSET (0 .. (0 - 1)) PROVE \E seq : IsAscending(seq, K)
    OBVIOUS
  <2>1. K = {}
    OBVIOUS
  <2>2. Cardinality(K) = 0
    BY <2>1, FS_EmptySet
  <2>3. PICK seq : seq = [i \in 1 .. 0 |-> 0]
    OBVIOUS
  <2>4. DOMAIN seq = {} /\ seq \in [1 .. 0 -> K]
    BY <2>3
  <2>5. IsAscending(seq, K)
    BY <2>1, <2>2, <2>4 DEF IsAscending
  <2> QED
    BY <2>5
<1>2. ASSUME NEW m \in Nat, m \in S PROVE m + 1 \in S
  <2> SUFFICES ASSUME NEW K \in SUBSET (0 .. ((m + 1) - 1)) PROVE \E seq : IsAscending(seq, K)
    OBVIOUS
  <2>0. K \in SUBSET (0 .. m)
    OBVIOUS
  <2>1. CASE m \notin K
    <3>1. K \in SUBSET (0 .. (m - 1))
      BY <2>0, <2>1
    <3> QED
      BY <1>2, <3>1
  <2>2. CASE m \in K
    <3>1. PICK J : J = K \ {m}
      OBVIOUS
    <3>2. J \in SUBSET (0 .. (m - 1)) /\ J \in SUBSET K
      BY <2>0, <3>1
    <3>3. PICK seq : IsAscending(seq, J)
      BY <1>2, <3>2
    <3>4. IsFiniteSet(K)
      <4>1. IsFiniteSet(0 .. m)
        BY FS_Interval
      <4> QED
        BY <2>0, <4>1, FS_Subset
    <3>5. Cardinality(J) = Cardinality(K) - 1 /\ Cardinality(K) \in Nat /\ Cardinality(J) \in Nat
      <4>1. IsFiniteSet(J) /\ Cardinality(J) = Cardinality(K) - 1
        BY <2>2, <3>1, <3>4, FS_RemoveElement
      <4> QED
        BY <3>4, <4>1, FS_CardinalityType
    <3>6. PICK c \in Nat : c = Cardinality(J) /\ Cardinality(K) = c + 1
      BY <3>5
    <3>7. seq \in [1 .. c -> J] /\ (\A i, j \in 1 .. c : i < j => seq[i] < seq[j])
          /\ (\A k \in J : \E i \in 1 .. c : seq[i] = k)
      BY <3>3, <3>6 DEF IsAscending
    <3>8. PICK new : new = [i \in 1 .. (c + 1) |-> IF i = c + 1 THEN m ELSE seq[i]]
      OBVIOUS
    <3>9. DOMAIN new = 1 .. (c + 1) /\ new[c + 1] = m /\ \A i \in 1 .. c : new[i] = seq[i]
      BY <3>8
    <3>10. new \in [1 .. (c + 1) -> K]
      <4>1. \A i \in 1 .. c : seq[i] \in K
        BY <3>2, <3>7
      <4>2. \A i \in 1 .. (c + 1) : i # c + 1 => i \in 1 .. c
        OBVIOUS
      <4>3. \A i \in 1 .. (c + 1) : (IF i = c + 1 THEN m ELSE seq[i]) \in K
        BY <2>2, <4>1, <4>2
      <4> QED
        BY <3>8, <4>3
    <3>11. ASSUME NEW i \in 1 .. (c + 1), NEW j \in 1 .. (c + 1), i < j PROVE new[i] < new[j]
      <4>1. i \in 1 .. c
        BY <3>11
      <4>2. CASE j = c + 1
        <5>1. seq[i] \in 0 .. (m - 1)
          BY <3>2, <3>7, <4>1
        <5> QED
          BY <3>9, <4>1, <4>2, <5>1
      <4>3. CASE j # c + 1
        <5>1. j \in 1 .. c
          BY <4>3
        <5> QED
          BY <3>7, <3>9, <3>11, <4>1, <5>1
      <4> QED
        BY <4>2, <4>3
    <3>12. ASSUME NEW k \in K PROVE \E i \in 1 .. (c + 1) : new[i] = k
      <4>1. CASE k = m
        BY <3>9, <4>1
      <4>2. CASE k # m
        <5>1. k \in J
          BY <3>1, <4>2
        <5>2. PICK i \in 1 .. c : seq[i] = k
          BY <3>7, <5>1
        <5>3. i \in 1 .. (c + 1)
          OBVIOUS
        <5> QED
          BY <3>9, <5>2, <5>3
      <4> QED
        BY <4>1, <4>2
    <3>13. IsAscending(new, K)
      BY <3>6, <3>9, <3>10, <3>11, <3>12 DEF IsAscending
    <3> QED
      BY <3>13
  <2> QED
    BY <2>1, <2>2
<1>3. n \in S
  <2> HIDE DEF S
  <2> QED
    BY <1>1, <1>2, CountingUp
<1> QED
  BY <1>3

\* A parameter: its keys, which are below some number, have values.
IsParameter(mu) ==
  /\ mu = [k \in DOMAIN mu |-> mu[k]]
  /\ \A k \in DOMAIN mu : mu[k] \in Seq(Int)
  /\ \E n \in Nat : DOMAIN mu \in SUBSET (0 .. (n - 1))

\* The pairs of a parameter show it.
LEMMA PairsOf ==
  ASSUME NEW mu, IsParameter(mu)
  PROVE  /\ AsPairs(mu) \in Seq(Nat \X Seq(Int))
         /\ \A k, v : (k \in DOMAIN mu /\ v = mu[k]) <=> \E i \in DOMAIN AsPairs(mu) : AsPairs(mu)[i] = <<k, v>>
<1>1. PICK n \in Nat : DOMAIN mu \in SUBSET (0 .. (n - 1))
  BY DEF IsParameter
<1>2. PICK keys : keys = Ascending(DOMAIN mu)
  OBVIOUS
<1>3. IsAscending(keys, DOMAIN mu)
  <2>1. \E seq : IsAscending(seq, DOMAIN mu)
    BY <1>1, AscendingExists
  <2>2. \E seq \in [1..Cardinality(DOMAIN mu) -> DOMAIN mu] :
          /\ \A i, j \in DOMAIN seq : i < j => seq[i] < seq[j]
          /\ \A k \in DOMAIN mu : \E i \in DOMAIN seq : seq[i] = k
    BY <2>1, Zenon DEF IsAscending
  <2> QED
    BY <1>2, <2>2, Zenon DEF IsAscending, Ascending
<1>4. PICK c \in Nat : c = Cardinality(DOMAIN mu)
  <2>1. IsFiniteSet(0 .. (n - 1))
    BY FS_Interval
  <2>2. IsFiniteSet(DOMAIN mu)
    BY <1>1, <2>1, FS_Subset
  <2> QED
    BY <2>2, FS_CardinalityType
<1>5. /\ DOMAIN keys = 1 .. c /\ \A i \in 1 .. c : keys[i] \in DOMAIN mu
      /\ \A k \in DOMAIN mu : \E i \in 1 .. c : keys[i] = k
  BY <1>3, <1>4 DEF IsAscending
<1>6. PICK pairs : pairs = AsPairs(mu)
  OBVIOUS
<1>7. pairs = [i \in 1 .. c |-> <<keys[i], mu[keys[i]]>>]
  BY <1>2, <1>5, <1>6 DEF AsPairs
<1>8. \A k \in DOMAIN mu : k \in Nat /\ mu[k] \in Seq(Int)
  BY <1>1 DEF IsParameter
<1>9. pairs \in Seq(Nat \X Seq(Int))
  <2>1. \A i \in 1 .. c : <<keys[i], mu[keys[i]]>> \in Nat \X Seq(Int)
    BY <1>5, <1>8
  <2>2. pairs \in [1 .. c -> Nat \X Seq(Int)]
    BY <1>7, <2>1
  <2> QED
    BY <2>2
<1>10. DOMAIN pairs = 1 .. c /\ \A i \in 1 .. c : pairs[i] = <<keys[i], mu[keys[i]]>>
  BY <1>7
<1>11. ASSUME NEW k, NEW v PROVE (k \in DOMAIN mu /\ v = mu[k]) <=> \E i \in DOMAIN pairs : pairs[i] = <<k, v>>
  <2>1. ASSUME k \in DOMAIN mu, v = mu[k] PROVE \E i \in DOMAIN pairs : pairs[i] = <<k, v>>
    BY <1>5, <1>10, <2>1
  <2>2. ASSUME NEW i \in DOMAIN pairs, pairs[i] = <<k, v>> PROVE k \in DOMAIN mu /\ v = mu[k]
    <3>1. keys[i] = k /\ mu[keys[i]] = v
      BY <1>10, <2>2
    <3> QED
      BY <1>5, <1>10, <3>1
  <2> QED
    BY <2>1, <2>2
<1> QED
  BY <1>6, <1>9, <1>11

\* Parameters with the same pairs are the same.
LEMMA SamePairs ==
  ASSUME NEW mu, NEW nu, IsParameter(mu), IsParameter(nu), AsPairs(mu) = AsPairs(nu)
  PROVE  mu = nu
<1>1. \A k, v : (k \in DOMAIN mu /\ v = mu[k]) <=> (k \in DOMAIN nu /\ v = nu[k])
  <2>1. \A k, v : (k \in DOMAIN mu /\ v = mu[k])
                    <=> \E i \in DOMAIN AsPairs(mu) : AsPairs(mu)[i] = <<k, v>>
    BY PairsOf
  <2>2. \A k, v : (k \in DOMAIN nu /\ v = nu[k])
                    <=> \E i \in DOMAIN AsPairs(nu) : AsPairs(nu)[i] = <<k, v>>
    BY PairsOf
  <2>3. PICK pairs : pairs = AsPairs(mu) /\ pairs = AsPairs(nu)
    OBVIOUS
  <2>4. \A k, v : (k \in DOMAIN mu /\ v = mu[k]) <=> \E i \in DOMAIN pairs : pairs[i] = <<k, v>>
    BY <2>1, <2>3
  <2>5. \A k, v : (k \in DOMAIN nu /\ v = nu[k]) <=> \E i \in DOMAIN pairs : pairs[i] = <<k, v>>
    BY <2>2, <2>3
  <2> QED
    BY <2>4, <2>5, Zenon
<1>2. DOMAIN mu = DOMAIN nu /\ \A k \in DOMAIN mu : mu[k] = nu[k]
  BY <1>1
<1>3. mu = [k \in DOMAIN mu |-> mu[k]] /\ nu = [k \in DOMAIN mu |-> nu[k]]
  BY <1>2 DEF IsParameter
<1> QED
  BY <1>2, <1>3

\* Less, of numbers.
Below == {p \in Int \X Int : p[1] < p[2]}

\* Numbers are ordered strictly and totally.
LEMMA BelowStrict == Strict(Below, Int)
<1>1. \A x, y \in Int : <<x, y>> \in Below <=> x < y
  BY DEF Below
<1> QED
  BY <1>1 DEF Strict

\* A pair is before another if its key is, or its key is the same and its value is.
PairOrder ==
  {p \in (Nat \X Seq(Int)) \X (Nat \X Seq(Int)) :
     p[1][1] < p[2][1] \/ (p[1][1] = p[2][1] /\ LexLess(p[1][2], p[2][2], Below))}

\* What that says of two pairs.
LEMMA PairBefore ==
  ASSUME NEW p \in Nat \X Seq(Int), NEW q \in Nat \X Seq(Int)
  PROVE  <<p, q>> \in PairOrder <=> p[1] < q[1] \/ (p[1] = q[1] /\ LexLess(p[2], q[2], Below))
<1>1. PICK r : r = <<p, q>> /\ r \in (Nat \X Seq(Int)) \X (Nat \X Seq(Int)) /\ r[1] = p /\ r[2] = q
  <2>1. /\ <<p, q>> \in (Nat \X Seq(Int)) \X (Nat \X Seq(Int))
        /\ <<p, q>>[1] = p /\ <<p, q>>[2] = q
    OBVIOUS
  <2> QED
    BY <2>1, Zenon
<1> QED
  BY <1>1, Zenon DEF PairOrder

\* Pairs are ordered strictly and totally.
LEMMA PairsStrict == Strict(PairOrder, Nat \X Seq(Int))
<1> DEFINE P == Nat \X Seq(Int)
<1>1. \A p \in P : p[1] \in Nat /\ p[2] \in Seq(Int) /\ p = <<p[1], p[2]>>
  OBVIOUS
<1>2. \A p \in P : <<p, p>> \notin PairOrder
  <2> TAKE p \in P
  <2>1. ~LexLess(p[2], p[2], Below)
    BY <1>1, BelowStrict, LexIrreflexive
  <2>2. ~(p[1] < p[1])
    BY <1>1
  <2> QED
    BY <2>1, <2>2, PairBefore
<1>3. \A p, q \in P : p = q \/ <<p, q>> \in PairOrder \/ <<q, p>> \in PairOrder
  <2> TAKE p \in P, q \in P
  <2>1. p[1] < q[1] \/ p[1] = q[1] \/ q[1] < p[1]
    BY <1>1
  <2>2. p[2] = q[2] \/ LexLess(p[2], q[2], Below) \/ LexLess(q[2], p[2], Below)
    BY <1>1, BelowStrict, LexTotal
  <2>3. p[1] = q[1] /\ p[2] = q[2] => p = q
    BY <1>1
  <2> QED
    BY <2>1, <2>2, <2>3, PairBefore
<1>4. \A p, q, r \in P : <<p, q>> \in PairOrder /\ <<q, r>> \in PairOrder => <<p, r>> \in PairOrder
  <2> SUFFICES ASSUME NEW p \in P, NEW q \in P, NEW r \in P, <<p, q>> \in PairOrder, <<q, r>> \in PairOrder
               PROVE  <<p, r>> \in PairOrder
    OBVIOUS
  <2>1. p[1] < q[1] \/ (p[1] = q[1] /\ LexLess(p[2], q[2], Below))
    BY PairBefore
  <2>2. q[1] < r[1] \/ (q[1] = r[1] /\ LexLess(q[2], r[2], Below))
    BY PairBefore
  <2>3. LexLess(p[2], q[2], Below) /\ LexLess(q[2], r[2], Below) => LexLess(p[2], r[2], Below)
    BY <1>1, BelowStrict, LexTransitive
  <2>4. p[1] \in Nat /\ q[1] \in Nat /\ r[1] \in Nat
    BY <1>1
  <2>5. p[1] < r[1] \/ (p[1] = r[1] /\ LexLess(p[2], r[2], Below))
    BY <2>1, <2>2, <2>3, <2>4
  <2> QED
    BY <2>5, PairBefore
<1> QED
  BY <1>2, <1>3, <1>4 DEF Strict

\* The values of parameters are compared like sequences of numbers.
LEMMA ValuesForm ==
  ASSUME NEW s \in Seq(Int), NEW t \in Seq(Int)
  PROVE  LexLess(s, t, Below) <=> LexicographicLess(s, t, LAMBDA x, y : x < y)
<1>1. \A i \in 1 .. Len(s) : s[i] \in Int
  OBVIOUS
<1>2. \A i \in DOMAIN t : t[i] \in Int /\ i \in Nat /\ Len(s) \in Nat
  OBVIOUS
<1>3. \A x, y \in Int : <<x, y>> \in Below <=> x < y
  BY DEF Below
<1>4. ASSUME NEW i \in DOMAIN t
      PROVE  (i > Len(s) \/ <<s[i], t[i]>> \in Below) <=> (i > Len(s) \/ s[i] < t[i])
  <2>1. i > Len(s) \/ i \in 1 .. Len(s)
    BY <1>2
  <2> QED
    BY <1>1, <1>2, <1>3, <2>1
<1>5. ASSUME NEW i \in DOMAIN t, NEW j \in 1..i - 1
      PROVE  (j \in DOMAIN s /\ <<s[j], t[j]>> \notin Below /\ <<t[j], s[j]>> \notin Below)
               <=> (j \in DOMAIN s /\ ~(s[j] < t[j]) /\ ~(t[j] < s[j]))
  <2>1. j \in DOMAIN t
    OBVIOUS
  <2>2. j \in DOMAIN s => s[j] \in Int
    OBVIOUS
  <2> QED
    BY <1>2, <1>3, <2>1, <2>2
<1> QED
  BY <1>4, <1>5, Zenon DEF LexLess, LexicographicLess

\* Parameters are compared like sequences of pairs.
LEMMA ParameterForm ==
  ASSUME NEW mu, NEW nu, IsParameter(mu), IsParameter(nu)
  PROVE  ParameterLess(mu, nu) <=> LexLess(AsPairs(mu), AsPairs(nu), PairOrder)
<1>1. PICK s \in Seq(Nat \X Seq(Int)), t \in Seq(Nat \X Seq(Int)) : s = AsPairs(mu) /\ t = AsPairs(nu)
  BY PairsOf
<1> DEFINE PairLess(p, q) ==
             p[1] < q[1] \/ (p[1] = q[1] /\ LexicographicLess(p[2], q[2], LAMBDA x, y : x < y))
<1>2. ASSUME NEW p \in Nat \X Seq(Int), NEW q \in Nat \X Seq(Int)
      PROVE  PairLess(p, q) <=> <<p, q>> \in PairOrder
  <2>1. p[2] \in Seq(Int) /\ q[2] \in Seq(Int)
    OBVIOUS
  <2>2. LexLess(p[2], q[2], Below) <=> LexicographicLess(p[2], q[2], LAMBDA x, y : x < y)
    BY <2>1, ValuesForm
  <2> QED
    BY <2>2, PairBefore, Zenon
<1>3. ParameterLess(mu, nu) <=>
        \E i \in DOMAIN t :
          /\ i > Len(s) \/ PairLess(s[i], t[i])
          /\ \A j \in 1..i - 1 : j \in DOMAIN s /\ ~PairLess(s[j], t[j]) /\ ~PairLess(t[j], s[j])
  <2>1. ParameterLess(mu, nu) <=>
          \E i \in DOMAIN AsPairs(nu) :
            /\ i > Len(AsPairs(mu)) \/ PairLess(AsPairs(mu)[i], AsPairs(nu)[i])
            /\ \A j \in 1..i - 1 : /\ j \in DOMAIN AsPairs(mu)
                                  /\ ~PairLess(AsPairs(mu)[j], AsPairs(nu)[j])
                                  /\ ~PairLess(AsPairs(nu)[j], AsPairs(mu)[j])
    BY Zenon DEF ParameterLess, LexicographicLess
  <2> HIDE DEF PairLess
  <2> QED
    BY <1>1, <2>1
<1> HIDE DEF PairLess
<1>4. ASSUME NEW i \in DOMAIN t
      PROVE  (i > Len(s) \/ PairLess(s[i], t[i])) <=> (i > Len(s) \/ <<s[i], t[i]>> \in PairOrder)
  <2>1. i > Len(s) \/ i \in DOMAIN s
    OBVIOUS
  <2>2. i \in DOMAIN s => s[i] \in Nat \X Seq(Int)
    OBVIOUS
  <2>3. t[i] \in Nat \X Seq(Int)
    OBVIOUS
  <2> QED
    BY <1>2, <2>1, <2>2, <2>3, Zenon
<1>5. ASSUME NEW i \in DOMAIN t, NEW j \in 1..i - 1
      PROVE  (j \in DOMAIN s /\ ~PairLess(s[j], t[j]) /\ ~PairLess(t[j], s[j]))
               <=> (j \in DOMAIN s /\ <<s[j], t[j]>> \notin PairOrder /\ <<t[j], s[j]>> \notin PairOrder)
  <2>1. t[j] \in Nat \X Seq(Int)
    OBVIOUS
  <2>2. j \in DOMAIN s => s[j] \in Nat \X Seq(Int)
    OBVIOUS
  <2> QED
    BY <1>2, <2>1, <2>2, Zenon
<1> QED
  BY <1>1, <1>3, <1>4, <1>5, Zenon DEF LexLess

\* Parameters with any keys and values of any length are ordered strictly and totally, as
\* a std::map of parameters needs.
THEOREM ParametersAreOrdered ==
  ASSUME NEW mu, NEW nu, NEW xi, IsParameter(mu), IsParameter(nu), IsParameter(xi)
  PROVE  ParametersOrdered(mu, nu, xi)
<1> DEFINE Pairs == Seq(Nat \X Seq(Int))
<1>1. PICK s \in Pairs, t \in Pairs, u \in Pairs : s = AsPairs(mu) /\ t = AsPairs(nu) /\ u = AsPairs(xi)
  BY PairsOf
<1>2. /\ ParameterLess(mu, nu) <=> LexLess(s, t, PairOrder)
      /\ ParameterLess(nu, mu) <=> LexLess(t, s, PairOrder)
      /\ ParameterLess(nu, xi) <=> LexLess(t, u, PairOrder)
      /\ ParameterLess(mu, xi) <=> LexLess(s, u, PairOrder)
  BY <1>1, ParameterForm
<1>3. mu = nu <=> s = t
  BY <1>1, SamePairs
<1>4. s = t \/ LexLess(s, t, PairOrder) \/ LexLess(t, s, PairOrder)
  BY PairsStrict, LexTotal
<1>5. /\ LexLess(s, t, PairOrder) /\ LexLess(t, u, PairOrder) => LexLess(s, u, PairOrder)
      /\ LexLess(s, t, PairOrder) /\ LexLess(t, s, PairOrder) => LexLess(s, s, PairOrder)
  BY PairsStrict, LexTransitive
<1>6. ~LexLess(s, s, PairOrder) /\ (s = t => ~LexLess(s, t, PairOrder) /\ ~LexLess(t, s, PairOrder))
  <2>1. ~LexLess(s, s, PairOrder)
    BY PairsStrict, LexIrreflexive
  <2> QED
    BY <2>1
<1>7. PICK P \in BOOLEAN, Q \in BOOLEAN, R \in BOOLEAN :
        P = ParameterLess(mu, nu) /\ Q = (mu = nu) /\ R = ParameterLess(nu, mu)
  <2>1. ParameterLess(mu, nu) \in BOOLEAN /\ (mu = nu) \in BOOLEAN /\ ParameterLess(nu, mu) \in BOOLEAN
    BY Zenon DEF ParameterLess, LexicographicLess
  <2> QED
    BY <2>1
<1>8. (P \/ Q \/ R) /\ ~(P /\ Q) /\ ~(P /\ R) /\ ~(Q /\ R)
  BY <1>2, <1>3, <1>4, <1>5, <1>6, <1>7
<1>9. Cardinality({r \in {<<1, P>>, <<2, Q>>, <<3, R>>} : r[2]}) = 1
  BY <1>8, OneOfThree
<1>10. Cardinality({r \in {<<1, ParameterLess(mu, nu)>>, <<2, mu = nu>>, <<3, ParameterLess(nu, mu)>>} : r[2]}) = 1
  BY <1>7, <1>9, Zenon
<1>11. ParameterLess(mu, nu) /\ ParameterLess(nu, xi) => ParameterLess(mu, xi)
  BY <1>2, <1>5
<1> QED
  BY <1>10, <1>11, Zenon DEF ParametersOrdered

-----------------------------------------------------------------------------
(* matrix.hh, vector.hh, fvector.hh and fmatrix.hh *)

\* Vectors of n integers.
Ints(n) == [0 .. (n - 1) -> Int]

\* Their size is that number.
LEMMA SizeOfVector ==
  ASSUME NEW n \in Nat, NEW S, NEW v \in [0 .. (n - 1) -> S]
  PROVE  Size(v) = n
<1>1. DOMAIN v = 0 .. (n - 1)
  OBVIOUS
<1>2. Cardinality(0 .. (n - 1)) = IF 0 > n - 1 THEN 0 ELSE ((n - 1) - 0) + 1
  BY FS_Interval
<1> QED
  BY <1>1, <1>2 DEF Size

\* sum is what the recursive function of Total() is up to n.
Totals(sum, n, v) ==
  sum = [k \in 0 .. n |-> IF k = 0 THEN 0 ELSE sum[k - 1] + v[k - 1]]

\* There is such a function.
LEMMA Totalling ==
  ASSUME NEW n \in Nat, NEW v
  PROVE  \E sum : Totals(sum, n, v)
<1> DEFINE S == {m \in Nat : \E sum : Totals(sum, m, v)}
<1>1. 0 \in S
  <2>1. PICK f : f = [k \in 0 .. 0 |-> 0]
    OBVIOUS
  <2>2. Totals(f, 0, v)
    BY <2>1 DEF Totals
  <2> QED
    BY <2>2
<1>2. ASSUME NEW m \in Nat, m \in S PROVE m + 1 \in S
  <2>1. PICK f : Totals(f, m, v)
    BY <1>2
  <2>2. PICK g : g = [k \in 0 .. (m + 1) |-> IF k = m + 1 THEN f[m] + v[m] ELSE f[k]]
    OBVIOUS
  <2>3. \A k \in 0 .. m : g[k] = f[k]
    BY <2>2
  <2>4. ASSUME NEW k \in 0 .. (m + 1)
        PROVE  g[k] = IF k = 0 THEN 0 ELSE g[k - 1] + v[k - 1]
    <3>1. CASE k = m + 1
      <4>1. k # 0 /\ k - 1 = m /\ m \in 0 .. m
        BY <3>1
      <4> QED
        BY <2>2, <2>3, <3>1, <4>1
    <3>2. CASE k # m + 1
      <4>1. k \in 0 .. m /\ (k # 0 => k - 1 \in 0 .. m)
        BY <3>2
      <4>2. f[k] = IF k = 0 THEN 0 ELSE f[k - 1] + v[k - 1]
        BY <2>1, <4>1 DEF Totals
      <4> QED
        BY <2>3, <4>1, <4>2
    <3> QED
      BY <3>1, <3>2
  <2>5. Totals(g, m + 1, v)
    BY <2>2, <2>4 DEF Totals
  <2> QED
    BY <2>5
<1>3. n \in S
  BY <1>1, <1>2, CountingUp
<1> QED
  BY <1>3

\* sum has the partial sums of the vector v.
PartialSums(sum, n, v) ==
  /\ sum[0] = 0 /\ \A k \in 0 .. n : sum[k] \in Int
  /\ \A k \in 0 .. (n - 1) : sum[k + 1] = sum[k] + v[k]

\* The total is the last of them.
LEMMA TotalIsLast ==
  ASSUME NEW n \in Nat, NEW v \in Ints(n)
  PROVE  \E sum : PartialSums(sum, n, v) /\ Total(v) = sum[n]
<1>0. Size(v) = n /\ \A k \in 0 .. (n - 1) : v[k] \in Int
  BY SizeOfVector DEF Ints
<1>1. PICK sum : sum = CHOOSE s : s = [k \in 0 .. Size(v) |-> IF k = 0 THEN 0 ELSE s[k - 1] + v[k - 1]]
  OBVIOUS
<1>2. Total(v) = sum[n]
  BY <1>0, <1>1 DEF Total
<1>3. Totals(sum, n, v)
  BY <1>0, <1>1, Totalling DEF Totals
<1>4. sum[0] = 0
  BY <1>3 DEF Totals
<1>5. ASSUME NEW k \in 0 .. (n - 1) PROVE sum[k + 1] = sum[k] + v[k]
  <2>1. k + 1 \in 0 .. n /\ k + 1 # 0 /\ (k + 1) - 1 = k
    OBVIOUS
  <2> QED
    BY <1>3, <2>1 DEF Totals
<1>6. ASSUME NEW k \in 0 .. n PROVE sum[k] \in Int
  <2> DEFINE S == {j \in 0 .. n : sum[j] \in Int}
  <2>1. 0 \in S
    BY <1>4
  <2>2. \A j \in 0 .. (k - 1) : j \in S => j + 1 \in S
    BY <1>0, <1>5
  <2>3. k \in S
    <3> HIDE DEF S
    <3> QED
      BY <2>1, <2>2, CountingUp
  <2> QED
    BY <2>3
<1>7. PartialSums(sum, n, v)
  BY <1>4, <1>5, <1>6 DEF PartialSums
<1> QED
  BY <1>2, <1>7

\* It is an integer.
LEMMA TotalIsInt ==
  ASSUME NEW n \in Nat, NEW v \in Ints(n)
  PROVE  Total(v) \in Int
BY TotalIsLast DEF PartialSums

\* A multiple of a vector has that multiple of its total.
LEMMA TotalOfMultiple ==
  ASSUME NEW n \in Nat, NEW v \in Ints(n), NEW w \in Ints(n), NEW a \in Int,
         \A k \in 0 .. (n - 1) : w[k] = a * v[k]
  PROVE  Total(w) = a * Total(v)
<1>1. PICK s : PartialSums(s, n, v) /\ Total(v) = s[n]
  BY TotalIsLast
<1>2. PICK t : PartialSums(t, n, w) /\ Total(w) = t[n]
  BY TotalIsLast
<1> DEFINE S == {k \in 0 .. n : t[k] = a * s[k]}
<1>3. 0 \in S
  BY <1>1, <1>2 DEF PartialSums
<1>4. ASSUME NEW k \in 0 .. (n - 1), k \in S PROVE k + 1 \in S
  <2>1. /\ t[k + 1] = t[k] + w[k] /\ s[k + 1] = s[k] + v[k] /\ t[k] = a * s[k] /\ w[k] = a * v[k]
        /\ s[k] \in Int /\ v[k] \in Int /\ k + 1 \in 0 .. n
    BY <1>1, <1>2, <1>4 DEF PartialSums, Ints
  <2>2. PICK x \in Int, y \in Int : x = s[k] /\ y = v[k]
    BY <2>1
  <2>3. a * (x + y) = a * x + a * y
    OBVIOUS
  <2> QED
    BY <2>1, <2>2, <2>3
<1>5. n \in S
  <2> HIDE DEF S
  <2> QED
    BY <1>3, <1>4, CountingUp
<1> QED
  BY <1>1, <1>2, <1>5

\* The sum of two vectors has the sum of their totals.
LEMMA TotalOfSum ==
  ASSUME NEW n \in Nat, NEW u \in Ints(n), NEW v \in Ints(n), NEW w \in Ints(n),
         \A k \in 0 .. (n - 1) : w[k] = u[k] + v[k]
  PROVE  Total(w) = Total(u) + Total(v)
<1>1. PICK r : PartialSums(r, n, u) /\ Total(u) = r[n]
  BY TotalIsLast
<1>2. PICK s : PartialSums(s, n, v) /\ Total(v) = s[n]
  BY TotalIsLast
<1>3. PICK t : PartialSums(t, n, w) /\ Total(w) = t[n]
  BY TotalIsLast
<1> DEFINE S == {k \in 0 .. n : t[k] = r[k] + s[k]}
<1>4. 0 \in S
  BY <1>1, <1>2, <1>3 DEF PartialSums
<1>5. ASSUME NEW k \in 0 .. (n - 1), k \in S PROVE k + 1 \in S
  <2>1. /\ t[k + 1] = t[k] + w[k] /\ s[k + 1] = s[k] + v[k] /\ r[k + 1] = r[k] + u[k]
        /\ t[k] = r[k] + s[k] /\ w[k] = u[k] + v[k]
        /\ r[k] \in Int /\ s[k] \in Int /\ u[k] \in Int /\ v[k] \in Int /\ k + 1 \in 0 .. n
    BY <1>1, <1>2, <1>3, <1>5 DEF PartialSums, Ints
  <2> QED
    BY <2>1
<1>6. n \in S
  <2> HIDE DEF S
  <2> QED
    BY <1>4, <1>5, CountingUp
<1> QED
  BY <1>1, <1>2, <1>3, <1>6

\* Two vectors beside each other have the sum of their totals.
LEMMA TotalOfJoined ==
  ASSUME NEW n \in Nat, NEW m \in Nat, NEW u \in Ints(n), NEW v \in Ints(m), NEW w \in Ints(n + m),
         \A k \in 0 .. (n - 1) : w[k] = u[k], \A k \in 0 .. (m - 1) : w[n + k] = v[k]
  PROVE  Total(w) = Total(u) + Total(v)
<1>1. PICK r : PartialSums(r, n, u) /\ Total(u) = r[n]
  BY TotalIsLast
<1>2. PICK s : PartialSums(s, m, v) /\ Total(v) = s[m]
  BY TotalIsLast
<1>3. PICK t : PartialSums(t, n + m, w) /\ Total(w) = t[n + m]
  BY TotalIsLast
<1> DEFINE S == {k \in 0 .. n : t[k] = r[k]}
           T == {k \in 0 .. m : t[n + k] = r[n] + s[k]}
<1>4. 0 \in S
  BY <1>1, <1>3 DEF PartialSums
<1>5. ASSUME NEW k \in 0 .. (n - 1), k \in S PROVE k + 1 \in S
  <2>1. k \in 0 .. ((n + m) - 1) /\ k + 1 \in 0 .. n
    OBVIOUS
  <2> QED
    BY <1>1, <1>3, <1>5, <2>1 DEF PartialSums
<1>6. n \in S
  <2> HIDE DEF S
  <2> QED
    BY <1>4, <1>5, CountingUp
<1>7. 0 \in T
  BY <1>1, <1>2, <1>6 DEF PartialSums
<1>8. ASSUME NEW k \in 0 .. (m - 1), k \in T PROVE k + 1 \in T
  <2>1. n + k \in 0 .. ((n + m) - 1) /\ k + 1 \in 0 .. m /\ (n + k) + 1 = n + (k + 1)
    OBVIOUS
  <2>2. t[n + (k + 1)] = t[n + k] + w[n + k]
    BY <1>3, <2>1 DEF PartialSums
  <2>3. s[k + 1] = s[k] + v[k] /\ w[n + k] = v[k] /\ t[n + k] = r[n] + s[k]
    BY <1>2, <1>8 DEF PartialSums
  <2>4. r[n] \in Int /\ s[k] \in Int /\ v[k] \in Int
    BY <1>1, <1>2 DEF PartialSums, Ints
  <2> QED
    BY <2>1, <2>2, <2>3, <2>4
<1>9. m \in T
  <2> HIDE DEF T
  <2> QED
    BY <1>7, <1>8, CountingUp
<1> QED
  BY <1>1, <1>2, <1>3, <1>9

\* The squares of numbers that are not negative are together at most the square of their
\* total.
LEMMA TotalOfSquares ==
  ASSUME NEW n \in Nat, NEW v \in Ints(n), NEW w \in Ints(n),
         \A k \in 0 .. (n - 1) : v[k] >= 0 /\ w[k] = v[k] * v[k]
  PROVE  Total(v) >= 0 /\ Total(w) <= Total(v) * Total(v)
<1>1. PICK s : PartialSums(s, n, v) /\ Total(v) = s[n]
  BY TotalIsLast
<1>2. PICK t : PartialSums(t, n, w) /\ Total(w) = t[n]
  BY TotalIsLast
<1> DEFINE S == {k \in 0 .. n : s[k] >= 0 /\ t[k] <= s[k] * s[k]}
<1>3. 0 \in S
  BY <1>1, <1>2 DEF PartialSums
<1>4. ASSUME NEW k \in 0 .. (n - 1), k \in S PROVE k + 1 \in S
  <2>1. PICK x \in Nat, y \in Nat : x = s[k] /\ y = v[k]
    BY <1>1, <1>4 DEF PartialSums, Ints
  <2>2. /\ t[k + 1] = t[k] + y * y /\ s[k + 1] = x + y /\ t[k] <= x * x
        /\ t[k] \in Int /\ k + 1 \in 0 .. n
    BY <1>1, <1>2, <1>4, <2>1 DEF PartialSums
  <2>3. PICK xy \in Nat, xx \in Int, yy \in Int : xy = x * y /\ xx = x * x /\ yy = y * y
    BY ProductIsNat
  <2>4. (x + y) * (x + y) = xx + 2 * xy + yy
    BY <2>3
  <2> QED
    BY <2>1, <2>2, <2>3, <2>4
<1>5. n \in S
  <2> HIDE DEF S
  <2> QED
    BY <1>3, <1>4, CountingUp
<1> QED
  BY <1>1, <1>2, <1>5

\* Vectors of up to three entries.
LEMMA TotalOfFew ==
  /\ \A v \in Ints(1) : Total(v) = v[0]
  /\ \A v \in Ints(2) : Total(v) = v[0] + v[1]
  /\ \A v \in Ints(3) : Total(v) = v[0] + v[1] + v[2]
<1>1. ASSUME NEW v \in Ints(1) PROVE Total(v) = v[0]
  <2>1. PICK s : PartialSums(s, 1, v) /\ Total(v) = s[1]
    BY TotalIsLast
  <2>2. s[0 + 1] = s[0] + v[0] /\ v[0] \in Int
    BY <2>1 DEF PartialSums, Ints
  <2> QED
    BY <2>1, <2>2 DEF PartialSums
<1>2. ASSUME NEW v \in Ints(2) PROVE Total(v) = v[0] + v[1]
  <2>1. PICK s : PartialSums(s, 2, v) /\ Total(v) = s[2]
    BY TotalIsLast
  <2>2. s[0 + 1] = s[0] + v[0] /\ s[1 + 1] = s[1] + v[1] /\ v[0] \in Int /\ v[1] \in Int
    BY <2>1 DEF PartialSums, Ints
  <2> QED
    BY <2>1, <2>2 DEF PartialSums
<1>3. ASSUME NEW v \in Ints(3) PROVE Total(v) = v[0] + v[1] + v[2]
  <2>1. PICK s : PartialSums(s, 3, v) /\ Total(v) = s[3]
    BY TotalIsLast
  <2>2. s[0 + 1] = s[0] + v[0] /\ s[1 + 1] = s[1] + v[1] /\ s[2 + 1] = s[2] + v[2]
    BY <2>1 DEF PartialSums
  <2>3. v[0] \in Int /\ v[1] \in Int /\ v[2] \in Int
    BY DEF Ints
  <2> QED
    BY <2>1, <2>2, <2>3 DEF PartialSums
<1> QED
  BY <1>1, <1>2, <1>3

-----------------------------------------------------------------------------
\* Matrices with entries from S.
IsMatrix(mat, S) ==
  /\ mat = [rows |-> mat.rows, cols |-> mat.cols, at |-> mat.at]
  /\ mat.rows \in Nat /\ mat.cols \in Nat /\ mat.at \in [Entries(mat.rows, mat.cols) -> S]

\* Division with remainder.
LEMMA QuotientAndRest ==
  ASSUME NEW a \in Int, NEW b \in Int, b > 0
  PROVE  a = b * (a \div b) + (a % b) /\ a \div b \in Int /\ a % b \in 0 .. (b - 1)
OBVIOUS

\* What is a multiple is divided exactly.
LEMMA QuotientOfMultiple ==
  ASSUME NEW a \in Int, NEW b \in Int, b > 0
  PROVE  (a * b) \div b = a
<1>1. PICK p \in Int : p = a * b
  OBVIOUS
<1>2. PICK q \in Int, rest \in 0 .. (b - 1) : q = p \div b /\ p = b * q + rest
  BY QuotientAndRest
<1>3. b * (a - q) = rest
  <2>1. b * (a - q) = b * a - b * q
    OBVIOUS
  <2>2. b * a = p
    BY <1>1
  <2> QED
    BY <1>2, <2>1, <2>2
<1>4. a - q = 0
  <2>1. PICK d \in Int : d = a - q
    OBVIOUS
  <2>2. CASE d >= 1
    <3>1. b * d >= b
      BY <2>2
    <3> QED
      BY <1>3, <2>1, <3>1
  <2>3. CASE d <= -1
    <3>1. b * d < 0
      BY <2>3
    <3> QED
      BY <1>3, <2>1, <3>1
  <2> QED
    BY <2>1, <2>2, <2>3
<1> QED
  BY <1>1, <1>2, <1>4

\* The place in a matrix of an index that runs through its rows.
LEMMA PlaceOfIndex ==
  ASSUME NEW rows \in Nat, NEW cols \in Nat, NEW i \in 0 .. (rows * cols - 1)
  PROVE  cols > 0 /\ i \div cols \in 0 .. (rows - 1) /\ i % cols \in 0 .. (cols - 1)
<1>1. PICK size \in Nat : size = rows * cols
  BY ProductIsNat
<1>2. cols > 0
  <2>1. cols = 0 => rows * cols = 0
    OBVIOUS
  <2> QED
    BY <1>1, <2>1
<1>3. PICK q \in Int, rest \in 0 .. (cols - 1) : q = i \div cols /\ rest = i % cols /\ i = cols * q + rest
  BY <1>2, QuotientAndRest
<1>4. q >= 0
  <2>1. q <= -1 => cols * q <= -cols
    BY <1>2
  <2> QED
    BY <1>1, <1>3, <2>1
<1>5. q < rows
  <2>1. q >= rows => cols * q >= rows * cols
    BY <1>2, <1>4
  <2> QED
    BY <1>1, <1>3, <2>1
<1> QED
  BY <1>2, <1>3, <1>4, <1>5

\* The columnwise serialization of the transposed matrix is the rowwise one, and what does
\* not fit is thrown by the latter: for matrices of any size.
THEOREM SerializationsAlwaysAgree ==
  ASSUME NEW range \in Nat, NEW mat, IsMatrix(mat, Int)
  PROVE  SerializationsAgree(range, mat)
<1> DEFINE rowwise == SerializeRowwise(range, mat)
           colwise == SerializeColwise(range, Transposed(mat))
           unfit == \E e \in DOMAIN mat.at : ~Fits(range, mat.at[e])
<1>1. \A e \in DOMAIN mat.at : NumericCast(range, mat.at[e]).thrown = ~Fits(range, mat.at[e])
  BY DEF NumericCast, Done, Thrown, Fits
<1>2. CASE unfit
  <2>1. rowwise = Thrown
    BY <1>1, <1>2 DEF SerializeRowwise
  <2>2. rowwise.thrown = TRUE
    BY <2>1 DEF Thrown
  <2> QED
    BY <1>2, <2>2 DEF SerializationsAgree
<1>3. CASE ~unfit
  <2> DEFINE f == [i \in 0..mat.rows * mat.cols - 1 |-> mat.at[i \div mat.cols, i % mat.cols]]
             g == [i \in 0..mat.cols * mat.rows - 1 |->
                     Wrapped(range, Transposed(mat).at[i % mat.cols, i \div mat.cols])]
  <2>1. rowwise = Done(f)
    BY <1>1, <1>3 DEF SerializeRowwise
  <2>2. colwise = Done(g)
    <3>1. Transposed(mat).rows = mat.cols /\ Transposed(mat).cols = mat.rows
      BY DEF Transposed
    <3> QED
      BY <3>1, Zenon DEF SerializeColwise
  <2>3. ASSUME NEW i \in 0..mat.rows * mat.cols - 1
        PROVE  Wrapped(range, Transposed(mat).at[i % mat.cols, i \div mat.cols])
                 = mat.at[i \div mat.cols, i % mat.cols]
    <3>1. PICK r \in 0 .. (mat.rows - 1), c \in 0 .. (mat.cols - 1) : r = i \div mat.cols /\ c = i % mat.cols
      BY PlaceOfIndex DEF IsMatrix
    <3>2. <<r, c>> \in DOMAIN mat.at /\ mat.at[<<r, c>>] \in Int /\ <<c, r>> \in Entries(mat.cols, mat.rows)
      BY DEF IsMatrix, Entries
    <3>3. Transposed(mat).at[<<c, r>>] = mat.at[<<r, c>>]
      BY <3>2 DEF Transposed
    <3>4. PICK x \in Int : x = mat.at[<<r, c>>] /\ (range = 0 \/ x \in 0 .. (range - 1))
      BY <1>3, <3>2 DEF Fits
    <3>5. Wrapped(range, x) = x
      BY <3>4 DEF Wrapped
    <3> QED
      BY <3>1, <3>3, <3>4, <3>5
  <2>4. f = g
    <3>1. mat.rows * mat.cols = mat.cols * mat.rows
      BY DEF IsMatrix
    <3> QED
      BY <2>3, <3>1
  <2> HIDE DEF f, g
  <2>5. rowwise.thrown = FALSE /\ unfit = FALSE
    <3> HIDE DEF rowwise
    <3> QED
      BY <1>3, <2>1 DEF Done
  <2> QED
    BY <2>1, <2>2, <2>4, <2>5 DEF SerializationsAgree
<1> QED
  BY <1>2, <1>3

\* A row of a matrix times a column of another, as a vector.
Terms(a, b, i, j) == [k \in 0 .. (a.cols - 1) |-> a.at[<<i, k>>] * b.at[<<k, j>>]]

\* It is a vector of integers.
LEMMA TermsAreInts ==
  ASSUME NEW a, NEW b, IsMatrix(a, Int), IsMatrix(b, Int), a.cols = b.rows,
         NEW i \in 0 .. (a.rows - 1), NEW j \in 0 .. (b.cols - 1)
  PROVE  Terms(a, b, i, j) \in Ints(a.cols)
<1>1. \A k \in 0 .. (a.cols - 1) : a.at[<<i, k>>] \in Int /\ b.at[<<k, j>>] \in Int
  BY DEF IsMatrix, Entries
<1> QED
  BY <1>1 DEF Terms, Ints

\* The product is a matrix of their totals.
LEMMA ProductIsMatrix ==
  ASSUME NEW a, NEW b, IsMatrix(a, Int), IsMatrix(b, Int), a.cols = b.rows
  PROVE  /\ IsMatrix(Product(a, b), Int)
         /\ Product(a, b).rows = a.rows /\ Product(a, b).cols = b.cols
         /\ \A i \in 0 .. (a.rows - 1), j \in 0 .. (b.cols - 1) :
              Product(a, b).at[<<i, j>>] = Total(Terms(a, b, i, j))
<1> DEFINE p == [e \in Entries(a.rows, b.cols) |-> Total(Terms(a, b, e[1], e[2]))]
<1>1. Product(a, b) = [rows |-> a.rows, cols |-> b.cols, at |-> p]
  BY DEF Product, Terms
<1>2. ASSUME NEW i \in 0 .. (a.rows - 1), NEW j \in 0 .. (b.cols - 1)
      PROVE  p[<<i, j>>] = Total(Terms(a, b, i, j)) /\ Total(Terms(a, b, i, j)) \in Int
  <2>1. <<i, j>> \in Entries(a.rows, b.cols)
    BY DEF Entries
  <2>2. Terms(a, b, i, j) \in Ints(a.cols)
    BY TermsAreInts
  <2>3. a.cols \in Nat
    BY DEF IsMatrix
  <2> QED
    BY <2>1, <2>2, <2>3, TotalIsInt
<1>3. p \in [Entries(a.rows, b.cols) -> Int]
  <2>1. \A e \in Entries(a.rows, b.cols) : Total(Terms(a, b, e[1], e[2])) \in Int
    BY <1>2 DEF Entries
  <2> QED
    BY <2>1
<1> HIDE DEF p
<1>4. a.rows \in Nat /\ b.cols \in Nat
  BY DEF IsMatrix
<1>5. IsMatrix(Product(a, b), Int)
  BY <1>1, <1>3, <1>4 DEF IsMatrix
<1> QED
  BY <1>1, <1>2, <1>5

\* The transposed matrix.
LEMMA TransposedIsMatrix ==
  ASSUME NEW mat, IsMatrix(mat, Int)
  PROVE  /\ IsMatrix(Transposed(mat), Int)
         /\ Transposed(mat).rows = mat.cols /\ Transposed(mat).cols = mat.rows
         /\ \A i \in 0 .. (mat.cols - 1), j \in 0 .. (mat.rows - 1) :
              Transposed(mat).at[<<i, j>>] = mat.at[<<j, i>>]
<1> DEFINE t == [e \in Entries(mat.cols, mat.rows) |-> mat.at[<<e[2], e[1]>>]]
<1>1. Transposed(mat) = [rows |-> mat.cols, cols |-> mat.rows, at |-> t]
  BY DEF Transposed
<1>2. \A e \in Entries(mat.cols, mat.rows) : mat.at[<<e[2], e[1]>>] \in Int
  BY DEF Entries, IsMatrix
<1>3. t \in [Entries(mat.cols, mat.rows) -> Int]
  BY <1>2
<1>4. \A i \in 0 .. (mat.cols - 1), j \in 0 .. (mat.rows - 1) : t[<<i, j>>] = mat.at[<<j, i>>]
  BY DEF Entries
<1>5. mat.rows \in Nat /\ mat.cols \in Nat
  BY DEF IsMatrix
<1> HIDE DEF t
<1> QED
  BY <1>1, <1>3, <1>4, <1>5 DEF IsMatrix

\* Matrices of the same size with the same entries are the same.
LEMMA SameMatrix ==
  ASSUME NEW S, NEW T, NEW a, NEW b, IsMatrix(a, S), IsMatrix(b, T), a.rows = b.rows, a.cols = b.cols,
         \A i \in 0 .. (a.rows - 1), j \in 0 .. (a.cols - 1) : a.at[<<i, j>>] = b.at[<<i, j>>]
  PROVE  a = b
<1>1. a.at \in [Entries(a.rows, a.cols) -> S] /\ b.at \in [Entries(a.rows, a.cols) -> T]
  BY DEF IsMatrix
<1>2. \A e \in Entries(a.rows, a.cols) : a.at[e] = b.at[e]
  BY DEF Entries
<1>3. a.at = b.at
  BY <1>1, <1>2
<1>4. a = [rows |-> a.rows, cols |-> a.cols, at |-> a.at] /\ b = [rows |-> b.rows, cols |-> b.cols, at |-> b.at]
  BY Zenon DEF IsMatrix
<1> QED
  BY <1>3, <1>4, Zenon

\* Transposing reverses products of matrices of any sizes that fit.
THEOREM TransposingReverses ==
  ASSUME NEW a, NEW b, IsMatrix(a, Int), IsMatrix(b, Int)
  PROVE  TransposeReverses(a, b)
<1> SUFFICES ASSUME a.cols = b.rows
             PROVE  Transposed(Product(a, b)) = Product(Transposed(b), Transposed(a))
  BY DEF TransposeReverses, RightMultiply
<1>1. PICK p, s, t : p = Product(a, b) /\ s = Transposed(a) /\ t = Transposed(b)
  OBVIOUS
<1>2. /\ IsMatrix(p, Int) /\ p.rows = a.rows /\ p.cols = b.cols
      /\ \A i \in 0 .. (a.rows - 1), j \in 0 .. (b.cols - 1) : p.at[<<i, j>>] = Total(Terms(a, b, i, j))
  BY <1>1, ProductIsMatrix
<1>3. /\ IsMatrix(s, Int) /\ s.rows = a.cols /\ s.cols = a.rows
      /\ \A i \in 0 .. (a.cols - 1), j \in 0 .. (a.rows - 1) : s.at[<<i, j>>] = a.at[<<j, i>>]
  BY <1>1, TransposedIsMatrix
<1>4. /\ IsMatrix(t, Int) /\ t.rows = b.cols /\ t.cols = b.rows
      /\ \A i \in 0 .. (b.cols - 1), j \in 0 .. (b.rows - 1) : t.at[<<i, j>>] = b.at[<<j, i>>]
  BY <1>1, TransposedIsMatrix
<1>5. PICK q, r : q = Transposed(p) /\ r = Product(t, s)
  OBVIOUS
<1>6. /\ IsMatrix(q, Int) /\ q.rows = b.cols /\ q.cols = a.rows
      /\ \A i \in 0 .. (b.cols - 1), j \in 0 .. (a.rows - 1) : q.at[<<i, j>>] = p.at[<<j, i>>]
  <2>1. /\ IsMatrix(q, Int) /\ q.rows = p.cols /\ q.cols = p.rows
        /\ \A i \in 0 .. (p.cols - 1), j \in 0 .. (p.rows - 1) : q.at[<<i, j>>] = p.at[<<j, i>>]
    <3>1. IsMatrix(p, Int)
      BY <1>2
    <3> QED
      BY <1>5, <3>1, TransposedIsMatrix
  <2>2. p.rows = a.rows /\ p.cols = b.cols
    BY <1>2
  <2> QED
    BY <2>1, <2>2, Zenon
<1>7. /\ IsMatrix(r, Int) /\ r.rows = b.cols /\ r.cols = a.rows
      /\ \A i \in 0 .. (b.cols - 1), j \in 0 .. (a.rows - 1) : r.at[<<i, j>>] = Total(Terms(t, s, i, j))
  BY <1>3, <1>4, <1>5, ProductIsMatrix
<1>8. ASSUME NEW i \in 0 .. (b.cols - 1), NEW j \in 0 .. (a.rows - 1)
      PROVE  Terms(t, s, i, j) = Terms(a, b, j, i)
  <2>1. ASSUME NEW k \in 0 .. (a.cols - 1)
        PROVE  t.at[<<i, k>>] * s.at[<<k, j>>] = a.at[<<j, k>>] * b.at[<<k, i>>]
    <3>1. t.at[<<i, k>>] = b.at[<<k, i>>] /\ s.at[<<k, j>>] = a.at[<<j, k>>]
      BY <1>3, <1>4
    <3>2. a.at[<<j, k>>] \in Int /\ b.at[<<k, i>>] \in Int
      BY DEF IsMatrix, Entries
    <3> QED
      BY <3>1, <3>2
  <2>2. t.cols = a.cols
    BY <1>4
  <2> QED
    BY <2>1, <2>2 DEF Terms
<1>9. q = r
  <2>1. \A i \in 0 .. (b.cols - 1), j \in 0 .. (a.rows - 1) : q.at[<<i, j>>] = r.at[<<i, j>>]
    BY <1>2, <1>6, <1>7, <1>8, Zenon
  <2>2. q.rows = b.cols /\ q.cols = a.rows /\ r.rows = b.cols /\ r.cols = a.rows
    BY <1>6, <1>7
  <2>3. \A i \in 0 .. (q.rows - 1), j \in 0 .. (q.cols - 1) : q.at[<<i, j>>] = r.at[<<i, j>>]
    BY <2>1, <2>2, Zenon
  <2> QED
    BY <1>6, <1>7, <2>2, <2>3, SameMatrix
<1> QED
  BY <1>1, <1>5, <1>9

\* A vector as a matrix of one column, and of one row.
LEMMA ColumnIsMatrix ==
  ASSUME NEW n \in Nat, NEW x \in Ints(n)
  PROVE  /\ IsMatrix(AsColumn(x), Int) /\ AsColumn(x).rows = n /\ AsColumn(x).cols = 1
         /\ \A i \in 0 .. (n - 1) : AsColumn(x).at[<<i, 0>>] = x[i]
         /\ IsMatrix(AsRow(x), Int) /\ AsRow(x).rows = 1 /\ AsRow(x).cols = n
         /\ \A i \in 0 .. (n - 1) : AsRow(x).at[<<0, i>>] = x[i]
<1> DEFINE c == [e \in Entries(n, 1) |-> x[e[1]]]
           r == [e \in Entries(1, n) |-> x[e[2]]]
<1>1. Size(x) = n
  BY SizeOfVector DEF Ints
<1>2. AsColumn(x) = [rows |-> n, cols |-> 1, at |-> c] /\ AsRow(x) = [rows |-> 1, cols |-> n, at |-> r]
  BY <1>1 DEF AsColumn, AsRow
<1>3. c \in [Entries(n, 1) -> Int] /\ r \in [Entries(1, n) -> Int]
  BY DEF Entries, Ints
<1>4. \A i \in 0 .. (n - 1) : c[<<i, 0>>] = x[i] /\ r[<<0, i>>] = x[i]
  BY DEF Entries
<1> HIDE DEF c, r
<1>5. IsMatrix(AsColumn(x), Int) /\ AsColumn(x).rows = n /\ AsColumn(x).cols = 1 /\ AsColumn(x).at = c
  BY <1>2, <1>3 DEF IsMatrix
<1>6. IsMatrix(AsRow(x), Int) /\ AsRow(x).rows = 1 /\ AsRow(x).cols = n /\ AsRow(x).at = r
  BY <1>2, <1>3 DEF IsMatrix
<1> QED
  BY <1>4, <1>5, <1>6

\* mv() with a square matrix is the product, and vectors of another size are thrown: for
\* any sizes.
THEOREM SquareMvAlwaysMultiplies ==
  ASSUME NEW mat, IsMatrix(mat, Int), NEW n \in Nat, NEW x \in Ints(n), NEW m \in Nat, NEW b \in Ints(m)
  PROVE  SquareMvMultiplies(mat, x, b)
<1> SUFFICES ASSUME mat.rows = mat.cols
             PROVE  LET result == Mv(mat, x, b)
                    IN  /\ result.thrown = (Size(x) # mat.cols \/ Size(b) # mat.rows)
                        /\ ~result.thrown => AsColumn(result.value) = Product(mat, AsColumn(x))
  BY DEF SquareMvMultiplies
<1>1. PICK rows \in Nat : rows = mat.rows /\ rows = mat.cols
  BY DEF IsMatrix
<1> DEFINE value == [i \in 0 .. (rows - 1) |-> Total([j \in 0 .. (rows - 1) |-> mat.at[<<i, j>>] * x[j]])]
<1>2. Size(x) = n
  BY SizeOfVector DEF Ints
<1>3. CASE Size(x) # rows \/ Size(b) # rows
  <2>1. Mv(mat, x, b) = Thrown
    BY <1>1, <1>3 DEF Mv
  <2>2. Thrown.thrown = TRUE
    BY DEF Thrown
  <2> QED
    BY <1>1, <1>3, <2>1, <2>2
<1>4. CASE Size(x) = rows /\ Size(b) = rows
  <2>1. Mv(mat, x, b) = Done(value)
    <3>1. ~(rows > rows)
      OBVIOUS
    <3> QED
      BY <1>1, <1>4, <3>1, Zenon DEF Mv
  <2> DEFINE c == AsColumn(x)
             p == Product(mat, c)
             v == AsColumn(value)
  <2>2. /\ IsMatrix(c, Int) /\ c.rows = rows /\ c.cols = 1
        /\ \A i \in 0 .. (rows - 1) : c.at[<<i, 0>>] = x[i]
    BY <1>2, <1>4, ColumnIsMatrix
  <2>3. /\ IsMatrix(p, Int) /\ p.rows = rows /\ p.cols = 1
        /\ \A i \in 0 .. (rows - 1), j \in 0 .. (1 - 1) : p.at[<<i, j>>] = Total(Terms(mat, c, i, j))
    <3> HIDE DEF c
    <3>1. /\ IsMatrix(p, Int) /\ p.rows = mat.rows /\ p.cols = c.cols
          /\ \A i \in 0 .. (mat.rows - 1), j \in 0 .. (c.cols - 1) : p.at[<<i, j>>] = Total(Terms(mat, c, i, j))
      BY <1>1, <2>2, ProductIsMatrix
    <3> HIDE DEF p
    <3> QED
      BY <1>1, <2>2, <3>1
  <2>4. ASSUME NEW i \in 0 .. (rows - 1) PROVE value[i] = Total(Terms(mat, c, i, 0))
    <3>1. \A j \in 0 .. (rows - 1) : c.at[<<j, 0>>] = x[j]
      BY <2>2
    <3> HIDE DEF c
    <3>2. [j \in 0 .. (rows - 1) |-> mat.at[<<i, j>>] * x[j]] = Terms(mat, c, i, 0)
      BY <1>1, <3>1 DEF Terms
    <3> QED
      BY <3>2
  <2>5. value \in Ints(rows)
    <3> HIDE DEF c
    <3>1. ASSUME NEW i \in 0 .. (rows - 1) PROVE value[i] \in Int
      <4>1. Terms(mat, c, i, 0) \in Ints(mat.cols)
        BY <1>1, <2>2, TermsAreInts
      <4>2. Total(Terms(mat, c, i, 0)) \in Int
        BY <1>1, <4>1, TotalIsInt
      <4> HIDE DEF value
      <4> QED
        BY <2>4, <4>2
    <3> QED
      BY <3>1 DEF Ints
  <2>6. /\ IsMatrix(v, Int) /\ v.rows = rows /\ v.cols = 1
        /\ \A i \in 0 .. (rows - 1) : v.at[<<i, 0>>] = value[i]
    <3> HIDE DEF value
    <3> QED
      BY <2>5, ColumnIsMatrix
  <2> HIDE DEF value, c, p, v
  <2>7. v = p
    <3>1. ASSUME NEW i \in 0 .. (v.rows - 1), NEW j \in 0 .. (v.cols - 1) PROVE v.at[<<i, j>>] = p.at[<<i, j>>]
      <4>1. i \in 0 .. (rows - 1) /\ j = 0 /\ 0 \in 0 .. (1 - 1)
        BY <2>6
      <4>2. v.at[<<i, 0>>] = value[i] /\ p.at[<<i, 0>>] = Total(Terms(mat, c, i, 0))
        BY <2>3, <2>6, <4>1
      <4> QED
        BY <2>4, <4>1, <4>2
    <3> QED
      BY <2>3, <2>6, <3>1, SameMatrix
  <2>8. Done(value).thrown = FALSE /\ Done(value).value = value
    BY DEF Done
  <2> QED
    BY <1>1, <1>4, <2>1, <2>7, <2>8 DEF c, p, v
<1> QED
  BY <1>3, <1>4

\* The greatest of numbers.
LEMMA GreatestIsMax ==
  ASSUME NEW S \in SUBSET Int, NEW m \in S, \A k \in S : k <= m
  PROVE  Max(S) = m
<1>1. \A k \in S : m >= k
  OBVIOUS
<1>2. Max(S) \in S /\ \A k \in S : Max(S) >= k
  BY <1>1 DEF Max
<1>3. Max(S) >= m /\ m >= Max(S)
  BY <1>1, <1>2
<1>4. Max(S) \in Int /\ m \in Int
  BY <1>2
<1> HIDE DEF Max
<1> QED
  BY <1>3, <1>4

\* m is the greatest absolute value of the first n entries of v.
IsSup(m, n, v) ==
  /\ m \in Nat
  /\ \A i \in 0 .. (n - 1) : v[i] <= m /\ -v[i] <= m
  /\ m = 0 \/ \E i \in 0 .. (n - 1) : m = v[i] \/ m = -v[i]

\* SupNorm() finds it.
LEMMA SupNormIsSup ==
  ASSUME NEW n \in Nat, NEW v \in Ints(n)
  PROVE  IsSup(SupNorm(v), n, v) /\ \A m : IsSup(m, n, v) => SupNorm(v) = m
<1> DEFINE Values == {0} \cup {IF v[i] < 0 THEN -v[i] ELSE v[i] : i \in DOMAIN v}
           S == {k \in 0 .. n : \E m \in Nat : IsSup(m, k, v)}
<1>0. \A i \in 0 .. (n - 1) : v[i] \in Int
  BY DEF Ints
<1>1. ASSUME NEW m, IsSup(m, n, v) PROVE SupNorm(v) = m
  <2>1. Values \in SUBSET Int
    BY DEF Ints
  <2>2. m \in Values
    <3>1. CASE m = 0
      BY <3>1
    <3>2. CASE m # 0
      <4>1. PICK i \in 0 .. (n - 1) : m = v[i] \/ m = -v[i]
        BY <1>1, <3>2 DEF IsSup
      <4>2. v[i] \in Int /\ m \in Nat /\ i \in DOMAIN v
        BY <1>1, <4>1 DEF IsSup, Ints
      <4>3. m = IF v[i] < 0 THEN -v[i] ELSE v[i]
        BY <3>2, <4>1, <4>2
      <4> QED
        BY <4>2, <4>3
    <3> QED
      BY <3>1, <3>2
  <2>3. \A k \in Values : k <= m
    <3>1. m \in Nat /\ \A i \in 0 .. (n - 1) : v[i] <= m /\ -v[i] <= m
      BY <1>1 DEF IsSup
    <3>2. DOMAIN v = 0 .. (n - 1)
      BY DEF Ints
    <3> QED
      BY <1>0, <3>1, <3>2
  <2>4. SupNorm(v) = Max(Values)
    BY DEF SupNorm
  <2> HIDE DEF Values
  <2> QED
    BY <2>1, <2>2, <2>3, <2>4, GreatestIsMax
<1>2. 0 \in S
  BY DEF IsSup
<1>3. ASSUME NEW k \in 0 .. (n - 1), k \in S PROVE k + 1 \in S
  <2>1. PICK m \in Nat : IsSup(m, k, v)
    BY <1>3
  <2>2. PICK x \in Int : x = v[k]
    BY <1>0
  <2>3. PICK new \in Nat : new = IF x > m THEN x ELSE IF -x > m THEN -x ELSE m
    OBVIOUS
  <2>4. ASSUME NEW i \in 0 .. ((k + 1) - 1) PROVE v[i] <= new /\ -v[i] <= new
    <3>1. CASE i = k
      BY <2>2, <2>3, <3>1
    <3>2. CASE i # k
      <4>1. i \in 0 .. (k - 1) /\ i \in 0 .. (n - 1)
        BY <3>2
      <4>2. v[i] \in Int /\ v[i] <= m /\ -v[i] <= m
        BY <1>0, <2>1, <4>1 DEF IsSup
      <4> QED
        BY <2>3, <4>2
    <3> QED
      BY <3>1, <3>2
  <2>5. new = 0 \/ \E i \in 0 .. ((k + 1) - 1) : new = v[i] \/ new = -v[i]
    <3>1. CASE new = m
      <4>1. 0 .. (k - 1) \subseteq 0 .. ((k + 1) - 1)
        OBVIOUS
      <4> QED
        BY <2>1, <3>1, <4>1 DEF IsSup
    <3>2. CASE new # m
      <4>1. k \in 0 .. ((k + 1) - 1)
        OBVIOUS
      <4> QED
        BY <2>2, <2>3, <3>2, <4>1
    <3> QED
      BY <3>1, <3>2
  <2>6. IsSup(new, k + 1, v)
    BY <2>4, <2>5 DEF IsSup
  <2> QED
    BY <2>6
<1>4. n \in S
  <2> HIDE DEF S
  <2> QED
    BY <1>2, <1>3, CountingUp
<1> QED
  BY <1>1, <1>4

\* Two vectors stacked.
LEMMA StackOfTwo ==
  ASSUME NEW n \in Nat, NEW m \in Nat, NEW u \in Ints(n), NEW v \in Ints(m)
  PROVE  /\ StackTwo(u, v) \in Ints(n + m)
         /\ \A i \in 0 .. (n - 1) : StackTwo(u, v)[i] = u[i]
         /\ \A i \in 0 .. (m - 1) : StackTwo(u, v)[n + i] = v[i]
<1>1. Size(u) = n /\ Size(v) = m
  BY SizeOfVector DEF Ints
<1>2. StackTwo(u, v) = [i \in 0 .. ((n + m) - 1) |-> IF i < n THEN u[i] ELSE v[i - n]]
  BY <1>1 DEF StackTwo
<1>3. \A i \in 0 .. ((n + m) - 1) : (IF i < n THEN u[i] ELSE v[i - n]) \in Int
  BY DEF Ints
<1>4. \A i \in 0 .. (m - 1) : n + i \in 0 .. ((n + m) - 1) /\ ~(n + i < n) /\ (n + i) - n = i
  OBVIOUS
<1>5. \A i \in 0 .. (n - 1) : i \in 0 .. ((n + m) - 1) /\ i < n
  OBVIOUS
<1>6. StackTwo(u, v) \in Ints(n + m)
  BY <1>2, <1>3 DEF Ints
<1> QED
  BY <1>2, <1>4, <1>5, <1>6

\* The supremum norm of what is stacked is the larger of the two.
LEMMA SupNormOfStack ==
  ASSUME NEW n \in Nat, NEW m \in Nat, NEW u \in Ints(n), NEW v \in Ints(m)
  PROVE  SupNorm(StackTwo(u, v)) = Max({SupNorm(u), SupNorm(v)})
<1>1. PICK w \in Ints(n + m) :
        /\ w = StackTwo(u, v)
        /\ \A i \in 0 .. (n - 1) : w[i] = u[i]
        /\ \A i \in 0 .. (m - 1) : w[n + i] = v[i]
  BY StackOfTwo
<1>2. PICK a, b : a = SupNorm(u) /\ IsSup(a, n, u) /\ b = SupNorm(v) /\ IsSup(b, m, v)
  BY SupNormIsSup
<1>3. PICK c \in Nat : c = IF a < b THEN b ELSE a
  BY <1>2 DEF IsSup
<1>4. Max({a, b}) = c
  <2>1. {a, b} \in SUBSET Int /\ c \in {a, b} /\ \A k \in {a, b} : k <= c
    BY <1>2, <1>3 DEF IsSup
  <2> QED
    BY <2>1, GreatestIsMax
<1>5. ASSUME NEW i \in 0 .. ((n + m) - 1) PROVE w[i] <= c /\ -w[i] <= c
  <2>1. CASE i < n
    <3>1. i \in 0 .. (n - 1)
      BY <2>1
    <3>2. u[i] <= a /\ -u[i] <= a /\ u[i] \in Int /\ a \in Nat /\ b \in Nat /\ w[i] = u[i]
      BY <1>1, <1>2, <3>1 DEF IsSup, Ints
    <3> QED
      BY <1>3, <3>2
  <2>2. CASE i >= n
    <3>1. PICK j \in 0 .. (m - 1) : j = i - n /\ n + j = i
      BY <2>2
    <3>2. v[j] <= b /\ -v[j] <= b /\ v[j] \in Int /\ a \in Nat /\ b \in Nat /\ w[n + j] = v[j]
      BY <1>1, <1>2 DEF IsSup, Ints
    <3> QED
      BY <1>3, <3>1, <3>2
  <2> QED
    BY <2>1, <2>2
<1>6. c = 0 \/ \E i \in 0 .. ((n + m) - 1) : c = w[i] \/ c = -w[i]
  <2>1. CASE c # 0 /\ c = a
    <3>1. PICK i \in 0 .. (n - 1) : a = u[i] \/ a = -u[i]
      BY <1>2, <2>1 DEF IsSup
    <3>2. i \in 0 .. ((n + m) - 1) /\ w[i] = u[i]
      BY <1>1
    <3> QED
      BY <2>1, <3>1, <3>2
  <2>2. CASE c # 0 /\ c = b
    <3>1. PICK i \in 0 .. (m - 1) : b = v[i] \/ b = -v[i]
      BY <1>2, <2>2 DEF IsSup
    <3>2. n + i \in 0 .. ((n + m) - 1) /\ w[n + i] = v[i]
      BY <1>1
    <3> QED
      BY <2>2, <3>1, <3>2
  <2> QED
    BY <1>3, <2>1, <2>2
<1>7. IsSup(c, n + m, w)
  BY <1>5, <1>6 DEF IsSup
<1>8. SupNorm(w) = c
  BY <1>7, SupNormIsSup
<1> QED
  BY <1>1, <1>2, <1>4, <1>8


\* The identities of the cross product, for the components of two vectors.
LEMMA CrossIdentities ==
  ASSUME NEW a \in Int, NEW b \in Int, NEW c \in Int, NEW x \in Int, NEW y \in Int, NEW z \in Int
  PROVE  /\ a * (b * z - c * y) + b * (c * x - a * z) + c * (a * y - b * x) = 0
         /\ x * (b * z - c * y) + y * (c * x - a * z) + z * (a * y - b * x) = 0
         /\ (b * z - c * y) * (b * z - c * y) + (c * x - a * z) * (c * x - a * z) + (a * y - b * x) * (a * y - b * x)
              = (a * a + b * b + c * c) * (x * x + y * y + z * z)
                  - (a * x + b * y + c * z) * (a * x + b * y + c * z)
OBVIOUS

\* The components of a cross product.
LEMMA CrossComponents ==
  ASSUME NEW u \in Ints(3), NEW v \in Ints(3)
  PROVE  /\ CrossProduct(u, v) \in Ints(3)
         /\ CrossProduct(u, v)[0] = u[1] * v[2] - u[2] * v[1]
         /\ CrossProduct(u, v)[1] = u[2] * v[0] - u[0] * v[2]
         /\ CrossProduct(u, v)[2] = u[0] * v[1] - u[1] * v[0]
<1>1. /\ (0 + 1) % 3 = 1 /\ (0 + 2) % 3 = 2 /\ (1 + 1) % 3 = 2
      /\ (1 + 2) % 3 = 0 /\ (2 + 1) % 3 = 0 /\ (2 + 2) % 3 = 1
  OBVIOUS
<1>2. \A i \in 0 .. 2 : i = 0 \/ i = 1 \/ i = 2
  OBVIOUS
<1>3. 0 \in 0 .. 2 /\ 1 \in 0 .. 2 /\ 2 \in 0 .. 2 /\ 3 - 1 = 2
  OBVIOUS
<1>4. u[0] \in Int /\ u[1] \in Int /\ u[2] \in Int /\ v[0] \in Int /\ v[1] \in Int /\ v[2] \in Int
  BY <1>3 DEF Ints
<1>5. /\ CrossProduct(u, v)[0] = u[1] * v[2] - u[2] * v[1]
      /\ CrossProduct(u, v)[1] = u[2] * v[0] - u[0] * v[2]
      /\ CrossProduct(u, v)[2] = u[0] * v[1] - u[1] * v[0]
  BY <1>1, <1>3 DEF CrossProduct
<1>6. \A i \in 0 .. 2 : CrossProduct(u, v)[i] \in Int
  BY <1>2, <1>4, <1>5
<1>7. CrossProduct(u, v) = [i \in 0 .. 2 |-> CrossProduct(u, v)[i]]
  BY DEF CrossProduct
<1>8. CrossProduct(u, v) \in [0 .. 2 -> Int]
  BY <1>6, <1>7, Zenon
<1> QED
  BY <1>3, <1>5, <1>8 DEF Ints

\* The inner product of vectors of three entries.
LEMMA DotOfThree ==
  ASSUME NEW u \in Ints(3), NEW v \in Ints(3)
  PROVE  Dot(u, v) = u[0] * v[0] + u[1] * v[1] + u[2] * v[2]
<1> DEFINE w == [i \in 0 .. 2 |-> u[i] * v[i]]
<1>1. w \in Ints(3) /\ Dot(u, v) = Total(w)
  BY DEF Ints, Dot
<1>2. w[0] = u[0] * v[0] /\ w[1] = u[1] * v[1] /\ w[2] = u[2] * v[2]
  OBVIOUS
<1> HIDE DEF w
<1> QED
  BY <1>1, <1>2, TotalOfFew

\* The cross product of any vectors of three integers.
THEOREM CrossIsAlwaysOrthogonal ==
  ASSUME NEW u \in Ints(3), NEW v \in Ints(3)
  PROVE  CrossIsOrthogonal(u, v)
<1>1. PICK w \in Ints(3), s \in Ints(3) : w = CrossProduct(u, v) /\ s = CrossProduct(v, u)
  BY CrossComponents
<1>2. PICK a \in Int, b \in Int, c \in Int, x \in Int, y \in Int, z \in Int :
        a = u[0] /\ b = u[1] /\ c = u[2] /\ x = v[0] /\ y = v[1] /\ z = v[2]
  <2>1. 0 \in 0 .. (3 - 1) /\ 1 \in 0 .. (3 - 1) /\ 2 \in 0 .. (3 - 1)
    OBVIOUS
  <2>2. u[0] \in Int /\ u[1] \in Int /\ u[2] \in Int /\ v[0] \in Int /\ v[1] \in Int /\ v[2] \in Int
    BY <2>1 DEF Ints
  <2> QED
    BY <2>2, Zenon
<1>3. w[0] = b * z - c * y /\ w[1] = c * x - a * z /\ w[2] = a * y - b * x
  BY <1>1, <1>2, CrossComponents
<1>4. s[0] = y * c - z * b /\ s[1] = z * a - x * c /\ s[2] = x * b - y * a
  BY <1>1, <1>2, CrossComponents
<1>5. Dot(u, w) = 0
  <2>1. Dot(u, w) = a * (b * z - c * y) + b * (c * x - a * z) + c * (a * y - b * x)
    BY <1>2, <1>3, DotOfThree
  <2> QED
    BY <2>1, CrossIdentities
<1>6. Dot(v, w) = 0
  <2>1. Dot(v, w) = x * (b * z - c * y) + y * (c * x - a * z) + z * (a * y - b * x)
    BY <1>2, <1>3, DotOfThree
  <2> QED
    BY <2>1, CrossIdentities
<1>7. s = [i \in 0..2 |-> -w[i]]
  <2>1. y * c - z * b = -(b * z - c * y) /\ z * a - x * c = -(c * x - a * z) /\ x * b - y * a = -(a * y - b * x)
    OBVIOUS
  <2>2. s[0] = -w[0] /\ s[1] = -w[1] /\ s[2] = -w[2]
    BY <1>3, <1>4, <2>1
  <2>3. \A i \in 0 .. 2 : s[i] = -w[i]
    BY <2>2
  <2>4. s = [i \in 0 .. 2 |-> s[i]]
    BY DEF Ints
  <2> QED
    BY <2>3, <2>4
<1>8. Dot(w, w) = Dot(u, u) * Dot(v, v) - Dot(u, v) * Dot(u, v)
  <2>1. Dot(w, w) = (b * z - c * y) * (b * z - c * y) + (c * x - a * z) * (c * x - a * z)
                      + (a * y - b * x) * (a * y - b * x)
    BY <1>3, DotOfThree
  <2>2. /\ Dot(u, u) = a * a + b * b + c * c /\ Dot(v, v) = x * x + y * y + z * z
        /\ Dot(u, v) = a * x + b * y + c * z
    BY <1>2, DotOfThree
  <2> QED
    BY <2>1, <2>2, CrossIdentities
<1>9. SupNorm(StackTwo(u, w)) = Max({SupNorm(u), SupNorm(w)})
  BY SupNormOfStack
<1> QED
  BY <1>1, <1>5, <1>6, <1>7, <1>8, <1>9, Zenon DEF CrossIsOrthogonal

-----------------------------------------------------------------------------
\* The products of the entries of two vectors.
Entrywise(x, y, n) == [k \in 0 .. (n - 1) |-> x[k] * y[k]]

\* Their total is the product of the vectors, which is symmetric.
LEMMA VectorProductIsTotal ==
  ASSUME NEW n \in Nat, NEW x \in Ints(n), NEW y \in Ints(n)
  PROVE  /\ Entrywise(x, y, n) \in Ints(n) /\ VectorProduct(x, y) = Total(Entrywise(x, y, n))
         /\ VectorProduct(x, y) \in Int /\ VectorProduct(x, y) = VectorProduct(y, x)
<1>1. \A k \in 0 .. (n - 1) : x[k] \in Int /\ y[k] \in Int
  BY DEF Ints
<1>2. DOMAIN x = 0 .. (n - 1) /\ DOMAIN y = 0 .. (n - 1)
  BY DEF Ints
<1>3. Entrywise(x, y, n) \in Ints(n)
  BY <1>1 DEF Ints, Entrywise
<1>4. VectorProduct(x, y) = Total(Entrywise(x, y, n)) /\ VectorProduct(y, x) = Total(Entrywise(y, x, n))
  BY <1>2 DEF VectorProduct, Entrywise
<1>5. Entrywise(x, y, n) = Entrywise(y, x, n)
  BY <1>1 DEF Entrywise
<1> QED
  BY <1>3, <1>4, <1>5, TotalIsInt

\* The product of stacked vectors is the sum of the products.
LEMMA ProductOfStacks ==
  ASSUME NEW n \in Nat, NEW m \in Nat, NEW u \in Ints(n), NEW v \in Ints(m), NEW x \in Ints(n), NEW y \in Ints(m)
  PROVE  VectorProduct(StackTwo(u, v), StackTwo(x, y)) = VectorProduct(u, x) + VectorProduct(v, y)
<1>1. PICK s \in Ints(n + m) :
        /\ s = StackTwo(u, v)
        /\ \A i \in 0 .. (n - 1) : s[i] = u[i]
        /\ \A i \in 0 .. (m - 1) : s[n + i] = v[i]
  BY StackOfTwo
<1>2. PICK t \in Ints(n + m) :
        /\ t = StackTwo(x, y)
        /\ \A i \in 0 .. (n - 1) : t[i] = x[i]
        /\ \A i \in 0 .. (m - 1) : t[n + i] = y[i]
  BY StackOfTwo
<1>3. PICK p \in Ints(n + m), q \in Ints(n), r \in Ints(m) :
        /\ p = Entrywise(s, t, n + m) /\ VectorProduct(s, t) = Total(p)
        /\ q = Entrywise(u, x, n) /\ VectorProduct(u, x) = Total(q)
        /\ r = Entrywise(v, y, m) /\ VectorProduct(v, y) = Total(r)
  <2>1. n + m \in Nat
    OBVIOUS
  <2> QED
    BY <2>1, VectorProductIsTotal
<1>4. \A k \in 0 .. (n - 1) : p[k] = q[k]
  BY <1>1, <1>2, <1>3 DEF Entrywise
<1>5. ASSUME NEW k \in 0 .. (m - 1) PROVE p[n + k] = r[k]
  <2>1. n + k \in 0 .. ((n + m) - 1)
    OBVIOUS
  <2> QED
    BY <1>1, <1>2, <1>3, <2>1 DEF Entrywise
<1>6. Total(p) = Total(q) + Total(r)
  BY <1>4, <1>5, TotalOfJoined
<1> QED
  BY <1>1, <1>2, <1>3, <1>6

\* hstack() of three vectors.
LEMMA StackOfThree ==
  ASSUME NEW a, NEW b, NEW c
  PROVE  HStack(<<a, b, c>>) = StackTwo(StackTwo(a, b), c)
<1> DEFINE vectors == <<a, b, c>>
           Is(s) == s = [n \in 1..3 |-> IF n = 1 THEN vectors[1] ELSE StackTwo(s[n - 1], vectors[n])]
           f == [n \in 1..3 |-> IF n = 1 THEN a ELSE IF n = 2 THEN StackTwo(a, b)
                                 ELSE StackTwo(StackTwo(a, b), c)]
<1>1. Len(vectors) = 3 /\ vectors[1] = a /\ vectors[2] = b /\ vectors[3] = c
  OBVIOUS
<1> HIDE DEF vectors
<1>2. f[1] = a /\ f[2] = StackTwo(a, b) /\ f[3] = StackTwo(StackTwo(a, b), c)
  OBVIOUS
<1>3. ASSUME NEW n \in 1..3 PROVE f[n] = IF n = 1 THEN vectors[1] ELSE StackTwo(f[n - 1], vectors[n])
  <2> HIDE DEF f
  <2>1. n = 1 \/ n = 2 \/ n = 3
    OBVIOUS
  <2>2. 2 - 1 = 1 /\ 3 - 1 = 2
    OBVIOUS
  <2> QED
    BY <1>1, <1>2, <2>1, <2>2
<1>4. f = [n \in 1..3 |-> f[n]]
  OBVIOUS
<1> HIDE DEF f
<1>5. Is(f)
  BY <1>3, <1>4
<1>6. PICK s : s = (CHOOSE g : Is(g)) /\ HStack(vectors) = s[3]
  BY <1>1 DEF HStack
<1>7. Is(s)
  BY <1>5, <1>6
<1>8. s[1] = a /\ s[2] = StackTwo(s[1], b) /\ s[3] = StackTwo(s[2], c)
  <2>1. 1 \in 1..3 /\ 2 \in 1..3 /\ 3 \in 1..3 /\ 2 # 1 /\ 3 # 1 /\ 2 - 1 = 1 /\ 3 - 1 = 2
    OBVIOUS
  <2> QED
    BY <1>1, <1>7, <2>1
<1> QED
  BY <1>6, <1>8 DEF vectors

\* Two blocks of the same size are in memory as they are stacked.
LEMMA MemoryIsStacked ==
  ASSUME NEW n \in Nat, NEW x \in Ints(n), NEW y \in Ints(n)
  PROVE  Memory([jj \in 0..1 |-> IF jj = 0 THEN x ELSE y]) = StackTwo(x, y)
<1>0. PICK u : u = [jj \in 0..1 |-> IF jj = 0 THEN x ELSE y]
  OBVIOUS
<1>1. Size(u) = 2 /\ u[0] = x /\ u[1] = y /\ Size(x) = n /\ Size(y) = n
  <2>1. 0..1 = 0 .. (2 - 1)
    OBVIOUS
  <2>2. u \in [0 .. (2 - 1) -> {x, y}]
    BY <1>0, <2>1
  <2>3. Size(u) = 2
    BY <2>2, SizeOfVector
  <2>4. Size(x) = n /\ Size(y) = n
    BY SizeOfVector DEF Ints
  <2> QED
    BY <1>0, <2>3, <2>4
<1>2. Memory(u) = [at \in 0 .. (2 * n - 1) |-> u[at \div n][at % n]]
  BY <1>1 DEF Memory
<1>3. StackTwo(x, y) = [i \in 0 .. ((n + n) - 1) |-> IF i < n THEN x[i] ELSE y[i - n]]
  BY <1>1 DEF StackTwo
<1>4. ASSUME NEW at \in 0 .. (2 * n - 1)
      PROVE  u[at \div n][at % n] = IF at < n THEN x[at] ELSE y[at - n]
  <2>1. n > 0
    OBVIOUS
  <2>2. PICK q \in Int, r \in 0 .. (n - 1) : q = at \div n /\ r = at % n /\ at = n * q + r
    BY <2>1, QuotientAndRest
  <2>3. q = 0 \/ q = 1
    <3>1. q >= 2 => n * q >= 2 * n
      BY <2>1
    <3>2. q <= -1 => n * q <= -n
      BY <2>1
    <3> QED
      BY <2>2, <3>1, <3>2
  <2>4. CASE q = 0
    <3>1. at = r /\ at < n
      BY <2>2, <2>4
    <3>2. u[at \div n][at % n] = x[at]
      BY <1>1, <2>2, <2>4, <3>1, Zenon
    <3> QED
      BY <3>1, <3>2
  <2>5. CASE q = 1
    <3>1. at - n = r /\ ~(at < n)
      BY <2>2, <2>5
    <3>2. u[at \div n][at % n] = y[at - n]
      BY <1>1, <2>2, <2>5, <3>1, Zenon
    <3> QED
      BY <3>1, <3>2
  <2> QED
    BY <2>3, <2>4, <2>5
<1>5. 2 * n = n + n
  OBVIOUS
<1>6. Memory(u) = StackTwo(x, y)
  BY <1>2, <1>3, <1>4, <1>5
<1> QED
  BY <1>0, <1>6, Zenon

\* The sum of the squares of two blocks.
LEMMA TwoNormOfBlocks ==
  ASSUME NEW n \in Nat, NEW u, NEW x \in Ints(n), NEW y \in Ints(n), DOMAIN u = 0..1, u[0] = x, u[1] = y
  PROVE  TwoNorm2(u) = VectorProduct(x, x) + VectorProduct(y, y)
<1> DEFINE w == [jj \in 0 .. (2 - 1) |-> Total([ii \in DOMAIN u[jj] |-> u[jj][ii] * u[jj][ii]])]
<1>1. 0..1 = 0 .. (2 - 1)
  OBVIOUS
<1>2. TwoNorm2(u) = Total(w)
  BY <1>1 DEF TwoNorm2
<1>3. w[0] = VectorProduct(x, x) /\ w[1] = VectorProduct(y, y)
  BY DEF VectorProduct
<1>4. VectorProduct(x, x) \in Int /\ VectorProduct(y, y) \in Int
  BY VectorProductIsTotal
<1>5. w = [jj \in 0 .. (2 - 1) |-> w[jj]]
  OBVIOUS
<1> HIDE DEF w
<1>6. \A jj \in 0 .. (2 - 1) : w[jj] \in Int
  BY <1>3, <1>4
<1>7. w \in Ints(2)
  BY <1>5, <1>6 DEF Ints
<1> QED
  BY <1>2, <1>3, <1>7, TotalOfFew

\* The square of a difference, entry by entry.
LEMMA SquareOfDifference ==
  ASSUME NEW n \in Nat, NEW a \in Ints(n), NEW b \in Ints(n), NEW d \in Ints(n), NEW s \in Int,
         \A k \in 0 .. (n - 1) : d[k] = a[k] + (-1) * (b[k] * s)
  PROVE  VectorProduct(d, d)
           = (VectorProduct(a, a) + (-2 * s) * VectorProduct(a, b)) + (s * s) * VectorProduct(b, b)
<1>1. PICK dd \in Ints(n), aa \in Ints(n), ab \in Ints(n), bb \in Ints(n) :
        /\ dd = Entrywise(d, d, n) /\ VectorProduct(d, d) = Total(dd)
        /\ aa = Entrywise(a, a, n) /\ VectorProduct(a, a) = Total(aa)
        /\ ab = Entrywise(a, b, n) /\ VectorProduct(a, b) = Total(ab)
        /\ bb = Entrywise(b, b, n) /\ VectorProduct(b, b) = Total(bb)
  BY VectorProductIsTotal
<1>2. PICK m \in Int, q \in Int : m = -2 * s /\ q = s * s
  OBVIOUS
<1> DEFINE mab == [k \in 0 .. (n - 1) |-> m * ab[k]]
           qbb == [k \in 0 .. (n - 1) |-> q * bb[k]]
           sum == [k \in 0 .. (n - 1) |-> aa[k] + mab[k]]
<1>3. \A k \in 0 .. (n - 1) : ab[k] \in Int /\ bb[k] \in Int /\ aa[k] \in Int
  BY DEF Ints
<1>4. mab \in Ints(n) /\ qbb \in Ints(n)
  <2>1. ASSUME NEW k \in 0 .. (n - 1) PROVE m * ab[k] \in Int /\ q * bb[k] \in Int
    <3>1. PICK x \in Int, y \in Int : x = ab[k] /\ y = bb[k]
      BY <1>3
    <3> QED
      BY <3>1
  <2> QED
    BY <2>1 DEF Ints
<1>5. sum \in Ints(n)
  BY <1>3 DEF Ints
<1>6. ASSUME NEW k \in 0 .. (n - 1) PROVE dd[k] = sum[k] + qbb[k]
  <2>1. PICK x \in Int, y \in Int : x = a[k] /\ y = b[k]
    BY DEF Ints
  <2>2. dd[k] = (x + (-1) * (y * s)) * (x + (-1) * (y * s)) /\ aa[k] = x * x /\ ab[k] = x * y /\ bb[k] = y * y
    BY <1>1, <2>1 DEF Entrywise
  <2>3. sum[k] = x * x + (-2 * s) * (x * y) /\ qbb[k] = (s * s) * (y * y)
    BY <1>2, <2>2
  <2>4. (x + (-1) * (y * s)) * (x + (-1) * (y * s)) = (x * x + (-2 * s) * (x * y)) + (s * s) * (y * y)
    OBVIOUS
  <2> QED
    BY <2>2, <2>3, <2>4
<1>7. (\A k \in 0 .. (n - 1) : mab[k] = m * ab[k] /\ qbb[k] = q * bb[k])
      /\ \A k \in 0 .. (n - 1) : sum[k] = aa[k] + mab[k]
  OBVIOUS
<1> HIDE DEF mab, qbb, sum
<1>8. Total(mab) = m * Total(ab) /\ Total(qbb) = q * Total(bb)
  BY <1>4, <1>7, TotalOfMultiple
<1>9. Total(sum) = Total(aa) + Total(mab)
  BY <1>4, <1>5, <1>7, TotalOfSum
<1>10. Total(dd) = Total(sum) + Total(qbb)
  BY <1>4, <1>5, <1>6, TotalOfSum
<1> QED
  BY <1>1, <1>2, <1>8, <1>9, <1>10

\* The two-norm of two blocks is at most the one-norm.
LEMMA NormsOfBlocks ==
  ASSUME NEW n \in Nat, NEW u, NEW x \in Ints(n), NEW y \in Ints(n), DOMAIN u = 0..1, u[0] = x, u[1] = y
  PROVE  TwoNorm2(u) <= OneNorm(u) * OneNorm(u)
<1> DEFINE Abs1(v) == [ii \in 0 .. (n - 1) |-> IF v[ii] < 0 THEN -v[ii] ELSE v[ii]]
           w == [jj \in 0 .. (2 - 1) |-> Total([ii \in DOMAIN u[jj] |-> IF u[jj][ii] < 0 THEN -u[jj][ii] ELSE u[jj][ii]])]
<1>1. 0..1 = 0 .. (2 - 1)
  OBVIOUS
<1>2. OneNorm(u) = Total(w)
  BY <1>1 DEF OneNorm
<1>3. DOMAIN x = 0 .. (n - 1) /\ DOMAIN y = 0 .. (n - 1)
  BY DEF Ints
<1>4. w[0] = Total(Abs1(x)) /\ w[1] = Total(Abs1(y))
  BY <1>3
<1>5. ASSUME NEW v \in Ints(n)
      PROVE  Total(Abs1(v)) \in Nat /\ VectorProduct(v, v) <= Total(Abs1(v)) * Total(Abs1(v))
  <2>1. \A k \in 0 .. (n - 1) : v[k] \in Int
    BY DEF Ints
  <2>2. PICK p \in Ints(n) : p = Abs1(v)
    <3>1. \A k \in 0 .. (n - 1) : (IF v[k] < 0 THEN -v[k] ELSE v[k]) \in Int
      BY <2>1
    <3>2. Abs1(v) \in Ints(n)
      BY <3>1 DEF Ints
    <3> QED
      BY <3>2
  <2>3. PICK q \in Ints(n) : q = Entrywise(v, v, n) /\ VectorProduct(v, v) = Total(q)
    BY VectorProductIsTotal
  <2>4. ASSUME NEW k \in 0 .. (n - 1) PROVE p[k] >= 0 /\ q[k] = p[k] * p[k]
    <3>1. PICK a \in Int : a = v[k]
      BY <2>1
    <3>2. p[k] = (IF a < 0 THEN -a ELSE a) /\ q[k] = a * a
      BY <2>2, <2>3, <3>1 DEF Entrywise
    <3>3. (-a) * (-a) = a * a
      OBVIOUS
    <3> QED
      BY <3>2, <3>3
  <2>5. Total(p) >= 0 /\ Total(q) <= Total(p) * Total(p) /\ Total(p) \in Int
    BY <2>4, TotalOfSquares, TotalIsInt
  <2> HIDE DEF Abs1
  <2> QED
    BY <2>2, <2>3, <2>5
<1>6. w = [jj \in 0 .. (2 - 1) |-> w[jj]]
  OBVIOUS
<1> HIDE DEF w, Abs1
<1>7. PICK a \in Nat, b \in Nat : a = w[0] /\ b = w[1] /\ VectorProduct(x, x) <= a * a /\ VectorProduct(y, y) <= b * b
  BY <1>4, <1>5
<1>8. w \in Ints(2)
  <2>1. \A jj \in 0 .. (2 - 1) : w[jj] \in Int
    BY <1>7
  <2> QED
    BY <1>6, <2>1 DEF Ints
<1>9. OneNorm(u) = a + b
  BY <1>2, <1>7, <1>8, TotalOfFew
<1>10. TwoNorm2(u) <= a * a + b * b
  <2>1. VectorProduct(x, x) \in Int /\ VectorProduct(y, y) \in Int
    BY VectorProductIsTotal
  <2> QED
    BY <1>7, <2>1, TwoNormOfBlocks
<1>11. PICK ab \in Nat : ab = a * b
  BY ProductIsNat
<1>12. (a + b) * (a + b) = a * a + 2 * ab + b * b
  BY <1>11
<1>13. TwoNorm2(u) \in Int
  BY TwoNormOfBlocks, VectorProductIsTotal
<1> QED
  BY <1>9, <1>10, <1>12, <1>13

\* The ways to multiply vectors of any size agree.
THEOREM ProductsAlwaysAgree ==
  ASSUME NEW n \in Nat, NEW x \in Ints(n), NEW y \in Ints(n), NEW scalar \in Int
  PROVE  ProductsAgree(x, y, scalar)
<1> DEFINE dot == VectorProduct(x, y)
           z == Scaled(x, scalar)
           u == [jj \in 0..1 |-> IF jj = 0 THEN x ELSE y]
           v == [jj \in 0..1 |-> IF jj = 0 THEN y ELSE z]
           number == [i \in {0} |-> scalar]
           difference == BlocksSum(u, BlocksScaled(v, scalar), -1)
<1>1. /\ DOMAIN x = 0 .. (n - 1) /\ DOMAIN y = 0 .. (n - 1)
      /\ \A k \in 0 .. (n - 1) : x[k] \in Int /\ y[k] \in Int
  BY DEF Ints
<1>2. z \in Ints(n) /\ z = [ii \in 0 .. (n - 1) |-> x[ii] * scalar]
  BY <1>1 DEF Scaled, Ints
<1>3. ColumnProduct(x, AsColumn(y)) = dot
  <2>1. \A ii \in 0 .. (n - 1) : AsColumn(y).at[<<ii, 0>>] = y[ii]
    BY ColumnIsMatrix
  <2>2. [ii \in DOMAIN x |-> x[ii] * AsColumn(y).at[<<ii, 0>>]] = [ii \in DOMAIN x |-> x[ii] * y[ii]]
    BY <1>1, <2>1
  <2> QED
    BY <2>2, Zenon DEF ColumnProduct, VectorProduct
<1>4. Product(AsRow(x), AsColumn(y)).at[0, 0] = dot
  <2>1. PICK r, c : r = AsRow(x) /\ c = AsColumn(y)
    OBVIOUS
  <2>2. /\ IsMatrix(r, Int) /\ r.rows = 1 /\ r.cols = n /\ \A k \in 0 .. (n - 1) : r.at[<<0, k>>] = x[k]
        /\ IsMatrix(c, Int) /\ c.rows = n /\ c.cols = 1 /\ \A k \in 0 .. (n - 1) : c.at[<<k, 0>>] = y[k]
    BY <2>1, ColumnIsMatrix
  <2>3. Product(r, c).at[<<0, 0>>] = Total(Terms(r, c, 0, 0))
    <3>1. 0 \in 0 .. (r.rows - 1) /\ 0 \in 0 .. (c.cols - 1)
      BY <2>2
    <3>2. IsMatrix(r, Int) /\ IsMatrix(c, Int) /\ r.cols = c.rows
      BY <2>2
    <3> QED
      BY <3>1, <3>2, ProductIsMatrix
  <2>4. Terms(r, c, 0, 0) = Entrywise(x, y, n)
    BY <2>2 DEF Terms, Entrywise
  <2> QED
    BY <2>1, <2>3, <2>4, VectorProductIsTotal
<1>5. MatrixTimes(AsRow(x), y)[0] = dot
  <2>1. PICK r : r = AsRow(x)
    OBVIOUS
  <2>2. r.rows = 1 /\ r.cols = n /\ \A k \in 0 .. (n - 1) : r.at[<<0, k>>] = x[k]
    BY <2>1, ColumnIsMatrix
  <2>3. MatrixTimes(r, y)[0] = Total([jj \in 0 .. (n - 1) |-> r.at[<<0, jj>>] * y[jj]])
    <3>1. 0 \in 0 .. (1 - 1)
      OBVIOUS
    <3>2. MatrixTimes(r, y) = [ii \in 0 .. (1 - 1) |-> Total([jj \in 0 .. (n - 1) |-> r.at[<<ii, jj>>] * y[jj]])]
      BY <2>2, Zenon DEF MatrixTimes
    <3> QED
      BY <3>1, <3>2
  <2>4. [jj \in 0 .. (n - 1) |-> r.at[<<0, jj>>] * y[jj]] = [jj \in DOMAIN x |-> x[jj] * y[jj]]
    BY <1>1, <2>2
  <2> QED
    BY <2>1, <2>3, <2>4 DEF VectorProduct
<1>6. ASSUME scalar # 0 PROVE Divided(z, scalar) = x
  <2>1. PICK sign \in {-1, 1}, s \in Nat \ {0} :
          sign = (IF scalar < 0 THEN -1 ELSE 1) /\ s = sign * scalar
    <3>1. CASE scalar < 0
      BY <3>1
    <3>2. CASE ~(scalar < 0)
      BY <1>6, <3>2
    <3> QED
      BY <3>1, <3>2
  <2>2. DOMAIN z = 0 .. (n - 1)
    BY <1>2
  <2>3. Divided(z, scalar) = [ii \in 0 .. (n - 1) |-> (sign * z[ii]) \div s]
    BY <2>1, <2>2, Zenon DEF Divided
  <2>4. ASSUME NEW ii \in 0 .. (n - 1) PROVE (sign * z[ii]) \div s = x[ii]
    <3>1. PICK a \in Int : a = x[ii] /\ z[ii] = a * scalar
      BY <1>1, <1>2
    <3>2. sign * (a * scalar) = a * s
      BY <2>1
    <3>3. (a * s) \div s = a
      BY QuotientOfMultiple
    <3> QED
      BY <3>1, <3>2, <3>3
  <2>5. x = [ii \in 0 .. (n - 1) |-> x[ii]]
    BY DEF Ints
  <2> QED
    BY <2>3, <2>4, <2>5
<1> HIDE DEF z
<1>7. VectorProduct(HStack(<<x, number, y>>), HStack(<<y, number, x>>)) = 2 * dot + scalar * scalar
  <2>1. number \in Ints(1) /\ number[0] = scalar
    BY DEF Ints
  <2> HIDE DEF number
  <2>2. StackTwo(x, number) \in Ints(n + 1) /\ StackTwo(y, number) \in Ints(n + 1) /\ n + 1 \in Nat
    BY <2>1, StackOfTwo
  <2>3. VectorProduct(HStack(<<x, number, y>>), HStack(<<y, number, x>>))
          = VectorProduct(StackTwo(x, number), StackTwo(y, number)) + VectorProduct(y, x)
    BY <2>2, StackOfThree, ProductOfStacks
  <2>4. VectorProduct(StackTwo(x, number), StackTwo(y, number)) = dot + VectorProduct(number, number)
    BY <2>1, ProductOfStacks
  <2>5. VectorProduct(number, number) = scalar * scalar
    <3>1. PICK p \in Ints(1) : p = Entrywise(number, number, 1) /\ VectorProduct(number, number) = Total(p)
      BY <2>1, VectorProductIsTotal
    <3>2. p[0] = scalar * scalar
      BY <2>1, <3>1 DEF Entrywise
    <3> QED
      BY <3>1, <3>2, TotalOfFew
  <2>6. dot \in Int /\ VectorProduct(y, x) = dot
    BY VectorProductIsTotal
  <2> QED
    BY <2>3, <2>4, <2>5, <2>6
<1>8. InnerProduct(u, v) = dot + VectorProduct(y, z)
  <2>1. Memory(u) = StackTwo(x, y)
    BY MemoryIsStacked, Zenon
  <2>2. Memory(v) = StackTwo(y, z)
    BY <1>2, MemoryIsStacked, Zenon
  <2>3. InnerProduct(u, v) = VectorProduct(Memory(u), Memory(v))
    BY DEF InnerProduct, VectorProduct
  <2> QED
    BY <1>2, <2>1, <2>2, <2>3, ProductOfStacks
<1>9. u[0] = x /\ u[1] = y /\ v[0] = y /\ v[1] = z /\ DOMAIN u = 0..1 /\ DOMAIN v = 0..1
  OBVIOUS
<1> HIDE DEF u, v
<1>10. TwoNorm2(difference) = TwoNorm2(u) - 2 * scalar * InnerProduct(u, v) + scalar * scalar * TwoNorm2(v)
  <2> DEFINE d(a, b) == [ii \in 0 .. (n - 1) |-> a[ii] + (-1) * (b[ii] * scalar)]
  <2>1. ASSUME NEW a \in Ints(n), NEW b \in Ints(n) PROVE d(a, b) \in Ints(n)
    BY DEF Ints
  <2>2. ASSUME NEW a \in Ints(n), NEW b \in Ints(n)
        PROVE  VectorProduct(d(a, b), d(a, b))
                 = (VectorProduct(a, a) + (-2 * scalar) * VectorProduct(a, b)) + (scalar * scalar) * VectorProduct(b, b)
    <3>1. \A k \in 0 .. (n - 1) : d(a, b)[k] = a[k] + (-1) * (b[k] * scalar)
      OBVIOUS
    <3>2. d(a, b) \in Ints(n)
      BY <2>1
    <3> HIDE DEF d
    <3> QED
      BY <3>1, <3>2, SquareOfDifference
  <2>3. DOMAIN difference = 0..1 /\ difference[0] = d(x, y) /\ difference[1] = d(y, z)
    <3>1. DOMAIN z = 0 .. (n - 1)
      BY <1>2
    <3>2. PICK w : w = BlocksScaled(v, scalar)
      OBVIOUS
    <3>3. w[0] = Scaled(y, scalar) /\ w[1] = Scaled(z, scalar)
      BY <1>9, <3>2 DEF BlocksScaled
    <3>4. w[0] = [ii \in 0 .. (n - 1) |-> y[ii] * scalar] /\ w[1] = [ii \in 0 .. (n - 1) |-> z[ii] * scalar]
      BY <1>1, <3>1, <3>3, Zenon DEF Scaled
    <3>5. difference = [jj \in DOMAIN u |-> [ii \in DOMAIN u[jj] |-> u[jj][ii] + (-1) * w[jj][ii]]]
      BY <3>2 DEF BlocksSum
    <3>6. DOMAIN difference = 0..1
      BY <1>9, <3>5
    <3>7. /\ difference[0] = [ii \in 0 .. (n - 1) |-> x[ii] + (-1) * w[0][ii]]
          /\ difference[1] = [ii \in 0 .. (n - 1) |-> y[ii] + (-1) * w[1][ii]]
      <4>1. 0 \in 0..1 /\ 1 \in 0..1
        OBVIOUS
      <4> HIDE DEF difference
      <4> QED
        BY <1>1, <1>9, <3>5, <4>1
    <3>8. \A ii \in 0 .. (n - 1) : w[0][ii] = y[ii] * scalar /\ w[1][ii] = z[ii] * scalar
      BY <3>4
    <3> HIDE DEF difference
    <3> QED
      BY <3>6, <3>7, <3>8
  <2> HIDE DEF d, difference
  <2>4. TwoNorm2(difference) = VectorProduct(d(x, y), d(x, y)) + VectorProduct(d(y, z), d(y, z))
    BY <1>2, <2>1, <2>3, TwoNormOfBlocks
  <2>5. TwoNorm2(u) = VectorProduct(x, x) + VectorProduct(y, y) /\ TwoNorm2(v) = VectorProduct(y, y) + VectorProduct(z, z)
    BY <1>2, <1>9, TwoNormOfBlocks
  <2>6. PICK xx \in Int, xy \in Int, yy \in Int, yz \in Int, zz \in Int :
          /\ xx = VectorProduct(x, x) /\ xy = VectorProduct(x, y) /\ yy = VectorProduct(y, y)
          /\ yz = VectorProduct(y, z) /\ zz = VectorProduct(z, z)
    BY <1>2, VectorProductIsTotal
  <2>7. TwoNorm2(difference) = ((xx + (-2 * scalar) * xy) + (scalar * scalar) * yy)
                                 + ((yy + (-2 * scalar) * yz) + (scalar * scalar) * zz)
    BY <1>2, <2>2, <2>4, <2>6
  <2>8. TwoNorm2(u) = xx + yy /\ InnerProduct(u, v) = xy + yz /\ TwoNorm2(v) = yy + zz
    BY <1>8, <2>5, <2>6
  <2>9. ((xx + (-2 * scalar) * xy) + (scalar * scalar) * yy) + ((yy + (-2 * scalar) * yz) + (scalar * scalar) * zz)
          = (xx + yy) - 2 * scalar * (xy + yz) + scalar * scalar * (yy + zz)
    OBVIOUS
  <2> QED
    BY <2>7, <2>8, <2>9
<1>11. TwoNorm2(u) <= OneNorm(u) * OneNorm(u)
  BY <1>9, NormsOfBlocks
<1>12. InnerProduct(u, v) = VectorProduct(u[0], v[0]) + VectorProduct(u[1], v[1])
  BY <1>8, <1>9
<1> QED
  BY <1>3, <1>4, <1>5, <1>6, <1>7, <1>10, <1>11, <1>12, Zenon DEF ProductsAgree, u, v, z

-----------------------------------------------------------------------------
\* A vector and a multiple of another one.
LEMMA TotalOfMixed ==
  ASSUME NEW n \in Nat, NEW u \in Ints(n), NEW v \in Ints(n), NEW w \in Ints(n), NEW sign \in Int,
         \A k \in 0 .. (n - 1) : w[k] = u[k] + sign * v[k]
  PROVE  Total(w) = Total(u) + sign * Total(v)
<1> DEFINE m == [k \in 0 .. (n - 1) |-> sign * v[k]]
<1>1. m \in Ints(n)
  <2>1. ASSUME NEW k \in 0 .. (n - 1) PROVE sign * v[k] \in Int
    <3>1. PICK x \in Int : x = v[k]
      BY DEF Ints
    <3> QED
      BY <3>1
  <2> QED
    BY <2>1 DEF Ints
<1>2. \A k \in 0 .. (n - 1) : m[k] = sign * v[k]
  OBVIOUS
<1> HIDE DEF m
<1>3. Total(m) = sign * Total(v)
  BY <1>1, <1>2, TotalOfMultiple
<1>4. \A k \in 0 .. (n - 1) : w[k] = u[k] + m[k]
  BY <1>2
<1>5. Total(w) = Total(u) + Total(m)
  BY <1>1, <1>4, TotalOfSum
<1> QED
  BY <1>3, <1>5

\* The parts of a complex matrix.
LEMMA PartsAreMatrices ==
  ASSUME NEW mat, IsMatrix(mat, Int \X Int)
  PROVE  /\ IsMatrix(Real(mat), Int) /\ Real(mat).rows = mat.rows /\ Real(mat).cols = mat.cols
         /\ IsMatrix(Imag(mat), Int) /\ Imag(mat).rows = mat.rows /\ Imag(mat).cols = mat.cols
         /\ \A i \in 0 .. (mat.rows - 1), j \in 0 .. (mat.cols - 1) :
              /\ Real(mat).at[<<i, j>>] = mat.at[<<i, j>>][1] /\ mat.at[<<i, j>>][1] \in Int
              /\ Imag(mat).at[<<i, j>>] = mat.at[<<i, j>>][2] /\ mat.at[<<i, j>>][2] \in Int
<1> DEFINE E == Entries(mat.rows, mat.cols)
           re == [e \in E |-> mat.at[e][1]]
           im == [e \in E |-> mat.at[e][2]]
<1>1. /\ mat = [rows |-> mat.rows, cols |-> mat.cols, at |-> mat.at] /\ mat.rows \in Nat /\ mat.cols \in Nat
      /\ DOMAIN mat.at = E /\ \A e \in E : mat.at[e] \in Int \X Int
  BY DEF IsMatrix
<1>2. \A e \in E : mat.at[e][1] \in Int /\ mat.at[e][2] \in Int
  BY <1>1
<1>3. re \in [E -> Int] /\ im \in [E -> Int]
  BY <1>2
<1>4. ASSUME NEW f PROVE [mat EXCEPT !.at = f] = [rows |-> mat.rows, cols |-> mat.cols, at |-> f]
  BY <1>1
<1>5. Real(mat) = [rows |-> mat.rows, cols |-> mat.cols, at |-> re]
  BY <1>1, <1>4, Zenon DEF Real
<1>6. Imag(mat) = [rows |-> mat.rows, cols |-> mat.cols, at |-> im]
  BY <1>1, <1>4, Zenon DEF Imag
<1>7. \A i \in 0 .. (mat.rows - 1), j \in 0 .. (mat.cols - 1) : <<i, j>> \in E
  BY DEF Entries
<1>8. \A e \in E : re[e] = mat.at[e][1] /\ im[e] = mat.at[e][2]
  OBVIOUS
<1> HIDE DEF re, im
<1>9. IsMatrix(Real(mat), Int) /\ Real(mat).rows = mat.rows /\ Real(mat).cols = mat.cols /\ Real(mat).at = re
  BY <1>1, <1>3, <1>5 DEF IsMatrix
<1>10. IsMatrix(Imag(mat), Int) /\ Imag(mat).rows = mat.rows /\ Imag(mat).cols = mat.cols /\ Imag(mat).at = im
  BY <1>1, <1>3, <1>6 DEF IsMatrix
<1> HIDE DEF E
<1> QED
  BY <1>2, <1>7, <1>8, <1>9, <1>10

\* Sums and multiples of matrices.
LEMMA SumIsMatrix ==
  ASSUME NEW a, NEW b, IsMatrix(a, Int), IsMatrix(b, Int), a.rows = b.rows, a.cols = b.cols, NEW sign \in Int
  PROVE  /\ IsMatrix(MatrixSum(a, b, sign), Int)
         /\ MatrixSum(a, b, sign).rows = a.rows /\ MatrixSum(a, b, sign).cols = a.cols
         /\ \A i \in 0 .. (a.rows - 1), j \in 0 .. (a.cols - 1) :
              MatrixSum(a, b, sign).at[<<i, j>>] = a.at[<<i, j>>] + sign * b.at[<<i, j>>]
<1> DEFINE E == Entries(a.rows, a.cols)
           s == [e \in E |-> a.at[e] + sign * b.at[e]]
<1>1. /\ a = [rows |-> a.rows, cols |-> a.cols, at |-> a.at] /\ a.rows \in Nat /\ a.cols \in Nat
      /\ DOMAIN a.at = E /\ \A e \in E : a.at[e] \in Int /\ b.at[e] \in Int
  BY DEF IsMatrix
<1>2. ASSUME NEW e \in E PROVE a.at[e] + sign * b.at[e] \in Int
  <2>1. PICK x \in Int, y \in Int : x = a.at[e] /\ y = b.at[e]
    BY <1>1
  <2> QED
    BY <2>1
<1>3. s \in [E -> Int]
  BY <1>2
<1>4. ASSUME NEW f PROVE [a EXCEPT !.at = f] = [rows |-> a.rows, cols |-> a.cols, at |-> f]
  BY <1>1
<1>5. MatrixSum(a, b, sign) = [rows |-> a.rows, cols |-> a.cols, at |-> s]
  BY <1>1, <1>4, Zenon DEF MatrixSum
<1>6. \A i \in 0 .. (a.rows - 1), j \in 0 .. (a.cols - 1) : <<i, j>> \in E
  BY DEF Entries
<1>7. \A e \in E : s[e] = a.at[e] + sign * b.at[e]
  OBVIOUS
<1> HIDE DEF s
<1>8. /\ IsMatrix(MatrixSum(a, b, sign), Int) /\ MatrixSum(a, b, sign).at = s
      /\ MatrixSum(a, b, sign).rows = a.rows /\ MatrixSum(a, b, sign).cols = a.cols
  BY <1>1, <1>3, <1>5 DEF IsMatrix
<1> HIDE DEF E
<1> QED
  BY <1>6, <1>7, <1>8

\* The same of multiples.
LEMMA MultipleIsMatrix ==
  ASSUME NEW a, IsMatrix(a, Int), NEW scalar \in Int
  PROVE  /\ IsMatrix(MatrixScaled(a, scalar), Int)
         /\ MatrixScaled(a, scalar).rows = a.rows /\ MatrixScaled(a, scalar).cols = a.cols
         /\ \A i \in 0 .. (a.rows - 1), j \in 0 .. (a.cols - 1) :
              MatrixScaled(a, scalar).at[<<i, j>>] = a.at[<<i, j>>] * scalar
<1> DEFINE E == Entries(a.rows, a.cols)
           s == [e \in E |-> a.at[e] * scalar]
<1>1. /\ a = [rows |-> a.rows, cols |-> a.cols, at |-> a.at] /\ a.rows \in Nat /\ a.cols \in Nat
      /\ DOMAIN a.at = E /\ \A e \in E : a.at[e] \in Int
  BY DEF IsMatrix
<1>2. ASSUME NEW e \in E PROVE a.at[e] * scalar \in Int
  <2>1. PICK x \in Int : x = a.at[e]
    BY <1>1
  <2> QED
    BY <2>1
<1>3. s \in [E -> Int]
  BY <1>2
<1>4. ASSUME NEW f PROVE [a EXCEPT !.at = f] = [rows |-> a.rows, cols |-> a.cols, at |-> f]
  BY <1>1
<1>5. MatrixScaled(a, scalar) = [rows |-> a.rows, cols |-> a.cols, at |-> s]
  BY <1>1, <1>4, Zenon DEF MatrixScaled
<1>6. \A i \in 0 .. (a.rows - 1), j \in 0 .. (a.cols - 1) : <<i, j>> \in E
  BY DEF Entries
<1>7. \A e \in E : s[e] = a.at[e] * scalar
  OBVIOUS
<1> HIDE DEF s
<1>8. /\ IsMatrix(MatrixScaled(a, scalar), Int) /\ MatrixScaled(a, scalar).at = s
      /\ MatrixScaled(a, scalar).rows = a.rows /\ MatrixScaled(a, scalar).cols = a.cols
  BY <1>1, <1>3, <1>5 DEF IsMatrix
<1> HIDE DEF E
<1> QED
  BY <1>6, <1>7, <1>8

\* The zero matrix.
LEMMA ZeroIsMatrix ==
  ASSUME NEW rows \in Nat, NEW cols \in Nat
  PROVE  /\ IsMatrix(Filled(rows, cols, 0), Int) /\ Filled(rows, cols, 0).rows = rows /\ Filled(rows, cols, 0).cols = cols
         /\ \A i \in 0 .. (rows - 1), j \in 0 .. (cols - 1) : Filled(rows, cols, 0).at[<<i, j>>] = 0
<1> DEFINE z == [e \in Entries(rows, cols) |-> 0]
<1>1. Filled(rows, cols, 0) = [rows |-> rows, cols |-> cols, at |-> z]
  BY DEF Filled
<1>2. z \in [Entries(rows, cols) -> Int]
  OBVIOUS
<1>3. \A i \in 0 .. (rows - 1), j \in 0 .. (cols - 1) : z[<<i, j>>] = 0
  BY DEF Entries
<1> HIDE DEF z
<1> QED
  BY <1>1, <1>2, <1>3 DEF IsMatrix

\* A row and a column of complex matrices: the real and the imaginary part of the terms.
RealTerms(a, b, i, j) == [k \in 0 .. (a.cols - 1) |->
  a.at[<<i, k>>][1] * b.at[<<k, j>>][1] - a.at[<<i, k>>][2] * b.at[<<k, j>>][2]]
ImagTerms(a, b, i, j) == [k \in 0 .. (a.cols - 1) |->
  a.at[<<i, k>>][1] * b.at[<<k, j>>][2] + a.at[<<i, k>>][2] * b.at[<<k, j>>][1]]

\* Their totals are those of the products of the parts.
LEMMA TotalsOfComplexTerms ==
  ASSUME NEW a, NEW b, IsMatrix(a, Int \X Int), IsMatrix(b, Int \X Int), a.cols = b.rows,
         NEW i \in 0 .. (a.rows - 1), NEW j \in 0 .. (b.cols - 1)
  PROVE  /\ Total(RealTerms(a, b, i, j))
              = Total(Terms(Real(a), Real(b), i, j)) + (-1) * Total(Terms(Imag(a), Imag(b), i, j))
         /\ Total(ImagTerms(a, b, i, j))
              = Total(Terms(Real(a), Imag(b), i, j)) + 1 * Total(Terms(Imag(a), Real(b), i, j))
         /\ Total(RealTerms(a, b, i, j)) \in Int /\ Total(ImagTerms(a, b, i, j)) \in Int
<1>1. PICK n \in Nat : n = a.cols
  BY DEF IsMatrix
<1>2. PICK ra, ia, rb, ib : ra = Real(a) /\ ia = Imag(a) /\ rb = Real(b) /\ ib = Imag(b)
  OBVIOUS
<1>3. /\ IsMatrix(ra, Int) /\ ra.rows = a.rows /\ ra.cols = n /\ IsMatrix(ia, Int) /\ ia.rows = a.rows /\ ia.cols = n
      /\ \A k \in 0 .. (n - 1) :
           /\ ra.at[<<i, k>>] = a.at[<<i, k>>][1] /\ a.at[<<i, k>>][1] \in Int
           /\ ia.at[<<i, k>>] = a.at[<<i, k>>][2] /\ a.at[<<i, k>>][2] \in Int
  BY <1>1, <1>2, PartsAreMatrices
<1>4. /\ IsMatrix(rb, Int) /\ rb.rows = n /\ rb.cols = b.cols /\ IsMatrix(ib, Int) /\ ib.rows = n /\ ib.cols = b.cols
      /\ \A k \in 0 .. (n - 1) :
           /\ rb.at[<<k, j>>] = b.at[<<k, j>>][1] /\ b.at[<<k, j>>][1] \in Int
           /\ ib.at[<<k, j>>] = b.at[<<k, j>>][2] /\ b.at[<<k, j>>][2] \in Int
  BY <1>1, <1>2, PartsAreMatrices
<1>5. PICK rr, ii, ri, ir : /\ rr = Terms(ra, rb, i, j) /\ ii = Terms(ia, ib, i, j)
                            /\ ri = Terms(ra, ib, i, j) /\ ir = Terms(ia, rb, i, j)
  OBVIOUS
<1>6. rr \in Ints(n) /\ ii \in Ints(n) /\ ri \in Ints(n) /\ ir \in Ints(n)
  <2>1. i \in 0 .. (ra.rows - 1) /\ i \in 0 .. (ia.rows - 1) /\ j \in 0 .. (rb.cols - 1) /\ j \in 0 .. (ib.cols - 1)
    BY <1>3, <1>4
  <2>2. ra.cols = rb.rows /\ ra.cols = ib.rows /\ ia.cols = rb.rows /\ ia.cols = ib.rows
    BY <1>3, <1>4
  <2>3. IsMatrix(ra, Int) /\ IsMatrix(ia, Int) /\ IsMatrix(rb, Int) /\ IsMatrix(ib, Int)
    BY <1>3, <1>4
  <2>4. ra.cols = n /\ ia.cols = n
    BY <1>3
  <2> QED
    BY <1>5, <2>1, <2>2, <2>3, <2>4, TermsAreInts
<1> DEFINE re == RealTerms(a, b, i, j)
           im == ImagTerms(a, b, i, j)
<1>7. ASSUME NEW k \in 0 .. (n - 1)
      PROVE  /\ re[k] = rr[k] + (-1) * ii[k] /\ im[k] = ri[k] + 1 * ir[k]
             /\ re[k] \in Int /\ im[k] \in Int
  <2>1. PICK x \in Int, y \in Int, p \in Int, q \in Int :
          x = a.at[<<i, k>>][1] /\ y = a.at[<<i, k>>][2] /\ p = b.at[<<k, j>>][1] /\ q = b.at[<<k, j>>][2]
    BY <1>3, <1>4
  <2>2. re[k] = x * p - y * q /\ im[k] = x * q + y * p
    BY <1>1, <2>1 DEF RealTerms, ImagTerms
  <2>3. k \in 0 .. (ra.cols - 1) /\ k \in 0 .. (ia.cols - 1)
    BY <1>3
  <2>4. rr[k] = x * p /\ ii[k] = y * q /\ ri[k] = x * q /\ ir[k] = y * p
    BY <1>3, <1>4, <1>5, <2>1, <2>3 DEF Terms
  <2>5. x * p \in Int /\ y * q \in Int /\ x * q \in Int /\ y * p \in Int
    OBVIOUS
  <2> QED
    BY <2>2, <2>4, <2>5
<1>8. re = [k \in 0 .. (n - 1) |-> re[k]] /\ im = [k \in 0 .. (n - 1) |-> im[k]]
  BY <1>1 DEF RealTerms, ImagTerms
<1> HIDE DEF re, im
<1>9. re \in Ints(n) /\ im \in Ints(n)
  BY <1>7, <1>8 DEF Ints
<1>10. Total(re) = Total(rr) + (-1) * Total(ii)
  BY <1>6, <1>7, <1>9, TotalOfMixed
<1>11. Total(im) = Total(ri) + 1 * Total(ir)
  BY <1>6, <1>7, <1>9, TotalOfMixed
<1>12. Total(re) \in Int /\ Total(im) \in Int
  BY <1>9, TotalIsInt
<1> QED
  BY <1>2, <1>5, <1>10, <1>11, <1>12 DEF re, im

\* Adding a multiple of the imaginary part of a real matrix adds nothing.
LEMMA NothingAdded ==
  ASSUME NEW mat, IsMatrix(mat, Int)
  PROVE  MatrixSum(mat, MatrixScaled(ImagOfReal(mat), 2), 1) = mat
<1>1. mat.rows \in Nat /\ mat.cols \in Nat
  BY DEF IsMatrix
<1>2. PICK z : z = ImagOfReal(mat)
  OBVIOUS
<1>3. /\ IsMatrix(z, Int) /\ z.rows = mat.rows /\ z.cols = mat.cols
      /\ \A i \in 0 .. (mat.rows - 1), j \in 0 .. (mat.cols - 1) : z.at[<<i, j>>] = 0
  BY <1>1, <1>2, ZeroIsMatrix DEF ImagOfReal
<1>4. PICK two \in Int, one \in Int : two = 2 /\ one = 1
  OBVIOUS
<1>5. PICK y : y = MatrixScaled(z, two)
  OBVIOUS
<1>6. /\ IsMatrix(y, Int) /\ y.rows = mat.rows /\ y.cols = mat.cols
      /\ \A i \in 0 .. (mat.rows - 1), j \in 0 .. (mat.cols - 1) : y.at[<<i, j>>] = 0
  <2>1. IsMatrix(z, Int)
    BY <1>3
  <2>2. /\ IsMatrix(y, Int) /\ y.rows = z.rows /\ y.cols = z.cols
        /\ \A i \in 0 .. (z.rows - 1), j \in 0 .. (z.cols - 1) : y.at[<<i, j>>] = z.at[<<i, j>>] * two
    BY <1>5, <2>1, MultipleIsMatrix
  <2>3. \A i \in 0 .. (mat.rows - 1), j \in 0 .. (mat.cols - 1) : y.at[<<i, j>>] = z.at[<<i, j>>] * two
    BY <1>3, <2>2, Zenon
  <2>4. 0 * two = 0
    OBVIOUS
  <2>5. \A i \in 0 .. (mat.rows - 1), j \in 0 .. (mat.cols - 1) : y.at[<<i, j>>] = 0
    BY <1>3, <2>3, <2>4, Zenon
  <2>6. y.rows = mat.rows /\ y.cols = mat.cols
    BY <1>3, <2>2
  <2> QED
    BY <2>2, <2>5, <2>6, Zenon
<1>7. PICK m : m = MatrixSum(mat, y, one)
  OBVIOUS
<1>8. /\ IsMatrix(m, Int) /\ m.rows = mat.rows /\ m.cols = mat.cols
      /\ \A i \in 0 .. (mat.rows - 1), j \in 0 .. (mat.cols - 1) :
           m.at[<<i, j>>] = mat.at[<<i, j>>] + one * y.at[<<i, j>>]
  <2>1. IsMatrix(y, Int) /\ mat.rows = y.rows /\ mat.cols = y.cols
    BY <1>6
  <2> QED
    BY <1>7, <2>1, SumIsMatrix
<1>9. ASSUME NEW i \in 0 .. (mat.rows - 1), NEW j \in 0 .. (mat.cols - 1)
      PROVE  m.at[<<i, j>>] = mat.at[<<i, j>>]
  <2>1. m.at[<<i, j>>] = mat.at[<<i, j>>] + one * y.at[<<i, j>>] /\ y.at[<<i, j>>] = 0
    BY <1>6, <1>8
  <2>2. mat.at[<<i, j>>] \in Int
    BY DEF IsMatrix, Entries
  <2> QED
    BY <1>4, <2>1, <2>2
<1>10. IsMatrix(m, Int) /\ m.rows = mat.rows /\ m.cols = mat.cols
  BY <1>8
<1>11. \A i \in 0 .. (m.rows - 1), j \in 0 .. (m.cols - 1) : m.at[<<i, j>>] = mat.at[<<i, j>>]
  BY <1>9, <1>10, Zenon
<1>12. m = mat
  BY <1>10, <1>11, SameMatrix
<1> QED
  BY <1>2, <1>4, <1>5, <1>7, <1>12

\* Twice a matrix times the first column of another one is twice the first column of the product.
LEMMA TwiceTheProduct ==
  ASSUME NEW a, NEW b, IsMatrix(a, Int), IsMatrix(b, Int), a.cols = b.rows, b.cols > 0
  PROVE  MatrixTimes(MatrixScaled(a, 2), [j \in 0..a.cols - 1 |-> b.at[j, 0]])
           = [i \in 0..a.rows - 1 |-> 2 * Product(a, b).at[i, 0]]
<1>1. a.cols \in Nat /\ b.cols \in Nat
  BY DEF IsMatrix
<1>2. PICK n \in Nat : n = a.cols
  BY <1>1
<1>3. PICK two \in Int : two = 2
  OBVIOUS
<1>4. PICK d : d = MatrixScaled(a, two)
  OBVIOUS
<1>5. /\ d.rows = a.rows /\ d.cols = n
      /\ \A i \in 0 .. (a.rows - 1), j \in 0 .. (n - 1) : d.at[<<i, j>>] = a.at[<<i, j>>] * two
  <2>1. /\ d.rows = a.rows /\ d.cols = a.cols
        /\ \A i \in 0 .. (a.rows - 1), j \in 0 .. (a.cols - 1) : d.at[<<i, j>>] = a.at[<<i, j>>] * two
    BY <1>4, MultipleIsMatrix
  <2> QED
    BY <1>2, <2>1, Zenon
<1> DEFINE x == [j \in 0 .. (n - 1) |-> b.at[<<j, 0>>]]
           row(i) == [j \in 0 .. (n - 1) |-> d.at[<<i, j>>] * x[j]]
<1>6. MatrixTimes(d, x) = [i \in 0 .. (a.rows - 1) |-> Total(row(i))]
  BY <1>5, Zenon DEF MatrixTimes
<1>7. ASSUME NEW i \in 0 .. (a.rows - 1) PROVE Total(row(i)) = 2 * Product(a, b).at[<<i, 0>>]
  <2>1. 0 \in 0 .. (b.cols - 1)
    BY <1>1
  <2>2. PICK t \in Ints(n) : t = Terms(a, b, i, 0)
    BY <1>2, <2>1, TermsAreInts
  <2>3. Product(a, b).at[<<i, 0>>] = Total(t)
    BY <2>1, <2>2, ProductIsMatrix
  <2>4. ASSUME NEW j \in 0 .. (n - 1) PROVE row(i)[j] = two * t[j] /\ row(i)[j] \in Int
    <3>1. <<i, j>> \in Entries(a.rows, a.cols) /\ <<j, 0>> \in Entries(b.rows, b.cols)
      BY <1>2, <2>1 DEF Entries
    <3>2. a.at[<<i, j>>] \in Int /\ b.at[<<j, 0>>] \in Int
      BY <3>1 DEF IsMatrix
    <3>3. PICK p \in Int, q \in Int : p = a.at[<<i, j>>] /\ q = b.at[<<j, 0>>]
      BY <3>2, Zenon
    <3>4. t[j] = p * q
      BY <1>2, <2>2, <3>3 DEF Terms
    <3>5. row(i)[j] = (p * two) * q
      BY <1>5, <3>3
    <3>6. (p * two) * q = two * (p * q) /\ p * q \in Int
      BY <1>3
    <3> QED
      BY <1>3, <3>4, <3>5, <3>6
  <2>5. row(i) = [j \in 0 .. (n - 1) |-> row(i)[j]]
    OBVIOUS
  <2> HIDE DEF row
  <2>6. row(i) \in Ints(n)
    BY <2>4, <2>5 DEF Ints
  <2>7. Total(row(i)) = two * Total(t)
    BY <2>4, <2>6, TotalOfMultiple
  <2> QED
    BY <1>3, <2>3, <2>7
<1>8. [j \in 0..a.cols - 1 |-> b.at[j, 0]] = x
  BY <1>2, Zenon
<1>9. [i \in 0 .. (a.rows - 1) |-> Total(row(i))] = [i \in 0..a.rows - 1 |-> 2 * Product(a, b).at[i, 0]]
  <2> HIDE DEF row
  <2> QED
    BY <1>7
<1> HIDE DEF x, row
<1>10. MatrixScaled(a, 2) = d
  BY <1>3, <1>4
<1> QED
  BY <1>6, <1>8, <1>9, <1>10, Zenon

\* Complex matrices of any sizes that fit multiply in their parts.
THEOREM ComplexAlwaysMultiply ==
  ASSUME NEW a, NEW b, IsMatrix(a, Int \X Int), IsMatrix(b, Int \X Int), a.cols = b.rows, b.cols > 0
  PROVE  ComplexMultiply(a, b)
<1> DEFINE at == [e \in Entries(a.rows, b.cols) |->
                    <<Total(RealTerms(a, b, e[1], e[2])), Total(ImagTerms(a, b, e[1], e[2]))>>]
           product == [rows |-> a.rows, cols |-> b.cols, at |-> at]
<1>1. PICK ra, ia, rb, ib : ra = Real(a) /\ ia = Imag(a) /\ rb = Real(b) /\ ib = Imag(b)
  OBVIOUS
<1>2. /\ IsMatrix(ra, Int) /\ ra.rows = a.rows /\ ra.cols = a.cols
      /\ IsMatrix(ia, Int) /\ ia.rows = a.rows /\ ia.cols = a.cols
  BY <1>1, PartsAreMatrices
<1>3. /\ IsMatrix(rb, Int) /\ rb.rows = b.rows /\ rb.cols = b.cols
      /\ IsMatrix(ib, Int) /\ ib.rows = b.rows /\ ib.cols = b.cols
  BY <1>1, PartsAreMatrices
<1>4. /\ IsMatrix(product, Int \X Int) /\ product.rows = a.rows /\ product.cols = b.cols
      /\ \A i \in 0 .. (a.rows - 1), j \in 0 .. (b.cols - 1) :
           product.at[<<i, j>>] = <<Total(RealTerms(a, b, i, j)), Total(ImagTerms(a, b, i, j))>>
  <2>1. a.rows \in Nat /\ b.cols \in Nat
    BY DEF IsMatrix
  <2>2. \A e \in Entries(a.rows, b.cols) :
          <<Total(RealTerms(a, b, e[1], e[2])), Total(ImagTerms(a, b, e[1], e[2]))>> \in Int \X Int
    <3>1. ASSUME NEW e \in Entries(a.rows, b.cols)
          PROVE  Total(RealTerms(a, b, e[1], e[2])) \in Int /\ Total(ImagTerms(a, b, e[1], e[2])) \in Int
      <4>1. e[1] \in 0 .. (a.rows - 1) /\ e[2] \in 0 .. (b.cols - 1)
        BY DEF Entries
      <4> QED
        BY <4>1, TotalsOfComplexTerms
    <3> QED
      BY <3>1
  <2>3. at \in [Entries(a.rows, b.cols) -> Int \X Int]
    BY <2>2
  <2>4. \A i \in 0 .. (a.rows - 1), j \in 0 .. (b.cols - 1) :
          at[<<i, j>>] = <<Total(RealTerms(a, b, i, j)), Total(ImagTerms(a, b, i, j))>>
    BY DEF Entries
  <2> HIDE DEF at
  <2> QED
    BY <2>1, <2>3, <2>4 DEF IsMatrix
<1> HIDE DEF at, product
<1>5. PICK rp, ip : rp = Real(product) /\ ip = Imag(product)
  OBVIOUS
<1>6. /\ IsMatrix(rp, Int) /\ rp.rows = a.rows /\ rp.cols = b.cols
      /\ IsMatrix(ip, Int) /\ ip.rows = a.rows /\ ip.cols = b.cols
      /\ \A i \in 0 .. (a.rows - 1), j \in 0 .. (b.cols - 1) :
           rp.at[<<i, j>>] = Total(RealTerms(a, b, i, j)) /\ ip.at[<<i, j>>] = Total(ImagTerms(a, b, i, j))
  <2>1. IsMatrix(product, Int \X Int)
    BY <1>4
  <2>2. /\ IsMatrix(rp, Int) /\ rp.rows = product.rows /\ rp.cols = product.cols
        /\ IsMatrix(ip, Int) /\ ip.rows = product.rows /\ ip.cols = product.cols
        /\ \A i \in 0 .. (product.rows - 1), j \in 0 .. (product.cols - 1) :
             rp.at[<<i, j>>] = product.at[<<i, j>>][1] /\ ip.at[<<i, j>>] = product.at[<<i, j>>][2]
    BY <1>5, <2>1, PartsAreMatrices
  <2>3. product.rows = a.rows /\ product.cols = b.cols
    BY <1>4
  <2>4. \A i \in 0 .. (a.rows - 1), j \in 0 .. (b.cols - 1) :
          rp.at[<<i, j>>] = product.at[<<i, j>>][1] /\ ip.at[<<i, j>>] = product.at[<<i, j>>][2]
    BY <2>2, <2>3, Zenon
  <2>5. \A i \in 0 .. (a.rows - 1), j \in 0 .. (b.cols - 1) :
          /\ product.at[<<i, j>>][1] = Total(RealTerms(a, b, i, j))
          /\ product.at[<<i, j>>][2] = Total(ImagTerms(a, b, i, j))
    <3>1. \A i \in 0 .. (a.rows - 1), j \in 0 .. (b.cols - 1) :
            product.at[<<i, j>>] = <<Total(RealTerms(a, b, i, j)), Total(ImagTerms(a, b, i, j))>>
      BY <1>4
    <3>2. ASSUME NEW i \in 0 .. (a.rows - 1), NEW j \in 0 .. (b.cols - 1)
          PROVE  /\ product.at[<<i, j>>][1] = Total(RealTerms(a, b, i, j))
                 /\ product.at[<<i, j>>][2] = Total(ImagTerms(a, b, i, j))
      <4>1. PICK p, q : p = Total(RealTerms(a, b, i, j)) /\ q = Total(ImagTerms(a, b, i, j))
        OBVIOUS
      <4>2. product.at[<<i, j>>] = <<p, q>>
        BY <3>1, <4>1, Zenon
      <4> QED
        BY <4>1, <4>2
    <3> QED
      BY <3>2
  <2> QED
    BY <2>2, <2>3, <2>4, <2>5
<1>7. ASSUME NEW x, NEW y, NEW s, NEW t, NEW sign \in Int, NEW whole, IsMatrix(whole, Int),
             whole.rows = a.rows, whole.cols = b.cols,
             IsMatrix(x, Int), IsMatrix(s, Int), x.rows = a.rows, s.rows = a.rows, x.cols = a.cols, s.cols = a.cols,
             IsMatrix(y, Int), IsMatrix(t, Int), y.rows = b.rows, t.rows = b.rows, y.cols = b.cols, t.cols = b.cols,
             \A i \in 0 .. (a.rows - 1), j \in 0 .. (b.cols - 1) :
               whole.at[<<i, j>>] = Total(Terms(x, y, i, j)) + sign * Total(Terms(s, t, i, j))
      PROVE  whole = MatrixSum(Product(x, y), Product(s, t), sign)
  <2>1. PICK p, q : p = Product(x, y) /\ q = Product(s, t)
    OBVIOUS
  <2>2. /\ IsMatrix(p, Int) /\ p.rows = a.rows /\ p.cols = b.cols
        /\ \A i \in 0 .. (a.rows - 1), j \in 0 .. (b.cols - 1) : p.at[<<i, j>>] = Total(Terms(x, y, i, j))
    BY <1>7, <2>1, ProductIsMatrix
  <2>3. /\ IsMatrix(q, Int) /\ q.rows = a.rows /\ q.cols = b.cols
        /\ \A i \in 0 .. (a.rows - 1), j \in 0 .. (b.cols - 1) : q.at[<<i, j>>] = Total(Terms(s, t, i, j))
    BY <1>7, <2>1, ProductIsMatrix
  <2>4. PICK m : m = MatrixSum(p, q, sign)
    OBVIOUS
  <2>5. /\ IsMatrix(m, Int) /\ m.rows = a.rows /\ m.cols = b.cols
        /\ \A i \in 0 .. (a.rows - 1), j \in 0 .. (b.cols - 1) : m.at[<<i, j>>] = p.at[<<i, j>>] + sign * q.at[<<i, j>>]
    <3>1. IsMatrix(p, Int) /\ IsMatrix(q, Int) /\ p.rows = q.rows /\ p.cols = q.cols
      BY <2>2, <2>3
    <3>2. /\ IsMatrix(m, Int) /\ m.rows = p.rows /\ m.cols = p.cols
          /\ \A i \in 0 .. (p.rows - 1), j \in 0 .. (p.cols - 1) : m.at[<<i, j>>] = p.at[<<i, j>>] + sign * q.at[<<i, j>>]
      BY <2>4, <3>1, SumIsMatrix
    <3>3. p.rows = a.rows /\ p.cols = b.cols
      BY <2>2
    <3> QED
      BY <3>2, <3>3, Zenon
  <2>6. \A i \in 0 .. (whole.rows - 1), j \in 0 .. (whole.cols - 1) : whole.at[<<i, j>>] = m.at[<<i, j>>]
    <3>1. \A i \in 0 .. (a.rows - 1), j \in 0 .. (b.cols - 1) : whole.at[<<i, j>>] = m.at[<<i, j>>]
      BY <1>7, <2>2, <2>3, <2>5, Zenon
    <3> QED
      BY <1>7, <3>1, Zenon
  <2>7. whole.rows = m.rows /\ whole.cols = m.cols /\ IsMatrix(m, Int)
    BY <1>7, <2>5
  <2> QED
    BY <1>7, <2>1, <2>4, <2>6, <2>7, SameMatrix
<1>8. rp = MatrixSum(Product(ra, rb), Product(ia, ib), -1)
  <2>1. \A i \in 0 .. (a.rows - 1), j \in 0 .. (b.cols - 1) :
          rp.at[<<i, j>>] = Total(Terms(ra, rb, i, j)) + (-1) * Total(Terms(ia, ib, i, j))
    BY <1>1, <1>6, TotalsOfComplexTerms
  <2> QED
    BY <1>2, <1>3, <1>6, <1>7, <2>1
<1>9. ip = MatrixSum(Product(ra, ib), Product(ia, rb), 1)
  <2>1. \A i \in 0 .. (a.rows - 1), j \in 0 .. (b.cols - 1) :
          ip.at[<<i, j>>] = Total(Terms(ra, ib, i, j)) + 1 * Total(Terms(ia, rb, i, j))
    BY <1>1, <1>6, TotalsOfComplexTerms
  <2> QED
    BY <1>2, <1>3, <1>6, <1>7, <2>1
<1>10. MatrixSum(ra, MatrixScaled(ImagOfReal(ra), 2), 1) = ra
  BY <1>2, NothingAdded
<1>11. MatrixTimes(MatrixScaled(ra, 2), [j \in 0..a.cols - 1 |-> ib.at[j, 0]])
         = [i \in 0..a.rows - 1 |-> 2 * Product(ra, ib).at[i, 0]]
  <2>1. IsMatrix(ra, Int) /\ IsMatrix(ib, Int)
    BY <1>2, <1>3, Zenon
  <2>2. ra.cols = ib.rows
    BY <1>2, <1>3, Zenon
  <2>3. ib.cols > 0
    BY <1>3, Zenon
  <2>4. MatrixTimes(MatrixScaled(ra, 2), [j \in 0..ra.cols - 1 |-> ib.at[j, 0]])
          = [i \in 0..ra.rows - 1 |-> 2 * Product(ra, ib).at[i, 0]]
    BY <2>1, <2>2, <2>3, TwiceTheProduct, Zenon
  <2>5. ra.rows = a.rows /\ ra.cols = a.cols
    BY <1>2
  <2> QED
    BY <2>4, <2>5, Zenon
<1>12. ComplexMultiply(a, b) =
         /\ Real(product) = MatrixSum(Product(Real(a), Real(b)), Product(Imag(a), Imag(b)), -1)
         /\ Imag(product) = MatrixSum(Product(Real(a), Imag(b)), Product(Imag(a), Real(b)), 1)
         /\ MatrixSum(Real(a), MatrixScaled(ImagOfReal(Real(a)), 2), 1) = Real(a)
         /\ MatrixTimes(MatrixScaled(Real(a), 2), [j \in 0..a.cols - 1 |-> Imag(b).at[j, 0]])
              = [i \in 0..a.rows - 1 |-> 2 * Product(Real(a), Imag(b)).at[i, 0]]
  BY Zenon DEF ComplexMultiply, product, at, RealTerms, ImagTerms
<1> QED
  BY <1>1, <1>5, <1>8, <1>9, <1>10, <1>11, <1>12, Zenon

-----------------------------------------------------------------------------
(* What is compared and ordered. *)

\* The subjects of each kind the proofs are about are picked by one action.
LEMMA WhatIsPicked ==
  ASSUME PickSubject
  PROVE  /\ subject'.of = "operands" => PickOperands
         /\ subject'.of = "interval" => PickInterval
         /\ subject'.of = "vectors" => PickVectors
         /\ subject'.of = "ordered_parameters" => PickOrdered
         /\ subject'.of = "numbers" => PickNumbers
         /\ subject'.of = "elements" => PickElements
         /\ subject'.of = "matrix" => PickMatrix
         /\ subject'.of = "product" => PickProduct
         /\ subject'.of = "pair" => PickPair
         /\ subject'.of = "factors" => PickFactors
         /\ subject'.of = "complex_factors" => PickComplexFactors
<1>1. PickOperands => subject'.of = "operands"
  BY DEF PickOperands
<1>2. PickInterval => subject'.of = "interval"
  BY DEF PickInterval
<1>3. PickVectors => subject'.of = "vectors"
  BY DEF PickVectors
<1>4. PickText => subject'.of = "text"
  BY DEF PickText
<1>5. PickComplex => subject'.of = "complex"
  BY DEF PickComplex
<1>6. PickMatrix => subject'.of = "matrix"
  BY DEF PickMatrix
<1>7. PickProduct => subject'.of = "product"
  BY DEF PickProduct
<1>8. PickPair => subject'.of = "pair"
  BY DEF PickPair
<1>9. PickClass => subject'.of = "class"
  BY DEF PickClass
<1>10. PickVectorClass => subject'.of = "vector_class"
  BY DEF PickVectorClass
<1>11. PickList => subject'.of = "list"
  BY DEF PickList
<1>12. PickFactors => subject'.of = "factors"
  BY DEF PickFactors
<1>13. PickComplexFactors => subject'.of = "complex_factors"
  BY DEF PickComplexFactors
<1>14. PickBackend => subject'.of = "backend"
  BY DEF PickBackend
<1>15. PickStudy => subject'.of = "study"
  BY DEF PickStudy
<1>16. PickRun => subject'.of = "run"
  BY DEF PickRun
<1>17. PickRange => subject'.of = "range"
  BY DEF PickRange
<1>18. PickSubscript => subject'.of = "subscript"
  BY DEF PickSubscript
<1>19. PickLists => subject'.of = "lists"
  BY DEF PickLists
<1>20. PickParameters => subject'.of = "parameters"
  BY DEF PickParameters
<1>21. PickOrdered => subject'.of = "ordered_parameters"
  BY DEF PickOrdered
<1>22. PickPairs => subject'.of = "pairs"
  BY DEF PickPairs
<1>23. PickNumbers => subject'.of = "numbers"
  BY DEF PickNumbers
<1>24. PickElements => subject'.of = "elements"
  BY DEF PickElements
<1> QED
  BY <1>1, <1>2, <1>3, <1>4, <1>5, <1>6, <1>7, <1>8, <1>9, <1>10, <1>11, <1>12,
     <1>13, <1>14, <1>15, <1>16, <1>17, <1>18, <1>19, <1>20, <1>21, <1>22, <1>23, <1>24, Zenon DEF PickSubject

\* What is compared has a part, or two, per number.
LEMMA KindsAreComparable ==
  ASSUME NEW kind \in Kinds, NEW x \in kind, NEW tol \in Tolerances
  PROVE  Comparable(x, tol)
<1>1. \A c \in DOMAIN x : x[c] \in Int /\ c[3] \in {1, 2}
  <2>1. ASSUME NEW rows \in 1..2, NEW cols \in 1..2, NEW parts \in 1..2, NEW values \in SUBSET Int,
               x \in Operands(Shape(rows, cols, parts), values)
        PROVE  \A c \in DOMAIN x : x[c] \in Int /\ c[3] \in {1, 2}
    <3>1. x \in [(1..rows) \X (1..cols) \X (1..parts) -> values]
      BY <2>1 DEF Operands, Shape
    <3>2. \A c \in (1..rows) \X (1..cols) \X (1..parts) : c[3] \in 1..parts
      OBVIOUS
    <3>3. 1..parts \subseteq {1, 2}
      OBVIOUS
    <3> QED
      BY <3>1, <3>2, <3>3
  <2>2. \E rows \in 1..2, cols \in 1..2, parts \in 1..2, values \in SUBSET Int :
           x \in Operands(Shape(rows, cols, parts), values)
    <3>1. -2..2 \in SUBSET Int /\ -1..1 \in SUBSET Int /\ 0..2 \in SUBSET Int /\ 0..1 \in SUBSET Int
          /\ 1 \in 1..2 /\ 2 \in 1..2
      OBVIOUS
    <3>2. \/ x \in Operands(Shape(1, 1, 1), -2..2) \/ x \in Operands(Shape(1, 1, 2), -1..1)
          \/ x \in Operands(Shape(1, 1, 1), 0..2) \/ x \in Operands(Shape(2, 1, 1), 0..2)
          \/ x \in Operands(Shape(2, 1, 1), 0..1) \/ x \in Operands(Shape(1, 2, 1), 0..1)
          \/ x \in Operands(Shape(2, 2, 1), 0..1)
      BY Zenon DEF Kinds
    <3> QED
      BY <3>1, <3>2, Zenon
  <2> QED
    BY <2>1, <2>2
<1>2. PICK style \in Styles, rtol \in Nat, atol \in Nat : tol = Tolerance(style, rtol, atol)
  <2>1. tol \in Tolerances
    OBVIOUS
  <2> QED
    BY <2>1 DEF Tolerances, Styles
<1>3. tol.style = style /\ tol.rtol = [p \in {1, 2} |-> rtol] /\ tol.atol = [p \in {1, 2} |-> atol]
  BY <1>2 DEF Tolerance
<1> QED
  BY <1>1, <1>2, <1>3 DEF Comparable

\* Numbers are less, equal or greater, one of the three; the six comparisons fit
\* together, for operands of different sizes too; exchanged operands are in the
\* mirrored relation, but for numpy's tolerance (float_cmp_internal.hh).
THEOREM ComparisonsAlwaysFit == AlgorithmsSpec => []ComparisonsFit
<1>1. SubjectInit => ComparisonsFit
  <2>1. None.of # "operands"
    BY DEF None
  <2> QED
    BY <2>1, Zenon DEF SubjectInit, ComparisonsFit
<1>2. ComparisonsFit /\ [PickSubject]_subject => ComparisonsFit'
  <2> SUFFICES ASSUME PickSubject, subject'.of = "operands"
               PROVE  /\ NumbersOrdered(subject'.lhs, subject'.rhs, subject'.tol)
                      /\ RelationsFit(subject'.lhs, subject'.rhs, subject'.tol)
                      /\ ExchangeMirrors(subject'.lhs, subject'.rhs, subject'.tol)
    BY DEF ComparisonsFit
  <2>1. PickOperands
    BY WhatIsPicked
  <2>2. PICK kind \in Kinds, tol \in Tolerances : \E x \in kind, y \in kind :
          subject' = [of |-> "operands", lhs |-> x, rhs |-> y, tol |-> tol]
    BY <2>1, Zenon DEF PickOperands
  <2>3. PICK x \in kind, y \in kind : subject' = [of |-> "operands", lhs |-> x, rhs |-> y, tol |-> tol]
    BY <2>2
  <2>4. subject'.lhs = x /\ subject'.rhs = y /\ subject'.tol = tol
    BY <2>3
  <2>5. Comparable(x, tol) /\ Comparable(y, tol)
    BY KindsAreComparable
  <2>6. NumbersOrdered(x, y, tol) /\ RelationsFit(x, y, tol) /\ ExchangeMirrors(x, y, tol)
    BY <2>5, NumbersAreOrdered, RelationsAlwaysFit, ExchangeAlwaysMirrors
  <2> QED
    BY <2>4, <2>6, Zenon
<1> QED
  BY <1>1, <1>2, PTL DEF AlgorithmsSpec

\* The vectors that are picked.
LEMMA PickedVectors ==
  ASSUME NEW a \in Vectors PROVE IsVector(a)
<1>1. a \in [(1..2) \X (1..1) \X (1..1) -> {0, 1, 3}]
  BY DEF Vectors, Operands, Shape
<1>2. \A c \in (1..2) \X (1..1) \X (1..1) : c[1] \in Nat /\ c = <<c[1], 1, 1>>
  OBVIOUS
<1>3. \A c \in DOMAIN a : c[1] \in Nat /\ a[c] \in Int
  BY <1>1, <1>2
<1>4. \A c, d \in DOMAIN a : c[1] = d[1] => c = d
  <2>1. \A c \in DOMAIN a : c = <<c[1], 1, 1>>
    BY <1>1, <1>2
  <2> QED
    BY <2>1, Zenon
<1>5. a = [c \in DOMAIN a |-> a[c]]
  BY <1>1
<1> QED
  BY <1>3, <1>4, <1>5, Zenon DEF IsVector

\* The parameters that are picked: they have the keys 1 and 2 and vectors of integers.
LEMMA PickedParameters ==
  ASSUME NEW values \in SUBSET Seq(Int), NEW mu \in DictsOf({1, 2}, values)
  PROVE  IsParameter(mu)
<1>1. PICK K \in SUBSET {1, 2} : mu \in [K -> values]
  BY DEF DictsOf
<1>2. \A k \in DOMAIN mu : mu[k] \in Seq(Int)
  BY <1>1
<1>3. DOMAIN mu \in SUBSET (0 .. (3 - 1))
  BY <1>1
<1>4. mu = [k \in DOMAIN mu |-> mu[k]]
  BY <1>1
<1> QED
  BY <1>2, <1>3, <1>4 DEF IsParameter

\* ValidateInterval accepts the closed interval, VectorLess and the order of parameters
\* are strict and total, VectorFloatLess is VectorLess where no components are nearly equal,
\* and what chooses between numbers or averages them keeps between them (validation.hh,
\* vector_less.hh, parameter.cc, math.hh).
THEOREM OrdersAlwaysTotal == AlgorithmsSpec => []OrdersAreTotal
<1>1. SubjectInit => OrdersAreTotal
  <2>1. None.of \notin {"interval", "vectors", "ordered_parameters", "numbers", "elements"}
    BY DEF None
  <2> QED
    BY <2>1 DEF SubjectInit, OrdersAreTotal
<1>2. OrdersAreTotal /\ [PickSubject]_subject => OrdersAreTotal'
  <2>1. ASSUME UNCHANGED subject, OrdersAreTotal PROVE OrdersAreTotal'
    BY <2>1 DEF OrdersAreTotal
  <2>2. ASSUME PickSubject PROVE OrdersAreTotal'
    <3>1. CASE PickInterval
      <4>1. PICK min \in -1..1, max \in -1..1, value \in -2..2 :
              subject' = [of |-> "interval", min |-> min, max |-> max, value |-> value]
        BY <3>1, Zenon DEF PickInterval
      <4>2. subject'.of = "interval" /\ subject'.min = min /\ subject'.max = max /\ subject'.value = value
        BY <4>1
      <4>3. min \in Int /\ max \in Int /\ value \in Int
        OBVIOUS
      <4>4. IntervalIsClosed(min, max, value)
        BY <4>3, IntervalsAreClosed
      <4>5. IntervalIsClosed(subject'.min, subject'.max, subject'.value)
        BY <4>2, <4>4, Zenon
      <4> QED
        BY <4>2, <4>5 DEF OrdersAreTotal
    <3>2. CASE PickVectors
      <4>1. PICK a \in Vectors, b \in Vectors, c \in Vectors, atol \in 0..1 :
              subject' = [of |-> "vectors", left |-> a, middle |-> b, right |-> c, tol |-> Tolerance("numpy", 0, atol)]
        BY <3>2, Zenon DEF PickVectors
      <4>2. PICK tol : tol = Tolerance("numpy", 0, atol)
        OBVIOUS
      <4>3. subject'.of = "vectors" /\ subject'.left = a /\ subject'.middle = b /\ subject'.right = c /\ subject'.tol = tol
        BY <4>1, <4>2
      <4>4. IsTolerance(tol)
        <5>1. tol.style = "numpy" /\ tol.rtol = [p \in {1, 2} |-> 0] /\ tol.atol = [p \in {1, 2} |-> atol]
          BY <4>2 DEF Tolerance
        <5> QED
          BY <5>1 DEF IsTolerance, Styles
      <4>5. IsVector(a) /\ IsVector(b) /\ IsVector(c)
        BY PickedVectors
      <4>6. VectorsOrdered(a, b, c, tol)
        BY <4>4, <4>5, VectorsAreOrdered
      <4>7. VectorsOrdered(subject'.left, subject'.middle, subject'.right, subject'.tol)
        BY <4>3, <4>6, Zenon
      <4> QED
        BY <4>3, <4>7 DEF OrdersAreTotal
    <3>3. CASE PickOrdered
      <4> DEFINE values == {<<0>>, <<1>>, <<0, 1>>}
                 Dicts == DictsOf({1, 2}, values)
      <4>1. PICK mu \in Dicts, nu \in Dicts, xi \in Dicts :
              subject' = [of |-> "ordered_parameters", mu |-> mu, nu |-> nu, xi |-> xi]
        BY <3>3, Zenon DEF PickOrdered
      <4>2. IsParameter(mu) /\ IsParameter(nu) /\ IsParameter(xi)
        <5>1. values \in SUBSET Seq(Int)
          OBVIOUS
        <5> HIDE DEF values
        <5> QED
          BY <5>1, PickedParameters
      <4> HIDE DEF Dicts
      <4>3. subject'.of = "ordered_parameters" /\ subject'.mu = mu /\ subject'.nu = nu /\ subject'.xi = xi
        BY <4>1
      <4>4. ParametersOrdered(mu, nu, xi)
        BY <4>2, ParametersAreOrdered
      <4>5. ParametersOrdered(subject'.mu, subject'.nu, subject'.xi)
        BY <4>3, <4>4, Zenon
      <4> QED
        BY <4>3, <4>5 DEF OrdersAreTotal
    <3>4. CASE PickNumbers
      <4>1. PICK x \in -3..3, y \in -3..3, z \in -3..3 :
              subject' = [of |-> "numbers", i |-> x, j |-> y, k |-> z]
        BY <3>4, Zenon DEF PickNumbers
      <4>2. subject'.of = "numbers" /\ subject'.i = x /\ subject'.j = y /\ subject'.k = z
        BY <4>1
      <4>3. x \in Int /\ y \in Int /\ z \in Int
        OBVIOUS
      <4>4. ChoicesOrdered(x, y, z)
        BY <4>3, ChoicesAreOrdered
      <4>5. ChoicesOrdered(subject'.i, subject'.j, subject'.k)
        BY <4>2, <4>4, Zenon
      <4> QED
        BY <4>2, <4>5 DEF OrdersAreTotal
    <3>5. CASE PickElements
      <4>1. PICK elements \in Words(-2..2, 4) : subject' = [of |-> "elements", elements |-> elements]
        BY <3>5, Zenon DEF PickElements
      <4>2. subject'.of = "elements" /\ subject'.elements = elements
        BY <4>1
      <4>3. elements \in Seq(Int)
        <5>1. PICK n \in 0..4 : elements \in [1..n -> -2..2]
          BY DEF Words
        <5> QED
          BY <5>1
      <4>4. AveragesInside(elements)
        BY <4>3, AveragesAreInside
      <4>5. AveragesInside(subject'.elements)
        BY <4>2, <4>4, Zenon
      <4> QED
        BY <4>2, <4>5 DEF OrdersAreTotal
    <3>6. CASE subject'.of \notin {"interval", "vectors", "ordered_parameters", "numbers", "elements"}
      BY <3>6 DEF OrdersAreTotal
    <3> QED
      BY <2>2, <3>1, <3>2, <3>3, <3>4, <3>5, <3>6, WhatIsPicked
  <2> QED
    BY <2>1, <2>2
<1> QED
  BY <1>1, <1>2, PTL DEF AlgorithmsSpec

\* The matrices that are picked.
LEMMA PickedMatrices ==
  ASSUME NEW rows \in Nat, NEW cols \in Nat, NEW values, NEW S, values \subseteq S,
         NEW mat \in MatricesOf(rows, cols, values)
  PROVE  IsMatrix(mat, S) /\ mat.rows = rows /\ mat.cols = cols
<1>1. PICK at \in [Entries(rows, cols) -> values] : mat = [rows |-> rows, cols |-> cols, at |-> at]
  BY Zenon DEF MatricesOf
<1>2. at \in [Entries(rows, cols) -> S]
  BY <1>1
<1>3. mat.rows = rows /\ mat.cols = cols /\ mat.at = at
  BY <1>1
<1> QED
  BY <1>1, <1>2, <1>3, Zenon DEF IsMatrix

\* Those of integers.
LEMMA SomeMatrices ==
  ASSUME NEW mat \in Some PROVE IsMatrix(mat, Int)
<1>1. \E rows \in Nat, cols \in Nat, values \in SUBSET Int : mat \in MatricesOf(rows, cols, values)
  <2>1. /\ {-1, 0, 2} \in SUBSET Int /\ -1..2 \in SUBSET Int /\ {-1, 2} \in SUBSET Int
        /\ 1 \in Nat /\ 2 \in Nat /\ 3 \in Nat
    OBVIOUS
  <2>2. \/ mat \in MatricesOf(2, 2, {-1, 0, 2}) \/ mat \in MatricesOf(1, 2, -1..2)
        \/ mat \in MatricesOf(2, 1, -1..2) \/ mat \in MatricesOf(2, 3, {-1, 2})
    BY Zenon DEF Some
  <2> QED
    BY <2>1, <2>2, Zenon
<1>2. PICK rows \in Nat, cols \in Nat, values \in SUBSET Int : mat \in MatricesOf(rows, cols, values)
  BY <1>1
<1>3. values \subseteq Int
  OBVIOUS
<1> QED
  BY <1>2, <1>3, PickedMatrices

\* The matrix another one is multiplied with.
LEMMA PickedFactor ==
  ASSUME NEW rows \in Nat
  PROVE  IsMatrix(CHOOSE other \in MatricesOf(rows, 2, {1, 3}) :
                    \A e \in DOMAIN other.at : other.at[e] = 1 <=> e[1] = e[2], Int)
<1> DEFINE at == [e \in Entries(rows, 2) |-> IF e[1] = e[2] THEN 1 ELSE 3]
           mat == [rows |-> rows, cols |-> 2, at |-> at]
           Chosen(other) == \A e \in DOMAIN other.at : other.at[e] = 1 <=> e[1] = e[2]
<1>1. mat \in MatricesOf(rows, 2, {1, 3})
  <2>1. at \in [Entries(rows, 2) -> {1, 3}]
    OBVIOUS
  <2> HIDE DEF at
  <2> QED
    BY <2>1, Zenon DEF MatricesOf
<1>2. Chosen(mat)
  OBVIOUS
<1>3. (CHOOSE other \in MatricesOf(rows, 2, {1, 3}) : Chosen(other)) \in MatricesOf(rows, 2, {1, 3})
  <2> HIDE DEF mat, Chosen
  <2> QED
    BY <1>1, <1>2, Zenon
<1>4. {1, 3} \subseteq Int /\ 2 \in Nat
  OBVIOUS
<1>5. \A other \in MatricesOf(rows, 2, {1, 3}) : IsMatrix(other, Int)
  BY <1>4, PickedMatrices
<1> QED
  BY <1>3, <1>5, Zenon

\* serialize_rowwise and serialize_colwise agree up to transposing and to what they
\* do with an entry that does not fit; transposing reverses products; mv multiplies
\* by square matrices or throws (matrix.hh); cross products are orthogonal to both
\* factors, and all ways to multiply vectors, blocks and complex matrices agree
\* (fvector.hh, fmatrix.hh).
THEOREM MatricesAlwaysFit == AlgorithmsSpec => []MatricesFit
<1>1. SubjectInit => MatricesFit
  <2>1. None.of \notin {"matrix", "product", "pair", "factors", "complex_factors"}
    BY DEF None
  <2> QED
    BY <2>1 DEF SubjectInit, MatricesFit
<1>2. MatricesFit /\ [PickSubject]_subject => MatricesFit'
  <2>1. ASSUME UNCHANGED subject, MatricesFit PROVE MatricesFit'
    BY <2>1 DEF MatricesFit
  <2>2. ASSUME PickSubject PROVE MatricesFit'
    <3>1. CASE PickMatrix
      <4> DEFINE Other(mat) == CHOOSE other \in MatricesOf(mat.cols, 2, {1, 3}) :
                                 \A e \in DOMAIN other.at : other.at[e] = 1 <=> e[1] = e[2]
      <4>1. PICK mat \in Some, range \in {0, 2, 3} :
              subject' = [of |-> "matrix", mat |-> mat, range |-> range, other |-> Other(mat)]
        BY <3>1, Zenon DEF PickMatrix
      <4>2. IsMatrix(mat, Int) /\ range \in Nat
        BY SomeMatrices
      <4>3. mat.cols \in Nat
        BY <4>2 DEF IsMatrix
      <4>4. PICK other : other = Other(mat)
        OBVIOUS
      <4>5. IsMatrix(other, Int)
        BY <4>3, <4>4, PickedFactor, Zenon
      <4> HIDE DEF Other
      <4>6. /\ subject'.of = "matrix" /\ subject'.mat = mat /\ subject'.range = range
            /\ subject'.other = other
        BY <4>1, <4>4
      <4>7. SerializationsAgree(range, mat) /\ TransposeReverses(mat, other)
        BY <4>2, <4>5, SerializationsAlwaysAgree, TransposingReverses
      <4>8. SerializationsAgree(subject'.range, subject'.mat) /\ TransposeReverses(subject'.mat, subject'.other)
        BY <4>6, <4>7, Zenon
      <4> QED
        BY <4>6, <4>8 DEF MatricesFit
    <3>2. CASE PickProduct
      <4>1. PICK mat \in Some, n \in 1..3, m \in 1..3 : \E x \in [0..n - 1 -> {1, -2}] :
              subject' = [of |-> "product", mat |-> mat, x |-> x, result |-> [i \in 0..m - 1 |-> 7]]
        BY <3>2, Zenon DEF PickProduct
      <4>2. PICK x \in [0..n - 1 -> {1, -2}] :
              subject' = [of |-> "product", mat |-> mat, x |-> x, result |-> [i \in 0..m - 1 |-> 7]]
        BY <4>1
      <4>3. PICK b \in Ints(m) : b = [i \in 0..m - 1 |-> 7]
        <5>1. [i \in 0..m - 1 |-> 7] \in Ints(m)
          BY DEF Ints
        <5> QED
          BY <5>1, Zenon
      <4>4. subject'.of = "product" /\ subject'.mat = mat /\ subject'.x = x /\ subject'.result = b
        BY <4>2, <4>3
      <4>5. IsMatrix(mat, Int)
        BY SomeMatrices
      <4>6. n \in Nat /\ m \in Nat /\ x \in Ints(n)
        BY DEF Ints
      <4>7. SquareMvMultiplies(mat, x, b)
        BY <4>5, <4>6, SquareMvAlwaysMultiplies
      <4>8. SquareMvMultiplies(subject'.mat, subject'.x, subject'.result)
        BY <4>4, <4>7, Zenon
      <4> QED
        BY <4>4, <4>8 DEF MatricesFit
    <3>3. CASE PickPair
      <4>1. PICK u \in [0..2 -> {-1, 0, 2}], v \in [0..2 -> {-1, 0, 2}] :
              subject' = [of |-> "pair", u |-> u, v |-> v]
        BY <3>3, Zenon DEF PickPair
      <4>2. subject'.of = "pair" /\ subject'.u = u /\ subject'.v = v
        BY <4>1
      <4>3. u \in Ints(3) /\ v \in Ints(3)
        BY DEF Ints
      <4>4. CrossIsOrthogonal(u, v)
        BY <4>3, CrossIsAlwaysOrthogonal
      <4>5. CrossIsOrthogonal(subject'.u, subject'.v)
        BY <4>2, <4>4, Zenon
      <4> QED
        BY <4>2, <4>5 DEF MatricesFit
    <3>4. CASE PickFactors
      <4>1. PICK x \in [0..1 -> {-1, 0, 2}], y \in [0..1 -> {-1, 0, 2}], scalar \in -1..2 :
              subject' = [of |-> "factors", x |-> x, y |-> y, scalar |-> scalar]
        BY <3>4, Zenon DEF PickFactors
      <4>2. subject'.of = "factors" /\ subject'.x = x /\ subject'.y = y /\ subject'.scalar = scalar
        BY <4>1
      <4>3. x \in Ints(2) /\ y \in Ints(2) /\ scalar \in Int /\ 2 \in Nat
        BY DEF Ints
      <4>4. ProductsAgree(x, y, scalar)
        BY <4>3, ProductsAlwaysAgree
      <4>5. ProductsAgree(subject'.x, subject'.y, subject'.scalar)
        BY <4>2, <4>4, Zenon
      <4> QED
        BY <4>2, <4>5 DEF MatricesFit
    <3>5. CASE PickComplexFactors
      <4> DEFINE values == {0, 1} \X {-1, 2}
      <4>1. PICK a \in MatricesOf(1, 2, values), b \in MatricesOf(2, 1, values) :
              subject' = [of |-> "complex_factors", a |-> a, b |-> b]
        BY <3>5, Zenon DEF PickComplexFactors
      <4>2. subject'.of = "complex_factors" /\ subject'.a = a /\ subject'.b = b
        BY <4>1
      <4>3. values \subseteq Int \X Int /\ 1 \in Nat /\ 2 \in Nat
        OBVIOUS
      <4> HIDE DEF values
      <4>4. IsMatrix(a, Int \X Int) /\ a.cols = 2 /\ IsMatrix(b, Int \X Int) /\ b.rows = 2 /\ b.cols = 1
        BY <4>3, PickedMatrices
      <4>5. ComplexMultiply(a, b)
        <5>1. IsMatrix(a, Int \X Int) /\ IsMatrix(b, Int \X Int)
          BY <4>4, Zenon
        <5>2. a.cols = b.rows
          BY <4>4, Zenon
        <5>3. b.cols > 0
          BY <4>4
        <5> QED
          BY <5>1, <5>2, <5>3, ComplexAlwaysMultiply
      <4>6. ComplexMultiply(subject'.a, subject'.b)
        BY <4>2, <4>5, Zenon
      <4> QED
        BY <4>2, <4>6 DEF MatricesFit
    <3>6. CASE subject'.of \notin {"matrix", "product", "pair", "factors", "complex_factors"}
      BY <3>6 DEF MatricesFit
    <3> QED
      BY <2>2, <3>1, <3>2, <3>3, <3>4, <3>5, <3>6, WhatIsPicked
  <2> QED
    BY <2>1, <2>2
<1> QED
  BY <1>1, <1>2, PTL DEF AlgorithmsSpec
=============================================================================
