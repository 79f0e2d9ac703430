--------------------------- MODULE FloatComparison ---------------------------
(***************************************************************************)
(* Comparisons up to tolerances: float_cmp_internal.hh, called by the      *)
(* functions of float_cmp.hh.  Scalars, complex numbers, vectors and       *)
(* matrices are compared part by part, so an operand is a function from    *)
(* <<row, column, part>> to a number: a scalar has the one index           *)
(* <<1, 1, 1>>, a complex number the parts 1 (real) and 2 (imaginary).     *)
(* Two operands have the same size iff they have the same indices.         *)
(* A tolerance is a record: its style and, for every part, rtol (in        *)
(* fractions of ToleranceUnit) and atol.                                   *)
(***************************************************************************)
EXTENDS Integers, FiniteSets

CONSTANT ToleranceUnit
ASSUME UnitAssumption == ToleranceUnit \in Nat \ {0}

Magnitude(x) == IF x < 0 THEN -x ELSE x
Larger(x, y) == IF x < y THEN y ELSE x
Smaller(x, y) == IF x < y THEN x ELSE y
SameSize(x, y) == DOMAIN x = DOMAIN y

\* |x - y| <= atol + |y| rtol, of numbers: y sets the scale, x does not.
WithinNumpy(x, y, rtol, atol) ==
  ToleranceUnit * Magnitude(x - y) <= ToleranceUnit * atol + Magnitude(y) * rtol

\* Dune::FloatCmp::eq of dune-common.
WithinDune(style, x, y, eps) ==
  ToleranceUnit * Magnitude(x - y) <=
    CASE style = "absolute" -> eps
      [] style = "relativeWeak" -> eps * Larger(Magnitude(x), Magnitude(y))
      [] style = "relativeStrong" -> eps * Smaller(Magnitude(x), Magnitude(y))

float_cmp_eq(x, y, tol) ==
  SameSize(x, y)
    /\ \A c \in DOMAIN x : WithinNumpy(x[c], y[c], tol.rtol[c[3]], tol.atol[c[3]])
dune_float_cmp_eq(x, y, tol) ==
  SameSize(x, y)
    /\ \A c \in DOMAIN x : WithinDune(tol.style, x[c], y[c], tol.rtol[c[3]])
cmp_gt(x, y) == SameSize(x, y) /\ \A c \in DOMAIN x : x[c] > y[c]
cmp_lt(x, y) == SameSize(x, y) /\ \A c \in DOMAIN x : x[c] < y[c]

\* Bug: the sizes are not compared.
GeWithoutSizes(x, y, tol) ==
  \A c \in DOMAIN x \cap DOMAIN y :
    x[c] > y[c] \/ WithinNumpy(x[c], y[c], tol.rtol[c[3]], tol.atol[c[3]])

\* Greater or equal in every part: not the disjunction of the two relations.
cmp_ge(x, y, tol) ==
  SameSize(x, y) /\ \A c \in DOMAIN x :
    x[c] > y[c] \/ WithinNumpy(x[c], y[c], tol.rtol[c[3]], tol.atol[c[3]])
cmp_le(x, y, tol) ==
  SameSize(x, y) /\ \A c \in DOMAIN x :
    x[c] < y[c] \/ WithinNumpy(x[c], y[c], tol.rtol[c[3]], tol.atol[c[3]])
\* Bug: the tolerance is forgotten.
DuneGeStrict(x, y, tol) == cmp_gt(x, y)
dune_cmp_ge(x, y, tol) ==
  SameSize(x, y) /\ \A c \in DOMAIN x :
    x[c] > y[c] \/ WithinDune(tol.style, x[c], y[c], tol.rtol[c[3]])
dune_cmp_le(x, y, tol) ==
  SameSize(x, y) /\ \A c \in DOMAIN x :
    x[c] < y[c] \/ WithinDune(tol.style, x[c], y[c], tol.rtol[c[3]])

\* Call: the styles of dune-common ignore atol.
FloatEq(x, y, tol) ==
  IF tol.style = "numpy" THEN float_cmp_eq(x, y, tol) ELSE dune_float_cmp_eq(x, y, tol)
FloatNe(x, y, tol) == ~FloatEq(x, y, tol)
\* Bug: what the comment at float_cmp_internal.hh:507 expects to suffice.
GtUntested(x, y, tol) == cmp_gt(x, y)
FloatGt(x, y, tol) == ~FloatEq(x, y, tol) /\ cmp_gt(x, y)
FloatLt(x, y, tol) == ~FloatEq(x, y, tol) /\ cmp_lt(x, y)
FloatGe(x, y, tol) ==
  IF tol.style = "numpy" THEN cmp_ge(x, y, tol) ELSE dune_cmp_ge(x, y, tol)
FloatLe(x, y, tol) ==
  IF tol.style = "numpy" THEN cmp_le(x, y, tol) ELSE dune_cmp_le(x, y, tol)

-----------------------------------------------------------------------------
\* Numbers are less, equal or greater, exactly one of the three, and <= and >=
\* are the negations of > and <: this is what the test for equality in gt and
\* lt is needed for.
NumbersOrdered(x, y, tol) ==
  LET lt == FloatLt(x, y, tol)  eq == FloatEq(x, y, tol)  gt == FloatGt(x, y, tol)
  IN  DOMAIN x = {<<1, 1, 1>>} /\ SameSize(x, y) =>
        /\ lt \/ eq \/ gt
        /\ ~(lt /\ eq) /\ ~(lt /\ gt) /\ ~(eq /\ gt)
        /\ FloatLe(x, y, tol) = ~gt
        /\ FloatGe(x, y, tol) = ~lt

\* Whatever is compared, the six relations fit together: <= and >= together
\* are equality, < excludes >, >= and equality, and operands of different
\* sizes are unequal and in no other relation.
RelationsFit(x, y, tol) ==
  /\ FloatNe(x, y, tol) = ~FloatEq(x, y, tol)
  /\ (FloatLe(x, y, tol) /\ FloatGe(x, y, tol)) = FloatEq(x, y, tol)
  /\ FloatLt(x, y, tol) => FloatLe(x, y, tol) /\ FloatNe(x, y, tol)
                             /\ ~FloatGt(x, y, tol) /\ ~FloatGe(x, y, tol)
  /\ ~SameSize(x, y) => /\ ~FloatLe(x, y, tol) /\ ~FloatGe(x, y, tol)
                        /\ ~FloatGt(x, y, tol)

\* Exchanging the operands exchanges < with > and <= with >= and keeps
\* equality: but for a relative tolerance of numpy style, which is relative to
\* the second operand alone.
ExchangeMirrors(x, y, tol) ==
  (tol.style = "numpy" => \A p \in DOMAIN tol.rtol : tol.rtol[p] = 0) =>
    /\ FloatEq(x, y, tol) = FloatEq(y, x, tol)
    /\ FloatLt(x, y, tol) = FloatGt(y, x, tol)
    /\ FloatLe(x, y, tol) = FloatGe(y, x, tol)


-----------------------------------------------------------------------------
(* The validators of validation.hh, which Configuration::get takes, and    *)
(* the orderings of vector_less.hh and fvector.hh, which std::map takes.   *)
(* A validator is a record: its kind and what it was constructed with;     *)
(* numbers are the parts of scalars, and a vector is an operand with one   *)
(* column.                                                                 *)

Scalar(x) == [c \in {<<1, 1, 1>>} |-> x]
Tolerance(style, rtol, atol) ==
  [style |-> style, rtol |-> [p \in {1, 2} |-> rtol], atol |-> [p \in {1, 2} |-> atol]]
Exact == Tolerance("numpy", 0, 0)

\* lhs < value and lhs > value: the constructor's argument stands on the left.
ValidateLess(lhs, value) == FloatLt(Scalar(lhs), Scalar(value), Exact)
ValidateGreater(lhs, value) == FloatGt(Scalar(lhs), Scalar(value), Exact)
ValidateGreaterOrEqual(lhs, value) == ~ValidateLess(lhs, value)
ValidateLessOrEqual(lhs, value) == ~ValidateGreater(lhs, value)
\* Bug: an operand order that is easy to get wrong, since the left one is stored.
IntervalSwapped(min, max, value) ==
  ValidateGreaterOrEqual(min, value) /\ ValidateGreaterOrEqual(max, value)
ValidateInterval(min, max, value) ==
  ValidateGreaterOrEqual(value, min) /\ ValidateGreaterOrEqual(max, value)
ValidateInList(list, value) == value \in list
Validates(v, value) ==
  CASE v.kind = "any" -> TRUE
    [] v.kind = "none" -> FALSE
    [] v.kind = "list" -> ValidateInList(v.list, value)
    [] v.kind = "less" -> ValidateLess(v.lhs, value)
    [] v.kind = "greater" -> ValidateGreater(v.lhs, value)
    [] v.kind = "greater_or_equal" -> ValidateGreaterOrEqual(v.lhs, value)
    [] v.kind = "less_or_equal" -> ValidateLessOrEqual(v.lhs, value)
    [] v.kind = "interval" -> ValidateInterval(v.min, v.max, value)

\* Bug: not lexicographic.
LessSomewhere(a, b) == \E c \in DOMAIN a : a[c] < b[c]

\* The first component in which a and b differ decides; only a's size is looked
\* at, so b has to be as long.
VectorLess(a, b) ==
  \E c \in DOMAIN a : /\ a[c] < b[c]
                      /\ \A d \in DOMAIN a : d[1] < c[1] => a[d] = b[d]

\* The first component that is less or greater up to the tolerance decides.
VectorFloatLess(a, b, tol) ==
  \E c \in DOMAIN a :
    /\ FloatLt(Scalar(a[c]), Scalar(b[c]), tol)
    /\ \A d \in DOMAIN a : d[1] < c[1] =>
         ~FloatLt(Scalar(a[d]), Scalar(b[d]), tol) /\ ~FloatGt(Scalar(a[d]), Scalar(b[d]), tol)

\* For vectors of one static size: the first component that differs, and the first
\* that is less or greater up to the tolerance.
FieldVectorLess(a, b) ==
  LET differs == {c \in DOMAIN a : a[c] < b[c] \/ a[c] > b[c]}
  IN  \E c \in differs : a[c] < b[c] /\ \A d \in differs : c[1] <= d[1]
FieldVectorFloatLess(a, b, tol) ==
  LET lt(c) == FloatLt(Scalar(a[c]), Scalar(b[c]), tol)
      decides == {c \in DOMAIN a : lt(c) \/ FloatGt(Scalar(a[c]), Scalar(b[c]), tol)}
  IN  \E c \in decides : lt(c) /\ \A d \in decides : c[1] <= d[1]

-----------------------------------------------------------------------------
\* The interval validator accepts the closed interval, two more validators
\* accept its halves, and together the halves accept exactly it.
IntervalIsClosed(min, max, value) ==
  /\ Validates([kind |-> "interval", min |-> min, max |-> max], value)
       = (min <= value /\ value <= max)
  /\ Validates([kind |-> "interval", min |-> min, max |-> max], value)
       = (Validates([kind |-> "less_or_equal", lhs |-> min], value)
            /\ Validates([kind |-> "greater_or_equal", lhs |-> max], value))

\* VectorLess orders vectors of one size strictly and totally, as std::map
\* needs; VectorFloatLess is the same order on vectors no two components of
\* which differ by less than the tolerance, and otherwise need not be an order.
\* Those of FieldVector are the same orders.
VectorsOrdered(a, b, c, tol) ==
  DOMAIN a = DOMAIN b /\ DOMAIN b = DOMAIN c =>
    /\ Cardinality({r \in {<<1, VectorLess(a, b)>>, <<2, a = b>>, <<3, VectorLess(b, a)>>} : r[2]}) = 1
    /\ VectorLess(a, b) /\ VectorLess(b, c) => VectorLess(a, c)
    /\ (\A d \in DOMAIN a : a[d] = b[d] \/ FloatNe(Scalar(a[d]), Scalar(b[d]), tol)) =>
         VectorFloatLess(a, b, tol) = VectorLess(a, b)
    /\ FieldVectorLess(a, b) = VectorLess(a, b)
    /\ FieldVectorFloatLess(a, b, tol) = VectorFloatLess(a, b, tol)
=============================================================================
