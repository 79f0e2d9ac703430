----------------------------- MODULE Arithmetic -----------------------------
(***************************************************************************)
(* The functions of math.hh that decide, for signed integers, and its      *)
(* accumulator MinMaxAvg; and where indices come from: value_range         *)
(* (ranges.hh), the subscripts of WraparoundArray (misc.hh), the lists of  *)
(* indices and types that tuple.hh makes. Nothing overflows here.          *)
(***************************************************************************)
EXTENDS Integers, Sequences, SequencesExt, FiniteSetsExt

Abs(x) == IF x < 0 THEN -x ELSE x

\* The lower bound is looked at first.
Clamp(var, min, max) == IF var < min THEN min ELSE IF var > max THEN max ELSE var

Signum(val) == CASE val > 0 -> 1 [] val = 0 -> 0 [] val < 0 -> -1

\* Zero has the sign of the positive numbers.
SameSign(left, right) == (left < 0) = (right < 0)

\* Bug: the product of the numbers decides whether their signs differ.
MaxmodByProduct(left, right) ==
  IF left * right <= 0 THEN 0 ELSE IF Abs(left) > Abs(right) THEN left ELSE right
Minmod(left, right) ==
  IF ~SameSign(left, right) THEN 0 ELSE IF Abs(left) < Abs(right) THEN left ELSE right
Maxmod(left, right) ==
  IF ~SameSign(left, right) THEN 0 ELSE IF Abs(left) > Abs(right) THEN left ELSE right

\* MinMaxAvg takes one element after the other; integers are averaged as floating
\* point numbers, which are truncated towards zero.
Taken(acc, el) ==
  IF acc.count = 0 THEN [count |-> 1, sum |-> el, min |-> el, max |-> el]
  ELSE [count |-> acc.count + 1, sum |-> acc.sum + el,
        min |-> Min({acc.min, el}), max |-> Max({acc.max, el})]
MinMaxAvg(elements) ==
  LET acc[n \in 0..Len(elements)] ==
        IF n = 0 THEN [count |-> 0, sum |-> 0, min |-> 0, max |-> 0] ELSE Taken(acc[n - 1], elements[n])
  IN  acc[Len(elements)]
Average(acc) == Signum(acc.sum) * (Abs(acc.sum) \div acc.count)

-----------------------------------------------------------------------------
(* Indices. *)
Distance(a, b) == IF a > b THEN a - b ELSE b - a

\* Bug: the end is taken with it.
RangeClosed(start, end, increment) ==
  LET size == Distance(start, end) \div Distance(increment, 0) + 1
  IN  [i \in 1..size |-> start + increment * (i - 1)]
\* The number of values is the truncated quotient, whatever the direction.
ValueRange(start, end, increment) ==
  LET size == Distance(start, end) \div Distance(increment, 0)
  IN  [i \in 1..size |-> start + increment * (i - 1)]

\* operator[](int) of an array of n elements; the index i * -1 does not overflow
\* here.  A positive int is taken as it is.
IntIndex(n, i) == IF i < 0 THEN n - ((-i % n) + 1) ELSE i

\* index_sequence<0, ..., n - 1> is made of two halves.
Concat(left, right) == left \o [i \in DOMAIN right |-> Len(left) + right[i]]
IndexSequence(n) ==
  LET seq[k \in 0..n] == IF k = 0 THEN <<>> ELSE IF k = 1 THEN <<0>>
                         ELSE Concat(seq[k \div 2], seq[k - k \div 2])
  IN  seq[n]

\* TUPLE_TYPEDEFS_2_TUPLE: nine elements, of which those that are missing are the
\* first once more, are cut to the size if there is a RightTrimTuple for it.
TypedefsTuple(types) ==
  LET nine == [no \in 1..9 |-> types[IF Len(types) >= no THEN no ELSE 1]]
  IN  IF Len(types) \in 1..9 THEN SubSeq(nine, 1, Len(types)) ELSE nine

\* TupleProduct::Combine runs a test on one pair of types after the other.
GenerateFrom(us, vs, u, v) ==
  LET from[at \in (DOMAIN us) \X (DOMAIN vs)] ==
        <<<<us[at[1]], vs[at[2]]>>>> \o
          (IF at[2] + 1 <= Len(vs) THEN from[<<at[1], at[2] + 1>>]
           ELSE IF at[1] + 1 <= Len(us) THEN from[<<at[1] + 1, 1>>] ELSE <<>>)
  IN  from[<<u, v>>]

-----------------------------------------------------------------------------
\* clamp() gives what is next to var of all numbers between the bounds, and with
\* the bounds exchanged one of them.  minmod and maxmod choose between numbers of
\* one sign, whichever comes first, the smaller and the larger; the mirrored
\* numbers are chosen from alike unless one is zero, which counts as positive.
ChoicesOrdered(x, y, z) ==
  LET clamped == Clamp(x, y, z)
  IN  /\ IF y <= z THEN clamped \in y..z /\ \A w \in y..z : Abs(clamped - x) <= Abs(w - x)
         ELSE clamped \in {y, z}
      /\ Minmod(x, y) = Minmod(y, x) /\ Maxmod(x, y) = Maxmod(y, x)
      /\ SameSign(x, y) => /\ {Minmod(x, y), Maxmod(x, y)} = {x, y}
                           /\ Abs(Minmod(x, y)) <= Abs(Maxmod(x, y))
      /\ (x # 0 /\ y # 0) => Maxmod(-x, -y) = -Maxmod(x, y)
      /\ (x = 0 /\ y > 0) => Maxmod(x, y) = y /\ Maxmod(-x, -y) = 0
      /\ Minmod(-x, -y) = -Minmod(x, y)

\* The average is between the least and the greatest element, which it is exactly
\* if they are equal, and no order of the elements changes anything.
AveragesInside(elements) ==
  elements # <<>> =>
    LET acc == MinMaxAvg(elements)
    IN  /\ acc.min <= Average(acc) /\ Average(acc) <= acc.max
        /\ acc.min = acc.max => Average(acc) = acc.min
        /\ Abs(acc.sum) - Abs(Average(acc)) * acc.count \in 0..acc.count - 1
        /\ MinMaxAvg(Reverse(elements)) = acc
        /\ MinMaxAvg(Tail(elements) \o <<Head(elements)>>) = acc

\* If the increment leads from start to end, the values are some of those of
\* [start : increment : end), in order from the start, and none is left out that has
\* a whole increment after it before the end. (ranges.hh:28 promises a last
\* one with less after it too, which the code does not make.)
RangeIsHalfOpen(start, end, increment) ==
  LET up == increment > 0
      values == ValueRange(start, end, increment)
      inside == {start + increment * k : k \in 0..Distance(start, end)}
                  \cap (IF up THEN start..end - 1 ELSE end + 1..start)
  IN  (up = (start <= end)) =>
        /\ \A i \in DOMAIN values : values[i] = start + (i - 1) * increment
        /\ Range(values) \subseteq inside
        /\ {x \in inside : Distance(x, end) >= Distance(increment, 0)} \subseteq Range(values)

\* The indices below n come in order, up to nine types are kept as they are and of
\* more the first nine, and tests are run on each pair of two lists once.
ListsComplete(n, us, vs) ==
  /\ IndexSequence(n) = [i \in 1..n |-> i - 1]
  /\ n > 0 => TypedefsTuple([i \in 1..n |-> i]) = [i \in 1..(IF n < 9 THEN n ELSE 9) |-> i]
  /\ LET pairs == GenerateFrom(us, vs, 1, 1)
     IN  /\ Len(pairs) = Len(us) * Len(vs)
         /\ \A u \in DOMAIN us, v \in DOMAIN vs : pairs[(u - 1) * Len(vs) + v] = <<us[u], vs[v]>>

\* What misc.hh:62-64 says of the subscripts of an array of N = n elements: they
\* wrap around, N is 0 again and -1 is N - 1.
SubscriptsWrapAround(n, i) == IntIndex(n, i) = i % n
=============================================================================
