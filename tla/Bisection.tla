------------------------------ MODULE Bisection ------------------------------
(***************************************************************************)
(* find_largest_by_bisection(). Numbers are the grid of those a double can *)
(* hold, numbered from left to right; the middle of two neighbours is one  *)
(* of them, the rounding does not say which. The condition is a function.  *)
(***************************************************************************)
EXTENDS Integers, FiniteSets

CONSTANTS
  Points,    \* the numbers there are
  Searches   \* what find_largest_by_bisection() may be called with

ASSUME SearchesAssumption ==
  /\ Points \subseteq Int
  /\ \A x, y \in Points : x .. y \subseteq Points
  /\ Searches \subseteq [left : Points, right : Points, condition : [Points -> BOOLEAN],
                          rel_error : Nat, abs_error : Nat]

VARIABLES
  search,          \* the arguments
  ll, rr,
  bisection        \* "start", "running", "found" or "bisection_error"

bisectionVars == <<search, ll, rr, bisection>>

Absolute(x) == IF x < 0 THEN -x ELSE x

\* Mutant: numbers as far apart as the tolerances allow are not close yet.
ApartInclusive == rr > ll /\ Absolute(rr - ll) >= search.abs_error + Absolute(ll) * search.rel_error

\* FloatCmp::gt(rr, ll, rel_error, abs_error)
Apart == rr > ll /\ Absolute(rr - ll) > search.abs_error + Absolute(ll) * search.rel_error

-----------------------------------------------------------------------------
BisectionInit ==
  /\ search \in Searches
  /\ ll = search.left /\ rr = search.right
  /\ bisection = "start"

\* Sorts the bounds and tries them.
Bounds ==
  LET lower == IF search.left < search.right THEN search.left ELSE search.right
      upper == IF search.left < search.right THEN search.right ELSE search.left
  IN  /\ bisection = "start"
      /\ rr' = upper
      /\ IF search.condition[upper] THEN ll' = upper /\ bisection' = "found"
         ELSE /\ ll' = lower
              /\ bisection' = IF search.condition[lower] THEN "running" ELSE "bisection_error"
      /\ UNCHANGED search

\* Mutant: the half that is left is the other one.
HalveWrongly ==
  /\ bisection = "running" /\ Apart
  /\ \E middle \in ll .. rr :
       /\ 2 * middle - (ll + rr) \in -1 .. 1
       /\ IF search.condition[middle] THEN rr' = middle /\ UNCHANGED ll
          ELSE ll' = middle /\ UNCHANGED rr
  /\ UNCHANGED <<search, bisection>>

\* One turn of the loop.
Halve ==
  /\ bisection = "running" /\ Apart
  /\ \E middle \in ll .. rr :
       /\ 2 * middle - (ll + rr) \in -1 .. 1
       /\ IF search.condition[middle] THEN ll' = middle /\ UNCHANGED rr
          ELSE rr' = middle /\ UNCHANGED ll
  /\ UNCHANGED <<search, bisection>>

\* The bounds are equal up to the tolerances.
Close ==
  /\ bisection = "running" /\ ~Apart
  /\ bisection' = "found"
  /\ UNCHANGED <<search, ll, rr>>

BisectionNext == Bounds \/ Halve \/ Close

BisectionSpec == BisectionInit /\ [][BisectionNext]_bisectionVars

-----------------------------------------------------------------------------
\* The doc's presumption: once the condition fails it fails further to the right.
Presumed == \A x, y \in search.left .. search.right \cup search.right .. search.left :
  x < y /\ search.condition[y] => search.condition[x]

\* Whatever the condition is, the number returned fulfils it, and it is the
\* upper bound or one within the tolerances of it does not.
FoundIsBoundary ==
  bisection = "found" =>
    /\ search.condition[ll]
    /\ ll # rr => ~search.condition[rr] /\ rr - ll <= search.abs_error + Absolute(ll) * search.rel_error

\* With the doc's presumption nothing beyond the tolerances fulfils the condition.
FoundIsLargest ==
  bisection = "found" /\ Presumed =>
    \A y \in search.left .. search.right \cup search.right .. search.left :
      search.condition[y] => y <= ll + search.abs_error + Absolute(ll) * search.rel_error

\* Tolerances that two neighbours are within let the search end. Below that the
\* middle of two neighbours may be the one it was before, for ever.
SearchEnds == (bisection = "start" /\ search.abs_error >= 1) ~> (bisection \in {"found", "bisection_error"})

\* What is found is a boundary of the condition, and the largest number that
\* fulfils it where the doc's presumption holds.
FoundIsRight == FoundIsBoundary /\ FoundIsLargest
==============================================================================
