---------------------------- MODULE DenseEntries -----------------------------
(***************************************************************************)
(* What a matrix of blocks promises: it calculates like any other matrix,  *)
(* and its entries outside of the blocks stay zero. Modifying one of those *)
(* is an error unless the value counts as zero; then it may be that another*)
(* entry is off by that value.                                             *)
(***************************************************************************)
EXTENDS Integers

CONSTANTS
  num_rows, num_cols,
  Pattern,     \* the entries in blocks
  Values,      \* of single entries and scalars
  BlockTolerance,   \* up to which a value counts as zero
  Summands, Factors, Assigned   \* the other matrices

VARIABLES
  entries,
  call         \* the last call: an operation and its arguments

Rows == 0 .. num_rows - 1
Cols == 0 .. num_cols - 1

\* v[0] + ... + v[n - 1], added up from the first on.
Sum(n, v) == LET sum[k \in 0 .. n] == IF k = 0 THEN 0 ELSE sum[k - 1] + v[k - 1] IN sum[n]

\* A matrix with f(r, c) where the pattern allows.
Matrix(f(_, _)) == [at \in Rows \X Cols |-> IF at \in Pattern THEN f(at[1], at[2]) ELSE 0]

EntriesInit == call = <<"construct">> /\ \A at \in Rows \X Cols : entries[at] = 0

Zero(v) == -BlockTolerance <= v /\ v <= BlockTolerance

SetEntry == \E at \in Rows \X Cols, v \in Values :
  /\ call' = <<"set_entry", at[1], at[2], v>>
  /\ entries' = IF at \in Pattern THEN [entries EXCEPT ![at] = v] ELSE entries

AddToEntry == \E at \in Rows \X Cols, v \in Values :
  /\ call' = <<"add_to_entry", at[1], at[2], v>>
  /\ \/ at \in Pattern /\ entries' = [entries EXCEPT ![at] = @ + v]
     \/ at \notin Pattern /\ UNCHANGED entries
     \/ at \notin Pattern /\ Zero(v) /\ \E other \in Pattern : entries' = [entries EXCEPT ![other] = @ + v]

Assign == \E m \in Assigned :
  call' = <<"assign", m>> /\ entries' = Matrix(LAMBDA r, c : m[<<r, c>>])

Add == \E m \in Summands, sign \in {1, -1} :
  /\ call' = <<"add", m, sign>>
  /\ entries' = [at \in Rows \X Cols |-> entries[at] + sign * m[at]]

Scale == \E v \in Values :
  call' = <<"scale", v>> /\ entries' = [at \in Rows \X Cols |-> v * entries[at]]

Multiply == \E m \in Factors :
  /\ call' = <<"rightmultiply", m>>
  /\ entries' = [at \in Rows \X Cols |->
      Sum(num_cols, [k \in Cols |-> entries[<<at[1], k>>] * m[<<k, at[2]>>]])]

\* It is constructed once.
EntriesNext ==
  /\ call'[1] # "construct"
  /\ SetEntry \/ AddToEntry \/ Assign \/ Add \/ Scale \/ Multiply

EntriesSpec == EntriesInit /\ [][EntriesNext]_<<entries, call>>
==============================================================================
