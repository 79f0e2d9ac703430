---------------------------- MODULE BlockedMatrix ----------------------------
(***************************************************************************)
(* BlockedFieldMatrix and BlockedFieldVector: the blocks on the diagonal   *)
(* are all there is of the matrix. Indices start at 0. A value that counts *)
(* as zero for FloatCmp is one of at most BlockTolerance.                  *)
(***************************************************************************)
EXTENDS Integers

CONSTANTS
  num_blocks, block_rows, block_cols,
  EntryValues,   \* values of single entries, and scalars
  BlockTolerance,
  MaxEntry       \* bound: the largest absolute value of an entry

ASSUME BlockedMatrixAssumption ==
  /\ num_blocks \in Nat \ {0} /\ block_rows \in Nat \ {0} /\ block_cols \in Nat \ {0}
  /\ EntryValues \subseteq Int /\ BlockTolerance \in Nat /\ MaxEntry \in Nat

VARIABLES
  backend_,  \* the entries of the blocks
  call_      \* the last call, with other matrices as get_entry() shows them

blockedVars == <<backend_, call_>>

num_rows == num_blocks * block_rows
num_cols == num_blocks * block_cols
Upto(n) == 0 .. n - 1

\* BlockedFieldMatrix<K, num_blocks, rows, cols>
Blocks(rows, cols, V) == [Upto(num_blocks) -> [Upto(rows) -> [Upto(cols) -> V]]]

\* A matrix of blocks whose entries are f(jj, ll, mm).
Blockwise(rows, cols, f(_, _, _)) ==
  [jj \in Upto(num_blocks) |-> [ll \in Upto(rows) |-> [mm \in Upto(cols) |-> f(jj, ll, mm)]]]

Bounded(B) == \A jj \in DOMAIN B : \A ll \in DOMAIN B[jj] : \A mm \in DOMAIN B[jj][ll] :
  B[jj][ll][mm] \in -MaxEntry .. MaxEntry

in_pattern(ii, jj) == ii \div block_rows = jj \div block_cols

\* FloatCmp::ne(val, 0)
NonZero(val) == val < -BlockTolerance \/ val > BlockTolerance

get_entry(B, ii, jj) ==
  IF in_pattern(ii, jj) THEN B[ii \div block_rows][ii % block_rows][jj % block_cols] ELSE 0

\* The dense matrix that get_entry() shows.
Shown(B) == [at \in Upto(num_rows) \X Upto(num_cols) |-> get_entry(B, at[1], at[2])]

Square(F) == [at \in Upto(num_cols) \X Upto(num_cols) |->
  IF at[1] \div block_cols = at[2] \div block_cols
  THEN F[at[1] \div block_cols][at[1] % block_cols][at[2] % block_cols] ELSE 0]

\* The other matrices: blocks with entries from a set, and all of one value.
OtherBlocks(rows, cols) == {[jj \in Upto(num_blocks) |-> block] : block \in [Upto(rows) -> [Upto(cols) -> {0, 1}]]}
DenseOthers == {[at \in Upto(num_rows) \X Upto(num_cols) |-> IF at[1] = r THEN 1 ELSE at[2]] : r \in Upto(num_rows)}

\* What it promises.
Dense == INSTANCE DenseEntries WITH
  Pattern <- {at \in Upto(num_rows) \X Upto(num_cols) : in_pattern(at[1], at[2])},
  Values <- EntryValues,
  Summands <- {Shown(other) : other \in OtherBlocks(block_rows, block_cols)},
  Factors <- {Square(other) : other \in OtherBlocks(block_cols, block_cols)},
  Assigned <- DenseOthers,
  entries <- Shown(backend_), call <- call_

\* operator= from, and convert_to_dynamic_matrix() to, a dense matrix.
FromDense(m) == Blockwise(block_rows, block_cols,
  LAMBDA jj, ll, mm : m[<<jj * block_rows + ll, jj * block_cols + mm>>])

convert_to_dynamic_matrix(B) == [at \in Upto(num_rows) \X Upto(num_cols) |->
  IF at[1] \div block_rows = at[2] \div block_cols
  THEN B[at[2] \div block_cols][at[1] % block_rows][at[2] % block_cols] ELSE 0]

mv(B, x) == [ii \in Upto(num_rows) |->
  Dense!Sum(block_cols, [mm \in Upto(block_cols) |->
    B[ii \div block_rows][ii % block_rows][mm] * x[block_cols * (ii \div block_rows) + mm]])]

\* Mutant: the offset of the columns is that of the rows.
MtvRowOffset(B, x) == [ii \in Upto(num_cols) |->
  Dense!Sum(block_rows, [ll \in Upto(block_rows) |->
    B[ii \div block_cols][ll][ii % block_cols] * x[(block_cols * (ii \div block_cols) + ll) % num_rows]])]

mtv(B, x) == [ii \in Upto(num_cols) |->
  Dense!Sum(block_rows, [ll \in Upto(block_rows) |->
    B[ii \div block_cols][ll][ii % block_cols] * x[block_rows * (ii \div block_cols) + ll]])]

\* block(jj).transpose() for each block
transpose(B) == Blockwise(block_cols, block_rows, LAMBDA jj, ll, mm : B[jj][mm][ll])

\* BlockedFieldVector: operator[] and the conversion from blocks and to them.
AsBlocks(x, size) == [jj \in Upto(num_blocks) |-> [ii \in Upto(size) |-> x[jj * size + ii]]]
Entry(v, size, ii) == v[ii \div size][ii % size]

\* mv() of blocked vectors: each block by itself.
BlockMv(B, v) == [jj \in Upto(num_blocks) |-> [ll \in Upto(block_rows) |->
  Dense!Sum(block_cols, [mm \in Upto(block_cols) |-> B[jj][ll][mm] * v[jj][mm]])]]

-----------------------------------------------------------------------------
BlockedInit == call_ = <<"construct">> /\ backend_ = Blockwise(block_rows, block_cols, LAMBDA jj, ll, mm : 0)

\* A value for an entry outside of the pattern is an error unless it is zero,
\* which changes nothing.
set_entry(ii, jj, val) ==
  IF in_pattern(ii, jj)
  THEN backend_' = [backend_ EXCEPT ![ii \div block_rows][ii % block_rows][jj % block_cols] = val]
  ELSE UNCHANGED backend_

\* Mutant: no entry outside of the pattern is an error.
AddAnywhere(ii, jj, val) ==
  backend_' = [backend_ EXCEPT ![ii \div block_rows][ii % block_rows][jj % block_cols] = @ + val]

\* As set_entry(), but there is no return for a zero outside of the pattern: it is
\* added to the entry of the block of that row.
add_to_entry(ii, jj, val) ==
  IF in_pattern(ii, jj) \/ ~NonZero(val)
  THEN backend_' = [backend_ EXCEPT ![ii \div block_rows][ii % block_rows][jj % block_cols] = @ + val]
  ELSE UNCHANGED backend_

Plus(other, sign) ==
  backend_' = Blockwise(block_rows, block_cols, LAMBDA jj, ll, mm : backend_[jj][ll][mm] + sign * other[jj][ll][mm])

Times(val) == backend_' = Blockwise(block_rows, block_cols, LAMBDA jj, ll, mm : val * backend_[jj][ll][mm])

\* other has square blocks of block_cols columns.
rightmultiply(other) ==
  backend_' = Blockwise(block_rows, block_cols, LAMBDA jj, ll, mm :
    Dense!Sum(block_cols, [kk \in Upto(block_cols) |-> backend_[jj][ll][kk] * other[jj][kk][mm]]))

AssignDense(m) == backend_' = FromDense(m)

BlockedNext ==
  /\ \/ \E ii \in Upto(num_rows), jj \in Upto(num_cols), val \in EntryValues :
          set_entry(ii, jj, val) /\ call_' = <<"set_entry", ii, jj, val>>
     \/ \E ii \in Upto(num_rows), jj \in Upto(num_cols), val \in EntryValues :
          add_to_entry(ii, jj, val) /\ call_' = <<"add_to_entry", ii, jj, val>>
     \/ \E other \in OtherBlocks(block_rows, block_cols), sign \in {1, -1} :
          Plus(other, sign) /\ call_' = <<"add", Shown(other), sign>>
     \/ \E val \in EntryValues : Times(val) /\ call_' = <<"scale", val>>
     \/ \E other \in OtherBlocks(block_cols, block_cols) :
          rightmultiply(other) /\ call_' = <<"rightmultiply", Square(other)>>
     \/ \E m \in DenseOthers : AssignDense(m) /\ call_' = <<"assign", m>>
  /\ Bounded(backend_')

BlockedSpec == BlockedInit /\ [][BlockedNext]_blockedVars

-----------------------------------------------------------------------------
\* mv(), mtv() and transpose() agree with the matrix that get_entry() shows, and
\* so do convert_to_dynamic_matrix() and the way back, and vectors of blocks.
BlocksMultiply ==
  LET m == Shown(backend_)
      x == [ii \in Upto(num_cols) |-> ii + 1]
      y == [ii \in Upto(num_rows) |-> ii + 1]
  IN  /\ convert_to_dynamic_matrix(backend_) = m /\ FromDense(m) = backend_
      /\ mv(backend_, x) = [ii \in Upto(num_rows) |->
           Dense!Sum(num_cols, [jj \in Upto(num_cols) |-> m[<<ii, jj>>] * x[jj]])]
      /\ mtv(backend_, y) = [jj \in Upto(num_cols) |->
           Dense!Sum(num_rows, [ii \in Upto(num_rows) |-> m[<<ii, jj>>] * y[ii]])]
      /\ \A ii \in Upto(num_rows) :
           Entry(BlockMv(backend_, AsBlocks(x, block_cols)), block_rows, ii) = mv(backend_, x)[ii]
      /\ \A jj \in Upto(num_blocks), ll \in Upto(block_rows), mm \in Upto(block_cols) :
           transpose(backend_)[jj][mm][ll] = m[<<jj * block_rows + ll, jj * block_cols + mm>>]

\* Whatever is called in whichever order, the matrix that get_entry() shows
\* changes like one without blocks, but for what add_to_entry() adds to the wrong
\* entry when it should have added a zero outside of the blocks; and it multiplies
\* like it.
BlocksAreDense == Dense!EntriesSpec /\ []BlocksMultiply
==============================================================================
