----------------------------- MODULE DenseSolve ------------------------------
(***************************************************************************)
(* luDecomposition(), invert(), determinant() and solve() of FieldMatrix,  *)
(* exactly: the entries are residues modulo a prime, and the order of the  *)
(* residues stands for that of absreal(). A matrix is singular where a     *)
(* pivot is zero; thresholds and rounding are left out. One step is one    *)
(* turn of an outer loop.                                                  *)
(***************************************************************************)
EXTENDS Integers, SequencesExt, FiniteSetsExt

CONSTANTS
  Prime,
  Systems   \* square matrices with a right hand side

ASSUME DenseSolveAssumption == Prime \in Nat /\ Prime > 1

VARIABLES
  system,   \* the matrix and the right hand side
  task,     \* "invert", "determinant" or "solve"
  loop,     \* the loop that is running, "done", or "singular" for FMatrixError
  turn,     \* its index
  lu,       \* the copy that luDecomposition() works on
  functor,  \* what its functor keeps: pivots of ElimPivot, right hand side of
            \* Elim, sign of ElimDet
  result    \* the inverse, the solution as its only row, or the determinant

solveVars == <<system, task, loop, turn, lu, functor, result>>

Residue(x) == x % Prime
Quotient(x, y) == Residue(x * CHOOSE z \in 1 .. Prime - 1 : Residue(y * z) = 1)
SumOver(S, f(_)) == MapThenSumSet(f, S)

ROWS == Len(system.A)
Unit == [r \in 1 .. ROWS |-> [c \in 1 .. ROWS |-> IF r = c THEN 1 ELSE 0]]

-----------------------------------------------------------------------------
\* The formulas for up to three rows.
SmallDeterminant(M) ==
  CASE Len(M) = 1 -> M[1][1]
    [] Len(M) = 2 -> M[1][1] * M[2][2] - M[1][2] * M[2][1]
    [] Len(M) = 3 ->
         LET t4 == M[1][1] * M[2][2]   t6 == M[1][1] * M[2][3]   t8 == M[1][2] * M[2][1]
             t10 == M[1][3] * M[2][1]  t12 == M[1][2] * M[3][1]  t14 == M[1][3] * M[3][1]
         IN  t4 * M[3][3] - t6 * M[3][2] - t8 * M[3][3] + t10 * M[3][2] + t12 * M[2][3] - t14 * M[2][2]

SmallSolution(M, b) ==
  LET x1 == b[1] * M[2][2] * M[3][3] - b[1] * M[3][2] * M[2][3] - b[2] * M[1][2] * M[3][3]
            + b[2] * M[3][2] * M[1][3] + b[3] * M[1][2] * M[2][3] - b[3] * M[2][2] * M[1][3]
      x2 == M[1][1] * b[2] * M[3][3] - M[1][1] * b[3] * M[2][3] - M[2][1] * b[1] * M[3][3]
            + M[2][1] * b[3] * M[1][3] + M[3][1] * b[1] * M[2][3] - M[3][1] * b[2] * M[1][3]
      x3 == M[1][1] * M[2][2] * b[3] - M[1][1] * M[3][2] * b[2] - M[2][1] * M[1][2] * b[3]
            + M[2][1] * M[3][2] * b[1] + M[3][1] * M[1][2] * b[2] - M[3][1] * M[2][2] * b[1]
  IN  CASE Len(M) = 1 -> <<b[1]>>
        [] Len(M) = 2 -> <<M[2][2] * b[1] - M[1][2] * b[2], M[1][1] * b[2] - M[2][1] * b[1]>>
        [] Len(M) = 3 -> <<x1, x2, x3>>

\* The first row with the largest entry of column turn, from the diagonal on.
Pivot == CHOOSE k \in turn .. ROWS :
  \A m \in turn .. ROWS : lu[m][turn] <= lu[k][turn] /\ (lu[m][turn] = lu[k][turn] => k <= m)

Swapped(s, j, k) == [s EXCEPT ![j] = s[k], ![k] = s[j]]

\* Mutants: the right hand side stays, or the sign does.
SwapKeepsRhs(f, k) == [f EXCEPT !.pivot[turn] = k, !.sign = -@]
SwapKeepsSign(f, k) == [f EXCEPT !.pivot[turn] = k, !.rhs = Swapped(f.rhs, turn, k)]

\* swap() of the three functors
Swap(f, k) == [f EXCEPT !.pivot[turn] = k, !.rhs = Swapped(f.rhs, turn, k), !.sign = -@]

-----------------------------------------------------------------------------
SolveInit ==
  /\ system \in Systems
  /\ task \in {"invert", "determinant", "solve"}
  /\ loop = "start" /\ turn = 1
  /\ lu = system.A
  /\ functor = [pivot |-> [r \in 1 .. ROWS |-> r], rhs |-> system.b, sign |-> 1]
  /\ result = <<>>

\* Up to three rows. A singular matrix is divided by its determinant, 0; invert()
\* of the base is not part of this project.
Explicit ==
  LET d == Residue(SmallDeterminant(system.A))
      numerators == SmallSolution(system.A, system.b)
  IN  /\ loop = "start" /\ ROWS <= 3 /\ task # "invert"
      /\ task = "solve" => d # 0
      /\ result' = <<IF task = "determinant" THEN <<d>>
                     ELSE [r \in 1 .. ROWS |-> Quotient(numerators[r], d)]>>
      /\ loop' = "done"
      /\ UNCHANGED <<system, task, turn, lu, functor>>

Enter ==
  /\ loop = "start" /\ ROWS > 3
  /\ loop' = "decompose"
  /\ UNCHANGED <<system, task, turn, lu, functor, result>>

\* Swaps the rows and calls func.swap() if the pivot is another row, then takes
\* multiples of row turn off the rows below, and keeps the factors in column i.
Decompose ==
  LET B == Swapped(lu, turn, Pivot)
      f == IF Pivot = turn THEN functor ELSE Swap(functor, Pivot)
      Factor(k) == IF k > turn THEN Quotient(B[k][turn], B[turn][turn]) ELSE 0
      Row(k, factor) == [j \in 1 .. ROWS |->
        IF k <= turn \/ j < turn THEN B[k][j] ELSE IF j = turn THEN factor ELSE Residue(B[k][j] - factor * B[turn][j])]
  IN  /\ loop = "decompose" /\ turn <= ROWS
      /\ IF B[turn][turn] = 0 THEN loop' = "singular" /\ lu' = B /\ functor' = f /\ UNCHANGED turn
         ELSE /\ lu' = [k \in 1 .. ROWS |-> Row(k, Factor(k))]
              /\ functor' = [f EXCEPT !.rhs = [k \in 1 .. ROWS |-> Residue(f.rhs[k] - Factor(k) * f.rhs[turn])]]
              /\ turn' = turn + 1 /\ UNCHANGED loop
      /\ UNCHANGED <<system, task, result>>

\* What comes after the decomposition.
Decomposed ==
  /\ loop = "decompose" /\ turn > ROWS
  /\ CASE task = "invert" -> loop' = "forward" /\ turn' = 1 /\ result' = Unit
       [] task = "solve" -> loop' = "backward" /\ turn' = ROWS /\ result' = [r \in 1 .. ROWS |-> <<functor.rhs[r]>>]
       [] task = "determinant" ->
            /\ loop' = "done" /\ UNCHANGED turn
            /\ result' = <<<<FoldLeft(LAMBDA det, r : Residue(det * lu[r][r]), functor.sign, [r \in 1 .. ROWS |-> r])>>>>
  /\ UNCHANGED <<system, task, lu, functor>>

\* determinant() catches FMatrixError.
CatchSingular ==
  /\ loop = "singular" /\ task = "determinant"
  /\ loop' = "done" /\ result' = <<<<0>>>>
  /\ UNCHANGED <<system, task, turn, lu, functor>>

\* L Y = I
Forward ==
  /\ loop = "forward"
  /\ result' = [result EXCEPT ![turn] = [k \in 1 .. ROWS |->
                 Residue(result[turn][k] - SumOver(1 .. turn - 1, LAMBDA j : lu[turn][j] * result[j][k]))]]
  /\ IF turn < ROWS THEN turn' = turn + 1 /\ UNCHANGED loop ELSE loop' = "backward" /\ UNCHANGED turn
  /\ UNCHANGED <<system, task, lu, functor>>

\* U X = Y, and the back substitution of solve(), from the last row on.
Backward ==
  /\ loop = "backward"
  /\ result' = [result EXCEPT ![turn] = [k \in DOMAIN result[turn] |->
                 Quotient(result[turn][k] - SumOver(turn + 1 .. ROWS, LAMBDA j : lu[turn][j] * result[j][k]), lu[turn][turn])]]
  /\ IF turn > 1 THEN turn' = turn - 1 /\ UNCHANGED loop
     ELSE IF task = "solve" THEN loop' = "done" /\ UNCHANGED turn
     ELSE loop' = "columns" /\ turn' = ROWS
  /\ UNCHANGED <<system, task, lu, functor>>

\* Mutant: from the first row to the last.
ColumnsForwards ==
  /\ loop = "columns"
  /\ LET r == ROWS + 1 - turn
     IN  result' = [k \in 1 .. ROWS |-> Swapped(result[k], r, functor.pivot[r])]
  /\ IF turn > 1 THEN turn' = turn - 1 /\ UNCHANGED loop ELSE loop' = "done" /\ UNCHANGED turn
  /\ UNCHANGED <<system, task, lu, functor>>

\* The columns of the inverse change places as the rows did, last swap first.
ColumnsBack ==
  /\ loop = "columns"
  /\ result' = [k \in 1 .. ROWS |-> Swapped(result[k], turn, functor.pivot[turn])]
  /\ IF turn > 1 THEN turn' = turn - 1 /\ UNCHANGED loop ELSE loop' = "done" /\ UNCHANGED turn
  /\ UNCHANGED <<system, task, lu, functor>>

SolveNext ==
  Explicit \/ Enter \/ Decompose \/ Decomposed \/ CatchSingular \/ Forward \/ Backward \/ ColumnsBack

-----------------------------------------------------------------------------
\* Reference: the determinant by its first row.
RECURSIVE Laplace(_)
Laplace(M) ==
  IF Len(M) = 1 THEN M[1][1]
  ELSE LET Minor(j) == [r \in 1 .. Len(M) - 1 |-> RemoveAt(M[r + 1], j)]
       IN  Residue(SumOver(1 .. Len(M), LAMBDA j :
             (IF j % 2 = 1 THEN 1 ELSE -1) * M[1][j] * Laplace(Minor(j))))

Multiplied(L, R) == [r \in 1 .. Len(L) |-> [k \in DOMAIN R[1] |->
                 Residue(SumOver(1 .. Len(R), LAMBDA j : L[r][j] * R[j][k]))]]

\* However rows were swapped, the diagonal of U and the sign give the determinant,
\* as the formulas of the small matrices do, and a matrix counts as singular just
\* if it is.
DeterminantIsRight ==
  /\ loop = "done" /\ task = "determinant" => result = <<<<Laplace(system.A)>>>>
  /\ loop = "singular" => Laplace(system.A) = 0

\* What invert() returns inverts from both sides although it swapped rows.
InverseInverts ==
  loop = "done" /\ task = "invert" => Multiplied(system.A, result) = Unit /\ Multiplied(result, system.A) = Unit

\* What solve() returns solves the system, whose right hand side was swapped and
\* eliminated along.
SolutionSolves ==
  loop = "done" /\ task = "solve" =>
    LET x == IF ROWS <= 3 THEN result[1] ELSE [r \in 1 .. ROWS |-> result[r][1]]
    IN  \A r \in 1 .. ROWS : Residue(SumOver(1 .. ROWS, LAMBDA j : system.A[r][j] * x[j])) = system.b[r]

\* Determinant, inverse and solution of every matrix are right, whatever rows the
\* decomposition swaps (fmatrix.hh:234).
SolveInv == DeterminantIsRight /\ InverseInverts /\ SolutionSolves
==============================================================================
