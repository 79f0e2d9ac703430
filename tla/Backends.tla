------------------------------ MODULE Backends ------------------------------
(***************************************************************************)
(* The linear algebra libraries behind lapacke.cc, cblas.cc and mkl.cc. A  *)
(* build is the set of libraries it was configured with, of "MKL" and      *)
(* "LAPACKE". A wrapper hands its arguments in their order to the routine  *)
(* of its own name, or throws if the build has no library for it; what the *)
(* routines calculate is the libraries'. Memory is a function from the     *)
(* offsets 0, 1, ... to "finite", "nan" and "inf".                         *)
(***************************************************************************)
EXTENDS Integers, Sequences, SequencesExt

DependencyMissing == [throws |-> "dependency_missing"]
MathError == [throws |-> "MathError"]
Forwarded(routine, args) == [throws |-> "nothing", routine |-> routine, args |-> args]
Returned(value) == [throws |-> "nothing", value |-> value]

-----------------------------------------------------------------------------
\* The wrappers of lapacke.cc by what they are for, with their parameters.
LapackeAvailable(build) == build \cap {"MKL", "LAPACKE"} # {}
LapackeLayout(build, layout) ==
  IF LapackeAvailable(build) THEN Returned(layout) ELSE DependencyMissing

Dims == <<"matrix_layout", "m", "n">>
ArgA == <<"a", "lda">>
Work == <<"work", "lwork">>
EigenSides == <<"jobvl", "jobvr">>
EigenSolution == <<"wr", "wi", "vl", "ldvl", "vr", "ldvr">>
Conditions == <<"ilo", "ihi", "scale", "abnrm", "rconde", "rcondv">>

Dgeev == <<"matrix_layout">> \o EigenSides \o <<"n">> \o ArgA \o EigenSolution
Dgeevx == <<"matrix_layout", "balanc">> \o EigenSides \o <<"sense", "n">> \o ArgA
            \o EigenSolution \o Conditions
Geev == [dgeev |-> Dgeev, dgeev_work |-> Dgeev \o Work]
Geevx == [dgeevx |-> Dgeevx, dgeevx_work |-> Dgeevx \o Work \o <<"iwork">>]

Geqp3 == Dims \o ArgA \o <<"jpvt", "tau">>
Orgqr == Dims \o <<"k">> \o ArgA \o <<"tau">>
Ormqr == <<"matrix_layout", "side", "trans", "m", "n", "k">> \o ArgA \o <<"tau", "c", "ldc">>
Factorizations ==
  [dgeqp3 |-> Geqp3, dgeqp3_work |-> Geqp3 \o Work,
   dgesvd |-> <<"matrix_layout", "jobu", "jobvt", "m", "n">> \o ArgA
                \o <<"s", "u", "ldu", "vt", "ldvt", "superb">>,
   dlamch |-> <<"cmach">>,
   dorgqr |-> Orgqr, dorgqr_work |-> Orgqr \o Work,
   dormqr |-> Ormqr, dormqr_work |-> Ormqr \o Work]

Potrf == <<"matrix_layout", "uplo", "n">> \o ArgA
Definite ==
  [dpotrf |-> Potrf, dpotrf_work |-> Potrf,
   dptcon |-> <<"n", "d", "e", "anorm", "rcond">>,
   dpocon |-> Potrf \o <<"anorm", "rcond">>,
   dsygv |-> <<"matrix_layout", "itype", "jobz", "uplo", "n">> \o ArgA \o <<"b", "ldb", "w">>,
   dtrcon |-> <<"matrix_layout", "norm", "uplo", "diag", "n">> \o ArgA \o <<"rcond">>,
   dpttrf |-> <<"n", "d", "e">>,
   dpttrs |-> <<"matrix_layout", "n", "nrhs", "d", "e", "b", "ldb">>]
Complex == [zgeqp3 |-> Geqp3, zungqr |-> Orgqr, zunmqr |-> Ormqr]

Lapacke == Geev @@ Geevx @@ Factorizations @@ Definite @@ Complex
LapackeCall(build, routine, args) ==
  IF LapackeAvailable(build) THEN Forwarded(routine, args) ELSE DependencyMissing

-----------------------------------------------------------------------------
\* The wrappers of cblas.cc: old versions of the library are not trusted.
CblasAvailable(build) == "MKL" \in build
CblasConstants == {"row_major", "col_major", "left", "right", "upper", "lower",
                   "trans", "no_trans", "unit", "non_unit"}
CblasConstant(build, name) ==
  IF CblasAvailable(build) THEN Returned(name) ELSE DependencyMissing

Dgemv == <<"layout", "trans", "m", "n", "alpha">> \o ArgA \o <<"x", "incx", "beta", "y", "incy">>
Trsm == <<"layout", "side", "uplo", "transa", "diag", "m", "n", "alpha">> \o ArgA \o <<"b", "ldb">>
Trsv == <<"layout", "uplo", "transa", "diag", "n">> \o ArgA \o <<"x", "incx">>
Cblas == [dgemv |-> Dgemv, dtrsm |-> Trsm, dtrsv |-> Trsv, ztrsm |-> Trsm, ztrsv |-> Trsv]

\* A debug build looks at the first entries of what the library left in memory.
Checked(build, debug, routine, args, memory, entries) ==
  IF ~CblasAvailable(build) THEN DependencyMissing
  ELSE IF debug /\ \E ii \in 0..entries - 1 : memory[ii] # "finite" THEN MathError
  ELSE Forwarded(routine, args)

\* Bug: the number of entries is one off.
TrsvOneLess(build, debug, routine, args, memory, n) ==
  Checked(build, debug, routine, args, memory, n - 1)

\* The matrix b of m rows and n columns is solved for: m entries are looked at.
SolveMatrix(build, debug, routine, args, memory, m) ==
  Checked(build, debug, routine, args, memory, m)
\* The vector x of n entries is solved for, with a stride of incx: the first n
\* entries of the memory are looked at.
SolveVector(build, debug, routine, args, memory, n) ==
  Checked(build, debug, routine, args, memory, n)
Gemv(build, args) ==
  IF CblasAvailable(build) THEN Forwarded("dgemv", args) ELSE DependencyMissing

\* Mkl: exp() needs no library.
MklAvailable(build) == "MKL" \in build
MklExp(build, a) == Returned([ii \in DOMAIN a |-> <<"exp", a[ii]>>])

-----------------------------------------------------------------------------
CblasCall(build, debug, routine, args, memory, m, n) ==
  CASE routine = "dgemv" -> Gemv(build, args)
    [] routine \in {"dtrsm", "ztrsm"} -> SolveMatrix(build, debug, routine, args, memory, m)
    [] routine \in {"dtrsv", "ztrsv"} -> SolveVector(build, debug, routine, args, memory, n)

\* Where the entries of b and of x are.
MatrixCells(layout, m, n, ldb) ==
  {IF layout = "row_major" THEN c[1] * ldb + c[2] ELSE c[1] + c[2] * ldb :
     c \in (0..m - 1) \X (0..n - 1)}
VectorCells(n, incx) == {ii * incx : ii \in 0..n - 1}

\* "check available() first!": where available() holds no wrapper of that library
\* throws for want of it, and where it does not each does; a build with cblas.cc
\* has lapacke.cc too, and exp() is served by any.
AvailableSuffices(build, debug, memory) ==
  /\ \A routine \in DOMAIN Lapacke :
       /\ (LapackeCall(build, routine, Lapacke[routine]) # DependencyMissing)
            = LapackeAvailable(build)
       /\ \A layout \in {"row_major", "col_major"} :
            LapackeLayout(build, layout) = DependencyMissing <=> ~LapackeAvailable(build)
  /\ \A routine \in DOMAIN Cblas :
       (CblasCall(build, debug, routine, Cblas[routine], memory, 1, 1) # DependencyMissing)
         = CblasAvailable(build)
  /\ \A name \in CblasConstants :
       CblasConstant(build, name) = DependencyMissing <=> ~CblasAvailable(build)
  /\ CblasAvailable(build) => LapackeAvailable(build)
  /\ MklExp(build, memory) # DependencyMissing

\* In a debug build a solve is reported as failed if and only if it has failed, for
\* one right hand side whose entries are beside each other. With more of them, with
\* a stride, with rows that are apart and in a release build nothing is promised:
\* cblas.cc looks at other entries there, or at none.
FailuresReported(build, memory, layout, m, n, ld) ==
  CblasAvailable(build) =>
    LET failed(cells) == \E c \in cells : memory[c] # "finite"
        matrix == CblasCall(build, TRUE, "dtrsm", Trsm, memory, m, n)
        vector == CblasCall(build, TRUE, "ztrsv", Trsv, memory, m, n)
    IN  /\ (n = 1 /\ (layout = "col_major" \/ ld = 1)) =>
             (matrix = MathError) = failed(MatrixCells(layout, m, n, ld))
        /\ ld = 1 => (vector = MathError) = failed(VectorCells(n, ld))
=============================================================================
