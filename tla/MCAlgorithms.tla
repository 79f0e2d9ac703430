---------------------------- MODULE MCAlgorithms ----------------------------
(***************************************************************************)
(* The algorithms without a state for TLC: a first step picks what they    *)
(* are applied to, the subject, and the properties are about the subject.  *)
(***************************************************************************)
EXTENDS FloatComparison, StringConversion, Containers, Backends, LocalizationStudy, Arithmetic,
        ParameterValues

VARIABLE subject
None == [of |-> "nothing"]

-----------------------------------------------------------------------------
(* What is compared: numbers, complex numbers, vectors and matrices. *)
Operands(shape, values) == [shape -> values]
Shape(rows, cols, parts) == (1..rows) \X (1..cols) \X (1..parts)
Kinds == {
  Operands(Shape(1, 1, 1), -2..2),
  Operands(Shape(1, 1, 2), -1..1),
  Operands(Shape(1, 1, 1), 0..2) \cup Operands(Shape(2, 1, 1), 0..2),
  Operands(Shape(2, 1, 1), 0..1) \cup Operands(Shape(1, 2, 1), 0..1)
    \cup Operands(Shape(2, 2, 1), 0..1) }
Tolerances ==
  {Tolerance("numpy", rtol, atol) : rtol \in 0..2, atol \in 0..1}
    \cup {Tolerance(style, rtol, 0) : style \in {"absolute", "relativeWeak", "relativeStrong"},
                                      rtol \in 0..2}
PickOperands ==
  \E kind \in Kinds, tol \in Tolerances : \E x \in kind, y \in kind :
    subject' = [of |-> "operands", lhs |-> x, rhs |-> y, tol |-> tol]

PickInterval ==
  \E min \in -1..1, max \in -1..1, value \in -2..2 :
    subject' = [of |-> "interval", min |-> min, max |-> max, value |-> value]

Vectors == Operands(Shape(2, 1, 1), {0, 1, 3})
PickVectors ==
  \E a \in Vectors, b \in Vectors, c \in Vectors, atol \in 0..1 :
    subject' = [of |-> "vectors", left |-> a, middle |-> b, right |-> c,
                tol |-> Tolerance("numpy", 0, atol)]

-----------------------------------------------------------------------------
(* TextSubjects, and the complex numbers to write. *)
Words(symbols, most) == UNION {[1..n -> symbols] : n \in 0..most}
TextSubjects == {<<"[">> \o text \o <<"]">> : text \in Words({" ", ";", "1", "2"}, 5)}
           \cup Words({" ", ";", "1", "x"}, 3)
PickText ==
  \E text \in TextSubjects, size \in 0..2, cols \in 0..2, static \in {0, 2} :
    subject' = [of |-> "text", text |-> text, size |-> size, cols |-> cols, static |-> static]

Numbers == [ok : {TRUE}, negative : BOOLEAN, digits : {<<"0">>, <<"1">>, <<"2">>},
            exponent : {<<>>, <<"+", "1">>, <<"-", "1">>}]
PickComplex ==
  \E re \in Numbers, im \in Numbers : subject' = [of |-> "complex", c |-> [re |-> re, im |-> im]]

-----------------------------------------------------------------------------
(* Matrices and vectors. *)
MatricesOf(rows, cols, values) ==
  {[rows |-> rows, cols |-> cols, at |-> at] : at \in [Entries(rows, cols) -> values]}
Some == MatricesOf(2, 2, {-1, 0, 2}) \cup MatricesOf(1, 2, -1..2)
          \cup MatricesOf(2, 1, -1..2) \cup MatricesOf(2, 3, {-1, 2})
PickMatrix ==
  \E mat \in Some, range \in {0, 2, 3} :
    subject' = [of |-> "matrix", mat |-> mat, range |-> range,
                other |-> CHOOSE other \in MatricesOf(mat.cols, 2, {1, 3}) :
                            \A e \in DOMAIN other.at : other.at[e] = 1 <=> e[1] = e[2]]
PickProduct ==
  \E mat \in Some, n \in 1..3, m \in 1..3 : \E x \in [0..n - 1 -> {1, -2}] :
    subject' = [of |-> "product", mat |-> mat, x |-> x, result |-> [i \in 0..m - 1 |-> 7]]
PickPair ==
  \E u \in [0..2 -> {-1, 0, 2}], v \in [0..2 -> {-1, 0, 2}] :
    subject' = [of |-> "pair", u |-> u, v |-> v]

-----------------------------------------------------------------------------
(* Classes of matrices and vectors, lists, and libraries. *)
MatrixClasses == {DynamicMatrix, DuneFieldMatrix, FieldMatrix,
                  BlockedFieldMatrix(1, 1), BlockedFieldMatrix(1, 2)}
VectorClasses == {StdVector, DynamicVector, StdArray, DuneFieldVector, FieldVector, BlockedFieldVector}
Builds == {"debug", "release"}
PickClass ==
  \E class \in MatrixClasses, build \in Builds, rows \in 1..2, cols \in {2, 4} :
    \E source \in MatricesOf(2, 2, {0, 1}) \cup MatricesOf(1, 2, {0, 1}) \cup MatricesOf(2, 4, {0, 1}) :
      subject' = [of |-> "class", class |-> class, build |-> build, shape |-> <<rows, cols>>,
                  source |-> source]
PickVectorClass ==
  \E class \in VectorClasses, build \in Builds, size \in 1..3, range \in {0, 2}, n \in 1..3 :
    \E x \in [0..n - 1 -> {-1, 1, 2}] :
      subject' = [of |-> "vector_class", class |-> class, build |-> build, size |-> size,
                  range |-> range, x |-> x]
PickList ==
  \E build \in Builds, rows \in 1..3, cols \in 1..2, list \in Words({<<>>, <<5>>, <<5, 6>>, <<7, 5, 6>>}, 3) :
    subject' = [of |-> "list", build |-> build, rows |-> rows, cols |-> cols, list |-> list]
PickFactors ==
  \E x, y \in [0..1 -> {-1, 0, 2}], scalar \in -1..2 :
    subject' = [of |-> "factors", x |-> x, y |-> y, scalar |-> scalar]
PickComplexFactors ==
  \E a \in MatricesOf(1, 2, {0, 1} \X {-1, 2}), b \in MatricesOf(2, 1, {0, 1} \X {-1, 2}) :
    subject' = [of |-> "complex_factors", a |-> a, b |-> b]
PickBackend ==
  \E libraries \in SUBSET {"MKL", "LAPACKE"}, memory \in [0..4 -> {"finite", "nan"}],
     layout \in {"row_major", "col_major"}, m \in 1..2, n \in 1..2, ld \in 1..2 :
    /\ ld >= IF layout = "row_major" THEN n ELSE m
    /\ subject' = [of |-> "backend", libraries |-> libraries, memory |-> memory, layout |-> layout,
                   m |-> m, n |-> n, ld |-> ld]

-----------------------------------------------------------------------------
(* Columns of a study, ranges and subscripts. *)
Indicators == {{n} : n \in 0..16} \cup {{n, m} : n \in 0..16, m \in {5, 9}}
PickStudy == \E widths \in Indicators : subject' = [of |-> "study", indicators |-> widths]
PickRun ==
  \E provided \in {s \in Words(1..3, 3) : \A i, j \in DOMAIN s : s[i] = s[j] => i = j},
     only \in SUBSET (1..3), length \in [1..3 -> 1..2], reference \in 0..2 :
    subject' = [of |-> "run", provided |-> provided, only |-> only, length |-> length,
                reference |-> reference]
PickRange ==
  \E start \in -3..3, end \in -3..3, increment \in {-3, -2, -1, 1, 2, 3} :
    subject' = [of |-> "range", start |-> start, end |-> end, increment |-> increment]
PickSubscript ==
  \E n \in 1..4 : \E i \in {-1, n} : subject' = [of |-> "subscript", n |-> n, i |-> i]

PickLists ==
  \E n \in 0..12, us \in Words({"a", "b"}, 3) \ {<<>>}, vs \in Words({1, 2}, 3) \ {<<>>} :
    subject' = [of |-> "lists", n |-> n, us |-> us, vs |-> vs]

-----------------------------------------------------------------------------
(* Parameters with values, the key "" among their keys, and numbers. *)
DictsOf(keys, values) == UNION {[K -> values] : K \in SUBSET keys}
PickParameters ==
  \E mu, nu \in DictsOf({EmptyKey, 1, 2}, {<<0>>, <<1>>, <<2>>, <<0, 1>>}), atol \in 0..1 :
    subject' = [of |-> "parameters", mu |-> mu, nu |-> nu, tol |-> Tolerance("numpy", 0, atol)]
PickOrdered ==
  \E mu, nu, xi \in DictsOf({1, 2}, {<<0>>, <<1>>, <<0, 1>>}) :
    subject' = [of |-> "ordered_parameters", mu |-> mu, nu |-> nu, xi |-> xi]
PickPairs ==
  \E pairs \in Words({EmptyKey, 1, 2} \X {<<0>>, <<0, 1>>}, 3) :
    subject' = [of |-> "pairs", pairs |-> pairs]
PickNumbers ==
  \E x, y, z \in -3..3 : subject' = [of |-> "numbers", i |-> x, j |-> y, k |-> z]
PickElements == \E elements \in Words(-2..2, 4) : subject' = [of |-> "elements", elements |-> elements]

SubjectInit == subject = None
PickSubject == subject = None /\
  (PickOperands \/ PickInterval \/ PickVectors \/ PickText \/ PickComplex \/ PickMatrix
     \/ PickProduct \/ PickPair \/ PickClass \/ PickVectorClass \/ PickList \/ PickFactors
     \/ PickComplexFactors \/ PickBackend \/ PickStudy \/ PickRun \/ PickRange \/ PickSubscript
     \/ PickLists \/ PickParameters \/ PickOrdered \/ PickPairs \/ PickNumbers \/ PickElements)
AlgorithmsSpec == SubjectInit /\ [][PickSubject]_subject

-----------------------------------------------------------------------------
(* The properties of the modules, about every subject they apply to. *)

\* Numbers are less, equal or greater, one of the three; the six comparisons fit
\* together, for operands of different sizes too; exchanged operands are in the
\* mirrored relation, but for numpy's tolerance (float_cmp_internal.hh).
ComparisonsFit ==
  subject.of = "operands" =>
    /\ NumbersOrdered(subject.lhs, subject.rhs, subject.tol)
    /\ RelationsFit(subject.lhs, subject.rhs, subject.tol)
    /\ ExchangeMirrors(subject.lhs, subject.rhs, subject.tol)

\* ValidateInterval accepts the closed interval (validation.hh). VectorLess is a
\* strict total order, and VectorFloatLess the same one when no components are
\* closer than the tolerance (vector_less.hh). Parameters are ordered strictly and
\* totally (parameter.cc), and what chooses between numbers or averages them keeps
\* between them (math.hh).
OrdersAreTotal ==
  /\ subject.of = "interval" => IntervalIsClosed(subject.min, subject.max, subject.value)
  /\ subject.of = "vectors" => VectorsOrdered(subject.left, subject.middle, subject.right, subject.tol)
  /\ subject.of = "ordered_parameters" => ParametersOrdered(subject.mu, subject.nu, subject.xi)
  /\ subject.of = "numbers" => ChoicesOrdered(subject.i, subject.j, subject.k)
  /\ subject.of = "elements" => AveragesInside(subject.elements)

\* What from_string reads has the size asked for and is read back from every way of
\* writing it; a text read as a vector is read as a matrix of one row with these
\* entries; complex numbers are read back but for what ComplexReadsBack names
\* (string_internal.hh).
TextsReadBack ==
  /\ subject.of = "text" =>
       /\ ReadsItsWriting(subject.text, subject.size, subject.cols, subject.static)
       /\ VectorIsOneRow(subject.text, subject.size)
  /\ subject.of = "complex" => ComplexReadsBack(subject.c)

\* serialize_rowwise and serialize_colwise agree up to transposing and to what they
\* do with an entry that does not fit; transposing reverses products; mv multiplies
\* by square matrices or throws (matrix.hh); cross products are orthogonal to both
\* factors, and all ways to multiply vectors, blocks and complex matrices agree
\* (fvector.hh, fmatrix.hh).
MatricesFit ==
  /\ subject.of = "matrix" =>
       /\ SerializationsAgree(subject.range, subject.mat)
       /\ TransposeReverses(subject.mat, subject.other)
  /\ subject.of = "product" => SquareMvMultiplies(subject.mat, subject.x, subject.result)
  /\ subject.of = "pair" => CrossIsOrthogonal(subject.u, subject.v)
  /\ subject.of = "factors" => ProductsAgree(subject.x, subject.y, subject.scalar)
  /\ subject.of = "complex_factors" => ComplexMultiply(subject.a, subject.b)

\* What has a size keeps it or is refused: matrices and vectors of any class that
\* are created, converted, transposed or made of lists, in the builds that refuse
\* (fmatrix.hh, fvector.hh). Nothing is claimed of the release builds of FieldMatrix
\* and BlockedFieldMatrix, which take any size.
SizesFit ==
  /\ subject.of = "class" =>
       /\ ConversionsKeep(subject.class, subject.build, subject.shape, subject.source)
       /\ LET blocks == IF subject.class.block = <<>> THEN {} ELSE
                  {e \in DOMAIN subject.source.at : Outside(subject.class, e)}
              mat == [subject.source EXCEPT !.at = [e \in DOMAIN @ |-> IF e \in blocks THEN 0 ELSE @[e]]]
          IN  IsOfClass(subject.class, mat) =>
                TransposesInClass(subject.class, subject.build, mat) /\ LayoutIsHonest(subject.class, mat)
  /\ subject.of = "vector_class" =>
       VectorsKeep(subject.class, subject.build, subject.size, subject.range, subject.x)
  /\ subject.of = "list" => ListsFill(subject.build, subject.rows, subject.cols, subject.list)

\* A library is called if and only if available() says so, and what it leaves is
\* looked at where cblas.cc looks at all of it.
LibrariesFit ==
  subject.of = "backend" =>
    /\ \A build \in Builds : AvailableSuffices(subject.libraries, build = "debug", subject.memory)
    /\ FailuresReported(subject.libraries, subject.memory, subject.layout, subject.m, subject.n, subject.ld)

\* Nothing is left out of what is listed or put together, and nothing is in it
\* twice: the rows of a study up to what throws (localization-study.cc), the sums of
\* parameters and the parameters made of pairs (parameter.hh), the lists of indices
\* and types (tuple.hh) and the values of a range (ranges.hh).
ListsAreComplete ==
  /\ subject.of = "run" =>
       RowsAreComparable(subject.provided, subject.only, subject.length, subject.reference)
  /\ subject.of = "parameters" => SumsKeepTypes(subject.mu, subject.nu, subject.tol)
  /\ subject.of = "pairs" => PairsAreSet(subject.pairs)
  /\ subject.of = "lists" => ListsComplete(subject.n, subject.us, subject.vs)
  /\ subject.of = "range" => RangeIsHalfOpen(subject.start, subject.end, subject.increment)

\* The rows of a study fill its first column: what localization-study.cc:99
\* asserts.
StudyColumnsFill == subject.of = "study" => IdFillsColumn(subject.indicators)

\* The subscripts of an array wrap around: the example of misc.hh:63.
ArraysWrapAround == subject.of = "subscript" => SubscriptsWrapAround(subject.n, subject.i)
=============================================================================
