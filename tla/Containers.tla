----------------------------- MODULE Containers -----------------------------
(***************************************************************************)
(* Matrices and vectors: the algorithms on those of any type (matrix.hh,   *)
(* vector.hh) and some of fmatrix.hh and fvector.hh; then the classes and  *)
(* what the library does to treat them alike: the specializations of       *)
(* MatrixAbstraction and VectorAbstraction, and how FieldMatrix,           *)
(* FieldVector, BlockedFieldMatrix and BlockedFieldVector are made of      *)
(* lists, of each other and of other classes. A build is "debug" or        *)
(* "release"; a failed assert counts as thrown.                            *)
(* A matrix is a record of its rows, its cols and its entries at           *)
(* <<row, column>>, counted from 0; a vector is a function from            *)
(* 0..size - 1.  Its scalar type is its range: unsigned of the values      *)
(* 0..range - 1, or all integers (range 0).                                *)
(***************************************************************************)
EXTENDS Integers, FiniteSets, Functions, Sequences, SequencesExt

Thrown == [thrown |-> TRUE]
Done(value) == [thrown |-> FALSE, value |-> value]

Entries(rows, cols) == (0..rows - 1) \X (0..cols - 1)
Filled(rows, cols, val) ==
  [rows |-> rows, cols |-> cols, at |-> [e \in Entries(rows, cols) |-> val]]
Size(x) == Cardinality(DOMAIN x)

\* What loops add up from 0 on.
Total(x) ==
  LET sum[n \in 0..Size(x)] == IF n = 0 THEN 0 ELSE sum[n - 1] + x[n - 1]
  IN  sum[Size(x)]

\* numeric_cast throws if the value does not fit; a plain conversion wraps.
Fits(range, x) == range = 0 \/ x \in 0..range - 1
NumericCast(range, x) == IF Fits(range, x) THEN Done(x) ELSE Thrown
Wrapped(range, x) == IF range = 0 THEN x ELSE x % range

\* Bug: the sizes are exchanged, and the entries stay in their order.
TransposedSizes(mat) ==
  [rows |-> mat.cols, cols |-> mat.rows,
   at |-> [e \in Entries(mat.cols, mat.rows) |->
     LET at == e[1] * mat.rows + e[2] IN mat.at[at \div mat.cols, at % mat.cols]]]
Transposed(mat) ==
  [rows |-> mat.cols, cols |-> mat.rows,
   at |-> [e \in Entries(mat.cols, mat.rows) |-> mat.at[e[2], e[1]]]]

\* Both run through the entries with one running index.
SerializeRowwise(range, mat) ==
  IF \E e \in DOMAIN mat.at : NumericCast(range, mat.at[e]).thrown THEN Thrown
  ELSE Done([i \in 0..mat.rows * mat.cols - 1 |-> mat.at[i \div mat.cols, i % mat.cols]])
\* Bug: the index of an entry is computed with the number of columns.
ColwiseByCols(range, mat) ==
  Done([i \in 0..mat.rows * mat.cols - 1 |->
          Wrapped(range, mat.at[IF i % mat.cols < mat.rows THEN i % mat.cols ELSE 0,
                                IF i \div mat.cols < mat.cols THEN i \div mat.cols ELSE 0])])
\* The checks are the wrong way round: this one wraps unless they are disabled.
SerializeColwise(range, mat) ==
  Done([i \in 0..mat.rows * mat.cols - 1 |->
          Wrapped(range, mat.at[i % mat.rows, i \div mat.rows])])

Product(lhs, rhs) ==
  [rows |-> lhs.rows, cols |-> rhs.cols,
   at |-> [e \in Entries(lhs.rows, rhs.cols) |->
             Total([k \in 0..lhs.cols - 1 |-> lhs.at[e[1], k] * rhs.at[k, e[2]]])]]
\* operator* and the rightmultiply of matrices not on the stack
RightMultiply(left, right) == Product(left, right)

\* Bug: b is not set to zero before the products are added.
MvAdding(mat, x, b) ==
  IF Size(x) # mat.rows \/ Size(b) # mat.rows THEN Thrown
  ELSE Done([i \in 0..mat.rows - 1 |->
               b[i] + Total([j \in 0..mat.cols - 1 |-> mat.at[i, j] * x[j]])])

\* mv of any types: cols is set to the number of rows.  With more rows than
\* columns it reads entries the matrix does not have.
Mv(mat, x, b) ==
  LET rows == mat.rows  cols == mat.rows
  IN  IF Size(x) # cols \/ Size(b) # rows THEN Thrown
      ELSE IF cols > mat.cols THEN [thrown |-> FALSE, undefined |-> TRUE]
      ELSE Done([i \in 0..rows - 1 |-> Total([j \in 0..cols - 1 |-> mat.at[i, j] * x[j]])])

\* The conversion of a vector to a matrix of one column.
AsColumn(x) == [rows |-> Size(x), cols |-> 1, at |-> [e \in Entries(Size(x), 1) |-> x[e[1]]]]

SupNorm(x) == Max({0} \cup {IF x[i] < 0 THEN -x[i] ELSE x[i] : i \in DOMAIN x})

\* Two at a time from the left; each is a number or a vector.
StackTwo(left, right) ==
  [i \in 0..Size(left) + Size(right) - 1 |->
     IF i < Size(left) THEN left[i] ELSE right[i - Size(left)]]

\* Bug: the sign of the second component.
CrossMirrored(u, v) ==
  [i \in 0..2 |-> IF i = 1 THEN u[0] * v[2] - u[2] * v[0]
                  ELSE u[(i + 1) % 3] * v[(i + 2) % 3] - u[(i + 2) % 3] * v[(i + 1) % 3]]
CrossProduct(u, v) ==
  [i \in 0..2 |-> u[(i + 1) % 3] * v[(i + 2) % 3] - u[(i + 2) % 3] * v[(i + 1) % 3]]

-----------------------------------------------------------------------------
Dot(u, v) == Total([i \in DOMAIN u |-> u[i] * v[i]])

\* The rowwise serialization of a matrix is the columnwise one of the transposed
\* matrix, unless an entry does not fit into the type asked for: then the one
\* throws and the other hands out a wrapped value.
SerializationsAgree(range, mat) ==
  LET rowwise == SerializeRowwise(range, mat)
      colwise == SerializeColwise(range, Transposed(mat))
  IN  /\ ~rowwise.thrown => rowwise = colwise
      /\ rowwise.thrown = (\E e \in DOMAIN mat.at : ~Fits(range, mat.at[e]))

\* Transposing reverses products.
TransposeReverses(a, b) ==
  a.cols = b.rows => Transposed(RightMultiply(a, b)) = RightMultiply(Transposed(b), Transposed(a))

\* mv with a square matrix multiplies or, if the sizes do not fit, throws.
SquareMvMultiplies(mat, x, b) ==
  mat.rows = mat.cols =>
    LET result == Mv(mat, x, b)
    IN  /\ result.thrown = (Size(x) # mat.cols \/ Size(b) # mat.rows)
        /\ ~result.thrown => AsColumn(result.value) = Product(mat, AsColumn(x))

\* The cross product is orthogonal to both vectors, changes its sign with their
\* order and is as long as the parallelogram is large.
CrossIsOrthogonal(u, v) ==
  LET w == CrossProduct(u, v)
  IN  /\ Dot(u, w) = 0 /\ Dot(v, w) = 0
      /\ CrossProduct(v, u) = [i \in 0..2 |-> -w[i]]
      /\ Dot(w, w) = Dot(u, u) * Dot(v, v) - Dot(u, v) * Dot(u, v)
      /\ SupNorm(StackTwo(u, w)) = Max({SupNorm(u), SupNorm(w)})

-----------------------------------------------------------------------------
\* Memory out of bounds is touched, unless an exception comes first.
Undefined == [thrown |-> FALSE, undefined |-> TRUE]
IsDone(outcome) == "value" \in DOMAIN outcome

-----------------------------------------------------------------------------
(* The classes: whether the size belongs to the type, the builds in which  *)
(* another size is refused, the size of the blocks if there are, how the   *)
(* entries are stored and how far the pointer of data() reaches.           *)

DynamicMatrix ==
  [is |-> "matrix", static |-> FALSE, refuses |-> {}, block |-> <<>>,
   layout |-> "other", data |-> "first row"]
DuneFieldMatrix ==
  [is |-> "matrix", static |-> TRUE, refuses |-> {"debug", "release"}, block |-> <<>>,
   layout |-> "dense_row_major", data |-> "all"]
FieldMatrix ==
  [is |-> "matrix", static |-> TRUE, refuses |-> {"debug"}, block |-> <<>>,
   layout |-> "dense_row_major", data |-> "all"]
BlockedFieldMatrix(block_rows, block_cols) ==
  [is |-> "matrix", static |-> TRUE, refuses |-> {"debug"}, block |-> <<block_rows, block_cols>>,
   layout |-> "other", data |-> "throws"]

StdVector == [is |-> "vector", static |-> FALSE, refuses |-> {}]
DynamicVector == [is |-> "vector", static |-> FALSE, refuses |-> {}]
StdArray == [is |-> "vector", static |-> TRUE, refuses |-> {"debug", "release"}]
DuneFieldVector == [is |-> "vector", static |-> TRUE, refuses |-> {"debug", "release"}]
FieldVector == [is |-> "vector", static |-> TRUE, refuses |-> {"debug", "release"}]
BlockedFieldVector == [is |-> "vector", static |-> TRUE, refuses |-> {"debug", "release"}]

-----------------------------------------------------------------------------
(* Matrices of any class. *)
Outside(class, e) ==
  class.block # <<>> /\ e[1] \div class.block[1] # e[2] \div class.block[2]

\* A blocked matrix has as many blocks as its rows and its cols have room for.
IsOfClass(class, mat) ==
  \/ class.block = <<>>
  \/ /\ mat.rows % class.block[1] = 0 /\ mat.cols = (mat.rows \div class.block[1]) * class.block[2]
     /\ \A e \in DOMAIN mat.at : Outside(class, e) => mat.at[e] = 0

\* The static size of the class with other sizes; blocks stay as they are.
MatrixTypeTemplate(class, rows, cols) ==
  IF class.block = <<>> THEN <<rows, cols>>
  ELSE <<(rows \div class.block[1]) * class.block[1], (rows \div class.block[1]) * class.block[2]>>

\* Bug: a size is refused in debug builds only, as FieldMatrix does it.
CreateAsserting(class, build, size, rows, cols, val) ==
  IF ~class.static THEN Done(Filled(rows, cols, val))
  ELSE IF <<rows, cols>> # size /\ build = "debug" THEN Thrown
  ELSE Done([Filled(size[1], size[2], val) EXCEPT
               !.at = [e \in DOMAIN @ |-> IF Outside(class, e) THEN 0 ELSE val]])
CreateMatrix(class, build, size, rows, cols, val) ==
  IF ~class.static THEN Done(Filled(rows, cols, val))
  ELSE IF <<rows, cols>> # size /\ build \in class.refuses THEN Thrown
  ELSE Done([Filled(size[1], size[2], val) EXCEPT
               !.at = [e \in DOMAIN @ |-> IF Outside(class, e) THEN 0 ELSE val]])
ZerosLike(class, build, size, source) ==
  CreateMatrix(class, build, size, source.rows, source.cols, 0)

\* set_entry() with each of new: only blocks take nonzero values.
SetEntries(class, range, mat, new) ==
  IF \E e \in DOMAIN new \ DOMAIN mat.at : ~Outside(class, e) THEN Undefined
  ELSE IF \E e \in DOMAIN new : ~Fits(range, new[e]) \/ (Outside(class, e) /\ new[e] # 0)
  THEN Thrown
  ELSE Done([mat EXCEPT !.at = [e \in DOMAIN @ |-> IF e \in DOMAIN new THEN new[e] ELSE @[e]]])

ConvertTo(class, build, size, range, source) ==
  LET created == CreateMatrix(class, build, size, source.rows, source.cols, 0)
  IN  IF created.thrown THEN Thrown ELSE SetEntries(class, range, created.value, source.at)

\* transposed() of any class.
TransposedOf(class, build, mat) ==
  LET size == MatrixTypeTemplate(class, mat.cols, mat.rows)
      created == CreateMatrix(class, build, size, mat.cols, mat.rows, 0)
  IN  IF created.thrown THEN Thrown
      ELSE SetEntries(class, 0, created.value, Transposed(mat).at)

\* operator= of the classes with a static size: as much of the other matrix as
\* there is place for, in the blocks.
AssignMatrix(class, size, other) ==
  IF \E e \in Entries(size[1], size[2]) : ~Outside(class, e) /\ e \notin DOMAIN other.at
  THEN Undefined
  ELSE Done([rows |-> size[1], cols |-> size[2],
             at |-> [e \in Entries(size[1], size[2]) |-> IF Outside(class, e) THEN 0 ELSE other.at[e]]])

\* What the pointer of data() shows.
DataOf(class, mat) ==
  CASE class.data = "throws" -> Thrown
    [] class.data = "first row" -> Done([i \in 0..mat.cols - 1 |-> mat.at[0, i]])
    [] class.data = "all" -> SerializeRowwise(0, mat)

-----------------------------------------------------------------------------
(* Vectors of any class. *)
CreateVector(class, build, size, sz, val) ==
  IF ~class.static THEN Done([i \in 0..sz - 1 |-> val])
  ELSE IF sz # size /\ build \in class.refuses THEN Thrown
  ELSE Done([i \in 0..size - 1 |-> val])
ConvertVector(class, build, size, range, source) ==
  IF CreateVector(class, build, size, Size(source), 0).thrown
     \/ \E i \in DOMAIN source : ~Fits(range, source[i])
  THEN Thrown ELSE Done(source)
\* get_entry(), set_entry() and add_to_entry() assert the index.
EntryOf(build, x, i) ==
  IF i \in DOMAIN x THEN Done(x[i]) ELSE IF build = "debug" THEN Thrown ELSE Undefined
SetEntryOf(build, x, i, val) ==
  IF i \in DOMAIN x THEN Done([x EXCEPT ![i] = val])
  ELSE IF build = "debug" THEN Thrown ELSE Undefined

-----------------------------------------------------------------------------
(* From lists. What a list does not name is zero. *)
ListVector(build, size, list) ==
  IF build = "debug" /\ Len(list) # size THEN Thrown
  ELSE IF Len(list) > size THEN Undefined
  ELSE Done([i \in 0..size - 1 |-> IF i < Len(list) THEN list[i + 1] ELSE 0])

\* A std::vector is read from, so it is the short one that is out of bounds.
VectorFromStd(build, size, vec) ==
  IF build = "debug" /\ Len(vec) # size THEN Thrown
  ELSE IF Len(vec) < size THEN Undefined
  ELSE Done([i \in 0..size - 1 |-> vec[i + 1]])

ListMatrix(build, rows, cols, list) ==
  IF build = "debug" /\ (Len(list) # rows \/ \E r \in DOMAIN list : Len(list[r]) # cols)
  THEN Thrown
  ELSE IF \E r \in DOMAIN list : Len(list[r]) > (IF r > rows THEN 0 ELSE cols) THEN Undefined
  ELSE Done([Filled(rows, cols, 0) EXCEPT
    !.at = [e \in DOMAIN @ |->
              IF e[1] < Len(list) /\ e[2] < Len(list[e[1] + 1]) THEN list[e[1] + 1][e[2] + 1] ELSE 0]])

\* FieldMatrix<K, 1, 1>: every entry of the list is assigned to the only one.
ListScalar(build, list) ==
  IF build = "debug" /\ (Len(list) # 1 \/ \E r \in DOMAIN list : Len(list[r]) # 1)
  THEN Thrown
  ELSE LET entries == FlattenSeq(list)
       IN  Done(Filled(1, 1, IF entries = <<>> THEN 0 ELSE Last(entries)))

\* BlockedFieldVector: all entries, or one for each block.
ListBlocked(build, num_blocks, block_size, list) ==
  LET size == num_blocks * block_size
  IN  IF Len(list) = size THEN Done([i \in 0..size - 1 |-> list[i + 1]])
      ELSE IF build = "debug" /\ Len(list) # num_blocks THEN Thrown
      ELSE IF Len(list) > num_blocks THEN Undefined
      ELSE Done([i \in 0..size - 1 |->
                   IF i \div block_size < Len(list) THEN list[i \div block_size + 1] ELSE 0])

-----------------------------------------------------------------------------
(* Conversions and products of FieldVector and FieldMatrix. *)
Elements(x) == [i \in 1..Size(x) |-> x[i - 1]]
AsRow(x) == [rows |-> 1, cols |-> Size(x), at |-> [e \in Entries(1, Size(x)) |-> x[e[2]]]]
VectorProduct(x, other) == Total([ii \in DOMAIN x |-> x[ii] * other[ii]])
\* with a matrix of one column
ColumnProduct(x, mat) == Total([ii \in DOMAIN x |-> x[ii] * mat.at[ii, 0]])
Scaled(x, scalar) == [ii \in DOMAIN x |-> x[ii] * scalar]
\* What is divided here is divisible.
Divided(x, scalar) ==
  LET sign == IF scalar < 0 THEN -1 ELSE 1
  IN  [ii \in DOMAIN x |-> (sign * x[ii]) \div (sign * scalar)]
MatrixTimes(mat, x) == [ii \in 0..mat.rows - 1 |-> Total([jj \in 0..mat.cols - 1 |-> mat.at[ii, jj] * x[jj]])]
MatrixScaled(mat, scalar) == [mat EXCEPT !.at = [e \in DOMAIN @ |-> @[e] * scalar]]
MatrixSum(left, right, sign) ==
  [left EXCEPT !.at = [e \in DOMAIN @ |-> @[e] + sign * right.at[e]]]

\* hstack() of any number of vectors, and of numbers as vectors of one entry
HStack(vectors) ==
  LET stacked[n \in 1..Len(vectors)] ==
        IF n = 1 THEN vectors[1] ELSE StackTwo(stacked[n - 1], vectors[n])
  IN  stacked[Len(vectors)]

\* BlockedFieldVector: begin() and end() are those of its memory, block after block.
Memory(blocks) ==
  LET block_size == Size(blocks[0])
  IN  [at \in 0..Size(blocks) * block_size - 1 |-> blocks[at \div block_size][at % block_size]]
InnerProduct(u, v) == Total([at \in DOMAIN Memory(u) |-> Memory(u)[at] * Memory(v)[at]])
OneNorm(u) == Total([jj \in DOMAIN u |->
  Total([ii \in DOMAIN u[jj] |-> IF u[jj][ii] < 0 THEN -u[jj][ii] ELSE u[jj][ii]])])
TwoNorm2(u) == Total([jj \in DOMAIN u |-> Total([ii \in DOMAIN u[jj] |-> u[jj][ii] * u[jj][ii]])])
BlocksScaled(u, val) == [jj \in DOMAIN u |-> Scaled(u[jj], val)]
BlocksSum(u, v, sign) == [jj \in DOMAIN u |-> [ii \in DOMAIN u[jj] |-> u[jj][ii] + sign * v[jj][ii]]]

\* Complex entries are pairs.
Real(mat) == [mat EXCEPT !.at = [e \in DOMAIN @ |-> @[e][1]]]
Imag(mat) == [mat EXCEPT !.at = [e \in DOMAIN @ |-> @[e][2]]]
\* The imaginary part of a real matrix.
ImagOfReal(mat) == Filled(mat.rows, mat.cols, 0)
-----------------------------------------------------------------------------
\* A conversion to a class that refuses other sizes in this build hands out the same
\* matrix or throws. Where the sizes agree operator= hands it out too, but for what
\* is not zero beside the blocks: that is refused by the conversion and lost by
\* operator=.
ConversionsKeep(class, build, size, source) ==
  LET converted == ConvertTo(class, build, size, 0, source)
      assigned == AssignMatrix(class, size, source)
      same == ~class.static \/ size = <<source.rows, source.cols>>
  IN  /\ (class.static => build \in class.refuses) =>
           /\ converted # Undefined
           /\ IsDone(converted) => same /\ converted.value = source
      /\ same => converted \in {Thrown, Done(source)}
      /\ class.static /\ same =>
           /\ IsDone(assigned)
           /\ IsDone(converted) <=> assigned.value = source

\* A matrix in this class is transposed, but for blocks that are not square, which
\* stay as they are: their transposed size is refused where sizes are.
TransposesInClass(class, build, mat) ==
  LET turned == TransposedOf(class, build, mat)
      square == class.block = <<>> \/ class.block[1] = class.block[2]
  IN  /\ square => turned = Done(Transposed(mat))
      /\ build \in class.refuses => turned \in {Thrown, Done(Transposed(mat))}

\* Row after row is in reach of data() in the classes whose layout says so.
LayoutIsHonest(class, mat) ==
  class.layout = "dense_row_major" => DataOf(class, mat) = SerializeRowwise(0, mat)

\* Created with a size and converted, a vector has that size or it was refused, in
\* every build; an index is refused in a debug build only.
VectorsKeep(class, build, size, range, x) ==
  LET converted == ConvertVector(class, build, size, range, x)
      zeros == CreateVector(class, build, size, Size(x), 0)
  IN  /\ IsDone(converted) => converted.value = x
      /\ ~zeros.thrown => DOMAIN zeros.value = DOMAIN x
      /\ \A i \in 0..Size(x) :
           LET set == SetEntryOf(build, x, i, 1)
           IN  /\ IsDone(set) => EntryOf(build, set.value, i) = Done(1)
               /\ build = "debug" => set # Undefined
               /\ IsDone(set) = IsDone(EntryOf(build, x, i))

\* In a debug build a list is refused unless it fits, and read back from what was
\* made of it; in a release build that goes for the lists that fit, and a list of
\* as many values as blocks stands for the one that repeats each. The matrix with
\* one entry never touches memory that is not its own.
ListsFill(build, rows, cols, list) ==
  LET matrix == ListMatrix(build, rows, cols, list)
      vector == ListVector(build, rows, list)
      std == VectorFromStd(build, rows, list)
      fits == Len(list) = rows /\ \A r \in DOMAIN list : Len(list[r]) = cols
  IN  /\ build = "debug" => (IsDone(matrix) = fits /\ matrix # Undefined)
      /\ fits => \A r \in 1..rows :
           Elements([j \in 0..cols - 1 |-> matrix.value.at[r - 1, j]]) = list[r]
      /\ ListScalar(build, list) # Undefined
      /\ rows = 1 /\ cols = 1 /\ IsDone(matrix) => ListScalar(build, list) = matrix
      /\ IsDone(vector) /\ IsDone(std) => vector = std /\ Elements(vector.value) = list
      /\ Len(list) = rows =>
           ListBlocked(build, rows, cols, list)
             = ListBlocked(build, rows, cols, FlattenSeq([r \in 1..rows |-> [c \in 1..cols |-> list[r]]]))

\* The ways to multiply vectors agree: with each other, with a matrix of one
\* column, as matrices, block by block and stacked; blocks are beside each other in
\* memory, so that the inner product is bilinear.
ProductsAgree(x, y, scalar) ==
  LET dot == VectorProduct(x, y)
      u == [jj \in 0..1 |-> IF jj = 0 THEN x ELSE y]
      v == [jj \in 0..1 |-> IF jj = 0 THEN y ELSE Scaled(x, scalar)]
      number == [i \in {0} |-> scalar]
      difference == BlocksSum(u, BlocksScaled(v, scalar), -1)
  IN  /\ ColumnProduct(x, AsColumn(y)) = dot
      /\ Product(AsRow(x), AsColumn(y)).at[0, 0] = dot
      /\ MatrixTimes(AsRow(x), y)[0] = dot
      /\ scalar # 0 => Divided(Scaled(x, scalar), scalar) = x
      /\ VectorProduct(HStack(<<x, number, y>>), HStack(<<y, number, x>>))
           = 2 * dot + scalar * scalar
      /\ InnerProduct(u, v) = VectorProduct(u[0], v[0]) + VectorProduct(u[1], v[1])
      /\ TwoNorm2(difference)
           = TwoNorm2(u) - 2 * scalar * InnerProduct(u, v) + scalar * scalar * TwoNorm2(v)
      /\ TwoNorm2(u) <= OneNorm(u) * OneNorm(u)

\* Real and imaginary parts multiply as complex numbers do, and matrices
\* distribute over sums.
ComplexMultiply(a, b) ==
  LET product ==
        [rows |-> a.rows, cols |-> b.cols,
         at |-> [e \in Entries(a.rows, b.cols) |->
           LET term(k) == <<a.at[e[1], k], b.at[k, e[2]]>>
           IN  <<Total([k \in 0..a.cols - 1 |-> term(k)[1][1] * term(k)[2][1] - term(k)[1][2] * term(k)[2][2]]),
                 Total([k \in 0..a.cols - 1 |-> term(k)[1][1] * term(k)[2][2] + term(k)[1][2] * term(k)[2][1]])>>]]
  IN  /\ Real(product) = MatrixSum(Product(Real(a), Real(b)), Product(Imag(a), Imag(b)), -1)
      /\ Imag(product) = MatrixSum(Product(Real(a), Imag(b)), Product(Imag(a), Real(b)), 1)
      /\ MatrixSum(Real(a), MatrixScaled(ImagOfReal(Real(a)), 2), 1) = Real(a)
      /\ MatrixTimes(MatrixScaled(Real(a), 2), [j \in 0..a.cols - 1 |-> Imag(b).at[j, 0]])
           = [i \in 0..a.rows - 1 |-> 2 * Product(Real(a), Imag(b)).at[i, 0]]
=============================================================================
