-------------------------- MODULE StringConversion --------------------------
(***************************************************************************)
(* from_string and to_string of numbers, complex numbers, vectors and      *)
(* matrices (string_internal.hh).  A text is a sequence of symbols: the    *)
(* brackets, the blank, ";", "+", "-", "e", "i", digits and other          *)
(* characters.  A conversion returns a record whose field ok is FALSE when *)
(* the code throws a conversion_error.  A number is a sign, its digits and *)
(* its exponent (<<>> if there is none).  A size of 0 asks for whatever    *)
(* the text has; a static size of 0 means that the type has none.          *)
(***************************************************************************)
EXTENDS Integers, Sequences, SequencesExt

CONSTANT Digits

At(text, i) == IF i \in DOMAIN text THEN text[i] ELSE "the end"
Has(text, symbol) == \E i \in DOMAIN text : text[i] = symbol
Least(a, b) == IF a < b THEN a ELSE b

\* boost::algorithm::trim
Trimmed(text) ==
  LET solid == {i \in DOMAIN text : text[i] # " "}
  IN  IF solid = {} THEN <<>>
      ELSE SubSeq(text, CHOOSE i \in solid : \A j \in solid : i <= j,
                        CHOOSE i \in solid : \A j \in solid : j <= i)

\* boost::algorithm::split, neighbouring separators taken together: one at an
\* end, and a text without anything, still leave an empty token.
Tokens(text, separator) ==
  LET starts == {i \in DOMAIN text : text[i] = separator /\ At(text, i - 1) # separator}
      from(i) == CHOOSE j \in i + 1..Len(text) + 1 :
                   At(text, j) # separator /\ \A k \in i + 1..j - 1 : text[k] = separator
      cuts == SetToSortSeq(starts, <)
      first(n) == IF n = 0 THEN 1 ELSE from(cuts[n])
      last(n) == IF n = Len(cuts) THEN Len(text) ELSE cuts[n + 1] - 1
  IN  [n \in 1..Len(cuts) + 1 |-> SubSeq(text, first(n - 1), last(n - 1))]

DigitCount(text, from) ==
  CHOOSE n \in 0..Len(text) :
    At(text, from + n) \notin Digits /\ \A k \in from..from + n - 1 : At(text, k) \in Digits

\* std::stod and its like: the longest number the text starts with, what is
\* behind it is ignored; there must be a digit.
Number(text) ==
  LET sign == IF At(text, 1) \in {"+", "-"} THEN 1 ELSE 0
      digits == DigitCount(text, sign + 1)
      e == sign + digits + 1
      signed == IF At(text, e + 1) \in {"+", "-"} THEN 1 ELSE 0
      power == IF At(text, e) = "e" THEN DigitCount(text, e + signed + 1) ELSE 0
  IN  [ok |-> digits > 0, negative |-> At(text, 1) = "-",
       digits |-> SubSeq(text, sign + 1, sign + digits),
       exponent |-> IF power = 0 THEN <<>>
                    ELSE <<IF At(text, e + 1) = "-" THEN "-" ELSE "+">>
                           \o SubSeq(text, e + signed + 1, e + signed + power)]
\* Bug: a ";" in an entry is not noticed, the number in front of it is taken.
Unsafely(text) == Number(Trimmed(text))
\* trim_copy_safely before the conversion: no entry contains a ";".
Safely(text) ==
  [Number(Trimmed(text)) EXCEPT !.ok = @ /\ ~Has(Trimmed(text), ";")]
Written(x) == (IF x.negative THEN <<"-">> ELSE <<>>) \o x.digits
              \o (IF x.exponent = <<>> THEN <<>> ELSE <<"e">> \o x.exponent)

Failed == [ok |-> FALSE]
Read(value) == [ok |-> TRUE, value |-> value]

-----------------------------------------------------------------------------
(* Complex numbers. *)

FoundFrom(text, symbol, from) ==
  LET places == {i \in from..Len(text) : text[i] = symbol}
  IN  IF places = {} THEN 0 ELSE CHOOSE i \in places : \A j \in places : i <= j

\* Bug: a "-" is looked for first.
ImaginaryFromMinus(text) ==
  IF FoundFrom(text, "-", 2) # 0 THEN FoundFrom(text, "-", 2) ELSE FoundFrom(text, "+", 2)

\* The imaginary part starts at the first "+" behind the first character or, if
\* there is none, at the first "-" there: also if these belong to an exponent.
ImaginaryFrom(text) ==
  IF FoundFrom(text, "+", 2) # 0 THEN FoundFrom(text, "+", 2) ELSE FoundFrom(text, "-", 2)

ComplexFrom(untrimmed) ==
  LET text == Trimmed(untrimmed)
      at == ImaginaryFrom(text)
      re == Number(IF at = 0 THEN text ELSE SubSeq(text, 1, at - 1))
      unit == FoundFrom(text, "i", at)
      im == Number(SubSeq(text, at, unit - 1))
      zero == [ok |-> TRUE, negative |-> FALSE, digits |-> <<"0">>, exponent |-> <<>>]
  IN  IF text = <<>> \/ ~re.ok THEN Failed
      ELSE IF at = 0 THEN Read([re |-> re, im |-> zero])
      ELSE IF unit = 0 \/ ~im.ok THEN Failed
      ELSE Read([re |-> re, im |-> im])

\* The sign of the imaginary part is that of its number, "+" if it is not below
\* zero: before a negative zero, which is written "-0", as well.
ComplexTo(c) ==
  Written(c.re)
    \o (IF c.im.negative /\ \E i \in DOMAIN c.im.digits : c.im.digits[i] # "0"
        THEN <<>> ELSE <<"+">>)
    \o Written(c.im) \o <<"i">>

-----------------------------------------------------------------------------
(* Vectors and matrices. *)

IsBracketed(text) == At(text, 1) = "[" /\ text[Len(text)] = "]"
Inner(text) == SubSeq(text, 2, Len(text) - 1)

\* What is asked for and there, and what the type needs of it.
Automatic(there, asked) == IF asked > 0 THEN Least(there, asked) ELSE there
Actual(automatic, static) == IF static > 0 THEN static ELSE automatic

VectorFrom(text, size, static) ==
  IF IsBracketed(text)
  THEN LET tokens == Tokens(Inner(text), " ")
           automatic == Automatic(Len(tokens), size)
           actual == Actual(automatic, static)
       IN  IF \/ Len(tokens) < size \/ actual > automatic
              \/ \E i \in 1..actual : ~Safely(tokens[i]).ok
           THEN Failed ELSE Read([i \in 1..actual |-> Safely(tokens[i])])
  ELSE LET automatic == IF size = 0 THEN 1 ELSE size
           actual == Actual(automatic, static)
       IN  IF ~Safely(text).ok \/ (actual > automatic /\ automatic # 1)
           THEN Failed ELSE Read([i \in 1..actual |-> Safely(text)])

\* The columns that the first n rows all have.
CommonColumns(lines, n) ==
  LET counts == {Len(Tokens(Trimmed(lines[i]), " ")) : i \in 1..n}
  IN  CHOOSE c \in counts : \A d \in counts : c <= d

MatrixFrom(text, rows, cols, static_rows, static_cols) ==
  IF IsBracketed(text)
  THEN LET lines == Tokens(Inner(text), ";")
           automatic_rows == Automatic(Len(lines), rows)
           actual_rows == Actual(automatic_rows, static_rows)
           automatic_cols == Automatic(CommonColumns(lines, actual_rows), cols)
           actual_cols == Actual(automatic_cols, static_cols)
           entry(i, j) == Safely(Tokens(Trimmed(lines[i]), " ")[j])
       IN  IF Len(lines) < rows \/ actual_rows > automatic_rows THEN Failed
           ELSE IF \/ CommonColumns(lines, actual_rows) < cols
                   \/ actual_cols > automatic_cols
                   \/ \E i \in 1..actual_rows, j \in 1..actual_cols : ~entry(i, j).ok
           THEN Failed
           ELSE Read([i \in 1..actual_rows |-> [j \in 1..actual_cols |-> entry(i, j)]])
  ELSE LET automatic_rows == IF rows = 0 THEN 1 ELSE rows
           actual_rows == Actual(automatic_rows, static_rows)
           automatic_cols == IF cols = 0 THEN 1 ELSE cols
           actual_cols == Actual(automatic_cols, static_cols)
       IN  IF ~Safely(text).ok \/ actual_rows > automatic_rows \/ actual_cols > automatic_cols
           THEN Failed
           ELSE Read([i \in 1..actual_rows |-> [j \in 1..actual_cols |-> Safely(text)]])

\* The texts one after the other, with glue in between.
Joined(texts, glue) ==
  FoldLeft(LAMBDA done, text : IF done = <<>> THEN text ELSE done \o glue \o text, <<>>, texts)
VectorTo(v) == <<"[">> \o Joined([i \in DOMAIN v |-> Written(v[i])], <<" ">>) \o <<"]">>
\* Bug: rows are separated as entries are.
MatrixToFlat(m) ==
  <<"[">> \o Joined([i \in DOMAIN m |->
               Joined([j \in DOMAIN m[i] |-> Written(m[i][j])], <<" ">>)], <<" ">>) \o <<"]">>
MatrixTo(m) ==
  <<"[">> \o Joined([i \in DOMAIN m |->
               Joined([j \in DOMAIN m[i] |-> Written(m[i][j])], <<" ">>)], <<";", " ">>) \o <<"]">>

\* operator<< of vectors and output_matrix: a single entry has no brackets, and
\* no blank follows the ";".
VectorOutput(v) == IF Len(v) = 1 THEN Written(v[1]) ELSE VectorTo(v)
OutputMatrix(m) ==
  <<"[">> \o Joined([i \in DOMAIN m |->
               Joined([j \in DOMAIN m[i] |-> Written(m[i][j])], <<" ">>)], <<";">>) \o <<"]">>

-----------------------------------------------------------------------------
\* A text that is read has the size that was asked for or the type has, and
\* what was read, written out again by to_string or to a stream, is read as the
\* same.
ReadsItsWriting(text, size, cols, static) ==
  LET v == VectorFrom(text, size, static)
      m == MatrixFrom(text, size, cols, static, static)
  IN  /\ v.ok => /\ static = 0 /\ size > 0 => Len(v.value) = size
                 /\ static > 0 => Len(v.value) = static
                 /\ VectorFrom(VectorTo(v.value), 0, static) = v
                 /\ VectorFrom(VectorOutput(v.value), 0, static) = v
      /\ m.ok => /\ static = 0 /\ size > 0 => Len(m.value) = size
                 /\ static = 0 /\ cols > 0 => \A i \in DOMAIN m.value : Len(m.value[i]) = cols
                 /\ MatrixFrom(MatrixTo(m.value), 0, 0, static, static) = m
                 /\ MatrixFrom(OutputMatrix(m.value), 0, 0, static, static) = m

\* What is read as a vector is read as the one row of a matrix with the same
\* entries: the same tokens count in both.
VectorIsOneRow(text, size) ==
  LET v == VectorFrom(text, size, 0)
  IN  v.ok /\ IsBracketed(text) =>
        MatrixFrom(text, 1, Len(v.value), 0, 0) = Read(<<v.value>>)

\* A complex number is read back if the first "+" behind its first character
\* or, if there is none, the first "-" is the sign of its imaginary part and not
\* that of an exponent; a negative zero there is written "+-0" and cannot be
\* read; all others are read as another number, without an exception.
ComplexReadsBack(c) ==
  LET back == ComplexFrom(ComplexTo(c))
      plus(x) == x.exponent # <<>> /\ x.exponent[1] = "+"
      minusZero == c.im.negative /\ c.im.digits = <<"0">>
      separated == IF c.im.negative THEN c.re.exponent = <<>> /\ ~plus(c.im)
                                    ELSE ~plus(c.re)
  IN  /\ separated /\ ~minusZero => back = Read(c)
      /\ minusZero /\ ~plus(c.re) => ~back.ok
      /\ ~separated /\ ~minusZero => back.ok /\ back # Read(c)
=============================================================================
