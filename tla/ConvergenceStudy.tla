-------------------------- MODULE ConvergenceStudy ---------------------------
(***************************************************************************)
(* ConvergenceStudy::run(): what it asks of the study and in which order,  *)
(* what it reads of the data, and the widths of what it prints. A text is  *)
(* its width, the id of a quantity the widths of its words.                *)
(***************************************************************************)
EXTENDS Integers, Sequences, SequencesExt

CONSTANTS
  Studies,    \* what studies provide, and what run() is called with
  WordsOf,    \* the widths of the words of the ids of quantities
  TitleWidth, \* the width of discretization_info_title()
  InfoWidth   \* the width of discretization_info()

Types == {"target", "norm", "quantity"}

ASSUME StudiesAssumption ==
  /\ TitleWidth \in Nat /\ InfoWidth \in Nat
  /\ \A s \in Studies :
       /\ s.refinements \in Nat /\ s.only \subseteq STRING
       /\ s.targets \in Seq(STRING) /\ s.norms \in Seq(STRING) /\ s.quantities \in Seq(STRING)
       /\ s.gives \in [0 .. s.refinements -> SUBSET (Types \X STRING)]
       /\ \A id \in Range(s.quantities) : WordsOf[id] \in Seq(Nat)

column_width == 8

VARIABLES
  study,    \* targets(), norms(), quantities(), num_refinements(), only_these, and
            \* what compute() gives on each level, and where it is zero
  level,
  column,   \* the next one to print: of the i-th id of a type, its value (j = 0) or
            \* its EOC with respect to target j
  row,      \* the width of what has been printed of this row
  data,     \* what compute() returned on each level so far
  calls,    \* the calls of discretization_info() and compute()
  outcome

studyVars == <<study, level, column, row, data, calls, outcome>>

-----------------------------------------------------------------------------
\* filter()
Filtered(ids, only) ==
  LET ret[n \in 0 .. Len(ids)] ==
        IF n = 0 THEN <<>>
        ELSE IF only = {} \/ ids[n] \in only THEN Append(ret[n - 1], ids[n])
        ELSE ret[n - 1]
  IN  ret[Len(ids)]

\* If no target is asked for all of them are used.
ActualTargets ==
  LET filtered == Filtered(study.targets, study.only)
  IN  IF filtered = <<>> THEN study.targets ELSE filtered
ActualNorms == Filtered(study.norms, study.only)
ActualQuantities == Filtered(study.quantities, study.only)

eoc_column_width == IF Len(ActualTargets) > 1 THEN 8 ELSE 4

\* lfill() and cfill() cut or fill up to the width asked for.
Cell(width) == 3 + width

\* The size of an id: its words with blanks in between.
Width(words) ==
  LET sum[n \in 0 .. Len(words)] == IF n = 0 THEN 0 ELSE sum[n - 1] + words[n]
  IN  sum[Len(words)] + Len(words) - 1

\* Whether another word fits into a row. The difference is unsigned: next to a
\* word that fills the row anything fits.
FitsRow(word, used) == used >= column_width \/ word <= column_width - used - (IF used = 0 THEN 0 ELSE 1)

\* The loop that places words in the three rows ends behind the last word, or before one
\* that is longer than a row.
Stops(p) == p.i > Len(p.words) \/ p.words[p.i] > column_width

\* The rows from the last one used on that have room for the next word.
Roomy(p) == {r \in p.last_row .. 3 : FitsRow(p.words[p.i], p.rows[r])}

FirstRoomy(p) == CHOOSE r \in Roomy(p) : \A q \in Roomy(p) : r <= q

\* One turn of the loop. An erase() moves the iterator to the next word, which the loop
\* then steps over.
Placed(p) ==
  IF Stops(p) THEN p
  ELSE IF Roomy(p) = {} THEN [p EXCEPT !.i = @ + 1]
  ELSE [words |-> RemoveAt(p.words, p.i), i |-> p.i + 1,
        rows |-> [p.rows EXCEPT ![FirstRoomy(p)] = @ + p.words[p.i] + (IF @ = 0 THEN 0 ELSE 1)],
        last_row |-> FirstRoomy(p)]

\* What the loop leaves: there are no more turns than words.
WrappedWords(id) ==
  LET turn[n \in 0 .. Len(WordsOf[id])] ==
        IF n = 0 THEN [words |-> WordsOf[id], i |-> 1, rows |-> [r \in 1 .. 3 |-> 0], last_row |-> 1]
        ELSE Placed(turn[n - 1])
  IN  turn[Len(WordsOf[id])]

\* The iterator went past the end.
Overruns(p) == p.i > Len(p.words) + 1

Wraps(id) == Width(WordsOf[id]) > column_width

\* The three rows of a quantity's header, filled or cut by lfill().
QuantityHeader(id) == <<column_width, column_width, column_width>>

QuantitiesWidth(r) ==
  LET sum[n \in 0 .. Len(ActualQuantities)] ==
        IF n = 0 THEN 0 ELSE sum[n - 1] + Cell(QuantityHeader(ActualQuantities[n])[r])
  IN  sum[Len(ActualQuantities)]

\* The widths of h1, d1, h2 and delim.
HeaderWidths ==
  LET t == Len(ActualTargets)
      n == Len(ActualNorms)
  IN  << 2 + TitleWidth + t * Cell(column_width)
           + n * Cell(column_width + t * Cell(eoc_column_width)) + QuantitiesWidth(1),
         TitleWidth + 2 + t * (column_width + 3)
           + n * (1 + column_width + 2 + t * Cell(eoc_column_width)) + QuantitiesWidth(2),
         1 + TitleWidth + 1 + t * Cell(column_width)
           + n * (Cell(column_width) + t * Cell(eoc_column_width)) + QuantitiesWidth(3),
         TitleWidth + 2 + (t + n + Len(ActualQuantities)) * (1 + column_width + 2)
           + n * t * (1 + eoc_column_width + 2) >>

\* The first column of a row is the info in the width of the title, but for an empty
\* title: cfill() still writes the dot that says it was cut.
RowStart == 2 + IF TitleWidth = 0 /\ InfoWidth # 0 THEN InfoWidth + 1 ELSE TitleWidth

\* The loops over the columns: each target, each norm with an EOC for each target, each
\* quantity.
ActualIds(type) ==
  IF type = "target" THEN ActualTargets ELSE IF type = "norm" THEN ActualNorms ELSE ActualQuantities

Column(type, i, j) == [type |-> type, i |-> i, j |-> j]
EndOfRow == Column("end", 0, 0)
FirstQuantity == IF ActualQuantities = <<>> THEN EndOfRow ELSE Column("quantity", 1, 0)
FirstNorm == IF ActualNorms = <<>> THEN FirstQuantity ELSE Column("norm", 1, 0)

After(c) ==
  IF c.type = "norm" /\ c.j < Len(ActualTargets) THEN Column(c.type, c.i, c.j + 1)
  ELSE IF c.i < Len(ActualIds(c.type)) THEN Column(c.type, c.i + 1, 0)
  ELSE IF c.type = "target" THEN FirstNorm
  ELSE IF c.type = "norm" THEN FirstQuantity
  ELSE EndOfRow

IdOf(c) == ActualIds(c.type)[c.i]

\* extract() throws unless this holds.
HasData(l, type, id) == l \in DOMAIN data /\ <<type, id>> \in data[l]

\* print_eoc() reads the value of the level before, and the rest unless it is zero.
EocHas(type, id, target) ==
  /\ HasData(level - 1, type, id)
  /\ <<level - 1, type, id>> \notin study.zero =>
       HasData(level, type, id) /\ HasData(level - 1, "target", target) /\ HasData(level, "target", target)

\* Mutant: there is an EOC on the first level as well.
AvailableEverywhere(c) ==
  IF c.j = 0 THEN HasData(level, c.type, IdOf(c)) ELSE EocHas(c.type, IdOf(c), ActualTargets[c.j])

\* On level 0 an EOC is dashes.
Available(c) ==
  IF c.j = 0 THEN HasData(level, c.type, IdOf(c))
  ELSE level = 0 \/ EocHas(c.type, IdOf(c), ActualTargets[c.j])

-----------------------------------------------------------------------------
StudyInit ==
  /\ study \in Studies
  /\ level = 0 /\ column = EndOfRow /\ row = 0
  /\ data = [l \in {} |-> {}] /\ calls = <<>>
  /\ outcome = "start"

\* Checks what there is to compute, and prints the header.
Start ==
  /\ outcome = "start"
  /\ outcome' = IF study.targets = <<>> \/ ActualNorms \o ActualQuantities = <<>>
                THEN "you_are_using_this_wrong"
                ELSE IF \E id \in Range(ActualQuantities) : Wraps(id) /\ Overruns(WrappedWords(id))
                THEN "undefined" ELSE "running"
  /\ UNCHANGED <<study, level, column, row, data, calls>>

\* The statistics of a new level are asked for and printed, then it is computed.
Level ==
  /\ outcome = "running" /\ level \notin DOMAIN data
  /\ row' = RowStart
  /\ calls' = calls \o <<<<"discretization_info", level>>, <<"compute", level>>>>
  /\ data' = [l \in 0 .. level |-> IF l = level THEN study.gives[l] ELSE data[l]]
  /\ column' = Column("target", 1, 0)
  /\ UNCHANGED <<study, level, outcome>>

\* The next column is printed if its data is there.
FillColumn ==
  /\ outcome = "running" /\ level \in DOMAIN data /\ column # EndOfRow
  /\ IF Available(column)
     THEN /\ column' = After(column)
          /\ row' = row + Cell(IF column.j = 0 THEN column_width ELSE eoc_column_width)
          /\ UNCHANGED outcome
     ELSE outcome' = "requirements_not_met" /\ UNCHANGED <<column, row>>
  /\ UNCHANGED <<study, level, data, calls>>

EndOfLine ==
  /\ outcome = "running" /\ level \in DOMAIN data /\ column = EndOfRow
  /\ IF level < study.refinements THEN level' = level + 1 /\ UNCHANGED outcome
     ELSE outcome' = "done" /\ UNCHANGED level
  /\ UNCHANGED <<study, column, row, data, calls>>

\* What run() returns: everything compute() gave, by level.
ReturnData(type, id) == {l \in DOMAIN data : <<type, id>> \in data[l]}

StudyNext == Start \/ Level \/ FillColumn \/ EndOfLine

StudySpec == StudyInit /\ [][StudyNext]_studyVars

-----------------------------------------------------------------------------
\* A table that was started is aligned: its header rows are as wide as each
\* other and, if the column for the infos has a title, as every row of numbers,
\* for any choice of targets, norms and quantities.
TableAligned ==
  outcome \in {"running", "done"} =>
    /\ \A i \in 1 .. 4 : HeaderWidths[i] = HeaderWidths[1]
    /\ TitleWidth # 0 /\ level \in DOMAIN data /\ column = EndOfRow => row = HeaderWidths[1]

\* An EOC never lacks data: run() only ends with requirements_not_met when the
\* value in a column of its own is missing on the level just computed.
EocsHaveData == outcome = "requirements_not_met" =>
  column.j = 0 /\ <<column.type, IdOf(column)>> \notin study.gives[level]

\* On each new level discretization_info() is called first, then compute(), and
\* no level is left out or repeated.
CalledInOrder ==
  /\ \A i \in DOMAIN calls :
       calls[i] = <<IF i % 2 = 1 THEN "discretization_info" ELSE "compute", (i - 1) \div 2>>
  /\ outcome = "done" => Len(calls) = 2 * (study.refinements + 1)

\* What is returned has a value on every level for all that was asked for. If
\* no target was asked for it has all of them.
ResultComplete ==
  outcome = "done" =>
    \A id \in UNION {Range(study.targets), Range(study.norms), Range(study.quantities)} :
      study.only = {} \/ id \in study.only =>
        \E type \in Types : ReturnData(type, id) = 0 .. study.refinements

\* What convergence-study.cc:225 says of the loop over the words of an id, "lets see if we
\* can fit all words in these rows somehow nicely": up to three words that each fit into a
\* row are all placed, and the loop ends where the words do.
WordsArePlaced ==
  \A id \in Range(ActualQuantities) :
    Wraps(id) /\ Len(WordsOf[id]) <= 3 /\ (\A n \in DOMAIN WordsOf[id] : WordsOf[id][n] <= column_width)
      => ~Overruns(WrappedWords(id)) /\ WrappedWords(id).words = <<>>

\* A study that ends has called what it had to, printed an aligned table and returns
\* all the data; what ends otherwise lacked data or had a header to wrap.
StudyInv == TableAligned /\ EocsHaveData /\ CalledInOrder /\ ResultComplete
==============================================================================
