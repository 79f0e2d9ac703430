-------------------------- MODULE LocalizationStudy --------------------------
(***************************************************************************)
(* LocalizationStudy::run(): the layout of its table and the order in      *)
(* which indicators are computed and printed. An indicator is the width of *)
(* its id.                                                                 *)
(***************************************************************************)
EXTENDS Integers, Sequences, SequencesExt, FiniteSetsExt

total_width == 80
\* " ||", three titles of 20 and the two bars between them
header_line == 3 + 20 + 1 + 20 + 1 + 20

\* The first column has place for all ids and fills the table up.
FirstColumn(indicators) == Max(indicators \cup {total_width - header_line - 1})

\* The width of an id in its column: filled up from both sides, while a number
\* of blanks below half of what is missing has been added. An empty id is "???".
IdWidth(id, first_column_size) ==
  LET size == IF id = 0 THEN 3 ELSE id
      missing == first_column_size - size
      turns == (missing + 1) \div 2
      filled == size + 2 * turns
  IN  IF size >= first_column_size THEN first_column_size
      ELSE IF filled = first_column_size - 1 THEN filled + 1 ELSE filled

\* All indicators of the study, or those of them that are asked for.
UsedIndicators(provided, only) ==
  IF only = {} THEN provided ELSE SelectSeq(provided, LAMBDA indicator : indicator \in only)

\* Bug: the length of an indicator is checked after its row is printed.
RunPrintsFirst(provided, only, length, reference) ==
  LET used == UsedIndicators(provided, only)
      wrong == {k \in DOMAIN used : length[used[k]] # reference}
  IN  IF used = <<>> \/ reference = 0 \/ wrong = {}
      THEN [header |-> used # <<>>, rows |-> IF reference = 0 THEN <<>> ELSE used,
            begun |-> 0, thrown |-> used = <<>> \/ reference = 0]
      ELSE [header |-> TRUE, rows |-> SubSeq(used, 1, Min(wrong)), begun |-> 0, thrown |-> TRUE]

\* The table up to what throws: no indicator to print, before the header; no
\* reference to compare with; or an indicator of another length, when the first
\* column of its row has been begun.  length is that of an indicator's values.
Run(provided, only, length, reference) ==
  LET used == UsedIndicators(provided, only)
      wrong == {k \in DOMAIN used : length[used[k]] # reference}
  IN  IF used = <<>> THEN [header |-> FALSE, rows |-> <<>>, begun |-> 0, thrown |-> TRUE]
      ELSE IF reference = 0 THEN [header |-> TRUE, rows |-> <<>>, begun |-> 0, thrown |-> TRUE]
      ELSE IF wrong = {} THEN [header |-> TRUE, rows |-> used, begun |-> 0, thrown |-> FALSE]
      ELSE [header |-> TRUE, rows |-> SubSeq(used, 1, Min(wrong) - 1),
            begun |-> used[Min(wrong)], thrown |-> TRUE]

\* A run prints a row for each indicator asked for, in the order of the study, all
\* of the length of the reference; only one that throws leaves some out, and then
\* what it has begun to print is the first that does not fit.
RowsAreComparable(provided, only, length, reference) ==
  LET run == Run(provided, only, length, reference)
      asked == ToSet(provided) \cap (IF only = {} THEN ToSet(provided) ELSE only)
  IN  /\ \A i \in DOMAIN run.rows : length[run.rows[i]] = reference
      /\ IsPrefix(run.rows, UsedIndicators(provided, only))
      /\ run.thrown = (ToSet(run.rows) # asked \/ asked = {})
      /\ run.begun # 0 => run.begun \in asked \ ToSet(run.rows) /\ length[run.begun] # reference

\* The rows of the table are as wide as its first column says.
IdFillsColumn(indicators) ==
  \A id \in indicators : IdWidth(id, FirstColumn(indicators)) = FirstColumn(indicators)
==============================================================================
