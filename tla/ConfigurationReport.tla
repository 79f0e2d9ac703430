------------------------- MODULE ConfigurationReport -------------------------
(***************************************************************************)
(* The reports of Configuration as sequences of lines, and how the parser  *)
(* of INI files reads lines back. The order of the keys of a tree is some  *)
(* order.                                                                  *)
(***************************************************************************)
EXTENDS Configuration

Section(path) == [section |-> path]
Line(path, value) == [key |-> path, value |-> value]

ValueKeys(t) == {p \in DOMAIN t : Len(p) = 1}
SubKeys(t) == {<<p[1]>> : p \in DOMAIN t \ ValueKeys(t)}

ValueLines(t, prefix) ==
  LET keys == SetToSeq(ValueKeys(t))
  IN  [i \in DOMAIN keys |-> Line(prefix \o keys[i], t[keys[i]])]

RECURSIVE report_as_sub(_, _), report_flatly(_, _), find_common_prefix(_)

\* report_as_sub(): a section for each sub that has values of its own.
report_as_sub(t, sub_path) ==
  LET subs == SetToSeq(SubKeys(t))
  IN  ValueLines(t, <<>>) \o
      FlattenSeq([i \in DOMAIN subs |->
        LET sub == SubTree(t, subs[i])
        IN  (IF ValueKeys(sub) = {} THEN <<>> ELSE <<Section(sub_path \o subs[i])>>)
            \o report_as_sub(sub, sub_path \o subs[i])])

\* report_flatly(): everything below the common prefix with its full key.
report_flatly(t, prefix) ==
  LET subs == SetToSeq(SubKeys(t))
  IN  ValueLines(t, prefix) \o
      FlattenSeq([i \in DOMAIN subs |-> report_flatly(SubTree(t, subs[i]), prefix \o subs[i])])

\* find_common_prefix(): down to the first sub that has values or several subs.
find_common_prefix(t) ==
  IF ValueKeys(t) = {} /\ \E s \in SubKeys(t) : SubKeys(t) = {s}
  THEN LET s == CHOOSE s \in SubKeys(t) : TRUE IN s \o find_common_prefix(SubTree(t, s))
  ELSE <<>>

\* Mutant: a common prefix is looked for although there are values above it.
ReportCommon(t) ==
  LET common == IF SubKeys(t) = {} THEN <<>> ELSE CHOOSE s \in SubKeys(t) : TRUE
  IN  IF common # <<>> THEN <<Section(common)>> \o report_flatly(SubTree(t, common), <<>>)
      ELSE report_as_sub(t, <<>>)

\* report() without a prefix
Report(t) ==
  LET common == find_common_prefix(t)
  IN  IF SubKeys(t) # {} /\ ValueKeys(t) = {} /\ common # <<>>
      THEN <<Section(common)>> \o report_flatly(SubTree(t, common), <<>>)
      ELSE report_as_sub(t, <<>>)

\* ParameterTreeParser::readINITree(): a section holds until the next one.
ReadBack(lines) ==
  LET Holds(i) == {j \in 1 .. i : "section" \in DOMAIN lines[j]}
      Place(i) == IF Holds(i) = {} THEN <<>>
                  ELSE lines[CHOOSE j \in Holds(i) : \A k \in Holds(i) : k <= j].section
      keys == {i \in DOMAIN lines : "key" \in DOMAIN lines[i]}
  IN  [p \in {Place(i) \o lines[i].key : i \in keys} |->
         lines[CHOOSE i \in keys : p = Place(i) \o lines[i].key].value]

\* The report that a configuration leaves in its logfile on exit, read back as a
\* parameter file, gives the same configuration, whichever of the three layouts
\* report() chooses for it.
ReportReadsBack == ReadBack(Report(tree)) = tree
==============================================================================
