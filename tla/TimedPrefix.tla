----------------------------- MODULE TimedPrefix ------------------------------
(***************************************************************************)
(* TimedPrefixedStreamBuffer of logstreams.cc: sync() writes what came in  *)
(* since the last one, split into lines, with elapsed time and prefix      *)
(* ("prefix") at the start of every line, also of one that began in an     *)
(* earlier sync(). A text is a sequence of "x" (part of a line) and "nl".  *)
(***************************************************************************)
EXTENDS Naturals, Sequences, SequencesExt

CONSTANT Limit   \* bound on the length of all that is written

ASSUME LimitAssumption == Limit \in Nat

VARIABLES
  text,            \* str()
  out_,            \* what the stream behind has received
  prefix_needed_,
  synced           \* all that was written before the last sync()

prefixVars == <<text, out_, prefix_needed_, synced>>

Chars == {"x", "nl"}

PrefixInit == text = <<>> /\ out_ = <<>> /\ prefix_needed_ = TRUE /\ synced = <<>>

\* tokenize(str, "\n", token_compress_off): the parts between the line
\* breaks, one more than there are breaks.
tokenize(str) ==
  LET lines[n \in 0 .. Len(str)] ==
        IF n = 0 THEN << <<>> >>
        ELSE IF str[n] = "nl" THEN Append(lines[n - 1], <<>>)
        ELSE [lines[n - 1] EXCEPT ![Len(lines[n - 1])] = Append(@, str[n])]
  IN  lines[Len(str)]

\* xsputn of the stringbuf
Write(c) ==
  /\ Len(synced) + Len(text) < Limit
  /\ text' = Append(text, c)
  /\ UNCHANGED <<out_, prefix_needed_, synced>>

\* The lines after the first, of which there are n, each on a line of its own.
LinesAfterFirst(lines, n) ==
  LET printed[ii \in 0 .. Len(lines) - 1] ==
        IF ii = 0 THEN <<>> ELSE printed[ii - 1] \o <<"nl", "prefix">> \o lines[ii + 1]
  IN  printed[n]

\* Mutant: the line after a last line break gets its prefix at once.
RestPrefixed(lines) == LinesAfterFirst(lines, Len(lines) - 1)

\* All lines but the first: an empty last one waits for its prefix.
Rest(lines) ==
  IF Len(lines) = 1 THEN <<>>
  ELSE IF Last(lines) # <<>> THEN LinesAfterFirst(lines, Len(lines) - 1)
  ELSE LinesAfterFirst(lines, Len(lines) - 2) \o <<"nl">>

sync ==
  LET lines == tokenize(text)
      first == IF prefix_needed_ /\ text # <<>> THEN <<"prefix">> ELSE <<>>
  IN  /\ out_' = out_ \o first \o lines[1] \o Rest(lines)
      /\ prefix_needed_' = ((prefix_needed_ /\ text = <<>>)
                            \/ (Len(lines) > 1 /\ Last(lines) = <<>>))
      /\ synced' = synced \o text
      /\ text' = <<>>

PrefixNext == sync \/ \E c \in Chars : Write(c)

PrefixSpec == PrefixInit /\ [][PrefixNext]_prefixVars

-----------------------------------------------------------------------------
LineStarts(str, i) == i = 1 \/ str[i - 1] = "nl"

Prefixed(str) ==
  LET shown[n \in 0 .. Len(str)] ==
        IF n = 0 THEN <<>>
        ELSE shown[n - 1] \o (IF LineStarts(str, n) THEN <<"prefix">> ELSE <<>>) \o <<str[n]>>
  IN  shown[Len(str)]

\* What the class promises: "begins every line by printing elapsed time and
\* prefix" (logstreams.hh:212), whatever sync() calls cut the text into.
EveryLinePrefixed == out_ = Prefixed(synced)
==============================================================================
