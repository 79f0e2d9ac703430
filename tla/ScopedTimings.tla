---------------------------- MODULE ScopedTimings ----------------------------
(***************************************************************************)
(* ScopedTiming and OutputScopedTiming of timings.hh and timings.cc in one *)
(* thread: a constructor that starts a section, destructors that stop it.  *)
(***************************************************************************)
EXTENDS Timings, Sequences

CONSTANTS
  MaxDepth    \* bound on the nesting

\* The one thread there is uses every section: a value for Users.
OneUser == [s \in Sections |-> Threads]

ASSUME ScopesAssumption == Threads = {First} /\ Users = OneUser /\ MaxDepth \in Nat

VARIABLES
  scopes,   \* the scopes entered and not left, innermost last; `own` says
            \* whether ~OutputScopedTiming() has to run before ~ScopedTiming()
  leaving,  \* whether it has, and ~ScopedTiming() has not
  cut       \* for the properties: sections of entered scopes that a reset or
            \* an inner scope of the same name has stopped

scopeVars == <<scopes, leaving, cut>>
scopedVars == <<vars, scopeVars>>

Entered == {scopes[i].section : i \in DOMAIN scopes}

Top == scopes[Len(scopes)]

\* Mutant: ~ScopedTiming() stops the section of the scope around it.
LeaveOuter ==
  /\ pc[First] = "idle" /\ scopes # <<>> /\ ~Top.own
  /\ Call(First, "stop", scopes[1].section, "stop")
  /\ scopes' = SubSeq(scopes, 1, Len(scopes) - 1)
  /\ leaving' = FALSE
  /\ cut' = (cut \cup {Top.section}) \cap {scopes[i].section : i \in 1 .. Len(scopes) - 1}

ScopedInit == Init /\ ~matched /\ scopes = <<>> /\ leaving = FALSE /\ cut = {}

Enter(s, own) ==
  /\ pc[First] = "idle" /\ ~leaving /\ Len(scopes) < MaxDepth
  /\ commited[s] # None => commited[s] <= MaxTotal
  /\ Call(First, "start", s, "start")
  /\ scopes' = Append(scopes, [section |-> s, own |-> own])
  /\ cut' = cut \ {s}
  /\ UNCHANGED leaving

\* ~OutputScopedTiming()
LeaveOutput ==
  /\ pc[First] = "idle" /\ scopes # <<>> /\ Top.own
  /\ Call(First, "stop", Top.section, "stop")
  /\ scopes' = [scopes EXCEPT ![Len(scopes)].own = FALSE]
  /\ leaving' = TRUE
  /\ UNCHANGED cut

\* ~ScopedTiming(), also run after ~OutputScopedTiming().
Leave ==
  /\ pc[First] = "idle" /\ scopes # <<>> /\ ~Top.own
  /\ Call(First, "stop", Top.section, "stop")
  /\ scopes' = SubSeq(scopes, 1, Len(scopes) - 1)
  /\ leaving' = FALSE
  /\ cut' = (cut \cup {Top.section}) \cap {scopes[i].section : i \in 1 .. Len(scopes) - 1}

\* The program resets a section, inside a scope or not.
Reset(s) ==
  /\ ~leaving /\ CallReset(First, s)
  /\ cut' = cut \cup ({s} \cap Entered)
  /\ UNCHANGED <<scopes, leaving>>

ScopedNext ==
  \/ (Tick \/ Inside(First)) /\ UNCHANGED scopeVars
  \/ \E s \in Sections, own \in BOOLEAN : Enter(s, own)
  \/ \E s \in Sections : Reset(s)
  \/ LeaveOutput
  \/ Leave

ScopedSpec == ScopedInit /\ [][ScopedNext]_scopedVars

-----------------------------------------------------------------------------
ScopedTypeOK ==
  TypeOK /\ leaving \in BOOLEAN /\ Len(scopes) <= MaxDepth /\ cut \subseteq Entered

\* A section is timed exactly while a scope of that name is entered ("a
\* utility class to time a limited scope of code", timings.hh:71), nested
\* scopes of other names and kinds included. A scope nested in one of its own
\* name ends the timing of both when it is left, as reset() does.
ScopesTimed == Quiet /\ ~leaving => {s \in Sections : On(s)} = Entered \ cut

\* Scopes nested in any order time their sections and lose no time.
ScopedInv == ScopedTypeOK /\ ScopesTimed /\ NoTimeLost
==============================================================================
