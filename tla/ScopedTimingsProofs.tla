------------------------- MODULE ScopedTimingsProofs -------------------------
(***************************************************************************)
(* Scopes nested in any order time their sections and lose no time, for    *)
(* any sections and any depth: the scopes are one thread's, so what is     *)
(* proved of Timings holds, and the timers follow the scopes.              *)
(***************************************************************************)
EXTENDS ScopedTimings, TimingsProofs, SequenceTheorems

-----------------------------------------------------------------------------
\* The inductive invariant.

Scopes == [section : Sections, own : BOOLEAN]

ScopesShape ==
  /\ ~matched
  /\ scopes \in Seq(Scopes) /\ Len(scopes) <= MaxDepth
  /\ leaving \in BOOLEAN
  /\ cut \subseteq Entered
  /\ leaving => scopes # <<>> /\ ~Top.own
  /\ call[First] \in {"none", "start", "stop", "reset"}

\* The sections a constructor, a destructor or a reset is about.
InHand ==
  (IF pc[First] = "idle" THEN {} ELSE {arg[First]}) \cup
  (IF leaving THEN {Top.section} ELSE {})

\* The other timers follow the scopes, and this one is about to.
ScopesFollow ==
  /\ \A s \in Sections \ InHand : On(s) <=> s \in Entered \ cut
  /\ pc[First] # "idle" =>
       IF call[First] = "start" THEN ~leaving /\ arg[First] \in Entered \ cut
       ELSE IF leaving THEN arg[First] = Top.section
       ELSE arg[First] \notin Entered \ cut

ScopedIndInv == TimingsIndInv /\ TimersFollow /\ ScopesShape /\ ScopesFollow

-----------------------------------------------------------------------------
\* What one thread does is disciplined, whatever it does.
LEMMA OneThread ==
  /\ Threads = {First} /\ Disciplined
  /\ \A s \in Sections : Users[s] = {First}
BY ScopesAssumption DEF Disciplined, OneUser

\* What the invariant of Timings is used for.
LEMMA ScopedWorks == ScopedIndInv => Working
BY OneThread DEF ScopedIndInv, TimingsIndInv, Working

\* A step inside a function keeps the timers with the scopes.
LEMMA InsideFollows ==
  ASSUME ScopedIndInv, Inside(First), UNCHANGED scopeVars
  PROVE  ScopesShape' /\ ScopesFollow'
<1>1. Working /\ TimersFollow /\ First \in Threads /\ Threads = {First}
  BY ScopedWorks, TimingsAssumption, OneThread DEF ScopedIndInv
<1>2. ~(NextSection(First) \/ LastSection(First) \/ Clear(First))
  BY <1>1 DEF Working, Protocol, OfAll, ScopedIndInv, ScopesShape,
              NextSection, LastSection, Clear
<1>3. PICK s : s = arg[First]
  OBVIOUS
<1>4. Confined(First, s) /\ matched' = matched
  BY <1>1, <1>2, <1>3, StepIsConfined, MatchedStays
<1>5. /\ s \in Sections /\ pc[First] # "idle" /\ arg'[First] = s /\ call' = call
      /\ \A r \in Sections \ {s} : On(r)' <=> On(r)
  BY <1>1, <1>4 DEF Confined, On
<1>6. pc'[First] = "idle" => (On(s)' <=> call[First] = "start")
  BY <1>1, <1>2, <1>4, <1>5, TimerStep DEF TimerLeft
<1>7. scopes' = scopes /\ leaving' = leaving /\ cut' = cut /\ Entered' = Entered /\ Top' = Top
  BY DEF scopeVars, Entered, Top
<1>8. ScopesShape'
  BY <1>4, <1>5, <1>7 DEF ScopedIndInv, ScopesShape
<1>9. ScopesFollow'
  <2>1. IF call[First] = "start" THEN ~leaving /\ s \in Entered \ cut
        ELSE IF leaving THEN s = Top.section
        ELSE s \notin Entered \ cut
    BY <1>3, <1>5 DEF ScopedIndInv, ScopesFollow
  <2>2. ASSUME NEW r \in Sections \ InHand' PROVE On(r)' <=> r \in Entered \ cut
    <3>1. CASE r = s
      <4>1. pc'[First] = "idle" /\ ~leaving
        BY <1>5, <1>7, <2>1, <2>2, <3>1 DEF InHand
      <4> QED
        BY <1>6, <2>1, <3>1, <4>1
    <3>2. CASE r # s
      <4>1. r \notin InHand
        BY <1>3, <1>5, <1>7, <2>2, <3>2 DEF InHand
      <4> QED
        BY <1>5, <3>2, <4>1 DEF ScopedIndInv, ScopesFollow
    <3> QED
      BY <3>1, <3>2
  <2> QED
    BY <1>5, <1>7, <2>1, <2>2 DEF ScopesFollow
<1> QED
  BY <1>8, <1>9

-----------------------------------------------------------------------------
\* A constructor, a destructor or the program calls f for s, at the label it begins with.
CallOf(f, s, label) ==
  /\ s \in Sections /\ pc[First] = "idle" /\ Call(First, f, s, label)
  /\ \/ f = "start" /\ label = "start"
     \/ f \in {"stop", "reset"} /\ label = "stop"

\* Timings is called as it may be; the call changes neither timers nor flags.
LEMMA ScopedCall ==
  ASSUME ScopedIndInv, NEW f, NEW s, NEW label, CallOf(f, s, label)
  PROVE  /\ TimingsIndInv' /\ TimersFollow'
         /\ arg'[First] = s /\ call'[First] = f /\ pc'[First] # "idle" /\ matched' = matched
         /\ \A r \in Sections : On(r)' <=> On(r)
<1>1. Working /\ First \in Threads /\ Threads = {First} /\ Shape /\ Protocol
  BY ScopedWorks, TimingsAssumption, OneThread DEF Working
<1>2. Called(First, f, s, label)
  BY <1>1, OneThread DEF CallOf, Called, MayCall
<1>3. CallSet(First, f, s, label) /\ label \in {"start", "stop"}
  BY <1>1, <1>2, CallSets DEF CallOf
<1>4. Shape'
  BY <1>1 DEF CallOf, Call, Goto, shared, Shape, Labels
<1>5. Protocol'
  BY <1>1, <1>3 DEF CallOf, CallSet, Protocol
<1>6. OwnWork'
  BY <1>1 DEF OwnWork
<1>7. Balance'
  BY <1>1, <1>2, CallStep
<1>8. matched' = matched /\ \A r \in Sections : On(r)' <=> On(r)
  BY DEF CallOf, Call, shared, On
<1>9. TimersFollow'
  <2>1. ~matched /\ TimersFollow
    BY DEF ScopedIndInv, ScopesShape
  <2>2. StopsRunning(f, s)
    BY <2>1 DEF StopsRunning
  <2>3. Working'
    BY <1>4, <1>5, <1>6, <1>7, OneThread DEF Working, Disciplined
  <2> QED
    BY <1>1, <1>2, <2>1, <2>2, <2>3, CallFollows
<1> QED
  BY <1>3, <1>4, <1>5, <1>6, <1>7, <1>8, <1>9 DEF TimingsIndInv, CallSet

\* The innermost scope, and those around it.
LEMMA TopOfScopes ==
  ASSUME ScopesShape, scopes # <<>>
  PROVE  /\ Len(scopes) \in Nat \ {0} /\ Top \in Scopes /\ Top.section \in Entered
         /\ Entered \subseteq Sections
<1>1. scopes \in Seq(Scopes)
  BY DEF ScopesShape
<1>2. Len(scopes) \in Nat \ {0} /\ DOMAIN scopes = 1 .. Len(scopes)
  BY <1>1
<1>3. \A i \in 1 .. Len(scopes) : scopes[i] \in Scopes
  BY <1>1, <1>2
<1> QED
  BY <1>2, <1>3 DEF Top, Entered, Scopes

\* A constructor starts the section it enters.
LEMMA EnterStep ==
  ASSUME ScopedIndInv, NEW s \in Sections, NEW own \in BOOLEAN, Enter(s, own)
  PROVE  ScopedIndInv'
<1>1. CallOf("start", s, "start")
  BY DEF Enter, CallOf
<1>2. /\ TimingsIndInv' /\ TimersFollow'
      /\ arg'[First] = s /\ call'[First] = "start" /\ pc'[First] # "idle" /\ matched' = matched
      /\ \A r \in Sections : On(r)' <=> On(r)
  BY <1>1, ScopedCall
<1>3. /\ pc[First] = "idle" /\ ~leaving /\ leaving' = leaving /\ Len(scopes) < MaxDepth
      /\ scopes' = Append(scopes, [section |-> s, own |-> own]) /\ cut' = cut \ {s}
  BY DEF Enter
<1>4. scopes \in Seq(Scopes) /\ MaxDepth \in Nat /\ cut \subseteq Entered
  BY ScopesAssumption DEF ScopedIndInv, ScopesShape
<1>5. [section |-> s, own |-> own] \in Scopes
  BY DEF Scopes
<1>6. /\ scopes' \in Seq(Scopes) /\ Len(scopes') = Len(scopes) + 1
      /\ \A i \in 1 .. Len(scopes) : scopes'[i] = scopes[i]
      /\ scopes'[Len(scopes) + 1] = [section |-> s, own |-> own]
      /\ DOMAIN scopes = 1 .. Len(scopes) /\ DOMAIN scopes' = 1 .. (Len(scopes) + 1)
      /\ Len(scopes) \in Nat
  BY <1>3, <1>4, <1>5
<1>7. Entered' = Entered \cup {s}
  <2>1. \A i \in DOMAIN scopes' : i \in DOMAIN scopes \/ i = Len(scopes) + 1
    BY <1>6
  <2>2. Len(scopes) + 1 \in DOMAIN scopes' /\ DOMAIN scopes \subseteq DOMAIN scopes'
    BY <1>6
  <2>3. \A r : r \in Entered' <=> (r \in Entered \/ r = s)
    BY <1>6, <2>1, <2>2 DEF Entered
  <2> QED
    BY <2>3
<1>8. ScopesShape'
  <2>1. Len(scopes') <= MaxDepth /\ cut' \subseteq Entered'
    BY <1>3, <1>4, <1>6, <1>7
  <2> QED
    BY <1>2, <1>3, <1>6, <2>1 DEF ScopedIndInv, ScopesShape
<1>9. ScopesFollow'
  <2>1. \A r \in Sections \ {s} : r \in Entered' \ cut' <=> r \in Entered \ cut
    BY <1>3, <1>7
  <2>2. \A r \in Sections : On(r) <=> r \in Entered \ cut
    BY <1>3 DEF ScopedIndInv, ScopesFollow, InHand
  <2>3. s \in InHand'
    BY <1>2 DEF InHand
  <2>4. s \in Entered' \ cut'
    BY <1>3, <1>7
  <2> QED
    BY <1>2, <1>3, <2>1, <2>2, <2>3, <2>4 DEF ScopesFollow
<1> QED
  BY <1>2, <1>8, <1>9 DEF ScopedIndInv

\* ~OutputScopedTiming() stops the section of the innermost scope, which is left later.
LEMMA LeaveOutputStep ==
  ASSUME ScopedIndInv, LeaveOutput
  PROVE  ScopedIndInv'
<1>1. /\ pc[First] = "idle" /\ scopes # <<>> /\ Top.own /\ leaving' = TRUE /\ cut' = cut
      /\ scopes' = [scopes EXCEPT ![Len(scopes)].own = FALSE]
  BY DEF LeaveOutput
<1>2. /\ Len(scopes) \in Nat \ {0} /\ Top \in Scopes /\ Entered \subseteq Sections
      /\ Top.section \in Sections
  BY <1>1, TopOfScopes DEF ScopedIndInv, Scopes
<1>3. ~leaving /\ scopes \in Seq(Scopes) /\ Len(scopes) <= MaxDepth /\ cut \subseteq Entered
  BY <1>1 DEF ScopedIndInv, ScopesShape
<1>4. CallOf("stop", Top.section, "stop")
  BY <1>1, <1>2 DEF LeaveOutput, CallOf
<1>5. /\ TimingsIndInv' /\ TimersFollow'
      /\ arg'[First] = Top.section /\ call'[First] = "stop" /\ pc'[First] # "idle"
      /\ matched' = matched /\ \A r \in Sections : On(r)' <=> On(r)
  BY <1>4, ScopedCall
<1>6. /\ Len(scopes') = Len(scopes) /\ DOMAIN scopes' = DOMAIN scopes
      /\ DOMAIN scopes = 1 .. Len(scopes) /\ scopes' \in Seq(Scopes)
      /\ \A i \in DOMAIN scopes : scopes'[i].section = scopes[i].section
      /\ ~scopes'[Len(scopes)].own
  <2>1. \A i \in 1 .. Len(scopes) : scopes[i] \in Scopes
    BY <1>3
  <2>2. /\ DOMAIN scopes = 1 .. Len(scopes)
        /\ DOMAIN scopes' = 1 .. Len(scopes) /\ Len(scopes) \in 1 .. Len(scopes)
        /\ \A i \in 1 .. Len(scopes) :
             scopes'[i] = IF i = Len(scopes) THEN [scopes[i] EXCEPT !.own = FALSE] ELSE scopes[i]
    <3>1. DOMAIN scopes = 1 .. Len(scopes) /\ Len(scopes) \in 1 .. Len(scopes)
      BY <1>2, <1>3
    <3>2. PICK n : n = Len(scopes)
      OBVIOUS
    <3>3. PICK new : new = [scopes[n] EXCEPT !.own = FALSE]
      OBVIOUS
    <3>4. scopes' = [scopes EXCEPT ![n] = new]
      BY <1>1, <3>2, <3>3, Zenon
    <3>5. scopes \in [1 .. n -> Scopes]
      BY <1>3, <3>2
    <3> QED
      BY <3>1, <3>2, <3>3, <3>4, <3>5
  <2>3. \A i \in 1 .. Len(scopes) :
          scopes'[i] \in Scopes /\ scopes'[i].section = scopes[i].section
    BY <2>1, <2>2 DEF Scopes
  <2>4. ~scopes'[Len(scopes)].own
    BY <2>1, <2>2 DEF Scopes
  <2>5. scopes' \in [1 .. Len(scopes) -> Scopes]
    BY <1>1, <2>2, <2>3
  <2>6. scopes' \in Seq(Scopes) /\ Len(scopes') = Len(scopes)
    BY <1>2, <2>5
  <2> QED
    BY <2>2, <2>3, <2>4, <2>6
<1>7. Entered' = Entered
  BY <1>6 DEF Entered
<1>8. Top'.section = Top.section /\ ~Top'.own
  BY <1>2, <1>6 DEF Top
<1>9. scopes' # <<>>
  BY <1>2, <1>6
<1>10. ScopesShape'
  BY <1>1, <1>3, <1>5, <1>6, <1>7, <1>8, <1>9 DEF ScopedIndInv, ScopesShape
<1>11. ScopesFollow'
  <2>1. \A r \in Sections : On(r) <=> r \in Entered \ cut
    BY <1>1, <1>3 DEF ScopedIndInv, ScopesFollow, InHand
  <2> QED
    BY <1>1, <1>5, <1>7, <1>8, <2>1 DEF ScopesFollow
<1> QED
  BY <1>5, <1>10, <1>11 DEF ScopedIndInv

\* ~ScopedTiming() stops the section of the innermost scope and leaves it.
LEMMA LeaveStep ==
  ASSUME ScopedIndInv, Leave
  PROVE  ScopedIndInv'
<1> DEFINE Outer == {scopes[i].section : i \in 1 .. (Len(scopes) - 1)}
<1>1. /\ pc[First] = "idle" /\ scopes # <<>> /\ leaving' = FALSE
      /\ scopes' = SubSeq(scopes, 1, Len(scopes) - 1)
      /\ cut' = (cut \cup {Top.section}) \cap Outer
  BY DEF Leave
<1>2. /\ Len(scopes) \in Nat \ {0} /\ Entered \subseteq Sections /\ Top.section \in Sections
  BY <1>1, TopOfScopes DEF ScopedIndInv, Scopes
<1>3. scopes \in Seq(Scopes) /\ Len(scopes) <= MaxDepth /\ cut \subseteq Entered
      /\ MaxDepth \in Nat
  BY ScopesAssumption DEF ScopedIndInv, ScopesShape
<1>4. CallOf("stop", Top.section, "stop")
  BY <1>1, <1>2 DEF Leave, CallOf
<1>5. /\ TimingsIndInv' /\ TimersFollow'
      /\ arg'[First] = Top.section /\ call'[First] = "stop" /\ pc'[First] # "idle"
      /\ matched' = matched /\ \A r \in Sections : On(r)' <=> On(r)
  BY <1>4, ScopedCall
<1>6. /\ scopes' \in Seq(Scopes) /\ Len(scopes') = Len(scopes) - 1
      /\ DOMAIN scopes' = 1 .. (Len(scopes) - 1)
      /\ \A i \in 1 .. (Len(scopes) - 1) : scopes'[i] = scopes[i]
  <2>1. 1 \in 1 .. (Len(scopes) + 1) /\ Len(scopes) - 1 \in 0 .. Len(scopes)
    BY <1>2
  <2>2. /\ scopes' \in Seq(Scopes)
        /\ Len(scopes') = IF 1 <= Len(scopes) - 1 THEN (Len(scopes) - 1) - 1 + 1 ELSE 0
        /\ \A i \in 1 .. ((Len(scopes) - 1) - 1 + 1) : scopes'[i] = scopes[1 + i - 1]
    BY <1>1, <1>3, <2>1, SubSeqProperties
  <2>3. Len(scopes') = Len(scopes) - 1
    <3>1. PICK n \in Nat \ {0} : n = Len(scopes)
      BY <1>2
    <3>2. Len(scopes') = IF 1 <= n - 1 THEN (n - 1) - 1 + 1 ELSE 0
      BY <2>2, <3>1, Zenon
    <3>3. (IF 1 <= n - 1 THEN (n - 1) - 1 + 1 ELSE 0) = n - 1
      BY <3>1
    <3> QED
      BY <3>1, <3>2, <3>3, Zenon
  <2>4. ASSUME NEW i \in 1 .. (Len(scopes) - 1) PROVE scopes'[i] = scopes[i]
    <3>1. (Len(scopes) - 1) - 1 + 1 = Len(scopes) - 1 /\ 1 + i - 1 = i
      BY <1>2, <2>4
    <3> QED
      BY <2>2, <2>4, <3>1
  <2> QED
    BY <2>2, <2>3, <2>4
<1>7. Entered' = Outer
  BY <1>6 DEF Entered
<1>8. \A r : r \in Entered <=> (r \in Outer \/ r = Top.section)
  <2>1. DOMAIN scopes = 1 .. Len(scopes)
    BY <1>3
  <2>2. \A i \in 1 .. Len(scopes) : i \in 1 .. (Len(scopes) - 1) \/ i = Len(scopes)
    BY <1>2
  <2>3. Len(scopes) \in 1 .. Len(scopes) /\ 1 .. (Len(scopes) - 1) \subseteq 1 .. Len(scopes)
    BY <1>2
  <2> QED
    BY <2>1, <2>2, <2>3 DEF Entered, Top
<1>9. ScopesShape'
  <2>1. Len(scopes') <= MaxDepth /\ cut' \subseteq Entered'
    BY <1>1, <1>2, <1>3, <1>6, <1>7
  <2> QED
    BY <1>1, <1>5, <1>6, <2>1 DEF ScopedIndInv, ScopesShape
<1>10. ScopesFollow'
  <2>1. \A r \in Sections \ {Top.section} : On(r) <=> r \in Entered \ cut
    BY <1>1 DEF ScopedIndInv, ScopesFollow, InHand
  <2>2. \A r \in Sections \ {Top.section} : r \in Entered' \ cut' <=> r \in Entered \ cut
    BY <1>1, <1>7, <1>8
  <2>3. Top.section \in InHand'
    BY <1>5 DEF InHand
  <2>4. Top.section \notin Entered' \ cut'
    BY <1>1, <1>7
  <2> QED
    BY <1>1, <1>5, <2>1, <2>2, <2>3, <2>4 DEF ScopesFollow
<1> QED
  BY <1>5, <1>9, <1>10 DEF ScopedIndInv

\* A reset ends what the scopes of its section time.
LEMMA ResetStep ==
  ASSUME ScopedIndInv, NEW s \in Sections, Reset(s)
  PROVE  ScopedIndInv'
<1>1. /\ pc[First] = "idle" /\ ~leaving /\ scopes' = scopes /\ ~leaving' /\ leaving' = leaving
      /\ cut' = cut \cup ({s} \cap Entered)
  BY DEF Reset, CallReset, MayCall
<1>2. CallOf("reset", s, "stop")
  BY DEF Reset, CallReset, MayCall, CallOf
<1>3. /\ TimingsIndInv' /\ TimersFollow'
      /\ arg'[First] = s /\ call'[First] = "reset" /\ pc'[First] # "idle" /\ matched' = matched
      /\ \A r \in Sections : On(r)' <=> On(r)
  BY <1>2, ScopedCall
<1>4. Entered' = Entered
  BY <1>1 DEF Entered
<1>5. ScopesShape'
  BY <1>1, <1>3, <1>4 DEF ScopedIndInv, ScopesShape
<1>6. ScopesFollow'
  <2>1. \A r \in Sections : On(r) <=> r \in Entered \ cut
    BY <1>1 DEF ScopedIndInv, ScopesFollow, InHand
  <2>2. s \in InHand' /\ s \notin Entered' \ cut'
    BY <1>1, <1>3, <1>4 DEF InHand
  <2> QED
    BY <1>1, <1>3, <1>4, <2>1, <2>2 DEF ScopesFollow
<1> QED
  BY <1>3, <1>5, <1>6 DEF ScopedIndInv

\* For any sections and any depth: while no destructor runs the sections that are timed are
\* those of the scopes entered, but for what a reset or an inner scope of the same name has
\* stopped, and no time is lost.
THEOREM ScopesKeepTime == ScopedSpec => []ScopedInv
<1>1. ScopedInit => ScopedIndInv
  <2> SUFFICES ASSUME ScopedInit PROVE ScopedIndInv
    OBVIOUS
  <2> USE TimingsAssumption, ScopesAssumption DEF ScopedInit
  <2>1. TimingsIndInv
    BY TimingsInitially
  <2>2. First \in Threads /\ pc[First] = "idle" /\ call[First] = "none" /\ Entered = {}
        /\ \A s \in Sections : running[s] = None /\ ~On(s) /\ ~Changing(s)
    BY DEF Init, On, NoTimer, Changing, Entered
  <2>3. ScopesShape
    <3>1. scopes = <<>> /\ scopes \in Seq(Scopes) /\ Len(scopes) <= MaxDepth
      OBVIOUS
    <3>2. leaving = FALSE /\ cut = {}
      OBVIOUS
    <3> QED
      BY <2>2, <3>1, <3>2 DEF ScopesShape
  <2>4. TimersFollow /\ ScopesFollow
    BY <2>2, FollowInitially DEF ScopesFollow
  <2> QED
    BY <2>1, <2>3, <2>4 DEF ScopedIndInv
<1>2. ScopedIndInv /\ [ScopedNext]_scopedVars => ScopedIndInv'
  <2> SUFFICES ASSUME ScopedIndInv, [ScopedNext]_scopedVars PROVE ScopedIndInv'
    OBVIOUS
  <2>1. ASSUME [Next]_vars PROVE TimingsIndInv' /\ TimersFollow'
    BY <2>1, OneThread, TimingsStep, FollowStep DEF ScopedIndInv
  <2>2. CASE Inside(First) /\ UNCHANGED scopeVars
    BY <2>1, <2>2, TimingsAssumption, InsideFollows DEF Next, ScopedIndInv
  <2>3. CASE (Tick \/ UNCHANGED vars) /\ UNCHANGED scopeVars
    <3>1. UNCHANGED <<matched, timer, pc, call, arg, scopes, leaving, cut>>
      BY <2>3 DEF Tick, vars, shared, local, scopeVars
    <3>2. ScopesFollow' /\ ScopesShape'
      BY <3>1 DEF ScopedIndInv, ScopesFollow, ScopesShape, On, InHand, Entered, Top
    <3> QED
      BY <2>1, <2>3, <3>2 DEF Next, ScopedIndInv
  <2> QED
    BY <2>2, <2>3, EnterStep, ResetStep, LeaveOutputStep, LeaveStep DEF ScopedNext, scopedVars
<1>3. ScopedIndInv => ScopedInv
  <2> SUFFICES ASSUME ScopedIndInv PROVE ScopedInv
    OBVIOUS
  <2>1. TypeOK /\ NoTimeLost
    BY OneThread, RightTimes DEF ScopedIndInv, TimingsInv
  <2>2. ScopedTypeOK
    BY <2>1 DEF ScopedIndInv, ScopesShape, ScopedTypeOK
  <2>3. ASSUME Quiet, ~leaving PROVE {s \in Sections : On(s)} = Entered \ cut
    <3>1. InHand = {}
      BY <2>3, TimingsAssumption DEF Quiet, InHand
    <3>2. Entered \subseteq Sections
      <4>1. scopes \in Seq(Scopes) /\ DOMAIN scopes = 1 .. Len(scopes)
        BY DEF ScopedIndInv, ScopesShape
      <4>2. \A i \in DOMAIN scopes : scopes[i] \in Scopes
        BY <4>1
      <4> QED
        BY <4>2 DEF Entered, Scopes
    <3> QED
      BY <3>1, <3>2 DEF ScopedIndInv, ScopesFollow
  <2> QED
    BY <2>1, <2>2, <2>3 DEF ScopesTimed, ScopedInv
<1> QED
  BY <1>1, <1>2, <1>3, PTL DEF ScopedSpec
==============================================================================
