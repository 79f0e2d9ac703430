---------------------------- MODULE SuspendScopes ----------------------------
(***************************************************************************)
(* Logging::SuspendLocal and ResumeLocal (logging.hh): scopes that suspend *)
(* the streams of Logger() and resume them at their end, or the other way  *)
(* round, nested in any way and with any priorities. All streams are       *)
(* treated alike, so there is one buffer here.                             *)
(***************************************************************************)
EXTENDS SuspendableBuffer, Sequences

CONSTANTS
  ScopePriorities,   \* the priorities scopes are given
  StreamFlags,       \* the flags of the stream when nothing is suspended
  MaxDepth           \* bound on the nesting of scopes

ASSUME ScopesAssumption ==
  /\ ScopePriorities \subseteq Int
  /\ MaxDepth \in Nat

VARIABLES
  buf,     \* the buffer
  scopes,  \* the scopes entered and not left, innermost last; overruled: there was
           \* a resume() of at least its priority since the scope was entered
  tame     \* no priority was negative, and a ResumeLocal was always inside a
           \* SuspendLocal of at least its priority

scopesVars == <<buf, scopes, tame>>

Depth == Len(scopes)

ScopesInit == buf = NewBuffer(StreamFlags) /\ scopes = <<>> /\ tame = TRUE

\* The scopes of a stack after resume(p).
Overruled(stack, p) ==
  [i \in 1 .. Len(stack) |->
     [stack[i] EXCEPT !.overruled = @ \/ p >= stack[i].priority]]

Encloses(scope, p) == scope.kind = "suspend" /\ scope.priority >= p

\* The constructors
EnterLocal(kind, p) ==
  LET scope == [kind |-> kind, priority |-> p, overruled |-> FALSE]
  IN
  /\ Depth < MaxDepth
  /\ buf' = IF kind = "suspend" THEN Suspended(buf, p) ELSE Resumed(buf, p)
  /\ scopes' = Append(IF kind = "suspend" THEN scopes ELSE Overruled(scopes, p), scope)
  /\ tame' = /\ tame
             /\ p >= default_suspend_priority
             /\ kind = "resume" => \E i \in 1 .. Depth : Encloses(scopes[i], p)

\* The destructors
LeaveLocal ==
  /\ scopes # <<>>
  /\ LET top == scopes[Depth]
         rest == SubSeq(scopes, 1, Depth - 1)
     IN  IF top.kind = "suspend"
         THEN buf' = Resumed(buf, top.priority) /\ scopes' = Overruled(rest, top.priority)
         ELSE buf' = Suspended(buf, top.priority) /\ scopes' = rest
  /\ UNCHANGED tame

ScopesNext == LeaveLocal \/ \E kind \in {"suspend", "resume"}, p \in ScopePriorities : EnterLocal(kind, p)

ScopesSpec == ScopesInit /\ [][ScopesNext]_scopesVars

-----------------------------------------------------------------------------
SuspendTypeOK ==
  /\ buf \in Buffer(StreamFlags \cup LOG_NONE, ScopePriorities \cup {default_suspend_priority})
  /\ Depth <= MaxDepth
  /\ tame \in BOOLEAN

\* However often the buffer is suspended and resumed, its flags are away while it
\* is suspended and the original ones otherwise.
FlagsKept ==
  IF buf.suspended THEN buf.flags = LOG_NONE /\ buf.saved = StreamFlags
                   ELSE buf.flags = StreamFlags

\* Inside a SuspendLocal nothing is logged until something resumes with at least
\* its priority: scopes of lower priority inside do not lift it.
SilentUntilOverruled ==
  \A i \in 1 .. Depth :
    scopes[i].kind = "suspend" /\ ~scopes[i].overruled => buf.flags = LOG_NONE

\* Under tame use a suspension is the work of a SuspendLocal that is still there and
\* will end it: when all scopes are left the buffer is as it was, its priority too.
WillBeResumed ==
  tame => IF buf.suspended THEN \E i \in 1 .. Depth : Encloses(scopes[i], buf.priority)
                           ELSE buf.priority = default_suspend_priority

\* What scopes of modules that know nothing of each other can rely on
\* (logging.hh:109, logstreams.cc:34).
ScopesInv == SuspendTypeOK /\ FlagsKept /\ SilentUntilOverruled /\ WillBeResumed

\* A ResumeLocal inside scope i, of at least its priority.
Lifted(i) ==
  \E j \in (i + 1) .. Depth :
    scopes[j].kind = "resume" /\ scopes[j].priority >= scopes[i].priority

\* Inside a SuspendLocal nothing is logged unless a ResumeLocal around lifts it:
\* suspend() "provides a way to silence streams from 'higher' modules" and is a
\* "no-op if already suspended" (logstreams.hh:58), so that a SuspendLocal inside
\* another would change nothing. Its destructor resumes what the outer one suspended.
StaysSilent ==
  tame => \A i \in 1 .. Depth : scopes[i].kind = "suspend" /\ ~Lifted(i) => buf.flags = LOG_NONE
==============================================================================
