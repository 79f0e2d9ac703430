-------------------------- MODULE SuspendableBuffer --------------------------
(***************************************************************************)
(* SuspendableStrBuffer of logstreams.cc without its text: a buffer shares *)
(* its stream's flags, and suspending it takes them away until a resume()  *)
(* of sufficient priority gives them back. Flags are sets of flags.        *)
(***************************************************************************)
EXTENDS Integers

LOG_NONE == {"none"}

default_suspend_priority == 0

Buffer(Flags, Priorities) ==
  [flags : SUBSET Flags, saved : SUBSET Flags, suspended : BOOLEAN, priority : Priorities]

NewBuffer(flags) ==
  [flags |-> flags, saved |-> flags, suspended |-> FALSE,
   priority |-> default_suspend_priority]

Higher(p, q) == IF p > q THEN p ELSE q

\* Mutant: the flags are saved again when they are suspended already.
SuspendedAgain(b, p) ==
  [flags |-> LOG_NONE, saved |-> b.flags, suspended |-> TRUE,
   priority |-> Higher(p, b.priority)]

\* Mutant: only the mark is set, which writing does not look at.
SuspendedByMark(b, p) ==
  [b EXCEPT !.suspended = TRUE, !.priority = Higher(p, @)]

\* Mutant: the last priority counts, not the highest.
SuspendedByLast(b, p) ==
  [flags |-> LOG_NONE, saved |-> IF b.suspended THEN b.saved ELSE b.flags,
   suspended |-> TRUE, priority |-> p]

\* suspend(priority)
Suspended(b, p) ==
  [flags |-> IF b.suspended THEN b.flags ELSE LOG_NONE,
   saved |-> IF b.suspended THEN b.saved ELSE b.flags,
   suspended |-> TRUE,
   priority |-> Higher(p, b.priority)]

\* resume(priority)
Resumed(b, p) ==
  IF p < b.priority THEN b
  ELSE [b EXCEPT !.flags = IF b.suspended THEN b.saved ELSE b.flags,
                 !.suspended = FALSE,
                 !.priority = default_suspend_priority]
==============================================================================
