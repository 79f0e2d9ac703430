------------------------------- MODULE Signals --------------------------------
(***************************************************************************)
(* handle_interrupt() of signals.cc in a program with one thread: the      *)
(* handler interrupts that thread wherever it is, logs, and ends the       *)
(* process by sending itself the signal again, which is blocked until the  *)
(* handler returns. It logs as everybody does: xsputn() locks mutex_ if the*)
(* stream is enabled, and the sync() of std::endl locks sync_mutex_.       *)
(***************************************************************************)
EXTENDS Naturals

VARIABLES
  disposition,   \* what happens when the signal is delivered
  at,            \* the lock the thread holds: "mutex_", "sync_mutex_", or "none"
  info_enabled,  \* whether the info stream logs
  handler,       \* what handle_interrupt() does next, "none" outside of it
  pending,       \* whether the signal was sent and not delivered yet
  running        \* whether there is a process

signalVars == <<disposition, at, info_enabled, handler, pending, running>>

SignalsInit ==
  /\ disposition = "default" /\ at = "none" /\ handler = "none"
  /\ info_enabled \in BOOLEAN
  /\ pending = FALSE /\ running = TRUE

\* The thread executes the program and not the handler.
InProgram == running /\ handler = "none"

install_signal_handler ==
  /\ InProgram
  /\ disposition' = "handle_interrupt"
  /\ UNCHANGED <<at, info_enabled, handler, pending, running>>

Lock(mutex) ==
  /\ InProgram /\ at = "none"
  /\ mutex = "mutex_" => info_enabled
  /\ at' = mutex
  /\ UNCHANGED <<disposition, info_enabled, handler, pending, running>>

Unlock ==
  /\ InProgram /\ at # "none"
  /\ at' = "none"
  /\ UNCHANGED <<disposition, info_enabled, handler, pending, running>>

\* Somebody sends the signal.
Interrupt ==
  /\ running /\ pending' = TRUE
  /\ UNCHANGED <<disposition, at, info_enabled, handler, running>>

Delivered ==
  IF disposition = "default" THEN running' = FALSE /\ UNCHANGED handler
                             ELSE handler' = "insert" /\ UNCHANGED running

Deliver ==
  /\ InProgram /\ pending
  /\ pending' = FALSE
  /\ Delivered
  /\ UNCHANGED <<disposition, at, info_enabled>>

-----------------------------------------------------------------------------
Continue(from, to) == running /\ handler = from /\ handler' = to

\* DXTC_LOG_INFO << ...
Insert ==
  /\ Continue("insert", "flush")
  /\ info_enabled => at # "mutex_"
  /\ UNCHANGED <<disposition, at, info_enabled, pending, running>>

\* std::endl flushes, a muted stream as well.
FlushEndl ==
  /\ Continue("flush", "reset")
  /\ at # "sync_mutex_"
  /\ UNCHANGED <<disposition, at, info_enabled, pending, running>>

\* Mutant: the handler stays.
ResetForgotten ==
  /\ Continue("reset", "kill")
  /\ UNCHANGED <<disposition, at, info_enabled, pending, running>>

reset_signal ==
  /\ Continue("reset", "kill")
  /\ disposition' = "default"
  /\ UNCHANGED <<at, info_enabled, pending, running>>

\* The signal is blocked while the handler runs and delivered as it returns.
Kill ==
  /\ running /\ handler = "kill"
  /\ pending' = FALSE
  /\ Delivered
  /\ UNCHANGED <<disposition, at, info_enabled>>

Handle == Deliver \/ Insert \/ FlushEndl \/ reset_signal \/ Kill

SignalsNext ==
  \/ install_signal_handler \/ (\E mutex \in {"mutex_", "sync_mutex_"} : Lock(mutex)) \/ Unlock
  \/ Interrupt \/ Handle

\* Signals are delivered and the handler goes on where it is not blocked.
SignalsSpec == SignalsInit /\ [][SignalsNext]_signalVars /\ WF_signalVars(Handle)

-----------------------------------------------------------------------------
\* The handler waits for a lock that the thread it interrupted holds.
WaitsForItself ==
  \/ handler = "insert" /\ info_enabled /\ at = "mutex_"
  \/ handler \in {"insert", "flush"} /\ at = "sync_mutex_"

\* A signal ends the process - unless it comes while the thread is inside
\* xsputn() or sync() of the stream that the handler logs to, where it waits
\* for itself forever.
SignalTerminates == pending ~> ~running \/ WaitsForItself
==============================================================================
