---------------------------- MODULE OstreamBuffer -----------------------------
(***************************************************************************)
(* OstreamBuffer of logstreams.cc used by several threads: xsputn() locks  *)
(* mutex_, sync() locks sync_mutex_, so a text can arrive while the buffer *)
(* is being written out. Texts are numbered in the order they are written. *)
(* A write that overlaps str() itself is a data race, with no outcome to   *)
(* rely on: here the three calls into the stringbuf do not overlap.        *)
(***************************************************************************)
EXTENDS Naturals, FiniteSets, Sequences

CONSTANTS
  Threads,     \* the threads that log to the stream
  TextLimit,   \* bound on the texts written
  NoThread     \* no thread

ASSUME OstreamBufferAssumption ==
  /\ NoThread \notin Threads
  /\ TextLimit \in Nat

VARIABLES
  sync_pc,      \* "idle", "copied" (out_ << str() is done) inside sync()
  sync_mutex_,  \* the thread that holds it
  text,         \* the texts in the stringbuf
  out_,         \* the texts written to the stream behind
  count,        \* for the properties: how many texts were written to the buffer
  met           \* for the properties: the texts written during a sync()

bufferVars == <<sync_pc, sync_mutex_, text, out_, count, met>>

BufferInit ==
  /\ sync_pc = [t \in Threads |-> "idle"]
  /\ sync_mutex_ = NoThread
  /\ text = <<>> /\ out_ = <<>> /\ count = 0 /\ met = {}

\* xsputn(): under mutex_, which sync() does not take.
xsputn(t) ==
  /\ sync_pc[t] = "idle"
  /\ count < TextLimit
  /\ count' = count + 1
  /\ met' = IF sync_mutex_ = NoThread THEN met ELSE met \cup {count + 1}
  /\ text' = Append(text, count + 1)
  /\ UNCHANGED <<sync_pc, sync_mutex_, out_>>

\* Mutant: sync() takes no lock.
SyncUnlocked(t) ==
  /\ sync_pc[t] = "idle"
  /\ sync_pc' = [sync_pc EXCEPT ![t] = "copied"]
  /\ out_' = out_ \o text
  /\ UNCHANGED <<sync_mutex_, text, count, met>>

\* sync(): out_ << str(), after it has locked sync_mutex_.
SyncCopy(t) ==
  /\ sync_pc[t] = "idle" /\ sync_mutex_ = NoThread
  /\ sync_mutex_' = t
  /\ sync_pc' = [sync_pc EXCEPT ![t] = "copied"]
  /\ out_' = out_ \o text
  /\ UNCHANGED <<text, count, met>>

\* Mutant: the buffer keeps its text.
SyncKeep(t) ==
  /\ sync_pc[t] = "copied"
  /\ sync_pc' = [sync_pc EXCEPT ![t] = "idle"]
  /\ sync_mutex_' = NoThread
  /\ UNCHANGED <<text, out_, count, met>>

\* sync(): str(""), and the lock is released.
SyncClear(t) ==
  /\ sync_pc[t] = "copied"
  /\ text' = <<>>
  /\ sync_pc' = [sync_pc EXCEPT ![t] = "idle"]
  /\ sync_mutex_' = NoThread
  /\ UNCHANGED <<out_, count, met>>

BufferNext == \E t \in Threads : xsputn(t) \/ SyncCopy(t) \/ SyncClear(t)

BufferSpec == BufferInit /\ [][BufferNext]_bufferVars

-----------------------------------------------------------------------------
BufferTypeOK ==
  /\ sync_pc \in [Threads -> {"idle", "copied"}]
  /\ sync_mutex_ \in Threads \cup {NoThread}
  /\ \A t \in Threads : sync_pc[t] = "copied" <=> sync_mutex_ = t
  /\ count \in 0 .. TextLimit
  /\ text \in Seq(1 .. count) /\ out_ \in Seq(1 .. count)
  /\ met \subseteq 1 .. count

\* However sync() calls meet writes and each other, no text reaches the
\* stream twice or overtakes an earlier one.
InOrder == \A i, j \in DOMAIN out_ : i < j => out_[i] < out_[j]

Held(s) == {s[i] : i \in DOMAIN s}

\* "dump buffer into file/stream and clear it" (logstreams.hh:190): between
\* two calls of sync() the stream behind and the buffer hold every text but
\* those written while a thread was inside sync(), which str("") clears.
OnlyMetAreLost ==
  sync_mutex_ = NoThread => Held(out_) \cup Held(text) = (1 .. count) \ met
==============================================================================
