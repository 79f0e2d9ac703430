------------------------------- MODULE Logging -------------------------------
(***************************************************************************)
(* Logging of logging.cc with the LogStreams of logstreams.cc: which text  *)
(* a stream accepts, buffers, writes to the console and to the log file,   *)
(* while streams are suspended, given other flags and set up again.        *)
(*                                                                         *)
(* A text is a number. The two buffers of a DualLogStream accept and write *)
(* the same texts, so pending holds them once. The buffers of one stream   *)
(* share its entry of flagmap_, which is buffer[id].flags here.            *)
(***************************************************************************)
EXTENDS SuspendableBuffer, FiniteSets

CONSTANTS
  Standard,     \* the ids the constructor registers
  Added,        \* the ids add_stream hands out
  FlagSets,     \* the flags that are used: sets of ids and of "file"
  LogPriorities,   \* the priorities streams are suspended with
  Names,        \* names of log files
  MsgLimit,     \* bound on the texts accepted
  Careful       \* TRUE: streams are set up again in settled states only, and
                \* flags are set of streams that are not suspended only

Ids == Standard \cup Added

LogFlags == (UNION FlagSets) \cup Ids \cup LOG_NONE

ASSUME LoggingAssumption ==
  /\ Standard \cap Added = {} /\ {"file", "none"} \cap Ids = {}
  /\ default_suspend_priority \in LogPriorities /\ LogPriorities \subseteq Int
  /\ MsgLimit \in Nat /\ Careful \in BOOLEAN

VARIABLES
  streamIDs_,  \* the registered streams; empty when Logging is destroyed
  kind,        \* kind of the stream in streammap_: "none", "empty" or "dual"
  buffer,      \* the buffer of each stream
  pending,     \* texts accepted by each stream and not yet written
  console,     \* texts written to std::cout
  logflags_,   \* the flags of the last create
  filename_,   \* the file of the last create
  log_ofstream,    \* the ofstream: its file, and "closed", "open" or "failed"
  logged,      \* the texts in each file
  accepted,    \* all texts accepted so far
  due,         \* texts accepted while each file was the one to log to
  wanted       \* the flags each stream was given last

loggingVars == <<streamIDs_, kind, buffer, pending, console, logflags_, filename_,
          log_ofstream, logged, accepted, due, wanted>>

-----------------------------------------------------------------------------
\* The constructor
LoggingInit ==
  /\ streamIDs_ = Standard
  /\ kind = [id \in Ids |-> IF id \in Standard THEN "empty" ELSE "none"]
  /\ buffer = [id \in Ids |-> NewBuffer(LOG_NONE)]
  /\ pending = [id \in Ids |-> {}]
  /\ console = {}
  /\ logflags_ = LOG_NONE
  /\ filename_ \in Names
  /\ log_ofstream = [state |-> "closed", name |-> filename_]
  /\ logged = [name \in Names |-> {}]
  /\ accepted = {}
  /\ due = [name \in Names |-> {}]
  /\ wanted = [id \in Ids |-> LOG_NONE]

-----------------------------------------------------------------------------
\* SuspendableStrBuffer::pubsync under the given flags: a stream that is
\* suspended or muted keeps its text.
Flushed(id, flags) ==
  IF id \in flags /\ ~buffer[id].suspended THEN pending[id] ELSE {}

\* OstreamBuffer::sync of both buffers, for the texts given; an ofstream that
\* has failed or is closed drops them.
WriteTo(file, texts) ==
  /\ console' = console \cup texts
  /\ logged' = IF file.state = "open" THEN [logged EXCEPT ![file.name] = @ \cup texts]
                                      ELSE logged

\* Mutant: flushing clears the buffer first.
FlushAllCleared(flags) == WriteTo(log_ofstream, {})

\* The text written when all streams are flushed: flush() of Logging, or the
\* destructors of the LogStreams. flags gives the flags of each stream then.
FlushAll(flags) == WriteTo(log_ofstream, UNION {Flushed(id, flags[id]) : id \in streamIDs_})

OwnFlags == [id \in Ids |-> buffer[id].flags]

\* LogStream::operator<<: the inner buffers are never suspended themselves,
\* so that the flags decide.
Log(id) ==
  /\ kind[id] = "dual" /\ id \in buffer[id].flags
  /\ Cardinality(accepted) < MsgLimit
  /\ LET text == Cardinality(accepted) + 1
     IN  /\ pending' = [pending EXCEPT ![id] = @ \cup {text}]
         /\ accepted' = accepted \cup {text}
         /\ due' = IF "file" \in logflags_
                   THEN [due EXCEPT ![filename_] = @ \cup {text}] ELSE due
  /\ UNCHANGED <<streamIDs_, kind, buffer, console, logflags_, filename_,
                 log_ofstream, logged, wanted>>

\* std::endl and std::flush call sync() whatever the state of the stream.
Endl(id) ==
  /\ kind[id] = "dual"
  /\ WriteTo(log_ofstream, pending[id])
  /\ pending' = [pending EXCEPT ![id] = {}]
  /\ UNCHANGED <<streamIDs_, kind, buffer, logflags_, filename_, log_ofstream,
                 accepted, due, wanted>>

\* flush()
Flush ==
  /\ FlushAll(OwnFlags)
  /\ pending' = [id \in Ids |-> pending[id] \ Flushed(id, buffer[id].flags)]
  /\ UNCHANGED <<streamIDs_, kind, buffer, logflags_, filename_, log_ofstream,
                 accepted, due, wanted>>

\* suspend and resume of one LogStream, or of all
Suspend(ids, p) ==
  /\ buffer' = [id \in Ids |-> IF id \in ids THEN Suspended(buffer[id], p) ELSE buffer[id]]
  /\ UNCHANGED <<streamIDs_, kind, pending, console, logflags_, filename_,
                 log_ofstream, logged, accepted, due, wanted>>

Resume(ids, p) ==
  /\ buffer' = [id \in Ids |-> IF id \in ids THEN Resumed(buffer[id], p) ELSE buffer[id]]
  /\ UNCHANGED <<streamIDs_, kind, pending, console, logflags_, filename_,
                 log_ofstream, logged, accepted, due, wanted>>

\* set_stream_flags: all streams are flushed, then the flags are replaced,
\* those of a suspended stream too.
set_stream_flags(id, flags) ==
  /\ kind[id] = "dual"
  /\ Careful => ~buffer[id].suspended
  /\ FlushAll(OwnFlags)
  /\ pending' = [i \in Ids |-> pending[i] \ Flushed(i, buffer[i].flags)]
  /\ buffer' = [buffer EXCEPT ![id].flags = flags]
  /\ wanted' = [wanted EXCEPT ![id] = flags]
  /\ UNCHANGED <<streamIDs_, kind, logflags_, filename_, log_ofstream, accepted, due>>

\* Mutant: the stream is not registered in streamIDs_.
AddStreamUnregistered(id, flags) ==
  /\ kind[id] = "none" /\ streamIDs_ # {}
  /\ kind' = [kind EXCEPT ![id] = "dual"]
  /\ buffer' = [buffer EXCEPT ![id] = NewBuffer(flags \cup {id})]
  /\ wanted' = [wanted EXCEPT ![id] = flags \cup {id}]
  /\ UNCHANGED <<streamIDs_, pending, console, logflags_, filename_, log_ofstream,
                 logged, accepted, due>>

\* add_stream: the next id, its own flag added to the flags given
add_stream(id, flags) ==
  /\ kind[id] = "none" /\ streamIDs_ # {}
  /\ streamIDs_' = streamIDs_ \cup {id}
  /\ kind' = [kind EXCEPT ![id] = "dual"]
  /\ buffer' = [buffer EXCEPT ![id] = NewBuffer(flags \cup {id})]
  /\ wanted' = [wanted EXCEPT ![id] = flags \cup {id}]
  /\ UNCHANGED <<pending, console, logflags_, filename_, log_ofstream, logged,
                 accepted, due>>

-----------------------------------------------------------------------------
\* No text is left in a stream that will not flush it under these flags.
Settled(flags) == \A id \in streamIDs_ : pending[id] \subseteq Flushed(id, flags[id])

Unused(name) == logged[name] = {} /\ due[name] = {}

\* log_ofstream.open(name): an ofstream that is open fails to open again and
\* takes no more text, one that is closed empties the file.
Opened(file, name) ==
  IF file.state = "closed" THEN [state |-> "open", name |-> name]
                           ELSE [file EXCEPT !.state = "failed"]

\* The streams of create, flagged, unsuspended and empty, and its settings
SetUp(flags, name) ==
  /\ logflags_' = flags
  /\ filename_' = name
  /\ kind' = [id \in Ids |-> IF id \in streamIDs_ THEN "dual" ELSE kind[id]]
  /\ buffer' = [id \in Ids |-> IF id \in streamIDs_ THEN NewBuffer(flags) ELSE buffer[id]]
  /\ pending' = [id \in Ids |-> {}]
  /\ wanted' = [id \in Ids |-> IF id \in streamIDs_ THEN flags ELSE wanted[id]]
  /\ UNCHANGED <<streamIDs_, accepted, due>>

\* What the destruction of the old streams writes once the file is opened.
\* It is opened before them, and empties the file it opens.
OpenAndWrite(flags, name, texts) ==
  IF "file" \in flags
  THEN /\ log_ofstream' = Opened(log_ofstream, name)
       /\ console' = console \cup texts
       /\ logged' = IF log_ofstream.state = "closed"
                    THEN [logged EXCEPT ![name] = texts] ELSE logged
  ELSE log_ofstream' = log_ofstream /\ WriteTo(log_ofstream, texts)

\* create(logflags, logfile): the flags are replaced before the old streams
\* are destroyed, whose last flush obeys the new flags.
create(flags, name) ==
  LET replaced == [id \in Ids |-> flags]
      texts == UNION {Flushed(id, flags) : id \in streamIDs_}
  IN  /\ streamIDs_ # {}
      /\ Careful => /\ Settled(replaced)
                    /\ "file" \in flags => log_ofstream.state = "closed" /\ Unused(name)
      /\ OpenAndWrite(flags, name, texts)
      /\ SetUp(flags, name)

\* log_ofstream after deinit, which closes it for the LOG_FILE of logflags_ only
Closed == IF "file" \in logflags_ THEN [log_ofstream EXCEPT !.state = "closed"] ELSE log_ofstream

\* Mutant: deinit leaves the file open.
SetPrefixKeepsFile(name) ==
  /\ streamIDs_ # {}
  /\ Careful => Settled(OwnFlags) /\ Unused(name)
  /\ FlushAll(OwnFlags)
  /\ log_ofstream' = IF "file" \in logflags_ THEN Opened(log_ofstream, name) ELSE log_ofstream
  /\ SetUp(logflags_, name)

\* set_prefix: deinit writes to the old file, closes it, and create opens the
\* new one with the flags of the last create. A name used before empties it.
set_prefix(name) ==
  LET texts == UNION {Flushed(id, buffer[id].flags) : id \in streamIDs_}
      before == IF log_ofstream.state = "open"
                THEN [logged EXCEPT ![log_ofstream.name] = @ \cup texts] ELSE logged
  IN  /\ streamIDs_ # {}
      /\ Careful => Settled(OwnFlags) /\ Unused(name)
      /\ console' = console \cup texts
      /\ IF "file" \in logflags_
         THEN log_ofstream' = Opened(Closed, name) /\ logged' = [before EXCEPT ![name] = {}]
         ELSE log_ofstream' = log_ofstream /\ logged' = before
      /\ SetUp(logflags_, name)

\* ~Logging
Destroy ==
  /\ streamIDs_ # {}
  /\ Careful => Settled(OwnFlags)
  /\ FlushAll(OwnFlags)
  /\ log_ofstream' = Closed
  /\ streamIDs_' = {}
  /\ kind' = [id \in Ids |-> "none"]
  /\ pending' = [id \in Ids |-> {}]
  /\ UNCHANGED <<buffer, logflags_, filename_, accepted, due, wanted>>

LoggingNext ==
  \/ \E id \in Ids : Log(id) \/ Endl(id)
  \/ Flush
  \/ \E p \in LogPriorities, ids \in {{id} : id \in streamIDs_} \cup {streamIDs_} :
       Suspend(ids, p) \/ Resume(ids, p)
  \/ \E id \in Ids, flags \in FlagSets : set_stream_flags(id, flags)
  \/ \E id \in Added, flags \in FlagSets : add_stream(id, flags)
  \/ \E flags \in FlagSets, name \in Names : create(flags, name)
  \/ \E name \in Names : set_prefix(name)
  \/ Destroy

LoggingSpec == LoggingInit /\ [][LoggingNext]_loggingVars

-----------------------------------------------------------------------------
Texts == 1 .. MsgLimit

\* streammap_ has the streams streamIDs_ lists, so create() reaches them all.
TypeOK ==
  /\ streamIDs_ \subseteq Ids
  /\ kind \in [Ids -> {"none", "empty", "dual"}]
  /\ streamIDs_ = {id \in Ids : kind[id] # "none"}
  /\ buffer \in [Ids -> Buffer(LogFlags, LogPriorities)]
  /\ pending \in [Ids -> SUBSET Texts]
  /\ console \subseteq Texts /\ accepted \subseteq Texts
  /\ logflags_ \subseteq LogFlags
  /\ filename_ \in Names
  /\ log_ofstream \in [state : {"closed", "open", "failed"}, name : Names]
  /\ logged \in [Names -> SUBSET Texts] /\ due \in [Names -> SUBSET Texts]
  /\ wanted \in [Ids -> SUBSET LogFlags]

Pending == UNION {pending[id] : id \in Ids}

\* What a stream accepted reaches the console or still waits in the stream:
\* "dump buffer into file/stream and clear it" (logstreams.hh:190).
NoLoss == accepted \subseteq console \cup Pending

\* What was accepted while a file was logged to is in that file or on its way.
FileComplete == \A name \in Names : due[name] \subseteq logged[name] \cup Pending

\* What logstreams.hh:57 says of suspend(), "stop accepting input into the buffer":
\* a suspended stream has not got its own flag, which is all that Log() looks at.
SuspendedIsSilent ==
  \A id \in streamIDs_ : kind[id] = "dual" /\ buffer[id].suspended => id \notin buffer[id].flags

\* A stream that is not suspended has the flags it was given last, however
\* often streams were suspended and resumed meanwhile.
FlagsRestored ==
  \A id \in streamIDs_ : ~buffer[id].suspended => buffer[id].flags = wanted[id]

\* However streams were set up, prefixed, suspended and resumed, files get what was
\* logged to them and streams have the flags asked for.
LoggingInv == TypeOK /\ FileComplete /\ FlagsRestored
==============================================================================
