---------------------------- MODULE LoggingProofs ----------------------------
(***************************************************************************)
(* Logging loses no text, completes its files and gives streams back their *)
(* flags, for any streams, flags, priorities and files, in a program that  *)
(* sets streams up again in settled states only.                           *)
(***************************************************************************)
EXTENDS Logging, FiniteSetTheorems, TLAPS

\* A stream has the flags w it was given, or keeps them until it is resumed.
FlagsKept(b, w) ==
  IF b.suspended THEN b.saved = w /\ b.flags = LOG_NONE ELSE b.flags = w

\* The texts: they are numbered as they come, none is lost, what is due in a file is in it
\* or waits, and waits only while that file is the open one.
TextsKept ==
  /\ NoLoss
  /\ FileComplete
  /\ \A id \in Ids \ streamIDs_ : pending[id] = {}
  /\ \E n \in Nat : accepted = 1 .. n
  /\ \A name \in Names : due[name] \subseteq accepted
  /\ \A name \in Names :
       due[name] \cap Pending # {} => log_ofstream.state = "open" /\ log_ofstream.name = name

\* While there are streams and they log to a file it is open.
FileOpen ==
  streamIDs_ # {} /\ "file" \in logflags_ =>
    log_ofstream.state = "open" /\ log_ofstream.name = filename_

\* The inductive invariant.
LoggingIndInv ==
  /\ TypeOK
  /\ TextsKept
  /\ FileOpen
  /\ \A id \in streamIDs_ : FlagsKept(buffer[id], wanted[id])

Buffers == Buffer(LogFlags, LogPriorities)

-----------------------------------------------------------------------------
\* Buffers

\* The sets of flags that buffers are given.
LEMMA FlagsGiven ==
  /\ LOG_NONE \subseteq LogFlags
  /\ \A flags \in FlagSets : flags \subseteq LogFlags
  /\ \A id \in Ids : id \in LogFlags /\ id \notin LOG_NONE
  /\ default_suspend_priority \in LogPriorities
<1>1. LOG_NONE \subseteq LogFlags /\ \A id \in Ids : id \in LogFlags
  BY DEF LogFlags
<1>2. \A flags \in FlagSets : flags \subseteq LogFlags
  BY DEF LogFlags
<1>3. \A id \in Ids : id \notin LOG_NONE
  BY LoggingAssumption DEF LOG_NONE
<1> QED
  BY <1>1, <1>2, <1>3, LoggingAssumption

\* A new buffer has the flags it is given.
LEMMA BufferMade ==
  ASSUME NEW flags, flags \subseteq LogFlags
  PROVE  NewBuffer(flags) \in Buffers /\ FlagsKept(NewBuffer(flags), flags)
<1> HIDE DEF default_suspend_priority
<1> QED
  BY FlagsGiven DEF NewBuffer, Buffers, Buffer, FlagsKept

\* A buffer that is not suspended takes new flags.
LEMMA BufferFlagged ==
  ASSUME NEW b \in Buffers, NEW flags, flags \subseteq LogFlags, ~b.suspended
  PROVE  /\ [b EXCEPT !.flags = flags] \in Buffers
         /\ FlagsKept([b EXCEPT !.flags = flags], flags)
  BY DEF Buffers, Buffer, FlagsKept

\* Suspended as often as one likes, the flags it was given are kept.
LEMMA BufferSuspended ==
  ASSUME NEW b \in Buffers, NEW p \in LogPriorities
  PROVE  /\ Suspended(b, p) \in Buffers
         /\ \A w : FlagsKept(b, w) => FlagsKept(Suspended(b, p), w)
<1>1. Higher(p, b.priority) \in LogPriorities
  BY DEF Higher, Buffers, Buffer
<1>2. Suspended(b, p) \in Buffers
  BY <1>1, FlagsGiven DEF Suspended, Buffers, Buffer
<1>3. \A w : FlagsKept(b, w) => FlagsKept(Suspended(b, p), w)
  BY DEF Suspended, FlagsKept
<1> QED
  BY <1>2, <1>3

\* Resumed, it gets them back, or stays as it is.
LEMMA BufferResumed ==
  ASSUME NEW b \in Buffers, NEW p \in LogPriorities
  PROVE  /\ Resumed(b, p) \in Buffers
         /\ \A w : FlagsKept(b, w) => FlagsKept(Resumed(b, p), w)
<1> HIDE DEF default_suspend_priority
<1> DEFINE given == IF b.suspended THEN b.saved ELSE b.flags
           c == [b EXCEPT !.flags = given, !.suspended = FALSE,
                          !.priority = default_suspend_priority]
<1>1. Resumed(b, p) = IF p < b.priority THEN b ELSE c
  BY DEF Resumed
<1>2. given \in SUBSET LogFlags
  BY DEF Buffers, Buffer
<1> HIDE DEF given
<1>3. c \in Buffers /\ c.flags = given /\ ~c.suspended
  BY <1>2, FlagsGiven DEF Buffers, Buffer
<1> HIDE DEF c
<1>4. \A w : FlagsKept(b, w) => FlagsKept(c, w)
  BY <1>3 DEF FlagsKept, given
<1> QED
  BY <1>1, <1>3, <1>4

-----------------------------------------------------------------------------
\* Texts

\* Streams that are gone have no texts.
LEMMA GoneIsEmpty ==
  ASSUME TextsKept, TypeOK
  PROVE  Pending = UNION {pending[id] : id \in streamIDs_}
  BY DEF TextsKept, TypeOK, Pending

\* Texts that leave the streams are not lost if they are written.
LEMMA WrittenIsKept ==
  ASSUME TypeOK, TextsKept, NEW out, WriteTo(log_ofstream, out), UNCHANGED <<accepted, due>>,
         Pending \subseteq Pending' \cup out
  PROVE  NoLoss' /\ FileComplete'
<1>1. NoLoss'
  BY DEF TextsKept, NoLoss, WriteTo
<1>2. ASSUME NEW name \in Names, NEW text \in due[name]
      PROVE  text \in logged'[name] \cup Pending'
  BY DEF TypeOK, TextsKept, FileComplete, WriteTo
<1>3. FileComplete'
  BY <1>2 DEF FileComplete
<1> QED
  BY <1>1, <1>3

\* If the streams are settled, all texts leave them when they are flushed.
LEMMA SettledIsAll ==
  ASSUME TypeOK, TextsKept, NEW flags, Settled(flags)
  PROVE  Pending = UNION {Flushed(id, flags[id]) : id \in streamIDs_}
<1>1. \A id \in streamIDs_ : pending[id] = Flushed(id, flags[id])
  BY DEF Settled, Flushed
<1> QED
  BY <1>1, GoneIsEmpty

\* Writing texts of the streams keeps the types.
LEMMA WrittenTypes ==
  ASSUME TypeOK, NEW file, file \in [state : {"closed", "open", "failed"}, name : Names],
         NEW out \in SUBSET Texts, WriteTo(file, out)
  PROVE  console' \subseteq Texts /\ logged' \in [Names -> SUBSET Texts]
<1>1. console \subseteq Texts /\ logged \in [Names -> SUBSET Texts]
  BY DEF TypeOK
<1>2. console' \subseteq Texts
  BY <1>1 DEF WriteTo
<1>3. logged' \in [Names -> SUBSET Texts]
  BY <1>1 DEF WriteTo
<1> QED
  BY <1>2, <1>3

\* What the streams flush are their texts.
LEMMA FlushedTexts ==
  ASSUME TypeOK, NEW flags
  PROVE  /\ \A id \in Ids : Flushed(id, flags[id]) \subseteq pending[id]
         /\ UNION {Flushed(id, flags[id]) : id \in streamIDs_} \in SUBSET Texts
<1>1. \A id \in Ids : Flushed(id, flags[id]) \subseteq pending[id] /\ pending[id] \subseteq Texts
  BY DEF TypeOK, Flushed
<1> QED
  BY <1>1 DEF TypeOK

\* The next text is a new one within the bound.
LEMMA NextText ==
  ASSUME TextsKept, Cardinality(accepted) < MsgLimit
  PROVE  LET text == Cardinality(accepted) + 1
         IN  text \in Texts /\ text \notin accepted /\ \E n \in Nat : accepted \cup {text} = 1 .. n
<1>1. PICK n \in Nat : accepted = 1 .. n
  BY DEF TextsKept
<1>2. Cardinality(accepted) = n
  BY <1>1, FS_Interval
<1>3. n + 1 \in Nat /\ accepted \cup {n + 1} = 1 .. n + 1 /\ n + 1 \notin accepted
  BY <1>1
<1> QED
  BY <1>2, <1>3, LoggingAssumption DEF Texts

-----------------------------------------------------------------------------
\* The steps

\* Everything but the texts and the stream the step is about stays.
LEMMA LogStep == ASSUME LoggingIndInv, NEW id \in Ids, Log(id) PROVE LoggingIndInv'
<1> USE DEF LoggingIndInv
<1> DEFINE text == Cardinality(accepted) + 1
<1>1. text \in Texts /\ text \notin accepted /\ \E n \in Nat : accepted \cup {text} = 1 .. n
  BY NextText DEF Log
<1> HIDE DEF text
<1>2. /\ pending' = [pending EXCEPT ![id] = @ \cup {text}]
      /\ accepted' = accepted \cup {text}
      /\ due' = IF "file" \in logflags_ THEN [due EXCEPT ![filename_] = @ \cup {text}] ELSE due
      /\ kind[id] = "dual"
      /\ UNCHANGED <<streamIDs_, kind, buffer, console, logflags_, filename_, log_ofstream,
                     logged, wanted>>
  BY DEF Log, text
<1>3. /\ pending \in [Ids -> SUBSET Texts] /\ due \in [Names -> SUBSET Texts]
      /\ accepted \subseteq Texts /\ filename_ \in Names /\ id \in streamIDs_
  BY <1>2 DEF TypeOK
<1>4. TypeOK'
  <2>1. /\ pending' \in [Ids -> SUBSET Texts] /\ due' \in [Names -> SUBSET Texts]
        /\ accepted' \subseteq Texts
    BY <1>1, <1>2, <1>3
  <2> QED
    BY <1>2, <2>1 DEF TypeOK
<1>5. Pending' = Pending \cup {text}
  BY <1>2, <1>3 DEF Pending
<1>6. ASSUME NEW name \in Names
      PROVE  \/ due'[name] = due[name]
             \/ due'[name] = due[name] \cup {text} /\ name = filename_ /\ "file" \in logflags_
  BY <1>2, <1>3
<1>7. TextsKept'
  <2>1. NoLoss' /\ FileComplete'
    BY <1>2, <1>5, <1>6 DEF TextsKept, NoLoss, FileComplete
  <2>2. \A i \in Ids \ streamIDs_ : pending'[i] = {}
    BY <1>2, <1>3 DEF TextsKept
  <2>3. ASSUME NEW name \in Names, due'[name] \cap Pending' # {}
        PROVE  log_ofstream.state = "open" /\ log_ofstream.name = name
    <3>1. CASE name = filename_ /\ "file" \in logflags_
      BY <1>3, <3>1 DEF FileOpen
    <3>2. CASE due'[name] = due[name]
      <4>1. text \notin due[name]
        BY <1>1 DEF TextsKept
      <4> QED
        BY <1>5, <2>3, <3>2, <4>1 DEF TextsKept
    <3> QED
      BY <1>6, <3>1, <3>2
  <2>4. \A name \in Names : due'[name] \subseteq accepted'
    BY <1>2, <1>6 DEF TextsKept
  <2> QED
    BY <1>1, <1>2, <2>1, <2>2, <2>3, <2>4 DEF TextsKept
<1> QED
  BY <1>2, <1>4, <1>7 DEF FileOpen

\* A step that writes some of the texts of the streams to the file, and nothing else of them.
Writes(out) ==
  /\ out \in SUBSET Texts /\ WriteTo(log_ofstream, out)
  /\ pending' \in [Ids -> SUBSET Texts]
  /\ \A id \in Ids : pending'[id] \subseteq pending[id] /\ pending[id] \subseteq pending'[id] \cup out
  /\ UNCHANGED <<streamIDs_, kind, logflags_, filename_, log_ofstream, accepted, due>>

\* Such a step keeps the texts.
LEMMA WriteStep ==
  ASSUME LoggingIndInv, NEW out, Writes(out),
         buffer' \in [Ids -> Buffers], wanted' \in [Ids -> SUBSET LogFlags],
         \A id \in streamIDs_ : FlagsKept(buffer'[id], wanted'[id])
  PROVE  LoggingIndInv'
<1> USE DEF LoggingIndInv
<1>1. /\ out \in SUBSET Texts /\ WriteTo(log_ofstream, out)
      /\ pending' \in [Ids -> SUBSET Texts]
      /\ UNCHANGED <<streamIDs_, kind, logflags_, filename_, log_ofstream, accepted, due>>
  BY DEF Writes
<1>2. console' \subseteq Texts /\ logged' \in [Names -> SUBSET Texts]
  BY <1>1, WrittenTypes DEF TypeOK
<1>3. TypeOK'
  BY <1>1, <1>2 DEF TypeOK, Buffers
<1>4. Pending \subseteq Pending' \cup out /\ Pending' \subseteq Pending
  BY DEF Pending, Writes
<1>5. NoLoss' /\ FileComplete'
  BY <1>1, <1>4, WrittenIsKept
<1>6. TextsKept'
  BY <1>1, <1>4, <1>5 DEF TextsKept, Writes
<1> QED
  BY <1>1, <1>3, <1>6 DEF FileOpen

\* std::endl hands the texts of one stream over to the console and the log file.
LEMMA EndlStep == ASSUME LoggingIndInv, NEW id \in Ids, Endl(id) PROVE LoggingIndInv'
<1>1. pending \in [Ids -> SUBSET Texts] /\ buffer \in [Ids -> Buffers] /\ wanted \in [Ids -> SUBSET LogFlags]
  BY DEF LoggingIndInv, TypeOK, Buffers
<1>2. Writes(pending[id])
  BY <1>1 DEF Endl, Writes
<1> QED
  BY <1>1, <1>2, WriteStep DEF Endl, LoggingIndInv

\* Flushing all streams writes some of their texts.
LEMMA FlushWrites ==
  ASSUME TypeOK, TextsKept, FlushAll(OwnFlags),
         pending' = [id \in Ids |-> pending[id] \ Flushed(id, buffer[id].flags)],
         UNCHANGED <<streamIDs_, kind, logflags_, filename_, log_ofstream, accepted, due>>
  PROVE  \E out : Writes(out)
<1> DEFINE out == UNION {Flushed(id, OwnFlags[id]) : id \in streamIDs_}
<1>1. out \in SUBSET Texts /\ WriteTo(log_ofstream, out)
  BY FlushedTexts DEF FlushAll
<1>2. pending \in [Ids -> SUBSET Texts] /\ streamIDs_ \subseteq Ids
  BY DEF TypeOK
<1>3. ASSUME NEW id \in Ids
      PROVE  pending'[id] \subseteq pending[id] /\ pending[id] \subseteq pending'[id] \cup out
  <2>1. OwnFlags[id] = buffer[id].flags
    BY DEF OwnFlags
  <2>2. pending'[id] = pending[id] \ Flushed(id, buffer[id].flags)
    OBVIOUS
  <2>3. CASE id \in streamIDs_
    BY <2>1, <2>2, <2>3
  <2>4. CASE id \notin streamIDs_
    BY <2>2, <2>4 DEF TextsKept
  <2> QED
    BY <2>3, <2>4
<1> HIDE DEF out
<1> QED
  BY <1>1, <1>2, <1>3 DEF Writes

\* flush() hands the texts of all streams over.
LEMMA FlushStep == ASSUME LoggingIndInv, Flush PROVE LoggingIndInv'
<1>1. buffer \in [Ids -> Buffers] /\ wanted \in [Ids -> SUBSET LogFlags]
  BY DEF LoggingIndInv, TypeOK, Buffers
<1>2. PICK out : Writes(out)
  BY FlushWrites DEF Flush, LoggingIndInv
<1> QED
  BY <1>1, <1>2, WriteStep DEF Flush, LoggingIndInv

\* The flags of a stream that is not suspended are replaced.
LEMMA FlagsStep ==
  ASSUME LoggingIndInv, Careful, NEW id \in Ids, NEW flags \in FlagSets,
         set_stream_flags(id, flags)
  PROVE  LoggingIndInv'
<1>1. buffer \in [Ids -> Buffers] /\ wanted \in [Ids -> SUBSET LogFlags] /\ streamIDs_ \subseteq Ids
  BY DEF LoggingIndInv, TypeOK, Buffers
<1>2. PICK out : Writes(out)
  <2>1. pending' = [i \in Ids |-> pending[i] \ Flushed(i, buffer[i].flags)]
        /\ UNCHANGED <<streamIDs_, kind, logflags_, filename_, log_ofstream, accepted, due>>
        /\ FlushAll(OwnFlags)
    BY DEF set_stream_flags
  <2> QED
    BY <2>1, FlushWrites DEF LoggingIndInv
<1>3. /\ buffer' = [buffer EXCEPT ![id].flags = flags] /\ ~buffer[id].suspended
      /\ wanted' = [wanted EXCEPT ![id] = flags] /\ flags \subseteq LogFlags
  BY FlagsGiven DEF set_stream_flags
<1>4. buffer[id] \in Buffers
  BY <1>1
<1> DEFINE b == [buffer[id] EXCEPT !.flags = flags]
<1>5. b \in Buffers /\ FlagsKept(b, flags)
  BY <1>3, <1>4, BufferFlagged
<1>6. buffer' = [buffer EXCEPT ![id] = b]
  BY <1>3
<1> HIDE DEF b
<1>7. buffer' \in [Ids -> Buffers] /\ wanted' \in [Ids -> SUBSET LogFlags]
  BY <1>1, <1>3, <1>5, <1>6
<1>8. \A i \in streamIDs_ : FlagsKept(buffer'[i], wanted'[i])
  BY <1>1, <1>3, <1>5, <1>6 DEF LoggingIndInv
<1> QED
  BY <1>2, <1>7, <1>8, WriteStep

\* Suspending and resuming streams touches no text, and the flags of a stream are kept.
LEMMA SuspendStep ==
  ASSUME LoggingIndInv, NEW p \in LogPriorities, NEW ids, Suspend(ids, p) \/ Resume(ids, p)
  PROVE  LoggingIndInv'
<1>1. /\ UNCHANGED <<streamIDs_, kind, pending, console, logflags_, filename_, log_ofstream, logged,
                     accepted, due, wanted>>
      /\ buffer' = [id \in Ids |-> buffer'[id]]
      /\ \A id \in Ids :
           buffer'[id] \in {buffer[id], Suspended(buffer[id], p), Resumed(buffer[id], p)}
  <2>1. CASE Suspend(ids, p)
    BY <2>1 DEF Suspend
  <2>2. CASE Resume(ids, p)
    BY <2>2 DEF Resume
  <2> QED
    BY <2>1, <2>2
<1>2. ASSUME NEW id \in Ids
      PROVE  /\ buffer'[id] \in Buffers
             /\ FlagsKept(buffer[id], wanted[id]) => FlagsKept(buffer'[id], wanted[id])
  <2>1. buffer[id] \in Buffers
    BY DEF LoggingIndInv, TypeOK, Buffers
  <2>2. /\ Suspended(buffer[id], p) \in Buffers /\ Resumed(buffer[id], p) \in Buffers
        /\ \A w : FlagsKept(buffer[id], w) => /\ FlagsKept(Suspended(buffer[id], p), w)
                                              /\ FlagsKept(Resumed(buffer[id], p), w)
    BY <2>1, BufferSuspended, BufferResumed
  <2> QED
    BY <1>1, <2>1, <2>2
<1>3. TypeOK'
  <2>1. buffer' \in [Ids -> Buffers]
    BY <1>1, <1>2
  <2> QED
    BY <1>1, <2>1 DEF LoggingIndInv, TypeOK, Buffers
<1>4. TextsKept' /\ FileOpen'
  BY <1>1 DEF LoggingIndInv, TextsKept, NoLoss, FileComplete, Pending, FileOpen
<1>5. \A id \in streamIDs_' : FlagsKept(buffer'[id], wanted'[id])
  BY <1>1, <1>2 DEF LoggingIndInv, TypeOK
<1> QED
  BY <1>3, <1>4, <1>5 DEF LoggingIndInv

\* A new stream has no text, and the flags it is given with its own.
LEMMA AddStep ==
  ASSUME LoggingIndInv, NEW id \in Added, NEW flags \in FlagSets, add_stream(id, flags)
  PROVE  LoggingIndInv'
<1> DEFINE given == flags \cup {id}
<1>1. id \in Ids /\ given \subseteq LogFlags
  BY FlagsGiven DEF Ids
<1>2. NewBuffer(given) \in Buffers /\ FlagsKept(NewBuffer(given), given)
  BY <1>1, BufferMade
<1>3. /\ streamIDs_' = streamIDs_ \cup {id} /\ kind' = [kind EXCEPT ![id] = "dual"]
      /\ buffer' = [buffer EXCEPT ![id] = NewBuffer(given)]
      /\ wanted' = [wanted EXCEPT ![id] = given]
      /\ streamIDs_ # {}
      /\ UNCHANGED <<pending, console, logflags_, filename_, log_ofstream, logged, accepted, due>>
  BY DEF add_stream
<1> HIDE DEF given
<1>4. TypeOK'
  <2>1. /\ kind \in [Ids -> {"none", "empty", "dual"}] /\ buffer \in [Ids -> Buffers]
        /\ wanted \in [Ids -> SUBSET LogFlags] /\ streamIDs_ = {i \in Ids : kind[i] # "none"}
    BY DEF LoggingIndInv, TypeOK, Buffers
  <2>2. kind' \in [Ids -> {"none", "empty", "dual"}]
    BY <1>1, <1>3, <2>1
  <2>3. buffer' \in [Ids -> Buffers] /\ wanted' \in [Ids -> SUBSET LogFlags]
    BY <1>1, <1>2, <1>3, <2>1
  <2>4. streamIDs_' = {i \in Ids : kind'[i] # "none"}
    BY <1>1, <1>3, <2>1
  <2> QED
    BY <1>3, <2>2, <2>3, <2>4 DEF LoggingIndInv, TypeOK, Buffers
<1>5. TextsKept' /\ FileOpen'
  BY <1>3 DEF LoggingIndInv, TextsKept, NoLoss, FileComplete, Pending, FileOpen
<1>6. \A i \in streamIDs_' : FlagsKept(buffer'[i], wanted'[i])
  BY <1>1, <1>2, <1>3 DEF LoggingIndInv, TypeOK
<1> QED
  BY <1>4, <1>5, <1>6 DEF LoggingIndInv

\* The streams that create() makes.
LEMMA StreamsSetUp ==
  ASSUME TypeOK, NEW flags, flags \subseteq LogFlags, NEW name \in Names, SetUp(flags, name)
  PROVE  /\ streamIDs_' \subseteq Ids /\ kind' \in [Ids -> {"none", "empty", "dual"}]
         /\ streamIDs_' = {id \in Ids : kind'[id] # "none"}
         /\ buffer' \in [Ids -> Buffers] /\ pending' \in [Ids -> SUBSET Texts]
         /\ logflags_' \subseteq LogFlags /\ filename_' \in Names
         /\ wanted' \in [Ids -> SUBSET LogFlags]
         /\ \A id \in streamIDs_' : FlagsKept(buffer'[id], wanted'[id])
         /\ Pending' = {} /\ \A id \in Ids : pending'[id] = {}
<1>1. /\ kind \in [Ids -> {"none", "empty", "dual"}] /\ buffer \in [Ids -> Buffers]
      /\ wanted \in [Ids -> SUBSET LogFlags] /\ streamIDs_ = {i \in Ids : kind[i] # "none"}
  BY DEF TypeOK, Buffers
<1>2. /\ streamIDs_' = streamIDs_ /\ logflags_' = flags /\ filename_' = name
      /\ kind' = [id \in Ids |-> IF id \in streamIDs_ THEN "dual" ELSE kind[id]]
      /\ buffer' = [id \in Ids |-> IF id \in streamIDs_ THEN NewBuffer(flags) ELSE buffer[id]]
      /\ pending' = [id \in Ids |-> {}]
      /\ wanted' = [id \in Ids |-> IF id \in streamIDs_ THEN flags ELSE wanted[id]]
  BY DEF SetUp
<1>3. NewBuffer(flags) \in Buffers /\ FlagsKept(NewBuffer(flags), flags)
  BY BufferMade
<1>4. kind' \in [Ids -> {"none", "empty", "dual"}] /\ streamIDs_' = {id \in Ids : kind'[id] # "none"}
  BY <1>1, <1>2
<1>5. buffer' \in [Ids -> Buffers] /\ wanted' \in [Ids -> SUBSET LogFlags]
  BY <1>1, <1>2, <1>3
<1>6. \A id \in streamIDs_' : FlagsKept(buffer'[id], wanted'[id])
  BY <1>1, <1>2, <1>3
<1>7. Pending' = {}
  BY <1>2 DEF Pending
<1> QED
  BY <1>1, <1>2, <1>4, <1>5, <1>6, <1>7

\* The streams are set up again after all texts were written out: what is left to show.
LEMMA SetUpStep ==
  ASSUME LoggingIndInv, NEW flags, flags \subseteq LogFlags, NEW name \in Names, SetUp(flags, name),
         console' = console \cup Pending,
         logged' \in [Names -> SUBSET Texts],
         log_ofstream' \in [state : {"closed", "open", "failed"}, name : Names],
         FileComplete',
         "file" \in flags => log_ofstream'.state = "open" /\ log_ofstream'.name = name
  PROVE  LoggingIndInv'
<1>1. UNCHANGED <<streamIDs_, accepted, due>> /\ logflags_' = flags /\ filename_' = name
  BY DEF SetUp
<1>2. Pending \in SUBSET Texts
  BY DEF LoggingIndInv, TypeOK, Pending
<1>3. TypeOK'
  BY <1>1, <1>2, StreamsSetUp DEF LoggingIndInv, TypeOK, Buffers
<1>4. /\ Pending' = {} /\ \A id \in Ids : pending'[id] = {}
      /\ \A id \in streamIDs_' : FlagsKept(buffer'[id], wanted'[id])
  BY StreamsSetUp DEF LoggingIndInv
<1>5. NoLoss'
  BY <1>1, <1>4 DEF LoggingIndInv, TextsKept, NoLoss
<1>6. TextsKept'
  BY <1>1, <1>4, <1>5 DEF LoggingIndInv, TextsKept
<1>7. FileOpen'
  BY <1>1 DEF FileOpen
<1> QED
  BY <1>3, <1>4, <1>6, <1>7 DEF LoggingIndInv

\* create() opens a file that nothing was logged to, or leaves the file as it is.
LEMMA CreateStep ==
  ASSUME LoggingIndInv, Careful, NEW flags \in FlagSets, NEW name \in Names, create(flags, name)
  PROVE  LoggingIndInv'
<1> DEFINE replaced == [id \in Ids |-> flags]
           texts == UNION {Flushed(id, flags) : id \in streamIDs_}
<1>1. /\ Settled(replaced) /\ OpenAndWrite(flags, name, texts) /\ SetUp(flags, name)
      /\ "file" \in flags => log_ofstream.state = "closed" /\ Unused(name)
  BY DEF create
<1>2. texts = Pending
  <2>1. Pending = UNION {Flushed(id, replaced[id]) : id \in streamIDs_}
    BY <1>1, SettledIsAll DEF LoggingIndInv
  <2>2. \A id \in streamIDs_ : replaced[id] = flags
    BY DEF LoggingIndInv, TypeOK
  <2> QED
    BY <2>1, <2>2
<1> HIDE DEF texts, replaced
<1>3. /\ logged \in [Names -> SUBSET Texts] /\ Pending \in SUBSET Texts
      /\ log_ofstream \in [state : {"closed", "open", "failed"}, name : Names]
  BY DEF LoggingIndInv, TypeOK, Pending
<1>4. Pending' = {} /\ UNCHANGED <<accepted, due>>
  BY <1>1, StreamsSetUp, FlagsGiven DEF LoggingIndInv, SetUp
<1>5. flags \subseteq LogFlags
  BY FlagsGiven
<1>6. CASE "file" \in flags
  <2>1. /\ log_ofstream' = [state |-> "open", name |-> name]
        /\ console' = console \cup Pending
        /\ logged' = [logged EXCEPT ![name] = Pending]
        /\ log_ofstream.state = "closed" /\ due[name] = {}
    BY <1>1, <1>2, <1>6 DEF OpenAndWrite, Opened, Unused
  <2>2. logged' \in [Names -> SUBSET Texts]
    BY <1>3, <2>1
  <2>3. ASSUME NEW n \in Names PROVE due'[n] \subseteq logged'[n] \cup Pending'
    <3>1. due[n] \cap Pending = {} /\ due[n] \subseteq logged[n] \cup Pending
      BY <2>1 DEF LoggingIndInv, TextsKept, FileComplete
    <3> QED
      BY <1>3, <1>4, <2>1, <3>1
  <2>4. FileComplete'
    BY <2>3 DEF FileComplete
  <2> QED
    BY <1>1, <1>5, <2>1, <2>2, <2>4, SetUpStep
<1>7. CASE "file" \notin flags
  <2>1. log_ofstream' = log_ofstream /\ WriteTo(log_ofstream, Pending)
    BY <1>1, <1>2, <1>7 DEF OpenAndWrite
  <2>2. FileComplete'
    BY <1>4, <2>1, WrittenIsKept DEF LoggingIndInv
  <2>3. console' = console \cup Pending /\ logged' \in [Names -> SUBSET Texts]
    BY <1>3, <2>1, WrittenTypes DEF LoggingIndInv, WriteTo
  <2> QED
    BY <1>1, <1>3, <1>5, <1>7, <2>1, <2>2, <2>3, SetUpStep
<1> QED
  BY <1>6, <1>7

\* set_prefix() closes the file with all that was due in it and opens one not used before.
LEMMA PrefixStep ==
  ASSUME LoggingIndInv, Careful, NEW name \in Names, set_prefix(name)
  PROVE  LoggingIndInv'
<1> DEFINE texts == UNION {Flushed(id, buffer[id].flags) : id \in streamIDs_}
           before == IF log_ofstream.state = "open"
                     THEN [logged EXCEPT ![log_ofstream.name] = @ \cup texts] ELSE logged
<1>1. /\ streamIDs_ # {} /\ Settled(OwnFlags) /\ Unused(name)
      /\ console' = console \cup texts
      /\ IF "file" \in logflags_
         THEN log_ofstream' = Opened(Closed, name) /\ logged' = [before EXCEPT ![name] = {}]
         ELSE log_ofstream' = log_ofstream /\ logged' = before
      /\ SetUp(logflags_, name)
  BY DEF set_prefix
<1>2. texts = Pending
  <2>1. Pending = UNION {Flushed(id, OwnFlags[id]) : id \in streamIDs_}
    BY <1>1, SettledIsAll DEF LoggingIndInv
  <2>2. \A id \in streamIDs_ : OwnFlags[id] = buffer[id].flags
    BY DEF LoggingIndInv, TypeOK, OwnFlags
  <2> QED
    BY <2>1, <2>2
<1>3. before = IF log_ofstream.state = "open"
               THEN [logged EXCEPT ![log_ofstream.name] = @ \cup Pending] ELSE logged
  BY <1>2
<1> HIDE DEF texts, before
<1>4. /\ logged \in [Names -> SUBSET Texts] /\ Pending \in SUBSET Texts
      /\ log_ofstream \in [state : {"closed", "open", "failed"}, name : Names]
      /\ logflags_ \subseteq LogFlags
  BY DEF LoggingIndInv, TypeOK, Pending
<1>5. Pending' = {} /\ UNCHANGED <<accepted, due>>
  BY <1>1, <1>4, StreamsSetUp DEF LoggingIndInv, SetUp
<1>6. before \in [Names -> SUBSET Texts]
  BY <1>3, <1>4
<1>7. ASSUME NEW n \in Names PROVE due[n] \subseteq before[n]
  <2>1. due[n] \subseteq logged[n] \cup Pending
    BY DEF LoggingIndInv, TextsKept, FileComplete
  <2>2. CASE due[n] \cap Pending = {}
    BY <1>3, <1>4, <2>1, <2>2
  <2>3. CASE due[n] \cap Pending # {}
    <3>1. log_ofstream.state = "open" /\ log_ofstream.name = n
      BY <2>3 DEF LoggingIndInv, TextsKept
    <3> QED
      BY <1>3, <1>4, <2>1, <3>1
  <2> QED
    BY <2>2, <2>3
<1>8. CASE "file" \in logflags_
  <2>1. log_ofstream' = [state |-> "open", name |-> name] /\ logged' = [before EXCEPT ![name] = {}]
    <3>1. Closed.state = "closed"
      BY <1>4, <1>8 DEF Closed
    <3> QED
      BY <1>1, <1>8, <3>1 DEF Opened
  <2>2. logged' \in [Names -> SUBSET Texts]
    BY <1>6, <2>1
  <2>3. due[name] = {}
    BY <1>1 DEF Unused
  <2>4. ASSUME NEW n \in Names PROVE due'[n] \subseteq logged'[n] \cup Pending'
    BY <1>5, <1>6, <1>7, <2>1, <2>3
  <2>5. FileComplete'
    BY <2>4 DEF FileComplete
  <2> QED
    BY <1>1, <1>2, <1>4, <2>1, <2>2, <2>5, SetUpStep
<1>9. CASE "file" \notin logflags_
  <2>1. log_ofstream' = log_ofstream /\ logged' = before
    BY <1>1, <1>9
  <2>2. FileComplete'
    BY <1>5, <1>7, <2>1 DEF FileComplete
  <2> QED
    BY <1>1, <1>2, <1>4, <1>6, <1>9, <2>1, <2>2, SetUpStep
<1> QED
  BY <1>8, <1>9

\* The destructor writes all texts out.
LEMMA DestroyStep == ASSUME LoggingIndInv, Careful, Destroy PROVE LoggingIndInv'
<1>1. /\ Settled(OwnFlags) /\ FlushAll(OwnFlags)
      /\ log_ofstream' = Closed /\ streamIDs_' = {}
      /\ kind' = [id \in Ids |-> "none"] /\ pending' = [id \in Ids |-> {}]
      /\ UNCHANGED <<buffer, logflags_, filename_, accepted, due, wanted>>
  BY DEF Destroy
<1>2. Pending = UNION {Flushed(id, OwnFlags[id]) : id \in streamIDs_}
  BY <1>1, SettledIsAll DEF LoggingIndInv
<1>3. WriteTo(log_ofstream, Pending) /\ Pending \in SUBSET Texts
  <2>1. WriteTo(log_ofstream, Pending)
    BY <1>1, <1>2 DEF FlushAll
  <2>2. pending \in [Ids -> SUBSET Texts]
    BY DEF LoggingIndInv, TypeOK
  <2>3. Pending \in SUBSET Texts
    BY <2>2 DEF Pending
  <2> QED
    BY <2>1, <2>3
<1>4. Pending' = {}
  BY <1>1 DEF Pending
<1>5. log_ofstream \in [state : {"closed", "open", "failed"}, name : Names]
  BY DEF LoggingIndInv, TypeOK
<1>6. log_ofstream' \in [state : {"closed", "open", "failed"}, name : Names]
  BY <1>1, <1>5 DEF Closed
<1>7. console' \subseteq Texts /\ logged' \in [Names -> SUBSET Texts]
  BY <1>3, <1>5, WrittenTypes DEF LoggingIndInv
<1>8. TypeOK'
  BY <1>1, <1>6, <1>7 DEF LoggingIndInv, TypeOK
<1>9. NoLoss' /\ FileComplete'
  BY <1>1, <1>3, WrittenIsKept DEF LoggingIndInv
<1>10. TextsKept' /\ FileOpen'
  BY <1>1, <1>4, <1>9 DEF LoggingIndInv, TextsKept, FileOpen
<1> QED
  BY <1>1, <1>8, <1>10 DEF LoggingIndInv

\* Every step keeps the invariant.
LEMMA LoggingStep == Careful /\ LoggingIndInv /\ [LoggingNext]_loggingVars => LoggingIndInv'
<1> SUFFICES ASSUME Careful, LoggingIndInv, [LoggingNext]_loggingVars PROVE LoggingIndInv'
  OBVIOUS
<1>1. CASE UNCHANGED loggingVars
  BY <1>1 DEF loggingVars, LoggingIndInv, TypeOK, TextsKept, NoLoss, FileComplete, Pending, FileOpen
<1> QED
  BY <1>1, LogStep, EndlStep, FlushStep, SuspendStep, FlagsStep, AddStep, CreateStep, PrefixStep,
     DestroyStep DEF LoggingNext

\* The invariant holds when Logging is constructed.
LEMMA LoggingStart == LoggingInit => LoggingIndInv
<1> SUFFICES ASSUME LoggingInit PROVE LoggingIndInv
  OBVIOUS
<1> USE DEF LoggingInit
<1>1. NewBuffer(LOG_NONE) \in Buffers /\ FlagsKept(NewBuffer(LOG_NONE), LOG_NONE)
  BY BufferMade, FlagsGiven
<1>2. TypeOK
  <2>1. /\ streamIDs_ \subseteq Ids /\ kind \in [Ids -> {"none", "empty", "dual"}]
        /\ streamIDs_ = {id \in Ids : kind[id] # "none"}
    BY DEF Ids
  <2>2. buffer \in [Ids -> Buffers] /\ wanted \in [Ids -> SUBSET LogFlags] /\ logflags_ \subseteq LogFlags
    BY <1>1, FlagsGiven
  <2> QED
    BY <2>1, <2>2 DEF TypeOK, Buffers
<1>3. accepted = 1 .. 0
  OBVIOUS
<1>4. TextsKept
  BY <1>3 DEF TextsKept, NoLoss, FileComplete
<1>5. FileOpen
  BY DEF FileOpen, LOG_NONE
<1>6. \A id \in streamIDs_ : FlagsKept(buffer[id], wanted[id])
  BY <1>1, <1>2 DEF TypeOK
<1> QED
  BY <1>2, <1>4, <1>5, <1>6 DEF LoggingIndInv

-----------------------------------------------------------------------------
\* What it says.

\* LogFlags are restored.
LEMMA KeptIsRestored == LoggingIndInv => LoggingInv /\ NoLoss
  BY DEF LoggingIndInv, LoggingInv, TextsKept, FlagsRestored, FlagsKept

\* In a program that sets streams up again in settled states only, whatever the streams,
\* flags, priorities and files: what was accepted while a file was logged to is in the file
\* or on its way, and a stream that is not suspended has the flags it was given last.
THEOREM FilesAreComplete ==
  ASSUME Careful
  PROVE  LoggingSpec => []LoggingInv
  BY LoggingStart, LoggingStep, KeptIsRestored, PTL DEF LoggingSpec

\* And no text that a stream accepted is lost, through flushes, suspensions, new flags,
\* new prefixes and the destructor.
THEOREM NoTextIsLost ==
  ASSUME Careful
  PROVE  LoggingSpec => []NoLoss
  BY LoggingStart, LoggingStep, KeptIsRestored, PTL DEF LoggingSpec
=============================================================================
