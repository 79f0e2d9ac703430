--------------------------- MODULE ConcurrentProofs ---------------------------
(***************************************************************************)
(* Proofs about the classes that threads and ranks share, for any finite   *)
(* number of them: OstreamBuffer, TimedLogging, ThreadResultPropagator,    *)
(* PerThreadValue and TimingsOutput. The last three are about sums, which  *)
(* come with lemmas of their own.                                          *)
(***************************************************************************)
EXTENDS OstreamBuffer, TimedLogging, ThreadResultPropagator, PerThreadValue, TimingsOutput,
        FiniteSetTheorems, TLAPS

-----------------------------------------------------------------------------
(* OstreamBuffer: any number of texts. *)
Typing ==
  /\ sync_pc \in [Threads -> {"idle", "copied"}]
  /\ sync_mutex_ \in Threads \cup {NoThread}
  /\ \A t \in Threads : sync_pc[t] = "copied" <=> sync_mutex_ = t
  /\ count \in Nat
  /\ text \in Seq(Nat) /\ out_ \in Seq(Nat)
  /\ met \subseteq 1 .. count

Increasing(s) == \A i, j \in 1 .. Len(s) : i < j => s[i] < s[j]

AtMost(s, n) == \A i \in 1 .. Len(s) : s[i] <= n

\* While nobody is inside sync() the stream is behind the buffer; between the
\* two halves of sync() the buffer still holds texts the stream has.
Ordered ==
  /\ Increasing(out_) /\ Increasing(text)
  /\ AtMost(out_, count) /\ AtMost(text, count)
  /\ sync_mutex_ = NoThread =>
       \A i \in 1 .. Len(out_), j \in 1 .. Len(text) : out_[i] < text[j]

\* The texts of an empty buffer and of the concatenation, place by place.
LEMMA Concatenation ==
  ASSUME NEW s \in Seq(Nat), NEW u \in Seq(Nat)
  PROVE  /\ s \o u \in Seq(Nat)
         /\ Len(s \o u) = Len(s) + Len(u)
         /\ \A i \in 1 .. Len(s) : (s \o u)[i] = s[i]
         /\ \A i \in (Len(s) + 1) .. (Len(s) + Len(u)) :
              (s \o u)[i] = u[i - Len(s)]
OBVIOUS

\* Every step keeps the types.
LEMMA TypingStep == ASSUME Typing, BufferNext PROVE Typing'
<1> USE OstreamBufferAssumption DEF Typing
<1> PICK t \in Threads : xsputn(t) \/ SyncCopy(t) \/ SyncClear(t)
  BY DEF BufferNext
<1>1. CASE xsputn(t)
  <2>1. count + 1 \in Nat
    OBVIOUS
  <2>2. Append(text, count + 1) \in Seq(Nat)
    BY <2>1
  <2> QED  BY <1>1, <2>1, <2>2 DEF xsputn
<1>2. CASE SyncCopy(t)
  <2>1. out_ \o text \in Seq(Nat)
    BY Concatenation
  <2> QED  BY <1>2, <2>1 DEF SyncCopy
<1>3. CASE SyncClear(t)
  BY <1>3 DEF SyncClear
<1> QED  BY <1>1, <1>2, <1>3

\* Every step keeps stream and buffer in the order of the texts.
LEMMA OrderedStep == ASSUME Typing, Ordered, BufferNext PROVE Ordered'
<1> USE OstreamBufferAssumption DEF Typing
<1> PICK t \in Threads : xsputn(t) \/ SyncCopy(t) \/ SyncClear(t)
  BY DEF BufferNext
<1>1. CASE xsputn(t)
  <2>1. /\ Len(text') = Len(text) + 1
        /\ \A i \in 1 .. Len(text) : text'[i] = text[i]
        /\ text'[Len(text) + 1] = count + 1
        /\ count' = count + 1 /\ out_' = out_ /\ sync_mutex_' = sync_mutex_
    BY <1>1 DEF xsputn
  <2>2. \A i \in 1 .. Len(out_) : out_[i] \in Nat /\ out_[i] <= count
    BY DEF Ordered, AtMost
  <2>3. \A i \in 1 .. Len(text) : text[i] \in Nat /\ text[i] <= count
    BY DEF Ordered, AtMost
  <2>4. Increasing(out_)' /\ AtMost(out_, count)'
    BY <2>1, <2>2 DEF Ordered, Increasing, AtMost
  <2>5. AtMost(text, count)'
    BY <2>1, <2>3 DEF AtMost
  <2>6. Increasing(text)'
    <3> SUFFICES ASSUME NEW i \in 1 .. (Len(text) + 1),
                        NEW j \in 1 .. (Len(text) + 1), i < j
                 PROVE  text'[i] < text'[j]
      BY <2>1 DEF Increasing
    <3>1. i \in 1 .. Len(text) /\ text'[i] = text[i]
      BY <2>1
    <3>2. CASE j = Len(text) + 1
      <4>1. text'[j] = count + 1
        BY <2>1, <3>2
      <4>2. text[i] \in Nat /\ text[i] <= count
        BY <2>3, <3>1
      <4> QED  BY <3>1, <4>1, <4>2
    <3>3. CASE j \in 1 .. Len(text)
      <4>1. text'[i] = text[i] /\ text'[j] = text[j]
        BY <2>1, <3>1, <3>3
      <4>2. text[i] < text[j]
        BY <3>1, <3>3 DEF Ordered, Increasing
      <4> QED  BY <4>1, <4>2
    <3>4. j = Len(text) + 1 \/ j \in 1 .. Len(text)
      OBVIOUS
    <3> QED  BY <3>2, <3>3, <3>4
  <2>7. (sync_mutex_ = NoThread => \A i \in 1 .. Len(out_), j \in 1 .. Len(text) :
            out_[i] < text[j])'
    <3> SUFFICES ASSUME sync_mutex_ = NoThread,
                        NEW i \in 1 .. Len(out_), NEW j \in 1 .. (Len(text) + 1)
                 PROVE  out_[i] < text'[j]
      BY <2>1
    <3>1. CASE j = Len(text) + 1
      BY <2>1, <2>2, <3>1
    <3>2. CASE j \in 1 .. Len(text)
      <4>1. text'[j] = text[j]
        BY <2>1, <3>2
      <4>2. out_[i] < text[j]
        BY <3>2 DEF Ordered
      <4> QED  BY <4>1, <4>2
    <3> QED  BY <3>1, <3>2
  <2> QED  BY <2>4, <2>5, <2>6, <2>7 DEF Ordered
<1>2. CASE SyncCopy(t)
  <2>1. /\ out_' = out_ \o text /\ text' = text /\ count' = count
        /\ sync_mutex_ = NoThread /\ sync_mutex_' # NoThread
    BY <1>2 DEF SyncCopy
  <2>2. /\ Len(out_') = Len(out_) + Len(text)
        /\ \A i \in 1 .. Len(out_) : out_'[i] = out_[i]
        /\ \A i \in (Len(out_) + 1) .. (Len(out_) + Len(text)) :
             out_'[i] = text[i - Len(out_)]
    BY <2>1, Concatenation
  <2>3. AtMost(out_, count)'
    BY <2>1, <2>2 DEF Ordered, AtMost
  <2>4. Increasing(out_)'
    <3> SUFFICES ASSUME NEW i \in 1 .. (Len(out_) + Len(text)),
                        NEW j \in 1 .. (Len(out_) + Len(text)), i < j
                 PROVE  out_'[i] < out_'[j]
      BY <2>2 DEF Increasing
    <3>1. CASE j \in 1 .. Len(out_)
      <4>1. i \in 1 .. Len(out_)
        BY <3>1
      <4> QED  BY <2>2, <3>1, <4>1 DEF Ordered, Increasing
    <3>2. CASE j \notin 1 .. Len(out_) /\ i \in 1 .. Len(out_)
      <4>1. j - Len(out_) \in 1 .. Len(text) /\ out_'[j] = text[j - Len(out_)]
        BY <2>2, <3>2
      <4>2. out_[i] < text[j - Len(out_)]
        BY <2>1, <3>2, <4>1 DEF Ordered
      <4> QED  BY <2>2, <3>2, <4>1, <4>2
    <3>3. CASE j \notin 1 .. Len(out_) /\ i \notin 1 .. Len(out_)
      <4>1. i - Len(out_) \in 1 .. Len(text) /\ out_'[i] = text[i - Len(out_)]
        BY <2>2, <3>3
      <4>2. j - Len(out_) \in 1 .. Len(text) /\ out_'[j] = text[j - Len(out_)]
        BY <2>2, <3>3
      <4>3. i - Len(out_) < j - Len(out_)
        OBVIOUS
      <4>4. text[i - Len(out_)] < text[j - Len(out_)]
        BY <4>1, <4>2, <4>3 DEF Ordered, Increasing
      <4> QED  BY <4>1, <4>2, <4>4
    <3> QED  BY <3>1, <3>2, <3>3
  <2>5. Increasing(text)' /\ AtMost(text, count)'
    BY <2>1 DEF Ordered, Increasing, AtMost
  <2> QED  BY <2>1, <2>3, <2>4, <2>5 DEF Ordered
<1>3. CASE SyncClear(t)
  BY <1>3 DEF SyncClear, Ordered, Increasing, AtMost
<1> QED  BY <1>1, <1>2, <1>3

\* InOrder (xsputn() against sync(), logstreams.cc): however many threads write
\* and sync at once, no text is written out twice or before an earlier one.
THEOREM WrittenInOrder == BufferSpec => []InOrder
<1>1. BufferInit => Typing /\ Ordered
  BY OstreamBufferAssumption
     DEF BufferInit, Typing, Ordered, Increasing, AtMost
<1>2. Typing /\ Ordered /\ [BufferNext]_bufferVars => (Typing /\ Ordered)'
  <2>1. CASE UNCHANGED bufferVars
    BY <2>1 DEF bufferVars, Typing, Ordered, Increasing, AtMost
  <2> QED  BY <2>1, TypingStep, OrderedStep
<1>3. Typing /\ Ordered => InOrder
  BY DEF Typing, Ordered, Increasing, InOrder
<1> QED  BY <1>1, <1>2, <1>3, PTL DEF BufferSpec

-----------------------------------------------------------------------------
\* What the stream and the buffer hold: before the second half of sync() the
\* stream has everything the buffer is about to lose, but the texts met.
Kept ==
  /\ sync_mutex_ = NoThread => Held(out_) \cup Held(text) = (1 .. count) \ met
  /\ sync_mutex_ # NoThread => Held(out_) = (1 .. count) \ met

\* Appending and concatenating, seen as sets of texts.
LEMMA HeldAppended ==
  ASSUME NEW s \in Seq(Nat), NEW n \in Nat
  PROVE  Held(Append(s, n)) = Held(s) \cup {n}
<1> DEFINE u == Append(s, n)
<1>1. /\ DOMAIN u = 1 .. (Len(s) + 1) /\ DOMAIN s = 1 .. Len(s)
      /\ \A i \in 1 .. Len(s) : u[i] = s[i]
      /\ u[Len(s) + 1] = n
      /\ Len(s) \in Nat
  OBVIOUS
<1> HIDE DEF u
<1>2. DOMAIN u = DOMAIN s \cup {Len(s) + 1}
  BY <1>1
<1>3. Held(u) = Held(s) \cup {n}
  BY <1>1, <1>2 DEF Held
<1> QED  BY <1>3 DEF u

\* The texts of two sequences one after the other are those of both.
LEMMA HeldConcatenated ==
  ASSUME NEW s \in Seq(Nat), NEW u \in Seq(Nat)
  PROVE  Held(s \o u) = Held(s) \cup Held(u)
<1> DEFINE all == s \o u
<1>1. /\ DOMAIN all = 1 .. (Len(s) + Len(u))
      /\ DOMAIN s = 1 .. Len(s) /\ DOMAIN u = 1 .. Len(u)
      /\ Len(s) \in Nat /\ Len(u) \in Nat
      /\ \A i \in 1 .. Len(s) : all[i] = s[i]
      /\ \A i \in (Len(s) + 1) .. (Len(s) + Len(u)) : all[i] = u[i - Len(s)]
  OBVIOUS
<1> HIDE DEF all
<1>2. ASSUME NEW i \in DOMAIN all PROVE all[i] \in Held(s) \cup Held(u)
  <2>1. CASE i \in 1 .. Len(s)
    BY <1>1, <2>1 DEF Held
  <2>2. CASE i \notin 1 .. Len(s)
    <3>1. i - Len(s) \in DOMAIN u /\ all[i] = u[i - Len(s)]
      BY <1>1, <2>2
    <3> QED  BY <3>1 DEF Held
  <2> QED  BY <2>1, <2>2
<1>3. ASSUME NEW i \in DOMAIN s PROVE s[i] \in Held(all)
  BY <1>1 DEF Held
<1>4. ASSUME NEW i \in DOMAIN u PROVE u[i] \in Held(all)
  <2> DEFINE k == Len(s) + i
  <2>1. k \in DOMAIN all /\ k \in (Len(s) + 1) .. (Len(s) + Len(u)) /\ k - Len(s) = i
    BY <1>1
  <2> HIDE DEF k
  <2>2. k \in DOMAIN all /\ all[k] = u[i]
    BY <1>1, <2>1
  <2> QED  BY <2>2 DEF Held
<1>5. Held(all) = Held(s) \cup Held(u)
  BY <1>2, <1>3, <1>4 DEF Held
<1> QED  BY <1>5 DEF all

\* Every step keeps each text in the stream, in the buffer or among the lost.
LEMMA KeptStep == ASSUME Typing, Kept, BufferNext PROVE Kept'
<1> USE OstreamBufferAssumption DEF Typing
<1> PICK t \in Threads : xsputn(t) \/ SyncCopy(t) \/ SyncClear(t)
  BY DEF BufferNext
<1>1. CASE xsputn(t)
  <2>1. /\ Held(text') = Held(text) \cup {count + 1}
        /\ count' = count + 1 /\ out_' = out_ /\ sync_mutex_' = sync_mutex_
    BY <1>1, HeldAppended DEF xsputn
  <2>2. CASE sync_mutex_ = NoThread
    <3>1. met' = met
      BY <1>1, <2>2 DEF xsputn
    <3>2. (1 .. (count + 1)) \ met = ((1 .. count) \ met) \cup {count + 1}
      OBVIOUS
    <3> QED  BY <2>1, <2>2, <3>1, <3>2 DEF Kept
  <2>3. CASE sync_mutex_ # NoThread
    <3>1. met' = met \cup {count + 1}
      BY <1>1, <2>3 DEF xsputn
    <3>2. (1 .. (count + 1)) \ (met \cup {count + 1}) = (1 .. count) \ met
      OBVIOUS
    <3> QED  BY <2>1, <2>3, <3>1, <3>2 DEF Kept
  <2> QED  BY <2>2, <2>3
<1>2. CASE SyncCopy(t)
  <2>1. /\ out_' = out_ \o text /\ count' = count /\ met' = met
        /\ sync_mutex_ = NoThread /\ sync_mutex_' # NoThread
    BY <1>2 DEF SyncCopy
  <2>2. Held(out_') = Held(out_) \cup Held(text)
    BY <2>1, HeldConcatenated
  <2> QED  BY <2>1, <2>2 DEF Kept
<1>3. CASE SyncClear(t)
  <2>1. /\ Held(text') = {} /\ out_' = out_ /\ count' = count /\ met' = met
        /\ sync_mutex_ # NoThread /\ sync_mutex_' = NoThread
    BY <1>3 DEF SyncClear, Held
  <2> QED  BY <2>1 DEF Kept
<1> QED  BY <1>1, <1>2, <1>3

\* OnlyMetAreLost (sync(), logstreams.cc): between two calls of sync() exactly
\* the texts written during an earlier sync() are missing.
THEOREM TextsAreKept == BufferSpec => []OnlyMetAreLost
<1>1. BufferInit => Typing /\ Kept
  BY OstreamBufferAssumption DEF BufferInit, Typing, Kept, Held
<1>2. Typing /\ Kept /\ [BufferNext]_bufferVars => (Typing /\ Kept)'
  <2>1. CASE UNCHANGED bufferVars
    BY <2>1 DEF bufferVars, Typing, Kept
  <2> QED  BY <2>1, TypingStep, KeptStep
<1>3. Kept => OnlyMetAreLost
  BY DEF Kept, OnlyMetAreLost
<1> QED  BY <1>1, <1>2, <1>3, PTL DEF BufferSpec

-----------------------------------------------------------------------------
(* TimedLogging: any number of managers and any limits of create(). *)
\* There are finitely many managers at any time.
LEMMA ManagersFinite == IsFiniteSet(Exists) /\ Cardinality(Exists) \in Nat
<1>1. IsFiniteSet(Exists)
  BY FS_Subset, LoggingAssumption DEF Exists
<1> QED
  BY <1>1, FS_CardinalityType

\* The variables have the types of the members they model, and only managers
\* that exist have enabled streams.
THEOREM TypeCorrect == ManagersSpec => []ManagersTypeOK
<1> USE LoggingAssumption
<1>1. ManagersInit => ManagersTypeOK
  <2> SUFFICES ASSUME ManagersInit PROVE ManagersTypeOK
    OBVIOUS
  <2>1. current_level_ \in Int /\ max_info_level_ \in Int /\ max_debug_level_ \in Int
    BY DEF ManagersInit
  <2>2. created_ \in BOOLEAN /\ enable_warnings_ \in BOOLEAN
    BY DEF ManagersInit
  <2>3. stage \in [Managers -> {"none", "info", "debug", "alive"}]
    BY DEF ManagersInit
  <2>4. info = {} /\ debug = {} /\ warn = {} /\ mutex_ = NoManager /\ uncounted \in Nat
    BY DEF ManagersInit
  <2> QED
    BY <2>1, <2>2, <2>3, <2>4 DEF ManagersTypeOK
<1>2. ManagersTypeOK /\ [ManagersNext]_managerVars => ManagersTypeOK'
  <2> SUFFICES ASSUME ManagersTypeOK, [ManagersNext]_managerVars PROVE ManagersTypeOK'
    OBVIOUS
  <2> USE DEF ManagersTypeOK, Exists, settings, streams
  <2>1. ASSUME NEW i \in Levels, NEW d \in Levels, NEW w \in BOOLEAN, create(i, d, w)
        PROVE  ManagersTypeOK'
    BY <2>1, ManagersFinite DEF create
  <2>2. ASSUME NEW m \in Managers, Get(m) PROVE ManagersTypeOK'
    BY <2>2 DEF Get
  <2>3. ASSUME NEW m \in Managers, DecideInfo(m) PROVE ManagersTypeOK'
    BY <2>3 DEF DecideInfo
  <2>4. ASSUME NEW m \in Managers, DecideDebug(m) PROVE ManagersTypeOK'
    BY <2>4 DEF DecideDebug
  <2>5. ASSUME NEW m \in Managers, Destroy(m) PROVE ManagersTypeOK'
    BY <2>5 DEF Destroy
  <2>6. ASSUME NEW m \in Managers, NEW n \in Managers, Copy(m, n) PROVE ManagersTypeOK'
    BY <2>6 DEF Copy, With
  <2>7. CASE UNCHANGED managerVars
    BY <2>7 DEF managerVars
  <2> QED
    BY <2>1, <2>2, <2>3, <2>4, <2>5, <2>6, <2>7 DEF ManagersNext, ManagerStep
<1> QED
  BY <1>1, <1>2, PTL DEF ManagersSpec

\* How the steps change the set of managers that exist.
LEMMA ManagerAdded ==
  ASSUME ManagersTypeOK, NEW n \in Managers, stage[n] = "none",
         NEW l \in {"info", "alive"}, stage' = [stage EXCEPT ![n] = l]
  PROVE  Cardinality(Exists') = Cardinality(Exists) + 1
<1>1. Exists' = Exists \cup {n} /\ n \notin Exists
  BY DEF ManagersTypeOK, Exists
<1> QED
  BY <1>1, ManagersFinite, FS_AddElement

\* ... one fewer when one is destroyed ...
LEMMA ManagerRemoved ==
  ASSUME ManagersTypeOK, NEW m \in Managers, Destroy(m)
  PROVE  Cardinality(Exists') = Cardinality(Exists) - 1
<1>1. Exists' = Exists \ {m} /\ m \in Exists
  BY DEF ManagersTypeOK, Exists, Destroy
<1> QED
  BY <1>1, ManagersFinite, FS_RemoveElement

\* ... and as many as before otherwise.
LEMMA ManagersKept ==
  ASSUME ManagersTypeOK, NEW m \in Managers, DecideInfo(m) \/ DecideDebug(m)
  PROVE  Exists' = Exists /\ m \in Exists
BY DEF ManagersTypeOK, Exists, DecideInfo, DecideDebug

\* What every step does to the count.
LEMMA StepKeepsCount ==
  ASSUME ManagersTypeOK, LevelCountsManagers, [ManagersNext]_managerVars PROVE LevelCountsManagers'
<1> USE DEF LevelCountsManagers
<1>0. Cardinality(Exists) \in Nat /\ current_level_ \in Int /\ uncounted \in Nat
  BY ManagersFinite DEF ManagersTypeOK
<1>1. ASSUME NEW i \in Levels, NEW d \in Levels, NEW w \in BOOLEAN, create(i, d, w)
      PROVE  LevelCountsManagers'
  <2>1. Exists' = Exists /\ current_level_' = -1 /\ uncounted' = Cardinality(Exists)
    BY <1>1 DEF create, Exists
  <2> QED
    BY <1>0, <2>1
<1>2. ASSUME NEW m \in Managers, Get(m) PROVE LevelCountsManagers'
  <2>1. Cardinality(Exists') = Cardinality(Exists) + 1
    BY <1>2, ManagerAdded DEF Get
  <2>2. current_level_' = current_level_ + 1 /\ uncounted' = uncounted
    BY <1>2 DEF Get
  <2> QED
    BY <1>0, <2>1, <2>2
<1>3. ASSUME NEW m \in Managers, DecideInfo(m) \/ DecideDebug(m) PROVE LevelCountsManagers'
  BY <1>3, ManagersKept DEF DecideInfo, DecideDebug
<1>4. ASSUME NEW m \in Managers, Destroy(m) PROVE LevelCountsManagers'
  <2>1. Cardinality(Exists') = Cardinality(Exists) - 1
    BY <1>4, ManagerRemoved
  <2>2. current_level_' = current_level_ - 1 /\ uncounted' = uncounted
    BY <1>4 DEF Destroy
  <2> QED
    BY <1>0, <2>1, <2>2
<1>5. ASSUME NEW m \in Managers, NEW n \in Managers, Copy(m, n) PROVE LevelCountsManagers'
  <2>1. Cardinality(Exists') = Cardinality(Exists) + 1
    BY <1>5, ManagerAdded DEF Copy
  <2>2. current_level_' = current_level_ /\ uncounted' = uncounted + 1
    BY <1>5 DEF Copy
  <2> QED
    BY <1>0, <2>1, <2>2
<1>6. CASE UNCHANGED managerVars
  BY <1>6 DEF managerVars, Exists
<1> QED
  BY <1>1, <1>2, <1>3, <1>4, <1>5, <1>6 DEF ManagersNext, ManagerStep

\* current_level_ counts the managers there are, less those the count missed:
\* without copies, and with create() before the first manager, it is exact.
THEOREM LevelIsCount == ManagersSpec => []LevelCountsManagers
<1>1. ManagersInit => LevelCountsManagers
  <2> SUFFICES ASSUME ManagersInit PROVE LevelCountsManagers
    OBVIOUS
  <2>1. Exists = {}
    BY DEF ManagersInit, Exists
  <2> QED
    BY <2>1, FS_EmptySet DEF ManagersInit, LevelCountsManagers
<1>2. ManagersTypeOK /\ LevelCountsManagers /\ [ManagersNext]_managerVars => LevelCountsManagers'
  BY StepKeepsCount
<1> QED
  BY <1>1, <1>2, TypeCorrect, PTL DEF ManagersSpec

\* The conjuncts of EnabledWithinLimits.
Within(S, limit, missed) == Cardinality(S) <= Higher(limit, -1) + 1 + missed

\* Only managers that exist log, so finitely many do.
LEMMA StreamsFinite ==
  ASSUME ManagersTypeOK, NEW S, S \subseteq Exists
  PROVE  IsFiniteSet(S) /\ Cardinality(S) \in Nat /\ Cardinality(S) <= Cardinality(Exists)
BY ManagersFinite, FS_Subset, FS_CardinalityType

\* A manager whose stream is enabled is one of limit + 1 that are counted.
LEMMA WithinDecided ==
  ASSUME ManagersTypeOK, LevelCountsManagers, NEW S, S \subseteq Exists, NEW m \in Exists,
         NEW limit \in Int, Within(S, limit, uncounted),
         NEW T, T = IF current_level_ <= limit THEN S \cup {m} ELSE S
  PROVE  Within(T, limit, uncounted)
<1>1. CASE current_level_ <= limit
  <2>1. T \subseteq Exists
    BY <1>1
  <2>2. Cardinality(T) \in Nat /\ Cardinality(T) <= Cardinality(Exists)
    BY <2>1, StreamsFinite
  <2>3. Cardinality(Exists) \in Nat /\ uncounted \in Nat
    BY ManagersFinite DEF ManagersTypeOK
  <2>4. Cardinality(Exists) <= limit + 1 + uncounted
    BY <1>1, <2>3 DEF LevelCountsManagers
  <2> QED
    BY <2>2, <2>3, <2>4 DEF Within, Higher
<1>2. CASE ~(current_level_ <= limit)
  BY <1>2
<1> QED
  BY <1>1, <1>2

\* Streams disappear with their manager.
LEMMA WithinDestroyed ==
  ASSUME ManagersTypeOK, NEW S, S \subseteq Exists, NEW T, T \subseteq S, NEW limit \in Int,
         Within(S, limit, uncounted)
  PROVE  Within(T, limit, uncounted)
<1>1. Cardinality(S) \in Nat /\ Cardinality(T) \in Nat /\ Cardinality(T) <= Cardinality(S)
  BY StreamsFinite, FS_Subset, FS_CardinalityType
<1> QED
  BY <1>1 DEF Within, Higher, ManagersTypeOK

\* A copy is one more that logs and one more that the count has missed.
LEMMA WithinCopied ==
  ASSUME ManagersTypeOK, NEW S, S \subseteq Exists, NEW m, NEW n, NEW limit \in Int,
         Within(S, limit, uncounted)
  PROVE  Within(With(S, m, n), limit, uncounted + 1)
<1>1. Cardinality(S) \in Nat /\ uncounted \in Nat /\ IsFiniteSet(S)
  BY StreamsFinite DEF ManagersTypeOK
<1>2. CASE n \in S \/ m \notin S
  <2>1. With(S, m, n) = S
    BY <1>2 DEF With
  <2> QED
    BY <1>1, <2>1 DEF Within, Higher
<1>3. CASE n \notin S /\ m \in S
  <2>1. With(S, m, n) = S \cup {n}
    BY <1>3 DEF With
  <2>2. Cardinality(S \cup {n}) = Cardinality(S) + 1
    BY <1>1, <1>3, FS_AddElement
  <2> QED
    BY <1>1, <2>1, <2>2 DEF Within, Higher
<1> QED
  BY <1>2, <1>3

\* Every step keeps the number of managers that log within the limits.
LEMMA StepKeepsLimits ==
  ASSUME ManagersTypeOK, LevelCountsManagers, EnabledWithinLimits, [ManagersNext]_managerVars
  PROVE  EnabledWithinLimits'
<1>0. /\ max_info_level_ \in Int /\ max_debug_level_ \in Int
      /\ info \subseteq Exists /\ debug \subseteq Exists
      /\ Within(info, max_info_level_, uncounted)
      /\ Within(debug, max_debug_level_, uncounted)
  BY DEF ManagersTypeOK, EnabledWithinLimits, Within
<1> SUFFICES /\ Within(info', max_info_level_', uncounted')
             /\ Within(debug', max_debug_level_', uncounted')
  BY DEF EnabledWithinLimits, Within, Higher
<1>1. ASSUME NEW i \in Levels, NEW d \in Levels, NEW w \in BOOLEAN, create(i, d, w)
      PROVE  /\ Within(info', max_info_level_', uncounted')
             /\ Within(debug', max_debug_level_', uncounted')
  <2>1. /\ info' = info /\ debug' = debug /\ uncounted' = Cardinality(Exists)
        /\ max_info_level_' \in Int /\ max_debug_level_' \in Int
    BY <1>1, LoggingAssumption DEF create, streams
  <2>2. /\ Cardinality(Exists) \in Nat
        /\ Cardinality(info) \in Nat /\ Cardinality(info) <= Cardinality(Exists)
        /\ Cardinality(debug) \in Nat /\ Cardinality(debug) <= Cardinality(Exists)
    BY <1>0, StreamsFinite, ManagersFinite
  <2> QED
    BY <2>1, <2>2 DEF Within, Higher
<1>2. ASSUME NEW m \in Managers, Get(m)
      PROVE  /\ Within(info', max_info_level_', uncounted')
             /\ Within(debug', max_debug_level_', uncounted')
  BY <1>0, <1>2 DEF Get, settings, streams
<1>3. ASSUME NEW m \in Managers, DecideInfo(m)
      PROVE  /\ Within(info', max_info_level_', uncounted')
             /\ Within(debug', max_debug_level_', uncounted')
  <2>1. Within(info', max_info_level_, uncounted)
    BY <1>0, <1>3, ManagersKept, WithinDecided DEF DecideInfo
  <2> QED
    BY <1>0, <1>3, <2>1 DEF DecideInfo, settings
<1>4. ASSUME NEW m \in Managers, DecideDebug(m)
      PROVE  /\ Within(info', max_info_level_', uncounted')
             /\ Within(debug', max_debug_level_', uncounted')
  <2>1. Within(debug', max_debug_level_, uncounted)
    BY <1>0, <1>4, ManagersKept, WithinDecided DEF DecideDebug
  <2> QED
    BY <1>0, <1>4, <2>1 DEF DecideDebug, settings
<1>5. ASSUME NEW m \in Managers, Destroy(m)
      PROVE  /\ Within(info', max_info_level_', uncounted')
             /\ Within(debug', max_debug_level_', uncounted')
  <2>1. info' \subseteq info /\ debug' \subseteq debug
    BY <1>5 DEF Destroy
  <2>2. /\ Within(info', max_info_level_, uncounted)
        /\ Within(debug', max_debug_level_, uncounted)
    BY <1>0, <2>1, WithinDestroyed
  <2> QED
    BY <1>5, <2>2 DEF Destroy, settings
<1>6. ASSUME NEW m \in Managers, NEW n \in Managers, Copy(m, n)
      PROVE  /\ Within(info', max_info_level_', uncounted')
             /\ Within(debug', max_debug_level_', uncounted')
  <2>1. /\ Within(With(info, m, n), max_info_level_, uncounted + 1)
        /\ Within(With(debug, m, n), max_debug_level_, uncounted + 1)
    BY <1>0, WithinCopied
  <2> QED
    BY <1>6, <2>1 DEF Copy, settings
<1>7. CASE UNCHANGED managerVars
  BY <1>0, <1>7 DEF managerVars, settings, streams
<1> QED
  BY <1>1, <1>2, <1>3, <1>4, <1>5, <1>6, <1>7 DEF ManagersNext, ManagerStep

\* The limits of create() hold for the managers that log, whatever the
\* destructors in other threads do between the two decisions of get(): without
\* uncounted managers at most limit + 1 log, and none if the limit is negative.
THEOREM LimitsRespected == ManagersSpec => []EnabledWithinLimits
<1>1. ManagersInit => EnabledWithinLimits
  BY FS_EmptySet DEF ManagersInit, EnabledWithinLimits, Higher
<1>2. ManagersTypeOK /\ LevelCountsManagers /\ EnabledWithinLimits /\ [ManagersNext]_managerVars
      => EnabledWithinLimits'
  BY StepKeepsLimits
<1> QED
  BY <1>1, <1>2, TypeCorrect, LevelIsCount, PTL DEF ManagersSpec

-----------------------------------------------------------------------------
(* Sums over finite sets. *)

\* Among sets of subsets of a finite set one has no smaller one.
LEMMA LeastSubset ==
  ASSUME NEW S, IsFiniteSet(S), NEW Q \in SUBSET (SUBSET S), Q # {}
  PROVE  \E T \in Q : \A U \in Q : U \subseteq T => U = T
<1>1. IsWellFoundedOn(StrictSubsetOrdering(S), SUBSET S)
  BY FS_StrictSubsetOrderingWellFounded, FS_FiniteSubsetsOfFinite
<1>2. PICK T \in Q : \A U \in Q : ~(<<U, T>> \in StrictSubsetOrdering(S))
  BY <1>1, WFMin
<1> QED
  BY <1>2 DEF StrictSubsetOrdering

\* The element of a set that a sum over it starts with.
Chosen(s) == CHOOSE x \in s : TRUE

\* f gives the sum of v over every subset of S: the recursive function inside
\* MapThenSumSet. SumOf is the sum of v over S.
SumFix(v, S, f) ==
  f = [s \in SUBSET S |-> IF s = {} THEN 0 ELSE v[Chosen(s)] + f[s \ {Chosen(s)}]]

SumOf(v, S) == (CHOOSE f : SumFix(v, S, f))[S]

\* The recursive definition of a sum has a solution.
LEMMA FixExists ==
  ASSUME NEW S, IsFiniteSet(S), NEW v PROVE \E f : SumFix(v, S, f)
<1> DEFINE Small(T) == {s \in SUBSET S : Cardinality(s) <= Cardinality(T)}
           Fix(T, f) == f = [s \in Small(T) |->
                              IF s = {} THEN 0 ELSE v[Chosen(s)] + f[s \ {Chosen(s)}]]
           Failing == {T \in SUBSET S : ~ \E f : Fix(T, f)}
<1>1. \A s \in SUBSET S : IsFiniteSet(s) /\ Cardinality(s) \in Nat
  BY FS_Subset, FS_CardinalityType
<1>2. \E f : Fix({}, f)
  <2>1. Small({}) = {{}}
    BY <1>1, FS_EmptySet
  <2>2. Fix({}, [s \in Small({}) |-> 0])
    BY <2>1
  <2> QED
    BY <2>2
<1>3. ASSUME NEW T \in SUBSET S, NEW x \in T, \E f : Fix(T \ {x}, f)
      PROVE  \E f : Fix(T, f)
  <2>1. PICK f : Fix(T \ {x}, f)
    BY <1>3
  <2> DEFINE g == [s \in Small(T) |->
                     IF s = {} THEN 0 ELSE v[Chosen(s)] + f[s \ {Chosen(s)}]]
  <2>2. Cardinality(T \ {x}) = Cardinality(T) - 1 /\ Cardinality(T) \in Nat
    BY <1>1, FS_RemoveElement
  <2>3. ASSUME NEW s \in Small(T), s # {}
        PROVE  /\ s \ {Chosen(s)} \in Small(T \ {x})
               /\ s \ {Chosen(s)} \in Small(T)
    <3>1. Chosen(s) \in s
      BY <2>3 DEF Chosen
    <3>2. Cardinality(s \ {Chosen(s)}) = Cardinality(s) - 1 /\ Cardinality(s) \in Nat
      BY <3>1, <1>1, FS_RemoveElement
    <3>3. s \ {Chosen(s)} \in SUBSET S /\ Cardinality(s) <= Cardinality(T)
      OBVIOUS
    <3> QED
      BY <3>2, <3>3, <2>2
  <2>4. ASSUME NEW s \in Small(T \ {x}) PROVE f[s] = g[s]
    <3>1. s \in Small(T)
      BY <2>2, <1>1
    <3> QED
      BY <2>1, <3>1
  <2>5. Fix(T, g)
    <3>1. ASSUME NEW s \in Small(T), s # {}
          PROVE  f[s \ {Chosen(s)}] = g[s \ {Chosen(s)}]
      BY <3>1, <2>3, <2>4
    <3>2. g = [s \in Small(T) |->
                 IF s = {} THEN 0 ELSE v[Chosen(s)] + g[s \ {Chosen(s)}]]
      <4> HIDE DEF g
      <4>1. g = [s \in Small(T) |->
                   IF s = {} THEN 0 ELSE v[Chosen(s)] + f[s \ {Chosen(s)}]]
        BY DEF g
      <4> HIDE DEF Small
      <4> QED
        BY <4>1, <3>1, Zenon
    <3> QED
      BY <3>2
  <2> QED
    BY <2>5
<1>4. Failing = {}
  <2> SUFFICES ASSUME Failing # {} PROVE FALSE
    OBVIOUS
  <2>1. PICK T \in Failing : \A U \in Failing : U \subseteq T => U = T
    <3>1. Failing \in SUBSET (SUBSET S)
      OBVIOUS
    <3> HIDE DEF Failing
    <3> QED
      BY <3>1, LeastSubset
  <2>2. T # {}
    BY <1>2
  <2>3. PICK x \in T : TRUE
    BY <2>2
  <2>4. T \ {x} \in SUBSET S /\ T \ {x} \notin Failing
    BY <2>1
  <2>5. \E f : Fix(T \ {x}, f)
    BY <2>4
  <2> QED
    BY <1>3, <2>3, <2>5
<1>5. PICK f : Fix(S, f)
  BY <1>4
<1>6. Small(S) = SUBSET S
  BY FS_Subset
<1>7. SumFix(v, S, f)
  BY <1>5, <1>6 DEF SumFix
<1> QED
  BY <1>7

\* Solutions for sets with elements in common agree on them.
LEMMA FixUnique ==
  ASSUME NEW S, NEW T, NEW R, IsFiniteSet(R), R \subseteq S, R \subseteq T,
         NEW v, NEW w, \A x \in R : v[x] = w[x],
         NEW f, NEW g, SumFix(v, S, f), SumFix(w, T, g)
  PROVE  f[R] = g[R]
<1> DEFINE Differ == {s \in SUBSET R : f[s] # g[s]}
<1> SUFFICES ASSUME Differ # {} PROVE FALSE
  OBVIOUS
<1>1. PICK s \in Differ : \A u \in Differ : u \subseteq s => u = s
  <2>1. Differ \in SUBSET (SUBSET R)
    OBVIOUS
  <2> HIDE DEF Differ
  <2> QED
    BY <2>1, LeastSubset
<1>2. /\ f[s] = IF s = {} THEN 0 ELSE v[Chosen(s)] + f[s \ {Chosen(s)}]
      /\ g[s] = IF s = {} THEN 0 ELSE w[Chosen(s)] + g[s \ {Chosen(s)}]
  <2>1. s \in SUBSET S /\ s \in SUBSET T
    OBVIOUS
  <2> QED
    BY <2>1 DEF SumFix
<1>3. s # {} /\ Chosen(s) \in s
  BY <1>2 DEF Chosen
<1>4. s \ {Chosen(s)} \notin Differ
  BY <1>1, <1>3
<1>5. f[s \ {Chosen(s)}] = g[s \ {Chosen(s)}]
  BY <1>4
<1> QED
  BY <1>2, <1>3, <1>5

\* A sum satisfies its recursive definition.
LEMMA SumIsFix ==
  ASSUME NEW S, IsFiniteSet(S), NEW v
  PROVE  SumFix(v, S, CHOOSE f : SumFix(v, S, f))
<1>1. \E f : SumFix(v, S, f)
  BY FixExists
<1> HIDE DEF SumFix
<1> QED
  BY <1>1

\* Sums of equal terms are equal.
LEMMA SumCongruent ==
  ASSUME NEW S, IsFiniteSet(S), NEW v, NEW w, \A x \in S : v[x] = w[x]
  PROVE  SumOf(v, S) = SumOf(w, S)
  BY SumIsFix, FixUnique DEF SumOf

\* The order in which the elements are taken does not matter.
LEMMA FixRemoves ==
  ASSUME NEW S, IsFiniteSet(S), NEW v, \A x \in S : v[x] \in Nat, NEW f, SumFix(v, S, f)
  PROVE  \A s \in SUBSET S : f[s] \in Nat /\ \A x \in s : f[s] = v[x] + f[s \ {x}]
<1> DEFINE Right(s) == f[s] \in Nat /\ \A x \in s : f[s] = v[x] + f[s \ {x}]
           Wrong == {s \in SUBSET S : ~Right(s)}
<1> SUFFICES ASSUME Wrong # {} PROVE FALSE
  OBVIOUS
<1>1. PICK s \in Wrong : \A u \in Wrong : u \subseteq s => u = s
  <2>1. Wrong \in SUBSET (SUBSET S)
    OBVIOUS
  <2> HIDE DEF Wrong
  <2> QED
    BY <2>1, LeastSubset
<1>2. f[s] = IF s = {} THEN 0 ELSE v[Chosen(s)] + f[s \ {Chosen(s)}]
  BY DEF SumFix
<1>3. s # {}
  BY <1>2
<1>4. PICK c \in s : c = Chosen(s)
  BY <1>3 DEF Chosen
<1>5. \A x \in s : Right(s \ {x})
  <2> SUFFICES ASSUME NEW x \in s PROVE Right(s \ {x})
    OBVIOUS
  <2>1. s \ {x} \in SUBSET S /\ s \ {x} \notin Wrong
    BY <1>1
  <2> QED
    BY <2>1
<1>6. f[s] = v[c] + f[s \ {c}] /\ f[s \ {c}] \in Nat /\ v[c] \in Nat
  BY <1>2, <1>3, <1>4, <1>5
<1>7. ASSUME NEW x \in s PROVE f[s] = v[x] + f[s \ {x}]
  <2>1. CASE x = c
    BY <2>1, <1>6
  <2>2. CASE x # c
    <3>1. f[s \ {c}] = v[x] + f[(s \ {c}) \ {x}]
      BY <1>5, <2>2
    <3>2. f[s \ {x}] = v[c] + f[(s \ {x}) \ {c}]
      BY <1>5, <2>2
    <3>3. (s \ {c}) \ {x} = (s \ {x}) \ {c}
      OBVIOUS
    <3>4. Right((s \ {c}) \ {x})
      <4>1. (s \ {c}) \ {x} \in SUBSET S /\ (s \ {c}) \ {x} \notin Wrong
        BY <1>1
      <4> QED
        BY <4>1
    <3>5. f[(s \ {c}) \ {x}] \in Nat /\ v[x] \in Nat
      BY <3>4
    <3>6. f[s \ {x}] = v[c] + f[(s \ {c}) \ {x}]
      BY <3>2, <3>3
    <3>7. f[s] = v[c] + (v[x] + f[(s \ {c}) \ {x}])
      BY <1>6, <3>1
    <3>8. f[s] = v[x] + (v[c] + f[(s \ {c}) \ {x}])
      BY <1>6, <3>5, <3>7
    <3> QED
      BY <3>6, <3>8
  <2> QED
    BY <2>1, <2>2
<1>8. f[s] \in Nat
  BY <1>6
<1>9. Right(s)
  BY <1>7, <1>8
<1> QED
  BY <1>9

\* There is nothing to add up.
LEMMA SumEmpty == ASSUME NEW v PROVE SumOf(v, {}) = 0
  BY FS_EmptySet, SumIsFix DEF SumOf, SumFix

\* A sum is the term of any of its elements and the sum of the others.
LEMMA SumRemove ==
  ASSUME NEW S, IsFiniteSet(S), NEW v, \A x \in S : v[x] \in Nat
  PROVE  /\ SumOf(v, S) \in Nat
         /\ \A x \in S : SumOf(v, S) = v[x] + SumOf(v, S \ {x})
<1>1. PICK f : f = CHOOSE g : SumFix(v, S, g)
  OBVIOUS
<1>2. SumFix(v, S, f) /\ SumOf(v, S) = f[S]
  BY <1>1, SumIsFix DEF SumOf
<1>3. f[S] \in Nat /\ \A x \in S : f[S] = v[x] + f[S \ {x}]
  BY <1>2, FixRemoves
<1>4. ASSUME NEW x \in S PROVE f[S \ {x}] = SumOf(v, S \ {x})
  <2>1. IsFiniteSet(S \ {x})
    BY FS_RemoveElement
  <2>2. SumFix(v, S \ {x}, CHOOSE g : SumFix(v, S \ {x}, g))
    BY <2>1, SumIsFix
  <2> QED
    BY <1>2, <2>1, <2>2, FixUnique DEF SumOf
<1> QED
  BY <1>2, <1>3, <1>4

\* Only one term differs.
LEMMA SumChanged ==
  ASSUME NEW S, IsFiniteSet(S), NEW x \in S, NEW v, NEW w,
         \A y \in S : v[y] \in Nat /\ w[y] \in Nat, \A y \in S \ {x} : v[y] = w[y]
  PROVE  SumOf(w, S) + v[x] = SumOf(v, S) + w[x]
<1>1. IsFiniteSet(S \ {x})
  BY FS_RemoveElement
<1>2. SumOf(v, S \ {x}) = SumOf(w, S \ {x}) /\ SumOf(v, S \ {x}) \in Nat
  BY <1>1, SumCongruent, SumRemove
<1>3. SumOf(v, S) = v[x] + SumOf(v, S \ {x}) /\ SumOf(w, S) = w[x] + SumOf(w, S \ {x})
  BY SumRemove
<1> QED
  BY <1>2, <1>3

\* One more element.
LEMMA SumAdded ==
  ASSUME NEW S, IsFiniteSet(S), NEW x, x \notin S, NEW v, \A y \in S \cup {x} : v[y] \in Nat
  PROVE  SumOf(v, S \cup {x}) = v[x] + SumOf(v, S)
<1>1. IsFiniteSet(S \cup {x}) /\ (S \cup {x}) \ {x} = S
  BY FS_AddElement
<1> QED
  BY <1>1, SumRemove

\* A sum of some of the terms is not greater.
LEMMA SumOfSome ==
  ASSUME NEW S, IsFiniteSet(S), NEW R \in SUBSET S, NEW v, \A x \in S : v[x] \in Nat
  PROVE  SumOf(v, R) <= SumOf(v, S)
<1> DEFINE Wrong == {T \in SUBSET S : R \subseteq T /\ ~(SumOf(v, R) <= SumOf(v, T))}
<1> SUFFICES ASSUME Wrong # {} PROVE FALSE
  BY DEF Wrong
<1>1. PICK T \in Wrong : \A U \in Wrong : U \subseteq T => U = T
  <2>1. Wrong \in SUBSET (SUBSET S)
    OBVIOUS
  <2> HIDE DEF Wrong
  <2> QED
    BY <2>1, LeastSubset
<1>2. \A U \in SUBSET S : SumOf(v, U) \in Nat
  BY FS_Subset, SumRemove
<1>3. T # R
  BY <1>2
<1>4. PICK x \in T : x \notin R
  BY <1>3
<1>5. SumOf(v, R) <= SumOf(v, T \ {x})
  <2>1. T \ {x} \in SUBSET S /\ R \subseteq T \ {x} /\ T \ {x} \notin Wrong
    BY <1>1, <1>4
  <2> QED
    BY <2>1
<1>6. SumOf(v, T) = v[x] + SumOf(v, T \ {x})
  <2>1. IsFiniteSet(T) /\ T \in SUBSET S
    BY FS_Subset
  <2> QED
    BY <2>1, SumRemove
<1>7. v[x] \in Nat /\ SumOf(v, R) \in Nat /\ SumOf(v, T \ {x}) \in Nat
  BY <1>2
<1>8. SumOf(v, R) <= SumOf(v, T)
  BY <1>5, <1>6, <1>7
<1> QED
  BY <1>8

-----------------------------------------------------------------------------
(* ThreadResultPropagator: any number of copies and any results. *)

Final == In({"final"})

\* The base functor and a copy about to set its result have added up the results of some
\* copies, each once; without overlaps the base has those of all final copies, and the
\* one copy inside finalize_imp() is about to add its own.
PropagatorIndInv ==
  /\ PropagatorTypeOK
  /\ \A c \in Copies : phase[c] = "unborn" => result[c] = 0 /\ seed[c] = 0
  /\ (\A c \in Copies : seed[c] = 0) => applied = SumOf(result, Copies)
  /\ \E some \in SUBSET Final : result[Base] = SumOf(result, some)
  /\ \A c \in In({"reduced"}) :
       \E some \in SUBSET (Final \cup {c}) : reduction[c] = SumOf(result, some)
  /\ ~overlap =>
       /\ result[Base] = SumOf(result, Final)
       /\ \A c \in In({"reduced"}) :
            /\ \A d \in In({"reduced"}) : c = d
            /\ reduction[c] = result[Base] + result[c]

\* A program makes finitely many copies.
LEMMA CopiesFinite == \A S \in SUBSET Copies : IsFiniteSet(S)
  BY PropagatorAssumption, FS_Subset

\* All results are 0.
LEMMA PropagatorInitial == PropagatorInit => PropagatorIndInv
<1> SUFFICES ASSUME PropagatorInit PROVE PropagatorIndInv
  OBVIOUS
<1> USE PropagatorAssumption DEF PropagatorInit
<1>1. PropagatorTypeOK
  <2>1. applied \in 0 .. WorkLimit
    OBVIOUS
  <2>2. /\ phase \in [Copies -> {"unborn", "working", "reduced", "final"}]
        /\ result \in [Copies \cup {Base} -> Nat]
        /\ reduction \in [Copies -> Nat] /\ seed \in [Copies -> Nat]
    OBVIOUS
  <2>3. overlap \in BOOLEAN
    OBVIOUS
  <2> QED
    BY <2>1, <2>2, <2>3 DEF PropagatorTypeOK
<1>2. In({"reduced"}) = {} /\ Final = {}
  BY DEF In, Final
<1>3. result[Base] = SumOf(result, {})
  BY SumEmpty
<1>4. applied = SumOf(result, Copies)
  <2> DEFINE zero == [i \in Copies |-> 0]
             Wrong == {T \in SUBSET Copies : SumOf(result, T) # 0}
  <2> SUFFICES ASSUME Wrong # {} PROVE FALSE
    OBVIOUS
  <2>1. PICK T \in Wrong : \A U \in Wrong : U \subseteq T => U = T
    <3>1. Wrong \in SUBSET (SUBSET Copies)
      OBVIOUS
    <3> HIDE DEF Wrong
    <3> QED
      BY <3>1, LeastSubset
  <2>2. T # {}
    BY SumEmpty
  <2>3. PICK c \in T : TRUE
    BY <2>2
  <2>4. SumOf(result, T \ {c}) = 0
    <3>1. T \ {c} \notin Wrong
      BY <2>1
    <3> QED
      BY <3>1
  <2>5. SumOf(result, T) = result[c] + SumOf(result, T \ {c})
    <3>1. IsFiniteSet(T) /\ \A x \in T : result[x] \in Nat
      BY CopiesFinite
    <3> QED
      BY <3>1, SumRemove
  <2>6. result[c] = 0
    OBVIOUS
  <2>7. SumOf(result, T) = 0
    BY <2>4, <2>5, <2>6
  <2> QED
    BY <2>7
<1> QED
  BY <1>1, <1>2, <1>3, <1>4 DEF PropagatorIndInv

\* Sums of results that a step leaves alone.
LEMMA SameSum ==
  ASSUME PropagatorTypeOK, PropagatorTypeOK', NEW some \in SUBSET Copies,
         \A c \in some : result'[c] = result[c]
  PROVE  SumOf(result', some) = SumOf(result, some)
  BY CopiesFinite, SumCongruent

\* Every operation keeps the types.
LEMMA PropagatorTypes == ASSUME PropagatorTypeOK, PropagatorNext PROVE PropagatorTypeOK'
<1> USE PropagatorAssumption DEF PropagatorTypeOK
<1>1. ASSUME NEW c \in Copies, NEW s \in Copies \cup {Base}, copy_imp(s, c)
      PROVE  PropagatorTypeOK'
  BY <1>1 DEF copy_imp
<1>2. ASSUME NEW c \in Copies, NEW w \in Work, Accumulate(c, w) PROVE PropagatorTypeOK'
  <2>1. w \in Nat
    OBVIOUS
  <2> QED
    BY <1>2, <2>1 DEF Accumulate
<1>3. ASSUME NEW c \in Copies, Reduce(c) PROVE PropagatorTypeOK'
  <2>1. result[Base] + result[c] \in Nat
    OBVIOUS
  <2> QED
    BY <1>3, <2>1 DEF Reduce
<1>4. ASSUME NEW c \in Copies, SetResult(c) PROVE PropagatorTypeOK'
  BY <1>4 DEF SetResult
<1> QED
  BY <1>1, <1>2, <1>3, <1>4 DEF PropagatorNext

\* A new copy is no final or reduced one, and what it starts with counts only as its seed.
LEMMA CopyStep ==
  ASSUME PropagatorIndInv, PropagatorTypeOK', NEW c \in Copies, NEW s \in Copies \cup {Base},
         copy_imp(s, c)
  PROVE  PropagatorIndInv'
<1> USE PropagatorAssumption
<1>1. /\ phase[c] = "unborn"
      /\ phase' = [phase EXCEPT ![c] = "working"]
      /\ result' = [result EXCEPT ![c] = result[s]]
      /\ seed' = [seed EXCEPT ![c] = result[s]]
      /\ UNCHANGED <<reduction, applied, overlap>>
  BY DEF copy_imp
<1>2. PropagatorTypeOK
  BY DEF PropagatorIndInv
<1>3. Final' = Final /\ In({"reduced"})' = In({"reduced"})
  BY <1>1, <1>2 DEF Final, In, PropagatorTypeOK
<1>4. /\ result'[Base] = result[Base]
      /\ \A d \in Copies \ {c} : result'[d] = result[d]
  BY <1>1, <1>2 DEF PropagatorTypeOK
<1>5. c \notin Final /\ c \notin In({"reduced"})
  BY <1>1 DEF Final, In
<1>6. \A some \in SUBSET (Copies \ {c}) : SumOf(result', some) = SumOf(result, some)
  BY <1>2, <1>4, SameSum
<1>7. ASSUME \A d \in Copies : seed'[d] = 0 PROVE applied' = SumOf(result', Copies)
  <2>1. result[s] = 0 /\ \A d \in Copies : seed[d] = 0
    BY <1>1, <1>2, <1>7 DEF PropagatorTypeOK, PropagatorIndInv
  <2>2. \A d \in Copies : result'[d] = result[d]
    BY <1>1, <1>2, <2>1 DEF PropagatorTypeOK, PropagatorIndInv
  <2>3. SumOf(result', Copies) = SumOf(result, Copies)
    BY <1>2, <2>2, SameSum
  <2> QED
    BY <1>1, <2>1, <2>3 DEF PropagatorIndInv
<1>8. \A d \in Copies : phase'[d] = "unborn" => result'[d] = 0 /\ seed'[d] = 0
  BY <1>1, <1>2 DEF PropagatorTypeOK, PropagatorIndInv
<1>9. \E some \in SUBSET Final' : result'[Base] = SumOf(result', some)
  <2>1. PICK some \in SUBSET Final : result[Base] = SumOf(result, some)
    BY DEF PropagatorIndInv
  <2>2. some \in SUBSET (Copies \ {c})
    BY <1>5 DEF Final, In
  <2> QED
    BY <1>3, <1>4, <1>6, <2>1, <2>2
<1>10. ASSUME NEW d \in In({"reduced"})'
       PROVE  \E some \in SUBSET (Final' \cup {d}) : reduction'[d] = SumOf(result', some)
  <2>1. PICK some \in SUBSET (Final \cup {d}) : reduction[d] = SumOf(result, some)
    BY <1>3 DEF PropagatorIndInv
  <2>2. some \in SUBSET (Copies \ {c})
    BY <1>3, <1>5 DEF Final, In
  <2> QED
    BY <1>1, <1>3, <1>6, <2>1, <2>2
<1>11. ASSUME ~overlap'
       PROVE  /\ result'[Base] = SumOf(result', Final')
              /\ \A d \in In({"reduced"})' :
                   /\ \A e \in In({"reduced"})' : d = e
                   /\ reduction'[d] = result'[Base] + result'[d]
  <2>1. Final \in SUBSET (Copies \ {c}) /\ In({"reduced"}) \in SUBSET (Copies \ {c})
    BY <1>5 DEF Final, In
  <2>2. SumOf(result', Final) = SumOf(result, Final)
    BY <1>6, <2>1
  <2> QED
    BY <1>1, <1>3, <1>4, <1>11, <2>1, <2>2 DEF PropagatorIndInv
<1> QED
  BY <1>7, <1>8, <1>9, <1>10, <1>11 DEF PropagatorIndInv

\* Work adds to the sum over all copies, and to that of no final or reduced one.
LEMMA AccumulateStep ==
  ASSUME PropagatorIndInv, PropagatorTypeOK', NEW c \in Copies, NEW w \in Work, Accumulate(c, w)
  PROVE  PropagatorIndInv'
<1> USE PropagatorAssumption
<1>1. /\ phase[c] = "working"
      /\ result' = [result EXCEPT ![c] = result[c] + w]
      /\ applied' = applied + w
      /\ UNCHANGED <<phase, reduction, seed, overlap>>
  BY DEF Accumulate
<1>2. PropagatorTypeOK /\ w \in Nat
  BY DEF PropagatorIndInv
<1>3. Final' = Final /\ In({"reduced"})' = In({"reduced"})
  BY <1>1 DEF Final, In
<1>4. /\ result'[Base] = result[Base] /\ result'[c] = result[c] + w
      /\ \A d \in Copies \ {c} : result'[d] = result[d]
  BY <1>1, <1>2 DEF PropagatorTypeOK
<1>5. c \notin Final /\ c \notin In({"reduced"})
  BY <1>1 DEF Final, In
<1>6. \A some \in SUBSET (Copies \ {c}) : SumOf(result', some) = SumOf(result, some)
  BY <1>2, <1>4, SameSum
<1>7. ASSUME \A d \in Copies : seed'[d] = 0 PROVE applied' = SumOf(result', Copies)
  <2>1. applied = SumOf(result, Copies)
    BY <1>1, <1>7 DEF PropagatorIndInv
  <2>2. \A d \in Copies : result[d] \in Nat /\ result'[d] \in Nat
    BY <1>2 DEF PropagatorTypeOK
  <2>3. IsFiniteSet(Copies)
    OBVIOUS
  <2>4. SumOf(result', Copies) + result[c] = SumOf(result, Copies) + result'[c]
    BY <1>4, <2>2, <2>3, SumChanged
  <2>5. SumOf(result', Copies) \in Nat /\ SumOf(result, Copies) \in Nat
    BY <2>2, <2>3, SumRemove
  <2> QED
    BY <1>1, <1>2, <1>4, <2>1, <2>2, <2>4, <2>5
<1>8. \A d \in Copies : phase'[d] = "unborn" => result'[d] = 0 /\ seed'[d] = 0
  BY <1>1, <1>4 DEF PropagatorIndInv
<1>9. \E some \in SUBSET Final' : result'[Base] = SumOf(result', some)
  <2>1. PICK some \in SUBSET Final : result[Base] = SumOf(result, some)
    BY DEF PropagatorIndInv
  <2>2. some \in SUBSET (Copies \ {c})
    BY <1>5 DEF Final, In
  <2> QED
    BY <1>3, <1>4, <1>6, <2>1, <2>2
<1>10. ASSUME NEW d \in In({"reduced"})'
       PROVE  \E some \in SUBSET (Final' \cup {d}) : reduction'[d] = SumOf(result', some)
  <2>1. PICK some \in SUBSET (Final \cup {d}) : reduction[d] = SumOf(result, some)
    BY <1>3 DEF PropagatorIndInv
  <2>2. some \in SUBSET (Copies \ {c})
    BY <1>3, <1>5 DEF Final, In
  <2> QED
    BY <1>1, <1>3, <1>6, <2>1, <2>2
<1>11. ASSUME ~overlap'
       PROVE  /\ result'[Base] = SumOf(result', Final')
              /\ \A d \in In({"reduced"})' :
                   /\ \A e \in In({"reduced"})' : d = e
                   /\ reduction'[d] = result'[Base] + result'[d]
  <2>1. Final \in SUBSET (Copies \ {c}) /\ In({"reduced"}) \in SUBSET (Copies \ {c})
    BY <1>5 DEF Final, In
  <2>2. SumOf(result', Final) = SumOf(result, Final)
    BY <1>6, <2>1
  <2> QED
    BY <1>1, <1>3, <1>4, <1>11, <2>1, <2>2 DEF PropagatorIndInv
<1> QED
  BY <1>2, <1>7, <1>8, <1>9, <1>10, <1>11 DEF PropagatorIndInv

\* What the base has is a sum over final copies, what is about to be set one over these
\* and the copy itself.
LEMMA ReduceStep ==
  ASSUME PropagatorIndInv, PropagatorTypeOK', NEW c \in Copies, Reduce(c)
  PROVE  PropagatorIndInv'
<1> USE PropagatorAssumption
<1>1. /\ phase[c] = "working"
      /\ overlap' = (overlap \/ In({"reduced"}) # {})
      /\ reduction' = [reduction EXCEPT ![c] = result[Base] + result[c]]
      /\ phase' = [phase EXCEPT ![c] = "reduced"]
      /\ UNCHANGED <<result, seed, applied>>
  BY DEF Reduce
<1>2. PropagatorTypeOK
  BY DEF PropagatorIndInv
<1>3. Final' = Final /\ In({"reduced"})' = In({"reduced"}) \cup {c}
  BY <1>1, <1>2 DEF Final, In, PropagatorTypeOK
<1>4. /\ reduction'[c] = result[Base] + result[c]
      /\ \A d \in Copies \ {c} : reduction'[d] = reduction[d]
  BY <1>1, <1>2 DEF PropagatorTypeOK
<1>5. c \notin Final /\ c \notin In({"reduced"})
  BY <1>1 DEF Final, In
<1>6. \A d \in Copies : phase'[d] = "unborn" => result'[d] = 0 /\ seed'[d] = 0
  BY <1>1, <1>2 DEF PropagatorIndInv, PropagatorTypeOK
<1>7. PICK some \in SUBSET Final : result[Base] = SumOf(result, some)
  BY DEF PropagatorIndInv
<1>8. reduction'[c] = SumOf(result', some \cup {c})
  <2>1. some \in SUBSET Copies /\ c \notin some /\ IsFiniteSet(some)
    BY <1>5, CopiesFinite DEF Final, In
  <2>2. \A d \in some \cup {c} : result[d] \in Nat
    BY <1>2, <2>1 DEF PropagatorTypeOK
  <2>3. SumOf(result, some \cup {c}) = result[c] + SumOf(result, some)
    BY <2>1, <2>2, SumAdded
  <2>4. result[Base] \in Nat /\ result[c] \in Nat
    BY <1>2 DEF PropagatorTypeOK
  <2> QED
    BY <1>1, <1>4, <1>7, <2>3, <2>4
<1>9. ASSUME NEW d \in In({"reduced"})'
      PROVE  \E any \in SUBSET (Final' \cup {d}) : reduction'[d] = SumOf(result', any)
  <2>1. CASE d = c
    BY <1>3, <1>7, <1>8, <2>1
  <2>2. CASE d # c
    <3>1. d \in In({"reduced"}) /\ reduction'[d] = reduction[d]
      BY <1>3, <1>4, <2>2 DEF In
    <3> QED
      BY <1>1, <1>3, <3>1 DEF PropagatorIndInv
  <2> QED
    BY <2>1, <2>2
<1>10. ASSUME ~overlap'
       PROVE  /\ result'[Base] = SumOf(result', Final')
              /\ \A d \in In({"reduced"})' :
                   /\ \A e \in In({"reduced"})' : d = e
                   /\ reduction'[d] = result'[Base] + result'[d]
  <2>1. ~overlap /\ In({"reduced"})' = {c}
    BY <1>1, <1>3, <1>10
  <2> QED
    BY <1>1, <1>3, <1>4, <2>1 DEF PropagatorIndInv
<1>11. \E any \in SUBSET Final' : result'[Base] = SumOf(result', any)
  BY <1>1, <1>3, <1>7
<1> QED
  BY <1>1, <1>6, <1>9, <1>10, <1>11 DEF PropagatorIndInv

\* The copy is final now, and its result in the base.
LEMMA SetResultStep ==
  ASSUME PropagatorIndInv, PropagatorTypeOK', NEW c \in Copies, SetResult(c)
  PROVE  PropagatorIndInv'
<1> USE PropagatorAssumption
<1>1. /\ phase[c] = "reduced"
      /\ result' = [result EXCEPT ![Base] = reduction[c]]
      /\ phase' = [phase EXCEPT ![c] = "final"]
      /\ UNCHANGED <<reduction, seed, applied, overlap>>
  BY DEF SetResult
<1>2. PropagatorTypeOK
  BY DEF PropagatorIndInv
<1>3. Final' = Final \cup {c} /\ In({"reduced"})' = In({"reduced"}) \ {c}
  BY <1>1, <1>2 DEF Final, In, PropagatorTypeOK
<1>4. result'[Base] = reduction[c] /\ \A d \in Copies : result'[d] = result[d]
  BY <1>1, <1>2 DEF PropagatorTypeOK
<1>5. c \in In({"reduced"}) /\ c \notin Final /\ Final \in SUBSET Copies
  BY <1>1 DEF Final, In
<1>6. \A some \in SUBSET Copies : SumOf(result', some) = SumOf(result, some)
  BY <1>2, <1>4, SameSum
<1>7. \A d \in Copies : phase'[d] = "unborn" => result'[d] = 0 /\ seed'[d] = 0
  BY <1>1, <1>2, <1>4 DEF PropagatorIndInv, PropagatorTypeOK
<1>8. (\A d \in Copies : seed'[d] = 0) => applied' = SumOf(result', Copies)
  BY <1>1, <1>6 DEF PropagatorIndInv
<1>9. \E some \in SUBSET Final' : result'[Base] = SumOf(result', some)
  <2>1. PICK some \in SUBSET (Final \cup {c}) : reduction[c] = SumOf(result, some)
    BY <1>5 DEF PropagatorIndInv
  <2> QED
    BY <1>3, <1>4, <1>5, <1>6, <2>1
<1>10. ASSUME NEW d \in In({"reduced"})'
       PROVE  \E some \in SUBSET (Final' \cup {d}) : reduction'[d] = SumOf(result', some)
  <2>1. PICK some \in SUBSET (Final \cup {d}) : reduction[d] = SumOf(result, some)
    BY <1>3 DEF PropagatorIndInv
  <2>2. some \in SUBSET Copies
    BY <1>3, <1>5 DEF In
  <2> QED
    BY <1>1, <1>3, <1>6, <2>1, <2>2
<1>11. ASSUME ~overlap'
       PROVE  result'[Base] = SumOf(result', Final') /\ In({"reduced"})' = {}
  <2>1. /\ result[Base] = SumOf(result, Final)
        /\ reduction[c] = result[Base] + result[c]
        /\ In({"reduced"}) = {c}
    BY <1>1, <1>5, <1>11 DEF PropagatorIndInv
  <2>2. IsFiniteSet(Final) /\ \A d \in Final \cup {c} : result[d] \in Nat
    BY <1>2, <1>5, CopiesFinite DEF PropagatorTypeOK
  <2>3. SumOf(result, Final \cup {c}) = result[c] + SumOf(result, Final)
    BY <1>5, <2>2, SumAdded
  <2>4. result[Base] \in Nat /\ result[c] \in Nat
    BY <1>2 DEF PropagatorTypeOK
  <2>5. SumOf(result', Final') = result[Base] + result[c]
    BY <1>3, <1>5, <1>6, <2>1, <2>3, <2>4
  <2> QED
    BY <1>3, <1>4, <2>1, <2>5
<1> QED
  BY <1>7, <1>8, <1>9, <1>10, <1>11 DEF PropagatorIndInv

\* No step breaks the inductive invariant.
LEMMA PropagatorStep == PropagatorIndInv /\ [PropagatorNext]_propagatorVars => PropagatorIndInv'
<1>1. ASSUME PropagatorIndInv, PropagatorNext PROVE PropagatorIndInv'
  <2>1. PropagatorTypeOK'
    BY <1>1, PropagatorTypes DEF PropagatorIndInv
  <2> QED
    BY <1>1, <2>1, CopyStep, AccumulateStep, ReduceStep, SetResultStep DEF PropagatorNext
<1>2. ASSUME PropagatorIndInv, UNCHANGED propagatorVars PROVE PropagatorIndInv'
  BY <1>2 DEF PropagatorIndInv, PropagatorTypeOK, propagatorVars, Final, In
<1> QED
  BY <1>1, <1>2

\* What the base has is a sum of results of some copies, hence at most that of all.
LEMMA PropagatorImplies == PropagatorIndInv => ResultsReachBase
<1> SUFFICES ASSUME PropagatorIndInv PROVE ResultsReachBase
  OBVIOUS
<1> USE PropagatorAssumption
<1>1. PropagatorTypeOK
  BY DEF PropagatorIndInv
<1>2. MapThenSumSet(LAMBDA c : result[c], Final) = SumOf(result, Final)
  BY DEF MapThenSumSet, MapThenFoldSet, SumOf, SumFix, Chosen
<1>3. NothingLost
  BY <1>2 DEF PropagatorIndInv, NothingLost, Final
<1>4. WorkCountedOnce
  BY DEF PropagatorIndInv, WorkCountedOnce, Final
<1>5. NothingInvented
  <2>1. PICK some \in SUBSET Final : result[Base] = SumOf(result, some)
    BY DEF PropagatorIndInv
  <2>2. some \in SUBSET Copies
    BY DEF Final, In
  <2>3. SumOf(result, some) <= SumOf(result, Copies)
    BY <1>1, <2>2, SumOfSome DEF PropagatorTypeOK
  <2> QED
    BY <2>1, <2>3 DEF PropagatorIndInv, NothingInvented
<1> QED
  BY <1>1, <1>3, <1>4, <1>5 DEF ResultsReachBase

\* finalize_imp() calls of any number of copies that keep out of each other's way hand
\* every result over once, and however they overlap none is handed over twice.
THEOREM ResultsAreHandedOver == PropagatorSpec => []ResultsReachBase
<1>1. PropagatorSpec => []PropagatorIndInv
  BY PropagatorInitial, PropagatorStep, PTL DEF PropagatorSpec
<1> QED
  BY <1>1, PropagatorImplies, PTL

-----------------------------------------------------------------------------
(* PerThreadValue: any number of threads and any initial values. *)

\* All that was added is in the values, and the initial value once in each.
Counted == SumOf(locals, DOMAIN locals) = adds + initial * Cardinality(DOMAIN locals)

\* One value per thread that has looked, or the one of all.
LocalsTyped ==
  /\ locals \in [DOMAIN locals -> Nat]
  /\ IF HAVE_TBB THEN DOMAIN locals \subseteq Workers ELSE DOMAIN locals = {Shared}

\* What a thread has read is still its value - without TBB, as long as no others have read
\* the same value at the same time.
ReadIsCurrent(w) ==
  HAVE_TBB \/ ~overlapped =>
    Key(w) \in DOMAIN locals /\ register[w] = locals[Key(w)]

\* The inductive invariant.
PerThreadIndInv ==
  /\ HAVE_TBB \in BOOLEAN /\ initial \in Nat /\ adds \in Nat
  /\ register \in [Workers -> Nat \cup {Nobody}]
  /\ LocalsTyped
  /\ \A w \in Workers : register[w] # Nobody => ReadIsCurrent(w)
  /\ ~overlapped => \A u, w \in Workers : register[u] # Nobody /\ register[w] # Nobody => u = w
  /\ HAVE_TBB \/ ~overlapped => Counted

\* As many values as threads, or one.
LEMMA KeysFinite == ASSUME LocalsTyped
  PROVE IsFiniteSet(DOMAIN locals) /\ Cardinality(DOMAIN locals) \in Nat
<1>1. IsFiniteSet(Workers) /\ IsFiniteSet({Shared})
  BY PerThreadAssumption, FS_Singleton
<1>2. IsFiniteSet(DOMAIN locals)
  BY <1>1, FS_Subset DEF LocalsTyped
<1> QED
  BY <1>2, FS_CardinalityType

\* New containers have no value yet, or the initial one.
LEMMA MadeIsCounted ==
  ASSUME HAVE_TBB \in BOOLEAN, NEW v \in Nat
  PROVE  /\ Made(v) \in [DOMAIN Made(v) -> Nat]
         /\ IF HAVE_TBB THEN DOMAIN Made(v) \subseteq Workers ELSE DOMAIN Made(v) = {Shared}
         /\ SumOf(Made(v), DOMAIN Made(v)) = 0 + v * Cardinality(DOMAIN Made(v))
<1>1. PICK made : made = Made(v)
  OBVIOUS
<1>2. DOMAIN made = (IF HAVE_TBB THEN {} ELSE {Shared}) /\ \A k \in DOMAIN made : made[k] = v
  BY <1>1 DEF Made
<1>3. made \in [DOMAIN made -> Nat]
  BY <1>1 DEF Made
<1>4. SumOf(made, DOMAIN made) = 0 + v * Cardinality(DOMAIN made)
  <2>1. CASE HAVE_TBB
    <3>1. SumOf(made, DOMAIN made) = 0 /\ Cardinality(DOMAIN made) = 0
      BY <1>2, <2>1, SumEmpty, FS_EmptySet
    <3>2. v * 0 = 0
      OBVIOUS
    <3> QED
      BY <3>1, <3>2
  <2>2. CASE ~HAVE_TBB
    <3>1. IsFiniteSet({}) /\ Cardinality({Shared}) = 1 /\ {} \cup {Shared} = {Shared}
      BY FS_EmptySet, FS_Singleton
    <3>2. DOMAIN made = {Shared} /\ made[Shared] = v
      BY <1>2, <2>2
    <3>3. SumOf(made, {} \cup {Shared}) = made[Shared] + SumOf(made, {})
      BY <3>1, <3>2, SumAdded
    <3>4. SumOf(made, DOMAIN made) = v + 0
      BY <3>1, <3>2, <3>3, SumEmpty
    <3>5. v + 0 = 0 + v * 1
      OBVIOUS
    <3> QED
      BY <3>1, <3>2, <3>4, <3>5
  <2> QED
    BY <2>1, <2>2
<1> QED
  BY <1>1, <1>2, <1>3, <1>4

\* Looking at a value makes it if there is none, with the initial value, and changes no
\* other.
LEMMA LocalIsCounted ==
  ASSUME PerThreadIndInv, NEW w \in Workers, locals' = Local(w),
         UNCHANGED <<HAVE_TBB, initial, adds>>
  PROVE  /\ LocalsTyped' /\ (Counted => Counted')
         /\ Key(w) \in DOMAIN locals' /\ locals'[Key(w)] = Local(w)[Key(w)]
         /\ Local(w)[Key(w)] \in Nat
         /\ \A k \in DOMAIN locals : k \in DOMAIN locals' /\ locals'[k] = locals[k]
<1>1. DOMAIN locals' = DOMAIN locals \cup {Key(w)}
  BY DEF Local
<1>2. /\ \A k \in DOMAIN locals : k \in DOMAIN locals' /\ locals'[k] = locals[k]
      /\ Key(w) \notin DOMAIN locals => locals'[Key(w)] = initial
  BY DEF Local
<1>3. LocalsTyped'
  <2>1. \A k \in DOMAIN locals' : locals'[k] \in Nat
    BY <1>1, <1>2 DEF PerThreadIndInv, LocalsTyped
  <2>2. locals' \in [DOMAIN locals' -> Nat]
    BY <2>1 DEF Local
  <2> QED
    BY <1>1, <2>2 DEF PerThreadIndInv, LocalsTyped, Key
<1>4. IsFiniteSet(DOMAIN locals) /\ Cardinality(DOMAIN locals) \in Nat
  BY KeysFinite DEF PerThreadIndInv
<1>5. SumOf(locals', DOMAIN locals) = SumOf(locals, DOMAIN locals)
  BY <1>2, <1>4, SumCongruent
<1>6. ASSUME Counted PROVE Counted'
  <2>1. CASE Key(w) \in DOMAIN locals
    <3>1. DOMAIN locals' = DOMAIN locals
      BY <1>1, <2>1
    <3> QED
      BY <1>5, <1>6, <3>1 DEF Counted
  <2>2. CASE Key(w) \notin DOMAIN locals
    <3>1. \A k \in DOMAIN locals \cup {Key(w)} : locals'[k] \in Nat
      BY <1>1, <1>3 DEF LocalsTyped
    <3>2. SumOf(locals', DOMAIN locals') = initial + SumOf(locals, DOMAIN locals)
      BY <1>1, <1>2, <1>4, <1>5, <2>2, <3>1, SumAdded
    <3>3. Cardinality(DOMAIN locals') = Cardinality(DOMAIN locals) + 1
      BY <1>1, <1>4, <2>2, FS_AddElement
    <3>4. PICK n \in Nat : n = Cardinality(DOMAIN locals)
      BY <1>4
    <3>5. initial \in Nat /\ adds \in Nat
      BY DEF PerThreadIndInv
    <3>6. initial + (adds + initial * n) = adds + initial * (n + 1)
      BY <3>5
    <3>7. SumOf(locals', DOMAIN locals') = adds + initial * (n + 1)
      BY <1>6, <3>2, <3>4, <3>6 DEF Counted
    <3> QED
      BY <3>3, <3>4, <3>7 DEF Counted
  <2> QED
    BY <2>1, <2>2
<1>7. Key(w) \in DOMAIN locals' /\ locals'[Key(w)] = Local(w)[Key(w)]
  BY <1>1
<1>8. Local(w)[Key(w)] \in Nat
  BY <1>3, <1>7 DEF LocalsTyped
<1> QED
  BY <1>2, <1>3, <1>6, <1>7, <1>8

\* A container as constructed.
LEMMA PerThreadInitial == PerThreadInit => PerThreadIndInv
<1> SUFFICES ASSUME PerThreadInit PROVE PerThreadIndInv
  OBVIOUS
<1>1. HAVE_TBB \in BOOLEAN /\ initial \in Nat /\ adds = 0 /\ locals = Made(initial)
  BY PerThreadAssumption DEF PerThreadInit
<1>2. register = [w \in Workers |-> Nobody]
  BY DEF PerThreadInit
<1> QED
  BY <1>1, <1>2, MadeIsCounted DEF PerThreadIndInv, LocalsTyped, Counted

\* Looking at a value adds the initial one on both sides.
LEMMA LookStep ==
  ASSUME PerThreadIndInv, NEW w \in Workers, Look(w) PROVE PerThreadIndInv'
<1>1. locals' = Local(w) /\ UNCHANGED <<HAVE_TBB, initial, register, adds, overlapped>>
  BY DEF Look
<1>2. /\ LocalsTyped' /\ (Counted => Counted')
      /\ \A k \in DOMAIN locals : k \in DOMAIN locals' /\ locals'[k] = locals[k]
  BY <1>1, LocalIsCounted
<1>3. \A u \in Workers : register'[u] # Nobody => ReadIsCurrent(u)'
  BY <1>1, <1>2 DEF PerThreadIndInv, ReadIsCurrent, Key
<1> QED
  BY <1>1, <1>2, <1>3 DEF PerThreadIndInv

\* A thread that reads has the value as it is.
LEMMA ReadStep ==
  ASSUME PerThreadIndInv, NEW w \in Workers, Read(w) PROVE PerThreadIndInv'
<1>1. /\ register[w] = Nobody /\ locals' = Local(w)
      /\ register' = [register EXCEPT ![w] = Local(w)[Key(w)]]
      /\ overlapped' = (overlapped \/ \E other \in Workers : register[other] # Nobody)
      /\ UNCHANGED <<HAVE_TBB, initial, adds>>
  BY DEF Read
<1>2. /\ LocalsTyped' /\ (Counted => Counted')
      /\ Key(w) \in DOMAIN locals' /\ locals'[Key(w)] = Local(w)[Key(w)]
      /\ Local(w)[Key(w)] \in Nat
      /\ \A k \in DOMAIN locals : k \in DOMAIN locals' /\ locals'[k] = locals[k]
  BY <1>1, LocalIsCounted
<1>3. /\ register' \in [Workers -> Nat \cup {Nobody}]
      /\ register'[w] = Local(w)[Key(w)]
      /\ \A u \in Workers \ {w} : register'[u] = register[u]
  BY <1>1, <1>2 DEF PerThreadIndInv
<1>4. ASSUME NEW u \in Workers, register'[u] # Nobody PROVE ReadIsCurrent(u)'
  <2>1. CASE u = w
    BY <1>1, <1>2, <1>3, <2>1 DEF ReadIsCurrent, Key
  <2>2. CASE u # w
    <3>1. ReadIsCurrent(u)
      BY <1>3, <1>4, <2>2 DEF PerThreadIndInv
    <3> QED
      BY <1>1, <1>2, <1>3, <2>2, <3>1 DEF ReadIsCurrent, Key
  <2> QED
    BY <2>1, <2>2
<1>5. ~overlapped' =>
        \A u, v \in Workers : register'[u] # Nobody /\ register'[v] # Nobody => u = v
  BY <1>1, <1>3
<1>6. HAVE_TBB' \/ ~overlapped' => Counted'
  BY <1>1, <1>2 DEF PerThreadIndInv
<1>7. HAVE_TBB' \in BOOLEAN /\ initial' \in Nat /\ adds' \in Nat
  BY <1>1 DEF PerThreadIndInv
<1> QED
  BY <1>2, <1>3, <1>4, <1>5, <1>6, <1>7 DEF PerThreadIndInv

\* One is added to what was read, which nobody else has changed if it is counted.
LEMMA WriteBackStep ==
  ASSUME PerThreadIndInv, NEW w \in Workers, WriteBack(w) PROVE PerThreadIndInv'
<1>1. /\ register[w] # Nobody
      /\ locals' = [locals EXCEPT ![Key(w)] = register[w] + 1]
      /\ register' = [register EXCEPT ![w] = Nobody]
      /\ adds' = adds + 1
      /\ UNCHANGED <<HAVE_TBB, initial, overlapped>>
  BY DEF WriteBack
<1>2. /\ register' \in [Workers -> Nat \cup {Nobody}] /\ register'[w] = Nobody
      /\ \A u \in Workers \ {w} : register'[u] = register[u]
  BY <1>1 DEF PerThreadIndInv
<1>3. register[w] \in Nat /\ adds \in Nat /\ initial \in Nat /\ LocalsTyped
  BY <1>1 DEF PerThreadIndInv
<1>4. DOMAIN locals' = DOMAIN locals /\ LocalsTyped'
  <2>1. register[w] + 1 \in Nat /\ DOMAIN locals' = DOMAIN locals
    BY <1>1, <1>3
  <2>2. locals' \in [DOMAIN locals -> Nat]
    BY <1>1, <1>3, <2>1 DEF LocalsTyped
  <2> QED
    BY <1>1, <1>3, <2>1, <2>2 DEF LocalsTyped
<1>5. \A k \in DOMAIN locals \ {Key(w)} : locals'[k] = locals[k]
  BY <1>1, <1>3 DEF LocalsTyped
<1>6. ASSUME NEW u \in Workers, register'[u] # Nobody PROVE ReadIsCurrent(u)'
  <2>1. u # w /\ register[u] # Nobody /\ ReadIsCurrent(u)
    BY <1>2, <1>6 DEF PerThreadIndInv
  <2>2. CASE HAVE_TBB
    <3>1. Key(u) # Key(w)
      BY <2>1, <2>2 DEF Key
    <3> QED
      BY <1>1, <1>2, <1>4, <1>5, <2>1, <2>2, <3>1 DEF ReadIsCurrent, Key
  <2>3. CASE ~HAVE_TBB
    <3>1. overlapped
      BY <1>1, <2>1 DEF PerThreadIndInv
    <3> QED
      BY <1>1, <2>3, <3>1 DEF ReadIsCurrent
  <2> QED
    BY <2>2, <2>3
<1>7. ASSUME HAVE_TBB \/ ~overlapped PROVE Counted'
  <2>1. Counted /\ Key(w) \in DOMAIN locals /\ register[w] = locals[Key(w)]
    BY <1>1, <1>7 DEF PerThreadIndInv, ReadIsCurrent
  <2>2. PICK k \in DOMAIN locals : k = Key(w)
    BY <2>1
  <2>3. locals'[k] = locals[k] + 1
    BY <1>1, <1>3, <2>1, <2>2 DEF LocalsTyped
  <2>4. IsFiniteSet(DOMAIN locals) /\ Cardinality(DOMAIN locals) \in Nat
    BY <1>3, KeysFinite
  <2>5. \A y \in DOMAIN locals : locals[y] \in Nat /\ locals'[y] \in Nat
    BY <1>3, <1>4 DEF LocalsTyped
  <2>6. \A y \in DOMAIN locals \ {k} : locals[y] = locals'[y]
    BY <1>5, <2>2
  <2>7. SumOf(locals', DOMAIN locals) + locals[k] = SumOf(locals, DOMAIN locals) + locals'[k]
    BY <2>4, <2>5, <2>6, SumChanged
  <2>8. SumOf(locals', DOMAIN locals) \in Nat /\ SumOf(locals, DOMAIN locals) \in Nat
    BY <2>4, <2>5, SumRemove
  <2>9. locals[k] \in Nat
    BY <2>5
  <2>10. SumOf(locals', DOMAIN locals) = SumOf(locals, DOMAIN locals) + 1
    BY <2>3, <2>7, <2>8, <2>9
  <2>11. PICK m \in Nat : m = initial * Cardinality(DOMAIN locals)
    BY <1>3, <2>4
  <2>12. SumOf(locals, DOMAIN locals) = adds + m
    BY <2>1, <2>11 DEF Counted
  <2>13. SumOf(locals', DOMAIN locals) = (adds + 1) + m
    BY <1>3, <2>10, <2>12
  <2> QED
    BY <1>1, <1>4, <2>11, <2>13 DEF Counted
<1>8. ~overlapped' =>
        \A u, v \in Workers : register'[u] # Nobody /\ register'[v] # Nobody => u = v
  BY <1>1, <1>2 DEF PerThreadIndInv
<1>9. HAVE_TBB' \in BOOLEAN /\ initial' \in Nat /\ adds' \in Nat
  BY <1>1, <1>3 DEF PerThreadIndInv
<1> QED
  BY <1>1, <1>2, <1>4, <1>6, <1>7, <1>8, <1>9 DEF PerThreadIndInv

\* A new container takes the place of the old one.
LEMMA ReplaceStep ==
  ASSUME PerThreadIndInv, NEW v \in Initials, Replace(v) PROVE PerThreadIndInv'
<1>1. /\ \A w \in Workers : register[w] = Nobody
      /\ initial' = v /\ locals' = Made(v) /\ adds' = 0
      /\ UNCHANGED <<HAVE_TBB, register>>
  BY DEF Replace
<1>2. initial' \in Nat /\ HAVE_TBB' \in BOOLEAN
  BY <1>1, PerThreadAssumption DEF PerThreadIndInv
<1>3. /\ Made(v) \in [DOMAIN Made(v) -> Nat]
      /\ IF HAVE_TBB THEN DOMAIN Made(v) \subseteq Workers ELSE DOMAIN Made(v) = {Shared}
      /\ SumOf(Made(v), DOMAIN Made(v)) = 0 + v * Cardinality(DOMAIN Made(v))
  BY <1>1, <1>2, MadeIsCounted
<1>4. LocalsTyped' /\ Counted'
  BY <1>1, <1>3 DEF LocalsTyped, Counted
<1> QED
  BY <1>1, <1>2, <1>4 DEF PerThreadIndInv

\* combine() adds up the values there are.
LEMMA PerThreadImplies == PerThreadIndInv => SumCountsEveryAdd
<1> SUFFICES ASSUME PerThreadIndInv, HAVE_TBB \/ ~overlapped
             PROVE  sum = adds + initial * (IF locals = <<>> THEN 1 ELSE Cardinality(DOMAIN locals))
  BY DEF SumCountsEveryAdd
<1>1. Counted /\ LocalsTyped /\ initial \in Nat /\ adds \in Nat
  BY DEF PerThreadIndInv
<1>2. IsFiniteSet(DOMAIN locals)
  BY <1>1, KeysFinite
<1>3. CASE locals = <<>>
  <2>1. DOMAIN locals = {}
    BY <1>3
  <2>2. SumOf(locals, {}) = 0 /\ Cardinality({}) = 0
    BY SumEmpty, FS_EmptySet
  <2>3. 0 = adds + initial * 0
    BY <1>1, <2>1, <2>2 DEF Counted
  <2>4. adds = 0
    BY <1>1, <2>3
  <2> QED
    BY <1>1, <1>3, <2>4 DEF sum, combine
<1>4. CASE locals # <<>>
  <2>1. MapThenSumSet(LAMBDA k : locals[k], DOMAIN locals) = SumOf(locals, DOMAIN locals)
    BY DEF MapThenSumSet, MapThenFoldSet, SumOf, SumFix, Chosen
  <2>2. sum = 0 + SumOf(locals, DOMAIN locals)
    BY <1>4, <2>1 DEF sum, combine
  <2>3. SumOf(locals, DOMAIN locals) \in Nat
    BY <1>1, <1>2, SumRemove DEF LocalsTyped
  <2> QED
    BY <1>1, <1>4, <2>2, <2>3 DEF Counted
<1> QED
  BY <1>3, <1>4

\* sum() has all that any number of threads have added, at the same time as well if there
\* is TBB, and the initial value once for each value there is.
THEOREM EveryAddCounts == PerThreadSpec => []SumCountsEveryAdd
<1>1. PerThreadIndInv /\ [PerThreadNext]_perThreadVars => PerThreadIndInv'
  <2> SUFFICES ASSUME PerThreadIndInv, [PerThreadNext]_perThreadVars PROVE PerThreadIndInv'
    OBVIOUS
  <2>1. CASE UNCHANGED perThreadVars
    BY <2>1 DEF perThreadVars, PerThreadIndInv, LocalsTyped, ReadIsCurrent, Key, Counted
  <2>2. CASE PerThreadNext
    BY <2>2, LookStep, ReadStep, WriteBackStep, ReplaceStep DEF PerThreadNext
  <2> QED
    BY <2>1, <2>2
<1>2. PerThreadSpec => []PerThreadIndInv
  BY PerThreadInitial, <1>1, PTL DEF PerThreadSpec
<1> QED
  BY <1>2, PerThreadImplies, PTL

-----------------------------------------------------------------------------
(* TimingsOutput: any number of ranks and sections, and any times. *)

\* Ranks take their sections in order: the first of those a rank has to print is there.
LEMMA CurrentIsTodo ==
  ASSUME NEW r \in Ranks, todo[r] \subseteq Sections, todo[r] # {}
  PROVE  Current(r) \in todo[r]
<1>1. PICK R : IsWellFoundedOn(R, Nat) /\ \A x, y \in Nat : y < x => <<y, x>> \in R
  <2>1. \A x, y \in Nat : y < x => <<y, x>> \in OpToRel(<, Nat)
    BY DEF OpToRel
  <2> QED
    BY <2>1, NatLessThanWellFounded, Zenon
<1>2. todo[r] \in SUBSET Nat
  BY OutputAssumption
<1>3. PICK n \in todo[r] : \A m \in todo[r] : ~(<<m, n>> \in R)
  BY <1>1, <1>2, WFMin
<1>4. \A m \in todo[r] : n <= m
  <2> SUFFICES ASSUME NEW m \in todo[r] PROVE n <= m
    OBVIOUS
  <2>1. m \in Nat /\ n \in Nat
    BY <1>2
  <2>2. ~(m < n)
    BY <1>1, <1>3, <2>1
  <2> QED
    BY <2>1, <2>2
<1> QED
  BY <1>3, <1>4 DEF Current, Min

\* The times of all ranks that one collective combines.
Part(s, m) == [q \in Ranks |-> Deltas[q][s][m]]

SumOfParts(s, m) == MapThenSumSet(LAMBDA q : Deltas[q][s][m], Ranks)

\* The sum over all ranks is the recursive one of their times.
LEMMA PartsSummed == ASSUME NEW s, NEW m PROVE SumOfParts(s, m) = SumOf(Part(s, m), Ranks)
<1> DEFINE IsSum(f) == f = [S \in SUBSET Ranks |-> IF S = {} THEN 0
                             ELSE Deltas[Chosen(S)][s][m] + f[S \ {Chosen(S)}]]
<1>1. ASSUME NEW f PROVE IsSum(f) <=> SumFix(Part(s, m), Ranks, f)
  <2>1. \A S \in SUBSET Ranks : S # {} => Part(s, m)[Chosen(S)] = Deltas[Chosen(S)][s][m]
    BY DEF Part, Chosen
  <2>2. [S \in SUBSET Ranks |-> IF S = {} THEN 0
             ELSE Deltas[Chosen(S)][s][m] + f[S \ {Chosen(S)}]]
        = [S \in SUBSET Ranks |-> IF S = {} THEN 0
             ELSE Part(s, m)[Chosen(S)] + f[S \ {Chosen(S)}]]
    BY <2>1
  <2> QED
    BY <2>2 DEF SumFix
<1>2. \E f : IsSum(f)
  BY <1>1, FixExists, OutputAssumption
<1>3. SumOfParts(s, m) = (CHOOSE f : IsSum(f))[Ranks]
  BY DEF SumOfParts, MapThenSumSet, MapThenFoldSet, Chosen
<1>4. PICK f : IsSum(f) /\ SumOfParts(s, m) = f[Ranks]
  <2> HIDE DEF IsSum
  <2> QED
    BY <1>2, <1>3
<1>5. SumFix(Part(s, m), Ranks, f)
  BY <1>1, <1>4
<1>6. SumFix(Part(s, m), Ranks, CHOOSE g : SumFix(Part(s, m), Ranks, g))
  BY SumIsFix, OutputAssumption
<1> QED
  BY <1>4, <1>5, <1>6, FixUnique, OutputAssumption DEF SumOf

\* If all ranks send their times of one section, comm.sum() adds up these.
LEMMA SentSummed ==
  ASSUME NEW s, NEW m, \A q \in Ranks : Sent(q) = Deltas[q][s][m]
  PROVE  MapThenSumSet(Sent, Ranks) = SumOfParts(s, m)
<1> DEFINE IsSum(f) == f = [S \in SUBSET Ranks |-> IF S = {} THEN 0
                             ELSE Sent(Chosen(S)) + f[S \ {Chosen(S)}]]
<1>1. ASSUME NEW f PROVE IsSum(f) <=> SumFix(Part(s, m), Ranks, f)
  <2>1. \A S \in SUBSET Ranks : S # {} => Part(s, m)[Chosen(S)] = Sent(Chosen(S))
    BY DEF Part, Chosen
  <2>2. [S \in SUBSET Ranks |-> IF S = {} THEN 0
             ELSE Sent(Chosen(S)) + f[S \ {Chosen(S)}]]
        = [S \in SUBSET Ranks |-> IF S = {} THEN 0
             ELSE Part(s, m)[Chosen(S)] + f[S \ {Chosen(S)}]]
    BY <2>1
  <2> QED
    BY <2>2 DEF SumFix
<1>2. \E f : IsSum(f)
  BY <1>1, FixExists, OutputAssumption
<1>3. MapThenSumSet(Sent, Ranks) = (CHOOSE f : IsSum(f))[Ranks]
  BY DEF MapThenSumSet, MapThenFoldSet, Chosen
<1>4. PICK f : IsSum(f) /\ MapThenSumSet(Sent, Ranks) = f[Ranks]
  <2> HIDE DEF IsSum
  <2> QED
    BY <1>2, <1>3
<1>5. SumFix(Part(s, m), Ranks, f)
  BY <1>1, <1>4
<1>6. SumFix(Part(s, m), Ranks, CHOOSE g : SumFix(Part(s, m), Ranks, g))
  BY SumIsFix, OutputAssumption
<1>7. MapThenSumSet(Sent, Ranks) = SumOf(Part(s, m), Ranks)
  BY <1>4, <1>5, <1>6, FixUnique, OutputAssumption DEF SumOf
<1> QED
  BY <1>7, PartsSummed

\* What a collective gives if all ranks call it for section s.
Combined(s, k) ==
  IF Collectives[k].op = "sum" THEN SumOfParts(s, Collectives[k].of)
  ELSE Max({Deltas[q][s][Collectives[k].of] : q \in Ranks})

\* The inductive invariant: ranks go through their collectives in step, each through its
\* own sections, and print of the section at hand what they have called before.
OutputIndInv ==
  /\ commited \in [Ranks -> SUBSET Sections] /\ todo \in [Ranks -> SUBSET Sections]
  /\ slot \in [Ranks -> 1 .. 6]
  /\ waiting \subseteq Ranks /\ \A r \in waiting : todo[r] # {}
  /\ \A r \in Ranks : todo[r] \subseteq commited[r]
  /\ \A q, r \in Ranks : slot[q] = slot[r] /\ (SameSections => todo[q] = todo[r])
  /\ \A r \in Ranks : \A e \in stash[r] :
       /\ e[2] \in 1 .. 6
       /\ \/ e[1] \in commited[r] \ todo[r]
          \/ todo[r] # {} /\ e[1] = Current(r) /\ e[2] < slot[r]
  /\ SameSections => \A r \in Ranks : \A e \in stash[r] : e[3] = Combined(e[1], e[2])

\* Without a section printed yet.
LEMMA OutputInitial == OutputInit => OutputIndInv
  BY DEF OutputInit, OutputIndInv, SameSections

\* Ranks with the same sections combine the times of the same one.
LEMMA ReducedIsCombined ==
  ASSUME OutputIndInv, SameSections, NEW r \in Ranks
  PROVE  Reduced(Collectives[slot[r]].op) = Combined(Current(r), slot[r])
<1> DEFINE m == Collectives[slot[r]].of
<1>1. \A q \in Ranks : Sent(q) = Deltas[q][Current(r)][m]
  BY DEF OutputIndInv, Sent, Current
<1>2. MapThenSumSet(Sent, Ranks) = SumOfParts(Current(r), m)
  <2> HIDE DEF m
  <2> QED
    BY <1>1, SentSummed
<1>3. {Sent(q) : q \in Ranks} = {Deltas[q][Current(r)][m] : q \in Ranks}
  BY <1>1
<1> QED
  BY <1>2, <1>3 DEF Reduced, Combined

\* A rank that waits has a section at hand.
LEMMA EnterStep ==
  ASSUME OutputIndInv, NEW r \in Ranks, Enter(r) PROVE OutputIndInv'
<1>1. /\ todo[r] # {} /\ waiting' = waiting \cup {r}
      /\ UNCHANGED <<commited, todo, slot, stash>>
  BY DEF Enter
<1> QED
  BY <1>1 DEF OutputIndInv, SameSections, Current

\* A collective is over: all ranks go on to the next one, or to their next section.
LEMMA CompleteStep == ASSUME OutputIndInv, Complete PROVE OutputIndInv'
<1>1. /\ waiting = Ranks /\ waiting' = {}
      /\ stash' = [r \in Ranks |-> stash[r] \cup
           {<<Current(r), slot[r], Reduced(Collectives[slot[r]].op)>>}]
      /\ slot' = [r \in Ranks |-> (slot[r] % 6) + 1]
      /\ todo' = [r \in Ranks |-> IF slot[r] = 6 THEN todo[r] \ {Current(r)} ELSE todo[r]]
      /\ UNCHANGED commited
  BY DEF Complete
<1>2. \A r \in Ranks : todo[r] \subseteq Sections /\ todo[r] # {} /\ Current(r) \in todo[r]
  BY <1>1, CurrentIsTodo DEF OutputIndInv
<1>3. \A r \in Ranks : /\ slot[r] \in 1 .. 6
                       /\ slot'[r] = IF slot[r] = 6 THEN 1 ELSE slot[r] + 1
  BY <1>1 DEF OutputIndInv
<1>4. todo' \in [Ranks -> SUBSET Sections] /\ slot' \in [Ranks -> 1 .. 6]
  <2>1. \A r \in Ranks : (slot[r] % 6) + 1 \in 1 .. 6
    BY <1>3
  <2> QED
    BY <1>1, <1>2, <2>1
<1>5. \A r \in Ranks : todo'[r] = IF slot[r] = 6 THEN todo[r] \ {Current(r)} ELSE todo[r]
  BY <1>1
<1>6. SameSections' = SameSections
  BY <1>1 DEF SameSections
<1>7. \A q, r \in Ranks : slot'[q] = slot'[r] /\ (SameSections' => todo'[q] = todo'[r])
  <2> SUFFICES ASSUME NEW q \in Ranks, NEW r \in Ranks
               PROVE  slot'[q] = slot'[r] /\ (SameSections' => todo'[q] = todo'[r])
    OBVIOUS
  <2>1. slot[q] = slot[r] /\ (SameSections => todo[q] = todo[r])
    BY DEF OutputIndInv
  <2>2. SameSections => Current(q) = Current(r)
    BY <2>1 DEF Current
  <2>3. SameSections => todo'[q] = todo'[r]
    BY <1>5, <2>1, <2>2
  <2> QED
    BY <1>3, <1>6, <2>1, <2>3
<1>8. ASSUME NEW r \in Ranks, NEW e \in stash'[r]
      PROVE  /\ e[2] \in 1 .. 6
             /\ \/ e[1] \in commited'[r] \ todo'[r]
                \/ todo'[r] # {} /\ e[1] = Current(r)' /\ e[2] < slot'[r]
  <2>1. \/ e = <<Current(r), slot[r], Reduced(Collectives[slot[r]].op)>>
        \/ e \in stash[r]
    BY <1>1, <1>8
  <2>2. /\ e[2] \in 1 .. 6
        /\ \/ e[1] \in commited[r] \ todo[r]
           \/ e[1] = Current(r) /\ (e[2] < slot[r] \/ e[2] = slot[r])
    BY <1>3, <2>1 DEF OutputIndInv
  <2>3. CASE slot[r] = 6
    BY <1>1, <1>2, <1>5, <2>2, <2>3 DEF OutputIndInv
  <2>4. CASE slot[r] # 6
    <3>1. todo'[r] = todo[r] /\ slot'[r] = slot[r] + 1 /\ slot[r] \in 1 .. 6
      <4>1. slot'[r] = slot[r] + 1 /\ slot[r] \in 1 .. 6
        BY <1>3, <2>4
      <4>2. todo'[r] = todo[r]
        BY <1>5, <2>4
      <4> QED
        BY <4>1, <4>2
    <3>2. Current(r)' = Current(r)
      BY <3>1 DEF Current
    <3>3. e[2] < slot[r] \/ e[2] = slot[r] => e[2] < slot'[r]
      BY <2>2, <3>1
    <3> QED
      BY <1>1, <1>2, <2>2, <3>1, <3>2, <3>3
  <2> QED
    BY <2>3, <2>4
<1>9. ASSUME SameSections', NEW r \in Ranks, NEW e \in stash'[r]
      PROVE  e[3] = Combined(e[1], e[2])
  <2>1. CASE e \in stash[r]
    BY <1>6, <1>9, <2>1 DEF OutputIndInv
  <2>2. CASE e = <<Current(r), slot[r], Reduced(Collectives[slot[r]].op)>>
    BY <1>6, <1>9, <2>2, ReducedIsCombined
  <2> QED
    BY <1>1, <1>9, <2>1, <2>2
<1>10. waiting' \subseteq Ranks /\ \A r \in waiting' : todo'[r] # {}
  BY <1>1
<1>11. /\ commited' \in [Ranks -> SUBSET Sections]
       /\ \A r \in Ranks : todo'[r] \subseteq commited'[r]
  BY <1>1, <1>5 DEF OutputIndInv
<1> QED
  BY <1>4, <1>7, <1>8, <1>9, <1>10, <1>11 DEF OutputIndInv

\* Combined is what the reductions of MPI give.
LEMMA OutputImplies == OutputIndInv => OutputInv
<1> SUFFICES ASSUME OutputIndInv PROVE OutputInv
  OBVIOUS
<1>1. OutputTypeOK
  BY DEF OutputIndInv, OutputTypeOK
<1>2. ASSUME SameSections, NEW r \in Ranks, NEW e \in stash[r]
      PROVE  e[3] = IF Collectives[e[2]].op = "sum"
                    THEN MapThenSumSet(LAMBDA q : Deltas[q][e[1]][Collectives[e[2]].of], Ranks)
                    ELSE Max({Deltas[q][e[1]][Collectives[e[2]].of] : q \in Ranks})
  <2>1. e[3] = Combined(e[1], e[2])
    BY <1>2 DEF OutputIndInv
  <2> QED
    BY <2>1 DEF Combined, SumOfParts
<1>3. OverAllRanks
  BY <1>2 DEF OverAllRanks
<1> QED
  BY <1>1, <1>3 DEF OutputInv

\* Any number of ranks with the same sections print for a section what combines the times
\* of that section on all of them.
THEOREM RanksCombineTheSame == OutputSpec => []OutputInv
<1>1. OutputIndInv /\ [OutputNext]_outputVars => OutputIndInv'
  <2> SUFFICES ASSUME OutputIndInv, [OutputNext]_outputVars PROVE OutputIndInv'
    OBVIOUS
  <2>1. CASE UNCHANGED outputVars
    BY <2>1 DEF outputVars, OutputIndInv, SameSections, Current
  <2>2. CASE OutputNext
    BY <2>2, EnterStep, CompleteStep DEF OutputNext
  <2> QED
    BY <2>1, <2>2
<1>2. OutputSpec => []OutputIndInv
  BY OutputInitial, <1>1, PTL DEF OutputSpec
<1> QED
  BY <1>2, OutputImplies, PTL
===============================================================================
