---------------------------- MODULE TimingsOutput ----------------------------
(***************************************************************************)
(* Timings::output_all_measures() on several MPI ranks. Every rank walks   *)
(* through its own commited_deltas_ in the order of std::map and calls six *)
(* collectives per section; MPI matches the n-th call of one rank with the *)
(* n-th call of the others, whatever sections they are about.              *)
(***************************************************************************)
EXTENDS Naturals, FiniteSets, FiniteSetsExt

CONSTANTS
  Ranks,
  Sections,      \* section names, as numbers in the order of std::map
  Deltas         \* rank -> section -> measure -> the time committed

Measures == {"wall", "usr", "sys"}

ASSUME OutputAssumption ==
  /\ IsFiniteSet(Ranks) /\ Sections \subseteq Nat
  /\ Deltas \in [Ranks -> [Sections -> [Measures -> Nat]]]

\* The collectives of one section: sum and max of wall, user and system time.
Collectives == <<[of |-> "wall", op |-> "sum"], [of |-> "wall", op |-> "max"],
                 [of |-> "usr", op |-> "sum"], [of |-> "usr", op |-> "max"],
                 [of |-> "sys", op |-> "sum"], [of |-> "sys", op |-> "max"]>>

VARIABLES
  commited,   \* rank -> the sections in its commited_deltas_
  todo,       \* rank -> those it has not printed yet
  slot,       \* rank -> the next collective of the section at hand
  waiting,    \* the ranks inside a collective
  stash       \* rank -> what it will print: section, collective, result

outputVars == <<commited, todo, slot, waiting, stash>>

OutputInit ==
  /\ commited \in [Ranks -> SUBSET Sections]
  /\ todo = commited
  /\ slot = [r \in Ranks |-> 1]
  /\ waiting = {}
  /\ stash = [r \in Ranks |-> {}]

\* Mutant: walked through in an order of its own on every rank.
OwnOrder(r) == IF Cardinality(todo[r]) % 2 = Cardinality(Ranks) % 2 /\ r = Min(Ranks)
               THEN Max(todo[r]) ELSE Min(todo[r])

Current(r) == Min(todo[r])

Sent(r) == Deltas[r][Current(r)][Collectives[slot[r]].of]

\* Mutant: a rank that has no time to report leaves the collective out.
EnterUnlessZero(r) ==
  /\ r \notin waiting /\ todo[r] # {}
  /\ IF Sent(r) = 0 THEN todo' = [todo EXCEPT ![r] = @ \ {Current(r)}] /\ UNCHANGED waiting
                    ELSE waiting' = waiting \cup {r} /\ UNCHANGED todo
  /\ UNCHANGED <<commited, slot, stash>>

\* A rank calls comm.sum() or comm.max() and waits for the others.
Enter(r) ==
  /\ r \notin waiting /\ todo[r] # {}
  /\ waiting' = waiting \cup {r}
  /\ UNCHANGED <<commited, todo, slot, stash>>

Reduced(op) ==
  IF op = "sum" THEN MapThenSumSet(Sent, Ranks) ELSE Max({Sent(r) : r \in Ranks})

\* Mutant: results are printed one column further to the right.
CompleteSection ==
  /\ waiting = Ranks
  /\ waiting' = {}
  /\ stash' = [r \in Ranks |-> stash[r] \cup
       {<<Current(r), slot[r] + 1, Reduced(Collectives[slot[r]].op)>>}]
  /\ slot' = [r \in Ranks |-> (slot[r] % 6) + 1]
  /\ todo' = [r \in Ranks |-> IF slot[r] = 6 THEN todo[r] \ {Current(r)} ELSE todo[r]]
  /\ UNCHANGED commited

\* All ranks have called: each gets the reduction its call asked for.
Complete ==
  /\ waiting = Ranks
  /\ waiting' = {}
  /\ stash' = [r \in Ranks |-> stash[r] \cup
       {<<Current(r), slot[r], Reduced(Collectives[slot[r]].op)>>}]
  /\ slot' = [r \in Ranks |-> (slot[r] % 6) + 1]
  /\ todo' = [r \in Ranks |-> IF slot[r] = 6 THEN todo[r] \ {Current(r)} ELSE todo[r]]
  /\ UNCHANGED commited

OutputNext == Complete \/ \E r \in Ranks : Enter(r)

OutputSpec == OutputInit /\ [][OutputNext]_outputVars

\* Every rank goes on calling until it is through, and MPI completes a
\* collective all ranks have called.
FairOutputSpec == OutputSpec /\ WF_outputVars(Complete) /\ \A r \in Ranks : WF_outputVars(Enter(r))

-----------------------------------------------------------------------------
OutputTypeOK ==
  /\ \A r \in Ranks : todo[r] \subseteq commited[r] /\ commited[r] \subseteq Sections
  /\ slot \in [Ranks -> 1 .. 6]
  /\ waiting \subseteq Ranks
  /\ \A r \in Ranks : \A e \in stash[r] : e[1] \in commited[r] \ todo[r] \/ e[2] < slot[r]

SameSections == \A q, r \in Ranks : commited[q] = commited[r]

\* If all ranks have the same sections, what is printed for a section combines
\* that section of all ranks ("outputs average, min, max over all MPI
\* processes", timings.hh:118). Otherwise it may combine different ones.
OverAllRanks ==
  SameSections => \A r \in Ranks : \A e \in stash[r] :
    LET part(q) == Deltas[q][e[1]][Collectives[e[2]].of]
    IN  e[3] = IF Collectives[e[2]].op = "sum" THEN MapThenSumSet(part, Ranks)
               ELSE Max({part(q) : q \in Ranks})

\* If all ranks have as many sections, none of them waits forever in a
\* collective: all get to print, if not what they should.
AllPrint ==
  (\A q, r \in Ranks : Cardinality(commited[q]) = Cardinality(commited[r]))
  ~> (\A r \in Ranks : todo[r] = {} /\ r \notin waiting)

\* Whatever the ranks have called, the state fits together, and ranks with the
\* same sections combine the same ones.
OutputInv == OutputTypeOK /\ OverAllRanks
==============================================================================
