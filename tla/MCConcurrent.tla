----------------------------- MODULE MCConcurrent -----------------------------
(***************************************************************************)
(* The classes that threads and ranks share and that do not use each       *)
(* other, each checked on its own: a behaviour is that of one of them.     *)
(***************************************************************************)
EXTENDS ThreadResultPropagator, TimingsOutput, OstreamBuffer, TimedLogging, PerThreadValue,
        Signals, UnsafePerThreadValue

VARIABLE shared

\* Times that differ for every rank, section and measure, so that no mixture of
\* them goes unnoticed; one of them is 0.
MCDeltas ==
  [r \in Ranks |-> [s \in Sections |->
    [m \in Measures |->
      (IF m = "wall" THEN 1 ELSE IF m = "usr" THEN 20 ELSE 300) * (s * s + r)]]]

\* Limits below, at and above the levels there are.
MCLevels == -1 .. 1

MCInit ==
  /\ shared \in {"propagator", "output", "buffer", "managers", "value", "signals", "threads"}
  /\ shared # "output" => commited = [r \in Ranks |-> {}]
  /\ shared # "value" => HAVE_TBB = TRUE /\ initial = CHOOSE v \in Initials : TRUE
  /\ shared # "signals" => info_enabled = TRUE
  /\ PropagatorInit /\ OutputInit /\ BufferInit /\ ManagersInit /\ PerThreadInit /\ SignalsInit
  /\ StorageInit

Propagate == shared = "propagator" /\ PropagatorNext
  /\ UNCHANGED <<shared, outputVars, bufferVars, managerVars, perThreadVars, signalVars, allVars>>
Completes == shared = "output" /\ Complete
  /\ UNCHANGED <<shared, propagatorVars, bufferVars, managerVars, perThreadVars, signalVars, allVars>>
Enters(r) == shared = "output" /\ Enter(r)
  /\ UNCHANGED <<shared, propagatorVars, bufferVars, managerVars, perThreadVars, signalVars, allVars>>
Buffered == shared = "buffer" /\ BufferNext
  /\ UNCHANGED <<shared, propagatorVars, outputVars, managerVars, perThreadVars, signalVars, allVars>>
Manage == shared = "managers" /\ ManagersNext
  /\ UNCHANGED <<shared, propagatorVars, outputVars, bufferVars, perThreadVars, signalVars, allVars>>
Value == shared = "value" /\ PerThreadNext
  /\ UNCHANGED <<shared, propagatorVars, outputVars, bufferVars, managerVars, signalVars, allVars>>
Others == <<shared, propagatorVars, outputVars, bufferVars, managerVars, perThreadVars, allVars>>
Handles == shared = "signals" /\ Handle /\ UNCHANGED Others
Signalled == shared = "signals" /\ SignalsNext /\ UNCHANGED Others
Threading == shared = "threads" /\ StorageNext
  /\ UNCHANGED <<shared, propagatorVars, outputVars, bufferVars, managerVars, perThreadVars, signalVars>>

MCNext == Propagate \/ Completes \/ (\E r \in Ranks : Enters(r)) \/ Buffered \/ Manage \/ Value
          \/ Signalled \/ Threading

MCVars == <<shared, propagatorVars, outputVars, bufferVars, managerVars, perThreadVars, signalVars,
            allVars>>

\* The fairness of FairOutputSpec, of SignalsSpec and of FairStorageSpec.
MCSpec ==
  /\ MCInit /\ [][MCNext]_MCVars
  /\ WF_MCVars(Completes) /\ \A r \in Ranks : WF_MCVars(Enters(r))
  /\ WF_MCVars(Handles) /\ Fairness

\* All ranks get to print if they have as many sections.
RanksPrint == shared = "output" => AllPrint
===============================================================================
