---------------------------- MODULE MCDurability ----------------------------
(***************************************************************************)
(* What one nb dump leaves for the next: the staged archives, the chains   *)
(* of a DLE on one landing, and the archiver's snapshots with the carves   *)
(* beside them.  A behaviour follows one of them, chosen at the start; the *)
(* others wait as they were.                                               *)
(*                                                                         *)
(* Three archives are staged, one routed to two landings and one to each   *)
(* of them alone, with three faults to spend on crashes and failures of    *)
(* landings, records and reclaims; the DLE commits five archives of up to  *)
(* four levels; the library commits three of up to three levels through    *)
(* three changes.                                                          *)
(***************************************************************************)
EXTENDS HoldingRecovery, DumpCycle, Snapshots, TLC

MCDumps == 1..3
MCRoute == 1 :> {"disk", "tape"} @@ 2 :> {"tape"} @@ 3 :> {"disk"}

ASSUME MCAssumption == CycleAssumption /\ OneLanding /\ SnapshotsAssumption

VARIABLE which

durableVars == <<which, vars, cycleVars, snapshotVars>>

DurableInit ==
  which \in {"staging", "chains", "snapshots"} /\ Init /\ CycleInit /\ SnapshotsInit

OnlyStaging == which = "staging" /\ UNCHANGED <<which, cycleVars, snapshotVars>>
OnlyChains == which = "chains" /\ UNCHANGED <<which, vars, snapshotVars>>
OnlySnapshots == which = "snapshots" /\ UNCHANGED <<which, vars, cycleVars>>

\* The library has committed all it may, and no dump is under way.
Exhausted == phase = "idle" /\ Len(tars) = MaxTars /\ UNCHANGED snapshotVars

DurableNext ==
  \/ OnlyStaging /\ Next
  \/ OnlyChains /\ CycleNext
  \/ OnlySnapshots /\ (SnapshotsNext \/ Exhausted)

\* HoldingRecovery's fairness, of the behaviours that follow it.
DurableSpec ==
  /\ DurableInit /\ [][DurableNext]_durableVars
  /\ WF_durableVars(OnlyStaging /\ RunEnds)
  /\ WF_durableVars(OnlyStaging /\ FlushStarts)
  /\ WF_durableVars(OnlyStaging /\ FlushDone)
  /\ \A d \in Dumps : /\ WF_durableVars(OnlyStaging /\ LiveStep(d))
                      /\ WF_durableVars(OnlyStaging /\ ReclaimAt(d))
                      /\ WF_durableVars(OnlyStaging /\ FlushStep(d))
=============================================================================
