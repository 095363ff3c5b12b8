---------------------------- MODULE LandingSide ----------------------------
(***************************************************************************)
(* The landing side of a run, in two instances over the same two holding   *)
(* disks (one of 4 bytes with one writer, one of 3 bytes without a writer  *)
(* cap), one of which a behaviour is of:                                   *)
(*                                                                         *)
(* the budget alone, as producers that may ask in any order and be served  *)
(* at any time see it: p1 and p2 fit both disks, p3 only the first, p4     *)
(* neither;                                                                *)
(*                                                                         *)
(* the spool on two landings of one permit: p1 is staged, p4 and p5 are    *)
(* too big for the disks and stream to both landings, in opposite orders.  *)
(*                                                                         *)
(* The archives of the other instance are over from the start, as if they  *)
(* had been sent direct.                                                   *)
(***************************************************************************)
EXTENDS HoldingPool, Spool, TLC

CONSTANTS p1, p2, p3, p4, p5

MCDumps == {p1, p2, p3, p4, p5}
MCCapacity == <<4, 3>>
MCWriters == <<1, 0>>
MCEst == p1 :> 2 @@ p2 :> 2 @@ p3 :> 3 @@ p4 :> 5 @@ p5 :> 5
MCSize == p1 :> 1 @@ p2 :> 2 @@ p3 :> 2 @@ p4 :> 5 @@ p5 :> 5
MCLanes == 1..2
MCPermits == <<1, 1>>
MCRoute == p1 :> <<1>> @@ p2 :> <<1>> @@ p3 :> <<1>> @@ p4 :> <<1, 2>> @@ p5 :> <<2, 1>>

OfBudget == {p1, p2, p3, p4}
OfSpool == {p1, p4, p5}

SideInit ==
  /\ used = [i \in Disks |-> 0] /\ writing = [i \in Disks |-> 0]
  /\ cursor = 0 /\ aborted = FALSE /\ waiting = {}
  /\ \E asking \in {OfBudget, OfSpool} :
       /\ phase = [d \in Dumps |-> IF d \in asking THEN "new" ELSE "direct"]
       /\ pc = [d \in Dumps |-> IF asking = OfSpool /\ d \in asking THEN "idle" ELSE "over"]
  /\ disk = [d \in Dumps |-> 0] /\ staged = [d \in Dumps |-> "none"]
  /\ leftover = [d \in Dumps |-> 0]
  /\ live = [d \in Dumps |-> {}] /\ grip = [d \in Dumps |-> {}]
  /\ drain = [d \in Dumps |-> [l \in Lanes |-> "none"]]
  /\ remaining = [d \in Dumps |-> 0] /\ landed = [d \in Dumps |-> 0]
  /\ free = Permits
  /\ tripped = [l \in Lanes |-> FALSE] /\ missing = [l \in Lanes |-> 0]
  /\ files = [d \in Dumps |-> "none"] /\ copies = [d \in Dumps |-> {}]

\* The budget alone, all the way: p2 fits a disk, so it is never sent direct.
Alone == phase[p2] # "direct"
WithoutLanes == Alone /\ UNCHANGED laneVars

\* When no producer of the spool asks, Next has no step but the run's cancellation, which the
\* pool has too.
SideNext ==
  \/ WithoutLanes /\ PoolNext
  \/ Next

\* As each instance's own: see HoldingPool and Spool.
SideFairness ==
  /\ \A d \in OfBudget :
       /\ WF_vars(WithoutLanes /\ AcquireStep(d))
       /\ WF_vars(WithoutLanes /\ (Commit(d) \/ Fault(d)))
       /\ WF_vars(WithoutLanes /\ CloseStep(d))
       /\ WF_vars(WithoutLanes /\ SettleStep(d))
  /\ \A d \in OfSpool :
       /\ WF_vars(ProducerStep(d))
       /\ \A l \in Lanes : WF_vars(DrainStep(d, l))

SideSpec == SideInit /\ [][SideNext]_vars /\ SideFairness
-----------------------------------------------------------------------------
(* Properties: HoldingPool's invariants, of the budget alone and of the    *)
(* one the lanes drive, Spool's RunEnds, with direct writers that lease    *)
(* both landings in opposite orders, and:                                  *)

\* Every producer of the budget alone leaves Acquire, with a disk, sent direct or refused:
\* drains free what the producers wait for, or abort them (pool.go Acquire).  Nobody asks twice.
EveryDumpServed == <>(Alone => \A d \in Dumps : phase[d] # "new")
=============================================================================
