---------------------------- MODULE HoldingPool ----------------------------
(***************************************************************************)
(* The holding-disk budget of a dump run: internal/spool/pool.go, with the *)
(* life of one dump as far as the budget sees it (internal/spool/spool.go, *)
(* the calls ingest and its drains make).                                  *)
(*                                                                         *)
(* Every producer calls Acquire once.  It gets a disk, waits on the        *)
(* condition variable, is sent direct, or is refused because the pool was  *)
(* aborted.  A staged dump then commits or faults, and its Close hook      *)
(* charges the landed bytes, frees the estimate and frees the writer slot, *)
(* three separate critical sections of Pool.mu with the drains of the      *)
(* staged copy already running beside the last two.                        *)
(***************************************************************************)
EXTENDS Budgets

Disks == 1..N

\* "the estimate is an uncompressed upper bound": needed by BudgetedBytesFit only.
EstimatesBound == \A d \in Dumps : Size[d] <= Est[d]

ledgerVars == <<used, writing, cursor, aborted, waiting>>
dumpVars == <<phase, disk, staged, leftover>>

\* new -> writing -> committed -> charged -> freed -> closed is a staged dump's way;
\* faulted replaces committed and charged when the transfer fails.
Phases == {"new", "writing", "committed", "charged", "faulted", "freed",
           "closed", "direct", "refused"}

\* staged: charged and on the disk; removed: files gone, charge not yet released;
\* released: both gone; kept: no landing took it, left for the next run's flush.
StagedStates == {"none", "staged", "removed", "released", "kept"}

PoolInit ==
  /\ used = [i \in Disks |-> 0]
  /\ writing = [i \in Disks |-> 0]
  /\ cursor = 0
  /\ aborted = FALSE
  /\ waiting = {}
  /\ phase = [d \in Dumps |-> "new"]
  /\ disk = [d \in Dumps |-> 0]
  /\ staged = [d \in Dumps |-> "none"]
  /\ leftover = [d \in Dumps |-> 0]
-----------------------------------------------------------------------------
(* The three tests of a disk, and the hand. *)

Fits(i, est) == Capacity[i] = 0 \/ est < Capacity[i]

HasRoomLeft(i, est) == Capacity[i] = 0 \/ used[i] < Capacity[i]
HasRoomFor(i, est) == Capacity[i] = 0 \/ used[i] + est <= Capacity[i]

HasSpareSlot(i) == Writers[i] = 0 \/ writing[i] + 1 < Writers[i]
HasWriterSlot(i) == Writers[i] = 0 \/ writing[i] < Writers[i]

Eligible(d, i) == Fits(i, Est[d]) /\ HasRoomFor(i, Est[d]) /\ HasWriterSlot(i)

AnyFits(d) == \E i \in Disks : Fits(i, Est[d])

\* The disk a probe looks at after n earlier probes.
AtHand(n) == ((cursor + n) % N) + 1

Bump(n) == (cursor + n) % N

Broadcast == waiting' = {}
-----------------------------------------------------------------------------
(* Acquire, one disjunct per way it can return or wait. *)

CanTry(d) == phase[d] = "new" /\ d \notin waiting

AcquireDirect(d) ==
  /\ CanTry(d)
  /\ ~AnyFits(d)
  /\ phase' = [phase EXCEPT ![d] = "direct"]
  /\ UNCHANGED <<ledgerVars, disk, staged, leftover>>

AcquireRefused(d) ==
  /\ CanTry(d)
  /\ AnyFits(d)
  /\ aborted
  /\ phase' = [phase EXCEPT ![d] = "refused"]
  /\ UNCHANGED <<ledgerVars, disk, staged, leftover>>

\* The loop probes from the cursor and takes the first eligible disk; every probe
\* moves the hand, the successful one included.
AcquireDisk(d) ==
  /\ CanTry(d)
  /\ ~aborted
  /\ \E n \in 1..N :
       LET i == AtHand(n - 1)
       IN /\ Eligible(d, i)
          /\ \A m \in 1..(n - 1) : ~Eligible(d, AtHand(m - 1))
          /\ used' = [used EXCEPT ![i] = @ + Est[d]]
          /\ writing' = [writing EXCEPT ![i] = @ + 1]
          /\ cursor' = Bump(n)
          /\ disk' = [disk EXCEPT ![d] = i]
  /\ phase' = [phase EXCEPT ![d] = "writing"]
  /\ UNCHANGED <<aborted, waiting, staged, leftover>>

\* A whole round of failed probes brings the hand back to where it was.
AcquireWaits(d) ==
  /\ CanTry(d)
  /\ AnyFits(d)
  /\ ~aborted
  /\ \A i \in Disks : ~Eligible(d, i)
  /\ waiting' = waiting \cup {d}
  /\ UNCHANGED <<used, writing, cursor, aborted, dumpVars>>
-----------------------------------------------------------------------------
(* The staging write ends, and the Close hook runs. *)

Commit(d) ==
  /\ phase[d] = "writing"
  /\ phase' = [phase EXCEPT ![d] = "committed"]
  /\ UNCHANGED <<ledgerVars, disk, staged, leftover>>

\* The volume keeps whatever a failed transfer had written.
Fault(d) ==
  /\ phase[d] = "writing"
  /\ phase' = [phase EXCEPT ![d] = "faulted"]
  /\ \E n \in 0..Size[d] : leftover' = [leftover EXCEPT ![d] = n]
  /\ UNCHANGED <<ledgerVars, disk, staged>>

ChargeLanded(d) ==
  /\ phase[d] = "committed"
  /\ used' = [used EXCEPT ![disk[d]] = @ + Size[d]]
  /\ phase' = [phase EXCEPT ![d] = "charged"]
  /\ staged' = [staged EXCEPT ![d] = "staged"]
  /\ UNCHANGED <<writing, cursor, aborted, waiting, disk, leftover>>

\* Pool.Release: never below zero, and everyone who waits tries again.
ReleaseSilently(i, n) ==
  /\ used' = [used EXCEPT ![i] = IF @ < n THEN 0 ELSE @ - n]
  /\ UNCHANGED waiting
Release(i, n) ==
  /\ used' = [used EXCEPT ![i] = IF @ < n THEN 0 ELSE @ - n]
  /\ Broadcast

FreeLandedNotEstimate(d) ==
  /\ phase[d] \in {"charged", "faulted"}
  /\ Release(disk[d], Size[d])
  /\ phase' = [phase EXCEPT ![d] = "freed"]
  /\ UNCHANGED <<writing, cursor, aborted, disk, staged, leftover>>
ReturnEstimate(d) ==
  /\ phase[d] \in {"charged", "faulted"}
  /\ Release(disk[d], Est[d])
  /\ phase' = [phase EXCEPT ![d] = "freed"]
  /\ UNCHANGED <<writing, cursor, aborted, disk, staged, leftover>>

FreeWriter(d) ==
  /\ phase[d] = "freed"
  /\ writing' = [writing EXCEPT ![disk[d]] = IF @ > 0 THEN @ - 1 ELSE @]
  /\ Broadcast
  /\ phase' = [phase EXCEPT ![d] = "closed"]
  /\ UNCHANGED <<used, cursor, aborted, disk, staged, leftover>>
-----------------------------------------------------------------------------
(* The staged copy's drains, as the budget sees them. *)

\* The last drain reclaims the files and the placement ...
RemoveStaged(d) ==
  /\ staged[d] = "staged"
  /\ staged' = [staged EXCEPT ![d] = "removed"]
  /\ UNCHANGED <<ledgerVars, phase, disk, leftover>>

\* ... and then frees the landed bytes.
ReleaseStaged(d) ==
  /\ staged[d] = "removed"
  /\ Release(disk[d], Size[d])
  /\ staged' = [staged EXCEPT ![d] = "released"]
  /\ UNCHANGED <<writing, cursor, aborted, phase, disk, leftover>>

\* Pool.Abort: the first error sticks, and every waiting producer wakes to stop.
Abort ==
  /\ aborted' = TRUE
  /\ Broadcast
  /\ UNCHANGED <<used, writing, cursor, dumpVars>>

\* No landing of the route took the copy, or reclaiming it failed: it stays,
\* charged, and the run aborts.
KeepStaged(d) ==
  /\ staged[d] = "staged"
  /\ staged' = [staged EXCEPT ![d] = "kept"]
  /\ aborted' = TRUE
  /\ Broadcast
  /\ UNCHANGED <<used, writing, cursor, phase, disk, leftover>>

\* A cancelled run, or a failure elsewhere in it.
AbortRun == ~aborted /\ Abort
-----------------------------------------------------------------------------
AcquireStep(d) ==
  \/ AcquireDirect(d) \/ AcquireRefused(d) \/ AcquireDisk(d) \/ AcquireWaits(d)

CloseStep(d) == ChargeLanded(d) \/ ReturnEstimate(d) \/ FreeWriter(d)

SettleStep(d) == RemoveStaged(d) \/ ReleaseStaged(d) \/ KeepStaged(d)

PoolNext ==
  \/ \E d \in Dumps : \/ AcquireStep(d)
                      \/ Commit(d) \/ Fault(d)
                      \/ CloseStep(d)
                      \/ SettleStep(d)
  \/ AbortRun

PoolSpec == PoolInit /\ [][PoolNext]_poolVars

\* Every goroutine that can run does: a transfer ends one way or the other, a Close
\* hook runs through, a drain settles, a producer not in cond.Wait retries.
PoolFairness ==
  \A d \in Dumps : /\ WF_poolVars(AcquireStep(d))
                   /\ WF_poolVars(Commit(d) \/ Fault(d))
                   /\ WF_poolVars(CloseStep(d))
                   /\ WF_poolVars(SettleStep(d))

FairPoolSpec == PoolSpec /\ PoolFairness
-----------------------------------------------------------------------------
(* What each dump holds of its disk, as sets of byte units so that the     *)
(* budget can be compared with them by counting.                           *)

HoldsEstimate(d) == phase[d] \in {"writing", "committed", "charged", "faulted"}
HoldsLanded(d) == staged[d] \in {"staged", "removed", "kept"}
HoldsSlot(d) == HoldsEstimate(d) \/ phase[d] = "freed"

On(i) == {d \in Dumps : disk[d] = i}

\* One unit per byte: dump d of S holds w[d] of them.
Units(S, w) == UNION {{d} \X (1..w[d]) : d \in S}

EstimateHolders(i) == {d \in On(i) : HoldsEstimate(d)}
LandedHolders(i) == {d \in On(i) : HoldsLanded(d)}
SlotHolders(i) == {d \in On(i) : HoldsSlot(d)}

EstimateUnits(i) == Units(EstimateHolders(i), Est)
LandedUnits(i) == Units(LandedHolders(i), Size)

\* What the disk must have room for: a write may grow to its estimate until the sink
\* has closed; from then on it is the staged copy, for as long as its files are there.
OnlyStaged(i) == {d \in On(i) : ~HoldsEstimate(d) /\ staged[d] \in {"staged", "kept"}}
FootprintUnits(i) == EstimateUnits(i) \cup Units(OnlyStaged(i), Size)
-----------------------------------------------------------------------------
\* Every variable has its type, and the round-robin hand stays a disk's index.
TypeOK ==
  /\ used \in [Disks -> Nat]
  /\ writing \in [Disks -> Nat]
  /\ cursor \in Nat /\ (N > 0 => cursor < N)
  /\ aborted \in BOOLEAN
  /\ waiting \subseteq Dumps
  /\ phase \in [Dumps -> Phases]
  /\ disk \in [Dumps -> 0..N]
  /\ staged \in [Dumps -> StagedStates]
  /\ leftover \in [Dumps -> Nat]

\* Two reservations per disk, one ledger: used is exactly the estimates of the dumps
\* still writing plus the landed bytes not yet drained, through every interleaving of
\* Close hooks and drains (so the clamp in Release never hides a double release), and
\* writing is exactly the open staging sinks, never over the medium's cap.
Ledger ==
  \A i \in Disks :
    /\ used[i] = Cardinality(EstimateUnits(i)) + Cardinality(LandedUnits(i))
    /\ writing[i] = Cardinality(SlotHolders(i))
    /\ Writers[i] > 0 => writing[i] <= Writers[i]

\* A bounded disk always has room for the dumps being staged to it and the copies
\* waiting on it, although used itself may pass the capacity while a commit is
\* charged twice over (estimate and landed bytes).
BudgetedBytesFit ==
  EstimatesBound =>
    \A i \in Disks : Capacity[i] > 0 => Cardinality(FootprintUnits(i)) <= Capacity[i]

\* A producer sits in cond.Wait only while no disk could take it and the pool lives:
\* no release, no writer slot and no abort goes by without waking it.
NoLostWakeup ==
  \A d \in waiting : /\ phase[d] = "new"
                     /\ ~aborted
                     /\ \A i \in Disks : ~Eligible(d, i)
=============================================================================
