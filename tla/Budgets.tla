------------------------------ MODULE Budgets ------------------------------
(***************************************************************************)
(* What a run's landing side is given: its holding disks, with the budget  *)
(* and the writer cap of each, and the archives it ingests; and the state  *)
(* of its pool, with where each archive is in the calls made on it.        *)
(***************************************************************************)
EXTENDS Integers, FiniteSets

CONSTANTS N,         \* number of holding disks
          Capacity,  \* disk -> bytes of budget, 0 for unbounded
          Writers,   \* disk -> concurrent staging writes, 0 for uncapped
          Dumps,     \* the archives this run ingests
          Est,       \* dump -> the estimate its producer reserves
          Size       \* dump -> the compressed bytes it really stages

ASSUME PoolAssumption ==
  /\ N \in Nat
  /\ Capacity \in [1..N -> Nat]
  /\ Writers \in [1..N -> Nat]
  /\ IsFiniteSet(Dumps)
  /\ Est \in [Dumps -> Nat]
  /\ Size \in [Dumps -> Nat]

VARIABLES used,      \* disk -> bytes reserved (Disk.used)
          writing,   \* disk -> staging writes in flight (Disk.writing)
          cursor,    \* the round-robin hand (Pool.cursor), counted from 0
          aborted,   \* Pool.aborted # nil
          waiting,   \* producers inside cond.Wait
          phase,     \* dump -> where its producer is
          disk,      \* dump -> the disk Acquire gave it, 0 for none
          staged,    \* dump -> its staged copy and that copy's charge
          leftover   \* dump -> bytes a faulted staging write left on its disk

poolVars == <<used, writing, cursor, aborted, waiting, phase, disk, staged, leftover>>
=============================================================================
