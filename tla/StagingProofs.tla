--------------------------- MODULE StagingProofs ---------------------------
(***************************************************************************)
(* What staging promises.  Of the pool of holding disks, for any number of *)
(* disks and dumps and any capacities, caps and sizes.  Then of the live   *)
(* status of a run, for any DLEs, landing lists and landings that fail to  *)
(* open: its meters tell the copies, its dump window stays shut, its       *)
(* totals stay totals, and all of it is true while the landings skipped    *)
(* were the last of their lists.                                           *)
(***************************************************************************)
EXTENDS HoldingPool, Status, FiniteSetTheorems, SequenceTheorems, WellFoundedInduction, TLAPS

\* A dump is on a disk exactly while, and after, its producer held one, and has a
\* staged copy only once its sink committed.
Placed ==
  \A d \in Dumps :
    /\ phase[d] \in {"new", "direct", "refused"} => disk[d] = 0 /\ staged[d] = "none"
    /\ HoldsSlot(d) => disk[d] \in Disks
    /\ staged[d] # "none" => disk[d] \in Disks /\ phase[d] \in {"charged", "freed", "closed"}

\* What the pool is given, said of its disks.
LEMMA Given ==
  /\ N \in Nat /\ IsFiniteSet(Dumps)
  /\ Capacity \in [Disks -> Nat] /\ Writers \in [Disks -> Nat]
  /\ Est \in [Dumps -> Nat] /\ Size \in [Dumps -> Nat]
BY PoolAssumption DEF Disks

-----------------------------------------------------------------------------
(* Counting units. *)

\* One dump's units are as many as its weight.
LEMMA OneDumpUnits ==
  ASSUME NEW d, NEW n \in Nat
  PROVE  IsFiniteSet({d} \X (1..n)) /\ Cardinality({d} \X (1..n)) = n
<1>1. IsFiniteSet({d}) /\ Cardinality({d}) = 1
  BY FS_Singleton
<1>2. IsFiniteSet(1..n) /\ Cardinality(1..n) = n
  BY FS_Interval
<1>3. /\ IsFiniteSet({d} \X (1..n))
      /\ Cardinality({d} \X (1..n)) = Cardinality({d}) * Cardinality(1..n)
  BY <1>1, <1>2, FS_Product, Zenon
<1> QED
  BY <1>1, <1>2, <1>3

\* Finitely many dumps have finitely many units.
LEMMA UnitsFinite ==
  ASSUME NEW S \in SUBSET Dumps, NEW w \in [Dumps -> Nat]
  PROVE  IsFiniteSet(Units(S, w))
<1> DEFINE T == {{d} \X (1..w[d]) : d \in S}
           f == [d \in S |-> {d} \X (1..w[d])]
<1>1. IsFiniteSet(S)
  BY Given, FS_Subset
<1>2. f \in Surjection(S, T)
  BY DEF Surjection
<1>3. IsFiniteSet(T)
  BY <1>1, <1>2, FS_Surjection
<1>4. ASSUME NEW t \in T PROVE IsFiniteSet(t)
  <2>1. PICK d \in S : t = {d} \X (1..w[d])
    OBVIOUS
  <2> QED
    BY <2>1, OneDumpUnits, w[d] \in Nat
<1>5. IsFiniteSet(UNION T)
  BY <1>3, <1>4, FS_UNION
<1> QED
  BY <1>5 DEF Units

\* A dump that joins the holders adds its weight to the count.
LEMMA UnitsAdd ==
  ASSUME NEW S \in SUBSET Dumps, NEW w \in [Dumps -> Nat], NEW d \in Dumps, d \notin S
  PROVE  Cardinality(Units(S \cup {d}, w)) = Cardinality(Units(S, w)) + w[d]
<1> DEFINE D == {d} \X (1..w[d])
<1>1. Units(S \cup {d}, w) = Units(S, w) \cup D
  BY DEF Units
<1>2. Units(S, w) \cap D = {}
  BY DEF Units
<1>3. IsFiniteSet(D) /\ Cardinality(D) = w[d]
  BY OneDumpUnits
<1>4. IsFiniteSet(Units(S, w)) /\ Cardinality(Units(S, w)) \in Nat
  BY UnitsFinite, FS_CardinalityType
<1>5. Cardinality(Units(S, w) \cup D) = Cardinality(Units(S, w)) + Cardinality(D) - 0
  BY <1>2, <1>3, <1>4, FS_Union, FS_EmptySet
<1>6. w[d] \in Nat
  OBVIOUS
<1>7. Cardinality(Units(S \cup {d}, w)) = Cardinality(Units(S, w)) + Cardinality(D) - 0
  BY <1>1, <1>5
<1> HIDE DEF D
<1> QED
  BY <1>3, <1>4, <1>6, <1>7

\* A dump that leaves takes its weight with it.
LEMMA UnitsRemove ==
  ASSUME NEW S \in SUBSET Dumps, NEW w \in [Dumps -> Nat], NEW d \in S
  PROVE  Cardinality(Units(S, w)) = Cardinality(Units(S \ {d}, w)) + w[d]
<1>1. (S \ {d}) \cup {d} = S
  OBVIOUS
<1> QED
  BY <1>1, UnitsAdd, S \ {d} \in SUBSET Dumps, d \notin S \ {d}

\* The bytes in a set of dumps are a number.
LEMMA UnitsCount ==
  ASSUME NEW S \in SUBSET Dumps, NEW w \in [Dumps -> Nat]
  PROVE  Cardinality(Units(S, w)) \in Nat
BY UnitsFinite, FS_CardinalityType
-----------------------------------------------------------------------------
(* Types and places. *)

\* The variables of the pool, and those of the dumps.
BudgetType ==
  /\ used \in [Disks -> Nat]
  /\ writing \in [Disks -> Nat]
  /\ aborted \in BOOLEAN
  /\ waiting \subseteq Dumps
HandType == cursor \in Nat /\ (N > 0 => cursor < N)
DumpType ==
  /\ phase \in [Dumps -> Phases]
  /\ disk \in [Dumps -> 0..N]
  /\ staged \in [Dumps -> StagedStates]
  /\ leftover \in [Dumps -> Nat]

\* TypeOK, split into what the steps touch separately.
LEMMA TypeParts == TypeOK <=> BudgetType /\ HandType /\ DumpType
BY DEF TypeOK, BudgetType, HandType, DumpType

\* The parts of the types at the start.
LEMMA TypeInit == PoolInit => BudgetType /\ HandType /\ DumpType /\ Placed
<1> SUFFICES ASSUME PoolInit PROVE BudgetType /\ HandType /\ DumpType /\ Placed
  OBVIOUS
<1>1. BudgetType
  BY DEF PoolInit, BudgetType
<1>2. HandType
  BY Given DEF PoolInit, HandType
<1>3. DumpType
  BY Given DEF PoolInit, DumpType, Phases, StagedStates
<1>4. Placed
  BY DEF PoolInit, Placed, HoldsSlot, HoldsEstimate
<1> QED
  BY <1>1, <1>2, <1>3, <1>4

\* The hand stays on a disk: every probe is taken modulo the number of disks.
LEMMA BumpInRange ==
  ASSUME HandType, NEW n \in 1..N
  PROVE  Bump(n) \in Nat /\ Bump(n) < N /\ AtHand(n - 1) \in Disks
BY Given DEF HandType, Bump, AtHand, Disks

\* What AcquireDisk does, with the disk it chose named.
LEMMA AcquireChooses ==
  ASSUME HandType, NEW d \in Dumps, AcquireDisk(d)
  PROVE  /\ HandType'
         /\ \E i \in Disks : /\ Eligible(d, i)
                            /\ used' = [used EXCEPT ![i] = @ + Est[d]]
                            /\ writing' = [writing EXCEPT ![i] = @ + 1]
                            /\ disk' = [disk EXCEPT ![d] = i]
<1>1. PICK n \in 1..N : /\ Eligible(d, AtHand(n - 1))
                        /\ used' = [used EXCEPT ![AtHand(n - 1)] = @ + Est[d]]
                        /\ writing' = [writing EXCEPT ![AtHand(n - 1)] = @ + 1]
                        /\ cursor' = Bump(n)
                        /\ disk' = [disk EXCEPT ![d] = AtHand(n - 1)]
  BY DEF AcquireDisk
<1>2. Bump(n) \in Nat /\ Bump(n) < N /\ AtHand(n - 1) \in Disks
  BY BumpInRange
<1> QED
  BY <1>1, <1>2 DEF HandType

\* Byte counts are numbers.
LEMMA Sizes == N \in Nat /\ \A d \in Dumps : Est[d] \in Nat /\ Size[d] \in Nat
BY Given

\* Every step keeps the parts of the types.
LEMMA TypeStep ==
  ASSUME BudgetType, HandType, DumpType, Placed, [PoolNext]_poolVars
  PROVE  BudgetType' /\ HandType' /\ DumpType' /\ Placed'
<1> USE Sizes DEF ledgerVars, dumpVars
<1>0. \A d \in Dumps : HoldsSlot(d) \/ staged[d] # "none" => disk[d] \in Disks
  BY DEF Placed
<1>1. ASSUME NEW d \in Dumps, AcquireDirect(d) PROVE BudgetType' /\ HandType' /\ DumpType' /\ Placed'
  <2>1. BudgetType'
    BY <1>0, <1>1 DEF AcquireDirect, BudgetType
  <2>2. HandType'
    BY <1>1 DEF AcquireDirect, HandType
  <2>3. DumpType'
    BY <1>1 DEF AcquireDirect, DumpType, Phases, StagedStates
  <2>4. Placed'
    BY <1>1 DEF AcquireDirect, CanTry, Placed, HoldsSlot, HoldsEstimate, DumpType
  <2> QED
    BY <2>1, <2>2, <2>3, <2>4
<1>2. ASSUME NEW d \in Dumps, AcquireRefused(d) PROVE BudgetType' /\ HandType' /\ DumpType' /\ Placed'
  <2>1. BudgetType'
    BY <1>0, <1>2 DEF AcquireRefused, BudgetType
  <2>2. HandType'
    BY <1>2 DEF AcquireRefused, HandType
  <2>3. DumpType'
    BY <1>2 DEF AcquireRefused, DumpType, Phases, StagedStates
  <2>4. Placed'
    BY <1>2 DEF AcquireRefused, CanTry, Placed, HoldsSlot, HoldsEstimate, DumpType
  <2> QED
    BY <2>1, <2>2, <2>3, <2>4
<1>3. ASSUME NEW d \in Dumps, AcquireDisk(d) PROVE BudgetType' /\ HandType' /\ DumpType' /\ Placed'
  <2>1. HandType'
    BY <1>3, AcquireChooses
  <2>2. PICK i \in Disks : /\ used' = [used EXCEPT ![i] = @ + Est[d]]
                          /\ writing' = [writing EXCEPT ![i] = @ + 1]
                          /\ disk' = [disk EXCEPT ![d] = i]
    BY <1>3, AcquireChooses
  <2>3. BudgetType'
    BY <1>3, <2>2 DEF AcquireDisk, BudgetType
  <2>4. DumpType'
    BY <1>3, <2>2 DEF AcquireDisk, DumpType, Phases, Disks
  <2>5. Placed'
    BY <1>3, <2>2 DEF AcquireDisk, CanTry, Placed, HoldsSlot, HoldsEstimate, DumpType
  <2> QED
    BY <2>1, <2>3, <2>4, <2>5
<1>4. ASSUME NEW d \in Dumps, AcquireWaits(d) PROVE BudgetType' /\ HandType' /\ DumpType' /\ Placed'
  <2>1. BudgetType'
    BY <1>0, <1>4 DEF AcquireWaits, BudgetType
  <2>2. HandType'
    BY <1>4 DEF AcquireWaits, HandType
  <2>3. DumpType'
    BY <1>4 DEF AcquireWaits, DumpType, Phases, StagedStates
  <2>4. Placed'
    BY <1>4 DEF AcquireWaits, CanTry, Placed, HoldsSlot, HoldsEstimate, DumpType
  <2> QED
    BY <2>1, <2>2, <2>3, <2>4
<1>5. ASSUME NEW d \in Dumps, Commit(d) PROVE BudgetType' /\ HandType' /\ DumpType' /\ Placed'
  <2>1. BudgetType'
    BY <1>0, <1>5 DEF Commit, BudgetType
  <2>2. HandType'
    BY <1>5 DEF Commit, HandType
  <2>3. DumpType'
    BY <1>5 DEF Commit, DumpType, Phases, StagedStates
  <2>4. Placed'
    BY <1>5 DEF Commit, Placed, HoldsSlot, HoldsEstimate, DumpType
  <2> QED
    BY <2>1, <2>2, <2>3, <2>4
<1>6. ASSUME NEW d \in Dumps, Fault(d) PROVE BudgetType' /\ HandType' /\ DumpType' /\ Placed'
  <2>1. BudgetType'
    BY <1>0, <1>6 DEF Fault, BudgetType
  <2>2. HandType'
    BY <1>6 DEF Fault, HandType
  <2>3. DumpType'
    BY <1>6 DEF Fault, DumpType, Phases, StagedStates
  <2>4. Placed'
    BY <1>6 DEF Fault, Placed, HoldsSlot, HoldsEstimate, DumpType
  <2> QED
    BY <2>1, <2>2, <2>3, <2>4
<1>7. ASSUME NEW d \in Dumps, ChargeLanded(d) PROVE BudgetType' /\ HandType' /\ DumpType' /\ Placed'
  <2>1. BudgetType'
    BY <1>0, <1>7 DEF ChargeLanded, BudgetType, HoldsSlot, HoldsEstimate
  <2>2. HandType'
    BY <1>7 DEF ChargeLanded, HandType
  <2>3. DumpType'
    BY <1>7 DEF ChargeLanded, DumpType, Phases, StagedStates
  <2>4. Placed'
    BY <1>7 DEF ChargeLanded, Placed, HoldsSlot, HoldsEstimate, DumpType
  <2> QED
    BY <2>1, <2>2, <2>3, <2>4
<1>8. ASSUME NEW d \in Dumps, ReturnEstimate(d) PROVE BudgetType' /\ HandType' /\ DumpType' /\ Placed'
  <2>1. BudgetType'
    BY <1>0, <1>8 DEF ReturnEstimate, Release, Broadcast, BudgetType, HoldsSlot, HoldsEstimate
  <2>2. HandType'
    BY <1>8 DEF ReturnEstimate, HandType
  <2>3. DumpType'
    BY <1>8 DEF ReturnEstimate, DumpType, Phases, StagedStates
  <2>4. Placed'
    BY <1>8 DEF ReturnEstimate, Placed, HoldsSlot, HoldsEstimate, DumpType
  <2> QED
    BY <2>1, <2>2, <2>3, <2>4
<1>9. ASSUME NEW d \in Dumps, FreeWriter(d) PROVE BudgetType' /\ HandType' /\ DumpType' /\ Placed'
  <2>1. BudgetType'
    BY <1>0, <1>9 DEF FreeWriter, Broadcast, BudgetType, HoldsSlot, HoldsEstimate
  <2>2. HandType'
    BY <1>9 DEF FreeWriter, HandType
  <2>3. DumpType'
    BY <1>9 DEF FreeWriter, DumpType, Phases, StagedStates
  <2>4. Placed'
    BY <1>9 DEF FreeWriter, Placed, HoldsSlot, HoldsEstimate, DumpType
  <2> QED
    BY <2>1, <2>2, <2>3, <2>4
<1>10. ASSUME NEW d \in Dumps, RemoveStaged(d) PROVE BudgetType' /\ HandType' /\ DumpType' /\ Placed'
  <2>1. BudgetType'
    BY <1>0, <1>10 DEF RemoveStaged, BudgetType
  <2>2. HandType'
    BY <1>10 DEF RemoveStaged, HandType
  <2>3. DumpType'
    BY <1>10 DEF RemoveStaged, DumpType, Phases, StagedStates
  <2>4. Placed'
    BY <1>10 DEF RemoveStaged, Placed, HoldsSlot, HoldsEstimate, DumpType
  <2> QED
    BY <2>1, <2>2, <2>3, <2>4
<1>11. ASSUME NEW d \in Dumps, ReleaseStaged(d) PROVE BudgetType' /\ HandType' /\ DumpType' /\ Placed'
  <2>1. BudgetType'
    BY <1>0, <1>11 DEF ReleaseStaged, Release, Broadcast, BudgetType, HoldsSlot, HoldsEstimate
  <2>2. HandType'
    BY <1>11 DEF ReleaseStaged, HandType
  <2>3. DumpType'
    BY <1>11 DEF ReleaseStaged, DumpType, Phases, StagedStates
  <2>4. Placed'
    BY <1>11 DEF ReleaseStaged, Placed, HoldsSlot, HoldsEstimate, DumpType
  <2> QED
    BY <2>1, <2>2, <2>3, <2>4
<1>12. ASSUME NEW d \in Dumps, KeepStaged(d) PROVE BudgetType' /\ HandType' /\ DumpType' /\ Placed'
  <2>1. BudgetType'
    BY <1>0, <1>12 DEF KeepStaged, Broadcast, BudgetType
  <2>2. HandType'
    BY <1>12 DEF KeepStaged, HandType
  <2>3. DumpType'
    BY <1>12 DEF KeepStaged, DumpType, Phases, StagedStates
  <2>4. Placed'
    BY <1>12 DEF KeepStaged, Placed, HoldsSlot, HoldsEstimate, DumpType
  <2> QED
    BY <2>1, <2>2, <2>3, <2>4
<1>13. ASSUME AbortRun PROVE BudgetType' /\ HandType' /\ DumpType' /\ Placed'
  BY <1>13 DEF AbortRun, Abort, Broadcast, BudgetType, HandType, DumpType, Placed, HoldsSlot, HoldsEstimate
<1>14. ASSUME UNCHANGED poolVars PROVE BudgetType' /\ HandType' /\ DumpType' /\ Placed'
  BY <1>14 DEF poolVars, BudgetType, HandType, DumpType, Placed, HoldsSlot, HoldsEstimate
<1> QED
  BY <1>1, <1>2, <1>3, <1>4, <1>5, <1>6, <1>7, <1>8, <1>9, <1>10, <1>11, <1>12, <1>13, <1>14
     DEF PoolNext, AcquireStep, CloseStep, SettleStep

\* Every variable keeps its type, and the round-robin hand stays a disk's index
\* (Pool.cursor, always advanced modulo the number of disks).
THEOREM TypeCorrect == PoolSpec => []TypeOK
<1>1. PoolInit => BudgetType /\ HandType /\ DumpType /\ Placed
  BY TypeInit
<1>2. BudgetType /\ HandType /\ DumpType /\ Placed /\ [PoolNext]_poolVars
        => BudgetType' /\ HandType' /\ DumpType' /\ Placed'
  BY TypeStep
<1>3. BudgetType /\ HandType /\ DumpType => TypeOK
  BY TypeParts
<1> QED
  BY <1>1, <1>2, <1>3, PTL DEF PoolSpec
-----------------------------------------------------------------------------
(* The condition variable. *)

\* A step that takes budget and wakes nobody leaves the sleepers rightly asleep.
LEMMA SleepersStay ==
  ASSUME BudgetType, NoLostWakeup,
         waiting' = waiting, aborted' = aborted,
         \A e \in waiting : phase'[e] = phase[e],
         BudgetType',
         \A i \in Disks : used'[i] >= used[i] /\ writing'[i] >= writing[i]
  PROVE  NoLostWakeup'
<1> SUFFICES ASSUME NEW e \in waiting
             PROVE  phase'[e] = "new" /\ ~aborted' /\ \A i \in Disks : ~Eligible(e, i)'
  BY DEF NoLostWakeup
<1>1. phase'[e] = "new" /\ ~aborted'
  BY DEF NoLostWakeup
<1>2. ASSUME NEW i \in Disks PROVE ~Eligible(e, i)'
  <2>1. ~Eligible(e, i)
    BY DEF NoLostWakeup
  <2>2. Est[e] \in Nat /\ Capacity[i] \in Nat /\ Writers[i] \in Nat
    BY Given DEF BudgetType
  <2>3. used[i] \in Nat /\ used'[i] \in Nat /\ writing[i] \in Nat /\ writing'[i] \in Nat
    BY DEF BudgetType
  <2> QED
    BY <2>1, <2>2, <2>3 DEF Eligible, Fits, HasRoomFor, HasWriterSlot
<1> QED
  BY <1>1, <1>2

\* Every step keeps the waiters woken.
LEMMA WakeupStep ==
  ASSUME BudgetType, BudgetType', HandType, DumpType, Placed, NoLostWakeup, [PoolNext]_poolVars
  PROVE  NoLostWakeup'
<1> USE DEF ledgerVars, dumpVars
<1>1. ASSUME waiting' = {} PROVE NoLostWakeup'
  BY <1>1 DEF NoLostWakeup
<1>2. \A i \in Disks : used[i] >= used[i] /\ writing[i] >= writing[i]
  BY DEF BudgetType
<1>3. ASSUME NEW d \in Dumps, AcquireDirect(d) \/ AcquireRefused(d) PROVE NoLostWakeup'
  <2>1. \A e \in waiting : phase'[e] = phase[e]
    BY <1>3 DEF AcquireDirect, AcquireRefused, CanTry, DumpType, BudgetType
  <2>2. UNCHANGED <<used, writing, aborted, waiting>>
    BY <1>3 DEF AcquireDirect, AcquireRefused
  <2> QED
    BY <1>2, <2>1, <2>2, SleepersStay
<1>4. ASSUME NEW d \in Dumps, AcquireDisk(d) PROVE NoLostWakeup'
  <2>1. PICK i \in Disks : /\ used' = [used EXCEPT ![i] = @ + Est[d]]
                          /\ writing' = [writing EXCEPT ![i] = @ + 1]
    BY <1>4, AcquireChooses
  <2>2. \A j \in Disks : used'[j] >= used[j] /\ writing'[j] >= writing[j]
    BY <2>1, Sizes DEF BudgetType
  <2> QED
    BY <1>4, <2>2, SleepersStay DEF AcquireDisk, CanTry, DumpType
<1>5. ASSUME NEW d \in Dumps, AcquireWaits(d) PROVE NoLostWakeup'
  BY <1>5 DEF AcquireWaits, CanTry, NoLostWakeup, Eligible, Fits, HasRoomFor, HasWriterSlot
<1>6. ASSUME NEW d \in Dumps, Commit(d) \/ Fault(d) PROVE NoLostWakeup'
  <2>1. d \notin waiting
    BY <1>6 DEF Commit, Fault, NoLostWakeup
  <2>2. \A e \in waiting : phase'[e] = phase[e]
    BY <1>6, <2>1 DEF Commit, Fault, DumpType, BudgetType
  <2>3. UNCHANGED <<used, writing, aborted, waiting>>
    BY <1>6 DEF Commit, Fault
  <2> QED
    BY <1>2, <2>2, <2>3, SleepersStay
<1>7. ASSUME NEW d \in Dumps, ChargeLanded(d) PROVE NoLostWakeup'
  <2>1. d \notin waiting
    BY <1>7 DEF ChargeLanded, NoLostWakeup
  <2>2. \A j \in Disks : used'[j] >= used[j] /\ writing'[j] >= writing[j]
    BY <1>7, Sizes DEF ChargeLanded, BudgetType
  <2> QED
    BY <1>7, <2>1, <2>2, SleepersStay DEF ChargeLanded, DumpType
<1>8. ASSUME NEW d \in Dumps, RemoveStaged(d) PROVE NoLostWakeup'
  BY <1>2, <1>8, SleepersStay DEF RemoveStaged
<1>9. ASSUME NEW d \in Dumps, ReturnEstimate(d) \/ FreeWriter(d) \/ ReleaseStaged(d) \/ KeepStaged(d)
      PROVE  NoLostWakeup'
  BY <1>1, <1>9 DEF ReturnEstimate, FreeWriter, ReleaseStaged, KeepStaged, Release, Broadcast
<1>10. ASSUME AbortRun PROVE NoLostWakeup'
  BY <1>1, <1>10 DEF AbortRun, Abort, Broadcast
<1>11. ASSUME UNCHANGED poolVars PROVE NoLostWakeup'
  BY <1>2, <1>11, SleepersStay DEF poolVars
<1> QED
  BY <1>3, <1>4, <1>5, <1>6, <1>7, <1>8, <1>9, <1>10, <1>11
     DEF PoolNext, AcquireStep, CloseStep, SettleStep

\* No release, no freed writer slot and no abort goes by without waking the producers
\* in cond.Wait: whoever sleeps could take no disk (Acquire, Release, ReleaseWriter
\* and Abort of pool.go).
THEOREM NoProducerSleepsThroughRoom == PoolSpec => []NoLostWakeup
<1>1. PoolInit => BudgetType /\ HandType /\ DumpType /\ Placed
  BY TypeInit
<1>2. PoolInit => NoLostWakeup
  BY DEF PoolInit, NoLostWakeup
<1>3. BudgetType /\ HandType /\ DumpType /\ Placed /\ [PoolNext]_poolVars
        => BudgetType' /\ HandType' /\ DumpType' /\ Placed'
  BY TypeStep
<1>4. BudgetType /\ BudgetType' /\ HandType /\ DumpType /\ Placed /\ NoLostWakeup /\ [PoolNext]_poolVars
        => NoLostWakeup'
  BY WakeupStep
<1> QED
  BY <1>1, <1>2, <1>3, <1>4, PTL DEF PoolSpec
-----------------------------------------------------------------------------
(* The ledger. *)

\* The sets the ledger counts are sets of dumps, finite and countable.
LEMMA HoldersCount ==
  ASSUME NEW i \in Disks
  PROVE  /\ EstimateHolders(i) \in SUBSET Dumps
         /\ LandedHolders(i) \in SUBSET Dumps
         /\ SlotHolders(i) \in SUBSET Dumps /\ IsFiniteSet(SlotHolders(i))
         /\ Cardinality(EstimateUnits(i)) \in Nat
         /\ Cardinality(LandedUnits(i)) \in Nat
         /\ Cardinality(SlotHolders(i)) \in Nat
<1>1. /\ EstimateHolders(i) \in SUBSET Dumps
      /\ LandedHolders(i) \in SUBSET Dumps
      /\ SlotHolders(i) \in SUBSET Dumps
  BY DEF EstimateHolders, LandedHolders, SlotHolders, On
<1>2. IsFiniteSet(SlotHolders(i)) /\ Cardinality(SlotHolders(i)) \in Nat
  BY <1>1, Given, FS_Subset, FS_CardinalityType
<1>3. /\ Cardinality(EstimateUnits(i)) \in Nat
      /\ Cardinality(LandedUnits(i)) \in Nat
  BY <1>1, UnitsCount, Given DEF EstimateUnits, LandedUnits
<1> QED
  BY <1>1, <1>2, <1>3

\* A step that moves no holder and no counter keeps the ledger.
LEMMA LedgerUntouched ==
  ASSUME Ledger,
         \A i \in Disks : /\ used'[i] = used[i] /\ writing'[i] = writing[i]
                         /\ EstimateHolders(i)' = EstimateHolders(i)
                         /\ LandedHolders(i)' = LandedHolders(i)
                         /\ SlotHolders(i)' = SlotHolders(i)
  PROVE  Ledger'
BY DEF Ledger, EstimateUnits, LandedUnits

\* The producer that gets a disk joins its estimate and slot holders.
LEMMA LedgerAcquire ==
  ASSUME BudgetType, HandType, DumpType, Placed, Ledger, NEW d \in Dumps, AcquireDisk(d)
  PROVE  Ledger'
<1>1. PICK i \in Disks : /\ Eligible(d, i)
                        /\ used' = [used EXCEPT ![i] = @ + Est[d]]
                        /\ writing' = [writing EXCEPT ![i] = @ + 1]
                        /\ disk' = [disk EXCEPT ![d] = i]
  BY AcquireChooses
<1>2. phase[d] = "new" /\ disk[d] = 0 /\ staged[d] = "none"
  BY DEF AcquireDisk, CanTry, Placed
<1>3. phase' = [phase EXCEPT ![d] = "writing"] /\ staged' = staged
  BY DEF AcquireDisk
<1>4. /\ EstimateHolders(i)' = EstimateHolders(i) \cup {d} /\ d \notin EstimateHolders(i)
      /\ SlotHolders(i)' = SlotHolders(i) \cup {d} /\ d \notin SlotHolders(i)
  BY <1>1, <1>2, <1>3
     DEF EstimateHolders, SlotHolders, On, HoldsEstimate, HoldsSlot, DumpType, Disks
<1>5. \A j \in Disks : LandedHolders(j)' = LandedHolders(j)
  BY <1>1, <1>2, <1>3 DEF LandedHolders, On, HoldsLanded, DumpType, Disks
<1>6. \A j \in Disks \ {i} : /\ EstimateHolders(j)' = EstimateHolders(j)
                            /\ SlotHolders(j)' = SlotHolders(j)
  BY <1>1, <1>2, <1>3
     DEF EstimateHolders, SlotHolders, On, HoldsEstimate, HoldsSlot, DumpType, Disks
<1>7. Cardinality(EstimateUnits(i)') = Cardinality(EstimateUnits(i)) + Est[d]
  BY <1>4, HoldersCount, UnitsAdd, Given DEF EstimateUnits
<1>8. Cardinality(SlotHolders(i)') = Cardinality(SlotHolders(i)) + 1
  BY <1>4, HoldersCount, FS_AddElement
<1>9. ASSUME NEW j \in Disks
      PROVE  /\ used'[j] = Cardinality(EstimateUnits(j)') + Cardinality(LandedUnits(j)')
             /\ writing'[j] = Cardinality(SlotHolders(j)')
             /\ Writers[j] > 0 => writing'[j] <= Writers[j]
  <2>1. LandedUnits(j)' = LandedUnits(j)
    BY <1>5 DEF LandedUnits
  <2>2. CASE j = i
    <3>1. used'[i] = used[i] + Est[d] /\ writing'[i] = writing[i] + 1
      BY <1>1 DEF BudgetType
    <3>2. Writers[i] > 0 => writing[i] + 1 <= Writers[i]
      <4>1. Writers[i] \in Nat /\ writing[i] \in Nat
        BY Given DEF BudgetType
      <4>2. HasWriterSlot(i)
        BY <1>1 DEF Eligible
      <4> QED
        BY <4>1, <4>2 DEF HasWriterSlot
    <3>3. used[i] = Cardinality(EstimateUnits(i)) + Cardinality(LandedUnits(i))
          /\ writing[i] = Cardinality(SlotHolders(i))
      BY DEF Ledger
    <3> QED
      BY <1>7, <1>8, <2>1, <2>2, <3>1, <3>2, <3>3, HoldersCount, Sizes
  <2>3. CASE j # i
    <3>1. EstimateUnits(j)' = EstimateUnits(j) /\ SlotHolders(j)' = SlotHolders(j)
      BY <1>6, <2>3 DEF EstimateUnits
    <3>2. used'[j] = used[j] /\ writing'[j] = writing[j]
      BY <1>1, <2>3 DEF BudgetType
    <3> QED
      BY <2>1, <3>1, <3>2 DEF Ledger
  <2> QED
    BY <2>2, <2>3
<1> QED
  BY <1>9 DEF Ledger

\* The committed dump's landed bytes join the charge of its disk.
LEMMA LedgerCharge ==
  ASSUME BudgetType, DumpType, Placed, Ledger, NEW d \in Dumps, ChargeLanded(d)
  PROVE  Ledger'
<1>1. PICK i \in Disks : disk[d] = i /\ staged[d] = "none"
  BY DEF ChargeLanded, Placed, HoldsSlot, HoldsEstimate
<1>2. /\ phase[d] = "committed" /\ phase' = [phase EXCEPT ![d] = "charged"]
      /\ staged' = [staged EXCEPT ![d] = "staged"]
      /\ disk[d] = i /\ disk' = disk /\ writing' = writing
      /\ used' = [used EXCEPT ![i] = @ + Size[d]]
  BY <1>1 DEF ChargeLanded
<1>3. \A j \in Disks : /\ EstimateHolders(j)' = EstimateHolders(j)
                      /\ SlotHolders(j)' = SlotHolders(j)
  BY <1>2 DEF EstimateHolders, SlotHolders, On, HoldsEstimate, HoldsSlot, DumpType
<1>4. /\ LandedHolders(i)' = LandedHolders(i) \cup {d}
      /\ d \notin LandedHolders(i)
  BY <1>1, <1>2 DEF LandedHolders, On, HoldsLanded, DumpType
<1>5. \A j \in Disks \ {i} : LandedHolders(j)' = LandedHolders(j)
  BY <1>2 DEF LandedHolders, On, HoldsLanded, DumpType
<1>6. Cardinality(LandedUnits(i)') = Cardinality(LandedUnits(i)) + Size[d]
  BY <1>1, <1>4, HoldersCount, UnitsAdd, Given DEF LandedUnits
<1>7. ASSUME NEW j \in Disks
      PROVE  used'[j] = Cardinality(EstimateUnits(j)') + Cardinality(LandedUnits(j)')
  <2>1. EstimateUnits(j)' = EstimateUnits(j)
    BY <1>3 DEF EstimateUnits
  <2>2. used[j] = Cardinality(EstimateUnits(j)) + Cardinality(LandedUnits(j))
    BY DEF Ledger
  <2>3. CASE j = i
    <3>1. used'[j] = used[j] + Size[d]
      BY <1>2, <2>3 DEF BudgetType
    <3> QED
      BY <1>6, <2>1, <2>2, <2>3, <3>1, HoldersCount, Sizes
  <2>4. CASE j # i
    <3>1. used'[j] = used[j] /\ LandedUnits(j)' = LandedUnits(j)
      BY <1>2, <1>5, <2>4 DEF BudgetType, LandedUnits
    <3> QED
      BY <2>1, <2>2, <3>1
  <2> QED
    BY <2>3, <2>4
<1> QED
  BY <1>2, <1>3, <1>7 DEF Ledger

\* Release never clamps: what a disk's used holds covers what is released.
LEMMA ReleaseExact ==
  ASSUME BudgetType, NEW i \in Disks, NEW n \in Nat, used[i] >= n, Release(i, n)
  PROVE  used'[i] = used[i] - n /\ \A j \in Disks \ {i} : used'[j] = used[j]
BY DEF Release, BudgetType

\* The Close hook gives the estimate back.
LEMMA LedgerFreeEstimate ==
  ASSUME BudgetType, DumpType, Placed, Ledger, NEW d \in Dumps, ReturnEstimate(d)
  PROVE  Ledger'
<1>1. PICK i \in Disks : disk[d] = i
  BY DEF ReturnEstimate, Placed, HoldsSlot, HoldsEstimate
<1>2. /\ phase[d] \in {"charged", "faulted"} /\ phase' = [phase EXCEPT ![d] = "freed"]
      /\ staged' = staged /\ disk[d] = i /\ disk' = disk /\ writing' = writing
      /\ Release(i, Est[d])
  BY <1>1 DEF ReturnEstimate
<1>3. \A j \in Disks : /\ LandedHolders(j)' = LandedHolders(j)
                      /\ SlotHolders(j)' = SlotHolders(j)
  BY <1>2 DEF LandedHolders, SlotHolders, On, HoldsLanded, HoldsEstimate, HoldsSlot, DumpType
<1>4. /\ EstimateHolders(i)' = EstimateHolders(i) \ {d}
      /\ d \in EstimateHolders(i)
  BY <1>2 DEF EstimateHolders, On, HoldsEstimate, DumpType
<1>5. \A j \in Disks \ {i} : EstimateHolders(j)' = EstimateHolders(j)
  BY <1>2 DEF EstimateHolders, On, HoldsEstimate, DumpType
<1>6. Cardinality(EstimateUnits(i)) = Cardinality(EstimateUnits(i)') + Est[d]
  BY <1>1, <1>4, HoldersCount, UnitsRemove, Given DEF EstimateUnits
<1>7. Cardinality(EstimateUnits(i)') \in Nat
  <2>1. EstimateHolders(i) \ {d} \in SUBSET Dumps
    BY DEF EstimateHolders, On
  <2>2. Est \in [Dumps -> Nat]
    BY Given
  <2>3. Cardinality(Units(EstimateHolders(i) \ {d}, Est)) \in Nat
    BY <2>1, <2>2, UnitsCount
  <2> QED
    BY <1>4, <2>3 DEF EstimateUnits
<1>8. ASSUME NEW j \in Disks
      PROVE  used'[j] = Cardinality(EstimateUnits(j)') + Cardinality(LandedUnits(j)')
  <2>1. LandedUnits(j)' = LandedUnits(j)
    BY <1>3 DEF LandedUnits
  <2>2. used[j] = Cardinality(EstimateUnits(j)) + Cardinality(LandedUnits(j))
    BY DEF Ledger
  <2>3. used[i] >= Est[d]
    BY <1>1, <1>6, <1>7, HoldersCount, Sizes DEF Ledger
  <2>4. /\ used'[i] = used[i] - Est[d]
        /\ j # i => used'[j] = used[j]
    BY <1>1, <1>2, <2>3, ReleaseExact, Sizes
  <2>5. CASE j = i
    BY <1>6, <1>7, <2>1, <2>2, <2>4, <2>5, HoldersCount, Sizes
  <2>6. CASE j # i
    <3>1. EstimateUnits(j)' = EstimateUnits(j)
      BY <1>5, <2>6 DEF EstimateUnits
    <3> QED
      BY <2>1, <2>2, <2>4, <2>6, <3>1
  <2> QED
    BY <2>5, <2>6
<1> QED
  BY <1>2, <1>3, <1>8 DEF Ledger

\* The last drain gives the landed bytes back.
LEMMA LedgerReleaseStaged ==
  ASSUME BudgetType, DumpType, Placed, Ledger, NEW d \in Dumps, ReleaseStaged(d)
  PROVE  Ledger'
<1>1. PICK i \in Disks : disk[d] = i
  BY DEF ReleaseStaged, Placed
<1>2. /\ staged[d] = "removed" /\ staged' = [staged EXCEPT ![d] = "released"]
      /\ phase' = phase /\ disk[d] = i /\ disk' = disk /\ writing' = writing
      /\ Release(i, Size[d])
  BY <1>1 DEF ReleaseStaged
<1>3. \A j \in Disks : /\ EstimateHolders(j)' = EstimateHolders(j)
                      /\ SlotHolders(j)' = SlotHolders(j)
  BY <1>2 DEF EstimateHolders, SlotHolders, On, HoldsEstimate, HoldsSlot
<1>4. LandedHolders(i)' = LandedHolders(i) \ {d} /\ d \in LandedHolders(i)
  BY <1>2 DEF LandedHolders, On, HoldsLanded, DumpType
<1>5. \A j \in Disks \ {i} : LandedHolders(j)' = LandedHolders(j)
  BY <1>2 DEF LandedHolders, On, HoldsLanded, DumpType
<1>6. Cardinality(LandedUnits(i)) = Cardinality(LandedUnits(i)') + Size[d]
  BY <1>1, <1>4, HoldersCount, UnitsRemove, Given DEF LandedUnits
<1>7. Cardinality(LandedUnits(i)') \in Nat
  <2>1. LandedHolders(i) \ {d} \in SUBSET Dumps
    BY DEF LandedHolders, On
  <2>2. Size \in [Dumps -> Nat]
    BY Given
  <2>3. Cardinality(Units(LandedHolders(i) \ {d}, Size)) \in Nat
    BY <2>1, <2>2, UnitsCount
  <2> QED
    BY <1>4, <2>3 DEF LandedUnits
<1>8. ASSUME NEW j \in Disks
      PROVE  used'[j] = Cardinality(EstimateUnits(j)') + Cardinality(LandedUnits(j)')
  <2>1. EstimateUnits(j)' = EstimateUnits(j)
    BY <1>3 DEF EstimateUnits
  <2>2. used[j] = Cardinality(EstimateUnits(j)) + Cardinality(LandedUnits(j))
    BY DEF Ledger
  <2>3. used[i] >= Size[d]
    BY <1>1, <1>6, <1>7, HoldersCount, Sizes DEF Ledger
  <2>4. /\ used'[i] = used[i] - Size[d]
        /\ j # i => used'[j] = used[j]
    BY <1>1, <1>2, <2>3, ReleaseExact, Sizes
  <2>5. CASE j = i
    BY <1>6, <1>7, <2>1, <2>2, <2>4, <2>5, HoldersCount, Sizes
  <2>6. CASE j # i
    <3>1. LandedUnits(j)' = LandedUnits(j)
      BY <1>5, <2>6 DEF LandedUnits
    <3> QED
      BY <2>1, <2>2, <2>4, <2>6, <3>1
  <2> QED
    BY <2>5, <2>6
<1> QED
  BY <1>2, <1>3, <1>8 DEF Ledger

\* The Close hook gives the writer slot back.
LEMMA LedgerReleaseWriter ==
  ASSUME BudgetType, DumpType, Placed, Ledger, NEW d \in Dumps, FreeWriter(d)
  PROVE  Ledger'
<1>1. PICK i \in Disks : disk[d] = i
  BY DEF FreeWriter, Placed, HoldsSlot
<1>2. /\ phase[d] = "freed" /\ phase' = [phase EXCEPT ![d] = "closed"]
      /\ staged' = staged /\ disk[d] = i /\ disk' = disk /\ used' = used
      /\ writing' = [writing EXCEPT ![i] = IF @ > 0 THEN @ - 1 ELSE @]
  BY <1>1 DEF FreeWriter
<1>3. \A j \in Disks : /\ EstimateHolders(j)' = EstimateHolders(j)
                      /\ LandedHolders(j)' = LandedHolders(j)
  BY <1>2 DEF EstimateHolders, LandedHolders, On, HoldsEstimate, HoldsLanded, DumpType
<1>4. SlotHolders(i)' = SlotHolders(i) \ {d} /\ d \in SlotHolders(i)
  BY <1>2 DEF SlotHolders, On, HoldsSlot, HoldsEstimate, DumpType
<1>5. \A j \in Disks \ {i} : SlotHolders(j)' = SlotHolders(j)
  BY <1>2 DEF SlotHolders, On, HoldsSlot, HoldsEstimate, DumpType
<1>6. Cardinality(SlotHolders(i)') = Cardinality(SlotHolders(i)) - 1
  BY <1>4, HoldersCount, FS_RemoveElement
<1>7. ASSUME NEW j \in Disks
      PROVE  /\ writing'[j] = Cardinality(SlotHolders(j)')
             /\ Writers[j] > 0 => writing'[j] <= Writers[j]
  <2>1. /\ writing[j] = Cardinality(SlotHolders(j))
        /\ Writers[j] > 0 => writing[j] <= Writers[j]
        /\ Writers[j] \in Nat /\ writing[j] \in Nat
    BY Given DEF Ledger, BudgetType
  <2>2. CASE j = i
    <3>1. SlotHolders(i) # {}
      BY <1>4
    <3>2. writing[i] > 0
      BY <2>1, <2>2, <3>1, HoldersCount, FS_EmptySet
    <3>3. writing'[i] = writing[i] - 1
      BY <1>2, <3>2 DEF BudgetType
    <3> QED
      BY <1>6, <2>1, <2>2, <3>2, <3>3
  <2>3. CASE j # i
    <3>1. writing'[j] = writing[j] /\ SlotHolders(j)' = SlotHolders(j)
      BY <1>2, <1>5, <2>3 DEF BudgetType
    <3> QED
      BY <2>1, <3>1
  <2> QED
    BY <2>2, <2>3
<1>8. \A j \in Disks : used'[j] = Cardinality(EstimateUnits(j)') + Cardinality(LandedUnits(j)')
  BY <1>2, <1>3 DEF Ledger, EstimateUnits, LandedUnits
<1> QED
  BY <1>7, <1>8 DEF Ledger

\* The empty pool's ledger.
LEMMA LedgerInit == PoolInit => Ledger
<1> SUFFICES ASSUME PoolInit, NEW i \in Disks
             PROVE  /\ used[i] = Cardinality(EstimateUnits(i)) + Cardinality(LandedUnits(i))
                    /\ writing[i] = Cardinality(SlotHolders(i))
                    /\ Writers[i] > 0 => writing[i] <= Writers[i]
  BY DEF Ledger
<1>1. EstimateHolders(i) = {} /\ LandedHolders(i) = {} /\ SlotHolders(i) = {}
  BY DEF PoolInit, EstimateHolders, LandedHolders, SlotHolders, On, HoldsEstimate, HoldsLanded,
         HoldsSlot, Disks
<1>2. EstimateUnits(i) = {} /\ LandedUnits(i) = {}
  BY <1>1 DEF EstimateUnits, LandedUnits, Units
<1>3. used[i] = 0 /\ writing[i] = 0 /\ Writers[i] \in Nat
  BY Given DEF PoolInit
<1> QED
  BY <1>1, <1>2, <1>3, FS_EmptySet

\* Every step keeps the ledger.
LEMMA LedgerStep ==
  ASSUME BudgetType, HandType, DumpType, Placed, Ledger, [PoolNext]_poolVars
  PROVE  Ledger'
<1> USE DEF ledgerVars, dumpVars, On, EstimateHolders, LandedHolders, SlotHolders, HoldsEstimate,
            HoldsLanded, HoldsSlot
<1>1. ASSUME NEW d \in Dumps, AcquireDirect(d) \/ AcquireRefused(d) \/ AcquireWaits(d)
      PROVE  Ledger'
  BY <1>1, LedgerUntouched DEF AcquireDirect, AcquireRefused, AcquireWaits, CanTry, DumpType
<1>2. ASSUME NEW d \in Dumps, Commit(d) \/ Fault(d) PROVE Ledger'
  BY <1>2, LedgerUntouched DEF Commit, Fault, DumpType
<1>3. ASSUME NEW d \in Dumps, RemoveStaged(d) \/ KeepStaged(d) PROVE Ledger'
  BY <1>3, LedgerUntouched DEF RemoveStaged, KeepStaged, DumpType
<1>4. ASSUME AbortRun \/ UNCHANGED poolVars PROVE Ledger'
  BY <1>4, LedgerUntouched DEF AbortRun, Abort, poolVars
<1> QED
  BY <1>1, <1>2, <1>3, <1>4, LedgerAcquire, LedgerCharge, LedgerFreeEstimate,
     LedgerReleaseWriter, LedgerReleaseStaged
     DEF PoolNext, AcquireStep, CloseStep, SettleStep

\* Disk.used is exactly what the disk's dumps hold and Disk.writing exactly its open
\* sinks, within the cap, however Close hooks and drains interleave: no reservation is
\* leaked or freed twice, and Release's clamp at zero never acts.
THEOREM LedgerBalances == PoolSpec => []Ledger
<1>1. PoolInit => BudgetType /\ HandType /\ DumpType /\ Placed /\ Ledger
  BY TypeInit, LedgerInit
<1>2. BudgetType /\ HandType /\ DumpType /\ Placed /\ [PoolNext]_poolVars
        => BudgetType' /\ HandType' /\ DumpType' /\ Placed'
  BY TypeStep
<1>3. BudgetType /\ HandType /\ DumpType /\ Placed /\ Ledger /\ [PoolNext]_poolVars => Ledger'
  BY LedgerStep
<1> QED
  BY <1>1, <1>2, <1>3, PTL DEF PoolSpec
-----------------------------------------------------------------------------
(* Room on the disk. *)

\* More dumps hold no fewer bytes.
LEMMA UnitsGrow ==
  ASSUME NEW S, NEW T, S \subseteq T, NEW w
  PROVE  Units(S, w) \subseteq Units(T, w)
BY DEF Units

\* The footprint is finite and within what used charges.
LEMMA FootprintWithinUsed ==
  ASSUME Ledger, DumpType, NEW i \in Disks
  PROVE  /\ IsFiniteSet(FootprintUnits(i)) /\ Cardinality(FootprintUnits(i)) \in Nat
         /\ Cardinality(FootprintUnits(i)) <= used[i]
<1> DEFINE E == EstimateUnits(i)
           L == LandedUnits(i)
<1>1. IsFiniteSet(E) /\ IsFiniteSet(L) /\ Cardinality(E) \in Nat /\ Cardinality(L) \in Nat
  BY HoldersCount, UnitsFinite, Given DEF EstimateUnits, LandedUnits
<1>2. OnlyStaged(i) \subseteq LandedHolders(i)
  BY DEF OnlyStaged, LandedHolders, HoldsLanded, On
<1>3. FootprintUnits(i) \subseteq E \cup L
  BY <1>2, UnitsGrow DEF FootprintUnits, LandedUnits
<1>4. /\ IsFiniteSet(E \cup L)
      /\ Cardinality(E \cup L) = Cardinality(E) + Cardinality(L) - Cardinality(E \cap L)
  BY <1>1, FS_Union
<1>5. Cardinality(E \cap L) \in Nat
  BY <1>1, FS_Intersection, FS_CardinalityType
<1>6. /\ IsFiniteSet(FootprintUnits(i))
      /\ Cardinality(FootprintUnits(i)) <= Cardinality(E \cup L)
  BY <1>3, <1>4, FS_Subset
<1>7. Cardinality(FootprintUnits(i)) \in Nat
  BY <1>6, FS_CardinalityType
<1>8. used[i] = Cardinality(E) + Cardinality(L)
  BY DEF Ledger
<1> HIDE DEF E, L
<1> QED
  BY <1>1, <1>4, <1>5, <1>6, <1>7, <1>8

\* Once its sink closes, a dump's staged copy lies within its old estimate.
LEMMA SizeWithinEstimate ==
  ASSUME EstimatesBound, NEW S \in SUBSET Dumps
  PROVE  Units(S, Size) \subseteq Units(S, Est)
<1> SUFFICES ASSUME NEW d \in S, NEW k \in 1..Size[d]
             PROVE  <<d, k>> \in {d} \X (1..Est[d])
  BY DEF Units
<1> QED
  BY Sizes DEF EstimatesBound

\* Only Acquire enlarges a disk's footprint.
LEMMA FootprintShrinks ==
  ASSUME EstimatesBound, DumpType, Placed, [PoolNext]_poolVars, NEW i \in Disks,
         ~ \E d \in Dumps : AcquireDisk(d)
  PROVE  FootprintUnits(i)' \subseteq FootprintUnits(i)
<1> USE DEF ledgerVars, dumpVars
<1> DEFINE Shrinks == /\ EstimateHolders(i)' \subseteq EstimateHolders(i)
                      /\ OnlyStaged(i)' \subseteq OnlyStaged(i) \cup EstimateHolders(i)
<1>1. Shrinks
  <2> USE DEF EstimateHolders, OnlyStaged, On, HoldsEstimate, DumpType
  <2>1. ASSUME NEW d \in Dumps, AcquireDirect(d) \/ AcquireRefused(d) \/ AcquireWaits(d)
        PROVE  Shrinks
    BY <2>1 DEF AcquireDirect, AcquireRefused, AcquireWaits, CanTry, Placed
  <2>2. ASSUME NEW d \in Dumps, Commit(d) \/ Fault(d) PROVE Shrinks
    BY <2>2 DEF Commit, Fault
  <2>3. ASSUME NEW d \in Dumps, ChargeLanded(d) PROVE Shrinks
    BY <2>3 DEF ChargeLanded
  <2>4. ASSUME NEW d \in Dumps, ReturnEstimate(d) \/ FreeWriter(d) PROVE Shrinks
    BY <2>4 DEF ReturnEstimate, FreeWriter
  <2>5. ASSUME NEW d \in Dumps, RemoveStaged(d) \/ ReleaseStaged(d) \/ KeepStaged(d)
        PROVE  Shrinks
    BY <2>5 DEF RemoveStaged, ReleaseStaged, KeepStaged
  <2>6. ASSUME AbortRun \/ UNCHANGED poolVars PROVE Shrinks
    BY <2>6 DEF AbortRun, Abort, poolVars
  <2> QED
    BY <2>1, <2>2, <2>3, <2>4, <2>5, <2>6 DEF PoolNext, AcquireStep, CloseStep, SettleStep
<1>2. Units(EstimateHolders(i)', Est) \subseteq EstimateUnits(i)
  BY <1>1, UnitsGrow DEF EstimateUnits
<1>3. Units(OnlyStaged(i)', Size)
        \subseteq Units(OnlyStaged(i), Size) \cup Units(EstimateHolders(i), Size)
  BY <1>1 DEF Units
<1>4. Units(EstimateHolders(i), Size) \subseteq EstimateUnits(i)
  BY SizeWithinEstimate, HoldersCount DEF EstimateUnits
<1> QED
  BY <1>2, <1>3, <1>4 DEF FootprintUnits, EstimateUnits

\* Every step keeps the budgeted bytes within the pool.
LEMMA FitStep ==
  ASSUME BudgetType, HandType, DumpType, Placed, Ledger, BudgetedBytesFit, [PoolNext]_poolVars
  PROVE  BudgetedBytesFit'
<1> SUFFICES ASSUME EstimatesBound, NEW j \in Disks, Capacity[j] > 0
             PROVE  Cardinality(FootprintUnits(j)') <= Capacity[j]
  BY DEF BudgetedBytesFit, EstimatesBound
<1>1. Cardinality(FootprintUnits(j)) <= Capacity[j] /\ Capacity[j] \in Nat
  BY Given DEF BudgetedBytesFit
<1>2. /\ IsFiniteSet(FootprintUnits(j)) /\ Cardinality(FootprintUnits(j)) \in Nat
      /\ Cardinality(FootprintUnits(j)) <= used[j] /\ used[j] \in Nat
  BY FootprintWithinUsed DEF BudgetType
<1>3. ASSUME FootprintUnits(j)' \subseteq FootprintUnits(j)
      PROVE  Cardinality(FootprintUnits(j)') <= Capacity[j]
  <2>1. /\ Cardinality(FootprintUnits(j)') <= Cardinality(FootprintUnits(j))
        /\ Cardinality(FootprintUnits(j)') \in Nat
    BY <1>2, <1>3, FS_Subset, FS_CardinalityType
  <2> QED
    BY <1>1, <1>2, <2>1
<1>4. CASE ~ \E d \in Dumps : AcquireDisk(d)
  BY <1>3, <1>4, FootprintShrinks
<1>5. ASSUME NEW d \in Dumps, AcquireDisk(d)
      PROVE  Cardinality(FootprintUnits(j)') <= Capacity[j]
  <2>1. PICK i \in Disks : Eligible(d, i) /\ disk' = [disk EXCEPT ![d] = i]
    BY <1>5, AcquireChooses
  <2>2. /\ phase[d] = "new" /\ disk[d] = 0 /\ staged[d] = "none"
        /\ phase' = [phase EXCEPT ![d] = "writing"] /\ staged' = staged
    BY <1>5 DEF AcquireDisk, CanTry, Placed
  <2>3. /\ OnlyStaged(j)' = OnlyStaged(j)
        /\ EstimateHolders(j)' = IF j = i THEN EstimateHolders(j) \cup {d} ELSE EstimateHolders(j)
    BY <2>1, <2>2 DEF OnlyStaged, EstimateHolders, On, HoldsEstimate, DumpType, Disks
  <2>4. CASE j # i
    BY <1>3, <2>3, <2>4 DEF FootprintUnits, EstimateUnits
  <2>5. CASE j = i
    <3> DEFINE D == {d} \X (1..Est[d])
    <3>1. FootprintUnits(j)' = FootprintUnits(j) \cup D
      BY <2>3, <2>5 DEF FootprintUnits, EstimateUnits, Units
    <3>2. IsFiniteSet(D) /\ Cardinality(D) = Est[d] /\ Est[d] \in Nat
      BY OneDumpUnits, Sizes
    <3>3. /\ Cardinality(FootprintUnits(j) \cup D)
                = Cardinality(FootprintUnits(j)) + Cardinality(D)
                    - Cardinality(FootprintUnits(j) \cap D)
          /\ Cardinality(FootprintUnits(j) \cap D) \in Nat
      BY <1>2, <3>2, FS_Union, FS_Intersection, FS_CardinalityType
    <3>4. used[j] + Est[d] <= Capacity[j]
      BY <1>1, <2>1, <2>5 DEF Eligible, HasRoomFor
    <3> HIDE DEF D
    <3> QED
      BY <1>1, <1>2, <3>1, <3>2, <3>3, <3>4
  <2> QED
    BY <2>4, <2>5
<1> QED
  BY <1>4, <1>5

\* The empty pool fits.
LEMMA FitInit == PoolInit => BudgetedBytesFit
<1> SUFFICES ASSUME PoolInit, NEW i \in Disks, Capacity[i] > 0
             PROVE  Cardinality(FootprintUnits(i)) <= Capacity[i]
  BY DEF BudgetedBytesFit
<1>1. EstimateHolders(i) = {} /\ OnlyStaged(i) = {}
  BY DEF PoolInit, EstimateHolders, OnlyStaged, On, HoldsEstimate
<1>2. FootprintUnits(i) = {}
  BY <1>1 DEF FootprintUnits, EstimateUnits, Units
<1> QED
  BY <1>2, FS_EmptySet, Given

\* When estimates are the upper bounds the code takes them for, a bounded disk always
\* has room for the writes in flight to it and the copies staged on it.
THEOREM BudgetedBytesAlwaysFit == PoolSpec => []BudgetedBytesFit
<1>1. PoolInit => BudgetType /\ HandType /\ DumpType /\ Placed /\ Ledger /\ BudgetedBytesFit
  BY TypeInit, LedgerInit, FitInit
<1>2. BudgetType /\ HandType /\ DumpType /\ Placed /\ [PoolNext]_poolVars
        => BudgetType' /\ HandType' /\ DumpType' /\ Placed'
  BY TypeStep
<1>3. BudgetType /\ HandType /\ DumpType /\ Placed /\ Ledger /\ [PoolNext]_poolVars => Ledger'
  BY LedgerStep
<1>4. BudgetType /\ HandType /\ DumpType /\ Placed /\ Ledger /\ BudgetedBytesFit /\ [PoolNext]_poolVars
        => BudgetedBytesFit'
  BY FitStep
<1> QED
  BY <1>1, <1>2, <1>3, <1>4, PTL DEF PoolSpec

-----------------------------------------------------------------------------
\* The status (Status.tla).  Its inductive invariant: a row tells where its dump is, nothing is
\* drained of an archive before it is staged, and the meter of a drain is followed from its start
\* to its count.

Lanes == {"none", "direct", "queued", "copying", "broken", "void", "counted"}
DumpStates == {"idle", "held", "dumping", "returning", "over"}

\* A route's length is left to what SkipLandings makes of it.
StatusTyped ==
    /\ row \in [DLEs -> Row] /\ dumpEnded \in BOOLEAN
    /\ pc \in [DLEs -> DumpStates]
    /\ lane \in [DLEs -> [Landings -> Lanes]]
    /\ copies \in [DLEs -> SUBSET Landings]

\* Of one DLE: its row, its dump, its lanes and its copies.
RowTells(r, p) ==
    /\ p \in {"idle", "held"} => r.state = "pending"
    /\ p = "dumping" => r.state = "dumping"
    /\ r.holding => p \in {"returning", "over"} /\ r.out = ArchiveSize

NotYetDrained(r, p, lanes, on) ==
    /\ ~r.holding => \A l \in Landings : lanes[l] \notin {"copying", "void", "counted"}
    /\ p \in {"idle", "held"} \/ (p = "dumping" /\ r.toHolding) =>
         on = {} /\ \A l \in Landings : r.drained[l] = 0
    /\ p \in {"held", "dumping"} /\ r.toHolding =>
         \A l \in Landings : lanes[l] \in {"none", "queued"}

LaneMetered(n, state, landed) ==
    /\ state # "direct"
    /\ state \in {"none", "queued"} => n = 0
    /\ state \in {"none", "queued", "copying", "broken"} => ~landed
    /\ state \in {"void", "counted"} => (n > 0 <=> landed)

DumpFits(r, p, lanes, on) ==
    /\ RowTells(r, p) /\ NotYetDrained(r, p, lanes, on)
    /\ r.holding => \A l \in Landings : LaneMetered(r.drained[l], lanes[l], l \in on)

WindowClosed == dumpEnded => \A d \in DLEs : row[d].state \notin {"pending", "dumping"}

StatusIInv ==
    /\ StatusTyped /\ WindowClosed
    /\ \A d \in DLEs : DumpFits(row[d], pc[d], lane[d], copies[d])

-----------------------------------------------------------------------------
\* The invariant holds of the first status.
LEMMA StatusStarts == ASSUME StatusAssumption PROVE StatusInit => StatusIInv
<1>. SUFFICES ASSUME StatusInit PROVE StatusIInv  OBVIOUS
<1>. DEFINE first == [state |-> "pending", out |-> 0, drained |-> [l \in Landings |-> 0],
                      toHolding |-> FALSE, holding |-> FALSE]
<1>1. first \in Row
  <2>1. 0 \in 0 .. ArchiveSize  BY DEF StatusAssumption
  <2>. QED  BY <2>1 DEF Row
<1>2. row = [d \in DLEs |-> first]  BY DEF StatusInit
<1>3. StatusTyped
  BY <1>1, <1>2 DEF StatusInit, StatusTyped, DumpStates, Lanes
<1>4. WindowClosed  BY DEF StatusInit, WindowClosed
<1>5. ASSUME NEW d \in DLEs PROVE DumpFits(row[d], pc[d], lane[d], copies[d])
  <2>1. /\ row[d] = first /\ pc[d] = "idle" /\ lane[d] = [l \in Landings |-> "none"]
        /\ copies[d] = {}
    BY <1>2, <1>5 DEF StatusInit
  <2>2. RowTells(first, "idle")  BY DEF RowTells
  <2>3. NotYetDrained(first, "idle", [l \in Landings |-> "none"], {})  BY DEF NotYetDrained
  <2>. QED  BY <2>1, <2>2, <2>3 DEF DumpFits
<1>. QED  BY <1>3, <1>4, <1>5 DEF StatusIInv

\* A step that changes one DLE's row, dump, lanes and copies, and no other's, has only that one
\* to answer for.
LEMMA OneDumpMoves ==
    ASSUME StatusIInv, NEW d \in DLEs,
           NEW r \in Row, NEW p \in DumpStates, NEW ln \in [Landings -> Lanes],
           NEW on \in SUBSET Landings,
           row' = [row EXCEPT ![d] = r], pc' = [pc EXCEPT ![d] = p],
           lane' = [lane EXCEPT ![d] = ln], copies' = [copies EXCEPT ![d] = on],
           DumpFits(r, p, ln, on), dumpEnded' \in BOOLEAN, WindowClosed'
    PROVE  StatusIInv'
<1>1. StatusTyped'
  BY DEF StatusIInv, StatusTyped
<1>2. ASSUME NEW e \in DLEs PROVE DumpFits(row'[e], pc'[e], lane'[e], copies'[e])
  <2>1. CASE e = d
    <3>1. row'[e] = r /\ pc'[e] = p /\ lane'[e] = ln /\ copies'[e] = on
      BY <2>1 DEF StatusIInv, StatusTyped
    <3>. QED  BY <3>1
  <2>2. CASE e # d
    <3>1. row'[e] = row[e] /\ pc'[e] = pc[e] /\ lane'[e] = lane[e] /\ copies'[e] = copies[e]
      BY <1>2, <2>2 DEF StatusIInv, StatusTyped
    <3>2. DumpFits(row[e], pc[e], lane[e], copies[e])  BY <1>2 DEF StatusIInv
    <3>. QED  BY <3>1, <3>2
  <2>. QED  BY <2>1, <2>2
<1>. QED  BY <1>1, <1>2 DEF StatusIInv

\* What a row may be, taken apart.
LEMMA RowParts ==
    ASSUME StatusIInv, NEW d \in DLEs
    PROVE  /\ row[d] \in Row /\ pc[d] \in DumpStates /\ lane[d] \in [Landings -> Lanes]
           /\ copies[d] \in SUBSET Landings
           /\ row[d].state \in {"pending", "dumping", "flushing", "done", "failed", "canceled"}
           /\ row[d].out \in 0 .. ArchiveSize /\ row[d].drained \in [Landings -> 0 .. ArchiveSize]
           /\ row[d].toHolding \in BOOLEAN /\ row[d].holding \in BOOLEAN
           /\ DumpFits(row[d], pc[d], lane[d], copies[d])
<1>1. row[d] \in Row /\ pc[d] \in DumpStates /\ lane[d] \in [Landings -> Lanes]
      /\ copies[d] \in SUBSET Landings
  BY DEF StatusIInv, StatusTyped
<1>2. DumpFits(row[d], pc[d], lane[d], copies[d])  BY DEF StatusIInv
<1>. QED  BY <1>1, <1>2 DEF Row

\* The dump window: it stays closed while every row stays ended, and markDumpEnd closes it only
\* on ended rows.
Ended(r) == r.state \notin {"pending", "dumping"}
LEMMA WindowKept ==
    ASSUME StatusIInv, NEW d \in DLEs, NEW r, row' = [row EXCEPT ![d] = r],
           dumpEnded' = dumpEnded, Ended(row[d]) => Ended(r)
    PROVE  WindowClosed' /\ dumpEnded' \in BOOLEAN
<1>1. ASSUME dumpEnded', NEW e \in DLEs PROVE Ended(row'[e])
  <2>1. Ended(row[e]) /\ Ended(row[d])
    BY <1>1 DEF StatusIInv, WindowClosed, Ended
  <2>. QED  BY <2>1 DEF StatusIInv, StatusTyped
<1>. QED  BY <1>1 DEF WindowClosed, Ended, StatusIInv, StatusTyped

LEMMA WindowMarked ==
    ASSUME StatusIInv, NEW d \in DLEs, NEW r, SetAndMark(d, r), Ended(r)
    PROVE  WindowClosed' /\ dumpEnded' \in BOOLEAN
<1>. DEFINE rows == [row EXCEPT ![d] = r]
<1>1. row' = rows /\ dumpEnded' = (dumpEnded \/ \A x \in DLEs : Ended(rows[x]))
  BY DEF SetAndMark, Set, MarkDumpEnd, Ended
<1>2. ASSUME dumpEnded', NEW e \in DLEs PROVE Ended(row'[e])
  <2>1. CASE dumpEnded
    <3>1. Ended(row[e])  BY <1>2, <2>1 DEF StatusIInv, WindowClosed, Ended
    <3>. QED  BY <1>1, <3>1 DEF StatusIInv, StatusTyped
  <2>2. CASE \A x \in DLEs : Ended(rows[x])
    BY <1>1, <1>2, <2>2
  <2>. QED  BY <1>1, <1>2, <2>1, <2>2
<1>3. dumpEnded' \in BOOLEAN  BY <1>1 DEF StatusIInv, StatusTyped
<1>. QED  BY <1>2, <1>3 DEF WindowClosed, Ended

\* The dumps' own actions.
LEMMA AcquireKeeps ==
    ASSUME StatusAssumption, StatusIInv, NEW d \in DLEs, NEW onDisk \in BOOLEAN, Acquire(d, onDisk)
    PROVE  StatusIInv'
<1>. DEFINE r == [row[d] EXCEPT !.toHolding = onDisk]
            ln == [l \in Landings |->
                     IF l \in Alive(d) THEN IF onDisk THEN "queued" ELSE "direct" ELSE "none"]
<1>1. r \in Row /\ r.state = row[d].state /\ r.holding = row[d].holding
      /\ r.drained = row[d].drained /\ r.toHolding = onDisk
  BY RowParts DEF Row
<1>2. ln \in [Landings -> Lanes]  BY DEF Lanes
<1>3. row' = [row EXCEPT ![d] = r] /\ pc' = [pc EXCEPT ![d] = "held"]
      /\ lane' = [lane EXCEPT ![d] = ln] /\ copies' = copies /\ dumpEnded' = dumpEnded
      /\ pc[d] = "idle"
  BY DEF Acquire, Set
<1>4. copies' = [copies EXCEPT ![d] = copies[d]]  BY <1>3 DEF StatusIInv, StatusTyped
<1>5. DumpFits(r, "held", ln, copies[d])
  BY RowParts, <1>1, <1>3 DEF DumpFits, RowTells, NotYetDrained, LaneMetered
<1>6. WindowClosed' /\ dumpEnded' \in BOOLEAN  BY <1>1, <1>3, WindowKept DEF Ended
<1>. HIDE DEF r, ln
<1>. QED  BY <1>1, <1>2, <1>3, <1>4, <1>5, <1>6, RowParts, OneDumpMoves DEF DumpStates

LEMMA FailDumpKeeps ==
    ASSUME StatusAssumption, StatusIInv, NEW d \in DLEs, FailDump(d)
    PROVE  StatusIInv'
<1>. DEFINE r == [row[d] EXCEPT !.state = IF canceled THEN "canceled" ELSE "failed"]
            ln == [l \in Landings |-> "none"]
<1>1. r \in Row /\ Ended(r) /\ r.holding = row[d].holding
  BY RowParts DEF Row, Ended
<1>2. ln \in [Landings -> Lanes]  BY DEF Lanes
<1>3. SetAndMark(d, r) /\ pc' = [pc EXCEPT ![d] = "over"]
      /\ lane' = [lane EXCEPT ![d] = ln] /\ copies' = copies
      /\ pc[d] \in {"idle", "held", "dumping"}
  BY DEF FailDump
<1>4. copies' = [copies EXCEPT ![d] = copies[d]]  BY <1>3 DEF StatusIInv, StatusTyped
<1>5. ~r.holding  BY <1>1, <1>3, RowParts DEF DumpFits, RowTells
<1>6. DumpFits(r, "over", ln, copies[d])
  BY <1>5 DEF DumpFits, RowTells, NotYetDrained
<1>7. WindowClosed' /\ dumpEnded' \in BOOLEAN  BY <1>1, <1>3, WindowMarked
<1>8. row' = [row EXCEPT ![d] = r]  BY <1>3 DEF SetAndMark, Set
<1>. HIDE DEF r, ln
<1>. QED  BY <1>1, <1>2, <1>3, <1>4, <1>6, <1>7, <1>8, RowParts, OneDumpMoves DEF DumpStates

LEMMA NotStartedKeeps ==
    ASSUME StatusAssumption, StatusIInv, NEW d \in DLEs, NotStarted(d)
    PROVE  StatusIInv'
<1>1. pc' = [pc EXCEPT ![d] = "over"] /\ row' = row /\ lane' = lane /\ copies' = copies
      /\ dumpEnded' = dumpEnded /\ pc[d] = "idle"
  BY DEF NotStarted, snap
<1>2. /\ row' = [row EXCEPT ![d] = row[d]] /\ lane' = [lane EXCEPT ![d] = lane[d]]
      /\ copies' = [copies EXCEPT ![d] = copies[d]]
  BY <1>1 DEF StatusIInv, StatusTyped
<1>3. ~row[d].holding  BY <1>1, RowParts DEF DumpFits, RowTells
<1>4. DumpFits(row[d], "over", lane[d], copies[d])
  BY <1>3, RowParts DEF DumpFits, RowTells, NotYetDrained
<1>5. WindowClosed' /\ dumpEnded' \in BOOLEAN  BY <1>1, <1>2, WindowKept
<1>. DEFINE r == row[d]  ln == lane[d]  on == copies[d]
<1>6. row' = [row EXCEPT ![d] = r] /\ pc' = [pc EXCEPT ![d] = "over"]
      /\ lane' = [lane EXCEPT ![d] = ln] /\ copies' = [copies EXCEPT ![d] = on]
      /\ r \in Row /\ ln \in [Landings -> Lanes] /\ on \in SUBSET Landings
      /\ "over" \in DumpStates /\ DumpFits(r, "over", ln, on)
  BY <1>1, <1>2, <1>4, RowParts DEF DumpStates
<1>. HIDE DEF r, ln, on
<1>. QED  BY <1>5, <1>6, OneDumpMoves

LEMMA StartDLEKeeps ==
    ASSUME StatusAssumption, StatusIInv, NEW d \in DLEs, StartDLE(d)
    PROVE  StatusIInv'
<1>. DEFINE r == [row[d] EXCEPT !.state = "dumping"]
<1>1. r \in Row /\ r.state = "dumping" /\ r.holding = row[d].holding
      /\ r.drained = row[d].drained /\ r.toHolding = row[d].toHolding
  BY RowParts DEF Row
<1>2. row' = [row EXCEPT ![d] = r] /\ pc' = [pc EXCEPT ![d] = "dumping"]
      /\ lane' = lane /\ copies' = copies /\ dumpEnded' = dumpEnded /\ pc[d] = "held"
  BY DEF StartDLE, Set
<1>3. lane' = [lane EXCEPT ![d] = lane[d]] /\ copies' = [copies EXCEPT ![d] = copies[d]]
  BY <1>2 DEF StatusIInv, StatusTyped
<1>4. ~Ended(row[d])  BY <1>2, RowParts DEF DumpFits, RowTells, Ended
<1>5. DumpFits(r, "dumping", lane[d], copies[d])
  BY RowParts, <1>1, <1>2 DEF DumpFits, RowTells, NotYetDrained, LaneMetered
<1>6. WindowClosed' /\ dumpEnded' \in BOOLEAN  BY <1>2, <1>4, WindowKept
<1>. DEFINE ln == lane[d]  on == copies[d]
<1>7. row' = [row EXCEPT ![d] = r] /\ pc' = [pc EXCEPT ![d] = "dumping"]
      /\ lane' = [lane EXCEPT ![d] = ln] /\ copies' = [copies EXCEPT ![d] = on]
      /\ r \in Row /\ ln \in [Landings -> Lanes] /\ on \in SUBSET Landings
      /\ "dumping" \in DumpStates /\ DumpFits(r, "dumping", ln, on)
  <2>. HIDE DEF r
  <2>. QED  BY <1>1, <1>2, <1>3, <1>5, RowParts DEF DumpStates
<1>. HIDE DEF r, ln, on
<1>. QED  BY <1>6, <1>7, OneDumpMoves

LEMMA AddBytesKeeps ==
    ASSUME StatusAssumption, StatusIInv, NEW d \in DLEs, AddBytes(d)
    PROVE  StatusIInv'
<1>. DEFINE fan == Cardinality({x \in Landings : lane[d][x] = "direct"}) > 1
            meters == [l \in Landings |-> IF lane[d][l] = "direct" /\ fan THEN 1
                                          ELSE row[d].drained[l]]
            r == [row[d] EXCEPT !.out = 1, !.drained = meters]
<1>1. 1 \in 0 .. ArchiveSize  BY DEF StatusAssumption
<1>2. meters \in [Landings -> 0 .. ArchiveSize]  BY <1>1, RowParts
<1>3. r \in Row /\ r.state = row[d].state /\ r.holding = row[d].holding
      /\ r.drained = meters /\ r.toHolding = row[d].toHolding
  <2>. HIDE DEF meters
  <2>. QED  BY RowParts, <1>1, <1>2 DEF Row
<1>4. row' = [row EXCEPT ![d] = r] /\ UNCHANGED <<pc, lane, copies, dumpEnded>>
      /\ pc[d] = "dumping"
  BY DEF AddBytes, Set, world
<1>5. pc' = [pc EXCEPT ![d] = pc[d]] /\ lane' = [lane EXCEPT ![d] = lane[d]]
      /\ copies' = [copies EXCEPT ![d] = copies[d]]
  BY <1>4 DEF StatusIInv, StatusTyped
<1>6. ~row[d].holding  BY <1>4, RowParts DEF DumpFits, RowTells
<1>7. DumpFits(r, pc[d], lane[d], copies[d])
  <2>1. RowTells(r, pc[d])  BY <1>3, <1>4, <1>6, RowParts DEF DumpFits, RowTells
  <2>2. NotYetDrained(r, pc[d], lane[d], copies[d])
    <3>1. NotYetDrained(row[d], pc[d], lane[d], copies[d])  BY RowParts DEF DumpFits
    <3>2. ASSUME row[d].toHolding, NEW l \in Landings PROVE meters[l] = 0
      BY <1>4, <3>1, <3>2 DEF NotYetDrained
    <3>. QED
      <4>. HIDE DEF meters, r
      <4>. QED  BY <1>3, <1>4, <3>1, <3>2 DEF NotYetDrained
  <2>. QED  BY <1>3, <1>6, <2>1, <2>2 DEF DumpFits
<1>8. WindowClosed' /\ dumpEnded' \in BOOLEAN  BY <1>3, <1>4, WindowKept DEF Ended
<1>. DEFINE p == pc[d]  ln == lane[d]  on == copies[d]
<1>9. row' = [row EXCEPT ![d] = r] /\ pc' = [pc EXCEPT ![d] = p]
      /\ lane' = [lane EXCEPT ![d] = ln] /\ copies' = [copies EXCEPT ![d] = on]
      /\ r \in Row /\ p \in DumpStates /\ ln \in [Landings -> Lanes] /\ on \in SUBSET Landings
      /\ DumpFits(r, p, ln, on)
  <2>. HIDE DEF r, meters
  <2>. QED  BY <1>3, <1>4, <1>5, <1>7, RowParts
<1>. HIDE DEF r, p, ln, on
<1>. QED  BY <1>8, <1>9, OneDumpMoves

\* A drop trips its landing, and the row says nothing of it.
LEMMA DropLaneKeeps ==
    ASSUME StatusAssumption, StatusIInv, NEW d \in DLEs, NEW l \in Landings, DropLane(d, l)
    PROVE  StatusIInv'
<1>. DEFINE ln == [lane[d] EXCEPT ![l] = "broken"]
<1>1. ln \in [Landings -> Lanes]  BY RowParts DEF Lanes
<1>2. lane' = [lane EXCEPT ![d] = ln] /\ UNCHANGED <<row, pc, copies, dumpEnded>>
      /\ pc[d] = "dumping" /\ lane[d][l] = "direct"
  BY DEF DropLane
<1>3. row' = [row EXCEPT ![d] = row[d]] /\ pc' = [pc EXCEPT ![d] = pc[d]]
      /\ copies' = [copies EXCEPT ![d] = copies[d]]
  BY <1>2 DEF StatusIInv, StatusTyped
<1>4. ~row[d].holding /\ ~row[d].toHolding
  BY <1>2, RowParts DEF DumpFits, RowTells, NotYetDrained
<1>5. DumpFits(row[d], pc[d], ln, copies[d])
  BY <1>2, <1>4, RowParts DEF DumpFits, RowTells, NotYetDrained
<1>6. WindowClosed' /\ dumpEnded' \in BOOLEAN  BY <1>2, <1>3, WindowKept
<1>. DEFINE r == row[d]  p == pc[d]  on == copies[d]
<1>7. row' = [row EXCEPT ![d] = r] /\ pc' = [pc EXCEPT ![d] = p]
      /\ lane' = [lane EXCEPT ![d] = ln] /\ copies' = [copies EXCEPT ![d] = on]
      /\ r \in Row /\ p \in DumpStates /\ ln \in [Landings -> Lanes] /\ on \in SUBSET Landings
      /\ DumpFits(r, p, ln, on)
  <2>. HIDE DEF ln
  <2>. QED  BY <1>1, <1>2, <1>3, <1>5, RowParts
<1>. HIDE DEF r, p, ln, on
<1>. QED  BY <1>6, <1>7, OneDumpMoves

LEMMA CommitStagedKeeps ==
    ASSUME StatusAssumption, StatusIInv, NEW d \in DLEs, CommitStaged(d)
    PROVE  StatusIInv'
<1>. DEFINE drains == {l \in Landings : lane[d][l] = "queued"} \ tripped
            r == [row[d] EXCEPT !.holding = TRUE, !.out = ArchiveSize]
            ln == [l \in Landings |-> IF l \in drains THEN "queued" ELSE "none"]
<1>1. ArchiveSize \in 0 .. ArchiveSize  BY DEF StatusAssumption
<1>2. r \in Row /\ r.state = row[d].state /\ r.holding /\ r.out = ArchiveSize
      /\ r.drained = row[d].drained /\ r.toHolding = row[d].toHolding
  BY RowParts, <1>1 DEF Row
<1>3. ln \in [Landings -> Lanes]  BY DEF Lanes
<1>4. row' = [row EXCEPT ![d] = r] /\ pc' = [pc EXCEPT ![d] = "returning"]
      /\ lane' = [lane EXCEPT ![d] = ln] /\ copies' = copies /\ dumpEnded' = dumpEnded
      /\ pc[d] = "dumping" /\ row[d].toHolding
  BY DEF CommitStaged, Set
<1>5. copies' = [copies EXCEPT ![d] = copies[d]]  BY <1>4 DEF StatusIInv, StatusTyped
<1>6. copies[d] = {} /\ \A l \in Landings : row[d].drained[l] = 0
  BY <1>4, RowParts DEF DumpFits, NotYetDrained
<1>7. DumpFits(r, "returning", ln, copies[d])
  <2>1. \A l \in Landings : ln[l] \in {"none", "queued"}  OBVIOUS
  <2>. HIDE DEF r, ln
  <2>. QED  BY <1>2, <1>6, <2>1 DEF DumpFits, RowTells, NotYetDrained, LaneMetered
<1>8. WindowClosed' /\ dumpEnded' \in BOOLEAN  BY <1>2, <1>4, WindowKept DEF Ended
<1>. HIDE DEF r, ln
<1>. QED  BY <1>2, <1>3, <1>4, <1>5, <1>7, <1>8, RowParts, OneDumpMoves DEF DumpStates

LEMMA CommitDirectKeeps ==
    ASSUME StatusAssumption, StatusIInv, NEW d \in DLEs, CommitDirect(d)
    PROVE  StatusIInv'
<1>. DEFINE on == {l \in Landings : lane[d][l] = "direct"}
            meters == [l \in Landings |-> IF l \in on /\ row[d].drained[l] > 0 THEN ArchiveSize
                                          ELSE row[d].drained[l]]
            r == [row[d] EXCEPT !.out = ArchiveSize, !.drained = meters]
            ln == [l \in Landings |-> "none"]
<1>1. ArchiveSize \in 0 .. ArchiveSize  BY DEF StatusAssumption
<1>2. meters \in [Landings -> 0 .. ArchiveSize]  BY <1>1, RowParts
<1>3. r \in Row /\ r.state = row[d].state /\ r.holding = row[d].holding
  <2>. HIDE DEF meters
  <2>. QED  BY RowParts, <1>1, <1>2 DEF Row
<1>4. ln \in [Landings -> Lanes]  BY DEF Lanes
<1>5. row' = [row EXCEPT ![d] = r] /\ pc' = [pc EXCEPT ![d] = "returning"]
      /\ lane' = [lane EXCEPT ![d] = ln] /\ copies' = [copies EXCEPT ![d] = on]
      /\ dumpEnded' = dumpEnded /\ pc[d] = "dumping"
  BY DEF CommitDirect, Set
<1>6. ~r.holding  BY <1>3, <1>5, RowParts DEF DumpFits, RowTells
<1>7. DumpFits(r, "returning", ln, on)
  <2>. HIDE DEF r
  <2>. QED  BY <1>6 DEF DumpFits, RowTells, NotYetDrained
<1>8. WindowClosed' /\ dumpEnded' \in BOOLEAN  BY <1>3, <1>5, WindowKept DEF Ended
<1>9. on \in SUBSET Landings  OBVIOUS
<1>. HIDE DEF r, ln, on, meters
<1>. QED  BY <1>3, <1>4, <1>5, <1>7, <1>8, <1>9, RowParts, OneDumpMoves DEF DumpStates

LEMMA FinishDLEKeeps ==
    ASSUME StatusAssumption, StatusIInv, NEW d \in DLEs, FinishDLE(d)
    PROVE  StatusIInv'
<1>. DEFINE r == [row[d] EXCEPT !.state = "done"]
<1>1. r \in Row /\ Ended(r) /\ r.holding = row[d].holding /\ r.out = row[d].out
      /\ r.drained = row[d].drained /\ r.toHolding = row[d].toHolding
  BY RowParts DEF Row, Ended
<1>2. SetAndMark(d, r) /\ pc' = [pc EXCEPT ![d] = "over"] /\ lane' = lane /\ copies' = copies
      /\ pc[d] = "returning"
  BY DEF FinishDLE
<1>3. lane' = [lane EXCEPT ![d] = lane[d]] /\ copies' = [copies EXCEPT ![d] = copies[d]]
  BY <1>2 DEF StatusIInv, StatusTyped
<1>4. row' = [row EXCEPT ![d] = r]  BY <1>2 DEF SetAndMark, Set
<1>5. DumpFits(r, "over", lane[d], copies[d])
  <2>. HIDE DEF r
  <2>. QED  BY <1>1, <1>2, RowParts DEF DumpFits, RowTells, NotYetDrained
<1>6. WindowClosed' /\ dumpEnded' \in BOOLEAN  BY <1>1, <1>2, WindowMarked
<1>. DEFINE ln == lane[d]  on == copies[d]
<1>7. row' = [row EXCEPT ![d] = r] /\ pc' = [pc EXCEPT ![d] = "over"]
      /\ lane' = [lane EXCEPT ![d] = ln] /\ copies' = [copies EXCEPT ![d] = on]
      /\ r \in Row /\ ln \in [Landings -> Lanes] /\ on \in SUBSET Landings
      /\ "over" \in DumpStates /\ DumpFits(r, "over", ln, on)
  <2>. HIDE DEF r
  <2>. QED  BY <1>1, <1>2, <1>3, <1>4, <1>5, RowParts DEF DumpStates
<1>. HIDE DEF r, ln, on
<1>. QED  BY <1>6, <1>7, OneDumpMoves

\* The drains' actions: of a staged archive, whose dump is over.
LEMMA StagedIsOver ==
    ASSUME StatusIInv, NEW d \in DLEs, row[d].holding
    PROVE  /\ pc[d] \in {"returning", "over"} /\ row[d].out = ArchiveSize
           /\ \A l \in Landings : LaneMetered(row[d].drained[l], lane[d][l], l \in copies[d])
BY RowParts DEF DumpFits, RowTells

LEMMA DrainMoves ==
    ASSUME StatusIInv, NEW d \in DLEs, row[d].holding,
           NEW r \in Row, NEW ln \in [Landings -> Lanes], NEW on \in SUBSET Landings,
           r.holding, r.out = ArchiveSize,
           row' = [row EXCEPT ![d] = r], pc' = pc,
           lane' = [lane EXCEPT ![d] = ln], copies' = [copies EXCEPT ![d] = on],
           \A l \in Landings : LaneMetered(r.drained[l], ln[l], l \in on),
           dumpEnded' \in BOOLEAN, WindowClosed'
    PROVE  StatusIInv'
<1>. DEFINE p == pc[d]
<1>1. pc' = [pc EXCEPT ![d] = p] /\ p \in DumpStates
  BY DEF StatusIInv, StatusTyped
<1>2. p \in {"returning", "over"}  BY StagedIsOver
<1>3. DumpFits(r, p, ln, on)
  <2>. HIDE DEF p
  <2>. QED  BY <1>2 DEF DumpFits, RowTells, NotYetDrained
<1>. HIDE DEF p
<1>. QED  BY <1>1, <1>3, OneDumpMoves

\* A lane that is copying, void or counted is a staged archive's.
LEMMA CopiesAreStaged ==
    ASSUME StatusIInv, NEW d \in DLEs, NEW l \in Landings,
           lane[d][l] \in {"copying", "void", "counted"}
    PROVE  row[d].holding
BY RowParts DEF DumpFits, NotYetDrained

\* What a row, lanes and copies become when nothing else of them does.
LEMMA Unmoved ==
    ASSUME StatusIInv, NEW d \in DLEs
    PROVE  /\ row = [row EXCEPT ![d] = row[d]] /\ lane = [lane EXCEPT ![d] = lane[d]]
           /\ copies = [copies EXCEPT ![d] = copies[d]]
BY DEF StatusIInv, StatusTyped

LEMMA StartFlushKeeps ==
    ASSUME StatusAssumption, StatusIInv, NEW d \in DLEs, NEW l \in Landings, StartFlush(d, l)
    PROVE  StatusIInv'
<1>. DEFINE r == [row[d] EXCEPT !.state = "flushing"]
            ln == [lane[d] EXCEPT ![l] = "copying"]
            on == copies[d]
<1>1. /\ SetAndMark(d, r) /\ pc' = pc /\ lane' = [lane EXCEPT ![d] = ln] /\ copies' = copies
      /\ row[d].holding /\ lane[d][l] = "queued"
  BY DEF StartFlush, Delivered
<1>2. r \in Row /\ Ended(r) /\ r.holding /\ r.out = ArchiveSize /\ r.drained = row[d].drained
  BY <1>1, RowParts, StagedIsOver DEF Row, Ended
<1>3. ln \in [Landings -> Lanes]  BY RowParts DEF Lanes
<1>4. row' = [row EXCEPT ![d] = r] /\ copies' = [copies EXCEPT ![d] = on]
  BY <1>1, Unmoved DEF SetAndMark, Set
<1>5. \A x \in Landings : LaneMetered(r.drained[x], ln[x], x \in on)
  <2>. TAKE x \in Landings
  <2>1. LaneMetered(row[d].drained[x], lane[d][x], x \in copies[d])  BY <1>1, StagedIsOver
  <2>2. ln[x] = IF x = l THEN "copying" ELSE lane[d][x]  BY RowParts
  <2>. HIDE DEF r, ln
  <2>. QED  BY <1>1, <1>2, <2>1, <2>2 DEF LaneMetered
<1>6. WindowClosed' /\ dumpEnded' \in BOOLEAN  BY <1>1, <1>2, WindowMarked
<1>7. on \in SUBSET Landings  BY RowParts
<1>. HIDE DEF r, ln, on
<1>. QED  BY <1>1, <1>2, <1>3, <1>4, <1>5, <1>6, <1>7, DrainMoves

LEMMA AddDrainBytesKeeps ==
    ASSUME StatusAssumption, StatusIInv, NEW d \in DLEs, NEW l \in Landings, AddDrainBytes(d, l)
    PROVE  StatusIInv'
<1>. DEFINE meters == [row[d].drained EXCEPT ![l] = 1]
            r == [row[d] EXCEPT !.drained = meters]
            ln == lane[d]
            on == copies[d]
<1>1. /\ row' = [row EXCEPT ![d] = r] /\ UNCHANGED <<pc, lane, copies, dumpEnded>>
      /\ lane[d][l] = "copying"
  BY RowParts DEF AddDrainBytes, Set, world, Row
<1>2. row[d].holding  BY <1>1, CopiesAreStaged
<1>3. 1 \in 0 .. ArchiveSize  BY DEF StatusAssumption
<1>4. meters \in [Landings -> 0 .. ArchiveSize]
      /\ \A x \in Landings : meters[x] = IF x = l THEN 1 ELSE row[d].drained[x]
  BY <1>3, RowParts
<1>5. r \in Row /\ r.state = row[d].state /\ r.holding /\ r.out = ArchiveSize /\ r.drained = meters
  <2>. HIDE DEF meters
  <2>. QED  BY <1>2, <1>4, RowParts, StagedIsOver DEF Row
<1>6. lane' = [lane EXCEPT ![d] = ln] /\ copies' = [copies EXCEPT ![d] = on]
  BY <1>1, Unmoved
<1>7. \A x \in Landings : LaneMetered(r.drained[x], ln[x], x \in on)
  <2>. TAKE x \in Landings
  <2>1. LaneMetered(row[d].drained[x], lane[d][x], x \in copies[d])  BY <1>2, StagedIsOver
  <2>. HIDE DEF meters, r
  <2>. QED  BY <1>1, <1>4, <1>5, <2>1 DEF LaneMetered
<1>8. WindowClosed' /\ dumpEnded' \in BOOLEAN
  <2>. HIDE DEF r
  <2>. QED  BY <1>1, <1>5, WindowKept DEF Ended
<1>9. ln \in [Landings -> Lanes] /\ on \in SUBSET Landings  BY RowParts
<1>10. row' = [row EXCEPT ![d] = r] /\ pc' = pc  BY <1>1
<1>. HIDE DEF r, ln, on, meters
<1>. QED  BY <1>2, <1>5, <1>6, <1>7, <1>8, <1>9, <1>10, DrainMoves

LEMMA DrainLandsKeeps ==
    ASSUME StatusAssumption, StatusIInv, NEW d \in DLEs, NEW l \in Landings, DrainLands(d, l)
    PROVE  StatusIInv'
<1>. DEFINE r == row[d]
            ln == [lane[d] EXCEPT ![l] = "void"]
            on == copies[d] \cup {l}
<1>1. /\ UNCHANGED <<row, pc, dumpEnded>> /\ lane' = [lane EXCEPT ![d] = ln]
      /\ copies' = [copies EXCEPT ![d] = on] /\ lane[d][l] = "copying" /\ row[d].drained[l] > 0
  BY DEF DrainLands, snap
<1>2. row[d].holding  BY <1>1, CopiesAreStaged
<1>3. ln \in [Landings -> Lanes] /\ on \in SUBSET Landings  BY RowParts DEF Lanes
<1>4. \A x \in Landings : LaneMetered(r.drained[x], ln[x], x \in on)
  <2>. TAKE x \in Landings
  <2>1. LaneMetered(row[d].drained[x], lane[d][x], x \in copies[d])  BY <1>2, StagedIsOver
  <2>2. ln[x] = IF x = l THEN "void" ELSE lane[d][x]  BY RowParts
  <2>3. x \in on <=> x = l \/ x \in copies[d]  OBVIOUS
  <2>. HIDE DEF ln, on
  <2>. QED  BY <1>1, <2>1, <2>2, <2>3 DEF LaneMetered
<1>5. row' = [row EXCEPT ![d] = r] /\ r \in Row /\ r.holding /\ r.out = ArchiveSize
  BY <1>1, <1>2, Unmoved, RowParts, StagedIsOver
<1>6. WindowClosed' /\ dumpEnded' \in BOOLEAN
  <2>. HIDE DEF r
  <2>1. Ended(row[d]) => Ended(r)  BY DEF r
  <2>. QED  BY <1>1, <1>5, <2>1, WindowKept
<1>7. pc' = pc /\ lane' = [lane EXCEPT ![d] = ln] /\ copies' = [copies EXCEPT ![d] = on]
  BY <1>1
<1>. HIDE DEF r, ln, on
<1>. QED  BY <1>2, <1>3, <1>4, <1>5, <1>6, <1>7, DrainMoves

LEMMA DrainFailsKeeps ==
    ASSUME StatusAssumption, StatusIInv, NEW d \in DLEs, NEW l \in Landings, DrainFails(d, l)
    PROVE  StatusIInv'
<1>. DEFINE r == row[d]
            ln == [lane[d] EXCEPT ![l] = "broken"]
            on == copies[d]
<1>1. /\ UNCHANGED <<row, pc, copies, dumpEnded>> /\ lane' = [lane EXCEPT ![d] = ln]
      /\ lane[d][l] = "copying"
  BY DEF DrainFails
<1>2. row[d].holding  BY <1>1, CopiesAreStaged
<1>3. ln \in [Landings -> Lanes] /\ on \in SUBSET Landings  BY RowParts DEF Lanes
<1>4. \A x \in Landings : LaneMetered(r.drained[x], ln[x], x \in on)
  <2>. TAKE x \in Landings
  <2>1. LaneMetered(row[d].drained[x], lane[d][x], x \in copies[d])  BY <1>2, StagedIsOver
  <2>2. ln[x] = IF x = l THEN "broken" ELSE lane[d][x]  BY RowParts
  <2>. HIDE DEF ln
  <2>. QED  BY <1>1, <2>1, <2>2 DEF LaneMetered
<1>5. row' = [row EXCEPT ![d] = r] /\ r \in Row /\ r.holding /\ r.out = ArchiveSize
      /\ copies' = [copies EXCEPT ![d] = on]
  BY <1>1, <1>2, Unmoved, RowParts, StagedIsOver
<1>6. WindowClosed' /\ dumpEnded' \in BOOLEAN
  <2>. HIDE DEF r
  <2>1. Ended(row[d]) => Ended(r)  BY DEF r
  <2>. QED  BY <1>1, <1>5, <2>1, WindowKept
<1>7. pc' = pc /\ lane' = [lane EXCEPT ![d] = ln]  BY <1>1
<1>. HIDE DEF r, ln, on
<1>. QED  BY <1>2, <1>3, <1>4, <1>5, <1>6, <1>7, DrainMoves

LEMMA VoidMeterKeeps ==
    ASSUME StatusAssumption, StatusIInv, NEW d \in DLEs, NEW l \in Landings, VoidMeter(d, l)
    PROVE  StatusIInv'
<1>. DEFINE meters == [row[d].drained EXCEPT ![l] = 0]
            r == [row[d] EXCEPT !.drained = meters]
            ln == [lane[d] EXCEPT ![l] = "void"]
            on == copies[d]
<1>1. /\ row' = [row EXCEPT ![d] = r] /\ UNCHANGED <<pc, copies, dumpEnded>>
      /\ lane' = [lane EXCEPT ![d] = ln] /\ lane[d][l] = "broken" /\ row[d].holding
  BY RowParts DEF VoidMeter, Set, Row
<1>2. 0 \in 0 .. ArchiveSize  BY DEF StatusAssumption
<1>3. meters \in [Landings -> 0 .. ArchiveSize]
      /\ \A x \in Landings : meters[x] = IF x = l THEN 0 ELSE row[d].drained[x]
  BY <1>2, RowParts
<1>4. r \in Row /\ r.state = row[d].state /\ r.holding /\ r.out = ArchiveSize /\ r.drained = meters
  <2>. HIDE DEF meters
  <2>. QED  BY <1>1, <1>3, RowParts, StagedIsOver DEF Row
<1>5. ln \in [Landings -> Lanes] /\ on \in SUBSET Landings  BY RowParts DEF Lanes
<1>6. \A x \in Landings : LaneMetered(r.drained[x], ln[x], x \in on)
  <2>. TAKE x \in Landings
  <2>1. LaneMetered(row[d].drained[x], lane[d][x], x \in copies[d])  BY <1>1, StagedIsOver
  <2>2. ln[x] = IF x = l THEN "void" ELSE lane[d][x]  BY RowParts
  <2>. HIDE DEF meters, r, ln
  <2>. QED  BY <1>1, <1>3, <1>4, <2>1, <2>2 DEF LaneMetered
<1>7. WindowClosed' /\ dumpEnded' \in BOOLEAN
  <2>. HIDE DEF r
  <2>. QED  BY <1>1, <1>4, WindowKept DEF Ended
<1>8. row' = [row EXCEPT ![d] = r] /\ pc' = pc /\ lane' = [lane EXCEPT ![d] = ln]
      /\ copies' = [copies EXCEPT ![d] = on]
  BY <1>1, Unmoved
<1>. HIDE DEF r, ln, on, meters
<1>. QED  BY <1>1, <1>4, <1>5, <1>6, <1>7, <1>8, DrainMoves

\* The last count settles the meters that moved, and no other.
LEMMA CountDrainKeeps ==
    ASSUME StatusAssumption, StatusIInv, NEW d \in DLEs, NEW l \in Landings, CountDrain(d, l)
    PROVE  StatusIInv'
<1>. DEFINE ln == [lane[d] EXCEPT ![l] = "counted"]
            on == copies[d]
            settled == [row[d] EXCEPT !.state = "done", !.drained = Settled(row[d])]
            r == IF left[d] = 1 /\ copies[d] # {} THEN settled ELSE row[d]
<1>1. /\ UNCHANGED <<pc, copies, dumpEnded>> /\ lane' = [lane EXCEPT ![d] = ln]
      /\ lane[d][l] = "void"
  BY DEF CountDrain
<1>2. row' = [row EXCEPT ![d] = r]
  <2>1. CASE left[d] = 1 /\ copies[d] # {}  BY <2>1 DEF CountDrain, Set
  <2>2. CASE ~(left[d] = 1 /\ copies[d] # {})  BY <2>2, Unmoved DEF CountDrain
  <2>. QED  BY <2>1, <2>2
<1>3. row[d].holding  BY <1>1, CopiesAreStaged
<1>4. row[d].out = ArchiveSize /\ ArchiveSize \in Nat /\ ArchiveSize > 0
  BY <1>3, StagedIsOver DEF StatusAssumption
<1>5. Settled(row[d]) \in [Landings -> 0 .. ArchiveSize]
      /\ \A x \in Landings : Settled(row[d])[x] > 0 <=> row[d].drained[x] > 0
  BY <1>4, RowParts DEF Settled
<1>6. settled \in Row /\ Ended(settled) /\ settled.holding /\ settled.out = ArchiveSize
      /\ settled.drained = Settled(row[d])
  BY <1>3, <1>4, <1>5, RowParts DEF Row, Ended
<1>7. r \in Row /\ r.holding /\ r.out = ArchiveSize /\ (Ended(row[d]) => Ended(r))
      /\ \A x \in Landings : /\ r.drained[x] \in 0 .. ArchiveSize
                             /\ r.drained[x] > 0 <=> row[d].drained[x] > 0
  <2>. HIDE DEF settled
  <2>. QED  BY <1>3, <1>4, <1>5, <1>6, RowParts
<1>8. ln \in [Landings -> Lanes] /\ on \in SUBSET Landings  BY RowParts DEF Lanes
<1>9. \A x \in Landings : LaneMetered(r.drained[x], ln[x], x \in on)
  <2>. TAKE x \in Landings
  <2>1. LaneMetered(row[d].drained[x], lane[d][x], x \in copies[d])  BY <1>3, StagedIsOver
  <2>2. ln[x] = IF x = l THEN "counted" ELSE lane[d][x]  BY RowParts
  <2>3. row[d].drained[x] \in 0 .. ArchiveSize /\ r.drained[x] \in 0 .. ArchiveSize
        /\ (r.drained[x] > 0 <=> row[d].drained[x] > 0)
    BY <1>7, RowParts
  <2>. HIDE DEF r, ln
  <2>. QED  BY <1>1, <1>4, <2>1, <2>2, <2>3 DEF LaneMetered
<1>10. WindowClosed' /\ dumpEnded' \in BOOLEAN
  <2>. HIDE DEF r
  <2>. QED  BY <1>1, <1>2, <1>7, WindowKept
<1>11. pc' = pc /\ lane' = [lane EXCEPT ![d] = ln] /\ copies' = [copies EXCEPT ![d] = on]
  BY <1>1, Unmoved
<1>. HIDE DEF r, ln, on
<1>. QED  BY <1>2, <1>3, <1>7, <1>8, <1>9, <1>10, <1>11, DrainMoves

-----------------------------------------------------------------------------
\* A step that leaves rows, dumps, lanes, copies and the window alone.
LEMMA StillStatus ==
    ASSUME StatusIInv, UNCHANGED <<row, pc, lane, copies, dumpEnded>>
    PROVE  StatusIInv'
BY DEF StatusIInv, StatusTyped, WindowClosed

LEMMA StatusInductive ==
    ASSUME StatusAssumption, StatusIInv, [StatusNext]_statusVars
    PROVE  StatusIInv'
<1>1. ASSUME NEW S \in SUBSET Unusable, OpenLandings(S) PROVE StatusIInv'
  BY <1>1, StillStatus DEF OpenLandings, world
<1>2. ASSUME NEW d \in DLEs, NEW onDisk \in BOOLEAN, Acquire(d, onDisk) PROVE StatusIInv'
  BY <1>2, AcquireKeeps
<1>3. ASSUME NEW d \in DLEs,
             \/ FailDump(d) \/ NotStarted(d) \/ StartDLE(d) \/ AddBytes(d)
             \/ CommitStaged(d) \/ CommitDirect(d) \/ FinishDLE(d)
      PROVE  StatusIInv'
  BY <1>3, FailDumpKeeps, NotStartedKeeps, StartDLEKeeps, AddBytesKeeps, CommitStagedKeeps,
     CommitDirectKeeps, FinishDLEKeeps
<1>4. ASSUME NEW d \in DLEs, NEW l \in Landings,
             \/ DropLane(d, l) \/ StartFlush(d, l) \/ AddDrainBytes(d, l) \/ DrainLands(d, l)
             \/ DrainFails(d, l) \/ VoidMeter(d, l) \/ CountDrain(d, l)
      PROVE  StatusIInv'
  BY <1>4, DropLaneKeeps, StartFlushKeeps, AddDrainBytesKeeps, DrainLandsKeeps, DrainFailsKeeps,
     VoidMeterKeeps, CountDrainKeeps
<1>5. CASE Cancel \/ Seal \/ EndRun
  BY <1>5, StillStatus DEF Cancel, Seal, EndRun, snap, world
<1>6. CASE UNCHANGED statusVars
  BY <1>6, StillStatus DEF statusVars, snap, world
<1>. QED  BY <1>1, <1>2, <1>3, <1>4, <1>5, <1>6 DEF StatusNext

LEMMA StatusAlways == ASSUME StatusAssumption PROVE StatusSpec => []StatusIInv
<1>1. StatusInit => StatusIInv  BY StatusStarts
<1>2. StatusIInv /\ [StatusNext]_statusVars => StatusIInv'  BY StatusInductive
<1>. QED  BY <1>1, <1>2, PTL DEF StatusSpec

\* For any DLEs, landing lists, holding disks and sizes: the meter of every landing a staged
\* archive was owed to tells, once its drains are counted, whether the landing has it, whatever
\* the order the dumps and the drains reported in (tracker.go, spool.go).
THEOREM MetersAlwaysTell == ASSUME StatusAssumption PROVE StatusSpec => []MetersTellCopies
<1>1. StatusIInv => MetersTellCopies
  <2>. SUFFICES ASSUME StatusIInv, NEW d \in Staged, NEW l \in Landings,
                       lane[d][l] \in {"none", "counted"}
                PROVE  row[d].drained[l] > 0 <=> l \in copies[d]
    BY DEF MetersTellCopies
  <2>1. d \in DLEs /\ row[d].holding  BY DEF Staged, Drains
  <2>2. LaneMetered(row[d].drained[l], lane[d][l], l \in copies[d])  BY <2>1, StagedIsOver
  <2>. QED  BY <2>2 DEF LaneMetered
<1>. QED  BY <1>1, StatusAlways, PTL

\* For any DLEs, landing lists, holding disks and sizes: once the dump window is closed it stays
\* closed, and no dump is pending or runs after it (markDumpEndIfDone, tracker.go).
THEOREM DumpsAlwaysStayEnded == ASSUME StatusAssumption PROVE StatusSpec => DumpsStayEnded
<1>1. ASSUME StatusIInv, StatusIInv', StatusNext, dumpEnded
      PROVE  dumpEnded' /\ \A d \in DLEs : row'[d].state \notin {"pending", "dumping"}
  <2>1. ASSUME \E S \in SUBSET Unusable : OpenLandings(S) PROVE dumpEnded'
    BY <1>1, <2>1 DEF OpenLandings, world
  <2>2. ASSUME NEW d \in DLEs, FailDump(d) \/ FinishDLE(d) \/ \E l \in Landings : StartFlush(d, l)
        PROVE  dumpEnded'
    <3>1. \A r : SetAndMark(d, r) => dumpEnded'  BY <1>1 DEF SetAndMark, MarkDumpEnd
    <3>. QED  BY <2>2, <3>1 DEF FailDump, FinishDLE, StartFlush
  <2>3. ASSUME NEW d \in DLEs,
               \/ \E onDisk \in BOOLEAN : Acquire(d, onDisk)
               \/ NotStarted(d) \/ StartDLE(d) \/ AddBytes(d) \/ CommitStaged(d) \/ CommitDirect(d)
        PROVE  dumpEnded'
    BY <1>1, <2>3 DEF Acquire, NotStarted, StartDLE, AddBytes, CommitStaged, CommitDirect, snap
  <2>4. ASSUME NEW d \in DLEs, NEW l \in Landings,
               \/ DropLane(d, l) \/ AddDrainBytes(d, l) \/ DrainLands(d, l)
               \/ DrainFails(d, l) \/ VoidMeter(d, l) \/ CountDrain(d, l)
        PROVE  dumpEnded'
    BY <1>1, <2>4 DEF DropLane, AddDrainBytes, DrainLands, DrainFails, VoidMeter, CountDrain, snap
  <2>5. ASSUME Cancel \/ Seal \/ EndRun PROVE dumpEnded'
    BY <1>1, <2>5 DEF Cancel, Seal, EndRun, snap, world
  <2>6. dumpEnded'  BY <1>1, <2>1, <2>2, <2>3, <2>4, <2>5 DEF StatusNext
  <2>. QED  BY <1>1, <2>6 DEF StatusIInv, WindowClosed
<1>2. StatusIInv /\ StatusIInv' /\ [StatusNext]_statusVars =>
        [dumpEnded => dumpEnded' /\ \A d \in DLEs : row'[d].state \notin {"pending", "dumping"}]_statusVars
  BY <1>1
<1>. QED  BY <1>2, StatusAlways, PTL DEF StatusSpec, DumpsStayEnded

-----------------------------------------------------------------------------
\* Folds over finite sets: SkipLandings is one, and so is every total of a status.

\* A set of naturals that is not empty has a least member.
LEMMA Least ==
    ASSUME NEW S \in SUBSET Nat, S # {}
    PROVE  \E m \in S : \A k \in S : m <= k
<1>1. IsWellFoundedOn(OpToRel(<, Nat), Nat)  BY NatLessThanWellFounded
<1>2. PICK m \in S : \A k \in S : <<k, m>> \notin OpToRel(<, Nat)  BY <1>1, WFMin
<1>3. ASSUME NEW k \in S PROVE m <= k
  <2>1. ~(k < m) /\ k \in Nat /\ m \in Nat  BY <1>2 DEF OpToRel
  <2>. QED  BY <2>1
<1>. QED  BY <1>3

\* A property of every subset of a finite set, from that of the smaller ones.
LEMMA BySubsets ==
    ASSUME NEW S, IsFiniteSet(S), NEW G,
           \A u \in SUBSET S : (\A v \in SUBSET u : v # u => v \in G) => u \in G
    PROVE  \A u \in SUBSET S : u \in G
<1>. DEFINE Bad == {u \in SUBSET S : u \notin G}
            sizes == {Cardinality(u) : u \in Bad}
<1>. SUFFICES ASSUME Bad # {} PROVE FALSE  OBVIOUS
<1>1. \A u \in SUBSET S : IsFiniteSet(u) /\ Cardinality(u) \in Nat
  BY FS_Subset, FS_CardinalityType
<1>2. sizes \in SUBSET Nat /\ sizes # {}  BY <1>1
<1>3. PICK k \in sizes : \A j \in sizes : k <= j
  <2>. HIDE DEF sizes
  <2>. QED  BY <1>2, Least
<1>4. PICK u \in Bad : k = Cardinality(u)  OBVIOUS
<1>5. ASSUME NEW v \in SUBSET u, v # u PROVE v \in G
  <2>1. v \in SUBSET S /\ Cardinality(v) < Cardinality(u)
    BY <1>1, <1>4, <1>5, FS_Subset
  <2>2. v \in Bad => Cardinality(v) \in sizes  OBVIOUS
  <2>3. Cardinality(v) \in Nat /\ k \in Nat  BY <1>1, <1>2, <2>1
  <2>. HIDE DEF sizes
  <2>4. v \notin Bad  BY <1>3, <1>4, <2>1, <2>2, <2>3
  <2>. QED  BY <2>1, <2>4
<1>. QED  BY <1>4, <1>5

One(u) == CHOOSE x \in u : TRUE
Rest(u) == u \ {One(u)}

LEMMA RestIsLess == ASSUME NEW u, u # {} PROVE One(u) \in u /\ Rest(u) \in SUBSET u /\ Rest(u) # u
BY DEF One, Rest

\* A fold is a function of the subsets that steps from the rest of each, whichever is picked
\* first; there is one.
Picks(S, pick) == \A u \in SUBSET S : u # {} => pick[u] \in u
FoldsBy(S, base, op, pick, f) ==
    \A u \in SUBSET S : f[u] = IF u = {} THEN base ELSE op[<<u, f[u \ {pick[u]}]>>]
Folds(S, base, op, f) ==
    \A u \in SUBSET S : f[u] = IF u = {} THEN base ELSE op[<<u, f[Rest(u)]>>]

LEMMA FoldByExists ==
    ASSUME NEW S, IsFiniteSet(S), NEW pick, Picks(S, pick), NEW V,
           NEW base \in V, NEW op \in [(SUBSET S) \X V -> V]
    PROVE  \E f \in [SUBSET S -> V] : FoldsBy(S, base, op, pick, f)
<1>. DEFINE Small(k) == {v \in SUBSET S : Cardinality(v) <= k}
            Upto(k, f) == /\ f \in [Small(k) -> V]
                          /\ \A u \in Small(k) : f[u] = IF u = {} THEN base ELSE op[<<u, f[u \ {pick[u]}]>>]
            Bad == {k \in Nat : ~\E f : Upto(k, f)}
<1>1. \A u \in SUBSET S : IsFiniteSet(u) /\ Cardinality(u) \in Nat
  BY FS_Subset, FS_CardinalityType
<1>2. ASSUME NEW u \in SUBSET S, u # {}
      PROVE  u \ {pick[u]} \in SUBSET S /\ Cardinality(u \ {pick[u]}) = Cardinality(u) - 1
  BY <1>1, <1>2, FS_RemoveElement DEF Picks
<1>3. Bad = {}
  <2>. SUFFICES ASSUME Bad # {} PROVE FALSE  OBVIOUS
  <2>1. PICK k \in Bad : \A j \in Bad : k <= j  BY Least
  <2>2. k # 0
    <3>1. Small(0) = {{}}  BY <1>1, FS_EmptySet
    <3>2. Upto(0, [u \in {{}} |-> base])  BY <3>1
    <3>. HIDE DEF Upto
    <3>3. \E f : Upto(0, f)  BY <3>2
    <3>. QED  BY <2>1, <3>3
  <2>3. k - 1 \in Nat /\ k - 1 \notin Bad
    <3>1. k \in Nat /\ k - 1 \in Nat /\ ~(k <= k - 1)  BY <2>1, <2>2
    <3>. HIDE DEF Bad
    <3>. QED  BY <2>1, <3>1
  <2>4. PICK f : Upto(k - 1, f)  BY <2>3
  <2>. DEFINE g == [u \in Small(k) |-> IF u = {} THEN base ELSE op[<<u, f[u \ {pick[u]}]>>]]
  <2>5. ASSUME NEW u \in Small(k), u # {} PROVE u \ {pick[u]} \in Small(k - 1) /\ u \ {pick[u]} \in Small(k)
    <3>1. u \in SUBSET S /\ Cardinality(u) \in Nat /\ k \in Nat /\ Cardinality(u) <= k
      BY <1>1, <2>1, <2>5
    <3>. QED  BY <1>2, <2>5, <3>1
  <2>6. \A v \in Small(k - 1) : v \in Small(k) /\ g[v] = f[v]
    <3>1. ASSUME NEW v \in Small(k - 1) PROVE v \in Small(k)
      BY <1>1, <2>1, <3>1
    <3>. QED  BY <2>4, <3>1
  <2>7. Upto(k, g)
    <3>1. ASSUME NEW u \in Small(k) PROVE g[u] \in V
      <4>1. CASE u = {}  BY <4>1
      <4>2. CASE u # {}
        <5>1. f[u \ {pick[u]}] \in V  BY <2>4, <2>5, <4>2
        <5>2. u \in SUBSET S  BY <3>1
        <5>3. g[u] = op[<<u, f[u \ {pick[u]}]>>]  BY <3>1, <4>2
        <5>. QED  BY <5>1, <5>2, <5>3
      <4>. QED  BY <4>1, <4>2
    <3>2. \A u \in Small(k) : u # {} => g[(u \ {pick[u]})] = f[u \ {pick[u]}]  BY <2>5, <2>6
    <3>. QED  BY <3>1, <3>2
  <2>8. \E h : Upto(k, h)
    <3>. HIDE DEF Upto
    <3>. QED  BY <2>7
  <2>. QED  BY <2>1, <2>8
<1>4. PICK f : Upto(Cardinality(S), f)  BY <1>1, <1>3
<1>5. Small(Cardinality(S)) = SUBSET S
  <2>1. ASSUME NEW u \in SUBSET S PROVE Cardinality(u) <= Cardinality(S)
    BY <2>1, FS_Subset
  <2>. QED  BY <2>1
<1>. QED  BY <1>4, <1>5 DEF FoldsBy

LEMMA FoldExists ==
    ASSUME NEW S, IsFiniteSet(S), NEW V, NEW base \in V, NEW op \in [(SUBSET S) \X V -> V]
    PROVE  \E f \in [SUBSET S -> V] : Folds(S, base, op, f)
<1>. DEFINE pick == [u \in SUBSET S |-> One(u)]
<1>1. \A u \in SUBSET S : (u # {} => pick[u] \in u) /\ u \ {pick[u]} = Rest(u)
  BY RestIsLess DEF Rest
<1>2. Picks(S, pick)  BY <1>1 DEF Picks
<1>. HIDE DEF pick
<1>3. PICK f \in [SUBSET S -> V] : FoldsBy(S, base, op, pick, f)  BY <1>2, FoldByExists
<1>4. ASSUME NEW u \in SUBSET S PROVE f[u] = IF u = {} THEN base ELSE op[<<u, f[Rest(u)]>>]
  BY <1>1, <1>3 DEF FoldsBy
<1>. QED  BY <1>4 DEF Folds

\* The greatest of a finite set of numbers.
LEMMA MaxIn ==
    ASSUME NEW S \in SUBSET Nat, IsFiniteSet(S), S # {}
    PROVE  Max(S) \in S /\ \A k \in S : k <= Max(S)
<1>. DEFINE G == {u \in SUBSET S : u # {} => \E m \in u : \A k \in u : m >= k}
<1>1. ASSUME NEW u \in SUBSET S, \A v \in SUBSET u : v # u => v \in G PROVE u \in G
  <2>. SUFFICES ASSUME u # {} PROVE \E m \in u : \A k \in u : m >= k
    OBVIOUS
  <2>1. PICK x \in u : TRUE  OBVIOUS
  <2>2. u \ {x} \in G  BY <1>1
  <2>3. CASE u \ {x} = {}  BY <2>1, <2>3
  <2>4. CASE u \ {x} # {}
    <3>1. PICK m \in u \ {x} : \A k \in u \ {x} : m >= k  BY <2>2, <2>4
    <3>2. m \in Nat /\ x \in Nat  BY <2>1, <3>1
    <3>3. CASE m >= x  BY <3>1, <3>3
    <3>4. CASE x >= m
      <4>1. \A k \in u \ {x} : k \in Nat  OBVIOUS
      <4>2. \A k \in u : x >= k  BY <3>1, <3>2, <3>4, <4>1
      <4>. QED  BY <2>1, <4>2
    <3>. QED  BY <3>2, <3>3, <3>4
  <2>. QED  BY <2>3, <2>4
<1>2. S \in G
  <2>. HIDE DEF G
  <2>. QED  BY <1>1, BySubsets
<1>3. \E m \in S : \A k \in S : m >= k  BY <1>2
<1>4. Max(S) \in S /\ \A k \in S : Max(S) >= k  BY <1>3 DEF Max
<1>. QED  BY <1>4

\* Two folds that pick alike and step alike are one.
StepsAs(S, base, op, pick, h, f) ==
    \A u \in SUBSET S :
      /\ u = {} => f[u] = base
      /\ u # {} /\ f[u \ {pick[u]}] = h[u \ {pick[u]}] => f[u] = op[<<u, h[u \ {pick[u]}]>>]

LEMMA FoldByIs ==
    ASSUME NEW S, IsFiniteSet(S), NEW pick, Picks(S, pick), NEW base, NEW op,
           NEW h, FoldsBy(S, base, op, pick, h), NEW f, StepsAs(S, base, op, pick, h, f)
    PROVE  f[S] = h[S]
<1>. DEFINE G == {u \in SUBSET S : f[u] = h[u]}
<1>1. ASSUME NEW u \in SUBSET S, \A v \in SUBSET u : v # u => v \in G PROVE u \in G
  <2>1. h[u] = IF u = {} THEN base ELSE op[<<u, h[u \ {pick[u]}]>>]  BY DEF FoldsBy
  <2>2. u # {} => f[u \ {pick[u]}] = h[u \ {pick[u]}]
    <3>1. u # {} => u \ {pick[u]} \in SUBSET u /\ u \ {pick[u]} # u  BY DEF Picks
    <3>. QED  BY <1>1, <3>1
  <2>. QED  BY <2>1, <2>2 DEF StepsAs
<1>2. S \in G
  <2>. HIDE DEF G
  <2>. QED  BY <1>1, BySubsets
<1>. QED  BY <1>2

-----------------------------------------------------------------------------
\* The landings skipped.

\* What a fold in ascending order picks from a set of numbers: the last of it.
Tops(S) == [u \in SUBSET S |-> Max(u)]

LEMMA TopsAreIn ==
    ASSUME NEW S \in SUBSET Nat, IsFiniteSet(S)
    PROVE  /\ Picks(S, Tops(S))
           /\ \A u \in SUBSET S : u # {} => Tops(S)[u] = Max(u) /\ Max(u) \in u
<1>. SUFFICES ASSUME NEW u \in SUBSET S, u # {} PROVE Max(u) \in u  BY DEF Tops, Picks
<1>1. IsFiniteSet(u) /\ u \in SUBSET Nat  BY FS_Subset
<1>. QED  BY <1>1, MaxIn

\* What SkipLanding keeps of a list, element by element.
Keep(l, ks, x) == IF x = l THEN ks ELSE Append(ks, x)
Kept(l, s) == FoldLeft(LAMBDA ks, x : IF x = l THEN ks ELSE Append(ks, x), <<>>, s)
KeptSteps(l, s, ks) ==
    /\ ks[0] = <<>> /\ \A i \in 1 .. Len(s) : ks[i] = Keep(l, ks[i - 1], s[i])
    /\ Kept(l, s) = ks[Len(s)]

LEMMA KeptUnfolds ==
    ASSUME NEW T, NEW s \in Seq(T), NEW l
    PROVE  \E ks \in [0 .. Len(s) -> Seq(T)] : KeptSteps(l, s, ks)
<1>. DEFINE D == DOMAIN s
            V == Seq(T)
            step(u, k) == Keep(l, k, s[Max(u)])
            op == [uk \in (SUBSET D) \X V |-> IF uk[1] = {} THEN <<>> ELSE step(uk[1], uk[2])]
            Steps(f) == f = [u \in SUBSET D |-> IF u = {} THEN <<>> ELSE step(u, f[u \ {Max(u)}])]
            g == CHOOSE f : Steps(f)
<1>1. D = 1 .. Len(s) /\ Len(s) \in Nat /\ D \in SUBSET Nat /\ IsFiniteSet(D) /\ <<>> \in V
  BY FS_Interval
<1>2. /\ Picks(D, Tops(D))
      /\ \A u \in SUBSET D : u # {} => Tops(D)[u] = Max(u) /\ Max(u) \in u
  BY <1>1, TopsAreIn
<1>3. \A u \in SUBSET D, k \in V : u # {} => step(u, k) \in V
  <2>1. \A u \in SUBSET D : u # {} => s[Max(u)] \in T  BY <1>2
  <2>. QED  BY <2>1 DEF Keep
<1>. HIDE DEF V, step, D
<1>4. op \in [(SUBSET D) \X V -> V]  BY <1>1, <1>3
<1>5. PICK h \in [SUBSET D -> V] : FoldsBy(D, <<>>, op, Tops(D), h)
  <2>. HIDE DEF op
  <2>. QED  BY <1>1, <1>2, <1>4, FoldByExists
<1>6. ASSUME NEW u \in SUBSET D
      PROVE  h[u] = IF u = {} THEN <<>> ELSE step(u, h[u \ {Max(u)}])
  <2>1. h[u] = IF u = {} THEN <<>> ELSE op[<<u, h[u \ {Tops(D)[u]}]>>]  BY <1>5 DEF FoldsBy
  <2>2. u # {} => op[<<u, h[u \ {Max(u)}]>>] = step(u, h[u \ {Max(u)}])
    <3>1. h[u \ {Max(u)}] \in V  BY <1>5
    <3>. QED  BY <3>1
  <2>. HIDE DEF op
  <2>. QED  BY <1>2, <2>1, <2>2
<1>7. Steps(g)
  <2>1. Steps(h)  BY <1>5, <1>6
  <2>. HIDE DEF Steps
  <2>. QED  BY <2>1
<1>8. Kept(l, s) = g[D]
  BY DEF Kept, FoldLeft, MapThenFoldSet, Keep, D, step
<1>. HIDE DEF g
<1>9. g[D] = h[D]
  <2>1. StepsAs(D, <<>>, op, Tops(D), h, g)
    <3>. SUFFICES ASSUME NEW u \in SUBSET D
                  PROVE  /\ u = {} => g[u] = <<>>
                         /\ u # {} /\ g[u \ {Tops(D)[u]}] = h[u \ {Tops(D)[u]}] =>
                              g[u] = op[<<u, h[u \ {Tops(D)[u]}]>>]
      BY DEF StepsAs
    <3>1. g[u] = IF u = {} THEN <<>> ELSE step(u, g[u \ {Max(u)}])  BY <1>7
    <3>2. h[u \ {Max(u)}] \in V  BY <1>5
    <3>. QED  BY <1>2, <3>1, <3>2
  <2>. HIDE DEF op
  <2>. QED  BY <1>1, <1>2, <1>5, <2>1, FoldByIs
<1>. DEFINE ks == [i \in 0 .. Len(s) |-> h[1 .. i]]
<1>10. \A i \in 0 .. Len(s) : 1 .. i \in SUBSET D  BY <1>1
<1>11. ks \in [0 .. Len(s) -> V]  BY <1>5, <1>10
<1>12. ks[0] = <<>>
  <2>1. 1 .. 0 = {} /\ 0 \in 0 .. Len(s)  BY <1>1
  <2>. QED  BY <1>6, <2>1
<1>13. ASSUME NEW i \in 1 .. Len(s) PROVE ks[i] = Keep(l, ks[i - 1], s[i])
  <2>1. i \in 0 .. Len(s) /\ i - 1 \in 0 .. Len(s) /\ i \in Nat /\ i > 0  BY <1>1
  <2>2. 1 .. i # {} /\ (1 .. i) \ {i} = 1 .. (i - 1)  BY <2>1
  <2>3. Max(1 .. i) = i
    <3>1. IsFiniteSet(1 .. i) /\ 1 .. i \in SUBSET Nat  BY <2>1, FS_Interval
    <3>2. i \in 1 .. i  BY <2>1
    <3>3. Max(1 .. i) \in 1 .. i /\ \A k \in 1 .. i : k <= Max(1 .. i)
      <4>. DEFINE S == 1 .. i
      <4>1. S \in SUBSET Nat /\ IsFiniteSet(S) /\ S # {}  BY <3>1, <3>2
      <4>. HIDE DEF S
      <4>2. Max(S) \in S /\ \A k \in S : k <= Max(S)  BY <4>1, MaxIn
      <4>. QED  BY <4>2 DEF S
    <3>. QED  BY <2>1, <3>2, <3>3
  <2>4. h[1 .. i] = step(1 .. i, h[1 .. (i - 1)])  BY <1>6, <1>10, <2>1, <2>2, <2>3
  <2>. QED  BY <2>1, <2>3, <2>4 DEF step
<1>14. Kept(l, s) = ks[Len(s)]  BY <1>1, <1>8, <1>9
<1>. HIDE DEF ks
<1>. QED  BY <1>11, <1>12, <1>13, <1>14 DEF KeptSteps, V

\* What is kept of the first elements keeps their order, loses none but l and adds none.
Filtered(l, s, i, k) ==
    /\ Len(k) <= i
    /\ \A m \in 1 .. i : s[m] # l => \E j \in 1 .. Len(k) : j <= m /\ k[j] = s[m]
    /\ \A j \in 1 .. Len(k) : \E m \in 1 .. i : k[j] = s[m]
    /\ (\A m \in 1 .. i : s[m] # l) => Len(k) = i /\ \A m \in 1 .. i : k[m] = s[m]

LEMMA KeepFilters ==
    ASSUME NEW T, NEW s \in Seq(T), NEW l, NEW i \in 1 .. Len(s),
           NEW k \in Seq(T), Filtered(l, s, i - 1, k)
    PROVE  Keep(l, k, s[i]) \in Seq(T) /\ Filtered(l, s, i, Keep(l, k, s[i]))
<1>1. i \in Nat /\ i - 1 \in Nat /\ Len(k) \in Nat /\ Len(k) <= i - 1 /\ s[i] \in T
      /\ 1 .. i = (1 .. (i - 1)) \cup {i}
  BY DEF Filtered
<1>2. CASE s[i] = l
  <2>1. Keep(l, k, s[i]) = k  BY <1>2 DEF Keep
  <2>2. Filtered(l, s, i, k)  BY <1>1, <1>2 DEF Filtered
  <2>. QED  BY <2>1, <2>2
<1>3. CASE s[i] # l
  <2>. DEFINE kk == Append(k, s[i])
  <2>1. Keep(l, k, s[i]) = kk  BY <1>3 DEF Keep
  <2>2. /\ kk \in Seq(T) /\ Len(kk) = Len(k) + 1 /\ kk[Len(k) + 1] = s[i]
        /\ \A j \in 1 .. Len(k) : kk[j] = k[j]
        /\ 1 .. Len(kk) = (1 .. Len(k)) \cup {Len(k) + 1}
    BY <1>1
  <2>. HIDE DEF kk
  <2>3. ASSUME NEW m \in 1 .. i, s[m] # l PROVE \E j \in 1 .. Len(kk) : j <= m /\ kk[j] = s[m]
    <3>1. CASE m = i  BY <1>1, <2>2, <3>1
    <3>2. CASE m # i
      <4>1. m \in 1 .. (i - 1)  BY <1>1, <3>2
      <4>2. PICK j \in 1 .. Len(k) : j <= m /\ k[j] = s[m]  BY <2>3, <4>1 DEF Filtered
      <4>. QED  BY <2>2, <4>2
    <3>. QED  BY <3>1, <3>2
  <2>4. ASSUME NEW j \in 1 .. Len(kk) PROVE \E m \in 1 .. i : kk[j] = s[m]
    <3>1. CASE j = Len(k) + 1  BY <1>1, <2>2, <3>1
    <3>2. CASE j \in 1 .. Len(k)
      <4>1. PICK m \in 1 .. (i - 1) : k[j] = s[m]  BY <3>2 DEF Filtered
      <4>. QED  BY <1>1, <2>2, <3>2, <4>1
    <3>. QED  BY <2>2, <3>1, <3>2
  <2>5. ASSUME \A m \in 1 .. i : s[m] # l
        PROVE  Len(kk) = i /\ \A m \in 1 .. i : kk[m] = s[m]
    <3>1. Len(k) = i - 1 /\ \A m \in 1 .. (i - 1) : k[m] = s[m]  BY <1>1, <2>5 DEF Filtered
    <3>2. Len(kk) = i  BY <1>1, <2>2, <3>1
    <3>3. ASSUME NEW m \in 1 .. i PROVE kk[m] = s[m]  BY <1>1, <2>2, <3>1, <3>3
    <3>. QED  BY <3>2, <3>3
  <2>6. Len(kk) <= i  BY <1>1, <2>2
  <2>. QED  BY <2>1, <2>2, <2>3, <2>4, <2>5, <2>6 DEF Filtered
<1>. QED  BY <1>2, <1>3

LEMMA KeptFacts ==
    ASSUME NEW T, NEW s \in Seq(T), NEW l
    PROVE  /\ Kept(l, s) \in Seq(T) /\ Filtered(l, s, Len(s), Kept(l, s))
           /\ (Len(s) > 0 /\ s[Len(s)] = l /\ \A m \in 1 .. (Len(s) - 1) : s[m] # l) =>
                Len(Kept(l, s)) = Len(s) - 1 /\ \A m \in 1 .. (Len(s) - 1) : Kept(l, s)[m] = s[m]
<1>1. PICK ks \in [0 .. Len(s) -> Seq(T)] : KeptSteps(l, s, ks)  BY KeptUnfolds
<1>. DEFINE Bad == {i \in 0 .. Len(s) : ~Filtered(l, s, i, ks[i])}
<1>2. Bad = {}
  <2>. SUFFICES ASSUME Bad # {} PROVE FALSE  OBVIOUS
  <2>1. PICK i \in Bad : \A j \in Bad : i <= j
    <3>1. Bad \in SUBSET Nat  OBVIOUS
    <3>. HIDE DEF Bad
    <3>. QED  BY <3>1, Least
  <2>2. i # 0
    <3>1. ks[0] = <<>>  BY <1>1 DEF KeptSteps
    <3>2. Filtered(l, s, 0, <<>>)  BY DEF Filtered
    <3>. QED  BY <2>1, <3>1, <3>2
  <2>3. i \in 1 .. Len(s) /\ i - 1 \in 0 .. Len(s) /\ ~(i <= i - 1)  BY <2>1, <2>2
  <2>4. Filtered(l, s, i - 1, ks[i - 1])
    <3>1. i - 1 \notin Bad
      <4>. HIDE DEF Bad
      <4>. QED  BY <2>1, <2>3
    <3>. QED  BY <2>3, <3>1
  <2>5. ks[i] = Keep(l, ks[i - 1], s[i])  BY <1>1, <2>3 DEF KeptSteps
  <2>6. ks[i - 1] \in Seq(T)  BY <1>1, <2>3
  <2>. QED  BY <2>1, <2>3, <2>4, <2>5, <2>6, KeepFilters
<1>3. Len(s) \in Nat /\ Len(s) \in 0 .. Len(s) /\ Kept(l, s) = ks[Len(s)]  BY <1>1 DEF KeptSteps
<1>4. ASSUME Len(s) > 0, s[Len(s)] = l, \A m \in 1 .. (Len(s) - 1) : s[m] # l
      PROVE  Len(Kept(l, s)) = Len(s) - 1 /\ \A m \in 1 .. (Len(s) - 1) : Kept(l, s)[m] = s[m]
  <2>1. Len(s) \in 1 .. Len(s) /\ Len(s) - 1 \in 0 .. Len(s)  BY <1>3, <1>4
  <2>2. ks[Len(s)] = ks[Len(s) - 1]  BY <1>1, <1>4, <2>1 DEF KeptSteps, Keep
  <2>3. Filtered(l, s, Len(s) - 1, ks[Len(s) - 1])  BY <1>2, <2>1
  <2>. QED  BY <1>3, <1>4, <2>2, <2>3 DEF Filtered
<1>. QED  BY <1>1, <1>2, <1>3, <1>4

\* The list after it is filtered in place: nothing moves right, nothing but l is lost, and when
\* only the last element of the slice is l, nothing moves at all.
Compacted(T, list, n, l, cut) ==
    /\ cut.list \in Seq(T) /\ Len(cut.list) = Len(list) /\ cut.len \in 0 .. n
    /\ \A i \in 1 .. Len(list) : list[i] # l =>
         \E j \in 1 .. Len(list) : j <= i /\ cut.list[j] = list[i] /\ (i <= n => j <= cut.len)
    /\ \A j \in 1 .. Len(list) : \E i \in 1 .. Len(list) : cut.list[j] = list[i]
    /\ (\A i \in 1 .. n : list[i] # l) => cut.list = list /\ cut.len = n
    /\ (n > 0 /\ list[n] = l /\ \A i \in 1 .. (n - 1) : list[i] # l) =>
         cut.list = list /\ cut.len = n - 1

LEMMA InPlaceCompacts ==
    ASSUME NEW T, NEW list \in Seq(T), NEW n \in 0 .. Len(list), NEW l
    PROVE  Compacted(T, list, n, l, InPlace(list, n, l))
<1>. DEFINE s == SubSeq(list, 1, n)
            k == Kept(l, s)
            tail == SubSeq(list, Len(k) + 1, Len(list))
            out == k \o tail
<1>1. s \in Seq(T) /\ Len(s) = n /\ \A i \in 1 .. n : s[i] = list[i]  OBVIOUS
<1>. HIDE DEF s
<1>2. InPlace(list, n, l) = [list |-> out, len |-> Len(k)]  BY DEF InPlace, Kept, s
<1>3. /\ k \in Seq(T) /\ Filtered(l, s, n, k)
      /\ (n > 0 /\ s[n] = l /\ \A m \in 1 .. (n - 1) : s[m] # l) =>
           Len(k) = n - 1 /\ \A m \in 1 .. (n - 1) : k[m] = s[m]
  BY <1>1, KeptFacts
<1>. HIDE DEF k
<1>4. Len(k) \in 0 .. n /\ Len(k) \in Nat /\ Len(k) <= Len(list)  BY <1>3 DEF Filtered
<1>5. /\ tail \in Seq(T) /\ Len(tail) = Len(list) - Len(k)
      /\ \A i \in 1 .. Len(tail) : tail[i] = list[Len(k) + i]
  BY <1>4
<1>. HIDE DEF tail
<1>6. /\ out \in Seq(T) /\ Len(out) = Len(list)
      /\ \A i \in 1 .. Len(list) : out[i] = IF i <= Len(k) THEN k[i] ELSE list[i]
  <2>1. out \in Seq(T) /\ Len(out) = Len(k) + Len(tail)  BY <1>3, <1>5
  <2>2. \A i \in 1 .. Len(list) : i > Len(k) => i - Len(k) \in 1 .. Len(tail) /\ Len(k) + (i - Len(k)) = i
    BY <1>4, <1>5
  <2>3. ASSUME NEW i \in 1 .. Len(list) PROVE out[i] = IF i <= Len(k) THEN k[i] ELSE list[i]
    <3>1. out[i] = IF i <= Len(k) THEN k[i] ELSE tail[i - Len(k)]  BY <1>3, <1>4, <1>5
    <3>2. i > Len(k) => tail[i - Len(k)] = list[Len(k) + (i - Len(k))]  BY <1>5, <2>2
    <3>. QED  BY <1>4, <2>2, <3>1, <3>2
  <2>. QED  BY <1>4, <1>5, <2>1, <2>3
<1>. HIDE DEF out
<1>7. ASSUME NEW i \in 1 .. Len(list), list[i] # l
      PROVE  \E j \in 1 .. Len(list) : j <= i /\ out[j] = list[i] /\ (i <= n => j <= Len(k))
  <2>1. CASE i <= n
    <3>1. i \in 1 .. n /\ s[i] = list[i]  BY <1>1, <2>1
    <3>2. PICK j \in 1 .. Len(k) : j <= i /\ k[j] = s[i]  BY <1>3, <1>7, <3>1 DEF Filtered
    <3>3. j \in 1 .. Len(list) /\ j <= Len(k)  BY <1>4
    <3>. QED  BY <1>6, <3>1, <3>2, <3>3
  <2>2. CASE ~(i <= n)
    <3>1. ~(i <= Len(k))  BY <1>4, <2>2
    <3>. QED  BY <1>6, <2>2, <3>1
  <2>. QED  BY <2>1, <2>2
<1>8. ASSUME NEW j \in 1 .. Len(list) PROVE \E i \in 1 .. Len(list) : out[j] = list[i]
  <2>1. CASE j <= Len(k)
    <3>1. j \in 1 .. Len(k)  BY <1>4, <2>1
    <3>2. PICK i \in 1 .. n : k[j] = s[i]  BY <1>3, <3>1 DEF Filtered
    <3>. QED  BY <1>1, <1>6, <2>1, <3>2
  <2>2. CASE ~(j <= Len(k))  BY <1>6, <2>2
  <2>. QED  BY <2>1, <2>2
<1>9. ASSUME \A m \in 1 .. Len(k) : k[m] = list[m] PROVE out = list
  BY <1>4, <1>6, <1>9, SeqEqual
<1>10. ASSUME \A i \in 1 .. n : list[i] # l PROVE out = list /\ Len(k) = n
  BY <1>1, <1>3, <1>9, <1>10 DEF Filtered
<1>11. ASSUME n > 0, list[n] = l, \A i \in 1 .. (n - 1) : list[i] # l
       PROVE  out = list /\ Len(k) = n - 1
  <2>1. n \in 1 .. n /\ \A i \in 1 .. (n - 1) : i \in 1 .. n  BY <1>11
  <2>2. Len(k) = n - 1 /\ \A m \in 1 .. (n - 1) : k[m] = s[m]  BY <1>1, <1>3, <1>11, <2>1
  <2>. QED  BY <1>1, <1>9, <2>1, <2>2
<1>. QED  BY <1>2, <1>4, <1>6, <1>7, <1>8, <1>10, <1>11 DEF Compacted

Routings == [array : [DOMAIN Arrays -> Seq(Landings)], span : [DLEs -> Nat]]

\* SkipLanding visits the rows, and skipLandings the landings, in ascending order.
RowFold(s, l, h) ==
    /\ h[{}] = s /\ h[DLEs] = SkipLanding(s, l)
    /\ \A u \in SUBSET DLEs : u # {} =>
         Max(u) \in u /\ h[u] = SkipRow(h[u \ {Max(u)}], Max(u), l)
LandingFold(S, h) ==
    /\ h[{}] = [array |-> array, span |-> span] /\ h[S] = SkipLandings(S)
    /\ \A u \in SUBSET S : u # {} =>
         Max(u) \in u /\ h[u] = SkipLanding(h[u \ {Max(u)}], Max(u))

LEMMA RowsUnfold ==
    ASSUME StatusAssumption, NEW V, NEW l, NEW s \in V,
           \A x \in V, d \in DLEs : SkipRow(x, d, l) \in V
    PROVE  \E h \in [SUBSET DLEs -> V] : RowFold(s, l, h)
<1>. DEFINE step(u, x) == SkipRow(x, Max(u), l)
            op == [ux \in (SUBSET DLEs) \X V |-> IF ux[1] = {} THEN s ELSE step(ux[1], ux[2])]
            Steps(f) == f = [u \in SUBSET DLEs |-> IF u = {} THEN s ELSE step(u, f[u \ {Max(u)}])]
            g == CHOOSE f : Steps(f)
<1>1. DLEs \in SUBSET Nat /\ IsFiniteSet(DLEs)  BY DEF StatusAssumption
<1>2. /\ Picks(DLEs, Tops(DLEs))
      /\ \A u \in SUBSET DLEs : u # {} => Tops(DLEs)[u] = Max(u) /\ Max(u) \in u
  BY <1>1, TopsAreIn
<1>3. \A u \in SUBSET DLEs, x \in V : u # {} => step(u, x) \in V  BY <1>2
<1>. HIDE DEF step
<1>4. op \in [(SUBSET DLEs) \X V -> V]  BY <1>3
<1>5. PICK h \in [SUBSET DLEs -> V] : FoldsBy(DLEs, s, op, Tops(DLEs), h)
  <2>. HIDE DEF op
  <2>. QED  BY <1>1, <1>2, <1>4, FoldByExists
<1>6. ASSUME NEW u \in SUBSET DLEs
      PROVE  h[u] = IF u = {} THEN s ELSE step(u, h[u \ {Max(u)}])
  <2>1. h[u] = IF u = {} THEN s ELSE op[<<u, h[u \ {Tops(DLEs)[u]}]>>]  BY <1>5 DEF FoldsBy
  <2>2. u # {} => op[<<u, h[u \ {Max(u)}]>>] = step(u, h[u \ {Max(u)}])
    <3>1. h[u \ {Max(u)}] \in V  BY <1>5
    <3>. QED  BY <3>1
  <2>. HIDE DEF op
  <2>. QED  BY <1>2, <2>1, <2>2
<1>7. Steps(g)
  <2>1. Steps(h)  BY <1>5, <1>6
  <2>. HIDE DEF Steps
  <2>. QED  BY <2>1
<1>8. SkipLanding(s, l) = g[DLEs]  BY DEF SkipLanding, MapThenFoldSet, step
<1>. HIDE DEF g
<1>9. g[DLEs] = h[DLEs]
  <2>1. StepsAs(DLEs, s, op, Tops(DLEs), h, g)
    <3>. SUFFICES ASSUME NEW u \in SUBSET DLEs
                  PROVE  /\ u = {} => g[u] = s
                         /\ u # {} /\ g[u \ {Tops(DLEs)[u]}] = h[u \ {Tops(DLEs)[u]}] =>
                              g[u] = op[<<u, h[u \ {Tops(DLEs)[u]}]>>]
      BY DEF StepsAs
    <3>1. g[u] = IF u = {} THEN s ELSE step(u, g[u \ {Max(u)}])  BY <1>7
    <3>2. h[u \ {Max(u)}] \in V  BY <1>5
    <3>. QED  BY <1>2, <3>1, <3>2
  <2>. HIDE DEF op
  <2>. QED  BY <1>1, <1>2, <1>5, <2>1, FoldByIs
<1>10. h[{}] = s  BY <1>6
<1>11. \A u \in SUBSET DLEs : u # {} => Max(u) \in u /\ h[u] = SkipRow(h[u \ {Max(u)}], Max(u), l)
  BY <1>2, <1>6 DEF step
<1>. QED  BY <1>5, <1>8, <1>9, <1>10, <1>11 DEF RowFold

LEMMA LandingsUnfold ==
    ASSUME StatusAssumption, NEW V, NEW S \in SUBSET Landings,
           [array |-> array, span |-> span] \in V,
           \A x \in V, l \in S : SkipLanding(x, l) \in V
    PROVE  \E h \in [SUBSET S -> V] : LandingFold(S, h)
<1>. DEFINE s == [array |-> array, span |-> span]
            step(u, x) == SkipLanding(x, Max(u))
            op == [ux \in (SUBSET S) \X V |-> IF ux[1] = {} THEN s ELSE step(ux[1], ux[2])]
            Steps(f) == f = [u \in SUBSET S |-> IF u = {} THEN s ELSE step(u, f[u \ {Max(u)}])]
            g == CHOOSE f : Steps(f)
<1>1. S \in SUBSET Nat /\ IsFiniteSet(S)  BY FS_Subset DEF StatusAssumption
<1>2. /\ Picks(S, Tops(S))
      /\ \A u \in SUBSET S : u # {} => Tops(S)[u] = Max(u) /\ Max(u) \in u
  BY <1>1, TopsAreIn
<1>3. \A u \in SUBSET S, x \in V : u # {} => step(u, x) \in V  BY <1>2
<1>. HIDE DEF step
<1>4. op \in [(SUBSET S) \X V -> V]  BY <1>3
<1>5. PICK h \in [SUBSET S -> V] : FoldsBy(S, s, op, Tops(S), h)
  <2>1. s \in V  OBVIOUS
  <2>. HIDE DEF op, s
  <2>. QED  BY <1>1, <1>2, <1>4, <2>1, FoldByExists
<1>6. ASSUME NEW u \in SUBSET S
      PROVE  h[u] = IF u = {} THEN s ELSE step(u, h[u \ {Max(u)}])
  <2>1. h[u] = IF u = {} THEN s ELSE op[<<u, h[u \ {Tops(S)[u]}]>>]  BY <1>5 DEF FoldsBy
  <2>2. u # {} => op[<<u, h[u \ {Max(u)}]>>] = step(u, h[u \ {Max(u)}])
    <3>1. h[u \ {Max(u)}] \in V  BY <1>5
    <3>. QED  BY <3>1
  <2>. HIDE DEF op
  <2>. QED  BY <1>2, <2>1, <2>2
<1>7. Steps(g)
  <2>1. Steps(h)  BY <1>5, <1>6
  <2>. HIDE DEF Steps
  <2>. QED  BY <2>1
<1>8. SkipLandings(S) = g[S]  BY DEF SkipLandings, MapThenFoldSet, step
<1>. HIDE DEF g
<1>9. g[S] = h[S]
  <2>1. StepsAs(S, s, op, Tops(S), h, g)
    <3>. SUFFICES ASSUME NEW u \in SUBSET S
                  PROVE  /\ u = {} => g[u] = s
                         /\ u # {} /\ g[u \ {Tops(S)[u]}] = h[u \ {Tops(S)[u]}] =>
                              g[u] = op[<<u, h[u \ {Tops(S)[u]}]>>]
      BY DEF StepsAs
    <3>1. g[u] = IF u = {} THEN s ELSE step(u, g[u \ {Max(u)}])  BY <1>7
    <3>2. h[u \ {Max(u)}] \in V  BY <1>5
    <3>. QED  BY <1>2, <3>1, <3>2
  <2>. HIDE DEF op, s
  <2>. QED  BY <1>1, <1>2, <1>5, <2>1, FoldByIs
<1>10. h[{}] = s  BY <1>6
<1>11. \A u \in SUBSET S : u # {} => Max(u) \in u /\ h[u] = SkipLanding(h[u \ {Max(u)}], Max(u))
  BY <1>2, <1>6 DEF step
<1>. QED  BY <1>5, <1>8, <1>9, <1>10, <1>11 DEF LandingFold

-----------------------------------------------------------------------------
\* What the filtering in place keeps, whichever landings it drops: lists of the same length and of
\* the config's own landings, and in every row's slice whatever is not dropped.
Shape(s, S) ==
    /\ s \in Routings
    /\ \A t \in DOMAIN Arrays :
         /\ Len(s.array[t]) = Len(Arrays[t])
         /\ \A j \in 1 .. Len(Arrays[t]) : \E i \in 1 .. Len(Arrays[t]) : s.array[t][j] = Arrays[t][i]
    /\ \A d \in DLEs :
         /\ s.span[d] <= Len(Arrays[TypeOf[d]])
         /\ \A i \in 1 .. Len(Arrays[TypeOf[d]]) : Arrays[TypeOf[d]][i] \notin S =>
              \E j \in 1 .. s.span[d] : s.array[TypeOf[d]][j] = Arrays[TypeOf[d]][i]

LEMMA SkipRowShape ==
    ASSUME StatusAssumption, NEW S, NEW s, Shape(s, S), NEW d \in DLEs, NEW l \in S
    PROVE  Shape(SkipRow(s, d, l), S)
<1>. DEFINE t == TypeOf[d]
            cut == InPlace(s.array[t], s.span[d], l)
            lists == [s.array EXCEPT ![t] = cut.list]
            spans == [s.span EXCEPT ![d] = cut.len]
<1>1. /\ t \in DOMAIN Arrays /\ s.array \in [DOMAIN Arrays -> Seq(Landings)] /\ s.span \in [DLEs -> Nat]
      /\ TypeOf \in [DLEs -> DOMAIN Arrays]
      /\ \A e \in DLEs : TypeOf[e] \in DOMAIN Arrays /\ s.span[e] \in Nat
      /\ \A x \in DOMAIN Arrays : Len(Arrays[x]) \in Nat /\ Arrays[x] \in Seq(Landings)
      /\ s.array[t] \in Seq(Landings) /\ s.span[d] \in 0 .. Len(s.array[t])
  <2>1. s \in Routings /\ TypeOf \in [DLEs -> DOMAIN Arrays]
        /\ \A x \in DOMAIN Arrays : Arrays[x] \in Seq(Landings)
    BY DEF StatusAssumption, Shape
  <2>2. s.array \in [DOMAIN Arrays -> Seq(Landings)] /\ s.span \in [DLEs -> Nat]
    BY <2>1 DEF Routings
  <2>3. s.span[d] <= Len(s.array[t])  BY <2>1 DEF Shape
  <2>. QED  BY <2>1, <2>2, <2>3
<1>2. SkipRow(s, d, l) = [array |-> lists, span |-> spans]  BY DEF SkipRow
<1>3. /\ cut.list \in Seq(Landings) /\ Len(cut.list) = Len(s.array[t]) /\ cut.len \in 0 .. s.span[d]
      /\ \A i \in 1 .. Len(s.array[t]) : s.array[t][i] # l =>
           \E j \in 1 .. Len(s.array[t]) : /\ j <= i /\ cut.list[j] = s.array[t][i]
                                           /\ i <= s.span[d] => j <= cut.len
      /\ \A j \in 1 .. Len(s.array[t]) : \E i \in 1 .. Len(s.array[t]) : cut.list[j] = s.array[t][i]
  <2>. DEFINE list == s.array[t]
              n == s.span[d]
  <2>1. list \in Seq(Landings) /\ n \in 0 .. Len(list)  BY <1>1
  <2>2. cut = InPlace(list, n, l)  OBVIOUS
  <2>. HIDE DEF list, n, cut
  <2>3. Compacted(Landings, list, n, l, cut)  BY <2>1, <2>2, InPlaceCompacts
  <2>. QED  BY <2>3 DEF Compacted, list, n
<1>. HIDE DEF cut
<1>4. lists \in [DOMAIN Arrays -> Seq(Landings)] /\ lists[t] = cut.list
      /\ \A x \in DOMAIN Arrays : x # t => lists[x] = s.array[x]
  BY <1>1, <1>3
<1>5. spans \in [DLEs -> Nat] /\ spans[d] = cut.len /\ \A e \in DLEs : e # d => spans[e] = s.span[e]
  BY <1>1, <1>3
<1>. HIDE DEF lists, spans
<1>6. ASSUME NEW x \in DOMAIN Arrays
      PROVE  /\ Len(lists[x]) = Len(Arrays[x])
             /\ \A j \in 1 .. Len(Arrays[x]) : \E i \in 1 .. Len(Arrays[x]) : lists[x][j] = Arrays[x][i]
  <2>1. Len(s.array[x]) = Len(Arrays[x])
        /\ \A j \in 1 .. Len(Arrays[x]) : \E i \in 1 .. Len(Arrays[x]) : s.array[x][j] = Arrays[x][i]
    BY DEF Shape
  <2>2. CASE x = t
    <3>0. lists[x] = cut.list /\ s.array[x] = s.array[t] /\ Len(s.array[t]) = Len(Arrays[x])
      BY <1>4, <2>1, <2>2
    <3>1. Len(lists[x]) = Len(Arrays[x])  BY <1>3, <3>0
    <3>2. ASSUME NEW j \in 1 .. Len(Arrays[x]) PROVE \E i \in 1 .. Len(Arrays[x]) : lists[x][j] = Arrays[x][i]
      <4>0. j \in 1 .. Len(s.array[t])  BY <3>0, <3>2
      <4>1. PICK k \in 1 .. Len(s.array[t]) : cut.list[j] = s.array[t][k]  BY <1>3, <4>0
      <4>. QED  BY <2>1, <3>0, <4>1
    <3>. QED  BY <3>1, <3>2
  <2>3. CASE x # t  BY <1>4, <2>1, <2>3
  <2>. QED  BY <2>2, <2>3
<1>7. ASSUME NEW e \in DLEs
      PROVE  /\ spans[e] <= Len(Arrays[TypeOf[e]])
             /\ \A i \in 1 .. Len(Arrays[TypeOf[e]]) : Arrays[TypeOf[e]][i] \notin S =>
                  \E j \in 1 .. spans[e] : lists[TypeOf[e]][j] = Arrays[TypeOf[e]][i]
  <2>1. /\ s.span[e] <= Len(Arrays[TypeOf[e]]) /\ s.span[e] \in Nat
        /\ \A i \in 1 .. Len(Arrays[TypeOf[e]]) : Arrays[TypeOf[e]][i] \notin S =>
             \E j \in 1 .. s.span[e] : s.array[TypeOf[e]][j] = Arrays[TypeOf[e]][i]
        /\ Len(s.array[TypeOf[e]]) = Len(Arrays[TypeOf[e]]) /\ Len(Arrays[TypeOf[e]]) \in Nat
    BY <1>1 DEF Shape
  <2>2. spans[e] <= s.span[e] /\ spans[e] \in Nat
    <3>1. CASE e = d
      <4>1. spans[e] \in 0 .. s.span[d] /\ s.span[d] \in Nat  BY <1>1, <1>3, <1>5, <3>1
      <4>. QED  BY <3>1, <4>1
    <3>2. CASE e # d
      <4>1. spans[e] = s.span[e]  BY <1>5, <3>2
      <4>. QED  BY <2>1, <4>1
    <3>. QED  BY <3>1, <3>2
  <2>3. ASSUME NEW i \in 1 .. Len(Arrays[TypeOf[e]]), Arrays[TypeOf[e]][i] \notin S
        PROVE  \E j \in 1 .. spans[e] : lists[TypeOf[e]][j] = Arrays[TypeOf[e]][i]
    <3>1. PICK k \in 1 .. s.span[e] : s.array[TypeOf[e]][k] = Arrays[TypeOf[e]][i]  BY <2>1, <2>3
    <3>2. CASE TypeOf[e] # t
      <4>1. e # d  BY <3>2
      <4>2. spans[e] = s.span[e]  BY <1>5, <4>1
      <4>3. lists[TypeOf[e]] = s.array[TypeOf[e]]  BY <1>1, <1>4, <3>2
      <4>. QED  BY <3>1, <4>2, <4>3
    <3>3. CASE TypeOf[e] = t
      <4>1. k \in 1 .. Len(s.array[t]) /\ s.array[t][k] # l
        <5>1. s.array[t][k] = Arrays[TypeOf[e]][i]  BY <3>1, <3>3
        <5>2. s.span[e] <= Len(s.array[t]) /\ s.span[e] \in Nat /\ Len(s.array[t]) \in Nat
          BY <2>1, <3>3
        <5>3. k \in 1 .. Len(s.array[t])  BY <5>2
        <5>. QED  BY <2>3, <5>1, <5>3
      <4>2. PICK j \in 1 .. Len(s.array[t]) :
                   j <= k /\ cut.list[j] = s.array[t][k] /\ (k <= s.span[d] => j <= cut.len)
        BY <1>3, <4>1
      <4>3. j \in 1 .. spans[e]
        <5>1. CASE e = d  BY <1>3, <1>5, <2>2, <3>1, <4>2, <5>1
        <5>2. CASE e # d
          <6>1. spans[e] = s.span[e]  BY <1>5, <5>2
          <6>. QED  BY <2>1, <3>1, <4>2, <6>1
        <5>. QED  BY <5>1, <5>2
      <4>. QED  BY <1>4, <3>1, <3>3, <4>2, <4>3
    <3>. QED  BY <3>2, <3>3
  <2>. QED  BY <2>1, <2>2, <2>3
<1>8. [array |-> lists, span |-> spans] \in Routings  BY <1>4, <1>5 DEF Routings
<1>. DEFINE r == SkipRow(s, d, l)
<1>9. r \in Routings /\ r.array = lists /\ r.span = spans  BY <1>2, <1>8
<1>. HIDE DEF r, t
<1>10. Shape(r, S)  BY <1>6, <1>7, <1>9 DEF Shape
<1>. QED  BY <1>10 DEF r

Shapes(S) == {s \in Routings : Shape(s, S)}

LEMMA SkipsShape ==
    ASSUME StatusAssumption, array = Arrays, span = [d \in DLEs |-> Len(Arrays[TypeOf[d]])],
           NEW S \in SUBSET Landings
    PROVE  Shape(SkipLandings(S), S)
<1>. DEFINE V == Shapes(S)
<1>0. \A s : s \in V <=> Shape(s, S)  BY DEF Shapes, Shape
<1>. HIDE DEF V
<1>. DEFINE first == [array |-> array, span |-> span]
<1>1. first \in V
  <2>1. TypeOf \in [DLEs -> DOMAIN Arrays] /\ Arrays \in [DOMAIN Arrays -> Seq(Landings)]
        /\ \A t \in DOMAIN Arrays : Len(Arrays[t]) \in Nat
    BY DEF StatusAssumption
  <2>2. first \in Routings /\ first.array = Arrays
        /\ \A d \in DLEs : first.span[d] = Len(Arrays[TypeOf[d]])
    BY <2>1 DEF Routings
  <2>. HIDE DEF first
  <2>3. \A d \in DLEs : /\ first.span[d] <= Len(Arrays[TypeOf[d]])
                        /\ \A i \in 1 .. Len(Arrays[TypeOf[d]]) : i \in 1 .. first.span[d]
    BY <2>1, <2>2
  <2>4. Shape(first, S)  BY <2>2, <2>3 DEF Shape
  <2>. QED  BY <1>0, <2>4
<1>2. ASSUME NEW s \in V, NEW l \in S PROVE SkipLanding(s, l) \in V
  <2>1. \A x \in V, d \in DLEs : SkipRow(x, d, l) \in V  BY <1>0, SkipRowShape
  <2>2. PICK h \in [SUBSET DLEs -> V] : RowFold(s, l, h)  BY <2>1, RowsUnfold
  <2>. QED  BY <2>2 DEF RowFold
<1>3. PICK h \in [SUBSET S -> V] : LandingFold(S, h)  BY <1>1, <1>2, LandingsUnfold
<1>. QED  BY <1>0, <1>3 DEF LandingFold

\* When only the last landing of a list is dropped, the lists stay and the slices end before it.
LastsIn(S) ==
    \A t \in DOMAIN Arrays : \A i, j \in DOMAIN Arrays[t] :
      i < j => Arrays[t][i] # Arrays[t][j] /\ Arrays[t][i] \notin S
Final(t) == Arrays[t][Len(Arrays[t])]
CutTo(S, d) == IF Final(TypeOf[d]) \in S THEN Len(Arrays[TypeOf[d]]) - 1 ELSE Len(Arrays[TypeOf[d]])
CutShort(S) == [array |-> Arrays, span |-> [d \in DLEs |-> CutTo(S, d)]]

LEMMA ListFacts ==
    ASSUME StatusAssumption, NEW d \in DLEs
    PROVE  LET t == TypeOf[d] IN
           /\ t \in DOMAIN Arrays /\ Arrays[t] \in Seq(Landings) /\ DOMAIN Arrays[t] = 1 .. Len(Arrays[t])
           /\ Len(Arrays[t]) \in Nat /\ Len(Arrays[t]) > 0 /\ Final(t) \in Landings
<1>1. TypeOf[d] \in DOMAIN Arrays /\ Arrays[TypeOf[d]] \in Seq(Landings) /\ Arrays[TypeOf[d]] # <<>>
  BY DEF StatusAssumption
<1>. QED  BY <1>1 DEF Final

LEMMA CutShortShape ==
    ASSUME StatusAssumption, NEW S, LastsIn(S), NEW u \in SUBSET S
    PROVE  Shape(CutShort(u), S)
<1>. DEFINE r == CutShort(u)
<1>1. ASSUME NEW d \in DLEs
      PROVE  CutTo(u, d) \in Nat /\ CutTo(u, d) <= Len(Arrays[TypeOf[d]])
  BY ListFacts DEF CutTo
<1>2. Arrays \in [DOMAIN Arrays -> Seq(Landings)] /\ \A t \in DOMAIN Arrays : Len(Arrays[t]) \in Nat
  BY DEF StatusAssumption
<1>3. r \in Routings /\ r.array = Arrays /\ \A d \in DLEs : r.span[d] = CutTo(u, d)
  BY <1>1, <1>2 DEF Routings, CutShort
<1>. HIDE DEF r
<1>4. ASSUME NEW d \in DLEs, NEW i \in 1 .. Len(Arrays[TypeOf[d]]), Arrays[TypeOf[d]][i] \notin S
      PROVE  i \in 1 .. CutTo(u, d)
  BY <1>4, ListFacts DEF CutTo, Final
<1>. QED  BY <1>1, <1>2, <1>3, <1>4 DEF Shape, r

LEMMA SkipRowCuts ==
    ASSUME StatusAssumption, NEW S, LastsIn(S), NEW u \in SUBSET S, NEW l \in S \ u, NEW d \in DLEs
    PROVE  LET cut == InPlace(Arrays[TypeOf[d]], CutTo(u, d), l) IN
           cut.list = Arrays[TypeOf[d]] /\ cut.len = CutTo(u \cup {l}, d)
<1>. DEFINE list == Arrays[TypeOf[d]]
            n == CutTo(u, d)
            cut == InPlace(list, n, l)
<1>1. list \in Seq(Landings) /\ Len(list) \in Nat /\ Len(list) > 0 /\ TypeOf[d] \in DOMAIN Arrays
      /\ DOMAIN list = 1 .. Len(list)
  BY ListFacts
<1>2. n \in 0 .. Len(list)  BY <1>1 DEF CutTo
<1>3. \A i \in 1 .. (Len(list) - 1) : list[i] # l
  <2>. SUFFICES ASSUME NEW i \in 1 .. (Len(list) - 1) PROVE list[i] \notin S  OBVIOUS
  <2>1. i \in DOMAIN list /\ Len(list) \in DOMAIN list /\ i < Len(list)  BY <1>1
  <2>. QED  BY <1>1, <2>1 DEF LastsIn
<1>. HIDE DEF cut
<1>4. Compacted(Landings, list, n, l, cut)
  <2>1. cut = InPlace(list, n, l)  BY DEF cut
  <2>. HIDE DEF list, n
  <2>. QED  BY <1>1, <1>2, <2>1, InPlaceCompacts
<1>5. /\ (\A i \in 1 .. n : list[i] # l) => cut.list = list /\ cut.len = n
      /\ (n > 0 /\ list[n] = l /\ \A i \in 1 .. (n - 1) : list[i] # l) =>
           cut.list = list /\ cut.len = n - 1
  BY <1>4 DEF Compacted
<1>6. CASE list[Len(list)] \in u
  <2>1. n = Len(list) - 1 /\ CutTo(u \cup {l}, d) = n  BY <1>6 DEF CutTo, Final
  <2>. QED  BY <1>3, <1>5, <2>1 DEF cut
<1>7. CASE list[Len(list)] \notin u /\ list[Len(list)] = l
  <2>1. n = Len(list) /\ CutTo(u \cup {l}, d) = Len(list) - 1  BY <1>7 DEF CutTo, Final
  <2>. QED  BY <1>1, <1>3, <1>5, <1>7, <2>1 DEF cut
<1>8. CASE list[Len(list)] \notin u /\ list[Len(list)] # l
  <2>1. n = Len(list) /\ CutTo(u \cup {l}, d) = Len(list)  BY <1>8 DEF CutTo, Final
  <2>2. \A i \in 1 .. n : list[i] # l  BY <1>1, <1>3, <1>8, <2>1
  <2>. QED  BY <1>5, <2>1, <2>2 DEF cut
<1>. QED  BY <1>6, <1>7, <1>8

LEMMA SkipLandingCuts ==
    ASSUME StatusAssumption, NEW S, LastsIn(S), NEW u \in SUBSET S, NEW l \in S \ u
    PROVE  SkipLanding(CutShort(u), l) = CutShort(u \cup {l})
<1>. DEFINE V == Shapes(S)
            spans(w) == [d \in DLEs |-> IF d \in w THEN CutTo(u \cup {l}, d) ELSE CutTo(u, d)]
            mid(w) == [array |-> Arrays, span |-> spans(w)]
<1>0. \A s : s \in V <=> Shape(s, S)  BY DEF Shapes, Shape
<1>. HIDE DEF V
<1>1. CutShort(u) \in V /\ \A x \in V, d \in DLEs : SkipRow(x, d, l) \in V
  BY <1>0, CutShortShape, SkipRowShape
<1>2. PICK h \in [SUBSET DLEs -> V] : RowFold(CutShort(u), l, h)  BY <1>1, RowsUnfold
<1>. DEFINE Good == {w \in SUBSET DLEs : h[w] = mid(w)}
<1>3. ASSUME NEW w \in SUBSET DLEs, \A v \in SUBSET w : v # w => v \in Good PROVE w \in Good
  <2>1. CASE w = {}
    <3>1. h[w] = CutShort(u)  BY <1>2, <2>1 DEF RowFold
    <3>. QED  BY <2>1, <3>1 DEF CutShort
  <2>2. CASE w # {}
    <3>. DEFINE m == Max(w)
                v == w \ {m}
    <3>1. m \in w /\ m \in DLEs /\ h[w] = SkipRow(h[v], m, l)  BY <1>2, <2>2 DEF RowFold
    <3>. HIDE DEF m
    <3>2. h[v] = mid(v)
      <4>1. v \in SUBSET w /\ v # w  BY <3>1
      <4>. QED  BY <1>3, <4>1
    <3>3. spans(v)[m] = CutTo(u, m)  BY <3>1
    <3>. DEFINE cut == InPlace(Arrays[TypeOf[m]], CutTo(u, m), l)
    <3>4. cut.list = Arrays[TypeOf[m]] /\ cut.len = CutTo(u \cup {l}, m)  BY <3>1, SkipRowCuts
    <3>5. SkipRow(mid(v), m, l) = [array |-> [Arrays EXCEPT ![TypeOf[m]] = cut.list],
                                   span |-> [spans(v) EXCEPT ![m] = cut.len]]
      BY <3>3 DEF SkipRow
    <3>. HIDE DEF cut
    <3>6. [Arrays EXCEPT ![TypeOf[m]] = cut.list] = Arrays
      <4>1. Arrays \in [DOMAIN Arrays -> Seq(Landings)]  BY DEF StatusAssumption
      <4>. QED  BY <3>4, <4>1
    <3>7. [spans(v) EXCEPT ![m] = cut.len] = spans(w)
      <4>1. \A d \in DLEs : d \in w <=> d \in v \/ d = m  BY <3>1
      <4>. QED  BY <3>1, <3>4, <4>1
    <3>. HIDE DEF v, spans
    <3>8. h[w] = mid(w)  BY <3>1, <3>2, <3>5, <3>6, <3>7
    <3>. QED  BY <3>8
  <2>. QED  BY <2>1, <2>2
<1>4. DLEs \in Good
  <2>1. IsFiniteSet(DLEs)  BY DEF StatusAssumption
  <2>. HIDE DEF Good
  <2>. QED  BY <1>3, <2>1, BySubsets
<1>5. mid(DLEs) = CutShort(u \cup {l})
  <2>1. spans(DLEs) = [d \in DLEs |-> CutTo(u \cup {l}, d)]  OBVIOUS
  <2>. HIDE DEF spans
  <2>. QED  BY <2>1 DEF CutShort
<1>. QED  BY <1>2, <1>4, <1>5 DEF RowFold

LEMMA SkipsCutShort ==
    ASSUME StatusAssumption, array = Arrays, span = [d \in DLEs |-> Len(Arrays[TypeOf[d]])],
           NEW S \in SUBSET Landings, LastsIn(S)
    PROVE  SkipLandings(S) = CutShort(S)
<1>1. CutShort({}) = [array |-> array, span |-> span]  BY DEF CutShort, CutTo
<1>2. \A s : s \in Shapes(S) <=> Shape(s, S)  BY DEF Shapes, Shape
<1>3. ASSUME NEW s \in Shapes(S), NEW l \in S PROVE SkipLanding(s, l) \in Shapes(S)
  <2>. DEFINE W == Shapes(S)
  <2>1. s \in W /\ \A x \in W, d \in DLEs : SkipRow(x, d, l) \in W  BY <1>2, SkipRowShape
  <2>. HIDE DEF W
  <2>2. PICK h \in [SUBSET DLEs -> W] : RowFold(s, l, h)  BY <2>1, RowsUnfold
  <2>3. SkipLanding(s, l) \in W  BY <2>2 DEF RowFold
  <2>. QED  BY <2>3 DEF W
<1>4. CutShort({}) \in Shapes(S)  BY <1>2, CutShortShape
<1>5. PICK h \in [SUBSET S -> Shapes(S)] : LandingFold(S, h)
  <2>. DEFINE W == Shapes(S)
  <2>1. [array |-> array, span |-> span] \in W /\ \A x \in W, l \in S : SkipLanding(x, l) \in W
    BY <1>1, <1>3, <1>4
  <2>. HIDE DEF W
  <2>2. \E h \in [SUBSET S -> W] : LandingFold(S, h)  BY <2>1, LandingsUnfold
  <2>. QED  BY <2>2 DEF W
<1>. DEFINE Good == {w \in SUBSET S : h[w] = CutShort(w)}
<1>6. ASSUME NEW w \in SUBSET S, \A v \in SUBSET w : v # w => v \in Good PROVE w \in Good
  <2>1. CASE w = {}  BY <1>1, <1>5, <2>1 DEF LandingFold
  <2>2. CASE w # {}
    <3>. DEFINE m == Max(w)
                v == w \ {m}
    <3>1. m \in w /\ h[w] = SkipLanding(h[v], m)  BY <1>5, <2>2 DEF LandingFold
    <3>. HIDE DEF m
    <3>2. v \in SUBSET w /\ v # w /\ v \in SUBSET S /\ m \in S \ v /\ v \cup {m} = w  BY <3>1
    <3>3. h[v] = CutShort(v)  BY <1>6, <3>2
    <3>. HIDE DEF v
    <3>. QED  BY <3>1, <3>2, <3>3, SkipLandingCuts
  <2>. QED  BY <2>1, <2>2
<1>7. S \in Good
  <2>1. IsFiniteSet(S)  BY FS_Subset DEF StatusAssumption
  <2>. HIDE DEF Good
  <2>. QED  BY <1>6, <2>1, BySubsets
<1>. QED  BY <1>5, <1>7 DEF LandingFold

-----------------------------------------------------------------------------
\* The totals.

\* A sum over a set, unfolded: it is that of the subsets of any set it is in.
Summing(P, f, h) ==
    /\ h \in [SUBSET P -> Nat]
    /\ \A u \in SUBSET P :
         /\ SumOver(f, u) = h[u]
         /\ h[u] = IF u = {} THEN 0 ELSE f[One(u)] + h[Rest(u)]

LEMMA SumUnfolds ==
    ASSUME NEW P, IsFiniteSet(P), NEW f, \A y \in P : f[y] \in Nat
    PROVE  \E h : Summing(P, f, h)
<1>. DEFINE op == [uv \in (SUBSET P) \X Nat |->
                     IF uv[1] = {} THEN 0 ELSE f[One(uv[1])] + uv[2]]
            Sums(g, Q) == g = [u \in SUBSET Q |-> IF u = {} THEN 0
                                                  ELSE f[One(u)] + g[Rest(u)]]
<1>1. \A u \in SUBSET P : u # {} => f[One(u)] \in Nat /\ Rest(u) \in SUBSET P
  BY RestIsLess
<1>2. op \in [(SUBSET P) \X Nat -> Nat]  BY <1>1
<1>3. PICK h \in [SUBSET P -> Nat] : Folds(P, 0, op, h)
  <2>. HIDE DEF op
  <2>. QED  BY <1>2, FoldExists
<1>4. ASSUME NEW u \in SUBSET P
      PROVE  h[u] = IF u = {} THEN 0 ELSE f[One(u)] + h[Rest(u)]
  <2>1. h[u] = IF u = {} THEN 0 ELSE op[<<u, h[Rest(u)]>>]  BY <1>3, <1>4 DEF Folds
  <2>2. CASE u # {}
    <3>1. h[Rest(u)] \in Nat  BY <1>1, <1>3, <2>2
    <3>2. <<u, h[Rest(u)]>> \in (SUBSET P) \X Nat  BY <3>1
    <3>3. op[<<u, h[Rest(u)]>>] = f[One(u)] + h[Rest(u)]  BY <2>2, <3>2
    <3>. QED  BY <2>1, <2>2, <3>3
  <2>. QED  BY <2>1, <2>2
<1>5. ASSUME NEW Q \in SUBSET P PROVE SumOver(f, Q) = h[Q]
  <2>1. SumOver(f, Q) = (CHOOSE g : Sums(g, Q))[Q]
    BY DEF SumOver, MapThenSumSet, MapThenFoldSet, One, Rest
  <2>2. Sums([u \in SUBSET Q |-> h[u]], Q)
    <3>1. \A u \in SUBSET Q : u \in SUBSET P /\ (u # {} => Rest(u) \in SUBSET Q)
      BY RestIsLess
    <3>. QED  BY <1>4, <3>1
  <2>3. ASSUME NEW g, Sums(g, Q) PROVE g[Q] = h[Q]
    <3>. DEFINE G == {u \in SUBSET Q : g[u] = h[u]}
    <3>1. ASSUME NEW u \in SUBSET Q, \A v \in SUBSET u : v # u => v \in G PROVE u \in G
      <4>1. g[u] = IF u = {} THEN 0 ELSE f[One(u)] + g[Rest(u)]  BY <2>3, <3>1
      <4>2. h[u] = IF u = {} THEN 0 ELSE f[One(u)] + h[Rest(u)]  BY <1>4, <3>1
      <4>3. u # {} => g[Rest(u)] = h[Rest(u)]  BY <3>1, RestIsLess
      <4>. QED  BY <3>1, <4>1, <4>2, <4>3
    <3>2. IsFiniteSet(Q)  BY FS_Subset
    <3>3. Q \in G
      <4>. HIDE DEF G
      <4>. QED  BY <3>1, <3>2, BySubsets
    <3>. QED  BY <3>3
  <2>. HIDE DEF Sums
  <2>. QED  BY <2>1, <2>2, <2>3
<1>6. Summing(P, f, h)  BY <1>3, <1>4, <1>5 DEF Summing
<1>. QED  BY <1>6

\* Taking any one out takes its number out.
LEMMA SumSteps ==
    ASSUME NEW P, IsFiniteSet(P), NEW f, \A y \in P : f[y] \in Nat
    PROVE  /\ SumOver(f, {}) = 0
           /\ \A u \in SUBSET P :
                /\ SumOver(f, u) \in Nat
                /\ \A x \in u : SumOver(f, u) = f[x] + SumOver(f, u \ {x})
<1>0. PICK h : Summing(P, f, h)  BY SumUnfolds
<1>1. /\ h \in [SUBSET P -> Nat]
      /\ \A u \in SUBSET P :
           /\ SumOver(f, u) = h[u]
           /\ h[u] = IF u = {} THEN 0 ELSE f[One(u)] + h[Rest(u)]
  BY <1>0 DEF Summing
<1>. DEFINE G == {u \in SUBSET P : \A x \in u : h[u] = f[x] + h[u \ {x}]}
<1>2. ASSUME NEW u \in SUBSET P, \A v \in SUBSET u : v # u => v \in G PROVE u \in G
  <2>. SUFFICES ASSUME NEW x \in u PROVE h[u] = f[x] + h[u \ {x}]
    OBVIOUS
  <2>. DEFINE y == One(u)
  <2>1. y \in u /\ Rest(u) = u \ {y} /\ u # {}  BY RestIsLess DEF Rest
  <2>2. h[u] = f[y] + h[u \ {y}]  BY <1>1, <2>1
  <2>. HIDE DEF y
  <2>3. CASE x = y  BY <2>2, <2>3
  <2>4. CASE x # y
    <3>1. u \ {y} \in G /\ x \in u \ {y}  BY <1>2, <2>1, <2>4
    <3>2. u \ {x} \in G /\ y \in u \ {x}  BY <1>2, <2>1, <2>4
    <3>3. h[u \ {y}] = f[x] + h[(u \ {y}) \ {x}]  BY <3>1
    <3>4. h[u \ {x}] = f[y] + h[(u \ {x}) \ {y}]  BY <3>2
    <3>5. (u \ {y}) \ {x} = (u \ {x}) \ {y}  OBVIOUS
    <3>6. h[(u \ {y}) \ {x}] \in Nat /\ f[x] \in Nat /\ f[y] \in Nat
      <4>1. (u \ {y}) \ {x} \in SUBSET P  OBVIOUS
      <4>. QED  BY <1>1, <2>1, <4>1
    <3>7. \A k, cx, cy \in Nat : cy + (cx + k) = cx + (cy + k)  OBVIOUS
    <3>8. h[u] = f[y] + (f[x] + h[(u \ {y}) \ {x}])  BY <2>2, <3>3
    <3>9. h[u \ {x}] = f[y] + h[(u \ {y}) \ {x}]  BY <3>4, <3>5
    <3>. DEFINE k == h[(u \ {y}) \ {x}]  cx == f[x]  cy == f[y]
    <3>10. cy + (cx + k) = cx + (cy + k)
      <4>. HIDE DEF k, cx, cy
      <4>. QED  BY <3>6, <3>7 DEF k, cx, cy
    <3>. QED  BY <3>8, <3>9, <3>10
  <2>. QED  BY <2>3, <2>4
<1>3. \A u \in SUBSET P : u \in G
  <2>. HIDE DEF G
  <2>. QED  BY <1>2, BySubsets
<1>4. SumOver(f, {}) = 0  BY <1>1
<1>5. \A u \in SUBSET P : \A x \in u : u \ {x} \in SUBSET P  OBVIOUS
<1>. QED  BY <1>1, <1>3, <1>4, <1>5

\* A sum of no larger numbers is no larger, and as large only when each is.
LEMMA SumsCompare ==
    ASSUME NEW P, IsFiniteSet(P), NEW f, NEW g,
           \A x \in P : f[x] \in Nat /\ g[x] \in Nat /\ f[x] <= g[x]
    PROVE  /\ SumOver(f, P) \in Nat /\ SumOver(g, P) \in Nat /\ SumOver(f, P) <= SumOver(g, P)
           /\ SumOver(f, P) = SumOver(g, P) <=> \A x \in P : f[x] = g[x]
<1>1. /\ SumOver(f, {}) = 0
      /\ \A u \in SUBSET P : /\ SumOver(f, u) \in Nat
                             /\ \A x \in u : SumOver(f, u) = f[x] + SumOver(f, u \ {x})
  BY SumSteps
<1>2. /\ SumOver(g, {}) = 0
      /\ \A u \in SUBSET P : /\ SumOver(g, u) \in Nat
                             /\ \A x \in u : SumOver(g, u) = g[x] + SumOver(g, u \ {x})
  BY SumSteps
<1>. DEFINE Same(u) == \A x \in u : f[x] = g[x]
            Compares(u) == /\ SumOver(f, u) <= SumOver(g, u)
                           /\ SumOver(f, u) = SumOver(g, u) <=> Same(u)
            G == {u \in SUBSET P : Compares(u)}
<1>. HIDE DEF Same, Compares
<1>3. ASSUME NEW u \in SUBSET P, \A v \in SUBSET u : v # u => v \in G PROVE u \in G
  <2>1. CASE u = {}
    <3>1. SumOver(f, u) = 0 /\ SumOver(g, u) = 0 /\ Same(u)  BY <1>1, <1>2, <2>1 DEF Same
    <3>. QED  BY <3>1 DEF Compares
  <2>2. CASE u # {}
    <3>1. PICK x \in u : TRUE  BY <2>2
    <3>. DEFINE v == u \ {x}
    <3>2. Compares(v) /\ v \in SUBSET P /\ x \in P  BY <1>3
    <3>3. SumOver(f, u) = f[x] + SumOver(f, v) /\ SumOver(g, u) = g[x] + SumOver(g, v)
      BY <1>1, <1>2
    <3>4. Same(u) <=> f[x] = g[x] /\ Same(v)  BY <3>1 DEF Same
    <3>. HIDE DEF v
    <3>5. /\ SumOver(f, v) \in Nat /\ SumOver(g, v) \in Nat /\ f[x] \in Nat /\ g[x] \in Nat
          /\ f[x] <= g[x]
      BY <1>1, <1>2, <3>2
    <3>6. SumOver(f, v) <= SumOver(g, v) /\ (SumOver(f, v) = SumOver(g, v) <=> Same(v))
      BY <3>2 DEF Compares
    <3>7. \A a, b, c, d \in Nat : a <= b /\ c <= d =>
             a + c <= b + d /\ (a + c = b + d <=> a = b /\ c = d)
      OBVIOUS
    <3>8. /\ f[x] + SumOver(f, v) <= g[x] + SumOver(g, v)
          /\ f[x] + SumOver(f, v) = g[x] + SumOver(g, v) <=>
               f[x] = g[x] /\ SumOver(f, v) = SumOver(g, v)
      BY <3>5, <3>6, <3>7
    <3>9. Compares(u)  BY <3>3, <3>4, <3>6, <3>8 DEF Compares
    <3>. QED  BY <3>9
  <2>. QED  BY <2>1, <2>2
<1>4. Compares(P)
  <2>1. P \in G
    <3>. HIDE DEF G
    <3>. QED  BY <1>3, BySubsets
  <2>. QED  BY <2>1
<1>5. P \in SUBSET P  OBVIOUS
<1>6. SumOver(f, P) \in Nat /\ SumOver(g, P) \in Nat  BY <1>1, <1>2, <1>5
<1>. QED  BY <1>4, <1>6 DEF Compares, Same

\* A sum of the same number for each of some.
LEMMA SumOfSame ==
    ASSUME NEW P, IsFiniteSet(P), NEW A \in SUBSET P, NEW c \in Nat, NEW f,
           \A x \in P : f[x] = IF x \in A THEN c ELSE 0
    PROVE  SumOver(f, P) = c * Cardinality(A) /\ Cardinality(A) \in Nat
<1>1. /\ SumOver(f, {}) = 0
      /\ \A u \in SUBSET P : /\ SumOver(f, u) \in Nat
                             /\ \A x \in u : SumOver(f, u) = f[x] + SumOver(f, u \ {x})
  <2>1. \A x \in P : f[x] \in Nat  OBVIOUS
  <2>. QED  BY <2>1, SumSteps
<1>2. \A u : IsFiniteSet(A \cap u) /\ Cardinality(A \cap u) \in Nat
  BY FS_Subset, FS_CardinalityType
<1>. DEFINE G == {u \in SUBSET P : SumOver(f, u) = c * Cardinality(A \cap u)}
<1>3. ASSUME NEW u \in SUBSET P, \A v \in SUBSET u : v # u => v \in G PROVE u \in G
  <2>1. CASE u = {}
    <3>1. A \cap u = {}  BY <2>1
    <3>2. Cardinality(A \cap u) = 0 /\ c * 0 = 0  BY <3>1, FS_EmptySet
    <3>. QED  BY <1>1, <2>1, <3>2
  <2>2. CASE u # {}
    <3>1. PICK x \in u : TRUE  BY <2>2
    <3>. DEFINE v == u \ {x}
    <3>2. SumOver(f, v) = c * Cardinality(A \cap v)  BY <1>3
    <3>3. SumOver(f, u) = f[x] + SumOver(f, v)  BY <1>1
    <3>4. CASE x \in A
      <4>1. A \cap u = (A \cap v) \cup {x} /\ x \notin A \cap v  BY <3>4
      <4>2. Cardinality(A \cap u) = Cardinality(A \cap v) + 1  BY <1>2, <4>1, FS_AddElement
      <4>3. \A k \in Nat : c + c * k = c * (k + 1)  OBVIOUS
      <4>4. f[x] = c  BY <3>4
      <4>5. PICK k \in Nat : k = Cardinality(A \cap v)  BY <1>2
      <4>. HIDE DEF v
      <4>6. SumOver(f, u) = c + c * k  BY <3>2, <3>3, <4>4, <4>5
      <4>7. c + c * k = c * (k + 1)  BY <4>3
      <4>. QED  BY <4>2, <4>5, <4>6, <4>7
    <3>5. CASE x \notin A
      <4>1. A \cap u = A \cap v  BY <3>5
      <4>2. f[x] = 0 /\ SumOver(f, v) \in Nat  BY <1>1, <3>5
      <4>3. SumOver(f, u) = SumOver(f, v)  BY <3>3, <4>2
      <4>. HIDE DEF v
      <4>. QED  BY <3>2, <4>1, <4>3
    <3>. QED  BY <3>4, <3>5
  <2>. QED  BY <2>1, <2>2
<1>4. P \in G
  <2>. HIDE DEF G
  <2>1. \A u \in SUBSET P : (\A v \in SUBSET u : v # u => v \in G) => u \in G  BY <1>3
  <2>2. \A u \in SUBSET P : u \in G  BY <2>1, BySubsets
  <2>. QED  BY <2>2
<1>5. A \cap P = A  OBVIOUS
<1>. QED  BY <1>2, <1>4, <1>5

-----------------------------------------------------------------------------
\* What the sums of a status rest on: the routes the landings skipped have left, the drains still
\* owed, and that the meters are settled once none is.
Reach(d) == Range(array[TypeOf[d]]) \ skipped
Routing == [array |-> array, span |-> span]

RoutesInv ==
    /\ runPhase \in {"opening", "running", "sealing", "done", "failed", "canceled"}
    /\ skipped \subseteq Landings /\ tripNoted \subseteq Landings /\ tripped \subseteq Landings
    /\ Shape(Routing, skipped)
    /\ LastsIn(skipped) => array = Arrays /\ span = [d \in DLEs |-> CutTo(skipped, d)]
    /\ runPhase = "opening" => /\ skipped = {} /\ array = Arrays /\ ~canceled
                            /\ span = [d \in DLEs |-> Len(Arrays[TypeOf[d]])]
    /\ \A d \in DLEs : ~(Range(Arrays[TypeOf[d]]) \subseteq skipped)

Pending(ln) == {l \in Landings : ln[l] \in {"queued", "copying", "broken", "void"}}

\* Of one DLE: its row, its dump, its lanes, its copies, the drains it counts down, its landings.
Owing(r, p, ln, on, n, reach) ==
    /\ p = "idle" => \A l \in Landings : ln[l] = "none"
    /\ \A l \in Landings : ln[l] # "none" \/ r.drained[l] > 0 \/ l \in on => l \in reach
    /\ ~r.holding => n = 0 /\ (r.toHolding => \A l \in Landings : r.drained[l] = 0)
    /\ r.holding => n = Cardinality(Pending(ln))
    /\ r.holding /\ n = 0 => \A l \in Landings : r.drained[l] \in {0, ArchiveSize}

\* Where its dump stands in each phase.
InPhase(ph, p, n) ==
    /\ ph = "opening" => p = "idle"
    /\ ph \in {"done", "failed", "canceled"} => p \in {"idle", "over"} /\ n = 0

OwedInv ==
    /\ RoutesInv /\ left \in [DLEs -> Nat]
    /\ \A d \in DLEs : Owing(row[d], pc[d], lane[d], copies[d], left[d], Reach(d))
    /\ \A d \in DLEs : InPhase(runPhase, pc[d], left[d])

\* A step of one dump that leaves the routes and the phase alone.
LEMMA OneOwes ==
    ASSUME StatusIInv, OwedInv, NEW d \in DLEs, NEW r, NEW p, NEW ln, NEW on, NEW n \in Nat,
           row' = [row EXCEPT ![d] = r], pc' = [pc EXCEPT ![d] = p],
           lane' = [lane EXCEPT ![d] = ln], copies' = [copies EXCEPT ![d] = on],
           left' = [left EXCEPT ![d] = n],
           UNCHANGED <<routes, runPhase, skipped, canceled>>,
           tripNoted' \subseteq Landings, tripped' \subseteq Landings,
           Owing(r, p, ln, on, n, Reach(d)), InPhase(runPhase, p, n)
    PROVE  OwedInv'
<1>1. RoutesInv'
  BY DEF OwedInv, RoutesInv, routes, Routing, Shape, LastsIn, CutTo, Final
<1>2. left' \in [DLEs -> Nat]  BY DEF OwedInv
<1>3. ASSUME NEW e \in DLEs
      PROVE  /\ Owing(row'[e], pc'[e], lane'[e], copies'[e], left'[e], Reach(e)')
             /\ InPhase(runPhase', pc'[e], left'[e])
  <2>0. Reach(e)' = Reach(e)  BY DEF Reach, routes
  <2>1. CASE e = d
    <3>1. row'[e] = r /\ pc'[e] = p /\ lane'[e] = ln /\ copies'[e] = on /\ left'[e] = n
      BY <2>1 DEF StatusIInv, StatusTyped, OwedInv
    <3>. QED  BY <2>0, <2>1, <3>1
  <2>2. CASE e # d
    <3>1. /\ row'[e] = row[e] /\ pc'[e] = pc[e] /\ lane'[e] = lane[e] /\ copies'[e] = copies[e]
          /\ left'[e] = left[e]
      BY <1>3, <2>2 DEF StatusIInv, StatusTyped, OwedInv
    <3>2. Owing(row[e], pc[e], lane[e], copies[e], left[e], Reach(e)) /\ InPhase(runPhase, pc[e], left[e])
      BY <1>3 DEF OwedInv
    <3>. QED  BY <2>0, <3>1, <3>2
  <2>. QED  BY <2>1, <2>2
<1>. QED  BY <1>1, <1>2, <1>3 DEF OwedInv

\* The parts of it for one DLE, and what a step keeps of its landings' flags.
LEMMA OwedParts ==
    ASSUME StatusIInv, OwedInv, NEW d \in DLEs
    PROVE  /\ Owing(row[d], pc[d], lane[d], copies[d], left[d], Reach(d)) /\ left[d] \in Nat
           /\ InPhase(runPhase, pc[d], left[d]) /\ tripNoted \subseteq Landings /\ tripped \subseteq Landings
           /\ runPhase = "opening" => pc[d] = "idle"
           /\ Terminal => pc[d] \in {"idle", "over"}
           /\ pc = [pc EXCEPT ![d] = pc[d]] /\ left = [left EXCEPT ![d] = left[d]]
           /\ row = [row EXCEPT ![d] = row[d]] /\ lane = [lane EXCEPT ![d] = lane[d]]
           /\ copies = [copies EXCEPT ![d] = copies[d]]
           /\ pc[d] \in {"idle", "held", "dumping"} => ~row[d].holding
BY RowParts DEF OwedInv, InPhase, Terminal, RoutesInv, StatusIInv, StatusTyped, DumpFits, RowTells

LEMMA AcquireOwes ==
    ASSUME StatusAssumption, StatusIInv, OwedInv, NEW d \in DLEs, NEW onDisk \in BOOLEAN,
           Acquire(d, onDisk)
    PROVE  OwedInv'
<1>. DEFINE r == [row[d] EXCEPT !.toHolding = onDisk]
            ln == [l \in Landings |-> IF l \in Alive(d) THEN IF onDisk THEN "queued" ELSE "direct" ELSE "none"]
<1>1. /\ row' = [row EXCEPT ![d] = r] /\ pc' = [pc EXCEPT ![d] = "held"] /\ lane' = [lane EXCEPT ![d] = ln]
      /\ UNCHANGED <<routes, runPhase, skipped, canceled, left, copies, tripNoted, tripped>>
      /\ runPhase = "running" /\ pc[d] = "idle"
  BY DEF Acquire, Set
<1>2. /\ r.holding = row[d].holding /\ r.drained = row[d].drained /\ ~row[d].holding
      /\ left[d] = 0 /\ \A l \in Landings : row[d].drained[l] = 0 /\ l \notin copies[d]
  BY <1>1, OwedParts, RowParts DEF Row, Owing, DumpFits, NotYetDrained
<1>3. Alive(d) \subseteq Reach(d)  BY DEF Alive, Reach
<1>4. Owing(r, "held", ln, copies[d], left[d], Reach(d))
  <2>. HIDE DEF r
  <2>. QED  BY <1>2, <1>3 DEF Owing
<1>5. InPhase(runPhase, "held", left[d])  BY <1>1 DEF InPhase
<1>. HIDE DEF r, ln
<1>. QED  BY <1>1, <1>4, <1>5, OwedParts, OneOwes

LEMMA FailDumpOwes ==
    ASSUME StatusAssumption, StatusIInv, OwedInv, NEW d \in DLEs, FailDump(d)
    PROVE  OwedInv'
<1>. DEFINE r == [row[d] EXCEPT !.state = IF canceled THEN "canceled" ELSE "failed"]
            ln == [l \in Landings |-> "none"]
<1>1. /\ row' = [row EXCEPT ![d] = r] /\ pc' = [pc EXCEPT ![d] = "over"] /\ lane' = [lane EXCEPT ![d] = ln]
      /\ UNCHANGED <<routes, runPhase, skipped, canceled, left, copies, tripNoted, tripped>>
      /\ runPhase = "running" /\ pc[d] \in {"idle", "held", "dumping"}
  BY DEF FailDump, SetAndMark, Set
<1>2. /\ r.holding = row[d].holding /\ r.drained = row[d].drained /\ r.toHolding = row[d].toHolding
      /\ ~row[d].holding
  BY <1>1, OwedParts, RowParts DEF Row
<1>3. Owing(r, "over", ln, copies[d], left[d], Reach(d))
  <2>1. Owing(row[d], pc[d], lane[d], copies[d], left[d], Reach(d))  BY OwedParts
  <2>. HIDE DEF r
  <2>. QED  BY <1>2, <2>1 DEF Owing
<1>4. InPhase(runPhase, "over", left[d])  BY <1>1 DEF InPhase
<1>. HIDE DEF r, ln
<1>. QED  BY <1>1, <1>3, <1>4, OwedParts, OneOwes

LEMMA NotStartedOwes ==
    ASSUME StatusAssumption, StatusIInv, OwedInv, NEW d \in DLEs, NotStarted(d)
    PROVE  OwedInv'
<1>1. /\ pc' = [pc EXCEPT ![d] = "over"] /\ pc[d] = "idle" /\ canceled
      /\ UNCHANGED <<routes, runPhase, skipped, canceled, left, copies, tripNoted, tripped, row, lane>>
  BY DEF NotStarted, snap
<1>2. Owing(row[d], "over", lane[d], copies[d], left[d], Reach(d))  BY OwedParts DEF Owing
<1>3. InPhase(runPhase, "over", left[d])
  <2>1. runPhase # "opening"  BY <1>1 DEF OwedInv, RoutesInv
  <2>2. InPhase(runPhase, pc[d], left[d])  BY OwedParts
  <2>. QED  BY <2>1, <2>2 DEF InPhase
<1>4. /\ row' = [row EXCEPT ![d] = row[d]] /\ lane' = [lane EXCEPT ![d] = lane[d]]
      /\ copies' = [copies EXCEPT ![d] = copies[d]] /\ left' = [left EXCEPT ![d] = left[d]]
      /\ left[d] \in Nat /\ tripNoted' \subseteq Landings /\ tripped' \subseteq Landings
  BY <1>1, OwedParts
<1>. DEFINE r == row[d]  ln == lane[d]  on == copies[d]  n == left[d]
<1>5. /\ row' = [row EXCEPT ![d] = r] /\ lane' = [lane EXCEPT ![d] = ln]
      /\ copies' = [copies EXCEPT ![d] = on] /\ left' = [left EXCEPT ![d] = n] /\ n \in Nat
      /\ Owing(r, "over", ln, on, n, Reach(d)) /\ InPhase(runPhase, "over", n)
  BY <1>2, <1>3, <1>4
<1>6. /\ pc' = [pc EXCEPT ![d] = "over"] /\ UNCHANGED <<routes, runPhase, skipped, canceled>>
      /\ tripNoted' \subseteq Landings /\ tripped' \subseteq Landings
  BY <1>1, <1>4
<1>. HIDE DEF r, ln, on, n
<1>. QED  BY <1>5, <1>6, OneOwes

LEMMA StartDLEOwes ==
    ASSUME StatusAssumption, StatusIInv, OwedInv, NEW d \in DLEs, StartDLE(d)
    PROVE  OwedInv'
<1>. DEFINE r == [row[d] EXCEPT !.state = "dumping"]
<1>1. /\ row' = [row EXCEPT ![d] = r] /\ pc' = [pc EXCEPT ![d] = "dumping"] /\ pc[d] = "held"
      /\ UNCHANGED <<routes, runPhase, skipped, canceled, left, copies, tripNoted, tripped, lane>>
  BY DEF StartDLE, Set
<1>2. r.holding = row[d].holding /\ r.drained = row[d].drained /\ r.toHolding = row[d].toHolding
  BY RowParts DEF Row
<1>3. Owing(r, "dumping", lane[d], copies[d], left[d], Reach(d))
  <2>1. Owing(row[d], pc[d], lane[d], copies[d], left[d], Reach(d))  BY OwedParts
  <2>. HIDE DEF r
  <2>. QED  BY <1>2, <2>1 DEF Owing
<1>4. InPhase(runPhase, "dumping", left[d])  BY <1>1, OwedParts DEF InPhase
<1>5. /\ lane' = [lane EXCEPT ![d] = lane[d]]
      /\ copies' = [copies EXCEPT ![d] = copies[d]] /\ left' = [left EXCEPT ![d] = left[d]]
      /\ left[d] \in Nat /\ tripNoted' \subseteq Landings /\ tripped' \subseteq Landings
  BY <1>1, OwedParts
<1>. DEFINE ln == lane[d]  on == copies[d]  n == left[d]
<1>6. /\ lane' = [lane EXCEPT ![d] = ln]
      /\ copies' = [copies EXCEPT ![d] = on] /\ left' = [left EXCEPT ![d] = n] /\ n \in Nat
      /\ Owing(r, "dumping", ln, on, n, Reach(d)) /\ InPhase(runPhase, "dumping", n)
  BY <1>3, <1>4, <1>5
<1>. HIDE DEF r, ln, on, n
<1>. QED  BY <1>1, <1>5, <1>6, OneOwes

LEMMA AddBytesOwes ==
    ASSUME StatusAssumption, StatusIInv, OwedInv, NEW d \in DLEs, AddBytes(d)
    PROVE  OwedInv'
<1>. DEFINE fan == Cardinality({x \in Landings : lane[d][x] = "direct"}) > 1
            meters == [l \in Landings |-> IF lane[d][l] = "direct" /\ fan THEN 1
                                          ELSE row[d].drained[l]]
            r == [row[d] EXCEPT !.out = 1, !.drained = meters]
            p == pc[d]  ln == lane[d]  on == copies[d]  n == left[d]
<1>1. /\ row' = [row EXCEPT ![d] = r] /\ pc[d] = "dumping"
      /\ UNCHANGED <<routes, runPhase, skipped, canceled, pc, lane, copies, left, tripNoted, tripped>>
  BY DEF AddBytes, Set, world
<1>2. r.holding = row[d].holding /\ r.drained = meters /\ r.toHolding = row[d].toHolding
  BY RowParts DEF Row
<1>3. ~row[d].holding /\ Owing(row[d], p, ln, on, n, Reach(d)) /\ InPhase(runPhase, p, n) /\ n \in Nat
  BY <1>1, OwedParts
<1>4. \A l \in Landings : (meters[l] > 0 => row[d].drained[l] > 0 \/ ln[l] # "none")
                          /\ (row[d].toHolding => meters[l] = row[d].drained[l])
  <2>1. row[d].toHolding => \A l \in Landings : lane[d][l] # "direct"
    BY <1>1, RowParts DEF DumpFits, NotYetDrained
  <2>. QED  BY <2>1
<1>5. Owing(r, p, ln, on, n, Reach(d))
  <2>. HIDE DEF r, meters, p, ln, on, n
  <2>. QED  BY <1>2, <1>3, <1>4 DEF Owing
<1>6. /\ pc' = [pc EXCEPT ![d] = p] /\ lane' = [lane EXCEPT ![d] = ln]
      /\ copies' = [copies EXCEPT ![d] = on] /\ left' = [left EXCEPT ![d] = n]
      /\ tripNoted' \subseteq Landings /\ tripped' \subseteq Landings
  BY <1>1, OwedParts
<1>7. row' = [row EXCEPT ![d] = r] /\ UNCHANGED <<routes, runPhase, skipped, canceled>>  BY <1>1
<1>. HIDE DEF r, p, ln, on, n
<1>. QED  BY <1>3, <1>5, <1>6, <1>7, OneOwes

LEMMA DropLaneOwes ==
    ASSUME StatusAssumption, StatusIInv, OwedInv, NEW d \in DLEs, NEW l \in Landings, DropLane(d, l)
    PROVE  OwedInv'
<1>. DEFINE r == row[d]  p == pc[d]  on == copies[d]  n == left[d]
            ln == [lane[d] EXCEPT ![l] = "broken"]
<1>1. /\ lane' = [lane EXCEPT ![d] = ln] /\ pc[d] = "dumping" /\ lane[d][l] = "direct"
      /\ UNCHANGED <<routes, runPhase, skipped, canceled, row, pc, copies, left>>
      /\ tripNoted' = tripNoted \cup {l} /\ tripped' = tripped \cup {l}
  BY DEF DropLane, Trip
<1>2. ~row[d].holding /\ Owing(row[d], p, lane[d], on, n, Reach(d)) /\ InPhase(runPhase, p, n) /\ n \in Nat
  BY <1>1, OwedParts
<1>3. \A x \in Landings : ln[x] # "none" => lane[d][x] # "none"  BY <1>1, RowParts
<1>4. Owing(r, p, ln, on, n, Reach(d))
  <2>. HIDE DEF ln, p, on, n
  <2>1. p # "idle"  BY <1>1 DEF p
  <2>. QED  BY <1>2, <1>3, <2>1 DEF Owing
<1>5. /\ pc' = [pc EXCEPT ![d] = p] /\ row' = [row EXCEPT ![d] = r]
      /\ copies' = [copies EXCEPT ![d] = on] /\ left' = [left EXCEPT ![d] = n]
      /\ tripNoted' \subseteq Landings /\ tripped' \subseteq Landings
  BY <1>1, OwedParts
<1>6. lane' = [lane EXCEPT ![d] = ln] /\ UNCHANGED <<routes, runPhase, skipped, canceled>>  BY <1>1
<1>. HIDE DEF r, p, ln, on, n
<1>. QED  BY <1>2, <1>4, <1>5, <1>6, OneOwes

LEMMA CommitStagedOwes ==
    ASSUME StatusAssumption, StatusIInv, OwedInv, NEW d \in DLEs, CommitStaged(d)
    PROVE  OwedInv'
<1>. DEFINE drains == {l \in Landings : lane[d][l] = "queued"} \ tripped
            r == [row[d] EXCEPT !.holding = TRUE, !.out = ArchiveSize]
            ln == [l \in Landings |-> IF l \in drains THEN "queued" ELSE "none"]
            on == copies[d]  n == Cardinality(drains)
<1>1. /\ row' = [row EXCEPT ![d] = r] /\ pc' = [pc EXCEPT ![d] = "returning"]
      /\ lane' = [lane EXCEPT ![d] = ln] /\ left' = [left EXCEPT ![d] = n]
      /\ pc[d] = "dumping" /\ row[d].toHolding
      /\ UNCHANGED <<routes, runPhase, skipped, canceled, copies, tripNoted, tripped>>
  BY DEF CommitStaged, Set
<1>2. r.holding /\ r.drained = row[d].drained /\ r.toHolding = row[d].toHolding
  BY RowParts DEF Row
<1>3. n \in Nat
  <2>1. drains \in SUBSET Landings /\ IsFiniteSet(Landings)  BY DEF StatusAssumption
  <2>. HIDE DEF drains
  <2>. QED  BY <2>1, FS_Subset, FS_CardinalityType
<1>4. Pending(ln) = drains /\ \A l \in Landings : ln[l] # "none" => lane[d][l] # "none"
  BY DEF Pending
<1>5. copies[d] = {} /\ \A l \in Landings : row[d].drained[l] = 0
  BY <1>1, RowParts DEF DumpFits, NotYetDrained
<1>6. Owing(row[d], pc[d], lane[d], on, left[d], Reach(d)) /\ runPhase \notin {"opening", "done", "failed", "canceled"}
  BY <1>1, OwedParts DEF Terminal
<1>7. Owing(r, "returning", ln, on, n, Reach(d))
  <2>1. n = Cardinality(Pending(ln))  BY <1>4
  <2>. HIDE DEF r, ln, n
  <2>. QED  BY <1>2, <1>4, <1>5, <1>6, <2>1 DEF Owing
<1>8. /\ copies' = [copies EXCEPT ![d] = on]
      /\ tripNoted' \subseteq Landings /\ tripped' \subseteq Landings
  BY <1>1, OwedParts
<1>9. InPhase(runPhase, "returning", n)  BY <1>6 DEF InPhase
<1>. HIDE DEF r, ln, on, n, drains
<1>. QED  BY <1>1, <1>3, <1>7, <1>8, <1>9, OneOwes

LEMMA CommitDirectOwes ==
    ASSUME StatusAssumption, StatusIInv, OwedInv, NEW d \in DLEs, CommitDirect(d)
    PROVE  OwedInv'
<1>. DEFINE on == {l \in Landings : lane[d][l] = "direct"}
            meters == [l \in Landings |-> IF l \in on /\ row[d].drained[l] > 0 THEN ArchiveSize
                                          ELSE row[d].drained[l]]
            r == [row[d] EXCEPT !.out = ArchiveSize, !.drained = meters]
            ln == [l \in Landings |-> "none"]
            n == left[d]
<1>1. /\ row' = [row EXCEPT ![d] = r] /\ pc' = [pc EXCEPT ![d] = "returning"]
      /\ lane' = [lane EXCEPT ![d] = ln] /\ copies' = [copies EXCEPT ![d] = on]
      /\ pc[d] = "dumping" /\ ~row[d].toHolding
      /\ UNCHANGED <<routes, runPhase, skipped, canceled, left, tripNoted, tripped>>
  BY DEF CommitDirect, Set
<1>2. r.holding = row[d].holding /\ r.drained = meters /\ r.toHolding = row[d].toHolding
  BY RowParts DEF Row
<1>3. /\ ~row[d].holding /\ Owing(row[d], pc[d], lane[d], copies[d], n, Reach(d)) /\ n \in Nat
      /\ runPhase \notin {"opening", "done", "failed", "canceled"}
  BY <1>1, OwedParts DEF Terminal
<1>4. \A l \in Landings : /\ meters[l] > 0 => row[d].drained[l] > 0
                          /\ l \in on => lane[d][l] # "none"
                          /\ ln[l] = "none"
  BY RowParts
<1>5. Owing(r, "returning", ln, on, n, Reach(d))
  <2>. HIDE DEF r, meters, ln, on, n
  <2>. QED  BY <1>1, <1>2, <1>3, <1>4 DEF Owing
<1>6. /\ left' = [left EXCEPT ![d] = n] /\ tripNoted' \subseteq Landings /\ tripped' \subseteq Landings
  BY <1>1, OwedParts
<1>7. InPhase(runPhase, "returning", n)  BY <1>3 DEF InPhase
<1>. HIDE DEF r, ln, on, n, meters
<1>. QED  BY <1>1, <1>3, <1>5, <1>6, <1>7, OneOwes

LEMMA FinishDLEOwes ==
    ASSUME StatusAssumption, StatusIInv, OwedInv, NEW d \in DLEs, FinishDLE(d)
    PROVE  OwedInv'
<1>. DEFINE r == [row[d] EXCEPT !.state = "done"]
            ln == lane[d]  on == copies[d]  n == left[d]
<1>1. /\ row' = [row EXCEPT ![d] = r] /\ pc' = [pc EXCEPT ![d] = "over"] /\ pc[d] = "returning"
      /\ UNCHANGED <<routes, runPhase, skipped, canceled, lane, copies, left, tripNoted, tripped>>
  BY DEF FinishDLE, SetAndMark, Set
<1>2. r.holding = row[d].holding /\ r.drained = row[d].drained /\ r.toHolding = row[d].toHolding
  BY RowParts DEF Row
<1>3. /\ Owing(row[d], pc[d], ln, on, n, Reach(d)) /\ n \in Nat
      /\ runPhase \notin {"opening", "done", "failed", "canceled"}
  BY <1>1, OwedParts DEF Terminal
<1>4. Owing(r, "over", ln, on, n, Reach(d))
  <2>. HIDE DEF r, ln, on, n
  <2>. QED  BY <1>2, <1>3 DEF Owing
<1>5. /\ lane' = [lane EXCEPT ![d] = ln] /\ copies' = [copies EXCEPT ![d] = on]
      /\ left' = [left EXCEPT ![d] = n] /\ tripNoted' \subseteq Landings /\ tripped' \subseteq Landings
  BY <1>1, OwedParts
<1>6. InPhase(runPhase, "over", n)  BY <1>3 DEF InPhase
<1>7. /\ row' = [row EXCEPT ![d] = r] /\ pc' = [pc EXCEPT ![d] = "over"]
      /\ UNCHANGED <<routes, runPhase, skipped, canceled>>
  BY <1>1
<1>. HIDE DEF r, ln, on, n
<1>. QED  BY <1>3, <1>4, <1>5, <1>6, <1>7, OneOwes

\* The drains: they leave the dump where it is, and owe no more than was owed.
LEMMA DrainOwes ==
    ASSUME StatusIInv, OwedInv, NEW d \in DLEs, NEW r, NEW ln, NEW on, NEW n \in Nat,
           row' = [row EXCEPT ![d] = r], lane' = [lane EXCEPT ![d] = ln],
           copies' = [copies EXCEPT ![d] = on], left' = [left EXCEPT ![d] = n],
           UNCHANGED <<routes, runPhase, skipped, canceled, pc>>,
           tripNoted' \subseteq Landings, tripped' \subseteq Landings,
           Owing(r, pc[d], ln, on, n, Reach(d)), n <= left[d]
    PROVE  OwedInv'
<1>. DEFINE p == pc[d]
<1>1. pc' = [pc EXCEPT ![d] = p] /\ left[d] \in Nat /\ InPhase(runPhase, p, left[d])  BY OwedParts
<1>2. InPhase(runPhase, p, n) /\ Owing(r, p, ln, on, n, Reach(d))
  <2>1. left[d] = 0 => n = 0  BY <1>1
  <2>. QED  BY <1>1, <2>1 DEF InPhase
<1>. HIDE DEF p
<1>. QED  BY <1>1, <1>2, OneOwes

\* A lane that goes on counts as it did.
LEMMA StillPending ==
    ASSUME StatusIInv, NEW d \in DLEs, NEW l \in Landings, NEW b \in {"queued", "copying", "broken", "void"},
           lane[d][l] \in {"queued", "copying", "broken", "void"}
    PROVE  /\ Pending([lane[d] EXCEPT ![l] = b]) = Pending(lane[d]) /\ l \in Pending(lane[d])
           /\ \A x \in Landings : [lane[d] EXCEPT ![l] = b][x] # "none" => lane[d][x] # "none"
BY RowParts DEF Pending

\* Some drain is owed while one is under way.
LEMMA PendingIsOwed ==
    ASSUME StatusAssumption, StatusIInv, OwedInv, NEW d \in DLEs, NEW l \in Pending(lane[d]), row[d].holding
    PROVE  /\ left[d] \in Nat /\ left[d] > 0 /\ left[d] = Cardinality(Pending(lane[d]))
           /\ Cardinality(Pending(lane[d]) \ {l}) = left[d] - 1
<1>1. IsFiniteSet(Pending(lane[d]))
  <2>1. Pending(lane[d]) \in SUBSET Landings /\ IsFiniteSet(Landings)  BY DEF Pending, StatusAssumption
  <2>. QED  BY <2>1, FS_Subset
<1>2. left[d] = Cardinality(Pending(lane[d])) /\ left[d] \in Nat  BY OwedParts DEF Owing
<1>3. /\ Cardinality(Pending(lane[d]) \ {l}) = Cardinality(Pending(lane[d])) - 1
      /\ Cardinality(Pending(lane[d]) \ {l}) \in Nat
  BY <1>1, FS_RemoveElement, FS_CardinalityType, FS_Subset
<1>. QED  BY <1>2, <1>3

LEMMA StartFlushOwes ==
    ASSUME StatusAssumption, StatusIInv, OwedInv, NEW d \in DLEs, NEW l \in Landings, StartFlush(d, l)
    PROVE  OwedInv'
<1>. DEFINE r == [row[d] EXCEPT !.state = "flushing"]
            ln == [lane[d] EXCEPT ![l] = "copying"]
            on == copies[d]  n == left[d]
<1>1. /\ row' = [row EXCEPT ![d] = r] /\ lane' = [lane EXCEPT ![d] = ln]
      /\ UNCHANGED <<routes, runPhase, skipped, canceled, pc, copies, left, tripNoted, tripped>>
      /\ row[d].holding /\ lane[d][l] = "queued"
  BY DEF StartFlush, Delivered, SetAndMark, Set
<1>2. r.holding = row[d].holding /\ r.drained = row[d].drained /\ r.toHolding = row[d].toHolding
  BY RowParts DEF Row
<1>3. Pending(ln) = Pending(lane[d]) /\ \A x \in Landings : ln[x] # "none" => lane[d][x] # "none"
  BY <1>1, StillPending
<1>4. Owing(row[d], pc[d], lane[d], on, n, Reach(d)) /\ n \in Nat /\ pc[d] # "idle"
  BY <1>1, OwedParts
<1>5. Owing(r, pc[d], ln, on, n, Reach(d))
  <2>. HIDE DEF r, ln, on, n
  <2>. QED  BY <1>1, <1>2, <1>3, <1>4 DEF Owing
<1>6. /\ copies' = [copies EXCEPT ![d] = on] /\ left' = [left EXCEPT ![d] = n] /\ n <= left[d]
      /\ tripNoted' \subseteq Landings /\ tripped' \subseteq Landings
  BY <1>1, OwedParts
<1>7. /\ row' = [row EXCEPT ![d] = r] /\ lane' = [lane EXCEPT ![d] = ln]
      /\ UNCHANGED <<routes, runPhase, skipped, canceled, pc>>
  BY <1>1
<1>. HIDE DEF r, ln, on, n
<1>. QED  BY <1>4, <1>5, <1>6, <1>7, DrainOwes

LEMMA AddDrainBytesOwes ==
    ASSUME StatusAssumption, StatusIInv, OwedInv, NEW d \in DLEs, NEW l \in Landings, AddDrainBytes(d, l)
    PROVE  OwedInv'
<1>. DEFINE meters == [row[d].drained EXCEPT ![l] = 1]
            r == [row[d] EXCEPT !.drained = meters]
            ln == lane[d]  on == copies[d]  n == left[d]
<1>1. /\ row' = [row EXCEPT ![d] = r] /\ lane[d][l] = "copying"
      /\ UNCHANGED <<routes, runPhase, skipped, canceled, pc, lane, copies, left, tripNoted, tripped>>
  BY RowParts DEF AddDrainBytes, Set, world, Row
<1>2. /\ r.holding = row[d].holding /\ r.drained = meters /\ r.toHolding = row[d].toHolding
      /\ \A x \in Landings : meters[x] = IF x = l THEN 1 ELSE row[d].drained[x]
  BY RowParts DEF Row
<1>3. row[d].holding /\ l \in Pending(lane[d])  BY <1>1, CopiesAreStaged DEF Pending
<1>4. Owing(row[d], pc[d], ln, on, n, Reach(d)) /\ n \in Nat /\ n > 0
  BY <1>3, OwedParts, PendingIsOwed
<1>5. Owing(r, pc[d], ln, on, n, Reach(d))
  <2>1. ln[l] # "none"  BY <1>1
  <2>. HIDE DEF r, meters, ln, on, n
  <2>. QED  BY <1>2, <1>3, <1>4, <2>1 DEF Owing
<1>6. /\ lane' = [lane EXCEPT ![d] = ln]
      /\ copies' = [copies EXCEPT ![d] = on] /\ left' = [left EXCEPT ![d] = n] /\ n <= left[d]
      /\ tripNoted' \subseteq Landings /\ tripped' \subseteq Landings
  BY <1>1, OwedParts
<1>7. row' = [row EXCEPT ![d] = r] /\ UNCHANGED <<routes, runPhase, skipped, canceled, pc>>
  BY <1>1
<1>. HIDE DEF r, ln, on, n, meters
<1>. QED  BY <1>4, <1>5, <1>6, <1>7, DrainOwes

LEMMA DrainLandsOwes ==
    ASSUME StatusAssumption, StatusIInv, OwedInv, NEW d \in DLEs, NEW l \in Landings, DrainLands(d, l)
    PROVE  OwedInv'
<1>. DEFINE r == row[d]
            ln == [lane[d] EXCEPT ![l] = "void"]
            on == copies[d] \cup {l}
            n == left[d]
<1>1. /\ lane' = [lane EXCEPT ![d] = ln] /\ copies' = [copies EXCEPT ![d] = on] /\ lane[d][l] = "copying"
      /\ UNCHANGED <<routes, runPhase, skipped, canceled, row, pc, left, tripNoted, tripped>>
  BY DEF DrainLands, snap
<1>2. Pending(ln) = Pending(lane[d]) /\ \A x \in Landings : ln[x] # "none" => lane[d][x] # "none"
  BY <1>1, StillPending
<1>3. row[d].holding  BY <1>1, CopiesAreStaged
<1>4. Owing(row[d], pc[d], lane[d], copies[d], n, Reach(d)) /\ n \in Nat /\ pc[d] # "idle"
  BY <1>1, <1>3, OwedParts
<1>5. Owing(r, pc[d], ln, on, n, Reach(d))
  <2>1. \A x \in on : x \in copies[d] \/ x = l  OBVIOUS
  <2>. HIDE DEF ln, on, n
  <2>. QED  BY <1>1, <1>2, <1>3, <1>4, <2>1 DEF Owing
<1>6. /\ row' = [row EXCEPT ![d] = r] /\ left' = [left EXCEPT ![d] = n] /\ n <= left[d]
      /\ tripNoted' \subseteq Landings /\ tripped' \subseteq Landings
  BY <1>1, <1>4, OwedParts
<1>7. /\ copies' = [copies EXCEPT ![d] = on] /\ lane' = [lane EXCEPT ![d] = ln]
      /\ UNCHANGED <<routes, runPhase, skipped, canceled, pc>>
  BY <1>1
<1>. HIDE DEF r, ln, on, n
<1>. QED  BY <1>4, <1>5, <1>6, <1>7, DrainOwes

LEMMA DrainFailsOwes ==
    ASSUME StatusAssumption, StatusIInv, OwedInv, NEW d \in DLEs, NEW l \in Landings, DrainFails(d, l)
    PROVE  OwedInv'
<1>. DEFINE r == row[d]
            ln == [lane[d] EXCEPT ![l] = "broken"]
            on == copies[d]
            n == left[d]
<1>1. /\ lane' = [lane EXCEPT ![d] = ln] /\ lane[d][l] = "copying"
      /\ UNCHANGED <<routes, runPhase, skipped, canceled, row, pc, copies, left>>
      /\ tripNoted' = tripNoted \cup {l} /\ tripped' = tripped \cup {l}
  BY DEF DrainFails, Trip
<1>2. Pending(ln) = Pending(lane[d]) /\ \A x \in Landings : ln[x] # "none" => lane[d][x] # "none"
  BY <1>1, StillPending
<1>3. row[d].holding  BY <1>1, CopiesAreStaged
<1>4. Owing(row[d], pc[d], lane[d], on, n, Reach(d)) /\ n \in Nat /\ pc[d] # "idle"
  BY <1>1, <1>3, OwedParts
<1>5. Owing(r, pc[d], ln, on, n, Reach(d))
  <2>. HIDE DEF ln, on, n
  <2>. QED  BY <1>1, <1>2, <1>3, <1>4 DEF Owing
<1>6. /\ row' = [row EXCEPT ![d] = r] /\ left' = [left EXCEPT ![d] = n] /\ n <= left[d]
      /\ copies' = [copies EXCEPT ![d] = on]
      /\ tripNoted' \subseteq Landings /\ tripped' \subseteq Landings
  BY <1>1, <1>4, OwedParts
<1>7. lane' = [lane EXCEPT ![d] = ln] /\ UNCHANGED <<routes, runPhase, skipped, canceled, pc>>
  BY <1>1
<1>. HIDE DEF r, ln, on, n
<1>. QED  BY <1>4, <1>5, <1>6, <1>7, DrainOwes

LEMMA VoidMeterOwes ==
    ASSUME StatusAssumption, StatusIInv, OwedInv, NEW d \in DLEs, NEW l \in Landings, VoidMeter(d, l)
    PROVE  OwedInv'
<1>. DEFINE meters == [row[d].drained EXCEPT ![l] = 0]
            r == [row[d] EXCEPT !.drained = meters]
            ln == [lane[d] EXCEPT ![l] = "void"]
            on == copies[d]  n == left[d]
<1>1. /\ row' = [row EXCEPT ![d] = r] /\ lane' = [lane EXCEPT ![d] = ln]
      /\ lane[d][l] = "broken" /\ row[d].holding
      /\ UNCHANGED <<routes, runPhase, skipped, canceled, pc, copies, left, tripNoted, tripped>>
  BY RowParts DEF VoidMeter, Set, Row
<1>2. /\ r.holding = row[d].holding /\ r.drained = meters /\ r.toHolding = row[d].toHolding
      /\ \A x \in Landings : meters[x] = IF x = l THEN 0 ELSE row[d].drained[x]
  BY RowParts DEF Row
<1>3. Pending(ln) = Pending(lane[d]) /\ \A x \in Landings : ln[x] # "none" => lane[d][x] # "none"
  BY <1>1, StillPending
<1>4. Owing(row[d], pc[d], lane[d], on, n, Reach(d)) /\ n \in Nat /\ pc[d] # "idle"
  BY <1>1, OwedParts
<1>5. Owing(r, pc[d], ln, on, n, Reach(d))
  <2>. HIDE DEF r, meters, ln, on, n
  <2>. QED  BY <1>1, <1>2, <1>3, <1>4 DEF Owing
<1>6. /\ copies' = [copies EXCEPT ![d] = on] /\ left' = [left EXCEPT ![d] = n] /\ n <= left[d]
      /\ tripNoted' \subseteq Landings /\ tripped' \subseteq Landings
  BY <1>1, <1>4, OwedParts
<1>7. /\ row' = [row EXCEPT ![d] = r] /\ lane' = [lane EXCEPT ![d] = ln]
      /\ UNCHANGED <<routes, runPhase, skipped, canceled, pc>>
  BY <1>1
<1>. HIDE DEF r, ln, on, n, meters
<1>. QED  BY <1>4, <1>5, <1>6, <1>7, DrainOwes

\* The last count leaves a meter at nothing or at all of it: settled where anything landed, and
\* otherwise as the drains that failed left it.
LEMMA CountDrainOwes ==
    ASSUME StatusAssumption, StatusIInv, OwedInv, NEW d \in DLEs, NEW l \in Landings, CountDrain(d, l)
    PROVE  OwedInv'
<1>. DEFINE ln == [lane[d] EXCEPT ![l] = "counted"]
            on == copies[d]
            settled == [row[d] EXCEPT !.state = "done", !.drained = Settled(row[d])]
            r == IF left[d] = 1 /\ copies[d] # {} THEN settled ELSE row[d]
            n == left[d] - 1
<1>1. /\ lane' = [lane EXCEPT ![d] = ln] /\ left' = [left EXCEPT ![d] = n] /\ lane[d][l] = "void"
      /\ UNCHANGED <<routes, runPhase, skipped, canceled, pc, copies, tripNoted, tripped>>
  BY DEF CountDrain
<1>2. row' = [row EXCEPT ![d] = r]
  <2>1. CASE left[d] = 1 /\ copies[d] # {}  BY <2>1 DEF CountDrain, Set
  <2>2. CASE ~(left[d] = 1 /\ copies[d] # {})  BY <2>2, Unmoved DEF CountDrain
  <2>. QED  BY <2>1, <2>2
<1>3. row[d].holding /\ l \in Pending(lane[d])  BY <1>1, CopiesAreStaged DEF Pending
<1>4. /\ row[d].out = ArchiveSize /\ ArchiveSize \in Nat /\ ArchiveSize > 0
      /\ \A x \in Landings : LaneMetered(row[d].drained[x], lane[d][x], x \in copies[d])
  BY <1>3, StagedIsOver DEF StatusAssumption
<1>5. \A x \in Landings : Settled(row[d])[x] = IF row[d].drained[x] > 0 THEN ArchiveSize ELSE 0
  BY <1>4, RowParts DEF Settled
<1>6. settled.holding /\ settled.drained = Settled(row[d])  BY <1>3, RowParts DEF Row
<1>7. /\ r.holding
      /\ \A x \in Landings : r.drained[x] > 0 => row[d].drained[x] > 0
      /\ left[d] = 1 /\ copies[d] # {} => \A x \in Landings : r.drained[x] \in {0, ArchiveSize}
      /\ ~(left[d] = 1 /\ copies[d] # {}) => r.drained = row[d].drained
  <2>. HIDE DEF settled
  <2>. QED  BY <1>3, <1>5, <1>6
<1>8. Pending(ln) = Pending(lane[d]) \ {l} /\ \A x \in Landings : ln[x] # "none" => lane[d][x] # "none"
  BY <1>1, RowParts DEF Pending
<1>9. n \in Nat /\ n <= left[d] /\ n = Cardinality(Pending(ln)) /\ left[d] \in Nat
  BY <1>3, <1>8, PendingIsOwed
<1>10. Owing(row[d], pc[d], lane[d], on, left[d], Reach(d)) /\ pc[d] # "idle"
  BY <1>3, OwedParts
<1>11. ASSUME n = 0, NEW x \in Landings PROVE r.drained[x] \in {0, ArchiveSize}
  <2>1. left[d] = 1  BY <1>9, <1>11
  <2>2. CASE copies[d] # {}  BY <1>7, <2>1, <2>2
  <2>3. CASE copies[d] = {}
    <3>1. Pending(ln) = {}
      <4>1. IsFiniteSet(Pending(ln))
        <5>1. Pending(ln) \in SUBSET Landings /\ IsFiniteSet(Landings)
          BY DEF Pending, StatusAssumption
        <5>. QED  BY <5>1, FS_Subset
      <4>. HIDE DEF ln
      <4>. QED  BY <1>9, <1>11, <4>1, FS_EmptySet
    <3>2. lane[d][x] \in Lanes /\ (lane[d][x] \in {"queued", "copying", "broken"} => x # l)
      BY <1>1, RowParts
    <3>3. lane[d][x] \in {"queued", "copying", "broken"} => x \in Pending(ln)
      BY <1>8, <3>2 DEF Pending
    <3>4. lane[d][x] \in {"none", "direct", "void", "counted"}  BY <3>1, <3>2, <3>3 DEF Lanes
    <3>5. row[d].drained[x] = 0  BY <1>4, <2>3, <3>4, RowParts DEF LaneMetered
    <3>. QED  BY <1>7, <2>3, <3>5
  <2>. QED  BY <2>2, <2>3
<1>12. Owing(r, pc[d], ln, on, n, Reach(d))
  <2>. HIDE DEF r, ln, on, n
  <2>. QED  BY <1>7, <1>8, <1>9, <1>10, <1>11 DEF Owing
<1>13. /\ copies' = [copies EXCEPT ![d] = on]
       /\ tripNoted' \subseteq Landings /\ tripped' \subseteq Landings
  BY <1>1, OwedParts
<1>14. /\ lane' = [lane EXCEPT ![d] = ln] /\ left' = [left EXCEPT ![d] = n]
       /\ UNCHANGED <<routes, runPhase, skipped, canceled, pc>>
  BY <1>1
<1>. HIDE DEF r, ln, on, n, settled
<1>. QED  BY <1>2, <1>9, <1>12, <1>13, <1>14, DrainOwes

\* Opening the landings settles the routes for the run, before any dump has a landing.
LEMMA OpenLandingsOwes ==
    ASSUME StatusAssumption, StatusIInv, OwedInv, NEW S \in SUBSET Unusable, OpenLandings(S)
    PROVE  OwedInv'
<1>1. /\ runPhase = "opening" /\ UNCHANGED <<row, tripNoted, pc, lane, left, copies, tripped, canceled>>
      /\ S \in SUBSET Landings
  BY DEF OpenLandings, world, StatusAssumption
<1>2. /\ array = Arrays /\ span = [d \in DLEs |-> Len(Arrays[TypeOf[d]])] /\ ~canceled
      /\ tripNoted \subseteq Landings /\ tripped \subseteq Landings /\ RoutesInv
  BY <1>1 DEF OwedInv, RoutesInv
<1>3. ASSUME NEW d \in DLEs, NEW reach
      PROVE  /\ Owing(row[d], pc[d], lane[d], copies[d], left[d], reach)
             /\ pc[d] = "idle" /\ left[d] = 0
  <2>1. pc[d] = "idle" /\ Owing(row[d], pc[d], lane[d], copies[d], left[d], Reach(d)) /\ ~row[d].holding
    BY <1>1, OwedParts
  <2>2. copies[d] = {} /\ \A l \in Landings : row[d].drained[l] = 0
    BY <2>1, RowParts DEF DumpFits, NotYetDrained
  <2>. QED  BY <2>1, <2>2 DEF Owing
<1>4. left' \in [DLEs -> Nat]  BY <1>1 DEF OwedInv
<1>5. CASE \E d \in DLEs : Range(Arrays[TypeOf[d]]) \subseteq S
  <2>1. runPhase' = "failed" /\ UNCHANGED <<array, span, skipped>>  BY <1>5 DEF OpenLandings, routes
  <2>2. RoutesInv'
    <3>1. skipped' \subseteq Landings /\ Shape(Routing, skipped)'
      BY <1>2, <2>1 DEF RoutesInv, Shape, Routing
    <3>2. (LastsIn(skipped) => array = Arrays /\ span = [d \in DLEs |-> CutTo(skipped, d)])'
      BY <1>2, <2>1 DEF RoutesInv, LastsIn, CutTo, Final
    <3>3. \A d \in DLEs : ~(Range(Arrays[TypeOf[d]]) \subseteq skipped')
      BY <1>2, <2>1 DEF RoutesInv
    <3>. QED  BY <1>1, <1>2, <2>1, <3>1, <3>2, <3>3 DEF RoutesInv
  <2>3. ASSUME NEW d \in DLEs
        PROVE  /\ Owing(row'[d], pc'[d], lane'[d], copies'[d], left'[d], Reach(d)')
               /\ InPhase(runPhase', pc'[d], left'[d])
    BY <1>1, <1>3, <2>1 DEF InPhase
  <2>. QED  BY <1>4, <2>2, <2>3 DEF OwedInv
<1>6. CASE ~\E d \in DLEs : Range(Arrays[TypeOf[d]]) \subseteq S
  <2>. DEFINE s == SkipLandings(S)
  <2>1. runPhase' = "running" /\ skipped' = S /\ array' = s.array /\ span' = s.span
    BY <1>6 DEF OpenLandings
  <2>2. Shape(s, S) /\ (LastsIn(S) => s = CutShort(S))  BY <1>1, <1>2, SkipsShape, SkipsCutShort
  <2>. HIDE DEF s
  <2>3. s = [array |-> s.array, span |-> s.span]  BY <2>2 DEF Shape, Routings
  <2>4. RoutesInv'
    <3>1. Shape(Routing, skipped)'
      <4>1. Routing' = s  BY <2>1, <2>3 DEF Routing
      <4>2. Shape(Routing', skipped')  BY <2>1, <2>2, <4>1
      <4>. QED  BY <4>2 DEF Shape
    <3>2. (LastsIn(skipped) => array = Arrays /\ span = [d \in DLEs |-> CutTo(skipped, d)])'
      BY <2>1, <2>2 DEF CutShort, LastsIn, CutTo, Final
    <3>3. skipped' \subseteq Landings  BY <1>1, <2>1
    <3>4. \A d \in DLEs : ~(Range(Arrays[TypeOf[d]]) \subseteq skipped')  BY <1>6, <2>1
    <3>. QED  BY <1>1, <1>2, <2>1, <3>1, <3>2, <3>3, <3>4 DEF RoutesInv
  <2>5. ASSUME NEW d \in DLEs
        PROVE  /\ Owing(row'[d], pc'[d], lane'[d], copies'[d], left'[d], Reach(d)')
               /\ InPhase(runPhase', pc'[d], left'[d])
    BY <1>1, <1>3, <2>1 DEF InPhase
  <2>. QED  BY <1>4, <2>4, <2>5 DEF OwedInv
<1>. QED  BY <1>5, <1>6

\* A step that leaves the routes, the rows and the drains alone, and moves the phase on.
LEMMA PhaseOwes ==
    ASSUME StatusIInv, OwedInv,
           UNCHANGED <<routes, skipped, tripNoted, row, pc, lane, left, copies, tripped>>,
           runPhase' \in {"running", "sealing", "done", "failed", "canceled"} \/ UNCHANGED <<runPhase, canceled>>,
           \A d \in DLEs : InPhase(runPhase', pc[d], left[d])
    PROVE  OwedInv'
<1>1. UNCHANGED <<array, span>>  BY DEF routes
<1>2. RoutesInv'
  <2>1. RoutesInv  BY DEF OwedInv
  <2>2. Shape(Routing, skipped)'  BY <1>1, <2>1 DEF RoutesInv, Shape, Routing
  <2>3. (LastsIn(skipped) => array = Arrays /\ span = [d \in DLEs |-> CutTo(skipped, d)])'
    BY <1>1, <2>1 DEF RoutesInv, LastsIn, CutTo, Final
  <2>. QED  BY <1>1, <2>1, <2>2, <2>3 DEF RoutesInv
<1>3. left' \in [DLEs -> Nat]  BY DEF OwedInv
<1>4. ASSUME NEW d \in DLEs
      PROVE  Owing(row'[d], pc'[d], lane'[d], copies'[d], left'[d], Reach(d)')
  <2>1. Reach(d)' = Reach(d)  BY <1>1 DEF Reach
  <2>. QED  BY <2>1 DEF OwedInv
<1>5. \A d \in DLEs : InPhase(runPhase', pc'[d], left'[d])  OBVIOUS
<1>. QED  BY <1>2, <1>3, <1>4, <1>5 DEF OwedInv

LEMMA StatusOwes == ASSUME StatusAssumption PROVE StatusInit => OwedInv
<1>. SUFFICES ASSUME StatusInit PROVE OwedInv  OBVIOUS
<1>. DEFINE s == [array |-> Arrays, span |-> [d \in DLEs |-> Len(Arrays[TypeOf[d]])]]
<1>1. /\ array = Arrays /\ span = [d \in DLEs |-> Len(Arrays[TypeOf[d]])]
      /\ runPhase = "opening" /\ skipped = {} /\ tripNoted = {} /\ tripped = {} /\ ~canceled
  BY DEF StatusInit
<1>2. s = CutShort({}) /\ \A d \in DLEs : CutTo({}, d) = Len(Arrays[TypeOf[d]])
  BY DEF CutShort, CutTo
<1>3. Shape(s, {})
  <2>1. s \in Routings
    <3>1. Arrays \in [DOMAIN Arrays -> Seq(Landings)] /\ \A d \in DLEs : Len(Arrays[TypeOf[d]]) \in Nat
      BY ListFacts DEF StatusAssumption
    <3>. QED  BY <3>1 DEF Routings
  <2>. QED  BY <2>1, ListFacts DEF Shape, StatusAssumption
<1>4. \A d \in DLEs : ~(Range(Arrays[TypeOf[d]]) \subseteq {})
  <2>. SUFFICES ASSUME NEW d \in DLEs PROVE Range(Arrays[TypeOf[d]]) # {}  OBVIOUS
  <2>1. 1 \in DOMAIN Arrays[TypeOf[d]]  BY ListFacts
  <2>. QED  BY <2>1 DEF Range
<1>5. RoutesInv
  <2>1. Routing = s  BY <1>1 DEF Routing
  <2>. HIDE DEF s
  <2>. QED  BY <1>1, <1>2, <1>3, <1>4, <2>1 DEF RoutesInv
<1>6. ASSUME NEW d \in DLEs
      PROVE  Owing(row[d], pc[d], lane[d], copies[d], left[d], Reach(d)) /\ InPhase(runPhase, pc[d], left[d])
  BY DEF StatusInit, Owing, InPhase
<1>7. left \in [DLEs -> Nat]  BY DEF StatusInit
<1>. QED  BY <1>5, <1>6, <1>7 DEF OwedInv

LEMMA OwedInductive ==
    ASSUME StatusAssumption, StatusIInv, OwedInv, [StatusNext]_statusVars
    PROVE  OwedInv'
<1>1. ASSUME NEW S \in SUBSET Unusable, OpenLandings(S) PROVE OwedInv'
  BY <1>1, OpenLandingsOwes
<1>2. ASSUME NEW d \in DLEs, NEW onDisk \in BOOLEAN, Acquire(d, onDisk) PROVE OwedInv'
  BY <1>2, AcquireOwes
<1>3. ASSUME NEW d \in DLEs,
             \/ FailDump(d) \/ NotStarted(d) \/ StartDLE(d) \/ AddBytes(d)
             \/ CommitStaged(d) \/ CommitDirect(d) \/ FinishDLE(d)
      PROVE  OwedInv'
  BY <1>3, FailDumpOwes, NotStartedOwes, StartDLEOwes, AddBytesOwes, CommitStagedOwes,
     CommitDirectOwes, FinishDLEOwes
<1>4. ASSUME NEW d \in DLEs, NEW l \in Landings,
             \/ DropLane(d, l) \/ StartFlush(d, l) \/ AddDrainBytes(d, l) \/ DrainLands(d, l)
             \/ DrainFails(d, l) \/ VoidMeter(d, l) \/ CountDrain(d, l)
      PROVE  OwedInv'
  BY <1>4, DropLaneOwes, StartFlushOwes, AddDrainBytesOwes, DrainLandsOwes, DrainFailsOwes,
     VoidMeterOwes, CountDrainOwes
<1>. DEFINE kept == /\ UNCHANGED <<routes, skipped, tripNoted, row, pc, lane, left, copies, tripped>>
<1>5. \A d \in DLEs : InPhase(runPhase, pc[d], left[d])  BY DEF OwedInv
<1>6. CASE Cancel
  <2>1. kept /\ runPhase = "running" /\ runPhase' = runPhase  BY <1>6 DEF Cancel, snap
  <2>. QED  BY <1>5, <2>1, PhaseOwes
<1>7. CASE Seal
  <2>1. kept /\ runPhase' = "sealing"  BY <1>7 DEF Seal, world
  <2>2. \A d \in DLEs : InPhase(runPhase', pc[d], left[d])  BY <2>1 DEF InPhase
  <2>. QED  BY <2>1, <2>2, PhaseOwes
<1>8. CASE EndRun
  <2>1. /\ kept /\ runPhase' \in {"done", "failed", "canceled"}
        /\ \A d \in DLEs : pc[d] = "over" /\ left[d] = 0
    BY <1>8 DEF EndRun, world
  <2>2. \A d \in DLEs : InPhase(runPhase', pc[d], left[d])  BY <2>1 DEF InPhase
  <2>. QED  BY <2>1, <2>2, PhaseOwes
<1>9. CASE UNCHANGED statusVars
  <2>1. kept /\ UNCHANGED <<runPhase, canceled>>  BY <1>9 DEF statusVars, snap, world
  <2>. QED  BY <1>5, <2>1, PhaseOwes
<1>. QED  BY <1>1, <1>2, <1>3, <1>4, <1>6, <1>7, <1>8, <1>9 DEF StatusNext

LEMMA OwedAlways == ASSUME StatusAssumption PROVE StatusSpec => []OwedInv
<1>1. StatusInit => OwedInv  BY StatusOwes
<1>2. StatusIInv /\ OwedInv /\ [StatusNext]_statusVars => OwedInv'  BY OwedInductive
<1>. QED  BY <1>1, <1>2, StatusAlways, PTL DEF StatusSpec

-----------------------------------------------------------------------------
\* What the two invariants say of the totals.

\* What is left of a row's list: never nothing, never more than its route.
LEMMA ReachFits ==
    ASSUME StatusAssumption, OwedInv, NEW d \in DLEs
    PROVE  LET t == TypeOf[d] IN
           /\ array[t] \in Seq(Landings) /\ span[d] \in Nat /\ span[d] > 0 /\ span[d] <= Len(array[t])
           /\ Reach(d) \in SUBSET Landings /\ IsFiniteSet(Reach(d))
           /\ Cardinality(Reach(d)) \in Nat /\ Cardinality(Reach(d)) > 0
           /\ Cardinality(Reach(d)) <= span[d]
<1>. DEFINE t == TypeOf[d]
            g == [j \in 1 .. span[d] |-> array[t][j]]
            on == {g[j] : j \in 1 .. span[d]}
<1>1. RoutesInv /\ Shape(Routing, skipped)  BY DEF OwedInv, RoutesInv
<1>2. /\ t \in DOMAIN Arrays /\ array[t] \in Seq(Landings) /\ span[d] \in Nat
      /\ Len(array[t]) = Len(Arrays[t]) /\ span[d] <= Len(Arrays[t]) /\ Len(Arrays[t]) \in Nat
      /\ \A j \in 1 .. Len(Arrays[t]) : \E i \in 1 .. Len(Arrays[t]) : array[t][j] = Arrays[t][i]
      /\ \A i \in 1 .. Len(Arrays[t]) : Arrays[t][i] \notin skipped =>
           \E j \in 1 .. span[d] : array[t][j] = Arrays[t][i]
  <2>1. Routing \in Routings /\ Routing.array = array /\ Routing.span = span
    BY <1>1 DEF Shape, Routing
  <2>2. array \in [DOMAIN Arrays -> Seq(Landings)] /\ span \in [DLEs -> Nat]  BY <2>1 DEF Routings
  <2>. QED  BY <1>1, <2>1, <2>2, ListFacts DEF Shape
<1>3. DOMAIN Arrays[t] = 1 .. Len(Arrays[t]) /\ DOMAIN array[t] = 1 .. Len(Arrays[t])
  BY <1>2, ListFacts
<1>4. Reach(d) \in SUBSET on
  <2>. SUFFICES ASSUME NEW j \in 1 .. Len(Arrays[t]), array[t][j] \notin skipped
                PROVE  \E i \in 1 .. span[d] : array[t][j] = array[t][i]
    BY <1>3 DEF Reach, Range
  <2>1. PICK i \in 1 .. Len(Arrays[t]) : array[t][j] = Arrays[t][i]  BY <1>2
  <2>. QED  BY <1>2, <2>1
<1>5. IsFiniteSet(on) /\ Cardinality(on) <= span[d] /\ Cardinality(on) \in Nat
  <2>1. IsFiniteSet(1 .. span[d]) /\ Cardinality(1 .. span[d]) = span[d]
    <3>. DEFINE n == span[d]
    <3>1. n \in Nat  BY <1>2
    <3>. HIDE DEF n
    <3>2. IsFiniteSet(1 .. n) /\ Cardinality(1 .. n) = IF 1 > n THEN 0 ELSE n - 1 + 1
      BY <3>1, FS_Interval
    <3>3. IsFiniteSet(1 .. n) /\ Cardinality(1 .. n) = n  BY <3>1, <3>2
    <3>. QED  BY <3>3 DEF n
  <2>2. g \in Surjection(1 .. span[d], on)  BY DEF Surjection
  <2>. HIDE DEF g, on
  <2>. QED  BY <2>1, <2>2, FS_Surjection, FS_CardinalityType
<1>6. Reach(d) # {}
  <2>1. PICK i \in 1 .. Len(Arrays[t]) : Arrays[t][i] \notin skipped
    BY <1>1, <1>3 DEF RoutesInv, Range
  <2>2. PICK j \in 1 .. span[d] : array[t][j] = Arrays[t][i]  BY <1>2, <2>1
  <2>3. j \in DOMAIN array[t]  BY <1>2, <1>3
  <2>. QED  BY <2>1, <2>2, <2>3 DEF Reach, Range
<1>7. Reach(d) \in SUBSET Landings
  <2>1. \A j \in 1 .. Len(Arrays[t]) : array[t][j] \in Landings  BY <1>2
  <2>. QED  BY <1>3, <2>1 DEF Reach, Range
<1>. HIDE DEF on
<1>8. IsFiniteSet(Reach(d)) /\ Cardinality(Reach(d)) <= Cardinality(on) /\ Cardinality(Reach(d)) \in Nat
  BY <1>4, <1>5, FS_Subset, FS_CardinalityType
<1>9. Cardinality(Reach(d)) # 0  BY <1>6, <1>8, FS_EmptySet
<1>. QED  BY <1>2, <1>5, <1>7, <1>8, <1>9

LEMMA Times ==
    ASSUME NEW n \in Nat, NEW a \in Nat, NEW b \in Nat, a <= b
    PROVE  n * a \in Nat /\ n * b \in Nat /\ n * a <= n * b /\ (n > 0 /\ a < b => n * a < n * b)
<1>1. PICK k \in Nat : b = a + k
  <2>1. b - a \in Nat /\ b = a + (b - a)  OBVIOUS
  <2>. QED  BY <2>1
<1>2. n * b = n * a + n * k /\ n * a \in Nat /\ n * k \in Nat  BY <1>1
<1>3. n > 0 /\ k > 0 => n * k > 0  BY <1>1
<1>. QED  BY <1>1, <1>2, <1>3

\* What is drained of an archive is in meters of landings it reaches, none beyond its size.
LEMMA DrainFits ==
    ASSUME StatusAssumption, StatusIInv, OwedInv, NEW d \in DLEs
    PROVE  /\ DrainBytes(d) \in Nat /\ DrainBytes(d) <= ArchiveSize * Cardinality(Reach(d))
           /\ (\A l \in Landings : row[d].drained[l] = 0) => DrainBytes(d) = 0
<1>. DEFINE f == row[d].drained
            g == [l \in Landings |-> IF l \in Reach(d) THEN ArchiveSize ELSE 0]
<1>1. IsFiniteSet(Landings) /\ ArchiveSize \in Nat  BY DEF StatusAssumption
<1>2. \A l \in Landings : f[l] \in Nat /\ g[l] \in Nat /\ f[l] <= g[l]
  <2>. SUFFICES ASSUME NEW l \in Landings PROVE f[l] \in 0 .. ArchiveSize /\ (f[l] > 0 => l \in Reach(d))
    BY <1>1
  <2>. QED  BY RowParts, OwedParts DEF Owing
<1>3. SumOver(g, Landings) = ArchiveSize * Cardinality(Reach(d))
  <2>1. Reach(d) \in SUBSET Landings  BY ReachFits
  <2>2. \A l \in Landings : g[l] = IF l \in Reach(d) THEN ArchiveSize ELSE 0  OBVIOUS
  <2>. HIDE DEF g
  <2>. QED  BY <1>1, <2>1, <2>2, SumOfSame
<1>4. ASSUME \A l \in Landings : f[l] = 0 PROVE SumOver(f, Landings) = 0
  <2>. DEFINE A == {}  c == 0
  <2>1. A \in SUBSET Landings /\ c \in Nat /\ \A l \in Landings : f[l] = IF l \in A THEN c ELSE 0
    BY <1>4
  <2>2. c * Cardinality(A) = 0  BY FS_EmptySet
  <2>. HIDE DEF A, c, f
  <2>. QED  BY <1>1, <2>1, <2>2, SumOfSame
<1>. HIDE DEF f, g
<1>5. SumOver(f, Landings) \in Nat /\ SumOver(f, Landings) <= SumOver(g, Landings)
  BY <1>1, <1>2, SumsCompare
<1>. QED  BY <1>3, <1>4, <1>5 DEF DrainBytes, f

LEMMA OwedTypes == ASSUME StatusAssumption, StatusIInv, OwedInv PROVE StatusTypeOK
<1>1. span \in [DLEs -> Nat]
  <2>1. Routing \in Routings  BY DEF OwedInv, RoutesInv, Shape
  <2>. QED  BY <2>1 DEF Routing, Routings
<1>. QED  BY <1>1 DEF StatusTypeOK, StatusIInv, StatusTyped, Lanes, DumpStates, OwedInv, RoutesInv

LEMMA OwedBounds == ASSUME StatusAssumption, StatusIInv, OwedInv PROVE TotalsBound
<1>1. ASSUME NEW d \in DLEs
      PROVE  /\ DrainBytes(d) \in Nat /\ DrainBytes(d) <= ArchiveSize * span[d] /\ ArchiveSize * span[d] \in Nat
             /\ ToDrain(d) = row[d].out * span[d] /\ row[d].out \in Nat
             /\ row[d].holding => row[d].out = ArchiveSize
  <2>1. /\ DrainBytes(d) \in Nat /\ DrainBytes(d) <= ArchiveSize * Cardinality(Reach(d))  BY DrainFits
  <2>2. /\ ArchiveSize * Cardinality(Reach(d)) <= ArchiveSize * span[d] /\ ArchiveSize * span[d] \in Nat
        /\ ArchiveSize * Cardinality(Reach(d)) \in Nat
    BY ReachFits, Times DEF StatusAssumption
  <2>3. span[d] \in Nat /\ span[d] > 0 /\ row[d].out \in Nat
    BY ReachFits, RowParts DEF StatusAssumption
  <2>4. ToDrain(d) = row[d].out * span[d]
    <3>1. (IF span[d] > 1 THEN span[d] ELSE 1) = span[d]  BY <2>3
    <3>. QED  BY <3>1 DEF ToDrain
  <2>5. row[d].holding => row[d].out = ArchiveSize  BY StagedIsOver
  <2>. QED  BY <2>1, <2>2, <2>3, <2>4, <2>5
<1>2. TotalDrained <= TotalToDrain
  <2>. DEFINE f == [d \in DLEs |-> DrainBytes(d)]
              g == [d \in DLEs |-> ToDrain(d)]
  <2>1. Staged \in SUBSET DLEs /\ IsFiniteSet(Staged)
    BY FS_Subset DEF Staged, StatusAssumption
  <2>2. \A d \in Staged : f[d] \in Nat /\ g[d] \in Nat /\ f[d] <= g[d]
    <3>. SUFFICES ASSUME NEW d \in Staged
                  PROVE  DrainBytes(d) \in Nat /\ ToDrain(d) \in Nat /\ DrainBytes(d) <= ToDrain(d)
      BY <2>1
    <3>1. d \in DLEs /\ row[d].holding  BY DEF Staged, Drains
    <3>. QED  BY <1>1, <3>1
  <2>. HIDE DEF f, g
  <2>3. SumOver(f, Staged) <= SumOver(g, Staged)  BY <2>1, <2>2, SumsCompare
  <2>. QED  BY <2>3 DEF TotalDrained, TotalToDrain, f, g
<1>3. ASSUME NEW d \in DLEs PROVE OnVolume(d) <= row[d].out
  <2>1. /\ array[TypeOf[d]] \in Seq(Landings) /\ span[d] \in Nat /\ span[d] > 0
        /\ span[d] <= Len(array[TypeOf[d]])
    BY ReachFits
  <2>2. Route(d)[1] \in Landings
    <3>1. Route(d)[1] = array[TypeOf[d]][1] /\ 1 \in 1 .. Len(array[TypeOf[d]])  BY <2>1 DEF Route
    <3>. QED  BY <2>1, <3>1
  <2>3. row[d].drained[Route(d)[1]] \in 0 .. ArchiveSize  BY <2>2, RowParts
  <2>4. CASE ~row[d].holding /\ ~row[d].toHolding
    <3>1. OnVolume(d) = row[d].out  BY <2>4 DEF OnVolume, Drains
    <3>. QED  BY <1>1, <3>1
  <2>5. CASE ~row[d].holding /\ row[d].toHolding
    <3>1. \A l \in Landings : row[d].drained[l] = 0  BY <2>5, OwedParts DEF Owing
    <3>2. DrainBytes(d) = 0  BY <3>1, DrainFits
    <3>3. OnVolume(d) = 0  BY <2>2, <2>5, <3>1, <3>2 DEF OnVolume
    <3>. QED  BY <1>1, <3>3
  <2>6. CASE row[d].holding
    <3>1. row[d].out = ArchiveSize /\ ArchiveSize \in Nat  BY <1>1, <2>6
    <3>2. CASE span[d] > 1
      <4>1. OnVolume(d) = row[d].drained[Route(d)[1]]  BY <2>6, <3>2 DEF OnVolume, Drains
      <4>. QED  BY <2>3, <3>1, <4>1
    <3>3. CASE ~(span[d] > 1)
      <4>1. OnVolume(d) = DrainBytes(d)  BY <2>6, <3>3 DEF OnVolume, Drains
      <4>2. span[d] = 1 /\ ArchiveSize * 1 = ArchiveSize  BY <2>1, <3>1, <3>3
      <4>. QED  BY <1>1, <3>1, <4>1, <4>2
    <3>. QED  BY <3>2, <3>3
  <2>7. row[d].holding \in BOOLEAN /\ row[d].toHolding \in BOOLEAN  BY RowParts
  <2>. QED  BY <2>4, <2>5, <2>6, <2>7
<1>. QED  BY <1>2, <1>3 DEF TotalsBound

\* For any DLEs, landing lists, landings that fail to open, holding disks and sizes: of the status's
\* totals, what is drained is never more than what is owed, and what is on the primary never more
\* than what was produced (progress.go), whatever the order the dumps and the drains report in and
\* however the filtering in place leaves the lists.
THEOREM TotalsStayTotals == ASSUME StatusAssumption PROVE StatusSpec => [](StatusTypeOK /\ TotalsBound)
<1>1. StatusIInv /\ OwedInv => StatusTypeOK /\ TotalsBound  BY OwedTypes, OwedBounds
<1>. QED  BY <1>1, StatusAlways, OwedAlways, PTL

\* An archive whose drains are counted has a meter full where its copy is and empty elsewhere.
LEMMA CountedMeters ==
    ASSUME StatusAssumption, StatusIInv, OwedInv, NEW d \in Staged, left[d] = 0
    PROVE  /\ d \in DLEs /\ row[d].out = ArchiveSize /\ copies[d] \subseteq Reach(d)
           /\ \A l \in Landings : row[d].drained[l] = IF l \in copies[d] THEN ArchiveSize ELSE 0
<1>1. d \in DLEs /\ row[d].holding  BY DEF Staged, Drains
<1>2. /\ Owing(row[d], pc[d], lane[d], copies[d], left[d], Reach(d))
      /\ \A l \in Landings : LaneMetered(row[d].drained[l], lane[d][l], l \in copies[d])
      /\ row[d].out = ArchiveSize /\ ArchiveSize > 0 /\ copies[d] \in SUBSET Landings
  BY <1>1, OwedParts, StagedIsOver, RowParts DEF StatusAssumption
<1>3. Pending(lane[d]) = {}
  <2>1. IsFiniteSet(Pending(lane[d]))
    <3>1. Pending(lane[d]) \in SUBSET Landings /\ IsFiniteSet(Landings)
      BY DEF Pending, StatusAssumption
    <3>. QED  BY <3>1, FS_Subset
  <2>2. Cardinality(Pending(lane[d])) = 0  BY <1>1, <1>2 DEF Owing
  <2>. QED  BY <2>1, <2>2, FS_EmptySet
<1>4. ASSUME NEW l \in Landings
      PROVE  row[d].drained[l] = IF l \in copies[d] THEN ArchiveSize ELSE 0
  <2>1. lane[d][l] \in Lanes /\ lane[d][l] # "direct"  BY <1>1, <1>2, RowParts DEF LaneMetered
  <2>2. lane[d][l] \notin {"queued", "copying", "broken", "void"}  BY <1>3 DEF Pending
  <2>3. lane[d][l] \in {"none", "counted"}  BY <2>1, <2>2 DEF Lanes
  <2>4. row[d].drained[l] \in 0 .. ArchiveSize /\ row[d].drained[l] \in {0, ArchiveSize}
    BY <1>1, <1>2, RowParts DEF Owing
  <2>5. row[d].drained[l] > 0 <=> l \in copies[d]
    BY <1>2, <2>3, <2>4 DEF LaneMetered
  <2>. QED  BY <1>2, <2>4, <2>5
<1>5. copies[d] \subseteq Reach(d)  BY <1>2 DEF Owing
<1>. QED  BY <1>1, <1>2, <1>4, <1>5

\* The flush line of a landing reads complete exactly when the archives routed there are there.
LEMMA LinesAreWhole ==
    ASSUME StatusAssumption, StatusIInv, OwedInv, Terminal, NEW l \in Landings
    PROVE  LandingDone(l) = LandingTotal(l) <=> \A d \in RoutedTo(l) : l \in copies[d]
<1>. DEFINE f == [d \in DLEs |-> row[d].drained[l]]
            g == [d \in DLEs |-> row[d].out]
            P == RoutedTo(l)
<1>1. P \in SUBSET Staged /\ Staged \in SUBSET DLEs /\ IsFiniteSet(P)
  <2>1. P \in SUBSET DLEs /\ IsFiniteSet(DLEs)  BY DEF RoutedTo, Staged, StatusAssumption
  <2>2. P \in SUBSET Staged /\ Staged \in SUBSET DLEs  BY DEF RoutedTo, Staged
  <2>. HIDE DEF P
  <2>. QED  BY <2>1, <2>2, FS_Subset
<1>. HIDE DEF P
<1>2. ASSUME NEW d \in P
      PROVE  f[d] \in Nat /\ g[d] \in Nat /\ f[d] <= g[d] /\ (f[d] = g[d] <=> l \in copies[d])
  <2>1. d \in Staged /\ d \in DLEs  BY <1>1, <1>2
  <2>2. left[d] = 0
    <3>1. InPhase(runPhase, pc[d], left[d])  BY <2>1, OwedParts
    <3>. QED  BY <3>1 DEF InPhase, Terminal
  <2>3. row[d].out = ArchiveSize /\ row[d].drained[l] = IF l \in copies[d] THEN ArchiveSize ELSE 0
    BY <2>1, <2>2, CountedMeters
  <2>. QED  BY <2>1, <2>3 DEF StatusAssumption
<1>. HIDE DEF f, g
<1>3. SumOver(f, P) = SumOver(g, P) <=> \A d \in P : f[d] = g[d]  BY <1>1, <1>2, SumsCompare
<1>4. LandingDone(l) = SumOver(f, P) /\ LandingTotal(l) = SumOver(g, P)
  BY DEF LandingDone, LandingTotal, f, g, P
<1>. QED  BY <1>2, <1>3, <1>4 DEF P

\* With the lists as they were, a route is what is left of its own, each landing once.
LEMMA RoutesAreReach ==
    ASSUME StatusAssumption, OwedInv, LastsIn(skipped), NEW d \in DLEs
    PROVE  /\ array[TypeOf[d]] = Arrays[TypeOf[d]] /\ span[d] = Cardinality(Reach(d))
           /\ Range(Route(d)) \cap skipped = {}
<1>. DEFINE t == TypeOf[d]
            n == span[d]
            g == [j \in 1 .. n |-> array[t][j]]
<1>1. /\ array = Arrays /\ n = CutTo(skipped, d)  BY DEF OwedInv, RoutesInv
<1>2. /\ t \in DOMAIN Arrays /\ Arrays[t] \in Seq(Landings) /\ DOMAIN Arrays[t] = 1 .. Len(Arrays[t])
      /\ Len(Arrays[t]) \in Nat /\ Len(Arrays[t]) > 0
  BY ListFacts
<1>3. n \in Nat /\ n > 0 /\ n <= Len(Arrays[t]) /\ IsFiniteSet(Reach(d))
      /\ Cardinality(Reach(d)) \in Nat /\ Cardinality(Reach(d)) <= n
  BY <1>1, ReachFits
<1>4. ASSUME NEW j \in 1 .. n PROVE Arrays[t][j] \notin skipped
  <2>1. CASE j < Len(Arrays[t])
    <3>1. j \in DOMAIN Arrays[t] /\ Len(Arrays[t]) \in DOMAIN Arrays[t]  BY <1>2, <1>3
    <3>. QED  BY <1>2, <2>1, <3>1 DEF LastsIn
  <2>2. CASE j = Len(Arrays[t])
    <3>1. n # Len(Arrays[t]) - 1  BY <1>2, <1>3, <2>2
    <3>2. Arrays[t][Len(Arrays[t])] \notin skipped  BY <1>1, <3>1 DEF CutTo, Final
    <3>. QED  BY <2>2, <3>2
  <2>. QED  BY <1>2, <1>3, <2>1, <2>2
<1>5. ASSUME NEW i \in 1 .. n, NEW j \in 1 .. n, i # j PROVE Arrays[t][i] # Arrays[t][j]
  <2>1. i \in DOMAIN Arrays[t] /\ j \in DOMAIN Arrays[t] /\ (i < j \/ j < i)  BY <1>2, <1>3, <1>5
  <2>. QED  BY <1>2, <2>1 DEF LastsIn
<1>6. n <= Cardinality(Reach(d))
  <2>1. IsFiniteSet(1 .. n) /\ Cardinality(1 .. n) = n
    <3>. HIDE DEF n
    <3>1. IsFiniteSet(1 .. n) /\ Cardinality(1 .. n) = IF 1 > n THEN 0 ELSE n - 1 + 1
      BY <1>3, FS_Interval
    <3>. QED  BY <1>3, <3>1
  <2>2. g \in Injection(1 .. n, Reach(d))
    <3>1. \A j \in 1 .. n : array[t][j] = Arrays[t][j] /\ j \in DOMAIN array[t]  BY <1>1, <1>2, <1>3
    <3>2. \A j \in 1 .. n : g[j] \in Reach(d)  BY <1>4, <3>1 DEF Reach, Range
    <3>3. \A i, j \in 1 .. n : g[i] = g[j] => i = j  BY <1>5, <3>1
    <3>. QED  BY <3>2, <3>3 DEF Injection, IsInjective
  <2>. HIDE DEF g, n
  <2>. QED  BY <1>3, <2>1, <2>2, FS_Injection
<1>7. Range(Route(d)) \cap skipped = {}
  <2>1. DOMAIN Route(d) = 1 .. n /\ \A j \in 1 .. n : Route(d)[j] = Arrays[t][j]
    BY <1>1, <1>2, <1>3 DEF Route
  <2>. QED  BY <1>4, <2>1 DEF Range
<1>. QED  BY <1>1, <1>3, <1>6, <1>7

LEMMA OwedWhole ==
    ASSUME StatusAssumption, StatusIInv, OwedInv, LastsIn(skipped)
    PROVE  CompleteIsWhole
<1>. SUFFICES ASSUME Terminal PROVE
       /\ \A d \in Staged : DrainedWhole(d) <=> Range(Arrays[TypeOf[d]]) \ skipped \subseteq copies[d]
       /\ \A l \in Landings : LandingDone(l) = LandingTotal(l) <=> \A d \in RoutedTo(l) : l \in copies[d]
       /\ \A l \in skipped : RoutedTo(l) = {} /\ \A d \in DLEs : WrittenTo(d, l) = 0
  BY DEF CompleteIsWhole
<1>1. ASSUME NEW d \in Staged
      PROVE  DrainedWhole(d) <=> Range(Arrays[TypeOf[d]]) \ skipped \subseteq copies[d]
  <2>. DEFINE f == row[d].drained
              m == Cardinality(copies[d])
              k == Cardinality(Reach(d))
  <2>1. d \in DLEs /\ left[d] = 0
    <3>1. d \in DLEs  BY DEF Staged
    <3>2. InPhase(runPhase, pc[d], left[d])  BY <3>1, OwedParts
    <3>. QED  BY <3>1, <3>2 DEF InPhase, Terminal
  <2>2. /\ row[d].out = ArchiveSize /\ copies[d] \in SUBSET Reach(d)
        /\ \A l \in Landings : f[l] = IF l \in copies[d] THEN ArchiveSize ELSE 0
    BY <2>1, CountedMeters
  <2>3. /\ Reach(d) \in SUBSET Landings /\ IsFiniteSet(Reach(d)) /\ k \in Nat /\ k > 0
        /\ Reach(d) = Range(Arrays[TypeOf[d]]) \ skipped /\ span[d] = k
    BY <2>1, ReachFits, RoutesAreReach DEF Reach
  <2>4. m \in Nat /\ m <= k /\ (m = k <=> Reach(d) \subseteq copies[d])
    <3>1. IsFiniteSet(copies[d]) /\ m <= k /\ (m = k => copies[d] = Reach(d))
      BY <2>2, <2>3, FS_Subset
    <3>2. m \in Nat  BY <3>1, FS_CardinalityType
    <3>3. Reach(d) \subseteq copies[d] => copies[d] = Reach(d)  BY <2>2
    <3>. QED  BY <3>1, <3>2, <3>3
  <2>5. DrainBytes(d) = ArchiveSize * m
    <3>1. IsFiniteSet(Landings) /\ ArchiveSize \in Nat /\ copies[d] \in SUBSET Landings
      BY <2>2, <2>3 DEF StatusAssumption
    <3>. HIDE DEF f
    <3>2. SumOver(f, Landings) = ArchiveSize * m  BY <2>2, <3>1, SumOfSame
    <3>. QED  BY <3>2 DEF DrainBytes, f
  <2>6. ToDrain(d) = ArchiveSize * k
    <3>1. (IF span[d] > 1 THEN span[d] ELSE 1) = k  BY <2>3
    <3>. QED  BY <2>2, <3>1 DEF ToDrain
  <2>. HIDE DEF m, k, f
  <2>7. ArchiveSize \in Nat /\ ArchiveSize > 0  BY DEF StatusAssumption
  <2>8. /\ ArchiveSize * m \in Nat /\ ArchiveSize * k \in Nat /\ ArchiveSize * m <= ArchiveSize * k
        /\ m < k => ArchiveSize * m < ArchiveSize * k
    BY <2>3, <2>4, <2>7, Times
  <2>9. ArchiveSize * k > 0
    <3>1. ArchiveSize * 0 = 0 /\ ArchiveSize * 0 < ArchiveSize * k  BY <2>3, <2>7, Times
    <3>. QED  BY <3>1
  <2>10. DrainedWhole(d) <=> m = k
    <3>1. m = k \/ m < k  BY <2>3, <2>4
    <3>. QED  BY <2>5, <2>6, <2>8, <2>9, <3>1 DEF DrainedWhole
  <2>. QED  BY <2>3, <2>4, <2>10
<1>2. \A l \in Landings : LandingDone(l) = LandingTotal(l) <=> \A d \in RoutedTo(l) : l \in copies[d]
  BY LinesAreWhole
<1>3. ASSUME NEW l \in skipped
      PROVE  RoutedTo(l) = {} /\ \A d \in DLEs : WrittenTo(d, l) = 0
  <2>1. l \in Landings  BY DEF OwedInv, RoutesInv
  <2>2. \A d \in DLEs : l \notin Range(Route(d))  BY RoutesAreReach
  <2>3. ASSUME NEW d \in DLEs PROVE row[d].drained[l] = 0
    <3>1. l \notin Reach(d)  BY DEF Reach
    <3>2. row[d].drained[l] \in 0 .. ArchiveSize  BY <2>1, RowParts
    <3>3. ~(row[d].drained[l] > 0)  BY <2>1, <3>1, OwedParts DEF Owing
    <3>. QED  BY <3>2, <3>3 DEF StatusAssumption
  <2>. QED  BY <2>2, <2>3 DEF RoutedTo, Staged, WrittenTo
<1>. QED  BY <1>1, <1>2, <1>3

\* For any DLEs, landing lists, holding disks and sizes, what the status file says of the copies is
\* true (tracker.go, progress.go), whatever the order the dumps and the drains report in and
\* whichever landings are skipped or trip: its meters tell which landing has which archive, its
\* totals bound one another, and its drains and its flush lines read complete exactly when every
\* landing owed has its copy, unless a landing was skipped that was not the last of its list.
THEOREM StatusTellsTruth == ASSUME StatusAssumption PROVE StatusSpec => []StatusIsTrue
<1>1. StatusIInv /\ OwedInv /\ MetersTellCopies => StatusIsTrue
  BY OwedTypes, OwedBounds, OwedWhole DEF LastsSkipped, LastsIn, StatusIsTrue
<1>. QED  BY <1>1, StatusAlways, OwedAlways, MetersAlwaysTell, PTL
=============================================================================
