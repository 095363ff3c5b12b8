-------------------------- MODULE DurabilityProofs --------------------------
(***************************************************************************)
(* What one nb dump leaves for the next: the staged archives of a machine  *)
(* that may die (HoldingRecovery), for any archives, landings and crashes, *)
(* the chains of a DLE (DumpCycle), for any levels, runs and losses, and   *)
(* the archiver's snapshots (Snapshots), for any subtrees, levels,         *)
(* archives and changes.                                                   *)
(*                                                                         *)
(* Staged archives.  HoldingRecovery says nothing of the contract it is    *)
(* mapped to; what the mapping needs is inductive with:                    *)
(*   Progress    what memory, media and catalog have to do with each       *)
(*               other, per archive: remaining counts the drains under     *)
(*               way, which have staged parts to read; a recorded copy is  *)
(*               whole; what is reclaimed has a landing's copy behind it;  *)
(*   OneAtATime  a flush copies only the archive it is at.                 *)
(* From it a drain that lands reads a whole file, a reclaim removes parts  *)
(* only with nobody left to read them and the placement after the parts:   *)
(* the steps that StagedArchives allows (StepsMap).                        *)
(*                                                                         *)
(* Chains.  ChainIn is a recursive function over the runs; that it has a   *)
(* solution, and so does what its equation says (ChainUnfolds), follows by *)
(* taking the smallest run on which it would not.  With it:                *)
(*   Floor     on any landings, a reclamation keeps the last full of its   *)
(*             medium, which is there until it ends;                       *)
(*   Linked    on one landing, every incremental has its base, which is    *)
(*             no older than a full before it nor than the state the       *)
(*             incremental was dumped against;                             *)
(*   Snapped   what a snapshot holds is in the catalog at its level, or a  *)
(*             full has come since;                                        *)
(*   Planned   what a plan is based on stays while room is made for it;    *)
(*   Chained   a reclamation keeps all that is no older than the last full *)
(*             and condemns nothing.                                       *)
(* None of the last four is inductive alone: a plan is sound because the   *)
(* chains and the snapshots are, a commit links its run because the plan   *)
(* is still sound, a deletion spares bases because they are either free of *)
(* it or newer than the full it keeps.                                     *)
(*                                                                         *)
(* Snapshots.  Replayed is unfolded as ChainIn is.  With it:               *)
(*   Library   a live snapshot is of an archive of its level, and so are   *)
(*             the carves beside it, of an older one maybe;                *)
(*   UnderWay  a dump's base is the newest archive a level down while the  *)
(*             dump goes on, under the scope it was planned by;            *)
(*   Versions  what is the same in two archives did not change in between; *)
(*   Founded   an archive holds what its seed had not seen, its seed is no *)
(*             newer than its base, and carves that were judged by those   *)
(*             of the base were left out there already.                    *)
(* The first archive of a chain that lands an old version would hold       *)
(* nothing of it, so its seed saw the version and its base has it too.     *)
(***************************************************************************)
EXTENDS HoldingRecovery, DumpCycle, Snapshots, FiniteSetTheorems, WellFoundedInduction, TLAPS

-----------------------------------------------------------------------------
\* The staged archives.

Running(d) == {l \in Lanes : drain[d][l] # "none"}

\* What memory, media and catalog have to do with each other, per archive: the copies under
\* way are those the set counts, or the one landing a flush is at; they have staged parts to
\* read; a copy that is recorded is whole; what was reclaimed has a landing's copy behind it.
Progress(d) ==
  /\ stage[d] = "none" => holding[d] = "none" /\ ~staged[d] /\ recorded[d] = {}
  /\ stage[d] = "sealed" => holding[d] = "sealed" /\ ~staged[d] /\ recorded[d] = {}
  /\ stage[d] = "draining" => /\ holding[d] = "sealed" /\ staged[d]
                              /\ remaining[d] = Cardinality(Running(d))
                              /\ landed[d] > 0 => recorded[d] # {}
  /\ stage[d] = "reclaiming" => staged[d] /\ recorded[d] # {}
  /\ mode # "run" => stage[d] \in {"none", "over"}
  /\ Running(d) # {} => \/ mode = "run" /\ stage[d] = "draining"
                        \/ mode = "flush" /\ staged[d] /\ Readable(d)
  /\ mode = "flush" => Running(d) \subseteq Unserved(d)
  /\ \A l \in Lanes : /\ drain[d][l] # "none" => l \in RouteSet[d]
                      /\ drain[d][l] = "sealed" => l \in sealed[d]
  /\ recorded[d] \subseteq sealed[d]
  /\ holding[d] = "gone" => recorded[d] # {}
  /\ holding[d] = "footless" => staged[d]
  /\ staged[d] => holding[d] # "none"

\* A flush copies none but the archive it is at.
OneAtATime == mode = "flush" => \A d \in Dumps : Running(d) # {} => At(d)

IInv == TypeOK /\ OneAtATime /\ \A d \in Dumps : Progress(d)

\* The constants, as the steps use them.
LEMMA Constants ==
  /\ MaxFaults \in Nat /\ Dumps \subseteq Nat /\ IsFiniteSet(Lanes)
  /\ \A d \in Dumps : RouteSet[d] \subseteq Lanes /\ RouteSet[d] # {}
BY RecoveryAssumption

LEMMA InitHolds == Init => IInv
<1>1. SUFFICES ASSUME Init PROVE IInv
  OBVIOUS
<1>2. TypeOK
  <2>1. Idle \in [Lanes -> {"none", "queued", "sealed"}]
    BY DEF Idle
  <2>2. faults \in 0..MaxFaults
    BY <1>1, Constants DEF Init
  <2>. QED BY <1>1, <2>1, <2>2 DEF Init, TypeOK
<1>3. ASSUME NEW d \in Dumps PROVE Progress(d)
  <2>1. Running(d) = {}
    BY <1>1 DEF Init, Idle, Running
  <2>. QED BY <1>1, <2>1 DEF Init, Idle, Progress
<1>4. OneAtATime
  BY <1>1 DEF Init, OneAtATime
<1>. QED BY <1>2, <1>3, <1>4 DEF IInv

\* A fault is counted within the bound.
LEMMA FaultCounted ==
  ASSUME faults \in 0..MaxFaults, Fault
  PROVE  faults' \in 0..MaxFaults
BY Constants DEF Fault

\* What a step leaves alone stays as it was.
LEMMA Untouched ==
  ASSUME NEW e \in Dumps, Progress(e), mode' = mode,
         stage'[e] = stage[e], holding'[e] = holding[e], staged'[e] = staged[e],
         recorded'[e] = recorded[e], sealed'[e] = sealed[e], drain'[e] = drain[e],
         remaining'[e] = remaining[e], landed'[e] = landed[e]
  PROVE  Progress(e)'
<1>1. Running(e)' = Running(e)
  BY DEF Running
<1>. QED BY <1>1 DEF Progress, Readable, Unserved

\* The copies under way are finitely many.
LEMMA RunningIsFinite ==
  ASSUME NEW d \in Dumps
  PROVE  IsFiniteSet(Running(d)) /\ Cardinality(Running(d)) \in Nat
<1>1. IsFiniteSet(Running(d))
  BY Constants, FS_Subset DEF Running
<1>. QED BY <1>1, FS_CardinalityType

\* A drain that ends leaves one less: the last one, none.
LEMMA LeaveCounts ==
  ASSUME IInv, NEW d \in Dumps, NEW l \in Lanes, NEW won \in {0, 1},
         mode = "run", drain[d][l] # "none", Leave(d, l, won)
  PROVE  /\ stage[d] = "draining" /\ holding[d] = "sealed" /\ staged[d]
         /\ landed[d] > 0 => recorded[d] # {}
         /\ remaining[d] \in Nat \ {0}
         /\ Running(d)' = Running(d) \ {l}
         /\ \A e \in Dumps : e # d => Running(e)' = Running(e)
         /\ remaining'[d] = remaining[d] - 1
         /\ remaining'[d] = Cardinality(Running(d)')
         /\ remaining[d] = 1 => Running(d)' = {}
         /\ \A m \in Lanes : drain'[d][m] = IF m = l THEN "none" ELSE drain[d][m]
<1>1. TypeOK /\ Progress(d)
  BY DEF IInv
<1>2. l \in Running(d)
  BY DEF Running
<1>3. stage[d] = "draining"
  BY <1>1, <1>2 DEF Progress
<1>4. \A e \in Dumps, m \in Lanes :
        drain'[e][m] = IF e = d /\ m = l THEN "none" ELSE drain[e][m]
  BY <1>1 DEF Leave, SetDrain, TypeOK
<1>5. Running(d)' = Running(d) \ {l} /\ \A e \in Dumps : e # d => Running(e)' = Running(e)
  BY <1>4 DEF Running
<1>6. Cardinality(Running(d) \ {l}) = Cardinality(Running(d)) - 1
  BY <1>2, RunningIsFinite, FS_RemoveElement
<1>7. Cardinality(Running(d)) # 0
  BY <1>2, RunningIsFinite, FS_EmptySet
<1>8. IsFiniteSet(Running(d) \ {l})
  BY RunningIsFinite, FS_Subset
<1>9. remaining[d] = Cardinality(Running(d)) /\ remaining[d] \in Nat \ {0}
  BY <1>1, <1>3, <1>7, RunningIsFinite DEF Progress
<1>10. remaining[d] = 1 => Running(d) \ {l} = {}
  BY <1>6, <1>8, <1>9, FS_EmptySet
<1>11. remaining'[d] = remaining[d] - 1
  BY <1>1 DEF Leave, TypeOK
<1>. QED BY <1>1, <1>3, <1>4, <1>5, <1>6, <1>9, <1>10, <1>11 DEF Progress
LEMMA LeaveTyped ==
  ASSUME TypeOK, NEW d \in Dumps, NEW l \in Lanes, NEW won \in {0, 1}, Leave(d, l, won),
         remaining[d] \in Nat \ {0}
  PROVE  /\ stage' \in [Dumps -> {"none", "sealed", "draining", "reclaiming", "over"}]
         /\ drain' \in [Dumps -> [Lanes -> {"none", "queued", "sealed"}]]
         /\ remaining' \in [Dumps -> Nat] /\ landed' \in [Dumps -> Nat]
         /\ aborted' \in BOOLEAN
<1>1. stage' = stage \/ stage' = [stage EXCEPT ![d] = "reclaiming"] \/ stage' = [stage EXCEPT ![d] = "over"]
  BY DEF Leave, SetStage
<1>2. aborted' = aborted \/ aborted' = TRUE
  BY DEF Leave
<1>3. drain' = [drain EXCEPT ![d][l] = "none"]
  BY DEF Leave, SetDrain
<1>4. /\ remaining' = [remaining EXCEPT ![d] = @ - 1]
      /\ landed' = [landed EXCEPT ![d] = landed[d] + won]
  BY DEF Leave
<1>5. remaining[d] - 1 \in Nat /\ landed[d] + won \in Nat
  BY DEF TypeOK
<1>6. stage' \in [Dumps -> {"none", "sealed", "draining", "reclaiming", "over"}]
  BY <1>1 DEF TypeOK
<1>7. drain' \in [Dumps -> [Lanes -> {"none", "queued", "sealed"}]]
  BY <1>3 DEF TypeOK
<1>8. remaining' \in [Dumps -> Nat] /\ landed' \in [Dumps -> Nat]
  BY <1>4, <1>5 DEF TypeOK
<1>9. aborted' \in BOOLEAN
  BY <1>2 DEF TypeOK
<1>. QED BY <1>6, <1>7, <1>8, <1>9
-----------------------------------------------------------------------------
\* Each step keeps the invariant.

\* The reclaim of an archive has no copy under way and a copy behind it.
LEMMA ReclaimingIsSafe ==
  ASSUME IInv, NEW d \in Dumps, MayReclaim(d)
  PROVE  staged[d] /\ recorded[d] # {} /\ Running(d) = {} /\ stage[d] \in {"reclaiming", "none", "over"}
<1>1. TypeOK /\ Progress(d) /\ RouteSet[d] # {}
  BY Constants DEF IInv
<1>2. CASE mode = "run" /\ stage[d] = "reclaiming"
  BY <1>1, <1>2 DEF Progress
<1>3. CASE mode = "flush" /\ At(d) /\ Unserved(d) = {}
  BY <1>1, <1>3 DEF Progress, At, Leftover, Unserved
<1>. QED BY <1>2, <1>3 DEF MayReclaim

\* Flush is at one archive at most.
LEMMA NoneElse ==
  ASSUME IInv, NEW d \in Dumps, mode = "flush", At(d)
  PROVE  \A e \in Dumps : e # d => Running(e) = {}
<1>1. SUFFICES ASSUME NEW e \in Dumps, e # d, Running(e) # {} PROVE FALSE
  OBVIOUS
<1>2. At(e)
  BY <1>1 DEF IInv, OneAtATime
<1>3. d <= e /\ e <= d /\ d \in Nat /\ e \in Nat
  BY <1>2, Constants DEF At
<1>. QED BY <1>1, <1>3

LEMMA LiveKeeps ==
  ASSUME IInv, NEW d \in Dumps, LiveStep(d)
  PROVE  IInv'
<1> USE DEF SetStage, SetDrain, sets, durable
<1>0. TypeOK /\ \A e \in Dumps : Progress(e)
  BY DEF IInv
<1>h. OneAtATime'
  BY DEF LiveStep, SealStaged, IngestRefused, RecordStaged, RecordFails, DrainSeals, DrainRecords,
     DrainFails, OneAtATime
<1>1. CASE SealStaged(d)
  <2>1. TypeOK'
    BY <1>0, <1>1 DEF SealStaged, TypeOK
  <2>2. \A e \in Dumps : Running(e)' = Running(e)
    BY <1>1 DEF SealStaged, Running
  <2>3. \A e \in Dumps : Progress(e)'
    BY <1>0, <1>1, <2>2 DEF SealStaged, TypeOK, Progress, Readable, Unserved
  <2>. QED BY <1>h, <2>1, <2>3 DEF IInv
<1>2. CASE IngestRefused(d)
  <2>1. TypeOK'
    BY <1>0, <1>2 DEF IngestRefused, TypeOK
  <2>2. \A e \in Dumps : Progress(e)'
    BY <1>0, <1>2, Untouched DEF IngestRefused
  <2>. QED BY <1>h, <2>1, <2>2 DEF IInv
<1>3. CASE RecordFails(d)
  <2>1. TypeOK'
    BY <1>0, <1>3, FaultCounted DEF RecordFails, TypeOK
  <2>2. \A e \in Dumps : Running(e)' = Running(e)
    BY <1>3 DEF RecordFails, Running
  <2>3. \A e \in Dumps : Progress(e)'
    BY <1>0, <1>3, <2>2 DEF RecordFails, TypeOK, Progress, Readable, Unserved
  <2>. QED BY <1>h, <2>1, <2>3 DEF IInv
<1>4. CASE RecordStaged(d)
  <2>d. DEFINE lanes == RouteSet[d] \ tripped
  <2>0. lanes \in SUBSET Lanes /\ IsFiniteSet(lanes) /\ Cardinality(lanes) \in Nat
    BY Constants, FS_Subset, FS_CardinalityType
  <2>1. TypeOK'
    <3>. HIDE DEF lanes
    <3>1. drain'[d] \in [Lanes -> {"none", "queued", "sealed"}]
      BY <1>0, <1>4 DEF RecordStaged, TypeOK
    <3>. QED BY <1>0, <1>4, <2>0, <3>1 DEF RecordStaged, TypeOK, lanes
  <2>2. \A e \in Dumps : e # d => Running(e)' = Running(e)
    BY <1>0, <1>4 DEF RecordStaged, TypeOK, Running
  <2>3. drain'[d] = [l \in Lanes |-> IF l \in lanes THEN "queued" ELSE "none"]
    BY <1>0, <1>4 DEF RecordStaged, TypeOK
  <2>4. Running(d)' = lanes
    BY <2>0, <2>3 DEF Running
  <2>5. /\ staged' = [staged EXCEPT ![d] = TRUE] /\ stage' = [stage EXCEPT ![d] = IF lanes = {} THEN "over" ELSE "draining"]
        /\ remaining' = [remaining EXCEPT ![d] = Cardinality(lanes)]
        /\ landed' = [landed EXCEPT ![d] = 0] /\ mode = "run" /\ stage[d] = "sealed"
        /\ \A e \in Dumps : e # d => drain'[e] = drain[e]
        /\ holding' = holding /\ sealed' = sealed /\ recorded' = recorded /\ mode' = mode
    BY <1>0, <1>4 DEF RecordStaged, TypeOK
  <2>6. \A l \in Lanes : /\ drain'[d][l] # "none" => l \in RouteSet[d]
                         /\ drain'[d][l] # "sealed"
    BY <2>3
  <2>. HIDE DEF lanes
  <2>7. Progress(d)'
    BY <1>0, <2>4, <2>5, <2>6 DEF Progress, TypeOK, Readable, Unserved
  <2>8. \A e \in Dumps : e # d => Progress(e)'
    BY <1>0, <2>2, <2>5 DEF Progress, TypeOK, Readable, Unserved
  <2>. QED BY <1>h, <2>1, <2>7, <2>8 DEF IInv
<1>5. ASSUME NEW l \in Lanes, DrainSeals(d, l) PROVE IInv'
  <2>1. TypeOK'
    BY <1>0, <1>5 DEF DrainSeals, TypeOK
  <2>2. \A e \in Dumps, m \in Lanes :
          drain'[e][m] = IF e = d /\ m = l THEN "sealed" ELSE drain[e][m]
    BY <1>0, <1>5 DEF DrainSeals, TypeOK
  <2>3. \A e \in Dumps : Running(e)' = Running(e)
    BY <1>5, <2>2 DEF DrainSeals, Running
  <2>4. \A e \in Dumps : sealed'[e] = IF e = d THEN sealed[e] \cup {l} ELSE sealed[e]
    BY <1>0, <1>5 DEF DrainSeals, TypeOK
  <2>5. \A e \in Dumps : e # d => drain'[e] = drain[e]
    BY <1>0, <1>5 DEF DrainSeals, TypeOK
  <2>6. \A e \in Dumps : e # d => Progress(e)'
    BY <1>0, <1>5, <2>4, <2>5, Untouched DEF DrainSeals
  <2>7. Progress(d) /\ mode = "run" /\ drain[d][l] = "queued"
    BY <1>0, <1>5 DEF DrainSeals
  <2>8. /\ Running(d)' = Running(d) /\ sealed'[d] = sealed[d] \cup {l}
        /\ \A m \in Lanes : drain'[d][m] = IF m = l THEN "sealed" ELSE drain[d][m]
        /\ mode' = mode /\ stage' = stage /\ holding' = holding /\ staged' = staged
        /\ recorded' = recorded /\ remaining' = remaining /\ landed' = landed
    BY <1>5, <2>2, <2>3, <2>4 DEF DrainSeals
  <2>9. Progress(d)'
    BY <2>7, <2>8 DEF Progress, Readable, Unserved
  <2>. QED BY <1>h, <2>1, <2>6, <2>9 DEF IInv
<1>6. ASSUME NEW l \in Lanes, DrainRecords(d, l) PROVE IInv'
  <2>1. /\ mode = "run" /\ drain[d][l] = "sealed" /\ Leave(d, l, 1)
        /\ \A e \in Dumps : recorded'[e] = IF e = d THEN recorded[e] \cup {l} ELSE recorded[e]
        /\ mode' = mode /\ holding' = holding /\ staged' = staged /\ sealed' = sealed
    BY <1>0, <1>6 DEF DrainRecords, TypeOK
  <2>2. /\ stage[d] = "draining" /\ holding[d] = "sealed" /\ staged[d]
        /\ remaining[d] \in Nat \ {0}
        /\ Running(d)' = Running(d) \ {l}
        /\ \A e \in Dumps : e # d => Running(e)' = Running(e)
        /\ remaining'[d] = remaining[d] - 1
        /\ remaining'[d] = Cardinality(Running(d)')
        /\ remaining[d] = 1 => Running(d)' = {}
        /\ \A m \in Lanes : drain'[d][m] = IF m = l THEN "none" ELSE drain[d][m]
    BY <2>1, LeaveCounts
  <2>3. TypeOK'
    <3>1. /\ recorded' \in [Dumps -> SUBSET Lanes] /\ tripped' = tripped /\ faults' = faults
      BY <1>0, <1>6 DEF DrainRecords, TypeOK
    <3>. QED BY <1>0, <2>1, <2>2, <3>1, LeaveTyped DEF TypeOK
  <2>4. \A e \in Dumps : e # d => /\ stage'[e] = stage[e] /\ remaining'[e] = remaining[e]
                                  /\ landed'[e] = landed[e] /\ drain'[e] = drain[e]
    BY <1>0, <2>1 DEF Leave, TypeOK
  <2>5. \/ remaining[d] # 1 /\ stage'[d] = "draining"
        \/ remaining[d] = 1 /\ stage'[d] = "reclaiming"
    BY <1>0, <2>1, <2>2 DEF Leave, TypeOK
  <2>e. Progress(d) /\ l \in sealed[d]
    BY <1>0, <2>1 DEF Progress
  <2>f. recorded'[d] = recorded[d] \cup {l} /\ recorded'[d] # {} /\ recorded'[d] \subseteq sealed[d]
    BY <2>1, <2>e DEF Progress
  <2>g. Running(d)' # {} => stage'[d] = "draining"
    BY <2>2, <2>5
  <2>6. Progress(d)'
    BY <2>1, <2>2, <2>5, <2>e, <2>f, <2>g DEF Progress, Readable, Unserved
  <2>7. \A e \in Dumps : e # d => Progress(e)'
    BY <1>0, <2>1, <2>4, Untouched
  <2>. QED BY <1>h, <2>3, <2>6, <2>7 DEF IInv
<1>7. ASSUME NEW l \in Lanes, DrainFails(d, l) PROVE IInv'
  <2>1. /\ mode = "run" /\ drain[d][l] # "none" /\ Leave(d, l, 0)
        /\ mode' = mode /\ holding' = holding /\ staged' = staged /\ sealed' = sealed
        /\ recorded' = recorded
    BY <1>7 DEF DrainFails
  <2>2. /\ stage[d] = "draining" /\ holding[d] = "sealed" /\ staged[d]
        /\ landed[d] > 0 => recorded[d] # {}
        /\ remaining[d] \in Nat \ {0}
        /\ Running(d)' = Running(d) \ {l}
        /\ \A e \in Dumps : e # d => Running(e)' = Running(e)
        /\ remaining'[d] = remaining[d] - 1
        /\ remaining'[d] = Cardinality(Running(d)')
        /\ remaining[d] = 1 => Running(d)' = {}
        /\ \A m \in Lanes : drain'[d][m] = IF m = l THEN "none" ELSE drain[d][m]
    BY <2>1, LeaveCounts
  <2>3. TypeOK'
    <3>1. /\ tripped' \in SUBSET Lanes /\ faults' \in 0..MaxFaults
      BY <1>0, <1>7, FaultCounted DEF DrainFails, TypeOK
    <3>. QED BY <1>0, <2>1, <2>2, <3>1, LeaveTyped DEF TypeOK
  <2>4. \A e \in Dumps : e # d => /\ stage'[e] = stage[e] /\ remaining'[e] = remaining[e]
                                  /\ landed'[e] = landed[e] /\ drain'[e] = drain[e]
    BY <1>0, <2>1 DEF Leave, TypeOK
  <2>5. /\ landed'[d] = landed[d] /\ landed[d] \in Nat
        /\ \/ remaining[d] # 1 /\ stage'[d] = "draining"
           \/ remaining[d] = 1 /\ landed[d] > 0 /\ stage'[d] = "reclaiming"
           \/ remaining[d] = 1 /\ stage'[d] = "over"
    BY <1>0, <2>1, <2>2 DEF Leave, TypeOK
  <2>6. Progress(d)'
    BY <1>0, <2>1, <2>2, <2>5 DEF Progress, Readable, Unserved
  <2>7. \A e \in Dumps : e # d => Progress(e)'
    BY <1>0, <2>1, <2>4, Untouched
  <2>. QED BY <1>h, <2>3, <2>6, <2>7 DEF IInv
<1>. QED BY <1>1, <1>2, <1>3, <1>4, <1>5, <1>6, <1>7 DEF LiveStep

LEMMA ReclaimKeeps ==
  ASSUME IInv, NEW d \in Dumps, ReclaimAt(d)
  PROVE  IInv'
<1> USE DEF SetStage, sets, durable
<1>0. TypeOK /\ \A e \in Dumps : Progress(e)
  BY DEF IInv
<1>1. /\ staged[d] /\ recorded[d] # {} /\ Running(d) = {}
      /\ stage[d] \in {"reclaiming", "none", "over"}
  BY ReclaimingIsSafe DEF ReclaimAt, RemoveFooter, RemoveParts, RemoveArchive, ReclaimFails
<1>2. \A e \in Dumps : Running(e)' = Running(e)
  BY DEF ReclaimAt, RemoveFooter, RemoveParts, RemoveArchive, ReclaimFails, Running
<1>3. drain' = drain /\ recorded' = recorded /\ sealed' = sealed
      /\ remaining' = remaining /\ landed' = landed
  BY DEF ReclaimAt, RemoveFooter, RemoveParts, RemoveArchive, ReclaimFails
<1>4. stage[d] # "none"
  BY <1>0, <1>1 DEF Progress
<1>5. CASE RemoveFooter(d) \/ RemoveParts(d)
  <2>1. TypeOK'
    BY <1>0, <1>5 DEF RemoveFooter, RemoveParts, TypeOK
  <2>2. \A e \in Dumps : Progress(e)'
    BY <1>0, <1>1, <1>2, <1>3, <1>4, <1>5 DEF RemoveFooter, RemoveParts, TypeOK, Progress, Readable, Unserved
  <2>3. OneAtATime'
    BY <1>2, <1>5 DEF IInv, OneAtATime, RemoveFooter, RemoveParts, At, Leftover
  <2>. QED BY <2>1, <2>2, <2>3 DEF IInv
<1>6. CASE RemoveArchive(d)
  <2>1. TypeOK'
    BY <1>0, <1>6 DEF RemoveArchive, TypeOK
  <2>2. \A e \in Dumps : Progress(e)'
    BY <1>0, <1>1, <1>2, <1>3, <1>4, <1>6 DEF RemoveArchive, TypeOK, Progress, Readable, Unserved
  <2>3. OneAtATime'
    <3>1. mode = "flush" => At(d)
      BY <1>6 DEF RemoveArchive, MayReclaim
    <3>2. mode = "flush" => \A e \in Dumps : Running(e) = {}
      BY <1>1, <3>1, NoneElse
    <3>. QED BY <1>2, <1>6, <3>2 DEF RemoveArchive, OneAtATime
  <2>. QED BY <2>1, <2>2, <2>3 DEF IInv
<1>7. CASE ReclaimFails(d)
  <2>1. TypeOK'
    BY <1>0, <1>7, FaultCounted DEF ReclaimFails, TypeOK
  <2>0. mode = "flush" => At(d)
    BY <1>7 DEF ReclaimFails, MayReclaim
  <2>2. mode = "flush" => \A e \in Dumps : Running(e) = {}
    BY <1>1, <2>0, NoneElse
  <2>3. \A e \in Dumps : Progress(e)'
    BY <1>0, <1>1, <1>2, <1>3, <1>4, <1>7, <2>2 DEF ReclaimFails, TypeOK, Progress, Readable, Unserved
  <2>4. OneAtATime'
    BY <1>2, <1>7, <2>2 DEF ReclaimFails, OneAtATime
  <2>. QED BY <2>1, <2>3, <2>4 DEF IInv
<1>. QED BY <1>5, <1>6, <1>7 DEF ReclaimAt

LEMMA FlushKeeps ==
  ASSUME IInv, NEW d \in Dumps, FlushStep(d)
  PROVE  IInv'
<1> USE DEF SetDrain, sets, durable
<1>0. TypeOK /\ OneAtATime /\ \A e \in Dumps : Progress(e)
  BY DEF IInv
<1>1. CASE FlushCannotRead(d)
  <2>1. \A e \in Dumps : Running(e)' = {}
    <3>1. \A e \in Dumps : Running(e)' = Running(e)
      BY <1>1 DEF FlushCannotRead, Running
    <3>2. Running(d) = {}
      BY <1>0, <1>1 DEF FlushCannotRead, Progress
    <3>. QED BY <1>1, <3>1, <3>2, NoneElse DEF FlushCannotRead
  <2>2. TypeOK'
    BY <1>0, <1>1 DEF FlushCannotRead, TypeOK
  <2>3. \A e \in Dumps : Progress(e)'
    BY <1>0, <1>1, <2>1 DEF FlushCannotRead, Progress, Readable, Unserved
  <2>. QED BY <1>1, <2>1, <2>2, <2>3 DEF FlushCannotRead, IInv, OneAtATime
<1>2. CASE FlushCannotWrite(d)
  <2>0. \A e \in Dumps : drain'[e] = IF e = d THEN Idle ELSE drain[e]
    BY <1>0, <1>2 DEF FlushCannotWrite, TypeOK
  <2>1. \A e \in Dumps : Running(e)' = {}
    <3>1. Running(d)' = {}
      BY <2>0 DEF Running, Idle
    <3>2. \A e \in Dumps : e # d => Running(e)' = Running(e)
      BY <2>0 DEF Running
    <3>. QED BY <1>2, <3>1, <3>2, NoneElse DEF FlushCannotWrite
  <2>2. TypeOK'
    BY <1>0, <1>2, Constants DEF FlushCannotWrite, Fault, Idle, TypeOK
  <2>3. \A e \in Dumps : Progress(e)'
    BY <1>0, <1>2, <2>0, <2>1 DEF FlushCannotWrite, Idle, Progress, Readable, Unserved
  <2>. QED BY <1>2, <2>1, <2>2, <2>3 DEF FlushCannotWrite, IInv, OneAtATime
<1>3. ASSUME NEW l \in Lanes, FlushSeals(d, l) PROVE IInv'
  <2>1. TypeOK'
    BY <1>0, <1>3 DEF FlushSeals, TypeOK
  <2>2. \A e \in Dumps, m \in Lanes :
          drain'[e][m] = IF e = d /\ m = l THEN "sealed" ELSE drain[e][m]
    BY <1>0, <1>3 DEF FlushSeals, TypeOK
  <2>3. Running(d) = {}
    BY <1>3 DEF FlushSeals, Running, Idle
  <2>4. Running(d)' = {l} /\ \A e \in Dumps : e # d => Running(e)' = Running(e)
    <3>1. \A m \in Lanes : drain[d][m] = "none"
      BY <2>3 DEF Running
    <3>. QED BY <2>2, <3>1 DEF Running
  <2>5. \A e \in Dumps : sealed'[e] = IF e = d THEN sealed[e] \cup {l} ELSE sealed[e]
    BY <1>0, <1>3 DEF FlushSeals, TypeOK
  <2>6. l \in RouteSet[d] /\ l \notin recorded[d] /\ staged[d] /\ Readable(d)
        /\ mode = "flush" /\ mode' = mode /\ stage' = stage /\ holding' = holding /\ staged' = staged
        /\ recorded' = recorded /\ remaining' = remaining /\ landed' = landed
    BY <1>3 DEF FlushSeals, At, Leftover, Unserved
  <2>e. \A e \in Dumps : e # d => drain'[e] = drain[e]
    BY <1>0, <1>3 DEF FlushSeals, TypeOK
  <2>f. \A e \in Dumps : e # d => Progress(e)'
    BY <1>0, <2>5, <2>6, <2>e, Untouched
  <2>g. \A m \in Lanes : drain[d][m] = "none" /\ drain'[d][m] = IF m = l THEN "sealed" ELSE "none"
    BY <2>2, <2>3 DEF Running
  <2>h. stage[d] = "over" \/ stage[d] = "none"
    BY <1>0, <2>6 DEF Progress
  <2>i. Progress(d)'
    BY <1>0, <2>4, <2>5, <2>6, <2>g, <2>h DEF Progress, Readable, Unserved
  <2>7. \A e \in Dumps : Progress(e)'
    BY <2>f, <2>i
  <2>8. OneAtATime'
    <3>1. \A e \in Dumps : At(e)' <=> At(e)
      BY <2>6 DEF At, Leftover
    <3>. QED BY <1>0, <1>3, <2>4, <2>6, <3>1 DEF OneAtATime, FlushSeals
  <2>. QED BY <2>1, <2>7, <2>8 DEF IInv
<1>4. ASSUME NEW l \in Lanes, FlushRecords(d, l) PROVE IInv'
  <2>1. TypeOK'
    BY <1>0, <1>4 DEF FlushRecords, TypeOK
  <2>2. \A e \in Dumps, m \in Lanes :
          drain'[e][m] = IF e = d /\ m = l THEN "none" ELSE drain[e][m]
    BY <1>0, <1>4 DEF FlushRecords, TypeOK
  <2>3. Running(d)' = Running(d) \ {l} /\ \A e \in Dumps : e # d => Running(e)' = Running(e)
    BY <2>2 DEF Running
  <2>4. \A e \in Dumps : recorded'[e] = IF e = d THEN recorded[e] \cup {l} ELSE recorded[e]
    BY <1>0, <1>4 DEF FlushRecords, TypeOK
  <2>5. drain[d][l] = "sealed" /\ Running(d) # {}
        /\ mode = "flush" /\ mode' = mode /\ stage' = stage /\ holding' = holding /\ staged' = staged
        /\ sealed' = sealed /\ remaining' = remaining /\ landed' = landed
    BY <1>4 DEF FlushRecords, Running
  <2>6. stage[d] = "over"
    BY <1>0, <2>5 DEF Progress
  <2>e. \A e \in Dumps : e # d => drain'[e] = drain[e]
    BY <1>0, <1>4 DEF FlushRecords, TypeOK
  <2>f. \A e \in Dumps : e # d => Progress(e)'
    BY <1>0, <2>4, <2>5, <2>e, Untouched
  <2>g. \A m \in Lanes : drain'[d][m] = IF m = l THEN "none" ELSE drain[d][m]
    BY <2>2
  <2>h. /\ Progress(d) /\ l \in sealed[d] /\ recorded[d] \subseteq sealed[d]
        /\ Running(d) \subseteq RouteSet[d] \ recorded[d] /\ staged[d] /\ Readable(d)
    BY <1>0, <2>5 DEF Progress, Unserved
  <2>j. /\ recorded'[d] = recorded[d] \cup {l} /\ recorded'[d] # {} /\ recorded'[d] \subseteq sealed[d]
        /\ Running(d)' \subseteq RouteSet[d] \ recorded'[d]
    BY <2>3, <2>4, <2>h
  <2>i. Progress(d)'
    BY <2>5, <2>6, <2>g, <2>h, <2>j DEF Progress, Readable, Unserved
  <2>7. \A e \in Dumps : Progress(e)'
    BY <2>f, <2>i
  <2>8. OneAtATime'
    <3>1. \A e \in Dumps : At(e)' <=> At(e)
      BY <2>5 DEF At, Leftover
    <3>. QED BY <1>0, <2>3, <2>5, <3>1 DEF OneAtATime
  <2>. QED BY <2>1, <2>7, <2>8 DEF IInv
<1>. QED BY <1>1, <1>2, <1>3, <1>4 DEF FlushStep

\* The end of a process, and the start of the next.
LEMMA EndKeeps ==
  ASSUME IInv, RunEnds \/ Crash \/ FlushStarts \/ FlushDone
  PROVE  IInv'
<1> USE DEF sets, durable
<1>0. TypeOK /\ OneAtATime /\ \A e \in Dumps : Progress(e)
  BY DEF IInv
<1>1. CASE RunEnds \/ Crash
  <2>1. TypeOK'
    <3>1. Idle \in [Lanes -> {"none", "queued", "sealed"}]
      BY DEF Idle
    <3>2. faults' \in 0..MaxFaults
      BY <1>0, <1>1, FaultCounted DEF RunEnds, Crash, TypeOK
    <3>3. stage' \in [Dumps -> {"none", "sealed", "draining", "reclaiming", "over"}]
      BY <1>1 DEF RunEnds, Crash, Forget
    <3>4. /\ drain' \in [Dumps -> [Lanes -> {"none", "queued", "sealed"}]]
          /\ remaining' \in [Dumps -> Nat] /\ landed' \in [Dumps -> Nat]
          /\ tripped' = {} /\ aborted' = FALSE /\ mode' = "none"
          /\ holding' = holding /\ staged' = staged /\ sealed' = sealed /\ recorded' = recorded
      BY <1>1, <3>1 DEF RunEnds, Crash, Forget
    <3>. QED BY <1>0, <3>2, <3>3, <3>4 DEF TypeOK
  <2>2. \A e \in Dumps : drain'[e] = Idle /\ stage'[e] = (IF stage[e] = "none" THEN "none" ELSE "over")
    BY <1>1 DEF RunEnds, Crash, Forget
  <2>3. \A e \in Dumps : Running(e)' = {}
    BY <2>2 DEF Running, Idle
  <2>4. \A e \in Dumps : Progress(e)'
    BY <1>0, <1>1, <2>2, <2>3 DEF RunEnds, Crash, Forget, Idle, Progress, Readable, Unserved
  <2>. QED BY <2>1, <2>3, <2>4 DEF IInv, OneAtATime
<1>2. CASE FlushStarts \/ FlushDone
  <2>1. TypeOK'
    BY <1>0, <1>2 DEF FlushStarts, FlushDone, TypeOK
  <2>2. \A e \in Dumps : Running(e)' = {}
    <3>1. \A e \in Dumps : Running(e)' = Running(e)
      BY <1>2 DEF FlushStarts, FlushDone, Running
    <3>2. \A e \in Dumps : Running(e) = {}
      BY <1>0, <1>2 DEF FlushStarts, FlushDone, Progress, Leftover
    <3>. QED BY <3>1, <3>2
  <2>3. \A e \in Dumps : stage[e] \in {"none", "over"}
    BY <1>0, <1>2 DEF FlushStarts, FlushDone, Progress
  <2>4. \A e \in Dumps : Progress(e)'
    BY <1>0, <1>2, <2>2, <2>3 DEF FlushStarts, FlushDone, Progress, Readable, Unserved
  <2>. QED BY <2>1, <2>2, <2>4 DEF IInv, OneAtATime
<1>. QED BY <1>1, <1>2

LEMMA IInvKept ==
  IInv /\ [Next]_vars => IInv'
<1>1. ASSUME IInv, UNCHANGED vars PROVE IInv'
  <2>1. TypeOK'
    BY <1>1 DEF vars, durable, sets, IInv, TypeOK
  <2>2. \A e \in Dumps : Progress(e)'
    BY <1>1, Untouched DEF vars, durable, sets, IInv
  <2>3. OneAtATime'
    BY <1>1 DEF vars, durable, sets, IInv, OneAtATime, Running, At, Leftover
  <2>. QED BY <2>1, <2>2, <2>3 DEF IInv
<1>. QED BY <1>1, LiveKeeps, ReclaimKeeps, FlushKeeps, EndKeeps DEF Next

\* The types of the model.
THEOREM TypeCorrect == Spec => []TypeOK
<1>1. Init => IInv
  BY InitHolds
<1>2. IInv /\ [Next]_vars => IInv'
  BY IInvKept
<1>3. IInv => TypeOK
  BY DEF IInv
<1>. QED BY <1>1, <1>2, <1>3, PTL DEF Spec

\* Wherever the process dies, whatever fails and however often the flush is repeated, an
\* archive the catalog ever placed can be read from a staged copy it places or from a
\* landing that holds all of it (writer.go, drainTo, ReclaimAt, Flush).
THEOREM NothingCommittedIsLost == Spec => []NeverLost
<1>1. Init => IInv
  BY InitHolds
<1>2. IInv /\ [Next]_vars => IInv'
  BY IInvKept
<1>3. IInv => NeverLost
  <2>1. SUFFICES ASSUME IInv, NEW d \in Dumps, staged[d] \/ recorded[d] # {}
                 PROVE  (staged[d] /\ Readable(d)) \/ recorded[d] \cap sealed[d] # {}
    BY DEF NeverLost
  <2>2. Progress(d) /\ TypeOK
    BY <2>1 DEF IInv
  <2>3. holding[d] \in {"none", "sealed", "footless", "gone"}
    BY <2>2 DEF TypeOK
  <2>. QED BY <2>1, <2>2, <2>3 DEF Progress, Readable
<1>. QED BY <1>1, <1>2, <1>3, PTL DEF Spec
-----------------------------------------------------------------------------
\* The contract.

\* A step of the live run is one of the contract's, or none.
LEMMA LiveMaps ==
  ASSUME IInv, IInv', NEW d \in Dumps, LiveStep(d)
  PROVE  [Archives!Next]_<<StagedFiles, staged, LandingCopies>>
<1> USE DEF SetStage, SetDrain, sets, durable
<1>0. TypeOK /\ (\A e \in Dumps : Progress(e)) /\ (\A e \in Dumps : Progress(e)')
  BY DEF IInv
<1>1. /\ \A e \in Dumps : LandingCopies[e] = recorded[e] /\ LandingCopies'[e] = recorded'[e]
      /\ LandingCopies = [e \in Dumps |-> LandingCopies[e]]
      /\ LandingCopies' = [e \in Dumps |-> LandingCopies'[e]]
  BY <1>0 DEF Progress, LandingCopies
<1>2. /\ \A e \in Dumps : StagedFiles[e] = IF holding[e] = "gone" THEN "gone"
                                           ELSE IF staged[e] THEN "whole" ELSE "none"
      /\ \A e \in Dumps : StagedFiles'[e] = IF holding'[e] = "gone" THEN "gone"
                                            ELSE IF staged'[e] THEN "whole" ELSE "none"
      /\ StagedFiles = [e \in Dumps |-> StagedFiles[e]]
      /\ StagedFiles' = [e \in Dumps |-> StagedFiles'[e]]
  BY DEF StagedFiles
<1>3. ASSUME recorded' = recorded PROVE LandingCopies' = LandingCopies
  BY <1>1, <1>3
<1>4. ASSUME holding' = holding, staged' = staged PROVE StagedFiles' = StagedFiles
  BY <1>2, <1>4
<1>5. CASE SealStaged(d)
  <2>1. holding[d] = "none" /\ recorded' = recorded /\ staged' = staged
        /\ \A e \in Dumps : holding'[e] = IF e = d THEN "sealed" ELSE holding[e]
    BY <1>0, <1>5 DEF SealStaged, Progress, TypeOK
  <2>2. \A e \in Dumps : StagedFiles'[e] = StagedFiles[e]
    BY <1>2, <2>1
  <2>3. StagedFiles' = StagedFiles
    BY <1>2, <2>2
  <2>. QED BY <1>3, <2>1, <2>3
<1>6. CASE RecordStaged(d)
  <2>1. /\ holding[d] = "sealed" /\ ~staged[d] /\ recorded[d] = {}
        /\ holding' = holding /\ recorded' = recorded /\ staged' = [staged EXCEPT ![d] = TRUE]
        /\ \A e \in Dumps : staged'[e] = IF e = d THEN TRUE ELSE staged[e]
    BY <1>0, <1>6 DEF RecordStaged, Progress, TypeOK
  <2>2. StagedFiles[d] = "none" /\ LandingCopies[d] = {}
    BY <1>1, <1>2, <2>1
  <2>3. StagedFiles' = [StagedFiles EXCEPT ![d] = "whole"]
    <3>1. \A e \in Dumps : StagedFiles'[e] = IF e = d THEN "whole" ELSE StagedFiles[e]
      BY <1>2, <2>1
    <3>. QED BY <1>2, <3>1
  <2>. QED BY <1>3, <2>1, <2>2, <2>3 DEF Archives!Next, Archives!Stage
<1>7. ASSUME NEW l \in Lanes, DrainRecords(d, l)
      PROVE  [Archives!Next]_<<StagedFiles, staged, LandingCopies>>
  <2>1. /\ drain[d][l] = "sealed" /\ holding' = holding /\ staged' = staged /\ mode = "run"
        /\ \A e \in Dumps : recorded'[e] = IF e = d THEN recorded[e] \cup {l} ELSE recorded[e]
    BY <1>0, <1>7 DEF DrainRecords, TypeOK
  <2>2. Running(d) # {}
    BY <2>1 DEF Running
  <2>3. l \in RouteSet[d] /\ StagedFiles[d] = "whole"
    BY <1>0, <1>2, <2>1, <2>2 DEF Progress
  <2>4. LandingCopies' = [LandingCopies EXCEPT ![d] = @ \cup {l}]
    <3>1. \A e \in Dumps : LandingCopies'[e] = IF e = d THEN LandingCopies[d] \cup {l} ELSE LandingCopies[e]
      BY <1>1, <2>1
    <3>. QED BY <1>1, <3>1
  <2>5. CASE l \in LandingCopies[d]
    <3>1. LandingCopies' = LandingCopies
      BY <1>1, <2>4, <2>5
    <3>. QED BY <1>4, <2>1, <3>1
  <2>6. CASE l \notin LandingCopies[d]
    <3>1. Archives!Land(d, l)
      BY <1>4, <2>1, <2>3, <2>4, <2>6 DEF Archives!Land
    <3>. QED BY <3>1 DEF Archives!Next
  <2>. QED BY <2>5, <2>6
<1>8. CASE ~SealStaged(d) /\ ~RecordStaged(d) /\ ~\E l \in Lanes : DrainRecords(d, l)
  <2>1. recorded' = recorded /\ holding' = holding /\ staged' = staged
    BY <1>8 DEF LiveStep, IngestRefused, RecordFails, DrainSeals, DrainFails
  <2>. QED BY <1>3, <1>4, <2>1
<1>. QED BY <1>5, <1>6, <1>7, <1>8

LEMMA RecoveryMaps ==
  ASSUME IInv, IInv', NEW d \in Dumps, ReclaimAt(d) \/ FlushStep(d)
  PROVE  [Archives!Next]_<<StagedFiles, staged, LandingCopies>>
<1> USE DEF SetStage, SetDrain, sets, durable
<1>0. TypeOK /\ (\A e \in Dumps : Progress(e)) /\ (\A e \in Dumps : Progress(e)')
  BY DEF IInv
<1>1. /\ \A e \in Dumps : LandingCopies[e] = recorded[e] /\ LandingCopies'[e] = recorded'[e]
      /\ LandingCopies = [e \in Dumps |-> LandingCopies[e]]
      /\ LandingCopies' = [e \in Dumps |-> LandingCopies'[e]]
  BY <1>0 DEF Progress, LandingCopies
<1>2. /\ \A e \in Dumps : StagedFiles[e] = IF holding[e] = "gone" THEN "gone"
                                           ELSE IF staged[e] THEN "whole" ELSE "none"
      /\ \A e \in Dumps : StagedFiles'[e] = IF holding'[e] = "gone" THEN "gone"
                                            ELSE IF staged'[e] THEN "whole" ELSE "none"
      /\ StagedFiles = [e \in Dumps |-> StagedFiles[e]]
      /\ StagedFiles' = [e \in Dumps |-> StagedFiles'[e]]
  BY DEF StagedFiles
<1>3. ASSUME recorded' = recorded PROVE LandingCopies' = LandingCopies
  BY <1>1, <1>3
<1>4. ASSUME holding' = holding, staged' = staged PROVE StagedFiles' = StagedFiles
  BY <1>2, <1>4
<1>5. CASE RemoveFooter(d)
  <2>1. staged[d] /\ recorded' = recorded /\ staged' = staged /\ holding[d] = "sealed"
        /\ \A e \in Dumps : holding'[e] = IF e = d THEN "footless" ELSE holding[e]
    BY <1>0, <1>5, ReclaimingIsSafe DEF RemoveFooter, TypeOK
  <2>2. \A e \in Dumps : StagedFiles'[e] = StagedFiles[e]
    BY <1>2, <2>1
  <2>3. StagedFiles' = StagedFiles
    BY <1>2, <2>2
  <2>. QED BY <1>3, <2>1, <2>3
<1>6. CASE RemoveParts(d)
  <2>1. staged[d] /\ recorded[d] # {} /\ recorded' = recorded /\ staged' = staged /\ holding[d] = "footless"
        /\ \A e \in Dumps : holding'[e] = IF e = d THEN "gone" ELSE holding[e]
    BY <1>0, <1>6, ReclaimingIsSafe DEF RemoveParts, TypeOK
  <2>2. StagedFiles[d] = "whole" /\ LandingCopies[d] # {}
    BY <1>1, <1>2, <2>1
  <2>3. StagedFiles' = [StagedFiles EXCEPT ![d] = "gone"]
    <3>1. \A e \in Dumps : StagedFiles'[e] = IF e = d THEN "gone" ELSE StagedFiles[e]
      BY <1>2, <2>1
    <3>. QED BY <1>2, <3>1
  <2>. QED BY <1>3, <2>1, <2>2, <2>3 DEF Archives!Next, Archives!RemoveFiles
<1>7. CASE RemoveArchive(d)
  <2>1. /\ staged[d] /\ recorded' = recorded /\ holding[d] = "gone" /\ holding' = holding
        /\ staged' = [staged EXCEPT ![d] = FALSE]
        /\ \A e \in Dumps : staged'[e] = IF e = d THEN FALSE ELSE staged[e]
    BY <1>0, <1>7, ReclaimingIsSafe DEF RemoveArchive, TypeOK
  <2>2. \A e \in Dumps : StagedFiles'[e] = StagedFiles[e]
    BY <1>2, <2>1
  <2>3. StagedFiles' = StagedFiles /\ StagedFiles[d] = "gone"
    BY <1>2, <2>1, <2>2
  <2>. QED BY <1>3, <2>1, <2>3 DEF Archives!Next, Archives!DropPlacement
<1>8. ASSUME NEW l \in Lanes, FlushRecords(d, l)
      PROVE  [Archives!Next]_<<StagedFiles, staged, LandingCopies>>
  <2>1. /\ drain[d][l] = "sealed" /\ holding' = holding /\ staged' = staged /\ mode = "flush"
        /\ \A e \in Dumps : recorded'[e] = IF e = d THEN recorded[e] \cup {l} ELSE recorded[e]
    BY <1>0, <1>8 DEF FlushRecords, TypeOK
  <2>2. Running(d) # {}
    BY <2>1 DEF Running
  <2>3. l \in RouteSet[d] /\ StagedFiles[d] = "whole"
    BY <1>0, <1>2, <2>1, <2>2 DEF Progress, Readable
  <2>4. LandingCopies' = [LandingCopies EXCEPT ![d] = @ \cup {l}]
    <3>1. \A e \in Dumps : LandingCopies'[e] = IF e = d THEN LandingCopies[d] \cup {l} ELSE LandingCopies[e]
      BY <1>1, <2>1
    <3>. QED BY <1>1, <3>1
  <2>5. CASE l \in LandingCopies[d]
    <3>1. LandingCopies' = LandingCopies
      BY <1>1, <2>4, <2>5
    <3>. QED BY <1>4, <2>1, <3>1
  <2>6. CASE l \notin LandingCopies[d]
    <3>1. Archives!Land(d, l)
      BY <1>4, <2>1, <2>3, <2>4, <2>6 DEF Archives!Land
    <3>. QED BY <3>1 DEF Archives!Next
  <2>. QED BY <2>5, <2>6
<1>9. CASE \/ ReclaimFails(d) \/ FlushCannotRead(d) \/ FlushCannotWrite(d)
           \/ \E l \in Lanes : FlushSeals(d, l)
  <2>1. recorded' = recorded /\ holding' = holding /\ staged' = staged
    BY <1>9 DEF ReclaimFails, FlushCannotRead, FlushCannotWrite, FlushSeals
  <2>. QED BY <1>3, <1>4, <2>1
<1>. QED BY <1>5, <1>6, <1>7, <1>8, <1>9 DEF ReclaimAt, FlushStep

\* Every step is one the contract allows, or one it does not see.
LEMMA StepsMap ==
  ASSUME IInv, IInv', [Next]_vars
  PROVE  [Archives!Next]_<<StagedFiles, staged, LandingCopies>>
<1>1. CASE UNCHANGED vars \/ RunEnds \/ Crash \/ FlushStarts \/ FlushDone
  <2>1. holding' = holding /\ staged' = staged /\ sealed' = sealed /\ recorded' = recorded
    BY <1>1 DEF vars, durable, RunEnds, Crash, FlushStarts, FlushDone
  <2>. QED BY <2>1 DEF StagedFiles, LandingCopies
<1>2. CASE \E d \in Dumps : LiveStep(d) \/ ReclaimAt(d) \/ FlushStep(d)
  BY <1>2, LiveMaps, RecoveryMaps
<1>. QED BY <1>1, <1>2 DEF Next

\* A live run that counts its drains and trips its lanes, reclaims in three steps, crashes
\* between any two steps, failing media and catalog, and the flushes after them implement the
\* staging contract (drainTo, ReclaimAt, Flush).
THEOREM KeepsStagingContract == Spec => ImplementsStagedArchives
<1>1. Init => Archives!Init
  BY DEF Init, Archives!Init, StagedFiles, LandingCopies
<1>2. Init => IInv
  BY InitHolds
<1>3. IInv /\ [Next]_vars => IInv'
  BY IInvKept
<1>4. IInv /\ IInv' /\ [Next]_vars => [Archives!Next]_<<StagedFiles, staged, LandingCopies>>
  BY StepsMap
<1>. QED
  BY <1>1, <1>2, <1>3, <1>4, PTL
  DEF Spec, ImplementsStagedArchives, Archives!Spec, Archives!archiveVars
-----------------------------------------------------------------------------
\* Least and greatest elements, which the inductions below go by.

\* A set of numbers that is not empty has a smallest.
LEMMA ASmallestOne ==
  ASSUME NEW S \in SUBSET Nat, S # {}
  PROVE  \E x \in S : \A y \in S : x <= y
<1> DEFINE Below == OpToRel(<, Nat)
<1>1. PICK x \in S : \A y \in S : <<y, x>> \notin Below
  <2>1. IsWellFoundedOn(Below, Nat)
    BY NatLessThanWellFounded
  <2>. QED BY <2>1, WFMin
<1>2. ASSUME NEW y \in S PROVE x <= y
  <2>1. <<y, x>> \in Nat \X Nat /\ <<y, x>>[1] = y /\ <<y, x>>[2] = x /\ x \in Nat /\ y \in Nat
    OBVIOUS
  <2>2. ~(y < x)
    BY <1>1, <2>1 DEF OpToRel
  <2>. QED BY <2>1, <2>2
<1>. QED BY <1>2

\* The newest of some runs is one of them, and none is newer.
LEMMA NewestIsOne ==
  ASSUME NEW n \in Nat, NEW S \in SUBSET (1..n), S # {}
  PROVE  Newest(S) \in S /\ \A q \in S : q <= Newest(S)
<1> DEFINE Bounds == {k \in Nat : \A q \in S : q <= k}
<1>1. Bounds \in SUBSET Nat /\ Bounds # {}
  <2>1. n \in Bounds
    OBVIOUS
  <2>. QED BY <2>1
<1>2. PICK k \in Bounds : \A j \in Bounds : k <= j
  <2>. HIDE DEF Bounds
  <2>. QED BY <1>1, ASmallestOne
<1>3. k \in S
  <2>1. SUFFICES ASSUME k \notin S PROVE FALSE
    OBVIOUS
  <2>2. PICK q \in S : q \in 1..n
    OBVIOUS
  <2>3. k - 1 \in Nat /\ \A p \in S : p <= k - 1
    BY <2>1, <2>2
  <2>. QED BY <1>2, <2>3
<1>. QED BY <1>2, <1>3 DEF Newest

\* The newest of no runs.
LEMMA NewestOfNone == Newest({}) = 0
BY DEF Newest
-----------------------------------------------------------------------------
\* Chains.

\* What ChainIn says of a run, from what it says of others.
Link(a, S, f, r) ==
  LET b == BaseOf(a, S, r)
  IN IF a[r].level = 0 THEN {r}
     ELSE IF b = 0 \/ f[b] = {} THEN {}
     ELSE {r} \cup f[b]
Solves(a, S, f) == f = [r \in S |-> Link(a, S, f, r)]

\* The archive a restore builds on is an earlier one.
LEMMA BaseIsEarlier ==
  ASSUME NEW a, NEW n \in Nat, NEW S \in SUBSET (1..n), NEW r \in S
  PROVE  BaseOf(a, S, r) = 0 \/ (BaseOf(a, S, r) \in S /\ BaseOf(a, S, r) < r)
<1> DEFINE older == {q \in S : q < r}
           known == older \cap {a[r].base}
           below == {q \in older : a[q].level = a[r].level - 1}
<1>1. ASSUME NEW T \in SUBSET older
      PROVE  Newest(T) = 0 \/ Newest(T) \in older
  BY NewestIsOne, NewestOfNone
<1>2. BaseOf(a, S, r) = 0 \/ BaseOf(a, S, r) = Newest(known) \/ BaseOf(a, S, r) = Newest(below)
  BY DEF BaseOf
<1>3. known \in SUBSET older /\ below \in SUBSET older
  OBVIOUS
<1>4. BaseOf(a, S, r) = 0 \/ BaseOf(a, S, r) \in older
  <2>. HIDE DEF older, known, below
  <2>. QED BY <1>1, <1>2, <1>3
<1>. QED BY <1>4

\* The equation has a solution on the first runs, then on one more.
LEMMA ChainsExist ==
  ASSUME NEW a, NEW n \in Nat, NEW S \in SUBSET (1..n)
  PROVE  \E f : Solves(a, S, f)
<1> DEFINE First(k) == {r \in S : r <= k}
           Part(k, f) == /\ f = [r \in First(k) |-> f[r]]
                         /\ \A r \in First(k) : f[r] = Link(a, S, f, r)
           Bad == {k \in Nat : ~\E f : Part(k, f)}
<1>1. Bad = {}
  <2>1. SUFFICES ASSUME Bad # {} PROVE FALSE
    OBVIOUS
  <2>2. PICK k \in Bad : \A j \in Bad : k <= j
    BY <2>1, ASmallestOne
  <2>3. k # 0
    <3>1. First(0) = {}
      OBVIOUS
    <3>2. Part(0, [r \in {} |-> 0])
      BY <3>1
    <3>. QED BY <3>2
  <2>4. k - 1 \in Nat /\ k - 1 \notin Bad
    <3>1. k \in Nat
      BY <2>2
    <3>2. k - 1 \in Nat /\ ~(k <= k - 1)
      BY <3>1, <2>3
    <3>. HIDE DEF Bad
    <3>. QED BY <3>2, <2>2
  <2>5. PICK f : Part(k - 1, f)
    BY <2>4
  <2> DEFINE g == [r \in First(k) |-> IF r = k THEN Link(a, S, f, r) ELSE f[r]]
  <2>6. ASSUME NEW r \in First(k) PROVE g[r] = Link(a, S, g, r)
    <3>1. r \in S /\ r \in 1..n
      OBVIOUS
    <3>2. BaseOf(a, S, r) = 0 \/ (BaseOf(a, S, r) \in First(k - 1) /\ BaseOf(a, S, r) < r)
      BY <3>1, BaseIsEarlier, <2>2
    <3>3. BaseOf(a, S, r) # 0 => g[BaseOf(a, S, r)] = f[BaseOf(a, S, r)]
      BY <3>1, <3>2, <2>2
    <3>4. Link(a, S, g, r) = Link(a, S, f, r)
      <4>. HIDE DEF g
      <4>. QED BY <3>3 DEF Link
    <3>5. CASE r = k
      BY <3>5, <3>4
    <3>6. CASE r # k
      <4>1. r \in First(k - 1)
        BY <3>6, <3>1, <2>2
      <4>2. g[r] = f[r]
        BY <3>6
      <4>. QED BY <4>1, <4>2, <3>4, <2>5
    <3>. QED BY <3>5, <3>6
  <2>7. Part(k, g)
    <3>1. g = [r \in First(k) |-> g[r]]
      OBVIOUS
    <3>. QED BY <3>1, <2>6
  <2>. QED BY <2>7, <2>2
<1>2. n \in Nat /\ n \notin Bad
  BY <1>1
<1>3. PICK h : Part(n, h)
  BY <1>2
<1>4. First(n) = S
  <2>1. \A r \in S : r <= n
    OBVIOUS
  <2>. QED BY <2>1
<1>5. h = [r \in S |-> Link(a, S, h, r)]
  BY <1>3, <1>4
<1>. QED BY <1>5 DEF Solves

\* So ChainIn does what it says.
LEMMA ChainUnfolds ==
  ASSUME NEW a, NEW n \in Nat, NEW S \in SUBSET (1..n), NEW r \in S
  PROVE  ChainIn(a, S)[r] = Link(a, S, ChainIn(a, S), r)
<1> DEFINE P(f) == f = [q \in S |-> Link(a, S, f, q)]
<1>1. ChainIn(a, S) = CHOOSE f : P(f)
  BY DEF ChainIn, Link
<1>2. \E h : P(h)
  BY ChainsExist DEF Solves
<1>3. P(CHOOSE f : P(f))
  <2>. HIDE DEF P
  <2>. QED BY <1>2
<1>4. ChainIn(a, S) = [q \in S |-> Link(a, S, ChainIn(a, S), q)]
  BY <1>1, <1>3
<1>. QED BY <1>4

\* Where every incremental has a base, each run can be restored.
LEMMA LinkedIsRestorable ==
  ASSUME NEW a, NEW n \in Nat, NEW S \in SUBSET (1..n),
         \A r \in S : a[r].level # 0 => BaseOf(a, S, r) # 0
  PROVE  Restorable(a, S) = S
<1>0. \A q \in S : q \in Nat
  OBVIOUS
<1> DEFINE Bad == {r \in S : ChainIn(a, S)[r] = {}}
<1>1. SUFFICES ASSUME Bad # {} PROVE FALSE
  BY DEF Restorable
<1>2. PICK r \in Bad : \A q \in Bad : r <= q
  <2>1. Bad \in SUBSET Nat
    <3>1. Bad \subseteq S
      OBVIOUS
    <3>. QED BY <1>0, <3>1
  <2>. QED BY <1>1, <2>1, ASmallestOne
<1>3. ChainIn(a, S)[r] = Link(a, S, ChainIn(a, S), r)
  BY ChainUnfolds
<1>4. a[r].level # 0
  <2>1. r \in S /\ ChainIn(a, S)[r] = {}
    BY <1>2
  <2>2. a[r].level = 0 => ChainIn(a, S)[r] = {r}
    BY <1>3 DEF Link
  <2>. QED BY <2>1, <2>2
<1>5. BaseOf(a, S, r) \in S /\ BaseOf(a, S, r) < r
  BY <1>4, BaseIsEarlier
<1>6. ChainIn(a, S)[BaseOf(a, S, r)] # {}
  <2>1. \A q \in S : q < r => q \notin Bad
    <3>1. r \in Nat
      BY <1>0, <1>2
    <3>. HIDE DEF Bad
    <3>. QED BY <1>0, <1>2, <3>1
  <2>. QED BY <2>1, <1>5
<1>. QED BY <1>2, <1>3, <1>4, <1>5, <1>6 DEF Link

\* A chain is of the runs it is looked for among.
LEMMA ChainsAreWithin ==
  ASSUME NEW a, NEW n \in Nat, NEW S \in SUBSET (1..n)
  PROVE  \A r \in S : ChainIn(a, S)[r] \subseteq S
<1>0. \A q \in S : q \in Nat
  OBVIOUS
<1> DEFINE Bad == {r \in S : ~(ChainIn(a, S)[r] \subseteq S)}
<1>1. SUFFICES ASSUME Bad # {} PROVE FALSE
  OBVIOUS
<1>2. PICK r \in Bad : \A q \in Bad : r <= q
  <2>1. Bad \in SUBSET Nat
    <3>1. Bad \subseteq S
      OBVIOUS
    <3>. QED BY <1>0, <3>1
  <2>. QED BY <1>1, <2>1, ASmallestOne
<1>3. ChainIn(a, S)[r] = Link(a, S, ChainIn(a, S), r)
  BY ChainUnfolds
<1>4. PICK b : b = BaseOf(a, S, r)
  OBVIOUS
<1>5. b # 0 => ChainIn(a, S)[b] \subseteq S
  <2>1. \A q \in S : q < r => q \notin Bad
    <3>1. r \in Nat
      BY <1>0, <1>2
    <3>. HIDE DEF Bad
    <3>. QED BY <1>0, <1>2, <3>1
  <2>2. b = 0 \/ (b \in S /\ b < r)
    <3>1. r \in S
      BY <1>2
    <3>. QED BY <3>1, <1>4, BaseIsEarlier
  <2>. QED BY <2>1, <2>2
<1>6. Link(a, S, ChainIn(a, S), r) \subseteq S
  BY <1>4, <1>5 DEF Link
<1>. QED BY <1>2, <1>3, <1>6
-----------------------------------------------------------------------------
\* The inductive invariant.

\* A plan is made where there is room for its run.
Typed == CycleTypeOK /\ (step = "planned" => Len(arch) < MaxRuns)

\* A reclamation under way: what its medium still holds it held at the start; of that, it keeps
\* the last full, which is there still, and condemns no full.
Floor ==
  prune # NoPrune =>
    /\ step \in {"idle", "planned"}
    /\ \E m \in Media : /\ prune.medium = {m} /\ On(m) \subseteq prune.on
                       /\ LastFull(arch, prune.on) \subseteq prune.kept \cap On(m)
    /\ Fulls(arch, prune.condemned) = {}

\* On one landing.

FullsUpTo(S, r) == \A f \in Fulls(arch, S) : f <= r

\* Every incremental has its base, which is the level below, no older than a full before it,
\* and no older than the state the incremental was dumped against.
Linked ==
  \A r \in InCatalog : arch[r].level # 0 =>
    /\ arch[r].base \in InCatalog /\ arch[arch[r].base].level = arch[r].level - 1
    /\ arch[r].seed <= arch[r].base
    /\ \A f \in Fulls(arch, InCatalog) : f < r => f <= arch[r].base

\* A snapshot is of a run that can be built on, or a full has come since.
Snapped ==
  \A l \in Levels : snapshot[l] # 0 =>
    \/ snapshot[l] \in RunsAt(l)
    \/ \E f \in RunsAt(0) : snapshot[l] <= f

\* What is planned can be built on, and stays so while room is made for it.
Planned ==
  /\ step = "planned" /\ plan.level # 0 =>
       /\ plan.base \in RunsAt(plan.level - 1) /\ FullsUpTo(InCatalog, plan.base)
       /\ snapshot[plan.level - 1] <= plan.base
  /\ step = "committed" => Len(arch) \in RunsAt(plan.level)

\* A reclamation keeps what is no older than the last full, and condemns nothing.
Chained ==
  prune # NoPrune =>
    /\ prune.condemned = {}
    /\ \A r \in prune.on : FullsUpTo(prune.on, r) => r \in prune.kept

Sole == Linked /\ Snapped /\ Planned /\ Chained
CycleIInv == Typed /\ Floor /\ (OneLanding => Sole)

-----------------------------------------------------------------------------
\* The floor.

\* The last full of a medium is kept, and no full is ever condemned.
LEMMA LastFullIsKept ==
  ASSUME NEW a, NEW n \in Nat, NEW all \in SUBSET (1..n), NEW on \in SUBSET all, NEW young
  PROVE  /\ LastFull(a, on) \subseteq Kept(a, on, all, young)
         /\ Fulls(a, Condemned(a, on, all, young)) = {}
<1>1. Fulls(a, Condemned(a, on, all, young)) = {}
  <2>1. SUFFICES ASSUME NEW r \in Condemned(a, on, all, young), a[r].level = 0 PROVE FALSE
    BY DEF Fulls
  <2>2. r \in all /\ ChainIn(a, all)[r] = {}
    BY <2>1 DEF Condemned, Stranded, Restorable
  <2>3. ChainIn(a, all)[r] = {r}
    <3>1. ChainIn(a, all)[r] = Link(a, all, ChainIn(a, all), r)
      BY <2>2, ChainUnfolds
    <3>. QED BY <3>1, <2>1 DEF Link
  <2>. QED BY <2>2, <2>3
<1>2. LastFull(a, on) \cap Condemned(a, on, all, young) = {}
  <2>1. SUFFICES ASSUME Fulls(a, on) # {}, NEW r \in LastFull(a, on) PROVE a[r].level = 0
    <3>1. Fulls(a, on) = {} => LastFull(a, on) = {}
      <4>1. 0 \notin on
        OBVIOUS
      <4>. QED BY <4>1, NewestOfNone DEF LastFull
    <3>2. \A r \in Condemned(a, on, all, young) : a[r].level # 0
      BY <1>1 DEF Fulls
    <3>. QED BY <2>1, <3>1, <3>2
  <2>2. Fulls(a, on) \in SUBSET (1..n)
    BY DEF Fulls
  <2>3. Newest(Fulls(a, on)) \in Fulls(a, on)
    BY <2>1, <2>2, NewestIsOne
  <2>. QED BY <2>1, <2>3 DEF LastFull, Fulls
<1>3. LastFull(a, on) \subseteq Kept(a, on, all, young) \cup Condemned(a, on, all, young)
  BY DEF Kept
<1>. QED BY <1>1, <1>2, <1>3

\* A medium that has all there is of a DLE, and all of it can be restored: what is no older
\* than the last full is kept, as a pin of the latest, and nothing is condemned.
LEMMA ChainIsKept ==
  ASSUME NEW a, NEW n \in Nat, NEW on \in SUBSET (1..n), NEW young, Restorable(a, on) = on,
         NEW f \in Fulls(a, on), NEW r \in on, \A g \in Fulls(a, on) : g <= r
  PROVE  r \in Kept(a, on, on, young)
<1> DEFINE N == Newest(on)
<1>1. N \in on /\ \A q \in on : q <= N
  <2>1. on # {}
    OBVIOUS
  <2>. QED BY <2>1, NewestIsOne
<1>2. Stranded(a, on) = {} /\ Condemned(a, on, on, young) = {}
  BY DEF Stranded, Condemned
<1>3. N \in Anchors(a, on, on, young)
  BY <1>1, <1>2 DEF Anchors
<1>4. {q \in on : q <= N} = on
  BY <1>1
<1>5. Newest(Fulls(a, on)) \in Fulls(a, on)
  <2>1. Fulls(a, on) \in SUBSET (1..n) /\ Fulls(a, on) # {}
    BY DEF Fulls
  <2>. QED BY <2>1, NewestIsOne
<1>6. r \in Pins(a, on, N)
  <2>1. Newest(Fulls(a, on)) # 0 /\ Newest(Fulls(a, on)) <= r
    <3>1. \A q \in on : q # 0
      OBVIOUS
    <3>. QED BY <3>1, <1>5 DEF Fulls
  <2>. QED BY <2>1, <1>1, <1>4 DEF Pins
<1>. QED BY <1>2, <1>3, <1>6 DEF Kept

\* Where all can be restored, nothing is condemned.
LEMMA NothingCondemned ==
  ASSUME NEW a, NEW on, NEW young, Restorable(a, on) = on
  PROVE  Condemned(a, on, on, young) = {}
BY DEF Condemned, Stranded
-----------------------------------------------------------------------------
\* Types.

\* A function on the first numbers is a sequence.
LEMMA SeqFacts ==
  ASSUME NEW T, NEW n \in Nat, NEW f \in [1..n -> T]
  PROVE  f \in Seq(T) /\ Len(f) = n
OBVIOUS

\* What a sequence holds after one more.
LEMMA AppendFacts ==
  ASSUME NEW T, NEW s \in Seq(T), NEW x \in T
  PROVE  /\ Append(s, x) \in Seq(T) /\ Len(Append(s, x)) = Len(s) + 1
         /\ \A i \in 1..Len(s) : Append(s, x)[i] = s[i]
         /\ Append(s, x)[Len(s) + 1] = x
OBVIOUS

\* What the types say of the sets of runs.
LEMMA Bounds ==
  ASSUME CycleTypeOK
  PROVE  /\ Len(arch) \in Nat /\ Runs \in SUBSET (1..Len(arch))
         /\ InCatalog \in SUBSET (1..Len(arch))
         /\ \A l : RunsAt(l) \in SUBSET (1..Len(arch))
         /\ \A m : On(m) \in SUBSET (1..Len(arch))
         /\ \A r \in Runs : arch[r] \in Archive
BY DEF CycleTypeOK, Runs, InCatalog, RunsAt, On

\* What a run adds is in the catalog, and all else is as it was.
LEMMA Committed ==
  ASSUME CycleAssumption, CycleTypeOK, DumpCommits
  PROVE  /\ Len(arch') = Len(arch) + 1 /\ arch' \in Seq(Archive)
         /\ \A r \in Runs : arch'[r] = arch[r] /\ placed'[r] = placed[r]
         /\ arch'[Len(arch) + 1] =
              [level |-> plan.level, base |-> plan.base,
               seed |-> IF plan.level = 0 THEN 0 ELSE snapshot[plan.level - 1]]
         /\ \E T \in (SUBSET Media) \ {{}} : placed'[Len(arch) + 1] = T
         /\ placed' \in [Runs' -> SUBSET Media]
         /\ InCatalog' = InCatalog \cup {Len(arch) + 1}
<1> DEFINE new == [level |-> plan.level, base |-> plan.base,
                   seed |-> IF plan.level = 0 THEN 0 ELSE snapshot[plan.level - 1]]
<1>1. new \in Archive
  <2>1. plan.level \in Levels /\ plan.base \in Nat
    BY Bounds DEF CycleTypeOK
  <2>2. plan.level # 0 => plan.level - 1 \in Levels
    BY <2>1 DEF Levels, CycleAssumption
  <2>3. plan.level # 0 => snapshot[plan.level - 1] \in Nat
    BY <2>2, Bounds DEF CycleTypeOK
  <2>. QED BY <2>1, <2>3 DEF Archive
<1>2. arch' = Append(arch, new) /\ arch \in Seq(Archive)
  BY DEF DumpCommits, CycleTypeOK
<1>3. PICK T \in (SUBSET Media) \ {{}} : T # {} /\ placed' = Append(placed, T)
  <2>1. PICK T \in (SUBSET Media) \ {{}} : placed' = Append(placed, T)
    BY DEF DumpCommits
  <2>2. T # {}
    OBVIOUS
  <2>. QED BY <2>1, <2>2
<1>4. placed \in Seq(SUBSET Media) /\ Len(placed) = Len(arch)
  <2>1. placed \in [1..Len(arch) -> SUBSET Media]
    BY DEF CycleTypeOK, Runs
  <2>. QED BY <2>1, Bounds, SeqFacts
<1>5. /\ arch' \in Seq(Archive) /\ Len(arch') = Len(arch) + 1
      /\ \A i \in 1..Len(arch) : arch'[i] = arch[i]
      /\ arch'[Len(arch) + 1] = new
  <2>. HIDE DEF new
  <2>. QED BY <1>1, <1>2, AppendFacts
<1>6. /\ placed' \in Seq(SUBSET Media) /\ Len(placed') = Len(arch) + 1
      /\ \A i \in 1..Len(arch) : placed'[i] = placed[i]
      /\ placed'[Len(arch) + 1] = T
  BY <1>3, <1>4, AppendFacts
<1>7. placed' \in [Runs' -> SUBSET Media]
  BY <1>5, <1>6 DEF Runs
<1>8. Runs = 1..Len(arch) /\ Runs' = 1..(Len(arch) + 1) /\ Len(arch) \in Nat
  BY <1>5, Bounds DEF Runs
<1>9. InCatalog' = InCatalog \cup {Len(arch) + 1}
  <2>1. ASSUME NEW r \in Runs PROVE r \in InCatalog' <=> r \in InCatalog
    BY <2>1, <1>6, <1>8 DEF InCatalog
  <2>2. Len(arch) + 1 \in InCatalog'
    <3>1. Len(arch) + 1 \in Runs'
      BY <1>8
    <3>2. placed'[Len(arch) + 1] # {}
      BY <1>3, <1>6
    <3>. QED BY <3>1, <3>2 DEF InCatalog
  <2>3. InCatalog \subseteq Runs /\ InCatalog' \subseteq Runs'
    BY DEF InCatalog
  <2>4. Runs' = Runs \cup {Len(arch) + 1}
    BY <1>8
  <2>. QED BY <2>1, <2>2, <2>3, <2>4
<1>. QED BY <1>3, <1>5, <1>6, <1>7, <1>8, <1>9

\* The types at the start.
LEMMA CycleInitTyped == ASSUME CycleAssumption, CycleInit PROVE Typed
<1>1. arch = <<>> /\ Len(arch) = 0 /\ placed = <<>> /\ arch \in Seq(Archive)
  BY DEF CycleInit
<1>2. Runs = {}
  BY <1>1 DEF Runs
<1>3. placed \in [Runs -> SUBSET Media]
  <2>1. DOMAIN placed = 1..0 /\ placed \in Seq(SUBSET Media)
    BY <1>1
  <2>. QED BY <2>1, <1>2
<1>4. snapshot \in [Levels -> 0..Len(arch)] /\ 0 \in Levels
  BY <1>1 DEF CycleInit, CycleAssumption, Levels
<1>. QED
  BY <1>1, <1>2, <1>3, <1>4 DEF CycleAssumption, CycleInit, Typed, CycleTypeOK, NoPlan, NoPrune

\* What is kept or condemned of a medium is on it.
LEMMA KeptIsHeld ==
  ASSUME NEW a, NEW on, NEW all, NEW young
  PROVE  Kept(a, on, all, young) \subseteq on /\ Condemned(a, on, all, young) \subseteq on
BY DEF Kept, Condemned, LastFull, Pins

\* The newest run at a level, and the latest run's level.
LEMMA Latest ==
  ASSUME CycleAssumption, CycleTypeOK
  PROVE  /\ \A l : RunAtLevel(l) \in 0..Len(arch)
         /\ \A l : RunsAt(l) # {} =>
              RunAtLevel(l) \in RunsAt(l) /\ \A q \in RunsAt(l) : q <= RunAtLevel(l)
         /\ InCatalog # {} => /\ Newest(InCatalog) \in InCatalog /\ LastLevel \in Levels
                             /\ \A q \in InCatalog : q <= Newest(InCatalog)
<1>1. ASSUME NEW l, RunsAt(l) # {}
      PROVE  RunAtLevel(l) \in RunsAt(l) /\ \A q \in RunsAt(l) : q <= RunAtLevel(l)
  BY <1>1, Bounds, NewestIsOne DEF RunAtLevel
<1>2. ASSUME NEW l PROVE RunAtLevel(l) \in 0..Len(arch)
  <2>1. CASE RunsAt(l) = {}
    BY <2>1, Bounds, NewestOfNone DEF RunAtLevel
  <2>2. CASE RunsAt(l) # {}
    BY <2>2, <1>1, Bounds
  <2>. QED BY <2>1, <2>2
<1>3. ASSUME InCatalog # {}
      PROVE  /\ Newest(InCatalog) \in InCatalog /\ LastLevel \in Levels
             /\ \A q \in InCatalog : q <= Newest(InCatalog)
  <2>1. Newest(InCatalog) \in InCatalog /\ \A q \in InCatalog : q <= Newest(InCatalog)
    BY <1>3, Bounds, NewestIsOne
  <2>2. arch[Newest(InCatalog)] \in Archive
    BY <2>1, Bounds DEF InCatalog
  <2>. QED BY <2>1, <2>2 DEF LastLevel, Archive
<1>. QED BY <1>1, <1>2, <1>3

\* A deletion takes one archive that nothing left is built on, condemned or not kept.
LEMMA Deleted ==
  ASSUME CycleTypeOK, NEW m, Delete(m)
  PROVE  /\ prune.medium = {m}
         /\ \E r \in Free(arch, prune.on, On(m)) :
              /\ r \in prune.condemned \/ r \notin prune.kept
              /\ r \in On(m) /\ placed' = [placed EXCEPT ![r] = @ \ {m}]
         /\ UNCHANGED <<arch, snapshot, forced, step, plan, prune, aged, losses>>
<1> DEFINE free == Free(arch, prune.on, On(m))
           dead == NextCondemned(arch, prune.on, On(m), prune.condemned)
           loose == NextUnkept(arch, prune.on, On(m), prune.kept)
<1>1. free \subseteq On(m) /\ free \in SUBSET Nat
  BY Bounds DEF Free
<1>2. dead \subseteq free \cap prune.condemned
  <2>1. free \cap prune.condemned # {} => Oldest(free \cap prune.condemned) \in free \cap prune.condemned
    BY <1>1, ASmallestOne DEF Oldest
  <2>. QED BY <2>1 DEF NextCondemned
<1>3. loose \subseteq free \ prune.kept
  <2>1. free \ prune.kept # {} => Oldest(free \ prune.kept) \in free \ prune.kept
    BY <1>1, ASmallestOne DEF Oldest
  <2>. QED BY <2>1 DEF NextUnkept
<1>4. PICK r \in IF dead # {} THEN dead ELSE loose : placed' = [placed EXCEPT ![r] = @ \ {m}]
  BY DEF Delete
<1>5. r \in free /\ (r \in prune.condemned \/ r \notin prune.kept)
  <2>. HIDE DEF free, dead, loose
  <2>. QED BY <1>2, <1>3, <1>4
<1>6. prune.medium = {m} /\ UNCHANGED <<arch, snapshot, forced, step, plan, prune, aged, losses>>
  BY DEF Delete
<1>. QED BY <1>1, <1>4, <1>5, <1>6

\* Every step keeps the types.
LEMMA CycleTypesKept ==
  ASSUME CycleAssumption, Typed, [CycleNext]_cycleVars
  PROVE  Typed'
<1> USE DEF CycleAssumption, Typed, CycleTypeOK, Runs, NoPlan, NoPrune
<1>1. CASE UNCHANGED cycleVars
  BY <1>1 DEF cycleVars
<1>2. CASE PlanFull
  BY <1>2 DEF PlanFull, Levels
<1>3. CASE PlanIncr
  <2>1. PICK l \in IncrLevels :
          plan' = IF HasBase(l - 1) THEN [level |-> l, base |-> RunAtLevel(l - 1)] ELSE NoPlan
    BY <1>3 DEF PlanIncr
  <2>2. LastLevel \in Levels
    BY <1>3, Latest DEF PlanIncr, RunsAt
  <2>3. l \in Levels
    BY <2>2 DEF IncrLevels, Levels
  <2>4. RunAtLevel(l - 1) \in 0..Len(arch)
    BY Latest
  <2>5. plan' \in [level : Levels, base : 0..Len(arch)]
    BY <2>1, <2>3, <2>4, Bounds DEF Levels
  <2>. QED BY <1>3, <2>5 DEF PlanIncr
<1>4. CASE DumpCommits
  <2>. USE Committed, <1>4
  <2>1. Len(arch') <= MaxRuns
    BY Bounds DEF DumpCommits
  <2>2. \A r \in Runs' : arch'[r].base < r /\ arch'[r].seed < r
    <3>1. ASSUME NEW r \in Runs PROVE arch'[r].base < r /\ arch'[r].seed < r
      BY <3>1
    <3>2. plan.base < Len(arch) + 1 /\ (plan.level # 0 => snapshot[plan.level - 1] < Len(arch) + 1)
      <4>1. plan.level \in Levels /\ plan.base \in 0..Len(arch)
        OBVIOUS
      <4>2. plan.level # 0 => plan.level - 1 \in Levels
        BY <4>1 DEF Levels
      <4>3. plan.level # 0 => snapshot[plan.level - 1] \in 0..Len(arch)
        BY <4>2
      <4>. QED BY <4>1, <4>3, Bounds
    <3>3. \A r \in Runs' : r \in Runs \/ r = Len(arch) + 1
      BY Bounds
    <3>. QED BY <3>1, <3>2, <3>3, Bounds
  <2>3. snapshot' \in [Levels -> 0..Len(arch')] /\ aged' \in 0..Len(arch')
        /\ plan' \in [level : Levels, base : 0..Len(arch')] /\ step' = "committed"
    BY Bounds DEF DumpCommits
  <2>4. Ready /\ Ready'
    BY DEF DumpCommits, Ready
  <2>. QED BY <2>1, <2>2, <2>3, <2>4 DEF DumpCommits, Ready
<1>5. CASE DumpFails
  BY <1>5 DEF DumpFails, Levels
<1>6. CASE Promote
  BY <1>6 DEF Promote
<1>7. CASE PromoteFails
  BY <1>7 DEF PromoteFails, Levels
<1>8. CASE Seal
  <2>1. plan' \in [level : Levels, base : 0..Len(arch)] /\ forced' = FALSE
    BY <1>8, Bounds DEF Seal, Levels
  <2>. QED BY <1>8, <2>1 DEF Seal
<1>9. CASE CycleCrash
  BY <1>9 DEF CycleCrash, Levels
<1>10. CASE ForceFull
  BY <1>10 DEF ForceFull
<1>11. CASE LoseSnapshot
  BY <1>11 DEF LoseSnapshot
<1>12. ASSUME NEW m \in Media, StartReclaim(m) PROVE Typed'
  BY <1>12, KeptIsHeld, Bounds DEF StartReclaim, On
<1>13. ASSUME NEW m \in Media, Delete(m) PROVE Typed'
  <2>1. PICK r \in On(m) : placed' = [placed EXCEPT ![r] = @ \ {m}]
    BY <1>13, Deleted
  <2>2. placed' \in [Runs -> SUBSET Media]
    BY <2>1 DEF On
  <2>. QED BY <2>2, <1>13, Deleted
<1>14. ASSUME NEW m \in Media, EndReclaim(m) PROVE Typed'
  BY <1>14 DEF EndReclaim
<1>. QED BY <1>1, <1>2, <1>3, <1>4, <1>5, <1>6, <1>7, <1>8, <1>9, <1>10, <1>11, <1>12, <1>13,
            <1>14 DEF CycleNext

-----------------------------------------------------------------------------
\* The last full.

\* The last full is a full, and none is later.
LEMMA LastFullIsFull ==
  ASSUME NEW a, NEW n \in Nat, NEW on \in SUBSET (1..n)
  PROVE  /\ LastFull(a, on) \subseteq Fulls(a, on)
         /\ \A f \in Fulls(a, on) : f <= Newest(Fulls(a, on))
         /\ Fulls(a, on) # {} => LastFull(a, on) = {Newest(Fulls(a, on))}
<1>1. Fulls(a, on) \in SUBSET (1..n) /\ Fulls(a, on) \subseteq on
  BY DEF Fulls
<1>2. CASE Fulls(a, on) = {}
  <2>1. 0 \notin on
    OBVIOUS
  <2>. QED BY <1>2, <2>1, NewestOfNone DEF LastFull
<1>3. CASE Fulls(a, on) # {}
  <2>1. Newest(Fulls(a, on)) \in Fulls(a, on) /\ \A f \in Fulls(a, on) : f <= Newest(Fulls(a, on))
    BY <1>1, <1>3, NewestIsOne
  <2>. QED BY <2>1, <1>1 DEF LastFull
<1>. QED BY <1>2, <1>3

\* Only a reclamation's start and its deletions leave one under way.
LEMMA Reclaiming ==
  ASSUME Floor, CycleNext, prune' # NoPrune
  PROVE  \E m \in Media : StartReclaim(m) \/ Delete(m)
BY DEF Floor, CycleNext, Ready, PlanFull, PlanIncr, DumpCommits, DumpFails, Promote, PromoteFails, Seal,
       CycleCrash, ForceFull, LoseSnapshot, EndReclaim

\* A deletion takes nothing it keeps, nor a full it condemns.
LEMMA DeletedIsLoose ==
  ASSUME Typed, Floor, NEW m \in Media, Delete(m)
  PROVE  /\ prune # NoPrune /\ On(m) \subseteq prune.on
         /\ \E r \in Free(arch, prune.on, On(m)) :
              /\ r \in On(m) /\ placed' = [placed EXCEPT ![r] = @ \ {m}]
              /\ r \in prune.condemned \/ r \notin prune.kept
              /\ r \notin LastFull(arch, prune.on)
              /\ On(m)' = On(m) \ {r}
              /\ \A q \in Runs : q # r => placed'[q] = placed[q]
<1>1. prune.medium = {m} /\ prune # NoPrune
  BY Deleted DEF Typed, NoPrune
<1>2. /\ On(m) \subseteq prune.on /\ LastFull(arch, prune.on) \subseteq prune.kept
      /\ Fulls(arch, prune.condemned) = {}
  BY <1>1 DEF Floor
<1>3. PICK r \in Free(arch, prune.on, On(m)) :
        /\ r \in prune.condemned \/ r \notin prune.kept
        /\ r \in On(m) /\ placed' = [placed EXCEPT ![r] = @ \ {m}]
  BY Deleted DEF Typed
<1>4. r \notin LastFull(arch, prune.on)
  <2>1. ASSUME r \in LastFull(arch, prune.on) PROVE arch[r].level = 0
    <3>1. Len(arch) \in Nat /\ prune.on \in SUBSET (1..Len(arch))
      BY Bounds DEF Typed, CycleTypeOK, Runs
    <3>2. r \in Fulls(arch, prune.on)
      BY <2>1, <3>1, LastFullIsFull
    <3>. QED BY <3>2 DEF Fulls
  <2>. QED BY <2>1, <1>2, <1>3 DEF Fulls
<1>5. placed \in [Runs -> SUBSET Media] /\ r \in Runs /\ arch' = arch
  BY <1>3, Deleted DEF Typed, CycleTypeOK, On
<1>6. On(m)' = On(m) \ {r} /\ \A q \in Runs : q # r => placed'[q] = placed[q]
  BY <1>3, <1>5 DEF On, Runs
<1>. QED BY <1>1, <1>2, <1>3, <1>4, <1>6

\* Every step keeps the floor.
LEMMA FloorKept ==
  ASSUME Typed, Floor, [CycleNext]_cycleVars
  PROVE  Floor'
<1>1. CASE UNCHANGED cycleVars
  BY <1>1 DEF cycleVars, Floor, On, Runs, NoPrune
<1>2. CASE prune' = NoPrune
  BY <1>2 DEF Floor, NoPrune
<1>3. ASSUME NEW m \in Media, StartReclaim(m) PROVE Floor'
  <2>1. PICK k \in aged..Len(arch) :
          LET young == {r \in On(m) : r > k}
          IN prune' = [on |-> On(m), medium |-> {m},
                       kept |-> Kept(arch, On(m), InCatalog, young),
                       condemned |-> Condemned(arch, On(m), InCatalog, young)]
    BY <1>3 DEF StartReclaim
  <2> DEFINE young == {r \in On(m) : r > k}
  <2>2. Len(arch) \in Nat /\ InCatalog \in SUBSET (1..Len(arch)) /\ On(m) \in SUBSET InCatalog
    BY Bounds DEF Typed, On, InCatalog
  <2>3. /\ LastFull(arch, On(m)) \subseteq Kept(arch, On(m), InCatalog, young)
        /\ Fulls(arch, Condemned(arch, On(m), InCatalog, young)) = {}
    BY <2>2, LastFullIsKept
  <2>4. LastFull(arch, On(m)) \subseteq On(m)
    BY DEF LastFull
  <2>5. arch' = arch /\ step' \in {"idle", "planned"} /\ On(m)' = On(m)
    BY <1>3 DEF StartReclaim, On, Runs
  <2>6. /\ prune'.on = On(m) /\ prune'.medium = {m}
        /\ prune'.kept = Kept(arch, On(m), InCatalog, young)
        /\ prune'.condemned = Condemned(arch, On(m), InCatalog, young)
    BY <2>1
  <2>. QED BY <2>3, <2>4, <2>5, <2>6 DEF Floor
<1>4. ASSUME NEW m \in Media, Delete(m) PROVE Floor'
  <2>1. PICK r : /\ r \notin LastFull(arch, prune.on)
                 /\ On(m)' = On(m) \ {r}
    BY <1>4, DeletedIsLoose
  <2>2. UNCHANGED <<arch, prune, step>> /\ prune.medium = {m} /\ prune # NoPrune
    BY <1>4, DeletedIsLoose, Deleted DEF Typed
  <2>3. /\ step \in {"idle", "planned"} /\ On(m) \subseteq prune.on
        /\ LastFull(arch, prune.on) \subseteq prune.kept \cap On(m)
        /\ Fulls(arch, prune.condemned) = {}
    BY <2>2 DEF Floor
  <2>. QED BY <2>1, <2>2, <2>3 DEF Floor, NoPrune
<1>. QED BY <1>1, <1>2, <1>3, <1>4, Reclaiming

\* What is there stays, but for what a deletion takes.
LEMMA CatalogGrows ==
  ASSUME CycleAssumption, Typed, [CycleNext]_cycleVars
  PROVE  \/ /\ InCatalog \subseteq InCatalog'
            /\ \A r \in Runs : arch'[r] = arch[r]
         \/ \E m \in Media : Delete(m)
<1>1. CASE DumpCommits
  BY <1>1, Committed DEF Typed
<1>2. CASE UNCHANGED <<arch, placed>>
  BY <1>2 DEF InCatalog, Runs
<1>. QED
  BY <1>1, <1>2 DEF CycleNext, cycleVars, PlanFull, PlanIncr, DumpFails, Promote, PromoteFails, Seal,
       CycleCrash, ForceFull, LoseSnapshot, StartReclaim, EndReclaim

\* On any landings, a step never takes the last full.
LEMMA FullsStep ==
  ASSUME CycleAssumption, Typed, Typed', Floor, [CycleNext]_cycleVars
  PROVE  LastFullKept
<1> DEFINE F == Newest(Fulls(arch, InCatalog))
<1>1. /\ Len(arch) \in Nat /\ Fulls(arch, InCatalog) \in SUBSET (1..Len(arch))
      /\ Len(arch') \in Nat /\ Fulls(arch', InCatalog') \in SUBSET (1..Len(arch'))
  <2>1. Len(arch) \in Nat /\ Len(arch') \in Nat
    BY DEF Typed, CycleTypeOK
  <2>. QED BY <2>1 DEF Fulls, InCatalog, Runs
<1>2. CASE Fulls(arch, InCatalog) = {}
  <2>1. Newest(Fulls(arch', InCatalog')) \in Nat
    <3>1. CASE Fulls(arch', InCatalog') = {}
      BY <3>1, NewestOfNone
    <3>2. CASE Fulls(arch', InCatalog') # {}
      <4>1. Newest(Fulls(arch', InCatalog')) \in Fulls(arch', InCatalog')
        BY <1>1, <3>2, NewestIsOne
      <4>. QED BY <1>1, <4>1
    <3>. QED BY <3>1, <3>2
  <2>. QED BY <1>2, <2>1, NewestOfNone DEF LastFullKept
<1>3. CASE Fulls(arch, InCatalog) # {}
  <2>1. F \in Fulls(arch, InCatalog) /\ \A f \in Fulls(arch, InCatalog) : f <= F
    BY <1>1, <1>3, NewestIsOne
  <2>2. SUFFICES F \in Fulls(arch', InCatalog')
    <3>1. F \in Fulls(arch', InCatalog') => F <= Newest(Fulls(arch', InCatalog'))
      <4>. HIDE DEF F
      <4>. QED BY <1>1, NewestIsOne
    <3>. QED BY <3>1 DEF LastFullKept
  <2>3. CASE /\ InCatalog \subseteq InCatalog'
             /\ \A r \in Runs : arch'[r] = arch[r]
    <3>. HIDE DEF F
    <3>. QED BY <2>1, <2>3 DEF Fulls, InCatalog
  <2>4. ASSUME NEW m \in Media, Delete(m) PROVE F \in Fulls(arch', InCatalog')
    <3>1. PICK r : /\ r \in On(m) /\ r \notin LastFull(arch, prune.on)
                   /\ \A q \in Runs : q # r => placed'[q] = placed[q]
      BY <2>4, DeletedIsLoose
    <3>2. /\ prune # NoPrune /\ prune.medium = {m} /\ On(m) \subseteq prune.on
          /\ arch' = arch
      BY <2>4, DeletedIsLoose, Deleted DEF Typed
    <3>3. F # r
      <4>1. SUFFICES ASSUME F = r PROVE FALSE
        OBVIOUS
      <4>2. prune.on \in SUBSET (1..Len(arch)) /\ r \in Fulls(arch, prune.on)
        BY <2>1, <3>1, <3>2, <4>1 DEF Fulls, Typed, CycleTypeOK, Runs
      <4>3. LastFull(arch, prune.on) = {Newest(Fulls(arch, prune.on))}
            /\ r <= Newest(Fulls(arch, prune.on))
        BY <1>1, <4>2, LastFullIsFull
      <4>4. Newest(Fulls(arch, prune.on)) \in On(m)
        BY <3>2, <4>3 DEF Floor
      <4>5. Newest(Fulls(arch, prune.on)) \in Fulls(arch, InCatalog)
        <5>1. On(m) \subseteq InCatalog
          BY DEF On, InCatalog
        <5>2. Newest(Fulls(arch, prune.on)) \in Fulls(arch, prune.on)
          BY <1>1, <4>2, <4>3, LastFullIsFull
        <5>. QED BY <4>4, <5>1, <5>2 DEF Fulls
      <4>6. Newest(Fulls(arch, prune.on)) <= r
        BY <2>1, <4>1, <4>5
      <4>7. Newest(Fulls(arch, prune.on)) \in Nat /\ r \in Nat
        BY <1>1, <2>1, <4>1, <4>5
      <4>. QED BY <3>1, <4>3, <4>6, <4>7
    <3>4. F \in InCatalog'
      <4>. HIDE DEF F
      <4>. QED BY <2>1, <3>1, <3>2, <3>3 DEF Fulls, InCatalog, Runs
    <3>. QED BY <2>1, <3>2, <3>4 DEF Fulls
  <2>. QED BY <2>3, <2>4, CatalogGrows
<1>. QED BY <1>2, <1>3
-----------------------------------------------------------------------------
\* One landing.

\* What is in the catalog is on the one medium.
LEMMA SoleMedium ==
  ASSUME OneLanding, CycleTypeOK, NEW m \in Media
  PROVE  On(m) = InCatalog
<1>1. \A r \in Runs : placed[r] \subseteq {m}
  BY DEF CycleTypeOK, OneLanding
<1>2. \A r \in Runs : placed[r] # {} <=> m \in placed[r]
  BY <1>1
<1>. QED BY <1>2 DEF On, InCatalog

\* A recorded base that is there is what a restore builds on.
LEMMA BaseIsRecorded ==
  ASSUME NEW a, NEW n \in Nat, NEW S \in SUBSET (1..n), NEW r \in S,
         a[r].level # 0, a[r].base \in S, a[r].base < r
  PROVE  BaseOf(a, S, r) = a[r].base
<1> DEFINE known == {q \in S : q < r} \cap {a[r].base}
<1>1. known = {a[r].base} /\ known \in SUBSET (1..n) /\ a[r].base # 0
  <2>1. PICK b : b = a[r].base
    OBVIOUS
  <2>2. b \in {q \in S : q < r} /\ b \in 1..n
    BY <2>1
  <2>. QED BY <2>1, <2>2
<1>2. Newest(known) \in known
  <2>. HIDE DEF known
  <2>. QED BY <1>1, NewestIsOne
<1>. QED BY <1>1, <1>2 DEF BaseOf

\* Where every incremental has its base, that is what a restore builds on, and each run
\* can be restored.
LEMMA LinkedBases ==
  ASSUME CycleTypeOK, Linked
  PROVE  /\ \A S \in SUBSET Runs : \A r \in S :
              r \in InCatalog /\ InCatalog \subseteq S /\ arch[r].level # 0
                => BaseOf(arch, S, r) = arch[r].base
         /\ Restorable(arch, InCatalog) = InCatalog
<1>1. ASSUME NEW S \in SUBSET Runs, NEW r \in S,
             r \in InCatalog, InCatalog \subseteq S, arch[r].level # 0
      PROVE  BaseOf(arch, S, r) = arch[r].base
  <2>1. arch[r].base \in S /\ arch[r].base < r
    BY <1>1 DEF Linked, CycleTypeOK
  <2>. QED BY <1>1, <2>1, BaseIsRecorded, Bounds DEF Runs
<1>2. ASSUME NEW r \in InCatalog, arch[r].level # 0
      PROVE  BaseOf(arch, InCatalog, r) # 0
  <2>1. InCatalog \in SUBSET Runs
    BY DEF InCatalog
  <2>2. arch[r].base \in InCatalog
    BY <1>2 DEF Linked
  <2>. QED BY <1>1, <1>2, <2>1, <2>2, Bounds
<1>3. Restorable(arch, InCatalog) = InCatalog
  BY <1>2, Bounds, LinkedIsRestorable
<1>. QED BY <1>1, <1>3

\* So a restore leaves nothing out.
LEMMA LinkedIsWhole ==
  ASSUME CycleTypeOK, Linked
  PROVE  RestoreIsWhole
<1>1. SUFFICES ASSUME NEW r \in Restorable(arch, InCatalog),
                      NEW c \in ChainIn(arch, InCatalog)[r], arch[c].level > 0
               PROVE  arch[c].seed <= BaseOf(arch, InCatalog, c)
  BY DEF RestoreIsWhole
<1>2. c \in InCatalog
  BY Bounds, ChainsAreWithin DEF Restorable
<1>3. arch[c].level # 0
  BY <1>1
<1>4. BaseOf(arch, InCatalog, c) = arch[c].base
  BY <1>2, <1>3, LinkedBases DEF InCatalog
<1>. QED BY <1>2, <1>3, <1>4 DEF Linked

\* The oldest of a catalog whose incrementals have their bases is a full.
LEMMA AFullIsThere ==
  ASSUME CycleTypeOK, Linked, InCatalog # {}
  PROVE  Fulls(arch, InCatalog) # {}
<1>1. PICK r \in InCatalog : \A q \in InCatalog : r <= q
  BY Bounds, ASmallestOne
<1>2. arch[r].level = 0
  <2>1. SUFFICES ASSUME arch[r].level # 0 PROVE FALSE
    OBVIOUS
  <2>2. arch[r].base \in InCatalog /\ arch[r].base < r
    BY <2>1 DEF Linked, CycleTypeOK, InCatalog
  <2>3. r <= arch[r].base /\ r \in Nat /\ arch[r].base \in Nat
    BY <1>1, <2>2, Bounds
  <2>. QED BY <2>2, <2>3
<1>. QED BY <1>2 DEF Fulls

\* A level that is planned has a run to be based on, no older than the last full.
LEMMA LevelHasBase ==
  ASSUME CycleAssumption, CycleTypeOK, Linked, RunsAt(0) # {}, NEW l \in IncrLevels
  PROVE  /\ l \in Levels /\ l # 0 /\ l - 1 \in Levels
         /\ RunAtLevel(l - 1) \in RunsAt(l - 1)
         /\ FullsUpTo(InCatalog, RunAtLevel(l - 1))
         /\ \A q \in RunsAt(l - 1) : q <= RunAtLevel(l - 1)
<1> DEFINE N == Newest(InCatalog)
<1>1. /\ N \in InCatalog /\ LastLevel \in Levels /\ LastLevel = arch[N].level
      /\ \A q \in InCatalog : q <= N
  <2>1. InCatalog # {}
    BY DEF RunsAt
  <2>. QED BY <2>1, Latest DEF LastLevel
<1>2. l \in Levels /\ l # 0 /\ l - 1 \in Levels
      /\ ((l = 1 /\ LastLevel = 0) \/ l = LastLevel \/ l = LastLevel + 1)
  BY <1>1 DEF IncrLevels, Levels, CycleAssumption
<1>3. \E b \in RunsAt(l - 1) : FullsUpTo(InCatalog, b)
  <2>. HIDE DEF N
  <2>1. CASE LastLevel + 1 = l
    <3>1. N \in RunsAt(l - 1)
      BY <1>1, <1>2, <2>1 DEF RunsAt, Levels
    <3>2. FullsUpTo(InCatalog, N)
      BY <1>1 DEF FullsUpTo, Fulls
    <3>. QED BY <3>1, <3>2
  <2>2. CASE LastLevel = l
    <3>1. arch[N].level # 0
      BY <1>1, <1>2, <2>2
    <3>2. /\ arch[N].base \in InCatalog /\ arch[arch[N].base].level = l - 1
          /\ \A f \in Fulls(arch, InCatalog) : f < N => f <= arch[N].base
      BY <1>1, <2>2, <3>1 DEF Linked
    <3>3. \A f \in Fulls(arch, InCatalog) : f < N
      <4>1. ASSUME NEW f \in Fulls(arch, InCatalog) PROVE f < N
        <5>1. f \in InCatalog /\ f # N
          BY <3>1 DEF Fulls
        <5>2. f <= N /\ f \in Nat /\ N \in Nat
          BY <1>1, <5>1, Bounds
        <5>. QED BY <5>1, <5>2
      <4>. QED BY <4>1
    <3>4. arch[N].base \in RunsAt(l - 1)
      BY <3>2 DEF RunsAt
    <3>. QED BY <3>2, <3>3, <3>4 DEF FullsUpTo
  <2>. QED BY <1>2, <2>1, <2>2
<1>4. PICK b \in RunsAt(l - 1) : FullsUpTo(InCatalog, b)
  BY <1>3
<1>5. RunAtLevel(l - 1) \in RunsAt(l - 1) /\ \A q \in RunsAt(l - 1) : q <= RunAtLevel(l - 1)
  BY <1>4, Latest
<1>6. FullsUpTo(InCatalog, RunAtLevel(l - 1))
  <2>1. ASSUME NEW f \in Fulls(arch, InCatalog) PROVE f <= RunAtLevel(l - 1)
    <3>1. f <= b /\ b <= RunAtLevel(l - 1)
      BY <1>4, <1>5 DEF FullsUpTo
    <3>2. f \in Nat /\ b \in Nat /\ RunAtLevel(l - 1) \in Nat
      <4>1. f \in InCatalog
        BY DEF Fulls
      <4>. QED BY <4>1, <1>4, <1>5, Bounds
    <3>. QED BY <3>1, <3>2
  <2>. QED BY <2>1 DEF FullsUpTo
<1>. QED BY <1>2, <1>5, <1>6
\* What a step of the dump or of the library leaves alone.
LEMMA SameCatalog ==
  ASSUME UNCHANGED <<arch, placed>>
  PROVE  /\ InCatalog' = InCatalog /\ \A l : RunsAt(l)' = RunsAt(l)
         /\ Fulls(arch, InCatalog)' = Fulls(arch, InCatalog)
         /\ Linked => Linked'
BY DEF InCatalog, Runs, RunsAt, Fulls, Linked

\* What a plan is based on can be built on.
LEMMA PlanIsSound ==
  ASSUME CycleAssumption, CycleTypeOK, Linked, Snapped, PlanIncr
  PROVE  Planned'
<1>1. PICK l \in IncrLevels :
        plan' = IF HasBase(l - 1) THEN [level |-> l, base |-> RunAtLevel(l - 1)] ELSE NoPlan
  BY DEF PlanIncr
<1>2. RunsAt(0) # {} /\ step' = "planned" /\ snapshot' = snapshot
      /\ UNCHANGED <<arch, placed>>
  BY DEF PlanIncr
<1>3. CASE ~HasBase(l - 1)
  BY <1>1, <1>2, <1>3 DEF NoPlan, Planned
<1>4. CASE HasBase(l - 1)
  <2> DEFINE b == RunAtLevel(l - 1)
  <2>1. /\ l \in Levels /\ l # 0 /\ l - 1 \in Levels /\ b \in RunsAt(l - 1)
        /\ FullsUpTo(InCatalog, b) /\ \A q \in RunsAt(l - 1) : q <= b
    BY <1>2, LevelHasBase
  <2>. HIDE DEF b
  <2>2. snapshot[l - 1] <= b
    <3>1. snapshot[l - 1] \in Nat /\ b \in Nat
      BY <2>1, Bounds DEF CycleTypeOK
    <3>2. CASE snapshot[l - 1] \in RunsAt(l - 1)
      BY <2>1, <3>2
    <3>3. ASSUME NEW f \in RunsAt(0), snapshot[l - 1] <= f PROVE snapshot[l - 1] <= b
      <4>1. f <= b /\ f \in Nat
        <5>1. f \in Fulls(arch, InCatalog)
          BY DEF RunsAt, Fulls
        <5>. QED BY <5>1, <2>1, Bounds DEF FullsUpTo
      <4>. QED BY <3>1, <3>3, <4>1
    <3>. QED BY <2>1, <1>4, <3>2, <3>3 DEF Snapped, HasBase
  <2>3. plan'.level = l /\ plan'.base = b
    BY <1>1, <1>4 DEF b
  <2>. QED BY <1>2, <2>1, <2>2, <2>3, SameCatalog DEF Planned, FullsUpTo
<1>. QED BY <1>3, <1>4

\* A commit adds a run that its plan lets be built on.
LEMMA CommitIsSound ==
  ASSUME CycleAssumption, CycleTypeOK, Linked, Snapped, Planned, DumpCommits
  PROVE  Linked' /\ Snapped' /\ Planned'
<1> DEFINE N == Len(arch) + 1
<1>1. /\ \A r \in Runs : arch'[r] = arch[r]
      /\ arch'[N].level = plan.level /\ arch'[N].base = plan.base
      /\ arch'[N].seed = IF plan.level = 0 THEN 0 ELSE snapshot[plan.level - 1]
      /\ InCatalog' = InCatalog \cup {N} /\ Len(arch') = N
  BY Committed
<1>2. step = "planned" /\ step' = "committed" /\ UNCHANGED <<snapshot, plan>>
  BY DEF DumpCommits
<1>3. InCatalog \subseteq Runs /\ N \in Nat /\ \A q \in InCatalog : q \in Nat /\ q < N
  BY Bounds DEF InCatalog
<1>. HIDE DEF N
<1>4. \A l : RunsAt(l) \subseteq RunsAt(l)'
  BY <1>1, <1>3 DEF RunsAt
<1>5. \A f \in Fulls(arch, InCatalog)' : f = N \/ f \in Fulls(arch, InCatalog)
  BY <1>1, <1>3 DEF Fulls
<1>6. Linked'
  <2>1. ASSUME NEW r \in InCatalog', arch'[r].level # 0
        PROVE  /\ arch'[r].base \in InCatalog' /\ arch'[arch'[r].base].level = arch'[r].level - 1
               /\ arch'[r].seed <= arch'[r].base
               /\ \A f \in Fulls(arch, InCatalog)' : f < r => f <= arch'[r].base
    <3>1. CASE r \in InCatalog
      <4>1. /\ arch'[r] = arch[r] /\ arch[r].level # 0
            /\ arch[r].base \in InCatalog /\ arch'[arch[r].base] = arch[arch[r].base]
        BY <1>1, <1>3, <2>1, <3>1 DEF Linked
      <4>2. ASSUME NEW f \in Fulls(arch, InCatalog)', f < r PROVE f \in Fulls(arch, InCatalog)
        BY <1>3, <1>5, <3>1, <4>2
      <4>3. /\ arch[arch[r].base].level = arch[r].level - 1 /\ arch[r].seed <= arch[r].base
            /\ \A f \in Fulls(arch, InCatalog) : f < r => f <= arch[r].base
        BY <3>1, <4>1 DEF Linked
      <4>4. \A f \in Fulls(arch, InCatalog)' : f < r => f <= arch[r].base
        BY <4>2, <4>3
      <4>. QED BY <1>1, <4>1, <4>3, <4>4
    <3>2. CASE r = N
      <4>1. plan.level # 0
        BY <1>1, <2>1, <3>2
      <4>2. /\ plan.base \in RunsAt(plan.level - 1) /\ FullsUpTo(InCatalog, plan.base)
            /\ snapshot[plan.level - 1] <= plan.base
        BY <1>2, <4>1 DEF Planned
      <4>3. plan.base \in InCatalog /\ arch'[plan.base].level = plan.level - 1
        BY <1>1, <1>3, <4>2 DEF RunsAt
      <4>4. ASSUME NEW f \in Fulls(arch, InCatalog)', f < N PROVE f <= plan.base
        BY <1>3, <1>5, <4>2, <4>4 DEF FullsUpTo
      <4>. QED BY <1>1, <3>2, <4>1, <4>2, <4>3, <4>4
    <3>. QED BY <1>1, <3>1, <3>2
  <2>. QED BY <2>1 DEF Linked
<1>7. Snapped'
  BY <1>2, <1>4 DEF Snapped
<1>8. Planned'
  BY <1>1, <1>2 DEF Planned, RunsAt
<1>. QED BY <1>6, <1>7, <1>8

\* The snapshot that is promoted is of the run that was committed.
LEMMA PromoteIsSound ==
  ASSUME CycleTypeOK, Snapped, Planned, Promote
  PROVE  Snapped'
<1>1. /\ Len(arch) \in RunsAt(plan.level) /\ plan.level \in Levels
      /\ snapshot' = [snapshot EXCEPT ![plan.level] = Len(arch)]
  BY DEF Planned, Promote, CycleTypeOK
<1>2. UNCHANGED <<arch, placed>> /\ \A l : RunsAt(l)' = RunsAt(l)
  BY SameCatalog DEF Promote
<1>3. ASSUME NEW l \in Levels, snapshot'[l] # 0
      PROVE  snapshot'[l] \in RunsAt(l) \/ \E f \in RunsAt(0) : snapshot'[l] <= f
  <2>1. CASE l = plan.level
    BY <1>1, <2>1 DEF CycleTypeOK
  <2>2. CASE l # plan.level
    <3>1. snapshot'[l] = snapshot[l]
      BY <1>1, <2>2 DEF CycleTypeOK
    <3>. QED BY <1>3, <3>1 DEF Snapped
  <2>. QED BY <2>1, <2>2
<1>. QED BY <1>2, <1>3 DEF Snapped

\* A reclamation starts by keeping all that is no older than the last full.
LEMMA StartIsSound ==
  ASSUME OneLanding, CycleTypeOK, Linked, NEW m \in Media, StartReclaim(m)
  PROVE  Chained'
<1>1. On(m) = InCatalog /\ Restorable(arch, On(m)) = On(m)
      /\ Len(arch) \in Nat /\ On(m) \in SUBSET (1..Len(arch)) /\ arch' = arch
  BY SoleMedium, LinkedBases, Bounds DEF StartReclaim
<1>2. PICK k \in aged..Len(arch) :
        LET young == {r \in On(m) : r > k}
        IN prune' = [on |-> On(m), medium |-> {m},
                     kept |-> Kept(arch, On(m), InCatalog, young),
                     condemned |-> Condemned(arch, On(m), InCatalog, young)]
  BY DEF StartReclaim
<1> DEFINE young == {r \in On(m) : r > k}
<1>3. /\ prune'.on = On(m) /\ prune'.kept = Kept(arch, On(m), On(m), young)
      /\ prune'.condemned = Condemned(arch, On(m), On(m), young)
  BY <1>1, <1>2
<1>. HIDE DEF young
<1>4. Condemned(arch, On(m), On(m), young) = {}
  BY <1>1, NothingCondemned
<1>5. ASSUME NEW r \in On(m), FullsUpTo(On(m), r)
      PROVE  r \in Kept(arch, On(m), On(m), young)
  <2>1. PICK f \in Fulls(arch, On(m)) : TRUE
    BY <1>1, AFullIsThere
  <2>2. \A g \in Fulls(arch, On(m)) : g <= r
    BY <1>5 DEF FullsUpTo
  <2>. QED BY <1>1, <2>1, <2>2, ChainIsKept
<1>. QED BY <1>1, <1>3, <1>4, <1>5 DEF Chained, FullsUpTo

\* A deletion takes what is older than a full that stays, and that nothing is based on.
LEMMA DeletionSpares ==
  ASSUME OneLanding, Typed, Floor, Linked, Chained, NEW m \in Media, Delete(m)
  PROVE  \E r \in InCatalog :
           /\ InCatalog' = InCatalog \ {r} /\ \A q \in InCatalog' : placed'[q] = placed[q]
           /\ \E g \in RunsAt(0) : r < g
           /\ \A d \in InCatalog : arch[d].level # 0 => arch[d].base # r
<1>1. /\ prune # NoPrune /\ prune.medium = {m} /\ On(m) \subseteq prune.on
      /\ prune.on \in SUBSET Runs /\ On(m) = InCatalog
  BY DeletedIsLoose, Deleted, SoleMedium DEF Typed, CycleTypeOK
<1>2. PICK r \in Free(arch, prune.on, On(m)) :
        /\ r \in On(m) /\ placed' = [placed EXCEPT ![r] = @ \ {m}]
        /\ r \in prune.condemned \/ r \notin prune.kept
        /\ \A q \in Runs : q # r => placed'[q] = placed[q]
  BY DeletedIsLoose
<1>3. InCatalog' = InCatalog \ {r}
  <2>1. placed'[r] = {}
    BY <1>2 DEF OneLanding, Typed, CycleTypeOK, On
  <2>2. arch' = arch
    BY Deleted DEF Typed
  <2>. QED BY <1>1, <1>2, <2>1, <2>2 DEF InCatalog, Runs
<1>4. PICK f \in Fulls(arch, prune.on) : ~(f <= r)
  BY <1>1, <1>2 DEF Chained, FullsUpTo
<1>5. \E g \in RunsAt(0) : r < g
  <2> DEFINE g == Newest(Fulls(arch, prune.on))
  <2>1. Len(arch) \in Nat /\ prune.on \in SUBSET (1..Len(arch))
    BY <1>1, Bounds DEF Typed, Runs
  <2>2. /\ LastFull(arch, prune.on) = {g} /\ g \in Fulls(arch, prune.on) /\ f <= g
    BY <1>4, <2>1, LastFullIsFull
  <2>3. g \in InCatalog /\ arch[g].level = 0
    BY <1>1, <2>2 DEF Floor, Fulls
  <2>4. r \in Nat /\ f \in Nat /\ g \in Nat
    BY <1>1, <1>2, <2>1, <2>2 DEF Fulls
  <2>5. r < g
    BY <1>4, <2>2, <2>4
  <2>. QED BY <2>3, <2>5 DEF RunsAt
<1>6. ASSUME NEW d \in InCatalog, arch[d].level # 0 PROVE arch[d].base # r
  <2>1. BaseOf(arch, prune.on, d) = arch[d].base
    BY <1>1, <1>6, LinkedBases DEF Typed
  <2>2. BaseOf(arch, prune.on, d) # r
    BY <1>1, <1>2 DEF Free
  <2>. QED BY <2>1, <2>2
<1>. QED BY <1>1, <1>2, <1>3, <1>5, <1>6 DEF InCatalog
\* So a deletion leaves what is on one landing as sound as it was.
LEMMA DeletionIsSound ==
  ASSUME OneLanding, Typed, Floor, Sole, NEW m \in Media, Delete(m)
  PROVE  Sole'
<1>1. PICK r \in InCatalog :
        /\ InCatalog' = InCatalog \ {r}
        /\ \E g \in RunsAt(0) : r < g
        /\ \A d \in InCatalog : arch[d].level # 0 => arch[d].base # r
  BY DeletionSpares DEF Sole
<1>2. PICK g \in RunsAt(0) : r < g
  BY <1>1
<1>3. UNCHANGED <<arch, snapshot, step, plan, prune>>
  BY Deleted DEF Typed
<1>4. /\ \A l : RunsAt(l)' = RunsAt(l) \ {r} /\ Fulls(arch, InCatalog)' \subseteq Fulls(arch, InCatalog)
      /\ g \in RunsAt(0)' /\ g \in Fulls(arch, InCatalog) /\ r \in Nat /\ g \in Nat
  <2>1. r \in Nat /\ g \in Nat
    BY Bounds DEF Typed
  <2>2. g # r
    BY <1>2, <2>1
  <2>. QED BY <1>1, <1>2, <1>3, <2>1, <2>2 DEF RunsAt, Fulls
<1>5. Linked'
  <2>1. \A d \in InCatalog' : arch'[d].level # 0 => arch[d].base \in InCatalog'
    BY <1>1, <1>3 DEF Sole, Linked
  <2>. QED BY <1>1, <1>3, <1>4, <2>1 DEF Sole, Linked
<1>6. Snapped'
  <2>1. ASSUME NEW l \in Levels, snapshot[l] # 0
        PROVE  snapshot[l] \in RunsAt(l)' \/ \E f \in RunsAt(0)' : snapshot[l] <= f
    <3>1. CASE snapshot[l] \in RunsAt(l)
      <4>1. snapshot[l] = r => snapshot[l] <= g
        BY <1>2, <1>4
      <4>. QED BY <3>1, <4>1, <1>4
    <3>2. ASSUME NEW f \in RunsAt(0), snapshot[l] <= f
          PROVE  \E h \in RunsAt(0)' : snapshot[l] <= h
      <4>1. CASE f = r
        <5>1. snapshot[l] \in Nat
          BY Bounds DEF Typed, CycleTypeOK
        <5>2. snapshot[l] <= g
          BY <3>2, <4>1, <5>1, <1>2, <1>4
        <5>. QED BY <5>2, <1>4
      <4>2. CASE f # r
        BY <3>2, <4>2, <1>4
      <4>. QED BY <4>1, <4>2
    <3>. QED BY <2>1, <3>1, <3>2 DEF Sole, Snapped
  <2>. QED BY <2>1, <1>3 DEF Snapped
<1>7. Planned'
  <2>1. ASSUME step = "planned", plan.level # 0
        PROVE  /\ plan.base \in RunsAt(plan.level - 1)' /\ FullsUpTo(InCatalog, plan.base)'
               /\ snapshot[plan.level - 1] <= plan.base
    <3>1. /\ plan.base \in RunsAt(plan.level - 1) /\ FullsUpTo(InCatalog, plan.base)
          /\ snapshot[plan.level - 1] <= plan.base
      BY <2>1 DEF Sole, Planned
    <3>2. g <= plan.base /\ plan.base \in Nat
      BY <1>4, <3>1, Bounds DEF FullsUpTo, Typed
    <3>3. plan.base # r
      BY <1>2, <1>4, <3>2
    <3>. QED BY <1>3, <1>4, <3>1, <3>3 DEF FullsUpTo
  <2>2. step # "committed"
    BY Deleted, DeletedIsLoose DEF Floor, Typed
  <2>. QED BY <1>3, <2>1, <2>2 DEF Planned
<1>8. Chained'
  BY <1>3 DEF Sole, Chained, FullsUpTo, NoPrune
<1>. QED BY <1>5, <1>6, <1>7, <1>8 DEF Sole

\* Every step does, action by action.
LEMMA SoleKept ==
  ASSUME CycleAssumption, OneLanding, Typed, Floor, Sole, [CycleNext]_cycleVars
  PROVE  Sole'
<1>. USE DEF Sole, Typed
<1>1. ASSUME UNCHANGED <<arch, placed, prune>> PROVE Linked' /\ Chained'
  BY <1>1, SameCatalog DEF Chained, FullsUpTo, NoPrune
<1>2. ASSUME UNCHANGED <<arch, placed, snapshot>> PROVE Snapped'
  BY <1>2, SameCatalog DEF Snapped
<1>3. ASSUME step' \notin {"planned", "committed"} PROVE Planned'
  BY <1>3 DEF Planned
<1>4. ASSUME UNCHANGED <<arch, placed, snapshot, step, plan>> PROVE Planned'
  BY <1>4, SameCatalog DEF Planned, FullsUpTo
<1>5. ASSUME prune' = NoPrune PROVE Chained'
  BY <1>5 DEF Chained, NoPrune
<1>6. CASE UNCHANGED cycleVars
  BY <1>1, <1>2, <1>4, <1>6 DEF cycleVars
<1>7. CASE PlanFull
  <2>1. Planned'
    BY <1>7 DEF PlanFull, Planned, NoPlan
  <2>. QED BY <1>1, <1>2, <1>7, <2>1 DEF PlanFull
<1>8. CASE PlanIncr
  BY <1>1, <1>2, <1>8, PlanIsSound DEF PlanIncr
<1>9. CASE DumpCommits
  BY <1>5, <1>9, CommitIsSound DEF DumpCommits, Ready
<1>10. CASE DumpFails
  BY <1>1, <1>2, <1>3, <1>10 DEF DumpFails
<1>11. CASE Promote
  BY <1>1, <1>3, <1>11, PromoteIsSound DEF Promote
<1>12. CASE PromoteFails
  BY <1>1, <1>2, <1>3, <1>12 DEF PromoteFails
<1>13. CASE Seal
  BY <1>1, <1>2, <1>3, <1>13 DEF Seal
<1>14. CASE CycleCrash
  BY <1>2, <1>3, <1>5, <1>14, SameCatalog DEF CycleCrash
<1>15. CASE ForceFull
  BY <1>1, <1>2, <1>4, <1>15 DEF ForceFull
<1>16. CASE LoseSnapshot
  <2>1. PICK l \in Levels : snapshot' = [snapshot EXCEPT ![l] = 0]
    BY <1>16 DEF LoseSnapshot
  <2>2. UNCHANGED <<arch, placed, prune, step, plan>> /\ step = "idle"
    BY <1>16 DEF LoseSnapshot
  <2>3. \A k \in Levels : snapshot'[k] = 0 \/ snapshot'[k] = snapshot[k]
    BY <2>1 DEF CycleTypeOK
  <2>4. Snapped'
    BY <2>2, <2>3, SameCatalog DEF Snapped
  <2>. QED BY <1>1, <1>3, <2>2, <2>4
<1>17. ASSUME NEW m \in Media, StartReclaim(m) PROVE Sole'
  <2>1. UNCHANGED <<arch, placed, snapshot, step, plan>>
    BY <1>17 DEF StartReclaim
  <2>. QED BY <1>2, <1>4, <1>17, <2>1, SameCatalog, StartIsSound
<1>18. ASSUME NEW m \in Media, Delete(m) PROVE Sole'
  BY <1>18, DeletionIsSound
<1>19. ASSUME NEW m \in Media, EndReclaim(m) PROVE Sole'
  BY <1>2, <1>4, <1>5, <1>19, SameCatalog DEF EndReclaim
<1>. QED BY <1>6, <1>7, <1>8, <1>9, <1>10, <1>11, <1>12, <1>13, <1>14, <1>15, <1>16, <1>17, <1>18,
            <1>19 DEF CycleNext
-----------------------------------------------------------------------------
\* The theorems.

\* The invariant at the start.
LEMMA CycleInitIInv == ASSUME CycleAssumption, CycleInit PROVE CycleIInv
<1>1. Typed
  BY CycleInitTyped
<1>2. InCatalog = {}
  BY DEF CycleInit, InCatalog, Runs
<1>3. prune = NoPrune /\ step = "idle" /\ \A l \in Levels : snapshot[l] = 0
  BY DEF CycleInit
<1>4. Floor /\ Chained /\ Planned /\ Snapped
  BY <1>3 DEF Floor, Chained, Planned, Snapped, NoPrune
<1>5. Linked
  BY <1>2 DEF Linked
<1>. QED BY <1>1, <1>4, <1>5 DEF CycleIInv, Sole

\* And after every step.
LEMMA CycleIInvKept ==
  ASSUME CycleAssumption, CycleIInv, [CycleNext]_cycleVars
  PROVE  CycleIInv'
<1>1. Typed' /\ Floor'
  BY CycleTypesKept, FloorKept DEF CycleIInv
<1>2. OneLanding => Sole'
  BY SoleKept DEF CycleIInv
<1>. QED BY <1>1, <1>2 DEF CycleIInv, OneLanding

\* Of a step, on one landing.
LEMMA ReclaimStep ==
  ASSUME CycleAssumption, OneLanding, CycleIInv, CycleIInv', [CycleNext]_cycleVars
  PROVE  NothingStranded /\ LatestKept
<1>1. Restorable(arch, InCatalog) = InCatalog
  BY LinkedBases DEF CycleIInv, Sole, Typed
<1>2. Restorable(arch', InCatalog') = InCatalog'
  <2>1. (Restorable(arch, InCatalog) = InCatalog)'
    <3>1. CycleTypeOK' /\ Linked'
      BY DEF CycleIInv, Sole, Typed, OneLanding
    <3>. QED BY <3>1, LinkedBases, PTL
  <2>. QED BY <2>1
<1>3. NothingStranded
  BY <1>1, <1>2 DEF NothingStranded
<1>4. ASSUME InCatalog # {}
      PROVE  Newest(InCatalog) <= Newest(InCatalog')
  <2>1. /\ Len(arch) \in Nat /\ InCatalog \in SUBSET (1..Len(arch))
        /\ Len(arch') \in Nat /\ InCatalog' \in SUBSET (1..Len(arch'))
    <3>1. Len(arch) \in Nat /\ Len(arch') \in Nat
      BY DEF CycleIInv, Typed, CycleTypeOK
    <3>. QED BY <3>1 DEF InCatalog, Runs
  <2>2. Newest(InCatalog) \in InCatalog /\ \A q \in InCatalog : q <= Newest(InCatalog)
    BY <1>4, <2>1, NewestIsOne
  <2>3. Newest(InCatalog) \in InCatalog'
    <3>1. CASE InCatalog \subseteq InCatalog'
      BY <2>2, <3>1
    <3>2. ASSUME NEW m \in Media, Delete(m) PROVE Newest(InCatalog) \in InCatalog'
      <4>1. PICK r \in InCatalog : /\ InCatalog' = InCatalog \ {r}
                                   /\ \E g \in RunsAt(0) : r < g
        BY <3>2, DeletionSpares DEF CycleIInv, Sole
      <4>2. PICK g \in RunsAt(0) : r < g
        BY <4>1
      <4>3. g <= Newest(InCatalog) /\ g \in Nat /\ r \in Nat
        BY <2>1, <2>2 DEF RunsAt
      <4>4. Newest(InCatalog) # r
        BY <4>2, <4>3
      <4>. QED BY <2>2, <4>1, <4>4
    <3>. QED BY <3>1, <3>2, CatalogGrows DEF CycleIInv
  <2>. QED BY <2>1, <2>3, NewestIsOne
<1>5. LatestKept
  BY <1>1, <1>2, <1>4 DEF LatestKept
<1>. QED BY <1>3, <1>5

\* The types, and that what an archive names was there before it, for any landings, levels,
\* runs and losses.
THEOREM CycleTypeCorrect == ASSUME CycleAssumption PROVE CycleSpec => []CycleTypeOK
<1>1. CycleInit => Typed
  BY CycleInitTyped
<1>2. Typed /\ [CycleNext]_cycleVars => Typed'
  BY CycleTypesKept
<1>3. Typed => CycleTypeOK
  BY DEF Typed
<1>. QED BY <1>1, <1>2, <1>3, PTL DEF CycleSpec

\* On one landing no restore leaves a change out: whatever dumps failed or were cut short,
\* whatever snapshots were lost and promoted, and whatever was reclaimed between a plan and its
\* dump, an incremental was dumped against a state no later than the one its base restores
\* (planner.go, encode.go, snapshot.go, history.go).
THEOREM RestoresAreWhole == ASSUME CycleAssumption, OneLanding PROVE CycleSpec => []RestoreIsWhole
<1>1. CycleInit => CycleIInv
  BY CycleInitIInv
<1>2. CycleIInv /\ [CycleNext]_cycleVars => CycleIInv'
  BY CycleIInvKept
<1>3. CycleIInv => RestoreIsWhole
  BY LinkedIsWhole DEF CycleIInv, Sole, Typed
<1>. QED BY <1>1, <1>2, <1>3, PTL DEF CycleSpec

\* On however many landings, and however their copies are split, no step of a reclamation takes
\* the last full (retention.go, prune.go).
THEOREM LastFullsStay == ASSUME CycleAssumption PROVE CycleSpec => [][LastFullKept]_cycleVars
<1>1. CycleInit => CycleIInv
  BY CycleInitIInv
<1>2. CycleIInv /\ [CycleNext]_cycleVars => CycleIInv'
  BY CycleIInvKept
<1>3. CycleIInv /\ CycleIInv' /\ [CycleNext]_cycleVars => LastFullKept
  BY FullsStep DEF CycleIInv
<1>. QED BY <1>1, <1>2, <1>3, PTL DEF CycleSpec

\* On one landing, moreover, none strands an archive it leaves or takes the latest restore
\* point, wherever it is cut short (retention.go, prune.go, profile.go).
THEOREM ReclaimsAreSafe == ASSUME CycleAssumption, OneLanding PROVE CycleSpec => ReclaimsKeepChains
<1>1. CycleInit => CycleIInv
  BY CycleInitIInv
<1>2. CycleIInv /\ [CycleNext]_cycleVars => CycleIInv'
  BY CycleIInvKept
<1>3. CycleIInv /\ CycleIInv' /\ [CycleNext]_cycleVars => NothingStranded /\ LatestKept /\ LastFullKept
  BY FullsStep, ReclaimStep DEF CycleIInv
<1>. QED BY <1>1, <1>2, <1>3, PTL DEF CycleSpec, ReclaimsKeepChains
-----------------------------------------------------------------------------
\* The inductive invariant of the snapshots.

\* A dump is planned where there is room for its archive.
SnapsTyped == SnapshotsTypeOK /\ (phase = "planned" => Len(tars) < MaxTars)

\* What the snapshot of archive r's dump has seen.
SeenBy(r) == [s \in Subtrees |-> IF s \in tars[r].carves THEN 0 ELSE tars[r].disk[s]]

\* A snapshot is of an archive of its level; so are the carves beside it, of an older one maybe.
Library(l) ==
  /\ live[l] # Missing =>
       /\ live[l].run \in Tars /\ tars[live[l].run].level = l
       /\ live[l].seen = SeenBy(live[l].run)
  /\ sidecar[l] # Unrecorded =>
       sidecar[l].run \in Tars /\ sidecar[l].carves = tars[sidecar[l].run].carves

\* What a dump under way knows: its base is the newest archive a level down, and the snapshot
\* there will do; what it committed is the last archive, and the work snapshot that one's.
NewestAt(l, b) ==
  /\ b \in Tars /\ tars[b].level = l
  /\ \A q \in Tars : tars[q].level = l => q <= b
UnderWay ==
  /\ phase = "planned" /\ backup.level # 0 =>
       HasSnapshot(backup.level - 1) /\ NewestAt(backup.level - 1, backup.base)
  /\ phase \in {"committed", "promoted"} =>
       /\ Len(tars) \in Tars /\ tars[Len(tars)].level = backup.level
       /\ tars[Len(tars)].carves = carves
  /\ phase = "committed" => work.run = Len(tars) /\ work.seen = SeenBy(Len(tars))

\* An archive holds what its seed had not seen; the seed is no newer than the base; and
\* carves judged by those of the base were already left out there.
Founded(r) ==
  LET t == tars[r]
  IN /\ t.level # 0 =>
          /\ t.base \in Tars /\ t.base < r
          /\ t.seed \in Tars /\ t.seed <= t.base
          /\ t.judged = t.base => t.carves \subseteq tars[t.base].carves
     /\ \A s \in Subtrees :
          /\ s \in t.there <=> t.disk[s] # 0
          /\ t.holds[s] =
               IF \/ s \in t.carves \cup t.unread
                  \/ t.disk[s] = IF t.level = 0 THEN 0 ELSE SeenBy(t.seed)[s]
               THEN 0 ELSE t.disk[s]

\* Versions do not come back.
Versions ==
  \A s \in Subtrees : \A i, j \in Tars : i <= j /\ tars[i].disk[s] # 0 =>
    /\ tars[i].disk[s] <= edits + 1
    /\ tars[i].disk[s] = disk[s] => tars[j].disk[s] = disk[s]
    /\ \A k \in Tars : j <= k /\ tars[i].disk[s] = tars[k].disk[s] =>
         tars[j].disk[s] = tars[i].disk[s]

SnapsIInv ==
  /\ SnapsTyped /\ UnderWay /\ Versions
  /\ \A l \in SnapLevels : Library(l)
  /\ \A r \in Tars : Founded(r)
-----------------------------------------------------------------------------
\* What a restore replays.

\* A chain that is not empty has the run it is of, and with each run the one it builds on.
LEMMA ChainsAreClosed ==
  ASSUME NEW a, NEW n \in Nat, NEW S \in SUBSET (1..n)
  PROVE  \A r \in S : ChainIn(a, S)[r] # {} =>
           /\ r \in ChainIn(a, S)[r]
           /\ \A c \in ChainIn(a, S)[r] :
                BaseOf(a, S, c) = 0 \/ BaseOf(a, S, c) \in ChainIn(a, S)[r]
<1>0. \A q \in S : q \in Nat
  OBVIOUS
<1> DEFINE Good(r) == ChainIn(a, S)[r] # {} =>
             /\ r \in ChainIn(a, S)[r]
             /\ \A c \in ChainIn(a, S)[r] :
                  BaseOf(a, S, c) = 0 \/ BaseOf(a, S, c) \in ChainIn(a, S)[r]
           Bad == {r \in S : ~Good(r)}
<1>1. SUFFICES ASSUME Bad # {} PROVE FALSE
  OBVIOUS
<1>2. PICK r \in Bad : \A q \in Bad : r <= q
  <2>1. Bad \in SUBSET Nat
    <3>1. Bad \subseteq S
      OBVIOUS
    <3>. QED BY <1>0, <3>1
  <2>. QED BY <1>1, <2>1, ASmallestOne
<1>3. PICK C : C = ChainIn(a, S)
  OBVIOUS
<1>4. PICK b : b = BaseOf(a, S, r)
  OBVIOUS
<1>5. r \in S /\ C[r] = IF a[r].level = 0 THEN {r}
                       ELSE IF b = 0 \/ C[b] = {} THEN {} ELSE {r} \cup C[b]
  <2>1. r \in S
    BY <1>2
  <2>2. C[r] = Link(a, S, C, r)
    BY <2>1, <1>3, ChainUnfolds
  <2>. QED BY <2>1, <2>2, <1>4 DEF Link
<1>6. b # 0 => b \in S /\ Good(b)
  <2>1. b # 0 => b \in S /\ b < r
    BY <1>4, <1>5, BaseIsEarlier
  <2>2. \A q \in S : q < r => q \notin Bad
    <3>1. r \in Nat
      BY <1>0, <1>2
    <3>. HIDE DEF Bad
    <3>. QED BY <1>0, <1>2, <3>1
  <2>. QED BY <2>1, <2>2
<1>7. CASE a[r].level = 0
  <2>1. BaseOf(a, S, r) = 0
    BY <1>7 DEF BaseOf
  <2>. QED BY <1>2, <1>3, <1>5, <1>7, <2>1
<1>8. CASE a[r].level # 0 /\ (b = 0 \/ C[b] = {})
  BY <1>2, <1>3, <1>5, <1>8
<1>9. CASE a[r].level # 0 /\ b # 0 /\ C[b] # {}
  <2>1. C[r] = {r} \cup C[b]
    BY <1>5, <1>9
  <2>2. b \in C[b] /\ \A c \in C[b] : BaseOf(a, S, c) = 0 \/ BaseOf(a, S, c) \in C[b]
    BY <1>3, <1>6, <1>9
  <2>3. \A c \in C[r] : BaseOf(a, S, c) = 0 \/ BaseOf(a, S, c) \in C[r]
    BY <1>4, <2>1, <2>2
  <2>. QED BY <1>2, <1>3, <2>1, <2>3
<1>. QED BY <1>7, <1>8, <1>9

\* What archive c lands, from what the one it builds on does.
Lands(f, c) ==
  LET b == BaseOf(tars, Tars, c)
  IN [s \in Subtrees |->
        IF s \notin tars[c].there THEN 0
        ELSE IF tars[c].holds[s] # 0 THEN tars[c].holds[s]
        ELSE IF b = 0 THEN 0 ELSE f[b][s]]

\* The equation has a solution on a chain, by its first archives and then one more.
LEMMA ReplaysExist ==
  ASSUME NEW n \in Nat, Tars \in SUBSET (1..n), NEW C \in SUBSET Tars,
         \A c \in C : BaseOf(tars, Tars, c) = 0 \/ BaseOf(tars, Tars, c) \in C
  PROVE  \E f : f = [c \in C |-> Lands(f, c)]
<1> DEFINE First(k) == {c \in C : c <= k}
           Part(k, f) == \A c \in First(k) : f[c] = Lands(f, c)
           Bad == {k \in Nat : ~\E f : Part(k, f)}
<1>0. C \in SUBSET (1..n)
  OBVIOUS
<1>1. Bad = {}
  <2>1. SUFFICES ASSUME Bad # {} PROVE FALSE
    OBVIOUS
  <2>2. PICK k \in Bad : \A j \in Bad : k <= j
    BY <2>1, ASmallestOne
  <2>3. k # 0
    <3>1. \A c \in C : ~(c <= 0)
      BY <1>0
    <3>2. Part(0, [c \in {} |-> 0])
      BY <3>1
    <3>. QED BY <3>2
  <2>4. k - 1 \in Nat /\ k - 1 \notin Bad
    <3>1. k \in Nat
      BY <2>2
    <3>2. k - 1 \in Nat /\ ~(k <= k - 1)
      BY <3>1, <2>3
    <3>. HIDE DEF Bad
    <3>. QED BY <3>2, <2>2
  <2>5. PICK f : Part(k - 1, f)
    BY <2>4
  <2> DEFINE g == [c \in First(k) |-> IF c = k THEN Lands(f, c) ELSE f[c]]
  <2>6. ASSUME NEW c \in First(k) PROVE g[c] = Lands(g, c)
    <3>1. c \in C /\ c \in Tars /\ c \in 1..n /\ c <= k /\ k \in Nat
      BY <1>0, <2>2
    <3>2. BaseOf(tars, Tars, c) = 0 \/ (BaseOf(tars, Tars, c) \in C /\ BaseOf(tars, Tars, c) < c)
      BY <3>1, BaseIsEarlier
    <3>3. BaseOf(tars, Tars, c) # 0 => g[BaseOf(tars, Tars, c)] = f[BaseOf(tars, Tars, c)]
      <4>1. ASSUME NEW b \in C, b < c PROVE g[b] = f[b]
        <5>1. b \in 1..n
          BY <1>0, <4>1
        <5>2. b \in First(k) /\ b # k
          BY <3>1, <4>1, <5>1
        <5>. QED BY <5>2
      <4>. QED BY <3>2, <4>1
    <3>4. Lands(g, c) = Lands(f, c)
      <4>. HIDE DEF g
      <4>. QED BY <3>3 DEF Lands
    <3>5. CASE c = k
      BY <3>5, <3>4
    <3>6. CASE c # k
      <4>1. c \in First(k - 1)
        BY <3>6, <3>1
      <4>2. g[c] = f[c]
        BY <3>6
      <4>. QED BY <4>1, <4>2, <3>4, <2>5
    <3>. QED BY <3>5, <3>6
  <2>7. Part(k, g)
    <3>. HIDE DEF g, First
    <3>. QED BY <2>6
  <2>. QED BY <2>7, <2>2
<1>2. PICK h : Part(n, h)
  BY <1>1
<1>3. First(n) = C
  <2>1. \A c \in C : c <= n
    BY <1>0
  <2>. QED BY <2>1
<1> DEFINE e == [c \in C |-> h[c]]
<1>4. ASSUME NEW c \in C PROVE e[c] = Lands(e, c)
  <2>1. h[c] = Lands(h, c)
    BY <1>2, <1>3
  <2>2. BaseOf(tars, Tars, c) # 0 => e[BaseOf(tars, Tars, c)] = h[BaseOf(tars, Tars, c)]
    OBVIOUS
  <2>3. Lands(e, c) = Lands(h, c)
    <3>. HIDE DEF e
    <3>. QED BY <2>2 DEF Lands
  <2>. QED BY <2>1, <2>3
<1>5. e = [c \in C |-> Lands(e, c)]
  <2>1. e = [c \in C |-> e[c]]
    OBVIOUS
  <2>. HIDE DEF e
  <2>. QED BY <2>1, <1>4
<1>. QED BY <1>5

\* So Replayed does what it says.
LEMMA ReplayUnfolds ==
  ASSUME NEW n \in Nat, Tars \in SUBSET (1..n), NEW r \in Tars,
         ChainIn(tars, Tars)[r] # {}
  PROVE  \E f : /\ Replayed(r) = f[r]
                /\ \A c \in ChainIn(tars, Tars)[r] : f[c] = Lands(f, c)
<1> DEFINE C == ChainIn(tars, Tars)[r]
           P(f) == f = [c \in C |-> Lands(f, c)]
<1>1. C \subseteq Tars /\ \A c \in C : BaseOf(tars, Tars, c) = 0 \/ BaseOf(tars, Tars, c) \in C
  BY ChainsAreWithin, ChainsAreClosed
<1>2. \E f : P(f)
  <2>. HIDE DEF C
  <2>. QED BY <1>1, ReplaysExist
<1>3. P(CHOOSE f : P(f))
  <2>. HIDE DEF P
  <2>. QED BY <1>2
<1>4. Replayed(r) = (CHOOSE f : P(f))[r]
  BY DEF Replayed, Lands
<1>5. \A c \in C : (CHOOSE f : P(f))[c] = Lands(CHOOSE f : P(f), c)
  <2>1. ASSUME NEW f, P(f) PROVE \A c \in C : f[c] = Lands(f, c)
    BY <2>1
  <2>. HIDE DEF P
  <2>. QED BY <1>3, <2>1
<1>. QED BY <1>4, <1>5
-----------------------------------------------------------------------------
\* What the invariant says of restores.

LEMMA TarsAre ==
  ASSUME SnapshotsTypeOK
  PROVE  /\ Len(tars) \in Nat /\ Tars = 1..Len(tars) /\ Tars \in SUBSET (1..Len(tars))
         /\ \A r \in Tars : tars[r] \in Tar
BY DEF SnapshotsTypeOK, Tars

\* An archive is restored on the one it records.
LEMMA TarBuildsOn ==
  ASSUME SnapshotsTypeOK, NEW c \in Tars, Founded(c)
  PROVE  BaseOf(tars, Tars, c) = IF tars[c].level = 0 THEN 0 ELSE tars[c].base
<1>1. CASE tars[c].level = 0
  BY <1>1 DEF BaseOf
<1>2. CASE tars[c].level # 0
  <2>1. tars[c].base \in Tars /\ tars[c].base < c /\ tars[c].base # 0
    BY <1>2, TarsAre DEF Founded
  <2>2. PICK b : b = tars[c].base
    OBVIOUS
  <2>3. {q \in Tars : q < c} \cap {b} = {b}
    BY <2>1, <2>2
  <2>4. {b} \in SUBSET (1..Len(tars)) /\ {b} # {}
    BY <2>1, <2>2, TarsAre
  <2>5. Newest({b}) = b
    BY <2>4, NewestIsOne, TarsAre
  <2>. QED BY <1>2, <2>1, <2>2, <2>3, <2>5 DEF BaseOf
<1>. QED BY <1>1, <1>2

\* Each has a chain.
LEMMA TarsHaveChains ==
  ASSUME SnapshotsTypeOK, \A c \in Tars : Founded(c), NEW r \in Tars
  PROVE  LET C == ChainIn(tars, Tars)[r]
         IN /\ r \in C /\ C \subseteq Tars
            /\ \A c \in C : tars[c].level # 0 => tars[c].base \in C
<1> DEFINE C == ChainIn(tars, Tars)[r]
<1>1. \A c \in Tars : tars[c].level # 0 => BaseOf(tars, Tars, c) # 0
  <2>1. \A c \in Tars : tars[c].level # 0 => tars[c].base # 0
    BY TarsAre DEF Founded
  <2>. QED BY <2>1, TarBuildsOn
<1>2. Restorable(tars, Tars) = Tars
  <2>. QED BY <1>1, TarsAre, LinkedIsRestorable
<1>3. C # {}
  BY <1>2 DEF Restorable
<1>4. /\ r \in C /\ C \subseteq Tars
      /\ \A c \in C : BaseOf(tars, Tars, c) = 0 \/ BaseOf(tars, Tars, c) \in C
  BY <1>3, TarsAre, ChainsAreClosed, ChainsAreWithin
<1>5. ASSUME NEW c \in C, tars[c].level # 0 PROVE tars[c].base \in C
  <2>1. c \in Tars
    BY <1>4
  <2>. HIDE DEF C
  <2>. QED BY <1>1, <1>4, <1>5, <2>1, TarBuildsOn
<1>. QED BY <1>4, <1>5

\* What a restore of r has landed when it has come to c.
LEMMA Landing ==
  ASSUME SnapshotsTypeOK, \A c \in Tars : Founded(c), NEW r \in Tars
  PROVE  \E f : /\ Replayed(r) = f[r]
                /\ \A c \in ChainIn(tars, Tars)[r] : \A s \in Subtrees :
                     f[c][s] = IF s \notin tars[c].there THEN 0
                               ELSE IF tars[c].holds[s] # 0 THEN tars[c].holds[s]
                               ELSE IF tars[c].level = 0 THEN 0 ELSE f[tars[c].base][s]
<1> DEFINE C == ChainIn(tars, Tars)[r]
<1>1. r \in C /\ C \subseteq Tars
  BY TarsHaveChains
<1>2. PICK f : Replayed(r) = f[r] /\ \A c \in C : f[c] = Lands(f, c)
  BY <1>1, TarsAre, ReplayUnfolds
<1>3. ASSUME NEW c \in C, NEW s \in Subtrees
      PROVE  f[c][s] = IF s \notin tars[c].there THEN 0
                       ELSE IF tars[c].holds[s] # 0 THEN tars[c].holds[s]
                       ELSE IF tars[c].level = 0 THEN 0 ELSE f[tars[c].base][s]
  <2>1. c \in Tars /\ f[c] = Lands(f, c)
    BY <1>1, <1>2
  <2>2. PICK b : b = BaseOf(tars, Tars, c)
    OBVIOUS
  <2>3. b = IF tars[c].level = 0 THEN 0 ELSE tars[c].base
    BY <2>1, <2>2, TarBuildsOn
  <2>4. tars[c].level # 0 => b # 0
    BY <2>1, <2>3, TarsAre DEF Founded
  <2>5. f[c][s] = IF s \notin tars[c].there THEN 0
                  ELSE IF tars[c].holds[s] # 0 THEN tars[c].holds[s]
                  ELSE IF b = 0 THEN 0 ELSE f[b][s]
    BY <2>1, <2>2 DEF Lands
  <2>. QED BY <2>3, <2>4, <2>5
<1>. QED BY <1>2, <1>3

\* The first archive of a chain of which something does not hold.
LEMMA FirstOf ==
  ASSUME SnapshotsTypeOK, NEW B \in SUBSET Tars, B # {}
  PROVE  \E c \in B : \A q \in Tars : q < c => q \notin B
<1>1. B \in SUBSET Nat
  BY TarsAre
<1>2. PICK c \in B : \A q \in B : c <= q
  BY <1>1, ASmallestOne
<1>. QED BY <1>1, <1>2

\* What is in scope is landed as it was.
LEMMA InScopeLands ==
  ASSUME SnapshotsTypeOK, Versions, \A c \in Tars : Founded(c)
  PROVE  InScopeIsCurrent
<1>1. SUFFICES ASSUME NEW r \in Tars, NEW s \in Subtrees \ tars[r].carves,
                      \A c \in ChainIn(tars, Tars)[r] : s \notin tars[c].unread,
                      ~Skipped(r, s)
               PROVE  Replayed(r)[s] = tars[r].disk[s]
  BY DEF InScopeIsCurrent
<1> DEFINE C == ChainIn(tars, Tars)[r]
<1>2. /\ r \in C /\ C \subseteq Tars
      /\ \A c \in C : tars[c].level # 0 => tars[c].base \in C
  BY TarsHaveChains
<1>3. \A c \in C : tars[c].level > 0 /\ tars[c].seed # tars[c].base =>
                     s \notin tars[tars[c].base].carves
  BY <1>1 DEF Skipped
<1>4. PICK f : /\ Replayed(r) = f[r]
               /\ \A c \in C : f[c][s] = IF s \notin tars[c].there THEN 0
                               ELSE IF tars[c].holds[s] # 0 THEN tars[c].holds[s]
                               ELSE IF tars[c].level = 0 THEN 0 ELSE f[tars[c].base][s]
  BY Landing
<1> DEFINE Stale == {c \in C : s \notin tars[c].carves /\ f[c][s] # tars[c].disk[s]}
<1>5. Stale = {}
  <2>1. SUFFICES ASSUME Stale # {} PROVE FALSE
    OBVIOUS
  <2>2. Stale \in SUBSET Tars
    BY <1>2
  <2>3. PICK c \in Stale : \A q \in Tars : q < c => q \notin Stale
    <3>. HIDE DEF Stale
    <3>. QED BY <2>1, <2>2, FirstOf
  <2>4. c \in C /\ c \in Tars /\ s \notin tars[c].carves /\ f[c][s] # tars[c].disk[s]
    BY <2>2
  <2>5. tars[c] \in Tar /\ Founded(c) /\ s \notin tars[c].unread /\ s \in Subtrees
    BY <1>1, <2>4, TarsAre
  <2> DEFINE t == tars[c]
  <2>6. tars[c].disk[s] # 0 /\ s \in tars[c].there
    BY <1>4, <2>4, <2>5 DEF Founded
  <2>7. tars[c].holds[s] = 0
    <3>1. tars[c].holds[s] = 0 \/ tars[c].holds[s] = tars[c].disk[s]
      BY <2>5 DEF Founded
    <3>. QED BY <3>1, <1>4, <2>4, <2>6
  <2>8. tars[c].disk[s] = IF tars[c].level = 0 THEN 0 ELSE SeenBy(tars[c].seed)[s]
    BY <2>4, <2>5, <2>6, <2>7 DEF Founded
  <2>9. tars[c].level # 0 /\ tars[c].disk[s] = SeenBy(tars[c].seed)[s]
    BY <2>6, <2>8
  <2>10. PICK k, b : k = tars[c].seed /\ b = tars[c].base
    OBVIOUS
  <2>11. b \in C /\ b \in Tars /\ k \in Tars /\ b < c /\ k <= b /\ c \in Nat
    BY <1>2, <2>4, <2>5, <2>9, <2>10, TarsAre DEF Founded
  <2>12. s \notin tars[k].carves /\ tars[k].disk[s] = tars[c].disk[s]
    BY <2>5, <2>6, <2>9, <2>10 DEF SeenBy
  <2>13. tars[b].disk[s] = tars[c].disk[s]
    <3>1. b <= c /\ b \in Nat
      BY <2>11, TarsAre
    <3>. QED BY <2>4, <2>5, <2>6, <2>11, <2>12, <3>1 DEF Versions
  <2>14. s \notin tars[b].carves
    <3>1. tars[c].level > 0
      BY <2>5, <2>9 DEF Tar, SnapLevels
    <3>. QED BY <1>3, <2>4, <2>10, <2>12, <3>1
  <2>15. f[b][s] = tars[b].disk[s]
    BY <2>3, <2>11, <2>14
  <2>16. f[c][s] = f[b][s]
    BY <1>4, <2>4, <2>6, <2>7, <2>9, <2>10
  <2>. QED BY <2>4, <2>13, <2>15, <2>16
<1>. QED BY <1>1, <1>2, <1>4, <1>5

\* What is carved is not landed.
LEMMA CarvedStaysAway ==
  ASSUME SnapshotsTypeOK, \A c \in Tars : Founded(c)
  PROVE  NothingCarvedRemains
<1>1. SUFFICES ASSUME NEW r \in Tars, NEW s \in tars[r].carves,
                      \A c \in ChainIn(tars, Tars)[r] : tars[c].judged = tars[c].base
               PROVE  Replayed(r)[s] = 0
  BY DEF NothingCarvedRemains
<1> DEFINE C == ChainIn(tars, Tars)[r]
<1>2. /\ r \in C /\ C \subseteq Tars
      /\ \A c \in C : tars[c].level # 0 => tars[c].base \in C
  BY TarsHaveChains
<1>3. s \in Subtrees
  BY <1>1, TarsAre DEF Tar
<1>4. PICK f : /\ Replayed(r) = f[r]
               /\ \A c \in C : f[c][s] = IF s \notin tars[c].there THEN 0
                               ELSE IF tars[c].holds[s] # 0 THEN tars[c].holds[s]
                               ELSE IF tars[c].level = 0 THEN 0 ELSE f[tars[c].base][s]
  BY <1>3, Landing
<1> DEFINE Stale == {c \in C : s \in tars[c].carves /\ f[c][s] # 0}
<1>5. Stale = {}
  <2>1. SUFFICES ASSUME Stale # {} PROVE FALSE
    OBVIOUS
  <2>2. Stale \in SUBSET Tars
    BY <1>2
  <2>3. PICK c \in Stale : \A q \in Tars : q < c => q \notin Stale
    <3>. HIDE DEF Stale
    <3>. QED BY <2>1, <2>2, FirstOf
  <2>4. c \in C /\ c \in Tars /\ s \in tars[c].carves /\ f[c][s] # 0
    BY <2>2
  <2>5. tars[c] \in Tar /\ Founded(c) /\ tars[c].judged = tars[c].base
    BY <1>1, <2>4, TarsAre
  <2>6. tars[c].holds[s] = 0
    BY <1>3, <2>4, <2>5 DEF Founded
  <2>7. tars[c].level # 0 /\ f[c][s] = f[tars[c].base][s]
    BY <1>4, <2>4, <2>6
  <2>8. PICK b : b = tars[c].base
    OBVIOUS
  <2>9. b \in C /\ b \in Tars /\ b < c /\ s \in tars[b].carves
    BY <1>2, <2>4, <2>5, <2>7, <2>8 DEF Founded
  <2>. QED BY <2>3, <2>4, <2>7, <2>8, <2>9
<1>. QED BY <1>1, <1>2, <1>4, <1>5
-----------------------------------------------------------------------------
\* The steps.

\* The levels below one that is not a full's.
LEMMA LevelBelow ==
  ASSUME SnapshotsAssumption, SnapshotsTypeOK, backup.level # 0
  PROVE  backup.level - 1 \in SnapLevels
BY DEF SnapshotsAssumption, SnapshotsTypeOK, SnapLevels

\* What a commit adds, and that all else is as it was.
LEMMA TarAdded ==
  ASSUME SnapshotsAssumption, SnapsTyped, BackupCommits
  PROVE  \E unread \in SUBSET Subtrees :
           /\ tars' \in Seq(Tar) /\ Len(tars') = Len(tars) + 1
           /\ \A r \in Tars : tars'[r] = tars[r] /\ r < Len(tars) + 1
           /\ Tars' = Tars \cup {Len(tars) + 1}
           /\ tars'[Len(tars) + 1] =
                [level |-> backup.level, base |-> backup.base, carves |-> carves,
                 holds |-> Dumped(Seed(backup.level), unread), unread |-> unread,
                 seed |-> Seed(backup.level).run,
                 judged |-> IF backup.level = 0 THEN 0 ELSE sidecar[backup.level - 1].run,
                 there |-> {s \in Subtrees : disk[s] # 0}, disk |-> disk]
<1>1. PICK unread \in SUBSET {s \in Subtrees : disk[s] # 0} :
        tars' = Append(tars,
                [level |-> backup.level, base |-> backup.base, carves |-> carves,
                 holds |-> Dumped(Seed(backup.level), unread), unread |-> unread,
                 seed |-> Seed(backup.level).run,
                 judged |-> IF backup.level = 0 THEN 0 ELSE sidecar[backup.level - 1].run,
                 there |-> {s \in Subtrees : disk[s] # 0}, disk |-> disk])
  BY DEF BackupCommits
<1> DEFINE new == [level |-> backup.level, base |-> backup.base, carves |-> carves,
                   holds |-> Dumped(Seed(backup.level), unread), unread |-> unread,
                   seed |-> Seed(backup.level).run,
                   judged |-> IF backup.level = 0 THEN 0 ELSE sidecar[backup.level - 1].run,
                   there |-> {s \in Subtrees : disk[s] # 0}, disk |-> disk]
<1>2. disk \in [Subtrees -> Nat] /\ carves \in SUBSET Subtrees
  BY DEF SnapsTyped, SnapshotsTypeOK
<1>3. Dumped(Seed(backup.level), unread) \in [Subtrees -> Nat]
  BY <1>2 DEF Dumped
<1>4. Seed(backup.level).run \in Nat
  <2>1. CASE backup.level = 0
    BY <2>1 DEF Seed, Missing
  <2>2. CASE backup.level # 0
    <3>1. live[backup.level - 1] \in Snapshot
      BY <2>2, LevelBelow DEF SnapsTyped, SnapshotsTypeOK
    <3>. QED BY <2>2, <3>1 DEF Seed, Snapshot
  <2>. QED BY <2>1, <2>2
<1>5. backup.level # 0 => sidecar[backup.level - 1].run \in Nat
  BY LevelBelow DEF SnapsTyped, SnapshotsTypeOK
<1>6. backup.level \in SnapLevels /\ backup.base \in Nat
  BY DEF SnapsTyped, SnapshotsTypeOK
<1>7. new \in Tar
  <2>1. (IF backup.level = 0 THEN 0 ELSE sidecar[backup.level - 1].run) \in Nat
    BY <1>5
  <2>. QED BY <1>2, <1>3, <1>4, <1>6, <2>1 DEF Tar
<1>8. /\ tars' \in Seq(Tar) /\ Len(tars') = Len(tars) + 1
      /\ \A i \in 1..Len(tars) : tars'[i] = tars[i]
      /\ tars'[Len(tars) + 1] = new
  <2>1. tars \in Seq(Tar) /\ tars' = Append(tars, new)
    BY <1>1 DEF SnapsTyped, SnapshotsTypeOK
  <2>. HIDE DEF new
  <2>. QED BY <1>7, <2>1, AppendFacts
<1>9. /\ Tars = 1..Len(tars) /\ Len(tars) \in Nat
      /\ Tars' = 1..Len(tars) + 1
  BY <1>8, TarsAre DEF SnapsTyped, Tars
<1>10. unread \in SUBSET Subtrees
  BY <1>1
<1>11. Tars' = Tars \cup {Len(tars) + 1}
  BY <1>9
<1>12. \A r \in Tars : tars'[r] = tars[r] /\ r < Len(tars) + 1
  BY <1>8, <1>9
<1>. QED BY <1>8, <1>10, <1>11, <1>12

\* What a dump that plans, or does not commit, leaves as it was.
LEMMA TypesOfSnaps ==
  ASSUME SnapshotsAssumption, SnapsTyped, [SnapshotsNext]_snapshotVars
  PROVE  SnapsTyped'
<1> USE DEF SnapsTyped, SnapshotsTypeOK, Stop, world
<1>0. Missing \in Snapshot /\ NoBackup \in [level : SnapLevels, base : Nat]
  BY DEF Missing, Nothing, Snapshot, NoBackup, SnapLevels, SnapshotsAssumption
<1>1. CASE Edit
  <2>1. PICK s \in Subtrees, v \in {0, edits + 2} : disk' = [disk EXCEPT ![s] = v]
    BY <1>1 DEF Edit
  <2>2. edits' = edits + 1 /\ edits' \in 0..MaxEdits
    BY <1>1 DEF Edit, SnapshotsAssumption
  <2>3. disk' \in [Subtrees -> 0..edits' + 1]
    BY <2>1, <2>2
  <2>. QED BY <1>1, <2>2, <2>3 DEF Edit, Tar
<1>2. CASE Rescope
  <2>1. carves' \subseteq Subtrees /\ edits' = edits + 1 /\ edits' \in 0..MaxEdits
    BY <1>2 DEF Rescope, SnapshotsAssumption
  <2>2. disk' \in [Subtrees -> 0..edits' + 1]
    BY <1>2, <2>1 DEF Rescope
  <2>. QED BY <1>2, <2>1, <2>2 DEF Rescope
<1>3. CASE PlanBackup
  <2>1. PICK l \in SnapLevels :
          LET base == Newest({r \in Tars : tars[r].level = l - 1})
          IN /\ l > 0 => base # 0
             /\ backup' = IF l > 0 /\ HasSnapshot(l - 1) THEN [level |-> l, base |-> base]
                          ELSE NoBackup
    BY <1>3 DEF PlanBackup
  <2>2. Newest({r \in Tars : tars[r].level = l - 1}) \in Nat
    <3>1. {r \in Tars : tars[r].level = l - 1} \in SUBSET (1..Len(tars))
      BY TarsAre
    <3>2. ASSUME NEW S \in SUBSET (1..Len(tars)) PROVE Newest(S) \in Nat
      <4>1. CASE S = {}
        BY <4>1, NewestOfNone
      <4>2. CASE S # {}
        <5>1. Newest(S) \in 1..Len(tars)
          BY <4>2, TarsAre, NewestIsOne
        <5>. QED BY <5>1
      <4>. QED BY <4>1, <4>2
    <3>. QED BY <3>1, <3>2
  <2>3. backup' \in [level : SnapLevels, base : Nat]
    BY <1>0, <2>1, <2>2
  <2>. QED BY <1>3, <2>3 DEF PlanBackup
<1>4. CASE BackupCommits
  <2>1. Len(tars) < MaxTars /\ Len(tars) \in Nat
    BY <1>4, TarsAre DEF BackupCommits
  <2>2. tars' \in Seq(Tar) /\ Len(tars') <= MaxTars
    <3>1. tars' \in Seq(Tar) /\ Len(tars') = Len(tars) + 1
      BY <1>4, TarAdded
    <3>. QED BY <2>1, <3>1 DEF SnapshotsAssumption
  <2>3. work' \in Snapshot
    BY <1>4, <2>1 DEF BackupCommits, Scanned, Snapshot
  <2>. QED BY <1>4, <2>2, <2>3 DEF BackupCommits
<1>5. CASE BackupFails
  <2>1. work' \in Snapshot
    BY <1>5 DEF BackupFails, Scanned, Snapshot
  <2>. QED BY <1>0, <1>5, <2>1 DEF BackupFails
<1>6. CASE PromoteSnapshot
  BY <1>0, <1>6 DEF PromoteSnapshot
<1>7. CASE RecordCarves
  <2>1. [run |-> Len(tars), carves |-> carves] \in [run : Nat, carves : SUBSET Subtrees]
    BY TarsAre
  <2>. QED BY <1>0, <1>7, <2>1 DEF RecordCarves
<1>8. CASE Interrupted
  BY <1>0, <1>8 DEF Interrupted
<1>9. CASE UNCHANGED snapshotVars
  BY <1>9 DEF snapshotVars
<1>. QED BY <1>1, <1>2, <1>3, <1>4, <1>5, <1>6, <1>7, <1>8, <1>9 DEF SnapshotsNext

\* A step that commits nothing leaves the archives as they were.
LEMMA TarsStay ==
  ASSUME [SnapshotsNext]_snapshotVars, ~BackupCommits
  PROVE  tars' = tars
BY DEF SnapshotsNext, snapshotVars, Edit, Rescope, PlanBackup, BackupFails, PromoteSnapshot,
       RecordCarves, Interrupted

\* The archive committed is founded, and the others are still.
LEMMA FoundedKept ==
  ASSUME SnapshotsAssumption, SnapsIInv, [SnapshotsNext]_snapshotVars
  PROVE  \A r \in Tars' : Founded(r)'
<1>1. CASE ~BackupCommits
  <2>1. tars' = tars
    BY <1>1, TarsStay
  <2>. QED BY <2>1 DEF SnapsIInv, Founded, SeenBy, Tars
<1>2. CASE BackupCommits
  <2>0. SnapsTyped /\ SnapshotsTypeOK /\ UnderWay /\ phase = "planned"
    BY <1>2 DEF SnapsIInv, SnapsTyped, BackupCommits
  <2>n. PICK n : n = Len(tars) + 1
    OBVIOUS
  <2>1. PICK unread \in SUBSET Subtrees :
           /\ tars' \in Seq(Tar) /\ Len(tars') = n
           /\ \A r \in Tars : tars'[r] = tars[r] /\ r < n
           /\ Tars' = Tars \cup {n}
           /\ tars'[n] =
                [level |-> backup.level, base |-> backup.base, carves |-> carves,
                 holds |-> Dumped(Seed(backup.level), unread), unread |-> unread,
                 seed |-> Seed(backup.level).run,
                 judged |-> IF backup.level = 0 THEN 0 ELSE sidecar[backup.level - 1].run,
                 there |-> {s \in Subtrees : disk[s] # 0}, disk |-> disk]
    BY <1>2, <2>0, <2>n, TarAdded
  <2>2. \A r \in Tars : SeenBy(r)' = SeenBy(r)
    BY <2>1 DEF SeenBy
  <2>3. ASSUME NEW r \in Tars PROVE Founded(r)'
    <3>1. Founded(r) /\ tars'[r] = tars[r]
      BY <2>1, <2>3 DEF SnapsIInv
    <3>2. tars[r].level # 0 =>
            tars[r].base \in Tars /\ tars[r].seed \in Tars
      BY <3>1 DEF Founded
    <3>3. tars[r].level # 0 =>
            tars'[tars[r].base] = tars[tars[r].base] /\ SeenBy(tars[r].seed)' = SeenBy(tars[r].seed)
      BY <2>1, <2>2, <3>2
    <3>. QED BY <2>1, <3>1, <3>2, <3>3 DEF Founded
  <2> DEFINE t == tars'[n]
             l == backup.level
  <2>4. /\ t.level = l /\ t.base = backup.base /\ t.carves = carves /\ t.unread = unread
        /\ t.holds = Dumped(Seed(l), unread) /\ t.seed = Seed(l).run
        /\ t.judged = IF l = 0 THEN 0 ELSE sidecar[l - 1].run
        /\ t.there = {s \in Subtrees : disk[s] # 0} /\ t.disk = disk
    BY <2>1
  <2>5. CASE l = 0
    <3>1. Seed(l) = Missing
      BY <2>5 DEF Seed
    <3>2. ASSUME NEW s \in Subtrees
          PROVE  t.holds[s] = IF s \in carves \cup unread \/ disk[s] = 0 THEN 0 ELSE disk[s]
      BY <2>4, <3>1 DEF Dumped, Missing, Nothing
    <3>3. Founded(n)'
      <4>. HIDE DEF l
      <4>. QED BY <2>4, <2>5, <3>2 DEF Founded
    <3>. QED BY <2>1, <2>3, <3>3
  <2>6. CASE l # 0
    <3>1. l - 1 \in SnapLevels /\ Library(l - 1)
      BY <2>0, <2>6, LevelBelow DEF SnapsIInv
    <3>2. HasSnapshot(l - 1) /\ NewestAt(l - 1, backup.base)
      BY <2>0, <2>6 DEF UnderWay
    <3>3. PICK k : k = live[l - 1].run
      OBVIOUS
    <3>4. k \in Tars /\ tars[k].level = l - 1 /\ live[l - 1].seen = SeenBy(k)
      BY <3>1, <3>2, <3>3 DEF Library, HasSnapshot
    <3>5. Seed(l) = live[l - 1]
      BY <2>6 DEF Seed
    <3>6. backup.base \in Tars /\ k <= backup.base
      BY <3>2, <3>4 DEF NewestAt
    <3>7. sidecar[l - 1].run = backup.base => carves \subseteq tars[backup.base].carves
      <4>1. backup.base # 0
        BY <2>0, <3>6, TarsAre
      <4>2. sidecar[l - 1].run = backup.base => sidecar[l - 1] # Unrecorded
        BY <4>1 DEF Unrecorded
      <4>. QED BY <3>1, <3>2, <4>2 DEF Library, HasSnapshot
    <3>8. ASSUME NEW s \in Subtrees
          PROVE  t.holds[s] = IF s \in carves \cup unread \/ disk[s] = SeenBy(k)[s]
                              THEN 0 ELSE disk[s]
      BY <2>4, <3>4, <3>5 DEF Dumped
    <3>9. /\ backup.base \in Tars' /\ backup.base < n /\ k \in Tars'
          /\ tars'[backup.base] = tars[backup.base] /\ SeenBy(k)' = SeenBy(k)
      BY <2>1, <2>2, <3>4, <3>6
    <3>10. t.seed = k /\ t.judged = sidecar[l - 1].run
      BY <2>4, <2>6, <3>3, <3>5
    <3>11. Founded(n)'
      <4>. HIDE DEF l
      <4>. QED BY <2>4, <2>6, <3>6, <3>7, <3>8, <3>9, <3>10 DEF Founded
    <3>. QED BY <2>1, <2>3, <3>11
  <2>. QED BY <2>5, <2>6
<1>. QED BY <1>1, <1>2

\* What is edited gets a version of its own.
LEMMA VersionsKept ==
  ASSUME SnapshotsAssumption, SnapsIInv, [SnapshotsNext]_snapshotVars
  PROVE  Versions'
<1>0. /\ SnapsTyped /\ SnapshotsTypeOK /\ Versions
      /\ edits \in Nat /\ \A r \in Tars : r \in Nat /\ \A s \in Subtrees : tars[r].disk[s] \in Nat
      /\ \A s \in Subtrees : disk[s] \in Nat /\ disk[s] <= edits + 1
  <2>1. SnapsTyped /\ SnapshotsTypeOK /\ Versions
    BY DEF SnapsIInv, SnapsTyped
  <2>2. edits \in Nat /\ disk \in [Subtrees -> 0..edits + 1]
    BY <2>1 DEF SnapshotsTypeOK
  <2>. QED BY <2>1, <2>2, TarsAre DEF Tar
<1>1. CASE Edit
  <2>1. PICK s \in Subtrees, v \in {0, edits + 2} : disk' = [disk EXCEPT ![s] = v]
    BY <1>1 DEF Edit
  <2>2. tars' = tars /\ Tars' = Tars /\ edits' = edits + 1
    BY <1>1 DEF Edit, Tars
  <2>3. \A q \in Subtrees : disk'[q] = IF q = s THEN v ELSE disk[q]
    BY <2>1 DEF SnapsIInv, SnapsTyped, SnapshotsTypeOK
  <2>4. ASSUME NEW q \in Subtrees, NEW i \in Tars, NEW j \in Tars, i <= j, tars[i].disk[q] # 0
        PROVE  /\ tars[i].disk[q] <= edits + 2
               /\ tars[i].disk[q] = disk'[q] => tars[j].disk[q] = disk'[q]
    <3>1. tars[i].disk[q] <= edits + 1
      BY <1>0, <2>4 DEF Versions
    <3>2. CASE q = s
      <4>1. tars[i].disk[q] # disk'[q]
        BY <1>0, <2>3, <2>4, <3>1, <3>2
      <4>. QED BY <1>0, <3>1, <4>1
    <3>3. CASE q # s
      BY <1>0, <2>3, <2>4, <3>1, <3>3 DEF Versions
    <3>. QED BY <3>2, <3>3
  <2>5. \A q \in Subtrees : \A i, j \in Tars : i <= j /\ tars[i].disk[q] # 0 =>
          \A k \in Tars : j <= k /\ tars[i].disk[q] = tars[k].disk[q] =>
             tars[j].disk[q] = tars[i].disk[q]
    BY <1>0 DEF Versions
  <2>6. edits' + 1 = edits + 2
    BY <1>0, <2>2
  <2>. QED BY <2>2, <2>4, <2>5, <2>6 DEF Versions
<1>2. CASE BackupCommits
  <2> DEFINE n == Len(tars) + 1
  <2>1. /\ \A r \in Tars : tars'[r] = tars[r] /\ r < n
        /\ Tars' = Tars \cup {n} /\ tars'[n].disk = disk
        /\ disk' = disk /\ edits' = edits
    <3>1. PICK unread \in SUBSET Subtrees :
           /\ \A r \in Tars : tars'[r] = tars[r] /\ r < n
           /\ Tars' = Tars \cup {n}
           /\ tars'[n] =
                [level |-> backup.level, base |-> backup.base, carves |-> carves,
                 holds |-> Dumped(Seed(backup.level), unread), unread |-> unread,
                 seed |-> Seed(backup.level).run,
                 judged |-> IF backup.level = 0 THEN 0 ELSE sidecar[backup.level - 1].run,
                 there |-> {s \in Subtrees : disk[s] # 0}, disk |-> disk]
      BY <1>0, <1>2, TarAdded
    <3>2. disk' = disk /\ edits' = edits
      BY <1>2 DEF BackupCommits, world
    <3>. QED BY <3>1, <3>2
  <2>2. n \in Nat
    BY <1>0, TarsAre
  <2>. HIDE DEF n
  <2>3. ASSUME NEW s \in Subtrees, NEW i \in Tars', NEW j \in Tars', i <= j, tars'[i].disk[s] # 0
        PROVE  /\ tars'[i].disk[s] <= edits + 1
               /\ tars'[i].disk[s] = disk[s] => tars'[j].disk[s] = disk[s]
               /\ \A k \in Tars' : j <= k /\ tars'[i].disk[s] = tars'[k].disk[s] =>
                    tars'[j].disk[s] = tars'[i].disk[s]
    <3>1. CASE i = n
      <4>1. \A k \in Tars' : n <= k => k = n
        BY <1>0, <2>1, <2>2
      <4>. QED BY <1>0, <2>1, <2>3, <3>1, <4>1
    <3>2. CASE i # n /\ j = n
      <4>1. i \in Tars /\ tars'[i] = tars[i]
        BY <2>1, <2>3, <3>2
      <4>2. \A k \in Tars' : n <= k => k = n
        BY <1>0, <2>1, <2>2
      <4>3. tars[i].disk[s] <= edits + 1
        BY <1>0, <2>3, <4>1 DEF Versions
      <4>. QED BY <2>1, <2>3, <3>2, <4>1, <4>2, <4>3
    <3>3. CASE i # n /\ j # n
      <4>1. i \in Tars /\ tars'[i] = tars[i] /\ j \in Tars /\ tars'[j] = tars[j]
        BY <2>1, <2>3, <3>3
      <4>2. /\ tars[i].disk[s] <= edits + 1
            /\ tars[i].disk[s] = disk[s] => tars[j].disk[s] = disk[s]
            /\ \A k \in Tars : j <= k /\ tars[i].disk[s] = tars[k].disk[s] =>
                 tars[j].disk[s] = tars[i].disk[s]
        BY <1>0, <2>3, <4>1 DEF Versions
      <4>. QED BY <2>1, <4>1, <4>2
    <3>. QED BY <3>1, <3>2, <3>3
  <2>. QED BY <2>1, <2>3 DEF Versions
<1>3. CASE ~Edit /\ ~BackupCommits
  <2>1. tars' = tars /\ disk' = disk /\ edits' \in {edits, edits + 1}
    BY <1>3 DEF SnapshotsNext, snapshotVars, world, Rescope, PlanBackup, BackupFails,
       PromoteSnapshot, RecordCarves, Interrupted
  <2>2. Tars' = Tars
    BY <2>1 DEF Tars
  <2>3. \A s \in Subtrees : \A r \in Tars : tars[r].disk[s] <= edits + 1 =>
                                            tars[r].disk[s] <= edits' + 1
    BY <1>0, <2>1
  <2>. QED BY <1>0, <2>1, <2>2, <2>3 DEF Versions
<1>. QED BY <1>1, <1>2, <1>3

\* A step leaves each archive committed as it was.
LEMMA TarsGrow ==
  ASSUME SnapshotsAssumption, SnapsTyped, [SnapshotsNext]_snapshotVars
  PROVE  Tars \subseteq Tars' /\ \A r \in Tars : tars'[r] = tars[r] /\ SeenBy(r)' = SeenBy(r)
<1>1. CASE ~BackupCommits
  BY <1>1, TarsStay DEF Tars, SeenBy
<1>2. CASE BackupCommits
  BY <1>2, TarAdded DEF SeenBy
<1>. QED BY <1>1, <1>2

\* A snapshot is promoted from the last archive, and the carves are recorded after it.
LEMMA LibraryKept ==
  ASSUME SnapshotsAssumption, SnapsIInv, [SnapshotsNext]_snapshotVars
  PROVE  \A l \in SnapLevels : Library(l)'
<1>0. SnapsTyped /\ SnapshotsTypeOK /\ UnderWay
  BY DEF SnapsIInv, SnapsTyped
<1>1. SUFFICES ASSUME NEW l \in SnapLevels PROVE Library(l)'
  OBVIOUS
<1>2. Tars \subseteq Tars' /\ \A r \in Tars : tars'[r] = tars[r] /\ SeenBy(r)' = SeenBy(r)
  BY <1>0, TarsGrow
<1>3. Library(l)
  BY DEF SnapsIInv
<1>4. CASE live'[l] = live[l] /\ sidecar'[l] = sidecar[l]
  BY <1>2, <1>3, <1>4 DEF Library
<1>5. CASE PromoteSnapshot
  <2>1. CASE l = backup.level
    <3>1. live'[l] = work /\ sidecar' = sidecar
      BY <1>0, <1>5, <2>1 DEF PromoteSnapshot, SnapshotsTypeOK
    <3>2. /\ Len(tars) \in Tars /\ tars[Len(tars)].level = l
          /\ work.run = Len(tars) /\ work.seen = SeenBy(Len(tars))
      BY <1>0, <1>5, <2>1 DEF PromoteSnapshot, UnderWay
    <3>. QED BY <1>2, <1>3, <3>1, <3>2 DEF Library
  <2>2. CASE l # backup.level
    BY <1>0, <1>4, <1>5, <2>2 DEF PromoteSnapshot, SnapshotsTypeOK
  <2>. QED BY <2>1, <2>2
<1>6. CASE RecordCarves
  <2>1. CASE l = backup.level
    <3>1. sidecar'[l] = [run |-> Len(tars), carves |-> carves] /\ live' = live
      BY <1>0, <1>6, <2>1 DEF RecordCarves, SnapshotsTypeOK
    <3>2. Len(tars) \in Tars /\ tars[Len(tars)].carves = carves
      BY <1>0, <1>6 DEF RecordCarves, UnderWay
    <3>. QED BY <1>2, <1>3, <3>1, <3>2 DEF Library
  <2>2. CASE l # backup.level
    BY <1>0, <1>4, <1>6, <2>2 DEF RecordCarves, SnapshotsTypeOK
  <2>. QED BY <2>1, <2>2
<1>7. CASE ~PromoteSnapshot /\ ~RecordCarves
  <2>1. live' = live /\ sidecar' = sidecar
    BY <1>7 DEF SnapshotsNext, snapshotVars, Edit, Rescope, PlanBackup, BackupCommits,
       BackupFails, Interrupted
  <2>. QED BY <1>4, <2>1
<1>. QED BY <1>5, <1>6, <1>7

\* The scope does not change under a dump: what it was planned by holds when it commits, and
\* what it committed by when its carves are recorded.
LEMMA UnderWayKept ==
  ASSUME SnapshotsAssumption, SnapsIInv, [SnapshotsNext]_snapshotVars
  PROVE  UnderWay'
<1>0. SnapsTyped /\ SnapshotsTypeOK /\ UnderWay
  BY DEF SnapsIInv, SnapsTyped
<1>1. CASE PlanBackup
  <2>1. PICK l \in SnapLevels :
          LET base == Newest({r \in Tars : tars[r].level = l - 1})
          IN /\ l > 0 => base # 0
             /\ backup' = IF l > 0 /\ HasSnapshot(l - 1) THEN [level |-> l, base |-> base]
                          ELSE NoBackup
    BY <1>1 DEF PlanBackup
  <2>2. tars' = tars /\ live' = live /\ sidecar' = sidecar /\ carves' = carves /\ phase' = "planned"
    BY <1>1 DEF PlanBackup, world
  <2> DEFINE S == {r \in Tars : tars[r].level = l - 1}
  <2>3. CASE l > 0 /\ HasSnapshot(l - 1)
    <3>1. backup'.level = l /\ backup'.base = Newest(S) /\ Newest(S) # 0
      BY <2>1, <2>3
    <3>2. S \in SUBSET (1..Len(tars)) /\ S # {}
      BY <1>0, <3>1, TarsAre, NewestOfNone
    <3>3. Newest(S) \in S /\ \A q \in S : q <= Newest(S)
      <4>. HIDE DEF S
      <4>. QED BY <1>0, <3>2, TarsAre, NewestIsOne
    <3>4. NewestAt(l - 1, Newest(S))
      BY <3>3 DEF NewestAt
    <3>5. PICK b : b = Newest(S)
      OBVIOUS
    <3>6. HasSnapshot(l - 1)' /\ NewestAt(l - 1, b)'
      BY <2>2, <2>3, <3>4, <3>5 DEF HasSnapshot, NewestAt, Tars
    <3>. QED BY <2>2, <3>1, <3>5, <3>6 DEF UnderWay, NewestAt, HasSnapshot
  <2>4. CASE ~(l > 0 /\ HasSnapshot(l - 1))
    <3>1. backup'.level = 0
      BY <2>1, <2>4 DEF NoBackup
    <3>. QED BY <2>2, <3>1 DEF UnderWay
  <2>. QED BY <2>3, <2>4
<1>2. CASE BackupCommits
  <2>n. PICK n : n = Len(tars) + 1
    OBVIOUS
  <2>1. /\ Tars' = Tars \cup {n} /\ Len(tars') = n
        /\ tars'[n].level = backup.level /\ tars'[n].carves = carves /\ tars'[n].disk = disk
    <3>1. PICK unread \in SUBSET Subtrees :
           /\ Len(tars') = n /\ Tars' = Tars \cup {n}
           /\ tars'[n] =
                [level |-> backup.level, base |-> backup.base, carves |-> carves,
                 holds |-> Dumped(Seed(backup.level), unread), unread |-> unread,
                 seed |-> Seed(backup.level).run,
                 judged |-> IF backup.level = 0 THEN 0 ELSE sidecar[backup.level - 1].run,
                 there |-> {s \in Subtrees : disk[s] # 0}, disk |-> disk]
      BY <1>0, <1>2, <2>n, TarAdded
    <3>. QED BY <3>1
  <2>2. work' = Scanned(n) /\ phase' = "committed" /\ backup' = backup /\ carves' = carves
    BY <1>2, <2>n DEF BackupCommits, world
  <2>3. Scanned(n).run = n /\ Scanned(n).seen = SeenBy(n)'
    BY <2>1 DEF Scanned, SeenBy
  <2>4. SeenBy(Len(tars))' = SeenBy(n)'
    BY <2>1 DEF SeenBy
  <2>. QED BY <2>1, <2>2, <2>3, <2>4 DEF UnderWay
<1>3. CASE PromoteSnapshot
  <2>1. /\ tars' = tars /\ carves' = carves /\ phase' = "promoted" /\ backup' = backup
        /\ phase = "committed"
    BY <1>3 DEF PromoteSnapshot, world
  <2>. QED BY <1>0, <2>1 DEF UnderWay, Tars
<1>4. CASE phase' = "idle"
  BY <1>4 DEF UnderWay
<1>5. CASE Edit \/ UNCHANGED snapshotVars
  <2>1. /\ tars' = tars /\ carves' = carves /\ phase' = phase /\ backup' = backup
        /\ live' = live /\ sidecar' = sidecar /\ work' = work
    BY <1>5 DEF Edit, snapshotVars
  <2>. QED BY <1>0, <2>1 DEF UnderWay, Tars, HasSnapshot, NewestAt, SeenBy
<1>6. CASE Rescope \/ BackupFails \/ RecordCarves \/ Interrupted
  BY <1>4, <1>6 DEF Rescope, BackupFails, RecordCarves, Interrupted, Stop
<1>. QED BY <1>1, <1>2, <1>3, <1>5, <1>6 DEF SnapshotsNext

LEMMA SnapsInit == ASSUME SnapshotsAssumption, SnapshotsInit PROVE SnapsIInv
<1>1. tars = <<>> /\ Tars = {} /\ Len(tars) = 0 /\ tars \in Seq(Tar)
  BY DEF SnapshotsInit, Tars
<1>2. SnapsTyped
  <2>1. disk \in [Subtrees -> 0..edits + 1] /\ edits \in 0..MaxEdits
    BY DEF SnapshotsInit, SnapshotsAssumption
  <2>2. Missing \in Snapshot /\ Unrecorded \in [run : Nat, carves : SUBSET Subtrees]
        /\ NoBackup \in [level : SnapLevels, base : Nat]
    BY DEF Missing, Nothing, Snapshot, Unrecorded, NoBackup, SnapLevels, SnapshotsAssumption
  <2>. QED BY <1>1, <2>1, <2>2 DEF SnapsTyped, SnapshotsTypeOK, SnapshotsInit, SnapshotsAssumption
<1>3. \A l \in SnapLevels : Library(l)
  BY DEF Library, SnapshotsInit
<1>4. UnderWay
  BY DEF UnderWay, SnapshotsInit
<1>. QED BY <1>1, <1>2, <1>3, <1>4 DEF SnapsIInv, Versions

LEMMA SnapsKept ==
  SnapshotsAssumption /\ SnapsIInv /\ [SnapshotsNext]_snapshotVars => SnapsIInv'
<1>1. SUFFICES ASSUME SnapshotsAssumption, SnapsIInv, [SnapshotsNext]_snapshotVars
               PROVE  SnapsIInv'
  OBVIOUS
<1>2. SnapsTyped'
  BY <1>1, TypesOfSnaps DEF SnapsIInv
<1>3. UnderWay' /\ Versions' /\ \A r \in Tars' : Founded(r)'
  BY <1>1, UnderWayKept, VersionsKept, FoundedKept
<1>4. \A l \in SnapLevels : Library(l)'
  BY <1>1, LibraryKept
<1>. QED BY <1>2, <1>3, <1>4 DEF SnapsIInv, SnapLevels
-----------------------------------------------------------------------------
\* The snapshots, the archives and the dump under way have their types.
THEOREM SnapshotsTypeCorrect ==
  ASSUME SnapshotsAssumption PROVE SnapshotsSpec => []SnapshotsTypeOK
<1>1. SnapshotsInit => SnapsIInv
  BY SnapsInit
<1>2. SnapsIInv /\ [SnapshotsNext]_snapshotVars => SnapsIInv'
  BY SnapsKept
<1>3. SnapsIInv => SnapshotsTypeOK
  BY DEF SnapsIInv, SnapsTyped
<1>. QED BY <1>1, <1>2, <1>3, PTL DEF SnapshotsSpec

\* Whatever is edited, carved out and folded back between dumps that fail, cannot read or are cut
\* short before their snapshot or its carves are promoted, a restore of any archive lands what
\* was in its scope, of the version it had, and nothing of what its scope left out (gnutar.go,
\* snapshot.go).
THEOREM SnapshotsAreCurrent ==
  ASSUME SnapshotsAssumption PROVE SnapshotsSpec => []RestoresAreCurrent
<1>1. SnapshotsInit => SnapsIInv
  BY SnapsInit
<1>2. SnapsIInv /\ [SnapshotsNext]_snapshotVars => SnapsIInv'
  BY SnapsKept
<1>3. SnapsIInv => RestoresAreCurrent
  BY InScopeLands, CarvedStaysAway DEF SnapsIInv, SnapsTyped, RestoresAreCurrent
<1>. QED BY <1>1, <1>2, <1>3, PTL DEF SnapshotsSpec
=============================================================================
