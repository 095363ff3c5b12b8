-------------------------- MODULE HoldingRecovery --------------------------
(***************************************************************************)
(* The staged archives of a machine that may die: a live run fans them out *)
(* (internal/spool/spool.go, its permits, budgets and threads aside), the  *)
(* process may end at any step, and the next nb dump flushes what is left  *)
(* before it plans (internal/conductor/flush.go).                          *)
(*                                                                         *)
(* A commit has two steps, the footer on the medium and the record in the  *)
(* catalog (archiveio/writer.go), and a reclaim three: the footer, the     *)
(* parts, the placement (archivefs/compose.go).  What the media and the    *)
(* catalog hold survives; drains, their counts and trips do not.           *)
(*                                                                         *)
(* Flush is stricter than the live run: it wants a copy on every landing   *)
(* of the route before it reclaims, and its first error ends it, and with  *)
(* it the nb dump that called it.                                          *)
(***************************************************************************)
EXTENDS Integers, FiniteSets

CONSTANTS Dumps,      \* archives, numbered in the order Flush visits them
          Lanes,
          RouteSet,   \* dump -> the landings of its route, at least one
          MaxFaults   \* bound: crashes and failures, all runs together

ASSUME RecoveryAssumption ==
  /\ Dumps \subseteq Nat
  /\ IsFiniteSet(Lanes)
  /\ RouteSet \in [Dumps -> (SUBSET Lanes) \ {{}}]
  /\ MaxFaults \in Nat

VARIABLES holding,    \* dump -> its staged files: none, sealed (parts and footer),
                      \*         footless (parts only), gone
          staged,     \* dump -> the catalog places it on its holding disk
          sealed,     \* dump -> landings with its parts and footer
          recorded,   \* dump -> landings the catalog places it on
          mode,       \* no process, a live run, or a flush
          stage,      \* dump -> how far the live run is with it
          drain,      \* dump -> lane -> the copy under way there
          remaining,  \* dump -> drainSet.remaining
          landed,     \* dump -> drainSet.landed
          tripped,    \* lanes that failed in the live run
          aborted,    \* the live run's error is set
          faults      \* crashes and failures so far

durable == <<holding, staged, sealed, recorded>>
sets == <<drain, remaining, landed>>
vars == <<durable, mode, stage, sets, tripped, aborted, faults>>

Idle == [l \in Lanes |-> "none"]

Init ==
  /\ holding = [d \in Dumps |-> "none"]
  /\ staged = [d \in Dumps |-> FALSE]
  /\ sealed = [d \in Dumps |-> {}]
  /\ recorded = [d \in Dumps |-> {}]
  /\ mode = "run"
  /\ stage = [d \in Dumps |-> "none"]
  /\ drain = [d \in Dumps |-> Idle]
  /\ remaining = [d \in Dumps |-> 0]
  /\ landed = [d \in Dumps |-> 0]
  /\ tripped = {}
  /\ aborted = FALSE
  /\ faults = 0

Fault == faults < MaxFaults /\ faults' = faults + 1
SetDrain(d, l, state) == drain' = [drain EXCEPT ![d][l] = state]
SetStage(d, state) == stage' = [stage EXCEPT ![d] = state]
-----------------------------------------------------------------------------
(* The live run stages an archive. *)

\* ingest admits it while the run is healthy and a landing of its route is: parts, then
\* footer reach the holding disk ...
SealStaged(d) ==
  /\ mode = "run" /\ stage[d] = "none"
  /\ ~aborted /\ ~(RouteSet[d] \subseteq tripped)
  /\ holding' = [holding EXCEPT ![d] = "sealed"]
  /\ SetStage(d, "sealed")
  /\ UNCHANGED <<staged, sealed, recorded, mode, sets, tripped, aborted, faults>>

\* ... with every landing of the route out, the run's error is set instead ...
IngestRefused(d) ==
  /\ mode = "run" /\ stage[d] = "none"
  /\ ~aborted /\ RouteSet[d] \subseteq tripped
  /\ aborted' = TRUE
  /\ UNCHANGED <<durable, mode, stage, sets, tripped, faults>>

\* ... and once recorded, a drain is launched for each landing that is not tripped by now;
\* with none the copy is kept and the run's error set.
RecordStagedWholeRoute(d) ==
  LET lanes == RouteSet[d] \ tripped
  IN /\ mode = "run" /\ stage[d] = "sealed"
     /\ staged' = [staged EXCEPT ![d] = TRUE]
     /\ drain' = [drain EXCEPT ![d] = [l \in Lanes |-> IF l \in lanes THEN "queued" ELSE "none"]]
     /\ remaining' = [remaining EXCEPT ![d] = Cardinality(RouteSet[d])]
     /\ landed' = [landed EXCEPT ![d] = 0]
     /\ SetStage(d, IF lanes = {} THEN "over" ELSE "draining")
     /\ aborted' = (aborted \/ lanes = {})
     /\ UNCHANGED <<holding, sealed, recorded, mode, tripped, faults>>
RecordStaged(d) ==
  LET lanes == RouteSet[d] \ tripped
  IN /\ mode = "run" /\ stage[d] = "sealed"
     /\ staged' = [staged EXCEPT ![d] = TRUE]
     /\ drain' = [drain EXCEPT ![d] = [l \in Lanes |-> IF l \in lanes THEN "queued" ELSE "none"]]
     /\ remaining' = [remaining EXCEPT ![d] = Cardinality(lanes)]
     /\ landed' = [landed EXCEPT ![d] = 0]
     /\ SetStage(d, IF lanes = {} THEN "over" ELSE "draining")
     /\ aborted' = (aborted \/ lanes = {})
     /\ UNCHANGED <<holding, sealed, recorded, mode, tripped, faults>>

\* Its record fails: the dump fails, an archive the catalog does not know stays behind.
RecordFails(d) ==
  /\ mode = "run" /\ stage[d] = "sealed"
  /\ Fault
  /\ SetStage(d, "over")
  /\ UNCHANGED <<durable, mode, sets, tripped, aborted>>
-----------------------------------------------------------------------------
(* The drains of its set. *)

\* The staged payload, read back by position, can be read while the parts are there.
Readable(d) == holding[d] \in {"sealed", "footless"}

DrainSeals(d, l) ==
  /\ mode = "run" /\ drain[d][l] = "queued"
  /\ Readable(d)
  /\ sealed' = [sealed EXCEPT ![d] = @ \cup {l}]
  /\ SetDrain(d, l, "sealed")
  /\ UNCHANGED <<holding, staged, recorded, mode, stage, remaining, landed, tripped, aborted, faults>>

\* A drain ends, with one copy won or none; the last one of the set settles the archive.  With a copy on a landing
\* the staged one is reclaimed, with none it is kept and the run's error set.
LeaveUnserved(d, l, won) ==
  /\ SetDrain(d, l, "none")
  /\ remaining' = [remaining EXCEPT ![d] = @ - 1]
  /\ IF remaining[d] = 1 THEN SetStage(d, "reclaiming") ELSE UNCHANGED stage
  /\ UNCHANGED <<landed, aborted>>
Leave(d, l, won) ==
  LET got == landed[d] + won
  IN /\ SetDrain(d, l, "none")
     /\ landed' = [landed EXCEPT ![d] = got]
     /\ remaining' = [remaining EXCEPT ![d] = @ - 1]
     /\ \/ remaining[d] # 1 /\ UNCHANGED <<stage, aborted>>
        \/ remaining[d] = 1 /\ got > 0 /\ SetStage(d, "reclaiming") /\ UNCHANGED aborted
        \/ remaining[d] = 1 /\ got = 0 /\ SetStage(d, "over") /\ aborted' = TRUE

\* Its copy is recorded.
DrainRecords(d, l) ==
  /\ mode = "run" /\ drain[d][l] = "sealed"
  /\ recorded' = [recorded EXCEPT ![d] = @ \cup {l}]
  /\ Leave(d, l, 1)
  /\ UNCHANGED <<holding, staged, sealed, mode, tripped, faults>>

\* It fails, with or without a footer on the landing: the lane is tripped.
DrainFails(d, l) ==
  /\ mode = "run" /\ drain[d][l] \in {"queued", "sealed"}
  /\ Fault
  /\ tripped' = tripped \cup {l}
  /\ Leave(d, l, 0)
  /\ UNCHANGED <<durable, mode>>
-----------------------------------------------------------------------------
(* ReclaimAt, of the live run and of Flush. *)

Leftover == {d \in Dumps : staged[d]}

\* The archive Flush is at: the first one a holding disk still places.
At(d) == d \in Leftover /\ \A e \in Leftover : d <= e

\* What the catalog says a landing of the route still misses.
Unserved(d) == RouteSet[d] \ recorded[d]

MayReclaim(d) ==
  \/ mode = "run" /\ stage[d] = "reclaiming"
  \/ mode = "flush" /\ At(d) /\ Unserved(d) = {}

\* The footer goes first, ...
RemoveFooter(d) ==
  /\ MayReclaim(d) /\ holding[d] = "sealed"
  /\ holding' = [holding EXCEPT ![d] = "footless"]
  /\ UNCHANGED <<staged, sealed, recorded, mode, stage, sets, tripped, aborted, faults>>

\* ... then the parts, of which the first one lost makes the copy unreadable; a file that
\* is gone already is no error ...
RemoveParts(d) ==
  /\ MayReclaim(d) /\ holding[d] = "footless"
  /\ holding' = [holding EXCEPT ![d] = "gone"]
  /\ UNCHANGED <<staged, sealed, recorded, mode, stage, sets, tripped, aborted, faults>>

\* ... and last the placement.
RemoveArchiveFirst(d) ==
  /\ MayReclaim(d) /\ holding[d] = "sealed"
  /\ staged' = [staged EXCEPT ![d] = FALSE]
  /\ SetStage(d, "over")
  /\ UNCHANGED <<holding, sealed, recorded, mode, sets, tripped, aborted, faults>>
RemoveArchive(d) ==
  /\ MayReclaim(d) /\ holding[d] = "gone"
  /\ staged' = [staged EXCEPT ![d] = FALSE]
  /\ SetStage(d, "over")
  /\ UNCHANGED <<holding, sealed, recorded, mode, sets, tripped, aborted, faults>>

\* A file or the placement cannot be removed: the error of the run, or the end of the flush.
ReclaimFails(d) ==
  /\ MayReclaim(d)
  /\ Fault
  /\ \/ mode = "run" /\ SetStage(d, "over") /\ aborted' = TRUE /\ UNCHANGED mode
     \/ mode = "flush" /\ mode' = "none" /\ UNCHANGED <<stage, aborted>>
  /\ UNCHANGED <<durable, sets, tripped>>
-----------------------------------------------------------------------------
(* The process ends. *)

\* What it had in memory: the archives it was at, their drains, the trips and its error.
Forget ==
  /\ mode' = "none"
  /\ stage' = [d \in Dumps |-> IF stage[d] = "none" THEN "none" ELSE "over"]
  /\ drain' = [d \in Dumps |-> Idle]
  /\ remaining' = [d \in Dumps |-> 0]
  /\ landed' = [d \in Dumps |-> 0]
  /\ tripped' = {}
  /\ aborted' = FALSE

\* The run is over when no archive is in its hands.
RunEnds ==
  /\ mode = "run"
  /\ \A d \in Dumps : stage[d] \in {"none", "over"}
  /\ Forget
  /\ UNCHANGED <<durable, faults>>

\* The process dies, in the live run or in a flush.
Crash ==
  /\ mode \in {"run", "flush"}
  /\ Fault
  /\ Forget
  /\ UNCHANGED durable
-----------------------------------------------------------------------------
(* The next nb dump: Flush. *)

FlushStarts ==
  /\ mode = "none"
  /\ mode' = "flush"
  /\ UNCHANGED <<durable, stage, sets, tripped, aborted, faults>>

\* One landing of the route after the other: the copy's footer ...
FlushSeals(d, l) ==
  /\ mode = "flush" /\ At(d)
  /\ l \in Unserved(d) /\ drain[d] = Idle
  /\ Readable(d)
  /\ sealed' = [sealed EXCEPT ![d] = @ \cup {l}]
  /\ SetDrain(d, l, "sealed")
  /\ UNCHANGED <<holding, staged, recorded, mode, stage, remaining, landed, tripped, aborted, faults>>

\* ... and its record.
FlushRecords(d, l) ==
  /\ mode = "flush" /\ drain[d][l] = "sealed"
  /\ recorded' = [recorded EXCEPT ![d] = @ \cup {l}]
  /\ SetDrain(d, l, "none")
  /\ UNCHANGED <<holding, staged, sealed, mode, stage, remaining, landed, tripped, aborted, faults>>

\* Opening the staged payload fails because parts of it are gone: Flush returns.
FlushCannotRead(d) ==
  /\ mode = "flush" /\ At(d)
  /\ Unserved(d) # {} /\ ~Readable(d)
  /\ mode' = "none"
  /\ UNCHANGED <<durable, stage, sets, tripped, aborted, faults>>

\* The landing or its record fails: Flush returns, the archive stays staged.
FlushCannotWrite(d) ==
  /\ mode = "flush" /\ At(d)
  /\ Unserved(d) # {}
  /\ Fault
  /\ mode' = "none"
  /\ drain' = [drain EXCEPT ![d] = Idle]
  /\ UNCHANGED <<durable, stage, remaining, landed, tripped, aborted>>

\* Nothing left on the holding disks: the dump goes on to plan its own run.
FlushDone ==
  /\ mode = "flush" /\ Leftover = {}
  /\ mode' = "run"
  /\ UNCHANGED <<durable, stage, sets, tripped, aborted, faults>>
-----------------------------------------------------------------------------
LiveStep(d) ==
  \/ SealStaged(d) \/ IngestRefused(d) \/ RecordStaged(d) \/ RecordFails(d)
  \/ \E l \in Lanes : DrainSeals(d, l) \/ DrainRecords(d, l) \/ DrainFails(d, l)

ReclaimAt(d) == RemoveFooter(d) \/ RemoveParts(d) \/ RemoveArchive(d) \/ ReclaimFails(d)

FlushStep(d) ==
  \/ FlushCannotRead(d) \/ FlushCannotWrite(d)
  \/ \E l \in Lanes : FlushSeals(d, l) \/ FlushRecords(d, l)

Next ==
  \/ \E d \in Dumps : LiveStep(d) \/ ReclaimAt(d) \/ FlushStep(d)
  \/ RunEnds \/ Crash \/ FlushStarts \/ FlushDone

Spec == Init /\ [][Next]_vars

\* A process that can go on does, and after a run ends or dies someone runs nb dump.
Fairness ==
  /\ WF_vars(RunEnds) /\ WF_vars(FlushStarts) /\ WF_vars(FlushDone)
  /\ \A d \in Dumps : /\ WF_vars(LiveStep(d)) /\ WF_vars(ReclaimAt(d))
                      /\ WF_vars(FlushStep(d))

FairSpec == Spec /\ Fairness
-----------------------------------------------------------------------------
\* Every variable has its type.
TypeOK ==
  /\ holding \in [Dumps -> {"none", "sealed", "footless", "gone"}]
  /\ staged \in [Dumps -> BOOLEAN]
  /\ sealed \in [Dumps -> SUBSET Lanes] /\ recorded \in [Dumps -> SUBSET Lanes]
  /\ mode \in {"none", "run", "flush"}
  /\ stage \in [Dumps -> {"none", "sealed", "draining", "reclaiming", "over"}]
  /\ drain \in [Dumps -> [Lanes -> {"none", "queued", "sealed"}]]
  /\ remaining \in [Dumps -> Nat] /\ landed \in [Dumps -> Nat]
  /\ tripped \in SUBSET Lanes
  /\ aborted \in BOOLEAN
  /\ faults \in 0..MaxFaults

\* An archive's staged files, as a reader by position finds those the catalog places.
StagedFiles ==
  [d \in Dumps |-> IF holding[d] = "gone" THEN "gone"
                   ELSE IF staged[d] THEN "whole" ELSE "none"]

\* Its copies that can be restored: whole on the landing, and recorded.
LandingCopies == [d \in Dumps |-> recorded[d] \cap sealed[d]]

Archives == INSTANCE StagedArchives
              WITH files <- StagedFiles, held <- staged, copies <- LandingCopies

\* Wherever the process dies and whatever fails, an archive that the catalog ever placed
\* can be read from a staged copy it places, or from a landing that holds all of it.
NeverLost ==
  \A d \in Dumps : (staged[d] \/ recorded[d] # {}) =>
    \/ staged[d] /\ Readable(d)
    \/ recorded[d] \cap sealed[d] # {}

\* Drains, counts and trips of a live run, reclaims in three steps, crashes between any two
\* of them and the flushes after keep to the contract of staging (drainTo, ReclaimAt, Flush).
ImplementsStagedArchives == Archives!Spec

\* Placed on the holding disk, its files removed, and a landing of its route without it:
\* a run died, or failed, between the parts and the placement of a reclaim that a tripped
\* landing had missed.
Wedged(d) == staged[d] /\ ~Readable(d) /\ Unserved(d) # {}

\* A staged archive that is in the catalog leaves the holding disk in the end - the run that
\* wrote it, or a later flush, moves it on - unless some archive is wedged at the head of
\* the flush.
StagedFilesMoveOn ==
  \A d \in Dumps : staged[d] ~> ~staged[d] \/ \E e \in Dumps : Wedged(e)
=============================================================================
