------------------------------- MODULE Spool -------------------------------
(***************************************************************************)
(* One run's landing side: internal/spool/spool.go over the holding pool   *)
(* (pool.go) and the Tee of a direct fan-out (archiveio/tee.go).           *)
(*                                                                         *)
(* A producer per archive probes its route, acquires a holding disk or     *)
(* goes direct, and writes.  A staged archive is fanned out by one drain   *)
(* goroutine per landing that was live at Close; a direct one streams into *)
(* all its landings at once.  Each landing (a lane) hands out permits, and *)
(* is tripped - skipped for the rest of the run - by the first write that  *)
(* fails on it.                                                            *)
(***************************************************************************)
EXTENDS Budgets, Sequences

CONSTANTS Lanes,     \* landings, numbered in the order of their names
          Permits,   \* lane -> concurrent writers
          Route      \* dump -> its landings in order, primary first

Reach(d) == {Route[d][k] : k \in DOMAIN Route[d]}

ASSUME SpoolAssumption ==
  /\ Lanes \subseteq Nat /\ IsFiniteSet(Lanes) /\ IsFiniteSet(Dumps)
  /\ Permits \in [Lanes -> Nat \ {0}]
  /\ Route \in [Dumps -> Seq(Lanes)]
  /\ \A d \in Dumps : Cardinality(Reach(d)) = Len(Route[d])

Pool == INSTANCE HoldingPool

VARIABLES pc,         \* dump -> where its producer is in ingest
          live,       \* dump -> the lanes still to be served
          grip,       \* dump -> lanes whose permit its direct write holds
          drain,      \* dump -> lane -> the drain (or dropped Tee lane) there
          remaining,  \* dump -> drainSet.remaining
          landed,     \* dump -> drainSet.landed
          free,       \* lane -> permits in the channel
          tripped,    \* lane -> lane.tripped
          missing,    \* lane -> laneTrip.missing, 0 for no record
          files,      \* dump -> its staged files: none, whole, gone
          copies      \* dump -> lanes that committed it

laneVars == <<pc, live, grip, drain, remaining, landed, free, tripped, missing, files, copies>>
vars == <<poolVars, laneVars>>

DrainStates == {"none", "queued", "copying", "landed", "failed", "counted",
                "reclaiming", "removed", "releasing", "out"}

PCs == {"idle", "acquire", "staging", "charged", "closing", "lease", "stream", "commit",
        "over"}

Init ==
  /\ Pool!PoolInit
  /\ pc = [d \in Dumps |-> "idle"]
  /\ live = [d \in Dumps |-> {}]
  /\ grip = [d \in Dumps |-> {}]
  /\ drain = [d \in Dumps |-> [l \in Lanes |-> "none"]]
  /\ remaining = [d \in Dumps |-> 0]
  /\ landed = [d \in Dumps |-> 0]
  /\ free = Permits
  /\ tripped = [l \in Lanes |-> FALSE]
  /\ missing = [l \in Lanes |-> 0]
  /\ files = [d \in Dumps |-> "none"]
  /\ copies = [d \in Dumps |-> {}]

Goto(d, where) == pc' = [pc EXCEPT ![d] = where]
SetDrain(d, l, state) == drain' = [drain EXCEPT ![d][l] = state]
Return(l) == free' = [free EXCEPT ![l] = @ + 1]
-----------------------------------------------------------------------------
(* Trips. *)

\* noteMissing: an archive skipped on a tripped lane, counted if the trip has been
\* recorded by then.
NoteMissing(S) ==
  missing' = [l \in Lanes |-> IF l \in S /\ missing[l] > 0 THEN missing[l] + 1 ELSE missing[l]]

\* The flag first, with the permit already back ...
TripKeepsPermit(d, l) ==
  /\ UNCHANGED free
  /\ tripped' = [tripped EXCEPT ![l] = TRUE]
  /\ SetDrain(d, l, "failed")
StoreTrip(d, l) ==
  /\ Return(l)
  /\ tripped' = [tripped EXCEPT ![l] = TRUE]
  /\ SetDrain(d, l, "failed")

\* ... and the record under the mutex after it.
TripUnrecorded(d, l) ==
  /\ drain[d][l] = "failed"
  /\ SetDrain(d, l, IF pc[d] \in {"stream", "commit"} THEN "out" ELSE "counted")
  /\ UNCHANGED <<poolVars, pc, live, grip, remaining, landed, free, tripped, missing, files, copies>>
RecordTrip(d, l) ==
  /\ drain[d][l] = "failed"
  /\ missing' = [missing EXCEPT ![l] = @ + 1]
  /\ SetDrain(d, l, IF pc[d] \in {"stream", "commit"} THEN "out" ELSE "counted")
  /\ UNCHANGED <<poolVars, pc, live, grip, remaining, landed, free, tripped, files, copies>>

\* A Tee drops one lane at a time: its producer records a trip before it goes on.
Dropping(d) == pc[d] \in {"stream", "commit"} /\ \E l \in Lanes : drain[d][l] = "failed"
-----------------------------------------------------------------------------
(* ingest: the route is probed, then a disk acquired. *)

EnterAborted(d) ==
  /\ pc[d] = "idle"
  /\ aborted
  /\ Goto(d, "over")
  /\ UNCHANGED <<poolVars, live, grip, drain, remaining, landed, free, tripped, missing,
                 files, copies>>

\* Tripped lanes leave the route up front.
Enter(d) ==
  /\ pc[d] = "idle"
  /\ ~aborted
  /\ \E l \in Reach(d) : ~tripped[l]
  /\ live' = [live EXCEPT ![d] = {l \in Reach(d) : ~tripped[l]}]
  /\ NoteMissing({l \in Reach(d) : tripped[l]})
  /\ Goto(d, "acquire")
  /\ UNCHANGED <<poolVars, grip, drain, remaining, landed, free, tripped, files, copies>>

\* Every landing of the route is dead: the archive could land nowhere, so the run aborts.
EnterDead(d) ==
  /\ pc[d] = "idle"
  /\ ~aborted
  /\ \A l \in Reach(d) : tripped[l]
  /\ NoteMissing(Reach(d))
  /\ Pool!Abort
  /\ Goto(d, "over")
  /\ UNCHANGED <<live, grip, drain, remaining, landed, free, tripped, files, copies>>

Acquire(d) ==
  /\ pc[d] = "acquire"
  /\ \/ Pool!AcquireDisk(d) /\ Goto(d, "staging")
     \/ Pool!AcquireDirect(d) /\ Goto(d, "lease")
     \/ Pool!AcquireRefused(d) /\ Goto(d, "over")
     \/ Pool!AcquireWaits(d) /\ UNCHANGED pc
  /\ UNCHANGED <<live, grip, drain, remaining, landed, free, tripped, missing, files, copies>>
-----------------------------------------------------------------------------
(* A staged write and its Close hook. *)

StageCommits(d) ==
  /\ pc[d] = "staging"
  /\ Pool!Commit(d)
  /\ files' = [files EXCEPT ![d] = "whole"]
  /\ UNCHANGED <<pc, live, grip, drain, remaining, landed, free, tripped, missing, copies>>

StageFaults(d) ==
  /\ pc[d] = "staging"
  /\ Pool!Fault(d)
  /\ Goto(d, "closing")
  /\ UNCHANGED <<live, grip, drain, remaining, landed, free, tripped, missing, files, copies>>

Charge(d) ==
  /\ pc[d] = "staging"
  /\ Pool!ChargeLanded(d)
  /\ Goto(d, "charged")
  /\ UNCHANGED <<live, grip, drain, remaining, landed, free, tripped, missing, files, copies>>

\* One drain per lane of the route that is still live, all added before any starts.
Launch(d) ==
  LET S == {l \in live[d] : ~tripped[l]} IN
  /\ pc[d] = "charged"
  /\ S # {}
  /\ live' = [live EXCEPT ![d] = S]
  /\ remaining' = [remaining EXCEPT ![d] = Cardinality(S)]
  /\ drain' = [drain EXCEPT ![d] = [l \in Lanes |-> IF l \in S THEN "queued" ELSE "none"]]
  /\ NoteMissing(live[d] \ S)
  /\ Goto(d, "closing")
  /\ UNCHANGED <<poolVars, grip, landed, free, tripped, files, copies>>

\* No live landing left: the staged copy stays for the next run's flush.
LaunchDead(d) ==
  /\ pc[d] = "charged"
  /\ \A l \in live[d] : tripped[l]
  /\ NoteMissing(live[d])
  /\ Pool!KeepStaged(d)
  /\ Goto(d, "closing")
  /\ UNCHANGED <<live, grip, drain, remaining, landed, free, tripped, files, copies>>

FreeEstimate(d) ==
  /\ pc[d] = "closing"
  /\ Pool!ReturnEstimate(d)
  /\ UNCHANGED laneVars

ReleaseWriter(d) ==
  /\ pc[d] = "closing"
  /\ Pool!FreeWriter(d)
  /\ Goto(d, "over")
  /\ UNCHANGED <<live, grip, drain, remaining, landed, free, tripped, missing, files, copies>>
-----------------------------------------------------------------------------
(* drainTo, one goroutine per staged archive and lane. *)

LeaseDrain(d, l) ==
  /\ drain[d][l] = "queued"
  /\ free[l] > 0
  /\ free' = [free EXCEPT ![l] = @ - 1]
  /\ SetDrain(d, l, "copying")
  /\ UNCHANGED <<poolVars, pc, live, grip, remaining, landed, tripped, missing, files, copies>>

CopyLands(d, l) ==
  /\ drain[d][l] = "copying"
  /\ files[d] = "whole"
  /\ copies' = [copies EXCEPT ![d] = @ \cup {l}]
  /\ Return(l)
  /\ SetDrain(d, l, "landed")
  /\ UNCHANGED <<poolVars, pc, live, grip, remaining, landed, tripped, missing, files>>

CopyFails(d, l) ==
  /\ drain[d][l] = "copying"
  /\ StoreTrip(d, l)
  /\ UNCHANGED <<poolVars, pc, live, grip, remaining, landed, missing, files, copies>>

CountLanded(d, l) ==
  /\ drain[d][l] = "landed"
  /\ landed' = [landed EXCEPT ![d] = @ + 1]
  /\ SetDrain(d, l, "counted")
  /\ UNCHANGED <<poolVars, pc, live, grip, remaining, free, tripped, missing, files, copies>>

\* The drain leaves its set; the last one settles the archive.
LeaveFirstReclaims(d, l) ==
  /\ drain[d][l] = "counted"
  /\ remaining' = [remaining EXCEPT ![d] = @ - 1]
  /\ SetDrain(d, l, IF landed[d] > 0 /\ files[d] = "whole" THEN "reclaiming" ELSE "out")
  /\ UNCHANGED <<poolVars, pc, live, grip, landed, free, tripped, missing, files, copies>>
Leave(d, l) ==
  /\ drain[d][l] = "counted"
  /\ remaining' = [remaining EXCEPT ![d] = @ - 1]
  /\ \/ remaining[d] > 1 /\ SetDrain(d, l, "out") /\ UNCHANGED poolVars
     \/ remaining[d] = 1 /\ landed[d] > 0 /\ SetDrain(d, l, "reclaiming") /\ UNCHANGED poolVars
     \/ remaining[d] = 1 /\ landed[d] = 0 /\ SetDrain(d, l, "out") /\ Pool!KeepStaged(d)
  /\ UNCHANGED <<pc, live, grip, landed, free, tripped, missing, files, copies>>

\* reclaimStaged: the files, the placement, then the budget; a failure aborts the run.
ReclaimLeavesFiles(d, l) ==
  /\ drain[d][l] = "reclaiming"
  /\ SetDrain(d, l, "removed")
  /\ UNCHANGED <<poolVars, pc, live, grip, remaining, landed, free, tripped, missing, files, copies>>
ReclaimFiles(d, l) ==
  /\ drain[d][l] = "reclaiming"
  /\ files' = [files EXCEPT ![d] = "gone"]
  /\ SetDrain(d, l, "removed")
  /\ UNCHANGED <<poolVars, pc, live, grip, remaining, landed, free, tripped, missing, copies>>

ReclaimPlacement(d, l) ==
  /\ drain[d][l] = "removed"
  /\ Pool!RemoveStaged(d)
  /\ SetDrain(d, l, "releasing")
  /\ UNCHANGED <<pc, live, grip, remaining, landed, free, tripped, missing, files, copies>>

ReclaimReleasesEstimate(d, l) ==
  /\ drain[d][l] = "releasing"
  /\ Pool!Release(disk[d], Est[d])
  /\ staged' = [staged EXCEPT ![d] = "released"]
  /\ SetDrain(d, l, "out")
  /\ UNCHANGED <<writing, cursor, aborted, phase, disk, leftover>>
  /\ UNCHANGED <<pc, live, grip, remaining, landed, free, tripped, missing, files, copies>>
ReclaimReleases(d, l) ==
  /\ drain[d][l] = "releasing"
  /\ Pool!ReleaseStaged(d)
  /\ SetDrain(d, l, "out")
  /\ UNCHANGED <<pc, live, grip, remaining, landed, free, tripped, missing, files, copies>>

ReclaimFails(d, l) ==
  /\ drain[d][l] \in {"reclaiming", "removed"}
  /\ Pool!KeepStaged(d)
  /\ SetDrain(d, l, "out")
  /\ UNCHANGED <<pc, live, grip, remaining, landed, free, tripped, missing, files, copies>>
-----------------------------------------------------------------------------
(* ingestDirect: permits in the order of the lanes' names, then the stream. *)

LeaseDirectAnyOrder(d, l) ==
  /\ pc[d] = "lease"
  /\ l \in live[d] \ grip[d]
  /\ free[l] > 0
  /\ free' = [free EXCEPT ![l] = @ - 1]
  /\ grip' = [grip EXCEPT ![d] = @ \cup {l}]
  /\ IF grip[d] \cup {l} = live[d] THEN Goto(d, "stream") ELSE UNCHANGED pc
  /\ UNCHANGED <<poolVars, live, drain, remaining, landed, tripped, missing, files, copies>>
LeaseDirect(d, l) ==
  /\ pc[d] = "lease"
  /\ l \in live[d] \ grip[d]
  /\ \A m \in live[d] \ grip[d] : l <= m
  /\ free[l] > 0
  /\ free' = [free EXCEPT ![l] = @ - 1]
  /\ grip' = [grip EXCEPT ![d] = @ \cup {l}]
  /\ IF grip[d] \cup {l} = live[d] THEN Goto(d, "stream") ELSE UNCHANGED pc
  /\ UNCHANGED <<poolVars, live, drain, remaining, landed, tripped, missing, files, copies>>

IsTee(d) == Cardinality(live[d]) > 1

\* The source or the encode pipeline ends cleanly and the lanes are sealed one by one,
\* primary first.
BeginCommit(d) ==
  /\ pc[d] = "stream"
  /\ ~Dropping(d) /\ grip[d] # {}
  /\ Goto(d, "commit")
  /\ UNCHANGED <<poolVars, live, grip, drain, remaining, landed, free, tripped, missing,
                 files, copies>>

\* The lane the Tee seals next: the first of the route it still feeds.
NextToSeal(d, l) ==
  /\ l \in grip[d] \ copies[d]
  /\ \E k \in DOMAIN Route[d] :
       /\ Route[d][k] = l
       /\ \A j \in 1..(k - 1) : Route[d][j] \notin grip[d] \ copies[d]

\* A lane of a Tee fails, while it streams or at its seal: its writer closes, which returns the permit, and it trips.
\* The last lane of the Tee to fail fails the stream.
DropLane(d, l) ==
  /\ IsTee(d) /\ ~Dropping(d)
  /\ \/ pc[d] = "stream" /\ l \in grip[d]
     \/ pc[d] = "commit" /\ NextToSeal(d, l)
  /\ grip' = [grip EXCEPT ![d] = @ \ {l}]
  /\ StoreTrip(d, l)
  /\ UNCHANGED <<poolVars, pc, live, remaining, landed, missing, files, copies>>

CommitLane(d, l) ==
  /\ pc[d] = "commit"
  /\ ~Dropping(d)
  /\ NextToSeal(d, l)
  /\ copies' = [copies EXCEPT ![d] = @ \cup {l}]
  /\ UNCHANGED <<poolVars, pc, live, grip, drain, remaining, landed, free, tripped, missing, files>>

\* The producer leaves with every remaining lane sealed, or with a failed transfer: the
\* source died, no lane is left, or the only writer (no Tee, so nothing trips) failed.
MayClose(d) ==
  /\ ~Dropping(d)
  /\ \/ pc[d] = "stream"
     \/ pc[d] = "commit" /\ (grip[d] \subseteq copies[d] \/ ~IsTee(d))

CloseDirect(d) ==
  /\ MayClose(d)
  /\ free' = [l \in Lanes |-> IF l \in grip[d] THEN free[l] + 1 ELSE free[l]]
  /\ grip' = [grip EXCEPT ![d] = {}]
  /\ Goto(d, "over")
  /\ UNCHANGED <<poolVars, live, drain, remaining, landed, tripped, missing, files, copies>>
-----------------------------------------------------------------------------
\* The watcher of the run's context: cancelling aborts the pool, and nothing else.
Cancel ==
  /\ Pool!AbortRun
  /\ UNCHANGED laneVars

\* Drain has returned: the run is read from the catalog.
RunOver ==
  /\ \A d \in Dumps : pc[d] = "over"
  /\ \A d \in Dumps, l \in Lanes : drain[d][l] \in {"none", "out"}

ProducerStep(d) ==
  \/ EnterAborted(d) \/ Enter(d) \/ EnterDead(d) \/ Acquire(d)
  \/ StageCommits(d) \/ StageFaults(d) \/ Charge(d) \/ Launch(d) \/ LaunchDead(d)
  \/ FreeEstimate(d) \/ ReleaseWriter(d)
  \/ BeginCommit(d) \/ CloseDirect(d)
  \/ \E l \in Lanes : LeaseDirect(d, l) \/ DropLane(d, l) \/ CommitLane(d, l)
                      \/ (Dropping(d) /\ RecordTrip(d, l))

DrainStep(d, l) ==
  \/ LeaseDrain(d, l)
  \/ CopyLands(d, l) \/ CopyFails(d, l)
  \/ (~Dropping(d) /\ RecordTrip(d, l))
  \/ CountLanded(d, l) \/ Leave(d, l)
  \/ ReclaimFiles(d, l) \/ ReclaimPlacement(d, l) \/ ReclaimReleases(d, l) \/ ReclaimFails(d, l)

Next ==
  \/ \E d \in Dumps : \/ ProducerStep(d)
                      \/ \E l \in Lanes : DrainStep(d, l)
  \/ Cancel

Spec == Init /\ [][Next]_vars

\* Goroutines run: a producer or drain that can go on does.  A permit is leased at most
\* once per archive and lane, so weak fairness is enough for its waiters too.
Fairness ==
  \A d \in Dumps : /\ WF_vars(ProducerStep(d))
                   /\ \A l \in Lanes : WF_vars(DrainStep(d, l))

FairSpec == Spec /\ Fairness
-----------------------------------------------------------------------------
\* Who writes to lane l now.
LaneUsers(l) == {d \in Dumps : drain[d][l] = "copying" \/ l \in grip[d]}

\* A permit is either in the channel or with one writer: no path out of a drain, a
\* dropped Tee lane or a faulted direct write leaks it or returns it twice.
PermitsConserved ==
  \A l \in Lanes : free[l] + Cardinality(LaneUsers(l)) = Permits[l]

\* The staged files outlive the fan-out: they go only when no drain of the archive is
\* still to read them and a landing has the archive.
StagedOutlivesDrains ==
  \A d \in Dumps : files[d] = "gone" =>
    /\ copies[d] # {}
    /\ \A l \in Lanes : drain[d][l] \notin {"queued", "copying", "landed", "failed"}

\* The archive's dump returned without an error.
Succeeded(d) == files[d] # "none" \/ copies[d] # {}

\* "A tripped landing is a warning, not a failure": a run that ends without an error
\* has every archive on a landing of its route, nothing left staged, and a recorded
\* trip for each landing an archive is missing on.
CleanRunIsComplete ==
  RunOver /\ ~aborted /\ (\A d \in Dumps : Succeeded(d)) =>
    \A d \in Dumps :
      /\ copies[d] # {}
      /\ staged[d] \in {"none", "released"}
      /\ \A l \in Reach(d) \ copies[d] : tripped[l] /\ missing[l] > 0

\* Every producer and every drain ends: no deadlock among permits, holding space and
\* drain sets, whatever fails.
RunEnds == <>RunOver

\* The staging contract this module implements.
Archives ==
  INSTANCE StagedArchives WITH
    RouteSet <- [d \in Dumps |-> Reach(d)],
    held <- [d \in Dumps |-> files[d] # "none" /\ staged[d] \notin {"removed", "released"}]

\* Threads, permits and trips deliver what StagedArchives promises: no staged file goes
\* before a landing has the archive, files before placement, no copy off a removed file.
ImplementsStagedArchives == Archives!Spec

\* Under the lanes the pool sees only calls its own specification allows.
ImplementsPool == Pool!PoolSpec
=============================================================================
