------------------------------ MODULE Status ------------------------------
(***************************************************************************)
(* The live status of a run (progress/tracker.go, progress.go): the        *)
(* tracker's snapshot as the conductor, the dumpers and the spool's drains *)
(* report to it, each from its own goroutine and in its own order, beside  *)
(* what those really did.  Every archive is ArchiveSize units; a meter    *)
(* that has moved but not finished reads 1.                                *)
(***************************************************************************)
EXTENDS Integers, Sequences, FiniteSets, FiniteSetsExt, SequencesExt

CONSTANTS DLEs, Landings,
          Arrays,     \* the config's landing lists, in order, by dumptype
          TypeOf,     \* each DLE's dumptype
          Unusable,   \* the landings that may fail to open
          Stageable,  \* the DLEs some holding disk fits
          ArchiveSize

StatusAssumption ==
    /\ DLEs \subseteq Nat /\ IsFiniteSet(DLEs) /\ Landings \subseteq Nat /\ IsFiniteSet(Landings)
    /\ TypeOf \in [DLEs -> DOMAIN Arrays] /\ Stageable \subseteq DLEs /\ Unusable \subseteq Landings
    /\ Arrays \in [DOMAIN Arrays -> Seq(Landings) \ {<<>>}]
    /\ ArchiveSize \in Nat /\ ArchiveSize > 1

VARIABLES array,      \* the lists themselves, which every holder of a route shares
          span,       \* how much of its list each row's route takes in
          row,        \* the snapshot's rows
          runPhase, skipped, tripNoted, dumpEnded,   \* the snapshot's own fields
          pc,         \* each dump's goroutine
          lane,       \* each dump's landings: how the copy there stands
          left,       \* drainSet.remaining
          copies,     \* the landings that committed it
          tripped, spoolAborted, canceled,
          failed      \* some dump failed

routes == <<array, span>>
snap == <<routes, row, runPhase, skipped, tripNoted, dumpEnded>>
world == <<pc, lane, left, copies, tripped, spoolAborted, canceled, failed>>
statusVars == <<snap, world>>

Row == [state: {"pending", "dumping", "flushing", "done", "failed", "canceled"},
        out: 0 .. ArchiveSize, drained: [Landings -> 0 .. ArchiveSize],
        toHolding: BOOLEAN, holding: BOOLEAN]

StatusTypeOK ==
    /\ row \in [DLEs -> Row] /\ span \in [DLEs -> Nat]
    /\ runPhase \in {"opening", "running", "sealing", "done", "failed", "canceled"}
    /\ skipped \subseteq Landings /\ tripNoted \subseteq Landings /\ dumpEnded \in BOOLEAN
    /\ pc \in [DLEs -> {"idle", "held", "dumping", "returning", "over"}]
    /\ lane \in [DLEs -> [Landings ->
                   {"none", "direct", "queued", "copying", "broken", "void", "counted"}]]
    /\ copies \in [DLEs -> SUBSET Landings] /\ tripped \subseteq Landings

-----------------------------------------------------------------------------
\* The snapshot's own arithmetic.

Route(d) == SubSeq(array[TypeOf[d]], 1, span[d])
Drains(d) == row[d].holding
ToDrain(d) == row[d].out * (IF span[d] > 1 THEN span[d] ELSE 1)
SumOver(f, S) == MapThenSumSet(LAMBDA x : f[x], S)
DrainBytes(d) == SumOver(row[d].drained, Landings)
DrainedWhole(d) == ToDrain(d) > 0 /\ DrainBytes(d) >= ToDrain(d)

WrittenTo(d, l) ==
    IF Drains(d) \/ row[d].toHolding \/ span[d] > 1 THEN row[d].drained[l]
    ELSE IF l \in Range(Route(d)) THEN row[d].out ELSE 0

Staged == {d \in DLEs : Drains(d)}
TotalToDrain == SumOver([d \in DLEs |-> ToDrain(d)], Staged)
TotalDrained == SumOver([d \in DLEs |-> DrainBytes(d)], Staged)
RoutedTo(l) == {d \in Staged : l \in Range(Route(d))}
LandingDone(l) == SumOver([d \in DLEs |-> row[d].drained[l]], RoutedTo(l))
LandingTotal(l) == SumOver([d \in DLEs |-> row[d].out], RoutedTo(l))

OnVolume(d) ==
    IF Drains(d) \/ row[d].toHolding
    THEN IF span[d] > 1 THEN row[d].drained[Route(d)[1]] ELSE DrainBytes(d)
    ELSE row[d].out

-----------------------------------------------------------------------------
\* The tracker's calls.

Set(d, r) == row' = [row EXCEPT ![d] = r]

\* markDumpEndIfDone, after the rows became rows.
EndOnPending(rows) ==      \* a mutant
    dumpEnded' = (dumpEnded \/ \A d \in DLEs : rows[d].state # "dumping")
MarkDumpEnd(rows) ==
    dumpEnded' = (dumpEnded \/ \A d \in DLEs : rows[d].state \notin {"pending", "dumping"})

SetAndMark(d, r) == Set(d, r) /\ MarkDumpEnd([row EXCEPT ![d] = r])

\* FinishFlush settles the lanes that copied anything and no other.
SettleAll(r) == [l \in Landings |-> IF r.out > 0 THEN r.out ELSE r.drained[l]]      \* a mutant
Settled(r) == [l \in Landings |-> IF r.drained[l] > 0 /\ r.out > 0 THEN r.out ELSE r.drained[l]]

\* SkipLanding: the route is filtered in place, row after row; a row holds a
\* slice of the config's own list.  skipLandings takes the landings in order.
InPlace(list, n, l) ==
    LET kept == FoldLeft(LAMBDA ks, x : IF x = l THEN ks ELSE Append(ks, x), <<>>,
                         SubSeq(list, 1, n))
    IN  [list |-> kept \o SubSeq(list, Len(kept) + 1, Len(list)), len |-> Len(kept)]

SkipRow(s, d, l) ==
    LET cut == InPlace(s.array[TypeOf[d]], s.span[d], l)
    IN  [array |-> [s.array EXCEPT ![TypeOf[d]] = cut.list],
         span |-> [s.span EXCEPT ![d] = cut.len]]

SkipLanding(s, l) ==
    MapThenFoldSet(LAMBDA d, x : SkipRow(x, d, l), s, LAMBDA d : d, Max, DLEs)
SkipLandings(S) ==
    MapThenFoldSet(LAMBDA l, x : SkipLanding(x, l), [array |-> array, span |-> span],
                   LAMBDA l : l, Max, S)

\* trip: the lane is dead, and the snapshot names it once; its route stays.
Trip(l) == /\ tripped' = tripped \cup {l}
           /\ tripNoted' = tripNoted \cup {l}

-----------------------------------------------------------------------------
StatusInit ==
    /\ array = Arrays
    /\ span = [d \in DLEs |-> Len(Arrays[TypeOf[d]])]
    /\ row = [d \in DLEs |-> [state |-> "pending", out |-> 0,
                              drained |-> [l \in Landings |-> 0],
                              toHolding |-> FALSE, holding |-> FALSE]]
    /\ runPhase = "opening" /\ skipped = {} /\ tripNoted = {} /\ dumpEnded = FALSE
    /\ pc = [d \in DLEs |-> "idle"]
    /\ lane = [d \in DLEs |-> [l \in Landings |-> "none"]]
    /\ left = [d \in DLEs |-> 0] /\ copies = [d \in DLEs |-> {}]
    /\ tripped = {} /\ spoolAborted = FALSE /\ canceled = FALSE /\ failed = FALSE

\* Landings that make no room or do not open: fatal when they are some DLE's whole
\* route, else skipped for the run.
OpenLandings(S) ==
    /\ runPhase = "opening"
    /\ IF \E d \in DLEs : Range(Arrays[TypeOf[d]]) \subseteq S
       THEN /\ runPhase' = "failed"
            /\ UNCHANGED <<routes, skipped>>
       ELSE /\ runPhase' = "running" /\ skipped' = S
            /\ array' = SkipLandings(S).array /\ span' = SkipLandings(S).span
    /\ UNCHANGED <<row, tripNoted, dumpEnded, world>>

Alive(d) == {l \in Range(array[TypeOf[d]]) : l \notin skipped \cup tripped}

\* ingest: the lanes still alive, then a holding disk or the landings themselves.
Acquire(d, disk) ==
    /\ runPhase = "running" /\ pc[d] = "idle" /\ ~spoolAborted /\ ~canceled /\ Alive(d) # {}
    /\ disk => d \in Stageable
    /\ pc' = [pc EXCEPT ![d] = "held"]
    /\ Set(d, [row[d] EXCEPT !.toHolding = disk])
    /\ lane' = [lane EXCEPT ![d] = [l \in Landings |->
                  IF l \in Alive(d) THEN IF disk THEN "queued" ELSE "direct" ELSE "none"]]
    /\ UNCHANGED <<routes, runPhase, skipped, tripNoted, dumpEnded, left, copies, tripped,
                   spoolAborted, canceled, failed>>

\* A dump that fails or is canceled, with its landings held or before: refused by
\* an aborted spool, with nowhere to land (which aborts it), or on its own.
FailDump(d) ==
    /\ runPhase = "running" /\ pc[d] \in {"idle", "held", "dumping"}
    /\ pc' = [pc EXCEPT ![d] = "over"]
    /\ SetAndMark(d, [row[d] EXCEPT !.state = IF canceled THEN "canceled" ELSE "failed"])
    /\ failed' = TRUE
    /\ spoolAborted' = (spoolAborted \/ (pc[d] = "idle" /\ Alive(d) = {}))
    /\ lane' = [lane EXCEPT ![d] = [l \in Landings |-> "none"]]
    /\ UNCHANGED <<routes, runPhase, skipped, tripNoted, left, copies, tripped, canceled>>

\* A canceled run starts no more dumps; those stay pending.
NotStarted(d) ==
    /\ canceled /\ pc[d] = "idle" /\ pc' = [pc EXCEPT ![d] = "over"]
    /\ UNCHANGED <<snap, lane, left, copies, tripped, spoolAborted, canceled, failed>>

\* A worker: StartDLE.
StartDLE(d) ==
    /\ pc[d] = "held" /\ pc' = [pc EXCEPT ![d] = "dumping"]
    /\ Set(d, [row[d] EXCEPT !.state = "dumping"])
    /\ UNCHANGED <<routes, runPhase, skipped, tripNoted, dumpEnded, lane, left, copies, tripped,
                   spoolAborted, canceled, failed>>

\* AddBytes, and for a direct fan-out each lane's own meter.
AddBytes(d) ==
    /\ pc[d] = "dumping" /\ row[d].out = 0
    /\ Set(d, [row[d] EXCEPT !.out = 1, !.drained = [l \in Landings |->
         IF lane[d][l] = "direct" /\ Cardinality({x \in Landings : lane[d][x] = "direct"}) > 1
         THEN 1 ELSE @[l]]])
    /\ UNCHANGED <<routes, runPhase, skipped, tripNoted, dumpEnded, world>>

\* A lane of a direct fan-out drops; the others go on.
DropLane(d, l) ==
    /\ pc[d] = "dumping" /\ lane[d][l] = "direct"
    /\ \E x \in Landings \ {l} : lane[d][x] = "direct"
    /\ Trip(l) /\ lane' = [lane EXCEPT ![d][l] = "broken"]
    /\ UNCHANGED <<routes, row, runPhase, skipped, dumpEnded, pc, left, copies, spoolAborted,
                   canceled, failed>>

\* Commit on a holding disk: StageHolding, and a drain for each lane still alive.
CommitStaged(d) ==
    LET drains == {l \in Landings : lane[d][l] = "queued"} \ tripped
    IN  /\ pc[d] = "dumping" /\ row[d].toHolding /\ row[d].out > 0
        /\ pc' = [pc EXCEPT ![d] = "returning"]
        /\ Set(d, [row[d] EXCEPT !.holding = TRUE, !.out = ArchiveSize])
        /\ lane' = [lane EXCEPT ![d] = [l \in Landings |-> IF l \in drains THEN "queued" ELSE "none"]]
        /\ left' = [left EXCEPT ![d] = Cardinality(drains)]
        /\ spoolAborted' = (spoolAborted \/ drains = {})
        /\ UNCHANGED <<routes, runPhase, skipped, tripNoted, dumpEnded, copies, tripped, canceled,
                       failed>>

CommitDirect(d) ==
    LET on == {l \in Landings : lane[d][l] = "direct"}
    IN  /\ pc[d] = "dumping" /\ ~row[d].toHolding /\ row[d].out > 0
        /\ pc' = [pc EXCEPT ![d] = "returning"]
        /\ copies' = [copies EXCEPT ![d] = on]
        /\ Set(d, [row[d] EXCEPT !.out = ArchiveSize, !.drained = [l \in Landings |->
             IF l \in on /\ @[l] > 0 THEN ArchiveSize ELSE @[l]]])
        /\ lane' = [lane EXCEPT ![d] = [l \in Landings |-> "none"]]
        /\ UNCHANGED <<routes, runPhase, skipped, tripNoted, dumpEnded, left, tripped,
                       spoolAborted, canceled, failed>>

\* The dumper's goroutine reports its DLE finished, whatever its drains did since.
FinishDLE(d) ==
    /\ pc[d] = "returning" /\ pc' = [pc EXCEPT ![d] = "over"]
    /\ SetAndMark(d, [row[d] EXCEPT !.state = "done"])
    /\ UNCHANGED <<routes, runPhase, skipped, tripNoted, lane, left, copies, tripped,
                   spoolAborted, canceled, failed>>

Delivered(d) == pc[d] \in {"returning", "over"} /\ row[d].holding

StartFlush(d, l) ==
    /\ Delivered(d) /\ lane[d][l] = "queued"
    /\ lane' = [lane EXCEPT ![d][l] = "copying"]
    /\ SetAndMark(d, [row[d] EXCEPT !.state = "flushing"])
    /\ UNCHANGED <<routes, runPhase, skipped, tripNoted, pc, left, copies, tripped, spoolAborted,
                   canceled, failed>>

AddDrainBytes(d, l) ==
    /\ lane[d][l] = "copying" /\ row[d].drained[l] = 0
    /\ Set(d, [row[d] EXCEPT !.drained[l] = 1])
    /\ UNCHANGED <<routes, runPhase, skipped, tripNoted, dumpEnded, world>>

\* The copy commits on its landing.
DrainLands(d, l) ==
    /\ lane[d][l] = "copying" /\ row[d].drained[l] > 0
    /\ copies' = [copies EXCEPT ![d] = @ \cup {l}]
    /\ lane' = [lane EXCEPT ![d][l] = "void"]
    /\ UNCHANGED <<snap, pc, left, tripped, spoolAborted, canceled, failed>>

\* It fails: the lane is tripped ...
DrainFails(d, l) ==
    /\ lane[d][l] = "copying" /\ Trip(l)
    /\ lane' = [lane EXCEPT ![d][l] = "broken"]
    /\ UNCHANGED <<routes, row, runPhase, skipped, dumpEnded, pc, left, copies, spoolAborted,
                   canceled, failed>>

\* ... and its meter, which would claim a copy there is not, is voided.
VoidMeter(d, l) ==
    /\ lane[d][l] = "broken" /\ row[d].holding
    /\ Set(d, [row[d] EXCEPT !.drained[l] = 0])
    /\ lane' = [lane EXCEPT ![d][l] = "void"]
    /\ UNCHANGED <<routes, runPhase, skipped, tripNoted, dumpEnded, pc, left, copies, tripped,
                   spoolAborted, canceled, failed>>

\* The last drain of the set reclaims and finishes, or aborts the run.
CountDrain(d, l) ==
    LET last == left[d] = 1
    IN  /\ lane[d][l] = "void"
        /\ lane' = [lane EXCEPT ![d][l] = "counted"]
        /\ left' = [left EXCEPT ![d] = @ - 1]
        /\ spoolAborted' = (spoolAborted \/ (last /\ copies[d] = {}))
        /\ IF last /\ copies[d] # {}
           THEN Set(d, [row[d] EXCEPT !.state = "done", !.drained = Settled(row[d])])
           ELSE UNCHANGED row
        /\ UNCHANGED <<routes, runPhase, skipped, tripNoted, dumpEnded, pc, copies, tripped,
                       canceled, failed>>

Cancel ==
    /\ runPhase = "running" /\ ~canceled /\ canceled' = TRUE
    /\ UNCHANGED <<snap, pc, lane, left, copies, tripped, spoolAborted, failed>>

\* The producers are done; then the drains are, and the run with them.
Seal ==
    /\ runPhase = "running" /\ ~canceled /\ \A d \in DLEs : pc[d] = "over"
    /\ runPhase' = "sealing"
    /\ UNCHANGED <<routes, row, skipped, tripNoted, dumpEnded, world>>

EndRun ==
    /\ runPhase = "sealing" \/ (runPhase = "running" /\ canceled)
    /\ \A d \in DLEs : pc[d] = "over" /\ left[d] = 0
    /\ runPhase' = IF canceled THEN "canceled" ELSE IF spoolAborted \/ failed THEN "failed" ELSE "done"
    /\ UNCHANGED <<routes, row, skipped, tripNoted, dumpEnded, world>>

StatusNext ==
    \/ \E S \in SUBSET Unusable : OpenLandings(S)
    \/ \E d \in DLEs :
         \/ \E disk \in BOOLEAN : Acquire(d, disk)
         \/ FailDump(d) \/ NotStarted(d) \/ StartDLE(d) \/ AddBytes(d)
         \/ CommitStaged(d) \/ CommitDirect(d) \/ FinishDLE(d)
         \/ \E l \in Landings :
              \/ DropLane(d, l) \/ StartFlush(d, l) \/ AddDrainBytes(d, l) \/ DrainLands(d, l)
              \/ DrainFails(d, l) \/ VoidMeter(d, l) \/ CountDrain(d, l)
    \/ Cancel \/ Seal \/ EndRun

StatusSpec == StatusInit /\ [][StatusNext]_statusVars

-----------------------------------------------------------------------------
\* Properties.

Terminal == runPhase \in {"done", "failed", "canceled"}

\* No meter claims a copy there is not, nor hides one there is.
MetersTellCopies ==
    \A d \in Staged, l \in Landings :
      lane[d][l] \in {"none", "counted"} /\ left[d] = 0 =>
        (row[d].drained[l] > 0 <=> l \in copies[d])

\* An archive's drain reads complete exactly when every landing it is owed to
\* has it; a landing's flush line, exactly when every staged archive routed
\* there is there; a landing the run skipped is in no line.
CompleteIsWhole ==
    Terminal =>
      /\ \A d \in Staged : row[d].state = "done" =>
           (DrainedWhole(d) <=> Range(Arrays[TypeOf[d]]) \ skipped \subseteq copies[d])
      /\ \A l \in Landings : (\A d \in RoutedTo(l) : row[d].state = "done") =>
           (LandingDone(l) = LandingTotal(l) <=> \A d \in RoutedTo(l) : l \in copies[d])
      /\ \A l \in skipped : RoutedTo(l) = {} /\ \A d \in DLEs : WrittenTo(d, l) = 0

\* Totals stay totals: nothing is drained beyond what is owed, what is on the
\* primary is no more than what was produced.
TotalsBound ==
    /\ TotalDrained <= TotalToDrain
    /\ \A d \in DLEs : OnVolume(d) <= row[d].out

\* No landing is listed twice, and those the run skipped were the last of their lists: then the
\* lists are as they were, and a route is what is left of its own.  Any other landing that is
\* skipped leaves the shared list with another of its landings twice, and a drain of it owed twice.
LastsSkipped ==
    \A t \in DOMAIN Arrays : \A i, j \in DOMAIN Arrays[t] :
      i < j => Arrays[t][i] # Arrays[t][j] /\ Arrays[t][i] \notin skipped

\* What the status file says of the copies is true, whatever order the dumps and
\* the drains reported in, and whichever landing tripped when; that complete means whole, unless
\* the lists were spoilt by a skip.
StatusIsTrue ==
    StatusTypeOK /\ MetersTellCopies /\ TotalsBound /\ (LastsSkipped => CompleteIsWhole)

\* Of a step.  The dump window closes once, after the last dump, and no dump runs after it: the
\* rate it froze stays (tracker.go).
DumpsStayEnded ==
    [][dumpEnded => /\ dumpEnded'
                    /\ \A d \in DLEs : row'[d].state \notin {"pending", "dumping"}]_statusVars
=============================================================================
