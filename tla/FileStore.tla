------------------------------ MODULE FileStore ------------------------------
(***************************************************************************)
(* One address-identified medium (a disk directory or a cloud bucket) as   *)
(* media/fslike lays it out: every file is a payload and a header sidecar  *)
(* at a volume-wide position.  Modelled with it is what shares those       *)
(* positions: the archive writer (parts first, commit footer last), the    *)
(* reclaim that removes them in the opposite order, the prune's orphan     *)
(* sweep, the catalog's placements, and the rebuild that reads them back.  *)
(*                                                                         *)
(* A process holds one handle (Volume) at a time on the medium; Reopen is  *)
(* the fresh handle of a later operation, Crash the loss of the process.   *)
(* Headers are abstracted to the archive and kind they name.               *)
(***************************************************************************)
EXTENDS Integers, Sequences, FiniteSets, SequencesExt, FiniteSetsExt

CONSTANTS Archives,    \* the archives that may be written to the medium
          RunOf,       \* the run each archive belongs to
          Kinds,       \* an archive's files in write order, the footer last
          MaxPos,      \* bound: positions ever handed out
          MaxStarts,   \* bound: archives begun
          MaxFaults,   \* bound: crashes, aborted appends, lost catalogs
          MaxCuts      \* bound: reclaims cut short by a crash or an error

None == "none"

FileStoreAssumption ==
    /\ DOMAIN RunOf = Archives /\ None \notin Archives
    /\ Kinds \in Seq(STRING) /\ Len(Kinds) > 0
    /\ \A i, j \in DOMAIN Kinds : Kinds[i] = Kinds[j] => i = j
    /\ MaxPos \in Nat /\ MaxStarts \in Nat
    /\ MaxFaults \in Nat /\ MaxCuts \in Nat

VARIABLES cloud,    \* the Store behind the volume: a bucket or a directory
          objs,     \* the keys stored
          torn,     \* the stored header sidecars that do not parse
          up,       \* a process holds a handle
          next,     \* the handle's next position
          idx,      \* the handle's index: position -> entry
          w,        \* each archive's writer
          toc,      \* each archive's latest footer: where its files lie
          placed,   \* the catalog: each archive's recorded positions
          rec,      \* the ReclaimAt in progress
          doomed,   \* the positions an orphan sweep has yet to remove
          swept,    \* the last sweep was refused nothing, and nothing was stored since
          faults, cuts, starts,
          mixed     \* history: a position a stale placement names was reused, or a sweep
                    \* left the footer of a copy it was taking

vars == <<cloud, objs, torn, up, next, idx, w, toc, placed, rec, doomed,
          swept, faults, cuts, starts, mixed>>

Positions == 0 .. MaxPos
Key(p, a, k, h) == [pos |-> p, ar |-> a, kind |-> k, half |-> h]
NoKey == Key(-1, None, None, None)
Halves == {"payload", "hdr"}
Keys == [pos: Positions, ar: Archives, kind: Range(Kinds), half: Halves]

Idle == [st |-> "idle", k |-> 0, pos |-> 0, got |-> <<>>]
NoReclaim == [ar |-> None, rest |-> <<>>]

TypeOK ==
    /\ cloud \in BOOLEAN /\ up \in BOOLEAN /\ swept \in BOOLEAN
    /\ mixed \in BOOLEAN
    /\ objs \subseteq Keys /\ torn \subseteq objs
    /\ next \in 0 .. MaxPos + 1
    /\ DOMAIN idx \subseteq Positions
    /\ \A p \in DOMAIN idx :
         /\ idx[p].pay \in Keys \cup {NoKey} /\ idx[p].hdr \in Keys \cup {NoKey}
         /\ idx[p].run \in Range(RunOf)
    /\ \A a \in Archives :
         /\ w[a].st \in {"idle", "append", "payload", "header", "done"}
         /\ w[a].k \in 0 .. Len(Kinds)
         /\ w[a].got \in Seq(Positions)
         /\ toc[a] \in {<<>>} \cup [1 .. Len(Kinds) -> Positions]
         /\ placed[a] \in {<<>>} \cup [1 .. Len(Kinds) -> Positions]
    /\ rec.ar \in Archives \cup {None} /\ rec.rest \in Seq(Positions)
    /\ doomed \subseteq Positions
    /\ faults \in 0 .. MaxFaults /\ cuts \in 0 .. MaxCuts /\ starts \in 0 .. MaxStarts

-----------------------------------------------------------------------------
\* What the medium says.

\* A file is usable: both artifacts are there and the header parses.
Readable(p, a, k) ==
    /\ Key(p, a, k, "payload") \in objs
    /\ Key(p, a, k, "hdr") \in objs \ torn

Footer == Kinds[Len(Kinds)]
Committed(a) == \E p \in Positions : Readable(p, a, Footer)
Whole(a) == \A i \in DOMAIN Kinds : \E p \in Positions : Readable(p, a, Kinds[i])

\* Volume.scan: pair the listed keys by position; next passes every position
\* seen, usable or not.
ScanEntry(p) ==
    LET at == {o \in objs : o.pos = p}
        pick(h) == IF \E o \in at : o.half = h
                   THEN CHOOSE o \in at : o.half = h ELSE NoKey
    IN  [run |-> RunOf[(CHOOSE o \in at : TRUE).ar],
         pay |-> pick("payload"), hdr |-> pick("hdr")]
ScannedIdx == [p \in {o.pos : o \in objs} |-> ScanEntry(p)]
ScannedNext == IF objs = {} THEN 0 ELSE Max({o.pos : o \in objs}) + 1

Incomplete(e) == e.pay = NoKey \/ e.hdr = NoKey

\* FilesExcept: complete entries whose header parses, but for known positions.
FilesExcept(known) ==
    {p \in DOMAIN idx \ known :
        ~Incomplete(idx[p]) /\ idx[p].hdr \in objs \ torn}

\* IncompleteFiles: exactly one half; a reservation has neither.
IncompleteFiles ==
    {p \in DOMAIN idx : (idx[p].pay = NoKey) # (idx[p].hdr = NoKey)}

\* The scan maps of assemble: for an archive's kind the last position listed
\* wins, positions being listed in ascending order.
Sighted(files, a, k) == {p \in files : idx[p].hdr.ar = a /\ idx[p].hdr.kind = k}
Located(files, a, k) == Max(Sighted(files, a, k))

Uncatalogued(known) == FilesExcept(known)      \* a mutant: the cache decides

\* OrphanFiles: the files that no archive with a footer among them accounts for.
OrphanFiles(known) ==
    LET files == FilesExcept(known)
        referenced == {p \in files :
            /\ Sighted(files, idx[p].hdr.ar, Footer) # {}
            /\ p = Located(files, idx[p].hdr.ar, idx[p].hdr.kind)}
    IN  files \ referenced

KnownPositions == UNION {Range(placed[a]) : a \in Archives}

-----------------------------------------------------------------------------
\* The handle.

Quiet == /\ \A a \in Archives : w[a].st = "idle"
         /\ rec = NoReclaim /\ doomed = {}

Init ==
    /\ cloud \in BOOLEAN
    /\ objs = {} /\ torn = {} /\ up = FALSE /\ next = 0 /\ idx = <<>>
    /\ w = [a \in Archives |-> Idle] /\ toc = [a \in Archives |-> <<>>]
    /\ placed = [a \in Archives |-> <<>>]
    /\ rec = NoReclaim /\ doomed = {} /\ swept = FALSE
    /\ faults = 0 /\ cuts = 0 /\ starts = 0 /\ mixed = FALSE

\* A handle is opened: by a new process, or by the next operation of this one.
Open ==
    /\ Quiet /\ (up => <<ScannedIdx, ScannedNext>> # <<idx, next>>)
    /\ up' = TRUE /\ idx' = ScannedIdx /\ next' = ScannedNext /\ swept' = FALSE
    /\ UNCHANGED <<cloud, toc, starts, objs, torn, w, placed, rec, doomed, faults, cuts, mixed>>

\* Positions a placement names although the archive's footer is gone from it.
StalePositions(b) ==
    IF placed[b] = <<>> THEN {}
    ELSE IF Readable(Last(placed[b]), b, Footer) THEN {} ELSE Range(placed[b])

\* A writer takes an archive the catalog does not place here yet.
MayStart(a) ==
    /\ up /\ doomed = {} /\ w[a].st = "idle" /\ placed[a] = <<>> /\ rec.ar # a
    /\ starts < MaxStarts

File(a, h) == Key(w[a].pos, a, Kinds[w[a].k], h)

\* The index with an entry for a position.
Indexed(p, e) == [q \in DOMAIN idx \cup {p} |-> IF q = p THEN e ELSE idx[q]]

IndexedLater(a) == idx      \* a mutant: no reservation

\* The index with the next position reserved: an entry of the run, no keys yet.
Reserved(a) == Indexed(next, [run |-> RunOf[a], pay |-> NoKey, hdr |-> NoKey])

\* What Store.Writer leaves at once: a directory's file exists from the open, a
\* bucket's object only from the close.
OnOpen(key) == IF cloud THEN {} ELSE {key}

\* AppendFile, for an archive's first or next file: take the next position,
\* reserve it in the index, open the payload.
AppendFile(a) ==
    /\ MayStart(a) \/ w[a].st = "append"
    /\ next <= MaxPos /\ starts' = starts + (IF w[a].st = "idle" THEN 1 ELSE 0)
    /\ next' = next + 1
    /\ idx' = Reserved(a)
    /\ w' = [w EXCEPT ![a].st = "payload", ![a].k = @ + 1, ![a].pos = next]
    /\ objs' = objs \cup OnOpen(Key(next, a, Kinds[w[a].k + 1], "payload"))
    /\ swept' = FALSE
    /\ mixed' = (mixed \/ \E b \in Archives \ {a} : next \in StalePositions(b))
    /\ UNCHANGED <<cloud, toc, torn, up, placed, rec, doomed, faults, cuts>>

\* fileWriter.Close, first half: the payload is committed and the sidecar begun.
Close(a) ==
    /\ w[a].st = "payload"
    /\ objs' = objs \cup {File(a, "payload")} \cup OnOpen(File(a, "hdr"))
    /\ torn' = torn \cup OnOpen(File(a, "hdr"))
    /\ w' = [w EXCEPT ![a].st = "header"]
    /\ swept' = FALSE
    /\ UNCHANGED <<cloud, toc, starts, up, next, idx, placed, rec, doomed, faults, cuts, mixed>>

\* fileWriter.Close, second half: the sidecar is whole and the position indexed.
\* The archive's next file follows, or its Record.
Sidecar(a) ==
    /\ w[a].st = "header"
    /\ objs' = objs \cup {File(a, "hdr")}
    /\ torn' = torn \ {File(a, "hdr")}
    /\ idx' = Indexed(w[a].pos, [run |-> RunOf[a], pay |-> File(a, "payload"),
                                 hdr |-> File(a, "hdr")])
    /\ w' = [w EXCEPT ![a].got = Append(@, w[a].pos),
                      ![a].st = IF w[a].k = Len(Kinds) THEN "done" ELSE "append",
                      ![a].pos = 0]
    /\ toc' = IF w[a].k = Len(Kinds) THEN [toc EXCEPT ![a] = Append(w[a].got, w[a].pos)]
              ELSE toc
    /\ swept' = FALSE
    /\ UNCHANGED <<cloud, starts, up, next, placed, rec, doomed, faults, cuts, mixed>>

\* Recorder.Record: the archive enters the catalog.
Record(a) ==
    /\ w[a].st = "done"
    /\ placed' = [placed EXCEPT ![a] = w[a].got]
    /\ w' = [w EXCEPT ![a] = Idle]
    /\ UNCHANGED <<cloud, toc, starts, objs, torn, up, next, idx, rec, doomed, swept,
                   faults, cuts, mixed>>

\* The append is cancelled or fails: the reservation goes, and the archive with
\* it.  What a directory already stored stays; a bucket abandons the upload.
Abort(a) ==
    /\ w[a].st \in {"payload", "header"} /\ faults < MaxFaults
    /\ faults' = faults + 1
    /\ idx' = [p \in DOMAIN idx \ {w[a].pos} |-> idx[p]]
    /\ w' = [w EXCEPT ![a] = Idle]
    /\ UNCHANGED <<cloud, toc, starts, objs, torn, up, next, placed, rec, doomed, swept,
                   cuts, mixed>>

-----------------------------------------------------------------------------
\* Removal.

\* Store.RemoveTree: every stored key of the run.
RemoveTree(run) == {o \in objs : RunOf[o.ar] = run}

\* RemoveFile: both artifacts, the index entry, and the run's whole subtree
\* when the index holds nothing else of the run.
RemovedBy(p) ==
    LET e == idx[p]
        lone == \A q \in DOMAIN idx \ {p} : idx[q].run # e.run
    IN  IF lone THEN RemoveTree(e.run)
        ELSE objs \cap {e.pay, e.hdr}
RemoveFile(p) ==
    IF p \in DOMAIN idx
    THEN /\ objs' = objs \ RemovedBy(p)
         /\ torn' = torn \ RemovedBy(p)
         /\ idx' = [q \in DOMAIN idx \ {p} |-> idx[q]]
    ELSE UNCHANGED <<objs, torn, idx>>

\* archivePosFiles: the footer first, then the member index, then the parts.
RemovalOrder(posns) == Reverse(posns)

\* Session.ReclaimAt begins: a drained archive, an expired one, or the copy a
\* forced re-copy replaces.
StartReclaim(a) ==
    /\ up /\ rec = NoReclaim /\ doomed = {} /\ placed[a] # <<>>
    /\ rec' = [ar |-> a, rest |-> RemovalOrder(placed[a])]
    /\ UNCHANGED <<cloud, toc, starts, objs, torn, up, next, idx, w, placed, doomed, swept,
                   faults, cuts, mixed>>

ReclaimFile ==
    /\ rec.rest # <<>>
    /\ RemoveFile(Head(rec.rest))
    /\ rec' = [rec EXCEPT !.rest = Tail(@)]
    /\ swept' = FALSE
    /\ UNCHANGED <<cloud, toc, starts, up, next, w, placed, doomed, faults, cuts, mixed>>

\* Its last step: the catalog drops the placement.
Unplace ==
    /\ rec.ar # None /\ rec.rest = <<>>
    /\ placed' = [placed EXCEPT ![rec.ar] = <<>>]
    /\ rec' = NoReclaim /\ swept' = FALSE
    /\ UNCHANGED <<cloud, toc, starts, objs, torn, up, next, idx, w, doomed, faults,
                   cuts, mixed>>

\* The store refuses a delete: ReclaimAt returns, the placement stays.
ReclaimFails ==
    /\ rec.rest # <<>> /\ cuts < MaxCuts
    /\ cuts' = cuts + 1
    /\ rec' = NoReclaim
    /\ UNCHANGED <<cloud, toc, starts, objs, torn, up, next, idx, w, placed, doomed, swept,
                   faults, mixed>>

\* sweepOrphans: under the workdir lock no writer is at work.  The orphans are
\* judged once, then removed one by one.
StartSweep ==
    /\ up /\ Quiet /\ ~swept
    /\ doomed' = OrphanFiles(KnownPositions) \cup IncompleteFiles
    /\ swept' = TRUE
    /\ UNCHANGED <<cloud, toc, starts, objs, torn, up, next, idx, w, placed, rec, faults,
                   cuts, mixed>>

SweepFile ==
    /\ doomed # {}
    /\ RemoveFile(Min(doomed))
    /\ doomed' = doomed \ {Min(doomed)}
    /\ UNCHANGED <<cloud, toc, starts, up, next, w, placed, rec, swept, faults, cuts, mixed>>

\* Footers of copies the sweep is taking: superseded by a later copy it sighted.
DoomedFooters == {p \in doomed : \E a \in Archives : Readable(p, a, Footer)}

\* The store refuses a delete: the sweep warns, leaves the file, and goes on.
SweepRefused ==
    /\ doomed # {} /\ faults < MaxFaults
    /\ faults' = faults + 1
    /\ doomed' = doomed \ {Min(doomed)} /\ swept' = FALSE
    /\ mixed' = (mixed \/ Min(doomed) \in DoomedFooters)
    /\ UNCHANGED <<cloud, toc, starts, objs, torn, up, next, idx, w, placed, rec, cuts>>

-----------------------------------------------------------------------------
\* Faults, and the catalog's own.

\* The process dies.  A reclaim it was in is cut short; the file being removed
\* may have lost its payload only.
Crash ==
    /\ up /\ faults < MaxFaults
    /\ rec # NoReclaim => cuts < MaxCuts
    /\ cuts' = IF rec # NoReclaim THEN cuts + 1 ELSE cuts
    /\ faults' = faults + 1 /\ up' = FALSE /\ next' = 0 /\ idx' = <<>>
    /\ \E lost \in {{}} \cup
          {{idx[p].pay} : p \in DOMAIN idx \cap
                (IF rec.rest # <<>> THEN {Head(rec.rest)}
                 ELSE IF doomed # {} THEN {Min(doomed)} ELSE {})} :
         objs' = objs \ lost
    /\ w' = [a \in Archives |-> Idle] /\ rec' = NoReclaim /\ doomed' = {}
    /\ swept' = FALSE /\ mixed' = (mixed \/ DoomedFooters # {})
    /\ UNCHANGED <<cloud, toc, starts, torn, placed>>

\* The catalog cache is deleted, or never knew of this medium.
LoseCatalog ==
    /\ Quiet /\ faults < MaxFaults /\ placed # [a \in Archives |-> <<>>]
    /\ faults' = faults + 1
    /\ placed' = [a \in Archives |-> <<>>]
    /\ swept' = FALSE
    /\ UNCHANGED <<cloud, toc, starts, objs, torn, up, next, idx, w, rec, doomed, cuts, mixed>>

\* Rebuild of this unlabelled medium: every archive with a footer is recorded
\* where the scan sighted it, missing files named by the footer's own map.  An
\* additive rebuild keeps what it did not see, a full one forgets it.
Rebuild(full) ==
    LET files == FilesExcept({})
        seen(a) == Sighted(files, a, Footer) # {}
        at(a, i) == IF Sighted(files, a, Kinds[i]) # {}
                    THEN Located(files, a, Kinds[i]) ELSE toc[a][i]
    IN  /\ up /\ Quiet
        /\ placed' = [a \in Archives |->
                        IF seen(a) THEN [i \in DOMAIN Kinds |-> at(a, i)]
                        ELSE IF full THEN <<>> ELSE placed[a]]
        /\ placed' # placed
        /\ swept' = FALSE
        /\ UNCHANGED <<cloud, toc, starts, objs, torn, up, next, idx, w, rec, doomed,
                       faults, cuts, mixed>>

Next ==
    \/ Open \/ ReclaimFile \/ Unplace \/ ReclaimFails
    \/ StartSweep \/ SweepFile \/ SweepRefused \/ Crash \/ LoseCatalog
    \/ \E full \in BOOLEAN : Rebuild(full)
    \/ \E a \in Archives :
         \/ AppendFile(a) \/ Close(a) \/ Sidecar(a)
         \/ Record(a) \/ Abort(a) \/ StartReclaim(a)

Spec == Init /\ [][Next]_vars

-----------------------------------------------------------------------------
\* Properties.

\* A position holds one file: two appends in flight, a crash and a new handle,
\* a sweep and a rescan never hand the same number to two files that are both
\* on the medium.
OneFilePerPosition ==
    \A o1, o2 \in objs : o1.pos = o2.pos => o1.ar = o2.ar /\ o1.kind = o2.kind

\* A removal that judges a run's directory empty never takes the files of an
\* append in flight in it: what the writer has stored is still there.
AppendsSurviveRemovals ==
    mixed \/ \A a \in Archives :
      /\ w[a].st \in {"header"} \/ (w[a].st = "payload" /\ ~cloud)
            => File(a, "payload") \in objs
      /\ w[a].st # "idle" =>
            \A i \in DOMAIN w[a].got : Readable(w[a].got[i], a, Kinds[i])

\* The commit footer is written last and removed first, so whatever crashes,
\* aborts, sweeps and lost catalogs come between, an archive whose footer is on
\* the medium is whole, and a rebuild resurrects nothing that is partly gone.
\* (Unless a position a stale placement names was reused: a reclaim deletes by
\* recorded position and compares no header; or unless a sweep left behind the
\* footer of a copy it was taking, FooterFirst below.)
FooterMeansWhole == mixed \/ \A a \in Archives : Committed(a) => Whole(a)

\* "The footer-first invariant" of archivefs/compose.go: no removal leaves a footer
\* whose parts are gone, which a rebuild would bring back as a committed archive.
\* The orphan sweep removes in ascending order, the footer of a copy last.
FooterFirst == \A a \in Archives : Committed(a) => Whole(a)

\* An archive the catalog places here can be read where it says, but for a
\* removal that is under way or was cut short.
PlacedIsReadable ==
    \A a \in Archives :
      placed[a] # <<>> /\ rec.ar # a /\ cuts = 0 /\ ~mixed =>
        \A i \in DOMAIN Kinds : Readable(placed[a][i], a, Kinds[i])

\* The orphan sweep judges from the medium, and a reclaim deletes by recorded
\* position: whatever the catalog knows, lost or never knew, neither removes a
\* file that another archive with its footer on the medium needs.
RemovalsSpareCommitted ==
    [][~mixed /\ up' => \A a \in Archives \ {rec.ar} :
                           Committed(a) => (Committed(a) /\ Whole(a))']_vars

\* A sweep leaves no crash debris: what is left on the medium is a file of a
\* committed archive or of one the catalog places, a file whose header does not
\* parse (neither source of the sweep reports it), or the partial of an append
\* this very handle dropped (the next handle's scan lists it).
SweepLeavesNoDebris ==
    swept /\ doomed = {} /\ ~mixed => \A o \in objs :
                \/ Committed(o.ar) \/ placed[o.ar] # <<>> \/ o.pos \in KnownPositions
                \/ \E t \in torn : t.pos = o.pos
                \/ o.pos \notin DOMAIN idx

\* All of it: one file per position, appends in flight survive removals, a footer on the
\* medium means a whole archive, a placement can be read where it says, and a sweep leaves
\* no debris.
StoreIsWhole ==
    /\ TypeOK /\ OneFilePerPosition /\ AppendsSurviveRemovals /\ FooterMeansWhole
    /\ PlacedIsReadable /\ SweepLeavesNoDebris
=============================================================================
