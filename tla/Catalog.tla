------------------------------ MODULE Catalog ------------------------------
(***************************************************************************)
(* The catalog: runs and what they advertise, a placement per medium, the   *)
(* registry of labeled volumes with the fill charged to each, the ledger of *)
(* bytes per medium; and the scan that rebuilds it from the media.          *)
(*                                                                         *)
(* One labeled medium and one address-identified one.  An archive is        *)
(* <<run, dle>> and takes two units of data, in one part or two; a label, a *)
(* commit footer and a member index take one unit each.  Commands exclude   *)
(* each other (the workdir lock); each persists as it goes and may die      *)
(* between any two steps.  An archive's files are written to tape once:     *)
(* second attempts are TapeRotation's.                                      *)
(***************************************************************************)
EXTENDS Integers, Sequences, FiniteSets, TLC, FiniteSetsExt, SequencesExt

CONSTANTS Backups, Reels, Names, Tape, Disk,
          Landing,     \* the medium an empty cache is filled from
          Layouts,     \* the reels of the parts, of index and footer, and whether there is a part map
          MaxWrites, MaxLabels, MaxScans, MaxLosses   \* bounds

Media == {Tape, Disk}
NoRef == <<"", 0>>
NoFiles == {}
NoCommand == [st |-> "idle"]
Empty == [adv |-> {}, placed |-> [m \in Media |-> {}], vols |-> <<>>]

CatalogAssumption ==
    /\ Tape # Disk /\ Landing \in Media /\ Reels \subseteq Nat
    /\ IsFiniteSet(Backups) /\ IsFiniteSet(Reels) /\ "" \notin Names
    /\ Layouts \subseteq [parts : Seq(Reels) \ {<<>>}, tail : Reels, toc : BOOLEAN]

VARIABLES reels,    \* each reel's label, epoch and files
          disk,     \* the archives whose files are on the disk medium
          cat,      \* the catalog, in memory and on disk alike between two steps
          loaded,   \* the cache file exists
          ledger,   \* the last sample of each medium ever sampled
          lag,      \* the last append to the ledger did not happen
          cmd,      \* a relabel in progress
          writes, labels, scans, losses

catalogVars == <<reels, disk, cat, loaded, ledger, lag, cmd, writes, labels, scans, losses>>

Of(S, a) == {pa \in S : pa.arch = a}
Held(c, m) == {pa.arch : pa \in c.placed[m]}
HeldRuns(c) == {pa.arch[1] : pa \in c.placed[Tape] \cup c.placed[Disk]}
Refs(pa) == Range(pa.parts) \cup ({pa.commit, pa.index} \ {NoRef})
OnLabel(pa, name) == \E ref \in Refs(pa) : ref[1] = name

-----------------------------------------------------------------------------
\* The fill of labeled volumes.

LabelCharge == 1
Cardinal(s, P(_)) == Cardinality({i \in DOMAIN s : P(s[i])})

\* chargeFill: exact for a sealed archive, whole on its first label otherwise.
ChargeOf(pa, name) ==
    LET on(ref) == ref[1] = name
    IN  (IF pa.sealed THEN Cardinal(pa.parts, on) * (2 \div Len(pa.parts))
         ELSE IF pa.parts # <<>> /\ on(Head(pa.parts)) THEN 2 ELSE 0)
        + (IF on(pa.commit) THEN 1 ELSE 0) + (IF on(pa.index) THEN 1 ELSE 0)
Charged(S, name) == MapThenSumSet(LAMBDA pa : ChargeOf(pa, name), S)

\* settleFill: only registered volumes, and never below zero.
SettledFill(vols, delta) ==
    [n \in DOMAIN vols |-> [vols[n] EXCEPT !.used = Max({0, @ + delta[n]})]]
Delta(S, sign) == [n \in Names |-> sign * Charged(S, n)]

-----------------------------------------------------------------------------
\* The store's mutators, as functions of the catalog.

NoRefund(old) == Delta({}, 1)      \* a mutant
Refund(old) == Delta(old, -1)
AddArchive(c, m, pa) ==
    LET old == Of(c.placed[m], pa.arch)
        moved == [n \in Names |-> Refund(old)[n] + ChargeOf(pa, n)]
    IN  [adv |-> c.adv \cup {pa.arch},
         placed |-> [c.placed EXCEPT ![m] = (@ \ old) \cup {pa}],
         vols |-> SettledFill(c.vols, moved)]

\* An entry whose last placement went, goes.
WithoutEmptyRuns(c) == [c EXCEPT !.adv = {a \in @ : a[1] \in HeldRuns(c)}]

Without(c, m, S) == [c EXCEPT !.placed[m] = @ \ S, !.vols = SettledFill(@, Delta(S, -1))]

RemovePlacement(c, run, m) ==
    WithoutEmptyRuns(Without(c, m, {pa \in c.placed[m] : pa.arch[1] = run}))

DropUnheld(c, m, a) ==
    [c EXCEPT !.adv = IF \E x \in Media : a \in Held(c, x) THEN @ ELSE @ \ {a}]
RemoveArchive(c, m, a) ==
    WithoutEmptyRuns(DropUnheld(Without(c, m, Of(c.placed[m], a)), m, a))

\* upsertVolume: the fill survives a re-record, restarts with a new epoch, and
\* catches up on what placements already charge to a label seen first now.
RetroFill(c, name) == Charged(c.placed[Tape], name)
RecordVolume(c, name, epoch) ==
    LET used == IF name \notin DOMAIN c.vols THEN LabelCharge + RetroFill(c, name)
                ELSE IF c.vols[name].epoch = epoch THEN c.vols[name].used ELSE LabelCharge
        rec == [epoch |-> epoch, used |-> used]
    IN  [c EXCEPT !.vols = [n \in DOMAIN @ \cup {name} |-> IF n = name THEN rec ELSE @[n]]]

RemoveVolume(c, name) ==
    [c EXCEPT !.vols = [n \in DOMAIN @ \ {name} |-> @[n]]]

\* dropStaleOn: records of the label at another epoch are of a wiped reel.
DropStaleOn(c, name, epoch) ==
    WithoutEmptyRuns(Without(c, Tape,
        {pa \in c.placed[Tape] : \E ref \in Refs(pa) : ref[1] = name /\ ref[2] # epoch}))

-----------------------------------------------------------------------------
\* The scan.

RefOf(r) == <<reels[r].name, reels[r].epoch>>
CommitsOn(S) == UNION {{f \in reels[r].files : f.kind = "commit"} : r \in S}
FooterOn(S, f) == CHOOSE r \in S : f \in reels[r].files
SightedOn(S, f) == {r \in S : f \in reels[r].files}

\* A part of an archive: where it was sighted, or else where its footer says.
LocatedPart(S, f, i) ==
    LET seen == SightedOn(S, [kind |-> "part", arch |-> f.arch, i |-> i])
    IN  IF seen # {} THEN RefOf(Max(seen)) ELSE IF f.map # <<>> THEN f.map[i] ELSE NoRef

Assembled(S, f) ==
    LET gathered[i \in 0 .. f.n] ==
            IF i = 0 THEN <<>>
            ELSE IF LocatedPart(S, f, i) = NoRef THEN gathered[i - 1]
            ELSE Append(gathered[i - 1], LocatedPart(S, f, i))
        parts == gathered[f.n]
        index == SightedOn(S, [kind |-> "index", arch |-> f.arch])
    IN  [arch |-> f.arch, parts |-> parts, sealed |-> Len(parts) = f.n,
         commit |-> RefOf(FooterOn(S, f)),
         index |-> IF index # {} THEN RefOf(Max(index)) ELSE f.index]

OnDisk(a) == [arch |-> a, parts |-> <<NoRef>>, sealed |-> TRUE, commit |-> NoRef, index |-> NoRef]

\* One medium's scan, absorbed: stale records first, then labels, then archives.
DropStale(c, S) ==
    FoldSet(LAMBDA r, d : DropStaleOn(d, reels[r].name, reels[r].epoch), c, S)
RecordLabels(c, S) ==
    FoldSet(LAMBDA r, d : RecordVolume(d, reels[r].name, reels[r].epoch), c, S)
RecordArchives(c, S) ==
    FoldSet(LAMBDA f, d : AddArchive(d, Tape, Assembled(S, f)), c, CommitsOn(S))
Absorb(c, S) == RecordArchives(RecordLabels(c, S), S)
ScanTape(c, S) == Absorb(DropStale(c, S), S)
ScanDisk(c) == FoldSet(LAMBDA a, d : AddArchive(d, Disk, OnDisk(a)), c, disk)
Rebuilt(c, S) == ScanDisk(ScanTape(c, S))

-----------------------------------------------------------------------------
\* The usage ledger.

Totals(c) == [m \in Media |-> 2 * Cardinality(c.placed[m])]
Sampled(c) == {m \in Media : c.placed[m] # {}} \cup DOMAIN ledger

\* persist, and recordUsage's best-effort append of every medium that changed.
Persist(c) ==
    /\ cat' = c /\ loaded' = TRUE
    /\ \/ /\ ledger' = [m \in Sampled(c) \cup DOMAIN ledger |->
                           IF m \in Sampled(c) THEN Totals(c)[m] ELSE ledger[m]]
          /\ lag' = FALSE /\ UNCHANGED losses
       \/ /\ losses < MaxLosses /\ losses' = losses + 1
          /\ lag' = TRUE /\ UNCHANGED ledger

-----------------------------------------------------------------------------
CatalogInit ==
    /\ reels = [r \in Reels |-> [name |-> "", epoch |-> 0, files |-> NoFiles]]
    /\ disk = {} /\ cat = Empty /\ loaded = FALSE
    /\ ledger = <<>> /\ lag = FALSE /\ cmd = NoCommand
    /\ writes = 0 /\ labels = 0 /\ scans = 0 /\ losses = 0

\* Every command opens the landing, which fills a lost cache from it.
Ready == loaded /\ cmd = NoCommand

EnsureFresh(S) ==
    /\ ~loaded /\ cmd = NoCommand
    /\ LET c == IF Landing = Tape THEN Absorb(cat, S) ELSE ScanDisk(cat)
       IN  IF c = Empty THEN cat' = c /\ loaded' = TRUE /\ UNCHANGED <<ledger, lag, losses>>
           ELSE Persist(c)
    /\ UNCHANGED <<reels, disk, cmd, writes, labels, scans>>

\* One archive's files, in order; how many of them land before a crash, if any.
Files(a, l, map) ==
    [i \in 1 .. Len(l.parts) |-> <<l.parts[i], [kind |-> "part", arch |-> a, i |-> i]>>]
    \o << <<l.tail, [kind |-> "index", arch |-> a]>>,
          <<l.tail, [kind |-> "commit", arch |-> a, n |-> Len(l.parts), map |-> map,
                     index |-> IF map = <<>> THEN NoRef ELSE RefOf(l.tail)]>> >>
Unwritten(a) == \A r \in Reels : \A f \in reels[r].files : f.arch # a
Written(files, k) ==
    [r \in Reels |-> [reels[r] EXCEPT !.files = @ \cup
        {files[i][2] : i \in {j \in 1 .. k : files[j][1] = r}}]]

\* A dump or copy to tape; footers of older versions carry no map.
WriteTape(a, l) ==
    /\ Ready /\ writes < MaxWrites /\ Unwritten(a)
    /\ \A r \in Range(l.parts) \cup {l.tail} :
         reels[r].name \in DOMAIN cat.vols /\ cat.vols[reels[r].name].epoch = reels[r].epoch
    /\ LET refs == [i \in DOMAIN l.parts |-> RefOf(l.parts[i])]
           files == Files(a, l, IF l.toc THEN refs ELSE <<>>)
           pa == [arch |-> a, parts |-> refs, sealed |-> TRUE,
                  commit |-> RefOf(l.tail), index |-> RefOf(l.tail)]
       IN  \/ /\ reels' = Written(files, Len(files))
              /\ Persist(AddArchive(cat, Tape, pa))
           \/ /\ losses < MaxLosses /\ losses' = losses + 1
              /\ \E k \in 1 .. Len(files) : reels' = Written(files, k)
              /\ UNCHANGED <<cat, loaded, ledger, lag>>
    /\ writes' = writes + 1
    /\ UNCHANGED <<disk, cmd, labels, scans>>

WriteDisk(a) ==
    /\ Ready /\ writes < MaxWrites /\ a \notin disk
    /\ disk' = disk \cup {a}
    /\ Persist(AddArchive(cat, Disk, OnDisk(a)))
    /\ writes' = writes + 1
    /\ UNCHANGED <<reels, cmd, labels, scans>>

Prune(a) ==
    /\ Ready /\ a \in Held(cat, Disk)
    /\ disk' = disk \ {a}
    /\ Persist(RemoveArchive(cat, Disk, a))
    /\ UNCHANGED <<reels, cmd, writes, labels, scans>>

\* nb label, or a recycle: the reel is wiped and labeled, then the catalog follows.
WriteLabel(r, name) ==
    /\ Ready /\ labels < MaxLabels
    /\ name \in DOMAIN cat.vols => name = reels[r].name
    /\ \A q \in Reels \ {r} : reels[q].name # name
    /\ reels' = [reels EXCEPT ![r] = [name |-> name, epoch |-> @.epoch + 1, files |-> NoFiles]]
    /\ labels' = labels + 1
    /\ LET wiped == reels[r].name
       IN  cmd' = [st |-> IF wiped = "" THEN "record" ELSE "drop", wiped |-> wiped, r |-> r]
    /\ UNCHANGED <<disk, cat, loaded, ledger, lag, writes, scans, losses>>

RunsOnLabel(c, name) == {pa.arch[1] : pa \in {q \in c.placed[Tape] : OnLabel(q, name)}}

\* reconcileRelabel, one persisted mutation at a time.
DropPlacement ==
    /\ cmd.st = "drop"
    /\ LET runs == RunsOnLabel(cat, cmd.wiped)
       IN  IF runs = {}
           THEN /\ cmd' = [cmd EXCEPT !.st = IF cmd.wiped = reels[cmd.r].name THEN "record" ELSE "forget"]
                /\ UNCHANGED <<cat, loaded, ledger, lag, losses>>
           ELSE Persist(RemovePlacement(cat, Min(runs), Tape)) /\ UNCHANGED cmd
    /\ UNCHANGED <<reels, disk, writes, labels, scans>>

ForgetVolume ==
    /\ cmd.st = "forget"
    /\ Persist(RemoveVolume(cat, cmd.wiped))
    /\ cmd' = [cmd EXCEPT !.st = "record"]
    /\ UNCHANGED <<reels, disk, writes, labels, scans>>

Register ==
    /\ cmd.st = "record"
    /\ Persist(RecordVolume(cat, reels[cmd.r].name, reels[cmd.r].epoch))
    /\ cmd' = NoCommand
    /\ UNCHANGED <<reels, disk, writes, labels, scans>>

\* nb rebuild of the reels within reach; full forgets everything first.
RebuildFrom(S, full) ==
    /\ Ready /\ scans < MaxScans /\ scans' = scans + 1
    /\ Persist(Rebuilt(IF full THEN Empty ELSE cat, S))
    /\ UNCHANGED <<reels, disk, cmd, writes, labels>>

\* The process dies, or the cache file is lost with the workdir's disk.
CommandDies ==
    /\ cmd # NoCommand /\ losses < MaxLosses /\ losses' = losses + 1
    /\ cmd' = NoCommand
    /\ UNCHANGED <<reels, disk, cat, loaded, ledger, lag, writes, labels, scans>>

LoseCache ==
    /\ Ready /\ cat # Empty /\ losses < MaxLosses /\ losses' = losses + 1
    /\ cat' = Empty /\ loaded' = FALSE /\ lag' = TRUE
    /\ UNCHANGED <<reels, disk, ledger, cmd, writes, labels, scans>>

Labeled == {r \in Reels : reels[r].name # ""}

CatalogNext ==
    \/ \E S \in SUBSET Labeled : EnsureFresh(S) \/ \E full \in BOOLEAN : RebuildFrom(S, full)
    \/ \E a \in Backups : \/ \E l \in Layouts : WriteTape(a, l)
                           \/ WriteDisk(a) \/ Prune(a)
    \/ \E r \in Reels, name \in Names : WriteLabel(r, name)
    \/ DropPlacement \/ ForgetVolume \/ Register \/ CommandDies \/ LoseCache

CatalogSpec == CatalogInit /\ [][CatalogNext]_catalogVars

-----------------------------------------------------------------------------
\* Properties.

\* What a copy holds its run advertises, and no run outlives its last copy.
HeldIsAdvertised ==
    /\ Held(cat, Tape) \cup Held(cat, Disk) \subseteq cat.adv
    /\ \A a \in cat.adv : a[1] \in HeldRuns(cat)

\* The stored fill of a volume is its label and what every placement charges to
\* it, through re-records, pruned spans, reels learned of before they are seen,
\* relabelings cut short, lost caches and rebuilds.
FillIsCharged ==
    \A n \in DOMAIN cat.vols : cat.vols[n].used = LabelCharge + Charged(cat.placed[Tape], n)

\* "Feed tapes one at a time": whatever the catalog was, and in whatever order, the
\* reels fed one by one give what one scan of them all gives, fill included.
\* (Excepted: footers without a map, or with one that names a wiped reel, and
\* placements on a name a renaming cut short left behind; only a full scan ends those.)
LiveRef(ref) == \E r \in Labeled : RefOf(r) = ref
Mapped(f) == f.map # <<>> /\ \A ref \in Range(f.map) \cup {f.index} : LiveRef(ref)
Ghosts == \E pa \in cat.placed[Tape] : \E ref \in Refs(pa) :
              \A r \in Reels : reels[r].name # ref[1]
FeedingConverges ==
    (\A f \in CommitsOn(Reels) : Mapped(f)) =>
      LET whole == ScanTape(Empty, Labeled)
      IN  \A order \in SetToAllKPermutations(Labeled) : ToSet(order) = Labeled =>
            \A from \in {Empty} \cup (IF Ghosts THEN {} ELSE {cat}) :
              LET fed == FoldLeft(LAMBDA c, r : ScanTape(c, {r}), from, order)
              IN  /\ fed.placed[Tape] = whole.placed[Tape]
                  /\ \A n \in DOMAIN whole.vols : fed.vols[n] = whole.vols[n]

\* The ledger's last samples are what the media hold, as soon as an append goes
\* through again, also for a medium that was emptied meanwhile.
LedgerCatchesUp ==
    ~lag => \A m \in Media : IF m \in DOMAIN ledger THEN ledger[m] = Totals(cat)[m]
                             ELSE cat.placed[m] = {}
=============================================================================
