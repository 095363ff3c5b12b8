# nbackup in TLA+

A specification of [nbackup](https://github.com/Niloen/nbackup): what its Go code does between
planning a backup and reclaiming it, written as TLA+ modules that TLC checks on small instances
and that TLAPS proves theorems about for every instance. Every definition is a translation of
the source at one commit; `PROJECT.json` (`map`) names the lines each one stands for.

1. [The system](#1-the-system)
2. [What can go wrong](#2-what-can-go-wrong)
3. [The modules](#3-the-modules)
4. [The runs](#4-the-runs)
5. [Fairness and deadlock](#5-fairness-and-deadlock)
6. [What is proved](#6-what-is-proved)
7. [Where the code and its documents disagree](#7-where-the-code-and-its-documents-disagree)
8. [What is not modelled](#8-what-is-not-modelled)
9. [Plan](#9-plan)

## 1. The system

`nb` is one binary run from cron: there is no daemon, and a workdir lock (`internal/lock`) lets
one mutating command run at a time and dies with its process. The concurrency is inside a
command (goroutines of one run), the crash points are between any two of its effects, and the
state that survives is on media, in the catalog cache and in the archivers' snapshot libraries.

A **DLE** is a source to back up, a **run** is one `nb dump`, an **archive** is one DLE's image
in one run. An archive has a level (0 is a full) and, above 0, the run it is based on. A
**medium** is a named backup destination; a **landing** is a medium the run writes to; a
**route** is the landings a DLE goes to; a **holding disk** is a medium that stages archives on
their way to the landings.

| component | state it keeps | operations | correct when |
|---|---|---|---|
| holding pool `spool/pool.go` | per disk: bytes reserved, open writers; a round-robin hand; abort | `Acquire` (blocks), `Charge`, `Release`, `ReleaseWriter`, `Abort` | the ledger is exactly what is open and staged; a bounded disk has room for it; nobody sleeps through a release |
| spool `spool/spool.go`, `archiveio/tee.go` | lane permits, trips, drain sets, the staged copies | `Ingest`, the close hook, `drainTo`, `trip`, `reclaimStaged`, `ingestDirect`, `Drain` | permits are conserved; staged files outlive their readers; a run without error has every archive; the run ends |
| flush `conductor/flush.go`, `archivefs/compose.go` | none of its own: files and placements | `Flush`, `ReclaimAt` | after any crash no committed archive is lost, and leftovers move on |
| planner, scheduler `planner/`, `scheduler/` | none: functions of the history | `Build`, `promote`, `RefineBases` | an incremental's base is a run whose state it was dumped against; promotion balances without passing a deadline |
| dumper, archivers `dumper/`, `archiver/` | one live snapshot per level, a work snapshot per dump | seed, transfer, commit, promote | the snapshot advances only over a committed archive |
| conductor `conductor/` | the run id, the report | `Run`: flush, plan, make room, dump, seal | every stop leaves a state the next run continues from |
| catalog `catalog/` | runs, archives, placements per medium, volumes, force-full directives, samples | `RecordArchive`, `RemoveArchive`, `RemovePlacement`, `SetForceFull`, `History`, rebuild | it names what the media hold, and can be rebuilt from them |
| retention, reclamation `retention/`, `media/profile.go`, `accounting/prune.go` | none: functions of the catalog | `Compute`, `Reclaim`, `Prune`, `MakeRoom`, orphan sweep | a restore that was offered stays whole; the last full and the latest run stay |
| recovery, restorer `recovery/`, `restorer/` | a member tree per point in time | `Chain`, as-of, copy choice, decode | a chain is what the restore replays, or an error |
| librarian `librarian/` | mounted volumes, reservations shared by a run's drives | `Label`, `Advance`, `recycle`, `PrepareWrite`, spanning | a protected tape is never wiped; two drives never take one tape |
| archive I/O `archiveio/`, `archivefs/` | parts, seals, the commit footer | writer, reader, session | an archive exists from its footer on, whatever its parts span |
| media `media/` | files at positions, tape position, labels with epochs | append, remove, open, wipe, load | positions are never given twice; a wiped file is never read as a newer one |
| transfers `xfer/` | goroutines over pipes | frame and atom pipelines | a failure anywhere unblocks and reaps the rest (not so in one case, section 7), and nothing is committed |
| copy, sync, coverage `engine/copy.go`, `engine/sync.go`, `engine/coverage.go` | none: the catalog's backlog | copy an archive to another medium, say which are owed | it is recorded only when whole; what is said to be owed is what a sync carries |
| drill `engine/drill.go`, `drill/` | the ledger of what was drilled | select, verify, restore into scratch | a pass is true of the copy drilled; every copy's turn comes |
| accounting `accounting/` | none: functions of catalog and plan | capacity, forecasts, restore depth | a forecast is what the nights will meet |
| configuration `config/`, `engine/check.go` | none | validate, resolve, check | what is accepted can be run; what is checked holds in the run |
| progress `progress/` | the live status of a run, rates | reports of concurrent goroutines | the status tells the copies there are |
| report, notify, web, cli, mount, transforms, programs | presentation and wiring | | |

How they call each other in one `nb dump`: the *conductor* takes the lock and *flushes* the
holding disks (reading placements from the *catalog*, copying with *archivefs*, writing with the
*librarian* of each landing). It asks the *scheduler* and *planner* for a plan over the catalog's
*history* and the archivers' snapshots, makes room with *accounting* (which asks *retention* for
the floor and a medium's *profile* for what to delete), and starts the *dumper*: one goroutine
per archive, each of which calls the *spool*'s `Ingest`. The spool acquires a disk from the
*pool* or goes direct; *xfer* moves the bytes; *archiveio* cuts them into parts on a volume the
librarian mounts, and its commit records the archive in the catalog; the close hook launches a
drain goroutine per landing, and the last drain removes the staged copy. When the transfer is
committed the archiver *promotes* its work snapshot. The run is sealed and the force-full
directives it answered are consumed.

## 2. What can go wrong

`PROJECT.json` (`hazards`) lists the hazards at their lines with the properties that cover them;
those that no property covers say why. The groups:

- **threads of one run**: producers, close hooks and drains share the pool's budget, the lanes'
  permits and the drain sets; a release nobody hears, a permit returned twice, two direct writers
  leasing in opposite orders, files removed under a reader; a transfer's goroutines blocked on
  each other's pipes, or one that nothing closes; a status file told of one archive in two orders.
- **some landings fail**: a lane that trips is skipped by the rest of the run. Each archive then
  has a different set of copies, and every later command (flush, prune, plan, sync, restore)
  meets it.
- **crashes between two durable steps**: files and placement of a reclaim, archive and snapshot
  of a dump, label and catalog of a recycle, deletions of one prune, the archives of one copy.
- **two records of one fact**: the catalog's base run and the host's snapshot; the catalog and
  what the media hold; what a run advertises and what the placements hold; coverage and backlog.
- **floors judged per medium, chains that cross media**: what each medium may delete is computed
  from that medium's own archives.
- **names that outlive what they name**: a position, a reel's label, a snapshot level or a
  placement read after a wipe, a rebuild or a carve.

## 3. The modules

```
 StagedArchives <-- implements -- Spool -- INSTANCE --> HoldingPool (both EXTEND Budgets)
 LandingSide: HoldingPool alone, or under Spool
 StagedArchives <-- implements -- HoldingRecovery --.
                              Chains <-- DumpCycle -+- MCDurability
                              Chains <-- Snapshots -'

 Chains <-- DumpCycle --.                 Transfers --------------.
         TapeDrive -----+- Bookkeeping    ReadPath <-- Restoring  +- DataFlows
      Calculations -----'                    <-- Drilling --------'

 FileStore, Catalog, Status -- VolumeLayer         TapeRotation      Chains <-- Vaulting

 RangedRead, Selecting, Scheduling, Sources, Forecasting, Metering, Settings <-- Readiness
    -- Calculations
```

A **host** module (`DataFlows`, `Bookkeeping`, `VolumeLayer`, `MCDurability`, `LandingSide`)
checks several machines in one run; one of them, `Calculations`, reads families of inputs. `which`
picks one in the initial state and it stays; the variables of the others are `Off`. The host
instantiates each with constants of its own and states the properties part by part, each part
defined in the machine's own module. Some machines are extended, not instantiated (`TapeDrive` by
`Bookkeeping`, all three by `VolumeLayer` and by `MCDurability`, both machines by `DataFlows`,
`HoldingPool` by `LandingSide`): such a machine waits in an initial state while another runs, and
its properties are checked as they stand, which are the ones its theorems are about. Nothing is
composed by a host that the code composes otherwise: its machines share no state, only the names
of variables. `LandingSide` is the exception: its spool runs over the pool's own variables, disks
and archives, so that the pool's invariants are checked of the budget alone and of the budget that
the lanes drive. It has no `which`: the archives that ask tell the instance, the others are over
from the start.

### One run's threads

**HoldingPool** (`spool/pool.go`). State: `used`, `writing`, `cursor`, `aborted` are the fields
of `Disk` and `Pool`; `waiting` is the set of goroutines inside `cond.Wait`; `phase`, `disk`,
`staged`, `leftover` are where each archive is in the calls `spool.go` makes. **Budgets** declares
these variables, the disks and the archives' sizes for the pool and the spool. One action per
critical section of `Pool.mu`: `Acquire` is four actions, one for each way a pass of its loop
ends (a disk, direct, refused, wait), and the close hook's three calls are three actions with
drains running between them. A broadcast empties `waiting`.

**StagedArchives** is the abstract contract: an archive is staged or lands directly, landings
gain copies, the files go only when a landing has a copy, the placement after the files.

**Spool** (`spool/spool.go`, `archiveio/tee.go`) composes the lanes with
`Pool == INSTANCE HoldingPool`: every call on the pool is the pool's own action, conjoined with
what the spool changes. `pc` is where an archive's producer is in `ingest` or `ingestDirect`,
`drain[d][l]` where the drain goroutine of archive `d` on lane `l` is, `free` the permits in a
lane's channel, `remaining`/`landed` the fields of `drainSet`, `tripped`/`missing` the flag and
the record of a trip, which the code sets in two steps. Simplifications: a producer reads the
tripped flags of its route at one instant, and `setAbort`, which takes two mutexes in turn, is
one step. `Spool` implements `StagedArchives` (property `ImplementsStagedArchives`) and, seen
through the pool's variables, `HoldingPool` itself (`ImplementsPool`): what holds of every
behaviour of `HoldingPool` holds of the pool in every run of the spool.

**Transfers** (`xfer/`, `dumper/encode.go`) is one dump's bytes: the producer process, the
encoder (a filter beside it, or a child per frame or atom), the driver that cuts the stream into
parts, each an actor on bounded pipes, with faults in every zone and a cancellation. The sink
can fail at each call the driver makes on it; what an atomic transfer then waits for is
`WaitsOnProducer` (section 7).

**Status** (`progress/tracker.go`) is the tracker's rows and phases as dumpers, drains and the
conductor report to it in any order, beside what those really did. `routes` is the config's
landing lists (`array`), which the rows share, and how much of its list each row's route takes in
(`span`, a slice's length): `SkipLanding` filters every row's slice in place, in the shared list.
`lane[d][l]` is how the copy of one archive on one landing stands, `left` the drains still to
count.

### Over the nights

**HoldingRecovery** (`spool/spool.go`, `conductor/flush.go`, `archivefs/compose.go`) has staged
archives over any number of `nb dump`s with a crash possible at every step. What survives a crash
is `holding` (the staged files: parts and footer, parts only, gone), `staged` (their placement),
`sealed` (landings with a footer) and `recorded` (landings the catalog places the archive on);
what does not is `mode`, `stage`, each drain, `remaining`, `landed`, `tripped` and `aborted`. A
commit has two steps, the footer and the record; `ReclaimAt` has three, the footer, the parts and
the placement; a drain that leaves counts itself off and the last one settles the archive; a
flush visits the archives in order, one landing after the other, and returns at its first error.
Permits, budgets and the two steps of a trip are left to `Spool`. No action mentions
`StagedArchives`: what a reader finds of an archive is computed from that state (`StagedFiles`,
`LandingCopies`), and that every step is a step of the contract is a property
(`ImplementsStagedArchives`), which fails if a count is off by one, a reclaim removes in another
order or a flush is content with one landing too few.

**Chains** (`recovery/chain.go`, `retention/retention.go`, `media/profile.go`) holds pure
functions over the archives of one DLE: the chain a restore replays, what retention keeps of a
medium, and the next archive reclamation may delete.

**DumpCycle** (`planner/planner.go`, `scheduler/resolve.go`, `dumper/encode.go`,
`archiver/gnutar/snapshot.go`, `catalog/history.go`, `accounting/prune.go`) runs `Chains` over
the life of one DLE: plan, dump, commit, promote, seal, reset, prune and make-room, with
failures and crashes between the steps (`CycleInit`, `CycleNext`, and in `Snapshots` `tars` and
`backup` for `arch` and `plan`, are named apart so that a module can extend both and
`HoldingRecovery`). `arch[r]` records both the base the catalog wrote down
and `seed`, the run whose state the snapshot really held; the properties compare the two. What
depends on dates and sizes is left open: the model may do either.

**Snapshots** (`archiver/gnutar/`) is the same library seen from its contents: a DLE that is the
remainder of a partition, whose subtrees are carved out and folded back between dumps.

**Vaulting** (`engine/{copy,sync,coverage,posture}.go`, `accounting/prune.go`,
`media/profile.go`) is several media: dumps to routes, prunes, copies and syncs in steps, the
coverage judgment and the audit of copies. `adv` is what the runs advertise, `placed` what each
medium's placements hold, `cmd` the copy in progress; an archive counts one unit. A forced copy
reclaims the target's archives of the run one by one, and may fail between two of them.

**Restoring**, **Drilling**, **ReadPath** (`restorer/`, `engine/drill.go`, `archivefs/`,
`engine/verify.go`): a restore step by step, nightly drills with their ledger, and the reading
both rest on, over copies that are damaged, lost or keyless.

### What the media hold

**FileStore** (`media/fslike/`, `archiveio/writer.go`, `archivefs/compose.go`,
`accounting/prune.go`): positions given to concurrent appends, reclaims and the orphan sweep, on
a disk or a bucket. **TapeDrive** (`media/tape/`): the changer and the drives, robot or
emulated. **Catalog** (`catalog/`): runs, placements, volumes with their fill, the ledger, the
cache's loss and the scan that rebuilds it.

**TapeRotation** (`librarian/`, `archiveio/writer.go`, `catalog/catalog.go`, `catalog/scan.go`,
`media/tape/`) is a robotic, appendable tape library. `tape` is what is on the reels, `known`
and `placed` what the catalog says of them, `drive[i]` the state of one drive: the reel in it,
the `Allocator` (`started`, `tried`, `fill`) and the archive it is writing. `reserved` is the
set the drives of a run share. An archive is written part by part; the footer lists the parts
and may land on another reel than they do; only then does the catalog learn of it. Between the
files anything may happen: another drive's roll and recycle, a crash, and after it a relabeling
by hand or `nb rebuild`, which reads the reels in the order `WalkReadable` visits them.
Simplifications: a reel is named by its slot and keeps its label name; all archives are fulls of
one size, so a DLE's floor is its latest archive; the member index belongs to the footer; the
medium has no minimum age; flush and dump of one run are one queue.

### Answers computed

**RangedRead** and **Selecting** (reading members out of an archive, and files out of a chain),
**Scheduling** (the planner and its promotion), **Sources** (resolution, partitions, outages),
**Forecasting** (capacity, disk and tape), **Metering** (clocks and rates), **Settings** and
**Readiness** (what is accepted, and what `nb check` says of it). Each is a set of operators that
translates the code, a reference definition written from what the answer means, and a property
that compares them. `MCFamilies` has the families of inputs.

## 4. The runs

Twelve runs; the first column is the name in `PROJECT.json`. "V" marks a run that must find its
one property violated (section 7).

| run | instance | properties |
|---|---|---|
| `spool_staged` | 1 disk, 2 landings of one permit, 2 archives staged and fanned out to both | `PermitsConserved` `StagedOutlivesDrains` `CleanRunIsComplete` `RunEnds` `ImplementsStagedArchives` `ImplementsPool` |
| `landing_side` | 2 disks (4 bytes, one writer; 3 bytes, uncapped) and either 4 producers with no lanes, or the spool with 1 staged and 2 direct archives on opposite routes over two landings of one permit | `RunEnds`; `Ledger` `BudgetedBytesFit` `NoLostWakeup` `EveryDumpServed` |
| `durability` | 3 staged archives, one routed to both landings and one to each alone, 3 faults (crashes, and failures of landings, records and reclaims), any number of runs; a DLE on 1 landing, levels 0-3, 5 runs, 1 lost snapshot; a snapshot library with 1 carved subtree, levels 0-2, 3 archives, 3 changes | `NeverLost` `ImplementsStagedArchives` `StagedFilesMoveOn`; `RestoreIsWhole` `ReclaimsKeepChains`; `RestoresAreCurrent` |
| `vaulting` | 2 DLEs, two landings of 4 and a vault of 3, 3 runs, 1 failure, 1 copy or sync | `AdvertisedIsHeld` `CoverageIsTold` `CopiesKeepTheirPlan` `PruneSparesOwed` |
| `tape_rotation` | 3 reels of 3, 2 drives, 2 archives of 3 per run, 3 runs, 1 fault | `TypeOK` `LatestWhole` `FilesAreNamed` |
| `data_flows` | a transfer: 4 shapes, streams of 0 to 7, parts, frames and pipes of 2, 2 faults; a restore of 12 kinds, then drills of 5 tiers: 2 DLEs, 2 media, 1 fault | `TransferIsTrue` `TransferEnds`; `RestoreIsWhole` `DrillsAreHonest` `DrillsComeRound` |
| `bookkeeping` | a DLE on 2 landings (levels 0-2, 4 runs); 2 drives, 2 reels, 3 slots, 2 faults; streams of 4, chains of 3, calendars of a 4-day cycle, horizons of 3, and the families of `MCFamilies` | `LastFullStays`; `ReelsAreKept`; `ReadsAreExact` `PlansAreKept` `MetersAreTrue` `ConfigurationIsSound` |
| `volume_layer` | a store with 2 archives, 5 positions, 3 starts, 2 faults, 1 reclaim cut short; a run's status with 2 DLEs and 2 landings; a catalog of 2 reels and a disk, 4 layouts, 3 writes, 3 labels, 1 scan | `StoreIsWhole` `RemovalsSpareCommitted`; `StatusIsTrue` `DumpsStayEnded`; `CatalogIsTrue` |
| `dump_cycle_split` V | `DumpCycle` on 2 landings, 5 runs | `RestoreIsWhole` |
| `transfer_atomic` V | `Transfers`, atomic, streams of 0 to 6, parts, frames and pipes of 2, 1 fault | `SinkFaultsAreReported` |
| `tape_staged` V | 3 reels, 1 drive, 1 archive per run, 4 runs, 2 faults | `StagedUntilWhole` |
| `store_sweep` V | `FileStore` with 1 archive, 4 positions, 2 starts, 3 faults, no reclaim cut short | `FooterFirst` |

What the passing runs show:

- **The pool** counts exactly what is open and staged whatever way close hooks and drains
  interleave, and no producer sleeps while a disk could take it. Sizes are chosen so that two
  archives compete for the first disk, one only fits there and one fits neither; the writer cap
  of one makes `writing` the limit on one disk and bytes the limit on the other.
- **The spool**, with every point where a landing, a reclaim or the run may fail: permits come
  back once, files go after the last reader, a run that reports no error has every archive
  somewhere on its route and a warning for every landing it is missing on, and the run ends
  (`spool_staged` with staged archives, `landing_side` with direct ones beside them). Two landings
  with one permit each and opposite routes are the smallest instance in which leasing in route order would deadlock.
- **Recovery**: over any sequence of runs, crashes and flushes an archive that was committed
  stays readable from a copy that the catalog places, and what is staged moves on, unless one
  archive is wedged (section 7). Three faults are enough for a trip, a crash inside a reclaim
  and a failing flush in one behaviour. Live run, reclaims and flushes keep the contract of
  staging whatever step they stop at.
- **Vaulting**: what a run advertises some medium holds; what the display says a medium is owed
  is what its sync would carry; the copies audit is true and its remedy works; a copy that ends
  without an error delivered its plan, and within the capacity; retention does not take what a
  sync would bring back and the medium can replay, unless the DLE's latest run there restores
  from nowhere and so anchors nothing (section 7). A vault smaller than the landings makes room before it copies.
- **The tape library**: the latest archive of each DLE that the catalog places is on the reels
  in full; no roll wipes what another drive has written of an archive in hand; a placement that
  names a reel's current epoch names the file that is there. With reels as large as an archive
  every archive spans two (its footer at least), three reels are fewer than two runs need, so
  rotation recycles from the second run on, and drives may begin with any reels in them. The
  properties are about states no rebuild has been misled in (`misled`): what misleads one, and
  what follows, is the subject of `tape_staged`.
- **Transfers** commit only the whole stream cut at the store's part size, a lone fault is blamed
  on the zone it came from, and every transfer comes to its verdict, or to the one state in which
  it is known not to: an atomic dump whose sink failed, awaiting a producer on a full pipe that
  nothing reads or closes (`WaitsOnProducer`; `transfer_atomic` and section 7). `TransferEnds` says
  that this is the only one. Streams end within, at and past a part, a frame and a pipe.
- **Restores and drills**: success is the chain in order and whole, a quiet failure leaves
  nothing behind, a run verified ok is read back whole, what the operator keeps in the
  destination stays; a drill that passes proves the restore it stands for, and every DLE that
  needs no operator comes round again, with what is damaged on its copy reported.
- **The dump side**: a chain that a restore accepts replays exactly the states the dumps were
  made against; no deletion strands an archive that could be restored before; the latest restore
  point and, on however many landings, the last full are never reclaimed; nothing carved, folded
  back or edited between two levels is lost or brought back. A closed file stays on its reel
  until a label starts the reel over, and a drive reports the reel it holds. Five runs let a
  full, two levels, a bump back and a second full coexist with a prune between any two
  (`durability` on one landing; `bookkeeping` has two, where a chain may be split, section 7).
- **The volume layer**: one file per position, appends in flight survive removals, a footer
  means a whole archive (but for what `store_sweep` shows, and for a position given again under
  a stale placement), a sweep leaves no debris and takes no committed file; the catalog's fill
  and ledger are what its placements charge, and reels fed one at a time give what one scan of
  all gives; the status tells the copies.
- **The calculations** agree with their reference definitions on every input of the families.
  Families are small on purpose and sit on the boundaries: sizes at and around a frame and a
  part, days at and around a deadline.

Each property has a mutant in `PROJECT.json`: a plausible bug in the mapped definition, written
as an operator beside it, under which the same run must fail.

## 5. Fairness and deadlock

`HoldingPool`, `Spool` and `HoldingRecovery` state weak fairness of each goroutine's steps taken
together: a goroutine that can go on is run by the Go scheduler, a transfer ends one way or the
other, a close hook runs to its end. Nothing is assumed of faults, trips, cancels or crashes:
they may never happen. A producer waiting in `Acquire` is not scheduled by fairness but by the
broadcast that empties `waiting`, so a missed wake-up shows as a violated `EveryDumpServed`.
`LandingSide` states both fairnesses again, of the instance that a behaviour is of.
Leasing a permit waits on a channel that other archives use, yet weak fairness is enough: an
archive leases each lane once, so it can only be overtaken finitely often. In `HoldingRecovery`
the live run's steps, a reclaim's and a flush's are fair archive by archive, and so is the end of
each phase; fairness of `FlushStarts` says that someone runs `nb dump` again (cron does).

In `Transfers`, and so in `DataFlows`, the actors are fair one by one (each is a goroutine or a
process), the nightly drill is fair because cron runs it, and a restore that has begun goes on. A request of
an operator, damage and cancellation are not fair.

The other modules have no fairness and no liveness property: when the operator runs a command is
not the program's to promise.

Deadlock is checked in `durability`, whose three machines never stop. The other
configurations turn the check off because the model stops where the program does: a run, a
transfer or a status that has ended, or a bound reached (`MaxRuns`, `MaxFaults`, `MaxStarts`,
`MaxWrites` and the like). That the threads of a run do not stop earlier is what the liveness
properties say.

## 6. What is proved

TLAPS checks these for every value of the constants, from the named assumptions of the modules
(`PoolAssumption` of `Budgets`, `SpoolAssumption`, `RecoveryAssumption`, `RotationAssumption`,
`VaultingAssumption`, `TransfersAssumption`, `FileStoreAssumption`, `TapeDriveAssumption`,
`CycleAssumption`, `SnapshotsAssumption`, `RestoringAssumption`, `DrillingAssumption`,
`StatusAssumption`, `CatalogAssumption`) alone; TLC evaluates each of
those on its runs. `TapeRotation`'s asks for finitely many reels and drives, numbered as the
slots of a library and its drives are; `Vaulting`'s for finitely many DLEs and finitely many
media, these listed in order of name, none of them called `auto`, which `nb sync` reserves for
"no source named"; `FileStore`'s for at least one kind of file, no two alike, the last of them
the footer; `TapeDrive`'s for slots and drives numbered from 1 and a slot for every reel;
`Restoring`'s for chains that are not empty and name no archive twice, and for named media;
`Drilling`'s for a landing of every DLE; `Catalog`'s for two media, finitely many archives, reels
by number and layouts with at least one part; `HoldingRecovery`'s for finitely many landings,
routes with at least one, and archives by number; `Status`'s for finitely many DLEs and landings,
by number, and landing lists that are not empty. `TransferIsTrue`, `RestoreIsWhole`,
`DrillsAreHonest`, `RestoresAreCurrent`, `StoreIsWhole`, `RemovalsSpareCommitted`,
`DumpsStayEnded`, `StatusIsTrue`, `ReelsAreKept`, the pool's properties and the catalog's, which
hosts check, are theorems
of the machine's own specification.

**StagingProofs**, first of the pool (`HoldingPool`), for any number of disks and dumps and any
capacities, caps and sizes:

- `TypeCorrect`: `Spec => []TypeOK`. The hand's range needs that `AcquireDisk` moves it to the
  disk after the chosen one modulo `N` (`BumpInRange`).
- `NoProducerSleepsThroughRoom`: `Spec => []NoLostWakeup`. Inductive with the types: a step
  either broadcasts, which empties `waiting`, or makes no disk eligible (`SleepersStay`).
- `LedgerBalances`: `Spec => []Ledger`. `used` is a number and what it must equal is a sum over
  archives, so archives are expanded into sets of byte units and the ledger is a statement about
  cardinalities. The invariant needs `Placed` (an archive that holds anything of a disk has been
  given one): without it a release could be charged to no disk. `ReleaseExact` then shows that
  the clamp at zero in `Release` never acts.
- `BudgetedBytesAlwaysFit`: if estimates bound sizes, then what is being written and what is
  staged fits every bounded disk. It is not inductive alone: `AcquireDisk` admits by `used`, so
  the step needs the ledger, and a commit that shrinks a footprint needs the bound on sizes.

Then of a run's status (`Status`), for any DLEs, landing lists, landings that fail to open, holding
disks and sizes:

- `DumpsAlwaysStayEnded` (`DumpsStayEnded`) and `MetersAlwaysTell` (`MetersTellCopies`, the part
  of `StatusIsTrue` about single copies), from `StatusIInv`. Neither is inductive, since a row is
  told of by its dump and by its drains, each in its own time: `RowTells` says which states of a
  dump leave its row pending or dumping, so that whatever reopened the window would need a row
  that was not ended; `NotYetDrained`, that an archive not yet staged has no drain, no copy and no
  meter; `LaneMetered`, what a lane's meter reads in each state of its copy, from the queue over
  a failure's void to the count. The last drain's settling moves no meter off or onto zero.
- `TotalsStayTotals` (`StatusTypeOK` and `TotalsBound`): what is drained is never more than what is
  owed, nor what is on the primary more than what was produced, however the filtering in place
  leaves the lists. `OwedInv` says of each row how its meters, its drains still to count and its
  route fit; that a route never grows, and what a filtered list looks like, comes from unfolding
  `SkipLanding` row by row (`RowsUnfold`, `SkipsShape`), the totals from unfolding their sums
  (`SumUnfolds`, `SumsCompare`), each by smallest counterexample over the sets a fold can have
  reached.
- `StatusTellsTruth` (`StatusIsTrue`) adds that complete means whole (`CompleteIsWhole`), for as
  long as the landings skipped were the last of their lists (`LastsSkipped`): the lists are then
  as they were, and a route is a prefix of its own (`RoutesAreReach`). Without that the code breaks
  the claim, section 7.

**DurabilityProofs**, first the staged archives (`HoldingRecovery`):

- `TypeCorrect` (`TypeOK`), `NothingCommittedIsLost` (`NeverLost`) and `KeepsStagingContract`
  (`ImplementsStagedArchives`), for any archives, routes, landings and number of faults, from
  `IInv`: the types, `Progress` of each archive and `OneAtATime`. `Progress` says what memory,
  media and catalog have to do with each other: `remaining` counts the drains under way, which
  have staged parts to read; a recorded copy has its footer, so `landed` counts copies that are
  whole; what is being reclaimed has a landing's copy behind it and no drain left; a placement
  outlives its files. `OneAtATime`: a flush copies only the archive it is at. The refinement is
  then one lemma (`StepsMap`), with a step for each action: staging is a `Stage`, a drain or a flush
  that records a sealed copy a `Land`, removing parts a `RemoveFiles` (somebody else has the
  archive whole, and nobody reads it any more), removing the placement a `DropPlacement`, and
  everything else is invisible to the contract: a footer removed, a copy sealed, a crash.

Then the chains of a DLE (`DumpCycle`), for any number of levels, runs and lost snapshots:

- `CycleTypeCorrect` (`CycleTypeOK`) and `LastFullsStay` (`LastFullKept`), for any landings: a
  reclamation never deletes a medium's last full. It keeps what `Reclaiming` read at its start,
  so `Floor` says that this still takes in the last full of the catalog as it is now.
- `RestoresAreWhole` (`RestoreIsWhole`) and `ReclaimsAreSafe` (`ReclaimsKeepChains`), where all
  runs land on one medium (`OneLanding`): on two, `dump_cycle_split` refutes the first
  (section 7), so the hypothesis cannot go. What a restore replays, and what a deletion strands,
  is said with `ChainIn`, a recursive function over the runs. `ChainUnfolds` proves that it has
  the value its equation says: on the smallest run where it would not, the equation holds of all
  runs before, and a base is an earlier run. With that equation the argument is about single
  links. `Linked`: an incremental's base is in the catalog, no older than the full before it,
  nor than the state it was dumped against. `Snapped`: what a snapshot holds is in the catalog at
  its level, or a full has come since. `Planned`: what a plan is based on is not deleted by the
  make-room that follows it. `Chained`: a reclamation keeps every run from the last full on and
  condemns none. The four need each other: a plan is sound because links and snapshots are, a
  commit links its run because its plan still is, and a deletion spares every base because it
  takes only what is older than a full that stays and what nothing is based on.

Then the archiver's library (`Snapshots`), for any subtrees, levels, archives and changes:

- `SnapshotsTypeCorrect` (`SnapshotsTypeOK`) and `SnapshotsAreCurrent` (`RestoresAreCurrent`).
  `Replayed` is a recursive function over a chain and is unfolded like `ChainIn`
  (`ReplayUnfolds`). The first archive of a chain that landed an old version of a subtree would
  hold nothing of it, so its seed had seen that very version (`Founded`); the seed is no newer
  than the base, and a version that was there before and after was there in between
  (`Versions`), so the base lands it already. For that the snapshot has to be of an archive of
  its level (`Library`), and the base the newest one there and the scope the same from the plan
  to the promotion (`UnderWay`). What was carved stays away because carves that were judged by
  those of the base were left out there too. The exceptions the property names (a level that
  could not read, `Skipped`, a level judged by an older dump's carves) are what the code does,
  section 7.

**SpoolProofs**

- `PermitsHold` (`PermitsConserved`) and `StagedHolds` (`StagedOutlivesDrains`), from one
  invariant: where each producer is and which lanes it may hold (`Sides`), and what a drain set
  counts, `remaining` being the cardinality of the drains that have not left (`Counts`). A lane
  is shown to lease, return or leave its permit alone in each step; the pool's calls are never
  expanded.

The second part of the module strengthens that invariant by `StagedSide` (how far the staged
copy, its files and its budget are), `LaneSide` (a landing without a copy is tripped or its drain
is still to write) and `Recorded` (a trip's flag is followed by its record). Then:

- `CleanRunsAreComplete` (`CleanRunIsComplete`): at the end of a run without an error every drain
  has left, so by `LaneSide` what is missing tripped, and by `Recorded` it is told.
- `StagingIsImplemented` (`ImplementsStagedArchives`): each step is a step of the contract or
  invisible to it; that files go only behind a copy is `Counts`.
- `PoolIsImplemented` (`ImplementsPool`): each step is one of the pool's own or leaves the
  pool's variables alone, because the spool calls the pool only in the phase the pool expects.
  With `StagingProofs` this gives the pool's ledger and wake-ups in every run of the spool.

**TapeRotationProofs**: `TypeCorrect` (`TypeOK`), `FilesAreAlwaysNamed` (`FilesAreNamed`) and
`LatestStaysWhole` (`LatestWhole`), for any number of reels, drives, DLEs, sizes, runs and
faults. None of the three properties is inductive, and no smaller set of facts was found to be.
The argument, in the order of `IInv`:

- *Epochs.* `Reels`: the catalog's epoch of a reel is never ahead of the reel's. `Tells`: an
  epoch somebody names is one the catalog has heard of, and while the reel is at it the file is
  there. A wipe takes an epoch beyond what the catalog has heard of (`WipeMedia`), so what was
  named before no longer matches, and a file is never taken for a newer one. A footer is such a
  name (`Footers`), which is what makes a rebuild safe; so is a placement, unless a rebuild has
  been misled (`Places0`).
- *Reservations.* `Hand`: a drive that has started writes a reel that is reserved and at the
  epoch the catalog knows; every part in hand is on a reserved reel. Recycling takes no reserved
  reel, so no other drive's roll takes a part in hand.
- *Protection.* `Live`: no reel of a latest archive has been wiped, because a recycle asks the
  catalog and the catalog places every part of it (`LatestProtects`).
- *The gap between wipe and reconciliation* (`Wipe`): while the catalog still names the files of
  a reel just wiped, none of them is of a latest archive, and nothing is recorded.

The order of a rebuild is a total order of the files, and that a set of them has a last one
needs well-founded induction on a finite set (`ALastOne`), cited from the library.

**VaultingProofs**

- `AdvertisedHolds` (`AdvertisedIsHeld`): inductive with `HasTarget` (a command in progress
  targets a configured medium).
- `CoverageIsAlwaysTold` (`CoverageIsTold`): given `AdvertisedIsHeld`, coverage and backlog are
  two computations over one state, compared archive by archive (`BacklogTold`): an archive in
  the gap is on some medium, and when the sync has a source for the run it has it for the
  archive. The audit's diagnoses follow likewise (`CopiesTold`), counting by cardinalities of
  sets of media.
- `TypeCorrect`: `Spec => []TypeOK`, with every incremental's base a run recorded before it.
- `PlansAreDelivered`: `Spec => [][PlanIsDelivered]_vars`. Its invariant `Delivery` says where
  what was planned is at each step: on the target, in hand, or to be taken up; and before the
  first byte from an only source, all of it is in hand, so that neither the forced reclaim nor
  make-room can cost the plan an archive.
- `CopiesAlwaysFit`: `Spec => []CopiesFitCapacity`, for any capacities. `Room` says it of a
  command between its make-room and its last byte; that make-room really made the room rests on
  what `ReclaimPlan` yields.
- `PlansAreKept` (`CopiesKeepTheirPlan`) is the two together.
- `PrunesSpareOwed` (`PruneSparesOwed`): no invariant is needed beyond the types and
  `AdvertisedIsHeld`. What is owed is young, or no older than the DLE's last full; where the
  medium can replay it, retention keeps it (`OwedIsKept`; chains have at most two archives here,
  `ChainOfTwo`), and no plan takes what is kept (`PlanSpares`).

`ReclaimPlan` is a recursive function over the medium's archives. That there is a function with
its equation (`PlansExist`) is proved by smallest counterexample over the number of archives,
each plan extending the smaller ones; `PlanUnfolds` is the equation and `PlanFacts` what follows
of every plan: it deletes what is there, each archive once, and only what may go.

**DataFlowsProofs**, first of the transfer (`Transfers`), for any pipeline shape, stream, part and
frame size, pipe and faults:

- `CommittedIsWhole` (`CommitMeansWhole`): bytes are conserved, what has left the producer being
  in a pipe, in a process or in the parts (`Conserved`), and a commit comes only after every
  process has ended and every pipe is empty.
- `PartsAddUp`: the sizes of a committed archive's parts, folded with `+`, are the size of the
  stream; that `Held` measures parts that are full but for the last is `HeldIsTheSum`, by smallest
  counterexample over the sets of parts a fold can have taken.
- `PartsAreAlwaysWhole` (`PartsAreWhole`): a part is closed when it is full or when the stream
  has ended, and none is opened before there is a byte for it.
- `FaultsAreNamed` (`FaultIsNamed`): whoever sees a pipe broken marks itself a victim, and the
  marks lead back to the one who failed (`Marks`, `Blame`).
- `TransfersAreTrue` (`TransferIsTrue`) is the three together.

Then of restores, verification and drills (`Drilling`, which extends `Restoring`), for any
chains, parts, media, placements, seals, requests, windows and damage:

- `RestoresAreWhole` (`RestoreIsWhole`), from one invariant that counts levels (`In`): before the
  k-th level is read, the k - 1 below it have landed in order, each whole wherever a seal would
  have told (`SealsTell`). No level is passed over, because the first pass has located all of
  them and faults change what files hold, not where the catalog places them (`Located`,
  `FaultsKeepStore`); so where `ToRead` skips what is missing, nothing is (`NextLevel`). What the
  first pass does is therefore what the second rests on: the run's mutant drops it. A quiet
  failure happens before the first level or where levels land apart. That a run verified ok is
  read back whole (`VerifiedRestores`) needs no invariant: a restore opens one of the copies
  verified, and the checksum read that one to its end.
- `DrillsProveRestores` (`DrillsAreHonest`): a destination that may be cleared was found empty, and
  only the restore writes there; only a target exercised changes how often its DLE was drilled,
  and each tier that reads the chain can end in ok only if every archive of it streams clean off
  the medium the drill is pinned to (`ChecksumTierReads`, `StructuralTierReads`,
  `RestoringTiersRead`).

**FileStoreProofs**, for any archives, runs, kinds of file, positions and faults:

- `TypeCorrect` and `PositionsAreApart` (`OneFilePerPosition`), from `IInv`: a position in hand is
  handed out, apart from the others, and holds nothing but the file appended there (`Handed`).
- `StoreStaysWhole` (`StoreIsWhole`: with `FootersMeanWhole`, `AppendsSurvive`,
  `PlacedAreReadable` and `SweepsAreClean` for its parts) and `RemovalsAreSafe`
  (`RemovalsSpareCommitted`). None is inductive: an archive may be on the medium several times
  over (a crash between footer and record, then a new copy), a placement may name any of the
  copies, and a removal knows positions only. `Safe` therefore says *whose* every readable file
  is. `Owned`: each footer that no sweep is about to take has files of its own, later footers
  later ones, so that taking one copy never takes another's. `Hold`: a placement whose footer is
  there names the latest file of each kind, which is why a sweep, that keeps the latest files of
  what it sights, and a rebuild, that places them, agree with the writer. `Reclaim`: the footer
  goes first, and what a placement without its footer names is nobody's. `Mirror` and `Reserve`:
  the index knows what is stored and reserves what is in flight, which is what makes "the index
  holds nothing else of the run" a safe reason to remove a run's whole subtree.

`Safe` holds until `mixed` says that two archives' positions met or that a refused sweep left a
superseded footer (section 7, `store_sweep`); the properties carry the same exception.

It also has the catalog (`Catalog`), for any archives, reels, names, layouts and losses:

- `CatalogAdvertises` (`HeldIsAdvertised`) and `LedgerFollows` (`LedgerCatchesUp`), whatever is
  labeled, renamed, cut short, lost and rebuilt, from `CatalogInv`: the types, the first property
  and the second are inductive together.
- `FillStaysCharged` (`FillIsCharged`), as long as no reel is given a second name
  (`RelabelsInPlace`). The hypothesis cannot go (section 7, *Media and catalog*). Each mutator
  refunds what it drops and charges what it adds; the point is `RecordVolume`, which restarts the
  fill when it sees another epoch and is only right if nothing is placed on the label any more.
  `Known` makes that so: what a placement or a footer mentions is at an epoch the reel of that
  name has had, no later than the registry's, so that a new epoch makes stale everything a rebuild
  has not dropped (`Current`), and a relabeling has dropped the label's placements before it
  records the new epoch (`Relabeling`).

`Charged` is a sum over placements, and a scan is three folds, over the reels and over the
footers on them. Each is unfolded by smallest counterexample over the subsets a fold can have
reached (`ChargedUnfolds`, `DropStaleUnfolds`, `RecordLabelsUnfolds`, `RecordArchivesUnfolds`,
`ScanDiskUnfolds`), and what one element does is carried to the set (`Carries`). The parts of an
archive that a scan assembles are a recursive function over the footer's count (`AssembledWell`).

**TapeDriveProofs**, for any reels, slots, drives, writes and faults, and both kinds of library:

- `BindingsAreTrue` (`BindingIsTrue`): the changer has each reel in one place (`Places`), and a
  drive and its reel part only in steps that also clear what the drive reports.
- `FilesAlwaysStay` (`FilesStay`) and `LabelsStartOver` (`LabelStartsOver`); `ReelsStayKept`
  (`ReelsAreKept`) is the three together. A file is where it was told to be because of what a
  drive at work may write over (`Work`): it writes past everything that is kept on its reel, or
  at the beginning of a reel of which nothing is kept. That is not so by position alone: a drive
  that has just reset a reel, or failed to, is armed and stands at the beginning of a tape whose
  old files are still there, and it takes nothing but a label until one is written. Numbers that
  grow with each file begun tell the files of before a relabel from those behind it (`Sound`).

**Only model-checked**, and why:

- liveness under fairness (`EveryDumpServed`, `RunEnds`, `StagedFilesMoveOn`, `TransferEnds`,
  `DrillsComeRound`) and whatever needs `ENABLED`: the prover does not treat them;
- of `CatalogIsTrue`, `FeedingConverges` (two scans in different orders, compared: an induction
  over both) and `FillIsCharged` where reels are renamed, which holds within the bounds only;
- the calculations, which have no behaviour to speak of: each is a comparison of two functions
  over bounded inputs.

No module declares a `RECURSIVE` operator.

## 7. Where the code and its documents disagree

Four have a run that TLC must find violated; `PROJECT.json` (`findings`) quotes the lines.

- `dump_cycle_split`: with runs split over two landings, a level-1 run that is pruned off the only
  landing that has it leaves the snapshot behind; the next level 2 records an older base than it
  was dumped against and restores without an error and without those changes.
- `transfer_atomic`: an atomic dump (a sealed child per atom) whose landing fails between two atoms
  hangs. When a part's `Close` (`xfer/atomic.go:260`), `NextPart` (`:243`) or a write into a
  part whose child still ends well (`:250`) fails, `TransferAtoms` leaves its loop for `finish`, and
  that awaits the producer (`xfer/source.go:78`). The producer's pipe is closed by the end of the
  stream (`xfer/atomic.go:80`) and by a fault of the encoding (`:174`) only, so a producer with more
  to say than the pipe holds blocks for good; the landing's fault, which `xfer/atomic.go:222` says is reported
  as `RoleSink`, is not, until the operator cancels the run.
- `tape_staged`: a crash between footer and record hides an archive's reels from the catalog;
  one of them is reused; a rebuild takes the footer's word for the part that is gone; the flush
  believes the catalog and removes the staged copy.
- `store_sweep`: an archive copied twice (a crash between footer and record), neither copy in the
  catalog: the orphan sweep keeps the later copy and removes the earlier one in ascending order,
  its footer last, where a reclaim goes footer first. Interrupted or refused midway it leaves a
  footer without its part; once the later copy is reclaimed a rebuild brings the archive back.
  `mixed` in `FileStore` marks the states this reaches, and the other properties leave them out.

Seen while modelling, without a run of their own (paths are under `src/internal`):

*Staging and recovery*

- A faulted staging write gives its whole estimate back while its bytes stay on the volume
  (`spool/spool.go:318`, `spool/pool.go:69`): the budget can admit more than the volume holds.
- A crash between the two halves of a reclaim, with a tripped landing in that run, leaves a
  placement whose files are gone and which every later flush tries to copy: each `nb dump` stops
  in its flush (`conductor/flush.go:134`), where `docs/features/holding-disk.md:80` promises that
  it drains.
- A trip's flag and its missing record are set in two steps; a drain that skips between them is
  not counted in the warning.
- A failed direct write's bytes stay counted in the progress, a failed drain's are voided; a row
  can read done before its last copy is settled (`progress/tracker.go:176`, `progress/progress.go:57`).
- `SkipLanding` filters every row's route in place (`kept := d.Landings[:0]`,
  `progress/tracker.go:381`), and that list is the configuration's own: `LandingsForDumptype` and
  `LandingNames` return it (`config/config.go:313`, `:350`), `conductor/progress.go:78` and
  `progress/tracker.go:57` keep it uncopied, and every row of the same list shares it. If the
  landing skipped (make-room refused, `conductor/run.go:257`, or it did not open, `:375`) is not the
  last, a list [A, B] without A becomes [B, B]. The next row of that list then keeps a route of two,
  is owed B twice and never reads complete, against `progress/tracker.go:367` ("the landing is
  removed from every DLE's route") and the test of it, which has a list for each row
  (`progress/progress_test.go:512`). The dumps read the same list afterwards (`conductor/run.go:259`),
  and `Spool.Ingest` does not look for doubles (`spool/spool.go:200`): a staged archive gets two
  drains to B, and a direct one leases B twice, on one permit waiting for itself in spite of the
  order of names that `:329` trusts. `volume_layer` lets either landing of a list be skipped;
  `LastsSkipped` is the exception in `StatusIsTrue`.

*Chains, retention, copies*

- A landing that holds an incremental without its full pins nothing of it, so the latest run of
  a DLE can be reclaimed there (`retention/retention.go:196` against `:79`).
- `recovery/chain.go:38` explains the base by the run, the host by its snapshot; after a commit
  that was not promoted they differ and the next dump repeats some files, harmlessly.
- A snapshot seeded from one run under a base of another loses a subtree that was folded back
  between them (`archiver/gnutar/snapshot.go:83`); the carve sidecar's "fail-safe direction" is not
  one in that order (`archiver/gnutar/gnutar.go:346`).
- An exclude that takes in a whole match of a partition by a floating or wildcard pattern does not
  reach the DLE that starts at the match.
- A forced copy can take a target's only full of a DLE's latest run there (it is another DLE's
  copy that the run is re-copied for). That run then restores from nowhere, anchors nothing
  (`retention/retention.go:176`), and the next prune also takes the older incrementals that the
  target can replay and that coverage says it is owed (`engine/copy.go:236`). It takes four runs;
  `LatestStranded` is the exception in `PruneSparesOwed`, and its proof failed without it.
- A forced re-copy reclaims the target's copy before it copies and can take the only one
  (`engine/copy.go:236`, `accounting/prune.go:330`); a multi-source sync can evict what it has
  just copied (`engine/copy.go:315`).
- An automatic sync refuses a run whose missing archives no single medium holds together.
- The audit calls a copy that a sync lags behind on "structural".

*Media and catalog*

- `Allocator.PlaceFile` measures the room once and rolls once, where `NextPart` measures again:
  if the first labeled reel on the shelf is full, a footer is sent to it and the archive fails
  with `ErrVolumeFull` though another reel has room. `AfterRoll` and `VolumeFull` model it.
- The fill that the catalog derives leaves out what failed archives left on a reel, so a reel
  can end before its computed room does (ARCHITECTURE.md admits it; README.md says NBackup
  "always rolls early rather than hit end-of-tape").
- Of two attempts at one archive, a rebuild combines one's footer with the other's parts.
- A torn header is skipped both by `Files` and by `IncompleteFiles`; a reclaim cut short can leave
  a position to be given again (`archivefs/compose.go:82`).
- Epochs are counted per reel (`librarian/label.go:94`), so a name that moves to another reel can
  meet an epoch it has had: `(name, epoch)`, of which `record/header.go:92` says that it
  "detects a stale catalog", then does not tell the two reels apart. With three reels: B is the
  second label of reel 2 and holds a part whose footer is elsewhere; reel 2 is renamed, reel 3
  becomes B and a rebuild of the footer's reel brings the placement on B back; reel 3 is relabeled
  to the old epoch and the command dies; a rebuild of reel 3 keeps the placement as current and
  restarts the fill without it. `RelabelsInPlace` is the hypothesis this refutes doing without;
  the run, with two reels and three labels, is too small to meet it.
- `RemovePlacement` and `dropStaleOn` can leave a run advertising what nothing holds
  (`catalog/catalog.go:294`, `:302`); a forced label or a rename cut short leaves placements on a
  name that is gone.
- A failed unload by a robot reports a drive empty that holds a reel; an unknown source slot
  unloads to the first empty one; an aborted append with a whole header is listed by `Files`.

*Reading*

- A ranged read of a stream that nothing transforms delivers a torn part unchecked; on a medium
  that serves no ranges it fails (`restorer/ranged.go:17`).
- The drill ledger is not keyed by medium or tier, so a failure of the sample tier is cleared by
  the next night's sample of another frame; a DLE can be starved by those due before it
  (`config/config.go:252`; the repository's README.md:653).

*Plans, forecasts, configuration*

- An age in days is counted from a UTC midnight, so east of Greenwich a full can be a day older
  than the cycle (`catalog/history.go:81`).
- A forecast lands a day's archives and then reclaims, a run makes room first; the depth of
  restore is overstated for chains cut by the horizon.
- A rate just after a long quiet gap counts what moved before it.
- The archivers' cache is one map for two kinds of name: a dump's key is its dumptype and host
  (`engine/toolchain.go:122`), a restore's the archiver recorded with the archive and the host
  (`:206`). Where a dumptype is called like an archiver that is not its own, whichever is opened
  first serves both. `Colliding` in `MCFamilies` has such configurations, and `Misnamed` is the
  exception in `OpenedIsConfigured`.
- A primary landing that does not open refuses the whole run (`engine/engine.go:608`); `nb check`
  warns where the run refuses, and probes the default block's program; two plain sources of one
  host and path under different dumptypes are accepted.

## 8. What is not modelled

`PROJECT.json` (`components`) lists every part with its reason. In short: presentation and wiring
(cli, web, report, notify, the browser's shell, the FUSE view); external programs (tar,
pg_basebackup, encryption and compression filters) beyond succeeding or failing; the stores
behind the media (object stores, Google Drive, tape drivers and robots beneath the calls made of
them); real time (run ids, the rate limiter), and prices; sizes, except where a budget, a reel or
a part depends on them; hand-fed tape drives with their prompts, one-run-per-tape media and
foreign reels.

Left to one module of two: a staged write that fails before its footer, permits and budgets are
in `Spool` and not in `HoldingRecovery`; a flush there reads each archive's route from a constant,
where the code derives it anew from the configuration of the day. A route with one landing twice
(section 7) is in `Status`, whose rows show it, not in `Spool`.

What bounds hide: `vaulting` has one copy or sync per behaviour, so two of them meet only through
the states a first could leave; `tape_rotation` has one fault; the store's archives are of one
run; the catalog's reels are too few for a name to come back at an old epoch (section 7). The
theorems of section 6 have no such bounds.

## 9. Plan

What is left is the **Catalog**: a proof of `FeedingConverges`, by what a scan leaves of each archive and label, whatever it
started from; then `CatalogIsTrue` as a whole for reels that keep their names.
