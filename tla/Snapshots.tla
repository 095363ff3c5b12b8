------------------------------ MODULE Snapshots ------------------------------
(***************************************************************************)
(* The GNU tar archiver's library of one DLE, the remainder of a partition: *)
(* a snapshot for each level, beside it the carves its dump ran with, and    *)
(* the archives that were dumped against them.  Which subtrees the DLE      *)
(* leaves to others changes with the configuration and with the disk; a     *)
(* base that still holds what was carved out since is refused.              *)
(*                                                                          *)
(* internal/archiver/gnutar/{gnutar,snapshot}.go, as internal/dumper/       *)
(* encode.go and internal/scheduler/resolve.go use them.  The levels are    *)
(* DumpCycle's; here the question is what the archives hold.                *)
(***************************************************************************)
EXTENDS Chains, Sequences

CONSTANTS Subtrees,   \* what may be carved out of the DLE
          TopLevel,   \* planner.MaxLevel
          MaxTars,    \* bound: archives committed
          MaxEdits    \* bound: changes to the disk and to the scope

SnapshotsAssumption == TopLevel \in Nat \ {0} /\ MaxTars \in Nat /\ MaxEdits \in Nat

VARIABLES disk,      \* subtree -> the version on disk, 0 for none
          carves,    \* the subtrees that the DLE's scope leaves out
          edits,     \* changes so far
          live,      \* level -> the live snapshot
          sidecar,   \* level -> the carves recorded beside it, and by which run
          work,      \* the work snapshot
          tars,      \* the archives committed
          phase, backup \* where the dump is; its level and base run

snapshotVars == <<disk, carves, edits, live, sidecar, work, tars, phase, backup>>
world == <<disk, carves, edits>>

SnapLevels == 0..TopLevel
Nothing == [s \in Subtrees |-> 0]
\* A snapshot: the run that wrote it, and the version of each subtree that it has seen.
Missing == [run |-> 0, seen |-> Nothing]
Unrecorded == [run |-> 0, carves |-> {}]
NoBackup == [level |-> 0, base |-> 0]

SnapshotsInit ==
  /\ disk = [s \in Subtrees |-> 1] /\ carves = {} /\ edits = 0
  /\ live = [l \in SnapLevels |-> Missing] /\ sidecar = [l \in SnapLevels |-> Unrecorded]
  /\ work = Missing /\ tars = <<>>
  /\ phase = "idle" /\ backup = NoBackup

Tars == DOMAIN tars
-----------------------------------------------------------------------------
(* The source. *)

\* Files come, change or go, while a dump runs or not.
Edit ==
  /\ edits < MaxEdits /\ edits' = edits + 1
  /\ \E s \in Subtrees : \E v \in {0, edits + 2} :
       disk[s] # v /\ disk' = [disk EXCEPT ![s] = v]
  /\ UNCHANGED <<carves, live, sidecar, work, tars, phase, backup>>

\* A child graduates to a DLE of its own or is folded back, an anchored exclude is written
\* or dropped: seen at the next run's expansion.
Rescope ==
  /\ phase = "idle" /\ edits < MaxEdits /\ edits' = edits + 1
  /\ \E C \in (SUBSET Subtrees) \ {carves} : carves' = C
  /\ UNCHANGED <<disk, live, sidecar, work, tars, phase, backup>>
-----------------------------------------------------------------------------
(* The library. *)

HasSnapshotUncarved(l) == live[l] # Missing   \* a mutant
HasSnapshot(l) ==
  /\ live[l] # Missing
  /\ carves \subseteq sidecar[l].carves

Seed(level) == IF level = 0 THEN Missing ELSE live[level - 1]

\* RefineBases and backupSpec.
PlanBackup ==
  /\ phase = "idle" /\ Len(tars) < MaxTars
  /\ \E l \in SnapLevels :
       LET base == Newest({r \in Tars : tars[r].level = l - 1})
       IN /\ l > 0 => base # 0
          /\ backup' = IF l > 0 /\ HasSnapshot(l - 1) THEN [level |-> l, base |-> base]
                       ELSE NoBackup
  /\ phase' = "planned"
  /\ UNCHANGED <<world, live, sidecar, work, tars>>

\* tar walks the scope and writes what its snapshot has not seen; what it cannot read it
\* leaves out, and its snapshot has seen it nonetheless.  An excluded subtree is noted as
\* there, and not in the snapshot.
Dumped(seed, unread) ==
  [s \in Subtrees |-> IF s \in carves \cup unread \/ disk[s] = seed.seen[s] THEN 0 ELSE disk[s]]
Scanned(run) == [run |-> run, seen |-> [s \in Subtrees |-> IF s \in carves THEN 0 ELSE disk[s]]]

BackupCommits ==
  /\ phase = "planned"
  /\ \E unread \in SUBSET {s \in Subtrees : disk[s] # 0} :
       /\ Cardinality(unread) <= 1
       /\ tars' = Append(tars,
            [level |-> backup.level, base |-> backup.base, carves |-> carves,
             holds |-> Dumped(Seed(backup.level), unread), unread |-> unread,
             seed |-> Seed(backup.level).run,
             judged |-> IF backup.level = 0 THEN 0 ELSE sidecar[backup.level - 1].run,
             there |-> {s \in Subtrees : disk[s] # 0}, disk |-> disk])
  /\ work' = Scanned(Len(tars) + 1)
  /\ phase' = "committed"
  /\ UNCHANGED <<world, live, sidecar, backup>>

Stop == phase' = "idle" /\ backup' = NoBackup

\* The transfer fails: its work snapshot stays behind, for the next dump to seed anew.
BackupFails ==
  /\ phase = "planned" /\ Stop
  /\ work' = Scanned(0)
  /\ UNCHANGED <<world, live, sidecar, tars>>

PromoteSnapshot ==
  /\ phase = "committed"
  /\ live' = [live EXCEPT ![backup.level] = work] /\ work' = Missing
  /\ phase' = "promoted"
  /\ UNCHANGED <<world, sidecar, tars, backup>>

RecordCarves ==
  /\ phase = "promoted"
  /\ sidecar' = [sidecar EXCEPT ![backup.level] = [run |-> Len(tars), carves |-> carves]]
  /\ Stop
  /\ UNCHANGED <<world, live, work, tars>>

\* A crash, or a rename or a write that fails: the run fails with its archive committed.
Interrupted ==
  /\ phase # "idle" /\ Stop
  /\ UNCHANGED <<world, live, sidecar, work, tars>>

SnapshotsNext ==
  \/ Edit \/ Rescope \/ PlanBackup \/ BackupCommits \/ BackupFails
  \/ PromoteSnapshot \/ RecordCarves \/ Interrupted
SnapshotsSpec == SnapshotsInit /\ [][SnapshotsNext]_snapshotVars
-----------------------------------------------------------------------------
Tar == [level : SnapLevels, base : Nat, carves : SUBSET Subtrees,
        holds : [Subtrees -> Nat], unread : SUBSET Subtrees, seed : Nat, judged : Nat,
        there : SUBSET Subtrees, disk : [Subtrees -> Nat]]
Snapshot == [run : Nat, seen : [Subtrees -> Nat]]

\* Every variable has its type, and no version is newer than the changes so far.
SnapshotsTypeOK ==
  /\ edits \in 0..MaxEdits /\ disk \in [Subtrees -> 0..edits + 1] /\ carves \subseteq Subtrees
  /\ live \in [SnapLevels -> Snapshot] /\ work \in Snapshot
  /\ sidecar \in [SnapLevels -> [run : Nat, carves : SUBSET Subtrees]]
  /\ tars \in Seq(Tar) /\ Len(tars) <= MaxTars
  /\ phase \in {"idle", "planned", "committed", "promoted"}
  /\ backup \in [level : SnapLevels, base : Nat]
-----------------------------------------------------------------------------
(* What a restore replays. *)

\* A level deletes what its dump found gone and lands what it holds.
Replayed(r) ==
  LET chain == ChainIn(tars, Tars)[r]
      upTo[c \in chain] ==
        LET b == BaseOf(tars, Tars, c)
        IN [s \in Subtrees |->
              IF s \notin tars[c].there THEN 0
              ELSE IF tars[c].holds[s] # 0 THEN tars[c].holds[s]
              ELSE IF b = 0 THEN 0 ELSE upTo[b][s]]
  IN upTo[r]

\* A subtree that an incremental took for unchanged since a snapshot that its recorded base
\* never promoted, and that base left it out.
Skipped(r, s) ==
  \E c \in ChainIn(tars, Tars)[r] :
    tars[c].level > 0 /\ tars[c].seed # tars[c].base /\ s \in tars[tars[c].base].carves

\* Every version in the scope of a run is what its restore lands: none lost between two
\* levels, whatever was carved, folded back, edited, failed or cut short; but for what one
\* of the levels could not read, and what was Skipped.
InScopeIsCurrent ==
  \A r \in Tars : \A s \in Subtrees \ tars[r].carves :
    \/ Replayed(r)[s] = tars[r].disk[s]
    \/ \E c \in ChainIn(tars, Tars)[r] : s \in tars[c].unread
    \/ Skipped(r, s)

\* No restore brings back a subtree that its run left to another DLE (snapshot.go HasBase's
\* re-baselining), where every level was judged by the carves of the dump it is based on.
NothingCarvedRemains ==
  \A r \in Tars : \A s \in tars[r].carves :
    \/ Replayed(r)[s] = 0
    \/ \E c \in ChainIn(tars, Tars)[r] : tars[c].judged # tars[c].base

\* What was carved, folded back, edited or cut short between two levels is neither lost by a
\* restore nor brought back (gnutar.go, snapshot.go).
RestoresAreCurrent == InScopeIsCurrent /\ NothingCarvedRemains
=============================================================================
