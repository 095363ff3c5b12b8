---------------------------- MODULE TapeRotation ----------------------------
(***************************************************************************)
(* A robotic tape library behind its catalog: runs write their archives on *)
(* several drives at once, an archive spans reels, a full reel rolls onto  *)
(* the next writable one, the oldest reel without a kept run is relabeled  *)
(* and so wiped, and nb rebuild reads the catalog back from the reels.     *)
(* The catalog is what says that a reel may be wiped, and it is behind the *)
(* tapes: an archive enters it after its last file is written.             *)
(*                                                                         *)
(* internal/librarian (rotation, allocator, write, label),                 *)
(* internal/archiveio/writer.go, internal/catalog (catalog, scan), with    *)
(* internal/media/tape as the medium.  A reel is named by its slot and     *)
(* keeps its label name; every archive is a full and the medium has no     *)
(* minimum age; an archive's member index counts as part of its footer.    *)
(***************************************************************************)
EXTENDS Integers, Sequences, FiniteSetsExt

CONSTANTS Tapes,      \* slot numbers
          Drives,
          DLEs,
          Cap,        \* volume_size
          Size,       \* stored bytes of an archive; a footer takes 1
          MaxRuns,    \* bound
          MaxFaults   \* bound: failed writes, crashes and nb label commands

ASSUME RotationAssumption ==
  /\ IsFiniteSet(Tapes) /\ Tapes = 1..Cardinality(Tapes)
  /\ IsFiniteSet(Drives) /\ Drives = 1..Cardinality(Drives)
  /\ Cap \in Nat \ {0} /\ Size \in Nat \ {0}
  /\ MaxRuns \in Nat /\ MaxFaults \in Nat

VARIABLES tape,       \* what is on a reel: label epoch (0: blank), label time, files
          known,      \* the catalog's volumes: epoch and label time
          placed,     \* the catalog's archives on this medium
          staged,     \* archives on the holding disk, waiting for this medium
          run, todo,  \* the command under way and what it still has to write
          reserved,   \* the reels this run writes, shared by its drives
          drive,      \* per drive: the reel in it, its allocator, the archive in hand
          wiped,      \* a reel relabeled and not yet reconciled, 0 for none
          faults,
          misled      \* a rebuild has read files that mislead it

vars == <<tape, known, placed, staged, run, todo, reserved, drive, wiped, faults, misled>>

Archives == (1..MaxRuns) \X DLEs
NoArchive == <<>>
Blank == [epoch |-> 0, at |-> 0, files |-> <<>>]
NoFill == [tape |-> 0, epoch |-> 0, used |-> 0]
Idle == [tape |-> 0, started |-> FALSE, tried |-> {}, fill |-> NoFill,
         pc |-> "idle", arch |-> NoArchive, parts |-> <<>>, lens |-> <<>>]
FooterCost == 1

Total(lens) == MapThenSumSet(LAMBDA k : lens[k], DOMAIN lens)
Fill(t) == MapThenSumSet(LAMBDA k : tape[t].files[k].len, DOMAIN tape[t].files)

Init ==
  /\ tape = [t \in Tapes |-> Blank]
  /\ known = [t \in Tapes |-> [epoch |-> 0, at |-> 0]]
  /\ placed = <<>> /\ staged = {}
  /\ run = 0 /\ todo = {} /\ reserved = {}
  /\ \E loaded \in [Drives -> Tapes \cup {0}] :
       /\ \A i, j \in Drives : loaded[i] = loaded[j] => i = j \/ loaded[i] = 0
       /\ drive = [i \in Drives |-> [Idle EXCEPT !.tape = loaded[i]]]
  /\ wiped = 0 /\ faults = 0 /\ misled = FALSE
-----------------------------------------------------------------------------
(* The catalog. *)

Placed == DOMAIN placed
Places(a) == {placed[a].parts[k] : k \in DOMAIN placed[a].parts} \cup {placed[a].commit}
LabelOfFooter(a) == {placed[a].commit.tape}     \* a mutant
Labels(a) == {fp.tape : fp \in Places(a)}
RunsOnLabel(t) == {a[1] : a \in {b \in Placed : t \in Labels(b)}}

\* VolumeRecord.Used: what the placements charge to a label.
Used(t) ==
  MapThenSumSet(LAMBDA a :
    MapThenSumSet(LAMBDA k : placed[a].lens[k],
                  {k \in DOMAIN placed[a].parts : placed[a].parts[k].tape = t})
      + (IF placed[a].commit.tape = t THEN FooterCost ELSE 0), Placed)

\* retention.Compute over the medium: each DLE's latest archive is its last full and its
\* live chain; the floor protects the run it is in.
KeptRuns == {a[1] : a \in {b \in Placed : \A c \in Placed : c[2] = b[2] => c[1] <= b[1]}}
Protected(t) == RunsOnLabel(t) \cap KeptRuns # {}

\* reconcileRelabel drops this medium's placement of every run with a file on the reel.
WithoutRunsOn(t) == [a \in {b \in Placed : b[1] \notin RunsOnLabel(t)} |-> placed[a]]
-----------------------------------------------------------------------------
(* The reels a drive may write. *)

Loaded == {drive[i].tape : i \in Drives}
AllSlots == Tapes            \* a mutant
Shelf == Tapes \ Loaded      \* a loaded reel's slot reports empty
Labeled(t) == tape[t].epoch # 0

\* The label protocol: a reel the catalog knows at another epoch is refused.
Verifies(t) == Labeled(t) /\ known[t].epoch \in {0, tape[t].epoch}

\* Re-accepting the same reel keeps the running count.
Accepted(i, t, epoch) ==
  IF drive[i].fill.tape = t /\ drive[i].fill.epoch = epoch THEN drive[i].fill
  ELSE [tape |-> t, epoch |-> epoch, used |-> IF known[t].epoch = epoch THEN Used(t) ELSE 0]

Room(i) == IF drive[i].fill.used >= Cap THEN 0 ELSE Cap - drive[i].fill.used
Left(i) == Size - Total(drive[i].lens)
Streamed(i) == Total(drive[i].lens) = Size     \* no payload is left

OldestOf(S) == {t \in S : \A u \in S : known[t].at <= known[u].at}

\* What a roll must not choose; a first load starts from a fresh set.
Tried(i) == {drive[i].tape} \cup IF drive[i].started THEN drive[i].tried ELSE {}

\* A footer is placed after one roll at most; a part's room is measured again.
AfterRoll(i) == IF drive[i].started /\ Streamed(i) THEN "write" ELSE "alloc"

Writable(i) == {t \in Shelf : Verifies(t) /\ t \notin Tried(i) \cup reserved}
Blanks == {t \in Shelf : ~Labeled(t)}

\* oldestReusable, judged by the catalog alone (and, for a mutant, without the reservations).
ReusableUnreserved(i) == {t \in Tapes \ Tried(i) : known[t].epoch # 0 /\ ~Protected(t)}
Reusable(i) ==
  {t \in Tapes \ (Tried(i) \cup reserved) : known[t].epoch # 0 /\ ~Protected(t)}

Take(i, t, epoch, next) ==
  /\ reserved' = reserved \cup {t}
  /\ drive' = [drive EXCEPT ![i].tape = t, ![i].started = TRUE, ![i].tried = @ \cup {t},
                            ![i].fill = Accepted(i, t, epoch), ![i].pc = next]

Stamp(t, epoch) ==
  tape' = [tape EXCEPT ![t] = [epoch |-> epoch, at |-> run, files |-> <<>>]]
Learn(t, epoch, at) == known' = [known EXCEPT ![t] = [epoch |-> epoch, at |-> at]]

\* Allocations, rolls and records cross the run's one orchestrator.
OrchestratorFree == wiped = 0
Allocating(i) == drive[i].pc = "alloc" /\ OrchestratorFree

\* The archive fails; its lane trips, and nothing further is started on it.
Abandon(i, t, started, fill) ==
  /\ drive' = [drive EXCEPT ![i] = [@ EXCEPT !.tape = t, !.started = started, !.fill = fill,
                                             !.pc = "idle", !.arch = NoArchive,
                                             !.parts = <<>>, !.lens = <<>>]]
  /\ todo' = {}
-----------------------------------------------------------------------------
(* A run: the archives it dumps to the holding disk, and what earlier runs *)
(* left there, go to the library.                                          *)

StartRun ==
  /\ run < MaxRuns /\ todo = {} /\ wiped = 0
  /\ \A i \in Drives : drive[i].pc = "idle"
  /\ run' = run + 1
  /\ staged' = (staged \cup {<<run', d>> : d \in DLEs}) \ Placed
  /\ todo' = staged'
  /\ reserved' = {}
  /\ drive' = [i \in Drives |-> [Idle EXCEPT !.tape = drive[i].tape]]
  /\ UNCHANGED <<tape, known, placed, wiped, faults, misled>>

Begin(i) ==
  /\ drive[i].pc = "idle"
  /\ \E a \in todo :
       /\ \A b \in todo : a[1] <= b[1]
       /\ todo' = todo \ {a}
       /\ drive' = [drive EXCEPT ![i].pc = "alloc", ![i].arch = a]
  /\ UNCHANGED <<tape, known, placed, staged, run, reserved, wiped, faults, misled>>

\* The loaded volume has room.
Ready(i) ==
  /\ Allocating(i) /\ drive[i].started /\ Room(i) > 0
  /\ drive' = [drive EXCEPT ![i].pc = "write"]
  /\ UNCHANGED <<tape, known, placed, staged, run, todo, reserved, wiped, faults, misled>>

\* PrepareWrite on the reel in the drive: taken if it verifies, labeled if it is blank.
PrepareLoaded(i) ==
  LET t == drive[i].tape
  IN /\ Allocating(i) /\ ~drive[i].started /\ t # 0
     /\ \/ /\ Verifies(t)
           /\ Take(i, t, tape[t].epoch, "alloc") /\ Learn(t, tape[t].epoch, tape[t].at)
           /\ UNCHANGED tape
        \/ ~Labeled(t) /\ Stamp(t, 1) /\ Learn(t, 1, run) /\ Take(i, t, 1, "alloc")
     /\ UNCHANGED <<placed, staged, run, todo, wiped, faults, misled>>

\* Relabeled since the catalog was updated: refused until nb rebuild.
PrepareStale(i) ==
  LET t == drive[i].tape
  IN /\ Allocating(i) /\ ~drive[i].started /\ t # 0
     /\ Labeled(t) /\ ~Verifies(t)
     /\ Abandon(i, t, FALSE, drive[i].fill)
     /\ UNCHANGED <<tape, known, placed, staged, run, reserved, wiped, faults, misled>>

Rolling(i) ==
  /\ Allocating(i)
  /\ IF drive[i].started THEN Room(i) = 0 ELSE drive[i].tape = 0

\* The first labeled reel that verifies.
RollToLabeled(i) ==
  /\ Rolling(i)
  /\ \E t \in Writable(i) :
       /\ \A u \in Writable(i) : t <= u
       /\ Take(i, t, tape[t].epoch, AfterRoll(i)) /\ Learn(t, tape[t].epoch, tape[t].at)
  /\ UNCHANGED <<tape, placed, staged, run, todo, wiped, faults, misled>>

\* Else a blank, labeled automatically.
RollToBlank(i) ==
  /\ Rolling(i) /\ Writable(i) = {}
  /\ \E t \in Blanks :
       /\ \A u \in Blanks : t <= u
       /\ Stamp(t, 1) /\ Learn(t, 1, run) /\ Take(i, t, 1, AfterRoll(i))
  /\ UNCHANGED <<placed, staged, run, todo, wiped, faults, misled>>

\* Else the oldest reusable reel, moved out of another drive if it is in one.  WriteLabel
\* resets it; the new epoch is the catalog's plus one.
NextEpoch(t) == known[t].epoch + 1

Recycle(i) ==
  /\ Rolling(i) /\ Writable(i) = {} /\ Blanks = {}
  /\ \E t \in OldestOf(Reusable(i)) :
       /\ Stamp(t, NextEpoch(t)) /\ wiped' = t
       /\ reserved' = reserved \cup {t}
       /\ drive' = [j \in Drives |->
            IF j = i THEN [drive[i] EXCEPT !.tape = t, !.pc = "reconcile"]
            ELSE IF drive[j].tape = t THEN [drive[j] EXCEPT !.tape = 0] ELSE drive[j]]
  /\ UNCHANGED <<known, placed, staged, run, todo, faults, misled>>

Reconcile(i) ==
  /\ drive[i].pc = "reconcile"
  /\ placed' = WithoutRunsOn(wiped) /\ Learn(wiped, tape[wiped].epoch, tape[wiped].at)
  /\ Take(i, wiped, tape[wiped].epoch, "alloc")
  /\ wiped' = 0
  /\ UNCHANGED <<tape, staged, run, todo, faults, misled>>

\* Every reel is protected, reserved or refused.  The scan leaves some reel in the drive,
\* so the allocator starts over from the label check.
RollFails(i) ==
  /\ Rolling(i) /\ Writable(i) = {} /\ Blanks = {} /\ Reusable(i) = {}
  /\ \E t \in Shelf \cup {drive[i].tape} :
       Abandon(i, t, FALSE, IF t # 0 /\ Verifies(t) THEN Accepted(i, t, tape[t].epoch)
                                                  ELSE drive[i].fill)
  /\ UNCHANGED <<tape, known, placed, staged, run, reserved, wiped, faults, misled>>
-----------------------------------------------------------------------------
(* The files. *)

PartSize(i) == IF Left(i) <= Room(i) THEN Left(i) ELSE Room(i)
Append1(t, f) == tape' = [tape EXCEPT ![t].files = Append(@, f)]
HereNext(t) == [tape |-> t, epoch |-> tape[t].epoch, pos |-> Len(tape[t].files) + 1]

\* A part takes what is left of the archive or of the reel; the footer, once no payload is
\* left, lists the parts.
WriteFile(i) ==
  LET t == drive[i].tape
  IN /\ drive[i].pc = "write" /\ t # 0
     /\ \/ \E n \in 1..Size :
             /\ ~Streamed(i) /\ n = PartSize(i) /\ Fill(t) + n <= Cap
             /\ Append1(t, [arch |-> drive[i].arch, part |-> Len(drive[i].parts) + 1,
                            len |-> n, map |-> <<>>, lens |-> <<>>])
             /\ drive' = [drive EXCEPT ![i].parts = Append(@, HereNext(t)),
                                       ![i].lens = Append(@, n),
                                       ![i].fill.used = @ + n, ![i].pc = "alloc"]
        \/ /\ Streamed(i) /\ Fill(t) + FooterCost <= Cap
           /\ Append1(t, [arch |-> drive[i].arch, part |-> 0, len |-> FooterCost,
                          map |-> drive[i].parts, lens |-> drive[i].lens])
           /\ drive' = [drive EXCEPT ![i].fill.used = @ + FooterCost, ![i].pc = "record"]
     /\ UNCHANGED <<known, placed, staged, run, todo, reserved, wiped, faults, misled>>

\* End of tape, or no tape: the file is discarded.
VolumeFull(i) ==
  LET t == drive[i].tape
      n == IF Streamed(i) THEN FooterCost ELSE PartSize(i)
  IN /\ drive[i].pc = "write" /\ (t = 0 \/ Fill(t) + n > Cap)
     /\ Abandon(i, t, TRUE, drive[i].fill)
     /\ UNCHANGED <<tape, known, placed, staged, run, reserved, wiped, faults, misled>>

WriteFails(i) ==
  /\ drive[i].pc = "write"
  /\ faults < MaxFaults /\ faults' = faults + 1
  /\ Abandon(i, drive[i].tape, TRUE, drive[i].fill)
  /\ UNCHANGED <<tape, known, placed, staged, run, reserved, wiped, misled>>

\* The commit result reaches the catalog, and the staged copy goes.
Record(i) ==
  LET a == drive[i].arch
      t == drive[i].tape
      p == [parts |-> drive[i].parts, lens |-> drive[i].lens,
            commit |-> [tape |-> t, epoch |-> tape[t].epoch, pos |-> Len(tape[t].files)]]
  IN /\ drive[i].pc = "record" /\ OrchestratorFree
     /\ placed' = [b \in Placed \cup {a} |-> IF b = a THEN p ELSE placed[b]]
     /\ staged' = staged \ {a}
     /\ drive' = [drive EXCEPT ![i].pc = "idle", ![i].arch = NoArchive,
                               ![i].parts = <<>>, ![i].lens = <<>>]
     /\ UNCHANGED <<tape, known, run, todo, reserved, wiped, faults, misled>>
-----------------------------------------------------------------------------
(* Between runs. *)

Stopped == todo = {} /\ \A i \in Drives : drive[i].pc = "idle"

\* Whatever the process held is gone; the reels stay in the drives.
Crash ==
  /\ ~Stopped \/ wiped # 0
  /\ faults < MaxFaults /\ faults' = faults + 1
  /\ todo' = {} /\ reserved' = {} /\ wiped' = 0
  /\ drive' = [i \in Drives |-> [Idle EXCEPT !.tape = drive[i].tape]]
  /\ UNCHANGED <<tape, known, placed, staged, run, misled>>

\* nb label --relabel (after nb load): the reel ends in the first drive, so it is in no
\* other; refused if it is protected.
FirstDrive == Min(Drives)

RelabelByHand(t) ==
  /\ Stopped /\ wiped = 0 /\ Labeled(t) /\ ~Protected(t)
  /\ \A j \in Drives \ {FirstDrive} : drive[j].tape # t
  /\ drive' = [drive EXCEPT ![FirstDrive].tape = t]
  /\ faults < MaxFaults /\ faults' = faults + 1
  /\ Stamp(t, tape[t].epoch + 1) /\ wiped' = t
  /\ UNCHANGED <<known, placed, staged, run, todo, reserved, misled>>

ReconcileByHand ==
  /\ Stopped /\ wiped # 0
  /\ placed' = WithoutRunsOn(wiped) /\ Learn(wiped, tape[wiped].epoch, tape[wiped].at)
  /\ wiped' = 0
  /\ UNCHANGED <<tape, staged, run, todo, reserved, drive, faults, misled>>

\* nb rebuild; with every reel within reach, an additive and a full one agree.
\* The reels in the drives are read first, then the slots in order; among files of one
\* part or footer the last one read is the one the catalog takes.
ReadBefore(f, g) ==
  IF f.tape = g.tape THEN f.pos < g.pos
  ELSE IF f.tape \in Loaded /\ g.tape \in Loaded
    THEN \E i, j \in Drives : i < j /\ drive[i].tape = f.tape /\ drive[j].tape = g.tape
  ELSE IF f.tape \in Loaded \/ g.tape \in Loaded THEN f.tape \in Loaded
  ELSE f.tape < g.tape

FileAt(fp) == tape[fp.tape].files[fp.pos]
FilesOn(t) == {[tape |-> t, epoch |-> tape[t].epoch, pos |-> k] : k \in DOMAIN tape[t].files}
Files == UNION {FilesOn(t) : t \in Tapes}
Scanned == {FileAt(fp).arch : fp \in Files}
Seen(a, part) == {fp \in Files : FileAt(fp).arch = a /\ FileAt(fp).part = part}
LastRead(S) == CHOOSE f \in S : \A g \in S : g = f \/ ReadBefore(g, f)

\* A part no reel shows keeps the position the footer gives it.
Assembled(a) ==
  LET c == LastRead(Seen(a, 0))
      map == FileAt(c).map
  IN [parts |-> [k \in DOMAIN map |-> IF Seen(a, k) # {} THEN LastRead(Seen(a, k)) ELSE map[k]],
      lens |-> FileAt(c).lens, commit |-> c]

\* What misleads a rebuild: two attempts at one archive; a footer that lists a part which
\* was wiped with its reel.
TwoAttempts ==
  \E f, g \in Files : f # g /\ FileAt(f).arch = FileAt(g).arch /\ FileAt(f).part = FileAt(g).part
GhostFooter ==
  \E a \in Scanned : \E c \in Seen(a, 0) : \E k \in DOMAIN FileAt(c).map :
    FileAt(c).map[k] \notin Seen(a, k)

Rebuild ==
  /\ Stopped /\ wiped = 0
  /\ known' = [t \in Tapes |-> [epoch |-> tape[t].epoch, at |-> tape[t].at]]
  /\ placed' = [a \in {b \in Scanned : Seen(b, 0) # {}} |-> Assembled(a)]
  /\ misled' = (misled \/ TwoAttempts \/ GhostFooter)
  /\ UNCHANGED <<tape, staged, run, todo, reserved, drive, wiped, faults>>
-----------------------------------------------------------------------------
Next ==
  \/ StartRun \/ Crash \/ ReconcileByHand \/ Rebuild
  \/ \E t \in Tapes : RelabelByHand(t)
  \/ \E i \in Drives :
       \/ Begin(i) \/ Ready(i) \/ PrepareLoaded(i) \/ PrepareStale(i)
       \/ RollToLabeled(i) \/ RollToBlank(i) \/ Recycle(i) \/ Reconcile(i) \/ RollFails(i)
       \/ WriteFile(i) \/ VolumeFull(i) \/ WriteFails(i) \/ Record(i)

Spec == Init /\ [][Next]_vars
-----------------------------------------------------------------------------
FilePos == [tape : Tapes, epoch : Nat, pos : Nat]
File == [arch : Archives, part : Nat, len : Nat, map : Seq(FilePos), lens : Seq(Nat)]

\* Every variable has its type, and no reel is in two drives.
TypeOK ==
  /\ tape \in [Tapes -> [epoch : Nat, at : 0..MaxRuns, files : Seq(File)]]
  /\ known \in [Tapes -> [epoch : Nat, at : 0..MaxRuns]]
  /\ Placed \subseteq Archives
  /\ \A a \in Placed : placed[a] \in [parts : Seq(FilePos), lens : Seq(Nat), commit : FilePos]
  /\ staged \subseteq Archives /\ todo \subseteq Archives /\ run \in 0..MaxRuns
  /\ reserved \subseteq Tapes
  /\ \A i \in Drives :
       /\ drive[i].tape \in Tapes \cup {0} /\ drive[i].started \in BOOLEAN
       /\ drive[i].tried \subseteq Tapes
       /\ drive[i].pc \in {"idle", "alloc", "reconcile", "write", "record"}
       /\ drive[i].arch \in Archives \cup {NoArchive}
       /\ drive[i].parts \in Seq(FilePos) /\ drive[i].lens \in Seq(Nat)
       /\ \A j \in Drives \ {i} : drive[i].tape = drive[j].tape => drive[i].tape = 0
  /\ wiped \in Tapes \cup {0} /\ faults \in 0..MaxFaults /\ misled \in BOOLEAN

Holds(fp, a, k, n) ==
  /\ tape[fp.tape].epoch = fp.epoch /\ fp.pos \in DOMAIN tape[fp.tape].files
  /\ LET f == FileAt(fp) IN f.arch = a /\ f.part = k /\ f.len = n

Whole(a) ==
  /\ Total(placed[a].lens) = Size
  /\ \A k \in DOMAIN placed[a].parts : Holds(placed[a].parts[k], a, k, placed[a].lens[k])

Latest == {a \in Placed : \A b \in Placed : b[2] = a[2] => b[1] <= a[1]}

\* Whatever two drives roll over, crash in, relabel or rebuild: the latest archive of
\* every DLE that the catalog places on the library can be read back from its reels
\* (as long as no rebuild has been misled).
LatestWhole == ~misled => \A a \in Latest : Whole(a)

\* What a drive has written of the archive in hand, which the catalog does not know yet,
\* is not wiped by another drive's roll.
InHandKept ==
  \A i \in Drives : \A k \in DOMAIN drive[i].parts :
    Holds(drive[i].parts[k], drive[i].arch, k, drive[i].lens[k])

\* The epoch tells a wiped file from a live one: a placement that names a reel's current
\* epoch names a file that is there, and is the part it is taken for.
EpochTells ==
  ~misled => \A a \in Placed : \A k \in DOMAIN placed[a].parts :
    LET fp == placed[a].parts[k]
    IN tape[fp.tape].epoch = fp.epoch => Holds(fp, a, k, placed[a].lens[k])

\* Both: a file is where whoever names it takes it to be.
FilesAreNamed == InHandKept /\ EpochTells

\* flush.go: "Every landing on the route holds the archive now ... so the staged copy can
\* go": a staged copy is only removed when the reels hold the archive.
StagedUntilWhole == [][\A a \in staged \ staged' : Whole(a)']_vars
=============================================================================
