------------------------- MODULE TapeRotationProofs -------------------------
(***************************************************************************)
(* For any library, drives, DLEs and sizes: the types, that a file is      *)
(* where whoever names it takes it to be, and that the latest archives the *)
(* catalog places can be read back.                                        *)
(*                                                                         *)
(* What protects a file is an epoch: the catalog has never heard of a      *)
(* later epoch of a reel than its own (Reels), nobody names an epoch the   *)
(* catalog has not heard of, and a wipe takes one it has not (Tells, Ages).*)
(* So a name either still finds its file or no longer matches the reel.    *)
(* Three things never let the latter happen: a reel this run writes is     *)
(* reserved (Hand), a reel with a latest archive is protected (Live), and  *)
(* between a wipe and its reconciliation nothing is recorded (Wipe).       *)
(***************************************************************************)
EXTENDS TapeRotation, FiniteSetTheorems, WellFoundedInduction, TLAPS

\* The parts of TypeOK.
MediaTypes ==
  /\ tape \in [Tapes -> [epoch : Nat, at : 0..MaxRuns, files : Seq(File)]]
  /\ known \in [Tapes -> [epoch : Nat, at : 0..MaxRuns]]
CatalogTypes ==
  /\ Placed \subseteq Archives
  /\ \A a \in Placed : placed[a] \in [parts : Seq(FilePos), lens : Seq(Nat), commit : FilePos]
RunTypes ==
  /\ staged \subseteq Archives /\ todo \subseteq Archives /\ run \in 0..MaxRuns
  /\ reserved \subseteq Tapes
  /\ wiped \in Tapes \cup {0} /\ faults \in 0..MaxFaults /\ misled \in BOOLEAN
DriveTypes(i) ==
  /\ drive[i].tape \in Tapes \cup {0} /\ drive[i].started \in BOOLEAN
  /\ drive[i].tried \subseteq Tapes
  /\ drive[i].pc \in {"idle", "alloc", "reconcile", "write", "record"}
  /\ drive[i].arch \in Archives \cup {NoArchive}
  /\ drive[i].parts \in Seq(FilePos) /\ drive[i].lens \in Seq(Nat)
Apart == \A i, j \in Drives : drive[i].tape = drive[j].tape => i = j \/ drive[i].tape = 0

\* A drive is a record.
Fields == {"tape", "started", "tried", "fill", "pc", "arch", "parts", "lens"}
Shaped == DOMAIN drive = Drives /\ \A i \in Drives : DOMAIN drive[i] = Fields

\* A reel is at the catalog's epoch of it or a later one; a blank has no files.
Reels ==
  \A t \in Tapes : /\ known[t].epoch <= tape[t].epoch
                   /\ tape[t].epoch = 0 => tape[t].files = <<>>

\* Whoever takes fp for part k of a, n bytes: the catalog has heard of that epoch, and the
\* file is there unless the reel has left it.
Tells(fp, a, k, n) ==
  /\ fp.epoch <= known[fp.tape].epoch
  /\ tape[fp.tape].epoch = fp.epoch => Holds(fp, a, k, n)

\* What a footer lists and what the catalog places.
FooterTells(f) ==
  /\ Total(f.lens) = Size /\ DOMAIN f.map = DOMAIN f.lens
  /\ \A k \in DOMAIN f.map : Tells(f.map[k], f.arch, k, f.lens[k])
Footers ==
  \A t \in Tapes : \A p \in DOMAIN tape[t].files :
    tape[t].files[p].part = 0 => FooterTells(tape[t].files[p])
PlaceTells(a) ==
  /\ Total(placed[a].lens) = Size
  /\ \A k \in DOMAIN placed[a].parts : Tells(placed[a].parts[k], a, k, placed[a].lens[k])
Places0 == ~misled => \A a \in Placed : PlaceTells(a)

\* No reel of a latest archive has been wiped.
Live ==
  ~misled => \A a \in Latest : \A k \in DOMAIN placed[a].parts :
    tape[placed[a].parts[k].tape].epoch = placed[a].parts[k].epoch

\* A reel wiped and not yet reconciled is labeled, and holds no kept run.
Wipe == wiped # 0 => ~Protected(wiped) /\ tape[wiped].epoch # 0

\* A reel a drive is writing: reserved, labeled, and as the catalog knows it.
InUse(t) == t \in reserved /\ known[t].epoch = tape[t].epoch

\* A drive, the archive in its hand and the reel under it.
Hand(i) ==
  /\ drive[i].pc = "idle" => drive[i].parts = <<>> /\ drive[i].lens = <<>>
  /\ DOMAIN drive[i].lens = DOMAIN drive[i].parts
  /\ drive[i].pc # "idle" => drive[i].arch \in Archives
  /\ drive[i].pc = "record" => Streamed(i) /\ drive[i].tape # 0
  /\ drive[i].pc \in {"write", "record"} => drive[i].started = TRUE
  /\ drive[i].pc = "reconcile" => wiped # 0 /\ wiped = drive[i].tape
  /\ ~Stopped /\ drive[i].started = TRUE /\ drive[i].tape # 0 /\ drive[i].pc # "reconcile" =>
       InUse(drive[i].tape)
  /\ \A k \in DOMAIN drive[i].parts :
       /\ drive[i].parts[k].tape \in reserved
       /\ drive[i].parts[k].epoch <= known[drive[i].parts[k].tape].epoch
       /\ Holds(drive[i].parts[k], drive[i].arch, k, drive[i].lens[k])
Hands == \A i \in Drives : Hand(i)
Reserved == \A t \in reserved : tape[t].epoch # 0

IInv ==
  /\ TypeOK /\ Shaped /\ Reels /\ Reserved /\ Wipe /\ Hands
  /\ Footers /\ Places0 /\ Live
-----------------------------------------------------------------------------
(* Helpers. *)

\* TypeOK, split into what the steps touch separately.
LEMMA TypesSplit ==
  TypeOK <=> MediaTypes /\ CatalogTypes /\ RunTypes /\ (\A i \in Drives : DriveTypes(i)) /\ Apart
<1>1. TypeOK <=> /\ MediaTypes /\ CatalogTypes /\ RunTypes
                 /\ \A i \in Drives : /\ DriveTypes(i)
                                      /\ \A j \in Drives \ {i} :
                                           drive[i].tape = drive[j].tape => drive[i].tape = 0
    BY DEF TypeOK, MediaTypes, CatalogTypes, RunTypes, DriveTypes
<1> QED
    BY <1>1 DEF Apart

Below == {r \in Nat \X Nat : r[1] < r[2]}

\* A set of numbers up to n that is not empty has a largest.
LEMMA Largest ==
  ASSUME NEW n \in Nat, NEW S \in SUBSET (0..n), S # {}
  PROVE  \E m \in S : \A k \in S : k <= m
<1> DEFINE T == {n - k : k \in S}
<1>0. \A k \in S : k \in Nat /\ k <= n /\ n - k \in Nat
    OBVIOUS
<1>1. T \subseteq Nat /\ T # {}
  <2>1. T \subseteq Nat
      BY <1>0
  <2>2. T # {}
      BY Zenon
  <2> QED
      BY <2>1, <2>2
<1>2. PICK x \in T : \A y \in T : <<y, x>> \notin Below
  <2> HIDE DEF T
  <2>1. IsWellFoundedOn(Below, Nat)
      BY NatLessThanWellFounded DEF Below, OpToRel
  <2> QED
      BY <1>1, <2>1, WFMin
<1>4. PICK m \in S : x = n - m
    OBVIOUS
<1>5. ASSUME NEW k \in S PROVE k <= m
  <2>1. n - k \in T
      OBVIOUS
  <2>2. ~(n - k < n - m)
      BY <1>0, <1>2, <1>4, <2>1 DEF Below
  <2> QED
      BY <1>0, <2>2
<1> QED
    BY <1>5

\* What one drive's step leaves of the other drives, and of its own archive.
Alone(i) == Shaped' /\ \A j \in Drives \ {i} : drive'[j] = drive[j]
Carries(i) ==
  /\ drive'[i].arch = drive[i].arch
  /\ drive'[i].parts = drive[i].parts /\ drive'[i].lens = drive[i].lens

\* Taking a reel reserves it and puts it under one drive (setVolume).
LEMMA TakeTurns ==
  ASSUME Shaped, NEW i \in Drives, NEW t, NEW epoch, NEW next, Take(i, t, epoch, next)
  PROVE  /\ Alone(i) /\ Carries(i) /\ reserved' = reserved \cup {t}
         /\ drive'[i].tape = t /\ drive'[i].started = TRUE /\ drive'[i].pc = next
         /\ drive'[i].tried = drive[i].tried \cup {t}
  BY DEF Take, Shaped, Fields, Alone, Carries

\* A drive that gives its archive up stops the run and drops its parts.
LEMMA AbandonTurns ==
  ASSUME Shaped, NEW i \in Drives, NEW t, NEW started, NEW fill, Abandon(i, t, started, fill)
  PROVE  /\ Alone(i) /\ todo' = {}
         /\ drive'[i].tape = t /\ drive'[i].started = started /\ drive'[i].pc = "idle"
         /\ drive'[i].tried = drive[i].tried /\ drive'[i].arch = NoArchive
         /\ drive'[i].parts = <<>> /\ drive'[i].lens = <<>>
  BY DEF Abandon, Shaped, Fields, Alone

PartInHand(i, here, n) ==
  /\ Alone(i)
  /\ drive'[i].tape = drive[i].tape /\ drive'[i].started = drive[i].started
  /\ drive'[i].pc = "alloc" /\ drive'[i].tried = drive[i].tried
  /\ drive'[i].arch = drive[i].arch
  /\ drive'[i].parts = Append(drive[i].parts, here)
  /\ drive'[i].lens = Append(drive[i].lens, n)

\* A part written joins those in the drive's hand.
LEMMA PartTurns ==
  ASSUME Shaped, NEW i \in Drives, NEW n, NEW here,
         drive' = [drive EXCEPT ![i].parts = Append(@, here), ![i].lens = Append(@, n),
                                ![i].fill.used = @ + n, ![i].pc = "alloc"]
  PROVE  PartInHand(i, here, n)
  BY DEF Shaped, Fields, Alone, PartInHand

\* A footer written leaves the archive to be recorded.
LEMMA FooterTurns ==
  ASSUME Shaped, NEW i \in Drives, NEW n,
         drive' = [drive EXCEPT ![i].fill.used = @ + n, ![i].pc = "record"]
  PROVE  /\ Alone(i) /\ Carries(i)
         /\ drive'[i].tape = drive[i].tape /\ drive'[i].started = drive[i].started
         /\ drive'[i].pc = "record" /\ drive'[i].tried = drive[i].tried
  BY DEF Shaped, Fields, Alone, Carries

\* A wiped reel is under the drive that wiped it, and under no other.
LEMMA RecycleTurns ==
  ASSUME Shaped, NEW i \in Drives, NEW t,
         drive' = [j \in Drives |->
            IF j = i THEN [drive[i] EXCEPT !.tape = t, !.pc = "reconcile"]
            ELSE IF drive[j].tape = t THEN [drive[j] EXCEPT !.tape = 0] ELSE drive[j]]
  PROVE  /\ Shaped' /\ Carries(i)
         /\ drive'[i].tape = t /\ drive'[i].started = drive[i].started
         /\ drive'[i].pc = "reconcile" /\ drive'[i].tried = drive[i].tried
         /\ \A j \in Drives \ {i} :
              /\ drive'[j].pc = drive[j].pc /\ drive'[j].started = drive[j].started
              /\ drive'[j].tried = drive[j].tried /\ Carries(j)
              /\ drive'[j].tape = IF drive[j].tape = t THEN 0 ELSE drive[j].tape
  BY DEF Shaped, Fields, Carries

\* A recorded archive leaves its drive idle.
LEMMA RecordTurns ==
  ASSUME Shaped, NEW i \in Drives,
         drive' = [drive EXCEPT ![i].pc = "idle", ![i].arch = NoArchive,
                                ![i].parts = <<>>, ![i].lens = <<>>]
  PROVE  /\ Alone(i)
         /\ drive'[i].tape = drive[i].tape /\ drive'[i].started = drive[i].started
         /\ drive'[i].pc = "idle" /\ drive'[i].tried = drive[i].tried
         /\ drive'[i].arch = NoArchive /\ drive'[i].parts = <<>> /\ drive'[i].lens = <<>>
  BY DEF Shaped, Fields, Alone

\* A drive takes up an archive.
LEMMA BeginTurns ==
  ASSUME Shaped, NEW i \in Drives, NEW a,
         drive' = [drive EXCEPT ![i].pc = "alloc", ![i].arch = a]
  PROVE  /\ Alone(i)
         /\ drive'[i].tape = drive[i].tape /\ drive'[i].started = drive[i].started
         /\ drive'[i].pc = "alloc" /\ drive'[i].tried = drive[i].tried /\ drive'[i].arch = a
         /\ drive'[i].parts = drive[i].parts /\ drive'[i].lens = drive[i].lens
  BY DEF Shaped, Fields, Alone

\* A drive whose reel has room goes on to write.
LEMMA ReadyTurns ==
  ASSUME Shaped, NEW i \in Drives, drive' = [drive EXCEPT ![i].pc = "write"]
  PROVE  /\ Alone(i) /\ Carries(i)
         /\ drive'[i].tape = drive[i].tape /\ drive'[i].started = drive[i].started
         /\ drive'[i].pc = "write" /\ drive'[i].tried = drive[i].tried
  BY DEF Shaped, Fields, Alone, Carries

\* A start or a crash leaves every drive idle on the reel it has.
LEMMA ReloadTurns ==
  ASSUME Shaped, drive' = [i \in Drives |-> [Idle EXCEPT !.tape = drive[i].tape]]
  PROVE  /\ Shaped'
         /\ \A i \in Drives :
              /\ drive'[i].tape = drive[i].tape /\ drive'[i].started = FALSE
              /\ drive'[i].pc = "idle" /\ drive'[i].tried = {} /\ drive'[i].arch = NoArchive
              /\ drive'[i].parts = <<>> /\ drive'[i].lens = <<>>
  BY DEF Shaped, Fields, Idle

\* A reel labeled by hand is left in the first drive.
LEMMA LabelTurns ==
  ASSUME Shaped, NEW t, drive' = [drive EXCEPT ![FirstDrive].tape = t]
  PROVE  /\ Shaped'
         /\ \A i \in Drives :
              /\ drive'[i].pc = drive[i].pc /\ drive'[i].started = drive[i].started
              /\ drive'[i].tried = drive[i].tried /\ Carries(i)
              /\ drive'[i].tape = IF i = FirstDrive THEN t ELSE drive[i].tape
  BY DEF Shaped, Fields, Carries
-----------------------------------------------------------------------------
(* Types. *)

TapeType == [Tapes -> [epoch : Nat, at : 0..MaxRuns, files : Seq(File)]]
KnownType == [Tapes -> [epoch : Nat, at : 0..MaxRuns]]

\* A label begins a reel anew: its epoch, this run, no files.
LEMMA StampDoes ==
  ASSUME tape \in TapeType, run \in 0..MaxRuns, NEW t \in Tapes, NEW e \in Nat, Stamp(t, e)
  PROVE  /\ tape' \in TapeType
         /\ tape'[t].epoch = e /\ tape'[t].at = run /\ tape'[t].files = <<>>
         /\ \A u \in Tapes \ {t} : tape'[u] = tape[u]
  BY DEF Stamp, TapeType

\* The catalog learns one reel's epoch.
LEMMA LearnDoes ==
  ASSUME known \in KnownType, NEW t \in Tapes, NEW e \in Nat, NEW at \in 0..MaxRuns,
         Learn(t, e, at)
  PROVE  /\ known' \in KnownType /\ known'[t].epoch = e
         /\ \A u \in Tapes \ {t} : known'[u] = known[u]
  BY DEF Learn, KnownType

\* A file goes to the end of one reel.
LEMMA AppendDoes ==
  ASSUME tape \in TapeType, NEW t \in Tapes, NEW f \in File, Append1(t, f)
  PROVE  /\ tape' \in TapeType
         /\ tape'[t].epoch = tape[t].epoch /\ tape'[t].at = tape[t].at
         /\ tape'[t].files = Append(tape[t].files, f)
         /\ \A u \in Tapes \ {t} : tape'[u] = tape[u]
<1>1. tape[t].files \in Seq(File)
    BY DEF TapeType
<1>2. Append(tape[t].files, f) \in Seq(File)
    BY <1>1
<1> QED
    BY <1>2 DEF Append1, TapeType

\* A part in hand and a footer are files.
LEMMA PartIsFile ==
  ASSUME TypeOK, NEW i \in Drives, drive[i].arch \in Archives, NEW n \in Nat
  PROVE  [arch |-> drive[i].arch, part |-> Len(drive[i].parts) + 1, len |-> n,
          map |-> <<>>, lens |-> <<>>] \in File
<1>1. drive[i].parts \in Seq(FilePos)
    BY DEF TypeOK
<1>2. Len(drive[i].parts) + 1 \in Nat
    BY <1>1
<1> QED
    BY <1>2 DEF File

\* The footer of an archive in hand is a file.
LEMMA FooterIsFile ==
  ASSUME TypeOK, NEW i \in Drives, drive[i].arch \in Archives
  PROVE  [arch |-> drive[i].arch, part |-> 0, len |-> FooterCost,
          map |-> drive[i].parts, lens |-> drive[i].lens] \in File
  BY DEF TypeOK, File, FooterCost

\* The end of a reel is a position, and so is its last file's.
LEMMA HereIsPos ==
  ASSUME MediaTypes, NEW t \in Tapes
  PROVE  /\ HereNext(t) \in FilePos
         /\ [tape |-> t, epoch |-> tape[t].epoch, pos |-> Len(tape[t].files)] \in FilePos
<1>1. tape[t].files \in Seq(File) /\ tape[t].epoch \in Nat
    BY DEF MediaTypes
<1>2. Len(tape[t].files) \in Nat
    BY <1>1
<1> QED
    BY <1>1, <1>2 DEF HereNext, FilePos
-----------------------------------------------------------------------------
(* The order in which a rebuild reads the files has a last one in every set of them. *)

\* A file the shelf holds: where it is and at which epoch.
LEMMA FileFacts ==
  ASSUME MediaTypes, NEW f \in Files
  PROVE  /\ f \in FilePos
         /\ f.tape \in Tapes /\ f.epoch = tape[f.tape].epoch
         /\ f.pos \in DOMAIN tape[f.tape].files /\ FileAt(f) \in File
         /\ f = [tape |-> f.tape, epoch |-> tape[f.tape].epoch, pos |-> f.pos]
<1>1. PICK t \in Tapes : f \in FilesOn(t)
    BY DEF Files
<1>2. PICK k \in DOMAIN tape[t].files : f = [tape |-> t, epoch |-> tape[t].epoch, pos |-> k]
    BY <1>1 DEF FilesOn
<1>3. tape[t].files \in Seq(File) /\ tape[t].epoch \in Nat
    BY DEF MediaTypes
<1>4. k \in Nat /\ tape[t].files[k] \in File
    BY <1>2, <1>3
<1> QED
    BY <1>2, <1>3, <1>4 DEF FileAt, FilePos

\* Of the files on one reel, the last.
LEMMA LastOnReel ==
  ASSUME MediaTypes, NEW S \in SUBSET Files, NEW t, \E f \in S : f.tape = t
  PROVE  \E f \in S : f.tape = t /\ \A g \in S : g.tape = t => g = f \/ ReadBefore(g, f)
<1> DEFINE P == {f.pos : f \in {g \in S : g.tape = t}}
<1>1. t \in Tapes
    BY FileFacts
<1>2. tape[t].files \in Seq(File)
    BY <1>1 DEF MediaTypes
<1>3. P \in SUBSET (0..Len(tape[t].files)) /\ P # {} /\ Len(tape[t].files) \in Nat
  <2>1. \A f \in S : f.tape = t => f.pos \in 1..Len(tape[t].files)
      BY <1>2, FileFacts
  <2> QED
      BY <1>2, <2>1
<1>4. PICK m \in P : \A k \in P : k <= m
  <2> HIDE DEF P
  <2> QED
      BY <1>3, Largest
<1>5. PICK f \in S : f.tape = t /\ f.pos = m
    OBVIOUS
<1>6. ASSUME NEW g \in S, g.tape = t PROVE g = f \/ ReadBefore(g, f)
  <2>1. g.pos \in P /\ g.pos <= f.pos
      BY <1>4, <1>5, <1>6
  <2>2. g.pos \in Nat /\ f.pos \in Nat
      BY FileFacts DEF FilePos
  <2>3. CASE g.pos = f.pos
      BY <1>5, <1>6, <2>3, FileFacts
  <2>4. CASE g.pos < f.pos
      BY <1>5, <1>6, <2>4 DEF ReadBefore
  <2> QED
      BY <2>1, <2>2, <2>3, <2>4
<1> QED
    BY <1>5, <1>6

\* A scan's order has a last file in every set of them.
LEMMA ALastOne ==
  ASSUME MediaTypes, Apart, \A i \in Drives : DriveTypes(i), NEW S \in SUBSET Files, S # {}
  PROVE  LastRead(S) \in S
<1> SUFFICES \E f \in S : \A g \in S : g = f \/ ReadBefore(g, f)
    BY DEF LastRead
<1>1. CASE \E f \in S : f.tape \notin Loaded
  <2> DEFINE T == {f.tape : f \in {g \in S : g.tape \notin Loaded}}
  <2>1. T \in SUBSET (0..Cardinality(Tapes)) /\ T # {} /\ Cardinality(Tapes) \in Nat
    <3>1. Cardinality(Tapes) \in Nat /\ Tapes = 1..Cardinality(Tapes)
        BY RotationAssumption, FS_CardinalityType
    <3>2. \A f \in S : f.tape \in 1..Cardinality(Tapes)
        BY <3>1, FileFacts
    <3>3. T # {}
        BY <1>1
    <3>4. T \subseteq 0..Cardinality(Tapes)
        BY <3>1, <3>2
    <3> QED
        BY <3>1, <3>3, <3>4
  <2>2. PICK t \in T : \A u \in T : u <= t
    <3> HIDE DEF T
    <3> QED
        BY <2>1, Largest
  <2>3. t \notin Loaded /\ \E f \in S : f.tape = t
      OBVIOUS
  <2>4. PICK f \in S : f.tape = t /\ \A g \in S : g.tape = t => g = f \/ ReadBefore(g, f)
      BY <2>3, LastOnReel
  <2>5. ASSUME NEW g \in S, g.tape # t PROVE ReadBefore(g, f)
    <3>1. CASE g.tape \in Loaded
        BY <2>3, <2>4, <2>5, <3>1 DEF ReadBefore
    <3>2. CASE g.tape \notin Loaded
      <4>1. g.tape <= t /\ g.tape \in Nat /\ t \in Nat
          BY <2>1, <2>2, <3>2
      <4> QED
          BY <2>3, <2>4, <2>5, <3>2, <4>1 DEF ReadBefore
    <3> QED
        BY <3>1, <3>2
  <2> QED
      BY <2>4, <2>5
<1>2. CASE \A f \in S : f.tape \in Loaded
  <2> DEFINE J == {j \in Drives : \E f \in S : drive[j].tape = f.tape}
  <2>1. J \in SUBSET (0..Cardinality(Drives)) /\ J # {} /\ Cardinality(Drives) \in Nat
    <3>1. Cardinality(Drives) \in Nat /\ Drives = 1..Cardinality(Drives)
        BY RotationAssumption, FS_CardinalityType
    <3>2. J # {}
        BY <1>2 DEF Loaded
    <3> QED
        BY <3>1, <3>2
  <2>2. PICK j \in J : \A k \in J : k <= j
    <3> HIDE DEF J
    <3> QED
        BY <2>1, Largest
  <2>3. \E f \in S : f.tape = drive[j].tape
      OBVIOUS
  <2>4. PICK f \in S : /\ f.tape = drive[j].tape
                       /\ \A g \in S : g.tape = drive[j].tape => g = f \/ ReadBefore(g, f)
      BY <2>3, LastOnReel
  <2>5. ASSUME NEW g \in S, g.tape # drive[j].tape PROVE ReadBefore(g, f)
    <3>1. PICK k \in Drives : drive[k].tape = g.tape
        BY <1>2 DEF Loaded
    <3>2. k \in J /\ k <= j /\ k # j /\ k \in Nat /\ j \in Nat
        BY <2>1, <2>2, <2>5, <3>1
    <3> QED
        BY <1>2, <2>4, <2>5, <3>1, <3>2 DEF ReadBefore
  <2> QED
      BY <2>4, <2>5
<1> QED
    BY <1>1, <1>2
-----------------------------------------------------------------------------
(* What a step does to reels and to what the catalog has heard of them. *)

KeepsFiles(t) ==
  /\ tape'[t].epoch = tape[t].epoch
  /\ \A p \in DOMAIN tape[t].files :
       p \in DOMAIN tape'[t].files /\ tape'[t].files[p] = tape[t].files[p]
WipesFiles(t) == known[t].epoch < tape'[t].epoch /\ tape'[t].files = <<>>
Ages(t) == known[t].epoch <= known'[t].epoch /\ (KeepsFiles(t) \/ WipesFiles(t))
Media == MediaTypes' /\ Reels' /\ \A t \in Tapes : Ages(t)

\* Nothing but files added happens to this reel; the catalog may catch up with it.
Spared(t) == KeepsFiles(t) /\ known'[t].epoch \in {known[t].epoch, tape[t].epoch}

\* Nothing written, nothing learned: the reels are spared.
LEMMA QuietMedia ==
  ASSUME IInv, UNCHANGED <<tape, known>>
  PROVE  Media /\ \A t \in Tapes : Spared(t)
<1>1. MediaTypes /\ Reels
    BY TypesSplit DEF IInv
<1>2. \A t \in Tapes : known[t].epoch \in Nat
    BY <1>1 DEF MediaTypes
<1> QED
    BY <1>1, <1>2 DEF Media, MediaTypes, Reels, Ages, KeepsFiles, Spared

\* To hear of a reel's epoch wipes nothing.
LEMMA HeardMedia ==
  ASSUME IInv, NEW t \in Tapes, UNCHANGED tape, Learn(t, tape[t].epoch, tape[t].at)
  PROVE  Media /\ known'[t].epoch = tape[t].epoch /\ \A u \in Tapes : Spared(u)
<1>1. tape \in TapeType /\ known \in KnownType /\ Reels
    BY TypesSplit DEF IInv, MediaTypes, TapeType, KnownType
<1>2. tape[t].epoch \in Nat /\ tape[t].at \in 0..MaxRuns
    BY <1>1 DEF TapeType
<1>3. /\ known' \in KnownType /\ known'[t].epoch = tape[t].epoch
      /\ \A u \in Tapes \ {t} : known'[u] = known[u]
    BY <1>1, <1>2, LearnDoes
<1>4. \A u \in Tapes : known[u].epoch \in Nat /\ tape[u].epoch \in Nat
    BY <1>1 DEF KnownType, TapeType
<1>5. MediaTypes'
    BY <1>1, <1>3 DEF MediaTypes, KnownType, TapeType
<1> QED
    BY <1>1, <1>3, <1>4, <1>5 DEF Media, Reels, Ages, KeepsFiles, Spared

\* A label on a blank reel takes no file anybody named.
LEMMA LabelMedia ==
  ASSUME IInv, NEW t \in Tapes, ~Labeled(t), Stamp(t, 1), Learn(t, 1, run)
  PROVE  /\ Media /\ known'[t].epoch = 1 /\ tape'[t].epoch = 1
         /\ \A u \in Tapes \ {t} : Spared(u)
<1>1. tape \in TapeType /\ known \in KnownType /\ Reels /\ run \in 0..MaxRuns
    BY TypesSplit DEF IInv, MediaTypes, TapeType, KnownType, RunTypes
<1>2. /\ tape' \in TapeType /\ tape'[t].epoch = 1 /\ tape'[t].files = <<>>
      /\ \A u \in Tapes \ {t} : tape'[u] = tape[u]
    BY <1>1, StampDoes
<1>3. /\ known' \in KnownType /\ known'[t].epoch = 1
      /\ \A u \in Tapes \ {t} : known'[u] = known[u]
    BY <1>1, LearnDoes
<1>4. \A u \in Tapes : known[u].epoch \in Nat /\ tape[u].epoch \in Nat
    BY <1>1 DEF KnownType, TapeType
<1>5. MediaTypes'
    BY <1>2, <1>3 DEF MediaTypes, KnownType, TapeType
<1>6. tape[t].epoch = 0 /\ known[t].epoch = 0
    BY <1>1, <1>4 DEF Labeled, Reels
<1>7. Reels'
    BY <1>1, <1>2, <1>3 DEF Reels
<1>8. \A u \in Tapes \ {t} : Spared(u) /\ Ages(u)
    BY <1>2, <1>3, <1>4 DEF Spared, KeepsFiles, Ages
<1>9. Ages(t)
    BY <1>2, <1>3, <1>6 DEF Ages, WipesFiles
<1> QED
    BY <1>2, <1>3, <1>5, <1>7, <1>8, <1>9 DEF Media

\* A wipe takes an epoch the catalog has not heard of; the other reels are spared.
LEMMA WipeMedia ==
  ASSUME IInv, NEW t \in Tapes, NEW e \in Nat, known[t].epoch < e, Stamp(t, e), UNCHANGED known
  PROVE  /\ Media /\ tape'[t].epoch = e /\ e # 0
         /\ \A u \in Tapes \ {t} : Spared(u)
<1>1. tape \in TapeType /\ known \in KnownType /\ Reels /\ run \in 0..MaxRuns
    BY TypesSplit DEF IInv, MediaTypes, TapeType, KnownType, RunTypes
<1>2. /\ tape' \in TapeType /\ tape'[t].epoch = e /\ tape'[t].files = <<>>
      /\ \A u \in Tapes \ {t} : tape'[u] = tape[u]
    BY <1>1, StampDoes
<1>3. \A u \in Tapes : known[u].epoch \in Nat
    BY <1>1 DEF KnownType
<1>4. MediaTypes'
    BY <1>1, <1>2 DEF MediaTypes, KnownType, TapeType
<1>5. Reels'
    BY <1>1, <1>2, <1>3 DEF Reels
<1>6. \A u \in Tapes \ {t} : Spared(u) /\ Ages(u)
    BY <1>2, <1>3 DEF Spared, KeepsFiles, Ages
<1>7. Ages(t)
    BY <1>2, <1>3 DEF Ages, WipesFiles
<1> QED
    BY <1>2, <1>3, <1>4, <1>5, <1>6, <1>7 DEF Media

\* A file added spares every file there is.
LEMMA AddMedia ==
  ASSUME IInv, NEW t \in Tapes, tape[t].epoch # 0, NEW f \in File, Append1(t, f), UNCHANGED known
  PROVE  /\ Media /\ \A u \in Tapes : Spared(u)
         /\ tape'[t].files = Append(tape[t].files, f)
         /\ \A u \in Tapes \ {t} : tape'[u] = tape[u]
         /\ Len(tape[t].files) + 1 \in DOMAIN tape'[t].files
         /\ tape'[t].files[Len(tape[t].files) + 1] = f
         /\ \A p \in DOMAIN tape'[t].files :
              \/ p \in DOMAIN tape[t].files /\ tape'[t].files[p] = tape[t].files[p]
              \/ tape'[t].files[p] = f
<1>1. tape \in TapeType /\ known \in KnownType /\ Reels
    BY TypesSplit DEF IInv, MediaTypes, TapeType, KnownType
<1>2. /\ tape' \in TapeType /\ tape'[t].epoch = tape[t].epoch
      /\ tape'[t].files = Append(tape[t].files, f)
      /\ \A u \in Tapes \ {t} : tape'[u] = tape[u]
    BY <1>1, AppendDoes
<1>3. \A u \in Tapes : known[u].epoch \in Nat /\ tape[u].files \in Seq(File)
    BY <1>1 DEF KnownType, TapeType
<1>4. MediaTypes'
    BY <1>1, <1>2 DEF MediaTypes, KnownType, TapeType
<1>5. /\ Len(tape[t].files) + 1 \in DOMAIN tape'[t].files
      /\ tape'[t].files[Len(tape[t].files) + 1] = f
      /\ \A p \in DOMAIN tape[t].files :
           p \in DOMAIN tape'[t].files /\ tape'[t].files[p] = tape[t].files[p]
      /\ \A p \in DOMAIN tape'[t].files :
           p \in DOMAIN tape[t].files \/ p = Len(tape[t].files) + 1
    BY <1>2, <1>3
<1>6. Reels'
    BY <1>1, <1>2 DEF Reels
<1>7. \A u \in Tapes : Spared(u) /\ Ages(u)
    BY <1>2, <1>3, <1>5 DEF Spared, KeepsFiles, Ages
<1> QED
    BY <1>2, <1>4, <1>5, <1>6, <1>7 DEF Media

\* A rebuild hears of every reel's epoch.
LEMMA RebuildMedia ==
  ASSUME IInv, UNCHANGED tape,
         known' = [t \in Tapes |-> [epoch |-> tape[t].epoch, at |-> tape[t].at]]
  PROVE  Media /\ \A t \in Tapes : known'[t].epoch = tape[t].epoch
<1>1. tape \in TapeType /\ known \in KnownType /\ Reels
    BY TypesSplit DEF IInv, MediaTypes, TapeType, KnownType
<1>2. known' \in KnownType /\ \A t \in Tapes : known'[t].epoch = tape[t].epoch
    BY <1>1 DEF TapeType, KnownType
<1>3. \A u \in Tapes : known[u].epoch \in Nat /\ tape[u].epoch \in Nat
    BY <1>1 DEF KnownType, TapeType
<1>4. MediaTypes'
    BY <1>1, <1>2 DEF MediaTypes, KnownType, TapeType
<1>5. Reels' /\ \A t \in Tapes : Ages(t)
    BY <1>1, <1>2, <1>3 DEF Reels, Ages, KeepsFiles
<1> QED
    BY <1>2, <1>4, <1>5 DEF Media
-----------------------------------------------------------------------------
(* What that does to those who name files. *)

\* A position named before is as true after.
LEMMA TellsAges ==
  ASSUME MediaTypes, Media, NEW fp \in FilePos, NEW a, NEW k, NEW n, Tells(fp, a, k, n)
  PROVE  Tells(fp, a, k, n)'
<1>1. fp.tape \in Tapes /\ fp.epoch \in Nat /\ Ages(fp.tape)
    BY DEF FilePos, Media
<1>2. /\ known[fp.tape].epoch \in Nat /\ known'[fp.tape].epoch \in Nat
      /\ tape'[fp.tape].epoch \in Nat
    BY <1>1 DEF MediaTypes, Media
<1>3. fp.epoch <= known'[fp.tape].epoch
    BY <1>1, <1>2 DEF Tells, Ages
<1>4. ASSUME tape'[fp.tape].epoch = fp.epoch PROVE Holds(fp, a, k, n)'
  <2>1. ~WipesFiles(fp.tape)
      BY <1>1, <1>2, <1>4 DEF Tells, WipesFiles
  <2>2. KeepsFiles(fp.tape)
      BY <1>1, <2>1 DEF Ages
  <2> QED
      BY <1>4, <2>2 DEF Tells, KeepsFiles, Holds, FileAt
<1> QED
    BY <1>3, <1>4 DEF Tells

\* A file stays where it is while its reel is spared.
LEMMA HoldsSpared ==
  ASSUME NEW fp, NEW a, NEW k, NEW n, Holds(fp, a, k, n), KeepsFiles(fp.tape)
  PROVE  Holds(fp, a, k, n)'
  BY DEF Holds, KeepsFiles, FileAt

\* What a footer lists stays told.
LEMMA FooterAges ==
  ASSUME MediaTypes, Media, NEW f \in File, FooterTells(f)
  PROVE  FooterTells(f)'
<1>1. f.map \in Seq(FilePos)
    BY DEF File
<1>2. ASSUME NEW k \in DOMAIN f.map PROVE Tells(f.map[k], f.arch, k, f.lens[k])'
  <2>1. f.map[k] \in FilePos
      BY <1>1
  <2> QED
      BY <2>1, TellsAges DEF FooterTells
<1> QED
    BY <1>2 DEF FooterTells

\* Files the step leaves keep their word; the ones it adds are parts, or a footer that does.
LEMMA FootersAge ==
  ASSUME MediaTypes, Footers, Media,
         \A t \in Tapes : \A p \in DOMAIN tape'[t].files :
           \/ p \in DOMAIN tape[t].files /\ tape'[t].files[p] = tape[t].files[p]
           \/ tape'[t].files[p].part # 0
           \/ FooterTells(tape[t].files[p])'
  PROVE  Footers'
<1> SUFFICES ASSUME NEW t \in Tapes, NEW p \in DOMAIN tape'[t].files,
                    tape'[t].files[p].part = 0, ~FooterTells(tape[t].files[p])'
             PROVE  FooterTells(tape[t].files[p])'
    BY DEF Footers
<1>1. p \in DOMAIN tape[t].files /\ tape'[t].files[p] = tape[t].files[p]
    OBVIOUS
<1>2. tape[t].files[p] \in File
    BY <1>1 DEF MediaTypes
<1>3. FooterTells(tape[t].files[p])
    BY <1>1 DEF Footers
<1> DEFINE f == tape[t].files[p]
<1>4. ASSUME NEW g, g = f, g \in File, FooterTells(g) PROVE FooterTells(g)'
    BY <1>4, FooterAges
<1> QED
    BY <1>1, <1>2, <1>3, <1>4

\* What the catalog places stays told.
LEMMA PlaceAges ==
  ASSUME MediaTypes, CatalogTypes, Media, NEW a \in Placed, placed'[a] = placed[a], PlaceTells(a)
  PROVE  PlaceTells(a)'
<1>1. placed[a].parts \in Seq(FilePos)
    BY DEF CatalogTypes
<1>2. ASSUME NEW k \in DOMAIN placed[a].parts
      PROVE  Tells(placed[a].parts[k], a, k, placed[a].lens[k])'
  <2>1. placed[a].parts[k] \in FilePos
      BY <1>1
  <2>2. Tells(placed[a].parts[k], a, k, placed[a].lens[k])
      BY DEF PlaceTells
  <2>3. ASSUME NEW fp, fp = placed[a].parts[k], NEW n, n = placed[a].lens[k]
        PROVE  Tells(fp, a, k, n)'
      BY <2>1, <2>2, <2>3, TellsAges
  <2> QED
      BY <2>3
<1> QED
    BY <1>2 DEF PlaceTells

\* A reel with a part of a latest archive is protected.
LEMMA LatestProtects ==
  ASSUME NEW a \in Latest, NEW k \in DOMAIN placed[a].parts
  PROVE  Protected(placed[a].parts[k].tape)
<1>1. a \in Placed /\ a[1] \in KeptRuns
    BY DEF Latest, KeptRuns
<1>2. placed[a].parts[k].tape \in Labels(a)
    BY DEF Labels, Places
<1>3. a[1] \in RunsOnLabel(placed[a].parts[k].tape)
    BY <1>1, <1>2 DEF RunsOnLabel
<1> QED
    BY <1>1, <1>3 DEF Protected

\* No latest archive is on a blank.
LEMMA LatestOffBlanks ==
  ASSUME IInv, ~misled, NEW a \in Latest, NEW k \in DOMAIN placed[a].parts
  PROVE  Labeled(placed[a].parts[k].tape)
<1> DEFINE fp == placed[a].parts[k]
<1>1. a \in Placed
    BY DEF Latest
<1>2. Tells(fp, a, k, placed[a].lens[k]) /\ tape[fp.tape].epoch = fp.epoch
    BY <1>1 DEF IInv, Places0, PlaceTells, Live
<1>3. fp \in FilePos
    BY <1>1, TypesSplit DEF IInv, CatalogTypes
<1>4. fp.tape \in Tapes /\ fp.pos \in DOMAIN tape[fp.tape].files
    BY <1>2, <1>3 DEF Tells, Holds, FilePos
<1>5. tape[fp.tape].files # <<>>
    BY <1>4
<1> QED
    BY <1>4, <1>5 DEF IInv, Reels, Labeled

\* Dropping the runs of a reel that holds no kept run makes no archive the latest.
LEMMA ReconcileKeepsLatest ==
  ASSUME CatalogTypes, NEW w, ~Protected(w), placed' = WithoutRunsOn(w)
  PROVE  /\ Placed' \subseteq Placed /\ \A a \in Placed' : placed'[a] = placed[a]
         /\ Latest' \subseteq Latest
<1>1. /\ Placed' = {b \in Placed : b[1] \notin RunsOnLabel(w)}
      /\ \A a \in Placed' : placed'[a] = placed[a]
    BY DEF WithoutRunsOn, Placed
<1>2. ASSUME NEW b \in Latest' PROVE b \in Latest
  <2>1. b \in Placed /\ b \in Placed' /\ \A c \in Placed' : c[2] = b[2] => c[1] <= b[1]
      BY <1>1, <1>2 DEF Latest
  <2> DEFINE M == {c[1] : c \in {e \in Placed : e[2] = b[2]}}
  <2>2. \A c \in Placed : c[1] \in 1..MaxRuns /\ c[2] \in DLEs /\ c = <<c[1], c[2]>>
      BY DEF CatalogTypes, Archives
  <2>3. MaxRuns \in Nat
      BY RotationAssumption
  <2>4. M \subseteq 0..MaxRuns /\ M # {}
    <3>1. M \subseteq 0..MaxRuns
        BY <2>2, <2>3
    <3>2. M # {}
        BY <2>1
    <3> QED
        BY <3>1, <3>2
  <2>5. PICK m \in M : \A k \in M : k <= m
    <3> HIDE DEF M
    <3> QED
        BY <2>3, <2>4, Largest
  <2>6. PICK c \in Placed : c[2] = b[2] /\ c[1] = m
      OBVIOUS
  <2>7. \A e \in Placed : e[2] = b[2] => e[1] <= c[1]
      BY <2>5, <2>6
  <2>8. c[1] \in KeptRuns
      BY <2>6, <2>7 DEF KeptRuns
  <2>9. c \in Placed'
      BY <1>1, <2>8 DEF Protected
  <2>10. c[1] <= b[1] /\ b[1] \in 1..MaxRuns /\ c[1] \in 1..MaxRuns
      BY <2>1, <2>2, <2>6, <2>9
  <2>11. \A e \in Placed : e[2] = b[2] => e[1] <= b[1]
    <3>1. SUFFICES ASSUME NEW e \in Placed, e[2] = b[2] PROVE e[1] <= b[1]
        OBVIOUS
    <3>2. e[1] <= c[1] /\ e[1] \in 1..MaxRuns
        BY <2>2, <2>7, <3>1
    <3> QED
        BY <2>3, <2>10, <3>2
  <2> QED
      BY <2>1, <2>11 DEF Latest
<1> QED
    BY <1>1, <1>2
-----------------------------------------------------------------------------
(* What a step does to the catalog's claims. *)

Claims == Footers' /\ Places0' /\ Live' /\ CatalogTypes'

\* Nothing placed or dropped, no file added but parts; reels of latest archives are spared.
LEMMA ClaimsAge ==
  ASSUME IInv, Media, UNCHANGED <<placed, misled>>,
         \A t \in Tapes : \A p \in DOMAIN tape'[t].files :
           \/ p \in DOMAIN tape[t].files /\ tape'[t].files[p] = tape[t].files[p]
           \/ tape'[t].files[p].part # 0
           \/ FooterTells(tape[t].files[p])',
         \A t \in Tapes : (Labeled(t) /\ Protected(t)) => tape'[t].epoch = tape[t].epoch
  PROVE  Claims
<1>1. MediaTypes /\ CatalogTypes /\ Footers /\ Places0 /\ Live
    BY TypesSplit DEF IInv
<1>2. Footers'
    BY <1>1, FootersAge
<1>3. CatalogTypes'
    BY <1>1 DEF CatalogTypes, Placed
<1>4. Places0'
    BY <1>1, PlaceAges DEF Places0, Placed
<1>5. Live'
  <2> SUFFICES ASSUME ~misled, NEW a \in Latest, NEW k \in DOMAIN placed[a].parts
      PROVE  tape'[placed[a].parts[k].tape].epoch = placed[a].parts[k].epoch
      BY DEF Live, Latest, Placed
  <2>1. Labeled(placed[a].parts[k].tape) /\ Protected(placed[a].parts[k].tape)
      BY LatestProtects, LatestOffBlanks
  <2>2. placed[a].parts[k] \in FilePos
      BY <1>1 DEF CatalogTypes, Latest
  <2>3. placed[a].parts[k].tape \in Tapes
      BY <2>2 DEF FilePos
  <2> QED
      BY <1>1, <2>1, <2>3 DEF Live
<1> QED
    BY <1>2, <1>3, <1>4, <1>5 DEF Claims

\* The runs of the wiped reel are dropped.
LEMMA ClaimsReconcile ==
  ASSUME IInv, Media, UNCHANGED <<tape, misled>>, wiped # 0, placed' = WithoutRunsOn(wiped)
  PROVE  Claims
<1>1. MediaTypes /\ CatalogTypes /\ Footers /\ Places0 /\ Live /\ ~Protected(wiped)
    BY TypesSplit DEF IInv, Wipe
<1>2. /\ Placed' \subseteq Placed /\ \A a \in Placed' : placed'[a] = placed[a]
      /\ Latest' \subseteq Latest /\ Latest' \subseteq Placed'
    BY <1>1, ReconcileKeepsLatest DEF Latest
<1>3. Footers'
    BY <1>1, FootersAge
<1>4. CatalogTypes'
    BY <1>1, <1>2 DEF CatalogTypes
<1>5. Places0'
    BY <1>1, <1>2, PlaceAges DEF Places0
<1>6. Live'
    BY <1>1, <1>2 DEF Live
<1> QED
    BY <1>3, <1>4, <1>5, <1>6 DEF Claims

\* An archive whose drive has recorded its footer.
LEMMA ClaimsRecord ==
  ASSUME IInv, NEW i \in Drives, drive[i].pc = "record", UNCHANGED <<tape, known, misled>>,
         NEW c \in FilePos,
         placed' = [b \in Placed \cup {drive[i].arch} |->
                      IF b = drive[i].arch
                      THEN [parts |-> drive[i].parts, lens |-> drive[i].lens, commit |-> c]
                      ELSE placed[b]]
  PROVE  Claims
<1> SUFFICES ASSUME NEW a, a = drive[i].arch PROVE Claims
    OBVIOUS
<1> DEFINE p == [parts |-> drive[i].parts, lens |-> drive[i].lens, commit |-> c]
<1>1. MediaTypes /\ CatalogTypes /\ Footers /\ Places0 /\ Live /\ DriveTypes(i) /\ Hand(i)
    BY TypesSplit DEF IInv, Hands
<1>2. /\ a \in Archives /\ drive[i].parts \in Seq(FilePos) /\ drive[i].lens \in Seq(Nat)
      /\ Total(drive[i].lens) = Size
    BY <1>1 DEF Hand, DriveTypes, Streamed
<1>3. /\ Placed' = Placed \cup {a} /\ placed'[a] = p
      /\ \A b \in Placed \ {a} : placed'[b] = placed[b]
    BY DEF Placed
<1>4. Media
    BY QuietMedia
<1>5. Footers'
    BY <1>1, <1>4, FootersAge
<1>6. CatalogTypes'
    BY <1>1, <1>2, <1>3 DEF CatalogTypes
<1>7. ASSUME NEW k \in DOMAIN drive[i].parts
      PROVE  /\ drive[i].parts[k].epoch <= known[drive[i].parts[k].tape].epoch
             /\ Holds(drive[i].parts[k], a, k, drive[i].lens[k])
             /\ tape[drive[i].parts[k].tape].epoch = drive[i].parts[k].epoch
    BY <1>1 DEF Hand, Holds
<1>8. PlaceTells(a)'
  <2>1. placed'[a].parts = drive[i].parts /\ placed'[a].lens = drive[i].lens
      BY <1>3
  <2>2. ASSUME NEW k \in DOMAIN drive[i].parts
        PROVE  Tells(placed[a].parts[k], a, k, placed[a].lens[k])'
      BY <1>7, <2>1, <2>2 DEF Tells, Holds, FileAt
  <2> QED
      BY <1>2, <2>1, <2>2 DEF PlaceTells
<1>9. Places0'
    BY <1>1, <1>3, <1>4, <1>8, PlaceAges DEF Places0
<1>10. Live'
  <2> SUFFICES ASSUME ~misled, NEW b \in Latest', NEW k \in DOMAIN placed'[b].parts
      PROVE  tape[placed'[b].parts[k].tape].epoch = placed'[b].parts[k].epoch
      BY DEF Live
  <2>1. CASE b = a
      BY <1>3, <1>7, <2>1
  <2>2. CASE b # a
    <3>1. b \in Latest /\ placed'[b] = placed[b]
        BY <1>3, <2>2 DEF Latest
    <3> QED
        BY <1>1, <3>1 DEF Live
  <2> QED
      BY <2>1, <2>2
<1> QED
    BY <1>5, <1>6, <1>9, <1>10 DEF Claims

\* A drive that may write is on a reserved, labeled reel the catalog knows.
LEMMA OnItsReel ==
  ASSUME IInv, NEW i \in Drives, drive[i].pc \in {"write", "record"}, drive[i].tape # 0
  PROVE  /\ drive[i].tape \in Tapes /\ InUse(drive[i].tape) /\ tape[drive[i].tape].epoch # 0
         /\ drive[i].arch \in Archives
<1>1. Hand(i) /\ DriveTypes(i)
    BY TypesSplit DEF IInv, Hands
<1>2. ~Stopped
    BY DEF Stopped
<1>3. InUse(drive[i].tape)
    BY <1>1, <1>2 DEF Hand
<1> QED
    BY <1>1, <1>3 DEF IInv, Reserved, InUse, DriveTypes, Hand

\* The footer is written: it lists what the drive has in hand.
LEMMA ClaimsFooter ==
  ASSUME IInv, NEW i \in Drives, drive[i].pc = "write", drive[i].tape # 0, Streamed(i),
         Append1(drive[i].tape, [arch |-> drive[i].arch, part |-> 0, len |-> FooterCost,
                                 map |-> drive[i].parts, lens |-> drive[i].lens]),
         UNCHANGED <<known, placed, misled>>
  PROVE  Claims /\ Media /\ \A t \in Tapes : Spared(t)
<1> SUFFICES ASSUME NEW t, t = drive[i].tape,
                    NEW f, f = [arch |-> drive[i].arch, part |-> 0, len |-> FooterCost,
                                map |-> drive[i].parts, lens |-> drive[i].lens]
             PROVE  Claims /\ Media /\ \A u \in Tapes : Spared(u)
    OBVIOUS
<1>1. t \in Tapes /\ tape[t].epoch # 0 /\ drive[i].arch \in Archives
    BY OnItsReel
<1>2. f \in File
    BY <1>1, FooterIsFile DEF IInv
<1>3. /\ Media /\ \A u \in Tapes : Spared(u)
      /\ \A u \in Tapes \ {t} : tape'[u] = tape[u]
      /\ \A p \in DOMAIN tape'[t].files :
           \/ p \in DOMAIN tape[t].files /\ tape'[t].files[p] = tape[t].files[p]
           \/ tape'[t].files[p] = f
    BY <1>1, <1>2, AddMedia
<1>4. FooterTells(f)'
  <2>1. Hand(i) /\ Len(drive[i].parts) \in Nat
      BY TypesSplit DEF IInv, Hands, DriveTypes
  <2>2. ASSUME NEW k \in DOMAIN f.map PROVE Tells(f.map[k], f.arch, k, f.lens[k])'
    <3>1. /\ f.map[k].tape \in Tapes /\ f.map[k].epoch <= known[f.map[k].tape].epoch
          /\ Holds(f.map[k], f.arch, k, f.lens[k])
        BY <2>1, TypesSplit DEF Hand, IInv, RunTypes
    <3>2. Holds(f.map[k], f.arch, k, f.lens[k])'
        BY <1>3, <3>1, HoldsSpared DEF Spared
    <3> QED
        BY <3>1, <3>2 DEF Tells
  <2> QED
      BY <2>1, <2>2 DEF FooterTells, Streamed, Hand
<1>5. \A u \in Tapes : \A p \in DOMAIN tape'[u].files :
        \/ p \in DOMAIN tape[u].files /\ tape'[u].files[p] = tape[u].files[p]
        \/ FooterTells(tape[u].files[p])'
  <2>1. ASSUME NEW g, g = f PROVE FooterTells(g)'
      BY <1>4, <2>1
  <2> QED
      BY <1>3, <2>1
<1>6. \A u \in Tapes : tape'[u].epoch = tape[u].epoch
    BY <1>3 DEF Spared, KeepsFiles
<1>7. Claims
    BY <1>3, <1>5, <1>6, ClaimsAge
<1> QED
    BY <1>3, <1>7

\* A rebuild places what the reels show.
LEMMA AssembledTypes ==
  ASSUME IInv, NEW a, Seen(a, 0) # {}
  PROVE  /\ a \in Archives
         /\ Assembled(a) \in [parts : Seq(FilePos), lens : Seq(Nat), commit : FilePos]
         /\ LastRead(Seen(a, 0)) \in Seen(a, 0)
         /\ FileAt(LastRead(Seen(a, 0))) \in File
<1>1. MediaTypes /\ Apart /\ \A i \in Drives : DriveTypes(i)
    BY TypesSplit DEF IInv
<1>2. \A k : Seen(a, k) # {} => LastRead(Seen(a, k)) \in Seen(a, k)
  <2>1. \A k : Seen(a, k) \in SUBSET Files
      BY DEF Seen
  <2> QED
      BY <1>1, <2>1, ALastOne
<1>3. \A k : Seen(a, k) # {} => LastRead(Seen(a, k)) \in FilePos
    BY <1>1, <1>2, FileFacts DEF Seen
<1> SUFFICES ASSUME NEW c, c = LastRead(Seen(a, 0))
             PROVE  /\ a \in Archives
                    /\ Assembled(a) \in [parts : Seq(FilePos), lens : Seq(Nat), commit : FilePos]
                    /\ c \in Seen(a, 0) /\ FileAt(c) \in File
    OBVIOUS
<1>4. c \in Seen(a, 0) /\ c \in FilePos /\ FileAt(c) \in File /\ FileAt(c).arch = a
    BY <1>1, <1>2, <1>3, FileFacts DEF Seen
<1>5. /\ a \in Archives /\ FileAt(c).map \in Seq(FilePos) /\ FileAt(c).lens \in Seq(Nat)
    BY <1>4 DEF File
<1>6. ASSUME NEW m \in Seq(FilePos)
      PROVE  [k \in DOMAIN m |-> IF Seen(a, k) # {} THEN LastRead(Seen(a, k)) ELSE m[k]]
               \in Seq(FilePos)
  <2>1. \A k \in 1..Len(m) : (IF Seen(a, k) # {} THEN LastRead(Seen(a, k)) ELSE m[k]) \in FilePos
      BY <1>3
  <2>2. DOMAIN m = 1..Len(m) /\ Len(m) \in Nat
      OBVIOUS
  <2> QED
      BY <2>1, <2>2
<1> QED
    BY <1>4, <1>5, <1>6 DEF Assembled

\* Without two attempts at an archive and without a footer that lists a wiped part, what
\* a rebuild assembles is what the footer says, and all of it is there.
LEMMA AssembledTells ==
  ASSUME IInv, ~TwoAttempts, ~GhostFooter, NEW a \in Scanned, Seen(a, 0) # {}
  PROVE  /\ Total(Assembled(a).lens) = Size
         /\ \A k \in DOMAIN Assembled(a).parts :
              /\ Holds(Assembled(a).parts[k], a, k, Assembled(a).lens[k])
              /\ Assembled(a).parts[k].tape \in Tapes
              /\ Assembled(a).parts[k].epoch = tape[Assembled(a).parts[k].tape].epoch
<1>1. MediaTypes /\ Footers
    BY TypesSplit DEF IInv
<1> SUFFICES ASSUME NEW c, c = LastRead(Seen(a, 0)),
                    NEW f, f = FileAt(c)
             PROVE  /\ Total(Assembled(a).lens) = Size
                    /\ \A k \in DOMAIN Assembled(a).parts :
                         /\ Holds(Assembled(a).parts[k], a, k, Assembled(a).lens[k])
                         /\ Assembled(a).parts[k].tape \in Tapes
                         /\ Assembled(a).parts[k].epoch = tape[Assembled(a).parts[k].tape].epoch
    OBVIOUS
<1>2. c \in Seen(a, 0) /\ c \in Files /\ f.arch = a /\ f.part = 0
    BY AssembledTypes DEF Seen
<1>3. FooterTells(f)
  <2>1. c.tape \in Tapes /\ c.pos \in DOMAIN tape[c.tape].files /\ f = tape[c.tape].files[c.pos]
      BY <1>1, <1>2, FileFacts DEF FileAt
  <2> QED
      BY <1>1, <1>2, <2>1 DEF Footers
<1>4. /\ DOMAIN Assembled(a).parts = DOMAIN f.map /\ Assembled(a).lens = f.lens
      /\ \A k \in DOMAIN f.map :
           Assembled(a).parts[k] = IF Seen(a, k) # {} THEN LastRead(Seen(a, k)) ELSE f.map[k]
    BY DEF Assembled
<1>5. ASSUME NEW k \in DOMAIN f.map
      PROVE  Assembled(a).parts[k] = f.map[k] /\ f.map[k] \in Files
  <2>1. f.map[k] \in Seen(a, k)
      BY <1>2 DEF GhostFooter
  <2>2. \A g \in Seen(a, k) : g = f.map[k]
      BY <2>1 DEF TwoAttempts, Seen
  <2>3. LastRead(Seen(a, k)) = f.map[k]
      BY <2>1, <2>2 DEF LastRead
  <2> QED
      BY <1>4, <2>1, <2>3 DEF Seen
<1>6. ASSUME NEW k \in DOMAIN f.map
      PROVE  /\ Holds(f.map[k], a, k, f.lens[k]) /\ f.map[k].tape \in Tapes
             /\ f.map[k].epoch = tape[f.map[k].tape].epoch
  <2>1. f.map[k].tape \in Tapes /\ f.map[k].epoch = tape[f.map[k].tape].epoch
      BY <1>1, <1>5, FileFacts
  <2> QED
      BY <1>2, <1>3, <2>1 DEF FooterTells, Tells
<1> QED
    BY <1>3, <1>4, <1>5, <1>6 DEF FooterTells

\* A rebuild that is not misled places what the footers tell.
LEMMA ClaimsRebuild ==
  ASSUME IInv, Media, UNCHANGED tape, \A t \in Tapes : known'[t].epoch = tape[t].epoch,
         placed' = [a \in {b \in Scanned : Seen(b, 0) # {}} |-> Assembled(a)],
         misled' = (misled \/ TwoAttempts \/ GhostFooter)
  PROVE  Claims
<1>1. MediaTypes /\ Footers
    BY TypesSplit DEF IInv
<1>2. Footers'
    BY <1>1, FootersAge
<1>3. /\ Placed' = {b \in Scanned : Seen(b, 0) # {}}
      /\ \A a \in Placed' : placed'[a] = Assembled(a)
    BY DEF Placed
<1>4. CatalogTypes'
    BY <1>3, AssembledTypes DEF CatalogTypes
<1>5. ~misled' => ~TwoAttempts /\ ~GhostFooter
    OBVIOUS
<1>6. ASSUME ~misled', NEW a \in Placed'
      PROVE  /\ Total(placed'[a].lens) = Size
             /\ \A k \in DOMAIN placed'[a].parts :
                  /\ Holds(placed'[a].parts[k], a, k, placed'[a].lens[k])
                  /\ placed'[a].parts[k].tape \in Tapes
                  /\ placed'[a].parts[k].epoch = tape[placed'[a].parts[k].tape].epoch
    BY <1>3, <1>5, <1>6, AssembledTells
<1>7. ASSUME ~misled', NEW a \in Placed' PROVE PlaceTells(a)'
  <2>1. ASSUME NEW k \in DOMAIN placed'[a].parts
        PROVE  Tells(placed[a].parts[k], a, k, placed[a].lens[k])'
    <3>1. /\ Holds(placed'[a].parts[k], a, k, placed'[a].lens[k])
          /\ placed'[a].parts[k].tape \in Tapes
          /\ placed'[a].parts[k].epoch = tape[placed'[a].parts[k].tape].epoch
        BY <1>6, <1>7
    <3>2. tape[placed'[a].parts[k].tape].epoch \in Nat
        BY <1>1, <3>1 DEF MediaTypes
    <3>3. ASSUME NEW fp, fp = placed'[a].parts[k], NEW n, n = placed'[a].lens[k]
          PROVE  Tells(fp, a, k, n)'
      <4>1. /\ Holds(fp, a, k, n) /\ fp.epoch = tape[fp.tape].epoch
            /\ known'[fp.tape].epoch = tape[fp.tape].epoch /\ tape[fp.tape].epoch \in Nat
          BY <3>1, <3>2, <3>3
      <4>2. Holds(fp, a, k, n)'
          BY <4>1 DEF Holds, FileAt
      <4>3. fp.epoch <= known'[fp.tape].epoch
          BY <4>1
      <4> QED
          BY <4>2, <4>3 DEF Tells
    <3> QED
        BY <3>3
  <2> QED
      BY <1>6, <1>7, <2>1 DEF PlaceTells
<1>8. Places0'
    BY <1>7 DEF Places0
<1>9. Live'
    BY <1>6 DEF Live, Latest
<1> QED
    BY <1>2, <1>4, <1>8, <1>9 DEF Claims
-----------------------------------------------------------------------------
(* What a step does to the drives. *)

\* The parts in a drive's hand stay where they are.
LEMMA PartsStay ==
  ASSUME IInv, Media, NEW i \in Drives, Carries(i), reserved \subseteq reserved',
         \A t \in reserved : Spared(t)
  PROVE  \A k \in DOMAIN drive'[i].parts :
           /\ drive'[i].parts[k].tape \in reserved'
           /\ drive'[i].parts[k].epoch <= known'[drive'[i].parts[k].tape].epoch
           /\ Holds(drive[i].parts[k], drive[i].arch, k, drive[i].lens[k])'
<1>1. Hand(i) /\ DriveTypes(i) /\ MediaTypes /\ reserved \subseteq Tapes
    BY TypesSplit DEF IInv, Hands, RunTypes
<1> SUFFICES ASSUME NEW k \in DOMAIN drive[i].parts,
                    NEW fp, fp = drive[i].parts[k],
                    NEW a, a = drive[i].arch, NEW n, n = drive[i].lens[k]
             PROVE  /\ fp.tape \in reserved' /\ fp.epoch <= known'[fp.tape].epoch
                    /\ Holds(fp, a, k, n)'
    BY DEF Carries
<1>2. fp.tape \in reserved /\ fp.epoch <= known[fp.tape].epoch /\ Holds(fp, a, k, n)
    BY <1>1 DEF Hand
<1>3. fp \in FilePos
    BY <1>1 DEF DriveTypes
<1>4. /\ fp.epoch \in Nat /\ known[fp.tape].epoch \in Nat /\ known'[fp.tape].epoch \in Nat
      /\ known[fp.tape].epoch <= known'[fp.tape].epoch
    BY <1>1, <1>2, <1>3 DEF FilePos, MediaTypes, Media, Ages
<1> QED
    BY <1>2, <1>4, HoldsSpared DEF Spared

\* A drive that does not move keeps its hand, its reel at most taken from under it.
LEMMA OtherHand ==
  ASSUME IInv, Media, NEW i \in Drives, Carries(i), ~Stopped,
         drive'[i].pc = drive[i].pc, drive'[i].started = drive[i].started,
         reserved \subseteq reserved', \A t \in reserved : Spared(t),
         \/ drive'[i].tape = drive[i].tape
         \/ drive'[i].tape = 0 /\ drive[i].tape \notin reserved,
         drive[i].pc = "reconcile" => wiped' = wiped /\ drive'[i].tape = drive[i].tape
  PROVE  Hand(i)'
<1>1. Hand(i)
    BY DEF IInv, Hands
<1>2. \A k \in DOMAIN drive'[i].parts :
           /\ drive'[i].parts[k].tape \in reserved'
           /\ drive'[i].parts[k].epoch <= known'[drive'[i].parts[k].tape].epoch
           /\ Holds(drive[i].parts[k], drive[i].arch, k, drive[i].lens[k])'
    BY PartsStay
<1>3. \A t \in reserved : InUse(t) => InUse(t)'
    BY DEF InUse, Spared, KeepsFiles
<1>4. drive[i].pc = "record" => Streamed(i)' /\ drive'[i].tape # 0
  <2>1. drive[i].pc = "record" =>
          drive[i].started = TRUE /\ Streamed(i) /\ drive[i].tape # 0 /\ drive[i].tape \in reserved
      BY <1>1 DEF Hand, InUse
  <2> QED
      BY <2>1 DEF Streamed, Carries
<1>5. drive'[i].started = TRUE /\ drive'[i].tape # 0 /\ drive'[i].pc # "reconcile" =>
        InUse(drive[i].tape)'
  <2>1. drive[i].started = TRUE /\ drive[i].tape # 0 /\ drive[i].pc # "reconcile" =>
          InUse(drive[i].tape) /\ drive[i].tape \in reserved
      BY <1>1 DEF Hand, InUse
  <2>2. SUFFICES ASSUME drive'[i].started = TRUE, drive'[i].tape # 0,
                        drive'[i].pc # "reconcile"
                 PROVE  InUse(drive[i].tape)'
      OBVIOUS
  <2>3. drive'[i].tape = drive[i].tape /\ InUse(drive[i].tape) /\ drive[i].tape \in reserved
      BY <2>1, <2>2
  <2> QED
      BY <2>3, <1>3 DEF InUse
<1> QED
    BY <1>1, <1>2, <1>4, <1>5 DEF Hand, Carries

\* The invariant, from the parts a step is proved to keep.
LEMMA InvSplit ==
  ASSUME MediaTypes', CatalogTypes', RunTypes', \A i \in Drives : DriveTypes(i)', Apart', Shaped',
         Reels', Reserved', Wipe', Hands', Footers', Places0', Live'
  PROVE  IInv'
<1>1. TypeOK'
    BY DEF TypeOK, MediaTypes, CatalogTypes, RunTypes, DriveTypes, Apart
<1> QED
    BY <1>1 DEF IInv

\* What one drive's step must be shown to do, beside what it does to that drive.
DriveStep(i) ==
  /\ Alone(i) /\ ~Stopped /\ Media /\ Claims /\ RunTypes' /\ Reserved' /\ Wipe'
  /\ reserved \subseteq reserved' /\ \A t \in reserved : Spared(t)
  /\ wiped' = wiped \/ wiped = 0 \/ drive[i].pc = "reconcile"
  /\ drive'[i].tape = drive[i].tape \/ drive'[i].tape \notin Loaded

\* A step of one drive that leaves its own hand right keeps everything.
LEMMA DriveStepKeeps ==
  ASSUME IInv, NEW i \in Drives, DriveStep(i), DriveTypes(i)', Hand(i)'
  PROVE  IInv'
<1>1. Apart /\ Hands /\ \A j \in Drives : DriveTypes(j)
    BY TypesSplit DEF IInv
<1>2. ASSUME NEW j \in Drives \ {i} PROVE DriveTypes(j)' /\ Hand(j)'
  <2>1. drive'[j] = drive[j]
      BY DEF DriveStep, Alone
  <2>2. DriveTypes(j)'
      BY <1>1, <2>1 DEF DriveTypes
  <2>3. drive[j].pc = "reconcile" => wiped' = wiped
    <3>1. drive[j].pc = "reconcile" => wiped # 0 /\ wiped = drive[j].tape
        BY <1>1 DEF Hands, Hand
    <3>2. drive[i].pc = "reconcile" => wiped = drive[i].tape
        BY <1>1 DEF Hands, Hand
    <3> QED
        BY <1>1, <3>1, <3>2 DEF DriveStep, Apart
  <2>4. Hand(j)'
      BY <2>1, <2>3, OtherHand DEF DriveStep, Carries
  <2> QED
      BY <2>2, <2>4
<1>3. Apart'
  <2> SUFFICES ASSUME NEW j \in Drives, NEW k \in Drives, drive'[j].tape = drive'[k].tape, j # k
               PROVE  drive'[j].tape = 0
      BY DEF Apart
  <2>1. \A l \in Drives \ {i} : drive'[l].tape = drive[l].tape /\ drive[l].tape \in Loaded
      BY DEF DriveStep, Alone, Loaded
  <2> QED
      BY <1>1, <2>1 DEF DriveStep, Apart
<1>4. Hands' /\ \A j \in Drives : DriveTypes(j)'
    BY <1>2 DEF Hands
<1> QED
    BY <1>3, <1>4, InvSplit DEF DriveStep, Alone, Media, Claims

\* A step that leaves reels and catalog alone.
LEMMA QuietStep ==
  ASSUME IInv, UNCHANGED <<tape, known, placed, misled>>
  PROVE  /\ Media /\ Claims /\ \A t \in Tapes : Spared(t)
         /\ reserved' = reserved => Reserved'
         /\ wiped' = wiped \/ wiped' = 0 => Wipe'
<1>1. Media /\ \A t \in Tapes : Spared(t)
    BY QuietMedia
<1>2. Claims
    BY <1>1, ClaimsAge
<1>3. reserved' = reserved => Reserved'
    BY DEF IInv, Reserved
<1>4. wiped' = wiped \/ wiped' = 0 => Wipe'
  <2>1. Wipe
      BY DEF IInv
  <2> QED
      BY <2>1 DEF Wipe, Protected, RunsOnLabel, KeptRuns, Labels, Places, Placed
<1> QED
    BY <1>1, <1>2, <1>3, <1>4

\* A start or an end that leaves every drive idle keeps everything.
LEMMA ReloadStep ==
  ASSUME IInv, UNCHANGED <<tape, known, placed, misled>>, reserved' = {}, wiped' = 0, RunTypes',
         drive' = [i \in Drives |-> [Idle EXCEPT !.tape = drive[i].tape]]
  PROVE  IInv'
<1>1. Media /\ Claims /\ Wipe' /\ Reserved'
    BY QuietStep DEF Reserved
<1>2. Apart /\ Shaped /\ \A i \in Drives : DriveTypes(i)
    BY TypesSplit DEF IInv
<1>3. /\ Shaped'
      /\ \A i \in Drives :
           /\ drive'[i].tape = drive[i].tape /\ drive'[i].started = FALSE
           /\ drive'[i].pc = "idle" /\ drive'[i].tried = {} /\ drive'[i].arch = NoArchive
           /\ drive'[i].parts = <<>> /\ drive'[i].lens = <<>>
    BY <1>2, ReloadTurns
<1>4. ASSUME NEW i \in Drives PROVE DriveTypes(i)'
  <2>1. drive[i].tape \in Tapes \cup {0}
      BY <1>2 DEF DriveTypes
  <2>2. <<>> \in Seq(FilePos) /\ <<>> \in Seq(Nat) /\ FALSE \in BOOLEAN
      OBVIOUS
  <2> QED
      BY <1>3, <2>1, <2>2 DEF DriveTypes
<1>5. Apart'
    BY <1>2, <1>3 DEF Apart
<1>6. Hands'
    BY <1>3 DEF Hands, Hand
<1> QED
    BY <1>1, <1>3, <1>4, <1>5, <1>6, InvSplit DEF Media, Claims

\* A run begins with every reel unreserved.
LEMMA StartRunKeeps == ASSUME IInv, StartRun PROVE IInv'
<1>1. RunTypes /\ CatalogTypes /\ MaxRuns \in Nat
    BY TypesSplit, RotationAssumption DEF IInv
<1>2. run' \in 1..MaxRuns
    BY <1>1 DEF StartRun, RunTypes
<1>3. staged' \subseteq Archives
    BY <1>1, <1>2 DEF StartRun, RunTypes, Archives
<1>4. RunTypes'
    BY <1>1, <1>2, <1>3 DEF StartRun, RunTypes
<1> QED
    BY <1>4, ReloadStep DEF StartRun

\* A crash forgets what was in hand, and names no file.
LEMMA CrashKeeps == ASSUME IInv, Crash PROVE IInv'
<1>1. RunTypes /\ MaxFaults \in Nat
    BY TypesSplit, RotationAssumption DEF IInv
<1>2. RunTypes'
    BY <1>1 DEF Crash, RunTypes
<1> QED
    BY <1>2, ReloadStep DEF Crash

\* A drive that takes up an archive has no part of it in hand.
LEMMA BeginKeeps == ASSUME IInv, NEW i \in Drives, Begin(i) PROVE IInv'
<1>1. RunTypes /\ DriveTypes(i) /\ Hand(i) /\ Shaped
    BY TypesSplit DEF IInv, Hands
<1>2. PICK a \in todo : todo' = todo \ {a} /\ drive' = [drive EXCEPT ![i].pc = "alloc", ![i].arch = a]
    BY DEF Begin
<1>3. /\ Alone(i)
      /\ drive'[i].tape = drive[i].tape /\ drive'[i].started = drive[i].started
      /\ drive'[i].pc = "alloc" /\ drive'[i].tried = drive[i].tried /\ drive'[i].arch = a
      /\ drive'[i].parts = drive[i].parts /\ drive'[i].lens = drive[i].lens
    BY <1>1, <1>2, BeginTurns
<1>4. a \in Archives /\ ~Stopped /\ drive[i].pc = "idle"
    BY <1>1 DEF RunTypes, Stopped, Begin
<1>5. RunTypes'
    BY <1>1 DEF Begin, RunTypes
<1>6. DriveStep(i)
    BY <1>3, <1>4, <1>5, QuietStep DEF Begin, DriveStep, RunTypes
<1>7. DriveTypes(i)'
    BY <1>1, <1>3, <1>4 DEF DriveTypes
<1>8. Hand(i)'
  <2>1. InUse(drive[i].tape)' <=> InUse(drive[i].tape)
      BY <1>3 DEF InUse, Begin
  <2>2. DOMAIN drive'[i].parts = {} /\ DOMAIN drive'[i].lens = {}
      BY <1>1, <1>3, <1>4 DEF Hand
  <2> QED
      BY <1>1, <1>3, <1>4, <2>1, <2>2 DEF Hand
<1> QED
    BY <1>6, <1>7, <1>8, DriveStepKeeps

\* Room on the reel in the drive changes no reel.
LEMMA ReadyKeeps == ASSUME IInv, NEW i \in Drives, Ready(i) PROVE IInv'
<1>1. RunTypes /\ DriveTypes(i) /\ Hand(i) /\ Shaped
    BY TypesSplit DEF IInv, Hands
<1>2. /\ Alone(i) /\ Carries(i)
      /\ drive'[i].tape = drive[i].tape /\ drive'[i].started = drive[i].started
      /\ drive'[i].pc = "write" /\ drive'[i].tried = drive[i].tried
    BY <1>1, ReadyTurns DEF Ready
<1>3. drive[i].pc = "alloc" /\ ~Stopped /\ drive[i].started = TRUE
    BY <1>1 DEF Ready, Allocating, Stopped, DriveTypes
<1>4. RunTypes'
    BY <1>1 DEF Ready, RunTypes
<1>5. DriveStep(i)
    BY <1>2, <1>3, <1>4, QuietStep DEF Ready, DriveStep, RunTypes
<1>6. DriveTypes(i)'
    BY <1>1, <1>2 DEF DriveTypes, Carries
<1>7. Hand(i)'
  <2>1. InUse(drive[i].tape)' <=> InUse(drive[i].tape)
      BY <1>2 DEF InUse, Ready
  <2> QED
      BY <1>1, <1>2, <1>3, <2>1, PartsStay, QuietStep DEF Hand, Ready, Carries, RunTypes
<1> QED
    BY <1>5, <1>6, <1>7, DriveStepKeeps

\* A drive gives its archive up.
LEMMA GivesUp ==
  ASSUME IInv, NEW i \in Drives, drive[i].pc \in {"alloc", "write"},
         NEW t \in Tapes \cup {0}, t = drive[i].tape \/ t \notin Loaded,
         NEW started \in BOOLEAN, started = TRUE => drive[i].started = TRUE /\ t = drive[i].tape,
         NEW fill, Abandon(i, t, started, fill),
         UNCHANGED <<tape, known, placed, misled, reserved, wiped, staged, run>>,
         faults' \in 0..MaxFaults
  PROVE  IInv'
<1>1. RunTypes /\ DriveTypes(i) /\ Hand(i) /\ Shaped
    BY TypesSplit DEF IInv, Hands
<1>2. /\ Alone(i) /\ todo' = {}
      /\ drive'[i].tape = t /\ drive'[i].started = started /\ drive'[i].pc = "idle"
      /\ drive'[i].tried = drive[i].tried /\ drive'[i].arch = NoArchive
      /\ drive'[i].parts = <<>> /\ drive'[i].lens = <<>>
    BY <1>1, AbandonTurns
<1>3. ~Stopped
    BY DEF Stopped
<1>4. RunTypes'
    BY <1>1, <1>2 DEF RunTypes
<1>5. DriveStep(i)
    BY <1>1, <1>2, <1>3, <1>4, QuietStep DEF DriveStep, RunTypes
<1>6. DriveTypes(i)'
  <2>1. <<>> \in Seq(FilePos) /\ <<>> \in Seq(Nat)
      OBVIOUS
  <2> QED
      BY <1>1, <1>2, <2>1 DEF DriveTypes
<1>7. Hand(i)'
  <2>1. started = TRUE /\ t # 0 => InUse(t)
      BY <1>1, <1>3 DEF Hand
  <2>2. \A u : InUse(u)' <=> InUse(u)
      BY DEF InUse
  <2> QED
      BY <1>2, <2>1, <2>2 DEF Hand
<1> QED
    BY <1>5, <1>6, <1>7, DriveStepKeeps

\* What an archive given up wrote stays, named by nobody.
LEMMA GivingUpKeeps ==
  ASSUME IInv, NEW i \in Drives,
         PrepareStale(i) \/ RollFails(i) \/ VolumeFull(i) \/ WriteFails(i)
  PROVE  IInv'
<1>1. RunTypes /\ DriveTypes(i) /\ Hand(i) /\ MaxFaults \in Nat
    BY TypesSplit, RotationAssumption DEF IInv, Hands
<1>2. CASE PrepareStale(i)
    BY <1>1, <1>2, GivesUp DEF PrepareStale, Allocating, DriveTypes, RunTypes
<1>3. CASE RollFails(i)
  <2>1. drive[i].pc = "alloc"
      BY <1>3 DEF RollFails, Rolling, Allocating
  <2>2. PICK t \in Shelf \cup {drive[i].tape} :
          Abandon(i, t, FALSE, IF t # 0 /\ Verifies(t) THEN Accepted(i, t, tape[t].epoch)
                                                       ELSE drive[i].fill)
      BY <1>3 DEF RollFails
  <2>3. t \in Tapes \cup {0} /\ (t = drive[i].tape \/ t \notin Loaded)
      BY <1>1 DEF Shelf, DriveTypes
  <2>4. /\ UNCHANGED <<tape, known, placed, misled, reserved, wiped, staged, run>>
        /\ faults' \in 0..MaxFaults
      BY <1>1, <1>3 DEF RollFails, RunTypes
  <2> QED
      BY <2>1, <2>2, <2>3, <2>4, GivesUp
<1>4. CASE VolumeFull(i)
    BY <1>1, <1>4, GivesUp DEF VolumeFull, DriveTypes, RunTypes, Hand
<1>5. CASE WriteFails(i)
  <2>1. faults' \in 0..MaxFaults
      BY <1>1, <1>5 DEF WriteFails, RunTypes
  <2> QED
      BY <1>1, <1>5, <2>1, GivesUp DEF WriteFails, DriveTypes, Hand
<1> QED
    BY <1>2, <1>3, <1>4, <1>5

\* A drive takes a labeled reel.
LEMMA TakesLabeled ==
  ASSUME IInv, NEW i \in Drives, drive[i].pc = "alloc", NEW t \in Tapes, Labeled(t),
         t = drive[i].tape \/ t \notin Loaded, NEW next \in {"alloc", "write"},
         Take(i, t, tape[t].epoch, next), Learn(t, tape[t].epoch, tape[t].at),
         UNCHANGED <<tape, placed, misled, wiped, staged, run, todo, faults>>
  PROVE  IInv'
<1>1. RunTypes /\ DriveTypes(i) /\ Hand(i) /\ Shaped /\ MediaTypes
    BY TypesSplit DEF IInv, Hands
<1>2. /\ Alone(i) /\ Carries(i) /\ reserved' = reserved \cup {t}
      /\ drive'[i].tape = t /\ drive'[i].started = TRUE /\ drive'[i].pc = next
      /\ drive'[i].tried = drive[i].tried \cup {t}
    BY <1>1, TakeTurns
<1>3. ~Stopped
    BY DEF Stopped
<1>4. Media /\ known'[t].epoch = tape[t].epoch /\ \A u \in Tapes : Spared(u)
    BY HeardMedia
<1>5. Claims
    BY <1>4, ClaimsAge
<1>6. RunTypes' /\ Reserved' /\ Wipe'
  <2>1. Reserved'
      BY <1>2 DEF IInv, Reserved, Labeled
  <2>2. Wipe'
    <3>1. Wipe
        BY DEF IInv
    <3> QED
        BY <3>1 DEF Wipe, Protected, RunsOnLabel, KeptRuns, Labels, Places, Placed
  <2> QED
      BY <1>1, <1>2, <2>1, <2>2 DEF RunTypes
<1>7. DriveStep(i)
    BY <1>1, <1>2, <1>3, <1>4, <1>5, <1>6 DEF DriveStep, RunTypes
<1>8. DriveTypes(i)'
    BY <1>1, <1>2 DEF DriveTypes, Carries
<1>9. Hand(i)'
  <2>1. InUse(t)'
      BY <1>2, <1>4 DEF InUse
  <2>2. \A k \in DOMAIN drive'[i].parts :
           /\ drive'[i].parts[k].tape \in reserved'
           /\ drive'[i].parts[k].epoch <= known'[drive'[i].parts[k].tape].epoch
           /\ Holds(drive[i].parts[k], drive[i].arch, k, drive[i].lens[k])'
      BY <1>1, <1>2, <1>4, PartsStay DEF RunTypes
  <2>3. InUse(drive[i].tape)'
      BY <1>2, <2>1 DEF InUse
  <2> QED
      BY <1>1, <1>2, <2>2, <2>3 DEF Hand, Carries
<1> QED
    BY <1>7, <1>8, <1>9, DriveStepKeeps

\* A drive labels and takes a blank.
LEMMA TakesBlank ==
  ASSUME IInv, NEW i \in Drives, drive[i].pc = "alloc", NEW t \in Tapes, ~Labeled(t),
         t = drive[i].tape \/ t \notin Loaded, NEW next \in {"alloc", "write"},
         Take(i, t, 1, next), Stamp(t, 1), Learn(t, 1, run), wiped = 0,
         UNCHANGED <<placed, misled, wiped, staged, run, todo, faults>>
  PROVE  IInv'
<1>1. RunTypes /\ DriveTypes(i) /\ Hand(i) /\ Shaped /\ MediaTypes /\ Reserved
    BY TypesSplit DEF IInv, Hands
<1>2. /\ Alone(i) /\ Carries(i) /\ reserved' = reserved \cup {t}
      /\ drive'[i].tape = t /\ drive'[i].started = TRUE /\ drive'[i].pc = next
      /\ drive'[i].tried = drive[i].tried \cup {t}
    BY <1>1, TakeTurns
<1>3. ~Stopped
    BY DEF Stopped
<1>4. /\ Media /\ known'[t].epoch = 1 /\ tape'[t].epoch = 1
      /\ \A u \in Tapes \ {t} : Spared(u)
    BY LabelMedia
<1>5. t \notin reserved
    BY <1>1 DEF Reserved, Labeled
<1>6. Claims
  <2>1. \A u \in Tapes : tape'[u] = tape[u] \/ tape'[u].files = <<>>
      BY <1>1 DEF Stamp, MediaTypes
  <2>2. \A u \in Tapes : (Labeled(u) /\ Protected(u)) => tape'[u].epoch = tape[u].epoch
      BY <1>4 DEF Spared, KeepsFiles
  <2> QED
      BY <1>4, <2>1, <2>2, ClaimsAge
<1>7. RunTypes' /\ Reserved' /\ Wipe'
  <2>1. Reserved'
      BY <1>1, <1>2, <1>4, <1>5 DEF Reserved, Spared, KeepsFiles, RunTypes
  <2>2. Wipe'
      BY DEF Wipe
  <2> QED
      BY <1>1, <1>2, <2>1, <2>2 DEF RunTypes
<1>8. \A u \in reserved : Spared(u)
    BY <1>1, <1>4, <1>5 DEF RunTypes
<1>9. DriveStep(i)
    BY <1>2, <1>3, <1>4, <1>6, <1>7, <1>8 DEF DriveStep
<1>10. DriveTypes(i)'
    BY <1>1, <1>2 DEF DriveTypes, Carries
<1>11. Hand(i)'
  <2>1. \A k \in DOMAIN drive'[i].parts :
           /\ drive'[i].parts[k].tape \in reserved'
           /\ drive'[i].parts[k].epoch <= known'[drive'[i].parts[k].tape].epoch
           /\ Holds(drive[i].parts[k], drive[i].arch, k, drive[i].lens[k])'
      BY <1>2, <1>4, <1>8, PartsStay
  <2>2. InUse(drive[i].tape)'
      BY <1>2, <1>4 DEF InUse
  <2> QED
      BY <1>1, <1>2, <2>1, <2>2 DEF Hand, Carries
<1> QED
    BY <1>9, <1>10, <1>11, DriveStepKeeps

\* A reel taken is labeled as the catalog knows it, or blank and labeled now.
LEMMA TakingKeeps ==
  ASSUME IInv, NEW i \in Drives, PrepareLoaded(i) \/ RollToLabeled(i) \/ RollToBlank(i)
  PROVE  IInv'
<1>1. RunTypes /\ DriveTypes(i)
    BY TypesSplit DEF IInv
<1>2. AfterRoll(i) \in {"alloc", "write"} /\ Shelf \cap Loaded = {} /\ Shelf \subseteq Tapes
    BY DEF AfterRoll, Shelf
<1>3. CASE PrepareLoaded(i)
  <2>1. drive[i].pc = "alloc" /\ wiped = 0 /\ drive[i].tape \in Tapes
      BY <1>1, <1>3 DEF PrepareLoaded, Allocating, OrchestratorFree, DriveTypes
  <2>2. CASE Verifies(drive[i].tape) /\ Take(i, drive[i].tape, tape[drive[i].tape].epoch, "alloc")
      BY <1>3, <2>1, <2>2, TakesLabeled DEF PrepareLoaded, Verifies, Take, Stamp, Learn
  <2>3. CASE ~Labeled(drive[i].tape)
      BY <1>3, <2>1, <2>3, TakesBlank DEF PrepareLoaded, Verifies
  <2> QED
      BY <1>3, <2>2, <2>3 DEF PrepareLoaded
<1>4. CASE RollToLabeled(i)
  <2>1. drive[i].pc = "alloc"
      BY <1>4 DEF RollToLabeled, Rolling, Allocating
  <2>2. PICK t \in Writable(i) :
          Take(i, t, tape[t].epoch, AfterRoll(i)) /\ Learn(t, tape[t].epoch, tape[t].at)
      BY <1>4 DEF RollToLabeled
  <2>3. t \in Tapes /\ Labeled(t) /\ t \notin Loaded
      BY <1>2 DEF Writable, Verifies
  <2>4. UNCHANGED <<tape, placed, misled, wiped, staged, run, todo, faults>>
      BY <1>4 DEF RollToLabeled
  <2> QED
      BY <1>2, <2>1, <2>2, <2>3, <2>4, TakesLabeled
<1>5. CASE RollToBlank(i)
  <2>1. drive[i].pc = "alloc" /\ wiped = 0
      BY <1>5 DEF RollToBlank, Rolling, Allocating, OrchestratorFree
  <2>2. PICK t \in Blanks : Stamp(t, 1) /\ Learn(t, 1, run) /\ Take(i, t, 1, AfterRoll(i))
      BY <1>5 DEF RollToBlank
  <2>3. t \in Tapes /\ ~Labeled(t) /\ t \notin Loaded
      BY <1>2 DEF Blanks
  <2>4. UNCHANGED <<placed, misled, wiped, staged, run, todo, faults>>
      BY <1>5 DEF RollToBlank
  <2> QED
      BY <1>2, <2>1, <2>2, <2>3, <2>4, TakesBlank
<1> QED
    BY <1>3, <1>4, <1>5

\* The oldest reusable reel is wiped, and taken out of another drive if it is in one: it is
\* not reserved, so no archive in hand is on it.
LEMMA RecycleKeeps == ASSUME IInv, NEW i \in Drives, Recycle(i) PROVE IInv'
<1>1. RunTypes /\ Apart /\ Hands /\ Shaped /\ MediaTypes /\ \A j \in Drives : DriveTypes(j)
    BY TypesSplit DEF IInv
<1>2. PICK t \in Reusable(i) :
        /\ Stamp(t, NextEpoch(t)) /\ wiped' = t /\ reserved' = reserved \cup {t}
        /\ drive' = [j \in Drives |->
             IF j = i THEN [drive[i] EXCEPT !.tape = t, !.pc = "reconcile"]
             ELSE IF drive[j].tape = t THEN [drive[j] EXCEPT !.tape = 0] ELSE drive[j]]
    BY DEF Recycle, OldestOf
<1>3. t \in Tapes /\ t \notin reserved /\ ~Protected(t) /\ t # 0
  <2>1. Cardinality(Tapes) \in Nat /\ Tapes = 1..Cardinality(Tapes)
      BY RotationAssumption, FS_CardinalityType
  <2> QED
      BY <2>1 DEF Reusable
<1>4. /\ drive[i].pc = "alloc" /\ wiped = 0 /\ ~Stopped
      /\ UNCHANGED <<known, placed, staged, run, todo, faults, misled>>
    BY DEF Recycle, Rolling, Allocating, OrchestratorFree, Stopped
<1>5. /\ Media /\ tape'[t].epoch # 0 /\ \A u \in Tapes \ {t} : Spared(u)
  <2>1. known[t].epoch \in Nat
      BY <1>1, <1>3 DEF MediaTypes
  <2>2. NextEpoch(t) \in Nat /\ known[t].epoch < NextEpoch(t)
      BY <2>1 DEF NextEpoch
  <2> QED
      BY <1>2, <1>3, <1>4, <2>2, WipeMedia
<1>6. \A u \in Tapes : tape'[u] = tape[u] \/ tape'[u].files = <<>>
    BY <1>1, <1>2 DEF Stamp, MediaTypes
<1>7. Claims
  <2>1. \A u \in Tapes : (Labeled(u) /\ Protected(u)) => tape'[u].epoch = tape[u].epoch
      BY <1>3, <1>5 DEF Spared, KeepsFiles
  <2> QED
      BY <1>4, <1>5, <1>6, <2>1, ClaimsAge
<1>8. \A u \in reserved : Spared(u)
    BY <1>1, <1>3, <1>5 DEF RunTypes
<1>9. RunTypes' /\ Reserved' /\ Wipe'
  <2>1. RunTypes'
      BY <1>1, <1>2, <1>3, <1>4 DEF RunTypes
  <2>2. Reserved'
      BY <1>1, <1>2, <1>5, <1>8 DEF IInv, Reserved, Spared, KeepsFiles, RunTypes
  <2>3. Protected(t)' <=> Protected(t)
      BY <1>4 DEF Protected, RunsOnLabel, KeptRuns, Labels, Places, Placed
  <2>4. Wipe'
    <3>1. ASSUME NEW w, w = wiped' PROVE ~Protected(w)' /\ tape'[w].epoch # 0
        BY <1>2, <1>3, <1>5, <2>3, <3>1
    <3> QED
        BY <3>1 DEF Wipe
  <2> QED
      BY <2>1, <2>2, <2>4
<1>10. /\ Shaped' /\ Carries(i)
       /\ drive'[i].tape = t /\ drive'[i].started = drive[i].started
       /\ drive'[i].pc = "reconcile" /\ drive'[i].tried = drive[i].tried
       /\ \A j \in Drives \ {i} :
            /\ drive'[j].pc = drive[j].pc /\ drive'[j].started = drive[j].started
            /\ drive'[j].tried = drive[j].tried /\ Carries(j)
            /\ drive'[j].tape = IF drive[j].tape = t THEN 0 ELSE drive[j].tape
    BY <1>1, <1>2, RecycleTurns
<1>11. Apart'
    BY <1>1, <1>3, <1>10 DEF Apart
<1>12. ASSUME NEW j \in Drives PROVE DriveTypes(j)'
  <2>1. CASE j = i
      BY <1>1, <1>3, <1>10, <2>1 DEF DriveTypes, Carries
  <2>2. CASE j # i
    <3>1. drive'[j].tape \in Tapes \cup {0}
        BY <1>1, <1>10, <2>2 DEF DriveTypes
    <3> QED
        BY <1>1, <1>10, <2>2, <3>1 DEF DriveTypes, Carries
  <2> QED
      BY <2>1, <2>2
<1>13. ASSUME NEW j \in Drives \ {i} PROVE Hand(j)'
  <2>1. drive[j].pc # "reconcile"
      BY <1>1, <1>4 DEF Hands, Hand
  <2>2. \/ drive'[j].tape = drive[j].tape
        \/ drive'[j].tape = 0 /\ drive[j].tape \notin reserved
      BY <1>3, <1>10
  <2> QED
      BY <1>2, <1>4, <1>5, <1>8, <1>10, <2>1, <2>2, OtherHand
<1>14. Hand(i)'
  <2>1. \A k \in DOMAIN drive'[i].parts :
           /\ drive'[i].parts[k].tape \in reserved'
           /\ drive'[i].parts[k].epoch <= known'[drive'[i].parts[k].tape].epoch
           /\ Holds(drive[i].parts[k], drive[i].arch, k, drive[i].lens[k])'
      BY <1>2, <1>5, <1>8, <1>10, PartsStay
  <2>2. Hand(i)
      BY <1>1 DEF Hands
  <2> QED
      BY <1>2, <1>3, <1>4, <1>10, <2>1, <2>2 DEF Hand, Carries
<1>15. Hands'
    BY <1>13, <1>14 DEF Hands
<1> QED
    BY <1>5, <1>7, <1>9, <1>10, <1>11, <1>12, <1>15, InvSplit DEF Media, Claims

\* The catalog drops the runs of the wiped reel and hears of its epoch; the drive takes it.
LEMMA ReconcileKeeps == ASSUME IInv, NEW i \in Drives, Reconcile(i) PROVE IInv'
<1>1. RunTypes /\ DriveTypes(i) /\ Hand(i) /\ Shaped /\ MediaTypes /\ Reserved /\ Wipe
    BY TypesSplit DEF IInv, Hands
<1>2. /\ drive[i].pc = "reconcile" /\ wiped # 0 /\ wiped = drive[i].tape /\ wiped \in Tapes
      /\ tape[wiped].epoch # 0 /\ ~Stopped
    BY <1>1 DEF Reconcile, Hand, RunTypes, Wipe, Stopped
<1> SUFFICES ASSUME NEW t, t = wiped PROVE IInv'
    OBVIOUS
<1>3. /\ Alone(i) /\ Carries(i) /\ reserved' = reserved \cup {t}
      /\ drive'[i].tape = t /\ drive'[i].started = TRUE /\ drive'[i].pc = "alloc"
      /\ drive'[i].tried = drive[i].tried \cup {t}
    BY <1>1, TakeTurns DEF Reconcile
<1>4. Media /\ known'[t].epoch = tape[t].epoch /\ \A u \in Tapes : Spared(u)
    BY <1>2, HeardMedia DEF Reconcile
<1>5. Claims
    BY <1>2, <1>4, ClaimsReconcile DEF Reconcile
<1>6. RunTypes' /\ Reserved' /\ Wipe'
    BY <1>1, <1>2, <1>3 DEF Reconcile, RunTypes, Reserved, Wipe
<1>7. DriveStep(i)
    BY <1>1, <1>2, <1>3, <1>4, <1>5, <1>6 DEF DriveStep, RunTypes
<1>8. DriveTypes(i)'
    BY <1>1, <1>2, <1>3 DEF DriveTypes, Carries
<1>9. Hand(i)'
  <2>1. \A k \in DOMAIN drive'[i].parts :
           /\ drive'[i].parts[k].tape \in reserved'
           /\ drive'[i].parts[k].epoch <= known'[drive'[i].parts[k].tape].epoch
           /\ Holds(drive[i].parts[k], drive[i].arch, k, drive[i].lens[k])'
      BY <1>1, <1>3, <1>4, PartsStay DEF RunTypes
  <2>2. InUse(drive[i].tape)'
      BY <1>3, <1>4 DEF InUse, Reconcile
  <2> QED
      BY <1>1, <1>2, <1>3, <2>1, <2>2 DEF Hand, Carries
<1> QED
    BY <1>7, <1>8, <1>9, DriveStepKeeps

\* A reel wiped and not reconciled stays as it is while the catalog does.
LEMMA WipeStays ==
  ASSUME IInv, UNCHANGED <<placed, wiped>>, \A t \in Tapes : tape'[t].epoch = tape[t].epoch
  PROVE  Wipe'
<1>1. Wipe /\ wiped \in Tapes \cup {0}
    BY TypesSplit DEF IInv, RunTypes
<1>2. \A w : Protected(w)' <=> Protected(w)
    BY DEF Protected, RunsOnLabel, KeptRuns, Labels, Places, Placed
<1>3. ASSUME NEW w, w = wiped', w # 0 PROVE ~Protected(w)' /\ tape'[w].epoch # 0
    BY <1>1, <1>2, <1>3 DEF Wipe
<1> QED
    BY <1>3 DEF Wipe

\* The sequence with one more element.
LEMMA Appended ==
  ASSUME NEW S, NEW s \in Seq(S), NEW e \in S
  PROVE  /\ Append(s, e) \in Seq(S)
         /\ DOMAIN Append(s, e) = 1..(Len(s) + 1) /\ Append(s, e)[Len(s) + 1] = e
         /\ \A k \in 1..Len(s) : k \in DOMAIN s /\ Append(s, e)[k] = s[k]
  OBVIOUS

\* A drive writes a part on its reel, which is reserved and as the catalog knows it.
LEMMA PartKeeps ==
  ASSUME IInv, NEW i \in Drives, drive[i].pc = "write", drive[i].tape # 0, NEW n \in 1..Size,
         Append1(drive[i].tape, [arch |-> drive[i].arch, part |-> Len(drive[i].parts) + 1,
                                 len |-> n, map |-> <<>>, lens |-> <<>>]),
         PartInHand(i, HereNext(drive[i].tape), n),
         UNCHANGED <<known, placed, staged, run, todo, reserved, wiped, faults, misled>>
  PROVE  IInv'
<1> SUFFICES ASSUME NEW t, t = drive[i].tape,
                    NEW f, f = [arch |-> drive[i].arch, part |-> Len(drive[i].parts) + 1,
                                len |-> n, map |-> <<>>, lens |-> <<>>],
                    NEW here, here = HereNext(t), NEW m, m = Len(drive[i].parts)
             PROVE  IInv'
    OBVIOUS
<1>1. RunTypes /\ DriveTypes(i) /\ Hand(i) /\ Shaped /\ MediaTypes
    BY TypesSplit DEF IInv, Hands
<1>2. /\ t \in Tapes /\ InUse(t) /\ tape[t].epoch # 0 /\ drive[i].arch \in Archives /\ ~Stopped
    BY OnItsReel DEF Stopped
<1>3. n \in Nat /\ f \in File /\ m \in Nat
  <2>1. Size \in Nat
      BY RotationAssumption
  <2>2. n \in Nat
      BY <2>1
  <2> QED
      BY <1>1, <1>2, <2>2, PartIsFile DEF IInv, DriveTypes
<1>4. /\ Media /\ \A u \in Tapes : Spared(u)
      /\ \A u \in Tapes \ {t} : tape'[u] = tape[u]
      /\ Len(tape[t].files) + 1 \in DOMAIN tape'[t].files
      /\ tape'[t].files[Len(tape[t].files) + 1] = f
      /\ \A p \in DOMAIN tape'[t].files :
           \/ p \in DOMAIN tape[t].files /\ tape'[t].files[p] = tape[t].files[p]
           \/ tape'[t].files[p] = f
    BY <1>2, <1>3, AddMedia
<1>5. /\ Alone(i)
      /\ drive'[i].tape = t /\ drive'[i].started = drive[i].started
      /\ drive'[i].pc = "alloc" /\ drive'[i].tried = drive[i].tried
      /\ drive'[i].arch = drive[i].arch
      /\ drive'[i].parts = Append(drive[i].parts, here)
      /\ drive'[i].lens = Append(drive[i].lens, n)
    BY DEF PartInHand
<1>6. Claims
  <2>1. f.part # 0
      BY <1>3
  <2>2. \A u \in Tapes : tape'[u].epoch = tape[u].epoch
      BY <1>4 DEF Spared, KeepsFiles
  <2> QED
      BY <1>4, <2>1, <2>2, ClaimsAge
<1>7. RunTypes' /\ Reserved' /\ Wipe'
  <2>1. \A u \in Tapes : tape'[u].epoch = tape[u].epoch
      BY <1>4 DEF Spared, KeepsFiles
  <2>2. Reserved'
      BY <1>1, <2>1 DEF IInv, Reserved, RunTypes
  <2>3. Wipe'
      BY <2>1, WipeStays
  <2> QED
      BY <1>1, <2>2, <2>3 DEF RunTypes
<1>8. DriveStep(i)
    BY <1>1, <1>2, <1>4, <1>5, <1>6, <1>7 DEF DriveStep, RunTypes
<1>9. here \in FilePos /\ drive[i].parts \in Seq(FilePos) /\ drive[i].lens \in Seq(Nat)
    BY <1>1, <1>2, HereIsPos DEF DriveTypes
<1>10. DriveTypes(i)'
  <2>1. Append(drive[i].parts, here) \in Seq(FilePos) /\ Append(drive[i].lens, n) \in Seq(Nat)
      BY <1>3, <1>9
  <2> QED
      BY <1>1, <1>5, <2>1 DEF DriveTypes
<1>11. /\ Len(drive[i].lens) = m /\ DOMAIN drive'[i].parts = 1..(m + 1)
       /\ DOMAIN drive'[i].lens = 1..(m + 1)
       /\ drive'[i].parts[m + 1] = here /\ drive'[i].lens[m + 1] = n
       /\ \A k \in 1..m : /\ k \in DOMAIN drive[i].parts
                          /\ drive'[i].parts[k] = drive[i].parts[k]
                          /\ drive'[i].lens[k] = drive[i].lens[k]
  <2>1. DOMAIN drive[i].lens = DOMAIN drive[i].parts
      BY <1>1 DEF Hand
  <2>2. Len(drive[i].lens) = m
      BY <1>9, <2>1
  <2>3. /\ DOMAIN drive'[i].parts = 1..(m + 1) /\ drive'[i].parts[m + 1] = here
        /\ \A k \in 1..m : /\ k \in DOMAIN drive[i].parts
                           /\ drive'[i].parts[k] = drive[i].parts[k]
    <3>1. ASSUME NEW s, s = drive[i].parts, NEW q, q = drive'[i].parts
          PROVE  /\ DOMAIN q = 1..(m + 1) /\ q[m + 1] = here
                 /\ \A k \in 1..m : q[k] = s[k]
      <4>1. s \in Seq(FilePos) /\ here \in FilePos /\ Len(s) = m
          BY <1>9, <3>1
      <4>2. q = Append(s, here)
          BY <1>5, <3>1
      <4> QED
          BY <4>1, <4>2, Appended
    <3>2. \A k \in 1..m : k \in DOMAIN drive[i].parts
        BY <1>9
    <3> QED
        BY <3>1, <3>2
  <2>4. /\ DOMAIN drive'[i].lens = 1..(m + 1) /\ drive'[i].lens[m + 1] = n
        /\ \A k \in 1..m : drive'[i].lens[k] = drive[i].lens[k]
    <3>1. ASSUME NEW s, s = drive[i].lens, NEW q, q = drive'[i].lens
          PROVE  /\ DOMAIN q = 1..(m + 1) /\ q[m + 1] = n
                 /\ \A k \in 1..m : q[k] = s[k]
      <4>1. s \in Seq(Nat) /\ n \in Nat /\ Len(s) = m
          BY <1>3, <1>9, <2>2, <3>1
      <4>2. q = Append(s, n)
          BY <1>5, <3>1
      <4> QED
          BY <4>1, <4>2, Appended
    <3> QED
        BY <3>1
  <2> QED
      BY <2>2, <2>3, <2>4
<1>12. ASSUME NEW k \in 1..(m + 1)
       PROVE  /\ drive'[i].parts[k].tape \in reserved
              /\ drive'[i].parts[k].epoch <= known[drive'[i].parts[k].tape].epoch
              /\ Holds(drive[i].parts[k], drive[i].arch, k, drive[i].lens[k])'
  <2>1. CASE k \in 1..m
    <3>1. ASSUME NEW fp, fp = drive[i].parts[k], NEW a, a = drive[i].arch,
                 NEW l, l = drive[i].lens[k]
          PROVE  fp.tape \in reserved /\ fp.epoch <= known[fp.tape].epoch /\ Holds(fp, a, k, l)'
      <4>1. fp.tape \in reserved /\ fp.epoch <= known[fp.tape].epoch /\ Holds(fp, a, k, l)
          BY <1>1, <1>11, <2>1, <3>1 DEF Hand
      <4> QED
          BY <1>1, <1>4, <4>1, HoldsSpared DEF Spared, RunTypes
    <3> QED
        BY <1>5, <1>11, <2>1, <3>1
  <2>2. CASE k = m + 1
    <3>1. here.tape = t /\ here.epoch = tape[t].epoch /\ here.pos = Len(tape[t].files) + 1
        BY DEF HereNext
    <3>2. t \in reserved /\ known[t].epoch = tape[t].epoch /\ tape[t].epoch \in Nat
        BY <1>1, <1>2 DEF InUse, MediaTypes
    <3>3. tape'[t].epoch = tape[t].epoch
        BY <1>2, <1>4 DEF Spared, KeepsFiles
    <3>4. f.arch = drive'[i].arch /\ f.part = k /\ f.len = n
        BY <1>5, <2>2
    <3>5. ASSUME NEW fp, fp = here, NEW a, a = drive'[i].arch, NEW l, l = n
          PROVE  Holds(fp, a, k, l)'
        BY <1>4, <3>1, <3>3, <3>4, <3>5 DEF Holds, FileAt
    <3>6. here.tape \in reserved /\ here.epoch <= known[here.tape].epoch
        BY <3>1, <3>2
    <3> QED
        BY <1>11, <2>2, <3>5, <3>6
  <2>3. k \in 1..m \/ k = m + 1
      BY <1>3
  <2> QED
      BY <2>1, <2>2, <2>3
<1>13. Hand(i)'
  <2>1. InUse(t)'
      BY <1>2, <1>4 DEF InUse, Spared, KeepsFiles
  <2>2. InUse(drive[i].tape)'
      BY <1>5, <2>1 DEF InUse
  <2>3. drive[i].started = TRUE
      BY <1>1 DEF Hand
  <2>4. \A k \in DOMAIN drive'[i].parts :
           /\ drive'[i].parts[k].tape \in reserved'
           /\ drive'[i].parts[k].epoch <= known'[drive'[i].parts[k].tape].epoch
           /\ Holds(drive[i].parts[k], drive[i].arch, k, drive[i].lens[k])'
    <3> SUFFICES ASSUME NEW k \in 1..(m + 1)
                 PROVE  /\ drive'[i].parts[k].tape \in reserved'
                        /\ drive'[i].parts[k].epoch <= known'[drive'[i].parts[k].tape].epoch
                        /\ Holds(drive[i].parts[k], drive[i].arch, k, drive[i].lens[k])'
        BY <1>11
    <3> QED
        BY <1>12
  <2> QED
      BY <1>2, <1>5, <1>11, <2>2, <2>3, <2>4 DEF Hand
<1> QED
    BY <1>8, <1>10, <1>13, DriveStepKeeps

\* The footer goes behind the last part.
LEMMA FooterKeeps ==
  ASSUME IInv, NEW i \in Drives, drive[i].pc = "write", drive[i].tape # 0, Streamed(i),
         Append1(drive[i].tape, [arch |-> drive[i].arch, part |-> 0, len |-> FooterCost,
                                 map |-> drive[i].parts, lens |-> drive[i].lens]),
         drive' = [drive EXCEPT ![i].fill.used = @ + FooterCost, ![i].pc = "record"],
         UNCHANGED <<known, placed, staged, run, todo, reserved, wiped, faults, misled>>
  PROVE  IInv'
<1>1. RunTypes /\ DriveTypes(i) /\ Hand(i) /\ Shaped
    BY TypesSplit DEF IInv, Hands
<1>2. drive[i].tape \in Tapes /\ InUse(drive[i].tape) /\ ~Stopped
    BY OnItsReel DEF Stopped
<1>3. Claims /\ Media /\ \A u \in Tapes : Spared(u)
    BY ClaimsFooter
<1>4. /\ Alone(i) /\ Carries(i)
      /\ drive'[i].tape = drive[i].tape /\ drive'[i].started = drive[i].started
      /\ drive'[i].pc = "record" /\ drive'[i].tried = drive[i].tried
    BY <1>1, FooterTurns
<1>5. RunTypes' /\ Reserved' /\ Wipe'
  <2>1. \A u \in Tapes : tape'[u].epoch = tape[u].epoch
      BY <1>3 DEF Spared, KeepsFiles
  <2>2. Reserved'
      BY <1>1, <2>1 DEF IInv, Reserved, RunTypes
  <2>3. Wipe'
      BY <2>1, WipeStays
  <2> QED
      BY <1>1, <2>2, <2>3 DEF RunTypes
<1>6. DriveStep(i)
    BY <1>1, <1>2, <1>3, <1>4, <1>5 DEF DriveStep, RunTypes
<1>7. DriveTypes(i)'
    BY <1>1, <1>4 DEF DriveTypes, Carries
<1>8. Hand(i)'
  <2>1. \A k \in DOMAIN drive'[i].parts :
           /\ drive'[i].parts[k].tape \in reserved'
           /\ drive'[i].parts[k].epoch <= known'[drive'[i].parts[k].tape].epoch
           /\ Holds(drive[i].parts[k], drive[i].arch, k, drive[i].lens[k])'
      BY <1>1, <1>3, <1>4, PartsStay DEF RunTypes
  <2>2. InUse(drive[i].tape)'
      BY <1>2, <1>3, <1>4 DEF InUse, Spared, KeepsFiles
  <2>3. Streamed(i)'
      BY <1>4 DEF Streamed, Carries
  <2> QED
      BY <1>1, <1>4, <2>1, <2>2, <2>3 DEF Hand, Carries
<1> QED
    BY <1>6, <1>7, <1>8, DriveStepKeeps

\* A part or a footer goes to the end of the reserved reel.
LEMMA WriteFileKeeps == ASSUME IInv, NEW i \in Drives, WriteFile(i) PROVE IInv'
<1>1. /\ drive[i].pc = "write" /\ drive[i].tape # 0
      /\ UNCHANGED <<known, placed, staged, run, todo, reserved, wiped, faults, misled>>
    BY DEF WriteFile
<1>2. CASE \E n \in 1..Size :
             /\ Append1(drive[i].tape, [arch |-> drive[i].arch, part |-> Len(drive[i].parts) + 1,
                                        len |-> n, map |-> <<>>, lens |-> <<>>])
             /\ drive' = [drive EXCEPT ![i].parts = Append(@, HereNext(drive[i].tape)),
                                       ![i].lens = Append(@, n),
                                       ![i].fill.used = @ + n, ![i].pc = "alloc"]
  <2>1. PICK n \in 1..Size :
          /\ Append1(drive[i].tape, [arch |-> drive[i].arch, part |-> Len(drive[i].parts) + 1,
                                     len |-> n, map |-> <<>>, lens |-> <<>>])
          /\ drive' = [drive EXCEPT ![i].parts = Append(@, HereNext(drive[i].tape)),
                                    ![i].lens = Append(@, n),
                                    ![i].fill.used = @ + n, ![i].pc = "alloc"]
      BY <1>2
  <2>2. PartInHand(i, HereNext(drive[i].tape), n)
      BY <2>1, PartTurns DEF IInv
  <2> QED
      BY <1>1, <2>1, <2>2, PartKeeps
<1>3. CASE /\ Streamed(i)
           /\ Append1(drive[i].tape, [arch |-> drive[i].arch, part |-> 0, len |-> FooterCost,
                                      map |-> drive[i].parts, lens |-> drive[i].lens])
           /\ drive' = [drive EXCEPT ![i].fill.used = @ + FooterCost, ![i].pc = "record"]
    BY <1>1, <1>3, FooterKeeps
<1> QED
    BY <1>2, <1>3 DEF WriteFile

\* What is recorded is where the footer says: no reel of it was wiped meanwhile.
LEMMA RecordKeeps == ASSUME IInv, NEW i \in Drives, Record(i) PROVE IInv'
<1>1. RunTypes /\ DriveTypes(i) /\ Hand(i) /\ Shaped /\ MediaTypes
    BY TypesSplit DEF IInv, Hands
<1>2. /\ drive[i].pc = "record" /\ wiped = 0 /\ drive[i].tape \in Tapes /\ ~Stopped
      /\ InUse(drive[i].tape)
    BY OnItsReel, <1>1 DEF Record, OrchestratorFree, Stopped, Hand
<1>3. Claims
  <2>1. [tape |-> drive[i].tape, epoch |-> tape[drive[i].tape].epoch,
         pos |-> Len(tape[drive[i].tape].files)] \in FilePos
      BY <1>1, <1>2, HereIsPos
  <2> QED
      BY <1>2, <2>1, ClaimsRecord DEF Record
<1>4. Media /\ \A u \in Tapes : Spared(u)
    BY QuietMedia DEF Record
<1>5. /\ Alone(i)
      /\ drive'[i].tape = drive[i].tape /\ drive'[i].started = drive[i].started
      /\ drive'[i].pc = "idle" /\ drive'[i].tried = drive[i].tried
      /\ drive'[i].arch = NoArchive /\ drive'[i].parts = <<>> /\ drive'[i].lens = <<>>
    BY <1>1, RecordTurns DEF Record
<1>6. RunTypes' /\ Reserved' /\ Wipe'
  <2>1. RunTypes'
      BY <1>1 DEF Record, RunTypes
  <2>2. Reserved'
      BY DEF IInv, Reserved, Record
  <2>3. Wipe'
      BY <1>2 DEF Wipe, Record
  <2> QED
      BY <2>1, <2>2, <2>3
<1>7. DriveStep(i)
    BY <1>1, <1>2, <1>3, <1>4, <1>5, <1>6 DEF DriveStep, RunTypes, Record
<1>8. DriveTypes(i)'
  <2>1. <<>> \in Seq(FilePos) /\ <<>> \in Seq(Nat)
      OBVIOUS
  <2> QED
      BY <1>1, <1>5, <2>1 DEF DriveTypes
<1>9. Hand(i)'
  <2>1. InUse(drive[i].tape)'
      BY <1>2, <1>5 DEF InUse, Record
  <2> QED
      BY <1>5, <2>1 DEF Hand
<1> QED
    BY <1>7, <1>8, <1>9, DriveStepKeeps
-----------------------------------------------------------------------------
(* Between runs nothing is in hand. *)

\* Drives at rest stay at rest.
LEMMA AtRest ==
  ASSUME IInv, Stopped, todo' = todo,
         \A i \in Drives : drive'[i].pc = drive[i].pc /\ Carries(i)
  PROVE  Hands'
<1>1. Stopped'
    BY DEF Stopped
<1>2. ASSUME NEW i \in Drives
      PROVE  drive'[i].pc = "idle" /\ drive'[i].parts = <<>> /\ drive'[i].lens = <<>>
    BY DEF IInv, Hands, Hand, Stopped, Carries
<1> QED
    BY <1>1, <1>2 DEF Hands, Hand

\* nb label --relabel: the new epoch is past any the catalog has heard of.
LEMMA RelabelKeeps == ASSUME IInv, NEW t \in Tapes, RelabelByHand(t) PROVE IInv'
<1>1. RunTypes /\ Apart /\ Shaped /\ MediaTypes /\ Reels /\ MaxFaults \in Nat
      /\ \A j \in Drives : DriveTypes(j)
    BY TypesSplit, RotationAssumption DEF IInv
<1>2. /\ Stopped /\ ~Protected(t) /\ Stamp(t, tape[t].epoch + 1) /\ wiped' = t
      /\ drive' = [drive EXCEPT ![FirstDrive].tape = t]
      /\ \A j \in Drives \ {FirstDrive} : drive[j].tape # t
      /\ UNCHANGED <<known, placed, staged, run, todo, reserved, misled>>
    BY DEF RelabelByHand
<1>3. /\ Media /\ tape'[t].epoch # 0 /\ \A u \in Tapes \ {t} : Spared(u)
  <2>1. known[t].epoch \in Nat /\ tape[t].epoch \in Nat /\ known[t].epoch <= tape[t].epoch
      BY <1>1 DEF MediaTypes, Reels
  <2>2. tape[t].epoch + 1 \in Nat /\ known[t].epoch < tape[t].epoch + 1
      BY <2>1
  <2> QED
      BY <1>2, <2>2, WipeMedia
<1>4. \A u \in Tapes : tape'[u] = tape[u] \/ tape'[u].files = <<>>
    BY <1>1, <1>2 DEF Stamp, MediaTypes
<1>5. Claims
  <2>1. \A u \in Tapes : (Labeled(u) /\ Protected(u)) => tape'[u].epoch = tape[u].epoch
      BY <1>2, <1>3 DEF Spared, KeepsFiles
  <2> QED
      BY <1>2, <1>3, <1>4, <2>1, ClaimsAge
<1>6. RunTypes' /\ Reserved' /\ Wipe'
  <2>1. RunTypes'
      BY <1>1, <1>2 DEF RelabelByHand, RunTypes
  <2>2. Reserved'
      BY <1>1, <1>2, <1>3 DEF IInv, Reserved, Spared, KeepsFiles, RunTypes
  <2>3. Protected(t)' <=> Protected(t)
      BY <1>2 DEF Protected, RunsOnLabel, KeptRuns, Labels, Places, Placed
  <2>4. Wipe'
    <3>1. ASSUME NEW w, w = wiped' PROVE ~Protected(w)' /\ tape'[w].epoch # 0
        BY <1>2, <1>3, <2>3, <3>1
    <3> QED
        BY <3>1 DEF Wipe
  <2> QED
      BY <2>1, <2>2, <2>4
<1>7. /\ Shaped'
      /\ \A i \in Drives :
           /\ drive'[i].pc = drive[i].pc /\ drive'[i].started = drive[i].started
           /\ drive'[i].tried = drive[i].tried /\ Carries(i)
           /\ drive'[i].tape = IF i = FirstDrive THEN t ELSE drive[i].tape
    BY <1>1, <1>2, LabelTurns
<1>8. ASSUME NEW j \in Drives PROVE DriveTypes(j)'
  <2>1. drive'[j].tape \in Tapes \cup {0}
      BY <1>1, <1>7 DEF DriveTypes
  <2> QED
      BY <1>1, <1>7, <2>1 DEF DriveTypes, Carries
<1>9. Apart'
    BY <1>1, <1>2, <1>7 DEF Apart
<1>10. Hands'
    BY <1>2, <1>7, AtRest
<1> QED
    BY <1>3, <1>5, <1>6, <1>7, <1>8, <1>9, <1>10, InvSplit DEF Media, Claims

\* With the drives untouched, the rest of the invariant is enough.
LEMMA DrivesRest ==
  ASSUME IInv, Stopped, UNCHANGED <<todo, drive>>, Media, Claims, RunTypes', Reserved', Wipe'
  PROVE  IInv'
<1>1. Apart' /\ Shaped' /\ \A j \in Drives : DriveTypes(j)'
    BY TypesSplit DEF IInv, Apart, Shaped, DriveTypes
<1>2. Hands'
    BY AtRest DEF Carries
<1> QED
    BY <1>1, <1>2, InvSplit DEF Media, Claims

\* Reconciling a reel wiped by hand forgets what it held.
LEMMA ReconcileByHandKeeps == ASSUME IInv, ReconcileByHand PROVE IInv'
<1>1. RunTypes /\ wiped \in Tapes /\ wiped # 0 /\ Stopped
    BY TypesSplit DEF IInv, ReconcileByHand, RunTypes
<1>2. Media
    BY <1>1, HeardMedia DEF ReconcileByHand
<1>3. Claims
    BY <1>1, <1>2, ClaimsReconcile DEF ReconcileByHand
<1>4. RunTypes' /\ Reserved' /\ Wipe'
    BY <1>1 DEF ReconcileByHand, RunTypes, IInv, Reserved, Wipe
<1> QED
    BY <1>1, <1>2, <1>3, <1>4, DrivesRest DEF ReconcileByHand

\* A rebuild from the footers, with no run in progress.
LEMMA RebuildKeeps == ASSUME IInv, Rebuild PROVE IInv'
<1>1. RunTypes /\ Stopped /\ wiped = 0
    BY TypesSplit DEF IInv, Rebuild
<1>2. Media /\ \A t \in Tapes : known'[t].epoch = tape[t].epoch
    BY RebuildMedia DEF Rebuild
<1>3. Claims
    BY <1>2, ClaimsRebuild DEF Rebuild
<1>4. misled' \in BOOLEAN
    BY <1>1 DEF Rebuild, RunTypes
<1>5. RunTypes' /\ Reserved' /\ Wipe'
    BY <1>1, <1>4 DEF Rebuild, RunTypes, IInv, Reserved, Wipe
<1> QED
    BY <1>1, <1>2, <1>3, <1>5, DrivesRest DEF Rebuild
-----------------------------------------------------------------------------
\* The empty library.
LEMMA InitHolds == Init => IInv
<1> SUFFICES ASSUME Init PROVE IInv
    OBVIOUS
<1>1. PICK loaded \in [Drives -> Tapes \cup {0}] :
        /\ \A i, j \in Drives : loaded[i] = loaded[j] => i = j \/ loaded[i] = 0
        /\ drive = [i \in Drives |-> [Idle EXCEPT !.tape = loaded[i]]]
    BY DEF Init
<1>2. /\ Shaped
      /\ \A i \in Drives :
           /\ drive[i].tape = loaded[i] /\ drive[i].started = FALSE
           /\ drive[i].pc = "idle" /\ drive[i].tried = {} /\ drive[i].arch = NoArchive
           /\ drive[i].parts = <<>> /\ drive[i].lens = <<>>
    BY <1>1 DEF Shaped, Fields, Idle
<1>3. MaxRuns \in Nat /\ MaxFaults \in Nat
    BY RotationAssumption
<1>4. \A t \in Tapes : /\ tape[t].epoch = 0 /\ tape[t].files = <<>> /\ known[t].epoch = 0
    BY DEF Init, Blank
<1>5. MediaTypes
  <2>1. <<>> \in Seq(File) /\ 0 \in Nat /\ 0 \in 0..MaxRuns
      BY <1>3
  <2> QED
      BY <2>1 DEF Init, Blank, MediaTypes
<1>6. Placed = {} /\ CatalogTypes
    BY DEF Init, Placed, CatalogTypes
<1>7. RunTypes /\ Reserved /\ Wipe
  <2>1. misled = FALSE /\ misled \in BOOLEAN
      BY DEF Init
  <2>2. 0 \in 0..MaxRuns /\ 0 \in 0..MaxFaults
      BY <1>3
  <2> QED
      BY <2>1, <2>2 DEF Init, RunTypes, Reserved, Wipe
<1>8. ASSUME NEW i \in Drives PROVE DriveTypes(i) /\ Hand(i)
  <2>1. <<>> \in Seq(FilePos) /\ <<>> \in Seq(Nat) /\ FALSE \in BOOLEAN
      OBVIOUS
  <2>2. DriveTypes(i)
      BY <1>1, <1>2, <2>1 DEF DriveTypes
  <2> QED
      BY <1>2, <2>2 DEF Hand
<1>9. Apart
    BY <1>1, <1>2 DEF Apart
<1>10. TypeOK
    BY <1>5, <1>6, <1>7, <1>8, <1>9, TypesSplit
<1>11. Reels /\ Footers
    BY <1>4 DEF Reels, Footers
<1>12. Places0 /\ Live
    BY <1>6 DEF Places0, Live, Latest
<1> QED
    BY <1>2, <1>7, <1>8, <1>10, <1>11, <1>12 DEF IInv, Hands

\* The invariant is inductive.
LEMMA StepKeeps == IInv /\ [Next]_vars => IInv'
<1> SUFFICES ASSUME IInv, [Next]_vars PROVE IInv'
    OBVIOUS
<1>1. CASE StartRun
    BY <1>1, StartRunKeeps
<1>2. CASE Crash
    BY <1>2, CrashKeeps
<1>3. CASE ReconcileByHand
    BY <1>3, ReconcileByHandKeeps
<1>4. CASE Rebuild
    BY <1>4, RebuildKeeps
<1>5. CASE \E t \in Tapes : RelabelByHand(t)
    BY <1>5, RelabelKeeps
<1>6. ASSUME NEW i \in Drives,
             \/ Begin(i) \/ Ready(i) \/ PrepareLoaded(i) \/ PrepareStale(i)
             \/ RollToLabeled(i) \/ RollToBlank(i) \/ Recycle(i) \/ Reconcile(i) \/ RollFails(i)
             \/ WriteFile(i) \/ VolumeFull(i) \/ WriteFails(i) \/ Record(i)
      PROVE  IInv'
    BY <1>6, BeginKeeps, ReadyKeeps, TakingKeeps, GivingUpKeeps, RecycleKeeps, ReconcileKeeps,
       WriteFileKeeps, RecordKeeps
<1>7. CASE UNCHANGED vars
  <2>1. UNCHANGED <<tape, known, placed, staged, run, todo, reserved, drive, wiped, faults, misled>>
      BY <1>7 DEF vars
  <2>2. Media /\ Claims /\ Reserved' /\ Wipe'
      BY <2>1, QuietStep
  <2>3. RunTypes' /\ Apart' /\ Shaped' /\ \A j \in Drives : DriveTypes(j)'
      BY <2>1, TypesSplit DEF IInv, RunTypes, Apart, Shaped, DriveTypes
  <2>4. ASSUME NEW i \in Drives PROVE Hand(i)'
      BY <2>1 DEF IInv, Hands, Hand, InUse, Holds, FileAt, Stopped, Streamed
  <2> QED
      BY <2>2, <2>3, <2>4, InvSplit DEF Media, Claims, Hands
<1> QED
    BY <1>1, <1>2, <1>3, <1>4, <1>5, <1>6, <1>7 DEF Next

\* The inductive invariant holds: names of files, reservations and protections agree.
THEOREM Inductive == Spec => []IInv
  BY InitHolds, StepKeeps, PTL DEF Spec

\* The types, and that no reel is in two drives (robot moves, loads, recycling, nb label).
THEOREM TypeCorrect == Spec => []TypeOK
<1>1. IInv => TypeOK
    BY DEF IInv
<1> QED
    BY <1>1, Inductive, PTL

\* Every file a drive has in hand or the catalog names is where it is named, unless its
\* reel has moved to another epoch (writer.go, catalog.Record, reconcileRelabel).
THEOREM FilesAreAlwaysNamed == Spec => []FilesAreNamed
<1>1. IInv => FilesAreNamed
  <2> SUFFICES ASSUME IInv PROVE FilesAreNamed
      OBVIOUS
  <2>1. InHandKept
      BY DEF IInv, Hands, Hand, InHandKept
  <2>2. EpochTells
      BY DEF IInv, Places0, PlaceTells, Tells, EpochTells
  <2> QED
      BY <2>1, <2>2 DEF FilesAreNamed
<1> QED
    BY <1>1, Inductive, PTL

\* The latest archive of every DLE stays on its reels, whatever drives, crashes, hand
\* labels and rebuilds that were not misled do (oldestReusable, reconcileRelabel).
THEOREM LatestStaysWhole == Spec => []LatestWhole
<1>1. IInv => LatestWhole
  <2> SUFFICES ASSUME IInv, ~misled, NEW a \in Latest PROVE Whole(a)
      BY DEF LatestWhole
  <2>1. a \in Placed /\ PlaceTells(a)
      BY DEF IInv, Places0, Latest
  <2>2. ASSUME NEW k \in DOMAIN placed[a].parts
        PROVE  Holds(placed[a].parts[k], a, k, placed[a].lens[k])
      BY <2>1 DEF IInv, Live, PlaceTells, Tells
  <2> QED
      BY <2>1, <2>2 DEF Whole, PlaceTells
<1> QED
    BY <1>1, Inductive, PTL
=============================================================================
