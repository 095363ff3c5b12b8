----------------------------- MODULE TapeDrive -----------------------------
(***************************************************************************)
(* What the librarian asks of a tape library's hardware: the changer moves *)
(* cartridges, a drive appends numbered files to the one it holds, and a   *)
(* relabel starts the cartridge over from its beginning.  robot: mtx(1)    *)
(* over st(4) drives, whose handle outlives the cartridge in it.  emulated:*)
(* numbered objects in a bucket.  Only one of a drive's operations is      *)
(* under way at a time (the device mutex).                                 *)
(*                                                                         *)
(* internal/media/tape (tape, mt_linux, mtx, mtx_linux, dir), driven as    *)
(* internal/librarian (write, rotation, label) and archiveio drive it.     *)
(***************************************************************************)
EXTENDS Integers, Sequences, FiniteSets, SequencesExt, FiniteSetsExt

CONSTANTS Kinds, Reels, Slots, Drives,
          MaxFiles,   \* bound: writes begun
          MaxFaults   \* bound

TapeDriveAssumption ==
  /\ Slots \subseteq Nat \ {0} /\ Drives \subseteq Nat \ {0} /\ Reels \subseteq Slots
  /\ MaxFiles \in Nat /\ MaxFaults \in Nat

VARIABLES
  kind,
  files,    \* reel -> the files on it, in order
  slot,     \* reel -> the slot it is in, 0 when it is in a drive
  home,     \* drive -> [reel, from]: what the changer has there, and from which slot
  bound,    \* drive -> [on, code, from]: what tapeChanger says is loaded
  armed,    \* drive -> atBOT: the next append writes at the beginning
  job,      \* drive -> the write under way
  begun,    \* writes begun
  kept,     \* [reel, pos, id]: the files whose Close returned without an error
  faults

vars == <<kind, files, slot, home, bound, armed, job, begun, kept, faults>>
robotVars == <<slot, home, bound>>

Empty == [reel |-> 0, from |-> 0]
Unbound == [on |-> FALSE, code |-> 0, from |-> 0]
Idle == [pc |-> "idle", pos |-> 0, id |-> 0, label |-> FALSE]
NoReel == 0

Init ==
  /\ kind \in Kinds
  /\ files = [r \in Reels |-> <<>>] /\ slot = [r \in Reels |-> r]
  /\ home = [d \in Drives |-> Empty]
  /\ bound = [d \in Drives |-> Unbound] /\ armed = [d \in Drives |-> FALSE]
  /\ job = [d \in Drives |-> Idle] /\ begun = 0 /\ kept = {} /\ faults = 0

Fault == faults < MaxFaults /\ faults' = faults + 1
NoFault == UNCHANGED faults
-----------------------------------------------------------------------------
(* The changer. *)

In(d) == home[d].reel
InSlot(s) == {r \in Reels : slot[r] = s}
EmptySlots == {s \in Slots : InSlot(s) = {} /\ (kind = "robot" \/ \A d \in Drives : home[d].from # s)}

\* unloadTo: home, or the first empty slot when the changer has forgotten it.
Target(d) == IF home[d].from # 0 THEN {home[d].from} \cap EmptySlots
             ELSE IF EmptySlots = {} THEN {} ELSE {Min(EmptySlots)}

\* Where the reels are after drive d's has gone to slot s, and what s then offers.
Returned(d, s) == IF In(d) = NoReel THEN slot ELSE [slot EXCEPT ![In(d)] = s]
At(where, s) == {r \in Reels : where[r] = s}

Phantom(d) == UNCHANGED bound                    \* a mutant: the binding survives
Unbind(d) == bound' = [bound EXCEPT ![d] = Unbound]
Bind(d, code, s) == bound' = [bound EXCEPT ![d] = [on |-> TRUE, code |-> code, from |-> s]]
Mount(d, r, s) == home' = [home EXCEPT ![d] = [reel |-> r, from |-> s]]

\* mtxLoader.load: the occupant goes home first; the scanner's barcode is the one that it
\* read in the slot beforehand.
RobotLoad(d, s) ==
  /\ kind = "robot"
  /\ LET was == InSlot(s)
         code == IF was = {} THEN 0 ELSE CHOOSE r \in was : TRUE IN
     \/ /\ In(d) # NoReel /\ home[d].from = s
        /\ Bind(d, In(d), s) /\ NoFault /\ UNCHANGED <<slot, home>>
     \/ /\ In(d) # NoReel /\ home[d].from # s            \* the unload fails
        /\ IF Target(d) = {} THEN NoFault ELSE Fault
        /\ Unbind(d) /\ UNCHANGED <<slot, home>>
     \/ /\ In(d) = NoReel \/ (home[d].from # s /\ Target(d) # {})
        /\ LET where == IF In(d) = NoReel THEN slot ELSE Returned(d, Min(Target(d)))
               there == At(where, s) IN
           \/ /\ there # {} /\ NoFault
              /\ \E r \in there : Mount(d, r, s) /\ slot' = [where EXCEPT ![r] = 0]
              /\ Bind(d, code, s)
           \/ /\ IF there = {} THEN NoFault ELSE Fault     \* rejected, or nothing to load
              /\ home' = [home EXCEPT ![d] = Empty] /\ slot' = where
              /\ Unbind(d)

\* dirLoader.load points the drive at the slot; the bindings file is taken to be written.
EmulatedLoad(d, s) ==
  /\ kind = "emulated" /\ s \in Reels
  /\ \/ /\ \E e \in Drives \ {d} : home[e].from = s
        /\ Unbind(d) /\ NoFault /\ UNCHANGED <<slot, home>>
     \/ /\ \A e \in Drives \ {d} : home[e].from # s
        /\ Mount(d, s, s) /\ slot' = [Returned(d, home[d].from) EXCEPT ![s] = 0]
        /\ Bind(d, s, s) /\ NoFault

AtRest(d) == job[d].pc \in {"idle", "spoiled"}
driveVars == <<kind, files, armed, job, begun, kept>>

Load(d, s) ==
  /\ AtRest(d)
  /\ RobotLoad(d, s) \/ EmulatedLoad(d, s)
  /\ UNCHANGED driveVars

\* tapeChanger.Unload: a failure keeps the binding.
Unload(d) ==
  /\ AtRest(d) /\ UNCHANGED driveVars
  /\ \/ /\ kind = "robot" /\ In(d) # NoReel /\ Target(d) # {} /\ NoFault
        /\ slot' = Returned(d, Min(Target(d))) /\ home' = [home EXCEPT ![d] = Empty]
        /\ Unbind(d)
     \/ /\ kind = "robot" /\ In(d) = NoReel /\ bound[d].on
        /\ Unbind(d) /\ NoFault /\ UNCHANGED <<slot, home>>
     \/ /\ kind = "emulated" /\ In(d) # NoReel
        /\ slot' = Returned(d, home[d].from) /\ home' = [home EXCEPT ![d] = Empty]
        /\ Unbind(d) /\ NoFault

\* A changer that was powered off no longer says where a loaded reel came from.
Forget(d) ==
  /\ kind = "robot" /\ In(d) # NoReel /\ home[d].from # 0 /\ Fault
  /\ home' = [home EXCEPT ![d].from = 0]
  /\ UNCHANGED <<driveVars, slot, bound>>
-----------------------------------------------------------------------------
(* A drive. *)

\* The reel's files as the device numbers them, and what its file 0 says.
Count(r) == Len(files[r])
Label(r) == IF Count(r) = 0 THEN "blank"
            ELSE IF files[r][1].label /\ files[r][1].state = "whole" THEN "ours" ELSE "foreign"

\* What follows a position is lost with the first record written there.
WriteAt(r, pos, f) == files' = [files EXCEPT ![r] = Append(SubSeq(@, 1, pos), f)]
Mark(r, pos, state) == files' = [files EXCEPT ![r][pos + 1].state = state]
Drop(r) == files' = [files EXCEPT ![r] = Front(@)]

Ready(d) == bound[d].on /\ In(d) # NoReel
Become(d, pc) == job' = [job EXCEPT ![d].pc = pc]

\* The emulation's partial is discarded; on tape the close ends it with a filemark.
Abort(d) ==
  IF kind = "emulated" /\ job[d].pc # "opened" THEN Drop(In(d)) ELSE UNCHANGED files

\* A failed label is passed over for the next reel, which is labeled in its turn; a failed
\* archive trips its lane.
Fails(d) == Become(d, IF job[d].label THEN "spoiled" ELSE "dead")

\* device.reset: the drive rewinds and arms; the emulation deletes file after file.
Reset(d) ==
  IF kind = "robot" THEN armed' = [armed EXCEPT ![d] = TRUE] /\ UNCHANGED files
  ELSE files' = [files EXCEPT ![In(d)] = <<>>] /\ UNCHANGED armed
Gone(f) == [f EXCEPT !.state = "gone"]

\* WriteLabel begins: the reel is blank, or its every archive may go.
BeginLabel(d) ==
  /\ AtRest(d) /\ Ready(d) /\ begun < MaxFiles
  /\ begun' = begun + 1
  /\ kept' = {k \in kept : k.reel # In(d)}
  /\ LET next == [pc |-> "reset", pos |-> 0, id |-> begun + 1, label |-> TRUE] IN
     \/ job' = [job EXCEPT ![d] = next] /\ Reset(d) /\ NoFault
     \/ /\ Fault /\ job' = [job EXCEPT ![d] = [next EXCEPT !.pc = "spoiled"]] /\ UNCHANGED armed
        /\ IF kind = "robot" THEN UNCHANGED files
           ELSE \E n \in 0..Count(In(d)) : files' = [files EXCEPT ![In(d)] =
                  [k \in DOMAIN @ |-> IF k <= n THEN Gone(@[k]) ELSE @[k]]]
  /\ UNCHANGED <<kind, robotVars>>

\* An archive's file goes onto a reel whose label was read.
BeginFile(d) ==
  /\ job[d].pc = "idle" /\ Ready(d) /\ Label(In(d)) = "ours" /\ begun < MaxFiles
  /\ begun' = begun + 1
  /\ job' = [job EXCEPT ![d] = [pc |-> "reset", pos |-> 0, id |-> begun + 1, label |-> FALSE]]
  /\ UNCHANGED <<kind, robotVars, files, armed, kept, faults>>

Disarm(d) == armed' = [armed EXCEPT ![d] = FALSE]
Position(d) == IF armed[d] THEN 0 ELSE Count(In(d))

\* appendWriter: at the beginning if armed, else past the last file.
Open(d) ==
  /\ job[d].pc = "reset"
  /\ \/ /\ job' = [job EXCEPT ![d].pc = "opened", ![d].pos = Position(d)]
        /\ Disarm(d) /\ NoFault
     \/ Fails(d) /\ Fault /\ UNCHANGED armed
  /\ UNCHANGED <<kind, robotVars, files, begun, kept>>

\* EncodeHeader, in one record; the header of a failed one does not decode.
WriteHeader(d) ==
  /\ job[d].pc = "opened"
  /\ LET f == [id |-> job[d].id, label |-> job[d].label, state |-> "header"] IN
     \/ WriteAt(In(d), job[d].pos, f) /\ Become(d, "writing") /\ NoFault
     \/ Fails(d) /\ Fault /\ UNCHANGED files
     \/ /\ kind = "robot" /\ WriteAt(In(d), job[d].pos, [f EXCEPT !.state = "torn"])
        /\ Fails(d) /\ Fault
  /\ UNCHANGED <<kind, robotVars, armed, begun, kept>>

\* The payload, then Close: Commit writes the filemark, or the context is cancelled, or
\* the volume is full, or the mark fails and nobody knows what is on the tape.
Finish(d) ==
  /\ job[d].pc = "writing"
  /\ LET r == In(d) IN
     \/ /\ Mark(r, job[d].pos, "whole") /\ job' = [job EXCEPT ![d] = Idle] /\ NoFault
        /\ kept' = kept \cup {[reel |-> r, pos |-> job[d].pos, id |-> job[d].id]}
     \/ Abort(d) /\ Fails(d) /\ Fault /\ UNCHANGED kept
     \/ kind = "robot" /\ Mark(r, job[d].pos, "whole") /\ Fails(d) /\ Fault /\ UNCHANGED kept
  /\ UNCHANGED <<kind, robotVars, armed, begun>>

\* The next command's process: fresh handles, and the changer asked what it holds.
Restart ==
  /\ \E d \in Drives : job[d].pc # "idle" \/ armed[d] \/ bound[d].on # (In(d) # NoReel)
  /\ job' = [d \in Drives |-> Idle] /\ armed' = [d \in Drives |-> FALSE]
  /\ bound' = [d \in Drives |-> IF In(d) = NoReel THEN Unbound ELSE
                 [on |-> TRUE, code |-> In(d), from |-> home[d].from]]
  /\ LET Cut(r) == \E d \in Drives : In(d) = r /\ job[d].pc = "writing" IN
     files' = [r \in Reels |-> IF Cut(r) /\ kind = "emulated" THEN Front(files[r]) ELSE files[r]]
  /\ UNCHANGED <<kind, slot, home, begun, kept, faults>>

Next ==
  \/ \E d \in Drives : \/ \E s \in Slots : Load(d, s)
                       \/ Unload(d) \/ Forget(d) \/ BeginLabel(d) \/ BeginFile(d)
                       \/ Open(d) \/ WriteHeader(d) \/ Finish(d)
  \/ Restart

Spec == Init /\ [][Next]_vars
-----------------------------------------------------------------------------
(* Properties. *)

\* A file that was closed without an error stays at the number it was told, whole, through
\* failed and aborted writes, cartridge moves and restarts, until its own reel is relabeled.
FilesStay == \A k \in kept :
  /\ k.pos + 1 \in DOMAIN files[k.reel]
  /\ LET f == files[k.reel][k.pos + 1] IN f.id = k.id /\ f.state = "whole"

\* What follows a label was written after it: a relabel leaves nothing of what was there.
LabelStartsOver == \A r \in Reels : Label(r) = "ours" =>
  \A n \in 2..Count(r) : files[r][n].id > files[r][1].id /\ ~files[r][n].label

\* A drive that reports a cartridge holds it, and holds the one it reports; a cartridge is
\* in one place.
BindingIsTrue ==
  /\ \A d \in Drives : bound[d].on => In(d) # NoReel /\ bound[d].code \in {0, In(d)}
  /\ \A d, e \in Drives : d # e => In(d) = NoReel \/ In(d) # In(e)
  /\ \A r \in Reels : (slot[r] = 0) <=> (\E d \in Drives : In(d) = r)

\* The drives (tape.go, mtx.go): a closed file stays where it was told to be, a relabel starts
\* the reel over, and a drive reports the reel it holds.
ReelsAreKept == FilesStay /\ LabelStartsOver /\ BindingIsTrue
=============================================================================
