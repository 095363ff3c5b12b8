--------------------------- MODULE TapeDriveProofs ---------------------------
(***************************************************************************)
(* For any reels, slots, drives, writes and faults, and for both kinds of  *)
(* library: a drive reports the reel it holds, a file that was closed      *)
(* without an error stays where it was told to be, and a relabel starts    *)
(* the reel over.                                                          *)
(*                                                                         *)
(* The changer keeps every reel in one place (Places).  A drive at work    *)
(* keeps its reel, and writes past everything kept on it, or at the        *)
(* beginning of a reel of which nothing is kept: an armed drive is one     *)
(* that has just begun a label, or that failed to and takes nothing but    *)
(* another label (Work).                                                   *)
(***************************************************************************)
EXTENDS TapeDrive, WellFoundedInduction, TLAPS

-----------------------------------------------------------------------------
\* The inductive invariant.

File == [id : Nat, label : BOOLEAN, state : {"header", "torn", "whole", "gone"}]
Steps == {"idle", "reset", "opened", "writing", "spoiled", "dead"}

ChangerTypes ==
  /\ slot \in [Reels -> Slots \cup {0}]
  /\ home \in [Drives -> [reel : Reels \cup {0}, from : Slots \cup {0}]]
  /\ bound \in [Drives -> [on : BOOLEAN, code : Reels \cup {0}, from : Slots \cup {0}]]

DriveTypes ==
  /\ files \in [Reels -> Seq(File)]
  /\ armed \in [Drives -> BOOLEAN]
  /\ job \in [Drives -> [pc : Steps, pos : Nat, id : Nat, label : BOOLEAN]]
  /\ begun \in Nat /\ kept \subseteq [reel : Reels, pos : Nat, id : Nat]

\* The changer's reels: no two in a slot, and those of the emulation in slots of their own.
Places ==
  /\ \A d \in Drives : In(d) = NoReel => home[d] = Empty
  /\ \A r, q \in Reels : slot[r] = slot[q] /\ slot[r] # 0 => r = q
  /\ kind = "emulated" => /\ \A d \in Drives : home[d].from = In(d)
                          /\ \A r \in Reels : slot[r] \in {0, r}

\* A reel: its files were begun, those kept are whole, those behind a label came after it.
Sound(r) ==
  /\ \A n \in 1 .. Count(r) : files[r][n].id <= begun
  /\ \A k \in kept : k.reel = r =>
       /\ k.pos + 1 \in 1 .. Count(r)
       /\ files[r][k.pos + 1].id = k.id /\ files[r][k.pos + 1].state = "whole"
  /\ Label(r) = "ours" =>
       \A n \in 2 .. Count(r) : files[r][n].id > files[r][1].id /\ ~files[r][n].label

\* Nothing is kept on reel r at position p or past it.
FreeFrom(r, p) == \A k \in kept : k.reel = r => k.pos < p

\* A drive at work: it holds a reel, the file is newer than those on it, and it goes past what
\* is kept; a label goes to the beginning and any other file past the first.
Work(d) ==
  /\ armed[d] => (job[d].pc = "reset" /\ job[d].label) \/ job[d].pc = "spoiled"
  /\ job[d].pc \in {"reset", "opened", "writing"} => In(d) # NoReel /\ job[d].id <= begun
  /\ job[d].pc \in {"reset", "opened"} =>
       \A n \in 1 .. Count(In(d)) : files[In(d)][n].id < job[d].id
  /\ job[d].pc = "reset" =>
       IF job[d].label THEN FreeFrom(In(d), 0) /\ (armed[d] \/ Count(In(d)) = 0)
                       ELSE Count(In(d)) > 0
  /\ job[d].pc = "opened" => job[d].pos <= Count(In(d))
  /\ job[d].pc \in {"opened", "writing"} =>
       FreeFrom(In(d), job[d].pos) /\ (job[d].label <=> job[d].pos = 0)
  /\ job[d].pc = "writing" =>
       Count(In(d)) = job[d].pos + 1 /\ files[In(d)][job[d].pos + 1].id = job[d].id

IInv ==
  /\ ChangerTypes /\ DriveTypes /\ Places /\ BindingIsTrue
  /\ \A r \in Reels : Sound(r)
  /\ \A d \in Drives : Work(d)

-----------------------------------------------------------------------------
\* Sequences of files, and least elements.

\* A set of numbers that is not empty has a smallest.
LEMMA SmallestSlot ==
  ASSUME NEW S \in SUBSET Nat, S # {}
  PROVE  Min(S) \in S
<1> DEFINE Below == OpToRel(<, Nat)
<1>1. PICK x \in S : \A y \in S : <<y, x>> \notin Below
  <2>1. IsWellFoundedOn(Below, Nat)
    BY NatLessThanWellFounded
  <2>. QED BY <2>1, WFMin
<1>2. ASSUME NEW y \in S PROVE x <= y
  <2>1. <<y, x>> \in Nat \X Nat /\ <<y, x>>[1] = y /\ <<y, x>>[2] = x /\ x \in Nat /\ y \in Nat
    OBVIOUS
  <2>2. ~(y < x)
    BY <1>1, <2>1 DEF OpToRel
  <2>. QED BY <2>1, <2>2
<1>. QED BY <1>2 DEF Min

\* A file written at a position: what was before it stays, what followed is gone.
LEMMA WriteFacts ==
  ASSUME NEW s \in Seq(File), NEW p \in Nat, p <= Len(s), NEW f \in File
  PROVE  LET t == Append(SubSeq(s, 1, p), f) IN
         /\ t \in Seq(File) /\ Len(t) = p + 1 /\ t[p + 1] = f
         /\ \A n \in 1 .. p : t[n] = s[n]
<1> DEFINE u == SubSeq(s, 1, p)
<1>1. u \in Seq(File) /\ Len(u) = p /\ \A n \in 1 .. p : u[n] = s[n]
  OBVIOUS
<1> HIDE DEF u
<1>2. Append(u, f) \in Seq(File) /\ Len(Append(u, f)) = p + 1 /\ Append(u, f)[p + 1] = f
  BY <1>1
<1>3. \A n \in 1 .. p : Append(u, f)[n] = s[n]
  BY <1>1
<1>. QED BY <1>2, <1>3 DEF u

\* A sequence without its last file.
LEMMA FrontFacts ==
  ASSUME NEW s \in Seq(File), Len(s) > 0
  PROVE  /\ Front(s) \in Seq(File) /\ Len(Front(s)) = Len(s) - 1
         /\ \A n \in 1 .. Len(s) - 1 : Front(s)[n] = s[n]
<1>1. PICK p \in Nat : p = Len(s) - 1
  OBVIOUS
<1>2. Front(s) = SubSeq(s, 1, p)
  BY <1>1 DEF Front
<1>3. SubSeq(s, 1, p) \in Seq(File) /\ Len(SubSeq(s, 1, p)) = p
  BY <1>1
<1>4. \A n \in 1 .. p : SubSeq(s, 1, p)[n] = s[n]
  BY <1>1
<1>. QED BY <1>1, <1>2, <1>3, <1>4

\* A file found whole: the rest of it and the other files stay.
LEMMA MarkFacts ==
  ASSUME NEW s \in Seq(File), NEW n \in 1 .. Len(s)
  PROVE  LET t == [s EXCEPT ![n].state = "whole"] IN
         /\ t \in Seq(File) /\ Len(t) = Len(s)
         /\ t[n].id = s[n].id /\ t[n].label = s[n].label /\ t[n].state = "whole"
         /\ \A m \in 1 .. Len(s) : m # n => t[m] = s[m]
<1> DEFINE f == [s[n] EXCEPT !.state = "whole"]
<1>1. s[n] \in File
  OBVIOUS
<1>2. f \in File /\ f.id = s[n].id /\ f.label = s[n].label /\ f.state = "whole"
  BY <1>1 DEF File
<1> HIDE DEF f
<1>3. [s EXCEPT ![n] = f] \in Seq(File) /\ Len([s EXCEPT ![n] = f]) = Len(s)
  BY <1>2
<1>4. [s EXCEPT ![n] = f][n] = f /\ \A m \in 1 .. Len(s) : m # n => [s EXCEPT ![n] = f][m] = s[m]
  OBVIOUS
<1>. QED BY <1>2, <1>3, <1>4 DEF f

\* Files marked as gone keep their numbers.
LEMMA GoneFacts ==
  ASSUME NEW s \in Seq(File), NEW n \in Nat
  PROVE  LET t == [k \in DOMAIN s |-> IF k <= n THEN Gone(s[k]) ELSE s[k]] IN
         /\ t \in Seq(File) /\ Len(t) = Len(s)
         /\ \A m \in 1 .. Len(s) : /\ t[m].id = s[m].id /\ t[m].label = s[m].label
                                   /\ t[m].state \in {s[m].state, "gone"}
<1>1. \A f \in File : /\ Gone(f) \in File /\ Gone(f).id = f.id /\ Gone(f).label = f.label
                      /\ Gone(f).state = "gone"
  BY DEF File, Gone
<1> DEFINE t == [k \in DOMAIN s |-> IF k <= n THEN Gone(s[k]) ELSE s[k]]
<1>2. DOMAIN s = 1 .. Len(s) /\ \A m \in 1 .. Len(s) : s[m] \in File
  OBVIOUS
<1>3. \A m \in 1 .. Len(s) : t[m] \in {s[m], Gone(s[m])}
  BY <1>2
<1>4. t \in [1 .. Len(s) -> File]
  BY <1>1, <1>2
<1>5. t \in Seq(File) /\ Len(t) = Len(s)
  BY <1>4
<1>. QED BY <1>1, <1>2, <1>3, <1>5

-----------------------------------------------------------------------------
\* The changer.

\* Where the reels are once drive d is empty: the others' in their drives, the rest in slots.
Away(where, d) ==
  /\ where \in [Reels -> Slots \cup {0}]
  /\ \A r, q \in Reels : where[r] = where[q] /\ where[r] # 0 => r = q
  /\ \A r \in Reels : where[r] = 0 <=> \E e \in Drives \ {d} : In(e) = r
  /\ \A r \in Reels : where[r] \in {slot[r], 0} \/ r = In(d)
  /\ kind = "emulated" => \A r \in Reels : where[r] \in {0, r}

\* An empty drive is empty already; a reel that goes to a slot nobody is in makes it so.
LEMMA SentAway ==
  ASSUME TapeDriveAssumption, IInv, NEW d \in Drives, NEW s \in Slots,
         In(d) # NoReel => \A r \in Reels : slot[r] # s,
         kind = "emulated" /\ In(d) # NoReel => s = In(d)
  PROVE  Away(Returned(d, s), d)
<1> USE DEF IInv, ChangerTypes, Places, BindingIsTrue, TapeDriveAssumption, In, NoReel
<1>1. In(d) \in Reels \cup {0} /\ 0 \notin Reels /\ 0 \notin Slots
  OBVIOUS
<1>2. CASE In(d) = NoReel
  <2>1. Returned(d, s) = slot
    BY <1>2 DEF Returned
  <2>2. \A r \in Reels : slot[r] = 0 <=> \E e \in Drives \ {d} : In(e) = r
    BY <1>1, <1>2
  <2>. QED BY <2>1, <2>2 DEF Away
<1>3. CASE In(d) # NoReel
  <2> DEFINE w == [slot EXCEPT ![In(d)] = s]
  <2>1. Returned(d, s) = w /\ In(d) \in Reels /\ s # 0
    BY <1>1, <1>3 DEF Returned
  <2>2. w \in [Reels -> Slots \cup {0}] /\ w[In(d)] = s
        /\ \A r \in Reels : r # In(d) => w[r] = slot[r]
    BY <2>1
  <2>3. \A r \in Reels : w[r] = 0 <=> \E e \in Drives \ {d} : In(e) = r
    BY <2>1, <2>2
  <2>4. \A r, q \in Reels : w[r] = w[q] /\ w[r] # 0 => r = q
    BY <1>3, <2>1, <2>2
  <2>5. kind = "emulated" => \A r \in Reels : w[r] \in {0, r}
    BY <1>3, <2>1, <2>2
  <2>6. \A r \in Reels : w[r] \in {slot[r], 0} \/ r = In(d)
    BY <2>2
  <2> HIDE DEF w
  <2>. QED BY <2>1, <2>2, <2>3, <2>4, <2>5, <2>6 DEF Away
<1>. QED BY <1>2, <1>3

\* What the changer's moves keep.
Changer == ChangerTypes /\ Places /\ BindingIsTrue

\* A reel that is in a slot is loaded into the emptied drive.
LEMMA MountKeeps ==
  ASSUME TapeDriveAssumption, IInv, NEW d \in Drives, NEW where, Away(where, d),
         NEW r \in Reels, NEW s \in Slots, NEW c \in {0, r}, where[r] = s,
         Mount(d, r, s), Bind(d, c, s), slot' = [where EXCEPT ![r] = 0], kind' = kind
  PROVE  Changer'
<1>0. \A e, f \in Drives : e # f => home[e].reel = 0 \/ home[e].reel # home[f].reel
  BY DEF IInv, BindingIsTrue, In, NoReel
<1> USE DEF IInv, ChangerTypes, Places, BindingIsTrue, TapeDriveAssumption, In, NoReel
<1>1. 0 \notin Reels /\ 0 \notin Slots
  OBVIOUS
<1>2. home'[d] = [reel |-> r, from |-> s] /\ \A e \in Drives : e # d => home'[e] = home[e]
  BY DEF Mount
<1>3. bound'[d] = [on |-> TRUE, code |-> c, from |-> s]
      /\ \A e \in Drives : e # d => bound'[e] = bound[e]
  BY DEF Bind
<1>4. slot'[r] = 0 /\ \A q \in Reels : q # r => slot'[q] = where[q]
  BY DEF Away
<1>5. ChangerTypes'
  BY <1>1 DEF Mount, Bind, Away
<1>6. Places'
  <2>1. \A e \in Drives : home'[e].reel = 0 => home'[e] = Empty
    BY <1>1, <1>2
  <2>2. \A p, q \in Reels : slot'[p] = slot'[q] /\ slot'[p] # 0 => p = q
    BY <1>4 DEF Away
  <2>3. kind = "emulated" => s = r
    BY <1>1 DEF Away
  <2>4. kind = "emulated" => \A e \in Drives : home'[e].from = home'[e].reel
    BY <1>2, <2>3
  <2>5. kind = "emulated" => \A q \in Reels : slot'[q] \in {0, q}
    BY <1>4 DEF Away
  <2>. QED BY <2>1, <2>2, <2>4, <2>5
<1>7. BindingIsTrue'
  <2>1. \A e \in Drives : e # d => home[e].reel # r
    BY <1>1 DEF Away
  <2>0. home'[d].reel = r /\ \A e \in Drives : e # d => home'[e].reel = home[e].reel
    BY <1>2
  <2>2. \A e \in Drives : bound'[e].on => home'[e].reel # 0 /\ bound'[e].code \in {0, home'[e].reel}
    BY <1>1, <1>2, <1>3
  <2>3. ASSUME NEW e \in Drives, NEW f \in Drives, e # f
        PROVE  home'[e].reel = 0 \/ home'[e].reel # home'[f].reel
    <3>1. CASE e = d
      BY <2>0, <2>1, <2>3, <3>1
    <3>2. CASE f = d
      BY <2>0, <2>1, <2>3, <3>2
    <3>3. CASE e # d /\ f # d
      BY <1>0, <2>0, <2>3, <3>3
    <3>. QED BY <3>1, <3>2, <3>3
  <2>4. ASSUME NEW q \in Reels PROVE slot'[q] = 0 <=> \E e \in Drives : home'[e].reel = q
    <3>1. CASE q = r
      BY <1>4, <2>0, <3>1
    <3>2. CASE q # r
      <4>1. slot'[q] = 0 <=> \E e \in Drives \ {d} : home[e].reel = q
        BY <1>4, <3>2 DEF Away
      <4>. QED BY <2>0, <3>2, <4>1
    <3>. QED BY <3>1, <3>2
  <2>. QED BY <2>2, <2>3, <2>4
<1>. QED BY <1>5, <1>6, <1>7 DEF Changer

\* The drive is left empty and unbound.
LEMMA EmptyKeeps ==
  ASSUME TapeDriveAssumption, IInv, NEW d \in Drives, NEW where, Away(where, d),
         home' = [home EXCEPT ![d] = Empty], Unbind(d), slot' = where, kind' = kind
  PROVE  Changer'
<1> USE DEF IInv, ChangerTypes, Places, BindingIsTrue, TapeDriveAssumption, In, NoReel
<1>1. 0 \notin Reels /\ 0 \notin Slots
  OBVIOUS
<1>2. home'[d] = Empty /\ \A e \in Drives : e # d => home'[e] = home[e]
  OBVIOUS
<1>3. bound'[d] = Unbound /\ \A e \in Drives : e # d => bound'[e] = bound[e]
  BY DEF Unbind
<1>4. ChangerTypes'
  BY DEF Unbind, Unbound, Empty, Away
<1>5. Places'
  BY <1>2 DEF Empty, Away
<1>6. BindingIsTrue'
  <2>1. \A e \in Drives : bound'[e].on => home'[e].reel # 0 /\ bound'[e].code \in {0, home'[e].reel}
    BY <1>2, <1>3 DEF Unbound
  <2>2. \A e, f \in Drives : e # f => home'[e].reel = 0 \/ home'[e].reel # home'[f].reel
    BY <1>2 DEF Empty
  <2>3. \A q \in Reels : slot'[q] = 0 <=> \E e \in Drives : home'[e].reel = q
    BY <1>1, <1>2 DEF Empty, Away
  <2>. QED BY <2>1, <2>2, <2>3
<1>. QED BY <1>4, <1>5, <1>6 DEF Changer

\* A drive is unbound and nothing moves.
LEMMA UnbindKeeps ==
  ASSUME TapeDriveAssumption, IInv, NEW d \in Drives, Unbind(d), UNCHANGED <<slot, home, kind>>
  PROVE  Changer'
<1> USE DEF IInv, ChangerTypes, Places, BindingIsTrue, In, NoReel
<1>1. bound'[d] = Unbound /\ \A e \in Drives : e # d => bound'[e] = bound[e]
  BY DEF Unbind
<1>2. ChangerTypes'
  BY DEF Unbind, Unbound
<1>3. Places' /\ BindingIsTrue'
  BY <1>1 DEF Unbound
<1>. QED BY <1>2, <1>3 DEF Changer

\* Slots the changer offers.
LEMMA OfferedSlots ==
  ASSUME TapeDriveAssumption, IInv, NEW d \in Drives, Target(d) # {}
  PROVE  /\ Min(Target(d)) \in Slots
         /\ \A r \in Reels : slot[r] # Min(Target(d))
<1>1. EmptySlots \subseteq Slots /\ \A s \in EmptySlots : \A r \in Reels : slot[r] # s
  BY DEF EmptySlots, InSlot
<1>2. EmptySlots \subseteq Nat
  BY <1>1 DEF TapeDriveAssumption
<1>3. EmptySlots # {} => Min(EmptySlots) \in EmptySlots
  BY <1>2, SmallestSlot
<1>4. Target(d) \subseteq EmptySlots
  BY <1>3 DEF Target
<1>5. Min(Target(d)) \in Target(d)
  BY <1>2, <1>4, SmallestSlot
<1>. QED BY <1>1, <1>4, <1>5

\* A robot's load: whatever it does, and wherever it fails.
LEMMA RobotLoadKeeps ==
  ASSUME TapeDriveAssumption, IInv, NEW d \in Drives, NEW s \in Slots, RobotLoad(d, s),
         kind' = kind
  PROVE  Changer'
<1> DEFINE was == InSlot(s)
           code == IF was = {} THEN 0 ELSE CHOOSE r \in was : TRUE
           where == IF In(d) = NoReel THEN slot ELSE Returned(d, Min(Target(d)))
<1>1. CASE In(d) # NoReel /\ home[d].from = s /\ Bind(d, In(d), s) /\ UNCHANGED <<slot, home>>
  <2> USE DEF IInv, ChangerTypes, Places, BindingIsTrue, In, NoReel
  <2>1. bound'[d] = [on |-> TRUE, code |-> In(d), from |-> s]
        /\ \A e \in Drives : e # d => bound'[e] = bound[e]
    BY <1>1 DEF Bind
  <2>2. ChangerTypes'
    BY <1>1 DEF Bind
  <2>3. Places'
    BY <1>1
  <2>4. \A e \in Drives : bound'[e].on => home'[e].reel # 0 /\ bound'[e].code \in {0, home'[e].reel}
    BY <1>1, <2>1
  <2>5. BindingIsTrue'
    BY <1>1, <2>4
  <2>. QED BY <2>2, <2>3, <2>5 DEF Changer
<1>2. CASE Unbind(d) /\ UNCHANGED <<slot, home>>
  BY <1>2, UnbindKeeps
<1>3. ASSUME In(d) = NoReel \/ (home[d].from # s /\ Target(d) # {})
      PROVE  Away(where, d)
  <2>1. CASE In(d) = NoReel
    <3>1. Returned(d, s) = slot
      BY <2>1 DEF Returned
    <3>. QED BY <2>1, <3>1, SentAway
  <2>2. CASE In(d) # NoReel
    BY <1>3, <2>2, OfferedSlots, SentAway DEF RobotLoad
  <2>. QED BY <2>1, <2>2
<1>4. ASSUME In(d) = NoReel \/ (home[d].from # s /\ Target(d) # {}),
             NEW r \in At(where, s), Mount(d, r, s), slot' = [where EXCEPT ![r] = 0],
             Bind(d, code, s)
      PROVE  Changer'
  <2>1. Away(where, d) /\ r \in Reels /\ where[r] = s
    BY <1>3, <1>4 DEF At
  <2>2. code \in {0, r}
    <3>1. ASSUME NEW q \in was PROVE q = r
      <4>1. q \in Reels /\ slot[q] = s /\ s # 0
        BY <3>1 DEF InSlot, TapeDriveAssumption
      <4>2. q # In(d)
        BY <4>1 DEF IInv, BindingIsTrue, In
      <4>3. where[q] # 0
        <5>1. \A e \in Drives : In(e) # q
          BY <4>1 DEF IInv, BindingIsTrue
        <5>. QED BY <2>1, <4>1, <5>1 DEF Away
      <4>4. where[q] = s
        BY <2>1, <4>1, <4>2, <4>3 DEF Away
      <4>. QED BY <2>1, <4>1, <4>4 DEF Away
    <3>. QED BY <3>1
  <2> HIDE DEF where, code
  <2>. QED BY <1>4, <2>1, <2>2, MountKeeps
<1>5. ASSUME In(d) = NoReel \/ (home[d].from # s /\ Target(d) # {}),
             home' = [home EXCEPT ![d] = Empty], slot' = where, Unbind(d)
      PROVE  Changer'
  <2>1. Away(where, d)
    BY <1>3, <1>5
  <2> HIDE DEF where
  <2>. QED BY <1>5, <2>1, EmptyKeeps
<1>. QED BY <1>1, <1>2, <1>4, <1>5 DEF RobotLoad

\* The emulation points a drive at another slot.
LEMMA EmulatedLoadKeeps ==
  ASSUME TapeDriveAssumption, IInv, NEW d \in Drives, NEW s \in Slots, EmulatedLoad(d, s),
         kind' = kind
  PROVE  Changer'
<1> DEFINE where == Returned(d, home[d].from)
<1>1. CASE Unbind(d) /\ UNCHANGED <<slot, home>>
  BY <1>1, UnbindKeeps
<1>2. CASE /\ \A e \in Drives \ {d} : home[e].from # s
           /\ Mount(d, s, s) /\ slot' = [Returned(d, home[d].from) EXCEPT ![s] = 0]
           /\ Bind(d, s, s)
  <2>1. s \in Reels /\ kind = "emulated"
    BY DEF EmulatedLoad
  <2>2. Away(where, d)
    <3>1. CASE In(d) = NoReel
      <4>1. Returned(d, s) = slot /\ where = slot
        BY <3>1 DEF Returned
      <4>. QED BY <3>1, <4>1, SentAway
    <3>2. CASE In(d) # NoReel
      <4>1. home[d].from = In(d) /\ In(d) \in Reels /\ In(d) \in Slots
        BY <2>1, <3>2 DEF IInv, Places, ChangerTypes, In, NoReel, TapeDriveAssumption
      <4>2. \A r \in Reels : slot[r] # In(d)
        BY <2>1, <3>2, <4>1 DEF IInv, Places, BindingIsTrue, TapeDriveAssumption
      <4>. QED BY <4>1, <4>2, SentAway
    <3>. QED BY <3>1, <3>2
  <2>3. \A e \in Drives \ {d} : In(e) # s
    BY <1>2, <2>1 DEF IInv, Places
  <2>4. where[s] = s
    BY <2>1, <2>2, <2>3 DEF Away
  <2> HIDE DEF where
  <2>5. slot' = [where EXCEPT ![s] = 0]
    BY <1>2 DEF where
  <2>. QED BY <1>2, <2>1, <2>2, <2>4, <2>5, MountKeeps
<1>. QED BY <1>1, <1>2 DEF EmulatedLoad

\* An unload, and a changer that forgets.
LEMMA UnloadKeeps ==
  ASSUME TapeDriveAssumption, IInv, NEW d \in Drives, Unload(d)
  PROVE  Changer'
<1>0. kind' = kind
  BY DEF Unload, driveVars
<1>1. CASE /\ kind = "robot" /\ Target(d) # {} /\ slot' = Returned(d, Min(Target(d)))
           /\ home' = [home EXCEPT ![d] = Empty] /\ Unbind(d)
  <2>1. Away(Returned(d, Min(Target(d))), d)
    BY <1>1, OfferedSlots, SentAway
  <2>. QED BY <1>0, <1>1, <2>1, EmptyKeeps
<1>2. CASE Unbind(d) /\ UNCHANGED <<slot, home>>
  BY <1>0, <1>2, UnbindKeeps
<1>3. CASE /\ kind = "emulated" /\ In(d) # NoReel /\ slot' = Returned(d, home[d].from)
           /\ home' = [home EXCEPT ![d] = Empty] /\ Unbind(d)
  <2>1. home[d].from = In(d) /\ In(d) \in Reels /\ In(d) \in Slots
    BY <1>3 DEF IInv, Places, ChangerTypes, In, NoReel, TapeDriveAssumption
  <2>2. \A r \in Reels : slot[r] # In(d)
    BY <1>3, <2>1 DEF IInv, Places, BindingIsTrue, TapeDriveAssumption
  <2>3. Away(Returned(d, home[d].from), d)
    BY <2>1, <2>2, SentAway
  <2>. QED BY <1>0, <1>3, <2>3, EmptyKeeps
<1>. QED BY <1>1, <1>2, <1>3 DEF Unload

LEMMA ForgetKeeps ==
  ASSUME TapeDriveAssumption, IInv, NEW d \in Drives, Forget(d)
  PROVE  Changer'
<1> USE DEF IInv, ChangerTypes, Places, BindingIsTrue, In, NoReel, TapeDriveAssumption
<1>1. /\ kind = "robot" /\ kind' = kind /\ slot' = slot /\ bound' = bound
      /\ home[d].reel # 0 /\ home' = [home EXCEPT ![d].from = 0]
  BY DEF Forget, driveVars
<1>2. ChangerTypes'
  BY <1>1
<1>3. \A e \in Drives : home'[e].reel = home[e].reel
  BY <1>1
<1>4. \A e \in Drives : e # d => home'[e] = home[e]
  BY <1>1
<1>5. Places'
  BY <1>1, <1>3, <1>4
<1>6. BindingIsTrue'
  BY <1>1, <1>3
<1>. QED BY <1>2, <1>5, <1>6 DEF Changer

-----------------------------------------------------------------------------
\* The drives.

Busy == {"reset", "opened", "writing"}

\* A step of drive d leaves the other drives and their reels as they are.
OnlyAt(d) ==
  /\ UNCHANGED <<kind, robotVars>> /\ begun' \in Nat /\ begun' >= begun
  /\ \A e \in Drives : e # d => job'[e] = job[e] /\ armed'[e] = armed[e]
  /\ \A q \in Reels : q # In(d) => files'[q] = files[q]
  /\ \A k \in kept' : k.reel # In(d) => k \in kept

\* The changer is not involved.
LEMMA ChangerIdle ==
  ASSUME IInv, UNCHANGED <<kind, robotVars>>
  PROVE  Changer'
<1>1. kind' = kind /\ slot' = slot /\ home' = home /\ bound' = bound
  BY DEF robotVars
<1>2. ChangerTypes'
  BY <1>1 DEF IInv, ChangerTypes
<1>3. Places'
  BY <1>1 DEF IInv, Places, In
<1>4. BindingIsTrue'
  BY <1>1 DEF IInv, BindingIsTrue, In
<1>. QED BY <1>2, <1>3, <1>4 DEF Changer

\* What drive d does not touch stays as it should be.
LEMMA Elsewhere ==
  ASSUME TapeDriveAssumption, IInv, NEW d \in Drives, OnlyAt(d)
  PROVE  /\ \A q \in Reels : q # In(d) => Sound(q)'
         /\ \A e \in Drives : e # d => Work(e)'
<1>1. home' = home /\ begun' >= begun /\ begun \in Nat /\ begun' \in Nat
  BY DEF OnlyAt, robotVars, IInv, DriveTypes
<1>2. ASSUME NEW q \in Reels, q # In(d) PROVE Sound(q)'
  <2>1. files'[q] = files[q] /\ Sound(q) /\ files[q] \in Seq(File)
    BY <1>2 DEF OnlyAt, IInv, DriveTypes
  <2>2. Count(q)' = Count(q) /\ Label(q)' = Label(q) /\ Count(q) \in Nat
    BY <2>1 DEF Count, Label
  <2>3. ASSUME NEW n \in 1 .. Count(q) PROVE files[q][n].id \in Nat
    <3>1. files[q][n] \in File
      BY <2>1 DEF Count
    <3>. QED BY <3>1 DEF File
  <2>4. \A n \in 1 .. Count(q) : files'[q][n].id <= begun'
    BY <1>1, <2>1, <2>3 DEF Sound
  <2>5. \A k \in kept' : k.reel = q => k \in kept
    BY <1>2 DEF OnlyAt
  <2>. QED BY <2>1, <2>2, <2>4, <2>5 DEF Sound
<1>3. ASSUME NEW e \in Drives, e # d PROVE Work(e)'
  <2>1. job'[e] = job[e] /\ armed'[e] = armed[e] /\ In(e)' = In(e) /\ Work(e)
    BY <1>1, <1>3 DEF OnlyAt, IInv, In
  <2>2. CASE job[e].pc \in Busy
    <3>1. In(e) # NoReel /\ In(e) \in Reels /\ In(e) # In(d)
      BY <1>3, <2>1, <2>2 DEF Work, Busy, IInv, ChangerTypes, BindingIsTrue, In, NoReel
    <3>2. files'[In(e)] = files[In(e)] /\ Count(In(e))' = Count(In(e))
      BY <2>1, <3>1 DEF OnlyAt, Count
    <3>3. \A k \in kept' : k.reel = In(e) => k \in kept
      BY <3>1 DEF OnlyAt
    <3>4. job[e].id <= begun'
      <4>1. job[e].id \in Nat /\ job[e].id <= begun
        BY <2>1, <2>2 DEF Work, Busy, IInv, DriveTypes
      <4>. QED BY <1>1, <4>1
    <3>5. FreeFrom(In(e), 0) => FreeFrom(In(e), 0)'
      BY <2>1, <3>3 DEF FreeFrom
    <3>6. FreeFrom(In(e), job[e].pos) => FreeFrom(In(e), job[e].pos)'
      BY <2>1, <3>3 DEF FreeFrom
    <3>. QED BY <2>1, <3>1, <3>2, <3>4, <3>5, <3>6 DEF Work
  <2>3. CASE job[e].pc \notin Busy
    BY <2>1, <2>3 DEF Work, Busy
  <2>. QED BY <2>2, <2>3
<1>. QED BY <1>2, <1>3

\* So a step of a drive has its types, its own reel and itself to answer for.
LEMMA DriveKeeps ==
  ASSUME TapeDriveAssumption, IInv, NEW d \in Drives, OnlyAt(d), DriveTypes', Sound(In(d))',
         Work(d)'
  PROVE  IInv'
<1>1. home' = home
  BY DEF OnlyAt, robotVars
<1>2. Changer'
  BY ChangerIdle DEF OnlyAt
<1>3. \A q \in Reels : Sound(q)'
  <2> SUFFICES ASSUME NEW q \in Reels PROVE Sound(q)'
    OBVIOUS
  <2>1. CASE q # In(d)
    BY <2>1, Elsewhere
  <2>2. CASE q = In(d)
    <3>1. In(d)' = q
      BY <1>1, <2>2 DEF In
    <3>. QED BY <3>1 DEF Sound, Count, Label
  <2>. QED BY <2>1, <2>2
<1>4. \A e \in Drives : Work(e)'
  BY Elsewhere
<1>. QED BY <1>2, <1>3, <1>4 DEF IInv, Changer

\* A drive at rest may be sent reels: nothing of the work changes.
LEMMA MoveKeeps ==
  ASSUME TapeDriveAssumption, IInv, NEW d \in Drives, AtRest(d) \/ In(d)' = In(d),
         \A e \in Drives : e # d => home'[e] = home[e],
         UNCHANGED driveVars, Changer'
  PROVE  IInv'
<1>1. /\ files' = files /\ armed' = armed /\ job' = job /\ begun' = begun /\ kept' = kept
  BY DEF driveVars
<1>2. DriveTypes'
  BY <1>1 DEF IInv, DriveTypes
<1>3. \A r \in Reels : Sound(r)'
  BY <1>1 DEF IInv, Sound, Count, Label
<1>4. ASSUME NEW e \in Drives PROVE Work(e)'
  <2>1. CASE In(e)' = In(e)
    BY <1>1, <2>1 DEF IInv, Work, FreeFrom, Count
  <2>2. CASE In(e)' # In(e)
    <3>1. e = d /\ job[e].pc \notin Busy
      BY <2>2 DEF In, AtRest, Busy
    <3>. QED BY <1>1, <3>1 DEF IInv, Work, Busy
  <2>. QED BY <2>1, <2>2
<1>. QED BY <1>2, <1>3, <1>4 DEF IInv, Changer

-----------------------------------------------------------------------------
\* One step at a time.

\* What a drive at work has in hand.
LEMMA AtWork ==
  ASSUME TapeDriveAssumption, IInv, NEW d \in Drives, In(d) # NoReel
  PROVE  /\ In(d) \in Reels /\ files[In(d)] \in Seq(File) /\ Count(In(d)) \in Nat
         /\ Sound(In(d)) /\ Work(d)
         /\ job[d] \in [pc : Steps, pos : Nat, id : Nat, label : BOOLEAN] /\ begun \in Nat
         /\ \A n \in 1 .. Count(In(d)) : files[In(d)][n] \in File /\ files[In(d)][n].id \in Nat
<1>1. In(d) \in Reels
  BY DEF IInv, ChangerTypes, In, NoReel
<1>2. files[In(d)] \in Seq(File) /\ Sound(In(d)) /\ Work(d) /\ begun \in Nat
      /\ job[d] \in [pc : Steps, pos : Nat, id : Nat, label : BOOLEAN]
  BY <1>1 DEF IInv, DriveTypes
<1>3. ASSUME NEW n \in 1 .. Count(In(d))
      PROVE  files[In(d)][n] \in File /\ files[In(d)][n].id \in Nat
  <2>1. files[In(d)][n] \in File
    BY <1>2 DEF Count
  <2>. QED BY <2>1 DEF File
<1>. QED BY <1>1, <1>2, <1>3 DEF Count

\* A label begins: nothing of the reel is kept any more.
LEMMA BeginLabelKeeps ==
  ASSUME TapeDriveAssumption, IInv, NEW d \in Drives, BeginLabel(d)
  PROVE  IInv'
<1> DEFINE r == In(d)
           next == [pc |-> "reset", pos |-> 0, id |-> begun + 1, label |-> TRUE]
<1>1. /\ In(d) # NoReel /\ begun' = begun + 1 /\ kept' = {k \in kept : k.reel # r}
      /\ UNCHANGED <<kind, robotVars>>
  BY DEF BeginLabel, Ready
<1>2. /\ r \in Reels /\ files[r] \in Seq(File) /\ Count(r) \in Nat /\ Sound(r) /\ Work(d)
      /\ begun \in Nat /\ \A n \in 1 .. Count(r) : files[r][n] \in File /\ files[r][n].id \in Nat
  BY <1>1, AtWork
<1>3. r' = r
  BY <1>1 DEF robotVars, In
<1>4. \A n \in 1 .. Count(r) : files[r][n].id <= begun
  BY <1>2 DEF Sound
<1>5. job \in [Drives -> [pc : Steps, pos : Nat, id : Nat, label : BOOLEAN]]
      /\ files \in [Reels -> Seq(File)] /\ armed \in [Drives -> BOOLEAN]
      /\ kept \subseteq [reel : Reels, pos : Nat, id : Nat]
  BY DEF IInv, DriveTypes
<1> HIDE DEF r
<1>6. CASE job' = [job EXCEPT ![d] = next] /\ Reset(d)
  <2>1. /\ job'[d] = next /\ \A e \in Drives : e # d => job'[e] = job[e] /\ armed'[e] = armed[e]
        /\ \A q \in Reels : q # r => files'[q] = files[q]
    BY <1>2, <1>5, <1>6 DEF Reset, r
  <2>2. \/ files'[r] = files[r] /\ armed'[d] = TRUE
        \/ files'[r] = <<>> /\ armed'[d] = armed[d]
    BY <1>2, <1>5, <1>6 DEF Reset, r
  <2>3. DriveTypes'
    <3>1. job' \in [Drives -> [pc : Steps, pos : Nat, id : Nat, label : BOOLEAN]]
      BY <1>2, <1>5, <1>6 DEF Steps
    <3>2. files' \in [Reels -> Seq(File)] /\ armed' \in [Drives -> BOOLEAN]
      <4>1. CASE kind = "robot"
        BY <1>5, <1>6, <4>1 DEF Reset
      <4>2. CASE kind # "robot"
        <5>1. <<>> \in Seq(File)
          OBVIOUS
        <5>. QED BY <1>2, <1>5, <1>6, <4>2, <5>1 DEF Reset, r
      <4>. QED BY <4>1, <4>2
    <3>. QED BY <1>1, <1>2, <1>5, <3>1, <3>2 DEF DriveTypes
  <2>4. OnlyAt(d)
    BY <1>1, <1>2, <2>1 DEF OnlyAt, r
  <2>5. CASE files'[r] = files[r] /\ armed'[d] = TRUE
    <3>1. Count(r)' = Count(r) /\ Label(r)' = Label(r)
      BY <1>3, <2>5 DEF Count, Label
    <3>2. Sound(r)'
      BY <1>1, <1>2, <1>3, <1>4, <2>5, <3>1 DEF Sound
    <3>3. Work(d)'
      BY <1>1, <1>2, <1>3, <1>4, <2>1, <2>5, <3>1 DEF Work, FreeFrom, r
    <3>. QED BY <2>3, <2>4, <3>2, <3>3, DriveKeeps DEF r
  <2>6. CASE files'[r] = <<>> /\ armed'[d] = armed[d]
    <3>1. Count(r)' = 0 /\ Label(r)' = "blank"
      BY <1>3, <2>6 DEF Count, Label
    <3>2. Sound(r)'
      BY <1>1, <1>3, <3>1 DEF Sound
    <3>3. Work(d)'
      BY <1>1, <1>2, <1>3, <2>1, <2>6, <3>1 DEF Work, FreeFrom, r
    <3>. QED BY <2>3, <2>4, <3>2, <3>3, DriveKeeps DEF r
  <2>. QED BY <2>2, <2>5, <2>6
<1>7. ASSUME job' = [job EXCEPT ![d] = [next EXCEPT !.pc = "spoiled"]], armed' = armed,
             NEW n \in Nat,
             files' = files \/ files' = [files EXCEPT ![r] =
                [k \in DOMAIN @ |-> IF k <= n THEN Gone(@[k]) ELSE @[k]]]
      PROVE  IInv'
  <2> DEFINE t == [k \in DOMAIN files[r] |-> IF k <= n THEN Gone(files[r][k]) ELSE files[r][k]]
  <2>1. /\ job'[d].pc = "spoiled" /\ \A e \in Drives : e # d => job'[e] = job[e]
        /\ \A q \in Reels : q # r => files'[q] = files[q]
    BY <1>5, <1>7
  <2>2. /\ t \in Seq(File) /\ Len(t) = Len(files[r])
        /\ \A m \in 1 .. Len(files[r]) :
             /\ t[m].id = files[r][m].id /\ t[m].label = files[r][m].label
             /\ t[m].state \in {files[r][m].state, "gone"}
    BY <1>2, GoneFacts
  <2>3. files' = files \/ files' = [files EXCEPT ![r] = t]
    BY <1>7
  <2> HIDE DEF t
  <2>4. /\ files'[r] \in Seq(File) /\ Len(files'[r]) = Len(files[r])
        /\ \A m \in 1 .. Len(files[r]) :
             /\ files'[r][m].id = files[r][m].id /\ files'[r][m].label = files[r][m].label
             /\ files'[r][m].state \in {files[r][m].state, "gone"}
    BY <1>2, <1>5, <2>2, <2>3
  <2>5. DriveTypes'
    <3>1. job' \in [Drives -> [pc : Steps, pos : Nat, id : Nat, label : BOOLEAN]]
      <4>1. next \in [pc : Steps, pos : Nat, id : Nat, label : BOOLEAN]
        BY <1>2 DEF Steps
      <4> HIDE DEF next
      <4>2. [next EXCEPT !.pc = "spoiled"] \in [pc : Steps, pos : Nat, id : Nat, label : BOOLEAN]
        BY <4>1 DEF Steps
      <4>. QED BY <1>5, <1>7, <4>2
    <3>2. files' \in [Reels -> Seq(File)]
      BY <1>2, <1>5, <2>2, <2>3
    <3>. QED BY <1>1, <1>2, <1>5, <1>7, <3>1, <3>2 DEF DriveTypes
  <2>6. OnlyAt(d)
    BY <1>1, <1>2, <1>7, <2>1 DEF OnlyAt, r
  <2>7. Count(r)' = Count(r)
    BY <1>3, <2>4 DEF Count
  <2>8. Label(r)' = "ours" => Label(r) = "ours"
    BY <1>2, <1>3, <2>4, <2>7 DEF Label, Count
  <2>9. Sound(r)'
    <3>1. \A m \in 1 .. Count(r) : files'[r][m].id <= begun + 1
      BY <1>2, <1>4, <2>4 DEF Count
    <3>2. Label(r)' = "ours" => \A m \in 2 .. Count(r) :
             files'[r][m].id > files'[r][1].id /\ ~files'[r][m].label
      BY <1>2, <2>4, <2>8 DEF Sound, Count
    <3>. QED BY <1>1, <1>3, <2>7, <3>1, <3>2 DEF Sound
  <2>10. Work(d)'
    BY <2>1 DEF Work
  <2>. QED BY <2>5, <2>6, <2>9, <2>10, DriveKeeps DEF r
<1>8. CASE /\ job' = [job EXCEPT ![d] = [next EXCEPT !.pc = "spoiled"]] /\ armed' = armed
           /\ IF kind = "robot" THEN UNCHANGED files
              ELSE \E n \in 0 .. Count(r) : files' = [files EXCEPT ![r] =
                     [k \in DOMAIN @ |-> IF k <= n THEN Gone(@[k]) ELSE @[k]]]
  <2>1. CASE files' = files
    BY <1>7, <1>8, <2>1
  <2>2. CASE \E n \in 0 .. Count(r) : files' = [files EXCEPT ![r] =
               [k \in DOMAIN @ |-> IF k <= n THEN Gone(@[k]) ELSE @[k]]]
    <3>1. PICK n \in 0 .. Count(r) : files' = [files EXCEPT ![r] =
               [k \in DOMAIN @ |-> IF k <= n THEN Gone(@[k]) ELSE @[k]]]
      BY <2>2
    <3>2. n \in Nat
      BY <1>2
    <3>. QED BY <1>7, <1>8, <3>1, <3>2
  <2>. QED BY <1>8, <2>1, <2>2
<1>. QED BY <1>6, <1>8 DEF BeginLabel, r

\* A file begins behind a label that was read.
LEMMA BeginFileKeeps ==
  ASSUME TapeDriveAssumption, IInv, NEW d \in Drives, BeginFile(d)
  PROVE  IInv'
<1> DEFINE next == [pc |-> "reset", pos |-> 0, id |-> begun + 1, label |-> FALSE]
<1>1. /\ In(d) # NoReel /\ job[d].pc = "idle" /\ Label(In(d)) = "ours" /\ begun' = begun + 1
      /\ job' = [job EXCEPT ![d] = next]
      /\ UNCHANGED <<kind, robotVars, files, armed, kept>>
  BY DEF BeginFile, Ready
<1>2. /\ In(d) \in Reels /\ Count(In(d)) \in Nat /\ Sound(In(d)) /\ Work(d)
      /\ begun \in Nat /\ \A n \in 1 .. Count(In(d)) : files[In(d)][n].id \in Nat
  BY <1>1, AtWork
<1>3. In(d)' = In(d) /\ Count(In(d))' = Count(In(d)) /\ Label(In(d))' = Label(In(d))
  BY <1>1 DEF robotVars, In, Count, Label
<1>4. job'[d] = next /\ \A e \in Drives : e # d => job'[e] = job[e]
  BY <1>1 DEF IInv, DriveTypes
<1>5. DriveTypes'
  BY <1>1, <1>2 DEF IInv, DriveTypes, Steps
<1>6. OnlyAt(d)
  BY <1>1, <1>2, <1>4 DEF OnlyAt
<1>7. \A n \in 1 .. Count(In(d)) : files[In(d)][n].id < begun + 1
  BY <1>2 DEF Sound
<1>8. Sound(In(d))'
  BY <1>1, <1>2, <1>3, <1>7 DEF Sound
<1>9. ~armed[d] /\ Count(In(d)) > 0
  BY <1>1, <1>2 DEF Work, Label
<1>10. Work(d)'
  BY <1>1, <1>2, <1>3, <1>4, <1>7, <1>9 DEF Work
<1>. QED BY <1>5, <1>6, <1>8, <1>10, DriveKeeps

\* A drive whose files stay as they are, and what is kept with them.
LEMMA FilesUntouched ==
  ASSUME TapeDriveAssumption, IInv, NEW d \in Drives, In(d) # NoReel,
         UNCHANGED <<kind, robotVars, files, begun, kept>>,
         \A e \in Drives : e # d => job'[e] = job[e] /\ armed'[e] = armed[e],
         job' \in [Drives -> [pc : Steps, pos : Nat, id : Nat, label : BOOLEAN]],
         armed' \in [Drives -> BOOLEAN], Work(d)'
  PROVE  IInv'
<1>1. In(d) \in Reels /\ Sound(In(d)) /\ begun \in Nat
  BY AtWork
<1>2. In(d)' = In(d) /\ Count(In(d))' = Count(In(d)) /\ Label(In(d))' = Label(In(d))
  BY DEF robotVars, In, Count, Label
<1>3. DriveTypes'
  BY DEF IInv, DriveTypes
<1>4. OnlyAt(d)
  BY <1>1 DEF OnlyAt
<1>5. Sound(In(d))'
  BY <1>1, <1>2 DEF Sound
<1>. QED BY <1>3, <1>4, <1>5, DriveKeeps

\* Where a failure leaves a drive: at work no more, whatever is on the tape.
LEMMA FailedWork ==
  ASSUME TapeDriveAssumption, IInv, NEW d \in Drives, job[d].pc \in Busy, Fails(d),
         armed' = armed
  PROVE  /\ job' \in [Drives -> [pc : Steps, pos : Nat, id : Nat, label : BOOLEAN]]
         /\ \A e \in Drives : e # d => job'[e] = job[e]
         /\ Work(d)'
<1>1. /\ job \in [Drives -> [pc : Steps, pos : Nat, id : Nat, label : BOOLEAN]]
      /\ Work(d)
  BY DEF IInv, DriveTypes
<1>2. job' = [job EXCEPT ![d].pc = IF job[d].label THEN "spoiled" ELSE "dead"]
  BY DEF Fails, Become
<1>3. job' \in [Drives -> [pc : Steps, pos : Nat, id : Nat, label : BOOLEAN]]
  BY <1>1, <1>2 DEF Steps
<1>4. job'[d].pc = (IF job[d].label THEN "spoiled" ELSE "dead")
  BY <1>1, <1>2
<1>5. armed[d] => job[d].label
  BY <1>1 DEF Work, Busy
<1>6. Work(d)'
  BY <1>4, <1>5 DEF Work
<1>. QED BY <1>1, <1>2, <1>3, <1>6

\* The drive finds its position: the beginning for a label, past the last file for a file.
LEMMA OpenKeeps ==
  ASSUME TapeDriveAssumption, IInv, NEW d \in Drives, Open(d)
  PROVE  IInv'
<1>1. job[d].pc = "reset" /\ UNCHANGED <<kind, robotVars, files, begun, kept>>
  BY DEF Open
<1>2. In(d) # NoReel /\ job[d].id <= begun
  BY <1>1 DEF IInv, Work
<1>3. /\ In(d) \in Reels /\ Count(In(d)) \in Nat /\ Sound(In(d)) /\ Work(d)
      /\ job[d] \in [pc : Steps, pos : Nat, id : Nat, label : BOOLEAN]
  BY <1>2, AtWork
<1>4. job \in [Drives -> [pc : Steps, pos : Nat, id : Nat, label : BOOLEAN]]
      /\ armed \in [Drives -> BOOLEAN] /\ kept \subseteq [reel : Reels, pos : Nat, id : Nat]
  BY DEF IInv, DriveTypes
<1>5. CASE job' = [job EXCEPT ![d].pc = "opened", ![d].pos = Position(d)] /\ Disarm(d)
  <2>1. /\ job'[d].pc = "opened" /\ job'[d].pos = Position(d) /\ job'[d].id = job[d].id
        /\ job'[d].label = job[d].label /\ ~armed'[d]
        /\ \A e \in Drives : e # d => job'[e] = job[e] /\ armed'[e] = armed[e]
    BY <1>3, <1>4, <1>5 DEF Disarm
  <2>2. Position(d) \in 0 .. Count(In(d))
    BY <1>3 DEF Position
  <2>3. /\ job' \in [Drives -> [pc : Steps, pos : Nat, id : Nat, label : BOOLEAN]]
        /\ armed' \in [Drives -> BOOLEAN]
    <3>1. Position(d) \in Nat
      BY <1>3, <2>2
    <3> DEFINE j == [[job[d] EXCEPT !.pc = "opened"] EXCEPT !.pos = Position(d)]
    <3>2. j \in [pc : Steps, pos : Nat, id : Nat, label : BOOLEAN]
      BY <1>3, <3>1 DEF Steps
    <3>3. job' = [job EXCEPT ![d] = j]
      BY <1>4, <1>5
    <3> HIDE DEF j
    <3>. QED BY <1>4, <1>5, <3>2, <3>3 DEF Disarm
  <2>4. job[d].label => Position(d) = 0 /\ FreeFrom(In(d), 0)
    BY <1>1, <1>3 DEF Work, Position
  <2>5. ~job[d].label => Position(d) = Count(In(d)) /\ Count(In(d)) > 0
    BY <1>1, <1>3 DEF Work, Position
  <2>6. FreeFrom(In(d), Count(In(d)))
    BY <1>3, <1>4 DEF Sound, FreeFrom
  <2>7. In(d)' = In(d) /\ Count(In(d))' = Count(In(d))
    BY <1>1 DEF robotVars, In, Count
  <2>8. FreeFrom(In(d), Position(d))
    BY <1>3, <2>4, <2>5, <2>6
  <2>9. Work(d)'
    BY <1>1, <1>2, <1>3, <2>1, <2>2, <2>4, <2>5, <2>7, <2>8 DEF Work, FreeFrom
  <2>. QED BY <1>1, <1>2, <2>1, <2>3, <2>9, FilesUntouched
<1>6. CASE Fails(d) /\ armed' = armed
  BY <1>1, <1>2, <1>4, <1>6, FailedWork, FilesUntouched DEF Busy
<1>. QED BY <1>5, <1>6 DEF Open

\* A header written at the drive's position, past all that is kept: whether it decodes or not.
LEMMA HeaderWritten ==
  ASSUME TapeDriveAssumption, IInv, NEW d \in Drives, job[d].pc = "opened", NEW f \in File,
         f.id = job[d].id, f.label = job[d].label, WriteAt(In(d), job[d].pos, f),
         UNCHANGED <<kind, robotVars, begun, kept>>
  PROVE  /\ files' \in [Reels -> Seq(File)] /\ Sound(In(d))'
         /\ \A q \in Reels : q # In(d) => files'[q] = files[q]
         /\ Len(files'[In(d)]) = job[d].pos + 1 /\ files'[In(d)][job[d].pos + 1].id = job[d].id
<1> DEFINE r == In(d)
           p == job[d].pos
           t == Append(SubSeq(files[r], 1, p), f)
<1>1. /\ r \in Reels /\ files[r] \in Seq(File) /\ Count(r) \in Nat /\ Sound(r) /\ Work(d)
      /\ p \in Nat /\ job[d].id \in Nat /\ job[d].id <= begun
      /\ \A n \in 1 .. Count(r) : files[r][n].id \in Nat
  <2>1. In(d) # NoReel /\ job[d].id <= begun
    BY DEF IInv, Work
  <2>. QED BY <2>1, AtWork
<1>2. /\ p <= Count(r) /\ FreeFrom(r, p) /\ (job[d].label <=> p = 0)
      /\ \A n \in 1 .. Count(r) : files[r][n].id < job[d].id
  BY <1>1 DEF Work
<1>3. /\ t \in Seq(File) /\ Len(t) = p + 1 /\ t[p + 1] = f
      /\ \A n \in 1 .. p : t[n] = files[r][n]
  BY <1>1, <1>2, WriteFacts DEF Count
<1>4. files \in [Reels -> Seq(File)] /\ files' = [files EXCEPT ![r] = t]
  BY DEF WriteAt, IInv, DriveTypes
<1> HIDE DEF t
<1>5. files' \in [Reels -> Seq(File)] /\ files'[r] = t
      /\ \A q \in Reels : q # r => files'[q] = files[q]
  BY <1>1, <1>3, <1>4
<1>6. r' = r
  BY DEF robotVars, In
<1> HIDE DEF r, p
<1>7. Sound(r)'
  <2>1. Count(r)' = p + 1
    BY <1>3, <1>5, <1>6 DEF Count
  <2>2. \A n \in 1 .. p + 1 : t[n].id <= begun
    BY <1>1, <1>2, <1>3 DEF Sound
  <2>3. ASSUME NEW k \in kept, k.reel = r
        PROVE  k.pos + 1 \in 1 .. p + 1 /\ t[k.pos + 1].id = k.id /\ t[k.pos + 1].state = "whole"
    <3>1. k.pos \in Nat /\ k.pos < p
      BY <1>2, <2>3 DEF FreeFrom, IInv, DriveTypes
    <3>2. k.pos + 1 \in 1 .. p /\ t[k.pos + 1] = files[r][k.pos + 1]
      BY <1>1, <1>3, <3>1
    <3>. QED BY <1>1, <2>3, <3>2 DEF Sound
  <2>4. ASSUME Label(r)' = "ours", NEW n \in 2 .. p + 1
        PROVE  t[n].id > t[1].id /\ ~t[n].label
    <3>1. p > 0 /\ 1 \in 1 .. p /\ t[1] = files[r][1]
      BY <1>1, <1>3, <2>4
    <3>2. Count(r) > 0 /\ t[1].label /\ t[1].state = "whole"
      BY <1>1, <1>2, <1>5, <1>6, <2>1, <2>4, <3>1 DEF Label
    <3>3. Label(r) = "ours"
      BY <3>1, <3>2 DEF Label
    <3>4. CASE n = p + 1
      BY <1>1, <1>2, <1>3, <3>1, <3>2, <3>4
    <3>5. CASE n # p + 1
      <4>1. n \in 1 .. p /\ n \in 2 .. Count(r) /\ t[n] = files[r][n]
        BY <1>1, <1>2, <1>3, <2>4, <3>5
      <4>. QED BY <1>1, <3>1, <3>3, <4>1 DEF Sound
    <3>. QED BY <3>4, <3>5
  <2>. QED BY <1>5, <1>6, <2>1, <2>2, <2>3, <2>4 DEF Sound
<1>. QED BY <1>3, <1>5, <1>7 DEF r, p

\* What a drive's step on its own reel must keep, when nothing is told to be kept or begun.
LEMMA WrittenKeeps ==
  ASSUME TapeDriveAssumption, IInv, NEW d \in Drives, In(d) # NoReel,
         UNCHANGED <<kind, robotVars, begun, kept, armed>>,
         files' \in [Reels -> Seq(File)], Sound(In(d))',
         \A q \in Reels : q # In(d) => files'[q] = files[q],
         job' \in [Drives -> [pc : Steps, pos : Nat, id : Nat, label : BOOLEAN]],
         \A e \in Drives : e # d => job'[e] = job[e],
         Work(d)'
  PROVE  IInv'
<1>1. DriveTypes'
  BY DEF IInv, DriveTypes
<1>2. OnlyAt(d)
  BY DEF OnlyAt, IInv, DriveTypes
<1>. QED BY <1>1, <1>2, DriveKeeps

\* The header of a file.
LEMMA WriteHeaderKeeps ==
  ASSUME TapeDriveAssumption, IInv, NEW d \in Drives, WriteHeader(d)
  PROVE  IInv'
<1> DEFINE f == [id |-> job[d].id, label |-> job[d].label, state |-> "header"]
<1>1. job[d].pc = "opened" /\ UNCHANGED <<kind, robotVars, armed, begun, kept>>
  BY DEF WriteHeader
<1>2. In(d) # NoReel
  BY <1>1 DEF IInv, Work
<1>3. /\ In(d) \in Reels /\ Work(d) /\ begun \in Nat
      /\ job[d] \in [pc : Steps, pos : Nat, id : Nat, label : BOOLEAN]
  BY <1>2, AtWork
<1>4. job \in [Drives -> [pc : Steps, pos : Nat, id : Nat, label : BOOLEAN]]
      /\ armed \in [Drives -> BOOLEAN]
  BY DEF IInv, DriveTypes
<1>5. f \in File /\ [f EXCEPT !.state = "torn"] \in File
      /\ [f EXCEPT !.state = "torn"].id = job[d].id
      /\ [f EXCEPT !.state = "torn"].label = job[d].label
  BY <1>3 DEF File
<1>6. f.id = job[d].id /\ f.label = job[d].label
  OBVIOUS
<1> HIDE DEF f
<1>7. CASE WriteAt(In(d), job[d].pos, f) /\ Become(d, "writing")
  <2>1. /\ files' \in [Reels -> Seq(File)] /\ Sound(In(d))'
        /\ \A q \in Reels : q # In(d) => files'[q] = files[q]
        /\ Len(files'[In(d)]) = job[d].pos + 1 /\ files'[In(d)][job[d].pos + 1].id = job[d].id
    BY <1>1, <1>5, <1>6, <1>7, HeaderWritten
  <2>2. /\ job'[d].pc = "writing" /\ job'[d].pos = job[d].pos /\ job'[d].id = job[d].id
        /\ job'[d].label = job[d].label /\ \A e \in Drives : e # d => job'[e] = job[e]
    BY <1>3, <1>4, <1>7 DEF Become
  <2>3. job' \in [Drives -> [pc : Steps, pos : Nat, id : Nat, label : BOOLEAN]]
    BY <1>4, <1>7 DEF Become, Steps
  <2>4. In(d)' = In(d)
    BY <1>1 DEF robotVars, In
  <2>5. Work(d)'
    BY <1>1, <1>2, <1>3, <2>1, <2>2, <2>4 DEF Work, FreeFrom, Count
  <2>. QED BY <1>1, <1>2, <2>1, <2>2, <2>3, <2>5, WrittenKeeps
<1>8. CASE Fails(d) /\ files' = files
  BY <1>1, <1>2, <1>4, <1>8, FailedWork, FilesUntouched DEF Busy
<1>9. CASE Fails(d) /\ WriteAt(In(d), job[d].pos, [f EXCEPT !.state = "torn"])
  <2> DEFINE g == [f EXCEPT !.state = "torn"]
  <2>1. g \in File /\ g.id = job[d].id /\ g.label = job[d].label /\ WriteAt(In(d), job[d].pos, g)
    BY <1>5, <1>9
  <2> HIDE DEF g
  <2>2. /\ files' \in [Reels -> Seq(File)] /\ Sound(In(d))'
        /\ \A q \in Reels : q # In(d) => files'[q] = files[q]
    BY <1>1, <2>1, HeaderWritten
  <2>3. /\ job' \in [Drives -> [pc : Steps, pos : Nat, id : Nat, label : BOOLEAN]]
        /\ \A e \in Drives : e # d => job'[e] = job[e]
        /\ Work(d)'
    BY <1>1, <1>9, FailedWork DEF Busy
  <2>. QED BY <1>1, <1>2, <2>2, <2>3, WrittenKeeps
<1>. QED BY <1>7, <1>8, <1>9 DEF WriteHeader, f

\* A drive that has written a header: its file is the reel's last, past all that is kept.
LEMMA Writing ==
  ASSUME TapeDriveAssumption, IInv, NEW d \in Drives, job[d].pc = "writing"
  PROVE  /\ In(d) \in Reels /\ In(d) # NoReel /\ files[In(d)] \in Seq(File)
         /\ Sound(In(d)) /\ Work(d) /\ job[d].pos \in Nat /\ job[d].id \in Nat
         /\ Len(files[In(d)]) = job[d].pos + 1
         /\ files[In(d)][job[d].pos + 1].id = job[d].id
         /\ FreeFrom(In(d), job[d].pos) /\ ~armed[d]
<1>1. In(d) # NoReel
  BY DEF IInv, Work
<1>2. /\ In(d) \in Reels /\ files[In(d)] \in Seq(File) /\ Sound(In(d)) /\ Work(d)
      /\ job[d] \in [pc : Steps, pos : Nat, id : Nat, label : BOOLEAN]
  BY <1>1, AtWork
<1>. QED BY <1>1, <1>2 DEF Work, Count

\* The filemark after it: it is whole, and is kept when its Close said so.
LEMMA FileMarked ==
  ASSUME TapeDriveAssumption, IInv, NEW d \in Drives, job[d].pc = "writing",
         Mark(In(d), job[d].pos, "whole"), UNCHANGED <<kind, robotVars, begun>>,
         kept' \subseteq kept \cup {[reel |-> In(d), pos |-> job[d].pos, id |-> job[d].id]}
  PROVE  /\ files' \in [Reels -> Seq(File)] /\ Sound(In(d))'
         /\ \A q \in Reels : q # In(d) => files'[q] = files[q]
<1> DEFINE r == In(d)
           p == job[d].pos
           t == [files[r] EXCEPT ![p + 1].state = "whole"]
<1>1. /\ r \in Reels /\ files[r] \in Seq(File) /\ Sound(r) /\ p \in Nat
      /\ Len(files[r]) = p + 1 /\ files[r][p + 1].id = job[d].id /\ FreeFrom(r, p)
  BY Writing
<1>2. /\ t \in Seq(File) /\ Len(t) = p + 1
      /\ t[p + 1].id = files[r][p + 1].id /\ t[p + 1].label = files[r][p + 1].label
      /\ t[p + 1].state = "whole" /\ \A n \in 1 .. p + 1 : n # p + 1 => t[n] = files[r][n]
  <2>1. p + 1 \in 1 .. Len(files[r])
    BY <1>1
  <2>. QED BY <1>1, <2>1, MarkFacts
<1>3. files \in [Reels -> Seq(File)] /\ files' = [files EXCEPT ![r] = t]
  BY DEF Mark, IInv, DriveTypes
<1> HIDE DEF t
<1>4. files' \in [Reels -> Seq(File)] /\ files'[r] = t
      /\ \A q \in Reels : q # r => files'[q] = files[q]
  BY <1>1, <1>2, <1>3
<1>5. r' = r
  BY DEF robotVars, In
<1>6. \A k \in kept' : k.reel = r => k \in kept \/ (k.pos = p /\ k.id = job[d].id)
  OBVIOUS
<1> HIDE DEF r, p
<1>7. Count(r)' = p + 1 /\ Count(r) = p + 1
  BY <1>1, <1>2, <1>4, <1>5 DEF Count
<1>8. \A n \in 1 .. p + 1 : t[n].id = files[r][n].id /\ t[n].label = files[r][n].label
  BY <1>2
<1>9. \A n \in 1 .. p + 1 : t[n].id <= begun
  BY <1>1, <1>7, <1>8 DEF Sound
<1>10. ASSUME NEW k \in kept', k.reel = r
       PROVE  k.pos + 1 \in 1 .. p + 1 /\ t[k.pos + 1].id = k.id /\ t[k.pos + 1].state = "whole"
  <2>1. CASE k \in kept
    <3>1. k.pos \in Nat /\ k.pos < p
      BY <1>1, <1>10, <2>1 DEF FreeFrom, IInv, DriveTypes
    <3>2. k.pos + 1 \in 1 .. p /\ t[k.pos + 1] = files[r][k.pos + 1]
      BY <1>1, <1>2, <3>1
    <3>. QED BY <1>1, <1>10, <2>1, <3>2 DEF Sound
  <2>2. CASE k.pos = p /\ k.id = job[d].id
    BY <1>1, <1>2, <2>2
  <2>. QED BY <1>6, <1>10, <2>1, <2>2
<1>11. ASSUME Label(r)' = "ours", NEW n \in 2 .. p + 1
       PROVE  t[n].id > t[1].id /\ ~t[n].label
  <2>1. p > 0 /\ 1 \in 1 .. p + 1 /\ 1 # p + 1 /\ n \in 1 .. p + 1 /\ t[1] = files[r][1]
    BY <1>1, <1>2, <1>11
  <2>2. Label(r) = "ours"
    BY <1>1, <1>4, <1>5, <1>7, <1>11, <2>1 DEF Label
  <2>. QED BY <1>1, <1>7, <1>8, <1>11, <2>1, <2>2 DEF Sound
<1>12. Sound(r)'
  BY <1>4, <1>5, <1>7, <1>9, <1>10, <1>11 DEF Sound
<1>. QED BY <1>4, <1>12 DEF r

\* Without it the emulation drops the file again.
LEMMA FileDropped ==
  ASSUME TapeDriveAssumption, IInv, NEW d \in Drives, job[d].pc = "writing",
         NEW r \in Reels, r = In(d), files'[r] = Front(files[r]), UNCHANGED <<begun, kept>>
  PROVE  Sound(r)' /\ files'[r] \in Seq(File)
<1> DEFINE p == job[d].pos
<1>1. /\ files[r] \in Seq(File) /\ Sound(r) /\ p \in Nat
      /\ Len(files[r]) = p + 1 /\ FreeFrom(r, p)
  BY Writing
<1> HIDE DEF p
<1>2. /\ files'[r] \in Seq(File) /\ Len(files'[r]) = p
      /\ \A n \in 1 .. p : files'[r][n] = files[r][n]
  <2>1. /\ Front(files[r]) \in Seq(File) /\ Len(Front(files[r])) = Len(files[r]) - 1
        /\ \A n \in 1 .. Len(files[r]) - 1 : Front(files[r])[n] = files[r][n]
    <3>1. Len(files[r]) > 0
      BY <1>1
    <3>. QED BY <1>1, <3>1, FrontFacts
  <2>2. Len(files[r]) - 1 = p
    BY <1>1
  <2>. QED BY <2>1, <2>2
<1>3. Count(r)' = p /\ Count(r) = p + 1
  BY <1>1, <1>2 DEF Count
<1>4. \A n \in 1 .. p : files'[r][n].id <= begun
  BY <1>1, <1>2, <1>3 DEF Sound
<1>5. ASSUME NEW k \in kept, k.reel = r
      PROVE  /\ k.pos + 1 \in 1 .. p
             /\ files'[r][k.pos + 1].id = k.id /\ files'[r][k.pos + 1].state = "whole"
  <2>1. k.pos \in Nat /\ k.pos < p
    BY <1>1, <1>5 DEF FreeFrom, IInv, DriveTypes
  <2>2. k.pos + 1 \in 1 .. p
    BY <1>1, <2>1
  <2>3. files'[r][k.pos + 1] = files[r][k.pos + 1]
    BY <1>2, <2>2
  <2>. QED BY <1>1, <1>5, <2>2, <2>3 DEF Sound
<1>6. ASSUME Label(r)' = "ours", NEW n \in 2 .. p
      PROVE  files'[r][n].id > files'[r][1].id /\ ~files'[r][n].label
  <2>1. 1 \in 1 .. p /\ n \in 1 .. p /\ n \in 2 .. p + 1 /\ p # 0
    BY <1>1, <1>6
  <2>2. files'[r][1] = files[r][1] /\ files'[r][n] = files[r][n]
    BY <1>2, <2>1
  <2>3. Label(r) = "ours"
    BY <1>1, <1>3, <1>6, <2>1, <2>2 DEF Label
  <2>. QED BY <1>1, <1>3, <2>1, <2>2, <2>3 DEF Sound
<1>7. Sound(r)'
  BY <1>3, <1>4, <1>5, <1>6 DEF Sound
<1>. QED BY <1>2, <1>7

\* The end of a file.
LEMMA FinishKeeps ==
  ASSUME TapeDriveAssumption, IInv, NEW d \in Drives, Finish(d)
  PROVE  IInv'
<1> DEFINE r == In(d)
           k0 == [reel |-> r, pos |-> job[d].pos, id |-> job[d].id]
<1>1. job[d].pc = "writing" /\ UNCHANGED <<kind, robotVars, armed, begun>>
  BY DEF Finish
<1>2. /\ r \in Reels /\ r # NoReel /\ files[r] \in Seq(File) /\ job[d].pos \in Nat
      /\ job[d].id \in Nat /\ ~armed[d]
  BY <1>1, Writing
<1>3. job \in [Drives -> [pc : Steps, pos : Nat, id : Nat, label : BOOLEAN]]
      /\ files \in [Reels -> Seq(File)] /\ armed \in [Drives -> BOOLEAN] /\ begun \in Nat
      /\ kept \subseteq [reel : Reels, pos : Nat, id : Nat]
  BY DEF IInv, DriveTypes
<1>4. CASE Mark(r, job[d].pos, "whole") /\ job' = [job EXCEPT ![d] = Idle] /\ kept' = kept \cup {k0}
  <2>1. /\ files' \in [Reels -> Seq(File)] /\ Sound(In(d))'
        /\ \A q \in Reels : q # r => files'[q] = files[q]
    BY <1>1, <1>4, FileMarked
  <2>2. /\ job' \in [Drives -> [pc : Steps, pos : Nat, id : Nat, label : BOOLEAN]]
        /\ job'[d] = Idle /\ \A e \in Drives : e # d => job'[e] = job[e]
    BY <1>3, <1>4 DEF Idle, Steps
  <2>3. DriveTypes'
    BY <1>1, <1>2, <1>3, <1>4, <2>1, <2>2 DEF DriveTypes
  <2>4. OnlyAt(d)
    BY <1>1, <1>3, <1>4, <2>1, <2>2 DEF OnlyAt
  <2>5. Work(d)'
    BY <1>1, <1>2, <2>2 DEF Work, Idle
  <2>. QED BY <2>1, <2>3, <2>4, <2>5, DriveKeeps
<1>5. CASE Fails(d) /\ kept' = kept
  <2>1. /\ job' \in [Drives -> [pc : Steps, pos : Nat, id : Nat, label : BOOLEAN]]
        /\ \A e \in Drives : e # d => job'[e] = job[e]
        /\ Work(d)'
    BY <1>1, <1>5, FailedWork DEF Busy
  <2>2. CASE files' = files
    BY <1>1, <1>2, <1>3, <1>5, <2>1, <2>2, FilesUntouched
  <2>3. CASE Drop(r)
    <3>1. files' = [files EXCEPT ![r] = Front(files[r])]
      BY <2>3 DEF Drop
    <3>2. files'[r] = Front(files[r]) /\ \A q \in Reels : q # r => files'[q] = files[q]
      BY <1>2, <1>3, <3>1
    <3>3. Sound(r)' /\ files'[r] \in Seq(File)
      <4>1. PICK q \in Reels : q = r
        BY <1>2
      <4>2. files'[q] = Front(files[q])
        BY <3>2, <4>1
      <4>3. Sound(q)' /\ files'[q] \in Seq(File)
        BY <1>1, <1>5, <4>1, <4>2, FileDropped
      <4>4. r' = q
        BY <1>1, <4>1 DEF robotVars, In
      <4>. QED BY <4>1, <4>3, <4>4 DEF Sound, Count, Label
    <3>4. files' \in [Reels -> Seq(File)]
      BY <1>2, <1>3, <3>1, <3>2, <3>3
    <3>. QED BY <1>1, <1>2, <1>5, <2>1, <3>2, <3>3, <3>4, WrittenKeeps
  <2>4. CASE Mark(r, job[d].pos, "whole")
    <3>1. /\ files' \in [Reels -> Seq(File)] /\ Sound(In(d))'
          /\ \A q \in Reels : q # r => files'[q] = files[q]
      BY <1>1, <1>5, <2>4, FileMarked
    <3>. QED BY <1>1, <1>2, <1>5, <2>1, <3>1, WrittenKeeps
  <2>5. files' = files \/ Drop(r) \/ Mark(r, job[d].pos, "whole")
    BY <1>5 DEF Finish, Abort
  <2>. QED BY <2>2, <2>3, <2>4, <2>5
<1>. QED BY <1>4, <1>5 DEF Finish

\* A new process: the drives are idle, the changer is asked, the emulation's cut file is gone.
LEMMA RestartKeeps ==
  ASSUME TapeDriveAssumption, IInv, Restart
  PROVE  IInv'
<1> DEFINE Cut(r) == \E d \in Drives : In(d) = r /\ job[d].pc = "writing"
<1>1. /\ job' = [d \in Drives |-> Idle] /\ armed' = [d \in Drives |-> FALSE]
      /\ bound' = [d \in Drives |-> IF In(d) = NoReel THEN Unbound ELSE
                     [on |-> TRUE, code |-> In(d), from |-> home[d].from]]
      /\ files' = [r \in Reels |->
                     IF Cut(r) /\ kind = "emulated" THEN Front(files[r]) ELSE files[r]]
      /\ UNCHANGED <<kind, slot, home, begun, kept>>
  BY DEF Restart
<1>2. ChangerTypes'
  BY <1>1 DEF IInv, ChangerTypes, Unbound, In, NoReel
<1>3. Places'
  BY <1>1 DEF IInv, Places, In
<1>4. BindingIsTrue'
  <2>1. \A d \in Drives : In(d)' = In(d)
    BY <1>1 DEF In
  <2>2. ASSUME NEW d \in Drives, bound'[d].on
        PROVE  In(d) # NoReel /\ bound'[d].code \in {0, In(d)}
    BY <1>1, <2>2 DEF Unbound
  <2>3. \A r \in Reels : slot'[r] = 0 <=> \E d \in Drives : In(d)' = r
    BY <1>1, <2>1 DEF IInv, BindingIsTrue
  <2>4. \A d, e \in Drives : d # e => In(d)' = NoReel \/ In(d)' # In(e)'
    BY <2>1 DEF IInv, BindingIsTrue
  <2>. QED BY <2>1, <2>2, <2>3, <2>4 DEF BindingIsTrue
<1>5. ASSUME NEW r \in Reels PROVE Sound(r)' /\ files'[r] \in Seq(File)
  <2>1. files[r] \in Seq(File) /\ Sound(r)
    BY DEF IInv, DriveTypes
  <2>2. CASE Cut(r) /\ kind = "emulated"
    <3>1. PICK d \in Drives : In(d) = r /\ job[d].pc = "writing"
      BY <2>2
    <3>2. files'[r] = Front(files[r])
      BY <1>1, <2>2
    <3>. QED BY <1>1, <3>1, <3>2, FileDropped
  <2>3. CASE ~(Cut(r) /\ kind = "emulated")
    <3>1. files'[r] = files[r]
      BY <1>1, <2>3
    <3>. QED BY <1>1, <2>1, <3>1 DEF Sound, Count, Label
  <2>. QED BY <2>2, <2>3
<1>6. DriveTypes'
  <2>1. job' \in [Drives -> [pc : Steps, pos : Nat, id : Nat, label : BOOLEAN]]
    BY <1>1 DEF Idle, Steps
  <2>2. files' \in [Reels -> Seq(File)]
    <3> HIDE DEF Cut
    <3>1. DOMAIN files' = Reels /\ files' = [r \in Reels |-> files'[r]]
      BY <1>1
    <3>. QED BY <1>5, <3>1
  <2>. QED BY <1>1, <2>1, <2>2 DEF IInv, DriveTypes
<1>7. \A d \in Drives : Work(d)'
  BY <1>1 DEF Work, Idle
<1>. QED BY <1>2, <1>3, <1>4, <1>5, <1>6, <1>7 DEF IInv

-----------------------------------------------------------------------------
\* The theorems.

\* The reels start in their slots, blank.
LEMMA InitIInv ==
  ASSUME TapeDriveAssumption, Init
  PROVE  IInv
<1> USE DEF Init, TapeDriveAssumption, In, NoReel, Empty, Unbound, Idle
<1>1. ChangerTypes /\ Places
  BY DEF ChangerTypes, Places
<1>2. DriveTypes
  BY DEF DriveTypes, Steps
<1>3. BindingIsTrue
  BY DEF BindingIsTrue
<1>4. \A r \in Reels : Sound(r)
  BY DEF Sound, Count, Label
<1>5. \A d \in Drives : Work(d)
  BY DEF Work
<1>. QED BY <1>1, <1>2, <1>3, <1>4, <1>5 DEF IInv

\* Every step of the changer, of a drive and of the program keeps it.
LEMMA NextKeeps ==
  ASSUME TapeDriveAssumption, IInv, [Next]_vars
  PROVE  IInv'
<1>1. ASSUME NEW d \in Drives, NEW s \in Slots, Load(d, s) PROVE IInv'
  <2>1. AtRest(d) /\ kind' = kind /\ UNCHANGED driveVars
    BY <1>1 DEF Load, driveVars
  <2>2. CASE RobotLoad(d, s)
    <3>1. \A e \in Drives : e # d => home'[e] = home[e]
      BY <2>2 DEF RobotLoad, Mount, IInv, ChangerTypes
    <3>. QED BY <2>1, <2>2, <3>1, RobotLoadKeeps, MoveKeeps
  <2>3. CASE EmulatedLoad(d, s)
    <3>1. \A e \in Drives : e # d => home'[e] = home[e]
      BY <2>3 DEF EmulatedLoad, Mount, IInv, ChangerTypes
    <3>. QED BY <2>1, <2>3, <3>1, EmulatedLoadKeeps, MoveKeeps
  <2>. QED BY <1>1, <2>2, <2>3 DEF Load
<1>2. ASSUME NEW d \in Drives, Unload(d) PROVE IInv'
  <2>1. AtRest(d) /\ UNCHANGED driveVars /\ \A e \in Drives : e # d => home'[e] = home[e]
    BY <1>2 DEF Unload, IInv, ChangerTypes
  <2>. QED BY <1>2, <2>1, UnloadKeeps, MoveKeeps
<1>3. ASSUME NEW d \in Drives, Forget(d) PROVE IInv'
  <2>1. UNCHANGED driveVars /\ home' = [home EXCEPT ![d].from = 0]
    BY <1>3 DEF Forget
  <2>2. In(d)' = In(d) /\ \A e \in Drives : e # d => home'[e] = home[e]
    BY <2>1 DEF IInv, ChangerTypes, In
  <2>. QED BY <1>3, <2>1, <2>2, ForgetKeeps, MoveKeeps
<1>4. CASE UNCHANGED vars
  <2>1. Changer'
    BY <1>4, ChangerIdle DEF vars, robotVars
  <2>2. DriveTypes'
    BY <1>4 DEF vars, IInv, DriveTypes
  <2>3. \A r \in Reels : Sound(r)'
    BY <1>4 DEF vars, IInv, Sound, Count, Label
  <2>4. \A d \in Drives : Work(d)'
    BY <1>4 DEF vars, IInv, Work, FreeFrom, Count, In
  <2>. QED BY <2>1, <2>2, <2>3, <2>4 DEF IInv, Changer
<1>. QED BY <1>1, <1>2, <1>3, <1>4, BeginLabelKeeps, BeginFileKeeps, OpenKeeps,
            WriteHeaderKeeps, FinishKeeps, RestartKeeps DEF Next

THEOREM Inductive == ASSUME TapeDriveAssumption PROVE Spec => []IInv
<1>1. Init => IInv
  BY InitIInv
<1>2. IInv /\ [Next]_vars => IInv'
  BY NextKeeps
<1>. QED BY <1>1, <1>2, PTL DEF Spec

\* A drive that reports a cartridge holds it and reports the one it holds, and a cartridge is
\* in one place, through loads, rejected loads, failed unloads and a changer that forgets
\* (mtx.go, tape.go).
THEOREM BindingsAreTrue == ASSUME TapeDriveAssumption PROVE Spec => []BindingIsTrue
<1>1. IInv => BindingIsTrue
  BY DEF IInv
<1>. QED BY <1>1, Inductive, PTL

\* A file whose Close returned no error stays at the number it was told, whole, until its own
\* reel is relabeled (tape.go AppendFile, dir.go).
THEOREM FilesAlwaysStay == ASSUME TapeDriveAssumption PROVE Spec => []FilesStay
<1>1. IInv => FilesStay
  <2> SUFFICES ASSUME IInv, NEW k \in kept
               PROVE  /\ k.pos + 1 \in DOMAIN files[k.reel]
                      /\ files[k.reel][k.pos + 1].id = k.id
                      /\ files[k.reel][k.pos + 1].state = "whole"
    BY DEF FilesStay
  <2>1. k.reel \in Reels /\ files[k.reel] \in Seq(File) /\ Sound(k.reel)
    BY DEF IInv, DriveTypes
  <2>. QED BY <2>1 DEF Sound, Count
<1>. QED BY <1>1, Inductive, PTL

\* What follows a label on a reel was written after it: a relabel leaves nothing of what was
\* there, on a robot's drives that only rewind and in the emulation (tape.go WriteLabel).
THEOREM LabelsStartOver == ASSUME TapeDriveAssumption PROVE Spec => []LabelStartsOver
<1>1. IInv => LabelStartsOver
  BY DEF IInv, Sound, LabelStartsOver
<1>. QED BY <1>1, Inductive, PTL

\* All of it, for any library.
THEOREM ReelsStayKept == ASSUME TapeDriveAssumption PROVE Spec => []ReelsAreKept
<1>. QED BY BindingsAreTrue, FilesAlwaysStay, LabelsStartOver, PTL DEF ReelsAreKept
=============================================================================
