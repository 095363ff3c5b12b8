--------------------------- MODULE FileStoreProofs ---------------------------
(***************************************************************************)
(* What the media hold and what the catalog says of it.  For any archives, *)
(* runs, kinds of file and bounds: the types of the file store, that a     *)
(* position holds one file, and, from a second invariant that says whose   *)
(* every readable file is, that the commit footer means a whole archive    *)
(* and that no removal takes another archive's files.  Then the catalog:   *)
(* what it advertises, its ledger, the fill of volumes.                    *)
(***************************************************************************)
EXTENDS FileStore, Catalog, FiniteSetTheorems, SequenceTheorems, WellFoundedInduction, TLAPS

-----------------------------------------------------------------------------
\* The inductive invariant.

Writers == [st : {"idle", "append", "payload", "header", "done"}, k : 0 .. Len(Kinds),
            pos : Positions, got : Seq(Positions)]
Maps == {<<>>} \cup [1 .. Len(Kinds) -> Positions]

\* How many files an archive's writer has stored in each of its states.
Counted(x) ==
    /\ x.st = "idle" => x = Idle
    /\ x.st = "append" => x.k = Len(x.got) /\ x.k \in 1 .. Len(Kinds) - 1
    /\ x.st \in {"payload", "header"} => x.k = Len(x.got) + 1
    /\ x.st = "done" => x.k = Len(x.got) /\ x.k = Len(Kinds)

\* What the index says of a position, and what a listed key is.
Entry == [run : Range(RunOf), pay : Keys \cup {NoKey}, hdr : Keys \cup {NoKey}]
Paired(p) ==
    /\ idx[p].pay # NoKey => idx[p].pay.half = "payload" /\ idx[p].pay.pos = p
    /\ idx[p].hdr # NoKey => idx[p].hdr.half = "hdr" /\ idx[p].hdr.pos = p

Types ==
    /\ cloud \in BOOLEAN /\ up \in BOOLEAN /\ swept \in BOOLEAN /\ mixed \in BOOLEAN
    /\ objs \subseteq Keys /\ torn \subseteq objs /\ \A o \in torn : o.half = "hdr"
    /\ next \in 0 .. MaxPos + 1
    /\ DOMAIN idx \subseteq Positions
    /\ \A p \in DOMAIN idx : idx[p] \in Entry /\ Paired(p)
    /\ w \in [Archives -> Writers] /\ \A a \in Archives : Counted(w[a])
    /\ toc \in [Archives -> Maps] /\ placed \in [Archives -> Maps]
    /\ rec \in [ar : Archives \cup {None}, rest : Seq(Positions)]
    /\ doomed \subseteq Positions
    /\ faults \in 0 .. MaxFaults /\ cuts \in 0 .. MaxCuts /\ starts \in 0 .. MaxStarts

\* An archive with a footer that parses has told where its files lie.
Told ==
    \A o \in objs \ torn :
        o.half = "hdr" /\ o.kind = Footer => toc[o.ar] # <<>>

\* Positions in hand are handed out, apart from each other, and hold nothing but
\* the file that is being appended there.
InFlight(a) == w[a].st \in {"payload", "header"}
Handed ==
    /\ \A o \in objs : up => o.pos < next
    /\ \A a \in Archives : w[a].st # "idle" => up
    /\ \A a \in Archives : InFlight(a) =>
         /\ w[a].pos < next
         /\ \A o \in objs : o.pos = w[a].pos => o.ar = a /\ o.kind = Kinds[w[a].k]
         /\ \A b \in Archives \ {a} : InFlight(b) => w[a].pos # w[b].pos

IInv == Types /\ Told /\ Handed /\ OneFilePerPosition

-----------------------------------------------------------------------------
\* Facts about positions.

\* The pairs of numbers in descending order of their first.
Below == {r \in Nat \X Nat : r[1] < r[2]}

\* A set of numbers up to n that is not empty has a largest.
LEMMA LargestPosition ==
  ASSUME NEW n \in Nat, NEW S \in SUBSET (0..n), S # {}
  PROVE  Max(S) \in S /\ \A k \in S : k <= Max(S)
<1> DEFINE T == {n - k : k \in S}
<1>0. \A k \in S : k \in Nat /\ k <= n /\ n - k \in Nat
    OBVIOUS
<1>1. T \subseteq Nat /\ T # {}
  <2>1. T \subseteq Nat
      BY <1>0
  <2>2. T # {}
      BY Zenon
  <2> QED
      BY <2>1, <2>2
<1>2. PICK x \in T : \A y \in T : <<y, x>> \notin Below
  <2> HIDE DEF T
  <2>1. IsWellFoundedOn(Below, Nat)
      BY NatLessThanWellFounded DEF Below, OpToRel
  <2> QED
      BY <1>1, <2>1, WFMin
<1>3. PICK m \in S : x = n - m
    OBVIOUS
<1>4. \A k \in S : k <= m
  <2> SUFFICES ASSUME NEW k \in S PROVE k <= m
      OBVIOUS
  <2>1. n - k \in T
      OBVIOUS
  <2>2. ~(n - k < n - m)
      BY <1>0, <1>2, <1>3, <2>1 DEF Below
  <2> QED
      BY <1>0, <2>2
<1>5. \E x1 \in S : \A y \in S : x1 >= y
    BY <1>0, <1>4
<1>6. Max(S) \in S /\ \A y \in S : Max(S) >= y
  <2> HIDE DEF T
  <2> QED
      BY <1>5 DEF Max
<1> QED
    BY <1>0, <1>6

\* What a scan lists: positions stored, entries of the keys there, and a next position
\* beyond them.
LEMMA ScanFacts ==
  ASSUME FileStoreAssumption, Types
  PROVE  /\ DOMAIN ScannedIdx \subseteq Positions
         /\ \A p \in DOMAIN ScannedIdx :
              /\ ScannedIdx[p] \in Entry
              /\ ScannedIdx[p].pay # NoKey =>
                   ScannedIdx[p].pay.half = "payload" /\ ScannedIdx[p].pay.pos = p
              /\ ScannedIdx[p].hdr # NoKey =>
                   ScannedIdx[p].hdr.half = "hdr" /\ ScannedIdx[p].hdr.pos = p
         /\ ScannedNext \in 0 .. MaxPos + 1
         /\ \A o \in objs : o.pos < ScannedNext
<1>1. \A o \in objs : o.pos \in Positions /\ o.ar \in Archives
    BY DEF Types, Keys
<1>2. ASSUME NEW p \in DOMAIN ScannedIdx
      PROVE  /\ ScannedIdx[p] \in Entry
             /\ ScannedIdx[p].pay # NoKey =>
                  ScannedIdx[p].pay.half = "payload" /\ ScannedIdx[p].pay.pos = p
             /\ ScannedIdx[p].hdr # NoKey =>
                  ScannedIdx[p].hdr.half = "hdr" /\ ScannedIdx[p].hdr.pos = p
  <2> DEFINE at == {o \in objs : o.pos = p}
             pick(h) == IF \E o \in at : o.half = h
                        THEN CHOOSE o \in at : o.half = h ELSE NoKey
  <2>1. at # {}
      BY DEF ScannedIdx
  <2>2. (CHOOSE o \in at : TRUE) \in at
      BY <2>1
  <2>3. RunOf[(CHOOSE o \in at : TRUE).ar] \in Range(RunOf)
      BY <1>1, <2>2 DEF Range, FileStoreAssumption
  <2>4. ASSUME NEW h
        PROVE  /\ pick(h) \in Keys \cup {NoKey}
               /\ pick(h) # NoKey => pick(h).half = h /\ pick(h).pos = p
    <3>1. CASE \E o \in at : o.half = h
      <4>1. (CHOOSE o \in at : o.half = h) \in at /\ (CHOOSE o \in at : o.half = h).half = h
          BY <3>1
      <4>2. pick(h) = CHOOSE o \in at : o.half = h
          BY <3>1
      <4> QED
          BY <4>1, <4>2 DEF Types
    <3>2. CASE ~ \E o \in at : o.half = h
        BY <3>2
    <3> QED
        BY <3>1, <3>2
  <2>5. ScannedIdx[p] = [run |-> RunOf[(CHOOSE o \in at : TRUE).ar],
                         pay |-> pick("payload"), hdr |-> pick("hdr")]
      BY DEF ScannedIdx, ScanEntry
  <2>6. pick("payload") \in Keys \cup {NoKey} /\ pick("hdr") \in Keys \cup {NoKey}
      BY <2>4
  <2> HIDE DEF pick, at
  <2>7. ScannedIdx[p] \in Entry
      BY <2>3, <2>5, <2>6 DEF Entry
  <2> QED
      BY <2>4, <2>5, <2>7
<1>3. ScannedNext \in 0 .. MaxPos + 1 /\ \A o \in objs : o.pos < ScannedNext
  <2>1. CASE objs = {}
      BY <2>1 DEF ScannedNext, FileStoreAssumption
  <2>2. CASE objs # {}
    <3> DEFINE S == {o.pos : o \in objs}
    <3>1. S \in SUBSET (0 .. MaxPos) /\ S # {}
        BY <1>1, <2>2 DEF Positions
    <3>2. Max(S) \in S /\ \A k \in S : k <= Max(S)
      <4> HIDE DEF S
      <4> QED
          BY <3>1, LargestPosition DEF FileStoreAssumption
    <3>3. ScannedNext = Max(S) + 1
        BY <2>2 DEF ScannedNext
    <3>4. \A o \in objs : o.pos \in S
        OBVIOUS
    <3>5. Max(S) \in 0 .. MaxPos /\ MaxPos \in Nat
      <4> HIDE DEF S
      <4> QED
          BY <3>1, <3>2 DEF FileStoreAssumption
    <3>6. \A o \in objs : o.pos \in 0 .. MaxPos /\ o.pos <= Max(S)
      <4> HIDE DEF S
      <4> QED
          BY <1>1, <3>2, <3>4 DEF Positions
    <3> HIDE DEF S
    <3> QED
        BY <3>3, <3>5, <3>6
  <2> QED
      BY <2>1, <2>2
<1> QED
    BY <1>1, <1>2, <1>3 DEF ScannedIdx

\* A removal takes keys and entries, and adds none.
LEMMA RemovalFacts ==
  ASSUME Types, NEW p, RemoveFile(p)
  PROVE  /\ objs' \subseteq objs /\ torn' \subseteq objs' /\ torn' \subseteq torn
         /\ objs' \ torn' \subseteq objs \ torn
         /\ DOMAIN idx' \subseteq DOMAIN idx
         /\ \A q \in DOMAIN idx' : idx'[q] = idx[q]
<1>1. CASE p \in DOMAIN idx
  <2>1. /\ objs' = objs \ RemovedBy(p) /\ torn' = torn \ RemovedBy(p)
        /\ idx' = [q \in DOMAIN idx \ {p} |-> idx[q]]
      BY <1>1 DEF RemoveFile
  <2> QED
      BY <2>1 DEF Types
<1>2. CASE p \notin DOMAIN idx
    BY <1>2 DEF RemoveFile, Types
<1> QED
    BY <1>1, <1>2

-----------------------------------------------------------------------------
\* Each action keeps the invariant.

\* The files of an archive in the order they are written: the next one's kind.
LEMMA NextKind ==
  ASSUME FileStoreAssumption, Types, NEW a \in Archives,
         w[a].st \in {"idle", "append"}
  PROVE  /\ w[a].k + 1 \in 1 .. Len(Kinds) /\ w[a].k = Len(w[a].got)
         /\ Kinds[w[a].k + 1] \in Range(Kinds)
<1>1. w[a] \in Writers /\ Counted(w[a]) /\ Len(Kinds) \in Nat \ {0}
    BY DEF Types, FileStoreAssumption
<1>2. w[a].k + 1 \in 1 .. Len(Kinds) /\ w[a].k = Len(w[a].got)
    BY <1>1 DEF Counted, Writers, Idle
<1> QED
    BY <1>2 DEF Range, FileStoreAssumption

\* A handle opened: its index and its next position are those of a scan.
LEMMA OpenKeeps ==
  ASSUME FileStoreAssumption, IInv, Open
  PROVE  IInv'
<1> USE DEF Open
<1>1. Types'
    BY ScanFacts DEF IInv, Types, Entry, Paired
<1>2. Told'
    BY DEF IInv, Told
<1>3. Handed'
    BY ScanFacts DEF IInv, Handed, Quiet, InFlight
<1>4. OneFilePerPosition'
    BY DEF IInv, OneFilePerPosition
<1> QED
    BY <1>1, <1>2, <1>3, <1>4 DEF IInv

\* An append takes the handle's next position, past all that is stored.
LEMMA AppendFileKeeps ==
  ASSUME FileStoreAssumption, IInv, NEW a \in Archives, AppendFile(a)
  PROVE  IInv'
<1> DEFINE k == w[a].k + 1
           new == Key(next, a, Kinds[k], "payload")
<1>1. w[a].st \in {"idle", "append"} /\ up
    BY DEF AppendFile, MayStart, IInv, Handed
<1>2. k \in 1 .. Len(Kinds) /\ w[a].k = Len(w[a].got) /\ Kinds[k] \in Range(Kinds)
    BY <1>1, NextKind DEF IInv
<1>3. next \in Positions /\ next + 1 \in 0 .. MaxPos + 1 /\ next' = next + 1
    BY DEF AppendFile, IInv, Types, Positions, FileStoreAssumption
<1>4. new \in Keys /\ new.pos = next /\ new.ar = a /\ new.kind = Kinds[k]
      /\ new.half = "payload"
    BY <1>2, <1>3 DEF Key, Keys, Halves
<1>5. objs' \subseteq objs \cup {new} /\ objs \subseteq objs' /\ torn' = torn /\ toc' = toc
    BY DEF AppendFile, OnOpen
<1>6. /\ w' \in [Archives -> Writers] /\ \A b \in Archives : Counted(w'[b])
      /\ \A b \in Archives \ {a} : w'[b] = w[b]
      /\ w'[a].st = "payload" /\ w'[a].pos = next /\ w'[a].k = k
  <2>1. w \in [Archives -> Writers] /\ w[a] \in Writers
      BY DEF IInv, Types
  <2>2. w' = [w EXCEPT ![a].st = "payload", ![a].k = k, ![a].pos = next]
      BY DEF AppendFile
  <2>3. w'[a] = [st |-> "payload", k |-> k, pos |-> next, got |-> w[a].got]
      BY <2>1, <2>2 DEF Writers
  <2>4. w'[a] \in Writers /\ Counted(w'[a])
      BY <1>2, <1>3, <2>1, <2>3 DEF Writers, Counted
  <2> QED
      BY <2>1, <2>2, <2>3, <2>4 DEF IInv, Types
<1>7. DOMAIN idx' \subseteq Positions /\ \A p \in DOMAIN idx' : idx'[p] \in Entry /\ Paired(p)'
  <2>1. idx' = Indexed(next, [run |-> RunOf[a], pay |-> NoKey, hdr |-> NoKey])
      BY DEF AppendFile, Reserved
  <2>2. RunOf[a] \in Range(RunOf)
      BY DEF FileStoreAssumption, Range
  <2>3. /\ DOMAIN idx' = DOMAIN idx \cup {next}
        /\ idx'[next] = [run |-> RunOf[a], pay |-> NoKey, hdr |-> NoKey]
        /\ \A p \in DOMAIN idx \ {next} : idx'[p] = idx[p]
      BY <2>1 DEF Indexed
  <2>4. idx'[next] \in Entry /\ idx'[next].pay = NoKey /\ idx'[next].hdr = NoKey
      BY <2>2, <2>3 DEF Entry
  <2>5. ASSUME NEW p \in DOMAIN idx' PROVE idx'[p] \in Entry /\ Paired(p)'
      BY <2>3, <2>4 DEF IInv, Types, Paired
  <2> QED
      BY <1>3, <2>3, <2>5 DEF IInv, Types
<1> HIDE DEF new, k
<1>8. starts' \in 0 .. MaxStarts /\ mixed' \in BOOLEAN
  <2>1. starts' \in 0 .. MaxStarts
      BY DEF AppendFile, MayStart, IInv, Types, FileStoreAssumption
  <2> QED
      BY <2>1 DEF AppendFile, IInv, Types
<1>9. Types'
  <2>1. objs' \subseteq Keys /\ torn' \subseteq objs' /\ \A o \in torn' : o.half = "hdr"
      BY <1>4, <1>5 DEF IInv, Types
  <2> QED
      BY <1>3, <1>6, <1>7, <1>8, <2>1 DEF AppendFile, IInv, Types
<1>10. Told'
    BY <1>4, <1>5 DEF IInv, Told
<1>11. Handed'
  <2>1. \A o \in objs : o.pos \in Nat /\ o.pos < next
      BY <1>1 DEF IInv, Types, Handed, Keys, Positions
  <2>2. \A o \in objs' : o.pos < next'
      BY <1>3, <1>4, <1>5, <2>1 DEF Positions
  <2>3. \A b \in Archives : w'[b].st # "idle" => up'
      BY <1>1 DEF AppendFile
  <2>4. \A b \in Archives \ {a} : InFlight(b) => w[b].pos \in Nat /\ w[b].pos < next
      BY DEF IInv, Handed, Types, Writers, Positions
  <2>5. \A o \in objs' : o.pos = next => o.ar = a /\ o.kind = Kinds[k]
      BY <1>4, <1>5, <2>1
  <2>6. \A b \in Archives \ {a} : InFlight(b)' =>
          /\ w'[b].pos < next'
          /\ \A o \in objs' : o.pos = w'[b].pos => o.ar = b /\ o.kind = Kinds[w'[b].k]
          /\ \A c \in Archives \ {b} : InFlight(c)' => w'[b].pos # w'[c].pos
    <3> SUFFICES ASSUME NEW b \in Archives \ {a}, InFlight(b)'
                 PROVE  /\ w'[b].pos < next'
                        /\ \A o \in objs' : o.pos = w'[b].pos =>
                             o.ar = b /\ o.kind = Kinds[w'[b].k]
                        /\ \A c \in Archives \ {b} : InFlight(c)' => w'[b].pos # w'[c].pos
        OBVIOUS
    <3>1. InFlight(b) /\ w'[b] = w[b] /\ w[b].pos \in Nat /\ w[b].pos < next
        BY <1>6, <2>4 DEF InFlight
    <3>2. w'[b].pos < next'
        BY <1>3, <3>1 DEF Positions
    <3>3. \A o \in objs' : o.pos = w'[b].pos => o.ar = b /\ o.kind = Kinds[w'[b].k]
        BY <1>3, <1>4, <1>5, <3>1 DEF IInv, Handed
    <3>4. \A c \in Archives \ {b} : InFlight(c)' => w'[b].pos # w'[c].pos
        BY <1>3, <1>6, <3>1 DEF IInv, Handed, InFlight
    <3> QED
        BY <3>2, <3>3, <3>4
  <2>7. \A c \in Archives \ {a} : InFlight(c)' => w'[a].pos # w'[c].pos
      BY <1>3, <1>6, <2>4 DEF InFlight
  <2> QED
      BY <1>3, <1>6, <2>2, <2>3, <2>5, <2>6, <2>7 DEF Handed, Positions
<1>12. OneFilePerPosition'
  <2>1. \A o \in objs : o.pos \in Nat /\ o.pos < next
      BY <1>1 DEF IInv, Types, Handed, Keys, Positions
  <2> QED
      BY <1>3, <1>4, <1>5, <2>1 DEF IInv, OneFilePerPosition, Positions
<1> QED
    BY <1>9, <1>10, <1>11, <1>12 DEF IInv

\* A payload closed: its file is the writer's own, at the position in hand.
LEMMA CloseKeeps ==
  ASSUME FileStoreAssumption, IInv, NEW a \in Archives, Close(a)
  PROVE  IInv'
<1>1. w[a] \in Writers /\ Counted(w[a]) /\ w[a].st = "payload" /\ InFlight(a)
    BY DEF Close, IInv, Types, InFlight
<1>2. \A h \in Halves : /\ File(a, h) \in Keys /\ File(a, h).pos = w[a].pos /\ File(a, h).ar = a
                        /\ File(a, h).kind = Kinds[w[a].k] /\ File(a, h).half = h
  <2>1. Kinds[w[a].k] \in Range(Kinds)
      BY <1>1 DEF Writers, Counted, FileStoreAssumption, Range
  <2> QED
      BY <1>1, <2>1 DEF File, Key, Keys, Writers
<1>3. /\ objs' \subseteq objs \cup {File(a, "payload"), File(a, "hdr")} /\ objs \subseteq objs'
      /\ torn' \subseteq torn \cup {File(a, "hdr")} /\ torn' \subseteq torn \cup objs'
      /\ File(a, "hdr") \in objs' => File(a, "hdr") \in torn' \cup objs
      /\ torn \subseteq torn'
    BY <1>2 DEF Close, OnOpen, Halves
<1>4. /\ w' \in [Archives -> Writers] /\ \A b \in Archives : Counted(w'[b])
      /\ \A b \in Archives \ {a} : w'[b] = w[b]
      /\ w'[a].st = "header" /\ w'[a].pos = w[a].pos /\ w'[a].k = w[a].k
  <2>1. w'[a] = [st |-> "header", k |-> w[a].k, pos |-> w[a].pos, got |-> w[a].got]
      BY <1>1 DEF Close, Writers, IInv, Types
  <2>2. w'[a] \in Writers /\ Counted(w'[a])
      BY <1>1, <2>1 DEF Writers, Counted
  <2>3. \A b \in Archives \ {a} : w'[b] = w[b]
      BY DEF Close, IInv, Types
  <2>4. w' \in [Archives -> Writers]
      BY <2>2, <2>3 DEF Close, IInv, Types
  <2> QED
      BY <2>1, <2>2, <2>3, <2>4 DEF IInv, Types
<1>5. Types'
  <2>1. objs' \subseteq Keys /\ torn' \subseteq objs' /\ \A o \in torn' : o.half = "hdr"
      BY <1>2, <1>3 DEF IInv, Types, Halves
  <2> QED
      BY <1>4, <2>1 DEF Close, IInv, Types, Paired
<1>6. Told'
  <2>1. \A o \in objs' \ torn' : o.half = "hdr" => o \in objs \ torn
      BY <1>2, <1>3 DEF Halves
  <2> QED
      BY <2>1 DEF Close, IInv, Told
<1>7. \A o \in objs' : o \in objs \/ (o.pos = w[a].pos /\ o.ar = a /\ o.kind = Kinds[w[a].k])
    BY <1>2, <1>3 DEF Halves
<1>8. Handed'
  <2>1. \A b \in Archives :
          InFlight(b)' => InFlight(b) /\ w'[b].pos = w[b].pos /\ w'[b].k = w[b].k
      BY <1>1, <1>4 DEF InFlight
  <2>2. up' = up /\ next' = next /\ \A b \in Archives : w'[b].st # "idle" => w[b].st # "idle"
      BY <1>1, <1>4 DEF Close
  <2> QED
      BY <1>1, <1>7, <2>1, <2>2 DEF IInv, Handed
<1>9. OneFilePerPosition'
    BY <1>1, <1>7 DEF IInv, Handed, OneFilePerPosition
<1> QED
    BY <1>5, <1>6, <1>8, <1>9 DEF IInv

\* Sequences as the functions they are.
LEMMA FunctionsOfSequences ==
  ASSUME NEW S, NEW x \in Seq(S) PROVE x \in [1 .. Len(x) -> S]
  OBVIOUS

\* What something was appended to is not empty.
LEMMA AppendIsNotEmpty ==
  ASSUME NEW S, NEW x \in Seq(S), NEW e \in S PROVE Append(x, e) # <<>>
<1>1. Len(Append(x, e)) = Len(x) + 1 /\ Len(x) \in Nat /\ Len(<<>>) = 0
    OBVIOUS
<1> QED
    BY <1>1

\* No reclaim is a reclaim of nothing.
LEMMA NoReclaimIsWell == NoReclaim \in [ar : Archives \cup {None}, rest : Seq(Positions)]
<1>1. <<>> \in Seq(Positions)
    OBVIOUS
<1> QED
    BY <1>1 DEF NoReclaim

\* A sidecar written: the archive's next position is told, with the footer all of them.
LEMMA SidecarKeeps ==
  ASSUME FileStoreAssumption, IInv, NEW a \in Archives, Sidecar(a)
  PROVE  IInv'
<1>1. w[a] \in Writers /\ Counted(w[a]) /\ w[a].st = "header" /\ InFlight(a)
    BY DEF Sidecar, IInv, Types, InFlight
<1>2. \A h \in Halves : /\ File(a, h) \in Keys /\ File(a, h).pos = w[a].pos /\ File(a, h).ar = a
                        /\ File(a, h).kind = Kinds[w[a].k] /\ File(a, h).half = h
  <2>1. Kinds[w[a].k] \in Range(Kinds)
      BY <1>1 DEF Writers, Counted, FileStoreAssumption, Range
  <2> QED
      BY <1>1, <2>1 DEF File, Key, Keys, Writers
<1>3. objs' = objs \cup {File(a, "hdr")} /\ torn' = torn \ {File(a, "hdr")}
    BY DEF Sidecar
<1>4. /\ w' \in [Archives -> Writers] /\ \A b \in Archives : Counted(w'[b])
      /\ \A b \in Archives \ {a} : w'[b] = w[b]
      /\ w'[a].st \in {"append", "done"}
  <2> DEFINE st == IF w[a].k = Len(Kinds) THEN "done" ELSE "append"
  <2>1. w'[a] = [st |-> st, k |-> w[a].k, pos |-> 0, got |-> Append(w[a].got, w[a].pos)]
      BY <1>1 DEF Sidecar, Writers, IInv, Types
  <2>2. /\ Append(w[a].got, w[a].pos) \in Seq(Positions)
        /\ Len(Append(w[a].got, w[a].pos)) = w[a].k
      BY <1>1 DEF Writers, Counted
  <2>3. 0 \in Positions /\ w[a].k \in 1 .. Len(Kinds) /\ Len(Kinds) \in Nat
    <3>1. w[a].got \in Seq(Positions) /\ w[a].k = Len(w[a].got) + 1
        BY <1>1 DEF Counted, Writers
    <3>2. Len(w[a].got) \in Nat
        BY <3>1
    <3> QED
        BY <1>1, <3>1, <3>2 DEF Writers, Positions, FileStoreAssumption
  <2>4. w'[a] \in Writers
      BY <2>1, <2>2, <2>3 DEF Writers
  <2>5. Counted(w'[a])
      BY <2>1, <2>2, <2>3 DEF Counted
  <2>6. \A b \in Archives \ {a} : w'[b] = w[b]
      BY DEF Sidecar, IInv, Types
  <2>7. w' \in [Archives -> Writers]
      BY <2>4, <2>6 DEF Sidecar, IInv, Types
  <2>8. \A b \in Archives : Counted(w'[b])
      BY <2>5, <2>6 DEF IInv, Types
  <2>9. w'[a].st \in {"append", "done"}
      BY <2>1
  <2> QED
      BY <2>6, <2>7, <2>8, <2>9
<1>5. toc' \in [Archives -> Maps] /\ \A b \in Archives : toc[b] # <<>> => toc'[b] # <<>>
  <2>1. CASE w[a].k = Len(Kinds)
    <3>1. /\ Append(w[a].got, w[a].pos) \in Seq(Positions)
          /\ Len(Append(w[a].got, w[a].pos)) = Len(Kinds)
        BY <1>1, <2>1 DEF Writers, Counted
    <3>2. Append(w[a].got, w[a].pos) \in [1 .. Len(Kinds) -> Positions]
        BY <3>1, FunctionsOfSequences
    <3>3. Append(w[a].got, w[a].pos) # <<>>
        BY AppendIsNotEmpty, <1>1 DEF Writers
    <3>4. toc' = [toc EXCEPT ![a] = Append(w[a].got, w[a].pos)]
        BY <2>1 DEF Sidecar
    <3> QED
        BY <3>2, <3>3, <3>4 DEF IInv, Types, Maps
  <2>2. CASE w[a].k # Len(Kinds)
      BY <2>2 DEF Sidecar, IInv, Types
  <2> QED
      BY <2>1, <2>2
<1>6. DOMAIN idx' \subseteq Positions /\ \A p \in DOMAIN idx' : idx'[p] \in Entry /\ Paired(p)'
  <2> DEFINE e == [run |-> RunOf[a], pay |-> File(a, "payload"), hdr |-> File(a, "hdr")]
  <2>1. idx' = Indexed(w[a].pos, e)
      BY DEF Sidecar
  <2>2. RunOf[a] \in Range(RunOf)
      BY DEF FileStoreAssumption, Range
  <2>3. e \in Entry /\ e.pay.half = "payload" /\ e.pay.pos = w[a].pos
        /\ e.hdr.half = "hdr" /\ e.hdr.pos = w[a].pos
      BY <1>2, <2>2 DEF Entry, Halves
  <2>4. /\ DOMAIN idx' = DOMAIN idx \cup {w[a].pos} /\ idx'[w[a].pos] = e
        /\ \A p \in DOMAIN idx \ {w[a].pos} : idx'[p] = idx[p]
      BY <2>1 DEF Indexed
  <2> HIDE DEF e
  <2>5. ASSUME NEW p \in DOMAIN idx' PROVE idx'[p] \in Entry /\ Paired(p)'
      BY <2>3, <2>4 DEF IInv, Types, Paired
  <2> QED
      BY <1>1, <2>4, <2>5 DEF IInv, Types, Writers
<1>7. Types'
  <2>1. objs' \subseteq Keys /\ torn' \subseteq objs' /\ \A o \in torn' : o.half = "hdr"
      BY <1>2, <1>3 DEF IInv, Types, Halves
  <2> QED
      BY <1>4, <1>5, <1>6, <2>1 DEF Sidecar, IInv, Types
<1>8. Told'
  <2> SUFFICES ASSUME NEW o \in objs' \ torn', o.half = "hdr", o.kind = Footer
               PROVE  toc'[o.ar] # <<>>
      BY DEF Told
  <2>1. CASE o = File(a, "hdr")
    <3>1. /\ w[a].k \in DOMAIN Kinds /\ Len(Kinds) \in DOMAIN Kinds
          /\ Kinds[w[a].k] = Kinds[Len(Kinds)]
        BY <1>1, <1>2, <2>1 DEF Halves, Footer, Writers, Counted, FileStoreAssumption
    <3>2. w[a].k = Len(Kinds)
        BY <3>1 DEF FileStoreAssumption
    <3>3. toc' = [toc EXCEPT ![a] = Append(w[a].got, w[a].pos)]
        BY <3>2 DEF Sidecar
    <3>4. Append(w[a].got, w[a].pos) # <<>>
        BY AppendIsNotEmpty, <1>1 DEF Writers
    <3> QED
        BY <1>2, <2>1, <3>3, <3>4 DEF Halves, IInv, Types
  <2>2. CASE o # File(a, "hdr")
    <3>1. o \in objs \ torn /\ o.ar \in Archives
        BY <1>3, <2>2 DEF IInv, Types, Keys
    <3> QED
        BY <1>5, <3>1 DEF IInv, Told
  <2> QED
      BY <2>1, <2>2
<1>9. \A o \in objs' : o \in objs \/ (o.pos = w[a].pos /\ o.ar = a /\ o.kind = Kinds[w[a].k])
    BY <1>2, <1>3 DEF Halves
<1>10. Handed'
  <2>1. \A b \in Archives : InFlight(b)' => InFlight(b) /\ b # a /\ w'[b] = w[b]
      BY <1>4 DEF InFlight
  <2>2. up' = up /\ next' = next /\ \A b \in Archives : w'[b].st # "idle" => w[b].st # "idle"
      BY <1>1, <1>4 DEF Sidecar
  <2> QED
      BY <1>1, <1>9, <2>1, <2>2 DEF IInv, Handed
<1>11. OneFilePerPosition'
    BY <1>1, <1>9 DEF IInv, Handed, OneFilePerPosition
<1> QED
    BY <1>7, <1>8, <1>10, <1>11 DEF IInv

\* A step that stores nothing, reads no header anew, and leaves the writers be, or idle.
LEMMA FewerFiles ==
  ASSUME IInv, objs' \subseteq objs, objs' \ torn' \subseteq objs \ torn, toc' = toc,
         up' = up /\ next' = next,
         w \in [Archives -> Writers],
         \A a \in Archives : w'[a] = w[a] \/ w'[a] = Idle
  PROVE  Told' /\ Handed' /\ OneFilePerPosition'
<1>1. Told'
    BY DEF IInv, Told
<1>2. Handed'
  <2>1. \A a \in Archives : w'[a].st # "idle" => w'[a] = w[a]
      BY DEF Idle
  <2>2. \A a \in Archives : InFlight(a)' => InFlight(a) /\ w'[a] = w[a]
      BY <2>1 DEF InFlight
  <2> QED
      BY <2>1, <2>2 DEF IInv, Handed
<1>3. OneFilePerPosition'
    BY DEF IInv, OneFilePerPosition
<1> QED
    BY <1>1, <1>2, <1>3

\* A writer that starts over.
LEMMA IdleIsWell == FileStoreAssumption => Idle \in Writers /\ Counted(Idle)
  BY DEF FileStoreAssumption, Idle, Writers, Counted, Positions

\* An archive recorded: its writer's positions, one per kind, are its placement.
LEMMA RecordKeeps ==
  ASSUME FileStoreAssumption, IInv, NEW a \in Archives, Record(a)
  PROVE  IInv'
<1>1. w[a].got \in [1 .. Len(Kinds) -> Positions]
    BY DEF Record, IInv, Types, Writers, Counted
<1>2. placed' \in [Archives -> Maps]
    BY <1>1 DEF Record, IInv, Types, Maps
<1>3. w' \in [Archives -> Writers] /\ \A b \in Archives : Counted(w'[b])
    BY IdleIsWell DEF Record, IInv, Types
<1>4. Types'
    BY <1>2, <1>3 DEF Record, IInv, Types, Paired
<1>5. Told' /\ Handed' /\ OneFilePerPosition'
  <2>1. \A b \in Archives : w'[b] = w[b] \/ w'[b] = Idle
      BY DEF Record, IInv, Types
  <2> QED
      BY <2>1, FewerFiles DEF Record, IInv, Types
<1> QED
    BY <1>4, <1>5 DEF IInv

\* An append dropped: what it stored stays, what it had in hand does not.
LEMMA AbortKeeps ==
  ASSUME FileStoreAssumption, IInv, NEW a \in Archives, Abort(a)
  PROVE  IInv'
<1>1. w' \in [Archives -> Writers] /\ \A b \in Archives : Counted(w'[b])
    BY IdleIsWell DEF Abort, IInv, Types
<1>2. DOMAIN idx' \subseteq Positions /\ \A p \in DOMAIN idx' : idx'[p] \in Entry /\ Paired(p)'
    BY DEF Abort, IInv, Types, Paired
<1>3. faults' \in 0 .. MaxFaults
    BY DEF Abort, IInv, Types, FileStoreAssumption
<1>4. Types'
    BY <1>1, <1>2, <1>3 DEF Abort, IInv, Types
<1>5. Told' /\ Handed' /\ OneFilePerPosition'
  <2>1. \A b \in Archives : w'[b] = w[b] \/ w'[b] = Idle
      BY DEF Abort, IInv, Types
  <2> QED
      BY <2>1, FewerFiles DEF Abort, IInv, Types
<1> QED
    BY <1>4, <1>5 DEF IInv

\* A reclaim begun: its order is the placement's positions, the other way round.
LEMMA StartReclaimKeeps ==
  ASSUME FileStoreAssumption, IInv, NEW a \in Archives, StartReclaim(a)
  PROVE  IInv'
<1>1. placed[a] \in [1 .. Len(Kinds) -> Positions] /\ Len(Kinds) \in Nat
    BY DEF StartReclaim, IInv, Types, Maps, FileStoreAssumption
<1>2. RemovalOrder(placed[a]) \in Seq(Positions)
  <2>1. Len(placed[a]) = Len(Kinds) /\ placed[a] \in Seq(Positions)
      BY <1>1
  <2>2. \A i \in 1 .. Len(Kinds) : (Len(Kinds) - i) + 1 \in 1 .. Len(Kinds)
      BY <1>1
  <2>3. RemovalOrder(placed[a]) \in [1 .. Len(Kinds) -> Positions]
      BY <1>1, <2>1, <2>2 DEF RemovalOrder, Reverse
  <2> QED
      BY <1>1, <2>3
<1>3. Types'
    BY <1>2 DEF StartReclaim, IInv, Types, Paired
<1>4. Told' /\ Handed' /\ OneFilePerPosition'
    BY FewerFiles DEF StartReclaim, IInv, Types
<1> QED
    BY <1>3, <1>4 DEF IInv

\* A reclaim's removal: fewer files, fewer entries, one position less to take.
LEMMA ReclaimFileKeeps ==
  ASSUME FileStoreAssumption, IInv, ReclaimFile
  PROVE  IInv'
<1>1. /\ objs' \subseteq objs /\ torn' \subseteq objs' /\ torn' \subseteq torn
      /\ objs' \ torn' \subseteq objs \ torn /\ DOMAIN idx' \subseteq DOMAIN idx
      /\ \A q \in DOMAIN idx' : idx'[q] = idx[q]
    BY RemovalFacts DEF ReclaimFile, IInv
<1>2. rec' \in [ar : Archives \cup {None}, rest : Seq(Positions)]
  <2>1. rec \in [ar : Archives \cup {None}, rest : Seq(Positions)] /\ rec.rest # <<>>
      BY DEF ReclaimFile, IInv, Types
  <2>2. Tail(rec.rest) \in Seq(Positions)
      BY <2>1
  <2>3. rec' = [ar |-> rec.ar, rest |-> Tail(rec.rest)]
      BY <2>1 DEF ReclaimFile
  <2> QED
      BY <2>1, <2>2, <2>3
<1>3. Types'
  <2>1. /\ UNCHANGED <<cloud, toc, starts, up, next, w, placed, doomed, faults, cuts, mixed>>
        /\ swept' = FALSE
      BY DEF ReclaimFile
  <2>2. /\ objs' \subseteq Keys /\ \A o \in torn' : o.half = "hdr"
        /\ DOMAIN idx' \subseteq Positions
      BY <1>1 DEF IInv, Types
  <2>3. \A p \in DOMAIN idx' : idx'[p] \in Entry /\ Paired(p)'
      BY <1>1 DEF IInv, Types, Paired
  <2> QED
      BY <1>1, <1>2, <2>1, <2>2, <2>3 DEF IInv, Types
<1>4. Told' /\ Handed' /\ OneFilePerPosition'
    BY <1>1, FewerFiles DEF ReclaimFile, IInv, Types
<1> QED
    BY <1>3, <1>4 DEF IInv

\* A sweep's removal: fewer files, fewer entries, one position less to take.
LEMMA SweepFileKeeps ==
  ASSUME FileStoreAssumption, IInv, SweepFile
  PROVE  IInv'
<1>1. /\ objs' \subseteq objs /\ torn' \subseteq objs' /\ torn' \subseteq torn
      /\ objs' \ torn' \subseteq objs \ torn /\ DOMAIN idx' \subseteq DOMAIN idx
      /\ \A q \in DOMAIN idx' : idx'[q] = idx[q]
    BY RemovalFacts DEF SweepFile, IInv
<1>2. Types'
    BY <1>1 DEF SweepFile, IInv, Types, Paired
<1>3. Told' /\ Handed' /\ OneFilePerPosition'
    BY <1>1, FewerFiles DEF SweepFile, IInv, Types
<1> QED
    BY <1>2, <1>3 DEF IInv

\* The steps that touch neither the medium nor the handle's writers and index.
LEMMA CatalogStepsKeep ==
  ASSUME FileStoreAssumption, IInv,
         Unplace \/ ReclaimFails \/ StartSweep \/ SweepRefused \/ LoseCatalog
  PROVE  IInv'
<1>1. UNCHANGED <<cloud, objs, torn, up, next, idx, w, toc, starts>>
    BY DEF Unplace, ReclaimFails, StartSweep, SweepRefused, LoseCatalog
<1>2. placed' \in [Archives -> Maps]
    BY DEF Unplace, ReclaimFails, StartSweep, SweepRefused, LoseCatalog, IInv, Types, Maps
<1>3. rec' \in [ar : Archives \cup {None}, rest : Seq(Positions)]
  <2>1. rec' = rec \/ rec' = NoReclaim
      BY DEF Unplace, ReclaimFails, StartSweep, SweepRefused, LoseCatalog
  <2> QED
      BY <2>1, NoReclaimIsWell DEF IInv, Types
<1>4. doomed' \subseteq Positions
    BY DEF Unplace, ReclaimFails, StartSweep, SweepRefused, LoseCatalog, IInv, Types,
           OrphanFiles, FilesExcept, IncompleteFiles
<1>5. swept' \in BOOLEAN /\ mixed' \in BOOLEAN
    BY DEF Unplace, ReclaimFails, StartSweep, SweepRefused, LoseCatalog, IInv, Types
<1>6. faults' \in 0 .. MaxFaults /\ cuts' \in 0 .. MaxCuts
    BY DEF Unplace, ReclaimFails, StartSweep, SweepRefused, LoseCatalog, IInv, Types,
           FileStoreAssumption
<1>7. Types'
    BY <1>1, <1>2, <1>3, <1>4, <1>5, <1>6 DEF IInv, Types, Paired
<1>8. Told' /\ Handed' /\ OneFilePerPosition'
    BY <1>1, FewerFiles DEF IInv, Types
<1> QED
    BY <1>7, <1>8 DEF IInv

\* A crash: no handle, no writers, at most one payload less.
LEMMA CrashKeeps ==
  ASSUME FileStoreAssumption, IInv, Crash
  PROVE  IInv'
<1>1. PICK lost : /\ lost \in {{}} \cup {{idx[p].pay} : p \in DOMAIN idx}
                  /\ objs' = objs \ lost
    BY DEF Crash
<1>2. torn' \subseteq objs' /\ torn' = torn
  <2>1. \A o \in torn : o \in Keys /\ o.half = "hdr"
      BY DEF IInv, Types
  <2>2. \A o \in lost : o = NoKey \/ o.half = "payload"
      BY <1>1 DEF IInv, Types, Paired
  <2>3. \A o \in Keys : o # NoKey
      BY DEF Keys, NoKey, Key, Positions
  <2>4. torn' = torn
      BY DEF Crash
  <2> QED
      BY <1>1, <2>1, <2>2, <2>3, <2>4 DEF IInv, Types
<1>3. w' = [a \in Archives |-> Idle] /\ up' = FALSE /\ next' = 0 /\ idx' = <<>> /\ toc' = toc
      /\ rec' = NoReclaim /\ doomed' = {}
    BY DEF Crash
<1>4. w' \in [Archives -> Writers] /\ \A b \in Archives : Counted(w'[b])
    BY <1>3, IdleIsWell
<1>5. faults' \in 0 .. MaxFaults /\ cuts' \in 0 .. MaxCuts /\ mixed' \in BOOLEAN
    BY DEF Crash, IInv, Types, FileStoreAssumption
<1>6. rec' \in [ar : Archives \cup {None}, rest : Seq(Positions)]
    BY <1>3, NoReclaimIsWell
<1>7. Types'
  <2>1. next' \in 0 .. MaxPos + 1 /\ DOMAIN idx' = {} /\ objs' \subseteq Keys
      BY <1>1, <1>3 DEF IInv, Types, FileStoreAssumption
  <2>2. UNCHANGED <<cloud, starts, placed>> /\ swept' = FALSE
      BY DEF Crash
  <2> QED
      BY <1>2, <1>3, <1>4, <1>5, <1>6, <2>1, <2>2 DEF IInv, Types
<1>8. Told'
    BY <1>1, <1>2, <1>3 DEF IInv, Told
<1>9. Handed'
    BY <1>3 DEF Handed, Idle, InFlight
<1>10. OneFilePerPosition'
    BY <1>1 DEF IInv, OneFilePerPosition
<1> QED
    BY <1>7, <1>8, <1>9, <1>10 DEF IInv

\* A rebuild: an archive with a footer is placed where it was sighted or its footer tells.
LEMMA RebuildKeeps ==
  ASSUME FileStoreAssumption, IInv, NEW full \in BOOLEAN, Rebuild(full)
  PROVE  IInv'
<1> DEFINE files == FilesExcept({})
           at(a, i) == IF Sighted(files, a, Kinds[i]) # {}
                       THEN Located(files, a, Kinds[i]) ELSE toc[a][i]
<1>1. placed' = [a \in Archives |->
                   IF Sighted(files, a, Footer) # {} THEN [i \in DOMAIN Kinds |-> at(a, i)]
                   ELSE IF full THEN <<>> ELSE placed[a]]
    BY DEF Rebuild
<1>2. DOMAIN Kinds = 1 .. Len(Kinds) /\ files \subseteq Positions
    BY DEF FileStoreAssumption, FilesExcept, IInv, Types
<1>3. ASSUME NEW a \in Archives, Sighted(files, a, Footer) # {}
      PROVE  [i \in DOMAIN Kinds |-> at(a, i)] \in [1 .. Len(Kinds) -> Positions]
  <2>1. PICK p \in files : idx[p].hdr.ar = a /\ idx[p].hdr.kind = Footer
      BY <1>3 DEF Sighted
  <2>2. idx[p].hdr \in objs \ torn /\ idx[p].hdr # NoKey /\ p \in DOMAIN idx
      BY <2>1 DEF FilesExcept, Incomplete
  <2>3. idx[p].hdr.half = "hdr"
      BY <2>2 DEF IInv, Types, Paired
  <2>4. toc[a] # <<>>
      BY <2>1, <2>2, <2>3 DEF IInv, Told
  <2>5. toc[a] \in [1 .. Len(Kinds) -> Positions]
      BY <2>4 DEF IInv, Types, Maps
  <2>6. ASSUME NEW i \in DOMAIN Kinds PROVE at(a, i) \in Positions
    <3>1. CASE Sighted(files, a, Kinds[i]) # {}
      <4>1. Sighted(files, a, Kinds[i]) \in SUBSET (0 .. MaxPos)
          BY <1>2 DEF Sighted, Positions
      <4>2. Located(files, a, Kinds[i]) \in Sighted(files, a, Kinds[i])
          BY <3>1, <4>1, LargestPosition DEF Located, FileStoreAssumption
      <4> QED
          BY <3>1, <4>1, <4>2 DEF Positions
    <3>2. CASE Sighted(files, a, Kinds[i]) = {}
        BY <1>2, <2>5, <3>2
    <3> QED
        BY <3>1, <3>2
  <2> HIDE DEF at
  <2> QED
      BY <1>2, <2>6
<1>4. placed' \in [Archives -> Maps]
  <2> HIDE DEF files, at
  <2> QED
      BY <1>1, <1>3 DEF IInv, Types, Maps
<1>5. Types'
    BY <1>4 DEF Rebuild, IInv, Types, Paired
<1>6. Told' /\ Handed' /\ OneFilePerPosition'
    BY FewerFiles DEF Rebuild, IInv, Types
<1> QED
    BY <1>5, <1>6 DEF IInv

-----------------------------------------------------------------------------
\* It holds at the start, and through every step.

\* At the start nothing is stored or in hand.
LEMMA InitHolds ==
  ASSUME FileStoreAssumption, Init PROVE IInv
<1>1. Types
  <2>1. next \in 0 .. MaxPos + 1 /\ DOMAIN idx = {}
      BY DEF Init, FileStoreAssumption
  <2>2. faults \in 0 .. MaxFaults /\ cuts \in 0 .. MaxCuts /\ starts \in 0 .. MaxStarts
      BY DEF Init, FileStoreAssumption
  <2>3. w \in [Archives -> Writers] /\ \A a \in Archives : Counted(w[a])
      BY IdleIsWell DEF Init
  <2>4. toc \in [Archives -> Maps] /\ placed \in [Archives -> Maps]
      BY DEF Init, Maps
  <2> QED
      BY <2>1, <2>2, <2>3, <2>4, NoReclaimIsWell DEF Init, Types
<1> QED
    BY <1>1 DEF Init, IInv, Told, Handed, InFlight, Idle, OneFilePerPosition

\* Every step keeps it.
LEMMA StepsKeep ==
  ASSUME FileStoreAssumption, IInv, [Next]_vars PROVE IInv'
<1>1. CASE UNCHANGED vars
    BY <1>1 DEF vars, IInv, Types, Paired, Told, Handed, InFlight, OneFilePerPosition
<1>2. CASE Next
    BY <1>2, OpenKeeps, ReclaimFileKeeps, CatalogStepsKeep, SweepFileKeeps, CrashKeeps,
       RebuildKeeps, AppendFileKeeps, CloseKeeps, SidecarKeeps, RecordKeeps, AbortKeeps,
       StartReclaimKeeps DEF Next
<1> QED
    BY <1>1, <1>2

-----------------------------------------------------------------------------
\* The second invariant: what can be read, and whose it is.  It holds until the history
\* variable says that two archives' positions were mixed.

\* Where an archive's files of one kind can be read, and where its footers are that no
\* sweep is about to take.
Spots(a, k) == {p \in Positions : Readable(p, a, k)}
Feet(a) == Spots(a, Footer) \ doomed

\* The placement's footer is still where it says.
Fresh(a) == placed[a] # <<>> /\ Last(placed[a]) \in Spots(a, Footer)

\* The index knows every file that can be read, and what it knows is stored; a reservation
\* belongs to an append in flight.
Full(p, a, k) == [run |-> RunOf[a], pay |-> Key(p, a, k, "payload"), hdr |-> Key(p, a, k, "hdr")]
Entered(p) ==
    /\ idx[p].pay # NoKey => idx[p].pay \in objs /\ idx[p].run = RunOf[idx[p].pay.ar]
    /\ idx[p].hdr # NoKey => idx[p].hdr \in objs /\ idx[p].run = RunOf[idx[p].hdr.ar]
    /\ idx[p].pay = NoKey /\ idx[p].hdr = NoKey =>
         \E a \in Archives : InFlight(a) /\ w[a].pos = p
Mirror == up =>
    /\ \A a \in Archives, k \in Range(Kinds) : \A p \in Spots(a, k) :
         p \in DOMAIN idx /\ idx[p] = Full(p, a, k)
    /\ \A p \in DOMAIN idx : Entered(p)
    /\ \A o \in objs : o.pos \in DOMAIN idx =>
         \/ o = idx[o.pos].pay \/ o = idx[o.pos].hdr
         \/ \E a \in Archives : InFlight(a) /\ w[a].pos = o.pos

\* An append in flight has its reservation, what it stored is there, its header does not
\* parse yet, and its position is past every other file of the archive.
Reservation(a) == [run |-> RunOf[a], pay |-> NoKey, hdr |-> NoKey]
Reserves(a) ==
    /\ w[a].pos \in DOMAIN idx /\ idx[w[a].pos] = Reservation(a)
    /\ \A o \in objs : o.pos = w[a].pos /\ o.half = "hdr" => o \in torn
    /\ w[a].st = "header" \/ ~cloud => File(a, "payload") \in objs
    /\ \A k \in Range(Kinds) : \A q \in Spots(a, k) : q < w[a].pos
Reserve == \A a \in Archives : InFlight(a) => Reserves(a)

\* An archive being written is placed nowhere and neither reclaimed nor swept; its files so
\* far are there, the latest of their kinds, and no placement names their positions.
Works(a) ==
    /\ placed[a] = <<>> /\ rec.ar # a /\ doomed = {}
    /\ \A i \in DOMAIN w[a].got :
         /\ w[a].got[i] \in Spots(a, Kinds[i])
         /\ \A q \in Spots(a, Kinds[i]) : q <= w[a].got[i]
    /\ \A c \in Archives : \A p \in Range(placed[c]) :
         p \notin Range(w[a].got) /\ (InFlight(a) => p # w[a].pos)
Work == \A a \in Archives : w[a].st # "idle" => Works(a)

\* A placement whose footer is there names the latest file of each kind, and no placement
\* names the position of another archive's file.
Hold ==
    /\ \A a \in Archives : Fresh(a) => \A i \in DOMAIN Kinds :
         /\ placed[a][i] \in Spots(a, Kinds[i])
         /\ \A q \in Spots(a, Kinds[i]) : q <= placed[a][i]
    /\ \A a \in Archives : \A p \in Range(placed[a]) : \A o \in objs : o.pos = p => o.ar = a

\* A sweep runs alone, takes nothing that can be read where a placement says, and where it
\* takes a footer it leaves a later one.
Sweep == doomed # {} =>
    /\ up /\ rec = NoReclaim /\ \A a \in Archives : w[a].st = "idle"
    /\ \A a \in Archives, k \in Range(Kinds) : Spots(a, k) \cap doomed \cap KnownPositions = {}
    /\ \A a \in Archives : Spots(a, Footer) \cap doomed # {} => Feet(a) # {}

\* A reclaim takes the footer first.
Reclaim ==
    /\ rec.ar = None => rec = NoReclaim
    /\ \A a \in Archives : rec.ar = a =>
         /\ up /\ placed[a] # <<>> /\ Range(rec.rest) \subseteq Range(placed[a])
         /\ Fresh(a) => rec.rest # <<>> /\ Head(rec.rest) = Last(placed[a])

\* Each footer has files of its own: later footers have later ones, a placement names its
\* footer's, and what a placement without its footer names is nobody's.
Owns(a, own) ==
    /\ \A f \in Feet(a) : own[f][Len(Kinds)] = f
    /\ \A f \in Feet(a), i \in DOMAIN Kinds :
          own[f][i] \in Spots(a, Kinds[i]) /\ own[f][i] \notin doomed
    /\ \A f, g \in Feet(a) : f < g => \A i \in DOMAIN Kinds : own[f][i] < own[g][i]
    /\ Fresh(a) => own[Last(placed[a])] = placed[a]
    /\ placed[a] # <<>> /\ ~Fresh(a) =>
         \A f \in Feet(a), i \in DOMAIN Kinds : own[f][i] \notin Range(placed[a])
    /\ w[a].st # "idle" => \A f \in Feet(a) :
         \/ w[a].st = "done" /\ own[f] = w[a].got
         \/ \A i \in DOMAIN w[a].got : own[f][i] # w[a].got[i]
Owned == \A a \in Archives :
    \E own \in [Positions -> [DOMAIN Kinds -> Positions]] : Owns(a, own)

\* Until a reclaim is cut short a placement outlives its footer only under a reclaim.
Live == cuts = 0 => \A a \in Archives : placed[a] # <<>> /\ rec.ar # a => Fresh(a)

\* A sweep has yet to take whatever it shall not leave.
Debris == swept => \A o \in objs :
    \/ Committed(o.ar) \/ placed[o.ar] # <<>> \/ o.pos \in KnownPositions
    \/ \E t \in torn : t.pos = o.pos
    \/ o.pos \notin DOMAIN idx \/ o.pos \in doomed

Safe == Mirror /\ Reserve /\ Work /\ Hold /\ Sweep /\ Reclaim /\ Owned /\ Live /\ Debris
SInv == IInv /\ (~mixed => Safe)

-----------------------------------------------------------------------------
\* Facts about the files that can be read.

\* The kinds of file, no two alike, the footer's the last of them.
LEMMA KindFacts ==
  ASSUME FileStoreAssumption
  PROVE  /\ Len(Kinds) \in Nat \ {0} /\ DOMAIN Kinds = 1 .. Len(Kinds)
         /\ Len(Kinds) \in DOMAIN Kinds /\ Footer = Kinds[Len(Kinds)] /\ Footer \in Range(Kinds)
         /\ \A i \in DOMAIN Kinds : Kinds[i] \in Range(Kinds)
         /\ \A k \in Range(Kinds) : \E i \in DOMAIN Kinds : k = Kinds[i]
         /\ \A i, j \in DOMAIN Kinds : Kinds[i] = Kinds[j] => i = j
  BY DEF FileStoreAssumption, Footer, Range

\* Two archives or kinds have no position in common, and none is past the handle's next.
LEMMA SpotFacts ==
  ASSUME IInv
  PROVE  /\ \A a \in Archives, k \in Range(Kinds) : \A p \in Spots(a, k) :
              /\ p \in Positions /\ p \in Nat
              /\ Key(p, a, k, "payload") \in objs /\ Key(p, a, k, "hdr") \in objs \ torn
              /\ up => p < next
              /\ \A o \in objs : o.pos = p => o.ar = a /\ o.kind = k
         /\ \A a, b \in Archives, k, j \in Range(Kinds) : \A p \in Spots(a, k) :
              p \in Spots(b, j) => a = b /\ k = j
<1>1. ASSUME NEW a \in Archives, NEW k \in Range(Kinds), NEW p \in Spots(a, k)
      PROVE  /\ p \in Positions /\ p \in Nat
             /\ Key(p, a, k, "payload") \in objs /\ Key(p, a, k, "hdr") \in objs \ torn
             /\ up => p < next
             /\ \A o \in objs : o.pos = p => o.ar = a /\ o.kind = k
  <2>1. /\ p \in Positions /\ Key(p, a, k, "payload") \in objs
        /\ Key(p, a, k, "hdr") \in objs \ torn
      BY DEF Spots, Readable
  <2>2. /\ Key(p, a, k, "payload").pos = p /\ Key(p, a, k, "payload").ar = a
        /\ Key(p, a, k, "payload").kind = k
      BY DEF Key
  <2>3. up => p < next
      BY <2>1, <2>2 DEF IInv, Handed
  <2>4. \A o \in objs : o.pos = p => o.ar = a /\ o.kind = k
      BY <2>1, <2>2 DEF IInv, OneFilePerPosition
  <2> QED
      BY <2>1, <2>3, <2>4 DEF Positions
<1>2. ASSUME NEW a \in Archives, NEW b \in Archives, NEW k \in Range(Kinds),
             NEW j \in Range(Kinds), NEW p \in Spots(a, k), p \in Spots(b, j)
      PROVE  a = b /\ k = j
  <2>1. Key(p, a, k, "payload") \in objs
      BY <1>1
  <2>2. /\ Key(p, a, k, "payload").pos = p /\ Key(p, a, k, "payload").ar = a
        /\ Key(p, a, k, "payload").kind = k
      BY DEF Key
  <2> QED
      BY <1>1, <1>2, <2>1, <2>2
<1> QED
    BY <1>1, <1>2

\* What is stored under the same names parses to the same files.
LEMMA SameSpots ==
  ASSUME UNCHANGED <<objs, torn>>
  PROVE  \A a \in Archives, k \in Range(Kinds) : Spots(a, k)' = Spots(a, k)
  BY DEF Spots, Readable

\* A placement's positions, one per kind.
LEMMA PlacedFacts ==
  ASSUME FileStoreAssumption, Types, NEW a \in Archives, placed[a] # <<>>
  PROVE  /\ placed[a] \in [DOMAIN Kinds -> Positions] /\ placed[a] \in Seq(Positions)
         /\ Len(placed[a]) = Len(Kinds) /\ Last(placed[a]) = placed[a][Len(Kinds)]
         /\ Last(placed[a]) \in Range(placed[a]) /\ Last(placed[a]) \in Positions
         /\ Range(placed[a]) \subseteq Positions
         /\ \A i \in DOMAIN Kinds : placed[a][i] \in Range(placed[a])
         /\ \A p \in Range(placed[a]) : \E i \in DOMAIN Kinds : p = placed[a][i]
<1>1. placed[a] \in [1 .. Len(Kinds) -> Positions] /\ Len(Kinds) \in Nat \ {0}
      /\ DOMAIN Kinds = 1 .. Len(Kinds)
    BY KindFacts DEF Types, Maps
<1>2. placed[a] \in Seq(Positions) /\ Len(placed[a]) = Len(Kinds)
    BY <1>1
<1>3. Last(placed[a]) = placed[a][Len(Kinds)]
    BY <1>2 DEF Last
<1> QED
    BY <1>1, <1>2, <1>3 DEF Range

\* No placement, no positions.
LEMMA RangeOfEmpty == Range(<<>>) = {}
  BY DEF Range

\* A set of numbers that is not empty has a smallest.
LEMMA SmallestPosition ==
  ASSUME NEW S \in SUBSET Nat, S # {}
  PROVE  Min(S) \in S /\ \A k \in S : Min(S) <= k
<1>1. PICK x \in S : \A y \in S : <<y, x>> \notin Below
  <2>1. IsWellFoundedOn(Below, Nat)
      BY NatLessThanWellFounded DEF Below, OpToRel
  <2> QED
      BY <2>1, WFMin
<1>2. ASSUME NEW y \in S PROVE x <= y
  <2>1. <<y, x>> \in Nat \X Nat /\ <<y, x>>[1] = y /\ <<y, x>>[2] = x /\ x \in Nat /\ y \in Nat
      OBVIOUS
  <2>2. ~(y < x)
      BY <1>1, <2>1 DEF Below
  <2> QED
      BY <2>1, <2>2
<1> QED
    BY <1>2 DEF Min

\* The steps that leave every readable file where it is, and nothing else readable.
LEMMA AppendSpots ==
  ASSUME FileStoreAssumption, IInv, NEW a \in Archives, AppendFile(a)
  PROVE  \A b \in Archives, k \in Range(Kinds) : Spots(b, k)' = Spots(b, k)
<1>1. /\ up /\ torn' = torn
      /\ objs' = objs \cup OnOpen(Key(next, a, Kinds[w[a].k + 1], "payload"))
    BY DEF AppendFile, MayStart, IInv, Handed
<1>2. \A o \in objs : o.pos < next /\ o.pos \in Nat
    BY <1>1 DEF IInv, Handed, Types, Keys, Positions
<1>3. ASSUME NEW b \in Archives, NEW k \in Range(Kinds), NEW p \in Positions
      PROVE  Readable(p, b, k)' <=> Readable(p, b, k)
  <2>1. Key(p, b, k, "hdr") \in objs' <=> Key(p, b, k, "hdr") \in objs
      BY <1>1 DEF OnOpen, Key
  <2>2. Key(p, b, k, "hdr") \in objs /\ Key(p, b, k, "payload") \in objs'
          => Key(p, b, k, "payload") \in objs
      BY <1>1, <1>2 DEF OnOpen, Key
  <2> QED
      BY <1>1, <2>1, <2>2 DEF Readable
<1> QED
    BY <1>3 DEF Spots

\* A payload closed: its header does not parse yet.
LEMMA CloseSpots ==
  ASSUME FileStoreAssumption, IInv, Reserve, NEW a \in Archives, Close(a)
  PROVE  \A b \in Archives, k \in Range(Kinds) : Spots(b, k)' = Spots(b, k)
<1>1. InFlight(a) /\ File(a, "hdr").pos = w[a].pos /\ File(a, "hdr").half = "hdr"
    BY DEF Close, InFlight, File, Key
<1>2. /\ objs' = objs \cup {File(a, "payload")} \cup OnOpen(File(a, "hdr"))
      /\ torn' = torn \cup OnOpen(File(a, "hdr"))
    BY DEF Close
<1>3. ASSUME NEW b \in Archives, NEW k \in Range(Kinds), NEW p \in Positions
      PROVE  Readable(p, b, k)' <=> Readable(p, b, k)
  <2>1. Key(p, b, k, "hdr") \in objs' \ torn' <=> Key(p, b, k, "hdr") \in objs \ torn
    <3>1. Key(p, b, k, "hdr") # File(a, "payload")
        BY DEF File, Key
    <3>2. File(a, "hdr") \in objs => File(a, "hdr") \in torn
        BY <1>1 DEF Reserve, Reserves
    <3> QED
        BY <1>2, <3>1, <3>2 DEF OnOpen
  <2>2. ASSUME Key(p, b, k, "hdr") \in objs \ torn
        PROVE  Key(p, b, k, "payload") \in objs' <=> Key(p, b, k, "payload") \in objs
    <3>1. Key(p, b, k, "hdr").pos = p /\ Key(p, b, k, "hdr").half = "hdr"
        BY DEF Key
    <3>2. p # w[a].pos
        BY <1>1, <2>2, <3>1 DEF Reserve, Reserves
    <3>3. Key(p, b, k, "payload") # File(a, "payload") /\ Key(p, b, k, "payload") # File(a, "hdr")
        BY <3>2 DEF File, Key
    <3> QED
        BY <1>2, <3>3 DEF OnOpen
  <2> QED
      BY <2>1, <2>2 DEF Readable
<1> QED
    BY <1>3 DEF Spots

\* A sidecar makes one file readable: the one its writer has in hand.
LEMMA SidecarSpots ==
  ASSUME FileStoreAssumption, IInv, Reserve, NEW a \in Archives, Sidecar(a)
  PROVE  /\ w[a].k \in DOMAIN Kinds /\ w[a].pos \in Positions
         /\ \A k \in Range(Kinds) : k = Kinds[w[a].k] =>
              Spots(a, k)' = Spots(a, k) \cup {w[a].pos}
         /\ \A b \in Archives, k \in Range(Kinds) :
              b # a \/ k # Kinds[w[a].k] => Spots(b, k)' = Spots(b, k)
<1>1. w[a] \in Writers /\ Counted(w[a]) /\ w[a].st = "header" /\ InFlight(a)
    BY DEF Sidecar, IInv, Types, InFlight
<1>2. w[a].k \in DOMAIN Kinds /\ w[a].pos \in Positions
    BY <1>1, KindFacts DEF Writers, Counted
<1>3. /\ objs' = objs \cup {File(a, "hdr")} /\ torn' = torn \ {File(a, "hdr")}
      /\ File(a, "payload") \in objs
    BY <1>1 DEF Sidecar, Reserve, Reserves
<1>4. ASSUME NEW b \in Archives, NEW k \in Range(Kinds), NEW p \in Positions
      PROVE  Readable(p, b, k)' <=>
               Readable(p, b, k) \/ (b = a /\ k = Kinds[w[a].k] /\ p = w[a].pos)
  <2>1. Key(p, b, k, "hdr") = File(a, "hdr") <=> b = a /\ k = Kinds[w[a].k] /\ p = w[a].pos
      BY DEF File, Key
  <2>2. Key(p, b, k, "payload") # File(a, "hdr")
      BY DEF File, Key
  <2>3. b = a /\ k = Kinds[w[a].k] /\ p = w[a].pos => Key(p, b, k, "payload") \in objs
      BY <1>3 DEF File
  <2> QED
      BY <1>3, <2>1, <2>2, <2>3 DEF Readable
<1>5. Kinds[w[a].k] \in Range(Kinds)
    BY <1>2, KindFacts
<1>6. ASSUME NEW k \in Range(Kinds), k = Kinds[w[a].k]
      PROVE  Spots(a, k)' = Spots(a, k) \cup {w[a].pos}
  <2>1. \A p \in Positions : Readable(p, a, k)' <=> Readable(p, a, k) \/ p = w[a].pos
      BY <1>4, <1>6
  <2> QED
      BY <1>2, <2>1 DEF Spots
<1>7. ASSUME NEW b \in Archives, NEW k \in Range(Kinds), b # a \/ k # Kinds[w[a].k]
      PROVE  Spots(b, k)' = Spots(b, k)
    BY <1>4, <1>7 DEF Spots
<1> QED
    BY <1>2, <1>6, <1>7

\* No stored key is the absent one.
LEMMA StoredIsKey ==
  ASSUME Types, NEW o \in objs
  PROVE  o \in Keys /\ o # NoKey /\ o.pos \in Positions /\ o.pos \in Nat /\ o.ar \in Archives
         /\ o.kind \in Range(Kinds) /\ o.half \in Halves
         /\ o = Key(o.pos, o.ar, o.kind, o.half)
<1>1. o \in Keys
    BY DEF Types
<1> QED
    BY <1>1 DEF Keys, NoKey, Key, Positions

\* What a removal at a position of the index takes is of that position, or in no entry.
LEMMA RemovedWhere ==
  ASSUME FileStoreAssumption, IInv, Mirror, Reserve, up, NEW p \in DOMAIN idx,
         \A b \in Archives : InFlight(b) => w[b].pos # p,
         NEW o \in RemovedBy(p) \cap objs, o.pos \in DOMAIN idx
  PROVE  o.pos = p
<1>1. o \in Keys /\ o # NoKey /\ o.ar \in Archives
    BY StoredIsKey DEF IInv
<1>2. CASE \A q \in DOMAIN idx \ {p} : idx[q].run # idx[p].run
  <2>1. RunOf[o.ar] = idx[p].run
      BY <1>2 DEF RemovedBy, RemoveTree
  <2>2. CASE o = idx[o.pos].pay
      BY <1>1, <1>2, <2>1, <2>2 DEF Mirror, Entered
  <2>3. CASE o = idx[o.pos].hdr
      BY <1>1, <1>2, <2>1, <2>3 DEF Mirror, Entered
  <2>4. CASE \E a \in Archives : InFlight(a) /\ w[a].pos = o.pos
    <3>1. PICK a \in Archives : InFlight(a) /\ w[a].pos = o.pos
        BY <2>4
    <3>2. o.ar = a
        BY <3>1 DEF IInv, Handed
    <3>3. idx[o.pos] = Reservation(a)
        BY <3>1 DEF Reserve, Reserves
    <3>4. idx[o.pos].run = RunOf[a]
        BY <3>3 DEF Reservation
    <3> QED
        BY <1>2, <2>1, <3>2, <3>4
  <2> QED
      BY <2>2, <2>3, <2>4 DEF Mirror
<1>3. CASE ~ \A q \in DOMAIN idx \ {p} : idx[q].run # idx[p].run
  <2>1. o = idx[p].pay \/ o = idx[p].hdr
      BY <1>3 DEF RemovedBy
  <2> QED
      BY <1>1, <2>1 DEF IInv, Types, Paired
<1> QED
    BY <1>2, <1>3

\* A removal takes one file off the medium, and beside it only partials no index lists.
LEMMA RemovalEffect ==
  ASSUME FileStoreAssumption, IInv, Mirror, Reserve, up, NEW p, RemoveFile(p),
         \A b \in Archives : InFlight(b) => w[b].pos # p
  PROVE  /\ \A a \in Archives, k \in Range(Kinds) : Spots(a, k)' = Spots(a, k) \ {p}
         /\ objs' \subseteq objs
         /\ \A o \in objs : o.pos # p /\ o.pos \in DOMAIN idx => o \in objs'
         /\ \A o \in objs' : o \in torn <=> o \in torn'
         /\ DOMAIN idx' = DOMAIN idx \ {p}
         /\ \A q \in DOMAIN idx' : idx'[q] = idx[q]
<1>1. CASE p \notin DOMAIN idx
  <2>1. UNCHANGED <<objs, torn, idx>>
      BY <1>1 DEF RemoveFile
  <2>2. \A a \in Archives, k \in Range(Kinds) : p \notin Spots(a, k)
      BY <1>1 DEF Mirror
  <2> QED
      BY <1>1, <2>1, <2>2, SameSpots
<1>2. CASE p \in DOMAIN idx
  <2>1. /\ objs' = objs \ RemovedBy(p) /\ torn' = torn \ RemovedBy(p)
        /\ idx' = [q \in DOMAIN idx \ {p} |-> idx[q]]
      BY <1>2 DEF RemoveFile
  <2>2. \A o \in objs : o.pos # p /\ o.pos \in DOMAIN idx => o \in objs'
      BY <1>2, <2>1, RemovedWhere
  <2>3. ASSUME NEW a \in Archives, NEW k \in Range(Kinds)
        PROVE  Spots(a, k)' = Spots(a, k) \ {p}
    <3>1. ASSUME NEW q \in Positions, q # p PROVE Readable(q, a, k)' <=> Readable(q, a, k)
      <4>1. ASSUME Readable(q, a, k) PROVE Readable(q, a, k)'
        <5>1. /\ q \in DOMAIN idx /\ Key(q, a, k, "payload") \in objs
              /\ Key(q, a, k, "hdr") \in objs \ torn
            BY <4>1 DEF Mirror, Readable, Spots
        <5>2. Key(q, a, k, "payload").pos = q /\ Key(q, a, k, "hdr").pos = q
            BY DEF Key
        <5>3. Key(q, a, k, "payload") \in objs' /\ Key(q, a, k, "hdr") \in objs' \ torn'
            BY <2>1, <2>2, <3>1, <5>1, <5>2
        <5> QED
            BY <5>3 DEF Readable
      <4>2. Readable(q, a, k)' => Readable(q, a, k)
          BY <2>1 DEF Readable
      <4> QED
          BY <4>1, <4>2
    <3>2. ~ Readable(p, a, k)'
      <4> SUFFICES ASSUME Readable(p, a, k)' PROVE FALSE
          OBVIOUS
      <4>1. /\ Key(p, a, k, "payload") \in objs /\ Key(p, a, k, "hdr") \in objs \ torn
            /\ Key(p, a, k, "payload") \notin RemovedBy(p)
          BY <2>1 DEF Readable
      <4>2. idx[p] = Full(p, a, k)
          BY <1>2, <4>1 DEF Mirror, Readable, Spots, IInv, Types
      <4>3. /\ idx[p].run = RunOf[a] /\ idx[p].pay = Key(p, a, k, "payload")
            /\ Key(p, a, k, "payload").ar = a
          BY <4>2 DEF Full, Key
      <4>4. CASE \A q \in DOMAIN idx \ {p} : idx[q].run # idx[p].run
          BY <4>1, <4>3, <4>4 DEF RemovedBy, RemoveTree
      <4>5. CASE ~ \A q \in DOMAIN idx \ {p} : idx[q].run # idx[p].run
          BY <4>1, <4>3, <4>5 DEF RemovedBy
      <4> QED
          BY <4>4, <4>5
    <3> QED
        BY <3>1, <3>2 DEF Spots
  <2> QED
      BY <2>1, <2>2, <2>3
<1> QED
    BY <1>1, <1>2

\* A crash takes at most the payload at the position it was removing.
LEMMA CrashEffect ==
  ASSUME FileStoreAssumption, IInv, Mirror, up, NEW p \in DOMAIN idx,
         objs' = objs \ {idx[p].pay}, torn' = torn
  PROVE  \A a \in Archives, k \in Range(Kinds) : Spots(a, k)' = Spots(a, k) \ {p}
<1> SUFFICES ASSUME NEW a \in Archives, NEW k \in Range(Kinds)
             PROVE  Spots(a, k)' = Spots(a, k) \ {p}
    OBVIOUS
<1>1. ASSUME NEW q \in Positions, q # p PROVE Readable(q, a, k)' <=> Readable(q, a, k)
  <2>1. idx[p].pay = NoKey \/ idx[p].pay.pos = p
      BY DEF IInv, Types, Paired
  <2>2. /\ Key(q, a, k, "payload").pos = q /\ Key(q, a, k, "hdr").pos = q
        /\ NoKey.pos = -1 /\ q # -1
      BY DEF Key, NoKey, Positions
  <2>3. Key(q, a, k, "payload") # idx[p].pay /\ Key(q, a, k, "hdr") # idx[p].pay
      BY <1>1, <2>1, <2>2
  <2> QED
      BY <2>3 DEF Readable
<1>2. ~ Readable(p, a, k)'
  <2> SUFFICES ASSUME Readable(p, a, k)' PROVE FALSE
      OBVIOUS
  <2>1. Readable(p, a, k) /\ Key(p, a, k, "payload") # idx[p].pay
      BY DEF Readable
  <2>2. idx[p] = Full(p, a, k)
      BY <2>1 DEF Mirror, Spots, IInv, Types
  <2> QED
      BY <2>1, <2>2 DEF Full
<1> QED
    BY <1>1, <1>2 DEF Spots

\* A placement names no position an append is about to take.
LEMMA NextIsFree ==
  ASSUME FileStoreAssumption, IInv, Hold, NEW a \in Archives, AppendFile(a), ~mixed',
         placed[a] = <<>>
  PROVE  \A c \in Archives : next \notin Range(placed[c])
<1> SUFFICES ASSUME NEW c \in Archives, next \in Range(placed[c]) PROVE FALSE
    OBVIOUS
<1>1. placed[c] # <<>> /\ c # a
    BY RangeOfEmpty
<1>2. up /\ next \notin StalePositions(c)
    BY <1>1 DEF AppendFile, MayStart, IInv, Handed
<1>3. CASE Fresh(c)
  <2>1. PICK i \in DOMAIN Kinds : next = placed[c][i]
      BY <1>1, PlacedFacts DEF IInv
  <2>2. next \in Spots(c, Kinds[i]) /\ Kinds[i] \in Range(Kinds)
      BY <1>3, <2>1, KindFacts DEF Hold
  <2>3. next < next /\ next \in Nat
      BY <1>2, <2>2, SpotFacts
  <2> QED
      BY <2>3
<1>4. CASE ~Fresh(c)
  <2>1. ~Readable(Last(placed[c]), c, Footer)
      BY <1>1, <1>4, PlacedFacts DEF Fresh, Spots, IInv
  <2> QED
      BY <1>1, <1>2, <2>1 DEF StalePositions
<1> QED
    BY <1>3, <1>4

\* What is fresh follows what can be read and what is placed.
LEMMA SameFresh ==
  ASSUME FileStoreAssumption, NEW a \in Archives, placed'[a] = placed[a],
         Spots(a, Footer)' = Spots(a, Footer)
  PROVE  Fresh(a)' <=> Fresh(a)
  BY DEF Fresh

\* A step after which the same files can be read, placements and sweep are the same, what is
\* new on the medium lies at no placed position, and no writer has a new file.
LEMMA FrameKeeps ==
  ASSUME FileStoreAssumption, Hold, Owned, placed' = placed, doomed' = doomed,
         \A b \in Archives, k \in Range(Kinds) : Spots(b, k)' = Spots(b, k),
         \A o \in objs' : o \in objs \/ \A c \in Archives : o.pos \notin Range(placed[c]),
         \A b \in Archives :
           \/ w'[b].st = "idle" \/ w'[b].got = <<>>
           \/ /\ w[b].st # "idle" /\ w'[b].got = w[b].got
              /\ w'[b].st = "done" <=> w[b].st = "done"
  PROVE  /\ \A b \in Archives : (Fresh(b)' <=> Fresh(b)) /\ Feet(b)' = Feet(b)
         /\ Hold' /\ Owned'
<1>1. \A b \in Archives : (Fresh(b)' <=> Fresh(b)) /\ Feet(b)' = Feet(b)
    BY SameFresh, KindFacts DEF Feet
<1>2. Hold'
  <2>1. \A b \in Archives : Fresh(b) => \A i \in DOMAIN Kinds :
          /\ placed[b][i] \in Spots(b, Kinds[i])'
          /\ \A q \in Spots(b, Kinds[i])' : q <= placed[b][i]
      BY KindFacts DEF Hold
  <2>2. \A b \in Archives : \A p \in Range(placed[b]) : \A o \in objs' : o.pos = p => o.ar = b
      BY DEF Hold
  <2> QED
      BY <1>1, <2>1, <2>2 DEF Hold
<1>3. ASSUME NEW b \in Archives
      PROVE  \E own \in [Positions -> [DOMAIN Kinds -> Positions]] : Owns(b, own)'
  <2>1. PICK own \in [Positions -> [DOMAIN Kinds -> Positions]] : Owns(b, own)
      BY DEF Owned
  <2>2. \A i \in DOMAIN Kinds : Spots(b, Kinds[i])' = Spots(b, Kinds[i])
      BY KindFacts
  <2>3. w'[b].st # "idle" => \A f \in Feet(b) :
          \/ w'[b].st = "done" /\ own[f] = w'[b].got
          \/ \A i \in DOMAIN w'[b].got : own[f][i] # w'[b].got[i]
      BY <2>1 DEF Owns
  <2>4. Owns(b, own)'
      BY <1>1, <2>1, <2>2, <2>3 DEF Owns
  <2> QED
      BY <2>4
<1> QED
    BY <1>1, <1>2, <1>3 DEF Owned

\* The files a writer has stored, of the first kinds.
LEMMA GotFacts ==
  ASSUME FileStoreAssumption, Types, NEW a \in Archives
  PROVE  /\ w[a] \in Writers /\ Counted(w[a]) /\ w[a].got \in Seq(Positions)
         /\ Len(w[a].got) \in Nat /\ DOMAIN w[a].got = 1 .. Len(w[a].got)
         /\ DOMAIN w[a].got \subseteq DOMAIN Kinds
         /\ \A i \in DOMAIN w[a].got :
              Kinds[i] \in Range(Kinds) /\ w[a].got[i] \in Range(w[a].got)
         /\ \A p \in Range(w[a].got) : \E i \in DOMAIN w[a].got : p = w[a].got[i]
<1>1. w[a] \in Writers /\ Counted(w[a])
    BY DEF Types
<1>2. w[a].got \in Seq(Positions) /\ Len(w[a].got) \in Nat /\ DOMAIN w[a].got = 1 .. Len(w[a].got)
    BY <1>1 DEF Writers
<1>3. Len(w[a].got) <= Len(Kinds)
    BY <1>1, <1>2, KindFacts DEF Counted, Writers, Idle
<1>4. DOMAIN w[a].got \subseteq DOMAIN Kinds
    BY <1>2, <1>3, KindFacts
<1> QED
    BY <1>1, <1>2, <1>4, KindFacts DEF Range

\* An append in flight whose place nobody touches keeps it.
LEMMA ReservesKeep ==
  ASSUME Reserve, NEW b \in Archives, InFlight(b), cloud' = cloud,
         w'[b].pos = w[b].pos, w'[b].k = w[b].k, w'[b].st = w[b].st,
         DOMAIN idx \cap {w[b].pos} \subseteq DOMAIN idx',
         w[b].pos \in DOMAIN idx' => idx'[w[b].pos] = idx[w[b].pos],
         \A o \in objs' : o.pos = w[b].pos => o \in objs /\ (o \in torn => o \in torn'),
         File(b, "payload") \in objs => File(b, "payload") \in objs',
         \A k \in Range(Kinds) : Spots(b, k)' \subseteq Spots(b, k)
  PROVE  Reserves(b)'
<1>1. Reserves(b)
    BY DEF Reserve
<1>2. File(b, "payload")' = File(b, "payload")
    BY DEF File
<1>3. \A k \in Range(Kinds) : \A q \in Spots(b, k)' : q < w[b].pos
    BY <1>1 DEF Reserves
<1>4. \A o \in objs' : o.pos = w[b].pos /\ o.half = "hdr" => o \in torn'
    BY <1>1 DEF Reserves
<1>5. w[b].pos \in DOMAIN idx' /\ idx'[w[b].pos] = Reservation(b)
    BY <1>1 DEF Reserves
<1>6. w'[b].st = "header" \/ ~cloud' => File(b, "payload")' \in objs'
    BY <1>1, <1>2 DEF Reserves
<1> QED
    BY <1>3, <1>4, <1>5, <1>6 DEF Reserves

\* A writer that stores nothing, while its files and all placements stay.
LEMMA WorksKeep ==
  ASSUME FileStoreAssumption, IInv, Work, NEW b \in Archives, w[b].st # "idle",
         w'[b].got = w[b].got, InFlight(b)' => InFlight(b) /\ w'[b].pos = w[b].pos,
         placed' = placed, doomed' = doomed, rec'.ar # b,
         \A k \in Range(Kinds) : Spots(b, k)' = Spots(b, k)
  PROVE  Works(b)'
<1>1. Works(b)
    BY DEF Work
<1>2. \A i \in DOMAIN w[b].got : Spots(b, Kinds[i])' = Spots(b, Kinds[i])
    BY GotFacts DEF IInv
<1>3. \A i \in DOMAIN w'[b].got :
        /\ w'[b].got[i] \in Spots(b, Kinds[i])'
        /\ \A q \in Spots(b, Kinds[i])' : q <= w'[b].got[i]
    BY <1>1, <1>2 DEF Works
<1> QED
    BY <1>1, <1>3 DEF Works

\* An append begun: a reservation past everything the index knows.
LEMMA AppendFileSafe ==
  ASSUME FileStoreAssumption, IInv, IInv', Safe, NEW a \in Archives, AppendFile(a), ~mixed'
  PROVE  Safe'
<1> DEFINE new == Key(next, a, Kinds[w[a].k + 1], "payload")
<1>1. /\ w[a].st \in {"idle", "append"} /\ up /\ doomed = {} /\ placed[a] = <<>> /\ rec.ar # a
      /\ w[a].st = "idle" => w[a].got = <<>>
    BY DEF AppendFile, MayStart, IInv, Handed, Types, Counted, Idle, Safe, Work, Works
<1>2. /\ w' = [w EXCEPT ![a].st = "payload", ![a].k = @ + 1, ![a].pos = next]
      /\ w \in [Archives -> Writers] /\ next \in Positions
      /\ objs' = objs \cup OnOpen(new) /\ torn' = torn /\ up' = up /\ cloud' = cloud
      /\ placed' = placed /\ rec' = rec /\ doomed' = doomed /\ swept' = FALSE /\ cuts' = cuts
    BY DEF AppendFile, IInv, Types, Positions, FileStoreAssumption
<1>3. /\ w'[a].st = "payload" /\ w'[a].pos = next /\ w'[a].k = w[a].k + 1
      /\ w'[a].got = w[a].got /\ \A b \in Archives \ {a} : w'[b] = w[b]
    BY <1>2 DEF Writers
<1>4. InFlight(a)' /\ ~InFlight(a) /\ \A b \in Archives \ {a} : InFlight(b)' <=> InFlight(b)
    BY <1>1, <1>3 DEF InFlight
<1>5. \A b \in Archives, k \in Range(Kinds) : Spots(b, k)' = Spots(b, k)
    BY AppendSpots
<1>6. \A o \in objs : o.pos \in Nat /\ o.pos < next
    BY <1>1, StoredIsKey DEF IInv, Handed
<1>7. /\ new.pos = next /\ new.ar = a /\ new.half = "payload"
      /\ \A o \in objs' : o \in objs \/ o = new
    BY <1>2 DEF Key, OnOpen
<1>8. /\ DOMAIN idx' = DOMAIN idx \cup {next} /\ idx'[next] = Reservation(a)
      /\ \A p \in DOMAIN idx \ {next} : idx'[p] = idx[p]
    BY DEF AppendFile, Reserved, Indexed, Reservation
<1>9. \A p \in DOMAIN idx : p \in Nat /\ p < next
  <2> SUFFICES ASSUME NEW p \in DOMAIN idx PROVE p \in Nat /\ p < next
      OBVIOUS
  <2>1. p \in Nat
      BY DEF IInv, Types, Positions
  <2>2. CASE idx[p].pay # NoKey
    <3>1. idx[p].pay \in objs /\ idx[p].pay.pos = p
        BY <1>1, <2>2 DEF Safe, Mirror, Entered, IInv, Types, Paired
    <3> QED
        BY <1>6, <3>1
  <2>3. CASE idx[p].hdr # NoKey
    <3>1. idx[p].hdr \in objs /\ idx[p].hdr.pos = p
        BY <1>1, <2>3 DEF Safe, Mirror, Entered, IInv, Types, Paired
    <3> QED
        BY <1>6, <3>1
  <2>4. CASE idx[p].pay = NoKey /\ idx[p].hdr = NoKey
    <3>1. PICK b \in Archives : InFlight(b) /\ w[b].pos = p
        BY <1>1, <2>4 DEF Safe, Mirror, Entered
    <3> QED
        BY <2>1, <3>1 DEF IInv, Handed
  <2> QED
      BY <2>1, <2>2, <2>3, <2>4
<1>10. \A c \in Archives : next \notin Range(placed[c])
    BY <1>1, NextIsFree DEF Safe
<1>11. /\ \A b \in Archives : (Fresh(b)' <=> Fresh(b)) /\ Feet(b)' = Feet(b)
       /\ Hold' /\ Owned'
  <2>1. \A b \in Archives :
          \/ w'[b].got = <<>>
          \/ /\ w[b].st # "idle" /\ w'[b].got = w[b].got
             /\ w'[b].st = "done" <=> w[b].st = "done"
          \/ w'[b].st = "idle"
      BY <1>1, <1>3
  <2> QED
      BY <1>2, <1>5, <1>7, <1>10, <2>1, FrameKeeps DEF Safe
<1> HIDE DEF new
<1>13. Mirror'
  <2>1. ASSUME NEW b \in Archives, NEW k \in Range(Kinds), NEW p \in Spots(b, k)'
        PROVE  p \in DOMAIN idx' /\ idx'[p] = Full(p, b, k)
    <3>1. p \in Spots(b, k)
        BY <1>5, <2>1
    <3>2. p \in DOMAIN idx /\ idx[p] = Full(p, b, k)
        BY <1>1, <3>1 DEF Safe, Mirror
    <3> QED
        BY <1>8, <1>9, <3>2
  <2>2. ASSUME NEW p \in DOMAIN idx' PROVE Entered(p)'
    <3>1. CASE p = next
        BY <1>3, <1>4, <1>8, <3>1 DEF Entered, Reservation
    <3>2. CASE p # next
      <4>1. p \in DOMAIN idx /\ idx'[p] = idx[p] /\ Entered(p)
          BY <1>1, <1>8, <3>2 DEF Safe, Mirror
      <4>2. objs \subseteq objs'
          BY <1>2
      <4>3. \A b \in Archives : InFlight(b) => InFlight(b)' /\ w'[b].pos = w[b].pos
          BY <1>3, <1>4
      <4> QED
          BY <4>1, <4>2, <4>3 DEF Entered
    <3> QED
        BY <3>1, <3>2
  <2>3. ASSUME NEW o \in objs', o.pos \in DOMAIN idx'
        PROVE  \/ o = idx'[o.pos].pay \/ o = idx'[o.pos].hdr
               \/ \E b \in Archives : InFlight(b)' /\ w'[b].pos = o.pos
    <3>1. CASE o.pos = next
        BY <1>3, <1>4, <3>1
    <3>2. CASE o.pos # next
      <4>1. o \in objs /\ o.pos \in DOMAIN idx /\ idx'[o.pos] = idx[o.pos]
          BY <1>7, <1>8, <2>3, <3>2
      <4>2. \A b \in Archives : InFlight(b) => InFlight(b)' /\ w'[b].pos = w[b].pos
          BY <1>3, <1>4
      <4> QED
          BY <1>1, <4>1, <4>2 DEF Safe, Mirror
    <3> QED
        BY <3>1, <3>2
  <2> QED
      BY <2>1, <2>2, <2>3 DEF Mirror
<1>14. Reserve'
  <2> SUFFICES ASSUME NEW b \in Archives, InFlight(b)' PROVE Reserves(b)'
      BY DEF Reserve
  <2>1. CASE b = a
    <3>1. \A o \in objs' : o.pos = next /\ o.half = "hdr" => o \in torn'
        BY <1>6, <1>7
    <3>2. ~cloud => File(a, "payload")' \in objs'
        BY <1>2, <1>3 DEF File, OnOpen, new
    <3>3. \A k \in Range(Kinds) : \A q \in Spots(a, k)' : q < next
        BY <1>1, <1>5, SpotFacts
    <3> QED
        BY <1>2, <1>3, <1>8, <2>1, <3>1, <3>2, <3>3 DEF Reserves
  <2>2. CASE b # a
    <3>1. InFlight(b) /\ w'[b] = w[b]
        BY <1>3, <1>4, <2>2
    <3>2. w[b].pos \in DOMAIN idx /\ w[b].pos # next
        BY <1>9, <3>1 DEF Safe, Reserve, Reserves
    <3>3. \A o \in objs' : o.pos = w[b].pos => o \in objs /\ (o \in torn => o \in torn')
        BY <1>2, <1>7, <3>2
    <3>4. \A k \in Range(Kinds) : Spots(b, k)' \subseteq Spots(b, k)
        BY <1>5
    <3>5. w[b].pos \in DOMAIN idx' /\ idx'[w[b].pos] = idx[w[b].pos]
        BY <1>8, <3>2
    <3>6. File(b, "payload") \in objs => File(b, "payload") \in objs'
        BY <1>2
    <3> QED
        BY <1>2, <3>1, <3>3, <3>4, <3>5, <3>6, ReservesKeep DEF Safe
  <2> QED
      BY <2>1, <2>2
<1>15. Work'
  <2> SUFFICES ASSUME NEW b \in Archives, w'[b].st # "idle" PROVE Works(b)'
      BY DEF Work
  <2>1. CASE b = a
    <3>1. Works(a) \/ w'[a].got = <<>>
        BY <1>1, <1>3 DEF Safe, Work
    <3>2. \A i \in DOMAIN w[a].got : Spots(a, Kinds[i])' = Spots(a, Kinds[i])
        BY <1>5, GotFacts DEF IInv
    <3>3. \A i \in DOMAIN w'[a].got :
            /\ w'[a].got[i] \in Spots(a, Kinds[i])'
            /\ \A q \in Spots(a, Kinds[i])' : q <= w'[a].got[i]
        BY <1>3, <3>1, <3>2 DEF Works
    <3>4. \A c \in Archives : \A p \in Range(placed[c]) : p \notin Range(w'[a].got)
        BY <1>3, <3>1, RangeOfEmpty DEF Works
    <3> QED
        BY <1>1, <1>2, <1>3, <1>10, <2>1, <3>3, <3>4 DEF Works
  <2>2. CASE b # a
    <3>1. w'[b] = w[b] /\ (InFlight(b)' => InFlight(b))
        BY <1>3, <1>4, <2>2
    <3>2. rec'.ar # b
        BY <1>2, <3>1 DEF Safe, Work, Works
    <3> QED
        BY <1>2, <1>5, <3>1, <3>2, WorksKeep DEF Safe
  <2> QED
      BY <2>1, <2>2
<1>17. Sweep' /\ Live' /\ Debris'
    BY <1>1, <1>2, <1>11 DEF Sweep, Live, Debris, Safe
<1>18. Reclaim'
    BY <1>2, <1>11 DEF Reclaim, Safe
<1> QED
    BY <1>11, <1>13, <1>14, <1>15, <1>17, <1>18 DEF Safe

\* A payload closed: stored at the position reserved, and not readable yet.
LEMMA CloseSafe ==
  ASSUME FileStoreAssumption, IInv, IInv', Safe, NEW a \in Archives, Close(a)
  PROVE  Safe'
<1>1. /\ w[a].st = "payload" /\ InFlight(a) /\ w[a] \in Writers
      /\ placed[a] = <<>> /\ rec.ar # a /\ doomed = {} /\ up
    BY DEF Close, InFlight, IInv, Handed, Types, Safe, Work, Works
<1>2. /\ w' = [w EXCEPT ![a].st = "header"] /\ w \in [Archives -> Writers]
      /\ objs' = objs \cup {File(a, "payload")} \cup OnOpen(File(a, "hdr"))
      /\ torn' = torn \cup OnOpen(File(a, "hdr"))
      /\ up' = up /\ cloud' = cloud /\ idx' = idx
      /\ placed' = placed /\ rec' = rec /\ doomed' = doomed /\ swept' = FALSE /\ cuts' = cuts
    BY DEF Close, IInv, Types
<1>3. /\ w'[a].st = "header" /\ w'[a].pos = w[a].pos /\ w'[a].k = w[a].k
      /\ w'[a].got = w[a].got /\ \A b \in Archives \ {a} : w'[b] = w[b]
    BY <1>2 DEF Writers
<1>4. /\ \A b \in Archives : InFlight(b)' <=> InFlight(b)
      /\ \A b \in Archives : w'[b].pos = w[b].pos /\ w'[b].got = w[b].got
      /\ \A b \in Archives : w'[b].st # "idle" <=> w[b].st # "idle"
    BY <1>1, <1>3 DEF InFlight
<1>5. \A b \in Archives, k \in Range(Kinds) : Spots(b, k)' = Spots(b, k)
    BY CloseSpots DEF Safe
<1>6. /\ \A h : File(a, h).pos = w[a].pos /\ File(a, h).half = h
      /\ \A o \in objs' :
           o \in objs \/ o = File(a, "payload") \/ (o = File(a, "hdr") /\ o \in torn')
      /\ objs \subseteq objs' /\ torn \subseteq torn' /\ File(a, "payload") \in objs'
    BY <1>2 DEF File, Key, OnOpen
<1>7. \A c \in Archives : w[a].pos \notin Range(placed[c])
    BY <1>1 DEF Safe, Work, Works
<1>8. /\ \A b \in Archives : (Fresh(b)' <=> Fresh(b)) /\ Feet(b)' = Feet(b)
      /\ Hold' /\ Owned'
  <2>1. \A b \in Archives :
          \/ w'[b].st = "idle" \/ w'[b].got = <<>>
          \/ /\ w[b].st # "idle" /\ w'[b].got = w[b].got
             /\ w'[b].st = "done" <=> w[b].st = "done"
      BY <1>1, <1>3
  <2>2. \A o \in objs' : o \in objs \/ \A c \in Archives : o.pos \notin Range(placed[c])
      BY <1>6, <1>7
  <2> QED
      BY <1>2, <1>5, <2>1, <2>2, FrameKeeps DEF Safe
<1>9. Mirror'
  <2>1. \A b \in Archives, k \in Range(Kinds) : \A p \in Spots(b, k)' :
          p \in DOMAIN idx' /\ idx'[p] = Full(p, b, k)
      BY <1>1, <1>2, <1>5 DEF Safe, Mirror
  <2>2. ASSUME NEW p \in DOMAIN idx' PROVE Entered(p)'
    <3>1. Entered(p) /\ idx'[p] = idx[p]
        BY <1>1, <1>2 DEF Safe, Mirror
    <3> QED
        BY <1>4, <1>6, <3>1 DEF Entered
  <2>3. ASSUME NEW o \in objs', o.pos \in DOMAIN idx'
        PROVE  \/ o = idx'[o.pos].pay \/ o = idx'[o.pos].hdr
               \/ \E b \in Archives : InFlight(b)' /\ w'[b].pos = o.pos
    <3>1. CASE o.pos = w[a].pos
        BY <1>1, <1>4, <3>1
    <3>2. CASE o.pos # w[a].pos
      <4>1. o \in objs
          BY <1>6, <3>2
      <4> QED
          BY <1>1, <1>2, <1>4, <2>3, <4>1 DEF Safe, Mirror
    <3> QED
        BY <3>1, <3>2
  <2> QED
      BY <2>1, <2>2, <2>3 DEF Mirror
<1>10. Reserve'
  <2> SUFFICES ASSUME NEW b \in Archives, InFlight(b)' PROVE Reserves(b)'
      BY DEF Reserve
  <2>1. \A k \in Range(Kinds) : Spots(b, k)' \subseteq Spots(b, k)
      BY <1>5
  <2>2. CASE b = a
    <3>1. Reserves(a)
        BY <1>1 DEF Safe, Reserve
    <3>2. \A o \in objs' : o.pos = w[a].pos /\ o.half = "hdr" => o \in torn'
        BY <1>6, <3>1 DEF Reserves
    <3>3. File(a, "payload")' \in objs'
        BY <1>3, <1>6 DEF File
    <3>4. \A k \in Range(Kinds) : \A q \in Spots(a, k)' : q < w[a].pos
        BY <2>1, <2>2, <3>1 DEF Reserves
    <3> QED
        BY <1>2, <1>3, <2>2, <3>1, <3>2, <3>3, <3>4 DEF Reserves
  <2>3. CASE b # a
    <3>1. InFlight(b) /\ w'[b] = w[b] /\ w[b].pos # w[a].pos
        BY <1>1, <1>3, <1>4, <2>3 DEF IInv, Handed
    <3>2. \A o \in objs' : o.pos = w[b].pos => o \in objs /\ (o \in torn => o \in torn')
        BY <1>6, <3>1
    <3>3. File(b, "payload") \in objs => File(b, "payload") \in objs'
        BY <1>6
    <3> QED
        BY <1>2, <2>1, <3>1, <3>2, <3>3, ReservesKeep DEF Safe
  <2> QED
      BY <2>2, <2>3
<1>11. Work'
  <2> SUFFICES ASSUME NEW b \in Archives, w'[b].st # "idle" PROVE Works(b)'
      BY DEF Work
  <2>1. rec'.ar # b
      BY <1>2, <1>4 DEF Safe, Work, Works
  <2> QED
      BY <1>2, <1>4, <1>5, <2>1, WorksKeep DEF Safe
<1>12. Sweep' /\ Live' /\ Debris'
    BY <1>1, <1>2, <1>8 DEF Sweep, Live, Debris, Safe
<1>13. Reclaim'
    BY <1>2, <1>8 DEF Reclaim, Safe
<1> QED
    BY <1>8, <1>9, <1>10, <1>11, <1>12, <1>13 DEF Safe

\* A cancelled append: its reservation goes, and its writer.
LEMMA AbortSafe ==
  ASSUME FileStoreAssumption, IInv, IInv', Safe, NEW a \in Archives, Abort(a)
  PROVE  Safe'
<1>1. /\ InFlight(a) /\ doomed = {} /\ up
    BY DEF Abort, InFlight, IInv, Handed, Safe, Work, Works
<1>2. /\ w' = [w EXCEPT ![a] = Idle] /\ w \in [Archives -> Writers]
      /\ idx' = [p \in DOMAIN idx \ {w[a].pos} |-> idx[p]]
      /\ UNCHANGED <<cloud, objs, torn, up, placed, rec, doomed, swept, cuts>>
    BY DEF Abort, IInv, Types
<1>3. /\ w'[a].st = "idle" /\ \A b \in Archives \ {a} : w'[b] = w[b]
      /\ ~InFlight(a)' /\ \A b \in Archives \ {a} : InFlight(b)' <=> InFlight(b)
    BY <1>2 DEF Idle, InFlight
<1>4. \A b \in Archives, k \in Range(Kinds) : Spots(b, k)' = Spots(b, k)
    BY <1>2, SameSpots
<1>5. /\ \A b \in Archives : (Fresh(b)' <=> Fresh(b)) /\ Feet(b)' = Feet(b)
      /\ Hold' /\ Owned'
  <2>1. \A b \in Archives :
          \/ w'[b].st = "idle" \/ w'[b].got = <<>>
          \/ /\ w[b].st # "idle" /\ w'[b].got = w[b].got
             /\ w'[b].st = "done" <=> w[b].st = "done"
      BY <1>3
  <2> QED
      BY <1>2, <1>4, <2>1, FrameKeeps DEF Safe
<1>6. \A b \in Archives, k \in Range(Kinds) : w[a].pos \notin Spots(b, k)
  <2> SUFFICES ASSUME NEW b \in Archives, NEW k \in Range(Kinds), w[a].pos \in Spots(b, k)
               PROVE  FALSE
      OBVIOUS
  <2>1. Key(w[a].pos, b, k, "hdr") \in objs \ torn
      BY SpotFacts
  <2>2. Key(w[a].pos, b, k, "hdr").pos = w[a].pos /\ Key(w[a].pos, b, k, "hdr").half = "hdr"
      BY DEF Key
  <2> QED
      BY <1>1, <2>1, <2>2 DEF Safe, Reserve, Reserves
<1>7. Mirror'
  <2>1. \A b \in Archives, k \in Range(Kinds) : \A p \in Spots(b, k)' :
          p \in DOMAIN idx' /\ idx'[p] = Full(p, b, k)
      BY <1>1, <1>2, <1>4, <1>6 DEF Safe, Mirror
  <2>2. ASSUME NEW p \in DOMAIN idx' PROVE Entered(p)'
    <3>1. Entered(p) /\ idx'[p] = idx[p] /\ p # w[a].pos
        BY <1>1, <1>2 DEF Safe, Mirror
    <3> QED
        BY <1>2, <1>3, <3>1 DEF Entered
  <2>3. \A o \in objs' : o.pos \in DOMAIN idx' =>
          \/ o = idx'[o.pos].pay \/ o = idx'[o.pos].hdr
          \/ \E b \in Archives : InFlight(b)' /\ w'[b].pos = o.pos
      BY <1>1, <1>2, <1>3 DEF Safe, Mirror
  <2> QED
      BY <2>1, <2>2, <2>3 DEF Mirror
<1>8. Reserve'
  <2> SUFFICES ASSUME NEW b \in Archives, InFlight(b)' PROVE Reserves(b)'
      BY DEF Reserve
  <2>1. b # a /\ InFlight(b) /\ w'[b] = w[b] /\ w[b].pos # w[a].pos
      BY <1>1, <1>3 DEF IInv, Handed
  <2>2. \A k \in Range(Kinds) : Spots(b, k)' \subseteq Spots(b, k)
      BY <1>4
  <2> QED
      BY <1>2, <2>1, <2>2, ReservesKeep DEF Safe
<1>9. Work'
  <2> SUFFICES ASSUME NEW b \in Archives, w'[b].st # "idle" PROVE Works(b)'
      BY DEF Work
  <2>1. w[b].st # "idle" /\ w'[b] = w[b] /\ (InFlight(b)' => InFlight(b))
      BY <1>3
  <2>2. rec'.ar # b
      BY <1>2, <2>1 DEF Safe, Work, Works
  <2> QED
      BY <1>2, <1>4, <2>1, <2>2, WorksKeep DEF Safe
<1>10. Sweep' /\ Live'
    BY <1>1, <1>2, <1>5 DEF Sweep, Live, Safe
<1>11. Reclaim'
    BY <1>2, <1>5 DEF Reclaim, Safe
<1>12. Debris'
    BY <1>2 DEF Debris, Safe, Committed, Readable, KnownPositions
<1> QED
    BY <1>5, <1>7, <1>8, <1>9, <1>10, <1>11, <1>12 DEF Safe

\* A sidecar: the file in hand becomes its archive's latest of its kind; with the footer the
\* archive's files are a set of their own.
LEMMA SidecarSafe ==
  ASSUME FileStoreAssumption, IInv, IInv', Safe, NEW a \in Archives, Sidecar(a)
  PROVE  Safe'
<1> DEFINE k == w[a].k
           pos == w[a].pos
           got == w[a].got
<1>1. /\ w[a].st = "header" /\ InFlight(a) /\ ~InFlight(a)' /\ Reserves(a) /\ Works(a) /\ up
      /\ placed[a] = <<>> /\ rec.ar # a /\ doomed = {} /\ w[a] \in Writers
      /\ k = Len(got) + 1
  <2>1. w[a].st = "header" /\ InFlight(a) /\ w[a] \in Writers /\ Counted(w[a]) /\ up
      BY DEF Sidecar, InFlight, IInv, Handed, Types
  <2>2. Reserves(a) /\ Works(a) /\ k = Len(got) + 1
      BY <2>1 DEF Safe, Reserve, Work, Counted
  <2>3. w'[a].st \in {"done", "append"}
      BY DEF Sidecar, IInv, Types, Writers
  <2> QED
      BY <2>1, <2>2, <2>3 DEF Works, InFlight
<1>2. /\ w \in [Archives -> Writers]
      /\ objs' = objs \cup {File(a, "hdr")} /\ torn' = torn \ {File(a, "hdr")}
      /\ up' = up /\ cloud' = cloud
      /\ placed' = placed /\ rec' = rec /\ doomed' = doomed /\ swept' = FALSE /\ cuts' = cuts
    BY DEF Sidecar, IInv, Types
<1>3. /\ w'[a].got = Append(got, pos) /\ \A b \in Archives \ {a} : w'[b] = w[b]
      /\ w'[a].st = IF k = Len(Kinds) THEN "done" ELSE "append"
    BY <1>1, <1>2 DEF Sidecar, Writers
<1>4. \A b \in Archives \ {a} : InFlight(b)' <=> InFlight(b)
    BY <1>3 DEF InFlight
<1>5. /\ k \in DOMAIN Kinds /\ pos \in Positions /\ Kinds[k] \in Range(Kinds)
      /\ \A j \in Range(Kinds) : j = Kinds[k] => Spots(a, j)' = Spots(a, j) \cup {pos}
      /\ \A b \in Archives, j \in Range(Kinds) :
           b # a \/ j # Kinds[k] => Spots(b, j)' = Spots(b, j)
    BY SidecarSpots, KindFacts DEF Safe
<1>6. /\ \A h \in Halves : /\ File(a, h).pos = pos /\ File(a, h).half = h /\ File(a, h).ar = a
                          /\ File(a, h) = Key(pos, a, Kinds[k], h)
      /\ \A o \in objs' : o \in objs \/ o = File(a, "hdr")
      /\ File(a, "payload") \in objs
    BY <1>1, <1>2 DEF File, Key, Reserves
<1>7. \A o \in objs' : o.pos = pos => o = File(a, "payload") \/ o = File(a, "hdr")
  <2> SUFFICES ASSUME NEW o \in objs', o.pos = pos
               PROVE  o = File(a, "payload") \/ o = File(a, "hdr")
      OBVIOUS
  <2>1. CASE o \in objs
    <3>1. o = Key(o.pos, o.ar, o.kind, o.half) /\ o.half \in Halves
        BY <2>1, StoredIsKey DEF IInv
    <3>2. o.ar = a /\ o.kind = Kinds[k]
        BY <1>1, <2>1 DEF IInv, Handed
    <3>3. o.half = "payload" \/ o.half = "hdr"
        BY <3>1 DEF Halves
    <3> QED
        BY <3>1, <3>2, <3>3 DEF File
  <2> QED
      BY <1>6, <2>1
<1>8. /\ DOMAIN idx' = DOMAIN idx \cup {pos} /\ idx'[pos] = Full(pos, a, Kinds[k])
      /\ \A p \in DOMAIN idx \ {pos} : idx'[p] = idx[p]
    BY DEF Sidecar, Indexed, Full, File
<1>9. \A b \in Archives, j \in Range(Kinds) : pos \notin Spots(b, j)
  <2> SUFFICES ASSUME NEW b \in Archives, NEW j \in Range(Kinds), pos \in Spots(b, j)
               PROVE  FALSE
      OBVIOUS
  <2>1. Key(pos, b, j, "hdr") \in objs \ torn
      BY SpotFacts
  <2>2. Key(pos, b, j, "hdr").pos = pos /\ Key(pos, b, j, "hdr").half = "hdr"
      BY DEF Key
  <2> QED
      BY <1>1, <2>1, <2>2 DEF Reserves
<1>10. /\ got \in Seq(Positions) /\ Len(got) \in Nat /\ DOMAIN got = 1 .. Len(got)
       /\ DOMAIN got \subseteq DOMAIN Kinds
       /\ DOMAIN w'[a].got = 1 .. k /\ w'[a].got[k] = pos
       /\ \A i \in DOMAIN got : w'[a].got[i] = got[i] /\ i # k /\ i \in DOMAIN w'[a].got
       /\ \A i \in 1 .. k : i = k \/ i \in DOMAIN got
    BY <1>1, <1>3, <1>5, GotFacts DEF IInv
<1> HIDE DEF k, pos, got
<1>11. \A i \in DOMAIN got : Spots(a, Kinds[i])' = Spots(a, Kinds[i])
    BY <1>5, <1>10, KindFacts
<1>12. \A i \in DOMAIN w'[a].got :
         /\ w'[a].got[i] \in Spots(a, Kinds[i])'
         /\ \A q \in Spots(a, Kinds[i])' : q <= w'[a].got[i]
  <2> SUFFICES ASSUME NEW i \in DOMAIN w'[a].got
               PROVE  /\ w'[a].got[i] \in Spots(a, Kinds[i])'
                      /\ \A q \in Spots(a, Kinds[i])' : q <= w'[a].got[i]
      OBVIOUS
  <2>1. CASE i = k
    <3>1. Spots(a, Kinds[i])' = Spots(a, Kinds[i]) \cup {pos}
        BY <1>5, <2>1
    <3>2. \A q \in Spots(a, Kinds[i]) : q < pos /\ q \in Nat
        BY <1>1, <1>5, <2>1, SpotFacts DEF Reserves, pos
    <3> QED
        BY <1>5, <1>10, <2>1, <3>1, <3>2 DEF Positions
  <2>2. CASE i # k
    <3>1. i \in DOMAIN got /\ w'[a].got[i] = got[i]
        BY <1>10, <2>2
    <3> QED
        BY <1>1, <1>11, <3>1 DEF Works, got
  <2> QED
      BY <2>1, <2>2
<1>13. \A b \in Archives : placed[b] # <<>> => b # a /\ (Fresh(b)' <=> Fresh(b))
    BY <1>1, <1>2, <1>5, SameFresh, KindFacts
<1>14. \A c \in Archives : pos \notin Range(placed[c])
    BY <1>1 DEF Works, pos
<1>15. Mirror'
  <2>1. ASSUME NEW b \in Archives, NEW j \in Range(Kinds), NEW p \in Spots(b, j)'
        PROVE  p \in DOMAIN idx' /\ idx'[p] = Full(p, b, j)
    <3>1. CASE p = pos
      <4>1. b = a /\ j = Kinds[k]
          BY <1>5, <1>9, <2>1, <3>1
      <4> QED
          BY <1>8, <3>1, <4>1
    <3>2. CASE p # pos
      <4>1. p \in Spots(b, j)
          BY <1>5, <2>1, <3>2
      <4>2. p \in DOMAIN idx /\ idx[p] = Full(p, b, j)
          BY <1>1, <4>1 DEF Safe, Mirror
      <4> QED
          BY <1>8, <3>2, <4>2
    <3> QED
        BY <3>1, <3>2
  <2>2. ASSUME NEW p \in DOMAIN idx' PROVE Entered(p)'
    <3>1. CASE p = pos
      <4>1. /\ idx'[p].pay = File(a, "payload") /\ idx'[p].hdr = File(a, "hdr")
            /\ idx'[p].run = RunOf[a]
          BY <1>6, <1>8, <3>1 DEF Full, Halves
      <4>2. /\ File(a, "payload") \in objs' /\ File(a, "hdr") \in objs'
            /\ File(a, "payload").ar = a /\ File(a, "hdr").ar = a
          BY <1>2, <1>6 DEF Halves
      <4>3. File(a, "payload") # NoKey
          BY <1>6, StoredIsKey DEF IInv
      <4> QED
          BY <4>1, <4>2, <4>3 DEF Entered
    <3>2. CASE p # pos
      <4>1. p \in DOMAIN idx /\ idx'[p] = idx[p] /\ Entered(p)
          BY <1>1, <1>8, <3>2 DEF Safe, Mirror
      <4>2. \A b \in Archives : InFlight(b) /\ w[b].pos = p => InFlight(b)' /\ w'[b].pos = p
          BY <1>3, <1>4, <3>2 DEF pos
      <4> QED
          BY <1>2, <4>1, <4>2 DEF Entered
    <3> QED
        BY <3>1, <3>2
  <2>3. ASSUME NEW o \in objs', o.pos \in DOMAIN idx'
        PROVE  \/ o = idx'[o.pos].pay \/ o = idx'[o.pos].hdr
               \/ \E b \in Archives : InFlight(b)' /\ w'[b].pos = o.pos
    <3>1. CASE o.pos = pos
        BY <1>6, <1>7, <1>8, <3>1 DEF Full, Halves
    <3>2. CASE o.pos # pos
      <4>1. o \in objs /\ o.pos \in DOMAIN idx /\ idx'[o.pos] = idx[o.pos]
          BY <1>6, <1>8, <2>3, <3>2 DEF Halves
      <4>2. \A b \in Archives : InFlight(b) /\ w[b].pos = o.pos =>
              InFlight(b)' /\ w'[b].pos = o.pos
          BY <1>3, <1>4, <3>2 DEF pos
      <4> QED
          BY <1>1, <4>1, <4>2 DEF Safe, Mirror
    <3> QED
        BY <3>1, <3>2
  <2> QED
      BY <2>1, <2>2, <2>3 DEF Mirror
<1>16. Reserve'
  <2> SUFFICES ASSUME NEW b \in Archives, InFlight(b)' PROVE Reserves(b)'
      BY DEF Reserve
  <2>1. b # a /\ InFlight(b) /\ w'[b] = w[b] /\ w[b].pos # pos
      BY <1>1, <1>3, <1>4 DEF IInv, Handed, pos
  <2>2. \A o \in objs' : o.pos = w[b].pos => o \in objs /\ (o \in torn => o \in torn')
      BY <1>2, <1>6, <2>1 DEF Halves
  <2>3. \A j \in Range(Kinds) : Spots(b, j)' \subseteq Spots(b, j)
      BY <1>5, <2>1
  <2>4. File(b, "payload") \in objs => File(b, "payload") \in objs'
      BY <1>2
  <2> QED
      BY <1>2, <1>8, <2>1, <2>2, <2>3, <2>4, ReservesKeep DEF Safe
<1>17. Work'
  <2> SUFFICES ASSUME NEW b \in Archives, w'[b].st # "idle" PROVE Works(b)'
      BY DEF Work
  <2>1. CASE b = a
    <3>1. \A c \in Archives : \A p \in Range(placed[c]) : p \notin Range(w'[a].got)
      <4> SUFFICES ASSUME NEW c \in Archives, NEW p \in Range(placed[c]),
                          NEW i \in DOMAIN w'[a].got, p = w'[a].got[i]
                   PROVE  FALSE
          BY DEF Range
      <4>1. CASE i = k
          BY <1>10, <1>14, <4>1
      <4>2. CASE i # k
        <5>1. i \in DOMAIN got /\ p = got[i]
            BY <1>10, <4>2
        <5> QED
            BY <1>1, <5>1 DEF Works, got, Range
      <4> QED
          BY <4>1, <4>2
    <3> QED
        BY <1>1, <1>2, <1>12, <2>1, <3>1 DEF Works
  <2>2. CASE b # a
    <3>1. w[b].st # "idle" /\ w'[b] = w[b] /\ (InFlight(b)' => InFlight(b))
        BY <1>3, <1>4, <2>2
    <3>2. rec'.ar # b
        BY <1>2, <3>1 DEF Safe, Work, Works
    <3>3. \A j \in Range(Kinds) : Spots(b, j)' = Spots(b, j)
        BY <1>5, <2>2
    <3> QED
        BY <1>2, <3>1, <3>2, <3>3, WorksKeep DEF Safe
  <2> QED
      BY <2>1, <2>2
<1>18. Hold'
  <2>1. ASSUME NEW b \in Archives, Fresh(b)', NEW i \in DOMAIN Kinds
        PROVE  /\ placed'[b][i] \in Spots(b, Kinds[i])'
               /\ \A q \in Spots(b, Kinds[i])' : q <= placed'[b][i]
    <3>1. placed[b] # <<>> /\ b # a /\ Fresh(b)
        BY <1>2, <1>13, <2>1 DEF Fresh
    <3>2. Spots(b, Kinds[i])' = Spots(b, Kinds[i])
        BY <1>5, <3>1, KindFacts
    <3> QED
        BY <1>2, <3>1, <3>2 DEF Safe, Hold
  <2>2. \A b \in Archives : \A p \in Range(placed[b]) : \A o \in objs' : o.pos = p => o.ar = b
      BY <1>6, <1>14 DEF Safe, Hold, Halves
  <2> QED
      BY <1>2, <2>1, <2>2 DEF Hold
<1>19. Sweep' /\ Live' /\ Debris'
    BY <1>1, <1>2, <1>13 DEF Sweep, Live, Debris, Safe
<1>20. Reclaim'
    BY <1>2, <1>13 DEF Reclaim, Safe
<1>21. Owned'
  <2> SUFFICES ASSUME NEW b \in Archives
               PROVE  \E own \in [Positions -> [DOMAIN Kinds -> Positions]] : Owns(b, own)'
      BY DEF Owned
  <2>1. PICK own \in [Positions -> [DOMAIN Kinds -> Positions]] : Owns(b, own)
      BY DEF Safe, Owned
  <2>2. CASE b # a
    <3>1. Feet(b)' = Feet(b)
        BY <1>2, <1>5, <2>2, KindFacts DEF Feet
    <3>2. Fresh(b)' <=> Fresh(b)
        BY <1>2, <1>5, <2>2, SameFresh, KindFacts
    <3>3. \A i \in DOMAIN Kinds : Spots(b, Kinds[i])' = Spots(b, Kinds[i])
        BY <1>5, <2>2, KindFacts
    <3>4. w'[b] = w[b]
        BY <1>3, <2>2
    <3>5. Owns(b, own)'
        BY <1>2, <2>1, <3>1, <3>2, <3>3, <3>4 DEF Owns
    <3> QED
        BY <3>5
  <2>3. CASE b = a
    <3>1. /\ \A f \in Feet(a) : own[f][Len(Kinds)] = f
          /\ \A f \in Feet(a), i \in DOMAIN Kinds : own[f][i] \in Spots(a, Kinds[i])
          /\ \A f, g \in Feet(a) : f < g => \A i \in DOMAIN Kinds : own[f][i] < own[g][i]
          /\ \A f \in Feet(a) : \A i \in DOMAIN got : own[f][i] # got[i]
        BY <1>1, <2>1, <2>3 DEF Owns, got
    <3>2. /\ ~Fresh(a)' /\ placed'[a] = <<>>
        BY <1>1, <1>2 DEF Fresh
    <3>3. \A f \in Feet(a), i \in DOMAIN Kinds : own[f][i] \in Spots(a, Kinds[i])'
      <4> SUFFICES ASSUME NEW f \in Feet(a), NEW i \in DOMAIN Kinds
                   PROVE  own[f][i] \in Spots(a, Kinds[i])'
          OBVIOUS
      <4>1. Spots(a, Kinds[i]) \subseteq Spots(a, Kinds[i])'
          BY <1>5, KindFacts
      <4> QED
          BY <3>1, <4>1
    <3>4. CASE k # Len(Kinds)
      <4>1. Feet(a)' = Feet(a)
          BY <1>2, <1>5, <3>4, KindFacts DEF Feet
      <4>2. \A f \in Feet(a) : \A i \in DOMAIN w'[a].got : own[f][i] # w'[a].got[i]
        <5> SUFFICES ASSUME NEW f \in Feet(a), NEW i \in DOMAIN w'[a].got
                     PROVE  own[f][i] # w'[a].got[i]
            OBVIOUS
        <5>1. CASE i = k
            BY <1>5, <1>9, <1>10, <3>1, <5>1
        <5>2. CASE i # k
            BY <1>10, <3>1, <5>2
        <5> QED
            BY <5>1, <5>2
      <4>3. Owns(a, own)'
          BY <1>1, <1>2, <3>1, <3>2, <3>3, <4>1, <4>2 DEF Owns
      <4> QED
          BY <2>3, <4>3
    <3>5. CASE k = Len(Kinds)
      <4>1. Feet(a)' = Feet(a) \cup {pos} /\ pos \notin Feet(a)
          BY <1>1, <1>2, <1>5, <1>9, <3>5, KindFacts DEF Feet
      <4>2. w'[a].got \in [DOMAIN Kinds -> Positions]
        <5>1. w'[a].got \in Seq(Positions)
            BY DEF IInv, Types, Writers
        <5> QED
            BY <1>10, <3>5, <5>1, KindFacts
      <4>3. PICK own2 \in [Positions -> [DOMAIN Kinds -> Positions]] :
              own2 = [own EXCEPT ![pos] = w'[a].got]
          BY <4>2
      <4>4. own2[pos] = w'[a].got /\ \A f \in Feet(a) : own2[f] = own[f]
          BY <1>5, <4>1, <4>3
      <4>5. \A f \in Feet(a) : f \in Nat /\ f < pos
          BY <1>1, <1>5, SpotFacts, KindFacts DEF Feet, Reserves, pos
      <4>6. \A f \in Feet(a), i \in DOMAIN Kinds : own[f][i] < w'[a].got[i]
        <5> SUFFICES ASSUME NEW f \in Feet(a), NEW i \in DOMAIN Kinds
                     PROVE  own[f][i] < w'[a].got[i]
            OBVIOUS
        <5>1. own[f][i] \in Spots(a, Kinds[i]) /\ own[f][i] \in Nat
            BY <3>1, SpotFacts, KindFacts
        <5>2. CASE i = k
            BY <1>10, <3>1, <3>5, <4>5, <5>2
        <5>3. CASE i # k
          <6>1. i \in DOMAIN got /\ w'[a].got[i] = got[i]
              BY <1>10, <3>5, <5>3, KindFacts
          <6>2. own[f][i] <= got[i]
              BY <1>1, <5>1, <6>1 DEF Works, got
          <6>3. own[f][i] # got[i]
              BY <3>1, <6>1
          <6>4. got[i] \in Nat
            <7>1. got[i] \in Positions
                BY <1>10, <6>1
            <7> QED
                BY <7>1 DEF Positions
          <6>5. \A x, y \in Nat : x <= y /\ x # y => x < y
              OBVIOUS
          <6> QED
              BY <5>1, <6>1, <6>2, <6>3, <6>4, <6>5
        <5> QED
            BY <5>2, <5>3
      <4>7. \A f, g \in Feet(a)' : f < g => \A i \in DOMAIN Kinds : own2[f][i] < own2[g][i]
        <5> SUFFICES ASSUME NEW f \in Feet(a)', NEW g \in Feet(a)', f < g
                     PROVE  \A i \in DOMAIN Kinds : own2[f][i] < own2[g][i]
            OBVIOUS
        <5>1. pos \in Nat
            BY <1>5 DEF Positions
        <5>2. f \in Feet(a)
            BY <4>1, <4>5, <5>1
        <5>3. CASE g = pos
            BY <4>4, <4>6, <5>2, <5>3
        <5>4. CASE g # pos
            BY <3>1, <4>1, <4>4, <5>2, <5>4
        <5> QED
            BY <5>3, <5>4
      <4>8. \A f \in Feet(a)' : own2[f][Len(Kinds)] = f
          BY <1>10, <3>1, <3>5, <4>1, <4>4
      <4>9. \A f \in Feet(a)', i \in DOMAIN Kinds :
              own2[f][i] \in Spots(a, Kinds[i])' /\ own2[f][i] \notin doomed'
        <5> SUFFICES ASSUME NEW f \in Feet(a)', NEW i \in DOMAIN Kinds
                     PROVE  own2[f][i] \in Spots(a, Kinds[i])'
            BY <1>1, <1>2
        <5>1. CASE f = pos
            BY <1>10, <1>12, <3>5, <4>4, <5>1, KindFacts
        <5>2. CASE f # pos
            BY <3>3, <4>1, <4>4, <5>2
        <5> QED
            BY <5>1, <5>2
      <4>10. \A f \in Feet(a)' :
               \/ w'[a].st = "done" /\ own2[f] = w'[a].got
               \/ \A i \in DOMAIN w'[a].got : own2[f][i] # w'[a].got[i]
        <5> SUFFICES ASSUME NEW f \in Feet(a)', f # pos
                     PROVE  \A i \in DOMAIN w'[a].got : own2[f][i] # w'[a].got[i]
            BY <1>3, <3>5, <4>4
        <5> SUFFICES ASSUME NEW i \in DOMAIN w'[a].got PROVE own2[f][i] # w'[a].got[i]
            OBVIOUS
        <5>1. f \in Feet(a) /\ i \in DOMAIN Kinds
            BY <4>1, <4>2
        <5>2. own[f][i] < w'[a].got[i] /\ own[f][i] \in Nat
            BY <3>1, <4>6, <5>1, SpotFacts, KindFacts
        <5> QED
            BY <4>4, <5>1, <5>2
      <4>11. Owns(a, own2)'
          BY <3>2, <4>7, <4>8, <4>9, <4>10 DEF Owns
      <4> QED
          BY <2>3, <4>11
    <3> QED
        BY <3>4, <3>5
  <2> QED
      BY <2>2, <2>3
<1> QED
    BY <1>15, <1>16, <1>17, <1>18, <1>19, <1>20, <1>21 DEF Safe

\* A record: the archive's files, the latest of their kinds, become its placement.
LEMMA RecordSafe ==
  ASSUME FileStoreAssumption, IInv, IInv', Safe, NEW a \in Archives, Record(a)
  PROVE  Safe'
<1> DEFINE got == w[a].got
<1>1. /\ w[a].st = "done" /\ placed[a] = <<>> /\ rec.ar # a /\ doomed = {} /\ Works(a)
      /\ w[a] \in Writers /\ Counted(w[a]) /\ ~InFlight(a)
    BY DEF Record, IInv, Types, Safe, Work, Works, InFlight
<1>2. /\ placed' = [placed EXCEPT ![a] = got] /\ placed \in [Archives -> Maps]
      /\ w' = [w EXCEPT ![a] = Idle] /\ w \in [Archives -> Writers]
      /\ UNCHANGED <<cloud, objs, torn, up, idx, rec, doomed, swept, cuts>>
    BY DEF Record, IInv, Types
<1>3. /\ placed'[a] = got /\ \A b \in Archives \ {a} : placed'[b] = placed[b]
      /\ w'[a].st = "idle" /\ \A b \in Archives \ {a} : w'[b] = w[b]
      /\ \A b \in Archives : InFlight(b)' <=> InFlight(b)
    BY <1>1, <1>2 DEF Idle, InFlight
<1>4. \A b \in Archives, k \in Range(Kinds) : Spots(b, k)' = Spots(b, k)
    BY <1>2, SameSpots
<1>5. /\ got \in [DOMAIN Kinds -> Positions] /\ got # <<>> /\ DOMAIN got = DOMAIN Kinds
      /\ Last(got) = got[Len(Kinds)]
  <2>1. got \in Seq(Positions) /\ Len(got) = Len(Kinds)
      BY <1>1 DEF Counted, Writers
  <2> QED
      BY <2>1, KindFacts DEF Last
<1> HIDE DEF got
<1>6. \A i \in DOMAIN Kinds :
        /\ got[i] \in Spots(a, Kinds[i])
        /\ \A q \in Spots(a, Kinds[i]) : q <= got[i]
    BY <1>1, <1>5 DEF Works, got
<1>7. \A p \in Range(got) : /\ \E i \in DOMAIN Kinds : p = got[i]
                            /\ \A o \in objs : o.pos = p => o.ar = a
                            /\ \E o \in objs : o.pos = p
  <2> SUFFICES ASSUME NEW p \in Range(got)
               PROVE  /\ \E i \in DOMAIN Kinds : p = got[i]
                      /\ \A o \in objs : o.pos = p => o.ar = a
                      /\ \E o \in objs : o.pos = p
      OBVIOUS
  <2>1. PICK i \in DOMAIN Kinds : p = got[i]
      BY <1>5 DEF Range
  <2>2. p \in Spots(a, Kinds[i]) /\ Kinds[i] \in Range(Kinds)
      BY <1>6, <2>1, KindFacts
  <2>3. Key(p, a, Kinds[i], "payload") \in objs /\ \A o \in objs : o.pos = p => o.ar = a
      BY <2>2, SpotFacts
  <2> QED
      BY <2>1, <2>3 DEF Key
<1>8. Fresh(a)' /\ \A b \in Archives \ {a} : Fresh(b)' <=> Fresh(b)
  <2>1. Last(got) \in Spots(a, Footer)'
      BY <1>4, <1>5, <1>6, KindFacts
  <2> QED
      BY <1>3, <1>4, <1>5, <2>1, SameFresh, KindFacts DEF Fresh
<1>9. Mirror'
  <2>1. \A b \in Archives : InFlight(b) => InFlight(b)' /\ w'[b].pos = w[b].pos
      BY <1>1, <1>3
  <2>2. \A p \in DOMAIN idx : Entered(p) => Entered(p)'
      BY <1>2, <2>1 DEF Entered
  <2> QED
      BY <1>2, <1>4, <2>1, <2>2 DEF Safe, Mirror
<1>10. Reserve'
  <2> SUFFICES ASSUME NEW b \in Archives, InFlight(b)' PROVE Reserves(b)'
      BY DEF Reserve
  <2>1. InFlight(b) /\ w'[b] = w[b]
      BY <1>1, <1>3
  <2>2. \A k \in Range(Kinds) : Spots(b, k)' \subseteq Spots(b, k)
      BY <1>4
  <2> QED
      BY <1>2, <2>1, <2>2, ReservesKeep DEF Safe
<1>11. Work'
  <2> SUFFICES ASSUME NEW b \in Archives, w'[b].st # "idle" PROVE Works(b)'
      BY DEF Work
  <2>1. b # a /\ w'[b] = w[b] /\ w[b].st # "idle" /\ Works(b)
      BY <1>3 DEF Safe, Work
  <2>2. \A i \in DOMAIN w[b].got : Spots(b, Kinds[i])' = Spots(b, Kinds[i])
      BY <1>4, GotFacts DEF IInv
  <2>3. \A p \in Range(got) : p \notin Range(w[b].got) /\ (InFlight(b) => p # w[b].pos)
    <3> SUFFICES ASSUME NEW p \in Range(got)
                 PROVE  p \notin Range(w[b].got) /\ (InFlight(b) => p # w[b].pos)
        OBVIOUS
    <3>1. InFlight(b) => p # w[b].pos
        BY <1>7, <2>1 DEF IInv, Handed
    <3>2. ASSUME p \in Range(w[b].got) PROVE FALSE
      <4>1. PICK j \in DOMAIN w[b].got : p = w[b].got[j]
          BY <3>2, GotFacts DEF IInv
      <4>2. p \in Spots(b, Kinds[j]) /\ Kinds[j] \in Range(Kinds)
          BY <2>1, <4>1, GotFacts DEF Works, IInv
      <4>3. \A o \in objs : o.pos = p => o.ar = b
          BY <4>2, SpotFacts
      <4> QED
          BY <1>7, <2>1, <4>3
    <3> QED
        BY <3>1, <3>2
  <2>4. \A c \in Archives : \A p \in Range(placed'[c]) :
          p \notin Range(w[b].got) /\ (InFlight(b) => p # w[b].pos)
      BY <1>3, <2>1, <2>3 DEF Works
  <2> QED
      BY <1>2, <1>3, <2>1, <2>2, <2>4 DEF Works
<1>12. Hold'
  <2>1. \A b \in Archives : Fresh(b)' => \A i \in DOMAIN Kinds :
          /\ placed'[b][i] \in Spots(b, Kinds[i])'
          /\ \A q \in Spots(b, Kinds[i])' : q <= placed'[b][i]
      BY <1>3, <1>4, <1>6, <1>8, KindFacts DEF Safe, Hold
  <2>2. \A b \in Archives : \A p \in Range(placed'[b]) : \A o \in objs : o.pos = p => o.ar = b
      BY <1>3, <1>7 DEF Safe, Hold
  <2> QED
      BY <1>2, <2>1, <2>2 DEF Hold
<1>13. Owned'
  <2> SUFFICES ASSUME NEW b \in Archives
               PROVE  \E own \in [Positions -> [DOMAIN Kinds -> Positions]] : Owns(b, own)'
      BY DEF Owned
  <2>1. PICK own \in [Positions -> [DOMAIN Kinds -> Positions]] : Owns(b, own)
      BY DEF Safe, Owned
  <2>2. Feet(b)' = Feet(b) /\ \A i \in DOMAIN Kinds : Spots(b, Kinds[i])' = Spots(b, Kinds[i])
      BY <1>2, <1>4, KindFacts DEF Feet
  <2>3. CASE b = a
    <3>1. Last(got) \in Feet(a)
        BY <1>1, <1>5, <1>6, KindFacts DEF Feet
    <3>2. own[Last(got)] = got
      <4>1. own[Last(got)][Len(Kinds)] = got[Len(Kinds)]
          BY <1>5, <2>1, <2>3, <3>1 DEF Owns
      <4> QED
          BY <1>1, <1>5, <2>1, <2>3, <3>1, <4>1, KindFacts DEF Owns, got
    <3>3. Owns(a, own)'
        BY <1>2, <1>3, <1>8, <2>1, <2>2, <2>3, <3>2 DEF Owns
    <3> QED
        BY <2>3, <3>3
  <2>4. CASE b # a
    <3>1. Owns(b, own)'
        BY <1>2, <1>3, <1>8, <2>1, <2>2, <2>4 DEF Owns
    <3> QED
        BY <3>1
  <2> QED
      BY <2>3, <2>4
<1>14. Sweep'
    BY <1>1, <1>2 DEF Sweep
<1>15. Reclaim'
    BY <1>1, <1>2, <1>3, <1>8 DEF Reclaim, Safe
<1>16. Live'
    BY <1>2, <1>3, <1>8 DEF Live, Safe
<1>17. Debris'
  <2>1. KnownPositions \subseteq KnownPositions'
    <3> SUFFICES ASSUME NEW c \in Archives, NEW p \in Range(placed[c])
                 PROVE  \E d \in Archives : p \in Range(placed'[d])
        BY DEF KnownPositions
    <3>1. c # a
        BY <1>1, RangeOfEmpty
    <3> QED
        BY <1>3, <3>1
  <2>2. \A o \in objs : o.ar \in Archives
      BY StoredIsKey DEF IInv
  <2>3. \A o \in objs : placed[o.ar] # <<>> => placed'[o.ar] # <<>>
      BY <1>3, <1>5, <2>2
  <2> QED
      BY <1>2, <2>1, <2>3 DEF Debris, Safe, Committed, Readable
<1> QED
    BY <1>9, <1>10, <1>11, <1>12, <1>13, <1>14, <1>15, <1>16, <1>17 DEF Safe

\* What the catalog and a removal's own bookkeeping do not touch: medium, index, writers.
LEMMA CatalogFrame ==
  ASSUME FileStoreAssumption, IInv, Safe, UNCHANGED <<cloud, objs, torn, up, idx, w>>
  PROVE  /\ \A b \in Archives, k \in Range(Kinds) : Spots(b, k)' = Spots(b, k)
         /\ Mirror' /\ Reserve'
<1>1. \A b \in Archives, k \in Range(Kinds) : Spots(b, k)' = Spots(b, k)
    BY SameSpots
<1>2. \A b \in Archives : InFlight(b)' <=> InFlight(b)
    BY DEF InFlight
<1>3. Mirror'
  <2>1. \A p \in DOMAIN idx : Entered(p) => Entered(p)'
      BY <1>2 DEF Entered
  <2> QED
      BY <1>1, <1>2, <2>1 DEF Safe, Mirror
<1>4. Reserve'
  <2> SUFFICES ASSUME NEW b \in Archives, InFlight(b)' PROVE Reserves(b)'
      BY DEF Reserve
  <2>1. \A k \in Range(Kinds) : Spots(b, k)' \subseteq Spots(b, k)
      BY <1>1
  <2> QED
      BY <1>2, <2>1, ReservesKeep DEF Safe
<1> QED
    BY <1>1, <1>3, <1>4

\* A reclaim's order: of the positions placed, the footer's first.
LEMMA FooterIsFirst ==
  ASSUME FileStoreAssumption, Types, NEW a \in Archives, placed[a] # <<>>
  PROVE  /\ RemovalOrder(placed[a]) # <<>>
         /\ Head(RemovalOrder(placed[a])) = Last(placed[a])
         /\ Range(RemovalOrder(placed[a])) \subseteq Range(placed[a])
<1> DEFINE n == Len(Kinds)
           s == placed[a]
<1>1. /\ s \in Seq(Positions) /\ Len(s) = n /\ n \in Nat \ {0} /\ Last(s) = s[n]
      /\ s \in [1 .. n -> Positions]
    BY PlacedFacts, KindFacts
<1> HIDE DEF s, n
<1>2. RemovalOrder(s) = [i \in 1 .. n |-> s[(n - i) + 1]]
    BY <1>1 DEF RemovalOrder, Reverse
<1>3. \A i \in 1 .. n : (n - i) + 1 \in 1 .. n
    BY <1>1
<1>4. RemovalOrder(s) \in [1 .. n -> Positions]
    BY <1>1, <1>2, <1>3
<1>5. RemovalOrder(s) \in Seq(Positions) /\ Len(RemovalOrder(s)) = n
    BY <1>1, <1>4
<1>6. Head(RemovalOrder(s)) = s[n] /\ RemovalOrder(s) # <<>>
  <2>1. 1 \in 1 .. n /\ (n - 1) + 1 = n
      BY <1>1
  <2>2. RemovalOrder(s)[1] = s[n]
      BY <1>2, <2>1
  <2>3. RemovalOrder(s) # <<>>
      BY <1>1, <1>5
  <2> QED
      BY <1>5, <2>2, <2>3
<1>7. Range(RemovalOrder(s)) \subseteq Range(s)
  <2> SUFFICES ASSUME NEW i \in 1 .. n PROVE RemovalOrder(s)[i] \in Range(s)
      BY <1>2 DEF Range
  <2>1. RemovalOrder(s)[i] = s[(n - i) + 1]
      BY <1>2
  <2> QED
      BY <1>1, <1>3, <2>1 DEF Range
<1> QED
    BY <1>1, <1>6, <1>7 DEF s

\* A reclaim begun: the placement is its, and its footer the first to go.
LEMMA StartReclaimSafe ==
  ASSUME FileStoreAssumption, IInv, IInv', Safe, NEW a \in Archives, StartReclaim(a)
  PROVE  Safe'
<1>1. /\ rec = NoReclaim /\ doomed = {} /\ placed[a] # <<>> /\ up
      /\ rec' = [ar |-> a, rest |-> RemovalOrder(placed[a])]
      /\ UNCHANGED <<cloud, objs, torn, up, idx, w, placed, doomed, swept, cuts>>
    BY DEF StartReclaim
<1>2. /\ \A b \in Archives, k \in Range(Kinds) : Spots(b, k)' = Spots(b, k)
      /\ Mirror' /\ Reserve'
    BY <1>1, CatalogFrame
<1>3. /\ \A b \in Archives : (Fresh(b)' <=> Fresh(b)) /\ Feet(b)' = Feet(b)
      /\ Hold' /\ Owned'
    BY <1>1, <1>2, FrameKeeps DEF Safe
<1>4. Work'
  <2> SUFFICES ASSUME NEW b \in Archives, w'[b].st # "idle" PROVE Works(b)'
      BY DEF Work
  <2>1. w[b].st # "idle" /\ b # a /\ rec'.ar # b
      BY <1>1 DEF Safe, Work, Works
  <2>2. InFlight(b)' <=> InFlight(b)
      BY <1>1 DEF InFlight
  <2> QED
      BY <1>1, <1>2, <2>1, <2>2, WorksKeep DEF Safe
<1>5. Reclaim'
  <2>1. /\ rec'.ar = a /\ a # None /\ Range(rec'.rest) \subseteq Range(placed[a])
        /\ rec'.rest # <<>> /\ Head(rec'.rest) = Last(placed[a])
      BY <1>1, FooterIsFirst DEF IInv, FileStoreAssumption
  <2> QED
      BY <1>1, <2>1 DEF Reclaim
<1>6. Live'
  <2>1. \A c \in Archives : rec.ar # c
      BY <1>1 DEF NoReclaim, FileStoreAssumption
  <2> QED
      BY <1>1, <1>3, <2>1 DEF Live, Safe
<1>7. Sweep' /\ Debris'
    BY <1>1 DEF Sweep, Debris, Safe, Committed, Readable, KnownPositions
<1> QED
    BY <1>2, <1>3, <1>4, <1>5, <1>6, <1>7 DEF Safe

\* The end of a reclaim: the placement goes, its footer gone before it.
LEMMA UnplaceSafe ==
  ASSUME FileStoreAssumption, IInv, IInv', Safe, Unplace
  PROVE  Safe'
<1>1. PICK a \in Archives : a = rec.ar
    BY DEF Unplace, IInv, Types
<1>2. /\ rec.rest = <<>> /\ ~Fresh(a) /\ doomed = {} /\ placed \in [Archives -> Maps]
      /\ placed' = [placed EXCEPT ![a] = <<>>] /\ rec' = NoReclaim /\ swept' = FALSE
      /\ UNCHANGED <<cloud, objs, torn, up, idx, w, doomed, cuts>>
    BY <1>1 DEF Unplace, Safe, Reclaim, Sweep, NoReclaim, IInv, Types
<1>3. placed'[a] = <<>> /\ \A b \in Archives \ {a} : placed'[b] = placed[b]
    BY <1>2
<1>4. /\ \A b \in Archives, k \in Range(Kinds) : Spots(b, k)' = Spots(b, k)
      /\ Mirror' /\ Reserve'
    BY <1>2, CatalogFrame
<1>5. ~Fresh(a)' /\ \A b \in Archives \ {a} : Fresh(b)' <=> Fresh(b)
    BY <1>3, <1>4, SameFresh, KindFacts DEF Fresh
<1>6. \A c \in Archives : \A p \in Range(placed'[c]) : p \in Range(placed[c])
    BY <1>3, RangeOfEmpty
<1>7. Work'
  <2> SUFFICES ASSUME NEW b \in Archives, w[b].st # "idle" PROVE Works(b)'
      BY <1>2 DEF Work
  <2>1. Works(b) /\ b # a
      BY <1>1 DEF Safe, Work, Works
  <2>2. \A i \in DOMAIN w[b].got : Spots(b, Kinds[i])' = Spots(b, Kinds[i])
      BY <1>4, GotFacts DEF IInv
  <2>3. rec'.ar # b /\ (InFlight(b)' <=> InFlight(b))
      BY <1>2 DEF NoReclaim, FileStoreAssumption, InFlight
  <2> QED
      BY <1>2, <1>3, <1>6, <2>1, <2>2, <2>3 DEF Works
<1>8. Hold'
  <2>1. \A b \in Archives : Fresh(b)' => \A i \in DOMAIN Kinds :
          /\ placed'[b][i] \in Spots(b, Kinds[i])'
          /\ \A q \in Spots(b, Kinds[i])' : q <= placed'[b][i]
      BY <1>3, <1>4, <1>5, KindFacts DEF Safe, Hold
  <2> QED
      BY <1>2, <1>6, <2>1 DEF Safe, Hold
<1>9. Owned'
  <2> SUFFICES ASSUME NEW b \in Archives
               PROVE  \E own \in [Positions -> [DOMAIN Kinds -> Positions]] : Owns(b, own)'
      BY DEF Owned
  <2>1. PICK own \in [Positions -> [DOMAIN Kinds -> Positions]] : Owns(b, own)
      BY DEF Safe, Owned
  <2>2. Feet(b)' = Feet(b) /\ \A i \in DOMAIN Kinds : Spots(b, Kinds[i])' = Spots(b, Kinds[i])
      BY <1>2, <1>4, KindFacts DEF Feet
  <2>3. Owns(b, own)'
      BY <1>2, <1>3, <1>5, <2>1, <2>2 DEF Owns
  <2> QED
      BY <2>3
<1>10. Sweep' /\ Debris'
    BY <1>2 DEF Sweep, Debris
<1>11. Reclaim'
    BY <1>2 DEF Reclaim, NoReclaim, FileStoreAssumption
<1>12. Live'
    BY <1>1, <1>2, <1>3, <1>5 DEF Live, Safe
<1> QED
    BY <1>4, <1>7, <1>8, <1>9, <1>10, <1>11, <1>12 DEF Safe

\* A reclaim refused: the placement stays, and the run is one with a reclaim cut short.
LEMMA ReclaimFailsSafe ==
  ASSUME FileStoreAssumption, IInv, IInv', Safe, ReclaimFails
  PROVE  Safe'
<1>1. /\ rec' = NoReclaim /\ cuts' # 0 /\ doomed = {}
      /\ UNCHANGED <<cloud, objs, torn, up, idx, w, placed, doomed, swept>>
  <2>1. cuts' # 0
      BY DEF ReclaimFails, IInv, Types
  <2> QED
      BY <2>1 DEF ReclaimFails, Safe, Sweep, NoReclaim
<1>2. /\ \A b \in Archives, k \in Range(Kinds) : Spots(b, k)' = Spots(b, k)
      /\ Mirror' /\ Reserve'
    BY <1>1, CatalogFrame
<1>3. Hold' /\ Owned'
    BY <1>1, <1>2, FrameKeeps DEF Safe
<1>4. Work'
  <2> SUFFICES ASSUME NEW b \in Archives, w[b].st # "idle" PROVE Works(b)'
      BY <1>1 DEF Work
  <2>1. rec'.ar # b /\ (InFlight(b)' <=> InFlight(b))
      BY <1>1 DEF NoReclaim, FileStoreAssumption, InFlight
  <2> QED
      BY <1>1, <1>2, <2>1, WorksKeep DEF Safe
<1>5. Reclaim' /\ Live' /\ Sweep'
    BY <1>1 DEF Reclaim, NoReclaim, FileStoreAssumption, Live, Sweep
<1>6. Debris'
    BY <1>1 DEF Debris, Safe, Committed, Readable, KnownPositions
<1> QED
    BY <1>2, <1>3, <1>4, <1>5, <1>6 DEF Safe

\* Without a catalog nothing is placed.
LEMMA LoseCatalogSafe ==
  ASSUME FileStoreAssumption, IInv, IInv', Safe, LoseCatalog
  PROVE  Safe'
<1>1. /\ Quiet /\ placed' = [a \in Archives |-> <<>>] /\ swept' = FALSE
      /\ UNCHANGED <<cloud, objs, torn, up, idx, w, rec, doomed, cuts>>
    BY DEF LoseCatalog
<1>2. /\ \A b \in Archives, k \in Range(Kinds) : Spots(b, k)' = Spots(b, k)
      /\ Mirror' /\ Reserve'
    BY <1>1, CatalogFrame
<1>3. \A b \in Archives : placed'[b] = <<>> /\ ~Fresh(b)'
    BY <1>1 DEF Fresh
<1>4. Work' /\ Sweep' /\ Live' /\ Debris'
    BY <1>1, <1>3 DEF Quiet, Work, Sweep, Live, Debris
<1>5. Reclaim'
    BY <1>1 DEF Quiet, Reclaim, NoReclaim, FileStoreAssumption
<1>6. Hold'
    BY <1>3, RangeOfEmpty DEF Hold
<1>7. Owned'
  <2> SUFFICES ASSUME NEW b \in Archives
               PROVE  \E own \in [Positions -> [DOMAIN Kinds -> Positions]] : Owns(b, own)'
      BY DEF Owned
  <2>1. PICK own \in [Positions -> [DOMAIN Kinds -> Positions]] : Owns(b, own)
      BY DEF Safe, Owned
  <2>2. Feet(b)' = Feet(b) /\ \A i \in DOMAIN Kinds : Spots(b, Kinds[i])' = Spots(b, Kinds[i])
      BY <1>1, <1>2, KindFacts DEF Feet
  <2>3. Owns(b, own)'
      BY <1>1, <1>3, <2>1, <2>2 DEF Owns, Quiet
  <2> QED
      BY <2>3
<1> QED
    BY <1>2, <1>4, <1>5, <1>6, <1>7 DEF Safe

\* A sweep's refused removal of a file that is no footer.
LEMMA SweepRefusedSafe ==
  ASSUME FileStoreAssumption, IInv, IInv', Safe, SweepRefused, ~mixed'
  PROVE  Safe'
<1> DEFINE m == Min(doomed)
<1>1. /\ doomed # {} /\ doomed' = doomed \ {m} /\ swept' = FALSE /\ m \notin DoomedFooters
      /\ UNCHANGED <<cloud, objs, torn, up, idx, w, placed, rec, cuts>>
    BY DEF SweepRefused
<1>2. m \in doomed
  <2>1. doomed \in SUBSET Nat
      BY DEF IInv, Types, Positions
  <2> QED
      BY <1>1, <2>1, SmallestPosition
<1> HIDE DEF m
<1>3. /\ \A b \in Archives, k \in Range(Kinds) : Spots(b, k)' = Spots(b, k)
      /\ Mirror' /\ Reserve'
    BY <1>1, CatalogFrame
<1>4. \A b \in Archives : Feet(b)' = Feet(b)
  <2>1. \A b \in Archives : m \notin Spots(b, Footer)
      BY <1>1, <1>2 DEF DoomedFooters, Spots
  <2> QED
      BY <1>1, <1>3, <2>1, KindFacts DEF Feet
<1>5. \A b \in Archives : Fresh(b)' <=> Fresh(b)
    BY <1>1, <1>3, SameFresh, KindFacts
<1>6. Sweep'
  <2> SUFFICES ASSUME doomed' # {} PROVE Sweep'
      BY DEF Sweep
  <2>1. KnownPositions' = KnownPositions
      BY <1>1 DEF KnownPositions
  <2>2. \A b \in Archives, k \in Range(Kinds) :
          Spots(b, k)' \cap doomed' \cap KnownPositions' = {}
      BY <1>1, <1>3, <2>1 DEF Safe, Sweep
  <2>3. \A b \in Archives : Spots(b, Footer)' \cap doomed' # {} => Feet(b)' # {}
      BY <1>1, <1>3, <1>4, KindFacts DEF Safe, Sweep
  <2> QED
      BY <1>1, <2>2, <2>3 DEF Safe, Sweep
<1>7. Work' /\ Debris'
    BY <1>1 DEF Safe, Sweep, Work, Debris
<1>8. Reclaim' /\ Live'
    BY <1>1, <1>5 DEF Safe, Reclaim, Live
<1>9. Hold'
    BY <1>1, <1>3, <1>5, KindFacts DEF Safe, Hold
<1>10. Owned'
  <2> SUFFICES ASSUME NEW b \in Archives
               PROVE  \E own \in [Positions -> [DOMAIN Kinds -> Positions]] : Owns(b, own)'
      BY DEF Owned
  <2>1. PICK own \in [Positions -> [DOMAIN Kinds -> Positions]] : Owns(b, own)
      BY DEF Safe, Owned
  <2>2. Feet(b)' = Feet(b) /\ \A i \in DOMAIN Kinds : Spots(b, Kinds[i])' = Spots(b, Kinds[i])
      BY <1>3, <1>4, KindFacts
  <2>3. Owns(b, own)'
      BY <1>1, <1>5, <2>1, <2>2 DEF Owns
  <2> QED
      BY <2>3
<1> QED
    BY <1>3, <1>6, <1>7, <1>8, <1>9, <1>10 DEF Safe

\* A scan finds every key stored, and nothing else.
LEMMA ScanFindsAll ==
  ASSUME FileStoreAssumption, IInv
  PROVE  /\ \A o \in objs :
              /\ o.pos \in DOMAIN ScannedIdx
              /\ o.half = "payload" => ScannedIdx[o.pos].pay = o
              /\ o.half = "hdr" => ScannedIdx[o.pos].hdr = o
              /\ ScannedIdx[o.pos].run = RunOf[o.ar]
         /\ \A p \in DOMAIN ScannedIdx :
              /\ \E o \in objs : o.pos = p
              /\ ScannedIdx[p].pay \in objs \cup {NoKey}
              /\ ScannedIdx[p].hdr \in objs \cup {NoKey}
              /\ ScannedIdx[p].pay # NoKey => ScannedIdx[p].pay.pos = p
              /\ ScannedIdx[p].hdr # NoKey => ScannedIdx[p].hdr.pos = p
              /\ ScannedIdx[p] = [run |-> ScannedIdx[p].run, pay |-> ScannedIdx[p].pay,
                                  hdr |-> ScannedIdx[p].hdr]
<1>1. ASSUME NEW p \in DOMAIN ScannedIdx
      PROVE  /\ \E o \in objs : o.pos = p
             /\ \A h \in Halves : \A o \in objs : o.pos = p /\ o.half = h =>
                  IF h = "payload" THEN ScannedIdx[p].pay = o ELSE ScannedIdx[p].hdr = o
             /\ \A o \in objs : o.pos = p => ScannedIdx[p].run = RunOf[o.ar]
             /\ ScannedIdx[p].pay \in {o \in objs : o.pos = p} \cup {NoKey}
             /\ ScannedIdx[p].hdr \in {o \in objs : o.pos = p} \cup {NoKey}
             /\ ScannedIdx[p] = [run |-> ScannedIdx[p].run, pay |-> ScannedIdx[p].pay,
                                 hdr |-> ScannedIdx[p].hdr]
  <2> DEFINE at == {o \in objs : o.pos = p}
             pick(h) == IF \E o \in at : o.half = h
                        THEN CHOOSE o \in at : o.half = h ELSE NoKey
  <2>1. /\ ScannedIdx[p] = [run |-> RunOf[(CHOOSE o \in at : TRUE).ar],
                            pay |-> pick("payload"), hdr |-> pick("hdr")]
        /\ at # {}
      BY DEF ScannedIdx, ScanEntry
  <2>2. \A x, y \in at : x.half = y.half => x = y
      BY StoredIsKey DEF IInv, OneFilePerPosition
  <2>3. ASSUME NEW h PROVE pick(h) \in at \cup {NoKey} /\ \A o \in at : o.half = h => pick(h) = o
    <3>1. CASE \E o \in at : o.half = h
      <4>1. pick(h) \in at /\ pick(h).half = h
          BY <3>1
      <4> QED
          BY <2>2, <4>1
    <3>2. CASE ~ \E o \in at : o.half = h
        BY <3>2
    <3> QED
        BY <3>1, <3>2
  <2>4. \A o \in at : RunOf[(CHOOSE x \in at : TRUE).ar] = RunOf[o.ar]
    <3>1. (CHOOSE x \in at : TRUE) \in at
        BY <2>1
    <3> QED
        BY <3>1 DEF IInv, OneFilePerPosition
  <2> HIDE DEF pick
  <2>5. ScannedIdx[p].pay = pick("payload") /\ ScannedIdx[p].hdr = pick("hdr")
      BY <2>1
  <2> QED
      BY <2>1, <2>3, <2>4, <2>5 DEF Halves
<1>2. \A o \in objs : o.pos \in DOMAIN ScannedIdx
    BY DEF ScannedIdx
<1>3. "payload" \in Halves /\ "hdr" \in Halves /\ "payload" # "hdr"
    BY DEF Halves
<1> QED
    BY <1>1, <1>2, <1>3

\* A handle opened with nothing under way: the index is what the medium says.
LEMMA OpenSafe ==
  ASSUME FileStoreAssumption, IInv, IInv', Safe, Open
  PROVE  Safe'
<1>1. /\ Quiet /\ idx' = ScannedIdx /\ up' = TRUE /\ swept' = FALSE
      /\ UNCHANGED <<cloud, objs, torn, w, placed, rec, doomed, cuts>>
    BY DEF Open
<1>2. \A b \in Archives, k \in Range(Kinds) : Spots(b, k)' = Spots(b, k)
    BY <1>1, SameSpots
<1>3. /\ \A b \in Archives : (Fresh(b)' <=> Fresh(b)) /\ Feet(b)' = Feet(b)
      /\ Hold' /\ Owned'
    BY <1>1, <1>2, FrameKeeps DEF Safe, Quiet
<1>4. Mirror'
  <2>1. ASSUME NEW a \in Archives, NEW k \in Range(Kinds), NEW p \in Spots(a, k)
        PROVE  p \in DOMAIN idx' /\ idx'[p] = Full(p, a, k)
    <3>1. Key(p, a, k, "payload") \in objs /\ Key(p, a, k, "hdr") \in objs
        BY SpotFacts
    <3>2. /\ Key(p, a, k, "payload").pos = p /\ Key(p, a, k, "payload").half = "payload"
          /\ Key(p, a, k, "hdr").pos = p /\ Key(p, a, k, "hdr").half = "hdr"
          /\ Key(p, a, k, "payload").ar = a
        BY DEF Key
    <3>3. /\ p \in DOMAIN idx' /\ idx'[p].pay = Key(p, a, k, "payload")
          /\ idx'[p].hdr = Key(p, a, k, "hdr") /\ idx'[p].run = RunOf[a]
        BY <1>1, <3>1, <3>2, ScanFindsAll
    <3>4. idx'[p] = [run |-> idx'[p].run, pay |-> idx'[p].pay, hdr |-> idx'[p].hdr]
        BY <1>1, <3>3, ScanFindsAll
    <3> QED
        BY <3>3, <3>4 DEF Full
  <2>2. ASSUME NEW p \in DOMAIN idx' PROVE Entered(p)'
    <3>1. /\ idx'[p].pay # NoKey => idx'[p].pay \in objs /\ idx'[p].pay.pos = p
          /\ idx'[p].hdr # NoKey => idx'[p].hdr \in objs /\ idx'[p].hdr.pos = p
        BY <1>1, ScanFindsAll
    <3>2. idx'[p].pay # NoKey => idx'[p].run = RunOf[idx'[p].pay.ar]
        BY <1>1, <3>1, ScanFindsAll
    <3>3. idx'[p].hdr # NoKey => idx'[p].run = RunOf[idx'[p].hdr.ar]
        BY <1>1, <3>1, ScanFindsAll
    <3>4. PICK o \in objs : o.pos = p
        BY <1>1, ScanFindsAll
    <3>5. o # NoKey /\ (o = idx'[p].pay \/ o = idx'[p].hdr)
        BY <1>1, <3>4, ScanFindsAll, StoredIsKey DEF IInv, Halves
    <3> QED
        BY <1>1, <3>1, <3>2, <3>3, <3>5 DEF Entered
  <2>3. \A o \in objs : o = idx'[o.pos].pay \/ o = idx'[o.pos].hdr
      BY <1>1, ScanFindsAll, StoredIsKey DEF IInv, Halves
  <2> QED
      BY <1>1, <1>2, <2>1, <2>2, <2>3 DEF Mirror
<1>5. Reserve' /\ Work' /\ Sweep' /\ Debris'
    BY <1>1 DEF Quiet, Reserve, InFlight, Work, Sweep, Debris
<1>6. Reclaim' /\ Live'
    BY <1>1, <1>3 DEF Quiet, Reclaim, NoReclaim, FileStoreAssumption, Live, Safe
<1> QED
    BY <1>3, <1>4, <1>5, <1>6 DEF Safe

-----------------------------------------------------------------------------
\* A removed file.

\* A reclaim takes a file of the placement: the footer while the placement has it.  Nobody
\* else misses it.
LEMMA TakenPlaced ==
  ASSUME FileStoreAssumption, IInv, Hold, Owned, NEW a \in Archives, placed[a] # <<>>,
         NEW p \in Range(placed[a]), Fresh(a) => p = Last(placed[a]),
         doomed = {}, doomed' = {}, placed' = placed, objs' \subseteq objs,
         \A b \in Archives, k \in Range(Kinds) : Spots(b, k)' = Spots(b, k) \ {p},
         \A b \in Archives : w'[b].st = "idle" \/ w'[b] = w[b],
         w[a].st = "idle"
  PROVE  /\ Hold' /\ Owned' /\ ~Fresh(a)'
         /\ \A b \in Archives \ {a} : Fresh(b)' <=> Fresh(b)
         /\ \A b \in Archives \ {a}, k \in Range(Kinds) : Spots(b, k)' = Spots(b, k)
<1>1. ASSUME NEW b \in Archives \ {a}, NEW k \in Range(Kinds) PROVE Spots(b, k)' = Spots(b, k)
  <2>1. p \notin Spots(b, k)
    <3> SUFFICES ASSUME p \in Spots(b, k) PROVE FALSE
        OBVIOUS
    <3>1. Key(p, b, k, "payload") \in objs /\ Key(p, b, k, "payload").pos = p
          /\ Key(p, b, k, "payload").ar = b
        BY SpotFacts DEF Key
    <3> QED
        BY <1>1, <3>1 DEF Hold
  <2>2. b \in Archives /\ Spots(b, k)' = Spots(b, k) \ {p}
      BY <1>1
  <2> QED
      BY <2>1, <2>2
<1>2. ~Fresh(a)'
  <2> SUFFICES ASSUME Fresh(a)' PROVE FALSE
      OBVIOUS
  <2>1. Last(placed[a]) \in Spots(a, Footer) \ {p}
      BY KindFacts DEF Fresh
  <2> QED
      BY <2>1 DEF Fresh
<1>3. \A b \in Archives \ {a} : Fresh(b)' <=> Fresh(b)
    BY <1>1, SameFresh, KindFacts
<1>4. Hold'
  <2>1. \A b \in Archives : Fresh(b)' => \A i \in DOMAIN Kinds :
          /\ placed[b][i] \in Spots(b, Kinds[i])'
          /\ \A q \in Spots(b, Kinds[i])' : q <= placed[b][i]
      BY <1>1, <1>2, <1>3, KindFacts DEF Hold
  <2> QED
      BY <2>1 DEF Hold
<1>5. Owned'
  <2> SUFFICES ASSUME NEW b \in Archives
               PROVE  \E own \in [Positions -> [DOMAIN Kinds -> Positions]] : Owns(b, own)'
      BY DEF Owned
  <2>1. PICK own \in [Positions -> [DOMAIN Kinds -> Positions]] : Owns(b, own)
      BY DEF Owned
  <2>2. CASE b # a
    <3>1. /\ Feet(b)' = Feet(b)
          /\ \A i \in DOMAIN Kinds : Spots(b, Kinds[i])' = Spots(b, Kinds[i])
        BY <1>1, <2>2, KindFacts DEF Feet
    <3>2. Owns(b, own)'
        BY <1>3, <2>1, <2>2, <3>1 DEF Owns
    <3> QED
        BY <3>2
  <2>3. CASE b = a
    <3>1. Feet(a)' = Feet(a) \ {p} /\ Feet(a) \subseteq Nat
        BY SpotFacts, KindFacts DEF Feet
    <3>2. \A f \in Feet(a)', i \in DOMAIN Kinds : own[f][i] \notin Range(placed[a])
      <4>1. CASE ~Fresh(a)
          BY <2>1, <2>3, <3>1, <4>1 DEF Owns
      <4>2. CASE Fresh(a)
        <5> SUFFICES ASSUME NEW f \in Feet(a), f # p, NEW i \in DOMAIN Kinds,
                            NEW j \in DOMAIN Kinds, own[f][i] = placed[a][j]
                     PROVE  FALSE
            BY <3>1, PlacedFacts DEF IInv
        <5>1. p = Last(placed[a]) /\ p \in Feet(a) /\ own[p] = placed[a]
            BY <2>1, <2>3, <4>2 DEF Fresh, Feet, Owns
        <5>2. own[f][i] \in Spots(a, Kinds[i]) /\ placed[a][j] \in Spots(a, Kinds[j])
            BY <2>1, <2>3, <4>2 DEF Owns, Hold
        <5>3. i = j
            BY <5>2, SpotFacts, KindFacts
        <5>4. f <= p
          <6>1. p = placed[a][Len(Kinds)]
              BY <5>1, PlacedFacts DEF IInv
          <6> QED
              BY <4>2, <6>1, KindFacts DEF Hold, Feet
        <5>5. f < p
          <6>1. f \in Nat /\ p \in Nat
              BY <3>1, <5>1
          <6> QED
              BY <5>4, <6>1
        <5>6. own[f][i] < own[p][i]
            BY <2>1, <2>3, <5>1, <5>5 DEF Owns
        <5>7. own[f][i] \in Nat
            BY <5>2, SpotFacts, KindFacts
        <5> QED
            BY <5>1, <5>3, <5>6, <5>7
      <4> QED
          BY <4>1, <4>2
    <3>3. \A f \in Feet(a)', i \in DOMAIN Kinds :
            own[f][i] \in Spots(a, Kinds[i])' /\ own[f][i] \notin doomed'
      <4> SUFFICES ASSUME NEW f \in Feet(a)', NEW i \in DOMAIN Kinds
                   PROVE  own[f][i] \in Spots(a, Kinds[i])'
          OBVIOUS
      <4>1. own[f][i] \in Spots(a, Kinds[i]) /\ own[f][i] # p
          BY <2>1, <2>3, <3>1, <3>2 DEF Owns
      <4>2. Spots(a, Kinds[i])' = Spots(a, Kinds[i]) \ {p}
          BY KindFacts
      <4> QED
          BY <4>1, <4>2
    <3>4. w'[a].st = "idle"
        OBVIOUS
    <3>5. Owns(a, own)'
        BY <1>2, <2>1, <2>3, <3>1, <3>2, <3>3, <3>4 DEF Owns
    <3> QED
        BY <2>3, <3>5
  <2> QED
      BY <2>2, <2>3
<1> QED
    BY <1>1, <1>2, <1>3, <1>4, <1>5

\* A sweep takes files it judged: nobody's own, and none a placement still names.
LEMMA TakenDoomed ==
  ASSUME FileStoreAssumption, IInv, Hold, Owned, Sweep, NEW gone \in SUBSET doomed,
         doomed' \subseteq doomed, placed' = placed, objs' \subseteq objs,
         \A b \in Archives : Feet(b)' = Feet(b),
         \A b \in Archives, k \in Range(Kinds) : Spots(b, k)' = Spots(b, k) \ gone,
         \A b \in Archives : w'[b].st = "idle"
  PROVE  /\ Hold' /\ Owned'
         /\ \A b \in Archives : Fresh(b)' <=> Fresh(b)
<1>1. \A b \in Archives, k \in Range(Kinds) : \A p \in Spots(b, k) :
        p \in KnownPositions => p \notin gone
    BY DEF Sweep
<1>2. ASSUME NEW b \in Archives PROVE Fresh(b)' <=> Fresh(b)
  <2>1. placed[b] # <<>> => Last(placed[b]) \in KnownPositions
      BY PlacedFacts DEF KnownPositions, IInv
  <2>2. Spots(b, Footer)' = Spots(b, Footer) \ gone
      BY KindFacts
  <2> QED
      BY <1>1, <2>1, <2>2, KindFacts DEF Fresh
<1>3. Hold'
  <2>1. ASSUME NEW b \in Archives, Fresh(b), NEW i \in DOMAIN Kinds
        PROVE  /\ placed[b][i] \in Spots(b, Kinds[i])'
               /\ \A q \in Spots(b, Kinds[i])' : q <= placed[b][i]
    <3>1. /\ placed[b][i] \in Spots(b, Kinds[i])
          /\ \A q \in Spots(b, Kinds[i]) : q <= placed[b][i]
        BY <2>1 DEF Hold
    <3>2. placed[b][i] \in KnownPositions
        BY <2>1, PlacedFacts DEF Fresh, KnownPositions, IInv
    <3>3. placed[b][i] \notin gone
        BY <1>1, <3>1, <3>2, KindFacts
    <3> QED
        BY <3>1, <3>3, KindFacts
  <2> QED
      BY <1>2, <2>1 DEF Hold
<1>4. Owned'
  <2> SUFFICES ASSUME NEW b \in Archives
               PROVE  \E own \in [Positions -> [DOMAIN Kinds -> Positions]] : Owns(b, own)'
      BY DEF Owned
  <2>1. PICK own \in [Positions -> [DOMAIN Kinds -> Positions]] : Owns(b, own)
      BY DEF Owned
  <2>2. \A f \in Feet(b), i \in DOMAIN Kinds :
          own[f][i] \in Spots(b, Kinds[i])' /\ own[f][i] \notin doomed'
      BY <2>1, KindFacts DEF Owns
  <2>3. Owns(b, own)'
      BY <1>2, <2>1, <2>2 DEF Owns
  <2> QED
      BY <2>3
<1> QED
    BY <1>2, <1>3, <1>4

\* After a removal the index and the medium still agree, and appends keep their places.
LEMMA RemovalFrame ==
  ASSUME FileStoreAssumption, IInv, Mirror, Reserve, up, NEW p, RemoveFile(p),
         \A b \in Archives : InFlight(b) => w[b].pos # p,
         UNCHANGED <<cloud, up, w>>
  PROVE  Mirror' /\ Reserve'
<1>1. /\ \A a \in Archives, k \in Range(Kinds) : Spots(a, k)' = Spots(a, k) \ {p}
      /\ objs' \subseteq objs
      /\ \A o \in objs : o.pos # p /\ o.pos \in DOMAIN idx => o \in objs'
      /\ \A o \in objs' : o \in torn <=> o \in torn'
      /\ DOMAIN idx' = DOMAIN idx \ {p}
      /\ \A q \in DOMAIN idx' : idx'[q] = idx[q]
    BY RemovalEffect
<1>2. \A b \in Archives : InFlight(b)' <=> InFlight(b)
    BY DEF InFlight
<1>3. Mirror'
  <2>1. ASSUME NEW a \in Archives, NEW k \in Range(Kinds), NEW q \in Spots(a, k)'
        PROVE  q \in DOMAIN idx' /\ idx'[q] = Full(q, a, k)
    <3>1. q \in Spots(a, k) /\ q # p
        BY <1>1, <2>1
    <3>2. q \in DOMAIN idx /\ idx[q] = Full(q, a, k)
        BY <3>1 DEF Mirror
    <3> QED
        BY <1>1, <3>1, <3>2
  <2>2. ASSUME NEW q \in DOMAIN idx' PROVE Entered(q)'
    <3>1. q \in DOMAIN idx /\ q # p /\ idx'[q] = idx[q] /\ Entered(q)
        BY <1>1 DEF Mirror
    <3>2. /\ idx[q].pay # NoKey => idx[q].pay.pos = q
          /\ idx[q].hdr # NoKey => idx[q].hdr.pos = q
        BY <3>1 DEF IInv, Types, Paired
    <3>3. /\ idx[q].pay # NoKey => idx[q].pay \in objs'
          /\ idx[q].hdr # NoKey => idx[q].hdr \in objs'
        BY <1>1, <3>1, <3>2 DEF Entered
    <3> QED
        BY <1>2, <3>1, <3>3 DEF Entered
  <2>3. \A o \in objs' : o.pos \in DOMAIN idx' =>
          \/ o = idx'[o.pos].pay \/ o = idx'[o.pos].hdr
          \/ \E b \in Archives : InFlight(b)' /\ w'[b].pos = o.pos
      BY <1>1, <1>2 DEF Mirror
  <2> QED
      BY <2>1, <2>2, <2>3 DEF Mirror
<1>4. Reserve'
  <2> SUFFICES ASSUME NEW b \in Archives, InFlight(b)' PROVE Reserves(b)'
      BY DEF Reserve
  <2>1. InFlight(b) /\ w[b].pos # p /\ w[b].pos \in DOMAIN idx
      BY <1>2 DEF Reserve, Reserves
  <2>2. \A k \in Range(Kinds) : Spots(b, k)' \subseteq Spots(b, k)
      BY <1>1
  <2>3. File(b, "payload") \in objs => File(b, "payload") \in objs'
    <3>1. File(b, "payload").pos = w[b].pos
        BY DEF File, Key
    <3> QED
        BY <1>1, <2>1, <3>1
  <2>4. \A o \in objs' : o.pos = w[b].pos => o \in objs /\ (o \in torn => o \in torn')
      BY <1>1
  <2>5. w[b].pos \in DOMAIN idx' /\ idx'[w[b].pos] = idx[w[b].pos]
      BY <1>1, <2>1
  <2> QED
      BY <2>1, <2>2, <2>3, <2>4, <2>5, ReservesKeep
<1> QED
    BY <1>3, <1>4

\* What a reclaim under way removes next.
LEMMA ReclaimTakes ==
  ASSUME FileStoreAssumption, IInv, Safe, rec.rest # <<>>
  PROVE  /\ rec.ar \in Archives /\ up /\ doomed = {} /\ placed[rec.ar] # <<>>
         /\ w[rec.ar].st = "idle"
         /\ Head(rec.rest) \in Range(placed[rec.ar])
         /\ Fresh(rec.ar) => Head(rec.rest) = Last(placed[rec.ar])
         /\ \A b \in Archives : InFlight(b) => w[b].pos # Head(rec.rest)
         /\ Range(Tail(rec.rest)) \subseteq Range(placed[rec.ar])
<1>1. rec # NoReclaim /\ rec.rest \in Seq(Positions)
    BY DEF NoReclaim, IInv, Types
<1>2. rec.ar \in Archives /\ doomed = {}
    BY <1>1 DEF Safe, Reclaim, Sweep, IInv, Types
<1>3. /\ up /\ placed[rec.ar] # <<>> /\ Range(rec.rest) \subseteq Range(placed[rec.ar])
      /\ Fresh(rec.ar) => Head(rec.rest) = Last(placed[rec.ar])
    BY <1>2 DEF Safe, Reclaim
<1>4. Head(rec.rest) \in Range(rec.rest) /\ Range(Tail(rec.rest)) \subseteq Range(rec.rest)
  <2>1. /\ Len(rec.rest) \in Nat \ {0} /\ DOMAIN rec.rest = 1 .. Len(rec.rest)
        /\ Head(rec.rest) = rec.rest[1]
        /\ DOMAIN Tail(rec.rest) = 1 .. Len(rec.rest) - 1
        /\ \A i \in 1 .. Len(rec.rest) - 1 : Tail(rec.rest)[i] = rec.rest[i + 1]
      BY <1>1
  <2>2. \A i \in 1 .. Len(rec.rest) - 1 : i + 1 \in 1 .. Len(rec.rest)
      BY <2>1
  <2>3. 1 \in 1 .. Len(rec.rest)
      BY <2>1
  <2> QED
      BY <2>1, <2>2, <2>3 DEF Range
<1>5. w[rec.ar].st = "idle" /\ \A b \in Archives : InFlight(b) => w[b].pos # Head(rec.rest)
  <2>1. \A b \in Archives : InFlight(b) => w[b].st # "idle"
      BY DEF InFlight
  <2> QED
      BY <1>2, <1>3, <1>4, <2>1 DEF Safe, Work, Works
<1> QED
    BY <1>2, <1>3, <1>4, <1>5

\* A reclaim's removal: the footer first, then what no footer owns.
LEMMA ReclaimFileSafe ==
  ASSUME FileStoreAssumption, IInv, IInv', Safe, ReclaimFile
  PROVE  Safe'
<1>1. PICK a \in Archives : a = rec.ar
    BY ReclaimTakes DEF ReclaimFile
<1>2. PICK p : p = Head(rec.rest)
    OBVIOUS
<1>3. /\ up /\ doomed = {} /\ placed[a] # <<>> /\ w[a].st = "idle"
      /\ p \in Range(placed[a]) /\ (Fresh(a) => p = Last(placed[a]))
      /\ \A b \in Archives : InFlight(b) => w[b].pos # p
      /\ Range(Tail(rec.rest)) \subseteq Range(placed[a])
    BY <1>1, <1>2, ReclaimTakes DEF ReclaimFile
<1>4. /\ RemoveFile(p) /\ rec'.ar = a /\ rec'.rest = Tail(rec.rest) /\ swept' = FALSE
      /\ UNCHANGED <<cloud, up, w, placed, doomed, cuts>>
  <2>1. /\ rec' = [rec EXCEPT !.rest = Tail(@)]
        /\ rec \in [ar : Archives \cup {None}, rest : Seq(Positions)]
      BY DEF ReclaimFile, IInv, Types
  <2> QED
      BY <1>1, <1>2, <2>1 DEF ReclaimFile
<1>5. /\ \A b \in Archives, k \in Range(Kinds) : Spots(b, k)' = Spots(b, k) \ {p}
      /\ objs' \subseteq objs
    BY <1>3, <1>4, RemovalEffect DEF Safe
<1>6. Mirror' /\ Reserve'
    BY <1>3, <1>4, RemovalFrame DEF Safe
<1>7. /\ Hold' /\ Owned' /\ ~Fresh(a)'
      /\ \A b \in Archives \ {a} : Fresh(b)' <=> Fresh(b)
      /\ \A b \in Archives \ {a}, k \in Range(Kinds) : Spots(b, k)' = Spots(b, k)
    BY <1>3, <1>4, <1>5, TakenPlaced DEF Safe
<1>8. Work'
  <2> SUFFICES ASSUME NEW b \in Archives, w[b].st # "idle" PROVE Works(b)'
      BY <1>4 DEF Work
  <2>1. b # a /\ (InFlight(b)' <=> InFlight(b)) /\ rec'.ar # b
      BY <1>3, <1>4 DEF InFlight
  <2> QED
      BY <1>4, <1>7, <2>1, WorksKeep DEF Safe
<1>9. Sweep' /\ Debris'
    BY <1>3, <1>4 DEF Sweep, Debris
<1>10. Reclaim'
    BY <1>3, <1>4, <1>7 DEF Reclaim, FileStoreAssumption
<1>11. Live'
    BY <1>1, <1>4, <1>7 DEF Live, Safe
<1> QED
    BY <1>6, <1>7, <1>8, <1>9, <1>10, <1>11 DEF Safe

\* A sweep's removal: of what it judged, and no archive's last footer.
LEMMA SweepFileSafe ==
  ASSUME FileStoreAssumption, IInv, IInv', Safe, SweepFile
  PROVE  Safe'
<1>1. PICK p : p = Min(doomed)
    OBVIOUS
<1>2. p \in doomed
  <2>1. doomed \in SUBSET Nat /\ doomed # {}
      BY DEF SweepFile, IInv, Types, Positions
  <2> QED
      BY <1>1, <2>1, SmallestPosition
<1>3. /\ up /\ rec = NoReclaim /\ \A b \in Archives : w[b].st = "idle"
      /\ \A b \in Archives : ~InFlight(b)
    BY <1>2 DEF Safe, Sweep, InFlight
<1>4. /\ RemoveFile(p) /\ doomed' = doomed \ {p}
      /\ UNCHANGED <<cloud, up, w, placed, rec, swept, cuts>>
    BY <1>1 DEF SweepFile
<1>5. /\ \A b \in Archives, k \in Range(Kinds) : Spots(b, k)' = Spots(b, k) \ {p}
      /\ objs' \subseteq objs
      /\ \A o \in objs : o.pos # p /\ o.pos \in DOMAIN idx => o \in objs'
      /\ \A o \in objs' : o \in torn <=> o \in torn'
      /\ DOMAIN idx' = DOMAIN idx \ {p}
    BY <1>3, <1>4, RemovalEffect DEF Safe
<1>6. Mirror' /\ Reserve'
    BY <1>3, <1>4, RemovalFrame DEF Safe
<1>7. \A b \in Archives : Feet(b)' = Feet(b)
    BY <1>2, <1>4, <1>5, KindFacts DEF Feet
<1>8. Hold' /\ Owned' /\ \A b \in Archives : Fresh(b)' <=> Fresh(b)
    BY <1>2, <1>3, <1>4, <1>5, <1>7, TakenDoomed DEF Safe
<1>9. Work' /\ Reclaim' /\ Live'
    BY <1>3, <1>4, <1>8 DEF Work, Reclaim, Live, Safe
<1>10. Sweep'
  <2>1. KnownPositions' = KnownPositions
      BY <1>4 DEF KnownPositions
  <2>2. \A b \in Archives, k \in Range(Kinds) :
          Spots(b, k)' \cap doomed' \cap KnownPositions' = {}
      BY <1>4, <1>5, <2>1 DEF Safe, Sweep
  <2>3. \A b \in Archives : Spots(b, Footer)' \cap doomed' # {} => Feet(b)' # {}
      BY <1>2, <1>4, <1>5, <1>7, KindFacts DEF Safe, Sweep
  <2> QED
      BY <1>3, <1>4, <2>2, <2>3 DEF Sweep
<1>11. Debris'
  <2> SUFFICES ASSUME swept, NEW o \in objs', o.pos \in DOMAIN idx', placed[o.ar] = <<>>,
                      o.pos \notin KnownPositions, o.pos \notin doomed'
               PROVE  Committed(o.ar)' \/ \E t \in torn' : t.pos = o.pos
      BY <1>4 DEF Debris, KnownPositions
  <2>1. /\ o \in objs /\ o.pos # p /\ o.pos \in DOMAIN idx /\ o.pos \notin doomed
        /\ o.ar \in Archives
      BY <1>4, <1>5, StoredIsKey DEF IInv
  <2>2. Committed(o.ar) \/ \E t \in torn : t.pos = o.pos
      BY <2>1 DEF Debris, Safe
  <2>3. ASSUME Committed(o.ar) PROVE Committed(o.ar)'
    <3>1. Spots(o.ar, Footer) # {}
        BY <2>3 DEF Committed, Spots
    <3>2. Feet(o.ar) # {}
        BY <1>2, <2>1, <3>1 DEF Safe, Sweep, Feet
    <3>3. Feet(o.ar)' # {}
        BY <1>7, <2>1, <3>2
    <3> QED
        BY <3>3 DEF Feet, Spots, Committed
  <2>4. ASSUME NEW t \in torn, t.pos = o.pos PROVE t \in torn'
      BY <1>5, <2>1, <2>4 DEF IInv, Types
  <2> QED
      BY <2>2, <2>3, <2>4
<1> QED
    BY <1>6, <1>8, <1>9, <1>10, <1>11 DEF Safe

\* A crash: what was in hand goes with the process, and the file being removed may have
\* lost its payload.
LEMMA CrashSafe ==
  ASSUME FileStoreAssumption, IInv, IInv', Safe, Crash, ~mixed'
  PROVE  Safe'
<1>1. /\ up /\ up' = FALSE /\ DoomedFooters = {} /\ rec' = NoReclaim /\ doomed' = {}
      /\ w' = [a \in Archives |-> Idle] /\ swept' = FALSE /\ torn' = torn /\ placed' = placed
      /\ cuts' = IF rec # NoReclaim THEN cuts + 1 ELSE cuts
    BY DEF Crash
<1>2. \A b \in Archives : w'[b].st = "idle" /\ ~InFlight(b)'
    BY <1>1 DEF Idle, InFlight
<1>3. Mirror' /\ Reserve' /\ Work' /\ Sweep' /\ Debris' /\ Reclaim'
    BY <1>1, <1>2 DEF Mirror, Reserve, Work, Sweep, Debris, Reclaim, NoReclaim,
                      FileStoreAssumption
<1>4. \A b \in Archives : Spots(b, Footer) \cap doomed = {}
    BY <1>1 DEF DoomedFooters, Spots
<1>5. Hold' /\ Owned' /\ (rec = NoReclaim => \A b \in Archives : Fresh(b)' <=> Fresh(b))
  <2>1. PICK lost \in {{}} \cup
          {{idx[p].pay} : p \in DOMAIN idx \cap
                (IF rec.rest # <<>> THEN {Head(rec.rest)}
                 ELSE IF doomed # {} THEN {Min(doomed)} ELSE {})} :
         objs' = objs \ lost
      BY DEF Crash
  <2>2. ASSUME NEW gone \in SUBSET doomed, objs' \subseteq objs,
               \A b \in Archives, k \in Range(Kinds) : Spots(b, k)' = Spots(b, k) \ gone
        PROVE  Hold' /\ Owned' /\ \A b \in Archives : Fresh(b)' <=> Fresh(b)
    <3>1. \A b \in Archives : Feet(b)' = Feet(b)
        BY <1>1, <1>4, <2>2, KindFacts DEF Feet
    <3> QED
        BY <1>1, <1>2, <2>2, <3>1, TakenDoomed DEF Safe
  <2>3. CASE lost = {}
    <3>1. /\ {} \in SUBSET doomed /\ objs' \subseteq objs
          /\ \A b \in Archives, k \in Range(Kinds) : Spots(b, k)' = Spots(b, k) \ {}
        BY <1>1, <2>1, <2>3, SameSpots
    <3> QED
        BY <2>2, <3>1
  <2>4. CASE lost # {}
    <3>1. PICK p \in DOMAIN idx : /\ lost = {idx[p].pay}
                                  /\ rec.rest # <<>> => p = Head(rec.rest)
                                  /\ rec.rest = <<>> => p = Min(doomed) /\ doomed # {}
        BY <2>1, <2>4
    <3>2. /\ \A b \in Archives, k \in Range(Kinds) : Spots(b, k)' = Spots(b, k) \ {p}
          /\ objs' \subseteq objs
        BY <1>1, <2>1, <3>1, CrashEffect DEF Safe
    <3>3. CASE rec.rest # <<>>
      <4>1. PICK a \in Archives : a = rec.ar
          BY <3>3, ReclaimTakes
      <4>2. /\ doomed = {} /\ placed[a] # <<>> /\ w[a].st = "idle"
            /\ p \in Range(placed[a]) /\ (Fresh(a) => p = Last(placed[a]))
          BY <3>1, <3>3, <4>1, ReclaimTakes
      <4>3. Hold' /\ Owned'
          BY <1>1, <1>2, <3>2, <4>2, TakenPlaced DEF Safe
      <4>4. rec # NoReclaim
          BY <3>3 DEF NoReclaim
      <4> QED
          BY <4>3, <4>4
    <3>4. CASE rec.rest = <<>>
      <4>1. p \in doomed
        <5>1. doomed \in SUBSET Nat
            BY DEF IInv, Types, Positions
        <5> QED
            BY <3>1, <3>4, <5>1, SmallestPosition
      <4> QED
          BY <2>2, <3>2, <4>1
    <3> QED
        BY <3>3, <3>4
  <2> QED
      BY <2>3, <2>4
<1>6. Live'
  <2> SUFFICES ASSUME cuts' = 0, NEW b \in Archives, placed[b] # <<>> PROVE Fresh(b)'
      BY <1>1 DEF Live
  <2>1. cuts = 0 /\ rec = NoReclaim
      BY <1>1 DEF IInv, Types
  <2>2. rec.ar # b
      BY <2>1 DEF NoReclaim, FileStoreAssumption
  <2> QED
      BY <1>5, <2>1, <2>2 DEF Live, Safe
<1> QED
    BY <1>3, <1>5, <1>6 DEF Safe

\* What a sweep or a rebuild sights of an archive's kind is what can be read and is not known.
LEMMA SightedAreSpots ==
  ASSUME FileStoreAssumption, IInv, Mirror, up, NEW known, NEW a \in Archives,
         NEW k \in Range(Kinds)
  PROVE  Sighted(FilesExcept(known), a, k) = Spots(a, k) \ known
<1>1. ASSUME NEW p \in Spots(a, k) \ known PROVE p \in Sighted(FilesExcept(known), a, k)
  <2>1. /\ Key(p, a, k, "payload") \in objs /\ Key(p, a, k, "hdr") \in objs \ torn
        /\ p \in DOMAIN idx /\ idx[p] = Full(p, a, k)
      BY SpotFacts DEF Mirror
  <2>2. /\ idx[p].pay = Key(p, a, k, "payload") /\ idx[p].hdr = Key(p, a, k, "hdr")
        /\ Key(p, a, k, "hdr").ar = a /\ Key(p, a, k, "hdr").kind = k
      BY <2>1 DEF Full, Key
  <2>3. idx[p].pay # NoKey /\ idx[p].hdr # NoKey
      BY <2>1, <2>2, StoredIsKey DEF IInv
  <2> QED
      BY <2>1, <2>2, <2>3 DEF Sighted, FilesExcept, Incomplete
<1>2. ASSUME NEW p \in Sighted(FilesExcept(known), a, k) PROVE p \in Spots(a, k) \ known
  <2>1. /\ p \in DOMAIN idx \ known /\ p \in Positions /\ idx[p].pay # NoKey
        /\ idx[p].hdr # NoKey /\ idx[p].hdr \in objs \ torn
        /\ idx[p].hdr.ar = a /\ idx[p].hdr.kind = k
      BY DEF Sighted, FilesExcept, Incomplete, IInv, Types
  <2>2. /\ idx[p].hdr.pos = p /\ idx[p].hdr.half = "hdr"
        /\ idx[p].pay.pos = p /\ idx[p].pay.half = "payload" /\ idx[p].pay \in objs
      BY <2>1 DEF IInv, Types, Paired, Mirror, Entered
  <2>3. idx[p].pay.ar = a /\ idx[p].pay.kind = k
      BY <2>1, <2>2 DEF IInv, OneFilePerPosition
  <2>4. idx[p].hdr = Key(p, a, k, "hdr") /\ idx[p].pay = Key(p, a, k, "payload")
      BY <2>1, <2>2, <2>3, StoredIsKey DEF IInv
  <2> QED
      BY <2>1, <2>2, <2>4 DEF Spots, Readable
<1> QED
    BY <1>1, <1>2

\* Of an archive's readable files, the catalog knows those its own placement names.
LEMMA KnownAreOwn ==
  ASSUME FileStoreAssumption, IInv, Hold, NEW a \in Archives, NEW k \in Range(Kinds),
         NEW p \in Spots(a, k), p \in KnownPositions
  PROVE  p \in Range(placed[a]) /\ placed[a] # <<>>
<1>1. PICK c \in Archives : p \in Range(placed[c])
    BY DEF KnownPositions
<1>2. Key(p, a, k, "payload") \in objs
    BY SpotFacts
<1>3. c = a
    BY <1>1, <1>2 DEF Hold, Key
<1> QED
    BY <1>1, <1>3, RangeOfEmpty

\* What a footer owns the catalog knows only of the footer it placed.
LEMMA UnknownAreOwned ==
  ASSUME FileStoreAssumption, IInv, Hold, NEW a \in Archives, doomed = {},
         NEW own \in [Positions -> [DOMAIN Kinds -> Positions]], Owns(a, own),
         NEW f \in Spots(a, Footer)
  PROVE  /\ f \in KnownPositions => Fresh(a) /\ f = Last(placed[a])
         /\ f \notin KnownPositions =>
              \A i \in DOMAIN Kinds : own[f][i] \in Spots(a, Kinds[i]) \ KnownPositions
<1>1. /\ f \in Feet(a) /\ own[f][Len(Kinds)] = f /\ Len(Kinds) \in DOMAIN Kinds
      /\ \A i \in DOMAIN Kinds : own[f][i] \in Spots(a, Kinds[i])
    BY KindFacts DEF Feet, Owns
<1>2. ASSUME NEW i \in DOMAIN Kinds, own[f][i] \in KnownPositions
      PROVE  Fresh(a) /\ f = Last(placed[a])
  <2>1. own[f][i] \in Range(placed[a]) /\ placed[a] # <<>>
      BY <1>1, <1>2, KnownAreOwn, KindFacts
  <2>2. Fresh(a)
      BY <1>1, <2>1 DEF Owns
  <2>3. PICK j \in DOMAIN Kinds : own[f][i] = placed[a][j]
      BY <2>1, PlacedFacts DEF IInv
  <2>4. placed[a][j] \in Spots(a, Kinds[j])
      BY <2>2 DEF Hold
  <2>5. i = j
      BY <1>1, <2>3, <2>4, SpotFacts, KindFacts
  <2>6. PICK l : l = Last(placed[a])
      OBVIOUS
  <2>7. l \in Feet(a) /\ own[l] = placed[a] /\ own[l][i] = own[f][i]
      BY <2>2, <2>3, <2>5, <2>6 DEF Fresh, Feet, Owns
  <2>8. f \in Nat /\ l \in Nat /\ own[f][i] \in Nat
      BY <1>1, <2>7, SpotFacts, KindFacts DEF Feet
  <2>9. f = l
    <3>1. \A x, y \in Nat : x < y \/ y < x \/ x = y
        OBVIOUS
    <3>2. ~(f < l)
        BY <1>1, <2>7, <2>8 DEF Owns
    <3>3. ~(l < f)
        BY <1>1, <2>7, <2>8 DEF Owns
    <3> QED
        BY <2>8, <3>1, <3>2, <3>3
  <2> QED
      BY <2>2, <2>6, <2>9
<1>3. f \in KnownPositions => Fresh(a) /\ f = Last(placed[a])
    BY <1>1, <1>2
<1>4. Fresh(a) => Last(placed[a]) \in KnownPositions
    BY PlacedFacts DEF Fresh, KnownPositions, IInv
<1> QED
    BY <1>1, <1>2, <1>3, <1>4

\* Where a rebuild or a sweep finds an archive's latest file of a kind.
LEMMA LatestSpot ==
  ASSUME FileStoreAssumption, NEW a \in Archives, NEW k \in Range(Kinds), NEW known,
         Spots(a, k) \ known # {}
  PROVE  /\ Max(Spots(a, k) \ known) \in Spots(a, k) \ known
         /\ \A q \in Spots(a, k) \ known : q <= Max(Spots(a, k) \ known)
<1>1. Spots(a, k) \ known \in SUBSET (0 .. MaxPos) /\ MaxPos \in Nat
    BY DEF Spots, Positions, FileStoreAssumption
<1> QED
    BY <1>1, LargestPosition

\* A sweep judges: it takes neither a placed file nor an archive's latest ones.
LEMMA StartSweepSafe ==
  ASSUME FileStoreAssumption, IInv, IInv', Safe, StartSweep
  PROVE  Safe'
<1> DEFINE K == KnownPositions
           F == FilesExcept(K)
<1>1. /\ up /\ Quiet /\ doomed = {} /\ rec = NoReclaim
      /\ doomed' = OrphanFiles(K) \cup IncompleteFiles /\ swept' = TRUE
      /\ UNCHANGED <<cloud, objs, torn, up, idx, w, placed, rec, cuts>>
      /\ \A b \in Archives : w[b].st = "idle" /\ ~InFlight(b)
    BY DEF StartSweep, Quiet, InFlight
<1>2. /\ \A b \in Archives, k \in Range(Kinds) : Spots(b, k)' = Spots(b, k)
      /\ Mirror' /\ Reserve'
    BY <1>1, CatalogFrame
<1>3. \A b \in Archives : Fresh(b)' <=> Fresh(b)
    BY <1>1, <1>2, SameFresh, KindFacts
<1>4. \A b \in Archives, k \in Range(Kinds) : Sighted(F, b, k) = Spots(b, k) \ K
    BY <1>1, SightedAreSpots DEF Safe
<1>5. ASSUME NEW b \in Archives, NEW k \in Range(Kinds), NEW p \in Spots(b, k)
      PROVE  p \in doomed' <=>
               p \notin K /\ (Spots(b, Footer) \ K # {} => p # Max(Spots(b, k) \ K))
  <2>1. p \in DOMAIN idx /\ idx[p] = Full(p, b, k)
      BY <1>1 DEF Safe, Mirror
  <2>2. /\ idx[p].pay = Key(p, b, k, "payload") /\ idx[p].hdr = Key(p, b, k, "hdr")
        /\ idx[p].hdr.ar = b /\ idx[p].hdr.kind = k
      BY <2>1 DEF Full, Key
  <2>3. idx[p].pay # NoKey /\ idx[p].hdr # NoKey
      BY <2>2, SpotFacts, StoredIsKey DEF IInv
  <2>4. p \notin IncompleteFiles
      BY <2>3 DEF IncompleteFiles
  <2>5. p \in F <=> p \notin K
      BY <1>4 DEF Sighted, F, FilesExcept
  <2>6. p \in OrphanFiles(K) <=>
          p \in F /\ ~(Sighted(F, b, Footer) # {} /\ p = Max(Sighted(F, b, k)))
      BY <2>2 DEF OrphanFiles, Located, F
  <2>7. Sighted(F, b, Footer) = Spots(b, Footer) \ K /\ Sighted(F, b, k) = Spots(b, k) \ K
      BY <1>4, KindFacts
  <2> QED
      BY <1>1, <2>4, <2>5, <2>6, <2>7
<1> HIDE DEF K, F
<1>6. Work' /\ Reclaim' /\ Live'
    BY <1>1, <1>3 DEF Work, Reclaim, NoReclaim, FileStoreAssumption, Live, Safe
<1>7. Hold'
    BY <1>1, <1>2, <1>3, KindFacts DEF Safe, Hold
<1>8. \A b \in Archives, k \in Range(Kinds) :
        Spots(b, Footer) \ K # {} /\ Spots(b, k) \ K # {} =>
          /\ Max(Spots(b, k) \ K) \in Spots(b, k) \ K
          /\ Max(Spots(b, k) \ K) \notin doomed'
          /\ \A q \in Spots(b, k) \ K : q <= Max(Spots(b, k) \ K)
    BY <1>5, LatestSpot
<1>9. Sweep'
  <2>1. KnownPositions' = K
      BY <1>1 DEF KnownPositions, K
  <2>2. \A b \in Archives, k \in Range(Kinds) :
          Spots(b, k)' \cap doomed' \cap KnownPositions' = {}
      BY <1>2, <1>5, <2>1
  <2>3. ASSUME NEW b \in Archives, Spots(b, Footer)' \cap doomed' # {} PROVE Feet(b)' # {}
    <3>1. Spots(b, Footer) \ K # {}
      <4>1. PICK p : p \in Spots(b, Footer) /\ p \in doomed'
          BY <1>2, <2>3, KindFacts
      <4>2. p \notin K
          BY <1>5, <4>1, KindFacts
      <4> QED
          BY <4>1, <4>2
    <3>2. Max(Spots(b, Footer) \ K) \in Spots(b, Footer)' \ doomed'
        BY <1>2, <1>8, <3>1, KindFacts
    <3> QED
        BY <3>2 DEF Feet
  <2> QED
      BY <1>1, <2>2, <2>3 DEF Sweep
<1>10. Debris'
  <2> SUFFICES ASSUME NEW o \in objs, ~Committed(o.ar), o.pos \notin K, o.pos \in DOMAIN idx,
                      \A t \in torn : t.pos # o.pos
               PROVE  o.pos \in doomed'
      BY <1>1 DEF Debris, Committed, Readable, KnownPositions, K
  <2>1. PICK p : p = o.pos
      OBVIOUS
  <2>2. o # NoKey /\ (o = idx[p].pay \/ o = idx[p].hdr) /\ o.ar \in Archives /\ Entered(p)
      BY <1>1, <2>1, StoredIsKey DEF Safe, Mirror, IInv
  <2>3. CASE idx[p].pay = NoKey \/ idx[p].hdr = NoKey
    <3>1. p \in IncompleteFiles
        BY <2>1, <2>2, <2>3 DEF IncompleteFiles
    <3> QED
        BY <1>1, <2>1, <3>1
  <2>4. CASE idx[p].pay # NoKey /\ idx[p].hdr # NoKey
    <3>1. idx[p].hdr \in objs /\ idx[p].hdr.pos = p
        BY <2>1, <2>2, <2>4 DEF Entered, IInv, Types, Paired
    <3>2. idx[p].hdr \notin torn /\ idx[p].hdr.ar = o.ar
        BY <2>1, <3>1 DEF IInv, OneFilePerPosition
    <3>3. p \in F
        BY <2>1, <2>4, <3>1, <3>2 DEF F, FilesExcept, Incomplete
    <3>4. Sighted(F, idx[p].hdr.ar, Footer) = {}
      <4>1. Spots(o.ar, Footer) = {}
          BY DEF Committed, Spots
      <4> QED
          BY <1>4, <2>2, <3>2, <4>1, KindFacts
    <3>5. p \in OrphanFiles(K)
        BY <3>3, <3>4 DEF OrphanFiles, F
    <3> QED
        BY <1>1, <2>1, <3>5
  <2> QED
      BY <2>3, <2>4
<1>11. Owned'
  <2> SUFFICES ASSUME NEW b \in Archives
               PROVE  \E own \in [Positions -> [DOMAIN Kinds -> Positions]] : Owns(b, own)'
      BY DEF Owned
  <2>1. PICK own \in [Positions -> [DOMAIN Kinds -> Positions]] : Owns(b, own)
      BY DEF Safe, Owned
  <2>2. Feet(b) = Spots(b, Footer) /\ Feet(b)' = Spots(b, Footer) \ doomed'
      BY <1>1, <1>2, KindFacts DEF Feet
  <2>3. /\ \A f \in Spots(b, Footer) : f \in K => Fresh(b) /\ f = Last(placed[b])
        /\ \A f \in Spots(b, Footer) : f \notin K =>
             \A i \in DOMAIN Kinds : own[f][i] \in Spots(b, Kinds[i]) \ K
      BY <1>1, <2>1, UnknownAreOwned DEF Safe, K
  <2>4. placed[b] # <<>> => Range(placed[b]) \subseteq K
      BY DEF KnownPositions, K
  <2>5. Fresh(b) => /\ Last(placed[b]) \in Feet(b) /\ own[Last(placed[b])] = placed[b]
                    /\ Last(placed[b]) \in K
                    /\ \A i \in DOMAIN Kinds :
                         /\ placed[b][i] \in Spots(b, Kinds[i]) /\ placed[b][i] \in K
                         /\ \A q \in Spots(b, Kinds[i]) : q <= placed[b][i]
      BY <2>1, <2>2, <2>4, PlacedFacts DEF Fresh, Owns, Safe, Hold, IInv
  <2>8. ASSUME NEW i \in DOMAIN Kinds
        PROVE  /\ Kinds[i] \in Range(Kinds) /\ Spots(b, Kinds[i])' = Spots(b, Kinds[i])
               /\ Spots(b, Kinds[i]) \subseteq Positions
               /\ \A p \in Spots(b, Kinds[i]) : p \in K => p \notin doomed'
      BY <1>2, <1>5, KindFacts DEF Spots
  <2>6. CASE Spots(b, Footer) \ K = {}
    <3>1. \A f \in Feet(b)' : f \in Feet(b) /\ Fresh(b) /\ f = Last(placed[b])
        BY <2>2, <2>3, <2>6
    <3>2. \A f \in Feet(b)', i \in DOMAIN Kinds :
            own[f][i] \in Spots(b, Kinds[i])' /\ own[f][i] \notin doomed'
      <4> SUFFICES ASSUME NEW f \in Feet(b)', NEW i \in DOMAIN Kinds
                   PROVE  own[f][i] \in Spots(b, Kinds[i])' /\ own[f][i] \notin doomed'
          OBVIOUS
      <4>1. own[f][i] \in Spots(b, Kinds[i]) /\ own[f][i] \in K
          BY <2>5, <3>1
      <4> QED
          BY <2>8, <4>1
    <3>3. Owns(b, own)'
        BY <1>1, <1>3, <2>1, <3>1, <3>2 DEF Owns
    <3> QED
        BY <3>3
  <2>7. CASE Spots(b, Footer) \ K # {}
    <3>1. PICK gm : gm = Max(Spots(b, Footer) \ K)
        OBVIOUS
    <3>0. ASSUME NEW i \in DOMAIN Kinds
          PROVE  /\ Max(Spots(b, Kinds[i]) \ K) \in Spots(b, Kinds[i]) \ K
                 /\ Max(Spots(b, Kinds[i]) \ K) \in Positions
                 /\ Max(Spots(b, Kinds[i]) \ K) \notin doomed'
      <4>1. Spots(b, Kinds[i]) \ K # {}
          BY <2>3, <2>7
      <4>2. /\ Max(Spots(b, Kinds[i]) \ K) \in Spots(b, Kinds[i]) \ K
            /\ Max(Spots(b, Kinds[i]) \ K) \notin doomed'
          BY <1>8, <2>7, <2>8, <4>1
      <4> QED
          BY <2>8, <4>2
    <3>2. PICK latest \in [DOMAIN Kinds -> Positions] :
            latest = [i \in DOMAIN Kinds |-> Max(Spots(b, Kinds[i]) \ K)]
        BY <3>0
    <3>4. \A i \in DOMAIN Kinds : /\ latest[i] \in Spots(b, Kinds[i]) \ K
                                  /\ latest[i] \notin doomed'
        BY <3>0, <3>2
    <3>3. /\ gm \in Spots(b, Footer) \ K /\ gm \notin doomed' /\ gm \in Positions
          /\ latest[Len(Kinds)] = gm
      <4>1. latest[Len(Kinds)] = gm /\ latest[Len(Kinds)] \in Positions
          BY <3>1, <3>2, KindFacts
      <4> QED
          BY <3>4, <4>1, KindFacts
    <3>5. PICK own2 \in [Positions -> [DOMAIN Kinds -> Positions]] :
            own2 = [own EXCEPT ![gm] = latest]
        BY <2>1
    <3>6. own2[gm] = latest /\ \A f \in Positions \ {gm} : own2[f] = own[f]
        BY <3>3, <3>5
    <3>7. \A f \in Feet(b)' : f = gm \/ (Fresh(b) /\ f = Last(placed[b]) /\ f # gm)
      <4> SUFFICES ASSUME NEW f \in Spots(b, Footer), f \notin doomed', f # gm
                   PROVE  Fresh(b) /\ f = Last(placed[b])
          BY <2>2
      <4>1. f \in K
          BY <1>5, <2>7, <3>1, KindFacts
      <4> QED
          BY <2>3, <4>1
    <3>8. Fresh(b) => /\ Last(placed[b]) \in Positions \ {gm} /\ gm <= Last(placed[b])
                      /\ own2[Last(placed[b])] = placed[b]
      <4> SUFFICES ASSUME Fresh(b)
                   PROVE  /\ Last(placed[b]) \in Positions \ {gm} /\ gm <= Last(placed[b])
                          /\ own2[Last(placed[b])] = placed[b]
          OBVIOUS
      <4>1. Last(placed[b]) = placed[b][Len(Kinds)] /\ Last(placed[b]) \in Positions
          BY PlacedFacts DEF Fresh, IInv
      <4>2. gm <= Last(placed[b])
        <5>1. \A q \in Spots(b, Footer) : q <= placed[b][Len(Kinds)]
            BY <2>5, KindFacts
        <5> QED
            BY <3>3, <4>1, <5>1
      <4> QED
          BY <2>5, <3>3, <3>6, <4>1, <4>2
    <3>9. \A f \in Feet(b)' : own2[f][Len(Kinds)] = f
      <4>1. Fresh(b) => placed[b][Len(Kinds)] = Last(placed[b])
          BY PlacedFacts DEF Fresh, IInv
      <4> QED
          BY <3>3, <3>6, <3>7, <3>8, <4>1
    <3>10. \A f \in Feet(b)', i \in DOMAIN Kinds :
             own2[f][i] \in Spots(b, Kinds[i])' /\ own2[f][i] \notin doomed'
      <4> SUFFICES ASSUME NEW f \in Feet(b)', NEW i \in DOMAIN Kinds
                   PROVE  own2[f][i] \in Spots(b, Kinds[i]) /\ own2[f][i] \notin doomed'
          BY <2>8
      <4>1. CASE f = gm
          BY <3>4, <3>6, <4>1
      <4>2. CASE f # gm
        <5>1. Fresh(b) /\ own2[f] = placed[b]
            BY <3>7, <3>8, <4>2
        <5> QED
            BY <2>5, <2>8, <5>1
      <4> QED
          BY <4>1, <4>2
    <3>11. \A f, g \in Feet(b)' : f < g => \A i \in DOMAIN Kinds : own2[f][i] < own2[g][i]
      <4> SUFFICES ASSUME NEW f \in Feet(b)', NEW g \in Feet(b)', f < g,
                          NEW i \in DOMAIN Kinds
                   PROVE  own2[f][i] < own2[g][i]
          OBVIOUS
      <4>1. gm \in Nat /\ (Fresh(b) => Last(placed[b]) \in Nat)
          BY <3>3, <3>8 DEF Positions
      <4>2. f = gm /\ g # gm /\ Fresh(b) /\ g = Last(placed[b])
          BY <3>7, <3>8, <4>1
      <4>3. latest[i] <= placed[b][i] /\ latest[i] # placed[b][i]
          BY <2>5, <3>4, <4>2
      <4>4. latest[i] \in Nat /\ placed[b][i] \in Nat
          BY <2>5, <3>4, <4>2, SpotFacts, KindFacts
      <4>5. \A x, y \in Nat : x <= y /\ x # y => x < y
          OBVIOUS
      <4> QED
          BY <3>6, <3>8, <4>2, <4>3, <4>4, <4>5
    <3>12. placed[b] # <<>> /\ ~Fresh(b) =>
             \A f \in Feet(b)', i \in DOMAIN Kinds : own2[f][i] \notin Range(placed[b])
        BY <2>4, <3>4, <3>6, <3>7
    <3>13. Owns(b, own2)'
        BY <1>1, <1>3, <3>8, <3>9, <3>10, <3>11, <3>12 DEF Owns
    <3> QED
        BY <3>13
  <2> QED
      BY <2>6, <2>7
<1> QED
    BY <1>2, <1>6, <1>7, <1>9, <1>10, <1>11 DEF Safe

\* A rebuild: every footer's archive is placed at its latest files, which are its footer's.
LEMMA RebuildSafe ==
  ASSUME FileStoreAssumption, IInv, IInv', Safe, NEW full \in BOOLEAN, Rebuild(full)
  PROVE  Safe'
<1> DEFINE files == FilesExcept({})
           at(a, i) == IF Sighted(files, a, Kinds[i]) # {}
                       THEN Located(files, a, Kinds[i]) ELSE toc[a][i]
<1>1. /\ up /\ Quiet /\ doomed = {} /\ rec = NoReclaim /\ swept' = FALSE
      /\ placed' = [a \in Archives |->
                     IF Sighted(files, a, Footer) # {} THEN [i \in DOMAIN Kinds |-> at(a, i)]
                     ELSE IF full THEN <<>> ELSE placed[a]]
      /\ UNCHANGED <<cloud, objs, torn, up, idx, w, rec, doomed, cuts>>
      /\ \A b \in Archives : w[b].st = "idle"
    BY DEF Rebuild, Quiet
<1>2. /\ \A b \in Archives, k \in Range(Kinds) : Spots(b, k)' = Spots(b, k)
      /\ Mirror' /\ Reserve'
    BY <1>1, CatalogFrame
<1>3. \A b \in Archives, k \in Range(Kinds) : Sighted(files, b, k) = Spots(b, k)
  <2>1. \A b \in Archives, k \in Range(Kinds) : Sighted(files, b, k) = Spots(b, k) \ {}
      BY <1>1, SightedAreSpots DEF Safe
  <2> QED
      BY <2>1
<1> HIDE DEF files
<1>4. \A b \in Archives : Feet(b) = Spots(b, Footer) /\ Feet(b)' = Spots(b, Footer)
    BY <1>1, <1>2, KindFacts DEF Feet
<1>5. ASSUME NEW b \in Archives, Spots(b, Footer) # {}
      PROVE  /\ placed'[b] \in [DOMAIN Kinds -> Positions] /\ placed'[b] # <<>>
             /\ \A i \in DOMAIN Kinds :
                  /\ placed'[b][i] \in Spots(b, Kinds[i])
                  /\ \A q \in Spots(b, Kinds[i]) : q <= placed'[b][i]
             /\ Last(placed'[b]) = placed'[b][Len(Kinds)] /\ Fresh(b)'
  <2>1. PICK own \in [Positions -> [DOMAIN Kinds -> Positions]] : Owns(b, own)
      BY DEF Safe, Owned
  <2>2. \A i \in DOMAIN Kinds : Spots(b, Kinds[i]) # {} /\ Kinds[i] \in Range(Kinds)
      BY <1>4, <1>5, <2>1, KindFacts DEF Owns
  <2>3. Sighted(files, b, Footer) # {}
      BY <1>3, <1>5, KindFacts
  <2>4. placed'[b] = [i \in DOMAIN Kinds |-> at(b, i)]
      BY <1>1, <2>3
  <2>5. ASSUME NEW i \in DOMAIN Kinds
        PROVE  /\ placed'[b][i] \in Spots(b, Kinds[i]) /\ placed'[b][i] \in Positions
               /\ \A q \in Spots(b, Kinds[i]) : q <= placed'[b][i]
    <3>1. placed'[b][i] = Max(Spots(b, Kinds[i]))
        BY <1>3, <2>2, <2>4 DEF Located
    <3>2. Spots(b, Kinds[i]) \ {} = Spots(b, Kinds[i])
        OBVIOUS
    <3>3. /\ Max(Spots(b, Kinds[i])) \in Spots(b, Kinds[i])
          /\ \A q \in Spots(b, Kinds[i]) : q <= Max(Spots(b, Kinds[i]))
        BY <2>2, <3>2, LatestSpot
    <3> QED
        BY <3>1, <3>3 DEF Spots
  <2> HIDE DEF at
  <2>6. placed'[b] \in [DOMAIN Kinds -> Positions]
    <3>1. placed'[b] = [i \in DOMAIN Kinds |-> placed'[b][i]]
        BY <2>4
    <3> QED
        BY <2>5, <3>1
  <2>7. placed'[b] \in Seq(Positions) /\ Len(placed'[b]) = Len(Kinds)
    <3>1. PICK pl : pl = placed'[b]
        OBVIOUS
    <3>2. pl \in [1 .. Len(Kinds) -> Positions] /\ Len(Kinds) \in Nat
        BY <2>6, <3>1, KindFacts
    <3>3. pl \in Seq(Positions) /\ Len(pl) = Len(Kinds)
        BY <3>2
    <3> QED
        BY <3>1, <3>3
  <2>8. Last(placed'[b]) = placed'[b][Len(Kinds)]
      BY <2>7 DEF Last
  <2>9. placed'[b] # <<>>
      BY <2>7, KindFacts
  <2>10. Last(placed'[b]) \in Spots(b, Footer)'
      BY <1>2, <2>5, <2>8, KindFacts
  <2> QED
      BY <2>5, <2>6, <2>8, <2>9, <2>10 DEF Fresh
<1>6. ASSUME NEW b \in Archives, Spots(b, Footer) = {}
      PROVE  ~Fresh(b)' /\ ~Fresh(b) /\ (placed'[b] = <<>> \/ placed'[b] = placed[b])
  <2>1. Sighted(files, b, Footer) = {}
      BY <1>3, <1>6, KindFacts
  <2>2. placed'[b] = <<>> \/ placed'[b] = placed[b]
      BY <1>1, <2>1
  <2> QED
      BY <1>2, <1>6, <2>2, KindFacts DEF Fresh
<1> HIDE DEF at
<1>7. Hold'
  <2>1. ASSUME NEW b \in Archives, Fresh(b)', NEW i \in DOMAIN Kinds
        PROVE  /\ placed'[b][i] \in Spots(b, Kinds[i])'
               /\ \A q \in Spots(b, Kinds[i])' : q <= placed'[b][i]
      BY <1>2, <1>5, <1>6, <2>1, KindFacts
  <2>2. ASSUME NEW b \in Archives, NEW p \in Range(placed'[b]), NEW o \in objs, o.pos = p
        PROVE  o.ar = b
    <3>1. CASE Spots(b, Footer) = {}
        BY <1>6, <2>2, <3>1, RangeOfEmpty DEF Safe, Hold
    <3>2. CASE Spots(b, Footer) # {}
      <4>1. PICK i \in DOMAIN Kinds : p = placed'[b][i]
          BY <1>5, <3>2 DEF Range
      <4>2. p \in Spots(b, Kinds[i])
          BY <1>5, <3>2, <4>1
      <4> QED
          BY <2>2, <4>2, SpotFacts, KindFacts
    <3> QED
        BY <3>1, <3>2
  <2> QED
      BY <1>1, <2>1, <2>2 DEF Hold
<1>8. Owned'
  <2> SUFFICES ASSUME NEW b \in Archives
               PROVE  \E own \in [Positions -> [DOMAIN Kinds -> Positions]] : Owns(b, own)'
      BY DEF Owned
  <2>1. PICK own \in [Positions -> [DOMAIN Kinds -> Positions]] : Owns(b, own)
      BY DEF Safe, Owned
  <2>2. CASE Spots(b, Footer) = {}
    <3>1. Owns(b, own)'
        BY <1>1, <1>4, <1>6, <2>2 DEF Owns
    <3> QED
        BY <3>1
  <2>3. CASE Spots(b, Footer) # {}
    <3>1. PICK g \in Positions : g = placed'[b][Len(Kinds)]
        BY <1>5, <2>3, KindFacts
    <3>2. PICK own2 \in [Positions -> [DOMAIN Kinds -> Positions]] :
            own2 = [own EXCEPT ![g] = placed'[b]]
        BY <1>5, <2>3
    <3>3. own2[g] = placed'[b] /\ \A f \in Positions \ {g} : own2[f] = own[f]
        BY <3>2
    <3>4. /\ g \in Spots(b, Footer) /\ Last(placed'[b]) = g
          /\ \A f \in Spots(b, Footer) : f <= g /\ f \in Nat /\ f \in Positions
        BY <1>5, <2>3, <3>1, SpotFacts, KindFacts
    <3>5. /\ \A f \in Spots(b, Footer) : own[f][Len(Kinds)] = f
          /\ \A f \in Spots(b, Footer), i \in DOMAIN Kinds : own[f][i] \in Spots(b, Kinds[i])
          /\ \A f, h \in Spots(b, Footer) : f < h => \A i \in DOMAIN Kinds : own[f][i] < own[h][i]
        BY <1>4, <2>1 DEF Owns
    <3>6. \A f \in Spots(b, Footer) : own2[f][Len(Kinds)] = f
        BY <3>1, <3>3, <3>4, <3>5
    <3>7. ASSUME NEW f \in Spots(b, Footer), NEW i \in DOMAIN Kinds
          PROVE  own2[f][i] \in Spots(b, Kinds[i])' /\ own2[f][i] \notin doomed'
      <4>1. own2[f][i] \in Spots(b, Kinds[i])
        <5>1. CASE f = g
            BY <1>5, <2>3, <3>3, <5>1
        <5>2. CASE f # g
            BY <3>3, <3>4, <3>5, <5>2
        <5> QED
            BY <5>1, <5>2
      <4>2. Spots(b, Kinds[i])' = Spots(b, Kinds[i])
          BY <1>2, KindFacts
      <4> QED
          BY <1>1, <4>1, <4>2
    <3>8. ASSUME NEW f \in Spots(b, Footer), NEW h \in Spots(b, Footer), f < h,
                 NEW i \in DOMAIN Kinds
          PROVE  own2[f][i] < own2[h][i]
      <4>1. f # g /\ own2[f] = own[f]
          BY <3>3, <3>4, <3>8
      <4>2. CASE h # g
          BY <3>3, <3>4, <3>5, <3>8, <4>1, <4>2
      <4>3. CASE h = g
        <5>1. own[f][i] < own[g][i]
            BY <3>5, <3>8, <4>3
        <5>2. own[g][i] <= placed'[b][i]
            BY <1>5, <2>3, <3>4, <3>5
        <5>3. /\ own[f][i] \in Spots(b, Kinds[i]) /\ own[g][i] \in Spots(b, Kinds[i])
              /\ placed'[b][i] \in Spots(b, Kinds[i])
            BY <1>5, <2>3, <3>4, <3>5
        <5>4. own[f][i] \in Nat /\ own[g][i] \in Nat /\ placed'[b][i] \in Nat
            BY <5>3, SpotFacts, KindFacts
        <5> QED
            BY <3>3, <4>1, <4>3, <5>1, <5>2, <5>4
      <4> QED
          BY <4>2, <4>3
    <3>9. Owns(b, own2)'
      <4>1. Fresh(b)' /\ own2[Last(placed'[b])] = placed'[b] /\ w'[b].st = "idle"
          BY <1>1, <1>5, <2>3, <3>3, <3>4
      <4>2. /\ \A f \in Feet(b)' : own2[f][Len(Kinds)] = f
            /\ \A f \in Feet(b)', i \in DOMAIN Kinds :
                 own2[f][i] \in Spots(b, Kinds[i])' /\ own2[f][i] \notin doomed'
            /\ \A f, h \in Feet(b)' : f < h => \A i \in DOMAIN Kinds : own2[f][i] < own2[h][i]
          BY <1>4, <3>6, <3>7, <3>8
      <4> QED
          BY <4>1, <4>2 DEF Owns
    <3> QED
        BY <3>9
  <2> QED
      BY <2>2, <2>3
<1>9. Work' /\ Sweep' /\ Debris'
    BY <1>1 DEF Work, Sweep, Debris
<1>10. Reclaim'
    BY <1>1 DEF Reclaim, NoReclaim, FileStoreAssumption
<1>11. Live'
  <2>1. \A b \in Archives : rec.ar # b
      BY <1>1 DEF NoReclaim, FileStoreAssumption
  <2> QED
      BY <1>1, <1>5, <1>6, <2>1 DEF Live, Safe
<1> QED
    BY <1>2, <1>7, <1>8, <1>9, <1>10, <1>11 DEF Safe

\* At the start nothing is stored, placed or under way.
LEMMA InitSafe ==
  ASSUME FileStoreAssumption, Init PROVE Safe
<1>1. /\ objs = {} /\ ~up /\ idx = <<>> /\ rec = NoReclaim /\ doomed = {} /\ ~swept
      /\ \A a \in Archives : w[a].st = "idle" /\ placed[a] = <<>>
    BY DEF Init, Idle
<1>2. \A a \in Archives, k \in Range(Kinds) : Spots(a, k) = {}
    BY <1>1 DEF Spots, Readable
<1>3. \A a \in Archives : ~Fresh(a) /\ Feet(a) = {}
    BY <1>1, <1>2, KindFacts DEF Fresh, Feet
<1>4. Mirror /\ Reserve /\ Work /\ Sweep /\ Live /\ Debris
    BY <1>1 DEF Mirror, Reserve, InFlight, Work, Sweep, Live, Debris
<1>5. Hold
    BY <1>1, <1>3, RangeOfEmpty DEF Hold
<1>6. Reclaim
    BY <1>1 DEF Reclaim, NoReclaim, FileStoreAssumption
<1>7. Owned
  <2> SUFFICES ASSUME NEW b \in Archives
               PROVE  \E own \in [Positions -> [DOMAIN Kinds -> Positions]] : Owns(b, own)
      BY DEF Owned
  <2>1. 0 \in Positions
      BY DEF Positions, FileStoreAssumption
  <2>2. PICK own \in [Positions -> [DOMAIN Kinds -> Positions]] :
          own = [f \in Positions |-> [i \in DOMAIN Kinds |-> 0]]
      BY <2>1
  <2>3. Owns(b, own)
      BY <1>1, <1>3 DEF Owns
  <2> QED
      BY <2>3
<1> QED
    BY <1>4, <1>5, <1>6, <1>7 DEF Safe

\* The invariant holds on while nothing stored shares a position with a placement.
LEMMA StepsKeepSafe ==
  ASSUME FileStoreAssumption, IInv, IInv', ~mixed => Safe, [Next]_vars, ~mixed'
  PROVE  Safe'
<1>1. ~mixed /\ Safe
  <2>1. mixed => mixed'
      BY DEF Next, vars, Open, ReclaimFile, Unplace, ReclaimFails, StartSweep, SweepFile,
             SweepRefused, Crash, LoseCatalog, Rebuild, AppendFile, Close, Sidecar, Record,
             Abort, StartReclaim
  <2> QED
      BY <2>1
<1>2. CASE UNCHANGED vars
  <2>1. /\ UNCHANGED <<cloud, objs, torn, up, next, idx, w, toc, placed, rec, doomed, swept,
                       cuts>>
      BY <1>2 DEF vars
  <2>2. /\ \A b \in Archives, k \in Range(Kinds) : Spots(b, k)' = Spots(b, k)
        /\ Mirror' /\ Reserve'
      BY <1>1, <2>1, CatalogFrame
  <2>3. /\ \A b \in Archives : (Fresh(b)' <=> Fresh(b)) /\ Feet(b)' = Feet(b)
        /\ Hold' /\ Owned'
      BY <1>1, <2>1, <2>2, FrameKeeps DEF Safe
  <2>4. Work'
    <3> SUFFICES ASSUME NEW b \in Archives, w[b].st # "idle" PROVE Works(b)'
        BY <2>1 DEF Work
    <3>1. rec'.ar # b /\ (InFlight(b)' <=> InFlight(b))
        BY <1>1, <2>1 DEF Safe, Work, Works, InFlight
    <3> QED
        BY <1>1, <2>1, <2>2, <3>1, WorksKeep DEF Safe
  <2>5. Sweep'
    <3>1. KnownPositions' = KnownPositions
        BY <2>1 DEF KnownPositions
    <3> QED
        BY <1>1, <2>1, <2>2, <2>3, <3>1, KindFacts DEF Safe, Sweep
  <2>6. Reclaim' /\ Live'
      BY <1>1, <2>1, <2>3 DEF Safe, Reclaim, Live
  <2>7. Debris'
      BY <1>1, <2>1 DEF Safe, Debris, Committed, Readable, KnownPositions
  <2> QED
      BY <2>2, <2>3, <2>4, <2>5, <2>6, <2>7 DEF Safe
<1>3. CASE Next
    BY <1>1, <1>3, OpenSafe, ReclaimFileSafe, UnplaceSafe, ReclaimFailsSafe, StartSweepSafe,
       SweepFileSafe, SweepRefusedSafe, CrashSafe, LoseCatalogSafe, RebuildSafe,
       AppendFileSafe, CloseSafe, SidecarSafe, RecordSafe, AbortSafe, StartReclaimSafe
       DEF Next
<1> QED
    BY <1>2, <1>3

\* An archive whose footer can be read has a footer no sweep is about to take, and with it
\* a readable file of every kind.
LEMMA CommittedIsWhole ==
  ASSUME FileStoreAssumption, Safe, NEW a \in Archives, Committed(a)
  PROVE  Feet(a) # {} /\ Whole(a)
<1>1. Spots(a, Footer) # {}
    BY DEF Committed, Spots
<1>2. PICK f : f \in Feet(a)
    BY <1>1 DEF Safe, Sweep, Feet
<1>3. PICK own \in [Positions -> [DOMAIN Kinds -> Positions]] : Owns(a, own)
    BY DEF Safe, Owned
<1>4. \A i \in DOMAIN Kinds : own[f][i] \in Spots(a, Kinds[i])
    BY <1>2, <1>3 DEF Owns
<1> QED
    BY <1>2, <1>4 DEF Whole, Spots

\* No step of a living process takes an archive's last footer, but the reclaim of it.
LEMMA FooterStays ==
  ASSUME FileStoreAssumption, IInv, Safe, [Next]_vars, up', NEW a \in Archives, rec.ar # a,
         Committed(a)
  PROVE  Committed(a)'
<1>1. Spots(a, Footer) # {} /\ Feet(a) # {} /\ Footer \in Range(Kinds)
    BY CommittedIsWhole, KindFacts DEF Committed, Spots
<1>2. Spots(a, Footer)' # {} => Committed(a)'
    BY DEF Spots, Committed
<1>3. CASE UNCHANGED <<objs, torn>>
    BY <1>1, <1>2, <1>3, SameSpots
<1>4. ASSUME NEW b \in Archives, AppendFile(b) PROVE Committed(a)'
    BY <1>1, <1>2, <1>4, AppendSpots
<1>5. ASSUME NEW b \in Archives, Close(b) PROVE Committed(a)'
    BY <1>1, <1>2, <1>5, CloseSpots DEF Safe
<1>6. ASSUME NEW b \in Archives, Sidecar(b) PROVE Committed(a)'
  <2>1. Spots(a, Footer) \subseteq Spots(a, Footer)'
    <3>1. CASE b = a /\ Footer = Kinds[w[b].k]
      <4>1. Spots(a, Footer)' = Spots(a, Footer) \cup {w[b].pos}
          BY <1>1, <1>6, <3>1, SidecarSpots DEF Safe
      <4> QED
          BY <4>1
    <3>2. CASE b # a \/ Footer # Kinds[w[b].k]
      <4>1. Spots(a, Footer)' = Spots(a, Footer)
          BY <1>1, <1>6, <3>2, SidecarSpots DEF Safe
      <4> QED
          BY <4>1
    <3> QED
        BY <3>1, <3>2
  <2> QED
      BY <1>1, <1>2, <2>1
<1>7. ASSUME ReclaimFile PROVE Committed(a)'
  <2>1. PICK p : p = Head(rec.rest)
      OBVIOUS
  <2>2. /\ rec.ar \in Archives /\ p \in Range(placed[rec.ar]) /\ up
        /\ \A b \in Archives : InFlight(b) => w[b].pos # p
        /\ RemoveFile(p)
      BY <1>7, <2>1, ReclaimTakes DEF ReclaimFile
  <2>3. Spots(a, Footer)' = Spots(a, Footer) \ {p}
      BY <1>1, <2>2, RemovalEffect DEF Safe
  <2>4. p \notin Spots(a, Footer)
    <3> SUFFICES ASSUME p \in Spots(a, Footer) PROVE FALSE
        OBVIOUS
    <3>1. Key(p, a, Footer, "payload") \in objs
        BY <1>1, SpotFacts
    <3>2. Key(p, a, Footer, "payload").pos = p /\ Key(p, a, Footer, "payload").ar = a
        BY DEF Key
    <3> QED
        BY <2>2, <3>1, <3>2 DEF Safe, Hold
  <2> QED
      BY <1>1, <1>2, <2>3, <2>4
<1>8. ASSUME SweepFile PROVE Committed(a)'
  <2>1. PICK p : p = Min(doomed)
      OBVIOUS
  <2>2. p \in doomed
    <3>1. doomed \in SUBSET Nat /\ doomed # {}
        BY <1>8 DEF SweepFile, IInv, Types, Positions
    <3> QED
        BY <2>1, <3>1, SmallestPosition
  <2>3. up /\ RemoveFile(p) /\ \A b \in Archives : ~InFlight(b)
      BY <1>8, <2>1, <2>2 DEF SweepFile, Safe, Sweep, InFlight
  <2>4. Spots(a, Footer)' = Spots(a, Footer) \ {p}
      BY <1>1, <2>3, RemovalEffect DEF Safe
  <2> QED
      BY <1>1, <1>2, <2>2, <2>4 DEF Feet
<1>9. ASSUME Open \/ Unplace \/ ReclaimFails \/ StartSweep \/ SweepRefused \/ LoseCatalog
              \/ (\E full \in BOOLEAN : Rebuild(full))
              \/ \E b \in Archives : Record(b) \/ Abort(b) \/ StartReclaim(b)
      PROVE  Committed(a)'
  <2>1. UNCHANGED <<objs, torn>>
      BY <1>9 DEF Open, Unplace, ReclaimFails, StartSweep, SweepRefused, LoseCatalog, Rebuild,
                  Record, Abort, StartReclaim
  <2> QED
      BY <1>3, <2>1
<1>10. CASE Next
  <2>1. ~Crash
      BY DEF Crash
  <2> QED
      BY <1>4, <1>5, <1>6, <1>7, <1>8, <1>9, <1>10, <2>1 DEF Next
<1>11. CASE UNCHANGED vars
    BY <1>3, <1>11 DEF vars
<1> QED
    BY <1>10, <1>11

\* A step that mixes two archives' positions, or leaves a superseded footer, leaves what
\* can be read as it is.
LEMMA MixingIsHarmless ==
  ASSUME FileStoreAssumption, IInv, [Next]_vars, up', ~mixed, mixed', NEW a \in Archives,
         NEW k \in Range(Kinds)
  PROVE  Spots(a, k)' = Spots(a, k)
<1>1. SweepRefused \/ \E b \in Archives : AppendFile(b)
    BY DEF Next, vars, Open, ReclaimFile, Unplace, ReclaimFails, StartSweep, SweepFile,
           Crash, LoseCatalog, Rebuild, Close, Sidecar, Record, Abort, StartReclaim
<1>2. CASE SweepRefused
    BY <1>2, SameSpots DEF SweepRefused
<1>3. CASE \E b \in Archives : AppendFile(b)
    BY <1>3, AppendSpots
<1> QED
    BY <1>1, <1>2, <1>3

-----------------------------------------------------------------------------
\* The theorems.

\* Every behaviour keeps the invariant.
THEOREM Inductive ==
  ASSUME FileStoreAssumption PROVE Spec => []IInv
<1>1. Init => IInv
    BY InitHolds
<1>2. IInv /\ [Next]_vars => IInv'
    BY StepsKeep
<1> QED
    BY <1>1, <1>2, PTL DEF Spec

\* Two appends in flight, a crash and a new handle, a sweep and a rescan never hand one
\* position to two files that are both on the medium (fslike.go).
THEOREM PositionsAreApart ==
  ASSUME FileStoreAssumption PROVE Spec => []OneFilePerPosition
<1>1. IInv => OneFilePerPosition
    BY DEF IInv
<1> QED
    BY <1>1, Inductive, PTL

\* The types of the medium, the handle and the catalog.
THEOREM TypeCorrect ==
  ASSUME FileStoreAssumption PROVE Spec => []TypeOK
<1>1. IInv => TypeOK
    BY DEF IInv, Types, TypeOK, Writers, Maps, Entry
<1> QED
    BY <1>1, Inductive, PTL
\* Every behaviour keeps the invariant, until positions are mixed.
THEOREM InductiveSafe ==
  ASSUME FileStoreAssumption PROVE Spec => []SInv
<1>1. Init => SInv
    BY InitHolds, InitSafe DEF SInv
<1>2. SInv /\ [Next]_vars => SInv'
  <2> SUFFICES ASSUME SInv, [Next]_vars PROVE SInv'
      OBVIOUS
  <2>1. IInv'
      BY StepsKeep DEF SInv
  <2> QED
      BY <2>1, StepsKeepSafe DEF SInv
<1> QED
    BY <1>1, <1>2, PTL DEF Spec

\* The commit footer is written last and removed first, so an archive whose footer is on
\* the medium is whole (archivefs/compose.go, media/fslike).
THEOREM FootersMeanWhole ==
  ASSUME FileStoreAssumption PROVE Spec => []FooterMeansWhole
<1>1. SInv => FooterMeansWhole
    BY CommittedIsWhole DEF SInv, FooterMeansWhole
<1> QED
    BY <1>1, InductiveSafe, PTL

\* A removal that judges a run's directory empty never takes the files of an append in
\* flight in it (fslike.go, RemoveFile).
THEOREM AppendsSurvive ==
  ASSUME FileStoreAssumption PROVE Spec => []AppendsSurviveRemovals
<1>1. SInv => AppendsSurviveRemovals
  <2> SUFFICES ASSUME IInv, Safe, NEW a \in Archives
               PROVE  /\ w[a].st \in {"header"} \/ (w[a].st = "payload" /\ ~cloud)
                           => File(a, "payload") \in objs
                      /\ w[a].st # "idle" =>
                           \A i \in DOMAIN w[a].got : Readable(w[a].got[i], a, Kinds[i])
      BY DEF SInv, AppendsSurviveRemovals
  <2>1. w[a].st \in {"header"} \/ (w[a].st = "payload" /\ ~cloud) => File(a, "payload") \in objs
      BY DEF Safe, Reserve, Reserves, InFlight
  <2>2. w[a].st # "idle" => \A i \in DOMAIN w[a].got : Readable(w[a].got[i], a, Kinds[i])
      BY DEF Safe, Work, Works, Spots
  <2> QED
      BY <2>1, <2>2
<1> QED
    BY <1>1, InductiveSafe, PTL

\* What the catalog places here can be read where it says, but for a removal under way or
\* cut short.
THEOREM PlacedAreReadable ==
  ASSUME FileStoreAssumption PROVE Spec => []PlacedIsReadable
<1>1. SInv => PlacedIsReadable
    BY DEF SInv, PlacedIsReadable, Safe, Live, Hold, Spots
<1> QED
    BY <1>1, InductiveSafe, PTL

\* A sweep that was refused nothing leaves no debris it can see (accounting/prune.go).
THEOREM SweepsAreClean ==
  ASSUME FileStoreAssumption PROVE Spec => []SweepLeavesNoDebris
<1>1. SInv => SweepLeavesNoDebris
    BY DEF SInv, SweepLeavesNoDebris, Safe, Debris
<1> QED
    BY <1>1, InductiveSafe, PTL

\* The file store whole, the run's own conjunction of the properties above.
THEOREM StoreStaysWhole ==
  ASSUME FileStoreAssumption PROVE Spec => []StoreIsWhole
<1>1. (/\ TypeOK /\ OneFilePerPosition /\ AppendsSurviveRemovals /\ FooterMeansWhole
       /\ PlacedIsReadable /\ SweepLeavesNoDebris) => StoreIsWhole
    BY DEF StoreIsWhole
<1> QED
    BY <1>1, TypeCorrect, PositionsAreApart, FootersMeanWhole, AppendsSurvive,
       PlacedAreReadable, SweepsAreClean, PTL

\* Neither a sweep nor a reclaim takes a file that another archive with its footer on the
\* medium needs, whatever the catalog knows, lost or never knew.
THEOREM RemovalsAreSafe ==
  ASSUME FileStoreAssumption PROVE Spec => RemovalsSpareCommitted
<1> DEFINE Spares == ~mixed /\ up' => \A a \in Archives \ {rec.ar} :
                       Committed(a) => (Committed(a) /\ Whole(a))'
<1>1. SInv /\ FooterMeansWhole' /\ [Next]_vars => [Spares]_vars
  <2> SUFFICES ASSUME SInv, FooterMeansWhole', [Next]_vars, ~mixed, up',
                      NEW a \in Archives \ {rec.ar}, Committed(a)
               PROVE  Committed(a)' /\ Whole(a)'
      OBVIOUS
  <2>1. IInv /\ Safe /\ a \in Archives /\ rec.ar # a
      BY DEF SInv
  <2>2. Committed(a)' /\ Whole(a)
      BY <2>1, FooterStays, CommittedIsWhole
  <2>3. CASE mixed'
    <3>1. \A i \in DOMAIN Kinds : Spots(a, Kinds[i]) # {} /\ Kinds[i] \in Range(Kinds)
        BY <2>2, KindFacts DEF Whole, Spots
    <3>2. \A i \in DOMAIN Kinds : Spots(a, Kinds[i])' # {}
        BY <2>1, <2>3, <3>1, MixingIsHarmless
    <3> QED
        BY <2>2, <3>2 DEF Whole, Spots
  <2>4. CASE ~mixed'
      BY <2>1, <2>2, <2>4 DEF FooterMeansWhole
  <2> QED
      BY <2>3, <2>4
<1> QED
    BY <1>1, InductiveSafe, FootersMeanWhole, PTL DEF Spec, RemovalsSpareCommitted

-----------------------------------------------------------------------------
\* A set of naturals that is not empty has a least member.
LEMMA Least ==
    ASSUME NEW S \in SUBSET Nat, S # {}
    PROVE  \E m \in S : \A k \in S : m <= k
<1>1. IsWellFoundedOn(OpToRel(<, Nat), Nat)  BY NatLessThanWellFounded
<1>2. PICK m \in S : \A k \in S : <<k, m>> \notin OpToRel(<, Nat)  BY <1>1, WFMin
<1>3. ASSUME NEW k \in S PROVE m <= k
  <2>1. ~(k < m) /\ k \in Nat /\ m \in Nat  BY <1>2 DEF OpToRel
  <2>. QED  BY <2>1
<1>. QED  BY <1>3

\* The catalog (Catalog.tla): its scans fold over the reels and footers of a medium, and its fills
\* are sums.  A property of every subset of a finite set, from that of the smaller ones.
LEMMA BySubsets ==
    ASSUME NEW S, IsFiniteSet(S), NEW G,
           \A u \in SUBSET S : (\A v \in SUBSET u : v # u => v \in G) => u \in G
    PROVE  \A u \in SUBSET S : u \in G
<1>. DEFINE Bad == {u \in SUBSET S : u \notin G}
            sizes == {Cardinality(u) : u \in Bad}
<1>. SUFFICES ASSUME Bad # {} PROVE FALSE  OBVIOUS
<1>1. \A u \in SUBSET S : IsFiniteSet(u) /\ Cardinality(u) \in Nat
  BY FS_Subset, FS_CardinalityType
<1>2. sizes \in SUBSET Nat /\ sizes # {}  BY <1>1
<1>3. PICK k \in sizes : \A j \in sizes : k <= j
  <2>. HIDE DEF sizes
  <2>. QED  BY <1>2, Least
<1>4. PICK u \in Bad : k = Cardinality(u)  OBVIOUS
<1>5. ASSUME NEW v \in SUBSET u, v # u PROVE v \in G
  <2>1. v \in SUBSET S /\ Cardinality(v) < Cardinality(u)
    BY <1>1, <1>4, <1>5, FS_Subset
  <2>2. v \in Bad => Cardinality(v) \in sizes  OBVIOUS
  <2>3. Cardinality(v) \in Nat /\ k \in Nat  BY <1>1, <1>2, <2>1
  <2>. HIDE DEF sizes
  <2>4. v \notin Bad  BY <1>3, <1>4, <2>1, <2>2, <2>3
  <2>. QED  BY <2>1, <2>4
<1>. QED  BY <1>4, <1>5

One(u) == CHOOSE x \in u : TRUE
Rest(u) == u \ {One(u)}

LEMMA RestIsLess == ASSUME NEW u, u # {} PROVE One(u) \in u /\ Rest(u) \in SUBSET u /\ Rest(u) # u
BY DEF One, Rest

\* A fold is a function of the subsets that steps from the rest of each; there is one.
Folds(S, base, op, f) ==
    \A u \in SUBSET S : f[u] = IF u = {} THEN base ELSE op[<<u, f[Rest(u)]>>]

LEMMA FoldExists ==
    ASSUME NEW S, IsFiniteSet(S), NEW V, NEW base \in V, NEW op \in [(SUBSET S) \X V -> V]
    PROVE  \E f \in [SUBSET S -> V] : Folds(S, base, op, f)
<1>. DEFINE Small(k) == {v \in SUBSET S : Cardinality(v) <= k}
            Upto(k, f) == /\ f \in [Small(k) -> V]
                          /\ \A u \in Small(k) : f[u] = IF u = {} THEN base ELSE op[<<u, f[Rest(u)]>>]
            Bad == {k \in Nat : ~\E f : Upto(k, f)}
<1>1. \A u \in SUBSET S : IsFiniteSet(u) /\ Cardinality(u) \in Nat
  BY FS_Subset, FS_CardinalityType
<1>2. ASSUME NEW u \in SUBSET S, u # {}
      PROVE  Rest(u) \in SUBSET S /\ Cardinality(Rest(u)) = Cardinality(u) - 1
  BY <1>1, <1>2, RestIsLess, FS_RemoveElement DEF Rest
<1>3. Bad = {}
  <2>. SUFFICES ASSUME Bad # {} PROVE FALSE  OBVIOUS
  <2>1. PICK k \in Bad : \A j \in Bad : k <= j  BY Least
  <2>2. k # 0
    <3>1. Small(0) = {{}}  BY <1>1, FS_EmptySet
    <3>2. Upto(0, [u \in {{}} |-> base])  BY <3>1
    <3>. HIDE DEF Upto
    <3>3. \E f : Upto(0, f)  BY <3>2
    <3>. QED  BY <2>1, <3>3
  <2>3. k - 1 \in Nat /\ k - 1 \notin Bad
    <3>1. k \in Nat /\ k - 1 \in Nat /\ ~(k <= k - 1)  BY <2>1, <2>2
    <3>. HIDE DEF Bad
    <3>. QED  BY <2>1, <3>1
  <2>4. PICK f : Upto(k - 1, f)  BY <2>3
  <2>. DEFINE g == [u \in Small(k) |-> IF u = {} THEN base ELSE op[<<u, f[Rest(u)]>>]]
  <2>5. ASSUME NEW u \in Small(k), u # {} PROVE Rest(u) \in Small(k - 1) /\ Rest(u) \in Small(k)
    <3>1. u \in SUBSET S /\ Cardinality(u) \in Nat /\ k \in Nat /\ Cardinality(u) <= k
      BY <1>1, <2>1, <2>5
    <3>. QED  BY <1>2, <2>5, <3>1
  <2>6. \A v \in Small(k - 1) : v \in Small(k) /\ g[v] = f[v]
    <3>1. ASSUME NEW v \in Small(k - 1) PROVE v \in Small(k)
      BY <1>1, <2>1, <3>1
    <3>. QED  BY <2>4, <3>1
  <2>7. Upto(k, g)
    <3>1. ASSUME NEW u \in Small(k) PROVE g[u] \in V
      <4>1. CASE u = {}  BY <4>1
      <4>2. CASE u # {}
        <5>1. f[Rest(u)] \in V  BY <2>4, <2>5, <4>2
        <5>2. u \in SUBSET S  BY <3>1
        <5>3. g[u] = op[<<u, f[Rest(u)]>>]  BY <3>1, <4>2
        <5>. QED  BY <5>1, <5>2, <5>3
      <4>. QED  BY <4>1, <4>2
    <3>2. \A u \in Small(k) : u # {} => g[Rest(u)] = f[Rest(u)]  BY <2>5, <2>6
    <3>. QED  BY <3>1, <3>2
  <2>8. \E h : Upto(k, h)
    <3>. HIDE DEF Upto
    <3>. QED  BY <2>7
  <2>. QED  BY <2>1, <2>8
<1>4. PICK f : Upto(Cardinality(S), f)  BY <1>1, <1>3
<1>5. Small(Cardinality(S)) = SUBSET S
  <2>1. ASSUME NEW u \in SUBSET S PROVE Cardinality(u) <= Cardinality(S)
    BY <2>1, FS_Subset
  <2>. QED  BY <2>1
<1>. QED  BY <1>4, <1>5 DEF Folds

\* The catalog.

Refer == (Names \cup {""}) \X Nat
PlacedArchives == [arch : Backups, parts : Seq(Refer), sealed : BOOLEAN, commit : Refer, index : Refer]
VolumeRecords == UNION {[D -> [epoch : Nat, used : Nat]] : D \in SUBSET Names}

Catalogs == [adv : SUBSET Backups, placed : [Media -> SUBSET PlacedArchives], vols : VolumeRecords]

\* What a copy refers to; the disk's files are on no reel.
Mentions(pa) == Range(pa.parts) \cup {pa.commit, pa.index}
Plain(pa) == \A ref \in Mentions(pa) : ref = NoRef
PlacedWell(pa) == pa \in PlacedArchives /\ (pa.sealed => pa.parts # <<>>)

\* A catalog by itself: finitely many copies on a medium, those of the disk in no volume; what is
\* held is advertised; and every volume's fill is charged.
CatalogTyped(c) ==
    /\ c \in Catalogs
    /\ \A m \in Media : IsFiniteSet(c.placed[m]) /\ \A pa \in c.placed[m] : PlacedWell(pa)
    /\ \A pa \in c.placed[Disk] : Plain(pa)
Listed(c) == Held(c, Tape) \cup Held(c, Disk) \subseteq c.adv
Advertised(c) == Listed(c) /\ \A a \in c.adv : a[1] \in HeldRuns(c)
Filled(c) ==
    \A n \in DOMAIN c.vols : c.vols[n].used = LabelCharge + Charged(c.placed[Tape], n)

\* The reels: what a footer there may say.
FooterTyped(f) ==
    /\ f.arch \in Backups /\ f.n \in Nat \ {0} /\ f.index \in Refer
    /\ f.map \in Seq(Refer) /\ (f.map = <<>> \/ Len(f.map) = f.n)
ReelsTyped ==
    /\ reels = [r \in Reels |-> [name |-> reels[r].name, epoch |-> reels[r].epoch,
                                 files |-> reels[r].files]]
    /\ \A r \in Reels : reels[r].name \in Names \cup {""} /\ reels[r].epoch \in Nat
    /\ \A r \in Reels : IsFiniteSet(reels[r].files)
    /\ \A f \in CommitsOn(Reels) : FooterTyped(f)
    /\ \A r, q \in Reels : reels[r].name = reels[q].name /\ r # q => reels[r].name = ""

\* What the catalog and the footers say of a reel that is never renamed is of its past or its
\* present, and no later than what the registry knows of it.
Past(ref) == ref[1] \in Names => \E r \in Reels : reels[r].name = ref[1] /\ ref[2] <= reels[r].epoch
Dated(ref, vols) == Past(ref) /\ (ref[1] \in DOMAIN vols => ref[2] <= vols[ref[1]].epoch)
Known(c) ==
    /\ \A pa \in c.placed[Tape] : \A ref \in Mentions(pa) : Dated(ref, c.vols)
    /\ \A f \in CommitsOn(Reels) : \A ref \in Range(f.map) \cup {f.index} : Dated(ref, c.vols)
    /\ \A n \in DOMAIN c.vols : Past(<<n, c.vols[n].epoch>>)

\* A relabeling in place leaves no copy on the label before it records the new epoch.
Relabeling ==
    /\ cmd.st \in {"idle", "drop", "record"}
    /\ cmd.st = "drop" => cmd.wiped = reels[cmd.r].name
    /\ cmd.st = "record" /\ reels[cmd.r].name \in DOMAIN cat.vols =>
         \A pa \in cat.placed[Tape] : ~OnLabel(pa, reels[cmd.r].name)

\* What holds whatever the labels are, ...
Commands == [st : {"drop", "forget", "record"}, wiped : Names \cup {""}, r : Reels]
CatalogInv ==
    /\ CatalogTyped(cat) /\ Advertised(cat) /\ ReelsTyped
    /\ IsFiniteSet(disk) /\ disk \subseteq Backups
    /\ ~loaded => cat = Empty
    /\ cmd = NoCommand \/ (cmd \in Commands /\ reels[cmd.r].name \in Names)
    /\ LedgerCatchesUp
\* ... and what holds as long as no reel is given another name.
FillInv == Filled(cat) /\ Known(cat) /\ Relabeling

-----------------------------------------------------------------------------
\* What a copy charges to a volume, and what copies do together.
LEMMA ChargeTyped ==
    ASSUME NEW pa, PlacedWell(pa), NEW n
    PROVE  /\ ChargeOf(pa, n) \in Nat
           /\ (\A ref \in Mentions(pa) : ref[1] # n) => ChargeOf(pa, n) = 0
<1>. DEFINE on == {i \in DOMAIN pa.parts : pa.parts[i][1] = n}
            ends == (IF pa.commit[1] = n THEN 1 ELSE 0) + (IF pa.index[1] = n THEN 1 ELSE 0)
            body == IF pa.sealed THEN Cardinality(on) * (2 \div Len(pa.parts))
                    ELSE IF pa.parts # <<>> /\ Head(pa.parts)[1] = n THEN 2 ELSE 0
<1>1. ChargeOf(pa, n) = body + (IF pa.commit[1] = n THEN 1 ELSE 0)
                             + (IF pa.index[1] = n THEN 1 ELSE 0)
  BY DEF ChargeOf, Cardinal
<1>2. pa.parts \in Seq(Refer)  BY DEF PlacedWell, PlacedArchives
<1>3. Cardinality(on) \in Nat
  <2>1. IsFiniteSet(1 .. Len(pa.parts))  BY <1>2, FS_Interval
  <2>2. on \subseteq 1 .. Len(pa.parts)  BY <1>2
  <2>. QED  BY <2>1, <2>2, FS_Subset, FS_CardinalityType
<1>4. pa.sealed => 2 \div Len(pa.parts) \in Nat
  <2>. SUFFICES ASSUME pa.sealed PROVE 2 \div Len(pa.parts) \in Nat  OBVIOUS
  <2>1. Len(pa.parts) \in Nat /\ Len(pa.parts) > 0  BY <1>2 DEF PlacedWell
  <2>2. \A k \in Nat : k > 0 => 2 \div k \in Nat  OBVIOUS
  <2>. QED  BY <2>1, <2>2
<1>5. body \in Nat
  <2>1. \A x, y \in Nat : x * y \in Nat  OBVIOUS
  <2>. HIDE DEF on
  <2>. QED  BY <1>3, <1>4, <2>1
<1>6. ASSUME \A ref \in Mentions(pa) : ref[1] # n PROVE body = 0
  <2>1. \A i \in DOMAIN pa.parts : pa.parts[i] \in Mentions(pa)  BY DEF Mentions, Range
  <2>2. on = {}  BY <1>6, <2>1
  <2>3. Cardinality(on) = 0  BY <2>2, FS_EmptySet
  <2>4. pa.parts # <<>> => Head(pa.parts)[1] # n
    <3>1. pa.parts # <<>> => 1 \in DOMAIN pa.parts /\ Head(pa.parts) = pa.parts[1]  BY <1>2
    <3>. QED  BY <1>6, <2>1, <3>1
  <2>5. \A k \in Nat : 0 * k = 0  OBVIOUS
  <2>. HIDE DEF on
  <2>. QED  BY <1>4, <2>3, <2>4, <2>5
<1>7. (\A ref \in Mentions(pa) : ref[1] # n) => pa.commit[1] # n /\ pa.index[1] # n
  BY DEF Mentions
<1>. HIDE DEF body
<1>. QED  BY <1>1, <1>5, <1>6, <1>7

\* The charge of a set, unfolded: it is that of the subsets of any set it is in.
SumsCharges(P, n, h) ==
    /\ h \in [SUBSET P -> Nat]
    /\ \A u \in SUBSET P :
         /\ Charged(u, n) = h[u]
         /\ h[u] = IF u = {} THEN 0 ELSE ChargeOf(One(u), n) + h[Rest(u)]

LEMMA ChargedUnfolds ==
    ASSUME NEW P, IsFiniteSet(P), NEW n, \A pa \in P : ChargeOf(pa, n) \in Nat
    PROVE  \E h : SumsCharges(P, n, h)
<1>. DEFINE op == [uv \in (SUBSET P) \X Nat |->
                     IF uv[1] = {} THEN 0 ELSE ChargeOf(One(uv[1]), n) + uv[2]]
            Sums(f, Q) == f = [u \in SUBSET Q |-> IF u = {} THEN 0
                                                  ELSE ChargeOf(One(u), n) + f[Rest(u)]]
<1>1. \A u \in SUBSET P : u # {} => ChargeOf(One(u), n) \in Nat /\ Rest(u) \in SUBSET P
  BY RestIsLess
<1>2. op \in [(SUBSET P) \X Nat -> Nat]  BY <1>1
<1>3. PICK h \in [SUBSET P -> Nat] : Folds(P, 0, op, h)
  <2>. HIDE DEF op
  <2>. QED  BY <1>2, FoldExists
<1>4. ASSUME NEW u \in SUBSET P
      PROVE  h[u] = IF u = {} THEN 0 ELSE ChargeOf(One(u), n) + h[Rest(u)]
  <2>1. h[u] = IF u = {} THEN 0 ELSE op[<<u, h[Rest(u)]>>]  BY <1>3, <1>4 DEF Folds
  <2>2. CASE u # {}
    <3>1. h[Rest(u)] \in Nat  BY <1>1, <1>3, <2>2
    <3>2. <<u, h[Rest(u)]>> \in (SUBSET P) \X Nat  BY <3>1
    <3>3. op[<<u, h[Rest(u)]>>] = ChargeOf(One(u), n) + h[Rest(u)]  BY <2>2, <3>2
    <3>. QED  BY <2>1, <2>2, <3>3
  <2>. QED  BY <2>1, <2>2
<1>5. ASSUME NEW Q \in SUBSET P PROVE Charged(Q, n) = h[Q]
  <2>1. Charged(Q, n) = (CHOOSE f : Sums(f, Q))[Q]
    BY DEF Charged, MapThenSumSet, MapThenFoldSet, One, Rest
  <2>2. Sums([u \in SUBSET Q |-> h[u]], Q)
    <3>1. \A u \in SUBSET Q : u \in SUBSET P /\ (u # {} => Rest(u) \in SUBSET Q)
      BY RestIsLess
    <3>. QED  BY <1>4, <3>1
  <2>3. ASSUME NEW f, Sums(f, Q) PROVE f[Q] = h[Q]
    <3>. DEFINE G == {u \in SUBSET Q : f[u] = h[u]}
    <3>1. ASSUME NEW u \in SUBSET Q, \A v \in SUBSET u : v # u => v \in G PROVE u \in G
      <4>1. f[u] = IF u = {} THEN 0 ELSE ChargeOf(One(u), n) + f[Rest(u)]  BY <2>3, <3>1
      <4>2. h[u] = IF u = {} THEN 0 ELSE ChargeOf(One(u), n) + h[Rest(u)]  BY <1>4, <3>1
      <4>3. u # {} => f[Rest(u)] = h[Rest(u)]  BY <3>1, RestIsLess
      <4>. QED  BY <3>1, <4>1, <4>2, <4>3
    <3>2. IsFiniteSet(Q)  BY FS_Subset
    <3>3. Q \in G
      <4>. HIDE DEF G
      <4>. QED  BY <3>1, <3>2, BySubsets
    <3>. QED  BY <3>3
  <2>. HIDE DEF Sums
  <2>. QED  BY <2>1, <2>2, <2>3
<1>6. SumsCharges(P, n, h)  BY <1>3, <1>4, <1>5 DEF SumsCharges
<1>. QED  BY <1>6

\* Taking any one out takes its charge out.
LEMMA ChargedSteps ==
    ASSUME NEW P, IsFiniteSet(P), NEW n, \A pa \in P : ChargeOf(pa, n) \in Nat
    PROVE  /\ Charged({}, n) = 0
           /\ \A u \in SUBSET P :
                /\ Charged(u, n) \in Nat
                /\ \A x \in u : Charged(u, n) = ChargeOf(x, n) + Charged(u \ {x}, n)
<1>0. PICK h : SumsCharges(P, n, h)  BY ChargedUnfolds
<1>1. /\ h \in [SUBSET P -> Nat]
      /\ \A u \in SUBSET P :
           /\ Charged(u, n) = h[u]
           /\ h[u] = IF u = {} THEN 0 ELSE ChargeOf(One(u), n) + h[Rest(u)]
  BY <1>0 DEF SumsCharges
<1>. DEFINE G == {u \in SUBSET P : \A x \in u : h[u] = ChargeOf(x, n) + h[u \ {x}]}
<1>2. ASSUME NEW u \in SUBSET P, \A v \in SUBSET u : v # u => v \in G PROVE u \in G
  <2>. SUFFICES ASSUME NEW x \in u PROVE h[u] = ChargeOf(x, n) + h[u \ {x}]
    OBVIOUS
  <2>. DEFINE y == One(u)
  <2>1. y \in u /\ Rest(u) = u \ {y} /\ u # {}  BY RestIsLess DEF Rest
  <2>2. h[u] = ChargeOf(y, n) + h[u \ {y}]  BY <1>1, <2>1
  <2>. HIDE DEF y
  <2>3. CASE x = y  BY <2>2, <2>3
  <2>4. CASE x # y
    <3>1. u \ {y} \in G /\ x \in u \ {y}  BY <1>2, <2>1, <2>4
    <3>2. u \ {x} \in G /\ y \in u \ {x}  BY <1>2, <2>1, <2>4
    <3>3. h[u \ {y}] = ChargeOf(x, n) + h[(u \ {y}) \ {x}]  BY <3>1
    <3>4. h[u \ {x}] = ChargeOf(y, n) + h[(u \ {x}) \ {y}]  BY <3>2
    <3>5. (u \ {y}) \ {x} = (u \ {x}) \ {y}  OBVIOUS
    <3>6. h[(u \ {y}) \ {x}] \in Nat /\ ChargeOf(x, n) \in Nat /\ ChargeOf(y, n) \in Nat
      <4>1. (u \ {y}) \ {x} \in SUBSET P  OBVIOUS
      <4>. QED  BY <1>1, <2>1, <4>1
    <3>7. \A k, cx, cy \in Nat : cy + (cx + k) = cx + (cy + k)  OBVIOUS
    <3>8. h[u] = ChargeOf(y, n) + (ChargeOf(x, n) + h[(u \ {y}) \ {x}])  BY <2>2, <3>3
    <3>9. h[u \ {x}] = ChargeOf(y, n) + h[(u \ {y}) \ {x}]  BY <3>4, <3>5
    <3>. DEFINE k == h[(u \ {y}) \ {x}]  cx == ChargeOf(x, n)  cy == ChargeOf(y, n)
    <3>10. cy + (cx + k) = cx + (cy + k)
      <4>. HIDE DEF k, cx, cy
      <4>. QED  BY <3>6, <3>7 DEF k, cx, cy
    <3>. QED  BY <3>8, <3>9, <3>10
  <2>. QED  BY <2>3, <2>4
<1>3. \A u \in SUBSET P : u \in G
  <2>. HIDE DEF G
  <2>. QED  BY <1>2, BySubsets
<1>4. Charged({}, n) = 0  BY <1>1
<1>5. \A u \in SUBSET P : \A x \in u : u \ {x} \in SUBSET P  OBVIOUS
<1>. QED  BY <1>1, <1>3, <1>4, <1>5

LEMMA ChargedMinus ==
    ASSUME NEW P, IsFiniteSet(P), NEW n, \A pa \in P : ChargeOf(pa, n) \in Nat, NEW Q \in SUBSET P
    PROVE  Charged(P \ Q, n) = Charged(P, n) - Charged(Q, n)
<1>. DEFINE G == {u \in SUBSET Q : Charged(P \ u, n) = Charged(P, n) - Charged(u, n)}
<1>1. ASSUME NEW u \in SUBSET Q, \A v \in SUBSET u : v # u => v \in G PROVE u \in G
  <2>1. CASE u = {}
    <3>1. P \ u = P /\ P \in SUBSET P  BY <2>1
    <3>2. Charged(P, n) \in Nat /\ Charged({}, n) = 0  BY <3>1, ChargedSteps
    <3>. QED  BY <2>1, <3>1, <3>2
  <2>2. CASE u # {}
    <3>1. PICK x \in u : TRUE  BY <2>2
    <3>2. u \ {x} \in G  BY <1>1
    <3>3. u \in SUBSET P /\ u \ {x} \in SUBSET P /\ P \ u \in SUBSET P
          /\ P \ (u \ {x}) \in SUBSET P /\ x \in P \ (u \ {x})
          /\ (P \ (u \ {x})) \ {x} = P \ u /\ P \in SUBSET P
      OBVIOUS
    <3>4. Charged(u, n) = ChargeOf(x, n) + Charged(u \ {x}, n)  BY <3>3, ChargedSteps
    <3>5. Charged(P \ (u \ {x}), n) = ChargeOf(x, n) + Charged(P \ u, n)  BY <3>3, ChargedSteps
    <3>6. /\ Charged(u \ {x}, n) \in Nat /\ Charged(P \ u, n) \in Nat /\ Charged(P, n) \in Nat
          /\ ChargeOf(x, n) \in Nat
      BY <3>3, ChargedSteps
    <3>7. Charged(P \ (u \ {x}), n) = Charged(P, n) - Charged(u \ {x}, n)  BY <3>2
    <3>8. Charged(P \ u, n) = Charged(P, n) - Charged(u, n)  BY <3>4, <3>5, <3>6, <3>7
    <3>. QED  BY <3>8
  <2>. QED  BY <2>1, <2>2
<1>2. IsFiniteSet(Q)  BY FS_Subset
<1>3. Q \in G
  <2>. HIDE DEF G
  <2>. QED  BY <1>1, <1>2, BySubsets
<1>. QED  BY <1>3

LEMMA ChargedNothing ==
    ASSUME NEW P, IsFiniteSet(P), NEW n, \A pa \in P : ChargeOf(pa, n) = 0
    PROVE  Charged(P, n) = 0
<1>1. \A pa \in P : ChargeOf(pa, n) \in Nat  OBVIOUS
<1>. DEFINE G == {u \in SUBSET P : Charged(u, n) = 0}
<1>2. ASSUME NEW u \in SUBSET P, \A v \in SUBSET u : v # u => v \in G PROVE u \in G
  <2>1. CASE u = {}  BY <1>1, <2>1, ChargedSteps
  <2>2. CASE u # {}
    <3>1. PICK x \in u : TRUE  BY <2>2
    <3>2. Charged(u, n) = ChargeOf(x, n) + Charged(u \ {x}, n)  BY <1>1, ChargedSteps
    <3>3. Charged(u \ {x}, n) = 0  BY <1>2
    <3>. QED  BY <3>2, <3>3
  <2>. QED  BY <2>1, <2>2
<1>3. P \in G
  <2>. HIDE DEF G
  <2>. QED  BY <1>2, BySubsets
<1>. QED  BY <1>3


\* The charges of what a catalog has placed.
LEMMA PlacedCharges ==
    ASSUME CatalogAssumption, NEW c, CatalogTyped(c)
    PROVE  /\ c \in Catalogs /\ c.adv \in SUBSET Backups
           /\ c.placed \in [Media -> SUBSET PlacedArchives] /\ c.vols \in VolumeRecords
           /\ Tape \in Media /\ Disk \in Media /\ Tape # Disk
           /\ \A m \in Media : /\ c.placed[m] \in SUBSET PlacedArchives /\ IsFiniteSet(c.placed[m])
                               /\ \A pa \in c.placed[m] : \A n : ChargeOf(pa, n) \in Nat
           /\ \A pa \in c.placed[Disk] : \A n \in Names : ChargeOf(pa, n) = 0
<1>1. \A m \in Media : \A pa \in c.placed[m] : \A n : ChargeOf(pa, n) \in Nat
  BY ChargeTyped DEF CatalogTyped
<1>2. ASSUME NEW pa \in c.placed[Disk], NEW n \in Names PROVE ChargeOf(pa, n) = 0
  <2>1. PlacedWell(pa) /\ Plain(pa)  BY DEF CatalogTyped, Media
  <2>2. n # "" /\ NoRef[1] = ""  BY DEF CatalogAssumption, NoRef
  <2>3. \A ref \in Mentions(pa) : ref[1] # n  BY <2>1, <2>2 DEF Plain
  <2>. QED  BY <2>1, <2>3, ChargeTyped
<1>. QED  BY <1>1, <1>2 DEF CatalogTyped, Catalogs, Media, CatalogAssumption

LEMMA VolumesTyped ==
    ASSUME NEW v \in VolumeRecords
    PROVE  /\ DOMAIN v \subseteq Names /\ v = [n \in DOMAIN v |-> v[n]]
           /\ \A n \in DOMAIN v : v[n] \in [epoch : Nat, used : Nat]
BY DEF VolumeRecords

LEMMA VolumesAre ==
    ASSUME NEW D \in SUBSET Names, NEW v \in [D -> [epoch : Nat, used : Nat]]
    PROVE  v \in VolumeRecords
BY DEF VolumeRecords

LEMMA AtLeastZero ==
    ASSUME NEW x \in Int
    PROVE  Max({0, x}) \in Nat /\ (x >= 0 => Max({0, x}) = x)
<1>1. \E y \in {0, x} : \A z \in {0, x} : y >= z  BY 0 >= x \/ x >= 0
<1>2. Max({0, x}) \in {0, x} /\ Max({0, x}) >= 0 /\ Max({0, x}) >= x
  BY <1>1 DEF Max
<1>. QED  BY <1>2

\* settleFill keeps labels and epochs, and a fill that comes out as it should.
LEMMA SettledWell ==
    ASSUME NEW v \in VolumeRecords, NEW delta \in [Names -> Int]
    PROVE  /\ SettledFill(v, delta) \in VolumeRecords
           /\ DOMAIN SettledFill(v, delta) = DOMAIN v
           /\ \A n \in DOMAIN v :
                /\ SettledFill(v, delta)[n].epoch = v[n].epoch
                /\ v[n].used + delta[n] >= 0 => SettledFill(v, delta)[n].used = v[n].used + delta[n]
<1>. DEFINE settled == SettledFill(v, delta)
<1>1. DOMAIN v \subseteq Names /\ \A n \in DOMAIN v : v[n] \in [epoch : Nat, used : Nat]
  BY VolumesTyped
<1>2. settled = [n \in DOMAIN v |-> [v[n] EXCEPT !.used = Max({0, v[n].used + delta[n]})]]
  BY DEF SettledFill
<1>3. ASSUME NEW n \in DOMAIN v
      PROVE  /\ settled[n] \in [epoch : Nat, used : Nat] /\ settled[n].epoch = v[n].epoch
             /\ v[n].used + delta[n] >= 0 => settled[n].used = v[n].used + delta[n]
  <2>. DEFINE x == v[n].used + delta[n]
  <2>1. x \in Int  BY <1>1
  <2>2. Max({0, x}) \in Nat /\ (x >= 0 => Max({0, x}) = x)
    <3>. HIDE DEF x
    <3>. QED  BY <2>1, AtLeastZero
  <2>3. settled[n] = [v[n] EXCEPT !.used = Max({0, x})]  BY <1>2
  <2>4. v[n] \in [epoch : Nat, used : Nat]  BY <1>1
  <2>. HIDE DEF settled
  <2>5. settled[n] \in [epoch : Nat, used : Nat] /\ settled[n].epoch = v[n].epoch /\ settled[n].used = Max({0, x})
    <3>. HIDE DEF x
    <3>. QED  BY <2>2, <2>3, <2>4
  <2>. QED  BY <2>2, <2>5
<1>4. DOMAIN settled = DOMAIN v  BY <1>2
<1>5. settled \in [DOMAIN v -> [epoch : Nat, used : Nat]]  BY <1>2, <1>3
<1>6. settled \in VolumeRecords
  <2>. HIDE DEF settled
  <2>. QED  BY <1>1, <1>5, VolumesAre
<1>. QED  BY <1>3, <1>4, <1>6

\* What taking copies out does to a catalog.
LEMMA WithoutWell ==
    ASSUME CatalogAssumption, NEW c, CatalogTyped(c), NEW m \in Media, NEW S \in SUBSET c.placed[m]
    PROVE  /\ CatalogTyped(Without(c, m, S)) /\ Without(c, m, S).adv = c.adv
           /\ Without(c, m, S).placed = [c.placed EXCEPT ![m] = c.placed[m] \ S]
           /\ DOMAIN Without(c, m, S).vols = DOMAIN c.vols
           /\ \A n \in DOMAIN c.vols : Without(c, m, S).vols[n].epoch = c.vols[n].epoch
           /\ Filled(c) => Filled(Without(c, m, S))
<1>. DEFINE r == Without(c, m, S)
            P == [c.placed EXCEPT ![m] = c.placed[m] \ S]
            delta == Delta(S, -1)
<1>1. /\ c \in Catalogs /\ c.placed \in [Media -> SUBSET PlacedArchives] /\ c.vols \in VolumeRecords
      /\ c.adv \in SUBSET Backups
      /\ Tape \in Media /\ Disk \in Media /\ Tape # Disk /\ IsFiniteSet(c.placed[m])
      /\ \A pa \in c.placed[m] : \A n : ChargeOf(pa, n) \in Nat
  BY PlacedCharges
<1>2. \A n : Charged(S, n) \in Nat /\ Charged(c.placed[m], n) \in Nat
             /\ Charged(c.placed[m] \ S, n) = Charged(c.placed[m], n) - Charged(S, n)
             /\ Charged(c.placed[m] \ S, n) \in Nat
  <2>. TAKE n
  <2>1. \A pa \in c.placed[m] : ChargeOf(pa, n) \in Nat  BY <1>1
  <2>2. S \in SUBSET c.placed[m] /\ c.placed[m] \ S \in SUBSET c.placed[m]
        /\ c.placed[m] \in SUBSET c.placed[m]
    OBVIOUS
  <2>3. Charged(S, n) \in Nat /\ Charged(c.placed[m], n) \in Nat /\ Charged(c.placed[m] \ S, n) \in Nat
    BY <1>1, <2>1, <2>2, ChargedSteps
  <2>4. Charged(c.placed[m] \ S, n) = Charged(c.placed[m], n) - Charged(S, n)
    BY <1>1, <2>1, ChargedMinus
  <2>. QED  BY <2>3, <2>4
<1>3. delta \in [Names -> Int] /\ \A n \in Names : delta[n] = -Charged(S, n)
  <2>1. delta = [n \in Names |-> (-1) * Charged(S, n)]  BY DEF Delta
  <2>2. \A x \in Nat : (-1) * x \in Int /\ (-1) * x = -x  OBVIOUS
  <2>. QED  BY <1>2, <2>1, <2>2
<1>4. r = [adv |-> c.adv, placed |-> P, vols |-> SettledFill(c.vols, delta)]
  <2>1. r = [c EXCEPT !.placed = P, !.vols = SettledFill(c.vols, delta)]
    BY <1>1 DEF Without, Catalogs
  <2>. HIDE DEF P, delta, r
  <2>. QED  BY <1>1, <2>1 DEF Catalogs
<1>5. /\ SettledFill(c.vols, delta) \in VolumeRecords /\ DOMAIN SettledFill(c.vols, delta) = DOMAIN c.vols
      /\ \A n \in DOMAIN c.vols :
           /\ SettledFill(c.vols, delta)[n].epoch = c.vols[n].epoch
           /\ c.vols[n].used + delta[n] >= 0 =>
                SettledFill(c.vols, delta)[n].used = c.vols[n].used + delta[n]
  <2>. HIDE DEF delta
  <2>. QED  BY <1>1, <1>3, SettledWell
<1>6. P \in [Media -> SUBSET PlacedArchives] /\ \A x \in Media : P[x] \subseteq c.placed[x]
  BY <1>1
<1>7. CatalogTyped(r)
  <2>1. r \in Catalogs
    <3>. HIDE DEF P, delta
    <3>. QED  BY <1>1, <1>4, <1>5, <1>6 DEF Catalogs
  <2>2. r.placed = P  BY <1>4
  <2>3. \A x \in Media : IsFiniteSet(P[x])  BY <1>6, FS_Subset DEF CatalogTyped
  <2>. HIDE DEF P, r
  <2>. QED  BY <1>1, <1>6, <2>1, <2>2, <2>3 DEF CatalogTyped
<1>8. ASSUME Filled(c), NEW n \in DOMAIN r.vols PROVE r.vols[n].used = LabelCharge + Charged(r.placed[Tape], n)
  <2>1. n \in DOMAIN c.vols /\ n \in Names /\ c.vols[n].used \in Nat
    BY <1>1, <1>4, <1>5, <1>8, VolumesTyped
  <2>2. c.vols[n].used = LabelCharge + Charged(c.placed[Tape], n)  BY <1>8, <2>1 DEF Filled
  <2>3. r.placed[Tape] = P[Tape] /\ r.vols = SettledFill(c.vols, delta)  BY <1>4
  <2>. HIDE DEF delta, r
  <2>4. CASE m = Tape
    <3>1. P[Tape] = c.placed[m] \ S  BY <1>1, <2>4
    <3>2. c.vols[n].used + delta[n] = LabelCharge + Charged(c.placed[m] \ S, n)
      <4>1. delta[n] = -Charged(S, n) /\ c.vols[n].used = 1 + Charged(c.placed[m], n)
        BY <1>3, <2>1, <2>2, <2>4 DEF LabelCharge
      <4>2. \A x, y, z \in Nat : (1 + x) + (-y) = 1 + (x - y)  OBVIOUS
      <4>3. Charged(c.placed[m], n) \in Nat /\ Charged(S, n) \in Nat
            /\ Charged(c.placed[m] \ S, n) = Charged(c.placed[m], n) - Charged(S, n)
        BY <1>2
      <4>. DEFINE x == Charged(c.placed[m], n)  y == Charged(S, n)
      <4>4. (1 + x) + (-y) = 1 + (x - y)  BY <4>2, <4>3
      <4>. QED  BY <4>1, <4>3, <4>4 DEF LabelCharge
    <3>3. c.vols[n].used + delta[n] >= 0  BY <1>2, <3>2 DEF LabelCharge
    <3>. QED  BY <1>5, <2>1, <2>3, <3>1, <3>2, <3>3
  <2>5. CASE m # Tape
    <3>1. P[Tape] = c.placed[Tape] /\ m = Disk  BY <1>1, <2>5 DEF Media
    <3>2. IsFiniteSet(S) /\ \A pa \in S : ChargeOf(pa, n) = 0
      BY <1>1, <2>1, <3>1, PlacedCharges, FS_Subset
    <3>3. Charged(S, n) = 0  BY <3>2, ChargedNothing
    <3>4. c.vols[n].used + delta[n] = c.vols[n].used  BY <1>3, <2>1, <3>3
    <3>. QED  BY <1>5, <2>1, <2>2, <2>3, <3>1, <3>4
  <2>. QED  BY <2>4, <2>5
<1>9. r.adv = c.adv /\ r.placed = P /\ r.vols = SettledFill(c.vols, delta)  BY <1>4
<1>. HIDE DEF r, P, delta
<1>. QED  BY <1>5, <1>7, <1>8, <1>9 DEF Filled, r, P


\* Adding a copy replaces the archive's older one on the medium.
LEMMA AddWell ==
    ASSUME CatalogAssumption, NEW c, CatalogTyped(c), NEW m \in Media,
           NEW pa, PlacedWell(pa), m = Disk => Plain(pa)
    PROVE  /\ CatalogTyped(AddArchive(c, m, pa)) /\ AddArchive(c, m, pa).adv = c.adv \cup {pa.arch}
           /\ AddArchive(c, m, pa).placed
                = [c.placed EXCEPT ![m] = (c.placed[m] \ Of(c.placed[m], pa.arch)) \cup {pa}]
           /\ DOMAIN AddArchive(c, m, pa).vols = DOMAIN c.vols
           /\ \A n \in DOMAIN c.vols : AddArchive(c, m, pa).vols[n].epoch = c.vols[n].epoch
           /\ Filled(c) => Filled(AddArchive(c, m, pa))
<1>. DEFINE r == AddArchive(c, m, pa)
            old == Of(c.placed[m], pa.arch)
            new == (c.placed[m] \ old) \cup {pa}
            P == [c.placed EXCEPT ![m] = new]
            moved == [n \in Names |-> Refund(old)[n] + ChargeOf(pa, n)]
<1>1. /\ c \in Catalogs /\ c.placed \in [Media -> SUBSET PlacedArchives] /\ c.vols \in VolumeRecords
      /\ c.adv \in SUBSET Backups
      /\ Tape \in Media /\ Disk \in Media /\ Tape # Disk /\ IsFiniteSet(c.placed[m])
      /\ \A q \in c.placed[m] : \A n : ChargeOf(q, n) \in Nat
  BY PlacedCharges
<1>2. /\ pa \in PlacedArchives /\ pa.arch \in Backups /\ \A n : ChargeOf(pa, n) \in Nat
      /\ m = Disk => \A n \in Names : ChargeOf(pa, n) = 0
  <2>1. ASSUME m = Disk, NEW n \in Names PROVE ChargeOf(pa, n) = 0
    <3>1. n # "" /\ NoRef[1] = ""  BY DEF CatalogAssumption, NoRef
    <3>2. \A ref \in Mentions(pa) : ref[1] # n  BY <2>1, <3>1 DEF Plain
    <3>. QED  BY <3>2, ChargeTyped
  <2>. QED  BY <2>1, ChargeTyped DEF PlacedWell, PlacedArchives
<1>3. old \in SUBSET c.placed[m] /\ pa \notin c.placed[m] \ old /\ IsFiniteSet(new)
      /\ new \in SUBSET PlacedArchives
  <2>1. old \in SUBSET c.placed[m] /\ pa \notin c.placed[m] \ old  BY DEF Of
  <2>2. IsFiniteSet(c.placed[m] \ old)  BY <1>1, FS_Subset
  <2>. HIDE DEF old
  <2>. QED  BY <1>1, <1>2, <2>1, <2>2, FS_AddElement
<1>4. \A n : /\ Charged(old, n) \in Nat /\ Charged(c.placed[m], n) \in Nat /\ Charged(new, n) \in Nat
             /\ Charged(new, n) = Charged(c.placed[m], n) - Charged(old, n) + ChargeOf(pa, n)
  <2>. TAKE n
  <2>. DEFINE kept == c.placed[m] \ old
  <2>1. \A q \in c.placed[m] : ChargeOf(q, n) \in Nat  BY <1>1
  <2>2. \A q \in new : ChargeOf(q, n) \in Nat  BY <1>1, <1>2
  <2>3. new \in SUBSET new /\ pa \in new /\ new \ {pa} = kept /\ kept \in SUBSET new
    BY <1>3
  <2>4. kept \in SUBSET c.placed[m] /\ c.placed[m] \in SUBSET c.placed[m]  OBVIOUS
  <2>. HIDE DEF new, old, kept
  <2>5. Charged(new, n) = ChargeOf(pa, n) + Charged(kept, n) /\ Charged(new, n) \in Nat
        /\ Charged(kept, n) \in Nat
    BY <1>3, <2>2, <2>3, ChargedSteps
  <2>6. Charged(old, n) \in Nat /\ Charged(c.placed[m], n) \in Nat
    BY <1>1, <1>3, <2>1, <2>4, ChargedSteps
  <2>7. Charged(kept, n) = Charged(c.placed[m], n) - Charged(old, n)
    BY <1>1, <1>3, <2>1, ChargedMinus DEF kept
  <2>. QED  BY <1>2, <2>5, <2>6, <2>7
<1>5. moved \in [Names -> Int] /\ \A n \in Names : moved[n] = ChargeOf(pa, n) - Charged(old, n)
  <2>1. \A n \in Names : Refund(old)[n] = (-1) * Charged(old, n)  BY DEF Refund, Delta
  <2>2. \A x, y \in Nat : (-1) * x + y \in Int /\ (-1) * x + y = y - x  OBVIOUS
  <2>. HIDE DEF old
  <2>. QED  BY <1>2, <1>4, <2>1, <2>2
<1>6. r = [adv |-> c.adv \cup {pa.arch}, placed |-> P, vols |-> SettledFill(c.vols, moved)]
  BY DEF AddArchive
<1>7. /\ SettledFill(c.vols, moved) \in VolumeRecords /\ DOMAIN SettledFill(c.vols, moved) = DOMAIN c.vols
      /\ \A n \in DOMAIN c.vols :
           /\ SettledFill(c.vols, moved)[n].epoch = c.vols[n].epoch
           /\ c.vols[n].used + moved[n] >= 0 =>
                SettledFill(c.vols, moved)[n].used = c.vols[n].used + moved[n]
  <2>. HIDE DEF moved
  <2>. QED  BY <1>1, <1>5, SettledWell
<1>8. P \in [Media -> SUBSET PlacedArchives]
      /\ \A x \in Media : P[x] = IF x = m THEN new ELSE c.placed[x]
  <2>. HIDE DEF new
  <2>. QED  BY <1>1, <1>3
<1>9. CatalogTyped(r)
  <2>1. r \in Catalogs
    <3>. HIDE DEF P, moved
    <3>. QED  BY <1>1, <1>2, <1>6, <1>7, <1>8 DEF Catalogs
  <2>2. r.placed = P  BY <1>6
  <2>3. \A x \in Media : IsFiniteSet(P[x])  BY <1>3, <1>8 DEF CatalogTyped
  <2>4. \A x \in Media : \A q \in P[x] : (q = pa /\ x = m) \/ q \in c.placed[x]  BY <1>8
  <2>. HIDE DEF P, r
  <2>. QED  BY <1>1, <2>1, <2>2, <2>3, <2>4 DEF CatalogTyped
<1>10. ASSUME Filled(c), NEW n \in DOMAIN r.vols
       PROVE  r.vols[n].used = LabelCharge + Charged(r.placed[Tape], n)
  <2>1. n \in DOMAIN c.vols /\ n \in Names /\ c.vols[n].used \in Nat
    BY <1>1, <1>6, <1>7, <1>10, VolumesTyped
  <2>2. c.vols[n].used = 1 + Charged(c.placed[Tape], n)  BY <1>10, <2>1 DEF Filled, LabelCharge
  <2>3. r.placed[Tape] = P[Tape] /\ r.vols = SettledFill(c.vols, moved)  BY <1>6
  <2>4. moved[n] = ChargeOf(pa, n) - Charged(old, n)  BY <1>5, <2>1
  <2>. HIDE DEF moved, r, P, new, old
  <2>5. CASE m = Tape
    <3>1. P[Tape] = new  BY <1>1, <1>8, <2>5
    <3>2. \A x, y, z \in Nat : (1 + x) + (z - y) = 1 + (x - y + z)  OBVIOUS
    <3>3. Charged(c.placed[m], n) \in Nat /\ Charged(old, n) \in Nat /\ ChargeOf(pa, n) \in Nat
          /\ Charged(new, n) \in Nat
          /\ Charged(new, n) = Charged(c.placed[m], n) - Charged(old, n) + ChargeOf(pa, n)
      BY <1>2, <1>4
    <3>4. c.vols[n].used + moved[n] = 1 + Charged(new, n)  BY <2>2, <2>4, <2>5, <3>2, <3>3
    <3>5. c.vols[n].used + moved[n] >= 0  BY <3>3, <3>4
    <3>. QED  BY <1>7, <2>1, <2>3, <3>1, <3>4, <3>5 DEF LabelCharge
  <2>6. CASE m # Tape
    <3>1. P[Tape] = c.placed[Tape] /\ m = Disk  BY <1>1, <1>8, <2>6 DEF Media
    <3>2. IsFiniteSet(old) /\ \A q \in old : ChargeOf(q, n) = 0
      BY <1>1, <1>3, <2>1, <3>1, PlacedCharges, FS_Subset
    <3>3. Charged(old, n) = 0 /\ ChargeOf(pa, n) = 0  BY <1>2, <2>1, <3>1, <3>2, ChargedNothing
    <3>4. c.vols[n].used + moved[n] = c.vols[n].used  BY <2>1, <2>4, <3>3
    <3>. QED  BY <1>7, <2>1, <2>2, <2>3, <3>1, <3>4 DEF LabelCharge
  <2>. QED  BY <2>5, <2>6
<1>11. r.adv = c.adv \cup {pa.arch} /\ r.placed = P /\ r.vols = SettledFill(c.vols, moved)  BY <1>6
<1>. HIDE DEF r, P, moved
<1>. QED  BY <1>7, <1>9, <1>10, <1>11 DEF Filled, r, P

\* ... and keeps what is held advertised.
LEMMA AddAdvertised ==
    ASSUME CatalogAssumption, NEW c, CatalogTyped(c), NEW m \in Media,
           NEW pa, PlacedWell(pa), m = Disk => Plain(pa), Advertised(c)
    PROVE  Advertised(AddArchive(c, m, pa))
<1>. DEFINE r == AddArchive(c, m, pa)
            old == Of(c.placed[m], pa.arch)
<1>1. /\ r.adv = c.adv \cup {pa.arch}
      /\ r.placed = [c.placed EXCEPT ![m] = (c.placed[m] \ old) \cup {pa}]
  BY AddWell
<1>2. c.placed \in [Media -> SUBSET PlacedArchives] /\ Tape \in Media /\ Disk \in Media
  BY PlacedCharges
<1>3. \A q \in old : q.arch = pa.arch  BY DEF Of
<1>4. \A x \in Media : r.placed[x] = IF x = m THEN (c.placed[m] \ old) \cup {pa} ELSE c.placed[x]
  BY <1>1, <1>2
<1>. HIDE DEF old, r
<1>5. \A x \in Media : \A q \in r.placed[x] : q = pa \/ q \in c.placed[x]  BY <1>4
<1>6. Listed(r)
  BY <1>1, <1>2, <1>5 DEF Listed, Advertised, Held
<1>7. ASSUME NEW q \in c.placed[Tape] \cup c.placed[Disk] PROVE q.arch[1] \in HeldRuns(r)
  <2>1. PICK x \in {Tape, Disk} : q \in c.placed[x]  OBVIOUS
  <2>2. q \in r.placed[x] \/ (x = m /\ q \in old)  BY <1>2, <1>4, <2>1
  <2>3. pa \in r.placed[m] /\ m \in {Tape, Disk}  BY <1>4 DEF Media
  <2>. QED  BY <1>3, <2>1, <2>2, <2>3 DEF HeldRuns
<1>8. pa.arch[1] \in HeldRuns(r)  BY <1>4 DEF HeldRuns, Media
<1>9. \A a \in c.adv : a[1] \in HeldRuns(r)  BY <1>7 DEF Advertised, HeldRuns
<1>. QED  BY <1>1, <1>6, <1>8, <1>9 DEF Advertised, r

\* Runs without a copy go from what is advertised, and nothing else does.
LEMMA EmptyRunsGo ==
    ASSUME NEW c, CatalogTyped(c)
    PROVE  /\ CatalogTyped(WithoutEmptyRuns(c))
           /\ WithoutEmptyRuns(c).placed = c.placed /\ WithoutEmptyRuns(c).vols = c.vols
           /\ Listed(c) => Advertised(WithoutEmptyRuns(c))
           /\ Filled(c) => Filled(WithoutEmptyRuns(c))
<1>. DEFINE r == WithoutEmptyRuns(c)
            A == {a \in c.adv : a[1] \in HeldRuns(c)}
<1>1. c \in Catalogs  BY DEF CatalogTyped
<1>2. r = [c EXCEPT !.adv = A]  BY DEF WithoutEmptyRuns
<1>3. r \in Catalogs /\ r.placed = c.placed /\ r.vols = c.vols /\ r.adv = A
  <2>1. A \in SUBSET Backups  BY <1>1 DEF Catalogs
  <2>. HIDE DEF A, r
  <2>. QED  BY <1>1, <1>2, <2>1 DEF Catalogs
<1>4. CatalogTyped(r)
  <2>. HIDE DEF r
  <2>. QED  BY <1>3 DEF CatalogTyped
<1>5. HeldRuns(r) = HeldRuns(c) /\ \A m : Held(r, m) = Held(c, m)
  <2>. HIDE DEF r
  <2>. QED  BY <1>3 DEF HeldRuns, Held
<1>6. ASSUME Listed(c) PROVE Advertised(r)
  <2>1. \A m \in {Tape, Disk} : \A a \in Held(c, m) : a \in c.adv /\ a[1] \in HeldRuns(c)
    BY <1>6 DEF Listed, Held, HeldRuns
  <2>2. Listed(r)
    <3>. HIDE DEF r
    <3>. QED  BY <1>3, <1>5, <2>1 DEF Listed
  <2>. HIDE DEF r
  <2>. QED  BY <1>3, <1>5, <2>2 DEF Advertised
<1>7. Filled(c) => Filled(r)
  <2>. HIDE DEF r
  <2>. QED  BY <1>3 DEF Filled
<1>. QED  BY <1>3, <1>4, <1>6, <1>7

\* Registering a volume: nothing may be left of another epoch there.
LEMMA RecordWell ==
    ASSUME CatalogAssumption, NEW c, CatalogTyped(c), NEW name \in Names, NEW epoch \in Nat
    PROVE  LET r == RecordVolume(c, name, epoch)
           IN  /\ CatalogTyped(r) /\ r.adv = c.adv /\ r.placed = c.placed
               /\ DOMAIN r.vols = DOMAIN c.vols \cup {name} /\ r.vols[name].epoch = epoch
               /\ \A n \in DOMAIN c.vols \ {name} : r.vols[n] = c.vols[n]
               /\ /\ Filled(c)
                  /\ name \in DOMAIN c.vols /\ c.vols[name].epoch # epoch =>
                       \A pa \in c.placed[Tape] : \A ref \in Mentions(pa) : ref[1] # name
                  => Filled(r)
<1>. DEFINE r == RecordVolume(c, name, epoch)
            used == IF name \notin DOMAIN c.vols THEN LabelCharge + RetroFill(c, name)
                    ELSE IF c.vols[name].epoch = epoch THEN c.vols[name].used ELSE LabelCharge
            entry == [epoch |-> epoch, used |-> used]
            V == [n \in DOMAIN c.vols \cup {name} |-> IF n = name THEN entry ELSE c.vols[n]]
<1>1. /\ c \in Catalogs /\ c.vols \in VolumeRecords /\ Tape \in Media /\ IsFiniteSet(c.placed[Tape])
      /\ \A pa \in c.placed[Tape] : \A n : ChargeOf(pa, n) \in Nat
      /\ DOMAIN c.vols \subseteq Names
      /\ \A n \in DOMAIN c.vols : c.vols[n] \in [epoch : Nat, used : Nat]
  BY PlacedCharges, VolumesTyped
<1>2. \A n : Charged(c.placed[Tape], n) \in Nat
  <2>. TAKE n
  <2>1. c.placed[Tape] \in SUBSET c.placed[Tape]  OBVIOUS
  <2>. QED  BY <1>1, <2>1, ChargedSteps
<1>3. used \in Nat  BY <1>1, <1>2 DEF LabelCharge, RetroFill
<1>4. entry \in [epoch : Nat, used : Nat]
  <2>. HIDE DEF used
  <2>. QED  BY <1>3
<1>5. /\ DOMAIN V = DOMAIN c.vols \cup {name} /\ V[name] = entry
      /\ \A n \in DOMAIN c.vols \ {name} : V[n] = c.vols[n]
      /\ V = [n \in DOMAIN c.vols \cup {name} |-> V[n]]
  <2>. HIDE DEF entry
  <2>. QED  OBVIOUS
<1>6. V \in VolumeRecords
  <2>. DEFINE D == DOMAIN c.vols \cup {name}
  <2>1. D \in SUBSET Names  BY <1>1
  <2>2. \A n \in D : V[n] \in [epoch : Nat, used : Nat]
    <3>. HIDE DEF V, entry
    <3>. QED  BY <1>1, <1>4, <1>5
  <2>3. V \in [D -> [epoch : Nat, used : Nat]]
    <3>. HIDE DEF V
    <3>. QED  BY <1>5, <2>2
  <2>. HIDE DEF V, D
  <2>. QED  BY <2>1, <2>3, VolumesAre
<1>7. r = [c EXCEPT !.vols = V]  BY DEF RecordVolume
<1>8. r \in Catalogs /\ r.adv = c.adv /\ r.placed = c.placed /\ r.vols = V
  <2>. HIDE DEF V, r
  <2>. QED  BY <1>1, <1>6, <1>7 DEF Catalogs
<1>9. CatalogTyped(r)
  <2>. HIDE DEF r
  <2>. QED  BY <1>8 DEF CatalogTyped
<1>10. ASSUME Filled(c),
              name \in DOMAIN c.vols /\ c.vols[name].epoch # epoch =>
                \A pa \in c.placed[Tape] : \A ref \in Mentions(pa) : ref[1] # name,
              NEW n \in DOMAIN V
       PROVE  V[n].used = LabelCharge + Charged(c.placed[Tape], n)
  <2>1. CASE n # name
    <3>1. n \in DOMAIN c.vols /\ V[n] = c.vols[n]
      <4>. HIDE DEF V, entry
      <4>. QED  BY <1>5, <1>10, <2>1
    <3>. QED  BY <1>10, <3>1 DEF Filled
  <2>2. CASE n = name
    <3>1. V[n].used = used
      <4>1. entry.used = used  OBVIOUS
      <4>. HIDE DEF V, entry
      <4>. QED  BY <1>5, <2>2, <4>1
    <3>2. CASE name \notin DOMAIN c.vols  BY <2>2, <3>1, <3>2 DEF RetroFill
    <3>3. CASE name \in DOMAIN c.vols /\ c.vols[name].epoch = epoch
      BY <1>10, <2>2, <3>1, <3>3 DEF Filled
    <3>4. CASE name \in DOMAIN c.vols /\ c.vols[name].epoch # epoch
      <4>1. \A pa \in c.placed[Tape] : ChargeOf(pa, name) = 0
        BY <1>1, <1>10, <3>4, ChargeTyped DEF CatalogTyped
      <4>2. Charged(c.placed[Tape], name) = 0  BY <1>1, <4>1, ChargedNothing
      <4>. QED  BY <2>2, <3>1, <3>4, <4>2 DEF LabelCharge
    <3>. QED  BY <3>2, <3>3, <3>4
  <2>. QED  BY <2>1, <2>2
<1>11. V[name].epoch = epoch
  <2>1. entry.epoch = epoch  OBVIOUS
  <2>. HIDE DEF V, entry
  <2>. QED  BY <1>5, <2>1
<1>. HIDE DEF V, r
<1>. QED  BY <1>5, <1>8, <1>9, <1>10, <1>11 DEF Filled, r


\* Taking copies out and letting the runs without one go: what is left of a catalog.
Thinner(c, d, m, S) ==
    /\ CatalogTyped(d) /\ d.placed = [c.placed EXCEPT ![m] = c.placed[m] \ S]
    /\ DOMAIN d.vols = DOMAIN c.vols /\ \A n \in DOMAIN c.vols : d.vols[n].epoch = c.vols[n].epoch
    /\ Listed(c) => Advertised(d)
    /\ Filled(c) => Filled(d)

LEMMA WithoutListed ==
    ASSUME CatalogAssumption, NEW c, CatalogTyped(c), NEW m \in Media, NEW S \in SUBSET c.placed[m],
           Listed(c)
    PROVE  Listed(Without(c, m, S))
<1>1. /\ Without(c, m, S).adv = c.adv
      /\ Without(c, m, S).placed = [c.placed EXCEPT ![m] = c.placed[m] \ S]
  BY WithoutWell
<1>2. c.placed \in [Media -> SUBSET PlacedArchives] /\ Tape \in Media /\ Disk \in Media
  BY PlacedCharges
<1>3. \A x \in Media : Without(c, m, S).placed[x] \subseteq c.placed[x]  BY <1>1, <1>2
<1>. QED  BY <1>1, <1>2, <1>3 DEF Listed, Held

LEMMA RemovedWell ==
    ASSUME CatalogAssumption, NEW c, CatalogTyped(c), NEW m \in Media, NEW S \in SUBSET c.placed[m]
    PROVE  Thinner(c, WithoutEmptyRuns(Without(c, m, S)), m, S)
<1>. DEFINE e == Without(c, m, S)
<1>1. /\ CatalogTyped(e) /\ e.placed = [c.placed EXCEPT ![m] = c.placed[m] \ S]
      /\ DOMAIN e.vols = DOMAIN c.vols /\ \A n \in DOMAIN c.vols : e.vols[n].epoch = c.vols[n].epoch
      /\ Filled(c) => Filled(e)
  BY WithoutWell
<1>2. Listed(c) => Listed(e)  BY WithoutListed
<1>. HIDE DEF e
<1>3. Thinner(c, WithoutEmptyRuns(e), m, S)  BY <1>1, <1>2, EmptyRunsGo DEF Thinner
<1>. QED  BY <1>3 DEF e

LEMMA RemovePlacementWell ==
    ASSUME CatalogAssumption, NEW c, CatalogTyped(c), NEW m \in Media, NEW run
    PROVE  Thinner(c, RemovePlacement(c, run, m), m, {pa \in c.placed[m] : pa.arch[1] = run})
BY RemovedWell DEF RemovePlacement

LEMMA DropStaleOnWell ==
    ASSUME CatalogAssumption, NEW c, CatalogTyped(c), NEW name, NEW epoch
    PROVE  Thinner(c, DropStaleOn(c, name, epoch), Tape,
               {pa \in c.placed[Tape] : \E ref \in Refs(pa) : ref[1] = name /\ ref[2] # epoch})
<1>1. Tape \in Media  BY DEF Media
<1>. QED  BY <1>1, RemovedWell DEF DropStaleOn

LEMMA RemoveArchiveWell ==
    ASSUME CatalogAssumption, NEW c, CatalogTyped(c), NEW m \in Media, NEW a
    PROVE  Thinner(c, RemoveArchive(c, m, a), m, Of(c.placed[m], a))
<1>. DEFINE S == Of(c.placed[m], a)
            e == Without(c, m, S)
            d == DropUnheld(e, m, a)
            A == IF \E x \in Media : a \in Held(e, x) THEN e.adv ELSE e.adv \ {a}
<1>0. S \in SUBSET c.placed[m]  BY DEF Of
<1>1. /\ CatalogTyped(e) /\ e.placed = [c.placed EXCEPT ![m] = c.placed[m] \ S]
      /\ DOMAIN e.vols = DOMAIN c.vols /\ \A n \in DOMAIN c.vols : e.vols[n].epoch = c.vols[n].epoch
      /\ Filled(c) => Filled(e)
  <2>. HIDE DEF S
  <2>. QED  BY <1>0, WithoutWell
<1>2. Listed(c) => Listed(e)
  <2>. HIDE DEF S
  <2>. QED  BY <1>0, WithoutListed
<1>3. e \in Catalogs  BY <1>1 DEF CatalogTyped
<1>. HIDE DEF e, S
<1>4. d = [e EXCEPT !.adv = A]  BY DEF DropUnheld
<1>5. A \in SUBSET Backups /\ A \in SUBSET e.adv /\ \A b \in e.adv : b \in A \/ \A x \in Media : b \notin Held(e, x)
  BY <1>3 DEF Catalogs
<1>6. d \in Catalogs /\ d.placed = e.placed /\ d.vols = e.vols /\ d.adv = A
  <2>. HIDE DEF A, d
  <2>. QED  BY <1>3, <1>4, <1>5 DEF Catalogs
<1>. HIDE DEF d
<1>7. CatalogTyped(d)  BY <1>1, <1>6 DEF CatalogTyped
<1>8. Filled(e) => Filled(d)  BY <1>6 DEF Filled
<1>9. Listed(e) => Listed(d)
  <2>1. \A x : Held(d, x) = Held(e, x)  BY <1>6 DEF Held
  <2>. HIDE DEF A
  <2>. QED  BY <1>5, <1>6, <2>1 DEF Listed, Media
<1>10. Thinner(c, WithoutEmptyRuns(d), m, S)
  BY <1>1, <1>2, <1>6, <1>7, <1>8, <1>9, EmptyRunsGo DEF Thinner
<1>. QED  BY <1>10 DEF RemoveArchive, d, e, S

\* What is known of the references outlives the removal.
LEMMA ThinnerKnown ==
    ASSUME CatalogAssumption, NEW c, CatalogTyped(c), NEW m \in Media, NEW S, NEW d, Thinner(c, d, m, S)
    PROVE  /\ \A x \in Media : d.placed[x] \subseteq c.placed[x]
           /\ Known(c) => Known(d)
<1>1. c.placed \in [Media -> SUBSET PlacedArchives] /\ Tape \in Media  BY PlacedCharges
<1>2. \A x \in Media : d.placed[x] \subseteq c.placed[x]  BY <1>1 DEF Thinner
<1>. QED  BY <1>1, <1>2 DEF Thinner, Known, Dated

-----------------------------------------------------------------------------
\* Two functions that agree on a set once they agree on its rest agree on all of it.
LEMMA SameFold ==
    ASSUME NEW S, IsFiniteSet(S), NEW f, NEW h,
           \A u \in SUBSET S : (u # {} => f[Rest(u)] = h[Rest(u)]) => f[u] = h[u]
    PROVE  f[S] = h[S]
<1>. DEFINE G == {u \in SUBSET S : f[u] = h[u]}
<1>1. ASSUME NEW u \in SUBSET S, \A v \in SUBSET u : v # u => v \in G PROVE u \in G
  BY <1>1, RestIsLess
<1>2. S \in G
  <2>. HIDE DEF G
  <2>. QED  BY <1>1, BySubsets
<1>. QED  BY <1>2

\* Something built up step by step from 0 to a number.
Stepping(n, base, op, f) == f[0] = base /\ \A i \in 1 .. n : f[i] = op[<<i, f[i - 1]>>]

LEMMA StepsExist ==
    ASSUME NEW n \in Nat, NEW V, NEW base \in V, NEW op \in [(1 .. n) \X V -> V]
    PROVE  \E f \in [0 .. n -> V] : Stepping(n, base, op, f)
<1>. DEFINE Upto(k, f) == f \in [0 .. k -> V] /\ f[0] = base /\ \A i \in 1 .. k : f[i] = op[<<i, f[i - 1]>>]
            Bad == {k \in 0 .. n : ~\E f : Upto(k, f)}
<1>. SUFFICES ASSUME Bad # {} PROVE FALSE
  <2>1. n \in 0 .. n  OBVIOUS
  <2>2. n \notin Bad => \E f : Upto(n, f)  BY <2>1
  <2>. QED  BY <2>2 DEF Stepping
<1>1. PICK k \in Bad : \A j \in Bad : k <= j
  <2>1. Bad \in SUBSET Nat  OBVIOUS
  <2>. HIDE DEF Bad
  <2>. QED  BY <2>1, Least
<1>2. k # 0
  <2>1. Upto(0, [i \in {0} |-> base])  OBVIOUS
  <2>. HIDE DEF Upto
  <2>2. \E f : Upto(0, f)  BY <2>1
  <2>. QED  BY <1>1, <2>2
<1>3. k \in 1 .. n /\ k - 1 \in 0 .. n /\ k - 1 \notin Bad
  <2>1. k \in 0 .. n  BY <1>1
  <2>2. k \in 1 .. n /\ k - 1 \in 0 .. n /\ ~(k <= k - 1)  BY <1>2, <2>1
  <2>. HIDE DEF Bad
  <2>. QED  BY <1>1, <2>2
<1>4. PICK f : Upto(k - 1, f)  BY <1>3
<1>. DEFINE g == [i \in 0 .. k |-> IF i = k THEN op[<<k, f[k - 1]>>] ELSE f[i]]
<1>5. f[k - 1] \in V /\ op[<<k, f[k - 1]>>] \in V
  <2>1. k - 1 \in 0 .. k - 1  BY <1>3
  <2>2. f[k - 1] \in V  BY <1>4, <2>1
  <2>. QED  BY <1>3, <2>2
<1>6. \A i \in 0 .. k : i # k => i \in 0 .. k - 1 /\ g[i] = f[i] /\ f[i] \in V  BY <1>3, <1>4
<1>7. g \in [0 .. k -> V] /\ g[0] = base
  <2>1. \A i \in 0 .. k : g[i] \in V  BY <1>5, <1>6
  <2>2. 0 \in 0 .. k /\ 0 # k  BY <1>3
  <2>. QED  BY <1>4, <1>6, <2>1, <2>2
<1>8. ASSUME NEW i \in 1 .. k PROVE g[i] = op[<<i, g[i - 1]>>]
  <2>1. i \in 0 .. k /\ i - 1 \in 0 .. k /\ i - 1 # k /\ (i # k => i \in 1 .. k - 1)  BY <1>3
  <2>2. g[i - 1] = f[i - 1]  BY <1>6, <2>1
  <2>3. CASE i = k  BY <2>1, <2>2, <2>3
  <2>4. CASE i # k  BY <1>4, <1>6, <2>1, <2>2, <2>4
  <2>. QED  BY <2>3, <2>4
<1>9. \E h : Upto(k, h)
  <2>1. Upto(k, g)
    <3>. HIDE DEF g
    <3>. QED  BY <1>7, <1>8
  <2>. HIDE DEF Upto, g
  <2>. QED  BY <2>1
<1>. QED  BY <1>1, <1>9


LEMMA MaxIn ==
    ASSUME NEW S \in SUBSET Nat, IsFiniteSet(S), S # {}
    PROVE  Max(S) \in S /\ \A k \in S : k <= Max(S)
<1>. DEFINE G == {u \in SUBSET S : u # {} => \E m \in u : \A k \in u : m >= k}
<1>1. ASSUME NEW u \in SUBSET S, \A v \in SUBSET u : v # u => v \in G PROVE u \in G
  <2>. SUFFICES ASSUME u # {} PROVE \E m \in u : \A k \in u : m >= k
    OBVIOUS
  <2>1. PICK x \in u : TRUE  OBVIOUS
  <2>2. u \ {x} \in G  BY <1>1
  <2>3. CASE u \ {x} = {}  BY <2>1, <2>3
  <2>4. CASE u \ {x} # {}
    <3>1. PICK m \in u \ {x} : \A k \in u \ {x} : m >= k  BY <2>2, <2>4
    <3>2. m \in Nat /\ x \in Nat  BY <2>1, <3>1
    <3>3. CASE m >= x  BY <3>1, <3>3
    <3>4. CASE x >= m
      <4>1. \A k \in u \ {x} : k \in Nat  OBVIOUS
      <4>2. \A k \in u : x >= k  BY <3>1, <3>2, <3>4, <4>1
      <4>. QED  BY <2>1, <4>2
    <3>. QED  BY <3>2, <3>3, <3>4
  <2>. QED  BY <2>3, <2>4
<1>2. S \in G
  <2>. HIDE DEF G
  <2>. QED  BY <1>1, BySubsets
<1>3. \E m \in S : \A k \in S : m >= k  BY <1>2
<1>4. Max(S) \in S /\ \A k \in S : Max(S) >= k  BY <1>3 DEF Max
<1>. QED  BY <1>4

\* What a scan says of an archive: only the reels scanned, or what its footer says.
Labels(S) == {RefOf(r) : r \in S}

LEMMA ReelsAre ==
    ASSUME CatalogAssumption, ReelsTyped, NEW S \in SUBSET Labeled
    PROVE  /\ IsFiniteSet(S) /\ S \in SUBSET Reels /\ S \in SUBSET Nat
           /\ \A r \in S : /\ reels[r].name \in Names /\ reels[r].epoch \in Nat
                           /\ RefOf(r) = <<reels[r].name, reels[r].epoch>> /\ RefOf(r) \in Refer
                           /\ \A q \in Reels : reels[q].name = reels[r].name => q = r
           /\ IsFiniteSet(CommitsOn(S)) /\ CommitsOn(S) \subseteq CommitsOn(Reels)
           /\ \A f \in CommitsOn(S) : FooterTyped(f) /\ \E r \in S : f \in reels[r].files
<1>1. S \in SUBSET Reels /\ S \in SUBSET Nat /\ \A r \in S : reels[r].name # ""
  BY DEF Labeled, CatalogAssumption
<1>2. IsFiniteSet(S)  BY <1>1, FS_Subset DEF CatalogAssumption
<1>3. \A r \in S : reels[r].name \in Names /\ reels[r].epoch \in Nat
  BY <1>1 DEF ReelsTyped
<1>4. ASSUME NEW r \in S, NEW q \in Reels, reels[q].name = reels[r].name PROVE q = r
  BY <1>1, <1>4 DEF ReelsTyped
<1>5. IsFiniteSet(CommitsOn(S))
  <2>. DEFINE on(r) == {f \in reels[r].files : f.kind = "commit"}
              ons == [r \in S |-> on(r)]
              all == {ons[r] : r \in S}
  <2>1. \A r \in S : IsFiniteSet(on(r))
    <3>. SUFFICES ASSUME NEW r \in S PROVE IsFiniteSet(on(r))  OBVIOUS
    <3>1. IsFiniteSet(reels[r].files) /\ on(r) \subseteq reels[r].files  BY <1>1 DEF ReelsTyped
    <3>. HIDE DEF on
    <3>. QED  BY <3>1, FS_Subset
  <2>2. IsFiniteSet(all)
    <3>1. ons \in Surjection(S, all)
      <4>. HIDE DEF on
      <4>. QED  BY DEF Surjection
    <3>. HIDE DEF ons, all
    <3>. QED  BY <1>2, <3>1, FS_Surjection
  <2>3. \A x \in all : IsFiniteSet(x)  BY <2>1
  <2>4. IsFiniteSet(UNION all)
    <3>. HIDE DEF all
    <3>. QED  BY <2>2, <2>3, FS_UNION
  <2>5. CommitsOn(S) = UNION all  BY DEF CommitsOn
  <2>. QED  BY <2>4, <2>5
<1>6. CommitsOn(S) \subseteq CommitsOn(Reels)  BY <1>1 DEF CommitsOn
<1>7. \A f \in CommitsOn(S) : \E r \in S : f \in reels[r].files  BY DEF CommitsOn
<1>8. \A f \in CommitsOn(S) : FooterTyped(f)  BY <1>6 DEF ReelsTyped
<1>. QED  BY <1>1, <1>2, <1>3, <1>4, <1>5, <1>6, <1>7, <1>8 DEF RefOf, Refer

LEMMA LocatedWell ==
    ASSUME CatalogAssumption, ReelsTyped, NEW S \in SUBSET Labeled, NEW f \in CommitsOn(S), NEW i \in 1 .. f.n
    PROVE  LocatedPart(S, f, i) \in Labels(S) \cup Range(f.map) \cup {NoRef}
<1>. DEFINE seen == SightedOn(S, [kind |-> "part", arch |-> f.arch, i |-> i])
<1>1. seen \in SUBSET S  BY DEF SightedOn
<1>2. LocatedPart(S, f, i) = IF seen # {} THEN RefOf(Max(seen)) ELSE IF f.map # <<>> THEN f.map[i] ELSE NoRef
  BY DEF LocatedPart
<1>. HIDE DEF seen
<1>3. CASE seen # {}
  <2>1. seen \in SUBSET Nat /\ IsFiniteSet(seen)  BY <1>1, ReelsAre, FS_Subset
  <2>2. Max(seen) \in S  BY <1>1, <1>3, <2>1, MaxIn
  <2>. QED  BY <1>2, <1>3, <2>2 DEF Labels
<1>4. CASE seen = {} /\ f.map # <<>>
  <2>1. f.map \in Seq(Refer) /\ Len(f.map) = f.n  BY <1>4, ReelsAre DEF FooterTyped
  <2>. QED  BY <1>2, <1>4, <2>1 DEF Range
<1>. QED  BY <1>2, <1>3, <1>4

LEMMA AssembledWell ==
    ASSUME CatalogAssumption, ReelsTyped, NEW S \in SUBSET Labeled, NEW f \in CommitsOn(S)
    PROVE  /\ PlacedWell(Assembled(S, f)) /\ Assembled(S, f).arch = f.arch
           /\ \A ref \in Mentions(Assembled(S, f)) :
                ref \in Labels(S) \cup Range(f.map) \cup {f.index, NoRef}
<1>. DEFINE R == Labels(S) \cup Range(f.map) \cup {NoRef}
            grown(i, g) == IF LocatedPart(S, f, i) = NoRef THEN g ELSE Append(g, LocatedPart(S, f, i))
            op == [ig \in (1 .. f.n) \X Seq(R) |-> grown(ig[1], ig[2])]
            Built(g) == g = [i \in 0 .. f.n |-> IF i = 0 THEN <<>> ELSE grown(i, g[i - 1])]
            g == CHOOSE g : Built(g)
<1>1. /\ FooterTyped(f) /\ f.n \in Nat /\ f.n # 0 /\ f.arch \in Backups /\ f.index \in Refer
      /\ f.map \in Seq(Refer)
  BY ReelsAre DEF FooterTyped
<1>2. \A i \in 1 .. f.n : LocatedPart(S, f, i) \in R  BY LocatedWell
<1>3. R \in SUBSET Refer
  <2>1. NoRef \in Refer  BY DEF NoRef, Refer
  <2>2. Labels(S) \subseteq Refer  BY ReelsAre DEF Labels
  <2>3. Range(f.map) \subseteq Refer  BY <1>1 DEF Range
  <2>. QED  BY <2>1, <2>2, <2>3
<1>4. \A i \in 1 .. f.n, s \in Seq(R) : grown(i, s) \in Seq(R)
  <2>. HIDE DEF R
  <2>. QED  BY <1>2
<1>5. op \in [(1 .. f.n) \X Seq(R) -> Seq(R)]
  <2>. HIDE DEF grown, R
  <2>. QED  BY <1>4
<1>6. PICK h \in [0 .. f.n -> Seq(R)] : h[0] = <<>> /\ \A i \in 1 .. f.n : h[i] = op[<<i, h[i - 1]>>]
  <2>. DEFINE V == Seq(R)
              n == f.n
  <2>1. <<>> \in V  OBVIOUS
  <2>2. n \in Nat /\ op \in [(1 .. n) \X V -> V]
    <3>. HIDE DEF op
    <3>. QED  BY <1>1, <1>5
  <2>. HIDE DEF op, V, n
  <2>3. \E h \in [0 .. n -> V] : Stepping(n, <<>>, op, h)
    BY <2>1, <2>2, StepsExist
  <2>. QED  BY <2>3 DEF V, n, Stepping
<1>7. Built(h)
  <2>1. ASSUME NEW i \in 0 .. f.n PROVE h[i] = IF i = 0 THEN <<>> ELSE grown(i, h[i - 1])
    <3>1. CASE i = 0  BY <1>6, <3>1
    <3>2. CASE i # 0
      <4>1. i \in 1 .. f.n /\ i - 1 \in 0 .. f.n  BY <1>1, <3>2
      <4>2. h[i - 1] \in Seq(R)  BY <1>6, <4>1
      <4>3. op[<<i, h[i - 1]>>] = grown(i, h[i - 1])
        <5>. HIDE DEF grown, R
        <5>. QED  BY <4>1, <4>2
      <4>. HIDE DEF grown, op, R
      <4>. QED  BY <1>6, <3>2, <4>1, <4>3
    <3>. QED  BY <3>1, <3>2
  <2>. HIDE DEF grown, R, op
  <2>. QED  BY <1>6, <2>1
<1>8. Built(g)
  <2>. HIDE DEF Built
  <2>. QED  BY <1>7
<1>. DEFINE Bad == {i \in 0 .. f.n : g[i] \notin Seq(R)}
<1>9. Bad = {}
  <2>. HIDE DEF g
  <2>. SUFFICES ASSUME Bad # {} PROVE FALSE  OBVIOUS
  <2>1. PICK k \in Bad : \A j \in Bad : k <= j
    <3>1. Bad \in SUBSET Nat  OBVIOUS
    <3>. HIDE DEF Bad
    <3>. QED  BY <3>1, Least
  <2>2. k \in 0 .. f.n /\ g[k] \notin Seq(R)  OBVIOUS
  <2>3. k # 0
    <3>1. 0 \in 0 .. f.n  BY <1>1
    <3>2. g[0] = <<>>
      <4>. HIDE DEF grown
      <4>. QED  BY <1>8, <3>1
    <3>3. <<>> \in Seq(R)
      <4>. HIDE DEF R
      <4>. QED  OBVIOUS
    <3>. HIDE DEF R
    <3>. QED  BY <2>2, <3>2, <3>3
  <2>4. k \in 1 .. f.n /\ k - 1 \in 0 .. f.n /\ ~(k <= k - 1)  BY <1>1, <2>2, <2>3
  <2>5. g[k - 1] \in Seq(R)
    <3>1. k - 1 \notin Bad
      <4>. HIDE DEF Bad
      <4>. QED  BY <2>1, <2>4
    <3>. QED  BY <2>4, <3>1
  <2>6. g[k] = grown(k, g[k - 1])
    <3>. HIDE DEF grown
    <3>. QED  BY <1>8, <2>2, <2>3
  <2>7. grown(k, g[k - 1]) \in Seq(R)
    <3>. HIDE DEF grown, R
    <3>. QED  BY <1>4, <2>4, <2>5
  <2>. HIDE DEF grown, R
  <2>. QED  BY <2>2, <2>6, <2>7
<1>. DEFINE parts == g[f.n]
            index == SightedOn(S, [kind |-> "index", arch |-> f.arch])
<1>10. parts \in Seq(R)
  <2>1. f.n \in 0 .. f.n  BY <1>1
  <2>2. f.n \notin Bad  BY <1>9
  <2>. HIDE DEF g, R
  <2>. QED  BY <2>1, <2>2
<1>11. Assembled(S, f) = [arch |-> f.arch, parts |-> parts, sealed |-> Len(parts) = f.n,
         commit |-> RefOf(FooterOn(S, f)),
         index |-> IF index # {} THEN RefOf(Max(index)) ELSE f.index]
  BY DEF Assembled
<1>. HIDE DEF g, parts
<1>12. RefOf(FooterOn(S, f)) \in Labels(S)
  <2>1. FooterOn(S, f) \in S  BY ReelsAre DEF FooterOn
  <2>. QED  BY <2>1 DEF Labels
<1>13. index # {} => RefOf(Max(index)) \in Labels(S)
  <2>. SUFFICES ASSUME index # {} PROVE RefOf(Max(index)) \in Labels(S)  OBVIOUS
  <2>1. index \in SUBSET S  BY DEF SightedOn
  <2>. HIDE DEF index
  <2>2. index \in SUBSET Nat /\ IsFiniteSet(index)  BY <2>1, ReelsAre, FS_Subset
  <2>3. Max(index) \in S  BY <2>1, <2>2, MaxIn
  <2>. QED  BY <2>3 DEF Labels
<1>14. Labels(S) \subseteq Refer /\ Range(parts) \subseteq R  BY <1>3, <1>10 DEF Range
<1>15. parts \in Seq(Refer)
  <2>. HIDE DEF R
  <2>. QED  BY <1>3, <1>10
<1>16. parts = <<>> => Len(parts) # f.n  BY <1>1
<1>. HIDE DEF index
<1>17. PlacedWell(Assembled(S, f))
  <2>. DEFINE commit == RefOf(FooterOn(S, f))
              last == IF index # {} THEN RefOf(Max(index)) ELSE f.index
  <2>1. commit \in Refer /\ last \in Refer  BY <1>1, <1>12, <1>13, <1>14
  <2>. DEFINE sealed == Len(parts) = f.n
  <2>3. Assembled(S, f) = [arch |-> f.arch, parts |-> parts, sealed |-> sealed,
                           commit |-> commit, index |-> last]
    BY <1>11
  <2>0. sealed <=> Len(parts) = f.n  OBVIOUS
  <2>. HIDE DEF commit, last, sealed
  <2>2. sealed \in BOOLEAN  BY DEF sealed
  <2>4. Assembled(S, f) \in PlacedArchives
    BY <1>1, <1>15, <2>1, <2>2, <2>3 DEF PlacedArchives
  <2>5. Assembled(S, f).sealed => Assembled(S, f).parts # <<>>  BY <1>16, <2>0, <2>3
  <2>. QED  BY <2>4, <2>5 DEF PlacedWell
<1>18. ASSUME NEW ref \in Mentions(Assembled(S, f))
       PROVE  ref \in Labels(S) \cup Range(f.map) \cup {f.index, NoRef}
  <2>. DEFINE last == IF index # {} THEN RefOf(Max(index)) ELSE f.index
  <2>1. ref \in Range(parts) \cup {RefOf(FooterOn(S, f)), last}
    BY <1>11 DEF Mentions
  <2>. QED  BY <1>12, <1>13, <1>14, <2>1
<1>19. Assembled(S, f).arch = f.arch  BY <1>11
<1>. QED  BY <1>17, <1>18, <1>19

-----------------------------------------------------------------------------
\* The four folds of a scan.
FoldsAlone(S, V, base, op, h) ==
    /\ Folds(S, base, op, h)
    /\ \A f : (\A u \in SUBSET S :
                 /\ u = {} => f[u] = base
                 /\ u # {} /\ f[Rest(u)] \in V => f[u] = op[<<u, f[Rest(u)]>>])
                => f[S] = h[S]

LEMMA FoldIs ==
    ASSUME NEW S, IsFiniteSet(S), NEW V, NEW base \in V, NEW op \in [(SUBSET S) \X V -> V]
    PROVE  \E h \in [SUBSET S -> V] : FoldsAlone(S, V, base, op, h)
<1>1. PICK h \in [SUBSET S -> V] : Folds(S, base, op, h)  BY FoldExists
<1>2. ASSUME NEW f, \A u \in SUBSET S :
                      /\ u = {} => f[u] = base
                      /\ u # {} /\ f[Rest(u)] \in V => f[u] = op[<<u, f[Rest(u)]>>]
      PROVE  f[S] = h[S]
  <2>1. ASSUME NEW u \in SUBSET S, u # {} => f[Rest(u)] = h[Rest(u)] PROVE f[u] = h[u]
    <3>1. h[u] = IF u = {} THEN base ELSE op[<<u, h[Rest(u)]>>]  BY <1>1 DEF Folds
    <3>2. u # {} => Rest(u) \in SUBSET S  BY RestIsLess
    <3>3. u # {} => h[Rest(u)] \in V  BY <1>1, <3>2
    <3>. QED  BY <1>2, <2>1, <3>1, <3>3
  <2>. QED  BY <2>1, SameFold
<1>. QED  BY <1>1, <1>2 DEF FoldsAlone

TypedCatalogs == {d \in Catalogs : CatalogTyped(d)}

\* A fold of catalogs, one step for each of a set.
Unfolds(S, c, h) ==
    /\ h[{}] = c
    /\ \A u \in SUBSET S : CatalogTyped(h[u])

LEMMA DropStaleUnfolds ==
    ASSUME CatalogAssumption, NEW S, IsFiniteSet(S), NEW c, CatalogTyped(c)
    PROVE  \E h : /\ Unfolds(S, c, h) /\ DropStale(c, S) = h[S]
                  /\ \A u \in SUBSET S : u # {} =>
                       h[u] = DropStaleOn(h[Rest(u)], reels[One(u)].name, reels[One(u)].epoch)
<1>. DEFINE V == TypedCatalogs
            step(u, d) == DropStaleOn(d, reels[One(u)].name, reels[One(u)].epoch)
            op == [ud \in (SUBSET S) \X V |-> step(ud[1], ud[2])]
            Steps(f) == f = [u \in SUBSET S |-> IF u = {} THEN c ELSE step(u, f[Rest(u)])]
            g == CHOOSE f : Steps(f)
<1>1. c \in V  BY DEF TypedCatalogs, CatalogTyped
<1>2. \A d \in V : CatalogTyped(d)  BY DEF TypedCatalogs
<1>3. \A d : CatalogTyped(d) => d \in V  BY DEF TypedCatalogs, CatalogTyped
<1>4. \A u \in SUBSET S, d \in V : step(u, d) \in V
  <2>. HIDE DEF V
  <2>. QED  BY <1>2, <1>3, DropStaleOnWell DEF Thinner
<1>. HIDE DEF V, step
<1>5. op \in [(SUBSET S) \X V -> V]  BY <1>4
<1>6. PICK h \in [SUBSET S -> V] : FoldsAlone(S, V, c, op, h)
  <2>. HIDE DEF op
  <2>. QED  BY <1>1, <1>5, FoldIs
<1>7. ASSUME NEW u \in SUBSET S PROVE h[u] = IF u = {} THEN c ELSE step(u, h[Rest(u)])
  <2>1. h[u] = IF u = {} THEN c ELSE op[<<u, h[Rest(u)]>>]  BY <1>6 DEF Folds, FoldsAlone
  <2>2. u # {} => h[Rest(u)] \in V  BY <1>6, RestIsLess
  <2>3. u # {} => op[<<u, h[Rest(u)]>>] = step(u, h[Rest(u)])  BY <2>2
  <2>. HIDE DEF op
  <2>. QED  BY <2>1, <2>3
<1>8. Steps(h)  BY <1>6, <1>7
<1>9. Steps(g)
  <2>. HIDE DEF Steps
  <2>. QED  BY <1>8
<1>10. DropStale(c, S) = g[S]
  BY DEF DropStale, FoldSet, MapThenFoldSet, One, Rest, step
<1>. HIDE DEF g
<1>11. ASSUME NEW u \in SUBSET S
       PROVE  /\ u = {} => g[u] = c
              /\ u # {} /\ g[Rest(u)] \in V => g[u] = op[<<u, g[Rest(u)]>>]
  BY <1>9, <1>11
<1>12. g[S] = h[S]
  <2>. HIDE DEF op
  <2>. QED  BY <1>6, <1>11 DEF FoldsAlone
<1>13. Unfolds(S, c, h)  BY <1>2, <1>6, <1>7 DEF Unfolds
<1>. QED  BY <1>7, <1>10, <1>12, <1>13 DEF step


LEMMA OnDiskWell ==
    ASSUME NEW a \in Backups
    PROVE  PlacedWell(OnDisk(a)) /\ Plain(OnDisk(a)) /\ OnDisk(a).arch = a
<1>1. OnDisk(a) = [arch |-> a, parts |-> <<NoRef>>, sealed |-> TRUE, commit |-> NoRef, index |-> NoRef]
  BY DEF OnDisk
<1>2. NoRef \in Refer  BY DEF NoRef, Refer
<1>3. <<NoRef>> \in Seq(Refer) /\ <<NoRef>> # <<>> /\ Range(<<NoRef>>) = {NoRef}
  BY <1>2 DEF Range
<1>4. PlacedWell(OnDisk(a))  BY <1>1, <1>2, <1>3 DEF PlacedWell, PlacedArchives
<1>. QED  BY <1>1, <1>3, <1>4 DEF Plain, Mentions

LEMMA RecordLabelsUnfolds ==
    ASSUME CatalogAssumption, ReelsTyped, NEW S \in SUBSET Labeled, NEW c, CatalogTyped(c)
    PROVE  \E h : /\ Unfolds(S, c, h) /\ RecordLabels(c, S) = h[S]
                  /\ \A u \in SUBSET S : u # {} =>
                       h[u] = RecordVolume(h[Rest(u)], reels[One(u)].name, reels[One(u)].epoch)
<1>. DEFINE V == TypedCatalogs
            step(u, d) == RecordVolume(d, reels[One(u)].name, reels[One(u)].epoch)
            op == [ud \in (SUBSET S) \X V |-> IF ud[1] = {} THEN c ELSE step(ud[1], ud[2])]
            Steps(f) == f = [u \in SUBSET S |-> IF u = {} THEN c ELSE step(u, f[Rest(u)])]
            g == CHOOSE f : Steps(f)
<1>1. c \in V  BY DEF TypedCatalogs, CatalogTyped
<1>2. \A d \in V : CatalogTyped(d)  BY DEF TypedCatalogs
<1>3. \A d : CatalogTyped(d) => d \in V  BY DEF TypedCatalogs, CatalogTyped
<1>4. \A u \in SUBSET S, d \in V : u # {} => step(u, d) \in V
  <2>. SUFFICES ASSUME NEW u \in SUBSET S, u # {}, NEW d \in V PROVE step(u, d) \in V
    OBVIOUS
  <2>1. reels[One(u)].name \in Names /\ reels[One(u)].epoch \in Nat  BY RestIsLess, ReelsAre
  <2>. HIDE DEF V
  <2>. QED  BY <1>2, <1>3, <2>1, RecordWell
<1>. HIDE DEF V, step
<1>5. op \in [(SUBSET S) \X V -> V]  BY <1>1, <1>4
<1>6. PICK h \in [SUBSET S -> V] : FoldsAlone(S, V, c, op, h)
  <2>. HIDE DEF op
  <2>. QED  BY ReelsAre, <1>1, <1>5, FoldIs
<1>7. ASSUME NEW u \in SUBSET S PROVE h[u] = IF u = {} THEN c ELSE step(u, h[Rest(u)])
  <2>1. h[u] = IF u = {} THEN c ELSE op[<<u, h[Rest(u)]>>]  BY <1>6 DEF Folds, FoldsAlone
  <2>2. u # {} => h[Rest(u)] \in V  BY <1>6, RestIsLess
  <2>3. u # {} => op[<<u, h[Rest(u)]>>] = step(u, h[Rest(u)])  BY <2>2
  <2>. HIDE DEF op
  <2>. QED  BY <2>1, <2>3
<1>8. Steps(h)  BY <1>6, <1>7
<1>9. Steps(g)
  <2>. HIDE DEF Steps
  <2>. QED  BY <1>8
<1>10. RecordLabels(c, S) = g[S]
  BY DEF RecordLabels, FoldSet, MapThenFoldSet, One, Rest, step
<1>. HIDE DEF g
<1>11. ASSUME NEW u \in SUBSET S
       PROVE  /\ u = {} => g[u] = c
              /\ u # {} /\ g[Rest(u)] \in V => g[u] = op[<<u, g[Rest(u)]>>]
  BY <1>9, <1>11
<1>12. g[S] = h[S]
  <2>. HIDE DEF op
  <2>. QED  BY <1>6, <1>11 DEF FoldsAlone
<1>13. Unfolds(S, c, h)  BY <1>2, <1>6, <1>7 DEF Unfolds
<1>. QED  BY <1>7, <1>10, <1>12, <1>13 DEF step

LEMMA RecordArchivesUnfolds ==
    ASSUME CatalogAssumption, ReelsTyped, NEW S \in SUBSET Labeled, NEW c, CatalogTyped(c)
    PROVE  \E h : /\ Unfolds(CommitsOn(S), c, h) /\ RecordArchives(c, S) = h[CommitsOn(S)]
                  /\ \A u \in SUBSET CommitsOn(S) : u # {} =>
                       h[u] = AddArchive(h[Rest(u)], Tape, Assembled(S, One(u)))
<1>. DEFINE V == TypedCatalogs
            step(u, d) == AddArchive(d, Tape, Assembled(S, One(u)))
            op == [ud \in (SUBSET CommitsOn(S)) \X V |-> IF ud[1] = {} THEN c ELSE step(ud[1], ud[2])]
            Steps(f) == f = [u \in SUBSET CommitsOn(S) |-> IF u = {} THEN c ELSE step(u, f[Rest(u)])]
            g == CHOOSE f : Steps(f)
<1>1. c \in V  BY DEF TypedCatalogs, CatalogTyped
<1>2. \A d \in V : CatalogTyped(d)  BY DEF TypedCatalogs
<1>3. \A d : CatalogTyped(d) => d \in V  BY DEF TypedCatalogs, CatalogTyped
<1>4. \A u \in SUBSET CommitsOn(S), d \in V : u # {} => step(u, d) \in V
  <2>. SUFFICES ASSUME NEW u \in SUBSET CommitsOn(S), u # {}, NEW d \in V PROVE step(u, d) \in V
    OBVIOUS
  <2>1. PlacedWell(Assembled(S, One(u)))  BY RestIsLess, AssembledWell
  <2>2. Tape \in Media /\ Tape # Disk  BY DEF Media, CatalogAssumption
  <2>. HIDE DEF V
  <2>. QED  BY <1>2, <1>3, <2>1, <2>2, AddWell
<1>. HIDE DEF V, step
<1>5. op \in [(SUBSET CommitsOn(S)) \X V -> V]  BY <1>1, <1>4
<1>6. PICK h \in [SUBSET CommitsOn(S) -> V] : FoldsAlone(CommitsOn(S), V, c, op, h)
  <2>. HIDE DEF op
  <2>. QED  BY ReelsAre, <1>1, <1>5, FoldIs
<1>7. ASSUME NEW u \in SUBSET CommitsOn(S) PROVE h[u] = IF u = {} THEN c ELSE step(u, h[Rest(u)])
  <2>1. h[u] = IF u = {} THEN c ELSE op[<<u, h[Rest(u)]>>]  BY <1>6 DEF Folds, FoldsAlone
  <2>2. u # {} => h[Rest(u)] \in V  BY <1>6, RestIsLess
  <2>3. u # {} => op[<<u, h[Rest(u)]>>] = step(u, h[Rest(u)])  BY <2>2
  <2>. HIDE DEF op
  <2>. QED  BY <2>1, <2>3
<1>8. Steps(h)  BY <1>6, <1>7
<1>9. Steps(g)
  <2>. HIDE DEF Steps
  <2>. QED  BY <1>8
<1>10. RecordArchives(c, S) = g[CommitsOn(S)]
  BY DEF RecordArchives, FoldSet, MapThenFoldSet, One, Rest, step
<1>. HIDE DEF g
<1>11. ASSUME NEW u \in SUBSET CommitsOn(S)
       PROVE  /\ u = {} => g[u] = c
              /\ u # {} /\ g[Rest(u)] \in V => g[u] = op[<<u, g[Rest(u)]>>]
  BY <1>9, <1>11
<1>12. g[CommitsOn(S)] = h[CommitsOn(S)]
  <2>. HIDE DEF op
  <2>. QED  BY <1>6, <1>11 DEF FoldsAlone
<1>13. Unfolds(CommitsOn(S), c, h)  BY <1>2, <1>6, <1>7 DEF Unfolds
<1>. QED  BY <1>7, <1>10, <1>12, <1>13 DEF step

LEMMA ScanDiskUnfolds ==
    ASSUME CatalogAssumption, IsFiniteSet(disk), disk \subseteq Backups, NEW c, CatalogTyped(c)
    PROVE  \E h : /\ Unfolds(disk, c, h) /\ ScanDisk(c) = h[disk]
                  /\ \A u \in SUBSET disk : u # {} =>
                       h[u] = AddArchive(h[Rest(u)], Disk, OnDisk(One(u)))
<1>. DEFINE V == TypedCatalogs
            step(u, d) == AddArchive(d, Disk, OnDisk(One(u)))
            op == [ud \in (SUBSET disk) \X V |-> IF ud[1] = {} THEN c ELSE step(ud[1], ud[2])]
            Steps(f) == f = [u \in SUBSET disk |-> IF u = {} THEN c ELSE step(u, f[Rest(u)])]
            g == CHOOSE f : Steps(f)
<1>1. c \in V  BY DEF TypedCatalogs, CatalogTyped
<1>2. \A d \in V : CatalogTyped(d)  BY DEF TypedCatalogs
<1>3. \A d : CatalogTyped(d) => d \in V  BY DEF TypedCatalogs, CatalogTyped
<1>4. \A u \in SUBSET disk, d \in V : u # {} => step(u, d) \in V
  <2>. SUFFICES ASSUME NEW u \in SUBSET disk, u # {}, NEW d \in V PROVE step(u, d) \in V
    OBVIOUS
  <2>1. PlacedWell(OnDisk(One(u))) /\ Plain(OnDisk(One(u)))  BY RestIsLess, OnDiskWell
  <2>2. Disk \in Media  BY DEF Media
  <2>. HIDE DEF V
  <2>. QED  BY <1>2, <1>3, <2>1, <2>2, AddWell
<1>. HIDE DEF V, step
<1>5. op \in [(SUBSET disk) \X V -> V]  BY <1>1, <1>4
<1>6. PICK h \in [SUBSET disk -> V] : FoldsAlone(disk, V, c, op, h)
  <2>. HIDE DEF op
  <2>. QED  BY <1>1, <1>5, FoldIs
<1>7. ASSUME NEW u \in SUBSET disk PROVE h[u] = IF u = {} THEN c ELSE step(u, h[Rest(u)])
  <2>1. h[u] = IF u = {} THEN c ELSE op[<<u, h[Rest(u)]>>]  BY <1>6 DEF Folds, FoldsAlone
  <2>2. u # {} => h[Rest(u)] \in V  BY <1>6, RestIsLess
  <2>3. u # {} => op[<<u, h[Rest(u)]>>] = step(u, h[Rest(u)])  BY <2>2
  <2>. HIDE DEF op
  <2>. QED  BY <2>1, <2>3
<1>8. Steps(h)  BY <1>6, <1>7
<1>9. Steps(g)
  <2>. HIDE DEF Steps
  <2>. QED  BY <1>8
<1>10. ScanDisk(c) = g[disk]
  BY DEF ScanDisk, FoldSet, MapThenFoldSet, One, Rest, step
<1>. HIDE DEF g
<1>11. ASSUME NEW u \in SUBSET disk
       PROVE  /\ u = {} => g[u] = c
              /\ u # {} /\ g[Rest(u)] \in V => g[u] = op[<<u, g[Rest(u)]>>]
  BY <1>9, <1>11
<1>12. g[disk] = h[disk]
  <2>. HIDE DEF op
  <2>. QED  BY <1>6, <1>11 DEF FoldsAlone
<1>13. Unfolds(disk, c, h)  BY <1>2, <1>6, <1>7 DEF Unfolds
<1>. QED  BY <1>7, <1>10, <1>12, <1>13 DEF step

-----------------------------------------------------------------------------
\* What a scan leaves.  From a step of a fold to the fold.
Sound(c) == Filled(c) /\ Known(c)
Carries(c, d) ==
    /\ CatalogTyped(d)
    /\ Advertised(c) => Advertised(d)
    /\ Sound(c) => Sound(d)

LEMMA ThinnerCarries ==
    ASSUME CatalogAssumption, NEW c, CatalogTyped(c), NEW m \in Media, NEW S, NEW d, Thinner(c, d, m, S)
    PROVE  Carries(c, d) /\ \A x \in Media : d.placed[x] \subseteq c.placed[x]
BY ThinnerKnown DEF Thinner, Carries, Sound, Advertised

\* No copy is of the wiped contents of a reel that was scanned.
Current(c, u) ==
    \A pa \in c.placed[Tape] : \A ref \in Mentions(pa) : \A r \in u :
        ref[1] = reels[r].name => ref[2] = reels[r].epoch
\* The registry follows the reels that were scanned.
Registered(c, u) ==
    \A r \in u : reels[r].name \in DOMAIN c.vols /\ c.vols[reels[r].name].epoch = reels[r].epoch

LEMMA DropStaleOnCurrent ==
    ASSUME CatalogAssumption, NEW c, CatalogTyped(c), NEW name \in Names, NEW epoch,
           NEW pa \in DropStaleOn(c, name, epoch).placed[Tape], NEW ref \in Mentions(pa), ref[1] = name
    PROVE  ref[2] = epoch
<1>. DEFINE S == {q \in c.placed[Tape] : \E x \in Refs(q) : x[1] = name /\ x[2] # epoch}
            d == DropStaleOn(c, name, epoch)
<1>1. Thinner(c, d, Tape, S)  BY DropStaleOnWell
<1>2. Tape \in Media /\ c.placed \in [Media -> SUBSET PlacedArchives]  BY PlacedCharges
<1>3. d.placed[Tape] = c.placed[Tape] \ S
  <2>. HIDE DEF S, d
  <2>. QED  BY <1>1, <1>2 DEF Thinner
<1>4. pa \in c.placed[Tape] /\ pa \notin S
  <2>. HIDE DEF S
  <2>. QED  BY <1>3
<1>5. ref # NoRef
  <2>1. NoRef[1] = "" /\ name # ""  BY DEF NoRef, CatalogAssumption
  <2>. QED  BY <2>1
<1>6. ref \in Refs(pa)  BY <1>5 DEF Refs, Mentions
<1>. QED  BY <1>4, <1>6

LEMMA DropStaleWell ==
    ASSUME CatalogAssumption, ReelsTyped, NEW S \in SUBSET Labeled, NEW c, CatalogTyped(c)
    PROVE  Carries(c, DropStale(c, S)) /\ Current(DropStale(c, S), S)
<1>1. IsFiniteSet(S) /\ \A r \in S : reels[r].name \in Names  BY ReelsAre
<1>2. PICK h : /\ Unfolds(S, c, h) /\ DropStale(c, S) = h[S]
               /\ \A u \in SUBSET S : u # {} =>
                    h[u] = DropStaleOn(h[Rest(u)], reels[One(u)].name, reels[One(u)].epoch)
  BY <1>1, DropStaleUnfolds
<1>3. h[{}] = c /\ \A u \in SUBSET S : CatalogTyped(h[u])  BY <1>2 DEF Unfolds
<1>. DEFINE G == {u \in SUBSET S : Carries(c, h[u]) /\ Current(h[u], u)}
<1>4. ASSUME NEW u \in SUBSET S, \A v \in SUBSET u : v # u => v \in G PROVE u \in G
  <2>1. CASE u = {}  BY <1>3, <2>1 DEF Carries, Current
  <2>2. CASE u # {}
    <3>. DEFINE v == Rest(u)  r == One(u)  d == h[v]
    <3>1. v \in G /\ r \in S /\ v \in SUBSET S /\ u = v \cup {r}  BY <1>4, <2>2, RestIsLess DEF Rest
    <3>. HIDE DEF v, r
    <3>2. Carries(c, d) /\ Current(d, v) /\ CatalogTyped(d)  BY <1>3, <3>1
    <3>3. h[u] = DropStaleOn(d, reels[r].name, reels[r].epoch)  BY <1>2, <2>2 DEF v, r
    <3>. HIDE DEF d
    <3>4. Tape \in Media  BY DEF Media
    <3>5. Carries(d, h[u]) /\ h[u].placed[Tape] \subseteq d.placed[Tape]
      <4>. DEFINE gone == {pa \in d.placed[Tape] :
                             \E ref \in Refs(pa) : ref[1] = reels[r].name /\ ref[2] # reels[r].epoch}
      <4>1. Thinner(d, h[u], Tape, gone)  BY <3>2, <3>3, DropStaleOnWell
      <4>. HIDE DEF gone
      <4>. QED  BY <3>2, <3>4, <4>1, ThinnerCarries
    <3>6. Carries(c, h[u])  BY <3>2, <3>5 DEF Carries
    <3>7. Current(h[u], {r})
      BY <1>1, <3>1, <3>2, <3>3, DropStaleOnCurrent DEF Current
    <3>8. Current(h[u], u)  BY <3>1, <3>2, <3>5, <3>7 DEF Current
    <3>. QED  BY <3>6, <3>8
  <2>. QED  BY <2>1, <2>2
<1>5. S \in G
  <2>. HIDE DEF G
  <2>. QED  BY <1>1, <1>4, BySubsets
<1>. QED  BY <1>2, <1>5

\* Recording the label of a reel that was scanned.
LEMMA RecordSound ==
    ASSUME CatalogAssumption, ReelsTyped, NEW c, CatalogTyped(c), NEW r \in Labeled, Sound(c),
           reels[r].name \in DOMAIN c.vols => Current(c, {r})
    PROVE  Sound(RecordVolume(c, reels[r].name, reels[r].epoch))
<1>. DEFINE name == reels[r].name
            epoch == reels[r].epoch
            d == RecordVolume(c, name, epoch)
<1>1. name \in Names /\ epoch \in Nat /\ r \in Reels
      /\ \A q \in Reels : reels[q].name = name => q = r
  BY ReelsAre, {r} \in SUBSET Labeled
<1>2. /\ CatalogTyped(d) /\ d.placed = c.placed
      /\ DOMAIN d.vols = DOMAIN c.vols \cup {name} /\ d.vols[name].epoch = epoch
      /\ \A n \in DOMAIN c.vols \ {name} : d.vols[n] = c.vols[n]
      /\ /\ Filled(c)
         /\ name \in DOMAIN c.vols /\ c.vols[name].epoch # epoch =>
              \A pa \in c.placed[Tape] : \A ref \in Mentions(pa) : ref[1] # name
         => Filled(d)
  <2>. HIDE DEF name, epoch
  <2>. QED  BY <1>1, RecordWell
<1>3. ASSUME NEW k, Past(<<name, k>>) PROVE k <= epoch
  BY <1>1, <1>3 DEF Past
<1>4. \A n \in DOMAIN c.vols : n \in Names /\ c.vols[n].epoch \in Nat
  BY PlacedCharges, VolumesTyped
<1>5. ASSUME name \in DOMAIN c.vols, c.vols[name].epoch # epoch, NEW pa \in c.placed[Tape],
             NEW ref \in Mentions(pa), ref[1] = name
      PROVE  FALSE
  <2>1. Dated(ref, c.vols) /\ Past(<<name, c.vols[name].epoch>>)  BY <1>5 DEF Sound, Known
  <2>2. ref[2] <= c.vols[name].epoch /\ c.vols[name].epoch <= epoch
    BY <1>3, <1>5, <2>1 DEF Dated
  <2>3. ref[2] = epoch  BY <1>5 DEF Current
  <2>4. epoch \in Nat /\ c.vols[name].epoch \in Nat  BY <1>1, <1>4, <1>5
  <2>. QED  BY <1>5, <2>2, <2>3, <2>4
<1>6. Filled(d)  BY <1>2, <1>5 DEF Sound
<1>7. ASSUME NEW ref, Dated(ref, c.vols) PROVE Dated(ref, d.vols)
  <2>. HIDE DEF d
  <2>1. Past(ref)  BY <1>7 DEF Dated
  <2>2. ref[1] = name => ref[2] <= epoch  BY <1>1, <2>1 DEF Past
  <2>3. ref[1] \in DOMAIN d.vols => ref[2] <= d.vols[ref[1]].epoch
    <3>1. CASE ref[1] = name  BY <1>2, <2>2, <3>1
    <3>2. CASE ref[1] # name  BY <1>2, <1>7, <3>2 DEF Dated
    <3>. QED  BY <3>1, <3>2
  <2>. QED  BY <2>1, <2>3 DEF Dated
<1>8. ASSUME NEW n \in DOMAIN d.vols PROVE Past(<<n, d.vols[n].epoch>>)
  <2>. HIDE DEF d
  <2>1. CASE n = name
    <3>1. d.vols[n].epoch = epoch /\ epoch <= epoch  BY <1>1, <1>2, <2>1
    <3>. QED  BY <1>1, <2>1, <3>1 DEF Past
  <2>2. CASE n # name
    <3>1. n \in DOMAIN c.vols /\ d.vols[n] = c.vols[n]  BY <1>2, <1>8, <2>2
    <3>. QED  BY <3>1 DEF Sound, Known
  <2>. QED  BY <2>1, <2>2
<1>9. Known(d)
  <2>. HIDE DEF d
  <2>. QED  BY <1>2, <1>7, <1>8 DEF Sound, Known
<1>. QED  BY <1>6, <1>9 DEF Sound


LEMMA AddCarries ==
    ASSUME CatalogAssumption, NEW c, CatalogTyped(c), NEW m \in Media,
           NEW pa, PlacedWell(pa), m = Disk => Plain(pa)
    PROVE  /\ CatalogTyped(AddArchive(c, m, pa))
           /\ Advertised(c) => Advertised(AddArchive(c, m, pa))
           /\ Sound(c) /\ (m = Tape => \A ref \in Mentions(pa) : Dated(ref, c.vols))
                => Sound(AddArchive(c, m, pa))
           /\ DOMAIN AddArchive(c, m, pa).vols = DOMAIN c.vols
           /\ \A n \in DOMAIN c.vols : AddArchive(c, m, pa).vols[n].epoch = c.vols[n].epoch
<1>. DEFINE d == AddArchive(c, m, pa)
            old == Of(c.placed[m], pa.arch)
<1>1. /\ CatalogTyped(d)
      /\ d.placed = [c.placed EXCEPT ![m] = (c.placed[m] \ old) \cup {pa}]
      /\ DOMAIN d.vols = DOMAIN c.vols /\ \A n \in DOMAIN c.vols : d.vols[n].epoch = c.vols[n].epoch
      /\ Filled(c) => Filled(d)
  BY AddWell
<1>2. c.placed \in [Media -> SUBSET PlacedArchives] /\ Tape \in Media  BY PlacedCharges
<1>3. \A q \in d.placed[Tape] : q \in c.placed[Tape] \/ (m = Tape /\ q = pa)
  <2>. HIDE DEF old, d
  <2>. QED  BY <1>1, <1>2
<1>4. ASSUME Known(c), m = Tape => \A ref \in Mentions(pa) : Dated(ref, c.vols) PROVE Known(d)
  <2>. HIDE DEF d
  <2>1. \A ref : Dated(ref, c.vols) => Dated(ref, d.vols)  BY <1>1 DEF Dated
  <2>. QED  BY <1>1, <1>3, <1>4, <2>1 DEF Known
<1>. QED  BY <1>1, <1>4, AddAdvertised DEF Sound

LEMMA NoRefDated == ASSUME CatalogAssumption, NEW v \in VolumeRecords PROVE Dated(NoRef, v)
<1>1. NoRef[1] = ""  BY DEF NoRef
<1>. QED  BY <1>1, VolumesTyped DEF Dated, Past, CatalogAssumption

LEMMA RecordLabelsWell ==
    ASSUME CatalogAssumption, ReelsTyped, NEW S \in SUBSET Labeled, NEW c, CatalogTyped(c)
    PROVE  /\ CatalogTyped(RecordLabels(c, S))
           /\ Advertised(c) => Advertised(RecordLabels(c, S))
           /\ Current(c, S) /\ Sound(c) => Sound(RecordLabels(c, S))
           /\ Registered(RecordLabels(c, S), S)
<1>1. /\ IsFiniteSet(S) /\ S \subseteq Reels
      /\ \A r \in S : /\ reels[r].name \in Names /\ reels[r].epoch \in Nat
                      /\ \A q \in Reels : reels[q].name = reels[r].name => q = r
  BY ReelsAre
<1>2. PICK h : /\ Unfolds(S, c, h) /\ RecordLabels(c, S) = h[S]
               /\ \A u \in SUBSET S : u # {} =>
                    h[u] = RecordVolume(h[Rest(u)], reels[One(u)].name, reels[One(u)].epoch)
  BY RecordLabelsUnfolds
<1>3. h[{}] = c /\ \A u \in SUBSET S : CatalogTyped(h[u])  BY <1>2 DEF Unfolds
<1>. DEFINE G == {u \in SUBSET S : /\ h[u].adv = c.adv /\ h[u].placed = c.placed /\ Registered(h[u], u)
                                   /\ Current(c, S) /\ Sound(c) => Sound(h[u])}
<1>4. ASSUME NEW u \in SUBSET S, \A v \in SUBSET u : v # u => v \in G PROVE u \in G
  <2>1. CASE u = {}  BY <1>3, <2>1 DEF Registered
  <2>2. CASE u # {}
    <3>. DEFINE v == Rest(u)  r == One(u)  d == h[v]  name == reels[r].name  epoch == reels[r].epoch
    <3>1. v \in G /\ r \in S /\ v \in SUBSET S /\ u = v \cup {r} /\ r \notin v
      BY <1>4, <2>2, RestIsLess DEF Rest
    <3>. HIDE DEF v, r
    <3>2. /\ d.adv = c.adv /\ d.placed = c.placed /\ Registered(d, v) /\ CatalogTyped(d)
          /\ Current(c, S) /\ Sound(c) => Sound(d)
      BY <1>3, <3>1
    <3>3. h[u] = RecordVolume(d, name, epoch)  BY <1>2, <2>2 DEF v, r
    <3>. HIDE DEF d
    <3>4. name \in Names /\ epoch \in Nat  BY <1>1, <3>1
    <3>5. /\ h[u].adv = d.adv /\ h[u].placed = d.placed
          /\ DOMAIN h[u].vols = DOMAIN d.vols \cup {name} /\ h[u].vols[name].epoch = epoch
          /\ \A n \in DOMAIN d.vols \ {name} : h[u].vols[n] = d.vols[n]
      <4>. HIDE DEF name, epoch
      <4>. QED  BY <3>2, <3>3, <3>4, RecordWell
    <3>6. Registered(h[u], u)
      <4>1. \A q \in v : reels[q].name # name  BY <1>1, <3>1
      <4>. QED  BY <3>1, <3>2, <3>5, <4>1 DEF Registered
    <3>7. ASSUME Current(c, S), Sound(c) PROVE Sound(h[u])
      <4>1. Current(d, {r})  BY <3>1, <3>2, <3>7 DEF Current
      <4>2. r \in Labeled  BY <3>1
      <4>. QED  BY <3>2, <3>3, <3>7, <4>1, <4>2, RecordSound
    <3>. QED  BY <3>2, <3>5, <3>6, <3>7
  <2>. QED  BY <2>1, <2>2
<1>5. S \in G
  <2>. HIDE DEF G
  <2>. QED  BY <1>1, <1>4, BySubsets
<1>6. Advertised(c) => Advertised(h[S])
  BY <1>5 DEF Advertised, Listed, Held, HeldRuns
<1>. QED  BY <1>2, <1>3, <1>5, <1>6

LEMMA AssembledDated ==
    ASSUME CatalogAssumption, ReelsTyped, NEW S \in SUBSET Labeled, NEW f \in CommitsOn(S),
           NEW c, CatalogTyped(c), Registered(c, S), Known(c), NEW ref \in Mentions(Assembled(S, f))
    PROVE  Dated(ref, c.vols)
<1>1. ref \in Labels(S) \cup Range(f.map) \cup {f.index, NoRef}  BY AssembledWell
<1>2. c.vols \in VolumeRecords  BY PlacedCharges
<1>3. CASE ref \in Labels(S)
  <2>1. PICK r \in S : ref = RefOf(r)  BY <1>3 DEF Labels
  <2>2. ref = <<reels[r].name, reels[r].epoch>> /\ r \in Reels /\ reels[r].epoch \in Nat
    BY <2>1, ReelsAre
  <2>. QED  BY <2>1, <2>2 DEF Dated, Past, Registered
<1>4. CASE ref \in Range(f.map) \cup {f.index}
  <2>1. f \in CommitsOn(Reels)  BY ReelsAre
  <2>. QED  BY <1>4, <2>1 DEF Known
<1>. QED  BY <1>1, <1>2, <1>3, <1>4, NoRefDated

LEMMA RecordArchivesWell ==
    ASSUME CatalogAssumption, ReelsTyped, NEW S \in SUBSET Labeled, NEW c, CatalogTyped(c),
           Registered(c, S)
    PROVE  Carries(c, RecordArchives(c, S))
<1>1. IsFiniteSet(CommitsOn(S)) /\ Tape \in Media /\ Tape # Disk
  BY ReelsAre DEF Media, CatalogAssumption
<1>2. PICK h : /\ Unfolds(CommitsOn(S), c, h) /\ RecordArchives(c, S) = h[CommitsOn(S)]
               /\ \A u \in SUBSET CommitsOn(S) : u # {} =>
                    h[u] = AddArchive(h[Rest(u)], Tape, Assembled(S, One(u)))
  BY RecordArchivesUnfolds
<1>3. h[{}] = c /\ \A u \in SUBSET CommitsOn(S) : CatalogTyped(h[u])  BY <1>2 DEF Unfolds
<1>. DEFINE G == {u \in SUBSET CommitsOn(S) : Carries(c, h[u]) /\ Registered(h[u], S)}
<1>4. ASSUME NEW u \in SUBSET CommitsOn(S), \A v \in SUBSET u : v # u => v \in G PROVE u \in G
  <2>1. CASE u = {}  BY <1>3, <2>1 DEF Carries
  <2>2. CASE u # {}
    <3>. DEFINE v == Rest(u)  f == One(u)  d == h[v]  pa == Assembled(S, f)
    <3>1. v \in G /\ f \in CommitsOn(S) /\ v \in SUBSET CommitsOn(S)
      BY <1>4, <2>2, RestIsLess DEF Rest
    <3>. HIDE DEF v, f
    <3>2. Carries(c, d) /\ Registered(d, S) /\ CatalogTyped(d)  BY <1>3, <3>1
    <3>3. h[u] = AddArchive(d, Tape, pa)  BY <1>2, <2>2 DEF v, f
    <3>. HIDE DEF d
    <3>4. PlacedWell(pa)  BY <3>1, AssembledWell
    <3>5. Sound(d) => \A ref \in Mentions(pa) : Dated(ref, d.vols)
      BY <3>1, <3>2, AssembledDated DEF Sound
    <3>. HIDE DEF pa
    <3>6. /\ Carries(d, h[u]) /\ DOMAIN h[u].vols = DOMAIN d.vols
          /\ \A n \in DOMAIN d.vols : h[u].vols[n].epoch = d.vols[n].epoch
      BY <1>1, <3>2, <3>3, <3>4, <3>5, AddCarries DEF Carries
    <3>. QED  BY <3>2, <3>6 DEF Carries, Registered
  <2>. QED  BY <2>1, <2>2
<1>5. CommitsOn(S) \in G
  <2>. HIDE DEF G
  <2>. QED  BY <1>1, <1>4, BySubsets
<1>. QED  BY <1>2, <1>5

LEMMA ScanDiskWell ==
    ASSUME CatalogAssumption, IsFiniteSet(disk), disk \subseteq Backups, NEW c, CatalogTyped(c)
    PROVE  Carries(c, ScanDisk(c))
<1>1. Disk \in Media /\ Tape # Disk  BY DEF Media, CatalogAssumption
<1>2. PICK h : /\ Unfolds(disk, c, h) /\ ScanDisk(c) = h[disk]
               /\ \A u \in SUBSET disk : u # {} =>
                    h[u] = AddArchive(h[Rest(u)], Disk, OnDisk(One(u)))
  BY ScanDiskUnfolds
<1>3. h[{}] = c /\ \A u \in SUBSET disk : CatalogTyped(h[u])  BY <1>2 DEF Unfolds
<1>. DEFINE G == {u \in SUBSET disk : Carries(c, h[u])}
<1>4. ASSUME NEW u \in SUBSET disk, \A v \in SUBSET u : v # u => v \in G PROVE u \in G
  <2>1. CASE u = {}  BY <1>3, <2>1 DEF Carries
  <2>2. CASE u # {}
    <3>. DEFINE v == Rest(u)  a == One(u)  d == h[v]  pa == OnDisk(a)
    <3>1. v \in G /\ a \in disk /\ v \in SUBSET disk  BY <1>4, <2>2, RestIsLess DEF Rest
    <3>. HIDE DEF v, a
    <3>2. Carries(c, d) /\ CatalogTyped(d)  BY <1>3, <3>1
    <3>3. h[u] = AddArchive(d, Disk, pa)  BY <1>2, <2>2 DEF v, a
    <3>4. PlacedWell(pa) /\ Plain(pa)  BY <3>1, OnDiskWell
    <3>. HIDE DEF d, pa
    <3>5. Carries(d, h[u])  BY <1>1, <3>2, <3>3, <3>4, AddCarries DEF Carries
    <3>. QED  BY <3>2, <3>5 DEF Carries
  <2>. QED  BY <2>1, <2>2
<1>5. disk \in G
  <2>. HIDE DEF G
  <2>. QED  BY <1>4, BySubsets
<1>. QED  BY <1>2, <1>5

\* A scan of the reels: of those within reach when the cache was lost, or of a rebuild.
LEMMA AbsorbWell ==
    ASSUME CatalogAssumption, ReelsTyped, NEW S \in SUBSET Labeled, NEW c, CatalogTyped(c), Current(c, S)
    PROVE  Carries(c, Absorb(c, S))
<1>. DEFINE d == RecordLabels(c, S)
<1>1. /\ CatalogTyped(d) /\ Registered(d, S) /\ (Advertised(c) => Advertised(d))
      /\ Sound(c) => Sound(d)
  BY RecordLabelsWell
<1>. HIDE DEF d
<1>2. Carries(d, RecordArchives(d, S))  BY <1>1, RecordArchivesWell
<1>. QED  BY <1>1, <1>2 DEF Absorb, Carries, d

LEMMA RebuiltWell ==
    ASSUME CatalogAssumption, ReelsTyped, IsFiniteSet(disk), disk \subseteq Backups,
           NEW S \in SUBSET Labeled, NEW c, CatalogTyped(c)
    PROVE  Carries(c, Rebuilt(c, S))
<1>. DEFINE d == DropStale(c, S)  e == Absorb(d, S)
<1>1. Carries(c, d) /\ Current(d, S) /\ CatalogTyped(d)  BY DropStaleWell DEF Carries
<1>. HIDE DEF d
<1>2. Carries(d, e) /\ CatalogTyped(e)  BY <1>1, AbsorbWell DEF Carries
<1>. HIDE DEF e
<1>3. Carries(e, ScanDisk(e))  BY <1>2, ScanDiskWell
<1>. QED  BY <1>1, <1>2, <1>3 DEF Rebuilt, ScanTape, Carries, d, e

-----------------------------------------------------------------------------
\* The actions.
Kept ==
    /\ CatalogTyped(cat) /\ Advertised(cat)
    /\ ~loaded => cat = Empty

LEMMA EmptyWell ==
    ASSUME CatalogAssumption, ReelsTyped
    PROVE  /\ CatalogTyped(Empty) /\ Advertised(Empty) /\ \A S : Current(Empty, S)
           /\ Filled(Empty)
           /\ (\A f \in CommitsOn(Reels) : \A ref \in Range(f.map) \cup {f.index} : Past(ref)) => Known(Empty)
<1>1. Empty = [adv |-> {}, placed |-> [m \in Media |-> {}], vols |-> <<>>]  BY DEF Empty
<1>2. <<>> \in VolumeRecords /\ DOMAIN (<<>>) = {}
  <2>1. {} \in SUBSET Names /\ <<>> \in [{} -> [epoch : Nat, used : Nat]]  OBVIOUS
  <2>2. DOMAIN (<<>>) = {}  OBVIOUS
  <2>. QED  BY <2>1, <2>2, VolumesAre
<1>3. \A m \in Media : Empty.placed[m] = {}  BY <1>1
<1>4. Tape \in Media /\ Disk \in Media  BY DEF Media
<1>5. Empty \in Catalogs  BY <1>1, <1>2 DEF Catalogs
<1>6. CatalogTyped(Empty)  BY <1>3, <1>4, <1>5, FS_EmptySet DEF CatalogTyped
<1>7. Advertised(Empty)  BY <1>1, <1>3, <1>4 DEF Advertised, Listed, Held
<1>8. Empty.vols = <<>>  BY <1>1
<1>. QED  BY <1>2, <1>3, <1>4, <1>6, <1>7, <1>8 DEF Current, Filled, Known, Dated

LEMMA PersistKeeps ==
    ASSUME NEW c, CatalogTyped(c), Advertised(c), Persist(c)
    PROVE  Kept' /\ LedgerCatchesUp'
<1>1. cat' = c /\ loaded' = TRUE  BY DEF Persist
<1>2. Kept'  BY <1>1 DEF Kept
<1>3. LedgerCatchesUp'
  <2>1. CASE lag' = TRUE  BY <2>1 DEF LedgerCatchesUp
  <2>2. CASE ledger' = [m \in Sampled(c) \cup DOMAIN ledger |->
                           IF m \in Sampled(c) THEN Totals(c)[m] ELSE ledger[m]]
    <3>1. ASSUME NEW m \in Media
          PROVE  IF m \in DOMAIN ledger' THEN ledger'[m] = Totals(c)[m] ELSE c.placed[m] = {}
      BY <2>2, <3>1 DEF Sampled
    <3>2. Totals(cat)' = Totals(c)  BY <1>1 DEF Totals
    <3>. QED  BY <1>1, <3>1, <3>2 DEF LedgerCatchesUp
  <2>. QED  BY <2>1, <2>2 DEF Persist
<1>. QED  BY <1>2, <1>3


LEMMA ImageFinite ==
    ASSUME NEW S, IsFiniteSet(S), NEW f
    PROVE  IsFiniteSet({f[x] : x \in S})
<1>. DEFINE T == {f[x] : x \in S}
            g == [x \in S |-> f[x]]
<1>1. g \in Surjection(S, T)  BY DEF Surjection
<1>. HIDE DEF g, T
<1>2. IsFiniteSet(T)  BY <1>1, FS_Surjection
<1>. QED  BY <1>2 DEF T

\* What writing an archive's files adds to the reels.
Toc(l) == IF l.toc THEN [i \in DOMAIN l.parts |-> RefOf(l.parts[i])] ELSE <<>>
NewFooter(a, l) ==
    [kind |-> "commit", arch |-> a, n |-> Len(l.parts), map |-> Toc(l),
     index |-> IF Toc(l) = <<>> THEN NoRef ELSE RefOf(l.tail)]

LEMMA LayoutTyped ==
    ASSUME CatalogAssumption, ReelsTyped, NEW l \in Layouts
    PROVE  /\ l.parts \in Seq(Reels) /\ l.parts # <<>> /\ l.tail \in Reels /\ l.toc \in BOOLEAN
           /\ Len(l.parts) \in Nat \ {0}
           /\ [i \in DOMAIN l.parts |-> RefOf(l.parts[i])] \in Seq(Refer) /\ RefOf(l.tail) \in Refer
           /\ Toc(l) \in Seq(Refer) /\ (Toc(l) = <<>> \/ Len(Toc(l)) = Len(l.parts))
<1>1. l.parts \in Seq(Reels) /\ l.parts # <<>> /\ l.tail \in Reels /\ l.toc \in BOOLEAN
  BY DEF CatalogAssumption
<1>2. Len(l.parts) \in Nat \ {0}  BY <1>1
<1>3. \A r \in Reels : RefOf(r) \in Refer  BY DEF ReelsTyped, RefOf, Refer
<1>. DEFINE refs == [i \in DOMAIN l.parts |-> RefOf(l.parts[i])]
<1>4. refs \in Seq(Refer) /\ Len(refs) = Len(l.parts)
  <2>1. DOMAIN l.parts = 1 .. Len(l.parts) /\ \A i \in 1 .. Len(l.parts) : l.parts[i] \in Reels
    BY <1>1
  <2>2. refs \in [1 .. Len(l.parts) -> Refer]  BY <1>3, <2>1
  <2>. HIDE DEF refs
  <2>. QED  BY <1>2, <2>2
<1>5. Toc(l) = IF l.toc THEN refs ELSE <<>>  BY DEF Toc
<1>. HIDE DEF refs
<1>6. Toc(l) \in Seq(Refer) /\ (Toc(l) = <<>> \/ Len(Toc(l)) = Len(l.parts))  BY <1>4, <1>5
<1>. QED  BY <1>1, <1>2, <1>3, <1>4, <1>6 DEF refs

LEMMA FilesAre ==
    ASSUME CatalogAssumption, ReelsTyped, NEW a \in Backups, NEW l \in Layouts
    PROVE  /\ Len(Files(a, l, Toc(l))) \in Nat \ {0}
           /\ \A j \in 1 .. Len(Files(a, l, Toc(l))) :
                \/ Files(a, l, Toc(l))[j][2] = NewFooter(a, l)
                \/ Files(a, l, Toc(l))[j][2].kind # "commit"
<1>. DEFINE files == Files(a, l, Toc(l))
            footer == NewFooter(a, l)
            n == Len(l.parts)
            body == [i \in 1 .. n |-> <<l.parts[i], [kind |-> "part", arch |-> a, i |-> i]>>]
            ends == << <<l.tail, [kind |-> "index", arch |-> a]>>, <<l.tail, footer>> >>
            T == {body[i] : i \in 1 .. n} \cup {ends[1], ends[2]}
<1>0. n \in Nat  BY LayoutTyped
<1>1. files = body \o ends  BY DEF Files, NewFooter
<1>2. Len(ends) = 2 /\ ends[1][2].kind = "index" /\ ends[2][2] = footer  OBVIOUS
<1>3. Len(body) = n /\ \A i \in 1 .. n : body[i][2].kind = "part"  BY <1>0
<1>4. body \in Seq(T) /\ ends \in Seq(T)
  <2>1. body \in [1 .. n -> T]  OBVIOUS
  <2>2. ends = <<ends[1], ends[2]>> /\ ends[1] \in T /\ ends[2] \in T  OBVIOUS
  <2>3. ends \in [1 .. 2 -> T]  BY <2>2
  <2>. HIDE DEF body, ends, T, n
  <2>4. \A m \in Nat : \A s \in [1 .. m -> T] : s \in Seq(T)  OBVIOUS
  <2>. QED  BY <1>0, <2>1, <2>3, <2>4
<1>. HIDE DEF files, body, ends, footer, T, n
<1>5. Len(files) = Len(body) + Len(ends)
      /\ \A j \in 1 .. Len(body) + Len(ends) :
           files[j] = IF j <= Len(body) THEN body[j] ELSE ends[j - Len(body)]
  BY <1>1, <1>4, ConcatProperties
<1>6. Len(files) = n + 2 /\ \A j \in 1 .. n + 2 : files[j] = IF j <= n THEN body[j] ELSE ends[j - n]
  BY <1>2, <1>3, <1>5
<1>7. ASSUME NEW j \in 1 .. n + 2 PROVE files[j][2] = footer \/ files[j][2].kind # "commit"
  <2>1. CASE j \in 1 .. n  BY <1>0, <1>3, <1>6, <2>1
  <2>2. CASE j = n + 1  BY <1>0, <1>2, <1>6, <2>2
  <2>3. CASE j = n + 2  BY <1>0, <1>2, <1>6, <2>3
  <2>. QED  BY <1>0, <1>7, <2>1, <2>2, <2>3
<1>8. Len(files) \in Nat \ {0}  BY <1>0, <1>6
<1>. QED  BY <1>6, <1>7, <1>8 DEF files, footer

LEMMA WrittenWell ==
    ASSUME CatalogAssumption, ReelsTyped, NEW a \in Backups, NEW l \in Layouts,
           NEW k \in 1 .. Len(Files(a, l, Toc(l))), reels' = Written(Files(a, l, Toc(l)), k)
    PROVE  /\ ReelsTyped'
           /\ \A r \in Reels : reels'[r].name = reels[r].name /\ reels'[r].epoch = reels[r].epoch
           /\ CommitsOn(Reels)' \subseteq CommitsOn(Reels) \cup {NewFooter(a, l)}
<1>. DEFINE files == Files(a, l, Toc(l))
            footer == NewFooter(a, l)
            on(r) == {j \in 1 .. k : files[j][1] = r}
            new == [r \in Reels |-> {files[i][2] : i \in on(r)}]
<1>1. /\ Len(l.parts) \in Nat \ {0} /\ RefOf(l.tail) \in Refer
      /\ Toc(l) \in Seq(Refer) /\ (Toc(l) = <<>> \/ Len(Toc(l)) = Len(l.parts))
  BY LayoutTyped
<1>2. \A j \in 1 .. Len(files) : files[j][2] = footer \/ files[j][2].kind # "commit"
  BY FilesAre
<1>3. ASSUME NEW r \in Reels
      PROVE  /\ reels'[r] = [name |-> reels'[r].name, epoch |-> reels'[r].epoch,
                             files |-> reels'[r].files]
             /\ reels'[r].name = reels[r].name /\ reels'[r].epoch = reels[r].epoch
             /\ reels'[r].files = reels[r].files \cup new[r]
  <2>1. reels[r] = [name |-> reels[r].name, epoch |-> reels[r].epoch, files |-> reels[r].files]
    BY DEF ReelsTyped
  <2>2. reels'[r] = [reels[r] EXCEPT !.files = reels[r].files \cup new[r]]  BY DEF Written
  <2>. HIDE DEF new
  <2>. QED  BY <2>1, <2>2
<1>4. ASSUME NEW r \in Reels PROVE IsFiniteSet(new[r])
  <2>. DEFINE second == [j \in 1 .. k |-> files[j][2]]
  <2>1. IsFiniteSet(on(r))
    <3>1. IsFiniteSet(1 .. k) /\ on(r) \subseteq 1 .. k  BY FS_Interval
    <3>. HIDE DEF on
    <3>. QED  BY <3>1, FS_Subset
  <2>2. new[r] = {second[j] : j \in on(r)}  OBVIOUS
  <2>. HIDE DEF second, on, new
  <2>. QED  BY <2>1, <2>2, ImageFinite
<1>5. \A r \in Reels : \A f \in new[r] : f = footer \/ f.kind # "commit"
  <2>1. \A r : \A j \in on(r) : j \in 1 .. Len(files)  OBVIOUS
  <2>. HIDE DEF files, footer
  <2>. QED  BY <1>2, <2>1
<1>. HIDE DEF new, files
<1>6. FooterTyped(footer)
  <2>1. footer = [kind |-> "commit", arch |-> a, n |-> Len(l.parts), map |-> Toc(l),
                  index |-> IF Toc(l) = <<>> THEN NoRef ELSE RefOf(l.tail)]
    BY DEF NewFooter
  <2>2. NoRef \in Refer  BY DEF NoRef, Refer
  <2>. HIDE DEF footer
  <2>. QED  BY <1>1, <2>1, <2>2 DEF FooterTyped
<1>7. CommitsOn(Reels)' \subseteq CommitsOn(Reels) \cup {footer}
  <2>. HIDE DEF footer
  <2>. SUFFICES ASSUME NEW f \in CommitsOn(Reels)' PROVE f \in CommitsOn(Reels) \cup {footer}
    OBVIOUS
  <2>1. PICK r \in Reels : f \in reels'[r].files /\ f.kind = "commit"  BY DEF CommitsOn
  <2>2. f \in reels[r].files \cup new[r]  BY <1>3, <2>1
  <2>3. CASE f \in reels[r].files  BY <2>1, <2>3 DEF CommitsOn
  <2>4. CASE f \in new[r]  BY <1>5, <2>1, <2>4
  <2>. QED  BY <2>2, <2>3, <2>4
<1>8. reels' = [r \in Reels |-> reels'[r]]  BY DEF Written
<1>9. ReelsTyped'
  <2>1. \A r \in Reels : IsFiniteSet(reels[r].files) /\ reels[r].name \in Names \cup {""}
                          /\ reels[r].epoch \in Nat
    BY DEF ReelsTyped
  <2>2. \A r \in Reels : reels'[r].name = reels[r].name /\ reels'[r].epoch = reels[r].epoch
                          /\ reels'[r].files = reels[r].files \cup new[r]
    BY <1>3
  <2>3. \A r \in Reels : IsFiniteSet(reels'[r].files)
    <3>. SUFFICES ASSUME NEW r \in Reels PROVE IsFiniteSet(reels'[r].files)  OBVIOUS
    <3>1. IsFiniteSet(reels[r].files \cup new[r])  BY <1>4, <2>1, FS_Union
    <3>. QED  BY <2>2, <3>1
  <2>4. \A f \in CommitsOn(Reels)' : FooterTyped(f)
    <3>. HIDE DEF footer
    <3>. QED  BY <1>6, <1>7 DEF ReelsTyped
  <2>5. reels' = [r \in Reels |-> [name |-> reels'[r].name, epoch |-> reels'[r].epoch,
                                   files |-> reels'[r].files]]
    BY <1>3, <1>8
  <2>6. \A r, q \in Reels : reels[r].name = reels[q].name /\ r # q => reels[r].name = ""
    BY DEF ReelsTyped
  <2>7. \A r, q \in Reels : reels'[r].name = reels'[q].name /\ r # q => reels'[r].name = ""
    BY <2>2, <2>6
  <2>8. \A r \in Reels : reels'[r].name \in Names \cup {""} /\ reels'[r].epoch \in Nat
    BY <2>1, <2>2
  <2>. HIDE DEF footer
  <2>. QED  BY <2>3, <2>4, <2>5, <2>7, <2>8 DEF ReelsTyped
<1>. QED  BY <1>3, <1>7, <1>9


LEMMA NoLater == \A x, y, z \in Nat : x <= y /\ y <= z => x <= z
OBVIOUS

LEMMA RangeIn == ASSUME NEW T, NEW s \in Seq(T) PROVE Range(s) \subseteq T
<1>1. DOMAIN s = 1 .. Len(s) /\ \A i \in 1 .. Len(s) : s[i] \in T  OBVIOUS
<1>. QED  BY <1>1 DEF Range

\* What is known of the references outlives what names no reel anew.
LEMMA KnownStays ==
    ASSUME CatalogAssumption, ReelsTyped, NEW c, CatalogTyped(c), c = cat', Known(c),
           \A r \in Reels : reels[r].name # "" =>
               reels'[r].name = reels[r].name /\ reels'[r].epoch \in Nat /\ reels[r].epoch <= reels'[r].epoch,
           \A f \in CommitsOn(Reels)' : f \in CommitsOn(Reels)
               \/ \A ref \in Range(f.map) \cup {f.index} : ref \in Refer /\ Dated(ref, c.vols)
    PROVE  Known(cat)'
<1>1. ASSUME NEW ref, ref[2] \in Nat, Past(ref) PROVE Past(ref)'
  <2>. SUFFICES ASSUME ref[1] \in Names
                PROVE  \E r \in Reels : reels'[r].name = ref[1] /\ ref[2] <= reels'[r].epoch
    BY DEF Past
  <2>1. PICK r \in Reels : reels[r].name = ref[1] /\ ref[2] <= reels[r].epoch  BY <1>1 DEF Past
  <2>2. reels[r].name # "" /\ reels[r].epoch \in Nat  BY <2>1 DEF CatalogAssumption, ReelsTyped
  <2>3. reels'[r].name = reels[r].name /\ reels'[r].epoch \in Nat /\ reels[r].epoch <= reels'[r].epoch
    BY <2>2
  <2>5. ref[2] <= reels'[r].epoch  BY <1>1, <2>1, <2>2, <2>3, NoLater
  <2>. QED  BY <2>1, <2>3, <2>5
<1>2. ASSUME NEW ref, ref[2] \in Nat, Dated(ref, c.vols)
      PROVE  Past(ref)' /\ (ref[1] \in DOMAIN c.vols => ref[2] <= c.vols[ref[1]].epoch)
  BY <1>1, <1>2 DEF Dated
<1>3. ASSUME NEW pa \in c.placed[Tape], NEW ref \in Mentions(pa)
      PROVE  Past(ref)' /\ (ref[1] \in DOMAIN c.vols => ref[2] <= c.vols[ref[1]].epoch)
  <2>1. PlacedWell(pa)  BY DEF CatalogTyped, Media
  <2>2. Mentions(pa) \subseteq Refer
    <3>1. pa.parts \in Seq(Refer) /\ pa.commit \in Refer /\ pa.index \in Refer
      BY <2>1 DEF PlacedWell, PlacedArchives
    <3>. QED  BY <3>1, RangeIn DEF Mentions
  <2>3. ref[2] \in Nat  BY <2>2 DEF Refer
  <2>4. Dated(ref, c.vols)  BY DEF Known
  <2>. QED  BY <1>2, <2>3, <2>4
<1>4. ASSUME NEW f \in CommitsOn(Reels)', NEW ref \in Range(f.map) \cup {f.index}
      PROVE  Past(ref)' /\ (ref[1] \in DOMAIN c.vols => ref[2] <= c.vols[ref[1]].epoch)
  <2>1. ref \in Refer /\ Dated(ref, c.vols)
    <3>1. CASE f \in CommitsOn(Reels)
      <4>1. f.map \in Seq(Refer) /\ f.index \in Refer  BY <3>1 DEF ReelsTyped, FooterTyped
      <4>2. ref \in Refer  BY <4>1, RangeIn
      <4>. QED  BY <3>1, <4>2 DEF Known
    <3>2. CASE f \notin CommitsOn(Reels)  BY <3>2
    <3>. QED  BY <3>1, <3>2
  <2>2. ref[2] \in Nat  BY <2>1 DEF Refer
  <2>. QED  BY <1>2, <2>1, <2>2
<1>5. ASSUME NEW n \in DOMAIN c.vols PROVE Past(<<n, c.vols[n].epoch>>)'
  <2>1. c.vols[n].epoch \in Nat  BY PlacedCharges, VolumesTyped
  <2>2. Past(<<n, c.vols[n].epoch>>)  BY DEF Known
  <2>. QED  BY <1>1, <2>1, <2>2
<1>6. Known(cat)' = /\ \A pa \in c.placed[Tape] : \A ref \in Mentions(pa) :
                         Past(ref)' /\ (ref[1] \in DOMAIN c.vols => ref[2] <= c.vols[ref[1]].epoch)
                    /\ \A f \in CommitsOn(Reels)' : \A ref \in Range(f.map) \cup {f.index} :
                         Past(ref)' /\ (ref[1] \in DOMAIN c.vols => ref[2] <= c.vols[ref[1]].epoch)
                    /\ \A n \in DOMAIN c.vols : Past(<<n, c.vols[n].epoch>>)'
  BY DEF Known, Dated
<1>. QED  BY <1>3, <1>4, <1>5, <1>6


\* Persisting a catalog that is as it should be, the reels as they were.
LEMMA PersistStep ==
    ASSUME CatalogAssumption, CatalogInv, NEW c, CatalogTyped(c), Advertised(c), Persist(c),
           reels' = reels, IsFiniteSet(disk'), disk' \subseteq Backups,
           cmd' = NoCommand \/ (cmd' \in Commands /\ reels[cmd'.r].name \in Names)
    PROVE  CatalogInv'
<1>1. Kept' /\ LedgerCatchesUp'  BY PersistKeeps
<1>2. ReelsTyped'  BY DEF CatalogInv, ReelsTyped, CommitsOn
<1>. QED  BY <1>1, <1>2 DEF CatalogInv, Kept

LEMMA SoundStays ==
    ASSUME NEW c, cat' = c, reels' = reels, Sound(c)
    PROVE  Filled(cat)' /\ Known(cat)'
BY DEF Sound, Known, Dated, Past, CommitsOn

LEMMA IdleRelabels == ASSUME cmd' = NoCommand PROVE Relabeling'
BY DEF Relabeling, NoCommand

LEMMA EmptySound == ASSUME CatalogAssumption, CatalogInv, Known(cat) PROVE Sound(Empty)
<1>1. \A f \in CommitsOn(Reels) : \A ref \in Range(f.map) \cup {f.index} : Past(ref)
  BY DEF Known, Dated
<1>. QED  BY <1>1, EmptyWell DEF CatalogInv, Sound

\* The conjuncts a step from an invariant state starts from.
LEMMA InvGives ==
    ASSUME CatalogInv
    PROVE  /\ CatalogTyped(cat) /\ Advertised(cat) /\ ReelsTyped
           /\ IsFiniteSet(disk) /\ disk \subseteq Backups
           /\ ~loaded => cat = Empty
           /\ cmd = NoCommand \/ (cmd \in Commands /\ reels[cmd.r].name \in Names)
BY DEF CatalogInv

LEMMA EnsureFreshStep ==
    ASSUME CatalogAssumption, CatalogInv, NEW S \in SUBSET Labeled, EnsureFresh(S)
    PROVE  CatalogInv' /\ (FillInv => FillInv')
<1>1. ~loaded /\ cmd = NoCommand /\ cat = Empty /\ reels' = reels /\ disk' = disk /\ cmd' = cmd
  BY DEF EnsureFresh, CatalogInv
<1>. DEFINE c == IF Landing = Tape THEN Absorb(cat, S) ELSE ScanDisk(cat)
<1>2. Carries(cat, c)
  BY <1>1, InvGives, EmptyWell, AbsorbWell, ScanDiskWell
<1>3. CatalogTyped(c) /\ Advertised(c) /\ (Sound(cat) => Sound(c))  BY <1>2, InvGives DEF Carries
<1>4. IF c = Empty THEN cat' = c /\ loaded' = TRUE /\ UNCHANGED <<ledger, lag, losses>>
      ELSE Persist(c)
  BY DEF EnsureFresh
<1>. HIDE DEF c
<1>5. cat' = c  BY <1>4 DEF Persist
<1>6. CatalogInv'
  <2>1. CASE c # Empty  BY <1>1, <1>3, <1>4, <2>1, InvGives, PersistStep
  <2>2. CASE c = Empty
    <3>1. cat' = cat /\ ledger' = ledger /\ lag' = lag /\ loaded' = TRUE  BY <1>1, <1>4, <2>2
    <3>2. LedgerCatchesUp'  BY <3>1 DEF CatalogInv, LedgerCatchesUp, Totals
    <3>3. ReelsTyped'  BY <1>1 DEF CatalogInv, ReelsTyped, CommitsOn
    <3>. QED  BY <1>1, <3>1, <3>2, <3>3 DEF CatalogInv
  <2>. QED  BY <2>1, <2>2
<1>7. FillInv => FillInv'
  BY <1>1, <1>3, <1>5, SoundStays, IdleRelabels DEF FillInv, Sound
<1>. QED  BY <1>6, <1>7

LEMMA RebuildStep ==
    ASSUME CatalogAssumption, CatalogInv, NEW S \in SUBSET Labeled, NEW full \in BOOLEAN,
           RebuildFrom(S, full)
    PROVE  CatalogInv' /\ (FillInv => FillInv')
<1>. DEFINE from == IF full THEN Empty ELSE cat
            c == Rebuilt(from, S)
<1>1. Persist(c) /\ reels' = reels /\ disk' = disk /\ cmd' = cmd /\ cmd = NoCommand /\ cat' = c
  BY DEF RebuildFrom, Ready, Persist
<1>2. CatalogTyped(from) /\ Advertised(from)  BY InvGives, EmptyWell
<1>3. FillInv => Sound(from)  BY EmptySound DEF FillInv, Sound
<1>. HIDE DEF from
<1>4. Carries(from, c)  BY <1>2, InvGives, RebuiltWell
<1>. HIDE DEF c
<1>5. CatalogInv'  BY <1>1, <1>2, <1>4, InvGives, PersistStep DEF Carries
<1>6. FillInv => FillInv'
  BY <1>1, <1>3, <1>4, SoundStays, IdleRelabels DEF FillInv, Carries
<1>. QED  BY <1>5, <1>6

LEMMA WriteDiskStep ==
    ASSUME CatalogAssumption, CatalogInv, NEW a \in Backups, WriteDisk(a)
    PROVE  CatalogInv' /\ (FillInv => FillInv')
<1>. DEFINE c == AddArchive(cat, Disk, OnDisk(a))
<1>1. Persist(c) /\ reels' = reels /\ disk' = disk \cup {a} /\ cmd' = cmd /\ cmd = NoCommand /\ cat' = c
  BY DEF WriteDisk, Ready, Persist
<1>2. Disk \in Media /\ Disk # Tape  BY DEF Media, CatalogAssumption
<1>3. PlacedWell(OnDisk(a)) /\ Plain(OnDisk(a))  BY OnDiskWell
<1>4. Carries(cat, c)  BY <1>2, <1>3, InvGives, AddCarries DEF Carries
<1>5. IsFiniteSet(disk') /\ disk' \subseteq Backups  BY <1>1, InvGives, FS_AddElement
<1>. HIDE DEF c
<1>6. CatalogInv'  BY <1>1, <1>4, <1>5, InvGives, PersistStep DEF Carries
<1>7. FillInv => FillInv'
  BY <1>1, <1>4, SoundStays, IdleRelabels DEF FillInv, Carries, Sound
<1>. QED  BY <1>6, <1>7

LEMMA PruneStep ==
    ASSUME CatalogAssumption, CatalogInv, NEW a \in Backups, Prune(a)
    PROVE  CatalogInv' /\ (FillInv => FillInv')
<1>. DEFINE c == RemoveArchive(cat, Disk, a)
            S == Of(cat.placed[Disk], a)
<1>1. Persist(c) /\ reels' = reels /\ disk' = disk \ {a} /\ cmd' = cmd /\ cmd = NoCommand /\ cat' = c
  BY DEF Prune, Ready, Persist
<1>2. Disk \in Media  BY DEF Media
<1>3. Thinner(cat, c, Disk, S)  BY <1>2, InvGives, RemoveArchiveWell
<1>. HIDE DEF c, S
<1>4. Carries(cat, c)  BY <1>2, <1>3, InvGives, ThinnerCarries
<1>5. IsFiniteSet(disk') /\ disk' \subseteq Backups  BY <1>1, InvGives, FS_Subset
<1>6. CatalogInv'  BY <1>1, <1>4, <1>5, InvGives, PersistStep DEF Carries
<1>7. FillInv => FillInv'
  BY <1>1, <1>4, SoundStays, IdleRelabels DEF FillInv, Carries, Sound
<1>. QED  BY <1>6, <1>7


LEMMA OneMore == \A x \in Nat : x + 1 \in Nat /\ x <= x /\ x <= x + 1
OBVIOUS

\* A label the registry knows at its epoch.
LEMMA RefDated ==
    ASSUME CatalogAssumption, ReelsTyped, NEW r \in Reels,
           reels[r].name \in DOMAIN cat.vols, cat.vols[reels[r].name].epoch = reels[r].epoch
    PROVE  Dated(RefOf(r), cat.vols) /\ RefOf(r) \in Refer
<1>1. RefOf(r)[1] = reels[r].name /\ RefOf(r)[2] = reels[r].epoch /\ RefOf(r) = <<reels[r].name, reels[r].epoch>>
  BY DEF RefOf
<1>2. reels[r].name \in Names \cup {""} /\ reels[r].epoch \in Nat  BY DEF ReelsTyped
<1>3. reels[r].epoch <= reels[r].epoch  BY <1>2, OneMore
<1>4. Past(RefOf(r))  BY <1>1, <1>3 DEF Past
<1>5. Dated(RefOf(r), cat.vols)  BY <1>1, <1>3, <1>4 DEF Dated
<1>6. RefOf(r) \in Refer  BY <1>1, <1>2 DEF Refer
<1>. QED  BY <1>5, <1>6

\* What is left of the invariant once the catalog and the ledger are settled.
LEMMA InvLasts ==
    ASSUME CatalogInv, Kept', LedgerCatchesUp', ReelsTyped', disk' = disk, cmd' = cmd, cmd = NoCommand
    PROVE  CatalogInv'
<1>1. CatalogTyped(cat)' /\ Advertised(cat)' /\ (~loaded => cat = Empty)'  BY DEF Kept
<1>2. IsFiniteSet(disk)' /\ (disk \subseteq Backups)'  BY InvGives
<1>3. (cmd = NoCommand)'  OBVIOUS
<1>. QED  BY <1>1, <1>2, <1>3 DEF CatalogInv

\* A write: the refs are of reels whose epoch the catalog knows.
LEMMA WriteTapeStep ==
    ASSUME CatalogAssumption, CatalogInv, NEW a \in Backups, NEW l \in Layouts, WriteTape(a, l)
    PROVE  CatalogInv' /\ (FillInv => FillInv')
<1>. DEFINE refs == [i \in DOMAIN l.parts |-> RefOf(l.parts[i])]
            files == Files(a, l, Toc(l))
            pa == [arch |-> a, parts |-> refs, sealed |-> TRUE,
                   commit |-> RefOf(l.tail), index |-> RefOf(l.tail)]
            c == AddArchive(cat, Tape, pa)
            whole == reels' = Written(files, Len(files)) /\ Persist(c)
            cut == /\ \E k \in 1 .. Len(files) : reels' = Written(files, k)
                   /\ UNCHANGED <<cat, loaded, ledger, lag>>
            Here == Range(l.parts) \cup {l.tail}
<1>0. disk' = disk /\ cmd' = cmd /\ cmd = NoCommand  BY DEF WriteTape, Ready
<1>1. /\ \A r \in Here : reels[r].name \in DOMAIN cat.vols /\ cat.vols[reels[r].name].epoch = reels[r].epoch
      /\ whole \/ cut
  BY DEF WriteTape, Toc
<1>2. /\ CatalogTyped(cat) /\ Advertised(cat) /\ ReelsTyped
      /\ IsFiniteSet(disk) /\ disk \subseteq Backups
      /\ ~loaded => cat = Empty
  BY InvGives
<1>3. /\ l.parts \in Seq(Reels) /\ l.parts # <<>> /\ l.tail \in Reels
      /\ refs \in Seq(Refer) /\ RefOf(l.tail) \in Refer
      /\ Toc(l) = <<>> \/ Toc(l) = refs
  BY <1>2, LayoutTyped DEF Toc
<1>4. Range(refs) = {RefOf(r) : r \in Range(l.parts)} /\ Here \subseteq Reels /\ refs # <<>>
  <2>1. DOMAIN refs = DOMAIN l.parts /\ \A i \in DOMAIN l.parts : refs[i] = RefOf(l.parts[i])
    OBVIOUS
  <2>2. DOMAIN l.parts = 1 .. Len(l.parts) /\ Len(l.parts) > 0  BY <1>3
  <2>3. Here \subseteq Reels  BY <1>3, RangeIn
  <2>4. refs # <<>>
    <3>1. 1 \in DOMAIN refs /\ DOMAIN (<<>>) = {}  BY <2>1, <2>2
    <3>. HIDE DEF refs
    <3>. QED  BY <3>1
  <2>. HIDE DEF refs
  <2>. QED  BY <2>1, <2>3, <2>4 DEF Range
<1>5. ASSUME NEW r \in Here PROVE Dated(RefOf(r), cat.vols) /\ RefOf(r) \in Refer
  <2>1. r \in Reels /\ ReelsTyped  BY <1>2, <1>4
  <2>2. reels[r].name \in DOMAIN cat.vols /\ cat.vols[reels[r].name].epoch = reels[r].epoch
    BY <1>1, <1>5
  <2>. HIDE DEF Here
  <2>. QED  BY <2>1, <2>2, RefDated
<1>6. ASSUME NEW ref \in Range(refs) \cup {RefOf(l.tail)} PROVE Dated(ref, cat.vols) /\ ref \in Refer
  <2>. HIDE DEF refs
  <2>. QED  BY <1>4, <1>5
<1>7. PlacedWell(pa) /\ Mentions(pa) = Range(refs) \cup {RefOf(l.tail)}
  <2>. HIDE DEF refs
  <2>. QED  BY <1>3, <1>4 DEF PlacedWell, PlacedArchives, Mentions
<1>8. Tape \in Media /\ Tape # Disk  BY DEF Media, CatalogAssumption
<1>. HIDE DEF pa, Here
<1>9. /\ CatalogTyped(c) /\ (Advertised(cat) => Advertised(c)) /\ (Sound(cat) => Sound(c))
      /\ DOMAIN c.vols = DOMAIN cat.vols /\ \A n \in DOMAIN cat.vols : c.vols[n].epoch = cat.vols[n].epoch
  <2>. HIDE DEF refs
  <2>. QED  BY <1>2, <1>6, <1>7, <1>8, AddCarries
<1>10. PICK k \in 1 .. Len(files) : reels' = Written(files, k)
  <2>1. Len(files) \in Nat \ {0}  BY <1>2, FilesAre
  <2>. HIDE DEF files, c
  <2>. QED  BY <1>1, <2>1
<1>11. /\ ReelsTyped'
       /\ \A r \in Reels : reels'[r].name = reels[r].name /\ reels'[r].epoch = reels[r].epoch
       /\ CommitsOn(Reels)' \subseteq CommitsOn(Reels) \cup {NewFooter(a, l)}
  BY <1>2, <1>10, WrittenWell
<1>12. \A ref \in Range(NewFooter(a, l).map) \cup {NewFooter(a, l).index} :
         ref \in Refer /\ Dated(ref, cat.vols)
  <2>1. NewFooter(a, l).map = Toc(l) /\ NewFooter(a, l).index \in {NoRef, RefOf(l.tail)}
    BY DEF NewFooter
  <2>2. Range(Toc(l)) \subseteq Range(refs)
    <3>1. Range(<<>>) = {}  BY DEF Range
    <3>. HIDE DEF refs
    <3>. QED  BY <1>3, <3>1
  <2>3. Dated(NoRef, cat.vols) /\ NoRef \in Refer
    BY <1>2, NoRefDated, PlacedCharges DEF NoRef, Refer
  <2>. HIDE DEF refs
  <2>. QED  BY <1>6, <2>1, <2>2, <2>3
<1>13. ASSUME NEW d, d = cat', CatalogTyped(d), Known(d), DOMAIN d.vols = DOMAIN cat.vols,
              \A n \in DOMAIN cat.vols : d.vols[n].epoch = cat.vols[n].epoch
       PROVE  Known(cat)'
  <2>1. \A ref : Dated(ref, cat.vols) => Dated(ref, d.vols)  BY <1>13 DEF Dated
  <2>2. \A r \in Reels : reels'[r].epoch \in Nat /\ reels[r].epoch <= reels'[r].epoch
                         /\ reels'[r].name = reels[r].name
    <3>. SUFFICES ASSUME NEW r \in Reels
                  PROVE  /\ reels'[r].epoch \in Nat /\ reels[r].epoch <= reels'[r].epoch
                         /\ reels'[r].name = reels[r].name
      OBVIOUS
    <3>1. reels[r].epoch \in Nat  BY <1>2 DEF ReelsTyped
    <3>2. reels'[r].epoch = reels[r].epoch /\ reels'[r].name = reels[r].name  BY <1>11
    <3>. QED  BY <3>1, <3>2
  <2>3. \A f \in CommitsOn(Reels)' : f \in CommitsOn(Reels)
               \/ \A ref \in Range(f.map) \cup {f.index} : ref \in Refer /\ Dated(ref, d.vols)
    BY <1>11, <1>12, <2>1
  <2>. QED  BY <1>2, <1>13, <2>2, <2>3, KnownStays
<1>. HIDE DEF c, files
<1>14. CASE whole
  <2>1. cat' = c /\ Kept' /\ LedgerCatchesUp'  BY <1>2, <1>9, <1>14, PersistKeeps DEF Persist
  <2>. HIDE DEF whole, cut, refs
  <2>2. CatalogInv'  BY <1>0, <1>11, <2>1, InvLasts
  <2>3. ASSUME FillInv PROVE FillInv'
    <3>1. Filled(c) /\ Known(c)  BY <1>9, <2>3 DEF FillInv, Sound
    <3>2. Known(cat)'  BY <1>9, <1>13, <2>1, <3>1
    <3>3. Filled(cat)'  BY <2>1, <3>1
    <3>. QED  BY <1>0, <3>2, <3>3, IdleRelabels DEF FillInv
  <2>. QED  BY <2>2, <2>3
<1>15. CASE cut
  <2>1. cat' = cat /\ loaded' = loaded /\ ledger' = ledger /\ lag' = lag  BY <1>15
  <2>2. LedgerCatchesUp'  BY <2>1 DEF CatalogInv, LedgerCatchesUp, Totals
  <2>. HIDE DEF whole, cut, refs
  <2>3. Kept'  BY <1>2, <2>1 DEF Kept
  <2>4. CatalogInv'  BY <1>0, <1>11, <2>2, <2>3, InvLasts
  <2>5. ASSUME FillInv PROVE FillInv'
    <3>1. Known(cat)'  BY <1>2, <1>13, <2>1, <2>5 DEF FillInv
    <3>2. Filled(cat)'  BY <2>1, <2>5 DEF FillInv
    <3>. QED  BY <1>0, <3>1, <3>2, IdleRelabels DEF FillInv
  <2>. QED  BY <2>4, <2>5
<1>. QED  BY <1>1, <1>14, <1>15

\* A reel keeps the name it once got.
RelabelsInPlace == \A r \in Reels : reels[r].name # "" => reels'[r].name = reels[r].name

LEMMA WriteLabelStep ==
    ASSUME CatalogAssumption, CatalogInv, NEW r \in Reels, NEW name \in Names, WriteLabel(r, name)
    PROVE  CatalogInv' /\ (FillInv /\ RelabelsInPlace => FillInv')
<1>. DEFINE wiped == reels[r].name
<1>1. /\ cmd = NoCommand /\ disk' = disk /\ cat' = cat /\ loaded' = loaded /\ ledger' = ledger /\ lag' = lag
      /\ reels' = [reels EXCEPT ![r] = [name |-> name, epoch |-> reels[r].epoch + 1, files |-> NoFiles]]
      /\ cmd' = [st |-> IF wiped = "" THEN "record" ELSE "drop", wiped |-> wiped, r |-> r]
      /\ name \in DOMAIN cat.vols => name = reels[r].name
      /\ \A q \in Reels \ {r} : reels[q].name # name
  BY DEF WriteLabel, Ready
<1>2. /\ CatalogTyped(cat) /\ Advertised(cat) /\ ReelsTyped
      /\ IsFiniteSet(disk) /\ disk \subseteq Backups
      /\ ~loaded => cat = Empty
  BY InvGives
<1>3. /\ reels = [q \in Reels |-> [name |-> reels[q].name, epoch |-> reels[q].epoch,
                                 files |-> reels[q].files]]
      /\ \A q \in Reels : /\ reels[q].name \in Names \cup {""} /\ reels[q].epoch \in Nat
                          /\ IsFiniteSet(reels[q].files)
      /\ \A f \in CommitsOn(Reels) : FooterTyped(f)
      /\ \A q, x \in Reels : reels[q].name = reels[x].name /\ q # x => reels[q].name = ""
  BY <1>2 DEF ReelsTyped
<1>4. /\ reels'[r].name = name /\ reels'[r].epoch = reels[r].epoch + 1 /\ reels'[r].files = {}
      /\ \A q \in Reels : q # r => reels'[q] = reels[q]
      /\ DOMAIN reels' = Reels
      /\ reels' = [q \in Reels |-> [name |-> reels'[q].name, epoch |-> reels'[q].epoch,
                                  files |-> reels'[q].files]]
  <2>1. DOMAIN reels = Reels  BY <1>3
  <2>2. reels' = [q \in Reels |-> IF q = r THEN [name |-> name, epoch |-> reels[r].epoch + 1,
                                                 files |-> NoFiles] ELSE reels[q]]
    BY <1>1, <2>1
  <2>. QED  BY <1>3, <2>2 DEF NoFiles
<1>5. CommitsOn(Reels)' \subseteq CommitsOn(Reels)
  <2>. SUFFICES ASSUME NEW f \in CommitsOn(Reels)' PROVE f \in CommitsOn(Reels)  OBVIOUS
  <2>1. PICK q \in Reels : f \in reels'[q].files /\ f.kind = "commit"  BY DEF CommitsOn
  <2>2. q # r /\ f \in reels[q].files  BY <1>4, <2>1
  <2>. QED  BY <2>1, <2>2 DEF CommitsOn
<1>6. ReelsTyped'
  <2>1. \A q \in Reels : reels'[q].name \in Names \cup {""} /\ reels'[q].epoch \in Nat
                         /\ IsFiniteSet(reels'[q].files)
    <3>. SUFFICES ASSUME NEW q \in Reels
                  PROVE  reels'[q].name \in Names \cup {""} /\ reels'[q].epoch \in Nat
                         /\ IsFiniteSet(reels'[q].files)
      OBVIOUS
    <3>1. CASE q = r
      <4>0. reels[r].epoch \in Nat  BY <1>3
      <4>1. reels[r].epoch + 1 \in Nat  BY <4>0, OneMore
      <4>. QED  BY <1>4, <3>1, <4>1, FS_EmptySet
    <3>2. CASE q # r
      <4>1. reels'[q] = reels[q]  BY <1>4, <3>2
      <4>. QED  BY <1>3, <4>1
    <3>. QED  BY <3>1, <3>2
  <2>2. \A q, x \in Reels : reels'[q].name = reels'[x].name /\ q # x => reels'[q].name = ""
    <3>1. \A q \in Reels : reels'[q].name = IF q = r THEN name ELSE reels[q].name  BY <1>4
    <3>2. \A q \in Reels \ {r} : reels[q].name # name  BY <1>1
    <3>3. \A q, x \in Reels : reels[q].name = reels[x].name /\ q # x => reels[q].name = ""
      BY <1>3
    <3>. QED  BY <3>1, <3>2, <3>3
  <2>3. \A f \in CommitsOn(Reels)' : FooterTyped(f)  BY <1>3, <1>5
  <2>. QED  BY <1>4, <2>1, <2>2, <2>3 DEF ReelsTyped
<1>7. /\ cmd' \in Commands /\ cmd'.r = r /\ cmd'.wiped = wiped
      /\ cmd'.st = IF wiped = "" THEN "record" ELSE "drop"
  BY <1>1, <1>3 DEF Commands
<1>8. CatalogInv'
  <2>1. LedgerCatchesUp'  BY <1>1 DEF CatalogInv, LedgerCatchesUp, Totals
  <2>2. reels'[cmd'.r].name \in Names  BY <1>4, <1>7
  <2>. QED  BY <1>1, <1>2, <1>6, <1>7, <2>1, <2>2 DEF CatalogInv
<1>9. ASSUME FillInv, RelabelsInPlace PROVE FillInv'
  <2>1. Filled(cat)'  BY <1>1, <1>9 DEF FillInv
  <2>2. \A q \in Reels : reels[q].name # "" =>
          reels'[q].name = reels[q].name /\ reels'[q].epoch \in Nat /\ reels[q].epoch <= reels'[q].epoch
    <3>. SUFFICES ASSUME NEW q \in Reels, reels[q].name # ""
                  PROVE  /\ reels'[q].name = reels[q].name /\ reels'[q].epoch \in Nat
                         /\ reels[q].epoch <= reels'[q].epoch
      OBVIOUS
    <3>1. reels[q].epoch \in Nat  BY <1>3
    <3>2. reels'[q].name = reels[q].name  BY <1>9 DEF RelabelsInPlace
    <3>3. CASE q = r
      <4>1. reels'[q].epoch = reels[q].epoch + 1  BY <1>4, <3>3
      <4>. QED  BY <3>1, <3>2, <4>1, OneMore
    <3>4. CASE q # r
      <4>1. reels'[q].epoch = reels[q].epoch  BY <1>4, <3>4
      <4>. QED  BY <3>1, <3>2, <4>1, OneMore
    <3>. QED  BY <3>3, <3>4
  <2>3. Known(cat)'  BY <1>1, <1>2, <1>5, <1>9, <2>2, KnownStays DEF FillInv
  <2>4. Relabeling'
    <3>1. CASE wiped = ""
      <4>1. cmd'.st = "record" /\ name \notin DOMAIN cat.vols
        BY <1>1, <1>7, <3>1 DEF CatalogAssumption
      <4>. QED  BY <1>1, <1>4, <1>7, <4>1 DEF Relabeling
    <3>2. CASE wiped # ""
      <4>1. cmd'.st = "drop" /\ cmd'.wiped = reels'[cmd'.r].name
        BY <1>7, <1>9, <3>2 DEF RelabelsInPlace
      <4>. QED  BY <4>1 DEF Relabeling
    <3>. QED  BY <3>1, <3>2
  <2>. QED  BY <2>1, <2>3, <2>4 DEF FillInv
<1>. QED  BY <1>8, <1>9


\* The command's own persisted mutations, the reels and the disk as they were.
LEMMA CommandIs ==
    ASSUME CatalogInv, cmd # NoCommand
    PROVE  cmd.r \in Reels /\ cmd.wiped \in Names \cup {""} /\ reels[cmd.r].name \in Names
           /\ cmd = [st |-> cmd.st, wiped |-> cmd.wiped, r |-> cmd.r]
           /\ cmd \in Commands
<1>1. cmd \in Commands /\ reels[cmd.r].name \in Names  BY InvGives
<1>. QED  BY <1>1 DEF Commands

LEMMA NotIdle == ASSUME cmd.st # "idle" PROVE cmd # NoCommand
BY DEF NoCommand

LEMMA DropPlacementStep ==
    ASSUME CatalogAssumption, CatalogInv, DropPlacement
    PROVE  CatalogInv' /\ (FillInv => FillInv')
<1>. DEFINE runs == RunsOnLabel(cat, cmd.wiped)
            then == IF cmd.wiped = reels[cmd.r].name THEN "record" ELSE "forget"
            c == RemovePlacement(cat, Min(runs), Tape)
<1>1. /\ cmd.st = "drop" /\ reels' = reels /\ disk' = disk
      /\ \/ runs = {} /\ cmd' = [cmd EXCEPT !.st = then]
            /\ cat' = cat /\ loaded' = loaded /\ ledger' = ledger /\ lag' = lag
         \/ Persist(c) /\ cmd' = cmd
  BY DEF DropPlacement
<1>2. /\ cmd.r \in Reels /\ cmd.wiped \in Names \cup {""} /\ reels[cmd.r].name \in Names
      /\ cmd = [st |-> cmd.st, wiped |-> cmd.wiped, r |-> cmd.r] /\ cmd \in Commands
  <2>1. cmd # NoCommand  BY <1>1, NotIdle
  <2>. QED  BY <2>1, CommandIs
<1>3. CASE runs = {} /\ cmd' = [cmd EXCEPT !.st = then]
            /\ cat' = cat /\ loaded' = loaded /\ ledger' = ledger /\ lag' = lag
  <2>1. cmd' = [st |-> then, wiped |-> cmd.wiped, r |-> cmd.r]  BY <1>2, <1>3
  <2>2. cmd' \in Commands /\ cmd'.r = cmd.r /\ cmd'.st = then  BY <1>2, <2>1 DEF Commands
  <2>3. ReelsTyped'  BY <1>1 DEF CatalogInv, ReelsTyped, CommitsOn
  <2>4. LedgerCatchesUp'  BY <1>3 DEF CatalogInv, LedgerCatchesUp, Totals
  <2>5. CatalogInv'
    <3>1. reels'[cmd'.r].name \in Names  BY <1>1, <1>2, <2>2
    <3>. HIDE DEF then, runs
    <3>. QED  BY <1>1, <1>3, <2>2, <2>3, <2>4, <3>1, InvGives DEF CatalogInv
  <2>6. ASSUME FillInv PROVE FillInv'
    <3>1. cmd.wiped = reels[cmd.r].name  BY <1>1, <2>6 DEF FillInv, Relabeling
    <3>2. cmd'.st = "record"  BY <2>2, <3>1
    <3>3. \A pa \in cat.placed[Tape] : ~OnLabel(pa, cmd.wiped)  BY <1>3 DEF RunsOnLabel
    <3>4. Relabeling'  BY <1>1, <1>3, <2>2, <3>1, <3>2, <3>3 DEF Relabeling, OnLabel
    <3>5. Filled(cat)' /\ Known(cat)'
      <4>1. Sound(cat)  BY <2>6 DEF FillInv, Sound
      <4>. QED  BY <1>1, <1>3, <4>1, SoundStays
    <3>. QED  BY <3>4, <3>5 DEF FillInv
  <2>. QED  BY <2>5, <2>6
<1>4. CASE Persist(c) /\ cmd' = cmd
  <2>1. Tape \in Media  BY DEF Media
  <2>2. Carries(cat, c)  BY <2>1, InvGives, RemovePlacementWell, ThinnerCarries
  <2>3. cat' = c  BY <1>4 DEF Persist
  <2>. HIDE DEF c, runs
  <2>4. CatalogInv'  BY <1>1, <1>2, <1>4, <2>2, InvGives, PersistStep DEF Carries
  <2>5. ASSUME FillInv PROVE FillInv'
    <3>1. Sound(c)  BY <2>2, <2>5 DEF FillInv, Carries, Sound
    <3>2. Filled(cat)' /\ Known(cat)'  BY <1>1, <2>3, <3>1, SoundStays
    <3>3. cmd.wiped = reels[cmd.r].name  BY <1>1, <2>5 DEF FillInv, Relabeling
    <3>4. Relabeling'  BY <1>1, <1>4, <3>3 DEF Relabeling
    <3>. QED  BY <3>2, <3>4 DEF FillInv
  <2>. QED  BY <2>4, <2>5
<1>. QED  BY <1>1, <1>3, <1>4

LEMMA ForgetVolumeStep ==
    ASSUME CatalogAssumption, CatalogInv, ForgetVolume
    PROVE  CatalogInv' /\ (FillInv => FillInv')
<1>. DEFINE D == DOMAIN cat.vols \ {cmd.wiped}
            V == [n \in D |-> cat.vols[n]]
            c == RemoveVolume(cat, cmd.wiped)
<1>1. /\ cmd.st = "forget" /\ reels' = reels /\ disk' = disk
      /\ cmd' = [cmd EXCEPT !.st = "record"] /\ Persist(c)
  BY DEF ForgetVolume
<1>2. /\ cmd.r \in Reels /\ cmd.wiped \in Names \cup {""} /\ reels[cmd.r].name \in Names
      /\ cmd = [st |-> cmd.st, wiped |-> cmd.wiped, r |-> cmd.r] /\ cmd \in Commands
  <2>1. cmd # NoCommand  BY <1>1, NotIdle
  <2>. QED  BY <2>1, CommandIs
<1>3. /\ cat \in Catalogs /\ cat.vols \in VolumeRecords
      /\ CatalogTyped(cat) /\ Advertised(cat)
  BY InvGives, PlacedCharges
<1>4. V \in VolumeRecords
  <2>1. D \in SUBSET Names /\ \A n \in D : cat.vols[n] \in [epoch : Nat, used : Nat]
    BY <1>3, VolumesTyped
  <2>. HIDE DEF D
  <2>2. V \in [D -> [epoch : Nat, used : Nat]]  BY <2>1
  <2>. HIDE DEF V
  <2>. QED  BY <2>1, <2>2, VolumesAre
<1>5. c.adv = cat.adv /\ c.placed = cat.placed /\ c.vols = V /\ c \in Catalogs
  <2>1. cat = [adv |-> cat.adv, placed |-> cat.placed, vols |-> cat.vols]  BY <1>3 DEF Catalogs
  <2>2. c = [cat EXCEPT !.vols = V]  BY DEF RemoveVolume
  <2>3. c = [adv |-> cat.adv, placed |-> cat.placed, vols |-> V]
    <3>. HIDE DEF V, c
    <3>. QED  BY <2>1, <2>2
  <2>. HIDE DEF V, c
  <2>. QED  BY <1>3, <1>4, <2>3 DEF Catalogs
<1>. HIDE DEF c, V, D
<1>6. CatalogTyped(c)  BY <1>3, <1>5 DEF CatalogTyped
<1>7. Advertised(c)  BY <1>3, <1>5 DEF Advertised, Listed, Held, HeldRuns
<1>8. cmd' \in Commands /\ cmd'.r = cmd.r
  <2>1. cmd' = [st |-> "record", wiped |-> cmd.wiped, r |-> cmd.r]  BY <1>1, <1>2
  <2>. QED  BY <1>2, <2>1 DEF Commands
<1>9. CatalogInv'  BY <1>1, <1>2, <1>6, <1>7, <1>8, InvGives, PersistStep
<1>10. FillInv => FALSE  BY <1>1 DEF FillInv, Relabeling
<1>. QED  BY <1>9, <1>10

LEMMA RegisterStep ==
    ASSUME CatalogAssumption, CatalogInv, Register
    PROVE  CatalogInv' /\ (FillInv => FillInv')
<1>. DEFINE r == cmd.r
            name == reels[r].name
            c == RecordVolume(cat, name, reels[r].epoch)
<1>1. cmd.st = "record" /\ reels' = reels /\ disk' = disk /\ cmd' = NoCommand /\ Persist(c) /\ cat' = c
  BY DEF Register, Persist
<1>2. r \in Reels /\ name \in Names
  <2>1. cmd # NoCommand  BY <1>1, NotIdle
  <2>. QED  BY <2>1, CommandIs
<1>3. reels[r].epoch \in Nat /\ r \in Labeled
  <2>1. ReelsTyped  BY InvGives
  <2>. QED  BY <1>2, <2>1 DEF ReelsTyped, Labeled, CatalogAssumption
<1>4. CatalogTyped(c) /\ c.adv = cat.adv /\ c.placed = cat.placed  BY <1>2, <1>3, InvGives, RecordWell
<1>5. Advertised(c)
  <2>1. Advertised(cat)  BY InvGives
  <2>. HIDE DEF c
  <2>. QED  BY <1>4, <2>1 DEF Advertised, Listed, Held, HeldRuns
<1>6. CatalogInv'
  <2>. HIDE DEF c
  <2>. QED  BY <1>1, <1>4, <1>5, InvGives, PersistStep
<1>7. ASSUME FillInv PROVE FillInv'
  <2>1. Sound(cat)  BY <1>7 DEF FillInv, Sound
  <2>2. name \in DOMAIN cat.vols => \A pa \in cat.placed[Tape] : ~OnLabel(pa, name)
    BY <1>1, <1>7 DEF FillInv, Relabeling
  <2>3. name # "" /\ NoRef[1] = ""  BY <1>2 DEF CatalogAssumption, NoRef
  <2>4. ASSUME name \in DOMAIN cat.vols PROVE Current(cat, {r})
    <3>. SUFFICES ASSUME NEW pa \in cat.placed[Tape], NEW ref \in Mentions(pa), ref[1] = name
                  PROVE  FALSE
      BY DEF Current
    <3>1. ref \in Refs(pa)  BY <2>3 DEF Mentions, Refs
    <3>. QED  BY <2>2, <2>4, <3>1 DEF OnLabel
  <2>5. Sound(c)  BY <1>3, <2>1, <2>4, InvGives, RecordSound
  <2>. HIDE DEF c
  <2>6. Filled(cat)' /\ Known(cat)'  BY <1>1, <2>5, SoundStays
  <2>. QED  BY <1>1, <2>6, IdleRelabels DEF FillInv
<1>. QED  BY <1>6, <1>7

\* Nothing but the command and, with a lost cache, the catalog changes.
LEMMA LosingStep ==
    ASSUME CatalogAssumption, CatalogInv, CommandDies \/ LoseCache
    PROVE  CatalogInv' /\ (FillInv => FillInv')
<1>1. reels' = reels /\ disk' = disk /\ cmd' = NoCommand
  BY DEF CommandDies, LoseCache, Ready
<1>2. ReelsTyped'  BY <1>1 DEF CatalogInv, ReelsTyped, CommitsOn
<1>3. CASE CommandDies
  <2>1. cat' = cat /\ loaded' = loaded /\ ledger' = ledger /\ lag' = lag  BY <1>3 DEF CommandDies
  <2>2. LedgerCatchesUp'  BY <2>1 DEF CatalogInv, LedgerCatchesUp, Totals
  <2>3. CatalogInv'  BY <1>1, <1>2, <2>1, <2>2 DEF CatalogInv
  <2>4. FillInv => FillInv'  BY <1>1, <2>1, SoundStays, IdleRelabels DEF FillInv, Sound
  <2>. QED  BY <2>3, <2>4
<1>4. CASE LoseCache
  <2>1. cat' = Empty /\ loaded' = FALSE /\ lag' = TRUE  BY <1>4 DEF LoseCache
  <2>2. LedgerCatchesUp'  BY <2>1 DEF LedgerCatchesUp
  <2>3. CatalogTyped(Empty) /\ Advertised(Empty)  BY InvGives, EmptyWell
  <2>4. Kept'  BY <2>1, <2>3 DEF Kept
  <2>5. CatalogInv'  BY <1>1, <1>2, <2>2, <2>4, InvGives DEF CatalogInv, Kept
  <2>6. FillInv => Sound(Empty)  BY EmptySound DEF FillInv
  <2>7. FillInv => FillInv'  BY <1>1, <2>1, <2>6, SoundStays, IdleRelabels DEF FillInv
  <2>. QED  BY <2>5, <2>7
<1>. QED  BY <1>3, <1>4

LEMMA StutterStep ==
    ASSUME CatalogInv, UNCHANGED catalogVars
    PROVE  CatalogInv' /\ (FillInv => FillInv')
<1>1. /\ reels' = reels /\ disk' = disk /\ cat' = cat /\ loaded' = loaded /\ ledger' = ledger
      /\ lag' = lag /\ cmd' = cmd
  BY DEF catalogVars
<1>2. ReelsTyped'  BY <1>1 DEF CatalogInv, ReelsTyped, CommitsOn
<1>3. LedgerCatchesUp'  BY <1>1 DEF CatalogInv, LedgerCatchesUp, Totals
<1>4. CatalogInv'  BY <1>1, <1>2, <1>3 DEF CatalogInv
<1>5. Relabeling => Relabeling'  BY <1>1 DEF Relabeling, OnLabel, Refs
<1>6. FillInv => FillInv'  BY <1>1, <1>5, SoundStays DEF FillInv, Sound
<1>. QED  BY <1>4, <1>6

LEMMA CatalogStart ==
    ASSUME CatalogAssumption, CatalogInit
    PROVE  CatalogInv /\ FillInv
<1>1. /\ reels = [r \in Reels |-> [name |-> "", epoch |-> 0, files |-> {}]]
      /\ disk = {} /\ cat = Empty /\ ledger = <<>> /\ cmd = NoCommand /\ loaded = FALSE
  BY DEF CatalogInit, NoFiles
<1>2. CommitsOn(Reels) = {}  BY <1>1 DEF CommitsOn
<1>3. ReelsTyped
  <2>1. \A r \in Reels : IsFiniteSet(reels[r].files) /\ reels[r].name = "" /\ reels[r].epoch = 0
    BY <1>1, FS_EmptySet
  <2>2. reels = [r \in Reels |-> [name |-> reels[r].name, epoch |-> reels[r].epoch,
                                files |-> reels[r].files]]
    BY <1>1
  <2>3. \A r \in Reels : reels[r].name \in Names \cup {""} /\ reels[r].epoch \in Nat
    <3>1. \A x : x = 0 => x \in Nat  OBVIOUS
    <3>2. \A x : x = "" => x \in Names \cup {""}  OBVIOUS
    <3>. QED  BY <2>1, <3>1, <3>2, Zenon
  <2>4. \A r, q \in Reels : reels[r].name = reels[q].name /\ r # q => reels[r].name = ""  BY <2>1
  <2>5. \A f \in CommitsOn(Reels) : FooterTyped(f)  BY <1>2
  <2>. QED  BY <2>1, <2>2, <2>3, <2>4, <2>5 DEF ReelsTyped
<1>4. CatalogTyped(Empty) /\ Advertised(Empty) /\ Filled(Empty) /\ Known(Empty)
  BY <1>2, <1>3, EmptyWell
<1>5. LedgerCatchesUp
  <2>0. DOMAIN (<<>>) = {}  OBVIOUS
  <2>1. DOMAIN ledger = {}  BY <1>1, <2>0
  <2>2. \A m \in Media : cat.placed[m] = {}  BY <1>1 DEF Empty
  <2>. QED  BY <2>1, <2>2 DEF LedgerCatchesUp
<1>6. IsFiniteSet(disk) /\ disk \subseteq Backups  BY <1>1, FS_EmptySet
<1>7. CatalogInv  BY <1>1, <1>3, <1>4, <1>5, <1>6 DEF CatalogInv
<1>8. FillInv  BY <1>1, <1>4 DEF FillInv, Relabeling, NoCommand
<1>. QED  BY <1>7, <1>8

LEMMA CatalogStepKeeps ==
    ASSUME CatalogAssumption, CatalogInv, [CatalogNext]_catalogVars
    PROVE  CatalogInv' /\ (FillInv /\ RelabelsInPlace => FillInv')
<1>1. CASE UNCHANGED catalogVars  BY <1>1, StutterStep
<1>2. CASE \E S \in SUBSET Labeled : EnsureFresh(S) \/ \E full \in BOOLEAN : RebuildFrom(S, full)
  BY <1>2, EnsureFreshStep, RebuildStep
<1>3. CASE \E a \in Backups : \/ \E l \in Layouts : WriteTape(a, l)
                              \/ WriteDisk(a) \/ Prune(a)
  BY <1>3, WriteTapeStep, WriteDiskStep, PruneStep
<1>4. CASE \E r \in Reels, name \in Names : WriteLabel(r, name)  BY <1>4, WriteLabelStep
<1>5. CASE DropPlacement  BY <1>5, DropPlacementStep
<1>6. CASE ForgetVolume  BY <1>6, ForgetVolumeStep
<1>7. CASE Register  BY <1>7, RegisterStep
<1>8. CASE CommandDies \/ LoseCache  BY <1>8, LosingStep
<1>. QED  BY <1>1, <1>2, <1>3, <1>4, <1>5, <1>6, <1>7, <1>8 DEF CatalogNext

LEMMA CatalogHolds == ASSUME CatalogAssumption PROVE CatalogSpec => []CatalogInv
<1>1. CatalogInit => CatalogInv  BY CatalogStart
<1>2. CatalogInv /\ [CatalogNext]_catalogVars => CatalogInv'  BY CatalogStepKeeps
<1>. QED  BY <1>1, <1>2, PTL DEF CatalogSpec

\* What is held is advertised and nothing outlives its last copy, whatever is relabeled, renamed,
\* pruned, lost or rebuilt (catalog.go's withoutEmptyRuns after every removal).
THEOREM CatalogAdvertises == ASSUME CatalogAssumption PROVE CatalogSpec => []HeldIsAdvertised
<1>1. CatalogInv => HeldIsAdvertised
  BY DEF CatalogInv, Advertised, Listed, HeldIsAdvertised
<1>. QED  BY <1>1, CatalogHolds, PTL

\* The ledger's last samples are what the media hold as soon as an append went through again
\* (recordUsage samples every medium it ever sampled).
THEOREM LedgerFollows == ASSUME CatalogAssumption PROVE CatalogSpec => []LedgerCatchesUp
<1>1. CatalogInv => LedgerCatchesUp  BY DEF CatalogInv
<1>. QED  BY <1>1, CatalogHolds, PTL

\* As long as no reel is given a second name, the fill of every volume is its label and what its
\* placements charge to it: epochs count per reel, so they tell a name's lives apart only there.
THEOREM FillStaysCharged ==
    ASSUME CatalogAssumption
    PROVE  CatalogSpec /\ [][RelabelsInPlace]_catalogVars => []FillIsCharged
<1>1. CatalogInit => CatalogInv /\ FillInv  BY CatalogStart
<1>2. (CatalogInv /\ FillInv) /\ [CatalogNext]_catalogVars /\ [RelabelsInPlace]_catalogVars
        => (CatalogInv /\ FillInv)'
  <2>1. CASE UNCHANGED catalogVars  BY <2>1, StutterStep
  <2>2. CASE RelabelsInPlace  BY <2>2, CatalogStepKeeps
  <2>. QED  BY <2>1, <2>2
<1>3. FillInv => FillIsCharged  BY DEF FillInv, Filled, FillIsCharged
<1>. QED  BY <1>1, <1>2, <1>3, PTL DEF CatalogSpec
=============================================================================
