------------------------------- MODULE Chains -------------------------------
(***************************************************************************)
(* The archives of one DLE as metadata: which chain a restore replays, what *)
(* retention keeps of a medium, and in which order reclamation may delete.  *)
(* Pure, as internal/recovery/chain.go, internal/retention/retention.go and *)
(* the size profile of internal/media/profile.go are pure.                  *)
(*                                                                          *)
(* An archive is named by its run, a number in run order; arch maps a run   *)
(* to its level and its recorded base run, 0 for none recorded.             *)
(***************************************************************************)
EXTENDS Integers, FiniteSets

\* The most recent run of S, 0 if there is none.
Newest(S) == IF S = {} THEN 0 ELSE CHOOSE r \in S : \A q \in S : q <= r
Oldest(S) == CHOOSE r \in S : \A q \in S : r <= q

Fulls(arch, S) == {r \in S : arch[r].level = 0}

\* The archive that r's restore builds on among S: the recorded base or nothing; without
\* a record, the most recent dump one level down.  0 for a full and for a broken link.
BaseOf(arch, S, r) ==
  LET older == {q \in S : q < r}
  IN IF arch[r].level = 0 THEN 0
     ELSE IF arch[r].base # 0 THEN Newest(older \cap {arch[r].base})
     ELSE Newest({q \in older : arch[q].level = arch[r].level - 1})

\* What Chain returns for each run of S: the runs a restore replays, {} for its error.
ChainIn(arch, S) ==
  LET chain[r \in S] ==
        LET b == BaseOf(arch, S, r)
        IN IF arch[r].level = 0 THEN {r}
           ELSE IF b = 0 \/ chain[b] = {} THEN {}
           ELSE {r} \cup chain[b]
  IN chain

Restorable(arch, S) == {r \in S : ChainIn(arch, S)[r] # {}}
Stranded(arch, S) == S \ Restorable(arch, S)
-----------------------------------------------------------------------------
(* Compute: the floor of a medium that holds on, of a catalog that holds   *)
(* all; young is what is within the medium's minimum age.                  *)

Condemned(arch, on, all, young) == (on \cap Stranded(arch, all)) \ young

LastFull(arch, on) == {Newest(Fulls(arch, on))} \cap on

\* The chain pins of one anchor: everything since the last full at or before it.
Pins(arch, on, a) ==
  LET full == Newest(Fulls(arch, {r \in on : r <= a}))
  IN IF full = 0 THEN {} ELSE {r \in on : full <= r /\ r <= a}

\* The latest run and every young one, unless no restore can use it.
Anchors(arch, on, all, young) ==
  (on \cap ({Newest(on)} \cup young)) \ Stranded(arch, all)

KeptLastFullOnly(arch, on, all, young) ==      \* a mutant
  ((on \cap young) \cup LastFull(arch, on)) \ Condemned(arch, on, all, young)
KeptYoungOnly(arch, on, all, young) ==         \* a mutant
  (on \cap young) \ Condemned(arch, on, all, young)
Kept(arch, on, all, young) ==
  ((on \cap young) \cup LastFull(arch, on)
     \cup UNION {Pins(arch, on, a) : a \in Anchors(arch, on, all, young)})
  \ Condemned(arch, on, all, young)
-----------------------------------------------------------------------------
(* Reclaim: of what a medium still holds (present, of on at the start), an *)
(* archive may go once nothing present builds on it; oldest first.         *)

FreeAnyOrder(arch, on, present) == present
Free(arch, on, present) ==
  {r \in present : \A d \in present : BaseOf(arch, on, d) # r}

\* The next deletion: the condemned first, whatever the target.
NextCondemned(arch, on, present, condemned) ==
  LET S == Free(arch, on, present) \cap condemned
  IN IF S = {} THEN {} ELSE {Oldest(S)}

NextUnkept(arch, on, present, kept) ==
  LET S == Free(arch, on, present) \ kept
  IN IF S = {} THEN {} ELSE {Oldest(S)}
=============================================================================
