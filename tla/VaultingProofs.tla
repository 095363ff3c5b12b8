--------------------------- MODULE VaultingProofs ---------------------------
(***************************************************************************)
(* For any DLEs, media, routes, rules, capacities and ages:                *)
(*                                                                         *)
(* AdvertisedHolds: the catalog's runs advertise exactly the archives some *)
(* medium holds.  The two are kept by different code, adv by AddRun and    *)
(* dropArchive an archive at a time, placed by each medium's placements.   *)
(*                                                                         *)
(* CoverageIsAlwaysTold: what the coverage says a medium is owed is what   *)
(* its sync would carry, and the audit's diagnoses are true of the copies. *)
(* Both are computed from the same state by different code: it is that     *)
(* an advertised archive is held somewhere that makes them agree.          *)
(*                                                                         *)
(* PlansAreKept: a copy or sync from one source, or to an unbounded        *)
(* target, that ends without an error has delivered its plan               *)
(* (PlansAreDelivered), and no copy takes a medium over its capacity       *)
(* (CopiesAlwaysFit).  Delivery says where what is planned still is at     *)
(* each of the command's steps; Room, that what is about to be copied      *)
(* fits, which rests on what ReclaimPlan yields: a recursive function,     *)
(* unfolded by the smallest set of archives on which its equation would    *)
(* not hold (PlansExist).                                                  *)
(*                                                                         *)
(* PrunesSpareOwed: a prune takes nothing that is owed and can be          *)
(* replayed, where the latest run of a medium anchors what is before it.   *)
(***************************************************************************)
EXTENDS Vaulting, FiniteSetTheorems, WellFoundedInduction, TLAPS

\* Every command in progress has a target among the configured media.
HasTarget == Busy => "to" \in DOMAIN cmd /\ cmd.to \in Media

IInv ==
    /\ DOMAIN placed = Media
    /\ placed = [m \in Media |-> placed[m]]
    /\ HasTarget
    /\ AdvertisedIsHeld

-----------------------------------------------------------------------------
\* Two updates of the catalog, whoever makes them.

\* RemoveArchive on one medium (prune, make-room, a forced copy's reclaim): the
\* runs stop advertising what no other copy and no remaining one backs.
LEMMA RemovalKeeps ==
    ASSUME NEW m \in Media, NEW S,
           DOMAIN placed = Media, AdvertisedIsHeld, RemoveArchives(m, S)
    PROVE  /\ DOMAIN placed' = Media
           /\ placed' = [x \in Media |-> placed'[x]]
           /\ AdvertisedIsHeld'
<1>1. /\ placed'[m] = placed[m] \ S
      /\ \A x \in Media \ {m} : placed'[x] = placed[x]
      /\ DOMAIN placed' = Media
      /\ placed' = [x \in Media |-> placed'[x]]
    BY DEF RemoveArchives
<1>2. UNION {placed'[x] : x \in Media} = StillHeld(m, S)
    BY <1>1 DEF StillHeld
<1>3. StillHeld(m, S) \subseteq adv
    BY DEF StillHeld, AdvertisedIsHeld
<1>4. adv' = StillHeld(m, S)
    BY <1>3 DEF RemoveArchives
<1> QED
    BY <1>1, <1>2, <1>4 DEF AdvertisedIsHeld

\* A command's steps keep its target.
LEMMA TargetKept ==
    ASSUME HasTarget, Busy,
           \/ cmd' = Idle
           \/ DOMAIN cmd' = DOMAIN cmd /\ cmd'.to = cmd.to
    PROVE  HasTarget'
    BY DEF HasTarget, Busy, Idle

\* What a step leaves alone of both stays related.
LEMMA CatalogUnchanged ==
    ASSUME DOMAIN placed = Media, placed = [m \in Media |-> placed[m]],
           AdvertisedIsHeld, UNCHANGED <<adv, placed>>
    PROVE  /\ DOMAIN placed' = Media
           /\ placed' = [m \in Media |-> placed'[m]]
           /\ AdvertisedIsHeld'
    BY DEF AdvertisedIsHeld

-----------------------------------------------------------------------------
\* The empty catalog.
LEMMA InitHolds == Init => IInv
<1> SUFFICES ASSUME Init PROVE IInv
    OBVIOUS
<1>1. \A m \in Media : placed[m] = {}
    BY DEF Init
<1> QED
    BY <1>1 DEF Init, IInv, HasTarget, Busy, AdvertisedIsHeld

\* A dump advertises what it landed, on the media of the route it landed on.
LEMMA DumpKeeps ==
    ASSUME IInv, NEW fulls \in SUBSET DLEs, NEW lost \in SUBSET Media, Dump(fulls, lost)
    PROVE  IInv'
<1> DEFINE r == last + 1
           landed == {d \in DLEs : Routes[d] \ lost # {}}
           new == {<<r, d>> : d \in landed}
           here(m) == {a \in new : m \in Routes[a[2]] \ lost}
<1>1. /\ adv' = adv \cup new
      /\ placed' = [m \in Media |-> placed[m] \cup here(m)]
      /\ ~Busy /\ UNCHANGED cmd
    BY DEF Dump
<1>2. \A m \in Media : placed'[m] = placed[m] \cup here(m)
    BY <1>1
<1>3. UNION {here(m) : m \in Media} = new
  <2>1. ASSUME NEW a \in new
        PROVE  \E m \in Media : a \in here(m)
    <3>1. PICK d \in landed : a = <<r, d>>
        OBVIOUS
    <3>2. PICK m \in Routes[d] \ lost : TRUE
        OBVIOUS
    <3>3. m \in Media /\ a[2] = d
        BY <3>1, <3>2, VaultingAssumption
    <3> QED
        BY <3>2, <3>3
  <2> QED
    BY <2>1
<1>4. UNION {placed'[m] : m \in Media} = (UNION {placed[m] : m \in Media}) \cup new
    <2> HIDE DEF here, new, landed, r
    <2> QED BY <1>2, <1>3
<1>5. AdvertisedIsHeld'
    <2> HIDE DEF here, new, landed, r
    <2> QED BY <1>1, <1>4 DEF AdvertisedIsHeld, IInv
<1>6. HasTarget'
    BY <1>1 DEF HasTarget, Busy
<1>7. DOMAIN placed' = Media /\ placed' = [m \in Media |-> placed'[m]]
    BY <1>1, <1>2
<1> QED
    BY <1>5, <1>6, <1>7 DEF IInv

\* A prune, interrupted anywhere.
LEMMA PruneKeeps ==
    ASSUME IInv, NEW m \in Media, Prune(m)
    PROVE  IInv'
<1>1. PICK S : RemoveArchives(m, S)
    BY DEF Prune
<1>2. HasTarget'
    BY DEF Prune, IInv, HasTarget, Busy
<1> QED
    BY <1>1, <1>2, RemovalKeeps DEF IInv

\* A copy and a sync begin with a medium as their target.
LEMMA StartKeeps ==
    ASSUME IInv, NEW to \in Media, NEW force, NEW todo, Start(to, force, todo)
    PROVE  IInv'
<1>1. "to" \in DOMAIN cmd' /\ cmd'.to = to
    BY DEF Start
<1>2. HasTarget'
    BY <1>1 DEF HasTarget
<1>3. UNCHANGED <<adv, placed>>
    BY DEF Start
<1> QED
    BY <1>2, <1>3, CatalogUnchanged DEF IInv

\* Taking up the next source touches no placement.
LEMMA NextSourceKeeps == ASSUME IInv, NextSource PROVE IInv'
<1>1. DOMAIN cmd' = DOMAIN cmd /\ cmd'.to = cmd.to
    BY DEF NextSource, IInv, HasTarget
<1>2. HasTarget' /\ UNCHANGED <<adv, placed>>
    BY <1>1, TargetKept DEF NextSource, IInv
<1> QED
    BY <1>2, CatalogUnchanged DEF IInv

\* A forced copy's reclaim of its target.
LEMMA ReclaimCopyKeeps == ASSUME IInv, ReclaimCopy PROVE IInv'
<1>2. HasTarget'
    BY DEF ReclaimCopy, IInv, HasTarget, Busy
<1>3. PICK S : RemoveArchives(cmd.to, S)
    BY DEF ReclaimCopy
<1>4. cmd.to \in Media
    BY DEF ReclaimCopy, IInv, HasTarget
<1> QED
    BY <1>2, <1>3, <1>4, RemovalKeeps DEF IInv

\* Room made, or found, or refused.
LEMMA MakeRoomKeeps == ASSUME IInv, MakeRoom PROVE IInv'
<1> DEFINE n == Cardinality(cmd.jobs)
           plan == ReclaimPlan(cmd.to, Capacity[cmd.to] - n)
<1>1. DOMAIN cmd' = DOMAIN cmd /\ cmd'.to = cmd.to
    BY DEF MakeRoom, IInv, HasTarget
<1>2. HasTarget'
    BY <1>1, TargetKept DEF MakeRoom, IInv
<1>3. CASE UNCHANGED <<adv, placed>>
    BY <1>2, <1>3, CatalogUnchanged DEF IInv
<1>4. CASE RemoveArchives(cmd.to, Prefix(plan, Len(plan)))
  <2>1. cmd.to \in Media
    BY DEF MakeRoom, IInv, HasTarget
  <2> QED
    BY <1>2, <1>4, <2>1, RemovalKeeps DEF IInv
<1> QED
    BY <1>3, <1>4 DEF MakeRoom

\* A landed copy is placed on the target and advertised in one step.
LEMMA CopyOneKeeps == ASSUME IInv, NEW a \in Archives, CopyOne(a) PROVE IInv'
<1>1. DOMAIN cmd' = DOMAIN cmd /\ cmd'.to = cmd.to
    BY DEF CopyOne, IInv, HasTarget
<1>2. HasTarget'
    BY <1>1, TargetKept DEF CopyOne, IInv
<1>3. cmd.to \in Media
    BY DEF CopyOne, IInv, HasTarget
<1>4. /\ placed'[cmd.to] = placed[cmd.to] \cup {a}
      /\ \A m \in Media \ {cmd.to} : placed'[m] = placed[m]
      /\ DOMAIN placed' = Media
      /\ placed' = [m \in Media |-> placed'[m]]
    BY <1>3 DEF CopyOne, IInv
<1>5. UNION {placed'[m] : m \in Media} = (UNION {placed[m] : m \in Media}) \cup {a}
    BY <1>3, <1>4
<1> QED
    BY <1>2, <1>4, <1>5 DEF CopyOne, IInv, AdvertisedIsHeld

\* A failed copy lands nothing.
LEMMA CopyFailsKeeps == ASSUME IInv, NEW a \in Archives, CopyFails(a) PROVE IInv'
<1>1. DOMAIN cmd' = DOMAIN cmd /\ cmd'.to = cmd.to
    BY DEF CopyFails, IInv, HasTarget
<1>2. HasTarget' /\ UNCHANGED <<adv, placed>>
    BY <1>1, TargetKept DEF CopyFails, IInv
<1> QED
    BY <1>2, CatalogUnchanged DEF IInv

\* The end of a medium's copies, of the command, and its death.
LEMMA EndingsKeep ==
    ASSUME IInv, CopiesDone \/ ReclaimDone \/ ReclaimFails \/ Finish \/ Crash
    PROVE  IInv'
<1>1. UNCHANGED <<adv, placed>>
    BY DEF CopiesDone, ReclaimDone, ReclaimFails, Finish, Crash
<1>2. HasTarget'
  <2>1. CASE CopiesDone \/ ReclaimDone \/ ReclaimFails
    <3>1. DOMAIN cmd' = DOMAIN cmd /\ cmd'.to = cmd.to
        BY <2>1 DEF CopiesDone, ReclaimDone, ReclaimFails, IInv, HasTarget
    <3> QED
        BY <2>1, <3>1, TargetKept DEF CopiesDone, ReclaimDone, ReclaimFails, IInv
  <2>2. CASE Finish \/ Crash
    BY <2>2, TargetKept DEF Finish, Crash, IInv
  <2> QED
    BY <2>1, <2>2
<1> QED
    BY <1>1, <1>2, CatalogUnchanged DEF IInv

\* Every step keeps the catalog and the media agreed.
LEMMA StepKeeps == IInv /\ [Next]_vars => IInv'
<1> SUFFICES ASSUME IInv, [Next]_vars PROVE IInv'
    OBVIOUS
<1>1. ASSUME NEW fulls \in SUBSET DLEs, NEW lost \in SUBSET Media, Dump(fulls, lost)
      PROVE  IInv'
    BY <1>1, DumpKeeps
<1>2. ASSUME NEW m \in Media, Prune(m)
      PROVE  IInv'
    BY <1>2, PruneKeeps
<1>3. ASSUME NEW r, NEW from \in Media, NEW to \in Media, NEW force \in BOOLEAN,
             StartCopy(r, from, to, force)
      PROVE  IInv'
    BY <1>3, StartKeeps DEF StartCopy
<1>4. ASSUME NEW from, NEW to \in Media, NEW n, NEW runs, StartSync(from, to, n, runs)
      PROVE  IInv'
    BY <1>4, StartKeeps DEF StartSync
<1>5. ASSUME NEW rule \in Rules
      PROVE  rule.to \in Media
    BY VaultingAssumption
<1>6. ASSUME NEW a \in Archives, CopyOne(a) \/ CopyFails(a)
      PROVE  IInv'
    BY <1>6, CopyOneKeeps, CopyFailsKeeps
<1>7. CASE NextSource
    BY <1>7, NextSourceKeeps
<1>8. CASE ReclaimCopy
    BY <1>8, ReclaimCopyKeeps
<1>9. CASE MakeRoom
    BY <1>9, MakeRoomKeeps
<1>10. CASE CopiesDone \/ ReclaimDone \/ ReclaimFails \/ Finish \/ Crash
    BY <1>10, EndingsKeep
<1>11. CASE UNCHANGED vars
  <2>1. HasTarget' /\ UNCHANGED <<adv, placed>>
    BY <1>11 DEF vars, IInv, HasTarget, Busy
  <2> QED
    BY <2>1, CatalogUnchanged DEF IInv
<1> QED
    BY <1>1, <1>2, <1>3, <1>4, <1>5, <1>6, <1>7, <1>8, <1>9, <1>10, <1>11 DEF Next

\* The catalog's runs advertise exactly the archives some medium holds, through
\* dumps that lose landings, prunes cut short anywhere, copies, syncs, forced
\* re-copies, failures and deaths (catalog.go's AddPlacement and RemoveArchive).
THEOREM AdvertisedHolds == Spec => []AdvertisedIsHeld
<1>1. Init => IInv
    BY InitHolds
<1>2. IInv /\ [Next]_vars => IInv'
    BY StepKeeps
<1>3. IInv => AdvertisedIsHeld
    BY DEF IInv
<1> QED
    BY <1>1, <1>2, <1>3, PTL DEF Spec
-----------------------------------------------------------------------------
\* The backlog: what a sync finds to carry.

Below == {r \in Nat \X Nat : r[1] < r[2]}

\* A set of numbers that is not empty has a least.
LEMMA Least ==
    ASSUME NEW S \in SUBSET Nat, S # {}
    PROVE  \E m \in S : \A k \in S : m <= k
<1>1. IsWellFoundedOn(Below, Nat)
    BY NatLessThanWellFounded DEF Below, OpToRel
<1>2. PICK m \in S : \A k \in S : <<k, m>> \notin Below
    BY <1>1, WFMin
<1>3. ASSUME NEW k \in S PROVE m <= k
  <2>1. ~(k < m) /\ k \in Nat /\ m \in Nat
      BY <1>2 DEF Below
  <2> QED
      BY <2>1
<1> QED
    BY <1>3

\* The source of a sync holds all the run is missing.
LEMMA SourceHolds ==
    ASSUME NEW r, NEW to, NEW bounded, AutoOwed(r, to, bounded) \ placed[to] # {},
           SourceFor(r, to, FALSE, bounded) # "unsourced"
    PROVE  /\ SourceFor(r, to, FALSE, bounded) \in Media
           /\ AutoOwed(r, to, bounded) \ placed[to] \subseteq placed[SourceFor(r, to, FALSE, bounded)]
<1> SUFFICES ASSUME NEW missing, missing = AutoOwed(r, to, bounded) \ placed[to],
                    NEW src, src = SourceFor(r, to, FALSE, bounded)
             PROVE  src \in Media /\ missing \subseteq placed[src]
    OBVIOUS
<1> DEFINE ms == Holding(missing, to)
           I == {i \in DOMAIN MediaOrder : MediaOrder[i] \in ms}
<1>1. ms \subseteq Media /\ \A m \in ms : missing \subseteq placed[m]
    BY DEF Holding
<1>2. src = IF Landing \in ms THEN Landing ELSE IF ms = {} THEN "unsourced"
            ELSE MediaOrder[Oldest(I)]
  <2>1. AutoOwed(r, to, bounded) \ (IF FALSE THEN {} ELSE placed[to]) = missing
      OBVIOUS
  <2> QED
      BY <2>1 DEF SourceFor
<1>3. CASE Landing \in ms
    BY <1>1, <1>2, <1>3
<1>4. CASE Landing \notin ms
  <2>1. ms # {} /\ src = MediaOrder[Oldest(I)]
      BY <1>2, <1>4
  <2>2. I \subseteq Nat /\ I # {}
    <3>1. PICK m \in ms : TRUE
        BY <2>1
    <3>2. PICK i \in DOMAIN MediaOrder : MediaOrder[i] = m
        BY <1>1, <3>1, VaultingAssumption
    <3>3. DOMAIN MediaOrder \subseteq Nat
        BY VaultingAssumption
    <3> QED
        BY <3>1, <3>2, <3>3
  <2>3. Oldest(I) \in I
    <3> HIDE DEF I
    <3> QED
        BY <2>2, Least DEF Oldest
  <2> QED
      BY <1>1, <2>1, <2>3
<1> QED
    BY <1>3, <1>4

\* The archives a sync without named runs would carry, and one run's part of them.
Backlogged(from, m, n) == {p[2] : p \in Backlog(from, m, n, {}, FALSE)}
Part(from, r, m) == Carried(from, r, m, {}, FALSE)
Finds(from, r, m) == SourceOf(from, r, m, {}, FALSE)
AllSourced(from, m, n) == Sourced(from, m, n, {}, FALSE)

\* A pair of the backlog is of one chosen run and its source.
LEMMA InBacklog ==
    ASSUME NEW from, NEW m, NEW n, NEW p
    PROVE  p \in Backlog(from, m, n, {}, FALSE) <=>
             \E r \in Chosen(from, n, {}) :
               /\ Finds(from, r, m) \in Media
               /\ p \in {Finds(from, r, m)} \X Part(from, r, m)
    BY DEF Backlog, Finds, Part

\* An archive of the backlog, by its run.
LEMMA InBacklogged ==
    ASSUME NEW from, NEW m, NEW n, NEW a
    PROVE  a \in Backlogged(from, m, n) <=>
             \E r \in Chosen(from, n, {}) : Finds(from, r, m) \in Media /\ a \in Part(from, r, m)
<1>1. ASSUME NEW src, NEW C, NEW q \in {src} \X C PROVE q[2] \in C
    OBVIOUS
<1>2. ASSUME NEW src, NEW C, a \in C PROVE \E q \in {src} \X C : q[2] = a
  <2>1. <<src, a>> \in {src} \X C /\ <<src, a>>[2] = a
      BY <1>2
  <2> QED
      BY <2>1
<1>3. ASSUME NEW q \in Backlog(from, m, n, {}, FALSE), q[2] = a
      PROVE  \E r \in Chosen(from, n, {}) : Finds(from, r, m) \in Media /\ a \in Part(from, r, m)
    BY <1>1, <1>3, InBacklog, Zenon
<1>4. ASSUME NEW r \in Chosen(from, n, {}), Finds(from, r, m) \in Media, a \in Part(from, r, m)
      PROVE  \E q \in Backlog(from, m, n, {}, FALSE) : q[2] = a
  <2>1. PICK q \in {Finds(from, r, m)} \X Part(from, r, m) : q[2] = a
      BY <1>2, <1>4, Zenon
  <2>2. q \in Backlog(from, m, n, {}, FALSE)
      BY <1>4, <2>1, InBacklog, Zenon
  <2> QED
      BY <2>1, <2>2, Zenon
<1> QED
    BY <1>3, <1>4, Zenon DEF Backlogged

\* An automatic sync takes from the one source that holds all the run lacks.
LEMMA AutoPart ==
    ASSUME NEW r, NEW m
    PROVE  /\ Finds(AutoSource, r, m) = SourceFor(r, m, FALSE, TRUE)
           /\ \A a : a \in Part(AutoSource, r, m) <=>
                    /\ a \in AutoOwed(r, m, TRUE)
                    /\ a \in placed[Finds(AutoSource, r, m)] /\ a \notin placed[m]
<1>1. Finds(AutoSource, r, m) = SourceFor(r, m, FALSE, TRUE)
    BY DEF Finds, SourceOf, Bounded
<1>2. \A a : a \in AutoOwed(r, m, TRUE) => a[1] = r
    BY DEF AutoOwed
<1> QED
    BY <1>1, <1>2 DEF Part, Carried, Finds, Bounded, WantArchives, Missing, Held

\* What an automatic sync owes of a run: the archives in scope that have not aged out.
LEMMA AutoOwes ==
    ASSUME NEW r, NEW m, NEW a
    PROVE  a \in AutoOwed(r, m, TRUE) <=>
             a \in adv /\ a[1] = r /\ a[2] \in Scope(m) /\ OwesTo(m, a)
    BY DEF AutoOwed

\* What an automatic sync carries is owed and not there yet.
LEMMA AutoBacklogOwed ==
    ASSUME NEW m, NEW n, NEW a \in Backlogged(AutoSource, m, n)
    PROVE  /\ a \in adv /\ a \notin placed[m]
           /\ a[2] \in Scope(m) /\ OwesTo(m, a)
           /\ a[1] \in Chosen(AutoSource, n, {})
<1>1. PICK r \in Chosen(AutoSource, n, {}) : a \in Part(AutoSource, r, m)
    BY InBacklogged
<1>2. a \in AutoOwed(r, m, TRUE) /\ a \notin placed[m]
    BY <1>1, AutoPart, Zenon
<1> QED
    BY <1>1, <1>2, AutoOwes, Zenon

\* And all of it, if every run has a source.
LEMMA AutoBacklogHas ==
    ASSUME NEW m, NEW n, AllSourced(AutoSource, m, n),
           NEW a \in adv, a \notin placed[m], a[2] \in Scope(m), OwesTo(m, a),
           a[1] \in Chosen(AutoSource, n, {})
    PROVE  a \in Backlogged(AutoSource, m, n)
<1>1. PICK r \in Chosen(AutoSource, n, {}) : r = a[1]
    BY Zenon
<1>2. a \in AutoOwed(r, m, TRUE) \ placed[m] /\ a \in AutoOwed(r, m, TRUE)
  <2>1. a \in AutoOwed(r, m, TRUE)
      BY <1>1, AutoOwes, Zenon
  <2> QED
      BY <2>1, Zenon
<1>3. Finds(AutoSource, r, m) = SourceFor(r, m, FALSE, TRUE)
    BY AutoPart, Zenon
<1>4. SourceFor(r, m, FALSE, TRUE) # "unsourced"
    BY DEF AllSourced, Sourced, Bounded
<1>5. Finds(AutoSource, r, m) \in Media /\ a \in placed[Finds(AutoSource, r, m)]
  <2>1. AutoOwed(r, m, TRUE) \ placed[m] # {}
      BY <1>2, Zenon
  <2>2. /\ SourceFor(r, m, FALSE, TRUE) \in Media
        /\ AutoOwed(r, m, TRUE) \ placed[m] \subseteq placed[SourceFor(r, m, FALSE, TRUE)]
      BY <1>4, <2>1, SourceHolds, Zenon
  <2> QED
      BY <1>2, <1>3, <2>2, Zenon
<1>6. a \in Part(AutoSource, r, m)
    BY <1>2, <1>5, AutoPart, Zenon
<1> QED
    BY <1>5, <1>6, InBacklogged

\* A sync from a medium carries what the chosen runs have there and the target lacks.
LEMMA NamedBacklog ==
    ASSUME NEW from \in Media, NEW m, NEW n, NEW a
    PROVE  a \in Backlogged(from, m, n) <=>
             a \in placed[from] \ placed[m] /\ a[1] \in Chosen(from, n, {})
<1>1. from # AutoSource
    BY VaultingAssumption
<1>2. \A r : /\ Finds(from, r, m) = from
             /\ a \in Part(from, r, m) <=> a \in placed[from] \ placed[m] /\ a[1] = r
    BY <1>1 DEF Finds, Part, SourceOf, Carried, WantArchives, Missing, Held
<1> QED
    BY <1>2, InBacklogged

\* Without a bound every candidate is chosen.
LEMMA ChosenAll ==
    ASSUME NEW from PROVE Chosen(from, 0, {}) = Candidates(from)
    BY DEF Chosen, Select

-----------------------------------------------------------------------------
\* What is told of the copies.

RuleFacts == \A rule \in Rules : /\ rule.to \in Media /\ rule.last \in Nat
                                 /\ rule.from \in Media \/ rule.from = AutoSource

\* An archive the medium is judged to lack is one a route or a rule owes it.
LEMMA GapIsOwed ==
    ASSUME NEW m \in Media, NEW a \in Gap(m)
    PROVE  /\ a \in adv /\ a \notin placed[m]
           /\ \/ m \in Routes[a[2]] /\ OwesTo(m, a)
              \/ \E rule \in Rules : rule.to = m /\ Promises(rule, a)
    BY DEF Gap, Class

\* What a medium is owed and lacks is its gap.
LEMMA OwedIsGap ==
    ASSUME NEW m \in Media, NEW a \in adv, a \notin placed[m],
           \/ m \in Routes[a[2]] /\ OwesTo(m, a)
           \/ \E rule \in Rules : rule.to = m /\ Promises(rule, a)
    PROVE  a \in Gap(m)
    BY DEF Gap, Class

\* A landing is owed the archives of the DLEs it is a route of.
LEMMA ScopeOfLanding ==
    ASSUME NEW m, NEW d \in DLEs
    PROVE  /\ IsLanding(m) => (d \in Scope(m) <=> m \in Routes[d])
           /\ ~IsLanding(m) => d \in Scope(m) /\ m \notin Routes[d]
    BY DEF Scope, IsLanding

\* The catalog's archives are of the configured DLEs.
OfDLEs == adv \subseteq Nat \X DLEs

\* A medium's gap is what its rules would carry to it, archive by archive.
LEMMA BacklogTold == OfDLEs /\ AdvertisedIsHeld => BacklogIsCoverage
<1> SUFFICES ASSUME OfDLEs, AdvertisedIsHeld, NEW m \in Media,
                    NEW rules, rules = {rule \in Rules : rule.to = m /\ rule.from # m},
                    IsLanding(m) => \E rule \in rules : rule.from = AutoSource /\ rule.last = 0,
                    \A rule \in rules : AllSourced(rule.from, m, rule.last)
             PROVE  Gap(m) = UNION {Backlogged(rule.from, m, rule.last) : rule \in rules}
    BY DEF BacklogIsCoverage, AllSourced, Backlogged
<1>1. RuleFacts
    BY VaultingAssumption DEF RuleFacts
<1>2. ASSUME NEW rule \in rules, NEW a \in Backlogged(rule.from, m, rule.last)
      PROVE  a \in Gap(m)
  <2>1. CASE rule.from = AutoSource
    <3>1. /\ a \in adv /\ a \notin placed[m]
          /\ a[2] \in Scope(m) /\ OwesTo(m, a)
          /\ a[1] \in Chosen(AutoSource, rule.last, {})
        BY <1>2, <2>1, AutoBacklogOwed
    <3>2. a[2] \in DLEs
        BY <3>1 DEF OfDLEs
    <3>3. CASE IsLanding(m)
        BY <3>1, <3>2, <3>3, ScopeOfLanding, OwedIsGap
    <3>4. CASE ~IsLanding(m)
      <4>1. rule.last = 0 \/ a[1] \in Select(Candidates(rule.from), rule.last)
          BY <2>1, <3>1 DEF Chosen
      <4>2. Promises(rule, a)
          BY <2>1, <3>1, <3>4, <4>1 DEF Promises, RuleSelects
      <4> QED
          BY <3>1, <4>2, OwedIsGap
    <3> QED
        BY <3>3, <3>4
  <2>2. CASE rule.from \in Media
    <3>1. a \in placed[rule.from] \ placed[m] /\ a[1] \in Chosen(rule.from, rule.last, {})
        BY <1>2, <2>2, NamedBacklog
    <3>2. rule.from # AutoSource
        BY <2>2, VaultingAssumption
    <3>3. Promises(rule, a)
        BY <3>1, <3>2 DEF Promises, RuleSelects, Chosen
    <3>4. a \in adv
        BY <2>2, <3>1 DEF AdvertisedIsHeld
    <3> QED
        BY <3>1, <3>3, <3>4, OwedIsGap
  <2> QED
      BY <1>1, <2>1, <2>2 DEF RuleFacts
<1>3. ASSUME NEW a \in Gap(m)
      PROVE  \E rule \in rules : a \in Backlogged(rule.from, m, rule.last)
  <2>1. /\ a \in adv /\ a \notin placed[m] /\ a[2] \in DLEs
        /\ \/ m \in Routes[a[2]] /\ OwesTo(m, a)
           \/ \E rule \in Rules : rule.to = m /\ Promises(rule, a)
      BY GapIsOwed DEF OfDLEs
  <2>2. CASE m \in Routes[a[2]] /\ OwesTo(m, a)
    <3>1. IsLanding(m)
        BY <2>1, <2>2 DEF IsLanding
    <3>2. PICK rule \in rules : rule.from = AutoSource /\ rule.last = 0
        BY <3>1
    <3>3. a[1] \in Chosen(AutoSource, 0, {})
        BY <2>1, ChosenAll DEF Candidates, RunsOf
    <3>4. a[2] \in Scope(m)
        BY <2>1, <2>2, <3>1, ScopeOfLanding
    <3>5. a \in Backlogged(AutoSource, m, 0)
      <4>1. AllSourced(AutoSource, m, 0)
          BY <3>2
      <4> QED
          BY <2>1, <2>2, <3>3, <3>4, <4>1, AutoBacklogHas, Zenon
    <3> QED
        BY <3>2, <3>5
  <2>3. CASE \E rule \in Rules : rule.to = m /\ Promises(rule, a)
    <3>1. PICK rule \in Rules : rule.to = m /\ Promises(rule, a)
        BY <2>3
    <3>2. rule \in rules /\ RuleSelects(rule, a[1])
        BY <3>1 DEF Promises
    <3>3. CASE rule.from = AutoSource
      <4>1. ~IsLanding(m) /\ OwesTo(m, a)
          BY <3>1, <3>3 DEF Promises
      <4>2. a[1] \in Chosen(AutoSource, rule.last, {})
        <5>1. a[1] \in Candidates(AutoSource)
            BY <2>1 DEF Candidates, RunsOf
        <5> QED
            BY <3>2, <3>3, <5>1 DEF RuleSelects, Chosen, Select
      <4>3. a[2] \in Scope(m)
          BY <2>1, <4>1, ScopeOfLanding
      <4>4. a \in Backlogged(AutoSource, m, rule.last)
        <5>1. AllSourced(AutoSource, m, rule.last)
            BY <3>2, <3>3
        <5> QED
            BY <2>1, <4>1, <4>2, <4>3, <5>1, AutoBacklogHas, Zenon
      <4> QED
          BY <3>2, <3>3, <4>4
    <3>4. CASE rule.from \in Media
      <4>1. rule.from # AutoSource
          BY <3>4, VaultingAssumption
      <4>2. a \in placed[rule.from] \ placed[m]
          BY <2>1, <3>1, <4>1 DEF Promises
      <4>3. a[1] \in Chosen(rule.from, rule.last, {})
          BY <3>2, <4>1, <4>2 DEF RuleSelects, Chosen, Select, Candidates, RunsOf
      <4> QED
          BY <3>2, <3>4, <4>2, <4>3, NamedBacklog
    <3> QED
        BY <1>1, <3>3, <3>4 DEF RuleFacts
  <2> QED
      BY <2>1, <2>2, <2>3
<1> QED
    BY <1>2, <1>3

\* An archive short of copies is held somewhere; a routed copy it lacks is in the backlog
\* of that medium; and one that nothing is said to backfill is not in a live chain.
LEMMA CopiesTold == OfDLEs /\ AdvertisedIsHeld => CopiesAreTold
<1> SUFFICES ASSUME OfDLEs, AdvertisedIsHeld PROVE CopiesAreTold
    OBVIOUS
<1>1. \A S \in SUBSET Media : IsFiniteSet(S) /\ Cardinality(S) \in Nat
    BY VaultingAssumption, FS_Subset, FS_CardinalityType
<1>2. ASSUME NEW a \in Short
      PROVE  CopiesOf(a) # 0
  <2>1. a \in adv
      BY DEF Short
  <2>2. PICK m \in Media : a \in placed[m]
      BY <2>1 DEF AdvertisedIsHeld
  <2>3. {x \in Media : a \in placed[x]} # {}
      BY <2>2
  <2> QED
      BY <1>1, <2>3, FS_EmptySet DEF CopiesOf
<1>3. ASSUME NEW a \in Short, NEW m \in MissingRouted(a), AllSourced(AutoSource, m, 0)
      PROVE  a \in Backlogged(AutoSource, m, 0)
  <2>1. a \in adv /\ a[2] \in DLEs
      BY DEF Short, OfDLEs
  <2>2. m \in Media /\ m \in Routes[a[2]] /\ OwesTo(m, a) /\ a \notin placed[m]
      BY DEF MissingRouted, Class
  <2>3. a[2] \in Scope(m)
      BY <2>1, <2>2, ScopeOfLanding DEF IsLanding
  <2>4. a[1] \in Chosen(AutoSource, 0, {})
      BY <2>1, ChosenAll DEF Candidates, RunsOf
  <2> QED
      BY <1>3, <2>1, <2>2, <2>3, <2>4, AutoBacklogHas, Zenon
<1>4. ASSUME NEW a \in Short, a[1] >= LastFullRun(a[2])
      PROVE  Diagnosis(a) # "aged"
  <2>1. SUFFICES ASSUME MissingRouted(a) = {} PROVE Cardinality(RoutedMedia(a)) < 2 /\ ~AgedGap(a)
      BY DEF Diagnosis
  <2>2. Cardinality(RoutedMedia(a)) < 2
    <3>1. RoutedMedia(a) \subseteq {m \in Media : a \in placed[m]}
        BY <2>1 DEF RoutedMedia, MissingRouted
    <3>2. Cardinality(RoutedMedia(a)) <= CopiesOf(a)
      <4>1. ASSUME NEW S, S = {m \in Media : a \in placed[m]}
            PROVE  Cardinality(RoutedMedia(a)) <= Cardinality(S)
          BY <1>1, <3>1, <4>1, FS_Subset
      <4> QED
          BY <4>1 DEF CopiesOf
    <3>3. RoutedMedia(a) \in SUBSET Media /\ {m \in Media : a \in placed[m]} \in SUBSET Media
        BY DEF RoutedMedia
    <3>4. Cardinality(RoutedMedia(a)) \in Nat /\ CopiesOf(a) \in Nat
        BY <1>1, <3>3 DEF CopiesOf
    <3> QED
        BY <3>2, <3>4 DEF Short
  <2>3. ASSUME NEW m \in Media, a \notin placed[m] PROVE Class(m, a) # "aged"
    <3>1. OwesTo(m, a)
        BY <1>4 DEF OwesTo
    <3>2. ASSUME NEW rule \in Rules, rule.to = m, rule.from = AutoSource, ~IsLanding(m),
                 RuleSelects(rule, a[1])
          PROVE  Promises(rule, a)
      <4>1. rule.to # rule.from
          BY <3>2, VaultingAssumption
      <4> QED
          BY <3>1, <3>2, <4>1 DEF Promises
    <3> QED
        BY <3>1, <3>2 DEF Class
  <2> QED
      BY <2>2, <2>3 DEF AgedGap
<1>5. ASSUME Verdict = "ok", NEW a \in adv, a[1] >= LastFullRun(a[2])
      PROVE  CopiesOf(a) >= 2
  <2>1. {m \in Media : a \in placed[m]} \in SUBSET Media
      OBVIOUS
  <2>2. CopiesOf(a) \in Nat
      BY <1>1, <2>1 DEF CopiesOf
  <2>3. {Diagnosis(b) : b \in Short} \subseteq {"aged"}
      BY <1>5 DEF Verdict
  <2>4. a \notin Short
      BY <1>4, <1>5, <2>3
  <2> QED
      BY <2>2, <2>4 DEF Short
<1>6. ASSUME NEW a \in Short
      PROVE  /\ Diagnosis(a) # "none"
             /\ Diagnosis(a) = "backfill" =>
                  \A m \in MissingRouted(a) :
                    Sourced(AutoSource, m, 0, {}, FALSE) =>
                      \E p \in Backlog(AutoSource, m, 0, {}, FALSE) : p[2] = a
  <2>1. Diagnosis(a) # "none"
      BY <1>2 DEF Diagnosis
  <2>2. ASSUME NEW m \in MissingRouted(a), AllSourced(AutoSource, m, 0)
        PROVE  \E p \in Backlog(AutoSource, m, 0, {}, FALSE) : p[2] = a
      BY <1>3, <2>2, Zenon DEF Backlogged
  <2> QED
      BY <2>1, <2>2, Zenon DEF AllSourced
<1>7. Verdict = "ok" =>
        \A a \in adv : a[1] >= LastFullRun(a[2]) =>
          Cardinality({m \in Media : a \in placed[m]}) >= 2
    BY <1>5 DEF CopiesOf
<1> QED
    BY <1>6, <1>7, Zenon DEF CopiesAreTold

\* The catalog's archives are of the DLEs, and the counters count.
Counts == last \in Nat /\ fails \in Nat /\ OfDLEs

\* The empty catalog counts nothing.
LEMMA InitCounts == Init => Counts
    BY DEF Init, Counts, OfDLEs

\* A removal adds no archive.
LEMMA RemovalCounts ==
    ASSUME OfDLEs, NEW m, NEW S, RemoveArchives(m, S) PROVE OfDLEs'
    BY DEF OfDLEs, RemoveArchives

\* Every step adds only archives of the DLEs.
LEMMA StepCounts == Counts /\ [Next]_vars => Counts'
<1> SUFFICES ASSUME Counts, [Next]_vars PROVE Counts'
    OBVIOUS
<1>1. ASSUME NEW fulls, NEW lost, Dump(fulls, lost) PROVE Counts'
  <2>1. last' = last + 1 /\ fails' \in Nat
      BY <1>1 DEF Dump, Counts
  <2>2. adv' \subseteq adv \cup {<<last + 1, d>> : d \in DLEs}
      BY <1>1 DEF Dump
  <2>3. last + 1 \in Nat /\ adv \subseteq Nat \X DLEs
      BY DEF Counts, OfDLEs
  <2>4. \A d \in DLEs : <<last + 1, d>> \in Nat \X DLEs
      BY <2>3
  <2>5. {<<last + 1, d>> : d \in DLEs} \subseteq Nat \X DLEs
      BY <2>4, Zenon
  <2>6. adv' \subseteq Nat \X DLEs
      BY <2>2, <2>3, <2>5, Zenon
  <2> QED
      BY <2>1, <2>3, <2>6 DEF Counts, OfDLEs
<1>2. ASSUME NEW m, Prune(m) PROVE Counts'
    BY <1>2, RemovalCounts DEF Prune, Counts
<1>3. ASSUME NEW to, NEW force, NEW todo, Start(to, force, todo) PROVE Counts'
    BY <1>3 DEF Start, Counts, OfDLEs
<1>4. ASSUME NEW a \in Archives, CopyOne(a) \/ CopyFails(a) PROVE Counts'
  <2>1. a \in Nat \X DLEs
      BY VaultingAssumption DEF Archives
  <2>2. CASE CopyOne(a)
    <3>1. last' = last /\ fails' = fails /\ adv' = adv \cup {a}
        BY <2>2 DEF CopyOne
    <3> QED
        BY <2>1, <3>1 DEF Counts, OfDLEs
  <2>3. CASE CopyFails(a)
    <3>1. last' = last /\ fails' = fails + 1 /\ adv' = adv
        BY <2>3 DEF CopyFails
    <3> QED
        BY <3>1 DEF Counts, OfDLEs
  <2> QED
      BY <1>4, <2>2, <2>3
<1>5. CASE ReclaimCopy
    BY <1>5, RemovalCounts DEF ReclaimCopy, Counts
<1>6. CASE MakeRoom
  <2>1. UNCHANGED <<last, fails>>
      BY <1>6 DEF MakeRoom
  <2>2. OfDLEs'
    <3>1. CASE UNCHANGED <<adv, placed>>
        BY <3>1 DEF OfDLEs, Counts
    <3>2. CASE \E m, S : RemoveArchives(m, S)
        BY <3>2, RemovalCounts DEF Counts
    <3> QED
        BY <1>6, <3>1, <3>2 DEF MakeRoom
  <2> QED
      BY <2>1, <2>2 DEF Counts
<1>7. CASE NextSource \/ ReclaimDone \/ ReclaimFails \/ CopiesDone \/ Finish \/ Crash
    BY <1>7 DEF NextSource, ReclaimDone, ReclaimFails, CopiesDone, Finish, Crash, Counts, OfDLEs
<1>8. CASE UNCHANGED vars
    BY <1>8 DEF vars, Counts, OfDLEs
<1> QED
    BY <1>1, <1>2, <1>3, <1>4, <1>5, <1>6, <1>7, <1>8 DEF Next, StartCopy, StartSync

\* What the audit says of the copies is true, and a sync carries exactly what the coverage
\* says is owed (posture.go, coverage.go, sync.go).
THEOREM CoverageIsAlwaysTold == Spec => []CoverageIsTold
<1>1. Counts /\ AdvertisedIsHeld => CoverageIsTold
    BY CopiesTold, BacklogTold DEF Counts, CoverageIsTold
<1>2. Spec => []Counts
    BY InitCounts, StepCounts, PTL DEF Spec
<1> QED
    BY <1>1, <1>2, AdvertisedHolds, PTL

-----------------------------------------------------------------------------
\* What a copy still owes its plan, between any two of its steps.

Fields == {"st", "to", "force", "todo", "src", "plan", "from", "jobs", "failed"}
Rest == {p[2] : p \in cmd.todo}
OneSource == \E f \in cmd.from : cmd.from = {f}
Whole == OneSource \/ Capacity[cmd.to] = 0

\* The command is a record whose work left is from its own sources, media all; a forced
\* copy has one.
Working ==
    /\ DOMAIN cmd = Fields
    /\ cmd.st \in {"next", "reclaim", "room", "copy"}
    /\ cmd.from \subseteq Media
    /\ \A p \in cmd.todo : p[1] \in cmd.from /\ p[2][1] \in Nat
    /\ cmd.force => OneSource
    /\ cmd.st = "reclaim" => OneSource

\* Until it fails, what is not on the target yet is in hand or to be taken up.  Before the
\* first byte of the only source all of the plan is: a reclaim may still take from
\* the target what it holds of it.
Owing ==
    /\ Whole => cmd.plan \subseteq placed[cmd.to] \cup cmd.jobs \cup Rest
    /\ cmd.st = "next" => cmd.jobs = {}
    /\ OneSource /\ cmd.st = "next" /\ cmd.todo # {} => cmd.plan \subseteq Rest
    /\ OneSource /\ cmd.st # "next" => cmd.todo = {}
    /\ OneSource /\ cmd.st \in {"reclaim", "room"} => cmd.plan \subseteq cmd.jobs

Delivery == Busy => Working /\ (~cmd.failed => Owing)

DInv == IInv /\ Counts /\ Delivery

\* A command begins with all of its plan still to be taken up.
LEMMA StartDelivers ==
    ASSUME NEW to \in Media, NEW force, NEW todo, Start(to, force, todo),
           \A p \in todo : p[1] \in Media /\ p[2][1] \in Nat,
           force => \E f : \A p \in todo : p[1] = f
    PROVE  Delivery'
<1>1. /\ DOMAIN cmd' = Fields /\ cmd'.st = "next" /\ cmd'.todo = todo /\ cmd'.jobs = {}
      /\ cmd'.from = {p[1] : p \in todo} /\ cmd'.plan = {p[2] : p \in todo}
      /\ cmd'.force = force /\ todo # {}
    BY DEF Start, Fields
<1>2. force => OneSource'
  <2> SUFFICES ASSUME force PROVE OneSource'
      OBVIOUS
  <2>1. PICK f : \A p \in todo : p[1] = f
      OBVIOUS
  <2>2. cmd'.from = {f}
      BY <1>1, <2>1
  <2> QED
      BY <2>2 DEF OneSource
<1>3. Working'
    BY <1>1, <1>2 DEF Working
<1>4. Owing'
    BY <1>1 DEF Owing, Rest
<1> QED
    BY <1>3, <1>4 DEF Delivery

\* What a command takes from a medium it holds, so the catalog knows its run.
LEMMA WantedIsHeld ==
    ASSUME DInv, NEW src \in Media, NEW r, NEW to, NEW force,
           NEW a \in WantArchives(r, src, to, force)
    PROVE  a[1] \in Nat
<1>1. a \in placed[src]
    BY DEF WantArchives, Missing, Held
<1>2. a \in adv
    BY <1>1 DEF DInv, IInv, AdvertisedIsHeld
<1> QED
    BY <1>2 DEF DInv, Counts, OfDLEs

\* A copy of a run is from one medium, a sync's runs each from a medium.
LEMMA StartCopyDelivers ==
    ASSUME DInv, NEW r, NEW from \in Media, NEW to \in Media, NEW force,
           StartCopy(r, from, to, force)
    PROVE  Delivery'
<1> DEFINE want == WantArchives(r, from, to, force)
<1>1. Start(to, force, {from} \X want)
    BY DEF StartCopy
<1>2. \A a \in want : a[1] \in Nat
    BY WantedIsHeld
<1> HIDE DEF want
<1>3. \A p \in {from} \X want : p[1] = from /\ p[2] \in want
    OBVIOUS
<1> QED
    BY <1>1, <1>2, <1>3, StartDelivers

\* A sync's runs are each from a medium that holds them.
LEMMA StartSyncDelivers ==
    ASSUME DInv, NEW from, NEW to \in Media, NEW n, NEW runs, StartSync(from, to, n, runs)
    PROVE  Delivery'
<1>1. ASSUME NEW p \in Backlog(from, to, n, runs, FALSE)
      PROVE  p[1] \in Media /\ p[2][1] \in Nat
  <2>1. PICK r \in Chosen(from, n, runs) :
               /\ SourceOf(from, r, to, runs, FALSE) \in Media
               /\ p \in {SourceOf(from, r, to, runs, FALSE)} \X Carried(from, r, to, runs, FALSE)
      BY DEF Backlog
  <2>2. p[1] \in Media /\ p[2] \in Carried(from, r, to, runs, FALSE)
      BY <2>1
  <2>3. p[2] \in WantArchives(r, SourceOf(from, r, to, runs, FALSE), to, FALSE)
      BY <2>2 DEF Carried
  <2> QED
      BY <2>1, <2>2, <2>3, WantedIsHeld, Zenon
<1>2. Start(to, FALSE, Backlog(from, to, n, runs, FALSE))
    BY DEF StartSync
<1> QED
    BY <1>1, <1>2, StartDelivers, Zenon

\* The next source's work is taken up; of an only source, all of it.
LEMMA NextSourceDelivers == ASSUME DInv, NextSource PROVE Delivery'
<1> DEFINE first == CHOOSE p \in cmd.todo : \A q \in cmd.todo : p[2][1] <= q[2][1]
           jobs == {p[2] : p \in {q \in cmd.todo : q[1] = first[1]}}
           left == {q \in cmd.todo : q[1] # first[1]}
<1>1. Working /\ Owing /\ Busy
    BY DEF DInv, NextSource, Delivery
<1>2. /\ cmd.st = "next" /\ cmd.todo # {}
      /\ cmd' = [cmd EXCEPT !.st = IF cmd.force THEN "reclaim" ELSE "room",
                            !.src = first[1], !.jobs = jobs, !.todo = left]
      /\ UNCHANGED placed
    BY DEF NextSource
<1>3. first \in cmd.todo
  <2>1. {p[2][1] : p \in cmd.todo} \in SUBSET Nat /\ {p[2][1] : p \in cmd.todo} # {}
      BY <1>1, <1>2 DEF Working
  <2>2. PICK k \in {p[2][1] : p \in cmd.todo} : \A l \in {p[2][1] : p \in cmd.todo} : k <= l
      BY <2>1, Least
  <2>3. \E p \in cmd.todo : \A q \in cmd.todo : p[2][1] <= q[2][1]
      BY <2>2
  <2> QED
      BY <2>3
<1> HIDE DEF first
<1>4. /\ DOMAIN cmd' = Fields /\ cmd'.to = cmd.to /\ cmd'.force = cmd.force
      /\ cmd'.from = cmd.from /\ cmd'.plan = cmd.plan /\ cmd'.failed = cmd.failed
      /\ cmd'.jobs = jobs /\ cmd'.todo = left
      /\ cmd'.st = IF cmd.force THEN "reclaim" ELSE "room"
    BY <1>1, <1>2 DEF Working, Fields
<1>5. (OneSource' <=> OneSource) /\ (Whole' <=> Whole)
    BY <1>4 DEF OneSource, Whole
<1>6. jobs \cup {p[2] : p \in left} = Rest
    BY DEF Rest
<1>7. Rest' = {p[2] : p \in left}
    BY <1>4 DEF Rest
<1>8. OneSource => left = {} /\ jobs = Rest
  <2> SUFFICES ASSUME OneSource PROVE left = {} /\ jobs = Rest
      OBVIOUS
  <2>1. PICK f : cmd.from = {f}
      BY DEF OneSource
  <2>2. \A p \in cmd.todo : p[1] = first[1]
      BY <1>3, <1>1, <2>1 DEF Working
  <2> QED
      BY <2>2 DEF Rest
<1>9. Working'
    BY <1>1, <1>4, <1>5 DEF Working
<1>10. Owing'
    BY <1>1, <1>2, <1>4, <1>5, <1>6, <1>7, <1>8 DEF Owing
<1> QED
    BY <1>9, <1>10 DEF Delivery

\* What a forced copy takes from its target is in hand to be copied.
LEMMA ReclaimCopyDelivers == ASSUME DInv, ReclaimCopy PROVE Delivery'
<1>1. Working /\ (~cmd.failed => Owing) /\ cmd.st = "reclaim" /\ cmd' = cmd
    BY DEF DInv, ReclaimCopy, Delivery
<1>2. (OneSource' <=> OneSource) /\ OneSource
    BY <1>1 DEF OneSource, Working
<1>3. Working'
    BY <1>1, <1>2 DEF Working
<1>4. ~cmd.failed => Owing'
    BY <1>1, <1>2 DEF Owing
<1> QED
    BY <1>1, <1>3, <1>4 DEF Delivery

LEMMA ReclaimDoneDelivers == ASSUME DInv, ReclaimDone PROVE Delivery'
<1>1. Working /\ (~cmd.failed => Owing) /\ cmd.st = "reclaim"
    BY DEF DInv, ReclaimDone, Delivery
<1>2. /\ DOMAIN cmd' = Fields /\ cmd'.to = cmd.to /\ cmd'.force = cmd.force
      /\ cmd'.from = cmd.from /\ cmd'.plan = cmd.plan /\ cmd'.failed = cmd.failed
      /\ cmd'.jobs = cmd.jobs /\ cmd'.todo = cmd.todo /\ cmd'.st = "room"
    BY <1>1 DEF ReclaimDone, Working, Fields
<1>3. (OneSource' <=> OneSource) /\ OneSource
    BY <1>1, <1>2 DEF OneSource, Working
<1>4. Working'
    BY <1>1, <1>2, <1>3 DEF Working
<1>5. ~cmd.failed => Owing'
    BY <1>1, <1>2, <1>3 DEF Owing
<1> QED
    BY <1>2, <1>4, <1>5 DEF Delivery

LEMMA ReclaimFailsDelivers == ASSUME DInv, ReclaimFails PROVE Delivery'
<1>1. Working
    BY DEF DInv, ReclaimFails, Delivery
<1>2. /\ DOMAIN cmd' = Fields /\ cmd'.force = cmd.force /\ cmd'.from = cmd.from
      /\ cmd'.failed /\ cmd'.todo = cmd.todo /\ cmd'.st = "next"
    BY <1>1 DEF ReclaimFails, Working, Fields
<1>3. OneSource' <=> OneSource
    BY <1>2 DEF OneSource
<1>4. Working'
    BY <1>1, <1>2, <1>3 DEF Working
<1> QED
    BY <1>2, <1>4 DEF Delivery

\* A target without a bound has room; a bounded one gives up what it must before the only
\* source's first byte.
LEMMA MakeRoomDelivers == ASSUME DInv, MakeRoom PROVE Delivery'
<1>1. Working /\ (~cmd.failed => Owing) /\ cmd.st = "room"
    BY DEF DInv, MakeRoom, Delivery
<1>2. /\ DOMAIN cmd' = Fields /\ cmd'.to = cmd.to /\ cmd'.force = cmd.force
      /\ cmd'.from = cmd.from /\ cmd'.plan = cmd.plan
      /\ cmd'.jobs = cmd.jobs /\ cmd'.todo = cmd.todo
      /\ \/ cmd'.st = "next" /\ cmd'.failed
         \/ cmd'.st = "copy" /\ cmd'.failed = cmd.failed
    BY <1>1 DEF MakeRoom, Working, Fields
<1>3. Capacity[cmd.to] = 0 => placed' = placed
    BY DEF MakeRoom, Fits
<1>4. (OneSource' <=> OneSource) /\ (Whole' <=> Whole) /\ Rest' = Rest
    BY <1>2 DEF OneSource, Whole, Rest
<1>5. Working'
    BY <1>1, <1>2, <1>4 DEF Working
<1>6. ASSUME ~cmd'.failed PROVE Owing'
  <2>1. Owing /\ cmd'.st = "copy"
      BY <1>1, <1>2, <1>6
  <2>2. CASE OneSource
      BY <1>1, <1>2, <1>4, <2>1, <2>2 DEF Owing
  <2>3. CASE ~OneSource
      BY <1>1, <1>2, <1>3, <1>4, <2>1, <2>3 DEF Owing, Whole
  <2> QED
      BY <2>2, <2>3
<1> QED
    BY <1>5, <1>6 DEF Delivery

\* What leaves the hand is on the target.
LEMMA CopyOneDelivers == ASSUME DInv, NEW a, CopyOne(a) PROVE Delivery'
<1>1. Working /\ (~cmd.failed => Owing) /\ cmd.st = "copy"
    BY DEF DInv, CopyOne, Delivery
<1>2. /\ DOMAIN cmd' = Fields /\ cmd'.to = cmd.to /\ cmd'.force = cmd.force
      /\ cmd'.from = cmd.from /\ cmd'.plan = cmd.plan /\ cmd'.failed = cmd.failed
      /\ cmd'.jobs = cmd.jobs \ {a} /\ cmd'.todo = cmd.todo /\ cmd'.st = cmd.st
    BY <1>1 DEF CopyOne, Working, Fields
<1>3. placed'[cmd.to] = placed[cmd.to] \cup {a}
    BY DEF CopyOne, DInv, IInv, HasTarget
<1>4. (OneSource' <=> OneSource) /\ (Whole' <=> Whole) /\ Rest' = Rest
    BY <1>2 DEF OneSource, Whole, Rest
<1>5. Working'
    BY <1>1, <1>2, <1>4 DEF Working
<1>6. ~cmd.failed => Owing'
    BY <1>1, <1>2, <1>3, <1>4 DEF Owing
<1> QED
    BY <1>2, <1>5, <1>6 DEF Delivery

\* A command that failed owes nothing of its plan.
LEMMA CopyFailsDelivers == ASSUME DInv, NEW a, CopyFails(a) PROVE Delivery'
<1>1. Working /\ cmd.st = "copy"
    BY DEF DInv, CopyFails, Delivery
<1>2. /\ DOMAIN cmd' = Fields /\ cmd'.force = cmd.force /\ cmd'.from = cmd.from
      /\ cmd'.failed /\ cmd'.todo = cmd.todo /\ cmd'.st = cmd.st
    BY <1>1 DEF CopyFails, Working, Fields
<1>3. OneSource' <=> OneSource
    BY <1>2 DEF OneSource
<1>4. Working'
    BY <1>1, <1>2, <1>3 DEF Working
<1> QED
    BY <1>2, <1>4 DEF Delivery

\* A source is done when nothing of it is in hand.
LEMMA CopiesDoneDelivers == ASSUME DInv, CopiesDone PROVE Delivery'
<1>1. Working /\ (~cmd.failed => Owing) /\ cmd.st = "copy" /\ cmd.jobs = {}
    BY DEF DInv, CopiesDone, Delivery
<1>2. /\ DOMAIN cmd' = Fields /\ cmd'.to = cmd.to /\ cmd'.force = cmd.force
      /\ cmd'.from = cmd.from /\ cmd'.plan = cmd.plan /\ cmd'.failed = cmd.failed
      /\ cmd'.jobs = cmd.jobs /\ cmd'.todo = cmd.todo /\ cmd'.st = "next"
      /\ UNCHANGED placed
    BY <1>1 DEF CopiesDone, Working, Fields
<1>3. (OneSource' <=> OneSource) /\ (Whole' <=> Whole) /\ Rest' = Rest
    BY <1>2 DEF OneSource, Whole, Rest
<1>4. Working'
    BY <1>1, <1>2, <1>3 DEF Working
<1>5. ~cmd.failed => Owing'
    BY <1>1, <1>2, <1>3 DEF Owing
<1> QED
    BY <1>2, <1>4, <1>5 DEF Delivery

\* Every step keeps what is owed accounted for.
LEMMA StepDelivers == DInv /\ [Next]_vars => Delivery'
<1> SUFFICES ASSUME DInv, [Next]_vars PROVE Delivery'
    OBVIOUS
<1>1. ASSUME ~Busy' PROVE Delivery'
    BY <1>1 DEF Delivery
<1>2. CASE UNCHANGED vars
  <2>1. UNCHANGED <<cmd, placed>>
      BY <1>2 DEF vars
  <2> QED
      BY <2>1 DEF DInv, Delivery, Working, Owing, Busy, Idle, OneSource, Whole, Rest
<1>3. ASSUME NEW fulls, NEW lost, Dump(fulls, lost) PROVE Delivery'
  <2>1. ~Busy'
      BY <1>3 DEF Dump, Busy, Idle
  <2> QED
      BY <1>1, <2>1
<1>4. ASSUME NEW m, Prune(m) PROVE Delivery'
  <2>1. ~Busy'
      BY <1>4 DEF Prune, Busy, Idle
  <2> QED
      BY <1>1, <2>1
<1>5. CASE Finish \/ Crash
  <2>1. ~Busy'
      BY <1>5 DEF Finish, Crash, Busy
  <2> QED
      BY <1>1, <2>1
<1>6. ASSUME NEW r, NEW from \in Media, NEW to \in Media, NEW force, StartCopy(r, from, to, force)
      PROVE  Delivery'
    BY <1>6, StartCopyDelivers
<1>7. ASSUME NEW from, NEW to \in Media, NEW n, NEW runs, StartSync(from, to, n, runs)
      PROVE  Delivery'
    BY <1>7, StartSyncDelivers
<1>8. \A rule \in Rules : rule.to \in Media
    BY VaultingAssumption
<1> QED
    BY <1>2, <1>3, <1>4, <1>5, <1>6, <1>7, <1>8, NextSourceDelivers, ReclaimCopyDelivers,
       ReclaimDoneDelivers, ReclaimFailsDelivers, MakeRoomDelivers, CopyOneDelivers, CopyFailsDelivers, CopiesDoneDelivers, Zenon DEF Next

\* A command that ends without an error ends by its own Finish, with no work left.
LEMMA EndDelivers == DInv /\ [Next]_vars => PlanIsDelivered
<1> SUFFICES ASSUME DInv, [Next]_vars, Finished,
                    Cardinality(cmd.from) = 1 \/ Capacity[cmd.to] = 0
             PROVE  cmd.plan \subseteq placed[cmd.to]
    BY DEF PlanIsDelivered
<1>1. Busy /\ cmd.st = "next" /\ ~cmd.failed /\ ~Busy' /\ fails' = fails
    BY DEF Finished
<1>2. Working /\ Owing
    BY <1>1 DEF DInv, Delivery
<1>3. Whole
  <2>1. CASE Cardinality(cmd.from) = 1
    <3>1. IsFiniteSet(cmd.from)
        BY <1>2, VaultingAssumption, FS_Subset DEF Working
    <3>2. PICK f : cmd.from = {f}
        BY <2>1, <3>1, FS_Singleton
    <3> QED
        BY <3>2 DEF OneSource, Whole
  <2> QED
      BY <2>1 DEF Whole
<1>4. Finish
  <2>1. ~Crash
      BY <1>1 DEF Crash, DInv, Counts
  <2>2. ~NextSource /\ ~CopiesDone /\ ~ReclaimCopy /\ ~ReclaimDone /\ ~ReclaimFails /\ ~MakeRoom
    <3>1. NextSource => Busy'
        BY <1>2 DEF NextSource, Busy, Idle, Working, Fields
    <3> QED
        BY <1>1, <3>1 DEF CopiesDone, ReclaimCopy, ReclaimDone, ReclaimFails, MakeRoom
  <2>3. ASSUME NEW a PROVE ~CopyOne(a) /\ ~CopyFails(a)
      BY <1>1 DEF CopyOne, CopyFails
  <2>4. ASSUME NEW to, NEW force, NEW todo PROVE ~Start(to, force, todo)
      BY <1>1 DEF Start
  <2>5. ASSUME NEW fulls, NEW lost PROVE ~Dump(fulls, lost)
      BY <1>1 DEF Dump
  <2>6. ASSUME NEW m PROVE ~Prune(m)
      BY <1>1 DEF Prune
  <2>7. ~UNCHANGED vars
      BY <1>1 DEF vars, Busy, Idle
  <2> QED
      BY <2>1, <2>2, <2>3, <2>4, <2>5, <2>6, <2>7, Zenon DEF Next, StartCopy, StartSync
<1>5. cmd.todo = {} /\ cmd.jobs = {} /\ Rest = {}
    BY <1>1, <1>2, <1>4 DEF Finish, Owing, Rest
<1> QED
    BY <1>2, <1>3, <1>5 DEF Owing

\* What was priced is what is copied: a copy or sync that ends without an error leaves all
\* it planned on its target (execute and Copy in copy.go).
THEOREM PlansAreDelivered == Spec => [][PlanIsDelivered]_vars
<1>1. Init => DInv
    BY InitHolds, InitCounts DEF Init, DInv, Delivery, Busy
<1>2. DInv /\ [Next]_vars => DInv'
    BY StepKeeps, StepCounts, StepDelivers DEF DInv
<1>3. DInv /\ [Next]_vars => [PlanIsDelivered]_vars
    BY EndDelivers
<1> QED
    BY <1>1, <1>2, <1>3, PTL DEF Spec

-----------------------------------------------------------------------------
\* The newest of some runs is one of them, and none is newer.
LEMMA NewestIsOne ==
    ASSUME NEW n \in Nat, NEW S \in SUBSET (1 .. n), S # {}
    PROVE  Newest(S) \in S /\ \A q \in S : q <= Newest(S)
<1> DEFINE Bounds == {k \in Nat : \A q \in S : q <= k}
<1>1. Bounds \in SUBSET Nat /\ Bounds # {}
  <2>1. n \in Bounds
      OBVIOUS
  <2> QED
      BY <2>1
<1>2. PICK k \in Bounds : \A j \in Bounds : k <= j
  <2> HIDE DEF Bounds
  <2> QED
      BY <1>1, Least
<1>3. k \in S
  <2> SUFFICES ASSUME k \notin S PROVE FALSE
      OBVIOUS
  <2>1. PICK q \in S : q \in 1 .. n
      OBVIOUS
  <2>2. k - 1 \in Nat /\ \A p \in S : p <= k - 1
      BY <2>1
  <2> QED
      BY <1>2, <2>2
<1> QED
    BY <1>2, <1>3 DEF Newest

-----------------------------------------------------------------------------
\* The types.

\* What was ever dumped of a DLE, and is not too new for its bound.
Recorded == {a \in Archives : a[1] \in DOMAIN arch[a[2]]}

\* An incremental is recorded on a full.
BasesAreFulls ==
    \A d \in DLEs : \A r \in DOMAIN arch[d] :
      arch[d][r].level = 1 => /\ arch[d][r].base \in DOMAIN arch[d]
                              /\ arch[d][arch[d][r].base].level = 0

TInv ==
    /\ TypeOK /\ BasesAreFulls
    /\ Busy => cmd.jobs \subseteq Recorded /\ cmd.todo \subseteq Media \X Recorded

\* With the empty catalog nothing is recorded.
LEMMA InitTyped == Init => TInv
<1> SUFFICES ASSUME Init PROVE TInv
    OBVIOUS
<1>1. ~Busy /\ last = 0 /\ adv = {} /\ placed = [m \in Media |-> {}] /\ fails = 0 /\ copies = 0
    BY DEF Init, Busy
<1>2. \A d \in DLEs : DOMAIN arch[d] = {}
    BY DEF Init
<1>3. 0 \in 0 .. MaxRuns /\ 0 \in 0 .. MaxFails /\ 0 \in 0 .. MaxCopies
    BY VaultingAssumption
<1> QED
    BY <1>1, <1>2, <1>3 DEF TInv, TypeOK, BasesAreFulls

\* The last full of a DLE is a recorded full.
LEMMA LastFullIsFull ==
    ASSUME TInv, NEW d \in DLEs, LastFullRun(d) # 0
    PROVE  /\ LastFullRun(d) \in DOMAIN arch[d] /\ LastFullRun(d) \in 1 .. last
           /\ arch[d][LastFullRun(d)].level = 0
<1> DEFINE F == Fulls(arch[d], Of(adv, d))
<1>1. \A r \in F : r \in DOMAIN arch[d] /\ arch[d][r].level = 0
  <2> SUFFICES ASSUME NEW r \in F PROVE r \in DOMAIN arch[d] /\ arch[d][r].level = 0
      OBVIOUS
  <2>1. PICK a \in adv : a[2] = d /\ a[1] = r
      BY DEF Fulls, Of
  <2> QED
      BY <2>1 DEF TInv, TypeOK, Fulls
<1>2. F \in SUBSET (1 .. last) /\ last \in Nat
    BY <1>1, VaultingAssumption DEF TInv, TypeOK
<1>3. LastFullRun(d) = Newest(F)
    BY DEF LastFullRun
<1> HIDE DEF F
<1>4. F # {}
    BY <1>3 DEF Newest
<1>5. LastFullRun(d) \in F
    BY <1>2, <1>3, <1>4, NewestIsOne
<1> QED
    BY <1>1, <1>2, <1>5

\* A run records each DLE that landed, an incremental on the last full.
LEMMA DumpTyped ==
    ASSUME IInv, TInv, IInv', NEW fulls \in SUBSET DLEs, NEW lost \in SUBSET Media, Dump(fulls, lost)
    PROVE  TInv'
<1> DEFINE r == last + 1
           landed == {d \in DLEs : Routes[d] \ lost # {}}
           entry(d) == [level |-> IF d \in fulls THEN 0 ELSE 1,
                        base |-> IF d \in fulls THEN 0 ELSE LastFullRun(d)]
           new == {<<r, d>> : d \in landed}
<1>1. /\ last \in Nat /\ last < MaxRuns /\ last' = r /\ r \in 1 .. MaxRuns
      /\ ~Busy' /\ copies' = copies /\ adv' = adv \cup new
      /\ fails' \in 0 .. MaxFails
  <2>1. last \in 0 .. MaxRuns /\ fails \in 0 .. MaxFails /\ MaxRuns \in Nat /\ MaxFails \in Nat
      BY VaultingAssumption DEF TInv, TypeOK
  <2>2. /\ last < MaxRuns /\ last' = r /\ UNCHANGED <<cmd, copies>> /\ ~Busy
        /\ lost # {} => fails < MaxFails
        /\ fails' = fails + (IF lost # {} THEN 1 ELSE 0) /\ adv' = adv \cup new
      BY DEF Dump
  <2> QED
      BY <2>1, <2>2 DEF Busy
<1>2. ASSUME NEW d \in DLEs
      PROVE  \/ arch'[d] = arch[d] /\ d \notin landed
             \/ /\ d \in landed /\ DOMAIN arch'[d] = DOMAIN arch[d] \cup {r}
                /\ arch'[d][r] = entry(d) /\ \A q \in DOMAIN arch[d] : arch'[d][q] = arch[d][q]
  <2>1. arch'[d] = IF d \in landed
                   THEN [q \in DOMAIN arch[d] \cup {r} |-> IF q # r THEN arch[d][q] ELSE entry(d)]
                   ELSE arch[d]
      BY DEF Dump
  <2>2. DOMAIN arch[d] \subseteq 1 .. last
      BY DEF TInv, TypeOK
  <2>3. r \notin DOMAIN arch[d]
      BY <2>2, <1>1
  <2> HIDE DEF r, entry, landed
  <2> QED
      BY <2>1, <2>3
<1>3. ASSUME NEW d \in DLEs
      PROVE  /\ entry(d).level \in 0 .. 1 /\ entry(d).base \in 0 .. last
             /\ entry(d).level = 1 => /\ entry(d).base \in DOMAIN arch[d]
                                      /\ arch[d][entry(d).base].level = 0
  <2>1. d \notin fulls => LastFullRun(d) # 0
      BY DEF Dump
  <2>2. d \notin fulls => /\ LastFullRun(d) \in DOMAIN arch[d] /\ LastFullRun(d) \in 1 .. last
                          /\ arch[d][LastFullRun(d)].level = 0
      BY <2>1, LastFullIsFull
  <2>3. /\ entry(d).level = IF d \in fulls THEN 0 ELSE 1
        /\ entry(d).base = IF d \in fulls THEN 0 ELSE LastFullRun(d)
      OBVIOUS
  <2> HIDE DEF entry
  <2> QED
      BY <2>2, <2>3, <1>1
<1> HIDE DEF entry
<1>4. ASSUME NEW d \in DLEs
      PROVE  /\ DOMAIN arch'[d] \subseteq 1 .. last'
             /\ DOMAIN arch[d] \subseteq DOMAIN arch'[d]
             /\ \A q \in DOMAIN arch'[d] :
                  /\ arch'[d][q].level \in 0 .. 1 /\ arch'[d][q].base \in 0 .. q - 1
                  /\ arch'[d][q].level = 1 => /\ arch'[d][q].base \in DOMAIN arch'[d]
                                              /\ arch'[d][arch'[d][q].base].level = 0
  <2>1. /\ DOMAIN arch[d] \subseteq 1 .. last
        /\ \A q \in DOMAIN arch[d] :
             /\ arch[d][q].level \in 0 .. 1 /\ arch[d][q].base \in 0 .. q - 1
             /\ arch[d][q].level = 1 => /\ arch[d][q].base \in DOMAIN arch[d]
                                        /\ arch[d][arch[d][q].base].level = 0
      BY DEF TInv, TypeOK, BasesAreFulls
  <2>2. CASE arch'[d] = arch[d]
      BY <1>1, <2>1, <2>2
  <2>3. CASE /\ DOMAIN arch'[d] = DOMAIN arch[d] \cup {r} /\ arch'[d][r] = entry(d)
             /\ \A q \in DOMAIN arch[d] : arch'[d][q] = arch[d][q]
      BY <1>1, <1>3, <2>1, <2>3
  <2> QED
      BY <1>2, <2>2, <2>3
<1>5. adv' \subseteq {a \in Archives : a[1] \in DOMAIN arch'[a[2]]}
  <2>1. ASSUME NEW a \in adv PROVE a \in Archives /\ a[1] \in DOMAIN arch'[a[2]]
    <3>1. a \in Archives /\ a[1] \in DOMAIN arch[a[2]]
        BY DEF TInv, TypeOK
    <3> QED
        BY <3>1, <1>4 DEF Archives
  <2>2. ASSUME NEW d \in landed PROVE <<r, d>> \in Archives /\ r \in DOMAIN arch'[d]
      BY <1>1, <1>2 DEF Archives
  <2> QED
      BY <1>1, <2>1, <2>2
<1>6. placed' \in [Media -> SUBSET adv']
    BY DEF IInv, AdvertisedIsHeld
<1>7. last' \in 0 .. MaxRuns /\ copies' \in 0 .. MaxCopies
    BY <1>1, VaultingAssumption DEF TInv, TypeOK
<1> QED
    BY <1>1, <1>4, <1>5, <1>6, <1>7 DEF TInv, TypeOK, BasesAreFulls

\* What a step of a command leaves of the catalog is typed as it was.
LEMMA CatalogTyped ==
    ASSUME TInv, IInv', UNCHANGED <<last, arch>>, adv' \subseteq Recorded
    PROVE  /\ last' \in 0 .. MaxRuns /\ BasesAreFulls' /\ Recorded' = Recorded
           /\ \A d \in DLEs : /\ DOMAIN arch'[d] \subseteq 1 .. last'
                              /\ \A r \in DOMAIN arch'[d] :
                                   /\ arch'[d][r].level \in 0 .. 1
                                   /\ arch'[d][r].base \in 0 .. r - 1
           /\ adv' \subseteq {a \in Archives : a[1] \in DOMAIN arch'[a[2]]}
           /\ placed' \in [Media -> SUBSET adv']
<1>1. placed' \in [Media -> SUBSET adv']
    BY DEF IInv, AdvertisedIsHeld
<1>2. UNCHANGED <<last, arch>>
    OBVIOUS
<1> QED
    BY <1>1, <1>2 DEF TInv, TypeOK, BasesAreFulls, Recorded

\* What is advertised is recorded, and so is what a command takes from a medium.
LEMMA HeldIsRecorded ==
    ASSUME TInv
    PROVE  /\ adv \subseteq Recorded
           /\ \A m \in Media : placed[m] \subseteq Recorded
           /\ \A src \in Media : \A r, to, force : WantArchives(r, src, to, force) \subseteq Recorded
    BY DEF TInv, TypeOK, Recorded, WantArchives, Held, Missing

\* A command that begins has its work from media, and of what is recorded.
LEMMA StartTyped ==
    ASSUME IInv, TInv, IInv', NEW to \in Media, NEW force \in BOOLEAN, NEW todo, Start(to, force, todo),
           todo \subseteq Media \X Recorded
    PROVE  TInv'
<1>1. /\ cmd'.st = "next" /\ cmd'.to = to /\ cmd'.force = force /\ cmd'.todo = todo
      /\ cmd'.plan = {p[2] : p \in todo} /\ cmd'.jobs = {} /\ cmd'.failed = FALSE
    BY DEF Start
<1>2. UNCHANGED <<last, arch, adv, placed, fails>> /\ copies' \in 0 .. MaxCopies
  <2>1. copies < MaxCopies /\ copies' = copies + 1 /\ copies \in 0 .. MaxCopies /\ MaxCopies \in Nat
      BY VaultingAssumption DEF Start, TInv, TypeOK
  <2>2. copies' \in 0 .. MaxCopies
      BY <2>1
  <2> QED
      BY <2>2 DEF Start
<1>3. {p[2] : p \in todo} \subseteq Archives /\ todo \subseteq Media \X Archives
    BY DEF Recorded
<1>4. fails' \in 0 .. MaxFails /\ adv' \subseteq Recorded
    BY <1>2, HeldIsRecorded DEF TInv, TypeOK
<1>5. cmd'.jobs \subseteq Recorded' /\ cmd'.todo \subseteq Media \X Recorded'
    BY <1>1, <1>2, <1>4, CatalogTyped
<1> QED
    BY <1>1, <1>2, <1>3, <1>4, <1>5, CatalogTyped DEF TInv, TypeOK

\* A copy carries from one medium, a sync each run from its own.
LEMMA StartCopyTyped ==
    ASSUME IInv, TInv, IInv', NEW r, NEW from \in Media, NEW to \in Media, NEW force \in BOOLEAN,
           StartCopy(r, from, to, force)
    PROVE  TInv'
<1>1. {from} \X WantArchives(r, from, to, force) \subseteq Media \X Recorded
    BY HeldIsRecorded
<1> QED
    BY <1>1, StartTyped DEF StartCopy

LEMMA StartSyncTyped ==
    ASSUME IInv, TInv, IInv', NEW from, NEW to \in Media, NEW n, NEW runs,
           StartSync(from, to, n, runs)
    PROVE  TInv'
<1>1. ASSUME NEW p \in Backlog(from, to, n, runs, FALSE) PROVE p \in Media \X Recorded
  <2>1. PICK r \in Chosen(from, n, runs) :
               /\ SourceOf(from, r, to, runs, FALSE) \in Media
               /\ p \in {SourceOf(from, r, to, runs, FALSE)} \X Carried(from, r, to, runs, FALSE)
      BY DEF Backlog
  <2>2. Carried(from, r, to, runs, FALSE)
          \subseteq WantArchives(r, SourceOf(from, r, to, runs, FALSE), to, FALSE)
      BY DEF Carried
  <2> QED
      BY <2>1, <2>2, HeldIsRecorded
<1>2. Start(to, FALSE, Backlog(from, to, n, runs, FALSE))
    BY DEF StartSync
<1> QED
    BY <1>1, <1>2, StartTyped

\* A step of a command takes from its work and lands what is in hand.
LEMMA CommandTyped ==
    ASSUME TInv, IInv', UNCHANGED <<last, arch, copies>>, adv' \subseteq Recorded,
           fails' \in 0 .. MaxFails,
           Busy' => /\ Busy /\ cmd'.st \in {"next", "reclaim", "room", "copy"}
                    /\ cmd'.to = cmd.to /\ cmd'.force = cmd.force /\ cmd'.plan = cmd.plan
                    /\ cmd'.failed \in BOOLEAN /\ cmd'.todo \subseteq cmd.todo
                    /\ cmd'.jobs \subseteq cmd.jobs \cup Rest
    PROVE  TInv'
<1>1. Busy => Rest \subseteq Recorded /\ cmd.jobs \subseteq Recorded
    BY DEF TInv, Rest
<1>2. Busy' => /\ cmd'.to \in Media /\ cmd'.force \in BOOLEAN
               /\ cmd'.todo \subseteq Media \X Archives /\ cmd'.plan \subseteq Archives
               /\ cmd'.jobs \subseteq Archives
               /\ cmd'.jobs \subseteq Recorded /\ cmd'.todo \subseteq Media \X Recorded
    BY <1>1 DEF TInv, TypeOK, Recorded
<1>3. copies' \in 0 .. MaxCopies
    BY DEF TInv, TypeOK
<1>4. Busy' => cmd'.jobs \subseteq Recorded' /\ cmd'.todo \subseteq Media \X Recorded'
    BY <1>2, CatalogTyped
<1> QED
    BY <1>2, <1>3, <1>4, CatalogTyped DEF TInv, TypeOK

\* Each step of a command is such a step.
LEMMA CommandStepsTyped ==
    ASSUME DInv, TInv, IInv',
           \/ NextSource \/ ReclaimCopy \/ ReclaimDone \/ ReclaimFails \/ MakeRoom \/ CopiesDone \/ Finish \/ Crash
           \/ \E a \in Archives : CopyOne(a) \/ CopyFails(a)
    PROVE  TInv'
<1>1. /\ Busy /\ DOMAIN cmd = Fields /\ cmd.failed \in BOOLEAN /\ fails \in 0 .. MaxFails
      /\ adv \subseteq Recorded /\ cmd.st \in {"next", "reclaim", "room", "copy"}
      /\ MaxFails \in Nat
  <2>1. Busy
      BY DEF NextSource, ReclaimCopy, ReclaimDone, ReclaimFails, MakeRoom, CopiesDone, Finish, Crash,
             CopyOne, CopyFails
  <2> QED
      BY <2>1, HeldIsRecorded, VaultingAssumption DEF DInv, Delivery, Working, TInv, TypeOK
<1> USE DEF Fields
<1>2. CASE NextSource
  <2> DEFINE first == CHOOSE p \in cmd.todo : \A q \in cmd.todo : p[2][1] <= q[2][1]
             jobs == {p[2] : p \in {q \in cmd.todo : q[1] = first[1]}}
             left == {q \in cmd.todo : q[1] # first[1]}
  <2>1. /\ cmd' = [cmd EXCEPT !.st = IF cmd.force THEN "reclaim" ELSE "room",
                              !.src = first[1], !.jobs = jobs, !.todo = left]
        /\ UNCHANGED <<last, arch, adv, placed, fails, copies>>
      BY <1>2 DEF NextSource
  <2>2. jobs \subseteq Rest /\ left \subseteq cmd.todo
      BY DEF Rest
  <2> HIDE DEF jobs, left, first
  <2> QED
      BY <1>1, <2>1, <2>2, CommandTyped
<1>3. CASE ReclaimCopy
  <2>1. cmd' = cmd /\ UNCHANGED <<last, arch, fails, copies>> /\ adv' \subseteq adv
      BY <1>3 DEF ReclaimCopy, RemoveArchives
  <2> QED
      BY <1>1, <2>1, CommandTyped
<1>9. CASE ReclaimDone
  <2>1. cmd' = [cmd EXCEPT !.st = "room"] /\ UNCHANGED <<last, arch, adv, placed, fails, copies>>
      BY <1>9 DEF ReclaimDone
  <2> QED
      BY <1>1, <2>1, CommandTyped
<1>10. CASE ReclaimFails
  <2>1. /\ cmd' = [cmd EXCEPT !.st = "next", !.failed = TRUE]
        /\ UNCHANGED <<last, arch, adv, placed, copies>> /\ fails < MaxFails /\ fails' = fails + 1
      BY <1>10 DEF ReclaimFails
  <2>2. fails' \in 0 .. MaxFails
      BY <1>1, <2>1
  <2> QED
      BY <1>1, <2>1, <2>2, CommandTyped
<1>4. CASE MakeRoom
  <2>1. /\ \/ cmd' = [cmd EXCEPT !.st = "next", !.failed = TRUE]
           \/ cmd' = [cmd EXCEPT !.st = "copy"]
        /\ UNCHANGED <<last, arch, fails, copies>> /\ adv' \subseteq adv
      BY <1>4 DEF MakeRoom, RemoveArchives
  <2> QED
      BY <1>1, <2>1, CommandTyped
<1>5. CASE CopiesDone
  <2>1. cmd' = [cmd EXCEPT !.st = "next"] /\ UNCHANGED <<last, arch, adv, placed, fails, copies>>
      BY <1>5 DEF CopiesDone
  <2> QED
      BY <1>1, <2>1, CommandTyped
<1>6. CASE Finish \/ Crash
  <2>1. /\ ~Busy' /\ UNCHANGED <<last, arch, adv, placed, copies>>
        /\ fails' = fails \/ (fails < MaxFails /\ fails' = fails + 1)
      BY <1>6 DEF Finish, Crash, Busy
  <2>2. fails' \in 0 .. MaxFails
      BY <1>1, <2>1
  <2> QED
      BY <1>1, <2>1, <2>2, CommandTyped
<1>7. ASSUME NEW a \in Archives, CopyOne(a) PROVE TInv'
  <2>1. /\ cmd' = [cmd EXCEPT !.jobs = @ \ {a}] /\ UNCHANGED <<last, arch, fails, copies>>
        /\ adv' = adv \cup {a} /\ a \in cmd.jobs
      BY <1>7 DEF CopyOne
  <2>2. adv' \subseteq Recorded
      BY <1>1, <2>1 DEF TInv
  <2> QED
      BY <1>1, <2>1, <2>2, CommandTyped
<1>8. ASSUME NEW a \in Archives, CopyFails(a) PROVE TInv'
  <2>1. PICK flight \in SUBSET (cmd.jobs \ {a}) : cmd' = [cmd EXCEPT !.jobs = flight, !.failed = TRUE]
      BY <1>8 DEF CopyFails
  <2>2. /\ UNCHANGED <<last, arch, adv, placed, copies>> /\ fails < MaxFails /\ fails' = fails + 1
      BY <1>8 DEF CopyFails
  <2>3. fails' \in 0 .. MaxFails
      BY <1>1, <2>2
  <2> QED
      BY <1>1, <2>1, <2>2, <2>3, CommandTyped
<1> QED
    BY <1>2, <1>3, <1>4, <1>5, <1>6, <1>7, <1>8, <1>9, <1>10

\* Every step keeps the types.
LEMMA TypesKept == DInv /\ TInv /\ IInv' /\ [Next]_vars => TInv'
<1> SUFFICES ASSUME DInv, TInv, IInv', [Next]_vars PROVE TInv'
    OBVIOUS
<1>1. CASE UNCHANGED vars
    BY <1>1 DEF vars, TInv, TypeOK, BasesAreFulls, Recorded, Busy, Idle
<1>2. ASSUME NEW m \in Media, Prune(m) PROVE TInv'
  <2>1. /\ ~Busy' /\ UNCHANGED <<last, arch, fails, copies>> /\ adv' \subseteq adv
      BY <1>2 DEF Prune, RemoveArchives, Busy
  <2>2. adv' \subseteq Recorded /\ fails' \in 0 .. MaxFails
      BY <2>1, HeldIsRecorded DEF TInv, TypeOK
  <2> QED
      BY <2>1, <2>2, CommandTyped
<1>3. IInv
    BY DEF DInv
<1>4. \A rule \in Rules : rule.to \in Media
    BY VaultingAssumption
<1>5. ASSUME NEW fulls \in SUBSET DLEs, NEW lost \in SUBSET Media, Dump(fulls, lost) PROVE TInv'
    BY <1>3, <1>5, DumpTyped
<1>6. ASSUME NEW r, NEW from \in Media, NEW to \in Media, NEW force \in BOOLEAN,
             StartCopy(r, from, to, force)
      PROVE  TInv'
    BY <1>3, <1>6, StartCopyTyped
<1>7. ASSUME NEW from, NEW to \in Media, NEW n, NEW runs, StartSync(from, to, n, runs)
      PROVE  TInv'
    BY <1>3, <1>7, StartSyncTyped
<1> QED
    BY <1>1, <1>2, <1>4, <1>5, <1>6, <1>7, CommandStepsTyped, Zenon DEF Next

\* The catalog, the copies on each medium and the command in progress are what they are
\* declared to be, and an incremental's base is a run that was recorded before it.
THEOREM TypeCorrect == Spec => []TypeOK
<1>1. Init => DInv /\ TInv
    BY InitHolds, InitCounts, InitTyped DEF Init, DInv, Delivery, Busy
<1>2. DInv /\ TInv /\ [Next]_vars => DInv' /\ TInv'
    BY StepKeeps, StepCounts, StepDelivers, TypesKept DEF DInv
<1>3. TInv => TypeOK
    BY DEF TInv
<1> QED
    BY <1>1, <1>2, <1>3, PTL DEF Spec

-----------------------------------------------------------------------------
\* What a reclaim's plan is: the recursive function of ReclaimPlan, unfolded.

\* Sets of numbers have a least; so the smallest of some finite sets is one of them.
LEMMA ASmallest ==
    ASSUME NEW T, IsFiniteSet(T), NEW Bad \in SUBSET (SUBSET T), Bad # {}
    PROVE  \E S \in Bad : \A R \in Bad : Cardinality(S) <= Cardinality(R)
<1> DEFINE sizes == {Cardinality(S) : S \in Bad}
<1>1. \A S \in Bad : Cardinality(S) \in Nat
    BY FS_Subset, FS_CardinalityType
<1>2. sizes \in SUBSET Nat /\ sizes # {}
    BY <1>1
<1>3. PICK k \in sizes : \A l \in sizes : k <= l
  <2> HIDE DEF sizes
  <2> QED
      BY <1>2, Least
<1> QED
    BY <1>3

\* The first of some archives is one of them.
LEMMA FirstIsOne ==
    ASSUME NEW S \in SUBSET (Nat \X Nat), S # {}
    PROVE  First(S) \in S
<1> DEFINE runs == {a[1] : a \in S}
<1>1. runs \in SUBSET Nat /\ runs # {}
    OBVIOUS
<1>2. PICK r \in runs : \A q \in runs : r <= q
  <2> HIDE DEF runs
  <2> QED
      BY <1>1, Least
<1> DEFINE dles == {a[2] : a \in {x \in S : x[1] = r}}
<1>3. dles \in SUBSET Nat /\ dles # {}
    OBVIOUS
<1>4. PICK d \in dles : \A e \in dles : d <= e
  <2> HIDE DEF dles
  <2> QED
      BY <1>3, Least
<1>5. PICK a \in S : a[1] = r /\ a[2] = d
    OBVIOUS
<1>6. ASSUME NEW b \in S PROVE a[1] < b[1] \/ (a[1] = b[1] /\ a[2] <= b[2])
  <2>1. r <= b[1] /\ r \in Nat /\ b[1] \in Nat
      BY <1>2
  <2>2. CASE b[1] = r
    <3>1. b[2] \in dles
        BY <2>2
    <3> QED
        BY <3>1, <1>4, <1>5, <2>2
  <2> QED
      BY <2>1, <2>2, <1>5
<1> QED
    BY <1>5, <1>6 DEF First

\* What a plan says of a set of archives, from what it says of smaller ones: pick is what may
\* go next.
Then(x, plan) == <<x>> \o plan
Deletes(pick, f, S) ==
    IF pick[S] = {} THEN <<>> ELSE Then(First(pick[S]), f[S \ {First(pick[S])}])
Plans(T, pick, f) == f = [S \in SUBSET T |-> Deletes(pick, f, S)]
Picks(T, pick) == \A S \in SUBSET T : pick[S] \subseteq S

\* What is deleted next is there, and one less is left.
LEMMA NextIsOne ==
    ASSUME NEW T \in SUBSET (Nat \X Nat), IsFiniteSet(T), NEW pick, Picks(T, pick),
           NEW S \in SUBSET T, pick[S] # {}
    PROVE  /\ First(pick[S]) \in pick[S] /\ First(pick[S]) \in S
           /\ S \ {First(pick[S])} \in SUBSET T
           /\ Cardinality(S) \in Nat
           /\ Cardinality(S \ {First(pick[S])}) = Cardinality(S) - 1
           /\ Cardinality(S \ {First(pick[S])}) \in Nat
<1>1. pick[S] \subseteq S /\ S \subseteq Nat \X Nat
    BY DEF Picks
<1>2. First(pick[S]) \in pick[S]
    BY <1>1, FirstIsOne
<1>3. IsFiniteSet(S)
    BY FS_Subset
<1>4. IsFiniteSet(S \ {First(pick[S])})
    BY <1>3, FS_RemoveElement
<1> QED
    BY <1>1, <1>2, <1>3, <1>4, FS_RemoveElement, FS_CardinalityType

\* The equation has a solution on the smaller sets, then on those of one more.
LEMMA PlansExist ==
    ASSUME NEW T \in SUBSET (Nat \X Nat), IsFiniteSet(T), NEW pick, Picks(T, pick)
    PROVE  \E f : Plans(T, pick, f)
<1> DEFINE Small(k) == {S \in SUBSET T : Cardinality(S) <= k}
           Upto(k, f) == /\ f = [S \in Small(k) |-> f[S]]
                         /\ \A S \in Small(k) : f[S] = Deletes(pick, f, S)
           Bad == {k \in Nat : ~\E f : Upto(k, f)}
<1>1. \A S \in SUBSET T : Cardinality(S) \in Nat
    BY FS_Subset, FS_CardinalityType
<1>2. Bad = {}
  <2> SUFFICES ASSUME Bad # {} PROVE FALSE
      OBVIOUS
  <2>1. PICK k \in Bad : \A j \in Bad : k <= j
      BY Least
  <2>2. k # 0
    <3>1. Small(0) = {{}}
        BY <1>1, FS_EmptySet, FS_Subset
    <3>2. pick[{}] = {}
        BY DEF Picks
    <3>3. Upto(0, [S \in {{}} |-> <<>>])
        BY <3>1, <3>2 DEF Deletes
    <3>4. \E f : Upto(0, f)
      <4> HIDE DEF Part
      <4> QED
          BY <3>3
    <3> QED
        BY <3>4, <2>1
  <2>3. k - 1 \in Nat /\ k - 1 \notin Bad
    <3>1. k \in Nat
        BY <2>1
    <3>2. k - 1 \in Nat /\ ~(k <= k - 1)
        BY <3>1, <2>2
    <3> HIDE DEF Bad
    <3> QED
        BY <3>2, <2>1
  <2>4. PICK f : Upto(k - 1, f)
      BY <2>3
  <2> DEFINE g == [S \in Small(k) |-> IF Cardinality(S) <= k - 1 THEN f[S] ELSE Deletes(pick, f, S)]
  <2>5. ASSUME NEW S \in Small(k) PROVE g[S] = Deletes(pick, g, S)
    <3>1. S \in SUBSET T /\ Cardinality(S) \in Nat /\ Cardinality(S) <= k /\ k \in Nat
        BY <1>1, <2>1
    <3>2. pick[S] # {} => g[S \ {First(pick[S])}] = f[S \ {First(pick[S])}]
      <4> SUFFICES ASSUME pick[S] # {} PROVE g[S \ {First(pick[S])}] = f[S \ {First(pick[S])}]
          OBVIOUS
      <4>1. /\ S \ {First(pick[S])} \in SUBSET T
            /\ Cardinality(S \ {First(pick[S])}) = Cardinality(S) - 1
          BY <3>1, NextIsOne
      <4>2. Cardinality(S \ {First(pick[S])}) <= k - 1 /\ Cardinality(S \ {First(pick[S])}) <= k
          BY <4>1, <3>1
      <4> QED
          BY <4>1, <4>2
    <3>3. Deletes(pick, g, S) = Deletes(pick, f, S)
      <4> HIDE DEF g
      <4> QED
          BY <3>2 DEF Deletes
    <3>4. CASE Cardinality(S) <= k - 1
      <4>1. S \in Small(k - 1)
          BY <3>1, <3>4
      <4>2. g[S] = f[S]
          BY <3>4
      <4> QED
          BY <4>1, <4>2, <3>3, <2>4
    <3>5. CASE ~(Cardinality(S) <= k - 1)
      <4>1. g[S] = Deletes(pick, f, S)
          BY <3>5
      <4> QED
          BY <4>1, <3>3
    <3> QED
        BY <3>4, <3>5
  <2>6. Upto(k, g)
    <3>1. g = [S \in Small(k) |-> g[S]]
        OBVIOUS
    <3> QED
        BY <3>1, <2>5
  <2> QED
      BY <2>6, <2>1
<1>3. Cardinality(T) \in Nat /\ Cardinality(T) \notin Bad
    BY <1>1, <1>2
<1>4. PICK h : Upto(Cardinality(T), h)
    BY <1>3
<1>5. Small(Cardinality(T)) = SUBSET T
    BY FS_Subset
<1>6. h = [S \in SUBSET T |-> Deletes(pick, h, S)]
    BY <1>4, <1>5
<1> QED
    BY <1>6 DEF Plans

-----------------------------------------------------------------------------
\* What may go next of S, on m down to target.
Pick(m, target, S) ==
    LET free == {a \in S : a[1] \in Free(arch[a[2]], Of(placed[m], a[2]), Of(S, a[2]))}
        condemned == free \cap CondemnedOn(m)
        loose == free \ KeptOn(m)
    IN  IF condemned # {} THEN condemned
        ELSE IF Capacity[m] > 0 /\ Cardinality(S) > target THEN loose ELSE {}
PickOf(m, target) == [S \in SUBSET placed[m] |-> Pick(m, target, S)]

\* ReclaimPlan is a solution of its equation, and there is one.
LEMMA PlanUnfolds ==
    ASSUME NEW m, NEW target, placed[m] \in SUBSET (Nat \X Nat), IsFiniteSet(placed[m])
    PROVE  \E f : /\ Plans(placed[m], PickOf(m, target), f)
                  /\ ReclaimPlan(m, target) = f[placed[m]]
<1> DEFINE P(f) == Plans(placed[m], PickOf(m, target), f)
           f == CHOOSE h : P(h)
<1>1. Picks(placed[m], PickOf(m, target))
    BY DEF Picks, PickOf, Pick
<1>2. \E h : P(h)
    BY <1>1, PlansExist
<1>3. P(f)
  <2> HIDE DEF P
  <2> QED
      BY <1>2
<1>4. ReclaimPlan(m, target) = f[placed[m]]
    BY DEF ReclaimPlan, Plans, Deletes, Then, PickOf, Pick
<1> QED
    BY <1>3, <1>4

\* What a plan deletes in all.
Deleted(plan) == Prefix(plan, Len(plan))

\* A sequence with one more in front.
LEMMA Cons ==
    ASSUME NEW R, NEW g \in Seq(R), NEW x, NEW s, s = Then(x, g)
    PROVE  /\ s \in Seq(R \cup {x}) /\ Len(s) = Len(g) + 1 /\ Len(g) \in Nat
           /\ Deleted(s) = {x} \cup Deleted(g)
<1>1. g \in Seq(R \cup {x}) /\ <<x>> \in Seq(R \cup {x}) /\ Len(g) \in Nat /\ Len(<<x>>) = 1
    OBVIOUS
<1>2. /\ s \in Seq(R \cup {x}) /\ Len(s) = Len(g) + 1
      /\ \A i \in 1 .. Len(g) + 1 : s[i] = IF i = 1 THEN x ELSE g[i - 1]
    BY <1>1 DEF Then
<1>3. ASSUME NEW y \in Prefix(s, Len(g) + 1) PROVE y \in {x} \cup Deleted(g)
  <2>1. PICK i \in 1 .. Len(g) + 1 : y = s[i]
      BY DEF Prefix
  <2>2. CASE i = 1
      BY <1>2, <2>1, <2>2
  <2>3. CASE i # 1
    <3>1. i - 1 \in 1 .. Len(g) /\ y = g[i - 1]
        BY <1>1, <1>2, <2>1, <2>3
    <3> QED
        BY <3>1 DEF Prefix, Deleted
  <2> QED
      BY <2>2, <2>3
<1>4. ASSUME NEW y \in {x} \cup Deleted(g) PROVE y \in Prefix(s, Len(g) + 1)
  <2>1. CASE y = x
    <3>1. 1 \in 1 .. Len(g) + 1 /\ s[1] = x
        BY <1>1, <1>2
    <3> QED
        BY <2>1, <3>1 DEF Prefix
  <2>2. CASE y # x
    <3>1. PICK j \in 1 .. Len(g) : y = g[j]
        BY <2>2 DEF Prefix, Deleted
    <3>2. j + 1 \in 1 .. Len(g) + 1 /\ s[j + 1] = y
        BY <1>1, <1>2, <3>1
    <3> QED
        BY <3>2 DEF Prefix
  <2> QED
      BY <2>1, <2>2
<1>5. Prefix(s, Len(g) + 1) = {x} \cup Deleted(g)
    BY <1>3, <1>4
<1>6. Deleted(s) = {x} \cup Deleted(g)
    BY <1>2, <1>5 DEF Deleted
<1> QED
    BY <1>1, <1>2, <1>6

\* A plan deletes what is there, each once, and nothing that was not to go.
PlanOf(T, pick, f, S) ==
    /\ f[S] \in Seq(S)
    /\ Cardinality(S \ Deleted(f[S])) = Cardinality(S) - Len(f[S])
    /\ \A a \in Deleted(f[S]) : \E R \in SUBSET T : a \in pick[R]

LEMMA PlanFacts ==
    ASSUME NEW T \in SUBSET (Nat \X Nat), IsFiniteSet(T), NEW pick, Picks(T, pick),
           NEW f, Plans(T, pick, f)
    PROVE  \A S \in SUBSET T : PlanOf(T, pick, f, S)
<1> DEFINE Bad == {S \in SUBSET T : ~PlanOf(T, pick, f, S)}
<1> SUFFICES ASSUME Bad # {} PROVE FALSE
    OBVIOUS
<1>1. PICK S \in Bad : \A R \in Bad : Cardinality(S) <= Cardinality(R)
  <2>1. Bad \in SUBSET (SUBSET T)
      OBVIOUS
  <2> HIDE DEF Bad
  <2> QED
      BY <2>1, ASmallest
<1>2. S \in SUBSET T /\ f[S] = Deletes(pick, f, S)
    BY <1>1 DEF Plans
<1>3. Cardinality(S) \in Nat
    BY <1>2, FS_Subset, FS_CardinalityType
<1>4. CASE pick[S] = {}
  <2>1. f[S] = <<>> /\ Deleted(<<>>) = {}
      BY <1>2, <1>4 DEF Deletes, Prefix, Deleted
  <2>2. f[S] \in Seq(S) /\ Len(f[S]) = 0
      BY <2>1
  <2>3. S \ Deleted(f[S]) = S /\ Deleted(f[S]) = {}
      BY <2>1, <2>2
  <2>4. PlanOf(T, pick, f, S)
    <3>1. Cardinality(S \ Deleted(f[S])) = Cardinality(S) - Len(f[S])
      <4>1. Cardinality(S \ Deleted(f[S])) = Cardinality(S)
          BY <2>3, Zenon
      <4>2. Cardinality(S) - Len(f[S]) = Cardinality(S)
          BY <1>3, <2>2
      <4> QED
          BY <4>1, <4>2, Zenon
    <3>2. \A a \in Deleted(f[S]) : \E R \in SUBSET T : a \in pick[R]
        BY <2>3
    <3> QED
        BY <2>2, <3>1, <3>2 DEF PlanOf
  <2> QED
      BY <1>1, <2>4
<1>5. CASE pick[S] # {}
  <2> DEFINE x == First(pick[S])
             Q == S \ {x}
             g == f[Q]
  <2>1. /\ x \in pick[S] /\ x \in S /\ Q \in SUBSET T
        /\ Cardinality(Q) = Cardinality(S) - 1 /\ Cardinality(Q) \in Nat
      BY <1>2, <1>5, NextIsOne
  <2>2. PlanOf(T, pick, f, Q)
    <3>1. ~(Cardinality(S) <= Cardinality(Q))
        BY <1>3, <2>1
    <3> QED
        BY <1>1, <2>1, <3>1
  <2>3. f[S] = Then(x, g)
      BY <1>2, <1>5 DEF Deletes
  <2>4. g \in Seq(Q)
      BY <2>2 DEF PlanOf
  <2> HIDE DEF x, g
  <2>5. /\ f[S] \in Seq(S) /\ Len(f[S]) = Len(g) + 1 /\ Len(g) \in Nat
        /\ Deleted(f[S]) = {x} \cup Deleted(g)
    <3>1. Q \cup {x} = S
        BY <2>1
    <3> HIDE DEF Q
    <3> QED
        BY <2>3, <2>4, <3>1, Cons
  <2>6. S \ Deleted(f[S]) = Q \ Deleted(g)
      BY <2>5
  <2>7. Cardinality(Q \ Deleted(g)) = Cardinality(Q) - Len(g)
      BY <2>2 DEF PlanOf, g
  <2>8. Cardinality(S \ Deleted(f[S])) = Cardinality(S) - Len(f[S])
    <3>1. Cardinality(S \ Deleted(f[S])) = Cardinality(Q) - Len(g)
        BY <2>6, <2>7
    <3>2. /\ Cardinality(S) \in Nat /\ Cardinality(Q) = Cardinality(S) - 1
          /\ Len(f[S]) = Len(g) + 1 /\ Len(g) \in Nat
        BY <1>3, <2>1, <2>5
    <3> HIDE DEF Q
    <3> QED
        BY <3>1, <3>2
  <2>9. \A a \in Deleted(f[S]) : \E R \in SUBSET T : a \in pick[R]
    <3>1. \A a \in Deleted(g) : \E R \in SUBSET T : a \in pick[R]
        BY <2>2 DEF PlanOf, g
    <3> QED
        BY <1>2, <2>1, <2>5, <3>1
  <2>10. PlanOf(T, pick, f, S)
      BY <2>5, <2>8, <2>9 DEF PlanOf
  <2> QED
      BY <1>1, <2>10
<1> QED
    BY <1>4, <1>5

\* Above the target two plans go the same way: the one that stops there has reached it, or
\* what the other does is no more.
LEMMA PlansAgree ==
    ASSUME NEW T \in SUBSET (Nat \X Nat), IsFiniteSet(T), NEW t \in Nat,
           NEW pick, Picks(T, pick), NEW f, Plans(T, pick, f),
           NEW rest, Picks(T, rest), NEW h, Plans(T, rest, h),
           \A S \in SUBSET T : Cardinality(S) > t => pick[S] = rest[S]
    PROVE  \A S \in SUBSET T : Cardinality(S) - Len(f[S]) <= t \/ Len(f[S]) = Len(h[S])
<1> DEFINE Agree(S) == Cardinality(S) - Len(f[S]) <= t \/ Len(f[S]) = Len(h[S])
           Bad == {S \in SUBSET T : ~Agree(S)}
<1> SUFFICES ASSUME Bad # {} PROVE FALSE
    OBVIOUS
<1>1. PICK S \in Bad : \A R \in Bad : Cardinality(S) <= Cardinality(R)
  <2>1. Bad \in SUBSET (SUBSET T)
      OBVIOUS
  <2> HIDE DEF Bad
  <2> QED
      BY <2>1, ASmallest
<1>2. /\ S \in SUBSET T /\ ~Agree(S) /\ f[S] = Deletes(pick, f, S) /\ h[S] = Deletes(rest, h, S)
    BY <1>1 DEF Plans
<1>3. Cardinality(S) \in Nat
    BY <1>2, FS_Subset, FS_CardinalityType
<1>4. \A R \in SUBSET T : Len(f[R]) \in Nat /\ Len(h[R]) \in Nat
  <2>1. \A R \in SUBSET T : f[R] \in Seq(R) /\ h[R] \in Seq(R)
      BY PlanFacts DEF PlanOf
  <2> QED
      BY <2>1
<1>5. Cardinality(S) > t /\ pick[S] = rest[S]
    BY <1>2, <1>3, <1>4
<1>6. pick[S] # {}
  <2> SUFFICES ASSUME pick[S] = {} PROVE FALSE
      OBVIOUS
  <2>1. f[S] = <<>> /\ h[S] = <<>>
      BY <1>2, <1>5 DEF Deletes
  <2> QED
      BY <1>2, <2>1
<1> DEFINE x == First(pick[S])
           Q == S \ {x}
<1>7. /\ x \in S /\ Q \in SUBSET T
      /\ Cardinality(Q) = Cardinality(S) - 1 /\ Cardinality(Q) \in Nat
    BY <1>2, <1>6, NextIsOne
<1>8. Agree(Q)
  <2>1. ~(Cardinality(S) <= Cardinality(Q))
      BY <1>3, <1>7
  <2> QED
      BY <1>1, <1>7, <2>1
<1>9. f[S] = Then(x, f[Q]) /\ h[S] = Then(x, h[Q])
    BY <1>2, <1>5, <1>6 DEF Deletes
<1>10. f[Q] \in Seq(Q) /\ h[Q] \in Seq(Q)
    BY <1>7, PlanFacts DEF PlanOf
<1>11. Len(f[S]) = Len(f[Q]) + 1 /\ Len(h[S]) = Len(h[Q]) + 1
  <2>1. ASSUME NEW g, g \in Seq(Q), NEW s, s = Then(x, g) PROVE Len(s) = Len(g) + 1
    <3> HIDE DEF x, Q
    <3> QED
        BY <2>1, Cons
  <2> HIDE DEF x, Q
  <2> QED
      BY <1>9, <1>10, <2>1
<1>12. Len(f[Q]) \in Nat /\ Len(h[Q]) \in Nat
    BY <1>4, <1>7
<1> HIDE DEF Q
<1> QED
    BY <1>2, <1>3, <1>7, <1>8, <1>11, <1>12

\* What a plan deletes of a medium is there, each archive once, and is not kept.
LEMMA PlanIsSound ==
    ASSUME IInv, TInv, NEW m \in Media, NEW target, NEW plan, plan = ReclaimPlan(m, target)
    PROVE  /\ placed[m] \in SUBSET (Nat \X Nat) /\ IsFiniteSet(placed[m])
           /\ Cardinality(placed[m]) \in Nat /\ Len(plan) \in Nat
           /\ Cardinality(placed[m] \ Deleted(plan)) = Cardinality(placed[m]) - Len(plan)
           /\ IsFiniteSet(placed[m] \ Deleted(plan))
           /\ \A a \in Deleted(plan) : a \in CondemnedOn(m) \/ a \notin KeptOn(m)
<1> DEFINE T == placed[m]
           pick == PickOf(m, target)
<1>1. T \in SUBSET Archives
    BY DEF TInv, TypeOK
<1>2. IsFiniteSet(Archives) /\ Archives \subseteq Nat \X Nat
  <2>1. IsFiniteSet(1 .. MaxRuns) /\ IsFiniteSet(DLEs) /\ DLEs \subseteq Nat
      BY VaultingAssumption, FS_Interval
  <2>2. 1 .. MaxRuns \subseteq Nat
      BY VaultingAssumption
  <2> QED
      BY <2>1, <2>2, FS_Product DEF Archives
<1>3. T \in SUBSET (Nat \X Nat) /\ IsFiniteSet(T)
    BY <1>1, <1>2, FS_Subset
<1>4. PICK f : Plans(T, pick, f) /\ plan = f[T]
    BY <1>3, PlanUnfolds
<1>5. Picks(T, pick)
    BY DEF Picks, PickOf, Pick
<1>6. \A R \in SUBSET T : \A a \in pick[R] : a \in CondemnedOn(m) \/ a \notin KeptOn(m)
    BY DEF PickOf, Pick
<1> HIDE DEF T, pick
<1>7. PlanOf(T, pick, f, T)
    BY <1>3, <1>4, <1>5, PlanFacts
<1>8. plan \in Seq(T) /\ Cardinality(T \ Deleted(plan)) = Cardinality(T) - Len(plan)
    BY <1>4, <1>7 DEF PlanOf
<1>9. Cardinality(T) \in Nat /\ Len(plan) \in Nat /\ IsFiniteSet(T \ Deleted(plan))
    BY <1>3, <1>8, FS_CardinalityType, FS_Subset
<1>10. \A a \in Deleted(plan) : a \in CondemnedOn(m) \/ a \notin KeptOn(m)
    BY <1>4, <1>6, <1>7 DEF PlanOf
<1> QED
    BY <1>3, <1>8, <1>9, <1>10 DEF T

\* A plan that stops has reached its target, or there is no more to reclaim.
LEMMA PlanReaches ==
    ASSUME IInv, TInv, NEW m \in Media, Capacity[m] > 0, NEW t \in Nat
    PROVE  \/ Cardinality(placed[m]) - Len(ReclaimPlan(m, t)) <= t
           \/ Len(ReclaimPlan(m, t)) = Len(ReclaimPlan(m, 0))
<1> DEFINE T == placed[m]
           pick == PickOf(m, t)
           rest == PickOf(m, 0)
<1>1. T \in SUBSET (Nat \X Nat) /\ IsFiniteSet(T)
    BY PlanIsSound
<1>2. PICK f : Plans(T, pick, f) /\ ReclaimPlan(m, t) = f[T]
    BY <1>1, PlanUnfolds
<1>3. PICK h : Plans(T, rest, h) /\ ReclaimPlan(m, 0) = h[T]
    BY <1>1, PlanUnfolds
<1>4. Picks(T, pick) /\ Picks(T, rest)
    BY DEF Picks, PickOf, Pick
<1>5. ASSUME NEW S \in SUBSET T, Cardinality(S) > t PROVE pick[S] = rest[S]
  <2>1. Cardinality(S) \in Nat
      BY <1>1, FS_Subset, FS_CardinalityType
  <2>2. Cardinality(S) > 0
      BY <1>5, <2>1
  <2> QED
      BY <1>5, <2>2 DEF PickOf, Pick
<1> HIDE DEF T, pick, rest
<1>6. Cardinality(T) - Len(f[T]) <= t \/ Len(f[T]) = Len(h[T])
    BY <1>1, <1>2, <1>3, <1>4, <1>5, PlansAgree
<1> QED
    BY <1>2, <1>3, <1>6 DEF T

-----------------------------------------------------------------------------
\* Copies fit.

\* Room is made for work in hand, and what is being copied fits.
Room ==
    /\ Busy /\ cmd.st \in {"reclaim", "room"} => cmd.jobs # {}
    /\ CopiesFitCapacity

RInv == DInv /\ TInv /\ Room

\* Two sets fit where their numbers do.
LEMMA Fitting ==
    ASSUME NEW S, NEW R, IsFiniteSet(S), IsFiniteSet(R), NEW c \in Nat,
           Cardinality(S) + Cardinality(R) <= c
    PROVE  Cardinality(S \cup R) <= c
<1>1. IsFiniteSet(S \cap R) /\ Cardinality(S \cap R) \in Nat
    BY FS_Subset, FS_CardinalityType
<1>2. /\ Cardinality(S) \in Nat /\ Cardinality(R) \in Nat
      /\ Cardinality(S \cup R) = Cardinality(S) + Cardinality(R) - Cardinality(S \cap R)
    BY FS_Union, FS_CardinalityType
<1> QED
    BY <1>1, <1>2

\* What a copy has in hand is of finitely many archives.
LEMMA JobsAreFinite ==
    ASSUME TInv, Busy
    PROVE  IsFiniteSet(cmd.jobs) /\ Cardinality(cmd.jobs) \in Nat
<1>1. IsFiniteSet(1 .. MaxRuns) /\ IsFiniteSet(DLEs)
    BY VaultingAssumption, FS_Interval
<1>2. IsFiniteSet(Archives)
    BY <1>1, FS_Product DEF Archives
<1>3. cmd.jobs \in SUBSET Archives
    BY DEF TInv, TypeOK
<1> QED
    BY <1>2, <1>3, FS_Subset, FS_CardinalityType

\* Room is made, or the copy does not begin.
LEMMA MakeRoomFits == ASSUME RInv, MakeRoom PROVE Room'
<1> DEFINE n == Cardinality(cmd.jobs)
           to == cmd.to
           plan == ReclaimPlan(to, Capacity[to] - n)
<1>1. /\ Busy /\ cmd.st = "room" /\ cmd.jobs # {} /\ to \in Media /\ DOMAIN cmd = Fields
      /\ IInv /\ TInv /\ DOMAIN placed = Media /\ Capacity[to] \in Nat
    BY VaultingAssumption DEF RInv, DInv, IInv, HasTarget, Delivery, Working, Room, MakeRoom
<1>2. n \in Nat /\ n # 0 /\ IsFiniteSet(cmd.jobs)
    BY <1>1, JobsAreFinite, FS_EmptySet
<1>3. /\ cmd'.jobs = cmd.jobs /\ cmd'.to = to
      /\ Infeasible(to, n) => cmd'.st = "next"
      /\ ~Infeasible(to, n) => cmd'.st = "copy"
    BY <1>1 DEF MakeRoom, Fields
<1> SUFFICES ASSUME ~Infeasible(to, n), Capacity[to] > 0
             PROVE  Cardinality(placed'[to] \cup cmd.jobs) <= Capacity[to]
    BY <1>3 DEF Room, CopiesFitCapacity
<1>4. Cardinality(placed[to]) \in Nat /\ IsFiniteSet(placed[to])
    BY <1>1, PlanIsSound
<1>5. CASE Fits(to, n)
  <2>1. placed' = placed
      BY <1>5 DEF MakeRoom
  <2>2. Cardinality(placed[to]) + n <= Capacity[to]
      BY <1>2, <1>5 DEF Fits
  <2> QED
      BY <1>1, <1>2, <1>4, <2>1, <2>2, Fitting
<1>6. CASE ~Fits(to, n)
  <2>1. RemoveArchives(to, Prefix(plan, Len(plan)))
      BY <1>6 DEF MakeRoom
  <2>2. placed'[to] = placed[to] \ Deleted(plan)
      BY <1>1, <2>1 DEF RemoveArchives, Deleted
  <2>3. /\ Len(ReclaimPlan(to, 0)) \in Nat
        /\ Cardinality(placed[to]) - Len(ReclaimPlan(to, 0)) \in Nat
    <3>1. PICK all : all = ReclaimPlan(to, 0)
        OBVIOUS
    <3>2. /\ Len(all) \in Nat /\ IsFiniteSet(placed[to] \ Deleted(all))
          /\ Cardinality(placed[to] \ Deleted(all)) = Cardinality(placed[to]) - Len(all)
        BY <1>1, <3>1, PlanIsSound
    <3> QED
        BY <3>1, <3>2, FS_CardinalityType
  <2>4. Cardinality(placed[to]) - Len(ReclaimPlan(to, 0)) + n <= Capacity[to]
      BY <1>1, <1>2, <1>6, <2>3 DEF Infeasible, Residual
  <2>5. Capacity[to] - n \in Nat
      BY <1>1, <1>2, <1>4, <2>3, <2>4
  <2>6. /\ Len(plan) \in Nat /\ IsFiniteSet(placed[to] \ Deleted(plan))
        /\ Cardinality(placed[to] \ Deleted(plan)) = Cardinality(placed[to]) - Len(plan)
      BY <1>1, PlanIsSound
  <2>7. Cardinality(placed[to]) - Len(plan) + n <= Capacity[to]
    <3>1. \/ Cardinality(placed[to]) - Len(plan) <= Capacity[to] - n
          \/ Len(plan) = Len(ReclaimPlan(to, 0))
        BY <1>1, <2>5, PlanReaches
    <3> HIDE DEF plan
    <3> QED
        BY <1>1, <1>2, <1>4, <2>3, <2>4, <2>6, <3>1
  <2> HIDE DEF plan, n
  <2> QED
      BY <1>1, <1>2, <2>2, <2>6, <2>7, Fitting DEF n
<1> QED
    BY <1>5, <1>6

\* The other steps of a command keep what fits.
LEMMA RoomKept == RInv /\ [Next]_vars => Room'
<1> SUFFICES ASSUME RInv, [Next]_vars PROVE Room'
    OBVIOUS
<1> USE DEF Room, CopiesFitCapacity, Fields
<1>1. Busy => DOMAIN cmd = Fields /\ IInv /\ TInv /\ cmd.to \in Media /\ DOMAIN placed = Media
    BY DEF RInv, DInv, IInv, HasTarget, Delivery, Working
<1>2. ASSUME ~Busy' PROVE Room'
    BY <1>2
<1>3. CASE UNCHANGED vars
  <2>1. UNCHANGED <<cmd, placed>>
      BY <1>3 DEF vars
  <2> QED
      BY <2>1 DEF RInv, Busy, Idle
<1>4. ASSUME NEW to, NEW force, NEW todo, Start(to, force, todo) PROVE Room'
  <2>1. cmd'.st = "next"
      BY <1>4 DEF Start
  <2> QED
      BY <2>1
<1>5. CASE NextSource
  <2> DEFINE first == CHOOSE p \in cmd.todo : \A q \in cmd.todo : p[2][1] <= q[2][1]
             jobs == {p[2] : p \in {q \in cmd.todo : q[1] = first[1]}}
             left == {q \in cmd.todo : q[1] # first[1]}
  <2>1. /\ cmd' = [cmd EXCEPT !.st = IF cmd.force THEN "reclaim" ELSE "room",
                              !.src = first[1], !.jobs = jobs, !.todo = left]
        /\ Busy /\ cmd.todo # {}
      BY <1>5 DEF NextSource
  <2>2. \A p \in cmd.todo : p[2][1] \in Nat
      BY <2>1 DEF RInv, DInv, Delivery, Working
  <2>3. {p[2][1] : p \in cmd.todo} \in SUBSET Nat /\ {p[2][1] : p \in cmd.todo} # {}
      BY <2>1, <2>2
  <2>4. PICK k \in {p[2][1] : p \in cmd.todo} : \A l \in {p[2][1] : p \in cmd.todo} : k <= l
      BY <2>3, Least
  <2>5. \E p \in cmd.todo : \A q \in cmd.todo : p[2][1] <= q[2][1]
      BY <2>4
  <2>6. first \in cmd.todo
      BY <2>5
  <2> HIDE DEF first
  <2>7. jobs # {}
      BY <2>6
  <2> HIDE DEF jobs, left
  <2>8. cmd'.jobs = jobs /\ cmd'.st # "copy"
      BY <1>1, <2>1
  <2> QED
      BY <2>7, <2>8
<1>6. CASE ReclaimCopy \/ ReclaimDone
  <2>1. /\ cmd' = cmd \/ cmd' = [cmd EXCEPT !.st = "room"]
        /\ Busy /\ cmd.st = "reclaim"
      BY <1>6 DEF ReclaimCopy, ReclaimDone
  <2> QED
      BY <1>1, <2>1 DEF RInv
<1>7. CASE MakeRoom
    BY <1>7, MakeRoomFits
<1>8. ASSUME NEW a, CopyOne(a) PROVE Room'
  <2>1. /\ Busy /\ cmd.st = "copy" /\ a \in cmd.jobs /\ cmd' = [cmd EXCEPT !.jobs = @ \ {a}]
        /\ placed' = [placed EXCEPT ![cmd.to] = @ \cup {a}]
      BY <1>8 DEF CopyOne
  <2>2. cmd'.st = "copy" /\ cmd'.to = cmd.to /\ cmd'.jobs = cmd.jobs \ {a}
      BY <1>1, <2>1
  <2>3. placed'[cmd.to] \cup cmd'.jobs = placed[cmd.to] \cup cmd.jobs
      BY <1>1, <2>1, <2>2
  <2> QED
      BY <2>1, <2>2, <2>3 DEF RInv
<1>9. ASSUME NEW a, CopyFails(a) PROVE Room'
  <2>1. PICK flight \in SUBSET (cmd.jobs \ {a}) : cmd' = [cmd EXCEPT !.jobs = flight, !.failed = TRUE]
      BY <1>9 DEF CopyFails
  <2>2. Busy /\ cmd.st = "copy" /\ placed' = placed
      BY <1>9 DEF CopyFails
  <2>3. cmd'.st = "copy" /\ cmd'.to = cmd.to /\ cmd'.jobs = flight
      BY <1>1, <2>1, <2>2
  <2>4. placed[cmd.to] \cup flight \in SUBSET (placed[cmd.to] \cup cmd.jobs)
      OBVIOUS
  <2>5. IsFiniteSet(placed[cmd.to]) /\ IsFiniteSet(cmd.jobs)
      BY <1>1, <2>2, PlanIsSound, JobsAreFinite
  <2>6. IsFiniteSet(placed[cmd.to] \cup cmd.jobs)
      BY <2>5, FS_Union
  <2>7. /\ Cardinality(placed[cmd.to] \cup flight) <= Cardinality(placed[cmd.to] \cup cmd.jobs)
        /\ Cardinality(placed[cmd.to] \cup flight) \in Nat
        /\ Cardinality(placed[cmd.to] \cup cmd.jobs) \in Nat
      BY <2>4, <2>6, FS_Subset, FS_CardinalityType
  <2>8. Capacity[cmd.to] \in Nat
      BY <1>1, <2>2, VaultingAssumption
  <2>9. Capacity[cmd.to] > 0 => Cardinality(placed[cmd.to] \cup cmd.jobs) <= Capacity[cmd.to]
      BY <2>2 DEF RInv
  <2>10. Capacity[cmd.to] > 0 => Cardinality(placed[cmd.to] \cup flight) <= Capacity[cmd.to]
      BY <2>7, <2>8, <2>9
  <2> QED
      BY <2>2, <2>3, <2>10
<1>10. CASE CopiesDone \/ ReclaimFails
  <2>1. /\ \/ cmd' = [cmd EXCEPT !.st = "next"]
           \/ cmd' = [cmd EXCEPT !.st = "next", !.failed = TRUE]
        /\ Busy
      BY <1>10 DEF CopiesDone, ReclaimFails
  <2> QED
      BY <1>1, <2>1
<1>11. ASSUME \/ Finish \/ Crash \/ \E m \in Media : Prune(m)
              \/ \E fulls \in SUBSET DLEs, lost \in SUBSET Media : Dump(fulls, lost)
       PROVE  Room'
  <2>1. ~Busy'
      BY <1>11 DEF Finish, Crash, Prune, Dump, Busy
  <2> QED
      BY <1>2, <2>1
<1> QED
    BY <1>3, <1>4, <1>5, <1>6, <1>7, <1>8, <1>9, <1>10, <1>11, Zenon DEF Next, StartCopy, StartSync

\* No copy in any order of landing takes a bounded target over its capacity: MakeRoom reclaims
\* for what is to be copied, or the copy fails before its first byte (room.go, copy.go).
THEOREM CopiesAlwaysFit == Spec => []CopiesFitCapacity
<1>1. Init => RInv
    BY InitHolds, InitCounts, InitTyped DEF Init, RInv, DInv, Delivery, Room, CopiesFitCapacity, Busy
<1>2. RInv /\ [Next]_vars => RInv'
    BY StepKeeps, StepCounts, StepDelivers, TypesKept, RoomKept DEF RInv, DInv
<1>3. RInv => CopiesFitCapacity
    BY DEF RInv, Room
<1> QED
    BY <1>1, <1>2, <1>3, PTL DEF Spec

\* A copy or sync keeps to its plan (copy.go): it delivers it, within the capacity.
THEOREM PlansAreKept == Spec => CopiesKeepTheirPlan
    BY CopiesAlwaysFit, PlansAreDelivered, PTL DEF CopiesKeepTheirPlan

-----------------------------------------------------------------------------
\* What a prune takes.

\* Of one DLE: levels 0 and 1, an incremental's base a full that is recorded before it.
TwoLevels(a, S) ==
    \A r \in S : /\ a[r].level \in 0 .. 1
                 /\ a[r].level = 1 => /\ a[r].base \in Nat \ {0} /\ a[r].base < r
                                      /\ a[r].base \in S => a[a[r].base].level = 0

\* Then a run can be restored when it is a full, or its base is there.
LEMMA ChainOfTwo ==
    ASSUME NEW a, NEW n \in Nat, NEW S \in SUBSET (1 .. n), TwoLevels(a, S), NEW r \in S
    PROVE  ChainIn(a, S)[r] # {} <=> a[r].level = 0 \/ a[r].base \in S
<1>1. ASSUME NEW q \in S
      PROVE  BaseOf(a, S, q) = IF a[q].level = 1 /\ a[q].base \in S THEN a[q].base ELSE 0
  <2>1. CASE a[q].level = 0
      BY <2>1 DEF BaseOf
  <2>2. CASE a[q].level = 1
    <3> DEFINE old == {x \in S : x < q} \cap {a[q].base}
    <3>1. BaseOf(a, S, q) = Newest(old)
        BY <2>2 DEF BaseOf, TwoLevels
    <3>2. CASE a[q].base \in S
      <4>1. old = {a[q].base} /\ old \in SUBSET (1 .. n) /\ old # {}
          BY <2>2, <3>2 DEF TwoLevels
      <4> HIDE DEF old
      <4>2. Newest(old) \in old
          BY <4>1, NewestIsOne
      <4> QED
          BY <2>2, <3>1, <3>2, <4>1, <4>2
    <3>3. CASE a[q].base \notin S
      <4>1. old = {}
          BY <3>3
      <4> QED
          BY <2>2, <3>1, <3>3, <4>1 DEF Newest
    <3> QED
        BY <3>2, <3>3
  <2> QED
      BY <2>1, <2>2 DEF TwoLevels
<1> DEFINE L(f, q) == LET b == BaseOf(a, S, q)
                      IN  IF a[q].level = 0 THEN {q}
                          ELSE IF b = 0 \/ f[b] = {} THEN {}
                          ELSE {q} \cup f[b]
           P(f) == f = [q \in S |-> L(f, q)]
           g == [q \in S |-> IF a[q].level = 0 THEN {q}
                             ELSE IF a[q].base \in S THEN {q, a[q].base} ELSE {}]
<1>2. \A q \in S : a[q].level \in {0, 1} /\ (a[q].level = 1 => a[q].base # 0)
    BY DEF TwoLevels
<1>3. ASSUME NEW q \in S PROVE g[q] = L(g, q)
  <2>1. CASE a[q].level = 0
      BY <2>1
  <2>2. CASE a[q].level = 1 /\ a[q].base \notin S
    <3>1. BaseOf(a, S, q) = 0
        BY <1>1, <2>2
    <3> QED
        BY <2>2, <3>1
  <2>3. CASE a[q].level = 1 /\ a[q].base \in S
    <3>1. BaseOf(a, S, q) = a[q].base /\ a[q].base # 0
        BY <1>1, <1>2, <2>3
    <3>2. a[a[q].base].level = 0
        BY <2>3 DEF TwoLevels
    <3>3. g[a[q].base] = {a[q].base}
        BY <2>3, <3>2
    <3>4. g[q] = {q, a[q].base}
        BY <2>3
    <3>5. L(g, q) = {q} \cup g[a[q].base]
      <4> HIDE DEF g
      <4> QED
          BY <2>3, <3>1, <3>3
    <3> QED
        BY <3>3, <3>4, <3>5
  <2> QED
      BY <1>2, <2>1, <2>2, <2>3
<1>4. P(g)
    BY <1>3
<1>5. ChainIn(a, S) = CHOOSE f : P(f)
    BY DEF ChainIn
<1>6. P(ChainIn(a, S))
  <2>1. \E f : P(f)
    <3> HIDE DEF P
    <3> QED
        BY <1>4
  <2>2. P(CHOOSE f : P(f))
    <3> HIDE DEF P
    <3> QED
        BY <2>1
  <2> QED
      BY <1>5, <2>2
<1> DEFINE c == ChainIn(a, S)
<1>7. \A q \in S : c[q] = L(c, q)
  <2> HIDE DEF c
  <2>1. c = [q \in S |-> L(c, q)]
      BY <1>6 DEF c
  <2> QED
      BY <2>1
<1> HIDE DEF c
<1>8. CASE a[r].level = 0
    BY <1>7, <1>8 DEF c
<1>9. CASE a[r].level = 1 /\ a[r].base \notin S
  <2>1. BaseOf(a, S, r) = 0
      BY <1>1, <1>9
  <2>2. c[r] = L(c, r)
      BY <1>7
  <2>3. c[r] = {}
      BY <1>9, <2>1, <2>2
  <2> QED
      BY <1>9, <2>3 DEF c
<1>10. CASE a[r].level = 1 /\ a[r].base \in S
  <2>1. BaseOf(a, S, r) = a[r].base /\ a[r].base # 0 /\ a[a[r].base].level = 0
      BY <1>1, <1>2, <1>10 DEF TwoLevels
  <2>2. c[a[r].base] = {a[r].base}
      BY <1>7, <1>10, <2>1
  <2>3. c[r] = L(c, r)
      BY <1>7
  <2>4. c[r] = {r} \cup c[a[r].base]
      BY <1>10, <2>1, <2>2, <2>3
  <2> QED
      BY <1>10, <2>2, <2>4 DEF c
<1> QED
    BY <1>2, <1>8, <1>9, <1>10

\* What is owed and can be replayed is kept, where the latest run anchors.
LEMMA OwedIsKept ==
    ASSUME NEW a, NEW n \in Nat, NEW all \in SUBSET (1 .. n), NEW on \in SUBSET all,
           NEW young \in SUBSET on, TwoLevels(a, on), TwoLevels(a, all),
           NEW r \in on, ChainIn(a, on)[r] # {},
           r >= Newest(Fulls(a, all)) \/ r \in young,
           Newest(on) \notin Stranded(a, all)
    PROVE  r \in Kept(a, on, all, young) /\ r \notin Condemned(a, on, all, young)
<1>1. on \in SUBSET (1 .. n) /\ r \in all /\ r \in 1 .. n
    OBVIOUS
<1>2. a[r].level = 0 \/ a[r].base \in on
    BY <1>1, ChainOfTwo
<1>3. r \notin Stranded(a, all)
  <2>1. ChainIn(a, all)[r] # {}
      BY <1>1, <1>2, ChainOfTwo
  <2> QED
      BY <1>1, <2>1 DEF Stranded, Restorable
<1>4. r \notin Condemned(a, on, all, young)
    BY <1>3 DEF Condemned
<1>5. CASE r \in young
    BY <1>4, <1>5 DEF Kept
<1>6. CASE r >= Newest(Fulls(a, all))
  <2> DEFINE latest == Newest(on)
             F == Fulls(a, {q \in on : q <= latest})
             full == Newest(F)
  <2>1. latest \in on /\ \A q \in on : q <= latest
      BY <1>1, NewestIsOne
  <2>2. latest \in Anchors(a, on, all, young)
      BY <2>1 DEF Anchors
  <2>3. F # {}
    <3>1. CASE a[r].level = 0
        BY <2>1, <3>1 DEF Fulls
    <3>2. CASE a[r].level # 0
      <4>1. a[r].base \in on /\ a[a[r].base].level = 0
          BY <1>2, <3>2 DEF TwoLevels
      <4> QED
          BY <2>1, <4>1 DEF Fulls
    <3> QED
        BY <3>1, <3>2
  <2>4. F \in SUBSET (1 .. n) /\ F \subseteq Fulls(a, all) /\ Fulls(a, all) \in SUBSET (1 .. n)
      BY <1>1 DEF Fulls
  <2>5. full \in F
    <3> HIDE DEF F
    <3> QED
        BY <2>3, <2>4, NewestIsOne
  <2>6. full \in Fulls(a, all) /\ full \in 1 .. n
      BY <2>4, <2>5
  <2>7. full <= Newest(Fulls(a, all)) /\ Newest(Fulls(a, all)) \in 1 .. n
    <3>1. Fulls(a, all) # {}
        BY <2>6
    <3> QED
        BY <2>4, <2>6, <3>1, NewestIsOne
  <2>8. full # 0 /\ full <= r /\ r <= latest
      BY <1>1, <1>6, <2>1, <2>6, <2>7
  <2>9. r \in Pins(a, on, latest)
    <3>1. Pins(a, on, latest) = IF full = 0 THEN {} ELSE {q \in on : full <= q /\ q <= latest}
        BY DEF Pins
    <3> HIDE DEF full
    <3> QED
        BY <2>8, <3>1
  <2> QED
      BY <1>4, <2>2, <2>9 DEF Kept
<1> QED
    BY <1>5, <1>6

\* An archive that a plan deletes is not one a sync would have to bring back.
LEMMA PlanSpares ==
    ASSUME IInv, TInv, NEW m \in Media, NEW a \in Deleted(ReclaimPlan(m, 0)), a \in placed[m],
           OwesTo(m, a), ~LatestStranded(m, a[2])
    PROVE  ChainIn(arch[a[2]], OnMedium(m, a[2]))[a[1]] = {}
<1> DEFINE r == a[1]
           d == a[2]
           on == OnMedium(m, d)
           all == Of(adv, d)
           young == YoungOn(m, d)
<1>1. a \in CondemnedOn(m) \/ a \notin KeptOn(m)
    BY PlanIsSound
<1>2. d \in DLEs /\ r \in on /\ young \subseteq on /\ last \in Nat
  <2>1. a \in Archives
      BY DEF TInv, TypeOK
  <2>2. d \in DLEs
      BY <2>1 DEF Archives
  <2>3. r \in on /\ young \subseteq on
      BY DEF OnMedium, Of, YoungOn
  <2>4. last \in Nat
      BY VaultingAssumption DEF TInv, TypeOK
  <2> QED
      BY <2>2, <2>3, <2>4
<1>3. on \subseteq all
    BY DEF OnMedium, Of, TInv, TypeOK
<1>4. all \subseteq DOMAIN arch[d] /\ DOMAIN arch[d] \subseteq 1 .. last
    BY <1>2 DEF Of, TInv, TypeOK
<1>5. ASSUME NEW q \in DOMAIN arch[d]
      PROVE  /\ arch[d][q].level \in 0 .. 1
             /\ arch[d][q].level = 1 => /\ arch[d][q].base \in Nat \ {0} /\ arch[d][q].base < q
                                        /\ arch[d][arch[d][q].base].level = 0
  <2>1. /\ arch[d][q].level \in 0 .. 1 /\ arch[d][q].base \in 0 .. q - 1 /\ q \in 1 .. last
        /\ arch[d][q].level = 1 => /\ arch[d][q].base \in 1 .. last
                                   /\ arch[d][arch[d][q].base].level = 0
      BY <1>2, <1>4 DEF TInv, TypeOK, BasesAreFulls
  <2> QED
      BY <1>2, <2>1
<1>6. TwoLevels(arch[d], on) /\ TwoLevels(arch[d], all)
    BY <1>3, <1>4, <1>5 DEF TwoLevels
<1>7. r >= Newest(Fulls(arch[d], all)) \/ r \in young
    BY <1>2 DEF OwesTo, LastFullRun, YoungOn
<1>8. Newest(on) \notin Stranded(arch[d], all)
    BY DEF LatestStranded
<1>9. /\ a \in KeptOn(m) <=> r \in Kept(arch[d], on, all, young)
      /\ a \in CondemnedOn(m) <=> r \in Condemned(arch[d], on, all, young)
    BY DEF KeptOn, CondemnedOn
<1> HIDE DEF r, d, on, all, young
<1>10. ASSUME ChainIn(arch[d], on)[r] # {}
       PROVE  r \in Kept(arch[d], on, all, young) /\ r \notin Condemned(arch[d], on, all, young)
    BY <1>2, <1>3, <1>4, <1>6, <1>7, <1>8, <1>10, OwedIsKept
<1>11. ChainIn(arch[d], on)[r] = {}
    BY <1>1, <1>9, <1>10
<1> QED
    BY <1>11 DEF r, d, on

\* Between commands only a prune takes anything, and what it takes is of its plan.
LEMMA PruneSpares ==
    ASSUME IInv, TInv, [Next]_vars, ~Busy, ~Busy', last' = last,
           NEW m \in Media, NEW a \in placed[m] \ placed'[m], OwesTo(m, a), ~LatestStranded(m, a[2])
    PROVE  ChainIn(arch[a[2]], OnMedium(m, a[2]))[a[1]] = {}
<1>1. placed' # placed
    OBVIOUS
<1>2. ASSUME NEW fulls, NEW lost PROVE ~Dump(fulls, lost)
  <2>1. last' # last + 1
      BY VaultingAssumption DEF TInv, TypeOK
  <2> QED
      BY <2>1 DEF Dump
<1>3. PICK x \in Media : Prune(x)
  <2>1. ASSUME NEW to, NEW force, NEW todo PROVE ~Start(to, force, todo)
      BY <1>1 DEF Start
  <2>2. ~(NextSource \/ ReclaimCopy \/ ReclaimDone \/ ReclaimFails \/ MakeRoom \/ CopiesDone
          \/ Finish \/ Crash)
      BY DEF NextSource, ReclaimCopy, ReclaimDone, ReclaimFails, MakeRoom, CopiesDone, Finish, Crash
  <2>3. ASSUME NEW b PROVE ~CopyOne(b) /\ ~CopyFails(b)
      BY DEF CopyOne, CopyFails
  <2>4. ~UNCHANGED vars
      BY <1>1 DEF vars
  <2> QED
      BY <1>2, <2>1, <2>2, <2>3, <2>4, Zenon DEF Next, StartCopy, StartSync
<1> DEFINE plan == ReclaimPlan(x, 0)
<1>4. PICK k \in 1 .. Len(plan) : RemoveArchives(x, Prefix(plan, k))
    BY <1>3 DEF Prune
<1>5. Len(plan) \in Nat
    BY PlanIsSound
<1> HIDE DEF plan
<1>6. m = x /\ a \in Prefix(plan, k) /\ a \in placed[m]
    BY <1>4 DEF RemoveArchives, IInv
<1>7. a \in Deleted(plan)
    BY <1>5, <1>6 DEF Prefix, Deleted
<1> QED
    BY <1>6, <1>7, PlanSpares DEF plan

\* Retention never takes from a medium what the coverage says it is owed and it can replay,
\* so a prune and a sync do not undo each other (retention.go, coverage.go).
THEOREM PrunesSpareOwed == Spec => PruneSparesOwed
<1>1. Init => RInv
    BY InitHolds, InitCounts, InitTyped DEF Init, RInv, DInv, Delivery, Room, CopiesFitCapacity, Busy
<1>2. RInv /\ [Next]_vars => RInv'
    BY StepKeeps, StepCounts, StepDelivers, TypesKept, RoomKept DEF RInv, DInv
<1>3. RInv /\ [Next]_vars =>
        (~Busy /\ ~Busy' /\ last' = last =>
           \A m \in Media : \A a \in placed[m] \ placed'[m] :
             OwesTo(m, a) /\ ~LatestStranded(m, a[2]) =>
               ChainIn(arch[a[2]], OnMedium(m, a[2]))[a[1]] = {})
    BY PruneSpares DEF RInv, DInv
<1> QED
    BY <1>1, <1>2, <1>3, PTL DEF Spec, PruneSparesOwed
=============================================================================
