----------------------------- MODULE DumpCycle -----------------------------
(***************************************************************************)
(* One DLE over its nb dump, nb prune and nb reset runs: the planner picks *)
(* a level and a base run from the catalog's history, the archiver dumps   *)
(* against the snapshot its library holds for the level below, and the     *)
(* snapshot is promoted only after the archive is committed.  Two records  *)
(* of what an incremental is based on - the catalog's BaseRun and the      *)
(* host's snapshot - that failed dumps, crashes, tripped landings, pruning *)
(* and lost state can pull apart.                                          *)
(*                                                                         *)
(* internal/planner/planner.go, internal/scheduler/resolve.go,             *)
(* internal/dumper/encode.go, internal/archiver/gnutar/snapshot.go,        *)
(* internal/catalog/history.go, internal/accounting/prune.go, with the     *)
(* operators of Chains.  The workdir lock lets one command run at a time.  *)
(***************************************************************************)
EXTENDS Chains, Sequences

CONSTANTS Media,      \* the landings of the DLE's route
          MaxLevel,   \* planner.MaxLevel
          MaxRuns,    \* bound: archives ever committed
          MaxLosses   \* bound: snapshots that become unusable

CycleAssumption ==
  /\ MaxLevel \in Nat \ {0} /\ MaxRuns \in Nat /\ MaxLosses \in Nat

VARIABLES arch,       \* run -> its archive's level, recorded base, and the run whose
                      \* state the snapshot it was dumped against held (0 for a full)
          placed,     \* run -> media the catalog places it on
          snapshot,   \* level -> run whose state the live snapshot holds, 0 for unusable
          forced,     \* nb reset: the force-full directive
          step,       \* where nb dump is with the DLE
          plan,       \* its planned level and base run
          prune,      \* a reclamation under way: the medium, and the floor it computed
          aged,       \* runs up to this one are past every minimum age
          losses

cycleVars == <<arch, placed, snapshot, forced, step, plan, prune, aged, losses>>

Runs == 1..Len(arch)
Levels == 0..MaxLevel
On(m) == {r \in Runs : m \in placed[r]}
InCatalog == {r \in Runs : placed[r] # {}}

NoPlan == [level |-> 0, base |-> 0]
NoPrune == [on |-> {}, kept |-> {}, condemned |-> {}, medium |-> {}]

CycleInit ==
  /\ arch = <<>> /\ placed = <<>>
  /\ snapshot = [l \in Levels |-> 0]
  /\ forced = FALSE
  /\ step = "idle" /\ plan = NoPlan
  /\ prune = NoPrune
  /\ aged = 0 /\ losses = 0
-----------------------------------------------------------------------------
(* The plan. *)

RunsAt(l) == {r \in InCatalog : arch[r].level = l}

RunAtLevel(l) == Newest(RunsAt(l))

LastLevel == arch[Newest(InCatalog)].level

HasBase(l) == snapshot[l] # 0

\* bumpDays: the two latest runs share the level.
SatAtLevel ==
  LET last == Newest(InCatalog)
  IN Cardinality(InCatalog) > 1 /\ arch[Newest(InCatalog \ {last})].level = LastLevel

\* chooseIncrLevel: hold the level, or climb where the next one can be estimated (whether
\* it saves enough is left open).
IncrLevels ==
  IF LastLevel = 0 THEN {1}
  ELSE {LastLevel}
         \cup {l \in {LastLevel + 1} : l <= MaxLevel /\ HasBase(LastLevel) /\ SatAtLevel}

Ready == prune = NoPrune

\* A full: due, promoted (both a matter of dates and sizes, left open), or forced.
PlanFull ==
  /\ step = "idle" /\ Ready /\ Len(arch) < MaxRuns
  /\ step' = "planned" /\ plan' = NoPlan
  /\ UNCHANGED <<arch, placed, snapshot, forced, prune, aged, losses>>

\* RefineBases turns an incremental without a usable snapshot into a full.
PlanIncr ==
  /\ step = "idle" /\ Ready /\ Len(arch) < MaxRuns
  /\ ~forced /\ RunsAt(0) # {}
  /\ \E l \in IncrLevels :
       plan' = IF HasBase(l - 1) THEN [level |-> l, base |-> RunAtLevel(l - 1)] ELSE NoPlan
  /\ step' = "planned"
  /\ UNCHANGED <<arch, placed, snapshot, forced, prune, aged, losses>>
-----------------------------------------------------------------------------
(* The dump. *)

\* The work snapshot is seeded from the level below and tar writes the archive; it lands
\* on every landing of the route that does not trip.
DumpCommits ==
  /\ step = "planned" /\ Ready
  /\ plan.level > 0 => HasBase(plan.level - 1)
  /\ \E T \in (SUBSET Media) \ {{}} : placed' = Append(placed, T)
  /\ arch' = Append(arch, [level |-> plan.level, base |-> plan.base,
                           seed |-> IF plan.level = 0 THEN 0 ELSE snapshot[plan.level - 1]])
  /\ step' = "committed"
  /\ UNCHANGED <<snapshot, forced, plan, prune, aged, losses>>

\* Promoting before the archive is durable is what the dumper takes care not to do.
DumpFailsPromoted ==
  /\ step = "planned" /\ Ready
  /\ step' = "idle" /\ plan' = NoPlan
  /\ snapshot' = [snapshot EXCEPT ![plan.level] = Len(arch) + 1]
  /\ UNCHANGED <<arch, placed, forced, prune, aged, losses>>
\* The transfer fails, or every landing does: the work snapshot is left behind unused.
DumpFails ==
  /\ step = "planned" /\ Ready
  /\ step' = "idle" /\ plan' = NoPlan
  /\ UNCHANGED <<arch, placed, snapshot, forced, prune, aged, losses>>

Promote ==
  /\ step = "committed"
  /\ snapshot' = [snapshot EXCEPT ![plan.level] = Len(arch)]
  /\ step' = "promoted"
  /\ UNCHANGED <<arch, placed, forced, plan, prune, aged, losses>>

\* The rename fails: the run fails with an archive committed.
PromoteFails ==
  /\ step = "committed"
  /\ step' = "idle" /\ plan' = NoPlan
  /\ UNCHANGED <<arch, placed, snapshot, forced, prune, aged, losses>>

\* The run seals, and consumes the directive.
Seal ==
  /\ step = "promoted"
  /\ step' = "idle" /\ plan' = NoPlan
  /\ forced' = FALSE
  /\ UNCHANGED <<arch, placed, snapshot, prune, aged, losses>>

CycleCrash ==
  /\ step # "idle" \/ ~Ready
  /\ step' = "idle" /\ plan' = NoPlan /\ prune' = NoPrune
  /\ UNCHANGED <<arch, placed, snapshot, forced, aged, losses>>

\* nb reset.
ForceFull ==
  /\ step = "idle" /\ Ready
  /\ ~forced /\ forced' = TRUE
  /\ UNCHANGED <<arch, placed, snapshot, step, plan, prune, aged, losses>>

\* A moved state_dir, a removed snapshot, or a carve that makes HasBase refuse it.
LoseSnapshot ==
  /\ step = "idle" /\ Ready
  /\ losses < MaxLosses /\ losses' = losses + 1
  /\ \E l \in Levels : HasBase(l) /\ snapshot' = [snapshot EXCEPT ![l] = 0]
  /\ UNCHANGED <<arch, placed, forced, step, plan, prune, aged>>
-----------------------------------------------------------------------------
(* nb prune, and the dump's own MakeRoom after it has planned. *)

StartReclaim(m) ==
  /\ step \in {"idle", "planned"} /\ Ready
  /\ On(m) # {}
  /\ \E k \in aged..Len(arch) :
       LET young == {r \in On(m) : r > k}
       IN /\ aged' = k
          /\ prune' = [on |-> On(m), medium |-> {m},
                       kept |-> Kept(arch, On(m), InCatalog, young),
                       condemned |-> Condemned(arch, On(m), InCatalog, young)]
  /\ UNCHANGED <<arch, placed, snapshot, forced, step, plan, losses>>

\* One deletion of the plan: the condemned first, then the oldest the floor does not
\* keep, until the target is met (a matter of sizes, left open).
Delete(m) ==
  LET dead == NextCondemned(arch, prune.on, On(m), prune.condemned)
  IN /\ prune.medium = {m}
     /\ \E r \in IF dead # {} THEN dead ELSE NextUnkept(arch, prune.on, On(m), prune.kept) :
          placed' = [placed EXCEPT ![r] = @ \ {m}]
     /\ UNCHANGED <<arch, snapshot, forced, step, plan, prune, aged, losses>>

\* The target is met, or nothing more can go; the condemned are gone in any case.
EndReclaim(m) ==
  /\ prune.medium = {m}
  /\ NextCondemned(arch, prune.on, On(m), prune.condemned) = {}
  /\ prune' = NoPrune
  /\ UNCHANGED <<arch, placed, snapshot, forced, step, plan, aged, losses>>
-----------------------------------------------------------------------------
CycleNext ==
  \/ PlanFull \/ PlanIncr
  \/ DumpCommits \/ DumpFails \/ Promote \/ PromoteFails \/ Seal
  \/ CycleCrash \/ ForceFull \/ LoseSnapshot
  \/ \E m \in Media : StartReclaim(m) \/ Delete(m) \/ EndReclaim(m)

CycleSpec == CycleInit /\ [][CycleNext]_cycleVars
-----------------------------------------------------------------------------
Archive == [level : Levels, base : Nat, seed : Nat]

\* Every variable has its type, and an archive's base and seed are earlier runs.
CycleTypeOK ==
  /\ arch \in Seq(Archive) /\ Len(arch) <= MaxRuns
  /\ placed \in [Runs -> SUBSET Media]
  /\ \A r \in Runs : arch[r].base < r /\ arch[r].seed < r
  /\ snapshot \in [Levels -> 0..Len(arch)]
  /\ forced \in BOOLEAN
  /\ step \in {"idle", "planned", "committed", "promoted"}
  /\ plan \in [level : Levels, base : 0..Len(arch)]
  /\ prune.on \subseteq Runs /\ prune.kept \subseteq prune.on
  /\ prune.condemned \subseteq prune.on /\ prune.medium \subseteq Media
  /\ aged \in 0..Len(arch) /\ losses \in 0..MaxLosses

\* The DLE lands on one medium, so that no run is on some and not on others.
OneLanding == \A m, n \in Media : m = n

\* A restore leaves no change out: every incremental of a chain that Chain accepts was
\* dumped against a state no later than the one its base restores.  (An earlier one only
\* repeats changes.)
RestoreIsWhole ==
  \A r \in Restorable(arch, InCatalog) :
    \A c \in ChainIn(arch, InCatalog)[r] :
      arch[c].level > 0 => arch[c].seed <= BaseOf(arch, InCatalog, c)

\* Of a step.  Whatever is deleted, and wherever a reclamation is cut short, an archive that
\* stays in the catalog stays restorable.
NothingStranded ==
  Restorable(arch, InCatalog) \cap InCatalog' \subseteq Restorable(arch', InCatalog')

\* Of a step.  retention.go: "Each DLE's latest run pins the live chain": reclamation never
\* takes the DLE's latest restore point.
LatestKept ==
  InCatalog # {} =>
    Newest(Restorable(arch, InCatalog)) <= Newest(Restorable(arch', InCatalog'))

\* Of a step.  On however many media, however their copies are split: the last full of the
\* DLE is never reclaimed.
LastFullKept == Newest(Fulls(arch, InCatalog)) <= Newest(Fulls(arch', InCatalog'))

\* Reclamation, wherever it is cut short, keeps what restores need (retention.go, prune.go).
ReclaimsKeepChains == [][NothingStranded /\ LatestKept /\ LastFullKept]_cycleVars
=============================================================================
