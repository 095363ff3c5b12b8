------------------------------ MODULE Vaulting ------------------------------
(***************************************************************************)
(* Copies of archives on several address-identified media (disk, cloud):   *)
(* nb dump lands them on each DLE's route, nb copy and nb sync carry them   *)
(* on, retention takes them away medium by medium, and the coverage         *)
(* judgment says which medium is owed what.  An archive is <<run, dle>>;    *)
(* runs are numbered in run order and every archive counts one unit.        *)
(*                                                                         *)
(* Commands exclude each other (the workdir lock); a copy runs in steps     *)
(* and may fail or die between any two.  What one file's reclaim does       *)
(* underneath is FileStore's, tape's recycling TapeRotation's.              *)
(***************************************************************************)
EXTENDS Chains, Sequences

CONSTANTS DLEs,       \* numbers, in slug order
          Media,
          Landing,    \* the default landing, a copy's default source
          MediaOrder, \* Media in name order
          Routes,     \* each DLE's landing route
          Rules,      \* the configured sync rules
          Capacity,   \* each medium's archives, 0 for unbounded
          MinAge,     \* each medium's minimum age, in runs
          MaxRuns, MaxFails, MaxCopies   \* bounds

AutoSource == "auto"

ASSUME VaultingAssumption ==
    /\ DLEs \subseteq Nat /\ IsFiniteSet(DLEs) /\ Landing \in Media
    /\ IsFiniteSet(Media) /\ AutoSource \notin Media
    /\ MediaOrder \in Seq(Media) /\ Media = {MediaOrder[i] : i \in DOMAIN MediaOrder}
    /\ Routes \in [DLEs -> SUBSET Media]
    /\ Rules \subseteq [from: Media \cup {AutoSource}, to: Media, last: Nat]
    /\ Capacity \in [Media -> Nat] /\ MinAge \in [Media -> Nat]
    /\ MaxRuns \in Nat /\ MaxFails \in Nat /\ MaxCopies \in Nat

VARIABLES last,     \* the newest run
          arch,     \* per DLE: its runs' level and base
          adv,      \* the archives the catalog's runs advertise
          placed,   \* the archives each medium's placements hold
          cmd,      \* the copy or sync in progress
          fails, copies

vars == <<last, arch, adv, placed, cmd, fails, copies>>

Idle == [st |-> "idle"]
Busy == cmd # Idle
Archives == (1 .. MaxRuns) \X DLEs

TypeOK ==
    /\ last \in 0 .. MaxRuns
    /\ \A d \in DLEs : /\ DOMAIN arch[d] \subseteq 1 .. last
                       /\ \A r \in DOMAIN arch[d] :
                            arch[d][r].level \in 0 .. 1 /\ arch[d][r].base \in 0 .. r - 1
    /\ adv \subseteq {a \in Archives : a[1] \in DOMAIN arch[a[2]]}
    /\ placed \in [Media -> SUBSET adv]
    /\ Busy => /\ cmd.st \in {"next", "reclaim", "room", "copy"}
               /\ cmd.to \in Media /\ cmd.force \in BOOLEAN /\ cmd.failed \in BOOLEAN
               /\ cmd.todo \subseteq Media \X Archives
               /\ cmd.plan \subseteq Archives /\ cmd.jobs \subseteq Archives
    /\ fails \in 0 .. MaxFails /\ copies \in 0 .. MaxCopies

RunsOf(S) == {a[1] : a \in S}
Of(S, d) == {a[1] : a \in {x \in S : x[2] = d}}

-----------------------------------------------------------------------------
\* Coverage: what a medium is owed.

\* The candidates of a sync: the catalog's runs, or those placed on the source.
Candidates(from) == RunsOf(IF from = AutoSource THEN adv ELSE placed[from])

\* applySelection: the most recent n of the candidates, all of them for 0.
Select(runs, n) ==
    IF n = 0 THEN runs ELSE {r \in runs : Cardinality({q \in runs : q > r}) < n}

\* lastFullRuns: the start of each DLE's live chain, 0 for none.
LastFullRun(d) == Newest(Fulls(arch[d], Of(adv, d)))

Young(m, r) == r > last - MinAge[m]

OwesTo(m, a) == a[1] >= LastFullRun(a[2]) \/ Young(m, a[1])

\* routedScope: the DLEs routed to the medium, all of them for a plain mirror.
IsLanding(m) == \E d \in DLEs : m \in Routes[d]
Scope(m) == IF IsLanding(m) THEN {d \in DLEs : m \in Routes[d]} ELSE DLEs

\* JudgeRun's classes, the strongest that applies.
RuleSelects(rule, r) == rule.last = 0 \/ r \in Select(Candidates(rule.from), rule.last)
Promises(rule, a) ==
    /\ rule.to # rule.from /\ RuleSelects(rule, a[1])
    /\ IF rule.from = AutoSource THEN ~IsLanding(rule.to) /\ OwesTo(rule.to, a)
       ELSE a \in placed[rule.from]
Class(m, a) ==
    IF m \in Routes[a[2]] /\ OwesTo(m, a) THEN "routed"
    ELSE IF \E rule \in Rules : rule.to = m /\ Promises(rule, a) THEN "promised"
    ELSE IF \/ m \in Routes[a[2]]
            \/ \E rule \in Rules : /\ rule.to = m /\ rule.from = AutoSource
                                   /\ ~IsLanding(m) /\ RuleSelects(rule, a[1])
         THEN "aged" ELSE "none"

\* Judge: the expected archives the medium's copies lack.
Gap(m) == {a \in adv : Class(m, a) \in {"routed", "promised"}} \ placed[m]

\* The drill's "3 copies" check.  diagnoseCopies counts an archive at a time and
\* blames a short one: a routed copy a sync backfills, a lone route, or rotation.
RunCopies(a) == Cardinality({m \in Media : a[1] \in RunsOf(placed[m])})      \* a mutant
CopiesOf(a) == Cardinality({m \in Media : a \in placed[m]})
MissingRouted(a) == {m \in Media : Class(m, a) = "routed" /\ a \notin placed[m]}
RoutedMedia(a) == {m \in Media : Class(m, a) = "routed"}
AgedGap(a) == \E m \in Media : Class(m, a) = "aged" /\ a \notin placed[m]

Short == {a \in adv : CopiesOf(a) < 2}
Diagnosis(a) ==
    IF CopiesOf(a) = 0 THEN "none"
    ELSE IF MissingRouted(a) # {} THEN "backfill"
    ELSE IF Cardinality(RoutedMedia(a)) < 2 /\ ~AgedGap(a) THEN "structural" ELSE "aged"

Verdict ==
    LET told == {Diagnosis(a) : a \in Short}
    IN  IF adv = {} \/ "none" \in told THEN "fail"
        ELSE IF told \subseteq {"aged"} THEN "ok" ELSE "warn"

-----------------------------------------------------------------------------
\* Copy and sync: what is carried, and from where.

\* copySets: what the run's copy on the source holds, and the target lacks.
Held(r, from) == {a \in placed[from] : a[1] = r}
Missing(r, from, to) == Held(r, from) \ placed[to]

WantArchives(r, from, to, force) ==
    IF force THEN Held(r, from) ELSE Missing(r, from, to)

\* What a run owes the target in auto mode; a run named by the operator, and a
\* forced sync, are not bounded by age.
AutoOwed(r, to, bounded) ==
    {a \in adv : a[1] = r /\ a[2] \in Scope(to) /\ (bounded => OwesTo(to, a))}

Holding(S, to) == {m \in Media \ {to} : S \subseteq placed[m]}
\* sourceFor: the landing if it holds all that is missing, else the first
\* medium by name that does; "" when nothing is missing.
SourceFor(r, to, force, bounded) ==
    LET missing == AutoOwed(r, to, bounded) \ (IF force THEN {} ELSE placed[to])
        ms == Holding(missing, to)
    IN  IF missing = {} THEN ""
        ELSE IF Landing \in ms THEN Landing
        ELSE IF ms = {} THEN "unsourced"
        ELSE MediaOrder[Oldest({i \in DOMAIN MediaOrder : MediaOrder[i] \in ms})]

\* The runs of a sync: those named when not {}, else the latest n of the source's.
Chosen(from, n, runs) == Select(IF runs # {} THEN runs ELSE Candidates(from), n)
Bounded(from, runs, force) == from = AutoSource /\ runs = {} /\ ~force

\* One sync's backlog: <<source, archive>> pairs, each run from its own source.
SourceOf(from, r, to, runs, force) ==
    IF from = AutoSource THEN SourceFor(r, to, force, Bounded(from, runs, force)) ELSE from
Carried(from, r, to, runs, force) ==
    {a \in WantArchives(r, SourceOf(from, r, to, runs, force), to, force) :
       from = AutoSource => a \in AutoOwed(r, to, Bounded(from, runs, force))}
Backlog(from, to, n, runs, force) ==
    UNION {{SourceOf(from, r, to, runs, force)} \X Carried(from, r, to, runs, force) :
             r \in {q \in Chosen(from, n, runs) : SourceOf(from, q, to, runs, force) \in Media}}

\* SyncTo refuses when a run's missing archives have no one source.
Sourced(from, to, n, runs, force) ==
    from = AutoSource =>
      \A r \in Chosen(from, n, runs) :
        SourceFor(r, to, force, Bounded(from, runs, force)) # "unsourced"

-----------------------------------------------------------------------------
\* Retention on one medium.

OnMedium(m, d) == Of(placed[m], d)
YoungOn(m, d) == {r \in OnMedium(m, d) : Young(m, r)}
KeptFullsOn(m) ==      \* a mutant
    {a \in placed[m] : a[1] \in KeptLastFullOnly(arch[a[2]], OnMedium(m, a[2]),
                                                Of(adv, a[2]), YoungOn(m, a[2]))}
KeptOn(m) == {a \in placed[m] :
                a[1] \in Kept(arch[a[2]], OnMedium(m, a[2]), Of(adv, a[2]), YoungOn(m, a[2]))}
CondemnedOn(m) == {a \in placed[m] :
                a[1] \in Condemned(arch[a[2]], OnMedium(m, a[2]), Of(adv, a[2]), YoungOn(m, a[2]))}

First(S) == CHOOSE a \in S : \A b \in S : a[1] < b[1] \/ (a[1] = b[1] /\ a[2] <= b[2])

\* Reclaim: the deletion order down to target, the verdicts fixed at its start.
ReclaimPlan(m, target) ==
    LET kept == KeptOn(m)
        dead == CondemnedOn(m)
        free(S) == {a \in S : a[1] \in Free(arch[a[2]], Of(placed[m], a[2]), Of(S, a[2]))}
        plan[S \in SUBSET placed[m]] ==
            LET condemned == free(S) \cap dead
                loose == free(S) \ kept
                pick == IF condemned # {} THEN condemned
                        ELSE IF Capacity[m] > 0 /\ Cardinality(S) > target THEN loose ELSE {}
            IN  IF pick = {} THEN <<>>
                ELSE <<First(pick)>> \o plan[S \ {First(pick)}]
    IN  plan[placed[m]]

\* RemoveArchive, for each of S on m: a run stops advertising what no medium holds.
StillAdvertised(m, S) == adv      \* a mutant
StillHeld(m, S) == (UNION {placed[x] : x \in Media \ {m}}) \cup (placed[m] \ S)
RemoveArchives(m, S) ==
    /\ placed' = [placed EXCEPT ![m] = @ \ S]
    /\ adv' = adv \cap StillHeld(m, S)

\* planRoom: none needed, too little to reclaim, or the plan down to its target.
Residual(m) == Cardinality(placed[m]) - Len(ReclaimPlan(m, 0))
FitsNow(m, n) == Capacity[m] = 0 \/ Cardinality(placed[m]) <= Capacity[m]      \* a mutant
Fits(m, n) == Capacity[m] = 0 \/ n = 0 \/ Cardinality(placed[m]) + n <= Capacity[m]
Infeasible(m, n) == ~Fits(m, n) /\ Residual(m) + n > Capacity[m]
Prefix(plan, k) == {plan[i] : i \in 1 .. k}

-----------------------------------------------------------------------------
Init ==
    /\ last = 0 /\ arch = [d \in DLEs |-> <<>>] /\ adv = {}
    /\ placed = [m \in Media |-> {}]
    /\ cmd = Idle /\ fails = 0 /\ copies = 0

\* A run dumps every DLE and lands each on some of its route (the rest tripped);
\* an incremental builds on the catalog's last full.
Dump(fulls, lost) ==
    /\ ~Busy /\ last < MaxRuns
    /\ \A d \in DLEs \ fulls : LastFullRun(d) # 0
    /\ lost # {} => fails < MaxFails
    /\ LET r == last + 1
           landed == {d \in DLEs : Routes[d] \ lost # {}}
           new == {<<r, d>> : d \in landed}
       IN  /\ last' = r
           /\ arch' = [d \in DLEs |->
                IF d \in landed
                THEN [q \in DOMAIN arch[d] \cup {r} |->
                        IF q # r THEN arch[d][q]
                        ELSE [level |-> IF d \in fulls THEN 0 ELSE 1,
                              base |-> IF d \in fulls THEN 0 ELSE LastFullRun(d)]]
                ELSE arch[d]]
           /\ adv' = adv \cup new
           /\ placed' = [m \in Media |-> placed[m] \cup
                {a \in new : m \in Routes[a[2]] \ lost}]
    /\ fails' = fails + (IF lost # {} THEN 1 ELSE 0)
    /\ UNCHANGED <<cmd, copies>>

\* nb prune, or a dump's make-room for its estimate; interrupted anywhere.  A
\* plan down to any target is a beginning of the one down to nothing.
Prune(m) ==
    /\ ~Busy
    /\ LET plan == ReclaimPlan(m, 0)
       IN  \E k \in 1 .. Len(plan) : RemoveArchives(m, Prefix(plan, k))
    /\ UNCHANGED <<last, arch, cmd, fails, copies>>

Start(to, force, todo) ==
    /\ ~Busy /\ copies < MaxCopies /\ todo # {}
    /\ copies' = copies + 1
    /\ cmd' = [st |-> "next", to |-> to, force |-> force, todo |-> todo, src |-> "",
               plan |-> {p[2] : p \in todo}, from |-> {p[1] : p \in todo}, jobs |-> {}, failed |-> FALSE]
    /\ UNCHANGED <<last, arch, adv, placed, fails>>

\* PlanCopy and Copy: one run, one source.
StartCopy(r, from, to, force) ==
    /\ from # to /\ Held(r, from) # {}
    /\ Start(to, force, {from} \X WantArchives(r, from, to, force))

\* SyncTo of a rule, or of a run the operator names.
StartSync(from, to, n, runs) ==
    /\ from # to /\ Sourced(from, to, n, runs, FALSE)
    /\ Start(to, FALSE, Backlog(from, to, n, runs, FALSE))

\* execute's next source, in the order of its oldest run.
NextSource ==
    /\ Busy /\ cmd.st = "next" /\ ~cmd.failed /\ cmd.todo # {}
    /\ LET first == CHOOSE p \in cmd.todo : \A q \in cmd.todo : p[2][1] <= q[2][1]
           jobs == {p[2] : p \in {q \in cmd.todo : q[1] = first[1]}}
       IN  cmd' = [cmd EXCEPT !.st = IF cmd.force THEN "reclaim" ELSE "room",
                              !.src = first[1], !.jobs = jobs,
                              !.todo = {q \in @ : q[1] # first[1]}]
    /\ UNCHANGED <<last, arch, adv, placed, fails, copies>>

\* A forced copy first reclaims, one by one, what the target has of its runs, and stops at
\* one it cannot.
Replaced == {a \in placed[cmd.to] : a[1] \in RunsOf(cmd.jobs)}

ReclaimCopy ==
    /\ Busy /\ cmd.st = "reclaim"
    /\ \E a \in Replaced : RemoveArchives(cmd.to, {a})
    /\ UNCHANGED <<last, arch, cmd, fails, copies>>

ReclaimDone ==
    /\ Busy /\ cmd.st = "reclaim" /\ Replaced = {}
    /\ cmd' = [cmd EXCEPT !.st = "room"]
    /\ UNCHANGED <<last, arch, adv, placed, fails, copies>>

ReclaimFails ==
    /\ Busy /\ cmd.st = "reclaim" /\ Replaced # {} /\ fails < MaxFails
    /\ fails' = fails + 1
    /\ cmd' = [cmd EXCEPT !.st = "next", !.failed = TRUE]
    /\ UNCHANGED <<last, arch, adv, placed, copies>>

\* MakeRoom for the exact bytes: nothing to do, reclaim, or fail before a write.
MakeRoom ==
    LET n == Cardinality(cmd.jobs)
        plan == ReclaimPlan(cmd.to, Capacity[cmd.to] - n)
    IN  /\ Busy /\ cmd.st = "room"
        /\ cmd' = IF Infeasible(cmd.to, n) THEN [cmd EXCEPT !.st = "next", !.failed = TRUE]
                  ELSE [cmd EXCEPT !.st = "copy"]
        /\ IF Fits(cmd.to, n) \/ Infeasible(cmd.to, n) THEN UNCHANGED <<adv, placed>>
           ELSE RemoveArchives(cmd.to, Prefix(plan, Len(plan)))
        /\ UNCHANGED <<last, arch, fails, copies>>

\* One archive lands and records its placement.
CopyOne(a) ==
    /\ Busy /\ cmd.st = "copy" /\ a \in cmd.jobs
    /\ placed' = [placed EXCEPT ![cmd.to] = @ \cup {a}]
    /\ adv' = adv \cup {a}
    /\ cmd' = [cmd EXCEPT !.jobs = @ \ {a}]
    /\ UNCHANGED <<last, arch, fails, copies>>

\* One fails: nothing more is scheduled, what is in flight may still land.
CopyFails(a) ==
    /\ Busy /\ cmd.st = "copy" /\ a \in cmd.jobs /\ fails < MaxFails
    /\ fails' = fails + 1
    /\ \E flight \in SUBSET (cmd.jobs \ {a}) :
         cmd' = [cmd EXCEPT !.jobs = flight, !.failed = TRUE]
    /\ UNCHANGED <<last, arch, adv, placed, copies>>

CopiesDone ==
    /\ Busy /\ cmd.st = "copy" /\ cmd.jobs = {}
    /\ cmd' = [cmd EXCEPT !.st = "next"]
    /\ UNCHANGED <<last, arch, adv, placed, fails, copies>>

Finish ==
    /\ Busy /\ cmd.st = "next" /\ (cmd.failed \/ cmd.todo = {})
    /\ cmd' = Idle
    /\ UNCHANGED <<last, arch, adv, placed, fails, copies>>

Crash ==
    /\ Busy /\ fails < MaxFails
    /\ fails' = fails + 1 /\ cmd' = Idle
    /\ UNCHANGED <<last, arch, adv, placed, copies>>

Next ==
    \/ \E fulls \in SUBSET DLEs, lost \in SUBSET Media : Dump(fulls, lost)
    \/ \E m \in Media : Prune(m)
    \/ \E r \in RunsOf(adv), from \in Media, to \in Media, force \in BOOLEAN :
         StartCopy(r, from, to, force)
    \/ \E rule \in Rules : StartSync(rule.from, rule.to, rule.last, {})
    \/ \E r \in RunsOf(adv), to \in Media : StartSync(AutoSource, to, 0, {r})
    \/ \E a \in Archives : CopyOne(a) \/ CopyFails(a)
    \/ NextSource \/ ReclaimCopy \/ ReclaimDone \/ ReclaimFails \/ MakeRoom \/ CopiesDone \/ Finish \/ Crash

Spec == Init /\ [][Next]_vars

-----------------------------------------------------------------------------
\* Properties.

\* A run advertises exactly the archives some medium holds, whatever was copied,
\* reclaimed, half reclaimed or copied back.
AdvertisedIsHeld == adv = UNION {placed[m] : m \in Media}

\* "The coverage display and the sync backlog are one computation": what the
\* rules to a medium would carry now is exactly what the medium is judged to
\* lack.  (A landing's routes are topped up by an unbounded auto rule only.)
BacklogIsCoverage ==
    ~Busy => \A m \in Media :
      LET rules == {rule \in Rules : rule.to = m /\ rule.from # m}
          whole == \E rule \in rules : rule.from = AutoSource /\ rule.last = 0
      IN  /\ rules # {} /\ (IsLanding(m) => whole)
          /\ \A rule \in rules : Sourced(rule.from, m, rule.last, {}, FALSE)
          => Gap(m) = UNION {{p[2] : p \in Backlog(rule.from, m, rule.last, {}, FALSE)} :
                              rule \in rules}

Finished == Busy /\ cmd.st = "next" /\ ~cmd.failed /\ ~Busy' /\ fails' = fails

\* Of a step.  What was priced is what is copied: a copy or sync from one source, or to an
\* unbounded target, that ends without an error leaves every archive it planned
\* on the target.
PlanIsDelivered ==
    Finished /\ (Cardinality(cmd.from) = 1 \/ Capacity[cmd.to] = 0)
      => cmd.plan \subseteq placed[cmd.to]

\* Capacity is a promise: room is made before the first byte, so no copy in any
\* order of landing takes a bounded target over its capacity.
CopiesFitCapacity ==
    Busy /\ cmd.st = "copy" /\ Capacity[cmd.to] > 0 =>
      Cardinality(placed[cmd.to] \cup cmd.jobs) <= Capacity[cmd.to]

\* A copy or sync keeps to its plan (copy.go): it delivers it, within the capacity.
CopiesKeepTheirPlan == [][PlanIsDelivered /\ CopiesFitCapacity]_vars

\* The latest run that m holds of d is one that no medium's copies restore.
LatestStranded(m, d) == Newest(OnMedium(m, d)) \in Stranded(arch[d], Of(adv, d))

\* "What falls outside is exactly what a prune may delete": retention never
\* takes from a medium what the coverage says it is owed and it can replay on its
\* own, so no sync has to copy that back.  (A landing that lost the full keeps
\* none of the incrementals it still gets.  Where a forced copy took the full of a
\* medium's latest run, that run anchors nothing and what is before it may go.)
PruneSparesOwed ==
    [][~Busy /\ ~Busy' /\ last' = last =>
         \A m \in Media : \A a \in placed[m] \ placed'[m] :
           OwesTo(m, a) /\ ~LatestStranded(m, a[2]) =>
             ChainIn(arch[a[2]], OnMedium(m, a[2]))[a[1]] = {}]_vars

\* The recoverability audit: passing means every archive of a live chain has two
\* copies, no archive is ever without one, and the medium a gap is blamed on is
\* one the sync the verdict recommends would fill.
CopiesAreTold ==
    /\ Verdict = "ok" =>
         \A a \in adv : a[1] >= LastFullRun(a[2]) =>
           Cardinality({m \in Media : a \in placed[m]}) >= 2
    /\ \A a \in Short :
         /\ Diagnosis(a) # "none"
         /\ Diagnosis(a) = "backfill" =>
              \A m \in MissingRouted(a) :
                Sourced(AutoSource, m, 0, {}, FALSE) =>
                  \E p \in Backlog(AutoSource, m, 0, {}, FALSE) : p[2] = a

\* What an operator is told of the copies is true of them (posture.go, coverage.go).
CoverageIsTold == CopiesAreTold /\ BacklogIsCoverage
=============================================================================
