------------------------------ MODULE Drilling ------------------------------
(***************************************************************************)
(* Recovery drills: internal/engine/drill.go over internal/drill's target  *)
(* selection and ledger, on stores that are damaged as days pass.  A       *)
(* nightly drill, unattended, takes the DLEs that are due; an operator may *)
(* re-drill one by name.                                                   *)
(*                                                                         *)
(* Restores and drills share nothing but the store, so the one restore     *)
(* comes before the first drill (a bound on the exploration).              *)
(***************************************************************************)
EXTENDS Restoring

CONSTANTS
  Route,       \* DLE -> the media its dumps are promised to, primary first
  Stations,    \* media where reading a chain takes an operator to load a tape
  Window,      \* days a pass covers a DLE for
  Sample,      \* DLEs drilled a night, 0 for every due one
  NightlyTiers,\* the tiers the nightly drill may be configured with
  Placements,  \* the placements to start from: medium -> the archives on it
  Sealings,    \* the media whose placements record seals
  Rotation     \* a multiple of every archive's part count: bounds the drill counter

DrillingAssumption ==
  /\ Route \in [Dles -> Seq(Media)] /\ \A d \in Dles : Route[d] # <<>>
  /\ Stations \subseteq Media
  /\ Requests \subseteq Request
  /\ Placements \subseteq [Media -> SUBSET Archives] /\ Sealings \subseteq [Media -> BOOLEAN]
  /\ Window \in Nat \ {0} /\ Sample \in Nat
  /\ \A a \in Archives : Rotation % NParts[a] = 0

Tiers == {"sample", "checksum", "structural", "chain", "stock"}

\* Days since a drill are told apart up to a day past the window.
Oldest == Window + 1
Never == Oldest + 1

VARIABLES
  tier,    \* drill.tier
  ledger,  \* DLE -> [age, class, drills]
  queue,   \* targets of the running drill still to be exercised
  named,   \* the running drill was given its DLEs: attended, no rotation
  night    \* the nightly drill has not started yet today

drillVars == <<tier, ledger, queue, named, night>>
drillingVars == <<storeVars, restoreVars, drillVars>>

Cold == [d \in Dles |-> [age |-> Never, class |-> "ok", drills |-> 0]]

DrillInit ==
  /\ tier = "none"
  /\ ledger = Cold /\ queue = <<>> /\ named = FALSE /\ night = TRUE
-----------------------------------------------------------------------------
(* Select. *)

\* Drilled: covered within the window by a drill that passed.
Covered(d) == ledger[d].age < Window /\ ledger[d].class = "ok"

\* Never drilled first, then the longest ago, then the longest chain; Dles are numbered in
\* the order of their names.
Riskier(d, e) ==
  \/ ledger[d].age > ledger[e].age
  \/ /\ ledger[d].age = ledger[e].age
     /\ \/ Len(Chain[d]) > Len(Chain[e])
        \/ Len(Chain[d]) = Len(Chain[e]) /\ d < e

\* A chain exists for every DLE here, so all of them have a recovery point.
Due == SetToSortSeq({d \in Dles : ~Covered(d)}, Riskier)
Select == IF Sample = 0 THEN Due ELSE SubSeq(Due, 1, Min({Sample, Len(Due)}))

HoldsChain(d, m) == ToSet(Chain[d]) \subseteq store.on[m]

\* drillMedium: the first routed medium with the whole chain, else the one it is owed to.
DrillMedium(d) ==
  IF \E m \in ToSet(Route[d]) : HoldsChain(d, m)
  THEN Route[d][CHOOSE i \in DOMAIN Route[d] :
                  HoldsChain(d, Route[d][i]) /\ \A j \in 1..(i - 1) : ~HoldsChain(d, Route[d][j])]
  ELSE Route[d][1]

\* unattendedReachable.
NeedsOperator(d, m) ==
  m \notin store.opens \/ (m \in Stations /\ ToSet(Chain[d]) \cap store.on[m] # {})
-----------------------------------------------------------------------------
(* The tiers: the set of classes a drill of d off m can end in.            *)

\* What can come of taking d's steps one by one, classes(a) being what step a can end in:
\* the first that does not pass decides.
InOrder(d, classes(_)) ==
  {c \in Classes \ {"ok"} :
     \E k \in DOMAIN Chain[d] :
       c \in classes(Chain[d][k]) /\ \A j \in 1..(k - 1) : "ok" \in classes(Chain[d][j])}
    \cup {c \in {"ok"} : \A k \in DOMAIN Chain[d] : c \in classes(Chain[d][k])}

\* drillVerify: one pass over the chain, pinned; what has no copy there is passed over, and
\* looked at only when the rest passed.
VerifyChain(d, m, classes(_)) ==
  LET missing(a) == Planned(store, m, a) = "missing"
      read == InOrder(d, LAMBDA a : IF missing(a) THEN {"ok"} ELSE classes(a))
  IN IF PassRefused(store, m, ToSet(Chain[d])) THEN {"pipeline"}
     ELSE IF (\E a \in ToSet(Chain[d]) : missing(a)) /\ "ok" \in read
          THEN (read \ {"ok"}) \cup {"missing"}
     ELSE read

ChecksumTierUnpinned(d, m) ==   \* a mutant
  VerifyChain(d, "", LAMBDA a : ChecksumClasses(store, "", {m}, a))
ChecksumTier(d, m) == VerifyChain(d, m, LAMBDA a : ChecksumClasses(store, m, {m}, a))
StructuralTier(d, m) == VerifyChain(d, m, LAMBDA a : DeepClasses(store, m, {m}, a, key))

\* One part of each archive against its seal, the counter choosing which; then a frame or
\* an atom of the last one through the decode.
FrameSample(m, a) ==
  IF Damaged(store, m, a) \/ ~key THEN {"ok", "integrity", "pipeline"} ELSE {"ok"}

SampleParts(d, m, rot) ==
  IF ~HoldsChain(d, m) \/ ~store.sealed[m] THEN ChecksumTier(d, m)
  ELSE IF m \notin store.opens THEN {"pipeline"}
  ELSE LET parts == InOrder(d,
                      LAMBDA a : {PartClass(store, m, a, (rot % NParts[a]) + 1)})
       IN IF "ok" \in parts THEN FrameSample(m, Last(Chain[d])) ELSE parts

SampleTier(d, m) == SampleParts(d, m, ledger[d].drills)

\* The restore itself into scratch, and the documented one-liner: wrong bytes without a
\* seal may pass both, and fail the restore as a composition fault.
Replay(d, m, wrong) ==
  LET here(a) ==
        IF OpenRef(store, m, {m}, a) = {} THEN {"pipeline"}
        ELSE LET got == Stream(store, m, a)
             IN IF ~key THEN IF got = "mismatch" THEN {"integrity", "pipeline"} ELSE {"pipeline"}
                ELSE CASE got = "clean" -> {"ok"}
                       [] got = "mismatch" -> {"integrity"}
                       [] got = "cut" -> {"pipeline"}
                       [] OTHER -> wrong
  IN InOrder(d, here)

ChainTier(d, m) ==
  IF PassRefused(store, m, ToSet(Chain[d])) THEN {"pipeline"}
  ELSE IF PassMissing(store, m, ToSet(Chain[d])) # {} THEN {"missing"}
  ELSE Replay(d, m, {"ok", "pipeline", "chain"})

\* Archive by archive, so what comes before a missing one is read first.
StockTier(d, m) ==
  IF PassRefused(store, m, ToSet(Chain[d])) THEN {"pipeline"}
  ELSE IF PassMissing(store, m, ToSet(Chain[d])) # {} THEN {"missing", "pipeline", "integrity"}
  ELSE Replay(d, m, {"ok", "pipeline"})

TierClasses(t, d, m) ==
  CASE t = "sample" -> SampleTier(d, m)
    [] t = "checksum" -> ChecksumTier(d, m)
    [] t = "structural" -> StructuralTier(d, m)
    [] t = "chain" -> ChainTier(d, m)
    [] OTHER -> StockTier(d, m)
-----------------------------------------------------------------------------
(* Drill. *)

\* The drill's configuration; the restore is over, or nobody asks for one.
Configure ==
  /\ tier = "none" /\ pc \in {"idle", "quiet"}
  /\ tier' \in NightlyTiers
  /\ pc' = "quiet"
  /\ UNCHANGED <<ledger, queue, named, night>>

StartDrill ==
  /\ tier # "none" /\ night /\ queue = <<>>
  /\ queue' = Select /\ named' = FALSE
  /\ night' = FALSE
  /\ UNCHANGED <<tier, ledger>>

\* nb drill <dle>: whatever the window says, by a person who can load a tape.
Redrill(d) ==
  /\ queue = <<>> /\ ~night
  /\ ledger[d].age > 0
  /\ queue' = <<d>> /\ named' = TRUE
  /\ UNCHANGED <<tier, ledger, night>>

\* A skip leaves the ledger as it is; the ledger is saved after every target.
SkippedTarget(d) ==
  /\ ~named /\ NeedsOperator(d, DrillMedium(d))
  /\ UNCHANGED ledger

RecordedUnrotated(d, c) ==   \* a mutant
  ledger' = [ledger EXCEPT ![d] = [age |-> 0, class |-> c, drills |-> @.drills]]
Recorded(d, c) ==
  ledger' = [ledger EXCEPT ![d] = [age |-> 0, class |-> c, drills |-> (@.drills + 1) % Rotation]]
Exercise(d) ==
  \E m \in {DrillMedium(d)} :
    /\ named \/ ~NeedsOperator(d, m)
    /\ \E c \in TierClasses(tier, d, m) : Recorded(d, c)

DrillTarget ==
  /\ queue # <<>>
  /\ \E d \in {Head(queue)} : SkippedTarget(d) \/ Exercise(d)
  /\ queue' = Tail(queue)
  /\ UNCHANGED <<tier, named, night>>

\* The process dies between two targets: the ledger on disk is the last one saved.
Interrupted ==
  /\ queue # <<>> /\ Fault
  /\ queue' = <<>>
  /\ UNCHANGED <<tier, ledger, named, night>>

NextDay ==
  /\ ~night /\ queue = <<>>
  /\ ledger' = [d \in Dles |->
       [ledger[d] EXCEPT !.age = IF @ = Never THEN @ ELSE Min({@ + 1, Oldest})]]
  /\ night' = TRUE
  /\ UNCHANGED <<tier, queue, named>>
-----------------------------------------------------------------------------
DrillingInit ==
  /\ StoreInit(Placements, Sealings) /\ RestoreInit /\ DrillInit

Restore ==
  /\ tier = "none"
  /\ (\E r \in Requests, own \in BOOLEAN : Ask(r, own)) \/ Extracting
  /\ UNCHANGED <<storeVars, drillVars>>

Nightly ==
  \/ /\ Configure
     /\ UNCHANGED <<storeVars, req, pooled, at, foreign, landed, outcome>>
  \/ (StartDrill \/ DrillTarget \/ NextDay) /\ UNCHANGED <<storeVars, restoreVars>>

ByHand == (\E d \in Dles : Redrill(d)) /\ UNCHANGED <<storeVars, restoreVars>>

Dying == Interrupted /\ UNCHANGED <<store, key, restoreVars>>

DrillingNext ==
  \/ Restore \/ Nightly \/ ByHand \/ Dying
  \/ Faults /\ UNCHANGED <<restoreVars, drillVars>>

\* cron runs the drill every day and a drill runs to its end; nobody has to restore.
RestoreGoesOn == Restore /\ Extracting
DrillingSpec ==
  /\ DrillingInit /\ [][DrillingNext]_drillingVars
  /\ WF_drillingVars(Nightly) /\ WF_drillingVars(RestoreGoesOn)
-----------------------------------------------------------------------------
(* Properties. *)

\* A restore that reports success has landed every level of the chain, in order, each whole:
\* damage that reached the destination came off a copy written before seals were recorded.
RestoredIsChain ==
  outcome = "ok" =>
    /\ [k \in DOMAIN landed |-> landed[k].step] = Wanted
    /\ \A k \in DOMAIN landed : landed[k].is # "partial"
    /\ (\A m \in Media : store.sealed[m]) => \A k \in DOMAIN landed : landed[k].is = "whole"

\* A restore that fails without a word about the destination has left nothing in it.  Not so
\* when levels land apart (a client's tree, a combining archiver): there a directory that
\* cannot be made is reported the same way after earlier levels have landed.
QuietFailureLandsNothing ==
  outcome = "plain" /\ ~req.remote /\ ~req.combine => landed = <<>>

\* Whatever fails, what the operator keeps in the destination is never removed: only a
\* destination found empty is cleared again.
OwnFilesSurvive == foreign /\ pc # "over" => foreign'

\* nb verify reports a run ok: every archive with a copy on a medium this configuration
\* knows is then read back whole by a restore that may use any copy - the one it opens is
\* among those verified, whichever other media it cannot open.
VerifiedRunRestores ==
  \A known \in (SUBSET Media) \ {{}} :
    LET s == [store EXCEPT !.opens = @ \cap known]
    IN RunVerdict(s, known, Archives, Archives) = "ok" =>
         \A a \in Archives : (\E m \in known : a \in s.on[m]) =>
           /\ Planned(s, "", a) = "read"
           /\ OpenRef(s, "", {}, a) # {}
           /\ \A m \in OpenRef(s, "", {}, a) : Stream(s, m, a) = "clean"

\* A drill that reads the whole chain and passes proves it: at that moment a restore pinned to
\* the medium drilled reads every level whole (with the chain and stock tiers, whose decode
\* may swallow damage, only where seals are recorded).
PassProvesRestore ==
  \A d \in Dles :
    LET m == DrillMedium(d)
    IN ledger'[d].drills # ledger[d].drills /\ ledger'[d].class = "ok"
         /\ \/ tier \in {"checksum", "structural"}
            \/ tier \in {"chain", "stock"} /\ store.sealed[m]
       => \A a \in ToSet(Chain[d]) :
            /\ Planned(store, m, a) = "read"
            /\ Stream(store, m, a) = "clean"

\* Restores and verification (restorer.go, decode.go, verify.go): success is the chain in
\* order and whole, a quiet failure leaves nothing, and a run verified ok is read back whole.
RestoreIsWhole == RestoredIsChain /\ QuietFailureLandsNothing /\ VerifiedRunRestores

\* A step of a restore never removes what the operator keeps in the destination, and a drill
\* that passes proves the restore it stands for (restorer.go, drill.go).
DrillsAreHonest == [][OwnFilesSurvive /\ PassProvesRestore]_drillingVars

Drillable(d) == ~NeedsOperator(d, DrillMedium(d))

\* With every due DLE drilled, each one that needs no operator is drilled again and again:
\* holds infinitely often.
DrilledNow(d) == ledger[d].age = 0 \/ ~Drillable(d)

\* The rotation reaches every part: damage that stays on the copy drilled is found, though
\* the sample tier looks at one part of an archive a night (the chain and stock tiers, whose
\* decode may swallow it, find it where seals are recorded): when the first holds from some
\* day on, the second holds infinitely often.
Telling(m) == store.sealed[m] \/ tier \in {"sample", "checksum", "structural"}
TellingDamage(d) ==
  /\ Telling(DrillMedium(d))
  /\ \E a \in ToSet(Chain[d]) : Damaged(store, DrillMedium(d), a)
Reported(d) == ledger[d].class # "ok" \/ ~Drillable(d)
=============================================================================
