----------------------------- MODULE Restoring -----------------------------
(***************************************************************************)
(* A whole-DLE restore: internal/restorer's Extract and extractChain, over *)
(* stores whose copies are lost or damaged at any moment.                  *)
(*                                                                         *)
(* One nb recover --all at a time.  The destination is what the operator   *)
(* keeps there (foreign) and what the restore has landed: a sequence of    *)
(* archives, each whole, wrong (complete, with damaged bytes nothing       *)
(* noticed) or partial.                                                    *)
(***************************************************************************)
EXTENDS ReadPath

CONSTANTS
  Requests,   \* the requests made
  Chain,      \* DLE -> the archives a restore of it replays, the full first
  NParts,     \* archive -> its part files
  MaxDamage   \* bound: how often something happens to a copy or a medium

Dles == DOMAIN Chain
Archives == UNION {ToSet(Chain[d]) : d \in Dles}

RestoringAssumption ==
  /\ \A d \in Dles : Chain[d] \in Seq(Archives) /\ Chain[d] # <<>> /\ IsInjective(Chain[d])
  /\ NParts \in [Archives -> Nat \ {0}]
  /\ Preference \in Seq(Media) /\ "" \notin Media
  /\ MaxDamage \in Nat

VARIABLES
  store,    \* see ReadPath
  key,      \* the server can decrypt what is encrypted
  damage,   \* how often something has happened to a store
  req,      \* the request and what the configuration says of its DLE
  pc,
  pooled,   \* media the running pass has acquired
  at,       \* the step to extract next
  foreign,  \* the destination holds the operator's own files
  landed,   \* what this restore has put there
  outcome   \* none, ok, or how a failure is reported

storeVars == <<store, key, damage>>
restoreVars == <<req, pc, pooled, at, foreign, landed, outcome>>

\* from: "" or the pinned medium; remote: --to a client; tree: the archiver restores a
\* directory tree; combine: it stages every level and merges at the end; enc: where the
\* key lives, none for plaintext, client a public key escrowed or not, symmetric a
\* passphrase that never leaves the client; atomic: each part its own encrypted message.
Request == [dle : Dles, from : Media \cup {""}, remote : BOOLEAN, force : BOOLEAN,
            tree : BOOLEAN, combine : BOOLEAN,
            enc : {"none", "server", "client", "symmetric"}, atomic : BOOLEAN]

\* Atoms exist only encrypted; a combining archiver restores a tree.
Sensible(r) == (r.atomic => r.enc # "none") /\ (r.combine => r.tree)

NoRequest == [dle |-> 0, from |-> "", remote |-> FALSE, force |-> FALSE, tree |-> TRUE,
              combine |-> FALSE, enc |-> "none", atomic |-> FALSE]

RestoreInit ==
  /\ req = NoRequest /\ pc = "idle" /\ pooled = {} /\ at = 1
  /\ foreign = FALSE /\ landed = <<>> /\ outcome = "none"

Whole == [a \in Archives |-> [k \in 1..NParts[a] |-> "ok"]]

\* Placements with their files, all of them sealed or - written before seals - none.
StoreInit(placements, sealings) ==
  /\ \E on \in placements, sealed \in sealings :
       store = [on |-> on, part |-> [m \in Media |-> Whole], sealed |-> sealed, opens |-> Media]
  /\ key = TRUE /\ damage = 0
-----------------------------------------------------------------------------
(* What happens to a store meanwhile. *)

Fault == damage < MaxDamage /\ damage' = damage + 1

Damage(m, a, k) ==
  /\ Fault
  /\ a \in store.on[m]
  /\ \E how \in {"torn", "gone"} :
       /\ store.part[m][a][k] \notin {how, "gone"}
       /\ store' = [store EXCEPT !.part[m][a][k] = how]
  /\ UNCHANGED key

\* A medium stops being reachable, or is again.
Unreach(m) ==
  /\ Fault
  /\ m \in store.opens
  /\ store' = [store EXCEPT !.opens = @ \ {m}]
  /\ UNCHANGED key

LoseKey == Fault /\ key /\ key' = FALSE /\ UNCHANGED store
-----------------------------------------------------------------------------
(* Extract: nothing may land before the chain is known to be complete. *)

Wanted == Chain[req.dle]
StepSet == ToSet(Wanted)

\* A local tree, not forced, is guarded empty and so may be cleared again.
Guarded == req.tree /\ ~req.remote /\ ~req.force
OnClient == req.remote /\ req.enc \in {"client", "symmetric"}

Ask(r, own) ==
  /\ pc = "idle"
  /\ Sensible(r)
  /\ req' = r /\ foreign' = own
  /\ pc' = "guard"
  /\ UNCHANGED <<pooled, at, landed, outcome>>

Over(how) == pc' = "over" /\ outcome' = how

\* Refusals before anything is read: a non-empty destination, a key the server never has.
Refuse ==
  /\ pc = "guard"
  /\ \/ Guarded /\ foreign
     \/ ~req.remote /\ req.enc = "symmetric"
  /\ Over("plain")
  /\ UNCHANGED <<req, pooled, at, foreign, landed>>

Admit ==
  /\ pc = "guard"
  /\ ~(Guarded /\ foreign)
  /\ req.remote \/ req.enc # "symmetric"
  /\ pc' = "locate"
  /\ UNCHANGED <<req, pooled, at, foreign, landed, outcome>>

\* The availability pass touches the catalog and opens no file.
LocateSkipped ==   \* a mutant
  /\ pc = "locate"
  /\ pc' = "plan"
  /\ UNCHANGED <<req, pooled, at, foreign, landed, outcome>>
Locate ==
  /\ pc = "locate"
  /\ IF PassRefused(store, req.from, StepSet) \/ PassMissing(store, req.from, StepSet) # {}
     THEN Over("plain")
     ELSE pc' = "plan" /\ UNCHANGED outcome
  /\ UNCHANGED <<req, pooled, at, foreign, landed>>

\* What the pass reads; the missing it hands back to a caller that does not look at them.
ToRead == {k \in DOMAIN Wanted : Planned(store, req.from, Wanted[k]) # "missing"}
After(k) ==
  CHOOSE j \in (k + 1)..(Len(Wanted) + 1) :
    (j > Len(Wanted) \/ j \in ToRead) /\ \A i \in (k + 1)..(j - 1) : i \notin ToRead

\* The pass that reads plans again, and may be refused now.
Plan ==
  /\ pc = "plan"
  /\ IF PassRefused(store, req.from, StepSet)
     THEN pc' = "failing" /\ UNCHANGED <<pooled, at>>
     ELSE pc' = "read" /\ pooled' = Pooled(store, req.from, StepSet) /\ at' = After(0)
  /\ UNCHANGED <<req, foreign, landed, outcome>>

Reading == pc = "read" /\ at \in ToRead
Sources == OpenRef(store, req.from, pooled, Wanted[at])

Land(how) == landed' = Append(landed, [step |-> Wanted[at], is |-> how])

\* The destination directory cannot be made: the first of a tree, the next level's staging
\* directory, or any on a client that has become unreachable.
SetupFails ==
  /\ Reading
  /\ Sources # {}
  /\ req.tree /\ (at = After(0) \/ req.combine \/ req.remote)
  /\ ~(req.atomic /\ OnClient)
  /\ Over("plain")
  /\ UNCHANGED <<req, pooled, at, foreign, landed>>

\* No copy opens, or an atomic archive is to be decrypted on the client.
OpenFails ==
  /\ Reading
  /\ \/ Sources = {}
     \/ req.atomic /\ OnClient
  /\ pc' = "failing"
  /\ UNCHANGED <<req, pooled, at, foreign, landed, outcome>>

\* What can come of a stream: the seal or a missing part stops it, the decode may choke on
\* wrong bytes, and the sink may fail whatever it is fed.
Results(got) ==
  (IF got = "clean" THEN {"whole"} ELSE IF got = "corrupt" THEN {"wrong"} ELSE {})
    \cup {"partial"}

ExtractStep ==
  /\ Reading
  /\ ~(req.atomic /\ OnClient)
  /\ \E m \in Sources :
       LET got == Stream(store, m, Wanted[at])
           opaque == req.enc # "none" /\ ~key /\ ~OnClient
       IN \E how \in IF opaque THEN {"partial"} ELSE Results(got) :
            /\ Land(how)
            /\ IF how = "partial" THEN pc' = "failing" /\ UNCHANGED at
               ELSE at' = After(at) /\ UNCHANGED pc
  /\ UNCHANGED <<req, pooled, foreign, outcome>>

\* The last level is in; a combining archiver merges the staged levels and may fail at it.
FinishRestore ==
  /\ pc = "read" /\ at > Len(Wanted)
  /\ \/ Over("ok")
     \/ req.combine /\ pc' = "failing" /\ UNCHANGED outcome
  /\ UNCHANGED <<req, pooled, at, foreign, landed>>

\* A failed chain: what was guarded is cleared, unless that fails too; the rest is warned of.
Fail ==
  /\ pc = "failing"
  /\ IF Guarded
     THEN \/ Over("cleared") /\ landed' = <<>> /\ foreign' = FALSE
          \/ Over("uncleared") /\ UNCHANGED <<landed, foreign>>
     ELSE Over("partial") /\ UNCHANGED <<landed, foreign>>
  /\ UNCHANGED <<req, pooled, at>>

\* The operator empties the destination; one restore is asked for at most (a bound).
Discard ==
  /\ pc = "over"
  /\ req' = NoRequest /\ pc' = "quiet" /\ pooled' = {} /\ at' = 1
  /\ foreign' = FALSE /\ landed' = <<>> /\ outcome' = "none"
-----------------------------------------------------------------------------
Extracting ==
  \/ Refuse \/ Admit \/ Locate \/ Plan \/ SetupFails \/ OpenFails
  \/ ExtractStep \/ FinishRestore \/ Fail \/ Discard

Faults ==
  \/ \E m \in Media, a \in Archives, k \in 1..Max({NParts[b] : b \in Archives}) :
       k <= NParts[a] /\ Damage(m, a, k)
  \/ \E m \in Media : Unreach(m)
  \/ LoseKey
=============================================================================
