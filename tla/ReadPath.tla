------------------------------ MODULE ReadPath ------------------------------
(***************************************************************************)
(* Reading an archive back: which copy is opened, and what its stream      *)
(* yields.  internal/archivefs (copy selection and fail-over, the ordered  *)
(* pass) over internal/archiveio/reader.go (parts, seals), and the checks  *)
(* internal/engine/verify.go makes of a stream.                            *)
(*                                                                         *)
(* A store s is a record: on[m] the archives the catalog places on medium  *)
(* m, part[m][a] the state of their part files there, sealed[m] whether    *)
(* the placements record a seal for every part, opens the media that can   *)
(* be acquired.  A part file is ok, torn (its bytes differ from what was   *)
(* written) or gone (nothing is readable at its position).                 *)
(***************************************************************************)
EXTENDS Integers, Sequences, FiniteSets, SequencesExt, FiniteSetsExt

CONSTANTS Preference   \* the media in read-preference order, the engine's own first

Media == {Preference[i] : i \in DOMAIN Preference}
PartStates == {"ok", "torn", "gone"}
-----------------------------------------------------------------------------
(* Copy selection: every placement, or only those of the medium a read is  *)
(* pinned to ("" for none).                                                *)

Carries(s, pin, a, m) == a \in s.on[m] /\ (pin = "" \/ pin = m)

\* planRead: what the ordered pass does with an archive before it reads anything.
Planned(s, pin, a) ==
  CASE \A m \in Media : ~Carries(s, pin, a, m) -> "missing"
    [] \E m \in s.opens : Carries(s, pin, a, m) -> "read"
    [] OTHER -> "refused"

\* Any refusal ends a pass before its first archive is read; the missing are handed back.
PassRefused(s, pin, as) == \E a \in as : Planned(s, pin, a) = "refused"
PassMissing(s, pin, as) == {a \in as : Planned(s, pin, a) = "missing"}

\* openRef: the first copy whose medium can be acquired and whose first part opens, if one
\* is.  A medium the pass has already acquired (pooled) stays so.
Opens(s, pin, pooled, a, m) ==
  Carries(s, pin, a, m) /\ m \in s.opens \cup pooled /\ s.part[m][a][1] # "gone"
OpenRef(s, pin, pooled, a) ==
  {Preference[i] : i \in {k \in DOMAIN Preference :
     /\ Opens(s, pin, pooled, a, Preference[k])
     /\ \A j \in 1..(k - 1) : ~Opens(s, pin, pooled, a, Preference[j])}}

\* The media a pass acquires as it plans: of each archive, the first copy that opens.
Pooled(s, pin, as) ==
  {m \in s.opens : \E a \in as, i \in DOMAIN Preference :
     /\ m = Preference[i] /\ Carries(s, pin, a, m)
     /\ \A j \in 1..(i - 1) : ~(Preference[j] \in s.opens /\ Carries(s, pin, a, Preference[j]))}
-----------------------------------------------------------------------------
(* partsReader: the parts in order, each part's seal checked at its end.   *)
(* What is wrong in part k surfaces after the parts before it have been    *)
(* delivered, and there is no other copy to turn to by then.               *)

FirstFault(s, m, a) ==
  LET faulty == {k \in DOMAIN s.part[m][a] :
                   \/ s.part[m][a][k] = "gone"
                   \/ s.part[m][a][k] = "torn" /\ s.sealed[m]}
  IN IF faulty = {} THEN 0 ELSE Min(faulty)

Damaged(s, m, a) == \E k \in DOMAIN s.part[m][a] : s.part[m][a][k] # "ok"

\* clean; corrupt: wrong bytes, and no seal to tell; mismatch: a seal told; cut: no bytes.
Stream(s, m, a) ==
  LET k == FirstFault(s, m, a)
  IN IF k # 0 THEN IF s.part[m][a][k] = "gone" THEN "cut" ELSE "mismatch"
     ELSE IF Damaged(s, m, a) THEN "corrupt" ELSE "clean"
-----------------------------------------------------------------------------
(* The drill classes a read can end in; a set where the transform children *)
(* and the lister decide.                                                  *)

Classes == {"ok", "integrity", "pipeline", "chain", "missing", "skipped"}
IsFailure(c) == c \in {"integrity", "pipeline", "chain", "missing"}

ChecksumOf(got) ==
  CASE got = "clean" -> "ok" [] got = "cut" -> "pipeline" [] OTHER -> "integrity"

\* verifyArchive with the checksum alone: the stored bytes against the commit footer.
ChecksumClasses(s, pin, pooled, a) ==
  LET opened == OpenRef(s, pin, pooled, a)
  IN IF opened = {} THEN {"pipeline"}
     ELSE {ChecksumOf(Stream(s, m, a)) : m \in opened}

\* verifyDeep: one read feeds the decode and the hash; the decode is judged first, so wrong
\* bytes that no seal caught are its fault or, when it swallows them, the hash's.  Without
\* the key nothing decodes.
DeepOf(got, key) ==
  IF ~key THEN IF got = "mismatch" THEN {"integrity", "pipeline"} ELSE {"pipeline"}
  ELSE CASE got = "clean" -> {"ok"}
         [] got = "cut" -> {"pipeline"}
         [] got = "mismatch" -> {"integrity"}
         [] got = "corrupt" -> {"integrity", "pipeline"}
DeepClasses(s, pin, pooled, a, key) ==
  LET opened == OpenRef(s, pin, pooled, a)
  IN IF opened = {} THEN {"pipeline"}
     ELSE UNION {DeepOf(Stream(s, m, a), key) : m \in opened}

\* VerifyPart: one part against its seal.
PartClass(s, m, a, k) ==
  CASE s.part[m][a][k] = "ok" -> "ok"
    [] s.part[m][a][k] = "torn" -> "integrity"
    [] OTHER -> "pipeline"
-----------------------------------------------------------------------------
(* verify over one run's copies: a copy on a medium this configuration     *)
(* does not define is out of scope; the copies are judged one by one.      *)

CopyVerdict(s, known, m, as) ==
  LET expected == as \cap s.on[m]
      pooled == IF m \in s.opens THEN {m} ELSE {}
  IN CASE expected # {} /\ m \notin known -> "skipped"
       [] expected # {} /\ m \in known /\ m \notin s.opens -> "bad"
       [] \E a \in expected : m \in s.opens /\ ChecksumClasses(s, m, pooled, a) # {"ok"} -> "bad"
       [] OTHER -> "good"

RunVerdict(s, known, run, as) ==
  LET copies == {m \in Media : run \cap s.on[m] # {}}
  IN IF copies = {} THEN "none"
     ELSE IF \E m \in copies : CopyVerdict(s, known, m, as) = "bad" THEN "failed"
     ELSE IF \A m \in copies : CopyVerdict(s, known, m, as) = "skipped" THEN "skipped"
     ELSE "ok"
=============================================================================
