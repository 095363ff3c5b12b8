----------------------------- MODULE SpoolProofs -----------------------------
(***************************************************************************)
(* For any dumps, routes, holding disks, lanes and permits: no permit is   *)
(* leaked or returned twice, and a staged archive's files outlive every    *)
(* drain that still has to read them.  A run that ends without an error    *)
(* has every archive on its landings, Spool implements the staging         *)
(* contract, and the pool it drives is a HoldingPool.                      *)
(*                                                                         *)
(* The first two rest on where a producer is (Sides: an archive is staged  *)
(* or direct, and only a direct write holds permits itself) and on what a  *)
(* drain set counts (Counts: remaining is the number of drains that have   *)
(* not left it).  The pool's calls are never expanded there: what they do  *)
(* to the pool's own variables does not matter to either.                  *)
(*                                                                         *)
(* Completeness needs more, and none of it is inductive alone:             *)
(*   StagedSide  how far the staged copy of an archive is, its files and   *)
(*               its budget, against its producer and its drains;          *)
(*   LaneSide    a landing of the route that has no copy is tripped or     *)
(*               still has a drain, through every way a lane is skipped,   *)
(*               dropped or left;                                          *)
(*   Recorded    the flag of a trip, which is set first, is followed by    *)
(*               its record.                                               *)
(* Each action moves one archive, so each is shown Good once: it leaves    *)
(* the others alone, keeps this archive's sides and loses no trip.         *)
(***************************************************************************)
EXTENDS Spool, FiniteSetTheorems, TLAPS

Early == {"idle", "acquire", "staging", "charged"}
Direct == {"lease", "stream", "commit"}
Settled == {"closing", "over"}

Types ==
  /\ pc \in [Dumps -> PCs]
  /\ live \in [Dumps -> SUBSET Lanes]
  /\ grip \in [Dumps -> SUBSET Lanes]
  /\ drain \in [Dumps -> [Lanes -> DrainStates]]
  /\ remaining \in [Dumps -> Int]
  /\ landed \in [Dumps -> Nat]
  /\ free \in [Lanes -> Int]
  /\ files \in [Dumps -> {"none", "whole", "gone"}]
  /\ copies \in [Dumps -> SUBSET Lanes]

\* An archive's drains start when its staged write is charged; a direct write's lanes are
\* only ever dropped; only a direct write holds permits of its own.
Sides ==
  \A d \in Dumps :
    /\ pc[d] \in Early \cup {"lease"} => \A l \in Lanes : drain[d][l] = "none"
    /\ pc[d] \in {"stream", "commit"} =>
         \A l \in Lanes : drain[d][l] \in {"none", "failed", "out"}
    /\ grip[d] # {} => pc[d] \in Direct

Unfinished == {"queued", "copying", "landed", "failed", "counted"}
Pending(d) == {l \in Lanes : drain[d][l] \in Unfinished}

\* remaining counts the drains that have not left, and the last one to leave reclaims.
Counts ==
  \A d \in Dumps :
    /\ remaining[d] = IF pc[d] \in Settled THEN Cardinality(Pending(d)) ELSE 0
    /\ landed[d] > 0 => copies[d] # {}
    /\ \A l \in Lanes : drain[d][l] = "landed" => copies[d] # {}
    /\ \A l \in Lanes : drain[d][l] \in {"reclaiming", "removed", "releasing"} =>
         Pending(d) = {} /\ copies[d] # {}
    /\ files[d] = "gone" => pc[d] \in Settled /\ Pending(d) = {} /\ copies[d] # {}

IInv == Types /\ Sides /\ Counts /\ PermitsConserved

-----------------------------------------------------------------------------
\* One lane's permits: nothing moved, one was leased, or one came back.

Leased(l) == \E d \in Dumps \ LaneUsers(l) :
               LaneUsers(l)' = LaneUsers(l) \cup {d} /\ free'[l] = free[l] - 1
Returned(l) == \E d \in LaneUsers(l) :
               LaneUsers(l)' = LaneUsers(l) \ {d} /\ free'[l] = free[l] + 1
Still(l) == LaneUsers(l)' = LaneUsers(l) /\ free'[l] = free[l]

\* Lanes that take or return their permit, or neither, conserve them.
LEMMA PermitsStep ==
  ASSUME Types, PermitsConserved, \A l \in Lanes : Still(l) \/ Leased(l) \/ Returned(l)
  PROVE  PermitsConserved'
<1> SUFFICES ASSUME NEW l \in Lanes
             PROVE  free'[l] + Cardinality(LaneUsers(l)') = Permits[l]
    BY DEF PermitsConserved
<1>1. IsFiniteSet(LaneUsers(l)) /\ Cardinality(LaneUsers(l)) \in Int
    BY SpoolAssumption, FS_Subset, FS_CardinalityType DEF LaneUsers
<1>2. free[l] \in Int /\ free[l] + Cardinality(LaneUsers(l)) = Permits[l]
    BY DEF Types, PermitsConserved
<1>3. CASE Still(l)
    BY <1>2, <1>3 DEF Still
<1>4. CASE Leased(l)
  <2>1. PICK d \in Dumps \ LaneUsers(l) :
          LaneUsers(l)' = LaneUsers(l) \cup {d} /\ free'[l] = free[l] - 1
      BY <1>4 DEF Leased
  <2>2. Cardinality(LaneUsers(l) \cup {d}) = Cardinality(LaneUsers(l)) + 1
      BY <1>1, FS_AddElement
  <2> QED
      BY <1>1, <1>2, <2>1, <2>2
<1>5. CASE Returned(l)
  <2>1. PICK d \in LaneUsers(l) :
          LaneUsers(l)' = LaneUsers(l) \ {d} /\ free'[l] = free[l] + 1
      BY <1>5 DEF Returned
  <2>2. Cardinality(LaneUsers(l) \ {d}) = Cardinality(LaneUsers(l)) - 1
      BY <1>1, FS_RemoveElement
  <2> QED
      BY <1>1, <1>2, <2>1, <2>2
<1> QED
    BY <1>3, <1>4, <1>5

\* A lane whose users and channel a step does not touch.
LEMMA StillLane ==
  ASSUME NEW l \in Lanes, free'[l] = free[l],
         \A d \in Dumps : (drain'[d][l] = "copying" \/ l \in grip'[d])
                            <=> (drain[d][l] = "copying" \/ l \in grip[d])
  PROVE  Still(l)
  BY DEF Still, LaneUsers

-----------------------------------------------------------------------------
\* What a producer does before and after its lanes: it moves on, and no permit, drain or
\* count does.

QuietMove(d) ==
  /\ UNCHANGED <<grip, drain, remaining, landed, free>>
  /\ copies' = copies
  /\ pc' \in [Dumps -> PCs] /\ live' \in [Dumps -> SUBSET Lanes]
  /\ files' \in [Dumps -> {"none", "whole", "gone"}]
  /\ \A e \in Dumps : files'[e] = "gone" => files[e] = "gone"
  /\ \A e \in Dumps \ {d} : pc'[e] = pc[e]
  /\ \/ pc'[d] = pc[d]
     \/ pc[d] \in Early /\ pc'[d] \in Early \cup {"lease", "closing", "over"}
     \/ pc[d] = "closing" /\ pc'[d] = "over"
     \/ pc[d] = "stream" /\ pc'[d] = "commit"

\* A step that touches no lane, drain or staged archive keeps the invariant.
LEMMA QuietKeeps ==
  ASSUME IInv, NEW d \in Dumps, QuietMove(d)
  PROVE  IInv'
<1>1. Types'
    BY DEF IInv, Types, QuietMove
<1>2. Sides'
  <2> SUFFICES ASSUME NEW e \in Dumps
      PROVE  /\ pc'[e] \in Early \cup {"lease"} => \A l \in Lanes : drain'[e][l] = "none"
             /\ pc'[e] \in {"stream", "commit"} =>
                  \A l \in Lanes : drain'[e][l] \in {"none", "failed", "out"}
             /\ grip'[e] # {} => pc'[e] \in Direct
      BY DEF Sides
  <2>1. /\ pc[e] \in Early \cup {"lease"} => \A l \in Lanes : drain[e][l] = "none"
        /\ pc[e] \in {"stream", "commit"} =>
             \A l \in Lanes : drain[e][l] \in {"none", "failed", "out"}
        /\ grip[e] # {} => pc[e] \in Direct
      BY DEF IInv, Sides
  <2>2. drain'[e] = drain[e] /\ grip'[e] = grip[e]
      BY DEF QuietMove
  <2>3. \/ pc'[e] = pc[e]
        \/ pc[e] \in Early /\ pc'[e] \in Early \cup {"lease", "closing", "over"}
        \/ pc[e] = "closing" /\ pc'[e] = "over"
        \/ pc[e] = "stream" /\ pc'[e] = "commit"
      BY DEF QuietMove
  <2> QED
      BY <2>1, <2>2, <2>3 DEF Early, Direct
<1>3. \A e \in Dumps : Pending(e)' = Pending(e)
    BY DEF QuietMove, Pending
<1>4. pc[d] \in Early => Pending(d) = {}
    BY DEF IInv, Sides, Pending, Unfinished
<1>5. Counts'
  <2> SUFFICES ASSUME NEW e \in Dumps
      PROVE  /\ remaining'[e] = IF pc'[e] \in Settled THEN Cardinality(Pending(e)') ELSE 0
             /\ landed'[e] > 0 => copies'[e] # {}
             /\ \A l \in Lanes : drain'[e][l] = "landed" => copies'[e] # {}
             /\ \A l \in Lanes : drain'[e][l] \in {"reclaiming", "removed", "releasing"} =>
                  Pending(e)' = {} /\ copies'[e] # {}
             /\ files'[e] = "gone" =>
                  pc'[e] \in Settled /\ Pending(e)' = {} /\ copies'[e] # {}
      BY DEF Counts
  <2>1. remaining'[e] = IF pc'[e] \in Settled THEN Cardinality(Pending(e)') ELSE 0
      BY <1>3, <1>4, FS_EmptySet DEF IInv, Counts, QuietMove, Early, Settled
  <2>2. pc[e] \in Settled => pc'[e] \in Settled
      BY DEF QuietMove, Early, Settled
  <2>3. files'[e] = "gone" =>
          pc'[e] \in Settled /\ Pending(e)' = {} /\ copies'[e] # {}
      BY <1>3, <2>2 DEF IInv, Counts, QuietMove
  <2>4. /\ landed'[e] = landed[e] /\ copies'[e] = copies[e] /\ drain'[e] = drain[e]
      BY DEF QuietMove
  <2> QED
      BY <1>3, <2>1, <2>3, <2>4 DEF IInv, Counts
<1>6. \A l \in Lanes : Still(l)
    BY StillLane DEF QuietMove
<1> QED
    BY <1>1, <1>2, <1>5, <1>6, PermitsStep DEF IInv

\* The actions that are quiet in that sense.
LEMMA QuietActions ==
  ASSUME IInv, NEW d \in Dumps,
         \/ EnterAborted(d) \/ Enter(d) \/ EnterDead(d) \/ Acquire(d)
         \/ StageCommits(d) \/ StageFaults(d) \/ Charge(d) \/ LaunchDead(d)
         \/ FreeEstimate(d) \/ ReleaseWriter(d) \/ BeginCommit(d)
  PROVE  QuietMove(d)
<1> USE DEF IInv, Types, QuietMove, Goto, Early, PCs
<1>1. CASE EnterAborted(d) \/ EnterDead(d) \/ Charge(d) \/ StageFaults(d) \/ LaunchDead(d)
    BY <1>1 DEF EnterAborted, EnterDead, Charge, StageFaults, LaunchDead
<1>2. CASE Enter(d)
  <2>1. {l \in Reach(d) : ~tripped[l]} \in SUBSET Lanes
      BY SpoolAssumption DEF Reach
  <2> QED
      BY <1>2, <2>1 DEF Enter
<1>3. CASE Acquire(d)
    BY <1>3 DEF Acquire
<1>4. CASE StageCommits(d)
    BY <1>4 DEF StageCommits
<1>5. CASE FreeEstimate(d)
    BY <1>5 DEF FreeEstimate, laneVars
<1>6. CASE ReleaseWriter(d) \/ BeginCommit(d)
    BY <1>6 DEF ReleaseWriter, BeginCommit
<1> QED
    BY <1>1, <1>2, <1>3, <1>4, <1>5, <1>6

-----------------------------------------------------------------------------
\* The fan-out is launched: the set counts one drain per lane it starts.
LEMMA LaunchKeeps ==
  ASSUME IInv, NEW d \in Dumps, Launch(d)
  PROVE  IInv'
<1> DEFINE S == {l \in live[d] : ~tripped[l]}
<1>1. /\ pc[d] = "charged" /\ pc' = [pc EXCEPT ![d] = "closing"]
      /\ live' = [live EXCEPT ![d] = S]
      /\ remaining' = [remaining EXCEPT ![d] = Cardinality(S)]
      /\ drain' = [drain EXCEPT ![d] = [l \in Lanes |-> IF l \in S THEN "queued" ELSE "none"]]
      /\ UNCHANGED <<grip, landed, free, files, copies>>
    BY DEF Launch, Goto
<1>2. S \in SUBSET Lanes /\ Cardinality(S) \in Int
    BY SpoolAssumption, FS_Subset, FS_CardinalityType DEF IInv, Types
<1> HIDE DEF S
<1>3. Types'
    BY <1>1, <1>2 DEF IInv, Types, PCs, DrainStates
<1>4. /\ pc'[d] = "closing" /\ \A e \in Dumps \ {d} : pc'[e] = pc[e]
      /\ remaining'[d] = Cardinality(S)
      /\ \A e \in Dumps \ {d} : remaining'[e] = remaining[e] /\ drain'[e] = drain[e]
      /\ \A l \in Lanes : drain'[d][l] = IF l \in S THEN "queued" ELSE "none"
    BY <1>1 DEF IInv, Types
<1>5. grip[d] = {} /\ \A l \in Lanes : drain[d][l] = "none"
    BY <1>1 DEF IInv, Sides, Early, Direct
<1>6. Sides'
    BY <1>1, <1>4, <1>5 DEF IInv, Sides, Early, Direct
<1>7. Pending(d)' = S /\ \A e \in Dumps \ {d} : Pending(e)' = Pending(e)
    BY <1>2, <1>4 DEF Pending, Unfinished
<1>8. files[d] # "gone"
    BY <1>1 DEF IInv, Counts, Settled
<1>9. Counts'
    BY <1>1, <1>4, <1>5, <1>7, <1>8 DEF IInv, Counts, Settled
<1>10. \A l \in Lanes : Still(l)
    BY <1>1, <1>4, <1>5, StillLane
<1> QED
    BY <1>3, <1>6, <1>9, <1>10, PermitsStep DEF IInv

-----------------------------------------------------------------------------
\* What SetDrain does to the drains and to what is pending.
LEMMA SetDrainFacts ==
  ASSUME Types, NEW d \in Dumps, NEW l \in Lanes, NEW state \in DrainStates,
         SetDrain(d, l, state)
  PROVE  /\ drain' \in [Dumps -> [Lanes -> DrainStates]]
         /\ drain'[d][l] = state
         /\ \A k \in Lanes \ {l} : drain'[d][k] = drain[d][k]
         /\ \A e \in Dumps \ {d} : drain'[e] = drain[e]
         /\ \A e \in Dumps \ {d} : Pending(e)' = Pending(e)
         /\ Pending(d)' = IF state \in Unfinished THEN Pending(d) \cup {l} ELSE Pending(d) \ {l}
<1>1. /\ drain' \in [Dumps -> [Lanes -> DrainStates]]
      /\ drain'[d][l] = state
      /\ \A k \in Lanes \ {l} : drain'[d][k] = drain[d][k]
      /\ \A e \in Dumps \ {d} : drain'[e] = drain[e]
    BY DEF Types, SetDrain
<1> QED
    BY <1>1 DEF Pending

\* A drain runs only after its archive's producer settled, and holds no permit but its own.
LEMMA DrainWhere ==
  ASSUME IInv, NEW d \in Dumps, NEW l \in Lanes, drain[d][l] \notin {"none", "failed", "out"}
  PROVE  pc[d] \in Settled /\ grip[d] = {}
  BY DEF IInv, Sides, Types, PCs, Early, Direct, Settled

\* The copies a dump still awaits are finitely many.
LEMMA PendingFinite ==
  ASSUME NEW d \in Dumps
  PROVE  /\ IsFiniteSet(Pending(d)) /\ Cardinality(Pending(d)) \in Nat
         /\ Cardinality(Pending(d)) = 0 <=> Pending(d) = {}
  BY SpoolAssumption, FS_Subset, FS_CardinalityType, FS_EmptySet DEF Pending

\* A drain goes on within its set: what is pending and where the producer is stay.
DrainMove(d, l, state) ==
  /\ SetDrain(d, l, state)
  /\ drain[d][l] \in Unfinished /\ state \in Unfinished
  /\ pc[d] \in Settled /\ grip[d] = {}
  /\ UNCHANGED <<pc, live, grip, remaining, files>>
  /\ landed' \in [Dumps -> Nat] /\ free' \in [Lanes -> Int]
  /\ copies' \in [Dumps -> SUBSET Lanes] /\ \A e \in Dumps : copies[e] \subseteq copies'[e]
  /\ \A e \in Dumps \ {d} : landed'[e] = landed[e]
  /\ landed'[d] > 0 \/ state = "landed" => copies'[d] # {}

\* A drain that moves on keeps the invariant.
LEMMA DrainMoveKeeps ==
  ASSUME IInv, NEW d \in Dumps, NEW l \in Lanes, NEW state \in DrainStates,
         DrainMove(d, l, state)
  PROVE  Types' /\ Sides' /\ Counts'
<1>1. /\ drain' \in [Dumps -> [Lanes -> DrainStates]]
      /\ drain'[d][l] = state
      /\ \A k \in Lanes \ {l} : drain'[d][k] = drain[d][k]
      /\ \A e \in Dumps \ {d} : drain'[e] = drain[e]
      /\ \A e \in Dumps \ {d} : Pending(e)' = Pending(e)
      /\ Pending(d)' = Pending(d) /\ l \in Pending(d)
    BY SetDrainFacts DEF DrainMove, IInv, Pending
<1>2. Types'
    BY <1>1 DEF IInv, Types, DrainMove
<1>3. Sides'
    BY <1>1 DEF IInv, Sides, DrainMove, Early, Direct, Settled
<1>4. \A e \in Dumps : copies[e] # {} => copies'[e] # {}
    BY DEF DrainMove
<1>5. \A e \in Dumps : remaining'[e] = IF pc'[e] \in Settled THEN Cardinality(Pending(e)') ELSE 0
    BY <1>1 DEF IInv, Counts, DrainMove
<1>6. \A e \in Dumps \ {d} :
        /\ landed'[e] > 0 => copies'[e] # {}
        /\ \A k \in Lanes : drain'[e][k] = "landed" => copies'[e] # {}
        /\ \A k \in Lanes : drain'[e][k] \in {"reclaiming", "removed", "releasing"} =>
             Pending(e)' = {} /\ copies'[e] # {}
        /\ files'[e] = "gone" => pc'[e] \in Settled /\ Pending(e)' = {} /\ copies'[e] # {}
    BY <1>1, <1>4 DEF IInv, Counts, DrainMove
<1>7. /\ landed'[d] > 0 => copies'[d] # {}
      /\ \A k \in Lanes : drain'[d][k] = "landed" => copies'[d] # {}
      /\ \A k \in Lanes : drain'[d][k] \notin {"reclaiming", "removed", "releasing"}
      /\ files'[d] # "gone"
  <2>1. Pending(d) # {}
      BY <1>1
  <2>2. /\ files[d] # "gone"
        /\ \A k \in Lanes : drain[d][k] \notin {"reclaiming", "removed", "releasing"}
        /\ \A k \in Lanes : drain[d][k] = "landed" => copies[d] # {}
      BY <2>1 DEF IInv, Counts
  <2> QED
      BY <1>1, <1>4, <2>2 DEF DrainMove, Unfinished
<1>8. Counts'
    BY <1>5, <1>6, <1>7 DEF Counts
<1> QED
    BY <1>2, <1>3, <1>8

\* A drain that leases a lane keeps the invariant.
LEMMA LeaseDrainKeeps ==
  ASSUME IInv, NEW d \in Dumps, NEW l \in Lanes, LeaseDrain(d, l)
  PROVE  IInv'
<1>1. pc[d] \in Settled /\ grip[d] = {}
    BY DrainWhere DEF LeaseDrain
<1>2. DrainMove(d, l, "copying")
    BY <1>1 DEF LeaseDrain, DrainMove, IInv, Types, Counts, Unfinished
<1>3. /\ drain'[d][l] = "copying"
      /\ \A k \in Lanes \ {l} : drain'[d][k] = drain[d][k]
      /\ \A e \in Dumps \ {d} : drain'[e] = drain[e]
    BY SetDrainFacts DEF LeaseDrain, IInv, DrainStates
<1>4. /\ free'[l] = free[l] - 1 /\ \A k \in Lanes \ {l} : free'[k] = free[k]
      /\ grip' = grip /\ drain[d][l] = "queued"
    BY DEF LeaseDrain, IInv, Types
<1>5. Leased(l)
    BY <1>1, <1>3, <1>4 DEF Leased, LaneUsers
<1>6. \A k \in Lanes \ {l} : Still(k)
    BY <1>3, <1>4, StillLane
<1>7. Types' /\ Sides' /\ Counts'
    BY <1>2, DrainMoveKeeps DEF DrainStates
<1> QED
    BY <1>5, <1>6, <1>7, PermitsStep DEF IInv

\* The copy ends, well or not: the permit goes back before anyone hears of it.
LEMMA CopyEndsKeeps ==
  ASSUME IInv, NEW d \in Dumps, NEW l \in Lanes, CopyLands(d, l) \/ CopyFails(d, l)
  PROVE  IInv'
<1>1. drain[d][l] = "copying" /\ pc[d] \in Settled /\ grip[d] = {}
    BY DrainWhere DEF CopyLands, CopyFails
<1>2. /\ SetDrain(d, l, "landed") \/ SetDrain(d, l, "failed")
      /\ Return(l) /\ UNCHANGED <<pc, live, grip, remaining, landed, files>>
    BY DEF CopyLands, CopyFails, StoreTrip
<1>3. /\ free'[l] = free[l] + 1 /\ \A k \in Lanes \ {l} : free'[k] = free[k]
      /\ free' \in [Lanes -> Int]
    BY <1>2 DEF Return, IInv, Types
<1>4. DrainMove(d, l, "landed") \/ DrainMove(d, l, "failed")
  <2>1. CASE CopyLands(d, l)
    <3>1. /\ copies' \in [Dumps -> SUBSET Lanes] /\ copies'[d] # {}
          /\ \A e \in Dumps : copies[e] \subseteq copies'[e]
        BY <2>1 DEF CopyLands, IInv, Types
    <3> QED
        BY <1>1, <1>2, <1>3, <2>1, <3>1 DEF CopyLands, DrainMove, IInv, Types, Unfinished
  <2>2. CASE CopyFails(d, l)
        BY <1>1, <1>2, <1>3, <2>2
           DEF CopyFails, StoreTrip, DrainMove, IInv, Types, Counts, Unfinished
  <2> QED
      BY <2>1, <2>2
<1>5. /\ drain'[d][l] # "copying"
      /\ \A k \in Lanes \ {l} : drain'[d][k] = drain[d][k]
      /\ \A e \in Dumps \ {d} : drain'[e] = drain[e]
    BY <1>2, SetDrainFacts DEF IInv, DrainStates
<1>6. Returned(l)
    BY <1>1, <1>2, <1>3, <1>5 DEF Returned, LaneUsers
<1>7. \A k \in Lanes \ {l} : Still(k)
    BY <1>2, <1>3, <1>5, StillLane
<1>8. Types' /\ Sides' /\ Counts'
    BY <1>4, DrainMoveKeeps DEF DrainStates
<1> QED
    BY <1>6, <1>7, <1>8, PermitsStep DEF IInv

\* Counting a landing keeps the invariant.
LEMMA CountLandedKeeps ==
  ASSUME IInv, NEW d \in Dumps, NEW l \in Lanes, CountLanded(d, l)
  PROVE  IInv'
<1>1. drain[d][l] = "landed" /\ pc[d] \in Settled /\ grip[d] = {} /\ copies[d] # {}
    BY DrainWhere DEF CountLanded, IInv, Counts
<1>2. DrainMove(d, l, "counted")
    BY <1>1 DEF CountLanded, DrainMove, IInv, Types, Unfinished
<1>3. /\ drain'[d][l] = "counted"
      /\ \A k \in Lanes \ {l} : drain'[d][k] = drain[d][k]
      /\ \A e \in Dumps \ {d} : drain'[e] = drain[e]
    BY SetDrainFacts DEF CountLanded, IInv, DrainStates
<1>4. \A k \in Lanes : Still(k)
    BY <1>1, <1>3, StillLane DEF CountLanded
<1>5. Types' /\ Sides' /\ Counts'
    BY <1>2, DrainMoveKeeps DEF DrainStates
<1> QED
    BY <1>4, <1>5, PermitsStep DEF IInv

\* What Counts says of one archive, and that a step of another leaves it.
CountsOf(d) ==
  /\ remaining[d] = IF pc[d] \in Settled THEN Cardinality(Pending(d)) ELSE 0
  /\ landed[d] > 0 => copies[d] # {}
  /\ \A l \in Lanes : drain[d][l] = "landed" => copies[d] # {}
  /\ \A l \in Lanes : drain[d][l] \in {"reclaiming", "removed", "releasing"} =>
       Pending(d) = {} /\ copies[d] # {}
  /\ files[d] = "gone" => pc[d] \in Settled /\ Pending(d) = {} /\ copies[d] # {}

\* What one drain counts leaves the others' counts.
LEMMA OthersCount ==
  ASSUME Counts, NEW d \in Dumps, CountsOf(d)',
         \A e \in Dumps \ {d} :
           /\ pc'[e] = pc[e] /\ remaining'[e] = remaining[e] /\ landed'[e] = landed[e]
           /\ drain'[e] = drain[e] /\ files'[e] = files[e] /\ Pending(e)' = Pending(e)
           /\ copies[e] # {} => copies'[e] # {}
  PROVE  Counts'
<1>1. ASSUME NEW e \in Dumps \ {d} PROVE CountsOf(e)'
  <2>1. CountsOf(e)
      BY DEF Counts, CountsOf
  <2> QED
      BY <2>1 DEF CountsOf
<1> QED
    BY <1>1 DEF Counts, CountsOf

\* A drain leaves its set; the last one may go on to reclaim.
LEMMA LeaveKeeps ==
  ASSUME IInv, NEW d \in Dumps, NEW l \in Lanes, Leave(d, l)
  PROVE  IInv'
<1>1. drain[d][l] = "counted" /\ pc[d] \in Settled /\ grip[d] = {}
    BY DrainWhere DEF Leave
<1>2. remaining[d] = Cardinality(Pending(d)) /\ l \in Pending(d)
    BY <1>1 DEF IInv, Counts, Pending, Unfinished
<1>3. /\ remaining' = [remaining EXCEPT ![d] = @ - 1]
      /\ UNCHANGED <<pc, live, grip, landed, free, files, copies>>
    BY DEF Leave
<1>4. /\ remaining'[d] = remaining[d] - 1
      /\ \A e \in Dumps \ {d} : remaining'[e] = remaining[e]
      /\ remaining' \in [Dumps -> Int]
    BY <1>3 DEF IInv, Types
<1>5. PICK state \in {"out", "reclaiming"} :
        /\ SetDrain(d, l, state)
        /\ state = "reclaiming" => remaining[d] = 1 /\ landed[d] > 0
    BY DEF Leave
<1>6. /\ drain' \in [Dumps -> [Lanes -> DrainStates]]
      /\ drain'[d][l] = state
      /\ \A k \in Lanes \ {l} : drain'[d][k] = drain[d][k]
      /\ \A e \in Dumps \ {d} : drain'[e] = drain[e] /\ Pending(e)' = Pending(e)
      /\ Pending(d)' = Pending(d) \ {l}
    BY <1>5, SetDrainFacts DEF IInv, DrainStates, Unfinished
<1>7. Cardinality(Pending(d)') = remaining'[d]
    BY <1>2, <1>4, <1>6, PendingFinite, FS_RemoveElement
<1>8. state = "reclaiming" => Pending(d)' = {} /\ copies[d] # {}
  <2>1. state = "reclaiming" => Cardinality(Pending(d)) = 1
      BY <1>2, <1>5
  <2>2. Cardinality(Pending(d)) = 1 => Pending(d) = {l}
      BY <1>2, PendingFinite, FS_Singleton
  <2>3. landed[d] > 0 => copies[d] # {}
      BY DEF IInv, Counts
  <2> QED
      BY <1>5, <1>6, <2>1, <2>2, <2>3
<1>9. Types'
    BY <1>3, <1>4, <1>6 DEF IInv, Types
<1>10. Sides'
    BY <1>1, <1>3, <1>6 DEF IInv, Sides, Early, Direct, Settled
<1>11. /\ files[d] # "gone"
       /\ \A k \in Lanes : drain[d][k] \notin {"reclaiming", "removed", "releasing"}
    BY <1>2 DEF IInv, Counts
<1>12. Counts'
  <2>1. CountsOf(d)'
    <3>1. CountsOf(d)
        BY DEF IInv, Counts, CountsOf
    <3>2. \A k \in Lanes : drain'[d][k] = "landed" => copies'[d] # {}
        BY <1>3, <1>5, <1>6, <3>1 DEF CountsOf
    <3>3. \A k \in Lanes : drain'[d][k] \in {"reclaiming", "removed", "releasing"} =>
            Pending(d)' = {} /\ copies'[d] # {}
        BY <1>3, <1>6, <1>8, <1>11
    <3> QED
        BY <1>1, <1>3, <1>7, <1>11, <3>1, <3>2, <3>3 DEF CountsOf
  <2> QED
      BY <1>3, <1>4, <1>6, <2>1, OthersCount DEF IInv
<1>13. \A k \in Lanes : Still(k)
    BY <1>1, <1>3, <1>5, <1>6, StillLane
<1> QED
    BY <1>9, <1>10, <1>12, <1>13, PermitsStep DEF IInv

\* The last drain reclaims: the archive has a copy and nothing of it is pending.
LEMMA ReclaimKeeps ==
  ASSUME IInv, NEW d \in Dumps, NEW l \in Lanes,
         \/ ReclaimFiles(d, l) \/ ReclaimPlacement(d, l)
         \/ ReclaimReleases(d, l) \/ ReclaimFails(d, l)
  PROVE  IInv'
<1> USE DEF ReclaimFiles, ReclaimPlacement, ReclaimReleases, ReclaimFails
<1>1. drain[d][l] \in {"reclaiming", "removed", "releasing"}
    OBVIOUS
<1>2. pc[d] \in Settled /\ grip[d] = {} /\ Pending(d) = {} /\ copies[d] # {}
    BY <1>1, DrainWhere DEF IInv, Counts
<1>3. PICK state \in {"removed", "releasing", "out"} : SetDrain(d, l, state)
    OBVIOUS
<1>4. /\ UNCHANGED <<pc, live, grip, remaining, landed, free, copies>>
      /\ files' \in [Dumps -> {"none", "whole", "gone"}]
      /\ \A e \in Dumps \ {d} : files'[e] = files[e]
    BY DEF IInv, Types
<1>5. /\ drain' \in [Dumps -> [Lanes -> DrainStates]]
      /\ drain'[d][l] = state
      /\ \A k \in Lanes \ {l} : drain'[d][k] = drain[d][k]
      /\ \A e \in Dumps \ {d} : drain'[e] = drain[e] /\ Pending(e)' = Pending(e)
      /\ Pending(d)' = {}
    BY <1>2, <1>3, SetDrainFacts DEF IInv, DrainStates, Unfinished
<1> HIDE DEF ReclaimFiles, ReclaimPlacement, ReclaimReleases, ReclaimFails
<1>6. Types'
    BY <1>4, <1>5 DEF IInv, Types
<1>7. Sides'
    BY <1>2, <1>4, <1>5 DEF IInv, Sides, Early, Direct, Settled
<1>8. Counts'
  <2>1. remaining'[d] = Cardinality(Pending(d)')
      BY <1>2, <1>4, <1>5 DEF IInv, Counts
  <2>2. CountsOf(d)'
      BY <1>2, <1>4, <1>5, <2>1 DEF CountsOf
  <2> QED
      BY <1>4, <1>5, <2>2, OthersCount DEF IInv
<1>9. \A k \in Lanes : Still(k)
    BY <1>1, <1>4, <1>5, StillLane
<1> QED
    BY <1>6, <1>7, <1>8, <1>9, PermitsStep DEF IInv

-----------------------------------------------------------------------------
\* A direct write's lanes: the drain record of a lane is only ever a drop.

LaneMove(d) ==
  /\ pc[d] \in Direct /\ pc' \in [Dumps -> PCs] /\ pc'[d] \in Direct \cup {"over"}
  /\ \A e \in Dumps \ {d} : pc'[e] = pc[e] /\ grip'[e] = grip[e] /\ drain'[e] = drain[e]
  /\ grip' \in [Dumps -> SUBSET Lanes] /\ free' \in [Lanes -> Int]
  /\ drain' \in [Dumps -> [Lanes -> DrainStates]]
  /\ UNCHANGED <<live, remaining, landed, files>>
  /\ copies' \in [Dumps -> SUBSET Lanes] /\ \A e \in Dumps : copies[e] \subseteq copies'[e]
  /\ pc'[d] = "over" => grip'[d] = {}
  /\ \A l \in Lanes : drain'[d][l] \in CASE pc'[d] = "lease" -> {"none"}
                                          [] pc'[d] = "over" -> {"none", "out"}
                                          [] OTHER -> {"none", "failed", "out"}

\* A lane that moves on keeps the invariant.
LEMMA LaneMoveKeeps ==
  ASSUME IInv, NEW d \in Dumps, LaneMove(d)
  PROVE  Types' /\ Sides' /\ Counts'
<1>1. Types'
    BY DEF IInv, Types, LaneMove
<1>2. Sides'
    BY DEF IInv, Sides, LaneMove, Early, Direct
<1>3. \A e \in Dumps \ {d} : Pending(e)' = Pending(e)
    BY DEF LaneMove, Pending
<1>4. pc'[d] \in Settled => Pending(d)' = {}
    BY DEF LaneMove, Pending, Unfinished, Direct, Settled
<1>5. remaining[d] = 0 /\ files[d] # "gone"
    BY DEF IInv, Counts, LaneMove, Direct, Settled
<1>6. \A l \in Lanes : drain'[d][l] \in {"none", "failed", "out"}
    BY DEF LaneMove, Direct
<1>7. \A e \in Dumps : copies[e] # {} => copies'[e] # {}
    BY DEF LaneMove
<1>8. Counts'
  <2>1. remaining'[d] = IF pc'[d] \in Settled THEN Cardinality(Pending(d)') ELSE 0
      BY <1>4, <1>5, FS_EmptySet DEF LaneMove
  <2>2. landed'[d] > 0 => copies'[d] # {}
      BY <1>7 DEF IInv, Counts, LaneMove
  <2>3. files'[d] # "gone"
      BY <1>5 DEF LaneMove
  <2>4. CountsOf(d)'
      BY <1>6, <2>1, <2>2, <2>3 DEF CountsOf
  <2> QED
      BY <1>3, <1>7, <2>4, OthersCount DEF IInv, LaneMove
<1> QED
    BY <1>1, <1>2, <1>8

\* Recording a trip keeps the invariant.
LEMMA RecordTripKeeps ==
  ASSUME IInv, NEW d \in Dumps, NEW l \in Lanes, RecordTrip(d, l)
  PROVE  IInv'
<1>1. /\ drain[d][l] = "failed"
      /\ UNCHANGED <<pc, live, grip, remaining, landed, free, files, copies>>
    BY DEF RecordTrip
<1>2. pc[d] \in {"stream", "commit"} \cup Settled
    BY <1>1 DEF IInv, Sides, Types, PCs, Early, Settled
<1>3. PICK state \in {"out", "counted"} :
        SetDrain(d, l, state) /\ (state = "out" <=> pc[d] \in {"stream", "commit"})
    BY DEF RecordTrip
<1>4. /\ drain' \in [Dumps -> [Lanes -> DrainStates]]
      /\ drain'[d][l] = state
      /\ \A k \in Lanes \ {l} : drain'[d][k] = drain[d][k]
      /\ \A e \in Dumps \ {d} : drain'[e] = drain[e]
    BY <1>3, SetDrainFacts DEF IInv, DrainStates
<1>5. Types' /\ Sides' /\ Counts'
  <2>1. CASE state = "out"
    <3>1. pc[d] \in {"stream", "commit"}
        BY <1>3, <2>1
    <3>2. \A k \in Lanes : drain'[d][k] \in {"none", "failed", "out"}
        BY <1>4, <2>1, <3>1 DEF IInv, Sides
    <3>3. LaneMove(d)
        BY <1>1, <1>4, <3>1, <3>2 DEF LaneMove, IInv, Types, Direct
    <3> QED
        BY <3>3, LaneMoveKeeps
  <2>2. CASE state = "counted"
    <3>1. pc[d] \in Settled /\ grip[d] = {}
        BY <1>2, <1>3, <2>2 DEF IInv, Sides, Direct, Settled
    <3>2. DrainMove(d, l, "counted")
        BY <1>1, <1>3, <2>2, <3>1 DEF DrainMove, IInv, Types, Counts, Unfinished
    <3> QED
        BY <3>2, DrainMoveKeeps DEF DrainStates
  <2> QED
      BY <2>1, <2>2
<1>6. \A k \in Lanes : Still(k)
    BY <1>1, <1>4, StillLane
<1> QED
    BY <1>5, <1>6, PermitsStep DEF IInv

\* A direct dump's lane that takes its permit keeps the invariant.
LEMMA LeaseDirectKeeps ==
  ASSUME IInv, NEW d \in Dumps, NEW l \in Lanes, LeaseDirect(d, l)
  PROVE  IInv'
<1>1. /\ pc[d] = "lease" /\ l \notin grip[d]
      /\ UNCHANGED <<live, drain, remaining, landed, files, copies>>
      /\ pc' = [pc EXCEPT ![d] = "stream"] \/ pc' = pc
    BY DEF LeaseDirect, Goto
<1>2. /\ free'[l] = free[l] - 1 /\ \A k \in Lanes \ {l} : free'[k] = free[k]
      /\ free' \in [Lanes -> Int]
      /\ grip'[d] = grip[d] \cup {l} /\ \A e \in Dumps \ {d} : grip'[e] = grip[e]
      /\ grip' \in [Dumps -> SUBSET Lanes]
    BY DEF LeaseDirect, IInv, Types
<1>3. \A k \in Lanes : drain[d][k] = "none"
    BY <1>1 DEF IInv, Sides
<1>4. LaneMove(d)
    BY <1>1, <1>2, <1>3 DEF LaneMove, IInv, Types, PCs, Direct
<1>5. Leased(l)
    BY <1>1, <1>2, <1>3 DEF Leased, LaneUsers
<1>6. \A k \in Lanes \ {l} : Still(k)
    BY <1>1, <1>2, StillLane
<1> QED
    BY <1>4, <1>5, <1>6, LaneMoveKeeps, PermitsStep DEF IInv

\* A dropped lane's permit comes back as its writer closes.
LEMMA DropLaneKeeps ==
  ASSUME IInv, NEW d \in Dumps, NEW l \in Lanes, DropLane(d, l)
  PROVE  IInv'
<1>1. /\ pc[d] \in {"stream", "commit"} /\ l \in grip[d]
      /\ SetDrain(d, l, "failed")
      /\ UNCHANGED <<pc, live, remaining, landed, files, copies>>
    BY DEF DropLane, StoreTrip, NextToSeal
<1>2. /\ free'[l] = free[l] + 1 /\ \A k \in Lanes \ {l} : free'[k] = free[k]
      /\ free' \in [Lanes -> Int]
      /\ grip'[d] = grip[d] \ {l} /\ \A e \in Dumps \ {d} : grip'[e] = grip[e]
      /\ grip' \in [Dumps -> SUBSET Lanes]
    BY DEF DropLane, StoreTrip, Return, IInv, Types
<1>3. /\ drain' \in [Dumps -> [Lanes -> DrainStates]]
      /\ drain'[d][l] = "failed"
      /\ \A k \in Lanes \ {l} : drain'[d][k] = drain[d][k]
      /\ \A e \in Dumps \ {d} : drain'[e] = drain[e]
    BY <1>1, SetDrainFacts DEF IInv, DrainStates
<1>4. \A k \in Lanes : drain[d][k] \in {"none", "failed", "out"}
    BY <1>1 DEF IInv, Sides
<1>5. LaneMove(d)
    BY <1>1, <1>2, <1>3, <1>4 DEF LaneMove, IInv, Types, Direct
<1>6. Returned(l)
    BY <1>1, <1>2, <1>3, <1>4 DEF Returned, LaneUsers
<1>7. \A k \in Lanes \ {l} : Still(k)
    BY <1>1, <1>2, <1>3, StillLane
<1> QED
    BY <1>5, <1>6, <1>7, LaneMoveKeeps, PermitsStep DEF IInv

\* A lane's commit keeps the invariant.
LEMMA CommitLaneKeeps ==
  ASSUME IInv, NEW d \in Dumps, NEW l \in Lanes, CommitLane(d, l)
  PROVE  IInv'
<1>1. pc[d] = "commit" /\ UNCHANGED <<pc, live, grip, drain, remaining, landed, free, files>>
    BY DEF CommitLane
<1>2. copies' \in [Dumps -> SUBSET Lanes] /\ \A e \in Dumps : copies[e] \subseteq copies'[e]
    BY DEF CommitLane, IInv, Types
<1>3. LaneMove(d)
    BY <1>1, <1>2 DEF LaneMove, IInv, Types, Sides, Direct
<1>4. \A k \in Lanes : Still(k)
    BY <1>1, StillLane
<1> QED
    BY <1>3, <1>4, LaneMoveKeeps, PermitsStep DEF IInv

\* The producer closes: every permit it still holds comes back.
LEMMA CloseDirectKeeps ==
  ASSUME IInv, NEW d \in Dumps, CloseDirect(d)
  PROVE  IInv'
<1>1. /\ pc[d] \in {"stream", "commit"} /\ ~Dropping(d)
      /\ pc' = [pc EXCEPT ![d] = "over"]
      /\ grip' = [grip EXCEPT ![d] = {}]
      /\ free' = [l \in Lanes |-> IF l \in grip[d] THEN free[l] + 1 ELSE free[l]]
      /\ UNCHANGED <<live, drain, remaining, landed, files, copies>>
    BY DEF CloseDirect, MayClose, Goto
<1>2. \A k \in Lanes : drain[d][k] \in {"none", "out"}
    BY <1>1 DEF IInv, Sides, Dropping
<1>3. /\ grip'[d] = {} /\ \A e \in Dumps \ {d} : grip'[e] = grip[e]
      /\ grip' \in [Dumps -> SUBSET Lanes]
    BY <1>1 DEF IInv, Types
<1>4. LaneMove(d)
    BY <1>1, <1>2, <1>3 DEF LaneMove, IInv, Types, PCs, Direct
<1>5. ASSUME NEW l \in Lanes
      PROVE  Still(l) \/ Returned(l)
  <2>1. CASE l \in grip[d]
    <3>1. /\ LaneUsers(l)' = LaneUsers(l) \ {d} /\ d \in LaneUsers(l)
          /\ free'[l] = free[l] + 1
        BY <1>1, <1>2, <1>3, <2>1 DEF LaneUsers
    <3> QED
        BY <3>1 DEF Returned
  <2>2. CASE l \notin grip[d]
      BY <1>1, <1>3, <2>2, StillLane
  <2> QED
      BY <2>1, <2>2
<1> QED
    BY <1>4, <1>5, LaneMoveKeeps, PermitsStep DEF IInv

-----------------------------------------------------------------------------
\* A run that has not begun.
LEMMA InitHolds == Init => IInv
<1> SUFFICES ASSUME Init PROVE IInv
    OBVIOUS
<1>1. Types
    BY SpoolAssumption DEF Init, Types, PCs, DrainStates
<1>2. Sides
    BY DEF Init, Sides, Early, Direct
<1>3. \A d \in Dumps : Pending(d) = {}
    BY DEF Init, Pending, Unfinished
<1>4. Counts
    BY <1>3 DEF Init, Counts, Settled
<1>5. \A l \in Lanes : LaneUsers(l) = {}
    BY DEF Init, LaneUsers
<1>6. \A l \in Lanes : Cardinality(LaneUsers(l)) = 0
    BY <1>5, FS_EmptySet
<1>7. PermitsConserved
    BY <1>6, SpoolAssumption DEF Init, PermitsConserved
<1> QED
    BY <1>1, <1>2, <1>4, <1>7 DEF IInv

\* A step that touches none of the lanes' variables keeps the invariant.
LEMMA StutterKeeps == ASSUME IInv, UNCHANGED laneVars PROVE IInv'
<1>1. Types' /\ Sides'
    BY DEF IInv, Types, Sides, laneVars
<1>2. \A d \in Dumps : Pending(d)' = Pending(d)
    BY DEF Pending, laneVars
<1>3. Counts'
    BY <1>2 DEF IInv, Counts, laneVars
<1>4. \A l \in Lanes : Still(l)
    BY StillLane DEF laneVars
<1> QED
    BY <1>1, <1>3, <1>4, PermitsStep DEF IInv

\* The invariant is inductive.
LEMMA StepKeeps == IInv /\ [Next]_vars => IInv'
<1> SUFFICES ASSUME IInv, [Next]_vars PROVE IInv'
    OBVIOUS
<1>1. ASSUME NEW d \in Dumps, ProducerStep(d)
      PROVE  IInv'
  <2>1. CASE \/ EnterAborted(d) \/ Enter(d) \/ EnterDead(d) \/ Acquire(d)
             \/ StageCommits(d) \/ StageFaults(d) \/ Charge(d) \/ LaunchDead(d)
             \/ FreeEstimate(d) \/ ReleaseWriter(d) \/ BeginCommit(d)
      BY <2>1, QuietActions, QuietKeeps
  <2>2. CASE Launch(d)
      BY <2>2, LaunchKeeps
  <2>3. CASE CloseDirect(d)
      BY <2>3, CloseDirectKeeps
  <2>4. ASSUME NEW l \in Lanes,
               LeaseDirect(d, l) \/ DropLane(d, l) \/ CommitLane(d, l) \/ RecordTrip(d, l)
        PROVE  IInv'
      BY <2>4, LeaseDirectKeeps, DropLaneKeeps, CommitLaneKeeps, RecordTripKeeps
  <2> QED
      BY <1>1, <2>1, <2>2, <2>3, <2>4 DEF ProducerStep
<1>2. ASSUME NEW d \in Dumps, NEW l \in Lanes, DrainStep(d, l)
      PROVE  IInv'
  <2>1. CASE LeaseDrain(d, l)
      BY <2>1, LeaseDrainKeeps
  <2>2. CASE CopyLands(d, l) \/ CopyFails(d, l)
      BY <2>2, CopyEndsKeeps
  <2>3. CASE RecordTrip(d, l)
      BY <2>3, RecordTripKeeps
  <2>4. CASE CountLanded(d, l)
      BY <2>4, CountLandedKeeps
  <2>5. CASE Leave(d, l)
      BY <2>5, LeaveKeeps
  <2>6. CASE \/ ReclaimFiles(d, l) \/ ReclaimPlacement(d, l)
             \/ ReclaimReleases(d, l) \/ ReclaimFails(d, l)
      BY <2>6, ReclaimKeeps
  <2> QED
      BY <1>2, <2>1, <2>2, <2>3, <2>4, <2>5, <2>6 DEF DrainStep
<1>3. CASE Cancel
    BY <1>3, StutterKeeps DEF Cancel
<1>4. CASE UNCHANGED vars
    BY <1>4, StutterKeeps DEF vars
<1> QED
    BY <1>1, <1>2, <1>3, <1>4 DEF Next

\* The inductive invariant holds.
LEMMA IInvHolds == Spec => []IInv
<1>1. Init => IInv
    BY InitHolds
<1>2. IInv /\ [Next]_vars => IInv'
    BY StepKeeps
<1> QED
    BY <1>1, <1>2, PTL DEF Spec

\* Every permit of every lane is in its channel or with one writer, however drains end,
\* Tee lanes drop and direct writes fail (spool.go's lease and the writers' closes).
THEOREM PermitsHold == Spec => []PermitsConserved
<1>1. IInv => PermitsConserved
    BY DEF IInv
<1> QED
    BY <1>1, IInvHolds, PTL

\* No staged file goes while a drain of its archive is still to read it, nor before some
\* landing has the archive (drainSet's remaining and landed, reclaimStaged).
THEOREM StagedHolds == Spec => []StagedOutlivesDrains
<1>1. IInv => StagedOutlivesDrains
  <2> SUFFICES ASSUME IInv, NEW d \in Dumps, files[d] = "gone"
      PROVE  /\ copies[d] # {}
             /\ \A l \in Lanes : drain[d][l] \notin {"queued", "copying", "landed", "failed"}
      BY DEF StagedOutlivesDrains
  <2>1. Pending(d) = {} /\ copies[d] # {}
      BY DEF IInv, Counts
  <2> QED
      BY <2>1 DEF Pending, Unfinished
<1> QED
    BY <1>1, IInvHolds, PTL

-----------------------------------------------------------------------------
\* Completeness, and what Spool implements.

\* The variables of the pool and of the trips, which SpoolProofs does not look at.
MoreTypes ==
  /\ phase \in [Dumps -> Pool!Phases]
  /\ staged \in [Dumps -> Pool!StagedStates]
  /\ aborted \in BOOLEAN
  /\ tripped \in [Lanes -> BOOLEAN]
  /\ missing \in [Lanes -> Nat]

\* The states of the one drain that reclaims.
Reclaiming == {"reclaiming", "removed", "releasing"}

\* The staged copy of d: nothing before its staging write, whole until a drain removes
\* it, and held by an unfinished drain, a reclaim on its way, or an aborted run.
StagedSide(d) ==
  /\ pc[d] \in {"idle", "acquire"} \cup Direct => files[d] = "none" /\ staged[d] = "none"
  /\ pc[d] = "staging" =>
       staged[d] = "none" /\ files[d] = IF phase[d] = "committed" THEN "whole" ELSE "none"
  /\ pc[d] = "charged" => files[d] = "whole" /\ staged[d] = "staged"
  /\ pc[d] \in Settled =>
       /\ files[d] = "none" <=> staged[d] = "none"
       /\ staged[d] = "staged" =>
            \E l \in Lanes : drain[d][l] \in Unfinished \cup {"reclaiming", "removed"}
       /\ staged[d] = "removed" => \E l \in Lanes : drain[d][l] = "releasing"
       /\ \A l \in Lanes :
            /\ drain[d][l] \in Unfinished \cup {"reclaiming"} => files[d] = "whole"
            /\ drain[d][l] = "removed" => files[d] = "gone"
  /\ staged[d] \in {"removed", "released"} => files[d] = "gone"
  /\ staged[d] = "kept" => aborted
  /\ \A k, l \in Lanes : drain[d][k] \in Reclaiming /\ drain[d][l] \in Reclaiming => k = l

\* The landings of d: one that is skipped or dropped is tripped, and once the producer has
\* settled one without a copy is tripped or about to be written by its drain.
LaneSide(d) ==
  /\ grip[d] \subseteq live[d] /\ live[d] \subseteq Reach(d)
  /\ pc[d] \in Early \cup {"lease", "stream"} => copies[d] = {}
  /\ pc[d] = "commit" => copies[d] \subseteq live[d]
  /\ pc[d] \notin {"idle"} \cup Settled => \A l \in Reach(d) \ live[d] : tripped[l]
  /\ pc[d] \in {"stream", "commit"} => \A l \in live[d] \ grip[d] : tripped[l]
  /\ \A l \in Lanes : drain[d][l] \in {"queued", "copying"} => l \in Reach(d) \ copies[d]
  /\ pc[d] \in Settled /\ ~aborted /\ Succeeded(d) =>
       \A l \in Reach(d) \ copies[d] : tripped[l] \/ drain[d][l] \in {"queued", "copying"}

\* Both sides of every archive.
Journeys == \A d \in Dumps : StagedSide(d) /\ LaneSide(d)

\* A trip is in the missing record, or the drain that set its flag is about to put it there.
Recorded ==
  \A l \in Lanes : tripped[l] => missing[l] > 0 \/ \E d \in Dumps : drain[d][l] = "failed"

\* The inductive invariant.
JInv == IInv /\ MoreTypes /\ Journeys /\ Recorded

\* A step of d: other archives stay as they are; an abort and a trip are for good.
Moves(d) ==
  /\ \A e \in Dumps \ {d} :
       /\ pc'[e] = pc[e] /\ live'[e] = live[e] /\ grip'[e] = grip[e]
       /\ drain'[e] = drain[e] /\ files'[e] = files[e] /\ copies'[e] = copies[e]
       /\ phase'[e] = phase[e] /\ staged'[e] = staged[e]
  /\ aborted => aborted'
  /\ \A l \in Lanes : tripped[l] => tripped'[l]

\* No trip of this step goes unrecorded.
TripsKept ==
  /\ \A l \in Lanes : missing[l] > 0 => missing'[l] > 0
  /\ \A l \in Lanes : tripped'[l] => tripped[l] \/ \E e \in Dumps : drain'[e][l] = "failed"
  /\ \A e \in Dumps, l \in Lanes :
       drain[e][l] = "failed" => drain'[e][l] = "failed" \/ missing'[l] > 0

\* Sides only look at one archive, the trips and the abort.
LEMMA OthersKeep ==
  ASSUME Journeys, NEW d \in Dumps, Moves(d), StagedSide(d)', LaneSide(d)'
  PROVE  Journeys'
<1> SUFFICES ASSUME NEW e \in Dumps \ {d} PROVE StagedSide(e)' /\ LaneSide(e)'
    BY DEF Journeys
<1>1. /\ pc'[e] = pc[e] /\ live'[e] = live[e] /\ grip'[e] = grip[e]
      /\ drain'[e] = drain[e] /\ files'[e] = files[e] /\ copies'[e] = copies[e]
      /\ phase'[e] = phase[e] /\ staged'[e] = staged[e]
      /\ aborted => aborted'
      /\ \A l \in Lanes : tripped[l] => tripped'[l]
    BY DEF Moves
<1>2. StagedSide(e) /\ LaneSide(e)
    BY DEF Journeys
<1>3. StagedSide(e)'
    BY <1>1, <1>2 DEF StagedSide
<1>4. Reach(e) \subseteq Lanes
    BY SpoolAssumption DEF Reach
<1>5. LaneSide(e)'
    BY <1>1, <1>2, <1>4 DEF LaneSide, Succeeded, Reach
<1> QED
    BY <1>3, <1>5

\* TripsKept says enough for Recorded.
LEMMA TripsStayRecorded ==
  ASSUME Recorded, TripsKept
  PROVE  Recorded'
  BY DEF Recorded, TripsKept

\* All that a step of d has to be shown to do.
Good(d) == Moves(d) /\ MoreTypes' /\ StagedSide(d)' /\ LaneSide(d)' /\ TripsKept

\* What is known of an archive before any of its lanes or drains starts.
LEMMA BeforeLanes ==
  ASSUME JInv, NEW d \in Dumps, pc[d] \in Early
  PROVE  /\ \A l \in Lanes : drain[d][l] = "none"
         /\ grip[d] = {} /\ copies[d] = {} /\ Reach(d) \subseteq Lanes
         /\ StagedSide(d) /\ LaneSide(d)
<1>1. StagedSide(d) /\ LaneSide(d)
    BY DEF JInv, Journeys
<1>2. grip[d] = {} /\ \A l \in Lanes : drain[d][l] = "none"
    BY DEF JInv, IInv, Sides, Early, Direct
<1>3. copies[d] = {}
    BY <1>1 DEF LaneSide
<1> QED
    BY <1>1, <1>2, <1>3, SpoolAssumption DEF Reach

\* The producer, from Ingest to its close hook: one lemma for each way it goes on.
LEMMA EnterAbortedGoes ==
  ASSUME JInv, NEW d \in Dumps, EnterAborted(d)
  PROVE  Good(d)
<1>1. /\ Moves(d) /\ MoreTypes' /\ TripsKept
      /\ pc[d] = "idle" /\ pc'[d] = "over" /\ aborted'
      /\ UNCHANGED <<staged, files, drain, grip, live, copies, tripped>>
    BY DEF Moves, TripsKept, JInv, IInv, Types, MoreTypes, EnterAborted, Goto, poolVars
<1>2. StagedSide(d)'
    BY <1>1, BeforeLanes DEF StagedSide, Early, Settled, Direct, Unfinished, Reclaiming
<1>3. LaneSide(d)'
    BY <1>1, BeforeLanes DEF LaneSide, Early, Settled, Reach
<1> QED
    BY <1>1, <1>2, <1>3 DEF Good

\* Ingest reads the flags: the landings it skips are tripped.
LEMMA EnterGoes ==
  ASSUME JInv, NEW d \in Dumps, Enter(d)
  PROVE  Good(d)
<1>1. /\ Moves(d) /\ MoreTypes' /\ TripsKept
      /\ pc[d] = "idle" /\ pc'[d] = "acquire"
      /\ live'[d] = {l \in Reach(d) : ~tripped[l]}
      /\ UNCHANGED <<staged, files, drain, grip, copies, tripped, aborted>>
    BY DEF Moves, TripsKept, JInv, IInv, Types, MoreTypes, Enter, Goto, poolVars, NoteMissing
<1>2. StagedSide(d)'
    BY <1>1, BeforeLanes DEF StagedSide, Early, Settled, Direct, Unfinished, Reclaiming
<1>3. LaneSide(d)'
    BY <1>1, BeforeLanes DEF LaneSide, Early, Settled, Reach
<1> QED
    BY <1>1, <1>2, <1>3 DEF Good

\* Every landing is tripped: nothing is written and the run aborts.
LEMMA EnterDeadGoes ==
  ASSUME JInv, NEW d \in Dumps, EnterDead(d)
  PROVE  Good(d)
<1>1. /\ Moves(d) /\ MoreTypes' /\ TripsKept
      /\ pc[d] = "idle" /\ pc'[d] = "over" /\ aborted'
      /\ UNCHANGED <<staged, files, drain, grip, live, copies, tripped>>
    BY DEF Moves, TripsKept, JInv, IInv, Types, MoreTypes, EnterDead, Goto, NoteMissing,
           Pool!Abort, Pool!Broadcast, Pool!dumpVars
<1>2. StagedSide(d)'
    BY <1>1, BeforeLanes DEF StagedSide, Early, Settled, Direct, Unfinished, Reclaiming
<1>3. LaneSide(d)'
    BY <1>1, BeforeLanes DEF LaneSide, Early, Settled, Reach
<1> QED
    BY <1>1, <1>2, <1>3 DEF Good

\* A disk, the direct way, a refusal, or another wait.
LEMMA AcquireGoes ==
  ASSUME JInv, NEW d \in Dumps, Acquire(d)
  PROVE  Good(d)
<1>1. /\ Moves(d) /\ MoreTypes' /\ TripsKept
      /\ pc[d] = "acquire"
      /\ \/ pc'[d] = "staging" /\ phase'[d] = "writing"
         \/ pc'[d] \in {"acquire", "lease", "over"}
      /\ UNCHANGED <<staged, files, drain, grip, live, copies, tripped, aborted>>
  <2> USE DEF Moves, TripsKept, JInv, IInv, Types, MoreTypes, Acquire, Goto, Pool!ledgerVars,
              Pool!dumpVars, Pool!Phases
  <2>1. CASE Pool!AcquireDisk(d) /\ Goto(d, "staging")
      BY <2>1 DEF Pool!AcquireDisk
  <2>2. CASE Pool!AcquireDirect(d) /\ Goto(d, "lease")
      BY <2>2 DEF Pool!AcquireDirect
  <2>3. CASE Pool!AcquireRefused(d) /\ Goto(d, "over")
      BY <2>3 DEF Pool!AcquireRefused
  <2>4. CASE Pool!AcquireWaits(d) /\ UNCHANGED pc
      BY <2>4 DEF Pool!AcquireWaits
  <2> QED
      BY <2>1, <2>2, <2>3, <2>4
<1>2. StagedSide(d)'
    BY <1>1, BeforeLanes DEF StagedSide, Early, Settled, Direct, Unfinished, Reclaiming
<1>3. LaneSide(d)'
    BY <1>1, BeforeLanes DEF LaneSide, StagedSide, Early, Settled, Reach, Succeeded
<1> QED
    BY <1>1, <1>2, <1>3 DEF Good

\* The staged write commits: files, and no placement of the pool yet.
LEMMA StageCommitsGoes ==
  ASSUME JInv, NEW d \in Dumps, StageCommits(d)
  PROVE  Good(d)
<1>1. /\ Moves(d) /\ MoreTypes' /\ TripsKept
      /\ pc[d] = "staging" /\ phase'[d] = "committed" /\ files'[d] = "whole"
      /\ UNCHANGED <<pc, staged, drain, grip, live, copies, tripped, aborted>>
    BY DEF Moves, TripsKept, JInv, IInv, Types, MoreTypes, StageCommits,
           Pool!Commit, Pool!ledgerVars, Pool!Phases
<1>2. StagedSide(d)'
    BY <1>1, BeforeLanes DEF StagedSide, Early, Settled, Direct, Unfinished, Reclaiming
<1>3. LaneSide(d)'
    BY <1>1, BeforeLanes DEF LaneSide, Early, Settled, Reach
<1> QED
    BY <1>1, <1>2, <1>3 DEF Good

\* A staged write that fails leaves nothing.
LEMMA StageFaultsGoes ==
  ASSUME JInv, NEW d \in Dumps, StageFaults(d)
  PROVE  Good(d)
<1>1. /\ Moves(d) /\ MoreTypes' /\ TripsKept
      /\ pc[d] = "staging" /\ phase[d] = "writing" /\ pc'[d] = "closing"
      /\ UNCHANGED <<files, staged, drain, grip, live, copies, tripped, aborted>>
    BY DEF Moves, TripsKept, JInv, IInv, Types, MoreTypes, StageFaults, Goto,
           Pool!Fault, Pool!ledgerVars, Pool!Phases
<1>2. StagedSide(d)'
    BY <1>1, BeforeLanes DEF StagedSide, Early, Settled, Direct, Unfinished, Reclaiming
<1>3. LaneSide(d)'
    BY <1>1, BeforeLanes DEF LaneSide, StagedSide, Early, Settled, Reach, Succeeded
<1> QED
    BY <1>1, <1>2, <1>3 DEF Good

\* The pool takes the staged copy over.
LEMMA ChargeGoes ==
  ASSUME JInv, NEW d \in Dumps, Charge(d)
  PROVE  Good(d)
<1>1. /\ Moves(d) /\ MoreTypes' /\ TripsKept
      /\ pc[d] = "staging" /\ phase[d] = "committed"
      /\ pc'[d] = "charged" /\ staged'[d] = "staged"
      /\ UNCHANGED <<files, drain, grip, live, copies, tripped, aborted>>
    BY DEF Moves, TripsKept, JInv, IInv, Types, MoreTypes, Charge, Goto,
           Pool!ChargeLanded, Pool!Phases, Pool!StagedStates
<1>2. StagedSide(d)'
    BY <1>1, BeforeLanes DEF StagedSide, Early, Settled, Direct, Unfinished, Reclaiming
<1>3. LaneSide(d)'
    BY <1>1, BeforeLanes DEF LaneSide, Early, Settled, Reach
<1> QED
    BY <1>1, <1>2, <1>3 DEF Good

\* Every live landing gets a drain; the ones left out are tripped.
LEMMA LaunchGoes ==
  ASSUME JInv, NEW d \in Dumps, Launch(d)
  PROVE  Good(d)
<1> DEFINE S == {l \in live[d] : ~tripped[l]}
<1>1. /\ Moves(d) /\ MoreTypes' /\ TripsKept
      /\ pc[d] = "charged" /\ pc'[d] = "closing" /\ S # {}
      /\ live'[d] = S /\ drain'[d] = [l \in Lanes |-> IF l \in S THEN "queued" ELSE "none"]
      /\ UNCHANGED <<files, staged, grip, copies, tripped, aborted>>
  <2> \A l \in Lanes : drain[d][l] = "none"
      BY BeforeLanes DEF Launch, Early
  <2> QED
      BY DEF Moves, TripsKept, JInv, IInv, Types, MoreTypes, Launch, Goto, NoteMissing, poolVars
<1>2. S \subseteq live[d] /\ S \subseteq Lanes
    BY DEF JInv, IInv, Types
<1>3. \A l \in live[d] \ S : tripped[l]
    OBVIOUS
<1> HIDE DEF S
<1>4. StagedSide(d)'
  <2>1. \E l \in Lanes : drain'[d][l] \in Unfinished
      BY <1>1, <1>2 DEF Unfinished
  <2>2. \A l \in Lanes : drain'[d][l] \in {"none", "queued"}
      BY <1>1
  <2>3. files[d] = "whole" /\ staged[d] = "staged"
      BY <1>1, BeforeLanes DEF StagedSide, Early
  <2> QED
      BY <1>1, <2>1, <2>2, <2>3 DEF StagedSide, Settled, Direct, Reclaiming
<1>5. LaneSide(d)'
    BY <1>1, <1>2, <1>3, BeforeLanes DEF LaneSide, Early, Settled, Reach
<1> QED
    BY <1>1, <1>4, <1>5 DEF Good

\* No landing is left: the staged copy is kept and the run aborts.
LEMMA LaunchDeadGoes ==
  ASSUME JInv, NEW d \in Dumps, LaunchDead(d)
  PROVE  Good(d)
<1>1. /\ Moves(d) /\ MoreTypes' /\ TripsKept
      /\ pc[d] = "charged" /\ pc'[d] = "closing" /\ staged'[d] = "kept" /\ aborted'
      /\ UNCHANGED <<files, drain, grip, live, copies, tripped>>
    BY DEF Moves, TripsKept, JInv, IInv, Types, MoreTypes, LaunchDead, Goto, NoteMissing,
           Pool!KeepStaged, Pool!StagedStates
<1>2. StagedSide(d)'
    BY <1>1, BeforeLanes DEF StagedSide, Early, Settled, Direct, Unfinished, Reclaiming
<1>3. LaneSide(d)'
    BY <1>1, BeforeLanes DEF LaneSide, Early, Settled, Reach
<1> QED
    BY <1>1, <1>2, <1>3 DEF Good

\* The rest of the close hook is the pool's.
LEMMA CloseHookGoes ==
  ASSUME JInv, NEW d \in Dumps, FreeEstimate(d) \/ ReleaseWriter(d)
  PROVE  Good(d)
<1>1. /\ Moves(d) /\ MoreTypes' /\ TripsKept
      /\ pc[d] = "closing" /\ pc'[d] \in {"closing", "over"}
      /\ UNCHANGED <<files, staged, drain, grip, live, copies, tripped, aborted>>
    BY DEF Moves, TripsKept, JInv, IInv, Types, MoreTypes, FreeEstimate, ReleaseWriter, Goto,
           laneVars, Pool!ReturnEstimate, Pool!FreeWriter, Pool!Phases
<1>2. StagedSide(d) /\ LaneSide(d)
    BY DEF JInv, Journeys
<1>3. StagedSide(d)'
    BY <1>1, <1>2 DEF StagedSide, Settled, Direct, Unfinished, Reclaiming
<1>4. LaneSide(d)'
    BY <1>1, <1>2 DEF LaneSide, Early, Settled, Reach, Succeeded
<1> QED
    BY <1>1, <1>3, <1>4 DEF Good
-----------------------------------------------------------------------------
\* A drain in its set: where its producer is and what is known of its archive.
LEMMA InTheSet ==
  ASSUME JInv, NEW d \in Dumps, NEW l \in Lanes, drain[d][l] \notin {"none", "failed", "out"}
  PROVE  /\ pc[d] \in Settled /\ Reach(d) \subseteq Lanes
         /\ StagedSide(d) /\ LaneSide(d)
         /\ pc[d] \notin Direct \cup Early
<1>1. StagedSide(d) /\ LaneSide(d)
    BY DEF JInv, Journeys
<1>2. pc[d] \in Settled
    BY DrainWhere DEF JInv
<1> QED
    BY <1>1, <1>2, SpoolAssumption DEF Reach, Settled, Direct, Early

\* The drains: permit, copy, its failure, the two halves of a trip, the count.
LEMMA LeaseDrainGoes ==
  ASSUME JInv, NEW d \in Dumps, NEW l \in Lanes, LeaseDrain(d, l)
  PROVE  Good(d)
<1>1. /\ Moves(d) /\ MoreTypes' /\ TripsKept
      /\ drain[d][l] = "queued" /\ drain'[d][l] = "copying"
      /\ \A k \in Lanes \ {l} : drain'[d][k] = drain[d][k]
      /\ UNCHANGED <<pc, files, staged, grip, live, copies, tripped, aborted>>
    BY DEF Moves, TripsKept, JInv, IInv, Types, MoreTypes, LeaseDrain, SetDrain, poolVars
<1>2. StagedSide(d)'
    BY <1>1, InTheSet DEF StagedSide, Settled, Direct, Unfinished, Reclaiming
<1>3. LaneSide(d)'
    BY <1>1, InTheSet DEF LaneSide, Early, Settled, Reach, Succeeded
<1> QED
    BY <1>1, <1>2, <1>3 DEF Good

\* A copy off whole files lands.
LEMMA CopyLandsGoes ==
  ASSUME JInv, NEW d \in Dumps, NEW l \in Lanes, CopyLands(d, l)
  PROVE  Good(d)
<1>1. /\ Moves(d) /\ MoreTypes' /\ TripsKept
      /\ drain[d][l] = "copying" /\ drain'[d][l] = "landed" /\ files[d] = "whole"
      /\ copies'[d] = copies[d] \cup {l}
      /\ \A k \in Lanes \ {l} : drain'[d][k] = drain[d][k]
      /\ UNCHANGED <<pc, files, staged, grip, live, tripped, aborted>>
    BY DEF Moves, TripsKept, JInv, IInv, Types, MoreTypes, CopyLands, SetDrain, poolVars
<1>2. StagedSide(d)'
    BY <1>1, InTheSet DEF StagedSide, Settled, Direct, Unfinished, Reclaiming
<1>3. LaneSide(d)'
    BY <1>1, InTheSet DEF LaneSide, Early, Settled, Direct, Reach, Succeeded
<1> QED
    BY <1>1, <1>2, <1>3 DEF Good

\* A copy that fails sets the flag of its landing.
LEMMA CopyFailsGoes ==
  ASSUME JInv, NEW d \in Dumps, NEW l \in Lanes, CopyFails(d, l)
  PROVE  Good(d)
<1>1. /\ Moves(d) /\ MoreTypes' /\ TripsKept
      /\ drain[d][l] = "copying" /\ drain'[d][l] = "failed" /\ tripped'[l]
      /\ \A k \in Lanes \ {l} : drain'[d][k] = drain[d][k] /\ tripped'[k] = tripped[k]
      /\ UNCHANGED <<pc, files, staged, grip, live, copies, aborted>>
    BY DEF Moves, TripsKept, JInv, IInv, Types, MoreTypes, CopyFails, StoreTrip, SetDrain, poolVars
<1>2. StagedSide(d)'
    BY <1>1, InTheSet DEF StagedSide, Settled, Direct, Unfinished, Reclaiming
<1>3. LaneSide(d)'
    BY <1>1, InTheSet DEF LaneSide, Early, Settled, Reach, Succeeded
<1> QED
    BY <1>1, <1>2, <1>3 DEF Good

\* A landed copy is counted.
LEMMA CountLandedGoes ==
  ASSUME JInv, NEW d \in Dumps, NEW l \in Lanes, CountLanded(d, l)
  PROVE  Good(d)
<1>1. /\ Moves(d) /\ MoreTypes' /\ TripsKept
      /\ drain[d][l] = "landed" /\ drain'[d][l] = "counted"
      /\ \A k \in Lanes \ {l} : drain'[d][k] = drain[d][k]
      /\ UNCHANGED <<pc, files, staged, grip, live, copies, tripped, aborted>>
    BY DEF Moves, TripsKept, JInv, IInv, Types, MoreTypes, CountLanded, SetDrain, poolVars
<1>2. StagedSide(d)'
    BY <1>1, InTheSet DEF StagedSide, Settled, Direct, Unfinished, Reclaiming
<1>3. LaneSide(d)'
    BY <1>1, InTheSet DEF LaneSide, Early, Settled, Reach, Succeeded
<1> QED
    BY <1>1, <1>2, <1>3 DEF Good

\* The second half of a trip is the one that records it.
LEMMA RecordTripGoes ==
  ASSUME JInv, NEW d \in Dumps, NEW l \in Lanes, RecordTrip(d, l)
  PROVE  Good(d)
<1>1. /\ Moves(d) /\ MoreTypes' /\ TripsKept
      /\ drain[d][l] = "failed"
      /\ drain'[d][l] \in {"out", "counted"} /\ (pc[d] \in Settled => drain'[d][l] = "counted")
      /\ \A k \in Lanes \ {l} : drain'[d][k] = drain[d][k]
      /\ UNCHANGED <<pc, phase, files, staged, grip, live, copies, tripped, aborted>>
    BY DEF Moves, TripsKept, JInv, IInv, Types, MoreTypes, RecordTrip, SetDrain, poolVars, Settled
<1>2. StagedSide(d) /\ LaneSide(d) /\ Reach(d) \subseteq Lanes
    BY SpoolAssumption DEF JInv, Journeys, Reach
<1>3. StagedSide(d)'
    BY <1>1, <1>2 DEF StagedSide, Settled, Direct, Unfinished, Reclaiming
<1>4. LaneSide(d)'
    BY <1>1, <1>2 DEF LaneSide, Early, Settled, Reach, Succeeded
<1> QED
    BY <1>1, <1>3, <1>4 DEF Good

\* A drain leaves; the last one with a copy landed goes on to reclaim, the last one
\* without keeps the staged copy and aborts the run.
LEMMA LeaveGoes ==
  ASSUME JInv, NEW d \in Dumps, NEW l \in Lanes, Leave(d, l)
  PROVE  Good(d)
<1>1. /\ Moves(d) /\ MoreTypes' /\ TripsKept
      /\ drain[d][l] = "counted"
      /\ \A k \in Lanes \ {l} : drain'[d][k] = drain[d][k]
      /\ UNCHANGED <<pc, files, grip, live, copies, tripped>>
      /\ \/ remaining[d] > 1 /\ drain'[d][l] = "out" /\ UNCHANGED <<staged, aborted>>
         \/ remaining[d] = 1 /\ drain'[d][l] = "reclaiming" /\ UNCHANGED <<staged, aborted>>
         \/ drain'[d][l] = "out" /\ staged'[d] = "kept" /\ aborted'
  <2> USE DEF Moves, TripsKept, JInv, IInv, Types, MoreTypes, SetDrain, poolVars
  <2>1. CASE remaining[d] > 1 /\ SetDrain(d, l, "out") /\ UNCHANGED poolVars
      BY <2>1 DEF Leave
  <2>2. CASE remaining[d] = 1 /\ landed[d] > 0 /\ SetDrain(d, l, "reclaiming") /\ UNCHANGED poolVars
      BY <2>2 DEF Leave
  <2>3. CASE remaining[d] = 1 /\ landed[d] = 0 /\ SetDrain(d, l, "out") /\ Pool!KeepStaged(d)
      BY <2>3 DEF Leave, Pool!KeepStaged, Pool!StagedStates
  <2> QED
      BY <2>1, <2>2, <2>3 DEF Leave
<1>2. /\ pc[d] \in Settled /\ StagedSide(d) /\ LaneSide(d) /\ Reach(d) \subseteq Lanes
    BY <1>1, InTheSet
<1>3. l \in Pending(d) /\ remaining[d] = Cardinality(Pending(d))
    BY <1>1, <1>2 DEF Pending, Unfinished, JInv, IInv, Counts
<1>4. \A k \in Lanes : drain[d][k] \notin Reclaiming
    BY <1>3 DEF JInv, IInv, Counts, Reclaiming
<1>5. remaining[d] > 1 => \E k \in Lanes \ {l} : drain[d][k] \in Unfinished
  <2>1. remaining[d] > 1 => Pending(d) # {l}
      BY <1>3, PendingFinite, FS_Singleton
  <2> QED
      BY <1>3, <2>1 DEF Pending
<1>6. StagedSide(d)'
    BY <1>1, <1>2, <1>4, <1>5 DEF StagedSide, Settled, Direct, Unfinished, Reclaiming
<1>7. LaneSide(d)'
    BY <1>1, <1>2 DEF LaneSide, Early, Settled, Reach, Succeeded
<1> QED
    BY <1>1, <1>6, <1>7 DEF Good

\* The last drain removes files, then placement, then budget; a failure on the way keeps
\* the staged copy and aborts.
LEMMA ReclaimGoes ==
  ASSUME JInv, NEW d \in Dumps, NEW l \in Lanes,
         \/ ReclaimFiles(d, l) \/ ReclaimPlacement(d, l)
         \/ ReclaimReleases(d, l) \/ ReclaimFails(d, l)
  PROVE  Good(d)
<1>1. /\ Moves(d) /\ MoreTypes' /\ TripsKept
      /\ \A k \in Lanes \ {l} : drain'[d][k] = drain[d][k]
      /\ UNCHANGED <<pc, grip, live, copies, tripped>>
      /\ \/ /\ drain[d][l] = "reclaiming" /\ drain'[d][l] = "removed"
            /\ files'[d] = "gone" /\ UNCHANGED <<staged, aborted>>
         \/ /\ drain[d][l] = "removed" /\ drain'[d][l] = "releasing" /\ staged[d] = "staged"
            /\ staged'[d] = "removed" /\ UNCHANGED <<files, aborted>>
         \/ /\ drain[d][l] = "releasing" /\ drain'[d][l] = "out" /\ staged[d] = "removed"
            /\ staged'[d] = "released" /\ UNCHANGED <<files, aborted>>
         \/ /\ drain[d][l] \in {"reclaiming", "removed"} /\ drain'[d][l] = "out"
            /\ staged'[d] = "kept" /\ aborted' /\ UNCHANGED files
  <2> USE DEF Moves, TripsKept, JInv, IInv, Types, MoreTypes, SetDrain, poolVars, Pool!StagedStates
  <2>1. CASE ReclaimFiles(d, l)
      BY <2>1 DEF ReclaimFiles
  <2>2. CASE ReclaimPlacement(d, l)
      BY <2>2 DEF ReclaimPlacement, Pool!RemoveStaged, Pool!ledgerVars
  <2>3. CASE ReclaimReleases(d, l)
      BY <2>3 DEF ReclaimReleases, Pool!ReleaseStaged
  <2>4. CASE ReclaimFails(d, l)
      BY <2>4 DEF ReclaimFails, Pool!KeepStaged
  <2> QED
      BY <2>1, <2>2, <2>3, <2>4
<1>2. drain[d][l] \in Reclaiming
    BY <1>1 DEF Reclaiming
<1>3. /\ pc[d] \in Settled /\ StagedSide(d) /\ LaneSide(d) /\ Reach(d) \subseteq Lanes
    BY <1>2, InTheSet DEF Reclaiming
<1>4. Pending(d) = {}
    BY <1>2 DEF JInv, IInv, Counts, Reclaiming
<1>5. \A k \in Lanes \ {l} : drain'[d][k] \notin Reclaiming \cup Unfinished
    BY <1>1, <1>2, <1>3, <1>4 DEF StagedSide, Pending
<1>6. StagedSide(d)'
    BY <1>1, <1>3, <1>5 DEF StagedSide, Settled, Direct, Unfinished, Reclaiming
<1>7. LaneSide(d)'
  <2>1. Succeeded(d)
      BY <1>1, <1>3 DEF StagedSide, Succeeded, Unfinished
  <2>2. aborted => aborted'
      BY <1>1 DEF Moves
  <2> QED
      BY <1>1, <1>3, <2>1, <2>2 DEF LaneSide, Early, Settled, Reach
<1> QED
    BY <1>1, <1>6, <1>7 DEF Good
-----------------------------------------------------------------------------
\* A direct write: nothing of it is staged, and its lanes are where Sides says.
LEMMA OnTheStream ==
  ASSUME JInv, NEW d \in Dumps, pc[d] \in Direct
  PROVE  /\ StagedSide(d) /\ LaneSide(d) /\ Reach(d) \subseteq Lanes
         /\ files[d] = "none" /\ staged[d] = "none"
         /\ \A l \in Lanes : drain[d][l] \in {"none", "failed", "out"}
         /\ pc[d] \notin Early \cup Settled
<1>1. StagedSide(d) /\ LaneSide(d)
    BY DEF JInv, Journeys
<1>2. files[d] = "none" /\ staged[d] = "none"
    BY <1>1 DEF StagedSide
<1>3. \A l \in Lanes : drain[d][l] \in {"none", "failed", "out"}
    BY DEF JInv, IInv, Sides, Direct
<1>4. Reach(d) \subseteq Lanes
    BY SpoolAssumption DEF Reach
<1> QED
    BY <1>1, <1>2, <1>3, <1>4 DEF Direct, Early, Settled

\* The direct write: leases, commit, drops and seals.
LEMMA LeaseDirectGoes ==
  ASSUME JInv, NEW d \in Dumps, NEW l \in Lanes, LeaseDirect(d, l)
  PROVE  Good(d)
<1>1. /\ Moves(d) /\ MoreTypes' /\ TripsKept
      /\ pc[d] = "lease" /\ l \in live[d] /\ grip'[d] = grip[d] \cup {l}
      /\ \/ pc'[d] = "stream" /\ grip'[d] = live[d]
         \/ pc'[d] = "lease"
      /\ UNCHANGED <<files, staged, drain, live, copies, tripped, aborted>>
    BY DEF Moves, TripsKept, JInv, IInv, Types, MoreTypes, LeaseDirect, Goto, poolVars
<1>2. StagedSide(d)'
    BY <1>1, OnTheStream DEF StagedSide, Settled, Direct, Unfinished, Reclaiming
<1>3. LaneSide(d)'
    BY <1>1, OnTheStream DEF LaneSide, Early, Settled, Direct, Reach
<1> QED
    BY <1>1, <1>2, <1>3 DEF Good

\* The stream is over and the lanes are sealed one by one.
LEMMA BeginCommitGoes ==
  ASSUME JInv, NEW d \in Dumps, BeginCommit(d)
  PROVE  Good(d)
<1>1. /\ Moves(d) /\ MoreTypes' /\ TripsKept
      /\ pc[d] = "stream" /\ pc'[d] = "commit"
      /\ UNCHANGED <<files, staged, drain, grip, live, copies, tripped, aborted>>
    BY DEF Moves, TripsKept, JInv, IInv, Types, MoreTypes, BeginCommit, Goto, poolVars
<1>2. StagedSide(d)'
    BY <1>1, OnTheStream DEF StagedSide, Settled, Direct, Unfinished, Reclaiming
<1>3. LaneSide(d)'
    BY <1>1, OnTheStream DEF LaneSide, Early, Settled, Direct, Reach
<1> QED
    BY <1>1, <1>2, <1>3 DEF Good

\* A lane that fails under the Tee is tripped.
LEMMA DropLaneGoes ==
  ASSUME JInv, NEW d \in Dumps, NEW l \in Lanes, DropLane(d, l)
  PROVE  Good(d)
<1>1. /\ Moves(d) /\ MoreTypes' /\ TripsKept
      /\ pc[d] \in {"stream", "commit"} /\ pc'[d] = pc[d]
      /\ grip'[d] = grip[d] \ {l} /\ tripped'[l] /\ drain'[d][l] = "failed"
      /\ \A k \in Lanes \ {l} : drain'[d][k] = drain[d][k] /\ tripped'[k] = tripped[k]
      /\ UNCHANGED <<files, staged, live, copies, aborted>>
    BY DEF Moves, TripsKept, JInv, IInv, Types, MoreTypes, DropLane, StoreTrip, SetDrain, poolVars
<1>2. StagedSide(d)'
    BY <1>1, OnTheStream DEF StagedSide, Settled, Direct, Unfinished, Reclaiming
<1>3. LaneSide(d)'
    BY <1>1, OnTheStream DEF LaneSide, Early, Settled, Direct, Reach
<1> QED
    BY <1>1, <1>2, <1>3 DEF Good

\* A lane sealed is a copy.
LEMMA CommitLaneGoes ==
  ASSUME JInv, NEW d \in Dumps, NEW l \in Lanes, CommitLane(d, l)
  PROVE  Good(d)
<1>1. /\ Moves(d) /\ MoreTypes' /\ TripsKept
      /\ pc[d] = "commit" /\ pc'[d] = "commit" /\ l \in grip[d]
      /\ copies'[d] = copies[d] \cup {l}
      /\ UNCHANGED <<files, staged, drain, grip, live, tripped, aborted>>
    BY DEF Moves, TripsKept, JInv, IInv, Types, MoreTypes, CommitLane, NextToSeal, poolVars
<1>2. StagedSide(d)'
    BY <1>1, OnTheStream DEF StagedSide, Settled, Direct, Unfinished, Reclaiming
<1>3. LaneSide(d)'
    BY <1>1, OnTheStream DEF LaneSide, Early, Settled, Direct, Reach
<1> QED
    BY <1>1, <1>2, <1>3 DEF Good

\* A direct write that closes with a copy has one on every landing it did not trip: a
\* single writer has its only one, a Tee sealed each lane it still fed.
LEMMA CloseDirectGoes ==
  ASSUME JInv, NEW d \in Dumps, CloseDirect(d)
  PROVE  Good(d)
<1>1. /\ Moves(d) /\ MoreTypes' /\ TripsKept
      /\ pc[d] \in {"stream", "commit"} /\ ~Dropping(d) /\ pc'[d] = "over" /\ grip'[d] = {}
      /\ pc[d] = "commit" => grip[d] \subseteq copies[d] \/ ~IsTee(d)
      /\ UNCHANGED <<files, staged, drain, live, copies, tripped, aborted>>
    BY DEF Moves, TripsKept, JInv, IInv, Types, MoreTypes, CloseDirect, MayClose, Goto, poolVars
<1>2. \A l \in Lanes : drain[d][l] \in {"none", "out"}
    BY <1>1, OnTheStream DEF Dropping, Direct
<1>3. StagedSide(d)'
    BY <1>1, <1>2, OnTheStream DEF StagedSide, Settled, Direct, Unfinished, Reclaiming
<1>4. ASSUME copies[d] # {}, NEW l \in Reach(d) \ copies[d]
      PROVE  tripped[l]
  <2>1. pc[d] = "commit" /\ copies[d] \subseteq live[d]
      BY <1>1, <1>4, OnTheStream DEF LaneSide, Early, Direct
  <2>2. /\ \A k \in Reach(d) \ live[d] : tripped[k]
        /\ \A k \in live[d] \ grip[d] : tripped[k]
      BY <2>1, OnTheStream DEF LaneSide, Settled, Direct
  <2>3. CASE grip[d] \subseteq copies[d]
      BY <1>4, <2>2, <2>3
  <2>4. CASE ~IsTee(d)
    <3>1. IsFiniteSet(live[d]) /\ IsFiniteSet(copies[d])
        BY <2>1, SpoolAssumption, FS_Subset DEF JInv, IInv, Types
    <3>2. Cardinality(live[d]) <= 1 /\ Cardinality(live[d]) \in Nat /\ Cardinality(copies[d]) \in Nat
        BY <2>4, <3>1, FS_CardinalityType DEF IsTee
    <3>3. Cardinality(copies[d]) # 0
        BY <1>4, <3>1, FS_EmptySet
    <3>4. copies[d] = live[d]
        BY <2>1, <3>1, <3>2, <3>3, FS_Subset
    <3> QED
        BY <1>4, <2>2, <3>4
  <2> QED
      BY <1>1, <2>1, <2>3, <2>4
<1>5. LaneSide(d)'
  <2>1. Succeeded(d) => copies[d] # {}
      BY <1>1, OnTheStream DEF Succeeded, Direct
  <2>2. grip'[d] \subseteq live'[d] /\ live'[d] \subseteq Reach(d)
      BY <1>1, OnTheStream DEF LaneSide, Direct
  <2> QED
      BY <1>1, <1>2, <1>4, <2>1, <2>2 DEF LaneSide, Early, Settled, Reach, Succeeded
<1> QED
    BY <1>1, <1>3, <1>5 DEF Good
-----------------------------------------------------------------------------
\* Nothing has been staged, leased or tripped.
LEMMA JourneysBegin == Init => MoreTypes /\ Journeys /\ Recorded
<1> SUFFICES ASSUME Init PROVE MoreTypes /\ Journeys /\ Recorded
    OBVIOUS
<1>1. MoreTypes
    BY DEF Init, MoreTypes, Pool!PoolInit, Pool!Phases, Pool!StagedStates
<1>2. \A d \in Dumps : StagedSide(d)
    BY DEF Init, Pool!PoolInit, StagedSide, Settled, Direct, Unfinished, Reclaiming
<1>3. \A d \in Dumps : LaneSide(d)
    BY DEF Init, LaneSide, Settled, Early
<1>4. Recorded
    BY DEF Init, Recorded
<1> QED
    BY <1>1, <1>2, <1>3, <1>4 DEF Journeys

\* One lemma above for each action.
LEMMA JourneyStep == JInv /\ [Next]_vars => JInv'
<1> SUFFICES ASSUME JInv, [Next]_vars PROVE JInv'
    OBVIOUS
<1>1. IInv'
    BY StepKeeps DEF JInv
<1>2. ASSUME NEW d \in Dumps, Good(d) PROVE JInv'
    BY <1>1, <1>2, OthersKeep, TripsStayRecorded DEF Good, JInv
<1>3. ASSUME NEW d \in Dumps, ProducerStep(d) PROVE JInv'
  <2>1. CASE \/ EnterAborted(d) \/ Enter(d) \/ EnterDead(d) \/ Acquire(d)
             \/ StageCommits(d) \/ StageFaults(d) \/ Charge(d)
             \/ Launch(d) \/ LaunchDead(d) \/ FreeEstimate(d) \/ ReleaseWriter(d)
      BY <1>2, <2>1, EnterAbortedGoes, EnterGoes, EnterDeadGoes, AcquireGoes, StageCommitsGoes,
         StageFaultsGoes, ChargeGoes, LaunchGoes, LaunchDeadGoes, CloseHookGoes
  <2>2. CASE BeginCommit(d) \/ CloseDirect(d)
      BY <1>2, <2>2, BeginCommitGoes, CloseDirectGoes
  <2>3. ASSUME NEW l \in Lanes,
               LeaseDirect(d, l) \/ DropLane(d, l) \/ CommitLane(d, l) \/ RecordTrip(d, l)
        PROVE  JInv'
      BY <1>2, <2>3, LeaseDirectGoes, DropLaneGoes, CommitLaneGoes, RecordTripGoes
  <2> QED
      BY <1>3, <2>1, <2>2, <2>3 DEF ProducerStep
<1>4. ASSUME NEW d \in Dumps, NEW l \in Lanes, DrainStep(d, l) PROVE JInv'
  <2>1. CASE LeaseDrain(d, l) \/ CopyLands(d, l) \/ CopyFails(d, l) \/ RecordTrip(d, l)
      BY <1>2, <2>1, LeaseDrainGoes, CopyLandsGoes, CopyFailsGoes, RecordTripGoes
  <2>2. CASE \/ CountLanded(d, l) \/ Leave(d, l)
             \/ ReclaimFiles(d, l) \/ ReclaimPlacement(d, l)
             \/ ReclaimReleases(d, l) \/ ReclaimFails(d, l)
      BY <1>2, <2>2, CountLandedGoes, LeaveGoes, ReclaimGoes
  <2> QED
      BY <1>4, <2>1, <2>2 DEF DrainStep
<1>5. CASE Cancel \/ UNCHANGED vars
  <2> USE DEF Cancel, vars, laneVars, poolVars, Pool!AbortRun, Pool!Abort, Pool!dumpVars
  <2>1. UNCHANGED <<pc, live, grip, drain, files, copies, tripped, missing, phase, staged>>
      BY <1>5
  <2>2. aborted => aborted'
      BY <1>5
  <2>3. MoreTypes' /\ Recorded'
    <3>1. aborted' \in BOOLEAN
        BY <1>5 DEF JInv, MoreTypes
    <3>2. MoreTypes'
        BY <2>1, <3>1 DEF JInv, MoreTypes
    <3>3. Recorded'
        BY <2>1 DEF JInv, Recorded
    <3> QED
        BY <3>2, <3>3
  <2> HIDE DEF Cancel, vars, laneVars, poolVars, Pool!AbortRun, Pool!Abort, Pool!dumpVars
  <2>4. ASSUME NEW d \in Dumps PROVE StagedSide(d)' /\ LaneSide(d)'
    <3>1. StagedSide(d) /\ LaneSide(d) /\ Reach(d) \subseteq Lanes
        BY SpoolAssumption DEF JInv, Journeys, Reach
    <3>2. StagedSide(d)'
        BY <2>1, <2>2, <3>1 DEF StagedSide
    <3>3. LaneSide(d)'
        BY <2>1, <2>2, <3>1 DEF LaneSide, Reach, Succeeded
    <3> QED
        BY <3>2, <3>3
  <2> QED
      BY <1>1, <2>3, <2>4 DEF JInv, Journeys
<1> QED
    BY <1>3, <1>4, <1>5 DEF Next

\* The invariant holds in every run.
LEMMA JourneysHold == Spec => []JInv
<1>1. Init => JInv
    BY InitHolds, JourneysBegin DEF JInv
<1>2. JInv /\ [Next]_vars => JInv'
    BY JourneyStep
<1> QED
    BY <1>1, <1>2, PTL DEF Spec

\* A run that ends without an error is complete: every archive is on a landing of its
\* route, nothing is left staged, and each landing that lacks an archive is tripped and
\* its trip recorded (ingest, drainTo, drainSet and noteMissing together).
THEOREM CleanRunsAreComplete == Spec => []CleanRunIsComplete
<1>1. JInv => CleanRunIsComplete
  <2> SUFFICES ASSUME JInv, RunOver, ~aborted, \A e \in Dumps : Succeeded(e), NEW d \in Dumps
      PROVE  /\ copies[d] # {}
             /\ staged[d] \in {"none", "released"}
             /\ \A l \in Reach(d) \ copies[d] : tripped[l] /\ missing[l] > 0
      BY DEF CleanRunIsComplete
  <2>1. pc[d] = "over" /\ Succeeded(d) /\ \A e \in Dumps, l \in Lanes : drain[e][l] \in {"none", "out"}
      BY DEF RunOver
  <2>2. StagedSide(d) /\ LaneSide(d) /\ Reach(d) \subseteq Lanes
      BY SpoolAssumption DEF JInv, Journeys, Reach
  <2>3. staged[d] \in {"none", "released"}
    <3>1. staged[d] \in {"none", "staged", "removed", "released", "kept"}
        BY DEF JInv, MoreTypes, Pool!StagedStates
    <3>2. staged[d] # "staged" /\ staged[d] # "removed" /\ staged[d] # "kept"
        BY <2>1, <2>2 DEF StagedSide, Settled, Unfinished
    <3> QED
        BY <3>1, <3>2
  <2>4. copies[d] # {}
    <3>1. files[d] = "gone" => copies[d] # {}
        BY DEF JInv, IInv, Counts
    <3>2. files[d] # "none" => staged[d] = "released"
        BY <2>1, <2>2, <2>3 DEF StagedSide, Settled
    <3>3. staged[d] = "released" => files[d] = "gone"
        BY <2>2 DEF StagedSide
    <3> QED
        BY <2>1, <3>1, <3>2, <3>3 DEF Succeeded
  <2>5. ASSUME NEW l \in Reach(d) \ copies[d] PROVE tripped[l] /\ missing[l] > 0
    <3>1. tripped[l]
        BY <2>1, <2>2 DEF LaneSide, Settled
    <3>2. missing[l] > 0
        BY <2>1, <2>2, <3>1 DEF JInv, Recorded
    <3> QED
        BY <3>1, <3>2
  <2> QED
      BY <2>3, <2>4, <2>5
<1> QED
    BY <1>1, JourneysHold, PTL
-----------------------------------------------------------------------------
(* The refinements. *)

\* What the contract calls the archive's placement on the holding disk.
Held(d) == files[d] # "none" /\ staged[d] \notin {"removed", "released"}

\* The contract's variables are left alone.
Unseen == UNCHANGED <<files, copies>> /\ \A d \in Dumps : Held(d)' = Held(d)

\* A step that neither copies, removes nor places is a stutter of the contract.
LEMMA UnseenStutters == ASSUME Unseen PROVE UNCHANGED Archives!archiveVars
  BY DEF Unseen, Held, Archives!archiveVars

\* What a visible step does to the catalog's placements.
LEMMA HeldChanges ==
  ASSUME NEW d \in Dumps, NEW b \in BOOLEAN, Held(d)' = b,
         \A e \in Dumps \ {d} : Held(e)' = Held(e)
  PROVE  [e \in Dumps |-> files[e] # "none" /\ staged[e] \notin {"removed", "released"}]'
         = [[e \in Dumps |-> files[e] # "none" /\ staged[e] \notin {"removed", "released"}]
              EXCEPT ![d] = b]
  BY DEF Held

\* The steps the contract sees, each as the contract's own action.
LEMMA StageCommitsStages ==
  ASSUME JInv, NEW d \in Dumps, StageCommits(d)
  PROVE  Archives!Stage(d)
<1>1. /\ pc[d] = "staging" /\ phase[d] = "writing" /\ UNCHANGED <<staged, copies>>
      /\ files' = [files EXCEPT ![d] = "whole"]
    BY DEF StageCommits, Pool!Commit
<1>2. files[d] = "none" /\ staged[d] = "none" /\ copies[d] = {}
    BY <1>1, BeforeLanes DEF StagedSide, Early
<1>3. Held(d)' = TRUE /\ \A e \in Dumps \ {d} : Held(e)' = Held(e)
    BY <1>1, <1>2 DEF Held, JInv, IInv, Types
<1> QED
    BY <1>1, <1>2, <1>3, HeldChanges DEF Archives!Stage

\* A copy off the staged files, and a seal on the stream, are the contract's Land.
LEMMA CopyLandsLands ==
  ASSUME JInv, NEW d \in Dumps, NEW l \in Lanes, CopyLands(d, l) \/ CommitLane(d, l)
  PROVE  Archives!Land(d, l)
<1>1. /\ copies' = [copies EXCEPT ![d] = @ \cup {l}]
      /\ UNCHANGED <<files, staged>>
    BY DEF CopyLands, CommitLane, poolVars
<1>2. files[d] \in {"none", "whole"} /\ l \in Reach(d) \ copies[d]
  <2>1. CASE CopyLands(d, l)
      BY <2>1, InTheSet DEF CopyLands, LaneSide
  <2>2. CASE CommitLane(d, l)
    <3>1. pc[d] \in Direct /\ l \in grip[d] \ copies[d]
        BY <2>2 DEF CommitLane, NextToSeal, Direct
    <3> QED
        BY <3>1, OnTheStream DEF LaneSide
  <2> QED
      BY <2>1, <2>2
<1> QED
    BY <1>1, <1>2 DEF Archives!Land

\* Files go behind a copy on some landing.
LEMMA ReclaimFilesRemoves ==
  ASSUME JInv, NEW d \in Dumps, NEW l \in Lanes, ReclaimFiles(d, l)
  PROVE  Archives!RemoveFiles(d)
<1>1. /\ drain[d][l] = "reclaiming" /\ files' = [files EXCEPT ![d] = "gone"]
      /\ UNCHANGED <<staged, copies>>
    BY DEF ReclaimFiles, poolVars
<1>2. files[d] = "whole" /\ copies[d] # {}
    BY <1>1, InTheSet DEF StagedSide, JInv, IInv, Counts
<1>3. [e \in Dumps |-> files[e] # "none" /\ staged[e] \notin {"removed", "released"}]'
      = [e \in Dumps |-> files[e] # "none" /\ staged[e] \notin {"removed", "released"}]
  <2>1. \A e \in Dumps : Held(e)' = Held(e)
      BY <1>1, <1>2 DEF Held, JInv, IInv, Types
  <2> QED
      BY <2>1 DEF Held
<1> QED
    BY <1>1, <1>2, <1>3 DEF Archives!RemoveFiles

\* The placement goes after the files.
LEMMA ReclaimPlacementDrops ==
  ASSUME JInv, NEW d \in Dumps, NEW l \in Lanes, ReclaimPlacement(d, l)
  PROVE  Archives!DropPlacement(d)
<1>1. /\ drain[d][l] = "removed" /\ UNCHANGED <<files, copies>>
      /\ staged[d] = "staged" /\ staged' = [staged EXCEPT ![d] = "removed"]
    BY DEF ReclaimPlacement, Pool!RemoveStaged
<1>2. files[d] = "gone"
    BY <1>1, InTheSet DEF StagedSide
<1>3. Held(d)' = FALSE /\ \A e \in Dumps \ {d} : Held(e)' = Held(e)
    BY <1>1, <1>2 DEF Held, JInv, MoreTypes
<1> QED
    BY <1>1, <1>2, <1>3, HeldChanges DEF Archives!DropPlacement

\* Everything else the contract does not see.
LEMMA ProducerUnseen ==
  ASSUME JInv, NEW d \in Dumps,
         \/ EnterAborted(d) \/ Enter(d) \/ EnterDead(d) \/ Acquire(d)
         \/ StageFaults(d) \/ Charge(d) \/ Launch(d) \/ LaunchDead(d)
         \/ FreeEstimate(d) \/ ReleaseWriter(d) \/ BeginCommit(d) \/ CloseDirect(d)
  PROVE  Unseen
<1>1. UNCHANGED <<files, copies>>
    BY DEF EnterAborted, Enter, EnterDead, Acquire, StageFaults, Charge, Launch, LaunchDead,
           FreeEstimate, ReleaseWriter, BeginCommit, CloseDirect, laneVars
<1>2. \/ UNCHANGED staged
      \/ staged[d] \in {"none", "staged"} /\ \E s \in {"staged", "kept"} :
                                               staged' = [staged EXCEPT ![d] = s]
  <2>1. CASE EnterAborted(d) \/ Enter(d) \/ Launch(d) \/ BeginCommit(d) \/ CloseDirect(d)
      BY <2>1 DEF EnterAborted, Enter, Launch, BeginCommit, CloseDirect, poolVars
  <2>2. CASE EnterDead(d) \/ Acquire(d)
      BY <2>2 DEF EnterDead, Acquire, Pool!Abort, Pool!AcquireDirect, Pool!AcquireDisk,
                  Pool!AcquireRefused, Pool!AcquireWaits, Pool!dumpVars
  <2>3. CASE StageFaults(d) \/ FreeEstimate(d) \/ ReleaseWriter(d)
      BY <2>3 DEF StageFaults, FreeEstimate, ReleaseWriter, Pool!Fault, Pool!ReturnEstimate,
                  Pool!FreeWriter
  <2>4. CASE Charge(d)
    <3>1. staged[d] = "none"
        BY <2>4, BeforeLanes DEF Charge, StagedSide, Early
    <3> QED
        BY <2>4, <3>1 DEF Charge, Pool!ChargeLanded
  <2>5. CASE LaunchDead(d)
      BY <2>5 DEF LaunchDead, Pool!KeepStaged
  <2> QED
      BY <2>1, <2>2, <2>3, <2>4, <2>5
<1> QED
    BY <1>1, <1>2 DEF Unseen, Held, JInv, MoreTypes

\* Permits, trips and counts.
LEMMA LaneUnseen ==
  ASSUME JInv, NEW d \in Dumps, NEW l \in Lanes,
         \/ LeaseDirect(d, l) \/ DropLane(d, l) \/ RecordTrip(d, l)
         \/ LeaseDrain(d, l) \/ CopyFails(d, l) \/ CountLanded(d, l)
  PROVE  Unseen
  BY DEF LeaseDirect, DropLane, RecordTrip, LeaseDrain, CopyFails, CountLanded, poolVars,
         Unseen, Held

\* A drain that leaves, and the two ways a reclaim ends.
LEMMA DrainUnseen ==
  ASSUME JInv, NEW d \in Dumps, NEW l \in Lanes,
         Leave(d, l) \/ ReclaimReleases(d, l) \/ ReclaimFails(d, l)
  PROVE  Unseen
<1>1. UNCHANGED <<files, copies>>
    BY DEF Leave, ReclaimReleases, ReclaimFails
<1>2. \/ UNCHANGED staged
      \/ staged[d] = "staged" /\ staged' = [staged EXCEPT ![d] = "kept"]
      \/ staged[d] = "removed" /\ staged' = [staged EXCEPT ![d] = "released"]
    BY DEF Leave, ReclaimReleases, ReclaimFails, poolVars, Pool!KeepStaged, Pool!ReleaseStaged
<1> QED
    BY <1>1, <1>2 DEF Unseen, Held, JInv, MoreTypes

\* Every step of the spool is a step of the contract or a stutter.
LEMMA ContractStep ==
  ASSUME JInv, [Next]_vars
  PROVE  [Archives!Next]_(Archives!archiveVars)
<1>1. ASSUME Unseen PROVE [Archives!Next]_(Archives!archiveVars)
    BY <1>1, UnseenStutters
<1>2. ASSUME NEW d \in Dumps, ProducerStep(d)
      PROVE  [Archives!Next]_(Archives!archiveVars)
  <2>1. CASE StageCommits(d)
      BY <2>1, StageCommitsStages DEF Archives!Next
  <2>2. ASSUME NEW l \in Lanes, CommitLane(d, l)
        PROVE  [Archives!Next]_(Archives!archiveVars)
      BY <2>2, CopyLandsLands DEF Archives!Next
  <2>3. ASSUME NEW l \in Lanes, LeaseDirect(d, l) \/ DropLane(d, l) \/ RecordTrip(d, l)
        PROVE  [Archives!Next]_(Archives!archiveVars)
      BY <1>1, <2>3, LaneUnseen
  <2> QED
      BY <1>1, <1>2, <2>1, <2>2, <2>3, ProducerUnseen DEF ProducerStep
<1>3. ASSUME NEW d \in Dumps, NEW l \in Lanes, DrainStep(d, l)
      PROVE  [Archives!Next]_(Archives!archiveVars)
  <2>1. CASE CopyLands(d, l)
      BY <2>1, CopyLandsLands DEF Archives!Next
  <2>2. CASE ReclaimFiles(d, l)
      BY <2>2, ReclaimFilesRemoves DEF Archives!Next
  <2>3. CASE ReclaimPlacement(d, l)
      BY <2>3, ReclaimPlacementDrops DEF Archives!Next
  <2> QED
      BY <1>1, <1>3, <2>1, <2>2, <2>3, LaneUnseen, DrainUnseen DEF DrainStep
<1>4. CASE Cancel \/ UNCHANGED vars
  <2>1. Unseen
      BY <1>4 DEF Cancel, vars, laneVars, poolVars, Pool!AbortRun, Pool!Abort, Pool!dumpVars,
                  Unseen, Held
  <2> QED
      BY <1>1, <2>1
<1> QED
    BY <1>2, <1>3, <1>4 DEF Next

\* No archive is staged or placed at first.
LEMMA ContractBegins == Init => Archives!Init
<1> SUFFICES ASSUME Init PROVE Archives!Init
    OBVIOUS
<1>1. \A d \in Dumps : ~Held(d)
    BY DEF Init, Held
<1>2. [d \in Dumps |-> files[d] # "none" /\ staged[d] \notin {"removed", "released"}]
      = [d \in Dumps |-> FALSE]
    BY <1>1 DEF Held
<1>3. files = [d \in Dumps |-> "none"] /\ copies = [d \in Dumps |-> {}]
    BY DEF Init
<1> QED
    BY <1>2, <1>3 DEF Archives!Init

\* Threads, permits, trips and the holding budget deliver the staging contract: a staged
\* archive's files go only behind a landing's copy and before its placement, and no
\* landing copies from a removed file (ingest, drainTo, reclaimStaged, ingestDirect).
THEOREM StagingIsImplemented == Spec => ImplementsStagedArchives
<1>1. Init => Archives!Init
    BY ContractBegins
<1>2. JInv /\ [Next]_vars => [Archives!Next]_(Archives!archiveVars)
    BY ContractStep
<1> QED
    BY <1>1, <1>2, JourneysHold, PTL DEF Spec, ImplementsStagedArchives, Archives!Spec
-----------------------------------------------------------------------------
\* One call of a producer or drain on the pool is one step of the pool.
LEMMA PoolStep ==
  ASSUME [Next]_vars
  PROVE  [Pool!PoolNext]_(Pool!poolVars)
<1> USE DEF Pool!poolVars, poolVars
<1>1. ASSUME NEW d \in Dumps, ProducerStep(d)
      PROVE  [Pool!PoolNext]_(Pool!poolVars)
  <2> USE DEF Pool!PoolNext
  <2>1. CASE EnterAborted(d) \/ Enter(d) \/ Launch(d) \/ BeginCommit(d) \/ CloseDirect(d)
      BY <2>1 DEF EnterAborted, Enter, Launch, BeginCommit, CloseDirect
  <2>2. CASE EnterDead(d)
      BY <2>2 DEF EnterDead, Pool!AbortRun
  <2>3. CASE Acquire(d)
      BY <2>3 DEF Acquire, Pool!AcquireStep
  <2>4. CASE StageCommits(d) \/ StageFaults(d)
      BY <2>4 DEF StageCommits, StageFaults
  <2>5. CASE Charge(d) \/ FreeEstimate(d) \/ ReleaseWriter(d)
      BY <2>5 DEF Charge, FreeEstimate, ReleaseWriter, Pool!CloseStep
  <2>6. CASE LaunchDead(d)
      BY <2>6 DEF LaunchDead, Pool!SettleStep
  <2>7. ASSUME NEW l \in Lanes,
               LeaseDirect(d, l) \/ DropLane(d, l) \/ CommitLane(d, l) \/ RecordTrip(d, l)
        PROVE  [Pool!PoolNext]_(Pool!poolVars)
      BY <2>7 DEF LeaseDirect, DropLane, CommitLane, RecordTrip
  <2> QED
      BY <1>1, <2>1, <2>2, <2>3, <2>4, <2>5, <2>6, <2>7 DEF ProducerStep
<1>2. ASSUME NEW d \in Dumps, NEW l \in Lanes, DrainStep(d, l)
      PROVE  [Pool!PoolNext]_(Pool!poolVars)
  <2>1. CASE \/ LeaseDrain(d, l) \/ CopyLands(d, l) \/ CopyFails(d, l) \/ RecordTrip(d, l)
             \/ CountLanded(d, l) \/ ReclaimFiles(d, l)
      BY <2>1 DEF LeaseDrain, CopyLands, CopyFails, RecordTrip, CountLanded, ReclaimFiles
  <2>2. CASE Leave(d, l) \/ ReclaimPlacement(d, l) \/ ReclaimReleases(d, l) \/ ReclaimFails(d, l)
      BY <2>2 DEF Leave, ReclaimPlacement, ReclaimReleases, ReclaimFails, Pool!PoolNext, Pool!SettleStep
  <2> QED
      BY <1>2, <2>1, <2>2 DEF DrainStep
<1>3. CASE Cancel \/ UNCHANGED vars
    BY <1>3 DEF Cancel, vars, Pool!PoolNext
<1> QED
    BY <1>1, <1>2, <1>3 DEF Next

\* Under the lanes the pool sees only calls its specification allows, in an order it
\* allows, so what HoldingPool promises holds in every run (every pool call in spool.go).
THEOREM PoolIsImplemented == Spec => ImplementsPool
<1>1. Init => Pool!PoolInit
    BY DEF Init
<1>2. [Next]_vars => [Pool!PoolNext]_(Pool!poolVars)
    BY PoolStep
<1> QED
    BY <1>1, <1>2, PTL DEF Spec, ImplementsPool, Pool!PoolSpec
=============================================================================
