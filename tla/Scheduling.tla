----------------------------- MODULE Scheduling -----------------------------
(***************************************************************************)
(* What each night's run will dump: who is due a full, at which level the  *)
(* others stay or climb to, and which fulls are pulled forward to level    *)
(* the calendar; and the schedule this unrolls to when nothing else        *)
(* changes.  Pure, as internal/planner/planner.go over                     *)
(* internal/catalog/history.go is.                                         *)
(*                                                                         *)
(* An input has the parameters cycle, room (-1: unbounded) and bump, and   *)
(* the DLEs: their sizes at the levels the planner may choose from, and    *)
(* their states.                                                           *)
(***************************************************************************)
EXTENDS Integers, Sequences, FiniteSets, FiniteSetsExt

CONSTANTS TopLevel, \* planner.MaxLevel
          BumpDays  \* planner.bumpDays

Sum(op(_), S) == MapThenSumSet(op, S)

\* A DLE's history: days since its last full (-1 for none), the level of its last run and
\* how many runs share it.
Never == [age |-> -1, level |-> -1, sat |-> 0]
RecordRun(s, level) ==
  [age |-> IF level = 0 THEN 0 ELSE s.age, level |-> level,
   sat |-> IF level = s.level THEN s.sat + 1 ELSE 1]

\* DaysSinceFull: from the UTC midnight of the last full's local date to a local midnight,
\* which comes zone hours before the UTC one; truncated toward zero.
DaysSinceFull(x, s) ==
  IF s.age < 0 THEN -1 ELSE Max({0, (24 * s.age - x.zone) \div 24})
-----------------------------------------------------------------------------
(* Build. *)

\* chooseIncrLevel: hold the level, or climb when it was held for long enough and the next
\* saves enough.
Climbs(x, size, s) ==
  /\ s.level < TopLevel /\ size.next > 0 /\ s.sat >= BumpDays
  /\ size.incr - size.next >= (size.full * x.bump) \div 100
Incremental(x, size, s) ==
  IF s.level < 1 THEN [level |-> 1, bytes |-> size.incr]
  ELSE IF Climbs(x, size, s) THEN [level |-> s.level + 1, bytes |-> size.next]
  ELSE [level |-> s.level, bytes |-> size.incr]

Mandatory(x, days, forced) == forced \/ days < 0 \/ days >= x.cycle

Candidate(x, size, s, forced) ==
  LET days == DaysSinceFull(x, s)
  IN [full |-> Mandatory(x, days, forced), promoted |-> FALSE, days |-> days,
      size |-> size.full, incr |-> Incremental(x, size, s)]

Bytes(c) == IF c.full THEN c.size ELSE c.incr.bytes
RunBytes(cands) == Sum(LAMBDA d : Bytes(cands[d]), DOMAIN cands)

\* The day a full that waits is due, from today.
Offset(x, c) ==
  LET off == IF x.cycle - c.days < 1 THEN 1 ELSE x.cycle - c.days
  IN IF off > x.cycle - 1 THEN x.cycle - 1 ELSE off
DayForgetsToday(x, c) == IF c.full THEN 0 ELSE Offset(x, c)   \* a mutant
Day(x, c) == IF c.full \/ c.days = 0 THEN 0 ELSE Offset(x, c)

\* promote's calendar; a full of an earlier run today weighs on today.
Load(x, cands) ==
  [day \in 0..(x.cycle - 1) |->
     Sum(LAMBDA d : cands[d].size, {d \in DOMAIN cands : Day(x, cands[d]) = day})]
Peak(load) == Max({load[day] : day \in DOMAIN load})
SumSq(load) == Sum(LAMBDA day : load[day] * load[day], DOMAIN load)

Promotion(cands, d) == [cands EXCEPT ![d].full = TRUE, ![d].promoted = TRUE]

\* The calendar a move leads to, to be compared: the peak before the variance, and the
\* soonest due of equals.
RankOf(load) == <<Peak(load), SumSq(load)>>
Rank(x, cands) == RankOf(Load(x, cands))
Better(p, q) == p[1] < q[1] \/ (p[1] = q[1] /\ p[2] < q[2])

Overshoots(x, c, load) == load[0] + c.size > load[Day(x, c)] - c.size

FitsRoom(x, cands, d) ==
  x.room < 0 \/ RunBytes(cands) - cands[d].incr.bytes + cands[d].size <= x.room

Admissible(x, cands) ==
  {d \in DOMAIN cands :
     /\ ~cands[d].full /\ cands[d].days > 0
     /\ FitsRoom(x, cands, d)
     /\ cands[d].days >= x.cycle \div 2
     /\ ~Overshoots(x, cands[d], Load(x, cands))
     /\ Better(Rank(x, Promotion(cands, d)), Rank(x, cands))}

Best(moves, rank) == {d \in moves : \A e \in moves : ~Better(rank[e], rank[d])}
BestMove(x, cands, moves) ==
  LET rank == [d \in moves |-> Rank(x, Promotion(cands, d))]
      day == [d \in Best(moves, rank) |-> Day(x, cands[d])]
  IN Min({d \in DOMAIN day : \A e \in DOMAIN day : day[d] <= day[e]})

Improved(x, cands, moves) ==
  IF moves = {} THEN cands ELSE Promotion(cands, BestMove(x, cands, moves))
Promote(x, cands) ==
  LET after[k \in 0..Len(cands)] ==
        IF k = 0 THEN cands
        ELSE Improved(x, after[k - 1], Admissible(x, after[k - 1]))
  IN after[Len(cands)]

Build(x, states, forced) ==
  Promote(x, [d \in DOMAIN states |-> Candidate(x, x.sizes[d], states[d], d \in forced)])

Level(c) == IF c.full THEN 0 ELSE c.incr.level
-----------------------------------------------------------------------------
(* SimulateFunc: a run each day, its outcome recorded before the next. *)

Ran(states, plan) == [d \in DOMAIN states |-> RecordRun(states[d], Level(plan[d]))]
Overnight(states) ==
  [d \in DOMAIN states |-> [states[d] EXCEPT !.age = IF @ < 0 THEN @ ELSE @ + 1]]

\* Each day's states at its start, and its plan.
Simulate(x, days) ==
  LET until[i \in 1..days] ==
        LET before == IF i = 1 THEN <<>> ELSE until[i - 1]
            states == IF i = 1 THEN x.states
                      ELSE Overnight(Ran(before[i - 1].states, before[i - 1].plan))
        IN Append(before, [states |-> states, plan |-> Build(x, states, IF i = 1 THEN x.forced ELSE {})])
  IN until[days]
-----------------------------------------------------------------------------
(* Properties. *)

PromotedBy(plan) == {d \in DOMAIN plan : plan[d].promoted}
Unpromoted(plan) ==
  [d \in DOMAIN plan |-> [plan[d] EXCEPT !.full = @ /\ ~plan[d].promoted]]

\* "The hard maximum age of any full": run every night, no full gets older than the cycle;
\* east of Greenwich, by DaysSinceFull's rule, than a day more.
CycleIsHard(x, days) ==
  \A i \in 2..Len(days) : \A d \in DOMAIN x.states :
    days[i].states[d].age <= x.cycle + (IF x.zone > 0 THEN 1 ELSE 0)

\* "Leveling a clump is a phase-shift onto distinct days, not extra fulls": after three
\* cycles of equal sizes nothing is promoted any more.
PhaseShift(x, days) == \A i \in (3 * x.cycle + 1)..Len(days) : PromotedBy(days[i].plan) = {}

\* "A later run the same day sees that load and does not re-promote the rest".
RoomAfter(x, plan) ==
  IF x.room < 0 THEN x.room ELSE Max({0, x.room - RunBytes(plan)})
Again(x, day) ==
  Build([x EXCEPT !.room = RoomAfter(x, day.plan)], Ran(day.states, day.plan), {})

\* Promotion lowers the calendar, into free room only.
Levels(x, plan) ==
  LET before == Unpromoted(plan)
  IN PromotedBy(plan) # {} => /\ Better(Rank(x, plan), Rank(x, before))
                             /\ (x.room < 0 \/ RunBytes(plan) <= x.room)

\* A forecast of four cycles, run by run, keeps what the planner's comments promise.
DaysAreKept(x, days) ==
  /\ CycleIsHard(x, days)
  /\ PhaseShift(x, days)
  /\ \A i \in DOMAIN days : /\ Levels(x, days[i].plan)
                            /\ PromotedBy(Again(x, days[i])) = {}
ScheduleIsKept(x) == DaysAreKept(x, Simulate(x, 4 * x.cycle))
=============================================================================
