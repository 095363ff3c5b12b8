----------------------------- MODULE Forecasting -----------------------------
(***************************************************************************)
(* What a schedule will need of a medium: its days replayed onto the       *)
(* archives the medium holds, under the retention and reclamation that     *)
(* prune runs.  internal/accounting/{projection,forecast,forecast_tape,    *)
(* capacity,expectation}.go.                                               *)
(*                                                                         *)
(* An input has the DLEs' landing routes, the sync rules (last = 0: all    *)
(* runs), the medium's own parameters, the archives on it before the first *)
(* day and the plans, one a day, as sequences of [dle, level, est].        *)
(* A run is the day it is dumped on.                                       *)
(***************************************************************************)
EXTENDS Integers, Sequences, FiniteSets, SequencesExt, FiniteSetsExt

Ch == INSTANCE Chains

AutoSource == "auto"   \* a rule without a source mirrors the config's landing
-----------------------------------------------------------------------------
(* The projection kernel. *)

CopyMedia(x, d) ==
  LET fed(S) == {r.to : r \in {q \in x.sync : IF q.from = AutoSource THEN x.landing \cap S # {} ELSE q.from \in S}}
      grow[S \in SUBSET x.media] == IF fed(S) \subseteq S THEN S ELSE grow[S \cup fed(S)]
  IN grow[x.route[d]]

\* The runs that a pure sync target mirrors, 0 for all.
RunCap(x) ==
  LET feeding == {r.last : r \in {q \in x.sync : q.to = x.medium}}
  IN IF (\E d \in DOMAIN x.route : x.medium \in x.route[d]) \/ feeding = {} \/ 0 \in feeding THEN 0
     ELSE Max(feeding)

Date(x, i) == x.start + i - 1
RoutedDay(x, i, Size(_)) ==
  LET items == SelectSeq(x.plans[i], LAMBDA it : x.medium \in CopyMedia(x, it.dle))
  IN [k \in DOMAIN items |->
        [run |-> Date(x, i), dle |-> items[k].dle, level |-> items[k].level, bytes |-> Size(items[k])]]
PlanEstimate(it) == it.est
Landed(x, i) == ToSet(RoutedDay(x, i, PlanEstimate))

Bytes(W) == MapThenSumSet(LAMBDA a : a.bytes, W)
RunsOf(W) == {a.run : a \in W}
CapRuns(W, limit) == {a \in W : Cardinality({r \in RunsOf(W) : r > a.run}) < limit}
Capped(x, W) == IF RunCap(x) = 0 THEN W ELSE CapRuns(W, RunCap(x))

\* The archives of one DLE as Chains has them; forecasts record no base.
OfDLE(W, d) == {a \in W : a.dle = d}
Arch(V) == [r \in RunsOf(V) |-> [level |-> (CHOOSE a \in V : a.run = r).level, base |-> 0]]
Young(x, W, day) == {r \in RunsOf(W) : day - r < x.minAge}

Judge(W, Verdict(_, _)) ==
  UNION {LET V == OfDLE(W, d)
             runs == Verdict(Arch(V), RunsOf(V))
         IN {a \in V : a.run \in runs} : d \in {a.dle : a \in W}}
Kept(x, W, day) ==
  Judge(W, LAMBDA arch, on : Ch!Kept(arch, on, on, Young(x, W, day) \cap on))
Condemned(x, W, day) ==
  Judge(W, LAMBDA arch, on : Ch!Condemned(arch, on, on, Young(x, W, day) \cap on))

\* The size profile's Reclaim: what it leaves of W.
Before(a, b) == a.run < b.run \/ (a.run = b.run /\ a.dle <= b.dle)
Reclaim(x, target, W, day) ==
  LET kept == Kept(x, W, day)
      condemned == Condemned(x, W, day)
      base == [a \in W |-> LET U == OfDLE(W, a.dle) IN Ch!BaseOf(Arch(U), RunsOf(U), a.run)]
      free(V) == {a \in V : \A b \in V : b.dle # a.dle \/ base[b] # a.run}
      oldest(S) == {CHOOSE a \in S : \A b \in S : Before(a, b)}
      after[V \in SUBSET W] ==
        LET f == free(V)
        IN IF f \cap condemned # {} THEN after[V \ oldest(f \cap condemned)]
           ELSE IF x.capacity = 0 \/ Bytes(V) <= target \/ f \subseteq kept THEN V
           ELSE after[V \ oldest(f \ kept)]
  IN after[W]

\* simulateMedium: [landed, before, floor, working] of each day.
Simulate(x) ==
  FoldLeft(LAMBDA days, i :
             LET W == IF i = 1 THEN x.held ELSE days[i - 1].working
                 landed == Landed(x, i)
                 before == Capped(x, {a \in W : a.run # Date(x, i)} \cup landed)
             IN Append(days, [landed |-> landed, before |-> before,
                              floor |-> Kept(x, before, Date(x, i)),
                              working |-> Reclaim(x, x.capacity, before, Date(x, i))]),
           <<>>, [i \in DOMAIN x.plans |-> i])
-----------------------------------------------------------------------------
(* The readers of the byte media. *)

Point(day) == [bytes |-> Bytes(day.working), run |-> Bytes(day.landed),
               reclaimed |-> Bytes(day.before) - Bytes(day.working),
               protected |-> Bytes(day.working \cap day.floor)]
OverCapacity(x, p) == x.capacity > 0 /\ p.bytes > x.capacity
Footprint(day, d) == Bytes(OfDLE(day.working, d))

\* protectedHistory, of the archives that are there now.
ArchivesAsOf(W, day) == {a \in W : a.run <= day}
ProtectedHistory(x, W, day) == Bytes(Kept(x, ArchivesAsOf(W, day), day))

\* restoreDepth: chains newest first, at the rate of the first day each level is planned.
CurrentRate(x, it) ==
  LET same == {i \in DOMAIN x.plans : \E k \in DOMAIN x.plans[i] :
                 LET o == x.plans[i][k] IN o.dle = it.dle /\ o.level = it.level /\ o.est > 0}
      first == x.plans[Min(same)]
  IN IF same = {} THEN 0
     ELSE first[CHOOSE k \in DOMAIN first : first[k].dle = it.dle /\ first[k].level = it.level].est
Projected(x) ==
  Capped(x, UNION {ToSet(RoutedDay(x, i, LAMBDA it : CurrentRate(x, it))) : i \in DOMAIN x.plans})
Opens(V) == {a \in V : a.level = 0 \/ \A b \in V : a.run <= b.run}
ChainSizes(V) ==
  LET opens == Opens(V)
      chain(o) == {a \in V : o.run <= a.run /\ \A p \in opens : p.run <= a.run => p.run <= o.run}
      newest == SetToSortSeq(opens, LAMBDA a, b : a.run > b.run)
  IN [k \in DOMAIN newest |-> Bytes(chain(newest[k]))]
\* DepthMark: the bytes of the n newest chains of every DLE; none beyond the deepest.
Depth(x, n) ==
  LET W == Projected(x)
      sizes == [d \in {a.dle : a \in W} |-> ChainSizes(OfDLE(W, d))]
  IN [priced |-> \E d \in DOMAIN sizes : n <= Len(sizes[d]),
      bytes |-> MapThenSumSet(LAMBDA d : FoldLeft(+, 0, SubSeq(sizes[d], 1, Min({n, Len(sizes[d])}))),
                              DOMAIN sizes)]
-----------------------------------------------------------------------------
(* Capacity. *)

\* MediumResidual: what is left when everything the floor clears is gone.
Residual(x, W, day) == Bytes(Reclaim([x EXCEPT !.capacity = 1], 0, W, day))
PoolRoom(x, W, day) ==
  IF x.capacity = 0 THEN -1
  ELSE Max({0, x.capacity - Bytes(Kept(x, W, day))})

\* planRoom: whether the incoming bytes can be made room for.
RoomRefused(x, W, incoming, day) ==
  /\ x.capacity > 0 /\ incoming > 0 /\ Bytes(W) + incoming > x.capacity
  /\ Residual(x, W, day) + incoming > x.capacity
\* The nights that the schedule really has: room is made before the first byte lands.
Night(x, W, i) ==
  LET landed == Landed(x, i)
      target == x.capacity - Bytes(landed)
  IN IF RoomRefused(x, W, Bytes(landed), Date(x, i)) THEN [refused |-> TRUE, on |-> W]
     ELSE [refused |-> FALSE,
           on |-> landed \cup (IF x.capacity = 0 \/ landed = {} \/ Bytes(W) <= target THEN W
                               ELSE Reclaim(x, Max({0, target}), W, Date(x, i)))]
Nights(x) ==
  FoldLeft(LAMBDA ns, i : Append(ns, Night(x, IF i = 1 THEN x.held ELSE ns[i - 1].on, i)),
           <<>>, [i \in DOMAIN x.plans |-> i])
-----------------------------------------------------------------------------
(* Tape: reels [remaining, runs], by name at first.  A reel is in use while the floor *)
(* keeps a run that it holds a part of.                                               *)

FreshReel(x) == [remaining |-> x.usable, runs |-> {}]
Onto(reels, run, put) ==
  [reels EXCEPT ![Len(reels)].runs = @ \cup {run}, ![Len(reels)].remaining = @ - put]
\* One byte more, on a reel of its own if the last is full.
Put(x, reels, run) ==
  Onto(IF Last(reels).remaining <= 0 THEN Append(reels, FreshReel(x)) ELSE reels, run, 1)
Pack(x, reels, run, bytes, freshRun) ==
  LET open == IF reels = <<>> \/ (freshRun /\ ~x.appendable) THEN Append(reels, FreshReel(x)) ELSE reels
  IN FoldLeft(LAMBDA rs, k : Put(x, rs, run), Onto(open, run, 0), [k \in 1..bytes |-> k])
PackDay(x, reels, day) ==
  FoldLeft(LAMBDA rs, k : Pack(x, rs, day[k].run, day[k].bytes, k = 1), reels, [k \in DOMAIN day |-> k])

InUse(reels, kept) == Cardinality({i \in DOMAIN reels : reels[i].runs \cap RunsOf(kept) # {}})

\* tapeProjection: [reels, kept] of each day.
TapeProjection(x) ==
  LET onTape(i) == x.held \cup UNION {Landed(x, j) : j \in 1..i}
  IN FoldLeft(LAMBDA days, i :
                Append(days,
                       [reels |-> PackDay(x, IF i = 1 THEN x.reels ELSE days[i - 1].reels,
                                          RoutedDay(x, i, PlanEstimate)),
                        kept |-> Kept(x, Capped(x, onTape(i)), Date(x, i))]),
              <<>>, [i \in DOMAIN x.plans |-> i])
\* tapeHistory, of the reels and archives that are there now.
TapeHistory(x, reels, W, day) ==
  LET kept == RunsOf(Kept(x, ArchivesAsOf(W, day), day))
  IN Cardinality({k \in DOMAIN reels : \E r \in reels[k].runs : r <= day /\ r \in kept})
VolumeOver(x, day) == x.volumes > 0 /\ InUse(day.reels, day.kept) > x.volumes

\* What the librarian does meanwhile: the next reel is a blank one, or the oldest whose
\* runs the floor has all cleared; tonight's archives are in the catalog one by one.
Turn(x, s, run) ==
  LET kept == RunsOf(Kept(x, s.on, run)) \cup {run}
      clear == {i \in DOMAIN s.reels : s.reels[i].runs \cap kept = {}}
  IN IF Len(s.reels) < x.volumes THEN [s EXCEPT !.reels = Append(@, FreshReel(x))]
     ELSE IF clear = {} THEN [s EXCEPT !.failed = TRUE]
     ELSE LET i == Min(clear)
          IN [s EXCEPT !.reels = Append(RemoveAt(@, i), FreshReel(x)),
                       !.on = {a \in @ : a.run \notin s.reels[i].runs}]
Write(x, s, run) ==
  LET t == IF Last(s.reels).remaining <= 0 THEN Turn(x, s, run) ELSE s
  IN IF t.failed THEN t ELSE [t EXCEPT !.reels = Onto(@, run, 1)]
WriteArchive(x, s, a, freshRun) ==
  LET t == IF s.reels = <<>> \/ (freshRun /\ ~x.appendable) THEN Turn(x, s, a.run) ELSE s
      u == IF t.failed THEN t
           ELSE FoldLeft(LAMBDA v, k : IF v.failed THEN v ELSE Write(x, v, a.run),
                         [t EXCEPT !.reels = Onto(@, a.run, 0)], [k \in 1..a.bytes |-> k])
  IN IF u.failed THEN u ELSE [u EXCEPT !.on = @ \cup {a}]
Rotation(x) ==
  FoldLeft(LAMBDA ns, i :
             LET day == RoutedDay(x, i, PlanEstimate)
             IN Append(ns, FoldLeft(LAMBDA s, k : IF s.failed THEN s ELSE WriteArchive(x, s, day[k], k = 1),
                                    IF i = 1 THEN [reels |-> x.reels, on |-> x.held, failed |-> FALSE]
                                    ELSE ns[i - 1],
                                    [k \in DOMAIN day |-> k])),
           <<>>, [i \in DOMAIN x.plans |-> i])
-----------------------------------------------------------------------------
(* Properties. *)

\* A day's footprint is that of its DLEs; it exceeds the capacity only with what is
\* protected; and nothing protected is reclaimed.
CurveIsSound(x, days) ==
  \A i \in DOMAIN days :
    LET p == Point(days[i])
    IN /\ OverCapacity(x, p) => p.bytes = p.protected
       /\ days[i].floor \subseteq days[i].working
       /\ p.bytes = MapThenSumSet(LAMBDA d : Footprint(days[i], d), DOMAIN x.route)

\* A day over capacity is no false alarm: a night until then is refused.  The first refusal
\* is foreseen, unless the night itself would have released what it needs room for.
AlarmsAreTrue(x, days, nights) ==
  \A i \in DOMAIN days :
    /\ OverCapacity(x, Point(days[i])) => \E j \in 1..i : nights[j].refused
    /\ nights[i].refused /\ (\A j \in 1..(i - 1) : ~nights[j].refused)
       => \/ OverCapacity(x, Point(days[i]))
          \/ ~(Kept(x, IF i = 1 THEN x.held ELSE nights[i - 1].on, Date(x, i)) \subseteq days[i].floor)

\* The floor reconstructed of past days is no higher than it was, and was that high if
\* nothing has been reclaimed since.
HistoryIsSound(x, days) ==
  \A i \in DOMAIN days :
    LET seen == ProtectedHistory(x, Last(days).working, Date(x, i))
        was == Point(days[i]).protected
    IN /\ seen <= was
       /\ (\A j \in i..Len(days) : Point(days[j]).reclaimed = 0) => seen = was

\* One cycle of depth is what the floor keeps, and a deeper one needs no less.
DepthIsSound(x, days) ==
  /\ x.held = {} /\ x.minAge = 0 => Depth(x, 1).bytes = Point(Last(days)).protected
  /\ \A n \in 1..Len(days) : Depth(x, n).bytes <= Depth(x, n + 1).bytes

\* What the floor leaves of the capacity is room for a night.
RoomIsRoom(x, days) ==
  \A i \in DOMAIN days :
    LET W == days[i].working
    IN x.capacity > 0 =>
         \A n \in 1..PoolRoom(x, W, Date(x, i)) : ~RoomRefused(x, W, n, Date(x, i))

ForecastIsKept(x) ==
  LET days == Simulate(x)
  IN /\ CurveIsSound(x, days)
     /\ RoomIsRoom(x, days)
     /\ RunCap(x) = 0 => /\ AlarmsAreTrue(x, days, Nights(x))
                         /\ HistoryIsSound(x, days)
                         /\ DepthIsSound(x, days)

\* The reels hold what was packed; those in use hold what is protected; too many of them
\* is no false alarm; and the first night to find no reel is foreseen, unless the night
\* itself would have released one.  The curve of past days is what the forecast showed.
RotationIsKept(x) ==
  LET days == TapeProjection(x)
      nights == Rotation(x)
      packed == x.held \cup UNION {Landed(x, i) : i \in DOMAIN days}
      needed(i) == {k \in DOMAIN days[i].reels :
                      days[i].reels[k].runs \cap
                        ({Date(x, i)} \cup RunsOf(Kept(x, {a \in packed : a.run < Date(x, i)}, Date(x, i)))) # {}}
  IN /\ \A i \in DOMAIN days : Bytes(days[i].kept) <= x.usable * InUse(days[i].reels, days[i].kept)
     /\ MapThenSumSet(LAMBDA k : x.usable - Last(days).reels[k].remaining, DOMAIN Last(days).reels)
          = Bytes(packed)
     /\ \A i \in DOMAIN days :
          /\ TapeHistory(x, Last(days).reels, packed, Date(x, i)) = InUse(days[i].reels, days[i].kept)
          /\ VolumeOver(x, days[i]) => \E j \in 1..i : nights[j].failed
          /\ nights[i].failed /\ (i > 1 => ~nights[i - 1].failed) => Cardinality(needed(i)) > x.volumes
=============================================================================
