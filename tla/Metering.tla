----------------------------- MODULE Metering -----------------------------
(***************************************************************************)
(* The tracker's clocks (progress/tracker.go, progress.go, file.go): the   *)
(* busy time of one landing lane, each DLE's write time there, the ring of *)
(* byte samples behind the "right now" rates, and the throttled status     *)
(* file.  A run is a sequence of events [gap, op, dle]: what the tracker    *)
(* was told, that many ticks after the event before.                       *)
(***************************************************************************)
EXTENDS Integers, Sequences, FiniteSets, SequencesExt, FiniteSetsExt

CONSTANTS Writers,   \* the DLEs
          Every,     \* sampleEvery
          Keep,      \* sampleKeep
          Window,    \* nowWindow
          Interval   \* the status file's flushInterval

Never == -1

Start == [t |-> 0, active |-> 0, since |-> Never, busy |-> 0,
          open |-> [d \in Writers |-> Never], credit |-> [d \in Writers |-> 0],
          written |-> 0, ring |-> <<[t |-> 0, written |-> 0]>>,
          file |-> [t |-> 0, written |-> 0]]

-----------------------------------------------------------------------------
\* sample: when the last is old enough; those that have aged out go.
Trim(ring, t) ==
    LET old == {i \in DOMAIN ring : i < Len(ring) /\ ring[i].t < t - Keep}
    IN  SubSeq(ring, Cardinality(old) + 1, Len(ring))

Sample(s) ==
    IF s.t - Last(s.ring).t < Every THEN s
    ELSE [s EXCEPT !.ring = Trim(Append(@, [t |-> s.t, written |-> s.written]), s.t)]

\* flush: a sample when one is due; the sink writes a forced update always, the
\* others once an interval.
Flush(s, force) ==
    LET m == Sample(s)
    IN  IF ~force /\ m.t - m.file.t < Interval THEN m
        ELSE [m EXCEPT !.file = [t |-> m.t, written |-> m.written]]

\* BeginLandingWrite: overlapping writers count once.
Begin(s, d) ==
    Flush([s EXCEPT !.active = @ + 1, !.since = IF s.active = 0 THEN s.t ELSE @,
                    !.open[d] = s.t], TRUE)

\* EndLandingWrite: the interval ends when its last writer leaves.
EndCountsTwice(s, d) ==      \* a mutant
    LET left == [s EXCEPT !.active = @ - 1, !.busy = @ + (s.t - s.open[d])]
    IN  Flush(IF s.open[d] = Never THEN s
              ELSE [left EXCEPT !.open[d] = Never, !.credit[d] = @ + (s.t - s.open[d])], TRUE)
End(s, d) ==
    LET left == IF s.active = 0 THEN s
                ELSE [s EXCEPT !.active = @ - 1,
                               !.busy = IF s.active = 1 THEN @ + (s.t - s.since) ELSE @,
                               !.since = IF s.active = 1 THEN Never ELSE @]
    IN  Flush(IF s.open[d] = Never THEN left
              ELSE [left EXCEPT !.open[d] = Never, !.credit[d] = @ + (s.t - s.open[d])], TRUE)

AddBytes(s) == Flush([s EXCEPT !.written = @ + 1], FALSE)

Tell(s, e) ==
    LET now == [s EXCEPT !.t = @ + e.gap]
    IN  IF e.op = "begin" THEN Begin(now, e.dle)
        ELSE IF e.op = "end" THEN End(now, e.dle) ELSE AddBytes(now)

Tracked(events) == FoldLeft(Tell, Start, events)

-----------------------------------------------------------------------------
\* What a reader makes of the snapshot.

BusyAt(s, now) == s.busy + (IF s.active > 0 THEN now - s.since ELSE 0)

BaseSample(s, now) ==
    LET old == {i \in DOMAIN s.ring : s.ring[i].t <= now - Window}
    IN  s.ring[IF old = {} THEN 1 ELSE Max(old)]

\* rateNow, as units moved and the ticks they are spread over.
RateNow(s, now) ==
    LET base == BaseSample(s, now)
        stale == s.t <= now - Window
        delta == s.written - base.written
    IN  IF stale \/ now - base.t < 1 \/ delta <= 0 THEN [delta |-> 0, over |-> 1]
        ELSE [delta |-> delta, over |-> now - base.t]

-----------------------------------------------------------------------------
\* Reference: what happened, tick by tick.

At(events, k) == FoldLeft(LAMBDA x, e : x + e.gap, 0, SubSeq(events, 1, k))

\* The writes of d: its begins, each to the next end of d's or to now.
Writes(events, at, d, now) ==
    {<<at[i], IF \E j \in i + 1 .. Len(events) : events[j].op = "end" /\ events[j].dle = d
              THEN at[Min({j \in i + 1 .. Len(events) : events[j].op = "end" /\ events[j].dle = d})]
              ELSE now>> : i \in {k \in DOMAIN events : events[k].op = "begin" /\ events[k].dle = d}}

MovedIn(events, at, from, to) ==
    Cardinality({k \in DOMAIN events : events[k].op = "bytes" /\ at[k] > from /\ at[k] <= to})

\* The spool ends a DLE's write before it begins its next on the lane.
Paired(events) ==
    \A d \in Writers : \A k \in DOMAIN events :
      events[k].op # "bytes" /\ events[k].dle = d =>
        LET before == {j \in 1 .. k - 1 : events[j].op # "bytes" /\ events[j].dle = d}
        IN  events[k].op = (IF before = {} \/ events[Max(before)].op = "end" THEN "begin" ELSE "end")

\* Busy time is the union of the writes, a DLE's write time the sum of its own.
BusyIsUnion(events, at, s, now) ==
    /\ BusyAt(s, now) =
         Cardinality({t \in 0 .. now - 1 :
           \E d \in Writers : \E w \in Writes(events, at, d, now) : w[1] <= t /\ t < w[2]})
    /\ \A d \in Writers : s.open[d] = Never =>
         s.credit[d] = Cardinality({t \in 0 .. now - 1 :
                         \E w \in Writes(events, at, d, now) : w[1] <= t /\ t < w[2]})

\* A rate is of the window: what it counts moved since a baseline at or before
\* the window (the run's start, or the first sample after a long quiet), and of
\* what moved earlier than the window it counts only what followed the baseline
\* before the next sample was due.  When nothing was told for a window, it is zero.
RateIsRecent(events, at, s, now) ==
    LET rate == RateNow(s, now)
        base == BaseSample(s, now)
        early == MovedIn(events, at, base.t, now - Window)
    IN  /\ \/ base.t <= now - Window \/ base.t = 0
           \/ \A k \in DOMAIN events : at[k] < base.t => at[k] < s.t - Keep + Every
        /\ (\A k \in DOMAIN events : at[k] <= now - Window) => rate.delta = 0
        /\ rate.delta <= MovedIn(events, at, now - Window, now) + early
                           + MovedIn(events, at, base.t - 1, base.t)
        /\ base.t > 0 /\ base.t <= now - Window =>
             early <= MovedIn(events, at, base.t, base.t + Every - 1)

\* The status file is never behind a state change, nor an interval behind the bytes.
FileIsFresh(events, at, s) ==
    /\ s.t - s.file.t < Interval
    /\ \A k \in DOMAIN events : events[k].op # "bytes" => at[k] <= s.file.t
    /\ s.file.written >= MovedIn(events, at, -1, s.file.t - 1)

MetersAreTrue(events) ==
    Paired(events) =>
      LET at == [k \in DOMAIN events |-> At(events, k)]
          s == Tracked(events)
      IN  /\ \A now \in s.t .. s.t + Window + 1 :
               BusyIsUnion(events, at, s, now) /\ RateIsRecent(events, at, s, now)
          /\ FileIsFresh(events, at, s)
=============================================================================
