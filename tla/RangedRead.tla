----------------------------- MODULE RangedRead -----------------------------
(***************************************************************************)
(* Reading a few members out of one archive without reading it whole, and  *)
(* sampling one restart unit of it: internal/restorer/ranged.go and        *)
(* atomic.go over the ranges, segments and restart tables of               *)
(* internal/media/range.go, internal/archiveio/reader.go and               *)
(* internal/record/archive.go.                                             *)
(*                                                                         *)
(* The raw stream is positions 0..size-1; a member starts at its offset    *)
(* and ends where the next one starts.  The encoded stream is cut twice:   *)
(* by the encoder into frames (or sealed atoms), each of which decodes by  *)
(* itself, and by the medium into parts.                                   *)
(***************************************************************************)
EXTENDS Integers, Sequences, FiniteSets, SequencesExt, FiniteSetsExt, Functions

CONSTANT
  Rotations   \* bound: the drill counters a sample is taken at

\* size, members: the raw stream and where its members start; located: the index records the
\* offsets.  raw, enc: where frame i starts in the raw and in the encoded stream; encSize; a
\* plain stream records no frames.  plain: no transform at all.  parts: the sizes of the part
\* files; sealed: the placement records them; capable: the medium serves ranges.
Layout == [size : Nat, members : Seq(Nat), located : BOOLEAN,
           shape : {"stream", "framed", "atomic"}, plain : BOOLEAN, encrypted : BOOLEAN,
           raw : Seq(Nat), enc : Seq(Nat), encSize : Nat,
           parts : Seq(Nat), sealed : BOOLEAN, capable : BOOLEAN]
-----------------------------------------------------------------------------
(* Ranges: len = 0 is an open end. *)

Open(o) == [off |-> o, len |-> 0]
To(o, e) == [off |-> o, len |-> e - o]
IsWhole(r) == r.off = 0 /\ r.len <= 0
End(r) == IF r.len <= 0 THEN -1 ELSE r.off + r.len
Bound(r, total) == IF r.len <= 0 \/ r.off + r.len > total THEN To(r.off, total) ELSE r

\* Two ranges in stream order, the second starting where the first still runs or ends: one.
Meets(r, off) == End(r) < 0 \/ End(r) >= off
Joined(r, e) ==
  IF End(r) < 0 \/ e < 0 THEN Open(r.off) ELSE To(r.off, IF e > End(r) THEN e ELSE End(r))
-----------------------------------------------------------------------------
(* Planning. *)

\* planExtents: the selected members' extents, adjacent ones as one.  Members are numbered in
\* stream order, so sorting by offset is sorting by number.
Extent(l, i) ==
  IF i = Len(l.members) THEN Open(l.members[i]) ELSE To(l.members[i], l.members[i + 1])

Coalesced(extents) ==
  FoldLeft(LAMBDA out, e :
             IF out # <<>> /\ Meets(Last(out), e.off)
             THEN Append(Front(out), Joined(Last(out), End(e))) ELSE Append(out, e),
           <<>>, extents)

PlanExtents(l, sel) ==
  LET order == SetToSortSeq(sel, <)
  IN Coalesced([k \in DOMAIN order |-> Extent(l, order[k])])

\* RestartTable, or none; a plain pipeline needs none: its encoded offsets are the raw ones.
Table(l) == IF l.shape = "stream" \/ (l.shape = "atomic" /\ ~l.sealed) THEN <<>> ELSE l.raw
Seekable(l) == l.located /\ (Table(l) # <<>> \/ (l.shape = "stream" /\ l.plain))

\* The frames covering an extent: f the last to start at or before it, g the first at or past
\* its end (one past the last frame when it runs into the tail).
FrameOf(l, e) == Max({i \in DOMAIN l.raw : l.raw[i] <= e.off})
FrameAfter(l, e) ==
  IF End(e) < 0 THEN Len(l.raw) + 1
  ELSE Min({i \in DOMAIN l.raw : l.raw[i] >= End(e)} \cup {Len(l.raw) + 1})

GroupUnskipped(l, e) ==   \* a mutant
  LET f == FrameOf(l, e)
  IN [enc |-> Open(IF Table(l) = <<>> THEN e.off ELSE l.enc[f]), rawStart |-> e.off,
      extents |-> <<e>>]
Group(l, e) ==
  IF Table(l) = <<>> THEN [enc |-> e, rawStart |-> e.off, extents |-> <<e>>]
  ELSE LET f == FrameOf(l, e)
           g == FrameAfter(l, e)
       IN [enc |-> IF g > Len(l.raw) THEN Open(l.enc[f]) ELSE To(l.enc[f], l.enc[g]),
           rawStart |-> l.raw[f], extents |-> <<e>>]

\* planGroups: fetches whose frames overlap or adjoin are one fetch (with a table only).
PlanGroups(l, extents) ==
  FoldLeft(LAMBDA out, e :
             LET new == Group(l, e)
             IN IF out # <<>> /\ Table(l) # <<>> /\ Meets(Last(out).enc, new.enc.off)
                THEN Append(Front(out),
                       [Last(out) EXCEPT !.enc = Joined(@, End(new.enc)),
                                         !.extents = Append(@, e)])
                ELSE Append(out, new),
           <<>>, extents)

\* groupsEgress: what the plan expects to fetch; the tail needs the archive's recorded size.
Egress(l, groups) ==
  FoldLeft(LAMBDA n, g : n + (IF g.enc.len > 0 THEN g.enc.len ELSE l.encSize - g.enc.off),
           0, groups)

\* SelectionReads: what nb recover forecasts for this archive.
Forecast(l, sel) ==
  IF Seekable(l) /\ l.capable THEN Egress(l, PlanGroups(l, PlanExtents(l, sel))) ELSE l.encSize
-----------------------------------------------------------------------------
(* Reading. *)

PartStart(l, k) == FoldLeft(+, 0, SubSeq(l.parts, 1, k - 1))

\* planSegments: the slices of the parts a range covers; a slice that is its whole part is
\* read whole, and only then is the part's seal checked.
Segments(l, r) ==
  LET b == Bound(r, l.encSize)
      touched == SelectSeq([k \in DOMAIN l.parts |-> k], LAMBDA k :
                   PartStart(l, k) + l.parts[k] > b.off /\ PartStart(l, k) < b.off + b.len)
      slice(k) == LET from == Max({b.off - PartStart(l, k), 0})
                      to == Min({b.off + b.len - PartStart(l, k), l.parts[k]})
                  IN [part |-> k, from |-> from, to |-> to,
                      checked |-> l.sealed /\ from = 0 /\ to = l.parts[k]]
  IN [k \in DOMAIN touched |-> slice(touched[k])]

\* The encoded positions a read of the range yields, in order.
Fetched(l, r) ==
  LET segs == Segments(l, r)
      bytes(s) == [n \in 1..(s.to - s.from) |-> PartStart(l, s.part) + s.from + n - 1]
  IN FlattenSeq([k \in DOMAIN segs |-> bytes(segs[k])])

\* A whole part is read as a file; less of one only from a medium that serves ranges.
Servable(l, s) == l.capable \/ (s.from = 0 /\ s.to = l.parts[s.part])

\* OpenRange: a part of the archive is placed by the sizes in its seals; only the first
\* segment is opened before the reader is handed over.
OpensRange(l, r) == (IsWhole(r) \/ l.sealed) /\ Servable(l, Segments(l, r)[1])

\* groupAtomSizes: the cut list of the per-atom decrypt loop.
AtomSizes(l, g) ==
  LET size(i) == (IF i = Len(l.enc) THEN l.encSize ELSE l.enc[i + 1]) - l.enc[i]
      from == SelectSeq([i \in DOMAIN l.enc |-> i], LAMBDA i : l.enc[i] >= g.enc.off)
  IN FoldLeft(LAMBDA out, i :
                IF g.enc.len > 0 /\ FoldLeft(+, 0, out) >= g.enc.len THEN out
                ELSE Append(out, size(i)),
              <<>>, from)

\* What a fresh decode of these encoded positions yields: the raw positions of the frames
\* they are, or a fault ( <<-1>> ) when they are not whole frames.
Decoded(l, bytes) ==
  LET first == bytes[1]
      past == Last(bytes) + 1
      start == {i \in DOMAIN l.enc : l.enc[i] = first}
      stop == {i \in DOMAIN l.enc : l.enc[i] = past}
      rawEnd == IF past = l.encSize THEN l.size ELSE l.raw[CHOOSE i \in stop : TRUE]
  IN IF start = {} \/ (stop = {} /\ past # l.encSize) THEN <<-1>>
     ELSE LET o == l.raw[CHOOSE i \in start : TRUE] IN [n \in 1..(rawEnd - o) |-> o + n - 1]

\* A group's raw stream from what was fetched: an atomic archive's atoms must be cut where
\* they were sealed.
GroupStream(l, g, bytes) ==
  IF Table(l) = <<>> THEN bytes
  ELSE IF l.shape = "atomic" /\ FoldLeft(+, 0, AtomSizes(l, g)) # Len(bytes) THEN <<-1>>
  ELSE Decoded(l, bytes)

\* emitGroup: skip to each extent, copy it, drain the tail.
Emitted(g, raw) ==
  LET slice(e) == SubSeq(raw, e.off - g.rawStart + 1,
                         IF End(e) < 0 THEN Len(raw) ELSE End(e) - g.rawStart)
  IN IF raw = <<-1>> THEN raw
     ELSE FlattenSeq([k \in DOMAIN g.extents |-> slice(g.extents[k])])
EmitGroup(l, g) == Emitted(g, GroupStream(l, g, Fetched(l, g.enc)))
-----------------------------------------------------------------------------
(* sampleTable: one restart unit, rotated, at a bounded egress.            *)

InFrame(l, k) ==
  {i \in DOMAIN l.members :
     l.members[i] >= l.raw[k] /\ (k = Len(l.raw) \/ l.members[i] < l.raw[k + 1])}

Stride(l) == IF Len(l.raw) > 1 THEN l.raw[2] - l.raw[1] ELSE 0
Budget(l) == 4 * Stride(l)

\* From the frame's first member header to its last member's end.
Span(l, k) ==
  LET last == Max(InFrame(l, k))
      start == l.members[Min(InFrame(l, k))]
  IN IF last = Len(l.members) THEN Open(start) ELSE To(start, l.members[last + 1])
SpanLen(l, k) ==
  IF Span(l, k).len > 0 THEN Span(l, k).len ELSE Last(l.raw) + Stride(l) - Span(l, k).off
Affordable(l, k) == Budget(l) <= 0 \/ SpanLen(l, k) <= Budget(l)

\* The first frame from the counter on, wrapping, that holds a member header within the
\* budget; failing that the first with the shortest span.
Probes(l, rot) ==
  SelectSeq([p \in 1..Len(l.raw) |-> ((rot + p - 1) % Len(l.raw)) + 1],
            LAMBDA k : InFrame(l, k) # {})
SampledFrame(l, rot) ==
  LET within == SelectSeq(Probes(l, rot), LAMBDA k : Affordable(l, k))
      shortest == SelectSeq(Probes(l, rot),
                    LAMBDA k : \A j \in ToSet(Probes(l, rot)) : SpanLen(l, k) <= SpanLen(l, j))
  IN IF within # <<>> THEN Head(within) ELSE Head(shortest)

Samplable(l) ==
  l.located /\ Table(l) # <<>> /\ (l.shape = "atomic" \/ ~l.encrypted)

\* What the archiver lists of the sampled stream: the members that start in it.
Listed(l, raw) == SelectSeq(raw, LAMBDA p : p \in ToSet(l.members))

\* none: an ingredient is missing, no verdict.
Verdict(l, k, raw) ==
  IF raw = <<-1>> THEN "fault"
  ELSE IF Listed(l, raw) = SetToSortSeq({l.members[i] : i \in InFrame(l, k)}, <) THEN "ok"
  ELSE "differs"
SampleOf(l, k, g) ==
  IF ~OpensRange(l, g.enc) THEN "none" ELSE Verdict(l, k, EmitGroup(l, g))
SampleAt(l, k) == SampleOf(l, k, PlanGroups(l, <<Span(l, k)>>)[1])
Sample(l, rot) == IF Samplable(l) THEN SampleAt(l, SampledFrame(l, rot)) ELSE "none"
-----------------------------------------------------------------------------
(* extractSelected, and the whole-stream read it falls back to, of an      *)
(* archive whose part torn was damaged since it was written (0 for none).  *)

\* What was fed to tar, whether damage came with it unnoticed, the encoded bytes fetched, and
\* how it ended: ranged, whole or failed.
Result(fed, dirty, fetched, outcome) ==
  [fed |-> fed, dirty |-> dirty, fetched |-> fetched, outcome |-> outcome]

\* Of a damaged part a whole segment fails its seal; of a slice the decode fails or - in a
\* pipeline without one - nothing does.
Hit(l, g, torn) == {s \in ToSet(Segments(l, g.enc)) : s.part = torn}
GroupFails(l, g, torn) ==
  \/ \E s \in Hit(l, g, torn) : s.checked \/ ~l.plain
  \/ \E s \in ToSet(Segments(l, g.enc)) : ~Servable(l, s)

\* emitGroups: the groups in order; the splice trailer, without which tar does not end well,
\* only after the last.
AfterGroup(l, torn, res, g, raw) ==
  IF GroupFails(l, g, torn) \/ raw = <<-1>> THEN [res EXCEPT !.outcome = "failed"]
  ELSE Result(res.fed \o raw, res.dirty \/ Hit(l, g, torn) # {},
              res.fetched + Len(Fetched(l, g.enc)), "ranged")
ReadRanged(l, groups, torn) ==
  FoldLeft(LAMBDA res, g : IF res.outcome = "failed" THEN res
                           ELSE AfterGroup(l, torn, res, g, EmitGroup(l, g)),
           Result(<<>>, FALSE, 0, "none"), groups)

\* The whole stream, tar picking the members: seals are checked where recorded.
Selected(l, sel) ==
  LET within(p) == \E i \in sel : /\ l.members[i] <= p
                                 /\ (i = Len(l.members) \/ p < l.members[i + 1])
  IN SelectSeq([n \in 1..l.size |-> n - 1], within)
ReadWhole(l, sel, torn) ==
  IF torn # 0 /\ (l.sealed \/ ~l.plain) THEN Result(<<>>, FALSE, 0, "failed")
  ELSE Result(Selected(l, sel), torn # 0, l.encSize, "whole")

\* Plan and probe: anything missing before a byte has moved is the cue to read whole.
ReadPlanned(l, sel, torn, groups) ==
  IF Seekable(l) /\ OpensRange(l, groups[1].enc) THEN ReadRanged(l, groups, torn)
  ELSE ReadWhole(l, sel, torn)
ReadSelected(l, sel, torn) ==
  ReadPlanned(l, sel, torn, PlanGroups(l, PlanExtents(l, sel)))
-----------------------------------------------------------------------------
(* Properties. *)

Selections(l) == SUBSET DOMAIN l.members \ {{}}

\* However frames, atoms and parts cut the stream, tar is fed exactly the selected members,
\* in order, and a damaged copy is told from them - unless nothing transforms the stream and
\* its part is read in slices or has no seal.  An intact archive is recovered, unless its
\* medium serves no ranges and that showed only after the first segment.
IsExact(l, sel, torn, res) ==
  IF res.outcome = "failed" THEN torn # 0 \/ (~l.capable /\ Len(l.parts) > 1)
  ELSE /\ res.fed = Selected(l, sel)
       /\ res.dirty => l.plain /\ (res.outcome = "ranged" \/ ~l.sealed)
RangedReadIsExact(l) ==
  \A sel \in Selections(l), torn \in {0} \cup DOMAIN l.parts :
    IsExact(l, sel, torn, ReadSelected(l, sel, torn))

\* Where the placement records the seals that ranged reads need, nb recover's forecast of the
\* read is what it fetches - at most that from a medium that serves no ranges.
IsSpent(l, res, forecast) ==
  l.sealed /\ res.outcome # "failed" =>
    IF l.capable THEN res.fetched = forecast ELSE res.fetched <= forecast
ForecastIsSpent(l) ==
  \A sel \in Selections(l) : IsSpent(l, ReadSelected(l, sel, 0), Forecast(l, sel))

\* A sample of an intact archive never reports damage, and as the counter goes round every
\* frame that starts a member within the budget is the one sampled.
SampleIsSound(l) ==
  \A rot \in Rotations :
    /\ Sample(l, rot) \in {"none", "ok"}
    /\ Samplable(l) =>
         \A k \in DOMAIN l.raw :
           rot % Len(l.raw) = k - 1 /\ InFrame(l, k) # {} /\ Affordable(l, k)
             => SampledFrame(l, rot) = k
=============================================================================
