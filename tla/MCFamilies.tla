----------------------------- MODULE MCFamilies -----------------------------
(***************************************************************************)
(* The inputs Calculations is checked on, in families of one kind each.    *)
(***************************************************************************)
EXTENDS Integers, Sequences, FiniteSets, SequencesExt, FiniteSetsExt

CONSTANTS
  Size, MaxEnc,     \* raw positions of an archive, and the most a frame encodes to
  ChainDepth, MaxBlocks, \* levels of a chain, and blocks of a relation file
  Cycle,            \* days of a dump cycle
  Horizon,          \* days of a forecast
  Reel              \* bytes of a reel
-----------------------------------------------------------------------------
(* Layouts: raw streams of Size positions cut into members, frames or atoms and parts. *)

Cuts == {SetToSortSeq({0} \cup s, <) : s \in SUBSET (1..(Size - 1))}
Strides == {[i \in 1..((Size + s - 1) \div s) |-> (i - 1) * s] : s \in 1..Size}
Sizes(n) == [1..n -> 1..MaxEnc]
Total(sizes) == FoldLeft(+, 0, sizes)
Starts(sizes) == [i \in DOMAIN sizes |-> Total(SubSeq(sizes, 1, i - 1))]
PartsOf(total, p) ==
  [k \in 1..((total + p - 1) \div p) |-> IF k * p <= total THEN p ELSE total - (k - 1) * p]

Base == [size |-> Size, members |-> <<0>>, located |-> TRUE, shape |-> "stream", plain |-> TRUE,
         encrypted |-> FALSE, raw |-> <<>>, enc |-> <<>>, encSize |-> Size,
         parts |-> <<Size>>, sealed |-> TRUE, capable |-> TRUE]
Framed(l, r, e) ==
  [l EXCEPT !.plain = FALSE, !.raw = r, !.enc = Starts(e), !.encSize = Total(e)]

PlainLayouts(m) ==
  {[Base EXCEPT !.members = m, !.parts = PartsOf(Size, p), !.sealed = s, !.capable = c,
                !.located = o] :
     p \in {1, 3, Size}, s \in BOOLEAN, c \in BOOLEAN, o \in BOOLEAN}
FramedLayouts(m) ==
  UNION {{[Framed(Base, r, e) EXCEPT !.members = m, !.shape = "framed", !.sealed = s,
                                     !.capable = c, !.parts = PartsOf(Total(e), p)] :
            e \in Sizes(Len(r)), p \in {2, 3}, s \in BOOLEAN, c \in BOOLEAN} : r \in Strides}
AtomicLayouts(m) ==
  UNION {{[Framed(Base, r, e) EXCEPT !.members = m, !.shape = "atomic", !.encrypted = TRUE,
                                     !.sealed = s, !.parts = e] :
            e \in Sizes(Len(r)), s \in BOOLEAN} : r \in Cuts}
LayoutFamilies ==
  {[kind |-> "layout", of |-> PlainLayouts(m) \cup FramedLayouts(m) \cup AtomicLayouts(m)] :
     m \in Cuts}
-----------------------------------------------------------------------------
(* Histories: chains of ChainDepth levels of a file a, and of d with a file x in it. *)

MCAncestors == [a |-> {}, d |-> {}, x |-> {"d"}]
Node(d, bs, l) == [dir |-> d, blocks |-> bs, low |-> l]
Directory == Node(TRUE, <<>>, 0)
Blocks(p, before) == IF p \in DOMAIN before THEN before[p].blocks ELSE <<>>

\* One block, as it was or new; anything may become a file or go, d may be a directory.
Plain(i, p, before) ==
  {Node(FALSE, bs, 0) : bs \in {<<i>>, Blocks(p, before)} \ {<<>>}}
    \cup (IF p = "d" THEN {Directory} ELSE {})

\* A relation: cut down to low since the level before, then grown and changed at will.
Relation(i, old) ==
  UNION {UNION {{Node(FALSE, bs, low) :
     bs \in {s \in [1..n -> {i} \cup ToSet(old)] :
               \A b \in 1..n : s[b] = i \/ (b <= low /\ s[b] = old[b])}}
         : n \in low..MaxBlocks} : low \in 0..Len(old)}

Nodes(asm, i, p, before) ==
  IF ~asm THEN Plain(i, p, before)
  ELSE IF p = "d" THEN {Directory}
  ELSE IF p = "x" THEN Relation(i, Blocks(p, before))
  ELSE {Node(FALSE, <<i>>, 0)}

NextFS(asm, i, before) ==
  UNION {{f \in [s -> UNION {Nodes(asm, i, p, before) : p \in s}] :
            /\ \A p \in s : f[p] \in Nodes(asm, i, p, before)
            /\ "x" \in s => f["d"].dir} :
         s \in {t \in SUBSET {"a", "d", "x"} : "x" \in t => "d" \in t}}
ChainsFrom(asm, full) ==
  LET c[i \in 1..ChainDepth] ==
        IF i = 1 THEN {<<full>>}
        ELSE UNION {{Append(h, fs) : fs \in NextFS(asm, i, Last(h))} : h \in c[i - 1]}
  IN c[ChainDepth]
HistoryFamilies ==
  UNION {{[kind |-> "history", of |-> {[asm |-> b, fs |-> c] : c \in ChainsFrom(b, full)}] :
            full \in NextFS(b, 1, <<>>)} : b \in BOOLEAN}
-----------------------------------------------------------------------------
(* Schedules: three DLEs, each somewhere in its cycle or new, equal or a large one among  *)
(* small ones; with room for all, or for one full among climbed incrementals.             *)

DLEStates ==
  {[age |-> -1, level |-> -1, sat |-> 0]} \cup {[age |-> a, level |-> 1, sat |-> 1] : a \in 0..Cycle}
Sized(fulls) == [d \in DOMAIN fulls |-> [full |-> fulls[d], incr |-> 2, next |-> 1]]
ScheduleFamilies ==
  {[kind |-> "schedule",
    of |-> {[cycle |-> Cycle, zone |-> z, bump |-> 20, states |-> s, sizes |-> Sized(f),
             room |-> r, forced |-> IF r < 0 THEN {} ELSE {1}] :
              s \in [1..3 -> DLEStates], r \in {-1, 9}}] :
     z \in {0, 2}, f \in {<<3, 3, 3>>, <<3, 4, 7>>}}
-----------------------------------------------------------------------------
(* Sources over /p and /p-a: one night under an exclude of each kind; three nights of      *)
(* children that come and go, listings that fail and units that do.                         *)

MCHyphenated == [p |-> <<"p">>, a |-> <<"a">>, b |-> <<"b">>, pa |-> <<"p", "a">>]
Source(path, partition) == [path |-> path, partition |-> partition]
Children == {<<"p", "a">>, <<"p", "b">>, <<"p", "a", "a">>, <<"p", "a", "b">>, <<"p", "b", "b">>}
Trees == {t \cup {<<"p">>, <<"pa">>} :
            t \in {c \in SUBSET Children : \A d \in c : Len(d) = 3 => Front(d) \in c}}
Partitions == {<<Source(<<"p">>, q)>> : q \in {<<"*">>, <<"a">>, <<"*", "*">>, <<"*", "b">>}}
NoExclude == [anchored |-> {}, floating |-> {}]
Excludes == {[NoExclude EXCEPT !.anchored = as, !.floating = fs] :
               as \in {{}, {<<"a">>}, {<<"*">>}, {<<"a", "b">>}, {<<"*", "b">>}},
               fs \in {{}, {<<"a">>}, {<<"b">>}}}
Night(t, un, f) == [tree |-> t, unlisted |-> un, failing |-> f]
Nights(sources) ==
  {Night(t \cup {<<"p">>, <<"pa">>}, un, f) :
     t \in {{<<"p", "b">>}, {<<"p", "a">>, <<"p", "b">>}}, un \in {{}, {1}, DOMAIN sources},
     f \in {{}, {<<"p", "b">>, <<"p">>}}}
SourceFamilies ==
  {[kind |-> "sources",
    of |-> {[sources |-> s, excl |-> e, nights |-> <<Night(t, {}, {})>>] :
              e \in Excludes, t \in Trees}] : s \in Partitions}
  \cup
  {[kind |-> "sources",
    of |-> {[sources |-> s, excl |-> NoExclude, nights |-> ns] : ns \in [1..3 -> Nights(s)]}] :
     s \in {<<Source(<<"p">>, <<"*">>)>>,
            <<Source(<<"p", "*">>, <<>>), Source(<<"pa">>, <<>>)>>}}
-----------------------------------------------------------------------------
(* Forecasts of two DLEs over Horizon days, on their landing L and on a sync target T. *)

Estimate == [d \in 1..2 |-> [l \in 0..2 |-> IF l = 0 THEN 2 + d ELSE 2 - d]]
\* A DLE's levels: a full first if none is held, and no level without the one below it.
Levels(h) ==
  {s \in [1..Horizon -> 0..2] : /\ s[1] = 0 \/ (h # {} /\ s[1] = 1)
                                /\ \A i \in 2..Horizon : s[i] <= s[i - 1] + 1}
Plans(s) == [i \in 1..Horizon |-> [d \in 1..2 |-> [dle |-> d, level |-> s[d][i], est |-> Estimate[d][s[d][i]]]]]
Archive(r, d, l) == [run |-> r, dle |-> d, level |-> l, bytes |-> Estimate[d][l]]
Helds == {{},
          {Archive(1, 1, 0), Archive(1, 2, 0), Archive(2, 1, 1), Archive(2, 2, 0)}}
ForecastFamilies ==
  {[kind |-> "forecast",
    of |-> {[media |-> {"L", "T"}, landing |-> {"L"}, route |-> [d \in 1..2 |-> {"L"}],
             sync |-> IF last < 0 THEN {} ELSE {[from |-> "auto", to |-> "T", last |-> last]},
             medium |-> IF last < 0 THEN "L" ELSE "T",
             capacity |-> c, minAge |-> a, held |-> h, start |-> 3, plans |-> Plans(<<s, t>>)] :
              c \in {6, 8}, a \in {0, 2}, last \in {-1, 2}, s \in Levels(h), t \in Levels(h)}] :
     h \in Helds}

\* The same on tape: reels of Reel bytes, with what is held written on the first.
Used(h) == <<[remaining |-> Reel - FoldSet(LAMBDA a, b : a.bytes + b, 0, h), runs |-> {a.run : a \in h}]>>
RotationFamilies ==
  {[kind |-> "rotation",
    of |-> {[media |-> {"L"}, landing |-> {"L"}, route |-> [d \in 1..2 |-> {"L"}], sync |-> {}, medium |-> "L",
             capacity |-> 0, minAge |-> a, held |-> h, start |-> 3, plans |-> Plans(<<s, t>>),
             usable |-> Reel, volumes |-> v, appendable |-> ap, reels |-> Used(h)] :
              a \in {0, 2}, ap \in BOOLEAN, v \in 2..4, s \in Levels(h), t \in Levels(h)}] :
     h \in Helds \ {{}}}
-----------------------------------------------------------------------------
(* Meters: up to four reports of two writers, some ticks apart. *)

Reports(gaps) ==
  {[gap |-> g, op |-> o, dle |-> d] : g \in gaps, o \in {"begin", "end"}, d \in 1..2}
    \cup {[gap |-> g, op |-> "bytes", dle |-> 1] : g \in gaps}
MeterFamilies ==
  {[kind |-> "meters", of |-> {<<e>> \o r : r \in [1..n -> Reports({0, 1, 3})]}] :
     e \in Reports({1}), n \in 0..2}
  \cup {[kind |-> "meters", of |-> [1..4 -> Reports({1})]],
        [kind |-> "meters", of |-> [1..4 -> {[gap |-> g, op |-> "bytes", dle |-> 1] : g \in {0, 1, 3, 5}}]]}
-----------------------------------------------------------------------------
(* Settings: routes of two dumptypes over three media; pipelines of a remote source.       *)

MCAccepted == [gnutar |-> {"sparse"}, pipe |-> {"command"}]
MCCeiling == [disk |-> 0, tape |-> 0, cloud |-> 5]
Block(scheme, at) == [scheme |-> scheme, program |-> "", at |-> at]
Inherited == [scheme |-> "inherited", program |-> "", at |-> ""]
Medium(type, holding) == [type |-> type, holding |-> holding, minAge |-> 0, writers |-> 0]
DT(landing, compress, encrypt) ==
  [landing |-> landing, compress |-> compress, encrypt |-> encrypt, archiver |-> "", atom |-> 0]
Config(media, landing, compress, encrypt, dumptypes, sources) ==
  [media |-> media, landing |-> landing, compress |-> compress, encrypt |-> encrypt,
   dumptypes |-> dumptypes, archivers |-> <<>>, sources |-> sources, sync |-> {},
   drillFrom |-> "", cycle |-> 7, atom |-> 9]
Src(host, path, dt) == [host |-> host, path |-> path, dumptype |-> dt]
BothHosts == {Src("localhost", "/a", "default"), Src("client", "/b", "x")}

RouteLists == UNION {[1..n -> {"a", "b", "h"}] : n \in 0..2}
RouteFamilies ==
  {[kind |-> "settings",
    of |-> {Config([m \in ms |-> Medium(t[m], m \in hs)], l, Block("zstd", ""), Block("none", ""),
                   [x |-> DT(own, Inherited, Inherited)], BothHosts) :
              t \in [ms -> {"disk", "tape"}], hs \in SUBSET ms, l \in RouteLists, own \in RouteLists}] :
     ms \in (SUBSET {"a", "b", "h"}) \ {{}}}

Placements == {"", "client", "server"}
Compressions == {Block(s, at) : s \in {"zstd", "none"}, at \in Placements}
Encryptions == {Block(s, at) : s \in {"gpg", "none"}, at \in Placements}
PipelineFamilies ==
  {[kind |-> "settings",
    of |-> {[Config([a |-> Medium(t, FALSE), b |-> Medium("disk", FALSE)], <<"a">>, k, e,
                    [x |-> [DT(own, k2, e2) EXCEPT !.atom = atom]], BothHosts) EXCEPT !.atom = 3] :
              e \in Encryptions, k2 \in Compressions \cup {Inherited},
              e2 \in Encryptions \cup {Inherited}, t \in {"disk", "cloud"},
              own \in {<<>>, <<"b", "a">>}, atom \in {0, 9}}] : k \in Compressions}
-----------------------------------------------------------------------------
(* Worlds: all a dump of the two sources needs, less at most two things.                  *)

Tools(hosts) == {[host |-> h, program |-> p] : h \in hosts, p \in {"zstd", "gzip", "gpg"}}
Whole(c) ==
  [opens |-> DOMAIN c.media, tools |-> Tools({"localhost", "client"}), reach |-> {"client"},
   archivers |-> {[type |-> "gnutar", host |-> h] : h \in {"localhost", "client"}},
   ready |-> c.sources, dirs |-> {"localhost", "client", "workdir"}]
Lessened(w) == {w} \cup UNION {{[w EXCEPT ![f] = @ \ {x}] : x \in w[f]} : f \in DOMAIN w}
WorldConfigs ==
  {Config([a |-> Medium("tape", FALSE), b |-> Medium(t, FALSE), h |-> Medium("disk", dts = {"x"})],
          r[1], Block("zstd", ""), e, [dt \in dts |-> IF dt = "x" THEN DT(r[2], k2, e2) ELSE DT(<<>>, Inherited, Inherited)],
          BothHosts) :
     t \in {"disk", "cloud"}, dts \in {{"x"}, {"x", "default"}},
     r \in {<<<<"a">>, <<"b">>>>, <<<<"a", "b">>, <<>>>>}, e \in {Block("none", ""), Block("gpg", "")}, k2 \in {Inherited, Block("gzip", ""), Block("gzip", "client"), Block("none", "client")},
     e2 \in {Inherited, Block("gpg", "client"), Block("none", "")}}
WorldFamilies ==
  {[kind |-> "world",
    of |-> {[config |-> c, world |-> w] : w \in UNION {Lessened(v) : v \in Lessened(Whole(c))}}] :
     c \in WorldConfigs}
-----------------------------------------------------------------------------
(* Catalogs of a plain source and of a wildcard's child, three days' archives of one.       *)

Archived == [level : 0..2, base : 0..2]
Held == UNION {{h \in [days -> Archived] :
                  \A r \in days : /\ h[r].level = 0 => h[r].base = 0
                                   /\ h[r].base < r} : days \in SUBSET (1..3)}
CatalogFamilies ==
  {[kind |-> "catalog",
    of |-> {[held |-> [d \in {"d", "w"} |-> IF d = "d" THEN h ELSE <<[level |-> 0, base |-> 0]>>],
             plain |-> {"d"}, resolved |-> res, labelled |-> lab, now |-> n, cycle |-> 2] :
              h \in Held, lab \in {{}, {1}, {1, 2, 3}}, n \in 3..4}] : res \in SUBSET {"w"}}
-----------------------------------------------------------------------------
(* Requests to the archivers' cache; in Colliding, a dumptype is called like an archiver.   *)

Archivers == [p |-> [type |-> "pipe", options |-> {"command"}], q |-> [type |-> "gnutar", options |-> {"sparse"}]]
Requests(c, names) ==
  {[op |-> "dump", dumptype |-> dt, host |-> h] : dt \in DOMAIN c.dumptypes, h \in {"localhost", "client"}}
    \cup {[op |-> "restore", type |-> t, name |-> n, path |-> "/b", host |-> "client"] :
            t \in {"gnutar", "pipe"}, n \in names \cup {""}}
CacheConfig(refs) ==
  [Config([a |-> Medium("disk", FALSE)], <<"a">>, Block("none", ""), Block("none", ""),
          [dt \in DOMAIN refs |-> [DT(<<>>, Inherited, Inherited) EXCEPT !.archiver = refs[dt]]],
          {Src("client", "/b", CHOOSE dt \in DOMAIN refs : TRUE)}) EXCEPT !.archivers = Archivers]
CachesOf(dts) ==
  {[kind |-> "requests",
    of |-> {[config |-> CacheConfig(refs), requests |-> rs] :
              rs \in [1..3 -> Requests(CacheConfig(refs), {"p", "q"})]}] : refs \in [dts -> {"", "p", "q"}]}
Colliding == CachesOf({"p", "x"})
CacheFamilies == CachesOf({"x", "y"}) \cup Colliding
-----------------------------------------------------------------------------
AllFamilies ==
  LayoutFamilies \cup HistoryFamilies \cup ScheduleFamilies \cup SourceFamilies
  \cup ForecastFamilies \cup RotationFamilies \cup MeterFamilies
  \cup RouteFamilies \cup PipelineFamilies \cup WorldFamilies \cup CatalogFamilies
  \cup CacheFamilies
=============================================================================
