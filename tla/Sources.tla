------------------------------- MODULE Sources -------------------------------
(***************************************************************************)
(* From the configured sources to the DLEs of a night: a plain directory,  *)
(* a selection by wildcard or a partition with its remainder, expanded     *)
(* over what is on disk; and the record of what each night resolved, which *)
(* keeps owing the units of a source that cannot be listed.                *)
(*                                                                         *)
(* internal/archiver/gnutar/gnutar.go Expand,                              *)
(* internal/scheduler/resolve.go, internal/engine/conduct.go and           *)
(* internal/config/{validate,entities}.go.  A path is a sequence of names, *)
(* a wildcard is "*"; a name is a letter, or two joined by a hyphen.       *)
(*                                                                         *)
(* An input has the sources, the excludes of their dumptype and the        *)
(* nights: the directories on disk, the sources that cannot be listed and  *)
(* the units that fail before they are dumped.                             *)
(***************************************************************************)
EXTENDS Integers, Sequences, FiniteSets, SequencesExt

CONSTANT Hyphenated   \* name -> the letters that its slug shows

Star == "*"
HasGlob(path) == \E i \in DOMAIN path : path[i] = Star
\* path.Match, segment by segment.
Matches(pattern, path) ==
  /\ Len(pattern) = Len(path)
  /\ \A i \in DOMAIN path : pattern[i] \in {Star, path[i]}
Under(path, base) == IsPrefix(base, path)
Relative(path, base) == SubSeq(path, Len(base) + 1, Len(path))

\* A source [path, partition], with no names in its partition if it has none.
Plain(s) == s.partition = <<>> /\ ~HasGlob(s.path)
Partitioned(s) == s.partition # <<>>

ValidatePartition(s) == Partitioned(s) => s.path # <<>> /\ ~HasGlob(s.path)
ValidateNoDuplicateBase(sources) ==
  \A i, j \in DOMAIN sources :
    i # j /\ sources[i].path = sources[j].path => ~Partitioned(sources[i])
Valid(x) ==
  /\ \A i \in DOMAIN x.sources : ValidatePartition(x.sources[i])
  /\ ValidateNoDuplicateBase(x.sources)
-----------------------------------------------------------------------------
(* Expand: a scope is a directory to archive and the patterns to leave out of it, those   *)
(* anchored at it and those that float.                                                    *)

SplitLiteralPrefix(path) ==
  LET first == CHOOSE i \in DOMAIN path :
                 path[i] = Star /\ \A j \in 1..(i - 1) : path[j] # Star
  IN SubSeq(path, 1, first - 1)

Root(s) == IF Partitioned(s) THEN s.path ELSE SplitLiteralPrefix(s.path)
Pattern(s) == IF Partitioned(s) THEN s.partition ELSE Relative(s.path, Root(s))

FindDirs(s, tree) ==
  {d \in tree : Under(d, Root(s)) /\ Matches(Pattern(s), Relative(d, Root(s)))}

Whole(s, excl) == [base |-> <<>>, source |-> s.path, anchored |-> excl.anchored, floating |-> excl.floating]

\* The match that owns an anchored exclude: what it names is the match or below it.
Owns(rel, a) == Under(a, rel)

Suppressed(rel, excl) == rel \in excl.anchored
MatchScope(s, m, excl) ==
  LET rel == Relative(m, Root(s))
  IN [base |-> Root(s), source |-> m, floating |-> excl.floating,
      anchored |-> IF Partitioned(s) THEN {Relative(a, rel) : a \in {e \in excl.anchored : Owns(rel, e)}}
                   ELSE excl.anchored]
Rest(s, matches, excl) ==
  LET rels == {Relative(m, Root(s)) : m \in matches}
  IN [base |-> s.path, source |-> s.path, floating |-> excl.floating,
      anchored |-> {a \in excl.anchored : \A rel \in rels : ~Owns(rel, a)} \cup rels]

Expand(s, tree, excl) ==
  LET matches == FindDirs(s, tree)
  IN IF Plain(s) THEN {Whole(s, excl)}
     ELSE IF ~Partitioned(s) THEN {MatchScope(s, m, excl) : m \in matches}
     ELSE {MatchScope(s, m, excl) : m \in {k \in matches : ~Suppressed(Relative(k, Root(s)), excl)}}
            \cup {Rest(s, matches, excl)}

IsRest(scope) == scope.base # <<>> /\ scope.source = scope.base
-----------------------------------------------------------------------------
(* Resolve. *)

\* Slug joins the names by hyphens.
Slug(path) == FlattenSeq([i \in DOMAIN path |-> Hyphenated[path[i]]])

\* The units that a night's listings give, each [slug, scope, origin].
Units(x, night) ==
  UNION {{[slug |-> Slug(sc.source), scope |-> sc, origin |-> x.sources[i].path] :
            sc \in Expand(x.sources[i], night.tree, x.excl)} :
         i \in DOMAIN x.sources \ night.unlisted}
\* Two units of one slug are one chain: the whole resolution fails.
Collide(units) == \E u, v \in units : u # v /\ u.slug = v.slug
-----------------------------------------------------------------------------
(* RecordResolved, night after night. *)

CarryByOrigin(prev, failed) == {r \in prev : r.origin \in failed}

Record(u) == [slug |-> u.slug, origin |-> u.origin]
Recorded(x, prev, night) ==
  LET units == Units(x, night)
      resolved == {Record(u) : u \in units}
  IN IF Collide(units) THEN prev                                  \* the plan fails
     ELSE IF {u \in units : u.slug \notin night.failing} = {} THEN prev   \* nothing to dump
     ELSE resolved \cup
          {r \in CarryByOrigin(prev, {x.sources[i].path : i \in night.unlisted}) :
             \A q \in resolved : q.slug # r.slug}

\* The resolved set after each night, from 0 on.
ResolvedSets(x) ==
  LET after[n \in 0..Len(x.nights)] ==
        IF n = 0 THEN <<{}>>
        ELSE LET before == after[n - 1]
             IN Append(before, Recorded(x, before[n], x.nights[n]))
  IN after[Len(x.nights)]

\* StaleConfiguredDLEs: the slugs that are judged stale or owed.
ConfigSlugs(x) ==
  {Slug(x.sources[i].path) : i \in {j \in DOMAIN x.sources : ~HasGlob(x.sources[j].path)}}
Judged(x, resolved) == ConfigSlugs(x) \cup {r.slug : r \in resolved}
-----------------------------------------------------------------------------
(* tar's excludes: an anchored pattern matches from the scope's root, a floating one from *)
(* any directory in it; what is below an excluded directory goes with it.                  *)

ExcludedIn(scope, d) ==
  LET rel == Relative(d, scope.source)
  IN \E n \in 1..Len(rel) :
       \/ \E a \in scope.anchored : Matches(a, SubSeq(rel, 1, n))
       \/ \E f \in scope.floating : \E m \in 1..n : Matches(f, SubSeq(rel, m, n))
\* The directories whose files an archive of the scope holds.
BytesOf(scope, tree) ==
  {d \in tree : Under(d, scope.source) /\ ~ExcludedIn(scope, d)}
-----------------------------------------------------------------------------
(* Properties. *)

\* An exclude that takes in a whole match without naming it: it floats, it is a wildcard,
\* or it names a directory above the match.  A DLE that starts at the match is not touched.
TakesInMatch(s, m, excl) ==
  /\ ExcludedIn(Whole(s, excl), m)
  /\ Relative(m, s.path) \notin excl.anchored
\* The same of an anchored wildcard that reaches below a match.
ReachesIn(s, m, excl) ==
  \E a \in excl.anchored : HasGlob(a) /\ Len(a) > Len(Relative(m, s.path))

\* A partition neither loses nor doubles a byte of its source, and resurrects none that is
\* excluded from it but in such matches.
PartitionKeepsBytes(s, tree, excl) ==
  LET scopes == Expand(s, tree, excl)
      whole == BytesOf(Whole(s, excl), tree)
  IN /\ \A c, d \in scopes : c # d => BytesOf(c, tree) \cap BytesOf(d, tree) = {}
     /\ whole \subseteq UNION {BytesOf(c, tree) : c \in scopes}
     /\ \A c \in scopes :
          \/ BytesOf(c, tree) \subseteq whole
          \/ ~IsRest(c) /\ (TakesInMatch(s, c.source, excl) \/ ReachesIn(s, c.source, excl))

\* A unit that its source gave when it was last listed stays owed until a listing does
\* without it, through any outage.
LastListed(x, i, n) ==
  LET counted == {k \in 1..n : /\ i \notin x.nights[k].unlisted
                               /\ ~Collide(Units(x, x.nights[k]))
                               /\ \E u \in Units(x, x.nights[k]) : u.slug \notin x.nights[k].failing}
  IN IF counted = {} THEN {}
     ELSE LET k == CHOOSE k \in counted : \A j \in counted : j <= k
          IN {u \in Units(x, x.nights[k]) : u.origin = x.sources[i].path}
IntentOutlivesOutage(x) ==
  LET sets == ResolvedSets(x)
  IN \A n \in 1..Len(x.nights) : \A i \in DOMAIN x.sources :
       \A u \in LastListed(x, i, n) : u.slug \in Judged(x, sets[n + 1])

SourcesAreKept(x) ==
  Valid(x) =>
    /\ \A i \in DOMAIN x.sources : \A n \in DOMAIN x.nights :
         Partitioned(x.sources[i]) => PartitionKeepsBytes(x.sources[i], x.nights[n].tree, x.excl)
    /\ IntentOutlivesOutage(x)
=============================================================================
