------------------------------ MODULE Selecting ------------------------------
(***************************************************************************)
(* Recovering chosen files out of a chain: the browse tree merged from the *)
(* chain's member lists, the grouping of a selection into one extraction   *)
(* per archive, and the assembly of files stored as block deltas.          *)
(* internal/recovery/tree.go, internal/restorer/selection.go and the       *)
(* assembler of internal/archiver/postgres/assemble.go.  RangedRead says how the        *)
(* members of one archive are read.                                        *)
(***************************************************************************)
EXTENDS Integers, Sequences, FiniteSets, SequencesExt, FiniteSetsExt, Functions

\* A history: asm, whether the archiver assembles, and fs, the file system at each level of a
\* chain.
CONSTANTS
  Ancestors,   \* [path -> its parent directories]
  Relations    \* the paths an assembling archiver stores as deltas

\* A file system maps the paths that exist to nodes.  A file is its blocks, each stamped with
\* the level that first saw it; low is the shortest it has been since the level before.
Node(d, bs, l) == [dir |-> d, blocks |-> bs, low |-> l]
Content(n) == [dir |-> n.dir, blocks |-> n.blocks]
Paths == DOMAIN Ancestors
Under(p) == {q \in Paths : q = p \/ p \in Ancestors[q]}
-----------------------------------------------------------------------------
(* What the archivers put into the level's archive.                        *)

Before(h, i) == IF i = 1 THEN <<>> ELSE h.fs[i - 1]
IsDelta(h, i, p) ==
  /\ h.asm /\ p \in Relations /\ p \in DOMAIN Before(h, i)
  /\ ~h.fs[i][p].dir /\ ~h.fs[i - 1][p].dir

\* GNU tar lists every directory and what changed; an assembling archiver every live file.
Members(h, i) ==
  {p \in DOMAIN h.fs[i] :
     \/ h.asm \/ h.fs[i][p].dir \/ p \notin DOMAIN Before(h, i)
     \/ Content(h.fs[i][p]) # Content(h.fs[i - 1][p])}

\* The delta of a file: its blocks past the shortest length, and those that changed below it.
Delta(h, i, p) ==
  LET new == h.fs[i][p].blocks
      old == h.fs[i - 1][p].blocks
      low == h.fs[i][p].low
  IN [truncTo |-> low, blocks |-> Restrict(new, {b \in DOMAIN new : b > low \/ new[b] # old[b]})]
-----------------------------------------------------------------------------
(* The browse tree of the chain up to tip.                                 *)

\* insert: a whole version starts the list again, a delta continues it.
Versions(h, tip, p) ==
  LET held == SelectSeq([i \in 1..tip |-> i], LAMBDA i : p \in Members(h, i))
      whole == SelectSeq(held, LAMBDA i : ~IsDelta(h, i, p))
  IN IF whole = <<>> THEN held ELSE SelectSeq(held, LAMBDA i : i >= Last(whole))

Source(h, tip, p) == Last(Versions(h, tip, p))
NeedsAssembly(h, tip, p) == IsDelta(h, Source(h, tip, p), p)

\* buildTree: the union of the levels, or, where every level is a census, the newest one's.
Tree(h, tip) == IF h.asm THEN Members(h, tip) ELSE UNION {Members(h, i) : i \in 1..tip}

Gathered(h, tip, paths) == UNION {Under(p) \cap Tree(h, tip) : p \in paths}
ToAssemble(h, tip, paths) == {p \in Gathered(h, tip, paths) : NeedsAssembly(h, tip, p)}
Chosen(h, tip, paths) ==
  LET all == Gathered(h, tip, paths)
      parents == UNION {Ancestors[p] : p \in all} \cap Tree(h, tip)
  IN {p \in all \cup parents : ~NeedsAssembly(h, tip, p)}

\* Collect: the members to pull from each level's archive.
StepMembers(h, tip, paths, i) == {p \in Chosen(h, tip, paths) : Source(h, tip, p) = i}
StepLevels(h, tip, paths) == {Source(h, tip, p) : p \in Chosen(h, tip, paths)}

\* The archives extractAssemblies reads.
VersionLevels(h, tip, paths) ==
  UNION {ToSet(Versions(h, tip, p)) : p \in ToAssemble(h, tip, paths)}
-----------------------------------------------------------------------------
(* Assemble: applyDelta over the versions, oldest first.                   *)

ApplyDelta(base, d) ==
  LET len == Max({d.truncTo} \cup DOMAIN d.blocks)
      keep == Min({Len(base), d.truncTo})
  IN [b \in 1..len |-> IF b \in DOMAIN d.blocks THEN d.blocks[b]
                       ELSE IF b <= keep THEN base[b] ELSE 0]

Assemble(h, p, versions) ==
  FoldLeft(LAMBDA content, i : IF IsDelta(h, i, p) THEN ApplyDelta(content, Delta(h, i, p))
                               ELSE h.fs[i][p].blocks,
           <<>>, versions)
-----------------------------------------------------------------------------
(* ExtractSelection, when the levels in lost have no copy left.            *)

\* Members land on what an earlier archive landed.
Landed(fs, new) ==
  [p \in DOMAIN fs \cup DOMAIN new |-> IF p \in DOMAIN new THEN new[p] ELSE fs[p]]

\* tar needs a directory where a file is, or finds one that is not empty in a file's place.
Conflict(fs) ==
  \E p \in DOMAIN fs : \E q \in Ancestors[p] \cap DOMAIN fs : ~fs[q].dir

\* One archive: it is skipped when only directories are wanted of it.
ExtractStep(h, res, i, members) ==
  LET landed == Landed(res.landed, [p \in members |-> Content(h.fs[i][p])])
  IN IF res.failed \/ \A p \in members : h.fs[i][p].dir THEN res
     ELSE IF Conflict(landed) THEN [res EXCEPT !.failed = TRUE]
     ELSE [res EXCEPT !.landed = landed]

\* OpenArchives: those of one chain are read in level order; an archive no copy is left of is
\* put aside, and is the error once the others have landed.
ExtractSteps(h, tip, sel, lost) ==
  LET res == FoldLeft(LAMBDA r, i : ExtractStep(h, r, i, StepMembers(h, tip, sel, i)),
                      [landed |-> <<>>, failed |-> FALSE],
                      SetToSortSeq(StepLevels(h, tip, sel) \ lost, <))
  IN [res EXCEPT !.failed = @ \/ StepLevels(h, tip, sel) \cap lost # {}]

\* extractAssemblies: every version into scratch, then each file built and written.
ExtractAssemblies(h, tip, sel, lost, res) ==
  LET files == ToAssemble(h, tip, sel)
      landed == Landed(res.landed,
        [p \in files |-> [dir |-> FALSE, blocks |-> Assemble(h, p, Versions(h, tip, p))]])
  IN IF \/ VersionLevels(h, tip, sel) \cap lost # {}
        \/ \E p \in files : IsDelta(h, Head(Versions(h, tip, p)), p)
        \/ Conflict(landed)
     THEN [res EXCEPT !.failed = TRUE]
     ELSE [res EXCEPT !.landed = landed]

ExtractSelection(h, tip, sel, lost) ==
  LET res == ExtractSteps(h, tip, sel, lost)
  IN IF res.failed \/ ToAssemble(h, tip, sel) = {} THEN res
     ELSE ExtractAssemblies(h, tip, sel, lost, res)
-----------------------------------------------------------------------------
(* Properties. *)

FilesAt(fs) == {p \in DOMAIN fs : ~fs[p].dir}

\* A recovery that ends well has landed every selected file that the DLE held at the date
\* browsed, with the content it had; what else it landed are files deleted since the level
\* that last archived them, in their last state - and never where the archiver's lists are a
\* census of what was alive.  It fails only for a copy that is gone or a path that changed
\* between file and directory.
RecoveredIsSelection(h) ==
  \A tip \in 1..Len(h.fs), lost \in {{}} \cup {{i} : i \in 1..Len(h.fs)} :
    \A sel \in SUBSET Tree(h, tip) \ {{}} :
      LET res == ExtractSelection(h, tip, sel, lost)
          then == h.fs[tip]
          wanted == UNION {Under(p) : p \in sel}
      IN IF res.failed
         THEN \/ lost # {}
              \/ \E p \in Paths, i, j \in 1..tip :
                   p \in FilesAt(h.fs[i]) /\ p \in DOMAIN h.fs[j] \ FilesAt(h.fs[j])
         ELSE /\ \A p \in wanted \cap FilesAt(then) :
                   p \in DOMAIN res.landed /\ res.landed[p] = Content(then[p])
              /\ \A p \in FilesAt(res.landed) :
                   \/ p \in FilesAt(then) /\ res.landed[p] = Content(then[p])
                   \/ /\ ~h.asm /\ p \notin DOMAIN then
                      /\ LET last == Max({i \in 1..tip : p \in DOMAIN h.fs[i]})
                         IN res.landed[p] = Content(h.fs[last][p])
=============================================================================
