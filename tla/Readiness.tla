------------------------------ MODULE Readiness ------------------------------
(***************************************************************************)
(* What nb check says of a configuration in the world it finds, and what a  *)
(* dump then meets: the same media, hosts, tools and sources, probed by two *)
(* pieces of code.                                                          *)
(*                                                                         *)
(* Translated from internal/engine/check.go, the strict preflight           *)
(* (internal/scheduler/validate.go), the start of a run (internal/conductor/ *)
(* run.go) and the archivers' cache (internal/engine/toolchain.go).  A      *)
(* world w has the media that open, the tools [host, program] that run, the *)
(* hosts in reach, the archivers [type, host] whose own check passes, the   *)
(* sources that can be read and the directories that can be made: the      *)
(* workdir and each host's state directory, named by its host.              *)
(***************************************************************************)
EXTENDS Settings, Chains

LOCAL INSTANCE SequencesExt

Server == "localhost"
Landing(c) == LandingNames(c)[1]

Program(block) == IF block.program # "" THEN block.program ELSE block.scheme
Runs(w, host, block) ==
  block.scheme = "none" \/ [host |-> host, program |-> Program(block)] \in w.tools

InReach(w, h) == RemoteHost(h) => h \in w.reach
ArchiverChecks(c, w, s) == [type |-> ArchiverOf(c, s.dumptype).type, host |-> s.host] \in w.archivers
-----------------------------------------------------------------------------
(* A dump: what stops it before it starts, and the sources it then archives *)

Up(c, w) == {s \in c.sources : InReach(w, s.host)}

PreflightFails(c, w) ==
  \/ ~Runs(w, Server, c.compress)
  \/ \E s \in Up(c, w) : ~ArchiverChecks(c, w, s) \/ ~Runs(w, Server, EncryptionFor(c, s.dumptype))

\* The primary must open even for a run that has somewhere else to land; a holding disk must
\* open; of a source's route one landing must.
Refused(c, w) ==
  \/ ~Built(c) \/ Landing(c) \notin w.opens
  \/ PreflightFails(c, w) \/ Up(c, w) = {}
  \/ ~(HoldingMedia(c) \subseteq w.opens)
  \/ \E s \in Up(c, w) : Range(LandingsFor(c, s.dumptype)) \cap w.opens = {}

StagesRun(c, w, s) ==
  /\ \A t \in Range(Fused(c, s.dumptype)) : Runs(w, s.host, t.stage)
  /\ \A t \in Range(Filters(c, s.dumptype)) : Runs(w, Server, t.stage)
Archives(c, w, s) ==
  /\ s \in w.ready /\ s.host \in w.dirs
  /\ StagesRun(c, w, s) /\ ~AtomsRefused(c, s.dumptype)

\* The sources a dump leaves on every landing of theirs.
Served(c, w) ==
  IF Refused(c, w) \/ "workdir" \notin w.dirs THEN {}
  ELSE {s \in Up(c, w) : Archives(c, w, s) /\ Range(LandingsFor(c, s.dumptype)) \subseteq w.opens}
-----------------------------------------------------------------------------
(* nb check: the lines it prints, each a failure or a warning about something *)

Line(grade, what, of) == [grade |-> grade, what |-> what, of |-> of]

CheckMedia(c, w) ==
  {Line("fail", "type", <<m>>) : m \in {n \in DOMAIN c.media : c.media[n].type \notin DOMAIN Ceiling}}
  \cup {Line("fail", "medium", <<m>>) : m \in {Landing(c)} \ w.opens}
  \cup {Line("warn", "unprobed", <<m>>) :
          m \in {n \in DOMAIN c.media \ {Landing(c)} : c.media[n].type = "cloud"}}
  \cup {Line("warn", "medium", <<m>>) :
          m \in {n \in DOMAIN c.media \ ({Landing(c)} \cup w.opens) : c.media[n].type # "cloud"}}

CheckAtomShapes(c) ==
  UNION {{Line("warn", "atoms", <<dt, m>>) :
            m \in {n \in DOMAIN c.media : Shape(c, dt) = "atomic" /\ OverCeiling(c, dt, n)}} :
         dt \in DOMAIN c.dumptypes}

\* Every scheme some source records is probed here, by the program of the default block.
CheckSchemes(c, w) ==
  LET schemes == {c.compress.scheme} \cup {CompressionFor(c, dt).scheme : dt \in DumpTypes(c)}
      block(scheme) == [c.compress EXCEPT !.scheme = scheme]
  IN {Line("fail", "compression", <<x>>) : x \in {y \in schemes : ~Runs(w, Server, block(y))}}
     \cup {Line("fail", "encryption", <<dt>>) :
             dt \in {t \in DumpTypes(c) : ~Runs(w, Server, EncryptionFor(c, t))}}

CheckClientTools(c, w, s) ==
  {Line("fail", "tool", <<s.host, b.scheme>>) :
     b \in {x \in {CompressionFor(c, s.dumptype), EncryptionFor(c, s.dumptype)} :
              x.at = "client" /\ ~Runs(w, s.host, x)}}

CheckSource(c, w, s) ==
  {Line("fail", "archiver", <<s.dumptype, s.host>>) : x \in IF ArchiverChecks(c, w, s) THEN {} ELSE {s}}
  \cup {Line("fail", "source", <<x.path>>) : x \in {s} \ w.ready}
  \cup {Line("fail", "state", <<h>>) : h \in {s.host} \ w.dirs}
  \cup CheckClientTools(c, w, s)

\* Offline, a remote host is not probed; out of reach, nothing more of it is.
CheckHost(c, w, h, connect) ==
  IF RemoteHost(h) /\ ~connect THEN {Line("warn", "unprobed", <<h>>)}
  ELSE IF ~InReach(w, h) THEN {Line("fail", "reach", <<h>>)}
  ELSE UNION {CheckSource(c, w, s) : s \in {x \in c.sources : x.host = h}}

Check(c, w, connect) ==
  CheckMedia(c, w) \cup CheckAtomShapes(c) \cup CheckSchemes(c, w)
  \cup (IF "workdir" \in w.dirs THEN {} ELSE {Line("fail", "workdir", <<>>)})
  \cup UNION {CheckHost(c, w, s.host, connect) : s \in c.sources}
Failures(lines) == {l \in lines : l.grade = "fail"}
-----------------------------------------------------------------------------
(* nb check of the catalog: held maps a configured or resolved DLE to its archives, as      *)
(* Chains has them, a run being the day it was made; labelled are the runs on tape alone.    *)

\* A wildcard source is known by what the latest run resolved it to.
ConfiguredDLEs(k) == {d \in DOMAIN k.held : d \in k.plain \/ d \in k.resolved}
StaleDLEs(k) ==
  {d \in ConfiguredDLEs(k) : k.now - Newest(DOMAIN k.held[d]) >= k.cycle \/ DOMAIN k.held[d] = {}}
CheckStaleness(k) ==
  {Line(IF DOMAIN k.held[d] = {} THEN "warn" ELSE "fail", "stale", <<d>>) : d \in StaleDLEs(k)}

StrandedOf(k, d) == Stranded(k.held[d], DOMAIN k.held[d])
CheckRestorability(k) ==
  UNION {{Line(IF r = Newest(DOMAIN k.held[d]) THEN "fail" ELSE "warn", "stranded", <<d, r>>) :
            r \in {q \in StrandedOf(k, d) :
                     q = Newest(DOMAIN k.held[d]) \/ q \notin k.labelled}} : d \in DOMAIN k.held}
-----------------------------------------------------------------------------
(* The archivers' cache: one map, keyed by the dumptype for a dump, by the recorded name   *)
(* for a restore, else by the type.                                                        *)

Opened(c, def, h) == [type |-> def.type, options |-> def.options, host |-> h]
Bare(type) == [type |-> type, options |-> {}]

\* What a request is to open, and under which key it looks first.
ForDump(c, q) == [key |-> <<q.dumptype, q.host>>, open |-> Opened(c, ArchiverOf(c, q.dumptype), q.host)]
ForRestore(c, q) ==
  LET types == {s.dumptype : s \in {x \in c.sources : x.path = q.path}}
      named == ResolveArchiver(c, q.name)
  IN IF q.name # "" /\ named.type = q.type
       THEN [key |-> <<q.name, q.host>>, open |-> Opened(c, named, q.host)]
     ELSE IF \E dt \in types : ArchiverOf(c, dt).type = q.type
       THEN LET dt == CHOOSE t \in types : ArchiverOf(c, t).type = q.type
            IN ForDump(c, [dumptype |-> dt, host |-> q.host])
     ELSE [key |-> <<"@", q.type, q.host>>, open |-> Opened(c, Bare(q.type), q.host)]
Wanted(c, q) == IF q.op = "dump" THEN ForDump(c, q) ELSE ForRestore(c, q)

\* The archivers a sequence of requests gets, each cached under its key.
OpenHostless(c, requests) ==   \* a mutant
  LET key(i) == Wanted(c, requests[i]).key[1]
      first(i) == CHOOSE j \in 1..i : key(j) = key(i) /\ \A k \in 1..(j - 1) : key(k) # key(i)
  IN [i \in DOMAIN requests |-> Wanted(c, requests[first(i)]).open]
OpenArchivers(c, requests) ==
  LET key(i) == Wanted(c, requests[i]).key
      first(i) == CHOOSE j \in 1..i : key(j) = key(i) /\ \A k \in 1..(j - 1) : key(k) # key(i)
  IN [i \in DOMAIN requests |-> Wanted(c, requests[first(i)]).open]
-----------------------------------------------------------------------------
(* Properties *)

\* A check that connects and has nothing to say against a configuration is right: the dump
\* that meets the same world archives every source to all of its landings.  Said of dumptypes
\* that name no compressor of their own, whose program the check does not look at, and that
\* are declared if their atoms are refused, since it looks at no others' atoms.
CheckIsHonest(i) ==
  LET c == i.config
      w == i.world
      lines == Check(c, w, TRUE) \ {Line("warn", "unprobed", <<m>>) : m \in w.opens}
      seen(dt) == /\ CompressionFor(c, dt).program = c.compress.program
                  /\ AtomsRefused(c, dt) => dt \in DOMAIN c.dumptypes
  IN Built(c) /\ lines = {} /\ (\A dt \in DumpTypes(c) : seen(dt)) => Served(c, w) = c.sources

\* A check that fails on nothing in the catalog leaves every DLE that was ever backed up
\* restorable to a state younger than a cycle.
OverdueIsLoud(k) ==
  Failures(CheckStaleness(k) \cup CheckRestorability(k)) = {} =>
    \A d \in ConfiguredDLEs(k) :
      LET held == DOMAIN k.held[d]
      IN held # {} => k.now - Newest(Restorable(k.held[d], held)) < k.cycle

\* A dumptype called like an archiver that is not its own, which some restore asks for: the
\* dumps of the one and the restores of the other share a key.
Misnamed(c, requests) ==
  {dt \in DOMAIN c.dumptypes :
     /\ ArchiverOf(c, dt) # ResolveArchiver(c, dt)
     /\ \E q \in Range(requests) : q.op = "restore" /\ q.name = dt}

\* Whatever was opened before, a dump gets its dumptype's archiver and a restore the one it asks
\* for, with its options; but under a misnamed dumptype's key either gets what the first of them
\* opened.  The host is the request's own always.
OpenedIsConfigured(i) ==
  LET c == i.config
      opened == OpenArchivers(c, i.requests)
      wanted(k) == Wanted(c, i.requests[k])
  IN \A k \in DOMAIN i.requests :
       /\ opened[k].host = i.requests[k].host
       /\ opened[k] = wanted(k).open \/ wanted(k).key[1] \in Misnamed(c, i.requests)
=============================================================================
