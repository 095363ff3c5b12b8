------------------------------ MODULE Settings ------------------------------
(***************************************************************************)
(* What a configuration is accepted for, and what it resolves to: where    *)
(* each source lands, where its pipeline runs, in which shape it is stored. *)
(*                                                                         *)
(* Translated from internal/config, the assembly of the engine             *)
(* (internal/engine/engine.go, toolchain.go) and the shape and placement of *)
(* a dump's pipeline (internal/dumper/encode.go, internal/xfer/split.go).   *)
(* A configuration c has media [type, holding, minAge, writers], a landing  *)
(* route, compress and encrypt blocks [scheme, program, at], dumptypes      *)
(* [landing, compress, encrypt, archiver, atom], archivers [type, options], *)
(* sources [host, path, dumptype], sync rules and a drill.                  *)
(***************************************************************************)
EXTENDS Integers, Sequences, FiniteSets

LOCAL INSTANCE Functions

CONSTANTS
  Accepted,    \* archiver type -> the option keys it takes
  Ceiling      \* medium type -> the most its parts may hold, 0 for no bound
-----------------------------------------------------------------------------
(* Resolution *)

Concurrent == {"disk", "cloud"}
Inherited == [scheme |-> "inherited", program |-> "", at |-> ""]
Undeclared ==
  [landing |-> <<>>, compress |-> Inherited, encrypt |-> Inherited, archiver |-> "", atom |-> 0]

ResolveDumpType(c, dt) == IF dt \in DOMAIN c.dumptypes THEN c.dumptypes[dt] ELSE Undeclared

\* A dumptype's block replaces the default whole, its fields are not merged.
BlockFor(default, own) == IF own = Inherited THEN default ELSE own
CompressionFor(c, dt) == BlockFor(c.compress, ResolveDumpType(c, dt).compress)
EncryptionFor(c, dt) == BlockFor(c.encrypt, ResolveDumpType(c, dt).encrypt)
AtomSize(c, dt) == LET own == ResolveDumpType(c, dt).atom IN IF own > 0 THEN own ELSE c.atom

\* An undeclared archiver is the bare type of its name.
ResolveArchiver(c, ref) ==
  LET name == IF ref = "" THEN "gnutar" ELSE ref
  IN IF name \in DOMAIN c.archivers THEN c.archivers[name] ELSE [type |-> name, options |-> {}]
ArchiverOf(c, dt) == ResolveArchiver(c, ResolveDumpType(c, dt).archiver)

RemoteHost(h) == h # "localhost"
DumpTypes(c) == {s.dumptype : s \in c.sources}
HoldingMedia(c) == {m \in DOMAIN c.media : c.media[m].holding}

\* The default route, <<>> if there is none.
LandingNames(c) ==
  IF c.landing # <<>> THEN IF Range(c.landing) \subseteq DOMAIN c.media THEN c.landing ELSE <<>>
  ELSE IF Cardinality(DOMAIN c.media) = 1 THEN <<CHOOSE m \in DOMAIN c.media : TRUE>>
  ELSE <<>>
LandingsFor(c, dt) ==
  LET own == ResolveDumpType(c, dt).landing IN IF own # <<>> THEN own ELSE LandingNames(c)
-----------------------------------------------------------------------------
(* Validate *)

SoundRoute(c, route) ==
  /\ \A m \in Range(route) : m \in DOMAIN c.media /\ ~c.media[m].holding
  /\ IsInjective(route)

Placed(c, s) ==
  LET compress == CompressionFor(c, s.dumptype).at
      encrypt == EncryptionFor(c, s.dumptype).at
  IN /\ encrypt = "client" => compress = "client"
     /\ ~RemoteHost(s.host) => "client" \notin {compress, encrypt}

SoundHolding(c) == LandingNames(c) # <<>> => LandingNames(c)[1] \notin HoldingMedia(c)

\* The source of a rule defaults to the first of the landing list, if there is a list.
SoundSync(c) ==
  \A r \in c.sync :
    /\ {r.to, r.from} \ {""} \subseteq DOMAIN c.media
    /\ r.to # "" /\ r.last >= 0
    /\ r.to # IF r.from # "" \/ c.landing = <<>> THEN r.from ELSE c.landing[1]

SoundArchivers(c) ==
  /\ \A n \in DOMAIN c.archivers :
       LET a == c.archivers[n] IN a.type \in DOMAIN Accepted => a.options \subseteq Accepted[a.type]
  /\ \A dt \in DOMAIN c.dumptypes :
       c.dumptypes[dt].archiver \in {""} \cup DOMAIN c.archivers \cup DOMAIN Accepted

InRange(c) ==
  c.cycle > 0 /\ \A m \in DOMAIN c.media : c.media[m].minAge >= 0 /\ c.media[m].writers >= 0

Valid(c) ==
  /\ c.sources # {}
  /\ DumpTypes(c) \subseteq {"default"} \cup DOMAIN c.dumptypes
  /\ \A s \in c.sources : Placed(c, s)
  /\ SoundRoute(c, c.landing)
  /\ \A dt \in DOMAIN c.dumptypes : SoundRoute(c, c.dumptypes[dt].landing)
  /\ InRange(c) /\ SoundArchivers(c) /\ SoundHolding(c) /\ SoundSync(c)
  /\ {c.drillFrom} \ {""} \subseteq DOMAIN c.media

\* The engine can be built: media it knows, holding disks that take concurrent writes.
Built(c) ==
  /\ Valid(c) /\ LandingNames(c) # <<>>
  /\ \A m \in HoldingMedia(c) : c.media[m].type \in Concurrent
  /\ c.media[LandingNames(c)[1]].type \in DOMAIN Ceiling
-----------------------------------------------------------------------------
(* A dump's pipeline: each stage [does, scheme, program], fused on the source's host or a *)
(* filter of the server; a none has no stage.                                             *)

Stage(does, block) == [does |-> does, scheme |-> block.scheme, program |-> block.program]
Stages(c, dt) ==
  SelectSeq(<<[stage |-> Stage("compress", CompressionFor(c, dt)), at |-> CompressionFor(c, dt).at],
              [stage |-> Stage("encrypt", EncryptionFor(c, dt)), at |-> EncryptionFor(c, dt).at]>>,
            LAMBDA t : t.stage.scheme # "none")
Fused(c, dt) == SelectSeq(Stages(c, dt), LAMBDA t : t.at = "client")
Filters(c, dt) == SelectSeq(Stages(c, dt), LAMBDA t : t.at # "client")

FrameSafe(scheme) == scheme \in {"zstd", "gzip", "none"}
Shape(c, dt) ==
  IF "client" \in {CompressionFor(c, dt).at, EncryptionFor(c, dt).at} THEN "stream"
  ELSE IF FrameSafe(EncryptionFor(c, dt).scheme) THEN "framed" ELSE "atomic"

\* The check of a dump's atoms against its route, which is the landing list as written.
OverCeiling(c, dt, m) ==
  LET type == c.media[m].type
  IN type \in DOMAIN Ceiling /\ Ceiling[type] > 0 /\ AtomSize(c, dt) > Ceiling[type]
AtomsRefused(c, dt) ==
  LET own == ResolveDumpType(c, dt).landing
      route == IF own # <<>> THEN own ELSE c.landing
  IN Shape(c, dt) = "atomic" /\ \E m \in Range(route) : OverCeiling(c, dt, m)
-----------------------------------------------------------------------------
(* The media a run opens, and what it opens them for *)

RunLandings(c) == UNION {Range(LandingsFor(c, dt)) : dt \in DumpTypes(c)}

\* How often OpenForWrite is asked for m: once as a holding disk, once as a landing, and
\* once a lane of a source's own fan-out.
Claims(c, m) == Cardinality({x \in {"holding", "landing"} :
                               m \in IF x = "holding" THEN HoldingMedia(c) ELSE RunLandings(c)})
Lanes(c, dt, m) == Cardinality({i \in DOMAIN LandingsFor(c, dt) : LandingsFor(c, dt)[i] = m})
-----------------------------------------------------------------------------
(* Properties of every configuration the engine can be built from *)

\* Every source has somewhere to land, and no medium is claimed twice by a run or written
\* twice by one fan-out: depot.OpenForWrite calls a second claim a wiring bug.
RoutesAreSound(c) ==
  Built(c) =>
    /\ \A dt \in DumpTypes(c) : LandingsFor(c, dt) # <<>>
    /\ \A m \in DOMAIN c.media :
         Claims(c, m) <= 1 /\ \A dt \in DumpTypes(c) : Lanes(c, dt, m) <= 1

\* What the client encrypts leaves the host encrypted, and whatever runs where, the bytes of
\* an archive were compressed before they were encrypted, as a restore undoes them.
PlaintextStaysHome(c) ==
  Built(c) =>
    \A s \in c.sources :
      LET does(stages) == [i \in DOMAIN stages |-> stages[i].stage.does]
          all == does(Fused(c, s.dumptype) \o Filters(c, s.dumptype))
          encryption == EncryptionFor(c, s.dumptype)
      IN /\ \A i, j \in DOMAIN all : all[i] = "compress" /\ all[j] = "encrypt" => i < j
         /\ encryption.at = "client" /\ encryption.scheme # "none" =>
              RemoteHost(s.host) /\ "encrypt" \in Range(does(Fused(c, s.dumptype)))

\* A stream is cut into frames only where the server can start each stage afresh, and no
\* sealed atom goes to a medium that cannot hold it; under a landing list, that is: of a
\* sole medium taken for the landing, the refusal knows nothing.
ShapesFit(c) ==
  Built(c) =>
    \A dt \in DumpTypes(c) :
      /\ Shape(c, dt) # "stream" => Fused(c, dt) = <<>>
      /\ Shape(c, dt) = "atomic" /\ ~AtomsRefused(c, dt) /\ c.landing # <<>> =>
           \A m \in Range(LandingsFor(c, dt)) : ~OverCeiling(c, dt, m)

SettingsAreSound(c) == RoutesAreSound(c) /\ PlaintextStaysHome(c) /\ ShapesFit(c)
=============================================================================
