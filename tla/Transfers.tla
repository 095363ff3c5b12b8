------------------------------ MODULE Transfers ------------------------------
(***************************************************************************)
(* One dump's bytes on their way: the producer process, the encode step    *)
(* that a transfer runs beside it or wraps around it, the driver that cuts *)
(* the stream into the store's parts, and the order in which they are      *)
(* reaped.  internal/xfer (transfer.go, chunk.go, atomic.go, source.go)    *)
(* over the pipes of internal/programs/local.go, as composed by            *)
(* internal/dumper/encode.go.                                              *)
(*                                                                         *)
(* stream: no filters.  filtered: a child filters beside the producer.     *)
(* framed: a loop runs a child for each frame.  atomic: a child seals each *)
(* atom, and each atom is one part.                                        *)
(***************************************************************************)
EXTENDS Integers, FiniteSets, SequencesExt

CONSTANTS
  Shapes,    \* the kinds of pipeline
  Raws,      \* the sizes of what the producer has to say
  PartCap,   \* the store's part size
  FrameSize, \* raw input per frame; an atom is as large
  PipeCap,   \* what a pipe holds
  MaxFaults  \* bound: the zones that fail of themselves in one transfer

TransfersAssumption ==
  /\ Shapes \subseteq {"stream", "filtered", "framed", "atomic"} /\ Raws \subseteq Nat
  /\ PartCap \in Nat \ {0} /\ FrameSize \in Nat \ {0}

Zones == {"producer", "encoder", "sink", "commit"}

VARIABLES
  shape, raw,  \* the pipeline, and all there is to dump
  left,        \* what the producer still has to write
  prod,        \* the producer: running, ok, failed, or broken by a closed pipe
  pipe,        \* [n, shut, gone]: what it holds, its writer and its reader closed
  enc,         \* the encoder: idle, running (a child), ok, failed, broken
  fed,         \* what the current frame or atom was fed
  out,         \* the pipe from the encoder: [n, shut, gone, err]
  encErr,      \* the encode fault the source remembers: none, failed, broken
  drv,         \* where the driver is
  part,        \* what the part being written holds
  parts,       \* the sizes of the parts closed and kept, in order
  sinkErr,     \* the driver's fault
  verdict,     \* none, ok, or the zone the transfer blames
  faults,      \* the zones that failed of themselves
  cancelled

vars == <<shape, raw, left, prod, pipe, enc, fed, out, encErr, drv, part, parts, sinkErr,
          verdict, faults, cancelled>>

Fresh == [n |-> 0, shut |-> FALSE, gone |-> FALSE, err |-> FALSE]
Wrapped == shape \in {"framed", "atomic"}

\* The pipe the driver reads.
Mid == IF shape = "stream" THEN pipe ELSE out
AtEnd(p) == p.shut /\ p.n = 0

Init ==
  /\ shape \in Shapes /\ raw \in Raws
  /\ left = raw /\ prod = "running" /\ pipe = Fresh
  /\ enc = (IF shape = "filtered" THEN "running" ELSE "idle")
  /\ fed = 0 /\ out = Fresh /\ encErr = "none"
  /\ drv = "next" /\ part = 0 /\ parts = <<>> /\ sinkErr = FALSE
  /\ verdict = "none" /\ faults = {} /\ cancelled = FALSE

MayFail(zone) == zone \notin faults /\ Cardinality(faults) < MaxFaults /\ faults' = faults \cup {zone}
-----------------------------------------------------------------------------
(* The producer. *)

producerVars == <<left, prod>>
encoderVars == <<enc, fed, encErr>>
driverVars == <<drv, part, parts, sinkErr, verdict>>
settings == <<shape, raw, cancelled>>

Produce ==
  /\ prod = "running" /\ left > 0 /\ ~pipe.gone /\ pipe.n < PipeCap
  /\ left' = left - 1 /\ pipe' = [pipe EXCEPT !.n = @ + 1]
  /\ UNCHANGED <<prod, encoderVars, out, driverVars, faults, settings>>

ProducerEnds(how) ==
  /\ prod = "running" /\ prod' = how
  /\ pipe' = [pipe EXCEPT !.shut = TRUE]
  /\ UNCHANGED <<left, encoderVars, out, driverVars, settings>>
ProducerExits == left = 0 /\ ProducerEnds("ok") /\ UNCHANGED faults
\* SIGPIPE.
ProducerBreaks == left > 0 /\ pipe.gone /\ ProducerEnds("broken") /\ UNCHANGED faults
ProducerFails == ProducerEnds("failed") /\ MayFail("producer")
-----------------------------------------------------------------------------
(* The encoder. *)

CloseRaw == pipe' = [pipe EXCEPT !.gone = TRUE]

\* Framed: the loop looks for more input, and starts a child for the frame.
StartFrame ==
  /\ shape = "framed" /\ enc = "idle"
  /\ IF pipe.n > 0
     THEN enc' = "running" /\ fed' = 0 /\ UNCHANGED <<pipe, out>>
     ELSE /\ pipe.shut
          /\ enc' = "ok" /\ out' = [out EXCEPT !.shut = TRUE] /\ CloseRaw
          /\ UNCHANGED fed
  /\ UNCHANGED <<producerVars, encErr, driverVars, faults, settings>>

Encode ==
  /\ enc = "running" /\ pipe.n > 0 /\ ~out.gone /\ out.n < PipeCap
  /\ Wrapped => fed < FrameSize
  /\ pipe' = [pipe EXCEPT !.n = @ - 1] /\ out' = [out EXCEPT !.n = @ + 1]
  /\ fed' = IF Wrapped THEN fed + 1 ELSE fed
  /\ UNCHANGED <<producerVars, enc, encErr, driverVars, faults, settings>>

\* The child has its input: a filter's output ends with it, and so does an atom's.
EncoderEnds ==
  /\ enc = "running"
  /\ AtEnd(pipe) \/ (Wrapped /\ fed = FrameSize)
  /\ IF shape = "framed" THEN enc' = "idle" /\ UNCHANGED out
     ELSE enc' = "ok" /\ out' = [out EXCEPT !.shut = TRUE]
  /\ UNCHANGED <<producerVars, pipe, fed, encErr, driverVars, faults, settings>>

\* Nobody reads it any more.  The frame loop keeps that to itself and closes its input.
EncoderBreaks ==
  /\ enc = "running" /\ out.gone /\ pipe.n > 0
  /\ enc' = "broken"
  /\ IF shape = "framed" THEN CloseRaw ELSE UNCHANGED pipe
  /\ UNCHANGED <<producerVars, fed, out, encErr, driverVars, faults, settings>>

\* The child dies.  The frame loop hands its reader the fault.
EncoderFails ==
  /\ enc = "running" /\ enc' = "failed" /\ MayFail("encoder")
  /\ out' = [out EXCEPT !.shut = TRUE, !.err = (shape = "framed")]
  /\ IF shape = "framed" THEN encErr' = "failed" /\ CloseRaw ELSE UNCHANGED <<encErr, pipe>>
  /\ UNCHANGED <<producerVars, fed, driverVars, settings>>
-----------------------------------------------------------------------------
(* The driver: drive and copyPart, and the loop of TransferAtoms. *)

world == <<producerVars, pipe, encoderVars, out, settings>>

\* Where the driver goes when the sink faults, or when all parts are written.
Stop == IF shape = "atomic" THEN "closeAtom" ELSE "reap"

\* Atomic: the next atom, or the end of the stream, or the fault that stopped the last.
NextAtom ==
  /\ shape = "atomic" /\ drv = "next" /\ enc # "running"
  /\ \/ /\ encErr = "none" /\ pipe.n > 0
        /\ enc' = "running" /\ fed' = 0 /\ out' = Fresh /\ drv' = "part"
        /\ UNCHANGED pipe
     \/ /\ encErr = "none" /\ AtEnd(pipe)
        /\ CloseRaw /\ drv' = "finish" /\ UNCHANGED <<enc, fed, out>>
     \/ encErr # "none" /\ drv' = "finish" /\ UNCHANGED <<pipe, enc, fed, out>>
  /\ UNCHANGED <<producerVars, encErr, part, parts, sinkErr, verdict, faults, settings>>

NextPart ==
  /\ drv = IF shape = "atomic" THEN "part" ELSE "next"
  /\ \/ drv' = "copy" /\ part' = 0 /\ UNCHANGED <<sinkErr, faults>>
     \/ drv' = Stop /\ sinkErr' = TRUE /\ MayFail("sink") /\ UNCHANGED part
  /\ UNCHANGED <<world, parts, verdict>>

\* An atom is never cut; any other stream is at the store's part size.
PartFull == shape # "atomic" /\ part = PartCap

Copy ==
  /\ drv = "copy" /\ Mid.n > 0 /\ ~PartFull
  /\ IF shape = "stream" THEN pipe' = [pipe EXCEPT !.n = @ - 1] /\ UNCHANGED out
                         ELSE out' = [out EXCEPT !.n = @ - 1] /\ UNCHANGED pipe
  /\ part' = part + 1
  /\ UNCHANGED <<producerVars, encoderVars, drv, parts, sinkErr, verdict, faults, settings>>

\* A write fails, or the stream hands over its fault: the part is discarded.
CopyFails ==
  /\ drv = "copy"
  /\ \/ Mid.n > 0 /\ ~PartFull /\ MayFail("sink")
     \/ AtEnd(Mid) /\ Mid.err /\ UNCHANGED faults
  /\ drv' = Stop /\ sinkErr' = TRUE /\ part' = 0
  /\ UNCHANGED <<world, parts, verdict>>

\* The stream's end, or one byte seen past a full part.
CopyEnds ==
  /\ drv = "copy"
  /\ \/ AtEnd(Mid) /\ ~Mid.err /\ drv' = (IF shape = "atomic" THEN "closeAtom" ELSE "closeLast")
     \/ PartFull /\ Mid.n > 0 /\ drv' = "close"
  /\ UNCHANGED <<world, part, parts, sinkErr, verdict, faults>>

\* A canceled transfer's part is discarded by its Close.
ClosePart ==
  /\ drv \in {"close", "closeLast"}
  /\ \/ /\ ~cancelled
        /\ parts' = Append(parts, part)
        /\ drv' = (IF drv = "close" THEN "next" ELSE "reap") /\ UNCHANGED <<sinkErr, faults>>
     \/ /\ sinkErr' = TRUE /\ UNCHANGED parts
        /\ \/ cancelled /\ UNCHANGED faults
           \/ ~cancelled /\ MayFail("sink")
        /\ drv' = IF shape = "atomic" THEN "finish" ELSE "reap"
  /\ part' = 0
  /\ UNCHANGED <<world, verdict>>
-----------------------------------------------------------------------------
(* Reaping. *)

\* atomReader.Close: the child's output is closed and the child awaited; what it died of is
\* the source's fault, and closes the producer's pipe.
CloseAtomOut ==
  /\ drv = "closeAtom" /\ ~out.gone
  /\ out' = [out EXCEPT !.gone = TRUE]
  /\ UNCHANGED <<producerVars, pipe, encoderVars, driverVars, faults, settings>>
CloseAtomLeavesPipe ==   \* a mutant
  /\ drv = "closeAtom" /\ out.gone /\ enc # "running"
  /\ encErr' = (IF enc = "ok" THEN encErr ELSE enc)
  /\ drv' = IF sinkErr \/ enc # "ok" THEN "finish" ELSE "close"
  /\ UNCHANGED <<producerVars, pipe, enc, fed, out, part, parts, sinkErr, verdict, faults, settings>>
CloseAtom ==
  /\ drv = "closeAtom" /\ out.gone /\ enc # "running"
  /\ IF enc = "ok" THEN UNCHANGED <<encErr, pipe>> ELSE encErr' = enc /\ CloseRaw
  /\ drv' = IF sinkErr \/ enc # "ok" THEN "finish" ELSE "close"
  /\ UNCHANGED <<producerVars, enc, fed, out, part, parts, sinkErr, verdict, faults, settings>>

\* Transfer closes what the driver read, awaits the filters, closes the producer's pipe.
CloseMid ==
  /\ drv = "reap"
  /\ IF shape = "stream"
     THEN CloseRaw /\ drv' = "finish" /\ UNCHANGED out
     ELSE /\ out' = [out EXCEPT !.gone = TRUE]
          /\ drv' = (IF shape = "filtered" THEN "reapFilters" ELSE "finish")
          /\ UNCHANGED pipe
  /\ UNCHANGED <<producerVars, encoderVars, part, parts, sinkErr, verdict, faults, settings>>

\* The filters' input is copied to them by a goroutine, which a dead filter lets go only when
\* it has something to copy.
ReapFilters ==
  /\ drv = "reapFilters" /\ enc # "running"
  /\ enc # "ok" => pipe.n > 0 \/ pipe.shut
  /\ CloseRaw /\ drv' = "finish"
  /\ UNCHANGED <<producerVars, encoderVars, out, part, parts, sinkErr, verdict, faults, settings>>

\* finish: the frame loop has ended, the producer has exited; the upstream cause wins, but
\* a pipe broken under a failing sink is a symptom.
Reaped ==
  /\ drv = "finish" /\ prod # "running"
  /\ shape = "framed" => enc \in {"ok", "failed", "broken"}
SourceErr == IF Wrapped /\ encErr # "none" THEN encErr ELSE IF prod = "ok" THEN "none" ELSE prod
FilterErr == IF shape = "filtered" /\ enc # "ok" THEN enc ELSE "none"
Counts(err) == err = "failed" \/ (err = "broken" /\ ~sinkErr)
BlameSinkOnly == IF sinkErr THEN "sink" ELSE "none"   \* a mutant
Blame ==
  IF Counts(SourceErr) THEN "source"
  ELSE IF Counts(FilterErr) THEN "filters"
  ELSE IF sinkErr THEN "sink" ELSE "none"
Finish ==
  /\ Reaped
  /\ IF Blame # "none" THEN drv' = "done" /\ verdict' = Blame
     ELSE drv' = "commit" /\ UNCHANGED verdict
  /\ UNCHANGED <<world, part, parts, sinkErr, faults>>

Commit ==
  /\ drv = "commit" /\ drv' = "done"
  /\ \/ ~cancelled /\ verdict' = "ok" /\ UNCHANGED faults
     \/ cancelled /\ verdict' = "commit" /\ UNCHANGED faults
     \/ verdict' = "commit" /\ MayFail("commit")
  /\ UNCHANGED <<world, part, parts, sinkErr>>

\* The operator stops the run: its processes are killed.
Cancel ==
  /\ ~cancelled /\ drv # "done" /\ cancelled' = TRUE
  /\ prod' = IF prod = "running" THEN "failed" ELSE prod
  /\ pipe' = [pipe EXCEPT !.shut = TRUE]
  /\ enc' = IF enc = "running" THEN "failed" ELSE enc
  /\ IF enc = "running"
     THEN /\ out' = [out EXCEPT !.shut = TRUE, !.err = (shape = "framed")]
          /\ encErr' = (IF shape = "framed" THEN "failed" ELSE encErr)
     ELSE UNCHANGED <<out, encErr>>
  /\ UNCHANGED <<shape, raw, left, fed, driverVars, faults>>

Done == drv = "done" /\ UNCHANGED vars

Drive ==
  \/ NextAtom \/ NextPart \/ Copy \/ CopyFails \/ CopyEnds \/ ClosePart
  \/ CloseAtomOut \/ CloseAtom \/ CloseMid \/ ReapFilters \/ Finish \/ Commit

Steps ==
  \/ Produce \/ ProducerExits \/ ProducerBreaks \/ ProducerFails
  \/ StartFrame \/ Encode \/ EncoderEnds \/ EncoderBreaks \/ EncoderFails
  \/ Drive
Next == Steps \/ Cancel \/ Done

\* Processes and goroutines run; no fault and no cancellation is owed.
Fairness ==
  /\ WF_vars(Produce) /\ WF_vars(ProducerExits) /\ WF_vars(ProducerBreaks)
  /\ WF_vars(StartFrame) /\ WF_vars(Encode) /\ WF_vars(EncoderEnds) /\ WF_vars(EncoderBreaks)
  /\ WF_vars(Drive)
Spec == Init /\ [][Next]_vars /\ Fairness
-----------------------------------------------------------------------------
(* Properties. *)

\* What the parts kept hold, all but the last being full (PartsAreWhole): their sum.
FullPart == IF shape = "atomic" THEN FrameSize ELSE PartCap
Held(ps, full) == IF ps = <<>> THEN 0 ELSE (Len(ps) - 1) * full + Last(ps)
Kept == Held(parts, FullPart)

\* What a committed archive is made of is the producer's whole output, from processes that
\* all ended well: whatever died on the way, in whatever order it was reaped (transfer.go
\* Transfer, chunk.go and atomic.go finish).
CommitMeansWhole ==
  verdict = "ok" =>
    prod = "ok" /\ faults = {} /\ encErr = "none" /\ Kept = raw

\* No part is empty but the only one of a stream that said nothing; and a part ends short of
\* the store's size only where the stream does (copyPart's look past a full part, fillAtom).
PartsAreWhole ==
  /\ \A p \in DOMAIN parts : parts[p] = 0 => Len(parts) = 1
  /\ \A p \in DOMAIN parts :
       p < Len(parts) => parts[p] = FullPart

\* A lone fault is blamed on the zone it came from, never on the neighbour that only saw its
\* pipe break.  The filters of a dump are the exception: a producer that was still writing
\* when they died is the source of the error.
FaultIsNamed ==
  verdict # "none" /\ ~cancelled =>
    \A z \in faults : faults = {z} =>
      verdict \in CASE z = "producer" -> {"source"}
                    [] z = "encoder"  -> IF Wrapped THEN {"source"} ELSE {"filters", "source"}
                    [] OTHER          -> {z}

\* A transfer (transfer.go, chunk.go, atomic.go): what is committed is the whole stream, cut
\* at the store's part size, and a lone fault is blamed on the zone it came from.
TransferIsTrue == CommitMeansWhole /\ PartsAreWhole /\ FaultIsNamed

\* The exception, and a fault of the code: the sink of an atomic dump failed between two
\* atoms, or within one whose child still ended well (atomic.go:243, :257, :260), and the
\* producer has more to say than its pipe holds.  Nothing closes that pipe, and finish awaits
\* the producer (source.go:78): only the operator's cancellation ends the transfer.
WaitsOnProducer ==
  shape = "atomic" /\ drv = "finish" /\ sinkErr /\ prod = "running" /\ pipe.n = PipeCap /\ ~pipe.gone

\* A transfer has come to its verdict, or to the exception; no other process, feeder or filter
\* is left blocked on a pipe that nobody reads or writes.
Ended == verdict # "none" \/ WaitsOnProducer

\* "The fault taxonomy is Transfer's: ... a part write/allocation fault RoleSink"
\* (atomic.go:222): a fault of the sink leads to a verdict.
SinkFaultsAreReported == sinkErr ~> verdict # "none"
=============================================================================
