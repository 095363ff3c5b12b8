--------------------------- MODULE DataFlowsProofs ---------------------------
(***************************************************************************)
(* The two pipelines an archive passes through, for every value of their   *)
(* constants: Transfers first, then Drilling with the restores it extends. *)
(*                                                                         *)
(* Transfers, for any shapes, streams, part and frame sizes, pipes and     *)
(* number of faults: what a transfer commits is the producer's whole       *)
(* output, its parts are cut where they should be, and a lone fault is     *)
(* blamed on the zone it came from.  The invariant follows the bytes.  As  *)
(* long as no fault is on record, what the producer has left, what the     *)
(* pipes and the open part hold, and what the parts kept hold add up to    *)
(* the stream (Conserved); the driver goes on to reap only when the pipe   *)
(* it reads has ended, and a pipe ends only when the process behind it     *)
(* has, which ended well only if its own input had (Processes, Atoms).  So *)
(* a verdict that blames nobody leaves nothing anywhere but in the parts.  *)
(* Blame reads the processes' fates when all have ended; Marks tells which *)
(* of those fates are a fault of their own.                                *)
(*                                                                         *)
(* Drilling, for any chains, parts, media, placements, requests and damage *)
(* to them: what a restore lands, what a verify promises and what a drill  *)
(* that passes has proved.  The invariant counts levels.  Once the catalog *)
(* has located every level it stays located, whatever becomes of the files *)
(* (Located, with FaultsKeepStore); so none is passed over, and at the     *)
(* k-th level the k - 1 before it are in, whole wherever a seal would have *)
(* told (In).                                                              *)
(***************************************************************************)
EXTENDS Transfers, Drilling, FiniteSetTheorems, WellFoundedInduction, TLAPS

Pipe == [n : Nat, shut : BOOLEAN, gone : BOOLEAN, err : BOOLEAN]

\* The types.
TypeInv ==
  /\ shape \in {"stream", "filtered", "framed", "atomic"} /\ raw \in Nat /\ left \in Nat
  /\ prod \in {"running", "ok", "failed", "broken"}
  /\ pipe \in Pipe /\ out \in Pipe
  /\ enc \in {"idle", "running", "ok", "failed", "broken"}
  /\ fed \in Nat /\ encErr \in {"none", "failed", "broken"}
  /\ drv \in {"next", "part", "copy", "close", "closeLast", "closeAtom", "reap", "reapFilters",
              "finish", "commit", "done"}
  /\ part \in Nat /\ parts \in Seq(Nat) /\ sinkErr \in BOOLEAN /\ cancelled \in BOOLEAN
  /\ verdict \in {"none", "ok", "source", "filters", "sink", "commit"}
  /\ faults \subseteq Zones

\* Which shape is where.
Places ==
  /\ drv \in {"part", "closeAtom"} => shape = "atomic"
  /\ drv \in {"closeLast", "reap"} => shape # "atomic"
  /\ drv = "reapFilters" => shape = "filtered"
  /\ drv = "next" => part = 0

\* The processes and their pipes.
Processes ==
  /\ prod = "running" <=> ~pipe.shut
  /\ ~pipe.err
  /\ prod = "ok" => left = 0
  /\ shape = "stream" => enc = "idle" /\ out.n = 0
  /\ shape = "filtered" => enc # "idle"
  /\ ~Wrapped => encErr = "none"
  /\ enc = "running" => ~out.shut
  /\ out.err => shape = "framed" /\ enc = "failed"
  /\ shape \in {"filtered", "framed"} /\ enc = "ok" => AtEnd(pipe)
  /\ shape = "framed" => /\ encErr # "broken" /\ (encErr = "failed" <=> enc = "failed")
                         /\ out.shut => enc \in {"ok", "failed"}

\* One atom: what its child was fed is in its pipe or in the part, and it is cut short only by
\* the end of the stream.
Atoms ==
  shape = "atomic" =>
    /\ enc = "idle" => parts = <<>> /\ drv \notin {"part", "copy", "closeAtom", "close"}
    /\ enc = "running" => drv \in {"part", "copy", "closeAtom"}
    /\ enc = "running" /\ fed = 0 => pipe.n > 0
    /\ enc \in {"running", "ok"} => fed <= FrameSize
    /\ enc = "ok" => fed > 0 /\ out.shut /\ (fed = FrameSize \/ AtEnd(pipe))
    /\ enc = "broken" => sinkErr
    /\ out.gone => drv \notin {"part", "copy"}
    /\ encErr # "none" => encErr = enc /\ drv \in {"finish", "commit", "done"}
    /\ drv \in {"next", "close"} => enc \in {"idle", "ok"} /\ ~sinkErr /\ out.n = 0
    /\ drv \in {"part", "copy"} => ~sinkErr /\ fed = out.n + part
    /\ drv = "part" => part = 0
    /\ drv = "closeAtom" /\ ~sinkErr => out.n = 0 /\ out.shut /\ part = fed
    /\ drv = "close" => part = fed
    /\ drv \in {"finish", "commit", "done"} => (enc \in {"failed", "broken"} => encErr = enc)
    /\ drv \in {"finish", "commit", "done"} /\ ~sinkErr /\ encErr = "none" =>
         AtEnd(pipe) /\ out.n = 0 /\ part = 0

\* The parts: full but for the last, and none empty but an only one.
Cut ==
  /\ \A p \in DOMAIN parts : p < Len(parts) => parts[p] = FullPart
  /\ \A p \in DOMAIN parts : parts[p] = 0 => Len(parts) = 1
  /\ shape # "atomic" =>
       /\ drv \in {"next", "copy", "close", "closeLast"} =>
            \A p \in DOMAIN parts : parts[p] = PartCap
       /\ drv \in {"next", "copy"} /\ parts # <<>> /\ part = 0 => Mid.n > 0
       /\ drv = "close" => part = PartCap /\ Mid.n > 0
       /\ drv = "closeLast" /\ part = 0 => parts = <<>>
  /\ shape = "atomic" =>
       /\ drv \in {"part", "copy", "closeAtom", "close"} =>
            \A p \in DOMAIN parts : parts[p] = FrameSize
       /\ drv = "next" => AtEnd(pipe) \/ \A p \in DOMAIN parts : parts[p] = FrameSize

\* No byte is lost but with a fault on record, and the driver goes on to reap only at the end.
Conserved ==
  /\ ~sinkErr /\ encErr = "none" => left + pipe.n + out.n + part + Kept = raw
  /\ shape # "atomic" /\ drv \in {"closeLast", "reap", "reapFilters", "finish", "commit", "done"}
       /\ ~sinkErr => AtEnd(Mid) /\ (drv # "closeLast" => part = 0)

\* Who failed of itself, and what shows it.
Marks ==
  /\ "producer" \in faults => prod = "failed"
  /\ "encoder" \in faults => enc = "failed"
  /\ "sink" \in faults => sinkErr
  /\ "commit" \in faults => verdict = "commit"
  /\ ~cancelled => /\ prod = "failed" => "producer" \in faults
                   /\ enc = "failed" => "encoder" \in faults
                   /\ sinkErr => "sink" \in faults \/ out.err
                   /\ verdict = "commit" => "commit" \in faults

\* Once all is reaped nothing changes, and the verdict is the blame.
Settled == prod # "running" /\ enc # "running" /\ (shape = "framed" => enc # "idle")
Judged ==
  /\ verdict # "none" <=> drv = "done"
  /\ shape = "filtered" /\ drv \in {"finish", "commit", "done"} => enc # "running"
  /\ drv \in {"commit", "done"} => Settled
  /\ drv = "commit" => Blame = "none"
  /\ drv = "done" => IF Blame = "none" THEN verdict \in {"ok", "commit"} ELSE verdict = Blame

IInv == TypeInv /\ Places /\ Processes /\ Atoms /\ Cut /\ Conserved /\ Marks /\ Judged

\* What the steps do to a pipe leaves it one.
LEMMA PipeTypes ==
  ASSUME NEW p \in Pipe
  PROVE  /\ p.n \in Nat
         /\ [p EXCEPT !.n = @ + 1] \in Pipe
         /\ p.n > 0 => [p EXCEPT !.n = @ - 1] \in Pipe
         /\ [p EXCEPT !.shut = TRUE] \in Pipe
         /\ [p EXCEPT !.gone = TRUE] \in Pipe
         /\ \A b \in BOOLEAN : [p EXCEPT !.shut = TRUE, !.err = b] \in Pipe
<1>1. p.n \in Nat BY DEF Pipe
<1>2. p.n + 1 \in Nat /\ (p.n > 0 => p.n - 1 \in Nat) BY <1>1
<1>. QED BY <1>1, <1>2 DEF Pipe

\* A new pipe is one.
LEMMA FreshType == Fresh \in Pipe
BY DEF Fresh, Pipe

\* The sum of full parts, and of full parts and one more.
LEMMA KeptWhenFull ==
  ASSUME TypeInv, \A p \in DOMAIN parts : parts[p] = FullPart, FullPart \in Nat
  PROVE  Kept = Len(parts) * FullPart
<1>1. CASE parts = <<>>
  BY <1>1 DEF Kept, Held
<1>2. CASE parts # <<>>
  <2>1. Len(parts) \in Nat \ {0} /\ Last(parts) = FullPart
    BY <1>2 DEF Last, TypeInv
  <2>2. \A k \in Nat \ {0} : (k - 1) * FullPart + FullPart = k * FullPart
    OBVIOUS
  <2>. QED BY <1>2, <2>1, <2>2 DEF Kept, Held
<1>. QED BY <1>1, <1>2

\* A part more adds itself to the sum, as long as those before it are full.
LEMMA KeptOnAppend ==
  ASSUME TypeInv, FullPart \in Nat, parts' = Append(parts, part), UNCHANGED shape
  PROVE  Kept' = Len(parts) * FullPart + part
<1>1. parts' # <<>> /\ Len(parts') = Len(parts) + 1 /\ Last(parts') = part /\ Len(parts) \in Nat
  BY DEF TypeInv, Last
<1>2. Kept' = (Len(parts') - 1) * FullPart + Last(parts')
  BY <1>1 DEF Kept, Held, FullPart
<1>3. Len(parts') - 1 = Len(parts)
  BY <1>1
<1>. QED BY <1>1, <1>2, <1>3

-----------------------------------------------------------------------------
(* The producer, the encoder and the operator. *)

\* The producer writes only into a pipe that is open at both ends.
LEMMA ProduceKeeps == ASSUME TransfersAssumption, IInv, Produce PROVE IInv'
<1> USE DEF TransfersAssumption, IInv, TypeInv, Produce, producerVars, encoderVars, driverVars,
            settings
<1>1. TypeInv'
  <2>1. pipe' \in Pipe BY PipeTypes
  <2>2. sinkErr' \in BOOLEAN /\ cancelled' \in BOOLEAN OBVIOUS
  <2>. QED BY <2>1, <2>2
<1>2. Places' BY DEF Places
<1>3. Processes' BY DEF Processes, AtEnd, Wrapped
<1>4. Atoms' BY DEF Processes, Atoms, AtEnd, Pipe
<1>5. Cut' BY DEF Processes, Cut, FullPart, Mid, AtEnd, Pipe
<1>6. Conserved' BY DEF Processes, Conserved, Kept, Held, FullPart, Mid, AtEnd, Pipe
<1>7. Marks' BY DEF Marks
<1>8. Judged' BY DEF Judged, Settled
<1>. QED BY <1>1, <1>2, <1>3, <1>4, <1>5, <1>6, <1>7, <1>8

\* It exits well only with nothing left to say.
LEMMA ProducerExitsKeeps == ASSUME TransfersAssumption, IInv, ProducerExits PROVE IInv'
<1> USE DEF TransfersAssumption, IInv, TypeInv, ProducerExits, ProducerEnds, encoderVars,
            driverVars, settings
<1>1. TypeInv'
  <2>1. pipe' \in Pipe BY PipeTypes
  <2>2. sinkErr' \in BOOLEAN /\ cancelled' \in BOOLEAN OBVIOUS
  <2>. QED BY <2>1, <2>2
<1>2. Places' BY DEF Places
<1>3. Processes' BY DEF Processes, AtEnd, Wrapped
<1>4. Atoms' BY DEF Atoms, AtEnd
<1>5. Cut' BY DEF Cut, FullPart, Mid, AtEnd
<1>6. Conserved' BY DEF Conserved, Kept, Held, FullPart, Mid, AtEnd
<1>7. Marks' BY DEF Marks
<1>8. Judged' BY DEF Judged, Settled
<1>. QED BY <1>1, <1>2, <1>3, <1>4, <1>5, <1>6, <1>7, <1>8

\* A producer broken by its pipe did not fail of itself.
LEMMA ProducerBreaksKeeps == ASSUME TransfersAssumption, IInv, ProducerBreaks PROVE IInv'
<1> USE DEF TransfersAssumption, IInv, TypeInv, ProducerBreaks, ProducerEnds, encoderVars,
            driverVars, settings
<1>1. TypeInv'
  <2>1. pipe' \in Pipe BY PipeTypes
  <2>2. sinkErr' \in BOOLEAN /\ cancelled' \in BOOLEAN OBVIOUS
  <2>. QED BY <2>1, <2>2
<1>2. Places' BY DEF Places
<1>3. Processes' BY DEF Processes, AtEnd, Wrapped
<1>4. Atoms' BY DEF Atoms, AtEnd
<1>5. Cut' BY DEF Cut, FullPart, Mid, AtEnd
<1>6. Conserved' BY DEF Conserved, Kept, Held, FullPart, Mid, AtEnd
<1>7. Marks' BY DEF Marks
<1>8. Judged' BY DEF Judged, Settled
<1>. QED BY <1>1, <1>2, <1>3, <1>4, <1>5, <1>6, <1>7, <1>8

\* One that fails is on record.
LEMMA ProducerFailsKeeps == ASSUME TransfersAssumption, IInv, ProducerFails PROVE IInv'
<1> USE DEF TransfersAssumption, IInv, TypeInv, ProducerFails, ProducerEnds, MayFail,
            encoderVars, driverVars, settings
<1>1. TypeInv'
  <2>1. pipe' \in Pipe BY PipeTypes
  <2>2. sinkErr' \in BOOLEAN /\ cancelled' \in BOOLEAN OBVIOUS
  <2>3. faults' \subseteq Zones BY DEF Zones
  <2>. QED BY <2>1, <2>2, <2>3
<1>2. Places' BY DEF Places
<1>3. Processes' BY DEF Processes, AtEnd, Wrapped
<1>4. Atoms' BY DEF Atoms, AtEnd
<1>5. Cut' BY DEF Cut, FullPart, Mid, AtEnd
<1>6. Conserved' BY DEF Conserved, Kept, Held, FullPart, Mid, AtEnd
<1>7. Marks' BY DEF Marks
<1>8. Judged' BY DEF Judged, Settled
<1>. QED BY <1>1, <1>2, <1>3, <1>4, <1>5, <1>6, <1>7, <1>8

\* The frame loop ends its output only with its input.
LEMMA StartFrameKeeps == ASSUME TransfersAssumption, IInv, StartFrame PROVE IInv'
<1> USE DEF TransfersAssumption, IInv, TypeInv, StartFrame, CloseRaw, producerVars, driverVars,
            settings
<1>1. TypeInv'
  <2>1. pipe' \in Pipe BY PipeTypes
  <2>2. out' \in Pipe BY PipeTypes, FreshType
  <2>3. sinkErr' \in BOOLEAN /\ cancelled' \in BOOLEAN OBVIOUS
  <2>. QED BY <2>1, <2>2, <2>3
<1>2. Places' BY DEF Places
<1>3. Processes' BY DEF Processes, AtEnd, Pipe
<1>4. Atoms' BY DEF Atoms
<1>5. Cut' BY DEF Cut, FullPart, Mid, Pipe
<1>6. Conserved' BY DEF Conserved, Kept, Held, FullPart, Mid, AtEnd, Pipe
<1>7. Marks' BY DEF Marks, Pipe
<1>8. Judged' BY DEF Judged, Settled
<1>. QED BY <1>1, <1>2, <1>3, <1>4, <1>5, <1>6, <1>7, <1>8

\* What a child takes in it puts out.
LEMMA EncodeKeeps == ASSUME TransfersAssumption, IInv, Encode PROVE IInv'
<1> USE DEF TransfersAssumption, IInv, TypeInv, Encode, producerVars, driverVars, settings
<1>1. TypeInv'
  <2>1. pipe' \in Pipe BY PipeTypes
  <2>2. out' \in Pipe BY PipeTypes, FreshType
  <2>3. sinkErr' \in BOOLEAN /\ cancelled' \in BOOLEAN OBVIOUS
  <2>. QED BY <2>1, <2>2, <2>3
<1>2. Places' BY DEF Places
<1>3. Processes' BY DEF Processes, Wrapped
<1>4. Atoms' BY DEF Processes, Atoms, Wrapped, Pipe
<1>5. Cut' BY DEF Processes, Cut, FullPart, Mid, AtEnd, Pipe
<1>6. Conserved' BY DEF Processes, Conserved, Kept, Held, FullPart, Mid, AtEnd, Pipe
<1>7. Marks' BY DEF Marks
<1>8. Judged' BY DEF Judged, Settled
<1>. QED BY <1>1, <1>2, <1>3, <1>4, <1>5, <1>6, <1>7, <1>8

\* A child that ended well has left its pipe at its end, or its atom full.
LEMMA EncoderEndsKeeps == ASSUME TransfersAssumption, IInv, EncoderEnds PROVE IInv'
<1> USE DEF TransfersAssumption, IInv, TypeInv, EncoderEnds, producerVars, driverVars, settings
<1>1. TypeInv'
  <2>1. out' \in Pipe BY PipeTypes, FreshType
  <2>2. sinkErr' \in BOOLEAN /\ cancelled' \in BOOLEAN OBVIOUS
  <2>. QED BY <2>1, <2>2
<1>2. Places' BY DEF Places
<1>3. Processes' BY DEF Processes, Wrapped, Pipe
<1>4. Atoms'
  <2>1. CASE shape # "atomic"
    BY <2>1 DEF Atoms
  <2>2. CASE shape = "atomic"
    <3>1. enc' = "ok" /\ out' = [out EXCEPT !.shut = TRUE] /\ UNCHANGED <<pipe, fed, drv>>
      BY <2>2
    <3>2. drv \in {"part", "copy", "closeAtom"} /\ encErr = "none"
      BY <2>2 DEF Atoms
    <3>3. out'.n = out.n /\ out'.shut /\ out'.gone = out.gone
      BY <3>1 DEF Pipe
    <3>4. fed > 0 /\ fed <= FrameSize /\ (fed = FrameSize \/ AtEnd(pipe))
      BY <2>2 DEF Atoms, AtEnd, Wrapped
    <3>. QED BY <2>2, <3>1, <3>2, <3>3, <3>4 DEF Atoms, AtEnd, Places, Processes
  <2>. QED BY <2>1, <2>2
<1>5. Cut' BY DEF Cut, FullPart, Mid, Pipe
<1>6. Conserved' BY DEF Conserved, Kept, Held, FullPart, Mid, AtEnd, Pipe
<1>7. Marks' BY DEF Marks, Pipe
<1>8. Judged' BY DEF Judged, Settled
<1>. QED BY <1>1, <1>2, <1>3, <1>4, <1>5, <1>6, <1>7, <1>8

\* A child breaks only once the driver let go of its output.
LEMMA EncoderBreaksKeeps == ASSUME TransfersAssumption, IInv, EncoderBreaks PROVE IInv'
<1> USE DEF TransfersAssumption, IInv, TypeInv, EncoderBreaks, CloseRaw, producerVars,
            driverVars, settings
<1>1. TypeInv'
  <2>1. pipe' \in Pipe BY PipeTypes
  <2>2. sinkErr' \in BOOLEAN /\ cancelled' \in BOOLEAN OBVIOUS
  <2>. QED BY <2>1, <2>2
<1>2. Places' BY DEF Places
<1>3. Processes' BY DEF Processes, Wrapped, Pipe
<1>4. Atoms' BY DEF Processes, Atoms
<1>5. Cut' BY DEF Cut, FullPart, Mid
<1>6. Conserved' BY DEF Conserved, Kept, Held, FullPart, Mid, Pipe
<1>7. Marks' BY DEF Marks
<1>8. Judged' BY DEF Judged, Settled
<1>. QED BY <1>1, <1>2, <1>3, <1>4, <1>5, <1>6, <1>7, <1>8

\* One that fails is on record.
LEMMA EncoderFailsKeeps == ASSUME TransfersAssumption, IInv, EncoderFails PROVE IInv'
<1> USE DEF TransfersAssumption, IInv, TypeInv, EncoderFails, CloseRaw, MayFail, producerVars,
            driverVars, settings
<1>1. TypeInv'
  <2>1. pipe' \in Pipe BY PipeTypes
  <2>2. out' \in Pipe BY PipeTypes, FreshType
  <2>3. sinkErr' \in BOOLEAN /\ cancelled' \in BOOLEAN OBVIOUS
  <2>4. faults' \subseteq Zones BY DEF Zones
  <2>. QED BY <2>1, <2>2, <2>3, <2>4
<1>2. Places' BY DEF Places
<1>3. Processes' BY DEF Processes, Wrapped, Pipe
<1>4. Atoms' BY DEF Atoms
<1>5. Cut' BY DEF Cut, FullPart, Mid
<1>6. Conserved' BY DEF Conserved, Kept, Held, FullPart, Mid, AtEnd
<1>7. Marks' BY DEF Processes, Marks
<1>8. Judged' BY DEF Judged, Settled
<1>. QED BY <1>1, <1>2, <1>3, <1>4, <1>5, <1>6, <1>7, <1>8

\* A cancellation shuts both pipes and leaves no process running.
LEMMA CancelKeeps == ASSUME TransfersAssumption, IInv, Cancel PROVE IInv'
<1> USE DEF TransfersAssumption, IInv, TypeInv, Cancel, driverVars
<1>1. TypeInv'
  <2>1. pipe' \in Pipe BY PipeTypes
  <2>2. out' \in Pipe BY PipeTypes, FreshType
  <2>3. sinkErr' \in BOOLEAN /\ cancelled' \in BOOLEAN OBVIOUS
  <2>. QED BY <2>1, <2>2, <2>3
<1>2. Places' BY DEF Places
<1>3. Processes'
  <2>1. pipe'.shut /\ pipe'.n = pipe.n /\ pipe'.err = pipe.err
    BY DEF Pipe
  <2>2. CASE enc = "running"
    <3>1. enc' = "failed" /\ out'.shut /\ out'.err = (shape = "framed")
      BY <2>2 DEF Pipe
    <3>. QED BY <2>1, <2>2, <3>1 DEF Processes, AtEnd, Wrapped
  <2>3. CASE enc # "running"
    BY <2>1, <2>3 DEF Processes, AtEnd, Wrapped
  <2>. QED BY <2>2, <2>3
<1>4. Atoms' BY DEF Atoms, AtEnd, Pipe
<1>5. Cut' BY DEF Cut, FullPart, Mid, AtEnd, Pipe
<1>6. Conserved' BY DEF Conserved, Kept, Held, FullPart, Mid, AtEnd, Pipe
<1>7. Marks' BY DEF Marks
<1>8. Judged' BY DEF Judged, Settled, Blame, Counts, SourceErr, FilterErr, Wrapped
<1>. QED BY <1>1, <1>2, <1>3, <1>4, <1>5, <1>6, <1>7, <1>8
-----------------------------------------------------------------------------
(* The driver. *)

\* The next atom starts where the last was full, and from nothing.
LEMMA NextAtomKeeps == ASSUME TransfersAssumption, IInv, NextAtom PROVE IInv'
<1> USE DEF TransfersAssumption, IInv, TypeInv, NextAtom, CloseRaw, Fresh, producerVars,
            settings
<1>1. TypeInv'
  <2>1. pipe' \in Pipe BY PipeTypes
  <2>2. out' \in Pipe BY PipeTypes, FreshType
  <2>3. sinkErr' \in BOOLEAN /\ cancelled' \in BOOLEAN OBVIOUS
  <2>. QED BY <2>1, <2>2, <2>3
<1>2. Places' BY DEF Places
<1>3. Processes' BY DEF Processes, AtEnd, Wrapped, Pipe
<1>4. Atoms' BY DEF Places, Atoms, AtEnd, Pipe
<1>5. Cut' BY DEF Cut, FullPart, AtEnd
<1>6. Conserved' BY DEF Atoms, Conserved, Kept, Held, FullPart, Pipe
<1>7. Marks' BY DEF Atoms, Marks
<1>8. Judged' BY DEF Judged
<1>. QED BY <1>1, <1>2, <1>3, <1>4, <1>5, <1>6, <1>7, <1>8

\* A part starts empty.
LEMMA NextPartKeeps == ASSUME TransfersAssumption, IInv, NextPart PROVE IInv'
<1> USE DEF TransfersAssumption, IInv, TypeInv, NextPart, Stop, MayFail, world, producerVars,
            encoderVars, settings
<1>1. TypeInv'
  <2>1. sinkErr' \in BOOLEAN /\ cancelled' \in BOOLEAN OBVIOUS
  <2>2. faults' \subseteq Zones BY DEF Zones
  <2>. QED BY <2>1, <2>2
<1>2. Places' BY DEF Places
<1>3. Processes' BY DEF Processes, Wrapped
<1>4. Atoms' BY DEF Atoms
<1>5. Cut' BY DEF Places, Cut, FullPart, Mid
<1>6. Conserved' BY DEF Places, Atoms, Conserved, Kept, Held, FullPart
<1>7. Marks' BY DEF Marks
<1>8. Judged' BY DEF Judged
<1>. QED BY <1>1, <1>2, <1>3, <1>4, <1>5, <1>6, <1>7, <1>8

\* What the driver takes from the pipe it adds to the part.
LEMMA CopyKeeps == ASSUME TransfersAssumption, IInv, Copy PROVE IInv'
<1> USE DEF TransfersAssumption, IInv, TypeInv, Copy, PartFull, producerVars, encoderVars,
            settings
<1>. Mid.n > 0 /\ ~PartFull
  OBVIOUS
<1>1. TypeInv'
  <2>1. pipe' \in Pipe BY PipeTypes DEF Mid
  <2>2. out' \in Pipe BY PipeTypes DEF Mid
  <2>3. sinkErr' \in BOOLEAN /\ cancelled' \in BOOLEAN OBVIOUS
  <2>. QED BY <2>1, <2>2, <2>3
<1>2. Places' BY DEF Places
<1>3. Processes' BY DEF Processes, Wrapped, Pipe
<1>4. Atoms'
  <2>1. CASE shape # "atomic"
    BY <2>1 DEF Atoms
  <2>2. CASE shape = "atomic"
    <3>1. pipe' = pipe /\ out' = [out EXCEPT !.n = @ - 1] /\ out.n > 0
      BY <2>2 DEF Mid
    <3>2. out'.n = out.n - 1 /\ out'.shut = out.shut /\ out'.gone = out.gone
      BY <3>1 DEF Pipe
    <3>3. fed = out'.n + part' /\ ~sinkErr
      BY <2>2, <3>2 DEF Atoms, Pipe
    <3>. QED BY <2>2, <3>1, <3>2, <3>3 DEF Atoms, AtEnd
  <2>. QED BY <2>1, <2>2
<1>5. Cut' BY DEF Cut, FullPart
<1>6. Conserved'
  <2>1. parts' = parts /\ shape' = shape /\ left' = left /\ raw' = raw /\ part' = part + 1
    OBVIOUS
  <2>2. Kept' = Kept
    BY ONLY <2>1 DEF Kept, Held, FullPart
  <2>3. pipe.n \in Nat /\ out.n \in Nat
    BY DEF Pipe
  <2>4. pipe'.n + out'.n + part' = pipe.n + out.n + part
    <3>1. CASE shape = "stream"
      <4>1. pipe'.n = pipe.n - 1 /\ out'.n = out.n
        BY <3>1 DEF Mid, Pipe
      <4>. QED BY <2>1, <2>3, <4>1
    <3>2. CASE shape # "stream"
      <4>1. out'.n = out.n - 1 /\ pipe'.n = pipe.n
        BY <3>2 DEF Mid, Pipe
      <4>. QED BY <2>1, <2>3, <4>1
    <3>. QED BY <3>1, <3>2
  <2>5. left' + pipe'.n + out'.n + part' + Kept' = left + pipe.n + out.n + part + Kept
    <3>1. pipe'.n \in Int /\ out'.n \in Int
      BY <1>1 DEF Pipe
    <3>2. Kept \in Int
      BY DEF Kept, Held, FullPart, Last
    <3>3. left \in Nat /\ part \in Nat
      OBVIOUS
    <3>. QED BY ONLY <2>1, <2>2, <2>3, <2>4, <3>1, <3>2, <3>3
  <2>. QED BY <2>1, <2>5 DEF Conserved
<1>7. Marks' BY DEF Marks, Pipe
<1>8. Judged' BY DEF Judged
<1>. QED BY <1>1, <1>2, <1>3, <1>4, <1>5, <1>6, <1>7, <1>8

\* A part is dropped only with a fault on record.
LEMMA CopyFailsKeeps == ASSUME TransfersAssumption, IInv, CopyFails PROVE IInv'
<1> USE DEF TransfersAssumption, IInv, TypeInv, CopyFails, PartFull, Stop, MayFail, world,
            producerVars, encoderVars, settings
<1>1. TypeInv'
  <2>1. sinkErr' \in BOOLEAN /\ cancelled' \in BOOLEAN OBVIOUS
  <2>2. faults' \subseteq Zones BY DEF Zones
  <2>. QED BY <2>1, <2>2
<1>2. Places' BY DEF Places
<1>3. Processes' BY DEF Processes, Wrapped
<1>4. Atoms' BY DEF Atoms
<1>5. Cut' BY DEF Cut, FullPart
<1>6. Conserved' BY DEF Conserved
<1>7. Marks' BY DEF Processes, Marks, Mid
<1>8. Judged' BY DEF Judged
<1>. QED BY <1>1, <1>2, <1>3, <1>4, <1>5, <1>6, <1>7, <1>8

\* A part is closed full, or at the end of the stream.
LEMMA CopyEndsKeeps == ASSUME TransfersAssumption, IInv, CopyEnds PROVE IInv'
<1> USE DEF TransfersAssumption, IInv, TypeInv, CopyEnds, PartFull, world, producerVars,
            encoderVars, settings
<1>1. TypeInv'
  <2>1. sinkErr' \in BOOLEAN /\ cancelled' \in BOOLEAN OBVIOUS
  <2>. QED BY <2>1
<1>2. Places' BY DEF Places
<1>3. Processes' BY DEF Processes, Wrapped
<1>4. Atoms' BY DEF Atoms, AtEnd, Mid
<1>5. Cut' BY DEF Cut, FullPart, Mid, AtEnd
<1>6. Conserved' BY DEF Conserved, Kept, Held, FullPart, Mid
<1>7. Marks' BY DEF Marks
<1>8. Judged' BY DEF Judged
<1>. QED BY <1>1, <1>2, <1>3, <1>4, <1>5, <1>6, <1>7, <1>8

\* A part kept adds itself to what is kept; only the last may fall short.
LEMMA ClosePartKeeps == ASSUME TransfersAssumption, IInv, ClosePart PROVE IInv'
<1> USE DEF TransfersAssumption, IInv, TypeInv, ClosePart, MayFail, world, producerVars,
            encoderVars, settings
<1>1. TypeInv'
  <2>1. sinkErr' \in BOOLEAN /\ cancelled' \in BOOLEAN OBVIOUS
  <2>2. faults' \subseteq Zones BY DEF Zones
  <2>. QED BY <2>1, <2>2
<1>2. Places' BY DEF Places
<1>3. Processes' BY DEF Processes, Wrapped
<1>4. Atoms' BY DEF Places, Atoms
<1>5. Cut'
  <2>1. CASE UNCHANGED parts /\ drv' \in {"reap", "finish"}
    BY <2>1 DEF Cut, FullPart
  <2>2. CASE parts' = Append(parts, part) /\ drv' = IF drv = "close" THEN "next" ELSE "reap"
    <3>1. \A p \in DOMAIN parts : parts[p] = FullPart
      BY DEF Cut, FullPart, Places
    <3>2. /\ Len(parts') = Len(parts) + 1 /\ DOMAIN parts' = 1 .. Len(parts) + 1
          /\ DOMAIN parts = 1 .. Len(parts) /\ Len(parts) \in Nat
          /\ \A p \in DOMAIN parts : parts'[p] = parts[p]
          /\ parts'[Len(parts) + 1] = part
      BY <2>2
    <3>3. \A p \in DOMAIN parts' : p < Len(parts') => parts'[p] = FullPart'
      BY <3>1, <3>2 DEF FullPart
    <3>4. \A p \in DOMAIN parts' : parts'[p] = 0 => Len(parts') = 1
      <4>1. FullPart > 0
        BY DEF FullPart
      <4>2. CASE shape = "atomic"
        <5>1. drv = "close"
          BY <4>2 DEF Places
        <5>2. part > 0
          BY <4>2, <5>1 DEF Atoms
        <5>. QED BY <3>1, <3>2, <4>1, <5>2
      <4>3. CASE shape # "atomic"
        <5>1. part = 0 => parts = <<>>
          BY <4>3 DEF Cut
        <5>. QED BY <3>1, <3>2, <4>1, <5>1
      <4>. QED BY <4>2, <4>3
    <3>5. drv' = "next" => part = FullPart \/ (shape = "atomic" /\ AtEnd(pipe))
      BY <2>2 DEF Cut, Atoms, FullPart
    <3>6. drv' = "next" => AtEnd(pipe) \/ \A p \in DOMAIN parts' : parts'[p] = FullPart
      BY <3>1, <3>2, <3>5
    <3>7. shape # "atomic" /\ drv' = "next" =>
            Mid'.n > 0 /\ \A p \in DOMAIN parts' : parts'[p] = PartCap
      <4> SUFFICES ASSUME shape # "atomic", drv' = "next"
                   PROVE  Mid'.n > 0 /\ \A p \in DOMAIN parts' : parts'[p] = PartCap
        OBVIOUS
      <4>1. drv = "close" /\ Mid' = Mid /\ FullPart = PartCap
        BY <2>2 DEF FullPart, Mid
      <4>2. part = FullPart /\ Mid.n > 0
        BY <4>1 DEF Cut
      <4>3. \A p \in DOMAIN parts' : parts'[p] = PartCap
        BY <3>1, <3>2, <4>1, <4>2
      <4>. QED BY <4>1, <4>2, <4>3
    <3>. QED BY <2>2, <3>3, <3>4, <3>6, <3>7 DEF Cut, FullPart, AtEnd
  <2>. QED BY <2>1, <2>2
<1>6. Conserved'
  <2>1. CASE UNCHANGED parts /\ sinkErr'
    BY <2>1 DEF Conserved
  <2>2. CASE parts' = Append(parts, part) /\ drv' = IF drv = "close" THEN "next" ELSE "reap"
    <3>1. \A p \in DOMAIN parts : parts[p] = FullPart
      BY DEF Cut, FullPart, Places
    <3>2. Kept = Len(parts) * FullPart /\ Kept' = Len(parts) * FullPart + part
      BY <2>2, <3>1, KeptWhenFull, KeptOnAppend DEF FullPart
    <3>3. part' = 0 /\ UNCHANGED <<left, pipe, out, sinkErr, encErr, raw, shape>>
      BY <2>2
    <3>4. Len(parts) * FullPart \in Int /\ pipe.n \in Nat /\ out.n \in Nat
      BY DEF FullPart, Pipe
    <3>5. left' + pipe'.n + out'.n + part' + Kept' = left + pipe.n + out.n + part + Kept
      BY <3>2, <3>3, <3>4
    <3>6. drv' # "closeLast" /\ (shape # "atomic" /\ drv' = "reap" => drv = "closeLast")
      BY <2>2
    <3>. QED BY <2>2, <3>3, <3>5, <3>6 DEF Conserved, Mid, AtEnd
  <2>. QED BY <2>1, <2>2
<1>7. Marks' BY DEF Marks
<1>8. Judged' BY DEF Judged
<1>. QED BY <1>1, <1>2, <1>3, <1>4, <1>5, <1>6, <1>7, <1>8
-----------------------------------------------------------------------------
(* Reaping. *)

\* The driver lets go of the atom.
LEMMA CloseAtomOutKeeps == ASSUME TransfersAssumption, IInv, CloseAtomOut PROVE IInv'
<1> USE DEF TransfersAssumption, IInv, TypeInv, CloseAtomOut, producerVars, encoderVars,
            driverVars, settings
<1>1. TypeInv'
  <2>1. out' \in Pipe BY PipeTypes, FreshType
  <2>2. sinkErr' \in BOOLEAN /\ cancelled' \in BOOLEAN OBVIOUS
  <2>. QED BY <2>1, <2>2
<1>2. Places' BY DEF Places
<1>3. Processes' BY DEF Processes, Wrapped
<1>4. Atoms' BY DEF Atoms
<1>5. Cut' BY DEF Cut, FullPart
<1>6. Conserved' BY DEF Conserved, Kept, Held, FullPart
<1>7. Marks' BY DEF Marks
<1>8. Judged' BY DEF Judged
<1>. QED BY <1>1, <1>2, <1>3, <1>4, <1>5, <1>6, <1>7, <1>8

\* The fault of the atom's child becomes the source's.
LEMMA CloseAtomKeeps == ASSUME TransfersAssumption, IInv, CloseAtom PROVE IInv'
<1> USE DEF TransfersAssumption, IInv, TypeInv, CloseAtom, CloseRaw, producerVars, settings
<1>1. TypeInv'
  <2>1. pipe' \in Pipe BY PipeTypes
  <2>2. encErr' \in {"none", "failed", "broken"} BY DEF Atoms, Places
  <2>. QED BY <2>1, <2>2
<1>2. Places' BY DEF Places
<1>3. Processes' BY DEF Places, Processes, Wrapped, Pipe
<1>4. Atoms' BY DEF Atoms
<1>5. Cut' BY DEF Places, Cut, FullPart
<1>6. Conserved' BY DEF Places, Conserved, Kept, Held, FullPart
<1>7. Marks' BY DEF Marks
<1>8. Judged' BY DEF Judged
<1>. QED BY <1>1, <1>2, <1>3, <1>4, <1>5, <1>6, <1>7, <1>8

\* The driver lets go of the stream.
LEMMA CloseMidKeeps == ASSUME TransfersAssumption, IInv, CloseMid PROVE IInv'
<1> USE DEF TransfersAssumption, IInv, TypeInv, CloseMid, CloseRaw, producerVars, encoderVars,
            settings
<1>1. TypeInv'
  <2>1. pipe' \in Pipe BY PipeTypes
  <2>2. out' \in Pipe BY PipeTypes, FreshType
  <2>3. sinkErr' \in BOOLEAN /\ cancelled' \in BOOLEAN OBVIOUS
  <2>. QED BY <2>1, <2>2, <2>3
<1>2. Places' BY DEF Places
<1>3. Processes' BY DEF Processes, Wrapped, Pipe
<1>4. Atoms' BY DEF Places, Atoms
<1>5. Cut' BY DEF Cut, FullPart
<1>6. Conserved' BY DEF Conserved, Kept, Held, FullPart, Mid, AtEnd, Pipe
<1>7. Marks' BY DEF Marks, Pipe
<1>8. Judged' BY DEF Judged
<1>. QED BY <1>1, <1>2, <1>3, <1>4, <1>5, <1>6, <1>7, <1>8

\* Once reaped, the filters no longer run.
LEMMA ReapFiltersKeeps == ASSUME TransfersAssumption, IInv, ReapFilters PROVE IInv'
<1> USE DEF TransfersAssumption, IInv, TypeInv, ReapFilters, CloseRaw, producerVars,
            encoderVars, settings
<1>1. TypeInv'
  <2>1. pipe' \in Pipe BY PipeTypes
  <2>2. sinkErr' \in BOOLEAN /\ cancelled' \in BOOLEAN OBVIOUS
  <2>. QED BY <2>1, <2>2
<1>2. Places' BY DEF Places
<1>3. Processes' BY DEF Processes, AtEnd, Wrapped
<1>4. Atoms' BY DEF Places, Atoms
<1>5. Cut' BY DEF Cut, FullPart
<1>6. Conserved' BY DEF Conserved, Kept, Held, FullPart, Mid, AtEnd
<1>7. Marks' BY DEF Marks
<1>8. Judged' BY DEF Judged
<1>. QED BY <1>1, <1>2, <1>3, <1>4, <1>5, <1>6, <1>7, <1>8

\* The verdict is the blame of processes that have all ended.
LEMMA FinishKeeps == ASSUME TransfersAssumption, IInv, Finish PROVE IInv'
<1> USE DEF TransfersAssumption, IInv, TypeInv, Finish, world, producerVars, encoderVars,
            settings, Reaped
<1>1. TypeInv'
  <2>1. verdict' \in {"none", "ok", "source", "filters", "sink", "commit"}
    BY DEF Blame
  <2>. QED BY <2>1
<1>2. Places' BY DEF Places
<1>3. Processes' BY DEF Processes, Wrapped
<1>4. Atoms' BY DEF Atoms
<1>5. Cut' BY DEF Cut, FullPart
<1>6. Conserved' BY DEF Conserved, Kept, Held, FullPart, Mid
<1>7. Marks' BY DEF Marks, Judged, Blame
<1>8. Judged' BY DEF Processes, Atoms, Judged, Settled, Blame, Counts, SourceErr, FilterErr,
        Wrapped
<1>. QED BY <1>1, <1>2, <1>3, <1>4, <1>5, <1>6, <1>7, <1>8

\* A commit succeeds or is on record.
LEMMA CommitKeeps == ASSUME TransfersAssumption, IInv, Commit PROVE IInv'
<1> USE DEF TransfersAssumption, IInv, TypeInv, Commit, MayFail, world, producerVars,
            encoderVars, settings
<1>1. TypeInv'
  <2>1. sinkErr' \in BOOLEAN /\ cancelled' \in BOOLEAN OBVIOUS
  <2>2. faults' \subseteq Zones BY DEF Zones
  <2>. QED BY <2>1, <2>2
<1>2. Places' BY DEF Places
<1>3. Processes' BY DEF Processes, Wrapped
<1>4. Atoms' BY DEF Atoms
<1>5. Cut' BY DEF Cut, FullPart
<1>6. Conserved' BY DEF Conserved, Kept, Held, FullPart, Mid
<1>7. Marks' BY DEF Marks, Judged
<1>8. Judged' BY DEF Judged, Settled, Blame, Counts, SourceErr, FilterErr, Wrapped
<1>. QED BY <1>1, <1>2, <1>3, <1>4, <1>5, <1>6, <1>7, <1>8
-----------------------------------------------------------------------------
(* The theorems. *)

\* The invariant holds of every run of a transfer.
THEOREM Inductive == ASSUME TransfersAssumption PROVE Spec => []IInv
<1>1. Init => IInv
  <2> SUFFICES ASSUME Init PROVE IInv
    OBVIOUS
  <2>1. TypeInv
    <3>1. pipe \in Pipe /\ out \in Pipe
      BY FreshType DEF Init
    <3>2. shape \in {"stream", "filtered", "framed", "atomic"} /\ raw \in Nat /\ left = raw
      BY DEF Init, TransfersAssumption
    <3>3. left \in Nat /\ parts \in Seq(Nat) /\ faults \subseteq Zones
      BY <3>2 DEF Init
    <3>. QED BY <3>1, <3>2, <3>3 DEF Init, TypeInv
  <2> USE DEF TransfersAssumption, Init, Fresh
  <2>2. Places BY DEF Places
  <2>3. Processes BY DEF Processes, Wrapped, AtEnd
  <2>4. Atoms BY DEF Atoms
  <2>5. Cut BY DEF Cut
  <2>6. Conserved BY DEF Conserved, Kept, Held, FullPart
  <2>7. Marks BY DEF Marks
  <2>8. Judged BY DEF Judged
  <2>. QED BY <2>1, <2>2, <2>3, <2>4, <2>5, <2>6, <2>7, <2>8 DEF IInv
<1>2. IInv /\ [Next]_vars => IInv'
  <2> SUFFICES ASSUME IInv, [Next]_vars PROVE IInv'
    OBVIOUS
  <2>1. CASE Produce \/ ProducerExits \/ ProducerBreaks \/ ProducerFails
    BY <2>1, ProduceKeeps, ProducerExitsKeeps, ProducerBreaksKeeps, ProducerFailsKeeps
  <2>2. CASE StartFrame \/ Encode \/ EncoderEnds \/ EncoderBreaks \/ EncoderFails
    BY <2>2, StartFrameKeeps, EncodeKeeps, EncoderEndsKeeps, EncoderBreaksKeeps,
       EncoderFailsKeeps
  <2>3. CASE NextAtom \/ NextPart \/ Copy \/ CopyFails \/ CopyEnds \/ ClosePart
    BY <2>3, NextAtomKeeps, NextPartKeeps, CopyKeeps, CopyFailsKeeps, CopyEndsKeeps,
       ClosePartKeeps
  <2>4. CASE CloseAtomOut \/ CloseAtom \/ CloseMid \/ ReapFilters \/ Finish \/ Commit
    BY <2>4, CloseAtomOutKeeps, CloseAtomKeeps, CloseMidKeeps, ReapFiltersKeeps, FinishKeeps,
       CommitKeeps
  <2>5. CASE Cancel
    BY <2>5, CancelKeeps
  <2>6. CASE UNCHANGED vars
    BY <2>6 DEF vars, IInv, TypeInv, Places, Processes, Atoms, Cut, Conserved, Marks, Judged,
                Wrapped, AtEnd, Mid, FullPart, Kept, Held, Settled, Blame, Counts, SourceErr,
                FilterErr
  <2>. QED BY <2>1, <2>2, <2>3, <2>4, <2>5, <2>6 DEF Next, Steps, Drive, Done
<1>. QED BY <1>1, <1>2, PTL DEF Spec

-----------------------------------------------------------------------------
(* What the parts add up to.  FoldSeq sums by taking indices away in some order; the sum of  *)
(* the parts at any set of indices is known beforehand, and by smallest counterexample no    *)
(* solution of the fold's equation differs from it.                                          *)

\* A set of numbers has a least one.
LEMMA Least ==
  ASSUME NEW S \in SUBSET Nat, S # {}
  PROVE  \E m \in S : \A k \in S : m <= k
<1>1. IsWellFoundedOn(OpToRel(<, Nat), Nat)
  BY NatLessThanWellFounded
<1>2. PICK m \in S : \A k \in S : <<k, m>> \notin OpToRel(<, Nat)
  BY <1>1, WFMin
<1>3. ASSUME NEW k \in S PROVE m <= k
  <2>1. ~(k < m) /\ k \in Nat /\ m \in Nat
    BY <1>2 DEF OpToRel
  <2>. QED BY <2>1
<1>. QED BY <1>3

\* A step of the sum.
Adds(ps, f, S) ==
  IF S = {} THEN 0 ELSE ps[CHOOSE x \in S : TRUE] + f[S \ {CHOOSE x \in S : TRUE}]

\* The sum of the parts at S, all but the last full.
SumAt(ps, full, S) ==
  IF Len(ps) \in S THEN (Cardinality(S) - 1) * full + ps[Len(ps)] ELSE Cardinality(S) * full

\* It is a step from that of one index less.
LEMMA SumSteps ==
  ASSUME NEW full \in Nat, NEW ps \in Seq(Nat), \A p \in DOMAIN ps : p < Len(ps) => ps[p] = full,
         NEW S \in SUBSET DOMAIN ps, S # {}, NEW x \in S
  PROVE  SumAt(ps, full, S) = ps[x] + SumAt(ps, full, S \ {x})
<1>1. IsFiniteSet(S)
  <2>1. IsFiniteSet(1 .. Len(ps))
    BY FS_Interval
  <2>. QED BY <2>1, FS_Subset
<1>2. Cardinality(S) \in Nat /\ Cardinality(S \ {x}) = Cardinality(S) - 1
  BY <1>1, FS_RemoveElement, FS_CardinalityType
<1> DEFINE c == Cardinality(S)
<1>3. ps[x] \in Nat /\ x \in 1 .. Len(ps)
  OBVIOUS
<1>4. CASE x = Len(ps)
  BY <1>2, <1>3, <1>4 DEF SumAt
<1>5. CASE x # Len(ps)
  <2>1. ps[x] = full
    BY <1>3, <1>5
  <2>2. ASSUME NEW n \in Int PROVE n * full = full + (n - 1) * full
    OBVIOUS
  <2>3. CASE Len(ps) \in S
    <3>1. Len(ps) \in S \ {x} /\ Len(ps) \in DOMAIN ps
      BY <1>5, <2>3
    <3>2. ps[Len(ps)] \in Nat
      BY <3>1
    <3>3. (c - 1) * full = full + (c - 1 - 1) * full
      BY <1>2, <2>2
    <3>4. (c - 1) * full \in Int /\ (c - 1 - 1) * full \in Int
      BY <1>2
    <3>5. SumAt(ps, full, S) = (c - 1) * full + ps[Len(ps)]
      BY <2>3 DEF SumAt
    <3>6. SumAt(ps, full, S \ {x}) = (c - 1 - 1) * full + ps[Len(ps)]
      BY <1>2, <3>1 DEF SumAt
    <3> HIDE DEF c
    <3>. QED BY <2>1, <3>2, <3>3, <3>4, <3>5, <3>6
  <2>4. CASE Len(ps) \notin S
    <3>1. c * full = full + (c - 1) * full
      BY <1>2, <2>2
    <3>. QED BY <1>2, <2>1, <2>4, <3>1 DEF SumAt
  <2>. QED BY <2>3, <2>4
<1>. QED BY <1>4, <1>5

\* What Held says of parts that are full but for the last is what they add up to.
LEMMA HeldIsTheSum ==
  ASSUME NEW full \in Nat, NEW ps \in Seq(Nat), \A p \in DOMAIN ps : p < Len(ps) => ps[p] = full
  PROVE  FoldSeq(+, 0, ps) = Held(ps, full)
<1> DEFINE D == DOMAIN ps
           Sums(f) == f = [S \in SUBSET D |-> Adds(ps, f, S)]
           g == [S \in SUBSET D |-> SumAt(ps, full, S)]
<1>1. FoldSeq(+, 0, ps) = (CHOOSE f : Sums(f))[D]
  BY DEF FoldSeq, FoldFunction, FoldFunctionOnSet, MapThenFoldSet, Adds
<1>2. \A S \in SUBSET D : IsFiniteSet(S) /\ Cardinality(S) \in Nat
  <2>1. IsFiniteSet(1 .. Len(ps))
    BY FS_Interval
  <2>. QED BY <2>1, FS_Subset, FS_CardinalityType
<1>3. ASSUME NEW S \in SUBSET D PROVE SumAt(ps, full, S) = Adds(ps, g, S)
  <2>1. CASE S = {}
    BY <2>1, FS_EmptySet DEF SumAt, Adds
  <2>2. CASE S # {}
    <3> DEFINE x == CHOOSE y \in S : TRUE
    <3>1. x \in S
      BY <2>2
    <3>2. S \ {x} \in SUBSET D
      OBVIOUS
    <3>3. g[S \ {x}] = SumAt(ps, full, S \ {x})
      BY <3>2
    <3>4. SumAt(ps, full, S) = ps[x] + SumAt(ps, full, S \ {x})
      <4> HIDE DEF x
      <4>. QED BY <2>2, <3>1, SumSteps
    <3>5. Adds(ps, g, S) = ps[x] + g[S \ {x}]
      BY <2>2 DEF Adds
    <3> HIDE DEF x, g
    <3>. QED BY <3>3, <3>4, <3>5
  <2>. QED BY <2>1, <2>2
<1>4. Sums(g)
  BY <1>3
<1>5. ASSUME NEW f, Sums(f) PROVE f[D] = g[D]
  <2> DEFINE Bad == {S \in SUBSET D : f[S] # g[S]}
             sizes == {Cardinality(S) : S \in Bad}
  <2> SUFFICES ASSUME Bad # {} PROVE FALSE
    OBVIOUS
  <2>1. sizes \in SUBSET Nat /\ sizes # {}
    BY <1>2
  <2>2. PICK k \in sizes : \A l \in sizes : k <= l
    <3> HIDE DEF sizes
    <3>. QED BY <2>1, Least
  <2>3. PICK S \in Bad : k = Cardinality(S)
    OBVIOUS
  <2>4. f[S] = Adds(ps, f, S) /\ g[S] = Adds(ps, g, S)
    BY <1>4, <1>5, <2>3
  <2>5. S # {}
    BY <2>3, <2>4 DEF Adds
  <2> DEFINE x == CHOOSE y \in S : TRUE
  <2>6. x \in S
    BY <2>5
  <2>7. S \ {x} \in SUBSET D /\ Cardinality(S \ {x}) = k - 1
    BY <1>2, <2>3, <2>6, FS_RemoveElement
  <2>8. S \ {x} \notin Bad
    <3>1. k \in Nat
      BY <2>1
    <3>2. S \ {x} \in Bad => k - 1 \in sizes
      BY <2>7
    <3> HIDE DEF sizes
    <3>. QED BY <2>2, <3>1, <3>2
  <2>9. f[S \ {x}] = g[S \ {x}]
    BY <2>7, <2>8
  <2>. QED BY <2>3, <2>4, <2>5, <2>9 DEF Adds
<1>6. (CHOOSE f : Sums(f))[D] = g[D]
  <2> HIDE DEF g, D
  <2>1. Sums(CHOOSE f : Sums(f))
    <3> HIDE DEF Sums
    <3>. QED BY <1>4
  <2> HIDE DEF Sums
  <2>. QED BY <1>5, <2>1
<1>7. Len(ps) \in Nat /\ D = 1 .. Len(ps) /\ Cardinality(D) = Len(ps)
  <2>1. Len(ps) \in Nat /\ D = 1 .. Len(ps)
    OBVIOUS
  <2>2. Cardinality(1 .. Len(ps)) = Len(ps)
    <3>1. Cardinality(1 .. Len(ps)) = IF 1 > Len(ps) THEN 0 ELSE Len(ps) - 1 + 1
      BY <2>1, FS_Interval
    <3> HIDE DEF D
    <3>. QED BY <2>1, <3>1
  <2>. QED BY <2>1, <2>2
<1>8. g[D] = Held(ps, full)
  <2>1. CASE ps = <<>>
    BY <1>7, <2>1 DEF SumAt, Held
  <2>2. CASE ps # <<>>
    <3>1. Len(ps) \in D /\ Cardinality(D) = Len(ps)
      BY <1>7, <2>2
    <3>2. g[D] = SumAt(ps, full, D)
      OBVIOUS
    <3> HIDE DEF D, g
    <3>. QED BY <2>2, <3>1, <3>2 DEF SumAt, Held, Last
  <2>. QED BY <2>1, <2>2
<1>. QED BY <1>1, <1>6, <1>8

\* What is committed is the producer's whole output, from processes that all ended well
\* (transfer.go Transfer, chunk.go and atomic.go finish).
THEOREM CommittedIsWhole == ASSUME TransfersAssumption PROVE Spec => []CommitMeansWhole
<1>1. IInv => CommitMeansWhole
  <2> SUFFICES ASSUME IInv, verdict = "ok"
               PROVE  prod = "ok" /\ faults = {} /\ encErr = "none" /\ Kept = raw
    BY DEF CommitMeansWhole
  <2> USE DEF IInv
  <2>1. drv = "done" /\ Blame = "none" /\ Settled
    BY DEF Judged, Blame, TypeInv
  <2>2. ~sinkErr /\ ~Counts(SourceErr) /\ ~Counts(FilterErr)
    BY <2>1 DEF Blame
  <2>3. prod = "ok" /\ encErr = "none"
    BY <2>1, <2>2 DEF Counts, SourceErr, Settled, TypeInv, Processes
  <2>4. enc # "failed"
    BY <2>1, <2>2, <2>3 DEF Counts, FilterErr, Wrapped, Processes, Atoms, TypeInv
  <2>5. faults = {}
    BY <2>2, <2>3, <2>4 DEF Marks, TypeInv, Zones
  <2>6. left = 0 /\ part = 0
    BY <2>1, <2>2, <2>3 DEF Processes, Conserved, Atoms
  <2>7. pipe.n = 0 /\ out.n = 0
    <3>1. CASE shape = "atomic"
      BY <2>1, <2>2, <2>3, <3>1 DEF Atoms, AtEnd
    <3>2. CASE shape \in {"filtered", "framed"}
      <4>1. out.n = 0 /\ out.shut
        BY <2>1, <2>2, <3>2 DEF Conserved, Mid, AtEnd
      <4>2. enc = "ok"
        BY <2>1, <2>2, <2>4, <3>2, <4>1
           DEF Counts, FilterErr, Settled, Processes, TypeInv
      <4>. QED BY <3>2, <4>1, <4>2 DEF Processes, AtEnd
    <3>3. CASE shape = "stream"
      <4>1. pipe.n = 0
        BY <2>1, <2>2, <3>3 DEF Conserved, Mid, AtEnd
      <4>. QED BY <3>3, <4>1 DEF Processes
    <3>. QED BY <3>1, <3>2, <3>3 DEF TypeInv
  <2>8. Kept \in Int
    BY DEF Kept, Held, FullPart, Last, TypeInv, TransfersAssumption
  <2>9. left + pipe.n + out.n + part + Kept = raw
    BY <2>2, <2>3 DEF Conserved
  <2>. QED BY <2>3, <2>5, <2>6, <2>7, <2>8, <2>9
<1>. QED BY <1>1, Inductive, PTL

\* The parts of what is committed add up to all the producer had to say: Held's measure of
\* them is no assumption (PartsAreWhole).
THEOREM PartsAddUp ==
  ASSUME TransfersAssumption PROVE Spec => [](verdict = "ok" => FoldSeq(+, 0, parts) = raw)
<1>1. IInv /\ CommitMeansWhole => (verdict = "ok" => FoldSeq(+, 0, parts) = raw)
  <2> SUFFICES ASSUME IInv, CommitMeansWhole, verdict = "ok" PROVE FoldSeq(+, 0, parts) = raw
    OBVIOUS
  <2>1. FullPart \in Nat /\ parts \in Seq(Nat)
    BY DEF IInv, TypeInv, FullPart, TransfersAssumption
  <2>2. \A p \in DOMAIN parts : p < Len(parts) => parts[p] = FullPart
    BY DEF IInv, Cut
  <2>. QED BY <2>1, <2>2, HeldIsTheSum DEF CommitMeansWhole, Kept
<1>. QED BY <1>1, Inductive, CommittedIsWhole, PTL

\* Every part but the last is full, and none is empty but an only one (copyPart, fillAtom).
THEOREM PartsAreAlwaysWhole == ASSUME TransfersAssumption PROVE Spec => []PartsAreWhole
<1>1. IInv => PartsAreWhole
  BY DEF IInv, Cut, PartsAreWhole
<1>. QED BY <1>1, Inductive, PTL

\* A lone fault is blamed on the zone it came from (Transfer's and TransferAtoms' closing
\* switch, and the broken pipes it drops under a failing sink).
THEOREM FaultsAreNamed == ASSUME TransfersAssumption PROVE Spec => []FaultIsNamed
<1>1. IInv => FaultIsNamed
  <2> SUFFICES ASSUME IInv, verdict # "none", ~cancelled, NEW z \in faults, faults = {z}
               PROVE  verdict \in CASE z = "producer" -> {"source"}
                                    [] z = "encoder" -> IF Wrapped THEN {"source"}
                                                        ELSE {"filters", "source"}
                                    [] OTHER -> {z}
    BY DEF FaultIsNamed
  <2> USE DEF IInv
  <2>1. drv = "done" /\ Settled
    BY DEF Judged
  <2>2. z \in Zones
    BY DEF TypeInv
  <2>3. CASE z = "producer"
    <3>1. prod = "failed" /\ enc # "failed" /\ "sink" \notin faults
      BY <2>3 DEF Marks
    <3>2. encErr # "failed"
      BY <2>1, <3>1 DEF Processes, Atoms, Wrapped, TypeInv
    <3>3. ~(Wrapped /\ encErr # "none")
      BY <3>1, <3>2 DEF Marks, Processes, Atoms, Wrapped, TypeInv
    <3>4. Blame = "source"
      BY <3>1, <3>3 DEF Blame, Counts, SourceErr
    <3>. QED BY <2>1, <2>3, <3>4 DEF Judged
  <2>4. CASE z = "encoder"
    <3>1. enc = "failed"
      BY <2>4 DEF Marks
    <3>2. CASE Wrapped
      <4>1. encErr = "failed"
        BY <2>1, <3>1, <3>2 DEF Processes, Atoms, Wrapped
      <4>2. Blame = "source"
        BY <3>2, <4>1 DEF Blame, Counts, SourceErr
      <4>. QED BY <2>1, <2>4, <3>2, <4>2 DEF Judged
    <3>3. CASE ~Wrapped
      <4>1. shape = "filtered"
        BY <3>1, <3>3 DEF Wrapped, Processes, TypeInv
      <4>2. Blame \in {"source", "filters"}
        BY <3>1, <4>1 DEF Blame, Counts, FilterErr
      <4>. QED BY <2>1, <2>4, <3>3, <4>2 DEF Judged
    <3>. QED BY <3>2, <3>3
  <2>5. CASE z = "sink"
    <3>1. sinkErr /\ prod # "failed" /\ enc # "failed"
      BY <2>5 DEF Marks
    <3>2. encErr # "failed"
      BY <2>1, <3>1 DEF Processes, Atoms, Wrapped, TypeInv
    <3>3. ~Counts(SourceErr) /\ ~Counts(FilterErr)
      BY <2>1, <3>1, <3>2 DEF Counts, SourceErr, FilterErr, TypeInv
    <3>4. Blame = "sink"
      BY <3>1, <3>3 DEF Blame
    <3>. QED BY <2>1, <2>5, <3>4 DEF Judged
  <2>6. CASE z = "commit"
    <3>1. verdict = "commit"
      BY <2>6 DEF Marks
    <3>. QED BY <2>6, <3>1
  <2>. QED BY <2>2, <2>3, <2>4, <2>5, <2>6 DEF Zones
<1>. QED BY <1>1, Inductive, PTL

\* All of it, for any stream and sizes and however many zones fail.
THEOREM TransfersAreTrue == ASSUME TransfersAssumption PROVE Spec => []TransferIsTrue
<1>. QED BY CommittedIsWhole, PartsAreAlwaysWhole, FaultsAreNamed, PTL DEF TransferIsTrue

-----------------------------------------------------------------------------
(* Restores and drills. *)

\* What the constants are.
Ground == RestoringAssumption /\ DrillingAssumption

\* What the store is: files and placements, and media that open.
StoreOK ==
  /\ store = [on |-> store.on, part |-> store.part, sealed |-> store.sealed, opens |-> store.opens]
  /\ store.on \in [Media -> SUBSET Archives]
  /\ store.sealed \in [Media -> BOOLEAN]
  /\ store.opens \in SUBSET Media
  /\ store.part = [m \in Media |-> [a \in Archives |-> store.part[m][a]]]
  /\ \A m \in Media, a \in Archives : store.part[m][a] \in [1..NParts[a] -> PartStates]

\* Every level wanted has a copy where it may be read from.
Located == \A a \in StepSet : Planned(store, req.from, a) # "missing"

\* The first n levels are in, in order, each whole if a seal could tell.
In(n) ==
  /\ landed \in Seq([step : Archives, is : {"whole", "wrong", "partial"}])
  /\ Len(landed) = n
  /\ \A k \in 1..n :
       /\ landed[k].step = Wanted[k] /\ landed[k].is # "partial"
       /\ (\A m \in Media : store.sealed[m]) => landed[k].is = "whole"

RestoreOK ==
  /\ pc \in {"idle", "guard", "locate", "plan", "read", "failing", "over", "quiet"}
  /\ pc \notin {"idle", "quiet"} => req \in Requests
  /\ pc \in {"idle", "quiet"} => ~foreign
  /\ pc \in {"locate", "plan", "read", "failing"} => ~(Guarded /\ foreign)
  /\ pc \in {"idle", "guard", "locate", "plan"} => landed = <<>>
  /\ pc \in {"plan", "read"} => Located
  /\ pc = "read" => at \in 1..(Len(Wanted) + 1) /\ In(at - 1)
  /\ outcome # "none" => pc = "over"
  /\ outcome = "ok" => In(Len(Wanted))
  /\ QuietFailureLandsNothing

LedgerOK == DOMAIN ledger = Dles /\ \A d \in Dles : "drills" \in DOMAIN ledger[d]

DInv == StoreOK /\ RestoreOK /\ LedgerOK

-----------------------------------------------------------------------------
\* Min of a set of numbers is one of them.
LEMMA MinBelongs ==
  ASSUME NEW S \in SUBSET Nat, S # {}
  PROVE  Min(S) \in S
BY Least DEF Min

\* Where seals are recorded no wrong byte goes unnoticed.
LEMMA SealsTell ==
  ASSUME Ground, StoreOK, NEW m \in Media, NEW a \in Archives, store.sealed[m]
  PROVE  Stream(store, m, a) # "corrupt"
<1> SUFFICES ASSUME Damaged(store, m, a) PROVE FirstFault(store, m, a) # 0
  BY DEF Stream
<1> DEFINE files == store.part[m][a]
           faulty == {k \in DOMAIN files : files[k] = "gone" \/ (files[k] = "torn" /\ store.sealed[m])}
<1>1. files \in [1..NParts[a] -> PartStates] /\ NParts[a] \in Nat
  BY DEF StoreOK, Ground, RestoringAssumption
<1>2. PICK k \in DOMAIN files : files[k] # "ok"
  BY DEF Damaged
<1>3. k \in faulty
  BY <1>1, <1>2 DEF PartStates
<1>4. faulty \in SUBSET Nat /\ 0 \notin faulty
  BY <1>1
<1>5. FirstFault(store, m, a) = Min(faulty)
  BY <1>3 DEF FirstFault
<1> HIDE DEF faulty
<1>. QED BY <1>3, <1>4, <1>5, MinBelongs

\* What is opened carries the archive, and there is something if any copy opens.
LEMMA OpenedOpens ==
  ASSUME NEW s, NEW pin, NEW pool, NEW a
  PROVE  \A m \in OpenRef(s, pin, pool, a) : m \in Media /\ Opens(s, pin, pool, a, m)
BY DEF OpenRef, Media, ToSet

LEMMA SomethingOpens ==
  ASSUME NEW s, NEW pin, NEW pool, NEW a, Preference \in Seq(Media),
         NEW m \in Media, Opens(s, pin, pool, a, m)
  PROVE  OpenRef(s, pin, pool, a) # {}
<1> DEFINE S == {k \in DOMAIN Preference : Opens(s, pin, pool, a, Preference[k])}
<1>1. S \in SUBSET Nat /\ S # {}
  BY DEF Media, ToSet
<1>2. PICK i \in S : \A k \in S : i <= k
  <2> HIDE DEF S
  <2>. QED BY <1>1, Least
<1>3. \A j \in 1..(i - 1) : ~Opens(s, pin, pool, a, Preference[j])
  <2> TAKE j \in 1..(i - 1)
  <2>1. i \in DOMAIN Preference /\ j \in DOMAIN Preference /\ ~(i <= j)
    OBVIOUS
  <2>. QED BY <1>2, <2>1
<1>4. Preference[i] \in OpenRef(s, pin, pool, a)
  BY <1>2, <1>3 DEF OpenRef
<1>. QED BY <1>4

\* A copy pinned is the copy opened.
LEMMA PinnedIsOpened ==
  ASSUME NEW s, NEW m \in Media, "" \notin Media, NEW pool, NEW a
  PROVE  OpenRef(s, m, pool, a) \subseteq {m}
<1> SUFFICES ASSUME NEW x \in OpenRef(s, m, pool, a) PROVE x = m
  OBVIOUS
<1>1. Opens(s, m, pool, a, x)
  BY OpenedOpens
<1>2. m # ""
  OBVIOUS
<1>. QED BY <1>1, <1>2 DEF Opens, Carries

\* A checksum that passes has read the copy whole.
LEMMA ChecksumReads ==
  ASSUME NEW s, NEW m \in Media, "" \notin Media, NEW pool, NEW a,
         "ok" \in ChecksumClasses(s, m, pool, a)
  PROVE  Stream(s, m, a) = "clean" /\ m \in OpenRef(s, m, pool, a)
<1> DEFINE opened == OpenRef(s, m, pool, a)
<1>1. PICK x \in opened : ChecksumOf(Stream(s, x, a)) = "ok"
  BY DEF ChecksumClasses
<1>2. x = m
  BY <1>1, PinnedIsOpened
<1>. QED BY <1>1, <1>2 DEF ChecksumOf

\* So has a decode that passes.
LEMMA DeepReads ==
  ASSUME NEW s, NEW m \in Media, "" \notin Media, NEW pool, NEW a, NEW k,
         "ok" \in DeepClasses(s, m, pool, a, k)
  PROVE  Stream(s, m, a) = "clean"
<1>1. PICK m1 \in OpenRef(s, m, pool, a) : "ok" \in DeepOf(Stream(s, m1, a), k)
  BY DEF DeepClasses
<1>2. m1 = m
  BY <1>1, PinnedIsOpened
<1>3. Stream(s, m, a) \in {"clean", "cut", "mismatch", "corrupt"}
  BY DEF Stream
<1>. QED BY <1>1, <1>2, <1>3 DEF DeepOf

-----------------------------------------------------------------------------
\* What a drill that passes has read.

LEMMA ChecksumTierReads ==
  ASSUME Ground, NEW d \in Dles, NEW m \in Media, "ok" \in ChecksumTier(d, m), NEW a \in ToSet(Chain[d])
  PROVE  Planned(store, m, a) = "read" /\ Stream(store, m, a) = "clean"
<1> DEFINE missing(b) == Planned(store, m, b) = "missing"
           read == InOrder(d, LAMBDA b : IF missing(b) THEN {"ok"}
                                         ELSE ChecksumClasses(store, m, {m}, b))
<1>1. "" \notin Media
  BY DEF Ground, RestoringAssumption
<1>2. ~PassRefused(store, m, ToSet(Chain[d]))
  BY DEF ChecksumTier, VerifyChain
<1>3. /\ ~\E b \in ToSet(Chain[d]) : missing(b)
      /\ "ok" \in read
  <2> HIDE DEF missing
  <2>. QED BY <1>2 DEF ChecksumTier, VerifyChain, missing
<1>4. Planned(store, m, a) = "read"
  <2>1. Planned(store, m, a) # "refused" /\ Planned(store, m, a) # "missing"
    BY <1>2, <1>3 DEF PassRefused
  <2>. QED BY <2>1 DEF Planned
<1>5. PICK k \in DOMAIN Chain[d] : Chain[d][k] = a
  BY DEF ToSet
<1>6. "ok" \in ChecksumClasses(store, m, {m}, a)
  BY <1>3, <1>5 DEF InOrder
<1>. QED BY <1>1, <1>4, <1>6, ChecksumReads

LEMMA StructuralTierReads ==
  ASSUME Ground, NEW d \in Dles, NEW m \in Media, "ok" \in StructuralTier(d, m), NEW a \in ToSet(Chain[d])
  PROVE  Planned(store, m, a) = "read" /\ Stream(store, m, a) = "clean"
<1> DEFINE missing(b) == Planned(store, m, b) = "missing"
           read == InOrder(d, LAMBDA b : IF missing(b) THEN {"ok"}
                                         ELSE DeepClasses(store, m, {m}, b, key))
<1>1. "" \notin Media
  BY DEF Ground, RestoringAssumption
<1>2. ~PassRefused(store, m, ToSet(Chain[d]))
  BY DEF StructuralTier, VerifyChain
<1>3. /\ ~\E b \in ToSet(Chain[d]) : missing(b)
      /\ "ok" \in read
  <2> HIDE DEF missing
  <2>. QED BY <1>2 DEF StructuralTier, VerifyChain, missing
<1>4. Planned(store, m, a) = "read"
  <2>1. Planned(store, m, a) # "refused" /\ Planned(store, m, a) # "missing"
    BY <1>2, <1>3 DEF PassRefused
  <2>. QED BY <2>1 DEF Planned
<1>5. PICK k \in DOMAIN Chain[d] : Chain[d][k] = a
  BY DEF ToSet
<1>6. "ok" \in DeepClasses(store, m, {m}, a, key)
  BY <1>3, <1>5 DEF InOrder
<1>. QED BY <1>1, <1>4, <1>6, DeepReads

\* The chain and stock tiers: where seals are recorded the decode is not fed wrong bytes.
LEMMA ReplayReads ==
  ASSUME Ground, StoreOK, NEW d \in Dles, NEW m \in Media, store.sealed[m],
         NEW wrong, "ok" \in Replay(d, m, wrong), NEW a \in ToSet(Chain[d])
  PROVE  Stream(store, m, a) = "clean"
<1>1. PICK k \in DOMAIN Chain[d] : Chain[d][k] = a
  BY DEF ToSet
<1> DEFINE got == Stream(store, m, a)
<1>2. got # "corrupt" /\ got \in {"clean", "cut", "mismatch", "corrupt"}
  <2>1. a \in Archives
    BY DEF Archives
  <2>. QED BY <2>1, SealsTell DEF Stream
<1>3. "ok" \in (IF OpenRef(store, m, {m}, a) = {} THEN {"pipeline"}
                ELSE IF ~key THEN IF got = "mismatch" THEN {"integrity", "pipeline"} ELSE {"pipeline"}
                ELSE CASE got = "clean" -> {"ok"}
                       [] got = "mismatch" -> {"integrity"}
                       [] got = "cut" -> {"pipeline"}
                       [] OTHER -> wrong)
  BY <1>1 DEF Replay, InOrder
<1> HIDE DEF got
<1>4. got = "clean"
  BY <1>2, <1>3
<1>. QED BY <1>4 DEF got

LEMMA RestoringTiersRead ==
  ASSUME Ground, StoreOK, NEW d \in Dles, NEW m \in Media, store.sealed[m],
         "ok" \in ChainTier(d, m) \/ "ok" \in StockTier(d, m), NEW a \in ToSet(Chain[d])
  PROVE  Planned(store, m, a) = "read" /\ Stream(store, m, a) = "clean"
<1>1. ~PassRefused(store, m, ToSet(Chain[d])) /\ PassMissing(store, m, ToSet(Chain[d])) = {}
  BY DEF ChainTier, StockTier
<1>2. \/ "ok" \in Replay(d, m, {"ok", "pipeline", "chain"})
      \/ "ok" \in Replay(d, m, {"ok", "pipeline"})
  BY <1>1 DEF ChainTier, StockTier
<1>3. Planned(store, m, a) = "read"
  BY <1>1 DEF PassRefused, PassMissing, Planned
<1>. QED BY <1>2, <1>3, ReplayReads

\* A drill is of one of the DLE's media.
LEMMA DrillMediumIsRouted ==
  ASSUME Ground, NEW d \in Dles
  PROVE  DrillMedium(d) \in Media
<1>1. Route[d] \in Seq(Media) /\ Route[d] # <<>>
  BY DEF Ground, DrillingAssumption
<1>2. CASE \E m \in ToSet(Route[d]) : HoldsChain(d, m)
  <2> DEFINE S == {i \in DOMAIN Route[d] : HoldsChain(d, Route[d][i])}
  <2>1. S \in SUBSET Nat /\ S # {}
    BY <1>1, <1>2 DEF ToSet
  <2>2. PICK i \in S : \A k \in S : i <= k
    <3> HIDE DEF S
    <3>. QED BY <2>1, Least
  <2>3. \A j \in 1..(i - 1) : ~HoldsChain(d, Route[d][j])
    <3> TAKE j \in 1..(i - 1)
    <3>1. i \in DOMAIN Route[d] /\ j \in DOMAIN Route[d] /\ ~(i <= j)
      BY <1>1
    <3>. QED BY <2>2, <3>1
  <2> DEFINE first(x) == HoldsChain(d, Route[d][x]) /\ \A j \in 1..(x - 1) : ~HoldsChain(d, Route[d][j])
             c == CHOOSE x \in DOMAIN Route[d] : first(x)
  <2>4. c \in DOMAIN Route[d]
    <3>1. \E x \in DOMAIN Route[d] : first(x)
      BY <2>2, <2>3
    <3> HIDE DEF first
    <3>. QED BY <3>1
  <2>5. DrillMedium(d) = Route[d][c]
    BY <1>2 DEF DrillMedium
  <2> HIDE DEF c
  <2>. QED BY <1>1, <2>4, <2>5
<1>3. CASE ~\E m \in ToSet(Route[d]) : HoldsChain(d, m)
  <2>1. DrillMedium(d) = Route[d][1] /\ 1 \in DOMAIN Route[d]
    BY <1>1, <1>3 DEF DrillMedium
  <2>. QED BY <1>1, <2>1
<1>. QED BY <1>2, <1>3

\* A run verified ok, on any set of known media, restores whole from what is known.
LEMMA VerifiedRestores ==
  ASSUME Ground, NEW known \in SUBSET Media, NEW s, s.opens \subseteq known,
         RunVerdict(s, known, Archives, Archives) = "ok", NEW a \in Archives,
         NEW m \in known, a \in s.on[m]
  PROVE  /\ Planned(s, "", a) = "read"
         /\ OpenRef(s, "", {}, a) # {}
         /\ \A x \in OpenRef(s, "", {}, a) : Stream(s, x, a) = "clean"
<1>1. "" \notin Media /\ Preference \in Seq(Media)
  BY DEF Ground, RestoringAssumption
<1>2. ASSUME NEW x \in known, a \in s.on[x]
      PROVE  /\ x \in s.opens
             /\ "ok" \in ChecksumClasses(s, x, {x}, a)
  <2>1. x \in Media /\ Archives \cap s.on[x] # {} /\ a \in Archives \cap s.on[x]
    BY <1>2
  <2>2. CopyVerdict(s, known, x, Archives) # "bad"
    BY <2>1 DEF RunVerdict
  <2>3. x \in s.opens
    BY <2>1, <2>2, <1>2 DEF CopyVerdict
  <2>4. ChecksumClasses(s, x, {x}, a) = {"ok"}
    BY <2>1, <2>2, <2>3, <1>2 DEF CopyVerdict
  <2>. QED BY <2>3, <2>4
<1>3. Planned(s, "", a) = "read"
  <2>1. m \in Media /\ m \in s.opens /\ Carries(s, "", a, m)
    BY <1>2 DEF Carries
  <2>. QED BY <2>1 DEF Planned
<1>4. ASSUME NEW x \in known, a \in s.on[x]
      PROVE  Opens(s, "", {}, a, x) /\ Stream(s, x, a) = "clean"
  <2>1. Stream(s, x, a) = "clean" /\ x \in OpenRef(s, x, {x}, a)
    BY <1>1, <1>2, <1>4, ChecksumReads
  <2>2. Opens(s, x, {x}, a, x)
    BY <2>1, OpenedOpens
  <2>. QED BY <1>2, <1>4, <2>1, <2>2 DEF Opens, Carries
<1>5. OpenRef(s, "", {}, a) # {}
  <2>1. m \in Media /\ Opens(s, "", {}, a, m)
    BY <1>4
  <2>. QED BY <1>1, <2>1, SomethingOpens
<1>6. ASSUME NEW x \in OpenRef(s, "", {}, a) PROVE Stream(s, x, a) = "clean"
  <2>1. Opens(s, "", {}, a, x)
    BY OpenedOpens
  <2>2. x \in s.opens /\ a \in s.on[x]
    BY <2>1 DEF Opens, Carries
  <2>. QED BY <1>4, <2>2
<1>. QED BY <1>3, <1>5, <1>6

LEMMA VerifiedRunsRestore == Ground => VerifiedRunRestores
<1> SUFFICES ASSUME Ground, NEW known \in (SUBSET Media) \ {{}}
             PROVE  LET s == [store EXCEPT !.opens = @ \cap known]
                    IN RunVerdict(s, known, Archives, Archives) = "ok" =>
                         \A a \in Archives : (\E m \in known : a \in s.on[m]) =>
                           /\ Planned(s, "", a) = "read"
                           /\ OpenRef(s, "", {}, a) # {}
                           /\ \A m \in OpenRef(s, "", {}, a) : Stream(s, m, a) = "clean"
  BY DEF VerifiedRunRestores
<1> DEFINE s == [store EXCEPT !.opens = @ \cap known]
<1>1. s.opens \subseteq known
  OBVIOUS
<1> HIDE DEF s
<1>2. RunVerdict(s, known, Archives, Archives) = "ok" =>
         \A a \in Archives : (\E m \in known : a \in s.on[m]) =>
           /\ Planned(s, "", a) = "read"
           /\ OpenRef(s, "", {}, a) # {}
           /\ \A m \in OpenRef(s, "", {}, a) : Stream(s, m, a) = "clean"
  <2>1. SUFFICES ASSUME RunVerdict(s, known, Archives, Archives) = "ok", NEW a \in Archives,
                        NEW m \in known, a \in s.on[m]
                 PROVE  /\ Planned(s, "", a) = "read"
                        /\ OpenRef(s, "", {}, a) # {}
                        /\ \A x \in OpenRef(s, "", {}, a) : Stream(s, x, a) = "clean"
    OBVIOUS
  <2>2. known \in SUBSET Media
    OBVIOUS
  <2>. QED BY <1>1, <2>1, <2>2, VerifiedRestores
<1>. QED BY <1>2 DEF s

-----------------------------------------------------------------------------
\* The restore: its own steps, on a store that stays put meanwhile.

\* A request is for the chain of a DLE.
LEMMA WantedIsChain ==
  ASSUME Ground, req \in Requests
  PROVE  /\ Wanted \in Seq(Archives) /\ Len(Wanted) > 0
         /\ DOMAIN Wanted = 1..Len(Wanted) /\ Len(Wanted) \in Nat
         /\ StepSet = {Wanted[k] : k \in DOMAIN Wanted}
<1>1. req.dle \in Dles
  BY DEF Ground, DrillingAssumption, Request
<1>2. Wanted \in Seq(Archives) /\ Wanted # <<>>
  BY <1>1 DEF Ground, RestoringAssumption, Wanted
<1>3. StepSet = {Wanted[k] : k \in DOMAIN Wanted}
  BY DEF StepSet, ToSet
<1> HIDE DEF Wanted
<1>. QED BY <1>2, <1>3

\* Only what has no copy is missing.
LEMMA MissingHasNoCopy ==
  ASSUME NEW s, s.opens \subseteq Media, NEW pin, NEW a
  PROVE  Planned(s, pin, a) = "missing" <=> \A m \in Media : ~Carries(s, pin, a, m)
BY DEF Planned

\* With every level located none is passed over.
LEMMA NextLevel ==
  ASSUME Ground, req \in Requests, Located, NEW k \in 0..Len(Wanted)
  PROVE  After(k) = k + 1
<1> DEFINE p(j) == /\ (j > Len(Wanted) \/ j \in ToRead)
                   /\ \A i \in (k + 1)..(j - 1) : i \notin ToRead
<1>1. ToRead = DOMAIN Wanted
  BY WantedIsChain DEF ToRead, Located
<1>2. k + 1 \in (k + 1)..(Len(Wanted) + 1) /\ p(k + 1)
  BY <1>1, WantedIsChain
<1>3. ASSUME NEW j \in (k + 1)..(Len(Wanted) + 1), p(j) PROVE j = k + 1
  <2> SUFFICES ASSUME j # k + 1 PROVE FALSE
    OBVIOUS
  <2>1. k + 1 \in (k + 1)..(j - 1) /\ k + 1 \in 1..Len(Wanted)
    BY WantedIsChain
  <2>. QED BY <1>1, <1>3, <2>1, WantedIsChain
<1>4. After(k) = CHOOSE j \in (k + 1)..(Len(Wanted) + 1) : p(j)
  BY DEF After
<1> HIDE DEF p
<1>. QED BY <1>2, <1>3, <1>4

\* Every step of a restore.
LEMMA RestoreKeeps ==
  ASSUME Ground, StoreOK, RestoreOK, Restore
  PROVE  RestoreOK' /\ OwnFilesSurvive
<1> USE DEF RestoreOK, QuietFailureLandsNothing, OwnFilesSurvive, Guarded
<1>0. store' = store
  BY DEF Restore, storeVars
<1>1. ASSUME NEW r \in Requests, NEW own \in BOOLEAN, Ask(r, own)
      PROVE  RestoreOK' /\ OwnFilesSurvive
  BY <1>1 DEF Ask
<1>2. CASE Refuse
  BY <1>2 DEF Refuse, Over
<1>3. CASE Admit
  BY <1>3 DEF Admit
<1>4. CASE Locate
  <2>1. CASE Over("plain")
    BY <1>4, <2>1 DEF Locate, Over
  <2>2. CASE ~Over("plain")
    <3>1. pc' = "plan" /\ pc = "locate" /\ UNCHANGED <<outcome, req, pooled, at, foreign, landed>>
      BY <1>4, <2>2 DEF Locate
    <3>2. Located
      BY <1>4, <2>2 DEF Locate, Located, PassMissing
    <3>3. Located'
      BY <1>0, <3>1, <3>2 DEF Located, StepSet, Wanted
    <3>. QED BY <3>1, <3>3
  <2>. QED BY <2>1, <2>2
<1>5. CASE Plan
  <2>1. CASE pc' = "failing"
    BY <1>5, <2>1 DEF Plan
  <2>2. CASE pc' # "failing"
    <3>1. /\ pc = "plan" /\ pc' = "read" /\ at' = After(0)
          /\ UNCHANGED <<req, foreign, landed, outcome>>
      BY <1>5, <2>2 DEF Plan
    <3>2. at' = 1 /\ 1 \in 1..(Len(Wanted) + 1)
      BY <3>1, NextLevel, WantedIsChain
    <3>3. Located' /\ Wanted' = Wanted /\ In(0)'
      BY <1>0, <3>1 DEF Located, StepSet, Wanted, In
    <3>. QED BY <3>1, <3>2, <3>3
  <2>. QED BY <2>1, <2>2
<1>6. CASE SetupFails
  <2>1. pc = "read" /\ pc' = "over" /\ outcome' = "plain" /\ UNCHANGED <<req, foreign, landed>>
    BY <1>6 DEF SetupFails, Reading, Over
  <2>2. ~req.remote /\ ~req.combine => at = 1
    BY <1>6, <2>1, NextLevel, WantedIsChain DEF SetupFails
  <2>3. at = 1 => landed = <<>>
    BY <2>1 DEF In
  <2>. QED BY <2>1, <2>2, <2>3
<1>7. CASE OpenFails
  BY <1>7 DEF OpenFails, Reading
<1>8. CASE ExtractStep
  <2>1. PICK m \in Sources : \E how \in Results(Stream(store, m, Wanted[at])) :
          /\ Land(how)
          /\ IF how = "partial" THEN pc' = "failing" /\ UNCHANGED at
             ELSE at' = After(at) /\ UNCHANGED pc
    BY <1>8 DEF ExtractStep, Results
  <2>0. PICK how \in Results(Stream(store, m, Wanted[at])) :
          /\ Land(how)
          /\ IF how = "partial" THEN pc' = "failing" /\ UNCHANGED at
             ELSE at' = After(at) /\ UNCHANGED pc
    BY <2>1
  <2>2. pc = "read" /\ at \in DOMAIN Wanted /\ UNCHANGED <<req, pooled, foreign, outcome>>
    BY <1>8 DEF ExtractStep, Reading, ToRead
  <2>3. CASE how = "partial"
    BY <2>0, <2>2, <2>3
  <2>4. CASE how # "partial"
    <3>1. at' = at + 1 /\ at' \in 1..(Len(Wanted) + 1)
      BY <2>0, <2>2, <2>4, NextLevel, WantedIsChain
    <3>2. Wanted[at] \in Archives /\ m \in Media
      BY <2>2, WantedIsChain, OpenedOpens DEF Sources
    <3>3. how \in {"whole", "wrong"} /\ ((\A x \in Media : store.sealed[x]) => how = "whole")
      BY <2>0, <2>4, <3>2, SealsTell DEF Results
    <3>4. Located' /\ Wanted' = Wanted
      BY <1>0, <2>2 DEF Located, StepSet, Wanted
    <3>5. In(at - 1)'
      <4>1. /\ landed \in Seq([step : Archives, is : {"whole", "wrong", "partial"}])
            /\ Len(landed) = at - 1
            /\ landed' = Append(landed, [step |-> Wanted[at], is |-> how])
        BY <2>0, <2>2 DEF In, Land
      <4>2. [step |-> Wanted[at], is |-> how] \in [step : Archives, is : {"whole", "wrong", "partial"}]
        BY <3>2, <3>3
      <4>3. at \in Nat /\ at > 0
        BY <2>2, WantedIsChain
      <4>4. /\ landed' \in Seq([step : Archives, is : {"whole", "wrong", "partial"}])
            /\ Len(landed') = at
            /\ landed'[at] = [step |-> Wanted[at], is |-> how]
            /\ \A k \in 1..(at - 1) : landed'[k] = landed[k]
        BY <4>1, <4>2, <4>3
      <4>5. ASSUME NEW k \in 1..at
            PROVE  /\ landed'[k].step = Wanted[k] /\ landed'[k].is # "partial"
                   /\ (\A x \in Media : store.sealed[x]) => landed'[k].is = "whole"
        <5>1. CASE k = at
          BY <3>3, <4>4, <5>1
        <5>2. CASE k # at
          BY <2>2, <4>3, <4>4, <5>2 DEF In
        <5>. QED BY <5>1, <5>2
      <4>6. at' - 1 = at
        BY <3>1, <4>3
      <4>. QED BY <1>0, <3>4, <4>4, <4>5, <4>6 DEF In
    <3>. QED BY <2>0, <2>2, <2>4, <3>1, <3>4, <3>5
  <2>. QED BY <2>3, <2>4
<1>9. CASE FinishRestore
  <2>1. pc = "read" /\ at > Len(Wanted) /\ UNCHANGED <<req, foreign, landed>>
    BY <1>9 DEF FinishRestore
  <2>2. In(Len(Wanted)) /\ Wanted' = Wanted
    <3>1. at = Len(Wanted) + 1 /\ Len(Wanted) \in Nat
      BY <2>1, WantedIsChain
    <3>. QED BY <2>1, <3>1 DEF Wanted
  <2>3. In(Len(Wanted))'
    BY <1>0, <2>1, <2>2 DEF In
  <2>. QED BY <1>9, <2>1, <2>3 DEF FinishRestore, Over
<1>10. CASE Fail
  BY <1>10 DEF Fail, Over
<1>11. CASE Discard
  BY <1>11 DEF Discard
<1>. QED BY <1>1, <1>2, <1>3, <1>4, <1>5, <1>6, <1>7, <1>8, <1>9, <1>10, <1>11 DEF Restore, Extracting

-----------------------------------------------------------------------------
\* What happens to a store changes neither its placements nor its seals.

LEMMA FaultsKeepStore ==
  ASSUME Ground, StoreOK, Faults
  PROVE  StoreOK' /\ store'.on = store.on /\ store'.sealed = store.sealed
<1>1. ASSUME NEW m \in Media, NEW a \in Archives, NEW k, Damage(m, a, k)
      PROVE  StoreOK' /\ store'.on = store.on /\ store'.sealed = store.sealed
  <2>1. PICK how \in {"torn", "gone"} : store' = [store EXCEPT !.part[m][a][k] = how]
    BY <1>1 DEF Damage
  <2> DEFINE files == [store.part EXCEPT ![m] =
                        [store.part[m] EXCEPT ![a] = [store.part[m][a] EXCEPT ![k] = how]]]
  <2>2. store' = [on |-> store.on, part |-> files, sealed |-> store.sealed, opens |-> store.opens]
    <3>1. store' = [store EXCEPT !.part = files]
      BY <2>1
    <3> HIDE DEF files
    <3>. QED BY <3>1 DEF StoreOK
  <2>3. files = [n \in Media |-> [b \in Archives |-> files[n][b]]]
    BY DEF StoreOK
  <2>4. ASSUME NEW n \in Media, NEW b \in Archives
        PROVE  files[n][b] \in [1..NParts[b] -> PartStates]
    <3>1. store.part[n][b] \in [1..NParts[b] -> PartStates]
      BY DEF StoreOK
    <3>2. files[n][b] = IF n = m /\ b = a THEN [store.part[m][a] EXCEPT ![k] = how]
                       ELSE store.part[n][b]
      BY DEF StoreOK
    <3>3. \A f \in [1..NParts[b] -> PartStates] : [f EXCEPT ![k] = how] \in [1..NParts[b] -> PartStates]
      BY DEF PartStates
    <3> HIDE DEF files
    <3>. QED BY <3>1, <3>2, <3>3
  <2> HIDE DEF files
  <2>. QED BY <2>2, <2>3, <2>4 DEF StoreOK
<1>2. ASSUME NEW m \in Media, Unreach(m)
      PROVE  StoreOK' /\ store'.on = store.on /\ store'.sealed = store.sealed
  <2>1. store' = [on |-> store.on, part |-> store.part, sealed |-> store.sealed,
                  opens |-> store.opens \ {m}]
    BY <1>2 DEF Unreach, StoreOK
  <2>. QED BY <2>1 DEF StoreOK
<1>3. CASE LoseKey
  BY <1>3 DEF LoseKey, StoreOK
<1>. QED BY <1>1, <1>2, <1>3 DEF Faults

LEMMA FaultsKeep ==
  ASSUME Ground, DInv, Faults, UNCHANGED <<restoreVars, drillVars>>
  PROVE  DInv' /\ OwnFilesSurvive
<1>1. /\ UNCHANGED <<req, pc, pooled, at, foreign, landed, outcome, ledger>>
      /\ StoreOK' /\ store'.on = store.on /\ store'.sealed = store.sealed
  BY FaultsKeepStore DEF DInv, restoreVars, drillVars
<1>2. Wanted' = Wanted /\ StepSet' = StepSet
  BY <1>1 DEF Wanted, StepSet
<1>3. Located => Located'
  <2>1. \A a, m : Carries(store', req.from, a, m) <=> Carries(store, req.from, a, m)
    BY <1>1 DEF Carries
  <2>2. ASSUME NEW a
        PROVE  Planned(store, req.from, a) = "missing" <=> Planned(store', req.from, a) = "missing"
    <3>1. store.opens \subseteq Media /\ store'.opens \subseteq Media
      BY <1>1 DEF DInv, StoreOK
    <3>. QED BY <2>1, <3>1, MissingHasNoCopy
  <2>. QED BY <1>1, <1>2, <2>2 DEF Located
<1>4. ASSUME NEW n, In(n) PROVE In(n)'
  BY <1>1, <1>2, <1>4 DEF In
<1>5. RestoreOK'
  <2>1. pc = "read" => In(at - 1)'
    BY <1>1, <1>4 DEF DInv, RestoreOK
  <2>2. outcome = "ok" => In(Len(Wanted))'
    BY <1>1, <1>2, <1>4 DEF DInv, RestoreOK
  <2>. QED BY <1>1, <1>2, <1>3, <2>1, <2>2 DEF DInv, RestoreOK, QuietFailureLandsNothing, Guarded
<1>. QED BY <1>1, <1>5 DEF DInv, LedgerOK, OwnFilesSurvive

-----------------------------------------------------------------------------
\* The drills: only a target exercised changes how often a DLE has been drilled.

LEMMA TargetProves ==
  ASSUME Ground, DInv, DrillTarget
  PROVE  LedgerOK' /\ PassProvesRestore
<1>0. StoreOK /\ LedgerOK
  BY DEF DInv
<1>1. CASE UNCHANGED ledger
  BY <1>0, <1>1 DEF LedgerOK, PassProvesRestore
<1>2. CASE Exercise(Head(queue))
  <2> DEFINE e == Head(queue)
  <2>1. PICK c \in TierClasses(tier, e, DrillMedium(e)) : Recorded(e, c)
    BY <1>2 DEF Exercise
  <2>2. ledger' = [ledger EXCEPT ![e] = [age |-> 0, class |-> c, drills |-> (ledger[e].drills + 1) % Rotation]]
    BY <2>1 DEF Recorded
  <2>3. LedgerOK'
    <3>1. DOMAIN ledger' = Dles
      BY <1>0, <2>2 DEF LedgerOK
    <3>2. ASSUME NEW d \in Dles PROVE "drills" \in DOMAIN ledger'[d]
      BY <1>0, <2>2 DEF LedgerOK
    <3>. QED BY <3>1, <3>2 DEF LedgerOK
  <2>4. PassProvesRestore
    <3> SUFFICES ASSUME NEW d \in Dles,
                        ledger'[d].drills # ledger[d].drills, ledger'[d].class = "ok",
                        \/ tier \in {"checksum", "structural"}
                        \/ tier \in {"chain", "stock"} /\ store.sealed[DrillMedium(d)],
                        NEW a \in ToSet(Chain[d])
                 PROVE  /\ Planned(store, DrillMedium(d), a) = "read"
                        /\ Stream(store, DrillMedium(d), a) = "clean"
      BY DEF PassProvesRestore
    <3>1. d = e
      BY <1>0, <2>2 DEF LedgerOK
    <3>2. c = "ok"
      BY <1>0, <2>2, <3>1 DEF LedgerOK
    <3>3. "ok" \in TierClasses(tier, d, DrillMedium(d))
      BY <2>1, <3>1, <3>2
    <3>4. DrillMedium(d) \in Media
      BY DrillMediumIsRouted
    <3>5. CASE tier = "checksum"
      BY <3>3, <3>4, <3>5, ChecksumTierReads DEF TierClasses
    <3>6. CASE tier = "structural"
      BY <3>3, <3>4, <3>6, StructuralTierReads DEF TierClasses
    <3>7. CASE tier \in {"chain", "stock"}
      <4>1. "ok" \in ChainTier(d, DrillMedium(d)) \/ "ok" \in StockTier(d, DrillMedium(d))
        BY <3>3, <3>7 DEF TierClasses
      <4>. QED BY <1>0, <3>4, <3>7, <4>1, RestoringTiersRead
    <3>. QED BY <3>5, <3>6, <3>7
  <2>. QED BY <2>3, <2>4
<1>. QED BY <1>1, <1>2 DEF DrillTarget, SkippedTarget

LEMMA DrillsKeep ==
  ASSUME Ground, DInv, Nightly \/ ByHand \/ Dying
  PROVE  DInv' /\ OwnFilesSurvive /\ PassProvesRestore
<1>1. UNCHANGED <<store, req, pooled, at, foreign, landed, outcome>>
  BY DEF Nightly, ByHand, Dying, storeVars, restoreVars
<1>2. UNCHANGED pc \/ (pc \in {"idle", "quiet"} /\ pc' = "quiet")
  BY DEF Nightly, ByHand, Dying, restoreVars, Configure
<1>3. StoreOK' /\ OwnFilesSurvive
  BY <1>1 DEF DInv, StoreOK, OwnFilesSurvive
<1>4. RestoreOK'
  <2>1. Located' = Located /\ Wanted' = Wanted /\ Guarded' = Guarded
    BY <1>1 DEF Located, Wanted, StepSet, Guarded
  <2>2. In(at - 1)' = In(at - 1) /\ In(Len(Wanted))' = In(Len(Wanted))
    BY <1>1, <2>1 DEF In
  <2>. QED BY <1>1, <1>2, <2>1, <2>2 DEF DInv, RestoreOK, QuietFailureLandsNothing
<1>5. LedgerOK' /\ PassProvesRestore
  <2>1. CASE UNCHANGED ledger
    BY <2>1 DEF DInv, LedgerOK, PassProvesRestore
  <2>2. CASE DrillTarget
    BY <2>2, TargetProves
  <2>3. CASE NextDay
    <3>1. DOMAIN ledger' = Dles
      BY <2>3 DEF NextDay
    <3>2. ASSUME NEW d \in Dles
          PROVE  "drills" \in DOMAIN ledger'[d] /\ ledger'[d].drills = ledger[d].drills
      <4>1. ledger'[d] = [ledger[d] EXCEPT !.age = IF @ = Never THEN @ ELSE Min({@ + 1, Oldest})]
        BY <2>3 DEF NextDay
      <4>2. "drills" \in DOMAIN ledger[d] /\ "drills" # "age"
        BY DEF DInv, LedgerOK
      <4>. QED BY <4>1, <4>2
    <3>. QED BY <3>1, <3>2 DEF LedgerOK, PassProvesRestore
  <2>. QED BY <2>1, <2>2, <2>3 DEF Nightly, ByHand, Dying, Configure, StartDrill, Redrill, Interrupted
<1>. QED BY <1>3, <1>4, <1>5 DEF DInv

-----------------------------------------------------------------------------
LEMMA DrillingStep ==
  ASSUME Ground, DInv, [DrillingNext]_drillingVars
  PROVE  DInv' /\ OwnFilesSurvive /\ PassProvesRestore
<1>1. CASE Restore
  <2>1. RestoreOK' /\ OwnFilesSurvive /\ UNCHANGED <<store, ledger>>
    BY <1>1, RestoreKeeps DEF DInv, Restore, storeVars, drillVars
  <2>. QED BY <2>1 DEF DInv, StoreOK, LedgerOK, PassProvesRestore
<1>2. CASE Nightly \/ ByHand \/ Dying
  BY <1>2, DrillsKeep
<1>3. CASE Faults /\ UNCHANGED <<restoreVars, drillVars>>
  <2>1. DInv' /\ OwnFilesSurvive /\ UNCHANGED ledger
    BY <1>3, FaultsKeep DEF drillVars
  <2>. QED BY <2>1 DEF PassProvesRestore
<1>4. CASE UNCHANGED drillingVars
  <2>1. UNCHANGED <<store, req, pc, pooled, at, foreign, landed, outcome, ledger>>
    BY <1>4 DEF drillingVars, storeVars, restoreVars, drillVars
  <2>2. Located' = Located /\ Wanted' = Wanted /\ Guarded' = Guarded
    BY <2>1 DEF Located, Wanted, StepSet, Guarded
  <2>3. In(at - 1)' = In(at - 1) /\ In(Len(Wanted))' = In(Len(Wanted))
    BY <2>1, <2>2 DEF In
  <2>4. RestoreOK'
    BY <2>1, <2>2, <2>3 DEF DInv, RestoreOK, QuietFailureLandsNothing
  <2>. QED BY <2>1, <2>4 DEF DInv, StoreOK, LedgerOK, OwnFilesSurvive, PassProvesRestore
<1>. QED BY <1>1, <1>2, <1>3, <1>4 DEF DrillingNext

LEMMA DrillingStarts ==
  ASSUME Ground, DrillingInit
  PROVE  DInv
<1>1. StoreOK
  <2>1. PICK on \in Placements, sealed \in Sealings :
          store = [on |-> on, part |-> [m \in Media |-> Whole], sealed |-> sealed, opens |-> Media]
    BY DEF DrillingInit, StoreInit
  <2>2. on \in [Media -> SUBSET Archives] /\ sealed \in [Media -> BOOLEAN]
    BY DEF Ground, DrillingAssumption
  <2>. QED BY <2>1, <2>2 DEF StoreOK, Whole, PartStates
<1>2. RestoreOK
  BY DEF DrillingInit, RestoreInit, RestoreOK, QuietFailureLandsNothing
<1>3. LedgerOK
  BY DEF DrillingInit, DrillInit, Cold, LedgerOK
<1>. QED BY <1>1, <1>2, <1>3 DEF DInv

LEMMA WholeAsFound ==
  ASSUME Ground, DInv
  PROVE  RestoreIsWhole
<1>1. RestoredIsChain
  <2> SUFFICES ASSUME outcome = "ok"
               PROVE  /\ [k \in DOMAIN landed |-> landed[k].step] = Wanted
                      /\ \A k \in DOMAIN landed : landed[k].is # "partial"
                      /\ (\A m \in Media : store.sealed[m]) => \A k \in DOMAIN landed : landed[k].is = "whole"
    BY DEF RestoredIsChain
  <2>1. In(Len(Wanted)) /\ req \in Requests
    BY DEF DInv, RestoreOK
  <2>2. Len(landed) = Len(Wanted) /\ DOMAIN landed = 1..Len(Wanted) /\ DOMAIN Wanted = 1..Len(Wanted)
    BY <2>1, WantedIsChain DEF In
  <2>3. [k \in DOMAIN landed |-> landed[k].step] = Wanted
    <3>1. Wanted = [k \in DOMAIN landed |-> Wanted[k]]
      BY <2>1, <2>2, WantedIsChain
    <3>. QED BY <2>1, <2>2, <3>1 DEF In
  <2>. QED BY <2>1, <2>2, <2>3 DEF In
<1>. QED BY <1>1, VerifiedRunsRestore DEF DInv, RestoreOK, RestoreIsWhole

\* A restore that reports success landed the whole chain in order, one that fails quietly left
\* nothing, and a run verified ok is read back whole: whatever happens to the copies, the media
\* and the key meanwhile.
THEOREM RestoresAreWhole ==
  ASSUME RestoringAssumption, DrillingAssumption
  PROVE  DrillingSpec => []RestoreIsWhole
<1>. Ground
  BY DEF Ground
<1>1. DrillingInit => DInv
  BY DrillingStarts
<1>2. DInv /\ [DrillingNext]_drillingVars => DInv'
  BY DrillingStep
<1>3. DInv => RestoreIsWhole
  BY WholeAsFound
<1>. QED BY <1>1, <1>2, <1>3, PTL DEF DrillingSpec

\* No step of a restore or a drill removes what the operator keeps in the destination, and a
\* drill of the whole chain that passes has proved the restore from the medium it read.
THEOREM DrillsProveRestores ==
  ASSUME RestoringAssumption, DrillingAssumption
  PROVE  DrillingSpec => DrillsAreHonest
<1>. Ground
  BY DEF Ground
<1>1. DrillingInit => DInv
  BY DrillingStarts
<1>2. DInv /\ [DrillingNext]_drillingVars => DInv' /\ OwnFilesSurvive /\ PassProvesRestore
  BY DrillingStep
<1>. QED BY <1>1, <1>2, PTL DEF DrillingSpec, DrillsAreHonest
=============================================================================
