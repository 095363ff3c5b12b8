------------------------------ MODULE DataFlows ------------------------------
(***************************************************************************)
(* The two pipelines an archive passes through, out and back: the transfer *)
(* of one dump onto its volumes, and restores and drills of what the media *)
(* hold.  A behaviour runs one of them, chosen at the start, over small    *)
(* constants.  The transfer is this module's own, and waits at its start   *)
(* while the drills run.                                                   *)
(***************************************************************************)
EXTENDS Transfers, Drilling, TLC

CONSTANTS DiskMedium, TapeMedium, a1, a2, b1   \* the drills' media and archives

VARIABLE which

-----------------------------------------------------------------------------
\* Two DLEs, one with an incremental and a full of two parts, on a disk and a station.  The
\* archives are everywhere; or the full is evicted from disk; or the incremental is not on
\* tape yet.
MCPreference == <<DiskMedium, TapeMedium>>
MCChain == <<<<a1, a2>>, <<b1>>>>
MCNParts == [a \in {a1, a2, b1} |-> IF a = a1 THEN 2 ELSE 1]
MCRoute == <<<<DiskMedium, TapeMedium>>, <<DiskMedium>>>>
Everywhere == (DiskMedium :> {a1, a2, b1}) @@ (TapeMedium :> {a1, a2})
MCPlacements == {Everywhere,
               (DiskMedium :> {a2, b1}) @@ (TapeMedium :> {a1, a2}),
               (DiskMedium :> {a1, a2, b1}) @@ (TapeMedium :> {a1})}
MCSealings == {[m \in {DiskMedium, TapeMedium} |-> s] : s \in BOOLEAN}
Plain == [dle |-> 1, from |-> "", remote |-> FALSE, force |-> FALSE, tree |-> TRUE,
          combine |-> FALSE, enc |-> "none", atomic |-> FALSE]
MCRequests ==
  {Plain, [Plain EXCEPT !.from = TapeMedium], [Plain EXCEPT !.tree = FALSE],
   [Plain EXCEPT !.force = TRUE], [Plain EXCEPT !.combine = TRUE],
   [Plain EXCEPT !.remote = TRUE], [Plain EXCEPT !.remote = TRUE, !.combine = TRUE],
   [Plain EXCEPT !.enc = "server"], [Plain EXCEPT !.enc = "server", !.atomic = TRUE],
   [Plain EXCEPT !.enc = "client", !.remote = TRUE], [Plain EXCEPT !.enc = "symmetric"],
   [Plain EXCEPT !.enc = "symmetric", !.remote = TRUE, !.atomic = TRUE]}
MCStations == {TapeMedium}

ASSUME DataFlowsAssumption ==
  TransfersAssumption /\ RestoringAssumption /\ DrillingAssumption

-----------------------------------------------------------------------------
flowVars == <<which, vars, drillingVars>>

FlowInit ==
  /\ Init /\ DrillingInit
  /\ \/ which = "transfer" /\ store.on = Everywhere /\ \A m \in Media : store.sealed[m]
     \/ which = "drill" /\ shape = "stream" /\ raw = 0

\* An action of one machine, and the other at rest.
OnlyTransfer(A) == which = "transfer" /\ A /\ UNCHANGED <<which, drillingVars>>
OnlyDrill(A) == which = "drill" /\ A /\ UNCHANGED <<which, vars>>

TransferStep == OnlyTransfer(Next)
DrillStep == OnlyDrill(DrillingNext)
FlowNext == TransferStep \/ DrillStep

\* As each machine's own: see its module.
FlowFairness ==
  /\ WF_flowVars(OnlyTransfer(Produce)) /\ WF_flowVars(OnlyTransfer(ProducerExits))
  /\ WF_flowVars(OnlyTransfer(ProducerBreaks)) /\ WF_flowVars(OnlyTransfer(StartFrame))
  /\ WF_flowVars(OnlyTransfer(Encode)) /\ WF_flowVars(OnlyTransfer(EncoderEnds))
  /\ WF_flowVars(OnlyTransfer(EncoderBreaks)) /\ WF_flowVars(OnlyTransfer(Drive))
  /\ WF_flowVars(OnlyDrill(Nightly)) /\ WF_flowVars(OnlyDrill(RestoreGoesOn))

FlowSpec == FlowInit /\ [][FlowNext]_flowVars /\ FlowFairness
-----------------------------------------------------------------------------
\* Properties: besides these TransferIsTrue (Transfers), RestoreIsWhole and DrillsAreHonest
\* (Drilling).

\* Every transfer comes to a verdict, whatever fails and whenever it is canceled, but for an
\* atomic one whose sink fails while its producer has more to say than a pipe holds
\* (WaitsOnProducer): that one may hang (transfer.go, chunk.go, atomic.go).
TransferEnds == <>[](which = "transfer" => Ended)

\* Every DLE that needs no operator is drilled again and again, and again and again with what
\* is damaged on the copy drilled reported: the rotation reaches every part, though the sample
\* tier looks at one a night (drill.go's selection and rotation).
DrillsComeRound ==
  \A d \in Dles :
    []<>(which = "drill" =>
           DrilledNow(d) /\ (TellingDamage(d) => Reported(d)))
=============================================================================
