----------------------------- MODULE Bookkeeping -----------------------------
(***************************************************************************)
(* What is recorded of a dump, beside its bytes: the archive chains of a   *)
(* DLE whose landings hold different runs; which reel is in which drive,   *)
(* and where the files on it are.  And what is computed from such records  *)
(* without changing them.  A behaviour follows one of them, chosen at the  *)
(* start, over small constants.  The drives are this module's own, and     *)
(* wait with their reels in the slots while another runs.                  *)
(***************************************************************************)
EXTENDS TapeDrive, TLC

VARIABLES which,
          arch, placed, snapshot, forced, step, plan, prune, aged, losses,
          family, input

-----------------------------------------------------------------------------
\* A DLE on two landings.
TwoMedia == INSTANCE DumpCycle WITH
  Media <- {"disk", "cloud"}, MaxLevel <- 2, MaxRuns <- 4, MaxLosses <- 0

\* Every input of bounded families: streams of 4 bytes, chains of 3 levels, calendars of a
\* 4-day cycle, forecasts of 3 days, reels of 12.
Inputs == INSTANCE MCFamilies WITH
  Size <- 4, MaxEnc <- 2, ChainDepth <- 3, MaxBlocks <- 2, Cycle <- 4, Horizon <- 3, Reel <- 12
Answers == INSTANCE Calculations WITH
  Families <- Inputs!AllFamilies, Rotations <- 0..3, Ancestors <- Inputs!MCAncestors,
  Relations <- {"x"}, TopLevel <- 9, BumpDays <- 2, Hyphenated <- Inputs!MCHyphenated,
  Writers <- {1, 2}, Every <- 2, Keep <- 6, Window <- 4, Interval <- 2,
  Accepted <- Inputs!MCAccepted, Ceiling <- Inputs!MCCeiling

ASSUME BookkeepingAssumption ==
  TwoMedia!CycleAssumption /\ TapeDriveAssumption

-----------------------------------------------------------------------------
chainOnly == <<arch, placed, snapshot, forced, step, plan, prune, aged, losses>>
answersOnly == <<family, input>>
bookVars == <<which, vars, chainOnly, answersOnly>>

\* A machine that does not run.
Off == "off"
NoChains ==
  /\ arch = Off /\ placed = Off /\ snapshot = Off /\ forced = Off /\ step = Off
  /\ plan = Off /\ prune = Off /\ aged = Off /\ losses = Off
NoAnswers == family = Off /\ input = Answers!Unset

BookInit ==
  /\ Init
  /\ \/ which = "tapes" /\ NoChains /\ NoAnswers
     \/ /\ kind = "robot"
        /\ \/ which = "two media" /\ TwoMedia!CycleInit /\ NoAnswers
           \/ which = "answers" /\ Answers!Init /\ NoChains

TapesStep == which = "tapes" /\ Next /\ UNCHANGED <<which, chainOnly, answersOnly>>
TwoMediaStep ==
  which = "two media" /\ TwoMedia!CycleNext /\ UNCHANGED <<which, vars, answersOnly>>
AnswersStep ==
  which = "answers" /\ Answers!Next /\ UNCHANGED <<which, vars, chainOnly>>
BookNext == TapesStep \/ TwoMediaStep \/ AnswersStep

BookSpec == BookInit /\ [][BookNext]_bookVars
-----------------------------------------------------------------------------
\* Properties: of the drives, ReelsAreKept (TapeDrive); of the others, each part is spelled out
\* in the module of its machine.

\* No step of a reclamation, however the copies are split between the landings, takes the
\* last full (retention.go, prune.go).
LastFullStays == [][which = "two media" => TwoMedia!LastFullKept]_bookVars

\* What is read of an archive by ranges, or recovered out of a chain, is what was selected, at
\* the cost that was forecast (restorer's ranged reads, recovery's merged tree).
ReadsAreExact == which = "answers" => Answers!ReadsAreExact

\* What the planner, the expansion of sources and the forecasts promise is what the schedule,
\* the dumps and the media then do.
PlansAreKept == which = "answers" => Answers!PlansAreKept

\* The tracker's clocks and rates measure what happened, in any order of overlapping writers.
MetersAreTrue == which = "answers" => Answers!MetersAreTrue

\* What the configuration accepts and nb check passes is what a run then finds.
ConfigurationIsSound == which = "answers" => Answers!ConfigurationIsSound
=============================================================================
