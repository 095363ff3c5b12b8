---------------------------- MODULE Calculations ----------------------------
(***************************************************************************)
(* The parts of the program that compute an answer from data they do not   *)
(* change, each on every input of bounded families.                        *)
(***************************************************************************)
EXTENDS Integers, Sequences

CONSTANTS
  Families,             \* the inputs: [kind, of], of a set of inputs of that kind
  Rotations,            \* see RangedRead
  Ancestors, Relations, \* see Selecting
  TopLevel, BumpDays,   \* see Scheduling
  Hyphenated,           \* see Sources
  Writers, Every, Keep, Window, Interval,  \* see Metering
  Accepted, Ceiling     \* see Settings

RangedReads == INSTANCE RangedRead
Selections == INSTANCE Selecting
Schedules == INSTANCE Scheduling
Resolutions == INSTANCE Sources
Forecasts == INSTANCE Forecasting
Meters == INSTANCE Metering
Configs == INSTANCE Readiness

VARIABLES family, input
vars == <<family, input>>

Unset == [kind |-> "none"]
Init == family \in Families /\ input = Unset
Compute ==
  /\ input = Unset
  /\ \E x \in family.of : input' = [kind |-> family.kind, of |-> x]
  /\ family' = [kind |-> family.kind, of |-> {}]
Done == input # Unset /\ UNCHANGED vars
Next == Compute \/ Done
Spec == Init /\ [][Next]_vars
-----------------------------------------------------------------------------
(* Properties: each holds of every input of its kind. *)

\* A ranged read delivers what was selected of the archive, at the cost nb recover forecast,
\* and a drill's sample of it is a sound verdict that gets round (RangedRead); files recovered
\* out of a chain are what was selected (Selecting).
ReadsAreExact ==
  /\ input.kind = "layout" => /\ RangedReads!RangedReadIsExact(input.of)
                              /\ RangedReads!ForecastIsSpent(input.of)
                              /\ RangedReads!SampleIsSound(input.of)
  /\ input.kind = "history" => Selections!RecoveredIsSelection(input.of)

\* A schedule keeps what the planner promises (Scheduling), what the sources hold is dumped
\* once and owed through any outage (Sources), and a forecast of bytes and reels is what the
\* schedule and the rotation will meet (Forecasting).
PlansAreKept ==
  /\ input.kind = "schedule" => Schedules!ScheduleIsKept(input.of)
  /\ input.kind = "sources" => Resolutions!SourcesAreKept(input.of)
  /\ input.kind = "forecast" => Forecasts!ForecastIsKept(input.of)
  /\ input.kind = "rotation" => Forecasts!RotationIsKept(input.of)

\* The tracker's clocks and rates measure what happened (Metering).
MetersAreTrue == input.kind = "meters" => Meters!MetersAreTrue(input.of)

\* An accepted configuration routes, places and shapes every dump soundly (Settings), a clean
\* nb check is right of the dump and of the catalog, and an archiver opened is the one the
\* configuration names, unless a dumptype is called like another archiver (Readiness).
ConfigurationIsSound ==
  /\ input.kind = "settings" => Configs!SettingsAreSound(input.of)
  /\ input.kind = "world" => Configs!CheckIsHonest(input.of)
  /\ input.kind = "catalog" => Configs!OverdueIsLoud(input.of)
  /\ input.kind = "requests" => Configs!OpenedIsConfigured(input.of)
=============================================================================
