------------------------------- MODULE ZoneDay -------------------------------
(***************************************************************************)
(* One zone of any configuration on a day with any forecast, and an agent  *)
(* that asks for water again and again: each grant of clamp_minutes is     *)
(* added to the day, as water_zone does.  At every point of such a day the *)
(* properties compare grants and proposals over all readings.              *)
(***************************************************************************)
EXTENDS IrrigationPlan

CONSTANTS ZoneSet, Cfg,           \* configurations of a zone, the other settings
          SoilRange, TempRange,   \* readings
          Weathers,               \* forecasts
          Asked,                  \* requests, in ticks
          MaxWatered              \* bound: minutes after which a day has no more calls

ASSUME InputAssumption ==
  /\ ZoneSet \subseteq ZoneConfigs
  /\ Cfg \in Settings
  /\ SoilRange \subseteq Int /\ TempRange \subseteq Int
  /\ Weathers \subseteq Forecasts
  /\ Asked \subseteq Int
  /\ MaxWatered \in Nat

VARIABLES zone, weather,
          watered     \* minutes recorded for the day

vars == <<zone, weather, watered>>

Init == zone \in ZoneSet /\ weather \in Weathers /\ watered = 0

\* One more call of the day, with what is left of it.
Ask(t) ==
  /\ watered < MaxWatered
  /\ watered' = watered + Clamp(t, zone.caps, Q * watered)
  /\ UNCHANGED <<zone, weather>>

\* Midnight.
NewDay == watered' = 0 /\ UNCHANGED <<zone, weather>>

Next == (\E t \in Asked : Ask(t)) \/ NewDay

Spec == Init /\ [][Next]_vars

-----------------------------------------------------------------------------
\* Python's round, as its documentation gives it: the nearest whole number, and
\* of two as near the even one.
Nearest(t) ==
  CHOOSE n \in 0 .. t :
    /\ \A k \in 0 .. t : (Q * n - t) * (Q * n - t) <= (Q * k - t) * (Q * k - t)
    /\ n % 2 = 1 => \A k \in 0 .. t \ {n} :
                      (Q * n - t) * (Q * n - t) < (Q * k - t) * (Q * k - t)

\* The most that the zone's caps leave.
Left(caps) ==
  IF caps.max_per_day = NoDayCap THEN caps.max_per_run
  ELSE Lesser(caps.max_per_run, caps.max_per_day - Q * watered)

\* The grant is the nearest whole minute to what request and caps allow, or
\* nothing below min_run (garden_core.py:21-31).
ClampIsNearest ==
  \A t \in Asked :
    LET allowed == NotNegative(Lesser(t, Left(zone.caps)))
        g == Clamp(t, zone.caps, Q * watered)
    IN  g = Nearest(allowed) \/ (g = 0 /\ Q * Nearest(allowed) < zone.caps.min_run)

\* Splitting a day's water over many calls gains at most the rounding of one
\* (garden_core.py:26-28, 167-177).
DayWithinAllowance ==
  zone.caps.max_per_day # NoDayCap => watered <= WithinCap(zone.caps.max_per_day)

Reading(soil, temp) == [soil |-> soil, temp |-> temp, stale |-> FALSE]

Planned(soil, temp, phase) ==
  PlanZone(zone, Cfg, Reading(soil, temp), weather, phase, watered)

\* A day that dries the bed as much or more.  One without ET0, or with an ET0 of 0.0,
\* counts as a day of the baseline, and is compared with its like only.
DriesMore(day, other) ==
  /\ day.precip = other.precip /\ day.prob = other.prob
  /\ day.et0 = other.et0 \/ (other.et0 > 0 /\ day.et0 >= other.et0)

\* A bed that is drier, or has the drier day before it, is never given less, whatever
\* the rounding and the caps do, at any phase and at any point of the day
\* (garden.py:44-71; 55: "hot/dry day -> more, mild -> less").
DrierNotLess ==
  \A soil, moister \in SoilRange \ {Missing}, temp \in TempRange, phase \in Phases, day \in Weathers :
    soil <= moister /\ DriesMore(day, weather) =>
      PlanZone(zone, Cfg, Reading(soil, temp), day, phase, watered) >= Planned(moister, temp, phase)

\* The gateway grants in full a proposal made with the gateway's own record of the
\* day, and do_water sends what the gateway granted: rounding and min_run do not
\* bite twice (garden.py:71, gateway.py:61, garden_core.py:106).
ProposalIsGranted ==
  \A soil \in SoilRange, temp \in TempRange, phase \in Phases :
    LET p == Planned(soil, temp, phase)
    IN  Clamp(Q * p, zone.caps, Q * watered) = p
=============================================================================
