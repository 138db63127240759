--------------------------- MODULE IrrigationPlan ---------------------------
(***************************************************************************)
(* plan_zone of irrigation/garden.py: the minutes proposed for one zone,   *)
(* from one soil reading and one forecast.  The reason text is left out.   *)
(*                                                                         *)
(* Durations are ticks of ClampMinutes; soil moisture is in percent,       *)
(* temperature in degrees, ET0 in the unit of et0_baseline_mm.  A value    *)
(* that a source did not have (None) is Missing.                           *)
(***************************************************************************)
EXTENDS ClampMinutes

Missing == -1000

\* A configured zone: caps for clamp_minutes, and ticks per percent of deficit.
ZoneConfigs == [caps : Caps, target_pct : Nat, min_per_pct : Nat]
Settings == [rain_skip_mm : Nat, rain_skip_prob_pct : Nat, et0_baseline : Nat \ {0},
             heat_threshold : Int, midday_cap : Nat]

\* What the sources give.
Forecasts == [precip : Nat, prob : Nat, et0 : Nat \cup {Missing}]
Readings == [soil : Int, temp : Int, stale : BOOLEAN]

Phases == {"morning", "midday", "evening"}

\* The skips that need no arithmetic: no usable reading, rain on its way, or soil
\* that is moist enough.
Unusable(reading) == reading.stale \/ reading.soil = Missing

RainExpected(cfg, weather) ==
  \/ weather.precip >= cfg.rain_skip_mm
  \/ weather.prob >= cfg.rain_skip_prob_pct

MoistEnough(zone, reading) == reading.soil >= zone.target_pct

\* Mutant of Factor: the baseline is divided by ET0.
FactorInverted(zone, cfg, et0) ==
  IF et0 \in {Missing, 0} THEN zone.min_per_pct
  ELSE (zone.min_per_pct * cfg.et0_baseline) \div et0

\* Ticks per percent of deficit: min_per_pct times the ET0 factor, which is 1.0
\* when ET0 is missing, and when it is 0.0, which Python takes for false.
Factor(zone, cfg, et0) ==
  IF et0 \in {Missing, 0} THEN zone.min_per_pct
  ELSE (zone.min_per_pct * et0) \div cfg.et0_baseline

\* Mutant of Wanted: the moisture there is, not what is missing.
WantedOfSoil(zone, cfg, soil, et0) == soil * Factor(zone, cfg, et0)

Wanted(zone, cfg, soil, et0) == (zone.target_pct - soil) * Factor(zone, cfg, et0)

HeatWave(cfg, temp) == temp # Missing /\ temp >= cfg.heat_threshold

\* The minutes of one zone, given the minutes watered today (cmd_plan says none).
PlanZone(zone, cfg, reading, weather, phase, watered) ==
  LET wanted == Wanted(zone, cfg, reading.soil, weather.et0)
  IN  IF Unusable(reading) \/ RainExpected(cfg, weather) \/ MoistEnough(zone, reading) THEN 0
      ELSE IF phase # "midday" THEN Clamp(wanted, zone.caps, Q * watered)
      ELSE IF HeatWave(cfg, reading.temp)
           THEN Clamp(Lesser(wanted, cfg.midday_cap), zone.caps, Q * watered)
           ELSE 0
=============================================================================
