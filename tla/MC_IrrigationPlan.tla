-------------------------- MODULE MC_IrrigationPlan --------------------------
(***************************************************************************)
(* clamp_minutes and plan_zone over small ranges of their inputs.          *)
(***************************************************************************)
EXTENDS ZoneDay

\* Caps below, at and above the half of a minute, on both sides of min_run and of
\* each other; a missing max_per_day; ticks per percent that ET0 of 1, 2, 4 and 8,
\* against a baseline of 4, leave whole.
MCZones == [caps : [max_per_run : {0, 3, 6, 10, 14, 24}, max_per_day : {NoDayCap, 0, 7, 10, 14, 22},
                    min_run : {0, 4, 5, 6}],
            target_pct : {3, 6}, min_per_pct : {4, 8}]
MCCfg == [rain_skip_mm |-> 2, rain_skip_prob_pct |-> 60, et0_baseline |-> 4,
          heat_threshold |-> 32, midday_cap |-> 9]
MCSoils == (0 .. 6) \cup {Missing}
MCTemps == {Missing, 32}
MCWeathers ==
  [precip : {0}, prob : {0}, et0 : {Missing, 0, 1, 2, 4, 8}]
  \cup [precip : {0, 2}, prob : {60}, et0 : {4}]
  \cup [precip : {2}, prob : {0}, et0 : {4}]

\* Requests of every kind, a negative one too.
AllAsked == -2 .. 16
=============================================================================
