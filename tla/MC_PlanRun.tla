----------------------------- MODULE MC_PlanRun -----------------------------
(***************************************************************************)
(* Small instances of PlanRun for TLC.                                     *)
(***************************************************************************)
EXTENDS PlanRun

\* Two beds, with a target that their soil is below.
TwoBeds == <<"bed1", "bed2">>
OneBed == <<"bed1">>
BedConfig == [caps |-> [max_per_run |-> 8, max_per_day |-> 14, min_run |-> 4],
              target_pct |-> 40, min_per_pct |-> 1]
MCConfig == [z \in Zones |-> BedConfig]
MCCfg == [rain_skip_mm |-> 2, rain_skip_prob_pct |-> 60, et0_baseline |-> 4,
          heat_threshold |-> 32, midday_cap |-> 5]
=============================================================================
