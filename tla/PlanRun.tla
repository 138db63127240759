------------------------------ MODULE PlanRun ------------------------------
(***************************************************************************)
(* `garden plan` (cmd_plan, read_weather and read_sensors of               *)
(* irrigation/garden.py) beside what it reads while that changes: the      *)
(* series of the sensor nodes in Prometheus, and the day's forecast.  What *)
(* is proposed is a request to the gateway like any other, for the modules *)
(* of the gateway and of a zone's day.                                     *)
(*                                                                         *)
(* A plan makes one request for the weather and three per zone, each a     *)
(* step; time passes and a node's push lands between any two.  A forecast  *)
(* is made of quarters of the UTC day, two of which are the 12 hours of    *)
(* the code.  The model stays within one quarter of a day; every zone has  *)
(* a node of its own.                                                      *)
(***************************************************************************)
EXTENDS IrrigationPlan, Sequences

CONSTANTS
  ZoneList,     \* the configured zones, in order
  Config,       \* [zones -> ZoneConfigs]
  Cfg,          \* the other settings
  Soils, Temps, \* what a node can measure
  Rains,        \* millimetres in a quarter of the day
  Probs,        \* the highest probability in a quarter of the day
  Et0s,         \* ET0 of the day, or Missing
  PlanQuarters, \* the quarters of the day it can be
  MaxAge,       \* max_age_s, in units of time
  MaxTime       \* bound: the last time of the model

Zones == {ZoneList[i] : i \in 1 .. Len(ZoneList)}
Quarters == 1 .. 4

ASSUME ConfigAssumption ==
  /\ ZoneList \in Seq(STRING) /\ ZoneList # << >>
  /\ \A i, j \in 1 .. Len(ZoneList) : ZoneList[i] = ZoneList[j] => i = j
  /\ Config \in [Zones -> ZoneConfigs]
  /\ Cfg \in Settings
ASSUME ReadingsAssumption ==
  /\ Soils \subseteq 0 .. 100
  /\ Temps \subseteq Int \ {Missing}
  /\ Rains \subseteq Nat
  /\ Probs \subseteq 0 .. 100
  /\ Et0s \subseteq Nat \cup {Missing}
\* The quotient of Factor is exact: no fraction of a tick is dropped.
ASSUME TicksAssumption ==
  \A z \in Zones, e \in Et0s \ {Missing} :
    (Config[z].min_per_pct * e) % Cfg.et0_baseline = 0
ASSUME TimeAssumption == PlanQuarters \subseteq Quarters /\ MaxAge \in Nat /\ MaxTime \in Nat

VARIABLES
  clock,      \* time
  quarter,    \* the quarter of the UTC day it is
  forecast,   \* [rain, prob: [Quarters -> Nat], et0]: Open-Meteo's for this day
  series,     \* [Zones -> [soil, temp, pushed]]: what Prometheus answers
  pc,         \* "idle", "weather", or the query of the zone at turn
  run,        \* the plan under way: phase, now, turn, weather, soil, temp, out
  plan,       \* [Zones -> Nat]: the proposal that was printed last
  readAt,     \* history: push time of the soil reading a zone is planned with
  landed,     \* history: zones whose node has pushed since the plan began
  seen,       \* history: series when the plan began, of zones that have not landed
  made        \* history: now, readAt and landed when plan was printed

vars == <<clock, quarter, forecast, series, pc, run, plan, readAt, landed, seen, made>>
history == <<readAt, landed, seen, made>>
world == <<clock, quarter, forecast, series>>

\* A zone whose node has never pushed, or was lost by the Pushgateway.
NoSeries == [soil |-> Missing, temp |-> Missing, pushed |-> Missing]
NoPlan == [z \in Zones |-> 0]
NoReading == [z \in Zones |-> Missing]
NoRun == [phase |-> "morning", now |-> 0, turn |-> 1,
          weather |-> [precip |-> 0, prob |-> 0, et0 |-> Missing],
          soil |-> Missing, temp |-> Missing, out |-> NoPlan]

Init ==
  /\ clock = 0
  /\ quarter \in PlanQuarters
  /\ forecast \in [rain : [Quarters -> Rains], prob : [Quarters -> Probs], et0 : Et0s]
  /\ series = [z \in Zones |-> NoSeries]
  /\ pc = "idle"
  /\ run = NoRun
  /\ plan = NoPlan
  /\ readAt = NoReading
  /\ landed = {}
  /\ seen = series
  /\ made = [now |-> 0, readAt |-> NoReading, landed |-> {}]

-----------------------------------------------------------------------------
(***************************************************************************)
(* What goes on around a plan.                                             *)
(***************************************************************************)

\* A reading reaches Prometheus, through garden-ingest and the Pushgateway: it
\* replaces the node's whole group, also what this reading does not hold.
Push(z) ==
  /\ \E soil \in Soils \cup {Missing}, temp \in Temps \cup {Missing} :
       /\ soil # Missing \/ temp # Missing
       /\ series' = [series EXCEPT ![z] = [soil |-> soil, temp |-> temp, pushed |-> clock]]
  /\ landed' = landed \cup {z}
  /\ seen' = [seen EXCEPT ![z] = NoSeries]
  /\ UNCHANGED <<clock, quarter, forecast, pc, run, plan, readAt, made>>

\* The Pushgateway keeps its groups in memory: a restart drops them.
Drop ==
  /\ series' = [z \in Zones |-> NoSeries]
  /\ UNCHANGED <<clock, quarter, forecast, pc, run, plan, history>>

Tick ==
  /\ clock < MaxTime
  /\ clock' = clock + 1
  /\ UNCHANGED <<quarter, forecast, series, pc, run, plan, history>>

-----------------------------------------------------------------------------
(***************************************************************************)
(* cmd_plan.                                                               *)
(***************************************************************************)

\* Mutant of Begin: zones are counted from 0.
BeginAtZero(phase) ==
  /\ pc = "idle"
  /\ pc' = "weather"
  /\ run' = [NoRun EXCEPT !.phase = phase, !.now = clock, !.turn = 0]
  /\ readAt' = NoReading
  /\ landed' = {}
  /\ seen' = series
  /\ UNCHANGED <<world, plan, made>>

Begin(phase) ==
  /\ pc = "idle"
  /\ pc' = "weather"
  /\ run' = [NoRun EXCEPT !.phase = phase, !.now = clock]
  /\ readAt' = NoReading
  /\ landed' = {}
  /\ seen' = series
  /\ UNCHANGED <<world, plan, made>>

\* A request raises: the program prints an error and no plan.
Abort ==
  /\ pc # "idle"
  /\ pc' = "idle"
  /\ run' = NoRun
  /\ UNCHANGED <<world, plan, history>>

Greater(a, b) == IF a >= b THEN a ELSE b

\* read_weather: hours 0 to 11 of a forecast that begins at 00:00 UTC.
ReadWeather ==
  /\ pc = "weather"
  /\ run' = [run EXCEPT !.weather = [precip |-> forecast.rain[1] + forecast.rain[2],
                                     prob |-> Greater(forecast.prob[1], forecast.prob[2]),
                                     et0 |-> forecast.et0]]
  /\ pc' = "soil"
  /\ UNCHANGED <<world, plan, history>>

Turn == ZoneList[run.turn]

\* read_sensors: three instant queries, one after the other.
QuerySoil ==
  /\ pc = "soil"
  /\ run' = [run EXCEPT !.soil = series[Turn].soil]
  /\ readAt' = [readAt EXCEPT ![Turn] = series[Turn].pushed]
  /\ pc' = "temp"
  /\ UNCHANGED <<world, plan, landed, seen, made>>

\* Mutant of QueryTemp: where there is no temperature, the variable keeps its value.
QueryTempKeeps ==
  /\ pc = "temp"
  /\ run' = IF series[Turn].temp = Missing THEN run ELSE [run EXCEPT !.temp = series[Turn].temp]
  /\ pc' = "pushed"
  /\ UNCHANGED <<world, plan, history>>

QueryTemp ==
  /\ pc = "temp"
  /\ run' = [run EXCEPT !.temp = series[Turn].temp]
  /\ pc' = "pushed"
  /\ UNCHANGED <<world, plan, history>>

\* Mutant of Stale: one unit too late.
StaleLater(pushed) == pushed = Missing \/ run.now - pushed > MaxAge + 1

\* No push time is an infinite age.
Stale(pushed) == pushed = Missing \/ run.now - pushed > MaxAge

\* Mutant of Proposal: every zone's reading has the age of the first zone's.
ProposalOfFirst ==
  PlanZone(Config[Turn], Cfg,
           [soil |-> run.soil, temp |-> run.temp, stale |-> Stale(series[ZoneList[1]].pushed)],
           run.weather, run.phase, 0)

\* plan_zone as cmd_plan calls it: with watered_today = 0.0.
Proposal ==
  PlanZone(Config[Turn], Cfg,
           [soil |-> run.soil, temp |-> run.temp, stale |-> Stale(series[Turn].pushed)],
           run.weather, run.phase, 0)

\* The third query; then plan_zone, and the next zone or the printed proposal.
QueryPushed ==
  /\ pc = "pushed"
  /\ LET out == [run.out EXCEPT ![Turn] = Proposal]
     IN  IF run.turn < Len(ZoneList)
         THEN /\ run' = [run EXCEPT !.out = out, !.turn = @ + 1]
              /\ pc' = "soil"
              /\ UNCHANGED <<plan, made>>
         ELSE /\ plan' = out
              /\ made' = [now |-> run.now, readAt |-> readAt, landed |-> landed]
              /\ run' = NoRun
              /\ pc' = "idle"
  /\ UNCHANGED <<world, readAt, landed, seen>>

Next ==
  \/ \E z \in Zones : Push(z)
  \/ Drop \/ Tick
  \/ \E phase \in Phases : Begin(phase)
  \/ Abort
  \/ ReadWeather \/ QuerySoil \/ QueryTemp \/ QueryPushed

Spec == Init /\ [][Next]_vars

-----------------------------------------------------------------------------
(***************************************************************************)
(* Properties.                                                             *)
(***************************************************************************)

\* Values a query or a field of the plan can hold.
SoilValues == Soils \cup {Missing}
TempValues == Temps \cup {Missing}
Times == Nat \cup {Missing}

SeriesType == [soil : SoilValues, temp : TempValues, pushed : Times]
RunType == [phase : Phases, now : Nat, turn : 1 .. Len(ZoneList),
            weather : [precip : Nat, prob : Nat, et0 : Et0s \cup {Missing}],
            soil : SoilValues, temp : TempValues, out : [Zones -> Nat]]
MadeType == [now : Nat, readAt : [Zones -> Times], landed : SUBSET Zones]

\* Types.
TypeOK ==
  /\ clock \in Nat
  /\ quarter \in Quarters
  /\ forecast \in [rain : [Quarters -> Rains], prob : [Quarters -> Probs], et0 : Et0s]
  /\ series \in [Zones -> SeriesType]
  /\ pc \in {"idle", "weather", "soil", "temp", "pushed"}
  /\ run \in RunType
  /\ plan \in [Zones -> Nat]
  /\ readAt \in [Zones -> Times]
  /\ landed \in SUBSET Zones
  /\ seen \in [Zones -> SeriesType]
  /\ made \in MadeType

FreshReading(z) == made.readAt[z] # Missing /\ made.now - made.readAt[z] <= MaxAge

\* Water is only proposed on a soil reading that was fresh when the plan began,
\* unless the zone's node pushed while the plan was made (garden.py:39, 91-100).
FreshUnlessPushed == \A z \in Zones : plan[z] > 0 => FreshReading(z) \/ z \in made.landed

\* What is proposed on what Prometheus held for a zone when the plan began.
AsOfBegin(z) ==
  PlanZone(Config[z], Cfg,
           [soil |-> seen[z].soil, temp |-> seen[z].temp, stale |-> Stale(seen[z].pushed)],
           run.weather, run.phase, 0)

\* The plan is as if each zone had been read in one query, when the plan began, unless
\* the zone's node pushed meanwhile: no soil value, temperature and push time of
\* different zones or readings together make water.  A loss of the series in between
\* leaves that proposal or makes it nothing (garden.py:88-100, 150-159).
ReadAtOnce ==
  [][plan' # plan =>
       \A z \in Zones \ landed :
         plan'[z] = AsOfBegin(z) \/ (plan'[z] = 0 /\ series[z] # seen[z])]_vars

\* The rain of the 12 hours ahead, where the day's forecast reaches that far.
RainAhead == forecast.rain[quarter] + forecast.rain[quarter + 1]

\* No water is proposed when the next 12 hours bring enough rain (the design,
\* 2026-06-02-openclaw-irrigation-design.md:94, and garden.py:43).
RainIsAwaited ==
  quarter < 4 /\ RainAhead >= Cfg.rain_skip_mm => plan = NoPlan
=============================================================================
