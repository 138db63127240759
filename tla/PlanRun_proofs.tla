--------------------------- MODULE PlanRun_proofs ---------------------------
(***************************************************************************)
(* Facts about `garden plan` for every interleaving with the pushes of the *)
(* nodes, losses of their series, time and requests that fail.             *)
(***************************************************************************)
EXTENDS PlanRun, IrrigationPlan_proofs

LEMMA ZonesAreListed ==
  /\ Len(ZoneList) \in Nat \ {0}
  /\ \A i \in 1 .. Len(ZoneList) : ZoneList[i] \in Zones
  /\ \A z \in Zones : \E i \in 1 .. Len(ZoneList) : ZoneList[i] = z
  /\ \A z \in Zones : Config[z] \in ZoneConfigs
  /\ Cfg \in Settings
  BY ConfigAssumption DEF Zones

LEMMA TurnIsZone ==
  ASSUME TypeOK
  PROVE  Turn \in Zones /\ Config[Turn] \in ZoneConfigs /\ series[Turn] \in SeriesType
  BY ZonesAreListed DEF TypeOK, RunType, Turn

LEMMA MissingIsInt == Missing \in Int /\ Missing \notin Nat
  BY DEF Missing

LEMMA ProposalIsNat ==
  ASSUME TypeOK
  PROVE  Proposal \in Nat
  <1>1. run \in RunType /\ Turn \in Zones /\ series[Turn] \in SeriesType
    BY TurnIsZone DEF TypeOK
  <1>2. run.soil \in Int /\ run.temp \in Int /\ run.phase \in Phases
    <2>1. SoilValues \subseteq Int
      BY ReadingsAssumption, MissingIsInt DEF SoilValues
    <2>2. TempValues \subseteq Int
      BY ReadingsAssumption, MissingIsInt DEF TempValues
    <2> QED BY <1>1, <2>1, <2>2 DEF RunType
  <1>3. run.weather \in Forecasts
    BY <1>1, ReadingsAssumption DEF RunType, Forecasts
  <1>4. Stale(series[Turn].pushed) \in BOOLEAN
    BY DEF Stale
  <1>5. [soil |-> run.soil, temp |-> run.temp, stale |-> Stale(series[Turn].pushed)] \in Readings
    BY <1>2, <1>4 DEF Readings
  <1>6. Config[Turn] \in ZoneConfigs /\ Cfg \in Settings
    BY TurnIsZone, ZonesAreListed
  <1> QED BY <1>2, <1>3, <1>5, <1>6, PlanZoneIsNat, 0 \in Nat DEF Proposal

LEMMA InitType == Init => TypeOK
  <1> SUFFICES ASSUME Init PROVE TypeOK
    OBVIOUS
  <1>1. NoPlan \in [Zones -> Nat] /\ NoReading \in [Zones -> Times]
    BY DEF NoPlan, NoReading, Times
  <1>2. NoSeries \in SeriesType
    BY DEF NoSeries, SeriesType, SoilValues, TempValues, Times
  <1>3. NoRun \in RunType
    BY <1>1, ZonesAreListed DEF NoRun, RunType, Phases, SoilValues, TempValues
  <1>4. made \in MadeType
    BY <1>1 DEF Init, MadeType
  <1> QED BY <1>1, <1>2, <1>3, <1>4, TimeAssumption DEF Init, TypeOK, Quarters

LEMMA NextType == TypeOK /\ [Next]_vars => TypeOK'
  <1> SUFFICES ASSUME TypeOK, [Next]_vars PROVE TypeOK'
    OBVIOUS
  <1>0. NoPlan \in [Zones -> Nat] /\ NoReading \in [Zones -> Times] /\ NoRun \in RunType
    <2>1. NoPlan \in [Zones -> Nat] /\ NoReading \in [Zones -> Times]
      BY DEF NoPlan, NoReading, Times
    <2>2. NoRun \in RunType
      BY <2>1, ZonesAreListed DEF NoRun, RunType, Phases, SoilValues, TempValues
    <2> QED BY <2>1, <2>2
  <1>1. ASSUME NEW z \in Zones, Push(z) PROVE TypeOK'
    <2>1. NoSeries \in SeriesType
      BY DEF NoSeries, SeriesType, SoilValues, TempValues, Times
    <2> QED BY <1>1, <2>1 DEF Push, TypeOK, SeriesType, SoilValues, TempValues, Times
  <1>2. CASE Drop
    BY <1>2 DEF Drop, TypeOK, history, NoSeries, SeriesType, SoilValues,
                TempValues, Times
  <1>3. CASE Tick
    BY <1>3 DEF Tick, TypeOK, history
  <1>4. ASSUME NEW phase \in Phases, Begin(phase) PROVE TypeOK'
    <2>1. run' \in RunType
      BY <1>0, <1>4 DEF Begin, TypeOK, RunType
    <2> QED BY <1>0, <1>4, <2>1 DEF Begin, TypeOK, world
  <1>5. CASE Abort
    BY <1>0, <1>5 DEF Abort, TypeOK, world, history
  <1>6. CASE ReadWeather
    <2>1. /\ forecast.rain[1] \in Nat /\ forecast.rain[2] \in Nat
          /\ forecast.prob[1] \in Nat /\ forecast.prob[2] \in Nat
          /\ forecast.et0 \in Et0s
      <3>1. 1 \in Quarters /\ 2 \in Quarters
        BY DEF Quarters
      <3>2. /\ forecast.rain[1] \in Rains /\ forecast.rain[2] \in Rains
            /\ forecast.prob[1] \in Probs /\ forecast.prob[2] \in Probs
            /\ forecast.et0 \in Et0s
        BY <3>1 DEF TypeOK
      <3>3. Rains \subseteq Nat /\ Probs \subseteq Nat
        BY ReadingsAssumption
      <3> QED BY <3>2, <3>3
    <2>2. Greater(forecast.prob[1], forecast.prob[2]) \in Nat
      BY <2>1 DEF Greater
    <2> DEFINE read == [precip |-> forecast.rain[1] + forecast.rain[2],
                        prob |-> Greater(forecast.prob[1], forecast.prob[2]),
                        et0 |-> forecast.et0]
    <2>3. read \in [precip : Nat, prob : Nat, et0 : Et0s \cup {Missing}]
      BY <2>1, <2>2
    <2>4. run' = [run EXCEPT !.weather = read]
      BY <1>6 DEF ReadWeather
    <2> HIDE DEF read
    <2>5. run' \in RunType
      BY <2>3, <2>4 DEF TypeOK, RunType
    <2> QED BY <1>6, <2>5 DEF ReadWeather, TypeOK, world, history
  <1>7. CASE QuerySoil
    <2>1. series[Turn].soil \in SoilValues /\ series[Turn].pushed \in Times
      BY TurnIsZone DEF SeriesType
    <2>2. run' \in RunType
      BY <1>7, <2>1 DEF QuerySoil, TypeOK, RunType
    <2> QED BY <1>7, <2>1, <2>2 DEF QuerySoil, TypeOK, world
  <1>8. CASE QueryTemp
    <2>1. series[Turn].temp \in TempValues
      BY TurnIsZone DEF SeriesType
    <2>2. run' \in RunType
      BY <1>8, <2>1 DEF QueryTemp, TypeOK, RunType
    <2> QED BY <1>8, <2>2 DEF QueryTemp, TypeOK, world, history
  <1>9. CASE QueryPushed
    <2> DEFINE out == [run.out EXCEPT ![Turn] = Proposal]
    <2>1. out \in [Zones -> Nat]
      BY ProposalIsNat DEF TypeOK, RunType
    <2> HIDE DEF out
    <2>2. CASE run.turn < Len(ZoneList)
      <3>1. run' = [run EXCEPT !.out = out, !.turn = run.turn + 1]
        BY <1>9, <2>2 DEF QueryPushed, out
      <3>2. run.turn \in 1 .. Len(ZoneList) /\ Len(ZoneList) \in Nat
        BY ZonesAreListed DEF TypeOK, RunType
      <3>3. run.turn + 1 \in 1 .. Len(ZoneList)
        BY <2>2, <3>2
      <3>4. run' \in RunType
        BY <2>1, <3>1, <3>3 DEF TypeOK, RunType
      <3> QED BY <1>9, <2>2, <3>4 DEF QueryPushed, TypeOK, world
    <2>3. CASE ~ run.turn < Len(ZoneList)
      <3>1. plan' = out /\ run' = NoRun /\ pc' = "idle"
        BY <1>9, <2>3 DEF QueryPushed, out
      <3>2. made' \in MadeType
        BY <1>9, <2>3 DEF QueryPushed, TypeOK, RunType, MadeType
      <3> QED BY <1>0, <1>9, <2>1, <3>1, <3>2 DEF QueryPushed, TypeOK, world
    <2> QED BY <2>2, <2>3
  <1>10. CASE UNCHANGED vars
    BY <1>10 DEF vars, TypeOK
  <1> QED BY <1>1, <1>2, <1>3, <1>4, <1>5, <1>6, <1>7, <1>8, <1>9, <1>10 DEF Next

\* The types hold, in particular every proposal is a number of minutes.
THEOREM TypeCorrect == Spec => []TypeOK
  BY InitType, NextType, PTL DEF Spec

-----------------------------------------------------------------------------
(***************************************************************************)
(* Freshness.  FreshUnlessPushed is about the printed plan; it is kept by  *)
(* what holds along the way to it: the minutes worked out so far are for   *)
(* fresh readings or for zones a push landed for, zones whose turn has not *)
(* come have none, and between its first and its third query a zone's      *)
(* series is the one its soil was read from, unless a push landed or the   *)
(* series was dropped.                                                     *)
(***************************************************************************)

\* As FreshReading, for the plan under way.
FreshSoFar(z) == readAt[z] # Missing /\ run.now - readAt[z] <= MaxAge

OutIsFresh == \A z \in Zones : run.out[z] > 0 => FreshSoFar(z) \/ z \in landed
LaterAreDry == \A i \in 1 .. Len(ZoneList) : i >= run.turn => run.out[ZoneList[i]] = 0
SameSeries ==
  pc \in {"temp", "pushed"} =>
    \/ readAt[Turn] = series[Turn].pushed
    \/ Turn \in landed
    \/ series[Turn].pushed = Missing

FreshInv ==
  /\ TypeOK
  /\ pc # "idle" => OutIsFresh /\ LaterAreDry
  /\ SameSeries
  /\ FreshUnlessPushed

\* A zone is only given minutes when the push time it answers with is fresh.
LEMMA ProposalNeedsFresh ==
  Proposal # 0 => /\ series[Turn].pushed # Missing
                  /\ ~ (run.now - series[Turn].pushed > MaxAge)
  BY DEF Proposal, PlanZone, Unusable, Stale

LEMMA InitFresh == Init => FreshInv
  <1> SUFFICES ASSUME Init PROVE FreshInv
    OBVIOUS
  <1>1. pc = "idle" /\ \A z \in Zones : plan[z] = 0
    BY DEF Init, NoPlan
  <1> QED BY <1>1, InitType DEF FreshInv, SameSeries, FreshUnlessPushed

\* The zone at turn is worked out.
LEMMA OutStaysFresh ==
  ASSUME FreshInv, QueryPushed, NEW out, out = [run.out EXCEPT ![Turn] = Proposal]
  PROVE  /\ \A z \in Zones : out[z] > 0 => FreshSoFar(z) \/ z \in landed
         /\ \A i \in 1 .. Len(ZoneList) : i > run.turn => out[ZoneList[i]] = 0
  <1>1. TypeOK /\ pc = "pushed" /\ OutIsFresh /\ LaterAreDry /\ SameSeries
    BY DEF FreshInv, QueryPushed
  <1>2. Turn \in Zones /\ series[Turn].pushed \in Times
    BY <1>1, TurnIsZone DEF SeriesType
  <1>3. run.out \in [Zones -> Nat]
    BY <1>1 DEF TypeOK, RunType
  <1>4. ASSUME NEW z \in Zones, out[z] > 0
        PROVE  FreshSoFar(z) \/ z \in landed
    <2>1. CASE z # Turn
      BY <1>1, <1>3, <1>4, <2>1 DEF OutIsFresh
    <2>2. CASE z = Turn
      <3>1. Proposal # 0
        BY <1>2, <1>3, <1>4, <2>2
      <3>2. series[z].pushed # Missing /\ ~ (run.now - series[z].pushed > MaxAge)
        BY <2>2, <3>1, ProposalNeedsFresh
      <3>3. series[z].pushed \in Nat /\ run.now \in Nat /\ MaxAge \in Nat
        BY <1>1, <1>2, <2>2, <3>2, TimeAssumption DEF Times, TypeOK, RunType
      <3>4. readAt[z] = series[z].pushed \/ z \in landed
        BY <1>1, <2>2, <3>2 DEF SameSeries
      <3> QED BY <3>2, <3>3, <3>4 DEF FreshSoFar
    <2> QED BY <2>1, <2>2
  <1>5. ASSUME NEW i \in 1 .. Len(ZoneList), i > run.turn
        PROVE  out[ZoneList[i]] = 0
    <2>1. run.turn \in 1 .. Len(ZoneList)
      BY <1>1 DEF TypeOK, RunType
    <2>2. ZoneList[i] # Turn
      BY <1>5, <2>1, ConfigAssumption DEF Turn
    <2>3. ZoneList[i] \in Zones /\ run.out[ZoneList[i]] = 0
      BY <1>1, <1>5, <2>1, ZonesAreListed DEF LaterAreDry
    <2> QED BY <1>3, <2>2, <2>3
  <1> QED BY <1>4, <1>5

LEMMA NextFresh == FreshInv /\ [Next]_vars => FreshInv'
  <1> SUFFICES ASSUME FreshInv, [Next]_vars PROVE FreshInv'
    OBVIOUS
  <1>0. TypeOK' /\ TypeOK
    BY NextType DEF FreshInv
  <1>1. ASSUME NEW z \in Zones, Push(z) PROVE FreshInv'
    <2>1. landed \subseteq landed' /\ z \in landed'
      BY <1>1 DEF Push
    <2>2. \A y \in Zones : y # z => series'[y] = series[y]
      BY <1>0, <1>1 DEF Push, TypeOK
    <2>3. Turn' = Turn /\ Turn \in Zones
      BY <1>0, <1>1, TurnIsZone DEF Push, Turn
    <2>4. SameSeries'
      BY <1>1, <2>1, <2>2, <2>3 DEF Push, FreshInv, SameSeries
    <2>5. pc' # "idle" => (OutIsFresh /\ LaterAreDry)'
      BY <1>1, <2>1 DEF Push, FreshInv, OutIsFresh, LaterAreDry, FreshSoFar
    <2>6. FreshUnlessPushed'
      BY <1>1 DEF Push, FreshInv, FreshUnlessPushed, FreshReading
    <2> QED BY <1>0, <2>4, <2>5, <2>6 DEF FreshInv
  <1>2. CASE Drop
    <2>1. Turn' = Turn /\ Turn \in Zones
      BY <1>0, <1>2, TurnIsZone DEF Drop, Turn
    <2>2. series'[Turn].pushed = Missing
      BY <1>2, <2>1 DEF Drop, NoSeries
    <2>3. SameSeries'
      BY <2>1, <2>2 DEF SameSeries
    <2> QED BY <1>0, <1>2, <2>3 DEF Drop, history, FreshInv, OutIsFresh, LaterAreDry, FreshSoFar,
                                    FreshUnlessPushed, FreshReading
  <1>3. CASE Tick
    BY <1>0, <1>3 DEF Tick, history, FreshInv, OutIsFresh, LaterAreDry, FreshSoFar, SameSeries,
                      Turn, FreshUnlessPushed, FreshReading
  <1>4. ASSUME NEW phase \in Phases, Begin(phase) PROVE FreshInv'
    <2>1. \A z \in Zones : run'.out[z] = 0
      BY <1>4 DEF Begin, NoRun, NoPlan
    <2>2. OutIsFresh' /\ LaterAreDry'
      BY <2>1, ZonesAreListed DEF OutIsFresh, LaterAreDry
    <2> QED BY <1>0, <1>4, <2>2 DEF Begin, FreshInv, SameSeries, FreshUnlessPushed, FreshReading
  <1>5. CASE Abort
    BY <1>0, <1>5 DEF Abort, history, FreshInv, SameSeries, FreshUnlessPushed, FreshReading
  <1>6. CASE ReadWeather
    <2>1. run'.out = run.out /\ run'.now = run.now /\ run'.turn = run.turn
      BY <1>0, <1>6 DEF ReadWeather, TypeOK, RunType
    <2> QED BY <1>0, <1>6, <2>1 DEF ReadWeather, history, FreshInv, OutIsFresh, LaterAreDry,
                 FreshSoFar, SameSeries, FreshUnlessPushed, FreshReading
  <1>7. CASE QuerySoil
    <2>1. run'.out = run.out /\ run'.now = run.now /\ run'.turn = run.turn
      BY <1>0, <1>7 DEF QuerySoil, TypeOK, RunType
    <2>2. Turn' = Turn /\ Turn \in Zones
      BY <1>0, <2>1, TurnIsZone DEF Turn
    <2>3. /\ readAt'[Turn] = series[Turn].pushed
          /\ \A z \in Zones : z # Turn => readAt'[z] = readAt[z]
      BY <1>0, <1>7, <2>2 DEF QuerySoil, TypeOK
    <2>4. run.out[Turn] = 0
      <3>1. LaterAreDry /\ run.turn \in 1 .. Len(ZoneList) /\ run.turn >= run.turn
        BY <1>0, <1>7, ZonesAreListed DEF QuerySoil, FreshInv, TypeOK, RunType
      <3> QED BY <3>1 DEF LaterAreDry, Turn
    <2>5. OutIsFresh'
      <3> SUFFICES ASSUME NEW z \in Zones, run.out[z] > 0 PROVE (FreshSoFar(z) \/ z \in landed)'
        BY <2>1 DEF OutIsFresh
      <3>1. z # Turn
        BY <2>4
      <3> QED BY <1>7, <2>1, <2>3, <3>1 DEF QuerySoil, FreshInv, OutIsFresh, FreshSoFar
    <2>6. LaterAreDry'
      BY <1>7, <2>1 DEF QuerySoil, FreshInv, LaterAreDry
    <2>7. SameSeries'
      BY <1>7, <2>2, <2>3 DEF QuerySoil, world, SameSeries
    <2> QED BY <1>0, <1>7, <2>5, <2>6, <2>7 DEF QuerySoil, FreshInv, FreshUnlessPushed, FreshReading
  <1>8. CASE QueryTemp
    <2>1. run'.out = run.out /\ run'.now = run.now /\ run'.turn = run.turn
      BY <1>0, <1>8 DEF QueryTemp, TypeOK, RunType
    <2> QED BY <1>0, <1>8, <2>1 DEF QueryTemp, world, history, FreshInv, OutIsFresh, LaterAreDry,
                 FreshSoFar, SameSeries, Turn, FreshUnlessPushed, FreshReading
  <1>9. CASE QueryPushed
    <2> DEFINE out == [run.out EXCEPT ![Turn] = Proposal]
    <2>1. /\ \A z \in Zones : out[z] > 0 => FreshSoFar(z) \/ z \in landed
          /\ \A i \in 1 .. Len(ZoneList) : i > run.turn => out[ZoneList[i]] = 0
      BY <1>9, OutStaysFresh
    <2> HIDE DEF out
    <2>2. CASE run.turn < Len(ZoneList)
      <3>1. /\ run' = [run EXCEPT !.out = out, !.turn = run.turn + 1]
            /\ pc' = "soil" /\ plan' = plan /\ made' = made
            /\ readAt' = readAt /\ landed' = landed
        BY <1>9, <2>2 DEF QueryPushed, out
      <3>2. run'.out = out /\ run'.now = run.now /\ run'.turn = run.turn + 1
        BY <1>0, <3>1 DEF TypeOK, RunType
      <3>3. run.turn \in Nat
        BY <1>0, ZonesAreListed DEF TypeOK, RunType
      <3>4. OutIsFresh'
        BY <2>1, <3>1, <3>2 DEF OutIsFresh, FreshSoFar
      <3>5. LaterAreDry'
        BY <2>1, <3>2, <3>3, ZonesAreListed DEF LaterAreDry
      <3>6. SameSeries' /\ FreshUnlessPushed'
        BY <3>1 DEF SameSeries, FreshInv, FreshUnlessPushed, FreshReading
      <3> QED BY <1>0, <3>4, <3>5, <3>6 DEF FreshInv
    <2>3. CASE ~ run.turn < Len(ZoneList)
      <3>1. plan' = out /\ pc' = "idle"
        BY <1>9, <2>3 DEF QueryPushed, out
      <3>2. made'.now = run.now /\ made'.readAt = readAt /\ made'.landed = landed
        BY <1>9, <2>3 DEF QueryPushed
      <3>3. FreshUnlessPushed'
        BY <2>1, <3>1, <3>2 DEF FreshUnlessPushed, FreshReading, FreshSoFar
      <3> QED BY <1>0, <3>1, <3>3 DEF FreshInv, SameSeries
    <2> QED BY <2>2, <2>3
  <1>10. CASE UNCHANGED vars
    BY <1>0, <1>10 DEF vars, FreshInv, OutIsFresh, LaterAreDry, FreshSoFar, SameSeries, Turn,
                       FreshUnlessPushed, FreshReading
  <1> QED BY <1>1, <1>2, <1>3, <1>4, <1>5, <1>6, <1>7, <1>8, <1>9, <1>10 DEF Next

\* No plan proposes water on a reading that was stale when the plan began, except for
\* a zone whose node pushed while the plan was made, at any pace of pushes, time,
\* losses and failed requests.
THEOREM WaterNeedsFreshSoil == Spec => []FreshUnlessPushed
  BY InitFresh, NextFresh, PTL DEF Spec, FreshInv

-----------------------------------------------------------------------------
(***************************************************************************)
(* One reading.  A zone whose node has not pushed since the plan began     *)
(* answers as it did then, or not at all any more; so what was read of it  *)
(* is of that one reading, or of no use once the third query finds nothing.*)
(***************************************************************************)
AsIfReadOnce(z, minutes) ==
  minutes = AsOfBegin(z) \/ (minutes = 0 /\ series[z] # seen[z])

SeenOrLost == \A z \in Zones \ landed : series[z] \in {seen[z], NoSeries}

ReadFromSeen ==
  Turn \notin landed /\ series[Turn] = seen[Turn] =>
  /\ pc \in {"temp", "pushed"} => run.soil = seen[Turn].soil
  /\ pc = "pushed" => run.temp = seen[Turn].temp

OutAsIfReadOnce ==
  \A i \in 1 .. Len(ZoneList) :
    i < run.turn /\ ZoneList[i] \notin landed => AsIfReadOnce(ZoneList[i], run.out[ZoneList[i]])

OneReadingInv ==
  /\ TypeOK
  /\ SeenOrLost
  /\ pc # "idle" => ReadFromSeen /\ OutAsIfReadOnce
  /\ pc = "weather" => run.turn = 1

LEMMA AsOfBeginStays ==
  ASSUME NEW z \in Zones, seen'[z] = seen[z], run'.weather = run.weather,
         run'.phase = run.phase, run'.now = run.now
  PROVE  AsOfBegin(z)' = AsOfBegin(z)
  BY DEF AsOfBegin, Stale

\* The zone at turn: one reading, or nothing.
LEMMA TurnAsIfReadOnce ==
  ASSUME OneReadingInv, pc = "pushed", Turn \notin landed
  PROVE  AsIfReadOnce(Turn, Proposal)
  <1>1. Turn \in Zones /\ series[Turn] \in {seen[Turn], NoSeries}
    BY TurnIsZone DEF OneReadingInv, SeenOrLost
  <1>2. CASE series[Turn] = seen[Turn]
    <2>1. run.soil = seen[Turn].soil /\ run.temp = seen[Turn].temp
      BY <1>2 DEF OneReadingInv, ReadFromSeen
    <2> QED BY <1>2, <2>1 DEF Proposal, AsOfBegin, AsIfReadOnce
  <1>3. CASE series[Turn] # seen[Turn]
    <2>1. series[Turn].pushed = Missing
      BY <1>1, <1>3 DEF NoSeries
    <2>2. Proposal = 0
      BY <2>1, ProposalNeedsFresh
    <2> QED BY <1>3, <2>2 DEF AsIfReadOnce
  <1> QED BY <1>2, <1>3

\* What the third query of a zone leaves: every zone so far is as if read once.
LEMMA OutStaysOneReading ==
  ASSUME OneReadingInv, pc = "pushed", NEW out, out = [run.out EXCEPT ![Turn] = Proposal],
         NEW i \in 1 .. Len(ZoneList), i <= run.turn, ZoneList[i] \notin landed
  PROVE  AsIfReadOnce(ZoneList[i], out[ZoneList[i]])
  <1>1. TypeOK /\ run.out \in [Zones -> Nat] /\ run.turn \in 1 .. Len(ZoneList)
    BY DEF OneReadingInv, TypeOK, RunType
  <1>2. CASE i = run.turn
    <2>1. ZoneList[i] = Turn /\ Turn \in Zones
      BY <1>1, <1>2, TurnIsZone DEF Turn
    <2>2. out[Turn] = Proposal
      BY <1>1, <2>1
    <2> QED BY <2>1, <2>2, TurnAsIfReadOnce
  <1>3. CASE i < run.turn
    <2>1. ZoneList[i] # Turn /\ ZoneList[i] \in Zones
      BY <1>1, <1>3, ConfigAssumption, ZonesAreListed DEF Turn
    <2>2. out[ZoneList[i]] = run.out[ZoneList[i]]
      BY <1>1, <2>1
    <2> QED BY <1>3, <2>2 DEF OneReadingInv, OutAsIfReadOnce
  <1> QED BY <1>1, <1>2, <1>3, ZonesAreListed

\* A step that leaves the series, the history and what was worked out as they are.
LEMMA OutUnchanged ==
  ASSUME OneReadingInv, pc # "idle", series' = series, seen' = seen, landed' = landed,
         run'.out = run.out, run'.turn = run.turn, run'.now = run.now, run'.phase = run.phase,
         run'.weather = run.weather \/ run.turn = 1
  PROVE  OutAsIfReadOnce'
  <1> SUFFICES ASSUME NEW i \in 1 .. Len(ZoneList), i < run'.turn, ZoneList[i] \notin landed'
               PROVE  AsIfReadOnce(ZoneList[i], run.out[ZoneList[i]])'
    BY DEF OutAsIfReadOnce
  <1>1. ZoneList[i] \in Zones /\ run'.weather = run.weather
    BY ZonesAreListed
  <1>2. AsOfBegin(ZoneList[i])' = AsOfBegin(ZoneList[i])
    BY <1>1, AsOfBeginStays
  <1>3. AsIfReadOnce(ZoneList[i], run.out[ZoneList[i]])
    BY DEF OneReadingInv, OutAsIfReadOnce
  <1> QED BY <1>2, <1>3 DEF AsIfReadOnce

LEMMA NextOneReading ==
  OneReadingInv /\ [Next]_vars
    => /\ OneReadingInv'
       /\ plan' # plan => \A z \in Zones \ landed : AsIfReadOnce(z, plan'[z])
  <1> SUFFICES ASSUME OneReadingInv, [Next]_vars
               PROVE  /\ OneReadingInv'
                      /\ plan' # plan => \A z \in Zones \ landed : AsIfReadOnce(z, plan'[z])
    OBVIOUS
  <1>0. TypeOK /\ TypeOK' /\ SeenOrLost
    BY NextType DEF OneReadingInv
  <1>1. ASSUME NEW z \in Zones, Push(z) PROVE OneReadingInv' /\ plan' = plan
    <2>1. /\ run' = run /\ pc' = pc /\ Turn' = Turn /\ landed' = landed \cup {z}
          /\ \A y \in Zones : y # z => series'[y] = series[y] /\ seen'[y] = seen[y]
      BY <1>0, <1>1 DEF Push, Turn, TypeOK
    <2>2. SeenOrLost'
      BY <1>0, <2>1 DEF SeenOrLost
    <2>3. ReadFromSeen' \/ pc = "idle"
      BY <1>0, <2>1, TurnIsZone DEF OneReadingInv, ReadFromSeen
    <2>4. OutAsIfReadOnce' \/ pc = "idle"
      <3> SUFFICES ASSUME pc # "idle", NEW i \in 1 .. Len(ZoneList), i < run.turn,
                          ZoneList[i] \notin landed, ZoneList[i] # z
                   PROVE  AsIfReadOnce(ZoneList[i], run.out[ZoneList[i]])'
        BY <2>1 DEF OutAsIfReadOnce
      <3>1. ZoneList[i] \in Zones
        BY ZonesAreListed
      <3>2. AsOfBegin(ZoneList[i])' = AsOfBegin(ZoneList[i])
        BY <2>1, <3>1, AsOfBeginStays
      <3>3. AsIfReadOnce(ZoneList[i], run.out[ZoneList[i]])
        BY DEF OneReadingInv, OutAsIfReadOnce
      <3> QED BY <2>1, <3>1, <3>2, <3>3 DEF AsIfReadOnce
    <2> QED BY <1>0, <1>1, <2>1, <2>2, <2>3, <2>4 DEF OneReadingInv, Push
  <1>2. CASE Drop
    <2>1. /\ run' = run /\ pc' = pc /\ Turn' = Turn /\ landed' = landed /\ seen' = seen
          /\ plan' = plan /\ \A z \in Zones : series'[z] = NoSeries
      BY <1>2 DEF Drop, history, Turn
    <2>2. SeenOrLost'
      BY <2>1 DEF SeenOrLost
    <2>3. \A z \in Zones \ landed : series'[z] = seen[z] => series[z] = seen[z]
      BY <1>0, <2>1 DEF SeenOrLost
    <2>4. ReadFromSeen' \/ pc = "idle"
      BY <1>0, <2>1, <2>3, TurnIsZone DEF OneReadingInv, ReadFromSeen
    <2>5. OutAsIfReadOnce' \/ pc = "idle"
      <3> SUFFICES ASSUME pc # "idle", NEW i \in 1 .. Len(ZoneList), i < run.turn,
                          ZoneList[i] \notin landed
                   PROVE  AsIfReadOnce(ZoneList[i], run.out[ZoneList[i]])'
        BY <2>1 DEF OutAsIfReadOnce
      <3>1. ZoneList[i] \in Zones
        BY ZonesAreListed
      <3>2. AsOfBegin(ZoneList[i])' = AsOfBegin(ZoneList[i])
        BY <2>1, <3>1, AsOfBeginStays
      <3>3. AsIfReadOnce(ZoneList[i], run.out[ZoneList[i]])
        BY DEF OneReadingInv, OutAsIfReadOnce
      <3> QED BY <2>1, <2>3, <3>1, <3>2, <3>3 DEF AsIfReadOnce
    <2> QED BY <1>0, <2>1, <2>2, <2>4, <2>5 DEF OneReadingInv
  <1>3. CASE Tick \/ UNCHANGED vars
    <2>1. UNCHANGED <<series, pc, run, plan, landed, seen>>
      BY <1>3 DEF Tick, vars, history
    <2> QED BY <1>0, <2>1, OutUnchanged DEF OneReadingInv, SeenOrLost, ReadFromSeen, Turn
  <1>4. ASSUME NEW phase \in Phases, Begin(phase) PROVE OneReadingInv' /\ plan' = plan
    <2>1. run'.turn = 1 /\ pc' = "weather" /\ seen' = series' /\ plan' = plan
      BY <1>4 DEF Begin, NoRun, world
    <2>2. ReadFromSeen' /\ OutAsIfReadOnce'
      BY <2>1 DEF ReadFromSeen, OutAsIfReadOnce
    <2> QED BY <1>0, <2>1, <2>2 DEF OneReadingInv, SeenOrLost
  <1>5. CASE Abort
    BY <1>0, <1>5 DEF Abort, world, history, OneReadingInv, SeenOrLost
  <1>6. CASE ReadWeather \/ QuerySoil \/ QueryTemp
    <2>1. /\ UNCHANGED <<series, seen, landed, plan>> /\ pc # "idle" /\ pc' \notin {"idle", "weather"}
          /\ run'.out = run.out /\ run'.turn = run.turn
          /\ run'.now = run.now /\ run'.phase = run.phase
          /\ run'.weather = run.weather \/ run.turn = 1
      BY <1>0, <1>6
         DEF ReadWeather, QuerySoil, QueryTemp, world, history, TypeOK, RunType, OneReadingInv
    <2>2. OutAsIfReadOnce' /\ Turn' = Turn
      BY <2>1, OutUnchanged DEF Turn
    <2>3. ReadFromSeen'
      BY <1>0, <1>6, <2>1, <2>2
         DEF ReadWeather, QuerySoil, QueryTemp, ReadFromSeen, OneReadingInv, TypeOK, RunType
    <2> QED BY <1>0, <2>1, <2>2, <2>3 DEF OneReadingInv, SeenOrLost
  <1>7. CASE QueryPushed
    <2> DEFINE out == [run.out EXCEPT ![Turn] = Proposal]
    <2>1. pc = "pushed" /\ UNCHANGED <<series, seen, landed>>
      BY <1>7 DEF QueryPushed, world
    <2>2. \A i \in 1 .. Len(ZoneList) :
            i <= run.turn /\ ZoneList[i] \notin landed => AsIfReadOnce(ZoneList[i], out[ZoneList[i]])
      BY <2>1, OutStaysOneReading
    <2>3. run.turn \in 1 .. Len(ZoneList) /\ Len(ZoneList) \in Nat
      BY <1>0, ZonesAreListed DEF TypeOK, RunType
    <2> HIDE DEF out
    <2>4. CASE run.turn < Len(ZoneList)
      <3>1. run' = [run EXCEPT !.out = out, !.turn = run.turn + 1] /\ pc' = "soil" /\ plan' = plan
        BY <1>7, <2>4 DEF QueryPushed, out
      <3>2. /\ run'.out = out /\ run'.turn = run.turn + 1 /\ run'.now = run.now
            /\ run'.phase = run.phase /\ run'.weather = run.weather
        BY <1>0, <3>1 DEF TypeOK, RunType
      <3>3. OutAsIfReadOnce'
        <4> SUFFICES ASSUME NEW i \in 1 .. Len(ZoneList), i < run.turn + 1, ZoneList[i] \notin landed
                     PROVE  AsIfReadOnce(ZoneList[i], run.out[ZoneList[i]])'
          BY <2>1, <3>2 DEF OutAsIfReadOnce
        <4>1. AsIfReadOnce(ZoneList[i], out[ZoneList[i]])
          BY <2>2, <2>3
        <4>2. ZoneList[i] \in Zones
          BY ZonesAreListed
        <4>3. AsOfBegin(ZoneList[i])' = AsOfBegin(ZoneList[i])
          BY <2>1, <3>2, <4>2, AsOfBeginStays
        <4> QED BY <2>1, <3>2, <4>1, <4>3 DEF AsIfReadOnce
      <3> QED BY <1>0, <2>1, <3>1, <3>3 DEF OneReadingInv, SeenOrLost, ReadFromSeen
    <2>5. CASE ~ run.turn < Len(ZoneList)
      <3>1. plan' = out /\ pc' = "idle"
        BY <1>7, <2>5 DEF QueryPushed, out
      <3>2. \A z \in Zones \ landed : AsIfReadOnce(z, out[z])
        BY <2>2, <2>3, <2>5, ZonesAreListed
      <3> QED BY <1>0, <2>1, <3>1, <3>2 DEF OneReadingInv, SeenOrLost
    <2> QED BY <2>4, <2>5
  <1> QED BY <1>1, <1>2, <1>3, <1>4, <1>5, <1>6, <1>7 DEF Next

\* The three queries of a zone are as one, when the plan began, whatever lands, is lost
\* or fails meanwhile for other zones; for the zone itself, unless its node pushed.
THEOREM ZonesAreReadAtOnce == Spec => ReadAtOnce
  <1>1. Init => OneReadingInv
    BY InitType DEF Init, OneReadingInv, SeenOrLost
  <1>2. OneReadingInv /\ [Next]_vars
          => [plan' # plan =>
                \A z \in Zones \ landed :
                  plan'[z] = AsOfBegin(z) \/ (plan'[z] = 0 /\ series[z] # seen[z])]_vars
    BY NextOneReading DEF AsIfReadOnce
  <1> QED BY <1>1, <1>2, NextOneReading, PTL DEF Spec, ReadAtOnce
=============================================================================
