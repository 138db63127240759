--------------------------- MODULE ZoneDay_proofs ---------------------------
(***************************************************************************)
(* The properties of ZoneDay, for every zone, forecast, reading and        *)
(* sequence of requests.                                                   *)
(***************************************************************************)
EXTENDS ZoneDay, IrrigationPlan_proofs

-----------------------------------------------------------------------------
(***************************************************************************)
(* The day: the types, and what the record of the day adds up to.          *)
(***************************************************************************)
DayInv ==
  /\ zone \in ZoneConfigs
  /\ weather \in Forecasts
  /\ watered \in Nat
  /\ DayWithinAllowance

\* Of a day within its allowance one more grant makes no more than that: it is
\* nothing, or the caps left room for all but its rounding.
LEMMA GrantFits ==
  ASSUME NEW t \in Int, NEW caps \in Caps, NEW w \in Nat,
         caps.max_per_day # NoDayCap, w <= WithinCap(caps.max_per_day)
  PROVE  w + Clamp(t, caps, Q * w) <= WithinCap(caps.max_per_day)
  <1> DEFINE g == Clamp(t, caps, Q * w)
  <1>1. Q * w \in Nat /\ caps.max_per_day \in Nat
    BY DEF Q, Caps, NoDayCap
  <1>2. g \in Nat /\ (g > 0 => Q * g + Q * w <= caps.max_per_day + Half)
    BY <1>1, ClampRespectsCaps
  <1> HIDE DEF g
  <1>3. CASE g = 0
    BY <1>1, <1>3 DEF g
  <1>4. CASE g > 0
    <2>1. w + g <= (caps.max_per_day + Half) \div Q
      BY <1>1, <1>2, <1>4 DEF Q, Half
    <2> QED BY <2>1 DEF WithinCap, g
  <1> QED BY <1>2, <1>3, <1>4

LEMMA InitInv == Init => DayInv
  <1> SUFFICES ASSUME Init PROVE DayInv
    OBVIOUS
  <1>1. zone \in ZoneConfigs /\ weather \in Forecasts /\ watered = 0
    BY InputAssumption DEF Init
  <1>2. zone.caps.max_per_day \in Nat \cup {NoDayCap}
    BY <1>1 DEF ZoneConfigs, Caps
  <1> QED BY <1>1, <1>2 DEF DayInv, DayWithinAllowance, WithinCap, Q, Half

LEMMA InvStep == DayInv /\ [Next]_vars => DayInv'
  <1> SUFFICES ASSUME DayInv, [Next]_vars PROVE DayInv'
    OBVIOUS
  <1>1. zone.caps \in Caps /\ Q * watered \in Nat
    BY DEF DayInv, ZoneConfigs, Q
  <1>2. ASSUME NEW t \in Asked, Ask(t) PROVE DayInv'
    <2>1. t \in Int
      BY InputAssumption
    <2>2. Clamp(t, zone.caps, Q * watered) \in Nat
      BY <1>1, <2>1, ClampRespectsCaps
    <2>3. zone' = zone /\ weather' = weather /\ watered' \in Nat
      BY <1>2, <2>2 DEF Ask, DayInv
    <2>4. DayWithinAllowance'
      BY <1>1, <1>2, <2>1, <2>3, GrantFits DEF Ask, DayInv, DayWithinAllowance
    <2> QED BY <2>3, <2>4 DEF DayInv
  <1>3. CASE NewDay
    <2>1. zone' = zone /\ weather' = weather /\ watered' = 0
      BY <1>3 DEF NewDay
    <2>2. zone.caps.max_per_day \in Nat \cup {NoDayCap}
      BY <1>1 DEF Caps
    <2>3. DayWithinAllowance'
      BY <2>1, <2>2 DEF DayWithinAllowance, WithinCap, Q, Half
    <2> QED BY <2>1, <2>3 DEF DayInv
  <1>4. CASE UNCHANGED vars
    BY <1>4 DEF vars, DayInv, DayWithinAllowance
  <1> QED BY <1>2, <1>3, <1>4 DEF Next

LEMMA Invariance == Spec => []DayInv
  BY InitInv, InvStep, PTL DEF Spec

\* However a day's water is split over calls, its record stays within max_per_day,
\* to the rounding of one call (garden_core.py:26-28, 167-177).
THEOREM DayIsWithinAllowance == Spec => []DayWithinAllowance
  <1>1. DayInv => DayWithinAllowance
    BY DEF DayInv
  <1> QED BY <1>1, Invariance, PTL

-----------------------------------------------------------------------------
(***************************************************************************)
(* Proposals, from the lemmas about plan_zone.                             *)
(***************************************************************************)
LEMMA ReadingsAreTyped ==
  ASSUME NEW soil \in SoilRange, NEW temp \in TempRange
  PROVE  Reading(soil, temp) \in Readings
  BY InputAssumption DEF Reading, Readings

\* At every point of every day, whatever the zone's configuration: a bed that is
\* drier, or had the drier day, is never given less (garden.py:44-71).
THEOREM DrierIsNotGivenLess == Spec => []DrierNotLess
  <1>1. DayInv => DrierNotLess
    <2> SUFFICES ASSUME DayInv,
                        NEW soil \in SoilRange \ {Missing}, NEW moister \in SoilRange \ {Missing},
                        NEW temp \in TempRange, NEW phase \in Phases, NEW day \in Weathers,
                        soil <= moister, DriesMore(day, weather)
                 PROVE  PlanZone(zone, Cfg, Reading(soil, temp), day, phase, watered)
                          >= PlanZone(zone, Cfg, Reading(moister, temp), weather, phase, watered)
      BY DEF DrierNotLess, Planned
    <2> DEFINE dry == Reading(soil, temp)
               moist == Reading(moister, temp)
    <2>1. dry \in Readings /\ moist \in Readings
      BY ReadingsAreTyped
    <2>2. /\ dry.soil = soil /\ moist.soil = moister
          /\ dry.temp = moist.temp /\ dry.stale = moist.stale
      BY DEF Reading
    <2>3. zone \in ZoneConfigs /\ weather \in Forecasts /\ watered \in Nat
      BY DEF DayInv
    <2>4. day \in Forecasts /\ Cfg \in Settings
      BY InputAssumption
    <2>5. DryingAsMuch(weather.et0, day.et0)
      BY <2>3, <2>4 DEF DriesMore, DryingAsMuch, Forecasts, Missing
    <2>6. day.precip = weather.precip /\ day.prob = weather.prob
      BY DEF DriesMore
    <2> HIDE DEF dry, moist
    <2>7. PlanZone(zone, Cfg, moist, weather, phase, watered)
            <= PlanZone(zone, Cfg, dry, day, phase, watered)
      BY <2>1, <2>2, <2>3, <2>4, <2>5, <2>6, DrierIsNeverGivenLess
    <2>8. /\ PlanZone(zone, Cfg, moist, weather, phase, watered) \in Nat
          /\ PlanZone(zone, Cfg, dry, day, phase, watered) \in Nat
      BY <2>1, <2>3, <2>4, PlanZoneIsNat
    <2> QED BY <2>7, <2>8 DEF dry, moist
  <1> QED BY <1>1, Invariance, PTL

\* A proposal made with the day's record is granted in full at every point of the
\* day: rounding and min_run do not bite twice (garden.py:71, gateway.py:61).
THEOREM ProposalsAreGrantedAllDay == Spec => []ProposalIsGranted
  <1>1. DayInv => ProposalIsGranted
    <2> SUFFICES ASSUME DayInv,
                        NEW soil \in SoilRange, NEW temp \in TempRange, NEW phase \in Phases
                 PROVE  LET p == Planned(soil, temp, phase)
                        IN  Clamp(Q * p, zone.caps, Q * watered) = p
      BY DEF ProposalIsGranted
    <2>1. Reading(soil, temp) \in Readings
      BY ReadingsAreTyped
    <2>2. zone \in ZoneConfigs /\ weather \in Forecasts /\ watered \in Nat /\ Cfg \in Settings
      BY InputAssumption DEF DayInv
    <2> QED BY <2>1, <2>2, ProposalsAreGranted DEF Planned
  <1> QED BY <1>1, Invariance, PTL

-----------------------------------------------------------------------------
(***************************************************************************)
(* The grant against the reference definition.  Nearest compares squares   *)
(* of distances: ordering them is ordering the distances, and the rest is  *)
(* linear.                                                                 *)
(***************************************************************************)
Distance(x) == IF x >= 0 THEN x ELSE -x

LEMMA SquaresAreOrdered ==
  ASSUME NEW a \in Nat, NEW b \in Nat
  PROVE  (a * a <= b * b) <=> (a <= b)
  <1>1. CASE a <= b
    <2>1. a * a <= b * a /\ a * b <= b * b
      BY <1>1, ProductsGrow
    <2> QED BY <1>1, <2>1
  <1>2. CASE b < a
    <2>1. (b + 1) * a <= a * a /\ b * b <= a * b
      BY <1>2, ProductsGrow
    <2>2. b * b < a * a
      BY <1>2, <2>1
    <2> QED BY <1>2, <2>2
  <1> QED BY <1>1, <1>2

LEMMA SquareOfDistance ==
  ASSUME NEW x \in Int
  PROVE  Distance(x) \in Nat /\ Distance(x) * Distance(x) = x * x
  BY DEF Distance

LEMMA SquaresOrderDistances ==
  ASSUME NEW x \in Int, NEW y \in Int
  PROVE  /\ (x * x <= y * y) <=> (Distance(x) <= Distance(y))
         /\ (x * x < y * y) <=> (Distance(x) < Distance(y))
  <1> DEFINE a == Distance(x)
             b == Distance(y)
  <1>1. a \in Nat /\ b \in Nat /\ a * a = x * x /\ b * b = y * y
    BY SquareOfDistance
  <1> HIDE DEF a, b
  <1>2. (a * a <= b * b) <=> (a <= b)
    BY <1>1, SquaresAreOrdered
  <1>3. (b * b <= a * a) <=> (b <= a)
    BY <1>1, SquaresAreOrdered
  <1>4. x * x \in Int /\ y * y \in Int
    OBVIOUS
  <1>5. (x * x < y * y) <=> (a < b)
    BY <1>1, <1>3, <1>4
  <1> QED BY <1>1, <1>2, <1>5 DEF a, b

\* The condition of Nearest, in distances.
IsNearest(n, t) ==
  /\ \A k \in 0 .. t : Distance(Q * n - t) <= Distance(Q * k - t)
  /\ n % 2 = 1 => \A k \in 0 .. t \ {n} : Distance(Q * n - t) < Distance(Q * k - t)

LEMMA NearestByDistance ==
  ASSUME NEW t \in Nat
  PROVE  Nearest(t) = CHOOSE n \in 0 .. t : IsNearest(n, t)
  <1> DEFINE P(n) == /\ \A k \in 0 .. t : (Q * n - t) * (Q * n - t) <= (Q * k - t) * (Q * k - t)
                     /\ n % 2 = 1 => \A k \in 0 .. t \ {n} :
                                       (Q * n - t) * (Q * n - t) < (Q * k - t) * (Q * k - t)
  <1>1. ASSUME NEW n \in 0 .. t, NEW k \in 0 .. t
        PROVE  /\ (Q * n - t) * (Q * n - t) <= (Q * k - t) * (Q * k - t)
                    <=> Distance(Q * n - t) <= Distance(Q * k - t)
               /\ (Q * n - t) * (Q * n - t) < (Q * k - t) * (Q * k - t)
                    <=> Distance(Q * n - t) < Distance(Q * k - t)
    <2>1. Q * n - t \in Int /\ Q * k - t \in Int
      BY DEF Q
    <2> QED BY <2>1, SquaresOrderDistances
  <1>2. \A n \in 0 .. t : P(n) <=> IsNearest(n, t)
    <2> SUFFICES ASSUME NEW n \in 0 .. t PROVE P(n) <=> IsNearest(n, t)
      OBVIOUS
    <2> QED BY <1>1, Zenon DEF IsNearest
  <1>3. (CHOOSE n \in 0 .. t : P(n)) = CHOOSE n \in 0 .. t : IsNearest(n, t)
    <2> HIDE DEF P
    <2> QED BY <1>2
  <1> QED BY <1>3 DEF Nearest

\* Python's round, as its documentation gives it, is what the model computes: the
\* nearest whole minute, and of two as near the even one (garden_core.py:28).
THEOREM RoundingIsNearest ==
  ASSUME NEW t \in Nat
  PROVE  RoundMinutes(t) = Nearest(t)
  <1> DEFINE r == RoundMinutes(t)
             d(n) == Distance(Q * n - t)
  <1>1. /\ r \in 0 .. t
        /\ d(r) \in Nat
        /\ d(r) <= Half
        /\ r % 2 = 1 => d(r) < Half
    BY DEF RoundMinutes, Distance, Q, Half
  <1> HIDE DEF r
  <1>2. ASSUME NEW n \in 0 .. t, n # r
        PROVE  /\ d(n) \in Nat
               /\ d(n) + d(r) >= Q
               /\ d(n) + d(r) = Q => n % 2 # r % 2
    BY <1>1, <1>2 DEF Distance, Q, Half
  <1>3. IsNearest(r, t)
    <2>1. ASSUME NEW n \in 0 .. t, n # r
          PROVE  d(r) <= d(n) /\ (r % 2 = 1 => d(r) < d(n))
      <3>1. d(n) \in Nat /\ d(n) + d(r) >= Q
        BY <1>2, <2>1
      <3> HIDE DEF d
      <3> QED BY <1>1, <3>1 DEF Q, Half
    <2>2. d(r) <= d(r)
      BY <1>1
    <2> QED BY <2>1, <2>2 DEF IsNearest
  <1>4. ASSUME NEW n \in 0 .. t, IsNearest(n, t) PROVE n = r
    <2> SUFFICES ASSUME n # r PROVE FALSE
      OBVIOUS
    <2>1. d(n) <= d(r) /\ (n % 2 = 1 => d(n) < d(r))
      BY <1>1, <1>4 DEF IsNearest
    <2>2. d(n) \in Nat /\ d(n) + d(r) >= Q /\ (d(n) + d(r) = Q => n % 2 # r % 2)
      BY <1>2
    <2>3. n % 2 \in {0, 1} /\ r % 2 \in {0, 1}
      BY <1>1
    <2> HIDE DEF d
    <2> QED BY <1>1, <2>1, <2>2, <2>3 DEF Q, Half
  <1>5. (CHOOSE n \in 0 .. t : IsNearest(n, t)) = r
    BY <1>1, <1>3, <1>4
  <1> QED BY <1>5, NearestByDistance DEF r

\* What clamp_minutes grants is the nearest whole minute to what request and caps
\* allow, or nothing where that is below min_run, at every point of every day
\* (garden_core.py:21-31).
THEOREM GrantIsNearest == Spec => []ClampIsNearest
  <1>1. DayInv => ClampIsNearest
    <2> SUFFICES ASSUME DayInv, NEW t \in Asked
                 PROVE  LET allowed == NotNegative(Lesser(t, Left(zone.caps)))
                            g == Clamp(t, zone.caps, Q * watered)
                        IN  \/ g = Nearest(allowed)
                            \/ g = 0 /\ Q * Nearest(allowed) < zone.caps.min_run
      BY DEF ClampIsNearest
    <2> DEFINE c == Capped(t, zone.caps, Q * watered)
               m == RoundMinutes(c)
    <2>1. t \in Int /\ zone.caps \in Caps /\ Q * watered \in Nat
      BY InputAssumption DEF DayInv, ZoneConfigs, Q
    <2>2. c = NotNegative(Lesser(t, Left(zone.caps)))
      BY <2>1 DEF Capped, Left, Caps, Lesser, NotNegative, NoDayCap
    <2>3. c \in Nat
      BY <2>1, CappedIsWithinCaps
    <2>4. m = Nearest(c) /\ m \in Nat
      BY <2>3, RoundingIsNearest, RoundingError
    <2>5. m < TruncateMinutes(zone.caps.min_run) => Q * m < zone.caps.min_run
      <3> HIDE DEF m
      <3> QED BY <2>1, <2>4 DEF Caps, TruncateMinutes, Q
    <2>6. Clamp(t, zone.caps, Q * watered)
            = IF m < TruncateMinutes(zone.caps.min_run) THEN 0 ELSE m
      BY DEF Clamp
    <2> QED BY <2>2, <2>4, <2>5, <2>6
  <1> QED BY <1>1, Invariance, PTL

=============================================================================
