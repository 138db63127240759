------------------------ MODULE IrrigationPlan_proofs ------------------------
(***************************************************************************)
(* Facts about clamp_minutes, for every request, every caps record and     *)
(* every recorded total, and about plan_zone, for every configuration,     *)
(* reading and forecast.                                                   *)
(***************************************************************************)
EXTENDS IrrigationPlan, TLAPS

\* Rounding a duration that is not negative gives a whole number of minutes at
\* most half a minute away from it (Python's round, garden_core.py:28).
LEMMA RoundingError ==
  ASSUME NEW t \in Nat
  PROVE  /\ RoundMinutes(t) \in Nat
         /\ Q * RoundMinutes(t) <= t + Half
         /\ t <= Q * RoundMinutes(t) + Half
  BY DEF RoundMinutes, Q, Half

\* Rounding and the two cuts keep the order of durations.
LEMMA RoundingIsMonotone ==
  ASSUME NEW s \in Nat, NEW t \in Nat, s <= t
  PROVE  RoundMinutes(s) <= RoundMinutes(t)
  BY DEF RoundMinutes, Q, Half

LEMMA CappedIsWithinCaps ==
  ASSUME NEW t \in Int, NEW zone \in Caps, NEW watered \in Nat
  PROVE  /\ Capped(t, zone, watered) \in Nat
         /\ Capped(t, zone, watered) <= NotNegative(t)
         /\ Capped(t, zone, watered) <= zone.max_per_run
         /\ zone.max_per_day # NoDayCap =>
              Capped(t, zone, watered) <= NotNegative(zone.max_per_day - watered)
  BY DEF Capped, Caps, Lesser, NotNegative, NoDayCap

LEMMA CappedIsMonotone ==
  ASSUME NEW zone \in Caps,
         NEW s \in Int, NEW t \in Int, s <= t,
         NEW v \in Nat, NEW w \in Nat, v <= w
  PROVE  Capped(s, zone, w) <= Capped(t, zone, v)
  BY DEF Capped, Caps, Lesser, NotNegative, NoDayCap

\* clamp_minutes never grants a negative duration, nor more than either cap lets
\* through: half a minute above a fractional cap, not a tick above a whole one.
THEOREM ClampRespectsCaps ==
  ASSUME NEW t \in Int, NEW zone \in Caps, NEW watered \in Nat
  PROVE  /\ Clamp(t, zone, watered) \in Nat
         /\ Clamp(t, zone, watered) <= WithinCap(zone.max_per_run)
         /\ /\ zone.max_per_day # NoDayCap
            /\ Clamp(t, zone, watered) > 0
            => Q * Clamp(t, zone, watered) + watered <= zone.max_per_day + Half
  <1> DEFINE c == Capped(t, zone, watered)
             m == RoundMinutes(c)
  <1>1. /\ c \in Nat
        /\ c <= zone.max_per_run
        /\ zone.max_per_day # NoDayCap => c <= NotNegative(zone.max_per_day - watered)
    BY CappedIsWithinCaps
  <1>2. m \in Nat /\ Q * m <= c + Half
    BY <1>1, RoundingError
  <1>3. zone.max_per_run \in Nat /\ zone.max_per_day \in Int
    BY DEF Caps, NoDayCap
  <1>4. Clamp(t, zone, watered) \in {0, m}
    BY DEF Clamp
  <1>5. m <= WithinCap(zone.max_per_run)
    BY <1>1, <1>2, <1>3 DEF WithinCap, Q, Half
  <1>6. 0 <= WithinCap(zone.max_per_run)
    BY <1>3 DEF WithinCap, Q, Half
  <1>7. m > 0 /\ zone.max_per_day # NoDayCap => Q * m + watered <= zone.max_per_day + Half
    BY <1>1, <1>2, <1>3 DEF NotNegative, Q, Half
  <1> HIDE DEF m
  <1> QED BY <1>2, <1>4, <1>5, <1>6, <1>7

\* The second clamp, inside do_water, never cuts what the gateway granted: the
\* minutes the gateway reports and charges are the minutes the valve is opened
\* for (gateway.py:61 and garden_core.py:106).
THEOREM ClampIsIdempotent ==
  ASSUME NEW t \in Int, NEW zone \in Caps, NEW watered \in Nat
  PROVE  Clamp(Q * Clamp(t, zone, watered), zone, watered) = Clamp(t, zone, watered)
  <1> DEFINE c == Capped(t, zone, watered)
             m == RoundMinutes(c)
             d == Capped(Q * m, zone, watered)
  <1>1. c \in Nat
    BY CappedIsWithinCaps
  <1>2. m \in Nat /\ Q * m \in Nat /\ Q * m <= c + Half
    BY <1>1, RoundingError DEF Q
  <1>3. d \in Nat
    BY <1>2, CappedIsWithinCaps
  \* d is Q * m itself, or a cap that c does not exceed either.
  <1>4. (d = Q * m) \/ (c <= d /\ d <= Q * m)
    <2> HIDE DEF m
    <2> QED BY <1>1, <1>2 DEF Capped, Caps, Lesser, NotNegative, NoDayCap
  <1>5. RoundMinutes(Q * m) = m
    <2> HIDE DEF m
    <2> QED BY <1>2 DEF RoundMinutes, Q, Half
  <1>6. RoundMinutes(d) = m
    <2>1. CASE d = Q * m
      BY <2>1, <1>5
    <2>2. CASE c <= d /\ d <= Q * m
      <3>1. m <= RoundMinutes(d)
        BY <2>2, <1>1, <1>3, RoundingIsMonotone
      <3>2. RoundMinutes(d) <= RoundMinutes(Q * m)
        BY <2>2, <1>2, <1>3, RoundingIsMonotone
      <3> QED BY <3>1, <3>2, <1>2, <1>3, <1>5, RoundingError
    <2> QED BY <2>1, <2>2, <1>4
  <1>7. CASE Clamp(t, zone, watered) = m
    BY <1>6, <1>7 DEF Clamp
  <1>8. CASE Clamp(t, zone, watered) = 0
    <2>1. Capped(Q * 0, zone, watered) = 0
      BY DEF Capped, Caps, Lesser, NotNegative, NoDayCap, Q
    <2>2. RoundMinutes(0) = 0
      BY DEF RoundMinutes, Q, Half
    <2> QED BY <1>8, <2>1, <2>2 DEF Clamp
  <1> QED BY <1>7, <1>8 DEF Clamp

\* A larger request, or a day with less watered so far, is never granted less
\* (as long as the minutes stay the caps' own).
THEOREM ClampIsMonotone ==
  ASSUME NEW zone \in Caps,
         NEW s \in Int, NEW t \in Int, s <= t,
         NEW v \in Nat, NEW w \in Nat, v <= w
  PROVE  Clamp(s, zone, w) <= Clamp(t, zone, v)
  <1> DEFINE c == Capped(s, zone, w)
             d == Capped(t, zone, v)
  <1>1. c \in Nat /\ d \in Nat
    BY CappedIsWithinCaps
  <1>2. c <= d
    BY CappedIsMonotone
  <1>3. RoundMinutes(c) <= RoundMinutes(d)
    BY <1>1, <1>2, RoundingIsMonotone
  <1>4. RoundMinutes(c) \in Nat /\ RoundMinutes(d) \in Nat
    BY <1>1, RoundingError
  <1>5. TruncateMinutes(zone.min_run) \in Int
    BY DEF TruncateMinutes, Caps, Q
  <1> HIDE DEF c, d
  <1> QED BY <1>3, <1>4, <1>5 DEF Clamp, c, d

-----------------------------------------------------------------------------
(***************************************************************************)
(* plan_zone.                                                              *)
(***************************************************************************)
LEMMA ProductsGrow ==
  ASSUME NEW a \in Int, NEW b \in Int, NEW n \in Nat, a <= b
  PROVE  a * n \in Int /\ b * n \in Int /\ a * n <= b * n
  OBVIOUS

LEMMA QuotientIsNat ==
  ASSUME NEW a \in Nat, NEW n \in Nat \ {0}
  PROVE  a \div n \in Nat
  OBVIOUS

LEMMA FactorIsNat ==
  ASSUME NEW zone \in ZoneConfigs, NEW cfg \in Settings, NEW et0 \in Nat \cup {Missing}
  PROVE  Factor(zone, cfg, et0) \in Nat
  <1>1. zone.min_per_pct \in Nat /\ cfg.et0_baseline \in Nat \ {0}
    BY DEF ZoneConfigs, Settings
  <1>2. CASE et0 \in {Missing, 0}
    BY <1>1, <1>2 DEF Factor
  <1>3. CASE et0 \notin {Missing, 0}
    <2>1. et0 \in Nat
      BY <1>3
    <2>2. zone.min_per_pct * et0 \in Nat
      BY <1>1, <2>1
    <2>3. (zone.min_per_pct * et0) \div cfg.et0_baseline \in Nat
      BY <1>1, <2>2, QuotientIsNat
    <2> QED BY <1>3, <2>3 DEF Factor
  <1> QED BY <1>2, <1>3

LEMMA QuotientsGrow ==
  ASSUME NEW a \in Nat, NEW b \in Nat, NEW n \in Nat \ {0}, a <= b
  PROVE  a \div n <= b \div n
  <1> DEFINE q == a \div n
             r == b \div n
  <1>1. q \in Nat /\ r \in Nat
    BY QuotientIsNat
  <1>2. n * q <= a /\ b < n * (r + 1)
    OBVIOUS
  <1> HIDE DEF q, r
  <1>3. SUFFICES ASSUME r + 1 <= q PROVE FALSE
    BY <1>1 DEF q, r
  <1>4. (r + 1) * n <= q * n
    BY <1>1, <1>3, ProductsGrow
  <1> QED BY <1>1, <1>2, <1>4

\* A day with more ET0 has the larger factor.
LEMMA FactorGrows ==
  ASSUME NEW zone \in ZoneConfigs, NEW cfg \in Settings,
         NEW e \in Nat \ {0}, NEW f \in Nat, e <= f
  PROVE  Factor(zone, cfg, e) <= Factor(zone, cfg, f)
  <1>1. zone.min_per_pct \in Nat /\ cfg.et0_baseline \in Nat \ {0}
    BY DEF ZoneConfigs, Settings
  <1>2. /\ zone.min_per_pct * e \in Nat
        /\ zone.min_per_pct * f \in Nat
        /\ zone.min_per_pct * e <= zone.min_per_pct * f
    BY <1>1, ProductsGrow
  <1>3. (zone.min_per_pct * e) \div cfg.et0_baseline <= (zone.min_per_pct * f) \div cfg.et0_baseline
    BY <1>1, <1>2, QuotientsGrow
  <1>4. e \notin {Missing, 0} /\ f \notin {Missing, 0}
    BY DEF Missing
  <1> QED BY <1>3, <1>4 DEF Factor

\* ET0 of a day that dries the bed as much as another, or more.  A day without ET0,
\* or with an ET0 of 0.0, counts as one of the baseline.
DryingAsMuch(e, f) == e = f \/ (e \in Nat \ {0} /\ e <= f)

\* What a zone below its target wants grows as its soil dries, and with ET0.
LEMMA WantedGrows ==
  ASSUME NEW zone \in ZoneConfigs, NEW cfg \in Settings,
         NEW e \in Nat \cup {Missing}, NEW f \in Nat \cup {Missing}, DryingAsMuch(e, f),
         NEW soil \in Int, NEW moister \in Int, soil <= moister, moister <= zone.target_pct
  PROVE  Wanted(zone, cfg, moister, e) <= Wanted(zone, cfg, soil, f)
  <1> DEFINE less == zone.target_pct - moister
             more == zone.target_pct - soil
             F(x) == Factor(zone, cfg, x)
  <1>1. less \in Nat /\ more \in Nat /\ less <= more
    BY DEF ZoneConfigs
  <1>2. F(e) \in Nat /\ F(f) \in Nat
    BY FactorIsNat
  <1>3. F(e) <= F(f)
    <2>1. CASE e = f
      BY <1>2, <2>1
    <2>2. CASE e \in Nat \ {0} /\ e <= f
      <3>1. f \in Nat
        BY <2>2 DEF Missing
      <3> QED BY <2>2, <3>1, FactorGrows
    <2> QED BY <2>1, <2>2 DEF DryingAsMuch
  <1> HIDE DEF less, more, F
  <1>4. less * F(e) <= more * F(e) /\ F(e) * more <= F(f) * more
    BY <1>1, <1>2, <1>3, ProductsGrow
  <1>5. less * F(e) <= more * F(f)
    BY <1>1, <1>2, <1>4
  <1> QED BY <1>5 DEF less, more, F, Wanted

LEMMA WantedIsInt ==
  ASSUME NEW zone \in ZoneConfigs, NEW cfg \in Settings, NEW weather \in Forecasts,
         NEW reading \in Readings
  PROVE  Wanted(zone, cfg, reading.soil, weather.et0) \in Int
  <1>1. zone.target_pct - reading.soil \in Int
    BY DEF Readings, ZoneConfigs
  <1>2. weather.et0 \in Nat \cup {Missing}
    BY DEF Forecasts
  <1>3. Factor(zone, cfg, weather.et0) \in Nat
    BY <1>2, FactorIsNat
  <1> QED BY <1>1, <1>3 DEF Wanted

\* plan_zone proposes a number of minutes, whatever it is given.
LEMMA PlanZoneIsNat ==
  ASSUME NEW zone \in ZoneConfigs, NEW cfg \in Settings, NEW reading \in Readings,
         NEW weather \in Forecasts, NEW phase \in Phases, NEW w \in Nat
  PROVE  PlanZone(zone, cfg, reading, weather, phase, w) \in Nat
  <1> DEFINE wanted == Wanted(zone, cfg, reading.soil, weather.et0)
             burst == Lesser(wanted, cfg.midday_cap)
  <1>1. wanted \in Int
    BY WantedIsInt
  <1>2. burst \in Int
    BY <1>1 DEF Lesser, Settings
  <1>3. zone.caps \in Caps /\ Q * w \in Nat
    BY DEF ZoneConfigs, Q
  <1>4. Clamp(wanted, zone.caps, Q * w) \in Nat /\ Clamp(burst, zone.caps, Q * w) \in Nat
    BY <1>1, <1>2, <1>3, ClampRespectsCaps
  <1> HIDE DEF wanted, burst
  <1>5. PlanZone(zone, cfg, reading, weather, phase, w)
          \in {0, Clamp(wanted, zone.caps, Q * w), Clamp(burst, zone.caps, Q * w)}
    BY DEF PlanZone, wanted, burst
  <1> QED BY <1>4, <1>5

\* Of two beds that differ in soil moisture and in the ET0 of their day only, the one
\* that is drier and had the drier day is never given less water: no rounding, cap,
\* minimum or phase turns the order round (garden.py:44-71).
THEOREM DrierIsNeverGivenLess ==
  ASSUME NEW zone \in ZoneConfigs, NEW cfg \in Settings,
         NEW mild \in Forecasts, NEW hot \in Forecasts,
         hot.precip = mild.precip, hot.prob = mild.prob, DryingAsMuch(mild.et0, hot.et0),
         NEW phase \in Phases, NEW w \in Nat,
         NEW dry \in Readings, NEW moist \in Readings,
         dry.soil # Missing, dry.soil <= moist.soil,
         dry.temp = moist.temp, dry.stale = moist.stale
  PROVE  PlanZone(zone, cfg, moist, mild, phase, w)
           <= PlanZone(zone, cfg, dry, hot, phase, w)
  <1> DEFINE more == Wanted(zone, cfg, dry.soil, hot.et0)
             less == Wanted(zone, cfg, moist.soil, mild.et0)
             given == PlanZone(zone, cfg, dry, hot, phase, w)
             givenMoist == PlanZone(zone, cfg, moist, mild, phase, w)
  <1>1. dry.soil \in Int /\ moist.soil \in Int /\ zone.target_pct \in Nat
    BY DEF Readings, ZoneConfigs
  <1>2. more \in Int /\ less \in Int
    BY WantedIsInt
  <1>3. cfg.midday_cap \in Nat /\ zone.caps \in Caps /\ Q * w \in Nat
    BY DEF Settings, ZoneConfigs, Q
  <1>4. givenMoist \in Nat /\ given \in Nat
    BY PlanZoneIsNat
  <1>5. CASE givenMoist = 0
    BY <1>4, <1>5
  <1>6. CASE givenMoist # 0
    <2>1. /\ ~ Unusable(moist) /\ ~ RainExpected(cfg, mild) /\ ~ MoistEnough(zone, moist)
          /\ phase = "midday" => HeatWave(cfg, moist.temp)
      BY <1>6 DEF PlanZone
    <2>2. ~ Unusable(dry) /\ ~ RainExpected(cfg, hot) /\ ~ MoistEnough(zone, dry)
      BY <1>1, <2>1 DEF Unusable, MoistEnough, RainExpected
    <2>3. phase = "midday" => HeatWave(cfg, dry.temp)
      BY <2>1
    <2>4. less <= more
      <3>1. moist.soil <= zone.target_pct
        BY <1>1, <2>1 DEF MoistEnough
      <3>2. mild.et0 \in Nat \cup {Missing} /\ hot.et0 \in Nat \cup {Missing}
        BY DEF Forecasts
      <3> QED BY <1>1, <3>1, <3>2, WantedGrows
    <2> HIDE DEF more, less
    <2>5. /\ Lesser(less, cfg.midday_cap) \in Int
          /\ Lesser(more, cfg.midday_cap) \in Int
          /\ Lesser(less, cfg.midday_cap) <= Lesser(more, cfg.midday_cap)
      BY <1>2, <1>3, <2>4 DEF Lesser
    <2>6. CASE phase = "midday"
      <3>1. givenMoist = Clamp(Lesser(less, cfg.midday_cap), zone.caps, Q * w)
        BY <2>1, <2>6 DEF PlanZone, less
      <3>2. given = Clamp(Lesser(more, cfg.midday_cap), zone.caps, Q * w)
        BY <2>2, <2>3, <2>6 DEF PlanZone, more
      <3> QED BY <1>3, <2>5, <3>1, <3>2, ClampIsMonotone
    <2>7. CASE phase # "midday"
      <3>1. givenMoist = Clamp(less, zone.caps, Q * w)
        BY <2>1, <2>7 DEF PlanZone, less
      <3>2. given = Clamp(more, zone.caps, Q * w)
        BY <2>2, <2>7 DEF PlanZone, more
      <3> QED BY <1>2, <1>3, <2>4, <3>1, <3>2, ClampIsMonotone
    <2> QED BY <2>6, <2>7
  <1> QED BY <1>5, <1>6

\* A proposal made with the gateway's own record of the day is granted in full
\* (garden.py:71 and gateway.py:61).
THEOREM ProposalsAreGranted ==
  ASSUME NEW zone \in ZoneConfigs, NEW cfg \in Settings, NEW reading \in Readings,
         NEW weather \in Forecasts, NEW phase \in Phases, NEW w \in Nat
  PROVE  LET p == PlanZone(zone, cfg, reading, weather, phase, w)
         IN  Clamp(Q * p, zone.caps, Q * w) = p
  <1> DEFINE wanted == Wanted(zone, cfg, reading.soil, weather.et0)
             burst == Lesser(wanted, cfg.midday_cap)
             p == PlanZone(zone, cfg, reading, weather, phase, w)
  <1>1. wanted \in Int
    BY WantedIsInt
  <1>2. burst \in Int
    BY <1>1 DEF Lesser, Settings
  <1>3. zone.caps \in Caps /\ Q * w \in Nat
    BY DEF ZoneConfigs, Q
  <1>4. zone.caps.max_per_run \in Nat /\ zone.caps.min_run \in Nat
    BY <1>3 DEF Caps
  <1>5. Capped(0, zone.caps, Q * w) = 0
    <2>1. NotNegative(0) = 0
      BY DEF NotNegative
    <2>2. /\ Capped(0, zone.caps, Q * w) \in Nat
          /\ Capped(0, zone.caps, Q * w) <= NotNegative(0)
      BY <1>3, CappedIsWithinCaps, 0 \in Int
    <2> QED BY <2>1, <2>2
  <1>6. Clamp(0, zone.caps, Q * w) = 0
    BY <1>5 DEF Clamp, RoundMinutes, Q, Half
  <1>7. /\ Clamp(Q * Clamp(wanted, zone.caps, Q * w), zone.caps, Q * w)
             = Clamp(wanted, zone.caps, Q * w)
        /\ Clamp(Q * Clamp(burst, zone.caps, Q * w), zone.caps, Q * w)
             = Clamp(burst, zone.caps, Q * w)
    BY <1>1, <1>2, <1>3, ClampIsIdempotent
  <1> HIDE DEF wanted, burst
  <1>8. p \in {0, Clamp(wanted, zone.caps, Q * w), Clamp(burst, zone.caps, Q * w)}
    BY DEF PlanZone, wanted, burst
  <1>9. Q * 0 = 0
    BY DEF Q
  <1> HIDE DEF p
  <1>10. Clamp(Q * p, zone.caps, Q * w) = p
    BY <1>6, <1>7, <1>8, <1>9
  <1> QED BY <1>10 DEF p

=============================================================================
