---------------------------- MODULE ClampMinutes ----------------------------
(***************************************************************************)
(* clamp_minutes of irrigation/garden_core.py: the hard caps every         *)
(* watering request passes through, twice on its way to the valve          *)
(* (gateway.py water_zone, then do_water) and once in the planner.         *)
(*                                                                         *)
(* The code computes in floats.  Requests and recorded minutes are whole,  *)
(* caps come from JSON and may be fractional, so the only fractions are    *)
(* those of the caps.  A duration is a number of quarter minutes here:     *)
(* below, at and above the half are all that round() tells apart.          *)
(***************************************************************************)
EXTENDS Integers

\* Ticks in a minute, and in half a minute.
Q == 4
Half == 2

\* A zone whose configuration has no "max_per_day" key.
NoDayCap == -1

\* The caps of a zone, in ticks: max_per_run and min_run have defaults in the
\* code, max_per_day may be missing.
Caps == [max_per_run : Nat, max_per_day : Nat \cup {NoDayCap}, min_run : Nat]

Lesser(a, b) == IF a <= b THEN a ELSE b
NotNegative(a) == IF a >= 0 THEN a ELSE 0

\* Mutant of RoundMinutes: a half goes up.
RoundHalfUp(ticks) == (ticks + Half) \div Q

\* int(round(m)): to the nearest minute, a half to the even one.
RoundMinutes(ticks) ==
  LET whole == ticks \div Q
      rest == ticks % Q
  IN  IF rest > Half \/ (rest = Half /\ whole % 2 = 1) THEN whole + 1 ELSE whole

\* int(m) of a duration that is not negative.
TruncateMinutes(ticks) == ticks \div Q

\* Mutants of Capped: one cap is forgotten.
CappedByRun(ticks, zone, watered) == Lesser(NotNegative(ticks), zone.max_per_run)

CappedByDay(ticks, zone, watered) ==
  Lesser(NotNegative(ticks), NotNegative(zone.max_per_day - watered))

\* What the caps leave of a request before it is rounded.  Both arguments are in
\* ticks; watered is what the day's record holds.
Capped(ticks, zone, watered) ==
  LET run == Lesser(NotNegative(ticks), zone.max_per_run)
  IN  IF zone.max_per_day = NoDayCap THEN run
      ELSE Lesser(run, NotNegative(zone.max_per_day - watered))

\* Mutants of Clamp: a short run is lengthened, not refused; min_run is compared
\* before rounding.
ClampRaised(ticks, zone, watered) ==
  LET m == RoundMinutes(Capped(ticks, zone, watered))
      least == TruncateMinutes(zone.min_run)
  IN  IF m < least THEN least ELSE m

ClampTestedEarly(ticks, zone, watered) ==
  LET allowed == Capped(ticks, zone, watered)
  IN  IF allowed < zone.min_run THEN 0 ELSE RoundMinutes(allowed)

\* clamp_minutes(minutes, zone, watered_today): whole minutes.
Clamp(ticks, zone, watered) ==
  LET m == RoundMinutes(Capped(ticks, zone, watered))
  IN  IF m < TruncateMinutes(zone.min_run) THEN 0 ELSE m

\* The whole minutes a cap can let through: rounding may add half a minute.
WithinCap(cap) == (cap + Half) \div Q
=============================================================================
