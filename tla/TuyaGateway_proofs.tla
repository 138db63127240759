------------------------- MODULE TuyaGateway_proofs -------------------------
(***************************************************************************)
(* Invariance proofs for TuyaGateway, for every set of zones, caps,        *)
(* requests and faults.                                                    *)
(***************************************************************************)
EXTENDS TuyaGateway, IrrigationPlan_proofs

\* What Clamp grants under the caps of a configured zone.
LEMMA ClampOfZone ==
  ASSUME NEW z \in Zones, NEW m \in Int, NEW w \in Nat
  PROVE  LET g == Clamp(m, CapsOf[z], Q * w)
         IN  /\ g \in Nat
             /\ g <= RunAllowance(z)
             /\ g > 0 => w + g <= DayAllowance(z)
             /\ Clamp(Q * g, CapsOf[z], Q * w) = g
  <1> DEFINE g == Clamp(m, CapsOf[z], Q * w)
  <1>1. CapsOf[z] \in Caps /\ CapsOf[z].max_per_day # NoDayCap /\ Q * w \in Nat
    BY CapsAssumption DEF Q
  <1>2. CapsOf[z].max_per_day \in Nat /\ CapsOf[z].max_per_run \in Nat
    BY <1>1 DEF Caps, NoDayCap
  <1>3. /\ g \in Nat
        /\ g <= WithinCap(CapsOf[z].max_per_run)
        /\ g > 0 => Q * g + Q * w <= CapsOf[z].max_per_day + Half
    BY <1>1, ClampRespectsCaps
  <1>4. Clamp(Q * g, CapsOf[z], Q * w) = g
    BY <1>1, ClampIsIdempotent
  <1>5. g > 0 => w + g <= WithinCap(CapsOf[z].max_per_day)
    <2> HIDE DEF g
    <2> QED BY <1>2, <1>3 DEF WithinCap, Q, Half
  <1> QED BY <1>3, <1>4, <1>5 DEF RunAllowance, DayAllowance

LEMMA AllowancesAreNat ==
  ASSUME NEW z \in Zones
  PROVE  RunAllowance(z) \in Nat /\ DayAllowance(z) \in Nat
  BY CapsAssumption DEF RunAllowance, DayAllowance, WithinCap, Caps, NoDayCap, Q, Half

-----------------------------------------------------------------------------
(***************************************************************************)
(* The inductive invariant.  TypeOK alone is not inductive: the type of a  *)
(* countdown rests on the zone of the call being a configured one.         *)
(***************************************************************************)
LEMMA NullTypes ==
  /\ NoCall \in Calls
  /\ NoRecord \in Records
  /\ Closed \in Valves
  BY DEF NoCall, Calls, Tools, NoRecord, Records, Closed, Valves

LEMMA ValveSteps ==
  ASSUME NEW v \in Valves
  PROVE  /\ Ran(v) \in Valves
         /\ Ran(v).left <= v.left
         /\ \A m \in Nat, d \in Nat : \A w \in Opened(v, m, d) :
              w \in Valves /\ w.left \in {0, m, v.left}
  <1>1. Ran(v) \in Valves /\ Ran(v).left <= v.left
    BY DEF Ran, Closed, Valves
  <1>2. ASSUME NEW m \in Nat, NEW d \in Nat, NEW w \in Opened(v, m, d)
        PROVE  w \in Valves /\ w.left \in {0, m, v.left}
    <2>1. \/ w = [on |-> TRUE, left |-> m, day |-> d]
          \/ w = [on |-> TRUE, left |-> 0, day |-> d]
          \/ w = v
      BY <1>2 DEF Opened
    <2>2. CASE w = [on |-> TRUE, left |-> m, day |-> d]
      BY <2>2 DEF Valves
    <2>3. CASE w = [on |-> TRUE, left |-> 0, day |-> d]
      BY <2>3 DEF Valves
    <2>4. CASE w = v
      BY <2>4
    <2> QED BY <2>1, <2>2, <2>3, <2>4
  <1> QED BY <1>1, <1>2

LEMMA ReportedType ==
  ASSUME TypeOK, NEW z \in Zones
  PROVE  Reported(z) \subseteq BOOLEAN
  <1>1. shadow[z] \in BOOLEAN
    BY DEF TypeOK
  <1>2. (valve[z].left > 0) \in BOOLEAN
    OBVIOUS
  <1>3. CASE "lag" \in faults
    BY <1>1, <1>2, <1>3 DEF Reported
  <1>4. CASE "lag" \notin faults
    BY <1>2, <1>4 DEF Reported
  <1> QED BY <1>3, <1>4

\* What the clamp inside do_water yields is what the gateway granted.
LEMMA MinutesOfCall ==
  ASSUME TypeOK, CallInv, call.tool = "water_zone"
  PROVE  /\ Minutes = call.granted
         /\ call.granted <= RunAllowance(call.zone)
         /\ call.watered + call.granted <= DayAllowance(call.zone)
  <1>1. call.zone \in Zones /\ call.granted \in Nat /\ call.watered \in Nat
        /\ Q * call.granted \in Int
    BY DEF CallInv, TypeOK, Calls, Q
  <1>2. Minutes = call.granted /\ call.granted > 0
    BY DEF CallInv
  <1> QED BY <1>1, <1>2, ClampOfZone DEF Minutes

LEMMA InitIInv == Init => TypeOK /\ CallInv
  <1> SUFFICES ASSUME Init PROVE TypeOK /\ CallInv
    OBVIOUS
  <1>1. TypeOK
    BY NullTypes DEF Init, TypeOK, EmptyBudget, Places
  <1>2. CallInv
    BY DEF Init, CallInv, NoCall, EmptyBudget, NoRecord, WaterPlaces
  <1> QED BY <1>1, <1>2

LEMMA TypeStep == TypeOK /\ CallInv /\ [Next]_vars => TypeOK'
  <1> SUFFICES ASSUME TypeOK, CallInv, [Next]_vars PROVE TypeOK'
    OBVIOUS
  <1> USE DEF TypeOK
  <1>0. NoCall \in Calls
    BY NullTypes
  <1>1. CASE AnswerAtOnce
    BY <1>1 DEF AnswerAtOnce
  <1>2. ASSUME NEW z \in Zones, NEW minutes \in Requests, BeginWater(z, minutes)
        PROVE  TypeOK'
    <2>1. WateredToday(z, day) \in Nat /\ Q * minutes \in Int
      BY RequestsAssumption DEF WateredToday, Records, Q
    <2>2. Granted(z, minutes) \in Nat
      BY <2>1, ClampOfZone DEF Granted
    <2>3. call' \in Calls /\ pc' \in {"open", "token"}
      BY <1>2, <2>1, <2>2 DEF BeginWater, Enter, Calls, Tools
    <2> QED BY <1>2, <2>3 DEF BeginWater, Enter, Places
  <1>3. ASSUME NEW z \in Zones, BeginStatus(z) \/ BeginStop(z)
        PROVE  TypeOK'
    <2>1. call' \in Calls /\ pc' \in {"status", "close", "token"}
      BY <1>0, <1>3 DEF BeginStatus, BeginStop, Enter, NoCall, Calls, Tools
    <2> QED BY <1>3, <2>1 DEF BeginStatus, BeginStop, Enter, Places
  <1>4. CASE FetchToken
    <2>1. FirstRequest(call.tool) \in Places
      BY DEF FirstRequest, Places, Tools
    <2> QED BY <1>0, <1>4, <2>1 DEF FetchToken, Raise, End, Places
  <1>5. CASE SendOn
    <2>1. call.tool = "water_zone" /\ call.zone \in Zones
      BY <1>5 DEF SendOn, CallInv, WaterPlaces
    <2>2. Minutes \in Nat
      BY <2>1, MinutesOfCall DEF Calls
    <2>3. valve' \in [Zones -> Valves]
      <3>1. call.day \in Nat /\ valve[call.zone] \in Valves
        BY <2>1 DEF Calls
      <3>2. \A v \in Opened(valve[call.zone], Minutes, call.day) : v \in Valves
        BY <3>1, <2>2, ValveSteps
      <3> QED BY <1>5, <3>2 DEF SendOn
    <2>4. call' \in Calls /\ pc' \in {"poll", "idle"}
      BY <1>0, <1>5, <2>2 DEF SendOn, Raise, End, Calls
    <2> QED BY <1>5, <2>3, <2>4 DEF SendOn, Raise, End, Places
  <1>6. CASE Poll
    <2>1. call' \in Calls /\ pc' \in {"charge", "poll", "failsafe", "idle"}
      BY <1>0, <1>6 DEF Poll, Missed, Raise, End, Calls
    <2>2. shadow' \in [Zones -> BOOLEAN]
      <3>1. Reported(call.zone) \subseteq BOOLEAN
        BY <1>6, ReportedType DEF Poll, CallInv
      <3> QED BY <1>6, <3>1 DEF Poll
    <2> QED BY <1>6, <2>1, <2>2 DEF Poll, Raise, End, Places
  <1>7. ASSUME NEW at, SwitchOff(at)
        PROVE  TypeOK'
    <2>1. call' \in Calls /\ pc' \in {"reply", "idle"}
      BY <1>0, <1>7 DEF SwitchOff, Raise, End
    <2>2. valve' \in [Zones -> Valves]
      BY <1>7, NullTypes DEF SwitchOff
    <2> QED BY <1>7, <2>1, <2>2 DEF SwitchOff, Raise, End, Places
  <1>8. CASE GetStatus
    <2>1. call' \in Calls /\ pc' \in {"reply", "idle"}
      BY <1>0, <1>8 DEF GetStatus, Raise, End
    <2>2. shadow' \in [Zones -> BOOLEAN]
      <3>1. Reported(call.zone) \subseteq BOOLEAN
        BY <1>8, ReportedType DEF GetStatus, CallInv
      <3> QED BY <1>8, <3>1 DEF GetStatus
    <2> QED BY <1>8, <2>1, <2>2 DEF GetStatus, Raise, End, Places
  <1>9. CASE Charge
    <2>1. budget' \in [Zones -> Records]
      <3>1. WateredToday(call.zone, call.day) + call.granted \in Nat /\ call.day \in Nat
        BY <1>9 DEF Charge, CallInv, WateredToday, Calls, Records
      <3>2. [day |-> call.day, minutes |-> WateredToday(call.zone, call.day) + call.granted]
              \in Records
        BY <3>1 DEF Records
      <3> QED BY <1>9, <3>2 DEF Charge, AddWatered
    <2> QED BY <1>9, <2>1 DEF Charge, Places
  <1>10. CASE Reply \/ ChargeFails
    BY <1>0, <1>10 DEF Reply, ChargeFails, Raise, End, Places
  <1>11. CASE Tick
    <2>1. valve' \in [Zones -> Valves]
      BY <1>11, ValveSteps DEF Tick
    <2>2. poured' \in [Zones -> Nat]
      BY <1>11, BoundsAssumption DEF Tick, Lesser
    <2> QED BY <1>11, <2>1, <2>2 DEF Tick
  <1>12. CASE NextDay
    BY <1>12 DEF NextDay
  <1>13. CASE Expire \/ Corrupt
    BY <1>13, NullTypes DEF Expire, Corrupt, EmptyBudget
  <1>14. CASE Crash
    BY <1>0, <1>14 DEF Crash, Places
  <1>15. CASE UNCHANGED vars
    BY <1>15 DEF vars
  <1> QED BY <1>1, <1>2, <1>3, <1>4, <1>5, <1>6, <1>7, <1>8, <1>9, <1>10, <1>11, <1>12,
             <1>13, <1>14, <1>15
      DEF Next, ServiceStep, ListZones, UnknownZone, RefuseWater, FailsafeOff, StopOff

\* Steps that end a call, and steps that move a call to its next request, keep
\* CallInv when they touch neither the file nor the day.
LEMMA EndKeepsCallInv ==
  ASSUME TypeOK, CallInv, call' = NoCall, pc' = "idle", UNCHANGED <<budget, day>>
  PROVE  CallInv'
  BY DEF CallInv, NoCall, WaterPlaces

LEMMA MoveKeepsCallInv ==
  ASSUME TypeOK, CallInv, UNCHANGED <<call, budget, day>>,
         pc \notin {"idle", "reply"}, pc' # "idle",
         pc' \in WaterPlaces => call.tool = "water_zone"
  PROVE  CallInv'
  BY DEF CallInv, Minutes, WateredToday

LEMMA CallStep == TypeOK /\ CallInv /\ [Next]_vars => CallInv'
  <1> SUFFICES ASSUME TypeOK, CallInv, [Next]_vars PROVE CallInv'
    OBVIOUS
  <1> USE DEF TypeOK
  <1>1. CASE AnswerAtOnce \/ Tick \/ Expire \/ UNCHANGED vars
    BY <1>1 DEF AnswerAtOnce, Tick, Expire, vars, CallInv, Minutes, WateredToday
  <1>2. ASSUME NEW z \in Zones, NEW minutes \in Requests, BeginWater(z, minutes)
        PROVE  CallInv'
    <2> DEFINE g == Granted(z, minutes)
               w == WateredToday(z, day)
    <2>1. w \in Nat /\ Q * minutes \in Int
      BY RequestsAssumption DEF WateredToday, Records, Q
    <2>2. g \in Nat /\ g > 0 /\ Clamp(Q * g, CapsOf[z], Q * w) = g
      BY <1>2, <2>1, ClampOfZone DEF Granted, BeginWater
    <2>3. /\ call' = [tool |-> "water_zone", zone |-> z, granted |-> g, watered |-> w,
                     day |-> day, polls |-> 0]
          /\ pc' \in {"open", "token"}
          /\ UNCHANGED <<budget, day>>
      BY <1>2 DEF BeginWater, Enter
    <2>4. WateredToday(call.zone, call.day)' = w
      BY <2>3 DEF WateredToday
    <2>5. Minutes' = g
      BY <2>2, <2>3 DEF Minutes
    <2> HIDE DEF g, w
    <2> QED BY <2>1, <2>2, <2>3, <2>4, <2>5 DEF CallInv, WaterPlaces
  <1>3. ASSUME NEW z \in Zones, BeginStatus(z) \/ BeginStop(z)
        PROVE  CallInv'
    BY <1>3 DEF BeginStatus, BeginStop, Enter, NoCall, CallInv, WaterPlaces
  <1>4. CASE FetchToken
    <2>1. CASE Raise
      BY <2>1, EndKeepsCallInv DEF Raise, End
    <2>2. CASE pc' = FirstRequest(call.tool) /\ UNCHANGED <<call, budget, day>>
      BY <1>4, <2>2, MoveKeepsCallInv
      DEF FetchToken, FirstRequest, CallInv, Calls, Tools, WaterPlaces
    <2> QED BY <1>4, <2>1, <2>2 DEF FetchToken
  <1>5. CASE SendOn
    <2>1. CASE Raise
      BY <2>1, EndKeepsCallInv DEF Raise, End
    <2>2. CASE /\ call' = [call EXCEPT !.granted = Minutes]
               /\ pc' = "poll"
               /\ UNCHANGED <<budget, day>>
      <3>1. call.tool = "water_zone"
        BY <1>5 DEF SendOn, CallInv, WaterPlaces
      <3>2. call' = call
        BY <2>2, <3>1 DEF CallInv, Calls
      <3> QED BY <1>5, <2>2, <3>1, <3>2, MoveKeepsCallInv DEF SendOn
    <2> QED BY <1>5, <2>1, <2>2 DEF SendOn
  <1>6. CASE Poll
    <2>1. CASE Raise
      BY <2>1, EndKeepsCallInv DEF Raise, End
    <2>2. CASE /\ \/ pc' = "charge" /\ UNCHANGED call
                  \/ call' = Missed(call) /\ pc' \in {"poll", "failsafe"}
               /\ UNCHANGED <<budget, day>>
      BY <1>6, <2>2 DEF Poll, Missed, Calls, CallInv, Minutes, WateredToday, WaterPlaces
    <2> QED BY <1>6, <2>1, <2>2 DEF Poll
  <1>7. ASSUME NEW at \in {"failsafe", "close"}, SwitchOff(at)
        PROVE  CallInv'
    <2>1. CASE Raise
      BY <2>1, EndKeepsCallInv DEF Raise, End
    <2>2. CASE pc' = "reply" /\ UNCHANGED <<call, budget, day>>
      BY <1>7, <2>2, MoveKeepsCallInv DEF SwitchOff, WaterPlaces
    <2> QED BY <1>7, <2>1, <2>2 DEF SwitchOff
  <1>8. CASE GetStatus
    <2>1. CASE Raise
      BY <2>1, EndKeepsCallInv DEF Raise, End
    <2>2. CASE pc' = "reply" /\ UNCHANGED <<call, budget, day>>
      BY <1>8, <2>2, MoveKeepsCallInv DEF GetStatus, WaterPlaces
    <2> QED BY <1>8, <2>1, <2>2 DEF GetStatus
  <1>9. CASE Charge
    <2>1. \A z \in Zones : budget'[z].day \in {budget[z].day, call.day}
      BY <1>9 DEF Charge, AddWatered, Records
    <2> QED BY <1>9, <2>1 DEF Charge, CallInv, Minutes, WaterPlaces, Calls, Records
  <1>10. CASE Reply \/ ChargeFails
    BY <1>10, EndKeepsCallInv DEF Reply, ChargeFails, Raise, End
  <1>11. CASE NextDay
    BY <1>11 DEF NextDay, CallInv, Minutes, WateredToday, Calls, Records
  <1>12. CASE Corrupt
    BY <1>12 DEF Corrupt, EmptyBudget, NoRecord, CallInv, Minutes, WateredToday, Calls
  <1>13. CASE Crash
    BY <1>13, EndKeepsCallInv DEF Crash
  <1> QED BY <1>1, <1>2, <1>3, <1>4, <1>5, <1>6, <1>7, <1>8, <1>9, <1>10, <1>11, <1>12, <1>13
      DEF Next, ServiceStep, ListZones, UnknownZone, RefuseWater, FailsafeOff, StopOff

\* The types of the gateway's state, and the agreement between the call in
\* progress and the budget file, hold in every reachable state.
THEOREM TypeCorrect == Spec => [](TypeOK /\ CallInv)
  <1>1. TypeOK /\ CallInv /\ [Next]_vars => (TypeOK /\ CallInv)'
    BY TypeStep, CallStep
  <1> QED BY <1>1, InitIInv, PTL DEF Spec

-----------------------------------------------------------------------------
(***************************************************************************)
(* The caps.  Only Charge raises a record and only SendOn sets a           *)
(* countdown; both use minutes the clamp bounded.                          *)
(***************************************************************************)
LEMMA OnlyChargeRaises ==
  ASSUME TypeOK, [Next]_vars, budget' # budget
  PROVE  Charge \/ budget' = EmptyBudget
  BY DEF Next, vars, ServiceStep, ListZones, UnknownZone, RefuseWater, AnswerAtOnce, BeginWater,
         BeginStatus, BeginStop, Enter, FetchToken, SendOn, Poll, FailsafeOff, StopOff, SwitchOff,
         GetStatus, ChargeFails, Reply, Raise, End, Tick, NextDay, Expire, Crash, Corrupt

\* Charging a call keeps the zone's record within the day's allowance.
LEMMA ChargeIsWithinAllowance ==
  ASSUME TypeOK, CallInv, Charge
  PROVE  /\ call.zone \in Zones
         /\ call.granted \in Nat
         /\ call.granted > 0
         /\ WateredToday(call.zone, call.day) \in Nat
         /\ WateredToday(call.zone, call.day) + call.granted <= DayAllowance(call.zone)
  <1>1. call.tool = "water_zone" /\ call.zone \in Zones
    BY DEF Charge, CallInv, WaterPlaces
  <1>2. WateredToday(call.zone, call.day) \in Nat
    BY <1>1 DEF WateredToday, TypeOK, Records
  <1>3. WateredToday(call.zone, call.day) <= call.watered /\ call.granted > 0
    BY <1>1 DEF CallInv, Charge
  <1>4. call.granted \in Nat /\ call.watered \in Nat
    BY DEF TypeOK, Calls
  <1>5. DayAllowance(call.zone) \in Nat
    BY <1>1, AllowancesAreNat
  <1> QED BY <1>1, <1>2, <1>3, <1>4, <1>5, MinutesOfCall

\* The budget file stays within max_per_day of every zone whatever is called and
\* whatever fails: crashes, lost requests, an unreadable file, midnight.
THEOREM BudgetIsKept == Spec => []ChargedWithinAllowance
  <1>1. Init => ChargedWithinAllowance
    BY AllowancesAreNat DEF Init, ChargedWithinAllowance, EmptyBudget, NoRecord
  <1>2. TypeOK /\ CallInv /\ ChargedWithinAllowance /\ [Next]_vars => ChargedWithinAllowance'
    <2> SUFFICES ASSUME TypeOK, CallInv, ChargedWithinAllowance, [Next]_vars, NEW z \in Zones
                 PROVE  budget'[z].minutes <= DayAllowance(z)
      BY DEF ChargedWithinAllowance
    <2>1. CASE budget' = budget
      BY <2>1 DEF ChargedWithinAllowance
    <2>2. CASE budget' = EmptyBudget
      BY <2>2, AllowancesAreNat DEF EmptyBudget, NoRecord
    <2>3. CASE Charge
      <3>1. budget'[z] = IF z = call.zone
                         THEN [day |-> call.day,
                               minutes |-> WateredToday(call.zone, call.day) + call.granted]
                         ELSE budget[z]
        BY <2>3 DEF Charge, AddWatered, TypeOK
      <3>2. CASE z = call.zone
        BY <2>3, <3>1, <3>2, ChargeIsWithinAllowance
      <3>3. CASE z # call.zone
        BY <3>1, <3>3 DEF ChargedWithinAllowance
      <3> QED BY <3>2, <3>3
    <2> QED BY <2>1, <2>2, <2>3, OnlyChargeRaises
  <1> QED BY <1>1, <1>2, TypeCorrect, PTL DEF Spec

LEMMA OnlySendOnArms ==
  ASSUME TypeOK, [Next]_vars, valve' # valve
  PROVE  \/ SendOn
         \/ Tick
         \/ valve' = [valve EXCEPT ![call.zone] = Closed]
  BY DEF Next, vars, ServiceStep, ListZones, UnknownZone, RefuseWater, AnswerAtOnce, BeginWater,
         BeginStatus, BeginStop, Enter, FetchToken, Poll, FailsafeOff, StopOff, SwitchOff,
         GetStatus, Charge, ChargeFails, Reply, Raise, End, NextDay, Expire, Crash, Corrupt

\* No valve is ever given a countdown above its zone's max_per_run.
THEOREM RunIsBounded == Spec => []RunWithinAllowance
  <1>1. Init => RunWithinAllowance
    BY AllowancesAreNat DEF Init, RunWithinAllowance, Closed
  <1>2. TypeOK /\ CallInv /\ RunWithinAllowance /\ [Next]_vars => RunWithinAllowance'
    <2> SUFFICES ASSUME TypeOK, CallInv, RunWithinAllowance, [Next]_vars, NEW z \in Zones
                 PROVE  valve'[z].left <= RunAllowance(z)
      BY DEF RunWithinAllowance
    <2>0. /\ RunAllowance(z) \in Nat
          /\ valve[z] \in Valves
          /\ valve[z].left \in Nat
          /\ valve[z].left <= RunAllowance(z)
      BY AllowancesAreNat DEF TypeOK, Valves, RunWithinAllowance
    <2>1. CASE valve' = valve
      BY <2>0, <2>1
    <2>2. CASE valve' = [valve EXCEPT ![call.zone] = Closed]
      <3>1. valve'[z] \in {valve[z], Closed}
        BY <2>2 DEF TypeOK
      <3> QED BY <2>0, <3>1 DEF Closed
    <2>3. CASE Tick
      <3>1. valve'[z] = Ran(valve[z])
        BY <2>3 DEF Tick
      <3> QED BY <2>0, <3>1, ValveSteps DEF Valves
    <2>4. CASE SendOn
      <3>1. call.tool = "water_zone" /\ call.zone \in Zones
        BY <2>4 DEF SendOn, CallInv, WaterPlaces
      <3>2. Minutes \in Nat /\ Minutes <= RunAllowance(call.zone) /\ call.day \in Nat
        BY <3>1, MinutesOfCall DEF TypeOK, Calls
      <3>3. \/ valve'[z] = valve[z]
            \/ z = call.zone /\ valve'[z] \in Opened(valve[z], Minutes, call.day)
        BY <2>4, <3>1 DEF SendOn, TypeOK
      <3>4. CASE z = call.zone /\ valve'[z] \in Opened(valve[z], Minutes, call.day)
        <4>1. valve'[z].left \in {0, Minutes, valve[z].left}
          BY <2>0, <3>2, <3>4, ValveSteps
        <4> QED BY <2>0, <3>2, <3>4, <4>1
      <3> QED BY <2>0, <3>3, <3>4
    <2> QED BY <2>1, <2>2, <2>3, <2>4, OnlySendOnArms
  <1> QED BY <1>1, <1>2, TypeCorrect, PTL DEF Spec

\* What can go wrong in a behaviour is settled at its start.
LEMMA FaultsStay == [Next]_vars => faults' = faults
  BY DEF Next, vars, ServiceStep, ListZones, UnknownZone, RefuseWater, AnswerAtOnce, BeginWater,
         BeginStatus, BeginStop, Enter, FetchToken, SendOn, Poll, FailsafeOff, StopOff, SwitchOff,
         GetStatus, Charge, ChargeFails, Reply, Raise, End, Tick, NextDay, Expire, Crash, Corrupt

\* A valve that heeds its countdown is never open without one, even where the
\* gateway dies, the cloud forgets it or a reply is lost.
THEOREM ValvesAreArmed == Spec => []AlwaysArmed
  <1>1. Init => AlwaysArmed
    BY DEF Init, AlwaysArmed, Closed
  <1>2. TypeOK /\ CallInv /\ AlwaysArmed /\ [Next]_vars => AlwaysArmed'
    <2> SUFFICES ASSUME TypeOK, CallInv, AlwaysArmed, [Next]_vars, NEW z \in Zones,
                        "ignore" \notin faults', valve'[z].on
                 PROVE  valve'[z].left > 0
      BY DEF AlwaysArmed
    <2>0. "ignore" \notin faults
      BY FaultsStay
    <2>1. valve[z] \in Valves /\ (valve[z].on => valve[z].left > 0)
      BY <2>0 DEF TypeOK, AlwaysArmed
    <2>2. CASE valve' = valve
      BY <2>1, <2>2
    <2>3. CASE valve' = [valve EXCEPT ![call.zone] = Closed]
      <3>1. valve'[z] \in {valve[z], Closed}
        BY <2>3 DEF TypeOK
      <3> QED BY <2>1, <3>1 DEF Closed
    <2>4. CASE Tick
      <3>1. valve'[z] = Ran(valve[z])
        BY <2>4 DEF Tick
      <3> QED BY <2>1, <3>1 DEF Ran, Closed, Valves
    <2>5. CASE SendOn
      <3>1. call.tool = "water_zone" /\ call.zone \in Zones
        BY <2>5 DEF SendOn, CallInv, WaterPlaces
      <3>2. Minutes \in Nat /\ Minutes > 0
        BY <3>1, MinutesOfCall DEF TypeOK, Calls, CallInv
      <3>3. \/ valve'[z] = valve[z]
            \/ valve'[z] = [on |-> TRUE, left |-> Minutes, day |-> call.day]
        BY <2>0, <2>5, <3>1 DEF SendOn, Opened, TypeOK
      <3> QED BY <2>1, <3>2, <3>3
    <2> QED BY <2>2, <2>3, <2>4, <2>5, OnlySendOnArms
  <1> QED BY <1>1, <1>2, TypeCorrect, PTL DEF Spec

\* A call in progress has written no audit line yet: a call that returns has
\* written one, and one only.
THEOREM CallsAreAudited == Spec => []ReturnIsAudited
  <1> DEFINE Inv == /\ outcome = "returned" => lines = 1
                    /\ pc # "idle" => lines = 0 /\ outcome = "running"
  <1>1. Init => Inv
    BY DEF Init
  <1>2. Inv /\ [Next]_vars => Inv'
    <2> SUFFICES ASSUME Inv, [Next]_vars PROVE Inv'
      OBVIOUS
    <2>1. CASE AnswerAtOnce
      BY <2>1 DEF AnswerAtOnce
    <2>2. ASSUME NEW c, NEW request, Enter(c, request)
          PROVE  Inv'
      BY <2>2 DEF Enter
    <2>3. CASE Raise
      BY <2>3 DEF Raise, End
    <2>4. CASE Reply
      BY <2>4 DEF Reply, End
    <2>5. CASE Crash
      BY <2>5 DEF Crash
    <2>6. CASE pc # "idle" /\ UNCHANGED <<outcome, lines>>
      BY <2>6
    <2>7. CASE UNCHANGED <<pc, outcome, lines>>
      BY <2>7
    <2> QED BY <2>1, <2>2, <2>3, <2>4, <2>5, <2>6, <2>7
        DEF Next, vars, ServiceStep, ListZones, UnknownZone, RefuseWater, BeginWater,
            BeginStatus, BeginStop, FetchToken, SendOn, Poll, FailsafeOff, StopOff, SwitchOff,
            GetStatus, Charge, ChargeFails, Tick, NextDay, Expire, Corrupt
  <1>3. Inv => ReturnIsAudited
    BY DEF ReturnIsAudited
  <1> QED BY <1>1, <1>2, <1>3, PTL DEF Spec

-----------------------------------------------------------------------------
(***************************************************************************)
(* The gateway implements DailyBudget.                                     *)
(***************************************************************************)

\* The record of a day can only change on that day: a call that midnight
\* overtakes charges the day it began on.
LEMMA ChargeSpends ==
  ASSUME TypeOK, CallInv, Charge
  PROVE  Budget!Spend(call.zone) \/ UNCHANGED Budget!vars
  <1> DEFINE spent == [z \in Zones |-> WateredToday(z, day)]
             z == call.zone
             w == WateredToday(z, call.day)
             m == call.granted
  <1>1. z \in Zones /\ m \in Nat /\ m > 0 /\ w \in Nat /\ w + m <= DayAllowance(z)
    BY ChargeIsWithinAllowance
  <1>2. budget' = [budget EXCEPT ![z] = [day |-> call.day, minutes |-> w + m]] /\ UNCHANGED <<day, faults>>
    BY DEF Charge, AddWatered
  <1>3. \A y \in Zones \ {z} : budget'[y] = budget[y]
    BY <1>2 DEF TypeOK
  <1>4. budget'[z] = [day |-> call.day, minutes |-> w + m]
    BY <1>1, <1>2 DEF TypeOK
  <1>5. CASE call.day = day
    <2>1. spent' = [spent EXCEPT ![z] = @ + m]
      BY <1>1, <1>2, <1>3, <1>4, <1>5 DEF WateredToday
    <2>2. spent[z] = w
      BY <1>1, <1>5
    <2>3. m \in 1 .. DayAllowance(z) - spent[z]
      BY <1>1, <2>2, AllowancesAreNat
    <2> QED BY <1>1, <1>2, <2>1, <2>3 DEF Budget!Spend
  <1>6. CASE call.day # day
    <2>1. budget[z].day # day
      <3>1. budget[z].day <= call.day /\ call.day <= day
        BY <1>1 DEF CallInv, Charge, WaterPlaces
      <3>2. budget[z] \in Records /\ call \in Calls /\ day \in Nat
        BY <1>1 DEF TypeOK
      <3>3. budget[z].day \in Nat /\ call.day \in Nat
        BY <3>2 DEF Calls, Records
      <3> QED BY <1>6, <3>1, <3>2, <3>3
    <2>2. \A y \in Zones : WateredToday(y, day)' = WateredToday(y, day)
      BY <1>2, <1>3, <1>4, <1>6, <2>1 DEF WateredToday
    <2> QED BY <1>2, <2>2 DEF Budget!vars
  <1> QED BY <1>5, <1>6

LEMMA OnlyNextDayTurns ==
  ASSUME TypeOK, [Next]_vars, day' # day
  PROVE  NextDay
  BY DEF Next, vars, ServiceStep, ListZones, UnknownZone, RefuseWater, AnswerAtOnce, BeginWater,
         BeginStatus, BeginStop, Enter, FetchToken, SendOn, Poll, FailsafeOff, StopOff, SwitchOff,
         GetStatus, Charge, ChargeFails, Reply, Raise, End, Tick, Expire, Crash, Corrupt

\* Every run of the gateway, whatever fails, is a run of the daily budget.
THEOREM GatewayImplementsBudget == Spec => BudgetSpec
  <1>1. Init => Budget!Init
    BY DEF Init, Budget!Init, WateredToday, EmptyBudget, NoRecord
  <1>2. TypeOK /\ CallInv /\ [Next]_vars => [Budget!Next]_(Budget!vars)
    <2> SUFFICES ASSUME TypeOK, CallInv, [Next]_vars
                 PROVE  Budget!Next \/ UNCHANGED Budget!vars
      OBVIOUS
    <2>0. faults' = faults
      BY FaultsStay
    <2>1. CASE budget' = budget /\ day' = day
      BY <2>0, <2>1 DEF Budget!vars, WateredToday
    <2>2. CASE day' # day
      <3>1. NextDay
        BY <2>2, OnlyNextDayTurns
      <3>2. \A z \in Zones : budget'[z].day # day'
        BY <3>1 DEF NextDay, CallInv, TypeOK, Records
      <3>3. \A z \in Zones : WateredToday(z, day)' = 0
        BY <3>2 DEF WateredToday
      <3> QED BY <2>0, <3>1, <3>3 DEF NextDay, Budget!NextDay, Budget!Next
    <2>3. CASE budget' # budget /\ day' = day
      <3>1. CASE Charge
        <4>1. call.zone \in Zones
          BY <3>1, ChargeIsWithinAllowance
        <4> QED BY <3>1, <4>1, ChargeSpends DEF Budget!Next
      <3>2. CASE Corrupt
        <4>1. \A z \in Zones : WateredToday(z, day)' = 0
          BY <3>2 DEF Corrupt, WateredToday, EmptyBudget, NoRecord
        <4> QED BY <2>0, <2>3, <3>2, <4>1 DEF Corrupt, Budget!Forget, Budget!Next
      <3> QED BY <2>3, <3>1, <3>2 DEF Next, vars, ServiceStep, ListZones, UnknownZone, RefuseWater,
              AnswerAtOnce, BeginWater, BeginStatus, BeginStop, Enter, FetchToken, SendOn, Poll,
              FailsafeOff, StopOff, SwitchOff, GetStatus, ChargeFails, Reply, Raise, End, Tick, NextDay,
              Expire, Crash
    <2> QED BY <2>1, <2>2, <2>3
  <1> QED BY <1>1, <1>2, TypeCorrect, PTL DEF Spec, BudgetSpec, Budget!Spec

-----------------------------------------------------------------------------
(***************************************************************************)
(* Water follows its charge.  With a refused token and a dropped countdown *)
(* as the only faults, no request of a running call fails after its token  *)
(* is there, so a call that opened a valve either charges it or closes it. *)
(***************************************************************************)
LEMMA CoverTypes ==
  ASSUME TypeOK, NEW z \in Zones
  PROVE  /\ valve[z].on \in BOOLEAN /\ valve[z].left \in Nat /\ valve[z].day \in Nat
         /\ ToPour(z) \in Nat /\ Uncharged(z) \in Nat
         /\ WateredToday(z, day) \in Nat /\ poured[z] \in Nat /\ day \in Nat
  BY DEF TypeOK, ToPour, Uncharged, Valves, WateredToday, Records, Calls

\* Steps that change neither valves, water, file nor day.
LEMMA QuietStepCovers ==
  ASSUME TypeOK, TypeOK', NEW z \in Zones, Covered(z),
         UNCHANGED <<valve, poured, budget, day>>,
         Uncharged(z)' >= Uncharged(z),
         valve[z].on /\ valve[z].left = 0 => pc' \in {"poll", "failsafe"} /\ call'.zone = z
  PROVE  Covered(z)'
  <1>1. ToPour(z)' = ToPour(z) /\ WateredToday(z, day)' = WateredToday(z, day)
    BY DEF ToPour, WateredToday
  <1>2. ToPour(z) \in Nat /\ WateredToday(z, day) \in Nat /\ poured[z] \in Nat
        /\ Uncharged(z) \in Nat
    BY CoverTypes
  <1>3. Uncharged(z)' \in Nat
    BY DEF Uncharged, TypeOK, Calls
  <1> QED BY <1>1, <1>2, <1>3 DEF Covered

LEMMA SendOnCovers ==
  ASSUME Benign, TypeOK, TypeOK', CallInv, PourInv, SendOn,
         session, NEW z \in Zones
  PROVE  Covered(z)'
  <1>1. call.tool = "water_zone" /\ call.zone \in Zones /\ Minutes = call.granted
        /\ call.granted > 0 /\ call.day <= day
    BY DEF SendOn, CallInv, WaterPlaces
  <1>2. /\ valve' = [valve EXCEPT ![call.zone] = valve'[call.zone]]
        /\ valve'[call.zone] \in Opened(valve[call.zone], call.granted, call.day)
        /\ call' = call /\ pc' = "poll" /\ pc = "open"
        /\ UNCHANGED <<poured, budget, day>>
    BY <1>1 DEF SendOn, TypeOK, Calls, Benign
  <1>3. Covered(z) /\ Uncharged(z) = 0
    BY <1>2 DEF PourInv, Uncharged
  <1>4. CASE z # call.zone
    <2>1. valve'[z] = valve[z]
      BY <1>2, <1>4 DEF TypeOK
    <2>2. ToPour(z)' = ToPour(z) /\ WateredToday(z, day)' = WateredToday(z, day)
          /\ Uncharged(z)' = 0
      BY <1>2, <1>4, <2>1 DEF ToPour, WateredToday, Uncharged
    <2> QED BY <1>2, <1>3, <1>4, <2>1, <2>2 DEF Covered
  <1>5. CASE z = call.zone
    <2>1. WateredToday(z, day)' = WateredToday(z, day)
      BY <1>2 DEF WateredToday
    <2>2. Uncharged(z)' = IF call.day = day THEN call.granted ELSE 0
      BY <1>2, <1>5 DEF Uncharged
    <2>3. /\ call.granted \in Nat /\ call.day \in Nat /\ day \in Nat
          /\ WateredToday(z, day) \in Nat /\ poured[z] \in Nat /\ ToPour(z) \in Nat
      BY CoverTypes DEF TypeOK, Calls
    <2>4. valve'[z].day <= day /\ ToPour(z)' <= ToPour(z) + Uncharged(z)'
      <3>1. \/ valve'[z] = [on |-> TRUE, left |-> call.granted, day |-> call.day]
            \/ valve'[z] = [on |-> TRUE, left |-> 0, day |-> call.day]
            \/ valve'[z] = valve[z]
        BY <1>2, <1>5 DEF Opened
      <3>2. CASE valve'[z] = [on |-> TRUE, left |-> call.granted, day |-> call.day]
        BY <1>1, <1>2, <2>2, <2>3, <3>2 DEF ToPour
      <3>3. CASE valve'[z] = [on |-> TRUE, left |-> 0, day |-> call.day]
        BY <1>1, <1>2, <2>2, <2>3, <3>3 DEF ToPour
      <3>4. CASE valve'[z] = valve[z]
        <4>1. ToPour(z)' = ToPour(z) /\ valve'[z].day <= day
          BY <1>2, <1>3, <3>4 DEF ToPour, Covered
        <4>2. Uncharged(z)' >= 0 /\ Uncharged(z)' \in Nat
          BY <2>2, <2>3
        <4> QED BY <2>3, <4>1, <4>2
      <3> QED BY <3>1, <3>2, <3>3, <3>4
    <2>5. poured[z] <= WateredToday(z, day) /\ poured[z] + ToPour(z) <= WateredToday(z, day)
      BY <1>3, <2>3 DEF Covered
    <2>6. Uncharged(z)' \in Nat /\ ToPour(z)' \in Nat
      BY <2>2, <2>3, <1>2 DEF ToPour, TypeOK, Valves
    <2>7. valve'[z].day <= day
          /\ poured[z] + ToPour(z)' <= WateredToday(z, day) + Uncharged(z)'
      BY <2>3, <2>4, <2>5, <2>6
    <2> QED BY <1>2, <1>5, <2>1, <2>5, <2>7 DEF Covered
  <1> QED BY <1>4, <1>5

LEMMA ChargeCovers ==
  ASSUME TypeOK, TypeOK', CallInv, PourInv, Charge, NEW z \in Zones
  PROVE  Covered(z)'
  <1>1. /\ call.zone \in Zones /\ call.granted \in Nat
        /\ WateredToday(call.zone, call.day) \in Nat
        /\ call.day <= day /\ \A y \in Zones : budget[y].day <= call.day
    BY ChargeIsWithinAllowance DEF Charge, CallInv, WaterPlaces
  <1>2. /\ pc = "charge" /\ pc' = "reply"
        /\ budget' = [budget EXCEPT ![call.zone] =
             [day |-> call.day, minutes |-> WateredToday(call.zone, call.day) + call.granted]]
        /\ UNCHANGED <<call, valve, poured, day>>
    BY DEF Charge, AddWatered
  <1>3. Covered(z)
    BY DEF PourInv
  <1>4. ToPour(z)' = ToPour(z) /\ Uncharged(z)' = 0
    BY <1>2 DEF ToPour, Uncharged
  <1>5. WateredToday(z, day)' = WateredToday(z, day) + Uncharged(z)
    <2>1. call.day \in Nat /\ day \in Nat /\ budget[z] \in Records
      BY DEF TypeOK, Calls
    <2>2. CASE z # call.zone
      <3>1. budget'[z] = budget[z]
        BY <1>2, <2>2 DEF TypeOK
      <3> QED BY <1>2, <2>1, <2>2, <3>1 DEF WateredToday, Uncharged, Records
    <2>3. CASE z = call.zone /\ call.day = day
      <3>1. budget'[z] = [day |-> day, minutes |-> WateredToday(z, day) + call.granted]
        BY <1>2, <2>3 DEF TypeOK
      <3> QED BY <1>2, <2>3, <3>1 DEF WateredToday, Uncharged
    <2>4. CASE z = call.zone /\ call.day # day
      <3>1. budget'[z].day = call.day
        BY <1>2, <2>4 DEF TypeOK
      <3>2. budget[z].day # day
        BY <1>1, <2>1, <2>4 DEF Records
      <3> QED BY <1>2, <2>4, <3>1, <3>2 DEF WateredToday, Uncharged
    <2> QED BY <2>2, <2>3, <2>4
  <1>6. /\ valve[z].left \in Nat /\ ToPour(z) \in Nat /\ Uncharged(z) \in Nat
        /\ WateredToday(z, day) \in Nat /\ poured[z] \in Nat
    BY CoverTypes
  <1>7. poured[z] <= WateredToday(z, day)'
    BY <1>3, <1>5, <1>6 DEF Covered
  <1> QED BY <1>2, <1>3, <1>4, <1>5, <1>6, <1>7 DEF Covered

LEMMA TickCovers ==
  ASSUME Benign, TypeOK, TypeOK', PourInv, Tick, NEW z \in Zones
  PROVE  Covered(z)'
  <1>1. /\ pc = "idle" /\ valve'[z] = Ran(valve[z])
        /\ poured'[z] = IF valve[z].on /\ valve[z].day = day
                         THEN Lesser(poured[z] + 1, PourBound[faults]) ELSE poured[z]
        /\ UNCHANGED <<pc, call, budget, day>>
    BY DEF Tick, Benign
  <1>2. Covered(z) /\ Uncharged(z) = 0 /\ Uncharged(z)' = 0
        /\ WateredToday(z, day)' = WateredToday(z, day)
    BY <1>1 DEF PourInv, Uncharged, WateredToday
  <1>3. /\ valve[z].on \in BOOLEAN /\ valve[z].left \in Nat /\ valve[z].day \in Nat
        /\ ToPour(z) \in Nat /\ WateredToday(z, day) \in Nat /\ poured[z] \in Nat
        /\ day \in Nat /\ PourBound[faults] \in Nat /\ valve[z] \in Valves
    BY CoverTypes, BoundsAssumption DEF TypeOK
  <1>4. valve[z].on => valve[z].left > 0
    BY <1>1, <1>2, <1>3 DEF Covered
  <1>5. CASE ~valve[z].on
    <2>1. valve'[z] = valve[z] /\ poured'[z] = poured[z]
      BY <1>1, <1>5 DEF Ran
    <2>2. ToPour(z)' = 0 /\ ToPour(z) = 0
      BY <1>1, <1>5, <2>1 DEF ToPour
    <2> QED BY <1>1, <1>2, <1>5, <2>1, <2>2 DEF Covered
  <1>6. CASE valve[z].on
    <2>1. valve'[z] = IF valve[z].left = 1 THEN Closed ELSE [valve[z] EXCEPT !.left = @ - 1]
      BY <1>1, <1>3, <1>4, <1>6 DEF Ran
    <2>2. valve'[z].day <= day /\ (valve'[z].on => valve'[z].left > 0)
      <3>1. valve[z].day <= day
        BY <1>2 DEF Covered
      <3> QED BY <1>3, <1>4, <1>6, <2>1, <3>1 DEF Closed, Valves
    <2>3. ToPour(z)' = IF valve[z].day = day THEN valve[z].left - 1 ELSE 0
      BY <1>1, <1>3, <1>4, <1>6, <2>1 DEF ToPour, Closed, Valves
    <2>4. ToPour(z) = IF valve[z].day = day THEN valve[z].left ELSE 0
      BY <1>6 DEF ToPour
    <2>5. poured'[z] <= IF valve[z].day = day THEN poured[z] + 1 ELSE poured[z]
      BY <1>1, <1>3, <1>6 DEF Lesser
    <2>6. poured'[z] \in Nat
      BY DEF TypeOK
    <2>7. poured[z] <= WateredToday(z, day) /\ poured[z] + ToPour(z) <= WateredToday(z, day)
      BY <1>2, <1>3 DEF Covered
    <2>8. /\ poured'[z] + ToPour(z)' <= WateredToday(z, day)
          /\ poured'[z] <= WateredToday(z, day)
      BY <1>3, <1>4, <1>6, <2>3, <2>4, <2>5, <2>6, <2>7
    <2> QED BY <1>1, <1>2, <1>3, <2>2, <2>8 DEF Covered
  <1> QED BY <1>3, <1>5, <1>6

LEMMA NextDayCovers ==
  ASSUME TypeOK, TypeOK', CallInv, PourInv, NextDay, NEW z \in Zones
  PROVE  Covered(z)'
  <1>1. day' = day + 1 /\ poured'[z] = 0 /\ UNCHANGED <<pc, call, valve, budget>>
    BY DEF NextDay
  <1>2. valve[z].day <= day /\ valve[z].day \in Nat /\ day \in Nat /\ Covered(z)
    BY CoverTypes DEF PourInv, Covered
  <1>3. ToPour(z)' = 0
    BY <1>1, <1>2 DEF ToPour
  <1>4. WateredToday(z, day)' \in Nat /\ Uncharged(z)' \in Nat
    BY <1>1 DEF TypeOK, Records, Calls, WateredToday, Uncharged
  <1> QED BY <1>1, <1>2, <1>3, <1>4 DEF Covered

LEMMA PourStep ==
  ASSUME Benign, TypeOK, TypeOK', CallInv, PourInv, [Next]_vars
  PROVE  PourInv'
  <1>0. ~Expire /\ ~Crash /\ ~Corrupt /\ ~ChargeFails
    BY DEF Expire, Crash, Corrupt, ChargeFails, Benign
  \* The session: only the token request touches it.
  <1>1. (tokenOk => session)' /\ (pc \notin {"idle", "token"} => tokenOk)'
    <2>1. (tokenOk => session) /\ (pc \notin {"idle", "token"} => tokenOk)
      BY DEF PourInv
    <2>2. CASE FetchToken
      BY <2>1, <2>2 DEF FetchToken, Raise, End
    <2>3. ASSUME NEW c, NEW request, Enter(c, request)
          PROVE  (tokenOk => session)' /\ (pc \notin {"idle", "token"} => tokenOk)'
      BY <2>1, <2>3 DEF Enter
    <2>4. CASE ~FetchToken /\ (pc' = "idle" \/ pc \notin {"idle", "token"})
               /\ UNCHANGED <<tokenOk, session>>
      BY <2>1, <2>4
    <2>5. CASE UNCHANGED <<pc, tokenOk, session>>
      BY <2>1, <2>5
    <2> QED BY <1>0, <2>2, <2>3, <2>4, <2>5
        DEF Next, vars, ServiceStep, ListZones, UnknownZone, RefuseWater, AnswerAtOnce, BeginWater,
            BeginStatus, BeginStop, SendOn, Poll, FailsafeOff, StopOff, SwitchOff, GetStatus,
            Charge, ChargeFails, Reply, Raise, End, Tick, NextDay
  <1>2. SUFFICES ASSUME NEW z \in Zones PROVE Covered(z)'
    BY <1>1 DEF PourInv
  <1>3. /\ Covered(z)
        /\ pc \notin {"idle", "token"} => session
        /\ pc \notin {"poll", "failsafe"} => ~(valve[z].on /\ valve[z].left = 0)
    BY DEF PourInv, Covered
  <1>4. Uncharged(z) \in Nat
    BY CoverTypes
  <1>5. CASE AnswerAtOnce \/ UNCHANGED vars
    <2>1. UNCHANGED <<pc, call, valve, poured, budget, day>>
      BY <1>5 DEF AnswerAtOnce, vars
    <2>2. Uncharged(z)' = Uncharged(z)
      BY <2>1 DEF Uncharged
    <2> QED BY <1>3, <1>4, <2>1, <2>2, QuietStepCovers DEF Covered
  <1>6. ASSUME NEW c, NEW request \in {"open", "status", "close"}, Enter(c, request)
        PROVE  Covered(z)'
    <2>1. Uncharged(z) = 0 /\ Uncharged(z)' = 0
      BY <1>6 DEF Enter, Uncharged
    <2> QED BY <1>3, <1>6, <2>1, QuietStepCovers DEF Enter
  <1>7. CASE FetchToken
    <2>1. pc' \in {"idle", "open", "status", "close"}
      BY <1>7 DEF FetchToken, FirstRequest, Raise, End
    <2>2. Uncharged(z) = 0 /\ Uncharged(z)' = 0
      BY <1>7, <2>1 DEF FetchToken, Uncharged
    <2> QED BY <1>3, <1>7, <2>2, QuietStepCovers DEF FetchToken, Raise
  <1>8. CASE SendOn
    BY <1>3, <1>8, SendOnCovers DEF SendOn
  <1>9. CASE Poll
    <2>1. session /\ "poll" \notin faults /\ "lag" \notin faults
      BY <1>3, <1>9 DEF Poll, Benign
    <2>2. /\ UNCHANGED <<valve, poured, budget, day>>
          /\ \/ pc' = "charge" /\ call' = call /\ valve[call.zone].left > 0
             \/ pc' \in {"poll", "failsafe"} /\ call' = Missed(call)
      BY <1>9, <2>1 DEF Poll, Reported
    <2>3. call'.zone = call.zone /\ call'.day = call.day /\ call'.granted = call.granted
      BY <2>2 DEF Missed, TypeOK, Calls
    <2>4. Uncharged(z)' = Uncharged(z)
      BY <1>9, <2>2, <2>3 DEF Poll, Uncharged
    <2>5. valve[z].on /\ valve[z].left = 0 => pc' \in {"poll", "failsafe"} /\ call'.zone = z
      BY <1>3, <2>2, <2>3 DEF Covered
    <2> QED BY <1>3, <1>4, <2>2, <2>4, <2>5, QuietStepCovers
  <1>10. ASSUME NEW at \in {"failsafe", "close"}, SwitchOff(at)
         PROVE  Covered(z)'
    <2>1. /\ pc = at /\ pc' = "reply" /\ valve' = [valve EXCEPT ![call.zone] = Closed]
          /\ UNCHANGED <<call, poured, budget, day>>
      BY <1>3, <1>10 DEF SwitchOff, Benign
    <2>2. WateredToday(z, day)' = WateredToday(z, day) /\ Uncharged(z)' = 0
      BY <2>1 DEF WateredToday, Uncharged
    <2>3. ToPour(z) \in Nat /\ poured[z] \in Nat /\ WateredToday(z, day) \in Nat /\ day \in Nat
      BY CoverTypes
    <2>4. CASE z = call.zone
      <3>1. valve'[z] = Closed
        BY <2>1, <2>4 DEF TypeOK
      <3>2. ToPour(z)' = 0 /\ ~valve'[z].on /\ valve'[z].day <= day
        BY <2>3, <3>1 DEF ToPour, Closed
      <3> QED BY <1>3, <2>1, <2>2, <2>3, <3>2 DEF Covered
    <2>5. CASE z # call.zone
      <3>1. valve'[z] = valve[z] /\ Uncharged(z) = 0
        BY <2>1, <2>5 DEF TypeOK, Uncharged
      <3>2. ToPour(z)' = ToPour(z) /\ ~(valve[z].on /\ valve[z].left = 0)
        BY <1>3, <2>1, <2>5, <3>1 DEF ToPour, Covered
      <3> QED BY <1>3, <2>1, <2>2, <3>1, <3>2 DEF Covered
    <2> QED BY <2>4, <2>5
  <1>11. CASE GetStatus \/ Reply
    <2>1. Uncharged(z) = 0 /\ Uncharged(z)' = 0
      BY <1>11 DEF GetStatus, Reply, Raise, End, Uncharged
    <2>2. UNCHANGED <<valve, poured, budget, day>> /\ pc \in {"status", "reply"}
      BY <1>11 DEF GetStatus, Reply, Raise, End
    <2> QED BY <1>3, <2>1, <2>2, QuietStepCovers
  <1>12. CASE Charge
    BY <1>12, ChargeCovers
  <1>13. CASE Tick
    BY <1>13, TickCovers
  <1>14. CASE NextDay
    BY <1>14, NextDayCovers
  <1> QED BY <1>0, <1>5, <1>6, <1>7, <1>8, <1>9, <1>10, <1>11, <1>12, <1>13, <1>14
      DEF Next, ServiceStep, ListZones, UnknownZone, RefuseWater, BeginWater, BeginStatus,
          BeginStop, FailsafeOff, StopOff

\* Where token requests fail and valves drop countdowns, and nothing else goes wrong,
\* the three statements below hold together.
LEMMA PourInvHolds == Spec => [](TypeOK /\ ChargedWithinAllowance /\ (Benign => PourInv))
  <1> DEFINE Inv == Benign => PourInv
  <1>1. Init => Inv
    BY DEF Init, PourInv, Covered, Closed, ToPour, Uncharged, WateredToday, EmptyBudget, NoRecord
  <1>2. TypeOK /\ CallInv /\ Inv /\ [Next]_vars => Inv'
    <2> SUFFICES ASSUME TypeOK, CallInv, Inv, [Next]_vars, Benign'
                 PROVE  PourInv'
      OBVIOUS
    <2>1. Benign
      BY FaultsStay DEF Benign
    <2> QED BY <2>1, TypeStep, PourStep
  <1> QED BY <1>1, <1>2, TypeCorrect, BudgetIsKept, PTL DEF Spec

\* Water follows its charge: what a zone has poured and will pour for today's calls is
\* in the file, or about to be charged by the call in progress (gateway.py:60-73).
THEOREM PourFollowsCharge == Spec => []PourIsCharged
  <1>1. (Benign => PourInv) => PourIsCharged
    BY DEF PourInv, Covered, PourIsCharged
  <1> QED BY <1>1, PourInvHolds, PTL

\* So what a zone pours for a day's calls stays within max_per_day.  A lost poll breaks
\* this, with nothing ignored and nothing crashed: do_water raises, and its run goes on
\* uncharged.
THEOREM DayPourIsBounded == Spec => [](Benign => DayPourWithinAllowance)
  <1>1. TypeOK /\ ChargedWithinAllowance /\ (Benign => PourInv) => (Benign => DayPourWithinAllowance)
    <2> SUFFICES ASSUME TypeOK, PourInv, ChargedWithinAllowance, NEW z \in Zones
                 PROVE  poured[z] <= DayAllowance(z)
      BY DEF DayPourWithinAllowance
    <2>1. poured[z] <= WateredToday(z, day) /\ poured[z] \in Nat
      BY DEF PourInv, Covered, TypeOK
    <2>2. WateredToday(z, day) \in Nat /\ WateredToday(z, day) <= DayAllowance(z)
      BY AllowancesAreNat DEF WateredToday, ChargedWithinAllowance, TypeOK, Records
    <2> QED BY <2>1, <2>2, AllowancesAreNat
  <1> QED BY <1>1, PourInvHolds, PTL

\* And no valve is left open without a countdown once its call has ended: one that
\* dropped its countdown is polled and closed before.
THEOREM NoneLeftUnarmed == Spec => [](Benign => OpenValveIsArmed)
  <1>1. TypeOK /\ (Benign => PourInv) => (Benign => OpenValveIsArmed)
    BY DEF PourInv, Covered, OpenValveIsArmed, TypeOK, Valves
  <1> QED BY <1>1, PourInvHolds, PTL

-----------------------------------------------------------------------------
(***************************************************************************)
(* The end of a call, as far as a safety property can tell: how many steps *)
(* it has left at most.                                                    *)
(***************************************************************************)
StepsLeft ==
  CASE pc = "idle" -> 0
    [] pc = "reply" -> 1
    [] pc \in {"charge", "failsafe", "status", "close"} -> 2
    [] pc = "poll" -> 2 + ConfirmAttempts - call.polls
    [] pc = "open" -> 3 + ConfirmAttempts
    [] pc = "token" -> 4 + ConfirmAttempts

\* The poll loop has not run out while it goes on, and starts from zero.
PollInv ==
  /\ pc \in {"token", "open"} => call.polls = 0
  /\ pc = "poll" => call.polls < ConfirmAttempts

LEMMA StepsAreNat == TypeOK /\ PollInv => StepsLeft \in 0 .. 4 + ConfirmAttempts
  BY BoundsAssumption DEF TypeOK, PollInv, StepsLeft, Places, Calls

LEMMA CallGetsShorter ==
  TypeOK /\ CallInv /\ PollInv /\ ServiceStep => PollInv' /\ StepsLeft' < StepsLeft
  <1> SUFFICES ASSUME TypeOK, CallInv, PollInv, ServiceStep
               PROVE  PollInv' /\ StepsLeft' < StepsLeft
    OBVIOUS
  <1> USE BoundsAssumption
  <1>0. /\ StepsLeft \in Nat
        /\ call.polls \in Nat
        /\ pc # "idle" => StepsLeft > 0
    BY StepsAreNat DEF TypeOK, Calls, PollInv, StepsLeft, Places
  <1>1. ASSUME End("raised"), pc # "idle" PROVE PollInv' /\ StepsLeft' < StepsLeft
    BY <1>0, <1>1 DEF End, PollInv, StepsLeft
  <1>2. CASE FetchToken
    <2>1. CASE Raise
      BY <1>1, <1>2, <2>1 DEF FetchToken, Raise
    <2>2. CASE pc' = FirstRequest(call.tool) /\ UNCHANGED call
      <3>1. call.tool \in {"water_zone", "get_zone_status", "stop_zone"}
        BY <1>2 DEF FetchToken, TypeOK, Calls, Tools, CallInv
      <3>2. pc' \in {"open", "status", "close"}
        BY <2>2, <3>1 DEF FirstRequest
      <3> QED BY <1>2, <2>2, <3>2 DEF FetchToken, PollInv, StepsLeft
    <2> QED BY <1>2, <2>1, <2>2 DEF FetchToken
  <1>3. CASE SendOn
    <2>1. CASE Raise
      BY <1>1, <1>3, <2>1 DEF SendOn, Raise
    <2>2. CASE pc' = "poll" /\ call' = [call EXCEPT !.granted = Minutes]
      <3>1. call'.polls = 0
        BY <1>3, <2>2 DEF SendOn, TypeOK, Calls, PollInv
      <3> QED BY <1>3, <2>2, <3>1 DEF SendOn, PollInv, StepsLeft
    <2> QED BY <1>3, <2>1, <2>2 DEF SendOn
  <1>4. CASE Poll
    <2>1. CASE Raise
      BY <1>1, <1>4, <2>1 DEF Poll, Raise
    <2>2. CASE pc' = "charge" /\ UNCHANGED call
      BY <1>0, <1>4, <2>2 DEF Poll, PollInv, StepsLeft
    <2>3. CASE /\ call' = Missed(call)
               /\ pc' = IF Missed(call).polls < ConfirmAttempts THEN "poll" ELSE "failsafe"
      <3>1. Missed(call).polls = call.polls + 1
        BY DEF Missed, TypeOK, Calls
      <3> QED BY <1>0, <1>4, <2>3, <3>1 DEF Poll, PollInv, StepsLeft
    <2> QED BY <1>4, <2>1, <2>2, <2>3 DEF Poll
  <1>5. ASSUME NEW at \in {"failsafe", "close"}, SwitchOff(at)
        PROVE  PollInv' /\ StepsLeft' < StepsLeft
    <2>1. CASE Raise
      BY <1>1, <1>5, <2>1 DEF SwitchOff, Raise
    <2>2. CASE pc' = "reply"
      BY <1>5, <2>2 DEF SwitchOff, PollInv, StepsLeft
    <2> QED BY <1>5, <2>1, <2>2 DEF SwitchOff
  <1>6. CASE GetStatus
    <2>1. CASE Raise
      BY <1>1, <1>6, <2>1 DEF GetStatus, Raise
    <2>2. CASE pc' = "reply"
      BY <1>6, <2>2 DEF GetStatus, PollInv, StepsLeft
    <2> QED BY <1>6, <2>1, <2>2 DEF GetStatus
  <1>7. CASE Charge
    BY <1>7 DEF Charge, PollInv, StepsLeft
  <1>8. CASE ChargeFails
    BY <1>1, <1>8 DEF ChargeFails, Raise
  <1>9. CASE Reply
    BY <1>9 DEF Reply, End, PollInv, StepsLeft
  <1> QED BY <1>2, <1>3, <1>4, <1>5, <1>6, <1>7, <1>8, <1>9
             DEF ServiceStep, FailsafeOff, StopOff

\* Time, faults, and new calls, which begin between calls only.
LEMMA OthersDoNotLengthen ==
  TypeOK /\ PollInv /\ [Next]_vars /\ ~ ServiceStep
    => PollInv' /\ (pc # "idle" => StepsLeft' <= StepsLeft)
  <1> SUFFICES ASSUME TypeOK, PollInv, [Next]_vars, ~ ServiceStep
               PROVE  PollInv' /\ (pc # "idle" => StepsLeft' <= StepsLeft)
    OBVIOUS
  <1>0. StepsLeft \in Nat
    BY StepsAreNat, BoundsAssumption
  <1>1. CASE UNCHANGED <<pc, call>>
    <2>1. StepsLeft' = StepsLeft
      BY <1>1 DEF StepsLeft
    <2>2. PollInv'
      BY <1>1 DEF PollInv
    <2> QED BY <1>0, <2>1, <2>2
  <1>2. CASE Crash
    <2>1. pc' = "idle"
      BY <1>2 DEF Crash
    <2>2. PollInv' /\ StepsLeft' = 0
      BY <2>1 DEF PollInv, StepsLeft
    <2> QED BY <1>0, <2>2
  <1>3. ASSUME NEW z \in Zones, NEW minutes \in Requests, BeginWater(z, minutes)
        PROVE  PollInv' /\ pc = "idle"
    BY <1>3, BoundsAssumption DEF BeginWater, Enter, PollInv
  <1>4. ASSUME NEW z \in Zones, BeginStatus(z) \/ BeginStop(z)
        PROVE  PollInv' /\ pc = "idle"
    BY <1>4 DEF BeginStatus, BeginStop, Enter, PollInv, NoCall
  <1>5. ListZones \/ UnknownZone \/ (\E z \in Zones, minutes \in Requests : RefuseWater(z, minutes))
          => UNCHANGED <<pc, call>>
    BY DEF ListZones, UnknownZone, RefuseWater, AnswerAtOnce
  <1>6. Tick \/ NextDay \/ Expire \/ Corrupt \/ UNCHANGED vars => UNCHANGED <<pc, call>>
    BY DEF Tick, NextDay, Expire, Corrupt, vars
  <1> QED BY <1>1, <1>2, <1>3, <1>4, <1>5, <1>6 DEF Next

\* A call is at most ConfirmAttempts polls and four other steps, whatever is refused,
\* lost or reported late in between: every step of the service takes it nearer to its
\* end, and nothing else takes it further away (gateway.py:53-106,
\* garden_core.py:96-131).  CallsEnd adds that the steps are taken.
CallsShorten ==
  [][pc # "idle" => IF ServiceStep THEN StepsLeft' < StepsLeft ELSE StepsLeft' <= StepsLeft]_vars

THEOREM CallsAreBounded ==
  Spec => [](StepsLeft \in 0 .. 4 + ConfirmAttempts) /\ CallsShorten
  <1>1. Init => PollInv
    BY DEF Init, PollInv
  <1>2. TypeOK /\ CallInv /\ PollInv /\ [Next]_vars => PollInv'
    BY CallGetsShorter, OthersDoNotLengthen
  <1>3. Spec => [](TypeOK /\ CallInv /\ PollInv)
    BY <1>1, <1>2, TypeCorrect, PTL DEF Spec
  <1>4. TypeOK /\ CallInv /\ PollInv /\ [Next]_vars
          => [pc # "idle" => IF ServiceStep THEN StepsLeft' < StepsLeft
                                            ELSE StepsLeft' <= StepsLeft]_vars
    BY CallGetsShorter, OthersDoNotLengthen
  <1> QED BY <1>3, <1>4, StepsAreNat, PTL DEF Spec, CallsShorten
=============================================================================
