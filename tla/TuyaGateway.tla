----------------------------- MODULE TuyaGateway -----------------------------
(***************************************************************************)
(* The irrigation gateway: GatewayService (irrigation/mcp/gateway.py), the *)
(* valve procedure do_water, the Tuya client and the persistent            *)
(* BudgetState (irrigation/garden_core.py), composed with what is outside: *)
(* the agent that calls the four tools, the Tuya cloud, the valves, time,  *)
(* and the faults of all of them.                                          *)
(*                                                                         *)
(* The service runs one tool call at a time (the tools are plain           *)
(* functions, which the MCP server runs on its event loop), so its state   *)
(* is one program counter and the locals of one call.  Every HTTP request  *)
(* is a step of its own, and so is the replacement of the budget file.     *)
(*                                                                         *)
(* Time is counted in minutes.  A call takes seconds: a minute passes      *)
(* during a call only with the fault "slow".                               *)
(***************************************************************************)
EXTENDS ClampMinutes

CONSTANTS
  Zones,            \* names in the gateway's configuration
  NoZone,           \* the zone of no call
  CapsOf,           \* [Zones -> Caps]
  Requests,         \* minutes an agent may ask for
  ConfirmAttempts,  \* status polls after an ON (GatewayService's default: 3)
  FaultSets,        \* what can go wrong: one of these sets, in a behaviour
  MaxDay,           \* bound: the last day of the model
  PourBound         \* bound: [FaultSets -> minutes at which poured stops counting]

(***************************************************************************)
(* "token"    a token request raises                                       *)
(* "send"     a command request raises: not delivered, or the reply lost   *)
(* "poll"     a status request raises                                      *)
(* "expiry"   the cloud forgets an access token                            *)
(* "ignore"   a valve drops the countdown data point (what do_water's      *)
(*            verification is for)                                         *)
(* "lag"      a status request answers what an earlier one answered        *)
(* "crash"    the gateway's process dies and restarts                      *)
(* "corrupt"  the budget file becomes unreadable                           *)
(* "save"     the budget file cannot be written                            *)
(* "slow"     a minute can pass during a call                              *)
(***************************************************************************)
FaultKinds == {"token", "send", "poll", "expiry", "ignore", "lag", "crash", "corrupt", "save", "slow"}

ASSUME CapsAssumption ==
  /\ CapsOf \in [Zones -> Caps]
  /\ \A z \in Zones : CapsOf[z].max_per_day # NoDayCap   \* list_zones requires the key
ASSUME NamesAssumption == NoZone \notin Zones
ASSUME RequestsAssumption == Requests \subseteq Int
ASSUME FaultsAssumption == FaultSets \subseteq SUBSET FaultKinds
ASSUME BoundsAssumption ==
  /\ ConfirmAttempts \in Nat \ {0}
  /\ MaxDay \in Nat \ {0}
  /\ PourBound \in [FaultSets -> Nat]

VARIABLES
  faults,      \* one of FaultSets, for ever
  pc,          \* where the service is in its current call
  call,        \* the locals of that call
  tokenOk,     \* GatewayService._token_ok
  budget,      \* budget.json: [Zones -> [day, minutes]]
  session,     \* the cloud still accepts the token the service holds
  valve,       \* [Zones -> [on, left, day]]: the devices
  shadow,      \* [Zones -> BOOLEAN]: the countdown the cloud last reported as running
  day,         \* the local day
  poured,      \* history: minutes of water per zone, of runs called for today
  outcome,     \* history: how the last call ended
  lines        \* history: audit lines written for it

vars == <<faults, pc, call, tokenOk, budget, session, valve, shadow, day, poured, outcome, lines>>

-----------------------------------------------------------------------------
(***************************************************************************)
(* The persistent budget: {"watered": {zone: {"day", "minutes"}}}.         *)
(***************************************************************************)

\* A zone that is not in the file; no day is day 0.
NoRecord == [day |-> 0, minutes |-> 0]

\* _load of a missing or unreadable file.
EmptyBudget == [z \in Zones |-> NoRecord]

\* BudgetState.watered_today, at a time on day d.
WateredToday(z, d) == IF budget[z].day = d THEN budget[z].minutes ELSE 0

\* Mutants of AddWatered: the record counts down, is replaced, is not saved, or
\* carries the day before.
CountDown(z, minutes, d) ==
  budget' = [budget EXCEPT ![z] =
               [day |-> d, minutes |-> WateredToday(z, d) - minutes]]

Overwrite(z, minutes, d) ==
  budget' = [budget EXCEPT ![z] = [day |-> d, minutes |-> minutes]]

NotSaved(z, minutes, d) == budget' = budget

CarryOver(z, minutes, d) ==
  budget' = [budget EXCEPT ![z] =
               [day |-> d, minutes |-> budget[z].minutes + minutes]]

\* BudgetState.add_watered, with the file's replacement (tmp, then os.replace).
AddWatered(z, minutes, d) ==
  budget' = [budget EXCEPT ![z] =
               [day |-> d, minutes |-> WateredToday(z, d) + minutes]]

-----------------------------------------------------------------------------
(***************************************************************************)
(* The devices.  left is what the countdown still holds, in minutes: a     *)
(* valve that is on with left = 0 has no automatic close.  day is the day  *)
(* of the call that opened it.                                             *)
(***************************************************************************)

Closed == [on |-> FALSE, left |-> 0, day |-> 0]

\* Mutant of Opened: the command carries the switch alone.
OpenedBare(v, m, d) == {[on |-> TRUE, left |-> 0, day |-> d]}

\* What a valve can make of [switch TRUE, countdown m].
Opened(v, m, d) ==
  {[on |-> TRUE, left |-> m, day |-> d]}
  \cup (IF "ignore" \in faults
        THEN {IF v.on THEN v ELSE [on |-> TRUE, left |-> 0, day |-> d]}
        ELSE {})

\* A valve one minute later.
Ran(v) ==
  IF v.on /\ v.left = 1 THEN Closed
  ELSE IF v.on /\ v.left > 1 THEN [v EXCEPT !.left = @ - 1]
  ELSE v

\* Mutant of Reported: the switch is taken for the countdown.
SwitchReported(z) == {valve[z].on}

\* What a status request can report of the countdown: running or not.
Reported(z) ==
  {valve[z].left > 0} \cup (IF "lag" \in faults THEN {shadow[z]} ELSE {})

-----------------------------------------------------------------------------
(***************************************************************************)
(* Calls.                                                                  *)
(***************************************************************************)

NoCall == [tool |-> "none", zone |-> NoZone, granted |-> 0, watered |-> 0,
           day |-> 0, polls |-> 0]

Init ==
  /\ faults \in FaultSets
  /\ pc = "idle"
  /\ call = NoCall
  /\ tokenOk = FALSE
  /\ budget = EmptyBudget
  /\ session = FALSE
  /\ valve = [z \in Zones |-> Closed]
  /\ shadow = [z \in Zones |-> FALSE]
  /\ day = 1
  /\ poured = [z \in Zones |-> 0]
  /\ outcome = "returned"
  /\ lines = 1

\* A call that needs the cloud: _ensure_token, then its first request.
Enter(c, request) ==
  /\ pc = "idle"
  /\ call' = c
  /\ pc' = IF tokenOk THEN request ELSE "token"
  /\ outcome' = "running"
  /\ lines' = 0
  /\ UNCHANGED <<faults, tokenOk, budget, session, valve, shadow, day, poured>>

\* Mutant of AnswerAtOnce: the early return comes before the audit line.
AnswerUnlogged ==
  /\ pc = "idle"
  /\ outcome' = "returned"
  /\ lines' = 0
  /\ UNCHANGED <<faults, pc, call, tokenOk, budget, session, valve, shadow, day, poured>>

\* A call that is answered without the cloud: one audit line, then the reply.
AnswerAtOnce ==
  /\ pc = "idle"
  /\ outcome' = "returned"
  /\ lines' = 1
  /\ UNCHANGED <<faults, pc, call, tokenOk, budget, session, valve, shadow, day, poured>>

\* The call ends: by a return, by an exception no code catches, or with the
\* process.
End(how) ==
  /\ pc' = "idle"
  /\ call' = NoCall
  /\ outcome' = how

\* An exception leaves the tool function; nothing is written to the audit.
Raise == End("raised") /\ UNCHANGED <<faults, tokenOk, budget, session, day, poured, lines>>

\* list_zones, and the three other tools with a name that is not configured.
ListZones == AnswerAtOnce

UnknownZone == AnswerAtOnce

\* What water_zone grants of a request at this moment.
Granted(z, minutes) == Clamp(Q * minutes, CapsOf[z], Q * WateredToday(z, day))

\* water_zone of a request the caps cut to nothing.
RefuseWater(z, minutes) ==
  /\ Granted(z, minutes) = 0
  /\ AnswerAtOnce

\* water_zone of a request some minutes of which are granted.  now, and so the
\* day the minutes will be charged to, is read here.
BeginWater(z, minutes) ==
  /\ Granted(z, minutes) > 0
  /\ Enter([tool |-> "water_zone", zone |-> z, granted |-> Granted(z, minutes),
            watered |-> WateredToday(z, day), day |-> day, polls |-> 0], "open")

BeginStatus(z) == Enter([NoCall EXCEPT !.tool = "get_zone_status", !.zone = z], "status")

BeginStop(z) == Enter([NoCall EXCEPT !.tool = "stop_zone", !.zone = z], "close")

-----------------------------------------------------------------------------
(***************************************************************************)
(* The requests a call makes of the cloud.                                 *)
(***************************************************************************)

FirstRequest(tool) ==
  CASE tool = "water_zone" -> "open"
    [] tool = "get_zone_status" -> "status"
    [] tool = "stop_zone" -> "close"
    [] OTHER -> "idle"

\* Tuya.token, called at most once in the life of the process.
FetchToken ==
  /\ pc = "token"
  /\ \/ /\ tokenOk' = TRUE
        /\ session' = TRUE
        /\ pc' = FirstRequest(call.tool)
        /\ UNCHANGED <<faults, call, budget, valve, shadow, day, poured, outcome, lines>>
     \/ /\ "token" \in faults
        /\ Raise
        /\ UNCHANGED <<valve, shadow>>

\* do_water's re-clamp of the granted minutes.
Minutes == Clamp(Q * call.granted, CapsOf[call.zone], Q * call.watered)

\* do_water: switch on and countdown, in one command request.
SendOn ==
  /\ pc = "open"
  /\ \/ /\ session
        /\ \E v \in Opened(valve[call.zone], Minutes, call.day) :
             valve' = [valve EXCEPT ![call.zone] = v]
        /\ call' = [call EXCEPT !.granted = Minutes]
        /\ pc' = "poll"
        /\ UNCHANGED <<faults, tokenOk, budget, session, shadow, day, poured, outcome, lines>>
     \/ /\ ~session \/ "send" \in faults
        /\ Raise
        /\ UNCHANGED <<valve, shadow>>
     \/ /\ session /\ "send" \in faults          \* delivered, the reply lost
        /\ \E v \in Opened(valve[call.zone], Minutes, call.day) :
             valve' = [valve EXCEPT ![call.zone] = v]
        /\ Raise
        /\ UNCHANGED shadow

\* Mutant of Missed: the attempts are counted from zero again.
MissedAnew(c) == [c EXCEPT !.polls = 0]

\* The loop over confirm_attempts goes on.
Missed(c) == [c EXCEPT !.polls = @ + 1]

\* do_water: one status poll.  Any positive countdown confirms.
Poll ==
  /\ pc = "poll"
  /\ \/ /\ session
        /\ \E seen \in Reported(call.zone) :
             /\ shadow' = [shadow EXCEPT ![call.zone] = seen]
             /\ \/ seen /\ pc' = "charge" /\ UNCHANGED call
                \/ /\ ~seen
                   /\ call' = Missed(call)
                   /\ pc' = IF Missed(call).polls < ConfirmAttempts THEN "poll" ELSE "failsafe"
        /\ UNCHANGED <<faults, tokenOk, budget, session, valve, day, poured, outcome, lines>>
     \/ /\ ~session \/ "poll" \in faults
        /\ Raise
        /\ UNCHANGED <<valve, shadow>>

\* A command request that switches a valve off: do_water's failsafe, stop_zone.
SwitchOff(at) ==
  /\ pc = at
  /\ \/ /\ session
        /\ valve' = [valve EXCEPT ![call.zone] = Closed]
        /\ pc' = "reply"
        /\ UNCHANGED <<faults, call, tokenOk, budget, session, shadow, day, poured, outcome, lines>>
     \/ /\ ~session \/ "send" \in faults
        /\ Raise
        /\ UNCHANGED <<valve, shadow>>
     \/ /\ session /\ "send" \in faults          \* delivered, the reply lost
        /\ valve' = [valve EXCEPT ![call.zone] = Closed]
        /\ Raise
        /\ UNCHANGED shadow

FailsafeOff == SwitchOff("failsafe")

StopOff == SwitchOff("close")

\* get_zone_status: the status request.
GetStatus ==
  /\ pc = "status"
  /\ \/ /\ session
        /\ \E seen \in Reported(call.zone) : shadow' = [shadow EXCEPT ![call.zone] = seen]
        /\ pc' = "reply"
        /\ UNCHANGED <<faults, call, tokenOk, budget, session, valve, day, poured, outcome, lines>>
     \/ /\ ~session \/ "poll" \in faults
        /\ Raise
        /\ UNCHANGED <<valve, shadow>>

\* water_zone after a confirmed countdown: the minutes are charged to the day
\* the call began on.
Charge ==
  /\ pc = "charge"
  /\ AddWatered(call.zone, call.granted, call.day)
  /\ pc' = "reply"
  /\ UNCHANGED <<faults, call, tokenOk, session, valve, shadow, day, poured, outcome, lines>>

\* The file's replacement fails: the run goes uncharged.
ChargeFails ==
  /\ pc = "charge"
  /\ "save" \in faults
  /\ Raise
  /\ UNCHANGED <<valve, shadow>>

\* The audit line and the reply.
Reply ==
  /\ pc = "reply"
  /\ End("returned")
  /\ lines' = lines + 1
  /\ UNCHANGED <<faults, tokenOk, budget, session, valve, shadow, day, poured>>

ServiceStep ==
  \/ FetchToken \/ SendOn \/ Poll \/ FailsafeOff
  \/ Charge \/ ChargeFails
  \/ StopOff \/ GetStatus
  \/ Reply

-----------------------------------------------------------------------------
(***************************************************************************)
(* Time and faults.                                                        *)
(***************************************************************************)

\* A minute passes: open valves pour, and a countdown that runs out closes its
\* valve.
Tick ==
  /\ pc = "idle" \/ "slow" \in faults
  /\ \E z \in Zones : valve[z].on
  /\ valve' = [z \in Zones |-> Ran(valve[z])]
  /\ poured' = [z \in Zones |->
                  IF valve[z].on /\ valve[z].day = day
                  THEN Lesser(poured[z] + 1, PourBound[faults]) ELSE poured[z]]
  /\ UNCHANGED <<faults, pc, call, tokenOk, budget, session, shadow, day, outcome, lines>>

\* Local midnight, in the middle of a call too.
NextDay ==
  /\ day < MaxDay
  /\ day' = day + 1
  /\ poured' = [z \in Zones |-> 0]
  /\ UNCHANGED <<faults, pc, call, tokenOk, budget, session, valve, shadow, outcome, lines>>

Expire ==
  /\ "expiry" \in faults
  /\ session
  /\ session' = FALSE
  /\ UNCHANGED <<faults, pc, call, tokenOk, budget, valve, shadow, day, poured, outcome, lines>>

\* The process dies and starts again: build_service makes a new GatewayService.
Crash ==
  /\ "crash" \in faults
  /\ tokenOk' = FALSE
  /\ pc' = "idle"
  /\ call' = NoCall
  /\ outcome' = IF pc = "idle" THEN outcome ELSE "crashed"
  /\ UNCHANGED <<faults, budget, session, valve, shadow, day, poured, lines>>

Corrupt ==
  /\ "corrupt" \in faults
  /\ budget' = EmptyBudget
  /\ UNCHANGED <<faults, pc, call, tokenOk, session, valve, shadow, day, poured, outcome, lines>>

Next ==
  \/ ListZones \/ UnknownZone
  \/ \E z \in Zones :
       \/ \E minutes \in Requests : RefuseWater(z, minutes) \/ BeginWater(z, minutes)
       \/ BeginStatus(z)
       \/ BeginStop(z)
  \/ ServiceStep
  \/ Tick \/ NextDay
  \/ Expire \/ Crash \/ Corrupt

Spec == Init /\ [][Next]_vars

\* A running call goes on: every request has a timeout (urlopen, 15 s) and every
\* wait a bound.  Minutes go by whatever the agent calls, as calls take seconds.
Fairness == WF_vars(ServiceStep) /\ SF_vars(Tick)

FairSpec == Spec /\ Fairness

-----------------------------------------------------------------------------
(***************************************************************************)
(* Properties.                                                             *)
(***************************************************************************)

Places == {"idle", "token", "open", "poll", "failsafe", "charge", "status", "close", "reply"}
Tools == {"none", "water_zone", "get_zone_status", "stop_zone"}

Calls == [tool : Tools, zone : Zones \cup {NoZone}, granted : Nat, watered : Nat,
          day : Nat, polls : Nat]
Records == [day : Nat, minutes : Nat]
Valves == [on : BOOLEAN, left : Nat, day : Nat]

\* The type of every variable of the gateway and its environment.
TypeOK ==
  /\ faults \in FaultSets
  /\ pc \in Places
  /\ call \in Calls
  /\ tokenOk \in BOOLEAN
  /\ budget \in [Zones -> Records]
  /\ session \in BOOLEAN
  /\ valve \in [Zones -> Valves]
  /\ shadow \in [Zones -> BOOLEAN]
  /\ day \in Nat
  /\ poured \in [Zones -> Nat]
  /\ outcome \in {"running", "returned", "raised", "crashed"}
  /\ lines \in Nat

\* Failures that come before any water, and the valve that do_water checks for.
Benign == faults \subseteq {"token", "ignore"}

\* Requests that fail, as such, change nothing at the valve or in the file.
OnlyReadsFail == faults \subseteq {"token", "poll", "ignore"}

\* What a call in progress knows, and the file it read, still agree: the place in
\* the code fits the tool, the minutes are what the caps grant over the total that
\* was read, no later total is in the file, and no later day.
WaterPlaces == {"open", "poll", "failsafe", "charge"}
CallInv ==
  /\ pc = "idle" <=> call.tool = "none"
  /\ pc # "idle" => call.zone \in Zones
  /\ pc \in WaterPlaces => call.tool = "water_zone"
  /\ call.tool = "water_zone" =>
       /\ call.granted > 0
       /\ call.granted = Minutes
       /\ call.day <= day
       /\ \A z \in Zones : budget[z].day <= call.day
       /\ pc # "reply" => WateredToday(call.zone, call.day) <= call.watered
  /\ \A z \in Zones : budget[z].day <= day

\* Whole minutes a zone may be charged for in a day, and run for in a call.
DayAllowance(z) == WithinCap(CapsOf[z].max_per_day)
RunAllowance(z) == WithinCap(CapsOf[z].max_per_run)

\* Whatever is called, crashes, expires or is lost, the budget file never holds
\* more for a zone and day than the zone's max_per_day (rounded to the minute).
ChargedWithinAllowance == \A z \in Zones : budget[z].minutes <= DayAllowance(z)

\* No countdown on a valve is longer than the zone's max_per_run, whatever was
\* asked for: the longest unattended run is bounded.
RunWithinAllowance == \A z \in Zones : valve[z].left <= RunAllowance(z)

\* A zone never pours more minutes, for calls made today, than max_per_day: the
\* budget that the design says no sequence of calls can exceed.  It is asked for
\* where token and status requests fail, and nothing that acts.
DayPourWithinAllowance ==
  OnlyReadsFail => \A z \in Zones : poured[z] <= DayAllowance(z)

\* The minutes still to pour for calls of today, and the minutes of the call in
\* progress that are not charged yet.
ToPour(z) == IF valve[z].on /\ valve[z].day = day THEN valve[z].left ELSE 0
Uncharged(z) ==
  IF pc \in {"poll", "failsafe", "charge"} /\ call.zone = z /\ call.day = day
  THEN call.granted ELSE 0

\* Water follows its charge: what a zone has poured and will pour for today's
\* calls is covered by the file, or by the call that is about to charge it.
PourIsCharged ==
  Benign => \A z \in Zones : poured[z] + ToPour(z) <= WateredToday(z, day) + Uncharged(z)

\* Why: where the faults are benign, the session
\* lasts through every call, poured water is charged water, and a valve without a
\* countdown belongs to the call that is still polling it or closing it.
Covered(z) ==
  /\ valve[z].day <= day
  /\ poured[z] <= WateredToday(z, day)
  /\ valve[z].on /\ valve[z].left = 0 => pc \in {"poll", "failsafe"} /\ call.zone = z
  /\ poured[z] + ToPour(z) <= WateredToday(z, day) + Uncharged(z)
PourInv ==
  /\ tokenOk => session
  /\ pc \notin {"idle", "token"} => tokenOk
  /\ \A z \in Zones : Covered(z)

\* Between calls every open valve has a running countdown: do_water leaves no
\* valve open that will not close by itself.
OpenValveIsArmed ==
  OnlyReadsFail /\ pc = "idle" => \A z \in Zones : valve[z].on => valve[z].left > 0

\* The same at every moment, as the countdown travels with the ON command: even
\* a gateway that dies after any request leaves no valve open for good, if the
\* valve heeds the countdown.
AlwaysArmed == "ignore" \notin faults => \A z \in Zones : valve[z].on => valve[z].left > 0

\* A call that returns has written exactly one audit line.
ReturnIsAudited == outcome = "returned" => lines = 1

\* A stop_zone call that gets to its command leaves the valve closed.
StopCloses == [][pc = "close" /\ pc' # "close" => ~valve'[call.zone].on]_vars

\* The gateway implements the daily budget: the record of the current day is
\* what the zone has spent, and an unreadable file is a loss of all records
\* (garden_core.py:150-156).
Budget == INSTANCE DailyBudget WITH
  Allowance <- [z \in Zones |-> DayAllowance(z)],
  forgetful <- "corrupt" \in faults,
  spent <- [z \in Zones |-> WateredToday(z, day)]
BudgetSpec == Budget!Spec

\* Every call ends: no request, poll loop or failsafe leaves the service stuck
\* with all later calls waiting behind it.
CallsEnd == pc # "idle" ~> pc = "idle"

\* As every run is charged and the file holds the charges, no sequence of calls
\* keeps a valve open for ever.
ValvesClose == Benign => \A z \in Zones : valve[z].on ~> ~valve[z].on

\* Left alone, every open valve closes, even when the gateway died right after
\* opening it.
LeftAloneValvesClose ==
  "ignore" \notin faults /\ <>[](pc = "idle") => \A z \in Zones : valve[z].on ~> ~valve[z].on
=============================================================================
