----------------------------- MODULE DailyBudget -----------------------------
(***************************************************************************)
(* What the watering gateway promises of a zone's daily budget: minutes    *)
(* are only ever added to what a zone has spent on a day, what it has      *)
(* spent stays within its allowance, and only midnight clears it, or the   *)
(* loss of all records at once.                                            *)
(* TuyaGateway, with its process, its file and its cloud calls, is shown   *)
(* to implement this specification.                                        *)
(***************************************************************************)
EXTENDS Integers

CONSTANTS Zones,        \* the zones with a budget
          Allowance,    \* [Zones -> Nat]: whole minutes a zone may spend in a day
          MaxDay        \* bound: the last day that is looked at

VARIABLES day,          \* the local day
          spent,        \* [Zones -> Nat]: minutes spent on that day
          forgetful     \* the records can be lost

vars == <<day, spent, forgetful>>

Init ==
  /\ day = 1
  /\ spent = [z \in Zones |-> 0]
  /\ forgetful \in BOOLEAN

\* Minutes are spent on one zone, never more than its allowance in a day.
Spend(z) ==
  \E m \in 1 .. Allowance[z] - spent[z] :
    /\ spent' = [spent EXCEPT ![z] = @ + m]
    /\ UNCHANGED <<day, forgetful>>

\* Local midnight.
NextDay ==
  /\ day < MaxDay
  /\ day' = day + 1
  /\ spent' = [z \in Zones |-> 0]
  /\ UNCHANGED forgetful

\* The records are lost.
Forget ==
  /\ forgetful
  /\ spent' = [z \in Zones |-> 0]
  /\ UNCHANGED <<day, forgetful>>

Next == NextDay \/ Forget \/ \E z \in Zones : Spend(z)

Spec == Init /\ [][Next]_vars
=============================================================================
