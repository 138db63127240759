--------------------------- MODULE MC_TuyaGateway ---------------------------
(***************************************************************************)
(* Small instances of TuyaGateway for TLC.                                 *)
(***************************************************************************)
EXTENDS TuyaGateway

\* Two zones: "bed" with whole caps (2 minutes a run, 3 a day), "pot" with a
\* fractional day cap (1.75 minutes) and runs of one minute.
BedAndPot == {"bed", "pot"}
BedCaps == [max_per_run |-> 8, max_per_day |-> 12, min_run |-> 4]
PotCaps == [max_per_run |-> 4, max_per_day |-> 7, min_run |-> 4]
MCCaps == [z \in Zones |-> IF z = "bed" THEN BedCaps ELSE PotCaps]

\* A request the caps refuse, one that fits a run and one they cut.
MCRequests == {0, 1, 5}

\* What do_water is built to survive, with failures before any water flows; and
\* everything but a valve that drops its countdown.
Survivable == {"token", "ignore"}
CountdownHolds == FaultKinds \ {"ignore"}
MCFaultSets == {Survivable, CountdownHolds}

LostPoll == {{"poll"}}
OnlyExpiry == {{"expiry"}}

\* A minute more than any zone's day; none where no property looks at poured.
MCPourBound == [f \in FaultSets |-> IF f \subseteq {"token", "poll", "ignore"} THEN 4 ELSE 0]
=============================================================================
