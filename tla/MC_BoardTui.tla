----------------------------- MODULE MC_BoardTui -----------------------------
(***************************************************************************)
(* Small instances of BoardTui for TLC: each source, with the faults that  *)
(* can meet it.  Numbered frames for what is recorded, numbers that come   *)
(* again for what is shown for ever.                                       *)
(***************************************************************************)
EXTENDS BoardTui

NoArgs == [host |-> FALSE, simulate |-> FALSE, replay |-> FALSE, port |-> FALSE,
           record |-> FALSE, once |-> FALSE]
Serial == [NoArgs EXCEPT !.port = TRUE]
SerialRecorded == [Serial EXCEPT !.record = TRUE]

Numbered(line, faults) == [args |-> line, faults |-> faults, last |-> 2, wraps |-> FALSE]
Endless(line, faults) == [args |-> line, faults |-> faults, last |-> 1, wraps |-> TRUE]

MCSetups ==
  {Numbered(SerialRecorded, FaultKinds \ {"stall"}),
   Numbered(SerialRecorded, {"stall", "text"}),
   Numbered([SerialRecorded EXCEPT !.once = TRUE], {"unplug", "torn", "text", "dht"}),
   Numbered([SerialRecorded EXCEPT !.replay = TRUE], {"disk"}),
   Numbered([NoArgs EXCEPT !.replay = TRUE, !.once = TRUE], {}),
   Endless(Serial, {"unplug", "torn", "text", "dht"}),
   Endless([Serial EXCEPT !.host = TRUE], {"unplug", "text"}),
   Endless([Serial EXCEPT !.simulate = TRUE, !.replay = TRUE], {"quit"}),
   Numbered(NoArgs, {})}
=============================================================================
