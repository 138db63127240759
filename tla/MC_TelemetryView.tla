-------------------------- MODULE MC_TelemetryView --------------------------
(***************************************************************************)
(* Small instances of TelemetryView for TLC: two viewers of either board.  *)
(* Numbered frames for what is shown, numbers that come again for what is  *)
(* shown for ever.                                                         *)
(***************************************************************************)
EXTENDS TelemetryView

CONSTANTS v1, v2

Two == {v1, v2}

Numbered(board, room, queue) ==
  [board |-> board, last |-> 3, wraps |-> FALSE, queue |-> queue, room |-> room, starts |-> 3,
   outages |-> FALSE, rejoins |-> FALSE]
Endless(board, rejoins) ==
  [board |-> board, last |-> 0, wraps |-> TRUE, queue |-> 1, room |-> 2, starts |-> 2,
   outages |-> TRUE, rejoins |-> rejoins]

\* A rover's frame may fit in part: its room is odd.
MCSetups ==
  {Numbered("garden", 4, 2), Numbered("rover", 3, 2),
   Endless("garden", TRUE), Endless("rover", FALSE)}
=============================================================================
