--------------------------- MODULE MC_ReadingPush ---------------------------
(***************************************************************************)
(* A small instance of ReadingPush for TLC: a garden node, a rover and two *)
(* simulated devices, the first of them with the garden node's name.       *)
(***************************************************************************)
EXTENDS ReadingPush

CONSTANTS g1, r1, d1, d2

OneGarden == {g1}
OneRover == {r1}
TwoDevices == <<d1, d2>>

\* simulate.py counts from garden-node-1, which is the DEVICE_ID of config.h:8.
DefaultLabel == [n \in Nodes |-> IF n = d1 THEN g1 ELSE n]

Edge == FaultKinds \ {"open", "simulate", "once"}
\* Everything but what a property leaves out.  A lost request leaves its node where a
\* refused one could have: without it, a refusal not heeded is not mistaken for a loss.
MCFaultSets ==
  {Edge \ {"drop"}, Edge \ {"lost"}, Edge \ {"short", "revoke", "wrap"}, {"open", "put", "drop"},
   {"simulate", "open", "put"},
   {"simulate", "open", "put", "lost", "reboot", "once"},
   {"simulate", "token", "put", "lost", "reboot", "revoke", "short"}}
=============================================================================
