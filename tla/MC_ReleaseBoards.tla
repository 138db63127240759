-------------------------- MODULE MC_ReleaseBoards --------------------------
(***************************************************************************)
(* Small instances of ReleaseBoards for TLC.                               *)
(***************************************************************************)
EXTENDS ReleaseBoards

\* The garden node was flashed with version 1, and 2 and 3 are tagged for it; the
\* rover was flashed with 2, and 1 and 3 are tagged for it.
ThreeVersions == 1 .. 3
AllTags == {1, 2, 3}
TwoRoverTags == {1, 3}

\* And, to tell what the rover's releases do to the garden node from what its own do,
\* one new release for it.
OneNewTag == {1, 2}

\* The first release is the one the garden node was flashed with.
InService == [kind : {"garden"}, version : {1}, built : {1}, ssid : Networks]

\* Of the garden node: every fault at once, and for each property what it can bear,
\* with builds of one's own; and with the binaries of the workflows.
AllFaults == FaultKinds \ {"off", "own"}
GardenFaultSets ==
  {s \cup {"own"} :
     s \in {AllFaults, AllFaults \ Uncounted, AllFaults \ {"mislabel", "page"}, Passing, {}}}
  \cup {AllFaults, Passing, {}}

\* Of the rover: all that it gets over.
Recoverable == {"network", "page", "outage", "power"}

\* The garden node alone; the rover alone, with a runtime that halts and with tags
\* that do not tell the version too; and both.
EveryEnvironment ==
  GardenFaultSets \X {{"off"}}
  \cup {{"off", "rover", "empty"}, {"off", "rover", "empty", "own"}}
         \X {Recoverable, Recoverable \cup {"halt"}}
  \cup {{"off", "rover", "mislabel"}} \X {Recoverable}
  \cup {{"rover", "empty"}} \X {{}}
OnlyRover == {<<{"rover"}, {"off"}>>}
NoFault == {<<{}, {"off"}>>}
AllFaultSets == {pair[1] : pair \in EveryEnvironment}
OnlyRoverFaultSets == {pair[1] : pair \in OnlyRover}
NoFaultSets == {pair[1] : pair \in NoFault}
=============================================================================
