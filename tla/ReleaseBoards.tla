---------------------------- MODULE ReleaseBoards ----------------------------
(***************************************************************************)
(* The two boards that update themselves from one place: the garden node   *)
(* and the rover both ask for the repository's latest release, to which    *)
(* the workflows of both publish.                                          *)
(***************************************************************************)
EXTENDS GardenOta

CONSTANTS
  RoverUsbVersion,  \* what the rover was flashed with over USB
  Environments,     \* the pairs of fault sets of the two boards, one in a behaviour
  MaxResets         \* bound of the rover's failed bring-ups and power cuts

VARIABLES roverFaults, roverPc, slot, state, flash, heard, bin, resets

roverVars == <<roverFaults, roverPc, slot, state, flash, heard, bin, resets>>

Rover == INSTANCE RoverOta WITH
  UsbVersion <- RoverUsbVersion,
  Environments <- {pair[2] : pair \in Environments},
  faults <- roverFaults,
  pc <- roverPc

ASSUME RoverAssumption == Rover!Sound

BoardsInit ==
  /\ Init
  /\ Rover!Init
  /\ <<faults, roverFaults>> \in Environments

\* A step of one board, or a release, which leaves both boards as they are.
BoardsNext ==
  \/ Next /\ UNCHANGED roverVars
  \/ Rover!Step /\ UNCHANGED vars

BoardsSpec ==
  /\ BoardsInit
  /\ [][BoardsNext]_<<vars, roverVars>>
  /\ Fairness
  /\ Rover!Fairness

-----------------------------------------------------------------------------
(***************************************************************************)
(* Properties of the rover, of which some rest on what is released.        *)
(***************************************************************************)

\* Power can be cut anywhere, and garden releases read as rover releases: the
\* rover finds a whole image to start from (ota.rs:57-62).
AlwaysBootable == Rover!TypeOK /\ Rover!AlwaysBootable

\* While a tag tells what was built, what the rover has selected to run is a release of
\* its own workflow, or what was flashed over USB: never the garden node's binary, an
\* error page or half a download, although a release of either board can come between
\* its two requests, and the version heard is then of one, the image of the other
\* (ota.rs:39-63).
RunsItsReleases ==
  "mislabel" \notin faults => (state # "sure" => <<"rover", Rover!Running>> \in tagged)

\* Why: what it holds in memory or in the spare partition is such a release, or no image.
Rovers == {v \in Versions : <<"rover", v>> \in tagged}
HoldsItsReleases ==
  "mislabel" \notin faults =>
  /\ latest.kind = "rover" => latest.built \in Rovers
  /\ bin.version \in Rovers \cup {Rover!Broken}
  /\ flash[1].version \in Rovers \cup {Rover!Broken}

\* The rover tries releases for ever, and comes back from each to its loop
\* (main.rs:37, ota.rs:39-63): neither an outage nor a release cuts it off.
RoverTriesAgain == Rover!TriesAgain
RoverComesBack == Rover!ComesBack

\* What the composition shows the rover is a behaviour of the rover's module.
RoverAlone == Rover!Spec
=============================================================================
