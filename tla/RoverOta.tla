------------------------------- MODULE RoverOta -------------------------------
(***************************************************************************)
(* Over-the-air updates of the rover (rover-firmware/src/ota.rs, called    *)
(* from the loop of main.rs), with what it builds on: the two application  *)
(* partitions of partitions.csv and the boot loader with rollback          *)
(* (sdkconfig.defaults), which tries a new image once and goes back to the *)
(* other partition at the next reset, unless the image has been marked     *)
(* valid.  Nothing in the firmware marks it.  An image joins the network   *)
(* whose credentials it was built with (config.rs); what the workflow      *)
(* builds has dummies.                                                     *)
(*                                                                         *)
(* What latest holds is left to the module that composes the boards.       *)
(***************************************************************************)
EXTENDS Integers

CONSTANTS
  Versions,       \* the versions there can be, ordered as version_is_newer orders them
  UsbVersion,     \* what was flashed over USB, into the first partition
  Networks,       \* whose credentials an image can have, "garden" among them
  Releases,       \* what "latest" can be: records of a kind, a version, what was built and with
                  \* whose credentials
  Environments,   \* what can go wrong: sets of fault kinds, one of them in a behaviour
  MaxResets       \* bound: the failed bring-ups and power cuts of a behaviour

(***************************************************************************)
(* "off"      the board is not powered                                     *)
(* "network"  a download ends early, or not at all                         *)
(* "page"     the version request answers an error page                    *)
(* "outage"   the access point is down at boot: main returns an error, and *)
(*            the runtime resets the board                                 *)
(* "halt"     the same, and the runtime leaves the board where it is       *)
(* "power"    power fails, in the middle of an update too                  *)
(***************************************************************************)
FaultKinds == {"off", "network", "page", "outage", "halt", "power"}

Nothing == 0
Page == -1     \* the body of an error page: version_is_newer finds it malformed
Broken == 0    \* the version of what no image starts from: erased, half written, an error page

Images == [version : Versions \cup {Broken}, ssid : Networks]
NoImage == [version |-> Broken, ssid |-> "garden"]
UsbImage == [version |-> UsbVersion, ssid |-> "garden"]

\* What the constants have to be.
Sound ==
  /\ Versions \subseteq Nat \ {Broken}
  /\ UsbVersion \in Versions
  /\ \A r \in Releases : r.version \in Versions \cup {Nothing}
  /\ \A r \in Releases : r.kind = "rover" => r.built \in Versions /\ r.ssid \in Networks
  /\ "garden" \in Networks
  /\ Environments \subseteq SUBSET FaultKinds
  /\ MaxResets \in Nat

VARIABLES
  faults,    \* what can go wrong in this behaviour
  latest,    \* the release the /releases/latest/ URLs serve
  pc,        \* where the rover is
  slot,      \* the partition the boot loader has selected, and runs
  state,     \* of that partition: "sure", "new" (selected, not yet run) or "trial"
  flash,     \* the image in each partition
  heard,     \* the version that was heard of, in check_and_apply
  bin,       \* the image in memory
  resets     \* failed bring-ups and power cuts so far

vars == <<faults, latest, pc, slot, state, flash, heard, bin, resets>>
partitions == <<slot, state, flash>>

Slots == {0, 1}
Spare == 1 - slot
Running == flash[slot].version
Joins == flash[slot].ssid = "garden"

\* version_is_newer.
Newer(text, current) == text # Page /\ text > current

-----------------------------------------------------------------------------
Init ==
  /\ faults \in Environments
  /\ latest \in Releases
  /\ pc = IF "off" \in faults THEN "off" ELSE "reset"
  /\ slot = 0
  /\ state = "sure"
  /\ flash = [s \in Slots |-> IF s = 0 THEN UsbImage ELSE NoImage]
  /\ heard = Nothing
  /\ bin = NoImage
  /\ resets = 0

\* Mutant of Boot: without rollback, an image on trial is started again.
BootAgain ==
  /\ pc = "reset"
  /\ state' = IF state = "sure" THEN "sure" ELSE "trial"
  /\ pc' = "connect"
  /\ UNCHANGED <<faults, latest, slot, flash, heard, bin, resets>>

\* The boot loader: an image that was on trial is given up, a new one is tried.
Boot ==
  /\ pc = "reset"
  /\ slot' = IF state = "trial" THEN Spare ELSE slot
  /\ state' = IF state = "new" THEN "trial" ELSE "sure"
  /\ pc' = "connect"
  /\ UNCHANGED <<faults, latest, flash, heard, bin, resets>>

\* Mutant of Connect: an error leaves the board where it is.
ConnectOnce ==
  /\ pc = "connect"
  /\ pc' = IF Joins /\ "outage" \notin faults THEN "idle" ELSE "halted"
  /\ UNCHANGED <<faults, latest, partitions, heard, bin, resets>>

\* wifi::connect, whose error leaves main, and the board is reset: at an outage, and each
\* time where the image has the workflow's credentials.
Connect ==
  /\ pc = "connect"
  /\ \/ Joins /\ pc' = "idle" /\ UNCHANGED resets
     \/ /\ "outage" \in faults
        /\ resets < MaxResets
        /\ pc' = "reset"
        /\ resets' = resets + 1
     \/ ~Joins /\ "halt" \notin faults /\ pc' = "reset" /\ UNCHANGED resets
     \/ "halt" \in faults /\ pc' = "halted" /\ UNCHANGED resets
  /\ UNCHANGED <<faults, latest, partitions, heard, bin>>

-----------------------------------------------------------------------------
(***************************************************************************)
(* check_and_apply.  An error of any step is logged, and the loop goes on. *)
(***************************************************************************)
ToIdle == pc' = "idle" /\ heard' = Nothing /\ bin' = NoImage

\* fetch(OTA_VERSION_URL) and the comparison.  A request that fails changes nothing.
Ask ==
  /\ pc = "idle"
  /\ \E text \in {latest.version} \cup (IF "page" \in faults THEN {Page} ELSE {}) :
       IF Newer(text, Running) THEN pc' = "fetch" /\ heard' = text ELSE UNCHANGED <<pc, heard>>
  /\ UNCHANGED <<faults, latest, partitions, bin, resets>>

\* Mutant of Binary: the binary of whatever was released.
BinaryOfLatest == [version |-> latest.built, ssid |-> latest.ssid]

\* What OTA_BINARY_URL serves: garden-rover.bin, which only a rover release has.
Binary ==
  IF latest.kind = "rover" THEN [version |-> latest.built, ssid |-> latest.ssid] ELSE NoImage

\* fetch(OTA_BINARY_URL), which does not look at the HTTP status: of a release that
\* has no garden-rover.bin it returns an error page.
FetchBinary ==
  /\ pc = "fetch"
  /\ \/ /\ bin' = Binary
        /\ pc' = "begin"
        /\ UNCHANGED heard
     \/ "network" \in faults /\ bin' = NoImage /\ pc' = "begin" /\ UNCHANGED heard
     \/ "network" \in faults /\ ToIdle
  /\ UNCHANGED <<faults, latest, partitions, resets>>

\* Mutant of InitiateUpdate: an image on trial can be updated.
InitiateAnyway ==
  /\ pc = "begin"
  /\ flash' = [flash EXCEPT ![Spare] = NoImage]
  /\ pc' = "write"
  /\ UNCHANGED <<faults, latest, slot, state, heard, bin, resets>>

\* EspOta::initiate_update erases the other partition; an image that is itself on
\* trial is refused.
InitiateUpdate ==
  /\ pc = "begin"
  /\ IF state = "trial"
     THEN ToIdle /\ UNCHANGED flash
     ELSE flash' = [flash EXCEPT ![Spare] = NoImage] /\ pc' = "write" /\ UNCHANGED <<heard, bin>>
  /\ UNCHANGED <<faults, latest, slot, state, resets>>

\* write: what is no image is found out here or by complete.
WriteImage ==
  /\ pc = "write"
  /\ flash' = [flash EXCEPT ![Spare] = bin]
  /\ pc' = "complete"
  /\ UNCHANGED <<faults, latest, slot, state, heard, bin, resets>>

\* complete: a whole image is selected for the next boot, and reset::restart.
Complete ==
  /\ pc = "complete"
  /\ heard' = Nothing
  /\ bin' = NoImage
  /\ IF flash[Spare].version = Broken
     THEN pc' = "idle" /\ UNCHANGED <<slot, state>>
     ELSE pc' = "reset" /\ slot' = Spare /\ state' = "new"
  /\ UNCHANGED <<faults, latest, flash, resets>>

\* A reset at any point: memory is lost, the partitions stay.
PowerCut ==
  /\ "power" \in faults
  /\ resets < MaxResets
  /\ pc \notin {"off", "reset"}
  /\ pc' = "reset"
  /\ heard' = Nothing
  /\ bin' = NoImage
  /\ resets' = resets + 1
  /\ UNCHANGED <<faults, latest, partitions>>

Update == Ask \/ FetchBinary \/ InitiateUpdate \/ WriteImage \/ Complete
Step == Boot \/ Connect \/ Update \/ PowerCut

\* The workflows.
Release == latest' \in Releases /\ UNCHANGED <<faults, pc, partitions, heard, bin, resets>>

Next == Step \/ Release

Spec == Init /\ [][Next]_vars

\* The loop polls for ever; of the downloads, not all are lost.
FetchesWell == FetchBinary /\ (latest.kind = "rover" => bin' = Binary)
Asks == Ask /\ (Newer(latest.version, Running) => pc' = "fetch")
Fairness == WF_vars(Boot \/ Connect \/ Update) /\ SF_vars(FetchesWell) /\ SF_vars(Asks)

-----------------------------------------------------------------------------
(***************************************************************************)
(* Properties.                                                             *)
(***************************************************************************)
TypeOK ==
  /\ faults \in Environments
  /\ latest \in Releases
  /\ pc \in {"off", "reset", "connect", "halted", "idle", "fetch", "begin", "write", "complete"}
  /\ slot \in Slots
  /\ state \in {"sure", "new", "trial"}
  /\ flash \in [Slots -> Images]
  /\ heard \in Versions \cup {Nothing}
  /\ bin \in Images
  /\ resets \in 0 .. MaxResets

\* Wherever power fails, the boot loader finds a whole image where it looks, and
\* behind an image that is new or on trial the one it would go back to: the image
\* flashed over USB is never written over (ota.rs:57-62).
AlwaysBootable ==
  /\ Running # Broken
  /\ state # "sure" => flash[Spare].version # Broken
  /\ flash[0] = UsbImage

\* What the last release holds for the rover: newer than what was flashed over USB.
Offered == latest.kind = "rover" /\ latest.version > UsbVersion

\* A runtime that resets the board after an error, and power.
Restarts == faults \cap {"off", "halt"} = {}

\* Once releases end with one for the rover that is newer than what was flashed over
\* USB, the rover tries a release again and again, whatever failed before: outages at
\* boot, lost downloads, power cuts, and the trial itself (main.rs:37, ota.rs:39-63).
TriesAgain == Restarts => (<>[]Offered => []<>(state = "trial"))

\* And no release keeps it from its loop for ever: each time it comes back to it, in the
\* image flashed over USB where the one it tries cannot join the network.
ComesBack == Restarts => []<>(pc = "idle")
=============================================================================
