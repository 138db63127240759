------------------------------ MODULE GardenOta ------------------------------
(***************************************************************************)
(* Over-the-air updates of the garden node (firmware/garden-node/ota.cpp,  *)
(* called from setup() and loop() of garden-node.ino in the builds the     *)
(* release workflow makes, with ENABLE_UPLOAD 1), and the release channel  *)
(* they come from: the "latest" release of the repository, which the       *)
(* workflows of the garden node and of the rover node both publish to.     *)
(*                                                                         *)
(* A version is a positive number: the node only tells equal from not      *)
(* equal.  A binary also carries the WiFi credentials it was built with:   *)
(* flash.sh builds with those of the garden, the release workflows with    *)
(* dummies, and no access point takes these.  Each call of the OTAUpdate   *)
(* library and each write of the failure counter is a step, so that power  *)
(* can fail between any two.                                               *)
(***************************************************************************)
EXTENDS Integers

CONSTANTS
  Versions,       \* the versions there can be
  FirstVersion,   \* what the node was flashed with over USB
  Existing,       \* the releases "latest" can stand for at first
  GardenTags,     \* versions that are tagged v*, each once
  RoverTags,      \* versions that are tagged rover-v*, each once
  MaxFailures,    \* OTA_MAX_FAILURES
  FaultSets,      \* what can go wrong: sets of fault kinds, one of them in a behaviour
  AttemptBound    \* bound: the history variable attempts stops counting here

(***************************************************************************)
(* "network"   the version request answers nothing; a download fails       *)
(* "page"      the version request answers an error page                   *)
(* "modem"     begin(), setCACert() or verify() fails                      *)
(* "update"    update() returns                                            *)
(* "power"     power fails, in the middle of an update too                 *)
(* "mislabel"  a tag is built from a tree that still has an old            *)
(*             FIRMWARE_VERSION (the workflows take any tag)               *)
(* "reflash"   the node is flashed over USB                                *)
(* "rover"     a rover release is published to the same channel            *)
(* "empty"     the node is there before the first release                  *)
(* "own"       no fault: releases are built with the garden's credentials, *)
(*             as flash.sh builds; the repository's workflows do not       *)
(* "off"       the node is not powered                                     *)
(***************************************************************************)
FaultKinds == {"network", "page", "modem", "update", "power", "mislabel", "reflash", "rover", "empty",
               "own", "off"}

\* Whose credentials are compiled into a binary (SECRET_WIFI_SSID).
Networks == {"garden", "ci"}

\* The EEPROM byte of erased flash.
Blank == 255

\* What fetchString returns besides the text of a version: nothing, or the body
\* of an error page (it does not look at the HTTP status).
Nothing == 0
Page == -1

\* kind: the workflow that published it; version: its version.txt; built: the
\* FIRMWARE_VERSION compiled into its garden-node.ota or garden-rover.bin; ssid: the
\* network whose credentials are.
NoRelease == [kind |-> "none", version |-> Nothing, built |-> Nothing, ssid |-> "ci"]
Releases ==
  {NoRelease}
  \cup [kind : {"garden", "rover"}, version : Versions, built : Versions, ssid : Networks]

ASSUME VersionsAssumption ==
  /\ Versions \subseteq Nat \ {Nothing}
  /\ FirstVersion \in Versions
  /\ GardenTags \subseteq Versions
  /\ RoverTags \subseteq Versions
  /\ Existing \subseteq Releases
ASSUME LimitsAssumption ==
  /\ MaxFailures \in 1 .. Blank - 1
  /\ AttemptBound \in Nat
ASSUME FaultsAssumption == FaultSets \subseteq SUBSET FaultKinds

VARIABLES
  faults,      \* what can go wrong in this behaviour
  latest,      \* the release the /releases/latest/ URLs serve
  tagged,      \* tags already released
  running,     \* FIRMWARE_VERSION of the running image
  ssid,        \* the network whose credentials are in it
  count,       \* the EEPROM byte
  pc,          \* where the node is
  image,       \* the release that was downloaded
  attempts,    \* history: updates begun since the last one came to its end
  installs     \* history: [Versions -> Nat], installations per tag since the last USB flash

vars == <<faults, latest, tagged, running, ssid, count, pc, image, attempts, installs>>
channel == <<faults, latest, tagged>>

-----------------------------------------------------------------------------
(***************************************************************************)
(* The failure counter.                                                    *)
(***************************************************************************)

\* readFailCount.
FailCount(byte) == IF byte = Blank THEN 0 ELSE byte

\* Mutant of Incremented: the counter is started over.
IncrementedFromZero(byte) == 1

\* incrementFailCount.
Incremented(byte) == IF FailCount(byte) < 255 THEN FailCount(byte) + 1 ELSE byte

\* Mutants of TooMany: one failure more is let through; a blank byte is not told
\* from a large count.
TooManyLater(byte) == FailCount(byte) > MaxFailures

TooManyRaw(byte) == byte >= MaxFailures

\* The check that gives up on OTA.
TooMany(byte) == FailCount(byte) >= MaxFailures

-----------------------------------------------------------------------------
\* The credentials the workflows write into what they build.
ReleaseSsid == IF "own" \in faults THEN "garden" ELSE "ci"

\* netEnsureWifi, while the access point is up.
Joins == ssid = "garden"

Init ==
  /\ faults \in FaultSets
  /\ latest \in {r \in Existing : /\ r.built = r.version \/ "mislabel" \in faults
                                  /\ r.ssid = ReleaseSsid}
                \cup (IF "empty" \in faults THEN {NoRelease} ELSE {})
  /\ tagged = IF latest.kind = "none" THEN {} ELSE {<<latest.kind, latest.version>>}
  /\ running = FirstVersion
  /\ ssid = "garden"
  /\ count = Blank
  /\ pc = IF "off" \in faults THEN "off" ELSE "boot"
  /\ image = NoRelease
  /\ attempts = 0
  /\ installs = [v \in Versions |-> 0]

(***************************************************************************)
(* The release workflows.                                                  *)
(***************************************************************************)

\* firmware-release.yml on a v* tag.
PublishGarden(v, built) ==
  /\ <<"garden", v>> \notin tagged
  /\ built = v \/ ("mislabel" \in faults /\ built < v)
  /\ tagged' = tagged \cup {<<"garden", v>>}
  /\ latest' = [kind |-> "garden", version |-> v, built |-> built, ssid |-> ReleaseSsid]
  /\ UNCHANGED <<faults, running, ssid, count, pc, image, attempts, installs>>

\* rover-firmware.yml on a rover-v* tag: a version.txt, and no garden-node.ota.
PublishRover(v, built) ==
  /\ "rover" \in faults
  /\ <<"rover", v>> \notin tagged
  /\ built = v \/ ("mislabel" \in faults /\ built < v)
  /\ tagged' = tagged \cup {<<"rover", v>>}
  /\ latest' = [kind |-> "rover", version |-> v, built |-> built, ssid |-> ReleaseSsid]
  /\ UNCHANGED <<faults, running, ssid, count, pc, image, attempts, installs>>

-----------------------------------------------------------------------------
(***************************************************************************)
(* otaCheckAndApply.                                                       *)
(***************************************************************************)

\* Mutant of Check: the counter is not looked at.
CheckAnyway ==
  /\ pc \in {"boot", "idle"}
  /\ pc' = "fetch"
  /\ UNCHANGED <<faults, latest, tagged, running, ssid, count, image, attempts, installs>>

\* The call from setup(), which does not ask whether WiFi is up, or from loop() once
\* the interval is over and WiFi is up.
Check ==
  /\ pc = "boot" \/ (pc = "idle" /\ Joins)
  /\ pc' = IF TooMany(count) THEN "idle" ELSE "fetch"
  /\ UNCHANGED <<faults, latest, tagged, running, ssid, count, image, attempts, installs>>

\* Mutant of Fail: an error path that does not count.
FailUncounted ==
  /\ pc' = "idle"
  /\ image' = NoRelease
  /\ UNCHANGED count

\* An error path: the failure is counted, and the sketch goes on.
Fail ==
  /\ count' = Incremented(count)
  /\ pc' = "idle"
  /\ image' = NoRelease

\* fetchString(OTA_VERSION_URL) and the comparison with FIRMWARE_VERSION.
VersionTexts ==
  {IF latest.kind = "none" THEN Page ELSE latest.version}
  \cup (IF "page" \in faults THEN {Page} ELSE {})

\* Mutant of Hear: any version text is taken for an update.
HearAlways ==
  /\ pc = "fetch"
  /\ Joins
  /\ \E text \in VersionTexts :
       /\ pc' = "begin"
       /\ attempts' = IF attempts < AttemptBound THEN attempts + 1 ELSE attempts
  /\ UNCHANGED <<faults, latest, tagged, running, ssid, count, image, installs>>

Hear ==
  /\ pc = "fetch"
  /\ Joins
  /\ \E text \in VersionTexts :
       IF text = running
       THEN pc' = "idle" /\ count' = 0 /\ attempts' = 0
       ELSE /\ pc' = "begin"
            /\ attempts' = IF attempts < AttemptBound THEN attempts + 1 ELSE attempts
            /\ UNCHANGED count
  /\ UNCHANGED <<faults, latest, tagged, running, ssid, image, installs>>

\* No answer: requests are lost, or there is no network to send one on.
HearNothing ==
  /\ pc = "fetch"
  /\ "network" \in faults \/ ~Joins
  /\ pc' = "idle"
  /\ UNCHANGED <<faults, latest, tagged, running, ssid, count, image, attempts, installs>>

\* ota.begin() and ota.setCACert().
Begin ==
  /\ pc = "begin"
  /\ \/ pc' = "download" /\ UNCHANGED <<count, image>>
     \/ "modem" \in faults /\ Fail
  /\ UNCHANGED <<faults, latest, tagged, running, ssid, attempts, installs>>

\* ota.download(OTA_BINARY_URL): of what is the latest release by now.
Download ==
  /\ pc = "download"
  /\ \/ latest.kind = "garden" /\ pc' = "verify" /\ image' = latest /\ UNCHANGED count
     \/ (latest.kind # "garden" \/ "network" \in faults) /\ Fail
  /\ UNCHANGED <<faults, latest, tagged, running, ssid, attempts, installs>>

\* ota.verify().
Verify ==
  /\ pc = "verify"
  /\ \/ pc' = "apply" /\ UNCHANGED <<count, image>>
     \/ "modem" \in faults /\ Fail
  /\ UNCHANGED <<faults, latest, tagged, running, ssid, attempts, installs>>

\* resetFailCount, before ota.update().
ResetCount ==
  /\ pc = "apply"
  /\ count' = 0
  /\ pc' = "update"
  /\ UNCHANGED <<faults, latest, tagged, running, ssid, image, attempts, installs>>

\* ota.update(): the node restarts in the new image, or the call returns.
Update ==
  /\ pc = "update"
  /\ \/ /\ running' = image.built
        /\ ssid' = image.ssid
        /\ pc' = "boot"
        /\ image' = NoRelease
        /\ attempts' = 0
        /\ installs' = [installs EXCEPT ![image.version] = IF @ < 2 THEN @ + 1 ELSE @]
        /\ UNCHANGED count
     \/ /\ "update" \in faults
        /\ Fail
        /\ UNCHANGED <<running, ssid, attempts, installs>>
  /\ UNCHANGED channel

NodeStep == Check \/ Hear \/ HearNothing \/ Begin \/ Download \/ Verify \/ ResetCount \/ Update

\* Power fails and comes back: RAM is lost, the EEPROM byte and the image stay.
PowerCycle ==
  /\ "power" \in faults
  /\ pc # "off"
  /\ pc' = "boot"
  /\ image' = NoRelease
  /\ UNCHANGED <<faults, latest, tagged, running, ssid, count, attempts, installs>>

\* A USB flash of a binary of one's own: fresh flash, and a blank counter with it.
Reflash(v) ==
  /\ "reflash" \in faults
  /\ pc # "off"
  /\ running' = v
  /\ ssid' = "garden"
  /\ count' = Blank
  /\ pc' = "boot"
  /\ image' = NoRelease
  /\ attempts' = 0
  /\ installs' = [w \in Versions |-> 0]
  /\ UNCHANGED channel

Next ==
  \/ \E v \in GardenTags, built \in Versions : PublishGarden(v, built)
  \/ \E v \in RoverTags, built \in Versions : PublishRover(v, built)
  \/ NodeStep
  \/ PowerCycle
  \/ \E v \in Versions : Reflash(v)

Spec == Init /\ [][Next]_vars

\* The loop polls for ever and every call of the library returns; of the version
\* requests, not all are lost.
Fairness == WF_vars(NodeStep) /\ SF_vars(Hear)

FairSpec == Spec /\ Fairness

-----------------------------------------------------------------------------
(***************************************************************************)
(* Properties.                                                             *)
(***************************************************************************)

InAttempt == {"begin", "download", "verify", "apply", "update"}
Locked == TooMany(count)

\* The types; the counter never passes the limit, so never gets near the byte
\* that means zero.
TypeOK ==
  /\ faults \in FaultSets
  /\ latest \in Releases
  /\ tagged \subseteq {"garden", "rover"} \X Versions
  /\ running \in Versions
  /\ ssid \in Networks
  /\ count \in 0 .. MaxFailures \cup {Blank}
  /\ pc \in {"off", "boot", "idle", "fetch"} \cup InAttempt
  /\ image \in Releases
  /\ attempts \in Nat
  /\ installs \in [Versions -> Nat]

\* An update() that returns and a power failure leave an update uncounted, after
\* ResetCount (ota.cpp:167-172).
Uncounted == {"update", "power"}

\* While neither happens, no more than OTA_MAX_FAILURES updates are begun in a row
\* without one that ends well: the counter breaks every retry loop.
AttemptsBounded == faults \cap Uncounted = {} => attempts <= MaxFailures

\* What a check under way rests on: it was begun below the limit, and what it
\* verifies and applies is an image for this node.
CheckInv ==
  /\ pc \in InAttempt \cup {"fetch"} => ~Locked
  /\ pc \in {"verify", "apply", "update"} => image.kind = "garden"

\* Why the attempts are bounded: the counter has every update that was begun, but
\* the one under way.
AttemptsAreCounted ==
  faults \cap Uncounted = {} =>
  /\ attempts <= MaxFailures
  /\ pc # "update" => attempts <= FailCount(count) + (IF pc \in InAttempt THEN 1 ELSE 0)

\* Why a release is installed once: a garden release that was installed and is still the
\* latest is what runs, so that no update is begun for it; one that is no longer the
\* latest never is again, as its tag is taken.
InstalledIsRunning ==
  faults \cap {"mislabel", "page"} = {} =>
  /\ \A v \in Versions : installs[v] > 0 => <<"garden", v>> \in tagged
  /\ latest.kind = "garden" =>
       /\ latest.built = latest.version
       /\ <<"garden", latest.version>> \in tagged
       /\ installs[latest.version] > 0 => running = latest.version /\ pc \notin InAttempt
  /\ pc \in {"verify", "apply", "update"} =>
       /\ image.built = image.version
       /\ <<"garden", image.version>> \in tagged
       /\ installs[image.version] = 0

\* And with the workflows' own builds: once one is installed, the node hears no more.
SilentAfterOne ==
  "own" \notin faults =>
  /\ image.kind = "garden" => image.ssid = "ci"
  /\ latest.ssid = "ci"
  /\ \A v \in Versions : installs[v] <= 1
  /\ (\E v \in Versions : installs[v] > 0) => ~Joins
  /\ ~Joins => pc \notin InAttempt

\* A node that has given up stays so until it is flashed over USB, whatever is
\* released, fails or loses power.
LockoutHolds == [][Locked => count' = count \/ count' = Blank]_vars

\* No node goes round flashing what it runs, also when releases come between its two
\* requests (ota.cpp:131, 153): a release is installed once.  What ends the round is
\* that version.txt tells what is in the binary, and no error page is taken for it; or
\* that the binary is one of the workflows', which hears of nothing any more.
EachReleaseOnce ==
  "own" \notin faults \/ faults \cap {"mislabel", "page"} = {} => \A v \in Versions : installs[v] <= 1

\* Faults of the network and the modem, and releases of the rover.
Passing == {"network", "page", "modem", "rover", "empty"}

\* With those, once releases end with one for the garden node, the node runs it, or runs
\* a binary of the workflows, which joins no network; and it has only given up where
\* there was a fault to count, so that a node that meets none does not stay with what
\* was flashed (ota.cpp:117-173).
ArrivesOrLocks ==
  faults \subseteq Passing \cup {"own"} =>
    (<>[](latest.kind = "garden") =>
       <>[](running = latest.version \/ ~Joins \/ (Locked /\ faults \cap Passing # {})))

\* What the design promises (2026-06-03-ota-firmware-design.md:9-11): with nothing but
\* releases, of the rover too, once they end with one for the garden node, the node
\* runs it.  The channel shared with the rover breaks that, and the dummy credentials
\* of the workflow do.
ReleaseArrives ==
  faults \subseteq {"rover"} =>
    (<>[](latest.kind = "garden") => <>[](running = latest.version))
=============================================================================
