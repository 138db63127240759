------------------------ MODULE ReleaseBoards_proofs ------------------------
(***************************************************************************)
(* Invariance proofs for GardenOta, and, in the second part, for the       *)
(* composition of the garden node with the rover: what each board keeps    *)
(* whatever is released, for all versions, tags and faults.                *)
(***************************************************************************)
EXTENDS ReleaseBoards, TLAPS

Counts == 0 .. MaxFailures \cup {Blank}

\* A count met in the middle of a check is below the limit, so one more does not
\* pass it, and does not come near the byte that means zero.
LEMMA CountsStay ==
  /\ \A byte \in Counts :
       /\ FailCount(byte) \in 0 .. MaxFailures
       /\ ~TooMany(byte) => /\ Incremented(byte) \in 1 .. MaxFailures
                            /\ FailCount(Incremented(byte)) = FailCount(byte) + 1
  /\ 0 \in Counts /\ Blank \in Counts
  /\ FailCount(0) = 0 /\ FailCount(Blank) = 0
  /\ ~TooMany(0) /\ ~TooMany(Blank)
  BY LimitsAssumption DEF Counts, FailCount, Incremented, TooMany, Blank

\* What a garden release holds.
LEMMA GardenReleases ==
  ASSUME NEW r \in Releases, r.kind = "garden"
  PROVE  r.version \in Versions /\ r.built \in Versions /\ r.ssid \in Networks
  BY DEF Releases, NoRelease

-----------------------------------------------------------------------------
(***************************************************************************)
(* The inductive invariant: the types, and what a check under way rests    *)
(* on.  Without the second part a failure could be counted past the limit. *)
(***************************************************************************)
LEMMA InitInv == Init => TypeOK /\ CheckInv
  <1> SUFFICES ASSUME Init PROVE TypeOK /\ CheckInv
    OBVIOUS
  <1>1. NoRelease \in Releases /\ latest \in Releases
    BY VersionsAssumption DEF Init, Releases
  <1>2. tagged \subseteq {"garden", "rover"} \X Versions
    BY <1>1 DEF Init, Releases, NoRelease
  <1>3. CheckInv
    BY DEF Init, CheckInv, InAttempt
  <1> QED BY <1>1, <1>2, <1>3, VersionsAssumption, CountsStay DEF Init, TypeOK, Counts, Networks

LEMMA InvStep == TypeOK /\ CheckInv /\ [Next]_vars => TypeOK' /\ CheckInv'
  <1> SUFFICES ASSUME TypeOK, CheckInv, [Next]_vars
               PROVE  TypeOK' /\ CheckInv'
    OBVIOUS
  <1> USE DEF TypeOK, CheckInv, Locked, InAttempt
  <1>0. /\ NoRelease \in Releases
        /\ count \in Counts
        /\ Counts = 0 .. MaxFailures \cup {Blank}
    BY DEF Releases, Counts
  <1>1. ASSUME NEW v \in GardenTags, NEW built \in Versions, PublishGarden(v, built)
        PROVE  TypeOK' /\ CheckInv'
    <2>1. v \in Versions
      BY VersionsAssumption
    <2>2. latest' \in Releases
      BY <1>1, <2>1 DEF PublishGarden, Releases, ReleaseSsid, Networks
    <2> QED BY <1>1, <2>1, <2>2 DEF PublishGarden
  <1>2. ASSUME NEW v \in RoverTags, NEW built \in Versions, PublishRover(v, built)
        PROVE  TypeOK' /\ CheckInv'
    <2>1. v \in Versions
      BY VersionsAssumption
    <2>2. latest' \in Releases
      BY <1>2, <2>1 DEF PublishRover, Releases, ReleaseSsid, Networks
    <2> QED BY <1>2, <2>1, <2>2 DEF PublishRover
  <1>3. CASE Check
    BY <1>3 DEF Check
  <1>4. CASE Hear
    <2>1. attempts' \in Nat /\ count' \in {count, 0} /\ pc' \in {"idle", "begin"}
      BY <1>4 DEF Hear
    <2>2. pc' = "begin" => count' = count
      BY <1>4 DEF Hear
    <2> QED BY <1>0, <1>4, <2>1, <2>2, CountsStay DEF Hear
  <1>5. CASE HearNothing
    BY <1>5 DEF HearNothing
  <1>6. ASSUME Fail, pc \in InAttempt, UNCHANGED <<faults, latest, tagged, running, ssid, attempts, installs>>
        PROVE  TypeOK' /\ CheckInv'
    <2>1. count' \in 0 .. MaxFailures
      BY <1>0, <1>6, CountsStay DEF Fail
    <2> QED BY <1>0, <1>6, <2>1 DEF Fail
  <1>7. CASE Begin
    BY <1>6, <1>7 DEF Begin
  <1>8. CASE Download
    <2>1. CASE pc' = "verify"
      BY <1>8, <2>1 DEF Download, Fail
    <2>2. CASE Fail
      BY <1>6, <1>8, <2>2 DEF Download
    <2> QED BY <1>8, <2>1, <2>2 DEF Download
  <1>9. CASE Verify
    BY <1>6, <1>9 DEF Verify
  <1>10. CASE ResetCount
    BY <1>0, <1>10, CountsStay DEF ResetCount
  <1>11. CASE Update
    <2>1. CASE Fail /\ UNCHANGED <<running, ssid, attempts, installs>>
      BY <1>6, <1>11, <2>1 DEF Update, channel
    <2>2. CASE running' = image.built /\ pc' = "boot"
      <3>1. image.built \in Versions /\ image.ssid \in Networks
        BY <1>11, GardenReleases DEF Update
      <3>2. installs' \in [Versions -> Nat]
        BY <1>11, <2>2 DEF Update, Fail
      <3> QED BY <1>0, <1>11, <2>2, <3>1, <3>2 DEF Update, Fail, channel
    <2> QED BY <1>11, <2>1, <2>2 DEF Update
  <1>12. CASE PowerCycle
    BY <1>0, <1>12 DEF PowerCycle
  <1>13. ASSUME NEW v \in Versions, Reflash(v)
         PROVE  TypeOK' /\ CheckInv'
    BY <1>0, <1>13, CountsStay DEF Reflash, channel, Networks
  <1>14. CASE UNCHANGED vars
    BY <1>14 DEF vars
  <1> QED BY <1>1, <1>2, <1>3, <1>4, <1>5, <1>7, <1>8, <1>9, <1>10, <1>11, <1>12, <1>13, <1>14
      DEF Next, NodeStep

\* The types hold, and a check only goes on while fewer than OTA_MAX_FAILURES
\* failures are counted.
THEOREM TypeCorrect == Spec => [](TypeOK /\ CheckInv)
  <1>1. TypeOK /\ CheckInv /\ [Next]_vars => (TypeOK /\ CheckInv)'
    BY InvStep
  <1> QED BY <1>1, InitInv, PTL DEF Spec

-----------------------------------------------------------------------------
\* The lockout: no release, failure or power cut changes the count of a node that
\* has given up; only a USB flash blanks it.
THEOREM LockoutIsFinal == Spec => LockoutHolds
  <1>1. TypeOK /\ CheckInv /\ [Next]_vars => (Locked => count' = count \/ count' = Blank)
    <2> SUFFICES ASSUME CheckInv, [Next]_vars, Locked
                 PROVE  count' = count \/ count' = Blank
      OBVIOUS
    <2>1. pc \notin InAttempt \cup {"fetch"}
      BY DEF CheckInv
    <2> QED BY <2>1 DEF Next, NodeStep, vars, InAttempt, PublishGarden, PublishRover, Check, Hear,
            HearNothing, Begin, Download, Verify, ResetCount, Update, PowerCycle, Reflash
  <1> QED BY <1>1, TypeCorrect, PTL DEF Spec, LockoutHolds

-----------------------------------------------------------------------------
(***************************************************************************)
(* The attempts.                                                           *)
(***************************************************************************)
LEMMA FaultsStay == [Next]_vars => faults' = faults
  BY DEF Next, NodeStep, vars, channel, PublishGarden, PublishRover, Check, Hear, HearNothing,
         Begin, Download, Verify, ResetCount, Update, PowerCycle, Reflash

LEMMA CountStep ==
  TypeOK /\ TypeOK' /\ CheckInv /\ AttemptsAreCounted /\ [Next]_vars => AttemptsAreCounted'
  <1> SUFFICES ASSUME TypeOK, TypeOK', CheckInv, AttemptsAreCounted, [Next]_vars,
                      faults \cap Uncounted = {}
               PROVE  AttemptsAreCounted'
    BY FaultsStay DEF AttemptsAreCounted
  <1> USE DEF AttemptsAreCounted, InAttempt, Uncounted
  <1>0. /\ count \in Counts /\ count' \in Counts
        /\ FailCount(count) \in 0 .. MaxFailures /\ FailCount(count') \in 0 .. MaxFailures
        /\ attempts \in Nat /\ MaxFailures \in Nat
    BY CountsStay, LimitsAssumption DEF TypeOK, Counts
  <1>1. CASE UNCHANGED <<count, attempts, pc>>
    BY <1>1
  <1>2. CASE Check \/ HearNothing
    BY <1>0, <1>2 DEF Check, HearNothing
  <1>3. CASE Hear
    <2>1. CASE attempts' = 0
      BY <1>0, <2>1
    <2>2. CASE pc' = "begin" /\ count' = count /\ attempts' \in {attempts, attempts + 1}
      <3>1. FailCount(count) + 1 <= MaxFailures /\ pc = "fetch"
        BY <1>0, <1>3, <2>2 DEF Hear, CheckInv, Locked, TooMany
      <3> QED BY <1>0, <2>2, <3>1
    <2> QED BY <1>3, <2>1, <2>2 DEF Hear
  <1>4. ASSUME Fail, pc \in InAttempt \ {"update"}, attempts' = attempts
        PROVE  AttemptsAreCounted'
    <2>1. ~TooMany(count) /\ count' = Incremented(count) /\ pc' = "idle"
      BY <1>4 DEF CheckInv, Locked, Fail
    <2>2. FailCount(count') = FailCount(count) + 1
      BY <1>0, <2>1, CountsStay
    <2> QED BY <1>0, <1>4, <2>1, <2>2
  <1>5. CASE Begin \/ Download \/ Verify
    <2>1. CASE Fail
      BY <1>4, <1>5, <2>1 DEF Begin, Download, Verify
    <2>2. CASE UNCHANGED <<count, attempts>> /\ pc \in InAttempt \ {"update"} /\ pc' \in InAttempt
      BY <1>0, <2>2
    <2> QED BY <1>5, <2>1, <2>2 DEF Begin, Download, Verify
  <1>6. CASE ResetCount
    BY <1>6 DEF ResetCount
  <1>7. CASE Update
    BY <1>0, <1>7 DEF Update
  <1>8. ASSUME NEW v \in Versions, Reflash(v)
        PROVE  AttemptsAreCounted'
    BY <1>0, <1>8 DEF Reflash
  <1>9. ~PowerCycle
    BY DEF PowerCycle
  <1> QED BY <1>1, <1>2, <1>3, <1>5, <1>6, <1>7, <1>8, <1>9
      DEF Next, NodeStep, vars, PublishGarden, PublishRover

\* While update() never returns and power never fails, at most OTA_MAX_FAILURES
\* updates are begun in a row without one that ends well.
THEOREM RetriesAreBounded == Spec => []AttemptsBounded
  <1>1. Init => AttemptsAreCounted
    BY LimitsAssumption, CountsStay DEF Init, AttemptsAreCounted, InAttempt
  <1>2. AttemptsAreCounted => AttemptsBounded
    BY DEF AttemptsAreCounted, AttemptsBounded
  <1>3. TypeOK /\ CheckInv /\ AttemptsAreCounted /\ [Next]_vars => AttemptsAreCounted'
    BY InvStep, CountStep
  <1> QED BY <1>1, <1>2, <1>3, TypeCorrect, PTL DEF Spec

-----------------------------------------------------------------------------
(***************************************************************************)
(* The installations.                                                      *)
(***************************************************************************)
OnceEach == faults \cap {"mislabel", "page"} = {} => \A v \in Versions : installs[v] <= 1

LEMMA InstallStep ==
  TypeOK /\ CheckInv /\ InstalledIsRunning /\ OnceEach /\ [Next]_vars
    => InstalledIsRunning' /\ OnceEach'
  <1> SUFFICES ASSUME TypeOK, CheckInv, InstalledIsRunning, OnceEach, [Next]_vars,
                      faults \cap {"mislabel", "page"} = {}
               PROVE  InstalledIsRunning' /\ OnceEach'
    BY FaultsStay DEF InstalledIsRunning, OnceEach
  <1> USE DEF TypeOK, InstalledIsRunning, OnceEach, InAttempt
  <1>0. /\ image.kind = "garden" => image.version \in Versions
        /\ latest.kind = "garden" => latest.version \in Versions
        /\ \A v \in Versions : installs[v] \in Nat
    BY GardenReleases
  <1>1. ASSUME NEW v \in GardenTags, NEW built \in Versions, PublishGarden(v, built)
        PROVE  InstalledIsRunning' /\ OnceEach'
    <2>1. v \in Versions /\ installs[v] = 0
      BY <1>0, <1>1, VersionsAssumption DEF PublishGarden
    <2>2. latest'.kind = "garden" /\ latest'.version = v /\ latest'.built = v
      BY <1>1 DEF PublishGarden
    <2> QED BY <1>0, <1>1, <2>1, <2>2 DEF PublishGarden
  <1>2. ASSUME NEW v \in RoverTags, NEW built \in Versions, PublishRover(v, built)
        PROVE  InstalledIsRunning' /\ OnceEach'
    <2>1. latest'.kind = "rover"
      BY <1>2 DEF PublishRover
    <2> QED BY <1>2, <2>1 DEF PublishRover
  <1>3. CASE Check \/ HearNothing \/ PowerCycle
    BY <1>3 DEF Check, HearNothing, PowerCycle
  <1>4. CASE Hear
    <2>1. CASE pc' = "idle"
      BY <1>4, <2>1 DEF Hear
    <2>2. CASE pc' = "begin"
      <3>1. latest.kind = "garden" => running # latest.version
        BY <1>4, <2>2 DEF Hear, VersionTexts
      <3> QED BY <1>0, <1>4, <2>2, <3>1 DEF Hear
    <2> QED BY <1>4, <2>1, <2>2 DEF Hear
  <1>5. CASE Begin \/ Verify \/ ResetCount
    BY <1>5 DEF Begin, Verify, ResetCount, Fail
  <1>6. CASE Download
    <2>1. CASE pc' = "verify"
      BY <1>0, <1>6, <2>1 DEF Download, Fail
    <2>2. CASE pc' = "idle"
      BY <1>6, <2>2 DEF Download, Fail
    <2> QED BY <1>6, <2>1, <2>2 DEF Download, Fail
  <1>7. CASE Update
    <2>1. CASE Fail /\ UNCHANGED <<running, ssid, attempts, installs>>
      BY <1>7, <2>1 DEF Update, channel, Fail
    <2>2. CASE running' = image.built /\ pc' = "boot"
      <3>1. /\ image.version \in Versions
            /\ image.built = image.version
            /\ installs[image.version] = 0
            /\ <<"garden", image.version>> \in tagged
        BY <1>0, <1>7 DEF Update, CheckInv
      <3>2. installs' = [installs EXCEPT ![image.version] = 1]
        BY <1>7, <2>2, <3>1 DEF Update, Fail
      <3>3. latest.kind = "garden" => installs[latest.version] = 0
        BY <1>0, <1>7 DEF Update
      <3> QED BY <1>0, <1>7, <2>2, <3>1, <3>2, <3>3 DEF Update, channel
    <2> QED BY <1>7, <2>1, <2>2 DEF Update
  <1>8. ASSUME NEW v \in Versions, Reflash(v)
        PROVE  InstalledIsRunning' /\ OnceEach'
    BY <1>0, <1>8 DEF Reflash, channel
  <1>9. CASE UNCHANGED vars
    BY <1>9 DEF vars
  <1> QED BY <1>1, <1>2, <1>3, <1>4, <1>5, <1>6, <1>7, <1>8, <1>9 DEF Next, NodeStep

(***************************************************************************)
(* With the binaries of the workflows: the one that is installed joins no  *)
(* network, so that no update is begun again.                              *)
(***************************************************************************)
LEMMA SilentStep == TypeOK /\ CheckInv /\ SilentAfterOne /\ [Next]_vars => SilentAfterOne'
  <1> SUFFICES ASSUME TypeOK, CheckInv, SilentAfterOne, [Next]_vars, "own" \notin faults
               PROVE  SilentAfterOne'
    BY FaultsStay DEF SilentAfterOne
  <1> USE DEF TypeOK, SilentAfterOne, InAttempt, Joins
  <1>0. /\ image.kind = "garden" => image.version \in Versions
        /\ \A v \in Versions : installs[v] \in Nat
    BY GardenReleases
  <1>1. ASSUME NEW v \in Versions, NEW built \in Versions, PublishGarden(v, built) \/ PublishRover(v, built)
        PROVE  SilentAfterOne'
    <2>1. latest'.ssid = "ci"
      BY <1>1 DEF PublishGarden, PublishRover, ReleaseSsid
    <2> QED BY <1>1, <2>1 DEF PublishGarden, PublishRover
  <1>2. CASE Check \/ HearNothing \/ PowerCycle
    BY <1>2 DEF Check, HearNothing, PowerCycle, NoRelease
  <1>3. CASE Hear
    BY <1>3 DEF Hear
  <1>4. CASE Begin \/ Download \/ Verify \/ ResetCount
    BY <1>4 DEF Begin, Download, Verify, ResetCount, Fail, NoRelease
  <1>5. CASE Update
    <2>1. CASE Fail /\ UNCHANGED <<running, ssid, attempts, installs>>
      BY <1>5, <2>1 DEF Update, channel, Fail, NoRelease
    <2>2. CASE running' = image.built /\ pc' = "boot"
      <3>1. /\ image.version \in Versions
            /\ image.ssid = "ci"
            /\ \A v \in Versions : installs[v] = 0
        BY <1>0, <1>5 DEF Update, CheckInv
      <3>2. ssid' = "ci" /\ image' = NoRelease /\ installs' = [installs EXCEPT ![image.version] = 1]
        BY <1>5, <2>2, <3>1 DEF Update, Fail
      <3> QED BY <1>5, <2>2, <3>1, <3>2 DEF Update, channel, NoRelease
    <2> QED BY <1>5, <2>1, <2>2 DEF Update
  <1>6. ASSUME NEW v \in Versions, Reflash(v)
        PROVE  SilentAfterOne'
    BY <1>6 DEF Reflash, channel, NoRelease
  <1>7. CASE UNCHANGED vars
    BY <1>7 DEF vars
  <1> QED BY <1>1, <1>2, <1>3, <1>4, <1>5, <1>6, <1>7, VersionsAssumption DEF Next, NodeStep

\* No node goes round flashing what it runs, whatever is released between its two
\* requests, fails or loses power (ota.cpp:131, 153): because version.txt tells what is
\* in the binary, or because the binary is one of the workflows' and hears no more.
THEOREM ReleasesAreInstalledOnce == Spec => []EachReleaseOnce
  <1>1. Init => InstalledIsRunning /\ OnceEach /\ SilentAfterOne
    <2> SUFFICES ASSUME Init PROVE InstalledIsRunning /\ OnceEach /\ SilentAfterOne
      OBVIOUS
    <2>1. latest.kind = "garden" => latest \in Existing
      BY DEF Init, NoRelease
    <2>2. latest.kind = "garden" => latest.version \in Versions
      BY <2>1, GardenReleases, VersionsAssumption
    <2>3. SilentAfterOne
      BY DEF Init, SilentAfterOne, InAttempt, NoRelease, ReleaseSsid, Joins
    <2> QED BY <2>1, <2>2, <2>3 DEF Init, InstalledIsRunning, OnceEach, InAttempt, NoRelease
  <1>2. TypeOK /\ CheckInv /\ InstalledIsRunning /\ OnceEach /\ [Next]_vars
          => (InstalledIsRunning /\ OnceEach)'
    BY InstallStep
  <1>3. OnceEach /\ SilentAfterOne => EachReleaseOnce
    BY DEF OnceEach, SilentAfterOne, EachReleaseOnce
  <1> QED BY <1>1, <1>2, <1>3, SilentStep, TypeCorrect, PTL DEF Spec

-----------------------------------------------------------------------------
(***************************************************************************)
(* The two boards.                                                         *)
(***************************************************************************)
(***************************************************************************)
(* What the partitions rest on: only the second partition is ever on       *)
(* trial, and nothing is written while it is; and, in HoldsItsReleases,    *)
(* what is written there is a release of the rover's or no image.          *)
(***************************************************************************)
SelectionInv ==
  /\ slot = IF state = "sure" THEN 0 ELSE 1
  /\ roverPc # "reset" => state # "new"
  /\ roverPc \in {"write", "complete"} => state = "sure"

BoardsInv == Rover!TypeOK /\ Rover!AlwaysBootable /\ SelectionInv

-----------------------------------------------------------------------------
\* The composition shows of the garden node a behaviour of GardenOta: the rover only
\* reads the release channel (ota.cpp:114-173, ota.rs:39-64).
THEOREM GardenIsItself == BoardsSpec => Spec
  <1>1. BoardsInit => Init
    BY DEF BoardsInit
  <1>2. [BoardsNext]_<<vars, roverVars>> => [Next]_vars
    BY DEF BoardsNext
  <1> QED BY <1>1, <1>2, PTL DEF BoardsSpec, Spec

\* So what is proved of the garden node alone it keeps beside a rover, to whose workflow
\* it may lose the latest release at any point (firmware-release.yml:18-121,
\* rover-firmware.yml:58-68).
THEOREM GardenKeepsItsPromises ==
  BoardsSpec => []TypeOK /\ []AttemptsBounded /\ []EachReleaseOnce /\ LockoutHolds
  BY GardenIsItself, TypeCorrect, RetriesAreBounded, ReleasesAreInstalledOnce, LockoutIsFinal, PTL

-----------------------------------------------------------------------------
LEMMA BoardsInitInv == BoardsInit => BoardsInv /\ HoldsItsReleases
  <1> SUFFICES ASSUME BoardsInit PROVE BoardsInv /\ HoldsItsReleases
    OBVIOUS
  <1>1. roverFaults \in {pair[2] : pair \in Environments}
    BY DEF BoardsInit
  <1>2. BoardsInv
    BY <1>1, RoverAssumption
       DEF BoardsInit, BoardsInv, SelectionInv, Rover!Sound, Rover!Init, Rover!TypeOK,
           Rover!AlwaysBootable, Rover!Slots, Rover!Spare, Rover!Running, Rover!Broken,
           Rover!Nothing, Rover!Images, Rover!NoImage, Rover!UsbImage
  <1>3. HoldsItsReleases
    <2>1. bin.version = Rover!Broken /\ flash[1].version = Rover!Broken
      BY DEF BoardsInit, Rover!Init, Rover!Slots, Rover!NoImage
    <2>2. "mislabel" \notin faults /\ latest.kind = "rover" => latest.built \in Rovers
      <3> SUFFICES ASSUME "mislabel" \notin faults, latest.kind = "rover" PROVE latest.built \in Rovers
        OBVIOUS
      <3>1. latest \in Existing /\ latest.built = latest.version /\ tagged = {<<"rover", latest.version>>}
        BY DEF BoardsInit, Init, NoRelease
      <3>2. latest.built \in Versions
        BY <3>1, VersionsAssumption DEF Releases, NoRelease
      <3> QED BY <3>1, <3>2 DEF Rovers
    <2> QED BY <2>1, <2>2 DEF HoldsItsReleases
  <1> QED BY <1>2, <1>3

(***************************************************************************)
(* One step of the proof for each action of the rover; a step of the       *)
(* garden node, or a release, leaves the rover as it is.                   *)
(***************************************************************************)
LEMMA RoverStep ==
  ASSUME BoardsInv, latest \in Releases, Rover!Step
  PROVE  BoardsInv'
  <1> USE RoverAssumption
      DEF BoardsInv, SelectionInv, Rover!Sound, Rover!TypeOK, Rover!AlwaysBootable,
          Rover!Slots, Rover!Spare, Rover!Running, Rover!Broken, Rover!Nothing, Rover!Page,
          Rover!Images, Rover!NoImage, Rover!UsbImage, Rover!partitions, Rover!ToIdle
  <1>1. CASE Rover!Boot
    BY <1>1 DEF Rover!Boot
  <1>2. CASE Rover!Connect
    BY <1>2 DEF Rover!Connect
  <1>3. CASE Rover!Ask
    BY <1>3 DEF Rover!Ask, Rover!Newer
  <1>4. CASE Rover!FetchBinary
    BY <1>4 DEF Rover!FetchBinary, Rover!Binary
  <1>5. CASE Rover!InitiateUpdate
    BY <1>5 DEF Rover!InitiateUpdate
  <1>6. CASE Rover!WriteImage
    BY <1>6 DEF Rover!WriteImage
  <1>7. CASE Rover!Complete
    BY <1>7 DEF Rover!Complete
  <1>8. CASE Rover!PowerCut
    BY <1>8 DEF Rover!PowerCut
  <1> QED
    BY <1>1, <1>2, <1>3, <1>4, <1>5, <1>6, <1>7, <1>8 DEF Rover!Step, Rover!Update

LEMMA BoardsStepInv ==
  BoardsInv /\ TypeOK /\ TypeOK' /\ [BoardsNext]_<<vars, roverVars>> => BoardsInv'
  <1> SUFFICES ASSUME BoardsInv, TypeOK, TypeOK', [BoardsNext]_<<vars, roverVars>>
               PROVE  BoardsInv'
    OBVIOUS
  <1>1. CASE Rover!Step
    BY <1>1, RoverStep DEF TypeOK
  <1>2. CASE UNCHANGED roverVars
    BY <1>2 DEF TypeOK, roverVars, BoardsInv, SelectionInv, Rover!TypeOK, Rover!AlwaysBootable,
       Rover!Slots, Rover!Spare, Rover!Running
  <1> QED BY <1>1, <1>2 DEF BoardsNext

\* The workflows tag what they publish, and a tag stays; the rover writes what it has
\* downloaded, and downloads from a rover release or nothing.
LEMMA HoldingStep ==
  BoardsInv /\ TypeOK' /\ HoldsItsReleases /\ [BoardsNext]_<<vars, roverVars>>
    => HoldsItsReleases'
  <1> SUFFICES ASSUME BoardsInv, TypeOK', HoldsItsReleases, [BoardsNext]_<<vars, roverVars>>,
                      "mislabel" \notin faults
               PROVE  HoldsItsReleases'
    BY FaultsStay DEF BoardsNext, Rover!Step, HoldsItsReleases, vars
  <1> USE DEF HoldsItsReleases, Rovers, Rover!Broken, Rover!NoImage
  <1>1. CASE Next /\ UNCHANGED roverVars
    <2>1. tagged \subseteq tagged'
      BY <1>1 DEF Next, NodeStep, channel, PublishGarden, PublishRover, Check, Hear, HearNothing,
         Begin, Download, Verify, ResetCount, Update, PowerCycle, Reflash
    <2>2. latest'.kind = "rover" => latest' = latest \/ <<"rover", latest'.built>> \in tagged'
      <3>1. ASSUME NEW v, NEW built, PublishRover(v, built)
            PROVE  <<"rover", latest'.built>> \in tagged'
        BY <3>1 DEF PublishRover
      <3>2. ASSUME NEW v, NEW built, PublishGarden(v, built)
            PROVE  latest'.kind # "rover"
        BY <3>2 DEF PublishGarden
      <3>3. CASE UNCHANGED latest
        BY <3>3
      <3> QED
        BY <1>1, <3>1, <3>2, <3>3 DEF Next, NodeStep, channel, Check, Hear, HearNothing, Begin,
           Download, Verify, ResetCount, Update, PowerCycle, Reflash
    <2>3. latest'.kind = "rover" => latest'.built \in Versions
      BY DEF TypeOK, Releases, NoRelease
    <2> QED BY <1>1, <2>1, <2>2, <2>3 DEF roverVars
  <1>2. CASE Rover!Step /\ UNCHANGED vars
    <2>1. CASE Rover!FetchBinary
      BY <1>2, <2>1 DEF vars, Rover!FetchBinary, Rover!Binary, Rover!partitions, Rover!ToIdle
    <2>2. CASE Rover!InitiateUpdate \/ Rover!WriteImage
      <3>1. Rover!Spare \in {0, 1} /\ DOMAIN flash = {0, 1}
        BY DEF BoardsInv, SelectionInv, Rover!Spare, Rover!TypeOK, Rover!Slots
      <3>2. flash' = flash \/ \E i \in {Rover!NoImage, bin} : flash' = [flash EXCEPT ![Rover!Spare] = i]
        BY <2>2 DEF Rover!InitiateUpdate, Rover!WriteImage
      <3>3. bin' \in {bin, Rover!NoImage}
        BY <2>2 DEF Rover!InitiateUpdate, Rover!WriteImage, Rover!ToIdle
      <3> QED BY <1>2, <3>1, <3>2, <3>3 DEF vars
    <2>3. CASE Rover!Boot \/ Rover!Connect \/ Rover!Ask \/ Rover!Complete \/ Rover!PowerCut
      BY <1>2, <2>3 DEF vars, Rover!Boot, Rover!Connect, Rover!Ask, Rover!Complete, Rover!PowerCut,
         Rover!partitions
    <2> QED BY <1>2, <2>1, <2>2, <2>3 DEF Rover!Step, Rover!Update
  <1>3. CASE UNCHANGED <<vars, roverVars>>
    BY <1>3 DEF vars, roverVars
  <1> QED BY <1>1, <1>2, <1>3 DEF BoardsNext

-----------------------------------------------------------------------------
\* The invariant of both, from which both theorems follow.
LEMMA BoardsCorrect == BoardsSpec => [](BoardsInv /\ HoldsItsReleases)
  BY BoardsInitInv, BoardsStepInv, HoldingStep, GardenKeepsItsPromises, PTL DEF BoardsSpec

\* Wherever power is cut and whatever is released, the rover's boot loader finds a
\* whole image where it looks, with one behind it while that is on trial
\* (ota.rs:57-62): only the second partition is ever written.
THEOREM RoverAlwaysBoots == BoardsSpec => []AlwaysBootable
  <1>1. BoardsInv => AlwaysBootable
    BY DEF BoardsInv, AlwaysBootable
  <1> QED BY <1>1, BoardsCorrect, PTL

\* While a tag tells what was built, the rover runs what was flashed over USB or a release
\* of its own workflow, whatever either workflow publishes between its two requests and
\* wherever power is cut (ota.rs:39-63).
THEOREM RoverRunsItsReleases == BoardsSpec => []RunsItsReleases
  <1>1. BoardsInv /\ HoldsItsReleases => RunsItsReleases
    BY DEF BoardsInv, SelectionInv, HoldsItsReleases, RunsItsReleases, Rovers,
       Rover!AlwaysBootable, Rover!Running
  <1> QED BY <1>1, BoardsCorrect, PTL

\* What the composition shows of the rover is a behaviour of the rover's own module:
\* the garden node reaches it by what is released, and by nothing else.
THEOREM RoverIsItself == BoardsSpec => RoverAlone
  <1>1. BoardsInit => Rover!Init
    BY DEF BoardsInit
  <1>2. TypeOK' /\ [BoardsNext]_<<vars, roverVars>> => [Rover!Next]_(Rover!vars)
    <2> SUFFICES ASSUME TypeOK', [BoardsNext]_<<vars, roverVars>>
                 PROVE  [Rover!Next]_(Rover!vars)
      OBVIOUS
    <2>1. CASE Rover!Step
      BY <2>1 DEF Rover!Next
    <2>2. CASE Next /\ UNCHANGED roverVars
      BY <2>2 DEF TypeOK, roverVars, Rover!Next, Rover!Release, Rover!partitions
    <2>3. CASE UNCHANGED <<vars, roverVars>>
      BY <2>3 DEF vars, channel, roverVars, Rover!vars
    <2> QED BY <2>1, <2>2, <2>3 DEF BoardsNext
  <1> QED BY <1>1, <1>2, GardenKeepsItsPromises, PTL DEF BoardsSpec, RoverAlone, Rover!Spec
=============================================================================
