# gardencontroller: TLA+ models, checks and proofs

The repository waters a garden from sensor readings. This directory holds TLA+
modules for the parts whose correctness depends on order, failure or time, the
TLC configurations that check them on small instances, and TLAPS proofs of what
holds for every instance.

Check a run with `tlc -config <run>.cfg <MC module>`, a proof with
`tlapm <module>_proofs.tla`. `PROJECT.json` lists runs, mutants (a plausible
bug for every property, which the run finds), hazards with their source lines,
and for each definition the code it stands for.

## The system

```
 garden node --(OAuth2 token, POST /ingest)--> garden-ingest --PUT--> Pushgateway
     |  \                                                                 |
     |   `-- OTA polls "latest release" <-- two GitHub workflows     Prometheus
     |                                        ^                           |
     `-- TCP frames --> board-tui             |                  garden plan (CLI)
 rover node --- same channel, TCP, /ingest ---'                           |
                                              LLM agent, human approval <-'
                                                     |
                                        MCP policy gateway --> Tuya cloud --> valves
```

| part | state | operations | what makes it correct |
|---|---|---|---|
| duration clamp (`garden_core.py:21`) | none | `clamp_minutes` | within both caps to the rounding of one call, idempotent |
| MCP gateway (`mcp/gateway.py`, `garden_core.py`) | token flag, `budget.json`, the call in progress | `list_zones`, `water_zone`, `get_zone_status`, `stop_zone`, `do_water` | day cap, run cap, no valve open for good, an audit line per call |
| planner (`garden.py`) | none between runs; four kinds of request in one | `plan`, `sensors`, `weather` | no water on stale soil, one reading per zone, rain is awaited, drier soil never gets less |
| agent (`SKILL.md`, `RUNBOOK.md`) | none | reads a plan, asks for approval, calls the tools | out of anybody's hands: any call in any order |
| garden node, update (`ota.cpp`) | failure byte in EEPROM, the image | check at boot and on an interval | releases arrive, retries end, nothing goes round flashing |
| garden node, publishing (`net.cpp`) | token cache, display health, `net.push` | sample, fetch token, POST | "ok" means stored; failures heal |
| garden-ingest (`main.py`, `mapping.py`) | none; the Pushgateway's groups | `/ingest` | a group is one reading |
| live view (`telemetry.cpp`, `rover-core`, `TcpSource`) | the one client, its buffers | accept, write a frame, read lines, reconnect | whole lines, in order, for ever |
| board-tui (`board_tui.py`, the other sources, `render.py`) | source, record, queue, `DashboardState` | read, record, queue, take, render | what was shown is recorded; the header tells live from stale |
| rover, update (`ota.rs`, `main.rs`) | two partitions, the boot loader's choice | boot, connect, check on an interval | always bootable, runs its own releases, tries again and comes back |
| simulator (`scripts/simulate.py`) | one token, the device at turn | rounds of readings | "ok" means stored; rounds go on after an error |
| sensors, LED matrix, camera, calibration sketch, layout of the dashboard | I/O or formatting | | not modelled, or only by what others see of them |

What is hard here: a tool call is a chain of HTTP requests any of which can
raise after it took effect; the gateway can die between two of them; the
valve's own countdown is the only thing that closes it then; a plan is made
of queries that a push can fall between; an update has two requests and a
release, of the other board even, can fall between them; power fails at any
point; TCP cuts a line anywhere and a viewer reconnects to whoever listens now;
a thread that reads and a loop that renders go at their own pace, and either can
end.

## Modules

| module | models | runs |
|---|---|---|
| `ClampMinutes` | `clamp_minutes`, Python's half-to-even rounding, in quarter minutes | `plan_zone` |
| `IrrigationPlan` | `plan_zone` as an operator over the clamp | `plan_zone` |
| `ZoneDay` | the day of one zone whose agent asks again and again, and what is granted and proposed at each point of it | `plan_zone` |
| `TuyaGateway` | the gateway, `do_water`, `BudgetState`, the cloud, valves, time, faults | `gateway`, `gateway_*` |
| `DailyBudget` | the abstract promise: minutes of a day only grow, within an allowance | refined in `gateway` |
| `PlanRun` | `garden plan` request by request, beside pushes, restarts and time | `plan_run`, `plan_rain` |
| `GardenOta` | `otaCheckAndApply` call by call, the EEPROM byte, and both release workflows with the credentials they compile in | |
| `RoverOta` | `check_and_apply` call by call, the two partitions, the boot loader with its rollback, a boot without the network, or with credentials that no network takes | |
| `ReleaseBoards` | both boards beside the one channel of releases | `ota`, `ota_shared_channel`, `ota_dummy_wifi` |
| `TelemetryView` | board and viewers over TCP, frames as two halves; outages of the network | `view` |
| `BoardTui` | the sources of board-tui, the reader thread, the record, the queue and the main loop, beside the board that prints | `tui` |
| `ReadingPush` | sampling, token cache, publish, edge, `/ingest`, Pushgateway groups; garden nodes, rovers and the simulator | `push` |
| `MC_*` | small instances for TLC | |
| `*_proofs` | the theorems; `IrrigationPlan_proofs` has what three of the others rest on | |

Modules share `ClampMinutes`: the gateway applies it twice (`water_zone`, `do_water`),
the planner once, and `ZoneDay` for each request of a day. `TuyaGateway` implements
`DailyBudget` by `INSTANCE ... WITH`. `ReleaseBoards` extends `GardenOta`, whose
`latest` and releases it hands to an instance of `RoverOta`: a step is one board's, or a
release that leaves both boards where they are. `BoardTui` takes whole lines from its
TCP source; `TelemetryView` is about what is on the wire of such sources.

### How they correspond to the code

- *One action per step that others can get between.* In `TuyaGateway` every
  HTTP request is an action with the outcomes "done", "raised" and "done, the
  reply lost"; the locals of `water_zone` and `do_water` are the record `call`,
  and `pc` names the request that comes next. Tools do not overlap (they are
  plain functions on the server's event loop). `AddWatered` is the whole of
  `add_watered` with its atomic file replacement. In `GardenOta` every call of
  the update library and every EEPROM write is an action, in `PlanRun` every
  query, in `ReadingPush` a node's token request and its POST. In `RoverOta` the
  two requests, the erasing, the writing and the selection of a partition are
  actions, with a power cut between any two. In `BoardTui` the reader's write to
  the record and its `q.put`, and the main loop's `get_nowait` and its render, are.
- *Faults.* `TuyaGateway`, `GardenOta`, `RoverOta` and `ReadingPush` have a variable
  `faults` that is chosen at the start from the constant `FaultSets` and never
  changes; a fault's actions and outcomes are enabled by its membership.
  A property that needs a fault to be absent says so itself. So one run covers
  several environments, and the theorems quantify over all of them. `TelemetryView`
  and `BoardTui` choose a `setup` in the same way: the board, the command line, the
  faults and the bounds of a behaviour.
- *Data.* A version is a number (the garden node only compares for equality, the
  rover for order), a release is what its `version.txt` says, what was built and with
  whose WiFi credentials, a frame is a number, a reading is the set of series in it, a token is good,
  due, expired or dead. A duration is a number of quarter minutes, which is all
  that `round` can tell apart around a half, as requests are whole and only
  caps have fractions.
- *Credentials.* Both release workflows compile dummies into what they publish
  (firmware-release.yml:47-55, rover-firmware.yml:35-37), so that a board that runs a
  release joins no network. The member "own" of a fault set stands for the other kind
  of build the repository describes, with the credentials of `.env` (README.md:50-55,
  `flash.sh`), published to the same channel by hand: with it the runs judge `ota.cpp`
  and `ota.rs` apart from what the workflows build. Every promise is checked with both.
- *Left out.* Texts of replies and logs, JSON and exposition encoding, TLS,
  redirects of release downloads, the fields of a frame.

## Runs

| run | states | bounds and why they are enough |
|---|---|---|
| `gateway` | 104,281 | two zones (one with a fractional day cap), two days, requests that are refused, fit and are cut, two confirm polls; two fault sets: `{token, ignore}`, and all nine but `ignore`. A day is three minutes, so two calls exceed it; `poured` is counted to one minute past it, and only for the first set, as no property of the other reads it |
| `plan_zone` | 21,024 | 576 zones with caps around the halves and each other, nine forecasts with and without ET0, rain and probability at the threshold; a day has calls until 6 minutes are recorded |
| `plan_run` | 4,634,119 | two beds of one node each, one soil value below the target, one temperature, above the heat threshold, one time step with an age limit of 0; the number of pushes, restarts and aborted plans is not bounded |
| `ota` | 669,442 | versions 1 to 3, limit 3 as in `config.h`; the garden node alone under eight fault sets, five with own builds and three with those of the workflows; the rover alone under five, of either build, one of them with tags that do not tell what was built; both boards with nothing but each other's releases. Two resets of the rover by an outage or power: one that rolls back, and one more; those of an image that cannot join are not bounded |
| `view` | 160,692 | two viewers, four setups: either board with four numbered frames, three starts and a queue of two; either board with frames that are all alike, for what happens for ever, with outages. The rover's buffer has odd room so that a line fits in part |
| `push` | 228,488 | a garden node, a rover and the simulator with two devices, one of which has the garden node's name, as by default; seven fault sets; tokens, groups and rounds are not bounded |
| `tui` | 72,235 | nine command lines with the faults that can meet them: three numbered lines for what is recorded, two that come again for what is shown for ever; stale after two seconds, a raw panel of two lines, a port that holds two |

Properties, by what they would catch:

- `gateway`: `ChargedWithinAllowance` (file), `RunWithinAllowance` (countdown),
  `PourIsCharged` and `DayPourWithinAllowance` (water follows its charge),
  `OpenValveIsArmed` and `AlwaysArmed` (no valve without a countdown, between
  calls and at every moment), `ReturnIsAudited`, `BudgetSpec` (refinement),
  `CallsEnd`, `ValvesClose`, `LeftAloneValvesClose`.
- `plan_zone`: `ClampIsNearest` (against a reference definition),
  `DayWithinAllowance`, `DrierNotLess`, `ProposalIsGranted`.
- `plan_run`: `FreshUnlessPushed`, `ReadAtOnce` (the three queries of a zone are as one).
- `ota`: `AttemptsBounded`, `EachReleaseOnce`, `LockoutHolds`, `ArrivesOrLocks`
  of the garden node; `AlwaysBootable`, `RunsItsReleases`,
  `RoverTriesAgain`, `RoverComesBack` of the rover.
- `view`: `LinesAreWhole`, `FramesInOrder`, `LoneViewerIsFed`.
- `push`: `OkIsStored`, `TokenOutlivesPublish`, `ReadingsArrive`.
- `tui`: `ShownIsRecorded`, `LiveIsRecent`, `HeaderFollows`.

### Fairness

- `TuyaGateway`: weak for a running call (`urlopen` has a timeout of 15 s, the
  confirm loop an end), strong for time, as an agent that calls all day does
  not stop minutes from passing.
- `GardenOta`: weak for the node's loop, strong for a version request that is
  answered: a network that never lets one through delivers nothing. None for
  releases, power or flashes.
- `RoverOta`: weak for the boot, the connection and the loop, strong for a version
  request that is answered and for a download that is whole. None for releases and
  power cuts. An image that cannot join resets as often as it is started.
- `TelemetryView`: weak for sending, booting, connecting, reading, the time-outs and
  for joining the network again, by the boards that do so (the loop tries on every
  interval). Liveness is asked for only where cuts, outages, reboots and starts end.
- `ReadingPush`: weak for a node's loop and its two requests (timeout 15 s), and for
  the simulator's. Liveness is asked for where disturbances end.
- `BoardTui`: weak for both threads, for the board that prints and for a cable that is
  put back; strong for time, which waits for what can be done within a second, unless
  the terminal stalls. `HeaderFollows` asks for a live header only where cables are
  left in peace.

`CHECK_DEADLOCK FALSE` is used where the system really may stop: in `ota`,
`ota_shared_channel` and `ota_dummy_wifi` (a board that its runtime halts, that has
given up on updates or that has no power, beside another), and in `tui` (the program ends).

### Where code and documents part

Five runs end in a violation on purpose; each is a statement of a document or a
comment that the code does not keep (`findings` quotes them).

| run | statement | what happens |
|---|---|---|
| `gateway_lost_poll` | no sequence of calls exceeds the day's budget | a status poll raises after the ON command: the run pours and is never charged |
| `gateway_expired` | `stop_zone` is an immediate close, always allowed | the token has expired, `_token_ok` is never reset, every call raises |
| `ota_shared_channel` | firmware arrives without physical access | a rover release is "latest": three failed downloads lock the garden node for good |
| `ota_dummy_wifi` | the same | the first release a node installs has the workflow's dummy credentials: it joins no network, and never hears of the second |
| `plan_rain` | skip on rain of the next 12 hours | the 12 hours are those from 00:00 UTC of the day |

`DayPourWithinAllowance` is the same definition in a passing run: there the environment
leaves out the fault that breaks it. `ReleaseArrives` fails with the workflows' builds
and, beside a rover, with any; what is left of it is `ArrivesOrLocks`, which names the
ways in which a node is lost. `OpenValveIsArmed` has such a fault too: a status poll
that raises skips the failsafe OFF (`garden_core.py:123`, 129), and a valve that also
dropped its countdown stays open, against the comment of lines 103-104.
`FreshUnlessPushed` names its own exception: a push between the soil query and the
timestamp query makes an old value look fresh, against the comment of `garden.py:39`.

Others that were met and have no run: a call that raises writes no audit line (the
gateway's design has every call audited); a fractional day cap is passed by the half
minute of rounding (`DayWithinAllowance` allows it); `cmd_plan` passes
`watered_today=0.0`, so no plan knows of a spent day, and what stops its proposals is
the gateway's record (`DayWithinAllowance`), not the soil's age hours later; an ET0 of
0.0 counts as missing; an `update()` that returns is counted after the counter was
cleared, so such failures never add up; a tag built by hand from a tree with an older
`FIRMWARE_VERSION` is installed again and again (with the workflow's credentials it is
installed once); a displaced viewer displaces the one that displaced it; two
`device_id`s that clean to one label share a group; a rover with upload sends no token,
and no reading the mapping knows.

Of the rover: the garden node's and the rover's releases share `latest`, so a rover may
hear of a garden release's version and install its own workflow's binary of another, an
older one even (`RunsItsReleases` allows it), and after a newer garden release it erases
its spare partition for an error page on every poll. A release has the workflow's
credentials `ci-ssid`, and `wifi::connect` fails at each of its boots: main returns, the
reset rolls back to the image flashed over USB, and the next poll installs the release
again, for ever (`RoverTriesAgain` and `RoverComesBack` show the round, where the
runtime resets the board). Nothing marks an image valid, so with rollback enabled every
reset returns to the image flashed over USB, which updates again; and an image on trial
cannot be updated (`initiate_update` refuses), though the rover's README.md:26-27 has
the 5-minute poll pick a release up. There is no failure counter, which the design has
so that "a bad release can't boot-loop" (2026-06-07-rover-node-rust-design.md:122-123),
and `partitions.csv` has no factory partition. Nothing joins the network again after an
outage, neither on the rover nor on a garden node built with ENABLE_TCP_VIEW alone.

Of board-tui and the simulator: a field that is null is formatted as a number
(`render.py:61`), and until the DHT22 has answered once the board sends null for the
temperature, so that the dashboard ends with a `TypeError` (`main = "crashed"`), against
2026-06-07-board-tui-and-serial-telemetry-design.md:134-138; a frame counts as received
when it is taken from the queue, so a main loop that was held up calls old frames live
(`LiveIsRecent` exempts it); a full disk ends the reader without a word, and the header
goes stale; the design's banner for a port that is lost is the stale mark only; a write
to a viewer blocks the garden node's loop where the same design (line 137) says that
telemetry never does. `simulate.py` fetches one token and keeps it, so with `--cloud`
every push fails once it has run out; a request without an answer ends it; and its first
device has the real garden node's name, so that with `--cloud` the two replace each
other's readings.

## Proofs

Every invariant, every action property and every refinement that a passing run checks
is a theorem; the liveness properties are not. The theorems are of `Spec` (of the two
boards, `BoardsSpec`), which states no fairness or needs none of it, for every value of the
constants that the modules' assumptions allow: any set of zones, caps, requests, fault
sets, versions, tags, nodes and viewers, any number of zones, time steps and frames, any
size of a queue, buffer, panel or time limit.

| theorem | states |
|---|---|
| `IrrigationPlan_proofs!ClampRespectsCaps`, `ClampIsIdempotent`, `ClampIsMonotone` | the clamp's arithmetic |
| `DrierIsNeverGivenLess`, `ProposalsAreGranted` | about `plan_zone` itself |
| `ZoneDay_proofs!RoundingIsNearest` | the model's rounding is the reference definition |
| `GrantIsNearest`, `DayIsWithinAllowance`, `DrierIsNotGivenLess`, `ProposalsAreGrantedAllDay` | `ClampIsNearest`, `DayWithinAllowance`, `DrierNotLess`, `ProposalIsGranted` |
| `TuyaGateway_proofs!TypeCorrect` | `TypeOK`, and `CallInv` |
| `BudgetIsKept`, `RunIsBounded` | `ChargedWithinAllowance`, `RunWithinAllowance`, whatever fails |
| `ValvesAreArmed`, `CallsAreAudited` | `AlwaysArmed`, `ReturnIsAudited` |
| `GatewayImplementsBudget` | `Spec => BudgetSpec` |
| `PourFollowsCharge`, `DayPourIsBounded`, `NoneLeftUnarmed` | `PourIsCharged`, and for benign faults `DayPourWithinAllowance` and `OpenValveIsArmed` |
| `CallsAreBounded` | a call has at most `ConfirmAttempts` + 4 steps, and each of the service's takes it nearer to its end |
| `ReleaseBoards_proofs!TypeCorrect`, `LockoutIsFinal`, `RetriesAreBounded`, `ReleasesAreInstalledOnce` | of the garden node alone: `TypeOK`, `LockoutHolds`, `AttemptsBounded`, `EachReleaseOnce` |
| `GardenIsItself`, `GardenKeepsItsPromises` | `BoardsSpec => Spec`, so that these four hold beside the rover, as the run checks them |
| `RoverAlwaysBoots`, `RoverRunsItsReleases` | `AlwaysBootable`, `RunsItsReleases`, whatever both workflows release |
| `RoverIsItself` | `BoardsSpec => RoverAlone`: the composition shows of the rover a behaviour of `RoverOta` |
| `PlanRun_proofs!TypeCorrect`, `WaterNeedsFreshSoil`, `ZonesAreReadAtOnce` | `TypeOK`, `FreshUnlessPushed`, `ReadAtOnce` |
| `ReadingPush_proofs!TypeCorrect`, `OkMeansStored`, `MarginIsEnough` | `TypeOK`, `OkIsStored`, `TokenOutlivesPublish` |
| `TelemetryView_proofs!TypeCorrect`, `OnlyWholeLines`, `NeverGoesBack` | `TypeOK`, `LinesAreWhole`, `FramesInOrder` |
| `BoardTui_proofs!TypeCorrect`, `ShownIsInRecord`, `LiveMeansRecent` | `TypeOK`, `ShownIsRecorded`, `LiveIsRecent` |

Along which argument:

- *Clamp and planner.* `ZoneDay`'s reference definition compares squares of distances:
  ordering those is ordering the distances (`SquaresOrderDistances`), and then the
  rounded value is the only one that satisfies the definition's condition. That a day
  stays within its allowance is inductive by `GrantFits`: a grant is nothing, or the
  caps left room for all but its rounding. A drier bed is never given less because every
  step from ET0 to minutes keeps order: the quotient (`QuotientsGrow`), the product below
  the target (`WantedGrows`), both cuts, the rounding and min_run (`ClampIsMonotone`).
- *Gateway.* Types are not inductive: the type of a countdown rests on the
  call's zone and minutes. `CallInv` says that a call in progress and the file
  agree: the minutes are what the caps grant over the total that was read, and
  the file has neither a later total nor a later day. The second clamp changes
  nothing (`ClampIsIdempotent`), so what is charged is what was granted, and
  the sum stays within the allowance (`ClampRespectsCaps`). The water theorem
  needs `PourInv`: where faults are benign the session lasts through a call, so
  a valve without a countdown belongs to the call that still polls or closes it,
  and poured plus to-pour is covered by the charge or the call that is about to
  charge. `StepsLeft` counts down through a call; that it is a natural number in the poll
  loop is `PollInv`.
- *Refinement.* A charge on the current day is a `Spend`; one that midnight
  overtook changes a record that is not the current day's, a stutter; the loss
  of the file is a `Forget`, allowed only where the file can be lost.
- *OTA.* Attempts are bounded since the counter has every update begun but the
  one under way (`AttemptsAreCounted`), and a check only goes on below the limit
  (`CheckInv`). A release is installed once since what was installed and is still the
  latest is what runs (`InstalledIsRunning`), so no update is begun for it; a later
  release has another tag, as a tag is published once. With the workflows' builds the
  reason is another, `SilentAfterOne`: the node that installed one joins no network, and
  no later update begins.
- *Rover.* `AlwaysBootable` is not inductive: nothing in it says that the partition
  about to be written is the second. `SelectionInv` does: the first partition is
  selected exactly when nothing is on trial, and an update only gets as far as a
  write then. `RunsItsReleases` follows from that and `HoldsItsReleases`: what is in
  memory or in the second partition is a tagged release of the rover's, or no image,
  as tags stay taken. That `latest` is a release is the garden node's
  `TypeOK`, which the composition keeps (`GardenKeepsItsPromises`).
- *Plan.* The reading in hand is either the one that was there when the plan
  began, or a push has landed since; the age that is tested is of the same
  push, or a later one that landed. For `ReadAtOnce`, `OneReadingInv` compares what is in
  hand after each query with the series as it was when the plan began: the same, or a
  loss came in between, after which the push time is missing and the proposal nothing.
- *Publishing.* `OkIsStored` is inductive once the types are known: a node says "ok"
  in the step that stores its reading, and what replaces the group after that is a
  reading of the same label, which the property allows. `TokenInv` is what the margin
  of `ensureToken` comes to: while nothing makes tokens end early no garden node has a
  dead one, and the one it posts with is good.
- *Live view.* `LinesAreWhole` says nothing of what is still on the way. `Sight` does,
  of each viewer: buffer and wire together are a row of halves in which a last half
  follows the first half of its frame, frames rise, and all are newer than the line
  shown and older than the next the board will write; a viewer the board knows is open and at the end of a
  line; one that is not open has nothing left. With the single ownership in `TypeOK` no
  other step can write to its stream. `YieldIsFirst` evaluates the model's `CHOOSE` of
  the end of the first line.
- *board-tui.* `ShownIsRecorded` has a suffix in it; `RecordInv` has positions instead:
  the record is, line by line, what has left the raw panel, the panel, the queue and the
  line in the reader's hand. `RecentInv` says that no second goes by while a frame is on
  its way to the main loop, so that from there the silence of the source and the age of
  the frame count the same seconds.

Assumptions: those named in the modules (caps are naturals in quarter minutes
with a day cap, names differ, bounds are naturals, a board prints at least one line).

Only model-checked: the liveness properties (`CallsEnd`, `ValvesClose`,
`LeftAloneValvesClose`, `ArrivesOrLocks`, `RoverTriesAgain`, `RoverComesBack`,
`LoneViewerIsFed`, `ReadingsArrive`, `HeaderFollows`). They rest on fairness, that is on
`ENABLED`, for which the proof system has no rules (of `CallsEnd` the other half is
proved: `CallsAreBounded`); some also need an induction over the numbers that are left,
and the library's induction theorems take an operator, which no installed prover can
instantiate. The five statements of documents that fail are not theorems of anything.

## Plan

Done: clamp, planner, gateway, plan runs, both boards' updates and the channel they
share, live view, board-tui, publishing and the simulator; proofs of all safety
properties of these.

Next, in this order:

1. Proofs of what liveness rests on and safety can say, as `CallsAreBounded` does of the
   gateway: of an update of either board, of a publish.
2. An abstract feed (frames in order, a gap at a reconnection) that `TelemetryView`
   implements, and an abstract log that `BoardTui` does.
3. Garden node loop: OTA, sampling and telemetry in one loop, with what each
   call blocks.

### Not modelled

Sensors and calibration (analog I/O), the layout of the dashboard (pure
formatting), the slide clock of the LED matrix, build workflows of images and pages,
the camera, argument parsing. Of `mapping.py` the clamping of values and the
exposition text; of `garden_core.py` the signature of a request; of `garden.py`
`sensors` and `weather`, which print what `plan` reads. A publish that a server still
holds when its node has given it up is taken to be done before the node's next sample,
which is a minute later: the ingest's own PUT has a time-out of 5 s.
