# Verification of the foxBMS POSIX vECU

TLA+ models, TLC runs and TLAPS proofs for the program in `src/`: a virtual
electronic control unit (vECU) that runs the foxBMS 2 battery-management
application as one Linux process on SocketCAN, the battery plant it is
simulated against, and the tools around them.  Paths below are relative to the
repository root, which here is the directory `src/`; the program's own C and Python
sources are in its subdirectory `src/` (`src/src/...`).

The foxBMS application itself (`src/foxbms-2`) is a git submodule and its sources
are not part of this tree.  It appears here as an environment: by the calls it
makes to the hardware stubs, which are in this tree.

## 1. Inventory

| Component | State | Operations | Interacts with | Hard behaviour | What makes it correct |
|---|---|---|---|---|---|
| **vECU main loop** (`src/src/foxbms_posix_main.c`) | `os_boot`, `running`, `last_1ms/10ms/100ms_us`, `last_watchdog_feed`, `tick`, `exit_reason` | start-up phases, sampling the clock, draining CAN, three periodic branches, watchdog, heartbeat, timeout, signals, shutdown | calls everything else in the process | stale clock sample, stalls, signals between any two steps, order of the branches | no task is overdue after an iteration, inputs are fresh for each run, a stop request and a timeout end the loop promptly |
| **SIL override table** (`sil_layer.c/.h`) | table of (active, value) by kind and index | init, command on CAN 0x7E0, reads, probe frames | written by the CAN drain, read by the power switch and patched application code | out-of-range indices, casts of the value, commands overtaking frames | ignored unless in range; takes effect at once; leaves no trace that the promise of its reader does not allow |
| **SPS contactor simulation** (`hal_stubs_posix.c`, GA-05) | requested, actual, pending, delay counter per channel | `SPS_Initialize`, `SPS_Ctrl`, `SPS_RequestContactorState`, feedback, switch off | the application requests, the override table forces, plant and test bench read 0x7F0/0x7F1 | requests during a transition, forces during a transition | no request lost, delay exact, contactor moves only when told |
| **CAN receive path and AFE rings** (`foxbms_posix_main.c` 292-310, `hal_stubs_posix.c` 356-513) | socket, RX ring, overflow count, two AFE rings | drain, inject, receive, send to back | SocketCAN to callbacks to MEAS_Control | overflow, wrap-around, SIL commands overtaking frames | order, no duplicate, nothing lost uncounted, progress |
| **Battery plant** (`plant_model.py`) | view of the contactors, direction, current, state of charge, cell voltages and temperatures, overrides by 0x6E0 | receive loop, current control with hysteresis, integration, telemetry | CAN 0x7F0, 0x6E0 in; IVT current, cells, 0x210 out | lost frames, full buffers, vECU restart, stale view | charge in band, hysteresis, view follows the vECU |
| **vECU life cycle** (`fi/vecu_manager.py`) | process handle | start, stop with escalation, restart | vECU process | restart while the plant keeps its state | exactly one process; a clean state after restart |
| **CAN HAL and mailboxes** (`hal_stubs_posix.c` 80-150, 730-750) | mailbox table, socket | `canInit`, `canTransmit`, `canUpdateID`, `canGetID` | application to SocketCAN | write failures, unassigned mailboxes | a frame carries the identifier last assigned |
| **DIAG instrumentation** (`patches/patch_diag_*.py`) | start tick, fault bitmap, fault count, last ID and event | the patched `DIAG_Handler` | application diagnosis, probes 0x7F7 and 0x7F8 | 32-bit tick wrap, bits cleared by the first good event | a sustained fault shows in the bitmap, no bit without a confirmed fault, nothing in the start-up window |
| **Database injection** (`patches/patch_db_inject.py`) | reads the override table | patched database read | override table, application | stale overrides, casts | the range reported covers what the cells and the table of overrides hold |
| **Patch set** (`patches/apply_all.sh`, `patch_*.py`) | files of the submodule | ordered application, sentinel, `--force` | build | interruption, re-run, scripts that find only some of their texts | what a reported success is worth, nothing is patched twice |
| **Fault-injection runner** (`src/src/fi`) | test list, cached probe values (`ProbeMonitor`), latched preconditions, restart attempts | verify preconditions, inject, observe, clear, restart, skip | vECU by 0x7E0, probes, `VecuManager` | stale observations, late diagnosis, crashes, exceptions inside a test | no override outlives its test, a verdict rests on observations of its own test, the run ends |
| **Web dashboard** (`web/server.py`) | process handles, connections, state history | inject, clear, reset, restart, state tracking | vECU by 0x7E0, plant by 0x6E0, browsers | coroutines interleaving at awaits, a vECU that cannot be started, frames of a killed vECU | a restart leaves one vECU and one plant, the history is closed, clear reaches what it sends to |
| **ML sidecar** (`ml_sidecar.py`) | one array per quantity, window buffers, models | fold frames into the arrays, inference | 0x270, 0x280, 0x7F4 and 0x7F6 | lost frames while an inference runs, values of two sources in one array | every value is the one that was sent for that cell |
| **Trip replay plant** (`plant_model_replay.py`) | trip index, tick count, view | replay loop, loop or end at the end of the trip | 0x270, 0x280 out, 0x7F0 in | the index jumps over the end of the trip | the row sent is the one the clock calls for |
| **CAN signal encoding** (`plant_model.py`) | none | big-endian bit placement | frames | overlap, width | decodes to what was encoded |
| **FreeRTOS POSIX port** (`freertos-posix-port`) | threads, events | vendored; not linked into the vECU | | | |
| **foxBMS application** | external | | | | |
| **Deployment; test suites, training, documents** | scripts | | | | |

How the parts meet: the main loop drains the socket (`PosixQueues`), applies SIL
commands to the override table (`SpsContactor`), runs the 1 ms task that consumes the
RX ring (`PosixQueues`), the 10 ms task in which the application requests contactors
and `SPS_Ctrl` moves them (`SpsContactor`), and sends what it did as CAN probes that
the plant turns into current (`PlantLoop`).  Plant or trip replay send cells as
multiplexed frames (`SignalCodec`); the vECU's patched database widens the range it
measured by the overrides (`DbInject`), and the sidecar folds the cells of the one and the
ranges of the other into the same arrays (`CellTelemetry`).  The dashboard (`WebBridge`) and the test runner (`FaultRunner`)
inject into both processes and restart them; `ApplyPatches` is what makes the
foxBMS sources into a vECU in the first place.  Everything inside the vECU is one thread:
the interleavings that matter are between the vECU, the bus, the plant, the test
bench, and signals.

`PROJECT.json` lists every hazard at its line with the properties aimed at it.

## 2. Modules

| Module | Models | State and actions against the code |
|---|---|---|
| `SpsContactor` | power switch and override table | `requested`, `actual`, `pending`, `delayCtr` are the `sps_channel_*` arrays; `overrides` is `sil_overrides`; `probe` holds the last 0x7F0/0x7F1 frames. `SpsCtrl`, `SpsRequestContactorState`, `SpsSwitchOff`, `SilProcessCommand` are the functions of these names, each one atomic step because the vECU has one thread |
| `ContactorPromise` | abstract specification: contactors that move, rest, or are held | no counters, rows or frames |
| `SpsHistory` | `SpsContactor` with history variables | `age` counts `SPS_Ctrl` calls since the last accepted request, `tainted` records a force since then |
| `PosixRing` | the ring arithmetic that all queues share (`(head + 1) % size`, one slot free) | pure operators on a record of slots, head and tail |
| `BoundedFifo` | abstract specification of a lossy bounded queue | |
| `PosixQueues` | the way of a frame from the bus into the application | `pc` is the position in the loop body: `drain`, `branch`, `rx` (1 ms task takes frames), `meas` (MEAS_Control reads the AFE rings); `BusDelivers` is the environment |
| `MainLoop` | `main()` | one step per branch of the loop body; `now` is the sample all branches share, `clock` runs on while tasks work; `SigInt`, `Killed` and `Assert` may strike between any two steps |
| `LoopHistory` | `MainLoop` with a history variable | how long the watchdog had not been fed when the iteration took its sample |
| `PlantLoop` | composition of `SpsContactor`, its broadcast and the plant | `CtrlDelivered`/`CtrlUnsent` are `SPS_Ctrl` whose write succeeds or fails, `bus` the plant's bounded receive buffer, `PlantTick` a turn of the plant's loop: drain the buffer, then current, then charge; `VecuStops`, `VecuKilled`, `VecuStarts` the life of the vECU process |
| `PlantHistory` | `PlantLoop` with history variables | whether the string has been closed, and asked to close, since the start |
| `DiagProbe` | `DIAG_Handler` as the two patches leave it | `initialized`, `firstTick` are the statics of the start-up block, `bitmap`, `faultCount`, `lastId`, `lastEvent` the `posix_diag_*` variables; `Suppress`, `Ignore`, `CountUp`, `Confirm` are the four ways a faulty event can go, `EventOk` the good one. `counter` is foxBMS's threshold counter (external) |
| `DiagHistory` | `DiagProbe` with history variables | length of each fault's streak, clock at the first call, age when a fault was last swallowed |
| `FaultRunner` | `test_fault_injection.py` and `fi/` against a vECU | `pc` is the position in `main` and in a test's runner: `check` (preconditions, with `attempt` for the escalation), `watch`, `withdraw`, `hold` (phases of the runners), `judged`, `settle`; `monitor` is `ProbeMonitor`, `cmds` and `frames` the two sockets; the vECU reads, diagnoses, moves its contactors, sends probes and crashes in steps of its own |
| `RunnerHistory` | `FaultRunner` with a history variable | whether the vECU has found the fault of the running test |
| `WebBridge` | the dashboard's server | `pc[c]` is the await at which the coroutine of connection `c` stands: in a restart `sleep` (after the kill) and `halfway` (plant started, vECU not yet), in a clear one position per frame; `vecuProc`, `plantProc` are the handles of the module, `vecus`, `plants` the processes that run; `prev` and `history` are `_prev_bms_state` and `state_history`; `CanReader` is the task that tracks 0x7F9 |
| `ApplyPatches` | `apply_all.sh` | `step` is the position in `PATCHES`, `failed` and `force` the shell variables, `count[t]` how often a text has been replaced in its file, `emptied` the files between `open(..., "w")` and `write`. A script has one file or several and in each one text or several: it replaces those it finds (`Replaces`), leaves alone those a sentinel or an earlier replacement keeps (`Blockers`), passes over a missing file or raises (`Lenient`), and exits with an error only if it is `Strict` and found nothing at all (`Fails`). The driver is refused, forced, interrupted between and within scripts and between two files of one, and the tree is checked out again |
| `PatchSet` | the list `PATCHES`, the files and texts of each script, and what it does with a source it does not recognise or has patched before | constants for `ApplyPatches`, without state |
| `SignalCodec` | big-endian signals in 64-bit frames | a frame and a number are the sets of their one-bits; `EncodeSignal` clears its field and writes the lower bits, as the code does |
| `DbInject` | the voltages of the MIN_MAX block as `patch_db_inject.py` leaves it, with probe 0x7F4 | `db` is the block of the only string (`BS_NR_OF_STRINGS` is 1), `vMin`, `vMax` the probe's statics, `ReadMinMax` the patched read with its cast to int16, its widening and its plausibility test |
| `CellTelemetry` | plant or trip replay, vECU and sidecar as processes | `unsent` is what is left of a round of frames, `buffer` the sidecar's bounded socket, `Receive` is `update_from_can`; `nextRow` is the replay's `data_idx + 1`; `tMin`, `tMax` are the statics of the temperatures, `SendSummary` and `SendRange` the two probes 0x7F4 and 0x7F6 of one 100 ms task (`probing` is between them), `FoldSummary` and `FoldRange` what the sidecar makes of them: ramps over all cells and over all sensors; composes `SignalCodec` and `DbInject` |
| `SpsProofs`, `RingProofs`, `QueueProofs`, `LoopProofs`, `DiagProofs`, `ToolProofs`, `WebProofs`, `TelemetryProofs` | theorems, see section 5 | |
| `MC*` | instances for TLC | |

Operators headed "a faulty variant" are what a plausible mistake in the code
would look like.  No specification uses them: replacing the operator they stand
next to by one of them makes TLC refute the property `PROJECT.json` names under
"mutants".

### Abstractions

* Time in `MainLoop` is counted in units, of which 1 ms is two; any task may take from
  nothing up to `MaxStall`, any sleep at least `Sleep`.
* The int32 of an override is cast to a byte: `ByteSize` stands for 256 and is scaled
  down in the runs so that a value that is cast to `OPEN` and one that is neither `OPEN`
  nor `CLOSED` both exist among few values.  `DbInject` casts to int16 at full width.
* A CAN frame is its kind and its number on the bus; payloads are abstracted except
  where a reader interprets them (the masks in 0x7F0, the cell frames in `CellTelemetry`).
* The test runners of `fi/` differ in what they look at and when they give up.  `FaultRunner`
  keeps one protocol for each control flow: `direct` (contactor-open, no-reaction and warning
  tests, whose first pass calls `bms_in_error`), `clears`, `recovery`, `latch`, `again` (a recovery test
  that goes on to a contactor test), `persist`, and `opens` (drift, noise, oscillation and
  combinations that expect open contactors).  Values are `off`, `bad` and `safe`; all indices of a kind
  move together, as `inject_multi` and `clear` send them.  Every deadline is a step that may come
  at any time.  Current, voltage and temperature are one precondition (`rest`) that may hold at any time
  once NORMAL has been seen, since all three are accepted then without data.
* A send of the runner does not fail.  The vECU's boot takes no separate step: a new vECU is `starting` and
  silent for as long as it likes.
* The server of `WebBridge` has both `_vecu_path` and `_plant_path` (without them a restart only kills), its
  broadcast is left out since it only reads, and so is the message without `action` (`server.py:345`): its frame
  has a layout of its own (`server.py:248`), of which the vECU takes the low byte of the value for the active flag.
  Each step is the code between two awaits.
* Two texts stand for all that a patch script looks for in one file (`LooksForSeveral`): one found and one not is what
  tells a partial match from a full one and from none.  Two headers stand for all of `halcogen-headers/`.  A script file that
  is missing from `patches/` (SKIP) is left out, since the list and the scripts come with the same commit.
* In `CellTelemetry` the sidecar's voltages are counted in 1/18 mV and its temperatures in 1/7 of a tenth of a degree, so that its
  ramps between lowest and highest stay whole numbers; the time of day is left out.  The overrides of
  temperatures are a set that is there from the start (`TempOverrides`), while those of voltages come and go.
* Charge is counted in units of what one tick of current moves.
* The application is every sequence of calls it could make: requests of any channel at
  any time.

## 3. Runs

| Run | Question | Properties | Instance and why it suffices |
|---|---|---|---|
| `sps` | Does the power switch keep its timing, implement the abstract contactor, and end its transitions? | `HistTypeOK`, `DeadlineMet`, `NeverMovesEarly`, `LostOnlyByForce`, `TransitionsEnd`, `KeepsPromise` | 2 channels, delay 2: a request can come before, in and after a transition, on a channel next to a forced one; the force value 6 is cast to 2 (neither state) |
| `queues` | Is anything lost, reordered or repeated on the way in, and is what was accepted delivered? | `InOrder`, `EveryFrameAccounted`, `OverrideInEffect`, `RingsAreFifos`, `AcceptedIsDelivered` | ring of 3 slots (2 frames), AFE rings of 1 item, 4 frames of every kind: all rings overflow and their indices wrap |
| `loop` | Does the loop keep its order and its ends? | `InputsBetweenRuns`, `NoHeartbeatMissed`, `StopsWithinIteration`, `EndsWhenAsked` | periods 2, 4, 8, heartbeat every 2 ticks, stalls up to 10 (longer than the longest period and the watchdog's limit), more than twice the longest period of time, timeout 11 or none |
| `loop_watchdog` | violated: a stall over the watchdog's limit is reported | `StallIsReported` | the instance of `loop`; finding 3 |
| `diag` | Does the bitmap tell the truth? | `BitHasEvidence`, `SustainedFaultShown`, `StartupQuiet` | 4 IDs, of which one is disabled and one outside the bitmap; threshold 2, count modulo 3, tick modulo 5 with a window of 2 and 8 units of time: count and tick wrap, also inside the window |
| `plant` | Does the plant stay in its band across faults, does its view settle, and is an override revocable? | `SocInBand`, `ReversesAtThreshold`, `PlantFollowsRequest`, `OverrideIsRevocable` | two mains, receive buffer of 2 frames, charge 0..8 with band 3..5 and unequal rates, two bench commands (an override set and withdrawn) |
| `plant_early_current` | violated: no current before contactors close | `NoCurrentBeforeClosed` | finding 1 |
| `runner` | Are tests kept apart, and does a run end? | `OverridesWithdrawn`, `NoFrameOfOldLife`, `RunEnds`, `BenchLeftClean` | two tests of any protocol (but `recovery` and `latch`, whose steps the others have) on one kind of override, one restart per test, one crash, socket of one frame: the second test meets whatever the first has left |
| `runner_earned` | violated: a pass rests on this test's fault | `PassIsEarned` | two tests that inject and withdraw; finding 2 |
| `web` | What do restarts that interleave leave running, and what do they leave in the history; what does a clear reach? | `HistoryClosed`, `RestartTakesOver`, `RestartLeavesRunning`, `ClearReachesFirst` | two browsers (interchangeable, hence symmetry) with three restarts, so that one may cut into another and a third follow; one injection, one waiting frame, four entries of history |
| `patches` | What does a success of the driver mean, and does it patch twice? | `SuccessMeansPatched`, `AppliedOnce` | the repository's list of 17 scripts on trees as expected, of another version or without the submodule, and on trees in which one text of a script, all texts of a script, or a file is not there; three runs: one interrupted, one forced, one to meet the rest |
| `telemetry` | Are the sidecar's values those of the cells? | `CellsAsSent`, `AtMostTwoRounds`, `TemperaturesAsSent`, `RowMatchesClock`, `SummaryCovers` | all 18 cells and 8 sensors bit for bit, values beyond 13 bits and below zero; temperatures of one value per row, as a trip has them; a range of temperatures whose upper end is the mark of an invalid cell, and an override below it; socket of one frame, one frame lost: every order in which frames of plant and vECU arrive, since the sidecar takes one at a time; a trip of three rows advanced by two, so that it jumps over its end, for five rounds |

Four instances more refute what the repository says of itself, but are not among the runs of `PROJECT.json`; they are run by
hand, each in seconds (`tlc -config MCDiagWindow.cfg MCDiag` and so on), and end with the counterexample:

| Instance | Claim it refutes | Property |
|---|---|---|
| `MCDiagWindow.cfg`, `MCDiag` | faults are suppressed for the first 2 seconds (`patch_diag_probe.py:18`) | `SwallowedAtStartOnly` |
| `MCPatchesSuccess.cfg`, `MCPatches` | "All patches applied successfully" (`apply_all.sh:114`) | `SuccessIsComplete` |
| `MCPatchesAgain.cfg`, `MCPatches` | "Script detects already-applied patches" (`cm-plan.md:139`) | `DetectionIsComplete` |
| `MCTelemetryReplay.cfg`, `MCTelemetry` | "foxBMS CAN encoding (same as plant_model.py)" (`plant_model_replay.py:62`) | `ReplayAsPlant` |

Each passing run keeps its type invariant out of the list where a theorem states it (section 5), but for
`sps`, where `HistTypeOK` also says that only a force puts a contactor into a state that is neither open nor closed.

`CHECK_DEADLOCK FALSE` appears only for `MainLoop`, whose process ends; for `FaultRunner`, whose runner
ends after its last test, and the vECU it leaves may have crashed or have nothing more to send; and for
`CellTelemetry`, where the replay ends with its trip and the bounds end the rest.

### Bounds of the models

`MaxFrames` (frames the bus carries; in `FaultRunner` the receive buffer, in `WebBridge` the frames waiting in
the server's socket), `MaxCommands` (0x6E0 frames), `MaxStall` and `Horizon` (time), `MaxTests`, `MaxCrashes`, `MaxUnread`
(commands under way when noise or oscillation adds one), `MaxResets`, `MaxInjects`, `MaxHistory` (the list of the code
grows without bound), `MaxRuns` and `Trees` (runs of the driver, and what the tree may be like), `MaxTicks`,
`MaxReplayTicks`, `MaxLost`, `MaxVecuSteps` (rounds, lost frames, steps of the vECU).  `MaxRestarts` is the code's 2, or 0
without a `VecuManager`; the runs take 1, since attempts differ only in their number.  The bounds limit what TLC
enumerates; those of the modules with theorems are arbitrary in the theorems.

### Fairness

* `SpsHistory!FairHistSpec`: weak fairness of `HistCtrl`, that is of `SPS_Ctrl`, which the main loop calls in every
  10 ms task.  Nothing is assumed of requests and commands.
* `PosixQueues!FairSpec`: weak fairness of the loop, which never blocks (the socket is
  non-blocking), and strong fairness of `Start1ms`: the branch is enabled again and
  again, and since time passes in every iteration it is due infinitely often.  The bus
  of the model is finite; an unbounded one could keep the read loop busy for ever
  (`foxbms_posix_main.c:296` has no limit).
* `MainLoop!FairSpec`: weak fairness of `Main`: the process is scheduled.
* `FaultRunner!FairSpec`: weak fairness of `Deadline` (the clock reaches the end of a loop's time) or the
  runner's steps that wait for nothing, and of `VecuRead` (a living vECU drains its socket).  Nothing is
  assumed of diagnosis, probes, or of preconditions ever holding.
* `PlantLoop!FairPlantSpec`: weak fairness of `PlantTick` (the plant process is scheduled) and of
  `CtrlDelivered` (the vECU, while alive, calls `SPS_Ctrl` for ever and not every write
  fails).
* `WebBridge`, `ApplyPatches` and `CellTelemetry` state no fairness: their properties are safety properties.

## 4. Findings

1. **Current flows before the contactors close.** The plant reads the requested states (bytes 2-3 of
   0x7F0) as the actual ones.  Run `plant_early_current`.  Theorem `CurrentNeedsRequest` says what is true instead:
   no current before both mains were requested.
2. **A pass may not be earned.** A late diagnosis of the previous test's fault is taken for this
   test's: preconditions were latched before the vECU found it.  Run `runner_earned`.
3. **The software watchdog cannot fire.**  `foxbms_posix_main.c:278` announces an error when the loop stalls for more
   than 100 ms, but the 1 ms branch, which is due in the very iteration that follows a stall, feeds the watchdog (line 334)
   with the sample that line 338 then compares it with.  Run `loop_watchdog` shows a stall that nobody reports;
   theorem `WatchdogIsDead` shows that no choice of periods, limit and stalls is better off.

Shown by the four instances without a run (section 3):

* **The start-up window opens again** every 2^32 ms, when the tick is back at its first value, and faults are swallowed for another
  two seconds (`SwallowedAtStartOnly`).  Theorem `SwallowedOnlyInWindow` says what is true instead: in no other window.
* **A success of the patch driver is not a complete one.**  Most scripts exit with 0 whatever they found, and those that
  do not are content with one of their texts (`patch_battery_cfg.py:87`, `patch_diag_posix.py:120`), so a
  source that differs from the expected one in a single line is half patched and "All patches applied successfully"
  (`SuccessIsComplete`).  `SuccessMeansPatched` says what a success is worth.  Also, `cm-plan.md:131` says that the driver exits with a
  non-zero code if any patch fails, and line 140 that it stops on the first failure: it tolerates one (`apply_all.sh:120`) and goes through
  the list in any case (`Apply`, `Finish`).
* **"Already patched" may be half patched.**  The text of the third script stands for all seventeen: after a run that was
  interrupted behind it the driver refuses to apply the rest, with exit status 0 (`DetectionIsComplete`).
* **The trip replay's temperatures are not those of the trip.**  The replay packs three values of 13 bits into
  0x280 where plant, vECU and sidecar have six bytes of degrees (`ReplayAsPlant`).

Noticed while modelling, visible in the definitions, without an instance of their own:

* The last act of the vECU opens all contactors (`foxbms_posix_main.c:488`) without a further 0x7F0 frame, and
  the plant has no timeout on its view: its current does not stop (`VecuStops`).
* `bms_in_error` names `BMS_ERROR`, which `probe_monitor.py:98` does not import; the exception becomes the verdict
  ERROR of every contactor-open, no-reaction and warning test (`direct`).
* The heartbeat that `foxbms_posix_main.c:466` announces "every 100ms" is sent in every iteration while
  `tick` rests at a multiple of 100 (`Heartbeat`; usually twice or more).
* `verify_preconditions` latches its six flags one by one (`executor_base.py:68`), so "all 6 preconditions met" may
  be said of a state in which they do not hold (`Latch`), and it judges the monitor's cache (line 62), which survives
  tests, crashes and restarts: a vECU that crashed after its last good probe is tested as if it lived (`Met` looks
  at no age).
* "ALL overrides cleared" (`server.py:338`, again at 343) is said of frames that clear index 0 of each kind in the
  vECU: overrides of other cells and sensors stay.  `ClearReachesFirst` says what is reached.
* Two restarts of the dashboard that cut into each other may leave two vECUs of which one has no handle
  (`RestartLeavesRunning` bounds their number); any later restart kills both by name.

* `clear()` of the test runner (`injector.py:47`) never names the pack voltage (0x07), to which `parsers.py:86` may resolve a
  test.  No test of the shipped matrix does, so the model's `Clear` covers every kind a test uses.
* `NoFrameOfOldLife` is about what the runner reads.  What it judges by is the monitor's cache, which survives a restart (see
  the point on `verify_preconditions`).

A behaviour the model makes visible without a document that contradicts it: a force that hits a
channel in transition drops the request.  `LostOnlyByForce` states exactly when a
request can be lost, `JammedOnlyByForce` (part of `HistTypeOK`) that a channel which is neither
open nor closed was put there by a force.

## 5. Proofs

All theorems hold for every value of the constants that satisfies the named assumptions
of the module (`SpsAssumption`, `PlantAssumption`, `QueuesAssumption`, `LoopAssumption`, `DiagAssumption`,
`PatchAssumption`, `RunnerAssumption`, `WebAssumption`, `TelemetryAssumption`, `OverrideAssumption`, `InvalidAssumption`); TLC evaluates
these assumptions on each run.

* `SpsProofs`, power switch: `TypeCorrect`, `HistTypeCorrect`, `OnlyAForceJams`, `RequestsLostOnlyByForce`, `DeadlineIsMet`,
  `CounterCountsAge`, `NoEarlyMove`, and `PromiseKept`, the refinement of `ContactorPromise`.  `DeadlineMet` alone is
  not inductive: it says nothing of a channel whose deadline is still ahead.  The strengthening relates the
  counter and the age of a pending, untainted channel, and says of an untainted channel
  that is not pending that it is where it was requested.
* `SpsProofs`, plant: `PlantTypeCorrect`, `ChargeStaysInBand`, `TurnsAtThreshold`, for every pair of thresholds, rates, buffer size and number of
  channels.  `SocInBand` needs to know why the current cannot go on past a threshold: `NoBench` says that until
  a bench command arrives only 0x7F0 frames are in the buffer, that view, direction and current belong together, and
  that the charge is in the widened band.
* `SpsProofs`, closed loop: `PromiseKeptInLoop` and `LoopLosesOnlyByForce` carry the switch's results over to the composition:
  every step of the loop is a step of the switch, but for the start of a new process, which takes the contactors back to the initial state
  of `ContactorPromise`.  `CurrentNeedsRequest` needs to know of every frame that may still wait in the
  plant's buffer, also from a vECU that was killed since, that a probe with both mains was sent after they had been asked for (`Asked`).
* `RingProofs`: about the ring arithmetic for every size and every position of head and tail:
  enqueueing appends to `Contents`, dequeueing removes its first item and nothing else.  The case
  split is on whether the index wraps.
* `QueueProofs`: `AllRingsAreFifos`, the refinement of `BoundedFifo` by the RX ring (`RxRingIsFifo`, from the type invariant and the lemmas of
  `RingProofs`) and by both AFE rings, of which the code does not count the losses: `Uncounted` derives their number from what was
  delivered, measured and still waits, and `LossDelivered` and `LossMeasured` say that it moves only when a frame of the ring's kind finds the ring
  full, for which one must know that what waits in a ring is of its kind (`OrderInv`); `OrderIsKept`, `NothingLostUncounted`, `CommandsTakeEffect`, and from these `QueueTypeCorrect`, whose
  bound on the overflow count follows from the accounting.  What all of them rest on is that the socket
  holds the numbers of the frames on the bus that have not been read, in their order.  `OrderOf` then relates
  the contents of the three rings to what has been delivered and measured; it is stated of plain sequences, so that a
  step only has to say which sequence lost its first or gained a last item.  Accounting is by cardinality: one
  frame read is one more delivered, waiting or counted.
* `LoopProofs`: `WatchdogIsDead`, `TickIsLowerBound`, `LagIsForgotten`, `FreshInputs`, `StopIsPrompt`, `HeartbeatsKept`,
  `LoopTypeCorrect`.  The inductive invariant `LoopInv` says where in the loop body each timer equals the sample
  (`Taken`), that the feed is the last 1 ms sample (`FedByTask`), that the faster branch is always
  the younger one (`Youngest`), and how `tick` relates to the time between start and last run.  `Beaten`
  says where in the body the heartbeat of the last multiple has been sent or is due; it stands because the tick moves by
  one, so that it cannot jump over a multiple.
* `DiagProofs`: `DiagTypeCorrect`, `NoFalseReport`, `NoMissedFault`, `QuietAtStartup`, `SwallowedOnlyInWindow`.  The
  invariant behind the first three bounds the streak of every fault by its counter (a fault that has lasted n
  calls has been counted n times or stands at the threshold), which is what makes `SustainedFaultShown` inductive.
  The last two rest on a lemma about unsigned differences: modulo the width of the tick, the difference of
  two ticks is the difference of the clocks, so it is the age itself while that is below the width.
* `ToolProofs`, patch driver: `PatchTypeCorrect`, `SuccessIsEarned`, `NothingIsAppliedTwice`, for every list of scripts, files and texts.  `Accounted` says that
  while the driver runs it has counted at least one failure for a script behind it whose exit status 0 would not have been
  `Earned`, and two for two of them; `Together` that a text which another keeps from being replaced has been replaced with it,
  also across interruptions, without which "already patched" would prove nothing.  `Guarding` says that, while the
  sentinel can be read and nobody forces, the texts the driver has not reached are not replaced, and that none is when the
  driver rests without a sentinel.
* `ToolProofs`, runner: `RunnerTypeCorrect`, `OverridesAreWithdrawn`, `OldFramesAreGone`, for every number of tests,
  restarts and crashes.  What the vECU's table will hold once the commands under way are read is `Eventual`, a
  function of table and socket: the value of the last command of a kind, found by its greatest position.  Reading
  leaves it as it is (`ReadKeepsEventual`), `clear()` makes it "off" for every kind because the list it sends
  covers the active ones (`SetIsListed`, `OffsWithdraw`), a crash empties table and socket together.  `CommandSteps`
  then reduces the runner's steps to five cases, and only where a test is running does one of them send.
* `ToolProofs`, end of a run: `EveryRunRunsDown`, `RestartsAreBounded` and `EveryBenchRunsDry` are what `RunEnds` and `BenchLeftClean` rest
  on apart from fairness: a rank (`left * PerTest + Stage`) that no step of either process raises and every deadline and every step
  that waits for nothing lowers; a bound on the restarts of a run; and, after its end, commands that only get fewer.
* `WebProofs`: `WebTypeCorrect`, `RestartReplaces`, `RestartsLeaveOneRunning`, `HistoryIsClosed`, `ClearReaches`, for any number of
  browsers.  The processes that a coroutine between its kill and its starts still owes are counted with those
  that run (`Bounded`): each coroutine kills all and owes one of each, so there are never more than coroutines.
  `Latest` says that whoever starts last holds the handle, `Alone` that a restart nobody cuts into finds nothing
  but what it has started, `Cleared` which kinds a clear has withdrawn at each of its awaits.
* `TelemetryProofs`: `VoltagesKeepApart` (the fields of 0x270 are disjoint bit ranges, so each survives the writes of the
  others), `DbTypeCorrect`, `SummaryIsSound` (a finite range of integers has a least and a greatest element; the block is
  upright but for the invalid range, `Upright`), and `ReplayKeepsTime`: `Punctual` ties the index to the number of rounds
  sent, with the moment in which it stands beyond the trip as a case of its own, because the code tests the end
  only at the next tick.
* `TelemetryProofs`, from the cell to the sidecar: `TemperaturesKeepApart`, `CellsComeAsSent`, `TemperaturesComeAsSent` and `NeverThreeRounds`, for all
  values of cells and sensors, every size of the socket and any losses.  The conversion between numbers and bits is a recursive function; the widths
  the code uses are fixed, so it is unrolled bit by bit (`NumberOfBits`) instead of proved by induction.  `InFlight` says that
  what is still to be sent is the end of the last round, and that the buffer holds frames of rounds or summaries and nothing
  else; `Held` that every entry of the sidecar's array is what a frame of the round it is attributed to says of that cell or sensor, or is marked as overwritten by a range of the vECU (`Summarised`); of
  such an entry the properties say nothing but that it is marked.
  For `AtMostTwoRounds` this is not enough: `Orderly` numbers the 0x270 frames, five to a round, and says that the sidecar has folded in
  exactly the first c of them while the buffer holds the rest in order, so that the round of each entry is a function of
  c (`LastRound`), and two such values differ by one at most.

Only model-checked: the liveness properties (`TransitionsEnd`, `AcceptedIsDelivered`, `EndsWhenAsked`, `PlantFollowsRequest`,
`OverrideIsRevocable`, `RunEnds`, `BenchLeftClean`), since fairness and ENABLED are outside the prover's reach.  Every safety property
of a passing run is stated by a theorem.  Only proved, without a run of their own: the theorems above whose property no run lists
(among them the type invariants, `CurrentNeedsRequest`, `RestartsAreBounded`, `EveryRunRunsDown`).

## 6. Not modelled

* **CAN HAL and mailboxes**: `canInit`, `canUpdateID`, `canTransmit` and `canGetID` keep a table that is written once per
  mailbox before it is read; the remaining stubs return constants.
* **foxBMS application**: a git submodule that is not in the tree.
* **FreeRTOS POSIX port**: vendored and not linked into the vECU, whose main loop replaces the scheduler.
* **HALCoGen headers**: vendored register maps and declarations without behaviour.  Most of the tree's lines of C
  are these headers and the port, which is why the models stand for a small share of its lines.
* **Main loop**: execution-time statistics, status log, the contents of the 100 ms probes but for 0x7F4 and 0x7F6.
* **Battery plant and trip replay**: thermal model, voltage model and filter, IVT frames, telemetry 0x600-0x607 (floating
  point that no other part decides on), the replay's contactor view and scaling.
* **ML sidecar**: windows, models and the predictions it sends; a window is a list that appends and drops its first
  element.  The scalar signals are copied from one frame each.
* **Web dashboard**: broadcast, event log, and the parsers of frames other than 0x7F9, which only copy values.
* **Fault-injection runner**: combinations of several kinds, tests that expect a warning or are skipped before they
  inject, reports, the escalation from SIGTERM to SIGKILL in `vecu_manager.py`.
* **Database injection**: the blocks PACK_VALUES, CELL_VOLTAGE and CELL_TEMPERATURE, which are overwritten without a condition.
* **Deployment, test suites, training, documents and generators**: no concurrency and no state that outlives a run.

Hazards without a property, with the reason in `PROJECT.json`: a bus that is faster than the read loop, an override
that makes the plant's `struct.pack` raise, the count of faults that wraps after 2^32 of them, the replay's temperatures, and
the latched preconditions with the cache they look at.  In each the code has nothing that could hold.  Covered in part
only, with a note: the age of what the sidecar's arrays mix once a frame was lost or a ramp has replaced them, the two
statics of 0x7F4 when only one of two values was plausible, and the second opening of the start-up window.
