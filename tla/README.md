# Omega Stick: a verification project

TLA+ models of the Omega Stick firmware, the TLC runs that check them on small
instances, and proofs, checked by TLAPS, of what matters most for every value
of the constants. All source paths below are relative to the repository.

The Omega Stick is an ESP32-S3 joystick: a magnetic sensor is polled over I2C,
its readings become HID mouse or XAC gamepad reports, and a browser console
calibrates, configures and updates the device over two USB links.

* [1. The system](#1-the-system): inventory
* [2. The modules](#2-the-modules): what models what
* [3. The runs](#3-the-runs): what TLC checks, the bounds, the fairness
* [4. The proofs](#4-the-proofs): what TLAPS proves, and how
* [5. Where the code and its comments disagree](#5-where-the-code-and-its-comments-disagree)
* [6. What is not modelled](#6-what-is-not-modelled) and [7. Plan](#7-plan)

## 1. The system

### Components

| Component | Source | State it keeps | Operations |
|---|---|---|---|
| Calibration services | `components/omega_calibration/include/calibration_service.hpp` | per USB link: `ota_owner_`, `holding_`, `after_reply_`, idle time; shared: the OTA engine, the output-hold counter, the recalibration gate | one handler per request, `run_after_reply`, `expire_stale_update` |
| Polling loop and boot | `main/main.cpp` | the hold sampled this iteration, the calibration it maps with, the input mode of this boot | boot order, health check, expiry, hold sample, gate, control tick |
| Recalibration gate | `omega_control.hpp` | idle, requested, running | `request`, `take`, `finish` |
| Control loops | `omega_control.hpp` | nudge, its window and baseline, needs-calibration | `mouse_tick`, `xac_tick` |
| Drift compensation | `omega_calibration.hpp`, `omega_control.hpp` | idle and last-nudge times | `update`, `drift_update` |
| Sensor fault monitor | `omega_calibration.hpp`, `omega_control.hpp` | fault, streaks of failed, good, identical and stale reads; published status | `failed_read`, `good_read`, the edge in `sensor_fault_update` |
| Settings store | `omega_store.hpp` | live calibration and settings under one mutex | setters, `snapshot`, `save_to_flash`, change callbacks |
| Persisted files | `omega_calibration.hpp` | calibration file, settings file | `save`, `load` |
| Calibration measurement | `omega_calibration.hpp` | samples of a sweep | `center_calibration`, `range_calibration` |
| OTA engine and slots | `sim/stubs/ota.hpp`, `sim/stubs/sim_flash.hpp` (the device's own are outside the repository) | two slots with otadata state, boot pointer, session | begin, write, finish, abort, switch, confirm, roll back |
| Firmware health check | `firmware_health_check.hpp` | pending, deadline, hold; the handover marker in RTC memory | `tick`, `rollback_now`, `reject_if_pending`, `revert_if_crash_looping`, `accept_after_handover` |
| Reset log | `reset_log.hpp` | the last boots and what ended them | `load`, `record`, `save` |
| TMAG5273 driver | `components/tmag5273` | the variant, the ranges and the other fields it has set | `initialize`, detection, setters (read a register, write it back), `read_magnetic` |
| HID reports | `components/xac`, `components/hid-rp-mouse` | none | packing |
| Console protocol and logic | `omega_protocol.js` | frame parser; pure update decisions | `decideOutcome`, `afterLinkLoss`, `judgeConfirmCheck`, reconnect step |
| Console page | `calibration_console.html` | transport, one pending request, the update in progress | `transact`, `runFlash`, reconnect, confirmation |
| Simulator's page server | `sim/src/ws_server.cpp` | the current client, the accept thread, a reader thread per client | accept and replace, messages, `close_client`, `stop` |
| Simulator's host | `sim/src/sim_host.cpp`, `firmware.cpp`, `main.cpp` | the link to the running boot, restart and wipe flags, the capture of replies, the data directory | boot after boot, control messages, requests, scripts |
| Release feed, tests, docs, site, CI | | | |

### How they interact

* **One service per link.** Each link's frames are handled on its own
  dispatcher task under that service's `mutex_`. The reply is sent after the
  mutex is released, and a deferred action (a reboot, a mode switch) runs once
  the transport has queued it, or is dropped when the transport refuses.
* **Shared between services and loop**, by atomics or single locked calls: the
  OTA engine, `output_holds`, the gate, the store.
* **The loop is the only thread that sends HID reports.** Each iteration runs
  the health check, lets both services expire a stale upload (`try_lock`),
  samples the hold once, takes a recalibration request, and ticks.
* **Callbacks.** Store setters call `on_calibration_changed` on the task that
  made the change; it reads the store again and writes into the loop's live
  joystick. `on_mode_changed` saves, waits 750 ms and restarts.
* **Reboots** run on detached threads 750 ms after the reply.
* **The console** (a page in a browser) sends one request at a time over one of
  the links and matches replies by type. Its async functions interleave at
  every await. An update takes it across the device's restart: the link goes,
  the page reconnects, finds out which image runs, checks it and accepts it.
* **Driver and monitor.** `main()` initialises the sensor or halts; each iteration
  reads it through the driver, and whether the read worked and changed is the
  monitor's input. A chip that loses its power keeps none of its settings while
  the driver remembers them.
* **The simulator** rebuilds the firmware in one process at every restart. Its
  main thread runs the boots and the script; a reader thread per page feeds
  requests to the running boot's service under `link_mu_`; a detached thread
  reboots after a reply. They meet in the link, `restart_reason_`, `wipe_` and
  the saved mode.
* **Across resets** only flash (slots, otadata, the two files, the reset log)
  and RTC memory (the handover marker) survive.

### What is hard, and what makes each part correct

*Services and loop.* Two links, the loop and the reboot threads interleave; the
engine, the gate and the hold counter are each safe alone, and the protocols
over them are not obviously so. Correct means: the counter equals its holders;
at most one owner of the engine's session, whose output is held; no hold
without a reason; no hold for ever; every accepted calibration answered once;
neutral reports while held, up to the one already sampled.

*Update, trial and handover.* Resets come between any two steps, power cuts
inside sequences of flash writes. Correct means: always something to boot; an
image on trial has a fallback and does not stay on trial; no swinging between
two bad images; nothing accepted by the firmware itself that never ran.

*Store and files.* Lock-per-call over a store several tasks edit, a loop with a
copy of its own, saves truncating and rewriting two files. Correct means: no
center with another sweep's range, no console edit reverted by a drift
correction, no output on a boot without a calibration, a mode switch that
completes.

*Console.* Replies carry no request id, any request or reply may be lost or late,
the link and the device may go at any await, and the same version may be in
both slots. Correct means: the page says of the device what is so, keeps no
image that did not answer all its checks in that boot, and always ends.

*Monitor and control.* Streaks that reset each other; four reasons for neutral
output that meet in one tick; nudge bookkeeping that must not survive a break.
Correct means: a dead or frozen sensor is a fault in time, a healthy one is
trusted in time, status and fault agree, no motion or click from data that
cannot be trusted.

*Driver.* A transaction may fail between the read and the write of a register, or be
reported as failed and have taken effect; the chip may restart, or the
controller alone, in the middle of `initialize()`. Correct means: what is
remembered is what the chip has, and no reading is scaled for another range or
part than it was made with.

*Simulator.* A page may connect, send and be replaced at any step of a boot's
end, while the script's requests, on the main thread, wait for the same link.
Correct means: no request in a service that is gone, no main loop stuck at the
link, no saved mode that never runs, every restart and wipe served, and a
program that ends when told to.

`PROJECT.json` lists the hazards with their lines and the properties that
watch them.

## 2. The modules

```
UploadLease  <-- refined by --  OmegaDevice  extends  CalibrationService
                                     MCOmegaDevice (TLC), OmegaDeviceProofs (TLAPS)
FlashSlots  <--  FirmwareUpdate      FirmwareUpdateProofs
SettingsStore                        SettingsStoreProofs
SensorFaults <--  ControlTick        SensorFaultsProofs  <--  ControlTickProofs
Tmag5273, SensorFaults  <--  StickSensor        StickSensorProofs
PageServer  <--  SimHost             SimHostProofs
FlashSlots  <--  ConsoleUpdate       ConsoleUpdateProofs
```

The device is cut along what its parts share. Each module keeps the control of
its part and reduces the rest to a choice; the same code can appear in two
modules seen from two sides (the gate, the health check, the hold).

**CalibrationService** — the services' shared protocol. One action per request
or per group of requests with the same effect; `Receive` is the free dispatcher.
OTA_BEGIN and REVERT are two steps, because the erase and the image check take
long enough for everything else to happen meanwhile. `HoldOutput` is
`hold_output()`, `EndUpload` the common end of an upload, `ReplyQueued` and
`ReplyRefused` the two results of the send in `run_after_reply`. Whether the
engine succeeds is a choice.

**OmegaDevice** — CalibrationService with the loop (`loop` is its program
counter), the health check it drives, timers, reboot threads and resets. `late`
is a history variable. A service whose mutex is taken by a handler (`Locked`)
is skipped by the expiry.

**UploadLease** — the promise, without links, replies or threads: a lease of the
engine is granted only to a device whose output is held, lasts under that hold,
and ends before another begins. `OmegaDevice!ImplementsLease` maps `owners` to
the lease and `output_holds > 0` to the hold.

**FlashSlots** — the slots, one operator per call, as `sim_flash.hpp` keeps them
(the source of the behaviour of `esp_ota_ops` in this repository), with the
bootloader's choice. **FirmwareUpdate** — the boot sequence of `app_main` up to
the loop, the health check's rollback, the crash-loop handover with its marker,
and the console's update requests, with a reset between any two. `ran` counts
how often the image in a slot was started since it was written; `switches`
counts slot changes since the host or a power-on last chose. Both are history.

**SettingsStore** — every setter, the callback read by read, the loop's copy,
drift write-back, sweep, and the save file by file. Calibrations are known by
the sweep that measured them and their trim. A save that fails is a choice
(`FileOutcomes`). `wanted` and `asked` are history.

**SensorFaults** — the monitor with the streak it counts per kind of poll, the
loop's edge detection and the published status. `failing`, `frozen` and
`steady` say what the chip really did, independently of the monitor's streaks.

**ControlTick** — one tick of `mouse_tick` or `xac_tick` after another, on top
of SensorFaults: the precedence of hold, request, fault and step, nudge entry
and exit, drift, and the sweep. Positions are a magnitude and a direction. The
joystick keeps the last position that was read.

**ConsoleUpdate** — one update, Revert or confirmation by hand as the page runs
it, with the device as it answers over one link. The page's functions are the
flows `main` (`runFlash`, Revert, Restart now, `afterReboot`), `conn`
(`onConnected`), `report` (`onUpdateReconnected`), `confirm`
(`confirmFlashedImage`) and `hand` (the Mark valid button); `pc` says at which
await each is, and a step is what happens from one await to the next. `waiting`
and `txn` are `txnChain` and `pendingTxn`; `Answers` is the match by type.
`phase` and `job` are the page's `upd`, `seeking` is `autoReconnect()`, `said`
what it last told the person. `Runs` is what follows without waiting for
anything, and goes first (`MustRun`). The link delivers in order and loses what
is on it when it goes; a reply the transport refuses is lost with the deferred
restart. The device is FlashSlots with a boot, a restart, the deadline's
rollback, crashes, and one `Answer...` action per request. `vetted`, `job.slot`,
`job.trial` and `origin` (the update that a slot was erased for) are history.

**Tmag5273** — the driver, transaction by transaction: `IsConnected`,
`DetectVariant`, then for every field `ReadsRegister` and `WritesRegister`,
which is `initialize()` (the fields of `SetupOrder`) and every setter (`Calls`
puts one field in `todo`). A register is the fields in it, each with two of its
values; a raw result is known by the ranges it was measured with, so that
`FullScale` can be compared between the chip and the driver. The chip
(`Converts`, `PowerCycles`) and the bus are external. `doubt`, `unmeasured`,
`revived`, `lost` and `detected` are history. **StickSensor** — the driver under
the loop's polls and the monitor of SensorFaults: a poll fails while the bus is
down, is `frozen` while nothing is converted, and otherwise what the conversion
made it. `reading.sure` is the set of axes whose range is beyond doubt: a field
whose last write failed and took effect, or was written after the last
conversion, is not, and neither is anything once a client has started a chip
again that had lost its settings. `blind` is history.

**PageServer** — the WebSocket server: the accept thread (handshake, replace,
announce), a reader per connection, and `stop()` step by step.
**SimHost** — the simulator on top of it. `fw` is the main thread's step, from
`boot()` through the loop, the end of a boot (`Unlinks`, `Leaves`), the data
directory (`ErasesData`) to the next one; `lock` and `phase` are `link_mu_` and
how far its owner is, so a mode switch holds the link through its 750 ms
(`FeedsMode`, `ModeFlushed`) and `clear_link()` waits for it. What the firmware
does in its loop is left to the other modules; a headless run is the same main
thread without a server. `owed` is history.

**MCOmegaDevice** gives OmegaDevice its symmetry set. The other modules have
constants TLC takes as they are, so their `.cfg` files name them directly.

## 3. The runs

| Run | Question | Result |
|---|---|---|
| `device` | hold accounting, upload ownership, gate and late reports with two links, and the refinement of UploadLease | holds |
| `release` | is everything a vanished host left behind released and answered? (liveness) | holds |
| `firmware` | bootable, fallback, bounded switching, no acceptance by the firmware itself of an image it never started, trials end (liveness) | holds |
| `settings` | calibration and trim under concurrent edits, drift, sweeps, saves and power cuts | holds |
| `sensor` | the driver under its monitor: fields set, readings scaled as measured, a chip that lost its power found out | holds |
| `control` | faults raised, reported and cleared as they should; neutral when untrusted; nudges earned | holds |
| `console` | the page's verdicts are true, nothing is kept unchecked, every update ends (liveness) | holds |
| `simulator` | one client, no request in a boot that is gone, a saved mode comes to run; the loop never stuck at the link, wipes, restarts and stops served (liveness) | holds |
| `held_until_reboot`, `confirmed_stays`, `switched_reported`, `wiped_again` | what a comment claims, one each | violated, see section 5 |

### Bounds, and why they are enough

* `device`, `held_until_reboot`: two links, as on the device, and its two modes,
  symmetric. Counters need no bound: `output_holds` is at most one per link and
  one for the health check. `late` stops at its type bound, above what is
  claimed. Time is abstract (a timer may elapse at any step), so every
  ordering of timeouts and steps occurs.
* `release`: one link and no symmetry, since symmetry is not sound for
  liveness. Two links matter to safety; the release of one link's hold does not
  wait for the other, whose own reason is dealt with in the same way.
* `firmware`: two slots as in the partition table, `CrashLoopResets = 2` (the
  device: 3) and `LogEntries = 3` (the device: 16), so that a loop needs more
  than one crash and the log overflows within few boots. The theorems
  hold for every threshold and length. `MaxRan` caps a history counter at
  one above the threshold, `MaxSwitches + 1` caps the other above the claim.
* `settings`: one link and the loop, one sweep, two trims. The races are
  between a dispatcher task and the loop; a second link's task would be
  another editor of the same kind (`Links` takes more: with two, the run
  exceeds its budget). At most `MaxSweeps` sweeps are run because a sweep's
  number is its identity.
* `sensor`: small thresholds (1, 2, 2 and 1), three events (failures of bus or
  power, restarts of the controller, settings changed), one part that is
  detected. Three events are a failure in `initialize()`, another while that
  one is dealt with, and a setter. `FullScale` of the other parts and variants
  is a table; the theorems hold for all of them, any thresholds and any number
  of events.
* `control`: small thresholds with both stuck detectors on (`StuckAfter = 2` above
  `StaleAfter = 1`, as 500 is above 50; `sensor` has them equal), two magnitudes above rest, two
  directions (one that clicks, one that scrolls), both loops and every kind of
  poll. Dwell and interval are 1 and 2 ticks: ages saturate at
  their limits, and the code only compares them with those. The monitor's own
  properties are checked here, in its composition; its theorems hold for any
  thresholds.
* `simulator`: two connections (one that is replaced and its successor), two
  events (messages from pages, boots that fail) and a script of one request, so
  that three causes of a restart meet, each of another thread.
  `wiped_again` is the same
  without scripts from pages.
* `console`: one update, one crash, power cut or pulled cable in it, two versions
  (so that the slots hold the same or different ones), a first image that is
  accepted; `switched_reported` also starts from one on trial. `MaxInFlight = 1`:
  a transaction may time out with one message of it still on its way, which is
  the late reply. Four of them, each answering the request after its own, do break
  `NotInstalledIsTrue` (section 5): it is a statement about few late replies. Two
  updates (`MaxUpdates = 2`, the invariants only: 8.8 million states) pass too, and
  take longer than a run should.
  Two polls stand for the sensor's waiting time (`SENSOR_WAIT_MS`). Two times
  are compared with each other, as the code's constants do: the wait for the
  link to go (`DROP_WAIT_MS`, 15 s) outlasts a deferred restart (750 ms), and
  the discovery after a connect is over before a person has agreed to an
  update.

Deadlock checking is off in the runs of ConsoleUpdate, where a page whose update
has ended may wait for its person for ever; of SimHost, whose program ends; and of
StickSensor, where a driver that halted at boot waits for events the bound
counts. It is on in every other run.

The type invariants of FirmwareUpdate, SettingsStore, ControlTick and ConsoleUpdate
(`TypeOK`) document the shape of their states. They are not among the
properties of the runs, which are spent on what could go wrong; all of them are
theorems (section 4). To check one with TLC, add it to the run's `.cfg`.

### Fairness

*OmegaDevice*: weak fairness of the loop, the health check's timers, a sleeping
reboot thread, each dispatcher that has a frame in hand, and the idle timeout.
These are FreeRTOS tasks and timers that run as long as the chip does; an erase
ends, well or not. Nothing is assumed of the host, of resets, or of which way a
choice goes. *FirmwareUpdate*: weak fairness of the boot's steps, of
initialisation and of the health check and reboot threads. Resets may go on for
ever and the host may stay silent. The other modules need no fairness: what
must happen there is stated as a safety property over a state in which it is
due (`RecoveryDue`, `ModeTakesEffect`).

*SimHost*: weak fairness of the main thread, of the accept thread, of the detached
thread (a sleep ends) and of each reader while it has something to do: it gets the
mutex in the end, and a socket that was shut ends it. None for pages, for
boots that fail, for a rollback or for the interrupt. The bound on events leaves the
readers only so many requests: `LoopGoesOn` is about threads that wait for each other, not
about a loop starved by pages that never stop asking for the mutex. `WipeDone` and
`RestartServed` have the end of the program as their other outcome.

*ConsoleUpdate*: weak fairness of the device (it serves its queue, restarts once
it has deferred a restart, keeps its deadline, boots) and of what the browser
schedules: frames that came, timers that were set, the port's disconnect event,
`autoReconnect()`'s attempts. None for what a person does, for the end of the
reconnect window, or for faults. `UpdateSettles` therefore counts as an end the
states in which the page has left the rest to the person, and
`waiting_rollback` on a device that will not go back.

`AbandonedHoldReleased` and `CalibrationAnswered` are conditioned on the host
having gone: a host may hold the output as long as it likes by keeping an upload
alive, and only an idle one is expired. `TrialEnds` asks for a rollback that is
possible: without a fallback the code leaves the image on trial and warns.

## 4. The proofs

Each proof module extends the module it is about. Assumptions are the named
`ASSUME`s only: `LinksAssumption` (finitely many links), `ModesAssumption`,
`LimitsAssumption` (thresholds positive; the console's bounds natural),
`SaveAssumption`, `ConfigAssumption`, `TmagAssumption` (which parts and overrides
there are), `EventsAssumption`, `PagesAssumption` and `SimAssumption` (the sets of
messages, the bounds natural), `TasksAssumption` (the loop is no link),
`TrimsAssumption` (the trim of a fresh board, 0, is one), `BoundsAssumption`, `FilesAssumption` (a file
operation succeeds or fails), `ControlAssumption` (magnitudes and limits),
`VersionsAssumption` (an image has a version) and `FirstAssumption` (the first image is
accepted or on trial).
The bounds are constants like the others, so that a theorem holds for every
number of pages, steps, events.

**OmegaDeviceProofs**, for any finite set of links.

* `TypesCorrect`: `TypeInv`, everything but the bound of `late`.
* `HoldCountCorrect`: `CountInv` adds to HoldCount that a loop in the rollback
  has its health check off, or the check would be counted twice. The heart is
  `HoldStepCounts`: a step of one holder moves the cardinality of `holders` by
  what it adds to the counter.
* `UploadExclusiveCorrect`: `UploadInv` adds what a dispatcher in the middle of
  an erase holds. Otherwise BeginSucceeds could create an owner without a hold.
* `HoldHasReasonCorrect`: `ReasonInv` states the reason per link (`LinkReason`)
  and is needed with the upload invariant: REVERT and the idle expiry release a
  hold only when they ended the upload it was for. A coming reboot is a reason
  that only a reset takes away (`RebootStaysComing`), and other links'
  steps leave a link's reason alone (`OtherLinks`).
* `CalibrationOwedCorrect`: inductive as it stands, given the types.
* `OneLateReportCorrect`, `NeutralAtRollbackCorrect`: `SampleInv` relates the
  sampled hold to the counter at every point of the loop: once a late report
  was sent, the next sample sees the hold; between the health check's hold and
  its rollback there is a whole iteration.
* `DeviceTypesCorrect`: the types the run checks, the bound of `late` among them,
  which is what `SampleInv` says of it.
* `ImplementsLeaseCorrect`: each step grants, returns, changes or stutters;
  `OwnersStep` says how `owners` may change, `OwnerHeld` why a lease is held.

**FirmwareUpdateProofs**, for any threshold, log length and save outcomes.

* `AlwaysBootableCorrect`, `TrialHasFallbackCorrect` from `FlashInv`. They are about
  complete images: whether the slot to boot was given up on, or the fallback ever
  accepted, is not part of them. Besides the property, an image that is NEW or PENDING has a complete image in the *other*
  slot (`TrialsBacked`), after the bootloader only the running slot is pending
  (`BootSwept`), and a boot about to hand over has somewhere to go
  (`HandoverTarget`). `TrialsBacked` is what survives the erase: OTA_BEGIN is
  refused while the running image is pending.
* `AcceptedRanBeforeCorrect` from `RanInv`, about the firmware's own acceptance after a
  handover and not the host's MARK_VALID: what runs was started, what a
  handover points to was started before, from the decision to the marker to
  the boot that accepts.
* `SwitchesBoundedCorrect` from `SwitchInv`, by a measure: `SwitchesLeft` is what
  the device may still switch by itself, two at most (an image to be tried, or a
  handover, and the way back), and every switch uses one up, so that
  `switches + SwitchesLeft <= MaxSwitches` is kept by every step that is nobody's
  choice. That a slot once left is not taken again needs the states the bootloader
  leaves (`SlotsSettled`) and the marker at each step of the boot (`MarkerTaken`): a
  handover is spent before the slot is switched, and a rejected image is no target.
* `FirmwareTypesCorrect`: with the above, `BootTypes`; the reset log stays within its
  entries although `record()` appends before it drops (`RecordBounded`).

**SettingsStoreProofs**, for any set of links, any trims and number of sweeps, and
whatever file operations fail: one invariant, `StoreInv`, for five theorems.

* `CalibrationMatchedCorrect`: inductive with the types, since `SetMeasured` replaces
  a sweep's center and range in one call, and every snapshot, the loop's read-back and
  a file's contents are taken in one. What the joystick maps with is left out of it:
  the change callback reads that in pieces (section 5).
* `TrimKeptCorrect`: inductive with the types; `set_measured_calibration()` reads the
  offset from the store at the moment it writes.
* `QuietUntilCalibratedCorrect` needs `SweepStored`: from the read-back of a sweep on
  its result is in the store and in the loop's copy, so that the save which ends the
  hold ends it over a calibration.
* `ModeTakesEffectCorrect` needs `JobsOfTasks`: a mode is saved and restarted for by
  the link that set it, and no other task's step takes that job from it.
* `StoreTypesCorrect`.

**SensorFaultsProofs**, for any thresholds: `SensorInv` ties the monitor's
streaks to what the chip did (`Failures`, `Streaks`, `Frozen`) and the
published status to the fault (`Reported`). The types follow, and the four
properties that `control` checks of the monitor: `LossIsFault`,
`HealthyIsObserved`, `RecoveryDue` and the action property `RecoveryEarned`.

**ControlTickProofs**, on top of these, for any thresholds, magnitudes and limits.

* `ControlImplementsSensor`: each step of the loops is a poll of the monitor or leaves
  it alone, so that ControlTick implements SensorFaults (`SensorSpec`), and the four
  properties hold in both loops (`ControlFaultsCorrect`).
* `QuietWhenUntrustedCorrect`: inductive with the types; the tick is followed in the
  order of its early returns (`TickCases`).
* `NudgeEarnedCorrect` needs `BaselineSeen`: while the mouse loop measures
  pushes from a baseline that is not `blind`, that is no lower than the lowest magnitude
  read since the last break. A fault, and a sweep until it ends, stop the measuring,
  and it then starts anew. `SeenSince` says that the joystick stands where it was read
  since the break, if it was read at all. A baseline set at a break whose own read
  failed or brought no conversion is left out of the property, since from it the code
  does click on a stick that is held still (`NudgeNeverStale`, section 5).
* `ControlTypesCorrect`.

**StickSensorProofs**, for any thresholds, parts and overrides, and any number of
failures.

* `ConfiguredCorrect` from `DriverInv`. It is about a chip that has kept its power since
  it was set up, and about all fields but those in `doubt`, whose last write took effect
  and was reported as failed: there the driver does remember another value. A field that is not in `todo` any more is
  set (`Done`), which takes that the register that was read has not changed
  since (`HeldIsChip`) and that `todo` has what the driver is configured with
  (`Rest`).
* `ScaledAsMeasuredCorrect` from `ScaleInv`. The property alone is not inductive: a
  power cut between a range and the channels leaves a chip whose ranges are not
  the remembered ones. What saves the reading is the order of `initialize()`
  (`ChannelsFirst`): either the chip has the remembered ranges (`RangesSet`), or
  it lost its power, its channels are off or it is in standby, and nothing
  under way changes that (`Silenced`).
* `LostIsFaultCorrect` (for `StuckAfter > 0`): a chip that measures nothing reads
  the same at every poll, and `Blindness` ties the number of such polls to the
  monitor's streak.
* `StickFaultsCorrect`: the monitor's properties under the driver and across restarts
  of the controller, the only other way a fault ends.
* `StickTypesCorrect`.

**ConsoleUpdateProofs**, for any versions and any number of updates, resets, and
requests and replies in flight (one theorem apart), from one `ConsoleInv`, with
`BootInv` for what can be booted and `WordInv` for what the page may say.

* `VettedBeforeKeptCorrect`. The property speaks of the device at the moment it handles
  MARK_VALID; what the page did to get there is long past, so that the invariant
  carries it, from the answer to a check to the page that reads it (`Vetted`: an
  answer on the wire tells of this boot, and the check is in `vetted`), from check to
  check (`Passed`) and to the request on its way. A link that goes empties the wire
  with the boot. Two things could break the chain. A second function of the page could
  act in the middle: `Queued`, `ConfirmAlone`, `ConnFirst` and `Settled` say that each
  request has one owner, that nothing decides about the update while the checks run,
  and that they begin only from what was read of the image on trial. And a late
  FW_INFO could start the checks on an image accepted meanwhile: `InfoOrder` says that
  what tells of a trial comes before what tells of none.
* `ConsoleKeepsBootable` from `BootInv`: whatever a page sends and however late, there
  is a complete image to boot, and one to go back to while on trial. An open session
  means that the boot slot is the running one and not on trial.
* `ConfirmedMeansKeptCorrect` from `WordInv`, for any number of late replies. It does
  not take that a reply answers its own request; what it takes is that the page
  decides by what FW_INFO tells, and that any FW_INFO it can still read, however
  late, tells of something that has not changed since. Between two boots the boot
  slot differs from the running one only for an image still to be tried (`Started`),
  so that a FW_INFO on the link tells of this boot, and one that tells of no trial
  tells of an image that stays (`Told`): the link that brought it is gone before
  another image runs. An update's requests leave the page only while the image it
  was planned from runs (`Agreed`), and only they write to the other slot, so that
  the image the update was planned from is the one kept there (`Remembered`). What
  the checks say is then about the update's slot until the link goes (`Confirming`),
  and so is the verdict (`Said`), which nothing takes back afterwards: the device
  puts no image on trial, and erases none, but for a request the page sends in a
  later update.
* `NotInstalledIsTrueCorrect`, for `MaxInFlight <= 1`: one message at most is late when a
  request times out. The hypothesis is needed (section 5 has the counterexample for
  four; about two and three nothing is claimed), and the run checks the property at
  this bound. Two invariants carry it. `MatchInv` says that each reply an update acts
  on is its own: at most one late message is on the link beside main's own (`OneLate`),
  the plan's read takes it (`Planning`, `Planned1`), what the other functions ask
  during the upload is FW_INFO, and asked before (`HandFirst`), so that an OK or ERROR
  read at OTA_BEGIN, OTA_DATA or OTA_FINISH answers that request (`OwnLast`), and a
  FW_INFO read by the probe was sent after OTA_FINISH had been handled (`FinishFirst`).
  `UploadInv` follows the image, with `Fresh(s)` for a slot that has the complete image
  of the last update: OTA_BEGIN's OK means that the slot has the file's version
  (`Uploaded`), a fresh image exists only once OTA_FINISH was handled, with no ERROR
  and no further request of the update on the wire, and a FW_INFO that shows the old
  image both running and set to start is believed only if it still is so (`FreshIs`).
  From then on the device does not go to the fresh image by itself (`StaysBack`).
* `ConsoleTypesCorrect`.

**SimHostProofs**, for any number of pages, steps and events, from one `HostInv`:
`Owner` says which thread may own the link's lock and in which step, `Linked`
when the link is set and the boot alive, `Mode` that a mode that differs from
the saved one has a restart pending or under way, and `Accepting` what the
accept thread holds. `LinkServesCorrect` follows because `clear_link()` takes
the lock a request holds until its reply is out; `OneClientCorrect` and
`StoppedMeansJoinedCorrect` from the order of `stop()`; `ModeFollowsCorrect`
because a boot reads the mode after the last switch that could save one let go
of the link.

*Only model-checked*:

* Liveness (`AbandonedHoldReleased`, `CalibrationAnswered`, `TrialEnds`,
  `UpdateSettles`, `LoopGoesOn`, `WipeDone`, `RestartServed`, `StopCompletes`): neither liveness
  under fairness nor ENABLED is within the prover's reach.
* `NotInstalledIsTrue` with more than one late message has no theorem: it is not so for
  every value of the bound. Section 5 has the counterexamples, where replies that are
  late by several requests answer OTA_FINISH or the probe after it.

Induction over data and RECURSIVE operators are out of the prover's reach too; no
module here uses either.

## 5. Where the code and its comments disagree

Four runs show a state or a step that a comment or a test in the code excludes;
`PROJECT.json` quotes them.

1. `held_until_reboot`. One `holding_` flag per link: a later request on the
   same link whose reply is refused lowers the hold that a reboot to come was
   given.
2. `confirmed_stays`. `rollback_now()` asks whether the image is pending and
   then marks it invalid; a confirmation between the two is overruled.
3. `switched_reported`. `decideOutcome()` takes the boot slot as switched only
   when the running image is not pending. After a Revert from an image that is
   itself on trial, with the reply lost, the page says that the previous firmware
   did not start and offers no Restart now, though the slot is switched.
4. `wiped_again`. When the wipe is what ended the boot, `reason == "wipe" ||
   host.take_wipe()` (`main.cpp:235`) is decided by its left side and `take_wipe()` is
   not called: the flag stays set, and the next restart of any kind, a crash or a reset,
   takes it and erases the data directory once more, though no page asked for that
   (`sim_host.hpp:120` has the flag as true after a `wipe` message).

Four more are stated beside the models and have a `.cfg`, outside the project's
runs (`tlc -config MCCrashLoop.cfg FirmwareUpdate` and so on):

* `OnlyOwnCrashes` (FirmwareUpdate, `MCCrashLoop.cfg`). Crash records are kept by
  slot label and survive an upload into that slot: a new image can be given up
  on for its predecessor's crashes.
* `NudgeOnlyByUser` (SettingsStore, `MCNudge.cfg`). Settings are truncated and
  rewritten in place; the empty file a power cut leaves loads with nudge clicks on.
* `NudgeNeverStale` (ControlTick, `MCStaleNudge.cfg`). When the read at the end of a
  sweep or a hold fails or brings no conversion, the nudge's baseline is the position
  from before it (`omega_control.hpp:499`; the comments at 364 and 456 exclude it), and
  the first read that works makes a click of where the stick is held. The same goes for
  the first reads after a boot.
* `HeadlessInOrder` (SimHost, `MCHeadless.cfg`). A headless run waits for the reboot
  it asked for before simulated time moves on; any other request to restart ends
  that wait, and the reboot comes in a later boot.

Met while modelling and visible in the models, without a run of their own:

* The change callback reads center, range and settings with separate locks and
  can mix two sweeps in the joystick until the next change (`main.cpp:634-639`).
* Every save rewrites both files, so a power cut during a mode switch can cost
  the calibration (`omega_calibration.hpp:255-258` keeps the files apart so that a
  settings change never risks it).
* Two saves that overlap can leave the older snapshot in the files
  (`omega_store.hpp:246`: the snapshot is taken before the writes, and the
  writes are not serialised).
* An edit between loading the files and publishing the joystick is in the store
  but not in the joystick (`main.cpp:911`).
* The published fault is the kind at the edge; a later trip of the other kind
  is not published (`omega_control.hpp:436`, `calibration_service.hpp:374`).
* A hold raised after the sample does not stop the request from being taken in
  the same iteration, so a sweep may run during an update, with neutral output
  (`main.cpp:950-952`).
* Drift's idle time spans holds and faults, so the center can be corrected on the
  first tick after one (`omega_control.hpp:227`, `453`).
* When the link goes again during the discovery or the reads that follow a
  reconnect, the page stays in "rebooting" with nothing looking for the device, or
  says at once that it did not come back (`calibration_console.html:2764-2786`,
  `4297-4313`; `docs/firmware-updates.md:116-118`). `LeftToPerson` is this state.
* A Revert's probe after a lost reply expects the same type as its plan's read of
  FW_INFO, with nothing between them: a late reply to the plan's retry answers
  the probe, and the page says that nothing was switched
  (`calibration_console.html:2907-2909`). A Flash has other requests between.
  `NotInstalledIsTrue` is about flashes for this reason (a Revert uploads nothing).
* Several replies late in a row shift every answer by one request or more, since
  nothing in a frame says which request it answers (`calibration_console.html:2907-2909`).
  Two ways lead to "not installed" about an image the device is about to start. With
  three updates tried in a row on a link that answers after each timeout
  (`MaxUpdates = 3`, `MaxInFlight = 4`, no faults) a stale FW_INFO answers the probe
  after OTA_FINISH, from before the switch. And with the Mark valid button pressed again
  and again before any answer comes (`MaxUpdates = 1`, `MaxInFlight = 11`, a first image
  on trial) the ERROR to the last press answers OTA_FINISH. A link as slow as that
  is unlikely over USB; the page recovers the next time it reads FW_INFO.
* After a Revert from an image on trial with the same version in both slots, the
  page can check and confirm the image it meant to leave: a FW_INFO has the slot,
  the decision uses the version (`omega_protocol.js:615-667`). `ConfirmedMeansKept`
  leaves `job.trial` out for this reason.
* "Waiting for rollback" never ends by itself when the other slot is no
  rollback target, or a hand has kept the image and the read after it failed.
* In the simulator, the reply to a request goes to whoever is the current client when
  it is sent: a page that was replaced while its request was served has its reply
  sent to its successor (`ws_server.cpp:338`). `announce_rebooting()` closes whichever
  client is current then, and one that connects just before is closed with the
  announcement of a boot it never saw (`sim_host.cpp:111-118`).
* A page that connects between two boots of the simulator is told the mode of the
  one before.
* A version that cannot be read leaves the driver at the A2 part's scale, without an
  error (`DetectVariant`); on an A1 part every reading is then scaled by the wrong
  full scale, against a calibration made with the right one. `ScaledAsMeasured`
  therefore takes the part from `detected`.
* `trigger_conversion()` clears bits of DEVICE_CONFIG_1; the operating mode is in
  DEVICE_CONFIG_2 (`TriggerConversion`).
* A chip that lost its power while a fault is shown can be trusted again for up to
  the identical-reading window, since fewer good reads clear a fault than identical
  ones raise one (`LostIsFault` bounds this window).
* A page reconnecting over Web Serial takes the only granted port that matches,
  which may be another stick's (`omega_protocol.js:1177-1189`).

## 6. What is not modelled

* Byte layout, parsing, wording, progress messages, sizes of movements, the
  statistics of a sweep, the deadzone override's values.
* Data races: `live_joystick` is a plain pointer written by the loop's task and
  read by the dispatchers'; the model has the window in which it is not set,
  not a torn write.
* Integer widths: the monitor's `failed`, `good` and `good_reads` count up
  without saturating in the code; the models saturate them at the threshold,
  beyond which the code compares only with `>=`. They would overflow after
  months of uninterrupted polls.
* `espp::Ota`, ESP-IDF and the bootloader of the device: outside the repository;
  the simulator's stand-ins are modelled.
* The reset log's temporary file and rename: a save succeeds or fails whole.
* The loop's delay during a sweep is one step, of any length.
* Of the console: the Disconnect button, several sticks, the release feed and the
  file checks, firmware too old to report or be updated, the controls for
  calibration and settings, rendering, and the GET_STATE that goes with each
  connect. An upload is one chunk, the descriptor's; its idle expiry is
  CalibrationService's.
* Of the driver: getters, single-axis, temperature, angle and magnitude reads and raw
  register access, which keep no state; the arithmetic of the counts. A field has two
  of its values.
* Of the simulator: telemetry and its JSON, expectations, the stick and the field
  model, the WebSocket handshake and framing, the clocks. A script is its requests;
  that it takes its own replies is one comparison of thread ids (`sim_host.cpp:134-141`),
  which the model takes as it is.
  Its flash is FlashSlots, in FirmwareUpdate.
* HID packing, the script language, the release feed and docs
  (`PROJECT.json` has the reason for each component).

## 7. Plan

Written, in this order: CalibrationService, OmegaDevice, UploadLease with their
proofs; FlashSlots, FirmwareUpdate with proofs; SettingsStore; SensorFaults
with proofs; ControlTick; ConsoleUpdate; PageServer, SimHost with proofs; Tmag5273,
StickSensor with proofs; the proofs of SettingsStore, ControlTick, ConsoleUpdate and of
`SwitchesBounded`. To come:

1. Proofs: whether `NotInstalledIsTrue` holds with two or three late messages; shared
   steps of the proofs as lemmas of FlashSlots.
2. **ConsoleUpdate over FirmwareUpdate**: the device's half of ConsoleUpdate shown
   to be the one of FirmwareUpdate, with the crash-loop handover, which may change
   the running image while the page reconnects.
3. **A second stick**: the choice among granted devices at a reconnect.
4. **CalibrationSweep**: phases, sampling loops, abort on a failing sensor, and
   the results they report; **ResetLogFile**: the temporary file and rename
   with a cut between any two operations; **FrameParser**: resynchronisation,
   as a function checked against a reference definition.
