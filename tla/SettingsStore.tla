---------------------------- MODULE SettingsStore ----------------------------
(***************************************************************************)
(* The live calibration and settings, and their two files (omega_store.hpp,*)
(* omega_calibration.hpp).  The links' dispatcher tasks and the control    *)
(* loop share the store; its mutex makes each call of it atomic, but not   *)
(* the change callback, which reads it piece by piece, nor a save, which   *)
(* writes two files from a copy.  A power cut may come between any two     *)
(* steps.                                                                  *)
(*                                                                         *)
(* A calibration is known by the sweep that measured it (0 is none) and    *)
(* its manual trim; the settings by the nudge switch and the input mode.   *)
(* Drift correction moves a center without making it another sweep's.      *)
(***************************************************************************)
EXTENDS Naturals

CONSTANTS
  Links,        \* the links of the calibration console
  Loop,         \* the control loop's task
  Trims,        \* manual offsets; 0 is MANUAL_OFFSET_X/Y
  MaxSweeps,    \* bound: sweeps measured
  FileOutcomes  \* what opening or writing a file may return

ASSUME TasksAssumption == Loop \notin Links
ASSUME TrimsAssumption == 0 \in Trims
ASSUME BoundsAssumption == MaxSweeps \in Nat
ASSUME FilesAssumption == FileOutcomes # {} /\ FileOutcomes \subseteq BOOLEAN

Tasks == Links \cup {Loop}
Modes == {"MOUSE", "XAC"}
Centers == [sweep : 0..MaxSweeps, trim : Trims]
Ranges == 0..MaxSweeps
Calibrations == [center : Centers, range : Ranges]
Settings == [nudge : BOOLEAN, mode : Modes]
Snapshots == [calibration : Calibrations, settings : Settings]
FileStates == {"missing", "cut", "whole"}

NoCalibration == [center |-> [sweep |-> 0, trim |-> 0], range |-> 0]
DefaultSettings == [nudge |-> FALSE, mode |-> "MOUSE"]
Defaults == [calibration |-> NoCalibration, settings |-> DefaultSettings]

VARIABLES
  store,     \* OmegaStore: calibration and settings, under its mutex
  pc,        \* per task: the step it is at
  job,       \* per task: what it does it for
  copy,      \* per task: the calibration its callback has read, then applies
  snap,      \* per task: the snapshot its save writes
  own,       \* the control loop's calibration
  joystick,  \* the calibration the live joystick maps with
  live,      \* live_joystick is set
  needs_calibration,
  mode_now,  \* XAC_SELECTION: the mode this boot runs
  files,     \* per file: its state and what it holds
  wanted,    \* history: the trim asked for last, in this boot
  asked      \* history: the user has switched nudge clicks on

taskVars == <<pc, job, copy, snap>>
deviceVars == <<own, joystick, live, needs_calibration, mode_now>>
historyVars == <<wanted, asked>>
vars == <<store, taskVars, deviceVars, files, historyVars>>

Jobs == {"none", "edit", "save", "drift", "drift_save", "sweep"} \cup Modes
Reading == {"read", "read_range", "read_center", "apply"}
Saving == {"snapshot", "open_cal", "write_cal", "open_set", "write_set"}
Steps == {"idle", "starting", "switch", "readback", "push", "flush"} \cup Reading \cup Saving

TypeOK ==
  /\ store \in Snapshots
  /\ pc \in [Tasks -> Steps]
  /\ job \in [Tasks -> Jobs]
  /\ copy \in [Tasks -> Calibrations]
  /\ snap \in [Tasks -> Snapshots]
  /\ own \in Calibrations
  /\ joystick \in Calibrations
  /\ live \in BOOLEAN /\ needs_calibration \in BOOLEAN
  /\ mode_now \in Modes
  /\ files \in [cal : [is : FileStates, holds : Calibrations],
                set : [is : FileStates, holds : Settings]]
  /\ wanted \in Trims
  /\ asked \in BOOLEAN

-----------------------------------------------------------------------------
(***************************************************************************)
(* What a boot makes of the files.  A calibration file that is missing or  *)
(* cut short leaves no calibration and the default trim; one that holds no *)
(* sweep is unusable but keeps its trim.  A settings file that is missing  *)
(* leaves the defaults; in one that is cut short the key of the nudge      *)
(* switch is absent, which reads as on.                                    *)
(***************************************************************************)
LoadedCalibration(file) == IF file.is = "whole" THEN file.holds ELSE NoCalibration

LoadedSettings(file) ==
  CASE file.is = "whole"   -> file.holds
    [] file.is = "cut"     -> [DefaultSettings EXCEPT !.nudge = TRUE]
    [] file.is = "missing" -> DefaultSettings

Idle(t) == IF t = Loop THEN "starting" ELSE "idle"

\* A boot writes neither file, so it is one step, up to the links being served.
Boot(calibration, settings) ==
  /\ store' = [calibration |-> calibration, settings |-> settings]
  /\ pc' = [t \in Tasks |-> Idle(t)]
  /\ job' = [t \in Tasks |-> "none"]
  /\ copy' = [t \in Tasks |-> NoCalibration]
  /\ snap' = [t \in Tasks |-> Defaults]
  /\ own' = calibration
  /\ joystick' = calibration
  /\ live' = FALSE
  /\ needs_calibration' = (calibration.center.sweep = 0)
  /\ mode_now' = settings.mode
  /\ wanted' = calibration.center.trim

\* A fresh board: no files.
Init ==
  /\ store = Defaults
  /\ pc = [t \in Tasks |-> Idle(t)]
  /\ job = [t \in Tasks |-> "none"]
  /\ copy = [t \in Tasks |-> NoCalibration]
  /\ snap = [t \in Tasks |-> Defaults]
  /\ own = NoCalibration
  /\ joystick = NoCalibration
  /\ live = FALSE
  /\ needs_calibration = TRUE
  /\ mode_now = "MOUSE"
  /\ files = [cal |-> [is |-> "missing", holds |-> NoCalibration],
              set |-> [is |-> "missing", holds |-> DefaultSettings]]
  /\ wanted = 0
  /\ asked = FALSE

Reset ==
  /\ Boot(LoadedCalibration(files.cal), LoadedSettings(files.set))
  /\ UNCHANGED <<files, asked>>

-----------------------------------------------------------------------------
\* Task t moves to step `to`.
Goto(t, to) == pc' = [pc EXCEPT ![t] = to]

\* Task t is at step `to` of a job.
Start(t, what, to) == Goto(t, to) /\ job' = [job EXCEPT ![t] = what]

SetManualOffset(l, trim) ==
  /\ pc[l] = "idle"
  /\ store' = [store EXCEPT !.calibration.center.trim = trim]
  /\ wanted' = trim
  /\ Start(l, "edit", "read")
  /\ UNCHANGED <<copy, snap, deviceVars, files, asked>>

\* SET_DEADZONE_OVERRIDE: what it overrides is left out, but it fires the callback.
SetDeadzoneOverride(l) ==
  /\ pc[l] = "idle"
  /\ Start(l, "edit", "read")
  /\ UNCHANGED <<store, copy, snap, deviceVars, files, historyVars>>

\* SET_NUDGE_ENABLED, and SET_NUDGE_SETTINGS which leaves the switch alone.
SetNudge(l, enabled) ==
  /\ pc[l] = "idle"
  /\ store' = [store EXCEPT !.settings.nudge = enabled]
  /\ asked' = (asked \/ (enabled /\ ~store.settings.nudge))
  /\ UNCHANGED <<taskVars, deviceVars, files, wanted>>

\* SET_INPUT_MODE answers first; the mode is switched after the reply is queued.
SetInputMode(l, mode) ==
  /\ pc[l] = "idle"
  /\ store.settings.mode # mode
  /\ Start(l, mode, "switch")
  /\ UNCHANGED <<store, copy, snap, deviceVars, files, historyVars>>

\* OmegaStore::set_input_mode(): nothing to do if the mode is set by now.
SwitchMode(l) ==
  /\ pc[l] = "switch"
  /\ IF store.settings.mode = job[l]
       THEN Start(l, "none", "idle") /\ UNCHANGED store
       ELSE /\ store' = [store EXCEPT !.settings.mode = job[l]]
            /\ Start(l, job[l], "snapshot")
  /\ UNCHANGED <<copy, snap, deviceVars, files, historyVars>>

SaveToFlash(l) ==
  /\ pc[l] = "idle"
  /\ Start(l, "save", "snapshot")
  /\ UNCHANGED <<store, copy, snap, deviceVars, files, historyVars>>

-----------------------------------------------------------------------------
\* Mutant of SetMeasured: the loop's copy replaces the trim as well.
SetMeasuredWholesale(calibration) ==
  store' = [store EXCEPT !.calibration = calibration]

\* Mutant of SetMeasured: the range is left behind.
SetMeasuredCenter(calibration) ==
  store' = [store EXCEPT !.calibration.center.sweep = calibration.center.sweep]

\* set_measured_calibration(): the live trim is kept.
SetMeasured(calibration) ==
  store' = [store EXCEPT !.calibration.center.sweep = calibration.center.sweep,
                         !.calibration.range = calibration.range]

\* The joystick is built from what the boot loaded, and only then hears of edits.
StartJoystick ==
  /\ pc[Loop] = "starting"
  /\ joystick' = own
  /\ live' = TRUE
  /\ Goto(Loop, "idle")
  /\ UNCHANGED <<store, job, copy, snap, own, needs_calibration, mode_now, files, historyVars>>

\* The drift compensator moves the center; every so often it is saved, too.
DriftNudge(what) ==
  /\ pc[Loop] = "idle"
  /\ ~needs_calibration
  /\ SetMeasured(own)
  /\ Start(Loop, what, "read")
  /\ UNCHANGED <<copy, snap, deviceVars, files, historyVars>>

\* A sweep measured a usable calibration; one that fails changes nothing.
SweepSucceeds ==
  /\ pc[Loop] = "idle"
  /\ store.calibration.center.sweep < MaxSweeps
  /\ LET sweep == store.calibration.center.sweep + 1
     IN  SetMeasured([center |-> [sweep |-> sweep, trim |-> 0], range |-> sweep])
  /\ Start(Loop, "sweep", "read")
  /\ UNCHANGED <<copy, snap, deviceVars, files, historyVars>>

-----------------------------------------------------------------------------
(***************************************************************************)
(* on_calibration_changed, on the task that made the change: center() and  *)
(* range() are read by calls of their own, in the order the compiler       *)
(* chose, and the joystick then gets both.                                 *)
(***************************************************************************)
Callback(t, from, to) ==
  /\ pc[t] = from
  /\ Start(t, IF to = "idle" THEN "none" ELSE job[t], to)
  /\ UNCHANGED <<store, snap, own, live, needs_calibration, mode_now, files, historyVars>>

ReadCenter(t) ==
  /\ Callback(t, "read", "read_range") \/ Callback(t, "read_center", "apply")
  /\ copy' = [copy EXCEPT ![t].center = store.calibration.center]
  /\ UNCHANGED joystick

ReadRange(t) ==
  /\ Callback(t, "read", "read_center") \/ Callback(t, "read_range", "apply")
  /\ copy' = [copy EXCEPT ![t].range = store.calibration.range]
  /\ UNCHANGED joystick

Apply(t) ==
  /\ Callback(t, "apply", IF t = Loop THEN "readback" ELSE "idle")
  /\ joystick' = IF live THEN copy[t] ELSE joystick
  /\ copy' = [copy EXCEPT ![t] = NoCalibration]

\* Mutant of ReadBack: after a sweep the loop keeps the calibration it had.
ReadBackOnlyDrift ==
  /\ pc[Loop] = "readback"
  /\ own' = IF job[Loop] = "sweep" THEN own
            ELSE [center |-> store.calibration.center, range |-> store.calibration.range]
  /\ Goto(Loop, IF job[Loop] = "sweep" THEN "snapshot" ELSE "push")
  /\ UNCHANGED <<store, job, copy, snap, joystick, live, needs_calibration, mode_now, files,
                 historyVars>>

\* The loop reads back the live trim, and a drift correction is applied again.
ReadBack ==
  /\ pc[Loop] = "readback"
  /\ own' = [center |-> store.calibration.center, range |-> store.calibration.range]
  /\ Goto(Loop, IF job[Loop] = "sweep" THEN "snapshot" ELSE "push")
  /\ UNCHANGED <<store, job, copy, snap, joystick, live, needs_calibration, mode_now, files,
                 historyVars>>

Push ==
  /\ pc[Loop] = "push"
  /\ joystick' = own
  /\ IF job[Loop] = "drift_save"
       THEN Start(Loop, "drift_save", "snapshot")
       ELSE Start(Loop, "none", "idle")
  /\ UNCHANGED <<store, copy, snap, own, live, needs_calibration, mode_now, files,
                 historyVars>>

-----------------------------------------------------------------------------
(***************************************************************************)
(* save_to_flash(): a snapshot, then the calibration file, then the        *)
(* settings file.  Opening a file for writing truncates it; it is whole    *)
(* again when it has been written and closed.                              *)
(***************************************************************************)
Snapshot(t) ==
  /\ pc[t] = "snapshot"
  /\ snap' = [snap EXCEPT ![t] = store]
  /\ Goto(t, "open_cal")
  /\ UNCHANGED <<store, job, copy, deviceVars, files, historyVars>>

\* Mutant of AfterSave: a mode switch that could not be saved does not restart.
AfterSaveOnlyIfSaved(t, ok) ==
  /\ Start(t, "none", IF job[t] \in Modes /\ ok THEN "flush" ELSE "idle")
  /\ needs_calibration' = (needs_calibration /\ job[t] # "sweep")

\* What follows a save, failed or not: the restart of a mode switch, the end of
\* the needs-calibration hold after a sweep, a reply.
AfterSave(t, ok) ==
  /\ Start(t, "none", IF job[t] \in Modes THEN "flush" ELSE "idle")
  /\ needs_calibration' = (needs_calibration /\ job[t] # "sweep")

SaveStep(t, from) ==
  /\ pc[t] = from
  /\ UNCHANGED <<store, copy, own, joystick, live, mode_now, wanted, asked>>

SaveContinues(t, to) == Goto(t, to) /\ UNCHANGED <<job, snap, needs_calibration>>

SaveEnds(t, ok) == AfterSave(t, ok) /\ snap' = [snap EXCEPT ![t] = Defaults]

OpenCalibration(t) ==
  /\ SaveStep(t, "open_cal")
  /\ files' = [files EXCEPT !.cal = [is |-> "cut", holds |-> NoCalibration]]
  /\ SaveContinues(t, "write_cal")

WriteCalibration(t) ==
  /\ SaveStep(t, "write_cal")
  /\ files' = [files EXCEPT !.cal = [is |-> "whole", holds |-> snap[t].calibration]]
  /\ SaveContinues(t, "open_set")

OpenSettings(t) ==
  /\ SaveStep(t, "open_set")
  /\ files' = [files EXCEPT !.set = [is |-> "cut", holds |-> DefaultSettings]]
  /\ SaveContinues(t, "write_set")

WriteSettings(t) ==
  /\ SaveStep(t, "write_set")
  /\ files' = [files EXCEPT !.set = [is |-> "whole", holds |-> snap[t].settings]]
  /\ SaveEnds(t, TRUE)

\* A file that cannot be opened stays as it is; one that cannot be written to the
\* end stays cut.
SaveFails(t) ==
  /\ FALSE \in FileOutcomes
  /\ \E from \in Saving \ {"snapshot"} : SaveStep(t, from)
  /\ SaveEnds(t, FALSE)
  /\ UNCHANGED files

\* esp_restart() after a mode switch, REPLY_FLUSH_DELAY later.
RestartForMode(l) == pc[l] = "flush" /\ Reset

-----------------------------------------------------------------------------
Host(l) ==
  \/ \E trim \in Trims : SetManualOffset(l, trim)
  \/ SetDeadzoneOverride(l)
  \/ \E enabled \in BOOLEAN : SetNudge(l, enabled)
  \/ \E mode \in Modes : SetInputMode(l, mode)
  \/ SaveToFlash(l)

Measure ==
  \/ \E what \in {"drift", "drift_save"} : DriftNudge(what)
  \/ SweepSucceeds

Step(t) ==
  \/ ReadCenter(t) \/ ReadRange(t) \/ Apply(t)
  \/ Snapshot(t)
  \/ OpenCalibration(t) \/ WriteCalibration(t)
  \/ OpenSettings(t) \/ WriteSettings(t)
  \/ SaveFails(t)

LinkStep(l) == Step(l) \/ SwitchMode(l) \/ RestartForMode(l)
LoopStep == Step(Loop) \/ StartJoystick \/ ReadBack \/ Push

Next ==
  \/ \E l \in Links : Host(l) \/ LinkStep(l)
  \/ Measure \/ LoopStep
  \/ Reset

Spec == Init /\ [][Next]_vars

-----------------------------------------------------------------------------
Matched(calibration) == calibration.center.sweep = calibration.range

\* A center is never used, kept or saved with another sweep's range: not in the
\* store, the loop's copy, a snapshot under way or a calibration file.
CalibrationMatched ==
  /\ Matched(store.calibration)
  /\ Matched(own)
  /\ \A t \in Tasks : Matched(snap[t].calibration)
  /\ files.cal.is = "whole" => Matched(files.cal.holds)

\* Neither a drift correction nor a sweep reverts a manual offset the console has
\* set meanwhile, though the loop's own copy may be older.
TrimKept == store.calibration.center.trim = wanted

\* The output is released only with a measured calibration in the store and in
\* the loop, whatever was saved, lost or cut short before the boot.
QuietUntilCalibrated ==
  ~needs_calibration => store.calibration.center.sweep > 0 /\ own.center.sweep > 0

\* A mode that is set and does not run yet is about to: a link is saving it or
\* restarting for it, even if a save of it fails or a power cut has come between.
ModeTakesEffect ==
  store.settings.mode # mode_now
    => \E l \in Links : pc[l] = "flush" \/ (job[l] \in Modes /\ pc[l] \in Saving)

\* The claim of omega_calibration.hpp: the device does not click on a nudge
\* until the user turns it on.
NudgeOnlyByUser == store.settings.nudge => asked
=============================================================================
