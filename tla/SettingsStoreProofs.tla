------------------------- MODULE SettingsStoreProofs -------------------------
(***************************************************************************)
(* For any set of links, any trims, any number of sweeps and any outcome   *)
(* of the file operations: calibrations stay matched, trims are kept, the  *)
(* output stays quiet until there is a calibration, and a mode that is set *)
(* takes effect.                                                           *)
(***************************************************************************)
EXTENDS SettingsStore, TLAPS

\* What a task does belongs to it: the loop measures, the links edit and switch modes.
JobsOfTasks ==
  /\ \A l \in Links :
       /\ job[l] \in {"none", "edit", "save"} \cup Modes
       /\ pc[l] = "switch" => job[l] \in Modes
  /\ job[Loop] \in {"none", "drift", "drift_save", "sweep"}

\* A sweep that the loop has stored is in its own copy from the read-back on, which is
\* before the save that ends the needs-calibration hold.
SweepStored ==
  job[Loop] = "sweep" =>
    /\ store.calibration.center.sweep > 0
    /\ pc[Loop] \in Saving => own.center.sweep > 0

StoreInv ==
  /\ TypeOK /\ JobsOfTasks
  /\ CalibrationMatched /\ TrimKept
  /\ SweepStored /\ QuietUntilCalibrated
  /\ ModeTakesEffect

-----------------------------------------------------------------------------
LEMMA ConstantTypes ==
  /\ NoCalibration \in Calibrations /\ DefaultSettings \in Settings /\ Defaults \in Snapshots
  /\ Loop \in Tasks /\ Links \subseteq Tasks
  /\ Matched(NoCalibration)
BY TrimsAssumption, BoundsAssumption
   DEF NoCalibration, DefaultSettings, Defaults, Calibrations, Settings, Snapshots, Centers,
       Ranges, Modes, Tasks, Matched

LEMMA LoadedTypes ==
  ASSUME TypeOK
  PROVE  /\ LoadedCalibration(files.cal) \in Calibrations
         /\ LoadedSettings(files.set) \in Settings
<1>1. LoadedCalibration(files.cal) \in Calibrations
  BY ConstantTypes DEF TypeOK, LoadedCalibration
<1>2. files.set.is \in FileStates /\ files.set.holds \in Settings
  BY DEF TypeOK
<1>3. [DefaultSettings EXCEPT !.nudge = TRUE] \in Settings
  BY DEF DefaultSettings, Settings, Modes
<1> QED
  BY <1>1, <1>2, <1>3, ConstantTypes DEF LoadedSettings, FileStates

-----------------------------------------------------------------------------
\* The steps by who takes them, with a restart for a mode switch as the reset it is.
LEMMA StepsOf ==
  ASSUME Next
  PROVE  \/ \E l \in Links : Host(l) \/ SwitchMode(l)
         \/ \E t \in Tasks : Step(t)
         \/ Measure \/ StartJoystick \/ ReadBack \/ Push
         \/ Reset
BY DEF Next, LinkStep, LoopStep, RestartForMode, Tasks

LEMMA BootTypes ==
  ASSUME TypeOK, Reset
  PROVE  TypeOK'
<1>1. PICK c \in Calibrations, s \in Settings :
        Boot(c, s) /\ c = LoadedCalibration(files.cal) /\ s = LoadedSettings(files.set)
  BY LoadedTypes DEF Reset
<1>2. store' \in Snapshots /\ own' \in Calibrations /\ joystick' \in Calibrations
  BY <1>1 DEF Boot, Snapshots
<1>3. /\ pc' \in [Tasks -> Steps] /\ job' \in [Tasks -> Jobs]
      /\ copy' \in [Tasks -> Calibrations] /\ snap' \in [Tasks -> Snapshots]
  BY <1>1, ConstantTypes DEF Boot, Steps, Jobs, Idle
<1>4. /\ live' \in BOOLEAN /\ needs_calibration' \in BOOLEAN
      /\ mode_now' \in Modes /\ wanted' \in Trims
  BY <1>1 DEF Boot, Calibrations, Centers, Settings
<1> QED
  BY <1>2, <1>3, <1>4 DEF Reset, TypeOK

\* A change of the store keeps its type.
LEMMA StoreTypes ==
  ASSUME TypeOK
  PROVE  /\ \A trim \in Trims :
              [store EXCEPT !.calibration.center.trim = trim] \in Snapshots
         /\ \A on \in BOOLEAN : [store EXCEPT !.settings.nudge = on] \in Snapshots
         /\ \A mode \in Modes : [store EXCEPT !.settings.mode = mode] \in Snapshots
         /\ \A n \in 0..MaxSweeps, r \in Ranges :
              [store EXCEPT !.calibration.center.sweep = n, !.calibration.range = r]
                \in Snapshots
BY DEF TypeOK, Snapshots, Calibrations, Centers, Settings

\* A task goes to a step, for a job.
LEMMA StartTypes ==
  ASSUME TypeOK, NEW t, NEW what \in Jobs, NEW to \in Steps, Start(t, what, to)
  PROVE  pc' \in [Tasks -> Steps] /\ job' \in [Tasks -> Jobs]
BY DEF TypeOK, Start, Goto

LEMMA HostTypes ==
  ASSUME TypeOK, NEW l \in Links, Host(l)
  PROVE  TypeOK'
<1> USE DEF deviceVars, historyVars, taskVars
<1>1. ASSUME NEW trim \in Trims, SetManualOffset(l, trim) PROVE TypeOK'
  BY <1>1, StoreTypes, StartTypes DEF SetManualOffset, TypeOK, Jobs, Steps, Reading
<1>2. CASE SetDeadzoneOverride(l)
  BY <1>2, StartTypes DEF SetDeadzoneOverride, TypeOK, Jobs, Steps, Reading
<1>3. ASSUME NEW on \in BOOLEAN, SetNudge(l, on) PROVE TypeOK'
  BY <1>3, StoreTypes DEF SetNudge, TypeOK
<1>4. ASSUME NEW mode \in Modes, SetInputMode(l, mode) PROVE TypeOK'
  BY <1>4, StartTypes DEF SetInputMode, TypeOK, Jobs, Steps
<1>5. CASE SaveToFlash(l)
  BY <1>5, StartTypes DEF SaveToFlash, TypeOK, Jobs, Steps, Saving
<1> QED
  BY <1>1, <1>2, <1>3, <1>4, <1>5 DEF Host

LEMMA SwitchTypes ==
  ASSUME TypeOK, JobsOfTasks, NEW l \in Links, SwitchMode(l)
  PROVE  TypeOK'
<1> USE DEF deviceVars, historyVars
<1>1. job[l] \in Modes
  BY DEF SwitchMode, JobsOfTasks
<1>2. store' \in Snapshots
  <2>1. store \in Snapshots /\ [store EXCEPT !.settings.mode = job[l]] \in Snapshots
    BY <1>1, StoreTypes DEF TypeOK
  <2> QED
    BY <2>1 DEF SwitchMode
<1>3. pc' \in [Tasks -> Steps] /\ job' \in [Tasks -> Jobs]
  <2>1. Start(l, "none", "idle") \/ Start(l, job[l], "snapshot")
    BY DEF SwitchMode
  <2>2. {"none", job[l]} \subseteq Jobs /\ {"idle", "snapshot"} \subseteq Steps
    BY <1>1 DEF Jobs, Steps, Saving
  <2> QED
    BY <2>1, <2>2, StartTypes
<1> QED
  BY <1>2, <1>3 DEF SwitchMode, TypeOK

LEMMA LoopTypes ==
  ASSUME TypeOK, Measure \/ StartJoystick \/ ReadBack \/ Push
  PROVE  TypeOK'
<1> USE DEF deviceVars, historyVars
<1>1. ASSUME NEW what \in {"drift", "drift_save"}, DriftNudge(what) PROVE TypeOK'
  <2>1. own.center.sweep \in 0..MaxSweeps /\ own.range \in Ranges
    BY DEF TypeOK, Calibrations, Centers
  <2>2. store' \in Snapshots
    BY <1>1, <2>1, StoreTypes DEF DriftNudge, SetMeasured
  <2> QED
    BY <1>1, <2>2, StartTypes DEF DriftNudge, TypeOK, Jobs, Steps, Reading
<1>2. CASE SweepSucceeds
  <2>1. store.calibration.center.sweep + 1 \in 0..MaxSweeps
    BY <1>2, BoundsAssumption DEF SweepSucceeds, TypeOK, Snapshots, Calibrations, Centers
  <2>2. store' \in Snapshots
    BY <1>2, <2>1, StoreTypes DEF SweepSucceeds, SetMeasured, Ranges
  <2> QED
    BY <1>2, <2>2, StartTypes DEF SweepSucceeds, TypeOK, Jobs, Steps, Reading
<1>3. CASE StartJoystick
  BY <1>3 DEF StartJoystick, Goto, TypeOK, Steps
<1>4. CASE ReadBack
  BY <1>4 DEF ReadBack, Goto, TypeOK, Steps, Saving, Snapshots, Calibrations
<1>5. CASE Push
  <2>1. pc' \in [Tasks -> Steps] /\ job' \in [Tasks -> Jobs]
    BY <1>5, StartTypes DEF Push, Jobs, Steps, Saving
  <2> QED
    BY <1>5, <2>1 DEF Push, TypeOK
<1> QED
  BY <1>1, <1>2, <1>3, <1>4, <1>5 DEF Measure

LEMMA SaveTypes ==
  ASSUME TypeOK, NEW t \in Tasks,
         Snapshot(t) \/ OpenCalibration(t) \/ WriteCalibration(t) \/ OpenSettings(t)
           \/ WriteSettings(t) \/ SaveFails(t)
  PROVE  TypeOK'
<1> USE DEF deviceVars, historyVars
<1>1. CASE Snapshot(t)
  BY <1>1 DEF Snapshot, Goto, TypeOK, Steps, Saving
<1>2. snap[t].calibration \in Calibrations /\ snap[t].settings \in Settings
  BY DEF TypeOK, Snapshots
<1>3. ASSUME NEW from, SaveStep(t, from), NEW ok, SaveEnds(t, ok)
      PROVE  /\ pc' \in [Tasks -> Steps] /\ job' \in [Tasks -> Jobs]
             /\ snap' \in [Tasks -> Snapshots] /\ needs_calibration' \in BOOLEAN
  BY <1>3, StartTypes, ConstantTypes DEF SaveEnds, AfterSave, TypeOK, Jobs, Steps
<1>4. CASE OpenCalibration(t) \/ WriteCalibration(t) \/ OpenSettings(t)
  <2>1. /\ files' \in [cal : [is : FileStates, holds : Calibrations],
                       set : [is : FileStates, holds : Settings]]
    BY <1>2, <1>4, ConstantTypes
       DEF OpenCalibration, WriteCalibration, OpenSettings, TypeOK, FileStates
  <2>2. pc' \in [Tasks -> Steps]
    BY <1>4 DEF OpenCalibration, WriteCalibration, OpenSettings, SaveContinues, Goto, TypeOK,
                Steps, Saving
  <2> QED
    BY <1>4, <2>1, <2>2
       DEF OpenCalibration, WriteCalibration, OpenSettings, SaveStep, SaveContinues, TypeOK
<1>5. CASE WriteSettings(t)
  <2>1. /\ files' \in [cal : [is : FileStates, holds : Calibrations],
                       set : [is : FileStates, holds : Settings]]
    BY <1>2, <1>5 DEF WriteSettings, TypeOK, FileStates
  <2> QED
    BY <1>3, <1>5, <2>1 DEF WriteSettings, SaveStep, TypeOK
<1>6. CASE SaveFails(t)
  BY <1>3, <1>6 DEF SaveFails, SaveStep, TypeOK
<1> QED
  BY <1>1, <1>4, <1>5, <1>6

LEMMA CallbackTypes ==
  ASSUME TypeOK, NEW t \in Tasks, ReadCenter(t) \/ ReadRange(t) \/ Apply(t)
  PROVE  TypeOK'
<1> USE DEF deviceVars, historyVars
<1>1. ASSUME NEW from, NEW to \in Steps, Callback(t, from, to)
      PROVE  pc' \in [Tasks -> Steps] /\ job' \in [Tasks -> Jobs]
  BY <1>1, StartTypes DEF Callback, TypeOK, Jobs
<1>2. /\ store.calibration.center \in Centers /\ store.calibration.range \in Ranges
      /\ copy[t] \in Calibrations
  BY DEF TypeOK, Snapshots, Calibrations
<1>3. copy' \in [Tasks -> Calibrations] /\ joystick' \in Calibrations
  BY <1>2, ConstantTypes DEF ReadCenter, ReadRange, Apply, TypeOK, Calibrations
<1>4. pc' \in [Tasks -> Steps] /\ job' \in [Tasks -> Jobs]
  BY <1>1 DEF ReadCenter, ReadRange, Apply, Steps, Reading
<1> QED
  BY <1>3, <1>4 DEF ReadCenter, ReadRange, Apply, Callback, TypeOK

LEMMA TypesStep ==
  ASSUME TypeOK, JobsOfTasks, [Next]_vars
  PROVE  TypeOK'
<1>1. CASE UNCHANGED vars
  BY <1>1 DEF vars, taskVars, deviceVars, historyVars, TypeOK
<1>2. CASE Next
  BY <1>2, StepsOf, BootTypes, HostTypes, SwitchTypes, LoopTypes, SaveTypes, CallbackTypes
     DEF Step
<1> QED
  BY <1>1, <1>2

-----------------------------------------------------------------------------
\* What a step of a task does to the jobs.
LEMMA JobsStep ==
  ASSUME TypeOK, JobsOfTasks, [Next]_vars
  PROVE  JobsOfTasks'
<1> USE TasksAssumption DEF Tasks
<1>1. CASE UNCHANGED vars
  BY <1>1 DEF vars, taskVars, JobsOfTasks
<1>2. CASE Reset
  BY <1>2 DEF Reset, Boot, JobsOfTasks, Idle
<1>3. ASSUME NEW l \in Links, Host(l) \/ SwitchMode(l) PROVE JobsOfTasks'
  BY <1>3 DEF Host, SetManualOffset, SetDeadzoneOverride, SetNudge, SetInputMode, SaveToFlash,
              SwitchMode, Start, Goto, taskVars, TypeOK, JobsOfTasks
<1>4. CASE Measure \/ StartJoystick \/ ReadBack \/ Push
  BY <1>4 DEF Measure, DriftNudge, SweepSucceeds, StartJoystick, ReadBack, Push, Start, Goto,
              TypeOK, JobsOfTasks
<1>5. ASSUME NEW t \in Tasks, Step(t) PROVE JobsOfTasks'
  <2>1. CASE ReadCenter(t) \/ ReadRange(t) \/ Apply(t)
    <3>1. PICK from \in Steps, to \in Steps \ {"switch"} : Callback(t, from, to)
      BY <2>1 DEF ReadCenter, ReadRange, Apply, Steps, Reading
    <3> QED
      BY <3>1 DEF Callback, Start, Goto, TypeOK, JobsOfTasks
  <2>2. CASE Snapshot(t)
    BY <2>2 DEF Snapshot, Goto, TypeOK, JobsOfTasks
  <2>3. CASE OpenCalibration(t) \/ WriteCalibration(t) \/ OpenSettings(t)
    BY <2>3 DEF OpenCalibration, WriteCalibration, OpenSettings, SaveStep, SaveContinues, Goto,
                TypeOK, JobsOfTasks
  <2>4. CASE WriteSettings(t) \/ SaveFails(t)
    BY <2>4 DEF WriteSettings, SaveFails, SaveEnds, AfterSave, Start, Goto, TypeOK, JobsOfTasks
  <2> QED
    BY <1>5, <2>1, <2>2, <2>3, <2>4 DEF Step
<1> QED
  BY <1>1, <1>2, <1>3, <1>4, <1>5, StepsOf

-----------------------------------------------------------------------------
\* Measuring replaces the sweep and its range and leaves the trim and the settings.
LEMMA Measured ==
  ASSUME TypeOK, NEW c, SetMeasured(c)
  PROVE  /\ store'.calibration.center.sweep = c.center.sweep
         /\ store'.calibration.range = c.range
         /\ store'.calibration.center.trim = store.calibration.center.trim
         /\ store'.settings = store.settings
BY DEF SetMeasured, TypeOK, Snapshots, Calibrations, Centers

\* A link's requests leave the sweep and its range, and the trim they set is the one wanted.
LEMMA Edited ==
  ASSUME TypeOK, NEW l \in Links, Host(l) \/ SwitchMode(l)
  PROVE  /\ store'.calibration.center.sweep = store.calibration.center.sweep
         /\ store'.calibration.range = store.calibration.range
         /\ TrimKept => TrimKept'
<1> USE DEF TrimKept, deviceVars, historyVars
<1>1. ASSUME NEW trim \in Trims, SetManualOffset(l, trim)
      PROVE  /\ store'.calibration.center.sweep = store.calibration.center.sweep
             /\ store'.calibration.range = store.calibration.range
             /\ TrimKept'
  BY <1>1 DEF SetManualOffset, TypeOK, Snapshots, Calibrations, Centers
<1>2. CASE SetDeadzoneOverride(l) \/ SaveToFlash(l)
  BY <1>2 DEF SetDeadzoneOverride, SaveToFlash
<1>3. ASSUME NEW on \in BOOLEAN, SetNudge(l, on)
      PROVE  store'.calibration = store.calibration /\ wanted' = wanted
  BY <1>3 DEF SetNudge, TypeOK, Snapshots
<1>4. ASSUME NEW mode \in Modes, SetInputMode(l, mode)
      PROVE  store' = store /\ wanted' = wanted
  BY <1>4 DEF SetInputMode
<1>5. CASE SwitchMode(l)
  BY <1>5 DEF SwitchMode, TypeOK, Snapshots
<1> QED
  BY <1>1, <1>2, <1>3, <1>4, <1>5 DEF Host

-----------------------------------------------------------------------------
LEMMA MatchedStep ==
  ASSUME TypeOK, CalibrationMatched, [Next]_vars
  PROVE  CalibrationMatched'
<1> USE DEF deviceVars, historyVars, taskVars
<1>1. CASE UNCHANGED vars
  BY <1>1 DEF vars, CalibrationMatched, Matched
<1>2. CASE Reset
  <2>1. Matched(LoadedCalibration(files.cal))
    BY ConstantTypes DEF LoadedCalibration, CalibrationMatched
  <2> QED
    BY <1>2, <2>1, ConstantTypes DEF Reset, Boot, CalibrationMatched, Matched, Defaults
<1>3. ASSUME NEW l \in Links, Host(l) \/ SwitchMode(l) PROVE CalibrationMatched'
  <2>1. /\ store'.calibration.center.sweep = store.calibration.center.sweep
        /\ store'.calibration.range = store.calibration.range
    BY <1>3, Edited
  <2>2. UNCHANGED <<own, snap, files>>
    BY <1>3 DEF Host, SetManualOffset, SetDeadzoneOverride, SetNudge, SetInputMode, SaveToFlash,
                SwitchMode
  <2> QED
    BY <2>1, <2>2 DEF CalibrationMatched, Matched
<1>4. CASE Measure
  <2>1. PICK c : SetMeasured(c) /\ Matched(c)
    BY <1>4 DEF Measure, DriftNudge, SweepSucceeds, CalibrationMatched, Matched
  <2>2. Matched(store'.calibration)
    BY <2>1, Measured DEF Matched
  <2> QED
    BY <1>4, <2>2 DEF Measure, DriftNudge, SweepSucceeds, CalibrationMatched, Matched
<1>5. CASE StartJoystick \/ ReadBack \/ Push
  BY <1>5 DEF StartJoystick, ReadBack, Push, CalibrationMatched, Matched
<1>6. ASSUME NEW t \in Tasks, Step(t) PROVE CalibrationMatched'
  <2>1. CASE ReadCenter(t) \/ ReadRange(t) \/ Apply(t)
    BY <2>1 DEF ReadCenter, ReadRange, Apply, Callback, CalibrationMatched, Matched
  <2>2. CASE Snapshot(t)
    BY <2>2 DEF Snapshot, TypeOK, CalibrationMatched, Matched
  <2>3. CASE OpenCalibration(t) \/ WriteCalibration(t) \/ OpenSettings(t)
    BY <2>3 DEF OpenCalibration, WriteCalibration, OpenSettings, SaveStep, SaveContinues, TypeOK,
                CalibrationMatched, Matched
  <2>4. CASE WriteSettings(t) \/ SaveFails(t)
    <3>1. store' = store /\ own' = own /\ files'.cal = files.cal
      BY <2>4 DEF WriteSettings, SaveFails, SaveStep, TypeOK
    <3>2. snap' = [snap EXCEPT ![t] = Defaults]
      BY <2>4 DEF WriteSettings, SaveFails, SaveEnds
    <3>3. \A u \in Tasks : Matched(snap'[u].calibration)
      BY <3>2, ConstantTypes DEF Defaults, TypeOK, CalibrationMatched
    <3> QED
      BY <3>1, <3>3 DEF CalibrationMatched
  <2> QED
    BY <1>6, <2>1, <2>2, <2>3, <2>4 DEF Step
<1> QED
  BY <1>1, <1>2, <1>3, <1>4, <1>5, <1>6, StepsOf

-----------------------------------------------------------------------------
\* Only SET_MANUAL_OFFSET and a boot change the trim, and both say so in `wanted`.
LEMMA TrimStep ==
  ASSUME TypeOK, TrimKept, [Next]_vars
  PROVE  TrimKept'
<1> USE DEF deviceVars, historyVars, taskVars
<1>1. CASE UNCHANGED vars
  BY <1>1 DEF vars, TrimKept
<1>2. CASE Reset
  BY <1>2 DEF Reset, Boot, TrimKept
<1>3. ASSUME NEW l \in Links, Host(l) \/ SwitchMode(l) PROVE TrimKept'
  BY <1>3, Edited
<1>4. CASE Measure \/ StartJoystick \/ ReadBack \/ Push
  BY <1>4, Measured
     DEF Measure, DriftNudge, SweepSucceeds, StartJoystick, ReadBack, Push, TrimKept
<1>5. ASSUME NEW t \in Tasks, Step(t) PROVE TrimKept'
  BY <1>5 DEF Step, ReadCenter, ReadRange, Apply, Callback, Snapshot, OpenCalibration,
              WriteCalibration, OpenSettings, WriteSettings, SaveFails, SaveStep, TrimKept
<1> QED
  BY <1>1, <1>2, <1>3, <1>4, <1>5, StepsOf

-----------------------------------------------------------------------------
\* A calibration with a sweep stays one for as long as the boot lasts.
LEMMA SweepKept ==
  ASSUME TypeOK, SweepStored, QuietUntilCalibrated, [Next]_vars, ~Reset
  PROVE  /\ store.calibration.center.sweep > 0 => store'.calibration.center.sweep > 0
         /\ own' # own => pc[Loop] = "readback" /\ own'.center = store.calibration.center
<1> USE DEF deviceVars, historyVars, taskVars
<1>1. CASE UNCHANGED vars
  BY <1>1 DEF vars
<1>2. ASSUME NEW l \in Links, Host(l) \/ SwitchMode(l)
      PROVE  /\ store'.calibration.center.sweep = store.calibration.center.sweep
             /\ own' = own
  BY <1>2, Edited
     DEF Host, SetManualOffset, SetDeadzoneOverride, SetNudge, SetInputMode, SaveToFlash,
         SwitchMode
<1>3. ASSUME NEW what \in {"drift", "drift_save"}, DriftNudge(what)
      PROVE  store'.calibration.center.sweep > 0 /\ own' = own
  BY <1>3, Measured DEF DriftNudge, QuietUntilCalibrated
<1>4. CASE SweepSucceeds
  <2>1. store'.calibration.center.sweep = store.calibration.center.sweep + 1 /\ own' = own
    BY <1>4, Measured DEF SweepSucceeds
  <2>2. store.calibration.center.sweep \in Nat
    BY DEF TypeOK, Snapshots, Calibrations, Centers
  <2> QED
    BY <2>1, <2>2
<1>5. CASE StartJoystick \/ ReadBack \/ Push
  BY <1>5 DEF StartJoystick, ReadBack, Push
<1>6. ASSUME NEW t \in Tasks, Step(t) PROVE store' = store /\ own' = own
  BY <1>6 DEF Step, ReadCenter, ReadRange, Apply, Callback, Snapshot, OpenCalibration,
              WriteCalibration, OpenSettings, WriteSettings, SaveFails, SaveStep
<1> QED
  BY <1>1, <1>2, <1>3, <1>4, <1>5, <1>6, StepsOf DEF Measure

\* The loop comes to its save by the read-back, and to a sweep's job by storing it.
LEMMA SweepStoredStep ==
  ASSUME TypeOK, JobsOfTasks, SweepStored, QuietUntilCalibrated, [Next]_vars
  PROVE  SweepStored'
<1> USE TasksAssumption DEF Tasks
<1>1. CASE Reset
  BY <1>1, ConstantTypes DEF Reset, Boot, SweepStored
<1>2. ASSUME ~Reset, job'[Loop] = "sweep"
      PROVE  store'.calibration.center.sweep > 0
  <2>1. CASE SweepSucceeds
    <3>1. store.calibration.center.sweep \in Nat
      BY DEF TypeOK, Snapshots, Calibrations, Centers
    <3> QED
      BY <2>1, <3>1, Measured DEF SweepSucceeds
  <2>2. CASE job[Loop] = "sweep"
    BY <1>2, <2>2, SweepKept DEF SweepStored
  <2>3. CASE job[Loop] # "sweep" /\ ~SweepSucceeds
    <3>1. ASSUME NEW t, NEW what, NEW to, Start(t, what, to), what # "sweep"
          PROVE  job'[Loop] # "sweep"
      BY <2>3, <3>1 DEF Start, TypeOK
    <3>2. ASSUME NEW l \in Links, Host(l) \/ SwitchMode(l) PROVE job'[Loop] # "sweep"
      BY <2>3, <3>2, <3>1
         DEF Host, SetManualOffset, SetDeadzoneOverride, SetNudge, SetInputMode, SaveToFlash,
             SwitchMode, Start, taskVars, JobsOfTasks, TypeOK, Modes
    <3>3. CASE Measure \/ StartJoystick \/ ReadBack \/ Push
      BY <1>2, <2>3, <3>1, <3>3 DEF Measure, DriftNudge, StartJoystick, ReadBack, Push
    <3>4. ASSUME NEW t \in Tasks, Step(t) PROVE job'[Loop] # "sweep"
      <4>1. CASE ReadCenter(t) \/ ReadRange(t) \/ Apply(t)
        <5>1. PICK from, to : Callback(t, from, to)
          BY <4>1 DEF ReadCenter, ReadRange, Apply
        <5> QED
          BY <2>3, <5>1 DEF Callback, Start, TypeOK
      <4>2. CASE ~(ReadCenter(t) \/ ReadRange(t) \/ Apply(t))
        BY <2>3, <3>1, <3>4, <4>2
           DEF Step, Snapshot, OpenCalibration, WriteCalibration, OpenSettings, WriteSettings,
               SaveFails, SaveContinues, SaveEnds, AfterSave
      <4> QED
        BY <4>1, <4>2
    <3>5. CASE UNCHANGED vars
      BY <1>2, <2>3, <3>5 DEF vars, taskVars
    <3> QED
      BY <1>2, <3>2, <3>3, <3>4, <3>5, StepsOf
  <2> QED
    BY <2>1, <2>2, <2>3
<1>3. ASSUME ~Reset, job'[Loop] = "sweep", pc'[Loop] \in Saving
      PROVE  own'.center.sweep > 0
  <2>1. CASE ReadBack
    <3>1. own'.center = store.calibration.center /\ job[Loop] = "sweep"
      BY <1>3, <2>1 DEF ReadBack
    <3> QED
      BY <3>1 DEF SweepStored
  <2>2. CASE pc[Loop] \in Saving /\ job[Loop] = "sweep"
    BY <1>3, <2>2, SweepKept DEF SweepStored, Saving
  <2>3. CASE ~ReadBack
    <3>1. ASSUME NEW t, NEW to, Goto(t, to), t # Loop \/ to \notin Saving
          PROVE  pc'[Loop] \notin Saving \/ pc'[Loop] = pc[Loop]
      BY <3>1 DEF Goto, TypeOK
    <3>2. ASSUME NEW l \in Links, Host(l) \/ SwitchMode(l)
          PROVE  pc'[Loop] = pc[Loop] /\ job'[Loop] = job[Loop]
      BY <3>2 DEF Host, SetManualOffset, SetDeadzoneOverride, SetNudge, SetInputMode, SaveToFlash,
                  SwitchMode, Start, Goto, taskVars, TypeOK
    <3>3. CASE Measure \/ StartJoystick
      BY <1>3, <3>3 DEF Measure, DriftNudge, SweepSucceeds, StartJoystick, Start, Goto, TypeOK,
                        Saving
    <3>4. CASE Push
      BY <1>3, <3>4 DEF Push, Start, Goto, TypeOK, Saving
    <3>5. ASSUME NEW t \in Tasks, Step(t)
          PROVE  pc[Loop] \in Saving /\ job[Loop] = "sweep"
      <4>1. CASE t # Loop
        BY <1>3, <3>5, <4>1
           DEF Step, ReadCenter, ReadRange, Apply, Callback, Snapshot, OpenCalibration,
               WriteCalibration, OpenSettings, WriteSettings, SaveFails, SaveContinues, SaveEnds,
               AfterSave, Start, Goto, TypeOK
      <4>2. CASE t = Loop
        BY <1>3, <3>5, <4>2
           DEF Step, ReadCenter, ReadRange, Apply, Callback, Snapshot, OpenCalibration,
               WriteCalibration, OpenSettings, WriteSettings, SaveFails, SaveStep, SaveContinues,
               SaveEnds, AfterSave, Start, Goto, TypeOK, Saving
      <4> QED
        BY <4>1, <4>2
    <3>6. CASE UNCHANGED vars
      BY <1>3, <2>2, <3>6 DEF vars, taskVars
    <3> QED
      BY <1>3, <2>2, <2>3, <3>2, <3>3, <3>4, <3>5, <3>6, StepsOf
  <2> QED
    BY <2>1, <2>3
<1> QED
  BY <1>1, <1>2, <1>3 DEF SweepStored

\* Only the save after a sweep ends the needs-calibration hold.
LEMMA QuietStep ==
  ASSUME TypeOK, JobsOfTasks, SweepStored, QuietUntilCalibrated, [Next]_vars
  PROVE  QuietUntilCalibrated'
<1> USE DEF Tasks
<1>1. CASE Reset
  <2>1. PICK c \in Calibrations : \E s \in Settings : Boot(c, s)
    BY <1>1, LoadedTypes DEF Reset
  <2>2. c.center.sweep \in Nat
    BY DEF Calibrations, Centers
  <2>3. /\ store'.calibration.center.sweep = c.center.sweep
        /\ own'.center.sweep = c.center.sweep
        /\ needs_calibration' = (c.center.sweep = 0)
    BY <2>1 DEF Boot
  <2>4. CASE c.center.sweep = 0
    BY <2>3, <2>4, Zenon DEF QuietUntilCalibrated
  <2>5. CASE c.center.sweep > 0
    BY <2>3, <2>5 DEF QuietUntilCalibrated
  <2> QED
    BY <2>2, <2>4, <2>5
<1>2. ASSUME ~Reset, ~needs_calibration
      PROVE  store'.calibration.center.sweep > 0 /\ own'.center.sweep > 0
  BY <1>2, SweepKept DEF QuietUntilCalibrated
<1>3. ASSUME ~Reset, needs_calibration, ~needs_calibration'
      PROVE  job[Loop] = "sweep" /\ pc[Loop] \in Saving
  <2>1. PICK t \in Tasks : WriteSettings(t) \/ SaveFails(t)
    BY <1>3, StepsOf
       DEF vars, deviceVars, Host, SetManualOffset, SetDeadzoneOverride, SetNudge, SetInputMode,
           SaveToFlash, SwitchMode, Measure, DriftNudge, SweepSucceeds, StartJoystick, ReadBack,
           Push, Step, ReadCenter, ReadRange, Apply, Callback, Snapshot, OpenCalibration,
           WriteCalibration, OpenSettings, SaveContinues
  <2>2. job[t] = "sweep" /\ pc[t] \in Saving
    BY <1>3, <2>1 DEF WriteSettings, SaveFails, SaveStep, SaveEnds, AfterSave, Saving
  <2> QED
    BY <2>2 DEF JobsOfTasks, Modes
<1>4. ASSUME ~Reset, needs_calibration, ~needs_calibration'
      PROVE  store'.calibration.center.sweep > 0 /\ own'.center.sweep > 0
  BY <1>3, <1>4, SweepKept DEF SweepStored, Saving
<1> QED
  BY <1>1, <1>2, <1>4 DEF QuietUntilCalibrated

-----------------------------------------------------------------------------
\* A link that restarts for a mode or is saving it.
Switching(l) == pc[l] = "flush" \/ (job[l] \in Modes /\ pc[l] \in Saving)

\* It goes on saving, or to the restart, until the device is reset.
LEMMA SwitchingKept ==
  ASSUME TypeOK, JobsOfTasks, [Next]_vars, ~Reset, NEW l \in Links, Switching(l)
  PROVE  Switching(l)'
<1> USE TasksAssumption DEF Tasks
<1>1. ASSUME NEW t, NEW what, NEW to, Start(t, what, to), t # l
      PROVE  pc'[l] = pc[l] /\ job'[l] = job[l]
  BY <1>1 DEF Start, Goto, TypeOK
<1>2. ASSUME pc'[l] = pc[l], job'[l] = job[l]
      PROVE  Switching(l)'
  BY <1>2 DEF Switching
<1>3. pc[l] \in Saving \cup {"flush"}
  BY DEF Switching
<1>4. CASE UNCHANGED vars
  BY <1>2, <1>4 DEF vars, taskVars
<1>5. ASSUME NEW m \in Links, Host(m) \/ SwitchMode(m) PROVE Switching(l)'
  <2>1. m # l \/ UNCHANGED taskVars
    BY <1>3, <1>5 DEF Host, SetManualOffset, SetDeadzoneOverride, SetNudge, SetInputMode,
                      SaveToFlash, SwitchMode, Saving
  <2>2. pc'[l] = pc[l] /\ job'[l] = job[l]
    BY <1>1, <1>5, <2>1 DEF Host, SetManualOffset, SetDeadzoneOverride, SetNudge, SetInputMode,
                            SaveToFlash, SwitchMode, taskVars
  <2> QED
    BY <1>2, <2>2
<1>6. CASE Measure \/ StartJoystick \/ ReadBack \/ Push
  BY <1>1, <1>2, <1>6 DEF Measure, DriftNudge, SweepSucceeds, StartJoystick, ReadBack, Push,
                          Start, Goto, TypeOK
<1>7. ASSUME NEW t \in Tasks, Step(t) PROVE Switching(l)'
  <2>1. CASE t # l
    BY <1>1, <1>2, <1>7, <2>1
       DEF Step, ReadCenter, ReadRange, Apply, Callback, Snapshot, OpenCalibration,
           WriteCalibration, OpenSettings, WriteSettings, SaveFails, SaveContinues, SaveEnds,
           AfterSave, Start, Goto, TypeOK
  <2>2. CASE t = l
    <3>1. pc[l] \in Saving /\ job[l] \in Modes
      BY <1>3, <1>7, <2>2
         DEF Step, ReadCenter, ReadRange, Apply, Callback, Snapshot, OpenCalibration,
             WriteCalibration, OpenSettings, WriteSettings, SaveFails, SaveStep, Saving,
             Switching
    <3>2. CASE Snapshot(l) \/ OpenCalibration(l) \/ WriteCalibration(l) \/ OpenSettings(l)
      BY <3>1, <3>2 DEF Snapshot, OpenCalibration, WriteCalibration, OpenSettings, SaveContinues,
                        Goto, TypeOK, Saving, Switching
    <3>3. CASE WriteSettings(l) \/ SaveFails(l)
      BY <3>1, <3>3 DEF WriteSettings, SaveFails, SaveEnds, AfterSave, Start, Goto, TypeOK,
                        Switching
    <3> QED
      BY <1>7, <2>2, <3>1, <3>2, <3>3
         DEF Step, ReadCenter, ReadRange, Apply, Callback, Saving
  <2> QED
    BY <2>1, <2>2
<1> QED
  BY <1>4, <1>5, <1>6, <1>7, StepsOf

\* Only a switch changes the mode in the store, and it goes on to a save.
LEMMA ModeStep ==
  ASSUME TypeOK, JobsOfTasks, ModeTakesEffect, [Next]_vars
  PROVE  ModeTakesEffect'
<1> USE DEF deviceVars, historyVars, taskVars
<1>1. CASE Reset
  BY <1>1 DEF Reset, Boot, ModeTakesEffect
<1>2. ASSUME ~Reset, NEW l \in Links, Switching(l) PROVE ModeTakesEffect'
  BY <1>2, SwitchingKept DEF ModeTakesEffect, Switching
<1>3. ASSUME NEW l \in Links, SwitchMode(l), store' # store PROVE ModeTakesEffect'
  <2>1. job'[l] \in Modes /\ pc'[l] = "snapshot"
    BY <1>3 DEF SwitchMode, Start, Goto, JobsOfTasks, TypeOK, Tasks
  <2> QED
    BY <2>1 DEF ModeTakesEffect, Saving
<1>4. ASSUME ~Reset, ~\E l \in Links : SwitchMode(l) /\ store' # store
      PROVE  store'.settings.mode = store.settings.mode /\ mode_now' = mode_now
  <2>1. CASE UNCHANGED vars
    BY <2>1 DEF vars
  <2>2. ASSUME NEW l \in Links, Host(l)
        PROVE  store'.settings.mode = store.settings.mode /\ mode_now' = mode_now
    BY <2>2 DEF Host, SetManualOffset, SetDeadzoneOverride, SetNudge, SetInputMode, SaveToFlash,
                TypeOK, Snapshots, Settings
  <2>3. ASSUME NEW l \in Links, SwitchMode(l) PROVE store' = store /\ mode_now' = mode_now
    BY <1>4, <2>3 DEF SwitchMode
  <2>4. CASE Measure \/ StartJoystick \/ ReadBack \/ Push
    BY <2>4, Measured DEF Measure, DriftNudge, SweepSucceeds, StartJoystick, ReadBack, Push
  <2>5. ASSUME NEW t \in Tasks, Step(t) PROVE store' = store /\ mode_now' = mode_now
    BY <2>5 DEF Step, ReadCenter, ReadRange, Apply, Callback, Snapshot, OpenCalibration,
                WriteCalibration, OpenSettings, WriteSettings, SaveFails, SaveStep
  <2> QED
    BY <1>4, <2>1, <2>2, <2>3, <2>4, <2>5, StepsOf
<1>5. CASE \E l \in Links : Switching(l)
  BY <1>1, <1>2, <1>5
<1>6. CASE ~\E l \in Links : Switching(l)
  BY <1>1, <1>3, <1>4, <1>6 DEF ModeTakesEffect, Switching
<1> QED
  BY <1>5, <1>6

-----------------------------------------------------------------------------
LEMMA StoreInvInit == Init => StoreInv
<1> SUFFICES ASSUME Init PROVE StoreInv
  OBVIOUS
<1>1. TypeOK
  BY ConstantTypes, TrimsAssumption
     DEF Init, TypeOK, Idle, Steps, Jobs, Modes, FileStates
<1>2. CalibrationMatched
  BY ConstantTypes DEF Init, CalibrationMatched, Defaults
<1>3. JobsOfTasks /\ TrimKept /\ SweepStored /\ QuietUntilCalibrated /\ ModeTakesEffect
  BY ConstantTypes
     DEF Init, JobsOfTasks, TrimKept, SweepStored, QuietUntilCalibrated, ModeTakesEffect, Defaults,
         NoCalibration, DefaultSettings, Idle, Tasks
<1> QED
  BY <1>1, <1>2, <1>3 DEF StoreInv

LEMMA StoreInvStep == StoreInv /\ [Next]_vars => StoreInv'
BY TypesStep, JobsStep, MatchedStep, TrimStep, SweepStoredStep, QuietStep, ModeStep DEF StoreInv

LEMMA StoreInvariant == Spec => []StoreInv
BY StoreInvInit, StoreInvStep, PTL DEF Spec

\* The store, the tasks' steps and copies, the joystick's calibration and the two files
\* hold values of their types.
THEOREM StoreTypesCorrect == Spec => []TypeOK
<1>1. StoreInv => TypeOK
  BY DEF StoreInv
<1> QED
  BY <1>1, StoreInvariant, PTL

\* A center never meets another sweep's range: in the store, in the loop's copy, in a
\* snapshot of save_to_flash() or in a calibration file, through drift corrections, edits,
\* failed saves and power cuts.
THEOREM CalibrationMatchedCorrect == Spec => []CalibrationMatched
<1>1. StoreInv => CalibrationMatched
  BY DEF StoreInv
<1> QED
  BY <1>1, StoreInvariant, PTL

\* set_measured_calibration() never reverts a manual offset that the console set after
\* the loop made its copy.
THEOREM TrimKeptCorrect == Spec => []TrimKept
<1>1. StoreInv => TrimKept
  BY DEF StoreInv
<1> QED
  BY <1>1, StoreInvariant, PTL

\* While the loop lets the output through there is a measured calibration in the store
\* and in its own copy, whatever the files held at the boot.
THEOREM QuietUntilCalibratedCorrect == Spec => []QuietUntilCalibrated
<1>1. StoreInv => QuietUntilCalibrated
  BY DEF StoreInv
<1> QED
  BY <1>1, StoreInvariant, PTL

\* After set_input_mode() a link saves the mode or restarts for it, until the device runs it.
THEOREM ModeTakesEffectCorrect == Spec => []ModeTakesEffect
<1>1. StoreInv => ModeTakesEffect
  BY DEF StoreInv
<1> QED
  BY <1>1, StoreInvariant, PTL
=============================================================================
