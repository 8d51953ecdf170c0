----------------------------- MODULE ControlTick -----------------------------
(***************************************************************************)
(* What the polling loop does with the stick (omega_control.hpp): nudge    *)
(* clicks, the neutral report, idle drift correction and the sweep, for    *)
(* the mouse and the XAC loop, and the gate a recalibration is requested   *)
(* through.                                                                *)
(*                                                                         *)
(* Time is counted in ticks.  A stick position is a magnitude and, for a   *)
(* nudge, the direction classify_nudge() gives it.  The joystick maps the  *)
(* last reading that worked, so after a failed read it is not where the    *)
(* stick is.  How far a report moves is left out, and so is what becomes   *)
(* of a drift correction, which SettingsStore has.                         *)
(***************************************************************************)
EXTENDS Integers, SensorFaults

CONSTANTS
  Modes,         \* the loops to check: "MOUSE", "XAC"
  MaxMagnitude,  \* bound: magnitudes of the stick
  Directions,    \* the directions it is pushed in
  EnterDelta,    \* nudge_distance_threshold
  ExitMagnitude, \* nudge_exit_threshold
  HoldTime,      \* nudge_hold_time
  ScrollDivider, \* SCROLL_POLL_DIVIDER
  IdleMagnitude, \* idle_magnitude_threshold
  IdleDwell,     \* idle_dwell
  NudgeInterval, \* min_nudge_interval
  Polls          \* the polls the sensor may answer with

ASSUME ControlAssumption ==
  /\ Modes \subseteq {"MOUSE", "XAC"}
  /\ Directions \subseteq {"LEFT", "RIGHT", "FORWARD", "BACK"}
  /\ {MaxMagnitude, ExitMagnitude, HoldTime, IdleMagnitude, IdleDwell, NudgeInterval} \subseteq Nat
  /\ EnterDelta \in Nat \ {0} /\ ScrollDivider \in Nat \ {0}
  /\ Polls \subseteq Kinds

\* classify_nudge(0, 0) is RIGHT.
Positions == [magnitude : {0}, direction : {"RIGHT"}]
               \cup [magnitude : 1..MaxMagnitude, direction : Directions]

VARIABLES
  mode,       \* the loop this boot runs
  enabled,    \* DeviceSettings::nudge_enabled
  hold,       \* output_holds > 0
  needs_calibration,
  gate,       \* RecalibrationGate
  loop,       \* the loop's next step
  hold_seen,  \* the loop's `hold`
  seen,       \* where the joystick has the stick: js.x(), js.y()
  nudge,      \* MouseState, and the next three
  scroll,     \* scroll_poll_count % ScrollDivider
  window,     \* ticks since window_start
  prev,       \* the magnitude of prev_x, prev_y
  initialised,
  idle,       \* DriftCompensator: ticks since idle_since, or Unset
  last_nudge, \* DriftCompensator: ticks since last_nudge, or Unset
  corrected,  \* this tick moved the center
  report,     \* the last HID report
  low,        \* history: the lowest magnitude read since the last break, or Unread
  blind       \* history: prev_x, prev_y are of a reading from before that break

hostVars == <<enabled, hold>>
nudgeVars == <<nudge, scroll, window, prev, initialised>>
driftVars == <<idle, last_nudge, corrected>>
history == <<low, blind>>
vars == <<sensorVars, mode, hostVars, needs_calibration, gate, loop, hold_seen, seen,
          nudgeVars, driftVars, report, history>>

None == "none"
NudgeDirections == Directions \cup {None}
Unset == -1
Unread == MaxMagnitude + 1
Ages(limit) == {Unset} \cup 0..limit
Reports == [button : {None, "left", "right"}, wheel : {"up", "down", None}, moving : BOOLEAN]
Neutral == [button |-> None, wheel |-> None, moving |-> FALSE]

TypeOK ==
  /\ SensorTypeOK
  /\ mode \in Modes
  /\ enabled \in BOOLEAN /\ hold \in BOOLEAN /\ needs_calibration \in BOOLEAN
  /\ gate \in {"idle", "requested", "running"}
  /\ loop \in {"sample", "tick", "sweep", "finish"}
  /\ hold_seen \in BOOLEAN
  /\ seen \in Positions
  /\ nudge \in NudgeDirections
  /\ scroll \in 0..(ScrollDivider - 1)
  /\ window \in 0..HoldTime
  /\ prev \in 0..MaxMagnitude
  /\ initialised \in BOOLEAN
  /\ idle \in Ages(IdleDwell) /\ last_nudge \in Ages(NudgeInterval)
  /\ corrected \in BOOLEAN
  /\ report \in Reports
  /\ low \in 0..Unread
  /\ blind \in BOOLEAN

\* The joystick maps (0, 0) until a read has worked.
Init ==
  /\ SensorInit
  /\ mode \in Modes
  /\ enabled \in BOOLEAN
  /\ hold = FALSE
  /\ needs_calibration \in BOOLEAN
  /\ gate = "idle"
  /\ loop = "sample"
  /\ hold_seen = FALSE
  /\ seen \in {p \in Positions : p.magnitude = 0}
  /\ nudge = None
  /\ scroll = 0
  /\ window = 0
  /\ prev = 0
  /\ initialised = FALSE
  /\ idle = Unset
  /\ last_nudge = Unset
  /\ corrected = FALSE
  /\ report = Neutral
  /\ low = Unread
  /\ blind = TRUE

-----------------------------------------------------------------------------
controlVars == <<sensorVars, mode, needs_calibration, loop, hold_seen, seen, nudgeVars,
                 driftVars, report, history>>

\* The services: SET_NUDGE_ENABLED, the hold of an update, START_CALIBRATION.
SetNudgeEnabled == enabled' = ~enabled /\ UNCHANGED <<hold, gate, controlVars>>

SetHold == hold' = ~hold /\ UNCHANGED <<enabled, gate, controlVars>>

\* RecalibrationGate::request().
Request ==
  /\ gate = "idle"
  /\ gate' = "requested"
  /\ UNCHANGED <<hostVars, controlVars>>

-----------------------------------------------------------------------------
Older(age, limit) == IF age = Unset THEN Unset ELSE Increment(age, limit)
Lower(a, b) == IF a < b THEN a ELSE b

\* A read of this kind finds the stick at a position; a chip that repeats itself
\* reports where the stick was, and one that is not answering nothing.
Read(kind, at) ==
  /\ kind = "still" => at = seen
  /\ seen' = IF kind = "silent" \/ Repeats(kind) THEN seen ELSE at

\* Whether such a read tells where the stick is now.
Tells(kind) == kind \notin {"silent", "frozen"}

\* The loop's sample of the hold counter, before it takes a request.
Sample ==
  /\ loop = "sample"
  /\ hold_seen' = hold
  /\ loop' = "tick"
  /\ UNCHANGED <<sensorVars, mode, hostVars, needs_calibration, gate, seen, nudgeVars,
                 driftVars, report, history>>

\* The baseline a nudge is measured from starts afresh here.
Rebase ==
  /\ window' = 0
  /\ prev' = seen'.magnitude
  /\ initialised' = TRUE

Release == nudge' = None /\ scroll' = 0

\* Bookkeeping of the properties: a break, whose last read may not have told where the
\* stick is.
Broken(kind) ==
  /\ low' = IF Tells(kind) THEN seen'.magnitude ELSE Unread
  /\ blind' = ~Tells(kind)

NoDrift ==
  /\ idle' = Older(idle, IdleDwell)
  /\ last_nudge' = Older(last_nudge, NudgeInterval)
  /\ corrected' = FALSE

\* A tick while the output is held.
HeldTick ==
  /\ report' = Neutral
  /\ IF mode = "MOUSE" THEN Release /\ Rebase ELSE UNCHANGED nudgeVars
  /\ Broken(poll')
  /\ NoDrift

\* A tick on a faulted sensor.
FaultedTick ==
  /\ report' = Neutral
  /\ IF mode = "MOUSE" /\ ~Faulted(monitor) THEN Release ELSE UNCHANGED <<nudge, scroll>>
  /\ UNCHANGED <<window, prev, initialised>>
  /\ Broken(poll')
  /\ NoDrift

\* A tick that goes on to run the sweep: a neutral report first.
SweepTick ==
  /\ report' = Neutral
  /\ IF mode = "MOUSE" THEN Release ELSE UNCHANGED <<nudge, scroll>>
  /\ UNCHANGED <<window, prev, initialised>>
  /\ Broken(poll')
  /\ NoDrift

-----------------------------------------------------------------------------
Recovered == Faulted(monitor) /\ ~Faulted(monitor')

\* The window and the baseline this tick measures with.
Fresh == Recovered \/ ~initialised
Elapsed == IF Fresh THEN 0 ELSE Increment(window, HoldTime)
Baseline == IF Fresh \/ ~enabled THEN seen'.magnitude ELSE prev
Due == Elapsed >= HoldTime

Entered == Due /\ enabled /\ seen'.magnitude - Baseline >= EnterDelta
Left == Due /\ seen'.magnitude <= ExitMagnitude

Held == IF enabled THEN nudge ELSE None

NextNudge ==
  IF Held = None THEN IF Entered THEN seen'.direction ELSE None
  ELSE IF Left THEN None ELSE Held

\* scroll_poll_count, which a nudge that starts or is switched off resets and one
\* that is left does not.
Polled ==
  LET before == IF nudge' # nudge /\ (nudge = None \/ ~enabled) THEN 0 ELSE scroll
  IN  IF nudge' \in {"LEFT", "BACK"} THEN (before + 1) % ScrollDivider ELSE before

MouseReport ==
  [button |-> CASE nudge' = "FORWARD" -> "left" [] nudge' = "RIGHT" -> "right" [] OTHER -> None,
   wheel  |-> IF nudge' \in {"LEFT", "BACK"} /\ scroll' = 0
              THEN IF nudge' = "LEFT" THEN "up" ELSE "down"
              ELSE None,
   moving |-> nudge' = None /\ seen'.magnitude > 0]

MouseStep ==
  /\ mode = "MOUSE"
  /\ nudge' = NextNudge
  /\ scroll' = Polled
  /\ window' = IF Due \/ ~enabled THEN 0 ELSE Elapsed
  /\ prev' = IF Due THEN seen'.magnitude ELSE Baseline
  /\ initialised' = TRUE
  /\ report' = MouseReport

XacStep ==
  /\ mode = "XAC"
  /\ report' = [Neutral EXCEPT !.moving = seen'.magnitude > 0]
  /\ UNCHANGED nudgeVars

\* DriftCompensator::update().
DriftStep ==
  LET since == IF idle = Unset THEN 0 ELSE Increment(idle, IdleDwell)
      last == Older(last_nudge, NudgeInterval)
  IN  IF seen'.magnitude > IdleMagnitude
        THEN idle' = Unset /\ last_nudge' = last /\ corrected' = FALSE
        ELSE /\ idle' = since
             /\ corrected' = (since >= IdleDwell /\ (last = Unset \/ last >= NudgeInterval))
             /\ last_nudge' = IF corrected' THEN 0 ELSE last

\* Bookkeeping of the properties: a tick without a break takes the baseline afresh when
\* its window is over.
Unbroken(kind) ==
  /\ low' = IF Tells(kind) THEN Lower(low, seen'.magnitude) ELSE low
  /\ blind' = IF Due THEN low' = Unread ELSE blind

StepTick ==
  /\ MouseStep \/ XacStep
  /\ DriftStep
  /\ IF Fresh \/ ~enabled THEN Broken(poll') ELSE Unbroken(poll')

-----------------------------------------------------------------------------
\* RecalibrationGate::take(), not tried while the output is held.
Takes == ~hold_seen /\ gate = "requested"

\* holds_output().
HoldsOutput == hold_seen \/ (needs_calibration /\ ~Takes)

\* Mutant of Alternatives: a fault is not looked at before the step.
AlternativesFaultLast ==
  \/ HoldsOutput /\ HeldTick
  \/ ~HoldsOutput /\ Takes /\ SweepTick
  \/ ~HoldsOutput /\ ~Takes /\ StepTick

Alternatives ==
  \/ HoldsOutput /\ HeldTick
  \/ ~HoldsOutput /\ Takes /\ SweepTick
  \/ ~HoldsOutput /\ ~Takes /\ Faulted(monitor') /\ FaultedTick
  \/ ~HoldsOutput /\ ~Takes /\ ~Faulted(monitor') /\ StepTick

Tick ==
  /\ loop = "tick"
  /\ \E kind \in Polls, at \in Positions : Poll(kind) /\ Read(kind, at) /\ Alternatives
  /\ gate' = IF Takes THEN "running" ELSE gate
  /\ loop' = IF ~Takes THEN "sample" ELSE IF HoldsOutput THEN "finish" ELSE "sweep"
  /\ UNCHANGED <<mode, hostVars, needs_calibration, hold_seen>>

\* Mutant of SweepEnds: the baseline is left where it was before the sweep.
SweepEndsNoRebase ==
  /\ loop = "sweep"
  /\ \E kind \in Polls, at \in Positions : Read(kind, at) /\ Broken(kind)
  /\ \E ok \in BOOLEAN : needs_calibration' = (needs_calibration /\ ~ok)
  /\ IF mode = "MOUSE"
       THEN Release /\ UNCHANGED <<window, prev, initialised>>
       ELSE UNCHANGED nudgeVars
  /\ idle' = Unset /\ last_nudge' = Unset /\ corrected' = FALSE
  /\ report' = Neutral
  /\ loop' = "finish"
  /\ UNCHANGED <<sensorVars, mode, hostVars, gate, hold_seen>>

\* The sweep is over, whether it measured a calibration or not; the stick is read
\* once more, past the fault monitor, and the bookkeeping starts afresh.
SweepEnds ==
  /\ loop = "sweep"
  /\ \E kind \in Polls, at \in Positions : Read(kind, at) /\ Broken(kind)
  /\ \E ok \in BOOLEAN : needs_calibration' = (needs_calibration /\ ~ok)
  /\ IF mode = "MOUSE" THEN Release /\ Rebase ELSE UNCHANGED nudgeVars
  /\ idle' = Unset /\ last_nudge' = Unset /\ corrected' = FALSE
  /\ report' = Neutral
  /\ loop' = "finish"
  /\ UNCHANGED <<sensorVars, mode, hostVars, gate, hold_seen>>

\* RecalibrationGate::finish().
Finish ==
  /\ loop = "finish"
  /\ gate' = "idle"
  /\ loop' = "sample"
  /\ UNCHANGED <<sensorVars, mode, hostVars, needs_calibration, hold_seen, seen,
                 nudgeVars, driftVars, report, history>>

Loop == Sample \/ Tick \/ SweepEnds \/ Finish

Next == SetNudgeEnabled \/ SetHold \/ Request \/ Loop

Spec == Init /\ [][Next]_vars

-----------------------------------------------------------------------------
\* What a report carries can be trusted: nothing moves or clicks, and the center is
\* not corrected, on a sensor that stopped answering or converting, during a hold the
\* loop has sampled, without a calibration, or for as long as a sweep lasts.
QuietWhenUntrusted ==
  report # Neutral \/ corrected =>
    /\ loop \in {"sample", "tick"}
    /\ failing < TripAfter
    /\ StaleAfter > 0 /\ poll = "frozen" => frozen < StaleAfter
    /\ loop = "sample" => ~hold_seen
    /\ ~needs_calibration

\* A click or a scroll starts only with a push from where the stick was read since
\* nudges were last switched off, the output was held, the sensor was faulted or a sweep
\* ran: no such break makes one out of how the stick stood before it.  The exception is a
\* break whose last read failed or brought no conversion (`blind`): the baseline is then
\* of the reading before, until a window ends after the stick was read again.
NudgeEarned ==
  [][nudge = None /\ nudge' # None
       => /\ blind \/ seen'.magnitude - low' >= EnterDelta
          /\ nudge' = seen'.direction]_vars

\* "releasing the hold does not see a delta against a reading from before it"
\* (omega_control.hpp:456; 365 and 479 say so of a sweep and of a fault).  It does not
\* hold when the last read of the hold or of the sweep failed, or none has worked since
\* the boot (MCStaleNudge).
NudgeNeverStale ==
  [][nudge = None /\ nudge' # None => seen'.magnitude - low' >= EnterDelta]_vars
=============================================================================
