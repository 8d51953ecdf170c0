-------------------------- MODULE ControlTickProofs --------------------------
(***************************************************************************)
(* The control loop, for any magnitudes, directions and thresholds of the  *)
(* monitor: it runs the fault monitor as SensorFaults specifies it, keeps  *)
(* quiet on what cannot be trusted, and clicks only for a push.            *)
(***************************************************************************)
EXTENDS ControlTick, SensorFaultsProofs

\* While the loop measures pushes, it measures them from no lower than the stick was read
\* since the last break, but for a baseline from before it: a fault, and a sweep until it
\* ends, stop the measuring.
BaselineSeen ==
  mode = "MOUSE" /\ initialised /\ ~Faulted(monitor) /\ loop # "sweep" /\ ~blind
    => low <= prev

\* The joystick maps a reading since the last break as soon as there is one.
SeenSince == low # Unread => low <= seen.magnitude

ControlInv == TypeOK /\ SensorInv /\ QuietWhenUntrusted /\ BaselineSeen /\ SeenSince

-----------------------------------------------------------------------------
\* What a tick does besides polling: held, faulted, before a sweep, or stepping.
LEMMA TickCases ==
  ASSUME Tick
  PROVE  /\ \E kind \in Polls, at \in Positions : Poll(kind) /\ Read(kind, at)
         /\ \/ HeldTick /\ HoldsOutput /\ ~Takes
            \/ SweepTick /\ Takes
            \/ FaultedTick /\ Faulted(monitor') /\ ~Takes
            \/ StepTick /\ ~Faulted(monitor') /\ ~HoldsOutput /\ ~Takes
BY DEF Tick, Alternatives, HoldsOutput, Takes

\* The monitor moves by polls of the control loop alone.
LEMMA ControlPolls ==
  ASSUME [Next]_vars
  PROVE  [NextPoll]_sensorVars
<1>1. CASE UNCHANGED vars
  BY <1>1 DEF vars, sensorVars
<1>2. CASE Tick
  BY <1>2, ControlAssumption DEF Tick, NextPoll
<1>3. CASE SetNudgeEnabled \/ SetHold \/ Request \/ Sample \/ SweepEnds \/ Finish
  BY <1>3 DEF SetNudgeEnabled, SetHold, Request, Sample, SweepEnds, Finish, controlVars, sensorVars
<1> QED
  BY <1>1, <1>2, <1>3 DEF Next, Loop

LEMMA SensorInvStep ==
  ASSUME SensorInv, [Next]_vars
  PROVE  SensorInv'
BY ControlPolls, SensorStep

-----------------------------------------------------------------------------
LEMMA PositionTypes ==
  ASSUME NEW p \in Positions
  PROVE  /\ p.magnitude \in 0..MaxMagnitude
         /\ p.magnitude > 0 => p.direction \in Directions
BY ControlAssumption DEF Positions

LEMMA ReadTypes ==
  ASSUME TypeOK, NEW kind, NEW at \in Positions, Read(kind, at)
  PROVE  seen' \in Positions
BY DEF TypeOK, Read

\* Ages and streaks stay within their limits.
LEMMA OlderTypes ==
  ASSUME NEW limit \in Nat, NEW age \in Ages(limit)
  PROVE  Older(age, limit) \in Ages(limit)
BY IncrementBounded DEF Older, Ages, Unset

LEMMA NeutralTypes == Neutral \in Reports
BY DEF Neutral, Reports

\* The part of the types that the nudges are about.
NudgeTypes ==
  /\ nudge \in NudgeDirections /\ scroll \in 0..(ScrollDivider - 1)
  /\ window \in 0..HoldTime /\ prev \in 0..MaxMagnitude /\ initialised \in BOOLEAN

LEMMA UnmovedTypes ==
  ASSUME TypeOK, UNCHANGED nudgeVars
  PROVE  NudgeTypes'
BY DEF TypeOK, nudgeVars, NudgeTypes

\* A release and a fresh baseline, alone or together.
LEMMA ReleasedTypes ==
  ASSUME TypeOK, seen' \in Positions,
         Release \/ UNCHANGED <<nudge, scroll>>,
         Rebase \/ UNCHANGED <<window, prev, initialised>>
  PROVE  NudgeTypes'
<1>1. nudge' \in NudgeDirections /\ scroll' \in 0..(ScrollDivider - 1)
  BY ControlAssumption DEF TypeOK, Release, NudgeDirections
<1>2. window' \in 0..HoldTime /\ prev' \in 0..MaxMagnitude /\ initialised' \in BOOLEAN
  <2>1. seen'.magnitude \in 0..MaxMagnitude /\ 0 \in 0..HoldTime
    BY PositionTypes, ControlAssumption
  <2>2. CASE Rebase
    BY <2>1, <2>2 DEF Rebase
  <2>3. CASE UNCHANGED <<window, prev, initialised>>
    BY <2>3 DEF TypeOK
  <2> QED
    BY <2>2, <2>3
<1> QED
  BY <1>1, <1>2 DEF NudgeTypes

\* The bookkeeping of the ticks that step nothing.
LEMMA QuietTickTypes ==
  ASSUME TypeOK, seen' \in Positions, HeldTick \/ FaultedTick \/ SweepTick
  PROVE  /\ NudgeTypes'
         /\ idle' \in Ages(IdleDwell) /\ last_nudge' \in Ages(NudgeInterval)
         /\ corrected' = FALSE /\ report' = Neutral
<1>1. idle' \in Ages(IdleDwell) /\ last_nudge' \in Ages(NudgeInterval) /\ corrected' = FALSE
  BY OlderTypes, ControlAssumption DEF TypeOK, HeldTick, FaultedTick, SweepTick, NoDrift
<1>2. report' = Neutral
  BY DEF HeldTick, FaultedTick, SweepTick
<1>3. NudgeTypes'
  BY ReleasedTypes DEF HeldTick, FaultedTick, SweepTick, nudgeVars
<1> QED
  BY <1>1, <1>2, <1>3

\* A baseline is a magnitude, and a push from it has a direction.
LEMMA BaselineTypes ==
  ASSUME TypeOK, seen' \in Positions
  PROVE  /\ Baseline \in 0..MaxMagnitude /\ Elapsed \in 0..HoldTime
         /\ Entered => seen'.direction \in Directions
<1>1. Baseline \in 0..MaxMagnitude
  BY PositionTypes DEF TypeOK, Baseline
<1>2. Elapsed \in 0..HoldTime
  BY IncrementBounded, ControlAssumption DEF TypeOK, Elapsed
<1>3. Entered => seen'.magnitude > 0
  BY <1>1, PositionTypes, ControlAssumption DEF Entered
<1> QED
  BY <1>1, <1>2, <1>3, PositionTypes

LEMMA MouseTypes ==
  ASSUME TypeOK, seen' \in Positions, MouseStep
  PROVE  /\ NudgeTypes'
         /\ report' \in Reports
<1>1. nudge' \in NudgeDirections
  BY BaselineTypes DEF TypeOK, MouseStep, NextNudge, Held, NudgeDirections
<1>2. scroll' \in 0..(ScrollDivider - 1)
  <2>1. \A n \in Nat : n % ScrollDivider \in 0..(ScrollDivider - 1)
    BY ControlAssumption
  <2>2. ScrollDivider - 1 \in Nat /\ scroll \in Nat /\ scroll + 1 \in Nat
    BY ControlAssumption DEF TypeOK
  <2> QED
    BY <2>1, <2>2 DEF TypeOK, MouseStep, Polled
<1>3. window' \in 0..HoldTime /\ prev' \in 0..MaxMagnitude /\ initialised' \in BOOLEAN
  BY BaselineTypes, PositionTypes, ControlAssumption DEF MouseStep
<1>4. report' \in Reports
  BY PositionTypes DEF MouseStep, MouseReport, Reports
<1> QED
  BY <1>1, <1>2, <1>3, <1>4 DEF NudgeTypes

LEMMA StepTickTypes ==
  ASSUME TypeOK, seen' \in Positions, StepTick
  PROVE  /\ NudgeTypes'
         /\ idle' \in Ages(IdleDwell) /\ last_nudge' \in Ages(NudgeInterval)
         /\ corrected' \in BOOLEAN /\ report' \in Reports
<1>1. idle' \in Ages(IdleDwell) /\ last_nudge' \in Ages(NudgeInterval) /\ corrected' \in BOOLEAN
  <2> DEFINE since == IF idle = Unset THEN 0 ELSE Increment(idle, IdleDwell)
             last == Older(last_nudge, NudgeInterval)
  <2>1. last \in Ages(NudgeInterval)
    BY OlderTypes, ControlAssumption DEF TypeOK
  <2>2. since \in 0..IdleDwell
    BY IncrementBounded, ControlAssumption DEF TypeOK, Ages
  <2>3. \/ idle' = Unset /\ last_nudge' = last /\ corrected' = FALSE
        \/ /\ idle' = since
           /\ corrected' = (since >= IdleDwell /\ (last = Unset \/ last >= NudgeInterval))
           /\ last_nudge' = IF corrected' THEN 0 ELSE last
    BY DEF StepTick, DriftStep
  <2> HIDE DEF since, last
  <2>4. corrected' \in BOOLEAN
    BY <2>3, Zenon
  <2>5. idle' \in Ages(IdleDwell)
    BY <2>2, <2>3 DEF Ages
  <2>6. last_nudge' \in Ages(NudgeInterval)
    BY <2>1, <2>3, ControlAssumption DEF Ages
  <2> QED
    BY <2>4, <2>5, <2>6
<1>2. CASE MouseStep
  BY <1>1, <1>2, MouseTypes
<1>3. CASE XacStep
  <2>1. report' \in Reports
    <3>1. \A on \in BOOLEAN : [Neutral EXCEPT !.moving = on] \in Reports
      BY DEF Neutral, Reports
    <3>2. (seen'.magnitude > 0) \in BOOLEAN
      OBVIOUS
    <3> QED
      BY <1>3, <3>1, <3>2, Zenon DEF XacStep
  <2> QED
    BY <1>1, <1>3, <2>1, UnmovedTypes DEF XacStep
<1> QED
  BY <1>2, <1>3 DEF StepTick

\* What a tick leaves in the history: a break begins it anew, any other tick adds what
\* it read.
LEMMA TickHistory ==
  ASSUME TypeOK, SeenSince, Tick
  PROVE  /\ seen' \in Positions
         /\ low' \in 0..Unread /\ blind' \in BOOLEAN
         /\ low' # Unread => low' <= seen'.magnitude
         /\ Broken(poll') => blind' \/ low' <= seen'.magnitude
         /\ Unbroken(poll')
              => low' <= low /\ (IF Due THEN blind' \/ low' <= seen'.magnitude ELSE blind' = blind)
<1>1. PICK kind \in Polls, at \in Positions : Poll(kind) /\ Read(kind, at)
  BY TickCases
<1>2. poll' = kind /\ seen' \in Positions
  BY <1>1, ReadTypes DEF Poll
<1>3. /\ seen'.magnitude \in 0..MaxMagnitude /\ seen.magnitude \in 0..MaxMagnitude
      /\ low \in 0..Unread /\ blind \in BOOLEAN /\ MaxMagnitude \in Nat
  BY <1>2, PositionTypes, ControlAssumption DEF TypeOK
<1>4. ASSUME Broken(poll')
      PROVE  /\ low' \in 0..Unread /\ blind' \in BOOLEAN
             /\ low' # Unread => low' <= seen'.magnitude
             /\ blind' \/ low' <= seen'.magnitude
  <2>1. low' \in 0..Unread /\ (low' # Unread => low' <= seen'.magnitude)
        /\ (Tells(poll') => low' <= seen'.magnitude)
    BY <1>3, <1>4 DEF Broken, Unread
  <2>2. blind' \in BOOLEAN /\ (blind' \/ Tells(poll'))
    BY <1>4, Zenon DEF Broken, Tells
  <2> QED
    BY <2>1, <2>2
<1>5. ASSUME Unbroken(poll')
      PROVE  /\ low' \in 0..Unread /\ blind' \in BOOLEAN /\ low' <= low
             /\ low' # Unread => low' <= seen'.magnitude
             /\ IF Due THEN blind' \/ low' <= seen'.magnitude ELSE blind' = blind
  <2>1. ~Tells(poll') => seen' = seen
    BY <1>1, <1>2 DEF Read, Tells, Repeats
  <2>2. low' \in 0..Unread /\ low' <= low /\ (low' # Unread => low' <= seen'.magnitude)
    BY <1>3, <1>5, <2>1 DEF Unbroken, Unread, Lower, SeenSince
  <2>3. blind' = IF Due THEN low' = Unread ELSE blind
    BY <1>5 DEF Unbroken
  <2>4. blind' \in BOOLEAN
    BY <1>3, <2>3, Zenon
  <2> QED
    BY <2>2, <2>3, <2>4
<1>6. Broken(poll') \/ Unbroken(poll')
  BY TickCases DEF HeldTick, SweepTick, FaultedTick, StepTick
<1> QED
  BY <1>2, <1>4, <1>5, <1>6

LEMMA TypesStep ==
  ASSUME TypeOK, SensorInv, SeenSince, [Next]_vars
  PROVE  TypeOK'
<1>1. SensorTypeOK'
  BY SensorInvStep DEF SensorInv
<1>2. CASE UNCHANGED vars
  BY <1>1, <1>2 DEF vars, hostVars, nudgeVars, driftVars, history, TypeOK
<1>3. CASE SetNudgeEnabled \/ SetHold \/ Request \/ Sample \/ Finish
  <2>1. enabled' \in BOOLEAN /\ hold' \in BOOLEAN /\ hold_seen' \in BOOLEAN
    BY <1>3, Zenon DEF SetNudgeEnabled, SetHold, Request, Sample, Finish, controlVars, hostVars,
                       TypeOK
  <2>2. gate' \in {"idle", "requested", "running"} /\ loop' \in {"sample", "tick", "sweep", "finish"}
    BY <1>3 DEF SetNudgeEnabled, SetHold, Request, Sample, Finish, controlVars, TypeOK
  <2>3. UNCHANGED <<mode, needs_calibration, seen, nudgeVars, driftVars, report, history>>
    BY <1>3 DEF SetNudgeEnabled, SetHold, Request, Sample, Finish, controlVars
  <2> QED
    BY <1>1, <2>1, <2>2, <2>3 DEF nudgeVars, driftVars, history, TypeOK
<1>4. CASE SweepEnds
  <2>1. seen' \in Positions
    BY <1>4, ReadTypes DEF SweepEnds
  <2>2. low' \in 0..Unread /\ blind' \in BOOLEAN /\ report' \in Reports
    BY <1>4, <2>1, PositionTypes, NeutralTypes, ControlAssumption DEF SweepEnds, Broken, Unread
  <2>3. NudgeTypes'
    BY <1>4, <2>1, ReleasedTypes DEF SweepEnds, nudgeVars
  <2>4. needs_calibration' \in BOOLEAN
    BY <1>4, Zenon DEF SweepEnds, TypeOK
  <2> QED
    BY <1>1, <1>4, <2>1, <2>2, <2>3, <2>4 DEF SweepEnds, hostVars, Ages, NudgeTypes, TypeOK
<1>5. CASE Tick
  <2>1. PICK kind \in Polls, at \in Positions : Read(kind, at)
    BY <1>5, TickCases
  <2>2. seen' \in Positions
    BY <2>1, ReadTypes
  <2>3. /\ NudgeTypes'
        /\ idle' \in Ages(IdleDwell) /\ last_nudge' \in Ages(NudgeInterval)
        /\ corrected' \in BOOLEAN /\ report' \in Reports
    BY <1>5, <2>2, TickCases, QuietTickTypes, StepTickTypes, NeutralTypes
  <2>4. low' \in 0..Unread /\ blind' \in BOOLEAN
    BY <1>5, TickHistory
  <2> QED
    BY <1>1, <1>5, <2>2, <2>3, <2>4 DEF Tick, hostVars, NudgeTypes, TypeOK
<1> QED
  BY <1>2, <1>3, <1>4, <1>5 DEF Next, Loop

-----------------------------------------------------------------------------
\* Only a tick that steps reports anything or moves the center.
LEMMA QuietStep ==
  ASSUME TypeOK, SensorInv, QuietWhenUntrusted, [Next]_vars
  PROVE  QuietWhenUntrusted'
<1>1. CASE UNCHANGED vars
  BY <1>1 DEF vars, sensorVars, driftVars, QuietWhenUntrusted
<1>2. CASE SetNudgeEnabled \/ SetHold \/ Request
  BY <1>2 DEF SetNudgeEnabled, SetHold, Request, controlVars, sensorVars, driftVars,
              QuietWhenUntrusted
<1>3. CASE Sample \/ Finish
  BY <1>3 DEF Sample, Finish, sensorVars, driftVars, QuietWhenUntrusted
<1>4. CASE SweepEnds
  BY <1>4 DEF SweepEnds, QuietWhenUntrusted
<1>5. CASE Tick
  <2>1. CASE HeldTick \/ SweepTick \/ FaultedTick
    BY <2>1 DEF HeldTick, SweepTick, FaultedTick, NoDrift, QuietWhenUntrusted
  <2>2. CASE ~Faulted(monitor') /\ ~HoldsOutput /\ ~Takes
    <3>1. /\ failing' < TripAfter
          /\ StaleAfter > 0 /\ poll' = "frozen" => frozen' < StaleAfter
      <4>1. SensorInv'
        BY SensorInvStep
      <4> QED
        BY <2>2, <4>1, ConfigAssumption
           DEF SensorInv, SensorTypeOK, Failures, Frozen
    <3>2. loop' = "sample" /\ ~hold_seen' /\ ~needs_calibration'
      BY <1>5, <2>2 DEF Tick, HoldsOutput
    <3> QED
      BY <3>1, <3>2 DEF QuietWhenUntrusted
  <2> QED
    BY <1>5, <2>1, <2>2, TickCases
<1> QED
  BY <1>1, <1>2, <1>3, <1>4, <1>5 DEF Next, Loop

-----------------------------------------------------------------------------
\* The history's steps, ticks and what they read apart.
LEMMA SeenStep ==
  ASSUME TypeOK, SeenSince, [Next]_vars
  PROVE  SeenSince'
<1>1. CASE UNCHANGED <<seen, history>>
  BY <1>1 DEF history, SeenSince, Unread
<1>2. CASE SweepEnds
  <2>1. seen'.magnitude \in Int
    BY <1>2, ReadTypes, PositionTypes DEF SweepEnds
  <2> QED
    BY <1>2, <2>1 DEF SweepEnds, Broken, SeenSince, Unread
<1>3. CASE Tick
  BY <1>3, TickHistory DEF SeenSince, Unread
<1> QED
  BY <1>1, <1>2, <1>3
     DEF vars, Next, Loop, SetNudgeEnabled, SetHold, Request, Sample, Finish, controlVars

\* A step measures from no lower than the stick was read since a break, and keeps it so:
\* a sensor that has not just recovered was not faulted before.
LEMMA StepMeasures ==
  ASSUME TypeOK, BaselineSeen, SeenSince, Tick, StepTick, ~Faulted(monitor'), MouseStep
  PROVE  /\ blind' \/ low' <= prev'
         /\ ~Fresh /\ enabled /\ ~blind => low' <= Baseline
<1>1. ~Fresh /\ ~blind => low <= prev
  BY DEF Fresh, Recovered, MouseStep, Tick, BaselineSeen
<1>2. seen'.magnitude \in Int /\ prev \in Int /\ low \in Int /\ low' \in Int
  BY TickHistory, PositionTypes DEF TypeOK
<1>3. CASE Fresh \/ ~enabled
  BY <1>2, <1>3, TickHistory DEF StepTick, MouseStep, Baseline
<1>4. CASE ~Fresh /\ enabled
  BY <1>1, <1>2, <1>4, TickHistory DEF StepTick, MouseStep, Baseline
<1> QED
  BY <1>3, <1>4

LEMMA BaselineStep ==
  ASSUME TypeOK, BaselineSeen, SeenSince, [Next]_vars
  PROVE  BaselineSeen'
<1>1. CASE UNCHANGED vars
  BY <1>1 DEF vars, sensorVars, nudgeVars, history, Faulted, BaselineSeen
<1>2. CASE SetNudgeEnabled \/ SetHold \/ Request \/ Sample
  BY <1>2 DEF SetNudgeEnabled, SetHold, Request, Sample, controlVars, sensorVars, nudgeVars,
              history, Faulted, BaselineSeen
<1>3. CASE Finish
  BY <1>3 DEF Finish, sensorVars, nudgeVars, history, Faulted, BaselineSeen
<1>4. CASE SweepEnds
  <2>1. seen'.magnitude \in Int
    BY <1>4, ReadTypes, PositionTypes DEF SweepEnds
  <2>2. PICK kind \in Polls : Broken(kind)
    BY <1>4 DEF SweepEnds
  <2>3. blind' \/ low' = seen'.magnitude
    BY <2>2, Zenon DEF Broken
  <2> QED
    BY <1>4, <2>1, <2>3 DEF SweepEnds, Rebase, BaselineSeen
<1>5. CASE Tick
  <2>1. seen'.magnitude \in Int
    BY <1>5, TickHistory, PositionTypes
  <2>2. CASE HeldTick
    BY <1>5, <2>1, <2>2, TickHistory DEF Tick, HeldTick, Rebase, BaselineSeen
  <2>3. CASE SweepTick /\ Takes
    BY <1>5, <2>3 DEF Tick, Takes, HoldsOutput, BaselineSeen
  <2>4. CASE Faulted(monitor')
    BY <2>4 DEF Faulted, BaselineSeen
  <2>5. CASE StepTick /\ ~Faulted(monitor')
    BY <1>5, <2>5, StepMeasures DEF Tick, StepTick, XacStep, BaselineSeen
  <2> QED
    BY <1>5, <2>2, <2>3, <2>4, <2>5, TickCases
<1> QED
  BY <1>1, <1>2, <1>3, <1>4, <1>5 DEF Next, Loop

\* A nudge begins in a tick of the mouse loop that finds a push from its baseline, and a
\* tick that takes the baseline anew finds none.
LEMMA NudgeStep ==
  ASSUME TypeOK, BaselineSeen, SeenSince, [Next]_vars, nudge = None, nudge' # None
  PROVE  /\ blind \/ seen'.magnitude - low' >= EnterDelta
         /\ nudge' = seen'.direction
<1>1. Tick
  BY DEF vars, nudgeVars, Next, Loop, SetNudgeEnabled, SetHold, Request, Sample, Finish,
         SweepEnds, Release, controlVars
<1>2. StepTick /\ ~Faulted(monitor') /\ MouseStep
  BY <1>1, TickCases DEF HeldTick, SweepTick, FaultedTick, Release, nudgeVars, StepTick, XacStep
<1>3. Entered /\ nudge' = seen'.direction
  BY <1>2 DEF MouseStep, NextNudge, Held
<1>4. seen' \in Positions /\ low' \in Int
  BY <1>1, TickHistory
<1>5. seen'.magnitude \in Int /\ Baseline \in Int /\ EnterDelta \in Nat \ {0}
  BY <1>4, PositionTypes, BaselineTypes, ControlAssumption
<1>6. ~Fresh /\ enabled
  BY <1>3, <1>5 DEF Entered, Baseline
<1> QED
  BY <1>1, <1>2, <1>3, <1>4, <1>5, <1>6, StepMeasures DEF Entered

-----------------------------------------------------------------------------
LEMMA ControlInvInit == Init => ControlInv
<1> SUFFICES ASSUME Init PROVE ControlInv
  OBVIOUS
<1>1. SensorInv /\ SensorTypeOK
  BY SensorInvInit DEF Init, SensorInv
<1>2. seen \in Positions /\ report \in Reports
  BY NeutralTypes DEF Init
<1>3. NudgeTypes /\ low \in 0..Unread /\ blind \in BOOLEAN
  <2>1. 0 \in 0..MaxMagnitude /\ Unread \in 0..Unread /\ 0 \in 0..HoldTime /\ 0 \in 0..(ScrollDivider - 1)
    BY ControlAssumption DEF Unread
  <2> QED
    BY <2>1 DEF Init, NudgeTypes, NudgeDirections
<1>4. TypeOK
  BY <1>1, <1>2, <1>3 DEF Init, TypeOK, NudgeTypes, Ages
<1>5. QuietWhenUntrusted /\ BaselineSeen /\ SeenSince
  BY DEF Init, QuietWhenUntrusted, BaselineSeen, SeenSince
<1> QED
  BY <1>1, <1>4, <1>5 DEF ControlInv

LEMMA ControlInvStep == ControlInv /\ [Next]_vars => ControlInv'
BY TypesStep, SensorInvStep, QuietStep, BaselineStep, SeenStep DEF ControlInv

LEMMA ControlInvariant == Spec => []ControlInv
BY ControlInvInit, ControlInvStep, PTL DEF Spec

\* The loops' state holds values of its types, for any thresholds.
THEOREM ControlTypesCorrect == Spec => []TypeOK
<1>1. ControlInv => TypeOK
  BY DEF ControlInv
<1> QED
  BY <1>1, ControlInvariant, PTL

\* Nothing moves, clicks or is corrected on a sensor that stopped answering or converting,
\* during a hold, without a calibration or in a sweep (mouse_control, xac_control).
THEOREM QuietWhenUntrustedCorrect == Spec => []QuietWhenUntrusted
<1>1. ControlInv => QuietWhenUntrusted
  BY DEF ControlInv
<1> QED
  BY <1>1, ControlInvariant, PTL

\* A click or a scroll starts only with a push from where the stick was read since the
\* last break - nudges switched off, a hold, a fault or a sweep (mouse_control) - or, when
\* the last read of that break told nothing, from the reading before it.
THEOREM NudgeEarnedCorrect == Spec => NudgeEarned
<1>1. ControlInv /\ [Next]_vars
        => [nudge = None /\ nudge' # None
              => /\ blind \/ seen'.magnitude - low' >= EnterDelta
                 /\ nudge' = seen'.direction]_vars
  BY NudgeStep DEF ControlInv
<1> QED
  BY <1>1, ControlInvariant, PTL DEF Spec, NudgeEarned

\* The control loops implement the fault monitor's specification: every step of theirs is
\* a poll of it or leaves it alone (sensor_fault_update's callers).
THEOREM ControlImplementsSensor == Spec => SensorSpec
<1>1. Init => SensorInit
  BY DEF Init
<1>2. [Next]_vars => [NextPoll]_sensorVars
  BY ControlPolls
<1> QED
  BY <1>1, <1>2, PTL DEF Spec, SensorSpec, NextPoll

\* So what is proved of the monitor holds in the loops: a loss becomes a fault, a fault
\* clears when it should and not before, and the diagnostics tell.
THEOREM ControlFaultsCorrect ==
  Spec => [](LossIsFault /\ HealthyIsObserved /\ RecoveryDue) /\ RecoveryEarned
BY ControlImplementsSensor, LossIsFaultCorrect, HealthyIsObservedCorrect, RecoveryDueCorrect,
   RecoveryEarnedCorrect, PTL
=============================================================================
