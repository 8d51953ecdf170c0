---------------------------- MODULE OmegaDevice ----------------------------
(***************************************************************************)
(* The running device: the services of CalibrationService on their         *)
(* dispatcher tasks, the polling loop of main.cpp with the firmware health *)
(* check it drives, the detached reboot threads, and resets.               *)
(*                                                                         *)
(* The loop is the one thread that sends HID reports.  It samples the hold *)
(* counter once per iteration, so what the services promise about neutral  *)
(* output is only as good as what the loop last sampled.                   *)
(*                                                                         *)
(* What the report carries when nothing holds it is left to ControlTick;   *)
(* here a report is "neutral" or "moving".                                 *)
(***************************************************************************)
EXTENDS CalibrationService

VARIABLES
  loop,        \* the polling loop's next step, see LoopSteps
  visit,       \* services whose expire_stale_update() is still to be called
  hold_seen,   \* the loop's `hold`, sampled once per iteration
  health,      \* FirmwareHealthCheck: pending_, holding_ and its two timers
  last_report, \* what the last HID report said
  late         \* moving reports sent since the output was last not held

loopVars == <<loop, visit, hold_seen, health, last_report>>
vars == <<serviceVars, loopVars, late>>

LoopSteps == {"health", "rollback", "expire", "take", "tick", "neutral", "sweep", "finish"}

\* off: nothing (more) to do.  watching: pending_, before the deadline.
\* overdue: pending_, past ROLLBACK_DEADLINE.  holding: holding_, before
\* ROLLBACK_HOLD has passed.  due: holding_, past it.
HealthStates == {"off", "watching", "overdue", "holding", "due"}
HealthHolds == health \in {"holding", "due"} \/ loop = "rollback"

DeviceTypeOK ==
  /\ TypeOK
  /\ loop \in LoopSteps
  /\ visit \in SUBSET Links
  /\ hold_seen \in BOOLEAN
  /\ health \in HealthStates
  /\ last_report \in {"neutral", "moving"}
  /\ late \in 0..2

Init ==
  /\ ServiceInit
  /\ loop = "health"
  /\ visit = {}
  /\ hold_seen = FALSE
  /\ health = (IF pending THEN "watching" ELSE "off")
  /\ last_report = "neutral"
  /\ late = 0

\* The chip starts over, whatever it was doing.
Reset ==
  /\ ServiceReset
  /\ loop' = "health"
  /\ visit' = {}
  /\ hold_seen' = FALSE
  /\ health' = (IF pending' THEN "watching" ELSE "off")
  /\ last_report' = "neutral"

-----------------------------------------------------------------------------
\* tick() has nothing to report: the check is off, not due yet, or has just
\* found the image confirmed.
HealthQuiet ==
  /\ loop = "health"
  /\ \/ health \in {"off", "watching", "holding"} /\ UNCHANGED health
     \/ health \in {"watching", "overdue"} /\ ~pending /\ health' = "off"
  /\ loop' = "expire"
  /\ visit' = Links
  /\ UNCHANGED <<serviceVars, hold_seen, last_report>>

\* Mutant of HealthHold: the rollback is announced, the output is not held.
HealthHoldUnheld ==
  /\ loop = "health"
  /\ health = "overdue"
  /\ pending
  /\ health' = "holding"
  /\ loop' = "expire"
  /\ visit' = Links
  /\ UNCHANGED <<serviceVars, hold_seen, last_report>>

\* tick() returns HOLD_OUTPUT.
HealthHold ==
  /\ loop = "health"
  /\ health = "overdue"
  /\ pending
  /\ health' = "holding"
  /\ output_holds' = output_holds + 1
  /\ loop' = "expire"
  /\ visit' = Links
  /\ UNCHANGED <<linkVars, engineVars, rebooting, mode, gate, owed, host_gone, hold_seen,
                 last_report>>

\* tick() returns ROLL_BACK; rollback_now() looks whether the host confirmed
\* the image during the hold, and if not goes on to the rollback.
HealthRollBack ==
  /\ loop = "health"
  /\ health = "due"
  /\ health' = "off"
  /\ IF pending
       THEN /\ loop' = "rollback"
            /\ UNCHANGED <<visit, output_holds>>
       ELSE /\ loop' = "expire"
            /\ visit' = Links
            /\ output_holds' = output_holds - 1
  /\ UNCHANGED <<linkVars, engineVars, rebooting, mode, gate, owed, host_gone, hold_seen,
                 last_report>>

\* mark_app_invalid_and_rollback() reboots into the other image, or fails and
\* returns.
RollbackReboots == loop = "rollback" /\ Reset

RollbackFails ==
  /\ loop = "rollback"
  /\ loop' = "expire"
  /\ visit' = Links
  /\ output_holds' = output_holds - 1
  /\ UNCHANGED <<linkVars, engineVars, rebooting, mode, gate, owed, host_gone, hold_seen, health,
                 last_report>>

\* The two timers of the health check.
HealthTimer ==
  /\ \/ health = "watching" /\ health' = "overdue"
     \/ health = "holding" /\ health' = "due"
  /\ UNCHANGED <<serviceVars, loop, visit, hold_seen, last_report>>

-----------------------------------------------------------------------------
ExpireVisit(l) ==
  /\ loop = "expire"
  /\ l \in visit
  /\ visit' = visit \ {l}
  /\ ExpireStaleUpdate(l)
  /\ UNCHANGED <<loop, hold_seen, health, last_report>>

\* Mutant of SampleHold: the loop keeps the value it had.
SampleHoldNever ==
  /\ loop = "expire"
  /\ visit = {}
  /\ loop' = "take"
  /\ UNCHANGED <<serviceVars, visit, hold_seen, health, last_report>>

SampleHold ==
  /\ loop = "expire"
  /\ visit = {}
  /\ hold_seen' = (output_holds > 0)
  /\ loop' = "take"
  /\ UNCHANGED <<serviceVars, visit, health, last_report>>

\* Mutant of TakeRequest: recal = take() && !hold, the request taken first.
TakeRequestFirst ==
  /\ loop = "take"
  /\ gate' = IF gate = "requested" THEN "running" ELSE gate
  /\ loop' = IF gate = "requested" /\ ~hold_seen THEN "neutral" ELSE "tick"
  /\ UNCHANGED <<linkVars, engineVars, output_holds, rebooting, mode, owed, host_gone, visit,
                 hold_seen, health, last_report>>

\* recal = !hold && recalibration_gate.take()
TakeRequest ==
  /\ loop = "take"
  /\ IF ~hold_seen /\ gate = "requested"
       THEN gate' = "running" /\ loop' = "neutral"
       ELSE UNCHANGED gate /\ loop' = "tick"
  /\ UNCHANGED <<linkVars, engineVars, output_holds, rebooting, mode, owed, host_gone, visit,
                 hold_seen, health, last_report>>

\* Mutant of Tick: the stick is reported whatever the hold says.
TickUnheld(report) ==
  /\ loop = "tick"
  /\ last_report' = report
  /\ hold_seen' = FALSE
  /\ loop' = "health"
  /\ UNCHANGED <<serviceVars, visit, health>>

\* A tick without recalibration sends one report: neutral under a hold, and
\* otherwise whatever the stick says.
Tick(report) ==
  /\ loop = "tick"
  /\ hold_seen => report = "neutral"
  /\ last_report' = report
  /\ hold_seen' = FALSE   \* the local goes out of scope
  /\ loop' = "health"
  /\ UNCHANGED <<serviceVars, visit, health>>

\* The neutral report that precedes a sweep.
TickNeutral ==
  /\ loop = "neutral"
  /\ last_report' = "neutral"
  /\ loop' = "sweep"
  /\ UNCHANGED <<serviceVars, visit, hold_seen, health>>

\* run_sweep() ends, well or badly, and notifies every link.
SweepEnds ==
  /\ loop = "sweep"
  /\ owed' = owed - 1
  /\ loop' = "finish"
  /\ UNCHANGED <<linkVars, engineVars, output_holds, rebooting, mode, gate, host_gone, visit,
                 hold_seen, health, last_report>>

\* The neutral report after the sweep, then RecalibrationGate::finish().
FinishRequest ==
  /\ loop = "finish"
  /\ last_report' = "neutral"
  /\ gate' = "idle"
  /\ loop' = "health"
  /\ UNCHANGED <<linkVars, engineVars, output_holds, rebooting, mode, owed, host_gone, visit,
                 hold_seen, health>>

-----------------------------------------------------------------------------
\* A reboot_after_flush() thread wakes up, or on_mode_changed restarts.
RebootThread == rebooting /\ Reset
SwitchRestart == (\E l \in Links : task[l] = "switching") /\ Reset

\* A power cycle, a crash or a watchdog reset, at any time.
PowerCycle == Reset

Loop ==
  \/ HealthQuiet
  \/ HealthHold
  \/ HealthRollBack
  \/ RollbackReboots
  \/ RollbackFails
  \/ \E l \in Links : ExpireVisit(l)
  \/ SampleHold
  \/ TakeRequest
  \/ \E report \in {"neutral", "moving"} : Tick(report)
  \/ TickNeutral
  \/ SweepEnds
  \/ FinishRequest

Service ==
  \/ \E l \in Links : Request(l)
  \/ \E l \in Links : Proceed(l)
  \/ \E l \in Links : IdleTimeout(l)
  \/ HostGone

Step ==
  \/ Service /\ UNCHANGED loopVars
  \/ Loop
  \/ HealthTimer
  \/ RebootThread
  \/ SwitchRestart
  \/ PowerCycle

\* The history variable: a moving report counts as late when the output is
\* held as it goes out; the count starts over when the output is not held.
Observe ==
  late' = IF output_holds' <= 0 THEN 0
          ELSE IF loop = "tick" /\ loop' = "health" /\ last_report' = "moving" THEN late + 1
          ELSE late

Next == Step /\ Observe

Spec == Init /\ [][Next]_vars

(***************************************************************************)
(* The device's own threads run and its timers elapse; no request of a     *)
(* host is ever assumed, nor a reset.  A reply is queued or refused, an    *)
(* erase succeeds or fails: either way the dispatcher task goes on.        *)
(***************************************************************************)
Fairness ==
  /\ WF_vars(Loop /\ Observe)
  /\ WF_vars(HealthTimer /\ Observe)
  /\ WF_vars((RebootThread \/ SwitchRestart) /\ Observe)
  /\ \A l \in Links : WF_vars(Proceed(l) /\ UNCHANGED loopVars /\ Observe)
  /\ \A l \in Links : WF_vars(IdleTimeout(l) /\ UNCHANGED loopVars /\ Observe)

FairSpec == Spec /\ Fairness

-----------------------------------------------------------------------------
(***************************************************************************)
(* Safety.                                                                 *)
(***************************************************************************)

\* The shared counter is exactly the services that hold plus the health
\* check: edge-only forwarding (hold_output) and the health check's paired
\* add and subtract never release each other's hold nor leak one.
HoldCount ==
  output_holds = Cardinality(holders) + (IF HealthHolds THEN 1 ELSE 0)

\* At every moment at most one service owns the shared engine's session, a
\* session without an owner does not exist (nobody could end it), and the
\* owner holds the output, whatever OTA_BEGIN, take-over, idle expiry, REVERT
\* and dropped replies of both links do in between.
UploadExclusive ==
  /\ session = (owners # {})
  /\ owners \subseteq holders
  /\ \A l, k \in owners : l = k

\* A reboot is certain to come.
RebootComing == rebooting \/ \E l \in Links : task[l] = "switching"

\* No hold leaks: a service that holds the output neutral runs an upload, is
\* in the middle of a request, or a reboot will end the hold.  A hold nobody
\* is going to release would leave the stick dead until a power cycle.
HoldHasReason ==
  \A l \in holders :
    \/ l \in owners
    \/ task[l] \in {"erasing", "erasing_held"}
    \/ task[l] = "replying" /\ after_reply[l] # "none"
    \/ RebootComing

\* The loop samples the hold once per iteration, so the report in flight when
\* the hold goes up may still move the pointer; the next one may not.
OneLateReport == late <= 1

\* The gate is busy exactly from an accepted START_CALIBRATION until the loop
\* calls finish(), and every accepted request is owed exactly one result: none
\* is lost to a hold, none is run or answered twice.
CalibrationOwed ==
  /\ (gate = "running") = (loop \in {"neutral", "sweep", "finish"})
  /\ owed = IF gate = "requested" \/ loop \in {"neutral", "sweep"} THEN 1 ELSE 0

\* When the health check marks the image invalid and reboots, the last report
\* the host saw is neutral: the device never vanishes mid-deflection.
NeutralAtRollback == loop = "rollback" => last_report = "neutral"

\* The claim of calibration_service.hpp: the output stays neutral before a
\* reboot that RESTART, REVERT or OTA_FINISH deferred, until that reboot.
HeldUntilReboot == rebooting => output_holds > 0

\* The services implement the abstract upload lease.
Lease == INSTANCE UploadLease WITH lease <- owners, held <- output_holds > 0
ImplementsLease == Lease!Spec

(***************************************************************************)
(* Liveness.                                                               *)
(***************************************************************************)

\* Whatever a host that vanishes leaves behind (an upload, a reboot under way,
\* an unconfirmed image), the output is released in the end: by the idle
\* expiry, by the reboot, or by the rollback succeeding or failing.
AbandonedHoldReleased == host_gone ~> output_holds = 0

\* An accepted calibration that waits for a hold is not forgotten: it runs and
\* is answered, or the device resets.
CalibrationAnswered == (owed > 0 /\ host_gone) ~> owed = 0
=============================================================================
