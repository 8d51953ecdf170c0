--------------------------- MODULE FirmwareUpdate ---------------------------
(***************************************************************************)
(* A firmware's life in the two slots: an update or a REVERT asked for by  *)
(* the console, the trial boot, its confirmation, the health check's       *)
(* rollback, and the crash-loop handover at boot, with a reset possible    *)
(* between any two steps (main.cpp, firmware_health_check.hpp).            *)
(*                                                                         *)
(* Which link uploads and what is sent meanwhile is OmegaDevice's subject; *)
(* here an upload is a session that is open or not, and an image is known  *)
(* by the slot it was written to and the history variables that follow it. *)
(***************************************************************************)
EXTENDS FlashSlots, Sequences, FiniteSets

CONSTANTS
  CrashLoopResets,  \* CRASH_LOOP_RESETS
  LogEntries,       \* RESET_LOG_ENTRIES
  SaveOutcomes      \* what ResetLog::save() may return

ASSUME LimitsAssumption == CrashLoopResets \in Nat \ {0} /\ LogEntries \in Nat \ {0}
ASSUME SaveAssumption == SaveOutcomes # {} /\ SaveOutcomes \subseteq BOOLEAN

VARIABLES
  phase,       \* how far this boot has come, see Phases
  reason,      \* esp_reset_reason(): what ended the boot before
  log,         \* the reset log's file: <<slot, crash>> of the last boots
  boots,       \* the boot's copy of it, this boot included
  marker,      \* the handover marker in RTC memory
  by_handover, \* HandoverMarker::booted_by_handover
  check,       \* FirmwareHealthCheck's pending_ and deadline
  session,     \* an upload is open
  rebooting,   \* a console request has a reboot coming
  ran,         \* history, per slot: times its image was started, up to MaxRan
  switches     \* history: slot changes since the host or a power-on last chose

bootVars == <<phase, reason, boots, by_handover>>
ramVars == <<check, session, rebooting>>
historyVars == <<ran, switches>>
vars == <<flashVars, bootVars, log, marker, ramVars, historyVars>>

Phases == {"reset", "record", "marker", "switch", "switched", "restart", "accept", "init",
           "running", "halted"}
Reasons == {"power_on", "crash", "other"}
Records == Slots \X BOOLEAN
MaxRan == CrashLoopResets + 1
MaxSwitches == 2

TypeOK ==
  /\ FlashTypeOK
  /\ phase \in Phases
  /\ reason \in Reasons
  /\ log \in Seq(Records) /\ Len(log) <= LogEntries
  /\ boots \in Seq(Records) /\ Len(boots) <= LogEntries
  /\ marker \in {"none", "requested", "done"}
  /\ by_handover \in BOOLEAN
  /\ check \in {"off", "watching", "due", "rollback"}
  /\ session \in BOOLEAN
  /\ rebooting \in BOOLEAN
  /\ ran \in [Slots -> 0..MaxRan]
  /\ switches \in 0..MaxSwitches + 1

Init ==
  /\ FlashInit
  /\ phase = "reset"
  /\ reason = "power_on"
  /\ log = <<>>
  /\ boots = <<>>
  /\ marker = "none"
  /\ by_handover = FALSE
  /\ check = "off"
  /\ session = FALSE
  /\ rebooting = FALSE
  /\ ran = [s \in Slots |-> 0]
  /\ switches = 0

-----------------------------------------------------------------------------
\* The chip starts over: RAM is lost, RTC memory with it at a power-on.
ResetBy(why) ==
  /\ phase' = "reset"
  /\ reason' = why
  /\ boots' = <<>>
  /\ by_handover' = FALSE
  /\ check' = "off"
  /\ session' = FALSE
  /\ rebooting' = FALSE
  /\ marker' = IF why = "power_on" THEN "none" ELSE marker
  /\ switches' = IF why = "power_on" THEN 0 ELSE switches
  /\ UNCHANGED <<log, ran>>

\* At any time: the power, a panic or a watchdog, a brownout or the reset button.
AnyReset(why) ==
  /\ phase # "reset"
  /\ ResetBy(why)
  /\ UNCHANGED flashVars

StartBootloader ==
  /\ phase = "reset"
  /\ Bootloader
  /\ phase' = "record"
  /\ ran' = [ran EXCEPT ![running'] = IF @ < MaxRan THEN @ + 1 ELSE @]
  /\ switches' = IF running' = running \/ switches > MaxSwitches THEN switches ELSE switches + 1
  /\ UNCHANGED <<reason, boots, log, marker, by_handover, ramVars>>

\* ResetLog: load, record(), save().  A failed save costs the file this entry.
RecordReset(saved) ==
  /\ phase = "record"
  /\ LET all == Append(log, <<running, reason = "crash">>)
         kept == IF Len(all) > LogEntries THEN Tail(all) ELSE all
     IN  /\ boots' = kept
         /\ log' = IF saved THEN kept ELSE log
  /\ phase' = "marker"
  /\ UNCHANGED <<flashVars, reason, marker, by_handover, ramVars, historyVars>>

\* crashes_while_running(): the reset recorded at one boot ended the boot before.
CrashesWhileRunning(slot) ==
  LET ended == [i \in 1..Len(boots) - 1 |-> <<boots[i][1], boots[i + 1][2]>>]
  IN  SelectSeq(ended, LAMBDA run : run[1] = slot)

\* The last `threshold` runs of the running slot all ended in a crash.
CrashLooping ==
  LET runs == CrashesWhileRunning(running)
  IN  /\ Len(runs) >= CrashLoopResets
      /\ \A i \in Len(runs) - CrashLoopResets + 1..Len(runs) : runs[i][2]

\* revert_if_crash_looping() switches: the running image is confirmed, and the
\* other slot holds a complete image nobody rejected.
HandsOver ==
  /\ CrashLooping
  /\ ~PendingVerify
  /\ image[Other(running)] = "full"
  /\ state[Other(running)] \notin {"invalid", "aborted"}

\* Mutant of TakeMarker: HANDOVER_DONE is not kept across further boots.
TakeMarkerOnce ==
  /\ phase = "marker"
  /\ by_handover' = (marker = "requested")
  /\ marker' = "none"
  /\ phase' = IF marker # "requested" /\ HandsOver THEN "switch" ELSE "accept"
  /\ boots' = <<>>
  /\ UNCHANGED <<flashVars, reason, log, ramVars, historyVars>>

\* take_handover_marker(), then the decision whether this boot hands over.
TakeMarker ==
  /\ phase = "marker"
  /\ by_handover' = (reason # "power_on" /\ marker = "requested")
  /\ LET handed_over == reason # "power_on" /\ marker \in {"requested", "done"}
     IN  /\ marker' = IF handed_over THEN "done" ELSE "none"
         /\ phase' = IF ~handed_over /\ HandsOver THEN "switch" ELSE "accept"
  /\ boots' = <<>>   \* read no more
  /\ UNCHANGED <<flashVars, reason, log, ramVars, historyVars>>

\* The handover: the boot slot, then the marker, then the restart.
HandOver ==
  /\ phase = "switch"
  /\ SetBoot(Other(running))
  /\ phase' = "switched"
  /\ UNCHANGED <<reason, boots, by_handover, log, marker, ramVars, historyVars>>

MarkHandover ==
  /\ phase = "switched"
  /\ marker' = "requested"
  /\ phase' = "restart"
  /\ UNCHANGED <<flashVars, reason, boots, by_handover, log, ramVars, historyVars>>

HandoverRestart ==
  /\ phase = "restart"
  /\ ResetBy("other")
  /\ UNCHANGED flashVars

\* accept_after_handover()
AcceptAfterHandover ==
  /\ phase = "accept"
  /\ IF by_handover /\ PendingVerify THEN MarkRunningValid ELSE UNCHANGED flashVars
  /\ phase' = "init"
  /\ UNCHANGED <<reason, boots, by_handover, log, marker, ramVars, historyVars>>

\* The sensor, the calibration and USB come up; FirmwareHealthCheck is built.
InitSucceeds ==
  /\ phase = "init"
  /\ phase' = "running"
  /\ check' = IF PendingVerify THEN "watching" ELSE "off"
  /\ UNCHANGED <<flashVars, reason, boots, by_handover, log, marker, session, rebooting,
                 historyVars>>

\* A fatal init failure: reject_if_pending() rolls back, or the boot halts.
InitFails ==
  /\ phase = "init"
  /\ IF PendingVerify /\ RollbackPossible
       THEN /\ MarkRunningInvalid
            /\ ResetBy("other")
       ELSE /\ phase' = "halted"
            /\ UNCHANGED <<flashVars, reason, boots, by_handover, log, marker, ramVars, historyVars>>

-----------------------------------------------------------------------------
(***************************************************************************)
(* The health check in the polling loop.  tick() finds the image confirmed *)
(* or past the deadline; rollback_now() looks once more, and then marks    *)
(* the image invalid in a call of its own.  The hold in between is in      *)
(* OmegaDevice.                                                            *)
(***************************************************************************)
Health(from, to) ==
  /\ phase = "running"
  /\ check = from
  /\ check' = to
  /\ UNCHANGED <<flashVars, bootVars, log, marker, session, rebooting, historyVars>>

\* Mutant of HealthDeadline: the check stands down without asking for the rollback.
HealthDeadlineForgets == PendingVerify /\ Health("watching", "off")

HealthConfirmed == ~PendingVerify /\ (Health("watching", "off") \/ Health("due", "off"))
HealthDeadline == PendingVerify /\ Health("watching", "due")
HealthRollBack == PendingVerify /\ Health("due", "rollback")

RollbackReboots ==
  /\ phase = "running"
  /\ check = "rollback"
  /\ MarkRunningInvalid
  /\ ResetBy("other")

RollbackFails == ~RollbackPossible /\ Health("rollback", "off")

-----------------------------------------------------------------------------
(***************************************************************************)
(* The console's requests, handled on the dispatcher tasks, and so at any  *)
(* point of the health check.  A request that defers a reboot has it only  *)
(* when its reply is queued; what it did to the slots stays either way.    *)
(***************************************************************************)
Handled == UNCHANGED <<bootVars, log, marker, check>>

\* Mutant of OtaBegin: the pending image does not refuse it.
OtaBeginAnyway ==
  /\ phase = "running"
  /\ ~session
  /\ EraseOther
  /\ session' = TRUE
  /\ ran' = [ran EXCEPT ![Other(running)] = 0]
  /\ Handled /\ UNCHANGED <<rebooting, switches>>

OtaBegin ==
  /\ phase = "running"
  /\ ~session
  /\ ~PendingVerify
  /\ EraseOther
  /\ session' = TRUE
  /\ ran' = [ran EXCEPT ![Other(running)] = 0]
  /\ Handled /\ UNCHANGED <<rebooting, switches>>

OtaData ==
  /\ phase = "running"
  /\ session
  /\ image[Other(running)] = "none"
  /\ WriteDescriptor
  /\ Handled /\ UNCHANGED <<session, rebooting, historyVars>>

\* OTA_ABORT, a failed write or finish, the idle expiry, a take-over
OtaEnds ==
  /\ phase = "running"
  /\ session
  /\ session' = FALSE
  /\ Handled /\ UNCHANGED <<flashVars, rebooting, historyVars>>

OtaFinish(queued) ==
  /\ phase = "running"
  /\ session
  /\ image[Other(running)] = "partial"
  /\ CommitImage
  /\ session' = FALSE
  /\ rebooting' = (rebooting \/ queued)
  /\ switches' = 0
  /\ Handled /\ UNCHANGED ran

Revert(queued) ==
  /\ phase = "running"
  /\ ~session
  /\ image[Other(running)] = "full"
  /\ SetBoot(Other(running))
  /\ rebooting' = (rebooting \/ queued)
  /\ switches' = 0
  /\ Handled /\ UNCHANGED <<session, ran>>

MarkValid ==
  /\ phase = "running"
  /\ MarkRunningValid
  /\ switches' = 0
  /\ Handled /\ UNCHANGED <<session, rebooting, ran>>

Restart ==
  /\ phase = "running"
  /\ rebooting' = TRUE
  /\ Handled /\ UNCHANGED <<flashVars, session, historyVars>>

Reboot ==
  /\ rebooting
  /\ ResetBy("other")
  /\ UNCHANGED flashVars

-----------------------------------------------------------------------------
Host ==
  \/ OtaBegin
  \/ OtaData
  \/ OtaEnds
  \/ \E queued \in BOOLEAN : OtaFinish(queued) \/ Revert(queued)
  \/ MarkValid
  \/ Restart

Boot ==
  \/ StartBootloader
  \/ \E saved \in SaveOutcomes : RecordReset(saved)
  \/ TakeMarker
  \/ HandOver
  \/ MarkHandover
  \/ HandoverRestart
  \/ AcceptAfterHandover

Run ==
  \/ HealthConfirmed
  \/ HealthDeadline
  \/ HealthRollBack
  \/ RollbackReboots
  \/ RollbackFails
  \/ Reboot

Next ==
  \/ Boot
  \/ InitSucceeds \/ InitFails
  \/ Run
  \/ Host
  \/ \E why \in Reasons : AnyReset(why)

Spec == Init /\ [][Next]_vars

(***************************************************************************)
(* Whatever boots goes on, and the health check's ticks come.  Nothing is  *)
(* assumed of the host, nor that the device ever stops resetting.          *)
(***************************************************************************)
Fairness == WF_vars(Boot) /\ WF_vars(InitSucceeds \/ InitFails) /\ WF_vars(Run)
FairSpec == Spec /\ Fairness

-----------------------------------------------------------------------------
\* The device is never left without firmware: the slot that runs and the slot
\* that is to boot both hold a complete image, whatever is erased, aborted,
\* rolled back or reset in between.
AlwaysBootable == image[running] = "full" /\ image[boot] = "full"

\* An image on trial is the one that runs, and it has a complete image to fall
\* back to for as long as it is on trial.
TrialHasFallback ==
  phase # "reset" =>
    \A s \in Slots : state[s] = "pending" => s = running /\ image[Other(s)] = "full"

\* Left alone since the host's last choice or a power-on, the device changes
\* slots at most twice: to the image that was asked for or handed over to, and
\* back when that is rolled back.  It never swings between two broken images.
SwitchesBounded == switches <= MaxSwitches

\* The one image the firmware confirms on its own, at the boot a handover
\* started, has run before: a fresh upload is never accepted unseen.
AcceptedRanBefore ==
  phase = "accept" /\ by_handover /\ PendingVerify => ran[running] > 1

\* The claim of firmware_health_check.hpp: once the host has confirmed the
\* image, the check stands down and never rolls it back.
ConfirmedStays == [][state[running] = "valid" => state'[running] # "invalid"]_vars

\* The claim of firmware_health_check.hpp: the crashes that give an image up
\* are those of THIS image, so it has been started CRASH_LOOP_RESETS times
\* before the boot that hands over.
OnlyOwnCrashes == phase = "switch" => ran[running] > CrashLoopResets

\* An unconfirmed image does not stay on trial for ever: it is confirmed, or
\* rejected by the rollback, or aborted by a reset; nobody has to do anything.
TrialEnds ==
  \A s \in Slots :
    (check = "watching" /\ running = s /\ state[s] = "pending" /\ RollbackPossible)
      ~> state[s] # "pending"
=============================================================================
