------------------------- MODULE CalibrationService -------------------------
(***************************************************************************)
(* The calibration services of the Omega Stick: one instance per USB link  *)
(* (vendor and CDC), each driven by its own dispatcher task, all sharing   *)
(* one firmware-update engine, one output-hold counter and one             *)
(* recalibration gate (calibration_service.hpp, main.cpp).                 *)
(*                                                                         *)
(* What the requests write to the store and to flash is left to            *)
(* SettingsStore, what they do to the firmware slots to FirmwareUpdate.    *)
(* Here is the part the links share: who owns the upload, who holds the    *)
(* output, and which reboots are still to come.                            *)
(*                                                                         *)
(* Granularity.  A frame is handled under the link's mutex_, the reply is  *)
(* sent and the deferred action run after it is released, so a request is  *)
(* at least two steps.  OTA_BEGIN and REVERT are split once more: the      *)
(* erase and the image check take from a fraction of a second to seconds,  *)
(* during which the other link and the polling loop go on.  A single call  *)
(* of the engine, of an atomic, or of the gate is one step.                *)
(***************************************************************************)
EXTENDS Integers, FiniteSets

CONSTANTS
  Links,   \* the byte streams a service is mounted on: vendor and CDC
  Modes    \* the values of InputMode

ASSUME LinksAssumption == IsFiniteSet(Links)
ASSUME ModesAssumption == Modes # {} /\ "none" \notin Modes /\ "reboot" \notin Modes

VARIABLES
  owners,       \* the services whose ota_owner_ is set
  holders,      \* the services whose holding_ is set: the hold they last forwarded
  after_reply,  \* after_reply_: "none", "reboot", or the mode to switch to
  task,         \* where each dispatcher task is, see Tasks
  expired,      \* those OTA_IDLE_TIMEOUT has passed for since ota_last_activity_
  session,      \* espp::Ota: an upload session is active
  pending,      \* espp::Ota: the running image is PENDING_VERIFY
  output_holds, \* main.cpp: the counter the polling loop samples
  rebooting,    \* a reboot_after_flush() thread is sleeping
  mode,         \* the store's live input mode
  gate,         \* omega_control::RecalibrationGate
  owed,         \* accepted START_CALIBRATIONs whose result is not sent yet
  host_gone     \* no host sends anything any more (cable pulled, tab closed)

linkVars == <<owners, holders, after_reply, task, expired>>
engineVars == <<session, pending>>
serviceVars == <<linkVars, engineVars, output_holds, rebooting, mode, gate, owed, host_gone>>

(***************************************************************************)
(* A dispatcher task waits for a frame, is inside handle_frame_locked()    *)
(* (erasing the slot for OTA_BEGIN, with or without a hold it must keep on *)
(* failure, or verifying the other slot for REVERT), has a reply to send,  *)
(* or sleeps in on_mode_changed before esp_restart().                      *)
(***************************************************************************)
Locked == {"erasing", "erasing_held", "verifying"}
Tasks == Locked \cup {"idle", "replying", "switching"}
GateStates == {"idle", "requested", "running"}

\* The state of each link, the state they share, and the two counters.
LinkTypes ==
  /\ owners \in SUBSET Links
  /\ holders \in SUBSET Links
  /\ after_reply \in [Links -> {"none", "reboot"} \cup Modes]
  /\ task \in [Links -> Tasks]
  /\ expired \in SUBSET Links

SharedTypes ==
  /\ session \in BOOLEAN
  /\ pending \in BOOLEAN
  /\ rebooting \in BOOLEAN
  /\ mode \in Modes
  /\ gate \in GateStates
  /\ host_gone \in BOOLEAN

CountTypes == output_holds \in Int /\ owed \in Int

TypeOK == LinkTypes /\ SharedTypes /\ CountTypes

(***************************************************************************)
(* A boot: everything volatile starts over.  Which image runs, whether it  *)
(* is pending and which mode was saved is decided by the bootloader and    *)
(* the settings file, any of them here.                                    *)
(***************************************************************************)
ServiceInit ==
  /\ owners = {}
  /\ holders = {}
  /\ after_reply = [l \in Links |-> "none"]
  /\ task = [l \in Links |-> "idle"]
  /\ expired = {}
  /\ session = FALSE
  /\ pending \in BOOLEAN
  /\ output_holds = 0
  /\ rebooting = FALSE
  /\ mode \in Modes
  /\ gate = "idle"
  /\ owed = 0
  /\ host_gone = FALSE

ServiceReset ==
  /\ owners' = {}
  /\ holders' = {}
  /\ after_reply' = [l \in Links |-> "none"]
  /\ task' = [l \in Links |-> "idle"]
  /\ expired' = {}
  /\ session' = FALSE
  /\ pending' \in BOOLEAN
  /\ output_holds' = 0
  /\ rebooting' = FALSE
  /\ mode' \in Modes
  /\ gate' = "idle"
  /\ owed' = 0
  /\ UNCHANGED host_gone

-----------------------------------------------------------------------------
\* Mutant of HoldOutput: every call is forwarded, not only edges.
HoldOutputEveryCall(l, hold) ==
  /\ holders' = IF hold THEN holders \cup {l} ELSE holders \ {l}
  /\ output_holds' = output_holds + (IF hold THEN 1 ELSE -1)

(***************************************************************************)
(* hold_output(): only edges reach the shared counter.                     *)
(***************************************************************************)
HoldOutput(l, hold) ==
  /\ holders' = IF hold THEN holders \cup {l} ELSE holders \ {l}
  /\ output_holds' = IF hold /\ l \notin holders THEN output_holds + 1
                     ELSE IF ~hold /\ l \in holders THEN output_holds - 1
                     ELSE output_holds

\* A frame is handled: the reply is built, the action it defers is noted.
Reply(l, action) ==
  /\ task' = [task EXCEPT ![l] = "replying"]
  /\ after_reply' = [after_reply EXCEPT ![l] = action]

\* The service no longer runs an upload; the engine's session is over.
EndUpload(l) ==
  /\ owners' = owners \ {l}
  /\ expired' = expired \ {l}
  /\ session' = FALSE

\* A host sends a frame on l, whose dispatcher task is free to take it.
Receive(l) == ~host_gone /\ task[l] = "idle"

(***************************************************************************)
(* Requests that leave this state alone: the GET_ messages, the live       *)
(* settings edits, SAVE_TO_FLASH, and every request that is refused.       *)
(***************************************************************************)
PlainRequest(l) ==
  /\ Receive(l)
  /\ Reply(l, "none")
  /\ UNCHANGED <<owners, holders, expired, engineVars, output_holds, rebooting, mode, gate, owed,
                 host_gone>>

\* Mutant of OtaBegin: the hold goes up with the session, not before begin().
OtaBeginUnheld(l) ==
  /\ Receive(l)
  /\ ~pending
  /\ LET took_over == l \in owners /\ session
     IN  /\ task' = [task EXCEPT ![l] = IF l \in holders THEN "erasing_held" ELSE "erasing"]
         /\ IF took_over THEN EndUpload(l) ELSE UNCHANGED <<owners, expired, session>>
  /\ UNCHANGED <<holders, output_holds, after_reply, pending, rebooting, mode, gate, owed,
                 host_gone>>

\* OTA_BEGIN up to the engine's begin(): a stale upload of this link is taken
\* over, and the hold is up before the slot is erased.
OtaBegin(l) ==
  /\ Receive(l)
  /\ ~pending
  /\ LET took_over == l \in owners /\ session
     IN  /\ task' = [task EXCEPT ![l] =
                       IF l \in holders /\ ~took_over THEN "erasing_held" ELSE "erasing"]
         /\ IF took_over THEN EndUpload(l) ELSE UNCHANGED <<owners, expired, session>>
  /\ HoldOutput(l, TRUE)
  /\ UNCHANGED <<after_reply, pending, rebooting, mode, gate, owed, host_gone>>

\* Mutant of BeginSucceeds: the engine does not refuse a second session.
BeginSucceedsAnyway(l) ==
  /\ task[l] \in {"erasing", "erasing_held"}
  /\ session' = TRUE
  /\ owners' = owners \cup {l}
  /\ expired' = expired \ {l}
  /\ Reply(l, "none")
  /\ UNCHANGED <<holders, pending, output_holds, rebooting, mode, gate, owed, host_gone>>

\* begin() succeeds: no session was active, and the slot is erased.
BeginSucceeds(l) ==
  /\ task[l] \in {"erasing", "erasing_held"}
  /\ ~session
  /\ session' = TRUE
  /\ owners' = owners \cup {l}
  /\ expired' = expired \ {l}
  /\ Reply(l, "none")
  /\ UNCHANGED <<holders, pending, output_holds, rebooting, mode, gate, owed, host_gone>>

\* begin() fails: another link's session is active, or the flash refused.  A
\* hold from before the request is kept, unless it was the stale upload's.
BeginFails(l) ==
  /\ task[l] \in {"erasing", "erasing_held"}
  /\ HoldOutput(l, task[l] = "erasing_held")
  /\ Reply(l, "none")
  /\ UNCHANGED <<owners, expired, engineVars, rebooting, mode, gate, owed, host_gone>>

\* OTA_DATA is written: the idle time starts over.
OtaData(l) ==
  /\ Receive(l)
  /\ l \in owners
  /\ expired' = expired \ {l}
  /\ Reply(l, "none")
  /\ UNCHANGED <<owners, holders, engineVars, output_holds, rebooting, mode, gate, owed, host_gone>>

\* The upload ends without a reboot: OTA_ABORT, a failed OTA_DATA write (the
\* engine has aborted the session) or a failed OTA_FINISH.
OtaEnds(l) ==
  /\ Receive(l)
  /\ l \in owners
  /\ EndUpload(l)
  /\ HoldOutput(l, FALSE)
  /\ Reply(l, "none")
  /\ UNCHANGED <<pending, rebooting, mode, gate, owed, host_gone>>

\* OTA_FINISH activates the new image; the hold stays until the reboot.
OtaFinish(l) ==
  /\ Receive(l)
  /\ l \in owners
  /\ EndUpload(l)
  /\ HoldOutput(l, TRUE)
  /\ Reply(l, "reboot")
  /\ UNCHANGED <<pending, rebooting, mode, gate, owed, host_gone>>

\* REVERT up to the image check: this link's abandoned upload is aborted,
\* another link's upload refuses the request.
Revert(l) ==
  /\ Receive(l)
  /\ IF l \in owners /\ session
       THEN /\ EndUpload(l)
            /\ HoldOutput(l, FALSE)
       ELSE UNCHANGED <<owners, expired, session, holders, output_holds>>
  /\ IF session'
       THEN Reply(l, "none")
       ELSE /\ task' = [task EXCEPT ![l] = "verifying"]
            /\ UNCHANGED after_reply
  /\ UNCHANGED <<pending, rebooting, mode, gate, owed, host_gone>>

\* The other slot is now the boot partition, or could not be made it.
RevertSucceeds(l) ==
  /\ task[l] = "verifying"
  /\ HoldOutput(l, TRUE)
  /\ Reply(l, "reboot")
  /\ UNCHANGED <<owners, expired, engineVars, rebooting, mode, gate, owed, host_gone>>

RevertFails(l) ==
  /\ task[l] = "verifying"
  /\ Reply(l, "none")
  /\ UNCHANGED <<owners, holders, expired, engineVars, output_holds, rebooting, mode, gate, owed,
                 host_gone>>

MarkValid(l) ==
  /\ Receive(l)
  /\ pending' = FALSE
  /\ Reply(l, "none")
  /\ UNCHANGED <<owners, holders, expired, session, output_holds, rebooting, mode, gate, owed,
                 host_gone>>

Restart(l) ==
  /\ Receive(l)
  /\ HoldOutput(l, TRUE)
  /\ Reply(l, "reboot")
  /\ UNCHANGED <<owners, expired, engineVars, rebooting, mode, gate, owed, host_gone>>

\* SET_INPUT_MODE of another mode than the live one; of the same one it is a
\* PlainRequest.
SetInputMode(l, m) ==
  /\ Receive(l)
  /\ m # mode
  /\ HoldOutput(l, TRUE)
  /\ Reply(l, m)
  /\ UNCHANGED <<owners, expired, engineVars, rebooting, mode, gate, owed, host_gone>>

\* START_CALIBRATION: RecalibrationGate::request() accepts when idle; a busy
\* gate refuses, a PlainRequest.
StartCalibration(l) ==
  /\ Receive(l)
  /\ gate = "idle"
  /\ gate' = "requested"
  /\ owed' = owed + 1
  /\ Reply(l, "none")
  /\ UNCHANGED <<owners, holders, expired, engineVars, output_holds, rebooting, mode, host_gone>>

-----------------------------------------------------------------------------
\* run_after_reply(true): the reply is queued and the deferred action runs.
ReplyQueued(l) ==
  LET action == after_reply[l]
      switches == action \in Modes /\ action # mode   \* OmegaStore::set_input_mode()
  IN  /\ task[l] = "replying"
      /\ after_reply' = [after_reply EXCEPT ![l] = "none"]
      /\ task' = [task EXCEPT ![l] = IF switches THEN "switching" ELSE "idle"]
      /\ mode' = IF switches THEN action ELSE mode
      /\ rebooting' = (rebooting \/ action = "reboot")
      /\ UNCHANGED <<owners, holders, expired, engineVars, output_holds, gate, owed, host_gone>>

\* Mutant of ReplyRefused: the dropped action's hold is left up.
ReplyRefusedKeepsHold(l) ==
  /\ task[l] = "replying"
  /\ after_reply' = [after_reply EXCEPT ![l] = "none"]
  /\ task' = [task EXCEPT ![l] = "idle"]
  /\ UNCHANGED <<owners, holders, expired, engineVars, output_holds, rebooting, mode, gate, owed,
                 host_gone>>

\* run_after_reply(false): the transport refused the reply, so the deferred
\* action is dropped and its hold ends, unless this link still uploads.
ReplyRefused(l) ==
  /\ task[l] = "replying"
  /\ after_reply' = [after_reply EXCEPT ![l] = "none"]
  /\ task' = [task EXCEPT ![l] = "idle"]
  /\ IF after_reply[l] # "none" /\ ~(l \in owners /\ session)
       THEN HoldOutput(l, FALSE)
       ELSE UNCHANGED <<holders, output_holds>>
  /\ UNCHANGED <<owners, expired, engineVars, rebooting, mode, gate, owed, host_gone>>

\* OTA_IDLE_TIMEOUT passes without upload traffic.
IdleTimeout(l) ==
  /\ l \in owners
  /\ expired' = expired \cup {l}
  /\ UNCHANGED <<owners, holders, after_reply, task, engineVars, output_holds, rebooting, mode,
                 gate, owed, host_gone>>

\* Mutant of ExpireStaleUpdate: the upload expires, its hold does not.
ExpireStaleUpload(l) ==
  /\ IF task[l] \notin Locked /\ l \in owners /\ (~session \/ l \in expired)
       THEN EndUpload(l)
       ELSE UNCHANGED <<owners, expired, session>>
  /\ UNCHANGED <<holders, output_holds, after_reply, task, pending, rebooting, mode, gate, owed,
                 host_gone>>

\* expire_stale_update(), called by the polling loop.  A service busy with a
\* frame is not idle (try_lock); one whose session ended elsewhere or has been
\* idle too long gives the upload and the hold up.
ExpireStaleUpdate(l) ==
  /\ IF task[l] \notin Locked /\ l \in owners /\ (~session \/ l \in expired)
       THEN EndUpload(l) /\ HoldOutput(l, FALSE)
       ELSE UNCHANGED <<owners, expired, session, holders, output_holds>>
  /\ UNCHANGED <<after_reply, task, pending, rebooting, mode, gate, owed, host_gone>>

\* The host's last byte: the browser tab is closed or the cable is pulled.
HostGone ==
  /\ ~host_gone
  /\ host_gone' = TRUE
  /\ UNCHANGED <<linkVars, engineVars, output_holds, rebooting, mode, gate, owed>>

-----------------------------------------------------------------------------
Request(l) ==
  \/ PlainRequest(l)
  \/ OtaBegin(l)
  \/ OtaData(l)
  \/ OtaEnds(l)
  \/ OtaFinish(l)
  \/ Revert(l)
  \/ MarkValid(l)
  \/ Restart(l)
  \/ \E m \in Modes : SetInputMode(l, m)
  \/ StartCalibration(l)

\* The dispatcher task of l goes on with the frame it has.
Proceed(l) ==
  \/ BeginSucceeds(l)
  \/ BeginFails(l)
  \/ RevertSucceeds(l)
  \/ RevertFails(l)
  \/ ReplyQueued(l)
  \/ ReplyRefused(l)

=============================================================================
