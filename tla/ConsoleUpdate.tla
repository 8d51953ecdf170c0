---------------------------- MODULE ConsoleUpdate ----------------------------
(***************************************************************************)
(* An update or a REVERT from the browser's side: the calibration console  *)
(* (calibration_console.html, with the decisions of omega_protocol.js),    *)
(* one device as it answers over one link, and a link that drops.          *)
(*                                                                         *)
(* The console runs several async functions at once: the update's own      *)
(* (main), what follows a connect (conn), the report of what came back     *)
(* (report) and the checks before MARK_VALID (confirm).  Each runs alone   *)
(* between two awaits, so a step here is what happens from one await to    *)
(* the next.  Requests go out one at a time, but a reply carries no        *)
(* request id: one that comes after its timeout is still on its way, and   *)
(* answers the next request that expects its type.                         *)
(*                                                                         *)
(* Left out: the file checks and the download, other links, sticks the     *)
(* page could confuse, and firmware too old to report or to be updated.    *)
(* An image is known by its slot, and by a version two slots may share.    *)
(***************************************************************************)
EXTENDS FlashSlots, Sequences

CONSTANTS
  Versions,     \* what FW_INFO may report as version and SHA
  FirstStates,  \* the otadata states the image that runs at first may be in
  MaxResets,    \* bound: crashes, power cuts and pulled cables
  MaxInFlight,  \* bound: requests and replies on the link when one times out
  MaxUpdates    \* bound: updates and reverts begun

ASSUME VersionsAssumption == Versions # {}
ASSUME FirstAssumption == FirstStates # {} /\ FirstStates \subseteq {"valid", "pending"}
ASSUME LimitsAssumption == {MaxResets, MaxInFlight, MaxUpdates} \subseteq Nat

VARIABLES
  version,    \* per slot: the version of its image
  session,    \* the device has an upload open
  up,         \* the firmware runs and serves the link
  rebooting,  \* a reply has deferred a restart
  link,       \* transport: "none", "open", or "dead": gone, the page not told yet
  requests,   \* on their way to the device
  replies,    \* on their way to the page
  waiting,    \* txnChain: the flows whose request has not gone out yet, in order
  txn,        \* pendingTxn: who waits for a reply, and the retries left
  pc,         \* per async function: the await it is at
  again,      \* reads still to try: FW_INFO in onUpdateReconnected(), or the sensor
  phase,      \* upd.phase, "none" while there is no upd
  job,        \* upd: its kind, expected and before; history: the slot it is about,
              \* and whether the running image was pending
  seeking,    \* autoReconnect() runs
  said,       \* what the page has told the person about the update
  resets, updates,  \* bounded counters
  vetted,     \* history: the checks an image on trial has answered well in this boot
  origin      \* history: per slot, the update whose upload it was erased for, or 0

imageVars == <<version, origin>>
deviceVars == <<flashVars, imageVars, session, up, rebooting>>
linkVars == <<link, requests, replies>>
updVars == <<phase, job, said>>
historyVars == <<resets, updates, vetted>>
vars == <<deviceVars, linkVars, waiting, txn, pc, again, updVars, seeking, historyVars>>

Flows == {"main", "conn", "report", "confirm", "hand"}
Checks == {"firmware", "protocol", "sensor"}

\* What each await asks the device; the others wait for a person or a timer.
Asks == [plan |-> "GET_FW_INFO", begin |-> "OTA_BEGIN", data |-> "OTA_DATA",
         finish |-> "OTA_FINISH", revert |-> "REVERT", abort |-> "OTA_ABORT",
         probe |-> "GET_FW_INFO", release |-> "OTA_ABORT", restart |-> "RESTART",
         reread |-> "GET_FW_INFO", hand |-> "MARK_BY_HAND", hand_info |-> "GET_FW_INFO",
         info |-> "GET_FW_INFO", retry |-> "GET_FW_INFO", firmware |-> "GET_FW_INFO",
         protocol |-> "GET_STATE", sensor |-> "GET_DIAGNOSTICS",
         sensor_again |-> "GET_DIAGNOSTICS", mark |-> "MARK_VALID", verify |-> "GET_FW_INFO"]
Asking == DOMAIN Asks
Steps == Asking \cup {"idle", "ask", "drop_wait", "discover", "sleep"}

Requests == {Asks[s] : s \in Asking}
Expected(request) ==
  CASE request = "GET_FW_INFO"     -> "FW_INFO"
    [] request = "GET_STATE"       -> "STATE"
    [] request = "GET_DIAGNOSTICS" -> "DIAGNOSTICS"
    [] OTHER                       -> "OK"
Retries(request) == IF Expected(request) = "OK" THEN 0 ELSE 1

NoData == "none"
Infos == [running : Slots, boot : Slots, pending : BOOLEAN, version : Versions,
          prev : Versions \cup {NoData}]
Sensor == {"healthy", "fault", "not_observed"}
IsReply(r) ==
  CASE r.type = "FW_INFO"     -> r.data \in Infos
    [] r.type = "DIAGNOSTICS" -> r.data \in Sensor
    [] OTHER                  -> r.type \in {"OK", "ERROR", "STATE"} /\ r.data = NoData

Phases == {"none", "running", "rebooting", "confirming", "waiting_rollback",
           "switched_no_restart", "done"}
Jobs == [kind : {"flash", "revert"}, version : Versions, before : Versions, slot : Slots,
         trial : BOOLEAN]
Verdicts == {"nothing", "confirmed", "rolled_back", "not_installed", "not_restarted",
             "same_build", "unexpected", "no_device", "unknown", "not_confirmed", "by_hand",
             "gave_up"}

TypeOK ==
  /\ FlashTypeOK
  /\ version \in [Slots -> Versions]
  /\ {session, up, rebooting, seeking} \subseteq BOOLEAN
  /\ link \in {"none", "open", "dead"}
  /\ requests \in Seq(Requests)
  /\ \A i \in 1..Len(replies) : IsReply(replies[i])
  /\ waiting \in Seq(Flows)
  /\ txn \in [by : Flows \cup {"none"}, left : 0..1]
  /\ pc \in [Flows -> Steps]
  /\ again \in 0..3
  /\ phase \in Phases
  /\ job \in Jobs
  /\ said \in Verdicts
  /\ resets \in 0..MaxResets /\ updates \in 0..MaxUpdates
  /\ vetted \subseteq Checks
  /\ origin \in [Slots -> 0..MaxUpdates]

NoTxn == [by |-> "none", left |-> 0]

\* A page that has connected to a device with one image, or with two; the one
\* that runs may be on trial.  Versions are names: the first may be any of them.
Init ==
  /\ running = 0 /\ boot = 0
  /\ image \in {[s \in Slots |-> "full"], [s \in Slots |-> IF s = 0 THEN "full" ELSE "none"]}
  /\ \E first \in IF image[1] = "full" THEN FirstStates ELSE {"valid"} :
       state = [s \in Slots |-> IF s = 0 THEN first ELSE IF image[s] = "full" THEN "valid" ELSE "undefined"]
  /\ version \in [Slots -> Versions] /\ version[0] = CHOOSE v \in Versions : TRUE
  /\ session = FALSE /\ up = TRUE /\ rebooting = FALSE
  /\ link = "open" /\ requests = <<>> /\ replies = <<>>
  /\ waiting = <<>> /\ txn = NoTxn
  /\ pc = [f \in Flows |-> "idle"]
  /\ again = 0
  /\ phase = "none"
  /\ job = [kind |-> "flash", version |-> version[0], before |-> version[0], slot |-> 1,
             trial |-> FALSE]
  /\ seeking = FALSE
  /\ said = "nothing"
  /\ resets = 0 /\ updates = 0
  /\ vetted = {} /\ origin = [s \in Slots |-> 0]

-----------------------------------------------------------------------------
(***************************************************************************)
(* The device.  It answers requests in order; a reply its transport        *)
(* refuses is lost, and a deferred restart with it.                        *)
(***************************************************************************)
consoleVars == <<waiting, txn, pc, again, updVars, seeking, resets, updates>>

\* The request at the head is handled and, if `sent`, answered.
Answer(request, sent, reply) ==
  /\ up /\ requests # <<>> /\ Head(requests) = request
  /\ requests' = Tail(requests)
  /\ replies' = IF sent /\ link = "open" THEN Append(replies, reply) ELSE replies
  /\ UNCHANGED <<link, up, consoleVars>>

Plain(type) == [type |-> type, data |-> NoData]
FwInfo == [running |-> running, boot |-> boot, pending |-> PendingVerify,
           version |-> version[running],
           prev |-> IF image[Other(running)] = "full" THEN version[Other(running)] ELSE NoData]
Vet(check, sent) == vetted' = IF sent /\ PendingVerify THEN vetted \cup {check} ELSE vetted

AnswerFwInfo(sent) ==
  /\ Answer("GET_FW_INFO", sent, [type |-> "FW_INFO", data |-> FwInfo])
  /\ Vet("firmware", sent)
  /\ UNCHANGED <<flashVars, imageVars, session, rebooting>>

AnswerState(sent) ==
  /\ Answer("GET_STATE", sent, Plain("STATE"))
  /\ Vet("protocol", sent)
  /\ UNCHANGED <<flashVars, imageVars, session, rebooting>>

AnswerDiagnostics(sent, sensor) ==
  /\ Answer("GET_DIAGNOSTICS", sent, [type |-> "DIAGNOSTICS", data |-> sensor])
  /\ Vet("sensor", sent /\ sensor = "healthy")
  /\ UNCHANGED <<flashVars, imageVars, session, rebooting>>

\* Any request of an update may be refused; an upload that fails is over.
Refuse(sent) ==
  /\ \E request \in {"OTA_BEGIN", "OTA_DATA", "OTA_FINISH", "REVERT", "MARK_VALID", "MARK_BY_HAND"} :
       Answer(request, sent, Plain("ERROR"))
  /\ session' = (session /\ Head(requests) \notin {"OTA_DATA", "OTA_FINISH", "REVERT"})
  /\ UNCHANGED <<flashVars, imageVars, rebooting, vetted>>

\* The slot is erased for the image of this update; job.version is its file's.
AnswerBegin(sent) ==
  /\ ~PendingVerify
  /\ Answer("OTA_BEGIN", sent, Plain("OK"))
  /\ EraseOther
  /\ version' = [version EXCEPT ![Other(running)] = job.version]
  /\ origin' = [origin EXCEPT ![Other(running)] = updates]
  /\ session' = TRUE
  /\ UNCHANGED <<rebooting, vetted>>

AnswerData(sent) ==
  /\ session
  /\ Answer("OTA_DATA", sent, Plain("OK"))
  /\ WriteDescriptor
  /\ UNCHANGED <<imageVars, session, rebooting, vetted>>

\* The image the console has uploaded validates.  (An upload that nobody continues expires in CalibrationService.)
AnswerFinish(sent) ==
  /\ session /\ image[Other(running)] = "partial"
  /\ Answer("OTA_FINISH", sent, Plain("OK"))
  /\ CommitImage
  /\ session' = FALSE
  /\ rebooting' = (rebooting \/ sent)
  /\ UNCHANGED <<imageVars, vetted>>

AnswerRevert(sent) ==
  /\ image[Other(running)] = "full"
  /\ Answer("REVERT", sent, Plain("OK"))
  /\ SetBoot(Other(running))
  /\ session' = FALSE
  /\ rebooting' = (rebooting \/ sent)
  /\ UNCHANGED <<imageVars, vetted>>

AnswerAbort(sent) ==
  /\ Answer("OTA_ABORT", sent, Plain("OK"))
  /\ session' = FALSE
  /\ UNCHANGED <<flashVars, imageVars, rebooting, vetted>>

AnswerRestart(sent) ==
  /\ Answer("RESTART", sent, Plain("OK"))
  /\ rebooting' = (rebooting \/ sent)
  /\ UNCHANGED <<flashVars, imageVars, session, vetted>>

AnswerMarkValid(sent) ==
  /\ \E request \in {"MARK_VALID", "MARK_BY_HAND"} : Answer(request, sent, Plain("OK"))
  /\ MarkRunningValid
  /\ UNCHANGED <<imageVars, session, rebooting, vetted>>

\* The firmware stops; what it had not answered is lost, and so is the link.
Stop ==
  /\ up
  /\ up' = FALSE
  /\ session' = FALSE /\ rebooting' = FALSE
  /\ requests' = <<>>
  /\ link' = IF link = "open" THEN "dead" ELSE link
  /\ vetted' = {}
  /\ UNCHANGED <<imageVars, replies, waiting, txn, pc, again, updVars, seeking, updates>>

Restarts == rebooting /\ Stop /\ UNCHANGED <<flashVars, resets>>

\* The deadline of the health check.
RollsBack == up /\ PendingVerify /\ MarkRunningInvalid /\ Stop /\ UNCHANGED resets

Crashes ==
  /\ resets < MaxResets
  /\ resets' = resets + 1
  /\ Stop
  /\ UNCHANGED flashVars

\* The cable is pulled and put back.
LinkDrops ==
  /\ resets < MaxResets
  /\ resets' = resets + 1
  /\ link = "open"
  /\ link' = "dead"
  /\ requests' = <<>>
  /\ UNCHANGED <<deviceVars, replies, waiting, txn, pc, again, updVars, seeking, updates, vetted>>

Boots ==
  /\ ~up
  /\ Bootloader
  /\ up' = TRUE
  /\ UNCHANGED <<imageVars, session, rebooting, linkVars, consoleVars, vetted>>

Serves ==
  \E sent \in BOOLEAN :
     \/ AnswerFwInfo(sent)
     \/ AnswerState(sent)
     \/ \E sensor \in Sensor : AnswerDiagnostics(sent, sensor)
     \/ Refuse(sent)
     \/ AnswerBegin(sent)
     \/ AnswerData(sent)
     \/ AnswerFinish(sent)
     \/ AnswerRevert(sent)
     \/ AnswerAbort(sent)
     \/ AnswerRestart(sent)
     \/ AnswerMarkValid(sent)

Device == Serves \/ Restarts \/ RollsBack \/ Boots

-----------------------------------------------------------------------------
(***************************************************************************)
(* Requests and their replies: transact() and dispatchFrame().             *)
(***************************************************************************)
Here == link # "none"      \* the page has a transport

\* The next transaction goes out; a request that leaves on a dead link is lost.
OnTheLink(request) ==
  requests' = IF link = "open" THEN Append(requests, request) ELSE requests

Sends(f) ==
  /\ txn = NoTxn /\ waiting # <<>> /\ Head(waiting) = f /\ Here
  /\ waiting' = Tail(waiting)
  /\ txn' = [by |-> f, left |-> Retries(Asks[pc[f]])]
  /\ OnTheLink(Asks[pc[f]])
  /\ UNCHANGED <<deviceVars, link, replies, pc, again, updVars, seeking, historyVars>>

\* A reply answers the pending transaction when its type is the expected one.
Answers(reply) ==
  txn # NoTxn /\ reply.type \in {Expected(Asks[pc[txn.by]]), "ERROR"}

Unsolicited ==
  /\ Here /\ replies # <<>> /\ ~Answers(Head(replies))
  /\ replies' = Tail(replies)
  /\ UNCHANGED <<deviceVars, link, requests, waiting, txn, pc, again, updVars, seeking, historyVars>>

\* A transaction that fails with a retry left is sent again.
Retried ==
  /\ txn # NoTxn /\ txn.left > 0 /\ Here
  /\ txn' = [txn EXCEPT !.left = 0]
  /\ OnTheLink(Asks[pc[txn.by]])
  /\ UNCHANGED <<waiting, pc, again, updVars, seeking>>

-----------------------------------------------------------------------------
(***************************************************************************)
(* What each flow does when its await ends: with "ok", "failed" (an error  *)
(* reply), "timeout", or "lost" with the link; `info` is a reply's data.   *)
(***************************************************************************)
\* A flow goes on to its next await; a request queues behind those that wait.
Goes(f, step) ==
  /\ pc' = [pc EXCEPT ![f] = step]
  /\ waiting' = IF step \in Asking THEN Append(waiting, f) ELSE waiting

Ends(verdict) == phase' = "done" /\ said' = verdict

\* afterReboot() up to its first await
AfterReboot ==
  /\ Goes("main", "drop_wait")
  /\ phase' = "rebooting" /\ said' = "nothing"
  /\ UNCHANGED <<again, job, seeking>>

NotRestarted == phase' = "switched_no_restart" /\ said' = "not_restarted"

\* Mutant of Outcome: the version alone tells that the update is over.
OutcomeByVersion(info) ==
  IF info.version = job.version     THEN "confirmed"
  ELSE IF info.version = job.before THEN "rolled_back"
  ELSE "unexpected"

\* decideOutcome() on a FW_INFO that was read
Outcome(info) ==
  LET isNew    == info.version = job.version
      isOld    == info.version = job.before
      switched == ~info.pending /\ info.boot # info.running
  IN  IF isNew /\ info.pending     THEN "confirming"
      ELSE IF isOld /\ switched    THEN "not_restarted"
      ELSE IF isNew /\ isOld       THEN "same_build"
      ELSE IF isNew                THEN "confirmed"
      ELSE IF isOld                THEN "rolled_back"
      ELSE "unexpected"

\* The rest of onUpdateReconnected() once it has read `info`.
Reports(info, p) ==
  LET o == Outcome(info)
  IN  /\ pc' = IF o = "confirming" THEN [p EXCEPT !.confirm = "firmware"] ELSE p
      /\ waiting' = IF o = "confirming" THEN Append(waiting, "confirm") ELSE waiting
      /\ CASE o = "confirming"    -> phase' = "confirming" /\ UNCHANGED said
           [] o = "not_restarted" -> NotRestarted
           [] OTHER               -> Ends(o)

\* onUpdateReconnected(): called after FW_INFO has been tried; `p` is pc with
\* the caller's flow over.
UpdateReconnected(how, info, p) ==
  /\ UNCHANGED <<job, seeking>>
  /\ IF phase # "rebooting" \/ pc.report # "idle"
       THEN pc' = p /\ UNCHANGED <<waiting, again, phase, said>>
     ELSE IF how = "ok"
       THEN Reports(info, p) /\ UNCHANGED again
     ELSE IF Here
       THEN again' = 3 /\ pc' = [p EXCEPT !.report = "sleep"] /\ UNCHANGED <<waiting, phase, said>>
     ELSE Ends("no_device") /\ pc' = p /\ UNCHANGED <<waiting, again>>

\* failUpdate(), and an OTA_ABORT when the device has an upload open.
Fails(uploading) ==
  /\ Ends("not_installed")
  /\ Goes("main", IF uploading /\ Here THEN "abort" ELSE "idle")
  /\ UNCHANGED <<again, job, seeking>>

\* runFlash() and the Revert button plan from what the device reports now.
Usable(info) == IF job.kind = "flash" THEN ~info.pending ELSE info.prev # NoData

Plans(how, info) ==
  /\ pc.main = "plan"
  /\ UNCHANGED <<again, phase, said, seeking>>
  /\ IF how = "ok" /\ Usable(info)
       THEN /\ Goes("main", "ask")
            /\ \E v \in IF job.kind = "flash" THEN Versions ELSE {info.prev} :
                 job' = [job EXCEPT !.version = v, !.before = info.version,
                                    !.slot = Other(info.running), !.trial = info.pending]
       ELSE Goes("main", "idle") /\ UNCHANGED job

Writes(how) ==
  /\ pc.main \in {"begin", "data"}
  /\ IF how = "ok"
       THEN Goes("main", IF pc.main = "begin" THEN "data" ELSE "finish")
              /\ UNCHANGED <<again, updVars, seeking>>
       ELSE Fails(pc.main = "data")

\* Mutant of Switches: no reply means that nothing was installed.
SwitchesOnReplyOnly(how) ==
  /\ pc.main \in {"finish", "revert"}
  /\ CASE how \in {"ok", "lost"}        -> AfterReboot
       [] how \in {"failed", "timeout"} -> Fails(pc.main = "finish")

\* OTA_FINISH or REVERT answered, or handleLostFinishReply()
Switches(how) ==
  /\ pc.main \in {"finish", "revert"}
  /\ CASE how \in {"ok", "lost"} -> AfterReboot
       [] how = "failed"         -> Fails(pc.main = "finish")
       [] how = "timeout"        -> Goes("main", "probe") /\ UNCHANGED <<again, updVars, seeking>>

\* decideAfterFinishTimeout()
Probes(how, info) ==
  /\ pc.main = "probe"
  /\ UNCHANGED <<again, job, seeking>>
  /\ IF how # "ok"                        THEN Goes("main", "idle") /\ Ends("unknown")
     ELSE IF info.boot # info.running     THEN Goes("main", "idle") /\ NotRestarted
     ELSE IF job.kind = "revert"          THEN Goes("main", "idle") /\ Ends("not_installed")
     ELSE Goes("main", "release") /\ UNCHANGED <<phase, said>>

\* The OTA_ABORT after a probe ends the update; the one after failUpdate() ended it before.
Releases ==
  /\ pc.main \in {"release", "abort"}
  /\ Goes("main", "idle")
  /\ IF pc.main = "release" THEN Ends("not_installed") ELSE UNCHANGED <<phase, said>>
  /\ UNCHANGED <<again, job, seeking>>

\* restartIntoNewImage()
Restarted(how) ==
  /\ pc.main = "restart"
  /\ IF how # "ok" /\ Here
       THEN Goes("main", "idle") /\ NotRestarted /\ UNCHANGED <<again, job, seeking>>
       ELSE AfterReboot

\* afterReboot(), the link having stayed
Rereads(how, info) ==
  /\ pc.main = "reread"
  /\ UpdateReconnected(how, info, [pc EXCEPT !.main = "idle"])

\* onConnected(), the discovery being over
Informs(how, info) ==
  /\ pc.conn = "info"
  /\ UpdateReconnected(how, info, [pc EXCEPT !.conn = "idle"])

\* onUpdateReconnected(): one of its further reads of FW_INFO
ReadsAgain(how, info) ==
  /\ pc.report = "retry"
  /\ LET p == [pc EXCEPT !.report = "idle"]
     IN  IF how = "ok" THEN Reports(info, p)
         ELSE IF again > 0 /\ Here THEN Goes("report", "sleep") /\ UNCHANGED <<phase, said>>
         ELSE Ends("no_device") /\ pc' = p /\ UNCHANGED waiting
  /\ UNCHANGED <<again, job, seeking>>

\* confirmFlashedImage(): a failed check leaves the image to the device's deadline.
CheckFails == Goes("confirm", "idle") /\ phase' = "waiting_rollback" /\ UNCHANGED said
Confirmed == Goes("confirm", "idle") /\ Ends("confirmed")
NotConfirmed == Goes("confirm", "idle") /\ Ends("not_confirmed")
NextCheck(step) == Goes("confirm", step) /\ UNCHANGED <<phase, said>>

\* awaitSensorHealthy(): healthy twice in a row; "not observed" is asked again,
\* though not for ever.  SensorPolls stands for SENSOR_WAIT_MS.
SensorPolls == 2

\* Mutant of ChecksSensor: a sensor that reports no fault is a healthy one.
ChecksForFault(how, sensor) ==
  /\ IF how = "ok" /\ sensor # "fault"
       THEN NextCheck(IF pc.confirm = "sensor" THEN "sensor_again" ELSE "mark")
       ELSE CheckFails
  /\ UNCHANGED again

\* The sensor check, one reading
ChecksSensor(how, sensor) ==
  IF how = "ok" /\ sensor = "healthy"
    THEN NextCheck(IF pc.confirm = "sensor" THEN "sensor_again" ELSE "mark") /\ UNCHANGED again
  ELSE IF how = "ok" /\ sensor = "not_observed" /\ again > 0
    THEN NextCheck("sensor") /\ again' = again - 1
  ELSE CheckFails /\ UNCHANGED again

\* The checks before the sensor's, and what follows them all
ChecksDevice(how, info) ==
  /\ pc.confirm = "firmware"
  /\ UNCHANGED again
  /\ IF how # "ok"                          THEN CheckFails
     ELSE IF Outcome(info) = "confirming"   THEN NextCheck("protocol")
     ELSE IF Outcome(info) = "confirmed"    THEN Confirmed
     ELSE CheckFails

ChecksProtocol(how) ==
  /\ pc.confirm = "protocol"
  /\ again' = SensorPolls
  /\ IF how = "ok" THEN NextCheck("sensor") ELSE CheckFails

MarksValid(how, info) ==
  /\ UNCHANGED again
  /\ \/ pc.confirm = "mark" /\ IF how = "ok" THEN NextCheck("verify") ELSE NotConfirmed
     \/ /\ pc.confirm = "verify"
        /\ IF how = "ok" /\ ~info.pending THEN Confirmed ELSE NotConfirmed

\* The link went: the reconnect decides again.
Confirms(how, data) ==
  /\ UNCHANGED <<job, seeking>>
  /\ IF how = "lost" THEN NextCheck("idle") /\ UNCHANGED again
     ELSE \/ ChecksDevice(how, data)
          \/ ChecksProtocol(how)
          \/ pc.confirm \in {"sensor", "sensor_again"} /\ ChecksSensor(how, data)
          \/ MarksValid(how, data)

\* The "Mark running image valid" button
MarksByHand(how, info) ==
  /\ UNCHANGED <<again, job, seeking>>
  /\ \/ /\ pc.hand = "hand"
        /\ Goes("hand", IF Here THEN "hand_info" ELSE "idle")
        /\ UNCHANGED <<phase, said>>
     \/ /\ pc.hand = "hand_info"
        /\ Goes("hand", "idle")
        /\ IF how = "ok" /\ ~info.pending /\ phase = "waiting_rollback"
             THEN Ends("by_hand") ELSE UNCHANGED <<phase, said>>

Resumes(f, how, data) ==
  \/ /\ f = "main"
     /\ \/ Plans(how, data)
        \/ Writes(how)
        \/ Switches(how)
        \/ Probes(how, data)
        \/ Releases
        \/ Restarted(how)
        \/ Rereads(how, data)
  \/ f = "conn" /\ Informs(how, data)
  \/ f = "report" /\ ReadsAgain(how, data)
  \/ f = "confirm" /\ Confirms(how, data)
  \/ f = "hand" /\ MarksByHand(how, data)

-----------------------------------------------------------------------------
(***************************************************************************)
(* What happens to the page.                                               *)
(***************************************************************************)
Receives ==
  /\ Here /\ replies # <<>> /\ Answers(Head(replies))
  /\ replies' = Tail(replies)
  /\ UNCHANGED <<deviceVars, link, historyVars>>
  /\ IF Head(replies).type # "ERROR"
       THEN Resumes(txn.by, "ok", Head(replies).data) /\ txn' = NoTxn /\ UNCHANGED requests
     ELSE IF txn.left > 0 THEN Retried
     ELSE Resumes(txn.by, "failed", NoData) /\ txn' = NoTxn /\ UNCHANGED requests

TimesOut ==
  /\ txn # NoTxn /\ Here
  /\ Len(requests) + Len(replies) <= MaxInFlight
  /\ UNCHANGED <<deviceVars, link, replies, historyVars>>
  /\ \/ Retried
     \/ /\ txn.left = 0
        /\ Resumes(txn.by, "timeout", NoData) /\ txn' = NoTxn /\ UNCHANGED requests

\* onTransportGone() and onUpdateTransportGone(); the transactions fail next (Lost).
TransportGone ==
  /\ link = "dead"
  /\ link' = "none"
  /\ replies' = <<>> /\ waiting' = <<>> /\ txn' = NoTxn
  /\ pc' = [pc EXCEPT !.conn = IF @ = "discover" THEN "idle" ELSE @,
                      !.main = IF @ = "ask" THEN "idle" ELSE @]
  /\ IF phase \in {"confirming", "waiting_rollback", "switched_no_restart"} /\ ~seeking
       THEN phase' = "rebooting" /\ said' = "nothing" /\ seeking' = TRUE
       ELSE UNCHANGED <<phase, said, seeking>>
  /\ UNCHANGED <<deviceVars, requests, again, job, historyVars>>

\* The awaits on a link that went end.
Lost(f) ==
  /\ link = "none" /\ pc[f] \in Asking
  /\ Resumes(f, "lost", NoData)
  /\ UNCHANGED <<deviceVars, linkVars, txn, historyVars>>

DropSeen ==
  /\ pc.main = "drop_wait" /\ link = "none"
  /\ Goes("main", "idle") /\ seeking' = TRUE
  /\ UNCHANGED <<deviceVars, linkVars, txn, again, updVars, historyVars>>

\* DROP_WAIT_MS is longer than a restart the device defers.
DropWaitOver ==
  /\ pc.main = "drop_wait" /\ Here /\ ~rebooting
  /\ Goes("main", "reread")
  /\ UNCHANGED <<deviceVars, linkVars, txn, again, updVars, seeking, historyVars>>

\* Mutant of Wakes: the reads are not counted.
WakesUncounted ==
  /\ pc.report = "sleep"
  /\ IF Here THEN Goes("report", "retry") /\ UNCHANGED <<phase, said>>
             ELSE Goes("report", "idle") /\ Ends("no_device")
  /\ UNCHANGED <<deviceVars, linkVars, txn, again, job, seeking, historyVars>>

\* The sleep between two reads of FW_INFO; without a link the loop is over.
Wakes ==
  /\ pc.report = "sleep"
  /\ IF Here THEN /\ Goes("report", "retry") /\ again' = again - 1
                  /\ UNCHANGED <<phase, said>>
             ELSE /\ Goes("report", "idle") /\ Ends("no_device") /\ UNCHANGED again
  /\ UNCHANGED <<deviceVars, linkVars, txn, job, seeking, historyVars>>

Connects ==
  /\ link = "none" /\ up
  /\ link' = "open" /\ Goes("conn", "discover")
  /\ seeking' = FALSE
  /\ UNCHANGED <<deviceVars, requests, replies, txn, again, updVars, historyVars>>

\* autoReconnect() opens the device it knew
AutoConnects == seeking /\ Connects
\* A Connect button: locked while the page holds the link for an update.
PersonConnects == ~seeking /\ phase \in {"none", "done", "rebooting"} /\ Connects

GivesUp ==
  /\ seeking /\ link = "none"
  /\ seeking' = FALSE
  /\ said' = IF phase = "rebooting" THEN "gave_up" ELSE said
  /\ UNCHANGED <<deviceVars, linkVars, waiting, txn, pc, again, phase, job, historyVars>>

DiscoveryOver ==
  /\ pc.conn = "discover" /\ Here
  /\ Goes("conn", "info")
  /\ UNCHANGED <<deviceVars, linkVars, txn, again, updVars, seeking, historyVars>>

\* updateControls(): `busy` is one flag, set by an update and by the checks.
Busy == pc.main \notin {"idle", "drop_wait", "reread"} \/ pc.confirm # "idle"

StartsUpdate(kind) ==
  /\ Here /\ ~Busy /\ pc.main = "idle"
  /\ phase \in {"none", "done"} /\ updates < MaxUpdates
  /\ updates' = updates + 1
  /\ phase' = "none" /\ said' = "nothing" /\ job' = [job EXCEPT !.kind = kind]
  /\ Goes("main", "plan")
  /\ UNCHANGED <<deviceVars, linkVars, txn, again, seeking, resets, vetted>>

\* The confirm panel; closed by the person, or with the link (TransportGone)
Agrees ==
  /\ pc.main = "ask" /\ pc.conn # "discover"
  /\ phase' = "running"
  /\ Goes("main", IF job.kind = "flash" THEN "begin" ELSE "revert")
  /\ UNCHANGED <<deviceVars, linkVars, txn, again, job, said, seeking, historyVars>>

Declines ==
  /\ pc.main = "ask"
  /\ Goes("main", "idle")
  /\ UNCHANGED <<deviceVars, linkVars, txn, again, updVars, seeking, historyVars>>

RestartNow ==
  /\ Here /\ ~Busy /\ pc.main = "idle" /\ phase = "switched_no_restart"
  /\ phase' = "rebooting" /\ said' = "nothing"
  /\ Goes("main", "restart")
  /\ UNCHANGED <<deviceVars, linkVars, txn, again, job, seeking, historyVars>>

\* The button is shown while the last FW_INFO said pending; pressed on an image
\* that no longer is, it would change nothing.
PressMarkValid ==
  /\ Here /\ ~Busy /\ pc.hand = "idle"
  /\ phase \in {"none", "done", "waiting_rollback"} /\ PendingVerify
  /\ Goes("hand", "hand")
  /\ UNCHANGED <<deviceVars, linkVars, txn, again, updVars, seeking, historyVars>>

Person ==
  \/ \E kind \in {"flash", "revert"} : StartsUpdate(kind)
  \/ Agrees
  \/ Declines
  \/ RestartNow
  \/ PressMarkValid
  \/ PersonConnects

Console ==
  \/ Receives
  \/ Unsolicited
  \/ TimesOut
  \/ TransportGone
  \/ DropSeen
  \/ DropWaitOver
  \/ Wakes
  \/ AutoConnects
  \/ GivesUp
  \/ DiscoveryOver

\* What the page does without waiting for anything: it sends the next request, or
\* fails those of a link that went.
Runs == \E f \in Flows : Sends(f) \/ Lost(f)
MustRun == (Here /\ txn = NoTxn /\ waiting # <<>>) \/ (~Here /\ \E f \in Flows : pc[f] \in Asking)

Next ==
  \/ Runs
  \/ ~MustRun /\ (Device \/ Crashes \/ LinkDrops \/ Console \/ Person)

\* The device serves what it receives, restarts once it has deferred a restart,
\* and keeps its deadline; the page's timers fire and its frames are read.  A
\* person, GivesUp and the faults owe nothing.
Fairness ==
  /\ WF_vars(Serves) /\ WF_vars(Restarts) /\ WF_vars(RollsBack) /\ WF_vars(Boots)
  /\ WF_vars(Runs)
  /\ WF_vars(Receives) /\ WF_vars(Unsolicited) /\ WF_vars(TimesOut)
  /\ WF_vars(TransportGone) /\ WF_vars(DropSeen) /\ WF_vars(DropWaitOver)
  /\ WF_vars(Wakes) /\ WF_vars(AutoConnects) /\ WF_vars(DiscoveryOver)

Spec == Init /\ [][Next]_vars /\ Fairness

-----------------------------------------------------------------------------
(***************************************************************************)
(* Properties.                                                             *)
(***************************************************************************)
\* "Update confirmed" is only said of an image that the device keeps and starts,
\* whatever was lost or late on the way.  A Revert from an image that is itself
\* pending is apart: the page takes either image for the other.
ConfirmedMeansKept ==
  said = "confirmed" /\ ~job.trial => boot = job.slot /\ state[job.slot] = "valid"

\* The page's MARK_VALID reaches a pending image only in the boot that answered
\* all of CONFIRM_CHECKS well: a restart or a rollback between two checks, or
\* between the last one and MARK_VALID, never lets it keep an image unchecked.
VettedBeforeKept ==
  [][PendingVerify /\ up /\ up' /\ ~PendingVerify' /\ Head(requests) = "MARK_VALID"
       => vetted = Checks]_vars

\* When the page says that a flash was not installed, or was rolled back, the
\* device is not set to start the image of that flash, though a reply comes late,
\* is lost, or answers a later request.  So it is for the few replies that
\* MaxInFlight lets be late: with enough of them, each answering the request after
\* its own, OTA_FINISH itself is answered by one that is about something else.
NotInstalledIsTrue ==
  said \in {"not_installed", "rolled_back"} => origin[boot] # updates

\* tests/web/update.test.js: "the old image with the boot slot switched is
\* not_restarted, a real rollback is not".  A Revert that has switched the boot
\* slot is never reported as an image that did not start.
SwitchedIsNotRolledBack == said = "rolled_back" => boot # job.slot

\* Nobody listens any more: the reconnect window is over, or the link went again
\* while the page was finding out what came back.
LeftToPerson ==
  phase = "rebooting" /\ link = "none" /\ ~seeking /\ \A f \in Flows : pc[f] = "idle"

\* An update the person agreed to ends: in a verdict, at Restart now, with the
\* Reconnect button, or with an image whose checks failed but which will not go
\* back: a hand has kept it, or there is nothing to go back to.
UpdateSettles ==
  phase \in {"running", "rebooting", "confirming", "waiting_rollback"}
    ~> \/ phase \in {"none", "done", "switched_no_restart"}
       \/ LeftToPerson
       \/ phase = "waiting_rollback" /\ ~(PendingVerify /\ RollbackPossible)
=============================================================================
