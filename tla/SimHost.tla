------------------------------ MODULE SimHost ------------------------------
(***************************************************************************)
(* omega_sim (sim/src): the firmware rebuilt in one process at every       *)
(* restart, the threads around it and what they share - the link to the    *)
(* running boot's service, the restart hand-off and the data directory.    *)
(*                                                                         *)
(* Threads: the main one, which runs boot after boot and the script; the   *)
(* server's (PageServer); and the detached one that a RESTART, REVERT or   *)
(* OTA_FINISH leaves behind.  The data directory is known by the input     *)
(* mode saved in it.  The stick, the sensor, telemetry, the two flash      *)
(* slots (FlashSlots) and the loop's own work (ControlTick) are left out.  *)
(***************************************************************************)
EXTENDS PageServer

CONSTANTS
  Texts,          \* the control messages pages send
  Requests,       \* the requests sent over the link, by pages and by the script
  MaxSteps,       \* bound: steps of a script
  MaxEvents       \* bound: messages from pages and boots that fail

ASSUME SimAssumption ==
  /\ Texts \subseteq {"reset", "wipe", "script", "stop"}
  /\ Requests \subseteq {"restart", "flash", "revert", "set_mode", "other"}
  /\ MaxSteps \in Nat /\ MaxEvents \in Nat

VARIABLES
  headless,  \* no server; the script runs on simulated time
  fw,        \* the main thread's step
  reason,    \* why the boot it is leaving ends, or None
  thrown,    \* it is left by an exception, which run_firmware() catches
  exit,      \* exit_ or an interrupt
  alive,     \* the boot's service and joystick exist
  mode,      \* the mode the loop runs
  saved,     \* the data directory: the mode its settings have
  link,      \* link_ is set
  lock,      \* the owner of link_mu_, or None
  phase,     \* how far its owner is
  call,      \* the request the script sends, or None
  pending,   \* restart_reason_ while restart_pending_, or None
  wipe,      \* wipe_
  reboots,   \* detached threads that sleep before they reboot
  steps,     \* steps the script has left
  owed,      \* history: a page asked for a wipe and no erase followed yet
  events     \* bound: messages received and boots that failed

mainVars == <<fw, reason, thrown>>
linkVars == <<alive, link, lock, phase, call>>
vars == <<serverVars, headless, mainVars, exit, mode, saved, linkVars, pending, wipe, reboots,
          steps, owed, events>>

\* The main thread, as an owner of the link's lock.
Firmware == MaxPages + 1

Modes == {"mouse", "xac"}
Reasons == {"restart", "mode switch", "reset", "wipe", "crash", "rollback"}
Messages == Texts \cup Requests
Threads == Pages \cup {Firmware}

TypeOK ==
  /\ ServerTypeOK(Messages)
  /\ {headless, thrown, exit, alive, link, wipe, owed} \subseteq BOOLEAN
  /\ fw \in {"boot", "halted", "serve", "rest", "request", "wait", "unlink", "gone", "erase", "stop"}
  /\ {reason, pending} \subseteq Reasons \cup {None}
  /\ {mode, saved} \subseteq Modes
  /\ lock \in Threads \cup {Nobody}
  /\ phase \in {"locked", "replied", "flushing"}
  /\ call \in Requests \cup {None}
  /\ reboots \in Nat /\ steps \in 0..MaxSteps
  /\ events \in 0..MaxEvents

Init ==
  /\ headless \in BOOLEAN
  /\ ServerInit(~headless)
  /\ fw = "boot" /\ reason = None /\ thrown = FALSE
  /\ exit = FALSE
  /\ alive = FALSE /\ link = FALSE /\ lock = Nobody /\ phase = "locked"
  /\ call = None
  /\ mode = "mouse" /\ saved = "mouse"
  /\ pending = None /\ wipe = FALSE /\ reboots = 0
  /\ steps \in 0..MaxSteps
  /\ owed = FALSE
  /\ events = 0

-----------------------------------------------------------------------------
\* Host::request_restart(): the first reason stays until it is taken.
RequestRestart(why) == pending' = IF pending = None THEN why ELSE pending

\* The detached thread, REPLY_FLUSH_DELAY after a reply that defers a reboot.
RebootFires ==
  /\ reboots > 0
  /\ reboots' = reboots - 1
  /\ RequestRestart("restart")
  /\ UNCHANGED <<serverVars, headless, mainVars, exit, mode, saved, linkVars, wipe, steps, owed,
                 events>>

\* SIGINT.
Interrupt ==
  /\ ~exit
  /\ exit' = TRUE
  /\ UNCHANGED <<serverVars, headless, mainVars, mode, saved, linkVars, pending, wipe, reboots,
                 steps, owed, events>>

-----------------------------------------------------------------------------
\* A reader has a message for the host (on_text, on_binary).
PageSends(p, message) ==
  /\ events < MaxEvents
  /\ Receives(p, message)
  /\ events' = events + 1
  /\ UNCHANGED <<headless, mainVars, exit, mode, saved, linkVars, pending, wipe, reboots, steps,
                 owed>>

\* handle_control(): "wipe" sets its flag, and then asks for the restart as "reset" does.
FlagWipe(p) ==
  /\ reader[p] = "handle" /\ request[p] = "wipe"
  /\ wipe' = TRUE /\ owed' = TRUE
  /\ reader' = [reader EXCEPT ![p] = "flagged"]
  /\ UNCHANGED <<current, open, accepting, request, stop, headless, mainVars, exit, mode, saved,
                 linkVars, pending, reboots, steps, events>>

ControlRestart(p) ==
  /\ \/ reader[p] = "handle" /\ request[p] = "reset"
     \/ reader[p] = "flagged"
  /\ RequestRestart(request[p])
  /\ Handled(p)
  /\ UNCHANGED <<current, open, accepting, stop, headless, mainVars, exit, mode, saved, linkVars,
                 wipe, reboots, steps, owed, events>>

\* start_script(), and "stop".
ControlScript(p) ==
  /\ reader[p] = "handle" /\ request[p] \in {"script", "stop"}
  /\ steps' = IF request[p] = "script" THEN MaxSteps ELSE 0
  /\ Handled(p)
  /\ UNCHANGED <<current, open, accepting, stop, headless, mainVars, exit, mode, saved, linkVars,
                 pending, wipe, reboots, owed, events>>

-----------------------------------------------------------------------------
\* A request goes to the service under link_mu_: on_binary() of a reader, request() of
\* the script.
WantsLink(t) ==
  IF t = Firmware THEN fw = "request" /\ call # None
  ELSE reader[t] = "handle" /\ request[t] \in Requests

RequestOf(t) == IF t = Firmware THEN call ELSE request[t]

Locks(t) ==
  /\ WantsLink(t) /\ lock = Nobody
  /\ lock' = t /\ phase' = "locked"
  /\ UNCHANGED <<serverVars, headless, mainVars, exit, mode, saved, alive, link, call,
                 pending, wipe, reboots, steps, owed, events>>

\* The loop the main thread pumps from.
Pumping == IF alive THEN "serve" ELSE IF reason = None THEN "halted" ELSE "rest"

\* A headless run lets the reboot land before simulated time moves on.
WaitsForReboot(r) == headless /\ r \in {"restart", "flash", "revert"}

\* Host::transmit(): the reply is the script's when this is the thread that captures.
Captures(t) == call # None /\ t = Firmware

\* Mutant of Releases: the script waits for a reboot whether it got a reply or not.
ReleasesUnheard(t) ==
  /\ lock' = Nobody /\ phase' = "locked"
  /\ IF t = Firmware
       THEN /\ call' = None
            /\ fw' = IF WaitsForReboot(call) THEN "wait" ELSE Pumping
            /\ UNCHANGED <<reader, request, reason, thrown>>
       ELSE Handled(t) /\ UNCHANGED <<call, mainVars>>

\* The lock is released; a reader's handler returns, the script goes on with its reply,
\* "none" without a link.
Releases(t) ==
  /\ lock' = Nobody /\ phase' = "locked"
  /\ IF t = Firmware
       THEN /\ call' = None
            /\ fw' = IF link /\ WaitsForReboot(call) THEN "wait" ELSE Pumping
            /\ UNCHANGED <<reader, request, reason, thrown>>
       ELSE Handled(t) /\ UNCHANGED <<call, mainVars>>

\* It was queued: taken, or there is a client to send it to.
Queued(t) == Captures(t) \/ headless \/ Connected

OtherMode == CHOOSE m \in Modes : m # saved

\* The booting stick does not listen.
FeedsNobody(t) ==
  /\ lock = t /\ phase = "locked" /\ ~link
  /\ Releases(t)
  /\ UNCHANGED <<current, open, accepting, stop, headless, exit, mode, saved, alive,
                 link, pending, wipe, reboots, steps, owed, events>>

\* The service handles the request and replies; run_after_reply() then starts the thread
\* that reboots.
Feeds(t) ==
  /\ lock = t /\ phase = "locked" /\ link
  /\ RequestOf(t) # "set_mode" \/ ~Queued(t)
  /\ reboots' = IF RequestOf(t) \in {"restart", "flash", "revert"} /\ Queued(t)
                THEN reboots + 1 ELSE reboots
  /\ Releases(t)
  /\ UNCHANGED <<current, open, accepting, stop, headless, exit, mode, saved, alive,
                 link, pending, wipe, steps, owed, events>>

\* Or on_mode_changed() saves the settings and waits for the reply to be out, on this
\* thread.
FeedsMode(t) ==
  /\ lock = t /\ phase = "locked" /\ link
  /\ RequestOf(t) = "set_mode" /\ Queued(t)
  /\ saved' = OtherMode
  /\ phase' = "flushing"
  /\ UNCHANGED <<serverVars, headless, mainVars, exit, mode, alive, link, lock, call, pending,
                 wipe, reboots, steps, owed, events>>

\* Mutant of ModeFlushed: the settings are saved and nothing restarts.
ModeFlushedSilently(t) ==
  /\ lock = t /\ phase = "flushing"
  /\ Releases(t)
  /\ UNCHANGED <<current, open, accepting, stop, headless, exit, mode, saved, alive,
                 link, pending, wipe, reboots, steps, owed, events>>

ModeFlushed(t) ==
  /\ lock = t /\ phase = "flushing"
  /\ RequestRestart("mode switch")
  /\ Releases(t)
  /\ UNCHANGED <<current, open, accepting, stop, headless, exit, mode, saved, alive,
                 link, wipe, reboots, steps, owed, events>>

LinkSteps(t) == Locks(t) \/ FeedsNobody(t) \/ Feeds(t) \/ FeedsMode(t) \/ ModeFlushed(t)

-----------------------------------------------------------------------------
otherThanMain == <<serverVars, headless, exit, wipe, reboots, owed>>

\* boot(): the firmware comes up and serves the link in the mode that is saved, ...
BootServes ==
  /\ fw = "boot"
  /\ fw' = "serve" /\ reason' = None
  /\ alive' = TRUE /\ link' = TRUE
  /\ mode' = saved
  /\ UNCHANGED <<otherThanMain, thrown, saved, lock, phase, call, pending, steps, events>>

\* ... or crashes or hands over before that, ...
BootCrashes ==
  /\ fw = "boot" /\ events < MaxEvents
  /\ fw' = "gone" /\ reason' = "crash" /\ thrown' = FALSE
  /\ events' = events + 1
  /\ UNCHANGED <<otherThanMain, mode, saved, linkVars, pending, steps>>

\* ... or finds no sensor and halts.
BootHalts ==
  /\ fw = "boot" /\ events < MaxEvents
  /\ fw' = "halted" /\ reason' = None
  /\ events' = events + 1
  /\ UNCHANGED <<otherThanMain, thrown, mode, saved, linkVars, pending, steps>>

\* Mutant of Restarts: a stick that has halted does not look at the request.
RestartsServing ==
  /\ fw = "serve" /\ pending # None
  /\ reason' = pending /\ pending' = None
  /\ \E unwinds \in BOOLEAN : thrown' = unwinds
  /\ fw' = "unlink"
  /\ UNCHANGED <<otherThanMain, mode, saved, linkVars, steps, events>>

\* The boot ends on a request: at the top of the loop, or thrown out of a sleep.
Restarts ==
  /\ fw \in {"serve", "halted"} /\ pending # None
  /\ reason' = pending /\ pending' = None
  /\ \E unwinds \in BOOLEAN : thrown' = unwinds /\ (fw = "halted" => unwinds)
  /\ fw' = IF fw = "halted" THEN "gone" ELSE "unlink"
  /\ UNCHANGED <<otherThanMain, mode, saved, linkVars, steps, events>>

\* FirmwareHealthCheck rolls the image back.
RollsBack ==
  /\ fw = "serve" /\ events < MaxEvents
  /\ reason' = "rollback" /\ thrown' = TRUE
  /\ fw' = "unlink"
  /\ events' = events + 1
  /\ UNCHANGED <<otherThanMain, mode, saved, linkVars, pending, steps>>

\* The program is to end.
Exits ==
  /\ exit /\ fw \in {"serve", "halted", "rest"}
  /\ fw' = IF fw = "serve" THEN "unlink" ELSE "stop"
  /\ reason' = None /\ thrown' = FALSE
  /\ UNCHANGED <<otherThanMain, mode, saved, linkVars, pending, steps, events>>

\* Mutant of Unlinks: the link is cleared under a request it is serving.
UnlinksAtOnce ==
  /\ fw = "unlink"
  /\ link' = FALSE
  /\ fw' = "gone"
  /\ UNCHANGED <<otherThanMain, reason, thrown, mode, saved, alive, lock, phase, call,
                 pending, steps, events>>

\* Unlink: clear_link() waits for the request that is being served.
Unlinks ==
  /\ fw = "unlink" /\ lock = Nobody
  /\ link' = FALSE
  /\ fw' = "gone"
  /\ UNCHANGED <<otherThanMain, reason, thrown, mode, saved, alive, lock, phase, call,
                 pending, steps, events>>

\* The boot's objects are gone, and a request that came while they were unwound is this
\* restart's.  announce_rebooting() tells the client, and closes whichever is it then.
Leaves ==
  /\ fw = "gone"
  /\ alive' = FALSE /\ thrown' = FALSE
  /\ pending' = IF thrown THEN None ELSE pending
  /\ IF reason = None
       THEN fw' = "stop" /\ UNCHANGED open
       ELSE fw' = "erase" /\ CloseClient
  /\ UNCHANGED <<current, accepting, reader, request, stop, headless, exit, wipe, reboots, owed,
                 reason, mode, saved, link, lock, phase, call, steps,
                 events>>

\* Mutant of Erases: the flag is not looked at.
ErasesByReason == reason = "wipe"

\* main(): the data directory is erased.
Erases == reason = "wipe" \/ wipe

\* take_wipe() is not called when the reason decides.
ErasesData ==
  /\ fw = "erase"
  /\ saved' = IF Erases THEN "mouse" ELSE saved
  /\ wipe' = (reason = "wipe" /\ wipe)
  /\ owed' = (~Erases /\ owed)
  /\ fw' = "rest"
  /\ UNCHANGED <<serverVars, headless, exit, reboots, reason, thrown, mode, linkVars,
                 pending, steps, events>>

BootsAgain ==
  /\ fw = "rest" /\ ~exit
  /\ fw' = "boot"
  /\ UNCHANGED <<otherThanMain, reason, thrown, mode, saved, linkVars, pending, steps, events>>

-----------------------------------------------------------------------------
\* A step of the script is left.
StepDue == steps > 0

\* pump(), from every sleep: the next step of the script is a request, on this thread.
ScriptAsks ==
  /\ fw \in {"serve", "halted", "rest"} /\ StepDue
  /\ steps' = steps - 1
  /\ \E r \in Requests : call' = r
  /\ fw' = "request"
  /\ UNCHANGED <<otherThanMain, reason, thrown, mode, saved, alive, link, lock, phase, pending, events>>

\* wait_for_restart_real_time().
RebootLanded ==
  /\ fw = "wait" /\ pending # None
  /\ fw' = Pumping
  /\ UNCHANGED <<otherThanMain, reason, thrown, mode, saved, linkVars, pending, steps, events>>

\* A headless run ends with its script.
ScriptEnds ==
  /\ headless /\ ~exit
  /\ fw \in {"serve", "halted", "rest"} /\ ~StepDue
  /\ exit' = TRUE
  /\ UNCHANGED <<serverVars, headless, mainVars, mode, saved, linkVars, pending, wipe, reboots,
                 steps, owed, events>>

\* main() stops the server.
StopsServer ==
  /\ fw = "stop" /\ ~headless
  /\ StopSteps
  /\ UNCHANGED <<headless, mainVars, exit, mode, saved, linkVars, pending, wipe, reboots, steps,
                 owed, events>>

-----------------------------------------------------------------------------
ofServer == <<headless, mainVars, exit, mode, saved, linkVars, pending, wipe, reboots, steps,
              owed, events>>

Connects == \E p \in Pages : PageConnects(p) /\ UNCHANGED ofServer

Accepts == AcceptThread /\ UNCHANGED ofServer

Closes(p) == ReaderEnds(p) /\ UNCHANGED ofServer

Reads(p) ==
  \/ FlagWipe(p) \/ ControlRestart(p) \/ ControlScript(p)
  \/ LinkSteps(p)

Main ==
  \/ BootServes \/ BootCrashes \/ BootHalts
  \/ Restarts \/ Exits \/ Unlinks \/ Leaves \/ ErasesData \/ BootsAgain
  \/ ScriptAsks \/ LinkSteps(Firmware) \/ RebootLanded \/ ScriptEnds \/ StopsServer

Next ==
  \/ Connects \/ Accepts
  \/ \E p \in Pages : Closes(p) \/ Reads(p) \/ \E m \in Messages : PageSends(p, m)
  \/ Main \/ RollsBack \/ RebootFires \/ Interrupt

Spec == Init /\ [][Next]_vars

\* Threads are scheduled, a mutex is granted in the end and a socket that was shut ends
\* its reader.  Pages, crashes and interrupts come as they please.
Fairness ==
  /\ WF_vars(Main) /\ WF_vars(Accepts) /\ WF_vars(RebootFires)
  /\ \A p \in Pages : WF_vars(Reads(p) \/ (~open[p] /\ Closes(p)))

FairSpec == Spec /\ Fairness

-----------------------------------------------------------------------------
\* The link never reaches a service that is gone: from the moment a boot is left, a
\* request that is being served is waited for and none is let in.
LinkServes == link \/ (lock # Nobody /\ phase = "flushing") => alive

\* A loop that runs another mode than the saved one is about to be restarted: no mode
\* switch is saved and then lost between threads.
ModeFollows ==
  fw = "serve" /\ mode # saved => pending # None \/ (lock # Nobody /\ phase = "flushing")

\* "let it land before simulated time moves on" (sim_host.cpp:492): on simulated time
\* nothing runs between a request to reboot and the reboot.  It does not hold: any other
\* request to restart, of a mode switch before it, ends the wait (MCHeadless).
HeadlessInOrder == headless /\ reboots > 0 => fw = "wait"

\* A page that asks for a wipe gets one, whatever other restarts are under way.
WipeDone == owed ~> ~owed \/ exit

\* A request to restart is not left behind.
RestartServed == pending # None ~> fw = "boot" \/ exit

\* The firmware's loop is never stuck at the link: not in a request of the script or in
\* clear_link(), behind a reader whose handler waits for its reply to be out, and not in
\* wait_for_restart_real_time(), whose limit (sim_host.cpp:495, left out of the model) no
\* schedule of the thread that reboots needs.
LoopGoesOn == fw \in {"request", "wait", "unlink"} ~> fw \notin {"request", "wait", "unlink"}

\* The program ends when it is told to: nobody waits for a thread that waits for him.
StopCompletes == exit ~> fw = "stop" /\ (headless \/ stop = "stopped")

\* "True after a `wipe` message: the main loop erases the data directory"
\* (sim_host.hpp:120): the data are erased because a page asked for it.
OnlyAskedWipes == fw = "erase" /\ Erases => owed \/ reason = "wipe"
=============================================================================
