--------------------------- MODULE SimHostProofs ---------------------------
(***************************************************************************)
(* Proofs about the simulator, for any number of pages, steps and events:  *)
(* its server's threads and clients, the link to the running boot, and the *)
(* mode the boot runs.                                                     *)
(***************************************************************************)
EXTENDS SimHost, TLAPS

\* A new client has no reader yet.  The accept thread remembers a replaced one only while
\* it cuts it off, and has ended before the readers are waited for.
Accepting ==
  /\ accepting.new # Nobody => reader[accepting.new] = "none"
  /\ accepting.old # Nobody => accepting.at = "replace"
  /\ stop \in {"shut", "join_readers", "stopped"} => accepting.at = "ended"

\* The link's owner is a thread whose request is being served, and a reader that has
\* flagged a wipe still has its message.
Owner ==
  /\ \A p \in Pages : reader[p] = "flagged" => request[p] = "wipe"
  /\ lock \in Pages => reader[lock] = "handle" /\ request[lock] \in Requests
  /\ lock = Firmware => fw = "request"

\* The link is set while the boot runs, and is not cleared while a request is served.
Linked ==
  /\ alive => fw \in {"serve", "request", "wait", "unlink", "gone"}
  /\ link => alive /\ fw # "gone"
  /\ lock # Nobody /\ phase = "flushing" => link
  /\ fw = "serve" => alive

\* A running boot that runs another mode than the saved one is about to restart.
Mode ==
  alive /\ fw \in {"serve", "request", "wait"} /\ mode # saved
    => pending # None \/ (lock # Nobody /\ phase = "flushing")

HostInv == TypeOK /\ Accepting /\ OneClient /\ StoppedMeansJoined /\ Owner /\ Linked /\ Mode

-----------------------------------------------------------------------------
LEMMA Constants ==
  /\ Nobody \notin Pages /\ Firmware \notin Pages /\ Firmware # Nobody
  /\ None \notin Messages /\ None \notin Reasons
BY PagesAssumption, SimAssumption
   DEF Nobody, Pages, Firmware, None, Messages, Reasons

LEMMA HostInvInit == Init => HostInv
<1> SUFFICES ASSUME Init PROVE HostInv
  OBVIOUS
<1>1. TypeOK
  <2>1. ServerTypeOK(Messages)
    BY DEF Init, ServerInit, ServerTypeOK, ReaderStates
  <2>2. events \in 0..MaxEvents /\ reboots \in Nat /\ steps \in 0..MaxSteps
    BY SimAssumption DEF Init
  <2> QED
    BY <2>1, <2>2 DEF Init, TypeOK, Modes
<1>2. Accepting /\ OneClient /\ StoppedMeansJoined
  BY DEF Init, ServerInit, Accepting, OneClient, StoppedMeansJoined
<1>3. Owner /\ Linked /\ Mode
  BY Constants DEF Init, ServerInit, Owner, Linked, Mode
<1> QED
  BY <1>1, <1>2, <1>3 DEF HostInv

\* A step of the server's threads alone leaves the types of the rest as they are.
LEMMA ServerTyped ==
  ASSUME HostInv, UNCHANGED ofServer, ServerTypeOK(Messages)'
  PROVE  TypeOK'
BY DEF HostInv, TypeOK, ofServer, mainVars, linkVars

\* The link, the boot and the mode are none of its business either, as long as it takes no
\* reader out of a message or into one.
LEMMA ServerAlone ==
  ASSUME HostInv, UNCHANGED ofServer, UNCHANGED request,
         \A p \in Pages : \/ reader'[p] = reader[p]
                          \/ reader[p] \notin {"handle", "flagged"} /\ reader'[p] # "flagged"
  PROVE  (Owner /\ Linked /\ Mode)'
<1>1. UNCHANGED <<request, fw, alive, link, lock, phase, mode, saved, pending>>
  BY DEF ofServer, mainVars, linkVars
<1>2. Owner'
  <2>1. \A p \in Pages : reader'[p] = "flagged" => request'[p] = "wipe"
    BY <1>1 DEF HostInv, Owner
  <2>2. lock \in Pages => reader'[lock] = "handle" /\ request[lock] \in Requests
    BY DEF HostInv, Owner
  <2> QED
    BY <1>1, <2>1, <2>2 DEF HostInv, Owner
<1>3. (Linked /\ Mode)'
  BY <1>1 DEF HostInv, Linked, Mode
<1> QED
  BY <1>2, <1>3

\* The server's own steps.
LEMMA ServerSteps ==
  ASSUME HostInv, Connects \/ Accepts \/ \E p \in Pages : Closes(p)
  PROVE  HostInv'
<1>1. UNCHANGED ofServer /\ UNCHANGED <<request, stop>>
  BY DEF Connects, Accepts, Closes, PageConnects, AcceptThread, HandshakeFails, BecomesCurrent,
         ReplacesOld, StartsReader, AcceptEnds, ReaderEnds
<1>2. ServerTypeOK(Messages) /\ Accepting /\ OneClient /\ StoppedMeansJoined
  BY DEF HostInv, TypeOK
<1>3. SUFFICES /\ ServerTypeOK(Messages)'
               /\ (Accepting /\ OneClient /\ StoppedMeansJoined)'
               /\ \A p \in Pages : \/ reader'[p] = reader[p]
                                   \/ reader[p] \notin {"handle", "flagged"} /\ reader'[p] # "flagged"
  BY <1>1, ServerTyped, ServerAlone DEF HostInv
<1>4. ASSUME NEW p \in Pages, PageConnects(p)
      PROVE  /\ ServerTypeOK(Messages)'
             /\ (Accepting /\ OneClient /\ StoppedMeansJoined)'
             /\ UNCHANGED reader
  BY <1>2, <1>4
     DEF ServerTypeOK, Accepting, OneClient, StoppedMeansJoined, PageConnects, Stopping
<1>5. CASE HandshakeFails
  <2>1. ServerTypeOK(Messages)'
    BY <1>2, <1>5 DEF ServerTypeOK, HandshakeFails
  <2>2. (Accepting /\ OneClient /\ StoppedMeansJoined)'
    BY <1>2, <1>5
       DEF ServerTypeOK, Accepting, OneClient, StoppedMeansJoined, HandshakeFails, Nobody
  <2> QED
    BY <1>5, <2>1, <2>2 DEF HandshakeFails
<1>6. CASE BecomesCurrent
  <2>1. ServerTypeOK(Messages)'
    BY <1>2, <1>6 DEF ServerTypeOK, BecomesCurrent
  <2>2. /\ accepting'.at = "replace" /\ accepting'.old = current /\ current' = accepting.new
        /\ accepting'.new = accepting.new /\ accepting.at = "handshake"
        /\ \A p \in Pages : open'[p] => open[p] \/ p = accepting.new
        /\ UNCHANGED <<reader, stop>>
    BY <1>2, <1>6 DEF ServerTypeOK, BecomesCurrent
  <2>3. Accepting' /\ StoppedMeansJoined'
    BY <1>2, <2>2 DEF Accepting, StoppedMeansJoined
  <2>4. OneClient'
    BY <1>2, <2>2, Constants DEF Accepting, OneClient
  <2> QED
    BY <2>1, <2>2, <2>3, <2>4
<1>7. CASE ReplacesOld
  <2>1. ServerTypeOK(Messages)'
    BY <1>2, <1>7 DEF ServerTypeOK, ReplacesOld, Nobody
  <2>2. (Accepting /\ OneClient /\ StoppedMeansJoined)'
    BY <1>2, <1>7
       DEF ServerTypeOK, Accepting, OneClient, StoppedMeansJoined, ReplacesOld, Nobody
  <2> QED
    BY <1>7, <2>1, <2>2 DEF ReplacesOld
<1>8. CASE StartsReader
  <2>1. ServerTypeOK(Messages)'
    BY <1>2, <1>8 DEF ServerTypeOK, StartsReader, ReaderStates, Reading, Nobody
  <2>2. (Accepting /\ OneClient /\ StoppedMeansJoined)'
    BY <1>2, <1>8
       DEF ServerTypeOK, Accepting, OneClient, StoppedMeansJoined, StartsReader, Nobody
  <2>3. \A p \in Pages : \/ reader'[p] = reader[p]
                         \/ reader[p] \in {"none", "done"} /\ reader'[p] \in {"read", "joined"}
    BY <1>2, <1>8, Constants DEF Accepting, StartsReader
  <2> QED
    BY <2>1, <2>2, <2>3
<1>9. CASE AcceptEnds
  <2>1. ServerTypeOK(Messages)'
    BY <1>2, <1>9 DEF ServerTypeOK, AcceptEnds
  <2>2. (Accepting /\ OneClient /\ StoppedMeansJoined)'
    BY <1>2, <1>9
       DEF ServerTypeOK, Accepting, OneClient, StoppedMeansJoined, AcceptEnds, Nobody
  <2> QED
    BY <1>9, <2>1, <2>2 DEF AcceptEnds
<1>10. ASSUME NEW p \in Pages, ReaderEnds(p)
       PROVE  /\ ServerTypeOK(Messages)'
              /\ (Accepting /\ OneClient /\ StoppedMeansJoined)'
              /\ \A q \in Pages : reader'[q] = reader[q] \/ (reader[q] = "read" /\ reader'[q] = "done")
  <2>1. ServerTypeOK(Messages)'
    BY <1>2, <1>10 DEF ServerTypeOK, ReaderEnds, ReaderStates, Reading
  <2>2. (Accepting /\ OneClient /\ StoppedMeansJoined)'
    <3>1. /\ UNCHANGED <<accepting, stop>> /\ reader[p] = "read"
          /\ \A q \in Pages \ {p} : reader'[q] = reader[q] /\ open'[q] = open[q]
          /\ reader'[p] = "done" /\ ~open'[p]
          /\ current' = IF current = p THEN Nobody ELSE current
      BY <1>2, <1>10 DEF ServerTypeOK, ReaderEnds
    <3>2. Accepting'
      BY <1>2, <3>1 DEF ServerTypeOK, Accepting
    <3>3. OneClient'
      BY <1>2, <3>1 DEF OneClient
    <3>4. StoppedMeansJoined'
      BY <1>2, <3>1 DEF StoppedMeansJoined
    <3> QED
      BY <3>2, <3>3, <3>4
  <2>3. \A q \in Pages : reader'[q] = reader[q] \/ (reader[q] = "read" /\ reader'[q] = "done")
    <3>1. reader[p] = "read" /\ reader' = [reader EXCEPT ![p] = "done"]
      BY <1>10 DEF ReaderEnds
    <3>2. reader'[p] = "done" /\ \A q \in Pages \ {p} : reader'[q] = reader[q]
      BY <1>2, <3>1 DEF ServerTypeOK
    <3> QED
      BY <3>1, <3>2
  <2> QED
    BY <2>1, <2>2, <2>3
<1>11. CASE Connects
  BY <1>4, <1>11 DEF Connects
<1>12. CASE Accepts
  BY <1>5, <1>6, <1>7, <1>8, <1>9, <1>12 DEF Accepts, AcceptThread
<1>13. ASSUME NEW p \in Pages, Closes(p)
       PROVE  /\ ServerTypeOK(Messages)'
              /\ (Accepting /\ OneClient /\ StoppedMeansJoined)'
              /\ \A q \in Pages : \/ reader'[q] = reader[q]
                                  \/ reader[q] \notin {"handle", "flagged"} /\ reader'[q] # "flagged"
  BY <1>10, <1>13 DEF Closes
<1> QED
  BY <1>11, <1>12, <1>13

\* A reader has a message, and handles it when it is not a request.
LEMMA ReaderSteps ==
  ASSUME HostInv, NEW p \in Pages,
         \/ \E m \in Messages : PageSends(p, m)
         \/ FlagWipe(p) \/ ControlRestart(p) \/ ControlScript(p)
  PROVE  HostInv'
<1>1. /\ UNCHANGED <<current, open, accepting, stop, headless, mainVars, exit, mode, saved, linkVars,
                     reboots>>
      /\ \A q \in Pages \ {p} : reader'[q] = reader[q] /\ request'[q] = request[q]
      /\ reader[p] \in {"read", "handle", "flagged"} /\ reader'[p] \in {"read", "handle", "flagged"}
  BY DEF PageSends, Receives, FlagWipe, ControlRestart, ControlScript, Handled, HostInv, TypeOK,
         ServerTypeOK
<1>2. pending # None => pending' # None
  BY DEF PageSends, Receives, FlagWipe, ControlRestart, ControlScript, RequestRestart
<1>3. lock # p
  BY Constants, SimAssumption
     DEF PageSends, Receives, FlagWipe, ControlRestart, ControlScript, HostInv, Owner
<1>4. TypeOK'
  <2>1. CASE \E m \in Messages : PageSends(p, m)
    <3>1. events' \in 0..MaxEvents
      BY <2>1, SimAssumption DEF PageSends, HostInv, TypeOK
    <3> QED
      BY <2>1, <3>1
         DEF HostInv, TypeOK, ServerTypeOK, PageSends, Receives, ReaderStates, Reading, mainVars,
             linkVars
  <2>2. CASE FlagWipe(p)
    BY <2>2
       DEF HostInv, TypeOK, ServerTypeOK, FlagWipe, ReaderStates, Reading, mainVars, linkVars
  <2>3. CASE ControlRestart(p)
    <3>1. request[p] \in {"reset", "wipe"}
      BY <2>3 DEF ControlRestart, HostInv, Owner
    <3>2. pending' \in Reasons \cup {None}
      BY <2>3, <3>1 DEF ControlRestart, RequestRestart, Reasons, HostInv, TypeOK
    <3> QED
      BY <2>3, <3>2
         DEF HostInv, TypeOK, ServerTypeOK, ControlRestart, Handled, ReaderStates, Reading, mainVars,
             linkVars
  <2>4. CASE ControlScript(p)
    BY <2>4, SimAssumption
       DEF HostInv, TypeOK, ServerTypeOK, ControlScript, Handled, ReaderStates, Reading, mainVars,
           linkVars
  <2> QED
    BY <2>1, <2>2, <2>3, <2>4
<1>5. (Accepting /\ OneClient /\ StoppedMeansJoined)'
  BY <1>1 DEF HostInv, TypeOK, ServerTypeOK, Accepting, OneClient, StoppedMeansJoined
<1>6. reader'[p] = "flagged" => request'[p] = "wipe"
  BY DEF PageSends, Receives, FlagWipe, ControlRestart, ControlScript, Handled, HostInv, TypeOK,
         ServerTypeOK
<1>7. (Owner /\ Linked /\ Mode)'
  BY <1>1, <1>2, <1>3, <1>6 DEF HostInv, Owner, Linked, Mode, mainVars, linkVars
<1> QED
  BY <1>4, <1>5, <1>7 DEF HostInv

\* What the handler's return does to the server's state.
LEMMA ReleasesKeeps ==
  ASSUME HostInv, NEW t \in Threads, lock = t, Releases(t), UNCHANGED <<open, current, accepting, stop>>
  PROVE  /\ ServerTypeOK(Messages)' /\ Accepting' /\ OneClient' /\ StoppedMeansJoined'
         /\ Owner'
         /\ lock' = Nobody /\ phase' = "locked"
         /\ call' \in Requests \cup {None}
         /\ UNCHANGED <<reason, thrown>>
         /\ fw' = fw \/ (fw = "request" /\ (fw' = Pumping \/ (link /\ fw' = "wait")))
<1>1. lock' = Nobody /\ phase' = "locked"
  BY DEF Releases
<1>2. CASE t = Firmware
  <2>1. /\ call' = None /\ UNCHANGED <<reader, request, reason, thrown>>
        /\ fw' = IF link /\ WaitsForReboot(call) THEN "wait" ELSE Pumping
    BY <1>2 DEF Releases
  <2>2. fw = "request"
    BY <1>2 DEF HostInv, Owner
  <2>3. ServerTypeOK(Messages)' /\ Accepting' /\ OneClient' /\ StoppedMeansJoined'
    BY <2>1
       DEF HostInv, TypeOK, ServerTypeOK, Accepting, OneClient, StoppedMeansJoined
  <2>4. Owner'
    BY <1>1, <2>1, Constants DEF HostInv, Owner
  <2> QED
    BY <1>1, <2>1, <2>2, <2>3, <2>4
<1>3. CASE t # Firmware
  <2>1. t \in Pages /\ reader[t] = "handle"
    BY <1>3 DEF HostInv, Owner, Threads
  <2>2. /\ reader' = [reader EXCEPT ![t] = "read"] /\ request' = [request EXCEPT ![t] = None]
        /\ UNCHANGED <<call, mainVars>>
    BY <1>3 DEF Releases, Handled
  <2>3. ServerTypeOK(Messages)'
    BY <2>1, <2>2 DEF HostInv, TypeOK, ServerTypeOK, ReaderStates, Reading
  <2>4. Accepting' /\ OneClient' /\ StoppedMeansJoined'
    BY <2>1, <2>2
       DEF HostInv, TypeOK, ServerTypeOK, Accepting, OneClient, StoppedMeansJoined
  <2>5. Owner'
    BY <1>1, <2>1, <2>2, Constants DEF HostInv, TypeOK, ServerTypeOK, Owner, mainVars
  <2>6. fw' = fw /\ UNCHANGED <<reason, thrown>>
    BY <2>2 DEF mainVars
  <2> QED
    BY <1>1, <2>2, <2>3, <2>4, <2>5, <2>6 DEF HostInv, TypeOK
<1> QED
  BY <1>2, <1>3

\* A request over the link, of a page or the script.
LEMMA LinkKeeps ==
  ASSUME HostInv, NEW t \in Threads, LinkSteps(t)
  PROVE  HostInv'
<1>1. CASE Locks(t)
  <2>1. TypeOK'
    BY <1>1 DEF HostInv, TypeOK, ServerTypeOK, Locks, serverVars, mainVars
  <2>2. (Accepting /\ OneClient /\ StoppedMeansJoined)'
    BY <1>1 DEF HostInv, Accepting, OneClient, StoppedMeansJoined, Locks, serverVars
  <2>3. (Owner /\ Linked /\ Mode)'
    BY <1>1, Constants
       DEF HostInv, TypeOK, Owner, Linked, Mode, Locks, WantsLink, Threads, serverVars,
           mainVars
  <2> QED
    BY <2>1, <2>2, <2>3 DEF HostInv
<1>2. CASE FeedsNobody(t) \/ Feeds(t) \/ ModeFlushed(t)
  <2>1. /\ lock = t /\ Releases(t)
        /\ UNCHANGED <<current, open, accepting, stop, headless, exit, mode, saved, alive, link,
                       wipe, steps, owed, events>>
    BY <1>2 DEF FeedsNobody, Feeds, ModeFlushed
  <2>6. /\ pending' = pending \/ (pending' # None /\ pending' \in Reasons)
        /\ phase = "locked" \/ pending' # None
    BY <1>2, Constants
       DEF FeedsNobody, Feeds, ModeFlushed, RequestRestart, HostInv, TypeOK, Reasons
  <2>7. reboots' \in Nat
    <3>1. reboots' = reboots \/ reboots' = reboots + 1
      BY <1>2 DEF FeedsNobody, Feeds, ModeFlushed
    <3> QED
      BY <3>1 DEF HostInv, TypeOK
  <2>2. /\ ServerTypeOK(Messages)' /\ Accepting' /\ OneClient' /\ StoppedMeansJoined'
        /\ Owner'
        /\ lock' = Nobody /\ phase' = "locked"
        /\ call' \in Requests \cup {None}
        /\ UNCHANGED <<reason, thrown>>
        /\ fw' = fw \/ (fw = "request" /\ (fw' = Pumping \/ (link /\ fw' = "wait")))
    BY <2>1, ReleasesKeeps
  <2>3. TypeOK'
    BY <2>1, <2>2, <2>6, <2>7 DEF HostInv, TypeOK, Pumping
  <2>4. Linked'
    BY <2>1, <2>2 DEF HostInv, Linked, Pumping
  <2>5. Mode'
    BY <2>1, <2>2, <2>6 DEF HostInv, Linked, Mode, Pumping
  <2> QED
    BY <2>2, <2>3, <2>4, <2>5 DEF HostInv
<1>3. CASE FeedsMode(t)
  <2>1. TypeOK'
    BY <1>3
       DEF HostInv, TypeOK, ServerTypeOK, FeedsMode, OtherMode, Modes, serverVars, mainVars
  <2>2. (Accepting /\ OneClient /\ StoppedMeansJoined)'
    BY <1>3 DEF HostInv, Accepting, OneClient, StoppedMeansJoined, FeedsMode, serverVars
  <2>3. (Owner /\ Linked /\ Mode)'
    BY <1>3, Constants
       DEF HostInv, Owner, Linked, Mode, FeedsMode, Threads, serverVars, mainVars
  <2> QED
    BY <2>1, <2>2, <2>3 DEF HostInv
<1> QED
  BY <1>1, <1>2, <1>3 DEF LinkSteps

-----------------------------------------------------------------------------
\* A boot's beginning and end.
LEMMA BootKeeps ==
  ASSUME HostInv, BootServes \/ BootCrashes \/ BootHalts \/ Restarts \/ RollsBack \/ Exits
  PROVE  HostInv'
<1>1. UNCHANGED <<serverVars, lock, phase, call, saved, exit, headless, wipe, reboots, steps,
                  owed>>
  BY DEF BootServes, BootCrashes, BootHalts, Restarts, RollsBack, Exits, otherThanMain, linkVars
<1>2. fw # "request"
  BY DEF BootServes, BootCrashes, BootHalts, Restarts, RollsBack, Exits
<1>3. TypeOK'
  <2>1. events' \in 0..MaxEvents
    BY SimAssumption
       DEF BootServes, BootCrashes, BootHalts, Restarts, RollsBack, Exits, HostInv, TypeOK
  <2>2. reason' \in Reasons \cup {None} /\ pending' \in Reasons \cup {None} /\ mode' \in Modes
    BY DEF BootServes, BootCrashes, BootHalts, Restarts, RollsBack, Exits, HostInv, TypeOK, Reasons
  <2>3. /\ thrown' \in BOOLEAN /\ alive' \in BOOLEAN /\ link' \in BOOLEAN
        /\ fw' \in {"serve", "gone", "halted", "unlink", "stop"}
    BY DEF BootServes, BootCrashes, BootHalts, Restarts, RollsBack, Exits, HostInv, TypeOK,
           linkVars
  <2> QED
    BY <1>1, <2>1, <2>2, <2>3 DEF HostInv, TypeOK, ServerTypeOK, serverVars
<1>4. (Accepting /\ OneClient /\ StoppedMeansJoined)'
  BY <1>1 DEF HostInv, Accepting, OneClient, StoppedMeansJoined, serverVars
<1>5. Owner'
  BY <1>1, <1>2 DEF HostInv, Owner, serverVars
<1>6. Linked' /\ Mode'
  BY <1>1
     DEF HostInv, Linked, Mode, BootServes, BootCrashes, BootHalts, Restarts, RollsBack, Exits,
         linkVars
<1> QED
  BY <1>3, <1>4, <1>5, <1>6 DEF HostInv

\* What is left of a boot is put away, and the next one begins.
LEMMA UnwindKeeps ==
  ASSUME HostInv, Unlinks \/ Leaves \/ ErasesData \/ BootsAgain
  PROVE  HostInv'
<1>1. UNCHANGED <<current, accepting, reader, request, stop, lock, phase, call, exit,
                  headless, reboots, steps, events, reason, mode>>
  BY DEF Unlinks, Leaves, ErasesData, BootsAgain, otherThanMain, serverVars, linkVars
<1>2. fw # "request" /\ fw' \in {"gone", "stop", "erase", "rest", "boot"}
  BY DEF Unlinks, Leaves, ErasesData, BootsAgain
<1>3. open' = open \/ open' = [p \in Pages |-> p # current /\ open[p]]
  BY DEF Unlinks, Leaves, ErasesData, BootsAgain, CloseClient, otherThanMain, serverVars
<1>4. ServerTypeOK(Messages)' /\ Accepting' /\ OneClient' /\ StoppedMeansJoined'
  <2>1. open' \in [Pages -> BOOLEAN] /\ \A p \in Pages : open'[p] => open[p]
    BY <1>3 DEF HostInv, TypeOK, ServerTypeOK
  <2>2. ServerTypeOK(Messages)'
    BY <1>1, <2>1 DEF HostInv, TypeOK, ServerTypeOK
  <2> QED
    BY <1>1, <2>1, <2>2 DEF HostInv, Accepting, OneClient, StoppedMeansJoined
<1>5. TypeOK'
  <2>1. pending' \in Reasons \cup {None} /\ saved' \in Modes
    <3>1. pending' \in {pending, None} /\ saved' \in {saved, "mouse"}
      BY DEF Unlinks, Leaves, ErasesData, BootsAgain, otherThanMain
    <3> QED
      BY <3>1 DEF HostInv, TypeOK, Modes
  <2>2. {thrown', alive', link', wipe', owed'} \subseteq BOOLEAN
    BY DEF Unlinks, Leaves, ErasesData, BootsAgain, otherThanMain, linkVars, HostInv, TypeOK, Erases
  <2> QED
    BY <1>1, <1>2, <1>4, <2>1, <2>2 DEF HostInv, TypeOK
<1>6. Owner'
  BY <1>1, <1>2 DEF HostInv, Owner
<1>7. Linked'
  BY <1>1, <1>2
     DEF HostInv, Linked, Unlinks, Leaves, ErasesData, BootsAgain, linkVars
<1>8. Mode'
  BY <1>2 DEF Mode
<1> QED
  BY <1>4, <1>5, <1>6, <1>7, <1>8 DEF HostInv

\* The script, the end of a run, and what comes from outside the main thread.
LEMMA OtherKeeps ==
  ASSUME HostInv,
         ScriptAsks \/ RebootLanded \/ ScriptEnds \/ StopsServer \/ RebootFires \/ Interrupt
  PROVE  HostInv'
<1>1. CASE ScriptAsks
  <2>1. steps' \in 0..MaxSteps /\ call' \in Requests
    BY <1>1, SimAssumption DEF ScriptAsks, StepDue, HostInv, TypeOK
  <2>2. TypeOK'
    BY <1>1, <2>1 DEF ScriptAsks, HostInv, TypeOK, ServerTypeOK, otherThanMain, serverVars
  <2>3. (Accepting /\ OneClient /\ StoppedMeansJoined)'
    BY <1>1 DEF ScriptAsks, HostInv, Accepting, OneClient, StoppedMeansJoined, otherThanMain, serverVars
  <2>4. (Owner /\ Linked /\ Mode)'
    BY <1>1
       DEF ScriptAsks, HostInv, Owner, Linked, Mode, otherThanMain, serverVars
  <2> QED
    BY <2>2, <2>3, <2>4 DEF HostInv
<1>2. CASE RebootLanded
  <2>1. /\ fw = "wait" /\ fw' = Pumping
        /\ UNCHANGED <<otherThanMain, reason, thrown, mode, saved, linkVars, pending, steps, events>>
    BY <1>2 DEF RebootLanded
  <2>2. fw' \in {"serve", "halted", "rest"} /\ (alive => fw' = "serve") /\ (fw' = "serve" => alive)
    BY <2>1 DEF Pumping
  <2>3. TypeOK'
    BY <2>1, <2>2 DEF HostInv, TypeOK, ServerTypeOK, otherThanMain, serverVars, linkVars
  <2>4. (Accepting /\ OneClient /\ StoppedMeansJoined)'
    BY <2>1 DEF HostInv, Accepting, OneClient, StoppedMeansJoined, otherThanMain, serverVars
  <2>5. (Owner /\ Linked /\ Mode)'
    BY <2>1, <2>2
       DEF HostInv, Owner, Linked, Mode, otherThanMain, serverVars, linkVars
  <2> QED
    BY <2>3, <2>4, <2>5 DEF HostInv
<1>3. CASE StopsServer
  <2>1. /\ UNCHANGED <<headless, mainVars, exit, mode, saved, linkVars, pending, wipe, reboots, steps,
                       owed, events>>
        /\ StopSteps
    BY <1>3 DEF StopsServer
  <2>2. UNCHANGED <<current, accepting, request>> /\ \A p \in Pages : open'[p] => open[p]
    BY <2>1
       DEF StopSteps, StopAccepting, AcceptJoined, StopClient, ReadersJoined, CloseClient
  <2>3. ServerTypeOK(Messages)'
    BY <2>1
       DEF HostInv, TypeOK, ServerTypeOK, StopSteps, StopAccepting, AcceptJoined, StopClient,
           ReadersJoined, CloseClient, ReaderStates, Reading
  <2>4. TypeOK'
    BY <2>1, <2>3 DEF HostInv, TypeOK, mainVars, linkVars
  <2>5. reader' = reader \/ ( /\ stop = "join_readers"
                              /\ \A p \in Pages : reader[p] \notin Reading
                              /\ reader' = [p \in Pages |-> IF reader[p] = "done" THEN "joined"
                                                            ELSE reader[p]])
    BY <2>1 DEF StopSteps, StopAccepting, AcceptJoined, StopClient, ReadersJoined
  <2>6. Accepting'
    BY <2>1, <2>2
       DEF HostInv, TypeOK, ServerTypeOK, Accepting, StopSteps, StopAccepting, AcceptJoined,
           StopClient, ReadersJoined
  <2>7. OneClient'
    BY <2>2 DEF HostInv, OneClient
  <2>8. StoppedMeansJoined'
    <3>1. SUFFICES ASSUME stop' = "stopped"
                   PROVE  accepting'.at = "ended"
                          /\ \A p \in Pages : reader'[p] \in {"none", "joined"}
      BY DEF StoppedMeansJoined
    <3>2. stop = "join_readers" /\ ReadersJoined
      BY <2>1, <3>1 DEF StopSteps, StopAccepting, AcceptJoined, StopClient, ReadersJoined
    <3> QED
      BY <2>2, <3>2
         DEF HostInv, TypeOK, ServerTypeOK, Accepting, ReadersJoined, ReaderStates, Reading
  <2>9. Owner'
    <3>1. \A p \in Pages : reader'[p] = "flagged" => reader[p] = "flagged"
      BY <2>5 DEF HostInv, TypeOK, ServerTypeOK
    <3>2. \A p \in Pages : reader[p] = "handle" => reader'[p] = "handle"
      BY <2>5 DEF Reading
    <3> QED
      BY <2>1, <2>2, <3>1, <3>2 DEF HostInv, Owner, mainVars, linkVars
  <2>10. (Linked /\ Mode)'
    BY <2>1 DEF HostInv, Linked, Mode, mainVars, linkVars
  <2> QED
    BY <2>4, <2>6, <2>7, <2>8, <2>9, <2>10 DEF HostInv
<1>4. CASE ScriptEnds \/ RebootFires \/ Interrupt
  <2>1. /\ UNCHANGED <<serverVars, headless, mainVars, mode, saved, linkVars, wipe, steps, owed,
                       events>>
        /\ pending' = pending \/ pending' = "restart"
        /\ pending # None => pending' = pending
    BY <1>4 DEF ScriptEnds, RebootFires, Interrupt, RequestRestart
  <2>2. exit' \in BOOLEAN
    BY <1>4 DEF ScriptEnds, RebootFires, Interrupt, HostInv, TypeOK
  <2>6. reboots' \in Nat
    <3>1. reboots' = reboots \/ (reboots > 0 /\ reboots' = reboots - 1)
      BY <1>4 DEF ScriptEnds, RebootFires, Interrupt
    <3> QED
      BY <3>1 DEF HostInv, TypeOK
  <2>7. pending' \in Reasons \cup {None}
    BY <2>1 DEF HostInv, TypeOK, Reasons
  <2>3. TypeOK'
    BY <2>1, <2>2, <2>6, <2>7
       DEF HostInv, TypeOK, ServerTypeOK, serverVars, mainVars, linkVars
  <2>4. (Accepting /\ OneClient /\ StoppedMeansJoined)'
    BY <2>1 DEF HostInv, Accepting, OneClient, StoppedMeansJoined, serverVars
  <2>5. (Owner /\ Linked /\ Mode)'
    BY <2>1
       DEF HostInv, Owner, Linked, Mode, serverVars, mainVars, linkVars
  <2> QED
    BY <2>3, <2>4, <2>5 DEF HostInv
<1> QED
  BY <1>1, <1>2, <1>3, <1>4

LEMMA HostInvStep ==
  ASSUME HostInv, [Next]_vars
  PROVE  HostInv'
<1>1. CASE UNCHANGED vars
  BY <1>1
     DEF HostInv, TypeOK, ServerTypeOK, Accepting, OneClient, StoppedMeansJoined, Owner, Linked,
         Mode, vars, serverVars, mainVars, linkVars
<1>2. CASE Connects \/ Accepts \/ \E p \in Pages : Closes(p)
  BY <1>2, ServerSteps
<1>3. ASSUME NEW p \in Pages, Reads(p) \/ \E m \in Messages : PageSends(p, m)
      PROVE  HostInv'
  BY <1>3, ReaderSteps, LinkKeeps DEF Reads, Threads
<1>4. CASE Main
  BY <1>4, BootKeeps, UnwindKeeps, OtherKeeps, LinkKeeps DEF Main, Threads
<1>5. CASE RollsBack \/ RebootFires \/ Interrupt
  BY <1>5, BootKeeps, OtherKeeps
<1> QED
  BY <1>1, <1>2, <1>3, <1>4, <1>5 DEF Next

LEMMA HostInvariant == Spec => []HostInv
<1>1. HostInv /\ [Next]_vars => HostInv'
  BY HostInvStep
<1> QED
  BY <1>1, HostInvInit, PTL DEF Spec

-----------------------------------------------------------------------------
\* The simulator's state stays of its types.
THEOREM HostTypesCorrect == Spec => []TypeOK
<1>1. HostInv => TypeOK
  BY DEF HostInv
<1> QED
  BY <1>1, HostInvariant, PTL

\* When stop() returns, the accept thread and every reader have ended, and none of them
\* can call into the host (Server::stop).
THEOREM StoppedMeansJoinedCorrect == Spec => []StoppedMeansJoined
<1>1. HostInv => StoppedMeansJoined
  BY DEF HostInv
<1> QED
  BY <1>1, HostInvariant, PTL

\* Only the current client, or the one the accept thread is about to cut off, has an open
\* socket (Server::accept_loop).
THEOREM OneClientCorrect == Spec => []OneClient
<1>1. HostInv => OneClient
  BY DEF HostInv
<1> QED
  BY <1>1, HostInvariant, PTL

\* No request reaches the service of a boot that is gone (Unlink, Host::clear_link).
THEOREM LinkServesCorrect == Spec => []LinkServes
<1>1. HostInv => LinkServes
  BY DEF HostInv, Linked, LinkServes
<1> QED
  BY <1>1, HostInvariant, PTL

\* A mode that was saved is the one that runs, or a restart is under way
\* (on_mode_changed, Host::request_restart).
THEOREM ModeFollowsCorrect == Spec => []ModeFollows
<1>1. HostInv => ModeFollows
  BY DEF HostInv, Mode, Linked, ModeFollows
<1> QED
  BY <1>1, HostInvariant, PTL
=============================================================================
