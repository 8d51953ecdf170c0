------------------------ MODULE FirmwareUpdateProofs ------------------------
(***************************************************************************)
(* The device never loses its last bootable image, settles by itself, and  *)
(* never accepts by itself an image it has not started, for every          *)
(* crash-loop threshold, every log length and whatever ResetLog::save()    *)
(* returns.                                                                *)
(***************************************************************************)
EXTENDS FirmwareUpdate, TLAPS

\* A slot that is to be tried, or is on trial, has a complete image beside it.
TrialsBacked == \A s \in Slots : state[s] \in {"new", "pending"} => image[Other(s)] = "full"

\* Once the bootloader has run, no image waits to be tried in the running slot,
\* and only the running image can be on trial.
BootSwept ==
  phase # "reset" => state[running] # "new" /\ \A s \in Slots : state[s] = "pending" => s = running

\* The image the handover has decided for stays complete until it is set.
HandoverTarget == phase = "switch" => image[Other(running)] = "full"

FlashInv == FlashTypeOK /\ AlwaysBootable /\ TrialsBacked /\ BootSwept /\ HandoverTarget

-----------------------------------------------------------------------------
\* There are two slots, and each is the other's other.
LEMMA OtherSlot == \A s \in Slots : Other(s) \in Slots /\ Other(s) # s /\ Other(Other(s)) = s
  BY SMT DEF Slots, Other

\* The bootloader starts a complete image and leaves none on trial but that one.
LEMMA BootloaderKeeps ==
  ASSUME FlashInv, StartBootloader
  PROVE  FlashInv'
<1> DEFINE swept == [s \in Slots |-> IF state[s] = "pending" THEN "aborted" ELSE state[s]]
           next  == IF state[boot] = "pending" /\ image[Other(boot)] = "full"
                      THEN Other(boot) ELSE boot
<1>1. /\ boot' = next /\ running' = next /\ image' = image
      /\ state' = IF swept[next] = "new" THEN [swept EXCEPT ![next] = "pending"] ELSE swept
      /\ phase' = "record"
  BY DEF StartBootloader, Bootloader
<1>2. /\ image \in [Slots -> Images] /\ state \in [Slots -> States]
      /\ boot \in Slots /\ running \in Slots
      /\ image[running] = "full" /\ image[boot] = "full"
  BY DEF FlashInv, FlashTypeOK, AlwaysBootable
<1>3. next \in Slots /\ image[next] = "full"
  BY <1>2, OtherSlot
<1>4. swept \in [Slots -> States] /\ \A s \in Slots : swept[s] # "pending"
  BY <1>2 DEF States
<1>5. state' \in [Slots -> States]
  BY <1>1, <1>3, <1>4 DEF States
<1>6. FlashTypeOK' /\ AlwaysBootable'
  BY <1>1, <1>2, <1>3, <1>5 DEF FlashTypeOK, AlwaysBootable
<1>7. BootSwept'
  BY <1>1, <1>3, <1>4 DEF BootSwept
<1>8. TrialsBacked'
  <2> SUFFICES ASSUME NEW s \in Slots, state'[s] \in {"new", "pending"}
               PROVE  image'[Other(s)] = "full"
    BY DEF TrialsBacked
  <2>1. state[s] = "new"
    BY <1>1, <1>3, <1>4
  <2> QED
    BY <2>1, <1>1 DEF FlashInv, TrialsBacked
<1> QED
  BY <1>1, <1>6, <1>7, <1>8 DEF FlashInv, HandoverTarget

\* The slot operations of a running boot keep the invariant; so do all the steps
\* that leave the slots alone.
LEMMA SlotsKept ==
  ASSUME FlashInv, UNCHANGED flashVars,
         phase' = "reset" \/ phase # "reset",
         phase' = "switch" => phase = "switch" \/ image[Other(running)] = "full"
  PROVE  FlashInv'
BY DEF FlashInv, flashVars, FlashTypeOK, AlwaysBootable, TrialsBacked, BootSwept, HandoverTarget

\* Selecting a complete image keeps the slots well formed
\* (esp_ota_set_boot_partition).
LEMMA SetBootKeeps ==
  ASSUME FlashInv, SetBoot(Other(running)), image[Other(running)] = "full",
         phase # "reset", phase' # "switch" \/ phase' = phase
  PROVE  FlashInv'
BY OtherSlot
   DEF FlashInv, SetBoot, FlashTypeOK, States, AlwaysBootable, TrialsBacked, BootSwept,
       HandoverTarget

\* Accepting the running image keeps them well formed (MARK_VALID).
LEMMA MarkValidKeeps ==
  ASSUME FlashInv, MarkRunningValid, phase # "reset", phase' # "switch" \/ phase' = phase
  PROVE  FlashInv'
BY OtherSlot
   DEF FlashInv, MarkRunningValid, FlashTypeOK, States, AlwaysBootable, TrialsBacked, BootSwept,
       HandoverTarget

\* Rejecting the running image leaves the other one to boot.
LEMMA MarkInvalidKeeps ==
  ASSUME FlashInv, MarkRunningInvalid, phase' = "reset"
  PROVE  FlashInv'
BY OtherSlot
   DEF FlashInv, MarkRunningInvalid, RollbackPossible, FlashTypeOK, States, AlwaysBootable,
       TrialsBacked, BootSwept, HandoverTarget

-----------------------------------------------------------------------------
\* Every step of a boot keeps the slots well formed.
LEMMA BootKeeps == FlashInv /\ Boot => FlashInv'
<1> SUFFICES ASSUME FlashInv, Boot PROVE FlashInv'
  OBVIOUS
<1>1. CASE StartBootloader
  BY <1>1, BootloaderKeeps
<1>2. CASE \E saved \in SaveOutcomes : RecordReset(saved)
  BY <1>2, SlotsKept DEF RecordReset
<1>3. CASE TakeMarker
  BY <1>3, SlotsKept DEF TakeMarker, HandsOver
<1>4. CASE HandOver
  BY <1>4, SetBootKeeps DEF HandOver, FlashInv, HandoverTarget
<1>5. CASE MarkHandover
  BY <1>5, SlotsKept DEF MarkHandover
<1>6. CASE HandoverRestart
  BY <1>6, SlotsKept DEF HandoverRestart, ResetBy
<1>7. CASE AcceptAfterHandover
  BY <1>7, MarkValidKeeps, SlotsKept DEF AcceptAfterHandover
<1> QED
  BY <1>1, <1>2, <1>3, <1>4, <1>5, <1>6, <1>7 DEF Boot

\* So does every step of the health check.
LEMMA RunKeeps == FlashInv /\ (InitSucceeds \/ InitFails \/ Run) => FlashInv'
<1> SUFFICES ASSUME FlashInv, InitSucceeds \/ InitFails \/ Run PROVE FlashInv'
  OBVIOUS
<1>1. CASE InitSucceeds
  BY <1>1, SlotsKept DEF InitSucceeds
<1>2. CASE InitFails
  BY <1>2, MarkInvalidKeeps, SlotsKept DEF InitFails, ResetBy
<1>3. CASE HealthConfirmed \/ HealthDeadline \/ HealthRollBack \/ RollbackFails
  BY <1>3, SlotsKept
     DEF HealthConfirmed, HealthDeadline, HealthRollBack, RollbackFails, Health, bootVars
<1>4. CASE RollbackReboots
  BY <1>4, MarkInvalidKeeps DEF RollbackReboots, ResetBy
<1>5. CASE Reboot
  BY <1>5, SlotsKept DEF Reboot, ResetBy
<1> QED
  BY <1>1, <1>2, <1>3, <1>4, <1>5 DEF Run

\* An upload touches the other slot only, and only while the running image is
\* neither on trial nor to be tried.
LEMMA UploadKeeps == FlashInv /\ (OtaBegin \/ OtaData \/ \E q \in BOOLEAN : OtaFinish(q)) => FlashInv'
<1> SUFFICES ASSUME FlashInv, OtaBegin \/ OtaData \/ \E q \in BOOLEAN : OtaFinish(q) PROVE FlashInv'
  OBVIOUS
<1> USE OtherSlot
    DEF FlashInv, FlashTypeOK, Images, States, AlwaysBootable, TrialsBacked, BootSwept,
        HandoverTarget, Handled, bootVars
<1>1. CASE OtaBegin
  BY <1>1 DEF OtaBegin, EraseOther, PendingVerify
<1>2. CASE OtaData
  BY <1>2 DEF OtaData, WriteDescriptor
<1>3. CASE \E q \in BOOLEAN : OtaFinish(q)
  BY <1>3 DEF OtaFinish, CommitImage
<1> QED
  BY <1>1, <1>2, <1>3

\* So does every request of the host.
LEMMA HostKeeps == FlashInv /\ Host => FlashInv'
<1> SUFFICES ASSUME FlashInv, Host PROVE FlashInv'
  OBVIOUS
<1>1. CASE OtaBegin \/ OtaData \/ \E q \in BOOLEAN : OtaFinish(q)
  BY <1>1, UploadKeeps
<1>2. CASE \E q \in BOOLEAN : Revert(q)
  BY <1>2, SetBootKeeps DEF Revert, Handled, bootVars
<1>3. CASE MarkValid
  BY <1>3, MarkValidKeeps DEF MarkValid, Handled, bootVars
<1>4. CASE OtaEnds \/ Restart
  BY <1>4, SlotsKept DEF OtaEnds, Restart, Handled, bootVars
<1> QED
  BY <1>1, <1>2, <1>3, <1>4 DEF Host

-----------------------------------------------------------------------------
\* The device leaves the factory with well-formed slots.
LEMMA FlashInvInit == Init => FlashInv
BY OtherSlot
   DEF Init, FlashInit, FlashInv, FlashTypeOK, Slots, Images, States, AlwaysBootable, TrialsBacked,
       BootSwept, HandoverTarget

\* Every step of the specification keeps them.
LEMMA FlashInvNext == FlashInv /\ [Next]_vars => FlashInv'
<1> SUFFICES ASSUME FlashInv, [Next]_vars PROVE FlashInv'
  OBVIOUS
<1>1. CASE \E why \in Reasons : AnyReset(why)
  BY <1>1, SlotsKept DEF AnyReset, ResetBy
<1>2. CASE UNCHANGED vars
  BY <1>2 DEF vars, bootVars, flashVars, FlashInv, FlashTypeOK, AlwaysBootable, TrialsBacked,
              BootSwept, HandoverTarget
<1> QED
  BY <1>1, <1>2, BootKeeps, RunKeeps, HostKeeps DEF Next

\* The inductive invariant of the slots.
LEMMA FlashInvariant == Spec => []FlashInv
<1>1. FlashInv /\ [Next]_vars => FlashInv'
  BY FlashInvNext
<1> QED
  BY <1>1, FlashInvInit, PTL DEF Spec

\* Whatever is uploaded, aborted, rolled back or reset, in any order: the slot
\* that runs and the slot that is to boot hold complete images.
THEOREM AlwaysBootableCorrect == Spec => []AlwaysBootable
<1>1. FlashInv => AlwaysBootable
  BY DEF FlashInv
<1> QED
  BY <1>1, FlashInvariant, PTL

\* An image on trial is the running one, and the image in the other slot is complete:
\* esp_ota_begin() cannot erase it before the trial ends.
THEOREM TrialHasFallbackCorrect == Spec => []TrialHasFallback
<1>1. FlashInv => TrialHasFallback
  BY DEF FlashInv, BootSwept, TrialsBacked, TrialHasFallback
<1> QED
  BY <1>1, FlashInvariant, PTL

-----------------------------------------------------------------------------
(***************************************************************************)
(* What the firmware accepts on its own has run before.  An image that was *)
(* never started can only be the boot slot's, and the decision to hand     *)
(* over is taken while the boot slot is the running one: so the handover's *)
(* target has run, and the boot it starts is at least its second.          *)
(***************************************************************************)
Started ==
  /\ ran \in [Slots -> 0..MaxRan]
  /\ phase # "reset" => ran[running] > 0
  /\ \A s \in Slots : state[s] = "pending" => ran[s] > 0
  /\ \A s \in Slots : image[s] = "full" /\ ran[s] = 0 => boot = s

\* Until the handover switches slots, the boot slot is the one that runs.
Deciding ==
  /\ phase \in {"record", "marker", "switch"} => boot = running
  /\ phase = "switch" => ~PendingVerify

\* From the switch until the marker is taken, what is tried has run before.
HandingOver == phase = "switched" \/ marker = "requested"
HandoverRan ==
  HandingOver =>
    /\ phase \in {"switched", "restart", "reset", "record", "marker"}
    /\ \A s \in Slots : /\ state[s] = "new" => ran[s] > 0
                        /\ state[s] = "pending" => ran[s] > 1

RanInv == Started /\ Deciding /\ HandoverRan /\ AcceptedRanBefore

\* A start counts, and MaxRan leaves room for a second one.
LEMMA BootloaderCounts ==
  ASSUME FlashInv, RanInv, StartBootloader
  PROVE  RanInv'
<1> DEFINE swept == [s \in Slots |-> IF state[s] = "pending" THEN "aborted" ELSE state[s]]
           next  == IF state[boot] = "pending" /\ image[Other(boot)] = "full"
                      THEN Other(boot) ELSE boot
<1>1. /\ boot' = next /\ running' = next /\ image' = image
      /\ state' = IF swept[next] = "new" THEN [swept EXCEPT ![next] = "pending"] ELSE swept
      /\ phase = "reset" /\ phase' = "record" /\ marker' = marker
      /\ ran' = [ran EXCEPT ![next] = IF @ < MaxRan THEN @ + 1 ELSE @]
  BY DEF StartBootloader, Bootloader
<1>2. /\ state \in [Slots -> States] /\ boot \in Slots /\ ran \in [Slots -> 0..MaxRan]
      /\ MaxRan \in Nat /\ MaxRan > 1
  BY LimitsAssumption DEF FlashInv, FlashTypeOK, RanInv, Started, MaxRan
<1>3. next \in Slots
  BY <1>2, OtherSlot
<1>4. /\ ran' \in [Slots -> 0..MaxRan]
      /\ ran'[next] > 0
      /\ ran[next] > 0 => ran'[next] > 1
      /\ \A s \in Slots : s # next => ran'[s] = ran[s]
  BY <1>1, <1>2, <1>3
<1>5. \A s \in Slots : state'[s] = "pending" => s = next /\ state[s] = "new"
  BY <1>1, <1>2, <1>3
<1>6. \A s \in Slots : state'[s] = "new" => state[s] = "new"
  BY <1>1, <1>2, <1>3
<1>7. \A s \in Slots : image[s] = "full" /\ ran'[s] = 0 => next = s
  <2>1. next # boot => state[boot] = "pending"
    OBVIOUS
  <2> QED
    BY <2>1, <1>2, <1>4 DEF RanInv, Started
<1>8. Started'
  BY <1>1, <1>4, <1>5, <1>7 DEF Started, MaxRan
<1>9. Deciding'
  BY <1>1 DEF Deciding
<1>10. HandoverRan'
  BY <1>1, <1>3, <1>4, <1>5, <1>6 DEF RanInv, HandoverRan, HandingOver
<1> QED
  BY <1>1, <1>8, <1>9, <1>10 DEF RanInv, AcceptedRanBefore

\* There are only two slots.
LEMMA TwoSlots == running \in Slots => \A s \in Slots : s = running \/ s = Other(running)
  BY SMT DEF Slots, Other

\* Outside a handover, the history only has to say what was started.
LEMMA QuietCounts ==
  ASSUME RanInv, phase \in {"init", "running"}, phase' \in {"reset", "running"},
         marker' \in {marker, "none"}, Started'
  PROVE  RanInv'
BY DEF RanInv, Deciding, HandoverRan, HandingOver, AcceptedRanBefore

\* Rejecting the running image leaves a boot slot that is started next.
LEMMA RejectCounts ==
  ASSUME FlashInv, RanInv, phase \in {"init", "running"}, MarkRunningInvalid, ResetBy("other")
  PROVE  RanInv'
<1>1. /\ boot' = Other(running) /\ state' = [state EXCEPT ![running] = "invalid"]
      /\ ran[running] > 0 /\ running \in Slots /\ state \in [Slots -> States]
      /\ UNCHANGED <<image, running, ran>> /\ phase' = "reset" /\ marker' = marker
  BY DEF MarkRunningInvalid, ResetBy, FlashInv, FlashTypeOK, RanInv, Started
<1>2. Started'
  BY <1>1, TwoSlots, OtherSlot DEF RanInv, Started, MaxRan
<1> QED
  BY <1>1, <1>2, QuietCounts

\* The rest of the boot: the handover's decision, its marker and the acceptance.
LEMMA BootCounts == FlashInv /\ RanInv /\ Boot => RanInv'
<1> SUFFICES ASSUME FlashInv, RanInv, Boot PROVE RanInv'
  OBVIOUS
<1> USE OtherSlot
    DEF RanInv, Started, Deciding, HandoverRan, HandingOver, AcceptedRanBefore, PendingVerify,
        flashVars, bootVars, historyVars, ramVars
<1>1. CASE StartBootloader
  BY <1>1, BootloaderCounts
<1>2. CASE \E saved \in SaveOutcomes : RecordReset(saved)
  BY <1>2 DEF RecordReset
<1>3. CASE TakeMarker
  <2>1. /\ phase = "marker" /\ phase' \in {"switch", "accept"} /\ marker' \in {"done", "none"}
        /\ by_handover' => marker = "requested"
        /\ phase' = "switch" => ~PendingVerify
        /\ UNCHANGED <<flashVars, historyVars>>
    BY <1>3 DEF TakeMarker, HandsOver
  <2>2. Started' /\ Deciding' /\ HandoverRan'
    BY <2>1
  <2>3. AcceptedRanBefore'
    BY <2>1 DEF FlashInv, FlashTypeOK
  <2> QED
    BY <2>2, <2>3
<1>4. CASE HandOver
  <2>1. /\ phase = "switch" /\ phase' = "switched" /\ boot = running /\ boot' = Other(running)
        /\ state' = [state EXCEPT ![Other(running)] = "new"]
        /\ image[Other(running)] = "full" /\ state[running] \notin {"new", "pending"}
        /\ state \in [Slots -> States] /\ running \in Slots
        /\ UNCHANGED <<image, running, historyVars>>
    BY <1>4 DEF HandOver, SetBoot, FlashInv, FlashTypeOK, BootSwept, HandoverTarget
  <2>2. ran[Other(running)] > 0 /\ ran[running] > 0
    BY <2>1
  <2>3. \A s \in Slots : s = running \/ s = Other(running)
    BY SMT DEF Slots, Other, FlashInv, FlashTypeOK
  <2>4. Started'
    BY <2>1, <2>2, <2>3
  <2>5. HandoverRan'
    BY <2>1, <2>2, <2>3
  <2> QED
    BY <2>1, <2>4, <2>5
<1>5. CASE MarkHandover
  BY <1>5 DEF MarkHandover
<1>6. CASE HandoverRestart
  BY <1>6 DEF HandoverRestart, ResetBy
<1>7. CASE AcceptAfterHandover
  BY <1>7 DEF AcceptAfterHandover, MarkRunningValid, FlashInv, FlashTypeOK
<1> QED
  BY <1>1, <1>2, <1>3, <1>4, <1>5, <1>6, <1>7 DEF Boot

\* No handover is under way once the loop runs, so its steps and the host's
\* only have to keep the count of what was started.
LEMMA RunCounts ==
  FlashInv /\ RanInv /\ (InitSucceeds \/ InitFails \/ Run \/ \E why \in Reasons : AnyReset(why))
    => RanInv'
<1> SUFFICES ASSUME FlashInv, RanInv,
                    InitSucceeds \/ InitFails \/ Run \/ \E why \in Reasons : AnyReset(why)
             PROVE  RanInv'
  OBVIOUS
<1> USE OtherSlot
    DEF RanInv, Started, Deciding, HandoverRan, HandingOver, AcceptedRanBefore, PendingVerify,
        flashVars, bootVars, historyVars, ramVars
<1>1. CASE InitSucceeds
  BY <1>1 DEF InitSucceeds
<1>2. CASE InitFails
  <2>1. CASE PendingVerify /\ RollbackPossible
    BY <1>2, <2>1, RejectCounts DEF InitFails
  <2>2. CASE ~(PendingVerify /\ RollbackPossible)
    BY <1>2, <2>2 DEF InitFails
  <2> QED
    BY <2>1, <2>2
<1>3. CASE HealthConfirmed \/ HealthDeadline \/ HealthRollBack \/ RollbackFails
  BY <1>3 DEF HealthConfirmed, HealthDeadline, HealthRollBack, RollbackFails, Health
<1>4. CASE RollbackReboots
  BY <1>4, RejectCounts DEF RollbackReboots
<1>5. CASE Reboot
  BY <1>5 DEF Reboot, ResetBy
<1>6. CASE \E why \in Reasons : AnyReset(why)
  BY <1>6 DEF AnyReset, ResetBy
<1> QED
  BY <1>1, <1>2, <1>3, <1>4, <1>5, <1>6 DEF Run

\* The host's requests erase, write or select the slot that does not run.
LEMMA HostCounts == FlashInv /\ RanInv /\ Host => RanInv'
<1> SUFFICES ASSUME FlashInv, RanInv, Host PROVE Started'
  BY QuietCounts
     DEF Host, OtaBegin, OtaData, OtaEnds, OtaFinish, Revert, MarkValid, Restart, Handled, bootVars
<1>1. /\ phase # "reset" /\ phase' # "reset" /\ UNCHANGED running
      /\ running \in Slots /\ Other(running) \in Slots /\ Other(running) # running
      /\ \A s \in Slots : s = running \/ s = Other(running)
      /\ image \in [Slots -> Images] /\ state \in [Slots -> States]
      /\ Started
  BY TwoSlots, OtherSlot
     DEF FlashInv, FlashTypeOK, RanInv, Host, OtaBegin, OtaData, OtaEnds, OtaFinish, Revert,
         MarkValid, Restart, Handled, bootVars, flashVars, EraseOther, WriteDescriptor,
         CommitImage, SetBoot, MarkRunningValid
<1> USE <1>1 DEF Started, historyVars
<1>2. CASE OtaBegin
  <2>1. ran' \in [Slots -> 0..MaxRan]
    BY <1>2, LimitsAssumption DEF OtaBegin, MaxRan
  <2> QED
    BY <1>2, <2>1 DEF OtaBegin, EraseOther, MaxRan
<1>3. CASE OtaData
  BY <1>3 DEF OtaData, WriteDescriptor, MaxRan
<1>4. CASE \E q \in BOOLEAN : OtaFinish(q)
  BY <1>4 DEF OtaFinish, CommitImage, MaxRan
<1>5. CASE \E q \in BOOLEAN : Revert(q)
  BY <1>5 DEF Revert, SetBoot, MaxRan
<1>6. CASE MarkValid
  BY <1>6 DEF MarkValid, MarkRunningValid, MaxRan
<1>7. CASE OtaEnds \/ Restart
  BY <1>7 DEF OtaEnds, Restart, flashVars, MaxRan
<1> QED
  BY <1>2, <1>3, <1>4, <1>5, <1>6, <1>7 DEF Host

\* The inductive invariant of what has been started.
LEMMA RanInvariant == Spec => []RanInv
<1>1. Init => RanInv
  BY LimitsAssumption
     DEF Init, FlashInit, Slots, RanInv, Started, Deciding, HandoverRan, HandingOver,
         AcceptedRanBefore, MaxRan
<1>2. FlashInv /\ RanInv /\ [Next]_vars => RanInv'
  <2> SUFFICES ASSUME FlashInv, RanInv, [Next]_vars PROVE RanInv'
    OBVIOUS
  <2>1. CASE UNCHANGED vars
    BY <2>1 DEF vars, bootVars, historyVars, flashVars, RanInv, Started, Deciding, HandoverRan,
                HandingOver, AcceptedRanBefore, PendingVerify
  <2> QED
    BY <2>1, BootCounts, RunCounts, HostCounts DEF Next
<1> QED
  BY <1>1, <1>2, FlashInvariant, PTL DEF Spec

\* The image a handover boots and the firmware then confirms without the host
\* has been started before: it never accepts a fresh upload by itself.
THEOREM AcceptedRanBeforeCorrect == Spec => []AcceptedRanBefore
<1>1. RanInv => AcceptedRanBefore
  BY DEF RanInv
<1> QED
  BY <1>1, RanInvariant, PTL

-----------------------------------------------------------------------------
(***************************************************************************)
(* The device settles on its own.  From every state there is a number of   *)
(* slot changes it can still make unless the host chooses or the power     *)
(* goes: two when an image waits to be tried or a handover is still to     *)
(* come, one when a trial or a rollback may fail, none when the other slot *)
(* was rejected or the handover is spent.                                  *)
(***************************************************************************)
Rejected(s) == state[s] \in {"invalid", "aborted"}

MayHandOver == marker = "none" /\ image[Other(running)] = "full" /\ ~Rejected(Other(running))

MayRollBack == check = "rollback" /\ state[Other(running)] = "valid"

SwitchesLeft ==
  CASE boot # running -> IF state[boot] = "new" THEN 2 ELSE 1
    [] boot = running /\ PendingVerify -> 1
    [] boot = running /\ ~PendingVerify ->
         IF MayHandOver THEN 2 ELSE IF MayRollBack THEN 1 ELSE 0

\* An image to be tried is the boot slot's, one on trial runs, and a boot slot set by a
\* rollback leaves a rejected image behind.
SlotsSettled ==
  /\ \A s \in Slots : /\ state[s] = "pending" => s = running
                      /\ state[s] = "new" => s = boot /\ s # running
  /\ boot # running /\ state[boot] # "new" => phase = "reset" /\ Rejected(running)

\* The marker lasts until the power goes, and what was decided from it stands.
MarkerTaken ==
  /\ marker \in {"none", "requested", "done"}
  /\ reason = "power_on" /\ phase \in {"reset", "record", "marker"} => marker = "none"
  /\ by_handover /\ phase = "accept" => marker = "done"
  /\ phase = "switch" => MayHandOver
  /\ check # "off" => phase = "running"

SwitchInv ==
  /\ SlotsSettled /\ MarkerTaken
  /\ switches \in Nat /\ switches + SwitchesLeft <= MaxSwitches

-----------------------------------------------------------------------------
\* What there is left is a number, two at most.
LEMMA LeftBounded ==
  ASSUME TRUE
  PROVE  SwitchesLeft \in 0..2 /\ SwitchesLeft' \in 0..2
BY DEF SwitchesLeft

\* A choice of the host, or the loss of power, starts the count again.
LEMMA CountedAfresh ==
  ASSUME switches' = 0, SlotsSettled', MarkerTaken'
  PROVE  SwitchInv'
BY LeftBounded DEF SwitchInv, MaxSwitches

\* A step that changes no slot and leaves the marker alone brings no switch back.
LEMMA NoneBrought ==
  ASSUME SwitchInv, UNCHANGED <<flashVars, marker, switches>>,
         phase # "reset" \/ phase' = "reset", check' = check \/ check' # "rollback",
         MarkerTaken'
  PROVE  SwitchInv'
<1>1. SlotsSettled'
  BY DEF SwitchInv, SlotsSettled, flashVars, Rejected
<1>2. SwitchesLeft' <= SwitchesLeft
  BY DEF SwitchesLeft, MayHandOver, MayRollBack, PendingVerify, Rejected, flashVars
<1> QED
  BY <1>1, <1>2, LeftBounded DEF SwitchInv, MaxSwitches

\* A switch uses one up.
LEMMA BootloaderSwitches ==
  ASSUME FlashInv, SwitchInv, StartBootloader
  PROVE  SwitchInv'
<1> DEFINE swept == [s \in Slots |-> IF state[s] = "pending" THEN "aborted" ELSE state[s]]
           next  == IF state[boot] = "pending" /\ image[Other(boot)] = "full"
                      THEN Other(boot) ELSE boot
<1>1. /\ boot' = next /\ running' = next /\ image' = image
      /\ state' = IF swept[next] = "new" THEN [swept EXCEPT ![next] = "pending"] ELSE swept
      /\ phase = "reset" /\ phase' = "record" /\ UNCHANGED <<marker, reason, by_handover, check>>
      /\ switches' = IF next = running \/ switches > MaxSwitches THEN switches ELSE switches + 1
  BY DEF StartBootloader, Bootloader, ramVars
<1>2. /\ state \in [Slots -> States] /\ boot \in Slots /\ running \in Slots
      /\ next \in Slots /\ check = "off"
  BY <1>1, OtherSlot DEF FlashInv, FlashTypeOK, SwitchInv, MarkerTaken
<1>3. MarkerTaken'
  BY <1>1, <1>2 DEF SwitchInv, MarkerTaken
<1>4. CASE boot # running /\ state[boot] = "new"
  <2>1. next = boot /\ state' = [swept EXCEPT ![boot] = "pending"]
    BY <1>1, <1>2, <1>4
  <2>2. SlotsSettled'
    BY <1>1, <1>2, <1>4, <2>1 DEF SwitchInv, SlotsSettled
  <2>3. SwitchesLeft = 2 /\ SwitchesLeft' = 1
    BY <1>1, <1>2, <1>4, <2>1 DEF SwitchesLeft, PendingVerify
  <2> QED
    BY <1>1, <1>3, <2>2, <2>3 DEF SwitchInv, MaxSwitches
<1>5. CASE boot # running /\ state[boot] # "new"
  <2>1. Rejected(running) /\ state[boot] # "pending" /\ Other(boot) = running
    BY <1>2, <1>5, TwoSlots, OtherSlot DEF SwitchInv, SlotsSettled
  <2>2. next = boot /\ state' = swept /\ \A s \in Slots : swept[s] = state[s]
    BY <1>1, <1>2, <1>5, <2>1 DEF SwitchInv, SlotsSettled, Rejected
  <2>3. SlotsSettled'
    BY <1>1, <1>2, <1>5, <2>1, <2>2 DEF SwitchInv, SlotsSettled, Rejected
  <2>4. SwitchesLeft = 1 /\ SwitchesLeft' = 0
    BY <1>1, <1>2, <1>5, <2>1, <2>2
       DEF SwitchesLeft, PendingVerify, MayHandOver, MayRollBack, Rejected
  <2> QED
    BY <1>1, <1>3, <2>3, <2>4 DEF SwitchInv, MaxSwitches
<1>6. CASE boot = running /\ PendingVerify
  <2>1. next = Other(running) /\ Other(next) = running /\ next # running
    BY <1>2, <1>6, OtherSlot DEF FlashInv, TrialsBacked, PendingVerify
  <2>2. state[next] \notin {"new", "pending"}
    BY <1>2, <1>6, <2>1 DEF SwitchInv, SlotsSettled
  <2>3. state' = swept /\ swept[running] = "aborted" /\ swept[next] = state[next]
    BY <1>1, <1>2, <1>6, <2>1, <2>2 DEF PendingVerify
  <2>4. SlotsSettled'
    BY <1>1, <1>2, <1>6, <2>1, <2>2, <2>3 DEF SwitchInv, SlotsSettled
  <2>5. SwitchesLeft = 1 /\ SwitchesLeft' = 0
    BY <1>1, <1>2, <1>6, <2>1, <2>2, <2>3
       DEF SwitchesLeft, PendingVerify, MayHandOver, MayRollBack, Rejected
  <2> QED
    BY <1>1, <1>3, <2>4, <2>5 DEF SwitchInv, MaxSwitches
<1>7. CASE boot = running /\ ~PendingVerify
  <2>1. next = running /\ \A s \in Slots : swept[s] = state[s] /\ state[s] # "new"
    BY <1>2, <1>7 DEF SwitchInv, SlotsSettled, PendingVerify
  <2>2. state' = state
    BY <1>1, <1>2, <2>1
  <2>3. SlotsSettled'
    BY <1>1, <1>7, <2>1, <2>2 DEF SwitchInv, SlotsSettled
  <2>4. SwitchesLeft' = SwitchesLeft
    BY <1>1, <1>7, <2>1, <2>2
       DEF SwitchesLeft, PendingVerify, MayHandOver, MayRollBack, Rejected
  <2> QED
    BY <1>1, <1>3, <2>1, <2>3, <2>4 DEF SwitchInv
<1> QED
  BY <1>4, <1>5, <1>6, <1>7

\* A rollback goes back once: to the image that replaced, or to one asked for meanwhile.
LEMMA RollbackSwitches ==
  ASSUME FlashInv, SwitchInv, phase \in {"init", "running"}, MarkRunningInvalid, ResetBy("other"),
         PendingVerify \/ check = "rollback"
  PROVE  SwitchInv'
<1>1. /\ state[Other(running)] \in {"new", "pending", "valid"}
      /\ state' = [state EXCEPT ![running] = "invalid"] /\ boot' = Other(running)
      /\ UNCHANGED <<image, running, marker, switches>>
      /\ phase' = "reset" /\ reason' = "other" /\ by_handover' = FALSE /\ check' = "off"
  BY DEF MarkRunningInvalid, RollbackPossible, ResetBy
<1>2. /\ state \in [Slots -> States] /\ boot \in Slots /\ running \in Slots
      /\ Other(running) \in Slots /\ Other(running) # running
      /\ \A s \in Slots : s = running \/ s = Other(running)
  BY OtherSlot, TwoSlots DEF FlashInv, FlashTypeOK
<1>3. MarkerTaken'
  BY <1>1 DEF SwitchInv, MarkerTaken
<1>4. SlotsSettled'
  BY <1>1, <1>2 DEF SwitchInv, SlotsSettled, Rejected
<1>5. CASE state[Other(running)] = "new"
  <2>1. boot = Other(running)
    BY <1>2, <1>5 DEF SwitchInv, SlotsSettled
  <2>2. SwitchesLeft = 2
    BY <1>2, <1>5, <2>1 DEF SwitchesLeft
  <2> QED
    BY <1>1, <1>3, <1>4, <2>2, LeftBounded DEF SwitchInv, MaxSwitches
<1>6. CASE state[Other(running)] # "new"
  <2>1. state[Other(running)] = "valid" /\ boot = running
    BY <1>1, <1>2, <1>6 DEF SwitchInv, SlotsSettled
  <2>2. SwitchesLeft >= 1
    BY <2>1 DEF SwitchesLeft, MayRollBack
  <2>3. SwitchesLeft' = 1
    BY <1>1, <1>2, <2>1 DEF SwitchesLeft
  <2> QED
    BY <1>1, <1>3, <1>4, <2>2, <2>3, LeftBounded DEF SwitchInv, MaxSwitches
<1> QED
  BY <1>5, <1>6

LEMMA BootSwitches ==
  ASSUME FlashInv, RanInv, SwitchInv, Boot
  PROVE  SwitchInv'
<1> USE DEF ramVars, historyVars
<1>1. CASE StartBootloader
  BY <1>1, BootloaderSwitches
<1>2. CASE \E saved \in SaveOutcomes : RecordReset(saved)
  <2>1. MarkerTaken'
    BY <1>2 DEF RecordReset, SwitchInv, MarkerTaken
  <2> QED
    BY <1>2, <2>1, NoneBrought DEF RecordReset
<1>3. CASE TakeMarker
  <2>1. /\ phase = "marker" /\ phase' \in {"accept", "switch"}
        /\ UNCHANGED <<flashVars, reason, check, switches>>
        /\ by_handover' => marker' = "done"
        /\ marker' = IF marker = "none" THEN "none" ELSE "done"
        /\ phase' = "switch" => marker = "none" /\ HandsOver
    BY <1>3 DEF TakeMarker, SwitchInv, MarkerTaken
  <2>2. MarkerTaken'
    BY <2>1 DEF SwitchInv, MarkerTaken, HandsOver, MayHandOver, Rejected, flashVars
  <2>3. SlotsSettled'
    BY <2>1 DEF SwitchInv, SlotsSettled, flashVars, Rejected
  <2>4. SwitchesLeft' = SwitchesLeft
    BY <2>1 DEF SwitchesLeft, MayHandOver, MayRollBack, PendingVerify, Rejected, flashVars
  <2> QED
    BY <2>1, <2>2, <2>3, <2>4 DEF SwitchInv
<1>4. CASE HandOver
  <2>1. boot = running /\ ~PendingVerify /\ MayHandOver
    BY <1>4 DEF HandOver, RanInv, Deciding, SwitchInv, MarkerTaken
  <2>2. SwitchesLeft = 2
    BY <2>1 DEF SwitchesLeft
  <2>3. /\ running \in Slots /\ Other(running) \in Slots /\ Other(running) # running
        /\ state \in [Slots -> States]
        /\ boot' = Other(running) /\ state' = [state EXCEPT ![Other(running)] = "new"]
        /\ UNCHANGED <<running, marker, check, switches>> /\ phase' = "switched"
    BY <1>4, OtherSlot DEF HandOver, SetBoot, FlashInv, FlashTypeOK
  <2>4. SlotsSettled'
    BY <2>1, <2>3, TwoSlots DEF SwitchInv, SlotsSettled
  <2>5. MarkerTaken'
    BY <1>4, <2>3 DEF HandOver, SwitchInv, MarkerTaken
  <2> QED
    BY <2>2, <2>3, <2>4, <2>5, LeftBounded DEF SwitchInv, MaxSwitches
<1>5. CASE MarkHandover
  <2>1. MarkerTaken'
    BY <1>5 DEF MarkHandover, SwitchInv, MarkerTaken
  <2>2. SlotsSettled'
    BY <1>5 DEF MarkHandover, SwitchInv, SlotsSettled, flashVars, Rejected
  <2>3. SwitchesLeft' <= SwitchesLeft
    BY <1>5 DEF MarkHandover, SwitchesLeft, MayHandOver, MayRollBack, PendingVerify, Rejected,
                flashVars
  <2> QED
    BY <1>5, <2>1, <2>2, <2>3, LeftBounded DEF MarkHandover, SwitchInv, MaxSwitches
<1>6. CASE HandoverRestart
  <2>1. MarkerTaken'
    BY <1>6 DEF HandoverRestart, ResetBy, SwitchInv, MarkerTaken
  <2> QED
    BY <1>6, <2>1, NoneBrought DEF HandoverRestart, ResetBy
<1>7. CASE AcceptAfterHandover
  <2>1. MarkerTaken'
    BY <1>7 DEF AcceptAfterHandover, SwitchInv, MarkerTaken
  <2>2. CASE ~(by_handover /\ PendingVerify)
    BY <1>7, <2>1, <2>2, NoneBrought DEF AcceptAfterHandover
  <2>3. CASE by_handover /\ PendingVerify
    <3>1. /\ state' = [state EXCEPT ![running] = "valid"] /\ phase = "accept" /\ phase' = "init"
          /\ UNCHANGED <<image, boot, running, marker, check, switches>>
          /\ marker = "done" /\ check # "rollback"
      BY <1>7, <2>3 DEF AcceptAfterHandover, MarkRunningValid, SwitchInv, MarkerTaken
    <3>2. state \in [Slots -> States] /\ running \in Slots /\ boot \in Slots
      BY DEF FlashInv, FlashTypeOK
    <3>3. SlotsSettled'
      BY <3>1, <3>2 DEF SwitchInv, SlotsSettled
    <3>4. SwitchesLeft' <= SwitchesLeft
      BY <3>1, <3>2 DEF SwitchesLeft, MayHandOver, MayRollBack, PendingVerify
    <3> QED
      BY <2>1, <3>1, <3>3, <3>4, LeftBounded DEF SwitchInv, MaxSwitches
  <2> QED
    BY <2>2, <2>3
<1> QED
  BY <1>1, <1>2, <1>3, <1>4, <1>5, <1>6, <1>7 DEF Boot

LEMMA RunSwitches ==
  ASSUME FlashInv, SwitchInv,
         InitSucceeds \/ InitFails \/ Run \/ \E why \in Reasons : AnyReset(why)
  PROVE  SwitchInv'
<1> USE DEF bootVars, ramVars, historyVars
<1>1. CASE InitSucceeds
  <2>1. MarkerTaken'
    BY <1>1 DEF InitSucceeds, SwitchInv, MarkerTaken
  <2> QED
    BY <1>1, <2>1, NoneBrought DEF InitSucceeds
<1>2. CASE InitFails /\ PendingVerify /\ RollbackPossible
  BY <1>2, RollbackSwitches DEF InitFails
<1>3. CASE InitFails /\ ~(PendingVerify /\ RollbackPossible)
  <2>1. MarkerTaken'
    BY <1>3 DEF InitFails, SwitchInv, MarkerTaken
  <2> QED
    BY <1>3, <2>1, NoneBrought DEF InitFails
<1>4. CASE HealthConfirmed \/ HealthDeadline \/ RollbackFails
  <2>1. MarkerTaken' /\ check' # "rollback"
    BY <1>4 DEF HealthConfirmed, HealthDeadline, RollbackFails, Health, SwitchInv, MarkerTaken
  <2> QED
    BY <1>4, <2>1, NoneBrought DEF HealthConfirmed, HealthDeadline, RollbackFails, Health
<1>5. CASE HealthRollBack
  <2>1. MarkerTaken'
    BY <1>5 DEF HealthRollBack, Health, SwitchInv, MarkerTaken
  <2>2. SlotsSettled'
    BY <1>5 DEF HealthRollBack, Health, SwitchInv, SlotsSettled, flashVars, Rejected
  <2>3. SwitchesLeft' = SwitchesLeft
    BY <1>5 DEF HealthRollBack, Health, SwitchesLeft, PendingVerify, flashVars
  <2> QED
    BY <1>5, <2>1, <2>2, <2>3 DEF HealthRollBack, Health, SwitchInv
<1>6. CASE RollbackReboots
  BY <1>6, RollbackSwitches DEF RollbackReboots
<1>7. ASSUME NEW why \in Reasons, ResetBy(why), UNCHANGED flashVars PROVE SwitchInv'
  <2>1. MarkerTaken'
    BY <1>7 DEF ResetBy, SwitchInv, MarkerTaken
  <2>2. CASE why = "power_on"
    <3>1. SlotsSettled'
      BY <1>7 DEF ResetBy, SwitchInv, SlotsSettled, flashVars, Rejected
    <3> QED
      BY <1>7, <2>1, <2>2, <3>1, CountedAfresh DEF ResetBy
  <2>3. CASE why # "power_on"
    BY <1>7, <2>1, <2>3, NoneBrought DEF ResetBy
  <2> QED
    BY <2>2, <2>3
<1>8. CASE Reboot \/ \E why \in Reasons : AnyReset(why)
  BY <1>7, <1>8 DEF Reboot, AnyReset, Reasons
<1> QED
  BY <1>1, <1>2, <1>3, <1>4, <1>5, <1>6, <1>8 DEF Run

LEMMA HostSwitches ==
  ASSUME FlashInv, SwitchInv, Host
  PROVE  SwitchInv'
<1> USE DEF bootVars, historyVars, Handled
<1>1. /\ state \in [Slots -> States] /\ image \in [Slots -> Images]
      /\ running \in Slots /\ boot \in Slots
      /\ Other(running) \in Slots /\ Other(running) # running
      /\ \A s \in Slots : s = running \/ s = Other(running)
  BY OtherSlot, TwoSlots DEF FlashInv, FlashTypeOK
<1>2. /\ phase = "running" /\ UNCHANGED <<phase, reason, by_handover, marker, check, running>>
  BY DEF Host, OtaBegin, OtaData, OtaEnds, OtaFinish, Revert, MarkValid, Restart, EraseOther,
         WriteDescriptor, CommitImage, SetBoot, MarkRunningValid, flashVars
<1>3. MarkerTaken'
  BY <1>2 DEF SwitchInv, MarkerTaken
<1>4. CASE OtaBegin
  <2>1. /\ image' = [image EXCEPT ![Other(running)] = "none"] /\ boot' = running
        /\ state' = [state EXCEPT ![Other(running)] = "undefined"]
        /\ ~PendingVerify /\ switches' = switches
    BY <1>4 DEF OtaBegin, EraseOther
  <2>2. SlotsSettled'
    BY <1>1, <1>2, <2>1 DEF SwitchInv, SlotsSettled
  <2>3. SwitchesLeft' = 0
    BY <1>1, <1>2, <2>1 DEF SwitchesLeft, MayHandOver, MayRollBack, PendingVerify
  <2> QED
    BY <1>3, <2>1, <2>2, <2>3, LeftBounded DEF SwitchInv, MaxSwitches
<1>5. CASE OtaData
  <2>1. /\ image[Other(running)] = "none" /\ image'[Other(running)] = "partial"
        /\ UNCHANGED <<state, boot, switches>>
    BY <1>1, <1>5 DEF OtaData, WriteDescriptor
  <2>2. SlotsSettled'
    BY <1>2, <2>1 DEF SwitchInv, SlotsSettled, Rejected
  <2>3. SwitchesLeft' = SwitchesLeft
    BY <1>2, <2>1 DEF SwitchesLeft, MayHandOver, MayRollBack, PendingVerify, Rejected
  <2> QED
    BY <1>3, <2>1, <2>2, <2>3 DEF SwitchInv
<1>6. CASE OtaEnds \/ Restart
  BY <1>2, <1>3, <1>6, NoneBrought DEF OtaEnds, Restart
<1>7. CASE \E q \in BOOLEAN : OtaFinish(q) \/ Revert(q)
  <2>1. /\ state' = [state EXCEPT ![Other(running)] = "new"] /\ boot' = Other(running)
        /\ switches' = 0
    BY <1>7 DEF OtaFinish, Revert, CommitImage, SetBoot
  <2>2. SlotsSettled'
    BY <1>1, <1>2, <2>1 DEF SwitchInv, SlotsSettled
  <2> QED
    BY <1>3, <2>1, <2>2, CountedAfresh
<1>8. CASE MarkValid
  <2>1. /\ state' = [state EXCEPT ![running] = "valid"] /\ boot' = boot /\ switches' = 0
    BY <1>8 DEF MarkValid, MarkRunningValid
  <2>2. SlotsSettled'
    BY <1>1, <1>2, <2>1 DEF SwitchInv, SlotsSettled
  <2> QED
    BY <1>3, <2>1, <2>2, CountedAfresh
<1> QED
  BY <1>4, <1>5, <1>6, <1>7, <1>8 DEF Host

\* The inductive invariant of the slot changes.
LEMMA SwitchInvariant == Spec => []SwitchInv
<1>1. Init => SwitchInv
  BY DEF Init, FlashInit, SwitchInv, SlotsSettled, MarkerTaken, SwitchesLeft, PendingVerify,
         MayHandOver, MayRollBack, Slots, Other, MaxSwitches
<1>2. FlashInv /\ RanInv /\ SwitchInv /\ [Next]_vars => SwitchInv'
  <2> SUFFICES ASSUME FlashInv, RanInv, SwitchInv, [Next]_vars PROVE SwitchInv'
    OBVIOUS
  <2>1. CASE UNCHANGED vars
    BY <2>1 DEF vars, bootVars, historyVars, ramVars, flashVars, SwitchInv, SlotsSettled,
                MarkerTaken, SwitchesLeft, PendingVerify, MayHandOver, MayRollBack, Rejected
  <2> QED
    BY <2>1, BootSwitches, RunSwitches, HostSwitches DEF Next
<1> QED
  BY <1>1, <1>2, FlashInvariant, RanInvariant, PTL DEF Spec

\* Left alone, the device changes slots at most twice and then stays: crash-loop handover,
\* trial and rollback never swing it between two broken images.
THEOREM SwitchesBoundedCorrect == Spec => []SwitchesBounded
<1>1. SwitchInv => SwitchesBounded
  BY LeftBounded DEF SwitchInv, SwitchesBounded, MaxSwitches
<1> QED
  BY <1>1, SwitchInvariant, PTL

-----------------------------------------------------------------------------
\* What the boot and the RAM hold: the log and the boot's copy of it never outgrow the
\* file's LogEntries records.
Logged(entries) == entries \in Seq(Records) /\ Len(entries) <= LogEntries

BootTypes ==
  /\ phase \in Phases /\ reason \in Reasons
  /\ Logged(log) /\ Logged(boots)
  /\ by_handover \in BOOLEAN
  /\ check \in {"off", "watching", "due", "rollback"}
  /\ session \in BOOLEAN /\ rebooting \in BOOLEAN

\* record() appends to a log that may be full, and the oldest record goes.
LEMMA RecordBounded ==
  ASSUME Logged(log), running \in Slots, NEW saved \in SaveOutcomes, RecordReset(saved)
  PROVE  Logged(log') /\ Logged(boots')
<1> DEFINE entry == <<running, reason = "crash">>
           all == Append(log, entry)
           kept == IF Len(all) > LogEntries THEN Tail(all) ELSE all
<1>1. boots' = kept /\ log' = IF saved THEN kept ELSE log
  BY DEF RecordReset
<1>2. entry \in Records
  BY DEF Records
<1>3. all \in Seq(Records) /\ Len(all) = Len(log) + 1 /\ Len(log) \in Nat
  <2> HIDE DEF entry
  <2> QED
    BY <1>2 DEF Logged
<1>4. Logged(kept)
  <2> HIDE DEF all
  <2>1. CASE Len(all) > LogEntries
    <3>1. Len(all) = LogEntries + 1 /\ all # <<>>
      BY <2>1, <1>3, LimitsAssumption DEF Logged
    <3>2. Tail(all) \in Seq(Records) /\ Len(Tail(all)) = LogEntries
      BY <3>1, <1>3, LimitsAssumption
    <3> QED
      BY <2>1, <3>2, LimitsAssumption DEF Logged
  <2>2. CASE ~(Len(all) > LogEntries)
    BY <2>2, <1>3, LimitsAssumption DEF Logged
  <2> QED
    BY <2>1, <2>2
<1> HIDE DEF kept
<1> QED
  BY <1>1, <1>4

LEMMA BootTypesStep ==
  ASSUME BootTypes, running \in Slots, [Next]_vars
  PROVE  BootTypes'
<1>1. CASE UNCHANGED vars
  BY <1>1 DEF vars, bootVars, ramVars, BootTypes, Logged
<1>2. ASSUME NEW why \in Reasons, ResetBy(why) PROVE BootTypes'
  <2>1. Logged(<<>>)
    BY LimitsAssumption DEF Logged
  <2> QED
    BY <1>2, <2>1 DEF ResetBy, BootTypes, Phases, Logged
<1>3. ASSUME NEW saved \in SaveOutcomes, RecordReset(saved) PROVE BootTypes'
  <2>1. Logged(log') /\ Logged(boots')
    BY <1>3, RecordBounded DEF BootTypes
  <2> QED
    BY <1>3, <2>1 DEF RecordReset, BootTypes, ramVars, Phases, Logged
<1>4. CASE TakeMarker
  <2>1. Logged(<<>>)
    BY LimitsAssumption DEF Logged
  <2> QED
    BY <1>4, <2>1 DEF TakeMarker, BootTypes, ramVars, Phases, Logged
<1>5. CASE StartBootloader \/ HandOver \/ MarkHandover \/ AcceptAfterHandover \/ InitSucceeds
  BY <1>5 DEF StartBootloader, HandOver, MarkHandover, AcceptAfterHandover, InitSucceeds,
              BootTypes, ramVars, Phases, Logged
<1>6. CASE HandoverRestart \/ InitFails \/ RollbackReboots \/ Reboot
           \/ \E why \in Reasons : AnyReset(why)
  BY <1>6, <1>2 DEF HandoverRestart, InitFails, RollbackReboots, Reboot, AnyReset, Reasons,
              BootTypes, ramVars, Phases, Logged
<1>7. CASE HealthConfirmed \/ HealthDeadline \/ HealthRollBack \/ RollbackFails
  BY <1>7 DEF HealthConfirmed, HealthDeadline, HealthRollBack, RollbackFails, Health, BootTypes,
              bootVars, Logged
<1>8. CASE Host
  <2>1. UNCHANGED <<phase, reason, log, boots, by_handover, check>>
    BY <1>8 DEF Host, OtaBegin, OtaData, OtaEnds, OtaFinish, Revert, MarkValid, Restart, Handled,
                bootVars
  <2>2. session' \in BOOLEAN /\ rebooting' \in BOOLEAN
    <3>1. ASSUME NEW queued \in BOOLEAN, OtaFinish(queued) \/ Revert(queued)
          PROVE  session' \in BOOLEAN /\ rebooting' \in BOOLEAN
      BY <3>1 DEF OtaFinish, Revert, BootTypes
    <3> QED
      BY <1>8, <3>1 DEF Host, OtaBegin, OtaData, OtaEnds, MarkValid, Restart, BootTypes
  <2> QED
    BY <2>1, <2>2 DEF BootTypes, Logged
<1> QED
  BY <1>1, <1>3, <1>4, <1>5, <1>6, <1>7, <1>8 DEF Next, Boot, Run

\* Every state has its shape, and the reset log stays within RESET_LOG_ENTRIES, in the file
\* and in memory, whatever saves fail (ResetLog::record).
THEOREM FirmwareTypesCorrect == Spec => []TypeOK
<1>1. Init => BootTypes
  <2>1. Logged(<<>>)
    BY LimitsAssumption DEF Logged
  <2> QED
    BY <2>1 DEF Init, BootTypes, Phases, Reasons, Logged
<1>2. FlashInv => running \in Slots
  BY DEF FlashInv, FlashTypeOK
<1>3. FlashInv /\ BootTypes /\ [Next]_vars => BootTypes'
  BY <1>2, BootTypesStep
<1>4. FlashInv /\ RanInv /\ SwitchInv /\ BootTypes => TypeOK
  BY LeftBounded
     DEF FlashInv, RanInv, Started, SwitchInv, MarkerTaken, BootTypes, Logged, TypeOK, MaxSwitches
<1> QED
  BY <1>1, <1>3, <1>4, FlashInvariant, RanInvariant, SwitchInvariant, PTL DEF Spec
=============================================================================
