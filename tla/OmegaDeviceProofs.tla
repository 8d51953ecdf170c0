------------------------- MODULE OmegaDeviceProofs -------------------------
(***************************************************************************)
(* Proofs about OmegaDevice, for any finite set of links and any modes.    *)
(***************************************************************************)
EXTENDS OmegaDevice, FiniteSetTheorems, TLAPS

-----------------------------------------------------------------------------
(***************************************************************************)
(* Types.  The bound of the history counter is OneLateReport, below.       *)
(***************************************************************************)
LoopTypes ==
  /\ loop \in LoopSteps
  /\ visit \in SUBSET Links
  /\ hold_seen \in BOOLEAN
  /\ health \in HealthStates
  /\ last_report \in {"neutral", "moving"}

TypeInv == TypeOK /\ LoopTypes

\* A boot establishes the types, whatever ran before it.
LEMMA TypeInit == Init => TypeInv
<1> SUFFICES ASSUME Init PROVE TypeInv
  OBVIOUS
<1> USE DEF Init, ServiceInit
<1>1. LinkTypes
  BY DEF LinkTypes, Tasks, Locked
<1>2. SharedTypes
  BY DEF SharedTypes, GateStates
<1>3. CountTypes
  BY DEF CountTypes
<1>4. LoopTypes
  BY DEF LoopTypes, LoopSteps, HealthStates
<1> QED BY <1>1, <1>2, <1>3, <1>4 DEF TypeInv, TypeOK

\* A reset leaves the state of a boot.
LEMMA TypeReset ==
  ASSUME TypeInv, Reset
  PROVE  TypeInv'
<1> USE DEF Reset, ServiceReset
<1>1. LinkTypes'
  BY DEF LinkTypes, Tasks, Locked
<1>2. SharedTypes'
  BY DEF TypeInv, TypeOK, SharedTypes, GateStates
<1>3. CountTypes'
  BY DEF CountTypes
<1>4. LoopTypes'
  BY DEF LoopTypes, LoopSteps, HealthStates
<1> QED BY <1>1, <1>2, <1>3, <1>4 DEF TypeInv, TypeOK

\* No request breaks the types of the services' state.
LEMMA TypeRequest ==
  ASSUME TypeOK, NEW l \in Links, Request(l)
  PROVE  TypeOK'
<1> USE DEF TypeOK, Tasks, Locked, GateStates, engineVars, Reply
<1>1. CASE PlainRequest(l)
  BY <1>1 DEF LinkTypes, SharedTypes, CountTypes, PlainRequest
<1>2. CASE OtaBegin(l)
  <2>1. LinkTypes'
    BY <1>2 DEF LinkTypes, OtaBegin, HoldOutput, EndUpload
  <2>2. SharedTypes'
    BY <1>2 DEF SharedTypes, OtaBegin, HoldOutput, EndUpload
  <2>3. CountTypes'
    BY <1>2 DEF CountTypes, OtaBegin, HoldOutput, EndUpload
  <2> QED BY <2>1, <2>2, <2>3 DEF TypeOK
<1>3. CASE OtaData(l)
  BY <1>3 DEF LinkTypes, SharedTypes, CountTypes, OtaData
<1>4. CASE OtaEnds(l)
  <2>1. LinkTypes'
    BY <1>4 DEF LinkTypes, OtaEnds, HoldOutput, EndUpload
  <2>2. SharedTypes'
    BY <1>4 DEF SharedTypes, OtaEnds, HoldOutput, EndUpload
  <2>3. CountTypes'
    BY <1>4 DEF CountTypes, OtaEnds, HoldOutput, EndUpload
  <2> QED BY <2>1, <2>2, <2>3 DEF TypeOK
<1>5. CASE OtaFinish(l)
  <2>1. LinkTypes'
    BY <1>5 DEF LinkTypes, OtaFinish, HoldOutput, EndUpload
  <2>2. SharedTypes'
    BY <1>5 DEF SharedTypes, OtaFinish, HoldOutput, EndUpload
  <2>3. CountTypes'
    BY <1>5 DEF CountTypes, OtaFinish, HoldOutput, EndUpload
  <2> QED BY <2>1, <2>2, <2>3 DEF TypeOK
<1>6. CASE Revert(l)
  <2>1. LinkTypes'
    BY <1>6 DEF LinkTypes, Revert, HoldOutput, EndUpload
  <2>2. SharedTypes'
    BY <1>6 DEF SharedTypes, Revert, HoldOutput, EndUpload
  <2>3. CountTypes'
    BY <1>6 DEF CountTypes, Revert, HoldOutput, EndUpload
  <2> QED BY <2>1, <2>2, <2>3 DEF TypeOK
<1>7. CASE MarkValid(l)
  BY <1>7 DEF LinkTypes, SharedTypes, CountTypes, MarkValid
<1>8. CASE Restart(l)
  BY <1>8 DEF LinkTypes, SharedTypes, CountTypes, Restart, HoldOutput
<1>9. CASE \E m \in Modes : SetInputMode(l, m)
  <2>1. LinkTypes'
    BY <1>9 DEF LinkTypes, SetInputMode, HoldOutput
  <2>2. SharedTypes'
    BY <1>9 DEF SharedTypes, SetInputMode, HoldOutput
  <2>3. CountTypes'
    BY <1>9 DEF CountTypes, SetInputMode, HoldOutput
  <2> QED BY <2>1, <2>2, <2>3 DEF TypeOK
<1>10. CASE StartCalibration(l)
  BY <1>10 DEF LinkTypes, SharedTypes, CountTypes, StartCalibration
<1> QED BY <1>1, <1>2, <1>3, <1>4, <1>5, <1>6, <1>7, <1>8, <1>9, <1>10 DEF Request

\* Nor does what the dispatcher does after a request is received.
LEMMA TypeProceed ==
  ASSUME TypeOK, NEW l \in Links, Proceed(l)
  PROVE  TypeOK'
<1> USE DEF TypeOK, Tasks, Locked, GateStates, engineVars, Reply
<1>1. CASE BeginSucceeds(l)
  BY <1>1 DEF LinkTypes, SharedTypes, CountTypes, BeginSucceeds
<1>2. CASE BeginFails(l)
  BY <1>2 DEF LinkTypes, SharedTypes, CountTypes, BeginFails, HoldOutput
<1>3. CASE RevertSucceeds(l)
  BY <1>3 DEF LinkTypes, SharedTypes, CountTypes, RevertSucceeds, HoldOutput
<1>4. CASE RevertFails(l)
  BY <1>4 DEF LinkTypes, SharedTypes, CountTypes, RevertFails
<1>5. CASE ReplyQueued(l)
  BY <1>5 DEF LinkTypes, SharedTypes, CountTypes, ReplyQueued
<1>6. CASE ReplyRefused(l)
  BY <1>6 DEF LinkTypes, SharedTypes, CountTypes, ReplyRefused, HoldOutput
<1> QED BY <1>1, <1>2, <1>3, <1>4, <1>5, <1>6 DEF Proceed

\* The idle expiry only ends an upload, so it keeps the types.
LEMMA TypeExpire ==
  ASSUME TypeOK, NEW l \in Links, ExpireStaleUpdate(l)
  PROVE  TypeOK'
<1> USE DEF TypeOK, ExpireStaleUpdate, HoldOutput, EndUpload
<1>1. LinkTypes'
  BY DEF LinkTypes
<1>2. SharedTypes'
  BY DEF SharedTypes
<1>3. CountTypes'
  BY DEF CountTypes
<1> QED BY <1>1, <1>2, <1>3

\* Whatever the services or the loop do, the state keeps its types.
LEMMA TypeLoop ==
  ASSUME TypeInv, Loop
  PROVE  TypeInv'
<1> USE DEF TypeInv, LoopTypes, LoopSteps, HealthStates
<1>1. CASE HealthQuiet
  BY <1>1 DEF HealthQuiet, TypeOK, LinkTypes, SharedTypes, CountTypes, serviceVars, linkVars,
              engineVars
<1>2. CASE HealthHold
  <2>1. TypeOK'
    BY <1>2 DEF HealthHold, TypeOK, LinkTypes, SharedTypes, CountTypes, linkVars, engineVars
  <2>2. LoopTypes'
    BY <1>2 DEF HealthHold
  <2> QED BY <2>1, <2>2
<1>3. CASE HealthRollBack
  <2>1. TypeOK'
    BY <1>3 DEF HealthRollBack, TypeOK, LinkTypes, SharedTypes, CountTypes, linkVars, engineVars
  <2>2. LoopTypes'
    BY <1>3 DEF HealthRollBack
  <2> QED BY <2>1, <2>2
<1>4. CASE RollbackReboots
  BY <1>4, TypeReset DEF RollbackReboots
<1>5. CASE RollbackFails
  <2>1. TypeOK'
    BY <1>5 DEF RollbackFails, TypeOK, LinkTypes, SharedTypes, CountTypes, linkVars, engineVars
  <2>2. LoopTypes'
    BY <1>5 DEF RollbackFails
  <2> QED BY <2>1, <2>2
<1>6. CASE \E l \in Links : ExpireVisit(l)
  <2>1. PICK l \in Links : ExpireVisit(l)
    BY <1>6
  <2>2. TypeOK'
    BY <2>1, TypeExpire DEF ExpireVisit
  <2>3. LoopTypes'
    BY <2>1 DEF ExpireVisit
  <2> QED BY <2>2, <2>3
<1>7. CASE SampleHold
  <2>1. TypeOK'
    BY <1>7 DEF SampleHold, TypeOK, LinkTypes, SharedTypes, CountTypes, serviceVars, linkVars,
                engineVars
  <2>2. LoopTypes'
    BY <1>7 DEF SampleHold
  <2> QED BY <2>1, <2>2
<1>8. CASE TakeRequest
  <2>1. TypeOK'
    BY <1>8 DEF TakeRequest, TypeOK, LinkTypes, SharedTypes, CountTypes, GateStates, linkVars,
                engineVars
  <2>2. LoopTypes'
    BY <1>8 DEF TakeRequest
  <2> QED BY <2>1, <2>2
<1>9. CASE \E report \in {"neutral", "moving"} : Tick(report)
  <2>1. TypeOK'
    BY <1>9 DEF Tick, TypeOK, LinkTypes, SharedTypes, CountTypes, serviceVars, linkVars, engineVars
  <2>2. LoopTypes'
    BY <1>9 DEF Tick
  <2> QED BY <2>1, <2>2
<1>10. CASE TickNeutral
  <2>1. TypeOK'
    BY <1>10 DEF TickNeutral, TypeOK, LinkTypes, SharedTypes, CountTypes, serviceVars, linkVars,
                 engineVars
  <2>2. LoopTypes'
    BY <1>10 DEF TickNeutral
  <2> QED BY <2>1, <2>2
<1>11. CASE SweepEnds
  <2>1. TypeOK'
    BY <1>11 DEF SweepEnds, TypeOK, LinkTypes, SharedTypes, CountTypes, linkVars, engineVars
  <2>2. LoopTypes'
    BY <1>11 DEF SweepEnds
  <2> QED BY <2>1, <2>2
<1>12. CASE FinishRequest
  <2>1. TypeOK'
    BY <1>12 DEF FinishRequest, TypeOK, LinkTypes, SharedTypes, CountTypes, GateStates, linkVars,
                 engineVars
  <2>2. LoopTypes'
    BY <1>12 DEF FinishRequest
  <2> QED BY <2>1, <2>2
<1> QED BY <1>1, <1>2, <1>3, <1>4, <1>5, <1>6, <1>7, <1>8, <1>9, <1>10, <1>11, <1>12 DEF Loop

\* Every step of a service, of the timers and of its reboot thread.
LEMMA TypeService ==
  ASSUME TypeOK, Service
  PROVE  TypeOK'
<1>1. CASE \E l \in Links : Request(l)
  BY <1>1, TypeRequest
<1>2. CASE \E l \in Links : Proceed(l)
  BY <1>2, TypeProceed
<1>3. CASE \E l \in Links : IdleTimeout(l)
  BY <1>3 DEF IdleTimeout, TypeOK, LinkTypes, SharedTypes, CountTypes, engineVars
<1>4. CASE HostGone
  BY <1>4 DEF HostGone, TypeOK, LinkTypes, SharedTypes, CountTypes, linkVars, engineVars
<1> QED BY <1>1, <1>2, <1>3, <1>4 DEF Service

\* Every action of the device keeps the types.
LEMMA TypeStep ==
  ASSUME TypeInv, Step
  PROVE  TypeInv'
<1>1. CASE Service /\ UNCHANGED loopVars
  BY <1>1, TypeService DEF TypeInv, LoopTypes, loopVars
<1>2. CASE Loop
  BY <1>2, TypeLoop
<1>3. CASE HealthTimer
  <2>1. TypeOK'
    BY <1>3 DEF HealthTimer, TypeInv, TypeOK, LinkTypes, SharedTypes, CountTypes, serviceVars,
                linkVars, engineVars
  <2>2. LoopTypes'
    BY <1>3 DEF HealthTimer, TypeInv, LoopTypes, HealthStates
  <2> QED BY <2>1, <2>2 DEF TypeInv
<1>4. CASE RebootThread \/ SwitchRestart \/ PowerCycle
  BY <1>4, TypeReset DEF RebootThread, SwitchRestart, PowerCycle
<1> QED BY <1>1, <1>2, <1>3, <1>4 DEF Step

\* A step that changes nothing keeps them.
LEMMA TypeStutter ==
  ASSUME TypeInv, UNCHANGED vars
  PROVE  TypeInv'
BY DEF vars, loopVars, serviceVars, linkVars, engineVars, TypeInv, LoopTypes, TypeOK, LinkTypes,
       SharedTypes, CountTypes

\* Type correctness of the device's state.
THEOREM TypesCorrect == Spec => []TypeInv
<1>1. TypeInv /\ [Next]_vars => TypeInv'
  BY TypeStep, TypeStutter DEF Next
<1> QED BY <1>1, TypeInit, PTL DEF Spec

-----------------------------------------------------------------------------
(***************************************************************************)
(* The hold counter.  Everything a service does to it goes through         *)
(* hold_output(), so it suffices that one such call keeps the counter in   *)
(* step with the services that hold.                                       *)
(***************************************************************************)
HoldStep ==
  \/ UNCHANGED <<holders, output_holds>>
  \/ \E l \in Links, hold \in BOOLEAN : HoldOutput(l, hold)

\* The services that hold can be counted.
LEMMA HoldersFinite ==
  ASSUME TypeOK
  PROVE  IsFiniteSet(holders)
BY FS_Subset, LinksAssumption DEF TypeOK, LinkTypes

\* Raising or lowering one service's flag moves the number of holders as it
\* moves the counter (hold_output).
LEMMA HoldStepCounts ==
  ASSUME TypeOK, HoldStep
  PROVE  output_holds' - Cardinality(holders') = output_holds - Cardinality(holders)
<1>0. /\ IsFiniteSet(holders)
      /\ Cardinality(holders) \in Nat
      /\ output_holds \in Int
  BY HoldersFinite, FS_CardinalityType DEF TypeOK, CountTypes
<1>1. CASE UNCHANGED <<holders, output_holds>>
  BY <1>1
<1>2. CASE \E l \in Links, hold \in BOOLEAN : HoldOutput(l, hold)
  <2>1. PICK l \in Links, hold \in BOOLEAN : HoldOutput(l, hold)
    BY <1>2
  <2>2. CASE hold /\ l \notin holders
    <3>1. holders' = holders \cup {l} /\ output_holds' = output_holds + 1
      BY <2>1, <2>2 DEF HoldOutput
    <3>2. Cardinality(holders') = Cardinality(holders) + 1
      BY <1>0, <2>2, <3>1, FS_AddElement
    <3> QED BY <1>0, <3>1, <3>2
  <2>3. CASE ~hold /\ l \in holders
    <3>1. holders' = holders \ {l} /\ output_holds' = output_holds - 1
      BY <2>1, <2>3 DEF HoldOutput
    <3>2. Cardinality(holders') = Cardinality(holders) - 1
      BY <1>0, <2>3, <3>1, FS_RemoveElement
    <3> QED BY <1>0, <3>1, <3>2
  <2>4. CASE hold <=> l \in holders
    <3>1. holders' = holders /\ output_holds' = output_holds
      BY <2>1, <2>4 DEF HoldOutput
    <3> QED BY <3>1
  <2> QED BY <2>2, <2>3, <2>4
<1> QED BY <1>1, <1>2 DEF HoldStep

\* A step of the services keeps the counter equal to the holders and the health
\* check.
LEMMA ServiceHolds ==
  ASSUME Service
  PROVE  HoldStep
<1> USE DEF HoldStep
<1>1. ASSUME NEW l \in Links, Request(l) PROVE HoldStep
  <2>1. CASE \/ PlainRequest(l) \/ OtaData(l) \/ MarkValid(l) \/ StartCalibration(l)
    BY <2>1 DEF PlainRequest, OtaData, MarkValid, StartCalibration
  <2>2. CASE OtaBegin(l)
    BY <2>2 DEF OtaBegin
  <2>3. CASE OtaEnds(l)
    BY <2>3 DEF OtaEnds
  <2>4. CASE OtaFinish(l)
    BY <2>4 DEF OtaFinish
  <2>5. CASE Revert(l)
    BY <2>5 DEF Revert
  <2>6. CASE Restart(l)
    BY <2>6 DEF Restart
  <2>7. CASE \E m \in Modes : SetInputMode(l, m)
    BY <2>7 DEF SetInputMode
  <2> QED BY <1>1, <2>1, <2>2, <2>3, <2>4, <2>5, <2>6, <2>7 DEF Request
<1>2. ASSUME NEW l \in Links, Proceed(l) PROVE HoldStep
  <2>1. CASE BeginSucceeds(l) \/ RevertFails(l) \/ ReplyQueued(l)
    BY <2>1 DEF BeginSucceeds, RevertFails, ReplyQueued
  <2>2. CASE BeginFails(l)
    <3>1. HoldOutput(l, task[l] = "erasing_held")
      BY <2>2 DEF BeginFails
    <3> QED BY <3>1
  <2>3. CASE RevertSucceeds(l)
    BY <2>3 DEF RevertSucceeds
  <2>4. CASE ReplyRefused(l)
    BY <2>4 DEF ReplyRefused
  <2> QED BY <1>2, <2>1, <2>2, <2>3, <2>4 DEF Proceed
<1>3. CASE (\E l \in Links : IdleTimeout(l)) \/ HostGone
  BY <1>3 DEF IdleTimeout, HostGone, linkVars
<1> QED BY <1>1, <1>2, <1>3 DEF Service

\* HoldCount alone is not inductive: a failed rollback gives one hold back, so
\* the health check must not count twice while the rollback is under way.
CountInv == HoldCount /\ (loop = "rollback" => health = "off")

\* So does every step of the device.
LEMMA HoldCountStep ==
  ASSUME TypeInv, CountInv, Step
  PROVE  CountInv'
<1>0. /\ Cardinality(holders) \in Nat
      /\ output_holds \in Int
      /\ TypeOK
      /\ output_holds' \in Int
      /\ Cardinality(holders') \in Nat
  <2>1. TypeInv'
    BY TypeStep
  <2>2. IsFiniteSet(holders')
    BY <2>1, FS_Subset, LinksAssumption DEF TypeInv, TypeOK, LinkTypes
  <2> QED
    BY <2>1, <2>2, HoldersFinite, FS_CardinalityType DEF TypeInv, TypeOK, CountTypes
<1> USE DEF CountInv, HoldCount, HealthHolds
<1>1. CASE Service /\ UNCHANGED loopVars
  <2>1. output_holds' - Cardinality(holders') = output_holds - Cardinality(holders)
    BY <1>0, <1>1, ServiceHolds, HoldStepCounts
  <2>2. UNCHANGED <<loop, health>>
    BY <1>1 DEF loopVars
  <2> HIDE DEF HealthHolds
  <2>3. HealthHolds' <=> HealthHolds
    BY <2>2 DEF HealthHolds
  <2>4. HoldCount'
    BY <1>0, <2>1, <2>3
  <2> QED BY <2>2, <2>4
<1>2. CASE Loop
  <2>1. CASE HealthQuiet
    BY <1>0, <2>1 DEF HealthQuiet, serviceVars, linkVars
  <2>2. CASE HealthHold
    BY <1>0, <2>2 DEF HealthHold, linkVars
  <2>3. CASE HealthRollBack
    BY <1>0, <2>3 DEF HealthRollBack, linkVars
  <2>4. CASE RollbackFails
    BY <1>0, <2>4 DEF RollbackFails, linkVars
  <2>5. CASE \E l \in Links : ExpireVisit(l)
    <3>1. PICK l \in Links : ExpireVisit(l)
      BY <2>5
    <3>2. HoldStep
      BY <3>1 DEF ExpireVisit, ExpireStaleUpdate, HoldStep
    <3>3. output_holds' - Cardinality(holders') = output_holds - Cardinality(holders)
      BY <1>0, <3>2, HoldStepCounts
    <3>4. UNCHANGED <<loop, health>>
      BY <3>1 DEF ExpireVisit
    <3> HIDE DEF HealthHolds
    <3>5. HealthHolds' <=> HealthHolds
      BY <3>4 DEF HealthHolds
    <3>6. HoldCount'
      BY <1>0, <3>3, <3>5
    <3> QED BY <3>4, <3>6
  <2>6. CASE SampleHold \/ TakeRequest \/ TickNeutral \/ SweepEnds \/ FinishRequest
    <3>1. UNCHANGED <<holders, output_holds, health>> /\ loop # "rollback" /\ loop' # "rollback"
      BY <2>6 DEF SampleHold, TakeRequest, TickNeutral, SweepEnds, FinishRequest, serviceVars,
                  linkVars
    <3> QED BY <3>1
  <2>7. CASE \E report \in {"neutral", "moving"} : Tick(report)
    BY <2>7 DEF Tick, serviceVars, linkVars
  <2>8. CASE RollbackReboots
    BY <2>8, FS_EmptySet DEF RollbackReboots, Reset, ServiceReset
  <2> QED BY <1>2, <2>1, <2>2, <2>3, <2>4, <2>5, <2>6, <2>7, <2>8 DEF Loop
<1>3. CASE HealthTimer
  BY <1>3 DEF HealthTimer, serviceVars, linkVars
<1>4. CASE RebootThread \/ SwitchRestart \/ PowerCycle
  BY <1>4, FS_EmptySet DEF RebootThread, SwitchRestart, PowerCycle, Reset, ServiceReset
<1> QED BY <1>1, <1>2, <1>3, <1>4 DEF Step

\* The shared counter is, at every moment, exactly the services that hold plus
\* the health check: main.cpp's output_holds never leaks and never underflows.
THEOREM HoldCountCorrect == Spec => []HoldCount
<1>1. Init => CountInv
  BY FS_EmptySet DEF Init, ServiceInit, CountInv, HoldCount, HealthHolds
<1>2. TypeInv /\ CountInv /\ [Next]_vars => CountInv'
  <2>1. ASSUME CountInv, UNCHANGED vars PROVE CountInv'
    BY <2>1 DEF CountInv, HoldCount, HealthHolds, vars, loopVars, serviceVars, linkVars
  <2> QED BY <2>1, HoldCountStep DEF Next
<1>3. CountInv => HoldCount
  BY DEF CountInv
<1> QED BY <1>1, <1>2, <1>3, TypesCorrect, PTL DEF Spec

-----------------------------------------------------------------------------
(***************************************************************************)
(* The upload.  UploadExclusive is inductive once the hold of an erase     *)
(* under way is known: BeginSucceeds makes its link the owner of a session *)
(* the hold of which was raised an action earlier.                         *)
(***************************************************************************)
Erasing(l) == task[l] \in {"erasing", "erasing_held"}

UploadInv ==
  /\ UploadExclusive
  /\ \A l \in Links : Erasing(l) => l \in holders /\ l \notin owners

\* The one link that can be the owner while it handles a frame.
LEMMA OwnerAlone ==
  ASSUME TypeOK, UploadInv, NEW l \in owners
  PROVE  owners = {l} /\ session /\ l \in holders
BY DEF TypeOK, LinkTypes, UploadInv, UploadExclusive

\* No request makes a second owner, or an owner that does not hold.
LEMMA UploadRequest ==
  ASSUME TypeOK, UploadInv, NEW l \in Links, Request(l)
  PROVE  UploadInv'
<1> USE DEF TypeOK, LinkTypes, UploadInv, UploadExclusive, Erasing, Receive, Reply
<1>1. CASE PlainRequest(l)
  BY <1>1 DEF PlainRequest, engineVars
<1>2. CASE OtaBegin(l)
  BY <1>2 DEF OtaBegin, HoldOutput, EndUpload
<1>3. CASE OtaData(l)
  BY <1>3 DEF OtaData, engineVars
<1>4. CASE OtaEnds(l)
  BY <1>4 DEF OtaEnds, HoldOutput, EndUpload
<1>5. CASE OtaFinish(l)
  BY <1>5 DEF OtaFinish, HoldOutput, EndUpload
<1>6. CASE Revert(l)
  BY <1>6 DEF Revert, HoldOutput, EndUpload
<1>7. CASE MarkValid(l)
  BY <1>7 DEF MarkValid
<1>8. CASE Restart(l)
  BY <1>8 DEF Restart, HoldOutput, engineVars
<1>9. CASE \E m \in Modes : SetInputMode(l, m)
  BY <1>9 DEF SetInputMode, HoldOutput, engineVars
<1>10. CASE StartCalibration(l)
  BY <1>10 DEF StartCalibration, engineVars
<1> QED BY <1>1, <1>2, <1>3, <1>4, <1>5, <1>6, <1>7, <1>8, <1>9, <1>10 DEF Request

\* Nor does a later step of the dispatcher, the erase included.
LEMMA UploadProceed ==
  ASSUME TypeOK, UploadInv, NEW l \in Links, Proceed(l)
  PROVE  UploadInv'
<1> USE DEF TypeOK, LinkTypes, UploadInv, UploadExclusive, Erasing, Reply
<1>1. CASE BeginSucceeds(l)
  BY <1>1 DEF BeginSucceeds
<1>2. CASE BeginFails(l)
  BY <1>2 DEF BeginFails, HoldOutput, engineVars
<1>3. CASE RevertSucceeds(l)
  BY <1>3 DEF RevertSucceeds, HoldOutput, engineVars
<1>4. CASE RevertFails(l)
  BY <1>4 DEF RevertFails, engineVars
<1>5. CASE ReplyQueued(l)
  BY <1>5 DEF ReplyQueued, engineVars
<1>6. CASE ReplyRefused(l)
  BY <1>6 DEF ReplyRefused, HoldOutput, engineVars
<1> QED BY <1>1, <1>2, <1>3, <1>4, <1>5, <1>6 DEF Proceed

\* Every action keeps one owner of a live session at most, and it holds.
LEMMA UploadStep ==
  ASSUME TypeInv, UploadInv, Step
  PROVE  UploadInv'
<1>0. TypeOK
  BY DEF TypeInv
<1> USE DEF UploadInv, UploadExclusive, Erasing
<1>1. CASE Service
  <2>1. CASE (\E l \in Links : IdleTimeout(l)) \/ HostGone
    BY <2>1 DEF IdleTimeout, HostGone, linkVars, engineVars
  <2> QED BY <1>0, <1>1, <2>1, UploadRequest, UploadProceed DEF Service
<1>2. CASE Loop
  <2>1. CASE \E l \in Links : ExpireVisit(l)
    <3>1. PICK l \in Links : ExpireVisit(l)
      BY <2>1
    <3> QED
      BY <1>0, <3>1 DEF ExpireVisit, ExpireStaleUpdate, EndUpload, HoldOutput, TypeOK, LinkTypes,
                        Locked
  <2>2. CASE RollbackReboots
    BY <2>2 DEF RollbackReboots, Reset, ServiceReset
  <2>3. CASE HealthQuiet \/ HealthHold \/ HealthRollBack \/ RollbackFails
    BY <2>3 DEF HealthQuiet, HealthHold, HealthRollBack, RollbackFails, serviceVars, linkVars,
                engineVars
  <2>4. CASE SampleHold \/ TakeRequest \/ \E report \in {"neutral", "moving"} : Tick(report)
    BY <2>4 DEF SampleHold, TakeRequest, Tick, serviceVars, linkVars, engineVars
  <2>5. CASE TickNeutral \/ SweepEnds \/ FinishRequest
    BY <2>5 DEF TickNeutral, SweepEnds, FinishRequest, serviceVars, linkVars, engineVars
  <2> QED BY <1>2, <2>1, <2>2, <2>3, <2>4, <2>5 DEF Loop
<1>3. CASE HealthTimer
  BY <1>3 DEF HealthTimer, serviceVars, linkVars, engineVars
<1>4. CASE RebootThread \/ SwitchRestart \/ PowerCycle
  BY <1>4 DEF RebootThread, SwitchRestart, PowerCycle, Reset, ServiceReset
<1> QED BY <1>1, <1>2, <1>3, <1>4 DEF Step

\* The inductive invariant of the upload session.
LEMMA UploadInvariant == Spec => []UploadInv
<1> USE DEF UploadInv, UploadExclusive, Erasing
<1>1. Init => UploadInv
  BY DEF Init, ServiceInit
<1>2. TypeInv /\ UploadInv /\ [Next]_vars => UploadInv'
  <2>1. ASSUME UploadInv, UNCHANGED vars PROVE UploadInv'
    BY <2>1 DEF vars, serviceVars, linkVars, engineVars
  <2> QED BY <2>1, UploadStep DEF Next
<1> QED BY <1>1, <1>2, TypesCorrect, PTL DEF Spec

\* The engine's session belongs to at most one link, never to none, and its
\* owner holds the output.
THEOREM UploadExclusiveCorrect == Spec => []UploadExclusive
<1>1. UploadInv => UploadExclusive
  BY DEF UploadInv
<1> QED BY <1>1, UploadInvariant, PTL

-----------------------------------------------------------------------------
(***************************************************************************)
(* No hold leaks.  A hold outlives the request that raised it only until a *)
(* reboot: what a link is in the middle of must already know of that       *)
(* reboot when it is going to leave an older hold up.                      *)
(***************************************************************************)
LinkReason(l) ==
  /\ l \in holders => \/ l \in owners
                      \/ task[l] \in {"erasing", "erasing_held"}
                      \/ task[l] = "replying" /\ after_reply[l] # "none"
                      \/ RebootComing
  /\ after_reply[l] # "none" => task[l] = "replying"
  /\ task[l] = "erasing_held" => RebootComing
  /\ task[l] = "verifying" /\ l \in holders => RebootComing
  /\ task[l] = "replying" /\ after_reply[l] = mode => RebootComing

ReasonInv == \A l \in Links : LinkReason(l)

\* A reboot that is coming comes: only the reset ends it.
LEMMA RebootStaysComing ==
  ASSUME TypeOK, RebootComing, Service
  PROVE  RebootComing'
<1> USE DEF TypeOK, LinkTypes, RebootComing, Receive, Reply, engineVars
<1>1. CASE rebooting
  <2>1. rebooting'
    <3>1. ASSUME NEW l \in Links, Request(l) PROVE rebooting'
      BY <1>1, <3>1 DEF Request, PlainRequest, OtaBegin, OtaData, OtaEnds, OtaFinish, Revert,
                        MarkValid, Restart, SetInputMode, StartCalibration
    <3>2. ASSUME NEW l \in Links, Proceed(l) PROVE rebooting'
      BY <1>1, <3>2 DEF Proceed, BeginSucceeds, BeginFails, RevertSucceeds, RevertFails,
                        ReplyQueued, ReplyRefused
    <3>3. CASE (\E l \in Links : IdleTimeout(l)) \/ HostGone
      BY <1>1, <3>3 DEF IdleTimeout, HostGone
    <3> QED BY <3>1, <3>2, <3>3 DEF Service
  <2> QED BY <2>1
<1>2. ASSUME NEW k \in Links, task[k] = "switching" PROVE task'[k] = "switching"
  <2>1. ASSUME NEW l \in Links, Request(l) PROVE task'[k] = "switching"
    <3>1. l # k
      BY <1>2, <2>1 DEF Request, PlainRequest, OtaBegin, OtaData, OtaEnds, OtaFinish, Revert,
                        MarkValid, Restart, SetInputMode, StartCalibration
    <3>2. \E t : task' = [task EXCEPT ![l] = t]
      BY <2>1 DEF Request, PlainRequest, OtaBegin, OtaData, OtaEnds, OtaFinish, Revert,
                  MarkValid, Restart, SetInputMode, StartCalibration
    <3> QED BY <1>2, <3>1, <3>2
  <2>2. ASSUME NEW l \in Links, Proceed(l) PROVE task'[k] = "switching"
    <3>1. l # k
      BY <1>2, <2>2 DEF Proceed, BeginSucceeds, BeginFails, RevertSucceeds, RevertFails,
                        ReplyQueued, ReplyRefused
    <3>2. \E t : task' = [task EXCEPT ![l] = t]
      BY <2>2 DEF Proceed, BeginSucceeds, BeginFails, RevertSucceeds, RevertFails,
                  ReplyQueued, ReplyRefused
    <3> QED BY <1>2, <3>1, <3>2
  <2>3. CASE (\E l \in Links : IdleTimeout(l)) \/ HostGone
    BY <1>2, <2>3 DEF IdleTimeout, HostGone, linkVars
  <2> QED BY <2>1, <2>2, <2>3 DEF Service
<1> QED BY <1>1, <1>2

\* A link's dispatcher leaves the other links alone: their tasks, replies and
\* holds; it only ever ends or starts its own upload, and the mode changes only
\* on the way to a reboot.
LEMMA OtherLinks ==
  ASSUME TypeOK, NEW l \in Links, Request(l) \/ Proceed(l), NEW k \in Links, k # l
  PROVE  /\ task'[k] = task[k]
         /\ after_reply'[k] = after_reply[k]
         /\ k \in holders' <=> k \in holders
         /\ k \in owners' <=> k \in owners
         /\ mode' = mode \/ RebootComing'
<1> USE DEF TypeOK, LinkTypes, Reply, engineVars
<1>1. CASE Request(l)
  <2>1. mode' = mode
    BY <1>1 DEF Request, PlainRequest, OtaBegin, OtaData, OtaEnds, OtaFinish, Revert, MarkValid,
                Restart, SetInputMode, StartCalibration
  <2>2. task'[k] = task[k] /\ after_reply'[k] = after_reply[k]
    BY <1>1 DEF Request, PlainRequest, OtaBegin, OtaData, OtaEnds, OtaFinish, Revert, MarkValid,
                Restart, SetInputMode, StartCalibration
  <2>3. k \in holders' <=> k \in holders
    BY <1>1 DEF Request, PlainRequest, OtaBegin, OtaData, OtaEnds, OtaFinish, Revert, MarkValid,
                Restart, SetInputMode, StartCalibration, HoldOutput
  <2>4. k \in owners' <=> k \in owners
    BY <1>1 DEF Request, PlainRequest, OtaBegin, OtaData, OtaEnds, OtaFinish, Revert, MarkValid,
                Restart, SetInputMode, StartCalibration, EndUpload
  <2> QED BY <2>1, <2>2, <2>3, <2>4
<1>2. CASE Proceed(l)
  <2>1. mode' = mode \/ RebootComing'
    BY <1>2 DEF Proceed, BeginSucceeds, BeginFails, RevertSucceeds, RevertFails, ReplyQueued,
                ReplyRefused, RebootComing
  <2>2. task'[k] = task[k] /\ after_reply'[k] = after_reply[k]
    BY <1>2 DEF Proceed, BeginSucceeds, BeginFails, RevertSucceeds, RevertFails, ReplyQueued,
                ReplyRefused
  <2>3. k \in holders' <=> k \in holders
    BY <1>2 DEF Proceed, BeginSucceeds, BeginFails, RevertSucceeds, RevertFails, ReplyQueued,
                ReplyRefused, HoldOutput
  <2>4. k \in owners' <=> k \in owners
    BY <1>2 DEF Proceed, BeginSucceeds, BeginFails, RevertSucceeds, RevertFails, ReplyQueued,
                ReplyRefused
  <2> QED BY <2>1, <2>2, <2>3, <2>4
<1> QED BY <1>1, <1>2

\* The link whose dispatcher takes a step has a reason for the hold it leaves.
LEMMA OwnRequest ==
  ASSUME TypeOK, UploadInv, NEW l \in Links, LinkReason(l), Request(l),
         RebootComing => RebootComing'
  PROVE  LinkReason(l)'
<1>0. /\ mode \in Modes
      /\ mode # "reboot"
      /\ mode # "none"
      /\ task \in [Links -> Tasks]
      /\ after_reply \in [Links -> {"none", "reboot"} \cup Modes]
      /\ l \in owners => session
  BY ModesAssumption DEF TypeOK, LinkTypes, SharedTypes, UploadInv, UploadExclusive
<1> USE DEF LinkReason, Receive, Reply, engineVars
<1>1. CASE PlainRequest(l)
  BY <1>0, <1>1 DEF PlainRequest
<1>2. CASE OtaBegin(l)
  BY <1>0, <1>2 DEF OtaBegin, HoldOutput, EndUpload
<1>3. CASE OtaData(l)
  BY <1>0, <1>3 DEF OtaData
<1>4. CASE OtaEnds(l)
  BY <1>0, <1>4 DEF OtaEnds, HoldOutput, EndUpload
<1>5. CASE OtaFinish(l)
  BY <1>0, <1>5 DEF OtaFinish, HoldOutput, EndUpload
<1>6. CASE Revert(l)
  BY <1>0, <1>6 DEF Revert, HoldOutput, EndUpload
<1>7. CASE MarkValid(l)
  BY <1>0, <1>7 DEF MarkValid
<1>8. CASE Restart(l)
  BY <1>0, <1>8 DEF Restart, HoldOutput
<1>9. CASE \E m \in Modes : SetInputMode(l, m)
  BY <1>0, <1>9, ModesAssumption DEF SetInputMode, HoldOutput
<1>10. CASE StartCalibration(l)
  BY <1>0, <1>10 DEF StartCalibration
<1> QED BY <1>1, <1>2, <1>3, <1>4, <1>5, <1>6, <1>7, <1>8, <1>9, <1>10 DEF Request

\* The link that goes on with a request leaves a reason for the hold it keeps.
LEMMA OwnProceed ==
  ASSUME TypeOK, UploadInv, NEW l \in Links, LinkReason(l), Proceed(l),
         RebootComing => RebootComing'
  PROVE  LinkReason(l)'
<1>0. /\ mode \in Modes
      /\ mode # "reboot"
      /\ mode # "none"
      /\ task \in [Links -> Tasks]
      /\ after_reply \in [Links -> {"none", "reboot"} \cup Modes]
      /\ l \in owners => session
  BY ModesAssumption DEF TypeOK, LinkTypes, SharedTypes, UploadInv, UploadExclusive
<1> USE DEF LinkReason, Reply, engineVars
<1>1. CASE BeginSucceeds(l)
  BY <1>0, <1>1 DEF BeginSucceeds
<1>2. CASE BeginFails(l)
  BY <1>0, <1>2 DEF BeginFails, HoldOutput
<1>3. CASE RevertSucceeds(l)
  BY <1>0, <1>3 DEF RevertSucceeds, HoldOutput
<1>4. CASE RevertFails(l)
  BY <1>0, <1>4 DEF RevertFails
<1>5. CASE ReplyQueued(l)
  BY <1>0, <1>5 DEF ReplyQueued, RebootComing
<1>6. CASE ReplyRefused(l)
  BY <1>0, <1>6 DEF ReplyRefused, HoldOutput
<1> QED BY <1>1, <1>2, <1>3, <1>4, <1>5, <1>6 DEF Proceed

\* A service's step leaves every link that holds with a reason.
LEMMA ReasonService ==
  ASSUME TypeOK, UploadInv, ReasonInv, Service
  PROVE  ReasonInv'
<1>0. RebootComing => RebootComing'
  BY RebootStaysComing
<1>1. ASSUME NEW l \in Links, Request(l) \/ Proceed(l), NEW k \in Links
      PROVE  LinkReason(k)'
  <2>1. CASE k = l
    BY <1>0, <1>1, <2>1, OwnRequest, OwnProceed DEF ReasonInv
  <2>2. CASE k # l
    <3>1. /\ task'[k] = task[k]
          /\ after_reply'[k] = after_reply[k]
          /\ k \in holders' <=> k \in holders
          /\ k \in owners' <=> k \in owners
          /\ mode' = mode \/ RebootComing'
      BY <1>1, <2>2, OtherLinks
    <3> QED BY <1>0, <3>1 DEF ReasonInv, LinkReason
  <2> QED BY <2>1, <2>2
<1>2. CASE (\E l \in Links : IdleTimeout(l)) \/ HostGone
  BY <1>0, <1>2 DEF IdleTimeout, HostGone, linkVars, ReasonInv, LinkReason
<1> QED BY <1>1, <1>2 DEF Service, ReasonInv

\* So does every step of the device.
LEMMA ReasonStep ==
  ASSUME TypeInv, UploadInv, ReasonInv, Step
  PROVE  ReasonInv'
<1>0. TypeOK
  BY DEF TypeInv
<1>1. CASE Service
  BY <1>0, <1>1, ReasonService
<1>2. CASE \E l \in Links : ExpireVisit(l)
  <2>1. PICK l \in Links : ExpireStaleUpdate(l)
    BY <1>2 DEF ExpireVisit
  <2>2. UNCHANGED <<task, after_reply, mode, rebooting>>
    BY <2>1 DEF ExpireStaleUpdate
  <2>3. RebootComing' <=> RebootComing
    BY <2>2 DEF RebootComing
  <2>4. ASSUME NEW k \in Links PROVE LinkReason(k)'
    <3>1. \/ UNCHANGED <<owners, holders>>
          \/ owners' = owners \ {l} /\ holders' = holders \ {l}
      BY <2>1 DEF ExpireStaleUpdate, EndUpload, HoldOutput
    <3> QED BY <2>2, <2>3, <3>1 DEF ReasonInv, LinkReason
  <2> QED BY <2>4 DEF ReasonInv
<1>3. CASE RollbackReboots \/ RebootThread \/ SwitchRestart \/ PowerCycle
  <2>1. Reset
    BY <1>3 DEF RollbackReboots, RebootThread, SwitchRestart, PowerCycle
  <2>2. TypeInv'
    BY <2>1, TypeReset
  <2> QED
    BY <2>1, <2>2, ModesAssumption
    DEF Reset, ServiceReset, ReasonInv, LinkReason, TypeInv, TypeOK, SharedTypes
<1>4. CASE UNCHANGED <<linkVars, mode, rebooting>>
  <2>1. RebootComing' <=> RebootComing
    BY <1>4 DEF RebootComing, linkVars
  <2> QED BY <1>4, <2>1 DEF ReasonInv, LinkReason, linkVars
<1>5. CASE HealthTimer \/ HealthQuiet \/ HealthHold \/ HealthRollBack \/ RollbackFails
  BY <1>4, <1>5 DEF HealthTimer, HealthQuiet, HealthHold, HealthRollBack, RollbackFails,
                    serviceVars
<1>6. CASE \/ SampleHold \/ TakeRequest \/ TickNeutral \/ SweepEnds \/ FinishRequest
           \/ \E report \in {"neutral", "moving"} : Tick(report)
  BY <1>4, <1>6 DEF SampleHold, TakeRequest, TickNeutral, SweepEnds, FinishRequest, Tick,
                    serviceVars
<1> QED BY <1>1, <1>2, <1>3, <1>5, <1>6 DEF Step, Loop

\* A service that holds the output uploads, answers, or has a reboot coming.
THEOREM HoldHasReasonCorrect == Spec => []HoldHasReason
<1>1. Init => ReasonInv
  BY ModesAssumption DEF Init, ServiceInit, ReasonInv, LinkReason
<1>2. TypeInv /\ UploadInv /\ ReasonInv /\ [Next]_vars => ReasonInv'
  <2>1. ASSUME ReasonInv, UNCHANGED vars PROVE ReasonInv'
    <3>1. RebootComing' <=> RebootComing
      BY <2>1 DEF RebootComing, vars, serviceVars, linkVars
    <3> QED BY <2>1, <3>1 DEF ReasonInv, LinkReason, vars, serviceVars, linkVars
  <2> QED BY <2>1, ReasonStep DEF Next
<1>3. TypeInv /\ ReasonInv => HoldHasReason
  BY DEF TypeInv, TypeOK, LinkTypes, ReasonInv, LinkReason, HoldHasReason
<1> QED BY <1>1, <1>2, <1>3, TypesCorrect, UploadInvariant, PTL DEF Spec

-----------------------------------------------------------------------------
(***************************************************************************)
(* The polling loop and the gate.                                          *)
(***************************************************************************)

\* What the services do to the gate: accept one request when it is idle.
LEMMA ServiceGate ==
  ASSUME Service
  PROVE  \/ UNCHANGED <<gate, owed>>
         \/ gate = "idle" /\ gate' = "requested" /\ owed' = owed + 1
<1>1. ASSUME NEW l \in Links, Request(l)
      PROVE  \/ UNCHANGED <<gate, owed>>
             \/ gate = "idle" /\ gate' = "requested" /\ owed' = owed + 1
  BY <1>1 DEF Request, PlainRequest, OtaBegin, OtaData, OtaEnds, OtaFinish, Revert, MarkValid,
              Restart, SetInputMode, StartCalibration
<1>2. ASSUME NEW l \in Links, Proceed(l)
      PROVE  UNCHANGED <<gate, owed>>
  BY <1>2 DEF Proceed, BeginSucceeds, BeginFails, RevertSucceeds, RevertFails, ReplyQueued,
              ReplyRefused
<1>3. CASE (\E l \in Links : IdleTimeout(l)) \/ HostGone
  BY <1>3 DEF IdleTimeout, HostGone
<1> QED BY <1>1, <1>2, <1>3 DEF Service

\* Every action keeps the requests accepted and the results owed equal.
LEMMA OwedStep ==
  ASSUME TypeInv, CalibrationOwed, Step
  PROVE  CalibrationOwed'
<1>0. gate \in GateStates /\ owed \in Int
  BY DEF TypeInv, TypeOK, SharedTypes, CountTypes
<1> USE <1>0 DEF CalibrationOwed, GateStates
<1>1. CASE Service /\ UNCHANGED loopVars
  <2>1. UNCHANGED loop
    BY <1>1 DEF loopVars
  <2> QED BY <1>1, <2>1, ServiceGate
<1>2. CASE Loop
  <2>1. CASE HealthQuiet \/ HealthHold \/ HealthRollBack \/ RollbackFails
    BY <2>1 DEF HealthQuiet, HealthHold, HealthRollBack, RollbackFails, serviceVars
  <2>2. CASE RollbackReboots
    BY <2>2 DEF RollbackReboots, Reset, ServiceReset
  <2>3. CASE \E l \in Links : ExpireVisit(l)
    BY <2>3 DEF ExpireVisit, ExpireStaleUpdate
  <2>4. CASE SampleHold
    BY <2>4 DEF SampleHold, serviceVars
  <2>5. CASE TakeRequest
    BY <2>5 DEF TakeRequest
  <2>6. CASE \E report \in {"neutral", "moving"} : Tick(report)
    BY <2>6 DEF Tick, serviceVars
  <2>7. CASE TickNeutral
    BY <2>7 DEF TickNeutral, serviceVars
  <2>8. CASE SweepEnds
    BY <2>8 DEF SweepEnds
  <2>9. CASE FinishRequest
    BY <2>9 DEF FinishRequest
  <2> QED BY <1>2, <2>1, <2>2, <2>3, <2>4, <2>5, <2>6, <2>7, <2>8, <2>9 DEF Loop
<1>3. CASE HealthTimer
  BY <1>3 DEF HealthTimer, serviceVars
<1>4. CASE RebootThread \/ SwitchRestart \/ PowerCycle
  BY <1>4 DEF RebootThread, SwitchRestart, PowerCycle, Reset, ServiceReset
<1> QED BY <1>1, <1>2, <1>3, <1>4 DEF Step

\* Every accepted calibration is owed one result until it is sent.
THEOREM CalibrationOwedCorrect == Spec => []CalibrationOwed
<1>1. Init => CalibrationOwed
  BY DEF Init, ServiceInit, CalibrationOwed
<1>2. TypeInv /\ CalibrationOwed /\ [Next]_vars => CalibrationOwed'
  <2>1. ASSUME CalibrationOwed, UNCHANGED vars PROVE CalibrationOwed'
    BY <2>1 DEF CalibrationOwed, vars, loopVars, serviceVars
  <2> QED BY <2>1, OwedStep DEF Next
<1> QED BY <1>1, <1>2, TypesCorrect, PTL DEF Spec

(***************************************************************************)
(* What one sample of the hold is worth.  The health check's own hold is   *)
(* up since an earlier iteration, so it is what the loop samples from then *)
(* on; and a report can only be late in the iteration whose sample is      *)
(* older than the hold.                                                    *)
(***************************************************************************)
HealthHeld == health \in {"holding", "due"}
Sweeping == loop \in {"neutral", "sweep", "finish"}

SampleInv ==
  /\ late \in 0..1
  /\ late > 0 => output_holds > 0
  /\ loop \in {"take", "tick"} /\ (HealthHeld \/ late > 0) => hold_seen
  /\ Sweeping => ~hold_seen /\ ~HealthHeld /\ late = 0
  /\ loop = "health" /\ HealthHeld => last_report = "neutral"
  /\ NeutralAtRollback

\* A step of the services or of a timer: at most a hold more or less.
LEMMA SampleElsewhere ==
  ASSUME TypeInv, SampleInv, UNCHANGED <<loop, hold_seen, last_report>>, Observe,
         HealthHeld' <=> HealthHeld, output_holds' \in Int
  PROVE  SampleInv'
BY DEF SampleInv, NeutralAtRollback, Observe, Sweeping, TypeInv, LoopTypes, LoopSteps

\* Every action keeps what the loop has sampled and reported in agreement with
\* the hold.
LEMMA SampleStep ==
  ASSUME TypeInv, CountInv, SampleInv, Step, Observe
  PROVE  SampleInv'
<1>0. TypeInv'
  BY TypeStep
<1>1. output_holds' \in Int /\ output_holds \in Int
  BY <1>0 DEF TypeInv, TypeOK, CountTypes
<1>2. HealthHeld => output_holds > 0
  <2>1. Cardinality(holders) \in Nat
    BY HoldersFinite, FS_CardinalityType DEF TypeInv
  <2> QED BY <2>1 DEF HealthHeld, CountInv, HoldCount, HealthHolds
<1>3. CASE Service /\ UNCHANGED loopVars
  BY <1>1, <1>3, SampleElsewhere DEF loopVars, HealthHeld
<1>4. CASE Reset
  BY <1>4 DEF Reset, ServiceReset, SampleInv, NeutralAtRollback, Observe, Sweeping, HealthHeld
<1>5. CASE HealthTimer
  BY <1>1, <1>5, SampleElsewhere DEF HealthTimer, HealthHeld
<1> USE DEF SampleInv, NeutralAtRollback, Observe, Sweeping, HealthHeld
<1>6. CASE Loop
  <2>1. CASE HealthQuiet
    BY <1>1, <2>1 DEF HealthQuiet, serviceVars
  <2>2. CASE HealthHold
    BY <1>1, <2>2 DEF HealthHold
  <2>3. CASE HealthRollBack
    BY <1>1, <2>3 DEF HealthRollBack
  <2>4. CASE RollbackReboots
    BY <1>4, <2>4 DEF RollbackReboots
  <2>5. CASE RollbackFails
    BY <1>1, <2>5 DEF RollbackFails
  <2>6. CASE \E l \in Links : ExpireVisit(l)
    <3>1. UNCHANGED <<loop, hold_seen, last_report, health>>
      BY <2>6 DEF ExpireVisit
    <3> QED BY <1>1, <3>1, SampleElsewhere
  <2>7. CASE SampleHold
    <3>1. /\ loop = "expire" /\ loop' = "take"
          /\ UNCHANGED <<output_holds, health, last_report>>
      BY <2>7 DEF SampleHold, serviceVars
    <3>2. late' = IF output_holds <= 0 THEN 0 ELSE late
      BY <3>1
    <3>3. CASE output_holds > 0
      <4>1. hold_seen'
        BY <2>7, <3>3 DEF SampleHold
      <4> QED BY <1>1, <3>1, <3>2, <3>3, <4>1
    <3>4. CASE ~(output_holds > 0)
      BY <1>1, <1>2, <3>1, <3>2, <3>4
    <3> QED BY <3>3, <3>4
  <2>8. CASE TakeRequest
    BY <1>1, <2>8 DEF TakeRequest
  <2>9. CASE \E report \in {"neutral", "moving"} : Tick(report)
    BY <1>1, <2>9 DEF Tick, serviceVars
  <2>10. CASE TickNeutral
    BY <1>1, <2>10 DEF TickNeutral, serviceVars
  <2>11. CASE SweepEnds
    BY <1>1, <2>11 DEF SweepEnds
  <2>12. CASE FinishRequest
    BY <1>1, <2>12 DEF FinishRequest
  <2> QED
    BY <1>6, <2>1, <2>2, <2>3, <2>4, <2>5, <2>6, <2>7, <2>8, <2>9, <2>10, <2>11, <2>12 DEF Loop
<1> QED BY <1>3, <1>4, <1>5, <1>6 DEF Step, RebootThread, SwitchRestart, PowerCycle

\* The inductive invariant of the loop's sample, with the counter it samples.
LEMMA SampleInvariant == Spec => [](CountInv /\ SampleInv)
<1>1. Init => CountInv
  BY FS_EmptySet DEF Init, ServiceInit, CountInv, HoldCount, HealthHolds
<1>2. Init => SampleInv
  BY DEF Init, ServiceInit, SampleInv, NeutralAtRollback, Sweeping, HealthHeld
<1>3. TypeInv /\ CountInv /\ SampleInv /\ [Next]_vars => CountInv' /\ SampleInv'
  <2>1. ASSUME CountInv, SampleInv, UNCHANGED vars PROVE CountInv' /\ SampleInv'
    BY <2>1 DEF CountInv, HoldCount, HealthHolds, SampleInv, NeutralAtRollback, Sweeping,
                HealthHeld, vars, loopVars, serviceVars, linkVars
  <2> QED BY <2>1, HoldCountStep, SampleStep DEF Next
<1> QED BY <1>1, <1>2, <1>3, TypesCorrect, PTL DEF Spec

\* Once the hold is up, at most one more report moves the pointer.
THEOREM OneLateReportCorrect == Spec => []OneLateReport
<1>1. SampleInv => OneLateReport
  BY DEF SampleInv, OneLateReport
<1> QED BY <1>1, SampleInvariant, PTL

\* The whole state of the device holds values of its types, the count of late reports
\* included.
THEOREM DeviceTypesCorrect == Spec => []DeviceTypeOK
<1>1. TypeInv /\ SampleInv => DeviceTypeOK
  BY DEF TypeInv, LoopTypes, SampleInv, DeviceTypeOK
<1> QED BY <1>1, TypesCorrect, SampleInvariant, PTL

\* The health check rolls back under a neutral report.
THEOREM NeutralAtRollbackCorrect == Spec => []NeutralAtRollback
<1>1. SampleInv => NeutralAtRollback
  BY DEF SampleInv
<1> QED BY <1>1, SampleInvariant, PTL

-----------------------------------------------------------------------------
(***************************************************************************)
(* Refinement: the services are an upload lease.                           *)
(***************************************************************************)

\* How one step changes the set of owners.
LEMMA OwnersStep ==
  ASSUME TypeOK, UploadInv, Step
  PROVE  \/ owners' = owners
         \/ owners' = {}
         \/ owners = {} /\ \E l \in Links : owners' = {l} /\ l \in holders /\ holders' = holders
<1> USE DEF TypeOK, LinkTypes, UploadInv, UploadExclusive
<1>1. ASSUME NEW l \in Links, EndUpload(l) PROVE owners' = {} \/ owners' = owners
  BY <1>1 DEF EndUpload
<1>2. ASSUME NEW l \in Links, Request(l) PROVE owners' = {} \/ owners' = owners
  BY <1>1, <1>2 DEF Request, PlainRequest, OtaBegin, OtaData, OtaEnds, OtaFinish, Revert,
                    MarkValid, Restart, SetInputMode, StartCalibration
<1>3. ASSUME NEW l \in Links, BeginSucceeds(l)
      PROVE  owners = {} /\ owners' = {l} /\ l \in holders /\ holders' = holders
  BY <1>3 DEF BeginSucceeds, Erasing
<1>4. ASSUME NEW l \in Links, Proceed(l), ~BeginSucceeds(l) PROVE owners' = owners
  BY <1>4 DEF Proceed, BeginFails, RevertSucceeds, RevertFails, ReplyQueued, ReplyRefused
<1>5. CASE Service
  BY <1>2, <1>3, <1>4, <1>5 DEF Service, IdleTimeout, HostGone, linkVars
<1>6. CASE \E l \in Links : ExpireVisit(l)
  BY <1>1, <1>6 DEF ExpireVisit, ExpireStaleUpdate
<1>7. CASE RollbackReboots \/ RebootThread \/ SwitchRestart \/ PowerCycle
  BY <1>7 DEF RollbackReboots, RebootThread, SwitchRestart, PowerCycle, Reset, ServiceReset
<1>8. CASE HealthTimer \/ HealthQuiet \/ HealthHold \/ HealthRollBack \/ RollbackFails
  BY <1>8 DEF HealthTimer, HealthQuiet, HealthHold, HealthRollBack, RollbackFails, serviceVars,
              linkVars
<1>9. CASE \/ SampleHold \/ TakeRequest \/ TickNeutral \/ SweepEnds \/ FinishRequest
           \/ \E report \in {"neutral", "moving"} : Tick(report)
  BY <1>9 DEF SampleHold, TakeRequest, TickNeutral, SweepEnds, FinishRequest, Tick, serviceVars,
              linkVars
<1> QED BY <1>5, <1>6, <1>7, <1>8, <1>9 DEF Step, Loop

\* An owner holds, so the counter is positive.
LEMMA OwnerHeld ==
  ASSUME TypeOK, HoldCount, holders # {}
  PROVE  output_holds > 0
<1>1. Cardinality(holders) \in Nat /\ Cardinality(holders) # 0
  BY HoldersFinite, FS_CardinalityType, FS_EmptySet
<1> QED BY <1>1 DEF HoldCount

\* Every action is a step of the abstract lease or leaves it as it is.
LEMMA LeaseStep ==
  ASSUME TypeInv, UploadInv, CountInv, TypeInv', UploadInv', CountInv', Step
  PROVE  Lease!Next \/ UNCHANGED <<owners, output_holds > 0>>
<1> DEFINE held == output_holds > 0
<1>1. owners # {} => held
  BY OwnerHeld DEF TypeInv, CountInv, UploadInv, UploadExclusive
<1>2. owners' # {} => held'
  <2>1. ASSUME owners' # {} PROVE holders' # {}
    BY <2>1 DEF UploadInv, UploadExclusive
  <2>2. ASSUME holders' # {} PROVE held'
    <3>1. Cardinality(holders') \in Nat /\ Cardinality(holders') # 0
      BY <2>2, FS_Subset, FS_CardinalityType, FS_EmptySet, LinksAssumption
      DEF TypeInv, TypeOK, LinkTypes
    <3> QED BY <3>1 DEF CountInv, HoldCount
  <2> QED BY <2>1, <2>2
<1>3. held \in BOOLEAN /\ held' \in BOOLEAN
  OBVIOUS
<1> HIDE DEF held
<1>4. CASE owners' = owners
  BY <1>1, <1>2, <1>3, <1>4 DEF Lease!Next, Lease!Change, held
<1>5. CASE owners' = {} /\ owners # {}
  BY <1>3, <1>5 DEF Lease!Next, Lease!Return, held
<1>6. CASE owners = {} /\ \E l \in Links : owners' = {l} /\ l \in holders /\ holders' = holders
  <2>1. PICK l \in Links : owners' = {l} /\ l \in holders
    BY <1>6
  <2>2. held
    BY <2>1, OwnerHeld DEF TypeInv, CountInv, held
  <2>3. held'
    BY <1>2, <2>1
  <2> QED BY <1>6, <2>1, <2>2, <2>3 DEF Lease!Next, Lease!Grant, held
<1> QED BY <1>4, <1>5, <1>6, OwnersStep DEF TypeInv

\* The device implements the abstract upload lease.
THEOREM ImplementsLeaseCorrect == Spec => ImplementsLease
<1>1. Init => Lease!Init
  BY DEF Init, ServiceInit, Lease!Init
<1>2. /\ TypeInv /\ UploadInv /\ CountInv
      /\ TypeInv' /\ UploadInv' /\ CountInv'
      /\ [Next]_vars
      => [Lease!Next]_<<owners, output_holds > 0>>
  <2>1. ASSUME UNCHANGED vars PROVE UNCHANGED <<owners, output_holds > 0>>
    BY <2>1 DEF vars, serviceVars, linkVars
  <2> QED BY <2>1, LeaseStep DEF Next
<1> QED
  BY <1>1, <1>2, TypesCorrect, UploadInvariant, SampleInvariant, PTL
  DEF Spec, ImplementsLease, Lease!Spec
=============================================================================
