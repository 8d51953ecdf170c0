------------------------- MODULE StickSensorProofs -------------------------
(***************************************************************************)
(* Proofs about the driver and the monitor together, for any thresholds,   *)
(* parts and overrides: what the chip has is what the driver remembers, a  *)
(* reading is scaled as it was measured, and a chip that measures nothing  *)
(* becomes a fault in time.                                                *)
(***************************************************************************)
EXTENDS StickSensor, SensorFaultsProofs

Choices == UNION {ValuesOf(f) : f \in Fields}

\* The types of TmagTypeOK, with the domains and lengths the proofs need.
Shapes ==
  /\ TmagTypeOK
  /\ chip \in [Fields -> Choices] /\ cache \in [Cached -> Choices]
  /\ todo \in Seq([field : Fields, value : Choices])
  /\ \A f \in DOMAIN held : held[f] \in ValuesOf(f)

\* While initialize() runs, the fields that are left are set to what they are configured
\* with.
Rest ==
  stage = "set" =>
    /\ todo # <<>>
    /\ \A i \in 1..Len(todo) :
         todo[i].field \in Setup /\ todo[i].value = cache[todo[i].field]

Left(f) == stage = "set" /\ \E i \in 1..Len(todo) : todo[i].field = f

\* Only a driver that is in initialize(), or done with it, has anything to set, and only
\* such a chip has something to lose.
Idle ==
  /\ stage \notin {"set", "ready"} => todo = <<>>
  /\ stage \in {"connect", "detect"} => ~lost

\* What was read of a register is still in it.
HeldIsChip == held # NotRead /\ ~lost => \A f \in DOMAIN held : held[f] = chip[f]

\* The fields that are not left are set.
Done ==
  stage \in {"set", "ready"} /\ ~lost =>
    \A f \in Setup \ doubt : Left(f) \/ chip[f] = cache[f]

DriverInv == Shapes /\ Rest /\ Idle /\ HeldIsChip /\ Done

-----------------------------------------------------------------------------
\* What the tables of the module say.
LEMMA FieldsKnown ==
  Fields = {"average", "trigger", "mode", "low_noise", "channels", "xy_range", "z_range", "angle"}
BY DEF Fields, Registers

LEMMA CachedKnown ==
  Cached = {"average", "mode", "low_noise", "channels", "xy_range", "z_range", "angle"}
BY DEF Cached, Configuration

LEMMA OrderKnown ==
  /\ DOMAIN SetupOrder = 1..6
  /\ SetupOrder[1] = "channels" /\ SetupOrder[2] = "xy_range" /\ SetupOrder[3] = "z_range"
  /\ SetupOrder[4] = "average" /\ SetupOrder[5] = "low_noise" /\ SetupOrder[6] = "mode"
BY DEF SetupOrder

LEMMA SetupKnown ==
  /\ Setup \subseteq Cached /\ Cached \subseteq Fields
  /\ \A i \in 1..6 : SetupOrder[i] \in Setup
  /\ \A f \in Setup : \E i \in 1..6 : SetupOrder[i] = f
BY OrderKnown, FieldsKnown, CachedKnown DEF Setup

LEMMA ValuesKnown ==
  /\ ValuesOf("average") = {"AVG_1", "AVG_32"} /\ ValuesOf("trigger") = {"STANDBY"}
  /\ ValuesOf("mode") = {"STANDBY", "CONTINUOUS"} /\ ValuesOf("low_noise") = {"OFF", "ON"}
  /\ ValuesOf("channels") = {"OFF", "XYZ"} /\ ValuesOf("xy_range") = {"LOW", "HIGH"}
  /\ ValuesOf("z_range") = {"LOW", "HIGH"} /\ ValuesOf("angle") = {"OFF", "ANGLE_XY"}
BY DEF ValuesOf, Values

\* The registers' contents when the power comes on, and the configuration, are of their
\* fields' values.
LEMMA PowerOnTyped ==
  PowerOn \in [Fields -> Choices] /\ \A f \in Fields : PowerOn[f] \in ValuesOf(f)
<1>1. \A f \in Fields : Values[f][1] \in ValuesOf(f)
  BY FieldsKnown DEF ValuesOf, Values
<1> QED
  BY <1>1 DEF PowerOn, Choices

LEMMA ConfigurationTyped ==
  Configuration \in [Cached -> Choices] /\ \A f \in Cached : Configuration[f] \in ValuesOf(f)
<1>1. \A f \in Cached : Configuration[f] \in ValuesOf(f)
  BY CachedKnown, ValuesKnown DEF Configuration
<1>2. Configuration = [f \in Cached |-> Configuration[f]]
  BY DEF Cached, Configuration
<1> QED
  BY <1>1, <1>2, SetupKnown DEF Choices

\* A field is in its register, which holds fields.
LEMMA RegisterHasField ==
  ASSUME NEW f \in Fields
  PROVE  f \in RegisterWith(f) /\ RegisterWith(f) \subseteq Fields
<1>1. \E fields \in {Registers[r] : r \in DOMAIN Registers} : f \in fields
  BY DEF Fields
<1>2. RegisterWith(f) \in {Registers[r] : r \in DOMAIN Registers} /\ f \in RegisterWith(f)
  BY <1>1 DEF RegisterWith
<1> QED
  BY <1>2 DEF Fields

\* The register that was read is not the empty record.
LEMMA NotReadIsEmpty == DOMAIN NotRead = {}
BY DEF NotRead

-----------------------------------------------------------------------------
\* A driver has nothing to set before initialize() begins.
LEMMA DriverInvInit == TmagInit => DriverInv
<1> SUFFICES ASSUME TmagInit PROVE DriverInv
  OBVIOUS
<1>1. /\ chip = PowerOn /\ cache = Configuration /\ todo = <<>> /\ held = NotRead
      /\ stage = "connect" /\ lost = FALSE
  BY DEF TmagInit, Constructed
<1>2. Shapes
  <2>1. DOMAIN todo = {} /\ todo \in Seq([field : Fields, value : Choices])
    BY <1>1
  <2>2. chip \in [Fields -> Choices] /\ \A f \in Fields : chip[f] \in ValuesOf(f)
    BY <1>1, PowerOnTyped
  <2>3. cache \in [Cached -> Choices] /\ \A f \in Cached : cache[f] \in ValuesOf(f)
    BY <1>1, ConfigurationTyped
  <2>4. variant \in {"A1", "A2"} /\ override \in Overrides
    BY DEF TmagInit, Constructed
  <2> QED
    BY <1>1, <2>1, <2>2, <2>3, <2>4, NotReadIsEmpty DEF TmagInit, Shapes, TmagTypeOK
<1>3. Rest /\ Idle /\ HeldIsChip /\ Done
  BY <1>1 DEF Rest, Idle, HeldIsChip, Done
<1> QED
  BY <1>2, <1>3 DEF DriverInv

\* The first and the others of a sequence.
LEMMA HeadAndTail ==
  ASSUME NEW S, NEW s \in Seq(S), s # <<>>
  PROVE  /\ Head(s) \in S /\ Tail(s) \in Seq(S) /\ Head(s) = s[1]
         /\ Len(s) \in Nat \ {0} /\ Len(Tail(s)) = Len(s) - 1
         /\ \A i \in 1..Len(Tail(s)) : Tail(s)[i] = s[i + 1]
OBVIOUS

\* A field that cannot be set leaves nothing to set.
LEMMA FailsKeeps ==
  ASSUME Fails, TmagTypeOK
  PROVE  /\ todo' = <<>> /\ held' = NotRead
         /\ stage' \in {"ready", "halted"} /\ (stage' = "ready" => stage = "ready")
         /\ todo' \in Seq([field : Fields, value : Choices])
         /\ \A f \in DOMAIN held' : held'[f] \in ValuesOf(f)
BY NotReadIsEmpty DEF Fails, TmagTypeOK

\* is_connected() and detect_variant(): the setters' order is laid out, of the fields
\* that are configured.
LEMMA InitializeKeeps ==
  ASSUME DriverInv, IsConnected \/ DetectVariant
  PROVE  DriverInv'
<1>1. CASE IsConnected
  <2>1. Shapes'
    <3>1. CASE bus
      BY <1>1, <3>1 DEF DriverInv, IsConnected, Shapes, TmagTypeOK, chipVars, notes
    <3>2. CASE ~bus
      BY <1>1, <3>2, FailsKeeps
         DEF DriverInv, IsConnected, Shapes, TmagTypeOK, chipVars, notes
    <3> QED
      BY <3>1, <3>2
  <2>2. (Rest /\ Idle /\ HeldIsChip /\ Done)'
    BY <1>1
       DEF DriverInv, IsConnected, Fails, Rest, Idle, HeldIsChip, Done, Left, chipVars, notes
  <2> QED
    BY <2>1, <2>2 DEF DriverInv
<1>2. CASE DetectVariant
  <2> DEFINE items == [i \in 1..6 |-> [field |-> SetupOrder[i], value |-> cache[SetupOrder[i]]]]
  <2>1. /\ todo' = items /\ stage' = "set" /\ lost' = lost /\ held' = held
        /\ cache' = cache /\ chip' = chip /\ doubt' = doubt
    BY <1>2, OrderKnown DEF DetectVariant, chipVars
  <2>2. items \in Seq([field : Fields, value : Choices]) /\ Len(items) = 6 /\ items # <<>>
    <3>1. \A i \in 1..6 : items[i] \in [field : Fields, value : Choices]
      BY SetupKnown DEF DriverInv, Shapes
    <3>2. items \in Seq([field : Fields, value : Choices]) /\ Len(items) = 6
      BY <3>1
    <3> QED
      BY <3>2
  <2>3. \A i \in 1..6 : items[i].field \in Setup /\ items[i].value = cache[items[i].field]
    BY SetupKnown
  <2>4. \A f \in Setup : \E i \in 1..6 : items[i].field = f
    BY SetupKnown
  <2>5. held = NotRead
    BY <1>2 DEF DetectVariant, DriverInv, Idle, Shapes, TmagTypeOK
  <2> HIDE DEF items
  <2>6. TmagTypeOK'
    <3>1. variant' \in {"A1", "A2"} /\ detected' \in BOOLEAN
      BY <1>2, TmagAssumption DEF DetectVariant, DriverInv, Shapes, TmagTypeOK
    <3>2. \A i \in DOMAIN items : items[i].value \in ValuesOf(items[i].field)
      BY <2>2, <2>3, SetupKnown DEF DriverInv, Shapes, TmagTypeOK
    <3> QED
      BY <1>2, <2>1, <2>5, <3>1, <3>2
         DEF DetectVariant, DriverInv, Shapes, TmagTypeOK, chipVars
  <2>7. Shapes'
    BY <2>1, <2>2, <2>6 DEF DriverInv, Shapes
  <2>8. Rest'
    BY <2>1, <2>2, <2>3 DEF Rest
  <2>9. Idle' /\ HeldIsChip'
    BY <2>1, <2>5 DEF Idle, HeldIsChip
  <2>10. Done'
    BY <2>1, <2>2, <2>4 DEF Done, Left
  <2> QED
    BY <2>7, <2>8, <2>9, <2>10 DEF DriverInv
<1> QED
  BY <1>1, <1>2

\* The read of a setter: what is held is what the chip has.
LEMMA ReadKeeps ==
  ASSUME DriverInv, ReadsRegister
  PROVE  DriverInv'
<1>1. todo # <<>> /\ Head(todo) \in [field : Fields, value : Choices]
  BY HeadAndTail DEF ReadsRegister, DriverInv, Shapes
<1>2. CASE bus
  <2>1. /\ held' = [f \in RegisterWith(Head(todo).field) |-> chip[f]]
        /\ todo' = todo /\ stage' = stage /\ cache' = cache /\ chip' = chip
        /\ doubt' = doubt /\ lost' = lost
    BY <1>2 DEF ReadsRegister, chipVars, notes
  <2>2. Shapes'
    <3>1. \A f \in Fields : chip[f] \in ValuesOf(f)
      BY DEF DriverInv, Shapes, TmagTypeOK
    <3>2. DOMAIN held' = RegisterWith(Head(todo).field) /\ \A f \in DOMAIN held' : held'[f] \in ValuesOf(f)
      BY <1>1, <2>1, <3>1, RegisterHasField
    <3>3. TmagTypeOK'
      BY <1>1, <1>2, <2>1, <3>2 DEF ReadsRegister, DriverInv, Shapes, TmagTypeOK, chipVars, notes
    <3> QED
      BY <2>1, <3>2, <3>3 DEF DriverInv, Shapes
  <2>3. Rest' /\ Idle' /\ HeldIsChip' /\ Done'
    BY <2>1 DEF DriverInv, Rest, Idle, HeldIsChip, Done, Left
  <2> QED
    BY <2>2, <2>3 DEF DriverInv
<1>3. CASE ~bus
  <2>1. Fails /\ UNCHANGED <<chipVars, override, variant, cache, notes>>
    BY <1>3 DEF ReadsRegister
  <2>2. Shapes'
    BY <2>1, FailsKeeps DEF DriverInv, Shapes, TmagTypeOK, chipVars, notes
  <2>3. Rest' /\ Idle' /\ HeldIsChip' /\ Done'
    BY <2>1, FailsKeeps
       DEF DriverInv, Shapes, Rest, Idle, HeldIsChip, Done, Left, chipVars, notes
  <2> QED
    BY <2>2, <2>3 DEF DriverInv
<1> QED
  BY <1>2, <1>3

\* What a setter writes: its field's new value, and the others of the register as they
\* were read, which is as they are when the chip kept its power.
LEMMA WhatIsWritten ==
  ASSUME DriverInv, todo # <<>>, held # NotRead,
         NEW f, f = Head(todo).field, NEW v, v = Head(todo).value
  PROVE  /\ f \in Fields /\ v \in ValuesOf(f)
         /\ DOMAIN held = RegisterWith(f)
         /\ Written \in [Fields -> Choices] /\ \A g \in Fields : Written[g] \in ValuesOf(g)
         /\ Written[f] = v
         /\ \A g \in Fields \ {f} : Written[g] = IF g \in DOMAIN held THEN held[g] ELSE chip[g]
         /\ ~lost => \A g \in Fields \ {f} : Written[g] = chip[g]
<1>1. Head(todo) \in [field : Fields, value : Choices] /\ Head(todo) = todo[1] /\ 1 \in DOMAIN todo
  <2>1. /\ todo \in Seq([field : Fields, value : Choices])
        /\ Head(todo) \in [field : Fields, value : Choices] /\ Head(todo) = todo[1]
        /\ Len(todo) \in Nat \ {0}
    BY HeadAndTail DEF DriverInv, Shapes
  <2>2. DOMAIN todo = 1..Len(todo)
    BY <2>1
  <2> QED
    BY <2>1, <2>2
<1>2. f \in Fields /\ v \in ValuesOf(f)
  BY <1>1 DEF DriverInv, Shapes, TmagTypeOK
<1>3. DOMAIN held = RegisterWith(f) /\ f \in DOMAIN held /\ DOMAIN held \subseteq Fields
  BY <1>2, RegisterHasField DEF DriverInv, Shapes, TmagTypeOK
<1>4. \A g \in DOMAIN held : held[g] \in ValuesOf(g)
  BY DEF DriverInv, Shapes
<1>5. \A g \in Fields : chip[g] \in ValuesOf(g)
  BY DEF DriverInv, Shapes, TmagTypeOK
<1>6. Written = [g \in Fields |-> IF g = f THEN v ELSE IF g \in DOMAIN held THEN held[g] ELSE chip[g]]
  BY <1>2, <1>3 DEF Written, Changed
<1>7. Written[f] = v /\ \A g \in Fields \ {f} :
        Written[g] = IF g \in DOMAIN held THEN held[g] ELSE chip[g]
  BY <1>2, <1>6
<1>8. \A g \in Fields : Written[g] \in ValuesOf(g)
  BY <1>2, <1>4, <1>5, <1>7
<1>9. Written \in [Fields -> Choices]
  BY <1>6, <1>8 DEF Choices
<1>10. ~lost => \A g \in Fields \ {f} : Written[g] = chip[g]
  BY <1>7 DEF DriverInv, HeldIsChip
<1> QED
  BY <1>2, <1>3, <1>7, <1>8, <1>9, <1>10

\* A field that is left and is not the one being set stays left.
LEMMA LeftStays ==
  ASSUME DriverInv, todo # <<>>, todo' = Tail(todo),
         stage' = IF Tail(todo) = <<>> THEN "ready" ELSE stage,
         NEW g, Left(g), g # Head(todo).field
  PROVE  Left(g)'
<1>1. /\ Head(todo) = todo[1] /\ Len(todo) \in Nat \ {0} /\ Len(todo') = Len(todo) - 1
      /\ \A i \in 1..Len(todo') : todo'[i] = todo[i + 1]
      /\ todo' \in Seq([field : Fields, value : Choices])
  BY HeadAndTail DEF DriverInv, Shapes
<1>2. PICK i \in 1..Len(todo) : todo[i].field = g
  BY DEF Left
<1>3. i - 1 \in 1..Len(todo') /\ todo'[i - 1].field = g
  BY <1>1, <1>2
<1>4. Tail(todo) # <<>>
  <2>1. Len(todo') # 0
    BY <1>1, <1>3
  <2> QED
    BY <2>1
<1> QED
  BY <1>3, <1>4 DEF Left

\* The write that works: the field is set, in the chip and in what is remembered.
LEMMA WriteWorks ==
  ASSUME DriverInv, todo # <<>>, WritesRegister, bus
  PROVE  DriverInv'
<1> DEFINE f == Head(todo).field
           v == Head(todo).value
<1>1. /\ f \in Fields /\ v \in ValuesOf(f)
      /\ Written \in [Fields -> Choices] /\ \A g \in Fields : Written[g] \in ValuesOf(g)
      /\ ~lost => Written[f] = v /\ \A g \in Fields \ {f} : Written[g] = chip[g]
  BY WhatIsWritten DEF WritesRegister
<1>2. /\ chip' = Written /\ cache' = Remembered(f, v, TRUE) /\ doubt' = doubt \ {f}
      /\ unmeasured' = unmeasured \cup {f}
      /\ todo' = Tail(todo) /\ held' = NotRead
      /\ stage' = IF Tail(todo) = <<>> THEN "ready" ELSE stage
      /\ UNCHANGED <<part, measured, bus, override, variant, detected, lost, revived>>
  BY DEF WritesRegister, AfterSet
<1>3. /\ cache' \in [Cached -> Choices] /\ \A g \in Cached : cache'[g] \in ValuesOf(g)
      /\ \A g \in Cached : cache'[g] = IF g = f THEN v ELSE cache[g]
  BY <1>1, <1>2 DEF Remembered, DriverInv, Shapes, TmagTypeOK, Choices
<1>4. /\ Head(todo) = todo[1] /\ todo' \in Seq([field : Fields, value : Choices])
      /\ Len(todo) \in Nat \ {0} /\ Len(todo') = Len(todo) - 1
      /\ \A i \in 1..Len(todo') : todo'[i] = todo[i + 1]
  BY <1>2, HeadAndTail DEF DriverInv, Shapes
<1>5. stage \in {"set", "ready"}
  BY DEF DriverInv, Idle, Shapes, TmagTypeOK
<1> HIDE DEF f, v
<1>6. Shapes'
  <2>1. \A i \in DOMAIN todo' : todo'[i].value \in ValuesOf(todo'[i].field)
    <3>1. DOMAIN todo' = 1..Len(todo') /\ DOMAIN todo = 1..Len(todo)
      BY <1>4 DEF DriverInv, Shapes
    <3>2. \A i \in 1..Len(todo) : todo[i].value \in ValuesOf(todo[i].field)
      BY <3>1 DEF DriverInv, Shapes, TmagTypeOK
    <3> QED
      BY <1>4, <3>1, <3>2
  <2>2. \A g \in DOMAIN held' : held'[g] \in ValuesOf(g)
    BY <1>2, NotReadIsEmpty
  <2>3. TmagTypeOK'
    BY <1>1, <1>2, <1>3, <1>5, <2>1 DEF DriverInv, Shapes, TmagTypeOK
  <2> QED
    BY <1>1, <1>2, <1>3, <1>4, <2>2, <2>3 DEF Shapes
<1>7. Rest'
  <2>1. SUFFICES ASSUME stage' = "set"
                 PROVE  /\ todo' # <<>>
                        /\ \A i \in 1..Len(todo') :
                             todo'[i].field \in Setup /\ todo'[i].value = cache'[todo'[i].field]
    BY DEF Rest
  <2>2. stage = "set" /\ todo' # <<>>
    BY <1>2, <2>1
  <2>3. \A i \in 1..Len(todo) : todo[i].field \in Setup /\ todo[i].value = cache[todo[i].field]
    BY <2>2 DEF DriverInv, Rest
  <2>4. v = cache[f]
    BY <1>4, <2>3 DEF f, v
  <2>5. ASSUME NEW i \in 1..Len(todo')
        PROVE  todo'[i].field \in Setup /\ todo'[i].value = cache'[todo'[i].field]
    <3>1. i + 1 \in 1..Len(todo) /\ todo'[i] = todo[i + 1]
      BY <1>4
    <3>2. todo'[i].field \in Setup /\ todo'[i].value = cache[todo'[i].field]
      BY <2>3, <3>1
    <3>3. todo'[i].field \in Cached
      BY <3>2, SetupKnown
    <3> QED
      BY <1>3, <2>4, <3>2, <3>3
  <2> QED
    BY <2>2, <2>5
<1>8. Idle' /\ HeldIsChip'
  BY <1>2, <1>5 DEF Idle, HeldIsChip
<1>9. Done'
  <2>1. SUFFICES ASSUME ~lost, NEW g \in Setup \ doubt'
                 PROVE  Left(g)' \/ chip'[g] = cache'[g]
    BY <1>2 DEF Done
  <2>2. g \in Fields /\ g \in Cached
    BY SetupKnown
  <2>3. CASE g = f
    BY <1>1, <1>2, <1>3, <2>1, <2>2, <2>3
  <2>4. CASE g # f
    <3>1. g \notin doubt /\ chip'[g] = chip[g] /\ cache'[g] = cache[g]
      BY <1>1, <1>2, <1>3, <2>1, <2>2, <2>4
    <3>2. CASE chip[g] = cache[g]
      BY <3>1, <3>2
    <3>3. CASE Left(g)
      BY <1>2, <2>4, <3>3, LeftStays DEF f
    <3> QED
      BY <1>5, <2>1, <3>1, <3>2, <3>3 DEF DriverInv, Done
  <2> QED
    BY <2>3, <2>4
<1> QED
  BY <1>6, <1>7, <1>8, <1>9 DEF DriverInv

\* The write that fails: the field is set all the same and in doubt, or it is not.
LEMMA WriteFails ==
  ASSUME DriverInv, todo # <<>>, WritesRegister, ~bus
  PROVE  DriverInv'
<1> DEFINE f == Head(todo).field
           v == Head(todo).value
<1>1. /\ f \in Fields
      /\ Written \in [Fields -> Choices] /\ \A g \in Fields : Written[g] \in ValuesOf(g)
      /\ ~lost => \A g \in Fields \ {f} : Written[g] = chip[g]
  BY WhatIsWritten DEF WritesRegister
<1>2. /\ chip' \in {chip, Written} /\ cache' = cache /\ Fails
      /\ doubt' = IF chip' # chip THEN doubt \cup {f} ELSE doubt
      /\ unmeasured' = unmeasured \cup {f}
      /\ UNCHANGED <<part, measured, bus, override, variant, detected, lost, revived>>
  BY DEF WritesRegister, AfterSet, Remembered
<1>3. /\ todo' = <<>> /\ held' = NotRead
      /\ stage' \in {"ready", "halted"} /\ (stage' = "ready" => stage = "ready")
      /\ todo' \in Seq([field : Fields, value : Choices])
  BY <1>2, FailsKeeps DEF DriverInv, Shapes
<1> HIDE DEF f, v
<1>4. Shapes'
  <2>1. chip' \in [Fields -> Choices] /\ \A g \in Fields : chip'[g] \in ValuesOf(g)
    BY <1>1, <1>2 DEF DriverInv, Shapes, TmagTypeOK
  <2>2. \A g \in DOMAIN held' : held'[g] \in ValuesOf(g)
    BY <1>3, NotReadIsEmpty
  <2>3. TmagTypeOK'
    BY <1>1, <1>2, <1>3, <2>1 DEF DriverInv, Shapes, TmagTypeOK
  <2> QED
    BY <1>2, <1>3, <2>1, <2>2, <2>3 DEF DriverInv, Shapes
<1>5. Rest' /\ Idle' /\ HeldIsChip'
  BY <1>3 DEF Rest, Idle, HeldIsChip
<1>6. Done'
  <2>1. SUFFICES ASSUME stage' = "ready", ~lost, NEW g \in Setup \ doubt'
                 PROVE  chip'[g] = cache'[g]
    BY <1>2, <1>3 DEF Done
  <2>2. stage = "ready" /\ g \notin doubt /\ g \in Fields
    BY <1>2, <1>3, <2>1, SetupKnown
  <2>3. chip[g] = cache[g]
    BY <2>1, <2>2 DEF DriverInv, Done, Left
  <2>4. chip'[g] = chip[g]
    BY <1>1, <1>2, <2>1, <2>2
  <2> QED
    BY <1>2, <2>3, <2>4
<1> QED
  BY <1>4, <1>5, <1>6 DEF DriverInv

\* A call of a setter changes nothing yet.
LEMMA CallKeeps ==
  ASSUME DriverInv, NEW f \in Fields, NEW v \in ValuesOf(f), Calls(f, v)
  PROVE  DriverInv'
<1>1. /\ stage = "ready" /\ stage' = stage /\ todo = <<>>
      /\ todo' = <<[field |-> f, value |-> v]>>
      /\ UNCHANGED <<chipVars, override, variant, cache, held, detected, lost, doubt, unmeasured>>
  BY DEF Calls
<1>2. revived' \in BOOLEAN
  BY DEF Calls, DriverInv, Shapes, TmagTypeOK
<1>3. /\ todo' \in Seq([field : Fields, value : Choices]) /\ DOMAIN todo' = {1}
      /\ todo'[1].field = f /\ todo'[1].value = v
  BY <1>1 DEF Choices
<1>4. held = NotRead
  BY <1>1 DEF DriverInv, Shapes, TmagTypeOK
<1>5. Shapes'
  BY <1>1, <1>2, <1>3, <1>4 DEF DriverInv, Shapes, TmagTypeOK, chipVars
<1>6. Rest' /\ Idle' /\ HeldIsChip' /\ Done'
  BY <1>1, <1>4 DEF DriverInv, Rest, Idle, HeldIsChip, Done, Left, chipVars
<1> QED
  BY <1>5, <1>6 DEF DriverInv

LEMMA SettersKeep ==
  ASSUME DriverInv, Setters
  PROVE  DriverInv'
BY CallKeeps, FieldsKnown, ValuesKnown
   DEF Setters, SetOperatingMode, SetMagneticChannels, SetXyRange, SetZRange,
       SetConversionAverage, SetLowNoise, SetAngleConversion, TriggerConversion

\* What the chip and the bus do on their own.
LEMMA ChipKeeps ==
  ASSUME DriverInv, Converts \/ PowerCycles \/ BusChanges
  PROVE  DriverInv'
<1>1. CASE Converts
  <2>1. measured' \in Ranges /\ unmeasured' = {}
    BY <1>1, FieldsKnown, ValuesKnown DEF Converts, DriverInv, Shapes, TmagTypeOK, Ranges
  <2>2. UNCHANGED <<chip, part, bus, driverVars, detected, lost, revived, doubt>>
    BY <1>1 DEF Converts
  <2>3. Shapes'
    BY <2>1, <2>2 DEF DriverInv, Shapes, TmagTypeOK, driverVars
  <2>4. Rest' /\ Idle' /\ HeldIsChip' /\ Done'
    BY <2>2 DEF DriverInv, Rest, Idle, HeldIsChip, Done, Left, driverVars
  <2> QED
    BY <2>3, <2>4 DEF DriverInv
<1>2. CASE PowerCycles
  <2>1. /\ chip' = PowerOn /\ measured' = NoResult
        /\ lost' = (lost \/ stage \in {"set", "ready"})
        /\ UNCHANGED <<part, bus, driverVars, detected, revived, doubt, unmeasured>>
    BY <1>2 DEF PowerCycles
  <2>2. lost' \in BOOLEAN
    BY <2>1 DEF DriverInv, Shapes, TmagTypeOK
  <2>3. Shapes'
    BY <2>1, <2>2, PowerOnTyped DEF DriverInv, Shapes, TmagTypeOK, driverVars
  <2>4. Rest' /\ Idle' /\ Done'
    BY <2>1 DEF DriverInv, Rest, Idle, Done, driverVars
  <2>5. HeldIsChip'
    BY <2>1 DEF DriverInv, Shapes, TmagTypeOK, Idle, HeldIsChip, driverVars
  <2> QED
    BY <2>3, <2>4, <2>5 DEF DriverInv
<1>3. CASE BusChanges
  <2>1. bus' \in BOOLEAN /\ UNCHANGED <<chip, part, measured, driverVars, notes>>
    BY <1>3 DEF BusChanges, DriverInv, Shapes, TmagTypeOK
  <2>2. Shapes'
    BY <2>1 DEF DriverInv, Shapes, TmagTypeOK, driverVars, notes
  <2>3. Rest' /\ Idle' /\ HeldIsChip' /\ Done'
    BY <2>1 DEF DriverInv, Rest, Idle, HeldIsChip, Done, Left, driverVars, notes
  <2> QED
    BY <2>2, <2>3 DEF DriverInv
<1> QED
  BY <1>1, <1>2, <1>3

\* A new driver over a chip that keeps what an earlier one set.
LEMMA RestartKeeps ==
  ASSUME DriverInv, Restarts
  PROVE  DriverInv'
<1>1. /\ cache' = Configuration /\ variant' \in {"A1", "A2"} /\ stage' = "connect"
      /\ todo' = <<>> /\ held' = NotRead
      /\ detected' = FALSE /\ lost' = FALSE /\ revived' = FALSE
      /\ doubt' = {} /\ unmeasured' = {} /\ UNCHANGED <<chipVars, override>>
  BY DEF Restarts, Constructed
<1>2. Shapes'
  <2>1. DOMAIN todo' = {} /\ todo' \in Seq([field : Fields, value : Choices])
    BY <1>1
  <2>2. cache' \in [Cached -> Choices] /\ \A f \in Cached : cache'[f] \in ValuesOf(f)
    BY <1>1, ConfigurationTyped
  <2> QED
    BY <1>1, <2>1, <2>2, NotReadIsEmpty DEF DriverInv, Shapes, TmagTypeOK, chipVars
<1>3. Rest' /\ Idle' /\ HeldIsChip' /\ Done'
  BY <1>1 DEF Rest, Idle, HeldIsChip, Done
<1> QED
  BY <1>2, <1>3 DEF DriverInv

\* Every step of the device keeps the driver's invariant.
LEMMA DriverStep ==
  ASSUME DriverInv, [Next]_vars
  PROVE  DriverInv'
<1>1. CASE UNCHANGED tmagVars
  BY <1>1
     DEF DriverInv, Shapes, TmagTypeOK, Rest, Idle, HeldIsChip, Done, Left, tmagVars, chipVars,
         driverVars, notes
<1>2. CASE Drives
  BY <1>2, InitializeKeeps, ReadKeeps, WriteWorks, WriteFails
     DEF Drives, DriverSteps, WritesRegister, DriverInv, Shapes, TmagTypeOK
<1>3. CASE Retunes
  BY <1>3, SettersKeep DEF Retunes
<1>4. CASE ChipConverts \/ PowerFails \/ BusFails \/ BusReturns
  BY <1>4, ChipKeeps DEF ChipConverts, PowerFails, BusFails, BusReturns
<1>5. CASE ControllerRestarts
  BY <1>5, RestartKeeps DEF ControllerRestarts
<1>6. CASE PollsSensor \/ ChipIdles
  BY <1>1, <1>6 DEF PollsSensor, ChipIdles
<1> QED
  BY <1>1, <1>2, <1>3, <1>4, <1>5, <1>6 DEF Next, vars

-----------------------------------------------------------------------------
\* The polls' own part of TypeOK.
PollTypes ==
  /\ shows \in Kinds \ {"silent"}
  /\ reading \in [of : Ranges \cup {NoResult}, used : Ranges \cup {NoResult},
                  as : {"A1", "A2"}, sure : SUBSET {"xy", "z"}]
  /\ blind \in 0..BlindLimit
  /\ events \in 0..MaxEvents

LEMMA PollTypesStep ==
  ASSUME DriverInv, PollTypes, [Next]_vars
  PROVE  PollTypes'
<1> USE EventsAssumption, ConfigAssumption
<1>1. CASE UNCHANGED vars
  BY <1>1 DEF vars, PollTypes
<1>2. CASE Drives \/ BusReturns
  BY <1>2 DEF Drives, BusReturns, PollTypes
<1>3. CASE Retunes \/ BusFails
  BY <1>3 DEF Retunes, BusFails, PollTypes
<1>4. CASE PollsSensor
  <2>1. events' = events
    BY <1>4 DEF PollsSensor
  <2>2. CASE ~bus
    BY <1>4, <2>1, <2>2 DEF PollsSensor, PollTypes
  <2>3. CASE bus
    <3>1. /\ shows' = "frozen"
          /\ reading' = [of |-> measured, used |-> Scales, as |-> variant, sure |-> Sure]
          /\ blind' = IF measured = NoResult THEN Increment(blind, BlindLimit) ELSE blind
      BY <1>4, <2>3 DEF PollsSensor
    <3>2. measured \in Ranges \cup {NoResult} /\ variant \in {"A1", "A2"}
      BY DEF DriverInv, Shapes, TmagTypeOK
    <3>3. Scales \in Ranges
      BY CachedKnown, ValuesKnown DEF DriverInv, Shapes, TmagTypeOK, Scales, Ranges
    <3>4. Sure \subseteq {"xy", "z"}
      BY DEF Sure
    <3>5. blind' \in 0..BlindLimit
      BY <3>1, IncrementBounded DEF PollTypes, BlindLimit
    <3> QED
      BY <2>1, <3>1, <3>2, <3>3, <3>4, <3>5 DEF PollTypes, Kinds
  <2> QED
    BY <2>2, <2>3
<1>5. CASE ChipConverts \/ ChipIdles
  BY <1>5 DEF ChipConverts, ChipIdles, PollTypes, Kinds, BlindLimit
<1>6. CASE PowerFails
  BY <1>6 DEF PowerFails, PollTypes, Kinds
<1>7. CASE ControllerRestarts
  BY <1>7 DEF ControllerRestarts, PollTypes, NoReading, BlindLimit
<1> QED
  BY <1>1, <1>2, <1>3, <1>4, <1>5, <1>6, <1>7 DEF Next

\* The monitor sees polls that work or fail, and is new after a restart.
LEMMA MonitorStep ==
  ASSUME SensorInv, PollTypes, [Next]_vars
  PROVE  SensorInv'
<1>1. CASE UNCHANGED sensorVars
  BY <1>1, SensorStep
<1>2. CASE PollsSensor
  BY <1>2, SensorStep DEF PollsSensor, NextPoll, PollTypes, Kinds
<1>3. CASE ControllerRestarts
  <2>1. /\ monitor' = [fault |-> "none", first |-> "none", failed |-> 0, good |-> 0,
                       identical |-> 0, stale |-> 0, seen |-> FALSE]
        /\ good_reads' = 0 /\ published' = "not_observed" /\ poll' = "none"
        /\ failing' = 0 /\ frozen' = 0 /\ steady' = 0
    BY <1>3 DEF ControllerRestarts
  <2> QED
    BY <2>1, ConfigAssumption
       DEF SensorInv, SensorTypeOK, Failures, Streaks, Frozen, Reported, Monitors, Faults, Kinds,
           Faulted
<1>4. CASE Drives \/ Retunes \/ ChipConverts \/ ChipIdles \/ PowerFails \/ BusFails \/ BusReturns
  BY <1>1, <1>4 DEF Drives, Retunes, ChipConverts, ChipIdles, PowerFails, BusFails, BusReturns
<1> QED
  BY <1>1, <1>2, <1>3, <1>4 DEF Next, vars

-----------------------------------------------------------------------------
\* A chip that has measured nothing since it lost its power reads the same at every poll,
\* and the monitor has counted each but the first.
Blindness ==
  /\ measured # NoResult => blind = 0
  /\ blind > 0 => monitor.seen /\ shows \in {"frozen", "still"} /\ blind - 1 <= monitor.identical
  /\ StuckAfter > 0 /\ monitor.identical >= StuckAfter => Faulted(monitor)

\* The streak of identical readings after a poll.
LEMMA IdenticalAfterFailure ==
  ASSUME NEW m \in Monitors
  PROVE  FailedRead(m).identical = m.identical /\ FailedRead(m).seen = m.seen
BY DEF FailedRead, Tripped, Monitors

LEMMA IdenticalAfterRead ==
  ASSUME NEW m \in Monitors, NEW kind \in Kinds
  PROVE  LET g == GoodRead(m, kind)
         IN  /\ g.identical
                  = IF m.seen /\ Repeats(kind) THEN Increment(m.identical, StuckAfter) ELSE 0
             /\ g.seen
             /\ StuckAfter > 0 /\ g.identical >= StuckAfter => Faulted(g)
<1> DEFINE g == GoodRead(m, kind)
           n == Counted(m, kind)
<1>1. /\ n.identical = IF m.seen /\ Repeats(kind) THEN Increment(m.identical, StuckAfter) ELSE 0
      /\ n.seen = TRUE
  BY DEF Counted, Monitors
<1>2. n \in Monitors
  BY CountedSteps
<1>3. g = IF Stuck(n) THEN [Tripped(n, "stuck") EXCEPT !.good = 0]
          ELSE IF n.good >= RecoverAfter THEN [n EXCEPT !.fault = "none"] ELSE n
  BY DEF GoodRead
<1>4. Stuck(n) => Faulted(g)
  BY GoodReadSteps
<1> HIDE DEF n, g
<1>5. g.identical = n.identical /\ g.seen = n.seen
  BY <1>2, <1>3 DEF Tripped, Monitors
<1> QED
  BY <1>1, <1>4, <1>5 DEF Stuck, g

LEMMA BlindnessStep ==
  ASSUME Blindness, SensorInv, PollTypes, [Next]_vars
  PROVE  Blindness'
<1>1. monitor \in Monitors /\ monitor.identical \in 0..StuckAfter
  BY DEF SensorInv, SensorTypeOK, Monitors
<1>2. CASE UNCHANGED <<measured, blind, shows, monitor>>
  BY <1>2 DEF Blindness, Faulted
<1>3. CASE PollsSensor
  <2>1. UNCHANGED measured
    BY <1>3 DEF PollsSensor, tmagVars, chipVars
  <2>2. CASE ~bus
    <3>1. monitor' = FailedRead(monitor) /\ UNCHANGED <<shows, blind>>
      BY <1>3, <2>2 DEF PollsSensor, Poll
    <3> QED
      BY <1>1, <2>1, <3>1, IdenticalAfterFailure, FailedReadSteps DEF Blindness
  <2>3. CASE bus
    <3>1. /\ monitor' = GoodRead(monitor, shows) /\ shows \in Kinds /\ shows' = "frozen"
          /\ blind' = IF measured = NoResult THEN Increment(blind, BlindLimit) ELSE blind
      BY <1>3, <2>3 DEF PollsSensor, Poll, PollTypes
    <3>2. /\ monitor'.identical
               = IF monitor.seen /\ Repeats(shows) THEN Increment(monitor.identical, StuckAfter)
                 ELSE 0
          /\ monitor'.seen
          /\ StuckAfter > 0 /\ monitor'.identical >= StuckAfter => Faulted(monitor')
      BY <1>1, <3>1, IdenticalAfterRead
    <3>3. blind' > 0 => blind' - 1 <= monitor'.identical
      <4>1. CASE blind = 0
        BY <1>1, <3>1, <3>2, <4>1, ConfigAssumption DEF Increment, BlindLimit
      <4>2. CASE blind > 0
        <5>1. measured = NoResult /\ monitor.seen /\ Repeats(shows) /\ blind - 1 <= monitor.identical
          BY <4>2 DEF Blindness, Repeats
        <5>2. /\ monitor'.identical = Increment(monitor.identical, StuckAfter)
              /\ blind' = Increment(blind, BlindLimit)
          BY <3>1, <3>2, <5>1
        <5> QED
          BY <1>1, <5>1, <5>2, ConfigAssumption DEF Increment, BlindLimit, PollTypes
      <4> QED
        BY <4>1, <4>2, ConfigAssumption DEF PollTypes, BlindLimit
    <3> QED
      BY <2>1, <3>1, <3>2, <3>3 DEF Blindness
  <2> QED
    BY <2>2, <2>3
<1>4. CASE ChipConverts
  BY <1>4 DEF ChipConverts, Blindness, sensorVars, Faulted
<1>5. CASE ChipIdles
  BY <1>5 DEF ChipIdles, Blindness, sensorVars, tmagVars, chipVars, Faulted
<1>6. CASE PowerFails
  <2>1. /\ shows' \in IF measured = NoResult THEN {shows} ELSE {"working", "aliased"}
        /\ measured' = NoResult /\ UNCHANGED <<monitor, blind>>
    BY <1>6 DEF PowerFails, PowerCycles, sensorVars
  <2> QED
    BY <2>1 DEF Blindness, Faulted
<1>7. CASE ControllerRestarts
  <2>1. blind' = 0 /\ monitor'.identical = 0
    BY <1>7 DEF ControllerRestarts
  <2> QED
    BY <2>1, ConfigAssumption DEF Blindness
<1>8. CASE Drives
  <2>1. UNCHANGED measured
    BY <1>8
       DEF Drives, DriverSteps, IsConnected, DetectVariant, ReadsRegister, WritesRegister, chipVars
  <2> QED
    BY <1>2, <1>8, <2>1 DEF Drives, sensorVars
<1>9. CASE Retunes
  <2>1. UNCHANGED measured
    BY <1>9
       DEF Retunes, Setters, SetOperatingMode, SetMagneticChannels, SetXyRange, SetZRange,
           SetConversionAverage, SetLowNoise, SetAngleConversion, TriggerConversion, Calls, chipVars
  <2> QED
    BY <1>2, <1>9, <2>1 DEF Retunes, sensorVars
<1>10. CASE BusFails \/ BusReturns
  BY <1>2, <1>10 DEF BusFails, BusReturns, BusChanges, sensorVars
<1> QED
  BY <1>2, <1>3, <1>4, <1>5, <1>6, <1>7, <1>8, <1>9, <1>10
     DEF Next, vars, tmagVars, chipVars, sensorVars

-----------------------------------------------------------------------------
RangeFields == {"xy_range", "z_range"}
RangeOf(axis) == IF axis = "xy" THEN "xy_range" ELSE "z_range"

\* The channels are set first, before any range.
ChannelsFirst ==
  stage = "set" =>
    \A i \in 1..Len(todo) :
      todo[i].field = "channels" => i = 1 /\ \A r \in RangeFields : Left(r)

OneCall == stage = "ready" => Len(todo) <= 1

\* Either the chip has the ranges that are remembered, ...
RangesSet ==
  /\ \A r \in RangeFields \ doubt : Left(r) \/ chip[r] = cache[r]
  /\ \A r \in RangeFields \cap DOMAIN held : held[r] = chip[r]

\* ... or it lost its power and does not convert, and nothing under way changes that.
NotSetting(f) == \A i \in 1..Len(todo) : todo[i].field # f

ChannelsOff == chip["channels"] = "OFF" /\ NotSetting("channels")

InStandby ==
  /\ stage = "ready" /\ chip["mode"] = "STANDBY" /\ NotSetting("mode")
  /\ "mode" \in DOMAIN held => held["mode"] = "STANDBY"

Silenced == lost /\ (ChannelsOff \/ InStandby)

ConvertsRightly == stage \in {"set", "ready"} /\ ~revived => RangesSet \/ Silenced

\* What was measured was measured with the ranges that are remembered.
MeasuredRightly ==
  stage \in {"set", "ready"} /\ ~revived /\ measured # NoResult =>
    \A axis \in {"xy", "z"} :
      RangeOf(axis) \in doubt \cup unmeasured \/ Left(RangeOf(axis))
        \/ measured[axis] = cache[RangeOf(axis)]

\* The part that was told is the one that is scaled for.
PartKnown == detected => variant = part

ReadingKnown ==
  /\ stage # "ready" => reading.sure = {}
  /\ ScaledAsMeasured

ScaleInv ==
  ChannelsFirst /\ OneCall /\ ConvertsRightly /\ MeasuredRightly /\ PartKnown /\ ReadingKnown

-----------------------------------------------------------------------------
\* Which fields share a register.
LEMMA RegistersKnown ==
  /\ RegisterWith("channels") = {"channels"}
  /\ \A f \in Fields \ {"channels"} : "channels" \notin RegisterWith(f)
  /\ \A f \in Fields \ {"mode", "low_noise"} : "mode" \notin RegisterWith(f)
<1>1. {Registers[r] : r \in DOMAIN Registers}
        = {{"average", "trigger"}, {"mode", "low_noise"}, {"channels"},
           {"xy_range", "z_range", "angle"}}
  BY DEF Registers
<1>2. ASSUME NEW f \in Fields
      PROVE  /\ f \in RegisterWith(f)
             /\ RegisterWith(f) \in {{"average", "trigger"}, {"mode", "low_noise"}, {"channels"},
                                     {"xy_range", "z_range", "angle"}}
  <2>1. \E fields \in {Registers[r] : r \in DOMAIN Registers} : f \in fields
    BY <1>2 DEF Fields
  <2> QED
    BY <1>1, <2>1 DEF RegisterWith
<1> QED
  BY <1>2, FieldsKnown

\* A step to where nothing is set yet, or ever.
LEMMA ScaleInvFresh ==
  ASSUME stage' \notin {"set", "ready"}, PartKnown', reading'.sure = {}
  PROVE  ScaleInv'
BY DEF ScaleInv, ChannelsFirst, OneCall, ConvertsRightly, MeasuredRightly, PartKnown, ReadingKnown,
       ScaledAsMeasured

\* Steps that leave the driver and the chip alone.
LEMMA ScaleInvUnchanged ==
  ASSUME ScaleInv, UNCHANGED <<tmagVars, reading>>
  PROVE  ScaleInv'
BY DEF ScaleInv, ChannelsFirst, OneCall, ConvertsRightly, MeasuredRightly, PartKnown, ReadingKnown,
       ScaledAsMeasured, RangesSet, Silenced, ChannelsOff, InStandby, NotSetting, Left, tmagVars,
       chipVars, driverVars, notes

\* detect_variant() lays out the order; everything is left to be set.
LEMMA ScaleDetect ==
  ASSUME DriverInv, ScaleInv, DetectVariant, UNCHANGED reading
  PROVE  ScaleInv'
<1> DEFINE items == [i \in 1..6 |-> [field |-> SetupOrder[i], value |-> cache[SetupOrder[i]]]]
<1>1. /\ stage = "detect" /\ stage' = "set" /\ held' = held /\ todo' = items
      /\ detected' = (override = "AUTO" /\ bus /\ part # "other")
      /\ variant' = (IF detected' THEN part ELSE variant) /\ part' = part
  BY OrderKnown DEF DetectVariant, chipVars
<1>2. Len(items) = 6 /\ \A i \in 1..6 : items[i].field = SetupOrder[i]
  OBVIOUS
<1>3. held = NotRead
  BY <1>1 DEF DriverInv, Idle, Shapes, TmagTypeOK
<1> HIDE DEF items
<1>4. \A r \in RangeFields : Left(r)'
  BY <1>1, <1>2, OrderKnown DEF Left, RangeFields
<1>5. ChannelsFirst'
  BY <1>1, <1>2, <1>4, OrderKnown DEF ChannelsFirst
<1>6. ConvertsRightly'
  BY <1>1, <1>3, <1>4, NotReadIsEmpty DEF ConvertsRightly, RangesSet
<1>7. MeasuredRightly'
  BY <1>4 DEF MeasuredRightly, RangeFields, RangeOf
<1>8. PartKnown' /\ OneCall'
  BY <1>1 DEF PartKnown, OneCall
<1>9. ReadingKnown'
  BY <1>1 DEF ScaleInv, ReadingKnown, ScaledAsMeasured
<1> QED
  BY <1>5, <1>6, <1>7, <1>8, <1>9 DEF ScaleInv

\* is_connected(), and a setter that cannot read.
LEMMA ScaleConnects ==
  ASSUME ScaleInv, IsConnected, UNCHANGED reading
  PROVE  ScaleInv'
<1>1. stage = "connect" /\ stage' \notin {"set", "ready"}
  BY DEF IsConnected, Fails
<1>2. PartKnown' /\ reading'.sure = {}
  BY <1>1 DEF IsConnected, ScaleInv, PartKnown, ReadingKnown, chipVars, notes
<1> QED
  BY <1>1, <1>2, ScaleInvFresh

\* A setter's read.
LEMMA ScaleReads ==
  ASSUME DriverInv, ScaleInv, ReadsRegister, UNCHANGED reading
  PROVE  ScaleInv'
<1>1. /\ todo # <<>> /\ held = NotRead
      /\ UNCHANGED <<chipVars, override, variant, cache, notes>>
  BY DEF ReadsRegister
<1>2. PartKnown' /\ ReadingKnown'
  BY <1>1 DEF ScaleInv, PartKnown, ReadingKnown, ScaledAsMeasured, chipVars, notes, ReadsRegister, Fails
<1>3. CASE bus
  <2>1. /\ stage' = stage /\ todo' = todo
        /\ held' = [f \in RegisterWith(Head(todo).field) |-> chip[f]]
    BY <1>3 DEF ReadsRegister
  <2>2. ChannelsFirst' /\ OneCall' /\ MeasuredRightly'
    BY <1>1, <2>1
       DEF ScaleInv, ChannelsFirst, OneCall, MeasuredRightly, Left, chipVars, notes
  <2>3. ConvertsRightly'
    BY <1>1, <2>1
       DEF ScaleInv, ConvertsRightly, RangesSet, Silenced, ChannelsOff, InStandby, NotSetting, Left,
           chipVars, notes
  <2> QED
    BY <1>2, <2>1, <2>2, <2>3 DEF ScaleInv
<1>4. CASE ~bus
  <2>1. Fails
    BY <1>4 DEF ReadsRegister
  <2>2. CASE stage = "ready"
    <3>1. stage' = "ready" /\ todo' = <<>> /\ held' = NotRead
      BY <2>1, <2>2 DEF Fails
    <3>2. Len(todo') = 0
      BY <3>1
    <3>3. ChannelsFirst' /\ OneCall' /\ MeasuredRightly'
      BY <1>1, <2>2, <3>1, <3>2
         DEF ScaleInv, ChannelsFirst, OneCall, MeasuredRightly, Left, chipVars, notes
    <3>4. ConvertsRightly'
      BY <1>1, <2>2, <3>1, <3>2, NotReadIsEmpty
         DEF ScaleInv, ConvertsRightly, RangesSet, Silenced, ChannelsOff, InStandby, NotSetting,
             Left, chipVars, notes
    <3> QED
      BY <1>2, <2>2, <3>1, <3>3, <3>4 DEF ScaleInv
  <2>3. CASE stage # "ready"
    <3>1. stage' = "halted" /\ UNCHANGED <<part, variant, detected, reading>>
      BY <1>1, <2>1, <2>3 DEF Fails, chipVars, notes
    <3> QED
      BY <1>2, <2>3, <3>1, ScaleInvFresh DEF ScaleInv, ReadingKnown
  <2> QED
    BY <2>2, <2>3
<1> QED
  BY <1>3, <1>4

\* The write that works.
LEMMA ScaleWrites ==
  ASSUME DriverInv, ScaleInv, todo # <<>>, WritesRegister, bus, UNCHANGED reading
  PROVE  ScaleInv'
<1> DEFINE f == Head(todo).field
           v == Head(todo).value
<1>1. /\ f \in Fields /\ DOMAIN held = RegisterWith(f) /\ Written[f] = v
      /\ \A g \in Fields \ {f} : Written[g] = IF g \in DOMAIN held THEN held[g] ELSE chip[g]
  BY WhatIsWritten DEF WritesRegister
<1>2. /\ chip' = Written /\ cache' = Remembered(f, v, TRUE) /\ doubt' = doubt \ {f}
      /\ unmeasured' = unmeasured \cup {f}
      /\ todo' = Tail(todo) /\ held' = NotRead
      /\ stage' = IF Tail(todo) = <<>> THEN "ready" ELSE stage
      /\ UNCHANGED <<part, measured, bus, override, variant, detected, lost, revived>>
  BY DEF WritesRegister, AfterSet
<1>3. /\ Head(todo) = todo[1] /\ Len(todo) \in Nat \ {0} /\ Len(todo') = Len(todo) - 1
      /\ \A i \in 1..Len(todo') : todo'[i] = todo[i + 1] /\ i + 1 \in 1..Len(todo)
      /\ todo' \in Seq([field : Fields, value : Choices])
  BY <1>2, HeadAndTail DEF DriverInv, Shapes
<1>4. stage \in {"set", "ready"} /\ stage' \in {"set", "ready"}
  BY <1>2 DEF DriverInv, Idle, Shapes, TmagTypeOK
<1>5. ASSUME NEW g, Left(g), g # f PROVE Left(g)'
  BY <1>2, <1>5, LeftStays
<1>6. \A g \in Cached : cache'[g] = IF g = f THEN v ELSE cache[g]
  BY <1>2 DEF Remembered, DriverInv, Shapes
<1>7. RangeFields \subseteq Cached /\ RangeFields \subseteq Fields /\ "channels" \notin RangeFields
  BY CachedKnown, FieldsKnown DEF RangeFields
<1>8. ASSUME NEW g, NotSetting(g) PROVE NotSetting(g)' /\ f # g
  <2>1. todo[1].field # g /\ 1 \in 1..Len(todo)
    BY <1>3, <1>8 DEF NotSetting
  <2> QED
    BY <1>3, <1>8, <2>1 DEF NotSetting
<1> HIDE DEF f, v
<1>9. ChannelsFirst'
  <2>1. SUFFICES ASSUME stage' = "set", NEW i \in 1..Len(todo')
                 PROVE  todo'[i].field # "channels"
    BY DEF ChannelsFirst
  <2>2. stage = "set" /\ todo'[i] = todo[i + 1] /\ i + 1 \in 1..Len(todo) /\ i + 1 # 1
    BY <1>2, <1>3, <2>1
  <2> QED
    BY <2>2 DEF ScaleInv, ChannelsFirst
<1>10. OneCall'
  <2>1. CASE stage = "ready"
    BY <1>3, <2>1 DEF ScaleInv, OneCall
  <2>2. CASE stage # "ready"
    <3>1. stage' = "ready" => todo' = <<>>
      BY <1>2, <2>2
    <3>2. todo' = <<>> => Len(todo') = 0
      OBVIOUS
    <3> QED
      BY <3>1, <3>2 DEF OneCall
  <2> QED
    BY <2>1, <2>2
<1>11. ConvertsRightly'
  <2>1. SUFFICES ASSUME ~revived PROVE RangesSet' \/ Silenced'
    BY <1>2 DEF ConvertsRightly
  <2>2. CASE RangesSet
    <3>1. ASSUME NEW r \in RangeFields \ doubt' PROVE Left(r)' \/ chip'[r] = cache'[r]
      <4>1. CASE r = f
        BY <1>1, <1>2, <1>6, <1>7, <4>1
      <4>2. CASE r # f
        <5>1. Left(r) \/ chip[r] = cache[r]
          BY <1>2, <2>2, <3>1, <4>2 DEF RangesSet
        <5>2. chip'[r] = chip[r] /\ cache'[r] = cache[r]
          BY <1>1, <1>2, <1>6, <1>7, <2>2, <3>1, <4>2 DEF RangesSet
        <5> QED
          BY <1>5, <4>2, <5>1, <5>2
      <4> QED
        BY <4>1, <4>2
    <3> QED
      BY <1>2, <3>1, NotReadIsEmpty DEF RangesSet
  <2>3. CASE lost /\ ChannelsOff
    <3>1. f # "channels" /\ NotSetting("channels")'
      BY <1>8, <2>3 DEF ChannelsOff
    <3>2. chip'["channels"] = chip["channels"]
      BY <1>1, <1>2, <3>1, FieldsKnown, RegistersKnown
    <3> QED
      BY <1>2, <2>3, <3>1, <3>2 DEF Silenced, ChannelsOff
  <2>4. CASE lost /\ InStandby
    <3>1. f # "mode" /\ NotSetting("mode")'
      BY <1>8, <2>4 DEF InStandby
    <3>2. chip'["mode"] = "STANDBY"
      BY <1>1, <1>2, <2>4, <3>1, FieldsKnown DEF InStandby
    <3>3. stage' = "ready"
      BY <1>2, <2>4 DEF InStandby
    <3> QED
      BY <1>2, <2>4, <3>1, <3>2, <3>3, NotReadIsEmpty DEF Silenced, InStandby
  <2> QED
    BY <1>4, <2>1, <2>2, <2>3, <2>4 DEF ScaleInv, ConvertsRightly, Silenced
<1>12. MeasuredRightly'
  <2>1. SUFFICES ASSUME ~revived, measured # NoResult, NEW axis \in {"xy", "z"},
                        RangeOf(axis) \notin doubt' \cup unmeasured', ~Left(RangeOf(axis))'
                 PROVE  measured[axis] = cache'[RangeOf(axis)]
    BY <1>2 DEF MeasuredRightly
  <2>2. RangeOf(axis) # f /\ RangeOf(axis) \notin doubt \cup unmeasured /\ RangeOf(axis) \in Cached
    BY <1>2, <1>7, <2>1 DEF RangeOf, RangeFields
  <2>3. ~Left(RangeOf(axis))
    BY <1>5, <2>1, <2>2
  <2>4. measured[axis] = cache[RangeOf(axis)]
    BY <1>4, <2>1, <2>2, <2>3 DEF ScaleInv, MeasuredRightly
  <2> QED
    BY <1>6, <2>2, <2>4
<1>13. PartKnown' /\ ReadingKnown'
  BY <1>2, <1>4 DEF ScaleInv, PartKnown, ReadingKnown, ScaledAsMeasured
<1> QED
  BY <1>9, <1>10, <1>11, <1>12, <1>13 DEF ScaleInv

\* The write that fails, in a setter: the field is in doubt if it took effect.
LEMMA ScaleWriteFails ==
  ASSUME DriverInv, ScaleInv, todo # <<>>, WritesRegister, ~bus, UNCHANGED reading
  PROVE  ScaleInv'
<1> DEFINE f == Head(todo).field
<1>1. /\ f \in Fields /\ DOMAIN held = RegisterWith(f)
      /\ \A g \in Fields \ {f} : Written[g] = IF g \in DOMAIN held THEN held[g] ELSE chip[g]
  BY WhatIsWritten DEF WritesRegister
<1>2. /\ chip' \in {chip, Written} /\ cache' = cache /\ Fails
      /\ doubt' = IF chip' # chip THEN doubt \cup {f} ELSE doubt
      /\ unmeasured' = unmeasured \cup {f}
      /\ UNCHANGED <<part, measured, bus, override, variant, detected, lost, revived>>
  BY DEF WritesRegister, AfterSet, Remembered
<1>3. PartKnown'
  BY <1>2 DEF ScaleInv, PartKnown
<1>4. CASE stage # "ready"
  <2>1. stage' = "halted" /\ reading'.sure = {}
    BY <1>2, <1>4 DEF Fails, ScaleInv, ReadingKnown
  <2> QED
    BY <1>3, <2>1, ScaleInvFresh
<1>5. CASE stage = "ready"
  <2>1. stage' = "ready" /\ todo' = <<>> /\ held' = NotRead
    BY <1>2, <1>5 DEF Fails
  <2>2. Len(todo') = 0 /\ \A g : NotSetting(g)'
    BY <2>1 DEF NotSetting
  <2>3. ChannelsFirst' /\ OneCall' /\ ReadingKnown'
    BY <1>2, <1>5, <2>1, <2>2
       DEF ScaleInv, ChannelsFirst, OneCall, ReadingKnown, ScaledAsMeasured
  <2>4. ConvertsRightly'
    <3>1. SUFFICES ASSUME ~revived PROVE RangesSet' \/ Silenced'
      BY <1>2 DEF ConvertsRightly
    <3>2. CASE RangesSet
      <4>1. ASSUME NEW r \in RangeFields \ doubt' PROVE chip'[r] = cache'[r]
        <5>1. r \notin doubt /\ r \in Fields /\ chip[r] = cache[r]
          BY <1>2, <1>5, <3>2, <4>1, FieldsKnown DEF RangesSet, Left, RangeFields
        <5>2. chip'[r] = chip[r]
          BY <1>1, <1>2, <3>2, <4>1, <5>1 DEF RangesSet
        <5> QED
          BY <1>2, <5>1, <5>2
      <4> QED
        BY <2>1, <4>1, NotReadIsEmpty DEF RangesSet
    <3>3. CASE lost /\ ChannelsOff
      <4>1. f # "channels"
        BY HeadAndTail, <3>3 DEF ChannelsOff, NotSetting, DriverInv, Shapes
      <4>2. chip'["channels"] = chip["channels"]
        BY <1>1, <1>2, <4>1, FieldsKnown, RegistersKnown
      <4> QED
        BY <1>2, <2>2, <3>3, <4>2 DEF Silenced, ChannelsOff
    <3>4. CASE lost /\ InStandby
      <4>1. f # "mode"
        BY HeadAndTail, <3>4 DEF InStandby, NotSetting, DriverInv, Shapes
      <4>2. chip'["mode"] = "STANDBY"
        BY <1>1, <1>2, <3>4, <4>1, FieldsKnown DEF InStandby
      <4> QED
        BY <1>2, <2>1, <2>2, <3>4, <4>2, NotReadIsEmpty DEF Silenced, InStandby
    <3> QED
      BY <1>5, <3>1, <3>2, <3>3, <3>4 DEF ScaleInv, ConvertsRightly, Silenced
  <2>5. MeasuredRightly'
    BY <1>2, <1>5, <2>1 DEF ScaleInv, MeasuredRightly, Left
  <2> QED
    BY <1>3, <2>3, <2>4, <2>5 DEF ScaleInv
<1> QED
  BY <1>4, <1>5

\* A setter is called: on the mode or the channels it ends what can be said of a chip
\* that lost its power.
LEMMA ScaleCalls ==
  ASSUME DriverInv, ScaleInv, NEW f \in Fields, NEW v \in ValuesOf(f), Calls(f, v),
         UNCHANGED reading
  PROVE  ScaleInv'
<1>1. /\ stage = "ready" /\ stage' = "ready" /\ todo = <<>>
      /\ todo' = <<[field |-> f, value |-> v]>>
      /\ revived' = (revived \/ (lost /\ f \in {"mode", "channels"}))
      /\ UNCHANGED <<chipVars, override, variant, cache, held, detected, lost, doubt, unmeasured>>
  BY DEF Calls
<1>2. held = NotRead
  BY <1>1 DEF DriverInv, Shapes, TmagTypeOK
<1>3. Len(todo') = 1 /\ todo'[1].field = f
  BY <1>1
<1>4. ChannelsFirst' /\ OneCall' /\ PartKnown' /\ ReadingKnown'
  BY <1>1, <1>3
     DEF ScaleInv, ChannelsFirst, OneCall, PartKnown, ReadingKnown, ScaledAsMeasured, chipVars
<1>5. ConvertsRightly'
  <2>1. SUFFICES ASSUME ~revived' PROVE RangesSet' \/ Silenced'
    BY DEF ConvertsRightly
  <2>2. CASE RangesSet
    BY <1>1, <1>2, <2>2, NotReadIsEmpty DEF RangesSet, Left, chipVars
  <2>3. CASE Silenced
    <3>1. f \notin {"mode", "channels"}
      BY <1>1, <2>1, <2>3 DEF Silenced
    <3>2. NotSetting("mode")' /\ NotSetting("channels")'
      BY <1>3, <3>1 DEF NotSetting
    <3> QED
      BY <1>1, <1>2, <2>3, <3>2, NotReadIsEmpty DEF Silenced, ChannelsOff, InStandby, chipVars
  <2> QED
    BY <1>1, <2>1, <2>2, <2>3 DEF ScaleInv, ConvertsRightly
<1>6. MeasuredRightly'
  BY <1>1 DEF ScaleInv, MeasuredRightly, Left, chipVars
<1> QED
  BY <1>4, <1>5, <1>6 DEF ScaleInv

LEMMA ScaleSetters ==
  ASSUME DriverInv, ScaleInv, Setters, UNCHANGED reading
  PROVE  ScaleInv'
BY ScaleCalls, FieldsKnown, ValuesKnown
   DEF Setters, SetOperatingMode, SetMagneticChannels, SetXyRange, SetZRange,
       SetConversionAverage, SetLowNoise, SetAngleConversion, TriggerConversion

\* A conversion: the chip converts only with its ranges set.
LEMMA ScaleConverts ==
  ASSUME DriverInv, ScaleInv, Converts, UNCHANGED reading
  PROVE  ScaleInv'
<1>1. /\ chip["mode"] = "CONTINUOUS" /\ chip["channels"] = "XYZ"
      /\ measured' = [xy |-> chip["xy_range"], z |-> chip["z_range"]]
      /\ unmeasured' = {}
      /\ UNCHANGED <<chip, part, bus, driverVars, detected, lost, revived, doubt>>
  BY DEF Converts, Converting
<1>2. ChannelsFirst' /\ OneCall' /\ ConvertsRightly' /\ PartKnown' /\ ReadingKnown'
  BY <1>1
     DEF ScaleInv, ChannelsFirst, OneCall, ConvertsRightly, PartKnown, ReadingKnown,
         ScaledAsMeasured, RangesSet, Silenced, ChannelsOff, InStandby, NotSetting, Left, driverVars
<1>3. MeasuredRightly'
  <2>1. SUFFICES ASSUME stage \in {"set", "ready"}, ~revived, NEW axis \in {"xy", "z"}
                 PROVE  RangeOf(axis) \in doubt \/ Left(RangeOf(axis))
                          \/ measured'[axis] = cache[RangeOf(axis)]
    BY <1>1 DEF MeasuredRightly, Left, driverVars
  <2>2. RangesSet
    BY <1>1, <2>1 DEF ScaleInv, ConvertsRightly, Silenced, ChannelsOff, InStandby
  <2> QED
    BY <1>1, <2>2 DEF RangesSet, RangeFields, RangeOf
<1> QED
  BY <1>2, <1>3 DEF ScaleInv

\* The chip loses its power: whatever is under way sets either all of the ranges again,
\* or not both the channels and the mode.
LEMMA ScalePowerCycles ==
  ASSUME DriverInv, ScaleInv, PowerCycles, UNCHANGED reading
  PROVE  ScaleInv'
<1>1. /\ chip' = PowerOn /\ measured' = NoResult
      /\ lost' = (lost \/ stage \in {"set", "ready"})
      /\ UNCHANGED <<part, bus, driverVars, detected, revived, doubt, unmeasured>>
  BY DEF PowerCycles
<1>2. chip'["channels"] = "OFF" /\ chip'["mode"] = "STANDBY"
  BY <1>1, FieldsKnown DEF PowerOn, Values
<1>3. ChannelsFirst' /\ OneCall' /\ MeasuredRightly' /\ PartKnown' /\ ReadingKnown'
  BY <1>1
     DEF ScaleInv, ChannelsFirst, OneCall, MeasuredRightly, PartKnown, ReadingKnown,
         ScaledAsMeasured, Left, driverVars
<1>4. ConvertsRightly'
  <2>1. SUFFICES ASSUME stage \in {"set", "ready"} PROVE RangesSet' \/ Silenced'
    BY <1>1 DEF ConvertsRightly, driverVars
  <2>2. lost'
    BY <1>1, <2>1
  <2>3. CASE NotSetting("channels")
    BY <1>1, <1>2, <2>2, <2>3 DEF Silenced, ChannelsOff, NotSetting, driverVars
  <2>4. CASE ~NotSetting("channels")
    <3>1. PICK i \in 1..Len(todo) : todo[i].field = "channels"
      BY <2>4 DEF NotSetting
    <3>2. todo # <<>> /\ Head(todo) = todo[1] /\ Len(todo) \in Nat
      BY <3>1, HeadAndTail DEF DriverInv, Shapes
    <3>3. i = 1
      BY <2>1, <3>1, <3>2 DEF ScaleInv, ChannelsFirst, OneCall
    <3>4. DOMAIN held \subseteq {"channels"}
      BY <3>1, <3>2, <3>3, RegistersKnown, NotReadIsEmpty DEF DriverInv, Shapes, TmagTypeOK
    <3>5. CASE stage = "set"
      <4>1. \A r \in RangeFields : Left(r)'
        BY <1>1, <3>1, <3>5 DEF ScaleInv, ChannelsFirst, Left, driverVars
      <4> QED
        BY <1>1, <3>4, <4>1 DEF RangesSet, RangeFields, driverVars
    <3>6. CASE stage = "ready"
      <4>1. NotSetting("mode")
        <5>1. \A j \in 1..Len(todo) : j = 1
          BY <3>2, <3>6 DEF ScaleInv, OneCall
        <5> QED
          BY <3>1, <3>3, <5>1 DEF NotSetting
      <4> QED
        BY <1>1, <1>2, <2>2, <3>4, <3>6, <4>1 DEF Silenced, InStandby, NotSetting, driverVars
    <3> QED
      BY <2>1, <3>5, <3>6
  <2> QED
    BY <2>3, <2>4
<1> QED
  BY <1>3, <1>4 DEF ScaleInv

\* The loop's reading: scaled with what is remembered.
LEMMA ScalePolls ==
  ASSUME DriverInv, ScaleInv, PollsSensor
  PROVE  ScaleInv'
<1>1. stage = "ready" /\ todo = <<>> /\ UNCHANGED tmagVars
  BY DEF PollsSensor
<1>2. CASE ~bus
  BY <1>1, <1>2, ScaleInvUnchanged DEF PollsSensor
<1>3. CASE bus
  <2>1. reading' = [of |-> measured, used |-> Scales, as |-> variant, sure |-> Sure]
    BY <1>3 DEF PollsSensor
  <2>2. /\ UNCHANGED <<stage, todo, held, chip, cache, doubt, unmeasured, lost, revived, measured,
                       detected, part, variant>>
    BY <1>1 DEF tmagVars, chipVars, driverVars, notes
  <2>3. (ChannelsFirst /\ OneCall /\ ConvertsRightly /\ MeasuredRightly /\ PartKnown)'
    BY <2>2
       DEF ScaleInv, ChannelsFirst, OneCall, ConvertsRightly, MeasuredRightly, PartKnown,
           RangesSet, Silenced, ChannelsOff, InStandby, NotSetting, Left
  <2>4. ScaledAsMeasured'
    <3>1. SUFFICES ASSUME NEW axis \in Sure, measured # NoResult
                   PROVE  FullScale(variant, Scales[axis])
                            = FullScale(IF detected THEN part ELSE variant, measured[axis])
      BY <2>1, <2>2 DEF ScaledAsMeasured
    <3>2. axis \in {"xy", "z"} /\ RangeOf(axis) \notin doubt \cup unmeasured /\ ~revived
      BY DEF Sure, RangeOf
    <3>3. measured[axis] = cache[RangeOf(axis)]
      BY <1>1, <3>1, <3>2 DEF ScaleInv, MeasuredRightly, Left
    <3>4. Scales[axis] = cache[RangeOf(axis)]
      BY <3>2 DEF Scales, RangeOf
    <3> QED
      BY <3>3, <3>4 DEF ScaleInv, PartKnown
  <2> QED
    BY <1>1, <2>2, <2>3, <2>4 DEF ScaleInv, ReadingKnown
<1> QED
  BY <1>2, <1>3

LEMMA ScaleStep ==
  ASSUME DriverInv, ScaleInv, [Next]_vars
  PROVE  ScaleInv'
<1>1. CASE UNCHANGED <<tmagVars, reading>>
  BY <1>1, ScaleInvUnchanged
<1>2. CASE Drives
  BY <1>2, ScaleConnects, ScaleDetect, ScaleReads, ScaleWrites, ScaleWriteFails
     DEF Drives, DriverSteps, WritesRegister, DriverInv, Shapes, TmagTypeOK
<1>3. CASE Retunes
  BY <1>3, ScaleSetters DEF Retunes
<1>4. CASE ChipConverts
  BY <1>4, ScaleConverts DEF ChipConverts
<1>5. CASE PowerFails
  BY <1>5, ScalePowerCycles DEF PowerFails
<1>6. CASE BusFails \/ BusReturns
  BY <1>6
     DEF BusFails, BusReturns, BusChanges, ScaleInv, ChannelsFirst, OneCall, ConvertsRightly,
         MeasuredRightly, PartKnown, ReadingKnown, ScaledAsMeasured, RangesSet, Silenced,
         ChannelsOff, InStandby, NotSetting, Left, driverVars, notes
<1>7. CASE ControllerRestarts
  <2>1. stage' = "connect" /\ detected' = FALSE /\ reading' = NoReading
    BY <1>7 DEF ControllerRestarts, Restarts
  <2> QED
    BY <2>1, ScaleInvFresh DEF PartKnown, NoReading
<1>8. CASE PollsSensor
  BY <1>8, ScalePolls
<1>9. CASE ChipIdles
  BY <1>1, <1>9 DEF ChipIdles
<1> QED
  BY <1>1, <1>2, <1>3, <1>4, <1>5, <1>6, <1>7, <1>8, <1>9 DEF Next, vars

-----------------------------------------------------------------------------
DeviceInv == DriverInv /\ PollTypes /\ SensorInv /\ Blindness /\ ScaleInv

LEMMA DeviceInvariant == Spec => []DeviceInv
<1>1. Init => DeviceInv
  <2>1. SUFFICES ASSUME Init PROVE DeviceInv
    OBVIOUS
  <2>2. DriverInv /\ SensorInv
    BY <2>1, DriverInvInit, SensorInvInit DEF Init
  <2>3. PollTypes
    BY <2>1, EventsAssumption, ConfigAssumption
       DEF Init, PollTypes, Kinds, NoReading, BlindLimit
  <2>4. Blindness
    BY <2>1, ConfigAssumption DEF Init, SensorInit, Blindness
  <2>5. ScaleInv
    BY <2>1
       DEF Init, TmagInit, NoReading, ScaleInv, ChannelsFirst, OneCall, ConvertsRightly,
           MeasuredRightly, PartKnown, ReadingKnown, ScaledAsMeasured
  <2> QED
    BY <2>2, <2>3, <2>4, <2>5 DEF DeviceInv
<1>2. DeviceInv /\ [Next]_vars => DeviceInv'
  BY DriverStep, PollTypesStep, MonitorStep, BlindnessStep, ScaleStep DEF DeviceInv
<1> QED
  BY <1>1, <1>2, PTL DEF Spec

\* The driver's, the monitor's and the polls' state stay of their types.
THEOREM StickTypesCorrect == Spec => []TypeOK
<1>1. DeviceInv => TypeOK
  BY DEF DeviceInv, DriverInv, Shapes, SensorInv, PollTypes, TypeOK
<1> QED
  BY <1>1, DeviceInvariant, PTL

\* As long as the chip has kept its power, every field the driver was configured with is
\* in the chip, and a setter's read-modify-write leaves the others alone, whatever an
\* earlier boot left there, for any part and override; but for the fields whose last
\* write took effect and was reported as failed (TMAG5273::initialize and the setters).
THEOREM ConfiguredCorrect == Spec => []Configured
<1>1. DeviceInv => Configured
  BY DEF DeviceInv, DriverInv, Done, Left, Configured
<1> QED
  BY <1>1, DeviceInvariant, PTL

\* A reading is scaled for the range it was measured with and the part that measured it,
\* for any part and override (read_magnetic, full_scale_mT and the order of initialize()).
THEOREM ScaledAsMeasuredCorrect == Spec => []ScaledAsMeasured
<1>1. DeviceInv => ScaledAsMeasured
  BY DEF DeviceInv, ScaleInv, ReadingKnown
<1> QED
  BY <1>1, DeviceInvariant, PTL

\* A chip that lost its settings and goes on answering is a fault once its readings have
\* not changed for stuck_after_samples polls, when that detector is on
\* (SensorFaultMonitor::update).
THEOREM LostIsFaultCorrect ==
  ASSUME StuckAfter > 0
  PROVE  Spec => []LostIsFault
<1>1. DeviceInv => LostIsFault
  <2>1. SUFFICES ASSUME DeviceInv, blind >= BlindLimit PROVE Faulted(monitor)
    BY DEF LostIsFault
  <2>2. monitor.identical \in 0..StuckAfter /\ blind \in 0..BlindLimit
    BY <2>1 DEF DeviceInv, SensorInv, SensorTypeOK, Monitors, PollTypes
  <2>3. monitor.identical >= StuckAfter
    BY <2>1, <2>2, ConfigAssumption DEF DeviceInv, Blindness, BlindLimit
  <2> QED
    BY <2>1, <2>3 DEF DeviceInv, Blindness
<1> QED
  BY <1>1, DeviceInvariant, PTL

\* The monitor keeps what it promises under the driver and across restarts: a loss is
\* a fault in time, the diagnostics tell, and nothing but enough good reads, or a new
\* start of the controller, ends a fault (sensor_fault_update over read_magnetic).
THEOREM StickFaultsCorrect ==
  /\ Spec => [](LossIsFault /\ HealthyIsObserved /\ RecoveryDue)
  /\ Spec => [][Faulted(monitor) /\ ~Faulted(monitor')
                  => steady' >= RecoverAfter \/ stage' = "connect"]_vars
<1>1. DeviceInv => LossIsFault /\ HealthyIsObserved /\ RecoveryDue
  BY ConfigAssumption
     DEF DeviceInv, SensorInv, SensorTypeOK, Failures, Frozen, Streaks, Reported, LossIsFault,
         HealthyIsObserved, RecoveryDue
<1>2. ASSUME DeviceInv, Next, Faulted(monitor), ~Faulted(monitor')
      PROVE  steady' >= RecoverAfter \/ stage' = "connect"
  <2>1. CASE PollsSensor
    BY <1>2, <2>1, SensorStep DEF PollsSensor, NextPoll, PollTypes, Kinds, DeviceInv
  <2>2. CASE ControllerRestarts
    BY <2>2 DEF ControllerRestarts, Restarts
  <2>3. CASE Drives \/ Retunes \/ ChipConverts \/ ChipIdles \/ PowerFails \/ BusFails \/ BusReturns
    <3>1. monitor' = monitor
      BY <2>3
         DEF Drives, Retunes, ChipConverts, ChipIdles, PowerFails, BusFails, BusReturns, sensorVars
    <3> QED
      BY <1>2, <3>1 DEF Faulted
  <2> QED
    BY <1>2, <2>1, <2>2, <2>3 DEF Next
<1>3. DeviceInv /\ [Next]_vars
        => [Faulted(monitor) /\ ~Faulted(monitor') => steady' >= RecoverAfter \/ stage' = "connect"]_vars
  BY <1>2
<1> QED
  BY <1>1, <1>3, DeviceInvariant, PTL DEF Spec
=============================================================================
