------------------------------ MODULE Tmag5273 ------------------------------
(***************************************************************************)
(* The sensor's driver (tmag5273.hpp): initialize(), the setters that read *)
(* a register, change a field and write it back, and the reading that is   *)
(* scaled with the range and the part the driver remembers.                *)
(*                                                                         *)
(* A register is the fields in it, each with two of its values.  The chip  *)
(* and the bus are external: a transaction fails while the bus is down,    *)
(* the chip may lose its power on its own, and it converts when it is set  *)
(* to.  A raw result is known by the ranges it was measured with.          *)
(***************************************************************************)
EXTENDS Naturals, Sequences

CONSTANTS
  Versions,  \* the versions DEVICE_ID may tell
  Overrides  \* the values Config::variant may have

ASSUME TmagAssumption ==
  Versions \subseteq {"A1", "A2", "other"} /\ Overrides \subseteq {"AUTO", "A1", "A2"}

VARIABLES
  chip,       \* its registers, by field
  part,       \* the version in DEVICE_ID
  measured,   \* the ranges of the result registers' contents, or NoResult
  bus,        \* transactions work
  override,   \* Config::variant
  variant,    \* variant_
  cache,      \* channels_, xy_range_, ..., angle_conversion_
  stage,      \* "connect", "detect", "set", then "ready" or "halted"
  todo,       \* the fields that are still to be set
  held,       \* the register that was read and is to be written back, or NotRead
  detected,   \* history: DEVICE_ID told the part
  lost,       \* history: the chip lost its power since its first field was set
  revived,    \* history: a client has set the mode or the channels since
  doubt,      \* history: fields whose last write took effect and failed all the same
  unmeasured  \* history: fields written since the last conversion

chipVars == <<chip, part, measured, bus>>
driverVars == <<override, variant, cache, stage, todo, held>>
notes == <<detected, lost, revived, doubt, unmeasured>>
tmagVars == <<chipVars, driverVars, notes>>

Registers ==
  [DEVICE_CONFIG_1 |-> {"average", "trigger"},
   DEVICE_CONFIG_2 |-> {"mode", "low_noise"},
   SENSOR_CONFIG_1 |-> {"channels"},
   SENSOR_CONFIG_2 |-> {"xy_range", "z_range", "angle"}]

Fields == UNION {Registers[r] : r \in DOMAIN Registers}
RegisterWith(f) == CHOOSE fields \in {Registers[r] : r \in DOMAIN Registers} : f \in fields

\* Two values each.  The first is zero, which every field is when the power comes on.
Values ==
  [average |-> <<"AVG_1", "AVG_32">>, trigger |-> <<"STANDBY">>,
   mode |-> <<"STANDBY", "CONTINUOUS">>, low_noise |-> <<"OFF", "ON">>,
   channels |-> <<"OFF", "XYZ">>,
   xy_range |-> <<"LOW", "HIGH">>, z_range |-> <<"LOW", "HIGH">>, angle |-> <<"OFF", "ANGLE_XY">>]

ValuesOf(f) == {Values[f][i] : i \in DOMAIN Values[f]}
PowerOn == [f \in Fields |-> Values[f][1]]

\* main.cpp's configuration; nothing configures the angle.
Configuration ==
  [average |-> "AVG_32", mode |-> "CONTINUOUS", low_noise |-> "OFF", channels |-> "XYZ",
   xy_range |-> "HIGH", z_range |-> "HIGH", angle |-> "OFF"]

Cached == DOMAIN Configuration

\* Mutant of SetupOrder: the channels are set where the conversions start.
SetupRangesFirst == <<"xy_range", "z_range", "average", "low_noise", "channels", "mode">>

\* The fields initialize() sets, in its order.
SetupOrder == <<"channels", "xy_range", "z_range", "average", "low_noise", "mode">>

Setup == {SetupOrder[i] : i \in DOMAIN SetupOrder}

NoResult == [xy |-> "NONE", z |-> "NONE"]
Ranges == [xy : {"LOW", "HIGH"}, z : {"LOW", "HIGH"}]
NotRead == [f \in {} |-> "NONE"]

TmagTypeOK ==
  /\ \A f \in Fields : chip[f] \in ValuesOf(f)
  /\ part \in Versions
  /\ measured \in Ranges \cup {NoResult}
  /\ override \in Overrides
  /\ variant \in {"A1", "A2"}
  /\ \A f \in Cached : cache[f] \in ValuesOf(f)
  /\ stage \in {"connect", "detect", "set", "ready", "halted"}
  /\ \A i \in DOMAIN todo : todo[i].value \in ValuesOf(todo[i].field)
  /\ held # NotRead => todo # <<>> /\ DOMAIN held = RegisterWith(Head(todo).field)
  /\ {bus, detected, lost, revived} \subseteq BOOLEAN
  /\ doubt \subseteq Fields /\ unmeasured \subseteq Fields

\* The members of a driver that has just been constructed.
Constructed(o) ==
  [override |-> o, variant |-> IF o = "A1" THEN "A1" ELSE "A2", cache |-> Configuration]

TmagInit ==
  /\ chip = PowerOn /\ part \in Versions /\ measured = NoResult /\ bus = TRUE
  /\ \E o \in Overrides :
       override = o /\ variant = Constructed(o).variant /\ cache = Constructed(o).cache
  /\ stage = "connect" /\ todo = <<>> /\ held = NotRead
  /\ detected = FALSE /\ lost = FALSE /\ revived = FALSE
  /\ doubt = {} /\ unmeasured = {}

-----------------------------------------------------------------------------
\* Setting a field fails: initialize() gives up and main() halts, a setter returns false.
Fails ==
  /\ stage' = IF stage = "ready" THEN "ready" ELSE "halted"
  /\ todo' = <<>> /\ held' = NotRead

\* is_connected(): DEVICE_ID is read, and is neither 0x00 nor 0xFF.
IsConnected ==
  /\ stage = "connect"
  /\ IF bus
       THEN /\ stage' = "detect"
            /\ UNCHANGED <<todo, held>>
       ELSE Fails
  /\ UNCHANGED <<chipVars, override, variant, cache, notes>>

\* detect_variant(), unless the variant is configured.  A version that cannot be read, or
\* is neither x1 nor x2, leaves A2, and initialize() goes on.
DetectVariant ==
  /\ stage = "detect"
  /\ detected' = (override = "AUTO" /\ bus /\ part # "other")
  /\ variant' = IF detected' THEN part ELSE variant
  /\ stage' = "set"
  /\ todo' = [i \in DOMAIN SetupOrder |->
                [field |-> SetupOrder[i], value |-> cache[SetupOrder[i]]]]
  /\ UNCHANGED <<chipVars, override, cache, held, lost, revived, doubt, unmeasured>>

\* Every setter first reads the register its field is in, ...
ReadsRegister ==
  /\ todo # <<>> /\ held = NotRead
  /\ IF bus
       THEN /\ held' = [f \in RegisterWith(Head(todo).field) |-> chip[f]]
            /\ UNCHANGED <<stage, todo>>
       ELSE Fails
  /\ UNCHANGED <<chipVars, override, variant, cache, notes>>

\* Mutant of Changed: the other fields of the register are written as zero.
ChangedAlone(register, f, value) ==
  [g \in DOMAIN register |-> IF g = f THEN value ELSE PowerOn[g]]

\* ... replaces the field's bits, ...
Changed(register, f, value) == [register EXCEPT ![f] = value]

Written ==
  LET register == Changed(held, Head(todo).field, Head(todo).value)
  IN  [f \in Fields |-> IF f \in DOMAIN held THEN register[f] ELSE chip[f]]

\* The cached value follows a write that worked.
Remembered(f, value, ok) ==
  IF ok /\ f \in Cached THEN [cache EXCEPT ![f] = value] ELSE cache

AfterSet(ok) ==
  IF ok
    THEN /\ todo' = Tail(todo) /\ held' = NotRead
         /\ stage' = IF Tail(todo) = <<>> THEN "ready" ELSE stage
    ELSE Fails

\* ... and writes the register back.  A write that is reported as failed may have taken
\* effect, for the acknowledgement is what is missing, or not.
WritesRegister ==
  LET f == Head(todo).field
  IN  /\ held # NotRead
      /\ chip' \in IF bus THEN {Written} ELSE {chip, Written}
      /\ cache' = Remembered(f, Head(todo).value, bus)
      /\ doubt' = IF bus THEN doubt \ {f} ELSE IF chip' # chip THEN doubt \cup {f} ELSE doubt
      /\ unmeasured' = unmeasured \cup {f}
      /\ AfterSet(bus)
      /\ UNCHANGED <<part, measured, bus, override, variant, detected, lost, revived>>

-----------------------------------------------------------------------------
\* The setters a client of the driver may call later.
Calls(f, value) ==
  /\ stage = "ready" /\ todo = <<>>
  /\ todo' = <<[field |-> f, value |-> value]>>
  /\ revived' = (revived \/ (lost /\ f \in {"mode", "channels"}))
  /\ UNCHANGED <<chipVars, override, variant, cache, stage, held, detected, lost, doubt,
                 unmeasured>>

SetOperatingMode == \E v \in ValuesOf("mode") : Calls("mode", v)
SetMagneticChannels == \E v \in ValuesOf("channels") : Calls("channels", v)
SetXyRange == \E v \in ValuesOf("xy_range") : Calls("xy_range", v)
SetZRange == \E v \in ValuesOf("z_range") : Calls("z_range", v)
SetConversionAverage == \E v \in ValuesOf("average") : Calls("average", v)
SetLowNoise == \E v \in ValuesOf("low_noise") : Calls("low_noise", v)
SetAngleConversion == \E v \in ValuesOf("angle") : Calls("angle", v)

\* It clears DEVICE_CONFIG_1[1:0]: the mode, which is in DEVICE_CONFIG_2, stays.
TriggerConversion == Calls("trigger", "STANDBY")

Setters ==
  \/ SetOperatingMode \/ SetMagneticChannels \/ SetXyRange \/ SetZRange
  \/ SetConversionAverage \/ SetLowNoise \/ SetAngleConversion \/ TriggerConversion

DriverSteps == IsConnected \/ DetectVariant \/ ReadsRegister \/ WritesRegister

\* read_magnetic(): the ranges the raw counts are converted with.
Scales == [xy |-> cache["xy_range"], z |-> cache["z_range"]]

\* full_scale_mT(), in mT.
FullScale(v, range) ==
  IF v = "A1" THEN (IF range = "LOW" THEN 40 ELSE 80)
  ELSE IF range = "LOW" THEN 133 ELSE 266

-----------------------------------------------------------------------------
\* The chip: a conversion of the channels that are on.
Converting == chip["mode"] = "CONTINUOUS"
Converts ==
  /\ Converting /\ chip["channels"] = "XYZ"
  /\ measured' = [xy |-> chip["xy_range"], z |-> chip["z_range"]]
  /\ unmeasured' = {}
  /\ UNCHANGED <<chip, part, bus, driverVars, detected, lost, revived, doubt>>

\* Its power fails and comes back.
PowerCycles ==
  /\ chip' = PowerOn /\ measured' = NoResult
  /\ lost' = (lost \/ stage \in {"set", "ready"})
  /\ UNCHANGED <<part, bus, driverVars, detected, revived, doubt, unmeasured>>

BusChanges ==
  /\ bus' = ~bus
  /\ UNCHANGED <<chip, part, measured, driverVars, notes>>

\* The controller restarts and the chip does not.
Restarts ==
  /\ variant' = Constructed(override).variant /\ cache' = Constructed(override).cache
  /\ stage' = "connect" /\ todo' = <<>> /\ held' = NotRead
  /\ detected' = FALSE /\ lost' = FALSE /\ revived' = FALSE
  /\ doubt' = {} /\ unmeasured' = {}
  /\ UNCHANGED <<chipVars, override>>
=============================================================================
