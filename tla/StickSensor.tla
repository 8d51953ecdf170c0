----------------------------- MODULE StickSensor -----------------------------
(***************************************************************************)
(* The sensor as the device has it: main.cpp initialises it or halts, the  *)
(* loop polls it through the driver (Tmag5273), and every poll is the      *)
(* fault monitor's (SensorFaults).                                         *)
(***************************************************************************)
EXTENDS Tmag5273, SensorFaults

CONSTANTS
  MaxEvents  \* bound: times the bus fails, the power fails, the controller restarts or a
             \* client changes a setting

ASSUME EventsAssumption == MaxEvents \in Nat

VARIABLES
  shows,    \* the kind of poll that a read which works would be now
  reading,  \* the last reading that worked: its ranges, those used and whether they are sure
  blind,    \* history: polls that worked since the chip last measured something
  events

vars == <<tmagVars, sensorVars, shows, reading, blind, events>>

NoReading == [of |-> NoResult, used |-> NoResult, as |-> "A2", sure |-> {}]

\* By then a chip that measures nothing has been seen not to: readings that do not
\* change are counted from the second one on.
BlindLimit == StuckAfter + 1

TypeOK ==
  /\ TmagTypeOK /\ SensorTypeOK
  /\ shows \in Kinds \ {"silent"}
  /\ reading \in [of : Ranges \cup {NoResult}, used : Ranges \cup {NoResult},
                  as : {"A1", "A2"}, sure : SUBSET {"xy", "z"}]
  /\ blind \in 0..BlindLimit
  /\ events \in 0..MaxEvents

Init ==
  /\ TmagInit /\ SensorInit
  /\ shows = "working" /\ reading = NoReading /\ blind = 0
  /\ events = 0

-----------------------------------------------------------------------------
Drives ==
  /\ DriverSteps
  /\ UNCHANGED <<sensorVars, shows, reading, blind, events>>

Retunes ==
  /\ events < MaxEvents /\ events' = events + 1
  /\ Setters
  /\ UNCHANGED <<sensorVars, shows, reading, blind>>

\* The ranges there can be no doubt about.
Sure ==
  {axis \in {"xy", "z"} :
     (IF axis = "xy" THEN "xy_range" ELSE "z_range") \notin doubt \cup unmeasured /\ ~revived}

\* The loop's read_magnetic() and sensor_fault_update().
PollsSensor ==
  /\ stage = "ready" /\ todo = <<>>
  /\ Poll(IF bus THEN shows ELSE "silent")
  /\ IF bus
       THEN /\ shows' = "frozen"
            /\ reading' = [of |-> measured, used |-> Scales, as |-> variant, sure |-> Sure]
            /\ blind' = IF measured = NoResult THEN Increment(blind, BlindLimit) ELSE blind
       ELSE UNCHANGED <<shows, reading, blind>>
  /\ UNCHANGED <<tmagVars, events>>

-----------------------------------------------------------------------------
\* A conversion changes the reading or leaves it, and may bring the counter round.
ChipConverts ==
  /\ Converts
  /\ shows' \in {"working", "still", "aliased"}
  /\ blind' = 0
  /\ UNCHANGED <<sensorVars, reading, events>>

\* With every channel off the counter may move, and the reading stays.
ChipIdles ==
  /\ Converting /\ chip["channels"] = "OFF" /\ shows = "frozen"
  /\ shows' = "still"
  /\ UNCHANGED <<tmagVars, sensorVars, reading, blind, events>>

\* The results read zero from now on, and so does the counter.
PowerFails ==
  /\ events < MaxEvents /\ events' = events + 1
  /\ PowerCycles
  /\ shows' \in IF measured = NoResult THEN {shows} ELSE {"working", "aliased"}
  /\ UNCHANGED <<sensorVars, reading, blind>>

BusFails ==
  /\ bus /\ events < MaxEvents /\ events' = events + 1
  /\ BusChanges
  /\ UNCHANGED <<sensorVars, shows, reading, blind>>

BusReturns ==
  /\ ~bus /\ BusChanges
  /\ UNCHANGED <<sensorVars, shows, reading, blind, events>>

ControllerRestarts ==
  /\ events < MaxEvents /\ events' = events + 1
  /\ Restarts
  /\ monitor' = [fault |-> "none", first |-> "none", failed |-> 0, good |-> 0, identical |-> 0,
                 stale |-> 0, seen |-> FALSE]
  /\ good_reads' = 0 /\ published' = "not_observed" /\ poll' = "none"
  /\ failing' = 0 /\ frozen' = 0 /\ steady' = 0
  /\ reading' = NoReading /\ blind' = 0
  /\ UNCHANGED shows

Next ==
  \/ Drives \/ Retunes \/ PollsSensor
  \/ ChipConverts \/ ChipIdles \/ PowerFails \/ BusFails \/ BusReturns \/ ControllerRestarts

Spec == Init /\ [][Next]_vars

-----------------------------------------------------------------------------
\* A driver that is ready has set every field it is configured with, whatever an
\* earlier boot left in the registers, and a setter changes no field but its own: what
\* it remembers is what the chip has, unless the power failed, or a write
\* that took effect was reported as failed.
Configured ==
  stage = "ready" /\ ~lost => \A f \in Setup \ doubt : chip[f] = cache[f]

\* A measurement is scaled for the range it was made with, on each axis, and for the
\* part that made it.  A chip that loses its power, in the middle of initialize() or
\* later, loses its channels with its ranges and measures nothing: the order in which
\* they are set takes care of it.
ScaledAsMeasured ==
  LET maker == IF detected THEN part ELSE reading.as
  IN  \A axis \in reading.sure :
        reading.of # NoResult =>
          FullScale(reading.as, reading.used[axis]) = FullScale(maker, reading.of[axis])

\* A chip that lost its settings and answers is a fault before its readings of nothing
\* have been used for long.
LostIsFault == blind >= BlindLimit => Faulted(monitor)
=============================================================================
