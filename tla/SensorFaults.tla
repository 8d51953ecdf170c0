---------------------------- MODULE SensorFaults ----------------------------
(***************************************************************************)
(* The sensor fault monitor (SensorFaultMonitor of omega_calibration.hpp), *)
(* fed by every tick of the control loop, and the status the loop          *)
(* publishes for GET_DIAGNOSTICS.                                          *)
(*                                                                         *)
(* A poll is known by what it tells the monitor: whether the read worked,  *)
(* whether the reading differs from the last one, and whether the          *)
(* conversion counter moved.  Streaks are counted up to their thresholds.  *)
(***************************************************************************)
EXTENDS Naturals

CONSTANTS
  TripAfter,    \* trip_after_failed_reads
  StuckAfter,   \* stuck_after_samples, 0 to disable
  StaleAfter,   \* stuck_after_stale_conversions, 0 to disable
  RecoverAfter  \* recover_after_good_reads

ASSUME ConfigAssumption ==
  /\ TripAfter \in Nat \ {0} /\ RecoverAfter \in Nat \ {0}
  /\ StuckAfter \in Nat /\ StaleAfter \in Nat

VARIABLES
  monitor,    \* SensorFaultMonitor
  good_reads, \* CommonState::good_reads
  published,  \* SensorFaultStatus::fault, as the console reads it
  poll,       \* the kind of the last poll
  failing,    \* history: polls in a row that failed
  frozen,     \* history: polls that worked since the chip last made a conversion
  steady      \* history: polls in a row that worked on a chip not yet stuck

sensorVars == <<monitor, good_reads, published, poll, failing, frozen, steady>>

Faults == {"none", "read_failed", "stuck"}

\* working: a new reading.  still: a new reading, to the bit the same.  frozen:
\* no conversion since the last poll.  aliased: the three-bit counter came round
\* to the same value.  silent: the read failed.
Kinds == {"working", "still", "frozen", "aliased", "silent"}
Repeats(kind) == kind \in {"still", "frozen"}
Stale(kind) == kind \in {"frozen", "aliased"}

Monitors == [fault : Faults, first : Faults, failed : 0..TripAfter, good : 0..RecoverAfter,
             identical : 0..StuckAfter, stale : 0..StaleAfter, seen : BOOLEAN]

SensorTypeOK ==
  /\ monitor \in Monitors
  /\ good_reads \in 0..RecoverAfter
  /\ published \in Faults \cup {"not_observed"}
  /\ poll \in Kinds \cup {"none"}
  /\ failing \in 0..TripAfter
  /\ frozen \in 0..StaleAfter
  /\ steady \in 0..RecoverAfter

SensorInit ==
  /\ monitor = [fault |-> "none", first |-> "none", failed |-> 0, good |-> 0, identical |-> 0,
                stale |-> 0, seen |-> FALSE]
  /\ good_reads = 0
  /\ published = "not_observed"
  /\ poll = "none"
  /\ failing = 0
  /\ frozen = 0
  /\ steady = 0

-----------------------------------------------------------------------------
\* Mutant of Increment: streaks do not saturate.
IncrementUnbounded(streak, limit) == streak + 1

\* saturating_increment().
Increment(streak, limit) == IF streak < limit THEN streak + 1 ELSE limit

Tripped(m, fault) ==
  IF m.fault = fault THEN m
  ELSE [m EXCEPT !.fault = fault, !.good = 0, !.first = IF @ = "none" THEN fault ELSE @]

FailedRead(m) ==
  LET n == [m EXCEPT !.failed = Increment(@, TripAfter), !.good = 0]
  IN  IF n.failed >= TripAfter THEN Tripped(n, "read_failed") ELSE n

\* Mutant of Counted: a reading that repeats does not count while the counter moves
\* again.
CountedEither(m, kind) ==
  [m EXCEPT !.failed = 0,
            !.good = Increment(@, RecoverAfter),
            !.identical = IF m.seen /\ Repeats(kind) THEN Increment(@, StuckAfter) ELSE 0,
            !.stale = IF m.seen /\ Stale(kind) /\ ~Repeats(kind) THEN Increment(@, StaleAfter) ELSE 0,
            !.seen = TRUE]

\* The streaks after a read that worked.
Counted(m, kind) ==
  [m EXCEPT !.failed = 0,
            !.good = Increment(@, RecoverAfter),
            !.identical = IF m.seen /\ Repeats(kind) THEN Increment(@, StuckAfter) ELSE 0,
            !.stale = IF m.seen /\ Stale(kind) THEN Increment(@, StaleAfter) ELSE 0,
            !.seen = TRUE]

\* Mutant of Stuck: the counter alone decides.
StuckByCounter(m) == StaleAfter > 0 /\ m.stale >= StaleAfter

Stuck(m) ==
  \/ StuckAfter > 0 /\ m.identical >= StuckAfter
  \/ StaleAfter > 0 /\ m.stale >= StaleAfter

\* Mutant of GoodRead: recovery is counted through a stuck reading.
GoodReadCounts(m, kind) ==
  LET n == Counted(m, kind)
  IN  IF Stuck(n) THEN Tripped(n, "stuck")
      ELSE IF n.good >= RecoverAfter THEN [n EXCEPT !.fault = "none"]
      ELSE n

\* Recovery is counted from the first sample that changes again.
GoodRead(m, kind) ==
  LET n == Counted(m, kind)
  IN  IF Stuck(n) THEN [Tripped(n, "stuck") EXCEPT !.good = 0]
      ELSE IF n.good >= RecoverAfter THEN [n EXCEPT !.fault = "none"]
      ELSE n

Faulted(m) == m.fault # "none"

\* Mutant of Published: the sensor is reported observed as soon as it answers enough,
\* faulted or not.
PublishedAnyway(m, n, reads) ==
  IF reads >= RecoverAfter THEN "none"
  ELSE IF Faulted(n) THEN n.fault ELSE published

\* Mutant of Published: only a trip is reported.
PublishedTrips(m, n, reads) ==
  IF ~Faulted(m) /\ Faulted(n) THEN n.fault
  ELSE IF published = "not_observed" /\ ~Faulted(n) /\ reads >= RecoverAfter THEN "none"
  ELSE published

\* sensor_fault_changed() on an edge, sensor_observed_healthy() once.
Published(m, n, reads) ==
  IF Faulted(m) # Faulted(n) THEN n.fault
  ELSE IF published = "not_observed" /\ ~Faulted(n) /\ reads >= RecoverAfter THEN "none"
  ELSE published

\* sensor_fault_update() with a poll of this kind.
Poll(kind) ==
  /\ monitor' = IF kind = "silent" THEN FailedRead(monitor) ELSE GoodRead(monitor, kind)
  /\ good_reads' = IF kind = "silent" THEN 0 ELSE Increment(good_reads, RecoverAfter)
  /\ published' = Published(monitor, monitor', good_reads')
  /\ poll' = kind
  /\ failing' = IF kind = "silent" THEN Increment(failing, TripAfter) ELSE 0
  /\ frozen' = CASE kind = "frozen" /\ monitor.seen -> Increment(frozen, StaleAfter)
                 [] kind = "silent"                 -> frozen
                 [] OTHER                           -> 0
  /\ steady' = IF kind = "silent" \/ Stuck(monitor') THEN 0
               ELSE Increment(steady, RecoverAfter)

SensorSpec == SensorInit /\ [][\E kind \in Kinds : Poll(kind)]_sensorVars

-----------------------------------------------------------------------------
\* A sensor that has stopped answering or converting is a fault in time, however
\* failed reads, stale ones and good ones alternated before.
LossIsFault ==
  /\ failing >= TripAfter => Faulted(monitor)
  /\ StaleAfter > 0 /\ frozen >= StaleAfter /\ poll = "frozen" => Faulted(monitor)

\* A sensor that flaps between working, failing and sticking stays a fault: it is
\* trusted again only after enough reads in a row that worked and were not stuck.
RecoveryEarned ==
  [][Faulted(monitor) /\ ~Faulted(monitor') => steady' >= RecoverAfter]_sensorVars

\* The diagnostics never call the sensor healthy before it has been observed, nor
\* while it is faulted.
HealthyIsObserved ==
  /\ published = "none" => ~Faulted(monitor)
  /\ published = "not_observed" => ~Faulted(monitor) /\ steady < RecoverAfter

\* A fault does not outlive its cause: a sensor that has worked for long enough is
\* trusted, and the diagnostics say so, whatever the streaks were before.
RecoveryDue == steady >= RecoverAfter => ~Faulted(monitor) /\ published = "none"
=============================================================================
