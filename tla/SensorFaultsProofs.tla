------------------------- MODULE SensorFaultsProofs -------------------------
(***************************************************************************)
(* Proofs about the sensor fault monitor, for any thresholds.  One         *)
(* inductive invariant ties the monitor's streaks to what the chip really  *)
(* did, and every property follows from it.                                *)
(***************************************************************************)
EXTENDS SensorFaults, TLAPS

\* A fault follows from the streak of failed reads, which is the chip's own.
Failures == failing = monitor.failed /\ (failing >= TripAfter => Faulted(monitor))

\* The monitor never counts less than the chip is frozen for, counts towards
\* recovery what the chip has really worked for, and clears the fault in time.
Streaks ==
  /\ frozen <= monitor.stale
  /\ monitor.good = steady /\ steady <= good_reads
  /\ Faulted(monitor) => monitor.good < RecoverAfter

Frozen == StaleAfter > 0 /\ frozen >= StaleAfter /\ poll = "frozen" => Faulted(monitor)

\* What is published follows the fault, and stays "not observed" only until enough
\* reads have worked.
Reported ==
  /\ published \in Faults => (published = "none" <=> ~Faulted(monitor))
  /\ published = "not_observed" => ~Faulted(monitor) /\ good_reads < RecoverAfter

SensorInv == SensorTypeOK /\ Failures /\ Streaks /\ Frozen /\ Reported

NextPoll == \E kind \in Kinds : Poll(kind)

-----------------------------------------------------------------------------
\* A streak stays within its threshold.
LEMMA IncrementBounded ==
  ASSUME NEW limit \in Nat, NEW streak \in 0..limit
  PROVE  /\ Increment(streak, limit) \in 0..limit
         /\ Increment(streak, limit) >= streak
BY DEF Increment

\* A trip names the fault, restarts the count to recovery, and keeps the rest.
LEMMA TrippedSteps ==
  ASSUME NEW m \in Monitors, NEW fault \in Faults
  PROVE  LET t == Tripped(m, fault)
         IN  /\ t \in Monitors /\ t.fault = fault
             /\ t.failed = m.failed /\ t.identical = m.identical /\ t.stale = m.stale
             /\ t.good = 0 \/ t.good = m.good
<1>1. 0 \in 0..RecoverAfter
  BY ConfigAssumption
<1> QED
  BY <1>1 DEF Tripped, Monitors

\* A failed read: the streak grows by one and trips at the threshold.
LEMMA FailedReadSteps ==
  ASSUME NEW m \in Monitors
  PROVE  /\ FailedRead(m) \in Monitors
         /\ FailedRead(m).failed = Increment(m.failed, TripAfter)
         /\ FailedRead(m).good = 0
         /\ FailedRead(m).stale = m.stale
         /\ FailedRead(m).failed >= TripAfter => Faulted(FailedRead(m))
         /\ Faulted(m) => Faulted(FailedRead(m))
<1> DEFINE f == Increment(m.failed, TripAfter)
<1>1. f \in 0..TripAfter
  BY IncrementBounded, ConfigAssumption DEF Monitors
<1> HIDE DEF f
<1> DEFINE n == [m EXCEPT !.failed = f, !.good = 0]
<1>2. /\ n \in Monitors /\ n.failed = f /\ n.good = 0 /\ n.stale = m.stale
      /\ n.fault = m.fault
  <2>1. 0 \in 0..RecoverAfter
    BY ConfigAssumption
  <2> QED
    BY <1>1, <2>1 DEF Monitors
<1>3. FailedRead(m) = IF n.failed >= TripAfter THEN Tripped(n, "read_failed") ELSE n
  BY DEF FailedRead, f
<1> HIDE DEF n
<1>4. LET t == Tripped(n, "read_failed")
      IN  /\ t \in Monitors /\ t.failed = n.failed /\ t.good = 0 /\ t.stale = n.stale
          /\ t.fault = "read_failed"
  BY <1>2, TrippedSteps DEF Faults
<1> QED
  BY <1>2, <1>3, <1>4 DEF Faulted, f

\* A read that worked: the streaks, as counted.
LEMMA CountedSteps ==
  ASSUME NEW m \in Monitors, NEW kind \in Kinds
  PROVE  /\ Counted(m, kind) \in Monitors
         /\ Counted(m, kind).failed = 0
         /\ Counted(m, kind).fault = m.fault
         /\ Counted(m, kind).good = Increment(m.good, RecoverAfter)
         /\ Counted(m, kind).stale
              = IF m.seen /\ Stale(kind) THEN Increment(m.stale, StaleAfter) ELSE 0
<1> DEFINE good == Increment(m.good, RecoverAfter)
           identical == IF m.seen /\ Repeats(kind) THEN Increment(m.identical, StuckAfter) ELSE 0
           stale == IF m.seen /\ Stale(kind) THEN Increment(m.stale, StaleAfter) ELSE 0
<1>1. good \in 0..RecoverAfter /\ identical \in 0..StuckAfter /\ stale \in 0..StaleAfter
  <2>1. /\ m.good \in 0..RecoverAfter /\ m.identical \in 0..StuckAfter
        /\ m.stale \in 0..StaleAfter
    BY DEF Monitors
  <2> QED
    BY <2>1, ConfigAssumption DEF Increment
<1>2. Counted(m, kind) = [m EXCEPT !.failed = 0, !.good = good, !.identical = identical,
                                   !.stale = stale, !.seen = TRUE]
  BY DEF Counted, Monitors
<1> HIDE DEF good, identical, stale
<1>3. /\ Counted(m, kind) \in Monitors
      /\ Counted(m, kind).failed = 0 /\ Counted(m, kind).fault = m.fault
      /\ Counted(m, kind).good = good /\ Counted(m, kind).stale = stale
  <2>1. 0 \in 0..TripAfter
    BY ConfigAssumption
  <2> QED
    BY <1>1, <1>2, <2>1 DEF Monitors
<1> QED
  BY <1>3 DEF good, stale

\* A stuck read trips and restarts the count to recovery; any other clears the
\* fault only when the count is full.
LEMMA GoodReadSteps ==
  ASSUME NEW m \in Monitors, NEW kind \in Kinds
  PROVE  LET n == Counted(m, kind)
             g == GoodRead(m, kind)
         IN  /\ g \in Monitors
             /\ g.failed = 0
             /\ g.stale = n.stale
             /\ Stuck(g) <=> Stuck(n)
             /\ Stuck(n) => Faulted(g) /\ g.good = 0
             /\ ~Stuck(n) => /\ g.good = n.good
                             /\ Faulted(g) => Faulted(m)
                             /\ Faulted(m) => (~Faulted(g) <=> n.good >= RecoverAfter)
<1> DEFINE n == Counted(m, kind)
           g == GoodRead(m, kind)
<1>1. n \in Monitors /\ n.failed = 0 /\ n.fault = m.fault
  BY CountedSteps
<1> HIDE DEF n
<1>2. CASE Stuck(n)
  <2>1. g = [Tripped(n, "stuck") EXCEPT !.good = 0]
    BY <1>2 DEF GoodRead, n
  <2> DEFINE t == Tripped(n, "stuck")
  <2>2. /\ t \in Monitors /\ t.failed = 0 /\ t.stale = n.stale /\ t.identical = n.identical
        /\ t.fault = "stuck"
    BY <1>1, TrippedSteps DEF Faults
  <2>3. 0 \in 0..RecoverAfter /\ g = [t EXCEPT !.good = 0]
    BY <2>1, ConfigAssumption
  <2> HIDE DEF t, g
  <2>4. /\ g \in Monitors /\ g.failed = 0 /\ g.stale = n.stale /\ g.identical = n.identical
        /\ g.fault = "stuck" /\ g.good = 0
    BY <2>2, <2>3 DEF Monitors
  <2> QED
    BY <1>2, <2>4 DEF Stuck, Faulted, n, g
<1>3. CASE ~Stuck(n)
  <2>1. g = IF n.good >= RecoverAfter THEN [n EXCEPT !.fault = "none"] ELSE n
    BY <1>3 DEF GoodRead, n
  <2>2. /\ g \in Monitors /\ g.failed = 0 /\ g.stale = n.stale /\ g.identical = n.identical
        /\ g.good = n.good
        /\ g.fault = IF n.good >= RecoverAfter THEN "none" ELSE m.fault
    BY <1>1, <2>1 DEF Monitors, Faults
  <2> QED
    BY <1>3, <2>2 DEF Stuck, Faulted, n
<1> QED
  BY <1>2, <1>3

-----------------------------------------------------------------------------
\* The monitor starts with empty streaks.
LEMMA SensorInvInit == SensorInit => SensorInv
BY ConfigAssumption
   DEF SensorInit, SensorInv, SensorTypeOK, Failures, Streaks, Frozen, Reported, Monitors, Faults,
       Kinds, Faulted

\* What a failed poll does to the invariant, and that it clears no fault.
LEMMA SilentPoll ==
  ASSUME SensorInv, Poll("silent")
  PROVE  SensorInv' /\ (Faulted(monitor) => Faulted(monitor'))
<1>1. monitor \in Monitors /\ monitor' = FailedRead(monitor)
  BY DEF SensorInv, SensorTypeOK, Poll
<1>2. /\ monitor' \in Monitors
      /\ monitor'.failed = Increment(monitor.failed, TripAfter)
      /\ monitor'.good = 0 /\ monitor'.stale = monitor.stale
      /\ monitor'.failed >= TripAfter => Faulted(monitor')
      /\ Faulted(monitor) => Faulted(monitor')
  BY <1>1, FailedReadSteps
<1>3. /\ good_reads' = 0 /\ steady' = 0 /\ frozen' = frozen /\ poll' = "silent"
      /\ failing' = Increment(failing, TripAfter)
      /\ published' = Published(monitor, monitor', 0)
  BY DEF Poll
<1>4. failing' \in 0..TripAfter
  BY <1>3, IncrementBounded, ConfigAssumption DEF SensorInv, SensorTypeOK
<1>5. SensorTypeOK'
  BY <1>2, <1>3, <1>4, ConfigAssumption
     DEF SensorInv, SensorTypeOK, Published, Monitors, Faults, Kinds
<1>6. Failures'
  BY <1>2, <1>3 DEF SensorInv, Failures
<1>7. Streaks'
  BY <1>2, <1>3, ConfigAssumption DEF SensorInv, Streaks
<1>8. Frozen'
  BY <1>3 DEF Frozen
<1>9. Reported'
  <2>1. monitor'.fault \in Faults
    BY <1>2 DEF Monitors
  <2> QED
    BY <1>2, <1>3, <2>1, ConfigAssumption
       DEF SensorInv, Reported, Published, Faulted, Faults
<1> QED
  BY <1>2, <1>5, <1>6, <1>7, <1>8, <1>9 DEF SensorInv

\* What a poll that worked does to the invariant, and when it clears a fault.
LEMMA WorkingPoll ==
  ASSUME SensorInv, NEW kind \in Kinds \ {"silent"}, Poll(kind)
  PROVE  SensorInv' /\ (Faulted(monitor) /\ ~Faulted(monitor') => steady' >= RecoverAfter)
<1> DEFINE n == Counted(monitor, kind)
<1>1. /\ monitor \in Monitors /\ kind \in Kinds /\ kind # "silent"
      /\ monitor' = GoodRead(monitor, kind)
  BY DEF SensorInv, SensorTypeOK, Poll
<1>2. /\ monitor' \in Monitors
      /\ monitor'.failed = 0
      /\ monitor'.stale = n.stale
      /\ Stuck(monitor') <=> Stuck(n)
      /\ Stuck(n) => Faulted(monitor') /\ monitor'.good = 0
      /\ ~Stuck(n) => /\ monitor'.good = n.good
                      /\ Faulted(monitor') => Faulted(monitor)
                      /\ Faulted(monitor) => (~Faulted(monitor') <=> n.good >= RecoverAfter)
  BY <1>1, GoodReadSteps
<1>3. /\ n.good = Increment(monitor.good, RecoverAfter)
      /\ n.stale = IF monitor.seen /\ Stale(kind) THEN Increment(monitor.stale, StaleAfter) ELSE 0
  BY <1>1, CountedSteps
<1> HIDE DEF n
<1>4. /\ good_reads' = Increment(good_reads, RecoverAfter)
      /\ published' = Published(monitor, monitor', good_reads')
      /\ poll' = kind /\ failing' = 0
      /\ frozen' = IF kind = "frozen" /\ monitor.seen THEN Increment(frozen, StaleAfter) ELSE 0
      /\ steady' = IF Stuck(monitor') THEN 0 ELSE Increment(steady, RecoverAfter)
  BY <1>1 DEF Poll
<1>5. /\ good_reads \in 0..RecoverAfter /\ frozen \in 0..StaleAfter /\ steady \in 0..RecoverAfter
      /\ monitor.good \in 0..RecoverAfter /\ monitor.stale \in 0..StaleAfter
      /\ frozen <= monitor.stale /\ monitor.good = steady /\ steady <= good_reads
  BY <1>1 DEF SensorInv, SensorTypeOK, Streaks, Monitors
<1>6. /\ good_reads' \in 0..RecoverAfter /\ frozen' \in 0..StaleAfter
      /\ steady' \in 0..RecoverAfter
  BY <1>4, <1>5, IncrementBounded, ConfigAssumption
<1>7. SensorTypeOK'
  <2>1. published' \in Faults \cup {"not_observed"}
    BY <1>2, <1>4 DEF SensorInv, SensorTypeOK, Published, Monitors, Faults
  <2> QED
    BY <1>1, <1>2, <1>4, <1>6, <2>1, ConfigAssumption DEF SensorTypeOK
<1>8. Failures'
  BY <1>2, <1>4, ConfigAssumption DEF Failures
<1>9. Streaks'
  <2>1. frozen' <= monitor'.stale
    BY <1>2, <1>3, <1>4, <1>5, ConfigAssumption DEF Increment, Stale
  <2>2. monitor'.good = steady' /\ steady' <= good_reads'
    BY <1>2, <1>3, <1>4, <1>5, ConfigAssumption DEF Increment
  <2>3. Faulted(monitor') => monitor'.good < RecoverAfter
    <3>1. CASE Stuck(n)
      BY <1>2, <3>1, ConfigAssumption
    <3>2. CASE ~Stuck(n)
      BY <1>2, <1>3, <1>5, <3>2, ConfigAssumption DEF Increment
    <3> QED
      BY <3>1, <3>2
  <2> QED
    BY <2>1, <2>2, <2>3 DEF Streaks
<1>10. Frozen'
  <2>1. SUFFICES ASSUME StaleAfter > 0, frozen' >= StaleAfter PROVE Faulted(monitor')
    BY DEF Frozen
  <2>2. monitor'.stale >= StaleAfter
    BY <1>2, <1>6, <1>9, <2>1, ConfigAssumption DEF Streaks, Monitors
  <2>3. Stuck(monitor')
    BY <2>1, <2>2 DEF Stuck
  <2> QED
    BY <1>2, <2>3
<1>11. Reported'
  BY <1>2, <1>4, <1>6, ConfigAssumption DEF SensorInv, Reported, Published, Faulted, Monitors, Faults
<1>12. Faulted(monitor) /\ ~Faulted(monitor') => steady' >= RecoverAfter
  BY <1>2, <1>3, <1>4, <1>5, ConfigAssumption DEF Increment
<1> QED
  BY <1>7, <1>8, <1>9, <1>10, <1>11, <1>12 DEF SensorInv

\* Every step of the specification keeps the invariant and earns its recovery.
LEMMA SensorStep ==
  ASSUME SensorInv, [NextPoll]_sensorVars
  PROVE  SensorInv' /\ (Faulted(monitor) /\ ~Faulted(monitor') => steady' >= RecoverAfter)
<1>1. CASE UNCHANGED sensorVars
  BY <1>1 DEF SensorInv, SensorTypeOK, Failures, Streaks, Frozen, Reported, Faulted, sensorVars
<1>2. ASSUME NEW kind \in Kinds, Poll(kind)
      PROVE  SensorInv' /\ (Faulted(monitor) /\ ~Faulted(monitor') => steady' >= RecoverAfter)
  <2>1. CASE kind = "silent"
    BY <1>2, <2>1, SilentPoll
  <2>2. CASE kind # "silent"
    BY <1>2, <2>2, WorkingPoll
  <2> QED
    BY <2>1, <2>2
<1> QED
  BY <1>1, <1>2 DEF NextPoll

\* The inductive invariant of the monitor and its published status.
LEMMA SensorInvariant == SensorSpec => []SensorInv
<1>1. SensorInv /\ [NextPoll]_sensorVars => SensorInv'
  BY SensorStep
<1> QED
  BY <1>1, SensorInvInit, PTL DEF SensorSpec, NextPoll

-----------------------------------------------------------------------------
\* The monitor's state stays of its type, streaks within their thresholds.
THEOREM SensorTypesCorrect == SensorSpec => []SensorTypeOK
<1>1. SensorInv => SensorTypeOK
  BY DEF SensorInv
<1> QED
  BY <1>1, SensorInvariant, PTL

\* A sensor that stops answering or converting becomes a fault at its threshold,
\* whatever came before (SensorFaultMonitor::update).
THEOREM LossIsFaultCorrect == SensorSpec => []LossIsFault
<1>1. SensorInv => LossIsFault
  BY DEF SensorInv, Failures, Frozen, LossIsFault
<1> QED
  BY <1>1, SensorInvariant, PTL

\* The published status calls the sensor healthy only when it is observed and not
\* faulted (sensor_fault_update, SensorFaultStatus).
THEOREM HealthyIsObservedCorrect == SensorSpec => []HealthyIsObserved
<1>1. SensorInv => HealthyIsObserved
  BY ConfigAssumption DEF SensorInv, SensorTypeOK, Streaks, Reported, HealthyIsObserved
<1> QED
  BY <1>1, SensorInvariant, PTL

\* A sensor that has worked for recover_after_good_reads polls in a row is trusted,
\* and reported healthy (SensorFaultMonitor::update, SensorFaultStatus).
THEOREM RecoveryDueCorrect == SensorSpec => []RecoveryDue
<1>1. SensorInv => RecoveryDue
  BY ConfigAssumption DEF SensorInv, SensorTypeOK, Streaks, Reported, RecoveryDue
<1> QED
  BY <1>1, SensorInvariant, PTL

\* A fault clears only after enough reads in a row that worked on a chip that is not
\* stuck (SensorFaultMonitor::update).
THEOREM RecoveryEarnedCorrect == SensorSpec => RecoveryEarned
<1>1. SensorInv /\ [NextPoll]_sensorVars
        => [Faulted(monitor) /\ ~Faulted(monitor') => steady' >= RecoverAfter]_sensorVars
  BY SensorStep
<1> QED
  BY <1>1, SensorInvariant, PTL DEF SensorSpec, NextPoll, RecoveryEarned
=============================================================================
