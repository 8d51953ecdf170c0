SPECIFICATION Spec
CONSTANTS
  TripAfter = 1
  StuckAfter = 2
  StaleAfter = 2
  RecoverAfter = 1
  MaxEvents = 3
  Versions = {"A1"}
  Overrides = {"AUTO"}
INVARIANTS
  TypeOK
  Configured
  ScaledAsMeasured
  LostIsFault
CHECK_DEADLOCK FALSE
