SPECIFICATION Spec
CONSTANTS
  Versions = {v1, v2}
  FirstStates = {"valid"}
  MaxResets = 1
  MaxInFlight = 1
  MaxUpdates = 1
INVARIANTS
  ConfirmedMeansKept
  NotInstalledIsTrue
PROPERTIES
  VettedBeforeKept
  UpdateSettles
CHECK_DEADLOCK FALSE
