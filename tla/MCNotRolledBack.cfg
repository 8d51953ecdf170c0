SPECIFICATION Spec
CONSTANTS
  Versions = {v1, v2}
  FirstStates = {"valid", "pending"}
  MaxResets = 1
  MaxInFlight = 1
  MaxUpdates = 1
INVARIANT SwitchedIsNotRolledBack
CHECK_DEADLOCK FALSE
