SPECIFICATION Spec
CONSTANTS
  MaxPages = 2
  Texts = {"wipe", "reset"}
  Requests = {"restart", "set_mode"}
  MaxSteps = 1
  MaxEvents = 2
CHECK_DEADLOCK FALSE
INVARIANT OnlyAskedWipes
