SPECIFICATION Spec
CONSTANTS
  MaxPages = 2
  Texts = {"wipe", "reset", "script"}
  Requests = {"restart", "set_mode"}
  MaxSteps = 2
  MaxEvents = 2
CHECK_DEADLOCK FALSE
INVARIANT HeadlessInOrder
