SPECIFICATION FairSpec
CONSTANTS
  MaxPages = 2
  Texts = {"wipe", "reset", "script"}
  Requests = {"restart", "set_mode"}
  MaxSteps = 1
  MaxEvents = 2
CHECK_DEADLOCK FALSE
INVARIANTS
  OneClient
  LinkServes
  ModeFollows
PROPERTIES
  WipeDone
  RestartServed
  LoopGoesOn
  StopCompletes
