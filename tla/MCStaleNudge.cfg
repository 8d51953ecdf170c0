SPECIFICATION Spec
CONSTANTS
  TripAfter = 2
  StuckAfter = 2
  StaleAfter = 1
  RecoverAfter = 2
  Modes = {"MOUSE", "XAC"}
  MaxMagnitude = 2
  Directions = {"LEFT", "FORWARD"}
  EnterDelta = 1
  ExitMagnitude = 1
  HoldTime = 2
  ScrollDivider = 2
  IdleMagnitude = 0
  IdleDwell = 1
  NudgeInterval = 2
  Polls = {"working", "still", "frozen", "aliased", "silent"}
PROPERTY NudgeNeverStale
