SPECIFICATION Spec
CONSTANTS
  CrashLoopResets = 2
  LogEntries = 3
  SaveOutcomes = {TRUE}
PROPERTY ConfirmedStays
