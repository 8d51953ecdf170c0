SPECIFICATION Spec
CONSTANTS
  CrashLoopResets = 2
  LogEntries = 4
  SaveOutcomes = {TRUE}
INVARIANT OnlyOwnCrashes
