SPECIFICATION FairSpec
CONSTANTS
  CrashLoopResets = 2
  LogEntries = 3
  SaveOutcomes = {TRUE, FALSE}
INVARIANTS
  AlwaysBootable
  TrialHasFallback
  SwitchesBounded
  AcceptedRanBefore
PROPERTY TrialEnds
