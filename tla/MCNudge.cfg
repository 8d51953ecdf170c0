SPECIFICATION Spec
CONSTANTS
  Links = {vendor}
  Loop = loop
  Trims = {0, 1}
  MaxSweeps = 1
  FileOutcomes = {TRUE}
INVARIANT NudgeOnlyByUser
