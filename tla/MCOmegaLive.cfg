SPECIFICATION FairSpec
CONSTANTS
  vendor = vendor
  mouse = mouse
  xac = xac
  Links = {vendor}
  Modes = {mouse, xac}
PROPERTIES
  AbandonedHoldReleased
  CalibrationAnswered
