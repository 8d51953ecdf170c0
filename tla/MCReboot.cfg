SPECIFICATION Spec
CONSTANTS
  vendor = vendor
  cdc = cdc
  mouse = mouse
  xac = xac
  Links = {vendor, cdc}
  Modes = {mouse, xac}
SYMMETRY Symmetry
INVARIANT HeldUntilReboot
