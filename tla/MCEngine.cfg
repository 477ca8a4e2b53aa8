CONSTANTS
  Periods = {2,3}
  Delays = {0,2,3}
  DeviceDelay = 3
  LineLen = 8
  Silent = Silent
  MaxFrames = 8
  MaxXruns = 1
  MaxOpens = 2
  MaxChanges = 2
  MaxPings = 1
SPECIFICATION Spec
CHECK_DEADLOCK FALSE
INVARIANTS
  AxisInv
  OneAxis
PROPERTIES
  ImplementsRingFeed
