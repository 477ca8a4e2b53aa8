CONSTANTS
  Phones = {p1, p2}
  NoPhone = NoPhone
  Clerks = {c1, c2}
  NoClerk = NoClerk
  Delays = {1, 4}
  MinDelay = 2
  CheckEvery = 1
  Mixes <- Busy
  Period = 1
  Buffer = 2
  DeviceDelay = 3
  Guard = 1
  StallWaits = 2
  MaxBehind = 3
SPECIFICATION InputsSpec
CHECK_DEADLOCK FALSE
INVARIANTS
  InputInv
  DeviceFramesKeepTheirInstant
PROPERTIES
  OnlyTheLateAreLate
  InputsGoOn
