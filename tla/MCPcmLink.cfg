CONSTANTS
  Num = 3
  Den = 2
  Buffer = 3
  Packet = 2
  CatchUp = 2
  Assumed = 4
  Leads <- ShortLead
  Encodings <- Both
  MaxLinks = 2
  MaxStreams = 2
  MaxTime = 3
SPECIFICATION Spec
CHECK_DEADLOCK FALSE
INVARIANTS
  LinkInv
  LinkIsNeverForgotten
  DeviceHearsItWhole
PROPERTIES
  FullBufferHasNoXrun
