SPECIFICATION Spec
CONSTANTS
  Width = 2
  Size = 6
  Guard = 2
  MaxLead = 3
  Delays = {0, 2}
  Resync = 1
  Stall = 1
  MaxStreams = 2
  MaxSets = 1
  MaxN = 9
CHECK_DEADLOCK FALSE
INVARIANTS
  StreamInv
  AcceptedIsHeard
  ChannelsStayTogether
