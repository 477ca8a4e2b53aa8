CONSTANTS
  w1 = w1
  w2 = w2
  scan = scan
  bus = bus
  Workers <- TwoWorkers
  Scanners <- TheScan
  Players <- TheBus
  Kinds <- AllKinds
  Requests <- Bodies
  SavedLayout = "stereo"
  SavedRate = 96000
  Keep = Keep
  Nobody = Nobody
SPECIFICATION FairSpec
INVARIANTS
  SwitchInv
PROPERTIES
  OneThreadAtATime
  PutsFinish
