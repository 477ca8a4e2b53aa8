CONSTANTS
  r1 = r1
  Readers <- OneReader
  FirstAt <- Late
  Frames = 8
  Safety = 4
  Block = 2
  MaxCounter = 20
SPECIFICATION RingSpec
CHECK_DEADLOCK FALSE
INVARIANTS
  RingInv
  ExactWithABlockOfMargin
  AskableFramesAreThere
