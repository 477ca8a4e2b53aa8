CONSTANTS
  Workers = {w1, w2}
  NoWorker = NoWorker
  RingFrames = 4
  Safety = 1
  Period = 1
  Longest = 3
  Shortest = 1
  Sizes = {1, 2}
  Pings = 1
  MaxHead = 6
  MaxCalls = 3
SPECIFICATION Spec
CHECK_DEADLOCK FALSE
SYMMETRY Symmetry
INVARIANTS
  CaptureInv
  AnswersAreExact
PROPERTIES
  FreezesAreEndedByRequest
