CONSTANTS
  w1 = w1
  w2 = w2
  old = old
  new = new
  Workers <- TwoWorkers
  Requests <- EveryPut
  Values <- TwoValues
  Factory = old
  Fewer <- TheNewCount
  MaxAsked = 4
  None = None
  Nobody = Nobody
SYMMETRY AnyWorker
SPECIFICATION ConfigSpec
INVARIANTS
  SettingsInv
PROPERTIES
  OnlyInputsChange
