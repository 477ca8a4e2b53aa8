CONSTANTS
  c1 = c1
  c2 = c2
  Configs <- TwoConfigs
  Default = Default
  Absent = Absent
  Half = Half
  MaxBonds = 3
  MaxFaults = 1
  MaxCuts = 2
  MaxSaves = 4
SPECIFICATION Spec
CHECK_DEADLOCK FALSE
INVARIANTS
  DiskInv
  ConfigSurvives
  PairingsKeptAtRest
