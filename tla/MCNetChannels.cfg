CONSTANTS
  s1 = s1
  s2 = s2
  Senders <- TwoSlots
  NoHello = NoHello
  NoOne = NoOne
  NoFd = NoFd
  Hellos <- Mixed
  Forgettable <- FirstChannel
  Total = 2
  Tries = 1
  MaxDisplaced = 2
  MaxConnects = 3
SPECIFICATION FairSpec
INVARIANTS
  Inv
PROPERTIES
  ImplementsChannelRuns
  OnlyItsOwnStreamCutsIt
  EveryClaimIsAnswered
  CutSessionsLetGo
