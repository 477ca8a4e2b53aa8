CONSTANTS
  quiet = quiet
  loud = loud
  NoOne = NoOne
  NoName = NoName
  Total = 2
  Gains <- Levels
  Senders <- Streams
  Mixers <- EveryMixer
  Me = "laptop"
  MaxWrites = 1
  MaxEvents = 3
  MaxOpens = 1
SPECIFICATION FairMixerSpec
CHECK_DEADLOCK FALSE
INVARIANTS
  MixerInv
PROPERTIES
  StrayIsBrief
  BothComeToRest
