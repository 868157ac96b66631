CONSTANTS
  b1 = b1
  b2 = b2
  ours = ours
  theirs = theirs
  NoBroadcast = NoBroadcast
  NoStream = NoStream
  Broadcasts <- OneBroadcast
  Bindings <- OnlyOurs
  OurStreams <- OurKey
  Keyed = TRUE
  Monitored <- NoBroadcasts
  AutoStarting <- OneBroadcast
  MaxAttempts = 0
  MaxTransientRetries = 1
  MaxPages = 1
  MaxSerial = 2
  MaxGeneration = 1
  MaxLeftOver = 2
SPECIFICATION FairSpec
INVARIANTS
  NothingIsForgotten
PROPERTIES
  StartIsDecided
CHECK_DEADLOCK FALSE
