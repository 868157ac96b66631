CONSTANTS
  b1 = b1
  b2 = b2
  ours = ours
  theirs = theirs
  NoBroadcast = NoBroadcast
  NoStream = NoStream
  Broadcasts <- OneBroadcast
  Bindings <- OnlyOurs
  OurStreams <- OurKey
  Keyed = TRUE
  Monitored <- NoBroadcasts
  AutoStarting <- NoBroadcasts
  MaxAttempts = 0
  MaxTransientRetries = 0
  MaxPages = 1
  MaxSerial = 1
  MaxGeneration = 1
  MaxLeftOver = 1
SPECIFICATION Spec
INVARIANTS
  MultipleMeansMultiple
CHECK_DEADLOCK FALSE
