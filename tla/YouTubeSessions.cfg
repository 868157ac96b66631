CONSTANTS
  b1 = b1
  b2 = b2
  ours = ours
  theirs = theirs
  NoBroadcast = NoBroadcast
  NoStream = NoStream
  Broadcasts <- TwoBroadcasts
  Bindings <- OursOrOneOurs
  OurStreams <- OurKey
  Keyed = TRUE
  Monitored <- OneBroadcast
  AutoStarting <- NoBroadcasts
  MaxAttempts = 0
  MaxTransientRetries = 0
  MaxPages = 2
  MaxSerial = 1
  MaxGeneration = 2
  MaxLeftOver = 2
SPECIFICATION Spec
INVARIANTS
  OneStepAtATime
  TransitionsOurBroadcast
PROPERTIES
  LiveIsKept
  SwitchedOnlyByAnswer
CHECK_DEADLOCK FALSE
