CONSTANTS
  a1 = a1
  a2 = a2
  b = b
  r = r
  NbStreams = 2
  QueueSize = 2
  Senders <- MCSenders
  Receiver = r
  StreamOf <- MCStreamOf
  AllocMayFail = FALSE
  MaxItems = 2
  MaxChokes = 1
SPECIFICATION FairSpec
INVARIANTS TypeOK FifosInLockstep NoLostWakeup
PROPERTIES Channels EndsReached
