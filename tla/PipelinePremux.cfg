SPECIFICATION Spec
CONSTANTS
  Tolerance = 2
  QueueSize = 1
  PreMuxSize = 1
  MayFail = {}
  MayQuit = FALSE
  Graphs <- GraphsToBuffer
INVARIANT NeverStuck
ACTION_CONSTRAINT LocalFirst
