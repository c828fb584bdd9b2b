SPECIFICATION Spec
CONSTANTS
  Tolerance = 2
  QueueSize = 1
  PreMuxSize = 4
  MayFail = {}
  MayQuit = FALSE
  Graphs <- GraphsToFinish
INVARIANTS NeverStuck QueuesInOrder NothingMissing LeadBounded
ACTION_CONSTRAINT LocalFirst
