SPECIFICATION FairSpec
CONSTANTS
  Tolerance = 2
  QueueSize = 1
  PreMuxSize = 4
  MayFail = {"c0", "e2"}
  MayQuit = TRUE
  Graphs <- GraphsToStop
INVARIANTS SourcesStayChoked
PROPERTIES Returns
ACTION_CONSTRAINT LocalFirst
