CONSTANTS
  NbWorkers = 2
  MaxJobs = 4
  MaxCalls = 2
SPECIFICATION FairSpec
INVARIANTS KeptApart
PROPERTIES JobsRunOnce Returns
CHECK_DEADLOCK FALSE
