SPECIFICATION Spec
CONSTANTS
  ThreadCount = 3
  MaxFrames = 6
INVARIANTS TasksOwned NoFrameForgotten
PROPERTIES InOrder CallsReturn
CHECK_DEADLOCK FALSE
