CONSTANTS
  Setups <- MCSetups
  DefaultTick = 6
  BufSize = 4
  IntMin <- Smallest
  MaxTs = 5
SPECIFICATION Spec
INVARIANTS Consistent NotAhead FinishedTogether NothingLost BufferBounded
PROPERTIES EncoderInput
