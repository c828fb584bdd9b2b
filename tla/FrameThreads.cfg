SPECIFICATION Spec
CONSTANTS
  ThreadCount = 3
  MaxSubmits = 4
  Codecs <- MCCodecs
  PacketResults <- MCPacketResults
  DrainResults <- MCDrainResults
INVARIANTS Consistent HwAccelAlone SetupInOrder
PROPERTIES InOrder CallsReturn
CHECK_DEADLOCK FALSE
