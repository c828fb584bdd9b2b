SPECIFICATION Spec
CONSTANTS
  BlockSize = 16384
  NbVideo = 1
  HasAudio = FALSE
  VideoPeriod = 3
  AudioPeriod = 2
  SyncInterval = 5
  AudioShared = 8
  AudioOwn = 256
  FrameSizes <- MCLargeFrames
  MaxVideo = 1
  MaxAudio = 0
INVARIANTS PacketsComeBack
