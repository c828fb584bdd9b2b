SPECIFICATION Spec
CONSTANTS
  BlockSize = 512
  NbVideo = 2
  HasAudio = TRUE
  VideoPeriod = 5
  AudioPeriod = 3
  SyncInterval = 4
  AudioShared = 8
  AudioOwn = 256
  FrameSizes <- MCFrameSizes
  MaxVideo = 2
  MaxAudio = 3
INVARIANTS FileLayout PacketsComeBack
PROPERTIES SyncKeepsFrames
