SPECIFICATION VideoSpec
CONSTANTS
  Frames = 3
  Pixels = 6
  MaxRun = 8
  Framebuffers <- MCFramebuffers
  Sizes <- MCSizes
  Sources <- MCSources
  ByteBits = 2
  Word = 64
  IntWord = 16
  HeapRoom = 21
INVARIANTS
  TypeOK
  DrawnIsSource
  StreamFits
  InsideBuffers
  VideoShown
