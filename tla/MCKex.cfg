SPECIFICATION Spec
CONSTANTS
  PageSize = 3
  HeaderSize = 1
  SegmentSize = 1
  IntegritySize = 1
  StackPage = 4
  FrameIds <- MCFrameIds
  Images <- MCImages
  Ramdisks <- MCRamdisks
INVARIANTS
  FileHolds
  LoadedIsLinked
