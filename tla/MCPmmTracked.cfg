SPECIFICATION Spec
CONSTANTS
  BlocksPerByte = 3
  BytesPerBlock = 2
  MinRegion = 3
  MemMaps <- MCMemMaps
INVARIANTS
  TrackedInitialized
