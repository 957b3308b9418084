SPECIFICATION FairSpec
CONSTANTS
  HeapSize = 12
  HDR = 2
  SizeMod = 64
  Requests <- MCRequests
  NULL = NULL
INVARIANTS
  TypeOK
  ListSound
  InUseIsHeld
  PassedDoNotFit
PROPERTIES
  HeldHeaderStable
  KmallocReturns
  ImplementsHeapSpec
