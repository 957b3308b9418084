SPECIFICATION FairSpec
CONSTANTS
  Names <- MCNames
  Archives <- MCArchives
  Block = 4
  Base = 8
  Digits = 2
  Word = 64
  Vectors <- MCVectors
  Isr <- MCIsr
  TssEntry <- MCTssEntry
  KernelRsp <- MCKernelRsp
  Machines <- MCMachines
  PageSize = 8
  Fan = 4
  HeapPages <- MCHeapPages
  VideoPage = 32
  Program <- MCProgram
  StackPage = 7
  RamdiskFrame = 40
INVARIANTS
  WalkFinds
  TablesRight
  VideoReadable
  BootOutcome
PROPERTIES
  BootEnds
