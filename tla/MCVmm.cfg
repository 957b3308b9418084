SPECIFICATION Spec
CONSTANTS
  FrameIds <- MCFrameIds
  Index <- MCIndex
  KernelHalf <- MCKernelHalf
  Pages <- MCPages
  Leftover <- MCLeftover
  Boots <- MCBoots
INVARIANTS
  TypeOK
  TreeShaped
  UserPagesApart
  TlbFresh
PROPERTIES
  ImplementsVmSpec
