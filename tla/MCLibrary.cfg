SPECIFICATION FairLibrary
CONSTANTS
  Chips = {"works", "absent"}
  Formats <- MCFormats
  CharArgs <- MCCharArgs
  Texts <- MCTexts
  Ints <- MCInts
  Word = 256
  MemSize = 5
  Memories <- MCMemories
  Quad = 2
  Values = {0, 258}
INVARIANTS
  PrintfWrites
  StringsRight
PROPERTIES
  CallsReturn
