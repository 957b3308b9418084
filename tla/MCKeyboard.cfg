SPECIFICATION FairSpec
CONSTANTS
  BufferSize = 3
  Keys <- MCKeys
  Plain <- MCPlain
  Shifted <- MCShifted
  NoChar = "0"
  Newline = "enter"
  Backspace = "backspace"
  MaxLens = {1, 2, 3}
  MaxPresses = 5
INVARIANTS
  LineIsTyped
PROPERTIES
  ImplementsKeyQueue
  ReaderWakes
