SPECIFICATION FairSpec
CONSTANTS
  Frames = 3
  Videos = {"good", "bad", "large", "cut", "missing"}
INVARIANTS
  TypeOK
  Serving
  NeverEarly
PROPERTIES
  Plays
