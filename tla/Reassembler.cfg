CONSTANTS
  SizeMod = 64
  Garbage <- MCGarbage
  Capacity = 4
  StreamLen = 6
  MaxPush = 4
  Versions = {0, 1}
  Manners = {TRUE, FALSE}
  Junk = {0, 2}
SPECIFICATION FairSpec
INVARIANTS
  TypeOK
  MapWellFormed
  EndsExactlyAtEof
  InOrderInsideWindow
  CountedWithinCapacity
  NewestWins
PROPERTIES
  KeepsPromise
  StreamCompletes
CHECK_DEADLOCK FALSE
