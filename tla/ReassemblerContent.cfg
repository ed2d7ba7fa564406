CONSTANTS
  SizeMod = 64
  Garbage <- MCGarbage
  Capacity = 3
  StreamLen = 5
  MaxPush = 4
  Versions = {0}
  Manners = {FALSE}
  Junk = {0, 2}
SPECIFICATION Spec
INVARIANT DeliveredInOrder
