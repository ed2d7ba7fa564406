CONSTANTS
  SeqMod = 32
  SizeMod = 64
  Garbage <- MCGarbage
  MAX_PAYLOAD_SIZE = 2
  RetxTimeout = 1
  Capacity = 3
  Isn = 30
  StreamLen = 4
  MaxWin = 4
  MaxRetx = 2
  MaxLate = 1
SPECIFICATION Spec
PROPERTY StaysInWindow
