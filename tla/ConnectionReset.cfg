CONSTANTS
  SeqMod = 32
  SizeMod = 64
  WinMod = 64
  Garbage <- MCGarbage
  MAX_PAYLOAD_SIZE = 2
  MAX_RETX_ATTEMPTS = 1
  LingerFactor = 4
  RetxTimeout = 1
  RecvCapacity = 2
  SendCapacity = 2
  ClientIsn = 30
  ServerIsn = 0
  MaxInFlight = 2
  MaxIdle = 4
  Plans <- MCUpload
SPECIFICATION Spec
PROPERTIES
  RstShutsDown
CHECK_DEADLOCK FALSE
