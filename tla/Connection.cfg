CONSTANTS
  SeqMod = 32
  SizeMod = 64
  WinMod = 64
  Garbage <- MCGarbage
  MAX_PAYLOAD_SIZE = 2
  MAX_RETX_ATTEMPTS = 2
  LingerFactor = 4
  RetxTimeout = 1
  RecvCapacity = 2
  SendCapacity = 2
  ClientIsn = 30
  ServerIsn = 0
  MaxInFlight = 6
  MaxIdle = 20
  Plans <- MCPlans
SPECIFICATION FairSpec
INVARIANTS
  TypeOK
  StreamsIntact
  AckedMeansDelivered
  ClosesBehindBothStreams
PROPERTIES
  KeepsContract
  FollowsDiagram
  ComesToRest
CHECK_DEADLOCK FALSE
