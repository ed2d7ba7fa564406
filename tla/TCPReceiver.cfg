CONSTANTS
  SeqMod = 8
  SizeMod = 64
  Garbage <- MCGarbage
  Capacity = 3
  PeerIsns = {0, 1, 2, 3, 4, 5, 6, 7}
  StreamLen = 18
  MaxPayload = 2
  MaxDelay = 4
SPECIFICATION Spec
INVARIANTS
  TypeOK
  DeliveredInOrder
  AcknowledgesOutput
  RoundTrip
  UnwrapIsClosest
PROPERTIES
  WindowNeverShrinks
