CONSTANTS
  Kinds = {"udp", "tun"}
  Address <- MCAddress
  Segments <- MCSegments
  Flips = {1, 16, 64, 128, 254}
  Strays <- MCStrays
SPECIFICATION Spec
INVARIANTS
  ArrivesAsSent
  IntactIsHeard
PROPERTIES
  OnePeer
