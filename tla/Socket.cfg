CONSTANTS
  PairCapacity = 1
  CopyCapacity = 1
  RecvCapacity = 2
  SendCapacity = 2
  Loads <- MCLoads
SPECIFICATION FairSpec
INVARIANTS
  NothingLost
  CleanExitIsComplete
  DiesForAReason
PROPERTIES
  ProcessEnds
