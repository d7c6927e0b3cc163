SPECIFICATION FairSpec
CONSTANTS
  Clients = {c1}
  Ring = 2
  Buffer = 2
  MaxPublished = 5
  MaxSubs = 3
  MaxServers = 2
INVARIANTS
  NothingLost
PROPERTIES
  LogSpec
  CatchesUp
CHECK_DEADLOCK FALSE
