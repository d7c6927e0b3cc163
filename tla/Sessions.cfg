\* A keyboard, an equal one and an output; sessions beside
\* mutations.
CONSTANTS
  Boards = {"kb", "twin", "sink"}
  Nodes = {"n1", "n2", "n3"}
  Ids = {"serial", "port1", "port2", "virtual"}
  Asked = {"serial", "virtual"}
  Identity <- MCIdentity
  Topology <- MCTopology
  Plugged <- MCPlugged
  Virtual = {"sink"}
  Named = {"sink"}
  Configured = {"n1"}
  Movable = {"kb", "twin"}
  None = None
  MailboxSize = 1
  MaxOps = 1
  MaxRecords = 1
  MaxSessions = 2
  MaxMutations = 1
  MaxHotplugs = 1
SPECIFICATION FairSpec
INVARIANTS WaitingIsCurrent OutcomeTrue
PROPERTIES OutcomeKept OperationsSpec SessionEnds
CHECK_DEADLOCK FALSE
