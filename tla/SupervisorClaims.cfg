\* Three files with room for two, two devices behind two symlinks, a rejected
\* content.
CONSTANTS
  NConfigs = 3
  MaxConfigs = 2
  Contents <- TwoContents
  PathOf <- TwoPathOf
  Good <- TwoGood
  Paths = {"p", "q"}
  Idents = {d1, d2}
  None = None
  RetryCap = 1
  RetryDelay <- MCRetryDelay
  WatchdogTimeout = 0
  StableUptime = 0
  MaxEvents = 2
SPECIFICATION Spec
INVARIANTS SnapshotAccounting RunsValidated SessionExclusive SharedOnlyWhenKept LimitRespected
PROPERTIES UpdateReplacesOnlyWhenValid
SYMMETRY IdentSymmetry
