\* Two files that may name one device; liveness.
CONSTANTS
  NConfigs = 2
  MaxConfigs = 2
  Contents <- OneContents
  PathOf <- OnePathOf
  Good <- OneGood
  Paths = {"p"}
  Idents = {d1}
  None = None
  RetryCap = 2
  RetryDelay <- MCRetryDelay
  WatchdogTimeout = 1
  StableUptime = 2
  MaxEvents = 2
SPECIFICATION FairSpec
PROPERTIES Converges RefusedStops
