SPECIFICATION FairSpec
CONSTANTS
  Requests = {r1, r2}
  Keys = {k1, k2}
  Fingerprints = {f1, f2}
  QueueSize = 1
  MaxRecords = 1
  MaxFaults = 2
  MaxCrashes = 2
INVARIANTS
  AtMostOnce
  AnswersDurable
  RecordsMatchWorkers
PROPERTIES
  Answered
CHECK_DEADLOCK FALSE
