\* Two requests; the documented revision check without exception.
CONSTANTS
  Ids = {i1}
  Jobs = {j1, j2}
  Bodies = {b1, b2}
  Sources = {s1}
  None = None
  MaxRev = 3
  MaxMishaps = 0
  MaxEdits = 0
SPECIFICATION Spec
PROPERTIES NoStaleCommit
CHECK_DEADLOCK FALSE
