SPECIFICATION Spec
CONSTANTS
  Last = 2
  Editable = {1}
  Pids = {p1, p2}
  None = None
  MaxStarts = 2
  MaxManagers = 2
  MaxEdits = 1
SYMMETRY PidSymmetry
INVARIANTS SignalsOwned NoChildLost BackoffFresh
CHECK_DEADLOCK FALSE
