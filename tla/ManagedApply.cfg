\* Two requests and configurations; the manager stops once, or one write fails,
\* before or after its rename.
CONSTANTS
  Ids = {i1, i2}
  Jobs = {j1, j2}
  Bodies = {b1, b2}
  Sources = {s1, s2}
  None = None
  MaxRev = 3
  MaxMishaps = 1
  MaxEdits = 1
SPECIFICATION Spec
INVARIANTS StoreIntact AdoptionBacked RejectionLeavesNothing
PROPERTIES VerdictHonest
SYMMETRY Symmetry
CHECK_DEADLOCK FALSE
