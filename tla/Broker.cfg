\* Three requests of one user over two snapshots and configurations; time passes once.
CONSTANTS
  Users = {u1}
  Configurations = {c1, c2}
  Snapshots = {s1, s2}
  Requests = {r1, r2, r3}
  None = None
  MaxTime = 1
  MaxAudit = 2
SPECIFICATION Spec
INVARIANTS SingleUse ReservationOwned AuditAgrees
PROPERTIES ReleasedByOwner
SYMMETRY Symmetry
CHECK_DEADLOCK FALSE
