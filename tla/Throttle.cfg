SPECIFICATION Spec
CONSTANTS
  Name = {n1, n2, n3}
  Account = {n1}
  Thread = {t1, t2}
  MaxAttempts = 2
  MaxTracked = 1
  MaxLogins = 5
  MaxLapses = 2
INVARIANTS
  TrackedWithinRequests
PROPERTIES
  LockHolds
SYMMETRY Symmetry
CHECK_DEADLOCK FALSE
