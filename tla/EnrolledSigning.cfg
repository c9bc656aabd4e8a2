SPECIFICATION Spec
CONSTANTS
  Procs = {p1, p2}
  Ids = {i1, i2}
  Nonces = {n1, n2, n3}
  Cns = {x1, x2}
  Serials = {s1, s2, s3}
  Validity = 4
  Floor = 2
  RotatePct = 20
  RenewAfter = 2
  MaxTime = 6
  None = None
SYMMETRY Symmetry
CHECK_DEADLOCK FALSE
INVARIANTS SpentInTime RenewedInWindow
PROPERTY NoncesKeepLedger
