SPECIFICATION Spec
CONSTANTS
  Workers = {w1, w2}
  Nonces = {n1, n2, n3, n4, n5}
  MaxNonces = 3
  NonceTTL = 1
  MaxTime = 3
SYMMETRY Symmetry
CHECK_DEADLOCK FALSE
INVARIANTS TableBounded RowidsAreOrdered
PROPERTY NoncesKeepLedger
