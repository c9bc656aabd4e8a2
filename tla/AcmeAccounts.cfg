SPECIFICATION Spec
CONSTANTS
  Single = Single
  Shared = Shared
  Workers = {w1, w2}
  Accounts = {a1, a2, a3}
  Keys = {k1, k2, k3}
  Creds = {Single, Shared}
  Reusable = {Shared}
  Expires <- FirstExpires
  Orders = {o1}
  MaxTime = 1
  None = None
  Gone = Gone
SYMMETRY Symmetry
CHECK_DEADLOCK FALSE
INVARIANTS SingleUseBindsOne BoundIsRegistered OneAccountPerKey
PROPERTY DeactivationIsFinal
