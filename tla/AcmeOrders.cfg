SPECIFICATION Spec
CONSTANTS
  O1 = O1
  O2 = O2
  N1 = N1
  N2 = N2
  W1 = W1
  W2 = W2
  W3 = W3
  S1 = S1
  S2 = S2
  S3 = S3
  Workers = {W1, W2, W3}
  Orders = {O1}
  Names = {N1}
  Identifiers <- OneName
  Types = {"http-01", "dns-01"}
  TypesOf <- Plain
  Serials = {S1, S2, S3}
  OrderTTL = 1
  GcGrace = 0
  Life = 3
  RenewAfter = 1
  MaxTime = 2
  Faults = {"crash", "db", "yca"}
  Operator = {"issue", "revoke"}
  None = None
  Gone = Gone
SYMMETRY Symmetry
CHECK_DEADLOCK FALSE
INVARIANTS LinkedIsRecorded NotedIsRevoked OneValidation
PROPERTIES OrderOnlyAdvances
