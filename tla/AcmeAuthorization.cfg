SPECIFICATION LiveSpec
CONSTANTS
  O1 = O1
  O2 = O2
  N1 = N1
  N2 = N2
  W1 = W1
  W2 = W2
  W3 = W3
  S1 = S1
  S2 = S2
  S3 = S3
  Workers = {W1, W2}
  Orders = {O1}
  Names = {N1, N2}
  Identifiers <- TwoNames
  Types = {"http-01", "dns-01"}
  TypesOf <- Wildcard
  Serials = {S1, S2, S3}
  OrderTTL = 1
  GcGrace = 0
  Life = 3
  RenewAfter = 1
  MaxTime = 1
  Faults = {"yca"}
  Operator = {"revoke"}
  None = None
  Gone = Gone
CHECK_DEADLOCK FALSE
INVARIANTS IssuedIsAuthorized FailureIsFinal CertificatesWithinNames
PROPERTY ProcessingEnds
