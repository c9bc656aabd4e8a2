SPECIFICATION Spec
CONSTANTS
  p1 = p1
  p2 = p2
  p3 = p3
  Procs = {p1, p2}
  Station <- OneStation
  Purposes = {"tls"}
  InitPurposes = {"tls"}
  MaxGen = 3
  CaNames = {"E1", "E2"}
  NewCns = {"E1", "E2"}
  ConfigCn <- OneCn
  Prefixes = {"ca-e"}
  SlugPrefix <- OnePrefix
  TokenPurposes = {"tls"}
  CaCerts = {c1, c2, c3}
  CaLife = 2
  RootEnd = 3
  Subjects = {x1}
  IssuedBy <- TlsIssues
  Leaves = {s1, s2}
  Lives = {1}
  WindowPct = 33
  MaxTime = 1
  MaxCrlNumber = 3
  Root = Root
  None = None
SYMMETRY Symmetry
CHECK_DEADLOCK FALSE
INVARIANTS TypeOK EntryOnIssuersCrl PublishedIsRecorded ChainIsServed RevocationIsSeen
PROPERTY CrlContinuity
