SPECIFICATION Spec
CONSTANTS
  p1 = p1
  p2 = p2
  p3 = p3
  Procs = {p1, p2, p3}
  Station <- RevokersByCn
  Purposes = {"tls"}
  InitPurposes = {"tls"}
  MaxGen = 2
  CaNames = {"E1", "E2"}
  NewCns = {"E2"}
  ConfigCn <- OneCn
  Prefixes = {"ca-e"}
  SlugPrefix <- OnePrefix
  TokenPurposes = {}
  CaCerts = {c1, c2, c3}
  CaLife = 9
  RootEnd = 20
  Subjects = {x1}
  IssuedBy <- TlsIssues
  Leaves = {s1, s2}
  Lives = {4}
  WindowPct = 33
  MaxTime = 4
  MaxCrlNumber = 3
  Root = Root
  None = None
SYMMETRY Symmetry
CHECK_DEADLOCK FALSE
INVARIANTS EntryOnIssuersCrl
