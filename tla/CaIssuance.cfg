SPECIFICATION Spec
CONSTANTS
  p1 = p1
  p2 = p2
  p3 = p3
  Procs = {p1, p2}
  Station <- Unattended
  Purposes = {"tls"}
  InitPurposes = {"tls"}
  MaxGen = 1
  CaNames = {"E1"}
  NewCns = {}
  ConfigCn <- OneCn
  Prefixes = {"ca-e"}
  SlugPrefix <- OnePrefix
  TokenPurposes = {}
  CaCerts = {c1}
  CaLife = 3
  RootEnd = 4
  Subjects = {x1}
  IssuedBy <- TlsIssues
  Leaves = {s1, s2}
  Lives = {1, 3}
  WindowPct = 33
  MaxTime = 3
  MaxCrlNumber = 5
  Root = Root
  None = None
SYMMETRY AnyProc
CHECK_DEADLOCK FALSE
INVARIANTS RenewalDiscipline RevokedIsListed
