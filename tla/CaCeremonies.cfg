SPECIFICATION Spec
CONSTANTS
  p1 = p1
  p2 = p2
  p3 = p3
  Procs = {p1, p2, p3}
  Station <- Ceremonies
  Purposes = {"tls", "email"}
  InitPurposes = {"tls"}
  MaxGen = 3
  CaNames = {"E1", "E2", "E3", "M1"}
  NewCns = {"E2", "E3"}
  ConfigCn <- TwoCn
  Prefixes = {"ca-e", "ca-m"}
  SlugPrefix <- TwoPrefix
  TokenPurposes = {"email"}
  CaCerts = {c1, c2, c3, c4}
  CaLife = 2
  RootEnd = 3
  Subjects = {}
  IssuedBy <- TlsIssues
  Leaves = {}
  Lives = {1}
  WindowPct = 33
  MaxTime = 0
  MaxCrlNumber = 3
  Root = Root
  None = None
SYMMETRY AnyProc
CHECK_DEADLOCK FALSE
INVARIANTS OneActiveIssuer ActiveIssuerNotRevoked GenerationsAreLocked
PROPERTY GenerationsOnlyAge
