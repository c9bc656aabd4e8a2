SPECIFICATION Spec
CONSTANTS
    None = None
    Lineages = {"root", "tls", "email"}
    Profiles = {"server", "email"}
    MaxDays <- TlsDays
    FullDn = {"email"}
    IntHalf = 16
    Inits = {i1}
    Files <- DefaultLabel
    MaxRuns = 1
    MaxCrashes = 0
    MaxGen = 1
    OneTokenHolder = TRUE
INVARIANT PrintedIsAccepted
CHECK_DEADLOCK FALSE
