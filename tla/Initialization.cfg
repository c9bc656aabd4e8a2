SPECIFICATION Spec
CONSTANTS
    None = None
    Lineages = {"root", "tls", "email"}
    Profiles = {"server", "email"}
    MaxDays <- TlsDays
    FullDn = {"email"}
    IntHalf = 16
    Inits = {i1, i2}
    Files <- InitFiles
    MaxRuns = 3
    MaxCrashes = 1
    MaxGen = 2
    OneTokenHolder = TRUE
INVARIANTS
    InitializedIsComplete
    MadeUnderLocked
    SignedByTheRoot
    SlugsNeverMeet
    ProfileHasOneIssuer
PROPERTIES
    LockedIsFinal
    InitCompletes
CHECK_DEADLOCK FALSE
