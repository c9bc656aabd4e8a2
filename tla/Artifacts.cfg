SPECIFICATION Spec
CONSTANTS
    mint = mint
    revoke = revoke
    refresh = refresh
    create = create
    create2 = create2
    None = None
    Procs = {mint, revoke, refresh}
    Paths = {"crt", "crl", "root.crl"}
    Command <- Commands
    Plan <- Plans
    MintOf <- Mints
    MaxVersion = 5
    Inodes = {i1, i2, i3, i4, i5, i6, i7}
INVARIANTS
    RecordedIsComplete
    CommittedIsPublished
PROPERTY Contract
CHECK_DEADLOCK FALSE
