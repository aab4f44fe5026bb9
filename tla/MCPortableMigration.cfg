SPECIFICATION FairSpec
CONSTANTS
    u1 = u1
    c1 = c1
    None = None
    Account <- MCAccount
    Client <- MCClient
    Tree <- MCTree
    MaxRequests = 2
    MaxFaults = 1
    MaxCrashes = 1
INVARIANTS
    TypeOK
    Migrates
    ServesWhole
PROPERTIES
    RestoreEnds
\* Nothing is left to do once the restore has passed.
CHECK_DEADLOCK FALSE
