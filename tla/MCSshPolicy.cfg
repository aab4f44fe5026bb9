SPECIFICATION Spec
CONSTANTS
    u1 = u1
    u2 = u2
    t1 = t1
    t2 = t2
    a1 = a1
    a2 = a2
    User <- MCUser
    Thread <- MCThread
    Address = {a1}
    NoAddress = none
    Nobody = nobody
    Plan <- MCSingle
    Update <- MCSuspend
    MaxTerminals = 2
    MaxDay = 2
    MaxRequests = 2
    MaxLogins = 2
    MaxFaults = 0
SYMMETRY SshSymmetry
INVARIANTS
    TypeOK
    SuspendedStays
    OpenUnlessEnded
CHECK_DEADLOCK FALSE
