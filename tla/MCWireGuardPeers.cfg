SPECIFICATION Spec
CONSTANTS
    n1 = n1
    n2 = n2
    t1 = t1
    t2 = t2
    Name <- MCName
    Thread <- MCThread
    Unnamed = unnamed
    Pool = 3
    MaxKeys = 3
    MaxRequests = 5
    MaxFaults = 1
SYMMETRY WireGuardSymmetry
INVARIANTS
    TypeOK
    AddressesUnique
    GivenIsServed
    RevokedStays
CHECK_DEADLOCK FALSE
