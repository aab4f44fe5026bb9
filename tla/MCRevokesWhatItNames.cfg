SPECIFICATION Spec
CONSTANTS
    n1 = n1
    n2 = n2
    t1 = t1
    t2 = t2
    Name <- MCName
    Thread = {t1}
    Unnamed = unnamed
    Pool = 3
    MaxKeys = 3
    MaxRequests = 4
    MaxFaults = 0
INVARIANTS
    RevokesWhatItNames
CHECK_DEADLOCK FALSE
