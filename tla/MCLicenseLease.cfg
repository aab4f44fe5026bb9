SPECIFICATION Spec
CONSTANTS
    l1 = l1
    l2 = l2
    Lic <- MCLic
    Desk = {d1}
    Loop = loop
    Thread = {t1}
    Offline <- MCOffline
    Terms <- MCLongTerms
    Ttl = 1
    Grace = 1
    Bootstrap = 1
    MaxOwner = 3
    MaxRequests = 2
    MaxFaults = 1
    MaxTime = 4
INVARIANTS
    TypeOK
    BoundedOffline
CHECK_DEADLOCK FALSE
