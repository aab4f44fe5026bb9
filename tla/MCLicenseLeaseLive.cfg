SPECIFICATION FairSpec
CONSTANTS
    l1 = l1
    l2 = l2
    Lic = {l1}
    Desk = {d1}
    Loop = loop
    Thread = {t1}
    Offline <- MCOffline
    Terms <- MCTerms
    Ttl = 1
    Grace = 1
    Bootstrap = 1
    MaxOwner = 3
    MaxRequests = 1
    MaxFaults = 1
    MaxTime = 4
PROPERTIES
    RevocationSticks
    RenewalDelivered
    RestoreReaches
CHECK_DEADLOCK FALSE
