SPECIFICATION Spec
CONSTANTS
    inb = inb
    tun = tun
    bad = bad
    dead = dead
    Inbound <- MCInbound
    Tunnel = {tun}
    Rejected = {bad}
    Unstartable = {dead}
    Expert <- MCExpert
    t1 = t1
    t2 = t2
    Thread <- MCThread
    None = none
    Torn = torn
    MaxRequests = 3
    MaxFaults = 1
SYMMETRY XraySymmetry
INVARIANTS
    TypeOK
    OnlyTested
    Kept
    Synced
CHECK_DEADLOCK FALSE
