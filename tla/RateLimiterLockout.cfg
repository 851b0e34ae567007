\* Blocked for ever: a counter that INCR created.
SPECIFICATION FairSpec
CONSTANTS
    Clients = {c1, c2}
    IPs = {i1}
    Limit = 2
    Window = 2
    MaxFaults = 0
PROPERTIES
    BlockedRecover
