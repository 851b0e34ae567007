\* Concurrent logins, expiry, resets, commands that fail and are sent again.
SPECIFICATION FairSpec
CONSTANTS
    Clients = {c1, c2}
    IPs = {i1, i2}
    Limit = 2
    Window = 2
    MaxFaults = 2
INVARIANTS
    TypeOK
    OvershootBounded
    NoTTLOnlyByRace
PROPERTIES
    WindowFixed
    BlockLifts
