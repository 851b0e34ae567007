\* Handlers that finish within the timeout, no faults: one order per key, and
\* the claims of refused orders are taken over.
SPECIFICATION FairSpec
CONSTANTS
    Attempts = {a1, a2, a3, a4}
    Keys = {k1}
    Users = {u1}
    Bodies = {b1}
    Stale = 2
    Skew = 0
    MaxRun = 2
    MaxTime = 5
    Faults = FALSE
    None = None
INVARIANTS
    OneOrderPerKey
    ReplaysAgree
PROPERTIES
    StaleClaimFreed
