\* The response is not saved: the retry places a second order.
SPECIFICATION Spec
CONSTANTS
    Attempts = {a1, a2}
    Keys = {k1}
    Users = {u1}
    Bodies = {b1}
    Stale = 2
    Skew = 0
    MaxRun = 2
    MaxTime = 4
    Faults = TRUE
    None = None
INVARIANTS
    OneOrderPerKey
