\* A handler slower than the timeout overwrites a saved response.
SPECIFICATION Spec
CONSTANTS
    Attempts = {a1, a2, a3, a4}
    Keys = {k1}
    Users = {u1}
    Bodies = {b1}
    Stale = 1
    Skew = 0
    MaxRun = 3
    MaxTime = 3
    Faults = FALSE
    None = None
INVARIANTS
    ReplaysAgree
