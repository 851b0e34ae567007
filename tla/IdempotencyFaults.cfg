\* Every fault, slow handlers, an API clock ahead of the database's.
SPECIFICATION Spec
CONSTANTS
    Attempts = {a1, a2, a3}
    Keys = {k1}
    Users = {u1, u2}
    Bodies = {b1, b2}
    Stale = 2
    Skew = 1
    MaxRun = 4
    MaxTime = 5
    Faults = TRUE
    None = None
SYMMETRY AttemptSymmetry
INVARIANTS
    TypeOK
    ClaimsSpaced
    ReplayFaithful
PROPERTIES
    SavedKeyIsClosed
