\* A payment retried after a failed commit.
SPECIFICATION Spec
CONSTANTS
    Requests = {r1, r2, r3}
    Users = {u1}
    Products = {1}
    MaxStock = 3
    MaxAmount = 31
    InitialProducts = {1}
    InitialStock = 2
    Inputs <- PayInputs
    Faults = TRUE
    None = None
INVARIANTS
    ChargedAtMostOnce
