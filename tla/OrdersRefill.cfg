\* A cancel after the shelf was refilled.
SPECIFICATION Spec
CONSTANTS
    Requests = {r1, r2, r3}
    Users = {u1}
    Products = {1}
    MaxStock = 3
    MaxAmount = 31
    InitialProducts = {1}
    InitialStock = 3
    Inputs <- RefillInputs
    Faults = FALSE
    None = None
INVARIANTS
    CancelNeverFailsOnStock
