\* Creates, cancels and payments with every fault, four requests.
SPECIFICATION Spec
CONSTANTS
    Requests = {r1, r2, r3, r4}
    Users = {u1}
    Products = {1, 2, 3}
    MaxStock = 3
    MaxAmount = 31
    InitialProducts = {1, 2}
    InitialStock = 2
    Inputs <- CoreInputs
    Faults = TRUE
    None = None
SYMMETRY RequestSymmetry
INVARIANTS
    TypeOK
    StockConservation
    StockCheckHolds
    OrderTotals
    PaymentAgreement
    WaitsAscend
    NoWaitCycle
PROPERTIES
    StatusFinal
    ImplementsLedger
