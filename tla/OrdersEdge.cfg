\* Carts at the edges of validation and of the widths, two users, and catalogue
\* writes against open transactions.
SPECIFICATION Spec
CONSTANTS
    Requests = {r1, r2, r3}
    Users = {u1, u2}
    Products = {1, 2, 3}
    MaxStock = 3
    MaxAmount = 31
    InitialProducts = {1, 2}
    InitialStock = 3
    Inputs <- EdgeInputs
    Faults = FALSE
    None = None
SYMMETRY RequestSymmetry
INVARIANTS
    StockConservation
    StockCheckHolds
    OrderTotals
    AnswersAgreeWithRows
    OrderedProductsLive
    ChargedAtMostOnce
    LedgerAgreesWithOrders
PROPERTIES
    SnapshotIsCurrent
    ImplementsLedger
