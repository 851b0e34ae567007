\* Retries of a create, cancels and payments on a pool of two connections, with
\* shutdowns, a drain that expires, a listener that fails, and a restart.
SPECIFICATION FairServerSpec
CONSTANTS
    Requests = {r1, r2, r3}
    Users = {u1}
    Products = {1}
    MaxStock = 3
    MaxAmount = 31
    InitialProducts = {1}
    InitialStock = 1
    Inputs <- ServerInputs
    Faults = FALSE
    None = None
    Keys = {k1}
    Carts <- ServerCarts
    Stale = 0
    MaxRun = 0
    MaxTime = 1
    MaxConns = 2
    maxAttempts = 3
INVARIANTS
    ServerTypeOK
    ResponsesSurviveShutdown
    LedgerSurvivesShutdown
PROPERTIES
    ImplementsIdempotency
    EveryRequestEnds
    ShutdownEnds
