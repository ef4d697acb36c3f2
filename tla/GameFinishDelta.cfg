SPECIFICATION Spec
CONSTANTS
    r1 = r1
    r2 = r2
    r3 = r3
    r4 = r4
    g1 = g1
    NoGame = NoGame
    None = None
    Requests <- FourRequests
    GameOf <- Retries
SYMMETRY RetrySymmetry
INVARIANT
    EveryDeltaKept
CHECK_DEADLOCK FALSE
