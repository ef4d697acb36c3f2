SPECIFICATION Spec
CONSTANTS
    w1 = w1
    w2 = w2
    e1 = e1
    e2 = e2
    e3 = e3
    None = None
    Workers <- TwoWorkers
    Engines <- ThreeEngines
    PoolSize = 2
    MaxFailures = 2
    Callers <- AllCallers
SYMMETRY WorkerEngineSymmetry
INVARIANT
    FailingHandleEvicted
CHECK_DEADLOCK FALSE
