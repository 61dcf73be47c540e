SPECIFICATION FairSpec
CHECK_DEADLOCK FALSE
CONSTANTS
    w1 = w1
    w2 = w2
    c1 = c1
    c2 = c2
    NoWorker = NoWorker
    Workers <- TwoWorkers
    Connections <- TwoConnections
    Closures <- BothClosures
    MaxScriptRefs = 1
INVARIANTS
    TypeOK
    RefcountExact
    ExitFindsWorker
PROPERTIES
    ClientsReleased
