SPECIFICATION Spec
CHECK_DEADLOCK FALSE
CONSTANTS
    t1 = t1
    t2 = t2
    NoHandle = NoHandle
    Handles <- OneHandle
    Closures <- PlainClosures
    MaxScriptRefs = 1
    MaxWrites = 1
INVARIANT ErrorMeansDisconnect
