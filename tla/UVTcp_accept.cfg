SPECIFICATION Spec
CHECK_DEADLOCK FALSE
CONSTANTS
    t1 = t1
    t2 = t2
    NoHandle = NoHandle
    Handles <- TwoHandles
    Closures <- PlainClosures
    MaxScriptRefs = 1
    MaxWrites = 1
CONSTRAINT ServerAndClient
INVARIANTS
    ErrorTailSafe
