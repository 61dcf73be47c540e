SPECIFICATION Spec
CHECK_DEADLOCK FALSE
CONSTANTS
    p1 = p1
    p2 = p2
    NoHandle = NoHandle
    Handles <- TwoHandles
    Closures <- BothClosures
    MaxScriptRefs = 1
    MaxWrites = 1
CONSTRAINT AloneOrPair
INVARIANTS
    RefcountExact
    FreedOwesNothing
    CallableOwned
    CloseOnce
    DrainSafe
PROPERTIES
    KeepsLife
