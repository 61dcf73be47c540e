SPECIFICATION FairSpec
CHECK_DEADLOCK FALSE
CONSTANTS
    t1 = t1
    t2 = t2
    NoHandle = NoHandle
    Handles <- OneHandle
    Closures <- BothClosures
    MaxScriptRefs = 1
    MaxWrites = 1
INVARIANTS
    TypeOK
    RefcountExact
    FreedOwesNothing
    ErrorTailSafe
    CloseOnce
    CallableOwned
PROPERTIES
    PinDroppedInCloseCb
    ListenerKeepsCallback
    PinReleased
    KeepsLife
