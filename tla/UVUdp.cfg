SPECIFICATION FairSpec
CHECK_DEADLOCK FALSE
CONSTANTS
    u1 = u1
    u2 = u2
    NoSocket = NoSocket
    Sockets <- OneSocket
    Closures <- BothClosures
    MaxScriptRefs = 2
    MaxSends = 2
INVARIANTS
    TypeOK
    RefcountExact
    ReceivingIsOwned
PROPERTIES
    CallbacksKept
    PinReleased
