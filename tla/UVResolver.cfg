SPECIFICATION Spec
CHECK_DEADLOCK FALSE
CONSTANTS
    l1 = l1
    r1 = r1
    r2 = r2
    q1 = q1
    q2 = q2
    DefaultLoop = DefaultLoop
    NoResolver = NoResolver
    NoRequest = NoRequest
    Loops <- OneLoop
    Resolvers <- TwoResolvers
    Requests <- TwoRequests
    Closures <- BothClosures
    MaxScriptRefs = 2
    MaxLeaks = 1
SYMMETRY Symmetry
INVARIANTS
    TypeOK
    RefcountExact
    PendingIsLive
