SPECIFICATION Spec
CHECK_DEADLOCK FALSE
CONSTANTS
    s1 = s1
    s2 = s2
    NoHandle = NoHandle
    Handles <- TwoHandles
    Closures <- SelfClosures
    MaxScriptRefs = 1
    MaxWrites = 1
    MaxLookups = 1
CONSTRAINT ServerOrClient
INVARIANT NameCallbackChooses
