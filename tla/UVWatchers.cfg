SPECIFICATION Spec
CHECK_DEADLOCK FALSE
CONSTANTS
    t1 = t1
    i1 = i1
    s1 = s1
    None = None
    Timers <- OneTimer
    Idlers <- OneIdler
    Signals <- OneSignal
    Closures <- BothClosures
    MaxScriptRefs = 3
    MaxRestarts = 1
CONSTRAINT TwoClasses
INVARIANTS
    TypeOK
    ActiveIsLive
    TimerRefcountExact
    ActiveHasCallback
