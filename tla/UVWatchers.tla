----------------------------- MODULE UVWatchers -----------------------------
(***************************************************************************)
(* The classes whose handles libuv calls back for as long as they are      *)
(* started, and which never close them, on one loop: UVTimer, UVIdle and   *)
(* UVSignal.  The loop runs one callback at a time, and a callback may     *)
(* call any method of any object the script has a variable for.            *)
(***************************************************************************)
EXTENDS Naturals

CONSTANTS
    Timers, Idlers, Signals,    \* the objects a script may create
    None,                       \* no callback is running
    Closures,                   \* the closures a script passes
    MaxScriptRefs,              \* bound on the references variables hold to one
    MaxRestarts                 \* bound on the calls of start() on a started timer

ASSUME ApartAssumption ==
    /\ Timers \cap Idlers = {} /\ Timers \cap Signals = {} /\ Idlers \cap Signals = {}
    /\ None \notin Timers \cup Idlers \cup Signals

ASSUME ClosuresAssumption == Closures \subseteq {"plain", "self"}
ASSUME BoundsAssumption == MaxScriptRefs \in Nat \ {0} /\ MaxRestarts \in Nat

VARIABLES
    timer, idle, signal,        \* the resources of the three classes
    running                     \* the object whose callback is running

vars == <<timer, idle, signal, running>>

Timer == INSTANCE UVTimer WITH NoTimer <- None
Idle == INSTANCE UVIdle WITH NoIdler <- None
Signal == INSTANCE UVSignal WITH NoSignal <- None

Init == Timer!Init /\ Idle!Init /\ Signal!Init

Next ==
    \/ Timer!Next /\ UNCHANGED <<idle, signal>>
    \/ Idle!Next /\ UNCHANGED <<timer, signal>>
    \/ Signal!Next /\ UNCHANGED <<timer, idle>>

Spec == Init /\ [][Next]_vars

----------------------------------------------------------------------------
(* Properties.                                                              *)

\* Every resource keeps its type, and the running callback is one of a timer, an
\* idle handle or a signal handle.
TypeOK ==
    /\ Timer!TypeOK /\ Idle!TypeOK /\ Signal!TypeOK
    /\ running \in Timers \cup Idlers \cup Signals \cup {None}

\* libuv calls back into living memory only, in the three classes: a timer lives
\* by its reference to itself (uv_timer.c:84); nothing keeps the other two, whose
\* destructors must disarm the handle before the memory goes.
ActiveIsLive == Timer!ActiveIsLive /\ Idle!ActiveIsLive /\ Signal!ActiveIsLive

\* The reference count of a timer is what its holders and its lost references
\* account for (uv_timer.c:84), whatever callbacks of other classes run meanwhile.
TimerRefcountExact == Timer!RefcountExact

\* An active handle has a callback to call, one it owns in UVTimer and UVSignal,
\* unless one of its start() calls failed after freeing the callback.
ActiveHasCallback ==
    Timer!ActiveOwnsCallback /\ Idle!ActiveHasCallback /\ Signal!ActiveOwnsCallback

\* An idle or signal object a script variable refers to, or whose callback is
\* running, is not freed: tests/circular_reference_gc/UVIdle.phpt and
\* UVSignal.phpt stop an object from its own callback and keep it in a variable
\* and in the closure.
HeldIsLive == Idle!HeldIsLive /\ Signal!HeldIsLive

=============================================================================
