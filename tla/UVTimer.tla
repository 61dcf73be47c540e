------------------------------ MODULE UVTimer ------------------------------
(***************************************************************************)
(* The UVTimer class (uv_timer.c).  A started timer holds a counted copy   *)
(* of itself (`object') that stop() releases; libuv disarms a timer that   *)
(* does not repeat when it fires, but only stop() clears `start'.  The     *)
(* class never closes its libuv handle.                                    *)
(***************************************************************************)
EXTENDS Naturals

CONSTANTS
    Timers,         \* the UVTimer objects a script may create
    NoTimer,        \* no callback is running
    Closures,       \* the closures a script passes: "self" captures its timer
    MaxScriptRefs,  \* bound on the references script variables hold to a timer
    MaxRestarts     \* bound on the calls of start() on a started timer

VARIABLES
    timer,          \* timer[t]: the resource of timer t
    running         \* the timer whose callback is running

vars == <<timer, running>>

SlotValues == {"null", "plain", "self", "borrowed"}

Resources ==
    [obj      : {"none", "live", "freed"},
     rc       : Nat,          \* Zend reference count of the object
     script   : Nat,          \* how many of them script variables hold
     start    : BOOLEAN,      \* resource->start
     slot     : SlotValues,   \* resource->callback
     active   : BOOLEAN,      \* libuv will fire the timer
     repeat   : BOOLEAN,      \* and arm it again
     restarts : Nat,          \* (history) start() succeeded on a started timer
     misused  : BOOLEAN]      \* (history) start() was given wrong arguments

Blank ==
    [obj |-> "none", rc |-> 0, script |-> 0, start |-> FALSE, slot |-> "null",
     active |-> FALSE, repeat |-> FALSE, restarts |-> 0, misused |-> FALSE]

Captures(s) == IF s = "self" THEN 1 ELSE 0

\* FCI_FREE of the old closure, then the new one with its reference.
SetSlot(r, s) == [r EXCEPT !.slot = s, !.rc = (@ + Captures(s)) - Captures(r.slot)]

\* freeUVTimerResource: a started timer is stopped and loses its callback.
Free(r) ==
    LET u == IF r.start THEN [r EXCEPT !.active = FALSE, !.slot = "null"] ELSE r
    IN  [u EXCEPT !.obj = "freed", !.rc = 0]

Deref(r) == IF r.rc = 1 THEN Free(r) ELSE [r EXCEPT !.rc = @ - 1]

Update(t, r) == timer' = [timer EXCEPT ![t] = r] /\ UNCHANGED running

----------------------------------------------------------------------------
(* Calls made by the script.                                                *)

CanCall(t) == timer[t].obj = "live" /\ (timer[t].script > 0 \/ running = t)

New(t) ==
    /\ timer[t].obj = "none"
    /\ Update(t, [Blank EXCEPT !.obj = "live", !.rc = 1, !.script = 1])

\* ZVAL_COPY takes a reference every time.
SelfReference(r) == [r EXCEPT !.start = TRUE, !.rc = @ + 1]

\* The callback is freed before the arguments are read, even when the timer is
\* armed: a callback that is not callable leaves none, a delay that is not an
\* integer one without a reference.  uv_timer_start only refuses a handle being
\* closed, which a timer never is.
Start(t) ==
    /\ CanCall(t)
    /\ LET r == timer[t] IN
       \/ \E s \in {"null", "borrowed"} :
             Update(t, [SetSlot(r, s) EXCEPT !.misused = TRUE])
       \/ /\ ~r.start \/ r.restarts < MaxRestarts
          /\ \E f \in Closures, again \in BOOLEAN :
                Update(t, [SelfReference(SetSlot(r, f)) EXCEPT
                              !.active = TRUE, !.repeat = again,
                              !.restarts = IF r.start THEN @ + 1 ELSE @])

Halt(t) ==
    LET r == [timer[t] EXCEPT !.start = FALSE, !.active = FALSE]
    IN  Update(t, Deref(SetSlot(r, "null")))

\* (mutant of Stop: without its test of start)
StopUnguarded(t) == CanCall(t) /\ Halt(t)

\* Refused unless started; uv_timer_stop always succeeds.
Stop(t) == CanCall(t) /\ timer[t].start /\ Halt(t)

Keep(t) ==
    /\ CanCall(t)
    /\ timer[t].script < MaxScriptRefs
    /\ Update(t, [timer[t] EXCEPT !.rc = @ + 1, !.script = @ + 1])

Drop(t) ==
    /\ timer[t].obj = "live" /\ timer[t].script > 0
    /\ Update(t, Deref([timer[t] EXCEPT !.script = @ - 1]))

\* The cycle collector sees the callback through get_gc.
Collect(t) ==
    /\ timer[t].obj = "live"
    /\ timer[t].rc > 0 /\ timer[t].rc = Captures(timer[t].slot)
    /\ Update(t, Free(timer[t]))

----------------------------------------------------------------------------
(* Events of the loop.                                                      *)

\* The timer expires.  Without a callback nothing is called, and what
\* timer_handle_callback then releases is an uninitialised zval (here: nothing).
Fire(t) ==
    /\ running = NoTimer
    /\ timer[t].active
    /\ LET r == [timer[t] EXCEPT !.active = @ /\ timer[t].repeat] IN
       IF r.slot = "null"
       THEN Update(t, r)
       ELSE /\ timer' = [timer EXCEPT ![t] = [r EXCEPT !.rc = @ + 1]]
            /\ running' = t

Return ==
    /\ running \in Timers
    /\ timer' = [timer EXCEPT ![running] = Deref(@)]
    /\ running' = NoTimer

----------------------------------------------------------------------------

Init == timer = [t \in Timers |-> Blank] /\ running = NoTimer

Next ==
    \/ Return
    \/ \E t \in Timers : New(t) \/ Start(t) \/ Stop(t) \/ Keep(t) \/ Drop(t)
                         \/ Collect(t) \/ Fire(t)

Spec == Init /\ [][Next]_vars

----------------------------------------------------------------------------
(* Properties.                                                              *)

\* Every resource keeps its type: no reference count goes below zero.
TypeOK == timer \in [Timers -> Resources]

\* libuv fires only into living memory: an armed timer is live and started, so
\* that it holds a reference to itself (uv_timer.c:84) whatever the script drops.
ActiveIsLive == \A t \in Timers : timer[t].active => timer[t].obj = "live" /\ timer[t].start

\* The reference count is what the script, the running callback, the closure
\* and `start' hold, plus one lost reference for every start() on a started
\* timer (ZVAL_COPY over a copy that was never released).
RefcountExact ==
    \A t \in Timers :
        LET r == timer[t] IN
        r.obj = "live" =>
            r.rc = r.script + (IF running = t THEN 1 ELSE 0) + (IF r.start THEN 1 ELSE 0)
                   + Captures(r.slot) + r.restarts

\* An armed timer has a callback it owns, unless start() was once given wrong
\* arguments: FCI_FREE comes first and the failure does not disarm the timer.
ActiveOwnsCallback ==
    \A t \in Timers :
        timer[t].active /\ ~timer[t].misused => timer[t].slot \in Closures

=============================================================================
