------------------------------ MODULE UVSignal ------------------------------
(***************************************************************************)
(* The UVSignal class (uv_signal.c).  As in UVIdle, start() stores an      *)
(* uncounted copy of the object that stop() releases; unlike UVIdle, a     *)
(* start() that libuv refuses still marks the object as started.  The      *)
(* class has no get_gc handler of its own (uv_signal.c:8 sets UVIdle's,    *)
(* which UVIdle then overwrites), so the cycle collector does not see the  *)
(* callback and never takes an object that its own closure captures.       *)
(***************************************************************************)
EXTENDS Naturals

CONSTANTS
    Signals,        \* the UVSignal objects a script may create
    NoSignal,       \* no callback is running
    Closures,       \* the closures a script passes: "self" captures its object
    MaxScriptRefs   \* bound on the references script variables hold to one

VARIABLES
    signal,         \* signal[s]: the resource of object s
    running         \* the object whose callback is running

vars == <<signal, running>>

Resources ==
    [obj     : {"none", "live", "freed"},
     rc      : Nat,                                     \* Zend reference count
     script  : Nat,                                     \* references of the script
     start   : BOOLEAN,                                 \* resource->start
     slot    : {"null", "plain", "self", "borrowed"},   \* resource->callback
     active  : BOOLEAN,                                 \* libuv watches a signal
     misused : BOOLEAN]                                 \* (history) a start() failed

Blank ==
    [obj |-> "none", rc |-> 0, script |-> 0, start |-> FALSE, slot |-> "null",
     active |-> FALSE, misused |-> FALSE]

Captures(f) == IF f = "self" THEN 1 ELSE 0

\* (mutant of Free: without its test of start)
FreeStillActive(r) == [r EXCEPT !.obj = "freed", !.rc = 0, !.slot = "null"]

\* freeUVSignalResource: a started handle is stopped and loses its callback.
Free(r) ==
    LET u == IF r.start THEN [r EXCEPT !.active = FALSE, !.slot = "null"] ELSE r
    IN  [u EXCEPT !.obj = "freed", !.rc = 0]

Deref(r) == IF r.rc = 1 THEN Free(r) ELSE [r EXCEPT !.rc = @ - 1]

\* FCI_FREE: releasing a closure releases what it captures.
FreeSlot(r) ==
    LET u == [r EXCEPT !.slot = "null"]
    IN  IF r.slot = "self" THEN Deref(u) ELSE u

SetSlot(r, f) == [r EXCEPT !.slot = f, !.rc = @ + Captures(f)]

Update(s, r) == signal' = [signal EXCEPT ![s] = r] /\ UNCHANGED running

----------------------------------------------------------------------------
(* Calls made by the script.                                                *)

CanCall(s) == signal[s].obj = "live" /\ (signal[s].script > 0 \/ running = s)

New(s) ==
    /\ signal[s].obj = "none"
    /\ Update(s, [Blank EXCEPT !.obj = "live", !.rc = 1, !.script = 1])

\* The old callback goes first.  Wrong arguments leave none, or one without a
\* reference; libuv refuses a bad signal number, which leaves none either, but
\* the object is marked as started.  What libuv watched before it goes on watching,
\* except that it stops first when it refuses a number other than 0.  (When the
\* first statement frees an object that stop() has released too often, the rest of
\* the call is not modelled.)
Start(s) ==
    /\ CanCall(s)
    /\ LET r == FreeSlot(signal[s])
           bad == [r EXCEPT !.misused = TRUE]
       IN  \/ Update(s, bad)
           \/ /\ r.obj = "live"
              /\ \/ Update(s, [bad EXCEPT !.slot = "borrowed"])
                 \/ \E kept \in BOOLEAN :
                       Update(s, [bad EXCEPT !.start = TRUE, !.active = @ /\ kept])
                 \/ \E f \in Closures :
                       Update(s, [SetSlot(r, f) EXCEPT !.start = TRUE, !.active = TRUE])

\* The callback goes, then the copy start() did not count.  (One release is all
\* an object freed by the first can be given here.)
Stop(s) ==
    /\ CanCall(s) /\ signal[s].start
    /\ LET r == FreeSlot([signal[s] EXCEPT !.start = FALSE, !.active = FALSE]) IN
       Update(s, IF r.obj = "live" THEN Deref(r) ELSE r)

Keep(s) ==
    /\ CanCall(s)
    /\ signal[s].script < MaxScriptRefs
    /\ Update(s, [signal[s] EXCEPT !.rc = @ + 1, !.script = @ + 1])

Drop(s) ==
    /\ signal[s].obj = "live" /\ signal[s].script > 0
    /\ Update(s, Deref([signal[s] EXCEPT !.script = @ - 1]))

----------------------------------------------------------------------------
(* Events of the loop.                                                      *)

\* A signal arrives.  Without a callback nothing is called, and an
\* uninitialised zval is released (here: nothing happens).
Receive(s) ==
    /\ running = NoSignal
    /\ signal[s].active
    /\ IF signal[s].slot = "null"
       THEN UNCHANGED vars
       ELSE /\ signal' = [signal EXCEPT ![s].rc = @ + 1]
            /\ running' = s

\* The argument is released, unless the object went while the callback ran.
Return ==
    /\ running \in Signals
    /\ signal' = [signal EXCEPT ![running] = IF @.obj = "live" THEN Deref(@) ELSE @]
    /\ running' = NoSignal

----------------------------------------------------------------------------

Init == signal = [s \in Signals |-> Blank] /\ running = NoSignal

Next ==
    \/ Return
    \/ \E s \in Signals : New(s) \/ Start(s) \/ Stop(s) \/ Keep(s) \/ Drop(s) \/ Receive(s)

Spec == Init /\ [][Next]_vars

----------------------------------------------------------------------------
(* Properties.                                                              *)

\* Every resource keeps its type: no reference count goes below zero, and a slot
\* borrows its closure only after a start() that failed.
TypeOK ==
    /\ signal \in [Signals -> Resources]
    /\ \A s \in Signals : signal[s].slot = "borrowed" => signal[s].misused

\* libuv calls back into living memory only: although stop() releases an object
\* it never counted, freeUVSignalResource stops a started handle first.
ActiveIsLive ==
    \A s \in Signals : signal[s].active => signal[s].obj = "live" /\ signal[s].start

\* A watched signal has a callback the object owns, unless a start() failed:
\* FCI_FREE comes first and the failure may leave libuv watching.
ActiveOwnsCallback ==
    \A s \in Signals :
        signal[s].active /\ ~signal[s].misused => signal[s].slot \in Closures

\* An object a script variable refers to, or whose callback is running, is not
\* freed: tests/circular_reference_gc/UVSignal.phpt calls stop() on an object
\* that $signal still holds.
HeldIsLive ==
    \A s \in Signals : signal[s].script > 0 \/ running = s => signal[s].obj = "live"

=============================================================================
