------------------------------- MODULE UVIdle -------------------------------
(***************************************************************************)
(* The UVIdle class (uv_idle.c).  start() stores an uncounted copy of the  *)
(* object for the callback's argument; stop() releases that copy as if it  *)
(* had been counted.  The object is freed with the handle still registered *)
(* in the loop, but not active.                                            *)
(***************************************************************************)
EXTENDS Naturals

CONSTANTS
    Idlers,         \* the UVIdle objects a script may create
    NoIdler,        \* no callback is running
    Closures,       \* the closures a script passes: "self" captures its object
    MaxScriptRefs   \* bound on the references script variables hold to one

VARIABLES
    idle,           \* idle[i]: the resource of object i
    running         \* the object whose callback is running

vars == <<idle, running>>

Resources ==
    [obj     : {"none", "live", "freed"},
     rc      : Nat,                             \* Zend reference count
     script  : Nat,                             \* references script variables hold
     start   : BOOLEAN,                         \* resource->start
     slot    : {"null", "plain", "self"},       \* resource->callback
     active  : BOOLEAN,                         \* libuv calls back on every turn
     misused : BOOLEAN]                         \* (history) start() had a wrong argument

Blank ==
    [obj |-> "none", rc |-> 0, script |-> 0, start |-> FALSE, slot |-> "null",
     active |-> FALSE, misused |-> FALSE]

Captures(s) == IF s = "self" THEN 1 ELSE 0

\* freeUVIdleResource: a started handle is stopped.
Free(r) ==
    [r EXCEPT !.obj = "freed", !.rc = 0, !.slot = "null",
              !.active = IF r.start THEN FALSE ELSE @]

Deref(r) == IF r.rc = 1 THEN Free(r) ELSE [r EXCEPT !.rc = @ - 1]

\* FCI_FREE: releasing a closure releases what it captures.
FreeSlot(r) ==
    LET u == [r EXCEPT !.slot = "null"]
    IN  IF r.slot = "self" THEN Deref(u) ELSE u

\* (mutant of SetSlot: the FCI_ADDREF is missing)
SetSlotUnreferenced(r, f) == [r EXCEPT !.slot = "borrowed"]

SetSlot(r, f) == [r EXCEPT !.slot = f, !.rc = @ + Captures(f)]

Update(i, r) == idle' = [idle EXCEPT ![i] = r] /\ UNCHANGED running

----------------------------------------------------------------------------
(* Calls made by the script.                                                *)

CanCall(i) == idle[i].obj = "live" /\ (idle[i].script > 0 \/ running = i)

New(i) ==
    /\ idle[i].obj = "none"
    /\ Update(i, [Blank EXCEPT !.obj = "live", !.rc = 1, !.script = 1])

\* The old callback goes first; a wrong argument leaves none, and the handle as
\* it was.  uv_idle_start does not fail when it is given a callback.
Start(i) ==
    /\ CanCall(i)
    /\ LET r == FreeSlot(idle[i]) IN
       \/ Update(i, [r EXCEPT !.misused = TRUE])
       \/ /\ r.obj = "live"
          /\ \E f \in Closures :
                Update(i, [SetSlot(r, f) EXCEPT !.start = TRUE, !.active = TRUE])

\* (mutant of Stop: without uv_idle_stop)
StopWithoutDisarming(i) ==
    /\ CanCall(i) /\ idle[i].start
    /\ Update(i, Deref([idle[i] EXCEPT !.start = FALSE, !.slot = "null"]))

\* The callback stays; the copy start() did not count is released.
Stop(i) ==
    /\ CanCall(i) /\ idle[i].start
    /\ Update(i, Deref([idle[i] EXCEPT !.start = FALSE, !.active = FALSE]))

Keep(i) ==
    /\ CanCall(i)
    /\ idle[i].script < MaxScriptRefs
    /\ Update(i, [idle[i] EXCEPT !.rc = @ + 1, !.script = @ + 1])

Drop(i) ==
    /\ idle[i].obj = "live" /\ idle[i].script > 0
    /\ Update(i, Deref([idle[i] EXCEPT !.script = @ - 1]))

\* The cycle collector sees the callback through get_gc.
Collect(i) ==
    /\ idle[i].obj = "live"
    /\ idle[i].rc > 0 /\ idle[i].rc = Captures(idle[i].slot)
    /\ Update(i, Free(idle[i]))

----------------------------------------------------------------------------
(* Events of the loop.                                                      *)

\* Without a callback nothing is called, and an uninitialised zval is released
\* (here: nothing happens).
Turn(i) ==
    /\ running = NoIdler
    /\ idle[i].active
    /\ IF idle[i].slot = "null"
       THEN UNCHANGED vars
       ELSE /\ idle' = [idle EXCEPT ![i].rc = @ + 1]
            /\ running' = i

\* The argument is released, unless the object went while the callback ran.
Return ==
    /\ running \in Idlers
    /\ idle' = [idle EXCEPT ![running] = IF @.obj = "live" THEN Deref(@) ELSE @]
    /\ running' = NoIdler

----------------------------------------------------------------------------

Init == idle = [i \in Idlers |-> Blank] /\ running = NoIdler

Next ==
    \/ Return
    \/ \E i \in Idlers : New(i) \/ Start(i) \/ Stop(i) \/ Keep(i) \/ Drop(i)
                         \/ Collect(i) \/ Turn(i)

Spec == Init /\ [][Next]_vars

----------------------------------------------------------------------------
(* Properties.                                                              *)

\* Every resource keeps its type: no reference count goes below zero.
TypeOK == idle \in [Idlers -> Resources]

\* libuv calls back into living memory only: although nothing keeps a started
\* object alive, and although stop() may free it early, freeUVIdleResource
\* disarms the handle before the memory goes.
ActiveIsLive == \A i \in Idlers : idle[i].active => idle[i].obj = "live" /\ idle[i].start

\* An active handle has a callback, unless start() was once given a wrong
\* argument: stop() keeps the callback, and so does a refused stop().
ActiveHasCallback ==
    \A i \in Idlers : idle[i].active /\ ~idle[i].misused => idle[i].slot # "null"

\* An object a script variable refers to, or whose callback is running, is not
\* freed: tests/circular_reference_gc/UVIdle.phpt stops an object from its own
\* callback and keeps it in $idle and in the closure.
HeldIsLive ==
    \A i \in Idlers : idle[i].script > 0 \/ running = i => idle[i].obj = "live"

=============================================================================
