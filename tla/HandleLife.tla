----------------------------- MODULE HandleLife -----------------------------
(***************************************************************************)
(* What a class that wraps a libuv handle promises about memory, without   *)
(* reference counts, flags or callbacks.  The Zend engine and libuv share  *)
(* the block of an object.  The script holds it or not; libuv is owed it   *)
(* (it will come back to it) or not.  The block goes only when it is       *)
(* neither held nor owed; only a holder entrusts it to libuv; and what is  *)
(* owed stays owed until the handle has been closed.                       *)
(***************************************************************************)

CONSTANT Handles

VARIABLES
    life,       \* life[h]: "none", "live" or "freed"
    held,       \* the handles a variable or a running callback refers to
    owed,       \* the handles libuv relies on
    phase       \* phase[h]: "open", "closing" or "closed"

vars == <<life, held, owed, phase>>

Init ==
    /\ life = [h \in Handles |-> "none"]
    /\ held = {} /\ owed = {}
    /\ phase = [h \in Handles |-> "open"]

\* The object is used, and the script comes to hold it or not.
Lives(h) ==
    /\ held' \in {held \cup {h}, held \ {h}}
    /\ life' = [life EXCEPT ![h] = "live"]

\* Nobody is left, and the object goes.
Goes(h) ==
    /\ held' = held \ {h} /\ h \notin owed'
    /\ life' = [life EXCEPT ![h] = "freed"]

\* new, accept(); an accept() without a connection destroys what it made.
Create(h) ==
    /\ life[h] = "none"
    /\ h \notin owed /\ owed' = owed
    /\ (Lives(h) /\ h \in held') \/ Goes(h)
    /\ UNCHANGED phase

\* The holder keeps it, entrusts it to libuv, or forgets it; libuv brings it back,
\* even when it is not owed it (a client that was accepted reads without a pin).
Use(h) ==
    /\ life[h] = "live"
    /\ \/ owed' = owed
       \/ h \in held /\ owed' = owed \cup {h}
    /\ Lives(h) \/ Goes(h)
    /\ UNCHANGED phase

\* Closing starts: close(), or the end of the stream, perhaps as a callback ends.
StartClosing(h) ==
    /\ life[h] = "live" /\ phase[h] = "open"
    /\ phase' = [phase EXCEPT ![h] = "closing"]
    /\ held' \in {held, held \ {h}}
    /\ UNCHANGED <<life, owed>>

\* The close callback: libuv is done with it.
Closed(h) ==
    /\ life[h] = "live" /\ phase[h] = "closing"
    /\ phase' = [phase EXCEPT ![h] = "closed"]
    /\ owed' = owed \ {h}
    /\ \/ h \notin held /\ Goes(h)
       \/ UNCHANGED <<life, held>>

Next == \E h \in Handles : Create(h) \/ Use(h) \/ StartClosing(h) \/ Closed(h)

Spec == Init /\ [][Next]_vars

=============================================================================
