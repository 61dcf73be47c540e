------------------------------- MODULE UVTcp -------------------------------
(***************************************************************************)
(* The UVTcp class (uv_tcp.c): a PHP object that embeds a libuv TCP        *)
(* handle.  Two owners share one block of memory.  The Zend engine frees   *)
(* it when the last reference to the object goes; libuv keeps a pointer to *)
(* it until the handle's close callback has run.  The class reconciles     *)
(* them with a reference the object holds on itself, the "pin"             *)
(* (UV_TCP_HANDLE_INTERNAL_REF), dropped by the close callback.            *)
(*                                                                         *)
(* One record per handle holds both sides: the fields of uv_tcp_ext_t, the *)
(* Zend reference count, and what libuv still owes the handle.  `frame' is *)
(* the script callback being executed: everything runs on one thread, so a *)
(* loop event is delivered only when no callback is running, while the     *)
(* script inside a callback may call any method of any handle it reaches.  *)
(***************************************************************************)
EXTENDS Naturals

CONSTANTS
    Handles,        \* the UVTcp objects a script may ever create
    NoHandle,       \* stands for the absence of a handle
    Closures,       \* the closures a script passes: "self" captures its handle
    MaxScriptRefs,  \* bound on the references script variables hold to a handle
    MaxWrites       \* bound on the writes a handle has in flight

ASSUME HandlesAssumption == NoHandle \notin Handles
ASSUME ClosuresAssumption == Closures \subseteq {"plain", "self"}
ASSUME BoundsAssumption == MaxScriptRefs \in Nat \ {0} /\ MaxWrites \in Nat

VARIABLES
    tcp,            \* tcp[h]: the resource of handle h
    frame           \* the script callback the loop is executing

vars == <<tcp, frame>>

----------------------------------------------------------------------------
(* State.                                                                   *)

Flags == {"INTERNAL_REF", "HANDLE_START", "READ_START", "CLOSING_START",
          "WRITE_CALLBACK_ENABLE"}

\* What a fcall_info_t holds: nothing, a closure it owns a reference to, or
\* ("borrowed") a closure it points to without having taken a reference.
SlotValues == {"null", "plain", "self", "borrowed"}

Slots == [read : SlotValues, write : SlotValues, error : SlotValues,
          connect : SlotValues, shutdown : SlotValues]

NoSlots == [read |-> "null", write |-> "null", error |-> "null",
            connect |-> "null", shutdown |-> "null"]

UvStates == {"none", "init", "listening", "connecting", "connected", "broken",
             "closing", "closed", "aborted"}

Resources ==
    [obj     : {"none", "live", "freed"},
     rc      : Nat,                       \* Zend reference count of the object
     script  : Nat,                       \* how many of them script variables hold
     flag    : SUBSET Flags,
     slot    : Slots,
     names   : SUBSET {"sock", "peer"},   \* sockAddr, peerAddr allocated
     uv      : UvStates,                  \* libuv's view of the handle
     reading : BOOLEAN,                   \* uv_read_start is in force
     conn    : BOOLEAN,                   \* connect_req is queued
     writes  : Nat,                       \* uv_write requests not answered yet
     shut    : {"no", "pending", "done"}, \* shutdown_req
     pending : BOOLEAN]                   \* a connection waits for uv_accept

Blank ==
    [obj |-> "none", rc |-> 0, script |-> 0, flag |-> {}, slot |-> NoSlots,
     names |-> {}, uv |-> "none", reading |-> FALSE, conn |-> FALSE,
     writes |-> 0, shut |-> "no", pending |-> FALSE]

Callbacks == {"read", "write", "error", "connect", "shutdown"}

\* `why' is the status or nread the callback is given.
Whys == {"data", "zero", "eof", "ok", "fail"}

Idle == [kind |-> "none", h |-> NoHandle, why |-> "ok"]

Frames == {Idle} \cup [kind : Callbacks, h : Handles, why : Whys]

----------------------------------------------------------------------------
(* The C helpers, as functions of the resource.                             *)

Pinned(r) == "INTERNAL_REF" \in r.flag

\* libuv has a socket for the handle and has not been asked to close it.
Open(r) == r.uv \in {"listening", "connecting", "connected", "broken"}

Ref(s) == IF s = "self" THEN 1 ELSE 0

\* References to the object held by the closures in its own slots.
Captures(s) == Ref(s.read) + Ref(s.write) + Ref(s.error)
               + Ref(s.connect) + Ref(s.shutdown)

\* (mutant of SetSlots: the FCI_ADDREFs are missing)
SetSlotsUncounted(r, s) == [r EXCEPT !.slot = s, !.rc = @ - Captures(r.slot)]

\* Store closures in the slots, and release those that were there.
SetSlots(r, s) ==
    [r EXCEPT !.slot = s, !.rc = (@ + Captures(s)) - Captures(r.slot)]

SetConnect(r, f) == SetSlots(r, [r.slot EXCEPT !.connect = f])

SetShutdown(r, f) == SetSlots(r, [r.slot EXCEPT !.shutdown = f])

SetReadWriteError(r, f, g, e) ==
    SetSlots(r, [r.slot EXCEPT !.read = f, !.write = g, !.error = e])

\* (mutants of SetSelfReference: without its test, as uv_timer.c does; forgotten)
SetSelfReferenceTwice(r) == [r EXCEPT !.rc = @ + 1, !.flag = @ \cup {"INTERNAL_REF"}]

NoSelfReference(r) == r

SetSelfReference(r) ==
    IF Pinned(r) THEN r
    ELSE [r EXCEPT !.rc = @ + 1, !.flag = @ \cup {"INTERNAL_REF"}]

\* releaseResource without its last statement.
Unregister(r) ==
    [r EXCEPT !.names = {},
              !.reading = IF "READ_START" \in r.flag THEN FALSE ELSE @,
              !.flag = @ \ {"READ_START", "HANDLE_START"}]

\* The last reference is gone: freeUVTcpResource.
Free(r) ==
    [Unregister(r) EXCEPT !.obj = "freed", !.rc = 0, !.script = 0,
                          !.slot = NoSlots, !.flag = @ \ {"INTERNAL_REF"}]

Deref(r) == IF r.rc = 1 THEN Free(r) ELSE [r EXCEPT !.rc = @ - 1]

\* (mutant of ReleaseResource: without its last statement)
ReleaseButKeepPin(r) == Unregister(r)

ReleaseResource(r) ==
    LET u == Unregister(r)
    IN  IF Pinned(u) THEN Deref([u EXCEPT !.flag = @ \ {"INTERNAL_REF"}]) ELSE u

\* uv_close aborts the process when the handle is closing or closed already.
UvClose(r) ==
    [r EXCEPT !.uv = IF r.uv \in {"closing", "closed"} THEN "aborted" ELSE "closing",
              !.reading = FALSE,
              !.pending = FALSE]

\* (mutants of TcpCloseSocket: the pin goes when closing starts; no test)
CloseSocketAndUnpin(r) ==
    IF "CLOSING_START" \in r.flag THEN r
    ELSE ReleaseResource(UvClose([r EXCEPT !.flag = @ \cup {"CLOSING_START"}]))

CloseSocketAgain(r) == UvClose([r EXCEPT !.flag = @ \cup {"CLOSING_START"}])

TcpCloseSocket(r) ==
    IF "CLOSING_START" \in r.flag THEN r
    ELSE UvClose([r EXCEPT !.flag = @ \cup {"CLOSING_START"}])

NewResource == [Blank EXCEPT !.obj = "live", !.rc = 1, !.script = 1, !.uv = "init"]

\* (mutant of AcceptedResource: the flag is set, no reference is taken)
AcceptedUncounted ==
    [NewResource EXCEPT !.uv = "connected", !.reading = TRUE,
                        !.flag = {"HANDLE_START", "READ_START", "INTERNAL_REF"}]

\* make_accepted_uv_tcp_object: started and reading, but not pinned.
AcceptedResource ==
    [NewResource EXCEPT !.uv = "connected", !.reading = TRUE,
                        !.flag = {"HANDLE_START", "READ_START"}]

\* fci_call_function: nothing happens when the slot is empty; otherwise the
\* callback runs, and its first argument is a reference to the object.
Deliver(h, kind, why, r) ==
    IF r.slot[kind] = "null"
    THEN /\ tcp' = [tcp EXCEPT ![h] = r]
         /\ UNCHANGED frame
    ELSE /\ tcp' = [tcp EXCEPT ![h] = [r EXCEPT !.rc = @ + 1]]
         /\ frame' = [kind |-> kind, h |-> h, why |-> why]

Update(h, r) == tcp' = [tcp EXCEPT ![h] = r] /\ UNCHANGED frame

----------------------------------------------------------------------------
(* Calls made by the script, at top level or inside a callback.             *)

\* The script reaches h through a variable or as the running callback's argument.
CanCall(h) == tcp[h].obj = "live" /\ (tcp[h].script > 0 \/ frame.h = h)

New(h) == tcp[h].obj = "none" /\ Update(h, NewResource)

\* The old callback goes first.  A wrong argument leaves no callback, a bad
\* host or a refusal by libuv leaves one that was never referenced.
TryListen(h) ==
    LET r == tcp[h] IN
    \/ Update(h, SetConnect(r, "null"))
    \/ Update(h, SetConnect(r, "borrowed"))
    \/ /\ r.uv = "init"
       /\ \E f \in Closures :
             Update(h, [SetSelfReference(SetConnect(r, f)) EXCEPT
                           !.uv = "listening", !.flag = @ \cup {"HANDLE_START"}])

\* (mutant of Listen: without its test of UV_TCP_HANDLE_START)
ListenUnguarded(h) == CanCall(h) /\ TryListen(h)

\* Refused outright (and nothing touched) once the handle is started.
Listen(h) == CanCall(h) /\ "HANDLE_START" \notin tcp[h].flag /\ TryListen(h)

\* Every failure, whatever its cause, leaves the connect slot empty.
Connect(h) ==
    /\ CanCall(h)
    /\ LET r == tcp[h] IN
       \/ Update(h, SetConnect(r, "null"))
       \/ /\ r.uv \in {"init", "broken"}
          /\ \E f \in Closures :
                Update(h, [SetSelfReference(SetConnect(r, f)) EXCEPT
                              !.uv = "connecting", !.conn = TRUE,
                              !.flag = @ \cup {"HANDLE_START"}])

\* The three slots are emptied before the arguments are looked at: when one
\* is not callable those parsed before it stay, without a reference.
SetCallback(h) ==
    /\ CanCall(h)
    /\ LET r == tcp[h] IN
       \/ \E w \in {<<"null", "null">>, <<"borrowed", "null">>, <<"borrowed", "borrowed">>} :
             Update(h, SetReadWriteError(r, w[1], w[2], "null"))
       \/ \E f, g, e \in Closures :
             Update(h, SetSelfReference(SetReadWriteError(r, f, g, e)))

\* A refusal by libuv leaves the new callback in place, and no pin.
Shutdown(h) ==
    /\ CanCall(h)
    /\ LET r == tcp[h] IN
       \/ Update(h, SetShutdown(r, "null"))
       \/ \E f \in Closures :
             \/ Update(h, SetShutdown(r, f))
             \/ /\ Open(r) /\ r.shut = "no"
                /\ Update(h, SetSelfReference([SetShutdown(r, f) EXCEPT !.shut = "pending"]))

Write(h) ==
    /\ CanCall(h)
    /\ LET r == [tcp[h] EXCEPT !.flag = @ \cup {"WRITE_CALLBACK_ENABLE"}] IN
       \/ Update(h, r)
       \/ /\ Open(r) /\ r.writes < MaxWrites
          /\ Update(h, [r EXCEPT !.writes = @ + 1])

Close(h) == CanCall(h) /\ Update(h, TcpCloseSocket(tcp[h]))

\* The object is created before uv_accept is asked: a refusal, for want of a
\* connection or of the one that waits (which is gone then), destroys it.
Accept(h, c) ==
    /\ CanCall(h)
    /\ tcp[c].obj = "none"
    /\ \/ /\ tcp[h].pending
          /\ tcp' = [tcp EXCEPT ![h].pending = FALSE, ![c] = AcceptedResource]
       \/ tcp' = [tcp EXCEPT ![h].pending = FALSE, ![c] = Free(NewResource)]
    /\ UNCHANGED frame

\* getSockname and getSockport cache the address libuv reports.
GetSockname(h) ==
    CanCall(h) /\ Open(tcp[h]) /\ Update(h, [tcp[h] EXCEPT !.names = @ \cup {"sock"}])

GetPeername(h) ==
    /\ CanCall(h)
    /\ tcp[h].uv = "connected"
    /\ Update(h, [tcp[h] EXCEPT !.names = @ \cup {"peer"}])

\* The script copies a reference it has to one more variable, or loses one.
Keep(h) ==
    /\ CanCall(h)
    /\ tcp[h].script < MaxScriptRefs
    /\ Update(h, [tcp[h] EXCEPT !.rc = @ + 1, !.script = @ + 1])

Drop(h) ==
    /\ tcp[h].obj = "live" /\ tcp[h].script > 0
    /\ Update(h, Deref([tcp[h] EXCEPT !.script = @ - 1]))

ScriptCall(h) ==
    \/ New(h) \/ Listen(h) \/ Connect(h) \/ SetCallback(h) \/ Shutdown(h)
    \/ Write(h) \/ Close(h) \/ GetSockname(h) \/ GetPeername(h)
    \/ Keep(h) \/ Drop(h)
    \/ \E c \in Handles : Accept(h, c)

\* (mutant of Collect: get_gc reports the object's reference on itself too)
CollectPinned(h) ==
    /\ tcp[h].obj = "live"
    /\ tcp[h].rc > 0
    /\ tcp[h].rc = Captures(tcp[h].slot) + (IF Pinned(tcp[h]) THEN 1 ELSE 0)
    /\ Update(h, Free(tcp[h]))

\* The cycle collector frees an object all of whose references are held by
\* the closures its get_gc handler reports.
Collect(h) ==
    /\ tcp[h].obj = "live"
    /\ tcp[h].rc > 0 /\ tcp[h].rc = Captures(tcp[h].slot)
    /\ Update(h, Free(tcp[h]))

----------------------------------------------------------------------------
(* Events of the loop.                                                      *)

\* libuv calls back only between callbacks, and (here) only into live memory.
LoopTurn(h) == frame = Idle /\ tcp[h].obj = "live"

\* A connection arrived on a listening socket, or accepting it failed.
ConnectionCb(h) ==
    /\ LoopTurn(h)
    /\ tcp[h].uv = "listening" /\ ~tcp[h].pending
    /\ \/ Deliver(h, "connect", "ok", [tcp[h] EXCEPT !.pending = TRUE])
       \/ Deliver(h, "connect", "fail", tcp[h])

\* The connect request is answered.  The handler starts reading before it
\* calls the script, and tells it nothing when libuv refuses to read.
ClientConnectionCb(h) ==
    /\ LoopTurn(h)
    /\ tcp[h].uv = "connecting" /\ tcp[h].conn
    /\ \E why \in {"ok", "fail"} :
          LET r == [tcp[h] EXCEPT !.conn = FALSE,
                                  !.uv = IF why = "ok" THEN "connected" ELSE "broken"]
          IN \/ Deliver(h, "connect", why,
                        [r EXCEPT !.reading = TRUE,
                                  !.flag = @ \cup {"HANDLE_START", "READ_START"}])
             \/ why = "fail" /\ Update(h, r)

ReadData(h) ==
    /\ LoopTurn(h)
    /\ tcp[h].uv = "connected" /\ tcp[h].reading
    /\ Deliver(h, "read", "data", tcp[h])

\* nread <= 0: the error callback, then tcp_close_socket (in Return when a
\* callback runs).  nread = 0 means there was nothing to read.
ReadElse(h) ==
    /\ LoopTurn(h)
    /\ tcp[h].uv \in {"connected", "broken"} /\ tcp[h].reading
    /\ \E why \in {"zero", "eof"} :
          Deliver(h, "error", why,
                  IF tcp[h].slot.error = "null" THEN TcpCloseSocket(tcp[h]) ELSE tcp[h])

\* A write is answered: the script hears of it once it has called write().
WriteCb(h) ==
    /\ LoopTurn(h)
    /\ tcp[h].writes > 0 /\ ~tcp[h].conn
    /\ LET r == [tcp[h] EXCEPT !.writes = @ - 1] IN
       IF "WRITE_CALLBACK_ENABLE" \in r.flag
       THEN Deliver(h, "write", "ok", r)
       ELSE Update(h, r)

\* libuv answers a shutdown when the writes before it are answered.
ShutdownCb(h) ==
    /\ LoopTurn(h)
    /\ tcp[h].shut = "pending" /\ tcp[h].writes = 0 /\ ~tcp[h].conn
    /\ Deliver(h, "shutdown", "ok", [tcp[h] EXCEPT !.shut = "done"])

\* The close phase of the loop: first the connect request is cancelled (the
\* handler returns at once, libuv refuses to read from a closing handle), then
\* writes and shutdown are answered as above, and last comes tcp_close_cb.
CancelConnect(h) ==
    /\ LoopTurn(h)
    /\ tcp[h].uv = "closing" /\ tcp[h].conn
    /\ Update(h, [tcp[h] EXCEPT !.conn = FALSE])

TcpCloseCb(h) ==
    /\ LoopTurn(h)
    /\ tcp[h].uv = "closing"
    /\ ~tcp[h].conn /\ tcp[h].writes = 0 /\ tcp[h].shut # "pending"
    /\ Update(h, ReleaseResource([tcp[h] EXCEPT !.uv = "closed"]))

LoopEvent(h) ==
    \/ ConnectionCb(h) \/ ClientConnectionCb(h) \/ ReadData(h) \/ ReadElse(h)
    \/ WriteCb(h) \/ ShutdownCb(h) \/ CancelConnect(h) \/ TcpCloseCb(h)

\* The running callback ends: its argument is released, and read_cb goes on
\* to close the socket when it was the error callback.
Return ==
    /\ frame # Idle
    /\ LET r == Deref(tcp[frame.h]) IN
       tcp' = [tcp EXCEPT ![frame.h] = IF frame.kind = "error" THEN TcpCloseSocket(r) ELSE r]
    /\ frame' = Idle

----------------------------------------------------------------------------

Init == tcp = [h \in Handles |-> Blank] /\ frame = Idle

Next == Return \/ \E h \in Handles : ScriptCall(h) \/ Collect(h) \/ LoopEvent(h)

Spec == Init /\ [][Next]_vars

\* What the loop does for a handle being closed.
Finish(h) ==
    tcp[h].uv = "closing" /\ (CancelConnect(h) \/ WriteCb(h) \/ ShutdownCb(h) \/ TcpCloseCb(h))

\* Callbacks return, and a loop that runs gets to every closing handle.
FairSpec == Spec /\ WF_vars(Return) /\ \A h \in Handles : SF_vars(Finish(h))

----------------------------------------------------------------------------
(* Properties.                                                              *)

\* Every handle's resource and the running frame keep the types of uv_tcp_ext_t
\* and of the callbacks; the counts never go below zero.
TypeOK == tcp \in [Handles -> Resources] /\ frame \in Frames

FrameRef(h) == IF frame.h = h THEN 1 ELSE 0

PinRef(r) == IF Pinned(r) THEN 1 ELSE 0

\* While the object lives, its reference count is exactly what the script, the
\* running callback, the pin and its own closures hold: no method, callback or
\* early return forgets or repeats a reference (setSelfReference, FCI_FREE,
\* releaseResource).
RefcountExact ==
    \A h \in Handles :
        tcp[h].obj = "live" =>
            /\ tcp[h].rc > 0
            /\ tcp[h].rc = tcp[h].script + FrameRef(h) + PinRef(tcp[h])
                           + Captures(tcp[h].slot)

\* The memory of a handle is never released while libuv listens on it, owes it
\* the answer to a connect or to a shutdown: these three calls pin the object
\* until tcp_close_cb.
FreedOwesNothing ==
    \A h \in Handles :
        tcp[h].obj = "freed" =>
            /\ tcp[h].uv \notin {"listening", "connecting"}
            /\ ~tcp[h].conn
            /\ tcp[h].shut # "pending"

\* read_cb still uses the resource after the error callback has returned and its
\* argument is released: whatever that callback does (close, drop every
\* variable, replace the callbacks), one more reference must keep it alive.
ErrorTailSafe ==
    frame.kind = "error" => tcp[frame.h].obj = "live" /\ tcp[frame.h].rc > 1

\* libuv aborts the process when a handle is closed twice: close() by the
\* script, from any callback, and the close read_cb makes never add up to two.
CloseOnce == \A h \in Handles : tcp[h].uv # "aborted"

\* A callback that libuv can still reach through connection_cb,
\* client_connection_cb, shutdown_cb or the error branch of read_cb is one the
\* handle holds a reference to, though a failed listen() leaves one it does not.
CallableOwned ==
    \A h \in Handles :
        LET s == tcp[h].slot IN
        /\ tcp[h].uv = "listening" \/ tcp[h].conn => s.connect # "borrowed"
        /\ s.error # "borrowed"
        /\ s.shutdown # "borrowed"

\* The pin goes in tcp_close_cb and nowhere else: not when the script drops its
\* last variable, not by the cycle collector, not when a callback returns.
PinDroppedInCloseCb ==
    [][\A h \in Handles :
          Pinned(tcp[h]) /\ ~Pinned(tcp'[h]) =>
              tcp[h].uv = "closing" /\ tcp'[h].uv = "closed"]_vars

\* A second listen() on a started handle does not replace its callback
\* (tests/replace_callback_gc/UVTcp_listen_twice.phpt): as long as the handle
\* listens, the connect slot keeps its closure or, by a connect(), loses it.
ListenerKeepsCallback ==
    [][\A h \in Handles :
          tcp[h].uv = "listening" /\ tcp'[h].uv = "listening" =>
              tcp'[h].slot.connect \in {tcp[h].slot.connect, "null"}]_vars

\* Once a pinned handle is being closed its pin is dropped: whatever is queued,
\* tcp_close_cb runs, and the object no longer keeps itself alive.
PinReleased ==
    \A h \in Handles :
        (Pinned(tcp[h]) /\ "CLOSING_START" \in tcp[h].flag /\ tcp[h].uv # "closed")
            ~> ~Pinned(tcp[h])

\* What HandleLife calls held, owed and closing, in a resource.
Life == INSTANCE HandleLife WITH
    life  <- [h \in Handles |-> tcp[h].obj],
    held  <- {h \in Handles : tcp[h].script > 0 \/ frame.h = h},
    owed  <- {h \in Handles : Pinned(tcp[h])},
    phase <- [h \in Handles |-> IF tcp[h].uv \in {"closing", "closed", "aborted"}
                                THEN tcp[h].uv ELSE "open"]

\* The counting of references, with its flags, slots and close callback, keeps
\* the promise of HandleLife: an object goes only when no variable or callback
\* refers to it and libuv is not owed it, which it is from the call that pins,
\* made by a holder, to the close callback.
KeepsLife == Life!Spec

\* "on error maybe client disconnect" (README.md:48): the error callback runs
\* only when libuv reported the end of the stream or a failed read.
ErrorMeansDisconnect == frame.kind = "error" => frame.why # "zero"

=============================================================================
