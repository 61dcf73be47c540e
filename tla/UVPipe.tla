------------------------------- MODULE UVPipe -------------------------------
(***************************************************************************)
(* The UVPipe class (uv_pipe.c).  Most of it is UVTcp's code over a        *)
(* uv_pipe_t, and is modelled by UVTcp's definitions over the variable     *)
(* `pipe'.  What differs: uv_pipe_connect cannot refuse, so connect() pins *)
(* and starts the handle in whatever state it is; and attachIPC() opens    *)
(* descriptor 0, on which a parent process passes TCP connections, and     *)
(* reads it with ipc_read_cb, which loops until every connection received  *)
(* has been accepted by the script.                                        *)
(***************************************************************************)
EXTENDS Naturals

CONSTANTS
    Handles,        \* the UVPipe objects a script may ever create
    NoHandle,       \* stands for the absence of a handle
    Closures,       \* the closures a script passes: "self" captures its handle
    MaxScriptRefs,  \* bound on the references script variables hold to a handle
    MaxWrites       \* bound on the writes a handle has in flight

ASSUME HandlesAssumption == NoHandle \notin Handles
ASSUME ClosuresAssumption == Closures \subseteq {"plain", "self"}
ASSUME BoundsAssumption == MaxScriptRefs \in Nat \ {0} /\ MaxWrites \in Nat

VARIABLES
    pipe,           \* pipe[h]: the resource of handle h
    frame,          \* the script callback the loop is executing
    ipc,            \* the handles attachIPC() opened and reads
    draining        \* the handle whose connections ipc_read_cb is delivering

vars == <<pipe, frame, ipc, draining>>

Stream == INSTANCE UVTcp WITH tcp <- pipe

IpcUnchanged == UNCHANGED <<ipc, draining>>

----------------------------------------------------------------------------
(* Calls made by the script.  Inside ipc_read_cb only a callback can make   *)
(* them.                                                                    *)

ScriptRuns == draining = NoHandle \/ frame # Stream!Idle

New(h) == Stream!New(h) /\ IpcUnchanged

Listen(h) == Stream!Listen(h) /\ IpcUnchanged

SetCallback(h) == Stream!SetCallback(h) /\ IpcUnchanged

Shutdown(h) == Stream!Shutdown(h) /\ IpcUnchanged

Write(h) == Stream!Write(h) /\ IpcUnchanged

Close(h) == Stream!Close(h) /\ IpcUnchanged

Accept(h, c) == Stream!Accept(h, c) /\ IpcUnchanged

GetSockname(h) == Stream!GetSockname(h) /\ IpcUnchanged

GetPeername(h) == Stream!GetPeername(h) /\ IpcUnchanged

Keep(h) == Stream!Keep(h) /\ IpcUnchanged

Drop(h) == Stream!Drop(h) /\ IpcUnchanged

Collect(h) == Stream!Collect(h) /\ IpcUnchanged

\* A wrong argument or an empty name leaves no callback.  Otherwise the handle
\* is pinned and started; libuv reports any failure through the callback, except
\* that it does nothing more with a handle being closed.
TryConnect(h) ==
    LET r == pipe[h] IN
    \/ Stream!Update(h, Stream!SetConnect(r, "null"))
    \/ \E f \in Closures :
          Stream!Update(h,
              [Stream!SetSelfReference(Stream!SetConnect(r, f)) EXCEPT
                  !.flag = @ \cup {"HANDLE_START"},
                  !.uv   = IF r.uv \in {"init", "broken"} THEN "connecting" ELSE @,
                  !.conn = @ \/ r.uv = "init" \/ Stream!Open(r)])

Connect(h) == Stream!CanCall(h) /\ TryConnect(h) /\ IpcUnchanged

\* (mutant of Attached: setSelfReference is missing)
AttachedUnpinned(r) ==
    [r EXCEPT !.reading = TRUE, !.flag = @ \cup {"HANDLE_START", "READ_START"}]

\* (mutant of Attached: UV_PIPE_HANDLE_START is missing)
AttachedNotStarted(r) ==
    [Stream!SetSelfReference(r) EXCEPT
        !.reading = TRUE, !.flag = @ \cup {"READ_START"}]

\* The end of a successful attachIPC().
Attached(r) ==
    [Stream!SetSelfReference(r) EXCEPT
        !.reading = TRUE, !.flag = @ \cup {"HANDLE_START", "READ_START"}]

\* Nothing is asked of the handle's state.  When libuv does not open descriptor 0
\* nothing changes; otherwise the handle is on it, listens no more, and stays there
\* when the callback is not callable (none is left) or libuv refuses to read (the
\* new one stays), as it always does for a handle being closed.
AttachIPC(h) ==
    /\ Stream!CanCall(h)
    /\ LET ending == pipe[h].uv \in {"closing", "closed"}
           r == [pipe[h] EXCEPT !.uv = IF ending THEN @ ELSE "connected"]
       IN \/ Stream!Update(h, Stream!SetConnect(r, "null")) /\ UNCHANGED ipc
          \/ \E f \in Closures :
                LET q == Stream!SetConnect(r, f) IN
                \/ Stream!Update(h, q) /\ UNCHANGED ipc
                \/ /\ ~ending
                   /\ Stream!Update(h, Attached(q))
                   /\ ipc' = ipc \cup {h}
    /\ UNCHANGED draining

ScriptCall(h) ==
    /\ ScriptRuns
    /\ \/ New(h) \/ Listen(h) \/ Connect(h) \/ AttachIPC(h) \/ SetCallback(h)
       \/ Shutdown(h) \/ Write(h) \/ Close(h) \/ GetSockname(h) \/ GetPeername(h)
       \/ Keep(h) \/ Drop(h) \/ Collect(h)
       \/ \E c \in Handles : Accept(h, c)

----------------------------------------------------------------------------
(* Events of the loop.                                                      *)

ConnectionCb(h) == Stream!ConnectionCb(h) /\ IpcUnchanged

\* The answer to connect().  On a handle that neither was connecting nor has been
\* attached since it is an error, and the handler may start to read all the same: an
\* IPC handle keeps reading with ipc_read_cb only when libuv refuses.
ClientConnectionCb(h) ==
    /\ Stream!LoopTurn(h)
    /\ pipe[h].conn /\ pipe[h].uv # "closing"
    /\ \E why \in {"ok", "fail"} :
          LET r == [pipe[h] EXCEPT
                       !.conn = FALSE,
                       !.uv = IF @ # "connecting" THEN @
                              ELSE IF why = "ok" THEN "connected" ELSE "broken"]
          IN  /\ why = "ok" => pipe[h].uv \in {"connecting", "connected"}
              /\ \/ /\ Stream!Deliver(h, "connect", why,
                           [r EXCEPT !.reading = TRUE,
                                     !.flag = @ \cup {"HANDLE_START", "READ_START"}])
                    /\ ipc' = ipc \ {h}
                 \/ why = "fail" /\ Stream!Update(h, r) /\ UNCHANGED ipc
    /\ UNCHANGED draining

ReadData(h) == h \notin ipc /\ Stream!ReadData(h) /\ IpcUnchanged

ReadElse(h) == h \notin ipc /\ Stream!ReadElse(h) /\ IpcUnchanged

WriteCb(h) == Stream!WriteCb(h) /\ IpcUnchanged

ShutdownCb(h) == Stream!ShutdownCb(h) /\ IpcUnchanged

CancelConnect(h) == Stream!CancelConnect(h) /\ IpcUnchanged

PipeCloseCb(h) == Stream!TcpCloseCb(h) /\ IpcUnchanged

\* Bytes arrive on an IPC handle, possibly with a connection.  What comes with
\* nread <= 0, the end of the stream included, is ignored.
IpcReadCb(h) ==
    /\ Stream!LoopTurn(h)
    /\ h \in ipc /\ pipe[h].uv = "connected" /\ pipe[h].reading
    /\ \E waiting \in BOOLEAN :
          pipe' = [pipe EXCEPT ![h].pending = @ \/ waiting]
    /\ draining' = h
    /\ UNCHANGED <<frame, ipc>>

LoopEvent(h) ==
    /\ draining = NoHandle
    /\ \/ ConnectionCb(h) \/ ClientConnectionCb(h) \/ ReadData(h) \/ ReadElse(h)
       \/ WriteCb(h) \/ ShutdownCb(h) \/ CancelConnect(h) \/ PipeCloseCb(h)
       \/ IpcReadCb(h)

\* One turn of the loop of ipc_read_cb.  Without a callback, or with one that
\* does not accept, it goes on for ever.
Drain ==
    /\ draining # NoHandle /\ frame = Stream!Idle
    /\ IF pipe[draining].pending
       THEN Stream!Deliver(draining, "connect", "ok", pipe[draining]) /\ UNCHANGED draining
       ELSE draining' = NoHandle /\ UNCHANGED <<pipe, frame>>
    /\ UNCHANGED ipc

Return == Stream!Return /\ IpcUnchanged

----------------------------------------------------------------------------

Init == Stream!Init /\ ipc = {} /\ draining = NoHandle

Next == Return \/ Drain \/ \E h \in Handles : ScriptCall(h) \/ LoopEvent(h)

Spec == Init /\ [][Next]_vars

----------------------------------------------------------------------------
(* Properties.                                                              *)

\* With connect() and attachIPC() too, the reference count of a live handle is
\* exactly what the script, the running callback, the pin and its closures hold.
RefcountExact == Stream!RefcountExact

\* libuv aborts when a handle is closed twice: close() from any callback, the
\* loop of ipc_read_cb included, and read_cb's own close never add up to two.
CloseOnce == Stream!CloseOnce

\* A handle whose memory is freed does not listen, owes no answer to a connect or a
\* shutdown, and does not read for the connections of a parent: connect() and
\* attachIPC() pin without looking at the handle's state, and an attachIPC() that
\* fails halfway leaves what the handle owes as it was.
FreedOwesNothing ==
    /\ Stream!FreedOwesNothing
    /\ \A h \in ipc : pipe[h].reading => pipe[h].obj = "live" /\ Stream!Pinned(pipe[h])

\* ipc_read_cb uses the handle again after each callback it makes, whatever that
\* callback does: until the loop ends something besides the script keeps it.
DrainSafe ==
    draining # NoHandle => pipe[draining].obj = "live" /\ Stream!Pinned(pipe[draining])

\* UVPipe keeps the promise of HandleLife too, whatever connect() and attachIPC()
\* do to a handle that listens, is connected or is being closed.
KeepsLife == Stream!KeepsLife

\* A callback that libuv can still reach through connection_cb (from ipc_read_cb too),
\* client_connection_cb, shutdown_cb or the error branch of read_cb is one the handle
\* owns a reference to: a failed listen() cannot replace that of an attached handle.
\* (The read and write slots are left out: a partly parsed setCallback() leaves in them
\* what the handle does not own, and libuv may call it.)
CallableOwned ==
    /\ Stream!CallableOwned
    /\ \A h \in ipc : pipe[h].reading => pipe[h].slot.connect # "borrowed"

=============================================================================
