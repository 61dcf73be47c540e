------------------------------ MODULE UVWorker ------------------------------
(***************************************************************************)
(* UVProcess::spawn (uv_process.c) and the UVWorker class (uv_worker.c):   *)
(* child processes to which a server passes the connections it gets.  The  *)
(* object embeds the process handle and the pipe of the child; it holds a  *)
(* reference to itself until the child exits.  A connection is accepted    *)
(* into a handle of its own, a copy of it is written to the pipe, and the  *)
(* handle is closed when the write is answered.                            *)
(*                                                                         *)
(* The server is a UVTcp that listens: at most one connection waits in it, *)
(* until attach() or accept() takes it.  In the child, UVPipe reads.       *)
(***************************************************************************)
EXTENDS Integers, Sequences

CONSTANTS
    Workers,        \* the UVWorker objects spawn() may ever make
    NoWorker,       \* stands for the absence of one
    Connections,    \* the connections the server may get
    Closures,       \* the closures a script passes: "self" captures the worker
    MaxScriptRefs   \* bound on the references script variables hold to a worker

ASSUME NoWorkerAssumption == NoWorker \notin Workers
ASSUME ClosuresAssumption == Closures \subseteq {"plain", "self"}
ASSUME BoundsAssumption == MaxScriptRefs \in Nat \ {0}

VARIABLES
    worker,         \* worker[w]: the resource of worker w
    conn,           \* conn[c]: where connection c is, in this process
    running         \* the worker whose close callback is running

vars == <<worker, conn, running>>

----------------------------------------------------------------------------
(* State.                                                                   *)

\* "lost": spawn() answered a number, and nobody has the object it made.
Resources ==
    [obj    : {"none", "live", "lost", "freed"},
     rc     : Nat,                          \* Zend reference count of the object
     script : Nat,                          \* how many script variables hold
     slot   : {"null", "plain", "self"},    \* closeCallback
     child  : {"none", "running", "exited", "closing", "closed"},
     passed : Seq(Connections)]             \* write2 requests on the pipe, in order

Blank ==
    [obj |-> "none", rc |-> 0, script |-> 0, slot |-> "null",
     child |-> "none", passed |-> <<>>]

\* A connection comes, waits in the server, is taken by the script or into the
\* client handle of attach(), which is open until it is closed and freed.
Places == {"outside", "waiting", "taken", "open", "closing", "freed"}

Ref(f) == IF f = "self" THEN 1 ELSE 0

Free(r) == [r EXCEPT !.obj = "freed", !.rc = 0, !.script = 0, !.slot = "null"]

Deref(r) == IF r.rc = 1 THEN Free(r) ELSE [r EXCEPT !.rc = @ - 1]

Update(w, r) == worker' = [worker EXCEPT ![w] = r]

----------------------------------------------------------------------------
(* Calls made by the script.                                                *)

CanCall(w) == worker[w].obj = "live" /\ (worker[w].script > 0 \/ running = w)

\* make_worker: the object is referenced when the child runs.
MakeWorker ==
    {[Blank EXCEPT !.obj = "live", !.rc = 2, !.script = 1, !.child = "running"],
     [Blank EXCEPT !.obj = "lost", !.rc = 1]}

\* When it does not, the error takes the place of the object as the result.
Spawn(w) ==
    /\ worker[w].obj = "none"
    /\ \E r \in MakeWorker : Update(w, r)
    /\ UNCHANGED <<conn, running>>

\* (mutant of SetCloseCallback: without FCI_FREE)
ReplaceCloseCallback(w) ==
    /\ CanCall(w)
    /\ \E f \in Closures \cup {"null"} :
          Update(w, [worker[w] EXCEPT !.slot = f, !.rc = @ + Ref(f)])
    /\ UNCHANGED <<conn, running>>

\* The callback that was there goes first; a wrong argument leaves none.
SetCloseCallback(w) ==
    /\ CanCall(w)
    /\ \E f \in Closures \cup {"null"} :
          Update(w, [worker[w] EXCEPT !.slot = f, !.rc = (@ + Ref(f)) - Ref(worker[w].slot)])
    /\ UNCHANGED <<conn, running>>

\* kill(): the child goes, unless it handles the signal or has gone already.
Kill(w) ==
    /\ CanCall(w)
    /\ worker[w].child = "running"
    /\ Update(w, [worker[w] EXCEPT !.child = "exited"])
    /\ UNCHANGED <<conn, running>>

\* The connection that waits in the server, if any, is accepted and written to
\* the pipe, whether or not the child still runs.  (If none waits the client
\* handle is freed again, though the loop has it in its list of handles.)
Attach(w) ==
    /\ CanCall(w)
    /\ \E c \in Connections :
          /\ conn[c] = "waiting"
          /\ conn' = [conn EXCEPT ![c] = "open"]
          /\ Update(w, [worker[w] EXCEPT !.passed = Append(@, c)])
    /\ UNCHANGED running

\* The script accepts the connection itself.
AcceptHere(c) ==
    /\ conn[c] = "waiting"
    /\ conn' = [conn EXCEPT ![c] = "taken"]
    /\ UNCHANGED <<worker, running>>

Keep(w) ==
    /\ CanCall(w) /\ worker[w].script < MaxScriptRefs
    /\ Update(w, [worker[w] EXCEPT !.rc = @ + 1, !.script = @ + 1])
    /\ UNCHANGED <<conn, running>>

Drop(w) ==
    /\ worker[w].obj = "live" /\ worker[w].script > 0
    /\ Update(w, Deref([worker[w] EXCEPT !.script = @ - 1]))
    /\ UNCHANGED <<conn, running>>

\* The cycle collector: get_gc reports the close callback, not the reference to
\* itself.
Collect(w) ==
    /\ worker[w].obj = "live" /\ worker[w].rc > 0
    /\ worker[w].rc = Ref(worker[w].slot)
    /\ Update(w, Free(worker[w]))
    /\ UNCHANGED <<conn, running>>

ScriptCall(w) ==
    \/ Spawn(w) \/ SetCloseCallback(w) \/ Kill(w) \/ Attach(w)
    \/ Keep(w) \/ Drop(w) \/ Collect(w)

----------------------------------------------------------------------------
(* Events of the loop and of the world.                                     *)

\* libuv calls back only between callbacks, and (here) only into live memory.
LoopTurn(w) == running = NoWorker /\ worker[w].obj = "live"

Arrive(c) ==
    /\ conn[c] = "outside"
    /\ \A d \in Connections : conn[d] # "waiting"
    /\ conn' = [conn EXCEPT ![c] = "waiting"]
    /\ UNCHANGED <<worker, running>>

Exit(w) ==
    /\ worker[w].child = "running"
    /\ Update(w, [worker[w] EXCEPT !.child = "exited"])
    /\ UNCHANGED <<conn, running>>

\* close_process_handle after the callback: uv_close, then the reference to itself.
CloseHandle(r) == Deref([r EXCEPT !.child = "closing"])

\* (mutants of CloseProcessHandle: the reference goes before the callback runs;
\* when no callback is set it is kept, or released twice)
ReleaseFirst(w) ==
    /\ LoopTurn(w) /\ worker[w].child = "exited"
    /\ LET r == Deref(worker[w]) IN
       IF worker[w].slot = "null"
       THEN Update(w, [r EXCEPT !.child = "closing"]) /\ UNCHANGED running
       ELSE Update(w, [r EXCEPT !.rc = @ + 1]) /\ running' = w
    /\ UNCHANGED conn

CloseTwice(w) ==
    /\ LoopTurn(w) /\ worker[w].child = "exited"
    /\ IF worker[w].slot = "null"
       THEN Update(w, Deref(CloseHandle(worker[w]))) /\ UNCHANGED running
       ELSE Update(w, [worker[w] EXCEPT !.rc = @ + 1]) /\ running' = w
    /\ UNCHANGED conn

\* The child has exited: close_process_handle, up to the callback when there is one.
CloseProcessHandle(w) ==
    /\ LoopTurn(w) /\ worker[w].child = "exited"
    /\ IF worker[w].slot = "null"
       THEN Update(w, CloseHandle(worker[w])) /\ UNCHANGED running
       ELSE Update(w, [worker[w] EXCEPT !.rc = @ + 1]) /\ running' = w
    /\ UNCHANGED conn

\* The callback returns and its argument is released; the rest follows.
Return ==
    /\ running # NoWorker
    /\ Update(running, CloseHandle(Deref(worker[running])))
    /\ running' = NoWorker
    /\ UNCHANGED conn

\* libuv is done with the process handle; no close callback was given.
ProcessClosed(w) ==
    /\ LoopTurn(w) /\ worker[w].child = "closing"
    /\ Update(w, [worker[w] EXCEPT !.child = "closed"])
    /\ UNCHANGED <<conn, running>>

\* (mutant of Write2Cb: the client is closed only when the child got its copy)
CloseOnSuccess(w) ==
    /\ LoopTurn(w) /\ worker[w].passed # <<>>
    /\ conn' = [conn EXCEPT ![Head(worker[w].passed)] =
                   IF worker[w].child = "running" THEN "closing" ELSE @]
    /\ Update(w, [worker[w] EXCEPT !.passed = Tail(@)])
    /\ UNCHANGED running

\* The first connection on the pipe is answered: the child has a copy, or the
\* write failed.  The status is not looked at.
Write2Cb(w) ==
    /\ LoopTurn(w) /\ worker[w].passed # <<>>
    /\ conn' = [conn EXCEPT ![Head(worker[w].passed)] = "closing"]
    /\ Update(w, [worker[w] EXCEPT !.passed = Tail(@)])
    /\ UNCHANGED running

\* The client handle is closed, and its memory freed.
TcpCloseCb(c) ==
    /\ running = NoWorker
    /\ conn[c] = "closing"
    /\ conn' = [conn EXCEPT ![c] = "freed"]
    /\ UNCHANGED <<worker, running>>

----------------------------------------------------------------------------

Init ==
    /\ worker = [w \in Workers |-> Blank]
    /\ conn = [c \in Connections |-> "outside"]
    /\ running = NoWorker

Next ==
    \/ Return
    \/ \E w \in Workers :
          ScriptCall(w) \/ Exit(w) \/ CloseProcessHandle(w) \/ ProcessClosed(w) \/ Write2Cb(w)
    \/ \E c \in Connections : Arrive(c) \/ AcceptHere(c) \/ TcpCloseCb(c)

Spec == Init /\ [][Next]_vars

\* A write to a child that does not run fails in the next turn of the loop.
PipeBroken(w) == worker[w].child # "running" /\ Write2Cb(w)

\* Callbacks return, and a loop that runs sees every exit, every broken pipe and
\* every handle being closed.  A child that runs need not read nor exit.
FairSpec ==
    /\ Spec
    /\ WF_vars(Return)
    /\ \A w \in Workers : SF_vars(CloseProcessHandle(w)) /\ SF_vars(PipeBroken(w))
    /\ \A c \in Connections : SF_vars(TcpCloseCb(c))

----------------------------------------------------------------------------
(* Properties.                                                              *)

\* Resources, connections and the running callback keep their types; reference
\* counts never go below zero.
TypeOK ==
    /\ worker \in [Workers -> Resources]
    /\ conn \in [Connections -> Places]
    /\ running \in Workers \cup {NoWorker}

\* The child has been started and close_process_handle has not ended.
Pinned(w) == worker[w].child \in {"running", "exited"}

\* The count of a live worker is what the script, the running callback, its own
\* closure and, from spawn() to the end of close_process_handle, itself hold: the
\* only reference no flag records is given back once (uv_worker.c:76 and 94).
RefcountExact ==
    \A w \in Workers :
        worker[w].obj = "live" =>
            worker[w].rc = worker[w].script + (IF running = w THEN 1 ELSE 0)
                           + (IF Pinned(w) THEN 1 ELSE 0) + Ref(worker[w].slot)

\* A script may forget a worker at once: its child's exit still finds the object,
\* and uv_close after the close callback finds it whatever that callback dropped.
ExitFindsWorker ==
    /\ \A w \in Workers : Pinned(w) => worker[w].obj = "live"
    /\ running # NoWorker =>
           worker[running].obj = "live" /\ worker[running].rc > 1

\* A connection handed to a child that has exited, before or after, is closed in
\* the parent and its handle freed, unless the worker object goes first and its
\* pipe with it.
ClientsReleased ==
    \A w \in Workers, c \in Connections :
        (conn[c] = "open" /\ worker[w].child \in {"exited", "closing", "closed"}
         /\ \E i \in 1..Len(worker[w].passed) : worker[w].passed[i] = c)
            ~> (conn[c] = "freed" \/ worker[w].obj = "freed")

=============================================================================
