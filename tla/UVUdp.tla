------------------------------- MODULE UVUdp -------------------------------
(***************************************************************************)
(* The UVUdp class (uv_udp.c).  setCallback() is what starts receiving and *)
(* what pins the object (UV_UDP_HANDLE_INTERNAL_REF); it is refused while  *)
(* receiving.  Unlike UVTcp, the class does not remember that a handle is  *)
(* being closed, sendTo() does not pin, and recv_cb never closes.          *)
(***************************************************************************)
EXTENDS Naturals

CONSTANTS
    Sockets,        \* the UVUdp objects a script may create
    NoSocket,       \* stands for the absence of an object
    Closures,       \* the closures a script passes: "self" captures its object
    MaxScriptRefs,  \* bound on the references script variables hold to an object
    MaxSends        \* bound on the datagrams queued on a handle

ASSUME SocketsAssumption == NoSocket \notin Sockets
ASSUME ClosuresAssumption == Closures \subseteq {"plain", "self"}
ASSUME BoundsAssumption == MaxScriptRefs \in Nat \ {0} /\ MaxSends \in Nat

VARIABLES
    udp,            \* udp[s]: the resource of object s
    frame           \* the script callback the loop is executing

vars == <<udp, frame>>

----------------------------------------------------------------------------
(* State.                                                                   *)

Flags == {"INTERNAL_REF", "HANDLE_START", "READ_START"}

\* "borrowed": a closure the slot points to without having taken a reference.
SlotValues == {"null", "plain", "self", "borrowed"}

Slots == [recv : SlotValues, send : SlotValues, error : SlotValues]

NoSlots == [recv |-> "null", send |-> "null", error |-> "null"]

Resources ==
    [obj     : {"none", "live", "freed"},
     rc      : Nat,               \* Zend reference count of the object
     script  : Nat,               \* how many of them script variables hold
     flag    : SUBSET Flags,
     slot    : Slots,
     named   : BOOLEAN,           \* sockAddr allocated
     uv      : {"none", "init", "bound", "closing", "closed", "aborted"},
     reading : BOOLEAN,           \* uv_udp_recv_start is in force
     sends   : Nat]               \* uv_udp_send requests not answered yet

Blank ==
    [obj |-> "none", rc |-> 0, script |-> 0, flag |-> {}, slot |-> NoSlots,
     named |-> FALSE, uv |-> "none", reading |-> FALSE, sends |-> 0]

\* `why' is what the callback is told: a datagram, nread = 0, an error, a status.
Idle == [kind |-> "none", s |-> NoSocket, why |-> "ok"]

Frames ==
    {Idle} \cup [kind : {"recv", "send", "error"}, s : Sockets,
                 why : {"data", "zero", "fail", "ok"}]

----------------------------------------------------------------------------
(* The C helpers, as functions of the resource.                             *)

Pinned(r) == "INTERNAL_REF" \in r.flag

Open(r) == r.uv \in {"init", "bound"}

Ref(f) == IF f = "self" THEN 1 ELSE 0

\* References to the object held by the closures in its own slots.
Captures(c) == Ref(c.recv) + Ref(c.send) + Ref(c.error)

\* (mutant of SetSlots: the FCI_ADDREFs are missing)
SetSlotsUncounted(r, f, g, e) ==
    [r EXCEPT !.slot = [recv |-> f, send |-> g, error |-> e], !.rc = @ - Captures(r.slot)]

\* Store closures in the slots, and release those that were there.
SetSlots(r, f, g, e) ==
    LET c == [recv |-> f, send |-> g, error |-> e]
    IN  [r EXCEPT !.slot = c, !.rc = (@ + Captures(c)) - Captures(r.slot)]

\* release without its last statement.
Unregister(r) ==
    [r EXCEPT !.named = FALSE,
              !.reading = IF {"READ_START", "HANDLE_START"} \cap r.flag # {} THEN FALSE ELSE @,
              !.flag = @ \ {"READ_START", "HANDLE_START"}]

\* The last reference is gone: freeUVUdpResource.
Free(r) ==
    [Unregister(r) EXCEPT !.obj = "freed", !.rc = 0, !.script = 0,
                          !.slot = NoSlots, !.flag = @ \ {"INTERNAL_REF"}]

Deref(r) == IF r.rc = 1 THEN Free(r) ELSE [r EXCEPT !.rc = @ - 1]

\* (mutants of Release: the reference is not dropped; nor is the flag)
ReleaseForgetsReference(r) == [Unregister(r) EXCEPT !.flag = {}]

ReleaseButKeepPin(r) == Unregister(r)

Release(r) ==
    LET u == Unregister(r)
    IN  IF Pinned(u) THEN Deref([u EXCEPT !.flag = @ \ {"INTERNAL_REF"}]) ELSE u

\* fci_call_function, when the slot holds something: its first argument is a
\* reference to the object.
Deliver(s, kind, why, r) ==
    IF r.slot[kind] = "null"
    THEN udp' = [udp EXCEPT ![s] = r] /\ UNCHANGED frame
    ELSE /\ udp' = [udp EXCEPT ![s] = [r EXCEPT !.rc = @ + 1]]
         /\ frame' = [kind |-> kind, s |-> s, why |-> why]

Update(s, r) == udp' = [udp EXCEPT ![s] = r] /\ UNCHANGED frame

----------------------------------------------------------------------------
(* Calls made by the script, at top level or inside a callback.             *)

CanCall(s) == udp[s].obj = "live" /\ (udp[s].script > 0 \/ frame.s = s)

New(s) ==
    /\ udp[s].obj = "none"
    /\ Update(s, [Blank EXCEPT !.obj = "live", !.rc = 1, !.script = 1, !.uv = "init"])

\* A bad address or a refusal by libuv changes nothing.
Bind(s) ==
    /\ CanCall(s)
    /\ udp[s].uv = "init"
    /\ Update(s, [udp[s] EXCEPT !.uv = "bound", !.flag = @ \cup {"HANDLE_START"}])

\* The callbacks go first.  When an argument is not callable those parsed
\* before it stay, when libuv refuses to receive all three do: none referenced.
TrySetCallback(s) ==
    LET r == udp[s] IN
    \/ \E n \in 0..3 :
          LET Parsed(i) == IF i <= n THEN "borrowed" ELSE "null"
          IN  Update(s, SetSlots(r, Parsed(1), Parsed(2), Parsed(3)))
    \/ /\ Open(r)
       /\ \E f, g, e \in Closures :
             LET q == SetSlots(r, f, g, e)
             IN  Update(s, [q EXCEPT !.flag = Flags, !.rc = @ + 1,
                                     !.uv = "bound", !.reading = TRUE])

\* (mutant of SetCallback: without its test of UV_UDP_READ_START)
SetCallbackUnguarded(s) == CanCall(s) /\ TrySetCallback(s)

\* Refused, and nothing touched, while receiving.
SetCallback(s) == CanCall(s) /\ "READ_START" \notin udp[s].flag /\ TrySetCallback(s)

\* Nothing keeps the object until the datagram is sent.  libuv binds a handle
\* that is not bound yet.
SendTo(s) ==
    /\ CanCall(s)
    /\ Open(udp[s]) /\ udp[s].sends < MaxSends
    /\ Update(s, [udp[s] EXCEPT !.uv = "bound", !.sends = @ + 1])

\* getSockname and getSockport cache the address libuv reports.
GetSockname(s) ==
    CanCall(s) /\ udp[s].uv = "bound" /\ Update(s, [udp[s] EXCEPT !.named = TRUE])

\* Not guarded: libuv aborts the process when the handle is closing or closed.
Close(s) ==
    /\ CanCall(s)
    /\ Update(s, [udp[s] EXCEPT !.reading = FALSE,
                                !.uv = IF Open(udp[s]) THEN "closing" ELSE "aborted"])

Keep(s) ==
    /\ CanCall(s)
    /\ udp[s].script < MaxScriptRefs
    /\ Update(s, [udp[s] EXCEPT !.rc = @ + 1, !.script = @ + 1])

Drop(s) ==
    /\ udp[s].obj = "live" /\ udp[s].script > 0
    /\ Update(s, Deref([udp[s] EXCEPT !.script = @ - 1]))

ScriptCall(s) ==
    \/ New(s) \/ Bind(s) \/ SetCallback(s) \/ SendTo(s) \/ GetSockname(s) \/ Close(s)
    \/ Keep(s) \/ Drop(s)

\* The cycle collector frees an object all of whose references are held by the
\* closures get_gc reports.
Collect(s) ==
    /\ udp[s].obj = "live"
    /\ udp[s].rc > 0 /\ udp[s].rc = Captures(udp[s].slot)
    /\ Update(s, Free(udp[s]))

----------------------------------------------------------------------------
(* Events of the loop.                                                      *)

LoopTurn(s) == frame = Idle /\ udp[s].obj = "live"

\* A queued datagram is sent, or dropped because the handle is being closed.
SendCb(s) ==
    /\ LoopTurn(s)
    /\ udp[s].sends > 0
    /\ Deliver(s, "send", "ok", [udp[s] EXCEPT !.sends = @ - 1])

\* A datagram arrives; nread = 0 (nothing left to read, or an empty datagram)
\* and an error both go to the error callback, and receiving goes on.
RecvCb(s) ==
    /\ LoopTurn(s)
    /\ udp[s].reading
    /\ \/ Deliver(s, "recv", "data", udp[s])
       \/ \E why \in {"zero", "fail"} : Deliver(s, "error", why, udp[s])

\* libuv answers the queued datagrams before it calls close_cb.
CloseCb(s) ==
    /\ LoopTurn(s)
    /\ udp[s].uv = "closing" /\ udp[s].sends = 0
    /\ Update(s, Release([udp[s] EXCEPT !.uv = "closed"]))

LoopEvent(s) == SendCb(s) \/ RecvCb(s) \/ CloseCb(s)

\* The running callback ends: its argument is released.
Return ==
    /\ frame # Idle
    /\ udp' = [udp EXCEPT ![frame.s] = Deref(@)]
    /\ frame' = Idle

----------------------------------------------------------------------------

Init == udp = [s \in Sockets |-> Blank] /\ frame = Idle

Aborted == \E s \in Sockets : udp[s].uv = "aborted"

Next ==
    /\ ~Aborted
    /\ \/ Return
       \/ \E s \in Sockets : ScriptCall(s) \/ Collect(s) \/ LoopEvent(s)

Spec == Init /\ [][Next]_vars

\* What the loop does for a handle being closed.
Finish(s) == ~Aborted /\ udp[s].uv = "closing" /\ (SendCb(s) \/ CloseCb(s))

\* Callbacks return, and a loop that runs gets to every closing handle.
FairSpec == Spec /\ WF_vars(~Aborted /\ Return) /\ \A s \in Sockets : SF_vars(Finish(s))

----------------------------------------------------------------------------
(* Properties.                                                              *)

\* Resources and the running frame keep the types of uv_udp_ext_t; the counts
\* never go below zero.
TypeOK == udp \in [Sockets -> Resources] /\ frame \in Frames

\* While the object lives its reference count is exactly what the script, the
\* running callback, the pin and its own closures hold: setCallback() takes its
\* reference without looking whether it has one, release() drops it once.
RefcountExact ==
    \A s \in Sockets :
        LET r == udp[s] IN
        r.obj = "live" =>
            /\ r.rc > 0
            /\ r.rc = r.script + (IF frame.s = s THEN 1 ELSE 0)
                      + (IF Pinned(r) THEN 1 ELSE 0) + Captures(r.slot)

\* Datagrams arrive only into a live object that keeps itself alive and owns
\* its three callbacks, whatever the script drops, closes or fails to set.
ReceivingIsOwned ==
    \A s \in Sockets :
        udp[s].reading =>
            /\ udp[s].obj = "live" /\ Pinned(udp[s])
            /\ udp[s].slot \in [recv : Closures, send : Closures, error : Closures]

\* A second setCallback() is refused (tests/replace_callback_gc/UVUdp.phpt
\* prints "0 -1"): an object that has started to receive keeps its callbacks
\* until close_cb, even when a failed call comes between.
CallbacksKept ==
    [][\A s \in Sockets :
          "READ_START" \in udp[s].flag /\ udp'[s].obj = "live" =>
              udp'[s].slot = udp[s].slot]_vars

\* Once a receiving object is being closed its pin is dropped in close_cb,
\* unless a second close() aborts the process first.
PinReleased ==
    \A s \in Sockets :
        (udp[s].uv = "closing" /\ Pinned(udp[s])) ~> (Aborted \/ ~Pinned(udp[s]))

=============================================================================
