---------------------------- MODULE UVPipe_proofs ----------------------------
(***************************************************************************)
(* Safety of UVPipe, and its refinement of HandleLife, for every set of    *)
(* handles, every set of closures and every bound.  What UVPipe shares     *)
(* with UVTcp is proved already: Tcp is UVTcp's proof over the variable    *)
(* `pipe'.  What is left is connect(), attachIPC() and the two handlers    *)
(* that differ, and what the shared steps leave of a handle attached to    *)
(* the parent process.                                                     *)
(***************************************************************************)
EXTENDS UVPipe, TLAPS, Integers

Tcp == INSTANCE UVTcp_proofs WITH tcp <- pipe

USE HandlesAssumption, ClosuresAssumption, BoundsAssumption

----------------------------------------------------------------------------
(* UVPipe uses UVTcp under the name Stream, the proof under the name Tcp.   *)

\* The two are one module over one variable: the helpers are the same,
LEMMA SameHelpers ==
    /\ Stream!Idle = Tcp!Idle
    /\ \A r : Stream!Pinned(r) <=> Tcp!Pinned(r)
    /\ \A r : Stream!Open(r) <=> Tcp!Open(r)
    /\ \A r, f : Stream!SetConnect(r, f) = Tcp!SetConnect(r, f)
    /\ \A r : Stream!SetSelfReference(r) = Tcp!SetSelfReference(r)
    /\ \A h : Stream!CanCall(h) <=> Tcp!CanCall(h)
    /\ \A h : Stream!LoopTurn(h) <=> Tcp!LoopTurn(h)
    /\ \A h, r : Stream!Update(h, r) <=> Tcp!Update(h, r)
    /\ \A h, kind, why, r : Stream!Deliver(h, kind, why, r) <=> Tcp!Deliver(h, kind, why, r)
BY DEF Stream!Idle, Tcp!Idle, Stream!Pinned, Tcp!Pinned, Stream!Open, Tcp!Open,
   Stream!SetConnect, Tcp!SetConnect, Stream!SetSlots, Tcp!SetSlots,
   Stream!Captures, Tcp!Captures, Stream!Ref, Tcp!Ref,
   Stream!SetSelfReference, Tcp!SetSelfReference, Stream!CanCall, Tcp!CanCall,
   Stream!LoopTurn, Tcp!LoopTurn, Stream!Update, Tcp!Update, Stream!Deliver, Tcp!Deliver

\* the calls and the events are the same,
LEMMA SameActions ==
    ASSUME NEW h \in Handles
    PROVE  /\ Stream!New(h) <=> Tcp!New(h)
           /\ Stream!Listen(h) <=> Tcp!Listen(h)
           /\ Stream!SetCallback(h) <=> Tcp!SetCallback(h)
           /\ Stream!Shutdown(h) <=> Tcp!Shutdown(h)
           /\ Stream!Write(h) <=> Tcp!Write(h)
           /\ Stream!Close(h) <=> Tcp!Close(h)
           /\ \A c \in Handles : Stream!Accept(h, c) <=> Tcp!Accept(h, c)
           /\ Stream!GetSockname(h) <=> Tcp!GetSockname(h)
           /\ Stream!GetPeername(h) <=> Tcp!GetPeername(h)
           /\ Stream!Keep(h) <=> Tcp!Keep(h)
           /\ Stream!Drop(h) <=> Tcp!Drop(h)
           /\ Stream!Collect(h) <=> Tcp!Collect(h)
           /\ Stream!ConnectionCb(h) <=> Tcp!ConnectionCb(h)
           /\ Stream!ReadData(h) <=> Tcp!ReadData(h)
           /\ Stream!ReadElse(h) <=> Tcp!ReadElse(h)
           /\ Stream!WriteCb(h) <=> Tcp!WriteCb(h)
           /\ Stream!ShutdownCb(h) <=> Tcp!ShutdownCb(h)
           /\ Stream!CancelConnect(h) <=> Tcp!CancelConnect(h)
           /\ Stream!TcpCloseCb(h) <=> Tcp!TcpCloseCb(h)
BY DEF Stream!New, Tcp!New, Stream!Listen, Tcp!Listen, Stream!TryListen, Tcp!TryListen,
   Stream!SetCallback, Tcp!SetCallback, Stream!Shutdown, Tcp!Shutdown,
   Stream!Write, Tcp!Write, Stream!Close, Tcp!Close, Stream!Accept, Tcp!Accept,
   Stream!GetSockname, Tcp!GetSockname, Stream!GetPeername, Tcp!GetPeername,
   Stream!Keep, Tcp!Keep, Stream!Drop, Tcp!Drop, Stream!Collect, Tcp!Collect,
   Stream!ConnectionCb, Tcp!ConnectionCb, Stream!ReadData, Tcp!ReadData,
   Stream!ReadElse, Tcp!ReadElse, Stream!WriteCb, Tcp!WriteCb,
   Stream!ShutdownCb, Tcp!ShutdownCb, Stream!CancelConnect, Tcp!CancelConnect,
   Stream!TcpCloseCb, Tcp!TcpCloseCb,
   Stream!CanCall, Tcp!CanCall, Stream!LoopTurn, Tcp!LoopTurn,
   Stream!Update, Tcp!Update, Stream!Deliver, Tcp!Deliver,
   Stream!NewResource, Tcp!NewResource, Stream!AcceptedResource, Tcp!AcceptedResource,
   Stream!Blank, Tcp!Blank, Stream!NoSlots, Tcp!NoSlots, Stream!Idle, Tcp!Idle,
   Stream!SetSlots, Tcp!SetSlots, Stream!SetConnect, Tcp!SetConnect,
   Stream!SetShutdown, Tcp!SetShutdown, Stream!SetReadWriteError, Tcp!SetReadWriteError,
   Stream!SetSelfReference, Tcp!SetSelfReference, Stream!Captures, Tcp!Captures,
   Stream!Ref, Tcp!Ref, Stream!Pinned, Tcp!Pinned, Stream!Open, Tcp!Open,
   Stream!TcpCloseSocket, Tcp!TcpCloseSocket, Stream!UvClose, Tcp!UvClose,
   Stream!Unregister, Tcp!Unregister, Stream!Free, Tcp!Free, Stream!Deref, Tcp!Deref,
   Stream!ReleaseResource, Tcp!ReleaseResource

LEMMA SameReturn == Stream!Return <=> Tcp!Return
BY DEF Stream!Return, Tcp!Return, Stream!Idle, Tcp!Idle, Stream!Deref, Tcp!Deref,
   Stream!Free, Tcp!Free, Stream!Unregister, Tcp!Unregister, Stream!NoSlots, Tcp!NoSlots,
   Stream!TcpCloseSocket, Tcp!TcpCloseSocket, Stream!UvClose, Tcp!UvClose

\* and so is what they start from and what they promise.
LEMMA SamePromises ==
    /\ Stream!Init <=> Tcp!Init
    /\ Stream!RefcountExact <=> Tcp!RefcountExact
    /\ Stream!FreedOwesNothing <=> Tcp!FreedOwesNothing
    /\ Stream!CallableOwned <=> Tcp!CallableOwned
    /\ Stream!CloseOnce <=> Tcp!CloseOnce
BY DEF Stream!Init, Tcp!Init, Stream!Idle, Tcp!Idle, Stream!Blank, Tcp!Blank,
   Stream!NoSlots, Tcp!NoSlots, Stream!RefcountExact, Tcp!RefcountExact,
   Stream!FrameRef, Tcp!FrameRef, Stream!PinRef, Tcp!PinRef, Stream!Pinned, Tcp!Pinned,
   Stream!Captures, Tcp!Captures, Stream!Ref, Tcp!Ref,
   Stream!FreedOwesNothing, Tcp!FreedOwesNothing,
   Stream!CallableOwned, Tcp!CallableOwned, Stream!CloseOnce, Tcp!CloseOnce

LEMMA SameLife == Stream!KeepsLife <=> Tcp!KeepsLife
BY DEF Stream!KeepsLife, Tcp!KeepsLife, Stream!Life!Spec, Tcp!Life!Spec,
   Stream!Life!Init, Tcp!Life!Init, Stream!Life!Next, Tcp!Life!Next,
   Stream!Life!vars, Tcp!Life!vars, Stream!Life!Create, Tcp!Life!Create,
   Stream!Life!Use, Tcp!Life!Use, Stream!Life!StartClosing, Tcp!Life!StartClosing,
   Stream!Life!Closed, Tcp!Life!Closed, Stream!Life!Lives, Tcp!Life!Lives,
   Stream!Life!Goes, Tcp!Life!Goes, Stream!Pinned, Tcp!Pinned

----------------------------------------------------------------------------
(* The inductive invariant.                                                 *)

\* A handle libuv closes is not read any more.
Quiet(r) == r.uv \in {"closing", "closed"} => ~r.reading

\* As long as it reads, a handle attachIPC() opened stays pinned and started, so
\* that listen() cannot put in its connect slot a callback it does not own.
Attending(r) ==
    /\ r.obj # "none"
    /\ r.reading => /\ r.obj = "live" /\ Tcp!Pinned(r)
                    /\ "HANDLE_START" \in r.flag
                    /\ r.slot.connect # "borrowed"

IInv ==
    /\ Tcp!IInv /\ Tcp!NotMade
    /\ ipc \subseteq Handles
    /\ \A h \in Handles : Quiet(pipe[h])
    /\ \A h \in ipc : Attending(pipe[h])
    /\ draining # NoHandle =>
           draining \in Handles /\ pipe[draining].obj = "live" /\ Tcp!Pinned(pipe[draining])

----------------------------------------------------------------------------
(* What a step shared with UVTcp leaves of a handle that reads.             *)

\* The handle does not start to read, and reads no more once it is closed; it
\* stays started as long as it stays pinned, and then connect() and the handlers
\* are the only ones to touch its connect slot.
Attends(q, r) ==
    q.reading =>
        /\ r.reading
        /\ q.uv \in {"closing", "closed"} => r.uv \in {"closing", "closed"}
        /\ "HANDLE_START" \in r.flag =>
               /\ "HANDLE_START" \in q.flag \/ ~Tcp!Pinned(q)
               /\ q.slot.connect \in {r.slot.connect, "null"}

AllAttend == \A h \in Handles : Attends(pipe'[h], pipe[h])

LEMMA StoreAttends ==
    ASSUME Tcp!IInv, NEW h \in Handles, NEW q, Attends(q, pipe[h]),
           pipe' = [pipe EXCEPT ![h] = q]
    PROVE  AllAttend
<1>1. \A r : Attends(r, r)
  BY DEF Attends
<1> QED
  BY <1>1 DEF AllAttend, Tcp!IInv

LEMMA UpdateAttends ==
    ASSUME Tcp!IInv, NEW h \in Handles, NEW q, Attends(q, pipe[h]), Tcp!Update(h, q)
    PROVE  AllAttend
BY StoreAttends DEF Tcp!Update

\* Whether a callback runs or not, the event leaves the fields it was given.
LEMMA DeliverAttends ==
    ASSUME Tcp!IInv, NEW h \in Handles, NEW q \in Tcp!Resources, Attends(q, pipe[h]),
           NEW kind, NEW why, Tcp!Deliver(h, kind, why, q)
    PROVE  AllAttend
<1> DEFINE p == [q EXCEPT !.rc = @ + 1]
<1>1. p.reading = q.reading /\ p.uv = q.uv /\ p.flag = q.flag /\ p.slot = q.slot
  BY DEF Tcp!Resources
<1>2. pipe' = [pipe EXCEPT ![h] = q] \/ pipe' = [pipe EXCEPT ![h] = p]
  BY DEF Tcp!Deliver
<1> HIDE DEF p
<1>3. Attends(p, pipe[h])
  BY <1>1 DEF Attends, Tcp!Pinned
<1> QED
  BY <1>2, <1>3, StoreAttends

\* The helpers, on any record with the fields of a resource.
LEMMA HelpersAttend ==
    ASSUME NEW r \in Tcp!Shapes
    PROVE  /\ \A s \in Tcp!Slots :
                  /\ Tcp!SetSlots(r, s) \in Tcp!Shapes /\ Tcp!SetSlots(r, s).slot = s
                  /\ s.connect = r.slot.connect => Attends(Tcp!SetSlots(r, s), r)
           /\ Attends(Tcp!SetSelfReference(r), r)
           /\ Attends(Tcp!TcpCloseSocket(r), r)
           /\ Attends(Tcp!Free(r), r)
           /\ Attends(Tcp!Deref(r), r)
<1>1. ASSUME NEW s \in Tcp!Slots
      PROVE  /\ Tcp!SetSlots(r, s) \in Tcp!Shapes /\ Tcp!SetSlots(r, s).slot = s
             /\ s.connect = r.slot.connect => Attends(Tcp!SetSlots(r, s), r)
  <2> DEFINE q == Tcp!SetSlots(r, s)
  <2>1. q \in Tcp!Shapes
    BY Tcp!SetSlotsShape
  <2>2. q.slot = s /\ q.reading = r.reading /\ q.uv = r.uv /\ q.flag = r.flag
    BY DEF Tcp!SetSlots, Tcp!Shapes
  <2> HIDE DEF q
  <2>3. s.connect = r.slot.connect => Attends(q, r)
    BY <2>2 DEF Attends
  <2> QED
    BY <2>1, <2>2, <2>3 DEF q
<1>2. Attends(Tcp!SetSelfReference(r), r)
  BY DEF Tcp!SetSelfReference, Attends, Tcp!Shapes
<1>3. Attends(Tcp!TcpCloseSocket(r), r)
  BY DEF Tcp!TcpCloseSocket, Tcp!UvClose, Attends, Tcp!Shapes
<1>4. Attends(Tcp!Free(r), r)
  <2> DEFINE u == Tcp!Unregister(r)
  <2>1. u \in Tcp!Shapes /\ (u.reading => r.reading) /\ u.uv = r.uv
    BY DEF Tcp!Unregister, Tcp!Shapes, Tcp!Flags
  <2> HIDE DEF u
  <2>2. /\ Tcp!Free(r).reading = u.reading /\ Tcp!Free(r).uv = u.uv
        /\ Tcp!Free(r).slot = Tcp!NoSlots
        /\ Tcp!Free(r).flag = u.flag \ {"INTERNAL_REF"}
    BY <2>1 DEF Tcp!Free, Tcp!Shapes, u
  <2> QED
    BY <2>1, <2>2 DEF Attends, Tcp!Pinned, Tcp!NoSlots
<1>5. Attends(Tcp!Deref(r), r)
  <2>1. CASE r.rc = 1
    BY <1>4, <2>1 DEF Tcp!Deref
  <2>2. CASE r.rc # 1
    BY <2>2 DEF Tcp!Deref, Attends, Tcp!Shapes
  <2> QED
    BY <2>1, <2>2
<1> QED
  BY <1>1, <1>2, <1>3, <1>4, <1>5

LEMMA AttendsTransitive ==
    ASSUME NEW p, NEW q, NEW r, Attends(p, q), Attends(q, r), r.flag \subseteq q.flag
    PROVE  Attends(p, r)
BY DEF Attends

LEMMA Shaped ==
    ASSUME Tcp!IInv, NEW h \in Handles
    PROVE  /\ pipe[h] \in Tcp!Resources /\ pipe[h] \in Tcp!Shapes
           /\ pipe[h].slot \in Tcp!Slots
BY DEF Tcp!IInv, Tcp!Shapes, Tcp!Resources

\* setCallback() and shutdown() leave the connect slot alone.
LEMMA StoresAttend ==
    ASSUME NEW r \in Tcp!Shapes, NEW f \in Tcp!SlotValues, NEW g \in Tcp!SlotValues,
           NEW e \in Tcp!SlotValues
    PROVE  \A q \in {Tcp!SetReadWriteError(r, f, g, e), Tcp!SetShutdown(r, f)} :
               q \in Tcp!Shapes /\ Attends(q, r) /\ r.flag = q.flag
<1> DEFINE s == [r.slot EXCEPT !.read = f, !.write = g, !.error = e]
           t == [r.slot EXCEPT !.shutdown = f]
<1>1. r.slot \in Tcp!Slots
  BY DEF Tcp!Shapes
<1>2. s \in Tcp!Slots /\ s.connect = r.slot.connect
  BY <1>1 DEF Tcp!Slots
<1>3. t \in Tcp!Slots /\ t.connect = r.slot.connect
  BY <1>1 DEF Tcp!Slots
<1>4. Tcp!SetReadWriteError(r, f, g, e) = Tcp!SetSlots(r, s)
  BY DEF Tcp!SetReadWriteError
<1>5. Tcp!SetShutdown(r, f) = Tcp!SetSlots(r, t)
  BY DEF Tcp!SetShutdown
<1> HIDE DEF s, t
<1>6. \A u : Tcp!SetSlots(r, u).flag = r.flag
  BY DEF Tcp!SetSlots, Tcp!Shapes
<1> QED
  BY <1>2, <1>3, <1>4, <1>5, <1>6, HelpersAttend

\* listen() does nothing to a handle that is started, and starts no reading.
LEMMA ListenAttends == ASSUME Tcp!IInv, NEW h \in Handles, Tcp!Listen(h) PROVE AllAttend
<1> DEFINE r == pipe[h]
<1>1. r \in Tcp!Shapes /\ r.slot \in Tcp!Slots /\ "HANDLE_START" \notin r.flag
  BY Shaped DEF Tcp!Listen
<1> DEFINE Kept(q) == q.reading = r.reading /\ q.uv = r.uv
<1>2. ASSUME NEW f \in Tcp!SlotValues
      PROVE  Tcp!SetConnect(r, f) \in Tcp!Shapes /\ Kept(Tcp!SetConnect(r, f))
  <2>1. [r.slot EXCEPT !.connect = f] \in Tcp!Slots
    BY <1>1 DEF Tcp!Slots
  <2>2. Tcp!SetConnect(r, f) \in Tcp!Shapes
    BY <1>1, <2>1, HelpersAttend DEF Tcp!SetConnect
  <2> QED
    BY <1>1, <2>2 DEF Tcp!SetConnect, Tcp!SetSlots, Tcp!Shapes
<1>3. ASSUME NEW f \in Tcp!SlotValues, Tcp!Update(h, Tcp!SetConnect(r, f)) PROVE AllAttend
  BY <1>1, <1>2, <1>3, UpdateAttends DEF Attends
<1>4. ASSUME NEW f \in Tcp!SlotValues,
             Tcp!Update(h, [Tcp!SetSelfReference(Tcp!SetConnect(r, f)) EXCEPT
                               !.uv = "listening", !.flag = @ \cup {"HANDLE_START"}])
      PROVE  AllAttend
  <2> DEFINE c == Tcp!SetConnect(r, f)
             b == Tcp!SetSelfReference(c)
             q == [b EXCEPT !.uv = "listening", !.flag = @ \cup {"HANDLE_START"}]
  <2>1. c \in Tcp!Shapes /\ Kept(c)
    BY <1>2
  <2> HIDE DEF c
  <2>2. b \in Tcp!Shapes /\ b.reading = r.reading
    BY <2>1, Tcp!PinShape DEF Tcp!SetSelfReference, Tcp!Shapes
  <2> HIDE DEF b
  <2>3. q.reading = r.reading /\ q.uv = "listening"
    BY <2>2 DEF Tcp!Shapes
  <2> HIDE DEF q
  <2>4. Attends(q, r)
    BY <1>1, <2>3 DEF Attends
  <2> QED
    BY <1>4, <2>4, UpdateAttends DEF q, b, c
<1> QED
  BY <1>3, <1>4, Tcp!StoredValues DEF Tcp!Listen, Tcp!TryListen

LEMMA SetCallbackAttends ==
    ASSUME Tcp!IInv, NEW h \in Handles, Tcp!SetCallback(h) PROVE AllAttend
<1> DEFINE r == pipe[h]
<1>1. ASSUME NEW f \in Tcp!SlotValues, NEW g \in Tcp!SlotValues, NEW e \in Tcp!SlotValues
      PROVE  LET q == Tcp!SetReadWriteError(r, f, g, e)
             IN  Attends(q, r) /\ Attends(Tcp!SetSelfReference(q), r)
  <2> DEFINE q == Tcp!SetReadWriteError(r, f, g, e)
  <2>1. q \in Tcp!Shapes /\ Attends(q, r) /\ q.flag = r.flag
    BY Shaped, StoresAttend
  <2> HIDE DEF q
  <2>2. Attends(Tcp!SetSelfReference(q), r)
    BY <2>1, HelpersAttend, AttendsTransitive
  <2> QED
    BY <2>1, <2>2 DEF q
<1>2. \A w \in {<<"null", "null">>, <<"borrowed", "null">>, <<"borrowed", "borrowed">>} :
         w[1] \in Tcp!SlotValues /\ w[2] \in Tcp!SlotValues
  BY DEF Tcp!SlotValues
<1> QED
  BY <1>1, <1>2, UpdateAttends, Tcp!StoredValues DEF Tcp!SetCallback

LEMMA ShutdownAttends == ASSUME Tcp!IInv, NEW h \in Handles, Tcp!Shutdown(h) PROVE AllAttend
<1> DEFINE r == pipe[h]
<1>1. ASSUME NEW f \in Tcp!SlotValues
      PROVE  /\ Attends(Tcp!SetShutdown(r, f), r)
             /\ Attends(Tcp!SetSelfReference([Tcp!SetShutdown(r, f) EXCEPT !.shut = "pending"]), r)
  <2> DEFINE c == Tcp!SetShutdown(r, f)
             b == [c EXCEPT !.shut = "pending"]
  <2>1. c \in Tcp!Shapes /\ Attends(c, r) /\ c.flag = r.flag
    BY Shaped, StoresAttend
  <2> HIDE DEF c
  <2>2. /\ b \in Tcp!Shapes /\ b.flag = c.flag
        /\ b.reading = c.reading /\ b.uv = c.uv /\ b.slot = c.slot
    BY <2>1 DEF Tcp!Shapes
  <2> HIDE DEF b
  <2>3. Attends(b, r)
    BY <2>1, <2>2 DEF Attends
  <2>4. Attends(Tcp!SetSelfReference(b), r)
    BY <2>1, <2>2, <2>3, HelpersAttend, AttendsTransitive
  <2> QED
    BY <2>1, <2>4 DEF b, c
<1> QED
  BY <1>1, UpdateAttends, Tcp!StoredValues DEF Tcp!Shutdown

\* write(), the names, keeping and dropping a variable, close(), the collector.
LEMMA CallAttends ==
    ASSUME Tcp!IInv, NEW h \in Handles,
           \/ Tcp!Write(h) \/ Tcp!GetSockname(h) \/ Tcp!GetPeername(h) \/ Tcp!Keep(h)
           \/ Tcp!Drop(h) \/ Tcp!Close(h) \/ Tcp!Collect(h) \/ Tcp!New(h)
    PROVE  AllAttend
<1> DEFINE r == pipe[h]
<1>1. r \in Tcp!Shapes
  BY Shaped
<1>2. CASE Tcp!Write(h)
  <2> DEFINE p == [r EXCEPT !.flag = @ \cup {"WRITE_CALLBACK_ENABLE"}]
             q == [p EXCEPT !.writes = @ + 1]
  <2>1. Attends(p, r) /\ Attends(q, r)
    BY <1>1 DEF Attends, Tcp!Shapes
  <2>2. Tcp!Update(h, p) \/ Tcp!Update(h, q)
    BY <1>2 DEF Tcp!Write
  <2> HIDE DEF p, q
  <2> QED
    BY <2>1, <2>2, UpdateAttends
<1>3. CASE Tcp!GetSockname(h) \/ Tcp!GetPeername(h)
  <2>1. PICK x : Tcp!Update(h, [r EXCEPT !.names = @ \cup {x}])
    BY <1>3 DEF Tcp!GetSockname, Tcp!GetPeername
  <2>2. Attends([r EXCEPT !.names = @ \cup {x}], r)
    BY <1>1 DEF Attends, Tcp!Shapes
  <2> QED
    BY <2>1, <2>2, UpdateAttends
<1>4. CASE Tcp!Keep(h)
  <2>1. Attends([r EXCEPT !.rc = @ + 1, !.script = @ + 1], r)
    BY <1>1 DEF Attends, Tcp!Shapes
  <2> QED
    BY <1>4, <2>1, UpdateAttends DEF Tcp!Keep
<1>5. CASE Tcp!Drop(h)
  <2> DEFINE p == [r EXCEPT !.script = @ - 1]
  <2>1. p.script \in Nat
    BY <1>5, Shaped DEF Tcp!Drop, Tcp!Resources
  <2>2. p \in Tcp!Shapes /\ Attends(p, r) /\ p.flag = r.flag
    BY <1>1, <2>1 DEF Attends, Tcp!Shapes
  <2>3. Tcp!Update(h, Tcp!Deref(p))
    BY <1>5 DEF Tcp!Drop
  <2> HIDE DEF p
  <2>4. Attends(Tcp!Deref(p), r)
    BY <2>2, HelpersAttend, AttendsTransitive
  <2> QED
    BY <2>3, <2>4, UpdateAttends
<1>6. CASE Tcp!Close(h) \/ Tcp!Collect(h)
  BY <1>1, <1>6, HelpersAttend, UpdateAttends DEF Tcp!Close, Tcp!Collect
<1>7. CASE Tcp!New(h)
  <2>1. ~Tcp!NewResource.reading
    BY DEF Tcp!NewResource, Tcp!Blank
  <2> QED
    BY <1>7, <2>1, UpdateAttends DEF Tcp!New, Attends
<1> QED
  BY <1>2, <1>3, <1>4, <1>5, <1>6, <1>7

\* The events UVPipe shares with UVTcp, and the end of a callback.
LEMMA EventAttends ==
    ASSUME Tcp!IInv, NEW h \in Handles,
           \/ Tcp!ConnectionCb(h) \/ Tcp!ReadData(h) \/ Tcp!ReadElse(h) \/ Tcp!WriteCb(h)
           \/ Tcp!ShutdownCb(h) \/ Tcp!CancelConnect(h)
    PROVE  AllAttend
<1> DEFINE r == pipe[h]
           Stored(q) == q \in Tcp!Resources /\ Attends(q, r)
<1>1. r \in Tcp!Resources /\ r \in Tcp!Shapes /\ Stored(r)
  BY Shaped DEF Attends
<1>2. ASSUME NEW q, Stored(q), NEW kind, NEW why,
             Tcp!Deliver(h, kind, why, q) \/ Tcp!Update(h, q)
      PROVE  AllAttend
  BY <1>2, DeliverAttends, UpdateAttends
<1> HIDE DEF Stored
<1>3. CASE Tcp!ConnectionCb(h)
  <2> DEFINE q == [r EXCEPT !.pending = TRUE]
  <2>1. Stored(q)
    BY <1>1 DEF Stored, Attends, Tcp!Resources
  <2>2. Tcp!Deliver(h, "connect", "ok", q) \/ Tcp!Deliver(h, "connect", "fail", r)
    BY <1>3 DEF Tcp!ConnectionCb
  <2> HIDE DEF q
  <2> QED
    BY <1>1, <1>2, <2>1, <2>2
<1>4. CASE Tcp!ReadData(h)
  BY <1>1, <1>2, <1>4 DEF Tcp!ReadData
<1>5. CASE Tcp!ReadElse(h)
  <2> DEFINE q == IF r.slot.error = "null" THEN Tcp!TcpCloseSocket(r) ELSE r
  <2>1. PICK why \in {"zero", "eof"} : Tcp!Deliver(h, "error", why, q)
    BY <1>5 DEF Tcp!ReadElse
  <2>2. Tcp!Accounted(r, 0) /\ Tcp!Coherent(r)
    BY <1>5, Tcp!EventReady DEF Tcp!ReadElse
  <2>3. q \in Tcp!Resources
    BY <1>1, <2>2, Tcp!TcpCloseSocketInv DEF Tcp!Accounted
  <2>4. Stored(q)
    BY <1>1, <2>3, HelpersAttend DEF Stored
  <2> HIDE DEF q
  <2> QED
    BY <1>2, <2>1, <2>4
<1>6. CASE Tcp!WriteCb(h)
  <2> DEFINE q == [r EXCEPT !.writes = @ - 1]
  <2>1. r.writes - 1 \in Nat
    BY <1>1, <1>6 DEF Tcp!WriteCb, Tcp!Resources
  <2>2. Stored(q)
    BY <1>1, <2>1 DEF Stored, Attends, Tcp!Resources
  <2>3. Tcp!Deliver(h, "write", "ok", q) \/ Tcp!Update(h, q)
    BY <1>6 DEF Tcp!WriteCb
  <2> HIDE DEF q
  <2> QED
    BY <1>2, <2>2, <2>3
<1>7. CASE Tcp!ShutdownCb(h)
  <2> DEFINE q == [r EXCEPT !.shut = "done"]
  <2>1. Stored(q)
    BY <1>1 DEF Stored, Attends, Tcp!Resources
  <2>2. Tcp!Deliver(h, "shutdown", "ok", q)
    BY <1>7 DEF Tcp!ShutdownCb
  <2> HIDE DEF q
  <2> QED
    BY <1>2, <2>1, <2>2
<1>8. CASE Tcp!CancelConnect(h)
  <2> DEFINE q == [r EXCEPT !.conn = FALSE]
  <2>1. Stored(q)
    BY <1>1 DEF Stored, Attends, Tcp!Resources
  <2>2. Tcp!Update(h, q)
    BY <1>8 DEF Tcp!CancelConnect
  <2> HIDE DEF q
  <2> QED
    BY <1>2, <2>1, <2>2
<1> QED
  BY <1>3, <1>4, <1>5, <1>6, <1>7, <1>8

\* pipe_close_cb unregisters a handle that is closing, and so not read.
LEMMA CloseCbAttends ==
    ASSUME Tcp!IInv, NEW h \in Handles, Quiet(pipe[h]), Tcp!TcpCloseCb(h)
    PROVE  AllAttend
<1> DEFINE c == [pipe[h] EXCEPT !.uv = "closed"]
           u == Tcp!Unregister(c)
           q == [u EXCEPT !.flag = @ \ {"INTERNAL_REF"}]
<1>1. pipe[h].uv = "closing" /\ ~pipe[h].reading /\ Tcp!Update(h, Tcp!ReleaseResource(c))
  BY DEF Tcp!TcpCloseCb, Quiet
<1>2. c \in Tcp!Shapes /\ ~c.reading
  BY <1>1, Shaped DEF Tcp!Shapes, Tcp!UvStates
<1>3. Tcp!ReleaseResource(c) = IF Tcp!Pinned(u) THEN Tcp!Deref(q) ELSE u
  BY DEF Tcp!ReleaseResource
<1> HIDE DEF c
<1>4. u \in Tcp!Shapes /\ ~u.reading
  BY <1>2 DEF Tcp!Unregister, Tcp!Shapes, Tcp!Flags
<1> HIDE DEF u
<1>5. q \in Tcp!Shapes /\ ~q.reading
  BY <1>4 DEF Tcp!Shapes, Tcp!Flags
<1> HIDE DEF q
<1>6. ~Tcp!Deref(q).reading
  BY <1>5, HelpersAttend DEF Attends, Tcp!Deref, Tcp!Free, Tcp!Unregister, Tcp!Shapes
<1>7. Attends(Tcp!ReleaseResource(c), pipe[h])
  <2>1. ~Tcp!ReleaseResource(c).reading
    BY <1>3, <1>4, <1>6
  <2> QED
    BY <2>1 DEF Attends
<1> QED
  BY <1>1, <1>7, UpdateAttends

LEMMA ReturnAttends == ASSUME Tcp!IInv, Tcp!Return PROVE AllAttend
<1> DEFINE h == frame.h
           d == Tcp!Deref(pipe[h])
           q == IF frame.kind = "error" THEN Tcp!TcpCloseSocket(d) ELSE d
<1>1. h \in Handles /\ pipe' = [pipe EXCEPT ![h] = q]
  BY DEF Tcp!IInv, Tcp!Return, Tcp!Frames
<1>2. pipe[h] \in Tcp!Shapes /\ Tcp!RInv(pipe[h], 1)
  BY <1>1, Shaped DEF Tcp!IInv, Tcp!FrameRef
<1>3. Attends(d, pipe[h])
  BY <1>2, HelpersAttend
<1>4. CASE frame.kind # "error"
  BY <1>1, <1>3, <1>4, StoreAttends
<1>5. CASE frame.kind = "error"
  <2>1. Tcp!Pinned(pipe[h]) /\ Tcp!Accounted(pipe[h], 1) /\ pipe[h] \in Tcp!Resources
    BY <1>1, <1>2, <1>5 DEF Tcp!IInv, Tcp!RInv, Tcp!Absent
  <2>2. pipe[h].rc # 1
    <3>1. pipe[h].script \in Nat /\ Tcp!Captures(pipe[h].slot) \in Nat
      BY <2>1, Tcp!CapturesNat DEF Tcp!Resources
    <3> QED
      BY <2>1, <3>1 DEF Tcp!Accounted, Tcp!PinRef
  <2>3. d \in Tcp!Shapes /\ d.flag = pipe[h].flag
    <3>1. d = [pipe[h] EXCEPT !.rc = @ - 1] /\ pipe[h].rc - 1 \in Int
      BY <2>1, <2>2 DEF Tcp!Deref, Tcp!Resources
    <3> QED
      BY <1>2, <3>1 DEF Tcp!Shapes
  <2> HIDE DEF d
  <2>4. Attends(q, pipe[h])
    BY <1>3, <1>5, <2>3, HelpersAttend, AttendsTransitive
  <2> QED
    BY <1>1, <2>4, StoreAttends
<1> QED
  BY <1>4, <1>5

----------------------------------------------------------------------------
(* The steps shared with UVTcp.                                             *)

\* The object of a handle does not go back to where it was made.
LEMMA StepMakes ==
    ASSUME Tcp!NotMade, NEW h \in Handles, Tcp!OneStep(h)
    PROVE  /\ Tcp!NotMade'
           /\ \A g \in Handles : pipe[g].obj # "none" => pipe'[g].obj # "none"
BY DEF Tcp!NotMade, Tcp!OneStep, Tcp!LifeStep, Tcp!Same, Tcp!Creates, Tcp!Uses, Tcp!Starts,
   Tcp!Closes, Tcp!Phase

\* What is pinned is alive.
LEMMA PinnedLives ==
    ASSUME Tcp!IInv, NEW h \in Handles, Tcp!Pinned(pipe[h])
    PROVE  pipe[h].obj = "live"
BY DEF Tcp!IInv, Tcp!RInv, Tcp!Accounted, Tcp!Absent

\* A step that keeps the pins and starts no reading.
LEMMA SharedInv ==
    ASSUME IInv, Tcp!IInv', Tcp!PinsKept, AllAttend, NEW h \in Handles, Tcp!OneStep(h),
           IpcUnchanged
    PROVE  IInv'
<1>1. ipc' = ipc /\ draining' = draining
  BY DEF IpcUnchanged
<1>2. ASSUME NEW g \in Handles PROVE Quiet(pipe'[g])
  BY DEF IInv, AllAttend, Attends, Quiet
<1>3. ASSUME NEW g \in Handles, Tcp!Pinned(pipe[g])
      PROVE  pipe'[g].obj = "live" /\ Tcp!Pinned(pipe'[g])
  <2>1. Tcp!Pinned(pipe'[g])
    BY <1>3 DEF Tcp!PinsKept
  <2>2. Tcp!RInv(pipe'[g], Tcp!FrameRef(g)')
    BY DEF Tcp!IInv
  <2> QED
    BY <2>1, <2>2 DEF Tcp!RInv, Tcp!Accounted, Tcp!Absent
<1>4. ASSUME NEW g \in ipc PROVE Attending(pipe'[g])
  <2>1. g \in Handles /\ Attending(pipe[g]) /\ Attends(pipe'[g], pipe[g])
    BY DEF IInv, AllAttend
  <2>2. pipe'[g].obj # "none"
    BY <2>1, StepMakes DEF IInv, Attending
  <2> QED
    BY <1>3, <2>1, <2>2 DEF Attending, Attends
<1>5. Tcp!NotMade'
  BY StepMakes DEF IInv
<1> QED
  BY <1>1, <1>2, <1>3, <1>4, <1>5 DEF IInv

\* A step that stores one resource and looks after it.
LEMMA StoreInv ==
    ASSUME IInv, Tcp!IInv', NEW h \in Handles, Tcp!OneStep(h), NEW q, Quiet(q),
           pipe' = [pipe EXCEPT ![h] = q],
           ipc' \subseteq ipc \cup {h}, h \in ipc' => Attending(q),
           draining' # NoHandle =>
               /\ draining' \in Handles
               /\ pipe'[draining'].obj = "live" /\ Tcp!Pinned(pipe'[draining'])
    PROVE  IInv'
<1>1. pipe'[h] = q /\ \A g \in Handles \ {h} : pipe'[g] = pipe[g]
  BY DEF IInv, Tcp!IInv
<1>2. \A g \in Handles : Quiet(pipe'[g])
  BY <1>1 DEF IInv
<1>3. \A g \in ipc' : Attending(pipe'[g])
  BY <1>1 DEF IInv
<1>4. Tcp!NotMade'
  BY StepMakes DEF IInv
<1> QED
  BY <1>2, <1>3, <1>4 DEF IInv

LEMMA SharedCallInv ==
    ASSUME IInv, NEW h \in Handles, IpcUnchanged,
           \/ Tcp!New(h) \/ Tcp!Listen(h) \/ Tcp!SetCallback(h) \/ Tcp!Shutdown(h)
           \/ Tcp!Write(h) \/ Tcp!Close(h) \/ Tcp!GetSockname(h) \/ Tcp!GetPeername(h)
           \/ Tcp!Keep(h) \/ Tcp!Drop(h) \/ Tcp!Collect(h)
    PROVE  IInv' /\ Tcp!OneStep(h)
<1>1. Tcp!IInv /\ Tcp!NotMade
  BY DEF IInv
<1>2. Tcp!IInv' /\ Tcp!PinsKept
  BY <1>1, Tcp!NewInv, Tcp!ListenInv, Tcp!SetCallbackInv, Tcp!ShutdownInv, Tcp!WriteInv,
     Tcp!CloseInv, Tcp!NamesInv, Tcp!KeepInv, Tcp!DropInv, Tcp!CollectInv
<1>3. Tcp!OneStep(h)
  BY <1>1, Tcp!NewLife, Tcp!ListenLife, Tcp!SetCallbackLife, Tcp!ShutdownLife, Tcp!WriteLife,
     Tcp!CloseLife, Tcp!NamesLife, Tcp!KeepLife, Tcp!DropLife, Tcp!CollectLife
<1>4. AllAttend
  BY <1>1, ListenAttends, SetCallbackAttends, ShutdownAttends, CallAttends
<1> QED
  BY <1>2, <1>3, <1>4, SharedInv

\* The client that accept() makes reads, but nobody attached it.
LEMMA AcceptInv ==
    ASSUME IInv, NEW h \in Handles, NEW c \in Handles, IpcUnchanged, Tcp!Accept(h, c)
    PROVE  IInv' /\ Tcp!OneStep(c)
<1>1. Tcp!IInv /\ Tcp!NotMade
  BY DEF IInv
<1>2. Tcp!IInv' /\ Tcp!PinsKept /\ Tcp!OneStep(c)
  BY <1>1, Tcp!AcceptInv, Tcp!AcceptLife
<1>3. pipe[c].obj = "none" /\ c \notin ipc /\ h # c
  BY DEF Tcp!Accept, Tcp!CanCall, IInv, Attending
<1> DEFINE p == [pipe[h] EXCEPT !.pending = FALSE]
<1>4. p.reading = pipe[h].reading /\ p.uv = pipe[h].uv /\ p.flag = pipe[h].flag
      /\ p.slot = pipe[h].slot
  BY <1>1, Shaped DEF Tcp!Resources
<1>5. PICK q : pipe' = [pipe EXCEPT ![h] = p, ![c] = q] /\ Quiet(q)
  <2>1. Quiet(Tcp!AcceptedResource) /\ Quiet(Tcp!Free(Tcp!NewResource))
    <3>1. /\ Tcp!NewResource \in Tcp!Resources /\ Tcp!NewResource.uv = "init"
      BY Tcp!CapturesNoSlots
      DEF Tcp!NewResource, Tcp!Blank, Tcp!Resources, Tcp!UvStates
    <3>2. Tcp!AcceptedResource.uv = "connected"
      BY DEF Tcp!AcceptedResource, Tcp!NewResource, Tcp!Blank
    <3> QED
      BY <3>1, <3>2, Tcp!FreeAbsent DEF Quiet
  <2> QED
    BY <2>1 DEF Tcp!Accept
<1> HIDE DEF p
<1>6. ASSUME NEW g \in Handles, g # c PROVE Attends(pipe'[g], pipe[g])
  <2>1. pipe'[g] = pipe[g] \/ (g = h /\ pipe'[g] = p)
    BY <1>1, <1>3, <1>5, <1>6 DEF Tcp!IInv
  <2> QED
    BY <1>4, <2>1 DEF Attends
<1>7. Quiet(pipe'[c])
  BY <1>1, <1>5 DEF Tcp!IInv
<1>8. \A g \in Handles : Quiet(pipe'[g])
  BY <1>6, <1>7 DEF IInv, Attends, Quiet
<1>9. ASSUME NEW g \in Handles, Tcp!Pinned(pipe[g])
      PROVE  pipe'[g].obj = "live" /\ Tcp!Pinned(pipe'[g])
  <2>1. Tcp!Pinned(pipe'[g]) /\ Tcp!RInv(pipe'[g], Tcp!FrameRef(g)')
    BY <1>2, <1>9 DEF Tcp!PinsKept, Tcp!IInv
  <2> QED
    BY <2>1 DEF Tcp!RInv, Tcp!Accounted, Tcp!Absent
<1>10. \A g \in ipc : Attending(pipe'[g])
  <2> SUFFICES ASSUME NEW g \in ipc PROVE Attending(pipe'[g])
    OBVIOUS
  <2>1. g \in Handles /\ g # c /\ Attending(pipe[g])
    BY <1>3 DEF IInv
  <2>2. pipe'[g].obj # "none"
    BY <1>1, <1>2, <2>1, StepMakes DEF Attending
  <2> QED
    BY <1>6, <1>9, <2>1, <2>2 DEF Attending, Attends
<1> QED
  BY <1>1, <1>2, <1>8, <1>9, <1>10, StepMakes DEF IInv, IpcUnchanged

LEMMA SharedEventInv ==
    ASSUME IInv, NEW h \in Handles, IpcUnchanged,
           \/ Tcp!ConnectionCb(h) \/ Tcp!ReadData(h) \/ Tcp!ReadElse(h) \/ Tcp!WriteCb(h)
           \/ Tcp!ShutdownCb(h) \/ Tcp!CancelConnect(h)
    PROVE  IInv' /\ Tcp!OneStep(h)
<1>1. Tcp!IInv /\ Tcp!NotMade
  BY DEF IInv
<1>2. Tcp!IInv' /\ Tcp!PinsKept
  BY <1>1, Tcp!ConnectionCbInv, Tcp!ReadDataInv, Tcp!ReadElseInv, Tcp!WriteCbInv,
     Tcp!ShutdownCbInv, Tcp!CancelConnectInv
<1>3. Tcp!OneStep(h)
  BY <1>1, Tcp!ConnectionCbLife, Tcp!ReadDataLife, Tcp!ReadElseLife, Tcp!WriteCbLife,
     Tcp!ShutdownCbLife, Tcp!CancelConnectLife
<1>4. AllAttend
  BY <1>1, EventAttends
<1> QED
  BY <1>2, <1>3, <1>4, SharedInv

LEMMA ReturnInv ==
    ASSUME IInv, IpcUnchanged, Tcp!Return PROVE IInv' /\ \E h \in Handles : Tcp!OneStep(h)
<1>1. Tcp!IInv /\ Tcp!NotMade
  BY DEF IInv
<1>2. PICK h \in Handles : Tcp!OneStep(h)
  BY <1>1, Tcp!ReturnLife
<1> QED
  BY <1>1, <1>2, Tcp!ReturnInv, ReturnAttends, SharedInv

\* The only pin that goes is that of a handle which is not read any more, when no
\* ipc_read_cb is running.
LEMMA CloseCbInv ==
    ASSUME IInv, NEW h \in Handles, IpcUnchanged, draining = NoHandle, Tcp!TcpCloseCb(h)
    PROVE  IInv' /\ Tcp!OneStep(h)
<1>1. Tcp!IInv /\ Tcp!NotMade /\ Quiet(pipe[h])
  BY DEF IInv
<1>2. Tcp!IInv' /\ Tcp!OneStep(h) /\ AllAttend
  BY <1>1, Tcp!TcpCloseCbInv, Tcp!TcpCloseCbLife, CloseCbAttends
<1>3. PICK q : pipe' = [pipe EXCEPT ![h] = q]
  BY DEF Tcp!TcpCloseCb, Tcp!Update
<1>4. q = pipe'[h] /\ Attends(q, pipe[h]) /\ pipe[h].uv = "closing"
  BY <1>1, <1>2, <1>3 DEF AllAttend, Tcp!IInv, Tcp!TcpCloseCb
<1>5. ~q.reading
  BY <1>1, <1>4 DEF Attends, Quiet
<1>6. h \in ipc => Attending(q)
  BY <1>1, <1>2, <1>4, <1>5, StepMakes DEF IInv, Attending
<1> QED
  BY <1>2, <1>3, <1>5, <1>6, StoreInv DEF IpcUnchanged, Quiet

----------------------------------------------------------------------------
(* The steps that differ from UVTcp's.                                      *)

\* A call that stores in the slot of connect() and does nothing else.
LEMMA StoreConnect ==
    ASSUME NEW r, NEW n, Tcp!Accounted(r, n), Tcp!Coherent(r), r.script + n > 0,
           NEW f \in Closures \cup {"null"}
    PROVE  LET c == Tcp!SetConnect(r, f) IN
           /\ Tcp!Accounted(c, n) /\ Tcp!Coherent(c) /\ Tcp!SameUv(c, r)
           /\ c.flag = r.flag /\ c.slot.connect = f /\ f # "borrowed"
           /\ c.reading = r.reading /\ c \in Tcp!Resources
<1>1. f \in Tcp!SlotValues /\ f # "borrowed"
  BY DEF Tcp!SlotValues
<1>2. r \in Tcp!Resources
  BY DEF Tcp!Accounted
<1>3. Tcp!SetConnect(r, f).reading = r.reading
  BY <1>2 DEF Tcp!SetConnect, Tcp!SetSlots, Tcp!Resources
<1> QED
  BY <1>1, <1>3, Tcp!SetConnectInv DEF Tcp!Accounted

\* The same, with the handle pinned too.
LEMMA StoreAndPin ==
    ASSUME NEW r, NEW n, Tcp!Accounted(r, n), Tcp!Coherent(r), r.script + n > 0,
           NEW f \in Closures
    PROVE  LET b == Tcp!SetSelfReference(Tcp!SetConnect(r, f)) IN
           /\ Tcp!Accounted(b, n) /\ Tcp!Coherent(b) /\ Tcp!SameUv(b, r)
           /\ Tcp!Pinned(b) /\ b.slot.connect = f /\ f # "borrowed"
           /\ b.reading = r.reading /\ b \in Tcp!Resources
<1> DEFINE c == Tcp!SetConnect(r, f)
           b == Tcp!SetSelfReference(c)
<1>1. /\ Tcp!Accounted(c, n) /\ Tcp!Coherent(c) /\ Tcp!SameUv(c, r)
      /\ c.slot.connect = f /\ f # "borrowed" /\ c.reading = r.reading /\ c \in Tcp!Resources
  BY StoreConnect
<1> HIDE DEF c
<1>2. /\ Tcp!Accounted(b, n) /\ Tcp!SameUv(b, c) /\ b.slot = c.slot
      /\ b.flag = c.flag \cup {"INTERNAL_REF"}
  BY <1>1, Tcp!SelfReferenceAccounted
<1>3. b.reading = c.reading
  BY <1>1 DEF Tcp!SetSelfReference, Tcp!Resources
<1> HIDE DEF b
<1>4. Tcp!Coherent(b) /\ Tcp!Pinned(b)
  BY <1>1, <1>2 DEF Tcp!Coherent, Tcp!Owing, Tcp!SameUv, Tcp!Pinned
<1> QED
  BY <1>1, <1>2, <1>3, <1>4 DEF Tcp!SameUv, Tcp!Accounted, b, c

\* What is pinned stays pinned and alive: the handle ipc_read_cb works on too.
LEMMA DrainingKept ==
    ASSUME IInv, Tcp!IInv', Tcp!PinsKept, draining # NoHandle
    PROVE  /\ draining \in Handles
           /\ pipe'[draining].obj = "live" /\ Tcp!Pinned(pipe'[draining])
<1>1. PICK h \in Handles : h = draining
  BY DEF IInv
<1>2. Tcp!Pinned(pipe'[h]) /\ Tcp!RInv(pipe'[h], Tcp!FrameRef(h)')
  BY <1>1 DEF IInv, Tcp!PinsKept, Tcp!IInv
<1> QED
  BY <1>1, <1>2 DEF Tcp!RInv, Tcp!Accounted, Tcp!Absent

\* A call that leaves the running callback and the pins alone.
LEMMA CallInv ==
    ASSUME IInv, NEW h \in Handles, Tcp!CanCall(h), NEW q, Tcp!Update(h, q),
           Tcp!Accounted(q, Tcp!FrameRef(h)), Tcp!Coherent(q),
           Tcp!Pinned(pipe[h]) => Tcp!Pinned(q),
           Tcp!Phase(q) = Tcp!Phase(pipe[h]), Quiet(q),
           ipc' \subseteq ipc \cup {h}, h \in ipc' => Attending(q), draining' = draining
    PROVE  IInv' /\ Tcp!OneStep(h)
<1>1. Tcp!IInv /\ Tcp!NotMade
  BY DEF IInv
<1>2. Tcp!IInv' /\ Tcp!PinsKept
  BY <1>1, Tcp!StepInv DEF Tcp!RInv
<1>3. q.obj = pipe[h].obj
  BY DEF Tcp!CanCall, Tcp!Accounted
<1>4. Tcp!OneStep(h)
  BY <1>1, <1>2, <1>3, Tcp!CallUses
<1>5. draining # NoHandle =>
          /\ draining \in Handles
          /\ pipe'[draining].obj = "live" /\ Tcp!Pinned(pipe'[draining])
  BY <1>2, DrainingKept
<1>6. pipe' = [pipe EXCEPT ![h] = q]
  BY DEF Tcp!Update
<1> QED
  BY <1>2, <1>4, <1>5, <1>6, StoreInv

\* connect() pins and starts the handle whatever state it is in.
LEMMA ConnectInv ==
    ASSUME IInv, NEW h \in Handles, Connect(h) PROVE IInv' /\ Tcp!OneStep(h)
<1> DEFINE r == pipe[h]
           n == Tcp!FrameRef(h)
<1>1. Tcp!CanCall(h) /\ Tcp!IInv /\ ipc' = ipc /\ draining' = draining
  BY SameHelpers DEF Connect, IInv, IpcUnchanged
<1>2. Tcp!Accounted(r, n) /\ Tcp!Coherent(r) /\ r.script + n > 0
  BY <1>1, Tcp!CallReady
<1>3. Quiet(r) /\ (h \in ipc => Attending(r))
  BY DEF IInv
<1>4. CASE Tcp!Update(h, Tcp!SetConnect(r, "null"))
  <2> DEFINE q == Tcp!SetConnect(r, "null")
  <2>1. /\ Tcp!Accounted(q, n) /\ Tcp!Coherent(q) /\ Tcp!SameUv(q, r)
        /\ q.flag = r.flag /\ q.slot.connect = "null" /\ q.reading = r.reading
    BY <1>2, StoreConnect
  <2> HIDE DEF q
  <2>2. Quiet(q) /\ (h \in ipc => Attending(q)) /\ Tcp!Phase(q) = Tcp!Phase(r)
    BY <1>3, <2>1 DEF Quiet, Attending, Tcp!SameUv, Tcp!Phase, Tcp!Pinned
  <2> QED
    BY <1>1, <1>4, <2>1, <2>2, CallInv DEF Tcp!Pinned, q
<1>5. ASSUME NEW f \in Closures,
             Tcp!Update(h, [Tcp!SetSelfReference(Tcp!SetConnect(r, f)) EXCEPT
                               !.flag = @ \cup {"HANDLE_START"},
                               !.uv   = IF r.uv \in {"init", "broken"} THEN "connecting" ELSE @,
                               !.conn = @ \/ r.uv = "init" \/ Tcp!Open(r)])
      PROVE  IInv' /\ Tcp!OneStep(h)
  <2> DEFINE b == Tcp!SetSelfReference(Tcp!SetConnect(r, f))
             uv == IF r.uv \in {"init", "broken"} THEN "connecting" ELSE b.uv
             conn == b.conn \/ r.uv = "init" \/ Tcp!Open(r)
             q == [b EXCEPT !.flag = @ \cup {"HANDLE_START"}, !.uv = uv, !.conn = conn]
  <2>1. /\ Tcp!Accounted(b, n) /\ Tcp!Coherent(b) /\ Tcp!SameUv(b, r)
        /\ Tcp!Pinned(b) /\ b.slot.connect = f /\ f # "borrowed"
        /\ b.reading = r.reading /\ b \in Tcp!Resources
    BY <1>2, StoreAndPin
  <2>2. Tcp!Update(h, q)
    BY <1>5
  <2> HIDE DEF b
  <2>3. b.flag \cup {"HANDLE_START"} \in SUBSET Tcp!Flags
    BY <2>1 DEF Tcp!Resources, Tcp!Flags
  <2>4. conn \in BOOLEAN /\ uv \in Tcp!UvStates
    BY <2>1 DEF Tcp!Resources, Tcp!UvStates
  <2>5. /\ uv \in {"closing", "closed", "aborted"} <=> r.uv \in {"closing", "closed", "aborted"}
        /\ r.uv \in {"closing", "closed", "aborted"} => uv = r.uv
        /\ uv = "closed" => ~conn
    BY <1>2, <2>1 DEF Tcp!SameUv, Tcp!Open, Tcp!Coherent
  <2> HIDE DEF uv, conn
  <2>6. /\ q \in Tcp!Resources /\ q.obj = b.obj /\ q.rc = b.rc /\ q.script = b.script
        /\ q.slot = b.slot /\ q.shut = b.shut /\ q.reading = b.reading
        /\ q.flag = b.flag \cup {"HANDLE_START"} /\ q.uv = uv /\ q.conn = conn
    BY <2>1, <2>3, <2>4 DEF Tcp!Resources
  <2> HIDE DEF q
  <2>7. Tcp!Pinned(q) /\ Tcp!Accounted(q, n)
    BY <2>1, <2>6 DEF Tcp!Accounted, Tcp!PinRef, Tcp!Pinned
  <2>8. Tcp!Coherent(q)
    BY <2>1, <2>5, <2>6, <2>7 DEF Tcp!Coherent, Tcp!SameUv
  <2>9. Quiet(q) /\ (h \in ipc => Attending(q)) /\ Tcp!Phase(q) = Tcp!Phase(r)
    BY <1>3, <2>1, <2>5, <2>6, <2>7 DEF Quiet, Attending, Tcp!SameUv, Tcp!Phase, Tcp!Accounted
  <2> QED
    BY <1>1, <2>2, <2>7, <2>8, <2>9, CallInv
<1> QED
  BY <1>4, <1>5, SameHelpers DEF Connect, TryConnect

\* attachIPC() opens a descriptor, whatever the handle was doing; whether it goes on
\* to read or is refused, a handle that reads is pinned and started.  What libuv
\* already owed the handle it still owes it, and a handle being closed is not read.
LEMMA AttachIPCInv ==
    ASSUME IInv, NEW h \in Handles, AttachIPC(h) PROVE IInv' /\ Tcp!OneStep(h)
<1> DEFINE ending == pipe[h].uv \in {"closing", "closed"}
           uv == IF ending THEN pipe[h].uv ELSE "connected"
           r == [pipe[h] EXCEPT !.uv = uv]
           n == Tcp!FrameRef(h)
<1>1. /\ Tcp!CanCall(h) /\ Tcp!IInv /\ draining' = draining
      /\ pipe[h] \in Tcp!Resources
  BY SameHelpers, Shaped DEF AttachIPC, IInv
<1>2. Tcp!Accounted(pipe[h], n) /\ Tcp!Coherent(pipe[h]) /\ pipe[h].script + n > 0
  BY <1>1, Tcp!CallReady
<1>3. Quiet(pipe[h]) /\ (h \in ipc => Attending(pipe[h]))
  BY DEF IInv
<1>4. \/ Tcp!Update(h, Tcp!SetConnect(r, "null")) /\ ipc' = ipc
      \/ \E f \in Closures :
            \/ Tcp!Update(h, Tcp!SetConnect(r, f)) /\ ipc' = ipc
            \/ /\ ~ending
               /\ Tcp!Update(h, [Tcp!SetSelfReference(Tcp!SetConnect(r, f)) EXCEPT
                     !.reading = TRUE, !.flag = @ \cup {"HANDLE_START", "READ_START"}])
               /\ ipc' = ipc \cup {h}
  BY SameHelpers DEF AttachIPC, Attached
<1>5. /\ r \in Tcp!Resources /\ r.uv = uv /\ r.obj = pipe[h].obj /\ r.rc = pipe[h].rc
      /\ r.script = pipe[h].script /\ r.flag = pipe[h].flag /\ r.slot = pipe[h].slot
      /\ r.conn = pipe[h].conn /\ r.shut = pipe[h].shut /\ r.reading = pipe[h].reading
  BY <1>1 DEF Tcp!Resources, Tcp!UvStates
<1> HIDE DEF r
<1>6. /\ Tcp!Phase(r) = Tcp!Phase(pipe[h])
      /\ r.uv \in {"closing", "closed"} <=> ending
      /\ r.uv = "closed" <=> pipe[h].uv = "closed"
      /\ r.uv \notin {"aborted", "listening", "connecting"}
  <2>1. pipe[h].uv # "aborted"
    BY <1>2 DEF Tcp!Coherent
  <2> QED
    BY <1>5, <2>1 DEF Tcp!Phase
<1> HIDE DEF uv
<1>7. Tcp!Accounted(r, n) /\ r.script + n > 0
  BY <1>2, <1>5 DEF Tcp!Accounted, Tcp!PinRef, Tcp!Pinned
<1>8. Tcp!Coherent(r)
  <2> DEFINE p == pipe[h]
  <2> USE <1>5, <1>6 DEF Tcp!Coherent, Tcp!Owing, Tcp!Pinned
  <2>1. /\ "CLOSING_START" \in p.flag <=> ending
        /\ Tcp!Owing(p) => Tcp!Pinned(p)
        /\ p.uv = "closed" => ~p.conn
        /\ p.obj = "live" /\ p.conn => "HANDLE_START" \in p.flag
        /\ p.slot.error # "null" /\ p.uv # "closed" => Tcp!Pinned(p)
        /\ p.conn => p.slot.connect # "borrowed"
        /\ p.slot.error # "borrowed" /\ p.slot.shutdown # "borrowed"
    BY <1>2
  <2> HIDE DEF ending
  <2> QED
    BY <2>1
<1>9. ASSUME NEW f \in Closures \cup {"null"}, Tcp!Update(h, Tcp!SetConnect(r, f)), ipc' = ipc
      PROVE  IInv' /\ Tcp!OneStep(h)
  <2> DEFINE q == Tcp!SetConnect(r, f)
  <2>1. /\ Tcp!Accounted(q, n) /\ Tcp!Coherent(q) /\ Tcp!SameUv(q, r)
        /\ q.flag = r.flag /\ q.slot.connect # "borrowed" /\ q.reading = r.reading
    BY <1>7, <1>8, StoreConnect
  <2> HIDE DEF q
  <2>2. /\ Quiet(q) /\ (h \in ipc => Attending(q)) /\ Tcp!Phase(q) = Tcp!Phase(pipe[h])
        /\ Tcp!Pinned(pipe[h]) => Tcp!Pinned(q)
    <3>1. q.uv = r.uv /\ q.obj = pipe[h].obj /\ q.flag = pipe[h].flag
          /\ q.reading = pipe[h].reading
      BY <1>5, <2>1 DEF Tcp!SameUv
    <3> QED
      BY <1>3, <1>6, <2>1, <3>1 DEF Quiet, Attending, Tcp!Phase, Tcp!Pinned
  <2> QED
    BY <1>1, <1>9, <2>1, <2>2, CallInv DEF q
<1>10. ASSUME NEW f \in Closures, ~ending,
             Tcp!Update(h, [Tcp!SetSelfReference(Tcp!SetConnect(r, f)) EXCEPT
                     !.reading = TRUE, !.flag = @ \cup {"HANDLE_START", "READ_START"}]),
             ipc' = ipc \cup {h}
      PROVE  IInv' /\ Tcp!OneStep(h)
  <2> DEFINE b == Tcp!SetSelfReference(Tcp!SetConnect(r, f))
             q == [b EXCEPT !.reading = TRUE, !.flag = @ \cup {"HANDLE_START", "READ_START"}]
  <2>1. /\ Tcp!Accounted(b, n) /\ Tcp!Coherent(b) /\ Tcp!SameUv(b, r)
        /\ Tcp!Pinned(b) /\ b.slot.connect # "borrowed" /\ b \in Tcp!Resources
    BY <1>7, <1>8, StoreAndPin
  <2> HIDE DEF b
  <2>2. b.flag \cup {"HANDLE_START", "READ_START"} \in SUBSET Tcp!Flags
    BY <2>1 DEF Tcp!Resources, Tcp!Flags
  <2>3. /\ q \in Tcp!Resources /\ Tcp!SameUv(q, b) /\ q.rc = b.rc /\ q.slot = b.slot
        /\ q.flag = b.flag \cup {"HANDLE_START", "READ_START"} /\ q.reading
    BY <2>1, <2>2 DEF Tcp!Resources, Tcp!SameUv
  <2> HIDE DEF q
  <2>4. Tcp!Pinned(q) /\ Tcp!Accounted(q, n)
    BY <2>1, <2>3 DEF Tcp!Accounted, Tcp!PinRef, Tcp!Pinned, Tcp!SameUv
  <2>5. Tcp!Coherent(q)
    BY <2>1, <2>3, <2>4 DEF Tcp!Coherent, Tcp!SameUv, Tcp!Owing
  <2>6. Quiet(q) /\ Attending(q) /\ Tcp!Phase(q) = Tcp!Phase(pipe[h])
    BY <1>5, <1>10, <1>6, <2>1, <2>3, <2>4
    DEF Quiet, Attending, Tcp!SameUv, Tcp!Phase, Tcp!Accounted
  <2> QED
    BY <1>1, <1>10, <2>4, <2>5, <2>6, CallInv DEF q, b
<1> QED
  BY <1>4, <1>9, <1>10

\* A call of the connect callback, in client_connection_cb or in ipc_read_cb.
LEMMA DeliverConnectInv ==
    ASSUME IInv, NEW h \in Handles, Tcp!LoopTurn(h), NEW why \in {"ok", "fail"}, NEW q,
           Tcp!Accounted(q, 0), Tcp!Coherent(q), Tcp!Pinned(q) <=> Tcp!Pinned(pipe[h]),
           Tcp!Phase(q) = Tcp!Phase(pipe[h]), Quiet(q),
           Tcp!Deliver(h, "connect", why, q),
           ipc' \subseteq ipc, h \in ipc' => Attending(q), draining' = draining
    PROVE  IInv' /\ Tcp!OneStep(h)
<1>1. /\ Tcp!IInv /\ Tcp!NotMade /\ frame = Tcp!Idle
      /\ q \in Tcp!Resources /\ q.obj = "live"
  BY DEF IInv, Tcp!LoopTurn, Tcp!Accounted
<1>2. "connect" \in Tcp!Callbacks /\ why \in Tcp!Whys
  BY DEF Tcp!Callbacks, Tcp!Whys
<1>3. Tcp!IInv' /\ Tcp!PinsKept
  BY <1>1, <1>2, Tcp!DeliverInv
<1>4. Tcp!OneStep(h)
  BY <1>1, <1>3, Tcp!DeliverUses
<1> DEFINE p == [q EXCEPT !.rc = @ + 1]
<1>5. /\ p.reading = q.reading /\ p.uv = q.uv /\ p.flag = q.flag /\ p.slot = q.slot
      /\ p.obj = q.obj
  BY <1>1 DEF Tcp!Resources
<1>6. pipe' = [pipe EXCEPT ![h] = q] \/ pipe' = [pipe EXCEPT ![h] = p]
  BY DEF Tcp!Deliver
<1> HIDE DEF p
<1>7. Quiet(p) /\ (h \in ipc' => Attending(p))
  BY <1>5 DEF Quiet, Attending, Tcp!Pinned
<1>8. draining' # NoHandle =>
          /\ draining' \in Handles
          /\ pipe'[draining'].obj = "live" /\ Tcp!Pinned(pipe'[draining'])
  BY <1>3, DrainingKept
<1> QED
  BY <1>3, <1>4, <1>6, <1>7, <1>8, StoreInv

\* The answer to connect(), on a handle in any state but closing: an answer that
\* was queued always finds the handle pinned.
LEMMA ClientConnectionCbInv ==
    ASSUME IInv, NEW h \in Handles, ClientConnectionCb(h) PROVE IInv' /\ Tcp!OneStep(h)
<1>1. /\ Tcp!LoopTurn(h) /\ pipe[h].conn /\ pipe[h].uv # "closing" /\ draining' = draining
      /\ Tcp!IInv
  BY SameHelpers DEF ClientConnectionCb, IInv
<1>2. /\ Tcp!Accounted(pipe[h], 0) /\ Tcp!Coherent(pipe[h]) /\ pipe[h] \in Tcp!Resources
      /\ Tcp!FrameRef(h) = 0 /\ pipe[h].obj = "live"
  BY <1>1, Tcp!EventReady DEF Tcp!LoopTurn
<1>3. Quiet(pipe[h]) /\ (h \in ipc => Attending(pipe[h]))
  BY DEF IInv
<1>4. PICK why \in {"ok", "fail"} :
         LET r == [pipe[h] EXCEPT
                      !.conn = FALSE,
                      !.uv = IF @ # "connecting" THEN @
                             ELSE IF why = "ok" THEN "connected" ELSE "broken"]
         IN  \/ /\ Tcp!Deliver(h, "connect", why,
                      [r EXCEPT !.reading = TRUE,
                                !.flag = @ \cup {"HANDLE_START", "READ_START"}])
                /\ ipc' = ipc \ {h}
             \/ why = "fail" /\ Tcp!Update(h, r) /\ ipc' = ipc
  BY SameHelpers DEF ClientConnectionCb
<1> DEFINE uv == IF pipe[h].uv # "connecting" THEN pipe[h].uv
                 ELSE IF why = "ok" THEN "connected" ELSE "broken"
           r == [pipe[h] EXCEPT !.conn = FALSE, !.uv = uv]
           q == [r EXCEPT !.reading = TRUE, !.flag = @ \cup {"HANDLE_START", "READ_START"}]
<1>5. \/ Tcp!Deliver(h, "connect", why, q) /\ ipc' = ipc \ {h}
      \/ Tcp!Update(h, r) /\ ipc' = ipc
  BY <1>4
<1>6. /\ uv \in Tcp!UvStates /\ uv \notin {"connecting", "closing", "closed", "aborted"}
      /\ uv = "listening" => pipe[h].uv = "listening"
      /\ pipe[h].uv \notin {"closing", "closed", "aborted"}
  BY <1>1, <1>2 DEF Tcp!Coherent, Tcp!Resources, Tcp!UvStates
<1> HIDE DEF uv
<1>7. /\ r \in Tcp!Resources /\ r.obj = pipe[h].obj /\ r.rc = pipe[h].rc
      /\ r.script = pipe[h].script /\ r.flag = pipe[h].flag /\ r.slot = pipe[h].slot
      /\ r.conn = FALSE /\ r.uv = uv /\ r.shut = pipe[h].shut /\ r.reading = pipe[h].reading
  BY <1>2, <1>6 DEF Tcp!Resources
<1> HIDE DEF r
<1>8. r.flag \cup {"HANDLE_START", "READ_START"} \in SUBSET Tcp!Flags
  BY <1>7 DEF Tcp!Resources, Tcp!Flags
<1>9. /\ q \in Tcp!Resources /\ q.rc = r.rc /\ q.slot = r.slot /\ Tcp!SameUv(q, r)
      /\ q.flag = r.flag \cup {"HANDLE_START", "READ_START"}
  BY <1>7, <1>8 DEF Tcp!Resources, Tcp!SameUv
<1> HIDE DEF q
<1>10. Tcp!Pinned(pipe[h]) /\ Tcp!Pinned(r) /\ Tcp!Pinned(q)
  BY <1>1, <1>2, <1>7, <1>9 DEF Tcp!Coherent, Tcp!Owing, Tcp!Pinned
<1>11. Tcp!Accounted(r, 0) /\ Tcp!Accounted(q, 0)
  BY <1>2, <1>7, <1>9, <1>10 DEF Tcp!Accounted, Tcp!PinRef, Tcp!SameUv
<1>12. Tcp!Coherent(r) /\ Tcp!Coherent(q)
  BY <1>2, <1>6, <1>7, <1>9, <1>10 DEF Tcp!Coherent, Tcp!SameUv
<1>13. /\ Tcp!Phase(r) = Tcp!Phase(pipe[h]) /\ Tcp!Phase(q) = Tcp!Phase(pipe[h])
       /\ Quiet(r) /\ Quiet(q)
  BY <1>6, <1>7, <1>9 DEF Tcp!Phase, Quiet, Tcp!SameUv
<1>14. CASE Tcp!Deliver(h, "connect", why, q) /\ ipc' = ipc \ {h}
  BY <1>1, <1>10, <1>11, <1>12, <1>13, <1>14, DeliverConnectInv
<1>15. CASE Tcp!Update(h, r) /\ ipc' = ipc
  <2>1. Tcp!IInv' /\ Tcp!PinsKept
    BY <1>1, <1>2, <1>10, <1>11, <1>12, <1>15, Tcp!StepInv DEF Tcp!RInv
  <2>2. Tcp!OneStep(h)
    BY <1>1, <1>2, <1>7, <1>10, <1>13, <1>15, <2>1, Tcp!UpdateUses
  <2>3. h \in ipc => Attending(r)
    BY <1>3, <1>7, <1>10 DEF Attending
  <2>4. pipe' = [pipe EXCEPT ![h] = r]
    BY <1>15 DEF Tcp!Update
  <2>5. draining' # NoHandle =>
            /\ draining' \in Handles
            /\ pipe'[draining'].obj = "live" /\ Tcp!Pinned(pipe'[draining'])
    BY <1>1, <2>1, DrainingKept
  <2> QED
    BY <1>13, <1>15, <2>1, <2>2, <2>3, <2>4, <2>5, StoreInv
<1> QED
  BY <1>5, <1>14, <1>15

\* Bytes on an IPC handle: ipc_read_cb starts on a handle that is pinned.
LEMMA IpcReadCbInv ==
    ASSUME IInv, NEW h \in Handles, IpcReadCb(h) PROVE IInv' /\ Tcp!OneStep(h)
<1>1. Tcp!LoopTurn(h) /\ h \in ipc /\ pipe[h].reading /\ Tcp!IInv /\ Attending(pipe[h])
  BY SameHelpers DEF IpcReadCb, IInv
<1>2. PICK waiting \in BOOLEAN : pipe' = [pipe EXCEPT ![h].pending = @ \/ waiting]
  BY DEF IpcReadCb
<1> DEFINE q == [pipe[h] EXCEPT !.pending = @ \/ waiting]
<1>3. Tcp!Update(h, q) /\ ipc' = ipc /\ draining' = h
  BY <1>2 DEF IpcReadCb, Tcp!Update
<1>4. /\ Tcp!Accounted(pipe[h], 0) /\ Tcp!Coherent(pipe[h]) /\ pipe[h] \in Tcp!Resources
      /\ Tcp!FrameRef(h) = 0 /\ frame.kind # "error"
  BY <1>1, Tcp!EventReady
<1>5. /\ q \in Tcp!Resources /\ Tcp!SameUv(q, pipe[h]) /\ q.rc = pipe[h].rc
      /\ q.slot = pipe[h].slot /\ q.flag = pipe[h].flag /\ q.reading = pipe[h].reading
  BY <1>4 DEF Tcp!Resources, Tcp!SameUv
<1> HIDE DEF q
<1>6. Tcp!Accounted(q, 0) /\ Tcp!Coherent(q) /\ (Tcp!Pinned(q) <=> Tcp!Pinned(pipe[h]))
  BY <1>4, <1>5, Tcp!Unchanged
<1>7. Tcp!IInv' /\ Tcp!PinsKept
  BY <1>1, <1>3, <1>4, <1>6, Tcp!StepInv DEF Tcp!RInv
<1>8. Quiet(q) /\ Attending(q) /\ Tcp!Phase(q) = Tcp!Phase(pipe[h])
  BY <1>1, <1>5, <1>6 DEF IInv, Quiet, Attending, Tcp!SameUv, Tcp!Phase
<1>9. Tcp!OneStep(h)
  BY <1>1, <1>3, <1>5, <1>6, <1>7, <1>8, Tcp!UpdateUses
  DEF Tcp!SameUv, Tcp!LoopTurn
<1>10. pipe' = [pipe EXCEPT ![h] = q] /\ pipe'[h] = q
  BY <1>1, <1>3 DEF Tcp!Update, Tcp!IInv
<1> QED
  BY <1>1, <1>3, <1>5, <1>6, <1>7, <1>8, <1>9, <1>10, StoreInv DEF Attending, Tcp!SameUv

\* A turn of the loop of ipc_read_cb calls the script on a handle that is alive,
\* or ends.
LEMMA DrainInv ==
    ASSUME IInv, Drain
    PROVE  IInv' /\ (UNCHANGED <<pipe, frame>> \/ \E h \in Handles : Tcp!OneStep(h))
<1>1. /\ draining \in Handles /\ frame = Tcp!Idle /\ ipc' = ipc
      /\ pipe[draining].obj = "live" /\ Tcp!Pinned(pipe[draining]) /\ Tcp!IInv
  BY SameHelpers DEF Drain, IInv
<1>2. CASE pipe[draining].pending
  <2>1. Tcp!Deliver(draining, "connect", "ok", pipe[draining]) /\ draining' = draining
    BY <1>2, SameHelpers DEF Drain
  <2>2. Tcp!LoopTurn(draining)
    BY <1>1 DEF Tcp!LoopTurn
  <2>3. Tcp!Accounted(pipe[draining], 0) /\ Tcp!Coherent(pipe[draining])
    BY <1>1, <2>2, Tcp!EventReady
  <2>4. Quiet(pipe[draining]) /\ (draining \in ipc => Attending(pipe[draining]))
    BY <1>1 DEF IInv
  <2> QED
    BY <1>1, <2>1, <2>2, <2>3, <2>4, DeliverConnectInv
<1>3. CASE ~pipe[draining].pending
  <2>1. UNCHANGED <<pipe, frame, ipc>> /\ draining' = NoHandle
    BY <1>3 DEF Drain
  <2>2. Tcp!IInv' /\ Tcp!NotMade'
    BY <1>1, <2>1 DEF IInv, Tcp!IInv, Tcp!NotMade, Tcp!FrameRef, Tcp!Phase
  <2> QED
    BY <2>1, <2>2 DEF IInv
<1> QED
  BY <1>2, <1>3

----------------------------------------------------------------------------
(* Every step.                                                              *)

\* Every step changes what HandleLife sees of one handle at most.
OneHandle == UNCHANGED <<pipe, frame>> \/ \E h \in Handles : Tcp!OneStep(h)

LEMMA ScriptCallInv ==
    ASSUME IInv, NEW h \in Handles, ScriptCall(h) PROVE IInv' /\ OneHandle
<1>1. CASE New(h) \/ Listen(h) \/ SetCallback(h) \/ Shutdown(h) \/ Write(h) \/ Close(h)
           \/ GetSockname(h) \/ GetPeername(h) \/ Keep(h) \/ Drop(h) \/ Collect(h)
  BY <1>1, SameActions, SharedCallInv
  DEF New, Listen, SetCallback, Shutdown, Write, Close, GetSockname, GetPeername, Keep, Drop,
      Collect, OneHandle
<1>2. CASE Connect(h) \/ AttachIPC(h)
  BY <1>2, ConnectInv, AttachIPCInv DEF OneHandle
<1>3. CASE \E c \in Handles : Accept(h, c)
  BY <1>3, SameActions, AcceptInv DEF Accept, OneHandle
<1> QED
  BY <1>1, <1>2, <1>3 DEF ScriptCall

LEMMA LoopEventInv ==
    ASSUME IInv, NEW h \in Handles, LoopEvent(h) PROVE IInv' /\ OneHandle
<1>1. CASE ConnectionCb(h) \/ ReadData(h) \/ ReadElse(h) \/ WriteCb(h) \/ ShutdownCb(h)
           \/ CancelConnect(h)
  BY <1>1, SameActions, SharedEventInv
  DEF ConnectionCb, ReadData, ReadElse, WriteCb, ShutdownCb, CancelConnect, OneHandle
<1>2. CASE ClientConnectionCb(h) \/ IpcReadCb(h)
  BY <1>2, ClientConnectionCbInv, IpcReadCbInv DEF OneHandle
<1>3. CASE PipeCloseCb(h)
  BY <1>3, SameActions, CloseCbInv DEF LoopEvent, PipeCloseCb, OneHandle
<1> QED
  BY <1>1, <1>2, <1>3 DEF LoopEvent

LEMMA NextStep == ASSUME IInv, [Next]_vars PROVE IInv' /\ OneHandle
<1>1. CASE Return
  BY <1>1, SameReturn, ReturnInv DEF Return, OneHandle
<1>2. CASE Drain
  BY <1>2, DrainInv DEF OneHandle
<1>3. ASSUME NEW h \in Handles, ScriptCall(h) \/ LoopEvent(h) PROVE IInv' /\ OneHandle
  BY <1>3, ScriptCallInv, LoopEventInv
<1>4. CASE UNCHANGED vars
  <2>1. pipe' = pipe /\ frame' = frame /\ ipc' = ipc /\ draining' = draining
    BY <1>4 DEF vars
  <2>2. Tcp!IInv' /\ Tcp!NotMade'
    BY <2>1 DEF IInv, Tcp!IInv, Tcp!NotMade, Tcp!FrameRef, Tcp!Phase
  <2> QED
    BY <2>1, <2>2 DEF IInv, OneHandle
<1> QED
  BY <1>1, <1>2, <1>3, <1>4 DEF Next

LEMMA InitInv == Init => IInv /\ Tcp!Life!Init
<1> SUFFICES ASSUME Init PROVE IInv /\ Tcp!Life!Init
  OBVIOUS
<1>1. Tcp!Init
  BY SamePromises DEF Init
<1>2. Tcp!IInv /\ Tcp!NotMade /\ Tcp!Life!Init
  BY <1>1, Tcp!InitInv, Tcp!InitLife
<1>3. \A h \in Handles : Quiet(pipe[h])
  BY <1>1 DEF Tcp!Init, Tcp!Blank, Quiet
<1> QED
  BY <1>2, <1>3 DEF Init, IInv

----------------------------------------------------------------------------
(* Theorems.                                                                *)

\* The inductive invariant holds in every reachable state.
THEOREM Invariance == Spec => []IInv
<1>1. IInv /\ [Next]_vars => IInv'
  BY NextStep
<1> QED
  BY <1>1, InitInv, PTL DEF Spec

\* The reference count of a living UVPipe object is exact, with a connect() that
\* pins in any state and with attachIPC().
THEOREM RefcountsAreExact == Spec => []RefcountExact
<1>1. IInv => RefcountExact
  <2>1. Tcp!IInv => Tcp!RefcountExact
    BY DEF Tcp!IInv, Tcp!RInv, Tcp!Accounted, Tcp!Absent, Tcp!RefcountExact
  <2> QED
    BY <2>1, SamePromises DEF IInv, RefcountExact
<1> QED
  BY <1>1, Invariance, PTL

\* The memory of a handle is not released while libuv listens on it, owes it the
\* answer to a connect or a shutdown, or reads it for the connections of a parent,
\* whatever the handle was doing when connect() or attachIPC() was called.
THEOREM FreedHandlesOweNothing == Spec => []FreedOwesNothing
<1>1. IInv => FreedOwesNothing
  <2>1. Tcp!IInv => Tcp!FreedOwesNothing
    BY DEF Tcp!IInv, Tcp!RInv, Tcp!Accounted, Tcp!Absent, Tcp!Coherent, Tcp!Owing,
       Tcp!FreedOwesNothing
  <2> QED
    BY <2>1, SamePromises, SameHelpers DEF IInv, FreedOwesNothing, Attending
<1> QED
  BY <1>1, Invariance, PTL

\* uv_close is never called twice on a handle, ipc_read_cb's loop included.
THEOREM ClosedOnce == Spec => []CloseOnce
<1>1. IInv => CloseOnce
  <2>1. Tcp!IInv => Tcp!CloseOnce
    BY DEF Tcp!IInv, Tcp!RInv, Tcp!Coherent, Tcp!CloseOnce
  <2> QED
    BY <2>1, SamePromises DEF IInv, CloseOnce
<1> QED
  BY <1>1, Invariance, PTL

\* The connect callback of a handle that listens, connects or is attached, its error
\* callback and its shutdown callback are owned by the handle; nothing is said of the
\* read and write callbacks, which a partly parsed setCallback() may leave borrowed.
THEOREM CallablesAreOwned == Spec => []CallableOwned
<1>1. IInv => CallableOwned
  <2>1. Tcp!IInv => Tcp!CallableOwned
    BY DEF Tcp!IInv, Tcp!RInv, Tcp!Coherent, Tcp!CallableOwned
  <2> QED
    BY <2>1, SamePromises DEF IInv, CallableOwned, Attending
<1> QED
  BY <1>1, Invariance, PTL

\* ipc_read_cb works on a handle that is alive and pinned until its loop ends,
\* whatever the callbacks it makes do to it.
THEOREM DrainIsSafe == Spec => []DrainSafe
<1>1. IInv => DrainSafe
  BY SameHelpers DEF IInv, DrainSafe
<1> QED
  BY <1>1, Invariance, PTL

\* UVPipe keeps the promise of HandleLife: connect() and attachIPC() owe the object
\* to libuv only when a holder calls them, in any state of the handle, and only
\* pipe_close_cb ends the debt.
THEOREM ImplementsHandleLife == Spec => KeepsLife
<1>1. IInv /\ [Next]_vars => [Tcp!Life!Next]_Tcp!Life!vars
  <2> SUFFICES ASSUME IInv, [Next]_vars PROVE [Tcp!Life!Next]_Tcp!Life!vars
    OBVIOUS
  <2>1. IInv' /\ OneHandle
    BY NextStep
  <2>2. CASE UNCHANGED <<pipe, frame>>
    BY <2>2 DEF Tcp!Life!vars, Tcp!Pinned
  <2>3. ASSUME NEW h \in Handles, Tcp!OneStep(h) PROVE [Tcp!Life!Next]_Tcp!Life!vars
    BY <2>1, <2>3, Tcp!LifeStepMaps DEF IInv, Tcp!OneStep
  <2> QED
    BY <2>1, <2>2, <2>3 DEF OneHandle
<1>2. Spec => Tcp!Life!Init
  BY InitInv DEF Spec
<1>3. Spec => [][Tcp!Life!Next]_Tcp!Life!vars
  BY <1>1, Invariance, PTL DEF Spec
<1>4. Spec => Tcp!KeepsLife
  BY <1>2, <1>3 DEF Tcp!KeepsLife, Tcp!Life!Spec
<1> QED
  BY <1>4, SameLife DEF KeepsLife

=============================================================================
