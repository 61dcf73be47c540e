---------------------------- MODULE UVTcp_proofs ----------------------------
(***************************************************************************)
(* Safety of UVTcp for every set of handles, every set of closures and     *)
(* every bound.  The invariant is a predicate of one resource and of the   *)
(* number of references the running callback holds to it (RInv), so that a *)
(* step is examined on the one resource it changes.  The second half shows *)
(* that UVTcp implements HandleLife.                                       *)
(***************************************************************************)
EXTENDS UVTcp, Integers, TLAPS

----------------------------------------------------------------------------
(* The inductive invariant.                                                 *)

\* Every reference to a living object is accounted for: n of them are held from
\* elsewhere than the script, the pin and the slots (here by the callback).
Accounted(r, n) ==
    /\ r \in Resources
    /\ n \in Nat
    /\ r.obj = "live"
    /\ r.rc > 0
    /\ r.rc = r.script + n + PinRef(r) + Captures(r.slot)

\* libuv holds a pointer it will certainly follow.
Owing(r) == r.uv \in {"listening", "connecting"} \/ r.conn \/ r.shut = "pending"

\* What the flags and the slots say of libuv's view of the handle.
Coherent(r) ==
    /\ r.uv # "aborted"
    /\ "CLOSING_START" \in r.flag <=> r.uv \in {"closing", "closed"}
    /\ Owing(r) => Pinned(r)
    /\ r.uv = "closed" => ~r.conn
    /\ r.obj = "live" /\ (r.uv = "listening" \/ r.conn) => "HANDLE_START" \in r.flag
    /\ r.slot.error # "null" /\ r.uv # "closed" => Pinned(r)
    /\ r.uv = "listening" \/ r.conn => r.slot.connect # "borrowed"
    /\ r.slot.error # "borrowed"
    /\ r.slot.shutdown # "borrowed"

Absent(r, n) ==
    r \in Resources /\ r.obj # "live" /\ r.script = 0 /\ n = 0 /\ ~Pinned(r)

RInv(r, n) == (Accounted(r, n) \/ Absent(r, n)) /\ Coherent(r)

IInv ==
    /\ tcp \in [Handles -> Resources]
    /\ frame \in Frames
    /\ \A h \in Handles : RInv(tcp[h], FrameRef(h))
    /\ frame.kind = "error" => Pinned(tcp[frame.h])

----------------------------------------------------------------------------
(* What the helpers of the C code do to one resource.                       *)

\* The closures in a handle's own slots hold a natural number of references.
LEMMA CapturesNat == ASSUME NEW s \in Slots PROVE Captures(s) \in Nat
BY DEF Captures, Ref

LEMMA CapturesNoSlots == Captures(NoSlots) = 0 /\ NoSlots \in Slots
BY DEF Captures, Ref, NoSlots, Slots, SlotValues

\* q differs from r in its count, flags and slots at most.
SameUv(q, r) ==
    /\ q.obj = r.obj /\ q.script = r.script
    /\ q.uv = r.uv /\ q.conn = r.conn /\ q.shut = r.shut

\* Replacing the closures of the slots keeps the count exact, and nothing else
\* of the resource changes.
LEMMA SetSlotsAccounted ==
    ASSUME NEW r, NEW n, NEW s \in Slots, Accounted(r, n), r.script + n > 0
    PROVE  /\ Accounted(SetSlots(r, s), n)
           /\ SameUv(SetSlots(r, s), r)
           /\ SetSlots(r, s).slot = s /\ SetSlots(r, s).flag = r.flag
<1>1. r \in Resources /\ r.rc \in Nat /\ r.script \in Nat /\ r.slot \in Slots
  BY DEF Accounted, Resources
<1>2. Captures(r.slot) \in Nat /\ Captures(s) \in Nat
  BY <1>1, CapturesNat
<1>3. PinRef(r) \in {0, 1} /\ n \in Nat
  BY DEF PinRef, Accounted
<1> DEFINE c == (r.rc + Captures(s)) - Captures(r.slot)
<1>4. SetSlots(r, s) = [r EXCEPT !.slot = s, !.rc = c]
  BY <1>1 DEF SetSlots, Resources
<1>5. c = r.script + n + PinRef(r) + Captures(s) /\ c \in Nat
  BY <1>1, <1>2, <1>3 DEF Accounted
<1> HIDE DEF c
<1>6. c > 0
  BY <1>1, <1>2, <1>3, <1>5
<1> DEFINE q == [r EXCEPT !.slot = s, !.rc = c]
<1>7. q \in Resources /\ q.slot = s /\ q.rc = c /\ q.flag = r.flag /\ SameUv(q, r)
  BY <1>1, <1>5 DEF Resources, SameUv
<1> HIDE DEF q
<1>8. PinRef(q) = PinRef(r)
  BY <1>7 DEF PinRef, Pinned
<1>9. Accounted(q, n)
  BY <1>5, <1>6, <1>7, <1>8 DEF Accounted, SameUv
<1> QED
  BY <1>4, <1>7, <1>9 DEF q

\* setSelfReference takes exactly one reference, however often it is called.
LEMMA SelfReferenceAccounted ==
    ASSUME NEW r, NEW n, Accounted(r, n)
    PROVE  /\ Accounted(SetSelfReference(r), n)
           /\ SameUv(SetSelfReference(r), r)
           /\ SetSelfReference(r).slot = r.slot
           /\ SetSelfReference(r).flag = r.flag \cup {"INTERNAL_REF"}
<1>1. r \in Resources /\ r.rc \in Nat /\ r.script \in Nat /\ r.slot \in Slots
  BY DEF Accounted, Resources
<1>2. Captures(r.slot) \in Nat
  BY <1>1, CapturesNat
<1>3. CASE Pinned(r)
  BY <1>1, <1>3 DEF SetSelfReference, Pinned, SameUv
<1>4. CASE ~Pinned(r)
  <2>1. SetSelfReference(r) = [r EXCEPT !.rc = r.rc + 1, !.flag = @ \cup {"INTERNAL_REF"}]
    BY <1>1, <1>4 DEF SetSelfReference, Resources
  <2>2. SetSelfReference(r) \in Resources
    <3>1. r.rc + 1 \in Nat /\ r.flag \cup {"INTERNAL_REF"} \in SUBSET Flags
      BY <1>1 DEF Resources, Flags
    <3> QED
      BY <1>1, <2>1, <3>1 DEF Resources
  <2>3. PinRef(r) = 0 /\ PinRef(SetSelfReference(r)) = 1
    BY <1>1, <1>4, <2>1 DEF PinRef, Pinned, Resources
  <2> QED
    BY <1>1, <1>2, <2>1, <2>2, <2>3 DEF Accounted, Resources, SameUv
<1> QED
  BY <1>3, <1>4

\* freeUVTcpResource leaves a resource nothing refers to, and libuv's view of
\* the handle as it was, but for the reads it stops.
LEMMA FreeAbsent ==
    ASSUME NEW r \in Resources
    PROVE  /\ Absent(Free(r), 0)
           /\ Free(r).obj = "freed" /\ Free(r).slot = NoSlots
           /\ Free(r).flag = r.flag \ {"READ_START", "HANDLE_START", "INTERNAL_REF"}
           /\ Free(r).uv = r.uv /\ Free(r).conn = r.conn /\ Free(r).shut = r.shut
<1>1. Unregister(r) \in Resources
  BY DEF Unregister, Resources, Flags
<1>2. /\ Unregister(r).flag = r.flag \ {"READ_START", "HANDLE_START"}
      /\ Unregister(r).uv = r.uv /\ Unregister(r).conn = r.conn /\ Unregister(r).shut = r.shut
  BY DEF Unregister, Resources
<1>3. Free(r) \in Resources
  BY <1>1, CapturesNoSlots DEF Free, Resources, Flags
<1> QED
  BY <1>1, <1>2, <1>3 DEF Free, Absent, Resources, Pinned

\* Freeing a resource that is not pinned breaks no promise made to libuv.
LEMMA FreeInv ==
    ASSUME NEW r \in Resources, Coherent(r), ~Pinned(r)
    PROVE  RInv(Free(r), 0)
<1>1. "CLOSING_START" \in Free(r).flag <=> "CLOSING_START" \in r.flag
  BY FreeAbsent
<1>2. ~Owing(r) /\ ~Owing(Free(r))
  BY FreeAbsent DEF Coherent, Owing
<1> QED
  BY <1>1, <1>2, FreeAbsent DEF RInv, Coherent, NoSlots, Owing

----------------------------------------------------------------------------
(* A step changes one resource: it is enough to look at that one.           *)

\* A call that leaves the running callback alone.
LEMMA UpdateInv ==
    ASSUME IInv, NEW h \in Handles, NEW q,
           RInv(q, FrameRef(h)),
           frame.kind = "error" /\ frame.h = h => Pinned(q),
           Update(h, q)
    PROVE  IInv'
<1>1. q \in Resources
  BY DEF RInv, Accounted, Absent
<1>2. tcp' = [tcp EXCEPT ![h] = q] /\ frame' = frame
  BY DEF Update
<1>3. tcp' \in [Handles -> Resources] /\ frame' \in Frames
  BY <1>1, <1>2 DEF IInv
<1>4. ASSUME NEW g \in Handles PROVE RInv(tcp'[g], FrameRef(g))
  BY <1>2 DEF IInv
<1>5. \A g \in Handles : RInv(tcp[g], FrameRef(g))'
  BY <1>2, <1>4 DEF FrameRef
<1>6. frame.kind = "error" => frame.h \in Handles
  BY DEF IInv, Frames, Idle
<1>7. frame'.kind = "error" => Pinned(tcp'[frame'.h])
  BY <1>2, <1>6 DEF IInv
<1> QED
  BY <1>3, <1>5, <1>7 DEF IInv

\* No pin is dropped.
PinsKept == \A g \in Handles : Pinned(tcp[g]) => Pinned(tcp'[g])

LEMMA StepInv ==
    ASSUME IInv, NEW h \in Handles, NEW q,
           RInv(q, FrameRef(h)),
           Pinned(tcp[h]) => Pinned(q),
           Update(h, q)
    PROVE  IInv' /\ PinsKept
<1>1. frame.kind = "error" /\ frame.h = h => Pinned(q)
  BY DEF IInv
<1>2. PinsKept
  BY DEF PinsKept, Update, IInv
<1> QED
  BY <1>1, <1>2, UpdateInv

\* An event of the loop that may start a callback of the script.
LEMMA DeliverInv ==
    ASSUME IInv, NEW h \in Handles, NEW q, NEW kind \in Callbacks, NEW why \in Whys,
           frame = Idle,
           Accounted(q, 0), Coherent(q),
           Pinned(tcp[h]) => Pinned(q),
           kind = "error" /\ q.slot.error # "null" => Pinned(q),
           Deliver(h, kind, why, q)
    PROVE  IInv' /\ PinsKept
<1>1. q \in Resources /\ q.rc \in Nat
  BY DEF Accounted, Resources
<1>2. \A g \in Handles : FrameRef(g) = 0
  BY HandlesAssumption DEF FrameRef, Idle
<1>3. CASE q.slot[kind] = "null"
  <2>1. Update(h, q)
    BY <1>3 DEF Deliver, Update
  <2> QED
    BY <1>2, <2>1, StepInv DEF RInv
<1>4. CASE q.slot[kind] # "null"
  <2> DEFINE p == [q EXCEPT !.rc = @ + 1]
  <2>1. tcp' = [tcp EXCEPT ![h] = p] /\ frame' = [kind |-> kind, h |-> h, why |-> why]
    BY <1>4 DEF Deliver
  <2>2. p \in Resources /\ SameUv(p, q) /\ p.slot = q.slot /\ p.flag = q.flag
    BY <1>1 DEF Resources, SameUv
  <2>3. p.rc = q.rc + 1
    BY <1>1 DEF Resources
  <2> HIDE DEF p
  <2>4. Accounted(p, 1)
    <3>1. q.script \in Nat /\ Captures(q.slot) \in Nat /\ PinRef(q) \in {0, 1}
      BY <1>1, CapturesNat DEF Resources, PinRef
    <3>2. PinRef(p) = PinRef(q)
      BY <2>2 DEF PinRef, Pinned
    <3> QED
      BY <1>1, <2>2, <2>3, <3>1, <3>2 DEF Accounted, SameUv
  <2>5. Coherent(p)
    BY <2>2 DEF Coherent, SameUv, Owing, Pinned
  <2>6. \A g \in Handles : RInv(tcp[g], FrameRef(g))'
    <3> SUFFICES ASSUME NEW g \in Handles PROVE RInv(tcp'[g], FrameRef(g)')
      OBVIOUS
    <3>1. CASE g = h
      BY <2>1, <2>4, <2>5, <3>1 DEF RInv, FrameRef, IInv
    <3>2. CASE g # h
      BY <1>2, <2>1, <3>2 DEF FrameRef, IInv
    <3> QED
      BY <3>1, <3>2
  <2>7. tcp' \in [Handles -> Resources] /\ frame' \in Frames
    BY <2>1, <2>2 DEF IInv, Frames
  <2>8. frame'.kind = "error" => Pinned(tcp'[frame'.h])
    BY <1>4, <2>1, <2>2 DEF IInv, Pinned
  <2>9. PinsKept
    BY <2>1, <2>2 DEF PinsKept, IInv, Pinned
  <2> QED
    BY <2>6, <2>7, <2>8, <2>9 DEF IInv
<1> QED
  BY <1>3, <1>4

\* A method runs on an object the script or the running callback refers to.
LEMMA CallReady ==
    ASSUME IInv, NEW h \in Handles, CanCall(h)
    PROVE  /\ Accounted(tcp[h], FrameRef(h)) /\ Coherent(tcp[h])
           /\ tcp[h] \in Resources /\ tcp[h].slot \in Slots
           /\ tcp[h].script + FrameRef(h) > 0
           /\ frame.kind = "error" /\ frame.h = h => Pinned(tcp[h])
<1>1. Accounted(tcp[h], FrameRef(h)) /\ Coherent(tcp[h])
  BY DEF IInv, RInv, Absent, CanCall
<1>2. tcp[h] \in Resources /\ tcp[h].slot \in Slots /\ tcp[h].script \in Nat
  BY <1>1 DEF Accounted, Resources
<1>3. tcp[h].script + FrameRef(h) > 0
  BY <1>2 DEF CanCall, FrameRef
<1> QED
  BY <1>1, <1>2, <1>3 DEF IInv

\* A loop event is delivered to a live object that no callback refers to.
LEMMA EventReady ==
    ASSUME IInv, NEW h \in Handles, LoopTurn(h)
    PROVE  /\ Accounted(tcp[h], 0) /\ Coherent(tcp[h])
           /\ tcp[h] \in Resources /\ tcp[h].slot \in Slots
           /\ FrameRef(h) = 0 /\ frame.kind # "error"
<1>1. FrameRef(h) = 0 /\ frame.kind # "error"
  BY HandlesAssumption DEF LoopTurn, FrameRef, Idle
<1>2. Accounted(tcp[h], 0) /\ Coherent(tcp[h])
  BY <1>1 DEF IInv, RInv, Absent, LoopTurn
<1> QED
  BY <1>1, <1>2 DEF Accounted, Resources

\* Storing closures keeps the promises, when a libuv that may still call the
\* connect slot finds a closure the handle owns.
LEMMA SetSlotsCoherent ==
    ASSUME NEW r, NEW n, NEW s \in Slots,
           Accounted(r, n), Coherent(r), r.script + n > 0,
           s.error # "borrowed", s.shutdown # "borrowed",
           s.error # "null" => s.error = r.slot.error,
           r.uv = "listening" \/ r.conn => s.connect # "borrowed"
    PROVE  Accounted(SetSlots(r, s), n) /\ Coherent(SetSlots(r, s))
BY SetSlotsAccounted DEF Coherent, SameUv, Owing, Pinned

LEMMA SetConnectInv ==
    ASSUME NEW r, NEW n, Accounted(r, n), Coherent(r), r.script + n > 0,
           NEW f \in SlotValues,
           r.uv = "listening" \/ r.conn => f # "borrowed"
    PROVE  /\ Accounted(SetConnect(r, f), n) /\ Coherent(SetConnect(r, f))
           /\ SameUv(SetConnect(r, f), r) /\ SetConnect(r, f).flag = r.flag
           /\ SetConnect(r, f).slot.connect = f
<1> DEFINE s == [r.slot EXCEPT !.connect = f]
<1>1. r.slot \in Slots
  BY DEF Accounted, Resources
<1>2. s \in Slots /\ s.connect = f /\ s.error = r.slot.error /\ s.shutdown = r.slot.shutdown
  BY <1>1 DEF Slots
<1>3. SetConnect(r, f) = SetSlots(r, s)
  BY DEF SetConnect
<1>4. s.error # "borrowed" /\ s.shutdown # "borrowed"
  BY <1>2 DEF Coherent
<1> HIDE DEF s
<1> QED
  BY <1>2, <1>3, <1>4, SetSlotsCoherent, SetSlotsAccounted

LEMMA SetShutdownInv ==
    ASSUME NEW r, NEW n, Accounted(r, n), Coherent(r), r.script + n > 0,
           NEW f \in SlotValues \ {"borrowed"}
    PROVE  /\ Accounted(SetShutdown(r, f), n) /\ Coherent(SetShutdown(r, f))
           /\ SameUv(SetShutdown(r, f), r) /\ SetShutdown(r, f).flag = r.flag
<1> DEFINE s == [r.slot EXCEPT !.shutdown = f]
<1>1. r.slot \in Slots
  BY DEF Accounted, Resources
<1>2. s \in Slots /\ s.connect = r.slot.connect /\ s.error = r.slot.error /\ s.shutdown = f
  BY <1>1 DEF Slots
<1>3. SetShutdown(r, f) = SetSlots(r, s)
  BY DEF SetShutdown
<1>4. s.error # "borrowed" /\ (r.uv = "listening" \/ r.conn => s.connect # "borrowed")
  BY <1>2 DEF Coherent
<1> HIDE DEF s
<1> QED
  BY <1>2, <1>3, <1>4, SetSlotsCoherent, SetSlotsAccounted

\* tcp_close_socket closes at most once, and then lets libuv forget the
\* connections it kept; the answers it owes remain.
LEMMA TcpCloseSocketInv ==
    ASSUME NEW r, NEW n, Accounted(r, n), Coherent(r)
    PROVE  /\ Accounted(TcpCloseSocket(r), n) /\ Coherent(TcpCloseSocket(r))
           /\ Pinned(TcpCloseSocket(r)) <=> Pinned(r)
<1>1. CASE "CLOSING_START" \in r.flag
  BY <1>1 DEF TcpCloseSocket
<1>2. CASE "CLOSING_START" \notin r.flag
  <2> DEFINE q == TcpCloseSocket(r)
  <2>1. r \in Resources /\ r.uv \notin {"closing", "closed"}
    BY <1>2 DEF Accounted, Coherent
  <2>2. /\ q.obj = r.obj /\ q.rc = r.rc /\ q.script = r.script /\ q.slot = r.slot
        /\ q.conn = r.conn /\ q.shut = r.shut /\ q.uv = "closing"
        /\ q.flag = r.flag \cup {"CLOSING_START"}
    BY <1>2, <2>1 DEF TcpCloseSocket, UvClose, Resources
  <2>3. q \in Resources
    <3>1. r.flag \cup {"CLOSING_START"} \in SUBSET Flags
      BY <2>1 DEF Resources, Flags
    <3> QED
      BY <1>2, <2>1, <3>1 DEF TcpCloseSocket, UvClose, Resources, UvStates
  <2> HIDE DEF q
  <2>4. Pinned(q) <=> Pinned(r)
    BY <2>2 DEF Pinned
  <2>5. Accounted(q, n)
    BY <2>2, <2>3, <2>4 DEF Accounted, PinRef
  <2>6. Coherent(q)
    BY <2>2, <2>4, <2>1 DEF Coherent, Owing
  <2> QED
    BY <2>4, <2>5, <2>6 DEF q
<1> QED
  BY <1>1, <1>2

\* Giving up one reference: the object is freed only if it was the last.
LEMMA DerefInv ==
    ASSUME NEW r \in Resources, NEW n \in Nat, Coherent(r), r.obj = "live", r.rc > 0,
           r.rc = r.script + n + PinRef(r) + Captures(r.slot) + 1
    PROVE  /\ Pinned(r) \/ n > 0 => r.rc # 1
           /\ RInv(Deref(r), n)
           /\ Pinned(r) => Accounted(Deref(r), n) /\ Pinned(Deref(r))
<1>1. r.rc \in Nat /\ r.script \in Nat /\ Captures(r.slot) \in Nat
  BY CapturesNat DEF Resources
<1>2. PinRef(r) \in {0, 1} /\ (Pinned(r) => PinRef(r) = 1)
  BY DEF PinRef
<1>3. Pinned(r) \/ n > 0 => r.rc # 1
  BY <1>1, <1>2
<1>4. CASE r.rc = 1
  <2>1. n = 0 /\ ~Pinned(r)
    BY <1>3, <1>4
  <2> QED
    BY <1>3, <1>4, <2>1, FreeInv DEF Deref
<1>5. CASE r.rc # 1
  <2> DEFINE q == [r EXCEPT !.rc = @ - 1]
  <2>1. q = Deref(r)
    BY <1>5 DEF Deref
  <2>2. r.rc - 1 \in Nat /\ r.rc - 1 > 0
    BY <1>1, <1>5
  <2>3. q \in Resources /\ SameUv(q, r) /\ q.flag = r.flag /\ q.slot = r.slot /\ q.rc = r.rc - 1
    BY <2>2 DEF Resources, SameUv
  <2> HIDE DEF q
  <2>4. PinRef(q) = PinRef(r) /\ (Pinned(q) <=> Pinned(r))
    BY <2>3 DEF PinRef, Pinned
  <2>5. Accounted(q, n)
    BY <1>1, <1>2, <2>2, <2>3, <2>4 DEF Accounted, SameUv
  <2>6. Coherent(q)
    BY <2>3, <2>4 DEF Coherent, SameUv, Owing
  <2> QED
    BY <1>3, <2>1, <2>4, <2>5, <2>6 DEF RInv
<1> QED
  BY <1>4, <1>5

----------------------------------------------------------------------------
(* The invariant is preserved by each action.                               *)

LEMMA InitInv == Init => IInv
<1> SUFFICES ASSUME Init PROVE IInv
  OBVIOUS
<1>1. Blank \in Resources
  BY CapturesNoSlots DEF Blank, Resources, UvStates
<1>2. Absent(Blank, 0) /\ Coherent(Blank)
  BY <1>1 DEF Absent, Coherent, Owing, Pinned, Blank, NoSlots
<1> QED
  BY <1>1, <1>2, HandlesAssumption DEF Init, IInv, RInv, FrameRef, Frames, Idle

LEMMA NewInv == ASSUME IInv, NEW h \in Handles, New(h) PROVE IInv' /\ PinsKept
<1>1. NewResource \in Resources /\ PinRef(NewResource) = 0
  BY CapturesNoSlots DEF NewResource, Blank, Resources, UvStates, PinRef, Pinned
<1>2. FrameRef(h) = 0
  BY DEF IInv, RInv, Accounted, Absent, New
<1>3. Accounted(NewResource, 0)
  BY <1>1, CapturesNoSlots DEF Accounted, NewResource, Blank
<1>4. Coherent(NewResource)
  BY DEF Coherent, Owing, NewResource, Blank, NoSlots, Pinned
<1>5. ~Pinned(tcp[h])
  BY DEF New, IInv, RInv, Accounted, Absent
<1> QED
  BY <1>2, <1>3, <1>4, <1>5, StepInv DEF New, RInv

\* The tail that listen() and connect() share: the object pins itself, the
\* handle is started.
LEMMA StartInv ==
    ASSUME NEW r, NEW n, Accounted(r, n), Coherent(r), r.slot.connect # "borrowed",
           r.uv \in {"init", "broken"},
           NEW q, q \in Resources, q.obj = r.obj, q.script = r.script, q.shut = r.shut,
           q.uv \in {"listening", "connecting"}, q.slot = r.slot,
           q.rc = SetSelfReference(r).rc,
           q.flag = SetSelfReference(r).flag \cup {"HANDLE_START"}
    PROVE  Accounted(q, n) /\ Coherent(q) /\ Pinned(q)
<1>1. Pinned(q) /\ Pinned(SetSelfReference(r))
  BY SelfReferenceAccounted DEF Pinned
<1>2. Accounted(q, n)
  BY <1>1, SelfReferenceAccounted DEF Accounted, PinRef, SameUv
<1>3. q.flag = r.flag \cup {"INTERNAL_REF", "HANDLE_START"}
  BY SelfReferenceAccounted
<1>4. Coherent(q)
  BY <1>1, <1>3 DEF Coherent
<1> QED
  BY <1>1, <1>2, <1>4

LEMMA ListenInv == ASSUME IInv, NEW h \in Handles, Listen(h) PROVE IInv' /\ PinsKept
<1> DEFINE r == tcp[h]
           n == FrameRef(h)
<1>1. /\ Accounted(r, n) /\ Coherent(r) /\ r \in Resources /\ r.script + n > 0
      /\ frame.kind = "error" /\ frame.h = h => Pinned(r)
      /\ "HANDLE_START" \notin r.flag /\ TryListen(h)
  BY CallReady DEF Listen
<1>2. ~(r.uv = "listening" \/ r.conn)
  BY <1>1 DEF Coherent, Accounted
<1>3. ASSUME NEW f \in {"null", "borrowed"}, Update(h, SetConnect(r, f)) PROVE IInv' /\ PinsKept
  <2>1. f \in SlotValues
    BY DEF SlotValues
  <2> QED
    BY <1>1, <1>2, <1>3, <2>1, SetConnectInv, StepInv DEF RInv, Pinned
<1>4. ASSUME NEW f \in Closures, r.uv = "init",
             Update(h, [SetSelfReference(SetConnect(r, f)) EXCEPT
                           !.uv = "listening", !.flag = @ \cup {"HANDLE_START"}])
      PROVE  IInv' /\ PinsKept
  <2> DEFINE c == SetConnect(r, f)
             b == SetSelfReference(c)
             q == [b EXCEPT !.uv = "listening", !.flag = @ \cup {"HANDLE_START"}]
  <2>1. f \in SlotValues /\ f # "borrowed"
    BY ClosuresAssumption DEF SlotValues
  <2>2. /\ Accounted(c, n) /\ Coherent(c) /\ c.slot.connect = f /\ c.uv = "init"
        /\ c.flag = r.flag
    BY <1>1, <1>4, <2>1, SetConnectInv DEF SameUv
  <2> HIDE DEF c
  <2>3. Accounted(b, n) /\ SameUv(b, c) /\ b.slot = c.slot /\ b \in Resources
    BY <2>2, SelfReferenceAccounted DEF Accounted
  <2> HIDE DEF b
  <2>4. b.flag \cup {"HANDLE_START"} \in SUBSET Flags
    BY <2>3 DEF Resources, Flags
  <2>5. q \in Resources
    BY <2>3, <2>4 DEF Resources, UvStates
  <2>6. /\ q.uv = "listening" /\ q.slot = c.slot /\ q.rc = b.rc
        /\ q.flag = b.flag \cup {"HANDLE_START"}
        /\ q.obj = c.obj /\ q.script = c.script /\ q.conn = c.conn /\ q.shut = c.shut
    BY <2>3 DEF Resources, SameUv
  <2> HIDE DEF q
  <2>7. Accounted(q, n) /\ Coherent(q) /\ Pinned(q)
    BY <2>1, <2>2, <2>5, <2>6, StartInv DEF b
  <2> QED
    BY <1>4, <2>7, StepInv DEF RInv, q, b, c
<1> QED
  BY <1>1, <1>3, <1>4 DEF TryListen

LEMMA ConnectInv == ASSUME IInv, NEW h \in Handles, Connect(h) PROVE IInv' /\ PinsKept
<1> DEFINE r == tcp[h]
           n == FrameRef(h)
<1>1. /\ Accounted(r, n) /\ Coherent(r) /\ r \in Resources /\ r.script + n > 0
      /\ frame.kind = "error" /\ frame.h = h => Pinned(r)
  BY CallReady DEF Connect
<1>2. ASSUME Update(h, SetConnect(r, "null")) PROVE IInv' /\ PinsKept
  BY <1>1, <1>2, SetConnectInv, StepInv DEF RInv, Pinned, SlotValues
<1>3. ASSUME NEW f \in Closures, r.uv \in {"init", "broken"},
             Update(h, [SetSelfReference(SetConnect(r, f)) EXCEPT
                           !.uv = "connecting", !.conn = TRUE,
                           !.flag = @ \cup {"HANDLE_START"}])
      PROVE  IInv' /\ PinsKept
  <2> DEFINE c == SetConnect(r, f)
             b == SetSelfReference(c)
             q == [b EXCEPT !.uv = "connecting", !.conn = TRUE,
                            !.flag = @ \cup {"HANDLE_START"}]
  <2>1. f \in SlotValues /\ f # "borrowed"
    BY ClosuresAssumption DEF SlotValues
  <2>2. /\ Accounted(c, n) /\ Coherent(c) /\ c.slot.connect = f /\ c.uv = r.uv
        /\ c.flag = r.flag
    BY <1>1, <1>3, <2>1, SetConnectInv DEF SameUv
  <2> HIDE DEF c
  <2>3. Accounted(b, n) /\ SameUv(b, c) /\ b.slot = c.slot /\ b \in Resources
    BY <2>2, SelfReferenceAccounted DEF Accounted
  <2> HIDE DEF b
  <2>4. b.flag \cup {"HANDLE_START"} \in SUBSET Flags
    BY <2>3 DEF Resources, Flags
  <2>5. q \in Resources
    BY <2>3, <2>4 DEF Resources, UvStates
  <2>6. /\ q.uv = "connecting" /\ q.slot = c.slot /\ q.rc = b.rc
        /\ q.flag = b.flag \cup {"HANDLE_START"}
        /\ q.obj = c.obj /\ q.script = c.script /\ q.shut = c.shut
    BY <2>3 DEF Resources, SameUv
  <2> HIDE DEF q
  <2>7. Accounted(q, n) /\ Coherent(q) /\ Pinned(q)
    BY <1>3, <2>1, <2>2, <2>5, <2>6, StartInv DEF b
  <2> QED
    BY <1>3, <2>7, StepInv DEF RInv, q, b, c
<1> QED
  BY <1>2, <1>3 DEF Connect

LEMMA SetCallbackInv == ASSUME IInv, NEW h \in Handles, SetCallback(h) PROVE IInv' /\ PinsKept
<1> DEFINE r == tcp[h]
           n == FrameRef(h)
<1>1. /\ Accounted(r, n) /\ Coherent(r) /\ r.slot \in Slots /\ r.script + n > 0
      /\ frame.kind = "error" /\ frame.h = h => Pinned(r)
  BY CallReady DEF SetCallback
<1>2. ASSUME NEW f \in {"null", "borrowed"}, NEW g \in {"null", "borrowed"},
             Update(h, SetReadWriteError(r, f, g, "null"))
      PROVE  IInv' /\ PinsKept
  <2> DEFINE s == [r.slot EXCEPT !.read = f, !.write = g, !.error = "null"]
  <2>1. /\ s \in Slots /\ s.error = "null"
        /\ s.connect = r.slot.connect /\ s.shutdown = r.slot.shutdown
    BY <1>1 DEF Slots, SlotValues
  <2>2. SetReadWriteError(r, f, g, "null") = SetSlots(r, s)
    BY DEF SetReadWriteError
  <2> HIDE DEF s
  <2>3. /\ Accounted(SetSlots(r, s), n) /\ Coherent(SetSlots(r, s))
        /\ SetSlots(r, s).flag = r.flag
    BY <1>1, <2>1, SetSlotsCoherent, SetSlotsAccounted DEF Coherent
  <2> QED
    BY <1>1, <1>2, <2>2, <2>3, StepInv DEF RInv, Pinned
<1>3. ASSUME NEW f \in Closures, NEW g \in Closures, NEW e \in Closures,
             Update(h, SetSelfReference(SetReadWriteError(r, f, g, e)))
      PROVE  IInv' /\ PinsKept
  <2> DEFINE s == [r.slot EXCEPT !.read = f, !.write = g, !.error = e]
             c == SetSlots(r, s)
             q == SetSelfReference(c)
  <2>1. /\ s \in Slots /\ s.error # "borrowed"
        /\ s.connect = r.slot.connect /\ s.shutdown = r.slot.shutdown
    BY <1>1, ClosuresAssumption DEF Slots, SlotValues
  <2>2. SetReadWriteError(r, f, g, e) = c
    BY DEF SetReadWriteError
  <2> HIDE DEF s
  <2>3. Accounted(c, n) /\ SameUv(c, r) /\ c.slot = s /\ c.flag = r.flag
    BY <1>1, <2>1, SetSlotsAccounted
  <2> HIDE DEF c
  <2>4. /\ Accounted(q, n) /\ SameUv(q, c) /\ q.slot = s
        /\ q.flag = r.flag \cup {"INTERNAL_REF"}
    BY <2>3, SelfReferenceAccounted
  <2> HIDE DEF q
  <2>5. Coherent(q) /\ Pinned(q)
    BY <1>1, <2>1, <2>3, <2>4 DEF Coherent, Owing, SameUv, Pinned
  <2> QED
    BY <1>3, <2>2, <2>4, <2>5, StepInv DEF RInv, q
<1> QED
  <2>1. \A w \in {<<"null", "null">>, <<"borrowed", "null">>, <<"borrowed", "borrowed">>} :
           w[1] \in {"null", "borrowed"} /\ w[2] \in {"null", "borrowed"}
    OBVIOUS
  <2> QED
    BY <1>2, <1>3, <2>1 DEF SetCallback

LEMMA ShutdownInv == ASSUME IInv, NEW h \in Handles, Shutdown(h) PROVE IInv' /\ PinsKept
<1> DEFINE r == tcp[h]
           n == FrameRef(h)
<1>1. /\ Accounted(r, n) /\ Coherent(r) /\ r \in Resources /\ r.script + n > 0
      /\ frame.kind = "error" /\ frame.h = h => Pinned(r)
  BY CallReady DEF Shutdown
<1>2. \A f \in Closures \cup {"null"} : f \in SlotValues \ {"borrowed"}
  BY ClosuresAssumption DEF SlotValues
<1>3. ASSUME NEW f \in Closures \cup {"null"}, Update(h, SetShutdown(r, f)) PROVE IInv' /\ PinsKept
  BY <1>1, <1>2, <1>3, SetShutdownInv, StepInv DEF RInv, Pinned
<1>4. ASSUME NEW f \in Closures, Open(r), r.shut = "no",
             Update(h, SetSelfReference([SetShutdown(r, f) EXCEPT !.shut = "pending"]))
      PROVE  IInv' /\ PinsKept
  <2> DEFINE c == SetShutdown(r, f)
             b == [c EXCEPT !.shut = "pending"]
             q == SetSelfReference(b)
  <2>1. Accounted(c, n) /\ Coherent(c) /\ SameUv(c, r) /\ c \in Resources
    BY <1>1, <1>2, SetShutdownInv DEF Accounted
  <2> HIDE DEF c
  <2>2. b \in Resources /\ b.obj = c.obj /\ b.rc = c.rc /\ b.script = c.script /\ b.slot = c.slot
    BY <2>1 DEF Resources
  <2>3. b.flag = c.flag /\ b.uv = c.uv /\ b.conn = c.conn
    BY <2>1 DEF Resources
  <2> HIDE DEF b
  <2>4. Accounted(b, n)
    BY <2>1, <2>2, <2>3 DEF Accounted, PinRef, Pinned
  <2>5. /\ Accounted(q, n) /\ SameUv(q, b) /\ q.slot = b.slot
        /\ q.flag = b.flag \cup {"INTERNAL_REF"}
    BY <2>4, SelfReferenceAccounted
  <2> HIDE DEF q
  <2>6. Coherent(q) /\ Pinned(q)
    BY <2>1, <2>2, <2>3, <2>5 DEF Coherent, SameUv, Pinned
  <2> QED
    BY <1>4, <2>5, <2>6, StepInv DEF RInv, q, b, c
<1> QED
  BY <1>3, <1>4 DEF Shutdown

\* A call or an event that leaves the count, the slots, the pin and what
\* Coherent reads of libuv's view as they are.
LEMMA Unchanged ==
    ASSUME NEW r, NEW n, Accounted(r, n), Coherent(r),
           NEW q \in Resources, SameUv(q, r), q.rc = r.rc, q.slot = r.slot,
           \A x \in {"INTERNAL_REF", "HANDLE_START", "CLOSING_START"} :
               x \in q.flag <=> x \in r.flag
    PROVE  Accounted(q, n) /\ Coherent(q) /\ (Pinned(q) <=> Pinned(r))
<1>1. Pinned(q) <=> Pinned(r)
  BY DEF Pinned
<1>2. Accounted(q, n)
  BY <1>1 DEF Accounted, SameUv, PinRef
<1>3. Coherent(q)
  BY <1>1 DEF Coherent, SameUv, Owing
<1> QED
  BY <1>1, <1>2, <1>3

LEMMA WriteInv == ASSUME IInv, NEW h \in Handles, Write(h) PROVE IInv' /\ PinsKept
<1> DEFINE n == FrameRef(h)
           r == [tcp[h] EXCEPT !.flag = @ \cup {"WRITE_CALLBACK_ENABLE"}]
           q == [r EXCEPT !.writes = @ + 1]
<1>1. /\ Accounted(tcp[h], n) /\ Coherent(tcp[h]) /\ tcp[h] \in Resources
      /\ frame.kind = "error" /\ frame.h = h => Pinned(tcp[h])
  BY CallReady DEF Write
<1>2. tcp[h].flag \cup {"WRITE_CALLBACK_ENABLE"} \in SUBSET Flags
  BY <1>1 DEF Resources, Flags
<1>3. r \in Resources
  BY <1>1, <1>2 DEF Resources
<1>4. /\ SameUv(r, tcp[h]) /\ r.rc = tcp[h].rc /\ r.slot = tcp[h].slot
      /\ r.flag = tcp[h].flag \cup {"WRITE_CALLBACK_ENABLE"}
  BY <1>1 DEF Resources, SameUv
<1>5. Update(h, r) \/ Update(h, q)
  BY DEF Write
<1> HIDE DEF r
<1>6. /\ q \in Resources /\ SameUv(q, r) /\ q.rc = r.rc /\ q.slot = r.slot /\ q.flag = r.flag
  BY <1>3 DEF Resources, SameUv
<1> HIDE DEF q
<1>7. Accounted(r, n) /\ Coherent(r) /\ (Pinned(r) <=> Pinned(tcp[h]))
  BY <1>1, <1>3, <1>4, Unchanged
<1>8. Accounted(q, n) /\ Coherent(q) /\ (Pinned(q) <=> Pinned(tcp[h]))
  BY <1>6, <1>7, Unchanged
<1> QED
  BY <1>1, <1>5, <1>7, <1>8, StepInv DEF RInv

LEMMA CloseInv == ASSUME IInv, NEW h \in Handles, Close(h) PROVE IInv' /\ PinsKept
BY CallReady, TcpCloseSocketInv, StepInv DEF Close, RInv

\* getSockname, getSockport, getPeername and getPeerport.
LEMMA NamesInv ==
    ASSUME IInv, NEW h \in Handles, GetSockname(h) \/ GetPeername(h) PROVE IInv' /\ PinsKept
<1>1. PICK x \in {"sock", "peer"} : Update(h, [tcp[h] EXCEPT !.names = @ \cup {x}])
  BY DEF GetSockname, GetPeername
<1> DEFINE q == [tcp[h] EXCEPT !.names = @ \cup {x}]
<1>2. /\ Accounted(tcp[h], FrameRef(h)) /\ Coherent(tcp[h]) /\ tcp[h] \in Resources
      /\ frame.kind = "error" /\ frame.h = h => Pinned(tcp[h])
  BY CallReady DEF GetSockname, GetPeername
<1>3. tcp[h].names \cup {x} \in SUBSET {"sock", "peer"}
  BY <1>2 DEF Resources
<1>4. /\ q \in Resources /\ SameUv(q, tcp[h]) /\ q.rc = tcp[h].rc
      /\ q.slot = tcp[h].slot /\ q.flag = tcp[h].flag
  BY <1>2, <1>3 DEF Resources, SameUv
<1> HIDE DEF q
<1> QED
  BY <1>1, <1>2, <1>4, Unchanged, StepInv DEF RInv, q

LEMMA AcceptInv ==
    ASSUME IInv, NEW h \in Handles, NEW c \in Handles, Accept(h, c) PROVE IInv' /\ PinsKept
<1>1. tcp[c].obj = "none" /\ tcp[h].obj = "live" /\ frame' = frame
  BY DEF Accept, CanCall
<1>2. FrameRef(c) = 0 /\ FrameRef(c)' = 0 /\ FrameRef(h)' = FrameRef(h)
  BY <1>1 DEF IInv, RInv, Accounted, Absent, FrameRef
<1>3. NewResource \in Resources /\ AcceptedResource \in Resources
  BY CapturesNoSlots DEF AcceptedResource, NewResource, Blank, Resources, UvStates, Flags
<1>4. frame.kind = "error" => frame.h # c
  BY <1>2 DEF FrameRef
<1>5. ~Pinned(tcp[c])
  BY <1>1 DEF IInv, RInv, Accounted, Absent
<1>6. RInv(AcceptedResource, 0)
  <2>1. PinRef(AcceptedResource) = 0 /\ AcceptedResource.slot = NoSlots
    BY DEF PinRef, Pinned, AcceptedResource, NewResource, Blank
  <2>2. Accounted(AcceptedResource, 0)
    BY <1>3, <2>1, CapturesNoSlots DEF Accounted, AcceptedResource, NewResource, Blank
  <2>3. Coherent(AcceptedResource)
    BY DEF Coherent, Owing, Pinned, AcceptedResource, NewResource, Blank, NoSlots
  <2> QED
    BY <2>2, <2>3 DEF RInv
<1>7. RInv(Free(NewResource), 0)
  <2>1. Coherent(NewResource) /\ ~Pinned(NewResource)
    BY DEF Coherent, Owing, NewResource, Blank, NoSlots, Pinned
  <2> QED
    BY <1>3, <2>1, FreeInv
<1>8. ASSUME NEW q, NEW a, q = [tcp[h] EXCEPT !.pending = FALSE], RInv(a, 0),
             tcp' = [tcp EXCEPT ![h].pending = FALSE, ![c] = a]
      PROVE  IInv' /\ PinsKept
  <2>1. /\ Accounted(tcp[h], FrameRef(h)) /\ Coherent(tcp[h]) /\ tcp[h] \in Resources
        /\ frame.kind = "error" /\ frame.h = h => Pinned(tcp[h])
    BY CallReady DEF Accept
  <2>2. /\ q \in Resources /\ SameUv(q, tcp[h]) /\ q.rc = tcp[h].rc
        /\ q.slot = tcp[h].slot /\ q.flag = tcp[h].flag
    BY <1>8, <2>1 DEF Resources, SameUv
  <2>3. tcp' = [[tcp EXCEPT ![h] = q] EXCEPT ![c] = a] /\ a \in Resources
    BY <1>8 DEF IInv, RInv, Accounted, Absent
  <2>4. RInv(q, FrameRef(h)) /\ (Pinned(q) <=> Pinned(tcp[h]))
    BY <2>1, <2>2, Unchanged DEF RInv
  <2>5. h # c
    BY <1>1
  <2>6. ASSUME NEW g \in Handles PROVE RInv(tcp'[g], FrameRef(g)')
    <3>1. FrameRef(g)' = FrameRef(g)
      BY <1>1 DEF FrameRef
    <3> QED
      BY <1>2, <1>8, <2>3, <2>4, <2>5, <3>1 DEF IInv
  <2>7. tcp' \in [Handles -> Resources] /\ frame' \in Frames
    BY <1>1, <2>2, <2>3 DEF IInv
  <2>8. frame'.kind = "error" => Pinned(tcp'[frame'.h])
    <3>1. frame.kind = "error" => frame.h \in Handles
      BY DEF IInv, Frames, Idle
    <3> QED
      BY <1>1, <1>4, <2>1, <2>3, <2>4, <3>1 DEF IInv
  <2>9. PinsKept
    BY <1>5, <2>3, <2>4 DEF PinsKept, IInv
  <2> QED
    BY <2>6, <2>7, <2>8, <2>9 DEF IInv
<1> QED
  BY <1>6, <1>7, <1>8 DEF Accept

LEMMA KeepInv == ASSUME IInv, NEW h \in Handles, Keep(h) PROVE IInv' /\ PinsKept
<1> DEFINE r == tcp[h]
           q == [r EXCEPT !.rc = @ + 1, !.script = @ + 1]
<1>1. /\ Accounted(r, FrameRef(h)) /\ Coherent(r) /\ r \in Resources /\ r.slot \in Slots
      /\ frame.kind = "error" /\ frame.h = h => Pinned(r)
  BY CallReady DEF Keep
<1>2. /\ q \in Resources /\ q.rc = r.rc + 1 /\ q.script = r.script + 1 /\ q.obj = r.obj
      /\ q.slot = r.slot /\ q.flag = r.flag /\ q.uv = r.uv /\ q.conn = r.conn /\ q.shut = r.shut
  <2>1. r.rc + 1 \in Nat /\ r.script + 1 \in Nat
    BY <1>1 DEF Resources
  <2> QED
    BY <1>1, <2>1 DEF Resources
<1>3. Update(h, q)
  BY DEF Keep
<1> HIDE DEF q
<1>4. PinRef(q) = PinRef(r) /\ (Pinned(q) <=> Pinned(r)) /\ PinRef(r) \in {0, 1}
  BY <1>2 DEF PinRef, Pinned
<1>5. r.rc \in Nat /\ r.script \in Nat /\ Captures(r.slot) \in Nat
  BY <1>1, CapturesNat DEF Resources
<1>6. Accounted(q, FrameRef(h))
  BY <1>1, <1>2, <1>4, <1>5 DEF Accounted
<1>7. Coherent(q)
  BY <1>1, <1>2, <1>4 DEF Coherent, Owing
<1> QED
  BY <1>1, <1>3, <1>4, <1>6, <1>7, StepInv DEF RInv

LEMMA DropInv == ASSUME IInv, NEW h \in Handles, Drop(h) PROVE IInv' /\ PinsKept
<1> DEFINE r == tcp[h]
           q == [r EXCEPT !.script = @ - 1]
<1>1. Accounted(r, FrameRef(h)) /\ Coherent(r) /\ r \in Resources /\ r.script > 0
  BY DEF Drop, IInv, RInv, Absent
<1>2. r.script - 1 \in Nat
  BY <1>1 DEF Resources
<1>3. /\ q \in Resources /\ q.rc = r.rc /\ q.script = r.script - 1 /\ q.obj = r.obj
      /\ q.slot = r.slot /\ q.flag = r.flag /\ q.uv = r.uv /\ q.conn = r.conn /\ q.shut = r.shut
  BY <1>1, <1>2 DEF Resources
<1>4. Update(h, Deref(q))
  BY DEF Drop
<1> HIDE DEF q
<1>5. PinRef(q) = PinRef(r) /\ (Pinned(q) <=> Pinned(r)) /\ PinRef(r) \in {0, 1}
  BY <1>3 DEF PinRef, Pinned
<1>6. r.slot \in Slots /\ r.script \in Nat /\ r.rc \in Nat
  BY <1>1 DEF Resources
<1>7. q.rc = q.script + FrameRef(h) + PinRef(q) + Captures(q.slot) + 1
  BY <1>1, <1>2, <1>3, <1>5, <1>6, CapturesNat DEF Accounted
<1>8. Coherent(q) /\ q.obj = "live" /\ q.rc > 0 /\ FrameRef(h) \in Nat
  BY <1>1, <1>3, <1>5 DEF Coherent, Owing, Accounted
<1>9. RInv(Deref(q), FrameRef(h)) /\ (Pinned(q) => Pinned(Deref(q)))
  BY <1>3, <1>7, <1>8, DerefInv
<1>10. frame.kind = "error" /\ frame.h = h => Pinned(r)
  BY DEF IInv
<1> QED
  BY <1>4, <1>5, <1>9, <1>10, StepInv

\* The collector never takes a pinned object, nor the argument of the callback.
LEMMA CollectUnpinned ==
    ASSUME IInv, NEW h \in Handles, Collect(h)
    PROVE  ~Pinned(tcp[h]) /\ FrameRef(h) = 0
<1>1. Accounted(tcp[h], FrameRef(h)) /\ tcp[h] \in Resources /\ FrameRef(h) \in Nat
  BY DEF Collect, IInv, RInv, Absent, Accounted
<1>2. tcp[h].script \in Nat /\ Captures(tcp[h].slot) \in Nat
  BY <1>1, CapturesNat DEF Resources
<1>3. PinRef(tcp[h]) \in {0, 1}
  BY DEF PinRef
<1>4. PinRef(tcp[h]) = 0 /\ FrameRef(h) = 0
  BY <1>1, <1>2, <1>3 DEF Accounted, Collect
<1> QED
  BY <1>4 DEF PinRef

LEMMA CollectInv == ASSUME IInv, NEW h \in Handles, Collect(h) PROVE IInv' /\ PinsKept
<1>1. ~Pinned(tcp[h]) /\ FrameRef(h) = 0
  BY CollectUnpinned
<1>2. tcp[h] \in Resources /\ Coherent(tcp[h])
  BY DEF IInv, RInv
<1>3. RInv(Free(tcp[h]), 0)
  BY <1>1, <1>2, FreeInv
<1>4. frame.kind = "error" => frame.h # h
  BY <1>1 DEF FrameRef
<1> QED
  BY <1>1, <1>3, <1>4, StepInv DEF Collect

LEMMA ConnectionCbInv == ASSUME IInv, NEW h \in Handles, ConnectionCb(h) PROVE IInv' /\ PinsKept
<1> DEFINE q == [tcp[h] EXCEPT !.pending = TRUE]
<1>1. /\ Accounted(tcp[h], 0) /\ Coherent(tcp[h]) /\ tcp[h] \in Resources /\ frame = Idle
  BY EventReady DEF ConnectionCb, LoopTurn
<1>2. /\ q \in Resources /\ SameUv(q, tcp[h]) /\ q.rc = tcp[h].rc
      /\ q.slot = tcp[h].slot /\ q.flag = tcp[h].flag
  BY <1>1 DEF Resources, SameUv
<1>3. Deliver(h, "connect", "ok", q) \/ Deliver(h, "connect", "fail", tcp[h])
  BY DEF ConnectionCb
<1> HIDE DEF q
<1>4. Accounted(q, 0) /\ Coherent(q) /\ (Pinned(tcp[h]) => Pinned(q))
  BY <1>1, <1>2, Unchanged
<1>5. "connect" \in Callbacks /\ "ok" \in Whys /\ "fail" \in Whys
  BY DEF Callbacks, Whys
<1> QED
  BY <1>1, <1>3, <1>4, <1>5, DeliverInv

LEMMA ClientConnectionCbInv ==
    ASSUME IInv, NEW h \in Handles, ClientConnectionCb(h) PROVE IInv' /\ PinsKept
<1>1. /\ Accounted(tcp[h], 0) /\ Coherent(tcp[h]) /\ tcp[h] \in Resources /\ frame = Idle
      /\ FrameRef(h) = 0 /\ frame.kind # "error"
  BY EventReady DEF ClientConnectionCb, LoopTurn
<1>2. PICK why \in {"ok", "fail"} :
        LET r == [tcp[h] EXCEPT !.conn = FALSE,
                                !.uv = IF why = "ok" THEN "connected" ELSE "broken"]
        IN \/ Deliver(h, "connect", why,
                      [r EXCEPT !.reading = TRUE,
                                !.flag = @ \cup {"HANDLE_START", "READ_START"}])
           \/ why = "fail" /\ Update(h, r)
  BY DEF ClientConnectionCb
<1> DEFINE uv == IF why = "ok" THEN "connected" ELSE "broken"
           r == [tcp[h] EXCEPT !.conn = FALSE, !.uv = uv]
           q == [r EXCEPT !.reading = TRUE, !.flag = @ \cup {"HANDLE_START", "READ_START"}]
<1>3. Deliver(h, "connect", why, q) \/ Update(h, r)
  BY <1>2
<1>4. uv \in {"connected", "broken"} /\ tcp[h].uv = "connecting"
  BY DEF ClientConnectionCb
<1> HIDE DEF uv
<1>5. /\ r \in Resources /\ r.rc = tcp[h].rc /\ r.slot = tcp[h].slot /\ r.flag = tcp[h].flag
      /\ r.script = tcp[h].script /\ r.obj = tcp[h].obj /\ r.shut = tcp[h].shut
      /\ r.conn = FALSE /\ r.uv = uv
  BY <1>1, <1>4 DEF Resources, UvStates
<1>6. tcp[h].flag \cup {"HANDLE_START", "READ_START"} \in SUBSET Flags
  BY <1>1 DEF Resources, Flags
<1> HIDE DEF r
<1>7. /\ q \in Resources /\ q.rc = r.rc /\ q.slot = r.slot /\ SameUv(q, r)
      /\ q.flag = r.flag \cup {"HANDLE_START", "READ_START"}
  BY <1>5, <1>6 DEF Resources, SameUv
<1> HIDE DEF q
<1>8. Pinned(tcp[h]) /\ Pinned(r) /\ Pinned(q)
  BY <1>1, <1>4, <1>5, <1>7 DEF Coherent, Owing, Pinned
<1>9. Accounted(r, 0) /\ Accounted(q, 0)
  BY <1>1, <1>5, <1>7, <1>8 DEF Accounted, PinRef, SameUv
<1>10. Coherent(r) /\ Coherent(q)
  BY <1>1, <1>4, <1>5, <1>7, <1>8 DEF Coherent, SameUv
<1>11. "connect" \in Callbacks /\ why \in Whys
  BY DEF Callbacks, Whys
<1> QED
  BY <1>1, <1>3, <1>8, <1>9, <1>10, <1>11, DeliverInv, StepInv DEF RInv

LEMMA ReadDataInv == ASSUME IInv, NEW h \in Handles, ReadData(h) PROVE IInv' /\ PinsKept
<1>1. Accounted(tcp[h], 0) /\ Coherent(tcp[h]) /\ frame = Idle
  BY EventReady DEF ReadData, LoopTurn
<1>2. "read" \in Callbacks /\ "data" \in Whys
  BY DEF Callbacks, Whys
<1> QED
  BY <1>1, <1>2, DeliverInv DEF ReadData

\* The error callback is one that setCallback stored, so the object is pinned.
LEMMA ReadElseInv == ASSUME IInv, NEW h \in Handles, ReadElse(h) PROVE IInv' /\ PinsKept
<1> DEFINE q == IF tcp[h].slot.error = "null" THEN TcpCloseSocket(tcp[h]) ELSE tcp[h]
<1>1. Accounted(tcp[h], 0) /\ Coherent(tcp[h]) /\ frame = Idle
  BY EventReady DEF ReadElse, LoopTurn
<1>2. PICK why \in {"zero", "eof"} : Deliver(h, "error", why, q)
  BY DEF ReadElse
<1>3. Accounted(q, 0) /\ Coherent(q) /\ (Pinned(tcp[h]) => Pinned(q))
  BY <1>1, TcpCloseSocketInv
<1>4. q.slot.error # "null" => Pinned(q)
  <2>1. CASE tcp[h].slot.error = "null"
    <3>1. TcpCloseSocket(tcp[h]).slot = tcp[h].slot
      BY <1>1 DEF TcpCloseSocket, UvClose, Accounted, Resources
    <3> QED
      BY <2>1, <3>1
  <2>2. CASE tcp[h].slot.error # "null"
    BY <1>1, <2>2 DEF ReadElse, Coherent
  <2> QED
    BY <2>1, <2>2
<1>5. "error" \in Callbacks /\ why \in Whys
  BY DEF Callbacks, Whys
<1> HIDE DEF q
<1> QED
  BY <1>1, <1>2, <1>3, <1>4, <1>5, DeliverInv

LEMMA WriteCbInv == ASSUME IInv, NEW h \in Handles, WriteCb(h) PROVE IInv' /\ PinsKept
<1> DEFINE q == [tcp[h] EXCEPT !.writes = @ - 1]
<1>1. /\ Accounted(tcp[h], 0) /\ Coherent(tcp[h]) /\ tcp[h] \in Resources /\ frame = Idle
      /\ FrameRef(h) = 0 /\ frame.kind # "error"
  BY EventReady DEF WriteCb, LoopTurn
<1>2. tcp[h].writes - 1 \in Nat
  BY <1>1 DEF WriteCb, Resources
<1>3. /\ q \in Resources /\ SameUv(q, tcp[h]) /\ q.rc = tcp[h].rc
      /\ q.slot = tcp[h].slot /\ q.flag = tcp[h].flag
  BY <1>1, <1>2 DEF Resources, SameUv
<1>4. Deliver(h, "write", "ok", q) \/ Update(h, q)
  BY DEF WriteCb
<1> HIDE DEF q
<1>5. Accounted(q, 0) /\ Coherent(q) /\ (Pinned(tcp[h]) => Pinned(q))
  BY <1>1, <1>3, Unchanged
<1>6. "write" \in Callbacks /\ "ok" \in Whys
  BY DEF Callbacks, Whys
<1> QED
  BY <1>1, <1>4, <1>5, <1>6, DeliverInv, StepInv DEF RInv

LEMMA ShutdownCbInv == ASSUME IInv, NEW h \in Handles, ShutdownCb(h) PROVE IInv' /\ PinsKept
<1> DEFINE q == [tcp[h] EXCEPT !.shut = "done"]
<1>1. /\ Accounted(tcp[h], 0) /\ Coherent(tcp[h]) /\ tcp[h] \in Resources /\ frame = Idle
  BY EventReady DEF ShutdownCb, LoopTurn
<1>2. /\ q \in Resources /\ q.rc = tcp[h].rc /\ q.slot = tcp[h].slot /\ q.flag = tcp[h].flag
      /\ q.script = tcp[h].script /\ q.obj = tcp[h].obj /\ q.uv = tcp[h].uv
      /\ q.conn = tcp[h].conn /\ q.shut = "done"
  BY <1>1 DEF Resources
<1>3. Deliver(h, "shutdown", "ok", q)
  BY DEF ShutdownCb
<1> HIDE DEF q
<1>4. Accounted(q, 0)
  BY <1>1, <1>2 DEF Accounted, PinRef, Pinned
<1>5. Coherent(q) /\ (Pinned(tcp[h]) => Pinned(q))
  BY <1>1, <1>2 DEF Coherent, Owing, Pinned
<1>6. "shutdown" \in Callbacks /\ "ok" \in Whys
  BY DEF Callbacks, Whys
<1> QED
  BY <1>1, <1>3, <1>4, <1>5, <1>6, DeliverInv

LEMMA CancelConnectInv == ASSUME IInv, NEW h \in Handles, CancelConnect(h) PROVE IInv' /\ PinsKept
<1> DEFINE q == [tcp[h] EXCEPT !.conn = FALSE]
<1>1. /\ Accounted(tcp[h], 0) /\ Coherent(tcp[h]) /\ tcp[h] \in Resources
      /\ FrameRef(h) = 0 /\ frame.kind # "error"
  BY EventReady DEF CancelConnect
<1>2. /\ q \in Resources /\ q.rc = tcp[h].rc /\ q.slot = tcp[h].slot /\ q.flag = tcp[h].flag
      /\ q.script = tcp[h].script /\ q.obj = tcp[h].obj /\ q.uv = tcp[h].uv
      /\ q.conn = FALSE /\ q.shut = tcp[h].shut
  BY <1>1 DEF Resources
<1>3. Update(h, q)
  BY DEF CancelConnect
<1> HIDE DEF q
<1>4. Accounted(q, 0)
  BY <1>1, <1>2 DEF Accounted, PinRef, Pinned
<1>5. Coherent(q) /\ (Pinned(tcp[h]) => Pinned(q))
  BY <1>1, <1>2 DEF Coherent, Owing, Pinned
<1> QED
  BY <1>1, <1>3, <1>4, <1>5, StepInv DEF RInv

\* When tcp_close_cb runs libuv owes nothing any more: the pin can go.
LEMMA TcpCloseCbInv == ASSUME IInv, NEW h \in Handles, TcpCloseCb(h) PROVE IInv'
<1> DEFINE c == [tcp[h] EXCEPT !.uv = "closed"]
           u == Unregister(c)
           q == [u EXCEPT !.flag = @ \ {"INTERNAL_REF"}]
<1>1. /\ Accounted(tcp[h], 0) /\ Coherent(tcp[h]) /\ tcp[h] \in Resources
      /\ FrameRef(h) = 0 /\ frame.kind # "error"
  BY EventReady DEF TcpCloseCb
<1>2. tcp[h].uv = "closing" /\ ~tcp[h].conn /\ tcp[h].shut # "pending"
  BY DEF TcpCloseCb
<1>3. c \in Resources /\ c.uv = "closed" /\ c.rc = tcp[h].rc /\ c.slot = tcp[h].slot
  BY <1>1 DEF Resources, UvStates
<1>4. /\ c.flag = tcp[h].flag /\ c.script = tcp[h].script /\ c.obj = tcp[h].obj
      /\ c.conn = tcp[h].conn /\ c.shut = tcp[h].shut
  BY <1>1 DEF Resources
<1>5. Update(h, ReleaseResource(c))
  BY DEF TcpCloseCb
<1> HIDE DEF c
<1>6. /\ u \in Resources /\ SameUv(u, c) /\ u.rc = c.rc /\ u.slot = c.slot
      /\ u.flag = c.flag \ {"READ_START", "HANDLE_START"}
  BY <1>3 DEF Unregister, Resources, SameUv
<1>7. ReleaseResource(c) = IF Pinned(u) THEN Deref(q) ELSE u
  BY DEF ReleaseResource
<1> HIDE DEF u
<1>8. /\ q \in Resources /\ SameUv(q, u) /\ q.rc = u.rc /\ q.slot = u.slot
      /\ q.flag = u.flag \ {"INTERNAL_REF"}
  BY <1>6 DEF Resources, SameUv
<1> HIDE DEF q
<1>9. Coherent(u) /\ Coherent(q)
  BY <1>1, <1>2, <1>3, <1>4, <1>6, <1>8 DEF Coherent, Owing, SameUv
<1>10. Pinned(u) <=> Pinned(tcp[h])
  BY <1>4, <1>6 DEF Pinned
<1>11. CASE ~Pinned(u)
  <2>1. Accounted(u, 0)
    BY <1>1, <1>3, <1>4, <1>6, <1>10, <1>11 DEF Accounted, PinRef, SameUv
  <2> QED
    BY <1>1, <1>5, <1>7, <1>9, <1>11, <2>1, UpdateInv DEF RInv
<1>12. CASE Pinned(u)
  <2>1. PinRef(tcp[h]) = 1 /\ PinRef(q) = 0
    BY <1>8, <1>10, <1>12 DEF PinRef, Pinned
  <2>2. q.rc = q.script + 0 + PinRef(q) + Captures(q.slot) + 1
    <3>1. q.rc = tcp[h].rc /\ q.script = tcp[h].script /\ q.slot = tcp[h].slot
      BY <1>3, <1>4, <1>6, <1>8 DEF SameUv
    <3>2. tcp[h].script \in Nat /\ Captures(tcp[h].slot) \in Nat
      BY <1>1, CapturesNat DEF Resources
    <3> QED
      BY <1>1, <2>1, <3>1, <3>2 DEF Accounted
  <2>3. q.obj = "live" /\ q.rc > 0
    BY <1>1, <1>3, <1>4, <1>6, <1>8 DEF Accounted, SameUv
  <2>4. RInv(Deref(q), 0)
    BY <1>8, <1>9, <2>2, <2>3, DerefInv
  <2> QED
    BY <1>1, <1>5, <1>7, <1>12, <2>4, UpdateInv
<1> QED
  BY <1>11, <1>12

\* A callback returns: its argument goes, and the error branch of read_cb finds
\* the object alive, because the pin is still there.
LEMMA ReturnInv == ASSUME IInv, Return PROVE IInv' /\ PinsKept
<1> DEFINE h == frame.h
           r == tcp[h]
           d == Deref(r)
           q == IF frame.kind = "error" THEN TcpCloseSocket(d) ELSE d
<1>1. h \in Handles /\ FrameRef(h) = 1
  BY DEF IInv, Return, Frames, FrameRef
<1>2. Accounted(r, 1) /\ Coherent(r) /\ r \in Resources
  BY <1>1 DEF IInv, RInv, Absent, Accounted
<1>3. frame.kind = "error" => Pinned(r)
  BY DEF IInv
<1>4. tcp' = [tcp EXCEPT ![h] = q] /\ frame' = Idle
  BY DEF Return
<1>5. r.rc = r.script + 0 + PinRef(r) + Captures(r.slot) + 1 /\ r.obj = "live" /\ r.rc > 0
  <2>1. r.script \in Nat /\ Captures(r.slot) \in Nat /\ PinRef(r) \in {0, 1}
    BY <1>2, CapturesNat DEF Resources, PinRef
  <2> QED
    BY <1>2, <2>1 DEF Accounted
<1> HIDE DEF r
<1>6. RInv(d, 0) /\ (Pinned(r) => Accounted(d, 0))
  BY <1>2, <1>5, DerefInv
<1>7. Pinned(r) => Pinned(d)
  BY <1>2, <1>5, DerefInv
<1> HIDE DEF d
<1>8. RInv(q, 0) /\ (Pinned(r) => Pinned(q))
  BY <1>3, <1>6, <1>7, TcpCloseSocketInv DEF RInv
<1> HIDE DEF q
<1>9. \A g \in Handles : FrameRef(g)' = 0
  BY <1>4, HandlesAssumption DEF FrameRef, Idle
<1>10. \A g \in Handles : g # h => FrameRef(g) = 0
  BY DEF FrameRef
<1>11. \A g \in Handles : RInv(tcp'[g], FrameRef(g)')
  BY <1>4, <1>8, <1>9, <1>10 DEF IInv
<1>12. q \in Resources
  BY <1>8 DEF RInv, Accounted, Absent
<1>13. tcp' \in [Handles -> Resources] /\ frame' \in Frames /\ frame'.kind # "error"
  BY <1>4, <1>12 DEF IInv, Frames, Idle
<1>14. PinsKept
  BY <1>1, <1>4, <1>8 DEF PinsKept, IInv, r
<1> QED
  BY <1>11, <1>13, <1>14 DEF IInv

\* What libuv thinks of the handle is not changed by releaseResource.
LEMMA ReleaseKeepsUv ==
    ASSUME NEW r \in Resources PROVE ReleaseResource(r).uv = r.uv
<1> DEFINE u == Unregister(r)
           q == [u EXCEPT !.flag = @ \ {"INTERNAL_REF"}]
<1>1. u \in Resources /\ u.uv = r.uv
  BY DEF Unregister, Resources, Flags
<1>2. ReleaseResource(r) = IF Pinned(u) THEN Deref(q) ELSE u
  BY DEF ReleaseResource
<1> HIDE DEF u
<1>3. q \in Resources /\ q.uv = r.uv
  BY <1>1 DEF Resources
<1> HIDE DEF q
<1>4. Deref(q).uv = q.uv
  BY <1>3, FreeAbsent DEF Deref, Resources
<1> QED
  BY <1>1, <1>2, <1>3, <1>4

\* Every step preserves the invariant and, tcp_close_cb apart, every pin.
LEMMA NextStep ==
    ASSUME IInv, [Next]_vars
    PROVE  IInv' /\ (PinsKept \/ \E h \in Handles : TcpCloseCb(h))
<1>1. CASE Return
  BY <1>1, ReturnInv
<1>2. ASSUME NEW h \in Handles, ScriptCall(h) PROVE IInv' /\ PinsKept
  BY <1>2, NewInv, ListenInv, ConnectInv, SetCallbackInv, ShutdownInv, WriteInv, CloseInv,
     NamesInv, KeepInv, DropInv, AcceptInv DEF ScriptCall
<1>3. ASSUME NEW h \in Handles, Collect(h) PROVE IInv' /\ PinsKept
  BY <1>3, CollectInv
<1>4. ASSUME NEW h \in Handles, LoopEvent(h)
      PROVE  IInv' /\ (PinsKept \/ TcpCloseCb(h))
  BY <1>4, ConnectionCbInv, ClientConnectionCbInv, ReadDataInv, ReadElseInv, WriteCbInv,
     ShutdownCbInv, CancelConnectInv, TcpCloseCbInv DEF LoopEvent
<1>5. CASE UNCHANGED vars
  BY <1>5 DEF IInv, vars, FrameRef, PinsKept
<1> QED
  BY <1>1, <1>2, <1>3, <1>4, <1>5 DEF Next

----------------------------------------------------------------------------
(* The callback of a listener.                                              *)

\* While the handle listens on, its connect slot keeps its closure or loses it.
KeepsConnect(q, r) ==
    r.uv = "listening" /\ q.uv = "listening" => q.slot.connect \in {r.slot.connect, "null"}

\* The helpers that touch no slot, or empty them all.
LEMMA HelperSlots ==
    ASSUME NEW r \in Resources
    PROVE  /\ SetSelfReference(r).slot = r.slot
           /\ TcpCloseSocket(r).slot = r.slot
           /\ Deref(r).slot \in {r.slot, NoSlots} /\ Deref(r).uv = r.uv
           /\ \A s \in Slots : SetSlots(r, s).slot = s
<1>1. Deref(r).slot \in {r.slot, NoSlots} /\ Deref(r).uv = r.uv
  BY FreeAbsent DEF Deref, Resources
<1> QED
  BY <1>1 DEF SetSelfReference, TcpCloseSocket, UvClose, SetSlots, Resources

\* A step that stores one resource disturbs no other handle's callback.
LEMMA StoreKeepsConnect ==
    ASSUME IInv, NEW g \in Handles, NEW q, KeepsConnect(q, tcp[g]),
           tcp' = [tcp EXCEPT ![g] = q]
    PROVE  \A h \in Handles : KeepsConnect(tcp'[h], tcp[h])
BY DEF IInv, KeepsConnect

\* Whether a callback runs or not, an event leaves the slots it was given.
LEMMA DeliverKeepsConnect ==
    ASSUME IInv, NEW g \in Handles, NEW kind, NEW why, NEW q \in Resources,
           q.slot.connect = tcp[g].slot.connect, Deliver(g, kind, why, q)
    PROVE  \A h \in Handles : KeepsConnect(tcp'[h], tcp[h])
<1>1. PICK p : /\ p.slot = q.slot
               /\ tcp' = [tcp EXCEPT ![g] = p]
  <2> DEFINE p == [q EXCEPT !.rc = @ + 1]
  <2>1. p.slot = q.slot
    BY DEF Resources
  <2>2. tcp' = [tcp EXCEPT ![g] = q] \/ tcp' = [tcp EXCEPT ![g] = p]
    BY DEF Deliver
  <2> HIDE DEF p
  <2> QED
    BY <2>1, <2>2
<1>2. KeepsConnect(p, tcp[g])
  BY <1>1 DEF KeepsConnect
<1> QED
  BY <1>1, <1>2, StoreKeepsConnect

\* The methods of the class: only listen() and connect() touch the slot, the
\* first is refused by a started handle, the second empties it.
LEMMA CallKeepsConnect ==
    ASSUME IInv, NEW g \in Handles, ScriptCall(g) \/ Collect(g)
    PROVE  \A h \in Handles : KeepsConnect(tcp'[h], tcp[h])
<1> DEFINE r == tcp[g]
<1>1. r \in Resources /\ r.slot \in Slots /\ r.script \in Nat /\ r.rc \in Nat /\ r.writes \in Nat
  BY DEF IInv, Resources
<1> DEFINE Stored == \E q : KeepsConnect(q, r) /\ tcp' = [tcp EXCEPT ![g] = q]
<1>2. Stored => \A h \in Handles : KeepsConnect(tcp'[h], tcp[h])
  BY StoreKeepsConnect
<1>3. CASE New(g)
  <2>1. NewResource.uv # "listening"
    BY DEF NewResource, Blank
  <2> QED
    BY <1>2, <1>3, <2>1 DEF New, Update, KeepsConnect
<1>4. CASE Listen(g)
  <2>1. r.uv # "listening"
    BY <1>4 DEF Listen, CanCall, IInv, RInv, Coherent
  <2>2. PICK q : Update(g, q)
    BY <1>4 DEF Listen, TryListen
  <2> QED
    BY <1>2, <2>1, <2>2 DEF Update, KeepsConnect
<1>5. CASE Connect(g)
  <2>1. CASE Update(g, SetConnect(r, "null"))
    <3>1. SetConnect(r, "null").slot.connect = "null"
      <4>1. [r.slot EXCEPT !.connect = "null"] \in Slots
        BY <1>1 DEF Slots, SlotValues
      <4> QED
        BY <1>1, <4>1, HelperSlots DEF SetConnect, Slots
    <3> QED
      BY <1>2, <2>1, <3>1 DEF Update, KeepsConnect
  <2>2. CASE r.uv \in {"init", "broken"} /\ \E q : Update(g, q)
    BY <1>2, <2>2 DEF Update, KeepsConnect
  <2> QED
    BY <1>5, <2>1, <2>2 DEF Connect
<1>6. CASE SetCallback(g)
  <2>1. PICK f \in SlotValues, w \in SlotValues, e \in SlotValues :
           \/ Update(g, SetReadWriteError(r, f, w, e))
           \/ Update(g, SetSelfReference(SetReadWriteError(r, f, w, e)))
    <3>1. Closures \subseteq SlotValues
      BY ClosuresAssumption DEF SlotValues
    <3>2. CASE \E w \in {<<"null", "null">>, <<"borrowed", "null">>, <<"borrowed", "borrowed">>} :
                  Update(g, SetReadWriteError(r, w[1], w[2], "null"))
      BY <3>2 DEF SlotValues
    <3>3. CASE \E f, w, e \in Closures :
                  Update(g, SetSelfReference(SetReadWriteError(r, f, w, e)))
      BY <3>1, <3>3
    <3> QED
      BY <1>6, <3>2, <3>3 DEF SetCallback
  <2> DEFINE s == [r.slot EXCEPT !.read = f, !.write = w, !.error = e]
             q == SetReadWriteError(r, f, w, e)
  <2>2. s \in Slots /\ s.connect = r.slot.connect
    BY <1>1 DEF Slots
  <2>3. q \in Resources /\ q.slot.connect = r.slot.connect
    <3>1. CanCall(g)
      BY <1>6 DEF SetCallback
    <3> HIDE DEF s
    <3>2. Accounted(SetSlots(r, s), FrameRef(g)) /\ SetSlots(r, s).slot = s
      BY <2>2, <3>1, CallReady, SetSlotsAccounted
    <3> QED
      BY <2>2, <3>2 DEF SetReadWriteError, Accounted, s
  <2> HIDE DEF q
  <2>4. SetSelfReference(q).slot.connect = r.slot.connect
    BY <2>3, HelperSlots
  <2> QED
    BY <1>2, <2>1, <2>3, <2>4 DEF Update, KeepsConnect, q
<1>7. CASE Shutdown(g)
  <2>1. PICK f \in SlotValues :
           \E q : Update(g, q) /\ q.slot.connect = SetShutdown(r, f).slot.connect
    <3>1. Closures \subseteq SlotValues \ {"borrowed"}
      BY ClosuresAssumption DEF SlotValues
    <3>2. CASE \E f \in SlotValues : Update(g, SetShutdown(r, f))
      BY <3>2
    <3>3. CASE \E f \in Closures :
                  Update(g, SetSelfReference([SetShutdown(r, f) EXCEPT !.shut = "pending"]))
      <4>1. PICK f \in Closures :
               Update(g, SetSelfReference([SetShutdown(r, f) EXCEPT !.shut = "pending"]))
        BY <3>3
      <4> DEFINE d == SetShutdown(r, f)
                 q == [d EXCEPT !.shut = "pending"]
      <4>2. d \in Resources
        BY <1>7, <3>1, CallReady, SetShutdownInv DEF Shutdown, Accounted
      <4> HIDE DEF d
      <4>3. q \in Resources /\ q.slot = d.slot
        BY <4>2 DEF Resources
      <4> HIDE DEF q
      <4>4. SetSelfReference(q).slot.connect = d.slot.connect
        BY <4>3, HelperSlots
      <4> QED
        BY <3>1, <4>1, <4>4 DEF d, q
    <3>4. "null" \in SlotValues
      BY DEF SlotValues
    <3> QED
      BY <1>7, <3>1, <3>2, <3>3, <3>4 DEF Shutdown
  <2>2. [r.slot EXCEPT !.shutdown = f] \in Slots
    BY <1>1 DEF Slots
  <2>3. SetShutdown(r, f).slot.connect = r.slot.connect
    BY <1>1, <2>2, HelperSlots DEF SetShutdown, Slots
  <2> QED
    BY <1>2, <2>1, <2>3 DEF Update, KeepsConnect
<1>8. CASE Write(g)
  <2> DEFINE p == [r EXCEPT !.flag = @ \cup {"WRITE_CALLBACK_ENABLE"}]
             q == [p EXCEPT !.writes = @ + 1]
  <2>1. p.slot = r.slot /\ q.slot = r.slot
    BY <1>1 DEF Resources
  <2>2. Update(g, p) \/ Update(g, q)
    BY <1>8 DEF Write
  <2> HIDE DEF p, q
  <2> QED
    BY <1>2, <2>1, <2>2 DEF Update, KeepsConnect
<1>9. CASE Close(g)
  BY <1>1, <1>2, <1>9, HelperSlots DEF Close, Update, KeepsConnect
<1>10. CASE GetSockname(g) \/ GetPeername(g) \/ Keep(g)
  <2> DEFINE p == [r EXCEPT !.names = @ \cup {"sock"}]
             q == [r EXCEPT !.names = @ \cup {"peer"}]
             k == [r EXCEPT !.rc = @ + 1, !.script = @ + 1]
  <2>1. p.slot = r.slot /\ q.slot = r.slot /\ k.slot = r.slot
    BY <1>1 DEF Resources
  <2>2. Update(g, p) \/ Update(g, q) \/ Update(g, k)
    BY <1>10 DEF GetSockname, GetPeername, Keep
  <2> HIDE DEF p, q, k
  <2> QED
    BY <1>2, <2>1, <2>2 DEF Update, KeepsConnect
<1>11. CASE Drop(g)
  <2> DEFINE p == [r EXCEPT !.script = @ - 1]
  <2>1. p \in Resources /\ p.slot = r.slot /\ r.script > 0
    BY <1>1, <1>11 DEF Drop, Resources
  <2>2. Update(g, Deref(p))
    BY <1>11 DEF Drop
  <2> HIDE DEF p
  <2>3. Deref(p).slot.connect \in {r.slot.connect, "null"}
    BY <2>1, HelperSlots DEF NoSlots
  <2> QED
    BY <1>2, <2>2, <2>3 DEF Update, KeepsConnect
<1>12. CASE \E c \in Handles : Accept(g, c)
  <2>1. PICK c \in Handles : Accept(g, c)
    BY <1>12
  <2>2. AcceptedResource.uv # "listening" /\ Free(NewResource).uv # "listening"
    <3>1. NewResource \in Resources /\ NewResource.uv = "init"
      BY CapturesNoSlots DEF NewResource, Blank, Resources, UvStates
    <3> QED
      BY <3>1, FreeAbsent DEF AcceptedResource, Resources
  <2>3. PICK p, q : /\ p.slot = r.slot /\ q.uv # "listening" /\ g # c
                    /\ tcp' = [tcp EXCEPT ![g] = p, ![c] = q]
    <3>1. g # c
      BY <2>1 DEF Accept, CanCall
    <3>2. [r EXCEPT !.pending = FALSE].slot = r.slot
      BY <1>1 DEF Resources
    <3> QED
      BY <2>1, <2>2, <3>1, <3>2 DEF Accept, IInv
  <2> QED
    BY <2>3 DEF KeepsConnect, IInv
<1>13. CASE Collect(g)
  BY <1>1, <1>2, <1>13, FreeAbsent DEF Collect, Update, KeepsConnect, NoSlots
<1> QED
  BY <1>3, <1>4, <1>5, <1>6, <1>7, <1>8, <1>9, <1>10, <1>11, <1>12, <1>13 DEF ScriptCall

\* The events of the loop and the end of a callback leave the slots alone, but
\* for the object that goes with its last reference.
LEMMA EventKeepsConnect ==
    ASSUME IInv, NEW g \in Handles, LoopEvent(g)
    PROVE  \A h \in Handles : KeepsConnect(tcp'[h], tcp[h])
<1> DEFINE r == tcp[g]
<1>1. r \in Resources
  BY DEF IInv
<1>2. CASE ConnectionCb(g)
  <2> DEFINE q == [r EXCEPT !.pending = TRUE]
  <2>1. q \in Resources /\ q.slot = r.slot
    BY <1>1 DEF Resources
  <2>2. Deliver(g, "connect", "ok", q) \/ Deliver(g, "connect", "fail", r)
    BY <1>2 DEF ConnectionCb
  <2> HIDE DEF q
  <2> QED
    BY <1>1, <2>1, <2>2, DeliverKeepsConnect
<1>3. CASE ClientConnectionCb(g)
  <2>1. r.uv # "listening"
    BY <1>3 DEF ClientConnectionCb
  <2>2. PICK q : tcp' = [tcp EXCEPT ![g] = q]
    BY <1>3, Zenon DEF ClientConnectionCb, Deliver, Update
  <2> QED
    BY <2>1, <2>2, StoreKeepsConnect DEF KeepsConnect
<1>4. CASE ReadData(g)
  BY <1>1, <1>4, DeliverKeepsConnect DEF ReadData
<1>5. CASE ReadElse(g)
  <2>1. r.uv # "listening"
    BY <1>5 DEF ReadElse
  <2>2. PICK q : tcp' = [tcp EXCEPT ![g] = q]
    BY <1>5, Zenon DEF ReadElse, Deliver, Update
  <2> QED
    BY <2>1, <2>2, StoreKeepsConnect DEF KeepsConnect
<1>6. CASE WriteCb(g)
  <2> DEFINE q == [r EXCEPT !.writes = @ - 1]
  <2>1. q \in Resources /\ q.slot = r.slot
    BY <1>1, <1>6 DEF WriteCb, Resources
  <2>2. Deliver(g, "write", "ok", q) \/ Update(g, q)
    BY <1>6 DEF WriteCb
  <2> HIDE DEF q
  <2>3. CASE Update(g, q)
    BY <2>1, <2>3, StoreKeepsConnect DEF Update, KeepsConnect
  <2> QED
    BY <2>1, <2>2, <2>3, DeliverKeepsConnect
<1>7. CASE ShutdownCb(g)
  <2> DEFINE q == [r EXCEPT !.shut = "done"]
  <2>1. q \in Resources /\ q.slot = r.slot
    BY <1>1 DEF Resources
  <2>2. Deliver(g, "shutdown", "ok", q)
    BY <1>7 DEF ShutdownCb
  <2> HIDE DEF q
  <2> QED
    BY <2>1, <2>2, DeliverKeepsConnect
<1>8. CASE CancelConnect(g) \/ TcpCloseCb(g)
  <2>1. r.uv # "listening"
    BY <1>8 DEF CancelConnect, TcpCloseCb
  <2>2. PICK q : tcp' = [tcp EXCEPT ![g] = q]
    BY <1>8, Zenon DEF CancelConnect, TcpCloseCb, Update
  <2> QED
    BY <2>1, <2>2, StoreKeepsConnect DEF KeepsConnect
<1> QED
  BY <1>2, <1>3, <1>4, <1>5, <1>6, <1>7, <1>8 DEF LoopEvent

LEMMA ReturnKeepsConnect ==
    ASSUME IInv, Return
    PROVE  \A h \in Handles : KeepsConnect(tcp'[h], tcp[h])
<1> DEFINE g == frame.h
           d == Deref(tcp[g])
           q == IF frame.kind = "error" THEN TcpCloseSocket(d) ELSE d
<1>1. g \in Handles /\ tcp[g] \in Resources /\ tcp' = [tcp EXCEPT ![g] = q]
  BY DEF Return, IInv, Frames
<1>2. RInv(tcp[g], 1)
  BY <1>1 DEF IInv, FrameRef
<1>3. d \in Resources
  <2>1. tcp[g].rc \in Nat /\ tcp[g].rc > 0
    BY <1>2 DEF RInv, Accounted, Absent, Resources
  <2>2. [tcp[g] EXCEPT !.rc = @ - 1] \in Resources
    BY <1>1, <2>1 DEF Resources
  <2> QED
    BY <1>1, <2>2, FreeAbsent DEF Deref, Absent
<1>4. d.slot.connect \in {tcp[g].slot.connect, "null"}
  BY <1>1, HelperSlots DEF NoSlots
<1> HIDE DEF d
<1>5. q.slot.connect \in {tcp[g].slot.connect, "null"}
  BY <1>3, <1>4, HelperSlots
<1> HIDE DEF q
<1> QED
  BY <1>1, <1>5, StoreKeepsConnect DEF KeepsConnect

----------------------------------------------------------------------------
(* Theorems.                                                                *)

\* The inductive invariant holds in every reachable state.
THEOREM Invariance == Spec => []IInv
<1>1. IInv /\ [Next]_vars => IInv'
  BY NextStep
<1> QED
  BY <1>1, InitInv, PTL DEF Spec

\* Resources and frames keep their types; in particular no count of
\* references or of writes goes below zero, in any method or callback.
THEOREM TypeCorrect == Spec => []TypeOK
<1>1. IInv => TypeOK
  BY DEF IInv, TypeOK
<1> QED
  BY <1>1, Invariance, PTL

\* The reference count of a living UVTcp object is exact: setSelfReference,
\* FCI_FREE, FCI_ADDREF and releaseResource together neither leak nor
\* over-release the object.
THEOREM RefcountsAreExact == Spec => []RefcountExact
<1>1. IInv => RefcountExact
  BY DEF IInv, RInv, Accounted, Absent, RefcountExact
<1> QED
  BY <1>1, Invariance, PTL

\* The memory of a handle is not released while libuv listens on it or owes it
\* the answer to a connect or a shutdown.
THEOREM FreedHandlesOweNothing == Spec => []FreedOwesNothing
<1>1. IInv => FreedOwesNothing
  BY DEF IInv, RInv, Accounted, Absent, Coherent, Owing, FreedOwesNothing
<1> QED
  BY <1>1, Invariance, PTL

\* The tail of read_cb's error branch runs on a living object, whatever the
\* script's error callback did.
THEOREM ErrorTailIsSafe == Spec => []ErrorTailSafe
<1>1. IInv => ErrorTailSafe
  <2> SUFFICES ASSUME IInv, frame.kind = "error"
               PROVE  tcp[frame.h].obj = "live" /\ tcp[frame.h].rc > 1
    BY DEF ErrorTailSafe
  <2>1. frame.h \in Handles /\ FrameRef(frame.h) = 1 /\ Pinned(tcp[frame.h])
    BY DEF IInv, Frames, Idle, FrameRef
  <2>2. Accounted(tcp[frame.h], 1) /\ tcp[frame.h] \in Resources
    BY <2>1 DEF IInv, RInv, Absent, Accounted
  <2>3. tcp[frame.h].script \in Nat /\ Captures(tcp[frame.h].slot) \in Nat
    BY <2>2, CapturesNat DEF Resources
  <2> QED
    BY <2>1, <2>2, <2>3 DEF Accounted, PinRef
<1> QED
  BY <1>1, Invariance, PTL

\* uv_close is never called twice on a handle.
THEOREM ClosedOnce == Spec => []CloseOnce
<1>1. IInv => CloseOnce
  BY DEF IInv, RInv, Coherent, CloseOnce
<1> QED
  BY <1>1, Invariance, PTL

\* The callbacks that libuv can still reach through the connect, error and
\* shutdown slots are owned by the handle.
THEOREM CallablesAreOwned == Spec => []CallableOwned
<1>1. IInv => CallableOwned
  BY DEF IInv, RInv, Coherent, CallableOwned
<1> QED
  BY <1>1, Invariance, PTL

\* The pin of an object is dropped by tcp_close_cb and by nothing else.
THEOREM PinsGoInCloseCb == Spec => PinDroppedInCloseCb
<1> DEFINE Dropped == \A h \in Handles :
               Pinned(tcp[h]) /\ ~Pinned(tcp'[h]) =>
                   tcp[h].uv = "closing" /\ tcp'[h].uv = "closed"
<1>1. IInv /\ [Next]_vars => Dropped
  <2> SUFFICES ASSUME IInv, [Next]_vars, NEW h \in Handles,
                      Pinned(tcp[h]), ~Pinned(tcp'[h])
               PROVE  tcp[h].uv = "closing" /\ tcp'[h].uv = "closed"
    OBVIOUS
  <2>1. PICK g \in Handles : TcpCloseCb(g)
    BY NextStep DEF PinsKept
  <2> DEFINE c == [tcp[g] EXCEPT !.uv = "closed"]
  <2>2. tcp[g] \in Resources /\ tcp \in [Handles -> Resources]
    BY DEF IInv
  <2>3. c \in Resources /\ c.uv = "closed"
    BY <2>2 DEF Resources, UvStates
  <2>4. tcp[g].uv = "closing" /\ tcp' = [tcp EXCEPT ![g] = ReleaseResource(c)]
    BY <2>1 DEF TcpCloseCb, Update
  <2> HIDE DEF c
  <2>5. ReleaseResource(c).uv = "closed"
    BY <2>3, ReleaseKeepsUv
  <2>6. g = h
    BY <2>2, <2>4
  <2> QED
    BY <2>2, <2>4, <2>5, <2>6
<1>2. IInv /\ [Next]_vars => [Dropped]_vars
  BY <1>1
<1> QED
  BY <1>2, Invariance, PTL DEF Spec, PinDroppedInCloseCb

\* A second listen() does not replace the callback of a handle that listens,
\* and no other method, callback or early return gives it another closure.
THEOREM ListenersKeepTheirCallback == Spec => ListenerKeepsCallback
<1> DEFINE Kept == \A h \in Handles :
               tcp[h].uv = "listening" /\ tcp'[h].uv = "listening" =>
                   tcp'[h].slot.connect \in {tcp[h].slot.connect, "null"}
<1>1. IInv /\ Next => Kept
  BY CallKeepsConnect, EventKeepsConnect, ReturnKeepsConnect DEF Next, KeepsConnect
<1>2. IInv /\ [Next]_vars => [Kept]_vars
  BY <1>1
<1> QED
  BY <1>2, Invariance, PTL DEF Spec, ListenerKeepsCallback

----------------------------------------------------------------------------
(* UVTcp implements HandleLife.  A step of UVTcp changes what HandleLife    *)
(* sees of one handle at most; what follows names the action of HandleLife  *)
(* that does it (LifeStep) and finds it for every action of UVTcp.          *)

----------------------------------------------------------------------------
(* What HandleLife sees.                                                    *)

Phase(r) == IF r.uv \in {"closing", "closed", "aborted"} THEN r.uv ELSE "open"

Held(h) == tcp[h].script > 0 \/ frame.h = h

\* HandleLife sees nothing of the step in h.
Same(h) ==
    /\ tcp'[h].obj = tcp[h].obj /\ Phase(tcp'[h]) = Phase(tcp[h])
    /\ Pinned(tcp'[h]) <=> Pinned(tcp[h])
    /\ Held(h)' <=> Held(h)

Creates(h) ==
    /\ tcp[h].obj = "none" /\ tcp'[h].obj # "none"
    /\ Phase(tcp'[h]) = Phase(tcp[h])
    /\ Held(h)' \/ tcp'[h].obj = "freed"
    /\ ~Pinned(tcp'[h])

Uses(h) ==
    /\ tcp[h].obj = "live" /\ tcp'[h].obj # "none"
    /\ Phase(tcp'[h]) = Phase(tcp[h])
    /\ Pinned(tcp[h]) => Pinned(tcp'[h])
    /\ Pinned(tcp'[h]) => Pinned(tcp[h]) \/ Held(h)

Starts(h) ==
    /\ tcp[h].obj = "live" /\ tcp'[h].obj = "live"
    /\ Phase(tcp[h]) = "open" /\ Phase(tcp'[h]) = "closing"
    /\ Pinned(tcp'[h]) <=> Pinned(tcp[h])
    /\ Held(h)' => Held(h)

Closes(h) ==
    /\ tcp[h].obj = "live" /\ tcp'[h].obj # "none"
    /\ Phase(tcp[h]) = "closing" /\ Phase(tcp'[h]) = "closed"
    /\ ~Pinned(tcp'[h])
    /\ Held(h)' <=> Held(h)

LifeStep(h) == Same(h) \/ Creates(h) \/ Uses(h) \/ Starts(h) \/ Closes(h)

\* An object that is not there is neither held nor pinned.
LEMMA GoneIsNotHeld ==
    ASSUME IInv, NEW h \in Handles, tcp[h].obj # "live"
    PROVE  ~Held(h) /\ ~Pinned(tcp[h])
<1>1. Absent(tcp[h], FrameRef(h))
  BY DEF IInv, RInv, Accounted
<1> QED
  BY <1>1 DEF Absent, Held, FrameRef

\* A step that changes one handle, in one of these ways, is a step of HandleLife.
LEMMA LifeStepMaps ==
    ASSUME IInv, IInv', NEW h \in Handles, LifeStep(h),
           \A g \in Handles \ {h} : Same(g)
    PROVE  [Life!Next]_Life!vars
<1> DEFINE life == [g \in Handles |-> tcp[g].obj]
           held == {g \in Handles : tcp[g].script > 0 \/ frame.h = g}
           owed == {g \in Handles : Pinned(tcp[g])}
           phase == [g \in Handles |-> IF tcp[g].uv \in {"closing", "closed", "aborted"}
                                       THEN tcp[g].uv ELSE "open"]
<1>1. tcp'[h].obj \in {"none", "live", "freed"}
  BY DEF IInv, Resources
<1>2. tcp'[h].obj = "freed" => ~Held(h)' /\ ~Pinned(tcp'[h])
  <2> SUFFICES ASSUME tcp'[h].obj = "freed" PROVE ~Held(h)' /\ ~Pinned(tcp'[h])
    OBVIOUS
  <2>1. Absent(tcp[h], FrameRef(h))'
    BY DEF IInv, RInv, Accounted
  <2> QED
    BY <2>1 DEF Absent, Held, FrameRef
<1>3. life' = [life EXCEPT ![h] = tcp'[h].obj]
  BY DEF Same
<1>4. held' = IF Held(h)' THEN held \cup {h} ELSE held \ {h}
  BY DEF Same, Held
<1>5. owed' = IF Pinned(tcp'[h]) THEN owed \cup {h} ELSE owed \ {h}
  BY DEF Same
<1>6. phase' = [phase EXCEPT ![h] = Phase(tcp'[h])]
  BY DEF Same, Phase
<1>7. /\ life[h] = tcp[h].obj /\ phase[h] = Phase(tcp[h])
      /\ h \in held <=> Held(h)
      /\ h \in owed <=> Pinned(tcp[h])
  BY DEF Phase, Held
<1>8. phase = [phase EXCEPT ![h] = Phase(tcp[h])] /\ life = [life EXCEPT ![h] = tcp[h].obj]
  BY DEF Phase
<1>9. CASE Same(h)
  <2>1. life' = life /\ held' = held /\ owed' = owed /\ phase' = phase
    BY <1>3, <1>4, <1>5, <1>6, <1>7, <1>8, <1>9 DEF Same
  <2> QED
    BY <2>1 DEF Life!vars
<1>10. CASE Creates(h)
  <2>1. Life!Create(h)
    BY <1>1, <1>2, <1>3, <1>4, <1>5, <1>6, <1>7, <1>8, <1>10, GoneIsNotHeld
    DEF Creates, Life!Create, Life!Lives, Life!Goes
  <2> QED
    BY <2>1 DEF Life!Next
<1>11. CASE Uses(h)
  <2>1. Life!Use(h)
    BY <1>1, <1>2, <1>3, <1>4, <1>5, <1>6, <1>7, <1>8, <1>11
    DEF Uses, Life!Use, Life!Lives, Life!Goes
  <2> QED
    BY <2>1 DEF Life!Next
<1>12. CASE Starts(h)
  <2>1. Life!StartClosing(h)
    BY <1>3, <1>4, <1>5, <1>6, <1>7, <1>8, <1>12 DEF Starts, Life!StartClosing
  <2> QED
    BY <2>1 DEF Life!Next
<1>13. CASE Closes(h)
  <2>1. /\ life[h] = "live" /\ phase[h] = "closing"
        /\ phase' = [phase EXCEPT ![h] = "closed"]
        /\ owed' = owed \ {h} /\ held' = held
    BY <1>4, <1>5, <1>6, <1>7, <1>13 DEF Closes
  <2>2. CASE tcp'[h].obj = "live"
    <3>1. life' = life
      BY <1>3, <1>8, <1>13, <2>2 DEF Closes
    <3> QED
      BY <2>1, <3>1 DEF Life!Closed, Life!Next
  <2>3. CASE tcp'[h].obj = "freed"
    <3>1. h \notin held /\ h \notin owed' /\ held' = held \ {h}
      BY <1>2, <1>7, <1>13, <2>1, <2>3 DEF Closes
    <3>2. life' = [life EXCEPT ![h] = "freed"]
      BY <1>3, <2>3
    <3> QED
      BY <2>1, <3>1, <3>2 DEF Life!Closed, Life!Goes, Life!Next
  <2> QED
    BY <1>1, <1>13, <2>2, <2>3 DEF Closes
<1> QED
  BY <1>9, <1>10, <1>11, <1>12, <1>13 DEF LifeStep

----------------------------------------------------------------------------
(* A step in one handle.                                                    *)

OneStep(h) == LifeStep(h) /\ \A g \in Handles \ {h} : Same(g)

\* A call or an event that leaves the running callback alone, and closes nothing.
LEMMA UpdateUses ==
    ASSUME IInv, PinsKept, NEW h \in Handles, NEW q, Update(h, q),
           tcp[h].obj = "live", q.obj # "none", Phase(q) = Phase(tcp[h]),
           Pinned(q) => Pinned(tcp[h]) \/ Held(h)
    PROVE  OneStep(h)
<1>1. tcp' = [tcp EXCEPT ![h] = q] /\ frame' = frame /\ tcp'[h] = q
  BY DEF Update, IInv
<1>2. Uses(h)
  BY <1>1 DEF Uses, PinsKept
<1>3. \A g \in Handles \ {h} : Same(g)
  BY <1>1 DEF Same, Held
<1> QED
  BY <1>2, <1>3 DEF OneStep, LifeStep

\* A method of the class, called by a script that holds the object.
LEMMA CallUses ==
    ASSUME IInv, PinsKept, NEW h \in Handles, NEW q, Update(h, q), CanCall(h),
           q.obj = tcp[h].obj, Phase(q) = Phase(tcp[h])
    PROVE  OneStep(h)
<1>1. tcp[h].obj = "live" /\ Held(h)
  BY DEF CanCall, Held
<1> QED
  BY <1>1, UpdateUses

\* An event that may start a callback.
LEMMA DeliverUses ==
    ASSUME IInv, PinsKept, NEW h \in Handles, NEW q \in Resources, NEW kind, NEW why,
           LoopTurn(h), Deliver(h, kind, why, q),
           q.obj = "live", Phase(q) = Phase(tcp[h]), Pinned(q) => Pinned(tcp[h])
    PROVE  OneStep(h)
<1>1. CASE q.slot[kind] = "null"
  <2>1. Update(h, q)
    BY <1>1 DEF Deliver, Update
  <2> QED
    BY <2>1, UpdateUses DEF LoopTurn
<1>2. CASE q.slot[kind] # "null"
  <2> DEFINE p == [q EXCEPT !.rc = @ + 1]
  <2>1. p.obj = q.obj /\ p.uv = q.uv /\ p.flag = q.flag
    BY DEF Resources
  <2>2. tcp' = [tcp EXCEPT ![h] = p] /\ frame'.h = h /\ frame = Idle /\ tcp[h].obj = "live"
    BY <1>2 DEF Deliver, LoopTurn
  <2> HIDE DEF p
  <2>3. tcp'[h] = p
    BY <2>2 DEF IInv
  <2>4. Uses(h)
    BY <2>1, <2>2, <2>3 DEF Uses, Phase, Pinned, PinsKept
  <2>5. \A g \in Handles \ {h} : Same(g)
    BY <2>2, HandlesAssumption DEF Same, Held, Idle
  <2> QED
    BY <2>4, <2>5 DEF OneStep, LifeStep
<1> QED
  BY <1>1, <1>2

\* Storing closures and pinning change neither the object nor libuv's view.
Shapes == [obj : {"none", "live", "freed"}, rc : Int, script : Nat, flag : SUBSET Flags,
           slot : Slots, names : SUBSET {"sock", "peer"}, uv : UvStates,
           reading : BOOLEAN, conn : BOOLEAN, writes : Nat,
           shut : {"no", "pending", "done"}, pending : BOOLEAN]

LEMMA CapturesInt == ASSUME NEW s \in Slots PROVE Captures(s) \in Int
BY CapturesNat

LEMMA SetSlotsShape ==
    ASSUME NEW r \in Shapes, NEW s \in Slots
    PROVE  SetSlots(r, s) \in Shapes /\ SetSlots(r, s).obj = r.obj /\ SetSlots(r, s).uv = r.uv
<1> DEFINE c == (r.rc + Captures(s)) - Captures(r.slot)
<1>1. r.rc \in Int /\ r.slot \in Slots
  BY DEF Shapes
<1>2. c \in Int
  BY <1>1, CapturesInt
<1>3. SetSlots(r, s) = [r EXCEPT !.slot = s, !.rc = c]
  BY DEF SetSlots, Shapes
<1> HIDE DEF c
<1> QED
  BY <1>2, <1>3 DEF Shapes

LEMMA StoreShape ==
    ASSUME NEW r \in Resources, NEW f \in SlotValues, NEW g \in SlotValues, NEW e \in SlotValues
    PROVE  \A q \in {SetConnect(r, f), SetShutdown(r, f), SetReadWriteError(r, f, g, e)} :
               q \in Shapes /\ q.obj = r.obj /\ q.uv = r.uv
<1>1. r \in Shapes /\ r.slot \in Slots
  BY DEF Shapes, Resources
<1> DEFINE Kept(q) == q \in Shapes /\ q.obj = r.obj /\ q.uv = r.uv
<1>2. \A s \in Slots : Kept(SetSlots(r, s))
  BY <1>1, SetSlotsShape
<1> HIDE DEF Kept
<1>3. Kept(SetConnect(r, f))
  <2>1. [r.slot EXCEPT !.connect = f] \in Slots
    BY <1>1 DEF Slots
  <2> QED
    BY <1>2, <2>1 DEF SetConnect
<1>4. Kept(SetShutdown(r, f))
  <2>1. [r.slot EXCEPT !.shutdown = f] \in Slots
    BY <1>1 DEF Slots
  <2> QED
    BY <1>2, <2>1 DEF SetShutdown
<1>5. Kept(SetReadWriteError(r, f, g, e))
  <2>1. [r.slot EXCEPT !.read = f, !.write = g, !.error = e] \in Slots
    BY <1>1 DEF Slots
  <2> QED
    BY <1>2, <2>1 DEF SetReadWriteError
<1> QED
  BY <1>3, <1>4, <1>5 DEF Kept

LEMMA PinShape ==
    ASSUME NEW r \in Shapes
    PROVE  /\ SetSelfReference(r) \in Shapes
           /\ SetSelfReference(r).obj = r.obj /\ SetSelfReference(r).uv = r.uv
<1>1. r.rc + 1 \in Int /\ r.flag \cup {"INTERNAL_REF"} \in SUBSET Flags
  BY DEF Shapes, Flags
<1> QED
  BY <1>1 DEF Shapes, SetSelfReference

----------------------------------------------------------------------------
(* The calls of the script.                                                 *)

\* The closures a script passes, and what a refusal leaves behind.
LEMMA StoredValues ==
    "null" \in SlotValues /\ "borrowed" \in SlotValues /\ \A f \in Closures : f \in SlotValues
BY ClosuresAssumption DEF SlotValues

LEMMA ListenLife == ASSUME IInv, NEW h \in Handles, Listen(h) PROVE OneStep(h)
<1> DEFINE r == tcp[h]
<1>1. r \in Resources /\ CanCall(h) /\ PinsKept
  BY ListenInv DEF IInv, Listen
<1>2. ASSUME NEW f \in SlotValues, Update(h, SetConnect(r, f)) PROVE OneStep(h)
  BY <1>1, <1>2, StoreShape, CallUses DEF Phase
<1>3. ASSUME NEW f \in Closures, r.uv = "init",
             Update(h, [SetSelfReference(SetConnect(r, f)) EXCEPT
                           !.uv = "listening", !.flag = @ \cup {"HANDLE_START"}])
      PROVE  OneStep(h)
  <2> DEFINE b == SetSelfReference(SetConnect(r, f))
             q == [b EXCEPT !.uv = "listening", !.flag = @ \cup {"HANDLE_START"}]
  <2>1. b \in Shapes /\ b.obj = r.obj
    BY <1>1, StoredValues, StoreShape, PinShape
  <2> HIDE DEF b
  <2>2. q.obj = r.obj /\ q.uv = "listening"
    BY <2>1 DEF Shapes
  <2> HIDE DEF q
  <2> QED
    BY <1>1, <1>3, <2>2, CallUses DEF Phase, q, b
<1> QED
  BY <1>2, <1>3, StoredValues DEF Listen, TryListen

LEMMA ConnectLife == ASSUME IInv, NEW h \in Handles, Connect(h) PROVE OneStep(h)
<1> DEFINE r == tcp[h]
<1>1. r \in Resources /\ CanCall(h) /\ PinsKept
  BY ConnectInv DEF IInv, Connect
<1>2. ASSUME Update(h, SetConnect(r, "null")) PROVE OneStep(h)
  BY <1>1, <1>2, StoredValues, StoreShape, CallUses DEF Phase
<1>3. ASSUME NEW f \in Closures, r.uv \in {"init", "broken"},
             Update(h, [SetSelfReference(SetConnect(r, f)) EXCEPT
                           !.uv = "connecting", !.conn = TRUE,
                           !.flag = @ \cup {"HANDLE_START"}])
      PROVE  OneStep(h)
  <2> DEFINE b == SetSelfReference(SetConnect(r, f))
             q == [b EXCEPT !.uv = "connecting", !.conn = TRUE,
                            !.flag = @ \cup {"HANDLE_START"}]
  <2>1. b \in Shapes /\ b.obj = r.obj
    BY <1>1, StoredValues, StoreShape, PinShape
  <2> HIDE DEF b
  <2>2. q.obj = r.obj /\ q.uv = "connecting"
    BY <2>1 DEF Shapes
  <2> HIDE DEF q
  <2> QED
    BY <1>1, <1>3, <2>2, CallUses DEF Phase, q, b
<1> QED
  BY <1>2, <1>3 DEF Connect

LEMMA SetCallbackLife == ASSUME IInv, NEW h \in Handles, SetCallback(h) PROVE OneStep(h)
<1> DEFINE r == tcp[h]
<1>1. r \in Resources /\ CanCall(h) /\ PinsKept
  BY SetCallbackInv DEF IInv, SetCallback
<1>2. ASSUME NEW f \in SlotValues, NEW g \in SlotValues, NEW e \in SlotValues
      PROVE  /\ Update(h, SetReadWriteError(r, f, g, e)) => OneStep(h)
             /\ Update(h, SetSelfReference(SetReadWriteError(r, f, g, e))) => OneStep(h)
  <2> DEFINE c == SetReadWriteError(r, f, g, e)
  <2>1. c \in Shapes /\ c.obj = r.obj /\ c.uv = r.uv
    BY <1>1, StoreShape
  <2> HIDE DEF c
  <2>2. SetSelfReference(c).obj = r.obj /\ SetSelfReference(c).uv = r.uv
    BY <2>1, PinShape
  <2>3. /\ Update(h, c) => OneStep(h)
        /\ Update(h, SetSelfReference(c)) => OneStep(h)
    BY <1>1, <2>1, <2>2, CallUses DEF Phase
  <2> QED
    BY <2>3 DEF c
<1> QED
  <2>1. \A w \in {<<"null", "null">>, <<"borrowed", "null">>, <<"borrowed", "borrowed">>} :
           w[1] \in SlotValues /\ w[2] \in SlotValues
    BY DEF SlotValues
  <2> QED
    BY <1>2, <2>1, StoredValues DEF SetCallback

LEMMA ShutdownLife == ASSUME IInv, NEW h \in Handles, Shutdown(h) PROVE OneStep(h)
<1> DEFINE r == tcp[h]
<1>1. r \in Resources /\ CanCall(h) /\ PinsKept
  BY ShutdownInv DEF IInv, Shutdown
<1>2. ASSUME NEW f \in SlotValues, Update(h, SetShutdown(r, f)) PROVE OneStep(h)
  BY <1>1, <1>2, StoreShape, CallUses DEF Phase
<1>3. ASSUME NEW f \in Closures,
             Update(h, SetSelfReference([SetShutdown(r, f) EXCEPT !.shut = "pending"]))
      PROVE  OneStep(h)
  <2> DEFINE c == SetShutdown(r, f)
             b == [c EXCEPT !.shut = "pending"]
             q == SetSelfReference(b)
  <2>1. c \in Shapes /\ c.obj = r.obj /\ c.uv = r.uv
    BY <1>1, StoredValues, StoreShape
  <2> HIDE DEF c
  <2>2. b \in Shapes /\ b.obj = r.obj /\ b.uv = r.uv
    BY <2>1 DEF Shapes
  <2> HIDE DEF b
  <2>3. q.obj = r.obj /\ q.uv = r.uv
    BY <2>2, PinShape
  <2> HIDE DEF q
  <2> QED
    BY <1>1, <1>3, <2>3, CallUses DEF Phase, q, b, c
<1> QED
  BY <1>2, <1>3, StoredValues DEF Shutdown

LEMMA WriteLife == ASSUME IInv, NEW h \in Handles, Write(h) PROVE OneStep(h)
<1> DEFINE r == [tcp[h] EXCEPT !.flag = @ \cup {"WRITE_CALLBACK_ENABLE"}]
           q == [r EXCEPT !.writes = @ + 1]
<1>1. tcp[h] \in Resources /\ CanCall(h) /\ PinsKept /\ (Update(h, r) \/ Update(h, q))
  BY WriteInv DEF IInv, Write
<1>2. /\ r.obj = tcp[h].obj /\ r.uv = tcp[h].uv
      /\ q.obj = tcp[h].obj /\ q.uv = tcp[h].uv
  BY <1>1 DEF Resources
<1> HIDE DEF r, q
<1> QED
  BY <1>1, <1>2, CallUses DEF Phase

LEMMA NamesLife ==
    ASSUME IInv, NEW h \in Handles, GetSockname(h) \/ GetPeername(h) PROVE OneStep(h)
<1>1. PICK x \in {"sock", "peer"} : Update(h, [tcp[h] EXCEPT !.names = @ \cup {x}])
  BY DEF GetSockname, GetPeername
<1> DEFINE q == [tcp[h] EXCEPT !.names = @ \cup {x}]
<1>2. tcp[h] \in Resources /\ CanCall(h) /\ PinsKept
  BY NamesInv DEF IInv, GetSockname, GetPeername
<1>3. q.obj = tcp[h].obj /\ q.uv = tcp[h].uv
  BY <1>2 DEF Resources
<1> HIDE DEF q
<1> QED
  BY <1>1, <1>2, <1>3, CallUses DEF Phase, q

\* tcp_close_socket starts the closing of a handle, once.
LEMMA CloseShape ==
    ASSUME NEW r, NEW n, Accounted(r, n), Coherent(r), NEW q, q = TcpCloseSocket(r)
    PROVE  /\ q.obj = "live" /\ q.script = r.script
           /\ Pinned(q) <=> Pinned(r)
           /\ \/ Phase(q) = Phase(r)
              \/ Phase(r) = "open" /\ Phase(q) = "closing"
<1>1. r \in Resources /\ r.obj = "live"
  BY DEF Accounted
<1>2. CASE "CLOSING_START" \in r.flag
  BY <1>1, <1>2 DEF TcpCloseSocket
<1>3. CASE "CLOSING_START" \notin r.flag
  <2>1. r.uv \notin {"closing", "closed", "aborted"}
    BY <1>3 DEF Coherent
  <2>2. q.obj = r.obj /\ q.script = r.script /\ q.uv = "closing"
    BY <1>1, <1>3, <2>1 DEF TcpCloseSocket, UvClose, Resources
  <2> QED
    BY <1>1, <2>1, <2>2, TcpCloseSocketInv DEF Phase
<1> QED
  BY <1>2, <1>3

LEMMA CloseLife == ASSUME IInv, NEW h \in Handles, Close(h) PROVE OneStep(h)
<1> DEFINE q == TcpCloseSocket(tcp[h])
<1>1. /\ Accounted(tcp[h], FrameRef(h)) /\ Coherent(tcp[h]) /\ tcp[h].obj = "live"
      /\ CanCall(h) /\ PinsKept /\ Update(h, q)
  BY CallReady, CloseInv DEF Close, CanCall
<1>2. /\ q.obj = "live" /\ q.script = tcp[h].script /\ (Pinned(q) <=> Pinned(tcp[h]))
      /\ Phase(q) = Phase(tcp[h]) \/ (Phase(tcp[h]) = "open" /\ Phase(q) = "closing")
  BY <1>1, CloseShape
<1> HIDE DEF q
<1>3. CASE Phase(q) = Phase(tcp[h])
  BY <1>1, <1>2, <1>3, CallUses
<1>4. CASE Phase(tcp[h]) = "open" /\ Phase(q) = "closing"
  <2>1. tcp' = [tcp EXCEPT ![h] = q] /\ frame' = frame /\ tcp'[h] = q
    BY <1>1 DEF Update, IInv
  <2>2. Starts(h)
    BY <1>1, <1>2, <1>4, <2>1 DEF Starts, Held
  <2>3. \A g \in Handles \ {h} : Same(g)
    BY <2>1 DEF Same, Held
  <2> QED
    BY <2>2, <2>3 DEF OneStep, LifeStep
<1> QED
  BY <1>2, <1>3, <1>4

\* An object that is made, with or without a connection.
LEMMA UpdateCreates ==
    ASSUME IInv, NEW h \in Handles, NEW q, Update(h, q), tcp[h].obj = "none",
           q.obj # "none", Phase(q) = Phase(tcp[h]), ~Pinned(q),
           q.script > 0 \/ q.obj = "freed"
    PROVE  OneStep(h)
<1>1. tcp' = [tcp EXCEPT ![h] = q] /\ frame' = frame /\ tcp'[h] = q
  BY DEF Update, IInv
<1> QED
  BY <1>1 DEF OneStep, LifeStep, Creates, Same, Held

\* A handle that was not made yet is not being closed.
NotMade == \A h \in Handles : tcp[h].obj = "none" => Phase(tcp[h]) = "open"

LEMMA NewLife == ASSUME IInv, NotMade, NEW h \in Handles, New(h) PROVE OneStep(h)
<1>1. Update(h, NewResource) /\ tcp[h].obj = "none" /\ Phase(tcp[h]) = "open"
  BY DEF New, NotMade
<1>2. /\ NewResource.obj = "live" /\ NewResource.script = 1
      /\ Phase(NewResource) = "open" /\ ~Pinned(NewResource)
  BY DEF NewResource, Blank, Phase, Pinned
<1> QED
  BY <1>1, <1>2, UpdateCreates

LEMMA AcceptLife ==
    ASSUME IInv, NotMade, NEW h \in Handles, NEW c \in Handles, Accept(h, c)
    PROVE  OneStep(c)
<1> DEFINE q == [tcp[h] EXCEPT !.pending = FALSE]
<1>1. tcp[c].obj = "none" /\ tcp[h].obj = "live" /\ frame' = frame /\ tcp[h] \in Resources
  BY DEF Accept, CanCall, IInv
<1>2. q.obj = tcp[h].obj /\ q.uv = tcp[h].uv /\ q.flag = tcp[h].flag /\ q.script = tcp[h].script
  BY <1>1 DEF Resources
<1>3. PICK a \in {AcceptedResource, Free(NewResource)} :
          tcp' = [[tcp EXCEPT ![h] = q] EXCEPT ![c] = a]
  BY <1>1 DEF Accept, IInv
<1> HIDE DEF q
<1>4. tcp'[c] = a /\ tcp'[h] = q /\ h # c
  BY <1>1, <1>3 DEF IInv
<1>5. /\ a.obj # "none" /\ Phase(a) = "open" /\ ~Pinned(a)
      /\ a.script > 0 \/ a.obj = "freed"
  <2>1. NewResource \in Resources /\ NewResource.uv = "init" /\ NewResource.flag = {}
    BY CapturesNoSlots DEF NewResource, Blank, Resources, UvStates
  <2>2. CASE a = Free(NewResource)
    BY <2>1, <2>2, FreeAbsent DEF Pinned, Phase
  <2>3. CASE a = AcceptedResource
    BY <2>3 DEF AcceptedResource, NewResource, Blank, Phase, Pinned
  <2> QED
    BY <2>2, <2>3
<1>6. Creates(c)
  BY <1>1, <1>4, <1>5 DEF Creates, NotMade, Held
<1>7. \A g \in Handles \ {c} : Same(g)
  BY <1>1, <1>2, <1>3, <1>4 DEF Same, Held, Phase, Pinned, IInv
<1> QED
  BY <1>6, <1>7 DEF OneStep, LifeStep

LEMMA KeepLife == ASSUME IInv, NEW h \in Handles, Keep(h) PROVE OneStep(h)
<1> DEFINE q == [tcp[h] EXCEPT !.rc = @ + 1, !.script = @ + 1]
<1>1. tcp[h] \in Resources /\ CanCall(h) /\ PinsKept /\ Update(h, q)
  BY KeepInv DEF IInv, Keep
<1>2. q.obj = tcp[h].obj /\ q.uv = tcp[h].uv
  BY <1>1 DEF Resources
<1> HIDE DEF q
<1> QED
  BY <1>1, <1>2, CallUses DEF Phase

\* Giving up a reference: the object goes or stays, and pins nothing.
LEMMA DerefShape ==
    ASSUME NEW r \in Resources, r.obj = "live"
    PROVE  /\ Deref(r).obj \in {"live", "freed"} /\ Phase(Deref(r)) = Phase(r)
           /\ Pinned(Deref(r)) => Pinned(r)
           /\ r.rc # 1 => Deref(r).obj = "live" /\ Deref(r).script = r.script
<1>1. CASE r.rc = 1
  BY <1>1, FreeAbsent DEF Deref, Phase, Pinned
<1>2. CASE r.rc # 1
  <2> DEFINE q == [r EXCEPT !.rc = @ - 1]
  <2>1. q.obj = r.obj /\ q.uv = r.uv /\ q.flag = r.flag /\ q.script = r.script
    BY DEF Resources
  <2>2. Deref(r) = q
    BY <1>2 DEF Deref
  <2> HIDE DEF q
  <2> QED
    BY <2>1, <2>2 DEF Phase, Pinned
<1> QED
  BY <1>1, <1>2

LEMMA DropLife == ASSUME IInv, NEW h \in Handles, Drop(h) PROVE OneStep(h)
<1> DEFINE q == [tcp[h] EXCEPT !.script = @ - 1]
<1>1. /\ tcp[h] \in Resources /\ tcp[h].obj = "live" /\ tcp[h].script > 0
      /\ PinsKept /\ Update(h, Deref(q))
  BY DropInv DEF IInv, Drop
<1>2. tcp[h].script - 1 \in Nat
  BY <1>1 DEF Resources
<1>3. q \in Resources /\ q.obj = tcp[h].obj /\ q.uv = tcp[h].uv /\ q.flag = tcp[h].flag
  BY <1>1, <1>2 DEF Resources
<1> HIDE DEF q
<1>4. Deref(q).obj # "none" /\ Phase(Deref(q)) = Phase(tcp[h])
      /\ (Pinned(Deref(q)) => Pinned(tcp[h]))
  BY <1>1, <1>3, DerefShape DEF Phase, Pinned
<1> QED
  BY <1>1, <1>4, UpdateUses

LEMMA CollectLife == ASSUME IInv, NEW h \in Handles, Collect(h) PROVE OneStep(h)
<1>1. tcp[h] \in Resources /\ tcp[h].obj = "live" /\ PinsKept /\ Update(h, Free(tcp[h]))
  BY CollectInv DEF IInv, Collect
<1>2. Free(tcp[h]).obj = "freed" /\ Free(tcp[h]).uv = tcp[h].uv /\ ~Pinned(Free(tcp[h]))
  BY <1>1, FreeAbsent DEF Pinned
<1> QED
  BY <1>1, <1>2, UpdateUses DEF Phase

----------------------------------------------------------------------------
(* The events of the loop.                                                  *)

LEMMA ConnectionCbLife == ASSUME IInv, NEW h \in Handles, ConnectionCb(h) PROVE OneStep(h)
<1> DEFINE q == [tcp[h] EXCEPT !.pending = TRUE]
<1>1. tcp[h] \in Resources /\ LoopTurn(h) /\ PinsKept /\ tcp[h].obj = "live"
  BY ConnectionCbInv DEF IInv, ConnectionCb, LoopTurn
<1>2. q \in Resources /\ q.obj = tcp[h].obj /\ q.uv = tcp[h].uv /\ q.flag = tcp[h].flag
  BY <1>1 DEF Resources
<1>3. Deliver(h, "connect", "ok", q) \/ Deliver(h, "connect", "fail", tcp[h])
  BY DEF ConnectionCb
<1> HIDE DEF q
<1> QED
  BY <1>1, <1>2, <1>3, DeliverUses DEF Phase, Pinned

LEMMA ClientConnectionCbLife ==
    ASSUME IInv, NEW h \in Handles, ClientConnectionCb(h) PROVE OneStep(h)
<1>1. /\ tcp[h] \in Resources /\ LoopTurn(h) /\ PinsKept /\ tcp[h].obj = "live"
      /\ tcp[h].uv = "connecting"
  BY ClientConnectionCbInv DEF IInv, ClientConnectionCb, LoopTurn
<1>2. PICK why \in {"ok", "fail"} :
        LET r == [tcp[h] EXCEPT !.conn = FALSE,
                                !.uv = IF why = "ok" THEN "connected" ELSE "broken"]
        IN \/ Deliver(h, "connect", why,
                      [r EXCEPT !.reading = TRUE,
                                !.flag = @ \cup {"HANDLE_START", "READ_START"}])
           \/ why = "fail" /\ Update(h, r)
  BY DEF ClientConnectionCb
<1> DEFINE uv == IF why = "ok" THEN "connected" ELSE "broken"
           r == [tcp[h] EXCEPT !.conn = FALSE, !.uv = uv]
           q == [r EXCEPT !.reading = TRUE, !.flag = @ \cup {"HANDLE_START", "READ_START"}]
<1>3. Deliver(h, "connect", why, q) \/ Update(h, r)
  BY <1>2
<1>4. uv \in {"connected", "broken"}
  OBVIOUS
<1> HIDE DEF uv
<1>5. r \in Resources /\ r.obj = tcp[h].obj /\ r.uv = uv /\ r.flag = tcp[h].flag
  BY <1>1, <1>4 DEF Resources, UvStates
<1> HIDE DEF r
<1>6. r.flag \cup {"HANDLE_START", "READ_START"} \in SUBSET Flags
  BY <1>5 DEF Resources, Flags
<1>7. /\ q \in Resources /\ q.obj = r.obj /\ q.uv = r.uv
      /\ q.flag = r.flag \cup {"HANDLE_START", "READ_START"}
  BY <1>5, <1>6 DEF Resources
<1> HIDE DEF q
<1>8. Phase(r) = Phase(tcp[h]) /\ Phase(q) = Phase(tcp[h])
  BY <1>1, <1>4, <1>5, <1>7 DEF Phase
<1>9. (Pinned(r) => Pinned(tcp[h])) /\ (Pinned(q) => Pinned(tcp[h]))
  BY <1>5, <1>7 DEF Pinned
<1> QED
  BY <1>1, <1>3, <1>5, <1>7, <1>8, <1>9, DeliverUses, UpdateUses

LEMMA ReadDataLife == ASSUME IInv, NEW h \in Handles, ReadData(h) PROVE OneStep(h)
<1>1. tcp[h] \in Resources /\ LoopTurn(h) /\ PinsKept /\ tcp[h].obj = "live"
  BY ReadDataInv DEF IInv, ReadData, LoopTurn
<1> QED
  BY <1>1, DeliverUses DEF ReadData

\* Without an error callback the handler closes the socket at once.
LEMMA ReadElseLife == ASSUME IInv, NEW h \in Handles, ReadElse(h) PROVE OneStep(h)
<1> DEFINE q == TcpCloseSocket(tcp[h])
<1>1. /\ tcp[h] \in Resources /\ LoopTurn(h) /\ PinsKept /\ tcp[h].obj = "live"
      /\ Accounted(tcp[h], 0) /\ Coherent(tcp[h])
  BY EventReady, ReadElseInv DEF IInv, ReadElse, LoopTurn
<1>2. PICK why \in {"zero", "eof"} :
        Deliver(h, "error", why, IF tcp[h].slot.error = "null" THEN q ELSE tcp[h])
  BY DEF ReadElse
<1>3. CASE tcp[h].slot.error # "null"
  BY <1>1, <1>2, <1>3, DeliverUses
<1>4. CASE tcp[h].slot.error = "null"
  <2>1. tcp[h].uv \in {"connected", "broken"} /\ Deliver(h, "error", why, q)
    BY <1>2, <1>4 DEF ReadElse
  <2>2. q.slot = tcp[h].slot /\ q.uv = "closing"
    BY <1>1, <2>1 DEF TcpCloseSocket, UvClose, Resources, Coherent
  <2>3. q.obj = "live" /\ q.script = tcp[h].script /\ (Pinned(q) <=> Pinned(tcp[h]))
    BY <1>1, CloseShape
  <2> HIDE DEF q
  <2>4. tcp' = [tcp EXCEPT ![h] = q] /\ frame' = frame
    BY <1>4, <2>1, <2>2 DEF Deliver
  <2>5. tcp'[h] = q
    BY <2>4 DEF IInv
  <2>6. Starts(h)
    BY <1>1, <2>1, <2>2, <2>3, <2>4, <2>5 DEF Starts, Phase, Held
  <2>7. \A g \in Handles \ {h} : Same(g)
    BY <2>4 DEF Same, Held
  <2> QED
    BY <2>6, <2>7 DEF OneStep, LifeStep
<1> QED
  BY <1>3, <1>4

LEMMA WriteCbLife == ASSUME IInv, NEW h \in Handles, WriteCb(h) PROVE OneStep(h)
<1> DEFINE q == [tcp[h] EXCEPT !.writes = @ - 1]
<1>1. /\ tcp[h] \in Resources /\ LoopTurn(h) /\ PinsKept /\ tcp[h].obj = "live"
      /\ Deliver(h, "write", "ok", q) \/ Update(h, q)
  BY WriteCbInv DEF IInv, WriteCb, LoopTurn
<1>2. tcp[h].writes - 1 \in Nat
  BY <1>1 DEF WriteCb, Resources
<1>3. q \in Resources /\ q.obj = tcp[h].obj /\ q.uv = tcp[h].uv /\ q.flag = tcp[h].flag
  BY <1>1, <1>2 DEF Resources
<1> HIDE DEF q
<1>4. Phase(q) = Phase(tcp[h]) /\ (Pinned(q) => Pinned(tcp[h]))
  BY <1>3 DEF Phase, Pinned
<1> QED
  BY <1>1, <1>3, <1>4, DeliverUses, UpdateUses

LEMMA ShutdownCbLife == ASSUME IInv, NEW h \in Handles, ShutdownCb(h) PROVE OneStep(h)
<1> DEFINE q == [tcp[h] EXCEPT !.shut = "done"]
<1>1. /\ tcp[h] \in Resources /\ LoopTurn(h) /\ PinsKept /\ tcp[h].obj = "live"
      /\ Deliver(h, "shutdown", "ok", q)
  BY ShutdownCbInv DEF IInv, ShutdownCb, LoopTurn
<1>2. q \in Resources /\ q.obj = tcp[h].obj /\ q.uv = tcp[h].uv /\ q.flag = tcp[h].flag
  BY <1>1 DEF Resources
<1> HIDE DEF q
<1> QED
  BY <1>1, <1>2, DeliverUses DEF Phase, Pinned

LEMMA CancelConnectLife == ASSUME IInv, NEW h \in Handles, CancelConnect(h) PROVE OneStep(h)
<1> DEFINE q == [tcp[h] EXCEPT !.conn = FALSE]
<1>1. /\ tcp[h] \in Resources /\ PinsKept /\ tcp[h].obj = "live" /\ Update(h, q)
  BY CancelConnectInv DEF IInv, CancelConnect, LoopTurn
<1>2. q.obj = tcp[h].obj /\ q.uv = tcp[h].uv /\ q.flag = tcp[h].flag
  BY <1>1 DEF Resources
<1> HIDE DEF q
<1> QED
  BY <1>1, <1>2, UpdateUses DEF Phase, Pinned

\* tcp_close_cb: libuv is done, and the object goes if the pin was all it had.
LEMMA TcpCloseCbLife == ASSUME IInv, NEW h \in Handles, TcpCloseCb(h) PROVE OneStep(h)
<1> DEFINE c == [tcp[h] EXCEPT !.uv = "closed"]
           u == Unregister(c)
           q == [u EXCEPT !.flag = @ \ {"INTERNAL_REF"}]
           e == ReleaseResource(c)
<1>1. /\ Accounted(tcp[h], 0) /\ tcp[h] \in Resources /\ tcp[h].uv = "closing"
      /\ tcp[h].obj = "live" /\ frame = Idle /\ Update(h, e)
  BY EventReady DEF TcpCloseCb, LoopTurn
<1>2. /\ c \in Resources /\ c.uv = "closed" /\ c.rc = tcp[h].rc /\ c.obj = "live"
      /\ c.script = tcp[h].script /\ c.flag = tcp[h].flag
  BY <1>1 DEF Resources, UvStates
<1> HIDE DEF c
<1>3. /\ u \in Resources /\ u.uv = "closed" /\ u.rc = tcp[h].rc /\ u.obj = "live"
      /\ u.script = tcp[h].script /\ (Pinned(u) <=> Pinned(tcp[h]))
  BY <1>2 DEF Unregister, Resources, Pinned
<1>4. e = IF Pinned(u) THEN Deref(q) ELSE u
  BY DEF ReleaseResource
<1> HIDE DEF u
<1>5. /\ q \in Resources /\ q.uv = "closed" /\ q.rc = tcp[h].rc /\ q.obj = "live"
      /\ q.script = tcp[h].script /\ ~Pinned(q)
  BY <1>3 DEF Resources, Pinned
<1> HIDE DEF q
<1>6. Pinned(tcp[h]) /\ tcp[h].rc = 1 => tcp[h].script = 0
  <2>1. tcp[h].script \in Nat /\ Captures(tcp[h].slot) \in Nat
    BY <1>1, CapturesNat DEF Resources
  <2> QED
    BY <1>1, <2>1 DEF Accounted, PinRef
<1>7. /\ e.obj \in {"live", "freed"} /\ Phase(e) = "closed" /\ ~Pinned(e)
      /\ e.script > 0 <=> tcp[h].script > 0
  <2>1. CASE ~Pinned(u)
    BY <1>3, <1>4, <2>1 DEF Phase
  <2>2. CASE Pinned(u) /\ q.rc # 1
    BY <1>4, <1>5, <2>2, DerefShape DEF Phase
  <2>3. CASE Pinned(u) /\ q.rc = 1
    <3>1. e = Free(q) /\ tcp[h].script = 0
      BY <1>3, <1>4, <1>5, <1>6, <2>3 DEF Deref
    <3> QED
      BY <1>5, <3>1, FreeAbsent DEF Phase, Absent
  <2> QED
    BY <2>1, <2>2, <2>3
<1> HIDE DEF e
<1>8. tcp' = [tcp EXCEPT ![h] = e] /\ frame' = frame /\ tcp'[h] = e
  BY <1>1 DEF Update, IInv
<1>9. Closes(h)
  BY <1>1, <1>7, <1>8 DEF Closes, Phase, Held
<1>10. \A g \in Handles \ {h} : Same(g)
  BY <1>8 DEF Same, Held
<1> QED
  BY <1>9, <1>10 DEF OneStep, LifeStep

\* The running callback held the object; read_cb may close the socket then.
LEMMA ReturnLife == ASSUME IInv, Return PROVE \E h \in Handles : OneStep(h)
<1> DEFINE h == frame.h
           r == tcp[h]
           d == Deref(r)
           q == IF frame.kind = "error" THEN TcpCloseSocket(d) ELSE d
<1>1. h \in Handles /\ FrameRef(h) = 1 /\ Held(h) /\ PinsKept
  BY ReturnInv DEF IInv, Return, Frames, FrameRef, Held
<1>2. Accounted(r, 1) /\ Coherent(r) /\ r \in Resources /\ r.obj = "live"
  BY <1>1 DEF IInv, RInv, Absent, Accounted
<1>3. tcp' = [tcp EXCEPT ![h] = q] /\ frame' = Idle /\ tcp'[h] = q
  BY <1>1 DEF Return, IInv
<1>4. \A g \in Handles \ {h} : Same(g)
  BY <1>3, HandlesAssumption DEF Same, Held, Idle
<1>5. d.obj \in {"live", "freed"} /\ Phase(d) = Phase(r) /\ (Pinned(d) => Pinned(r))
  BY <1>2, DerefShape
<1>6. frame.kind = "error" => Accounted(d, 0) /\ Coherent(d)
  <2> SUFFICES ASSUME frame.kind = "error" PROVE Accounted(d, 0) /\ Coherent(d)
    OBVIOUS
  <2>1. Pinned(r)
    BY DEF IInv
  <2>2. r.rc = r.script + 0 + PinRef(r) + Captures(r.slot) + 1 /\ r.rc > 0
    <3>1. r.script \in Nat /\ Captures(r.slot) \in Nat /\ PinRef(r) \in {0, 1}
      BY <1>2, CapturesNat DEF Resources, PinRef
    <3> QED
      BY <1>2, <3>1 DEF Accounted
  <2> QED
    BY <1>2, <2>1, <2>2, DerefInv DEF RInv, Absent, Accounted
<1> HIDE DEF d
<1>7. CASE frame.kind # "error"
  <2>1. Uses(h)
    BY <1>1, <1>2, <1>3, <1>5, <1>7 DEF Uses, PinsKept
  <2> QED
    BY <1>1, <1>4, <2>1 DEF OneStep, LifeStep
<1>8. CASE frame.kind = "error"
  <2>1. q = TcpCloseSocket(d)
    BY <1>8
  <2>2. /\ q.obj = "live" /\ (Pinned(q) <=> Pinned(d))
        /\ Phase(q) = Phase(d) \/ (Phase(d) = "open" /\ Phase(q) = "closing")
    BY <1>6, <1>8, <2>1, CloseShape
  <2> HIDE DEF q
  <2>3. Pinned(q) <=> Pinned(r)
    BY <1>1, <1>3, <1>5, <2>2 DEF PinsKept
  <2>4. Uses(h) \/ Starts(h)
    BY <1>1, <1>2, <1>3, <1>5, <2>2, <2>3 DEF Uses, Starts
  <2> QED
    BY <1>1, <1>4, <2>4 DEF OneStep, LifeStep
<1> QED
  BY <1>7, <1>8

----------------------------------------------------------------------------
(* The refinement.                                                          *)

LEMMA NextLife == ASSUME IInv, NotMade, Next PROVE \E h \in Handles : OneStep(h)
<1>1. CASE Return
  BY <1>1, ReturnLife
<1>2. ASSUME NEW h \in Handles, ScriptCall(h) PROVE \E g \in Handles : OneStep(g)
  BY <1>2, NewLife, ListenLife, ConnectLife, SetCallbackLife, ShutdownLife, WriteLife,
     CloseLife, NamesLife, KeepLife, DropLife, AcceptLife DEF ScriptCall
<1>3. ASSUME NEW h \in Handles, Collect(h) \/ LoopEvent(h) PROVE OneStep(h)
  BY <1>3, CollectLife, ConnectionCbLife, ClientConnectionCbLife, ReadDataLife, ReadElseLife,
     WriteCbLife, ShutdownCbLife, CancelConnectLife, TcpCloseCbLife DEF LoopEvent
<1> QED
  BY <1>1, <1>2, <1>3 DEF Next

LEMMA InitLife == Init => NotMade /\ Life!Init
BY HandlesAssumption
DEF Init, NotMade, Phase, Blank, Pinned, Idle, Life!Init

\* A step of UVTcp is a step of HandleLife, or one it does not see.
LEMMA StepLife ==
    ASSUME IInv, NotMade, [Next]_vars PROVE NotMade' /\ [Life!Next]_Life!vars
<1>1. CASE UNCHANGED vars
  BY <1>1 DEF vars, NotMade, Phase, Pinned, Life!vars
<1>2. CASE Next
  <2>1. PICK h \in Handles : OneStep(h)
    BY <1>2, NextLife
  <2>2. IInv'
    BY NextStep
  <2>3. NotMade'
    BY <2>1 DEF NotMade, OneStep, LifeStep, Same, Creates, Uses, Starts, Closes, Phase
  <2>4. [Life!Next]_Life!vars
    BY <2>1, <2>2, LifeStepMaps DEF OneStep
  <2> QED
    BY <2>3, <2>4
<1> QED
  BY <1>1, <1>2

\* UVTcp keeps the promise of HandleLife: whatever the script calls and in
\* whatever order libuv answers, an object goes only when no variable or running
\* callback refers to it and libuv is not owed it, and the debt ends only in
\* tcp_close_cb.
THEOREM ImplementsHandleLife == Spec => KeepsLife
<1>1. IInv /\ NotMade /\ [Next]_vars => NotMade' /\ [Life!Next]_Life!vars
  BY StepLife
<1>2. Spec => Life!Init
  BY InitLife DEF Spec
<1>3. Spec => [][Life!Next]_Life!vars
  BY <1>1, InitLife, Invariance, PTL DEF Spec
<1> QED
  BY <1>2, <1>3 DEF KeepsLife, Life!Spec

=============================================================================
