---------------------------- MODULE UVUdp_proofs ----------------------------
(***************************************************************************)
(* Safety of UVUdp for every set of objects and closures and every bound.  *)
(* setCallback() takes the reference of the pin without looking whether    *)
(* there is one: that this is right rests on the pin and READ_START coming *)
(* and going together, which is the heart of the invariant.                *)
(***************************************************************************)
EXTENDS UVUdp, TLAPS

----------------------------------------------------------------------------
(* The inductive invariant.                                                 *)

FrameRef(s) == IF frame.s = s THEN 1 ELSE 0

PinRef(r) == IF Pinned(r) THEN 1 ELSE 0

Receiving(r) == "READ_START" \in r.flag

Owned == [recv : Closures, send : Closures, error : Closures]

\* What the flags say of the slots and of libuv.
Coherent(r) ==
    /\ Pinned(r) <=> Receiving(r)
    /\ Receiving(r) => r.slot \in Owned
    /\ r.reading => Receiving(r)

\* Every reference to a living object is accounted for.
Accounted(r, n) ==
    /\ r \in Resources /\ n \in {0, 1} /\ r.obj = "live"
    /\ r.rc > 0 /\ r.rc = r.script + n + PinRef(r) + Captures(r.slot)

Absent(r, n) ==
    r \in Resources /\ r.obj # "live" /\ r.script = 0 /\ n = 0 /\ ~Pinned(r)

RInv(r, n) == (Accounted(r, n) \/ Absent(r, n)) /\ Coherent(r)

UInv ==
    /\ udp \in [Sockets -> Resources]
    /\ frame \in Frames
    /\ \A s \in Sockets : RInv(udp[s], FrameRef(s))

\* What CallbacksKept says of a step.
SlotsKept ==
    \A s \in Sockets :
        Receiving(udp[s]) /\ udp'[s].obj = "live" => udp'[s].slot = udp[s].slot

----------------------------------------------------------------------------
(* The helpers, on one resource.                                            *)

LEMMA CapturesNat == ASSUME NEW c \in Slots PROVE Captures(c) \in Nat
BY DEF Captures, Ref

LEMMA NoSlotsFacts == NoSlots \in Slots /\ Captures(NoSlots) = 0
BY DEF NoSlots, Slots, SlotValues, Captures, Ref

LEMMA PinBit == \A r : PinRef(r) \in {0, 1}
BY DEF PinRef

\* Nothing but libuv's view, the cached name and the queue change.
LEMMA Unchanged ==
    ASSUME NEW r, NEW n, Accounted(r, n), Coherent(r),
           NEW q \in Resources, q.obj = r.obj, q.rc = r.rc, q.script = r.script,
           q.slot = r.slot, Pinned(q) = Pinned(r), Receiving(q) = Receiving(r),
           q.reading => r.reading
    PROVE  Accounted(q, n) /\ Coherent(q)
BY DEF Accounted, Coherent, PinRef

LEMMA FreeInv ==
    ASSUME NEW r \in Resources, Coherent(r)
    PROVE  RInv(Free(r), 0) /\ Free(r).obj = "freed"
<1> DEFINE u == Unregister(r)
<1>1. u \in Resources /\ u.flag = r.flag \ {"READ_START", "HANDLE_START"} /\ ~u.reading
  BY DEF Unregister, Resources, Flags, Coherent, Receiving
<1> HIDE DEF u
<1> DEFINE v == [u EXCEPT !.obj = "freed", !.rc = 0, !.script = 0]
           w == [v EXCEPT !.slot = NoSlots, !.flag = @ \ {"INTERNAL_REF"}]
<1>2. /\ v \in Resources /\ v.obj = "freed" /\ v.script = 0 /\ v.flag = u.flag
      /\ v.reading = u.reading /\ v.slot = u.slot
  BY <1>1 DEF Resources
<1>3. Free(r) = w
  BY <1>1 DEF Free, u, Resources
<1> HIDE DEF v
<1>4. v.flag \ {"INTERNAL_REF"} \in SUBSET Flags
  BY <1>2 DEF Resources
<1>5. /\ w \in Resources /\ w.obj = "freed" /\ w.script = 0
      /\ w.flag = v.flag \ {"INTERNAL_REF"} /\ w.reading = v.reading
  BY <1>2, <1>4, NoSlotsFacts DEF Resources
<1> HIDE DEF w
<1>6. ~Pinned(w) /\ ~Receiving(w) /\ ~w.reading
  BY <1>1, <1>2, <1>5 DEF Pinned, Receiving
<1> QED
  BY <1>3, <1>5, <1>6 DEF RInv, Absent, Coherent

\* Giving up one of the references: r counts one more than its holders.
LEMMA DerefInv ==
    ASSUME NEW r \in Resources, NEW n \in {0, 1}, Coherent(r), r.obj = "live", r.rc > 0,
           r.rc = r.script + n + PinRef(r) + Captures(r.slot) + 1
    PROVE  RInv(Deref(r), n) /\ (Deref(r).obj = "live" => Deref(r).slot = r.slot)
<1>1. r.rc \in Nat /\ r.script \in Nat /\ Captures(r.slot) \in Nat /\ PinRef(r) \in {0, 1}
  BY CapturesNat, PinBit DEF Resources
<1>2. CASE r.rc = 1
  <2>1. n = 0
    BY <1>1, <1>2
  <2> QED
    BY <1>2, <2>1, FreeInv DEF Deref
<1>3. CASE r.rc # 1
  <2> DEFINE q == [r EXCEPT !.rc = @ - 1]
  <2>1. r.rc - 1 \in Nat /\ r.rc - 1 > 0
    BY <1>1, <1>3
  <2>2. Deref(r) = q
    BY <1>3 DEF Deref
  <2>3. /\ q \in Resources /\ q.rc = r.rc - 1 /\ q.obj = r.obj /\ q.script = r.script
        /\ q.slot = r.slot /\ q.flag = r.flag /\ q.reading = r.reading
    BY <2>1 DEF Resources
  <2> HIDE DEF q
  <2>4. PinRef(q) = PinRef(r) /\ Coherent(q)
    BY <2>3 DEF PinRef, Pinned, Coherent, Receiving
  <2>5. Accounted(q, n)
    BY <1>1, <2>1, <2>3, <2>4 DEF Accounted
  <2> QED
    BY <2>2, <2>3, <2>4, <2>5 DEF RInv
<1> QED
  BY <1>2, <1>3

\* Storing closures keeps the count exact.
LEMMA SetSlotsAccounted ==
    ASSUME NEW r, NEW n, Accounted(r, n), r.script + n > 0,
           NEW f \in SlotValues, NEW g \in SlotValues, NEW e \in SlotValues,
           NEW q, q = SetSlots(r, f, g, e)
    PROVE  /\ Accounted(q, n) /\ q.flag = r.flag /\ q.reading = r.reading
           /\ q.slot = [recv |-> f, send |-> g, error |-> e]
<1> DEFINE c == [recv |-> f, send |-> g, error |-> e]
           k == (r.rc + Captures(c)) - Captures(r.slot)
<1>1. c \in Slots /\ r \in Resources /\ r.slot \in Slots
  BY DEF Slots, Accounted, Resources
<1>2. /\ r.rc \in Nat /\ r.script \in Nat /\ n \in {0, 1} /\ PinRef(r) \in {0, 1}
      /\ Captures(c) \in Nat /\ Captures(r.slot) \in Nat
  BY <1>1, CapturesNat, PinBit DEF Accounted, Resources
<1>3. q = [r EXCEPT !.slot = c, !.rc = k]
  BY <1>1 DEF SetSlots, Resources
<1>4. k = r.script + n + PinRef(r) + Captures(c) /\ k \in Nat /\ k > 0
  BY <1>2 DEF Accounted
<1> HIDE DEF k, c
<1>5. /\ q \in Resources /\ q.slot = c /\ q.rc = k /\ q.flag = r.flag
      /\ q.reading = r.reading /\ q.obj = r.obj /\ q.script = r.script
  BY <1>1, <1>3, <1>4 DEF Resources
<1>6. PinRef(q) = PinRef(r)
  BY <1>5 DEF PinRef, Pinned
<1> QED
  BY <1>4, <1>5, <1>6 DEF Accounted, c

----------------------------------------------------------------------------
(* A step changes one resource.                                             *)

LEMMA StepInv ==
    ASSUME UInv, NEW s \in Sockets, NEW q, udp' = [udp EXCEPT ![s] = q],
           frame' \in Frames,
           \A t \in Sockets \ {s} : FrameRef(t)' = FrameRef(t),
           RInv(q, FrameRef(s)'),
           Receiving(udp[s]) /\ q.obj = "live" => q.slot = udp[s].slot
    PROVE  UInv' /\ SlotsKept
<1>1. q \in Resources
  BY DEF RInv, Accounted, Absent
<1>2. udp' \in [Sockets -> Resources]
  BY <1>1 DEF UInv
<1>3. ASSUME NEW t \in Sockets PROVE RInv(udp'[t], FrameRef(t)')
  BY DEF UInv
<1>4. SlotsKept
  BY DEF SlotsKept, UInv
<1> QED
  BY <1>2, <1>3, <1>4 DEF UInv

LEMMA UpdateInv ==
    ASSUME UInv, NEW s \in Sockets, NEW q, Update(s, q), RInv(q, FrameRef(s)),
           Receiving(udp[s]) /\ q.obj = "live" => q.slot = udp[s].slot
    PROVE  UInv' /\ SlotsKept
<1>1. frame' = frame /\ udp' = [udp EXCEPT ![s] = q] /\ frame' \in Frames
  BY DEF Update, UInv
<1>2. \A t \in Sockets : FrameRef(t)' = FrameRef(t)
  BY <1>1 DEF FrameRef
<1>3. RInv(q, FrameRef(s)')
  BY <1>2
<1> QED
  BY <1>1, <1>2, <1>3, StepInv

LEMMA NobodyRuns == ASSUME frame = Idle PROVE \A t \in Sockets : FrameRef(t) = 0
BY SocketsAssumption DEF FrameRef, Idle

LEMMA DeliverInv ==
    ASSUME UInv, NEW s \in Sockets, NEW q, frame = Idle,
           NEW kind \in {"recv", "send", "error"}, NEW why \in {"data", "zero", "fail", "ok"},
           Accounted(q, 0), Coherent(q), q.slot = udp[s].slot,
           Deliver(s, kind, why, q)
    PROVE  UInv' /\ SlotsKept
<1>1. q \in Resources /\ q.rc \in Nat /\ q.script \in Nat
  BY DEF Accounted, Resources
<1>2. CASE q.slot[kind] = "null"
  <2>1. Update(s, q)
    BY <1>2 DEF Deliver, Update
  <2> QED
    BY <2>1, NobodyRuns, UpdateInv DEF RInv
<1>3. CASE q.slot[kind] # "null"
  <2> DEFINE p == [q EXCEPT !.rc = @ + 1]
  <2>1. udp' = [udp EXCEPT ![s] = p] /\ frame' = [kind |-> kind, s |-> s, why |-> why]
    BY <1>3 DEF Deliver
  <2>2. /\ p \in Resources /\ p.rc = q.rc + 1 /\ p.obj = q.obj /\ p.script = q.script
        /\ p.slot = q.slot /\ p.flag = q.flag /\ p.reading = q.reading
    BY <1>1 DEF Resources
  <2> HIDE DEF p
  <2>3. PinRef(p) = PinRef(q) /\ Coherent(p)
    BY <2>2 DEF PinRef, Pinned, Coherent, Receiving
  <2>4. Captures(q.slot) \in Nat /\ PinRef(q) \in {0, 1}
    BY <1>1, CapturesNat, PinBit DEF Resources
  <2>5. Accounted(p, 1)
    BY <1>1, <2>2, <2>3, <2>4 DEF Accounted
  <2>6. \A t \in Sockets : FrameRef(t)' = IF t = s THEN 1 ELSE 0
    BY <2>1 DEF FrameRef
  <2>7. frame' \in Frames
    BY <2>1 DEF Frames
  <2> QED
    BY <2>1, <2>2, <2>3, <2>5, <2>6, <2>7, NobodyRuns, StepInv DEF RInv
<1> QED
  BY <1>2, <1>3

\* What a method finds, and what an event finds.
LEMMA Found ==
    ASSUME UInv, NEW s \in Sockets, udp[s].obj = "live"
    PROVE  /\ Accounted(udp[s], FrameRef(s)) /\ Coherent(udp[s]) /\ udp[s] \in Resources
           /\ FrameRef(s) \in {0, 1} /\ udp[s].rc \in Nat /\ udp[s].script \in Nat
           /\ Captures(udp[s].slot) \in Nat
BY CapturesNat DEF UInv, RInv, Absent, Accounted, Resources

----------------------------------------------------------------------------
(* The invariant is preserved by each action.                               *)

LEMMA InitInv == Init => UInv
<1> SUFFICES ASSUME Init PROVE UInv
  OBVIOUS
<1>1. Blank \in Resources
  BY NoSlotsFacts DEF Blank, Resources
<1>2. RInv(Blank, 0)
  BY <1>1 DEF RInv, Absent, Coherent, Pinned, Receiving, Blank
<1> QED
  BY <1>1, <1>2, NobodyRuns DEF Init, UInv, Frames

LEMMA NewInv == ASSUME UInv, NEW s \in Sockets, New(s) PROVE UInv' /\ SlotsKept
<1> DEFINE q == [Blank EXCEPT !.obj = "live", !.rc = 1, !.script = 1, !.uv = "init"]
<1>1. q \in Resources
  BY NoSlotsFacts DEF Blank, Resources
<1>2. Accounted(q, 0) /\ Coherent(q)
  BY <1>1, NoSlotsFacts DEF Accounted, Coherent, Pinned, Receiving, PinRef, Blank
<1>3. FrameRef(s) = 0 /\ ~Receiving(udp[s])
  BY DEF UInv, RInv, Accounted, Absent, Coherent, New
<1>4. Update(s, q)
  BY DEF New
<1> HIDE DEF q
<1> QED
  BY <1>2, <1>3, <1>4, UpdateInv DEF RInv

\* bind, sendTo, getSockname and close touch no reference.
LEMMA PlainInv ==
    ASSUME UInv, NEW s \in Sockets,
           Bind(s) \/ SendTo(s) \/ GetSockname(s) \/ Close(s)
    PROVE  UInv' /\ SlotsKept
<1> DEFINE r == udp[s]
<1>1. Accounted(r, FrameRef(s)) /\ Coherent(r) /\ r \in Resources
  BY Found DEF Bind, SendTo, GetSockname, Close, CanCall
<1>2. PICK q \in Resources :
        /\ Update(s, q) /\ q.obj = r.obj /\ q.rc = r.rc /\ q.script = r.script
        /\ q.slot = r.slot /\ Pinned(q) = Pinned(r) /\ Receiving(q) = Receiving(r)
        /\ q.reading => r.reading
  <2>1. CASE Bind(s)
    <3> DEFINE q == [r EXCEPT !.uv = "bound", !.flag = @ \cup {"HANDLE_START"}]
    <3>1. r.flag \cup {"HANDLE_START"} \in SUBSET Flags
      BY <1>1 DEF Resources, Flags
    <3>2. /\ q \in Resources /\ q.obj = r.obj /\ q.rc = r.rc /\ q.script = r.script
          /\ q.slot = r.slot /\ q.flag = r.flag \cup {"HANDLE_START"}
          /\ q.reading = r.reading
      BY <1>1, <3>1 DEF Resources
    <3>3. Update(s, q)
      BY <2>1 DEF Bind
    <3> HIDE DEF q
    <3> QED
      BY <3>2, <3>3 DEF Pinned, Receiving
  <2>2. CASE SendTo(s)
    <3> DEFINE q == [r EXCEPT !.uv = "bound", !.sends = @ + 1]
    <3>1. r.sends + 1 \in Nat
      BY <1>1 DEF Resources
    <3>2. /\ q \in Resources /\ q.obj = r.obj /\ q.rc = r.rc /\ q.script = r.script
          /\ q.slot = r.slot /\ q.flag = r.flag /\ q.reading = r.reading
      BY <1>1, <3>1 DEF Resources
    <3>3. Update(s, q)
      BY <2>2 DEF SendTo
    <3> HIDE DEF q
    <3> QED
      BY <3>2, <3>3 DEF Pinned, Receiving
  <2>3. CASE GetSockname(s)
    <3> DEFINE q == [r EXCEPT !.named = TRUE]
    <3>1. /\ q \in Resources /\ q.obj = r.obj /\ q.rc = r.rc /\ q.script = r.script
          /\ q.slot = r.slot /\ q.flag = r.flag /\ q.reading = r.reading
      BY <1>1 DEF Resources
    <3>2. Update(s, q)
      BY <2>3 DEF GetSockname
    <3> HIDE DEF q
    <3> QED
      BY <3>1, <3>2 DEF Pinned, Receiving
  <2>4. CASE Close(s)
    <3> DEFINE uv == IF Open(r) THEN "closing" ELSE "aborted"
               q == [r EXCEPT !.reading = FALSE, !.uv = uv]
    <3>1. uv \in {"closing", "aborted"} /\ Update(s, q)
      BY <2>4 DEF Close
    <3> HIDE DEF uv
    <3>2. /\ q \in Resources /\ q.obj = r.obj /\ q.rc = r.rc /\ q.script = r.script
          /\ q.slot = r.slot /\ q.flag = r.flag /\ ~q.reading
      BY <1>1, <3>1 DEF Resources
    <3> HIDE DEF q
    <3> QED
      BY <3>1, <3>2 DEF Pinned, Receiving
  <2> QED
    BY <2>1, <2>2, <2>3, <2>4
<1>3. Accounted(q, FrameRef(s)) /\ Coherent(q)
  BY <1>1, <1>2, Unchanged
<1> QED
  BY <1>2, <1>3, UpdateInv DEF RInv

\* An object that may set its callbacks is not pinned: the new reference is the
\* only one the pin has.
LEMMA SetCallbackInv == ASSUME UInv, NEW s \in Sockets, SetCallback(s) PROVE UInv' /\ SlotsKept
<1> DEFINE r == udp[s]
           n == FrameRef(s)
<1>1. /\ Accounted(r, n) /\ Coherent(r) /\ r \in Resources /\ n \in {0, 1}
      /\ r.script \in Nat /\ ~Receiving(r) /\ ~Pinned(r) /\ ~r.reading
  BY Found DEF SetCallback, CanCall, Coherent, Receiving
<1>2. r.script + n > 0
  BY <1>1 DEF SetCallback, CanCall, FrameRef
<1>3. ASSUME NEW f \in SlotValues, NEW g \in SlotValues, NEW e \in SlotValues,
             Update(s, SetSlots(r, f, g, e))
      PROVE  UInv' /\ SlotsKept
  <2> DEFINE q == SetSlots(r, f, g, e)
  <2>0. f \in SlotValues /\ g \in SlotValues /\ e \in SlotValues
    BY <1>3
  <2>1. /\ Accounted(q, n) /\ q.flag = r.flag /\ q.reading = r.reading
        /\ q.slot = [recv |-> f, send |-> g, error |-> e]
    BY <1>1, <1>2, <2>0, SetSlotsAccounted
  <2> HIDE DEF q
  <2>2. Coherent(q)
    BY <1>1, <2>1 DEF Coherent, Pinned, Receiving
  <2> QED
    BY <1>1, <1>3, <2>1, <2>2, UpdateInv DEF RInv, q
<1>4. ASSUME NEW f \in Closures, NEW g \in Closures, NEW e \in Closures,
             Update(s, [SetSlots(r, f, g, e) EXCEPT !.flag = Flags, !.rc = @ + 1,
                                                    !.uv = "bound", !.reading = TRUE])
      PROVE  UInv' /\ SlotsKept
  <2> DEFINE c == SetSlots(r, f, g, e)
             q == [c EXCEPT !.flag = Flags, !.rc = @ + 1, !.uv = "bound", !.reading = TRUE]
  <2>1. f \in SlotValues /\ g \in SlotValues /\ e \in SlotValues
    BY ClosuresAssumption DEF SlotValues
  <2>2. /\ Accounted(c, n) /\ c.flag = r.flag
        /\ c.slot = [recv |-> f, send |-> g, error |-> e]
    BY <1>1, <1>2, <2>1, SetSlotsAccounted
  <2> HIDE DEF c
  <2>3. /\ c \in Resources /\ c.rc \in Nat /\ c.script \in Nat
        /\ Captures(c.slot) \in Nat
    BY <2>2, CapturesNat DEF Accounted, Resources
  <2>4. /\ q \in Resources /\ q.rc = c.rc + 1 /\ q.flag = Flags /\ q.slot = c.slot
        /\ q.obj = c.obj /\ q.script = c.script /\ q.reading
    <3>1. c.rc + 1 \in Nat /\ Flags \in SUBSET Flags
      BY <2>3
    <3> QED
      BY <2>3, <3>1 DEF Resources
  <2> HIDE DEF q
  <2>5. Pinned(q) /\ Receiving(q) /\ ~Pinned(c)
    BY <1>1, <2>2, <2>4 DEF Pinned, Receiving, Flags
  <2>6. PinRef(c) = 0 /\ PinRef(q) = 1
    BY <2>5 DEF PinRef
  <2>7. Accounted(q, n)
    BY <1>1, <2>2, <2>3, <2>4, <2>6 DEF Accounted
  <2>8. Coherent(q)
    BY <2>2, <2>4, <2>5 DEF Coherent, Owned
  <2> QED
    BY <1>1, <1>4, <2>7, <2>8, UpdateInv DEF RInv, q, c
<1> QED
  BY <1>3, <1>4 DEF SetCallback, TrySetCallback, SlotValues

LEMMA KeepInv == ASSUME UInv, NEW s \in Sockets, Keep(s) PROVE UInv' /\ SlotsKept
<1> DEFINE r == udp[s]
           q == [r EXCEPT !.rc = @ + 1, !.script = @ + 1]
<1>1. /\ Accounted(r, FrameRef(s)) /\ Coherent(r) /\ r \in Resources
      /\ FrameRef(s) \in {0, 1} /\ r.rc \in Nat /\ r.script \in Nat /\ Captures(r.slot) \in Nat
  BY Found DEF Keep, CanCall
<1>2. r.rc + 1 \in Nat /\ r.script + 1 \in Nat
  BY <1>1
<1>3. /\ q \in Resources /\ q.rc = r.rc + 1 /\ q.script = r.script + 1 /\ q.obj = r.obj
      /\ q.slot = r.slot /\ q.flag = r.flag /\ q.reading = r.reading
  BY <1>1, <1>2 DEF Resources
<1>4. Update(s, q)
  BY DEF Keep
<1> HIDE DEF q
<1>5. PinRef(q) = PinRef(r) /\ PinRef(r) \in {0, 1} /\ Coherent(q)
  BY <1>1, <1>3, PinBit DEF PinRef, Pinned, Coherent, Receiving
<1>6. Accounted(q, FrameRef(s))
  BY <1>1, <1>3, <1>5 DEF Accounted
<1> QED
  BY <1>3, <1>4, <1>5, <1>6, UpdateInv DEF RInv

LEMMA DropInv == ASSUME UInv, NEW s \in Sockets, Drop(s) PROVE UInv' /\ SlotsKept
<1> DEFINE r == udp[s]
           q == [r EXCEPT !.script = @ - 1]
<1>1. /\ Accounted(r, FrameRef(s)) /\ Coherent(r) /\ r \in Resources
      /\ FrameRef(s) \in {0, 1} /\ r.rc \in Nat /\ r.script \in Nat /\ Captures(r.slot) \in Nat
      /\ r.script > 0
  BY Found DEF Drop
<1>2. r.script - 1 \in Nat
  BY <1>1
<1>3. /\ q \in Resources /\ q.rc = r.rc /\ q.script = r.script - 1 /\ q.obj = r.obj
      /\ q.slot = r.slot /\ q.flag = r.flag /\ q.reading = r.reading
  BY <1>1, <1>2 DEF Resources
<1>4. Update(s, Deref(q))
  BY DEF Drop
<1> HIDE DEF q
<1>5. PinRef(q) = PinRef(r) /\ PinRef(r) \in {0, 1} /\ Coherent(q)
  BY <1>1, <1>3, PinBit DEF PinRef, Pinned, Coherent, Receiving
<1>6. /\ q.rc = q.script + FrameRef(s) + PinRef(q) + Captures(q.slot) + 1
      /\ q.obj = "live" /\ q.rc > 0
  BY <1>1, <1>3, <1>5 DEF Accounted
<1>7. RInv(Deref(q), FrameRef(s)) /\ (Deref(q).obj = "live" => Deref(q).slot = r.slot)
  BY <1>1, <1>3, <1>5, <1>6, DerefInv
<1> QED
  BY <1>4, <1>7, UpdateInv

LEMMA CollectInv == ASSUME UInv, NEW s \in Sockets, Collect(s) PROVE UInv' /\ SlotsKept
<1> DEFINE r == udp[s]
<1>1. /\ Accounted(r, FrameRef(s)) /\ Coherent(r) /\ r \in Resources
      /\ FrameRef(s) \in {0, 1} /\ r.script \in Nat /\ Captures(r.slot) \in Nat
  BY Found DEF Collect
<1>2. FrameRef(s) = 0
  BY <1>1, PinBit DEF Collect, Accounted
<1>3. RInv(Free(r), 0) /\ Free(r).obj = "freed"
  BY <1>1, FreeInv
<1> QED
  BY <1>2, <1>3, UpdateInv DEF Collect

LEMMA SendCbInv == ASSUME UInv, NEW s \in Sockets, SendCb(s) PROVE UInv' /\ SlotsKept
<1> DEFINE r == udp[s]
           q == [r EXCEPT !.sends = @ - 1]
<1>1. Accounted(r, 0) /\ Coherent(r) /\ r \in Resources /\ frame = Idle
  BY Found, NobodyRuns DEF SendCb, LoopTurn
<1>2. r.sends - 1 \in Nat
  BY <1>1 DEF SendCb, Resources
<1>3. /\ q \in Resources /\ q.rc = r.rc /\ q.script = r.script /\ q.obj = r.obj
      /\ q.slot = r.slot /\ q.flag = r.flag /\ q.reading = r.reading
  BY <1>1, <1>2 DEF Resources
<1>4. Deliver(s, "send", "ok", q)
  BY DEF SendCb
<1> HIDE DEF q
<1>5. Accounted(q, 0) /\ Coherent(q)
  BY <1>1, <1>3, Unchanged DEF Pinned, Receiving
<1> QED
  BY <1>1, <1>3, <1>4, <1>5, DeliverInv

LEMMA RecvCbInv == ASSUME UInv, NEW s \in Sockets, RecvCb(s) PROVE UInv' /\ SlotsKept
<1>1. Accounted(udp[s], 0) /\ Coherent(udp[s]) /\ frame = Idle
  BY Found, NobodyRuns DEF RecvCb, LoopTurn
<1> QED
  BY <1>1, DeliverInv DEF RecvCb

\* close_cb: the pin goes, and perhaps the object.
LEMMA CloseCbInv == ASSUME UInv, NEW s \in Sockets, CloseCb(s) PROVE UInv' /\ SlotsKept
<1> DEFINE r == udp[s]
           c == [r EXCEPT !.uv = "closed"]
           u == Unregister(c)
           q == [u EXCEPT !.flag = @ \ {"INTERNAL_REF"}]
<1>1. /\ Accounted(r, 0) /\ Coherent(r) /\ r \in Resources /\ FrameRef(s) = 0
      /\ r.rc \in Nat /\ r.script \in Nat /\ Captures(r.slot) \in Nat
  BY Found, NobodyRuns DEF CloseCb, LoopTurn
<1>2. /\ c \in Resources /\ c.rc = r.rc /\ c.script = r.script /\ c.obj = r.obj
      /\ c.slot = r.slot /\ c.flag = r.flag /\ c.reading = r.reading
  BY <1>1 DEF Resources
<1>3. Update(s, Release(c))
  BY DEF CloseCb
<1> HIDE DEF c
<1>4. /\ u \in Resources /\ u.rc = r.rc /\ u.script = r.script /\ u.obj = "live"
      /\ u.slot = r.slot /\ u.flag = r.flag \ {"READ_START", "HANDLE_START"}
      /\ u.reading => r.reading /\ "READ_START" \notin r.flag
  BY <1>1, <1>2 DEF Unregister, Resources, Accounted
<1>5. Release(c) = IF Pinned(u) THEN Deref(q) ELSE u
  BY DEF Release
<1> HIDE DEF u
<1>6. /\ q \in Resources /\ q.rc = r.rc /\ q.script = r.script /\ q.obj = "live"
      /\ q.slot = r.slot /\ q.flag = u.flag \ {"INTERNAL_REF"} /\ q.reading = u.reading
  BY <1>4 DEF Resources
<1> HIDE DEF q
<1>7. (Pinned(u) <=> Pinned(r)) /\ ~Pinned(q) /\ ~Receiving(q) /\ ~Receiving(u)
      /\ ~q.reading /\ ~u.reading
  BY <1>1, <1>4, <1>6 DEF Pinned, Receiving, Coherent
<1>8. CASE ~Pinned(u)
  <2>1. Accounted(u, 0) /\ Coherent(u)
    BY <1>1, <1>4, <1>7, <1>8 DEF Accounted, Coherent, PinRef
  <2> QED
    BY <1>1, <1>3, <1>4, <1>5, <1>8, <2>1, UpdateInv DEF RInv
<1>9. CASE Pinned(u)
  <2>1. PinRef(r) = 1 /\ PinRef(q) = 0 /\ Coherent(q)
    BY <1>7, <1>9 DEF PinRef, Coherent
  <2>2. q.rc > 0 /\ q.rc = q.script + 0 + PinRef(q) + Captures(q.slot) + 1
    BY <1>1, <1>6, <2>1 DEF Accounted
  <2>3. RInv(Deref(q), 0) /\ (Deref(q).obj = "live" => Deref(q).slot = r.slot)
    BY <1>6, <2>1, <2>2, DerefInv
  <2> QED
    BY <1>1, <1>3, <1>5, <1>9, <2>3, UpdateInv
<1> QED
  BY <1>8, <1>9

LEMMA ReturnInv == ASSUME UInv, Return PROVE UInv' /\ SlotsKept
<1> DEFINE s == frame.s
           r == udp[s]
<1>1. s \in Sockets /\ FrameRef(s) = 1
  BY DEF UInv, Return, Frames, FrameRef
<1>2. r.obj = "live"
  BY <1>1 DEF UInv, RInv, Absent, Accounted
<1>3. /\ Accounted(r, 1) /\ Coherent(r) /\ r \in Resources
      /\ r.rc \in Nat /\ r.script \in Nat /\ Captures(r.slot) \in Nat
  BY <1>1, <1>2, Found
<1>4. r.rc > 0 /\ r.rc = r.script + 0 + PinRef(r) + Captures(r.slot) + 1
  BY <1>3, PinBit DEF Accounted
<1>5. RInv(Deref(r), 0) /\ (Deref(r).obj = "live" => Deref(r).slot = r.slot)
  BY <1>2, <1>3, <1>4, DerefInv
<1>6. udp' = [udp EXCEPT ![s] = Deref(r)] /\ frame' = Idle /\ frame' \in Frames
  BY DEF Return, Frames
<1>7. \A t \in Sockets : FrameRef(t)' = 0
  BY <1>6, SocketsAssumption DEF FrameRef, Idle
<1>8. \A t \in Sockets \ {s} : FrameRef(t) = 0
  BY DEF FrameRef
<1> QED
  BY <1>1, <1>5, <1>6, <1>7, <1>8, StepInv

LEMMA NextStep == ASSUME UInv, [Next]_vars PROVE UInv' /\ SlotsKept
<1>1. CASE Return
  BY <1>1, ReturnInv
<1>2. ASSUME NEW s \in Sockets, ScriptCall(s) \/ Collect(s) PROVE UInv' /\ SlotsKept
  BY <1>2, NewInv, PlainInv, SetCallbackInv, KeepInv, DropInv, CollectInv DEF ScriptCall
<1>3. ASSUME NEW s \in Sockets, LoopEvent(s) PROVE UInv' /\ SlotsKept
  BY <1>3, SendCbInv, RecvCbInv, CloseCbInv DEF LoopEvent
<1>4. CASE UNCHANGED vars
  BY <1>4 DEF UInv, vars, FrameRef, SlotsKept
<1> QED
  BY <1>1, <1>2, <1>3, <1>4 DEF Next

----------------------------------------------------------------------------
(* Theorems.                                                                *)

\* UInv holds in every state: the pin and READ_START come and go together, so the
\* reference setCallback() takes for the pin is the only one it has.
THEOREM Invariance == Spec => []UInv
<1>1. UInv /\ [Next]_vars => UInv'
  BY NextStep
<1> QED
  BY <1>1, InitInv, PTL DEF Spec

\* Resources and frames keep their types; no reference count goes below zero.
THEOREM TypeCorrect == Spec => []TypeOK
<1>1. UInv => TypeOK
  BY DEF UInv, TypeOK
<1> QED
  BY <1>1, Invariance, PTL

\* The reference count of a live UVUdp is exact, though setCallback() takes its
\* reference without a test and release() drops it from two places.
THEOREM RefcountsAreExact == Spec => []RefcountExact
<1>1. UInv => RefcountExact
  BY DEF UInv, RInv, Accounted, Absent, RefcountExact, FrameRef, PinRef
<1> QED
  BY <1>1, Invariance, PTL

\* Datagrams arrive only into a live, pinned object that owns its callbacks.
THEOREM ReceiversAreOwned == Spec => []ReceivingIsOwned
<1>1. UInv => ReceivingIsOwned
  BY DEF UInv, RInv, Absent, Accounted, Coherent, Owned, ReceivingIsOwned
<1> QED
  BY <1>1, Invariance, PTL

\* An object that has started to receive keeps its callbacks until close_cb or
\* its end.
THEOREM ReceiversKeepTheirCallbacks == Spec => CallbacksKept
<1> DEFINE Kept == \A s \in Sockets :
               "READ_START" \in udp[s].flag /\ udp'[s].obj = "live" =>
                   udp'[s].slot = udp[s].slot
<1>1. UInv /\ [Next]_vars => [Kept]_vars
  BY NextStep DEF SlotsKept, Receiving
<1> QED
  BY <1>1, Invariance, PTL DEF Spec, CallbacksKept

=============================================================================
