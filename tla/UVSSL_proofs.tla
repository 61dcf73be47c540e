---------------------------- MODULE UVSSL_proofs ----------------------------
(***************************************************************************)
(* Safety of UVSSL for every set of handles, every set of closures and     *)
(* every bound.  The lemmas on how UVTcp counts references are UVTcp's, by *)
(* the name Tcp; its invariant is not, for a UVSSL object is also held by  *)
(* its handshake callback, and a lookup that fails takes the pin of a      *)
(* handle that libuv may still owe something to.                           *)
(***************************************************************************)
EXTENDS UVSSL, TLAPS, Integers

Tcp == INSTANCE UVTcp_proofs WITH tcp <- ssl

USE HandlesAssumption, ClosuresAssumption, BoundsAssumption, LookupsAssumption

----------------------------------------------------------------------------
(* How references are counted.                                              *)

\* Every reference to a living object is accounted for: n of them are held by the
\* running callback and by the handshake callback.
Accounted(r, n) ==
    /\ r \in Stream!Resources
    /\ n \in Nat
    /\ r.obj = "live"
    /\ r.rc > 0
    /\ r.rc = r.script + n + Stream!PinRef(r) + Stream!Captures(r.slot)

Absent(r, n) ==
    /\ r \in Stream!Resources
    /\ r.obj # "live" /\ r.script = 0 /\ n = 0 /\ ~Stream!Pinned(r)

Counted(r, n) == Accounted(r, n) \/ Absent(r, n)

\* q differs from r in its count, its flags and its slots at most.
SameUv(q, r) ==
    /\ q.obj = r.obj /\ q.script = r.script
    /\ q.uv = r.uv /\ q.conn = r.conn /\ q.shut = r.shut

\* UVSSL uses UVTcp under the name Stream, UVTcp's proof is Tcp: the two are one
\* module over one variable.
LEMMA SameHelpers ==
    /\ Stream!Resources = Tcp!Resources /\ Stream!Slots = Tcp!Slots
    /\ Stream!NoSlots = Tcp!NoSlots
    /\ \A s : Stream!Captures(s) = Tcp!Captures(s)
    /\ \A r : Stream!Pinned(r) <=> Tcp!Pinned(r)
    /\ \A r, s : Stream!SetSlots(r, s) = Tcp!SetSlots(r, s)
    /\ \A r : Stream!SetSelfReference(r) = Tcp!SetSelfReference(r)
    /\ \A r : Stream!Free(r) = Tcp!Free(r)
BY DEF Stream!Resources, Tcp!Resources, Stream!Slots, Tcp!Slots, Stream!SlotValues,
   Tcp!SlotValues, Stream!NoSlots, Tcp!NoSlots, Stream!Flags, Tcp!Flags,
   Stream!UvStates, Tcp!UvStates, Stream!Captures, Tcp!Captures, Stream!Ref, Tcp!Ref,
   Stream!Pinned, Tcp!Pinned, Stream!SetSlots, Tcp!SetSlots,
   Stream!SetSelfReference, Tcp!SetSelfReference,
   Stream!Free, Tcp!Free, Stream!Unregister, Tcp!Unregister

LEMMA SameCounts ==
    /\ \A r, n : Accounted(r, n) <=> Tcp!Accounted(r, n)
    /\ \A r, n : Absent(r, n) <=> Tcp!Absent(r, n)
    /\ \A q, r : SameUv(q, r) <=> Tcp!SameUv(q, r)
BY SameHelpers DEF Accounted, Tcp!Accounted, Absent, Tcp!Absent, SameUv, Tcp!SameUv,
   Stream!PinRef, Tcp!PinRef

LEMMA CapturesNat == ASSUME NEW s \in Stream!Slots PROVE Stream!Captures(s) \in Nat
BY SameHelpers, Tcp!CapturesNat

LEMMA CapturesNoSlots ==
    Stream!Captures(Stream!NoSlots) = 0 /\ Stream!NoSlots \in Stream!Slots
BY SameHelpers, Tcp!CapturesNoSlots

\* Storing closures and taking the reference on itself keep the count exact.
LEMMA SetSlotsAccounted ==
    ASSUME NEW r, NEW n, NEW s \in Stream!Slots, Accounted(r, n), r.script + n > 0
    PROVE  /\ Accounted(Stream!SetSlots(r, s), n)
           /\ SameUv(Stream!SetSlots(r, s), r)
           /\ Stream!SetSlots(r, s).slot = s /\ Stream!SetSlots(r, s).flag = r.flag
<1>1. Tcp!Accounted(r, n) /\ s \in Tcp!Slots
  BY SameHelpers, SameCounts
<1>2. /\ Tcp!Accounted(Tcp!SetSlots(r, s), n) /\ Tcp!SameUv(Tcp!SetSlots(r, s), r)
      /\ Tcp!SetSlots(r, s).slot = s /\ Tcp!SetSlots(r, s).flag = r.flag
  BY <1>1, Tcp!SetSlotsAccounted
<1>3. Stream!SetSlots(r, s) = Tcp!SetSlots(r, s)
  BY SameHelpers
<1> QED
  BY <1>2, <1>3, SameCounts

LEMMA SelfReferenceAccounted ==
    ASSUME NEW r, NEW n, Accounted(r, n)
    PROVE  LET q == Stream!SetSelfReference(r)
           IN  /\ Accounted(q, n) /\ SameUv(q, r) /\ q.slot = r.slot
               /\ q.flag = r.flag \cup {"INTERNAL_REF"}
BY SameHelpers, SameCounts, Tcp!SelfReferenceAccounted

\* What giving up references leaves of libuv's view of the handle, of the flags
\* and of the error callback.
SameView(q, r) ==
    /\ q.uv = r.uv /\ q.conn = r.conn /\ q.shut = r.shut
    /\ q.obj \in {r.obj, "freed"} /\ q.flag \subseteq r.flag
    /\ "CLOSING_START" \in q.flag <=> "CLOSING_START" \in r.flag
    /\ q.slot.error \in {r.slot.error, "null"}

LEMMA FreeAbsent ==
    ASSUME NEW r \in Stream!Resources
    PROVE  LET q == Stream!Free(r)
           IN  /\ Absent(q, 0) /\ q.obj = "freed" /\ SameView(q, r)
<1>1. /\ Absent(Stream!Free(r), 0) /\ Stream!Free(r).obj = "freed"
      /\ Stream!Free(r).slot = Stream!NoSlots
      /\ Stream!Free(r).flag = r.flag \ {"READ_START", "HANDLE_START", "INTERNAL_REF"}
      /\ Stream!Free(r).uv = r.uv /\ Stream!Free(r).conn = r.conn
      /\ Stream!Free(r).shut = r.shut
  BY SameHelpers, SameCounts, Tcp!FreeAbsent
<1> QED
  BY <1>1 DEF SameView, Stream!NoSlots

\* Giving up one reference: the object is freed only if it was the last.
LEMMA DerefCounted ==
    ASSUME NEW r \in Stream!Resources, NEW n \in Nat, r.obj = "live", r.rc > 0,
           r.rc = r.script + n + Stream!PinRef(r) + Stream!Captures(r.slot) + 1
    PROVE  LET q == Stream!Deref(r)
           IN  /\ Counted(q, n) /\ SameView(q, r)
               /\ Stream!Pinned(r) \/ n > 0 => Accounted(q, n) /\ q.flag = r.flag
<1>1. r.rc \in Nat /\ r.script \in Nat /\ Stream!Captures(r.slot) \in Nat
  BY CapturesNat DEF Stream!Resources
<1>2. Stream!PinRef(r) \in {0, 1} /\ (Stream!Pinned(r) => Stream!PinRef(r) = 1)
  BY DEF Stream!PinRef
<1>3. CASE r.rc = 1
  <2>1. n = 0 /\ ~Stream!Pinned(r) /\ Stream!Deref(r) = Stream!Free(r)
    BY <1>1, <1>2, <1>3 DEF Stream!Deref
  <2> QED
    BY <2>1, FreeAbsent DEF Counted
<1>4. CASE r.rc # 1
  <2> DEFINE q == [r EXCEPT !.rc = @ - 1]
  <2>1. q = Stream!Deref(r)
    BY <1>4 DEF Stream!Deref
  <2>2. r.rc - 1 \in Nat /\ r.rc - 1 > 0
    BY <1>1, <1>4
  <2>3. /\ q \in Stream!Resources /\ q.obj = r.obj /\ q.script = r.script
        /\ q.rc = r.rc - 1 /\ q.slot = r.slot /\ q.flag = r.flag
        /\ q.uv = r.uv /\ q.conn = r.conn /\ q.shut = r.shut
    BY <2>2 DEF Stream!Resources
  <2> HIDE DEF q
  <2>4. Stream!PinRef(q) = Stream!PinRef(r)
    BY <2>3 DEF Stream!PinRef, Stream!Pinned
  <2>5. Accounted(q, n)
    BY <1>1, <1>2, <2>2, <2>3, <2>4 DEF Accounted
  <2>6. SameView(q, r)
    BY <2>3 DEF SameView
  <2> QED
    BY <2>1, <2>3, <2>5, <2>6 DEF Counted
<1> QED
  BY <1>3, <1>4

\* releaseResource gives the pin back if there is one.
LEMMA ReleaseCounted ==
    ASSUME NEW r, NEW n, Accounted(r, n)
    PROVE  LET q == Stream!ReleaseResource(r)
           IN  Counted(q, n) /\ SameView(q, r)
<1> DEFINE u == Stream!Unregister(r)
           p == [u EXCEPT !.flag = @ \ {"INTERNAL_REF"}]
<1>1. r \in Stream!Resources /\ n \in Nat
  BY DEF Accounted
<1>2. /\ u \in Stream!Resources /\ u.obj = r.obj /\ u.script = r.script
      /\ u.rc = r.rc /\ u.slot = r.slot
      /\ u.flag = r.flag \ {"READ_START", "HANDLE_START"}
      /\ u.uv = r.uv /\ u.conn = r.conn /\ u.shut = r.shut
  BY <1>1 DEF Stream!Unregister, Stream!Resources
<1>3. Stream!ReleaseResource(r) = IF Stream!Pinned(u) THEN Stream!Deref(p) ELSE u
  BY DEF Stream!ReleaseResource
<1> HIDE DEF u
<1>4. /\ p \in Stream!Resources /\ p.obj = r.obj /\ p.script = r.script
      /\ p.rc = r.rc /\ p.slot = r.slot /\ p.flag = u.flag \ {"INTERNAL_REF"}
      /\ p.uv = r.uv /\ p.conn = r.conn /\ p.shut = r.shut
  BY <1>2 DEF Stream!Resources
<1> HIDE DEF p
<1>5. SameView(u, r)
  BY <1>2 DEF SameView
<1>6. CASE ~Stream!Pinned(u)
  <2>1. Stream!PinRef(u) = Stream!PinRef(r)
    BY <1>2 DEF Stream!PinRef, Stream!Pinned
  <2>2. Accounted(u, n)
    BY <1>2, <2>1 DEF Accounted
  <2> QED
    BY <1>3, <1>5, <1>6, <2>2 DEF Counted
<1>7. CASE Stream!Pinned(u)
  <2>1. Stream!PinRef(r) = 1 /\ Stream!PinRef(p) = 0
    BY <1>2, <1>4, <1>7 DEF Stream!PinRef, Stream!Pinned
  <2>2. r.script \in Nat /\ Stream!Captures(r.slot) \in Nat
    BY <1>1, CapturesNat DEF Stream!Resources
  <2>3. /\ p.obj = "live" /\ p.rc > 0
        /\ p.rc = p.script + n + Stream!PinRef(p) + Stream!Captures(p.slot) + 1
    BY <1>4, <1>1, <2>1, <2>2 DEF Accounted
  <2>4. Counted(Stream!Deref(p), n) /\ SameView(Stream!Deref(p), p)
    BY <1>1, <1>4, <2>3, DerefCounted
  <2>5. SameView(Stream!Deref(p), r)
    BY <1>2, <1>4, <2>4 DEF SameView
  <2> QED
    BY <1>3, <1>7, <2>4, <2>5
<1> QED
  BY <1>6, <1>7

----------------------------------------------------------------------------
(* The inductive invariant.                                                 *)

Ending == {"closing", "closed"}

\* The flag tells whether uv_close has been called, and that at most once.
Sound(r) ==
    /\ r.uv # "aborted"
    /\ "CLOSING_START" \in r.flag <=> r.uv \in Ending
    /\ r.uv = "closed" => ~r.conn

\* libuv holds a pointer it will certainly follow, to the handle or to the error
\* callback whose tail uses the handle; a lookup does until the handle is closed.
Owed(r, t) ==
    \/ r.uv \in {"listening", "connecting"} \/ r.conn \/ r.shut = "pending"
    \/ (r.slot.error # "null" \/ t.lookups > 0) /\ r.uv # "closed"

\* A session is done on a socket that is connected; write callbacks are enabled
\* on a session that is done and accepted.
Shaken(r, t) ==
    /\ t.session = "done" => r.uv \in {"connected"} \cup Ending
    /\ "WRITE_CALLBACK_ENABLE" \in r.flag => t.session = "done" /\ t.approved

HandleInv(r, t, n) ==
    /\ Counted(r, n) /\ Sound(r)
    /\ ~t.failed /\ Owed(r, t) => Stream!Pinned(r)
    /\ IF r.obj = "live" THEN Shaken(r, t) ELSE t = Released(t)
    /\ r.obj = "none" => t.lookups = 0

\* The references of a handle the record of what it inherits does not show.
Refs(h) == Stream!FrameRef(h) + Stream!Ref(tls[h].shake)

HandlesInv ==
    /\ ssl \in [Handles -> Stream!Resources]
    /\ tls \in [Handles -> TlsResources]
    /\ \A h \in Handles : HandleInv(ssl[h], tls[h], Refs(h))

\* What a running callback f counts on: its handle is pinned when something is
\* done to it after the callback, and its session is accepted when it has data.
Counts(f, r, t) ==
    /\ f.kind = "error" /\ ~t.failed => Stream!Pinned(r)
    /\ f.why = "lookup" /\ ~t.failed /\ r.uv # "closed" => Stream!Pinned(r)
    /\ f.kind \in {"read", "write"} => t.session = "done" /\ t.approved

\* What read_cb counts on, where it is.
Advances(x, r, t) ==
    /\ r.obj # "none"
    /\ x.pinned => Stream!Pinned(r)
    /\ r.obj = "live" =>
           /\ r.uv \in {"connected"} \cup Ending
           /\ x.at # "handshake" => t.session = "done"
           /\ x.at = "data" => t.approved

\* A session that is done waits for its answer, or its handle is closed.
Unanswered == {"mismatch", "finish", "announce"}

Answered(h, r, t, x) ==
    r.obj = "live" /\ t.session = "done" /\ ~t.approved =>
        r.uv \in Ending \/ (x.h = h /\ x.at \in Unanswered)

\* The callback of a handshake is one read_cb makes; that of a lookup is not.
Together(f, x) ==
    /\ f.kind = "handshake" => x.h = f.h /\ x.at \in DOMAIN AfterYes
    /\ x # NotReading => f.why # "lookup"

SInv ==
    /\ HandlesInv
    /\ frame \in Frames /\ reader \in Readers
    /\ \A h \in Handles :
           /\ frame.h = h => Counts(frame, ssl[h], tls[h])
           /\ reader.h = h => Advances(reader, ssl[h], tls[h])
           /\ Answered(h, ssl[h], tls[h], reader)
    /\ Together(frame, reader)

----------------------------------------------------------------------------
(* A step changes one handle, and what runs on that handle.                 *)

LEMMA NothingRuns ==
    /\ Stream!Idle.h = NoHandle /\ Stream!Idle.kind = "none" /\ Stream!Idle.why = "ok"
    /\ NotReading.h = NoHandle
    /\ \A f \in Frames : f # Stream!Idle => f.h \in Handles
    /\ \A x \in Readers : x # NotReading => x.h \in Handles
BY DEF Stream!Idle, NotReading, Frames, Readers

LEMMA Typed ==
    ASSUME HandlesInv, NEW h \in Handles
    PROVE  /\ ssl[h] \in Stream!Resources /\ ssl[h].slot \in Stream!Slots
           /\ tls[h] \in TlsResources
           /\ HandleInv(ssl[h], tls[h], Refs(h))
BY DEF HandlesInv, Stream!Resources

\* new is tls but for h.
Only(h, new) == \A g \in Handles : g # h => new[g] = tls[g]

\* tls follows the object that goes.
LEMMA TlsFollows ==
    ASSUME HandlesInv, NEW h \in Handles, NEW q, NEW new,
           ssl' = [ssl EXCEPT ![h] = q], TlsAfter(new), Only(h, new)
    PROVE  tls' = [tls EXCEPT ![h] = IF q.obj = "live" THEN new[h] ELSE Released(new[h])]
<1> DEFINE u == IF q.obj = "live" THEN new[h] ELSE Released(new[h])
<1>1. ASSUME NEW g \in Handles
      PROVE  (IF ssl'[g].obj = "live" THEN new[g] ELSE Released(new[g]))
                 = IF g = h THEN u ELSE tls[g]
  <2>1. CASE g = h
    BY <2>1 DEF HandlesInv
  <2>2. CASE g # h
    <3>1. ssl'[g] = ssl[g] /\ new[g] = tls[g]
      BY <2>2 DEF HandlesInv, Only
    <3>2. ssl[g].obj # "live" => tls[g] = Released(tls[g])
      BY DEF HandlesInv, HandleInv
    <3> QED
      BY <2>2, <3>1, <3>2
  <2> QED
    BY <2>1, <2>2
<1> HIDE DEF u
<1>2. tls' = [g \in Handles |-> IF g = h THEN u ELSE tls[g]]
  BY <1>1 DEF TlsAfter
<1> QED
  BY <1>2 DEF HandlesInv, u

\* The callback and read_cb start on h, end on h, or go on.
Moves(h) ==
    /\ \/ frame' = frame
       \/ frame = Stream!Idle /\ frame'.h = h
       \/ frame.h = h /\ frame' = Stream!Idle
    /\ \/ reader' = reader
       \/ reader = NotReading /\ reader'.h = h
       \/ reader.h = h /\ reader'.h = h
       \/ reader.h = h /\ reader' = NotReading

PinsKept == \A g \in Handles : Stream!Pinned(ssl[g]) => Stream!Pinned(ssl'[g])

LEMMA Step ==
    ASSUME SInv, NEW h \in Handles, NEW q \in Stream!Resources, NEW u \in TlsResources,
           ssl' = [ssl EXCEPT ![h] = q], tls' = [tls EXCEPT ![h] = u],
           Moves(h), frame' \in Frames, reader' \in Readers, Together(frame, reader)',
           HandleInv(q, u, Stream!FrameRef(h)' + Stream!Ref(u.shake)),
           frame'.h = h => Counts(frame', q, u),
           reader'.h = h => Advances(reader', q, u),
           Answered(h, q, u, reader')
    PROVE  /\ SInv'
           /\ (Stream!Pinned(ssl[h]) => Stream!Pinned(q)) => PinsKept
<1>1. /\ ssl'[h] = q /\ tls'[h] = u
      /\ \A g \in Handles : g # h => ssl'[g] = ssl[g] /\ tls'[g] = tls[g]
  BY DEF SInv, HandlesInv
<1>2. \A g \in Handles : g # h => Stream!FrameRef(g)' = Stream!FrameRef(g)
  BY NothingRuns DEF Moves, Stream!FrameRef
<1>3. \A g \in Handles : g # h =>
         (frame'.h = g => frame' = frame) /\ (reader'.h = g => reader' = reader)
  BY NothingRuns DEF Moves
<1>4. \A g \in Handles : g # h =>
         (reader.h = g => reader' = reader)
  BY NothingRuns DEF Moves
<1>5. ssl' \in [Handles -> Stream!Resources] /\ tls' \in [Handles -> TlsResources]
  BY DEF SInv, HandlesInv
<1>6. ASSUME NEW g \in Handles
      PROVE  HandleInv(ssl'[g], tls'[g], Stream!FrameRef(g)' + Stream!Ref(tls'[g].shake))
  <2>1. CASE g = h
    BY <1>1, <2>1
  <2>2. CASE g # h
    BY <1>1, <1>2, <2>2 DEF SInv, HandlesInv, Refs
  <2> QED
    BY <2>1, <2>2
<1>7. HandlesInv'
  BY <1>5, <1>6 DEF HandlesInv, Refs
<1>8. ASSUME NEW g \in Handles
      PROVE  /\ frame'.h = g => Counts(frame', ssl'[g], tls'[g])
             /\ reader'.h = g => Advances(reader', ssl'[g], tls'[g])
             /\ Answered(g, ssl'[g], tls'[g], reader')
  <2>1. CASE g = h
    BY <1>1, <2>1
  <2>2. CASE g # h
    <3>1. Answered(g, ssl[g], tls[g], reader')
      BY <1>4, <2>2 DEF SInv, Answered
    <3> QED
      BY <1>1, <1>3, <2>2, <3>1 DEF SInv
  <2> QED
    BY <2>1, <2>2
<1>9. SInv'
  BY <1>7, <1>8 DEF SInv
<1>10. (Stream!Pinned(ssl[h]) => Stream!Pinned(q)) => PinsKept
  BY <1>1 DEF PinsKept
<1> QED
  BY <1>9, <1>10

----------------------------------------------------------------------------
(* Calls: neither the callback nor read_cb moves.                           *)

\* What a call does to a handle it does not free.
Grows(q, r) ==
    /\ Stream!Pinned(r) => Stream!Pinned(q)
    /\ r.uv = "connected" => q.uv \in {"connected"} \cup Ending
    /\ r.uv \in Ending => q.uv \in Ending
    /\ r.uv = "closed" => q.uv = "closed"
    /\ "WRITE_CALLBACK_ENABLE" \in q.flag => "WRITE_CALLBACK_ENABLE" \in r.flag

\* The script holds the object, or the running callback does.
LEMMA CallReady ==
    ASSUME SInv, NEW h \in Handles, Stream!CanCall(h)
    PROVE  /\ Accounted(ssl[h], Refs(h)) /\ Sound(ssl[h])
           /\ ssl[h] \in Stream!Resources /\ ssl[h].slot \in Stream!Slots
           /\ tls[h] \in TlsResources
           /\ ssl[h].obj = "live" /\ ssl[h].script \in Nat
           /\ Stream!Ref(tls[h].shake) \in {0, 1} /\ Stream!FrameRef(h) \in {0, 1}
           /\ Refs(h) \in Nat /\ ssl[h].script + Refs(h) > 0
           /\ ~tls[h].failed /\ Owed(ssl[h], tls[h]) => Stream!Pinned(ssl[h])
<1>1. HandleInv(ssl[h], tls[h], Refs(h)) /\ ssl[h].obj = "live"
      /\ ssl[h] \in Stream!Resources /\ ssl[h].slot \in Stream!Slots /\ tls[h] \in TlsResources
  BY Typed DEF SInv, Stream!CanCall
<1>2. Accounted(ssl[h], Refs(h)) /\ ssl[h].script \in Nat
  BY <1>1 DEF HandleInv, Counted, Absent, Stream!Resources
<1>3. Stream!Ref(tls[h].shake) \in {0, 1} /\ Stream!FrameRef(h) \in {0, 1}
  BY DEF Stream!Ref, Stream!FrameRef
<1>4. ssl[h].script > 0 \/ Stream!FrameRef(h) = 1
  BY DEF Stream!CanCall, Stream!FrameRef
<1>5. Refs(h) \in Nat /\ ssl[h].script + Refs(h) > 0
  BY <1>2, <1>3, <1>4 DEF Refs
<1> QED
  BY <1>1, <1>2, <1>3, <1>5 DEF HandleInv

LEMMA CallStep ==
    ASSUME SInv, NEW h \in Handles, NEW q, NEW new, ssl[h].obj = "live",
           new[h] \in TlsResources, Only(h, new),
           Accounted(q, Stream!FrameRef(h) + Stream!Ref(new[h].shake)), Sound(q),
           Grows(q, ssl[h]),
           ~tls[h].failed /\ Owed(q, new[h]) => Stream!Pinned(q),
           new[h].session = tls[h].session, new[h].approved = tls[h].approved,
           new[h].failed = tls[h].failed,
           Stream!Update(h, q), TlsAfter(new), UNCHANGED reader
    PROVE  SInv' /\ PinsKept
<1> DEFINE u == new[h]
           r == ssl[h]
           t == tls[h]
<1>1. q \in Stream!Resources /\ q.obj = "live"
  BY DEF Accounted
<1>2. ssl' = [ssl EXCEPT ![h] = q] /\ frame' = frame /\ reader' = reader
  BY DEF Stream!Update
<1>3. tls' = [tls EXCEPT ![h] = u]
  <2>1. HandlesInv
    BY DEF SInv
  <2>2. tls' = [tls EXCEPT ![h] = IF q.obj = "live" THEN new[h] ELSE Released(new[h])]
    BY <1>2, <2>1, TlsFollows
  <2> QED
    BY <1>1, <2>2
<1>4. Moves(h) /\ frame' \in Frames /\ reader' \in Readers /\ Together(frame, reader)'
  BY <1>2 DEF Moves, SInv
<1>5. HandleInv(r, t, Refs(h))
  BY DEF SInv, HandlesInv
<1>6. Stream!FrameRef(h)' = Stream!FrameRef(h)
  BY <1>2 DEF Stream!FrameRef
<1> HIDE DEF u
<1>7. HandleInv(q, u, Stream!FrameRef(h)' + Stream!Ref(u.shake))
  BY <1>1, <1>5, <1>6 DEF HandleInv, Counted, Shaken, Grows, u
<1>8. frame.h = h => Counts(frame, q, u)
  BY DEF SInv, Counts, Grows, u
<1>9. reader.h = h => Advances(reader, q, u)
  BY <1>1 DEF SInv, Advances, Grows, u
<1>10. Answered(h, q, u, reader)
  BY DEF SInv, Answered, Grows, u
<1>11. u \in TlsResources /\ (Stream!Pinned(r) => Stream!Pinned(q))
  BY DEF u, Grows
<1>12. /\ frame'.h = h => Counts(frame', q, u)
       /\ reader'.h = h => Advances(reader', q, u)
       /\ Answered(h, q, u, reader')
  BY <1>2, <1>8, <1>9, <1>10
<1> QED
  BY <1>1, <1>2, <1>3, <1>4, <1>7, <1>11, <1>12, Step

\* A call that is UVTcp's.
LEMMA InheritedStep ==
    ASSUME SInv, NEW h \in Handles, NEW q, ssl[h].obj = "live",
           Accounted(q, Refs(h)), Sound(q), Grows(q, ssl[h]),
           ~tls[h].failed /\ Owed(q, tls[h]) => Stream!Pinned(q),
           Stream!Update(h, q), Inherited
    PROVE  SInv' /\ PinsKept
<1>1. tls[h] \in TlsResources
  BY Typed DEF SInv
<1> QED
  BY <1>1, CallStep DEF Inherited, Refs, Only

\* A step that frees the object.
LEMMA GoneStep ==
    ASSUME SInv, NEW h \in Handles, NEW q, NEW new,
           new[h] \in TlsResources, Only(h, new),
           Absent(q, 0), q.obj = "freed", Sound(q),
           new[h].failed \/ ~Owed(q, new[h]),
           ssl' = [ssl EXCEPT ![h] = q], TlsAfter(new),
           Moves(h), frame' \in Frames, reader' \in Readers, Together(frame, reader)',
           frame'.h # h, reader'.h = h => ~reader'.pinned
    PROVE  SInv' /\ (~Stream!Pinned(ssl[h]) => PinsKept)
<1> DEFINE u == Released(new[h])
<1>1. q \in Stream!Resources /\ ~Stream!Pinned(q)
  BY DEF Absent
<1>2. /\ u \in TlsResources /\ u = Released(u) /\ u.shake = "null" /\ u.session = "none"
      /\ u.failed = new[h].failed /\ u.lookups = new[h].lookups
  BY DEF Released, BlankTls, TlsResources
<1>3. tls' = [tls EXCEPT ![h] = u]
  BY TlsFollows DEF SInv
<1> HIDE DEF u
<1>4. HandleInv(q, u, Stream!FrameRef(h)' + Stream!Ref(u.shake))
  <2>1. Stream!FrameRef(h)' + Stream!Ref(u.shake) = 0
    BY <1>2 DEF Stream!FrameRef, Stream!Ref
  <2>2. ~(~u.failed /\ Owed(q, u))
    BY <1>2 DEF Owed
  <2> QED
    BY <1>2, <2>1, <2>2 DEF HandleInv, Counted
<1>5. reader'.h = h => Advances(reader', q, u)
  BY DEF Advances
<1>6. Answered(h, q, u, reader')
  BY DEF Answered
<1> QED
  BY <1>1, <1>2, <1>3, <1>4, <1>5, <1>6, Step

\* A call that frees the object.
LEMMA GoneCall ==
    ASSUME SInv, NEW h \in Handles, NEW q, Absent(q, 0), q.obj = "freed",
           SameView(q, ssl[h]), ~Stream!Pinned(ssl[h]), Stream!FrameRef(h) = 0,
           Stream!Update(h, q), Inherited
    PROVE  SInv' /\ PinsKept
<1>1. HandleInv(ssl[h], tls[h], Refs(h)) /\ tls[h] \in TlsResources
  BY Typed DEF SInv
<1>2. Sound(q) /\ (tls[h].failed \/ ~Owed(q, tls[h]))
  BY <1>1 DEF HandleInv, Sound, SameView, Owed
<1>3. ssl' = [ssl EXCEPT ![h] = q] /\ frame' = frame /\ reader' = reader /\ TlsAfter(tls)
  BY DEF Stream!Update, Inherited
<1>4. Moves(h) /\ frame' \in Frames /\ reader' \in Readers /\ Together(frame, reader)'
  BY <1>3 DEF Moves, SInv
<1>5. frame'.h # h
  BY <1>3 DEF Stream!FrameRef
<1>6. reader'.h = h => ~reader'.pinned
  BY <1>3 DEF SInv, Advances
<1>7. Only(h, tls)
  BY DEF Only
<1> QED
  BY <1>1, <1>2, <1>3, <1>4, <1>5, <1>6, <1>7, GoneStep

\* The reference given up may be the last, and is then the pin's no more than the
\* running callback's.
LEMMA GiveStep ==
    ASSUME SInv, NEW h \in Handles, NEW q, ssl[h].obj = "live",
           Counted(q, Refs(h)), SameView(q, ssl[h]),
           Stream!Pinned(ssl[h]) => Stream!Pinned(q),
           Stream!Update(h, q), Inherited
    PROVE  SInv' /\ PinsKept
<1> DEFINE r == ssl[h]
           t == tls[h]
<1>1. HandleInv(r, t, Refs(h))
  BY Typed DEF SInv
<1>2. CASE q.obj = "live"
  <2>1. Accounted(q, Refs(h))
    BY <1>2 DEF Counted, Absent
  <2>2. Grows(q, r)
    BY DEF Grows, SameView
  <2>3. Sound(q) /\ (Owed(q, t) => Owed(r, t))
    BY <1>1 DEF HandleInv, Sound, SameView, Owed
  <2> QED
    BY <1>1, <2>1, <2>2, <2>3, InheritedStep DEF HandleInv
<1>3. CASE q.obj # "live"
  <2>1. Absent(q, Refs(h)) /\ Refs(h) = 0 /\ ~Stream!Pinned(q) /\ q.obj = "freed"
    BY <1>3 DEF Counted, Accounted, Absent, SameView
  <2>2. Stream!FrameRef(h) = 0
    <3>1. Stream!FrameRef(h) \in Nat /\ Stream!Ref(t.shake) \in Nat
      BY DEF Stream!FrameRef, Stream!Ref
    <3> QED
      BY <2>1, <3>1 DEF Refs
  <2> QED
    BY <2>1, <2>2, GoneCall
<1> QED
  BY <1>2, <1>3

\* Whatever else a step changes, the count stays exact.
LEMMA SameCount ==
    ASSUME NEW r, NEW n, Accounted(r, n), NEW q \in Stream!Resources,
           q.obj = r.obj, q.script = r.script, q.rc = r.rc, q.slot = r.slot,
           Stream!Pinned(q) <=> Stream!Pinned(r)
    PROVE  Accounted(q, n)
BY DEF Accounted, Stream!PinRef

\* Storing a callback leaves all but the count and the slot as it was.
Stored(q, r, n) ==
    Accounted(q, n) /\ SameUv(q, r) /\ q.flag = r.flag

LEMMA StoreConnect ==
    ASSUME NEW r, NEW n, Accounted(r, n), r.script + n > 0, NEW f \in Stream!SlotValues
    PROVE  LET q == Stream!SetConnect(r, f)
           IN  Stored(q, r, n) /\ q.slot.error = r.slot.error
<1> DEFINE s == [r.slot EXCEPT !.connect = f]
<1>1. r.slot \in Stream!Slots
  BY DEF Accounted, Stream!Resources
<1>2. s \in Stream!Slots /\ s.error = r.slot.error /\ Stream!SetConnect(r, f) = Stream!SetSlots(r, s)
  BY <1>1 DEF Stream!Slots, Stream!SetConnect
<1> HIDE DEF s
<1> QED
  BY <1>2, SetSlotsAccounted DEF Stored

LEMMA StoreShutdown ==
    ASSUME NEW r, NEW n, Accounted(r, n), r.script + n > 0, NEW f \in Stream!SlotValues
    PROVE  LET q == Stream!SetShutdown(r, f)
           IN  Stored(q, r, n) /\ q.slot.error = r.slot.error
<1> DEFINE s == [r.slot EXCEPT !.shutdown = f]
<1>1. r.slot \in Stream!Slots
  BY DEF Accounted, Stream!Resources
<1>2. s \in Stream!Slots /\ s.error = r.slot.error /\ Stream!SetShutdown(r, f) = Stream!SetSlots(r, s)
  BY <1>1 DEF Stream!Slots, Stream!SetShutdown
<1> HIDE DEF s
<1> QED
  BY <1>2, SetSlotsAccounted DEF Stored

LEMMA StoreReadWriteError ==
    ASSUME NEW r, NEW n, Accounted(r, n), r.script + n > 0, NEW f \in Stream!SlotValues,
           NEW g \in Stream!SlotValues, NEW e \in Stream!SlotValues
    PROVE  LET q == Stream!SetReadWriteError(r, f, g, e)
           IN  Stored(q, r, n) /\ q.slot.error = e
<1> DEFINE s == [r.slot EXCEPT !.read = f, !.write = g, !.error = e]
<1>1. r.slot \in Stream!Slots
  BY DEF Accounted, Stream!Resources
<1>2. s \in Stream!Slots /\ s.error = e /\ Stream!SetReadWriteError(r, f, g, e) = Stream!SetSlots(r, s)
  BY <1>1 DEF Stream!Slots, Stream!SetReadWriteError
<1> HIDE DEF s
<1> QED
  BY <1>2, SetSlotsAccounted DEF Stored

LEMMA StoredValues ==
    /\ \A f \in Closures : f \in Stream!SlotValues
    /\ "null" \in Stream!SlotValues /\ "borrowed" \in Stream!SlotValues
BY DEF Stream!SlotValues

\* A call that only stores a callback, and no error callback.
LEMMA StoreStep ==
    ASSUME SInv, NEW h \in Handles, NEW q, Stream!CanCall(h),
           Stored(q, ssl[h], Refs(h)), q.slot.error \in {ssl[h].slot.error, "null"},
           Stream!Update(h, q), Inherited
    PROVE  SInv' /\ PinsKept
<1> DEFINE r == ssl[h]
<1>1. Sound(r) /\ r.obj = "live" /\ (~tls[h].failed /\ Owed(r, tls[h]) => Stream!Pinned(r))
  BY CallReady
<1>2. Accounted(q, Refs(h)) /\ SameUv(q, r) /\ q.flag = r.flag
  BY DEF Stored
<1>3. Sound(q) /\ Grows(q, r)
  BY <1>1, <1>2 DEF Sound, Grows, SameUv, Stream!Pinned
<1>4. ~tls[h].failed /\ Owed(q, tls[h]) => Stream!Pinned(q)
  BY <1>1, <1>2 DEF Owed, SameUv, Stream!Pinned
<1> QED
  BY <1>1, <1>2, <1>3, <1>4, InheritedStep

\* A call that stores callbacks and pins the object.
LEMMA PinStep ==
    ASSUME SInv, NEW h \in Handles, NEW q, Stream!CanCall(h),
           q \in Stream!Resources, Accounted(q, Refs(h)), Sound(q), Stream!Pinned(q),
           "WRITE_CALLBACK_ENABLE" \in q.flag => "WRITE_CALLBACK_ENABLE" \in ssl[h].flag,
           q.uv = ssl[h].uv \/ ssl[h].uv \in {"init", "broken"},
           Stream!Update(h, q), Inherited
    PROVE  SInv' /\ PinsKept
<1>1. Grows(q, ssl[h]) /\ ssl[h].obj = "live"
  BY CallReady DEF Grows, Ending
<1> QED
  BY <1>1, InheritedStep

\* listen() and connect() when they succeed.
LEMMA StartStep ==
    ASSUME SInv, NEW h \in Handles, Stream!CanCall(h), NEW f \in Closures,
           NEW q, NEW uv \in {"listening", "connecting"}, NEW conn \in BOOLEAN,
           ssl[h].uv \in {"init", "broken"},
           LET b == Stream!SetSelfReference(Stream!SetConnect(ssl[h], f))
           IN  q = [b EXCEPT !.uv = uv, !.conn = conn, !.flag = @ \cup {"HANDLE_START"}],
           Stream!Update(h, q), Inherited
    PROVE  SInv' /\ PinsKept
<1> DEFINE r == ssl[h]
           c == Stream!SetConnect(r, f)
           b == Stream!SetSelfReference(c)
<1>1. Accounted(r, Refs(h)) /\ Sound(r) /\ r.script + Refs(h) > 0 /\ f \in Stream!SlotValues
  BY CallReady, StoredValues
<1>2. Stored(c, r, Refs(h))
  BY <1>1, StoreConnect
<1> HIDE DEF c
<1>3. /\ Accounted(b, Refs(h)) /\ SameUv(b, c) /\ b.flag = c.flag \cup {"INTERNAL_REF"}
  BY <1>2, SelfReferenceAccounted DEF Stored
<1>4. q = [b EXCEPT !.uv = uv, !.conn = conn, !.flag = @ \cup {"HANDLE_START"}]
  BY DEF c
<1> HIDE DEF b
<1>5. b \in Stream!Resources /\ b.flag \cup {"HANDLE_START"} \in SUBSET Stream!Flags
  BY <1>3 DEF Accounted, Stream!Resources, Stream!Flags
<1>6. /\ q \in Stream!Resources /\ q.obj = b.obj /\ q.script = b.script /\ q.rc = b.rc
      /\ q.slot = b.slot /\ q.uv = uv /\ q.conn = conn
      /\ q.flag = b.flag \cup {"HANDLE_START"}
  BY <1>4, <1>5 DEF Stream!Resources, Stream!UvStates
<1>7. Accounted(q, Refs(h)) /\ Stream!Pinned(q)
  BY <1>3, <1>6, SameCount DEF Stream!Pinned
<1>8. q.flag = r.flag \cup {"INTERNAL_REF", "HANDLE_START"}
  BY <1>2, <1>3, <1>6 DEF Stored
<1>9. Sound(q)
  BY <1>1, <1>6, <1>8 DEF Sound, Ending
<1> QED
  BY <1>6, <1>7, <1>8, <1>9, PinStep

LEMMA ListenInv ==
    ASSUME SInv, NEW h \in Handles, Stream!Listen(h), Inherited PROVE SInv' /\ PinsKept
<1> DEFINE r == ssl[h]
<1>1. Stream!CanCall(h) /\ Stream!TryListen(h)
  BY DEF Stream!Listen
<1>2. ASSUME NEW f \in {"null", "borrowed"}, Stream!Update(h, Stream!SetConnect(r, f))
      PROVE  SInv' /\ PinsKept
  <2>1. /\ Stored(Stream!SetConnect(r, f), r, Refs(h))
        /\ Stream!SetConnect(r, f).slot.error = r.slot.error
    BY <1>1, CallReady, StoreConnect, StoredValues
  <2> QED
    BY <1>1, <1>2, <2>1, StoreStep
<1>3. ASSUME NEW f \in Closures, r.uv = "init",
             Stream!Update(h, [Stream!SetSelfReference(Stream!SetConnect(r, f)) EXCEPT
                                  !.uv = "listening", !.flag = @ \cup {"HANDLE_START"}])
      PROVE  SInv' /\ PinsKept
  <2> DEFINE b == Stream!SetSelfReference(Stream!SetConnect(r, f))
             q == [b EXCEPT !.uv = "listening", !.flag = @ \cup {"HANDLE_START"}]
  <2>1. b \in Stream!Resources
    <3>1. Stored(Stream!SetConnect(r, f), r, Refs(h))
      BY <1>1, CallReady, StoreConnect, StoredValues
    <3>2. Accounted(b, Refs(h))
      BY <3>1, SelfReferenceAccounted DEF Stored
    <3> QED
      BY <3>2 DEF Accounted
  <2>2. Stream!Update(h, q)
    BY <1>3
  <2>3. b.conn \in BOOLEAN
    BY <2>1 DEF Stream!Resources
  <2>4. q = [b EXCEPT !.uv = "listening", !.conn = b.conn, !.flag = @ \cup {"HANDLE_START"}]
    BY <2>1 DEF Stream!Resources
  <2> QED
    BY <1>1, <1>3, <2>2, <2>3, <2>4, StartStep
<1> QED
  BY <1>1, <1>2, <1>3 DEF Stream!TryListen

LEMMA ConnectAddressInv ==
    ASSUME SInv, NEW h \in Handles, ConnectAddress(h) PROVE SInv' /\ PinsKept
<1> DEFINE r == ssl[h]
<1>1. Stream!CanCall(h) /\ Inherited
  BY DEF ConnectAddress, Stream!Connect
<1>2. ASSUME Stream!Update(h, Stream!SetConnect(r, "null")) PROVE SInv' /\ PinsKept
  <2>1. /\ Stored(Stream!SetConnect(r, "null"), r, Refs(h))
        /\ Stream!SetConnect(r, "null").slot.error = r.slot.error
    BY <1>1, CallReady, StoreConnect, StoredValues
  <2> QED
    BY <1>1, <1>2, <2>1, StoreStep
<1>3. ASSUME NEW f \in Closures, r.uv \in {"init", "broken"},
             Stream!Update(h, [Stream!SetSelfReference(Stream!SetConnect(r, f)) EXCEPT
                                  !.uv = "connecting", !.conn = TRUE,
                                  !.flag = @ \cup {"HANDLE_START"}])
      PROVE  SInv' /\ PinsKept
  BY <1>1, <1>3, StartStep
<1> QED
  BY <1>2, <1>3 DEF ConnectAddress, Stream!Connect

LEMMA SetCallbackInv ==
    ASSUME SInv, NEW h \in Handles, Stream!SetCallback(h), Inherited PROVE SInv' /\ PinsKept
<1> DEFINE r == ssl[h]
<1>1. Stream!CanCall(h)
  BY DEF Stream!SetCallback
<1>2. ASSUME NEW f \in {"null", "borrowed"}, NEW g \in {"null", "borrowed"},
             Stream!Update(h, Stream!SetReadWriteError(r, f, g, "null"))
      PROVE  SInv' /\ PinsKept
  <2>1. /\ Stored(Stream!SetReadWriteError(r, f, g, "null"), r, Refs(h))
        /\ Stream!SetReadWriteError(r, f, g, "null").slot.error = "null"
    BY <1>1, CallReady, StoreReadWriteError, StoredValues
  <2> QED
    BY <1>1, <1>2, <2>1, StoreStep
<1>3. ASSUME NEW f \in Closures, NEW g \in Closures, NEW e \in Closures,
             Stream!Update(h, Stream!SetSelfReference(Stream!SetReadWriteError(r, f, g, e)))
      PROVE  SInv' /\ PinsKept
  <2> DEFINE c == Stream!SetReadWriteError(r, f, g, e)
             q == Stream!SetSelfReference(c)
  <2>1. Stored(c, r, Refs(h))
    BY <1>1, CallReady, StoreReadWriteError, StoredValues
  <2> HIDE DEF c
  <2>2. Accounted(q, Refs(h)) /\ SameUv(q, c) /\ q.flag = c.flag \cup {"INTERNAL_REF"}
    BY <2>1, SelfReferenceAccounted DEF Stored
  <2> HIDE DEF q
  <2>3. Sound(r) /\ SameUv(q, r) /\ q.flag = r.flag \cup {"INTERNAL_REF"} /\ q \in Stream!Resources
    BY <1>1, <2>1, <2>2, CallReady DEF Stored, SameUv, Accounted
  <2>4. Sound(q) /\ Stream!Pinned(q) /\ q.uv = r.uv
    BY <2>3 DEF Sound, SameUv, Stream!Pinned
  <2> QED
    BY <1>1, <1>3, <2>2, <2>3, <2>4, PinStep DEF q, c
<1> QED
  <2>1. \A w \in {<<"null", "null">>, <<"borrowed", "null">>, <<"borrowed", "borrowed">>} :
           w[1] \in {"null", "borrowed"} /\ w[2] \in {"null", "borrowed"}
    OBVIOUS
  <2> QED
    BY <1>2, <1>3, <2>1 DEF Stream!SetCallback

LEMMA ShutdownInv ==
    ASSUME SInv, NEW h \in Handles, Stream!Shutdown(h), Inherited PROVE SInv' /\ PinsKept
<1> DEFINE r == ssl[h]
<1>1. Stream!CanCall(h)
  BY DEF Stream!Shutdown
<1>2. ASSUME NEW f \in Closures \cup {"null"}
      PROVE  /\ Stored(Stream!SetShutdown(r, f), r, Refs(h))
             /\ Stream!SetShutdown(r, f).slot.error = r.slot.error
  BY <1>1, CallReady, StoreShutdown, StoredValues
<1>3. ASSUME NEW f \in Closures \cup {"null"}, Stream!Update(h, Stream!SetShutdown(r, f))
      PROVE  SInv' /\ PinsKept
  BY <1>1, <1>2, <1>3, StoreStep
<1>4. ASSUME NEW f \in Closures, Stream!Open(r), r.shut = "no",
             Stream!Update(h, Stream!SetSelfReference(
                                  [Stream!SetShutdown(r, f) EXCEPT !.shut = "pending"]))
      PROVE  SInv' /\ PinsKept
  <2> DEFINE c == Stream!SetShutdown(r, f)
             b == [c EXCEPT !.shut = "pending"]
             q == Stream!SetSelfReference(b)
  <2>1. Stored(c, r, Refs(h)) /\ c \in Stream!Resources
    BY <1>2 DEF Stored, Accounted
  <2> HIDE DEF c
  <2>2. /\ b \in Stream!Resources /\ b.obj = c.obj /\ b.rc = c.rc /\ b.script = c.script
        /\ b.slot = c.slot /\ b.flag = c.flag /\ b.uv = c.uv /\ b.conn = c.conn
    BY <2>1 DEF Stream!Resources
  <2> HIDE DEF b
  <2>3. Accounted(b, Refs(h))
    BY <2>1, <2>2, SameCount DEF Stored, Stream!Pinned
  <2>4. Accounted(q, Refs(h)) /\ SameUv(q, b) /\ q.flag = b.flag \cup {"INTERNAL_REF"}
    BY <2>3, SelfReferenceAccounted
  <2> HIDE DEF q
  <2>5. /\ Sound(r) /\ q \in Stream!Resources /\ q.uv = r.uv /\ q.conn = r.conn
        /\ q.flag = r.flag \cup {"INTERNAL_REF"}
    BY <1>1, <2>1, <2>2, <2>4, CallReady DEF Stored, SameUv, Accounted
  <2>6. Sound(q) /\ Stream!Pinned(q)
    BY <2>5 DEF Sound, Stream!Pinned
  <2> QED
    BY <1>1, <1>4, <2>4, <2>5, <2>6, PinStep DEF q, b, c
<1> QED
  BY <1>3, <1>4 DEF Stream!Shutdown

\* tcp_close_socket closes once; a handle that has gone stays as it is.
LEMMA CloseSocket ==
    ASSUME NEW r, NEW n, Counted(r, n), Sound(r)
    PROVE  LET q == Stream!TcpCloseSocket(r)
           IN  /\ Counted(q, n) /\ Sound(q) /\ Grows(q, r)
               /\ q.uv \in Ending /\ q.obj = r.obj /\ q.slot = r.slot
               /\ \A t : Owed(q, t) => Owed(r, t)
               /\ Stream!Pinned(q) <=> Stream!Pinned(r)
<1>1. r \in Stream!Resources
  BY DEF Counted, Accounted, Absent
<1>2. CASE "CLOSING_START" \in r.flag
  BY <1>2 DEF Stream!TcpCloseSocket, Sound, Grows
<1>3. CASE "CLOSING_START" \notin r.flag
  <2> DEFINE q == Stream!TcpCloseSocket(r)
  <2>1. r.uv \notin Ending
    BY <1>3 DEF Sound
  <2>2. /\ q.obj = r.obj /\ q.rc = r.rc /\ q.script = r.script /\ q.slot = r.slot
        /\ q.conn = r.conn /\ q.shut = r.shut /\ q.uv = "closing"
        /\ q.flag = r.flag \cup {"CLOSING_START"}
    BY <1>1, <1>3, <2>1 DEF Stream!TcpCloseSocket, Stream!UvClose, Stream!Resources, Ending
  <2>3. q \in Stream!Resources
    <3>1. r.flag \cup {"CLOSING_START"} \in SUBSET Stream!Flags
      BY <1>1 DEF Stream!Resources, Stream!Flags
    <3> QED
      BY <1>1, <1>3, <3>1
      DEF Stream!TcpCloseSocket, Stream!UvClose, Stream!Resources, Stream!UvStates
  <2> HIDE DEF q
  <2>4. Stream!Pinned(q) <=> Stream!Pinned(r)
    BY <2>2 DEF Stream!Pinned
  <2>5. Counted(q, n)
    BY <2>2, <2>3, <2>4, SameCount DEF Counted, Absent
  <2>6. Sound(q) /\ Grows(q, r)
    BY <2>1, <2>2, <2>4 DEF Sound, Grows, Ending
  <2>7. \A t : Owed(q, t) => Owed(r, t)
    BY <2>1, <2>2 DEF Owed, Ending
  <2> QED
    BY <2>2, <2>4, <2>5, <2>6, <2>7 DEF q, Ending
<1> QED
  BY <1>2, <1>3

LEMMA CloseInv ==
    ASSUME SInv, NEW h \in Handles, Stream!Close(h), Inherited PROVE SInv' /\ PinsKept
<1> DEFINE r == ssl[h]
           q == Stream!TcpCloseSocket(r)
<1>1. /\ Accounted(r, Refs(h)) /\ Sound(r) /\ r.obj = "live"
      /\ (~tls[h].failed /\ Owed(r, tls[h]) => Stream!Pinned(r))
  BY CallReady DEF Stream!Close
<1>2. /\ Counted(q, Refs(h)) /\ Sound(q) /\ Grows(q, r) /\ q.obj = r.obj
      /\ (Owed(q, tls[h]) => Owed(r, tls[h])) /\ (Stream!Pinned(q) <=> Stream!Pinned(r))
  BY <1>1, CloseSocket DEF Counted
<1>3. Stream!Update(h, q)
  BY DEF Stream!Close
<1> HIDE DEF q
<1>4. Accounted(q, Refs(h))
  BY <1>1, <1>2 DEF Counted, Absent
<1> QED
  BY <1>1, <1>2, <1>3, <1>4, InheritedStep

\* q differs from r in what the invariant does not look at.
Alike(q, r) ==
    q \in Stream!Resources /\ SameUv(q, r) /\ q.rc = r.rc /\ q.slot = r.slot /\ q.flag = r.flag

LEMMA AlikeStored ==
    ASSUME NEW r, NEW n, Accounted(r, n), NEW q, Alike(q, r)
    PROVE  Stored(q, r, n) /\ q.slot.error = r.slot.error
BY SameCount DEF Alike, SameUv, Stored, Stream!Pinned

LEMMA AlikeStep ==
    ASSUME SInv, NEW h \in Handles, NEW q, Stream!CanCall(h), Alike(q, ssl[h]),
           Stream!Update(h, q), Inherited
    PROVE  SInv' /\ PinsKept
<1>1. Stored(q, ssl[h], Refs(h)) /\ q.slot.error = ssl[h].slot.error
  BY CallReady, AlikeStored
<1> QED
  BY <1>1, StoreStep

\* getSockname, getSockport, getPeername and getPeerport.
LEMMA NamesInv ==
    ASSUME SInv, NEW h \in Handles, Stream!GetSockname(h) \/ Stream!GetPeername(h), Inherited
    PROVE  SInv' /\ PinsKept
<1>1. PICK x \in {"sock", "peer"} : Stream!Update(h, [ssl[h] EXCEPT !.names = @ \cup {x}])
  BY DEF Stream!GetSockname, Stream!GetPeername
<1> DEFINE q == [ssl[h] EXCEPT !.names = @ \cup {x}]
<1>2. Stream!CanCall(h)
  BY DEF Stream!GetSockname, Stream!GetPeername
<1>3. ssl[h] \in Stream!Resources /\ ssl[h].names \cup {x} \in SUBSET {"sock", "peer"}
  BY <1>2, CallReady DEF Stream!Resources
<1>4. Alike(q, ssl[h])
  BY <1>3 DEF Alike, SameUv, Stream!Resources
<1> HIDE DEF q
<1> QED
  BY <1>1, <1>2, <1>4, AlikeStep DEF q

\* What OpenSSL has to send is one more write, or nothing.
LEMMA SentAlike ==
    ASSUME NEW r \in Stream!Resources, NEW q \in Sent(r) PROVE Alike(q, r)
<1> DEFINE p == [r EXCEPT !.writes = @ + 1]
<1>1. Alike(p, r) /\ Alike(r, r)
  BY DEF Alike, SameUv, Stream!Resources
<1>2. q = r \/ q = p
  BY DEF Sent
<1> HIDE DEF p
<1> QED
  BY <1>1, <1>2

LEMMA WriteInv == ASSUME SInv, NEW h \in Handles, Write(h) PROVE SInv' /\ PinsKept
BY CallReady, SentAlike, AlikeStep DEF Write

LEMMA KeepInv ==
    ASSUME SInv, NEW h \in Handles, Stream!Keep(h), Inherited PROVE SInv' /\ PinsKept
<1> DEFINE r == ssl[h]
           q == [r EXCEPT !.rc = @ + 1, !.script = @ + 1]
<1>1. /\ Accounted(r, Refs(h)) /\ Sound(r) /\ r \in Stream!Resources /\ r.obj = "live"
      /\ (~tls[h].failed /\ Owed(r, tls[h]) => Stream!Pinned(r))
  BY CallReady DEF Stream!Keep
<1>2. r.rc \in Nat /\ r.script \in Nat /\ Stream!Captures(r.slot) \in Nat
  BY <1>1, CapturesNat DEF Stream!Resources
<1>3. r.rc + 1 \in Nat /\ r.script + 1 \in Nat
  BY <1>2
<1>4. /\ q \in Stream!Resources /\ q.rc = r.rc + 1 /\ q.script = r.script + 1 /\ q.obj = r.obj
      /\ q.slot = r.slot /\ q.flag = r.flag /\ q.uv = r.uv /\ q.conn = r.conn /\ q.shut = r.shut
  BY <1>1, <1>3 DEF Stream!Resources
<1>5. Stream!Update(h, q)
  BY DEF Stream!Keep
<1> HIDE DEF q
<1>6. Stream!PinRef(q) = Stream!PinRef(r) /\ Stream!PinRef(r) \in {0, 1}
  BY <1>4 DEF Stream!PinRef, Stream!Pinned
<1>7. Accounted(q, Refs(h))
  BY <1>1, <1>2, <1>4, <1>6 DEF Accounted
<1>8. Sound(q) /\ Grows(q, r)
  BY <1>1, <1>4 DEF Sound, Grows, Stream!Pinned
<1>9. ~tls[h].failed /\ Owed(q, tls[h]) => Stream!Pinned(q)
  BY <1>1, <1>4 DEF Owed, Stream!Pinned
<1> QED
  BY <1>1, <1>5, <1>7, <1>8, <1>9, InheritedStep

LEMMA DropInv ==
    ASSUME SInv, NEW h \in Handles, Stream!Drop(h), Inherited PROVE SInv' /\ PinsKept
<1> DEFINE r == ssl[h]
           p == [r EXCEPT !.script = @ - 1]
           q == Stream!Deref(p)
<1>1. r \in Stream!Resources /\ Accounted(r, Refs(h)) /\ r.obj = "live" /\ r.script > 0
  BY Typed DEF Stream!Drop, SInv, HandleInv, Counted, Absent
<1>2. /\ r.script - 1 \in Nat /\ r.script \in Nat /\ r.rc \in Nat /\ Refs(h) \in Nat
      /\ Stream!Captures(r.slot) \in Nat
  BY <1>1, CapturesNat DEF Stream!Resources, Accounted
<1>3. /\ p \in Stream!Resources /\ p.rc = r.rc /\ p.script = r.script - 1 /\ p.obj = r.obj
      /\ p.slot = r.slot /\ p.flag = r.flag /\ p.uv = r.uv /\ p.conn = r.conn /\ p.shut = r.shut
  BY <1>1, <1>2 DEF Stream!Resources
<1>4. Stream!Update(h, q)
  BY DEF Stream!Drop
<1> HIDE DEF p
<1>5. /\ Stream!PinRef(p) = Stream!PinRef(r) /\ Stream!PinRef(r) \in {0, 1}
      /\ (Stream!Pinned(p) <=> Stream!Pinned(r))
  BY <1>3 DEF Stream!PinRef, Stream!Pinned
<1>6. p.rc > 0 /\ p.rc = p.script + Refs(h) + Stream!PinRef(p) + Stream!Captures(p.slot) + 1
  BY <1>1, <1>2, <1>3, <1>5 DEF Accounted
<1>7. /\ Counted(q, Refs(h)) /\ SameView(q, p)
      /\ Stream!Pinned(p) => q.flag = p.flag
  BY <1>1, <1>2, <1>3, <1>6, DerefCounted
<1> HIDE DEF q
<1>8. SameView(q, r) /\ (Stream!Pinned(r) => Stream!Pinned(q))
  BY <1>3, <1>5, <1>7 DEF SameView, Stream!Pinned
<1> QED
  BY <1>1, <1>4, <1>7, <1>8, GiveStep

\* The collector takes neither a pinned object nor the argument of the callback.
LEMMA CollectInv == ASSUME SInv, NEW h \in Handles, Collect(h) PROVE SInv' /\ PinsKept
<1> DEFINE r == ssl[h]
           t == tls[h]
           q == Stream!Free(r)
<1>1. r \in Stream!Resources /\ Accounted(r, Refs(h)) /\ r.obj = "live"
  BY Typed DEF Collect, SInv, HandleInv, Counted, Absent
<1>2. r.script \in Nat /\ Stream!Captures(r.slot) \in Nat
  BY <1>1, CapturesNat DEF Stream!Resources
<1>3. /\ Stream!PinRef(r) \in {0, 1} /\ Stream!FrameRef(h) \in {0, 1}
      /\ Stream!Ref(t.shake) \in {0, 1}
  BY DEF Stream!PinRef, Stream!FrameRef, Stream!Ref
<1>4. Stream!PinRef(r) = 0 /\ Stream!FrameRef(h) = 0
  BY <1>1, <1>2, <1>3 DEF Accounted, Refs, Collect
<1>5. ~Stream!Pinned(r)
  BY <1>4 DEF Stream!PinRef
<1>6. Absent(q, 0) /\ q.obj = "freed" /\ SameView(q, r)
  BY <1>1, FreeAbsent
<1>7. Stream!Update(h, q) /\ Inherited
  BY DEF Collect
<1> QED
  BY <1>4, <1>5, <1>6, <1>7, GoneCall

\* The handshake callback is one more closure of the object.
LEMMA SetSSLHandshakeCallbackInv ==
    ASSUME SInv, NEW h \in Handles, SetSSLHandshakeCallback(h) PROVE SInv' /\ PinsKept
<1> DEFINE r == ssl[h]
           t == tls[h]
<1>1. PICK f \in Closures \cup {"null"} :
         /\ Stream!Update(h, [r EXCEPT !.rc = (@ + Stream!Ref(f)) - Stream!Ref(t.shake)])
         /\ TlsAfter([tls EXCEPT ![h].shake = f])
  BY DEF SetSSLHandshakeCallback
<1> DEFINE c == (r.rc + Stream!Ref(f)) - Stream!Ref(t.shake)
           q == [r EXCEPT !.rc = c]
           new == [tls EXCEPT ![h].shake = f]
<1>2. Stream!CanCall(h) /\ UNCHANGED reader
  BY DEF SetSSLHandshakeCallback
<1>3. /\ Accounted(r, Refs(h)) /\ Sound(r) /\ r \in Stream!Resources /\ t \in TlsResources
      /\ r.obj = "live" /\ r.script \in Nat /\ r.slot \in Stream!Slots
      /\ Stream!Ref(t.shake) \in {0, 1} /\ Stream!FrameRef(h) \in {0, 1}
      /\ (~t.failed /\ Owed(r, t) => Stream!Pinned(r))
  BY <1>2, CallReady
<1>4. r.script > 0 \/ Stream!FrameRef(h) = 1
  BY <1>2 DEF Stream!CanCall, Stream!FrameRef
<1>5. /\ Stream!Captures(r.slot) \in Nat /\ Stream!PinRef(r) \in {0, 1}
      /\ Stream!Ref(f) \in {0, 1} /\ r.rc \in Nat
  BY <1>3, CapturesNat DEF Stream!Resources, Stream!PinRef, Stream!Ref
<1>6. /\ c = r.script + (Stream!FrameRef(h) + Stream!Ref(f)) + Stream!PinRef(r)
              + Stream!Captures(r.slot)
      /\ c \in Nat /\ c > 0 /\ Stream!FrameRef(h) + Stream!Ref(f) \in Nat
  BY <1>3, <1>4, <1>5 DEF Accounted, Refs
<1> HIDE DEF c
<1>7. /\ q \in Stream!Resources /\ q.rc = c /\ q.script = r.script /\ q.obj = r.obj
      /\ q.slot = r.slot /\ q.flag = r.flag /\ q.uv = r.uv /\ q.conn = r.conn /\ q.shut = r.shut
  BY <1>3, <1>6 DEF Stream!Resources
<1>8. f \in {"null", "plain", "self"}
  OBVIOUS
<1>9. /\ new[h] \in TlsResources /\ Only(h, new) /\ new[h].shake = f
      /\ new[h].session = t.session /\ new[h].approved = t.approved
      /\ new[h].failed = t.failed /\ new[h].lookups = t.lookups
  BY <1>3, <1>8 DEF SInv, HandlesInv, TlsResources, Only
<1>10. Stream!Update(h, q) /\ TlsAfter(new)
  BY <1>1 DEF c
<1> HIDE DEF q, new
<1>11. Stream!PinRef(q) = Stream!PinRef(r) /\ (Stream!Pinned(q) <=> Stream!Pinned(r))
  BY <1>7 DEF Stream!PinRef, Stream!Pinned
<1>12. Accounted(q, Stream!FrameRef(h) + Stream!Ref(new[h].shake))
  BY <1>3, <1>6, <1>7, <1>9, <1>11 DEF Accounted
<1>13. Sound(q) /\ Grows(q, r) /\ (~t.failed /\ Owed(q, new[h]) => Stream!Pinned(q))
  BY <1>3, <1>7, <1>9, <1>11 DEF Sound, Grows, Owed
<1> QED
  BY <1>2, <1>3, <1>9, <1>10, <1>12, <1>13, CallStep

LEMMA SetSSLServerNameCallbackInv ==
    ASSUME SInv, NEW h \in Handles, SetSSLServerNameCallback(h) PROVE SInv' /\ PinsKept
<1> DEFINE r == ssl[h]
           t == tls[h]
<1>1. PICK set \in BOOLEAN : TlsAfter([tls EXCEPT ![h].sni = set])
  BY DEF SetSSLServerNameCallback
<1> DEFINE new == [tls EXCEPT ![h].sni = set]
<1>2. Stream!CanCall(h) /\ UNCHANGED reader /\ Stream!Update(h, r)
  BY DEF SetSSLServerNameCallback
<1>3. /\ Accounted(r, Refs(h)) /\ Sound(r) /\ t \in TlsResources /\ r.obj = "live"
      /\ (~t.failed /\ Owed(r, t) => Stream!Pinned(r))
  BY <1>2, CallReady
<1>4. /\ new[h] \in TlsResources /\ Only(h, new) /\ new[h].shake = t.shake
      /\ new[h].session = t.session /\ new[h].approved = t.approved
      /\ new[h].failed = t.failed /\ new[h].lookups = t.lookups
  BY <1>3 DEF SInv, HandlesInv, TlsResources, Only
<1>5. TlsAfter(new)
  BY <1>1
<1> HIDE DEF new
<1>6. Accounted(r, Stream!FrameRef(h) + Stream!Ref(new[h].shake))
  BY <1>3, <1>4 DEF Refs
<1>7. Grows(r, r) /\ (~t.failed /\ Owed(r, new[h]) => Stream!Pinned(r))
  BY <1>3, <1>4 DEF Grows, Owed
<1> QED
  BY <1>2, <1>3, <1>4, <1>5, <1>6, <1>7, CallStep

\* connect() with a host name pins the object, whether the lookup starts or not.
LEMMA ConnectNameInv ==
    ASSUME SInv, NEW h \in Handles, ConnectName(h) PROVE SInv' /\ PinsKept
<1> DEFINE r == ssl[h]
           t == tls[h]
           Looking == [tls EXCEPT ![h].lookups = @ + 1]
<1>1. PICK f \in Closures :
         Stream!Update(h, [Stream!SetSelfReference(Stream!SetConnect(r, f)) EXCEPT
                              !.flag = @ \cup {"HANDLE_START"}])
  BY DEF ConnectName
<1>2. PICK new \in {tls, Looking} : TlsAfter(new)
  BY DEF ConnectName
<1> DEFINE c == Stream!SetConnect(r, f)
           b == Stream!SetSelfReference(c)
           q == [b EXCEPT !.flag = @ \cup {"HANDLE_START"}]
<1>3. Stream!CanCall(h) /\ UNCHANGED reader
  BY DEF ConnectName
<1>4. /\ Accounted(r, Refs(h)) /\ Sound(r) /\ t \in TlsResources /\ r.obj = "live"
  BY <1>3, CallReady
<1>5. Stored(c, r, Refs(h))
  BY <1>3, CallReady, StoreConnect, StoredValues
<1> HIDE DEF c
<1>6. /\ Accounted(b, Refs(h)) /\ SameUv(b, c) /\ b.flag = c.flag \cup {"INTERNAL_REF"}
  BY <1>5, SelfReferenceAccounted DEF Stored
<1> HIDE DEF b
<1>7. b \in Stream!Resources /\ b.flag \cup {"HANDLE_START"} \in SUBSET Stream!Flags
  BY <1>6 DEF Accounted, Stream!Resources, Stream!Flags
<1>8. /\ q \in Stream!Resources /\ SameUv(q, b) /\ q.rc = b.rc /\ q.slot = b.slot
      /\ q.flag = b.flag \cup {"HANDLE_START"}
  BY <1>7 DEF Stream!Resources, SameUv
<1>9. Stream!Update(h, q)
  BY <1>1 DEF b, c
<1> HIDE DEF q
<1>10. Accounted(q, Refs(h)) /\ Stream!Pinned(q)
  BY <1>6, <1>8, SameCount DEF SameUv, Stream!Pinned
<1>11. SameUv(q, r) /\ q.flag = r.flag \cup {"INTERNAL_REF", "HANDLE_START"}
  BY <1>5, <1>6, <1>8 DEF Stored, SameUv
<1>12. Sound(q) /\ Grows(q, r)
  BY <1>4, <1>10, <1>11 DEF Sound, Grows, SameUv
<1>13. /\ new[h] \in TlsResources /\ Only(h, new) /\ new[h].shake = t.shake
       /\ new[h].session = t.session /\ new[h].approved = t.approved
       /\ new[h].failed = t.failed
  <2>1. t.lookups + 1 \in Nat
    BY <1>4 DEF TlsResources
  <2>2. CASE new = tls
    BY <1>4, <2>2 DEF Only
  <2>3. CASE new = Looking
    BY <1>4, <2>1, <2>3 DEF SInv, HandlesInv, TlsResources, Only
  <2> QED
    BY <2>2, <2>3
<1>14. Accounted(q, Stream!FrameRef(h) + Stream!Ref(new[h].shake))
  BY <1>10, <1>13 DEF Refs
<1> QED
  BY <1>2, <1>3, <1>4, <1>9, <1>10, <1>12, <1>13, <1>14, CallStep

\* Nothing refers to a handle before its object is created.
LEMMA NotCreated ==
    ASSUME SInv, NEW h \in Handles, ssl[h].obj = "none"
    PROVE  /\ frame.h # h /\ reader.h # h /\ ~Stream!Pinned(ssl[h])
           /\ tls[h] \in TlsResources /\ tls[h].lookups = 0
           /\ tls[h].shake = "null" /\ tls[h].session = "none"
<1>1. HandleInv(ssl[h], tls[h], Refs(h)) /\ tls[h] \in TlsResources
  BY Typed DEF SInv
<1>2. Refs(h) = 0 /\ ~Stream!Pinned(ssl[h]) /\ tls[h] = Released(tls[h]) /\ tls[h].lookups = 0
  BY <1>1 DEF HandleInv, Counted, Accounted, Absent
<1>3. tls[h].shake = "null" /\ tls[h].session = "none"
  BY <1>2 DEF Released, BlankTls
<1>4. frame.h # h
  BY <1>2, <1>3 DEF Refs, Stream!FrameRef, Stream!Ref
<1>5. reader.h # h
  BY DEF SInv, Advances
<1> QED
  BY <1>1, <1>2, <1>3, <1>4, <1>5

LEMMA Created ==
    /\ Stream!NewResource \in Stream!Resources /\ Stream!AcceptedResource \in Stream!Resources
    /\ \A r \in {Stream!NewResource, Stream!AcceptedResource} :
           /\ Accounted(r, 0) /\ Sound(r) /\ r.obj = "live" /\ r.slot.error = "null"
           /\ ~r.conn /\ r.shut = "no" /\ r.flag \subseteq {"HANDLE_START", "READ_START"}
    /\ Stream!NewResource.uv = "init" /\ Stream!AcceptedResource.uv = "connected"
<1> DEFINE n == Stream!NewResource
           a == Stream!AcceptedResource
<1>1. n \in Stream!Resources /\ a \in Stream!Resources
  BY CapturesNoSlots DEF Stream!AcceptedResource, Stream!NewResource, Stream!Blank,
     Stream!Resources, Stream!UvStates, Stream!Flags
<1>2. /\ n.obj = "live" /\ n.rc = 1 /\ n.script = 1 /\ n.flag = {} /\ n.slot = Stream!NoSlots
      /\ n.uv = "init" /\ ~n.conn /\ n.shut = "no"
  BY DEF Stream!NewResource, Stream!Blank
<1>3. /\ a.obj = "live" /\ a.rc = 1 /\ a.script = 1 /\ a.slot = Stream!NoSlots
      /\ a.flag = {"HANDLE_START", "READ_START"}
      /\ a.uv = "connected" /\ ~a.conn /\ a.shut = "no"
  BY DEF Stream!AcceptedResource, Stream!NewResource, Stream!Blank
<1> HIDE DEF n, a
<1>4. Stream!PinRef(n) = 0 /\ Stream!PinRef(a) = 0
  BY <1>2, <1>3 DEF Stream!PinRef, Stream!Pinned
<1>5. Accounted(n, 0) /\ Accounted(a, 0)
  BY <1>1, <1>2, <1>3, <1>4, CapturesNoSlots DEF Accounted
<1>6. Sound(n) /\ Sound(a)
  BY <1>2, <1>3 DEF Sound, Ending
<1>7. Stream!NoSlots.error = "null"
  BY DEF Stream!NoSlots
<1> QED
  BY <1>1, <1>2, <1>3, <1>5, <1>6, <1>7 DEF n, a

LEMMA NewInv ==
    ASSUME SInv, NEW h \in Handles, Stream!New(h), Inherited PROVE SInv' /\ PinsKept
<1> DEFINE q == Stream!NewResource
           u == tls[h]
<1>1. ssl[h].obj = "none" /\ ssl' = [ssl EXCEPT ![h] = q] /\ frame' = frame /\ reader' = reader
      /\ TlsAfter(tls)
  BY DEF Stream!New, Stream!Update, Inherited
<1>2. /\ frame.h # h /\ reader.h # h /\ ~Stream!Pinned(ssl[h])
      /\ u \in TlsResources /\ u.lookups = 0 /\ u.shake = "null" /\ u.session = "none"
  BY <1>1, NotCreated
<1>3. tls' = [tls EXCEPT ![h] = u]
  BY <1>1, TlsFollows, Created DEF SInv, Only
<1> HIDE DEF u
<1>4. HandleInv(q, u, Stream!FrameRef(h)' + Stream!Ref(u.shake))
  <2>1. Stream!FrameRef(h)' + Stream!Ref(u.shake) = 0
    BY <1>1, <1>2 DEF Stream!FrameRef, Stream!Ref
  <2>2. ~Owed(q, u) /\ Shaken(q, u)
    BY <1>2, Created DEF Owed, Shaken
  <2> QED
    BY <1>2, <2>1, <2>2, Created DEF HandleInv, Counted
<1>5. Answered(h, q, u, reader')
  BY <1>2 DEF Answered
<1>6. Moves(h) /\ frame' \in Frames /\ reader' \in Readers /\ Together(frame, reader)'
  BY <1>1 DEF Moves, SInv
<1>7. q \in Stream!Resources /\ frame'.h # h /\ reader'.h # h
  BY <1>1, <1>2, Created
<1> QED
  BY <1>1, <1>2, <1>3, <1>4, <1>5, <1>6, <1>7, Step

\* The connection gets a session; a refused uv_accept destroys the new object.
LEMMA AcceptInv ==
    ASSUME SInv, NEW h \in Handles, NEW c \in Handles, Accept(h, c) PROVE SInv' /\ PinsKept
<1> DEFINE r == ssl[h]
           new == [tls EXCEPT ![c].session = "handshake", ![c].server = h]
<1>1. /\ Stream!CanCall(h) /\ ssl[c].obj = "none" /\ frame' = frame /\ reader' = reader
      /\ TlsAfter(new)
  BY DEF Accept, Stream!Accept
<1>2. /\ frame.h # c /\ reader.h # c /\ ~Stream!Pinned(ssl[c])
      /\ tls[c] \in TlsResources /\ tls[c].lookups = 0 /\ tls[c].shake = "null"
      /\ tls[c].session = "none"
  BY <1>1, NotCreated
<1>3. r.obj = "live" /\ r \in Stream!Resources /\ Accounted(r, Refs(h)) /\ h # c
  BY <1>1, CallReady
<1>4. /\ new[c] \in TlsResources /\ Only(c, new) /\ new[c].lookups = 0
      /\ new[c].shake = "null" /\ new[c].session = "handshake"
  BY <1>2 DEF SInv, HandlesInv, TlsResources, Only
<1> HIDE DEF new
<1>5. PICK a \in {Stream!AcceptedResource, Stream!Free(Stream!NewResource)} :
          ssl' = [ssl EXCEPT ![h].pending = FALSE, ![c] = a]
  BY DEF Accept, Stream!Accept
<1>6. /\ Counted(a, 0) /\ Sound(a) /\ a \in Stream!Resources /\ a.obj # "none"
      /\ a.uv \in {"init", "connected"} /\ a.slot.error = "null" /\ ~a.conn /\ a.shut = "no"
      /\ "WRITE_CALLBACK_ENABLE" \notin a.flag
  <2>1. CASE a = Stream!AcceptedResource
    BY <2>1, Created DEF Counted
  <2> DEFINE n == Stream!NewResource
             q == Stream!Free(n)
  <2>2. CASE a = q
    <3>1. /\ Absent(q, 0) /\ q.obj = "freed" /\ SameView(q, n)
      BY Created, FreeAbsent
    <3>2. /\ Sound(n) /\ n.uv = "init" /\ ~n.conn /\ n.shut = "no" /\ n.slot.error = "null"
          /\ n.flag \subseteq {"HANDLE_START", "READ_START"}
      BY Created
    <3> HIDE DEF q, n
    <3> QED
      BY <2>2, <3>1, <3>2 DEF Counted, Absent, Sound, SameView, Ending
  <2> QED
    BY <2>1, <2>2
<1>7. SInv' /\ PinsKept
  <2> DEFINE p == [r EXCEPT !.pending = FALSE]
             u == IF a.obj = "live" THEN new[c] ELSE Released(new[c])
  <2>1. Alike(p, r)
    BY <1>3 DEF Alike, SameUv, Stream!Resources
  <2>2. ssl' = [ssl EXCEPT ![h] = p, ![c] = a]
    BY <1>5 DEF SInv, HandlesInv
  <2> HIDE DEF p
  <2>3. /\ p \in Stream!Resources /\ u \in TlsResources /\ u.lookups = 0 /\ u.shake = "null"
        /\ u.session # "done" /\ (a.obj # "live" => u = Released(u))
    BY <1>4, <2>1 DEF Alike, Released, BlankTls, TlsResources
  <2> HIDE DEF u
  <2>4. /\ ssl'[h] = p /\ ssl'[c] = a
        /\ \A g \in Handles \ {h, c} : ssl'[g] = ssl[g]
        /\ ssl' \in [Handles -> Stream!Resources]
    BY <1>3, <1>6, <2>2, <2>3 DEF SInv, HandlesInv
  <2>5. p.obj = "live"
    BY <1>3, <2>1 DEF Alike, SameUv
  <2>6. \A g \in Handles : tls'[g] = IF g = c THEN u ELSE tls[g]
    <3> SUFFICES ASSUME NEW g \in Handles PROVE tls'[g] = IF g = c THEN u ELSE tls[g]
      OBVIOUS
    <3>1. tls'[g] = IF ssl'[g].obj = "live" THEN new[g] ELSE Released(new[g])
      BY <1>1 DEF TlsAfter
    <3>2. ssl[g].obj # "live" => tls[g] = Released(tls[g])
      BY DEF SInv, HandlesInv, HandleInv
    <3> QED
      BY <1>4, <2>4, <2>5, <3>1, <3>2 DEF Only, u
  <2>7. tls' \in [Handles -> TlsResources]
    <3>1. tls' = [g \in Handles |-> tls'[g]]
      BY <1>1 DEF TlsAfter
    <3>2. \A g \in Handles : tls'[g] \in TlsResources
      BY <2>3, <2>6, Typed DEF SInv
    <3> QED
      BY <3>1, <3>2
  <2>8. \A g \in Handles : Stream!FrameRef(g)' = Stream!FrameRef(g)
    BY <1>1 DEF Stream!FrameRef
  <2>9. ASSUME NEW g \in Handles
        PROVE  /\ HandleInv(ssl'[g], tls'[g], Stream!FrameRef(g)' + Stream!Ref(tls'[g].shake))
               /\ frame.h = g => Counts(frame, ssl'[g], tls'[g])
               /\ reader.h = g => Advances(reader, ssl'[g], tls'[g])
               /\ Answered(g, ssl'[g], tls'[g], reader)
               /\ Stream!Pinned(ssl[g]) => Stream!Pinned(ssl'[g])
    <3>1. /\ HandleInv(ssl[g], tls[g], Refs(g))
          /\ frame.h = g => Counts(frame, ssl[g], tls[g])
          /\ reader.h = g => Advances(reader, ssl[g], tls[g])
          /\ Answered(g, ssl[g], tls[g], reader)
      BY DEF SInv, HandlesInv
    <3>2. CASE g # h /\ g # c
      BY <2>4, <2>6, <2>8, <3>1, <3>2 DEF Refs
    <3>3. CASE g = h
      <4>1. ssl'[g] = p /\ tls'[g] = tls[h]
        BY <1>3, <2>4, <2>6, <3>3
      <4>2. /\ p.obj = r.obj /\ p.flag = r.flag /\ p.uv = r.uv /\ p.conn = r.conn
            /\ p.shut = r.shut /\ p.slot = r.slot /\ (Stream!Pinned(p) <=> Stream!Pinned(r))
        BY <2>1 DEF Alike, SameUv, Stream!Pinned
      <4>3. Accounted(p, Refs(h))
        BY <1>3, <2>1, AlikeStored DEF Stored
      <4>4. Sound(p) /\ (Owed(p, tls[h]) => Owed(r, tls[h])) /\ Shaken(p, tls[h])
        BY <1>3, <3>1, <3>3, <4>2 DEF HandleInv, Sound, Owed, Shaken
      <4>5. HandleInv(p, tls[h], Refs(h))
        BY <1>3, <3>1, <3>3, <4>2, <4>3, <4>4 DEF HandleInv, Counted
      <4>6. /\ frame.h = g => Counts(frame, p, tls[h])
            /\ reader.h = g => Advances(reader, p, tls[h])
            /\ Answered(g, p, tls[h], reader)
        BY <3>1, <3>3, <4>2 DEF Counts, Advances, Answered
      <4> QED
        BY <2>8, <3>3, <4>1, <4>2, <4>5, <4>6 DEF Refs
    <3>4. CASE g = c
      <4>1. ssl'[g] = a /\ tls'[g] = u
        BY <2>4, <2>6, <3>4
      <4>2. Stream!FrameRef(g)' + Stream!Ref(u.shake) = 0
        BY <1>2, <2>3, <2>8, <3>4 DEF Stream!FrameRef, Stream!Ref
      <4>3. ~Owed(a, u) /\ Shaken(a, u)
        BY <1>6, <2>3 DEF Owed, Shaken
      <4>4. HandleInv(a, u, 0)
        BY <1>6, <2>3, <4>3 DEF HandleInv
      <4>5. Answered(g, a, u, reader)
        BY <2>3 DEF Answered
      <4> QED
        BY <1>2, <3>4, <4>1, <4>2, <4>4, <4>5
    <3> QED
      BY <3>2, <3>3, <3>4
  <2>10. HandlesInv'
    BY <2>4, <2>7, <2>9 DEF HandlesInv, Refs
  <2>11. SInv'
    BY <1>1, <2>9, <2>10 DEF SInv
  <2> QED
    BY <2>9, <2>11 DEF PinsKept
<1> QED
  BY <1>7

LEMMA ScriptCallInv ==
    ASSUME SInv, NEW h \in Handles, ScriptCall(h) PROVE SInv' /\ PinsKept
<1>1. CASE InheritedCall(h)
  BY <1>1, NewInv, ListenInv, SetCallbackInv, ShutdownInv, CloseInv, NamesInv, KeepInv, DropInv
  DEF InheritedCall
<1> QED
  BY <1>1, SetSSLHandshakeCallbackInv, SetSSLServerNameCallbackInv, WriteInv,
     ConnectAddressInv, ConnectNameInv, CollectInv, AcceptInv DEF ScriptCall

----------------------------------------------------------------------------
(* Events: the loop starts a callback, or read_cb, or neither.              *)

\* The invariant of one handle that is live.
LiveInv(r, t) ==
    /\ Sound(r) /\ (~t.failed /\ Owed(r, t) => Stream!Pinned(r))
    /\ Shaken(r, t)

\* A session nobody waits for is accepted, or the handle is closed.
Settled(r, t) == t.session = "done" /\ ~t.approved => r.uv \in Ending

LEMMA EventReady ==
    ASSUME SInv, NEW h \in Handles, Stream!LoopTurn(h)
    PROVE  /\ Accounted(ssl[h], Stream!Ref(tls[h].shake)) /\ LiveInv(ssl[h], tls[h])
           /\ ssl[h] \in Stream!Resources /\ tls[h] \in TlsResources
           /\ ssl[h].obj = "live" /\ frame = Stream!Idle
           /\ frame.h # h /\ Stream!FrameRef(h) = 0
           /\ Stream!Ref(tls[h].shake) \in {0, 1}
           /\ reader = NotReading => Settled(ssl[h], tls[h])
<1>1. ssl[h].obj = "live" /\ frame = Stream!Idle /\ frame.h # h /\ Stream!FrameRef(h) = 0
  BY NothingRuns DEF Stream!LoopTurn, Stream!FrameRef
<1>2. HandleInv(ssl[h], tls[h], Refs(h)) /\ tls[h] \in TlsResources /\ ssl[h] \in Stream!Resources
  BY Typed DEF SInv
<1>3. Stream!Ref(tls[h].shake) \in {0, 1}
  BY DEF Stream!Ref
<1>4. Accounted(ssl[h], Stream!Ref(tls[h].shake)) /\ LiveInv(ssl[h], tls[h])
  BY <1>1, <1>2, <1>3 DEF HandleInv, Counted, Absent, LiveInv, Refs
<1>5. reader = NotReading => Settled(ssl[h], tls[h])
  BY <1>1, NothingRuns DEF SInv, Answered, Settled
<1> QED
  BY <1>1, <1>2, <1>3, <1>4, <1>5

\* No callback is started, read_cb is not running.
LEMMA EventStep ==
    ASSUME SInv, NEW h \in Handles, frame = Stream!Idle, reader = NotReading, UNCHANGED reader,
           NEW q, NEW new, new[h] \in TlsResources, Only(h, new),
           Counted(q, Stream!Ref(new[h].shake)), q.obj # "none", Sound(q),
           ~new[h].failed /\ Owed(q, new[h]) => Stream!Pinned(q),
           q.obj = "live" => Shaken(q, new[h]) /\ Settled(q, new[h]),
           Stream!Update(h, q), TlsAfter(new)
    PROVE  SInv' /\ ((Stream!Pinned(ssl[h]) => Stream!Pinned(q)) => PinsKept)
<1> DEFINE u == new[h]
<1>1. ssl' = [ssl EXCEPT ![h] = q] /\ frame' = frame /\ reader' = reader
  BY DEF Stream!Update
<1>2. Moves(h) /\ frame' \in Frames /\ reader' \in Readers /\ Together(frame, reader)'
  BY <1>1 DEF Moves, SInv
<1>3. frame'.h # h /\ reader'.h # h
  BY <1>1, NothingRuns
<1>4. CASE q.obj = "live"
  <2>1. tls' = [tls EXCEPT ![h] = u]
    <3>1. HandlesInv
      BY DEF SInv
    <3>2. tls' = [tls EXCEPT ![h] = IF q.obj = "live" THEN new[h] ELSE Released(new[h])]
      BY <1>1, <3>1, TlsFollows
    <3> QED
      BY <1>4, <3>2
  <2>2. Accounted(q, Stream!Ref(u.shake)) /\ q \in Stream!Resources /\ u \in TlsResources
    BY <1>4 DEF Counted, Accounted, Absent
  <2>3. Stream!FrameRef(h)' + Stream!Ref(u.shake) = Stream!Ref(u.shake)
    BY <1>3 DEF Stream!FrameRef, Stream!Ref
  <2>4. HandleInv(q, u, Stream!FrameRef(h)' + Stream!Ref(u.shake))
    BY <1>4, <2>2, <2>3 DEF HandleInv, Counted
  <2>5. Answered(h, q, u, reader')
    BY <1>4 DEF Answered, Settled
  <2> HIDE DEF u
  <2> QED
    BY <1>1, <1>2, <1>3, <2>1, <2>2, <2>4, <2>5, Step
<1>5. CASE q.obj # "live"
  <2>1. Absent(q, 0) /\ ~Stream!Pinned(q) /\ q.obj = "freed"
    BY <1>5 DEF Counted, Accounted, Absent, Stream!Resources
  <2>2. new[h].failed \/ ~Owed(q, new[h])
    BY <2>1
  <2> QED
    BY <1>1, <1>2, <1>3, <2>1, <2>2, GoneStep
<1> QED
  BY <1>4, <1>5

\* A callback holds one more reference to its argument.
LEMMA HeldByCallback ==
    ASSUME NEW r, NEW n, Accounted(r, n)
    PROVE  LET q == [r EXCEPT !.rc = @ + 1]
           IN  /\ Accounted(q, n + 1) /\ SameUv(q, r) /\ q.slot = r.slot /\ q.flag = r.flag
               /\ q \in Stream!Resources
<1> DEFINE q == [r EXCEPT !.rc = @ + 1]
<1>1. r \in Stream!Resources /\ r.rc \in Nat /\ r.script \in Nat /\ n \in Nat
  BY DEF Accounted, Stream!Resources
<1>2. Stream!Captures(r.slot) \in Nat /\ Stream!PinRef(r) \in {0, 1}
  BY <1>1, CapturesNat DEF Stream!Resources, Stream!PinRef
<1>3. /\ q \in Stream!Resources /\ SameUv(q, r) /\ q.rc = r.rc + 1
      /\ q.slot = r.slot /\ q.flag = r.flag
  BY <1>1 DEF Stream!Resources, SameUv
<1> HIDE DEF q
<1>4. Stream!PinRef(q) = Stream!PinRef(r)
  BY <1>3 DEF Stream!PinRef, Stream!Pinned
<1>5. Accounted(q, n + 1)
  BY <1>1, <1>2, <1>3, <1>4 DEF Accounted, SameUv
<1> QED
  BY <1>3, <1>5 DEF q

\* The loop calls back, if there is a callback.
LEMMA DeliverStep ==
    ASSUME SInv, NEW h \in Handles, frame = Stream!Idle, reader = NotReading, UNCHANGED reader,
           NEW q, NEW new, new[h] \in TlsResources, Only(h, new),
           Accounted(q, Stream!Ref(new[h].shake)), LiveInv(q, new[h]), Settled(q, new[h]),
           NEW kind \in Stream!Callbacks, NEW why \in Stream!Whys \cup {"lookup"},
           q.slot[kind] # "null" => Counts([kind |-> kind, h |-> h, why |-> why], q, new[h]),
           Stream!Deliver(h, kind, why, q), TlsAfter(new)
    PROVE  SInv' /\ ((Stream!Pinned(ssl[h]) => Stream!Pinned(q)) => PinsKept)
<1> DEFINE u == new[h]
<1>1. CASE q.slot[kind] = "null"
  <2>1. Stream!Update(h, q)
    BY <1>1 DEF Stream!Deliver, Stream!Update
  <2>2. Counted(q, Stream!Ref(u.shake)) /\ q.obj = "live"
    BY DEF Counted, Accounted
  <2> QED
    BY <2>1, <2>2, EventStep DEF LiveInv
<1>2. CASE q.slot[kind] # "null"
  <2> DEFINE p == [q EXCEPT !.rc = @ + 1]
             f == [kind |-> kind, h |-> h, why |-> why]
  <2>1. ssl' = [ssl EXCEPT ![h] = p] /\ frame' = f
    BY <1>2 DEF Stream!Deliver
  <2>2. /\ Accounted(p, Stream!Ref(u.shake) + 1) /\ SameUv(p, q)
        /\ p.slot = q.slot /\ p.flag = q.flag /\ p \in Stream!Resources
    BY HeldByCallback
  <2> HIDE DEF p
  <2>3. p.obj = "live" /\ (Stream!Pinned(p) <=> Stream!Pinned(q))
    BY <2>2 DEF Accounted, Stream!Pinned
  <2>4. tls' = [tls EXCEPT ![h] = u]
    <3>1. HandlesInv
      BY DEF SInv
    <3>2. tls' = [tls EXCEPT ![h] = IF p.obj = "live" THEN new[h] ELSE Released(new[h])]
      BY <2>1, <3>1, TlsFollows
    <3> QED
      BY <2>3, <3>2
  <2>5. f \in Frames /\ f.h = h /\ f.kind # "handshake" /\ f.kind \in Stream!Callbacks
    BY DEF Frames, Stream!Callbacks
  <2> HIDE DEF u
  <2>6. HandleInv(p, u, Stream!FrameRef(h)' + Stream!Ref(u.shake))
    <3>1. Stream!FrameRef(h)' + Stream!Ref(u.shake) = Stream!Ref(u.shake) + 1
      BY <2>1, <2>5 DEF Stream!FrameRef, Stream!Ref
    <3>2. Sound(p) /\ (Owed(p, u) => Owed(q, u)) /\ Shaken(p, u)
      BY <2>2 DEF LiveInv, Sound, SameUv, Owed, Shaken, u
    <3> QED
      BY <2>2, <2>3, <3>1, <3>2 DEF HandleInv, Counted, LiveInv, u
  <2>7. Counts(f, p, u)
    BY <1>2, <2>2, <2>3 DEF Counts, SameUv, u
  <2>8. Answered(h, p, u, reader')
    BY <2>2 DEF Answered, Settled, SameUv, u
  <2>9. Moves(h) /\ reader' \in Readers /\ reader'.h # h
    BY <2>1, <2>5, NothingRuns DEF Moves, SInv
  <2>10. Together(frame, reader)'
    BY <2>1, <2>5 DEF Together
  <2>11. u \in TlsResources
    BY DEF u
  <2> HIDE DEF f
  <2> QED
    BY <2>1, <2>2, <2>3, <2>4, <2>5, <2>6, <2>7, <2>8, <2>9, <2>10, <2>11, Step
<1> QED
  BY <1>1, <1>2

\* The loop gives an answer it owed: the handle counts as before.
Answers(q, r) ==
    /\ q \in Stream!Resources /\ q.obj = r.obj /\ q.script = r.script /\ q.rc = r.rc
    /\ q.slot = r.slot /\ q.flag = r.flag /\ q.uv = r.uv
    /\ q.conn => r.conn
    /\ q.shut = "pending" => r.shut = "pending"

LEMMA AnswersReady ==
    ASSUME NEW r, NEW t, NEW n, NEW q, Accounted(r, n), LiveInv(r, t), Settled(r, t), Answers(q, r)
    PROVE  /\ Accounted(q, n) /\ LiveInv(q, t) /\ Settled(q, t)
           /\ Stream!Pinned(q) <=> Stream!Pinned(r)
<1>1. Stream!Pinned(q) <=> Stream!Pinned(r)
  BY DEF Answers, Stream!Pinned
<1>2. Accounted(q, n)
  BY <1>1, SameCount DEF Answers
<1>3. Sound(q) /\ Shaken(q, t) /\ (Owed(q, t) => Owed(r, t))
  BY DEF Answers, LiveInv, Sound, Shaken, Owed
<1> QED
  BY <1>1, <1>2, <1>3 DEF LiveInv, Settled, Answers

LEMMA AnswerStep ==
    ASSUME SInv, NEW h \in Handles, Stream!LoopTurn(h), reader = NotReading,
           NEW q, Answers(q, ssl[h]), Inherited,
           \/ Stream!Update(h, q)
           \/ \E kind \in Stream!Callbacks, why \in Stream!Whys :
                 /\ Stream!Deliver(h, kind, why, q)
                 /\ kind \in {"read", "write"} => tls[h].session = "done" /\ tls[h].approved
                 /\ kind # "error"
    PROVE  SInv' /\ PinsKept
<1> DEFINE r == ssl[h]
           t == tls[h]
<1>1. /\ Accounted(r, Stream!Ref(t.shake)) /\ LiveInv(r, t) /\ Settled(r, t)
      /\ t \in TlsResources /\ frame = Stream!Idle /\ r.obj = "live"
  BY EventReady
<1>2. /\ Accounted(q, Stream!Ref(t.shake)) /\ LiveInv(q, t) /\ Settled(q, t)
      /\ Stream!Pinned(q) <=> Stream!Pinned(r)
  BY <1>1, AnswersReady
<1>3. Only(h, tls) /\ TlsAfter(tls) /\ UNCHANGED reader
  BY DEF Only, Inherited
<1>4. CASE Stream!Update(h, q)
  <2>1. /\ Counted(q, Stream!Ref(t.shake)) /\ q.obj = "live" /\ Sound(q)
        /\ (~t.failed /\ Owed(q, t) => Stream!Pinned(q)) /\ Shaken(q, t)
    BY <1>2 DEF Counted, Accounted, LiveInv
  <2> QED
    BY <1>1, <1>2, <1>3, <1>4, <2>1, EventStep
<1>5. ASSUME NEW kind \in Stream!Callbacks, NEW why \in Stream!Whys,
             Stream!Deliver(h, kind, why, q),
             kind \in {"read", "write"} => t.session = "done" /\ t.approved,
             kind # "error"
      PROVE  SInv' /\ PinsKept
  <2>1. Counts([kind |-> kind, h |-> h, why |-> why], q, t)
    BY <1>5 DEF Counts, Stream!Whys
  <2> QED
    BY <1>1, <1>2, <1>3, <1>5, <2>1, DeliverStep
<1> QED
  BY <1>4, <1>5

LEMMA ConnectionCbInv ==
    ASSUME SInv, NEW h \in Handles, reader = NotReading, Stream!ConnectionCb(h), Inherited
    PROVE  SInv' /\ PinsKept
<1> DEFINE r == ssl[h]
           p == [r EXCEPT !.pending = TRUE]
<1>1. Stream!LoopTurn(h) /\ r \in Stream!Resources
  BY EventReady DEF Stream!ConnectionCb
<1>2. Answers(p, r) /\ Answers(r, r)
  BY <1>1 DEF Answers, Stream!Resources
<1>3. \/ Stream!Deliver(h, "connect", "ok", p)
      \/ Stream!Deliver(h, "connect", "fail", r)
  BY DEF Stream!ConnectionCb
<1> HIDE DEF p
<1>4. "connect" \in Stream!Callbacks /\ "ok" \in Stream!Whys /\ "fail" \in Stream!Whys
  BY DEF Stream!Callbacks, Stream!Whys
<1>5. CASE Stream!Deliver(h, "connect", "ok", p)
  BY <1>1, <1>2, <1>4, <1>5, AnswerStep
<1>6. CASE Stream!Deliver(h, "connect", "fail", r)
  BY <1>1, <1>2, <1>4, <1>6, AnswerStep
<1> QED
  BY <1>3, <1>5, <1>6

\* Write callbacks are enabled on an accepted session only.
LEMMA WriteCbInv ==
    ASSUME SInv, NEW h \in Handles, reader = NotReading, Stream!WriteCb(h), Inherited
    PROVE  SInv' /\ PinsKept
<1> DEFINE r == ssl[h]
           q == [r EXCEPT !.writes = @ - 1]
<1>1. Stream!LoopTurn(h) /\ r \in Stream!Resources /\ LiveInv(r, tls[h]) /\ r.writes > 0
  BY EventReady DEF Stream!WriteCb
<1>2. r.writes - 1 \in Nat
  BY <1>1 DEF Stream!Resources
<1>3. Answers(q, r)
  BY <1>1, <1>2 DEF Answers, Stream!Resources
<1>4. IF "WRITE_CALLBACK_ENABLE" \in q.flag
      THEN Stream!Deliver(h, "write", "ok", q) ELSE Stream!Update(h, q)
  BY DEF Stream!WriteCb
<1> HIDE DEF q
<1>5. "write" \in Stream!Callbacks /\ "ok" \in Stream!Whys
  BY DEF Stream!Callbacks, Stream!Whys
<1>6. "WRITE_CALLBACK_ENABLE" \in q.flag => tls[h].session = "done" /\ tls[h].approved
  BY <1>1, <1>3 DEF Answers, LiveInv, Shaken
<1>7. CASE "WRITE_CALLBACK_ENABLE" \in q.flag
  <2>1. Stream!Deliver(h, "write", "ok", q)
    BY <1>4, <1>7
  <2> QED
    BY <1>1, <1>3, <1>5, <1>6, <1>7, <2>1, AnswerStep
<1>8. CASE "WRITE_CALLBACK_ENABLE" \notin q.flag
  BY <1>1, <1>3, <1>4, <1>8, AnswerStep
<1> QED
  BY <1>7, <1>8

LEMMA ShutdownCbInv ==
    ASSUME SInv, NEW h \in Handles, reader = NotReading, Stream!ShutdownCb(h), Inherited
    PROVE  SInv' /\ PinsKept
<1> DEFINE q == [ssl[h] EXCEPT !.shut = "done"]
<1>1. Stream!LoopTurn(h) /\ ssl[h] \in Stream!Resources
  BY EventReady DEF Stream!ShutdownCb
<1>2. Answers(q, ssl[h])
  BY <1>1 DEF Answers, Stream!Resources
<1>3. Stream!Deliver(h, "shutdown", "ok", q)
  BY DEF Stream!ShutdownCb
<1> HIDE DEF q
<1>4. "shutdown" \in Stream!Callbacks /\ "ok" \in Stream!Whys
  BY DEF Stream!Callbacks, Stream!Whys
<1> QED
  BY <1>1, <1>2, <1>3, <1>4, AnswerStep

LEMMA CancelConnectInv ==
    ASSUME SInv, NEW h \in Handles, reader = NotReading, Stream!CancelConnect(h), Inherited
    PROVE  SInv' /\ PinsKept
<1> DEFINE q == [ssl[h] EXCEPT !.conn = FALSE]
<1>1. Stream!LoopTurn(h) /\ ssl[h] \in Stream!Resources /\ Stream!Update(h, q)
  BY EventReady DEF Stream!CancelConnect
<1>2. Answers(q, ssl[h])
  BY <1>1 DEF Answers, Stream!Resources
<1> HIDE DEF q
<1> QED
  BY <1>1, <1>2, AnswerStep

\* Where the pin of g may go.
MayDrop(g) ==
    \/ ssl[g].uv = "closing" /\ ssl'[g].uv = "closed"
    \/ tls'[g].failed /\ \/ frame.why = "lookup" /\ frame.h = g
                         \/ tls'[g].lookups < tls[g].lookups

PinsDropRight ==
    \A g \in Handles : Stream!Pinned(ssl[g]) /\ ~Stream!Pinned(ssl'[g]) => MayDrop(g)

LEMMA KeptDropRight == PinsKept => PinsDropRight
BY DEF PinsKept, PinsDropRight

LEMMA OneDrops ==
    ASSUME HandlesInv, NEW h \in Handles, NEW q, ssl' = [ssl EXCEPT ![h] = q], MayDrop(h)
    PROVE  PinsDropRight
<1>1. \A g \in Handles : g # h => ssl'[g] = ssl[g]
  BY DEF HandlesInv
<1> QED
  BY <1>1 DEF PinsDropRight

\* The close callback: the one event, but for a failed lookup, that drops a pin.
LEMMA TcpCloseCbInv ==
    ASSUME SInv, NEW h \in Handles, reader = NotReading, Stream!TcpCloseCb(h), Inherited
    PROVE  SInv' /\ PinsDropRight
<1> DEFINE r == ssl[h]
           t == tls[h]
           n == Stream!Ref(t.shake)
           p == [r EXCEPT !.uv = "closed"]
           q == Stream!ReleaseResource(p)
<1>1. /\ Accounted(r, n) /\ LiveInv(r, t) /\ r \in Stream!Resources /\ t \in TlsResources
      /\ frame = Stream!Idle /\ r.obj = "live"
  BY EventReady DEF Stream!TcpCloseCb
<1>2. /\ r.uv = "closing" /\ ~r.conn /\ r.shut # "pending" /\ Stream!Update(h, q)
      /\ Only(h, tls) /\ TlsAfter(tls) /\ UNCHANGED reader
  BY DEF Stream!TcpCloseCb, Inherited, Only
<1>3. /\ p \in Stream!Resources /\ p.obj = r.obj /\ p.script = r.script /\ p.rc = r.rc
      /\ p.slot = r.slot /\ p.flag = r.flag /\ p.uv = "closed" /\ p.conn = r.conn
      /\ p.shut = r.shut
  BY <1>1 DEF Stream!Resources, Stream!UvStates
<1> HIDE DEF p
<1>4. Accounted(p, n)
  BY <1>1, <1>3, SameCount DEF Stream!Pinned
<1>5. Counted(q, n) /\ SameView(q, p)
  BY <1>4, ReleaseCounted
<1> HIDE DEF q
<1>6. q.uv = "closed" /\ ~q.conn /\ q.shut # "pending" /\ q.obj # "none"
  BY <1>1, <1>2, <1>3, <1>5 DEF SameView
<1>7. Sound(q) /\ ~Owed(q, t) /\ Settled(q, t)
  BY <1>1, <1>2, <1>3, <1>5, <1>6 DEF LiveInv, Sound, SameView, Owed, Settled, Ending
<1>8. Shaken(q, t)
  BY <1>1, <1>3, <1>5, <1>6 DEF LiveInv, Shaken, SameView, Ending
<1>9. SInv'
  BY <1>1, <1>2, <1>5, <1>6, <1>7, <1>8, EventStep
<1>10. HandlesInv /\ ssl' = [ssl EXCEPT ![h] = q] /\ ssl'[h] = q
  BY <1>2 DEF SInv, HandlesInv, Stream!Update
<1>11. MayDrop(h)
  BY <1>2, <1>6, <1>10 DEF MayDrop
<1> QED
  BY <1>9, <1>10, <1>11, OneDrops

LEMMA InheritedEventInv ==
    ASSUME SInv, NEW h \in Handles, reader = NotReading, InheritedEvent(h)
    PROVE  SInv' /\ PinsDropRight
BY ConnectionCbInv, WriteCbInv, ShutdownCbInv, CancelConnectInv, TcpCloseCbInv, KeptDropRight
DEF InheritedEvent

\* releaseResource keeps the callbacks or, with the object, loses them all.
LEMMA ReleaseSlots ==
    ASSUME NEW r \in Stream!Resources
    PROVE  Stream!ReleaseResource(r).slot \in {r.slot, Stream!NoSlots}
<1> DEFINE u == Stream!Unregister(r)
           p == [u EXCEPT !.flag = @ \ {"INTERNAL_REF"}]
<1>1. u \in Stream!Resources /\ u.slot = r.slot
  BY DEF Stream!Unregister, Stream!Resources
<1>2. Stream!ReleaseResource(r) = IF Stream!Pinned(u) THEN Stream!Deref(p) ELSE u
  BY DEF Stream!ReleaseResource
<1> HIDE DEF u
<1>3. p \in Stream!Resources /\ p.slot = r.slot
  BY <1>1 DEF Stream!Resources
<1> HIDE DEF p
<1>4. Stream!Free(p).slot = Stream!NoSlots
  BY <1>3 DEF Stream!Free, Stream!Unregister, Stream!Resources
<1>5. [p EXCEPT !.rc = @ - 1].slot = p.slot
  BY <1>3 DEF Stream!Resources
<1> QED
  BY <1>1, <1>2, <1>3, <1>4, <1>5 DEF Stream!Deref

\* A lookup that fails tells the connect callback, or releases at once.
LEMMA LookupFailsInv ==
    ASSUME SInv, NEW h \in Handles, reader = NotReading, Stream!LoopTurn(h),
           tls[h].lookups > 0, LookupFails(h), UNCHANGED reader
    PROVE  SInv' /\ PinsDropRight
<1> DEFINE r == ssl[h]
           t == tls[h]
           n == Stream!Ref(t.shake)
           new == [tls EXCEPT ![h].lookups = @ - 1, ![h].failed = @ \/ r.slot.connect = "null"]
           u == new[h]
<1>1. /\ Accounted(r, n) /\ LiveInv(r, t) /\ r \in Stream!Resources /\ t \in TlsResources
      /\ frame = Stream!Idle /\ r.obj = "live" /\ Settled(r, t)
  BY EventReady
<1>2. HandlesInv /\ TlsAfter(new)
  BY DEF SInv, LookupFails
<1>3. t.lookups \in Nat /\ t.lookups - 1 \in Nat
  BY <1>1 DEF TlsResources
<1>4. /\ u \in TlsResources /\ Only(h, new) /\ u.shake = t.shake /\ u.session = t.session
      /\ u.approved = t.approved /\ u.lookups = t.lookups - 1
      /\ u.failed <=> (t.failed \/ r.slot.connect = "null")
  BY <1>1, <1>2, <1>3 DEF HandlesInv, TlsResources, Only
<1> HIDE DEF new
<1>5. CASE r.slot.connect = "null"
  <2> DEFINE q == Stream!ReleaseResource(r)
  <2>1. Counted(q, n) /\ SameView(q, r)
    BY <1>1, ReleaseCounted
  <2>2. q.slot.connect = "null"
    BY <1>1, <1>5, ReleaseSlots DEF Stream!NoSlots
  <2>3. Stream!Deliver(h, "connect", "lookup", q)
    BY <1>5 DEF LookupFails
  <2> HIDE DEF q
  <2>4. Stream!Update(h, q)
    BY <2>2, <2>3 DEF Stream!Deliver, Stream!Update
  <2>5. q.obj # "none" /\ Sound(q) /\ Shaken(q, u) /\ Settled(q, u)
    BY <1>1, <1>4, <2>1 DEF SameView, LiveInv, Sound, Shaken, Settled
  <2>6. u.failed
    BY <1>4, <1>5
  <2>7. SInv'
    BY <1>1, <1>2, <1>4, <2>1, <2>4, <2>5, <2>6, EventStep
  <2>8. ssl' = [ssl EXCEPT ![h] = q]
    BY <2>4 DEF Stream!Update
  <2>9. tls'[h].failed /\ tls'[h].lookups < tls[h].lookups
    <3>1. tls' = [tls EXCEPT ![h] = IF q.obj = "live" THEN u ELSE Released(u)]
      BY <1>2, <1>4, <2>8, TlsFollows
    <3>2. Released(u).failed = u.failed /\ Released(u).lookups = u.lookups
      BY DEF Released, BlankTls
    <3>3. tls'[h] = u \/ tls'[h] = Released(u)
      BY <1>2, <3>1 DEF HandlesInv
    <3>4. tls'[h].failed
      BY <2>6, <3>2, <3>3
    <3>5. tls'[h].lookups = t.lookups - 1
      BY <1>4, <3>2, <3>3
    <3> HIDE DEF t
    <3>6. t.lookups - 1 < t.lookups
      BY <1>3
    <3> QED
      BY <3>4, <3>5, <3>6 DEF t
  <2> QED
    BY <1>2, <2>7, <2>8, <2>9, OneDrops DEF MayDrop
<1>6. CASE r.slot.connect # "null"
  <2>1. Stream!Deliver(h, "connect", "lookup", r)
    BY <1>6 DEF LookupFails
  <2>2. LiveInv(r, u) /\ Settled(r, u)
    BY <1>1, <1>3, <1>4, <1>6 DEF LiveInv, Settled, Shaken, Owed
  <2>3. Counts([kind |-> "connect", h |-> h, why |-> "lookup"], r, u)
    BY <1>1, <1>4, <1>6 DEF Counts, LiveInv, Owed
  <2>4. "connect" \in Stream!Callbacks
    BY DEF Stream!Callbacks
  <2>5. SInv' /\ PinsKept
    BY <1>1, <1>2, <1>4, <2>1, <2>2, <2>3, <2>4, DeliverStep
  <2> QED
    BY <2>5, KeptDropRight
<1> QED
  BY <1>5, <1>6

\* A lookup that succeeds connects the handle, which is pinned since connect().
LEMMA LookupSucceedsInv ==
    ASSUME SInv, NEW h \in Handles, reader = NotReading, Stream!LoopTurn(h), UNCHANGED reader,
           tls[h].lookups > 0, ssl[h].uv \in {"init", "broken"},
           Stream!Update(h, [ssl[h] EXCEPT !.uv = "connecting", !.conn = TRUE]),
           TlsAfter([tls EXCEPT ![h].lookups = @ - 1])
    PROVE  SInv' /\ PinsKept
<1> DEFINE r == ssl[h]
           t == tls[h]
           n == Stream!Ref(t.shake)
           q == [r EXCEPT !.uv = "connecting", !.conn = TRUE]
           new == [tls EXCEPT ![h].lookups = @ - 1]
           u == new[h]
<1>1. /\ Accounted(r, n) /\ LiveInv(r, t) /\ r \in Stream!Resources /\ t \in TlsResources
      /\ frame = Stream!Idle /\ r.obj = "live"
  BY EventReady
<1>2. HandlesInv /\ TlsAfter(new) /\ Stream!Update(h, q)
  BY DEF SInv
<1>3. t.lookups - 1 \in Nat
  BY <1>1 DEF TlsResources
<1>4. /\ u \in TlsResources /\ Only(h, new) /\ u.shake = t.shake /\ u.session = t.session
      /\ u.approved = t.approved /\ u.failed = t.failed
  BY <1>1, <1>2, <1>3 DEF HandlesInv, TlsResources, Only
<1> HIDE DEF new
<1>5. /\ q \in Stream!Resources /\ q.obj = r.obj /\ q.script = r.script /\ q.rc = r.rc
      /\ q.slot = r.slot /\ q.flag = r.flag /\ q.uv = "connecting"
  BY <1>1 DEF Stream!Resources, Stream!UvStates
<1> HIDE DEF q
<1>6. Stream!Pinned(q) <=> Stream!Pinned(r)
  BY <1>5 DEF Stream!Pinned
<1>7. Accounted(q, n)
  BY <1>1, <1>5, <1>6, SameCount
<1>8. ~t.failed => Stream!Pinned(r)
  BY <1>1 DEF LiveInv, Owed
<1>9. t.session # "done" /\ "WRITE_CALLBACK_ENABLE" \notin r.flag
  BY <1>1 DEF LiveInv, Shaken, Ending
<1>10. Sound(q) /\ Shaken(q, u) /\ Settled(q, u)
  BY <1>1, <1>4, <1>5, <1>9 DEF LiveInv, Sound, Shaken, Settled, Ending
<1> QED
  BY <1>1, <1>2, <1>4, <1>5, <1>6, <1>7, <1>8, <1>10, EventStep DEF Counted

LEMMA OnAddrinfoResolvedInv ==
    ASSUME SInv, NEW h \in Handles, reader = NotReading, OnAddrinfoResolved(h)
    PROVE  SInv' /\ PinsDropRight
BY LookupFailsInv, LookupSucceedsInv, KeptDropRight DEF OnAddrinfoResolved

\* What the loop changes of a handle that is not closing, when a request ends.
Connected(q, r, uv) ==
    /\ q \in Stream!Resources /\ q.obj = r.obj /\ q.script = r.script /\ q.rc = r.rc
    /\ q.slot = r.slot /\ q.uv = uv /\ ~q.conn /\ q.shut = r.shut
    /\ q.flag \ {"HANDLE_START", "READ_START"} = r.flag \ {"HANDLE_START", "READ_START"}

LEMMA ConnectedReady ==
    ASSUME NEW r, NEW t, NEW n, NEW q, NEW u, NEW uv \in {"connected", "broken"},
           Accounted(r, n), LiveInv(r, t), r.uv = "connecting", Connected(q, r, uv),
           u.session \in {t.session, "handshake"}, u.failed = t.failed
    PROVE  Accounted(q, n) /\ LiveInv(q, u) /\ Settled(q, u)
           /\ (Stream!Pinned(q) <=> Stream!Pinned(r))
<1>1. /\ "INTERNAL_REF" \in q.flag <=> "INTERNAL_REF" \in r.flag
      /\ "CLOSING_START" \in q.flag <=> "CLOSING_START" \in r.flag
      /\ "WRITE_CALLBACK_ENABLE" \in q.flag <=> "WRITE_CALLBACK_ENABLE" \in r.flag
  BY DEF Connected
<1>2. (Stream!Pinned(q) <=> Stream!Pinned(r)) /\ Accounted(q, n)
  BY <1>1, SameCount DEF Stream!Pinned, Connected
<1>3. /\ t.session # "done" /\ "WRITE_CALLBACK_ENABLE" \notin r.flag
      /\ ~t.failed => Stream!Pinned(r)
      /\ "CLOSING_START" \notin r.flag
  BY DEF LiveInv, Shaken, Sound, Owed, Ending
<1>4. Sound(q) /\ Shaken(q, u)
  BY <1>1, <1>3 DEF Sound, Shaken, Connected, Ending
<1> QED
  BY <1>2, <1>3, <1>4 DEF LiveInv, Settled

\* A session begins with the connection.
LEMMA ClientConnectionCbInv ==
    ASSUME SInv, NEW h \in Handles, reader = NotReading, ClientConnectionCb(h)
    PROVE  SInv' /\ PinsKept
<1> DEFINE r == ssl[h]
           t == tls[h]
           n == Stream!Ref(t.shake)
           new == [tls EXCEPT ![h].session = "handshake", ![h].approved = FALSE]
           u == new[h]
<1>1. /\ Accounted(r, n) /\ LiveInv(r, t) /\ r \in Stream!Resources /\ t \in TlsResources
      /\ frame = Stream!Idle /\ r.obj = "live" /\ UNCHANGED reader
      /\ r.uv = "connecting" /\ HandlesInv
  BY EventReady DEF ClientConnectionCb, SInv
<1>2. /\ u \in TlsResources /\ Only(h, new) /\ u.shake = t.shake
      /\ u.session = "handshake" /\ u.failed = t.failed
  BY <1>1 DEF HandlesInv, TlsResources, Only
<1> HIDE DEF new
<1>3. PICK why \in {"ok", "fail"} :
          LET p == [r EXCEPT !.conn = FALSE,
                             !.uv = IF why = "ok" THEN "connected" ELSE "broken"]
          IN \/ /\ \E s \in Sent(p) :
                      Stream!Deliver(h, "connect", why,
                          [s EXCEPT !.reading = TRUE,
                                    !.flag = @ \cup {"HANDLE_START", "READ_START"}])
                /\ TlsAfter(new)
             \/ why = "fail" /\ Stream!Update(h, p) /\ TlsAfter(tls)
  BY DEF ClientConnectionCb, new
<1> DEFINE uv == IF why = "ok" THEN "connected" ELSE "broken"
           p == [r EXCEPT !.conn = FALSE, !.uv = uv]
<1>4. uv \in {"connected", "broken"}
  OBVIOUS
<1>5. \/ /\ \E s \in Sent(p) :
               Stream!Deliver(h, "connect", why,
                   [s EXCEPT !.reading = TRUE,
                             !.flag = @ \cup {"HANDLE_START", "READ_START"}])
         /\ TlsAfter(new)
      \/ Stream!Update(h, p) /\ TlsAfter(tls)
  BY <1>3
<1> HIDE DEF uv
<1>6. Connected(p, r, uv)
  BY <1>1, <1>4 DEF Connected, Stream!Resources, Stream!UvStates
<1> HIDE DEF p
<1>7. CASE Stream!Update(h, p) /\ TlsAfter(tls)
  <2>1. /\ Accounted(p, n) /\ LiveInv(p, t) /\ Settled(p, t)
        /\ (Stream!Pinned(p) <=> Stream!Pinned(r))
    BY <1>1, <1>4, <1>6, ConnectedReady
  <2>2. Only(h, tls)
    BY DEF Only
  <2> QED
    BY <1>1, <1>7, <2>1, <2>2, EventStep DEF Counted, Accounted, LiveInv
<1>8. ASSUME NEW s \in Sent(p), TlsAfter(new),
             Stream!Deliver(h, "connect", why,
                 [s EXCEPT !.reading = TRUE, !.flag = @ \cup {"HANDLE_START", "READ_START"}])
      PROVE  SInv' /\ PinsKept
  <2> DEFINE q == [s EXCEPT !.reading = TRUE, !.flag = @ \cup {"HANDLE_START", "READ_START"}]
  <2>1. Alike(s, p)
    BY <1>6, SentAlike DEF Connected
  <2>2. s \in Stream!Resources /\ s.flag \cup {"HANDLE_START", "READ_START"} \in SUBSET Stream!Flags
    BY <2>1 DEF Alike, Stream!Resources, Stream!Flags
  <2>3. /\ q \in Stream!Resources /\ q.obj = s.obj /\ q.script = s.script /\ q.rc = s.rc
        /\ q.slot = s.slot /\ q.uv = s.uv /\ q.conn = s.conn /\ q.shut = s.shut
        /\ q.flag = s.flag \cup {"HANDLE_START", "READ_START"}
    BY <2>2 DEF Stream!Resources
  <2>4. Stream!Deliver(h, "connect", why, q)
    BY <1>8
  <2> HIDE DEF q
  <2>5. Connected(q, r, uv)
    BY <1>6, <2>1, <2>3 DEF Connected, Alike, SameUv
  <2>6. /\ Accounted(q, n) /\ LiveInv(q, u) /\ Settled(q, u)
        /\ (Stream!Pinned(q) <=> Stream!Pinned(r))
    BY <1>1, <1>2, <1>4, <2>5, ConnectedReady
  <2>7. Counts([kind |-> "connect", h |-> h, why |-> why], q, u)
    BY DEF Counts
  <2>8. "connect" \in Stream!Callbacks /\ why \in Stream!Whys
    BY DEF Stream!Callbacks, Stream!Whys
  <2> QED
    BY <1>1, <1>2, <1>8, <2>4, <2>6, <2>7, <2>8, DeliverStep
<1> QED
  BY <1>5, <1>7, <1>8

\* The end of the stream, or an error: the callback, or the socket is closed.
LEMMA ReadErrorInv ==
    ASSUME SInv, NEW h \in Handles, reader = NotReading, ReadError(h)
    PROVE  SInv' /\ PinsKept
<1> DEFINE r == ssl[h]
           t == tls[h]
           n == Stream!Ref(t.shake)
<1>1. /\ Accounted(r, n) /\ LiveInv(r, t) /\ r \in Stream!Resources /\ t \in TlsResources
      /\ frame = Stream!Idle /\ r.obj = "live" /\ Settled(r, t)
  BY EventReady DEF ReadError, Reading
<1>2. /\ Only(h, tls) /\ TlsAfter(tls) /\ UNCHANGED reader
      /\ r.uv \in {"connected", "broken"}
  BY DEF Only, ReadError, Inherited
<1>3. CASE r.slot.error = "null"
  <2> DEFINE q == Stream!TcpCloseSocket(r)
  <2>1. /\ Counted(q, n) /\ Sound(q) /\ Grows(q, r) /\ q.uv \in Ending /\ q.obj = r.obj
        /\ q.slot = r.slot /\ (Owed(q, t) => Owed(r, t))
        /\ (Stream!Pinned(q) <=> Stream!Pinned(r))
    BY <1>1, CloseSocket DEF Counted, LiveInv
  <2>2. Stream!Deliver(h, "error", "eof", q)
    BY <1>3 DEF ReadError
  <2> HIDE DEF q
  <2>3. Stream!Update(h, q)
    BY <1>3, <2>1, <2>2 DEF Stream!Deliver, Stream!Update
  <2>4. Shaken(q, t) /\ Settled(q, t)
    BY <1>1, <2>1 DEF LiveInv, Shaken, Settled, Grows
  <2> QED
    BY <1>1, <1>2, <2>1, <2>3, <2>4, EventStep DEF LiveInv
<1>4. CASE r.slot.error # "null"
  <2>1. Stream!Deliver(h, "error", "eof", r)
    BY <1>4 DEF ReadError
  <2>2. Counts([kind |-> "error", h |-> h, why |-> "eof"], r, t)
    BY <1>1, <1>2, <1>4 DEF Counts, LiveInv, Owed
  <2>3. "error" \in Stream!Callbacks /\ "eof" \in Stream!Whys
    BY DEF Stream!Callbacks, Stream!Whys
  <2> QED
    BY <1>1, <1>2, <2>1, <2>2, <2>3, DeliverStep
<1> QED
  BY <1>3, <1>4

\* read_cb begins; an object pinned at that time is one it may count on.
LEMMA ReaderStarts ==
    ASSUME SInv, NEW h \in Handles, Stream!LoopTurn(h), reader = NotReading,
           NEW at \in {"handshake", "data"}, reader' = At(h, at),
           NEW q, NEW new, new[h] \in TlsResources, Only(h, new),
           Accounted(q, Stream!Ref(new[h].shake)), LiveInv(q, new[h]), Settled(q, new[h]),
           q.uv = "connected", at = "data" => new[h].session = "done",
           Stream!Pinned(q) <=> Stream!Pinned(ssl[h]),
           Stream!Update(h, q), TlsAfter(new)
    PROVE  SInv' /\ PinsKept
<1> DEFINE u == new[h]
<1>1. ssl' = [ssl EXCEPT ![h] = q] /\ frame' = Stream!Idle /\ frame = Stream!Idle
  BY DEF Stream!Update, Stream!LoopTurn
<1>2. q \in Stream!Resources /\ q.obj = "live" /\ HandlesInv
  BY DEF Accounted, SInv
<1>3. tls' = [tls EXCEPT ![h] = u]
  BY <1>1, <1>2, TlsFollows
<1>4. /\ reader'.h = h /\ reader'.at = at /\ (reader'.pinned <=> Stream!Pinned(ssl[h]))
      /\ reader' \in Readers
  <2> DEFINE b == Stream!Pinned(ssl[h])
  <2>1. b \in BOOLEAN
    BY DEF Stream!Pinned
  <2>2. reader' = [h |-> h, at |-> at, pinned |-> b]
    BY DEF At
  <2> HIDE DEF b
  <2>3. reader'.h = h /\ reader'.at = at /\ reader'.pinned = b /\ reader' \in Readers
    BY <2>1, <2>2 DEF Readers
  <2> QED
    BY <2>1, <2>3 DEF b
<1> HIDE DEF u
<1>5. Stream!FrameRef(h)' + Stream!Ref(u.shake) = Stream!Ref(u.shake)
  BY <1>1, NothingRuns DEF Stream!FrameRef, Stream!Ref
<1>6. HandleInv(q, u, Stream!FrameRef(h)' + Stream!Ref(u.shake))
  BY <1>2, <1>5 DEF HandleInv, Counted, LiveInv, u
<1>7. Advances(reader', q, u)
  BY <1>2, <1>4 DEF Advances, Settled, Ending, u
<1>8. Answered(h, q, u, reader')
  BY DEF Answered, Settled, u
<1>9. Moves(h) /\ frame' \in Frames /\ frame'.h # h
  BY <1>1, <1>4, NothingRuns DEF Moves, Frames
<1>10. Together(frame, reader)'
  BY <1>1, NothingRuns DEF Together
<1>11. u \in TlsResources
  BY DEF u
<1> QED
  BY <1>1, <1>2, <1>3, <1>4, <1>6, <1>7, <1>8, <1>9, <1>10, <1>11, Step

LEMMA ReadHandshakeInv ==
    ASSUME SInv, NEW h \in Handles, reader = NotReading, ReadHandshake(h)
    PROVE  SInv' /\ PinsKept
<1> DEFINE r == ssl[h]
           t == tls[h]
<1>1. /\ Accounted(r, Stream!Ref(t.shake)) /\ LiveInv(r, t) /\ t \in TlsResources
      /\ Settled(r, t) /\ Stream!LoopTurn(h) /\ HandlesInv
  BY EventReady DEF ReadHandshake, Reading, SInv
<1>2. /\ r.uv = "connected" /\ t.session = "handshake" /\ Stream!Update(h, r)
      /\ reader' = At(h, "handshake")
  BY DEF ReadHandshake
<1>3. ASSUME NEW new, new \in {tls, [tls EXCEPT ![h].unasked = TRUE]}, TlsAfter(new)
      PROVE  SInv' /\ PinsKept
  <2> DEFINE u == new[h]
  <2>1. /\ u \in TlsResources /\ Only(h, new) /\ u.shake = t.shake /\ u.failed = t.failed
        /\ u.session = t.session /\ u.approved = t.approved /\ u.lookups = t.lookups
    <3>1. CASE new = tls
      BY <1>1, <3>1 DEF Only
    <3>2. CASE new = [tls EXCEPT ![h].unasked = TRUE]
      BY <1>1, <3>2 DEF HandlesInv, TlsResources, Only
    <3> QED
      BY <1>3, <3>1, <3>2
  <2>2. LiveInv(r, u) /\ Settled(r, u)
    BY <1>1, <2>1 DEF LiveInv, Settled, Shaken, Owed
  <2> QED
    BY <1>1, <1>2, <1>3, <2>1, <2>2, ReaderStarts
<1> QED
  BY <1>3 DEF ReadHandshake

\* Write callbacks are enabled where the session has been accepted.
LEMMA ReadDataInv ==
    ASSUME SInv, NEW h \in Handles, reader = NotReading, ReadData(h)
    PROVE  SInv' /\ PinsKept
<1> DEFINE r == ssl[h]
           t == tls[h]
           n == Stream!Ref(t.shake)
           q == [r EXCEPT !.flag = @ \cup {"WRITE_CALLBACK_ENABLE"}]
<1>1. /\ Accounted(r, n) /\ LiveInv(r, t) /\ t \in TlsResources /\ r \in Stream!Resources
      /\ Settled(r, t) /\ Stream!LoopTurn(h) /\ Only(h, tls)
  BY EventReady DEF ReadData, Reading, Only
<1>2. /\ r.uv = "connected" /\ t.session = "done" /\ Stream!Update(h, q)
      /\ TlsAfter(tls) /\ reader' = At(h, "data")
  BY DEF ReadData
<1>3. r.flag \cup {"WRITE_CALLBACK_ENABLE"} \in SUBSET Stream!Flags
  BY <1>1 DEF Stream!Resources, Stream!Flags
<1>4. /\ q \in Stream!Resources /\ q.obj = r.obj /\ q.script = r.script /\ q.rc = r.rc
      /\ q.slot = r.slot /\ q.uv = r.uv /\ q.conn = r.conn /\ q.shut = r.shut
      /\ q.flag = r.flag \cup {"WRITE_CALLBACK_ENABLE"}
  BY <1>1, <1>3 DEF Stream!Resources
<1> HIDE DEF q
<1>5. Stream!Pinned(q) <=> Stream!Pinned(r)
  BY <1>4 DEF Stream!Pinned
<1>6. Accounted(q, n)
  BY <1>1, <1>4, <1>5, SameCount
<1>7. t.approved
  BY <1>1, <1>2 DEF Settled, Ending
<1>8. LiveInv(q, t) /\ Settled(q, t)
  BY <1>1, <1>2, <1>4, <1>5, <1>7 DEF LiveInv, Sound, Owed, Shaken, Settled, Ending
<1> QED
  BY <1>1, <1>2, <1>4, <1>5, <1>6, <1>8, ReaderStarts

LEMMA LoopEventInv ==
    ASSUME SInv, NEW h \in Handles, LoopEvent(h) PROVE SInv' /\ PinsDropRight
BY InheritedEventInv, OnAddrinfoResolvedInv, ClientConnectionCbInv, ReadErrorInv,
   ReadHandshakeInv, ReadDataInv, KeptDropRight DEF LoopEvent

----------------------------------------------------------------------------
(* read_cb between its callbacks.                                           *)

LEMMA WorkReady ==
    ASSUME SInv, NEW h \in Handles, NEW at \in {"handshake", "finish", "data"}, Working(at, h)
    PROVE  /\ Accounted(ssl[h], Stream!Ref(tls[h].shake)) /\ LiveInv(ssl[h], tls[h])
           /\ ssl[h] \in Stream!Resources /\ tls[h] \in TlsResources /\ HandlesInv
           /\ frame = Stream!Idle /\ reader.h = h /\ reader.at = at
           /\ ssl[h].uv \in {"connected"} \cup Ending
           /\ reader.pinned => Stream!Pinned(ssl[h])
           /\ at # "handshake" => tls[h].session = "done"
           /\ at = "data" => tls[h].approved
           /\ at # "finish" => Settled(ssl[h], tls[h])
           /\ \A to \in {"handshake", "mismatch", "finish", "announce", "data"} :
                 LET x == [reader EXCEPT !.at = to]
                 IN  x \in Readers /\ x.h = h /\ x.at = to /\ x.pinned = reader.pinned
           /\ reader \in Readers
<1>1. /\ frame = Stream!Idle /\ reader.h = h /\ reader.at = at /\ ssl[h].obj = "live"
      /\ HandlesInv /\ reader \in Readers
  BY DEF Working, SInv
<1>2. HandleInv(ssl[h], tls[h], Refs(h)) /\ tls[h] \in TlsResources /\ ssl[h] \in Stream!Resources
  BY <1>1, Typed
<1>3. Refs(h) = Stream!Ref(tls[h].shake)
  BY <1>1, NothingRuns DEF Refs, Stream!FrameRef, Stream!Ref
<1>4. Accounted(ssl[h], Stream!Ref(tls[h].shake)) /\ LiveInv(ssl[h], tls[h])
  BY <1>1, <1>2, <1>3 DEF HandleInv, Counted, Absent, LiveInv
<1>5. Advances(reader, ssl[h], tls[h]) /\ Answered(h, ssl[h], tls[h], reader)
  BY <1>1 DEF SInv
<1>6. /\ ssl[h].uv \in {"connected"} \cup Ending
      /\ reader.pinned => Stream!Pinned(ssl[h])
      /\ at # "handshake" => tls[h].session = "done"
      /\ at = "data" => tls[h].approved
      /\ at # "finish" => Settled(ssl[h], tls[h])
  BY <1>1, <1>5 DEF Advances, Answered, Unanswered, Settled
<1>7. reader # NotReading
  BY <1>1, NothingRuns
<1>8. \A to \in {"handshake", "mismatch", "finish", "announce", "data"} :
         LET x == [reader EXCEPT !.at = to]
         IN  x \in Readers /\ x.h = h /\ x.at = to /\ x.pinned = reader.pinned
  BY <1>1, <1>7 DEF Readers
<1> QED
  BY <1>1, <1>2, <1>4, <1>6, <1>8

\* read_cb goes on, or ends, and calls nobody.
LEMMA WorkStep ==
    ASSUME SInv, NEW h \in Handles, frame = Stream!Idle, reader.h = h,
           NEW q, NEW new, new[h] \in TlsResources, Only(h, new),
           Accounted(q, Stream!Ref(new[h].shake)), LiveInv(q, new[h]),
           Stream!Pinned(ssl[h]) => Stream!Pinned(q),
           Stream!Update(h, q), TlsAfter(new),
           reader' \in Readers, reader' = NotReading \/ reader'.h = h,
           reader'.h = h => Advances(reader', q, new[h]),
           Answered(h, q, new[h], reader')
    PROVE  SInv' /\ PinsKept
<1> DEFINE u == new[h]
<1>1. /\ ssl' = [ssl EXCEPT ![h] = q] /\ frame' = Stream!Idle
      /\ q \in Stream!Resources /\ q.obj = "live" /\ HandlesInv
  BY DEF Stream!Update, Accounted, SInv
<1>2. tls' = [tls EXCEPT ![h] = u]
  BY <1>1, TlsFollows
<1> HIDE DEF u
<1>3. Stream!FrameRef(h)' + Stream!Ref(u.shake) = Stream!Ref(u.shake)
  BY <1>1, NothingRuns DEF Stream!FrameRef, Stream!Ref
<1>4. HandleInv(q, u, Stream!FrameRef(h)' + Stream!Ref(u.shake))
  BY <1>1, <1>3 DEF HandleInv, Counted, LiveInv, u
<1>5. Moves(h) /\ frame' \in Frames /\ frame'.h # h /\ Together(frame, reader)'
  BY <1>1, NothingRuns DEF Moves, Frames, Together
<1>6. u \in TlsResources /\ (reader'.h = h => Advances(reader', q, u)) /\ Answered(h, q, u, reader')
  BY DEF u
<1> QED
  BY <1>1, <1>2, <1>4, <1>5, <1>6, Step

\* read_cb calls the script, and goes on when the callback returns, or ends.
LEMMA WorkCalls ==
    ASSUME SInv, NEW h \in Handles, frame = Stream!Idle, reader.h = h,
           NEW q, NEW new, new[h] \in TlsResources, Only(h, new),
           Accounted(q, Stream!Ref(new[h].shake)), LiveInv(q, new[h]),
           Stream!Pinned(ssl[h]) => Stream!Pinned(q),
           ssl' = [ssl EXCEPT ![h] = [q EXCEPT !.rc = @ + 1]], TlsAfter(new),
           NEW f \in Frames, f.h = h, frame' = f, Counts(f, q, new[h]),
           reader' \in Readers, reader' = NotReading \/ reader'.h = h,
           reader'.h = h => Advances(reader', q, new[h]),
           Answered(h, q, new[h], reader'), Together(f, reader')
    PROVE  SInv' /\ PinsKept
<1> DEFINE u == new[h]
           p == [q EXCEPT !.rc = @ + 1]
<1>1. /\ Accounted(p, Stream!Ref(u.shake) + 1) /\ SameUv(p, q)
      /\ p.slot = q.slot /\ p.flag = q.flag /\ p \in Stream!Resources
  BY HeldByCallback
<1>2. ssl' = [ssl EXCEPT ![h] = p] /\ HandlesInv
  BY DEF SInv
<1> HIDE DEF p
<1>3. p.obj = "live" /\ (Stream!Pinned(p) <=> Stream!Pinned(q))
  BY <1>1 DEF Accounted, Stream!Pinned
<1>4. tls' = [tls EXCEPT ![h] = u]
  <2>1. HandlesInv /\ h \in Handles /\ ssl' = [ssl EXCEPT ![h] = p] /\ TlsAfter(new) /\ Only(h, new)
    BY <1>2
  <2>2. tls' = [tls EXCEPT ![h] = IF p.obj = "live" THEN new[h] ELSE Released(new[h])]
    BY ONLY <2>1, TlsFollows
  <2> QED
    BY <1>3, <2>2
<1> HIDE DEF u
<1>5. Stream!FrameRef(h)' + Stream!Ref(u.shake) = Stream!Ref(u.shake) + 1
  BY DEF Stream!FrameRef, Stream!Ref
<1>6. Sound(p) /\ (Owed(p, u) => Owed(q, u)) /\ Shaken(p, u)
  BY <1>1 DEF LiveInv, Sound, SameUv, Owed, Shaken, u
<1>7. HandleInv(p, u, Stream!FrameRef(h)' + Stream!Ref(u.shake))
  BY <1>1, <1>3, <1>5, <1>6 DEF HandleInv, Counted, LiveInv, u
<1>8. Counts(f, p, u)
  BY <1>1, <1>3 DEF Counts, SameUv, u
<1>9. (reader'.h = h => Advances(reader', p, u)) /\ Answered(h, p, u, reader')
  BY <1>1, <1>3 DEF Advances, Answered, SameUv, u
<1>10. Moves(h) /\ Together(frame, reader)'
  BY DEF Moves, Together
<1>11. u \in TlsResources
  BY DEF u
<1> QED
  BY <1>1, <1>2, <1>3, <1>4, <1>7, <1>8, <1>9, <1>10, <1>11, Step

\* The handshake callback is asked, or the socket is closed for want of one.
LEMMA AskStep ==
    ASSUME SInv, NEW h \in Handles, NEW at \in {"handshake", "finish"}, Working(at, h),
           NEW why \in {"ok", "fail"}, NEW to \in {"handshake", "mismatch", "announce"},
           NEW q, NEW new, new[h] \in TlsResources, Only(h, new),
           Accounted(q, Stream!Ref(new[h].shake)), LiveInv(q, new[h]),
           Stream!Pinned(ssl[h]) => Stream!Pinned(q),
           q.uv \in {"connected"} \cup Ending,
           to # "handshake" => new[h].session = "done",
           to = "handshake" => Settled(q, new[h]),
           Ask(h, why, to, q), TlsAfter(new)
    PROVE  SInv' /\ PinsKept
<1> DEFINE u == new[h]
           x == [reader EXCEPT !.at = to]
<1>1. /\ frame = Stream!Idle /\ reader.h = h
      /\ reader.pinned => Stream!Pinned(ssl[h])
      /\ x \in Readers /\ x.h = h /\ x.at = to /\ x.pinned = reader.pinned
  BY WorkReady
<1>2. CASE /\ ssl' = [ssl EXCEPT ![h] = [q EXCEPT !.rc = @ + 1]]
           /\ frame' = [kind |-> "handshake", h |-> h, why |-> why]
           /\ reader' = x
  <2> DEFINE f == [kind |-> "handshake", h |-> h, why |-> why]
  <2>1. f \in Frames /\ f.h = h /\ f.kind = "handshake" /\ f.why = why
    BY DEF Frames, Stream!Whys
  <2> HIDE DEF f
  <2>2. Counts(f, q, u)
    BY <2>1 DEF Counts
  <2>3. q.obj = "live"
    BY DEF Accounted
  <2> HIDE DEF x
  <2>4. Advances(x, q, u)
    BY <1>1, <2>3 DEF Advances
  <2>5. Answered(h, q, u, x)
    BY <1>1 DEF Answered, Unanswered, Settled
  <2>6. Together(f, x)
    BY <1>1, <2>1 DEF Together, AfterYes
  <2>7. frame' = f
    BY <1>2 DEF f
  <2> QED
    BY <1>1, <1>2, <2>1, <2>2, <2>4, <2>5, <2>6, <2>7, WorkCalls
<1>3. CASE Stream!Update(h, Refused(q)) /\ reader' = NotReading
  <2> DEFINE p == Refused(q)
  <2>1. /\ Counted(p, Stream!Ref(u.shake)) /\ Sound(p) /\ Grows(p, q) /\ p.uv \in Ending
        /\ p.obj = q.obj /\ (Owed(p, u) => Owed(q, u))
        /\ (Stream!Pinned(p) <=> Stream!Pinned(q))
    BY CloseSocket DEF Counted, LiveInv, Refused
  <2> HIDE DEF p
  <2>2. Accounted(p, Stream!Ref(u.shake))
    BY <2>1 DEF Counted, Absent, Accounted
  <2>3. LiveInv(p, u) /\ Answered(h, p, u, reader')
    BY <2>1 DEF LiveInv, Shaken, Answered, Grows
  <2>4. reader' \in Readers /\ reader'.h # h
    BY <1>3, NothingRuns DEF Readers
  <2>5. Stream!Update(h, p)
    BY <1>3 DEF p
  <2> QED
    BY <1>1, <1>3, <2>1, <2>2, <2>3, <2>4, <2>5, WorkStep
<1> QED
  BY <1>2, <1>3 DEF Ask

\* What OpenSSL sends leaves the invariant of the handle as it was.
LEMMA SentReady ==
    ASSUME NEW r \in Stream!Resources, NEW n, NEW t, NEW q \in Sent(r),
           Accounted(r, n), LiveInv(r, t)
    PROVE  /\ Accounted(q, n) /\ LiveInv(q, t) /\ q.uv = r.uv
           /\ Stream!Pinned(q) <=> Stream!Pinned(r)
<1>1. Alike(q, r)
  BY SentAlike
<1>2. Accounted(q, n)
  BY <1>1, AlikeStored DEF Stored
<1> QED
  BY <1>1, <1>2 DEF Alike, SameUv, LiveInv, Sound, Owed, Shaken, Stream!Pinned

\* SSL_do_handshake wants more bytes, or fails and the socket is closed.
LEMMA HandshakeStopsInv ==
    ASSUME SInv, NEW h \in Handles, HandshakeStops(h) PROVE SInv' /\ PinsKept
<1> DEFINE t == tls[h]
           n == Stream!Ref(t.shake)
<1>1. /\ Accounted(ssl[h], n) /\ LiveInv(ssl[h], t) /\ Settled(ssl[h], t)
      /\ ssl[h] \in Stream!Resources /\ t \in TlsResources
      /\ frame = Stream!Idle /\ reader.h = h
  BY WorkReady DEF HandshakeStops
<1>2. /\ TlsAfter(tls) /\ Only(h, tls) /\ reader' = NotReading
      /\ reader' \in Readers /\ reader'.h # h
  BY NothingRuns DEF HandshakeStops, Only, Readers
<1>3. PICK r \in Sent(ssl[h]) : Stream!Update(h, r) \/ Stream!Update(h, Refused(r))
  BY DEF HandshakeStops
<1>4. /\ Accounted(r, n) /\ LiveInv(r, t) /\ r.uv = ssl[h].uv
      /\ (Stream!Pinned(r) <=> Stream!Pinned(ssl[h]))
  BY <1>1, SentReady
<1>5. CASE Stream!Update(h, r)
  <2>1. Answered(h, r, t, reader')
    BY <1>1, <1>4 DEF Answered, Settled
  <2> QED
    BY <1>1, <1>2, <1>4, <1>5, <2>1, WorkStep
<1>6. CASE Stream!Update(h, Refused(r))
  <2> DEFINE q == Refused(r)
  <2>1. /\ Counted(q, n) /\ Sound(q) /\ Grows(q, r) /\ q.uv \in Ending
        /\ q.obj = r.obj /\ (Owed(q, t) => Owed(r, t))
        /\ (Stream!Pinned(q) <=> Stream!Pinned(r))
    BY <1>4, CloseSocket DEF Counted, LiveInv, Refused
  <2>2. Stream!Update(h, q)
    BY <1>6
  <2> HIDE DEF q
  <2>3. Accounted(q, n)
    BY <1>4, <2>1 DEF Counted, Absent, Accounted
  <2>4. LiveInv(q, t) /\ Answered(h, q, t, reader')
    BY <1>4, <2>1 DEF LiveInv, Shaken, Answered, Grows
  <2> QED
    BY <1>1, <1>2, <1>4, <2>1, <2>2, <2>3, <2>4, WorkStep
<1> QED
  BY <1>3, <1>5, <1>6

LEMMA VerifyCallbackInv ==
    ASSUME SInv, NEW h \in Handles, VerifyCallback(h) PROVE SInv' /\ PinsKept
<1>1. /\ Accounted(ssl[h], Stream!Ref(tls[h].shake)) /\ LiveInv(ssl[h], tls[h])
      /\ Settled(ssl[h], tls[h]) /\ tls[h] \in TlsResources
      /\ ssl[h].uv \in {"connected"} \cup Ending
  BY WorkReady DEF VerifyCallback
<1>2. /\ Working("handshake", h) /\ Ask(h, "fail", "handshake", ssl[h]) /\ TlsAfter(tls)
      /\ Only(h, tls)
  BY DEF VerifyCallback, Only
<1> QED
  BY <1>1, <1>2, AskStep

\* The session is done; nobody has accepted it yet.
LEMMA HandshakeDoneInv ==
    ASSUME SInv, NEW h \in Handles, HandshakeDone(h) PROVE SInv' /\ PinsKept
<1> DEFINE t == tls[h]
           n == Stream!Ref(t.shake)
           new == [tls EXCEPT ![h].session = "done"]
           u == new[h]
           x == [reader EXCEPT !.at = "finish"]
<1>1. /\ Accounted(ssl[h], n) /\ LiveInv(ssl[h], t) /\ HandlesInv
      /\ ssl[h] \in Stream!Resources /\ t \in TlsResources
      /\ frame = Stream!Idle /\ reader.h = h /\ ssl[h].uv \in {"connected"} \cup Ending
      /\ reader.pinned => Stream!Pinned(ssl[h])
      /\ x \in Readers /\ x.h = h /\ x.at = "finish" /\ x.pinned = reader.pinned
  BY WorkReady DEF HandshakeDone
<1>2. Working("handshake", h) /\ TlsAfter(new)
  BY DEF HandshakeDone
<1>3. PICK r \in Sent(ssl[h]) :
         \/ Stream!Update(h, r) /\ reader' = x
         \/ Ask(h, "fail", "mismatch", r)
  BY DEF HandshakeDone
<1>4. /\ u \in TlsResources /\ Only(h, new) /\ u.shake = t.shake /\ u.session = "done"
      /\ u.approved = t.approved /\ u.failed = t.failed /\ u.lookups = t.lookups
  BY <1>1 DEF HandlesInv, TlsResources, Only
<1> HIDE DEF new, x
<1>5. /\ Accounted(r, n) /\ LiveInv(r, t) /\ r.uv = ssl[h].uv
      /\ (Stream!Pinned(r) <=> Stream!Pinned(ssl[h]))
  BY <1>1, SentReady
<1>6. LiveInv(r, u) /\ r.obj = "live"
  BY <1>1, <1>4, <1>5 DEF LiveInv, Owed, Shaken, Accounted
<1>7. CASE Stream!Update(h, r) /\ reader' = x
  <2>1. Advances(x, r, u) /\ Answered(h, r, u, x)
    BY <1>1, <1>4, <1>5, <1>6 DEF Advances, Answered, Unanswered
  <2> QED
    BY <1>1, <1>2, <1>4, <1>5, <1>6, <1>7, <2>1, WorkStep
<1>8. CASE Ask(h, "fail", "mismatch", r)
  BY <1>1, <1>2, <1>4, <1>5, <1>6, <1>8, AskStep
<1> QED
  BY <1>3, <1>7, <1>8

LEMMA AnnounceInv == ASSUME SInv, NEW h \in Handles, Announce(h) PROVE SInv' /\ PinsKept
<1>1. /\ Accounted(ssl[h], Stream!Ref(tls[h].shake)) /\ LiveInv(ssl[h], tls[h])
      /\ tls[h].session = "done" /\ tls[h] \in TlsResources
      /\ ssl[h].uv \in {"connected"} \cup Ending
  BY WorkReady DEF Announce
<1>2. /\ Working("finish", h) /\ Ask(h, "ok", "announce", ssl[h]) /\ TlsAfter(tls)
      /\ Only(h, tls)
  BY DEF Announce, Only
<1> QED
  BY <1>1, <1>2, AskStep

\* The read callback runs where the session has been accepted.
LEMMA DeliverInv == ASSUME SInv, NEW h \in Handles, Deliver(h) PROVE SInv' /\ PinsKept
<1> DEFINE r == ssl[h]
           t == tls[h]
           n == Stream!Ref(t.shake)
<1>1. /\ Accounted(r, n) /\ LiveInv(r, t) /\ Settled(r, t) /\ t \in TlsResources
      /\ frame = Stream!Idle /\ reader.h = h /\ reader.at = "data" /\ reader \in Readers
      /\ t.session = "done" /\ t.approved
  BY WorkReady DEF Deliver
<1>2. TlsAfter(tls) /\ Only(h, tls) /\ Stream!Deliver(h, "read", "data", r)
  BY DEF Deliver, Only
<1>3. Advances(reader, r, t) /\ Answered(h, r, t, reader) /\ Together(frame, reader)
  BY <1>1 DEF SInv
<1>4. CASE reader' = NotReading
  <2>1. reader' \in Readers /\ reader'.h # h /\ Answered(h, r, t, reader')
    BY <1>1, <1>4, NothingRuns DEF Readers, Answered
  <2>2. CASE r.slot["read"] = "null"
    <3>1. Stream!Update(h, r)
      BY <1>2, <2>2 DEF Stream!Deliver, Stream!Update
    <3> QED
      BY <1>1, <1>2, <1>4, <2>1, <3>1, WorkStep
  <2>3. CASE r.slot["read"] # "null"
    <3> DEFINE f == [kind |-> "read", h |-> h, why |-> "data"]
    <3>1. /\ f \in Frames /\ f.h = h /\ Counts(f, r, t) /\ Together(f, reader')
      BY <1>1, <1>4 DEF Frames, Stream!Callbacks, Stream!Whys, Counts, Together
    <3>2. ssl' = [ssl EXCEPT ![h] = [r EXCEPT !.rc = @ + 1]] /\ frame' = f
      BY <1>2, <2>3 DEF Stream!Deliver
    <3> HIDE DEF f
    <3> QED
      BY <1>1, <1>2, <1>4, <2>1, <3>1, <3>2, WorkCalls
  <2> QED
    BY <2>2, <2>3
<1>5. CASE r.slot.read # "null" /\ UNCHANGED reader
  <2> DEFINE f == [kind |-> "read", h |-> h, why |-> "data"]
  <2>1. /\ f \in Frames /\ f.h = h /\ Counts(f, r, t) /\ Together(f, reader)
    BY <1>1, <1>5 DEF Frames, Stream!Callbacks, Stream!Whys, Counts, Together
  <2>2. ssl' = [ssl EXCEPT ![h] = [r EXCEPT !.rc = @ + 1]] /\ frame' = f
    BY <1>2, <1>5 DEF Stream!Deliver
  <2> HIDE DEF f
  <2>3. /\ reader' \in Readers /\ reader'.h = h /\ Advances(reader', r, t)
        /\ Answered(h, r, t, reader') /\ Together(f, reader')
    BY <1>1, <1>3, <1>5, <2>1
  <2> QED
    BY <1>1, <1>2, <2>1, <2>2, <2>3, WorkCalls
<1> QED
  BY <1>4, <1>5 DEF Deliver

LEMMA ReadCbStepInv ==
    ASSUME SInv, NEW h \in Handles, ReadCbStep(h) PROVE SInv' /\ PinsKept
BY HandshakeStopsInv, VerifyCallbackInv, HandshakeDoneInv, AnnounceInv, DeliverInv DEF ReadCbStep

\* read_cb whose object has gone no longer waits for anything.
LEMMA AbandonedInv == ASSUME SInv, Abandoned PROVE SInv' /\ PinsKept
<1>1. /\ ssl' = ssl /\ tls' = tls /\ frame' = frame /\ frame = Stream!Idle
      /\ reader' = NotReading /\ ssl[reader.h].obj # "live"
  BY DEF Abandoned
<1>2. HandlesInv'
  <2>1. \A h \in Handles : Refs(h)' = Refs(h)
    BY <1>1 DEF Refs, Stream!FrameRef
  <2> QED
    BY <1>1, <2>1 DEF SInv, HandlesInv
<1>3. ASSUME NEW h \in Handles
      PROVE  frame.h # h /\ reader'.h # h /\ Answered(h, ssl[h], tls[h], reader')
  BY <1>1, NothingRuns DEF SInv, Answered
<1>4. frame' \in Frames /\ reader' \in Readers /\ Together(frame, reader)'
  BY <1>1, NothingRuns DEF SInv, Readers, Together
<1> QED
  BY <1>1, <1>2, <1>3, <1>4 DEF SInv, PinsKept

----------------------------------------------------------------------------
(* A callback returns, and with it goes the reference that was its argument. *)

LEMMA ReturnReady ==
    ASSUME SInv, NEW h \in Handles, frame.h = h
    PROVE  LET r == Stream!Deref(ssl[h])
               t == tls[h]
           IN  /\ Counted(r, Stream!Ref(t.shake)) /\ SameView(r, ssl[h]) /\ r.obj # "none"
               /\ Stream!Pinned(ssl[h]) => Stream!Pinned(r)
               /\ Sound(r) /\ (~t.failed /\ Owed(r, t) => Stream!Pinned(r))
               /\ Shaken(r, t)
               /\ ssl[h].obj = "live" /\ t \in TlsResources /\ HandlesInv
               /\ frame # Stream!Idle /\ frame \in Frames /\ reader \in Readers
<1> DEFINE r == Stream!Deref(ssl[h])
           t == tls[h]
           n == Stream!Ref(t.shake)
<1>1. /\ HandlesInv /\ frame \in Frames /\ reader \in Readers /\ frame # Stream!Idle
  BY NothingRuns DEF SInv
<1>2. /\ HandleInv(ssl[h], t, Refs(h)) /\ t \in TlsResources /\ ssl[h] \in Stream!Resources
      /\ ssl[h].slot \in Stream!Slots
  BY <1>1, Typed
<1>3. n \in {0, 1} /\ Refs(h) = n + 1 /\ Stream!PinRef(ssl[h]) \in {0, 1}
      /\ ssl[h].script \in Nat /\ Stream!Captures(ssl[h].slot) \in Nat
  <2>1. n \in {0, 1} /\ Stream!PinRef(ssl[h]) \in {0, 1}
    BY DEF Stream!Ref, Stream!PinRef
  <2>2. Stream!FrameRef(h) = 1
    BY DEF Stream!FrameRef
  <2> QED
    BY <1>2, <2>1, <2>2, CapturesNat DEF Refs, Stream!Resources
<1>4. Accounted(ssl[h], n + 1)
  <2>1. Counted(ssl[h], n + 1)
    BY <1>2, <1>3 DEF HandleInv
  <2>2. n + 1 # 0
    BY <1>3
  <2> QED
    BY <2>1, <2>2 DEF Counted, Absent
<1>5. /\ ssl[h].obj = "live" /\ ssl[h].rc > 0
      /\ ssl[h].rc = ssl[h].script + n + Stream!PinRef(ssl[h]) + Stream!Captures(ssl[h].slot) + 1
  BY <1>3, <1>4 DEF Accounted
<1>6. /\ Counted(r, n) /\ SameView(r, ssl[h])
      /\ Stream!Pinned(ssl[h]) => r.flag = ssl[h].flag
  BY <1>2, <1>3, <1>5, DerefCounted
<1> HIDE DEF r
<1>7. (Stream!Pinned(ssl[h]) => Stream!Pinned(r)) /\ r.obj # "none"
  BY <1>5, <1>6 DEF Stream!Pinned, SameView
<1>8. Sound(r) /\ (Owed(r, t) => Owed(ssl[h], t)) /\ Shaken(r, t)
  BY <1>2, <1>5, <1>6 DEF HandleInv, SameView, Sound, Owed, Shaken
<1> QED
  BY <1>1, <1>2, <1>5, <1>6, <1>7, <1>8 DEF HandleInv, r

LEMMA ReturnStep ==
    ASSUME SInv, NEW h \in Handles, frame.h = h,
           NEW q, NEW new, new[h] \in TlsResources, Only(h, new),
           Counted(q, Stream!Ref(new[h].shake)), q.obj # "none", Sound(q),
           ~new[h].failed /\ Owed(q, new[h]) => Stream!Pinned(q),
           Shaken(q, new[h]),
           ssl' = [ssl EXCEPT ![h] = q], TlsAfter(new), frame' = Stream!Idle,
           \/ reader' = reader
           \/ reader.h = h /\ (reader' = NotReading \/ reader'.h = h),
           reader' \in Readers,
           reader'.h = h => Advances(reader', q, new[h]),
           Answered(h, q, new[h], reader')
    PROVE  SInv' /\ ((Stream!Pinned(ssl[h]) => Stream!Pinned(q)) => PinsKept)
<1> DEFINE u == new[h]
<1>1. Moves(h) /\ frame' \in Frames /\ frame'.h # h /\ Together(frame, reader)' /\ HandlesInv
  BY NothingRuns DEF Moves, Frames, Together, SInv
<1>2. CASE q.obj = "live"
  <2>1. tls' = [tls EXCEPT ![h] = u]
    <3>1. tls' = [tls EXCEPT ![h] = IF q.obj = "live" THEN new[h] ELSE Released(new[h])]
      BY <1>1, TlsFollows
    <3> QED
      BY <1>2, <3>1
  <2>2. Accounted(q, Stream!Ref(u.shake)) /\ q \in Stream!Resources /\ u \in TlsResources
    BY <1>2 DEF Counted, Accounted, Absent
  <2>3. Stream!FrameRef(h)' + Stream!Ref(u.shake) = Stream!Ref(u.shake)
    BY <1>1 DEF Stream!FrameRef, Stream!Ref
  <2>4. HandleInv(q, u, Stream!FrameRef(h)' + Stream!Ref(u.shake))
    BY <1>2, <2>2, <2>3 DEF HandleInv, Counted
  <2>5. (reader'.h = h => Advances(reader', q, u)) /\ Answered(h, q, u, reader')
    OBVIOUS
  <2> HIDE DEF u
  <2> QED
    BY <1>1, <2>1, <2>2, <2>4, <2>5, Step
<1>3. CASE q.obj # "live"
  <2>1. Absent(q, 0) /\ ~Stream!Pinned(q) /\ q.obj = "freed"
    BY <1>3 DEF Counted, Accounted, Absent, Stream!Resources
  <2>2. /\ new[h].failed \/ ~Owed(q, new[h])
        /\ reader'.h = h => ~reader'.pinned
    BY <2>1 DEF Advances
  <2> QED
    BY <1>1, <2>1, <2>2, GoneStep
<1> QED
  BY <1>2, <1>3

\* The answer of the handshake callback: read_cb goes on, or closes the socket.
LEMMA HandshakeReturnInv ==
    ASSUME SInv, NEW h \in Handles, HandshakeReturn(h) PROVE SInv' /\ PinsKept
<1> DEFINE r == Stream!Deref(ssl[h])
           t == tls[h]
           n == Stream!Ref(t.shake)
<1>1. frame.h = h /\ frame.kind = "handshake" /\ frame' = Stream!Idle
  BY DEF HandshakeReturn
<1>2. /\ Counted(r, n) /\ SameView(r, ssl[h]) /\ r.obj # "none"
      /\ Stream!Pinned(ssl[h]) => Stream!Pinned(r)
      /\ Sound(r) /\ (~t.failed /\ Owed(r, t) => Stream!Pinned(r))
      /\ Shaken(r, t)
      /\ ssl[h].obj = "live" /\ t \in TlsResources /\ HandlesInv
      /\ reader \in Readers
  BY <1>1, ReturnReady
<1>3. reader.h = h /\ reader.at \in DOMAIN AfterYes /\ reader # NotReading
  BY <1>1, NothingRuns DEF SInv, Together
<1>4. Advances(reader, ssl[h], t) /\ Answered(h, ssl[h], t, reader)
  BY <1>3 DEF SInv
<1>5. \/ /\ ssl' = [ssl EXCEPT ![h] = r]
         /\ reader' = [reader EXCEPT !.at = AfterYes[@]]
         /\ TlsAfter([tls EXCEPT ![h].approved = @ \/ reader.at = "announce"])
      \/ /\ ssl' = [ssl EXCEPT ![h] = Refused(r)]
         /\ reader' = NotReading
         /\ TlsAfter(tls)
  BY DEF HandshakeReturn
<1> HIDE DEF r
<1>6. ASSUME ssl' = [ssl EXCEPT ![h] = r], reader' = [reader EXCEPT !.at = AfterYes[@]],
             TlsAfter([tls EXCEPT ![h].approved = @ \/ reader.at = "announce"])
      PROVE  SInv' /\ PinsKept
  <2> DEFINE new == [tls EXCEPT ![h].approved = @ \/ reader.at = "announce"]
             u == new[h]
  <2>1. /\ u \in TlsResources /\ Only(h, new) /\ u.shake = t.shake /\ u.session = t.session
        /\ u.failed = t.failed /\ u.lookups = t.lookups
        /\ u.approved <=> (t.approved \/ reader.at = "announce")
    BY <1>2 DEF HandlesInv, TlsResources, Only
  <2>2. TlsAfter(new)
    BY <1>6
  <2> HIDE DEF new
  <2>3. /\ reader' \in Readers /\ reader'.h = h /\ reader'.pinned = reader.pinned
        /\ reader.at = "handshake" => reader'.at = "handshake"
        /\ reader.at = "mismatch" => reader'.at = "finish"
        /\ reader.at = "announce" => reader'.at = "data"
    BY <1>2, <1>3, <1>6 DEF Readers, AfterYes
  <2>4. reader.at \in {"handshake", "mismatch", "announce"}
    BY <1>3 DEF AfterYes
  <2>5. Advances(reader', r, u)
    BY <1>2, <1>4, <2>1, <2>3, <2>4 DEF Advances, SameView
  <2>6. Answered(h, r, u, reader')
    BY <1>2, <1>4, <2>1, <2>3, <2>4 DEF Answered, SameView, Unanswered
  <2>7. Shaken(r, u) /\ (Owed(r, u) => Owed(r, t))
    BY <1>2, <2>1 DEF Shaken, Owed
  <2> QED
    BY <1>1, <1>2, <1>3, <1>6, <2>1, <2>2, <2>3, <2>5, <2>6, <2>7, ReturnStep
<1>7. ASSUME ssl' = [ssl EXCEPT ![h] = Refused(r)], reader' = NotReading, TlsAfter(tls)
      PROVE  SInv' /\ PinsKept
  <2> DEFINE q == Refused(r)
  <2>1. /\ Counted(q, n) /\ Sound(q) /\ Grows(q, r) /\ q.uv \in Ending
        /\ q.obj = r.obj /\ (Owed(q, t) => Owed(r, t))
        /\ (Stream!Pinned(q) <=> Stream!Pinned(r))
    BY <1>2, CloseSocket DEF Refused
  <2>2. ssl' = [ssl EXCEPT ![h] = q]
    BY <1>7
  <2> HIDE DEF q
  <2>3. Shaken(q, t) /\ Answered(h, q, t, reader')
    BY <1>2, <2>1 DEF Shaken, Answered, Grows
  <2>4. reader' \in Readers /\ reader'.h # h /\ Only(h, tls)
    BY <1>7, NothingRuns DEF Readers, Only
  <2> QED
    BY <1>1, <1>2, <1>3, <1>7, <2>1, <2>2, <2>3, <2>4, ReturnStep
<1> QED
  BY <1>5, <1>6, <1>7

\* The connect callback of a failed lookup returns, and the resource is released.
LEMMA LookupReturnInv ==
    ASSUME SInv, NEW h \in Handles, LookupReturn(h) PROVE SInv' /\ PinsDropRight
<1> DEFINE r == Stream!Deref(ssl[h])
           t == tls[h]
           n == Stream!Ref(t.shake)
           q == IF r.obj = "live" THEN Stream!ReleaseResource(r) ELSE r
           new == [tls EXCEPT ![h].failed = TRUE]
           u == new[h]
<1>1. /\ frame.h = h /\ frame.why = "lookup" /\ frame' = Stream!Idle
      /\ ssl' = [ssl EXCEPT ![h] = q] /\ TlsAfter(new) /\ UNCHANGED reader
  BY DEF LookupReturn
<1>2. /\ Counted(r, n) /\ SameView(r, ssl[h]) /\ r.obj # "none" /\ Sound(r) /\ Shaken(r, t)
      /\ ssl[h].obj = "live" /\ t \in TlsResources /\ HandlesInv /\ reader \in Readers
  BY <1>1, ReturnReady
<1> HIDE DEF r
<1>3. /\ u \in TlsResources /\ Only(h, new) /\ u.shake = t.shake /\ u.session = t.session
      /\ u.failed /\ u.approved = t.approved
  BY <1>2 DEF HandlesInv, TlsResources, Only
<1> HIDE DEF new
<1>4. Counted(q, n) /\ SameView(q, r)
  <2>1. CASE r.obj = "live"
    <3>1. Accounted(r, n)
      BY <1>2, <2>1 DEF Counted, Absent
    <3> QED
      BY <2>1, <3>1, ReleaseCounted
  <2>2. CASE r.obj # "live"
    BY <1>2, <2>2 DEF SameView
  <2> QED
    BY <2>1, <2>2
<1> HIDE DEF q
<1>5. q.obj # "none" /\ Sound(q) /\ Shaken(q, u) /\ q.uv = ssl[h].uv
  BY <1>2, <1>3, <1>4 DEF SameView, Sound, Shaken
<1>6. reader = NotReading /\ reader'.h # h /\ reader' \in Readers
  BY <1>1, <1>2, NothingRuns DEF SInv, Together
<1>7. Answered(h, q, u, reader')
  <2>1. Answered(h, ssl[h], t, reader) /\ reader.h # h
    BY <1>6, NothingRuns DEF SInv
  <2> QED
    BY <1>2, <1>3, <1>5, <2>1 DEF Answered
<1>8. SInv'
  BY <1>1, <1>2, <1>3, <1>4, <1>5, <1>6, <1>7, ReturnStep
<1>9. tls'[h].failed
  <2>1. tls' = [tls EXCEPT ![h] = IF q.obj = "live" THEN u ELSE Released(u)]
    BY <1>1, <1>2, <1>3, TlsFollows
  <2>2. Released(u).failed = u.failed
    BY DEF Released, BlankTls
  <2>3. tls'[h] = u \/ tls'[h] = Released(u)
    BY <1>2, <2>1 DEF HandlesInv
  <2> QED
    BY <1>3, <2>2, <2>3
<1> QED
  BY <1>1, <1>2, <1>8, <1>9, OneDrops DEF MayDrop

\* Any other callback returns; the error callback closes the socket.
LEMMA ReturnInv == ASSUME SInv, Return PROVE SInv' /\ PinsKept
<1>1. PICK h \in Handles : frame.h = h
  BY NothingRuns DEF SInv, Return, Stream!Return
<1> DEFINE r == Stream!Deref(ssl[h])
           t == tls[h]
           n == Stream!Ref(t.shake)
           q == IF frame.kind = "error" THEN Stream!TcpCloseSocket(r) ELSE r
<1>2. /\ frame' = Stream!Idle /\ ssl' = [ssl EXCEPT ![h] = q] /\ TlsAfter(tls)
      /\ reader' = reader /\ Only(h, tls)
  BY <1>1 DEF Return, Stream!Return, Inherited, Only
<1>3. /\ Counted(r, n) /\ SameView(r, ssl[h]) /\ r.obj # "none"
      /\ Stream!Pinned(ssl[h]) => Stream!Pinned(r)
      /\ Sound(r) /\ (~t.failed /\ Owed(r, t) => Stream!Pinned(r))
      /\ Shaken(r, t)
      /\ ssl[h].obj = "live" /\ t \in TlsResources /\ reader \in Readers
  BY <1>1, ReturnReady
<1> HIDE DEF r
<1>4. /\ Counted(q, n) /\ q.obj = r.obj /\ Sound(q) /\ Grows(q, r)
      /\ (Owed(q, t) => Owed(r, t)) /\ (Stream!Pinned(q) <=> Stream!Pinned(r))
      /\ q.uv = r.uv \/ q.uv \in Ending
  <2>1. CASE frame.kind = "error"
    BY <1>3, <2>1, CloseSocket
  <2>2. CASE frame.kind # "error"
    BY <1>3, <2>2 DEF Grows
  <2> QED
    BY <2>1, <2>2
<1> HIDE DEF q
<1>5. Shaken(q, t)
  BY <1>3, <1>4 DEF Shaken, Grows
<1>6. /\ reader.h = h => Advances(reader, ssl[h], t)
      /\ Answered(h, ssl[h], t, reader)
  BY <1>1 DEF SInv
<1>7. reader.h = h => Advances(reader, q, t)
  BY <1>3, <1>4, <1>6 DEF Advances, SameView, Grows
<1>8. Answered(h, q, t, reader)
  BY <1>3, <1>4, <1>6 DEF Answered, SameView
<1>9. (reader'.h = h => Advances(reader', q, t)) /\ Answered(h, q, t, reader')
  BY <1>2, <1>7, <1>8
<1> QED
  BY <1>1, <1>2, <1>3, <1>4, <1>5, <1>9, ReturnStep

----------------------------------------------------------------------------
(* The invariant is inductive.                                              *)

LEMMA InitInv == Init => SInv
<1> SUFFICES ASSUME Init PROVE SInv
  OBVIOUS
<1> DEFINE b == Stream!Blank
<1>1. /\ ssl = [h \in Handles |-> b] /\ tls = [h \in Handles |-> BlankTls]
      /\ frame = Stream!Idle /\ reader = NotReading
  BY DEF Init, Stream!Init
<1>2. /\ b \in Stream!Resources /\ b.obj = "none" /\ b.script = 0 /\ b.flag = {}
      /\ b.uv = "none" /\ ~b.conn /\ b.shut = "no" /\ b.slot.error = "null"
  BY CapturesNoSlots
  DEF Stream!Blank, Stream!Resources, Stream!NoSlots, Stream!UvStates, Stream!Flags
<1> HIDE DEF b
<1>3. /\ BlankTls \in TlsResources /\ BlankTls = Released(BlankTls)
      /\ BlankTls.lookups = 0 /\ BlankTls.shake = "null" /\ BlankTls.session = "none"
  BY DEF BlankTls, TlsResources, Released
<1>4. ASSUME NEW h \in Handles
      PROVE  HandleInv(ssl[h], tls[h], Refs(h)) /\ Answered(h, ssl[h], tls[h], reader)
             /\ frame.h # h /\ reader.h # h
  <2>1. ssl[h] = b /\ tls[h] = BlankTls /\ frame.h # h /\ reader.h # h
    BY <1>1, NothingRuns
  <2>2. Refs(h) = 0
    BY <1>3, <2>1 DEF Refs, Stream!FrameRef, Stream!Ref
  <2>3. Absent(b, 0) /\ Sound(b) /\ ~Owed(b, BlankTls)
    BY <1>2, <1>3 DEF Absent, Sound, Owed, Stream!Pinned, Ending
  <2>4. HandleInv(b, BlankTls, 0) /\ Answered(h, b, BlankTls, reader)
    BY <1>2, <1>3, <2>3 DEF HandleInv, Counted, Answered
  <2> QED
    BY <2>1, <2>2, <2>4
<1>5. HandlesInv
  BY <1>1, <1>2, <1>3, <1>4 DEF HandlesInv
<1>6. frame \in Frames /\ reader \in Readers /\ Together(frame, reader)
  BY <1>1, NothingRuns DEF Frames, Readers, Together
<1> QED
  BY <1>4, <1>5, <1>6 DEF SInv

LEMMA NextStep == ASSUME SInv, [Next]_vars PROVE SInv' /\ PinsDropRight
<1>1. CASE UNCHANGED vars
  <2>1. ssl' = ssl /\ tls' = tls /\ frame' = frame /\ reader' = reader
    BY <1>1 DEF vars
  <2>2. HandlesInv'
    <3>1. \A h \in Handles : Refs(h)' = Refs(h)
      BY <2>1 DEF Refs, Stream!FrameRef
    <3> QED
      BY <2>1, <3>1 DEF SInv, HandlesInv
  <2>3. SInv'
    BY <2>1, <2>2 DEF SInv
  <2> QED
    BY <2>1, <2>3 DEF PinsDropRight
<1>2. CASE Return \/ Abandoned
  BY <1>2, ReturnInv, AbandonedInv, KeptDropRight
<1>3. ASSUME NEW h \in Handles,
             ScriptCall(h) \/ LoopEvent(h) \/ ReadCbStep(h) \/ HandshakeReturn(h) \/ LookupReturn(h)
      PROVE  SInv' /\ PinsDropRight
  BY <1>3, ScriptCallInv, LoopEventInv, ReadCbStepInv, HandshakeReturnInv, LookupReturnInv,
     KeptDropRight
<1> QED
  BY <1>1, <1>2, <1>3 DEF Next

----------------------------------------------------------------------------
(* Theorems.                                                                *)

\* The inductive invariant holds in every reachable state.
THEOREM Invariance == Spec => []SInv
<1>1. SInv /\ [Next]_vars => SInv'
  BY NextStep
<1> QED
  BY <1>1, InitInv, PTL DEF Spec

\* Resources, sessions, callbacks and the place of read_cb keep their types; no
\* count goes below zero.
THEOREM TypeCorrect == Spec => []TypeOK
<1>1. SInv => TypeOK
  BY DEF SInv, HandlesInv, TypeOK
<1> QED
  BY <1>1, Invariance, PTL

\* The reference count of a living UVSSL object is exact, its handshake callback
\* and the lookups that fail included.
THEOREM RefcountsAreExact == Spec => []RefcountExact
<1>1. SInv => RefcountExact
  <2> SUFFICES ASSUME SInv, NEW h \in Handles, ssl[h].obj = "live"
               PROVE  /\ ssl[h].rc > 0
                      /\ ssl[h].rc = ssl[h].script + Stream!FrameRef(h) + Stream!PinRef(ssl[h])
                                     + Stream!Captures(ssl[h].slot) + Stream!Ref(tls[h].shake)
    BY DEF RefcountExact
  <2>1. HandleInv(ssl[h], tls[h], Refs(h)) /\ ssl[h] \in Stream!Resources
        /\ ssl[h].slot \in Stream!Slots
    BY Typed DEF SInv
  <2>2. Accounted(ssl[h], Refs(h))
    BY <2>1 DEF HandleInv, Counted, Absent
  <2>3. /\ Stream!FrameRef(h) \in Nat /\ Stream!Ref(tls[h].shake) \in Nat
        /\ Stream!PinRef(ssl[h]) \in Nat
    BY DEF Stream!FrameRef, Stream!Ref, Stream!PinRef
  <2>4. ssl[h].script \in Nat /\ Stream!Captures(ssl[h].slot) \in Nat
    BY <2>1, CapturesNat DEF Stream!Resources
  <2> QED
    BY <2>2, <2>3, <2>4 DEF Accounted, Refs
<1> QED
  BY <1>1, Invariance, PTL

\* The memory of a handle none of whose lookups failed is not released while libuv
\* listens on it or owes it the answer to a connect or a shutdown, nor, before the
\* handle is closed, with a lookup under way.
THEOREM FreedHandlesOweNothing == Spec => []FreedOwesNothing
<1>1. SInv => FreedOwesNothing
  <2> SUFFICES ASSUME SInv, NEW h \in Handles, ssl[h].obj = "freed", ~tls[h].failed
               PROVE  ~Owed(ssl[h], tls[h])
    BY DEF FreedOwesNothing, Owed
  <2>1. HandleInv(ssl[h], tls[h], Refs(h))
    BY Typed DEF SInv
  <2> QED
    BY <2>1 DEF HandleInv, Counted, Accounted, Absent
<1> QED
  BY <1>1, Invariance, PTL

\* A pinned object, the argument of the callback that runs, is held twice.
LEMMA PinnedArgument ==
    ASSUME SInv, NEW h \in Handles, frame.h = h, Stream!Pinned(ssl[h])
    PROVE  ssl[h].rc > 1
<1>1. HandleInv(ssl[h], tls[h], Refs(h)) /\ ssl[h] \in Stream!Resources
      /\ ssl[h].slot \in Stream!Slots
  BY Typed DEF SInv
<1>2. Accounted(ssl[h], Refs(h))
  BY <1>1 DEF HandleInv, Counted, Absent
<1>3. Stream!FrameRef(h) = 1 /\ Stream!PinRef(ssl[h]) = 1 /\ Stream!Ref(tls[h].shake) \in {0, 1}
  BY DEF Stream!FrameRef, Stream!PinRef, Stream!Ref
<1>4. ssl[h].script \in Nat /\ Stream!Captures(ssl[h].slot) \in Nat
  BY <1>1, CapturesNat DEF Stream!Resources
<1> QED
  BY <1>2, <1>3, <1>4 DEF Accounted, Refs

\* Whatever a callback does: what read_cb does after it is done to a living object if
\* that was pinned when read_cb began, or if the callback was the error callback and
\* no lookup of the handle has failed; what on_addrinfo_resolved does after it is, if
\* the handle was not closed before and no earlier lookup has failed.
THEOREM TailIsSafe == Spec => []TailSafe
<1>1. SInv => TailSafe
  <2> SUFFICES ASSUME SInv PROVE TailSafe
    OBVIOUS
  <2>1. ASSUME reader.pinned PROVE ssl[reader.h].obj = "live" /\ Stream!Pinned(ssl[reader.h])
    <3>1. PICK h \in Handles : reader.h = h
      BY <2>1, NothingRuns DEF SInv, NotReading
    <3>2. Stream!Pinned(ssl[h]) /\ HandleInv(ssl[h], tls[h], Refs(h))
      BY <2>1, <3>1, Typed DEF SInv, Advances
    <3> QED
      BY <3>1, <3>2 DEF HandleInv, Counted, Accounted, Absent
  <2>2. ASSUME \/ frame.kind = "error" /\ ~tls[frame.h].failed
               \/ frame.why = "lookup" /\ ssl[frame.h].uv # "closed" /\ ~tls[frame.h].failed
        PROVE  ssl[frame.h].rc > 1
    <3>1. PICK h \in Handles : frame.h = h
      BY <2>2, NothingRuns DEF SInv
    <3>2. Counts(frame, ssl[h], tls[h])
      BY <3>1 DEF SInv
    <3>3. Stream!Pinned(ssl[h])
      BY <2>2, <3>1, <3>2 DEF Counts
    <3> QED
      BY <3>1, <3>3, PinnedArgument
  <2> QED
    BY <2>1, <2>2 DEF TailSafe
<1> QED
  BY <1>1, Invariance, PTL

\* No data reaches the script, and no write callback, before the handshake is done
\* and accepted.
THEOREM DataIsApproved == Spec => []DataApproved
<1>1. SInv => DataApproved
  <2> SUFFICES ASSUME SInv, frame.kind \in {"read", "write"}
               PROVE  tls[frame.h].session = "done" /\ tls[frame.h].approved
    BY DEF DataApproved
  <2>1. PICK h \in Handles : frame.h = h
    BY NothingRuns DEF SInv
  <2>2. Counts(frame, ssl[h], tls[h])
    BY <2>1 DEF SInv
  <2> QED
    BY <2>1, <2>2 DEF Counts
<1> QED
  BY <1>1, Invariance, PTL

\* A pin goes in tcp_close_cb or by a failed lookup of the same handle, and nowhere else.
THEOREM PinsGoOnce == Spec => PinDropped
<1>1. SInv /\ [Next]_vars =>
         [\A h \in Handles :
             Stream!Pinned(ssl[h]) /\ ~Stream!Pinned(ssl'[h]) =>
                 \/ ssl[h].uv = "closing" /\ ssl'[h].uv = "closed"
                 \/ tls'[h].failed /\ \/ frame.why = "lookup" /\ frame.h = h
                                      \/ tls'[h].lookups < tls[h].lookups]_vars
  BY NextStep DEF PinsDropRight, MayDrop
<1> QED
  BY <1>1, Invariance, PTL DEF Spec, PinDropped

=============================================================================
