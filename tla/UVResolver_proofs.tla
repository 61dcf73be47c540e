-------------------------- MODULE UVResolver_proofs --------------------------
(***************************************************************************)
(* Safety of UVResolver for every finite set of resolvers and requests,    *)
(* every set of loops and closures and every bound.  A count is the size   *)
(* of the set of its holders, so a step is examined by the one request or  *)
(* resolver that enters or leaves such a set.                              *)
(***************************************************************************)
EXTENDS UVResolver, FiniteSetTheorems, TLAPS

----------------------------------------------------------------------------
(* The inductive invariant.                                                 *)

\* The pending requests of r whose closure captures it.
Selves(r) == {q \in Pending(r) : req[q].callback = "self"}

\* The live resolvers on loop l.
Users(l) == {r \in Resolvers : resolver[r].obj = "live" /\ resolver[r].on = l}

\* p and s: how many requests, and how many of their closures, hold the resolver.
ResolverInv(o, p, s) ==
    /\ o.obj = "live" => o.rc > 0 /\ o.rc = o.script + o.leaks + p + s
    /\ o.obj # "live" => o.script = 0 /\ p = 0

\* n: how many resolvers hold the loop.
LoopInv(o, n) ==
    /\ o.obj = "live" => o.rc > 0 /\ o.rc = o.script + n
    /\ o.obj # "live" => o.script = 0 /\ n = 0

RequestsInv ==
    /\ \A q \in Requests :
          req[q].state = "pending" => req[q].of \in Resolvers /\ req[q].callback \in Closures
    /\ running # NoRequest => req[running].state = "pending"

ResolversInv ==
    \A r \in Resolvers :
        ResolverInv(resolver[r], Cardinality(Pending(r)), Cardinality(Selves(r)))

LoopsInv == \A l \in Loops : LoopInv(loop[l], Cardinality(Users(l)))

RInv == TypeOK /\ RequestsInv /\ ResolversInv /\ LoopsInv

----------------------------------------------------------------------------
(* Sizes.                                                                   *)

LEMMA Finite ==
    /\ \A r : /\ IsFiniteSet(Pending(r)) /\ Cardinality(Pending(r)) \in Nat
              /\ IsFiniteSet(Selves(r)) /\ Cardinality(Selves(r)) \in Nat
    /\ \A l : IsFiniteSet(Users(l)) /\ Cardinality(Users(l)) \in Nat
<1>1. ASSUME NEW r
      PROVE  /\ IsFiniteSet(Pending(r)) /\ Cardinality(Pending(r)) \in Nat
             /\ IsFiniteSet(Selves(r)) /\ Cardinality(Selves(r)) \in Nat
  <2>1. Pending(r) \in SUBSET Requests /\ Selves(r) \in SUBSET Pending(r)
    BY DEF Pending, Selves
  <2>2. IsFiniteSet(Pending(r))
    BY <2>1, FS_Subset, FinitelyManyAssumption
  <2>3. IsFiniteSet(Selves(r))
    BY <2>1, <2>2, FS_Subset
  <2> QED
    BY <2>2, <2>3, FS_CardinalityType
<1>2. ASSUME NEW l PROVE IsFiniteSet(Users(l)) /\ Cardinality(Users(l)) \in Nat
  <2>1. Users(l) \in SUBSET Resolvers
    BY DEF Users
  <2>2. IsFiniteSet(Users(l))
    BY <2>1, FS_Subset, FinitelyManyAssumption
  <2> QED
    BY <2>2, FS_CardinalityType
<1> QED
  BY <1>1, <1>2

LEMMA RefBit == \A f : Ref(f) \in {0, 1}
BY DEF Ref

----------------------------------------------------------------------------
(* Giving references back.                                                  *)

LEMMA UnrefResolver ==
    ASSUME NEW o \in ResolverObjects, NEW p \in Nat, NEW s \in Nat, NEW n \in Nat,
           n > 0, o.obj = "live", o.rc = o.script + o.leaks + p + s + n
    PROVE  /\ Unref(o, n) \in ResolverObjects /\ Unref(o, n).on = o.on
           /\ ResolverInv(Unref(o, n), p, s)
           /\ Unref(o, n).obj \in {"live", "freed"}
<1>1. o.rc \in Nat /\ o.script \in Nat /\ o.leaks \in Nat
  BY DEF ResolverObjects
<1>2. CASE o.rc = n
  <2> DEFINE u == [o EXCEPT !.obj = "freed", !.rc = 0, !.script = 0]
  <2>1. /\ u \in ResolverObjects /\ u.obj = "freed" /\ u.script = 0 /\ u.on = o.on
    BY DEF ResolverObjects, Objects
  <2>2. p = 0
    BY <1>1, <1>2
  <2>3. Unref(o, n) = u
    BY <1>2 DEF Unref
  <2> HIDE DEF u
  <2> QED
    BY <2>1, <2>2, <2>3 DEF ResolverInv
<1>3. CASE o.rc # n
  <2> DEFINE u == [o EXCEPT !.rc = @ - n]
  <2>1. o.rc - n \in Nat /\ o.rc - n > 0 /\ o.rc - n = o.script + o.leaks + p + s
    BY <1>1, <1>3
  <2>2. /\ u \in ResolverObjects /\ u.obj = o.obj /\ u.script = o.script /\ u.on = o.on
        /\ u.leaks = o.leaks /\ u.rc = o.rc - n
    BY <2>1 DEF ResolverObjects
  <2>3. Unref(o, n) = u
    BY <1>3 DEF Unref
  <2> HIDE DEF u
  <2> QED
    BY <2>1, <2>2, <2>3 DEF ResolverInv
<1> QED
  BY <1>2, <1>3

LEMMA UnrefLoop ==
    ASSUME NEW o \in LoopObjects, NEW n \in Nat, o.obj = "live", o.rc = o.script + n + 1
    PROVE  Unref(o, 1) \in LoopObjects /\ LoopInv(Unref(o, 1), n)
<1>1. o.rc \in Nat /\ o.script \in Nat
  BY DEF LoopObjects
<1>2. CASE o.rc = 1
  <2> DEFINE u == [o EXCEPT !.obj = "freed", !.rc = 0, !.script = 0]
  <2>1. u \in LoopObjects /\ u.obj = "freed" /\ u.script = 0
    BY DEF LoopObjects, Objects
  <2>2. n = 0
    BY <1>1, <1>2
  <2>3. Unref(o, 1) = u
    BY <1>2 DEF Unref
  <2> HIDE DEF u
  <2> QED
    BY <2>1, <2>2, <2>3 DEF LoopInv
<1>3. CASE o.rc # 1
  <2> DEFINE u == [o EXCEPT !.rc = @ - 1]
  <2>1. o.rc - 1 \in Nat /\ o.rc - 1 > 0 /\ o.rc - 1 = o.script + n
    BY <1>1, <1>3
  <2>2. u \in LoopObjects /\ u.obj = o.obj /\ u.script = o.script /\ u.rc = o.rc - 1
    BY <2>1 DEF LoopObjects
  <2>3. Unref(o, 1) = u
    BY <1>3 DEF Unref
  <2> HIDE DEF u
  <2> QED
    BY <2>1, <2>2, <2>3 DEF LoopInv
<1> QED
  BY <1>2, <1>3

\* Resolver r changes into q, which is live on the same loop exactly when r is.
LEMMA SameUsers ==
    ASSUME TypeOK, NEW r \in Resolvers, NEW q, resolver' = [resolver EXCEPT ![r] = q],
           q.on = resolver[r].on, q.obj = "live" <=> resolver[r].obj = "live"
    PROVE  \A l : Users(l)' = Users(l)
BY DEF TypeOK, Users

\* When a resolver goes, exactly its own loop loses a holder, and one reference.
LEMMA DerefStep ==
    ASSUME RInv, NEW r \in Resolvers, resolver[r].obj = "live",
           NEW n \in Nat, n > 0, NEW dropped \in {0, 1}, NEW p \in Nat, NEW s \in Nat,
           resolver[r].script >= dropped,
           resolver[r].rc = (resolver[r].script - dropped) + resolver[r].leaks + p + s + n,
           Deref(r, n, dropped)
    PROVE  /\ resolver' \in [Resolvers -> ResolverObjects]
           /\ ResolverInv(resolver'[r], p, s)
           /\ \A v \in Resolvers \ {r} : resolver'[v] = resolver[v]
           /\ loop' \in [Loops -> LoopObjects]
           /\ LoopsInv'
<1> DEFINE o == [resolver[r] EXCEPT !.script = @ - dropped]
           u == Unref(o, n)
<1>1. resolver[r] \in ResolverObjects /\ resolver[r].script \in Nat
  BY DEF RInv, TypeOK, ResolverObjects
<1>2. resolver[r].script - dropped \in Nat
  BY <1>1
<1>3. /\ o \in ResolverObjects /\ o.obj = "live" /\ o.on = resolver[r].on
      /\ o.rc = o.script + o.leaks + p + s + n
  BY <1>1, <1>2 DEF ResolverObjects
<1>4. /\ resolver' = [resolver EXCEPT ![r] = u]
      /\ loop' = IF u.obj = "freed" /\ u.on \in Loops
                 THEN [loop EXCEPT ![u.on] = Unref(@, 1)] ELSE loop
  BY DEF Deref
<1> HIDE DEF o
<1>5. /\ u \in ResolverObjects /\ u.on = resolver[r].on /\ ResolverInv(u, p, s)
      /\ u.obj \in {"live", "freed"}
  BY <1>3, UnrefResolver
<1> HIDE DEF u
<1>6. /\ resolver' \in [Resolvers -> ResolverObjects] /\ resolver'[r] = u
      /\ \A v \in Resolvers \ {r} : resolver'[v] = resolver[v]
  BY <1>4, <1>5 DEF RInv, TypeOK
<1>7. loop' \in [Loops -> LoopObjects] /\ LoopsInv'
  <2>1. CASE u.obj = "live"
    <3>1. \A l : Users(l)' = Users(l)
      BY <1>4, <1>5, <2>1, SameUsers DEF RInv
    <3>2. loop' = loop
      BY <1>4, <2>1
    <3> QED
      BY <3>1, <3>2 DEF RInv, TypeOK, LoopsInv
  <2>2. CASE u.obj = "freed"
    <3> PICK k : k = u.on
      OBVIOUS
    <3>1. \A l : l # k => Users(l)' = Users(l)
      BY <1>5, <1>6, <2>2 DEF Users
    <3>2. Users(k)' = Users(k) \ {r} /\ r \in Users(k)
      BY <1>5, <1>6, <2>2 DEF Users
    <3>3. CASE k \notin Loops
      <4>1. loop' = loop
        BY <1>4, <3>3
      <4> QED
        BY <3>1, <3>3, <4>1 DEF RInv, TypeOK, LoopsInv
    <3>4. CASE k \in Loops
      <4> DEFINE m == Cardinality(Users(k)')
      <4>1. loop' = [loop EXCEPT ![k] = Unref(loop[k], 1)]
        BY <1>4, <2>2, <3>4
      <4>2. m \in Nat /\ Cardinality(Users(k)) = m + 1
        <5>1. IsFiniteSet(Users(k)) /\ Cardinality(Users(k)) \in Nat
          BY Finite
        <5>2. IsFiniteSet(Users(k) \ {r}) /\ Cardinality(Users(k) \ {r}) = Cardinality(Users(k)) - 1
          BY <3>2, <5>1, FS_RemoveElement
        <5>3. Cardinality(Users(k) \ {r}) \in Nat
          BY <5>2, FS_CardinalityType
        <5> QED
          BY <3>2, <5>1, <5>2, <5>3
      <4> HIDE DEF m
      <4>3. /\ loop[k] \in LoopObjects /\ loop[k].obj = "live"
            /\ loop[k].rc = loop[k].script + m + 1
        BY <3>4, <4>2 DEF RInv, TypeOK, LoopsInv, LoopInv, LoopObjects
      <4>4. Unref(loop[k], 1) \in LoopObjects /\ LoopInv(Unref(loop[k], 1), m)
        BY <4>2, <4>3, UnrefLoop
      <4>5. /\ loop' \in [Loops -> LoopObjects] /\ loop'[k] = Unref(loop[k], 1)
            /\ \A l \in Loops \ {k} : loop'[l] = loop[l]
        BY <3>4, <4>1, <4>4 DEF RInv, TypeOK
      <4>6. ASSUME NEW l \in Loops PROVE LoopInv(loop'[l], Cardinality(Users(l)'))
        <5>1. CASE l = k
          BY <4>4, <4>5, <5>1 DEF m
        <5>2. CASE l # k
          BY <3>1, <4>5, <5>2 DEF RInv, LoopsInv
        <5> QED
          BY <5>1, <5>2
      <4> QED
        BY <4>5, <4>6 DEF LoopsInv
    <3> QED
      BY <3>3, <3>4
  <2> QED
    BY <1>5, <2>1, <2>2
<1> QED
  BY <1>5, <1>6, <1>7

----------------------------------------------------------------------------
(* Steps that leave the requests alone.                                     *)

LEMMA SameRequests ==
    ASSUME UNCHANGED req
    PROVE  \A r : Pending(r)' = Pending(r) /\ Selves(r)' = Selves(r)
BY DEF Pending, Selves

\* Resolver r changes into q, and stays what it is to its loop.
LEMMA ResolverStep ==
    ASSUME RInv, NEW r \in Resolvers, NEW q \in ResolverObjects,
           resolver' = [resolver EXCEPT ![r] = q], UNCHANGED <<loop, req, running>>,
           q.on = resolver[r].on, q.obj = resolver[r].obj,
           ResolverInv(q, Cardinality(Pending(r)), Cardinality(Selves(r)))
    PROVE  RInv'
<1>1. \A l : Users(l)' = Users(l)
  BY SameUsers DEF RInv
<1>2. \A v : Pending(v)' = Pending(v) /\ Selves(v)' = Selves(v)
  BY SameRequests
<1>3. TypeOK' /\ RequestsInv'
  BY DEF RInv, TypeOK, RequestsInv
<1>4. LoopsInv'
  BY <1>1 DEF RInv, LoopsInv
<1>5. ResolversInv'
  BY <1>2 DEF RInv, TypeOK, ResolversInv
<1> QED
  BY <1>3, <1>4, <1>5 DEF RInv

\* Loop l changes into k.
LEMMA LoopStep ==
    ASSUME RInv, NEW l \in Loops, NEW k \in LoopObjects,
           loop' = [loop EXCEPT ![l] = k], UNCHANGED <<resolver, req, running>>,
           LoopInv(k, Cardinality(Users(l)))
    PROVE  RInv'
<1>1. \A m : Users(m)' = Users(m)
  BY DEF Users
<1>2. \A v : Pending(v)' = Pending(v) /\ Selves(v)' = Selves(v)
  BY SameRequests
<1>3. TypeOK' /\ RequestsInv'
  BY DEF RInv, TypeOK, RequestsInv
<1>4. LoopsInv'
  BY <1>1 DEF RInv, TypeOK, LoopsInv
<1>5. ResolversInv'
  BY <1>2 DEF RInv, ResolversInv
<1> QED
  BY <1>3, <1>4, <1>5 DEF RInv

LEMMA NewLoopInv == ASSUME RInv, NEW l \in Loops, NewLoop(l) PROVE RInv'
<1> DEFINE k == [obj |-> "live", rc |-> 1, script |-> 1]
<1>1. Cardinality(Users(l)) = 0
  BY DEF RInv, LoopsInv, LoopInv, NewLoop
<1>2. k \in LoopObjects
  BY DEF LoopObjects, Objects
<1>3. LoopInv(k, Cardinality(Users(l)))
  BY <1>1 DEF LoopInv
<1> QED
  BY <1>2, <1>3, LoopStep DEF NewLoop

LEMMA DropLoopInv == ASSUME RInv, NEW l \in Loops, DropLoop(l) PROVE RInv'
<1> DEFINE o == [loop[l] EXCEPT !.script = @ - 1]
           n == Cardinality(Users(l))
<1>1. /\ loop[l] \in LoopObjects /\ loop[l].script \in Nat /\ loop[l].rc \in Nat
      /\ loop[l].script > 0 /\ loop[l].obj = "live" /\ n \in Nat
      /\ loop[l].rc = loop[l].script + n
  BY Finite DEF RInv, TypeOK, LoopsInv, LoopInv, LoopObjects, DropLoop
<1>2. loop[l].script - 1 \in Nat
  BY <1>1
<1>3. o \in LoopObjects /\ o.obj = "live" /\ o.script = loop[l].script - 1 /\ o.rc = loop[l].rc
  BY <1>1, <1>2 DEF LoopObjects
<1>4. loop' = [loop EXCEPT ![l] = Unref(o, 1)] /\ UNCHANGED <<resolver, req, running>>
  BY DEF DropLoop
<1> HIDE DEF o, n
<1>5. o.rc = o.script + n + 1
  BY <1>1, <1>3
<1>6. Unref(o, 1) \in LoopObjects /\ LoopInv(Unref(o, 1), n)
  BY <1>1, <1>3, <1>5, UnrefLoop
<1> QED
  BY <1>4, <1>6, LoopStep DEF n

LEMMA CallerFacts ==
    ASSUME RInv, NEW r \in Resolvers
    PROVE  /\ resolver[r] \in ResolverObjects /\ resolver[r].rc \in Nat
           /\ resolver[r].script \in Nat /\ resolver[r].leaks \in Nat
           /\ Cardinality(Pending(r)) \in Nat /\ Cardinality(Selves(r)) \in Nat
           /\ ResolverInv(resolver[r], Cardinality(Pending(r)), Cardinality(Selves(r)))
BY Finite DEF RInv, TypeOK, ResolversInv, ResolverObjects

LEMMA BadRequestInv == ASSUME RInv, NEW r \in Resolvers, BadRequest(r) PROVE RInv'
<1> DEFINE o == resolver[r]
           q == [o EXCEPT !.rc = @ + 1, !.leaks = @ + 1]
<1>1. o.rc + 1 \in Nat /\ o.leaks + 1 \in Nat
  BY CallerFacts
<1>2. /\ q \in ResolverObjects /\ q.obj = o.obj /\ q.on = o.on /\ q.script = o.script
      /\ q.rc = o.rc + 1 /\ q.leaks = o.leaks + 1
  BY <1>1, CallerFacts DEF ResolverObjects
<1>3. resolver' = [resolver EXCEPT ![r] = q] /\ UNCHANGED <<loop, req, running>>
  BY <1>2, CallerFacts DEF BadRequest, RInv, TypeOK, ResolverObjects
<1> HIDE DEF q
<1>4. ResolverInv(q, Cardinality(Pending(r)), Cardinality(Selves(r)))
  BY <1>2, CallerFacts DEF ResolverInv, BadRequest, CanCall
<1> QED
  BY <1>2, <1>3, <1>4, ResolverStep

LEMMA KeepInv == ASSUME RInv, NEW r \in Resolvers, Keep(r) PROVE RInv'
<1> DEFINE o == resolver[r]
           q == [o EXCEPT !.rc = @ + 1, !.script = @ + 1]
<1>1. o.rc + 1 \in Nat /\ o.script + 1 \in Nat
  BY CallerFacts
<1>2. /\ q \in ResolverObjects /\ q.obj = o.obj /\ q.on = o.on /\ q.leaks = o.leaks
      /\ q.rc = o.rc + 1 /\ q.script = o.script + 1
  BY <1>1, CallerFacts DEF ResolverObjects
<1>3. resolver' = [resolver EXCEPT ![r] = q] /\ UNCHANGED <<loop, req, running>>
  BY <1>2, CallerFacts DEF Keep, RInv, TypeOK, ResolverObjects
<1> HIDE DEF q
<1>4. ResolverInv(q, Cardinality(Pending(r)), Cardinality(Selves(r)))
  BY <1>2, CallerFacts DEF ResolverInv, Keep, CanCall
<1> QED
  BY <1>2, <1>3, <1>4, ResolverStep

\* The last variable may go while a request waits: the request holds the resolver.
LEMMA DropInv == ASSUME RInv, NEW r \in Resolvers, Drop(r) PROVE RInv'
<1> DEFINE p == Cardinality(Pending(r))
           s == Cardinality(Selves(r))
<1>1. /\ resolver[r].obj = "live" /\ resolver[r].script > 0 /\ Deref(r, 1, 1)
      /\ UNCHANGED <<req, running>>
  BY DEF Drop
<1>2. /\ p \in Nat /\ s \in Nat /\ resolver[r].script >= 1
      /\ resolver[r].rc = (resolver[r].script - 1) + resolver[r].leaks + p + s + 1
  BY <1>1, CallerFacts DEF ResolverInv
<1>3. \A v : Pending(v)' = Pending(v) /\ Selves(v)' = Selves(v)
  BY <1>1, SameRequests
<1> HIDE DEF p, s
<1>4. /\ resolver' \in [Resolvers -> ResolverObjects]
      /\ ResolverInv(resolver'[r], p, s)
      /\ \A v \in Resolvers \ {r} : resolver'[v] = resolver[v]
      /\ loop' \in [Loops -> LoopObjects]
      /\ LoopsInv'
  BY <1>1, <1>2, DerefStep
<1>5. TypeOK' /\ RequestsInv'
  BY <1>1, <1>4 DEF RInv, TypeOK, RequestsInv
<1>6. ASSUME NEW v \in Resolvers
      PROVE  ResolverInv(resolver'[v], Cardinality(Pending(v)'), Cardinality(Selves(v)'))
  <2>1. CASE v = r
    BY <1>3, <1>4, <2>1 DEF p, s
  <2>2. CASE v # r
    BY <1>3, <1>4, <2>2 DEF RInv, ResolversInv
  <2> QED
    BY <2>1, <2>2
<1> QED
  BY <1>4, <1>5, <1>6 DEF RInv, ResolversInv

\* A resolver that is new has no requests and is on no loop yet.
LEMMA NewResolverInv ==
    ASSUME RInv, NEW r \in Resolvers, NEW l \in Loops \cup {DefaultLoop}, NewResolver(r, l)
    PROVE  RInv'
<1> DEFINE q == [obj |-> "live", rc |-> 1, script |-> 1, on |-> l, leaks |-> 0]
<1>1. /\ resolver' = [resolver EXCEPT ![r] = q] /\ q \in ResolverObjects
      /\ UNCHANGED <<req, running>> /\ resolver[r].obj # "live"
  BY DEF NewResolver, ResolverObjects, Objects
<1>2. \A v : Pending(v)' = Pending(v) /\ Selves(v)' = Selves(v)
  BY <1>1, SameRequests
<1>3. Pending(r) = {} /\ Selves(r) = {}
  <2>1. Cardinality(Pending(r)) = 0
    BY <1>1, CallerFacts DEF ResolverInv
  <2>2. Pending(r) = {}
    BY <2>1, Finite, FS_EmptySet
  <2> QED
    BY <2>2 DEF Selves
<1>4. Cardinality(Pending(r)) = 0 /\ Cardinality(Selves(r)) = 0
  BY <1>3, FS_EmptySet
<1>5. ResolverInv(q, Cardinality(Pending(r)), Cardinality(Selves(r)))
  BY <1>4 DEF ResolverInv
<1>6. ResolversInv' /\ resolver' \in [Resolvers -> ResolverObjects]
  BY <1>1, <1>2, <1>5 DEF RInv, TypeOK, ResolversInv
<1>7. /\ \A m : m # l => Users(m)' = Users(m)
      /\ Users(l)' = Users(l) \cup {r} /\ r \notin Users(l)
  BY <1>1 DEF RInv, TypeOK, Users
<1>8. loop' \in [Loops -> LoopObjects] /\ LoopsInv'
  <2>1. CASE l \notin Loops
    <3>1. loop' = loop
      BY <2>1 DEF NewResolver
    <3> QED
      BY <1>7, <2>1, <3>1 DEF RInv, TypeOK, LoopsInv
  <2>2. CASE l \in Loops
    <3> DEFINE k == [loop[l] EXCEPT !.rc = @ + 1]
               n == Cardinality(Users(l))
    <3>1. Cardinality(Users(l)') = n + 1 /\ n \in Nat
      BY <1>7, Finite, FS_AddElement
    <3>2. /\ loop[l] \in LoopObjects /\ loop[l].rc \in Nat /\ loop[l].script \in Nat
          /\ loop[l].obj = "live" /\ loop[l].rc = loop[l].script + n
      BY <2>2 DEF RInv, TypeOK, LoopsInv, LoopInv, LoopObjects, NewResolver
    <3>3. loop[l].rc + 1 \in Nat
      BY <3>2
    <3>4. /\ k \in LoopObjects /\ k.obj = "live" /\ k.script = loop[l].script
          /\ k.rc = loop[l].rc + 1
      BY <3>2, <3>3 DEF LoopObjects
    <3>5. loop' = [loop EXCEPT ![l] = k]
      BY <2>2, <3>2 DEF NewResolver, RInv, TypeOK, LoopObjects
    <3> HIDE DEF k, n
    <3>6. LoopInv(k, n + 1)
      BY <3>1, <3>2, <3>4 DEF LoopInv
    <3>7. /\ loop' \in [Loops -> LoopObjects] /\ loop'[l] = k
          /\ \A m \in Loops \ {l} : loop'[m] = loop[m]
      BY <2>2, <3>4, <3>5 DEF RInv, TypeOK
    <3>8. ASSUME NEW m \in Loops PROVE LoopInv(loop'[m], Cardinality(Users(m)'))
      <4>1. CASE m = l
        BY <3>1, <3>6, <3>7, <4>1
      <4>2. CASE m # l
        BY <1>7, <3>7, <4>2 DEF RInv, LoopsInv
      <4> QED
        BY <4>1, <4>2
    <3> QED
      BY <3>7, <3>8 DEF LoopsInv
  <2> QED
    BY <2>1, <2>2
<1> QED
  BY <1>1, <1>6, <1>8 DEF RInv, TypeOK, RequestsInv

----------------------------------------------------------------------------
(* Steps of the requests.                                                   *)

\* A request that is made becomes one more holder, or two.
LEMMA RequestInv ==
    ASSUME RInv, NEW r \in Resolvers, NEW q \in Requests, Request(r, q) PROVE RInv'
<1>1. PICK f \in Closures :
        /\ req' = [req EXCEPT ![q] = [state |-> "pending", of |-> r, callback |-> f]]
        /\ resolver' = [resolver EXCEPT ![r].rc = @ + Held(f)]
  BY DEF Request
<1>2. /\ resolver[r].obj = "live" /\ req[q].state = "none" /\ UNCHANGED <<loop, running>>
  BY DEF Request, CanCall
<1>3. /\ req' \in [Requests -> RequestBlocks]
      /\ req'[q] = [state |-> "pending", of |-> r, callback |-> f]
      /\ \A z \in Requests \ {q} : req'[z] = req[z]
  BY <1>1 DEF RInv, TypeOK, RequestBlocks
<1>4. RequestsInv'
  BY <1>2, <1>3 DEF RInv, TypeOK, RequestsInv
<1>5. \A v \in Resolvers \ {r} : Pending(v)' = Pending(v) /\ Selves(v)' = Selves(v)
  BY <1>2, <1>3 DEF Pending, Selves
<1>6. /\ Pending(r)' = Pending(r) \cup {q} /\ q \notin Pending(r)
      /\ Selves(r)' = IF f = "self" THEN Selves(r) \cup {q} ELSE Selves(r)
      /\ q \notin Selves(r)
  BY <1>2, <1>3 DEF Pending, Selves
<1>7. /\ Cardinality(Pending(r)') = Cardinality(Pending(r)) + 1
      /\ Cardinality(Selves(r)') = Cardinality(Selves(r)) + Ref(f)
  <2>1. Cardinality(Pending(r)') = Cardinality(Pending(r)) + 1
    BY <1>6, Finite, FS_AddElement
  <2>2. CASE f = "self"
    BY <1>6, <2>1, <2>2, Finite, FS_AddElement DEF Ref
  <2>3. CASE f # "self"
    BY <1>6, <2>1, <2>3, Finite DEF Ref
  <2> QED
    BY <2>2, <2>3
<1> DEFINE o == resolver[r]
           u == [o EXCEPT !.rc = @ + Held(f)]
<1>8. Held(f) \in Nat /\ Held(f) = 1 + Ref(f) /\ o.rc + Held(f) \in Nat
  BY RefBit, CallerFacts DEF Held
<1>9. /\ u \in ResolverObjects /\ u.obj = o.obj /\ u.on = o.on /\ u.leaks = o.leaks
      /\ u.script = o.script /\ u.rc = o.rc + Held(f)
  BY <1>8, CallerFacts DEF ResolverObjects
<1>10. resolver' = [resolver EXCEPT ![r] = u]
  BY <1>1 DEF RInv, TypeOK
<1> HIDE DEF u
<1>11. \A l : Users(l)' = Users(l)
  BY <1>9, <1>10, SameUsers DEF RInv
<1>12. ResolverInv(u, Cardinality(Pending(r)'), Cardinality(Selves(r)'))
  BY <1>2, <1>7, <1>8, <1>9, CallerFacts, RefBit DEF ResolverInv
<1>13. /\ resolver' \in [Resolvers -> ResolverObjects] /\ resolver'[r] = u
       /\ \A v \in Resolvers \ {r} : resolver'[v] = resolver[v]
  BY <1>9, <1>10 DEF RInv, TypeOK
<1>14. ASSUME NEW v \in Resolvers
       PROVE  ResolverInv(resolver'[v], Cardinality(Pending(v)'), Cardinality(Selves(v)'))
  <2>1. CASE v = r
    BY <1>12, <1>13, <2>1
  <2>2. CASE v # r
    BY <1>5, <1>13, <2>2 DEF RInv, ResolversInv
  <2> QED
    BY <2>1, <2>2
<1>15. LoopsInv' /\ TypeOK'
  BY <1>2, <1>3, <1>11, <1>13 DEF RInv, TypeOK, LoopsInv
<1> QED
  BY <1>4, <1>14, <1>15 DEF RInv, ResolversInv

LEMMA ResolvedInv == ASSUME RInv, NEW q \in Requests, Resolved(q) PROVE RInv'
<1>1. UNCHANGED <<loop, resolver, req>> /\ running' = q /\ req[q].state = "pending"
  BY DEF Resolved
<1>2. \A v : Pending(v)' = Pending(v) /\ Selves(v)' = Selves(v)
  BY <1>1, SameRequests
<1>3. \A l : Users(l)' = Users(l)
  BY <1>1 DEF Users
<1>4. ResolversInv' /\ LoopsInv'
  BY <1>1, <1>2, <1>3 DEF RInv, ResolversInv, LoopsInv
<1> QED
  BY <1>1, <1>4 DEF RInv, TypeOK, RequestsInv

\* The answer has been delivered: what the request held is given back, and that may
\* be the end of the resolver, and of its loop.
LEMMA ReturnInv == ASSUME RInv, Return PROVE RInv'
<1> PICK q \in Requests, r \in Resolvers, f \in Closures :
      /\ q = running /\ r = req[q].of /\ f = req[q].callback /\ req[q].state = "pending"
  BY DEF RInv, TypeOK, RequestsInv, Return
<1> DEFINE p == Cardinality(Pending(r)')
           s == Cardinality(Selves(r)')
<1>1. /\ q \in Requests /\ req[q].state = "pending" /\ r \in Resolvers /\ f \in Closures
  OBVIOUS
<1>2. /\ Deref(r, Held(f), 0) /\ running' = NoRequest
      /\ req' = [req EXCEPT ![q].state = "released"]
  BY DEF Return, ReleaseInfo
<1>3. /\ req' \in [Requests -> RequestBlocks] /\ req'[q].state = "released"
      /\ \A z \in Requests \ {q} : req'[z] = req[z]
  BY <1>1, <1>2 DEF RInv, TypeOK, RequestBlocks
<1>4. RequestsInv'
  BY <1>1, <1>2, <1>3 DEF RInv, RequestsInv
<1>5. \A v \in Resolvers \ {r} : Pending(v)' = Pending(v) /\ Selves(v)' = Selves(v)
  BY <1>1, <1>3 DEF Pending, Selves
<1>6. /\ Pending(r)' = Pending(r) \ {q} /\ q \in Pending(r)
      /\ Selves(r)' = Selves(r) \ {q} /\ (q \in Selves(r) <=> f = "self")
  BY <1>1, <1>3 DEF Pending, Selves
<1>7. /\ p \in Nat /\ Cardinality(Pending(r)) = p + 1
      /\ s \in Nat /\ Cardinality(Selves(r)) = s + Ref(f)
  <2>1. /\ IsFiniteSet(Pending(r) \ {q})
        /\ Cardinality(Pending(r) \ {q}) = Cardinality(Pending(r)) - 1
    BY <1>6, Finite, FS_RemoveElement
  <2>2. /\ IsFiniteSet(Selves(r) \ {q})
        /\ Cardinality(Selves(r) \ {q}) = Cardinality(Selves(r)) - Ref(f)
    <3>1. /\ IsFiniteSet(Selves(r) \ {q})
          /\ Cardinality(Selves(r) \ {q}) =
                 IF q \in Selves(r) THEN Cardinality(Selves(r)) - 1 ELSE Cardinality(Selves(r))
      BY Finite, FS_RemoveElement
    <3>2. Cardinality(Selves(r)) \in Nat
      BY Finite
    <3> QED
      BY <1>6, <3>1, <3>2 DEF Ref
  <2>3. Cardinality(Pending(r) \ {q}) \in Nat /\ Cardinality(Selves(r) \ {q}) \in Nat
    BY <2>1, <2>2, FS_CardinalityType
  <2> QED
    BY <1>6, <2>1, <2>2, <2>3, Finite, RefBit
<1> HIDE DEF p, s
<1>8. resolver[r].obj = "live"
  BY <1>1, <1>7, CallerFacts DEF ResolverInv
<1>9. /\ Held(f) \in Nat /\ Held(f) > 0 /\ resolver[r].script >= 0
      /\ resolver[r].rc = (resolver[r].script - 0) + resolver[r].leaks + p + s + Held(f)
  BY <1>1, <1>7, <1>8, CallerFacts, RefBit DEF ResolverInv, Held
<1>10. /\ resolver' \in [Resolvers -> ResolverObjects]
       /\ ResolverInv(resolver'[r], p, s)
       /\ \A v \in Resolvers \ {r} : resolver'[v] = resolver[v]
       /\ loop' \in [Loops -> LoopObjects]
       /\ LoopsInv'
  BY <1>1, <1>2, <1>7, <1>8, <1>9, DerefStep
<1>11. ASSUME NEW v \in Resolvers
       PROVE  ResolverInv(resolver'[v], Cardinality(Pending(v)'), Cardinality(Selves(v)'))
  <2>1. CASE v = r
    BY <1>10, <2>1 DEF p, s
  <2>2. CASE v # r
    BY <1>5, <1>10, <2>2 DEF RInv, ResolversInv
  <2> QED
    BY <2>1, <2>2
<1> QED
  BY <1>2, <1>3, <1>4, <1>10, <1>11 DEF RInv, TypeOK, ResolversInv

LEMMA InitInv == Init => RInv
<1> SUFFICES ASSUME Init PROVE RInv
  OBVIOUS
<1>1. TypeOK /\ RequestsInv
  BY DEF Init, TypeOK, RequestsInv, LoopObjects, ResolverObjects, RequestBlocks, Objects
<1>2. ASSUME NEW r \in Resolvers PROVE Pending(r) = {}
  BY DEF Init, Pending
<1>3. ASSUME NEW l \in Loops PROVE Users(l) = {}
  BY DEF Init, Users
<1>4. ResolversInv
  BY <1>2, FS_EmptySet DEF ResolversInv, ResolverInv, Init
<1>5. LoopsInv
  BY <1>3, FS_EmptySet DEF LoopsInv, LoopInv, Init
<1> QED
  BY <1>1, <1>4, <1>5 DEF RInv

LEMMA StutterInv == ASSUME RInv, UNCHANGED vars PROVE RInv'
<1>1. \A v : Pending(v)' = Pending(v) /\ Selves(v)' = Selves(v) /\ Users(v)' = Users(v)
  BY DEF vars, Pending, Selves, Users
<1>2. ResolversInv' /\ LoopsInv'
  BY <1>1 DEF vars, RInv, ResolversInv, LoopsInv
<1> QED
  BY <1>2 DEF vars, RInv, TypeOK, RequestsInv

----------------------------------------------------------------------------
(* Theorems.                                                                *)

\* RInv holds in every state: every count is the size of the set of its holders, and
\* what is gone has none.
THEOREM Invariance == Spec => []RInv
<1>1. RInv /\ [Next]_vars => RInv'
  BY NewLoopInv, DropLoopInv, NewResolverInv, BadRequestInv, KeepInv, DropInv, RequestInv,
     ResolvedInv, ReturnInv, StutterInv DEF Next
<1> QED
  BY <1>1, InitInv, PTL DEF Spec

\* Objects and requests keep their types: no count goes below zero.
THEOREM TypeCorrect == Spec => []TypeOK
<1>1. RInv => TypeOK
  BY DEF RInv
<1> QED
  BY <1>1, Invariance, PTL

\* The counts of resolvers and loops are exact, whatever is answered or dropped first.
THEOREM RefcountsAreExact == Spec => []RefcountExact
<1>1. RInv => RefcountExact
  BY DEF RInv, ResolversInv, LoopsInv, ResolverInv, LoopInv, RefcountExact, Selves, Users
<1> QED
  BY <1>1, Invariance, PTL

\* A pending request finds its resolver and the loop of its resolver alive.
THEOREM PendingRequestsAreLive == Spec => []PendingIsLive
<1>1. RInv => PendingIsLive
  <2> SUFFICES ASSUME RInv, NEW q \in Requests, req[q].state = "pending"
               PROVE  LET r == resolver[req[q].of]
                      IN  r.obj = "live" /\ (r.on \in Loops => loop[r.on].obj = "live")
    BY DEF PendingIsLive
  <2> DEFINE r == req[q].of
  <2>1. r \in Resolvers /\ q \in Pending(r)
    BY DEF RInv, RequestsInv, Pending
  <2>2. Cardinality(Pending(r)) # 0
    BY <2>1, Finite, FS_EmptySet
  <2>3. resolver[r].obj = "live"
    BY <2>1, <2>2 DEF RInv, ResolversInv, ResolverInv
  <2>4. ASSUME resolver[r].on \in Loops PROVE loop[resolver[r].on].obj = "live"
    <3>1. r \in Users(resolver[r].on)
      BY <2>1, <2>3 DEF Users
    <3>2. Cardinality(Users(resolver[r].on)) # 0
      BY <3>1, Finite, FS_EmptySet
    <3> QED
      BY <2>4, <3>2 DEF RInv, LoopsInv, LoopInv
  <2> QED
    BY <2>3, <2>4
<1> QED
  BY <1>1, Invariance, PTL

=============================================================================
