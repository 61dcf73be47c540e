----------------------------- MODULE UVResolver -----------------------------
(***************************************************************************)
(* The UVResolver class (uv_resolver.c) and the loops it works on          *)
(* (uv_loop.c).  A request (`info') is a block of its own: it holds a      *)
(* reference to the resolver and one to the callback from getaddrinfo() or *)
(* getnameinfo() until the answer has been delivered; the resolver holds   *)
(* its loop through a property.                                            *)
(***************************************************************************)
EXTENDS Naturals, FiniteSets

CONSTANTS
    Loops,          \* the UVLoop objects a script may create
    DefaultLoop,    \* uv_default_loop(), which no object has to keep
    Resolvers,      \* the UVResolver objects a script may create
    NoResolver,     \* the resolver of a request not made yet
    Requests,       \* the requests it may make
    NoRequest,      \* no callback is running
    Closures,       \* its closures: "self" captures the resolver
    MaxScriptRefs,  \* bound on the references script variables hold to an object
    MaxLeaks        \* bound on the calls with wrong arguments

ASSUME NamesAssumption ==
    DefaultLoop \notin Loops /\ NoRequest \notin Requests /\ NoResolver \notin Resolvers
ASSUME ClosuresAssumption == Closures \subseteq {"plain", "self"}
ASSUME FinitelyManyAssumption == IsFiniteSet(Resolvers) /\ IsFiniteSet(Requests)
ASSUME BoundsAssumption == MaxScriptRefs \in Nat \ {0} /\ MaxLeaks \in Nat

VARIABLES
    loop,           \* loop[l]: the object UVLoop l
    resolver,       \* resolver[r]: the object UVResolver r
    req,            \* req[q]: request q
    running         \* the request whose callback is running

vars == <<loop, resolver, req, running>>

Objects == {"none", "live", "freed"}

LoopObjects == [obj : Objects, rc : Nat, script : Nat]

ResolverObjects ==
    [obj : Objects, rc : Nat, script : Nat, on : Loops \cup {DefaultLoop},
     leaks : Nat]       \* references wrong arguments have leaked

RequestBlocks ==
    [state : {"none", "pending", "released"}, of : Resolvers \cup {NoResolver},
     callback : Closures \cup {"none"}]

Ref(f) == IF f = "self" THEN 1 ELSE 0

----------------------------------------------------------------------------
(* Reference counts.                                                        *)

Unref(o, n) ==
    IF o.rc = n THEN [o EXCEPT !.obj = "freed", !.rc = 0, !.script = 0]
    ELSE [o EXCEPT !.rc = @ - n]

\* Resolver r gives back n references; when it goes, so does its own to its loop.
Deref(r, n, dropped) ==
    LET o == Unref([resolver[r] EXCEPT !.script = @ - dropped], n)
    IN  /\ resolver' = [resolver EXCEPT ![r] = o]
        /\ loop' = IF o.obj = "freed" /\ o.on \in Loops
                   THEN [loop EXCEPT ![o.on] = Unref(@, 1)] ELSE loop

\* INIT_INFO and FCI_ADDREF: what a request holds of its resolver.
Held(f) == 1 + Ref(f)

\* (mutants of ReleaseInfo: the object is released twice; it is forgotten)
ReleaseObjectTwice(r, f) == Deref(r, Held(f) + 1, 0)

ReleaseOnlyCallback(r, f) ==
    IF Ref(f) = 0 THEN UNCHANGED <<resolver, loop>> ELSE Deref(r, Ref(f), 0)

\* RELEASE_INFO.
ReleaseInfo(r, f) == Deref(r, Held(f), 0)

----------------------------------------------------------------------------
(* Calls made by the script.                                                *)

CanCall(r) ==
    /\ resolver[r].obj = "live"
    /\ \/ resolver[r].script > 0
       \/ running # NoRequest /\ req[running].of = r /\ req[running].callback = "self"

NewLoop(l) ==
    /\ loop[l].obj = "none"
    /\ loop' = [loop EXCEPT ![l] = [obj |-> "live", rc |-> 1, script |-> 1]]
    /\ UNCHANGED <<resolver, req, running>>

NewResolver(r, l) ==
    /\ resolver[r].obj = "none"
    /\ l \in Loops => loop[l].script > 0
    /\ resolver' = [resolver EXCEPT ![r] =
           [obj |-> "live", rc |-> 1, script |-> 1, on |-> l, leaks |-> 0]]
    /\ loop' = IF l \in Loops THEN [loop EXCEPT ![l].rc = @ + 1] ELSE loop
    /\ UNCHANGED <<req, running>>

\* (mutant of Request: ZVAL_COPY_VALUE in INIT_INFO)
RequestUncounted(r, q) ==
    /\ CanCall(r) /\ req[q].state = "none"
    /\ \E f \in Closures :
          /\ req' = [req EXCEPT ![q] = [state |-> "pending", of |-> r, callback |-> f]]
          /\ resolver' = [resolver EXCEPT ![r].rc = @ + Ref(f)]
    /\ UNCHANGED <<loop, running>>

\* getaddrinfo or getnameinfo, accepted.  (A bad address or a refusal by libuv
\* releases what the call took, and so changes nothing.)
Request(r, q) ==
    /\ CanCall(r) /\ req[q].state = "none"
    /\ \E f \in Closures :
          /\ req' = [req EXCEPT ![q] = [state |-> "pending", of |-> r, callback |-> f]]
          /\ resolver' = [resolver EXCEPT ![r].rc = @ + Held(f)]
    /\ UNCHANGED <<loop, running>>

\* The same calls with wrong arguments: the block is freed, its reference lost.
BadRequest(r) ==
    /\ CanCall(r) /\ resolver[r].leaks < MaxLeaks
    /\ resolver' = [resolver EXCEPT ![r].rc = @ + 1, ![r].leaks = @ + 1]
    /\ UNCHANGED <<loop, req, running>>

Keep(r) ==
    /\ CanCall(r) /\ resolver[r].script < MaxScriptRefs
    /\ resolver' = [resolver EXCEPT ![r].rc = @ + 1, ![r].script = @ + 1]
    /\ UNCHANGED <<loop, req, running>>

Drop(r) ==
    /\ resolver[r].obj = "live" /\ resolver[r].script > 0
    /\ Deref(r, 1, 1)
    /\ UNCHANGED <<req, running>>

DropLoop(l) ==
    /\ loop[l].obj = "live" /\ loop[l].script > 0
    /\ loop' = [loop EXCEPT ![l] = Unref([loop[l] EXCEPT !.script = @ - 1], 1)]
    /\ UNCHANGED <<resolver, req, running>>

----------------------------------------------------------------------------
(* Events of the loop.                                                      *)

\* The answer, good or bad: on_addrinfo_resolved, on_nameinfo_resolved.
Resolved(q) ==
    /\ running = NoRequest
    /\ req[q].state = "pending"
    /\ running' = q
    /\ UNCHANGED <<loop, resolver, req>>

\* The callback returns and the request is released.
Return ==
    /\ running # NoRequest
    /\ ReleaseInfo(req[running].of, req[running].callback)
    /\ req' = [req EXCEPT ![running].state = "released"]
    /\ running' = NoRequest

----------------------------------------------------------------------------

Init ==
    /\ loop = [l \in Loops |-> [obj |-> "none", rc |-> 0, script |-> 0]]
    /\ resolver = [r \in Resolvers |->
           [obj |-> "none", rc |-> 0, script |-> 0, on |-> DefaultLoop, leaks |-> 0]]
    /\ req = [q \in Requests |-> [state |-> "none", of |-> NoResolver, callback |-> "none"]]
    /\ running = NoRequest

Next ==
    \/ Return
    \/ \E l \in Loops : NewLoop(l) \/ DropLoop(l)
    \/ \E r \in Resolvers : BadRequest(r) \/ Keep(r) \/ Drop(r)
    \/ \E r \in Resolvers, l \in Loops \cup {DefaultLoop} : NewResolver(r, l)
    \/ \E r \in Resolvers, q \in Requests : Request(r, q)
    \/ \E q \in Requests : Resolved(q)

Spec == Init /\ [][Next]_vars

----------------------------------------------------------------------------
(* Properties.                                                              *)

\* Objects and requests keep their types; counts never go below zero.
TypeOK ==
    /\ loop \in [Loops -> LoopObjects]
    /\ resolver \in [Resolvers -> ResolverObjects]
    /\ req \in [Requests -> RequestBlocks]
    /\ running \in Requests \cup {NoRequest}

Pending(r) == {q \in Requests : req[q].state = "pending" /\ req[q].of = r}

\* A live resolver is held by the script, by its pending requests, by the
\* closures these call, and by what wrong arguments leaked (uv_resolver.c:72 and
\* 105 free the block without its reference); a live loop by the script and the
\* live resolvers on it.
RefcountExact ==
    /\ \A r \in Resolvers :
          resolver[r].obj = "live" =>
              resolver[r].rc =
                  resolver[r].script + resolver[r].leaks + Cardinality(Pending(r))
                  + Cardinality({q \in Pending(r) : req[q].callback = "self"})
    /\ \A l \in Loops :
          loop[l].obj = "live" =>
              loop[l].rc = loop[l].script
                  + Cardinality({r \in Resolvers : resolver[r].obj = "live"
                                                   /\ resolver[r].on = l})

\* A script may forget both the resolver and the loop: while a request waits for
\* its answer or delivers it, both live, so that libuv never answers on a loop
\* freeUVLoopResource has closed.
PendingIsLive ==
    \A q \in Requests :
        req[q].state = "pending" =>
            LET r == resolver[req[q].of]
            IN  r.obj = "live" /\ (r.on \in Loops => loop[r.on].obj = "live")

=============================================================================
