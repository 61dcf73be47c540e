------------------------------- MODULE UVSSL -------------------------------
(***************************************************************************)
(* The UVSSL class (uv_ssl.c), a subclass of UVTcp.  What it inherits is   *)
(* UVTcp's, over the variable `ssl'; tls[h] is what uv_ssl_ext_t adds.     *)
(*                                                                         *)
(* Every byte goes through OpenSSL.  read_cb first makes the handshake     *)
(* proceed, which calls the script for a certificate that does not verify, *)
(* for a name that does not match and for a handshake that is done, and    *)
(* goes by its answer; then it reads, calling the script once per buffer.  *)
(* `reader' is the handle read_cb is working on, and where it is.          *)
(*                                                                         *)
(* connect() with a host name first looks it up, with a request that keeps *)
(* a raw pointer to the object.                                            *)
(***************************************************************************)
EXTENDS Naturals

CONSTANTS
    Handles,        \* the UVSSL objects a script may ever create
    NoHandle,       \* stands for the absence of a handle
    Closures,       \* the closures a script passes: "self" captures its handle
    MaxScriptRefs,  \* bound on the references script variables hold to a handle
    MaxWrites,      \* bound on the writes a handle has in flight
    MaxLookups      \* bound on the lookups a handle has in flight

ASSUME HandlesAssumption == NoHandle \notin Handles
ASSUME ClosuresAssumption == Closures \subseteq {"plain", "self"}
ASSUME BoundsAssumption == MaxScriptRefs \in Nat \ {0} /\ MaxWrites \in Nat
ASSUME LookupsAssumption == MaxLookups \in Nat

VARIABLES
    ssl,            \* ssl[h]: what handle h inherits
    tls,            \* tls[h]: what UVSSL adds
    frame,          \* the script callback the loop is executing
    reader          \* the handle read_cb works on

vars == <<ssl, tls, frame, reader>>

Stream == INSTANCE UVTcp WITH tcp <- ssl

----------------------------------------------------------------------------
(* State.                                                                   *)

TlsResources ==
    [session  : {"none", "handshake", "done"},  \* ssl, and SSL_is_init_finished
     server   : Handles \cup {NoHandle},        \* whose certificates it uses
     shake    : {"null", "plain", "self"},      \* sslHandshakeCallback
     sni      : BOOLEAN,                        \* sslServerNameCallback is set
     approved : BOOLEAN,                        \* the script accepted the handshake
     unasked  : BOOLEAN,                        \* named a server, script not asked
     lookups  : Nat,                            \* uv_getaddrinfo not answered yet
     failed   : BOOLEAN]                        \* a lookup has failed

BlankTls ==
    [session |-> "none", server |-> NoHandle, shake |-> "null", sni |-> FALSE,
     approved |-> FALSE, unasked |-> FALSE, lookups |-> 0, failed |-> FALSE]

\* Where read_cb is: in SSL_do_handshake; in the callback for a name that does
\* not match; about to announce the handshake; announcing it; in its read loop.
NotReading == [h |-> NoHandle, at |-> "none", pinned |-> FALSE]

Readers ==
    {NotReading} \cup
    [h : Handles, at : {"handshake", "mismatch", "finish", "announce", "data"},
     pinned : BOOLEAN]

\* The object goes: freeUVSSLResource.  A lookup does not know.
Released(t) == [BlankTls EXCEPT !.lookups = t.lookups, !.failed = t.failed]

\* tls when nothing else is done to it than follow the objects that go.
TlsAfter(new) ==
    tls' = [h \in Handles |-> IF ssl'[h].obj = "live" THEN new[h] ELSE Released(new[h])]

Inherited == TlsAfter(tls) /\ UNCHANGED reader

\* tcp_write_raw of what OpenSSL has to send, if anything: counted, unanswered.
Sent(r) ==
    {r} \cup (IF Stream!Open(r) /\ r.writes < MaxWrites
              THEN {[r EXCEPT !.writes = @ + 1]} ELSE {})

----------------------------------------------------------------------------
(* Calls made by the script.                                                *)

\* Inside read_cb only a callback can call.
ScriptRuns == reader = NotReading \/ frame # Stream!Idle

InheritedCall(h) ==
    /\ \/ Stream!New(h) \/ Stream!Listen(h) \/ Stream!SetCallback(h)
       \/ Stream!Shutdown(h) \/ Stream!Close(h)
       \/ Stream!GetSockname(h) \/ Stream!GetPeername(h)
       \/ Stream!Keep(h) \/ Stream!Drop(h)
    /\ Inherited

\* (mutant of SetSSLHandshakeCallback: without FCI_FREE)
ReplaceHandshakeCallback(h) ==
    /\ Stream!CanCall(h)
    /\ \E f \in Closures \cup {"null"} :
          /\ Stream!Update(h, [ssl[h] EXCEPT !.rc = @ + Stream!Ref(f)])
          /\ TlsAfter([tls EXCEPT ![h].shake = f])
    /\ UNCHANGED reader

\* The callback that was there goes first.
SetSSLHandshakeCallback(h) ==
    /\ Stream!CanCall(h)
    /\ \E f \in Closures \cup {"null"} :
          /\ Stream!Update(h, [ssl[h] EXCEPT
                 !.rc = (@ + Stream!Ref(f)) - Stream!Ref(tls[h].shake)])
          /\ TlsAfter([tls EXCEPT ![h].shake = f])
    /\ UNCHANGED reader

\* The argument is parsed as a value ("z") into a structure for a callable: the
\* slot counts as set, and holds nothing that could be called or released.
SetSSLServerNameCallback(h) ==
    /\ Stream!CanCall(h)
    /\ Stream!Update(h, ssl[h])
    /\ \E set \in BOOLEAN : TlsAfter([tls EXCEPT ![h].sni = set])
    /\ UNCHANGED reader

\* The connection gets a session at once; it makes the handshake when it reads.
Accept(h, c) ==
    /\ Stream!Accept(h, c)
    /\ TlsAfter([tls EXCEPT ![c].session = "handshake", ![c].server = h])
    /\ UNCHANGED reader

\* SSL_write, then whatever OpenSSL has to send.  (Without a session the process
\* ends.)  Unlike UVTcp's it does not ask for the write callback.
Write(h) ==
    /\ Stream!CanCall(h)
    /\ tls[h].session # "none"
    /\ \E r \in Sent(ssl[h]) : Stream!Update(h, r)
    /\ Inherited

\* connect() with an address is UVTcp's.
ConnectAddress(h) == Stream!Connect(h) /\ Inherited

\* (mutant of ConnectName: setSelfReference is missing)
ConnectNameUnpinned(h) ==
    /\ Stream!CanCall(h)
    /\ tls[h].lookups < MaxLookups
    /\ \E f \in Closures : Stream!Update(h, Stream!SetConnect(ssl[h], f))
    /\ TlsAfter([tls EXCEPT ![h].lookups = @ + 1])
    /\ UNCHANGED reader

\* connect() with a host name: whether the lookup starts is not looked at.
ConnectName(h) ==
    /\ Stream!CanCall(h)
    /\ \E f \in Closures :
          Stream!Update(h, [Stream!SetSelfReference(Stream!SetConnect(ssl[h], f)) EXCEPT
                               !.flag = @ \cup {"HANDLE_START"}])
    /\ \/ TlsAfter(tls)
       \/ tls[h].lookups < MaxLookups /\ TlsAfter([tls EXCEPT ![h].lookups = @ + 1])
    /\ UNCHANGED reader

\* The cycle collector: get_gc reports the handshake callback too.
Collect(h) ==
    /\ ssl[h].obj = "live"
    /\ ssl[h].rc > 0
    /\ ssl[h].rc = Stream!Captures(ssl[h].slot) + Stream!Ref(tls[h].shake)
    /\ Stream!Update(h, Stream!Free(ssl[h]))
    /\ Inherited

ScriptCall(h) ==
    /\ ScriptRuns
    /\ \/ InheritedCall(h) \/ SetSSLHandshakeCallback(h) \/ SetSSLServerNameCallback(h)
       \/ Write(h) \/ ConnectAddress(h) \/ ConnectName(h) \/ Collect(h)
       \/ \E c \in Handles : Accept(h, c)

----------------------------------------------------------------------------
(* Events of the loop.                                                      *)

InheritedEvent(h) ==
    /\ \/ Stream!ConnectionCb(h) \/ Stream!WriteCb(h) \/ Stream!ShutdownCb(h)
       \/ Stream!CancelConnect(h) \/ Stream!TcpCloseCb(h)
    /\ Inherited

\* The answer to a lookup.  uv_tcp_connect refuses a handle that is connecting or
\* has been connected or closed; a failure, its own or this one, is told to the
\* connect callback and followed by releaseResource.
LookupFails(h) ==
    /\ Stream!Deliver(h, "connect", "lookup",
          IF ssl[h].slot.connect = "null" THEN Stream!ReleaseResource(ssl[h]) ELSE ssl[h])
    /\ TlsAfter([tls EXCEPT ![h].lookups = @ - 1,
                            ![h].failed = @ \/ ssl[h].slot.connect = "null"])

OnAddrinfoResolved(h) ==
    /\ Stream!LoopTurn(h)
    /\ tls[h].lookups > 0
    /\ \/ LookupFails(h)
       \/ /\ ssl[h].uv \in {"init", "broken"}
          /\ Stream!Update(h, [ssl[h] EXCEPT !.uv = "connecting", !.conn = TRUE])
          /\ TlsAfter([tls EXCEPT ![h].lookups = @ - 1])
    /\ UNCHANGED reader

\* The connect request is answered: reading starts, and with it a session that
\* sends its first message.  Silence when libuv refuses to read.
ClientConnectionCb(h) ==
    /\ Stream!LoopTurn(h)
    /\ ssl[h].uv = "connecting" /\ ssl[h].conn
    /\ \E why \in {"ok", "fail"} :
          LET r == [ssl[h] EXCEPT !.conn = FALSE,
                                  !.uv = IF why = "ok" THEN "connected" ELSE "broken"]
          IN \/ /\ \E q \in Sent(r) :
                      Stream!Deliver(h, "connect", why,
                          [q EXCEPT !.reading = TRUE,
                                    !.flag = @ \cup {"HANDLE_START", "READ_START"}])
                /\ TlsAfter([tls EXCEPT ![h].session = "handshake", ![h].approved = FALSE])
             \/ why = "fail" /\ Stream!Update(h, r) /\ TlsAfter(tls)
    /\ UNCHANGED reader

Reading(h) == Stream!LoopTurn(h) /\ ssl[h].reading

At(h, at) == [h |-> h, at |-> at, pinned |-> Stream!Pinned(ssl[h])]

\* nread < 0.
ReadError(h) ==
    /\ Reading(h) /\ ssl[h].uv \in {"connected", "broken"}
    /\ Stream!Deliver(h, "error", "eof",
          IF ssl[h].slot.error = "null" THEN Stream!TcpCloseSocket(ssl[h]) ELSE ssl[h])
    /\ Inherited

\* Bytes for a handshake not finished yet.  The first message of a client may
\* name a server; a server whose name callback is set tries to call it.
ReadHandshake(h) ==
    /\ Reading(h) /\ ssl[h].uv = "connected"
    /\ tls[h].session = "handshake"
    /\ Stream!Update(h, ssl[h])
    /\ \/ TlsAfter(tls)
       \/ /\ tls[h].server # NoHandle /\ tls[tls[h].server].sni
          /\ TlsAfter([tls EXCEPT ![h].unasked = TRUE])
    /\ reader' = At(h, "handshake")

\* Bytes after the handshake.  This is where write callbacks are enabled.
ReadData(h) ==
    /\ Reading(h) /\ ssl[h].uv = "connected"
    /\ tls[h].session = "done"
    /\ Stream!Update(h, [ssl[h] EXCEPT !.flag = @ \cup {"WRITE_CALLBACK_ENABLE"}])
    /\ TlsAfter(tls)
    /\ reader' = At(h, "data")

LoopEvent(h) ==
    /\ reader = NotReading
    /\ \/ InheritedEvent(h) \/ OnAddrinfoResolved(h) \/ ClientConnectionCb(h)
       \/ ReadError(h) \/ ReadHandshake(h) \/ ReadData(h)

----------------------------------------------------------------------------
(* read_cb between its callbacks.                                           *)

Working(at, h) ==
    /\ frame = Stream!Idle
    /\ reader.at = at /\ reader.h = h /\ ssl[h].obj = "live"

\* What is left of read_cb when the object has gone is done on freed memory.
Abandoned ==
    /\ frame = Stream!Idle /\ reader # NotReading /\ ssl[reader.h].obj # "live"
    /\ reader' = NotReading
    /\ UNCHANGED <<ssl, tls, frame>>

\* (mutants of Refused: the socket is left open; the pin goes when closing starts)
RefusedButOpen(r) == r

RefusedAndReleased(r) == Stream!ReleaseResource(Stream!TcpCloseSocket(r))

\* The script, or OpenSSL, says no.
Refused(r) == Stream!TcpCloseSocket(r)

\* handleHandshakeCallback: the callback is asked; when there is none it is a no.
Ask(h, why, at, r) ==
    \/ /\ tls[h].shake # "null"
       /\ ssl' = [ssl EXCEPT ![h] = [r EXCEPT !.rc = @ + 1]]
       /\ frame' = [kind |-> "handshake", h |-> h, why |-> why]
       /\ reader' = [reader EXCEPT !.at = at]
    \/ /\ tls[h].shake = "null"
       /\ Stream!Update(h, Refused(r))
       /\ reader' = NotReading

\* SSL_do_handshake wants more bytes, or fails.
HandshakeStops(h) ==
    /\ Working("handshake", h)
    /\ \E r \in Sent(ssl[h]) : Stream!Update(h, r) \/ Stream!Update(h, Refused(r))
    /\ TlsAfter(tls)
    /\ reader' = NotReading

\* verify_callback, inside SSL_do_handshake of a client.
VerifyCallback(h) ==
    /\ Working("handshake", h)
    /\ tls[h].server = NoHandle
    /\ Ask(h, "fail", "handshake", ssl[h])
    /\ TlsAfter(tls)

\* SSL_do_handshake succeeds; a client compares the name it connected to.
HandshakeDone(h) ==
    /\ Working("handshake", h)
    /\ \E r \in Sent(ssl[h]) :
          \/ Stream!Update(h, r) /\ reader' = [reader EXCEPT !.at = "finish"]
          \/ tls[h].server = NoHandle /\ Ask(h, "fail", "mismatch", r)
    /\ TlsAfter([tls EXCEPT ![h].session = "done"])

Announce(h) ==
    /\ Working("finish", h)
    /\ Ask(h, "ok", "announce", ssl[h])
    /\ TlsAfter(tls)

\* One buffer for the script, the last one possibly empty.
Deliver(h) ==
    /\ Working("data", h)
    /\ Stream!Deliver(h, "read", "data", ssl[h])
    /\ TlsAfter(tls)
    /\ \/ reader' = NotReading
       \/ ssl[h].slot.read # "null" /\ UNCHANGED reader

ReadCbStep(h) ==
    HandshakeStops(h) \/ VerifyCallback(h) \/ HandshakeDone(h) \/ Announce(h) \/ Deliver(h)

----------------------------------------------------------------------------
(* A callback returns.                                                      *)

\* The handshake callback's answer is taken for yes or no.
AfterYes == [handshake |-> "handshake", mismatch |-> "finish", announce |-> "data"]

HandshakeReturn(h) ==
    /\ frame.kind = "handshake" /\ frame.h = h
    /\ LET r == Stream!Deref(ssl[h]) IN
       \/ /\ ssl' = [ssl EXCEPT ![h] = r]
          /\ reader' = [reader EXCEPT !.at = AfterYes[@]]
          /\ TlsAfter([tls EXCEPT ![h].approved = @ \/ reader.at = "announce"])
       \/ /\ ssl' = [ssl EXCEPT ![h] = Refused(r)]
          /\ reader' = NotReading
          /\ TlsAfter(tls)
    /\ frame' = Stream!Idle

\* on_addrinfo_resolved releases the resource, as if the handle were closed.
LookupReturn(h) ==
    /\ frame.why = "lookup" /\ frame.h = h
    /\ LET r == Stream!Deref(ssl[h]) IN
       ssl' = [ssl EXCEPT ![h] = IF r.obj = "live" THEN Stream!ReleaseResource(r) ELSE r]
    /\ frame' = Stream!Idle
    /\ TlsAfter([tls EXCEPT ![h].failed = TRUE])
    /\ UNCHANGED reader

\* Every other callback returns as in UVTcp.
Return ==
    /\ frame.kind # "handshake" /\ frame.why # "lookup"
    /\ Stream!Return
    /\ Inherited

----------------------------------------------------------------------------

Init ==
    /\ Stream!Init
    /\ tls = [h \in Handles |-> BlankTls]
    /\ reader = NotReading

Next ==
    \/ Return \/ Abandoned
    \/ \E h \in Handles :
          ScriptCall(h) \/ LoopEvent(h) \/ ReadCbStep(h) \/ HandshakeReturn(h) \/ LookupReturn(h)

Spec == Init /\ [][Next]_vars

----------------------------------------------------------------------------
(* Properties.                                                              *)

Frames ==
    {Stream!Idle} \cup
    [kind : Stream!Callbacks \cup {"handshake"}, h : Handles,
     why : Stream!Whys \cup {"lookup"}]

\* Resources, sessions and the running callback keep their types, reference
\* counts never go below zero.
TypeOK ==
    /\ ssl \in [Handles -> Stream!Resources]
    /\ tls \in [Handles -> TlsResources]
    /\ frame \in Frames
    /\ reader \in Readers

\* The reference count of a live object is what the script, the running
\* callback, the pin and its own closures hold, the handshake callback with them:
\* a failed lookup and a refused handshake give back what connect() took, once.
RefcountExact ==
    \A h \in Handles :
        LET r == ssl[h] IN
        r.obj = "live" =>
            /\ r.rc > 0
            /\ r.rc = r.script + Stream!FrameRef(h) + Stream!PinRef(r)
                      + Stream!Captures(r.slot) + Stream!Ref(tls[h].shake)

\* A handle none of whose lookups has failed is not freed while it listens, connects
\* or has a shutdown queued; nor, as long as it is not closed, while a lookup that
\* will write to it is on its way: connect() again and dropping every variable leave
\* it its memory.  (The close callback gives the pin back with the lookup still on
\* its way, and a failed one gives it back whatever else is: both may free it early.)
FreedOwesNothing ==
    \A h \in Handles :
        ssl[h].obj = "freed" /\ ~tls[h].failed =>
            /\ ssl[h].uv \notin {"listening", "connecting"}
            /\ ~ssl[h].conn /\ ssl[h].shut # "pending"
            /\ tls[h].lookups > 0 => ssl[h].uv = "closed"

\* read_cb, inside SSL_do_handshake or its read loop, and on_addrinfo_resolved
\* use the object after the callbacks they make, whatever these close or drop: an
\* object that was pinned when read_cb began stays; so does that of the error
\* callback, and, unless it was closed before, that of a lookup, when no earlier
\* lookup of it failed.  (read_cb of an accepted connection nobody pinned may go on
\* after the object has gone: Abandoned.)
TailSafe ==
    /\ reader.pinned => ssl[reader.h].obj = "live" /\ Stream!Pinned(ssl[reader.h])
    /\ frame.kind = "error" /\ ~tls[frame.h].failed => ssl[frame.h].rc > 1
    /\ frame.why = "lookup" /\ ssl[frame.h].uv # "closed" /\ ~tls[frame.h].failed =>
           ssl[frame.h].rc > 1

\* "you won't receive any data before ssl handshake finished" (README.md:68
\* and 105): the read and write callbacks wait for a handshake that is done and that
\* the handshake callback has accepted, however many certificates, names or reads it
\* was asked about before.
DataApproved ==
    frame.kind \in {"read", "write"} =>
        tls[frame.h].session = "done" /\ tls[frame.h].approved

\* The pin goes in the close callback or when a lookup of the same handle has failed; a
\* handshake that fails, or is refused in the middle of read_cb, only starts closing.
PinDropped ==
    [][\A h \in Handles :
          Stream!Pinned(ssl[h]) /\ ~Stream!Pinned(ssl'[h]) =>
              \/ ssl[h].uv = "closing" /\ ssl'[h].uv = "closed"
              \/ tls'[h].failed /\ \/ frame.why = "lookup" /\ frame.h = h
                                   \/ tls'[h].lookups < tls[h].lookups]_vars

\* "regist Server Name Indication callback" (README.md:92): a server whose name
\* callback is set lets it choose the certificate of a client that names a server.
NameCallbackChooses ==
    \A h \in Handles : tls[h].session = "done" => ~tls[h].unasked

=============================================================================
