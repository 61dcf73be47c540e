# php_ext_uv in TLA+

`php_ext_uv` is a PHP extension: classes that wrap the handles and requests of
libuv. Almost all its code is about one question — **who keeps the memory alive,
and who may still touch it** — asked by two owners that know nothing of each
other: the Zend engine, which frees an object when its reference count reaches
zero or when the cycle collector finds it unreachable, and libuv, which keeps a
raw pointer to the handle embedded in that object until a callback has run. This
directory models the classes that answer it, checks them with TLC and proves the
core of it with TLAPS. The two questions that are not about memory — when UVSSL lets
data through, and which host a certificate is for — are modelled beside it.

Line numbers refer to the files under `src/src/`.

## 1. The system

### Components

| component (files) | state | operations | what makes it correct |
|---|---|---|---|
| **UVTcp** (`uv_tcp.c`, `uv_tcp.h`) | flags, five callback slots, cached names, the embedded handle and its connect, shutdown and write requests | listen, connect, accept, setCallback, write, shutdown, close, getSockname…; callbacks connection, connect, read, write, shutdown, close | the reference count is exact; the object outlives what libuv owes it; closed once; the pin goes in the close callback |
| **UVPipe** (`uv_pipe.c`) | as UVTcp, over a named pipe, plus the IPC channel of a worker | as UVTcp, with its own connect(), attachIPC() and `ipc_read_cb` | as UVTcp; the loop in `ipc_read_cb` survives what the script does inside it |
| **UVUdp** (`uv_udp.c`) | three flags, three callback slots, cached name | bind, setCallback, sendTo, close, getSockname…; callbacks recv, send, close | a receiving object is pinned and owns its callbacks |
| **UVTimer** (`uv_timer.c`) | `start`, callback, counted copy of itself | start, stop, expiry | an armed timer is alive |
| **UVIdle**, **UVSignal** (`uv_idle.c`, `uv_signal.c`) | `start`, callback, uncounted copy of itself | start, stop, the libuv callback | an active handle is alive and has a callback; a held object is not freed |
| **UVResolver** (`uv_resolver.c`) | none of its own; each request is a block holding the resolver and the callback | getaddrinfo, getnameinfo, the two answers | resolver and loop live until the answer |
| **UVLoop** (`uv_loop.c`) | the libuv loop, or the default one | run, stop, alive, now… | a loop is not closed under a request |
| **callback slots** (`fcall.h`) | callable and "owned" bit | `FCI_FREE`, `FCI_ADDREF`, `fci_call_function` | never call a closure nobody owns |
| **UVSSL** (`uv_ssl.c`) | UVTcp plus the session, the handshake and name callbacks, the lookup under way | as UVTcp, with its own accept, connect (by name), write and read callback; certificates | as UVTcp, through a read callback that calls the script several times; no data before an accepted handshake |
| **certificate names** (`ssl_verify.c`) | none | matching of host names against certificates | agrees with a definition by cases |
| **UVProcess**, **UVWorker** (`uv_process.c`, `uv_worker.c`) | a child process with its IPC pipe and close callback; the connections written to it | spawn, kill, setCloseCallback, attach (pass a connection), exit and write callbacks | a worker is kept until its exit has been handled; the parent's copy of a connection is closed |
| **UVUtil** (`uv_util.c`) | none | version, error texts, CPU information | — |
| **extension entry** (`php_ext_uv.c`, `common.h`) | none | class registration | — |

### How they interact

* One thread. The script calls methods; `$loop->run()` calls libuv, which calls the
  C callbacks, which call the script (`fci_call_function`). **Inside a callback the
  script may call any method of any object**, including `close()` and dropping the
  very object the C code is working on. The C code then continues.
* Every class embeds the `zend_object` and the libuv handle in one block, which
  `free...Resource` releases at the object's last reference, whatever libuv thinks.
* The *pin*: `setSelfReference` gives an object a reference to itself
  (`..._HANDLE_INTERNAL_REF`); `releaseResource`, called from the close callback,
  gives it back. This is what makes libuv's pointer safe, for the calls that pin.
* Closures usually capture the object they are set on (`use($server)`), so objects
  hold themselves through their own callback slots. `get_gc` reports the slots and
  not the pin, so the collector can break exactly the cycles libuv does not need.
* UVTcp and UVPipe create objects for accepted connections; UVWorker passes
  connections to the UVPipe of a child process, whose `ipc_read_cb` accepts them; UVSSL
  is a UVTcp with other libuv callbacks; UVResolver's requests hold the resolver and
  through it the loop, UVSSL's own lookup holds a raw pointer.

### What is hard

The re-entrancy above (state read before a callback and used after it); close from
several places; requests still queued at close; failures halfway through a method
that has already freed the old callbacks; slots that point to closures without
owning them; the cycle collector at any release; restarts of started handles.
`PROJECT.json` lists each of these at its line (`hazards`), with the property that
would catch it.

## 2. The modules

| module | models | state and actions |
|---|---|---|
| `UVTcp` | `uv_tcp.c` | `tcp[h]` is `uv_tcp_ext_t`, its reference count and libuv's side of the handle; `frame` is the running callback. One action per method (`Listen` … `Drop`), `Collect`, one per libuv callback (`ConnectionCb` … `TcpCloseCb`), and `Return`, the end of a callback with what the C code does after it |
| `HandleLife` | what the classes promise | no counts, no flags: a block is held by the script, owed to libuv, and goes when it is neither. `UVTcp` and `UVPipe` implement it |
| `UVPipe` | `uv_pipe.c` | `UVTcp` instantiated over `pipe`, with its own `Connect`, `AttachIPC`, `IpcReadCb`; `draining` and `Drain` are the `while` loop of `ipc_read_cb` around the script |
| `UVUdp` | `uv_udp.c` | as UVTcp, with three slots and three flags |
| `UVTimer`, `UVIdle`, `UVSignal` | the three files | one record per object, `running` is the callback being executed |
| `UVWatchers` | the three on one loop | instantiates them over one `running` |
| `UVResolver` | `uv_resolver.c`, lifetimes of `uv_loop.c` | loops, resolvers and requests with their counts |
| `UVSSL` | `uv_ssl.c` | `UVTcp` instantiated over `ssl`, with `tls[h]` for what `uv_ssl_ext_t` adds; `reader` is `read_cb` between its callbacks: `ReadHandshake` or `ReadData` enters it, `VerifyCallback`, `HandshakeDone`, `Announce`, `Deliver` call the script, `HandshakeReturn` goes by the answer |
| `UVWorker` | `uv_worker.c`, `spawn()` of `uv_process.c` | one record per worker, with the write requests on its pipe; `conn[c]` is where a connection is in the parent; `Exit` is the child's own step |
| `SSLVerify` | `ssl_verify.c` | the common name, then one step per alternative name, to the answer |
| `UVTcp_proofs`, `UVPipe_proofs`, `UVSSL_proofs`, `UVUdp_proofs`, `UVWatchers_proofs`, `UVResolver_proofs`, `UVWorker_proofs`, `SSLVerify_proofs` | — | theorems about the module each is named after, with the refinement of `HandleLife` by `UVTcp` and by `UVPipe` |
| `MC*` | — | constants, symmetry and constraints for TLC |

Conventions.

* A method of C is one action: it runs to its end without the loop, and the script
  sees only the result. Its early returns are disjuncts of that action. Where the C
  code calls the script in the middle, the action sets `frame` (or `running`), and
  the rest is `Return`.
* The arguments of a method are what matters to ownership: a callback is one of
  `Closures` ("plain", or "self" when it captures its object), an address is good
  or refused, libuv accepts or refuses.
* A slot is `"borrowed"` when the code stored a closure without `FCI_ADDREF`.
* A few operators are marked as mutants: the plausible mistakes that the
  properties are shown to catch. The specifications do not use them.

### Assumptions

libuv is a submodule of the repository, and empty; it is modelled from how the code
uses it and from its documented contract, as is the Zend engine (`external` in the
map):

* libuv calls back only from the loop, one callback at a time; a closing or closed
  handle refuses everything (`uv_pipe_connect` does nothing there), and a second
  `uv_close` aborts the process;
* at close, pending requests are answered first, then the close callback comes;
* `uv_accept` may fail, and then destroys the connection that waits; when it succeeds
  it gives a handle that `uv_read_start` accepts;
* `uv_pipe_open` may refuse a handle in any state (it does one that has another
  descriptor); where it does not, the handle is on descriptor 0 from then on and
  listens no more, and a connect under way is still answered;
* constructors are given arguments they accept: with too many, `uv_tcp.c:342` and its
  like in the other classes leave a handle that was never initialised;
* the engine keeps a closure while it executes it, so the frame only holds the
  callback's argument;
* releasing a closure the slot does not own, or an uninitialised return value, is
  undefined in C; here it has no effect. `fci_call_function` of an empty slot leaves
  such a value in several handlers;
* the argument of a UVUdp callback is the object. (`resource->object` is set by
  `setCallback()` alone, `uv_udp.c:241`; a callback that a partly parsed first
  `setCallback()` leaves behind is given a value nobody wrote);
* the collector is shown the closures the slots hold. (In UVTimer, UVIdle and UVWorker,
  `FCI_GC_TABLE`, `fcall.h:8`, leaves the entry of a slot that was emptied, so that it may
  be shown one more, already released);
* a handle whose memory is gone receives no more events: what libuv does with a
  dangling pointer is not described by any model. Whether that state is reached is
  what the properties are about;
* no `$loop->run()` inside a callback, and the end of the PHP request is not modelled;
* OpenSSL is what `uv_ssl.c` asks of it: a handshake wants more, fails, asks about a
  certificate or succeeds; bytes come out, or not, at any call. `write()` before there
  is a session ends the process and is not an action;
* the server name callback is never run (finding 3), so it holds nothing;
* in `UVWorker`, `uv_write2` succeeds once the child was spawned (its result is not
  looked at), a child may exit at any moment, and a write to a pipe nobody reads is
  answered with an error (SIGPIPE is ignored). The IPC pipe inside a worker is never
  closed (`uv_worker.c:82-95`), so that a freed worker leaves it in the loop; the list
  of handles libuv keeps is not modelled.

`CHECK_DEADLOCK FALSE` everywhere: a script may be finished with all its objects, and
UVUdp's process may be aborted; neither is a fault of the model.

## 3. The checks

| run | instance | distinct states | shows |
|---|---|---|---|
| `tcp_one` | one handle, both kinds of closure, 1 script reference, 1 write, fairness | 202k | `TypeOK`, exact counts, nothing freed under libuv for pinned operations, `read_cb`'s tail after the error callback is safe, one close, callable slots are owned, the pin goes in the close callback only, a listener keeps its callback, `PinReleased`; it implements `HandleLife` |
| `tcp_accept` | a listener and the connection it accepts, plain closures | 234k | the tail of `read_cb` when the callbacks of one handle close and drop the other |
| `tcp_zero` | one handle | — | **violation** of `ErrorMeansDisconnect` (finding 1) |
| `pipe` | one pipe with both kinds of closure, or a worker's pipe and one client | 109k | the same with a connect() that nothing refuses and an attachIPC() in any state of the handle, repeated and after one that failed; the drain loop: the script closes or drops either handle between its turns; it implements `HandleLife` |
| `udp` | one handle, 2 script references, 2 datagrams, fairness | 2.9k | exact counts, `ReceivingIsOwned`, `CallbacksKept`, `PinReleased` |
| `watchers` | a timer, an idle and a signal handle, any two at once | 140k | armed handles are alive and have a callback; the timer's leak is exactly its restarts |
| `watchers_held` | the same | — | **violation** of `HeldIsLive` (finding 2) |
| `resolver` | 2 resolvers, a loop object and the default loop, 2 requests | 14k | requests keep resolver and loop |
| `ssl` | a server and what it accepts, or a client that connects by name or address; closures capture | 166k | exact counts with the handshake callback; nothing freed under a lookup, unless the handle was closed first or an earlier lookup failed; `read_cb` of a pinned handle may go on after each of its callbacks; data only after an accepted handshake; the pin goes at close or after a failed lookup |
| `ssl_names` | the same | — | **violation** of `NameCallbackChooses` (finding 3) |
| `worker` | 2 workers, 2 connections, both kinds of closure, fairness | 41k | the reference a worker holds to itself is given back once, the exit finds the worker, a connection given to a dead child is released |
| `names` | host names over `a` and `.`, entries of a few more characters, lists of up to two | 211k | string search, loop and early return give the answer of `Covers` |

Each property of a passing run has a mutant of the code, in `PROJECT.json`, under
which TLC finds it violated.

**Bounds.** Objects of a class share no variable: they meet through `accept` (hence
two handles in `tcp_accept`, `pipe` and `ssl`) and through the running callback (hence
two of the watchers at once; `TwoClasses`). The script's references matter only as
"none", "the last" and "another one": one variable, the argument of the running
callback and the pin give all three (`MaxScriptRefs` 1 in UVTcp and UVPipe, 2 where
there is no pin; 3 in `watchers`, where `stop()` removes one too many). `MaxWrites` and `MaxSends` count requests not answered: zero, one and, for
UVUdp, another one. `MaxRestarts` and `MaxLeaks` cap the two leaks, each of which
repeats itself. `MaxLookups` is one lookup under way, with a second connect() free to
race it. The constraints name what a run leaves to another: in `pipe`, `AloneOrPair`
keeps either one handle that does everything (but write, cache names, and hold as its
error callback one that is not its read callback too) or a worker's channel and what it
accepts, without what the `tcp` runs examine (a client that shuts down or connects);
in `ssl`, `ServerOrClient` keeps a server that only listens and what it accepts, or a
client, without what `tcp_one` examines (shutdown, cached names, refused calls). Two
workers and two connections give every order of two handovers to one child and of one
to each. `names` has every text up to the bounds, so every place of a dot or a star.

**Fairness.** `WF(Return)`: a callback returns (a script that never returns stops the
process, and nothing can be promised of it). `SF(Finish(h))` for each handle: the
loop, when it runs, goes through all closing handles on every turn, answering a queued
request or making the close callback; strong, because a callback in between disables
it again and again. In `UVWorker` the same is assumed of the loop for an exit
(`CloseProcessHandle`), a write to a pipe whose child has gone (`PipeBroken`) and a
handle being closed (`TcpCloseCb`); a child that runs need not read. Nothing is assumed of what the script does or of the network.

### Findings

1. `uv_tcp.c:122` treats `nread <= 0` as an error: `nread = 0`, by which libuv says
   that there was nothing to read, reaches the error callback and closes the
   connection. `README.md:48` says of that callback "on error maybe client
   disconnect", and the same handler in `uv_ssl.c:128` tests `nread<0`.
2. `UVIdle::stop` (`uv_idle.c:96`) and `UVSignal::stop` (`uv_signal.c:101`) release a
   reference their `start()` never took. `tests/circular_reference_gc/UVIdle.phpt` and
   `UVSignal.phpt` stop an object they still hold; the run shows it freed.
3. `UVSSL::setSSLServerNameCallback` (`uv_ssl.c:288`) parses its argument as a value
   (`"z"`) into the structure of a callable, where `setSSLHandshakeCallback` uses `"f"`:
   the slot counts as set and holds no function. `README.md:92` has a server choose the
   certificate there (`return 1; //use cert1`); the run finishes a handshake with a
   client that named a server, without the script having been asked.

What the model shows beside these, and no statement of the repository contradicts, is
listed as hazards without a property, each with its note: among them an accepted
connection that reads without a pin (`uv_tcp.c:446`), `close()` during the lookup of
a UVSSL's `connect()`, whose answer writes to memory that may be gone (`uv_ssl.c:229`), `sendTo()` without one
(`uv_udp.c:273`), `close()` twice on a UVUdp (`uv_udp.c:287`), and `setCallback()`
after the close callback, which pins for ever (`uv_tcp.c:326`).

What the models say, beside the findings, about code no statement of the repository
contradicts: a handshake callback that returns nothing, as those of the README's UVSSL
examples, refuses (`uv_ssl.c:48`); a failed lookup drops the pin of a handle that is
still open (`uv_ssl.c:241`), so UVSSL does not implement `HandleLife`; a worker drops its
reference when closing starts and not when it ends (`uv_worker.c:93`), so neither does
UVWorker; an object whose spawn failed is lost (`uv_process.c:70`); the last test of
`matches_common_name` (`ssl_verify.c:82`) asks a name to be equal and not to match, so
`MatchesCommonName` answers yes for every common name without a null character.

## 4. The proofs

Everything is proved for **every** set of objects, connections and closures and every
bound, from the named assumptions of the modules alone (`NoHandle` is no handle,
closures are "plain" or "self", bounds are naturals; the sets of resolvers and of
requests are finite; the sets of timers, idle and signal handles have nothing in common;
host names are sequences of characters, and alternative names have a kind and such a
sequence).

None of the safety properties is inductive as it stands. Each module has one invariant
that is; in all but `UVResolver` and `SSLVerify` it is in the main a predicate of **one
resource and of the references the running callback holds to it**, so that a step is
examined on the one resource it changes. The proofs have
lemmas on the C helpers (what `SetSlots`, `Deref`, `ReleaseResource` … preserve), one
lemma per action, a step lemma that puts them together, and a PTL step.

* **`UVTcp_proofs`** (`IInv`): `TypeCorrect`, `RefcountsAreExact`,
  `FreedHandlesOweNothing`, `ErrorTailIsSafe`, `ClosedOnce`, `CallablesAreOwned`,
  `PinsGoInCloseCb`, `ListenersKeepTheirCallback`: all the safety properties of `tcp_one`.
  A count is exact after `Deref` only if it was positive and the object was live; a freed
  handle owes nothing only because listening, connecting and shutting down imply the pin,
  and because a pinned object cannot reach count zero; the tail of `read_cb` is safe only
  because a handle with an error callback is pinned until its close callback, which
  cannot come while another callback runs; a handle is closed once only because the
  closing flag and libuv's closing states agree. `IInv` joins these facts, and also holds
  in TLC on the instance of `tcp_one`.
* **`UVTcp_proofs`**, second half: `ImplementsHandleLife`. Each step of `UVTcp` changes what `HandleLife`
  sees of at most one handle (`accept()` creates one and leaves the listener as it was);
  the lemma `LifeStep` reduces the refinement to that handle, and each action is shown to
  be one of `Create`, `Use`, `StartClosing`, `Closed` or a stutter. The one step that is
  not local is the destruction of an object: it is `Goes` only because `IInv` makes the
  count that reaches zero mean neither held nor owed.
* **`UVPipe_proofs`** (its own `IInv`): `RefcountsAreExact`, `FreedHandlesOweNothing`,
  `ClosedOnce`, `CallablesAreOwned`, `DrainIsSafe`, `ImplementsHandleLife`. What UVPipe
  shares with UVTcp is proved once: the module instantiates `UVTcp_proofs` over `pipe`
  and cites its lemmas. What it adds to UVTcp's invariant is about `attachIPC()`, which
  takes no notice of the handle's state (`AttachIPCInv`: what libuv owed the handle it
  still owes it, and one being closed is not read): a handle that reads the parent's pipe
  is pinned and started and has no borrowed connect callback. (`CallablesAreOwned` is
  about the connect, error and shutdown slots, here as in UVTcp: the read and write slots
  may be borrowed after a partly parsed `setCallback()`.) This is preserved because a
  started handle refuses `listen()`, the one call that leaves in the connect slot a
  callback it does not own after it failed, and because only `pipe_close_cb` takes the
  pin, which cannot run between two turns of the loop in `ipc_read_cb`; that is also why
  the loop drains a living handle when the script closes and drops it from inside.
* **`UVSSL_proofs`** (`SInv`): `TypeCorrect`, `RefcountsAreExact`,
  `FreedHandlesOweNothing`, `TailIsSafe`, `DataIsApproved`, `PinsGoOnce`: all the
  properties of `ssl`. The lemmas on counts are `UVTcp_proofs`', which are stated for any
  number `n` of references held from elsewhere: here by the running callback and by the
  handshake callback. UVTcp's invariant itself does not hold, for a failed lookup takes
  the pin of a handle that may be owed to libuv; `SInv` has the pin cover what is owed
  (`Owed`: a listener, a connect, a shutdown, and before the close callback a lookup or
  an error callback) **unless a lookup has failed**, and follows `read_cb` through its
  callbacks (`Advances`: a handle pinned when it began stays pinned; `Answered`: a session
  that is done and not accepted is closed or has its answer under way). Data reaches
  the script only after an accepted handshake because `read_cb` leaves `HandshakeReturn`
  for its read loop with a *yes* alone, and a *no* closes the handle, which no session is
  read on again. `FreedHandlesOweNothing` and `TailIsSafe` say no more than that: a lookup
  of a handle that was closed, or one of whose lookups has failed, may find it freed
  (`uv_ssl.c:229`), and `read_cb` of an accepted connection nobody pinned may go on after
  the object has gone (`Abandoned`).
* **`UVUdp_proofs`** (`UInv`): `TypeCorrect`, `RefcountsAreExact`, `ReceiversAreOwned`,
  `ReceiversKeepTheirCallbacks`. `setCallback()` takes the pin's reference without looking
  whether there is one, and the close callback and the destructor give it back: that this
  balances rests on the pin and `READ_START` coming and going together, the heart of
  `UInv`.
* **`UVWorker_proofs`** (`WInv`): `TypeCorrect`, `RefcountsAreExact`, `ExitsFindTheirWorker`.
  No flag records the reference a worker holds to itself; `WInv` finds it in the state
  of the child, and in the fact that a close callback runs only for a child that has
  exited and has not been closed.

* **`UVWatchers_proofs`** (`WatchersInv`): `TypeCorrect`, `ActiveHandlesAreLive`,
  `TimerRefcountsAreExact`, `ActiveHandlesHaveCallbacks`. A timer's count is exact, its
  restarts included, so a started one cannot reach zero. Of idle and signal handles the
  invariant says only that a live one's count is positive, which is all there is to say
  after a `stop()`; that they are disarmed in time follows from `active` implying `start`,
  which the destructors test. A callback of one class leaves the counts of the others
  alone because the three classes are disjoint (`OtherRuns`).
* **`UVResolver_proofs`** (`RInv`): `TypeCorrect`, `RefcountsAreExact`,
  `PendingRequestsAreLive`. A count is what the script holds plus the sizes of sets of
  holders: the resolvers on a loop, the pending requests of a resolver and those whose
  closure captures it. A step is examined by the one element by which it changes such a
  set. An answered request may free its resolver, which drops its loop, so the counts of
  both have to be in the invariant.

* **`SSLVerify_proofs`** (`VInv`): `AnswersAreCovers`. Most of it is about sequences and
  not about steps: `strchr` and `strstr` find a least position because the naturals are
  well-founded, and the star rule, stated in the code with two searches and a comparison
  of pointers and in `Covers` with a cut of the host's name, is one rule because the text
  after the star begins with a dot: a place where it occurs at the first dot of the name
  is such a cut (`FoundIsCut`), and such a cut makes it the first occurrence (`CutIsFound`).
  `VInv` is the loop: what it has passed did not match, and a *no* comes at its end. The
  run compares the two on short texts; the theorem has no bound.

Only model-checked: the three violations, and liveness (`PinReleased`,
`ClientsReleased`), which is beyond the prover. Every invariant and every action property
of the passing runs is stated by a theorem, and so is the refinement.

## 5. Not modelled, and the plan

* `setCert()` and `setPrivateKey()` of UVSSL, the choice of a TLS version and the
  number of contexts: they hand data to OpenSSL and change nothing the other methods
  look at.
* UVProcess's constructor and the conversion of `spawn()`'s arguments.
* `run`, `stop`, `alive` and the clock of UVLoop: calls straight into libuv; of a loop
  object, only its life under the resolvers is modelled. That a destroyed loop may still
  have handles in it (`uv_loop.c:29`) is a hazard without a property.
* UVUtil and the extension's entry: no state.
* Contents and formatting of addresses, data and messages, the memory of requests and
  buffers, the end of the PHP request.

What remains worth doing, in this order: the handle classes and a loop object in one
module; an echo server as the tests write it, with liveness from a connection to its
release.
