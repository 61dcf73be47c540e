-------------------------- MODULE UVWorker_proofs --------------------------
(***************************************************************************)
(* Safety of UVWorker for every set of workers, connections and closures   *)
(* and every bound.  No flag records the reference a worker holds to       *)
(* itself: the invariant finds it in the state of the child, and in the    *)
(* fact that the close callback runs for a child that has exited only.     *)
(***************************************************************************)
EXTENDS UVWorker, TLAPS

----------------------------------------------------------------------------
(* The inductive invariant.                                                 *)

Runs(w) == IF running = w THEN 1 ELSE 0

\* The reference a worker holds to itself.
Own(r) == IF r.child \in {"running", "exited"} THEN 1 ELSE 0

\* n: how many references the running callback holds.
Kept(r, n) ==
    /\ r \in Resources /\ n \in {0, 1}
    /\ r.obj = "live" => r.rc > 0 /\ r.rc = r.script + n + Own(r) + Ref(r.slot)
    /\ r.obj # "live" => r.script = 0 /\ n = 0 /\ Own(r) = 0
    /\ n = 1 => r.child = "exited"

WInv ==
    /\ worker \in [Workers -> Resources]
    /\ conn \in [Connections -> Places]
    /\ running \in Workers \cup {NoWorker}
    /\ \A w \in Workers : Kept(worker[w], Runs(w))

----------------------------------------------------------------------------
(* One worker at a time.                                                    *)

LEMMA RefBit == \A f : Ref(f) \in {0, 1}
BY DEF Ref

LEMMA OwnBit == \A r : Own(r) \in {0, 1}
BY DEF Own

\* A step that changes one worker keeps the invariant if it keeps that worker.
LEMMA StepInv ==
    ASSUME WInv, NEW w \in Workers, NEW q, Update(w, q),
           conn' \in [Connections -> Places],
           running' \in Workers \cup {NoWorker},
           \A v \in Workers \ {w} : Runs(v)' = Runs(v),
           Kept(q, Runs(w)')
    PROVE  WInv'
<1>1. worker' = [worker EXCEPT ![w] = q] /\ q \in Resources
  BY DEF Update, Kept
<1>2. worker' \in [Workers -> Resources]
  BY <1>1 DEF WInv
<1>3. ASSUME NEW v \in Workers PROVE Kept(worker'[v], Runs(v)')
  BY <1>1 DEF WInv
<1> QED
  BY <1>2, <1>3 DEF WInv

\* The same, when neither the connections nor the callback change.
LEMMA CallInv ==
    ASSUME WInv, NEW w \in Workers, NEW q, Update(w, q), UNCHANGED running,
           UNCHANGED conn, Kept(q, Runs(w))
    PROVE  WInv'
<1>1. conn' \in [Connections -> Places] /\ running' \in Workers \cup {NoWorker}
  BY DEF WInv
<1>2. \A v \in Workers : Runs(v)' = Runs(v)
  BY DEF Runs
<1>3. Kept(q, Runs(w)')
  BY <1>2
<1> QED
  BY <1>1, <1>2, <1>3, StepInv

\* What a method or an event finds.
LEMMA Found ==
    ASSUME WInv, NEW w \in Workers, worker[w].obj = "live"
    PROVE  /\ worker[w] \in Resources /\ Kept(worker[w], Runs(w))
           /\ worker[w].rc \in Nat /\ worker[w].script \in Nat
           /\ worker[w].rc = worker[w].script + Runs(w) + Own(worker[w]) + Ref(worker[w].slot)
           /\ Runs(w) \in {0, 1}
BY DEF WInv, Kept, Resources

\* Only the child and the connections passed to it change.
LEMMA SameCount ==
    ASSUME NEW r, NEW n, Kept(r, n), NEW q \in Resources,
           q.obj = r.obj, q.rc = r.rc, q.script = r.script, q.slot = r.slot,
           Own(q) = Own(r), n = 1 => q.child = "exited"
    PROVE  Kept(q, n)
BY DEF Kept

\* Giving up a reference: r counts one more than its holders.
LEMMA DerefKept ==
    ASSUME NEW r \in Resources, NEW n \in {0, 1}, r.obj = "live", r.rc > 0,
           r.rc = r.script + n + Own(r) + Ref(r.slot) + 1,
           n = 1 => r.child = "exited"
    PROVE  /\ Kept(Deref(r), n)
           /\ Own(r) + n > 0 => Deref(r) = [r EXCEPT !.rc = @ - 1]
<1>1. r.rc \in Nat /\ r.script \in Nat
  BY DEF Resources
<1>2. Own(r) \in {0, 1} /\ Ref(r.slot) \in {0, 1}
  BY RefBit, OwnBit
<1>3. CASE r.rc = 1
  <2>1. r.script = 0 /\ n = 0 /\ Own(r) = 0
    BY <1>1, <1>2, <1>3
  <2>2. Deref(r) = Free(r)
    BY <1>3 DEF Deref
  <2>3. Free(r) \in Resources /\ Free(r).obj = "freed" /\ Free(r).script = 0
        /\ Free(r).child = r.child
    BY DEF Free, Resources
  <2>4. Own(Free(r)) = Own(r)
    BY <2>3 DEF Own
  <2> QED
    BY <2>1, <2>2, <2>3, <2>4 DEF Kept
<1>4. CASE r.rc # 1
  <2> DEFINE q == [r EXCEPT !.rc = @ - 1]
  <2>1. r.rc - 1 \in Nat /\ r.rc - 1 > 0
    BY <1>1, <1>4
  <2>2. Deref(r) = q
    BY <1>4 DEF Deref
  <2>3. /\ q \in Resources /\ q.rc = r.rc - 1 /\ q.obj = r.obj /\ q.script = r.script
        /\ q.slot = r.slot /\ q.child = r.child
    BY <2>1 DEF Resources
  <2> HIDE DEF q
  <2>4. Own(q) = Own(r)
    BY <2>3 DEF Own
  <2>5. Kept(q, n)
    BY <1>1, <1>2, <2>1, <2>3, <2>4 DEF Kept
  <2> QED
    BY <2>2, <2>5 DEF q
<1> QED
  BY <1>3, <1>4

\* uv_close, and the worker's reference to itself goes.
LEMMA CloseHandleKept ==
    ASSUME NEW r \in Resources, r.obj = "live", r.child = "exited", r.rc > 0,
           r.rc = r.script + 0 + Own(r) + Ref(r.slot)
    PROVE  Kept(CloseHandle(r), 0)
<1> DEFINE q == [r EXCEPT !.child = "closing"]
<1>1. /\ q \in Resources /\ q.obj = "live" /\ q.rc = r.rc /\ q.script = r.script
      /\ q.slot = r.slot /\ q.child = "closing"
  BY DEF Resources
<1>2. CloseHandle(r) = Deref(q)
  BY DEF CloseHandle
<1> HIDE DEF q
<1>3. Own(r) = 1 /\ Own(q) = 0
  BY <1>1 DEF Own
<1>4. r.rc \in Nat /\ r.script \in Nat /\ Ref(r.slot) \in {0, 1}
  BY RefBit DEF Resources
<1>5. q.rc = q.script + 0 + Own(q) + Ref(q.slot) + 1
  BY <1>1, <1>3, <1>4
<1> QED
  BY <1>1, <1>2, <1>5, DerefKept

----------------------------------------------------------------------------
(* The invariant is preserved by each action.                               *)

LEMMA InitInv == Init => WInv
<1> SUFFICES ASSUME Init PROVE WInv
  OBVIOUS
<1>1. Blank \in Resources
  BY DEF Blank, Resources
<1>2. Kept(Blank, 0)
  BY <1>1 DEF Kept, Blank, Own
<1> QED
  BY <1>1, <1>2, NoWorkerAssumption DEF Init, WInv, Runs, Places

LEMMA SpawnInv == ASSUME WInv, NEW w \in Workers, Spawn(w) PROVE WInv'
<1> DEFINE q == [Blank EXCEPT !.obj = "live", !.rc = 2, !.script = 1, !.child = "running"]
           e == [Blank EXCEPT !.obj = "lost", !.rc = 1]
<1>1. Runs(w) = 0
  BY DEF WInv, Kept, Spawn
<1>2. q \in Resources /\ e \in Resources
  <2>1. <<>> \in Seq(Connections)
    OBVIOUS
  <2> QED
    BY <2>1 DEF Blank, Resources
<1>3. Kept(q, 0)
  BY <1>2 DEF Kept, Blank, Own, Ref
<1>4. Kept(e, 0)
  BY <1>2 DEF Kept, Blank, Own
<1> HIDE DEF q, e
<1>5. Update(w, q) \/ Update(w, e)
  BY DEF Spawn, MakeWorker, q, e
<1> QED
  BY <1>1, <1>3, <1>4, <1>5, CallInv DEF Spawn

LEMMA SetCloseCallbackInv == ASSUME WInv, NEW w \in Workers, SetCloseCallback(w) PROVE WInv'
<1> DEFINE r == worker[w]
<1>1. PICK f \in Closures \cup {"null"} :
        Update(w, [r EXCEPT !.slot = f, !.rc = (@ + Ref(f)) - Ref(r.slot)])
  BY DEF SetCloseCallback
<1> DEFINE c == (r.rc + Ref(f)) - Ref(r.slot)
           q == [r EXCEPT !.slot = f, !.rc = c]
<1>2. /\ r \in Resources /\ Kept(r, Runs(w)) /\ r.rc \in Nat /\ r.script \in Nat
      /\ r.rc = r.script + Runs(w) + Own(r) + Ref(r.slot) /\ Runs(w) \in {0, 1}
      /\ r.script + Runs(w) > 0 /\ r.obj = "live"
  BY Found DEF SetCloseCallback, CanCall, Runs
<1>3. Ref(f) \in {0, 1} /\ Ref(r.slot) \in {0, 1} /\ Own(r) \in {0, 1}
  BY RefBit, OwnBit
<1>4. c = r.script + Runs(w) + Own(r) + Ref(f) /\ c \in Nat /\ c > 0
  BY <1>2, <1>3
<1>5. f \in {"null", "plain", "self"}
  BY ClosuresAssumption
<1> HIDE DEF c
<1>6. /\ q \in Resources /\ q.obj = "live" /\ q.rc = c /\ q.script = r.script
      /\ q.slot = f /\ q.child = r.child
  BY <1>2, <1>4, <1>5 DEF Resources
<1>7. Update(w, q)
  BY <1>1, <1>2 DEF c, Resources
<1> HIDE DEF q
<1>8. Own(q) = Own(r)
  BY <1>6 DEF Own
<1>9. Kept(q, Runs(w))
  BY <1>2, <1>4, <1>6, <1>8 DEF Kept
<1> QED
  BY <1>7, <1>9, CallInv DEF SetCloseCallback

\* kill() and the exit of a child by itself.
LEMMA ExitInv == ASSUME WInv, NEW w \in Workers, Kill(w) \/ Exit(w) PROVE WInv'
<1> DEFINE r == worker[w]
           q == [r EXCEPT !.child = "exited"]
<1>1. r \in Resources /\ Kept(r, Runs(w)) /\ r.child = "running"
  BY DEF WInv, Kill, Exit
<1>2. /\ q \in Resources /\ q.obj = r.obj /\ q.rc = r.rc /\ q.script = r.script
      /\ q.slot = r.slot /\ q.child = "exited"
  BY <1>1 DEF Resources
<1>3. Update(w, q) /\ UNCHANGED conn /\ UNCHANGED running
  BY DEF Kill, Exit
<1> HIDE DEF q
<1>4. Kept(q, Runs(w))
  BY <1>1, <1>2, SameCount DEF Own
<1> QED
  BY <1>3, <1>4, CallInv

LEMMA AttachInv == ASSUME WInv, NEW w \in Workers, Attach(w) PROVE WInv'
<1> DEFINE r == worker[w]
<1>1. PICK c \in Connections :
        /\ conn' = [conn EXCEPT ![c] = "open"]
        /\ Update(w, [r EXCEPT !.passed = Append(@, c)])
  BY DEF Attach
<1> DEFINE q == [r EXCEPT !.passed = Append(@, c)]
<1>2. r \in Resources /\ Kept(r, Runs(w))
  BY DEF WInv
<1>3. Append(r.passed, c) \in Seq(Connections)
  BY <1>2 DEF Resources
<1>4. /\ q \in Resources /\ q.obj = r.obj /\ q.rc = r.rc /\ q.script = r.script
      /\ q.slot = r.slot /\ q.child = r.child
  BY <1>2, <1>3 DEF Resources
<1> HIDE DEF q
<1>5. Kept(q, Runs(w))
  BY <1>2, <1>4, SameCount DEF Own, Kept
<1>6. conn' \in [Connections -> Places] /\ running' = running
  BY <1>1 DEF WInv, Places, Attach
<1> QED
  BY <1>1, <1>5, <1>6, StepInv DEF q, WInv, Runs

LEMMA KeepInv == ASSUME WInv, NEW w \in Workers, Keep(w) PROVE WInv'
<1> DEFINE r == worker[w]
           q == [r EXCEPT !.rc = @ + 1, !.script = @ + 1]
<1>1. /\ r \in Resources /\ Kept(r, Runs(w)) /\ r.rc \in Nat /\ r.script \in Nat
      /\ r.rc = r.script + Runs(w) + Own(r) + Ref(r.slot) /\ Runs(w) \in {0, 1}
      /\ r.obj = "live"
  BY Found DEF Keep, CanCall
<1>2. /\ q \in Resources /\ q.obj = "live" /\ q.rc = r.rc + 1 /\ q.script = r.script + 1
      /\ q.slot = r.slot /\ q.child = r.child
  <2>1. r.rc + 1 \in Nat /\ r.script + 1 \in Nat
    BY <1>1
  <2> QED
    BY <1>1, <2>1 DEF Resources
<1>3. Update(w, q)
  BY DEF Keep
<1> HIDE DEF q
<1>4. Own(q) = Own(r) /\ Own(r) \in {0, 1} /\ Ref(r.slot) \in {0, 1}
  BY <1>2, RefBit, OwnBit DEF Own
<1>5. Kept(q, Runs(w))
  BY <1>1, <1>2, <1>4 DEF Kept
<1> QED
  BY <1>3, <1>5, CallInv DEF Keep

LEMMA DropInv == ASSUME WInv, NEW w \in Workers, Drop(w) PROVE WInv'
<1> DEFINE r == worker[w]
           q == [r EXCEPT !.script = @ - 1]
<1>1. /\ r \in Resources /\ Kept(r, Runs(w)) /\ r.rc \in Nat /\ r.script \in Nat
      /\ r.rc = r.script + Runs(w) + Own(r) + Ref(r.slot) /\ Runs(w) \in {0, 1}
      /\ r.obj = "live" /\ r.script > 0
  BY Found DEF Drop
<1>2. /\ q \in Resources /\ q.obj = "live" /\ q.rc = r.rc /\ q.script = r.script - 1
      /\ q.slot = r.slot /\ q.child = r.child
  BY <1>1 DEF Resources
<1>3. Update(w, Deref(q))
  BY DEF Drop
<1> HIDE DEF q
<1>4. Own(q) = Own(r) /\ Own(r) \in {0, 1} /\ Ref(r.slot) \in {0, 1}
  BY <1>2, RefBit, OwnBit DEF Own
<1>5. q.rc > 0 /\ q.rc = q.script + Runs(w) + Own(q) + Ref(q.slot) + 1
  BY <1>1, <1>2, <1>4
<1>6. Kept(Deref(q), Runs(w))
  BY <1>1, <1>2, <1>5, DerefKept DEF Kept
<1> QED
  BY <1>3, <1>6, CallInv DEF Drop

\* The collector takes no worker whose child has not been closed.
LEMMA CollectInv == ASSUME WInv, NEW w \in Workers, Collect(w) PROVE WInv'
<1> DEFINE r == worker[w]
<1>1. /\ r \in Resources /\ Kept(r, Runs(w)) /\ r.rc \in Nat /\ r.script \in Nat
      /\ r.rc = r.script + Runs(w) + Own(r) + Ref(r.slot) /\ Runs(w) \in {0, 1}
  BY Found DEF Collect
<1>2. Own(r) = 0 /\ Runs(w) = 0
  BY <1>1, RefBit, OwnBit DEF Collect
<1>3. /\ Free(r) \in Resources /\ Free(r).obj = "freed" /\ Free(r).script = 0
      /\ Free(r).child = r.child
  BY <1>1 DEF Free, Resources
<1>4. Kept(Free(r), Runs(w))
  BY <1>2, <1>3 DEF Kept, Own
<1> QED
  BY <1>4, CallInv DEF Collect

\* The child has exited: its worker is there, whatever the script dropped.
LEMMA CloseProcessHandleInv ==
    ASSUME WInv, NEW w \in Workers, CloseProcessHandle(w) PROVE WInv'
<1> DEFINE r == worker[w]
           q == [r EXCEPT !.rc = @ + 1]
<1>1. /\ r \in Resources /\ Kept(r, Runs(w)) /\ r.rc \in Nat /\ r.script \in Nat
      /\ r.rc = r.script + Runs(w) + Own(r) + Ref(r.slot)
      /\ r.obj = "live" /\ r.child = "exited" /\ running = NoWorker
  BY Found DEF CloseProcessHandle, LoopTurn
<1>2. \A v \in Workers : Runs(v) = 0
  BY <1>1, NoWorkerAssumption DEF Runs
<1>3. conn' \in [Connections -> Places]
  BY DEF WInv, CloseProcessHandle
<1>4. CASE r.slot = "null"
  <2>1. Update(w, CloseHandle(r)) /\ UNCHANGED running /\ UNCHANGED conn
    BY <1>4 DEF CloseProcessHandle
  <2>2. Kept(CloseHandle(r), 0)
    BY <1>1, <1>2, CloseHandleKept DEF Kept
  <2> QED
    BY <1>2, <2>1, <2>2, CallInv
<1>5. CASE r.slot # "null"
  <2>1. Update(w, q) /\ running' = w
    BY <1>5 DEF CloseProcessHandle
  <2>2. /\ q \in Resources /\ q.obj = "live" /\ q.rc = r.rc + 1 /\ q.script = r.script
        /\ q.slot = r.slot /\ q.child = "exited"
    BY <1>1 DEF Resources
  <2> HIDE DEF q
  <2>3. Own(q) = Own(r) /\ Own(r) \in {0, 1} /\ Ref(r.slot) \in {0, 1}
    BY <1>1, <2>2, RefBit, OwnBit DEF Own
  <2>4. Kept(q, 1)
    BY <1>1, <1>2, <2>2, <2>3 DEF Kept
  <2>5. \A v \in Workers : Runs(v)' = IF v = w THEN 1 ELSE 0
    BY <2>1 DEF Runs
  <2> QED
    BY <1>2, <1>3, <2>1, <2>4, <2>5, StepInv
<1> QED
  BY <1>4, <1>5

\* The close callback returns: its argument goes, then the worker's own reference.
LEMMA ReturnInv == ASSUME WInv, Return PROVE WInv'
<1> DEFINE w == running
           r == worker[w]
<1>1. w \in Workers /\ Runs(w) = 1 /\ (\A v \in Workers \ {w} : Runs(v) = 0)
  BY DEF WInv, Return, Runs
<1>2. r.obj = "live" /\ r.child = "exited" /\ Own(r) = 1
  BY <1>1 DEF WInv, Kept, Own
<1>3. /\ r \in Resources /\ r.rc \in Nat /\ r.script \in Nat /\ r.rc > 0
      /\ r.rc = r.script + 1 + Own(r) + Ref(r.slot)
  BY <1>1, <1>2, Found DEF Kept
<1>4. Ref(r.slot) \in {0, 1}
  BY RefBit
<1> DEFINE d == Deref(r)
<1>5. d = [r EXCEPT !.rc = @ - 1]
  <2>1. r.rc = r.script + 0 + Own(r) + Ref(r.slot) + 1
    BY <1>2, <1>3, <1>4
  <2> QED
    BY <1>2, <1>3, <2>1, DerefKept
<1>6. r.rc - 1 \in Nat /\ r.rc - 1 > 0
  BY <1>2, <1>3, <1>4
<1>7. /\ d \in Resources /\ d.obj = "live" /\ d.rc = r.rc - 1 /\ d.script = r.script
      /\ d.slot = r.slot /\ d.child = "exited"
  BY <1>2, <1>3, <1>5, <1>6 DEF Resources
<1> HIDE DEF d
<1>8. d.rc = d.script + 0 + Own(d) + Ref(d.slot)
  BY <1>2, <1>3, <1>4, <1>7 DEF Own
<1>9. Kept(CloseHandle(d), 0)
  BY <1>6, <1>7, <1>8, CloseHandleKept
<1>10. Update(w, CloseHandle(d)) /\ running' = NoWorker /\ UNCHANGED conn
  BY DEF Return, d
<1>11. \A v \in Workers : Runs(v)' = 0
  BY <1>10, NoWorkerAssumption DEF Runs
<1> QED
  BY <1>1, <1>9, <1>10, <1>11, StepInv DEF WInv

LEMMA ProcessClosedInv == ASSUME WInv, NEW w \in Workers, ProcessClosed(w) PROVE WInv'
<1> DEFINE r == worker[w]
           q == [r EXCEPT !.child = "closed"]
<1>1. r \in Resources /\ Kept(r, Runs(w)) /\ r.child = "closing"
  BY DEF WInv, ProcessClosed
<1>2. /\ q \in Resources /\ q.obj = r.obj /\ q.rc = r.rc /\ q.script = r.script
      /\ q.slot = r.slot /\ q.child = "closed"
  BY <1>1 DEF Resources
<1>3. Update(w, q) /\ UNCHANGED conn /\ UNCHANGED running
  BY DEF ProcessClosed
<1> HIDE DEF q
<1>4. Kept(q, Runs(w))
  BY <1>1, <1>2, SameCount DEF Own, Kept
<1> QED
  BY <1>3, <1>4, CallInv

LEMMA Write2CbInv == ASSUME WInv, NEW w \in Workers, Write2Cb(w) PROVE WInv'
<1> DEFINE r == worker[w]
           q == [r EXCEPT !.passed = Tail(@)]
<1>1. r \in Resources /\ Kept(r, Runs(w)) /\ r.passed # <<>>
  BY DEF WInv, Write2Cb
<1>2. Tail(r.passed) \in Seq(Connections)
  BY <1>1 DEF Resources
<1>3. /\ q \in Resources /\ q.obj = r.obj /\ q.rc = r.rc /\ q.script = r.script
      /\ q.slot = r.slot /\ q.child = r.child
  BY <1>1, <1>2 DEF Resources
<1>4. Update(w, q) /\ running' = running
  BY DEF Write2Cb
<1> HIDE DEF q
<1>5. Kept(q, Runs(w))
  BY <1>1, <1>3, SameCount DEF Own, Kept
<1>6. conn' \in [Connections -> Places]
  BY DEF Write2Cb, WInv, Places
<1> QED
  BY <1>4, <1>5, <1>6, StepInv DEF WInv, Runs

\* Steps of a connection alone.
LEMMA ConnectionInv ==
    ASSUME WInv, NEW c \in Connections, Arrive(c) \/ AcceptHere(c) \/ TcpCloseCb(c)
    PROVE  WInv'
<1>1. conn' \in [Connections -> Places] /\ worker' = worker /\ running' = running
  BY DEF WInv, Arrive, AcceptHere, TcpCloseCb, Places
<1> QED
  BY <1>1 DEF WInv, Runs

LEMMA NextStep == ASSUME WInv, [Next]_vars PROVE WInv'
<1>1. CASE Return
  BY <1>1, ReturnInv
<1>2. ASSUME NEW w \in Workers,
             ScriptCall(w) \/ Exit(w) \/ CloseProcessHandle(w) \/ ProcessClosed(w) \/ Write2Cb(w)
      PROVE  WInv'
  BY <1>2, SpawnInv, SetCloseCallbackInv, ExitInv, AttachInv, KeepInv, DropInv, CollectInv,
     CloseProcessHandleInv, ProcessClosedInv, Write2CbInv DEF ScriptCall
<1>3. ASSUME NEW c \in Connections, Arrive(c) \/ AcceptHere(c) \/ TcpCloseCb(c) PROVE WInv'
  BY <1>3, ConnectionInv
<1>4. CASE UNCHANGED vars
  BY <1>4 DEF WInv, vars, Runs
<1> QED
  BY <1>1, <1>2, <1>3, <1>4 DEF Next

----------------------------------------------------------------------------
(* Theorems.                                                                *)

\* WInv holds in every state: a worker and its child are accounted for together.
THEOREM Invariance == Spec => []WInv
<1>1. WInv /\ [Next]_vars => WInv'
  BY NextStep
<1> QED
  BY <1>1, InitInv, PTL DEF Spec

\* Resources and connections keep their types; no reference count goes below zero.
THEOREM TypeCorrect == Spec => []TypeOK
<1>1. WInv => TypeOK
  BY DEF WInv, TypeOK
<1> QED
  BY <1>1, Invariance, PTL

\* A worker's count is exact: the reference spawn() takes is given back once, at
\* the end of close_process_handle, in every order of exit, kill, callback and
\* dropped variables.
THEOREM RefcountsAreExact == Spec => []RefcountExact
<1>1. WInv => RefcountExact
  BY DEF WInv, Kept, RefcountExact, Own, Pinned, Runs
<1> QED
  BY <1>1, Invariance, PTL

\* Until its child's exit has been dealt with a worker is there, and the close
\* callback leaves enough of it for uv_close.
THEOREM ExitsFindTheirWorker == Spec => []ExitFindsWorker
<1>1. WInv => ExitFindsWorker
  <2> SUFFICES ASSUME WInv PROVE ExitFindsWorker
    OBVIOUS
  <2>1. \A w \in Workers : Pinned(w) => worker[w].obj = "live"
    BY DEF WInv, Kept, Own, Pinned
  <2>2. ASSUME running # NoWorker
        PROVE  worker[running].obj = "live" /\ worker[running].rc > 1
    <3>1. running \in Workers /\ Runs(running) = 1
      BY <2>2 DEF WInv, Runs
    <3>2. worker[running].obj = "live" /\ Own(worker[running]) = 1
      BY <3>1 DEF WInv, Kept, Own
    <3>3. /\ worker[running].rc \in Nat /\ worker[running].script \in Nat
          /\ worker[running].rc = worker[running].script + 1 + 1 + Ref(worker[running].slot)
      BY <3>1, <3>2, Found
    <3> QED
      BY <3>2, <3>3, RefBit
  <2> QED
    BY <2>1, <2>2 DEF ExitFindsWorker
<1> QED
  BY <1>1, Invariance, PTL

=============================================================================
