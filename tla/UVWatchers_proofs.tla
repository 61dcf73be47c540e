-------------------------- MODULE UVWatchers_proofs --------------------------
(***************************************************************************)
(* Safety of UVWatchers for every set of timers, idle and signal handles   *)
(* and closures and every bound.  A timer is kept by the count of its      *)
(* holders; nothing keeps the other two, and stop() gives back what it     *)
(* never took: that libuv still never calls back into freed memory rests   *)
(* on `active' implying `start', which the destructors test.               *)
(***************************************************************************)
EXTENDS UVWatchers, TLAPS

Runs(x) == IF running = x THEN 1 ELSE 0

----------------------------------------------------------------------------
(* The inductive invariant, class by class.                                 *)

StartRef(r) == IF r.start THEN 1 ELSE 0

Armed(r) == r.active => r.obj = "live" /\ r.start

Callable(r) == r.active /\ ~r.misused => r.slot \in Closures

\* n: how many references the running callback holds.
TimerInv(r, n) ==
    /\ r \in Timer!Resources /\ n \in {0, 1}
    /\ r.obj = "live" =>
           /\ r.rc > 0
           /\ r.rc = r.script + n + StartRef(r) + Timer!Captures(r.slot) + r.restarts
    /\ r.obj # "live" => n = 0
    /\ Armed(r) /\ Callable(r)

\* A count that is only positive: how far it is off depends on the calls of stop().
IdleInv(r) ==
    /\ r \in Idle!Resources
    /\ r.obj = "live" => r.rc > 0
    /\ Armed(r) /\ Callable(r)

SignalInv(r) ==
    /\ r \in Signal!Resources
    /\ r.obj = "live" => r.rc > 0
    /\ Armed(r) /\ Callable(r)
    /\ r.slot = "borrowed" => r.misused

TimersInv ==
    /\ timer \in [Timers -> Timer!Resources]
    /\ \A t \in Timers : TimerInv(timer[t], Runs(t))

IdlersInv ==
    /\ idle \in [Idlers -> Idle!Resources]
    /\ \A i \in Idlers : IdleInv(idle[i])

SignalsInv ==
    /\ signal \in [Signals -> Signal!Resources]
    /\ \A s \in Signals : SignalInv(signal[s])

WatchersInv ==
    /\ TimersInv /\ IdlersInv /\ SignalsInv
    /\ running \in Timers \cup Idlers \cup Signals \cup {None}

----------------------------------------------------------------------------
(* Timers.                                                                  *)

LEMMA TimerRefs ==
    /\ \A f : Timer!Captures(f) \in {0, 1}
    /\ \A r : StartRef(r) \in {0, 1}
BY DEF Timer!Captures, StartRef

\* One reference is given back: r counts one more than its holders.
LEMMA TimerDeref ==
    ASSUME NEW r \in Timer!Resources, NEW n \in {0, 1}, r.obj = "live", r.rc > 0,
           r.rc = r.script + n + StartRef(r) + Timer!Captures(r.slot) + r.restarts + 1,
           Armed(r), Callable(r)
    PROVE  TimerInv(Timer!Deref(r), n)
<1>1. r.rc \in Nat /\ r.script \in Nat /\ r.restarts \in Nat
  BY DEF Timer!Resources
<1>2. CASE r.rc = 1
  <2> DEFINE q == [r EXCEPT !.obj = "freed", !.rc = 0]
  <2>1. n = 0 /\ StartRef(r) = 0
    BY <1>1, <1>2, TimerRefs
  <2>2. ~r.start
    BY <2>1 DEF StartRef
  <2>3. Timer!Deref(r) = q
    BY <1>2, <2>2 DEF Timer!Deref, Timer!Free
  <2>4. q \in Timer!Resources /\ q.obj = "freed" /\ q.active = r.active
    BY DEF Timer!Resources
  <2> HIDE DEF q
  <2> QED
    BY <2>1, <2>2, <2>3, <2>4 DEF TimerInv, Armed, Callable
<1>3. CASE r.rc # 1
  <2> DEFINE q == [r EXCEPT !.rc = @ - 1]
  <2>1. r.rc - 1 \in Nat /\ r.rc - 1 > 0
    BY <1>1, <1>3
  <2>2. Timer!Deref(r) = q
    BY <1>3 DEF Timer!Deref
  <2>3. /\ q \in Timer!Resources /\ q.obj = r.obj /\ q.rc = r.rc - 1 /\ q.script = r.script
        /\ q.start = r.start /\ q.slot = r.slot /\ q.active = r.active
        /\ q.restarts = r.restarts /\ q.misused = r.misused
    BY <2>1 DEF Timer!Resources
  <2> HIDE DEF q
  <2>4. StartRef(q) = StartRef(r) /\ Armed(q) /\ Callable(q)
    BY <2>3 DEF StartRef, Armed, Callable
  <2> QED
    BY <1>1, <2>1, <2>2, <2>3, <2>4, TimerRefs DEF TimerInv
<1> QED
  BY <1>2, <1>3

\* A step that changes one timer keeps the invariant if it keeps that timer.
LEMMA TimerStep ==
    ASSUME TimersInv, NEW t \in Timers, NEW q, timer' = [timer EXCEPT ![t] = q],
           \A v \in Timers \ {t} : Runs(v)' = Runs(v), TimerInv(q, Runs(t)')
    PROVE  TimersInv'
<1>1. timer' \in [Timers -> Timer!Resources]
  BY DEF TimersInv, TimerInv
<1>2. ASSUME NEW v \in Timers PROVE TimerInv(timer'[v], Runs(v)')
  BY DEF TimersInv
<1> QED
  BY <1>1, <1>2 DEF TimersInv

LEMMA TimerCall ==
    ASSUME TimersInv, NEW t \in Timers, NEW q, Timer!Update(t, q), TimerInv(q, Runs(t))
    PROVE  TimersInv' /\ UNCHANGED running
<1>1. timer' = [timer EXCEPT ![t] = q] /\ UNCHANGED running
  BY DEF Timer!Update
<1>2. \A v : Runs(v)' = Runs(v)
  BY <1>1 DEF Runs
<1> QED
  BY <1>1, <1>2, TimerStep

\* What is known of a timer.
LEMMA TimerFacts ==
    ASSUME TimersInv, NEW t \in Timers
    PROVE  /\ timer[t] \in Timer!Resources /\ Runs(t) \in {0, 1}
           /\ timer[t].rc \in Nat /\ timer[t].script \in Nat /\ timer[t].restarts \in Nat
           /\ TimerInv(timer[t], Runs(t)) /\ Armed(timer[t]) /\ Callable(timer[t])
           /\ timer[t].obj = "live" =>
                  /\ timer[t].rc > 0
                  /\ timer[t].rc = timer[t].script + Runs(t) + StartRef(timer[t])
                                   + Timer!Captures(timer[t].slot) + timer[t].restarts
           /\ timer[t].obj # "live" => Runs(t) = 0
BY DEF TimersInv, TimerInv, Timer!Resources

\* The closure in the slot is replaced; whoever calls holds a reference.
LEMMA TimerSetSlot ==
    ASSUME NEW r \in Timer!Resources, NEW n \in {0, 1}, r.obj = "live", r.script + n > 0,
           r.rc = r.script + n + StartRef(r) + Timer!Captures(r.slot) + r.restarts,
           NEW f \in Timer!SlotValues
    PROVE  LET q == Timer!SetSlot(r, f) IN
           /\ q \in Timer!Resources /\ q.obj = r.obj /\ q.script = r.script /\ q.slot = f
           /\ q.start = r.start /\ q.active = r.active /\ q.restarts = r.restarts
           /\ q.repeat = r.repeat /\ q.misused = r.misused
           /\ q.rc = r.script + n + StartRef(r) + Timer!Captures(f) + r.restarts /\ q.rc > 0
<1> DEFINE k == (r.rc + Timer!Captures(f)) - Timer!Captures(r.slot)
           q == [r EXCEPT !.slot = f, !.rc = k]
<1>1. r.rc \in Nat /\ r.script \in Nat /\ r.restarts \in Nat
  BY DEF Timer!Resources
<1>2. /\ k = r.script + n + StartRef(r) + Timer!Captures(f) + r.restarts
      /\ k \in Nat /\ k > 0
  BY <1>1, TimerRefs
<1>3. Timer!SetSlot(r, f) = q
  BY DEF Timer!SetSlot, Timer!Resources
<1> HIDE DEF k
<1>4. /\ q \in Timer!Resources /\ q.obj = r.obj /\ q.script = r.script /\ q.slot = f
      /\ q.start = r.start /\ q.active = r.active /\ q.restarts = r.restarts
      /\ q.repeat = r.repeat /\ q.misused = r.misused /\ q.rc = k
  BY <1>2 DEF Timer!Resources
<1> HIDE DEF q
<1> QED
  BY <1>2, <1>3, <1>4

LEMMA TimerCaller ==
    ASSUME TimersInv, NEW t \in Timers, Timer!CanCall(t)
    PROVE  timer[t].obj = "live" /\ timer[t].script + Runs(t) > 0
BY TimerFacts DEF Timer!CanCall, Runs

LEMMA TimerNew == ASSUME TimersInv, NEW t \in Timers, Timer!New(t)
                  PROVE  TimersInv' /\ UNCHANGED running
<1> DEFINE q == [Timer!Blank EXCEPT !.obj = "live", !.rc = 1, !.script = 1]
<1>1. /\ q \in Timer!Resources /\ q.rc = 1 /\ q.script = 1 /\ q.restarts = 0
      /\ ~q.start /\ ~q.active /\ q.slot = "null"
  BY DEF Timer!Blank, Timer!Resources, Timer!SlotValues
<1>2. Timer!Update(t, q) /\ Runs(t) = 0
  BY TimerFacts DEF Timer!New
<1> HIDE DEF q
<1>3. TimerInv(q, 0)
  BY <1>1 DEF TimerInv, Armed, Callable, StartRef, Timer!Captures
<1> QED
  BY <1>2, <1>3, TimerCall

\* A failed start() leaves the timer armed without a callback it owns, and is
\* remembered; one that succeeds takes a reference, again when there is one.
LEMMA TimerStart == ASSUME TimersInv, NEW t \in Timers, Timer!Start(t)
                    PROVE  TimersInv' /\ UNCHANGED running
<1> DEFINE r == timer[t]
           n == Runs(t)
<1>1. /\ r \in Timer!Resources /\ n \in {0, 1} /\ r.obj = "live" /\ r.script + n > 0
      /\ r.rc = r.script + n + StartRef(r) + Timer!Captures(r.slot) + r.restarts
      /\ Armed(r) /\ r.script \in Nat /\ r.restarts \in Nat
  BY TimerFacts, TimerCaller DEF Timer!Start
<1>2. ASSUME NEW s \in {"null", "borrowed"},
             Timer!Update(t, [Timer!SetSlot(r, s) EXCEPT !.misused = TRUE])
      PROVE  TimersInv' /\ UNCHANGED running
  <2> DEFINE c == Timer!SetSlot(r, s)
             q == [c EXCEPT !.misused = TRUE]
  <2>1. s \in Timer!SlotValues
    BY DEF Timer!SlotValues
  <2>2. /\ c \in Timer!Resources /\ c.obj = r.obj /\ c.script = r.script /\ c.slot = s
        /\ c.start = r.start /\ c.active = r.active /\ c.restarts = r.restarts
        /\ c.rc = r.script + n + StartRef(r) + Timer!Captures(s) + r.restarts /\ c.rc > 0
    BY <1>1, <2>1, TimerSetSlot
  <2> HIDE DEF c
  <2>3. /\ q \in Timer!Resources /\ q.obj = c.obj /\ q.script = c.script /\ q.slot = s
        /\ q.start = c.start /\ q.active = c.active /\ q.restarts = c.restarts
        /\ q.rc = c.rc /\ q.misused
    BY <2>2 DEF Timer!Resources
  <2> HIDE DEF q
  <2>4. StartRef(q) = StartRef(r) /\ Armed(q) /\ Callable(q)
    BY <1>1, <2>2, <2>3 DEF StartRef, Armed, Callable
  <2>5. TimerInv(q, n)
    BY <1>1, <2>2, <2>3, <2>4 DEF TimerInv
  <2> QED
    BY <1>2, <2>5, TimerCall DEF q, c
<1>3. ASSUME NEW f \in Closures, NEW again \in BOOLEAN,
             Timer!Update(t, [Timer!SelfReference(Timer!SetSlot(r, f)) EXCEPT
                                 !.active = TRUE, !.repeat = again,
                                 !.restarts = IF r.start THEN @ + 1 ELSE @])
      PROVE  TimersInv' /\ UNCHANGED running
  <2> DEFINE c == Timer!SetSlot(r, f)
             d == [c EXCEPT !.start = TRUE, !.rc = @ + 1]
             k == IF r.start THEN d.restarts + 1 ELSE d.restarts
             q == [d EXCEPT !.active = TRUE, !.repeat = again, !.restarts = k]
  <2>1. f \in Timer!SlotValues
    BY ClosuresAssumption DEF Timer!SlotValues
  <2>2. /\ c \in Timer!Resources /\ c.obj = r.obj /\ c.script = r.script /\ c.slot = f
        /\ c.restarts = r.restarts
        /\ c.rc = r.script + n + StartRef(r) + Timer!Captures(f) + r.restarts /\ c.rc > 0
    BY <1>1, <2>1, TimerSetSlot
  <2>3. Timer!Update(t, q)
    BY <1>3 DEF Timer!SelfReference
  <2> HIDE DEF c
  <2>4. c.rc \in Nat /\ c.rc + 1 \in Nat /\ c.restarts \in Nat
    BY <2>2 DEF Timer!Resources
  <2>5. /\ d \in Timer!Resources /\ d.obj = c.obj /\ d.script = c.script /\ d.slot = f
        /\ d.start /\ d.restarts = c.restarts /\ d.rc = c.rc + 1
    BY <2>2, <2>4 DEF Timer!Resources
  <2> HIDE DEF d
  <2>6. k \in Nat /\ k + 1 = r.restarts + StartRef(r) + 1
    BY <1>1, <2>2, <2>5 DEF StartRef
  <2> HIDE DEF k
  <2>7. /\ q \in Timer!Resources /\ q.obj = d.obj /\ q.script = d.script /\ q.slot = f
        /\ q.start /\ q.restarts = k /\ q.rc = d.rc /\ q.active
    BY <2>5, <2>6 DEF Timer!Resources
  <2> HIDE DEF q
  <2>8. StartRef(q) = 1 /\ Armed(q) /\ Callable(q)
    BY <1>1, <2>2, <2>5, <2>7 DEF StartRef, Armed, Callable
  <2>9. TimerInv(q, n)
    BY <1>1, <2>2, <2>4, <2>5, <2>6, <2>7, <2>8, TimerRefs DEF TimerInv
  <2> QED
    BY <2>3, <2>9, TimerCall
<1> QED
  BY <1>2, <1>3 DEF Timer!Start

\* stop() disarms the timer and gives its reference back.
LEMMA TimerStop == ASSUME TimersInv, NEW t \in Timers, Timer!Stop(t)
                   PROVE  TimersInv' /\ UNCHANGED running
<1> DEFINE o == timer[t]
           n == Runs(t)
           r == [o EXCEPT !.start = FALSE, !.active = FALSE]
           c == [r EXCEPT !.slot = "null",
                          !.rc = (@ + Timer!Captures("null")) - Timer!Captures(r.slot)]
<1>1. /\ o \in Timer!Resources /\ n \in {0, 1} /\ o.obj = "live" /\ o.script + n > 0
      /\ o.rc = o.script + n + 1 + Timer!Captures(o.slot) + o.restarts
      /\ o.script \in Nat /\ o.restarts \in Nat /\ o.rc \in Nat
  BY TimerFacts, TimerCaller DEF Timer!Stop, StartRef
<1>2. Timer!Update(t, Timer!Deref(c))
  BY DEF Timer!Stop, Timer!Halt, Timer!SetSlot
<1>3. /\ r \in Timer!Resources /\ r.obj = o.obj /\ r.rc = o.rc /\ r.script = o.script
      /\ r.slot = o.slot /\ r.restarts = o.restarts /\ ~r.start /\ ~r.active
  BY <1>1 DEF Timer!Resources
<1> HIDE DEF r
<1> DEFINE k == (r.rc + Timer!Captures("null")) - Timer!Captures(r.slot)
<1>4. Timer!Captures("null") = 0
  BY DEF Timer!Captures
<1>5. k \in Nat /\ k = o.script + n + o.restarts + 1
  BY <1>1, <1>3, <1>4, TimerRefs
<1>6. c = [r EXCEPT !.slot = "null", !.rc = k]
  BY <1>3 DEF Timer!Resources
<1> HIDE DEF c, k
<1>7. /\ c \in Timer!Resources /\ c.obj = o.obj /\ c.rc = k /\ c.script = o.script
      /\ c.slot = "null" /\ c.restarts = o.restarts /\ ~c.start /\ ~c.active
  BY <1>3, <1>5, <1>6 DEF Timer!Resources, Timer!SlotValues
<1>8. StartRef(c) = 0 /\ Armed(c) /\ Callable(c)
  BY <1>7 DEF StartRef, Armed, Callable
<1>9. c.rc > 0 /\ c.rc = c.script + n + StartRef(c) + Timer!Captures(c.slot) + c.restarts + 1
  BY <1>1, <1>4, <1>5, <1>7, <1>8
<1>10. TimerInv(Timer!Deref(c), n)
  BY <1>1, <1>7, <1>8, <1>9, TimerDeref
<1> QED
  BY <1>2, <1>10, TimerCall

LEMMA TimerKeep == ASSUME TimersInv, NEW t \in Timers, Timer!Keep(t)
                   PROVE  TimersInv' /\ UNCHANGED running
<1> DEFINE r == timer[t]
           q == [r EXCEPT !.rc = @ + 1, !.script = @ + 1]
<1>1. r.obj = "live" /\ r.rc + 1 \in Nat /\ r.script + 1 \in Nat
  BY TimerFacts DEF Timer!Keep, Timer!CanCall
<1>2. /\ q \in Timer!Resources /\ q.obj = r.obj /\ q.rc = r.rc + 1 /\ q.script = r.script + 1
      /\ q.slot = r.slot /\ q.restarts = r.restarts /\ q.start = r.start
      /\ q.active = r.active /\ q.misused = r.misused
  BY <1>1, TimerFacts DEF Timer!Resources
<1>3. Timer!Update(t, q)
  BY DEF Timer!Keep
<1> HIDE DEF q
<1>4. StartRef(q) = StartRef(r) /\ Armed(q) /\ Callable(q)
  BY <1>2, TimerFacts DEF StartRef, Armed, Callable
<1>5. TimerInv(q, Runs(t))
  BY <1>1, <1>2, <1>4, TimerFacts, TimerRefs DEF TimerInv
<1> QED
  BY <1>3, <1>5, TimerCall

LEMMA TimerDrop == ASSUME TimersInv, NEW t \in Timers, Timer!Drop(t)
                   PROVE  TimersInv' /\ UNCHANGED running
<1> DEFINE r == timer[t]
           q == [r EXCEPT !.script = @ - 1]
<1>1. r.obj = "live" /\ r.script - 1 \in Nat
  BY TimerFacts DEF Timer!Drop
<1>2. /\ q \in Timer!Resources /\ q.obj = r.obj /\ q.rc = r.rc /\ q.script = r.script - 1
      /\ q.slot = r.slot /\ q.restarts = r.restarts /\ q.start = r.start
      /\ q.active = r.active /\ q.misused = r.misused
  BY <1>1, TimerFacts DEF Timer!Resources
<1>3. Timer!Update(t, Timer!Deref(q))
  BY DEF Timer!Drop
<1> HIDE DEF q
<1>4. StartRef(q) = StartRef(r) /\ Armed(q) /\ Callable(q)
  BY <1>2, TimerFacts DEF StartRef, Armed, Callable
<1>5. q.rc = q.script + Runs(t) + StartRef(q) + Timer!Captures(q.slot) + q.restarts + 1
  BY <1>1, <1>2, <1>4, TimerFacts, TimerRefs
<1>6. TimerInv(Timer!Deref(q), Runs(t))
  BY <1>1, <1>2, <1>4, <1>5, TimerFacts, TimerDeref
<1> QED
  BY <1>3, <1>6, TimerCall

\* The collector takes a timer only when nothing but its closure holds it: it is
\* not started, so not armed.
LEMMA TimerCollect == ASSUME TimersInv, NEW t \in Timers, Timer!Collect(t)
                      PROVE  TimersInv' /\ UNCHANGED running
<1> DEFINE r == timer[t]
           q == [r EXCEPT !.obj = "freed", !.rc = 0]
<1>1. Runs(t) = 0 /\ StartRef(r) = 0
  BY TimerFacts, TimerRefs DEF Timer!Collect
<1>2. ~r.start /\ ~r.active
  BY <1>1, TimerFacts DEF StartRef, Armed
<1>3. Timer!Update(t, q)
  BY <1>2 DEF Timer!Collect, Timer!Free
<1>4. q \in Timer!Resources /\ q.obj = "freed" /\ ~q.active
  BY <1>2, TimerFacts DEF Timer!Resources
<1> HIDE DEF q
<1>5. TimerInv(q, Runs(t))
  BY <1>1, <1>4 DEF TimerInv, Armed, Callable
<1> QED
  BY <1>3, <1>5, TimerCall

\* An armed timer is live: the callback's argument is one more reference.
LEMMA TimerFire == ASSUME TimersInv, NEW t \in Timers, Timer!Fire(t)
                   PROVE  /\ TimersInv' /\ running' \in {running, t}
                          /\ running' # running => running = None
<1> DEFINE o == timer[t]
           r == [o EXCEPT !.active = o.active /\ o.repeat]
           q == [r EXCEPT !.rc = @ + 1]
<1>1. o.obj = "live" /\ o.start /\ o.active /\ running = None
  BY TimerFacts DEF Timer!Fire, Armed
<1>2. /\ r \in Timer!Resources /\ r.obj = o.obj /\ r.rc = o.rc /\ r.script = o.script
      /\ r.slot = o.slot /\ r.restarts = o.restarts /\ r.start = o.start
      /\ r.misused = o.misused /\ (r.active => o.active)
  BY TimerFacts DEF Timer!Resources
<1>3. \/ Timer!Update(t, r)
      \/ timer' = [timer EXCEPT ![t] = q] /\ running' = t
  BY DEF Timer!Fire
<1> HIDE DEF r
<1>4. StartRef(r) = StartRef(o) /\ Armed(r) /\ Callable(r)
  BY <1>1, <1>2, TimerFacts DEF StartRef, Armed, Callable
<1>5. CASE Timer!Update(t, r)
  <2>1. TimerInv(r, Runs(t))
    BY <1>1, <1>2, <1>4, TimerFacts DEF TimerInv
  <2> QED
    BY <1>5, <2>1, TimerCall
<1>6. CASE timer' = [timer EXCEPT ![t] = q] /\ running' = t
  <2>1. r.rc + 1 \in Nat
    BY <1>2, TimerFacts
  <2>2. /\ q \in Timer!Resources /\ q.obj = r.obj /\ q.rc = r.rc + 1 /\ q.script = r.script
        /\ q.slot = r.slot /\ q.restarts = r.restarts /\ q.start = r.start
        /\ q.active = r.active /\ q.misused = r.misused
    BY <1>2, <2>1 DEF Timer!Resources
  <2> HIDE DEF q
  <2>3. StartRef(q) = StartRef(r) /\ Armed(q) /\ Callable(q)
    BY <1>4, <2>2 DEF StartRef, Armed, Callable
  <2>4. Runs(t)' = 1 /\ Runs(t) = 0 /\ \A v \in Timers \ {t} : Runs(v)' = Runs(v)
    BY <1>1, <1>6, ApartAssumption DEF Runs
  <2>5. TimerInv(q, 1)
    BY <1>1, <1>2, <1>4, <2>1, <2>2, <2>3, <2>4, TimerFacts, TimerRefs DEF TimerInv
  <2> QED
    BY <1>1, <1>6, <2>4, <2>5, TimerStep
<1> QED
  BY <1>3, <1>5, <1>6

LEMMA TimerReturn == ASSUME TimersInv, Timer!Return PROVE TimersInv' /\ running' = None
<1> PICK t \in Timers : t = running
  BY DEF Timer!Return
<1>1. /\ timer' = [timer EXCEPT ![t] = Timer!Deref(timer[t])] /\ running' = None
  BY DEF Timer!Return
<1>2. Runs(t) = 1 /\ Runs(t)' = 0 /\ \A v \in Timers \ {t} : Runs(v)' = Runs(v)
  BY <1>1, ApartAssumption DEF Runs
<1>3. /\ timer[t].obj = "live" /\ timer[t].rc > 0
      /\ timer[t].rc = timer[t].script + 0 + StartRef(timer[t])
                       + Timer!Captures(timer[t].slot) + timer[t].restarts + 1
  BY <1>2, TimerFacts, TimerRefs
<1>4. TimerInv(Timer!Deref(timer[t]), 0)
  BY <1>3, TimerFacts, TimerDeref
<1> QED
  BY <1>1, <1>2, <1>4, TimerStep

LEMMA TimerNextInv ==
    ASSUME TimersInv, Timer!Next
    PROVE  /\ TimersInv'
           /\ \/ running' = running
              \/ running = None /\ running' \in Timers
              \/ running \in Timers /\ running' = None
BY TimerNew, TimerStart, TimerStop, TimerKeep, TimerDrop, TimerCollect, TimerFire, TimerReturn
   DEF Timer!Next, Timer!Return

----------------------------------------------------------------------------
(* Idle handles.                                                            *)

\* What the steps of one call keep, before the callback is looked at.
IdleSound(r) == r \in Idle!Resources /\ (r.obj = "live" => r.rc > 0) /\ Armed(r)

\* One reference is given back; the destructor disarms what was armed.
LEMMA IdleDeref ==
    ASSUME NEW r, IdleSound(r), r.obj = "live"
    PROVE  LET q == Idle!Deref(r) IN
           /\ IdleSound(q) /\ q.misused = r.misused
           /\ q.active => r.active /\ q.slot = r.slot
<1>1. r \in Idle!Resources /\ r.rc \in Nat /\ r.rc > 0 /\ Armed(r)
  BY DEF IdleSound, Idle!Resources
<1>2. CASE r.rc = 1
  <2> DEFINE a == IF r.start THEN FALSE ELSE r.active
             q == [r EXCEPT !.obj = "freed", !.rc = 0, !.slot = "null", !.active = a]
  <2>1. ~a /\ a \in BOOLEAN
    BY <1>1 DEF Armed, Idle!Resources
  <2>2. Idle!Deref(r) = q
    BY <1>1, <1>2 DEF Idle!Deref, Idle!Free, Idle!Resources
  <2> HIDE DEF a
  <2>3. q \in Idle!Resources /\ q.obj = "freed" /\ ~q.active /\ q.misused = r.misused
    BY <1>1, <2>1 DEF Idle!Resources
  <2> HIDE DEF q
  <2> QED
    BY <2>2, <2>3 DEF IdleSound, Armed
<1>3. CASE r.rc # 1
  <2> DEFINE q == [r EXCEPT !.rc = @ - 1]
  <2>1. r.rc - 1 \in Nat /\ r.rc - 1 > 0
    BY <1>1, <1>3
  <2>2. Idle!Deref(r) = q
    BY <1>3 DEF Idle!Deref
  <2>3. /\ q \in Idle!Resources /\ q.obj = r.obj /\ q.rc = r.rc - 1 /\ q.start = r.start
        /\ q.slot = r.slot /\ q.active = r.active /\ q.misused = r.misused
    BY <1>1, <2>1 DEF Idle!Resources
  <2> HIDE DEF q
  <2> QED
    BY <1>1, <2>1, <2>2, <2>3 DEF IdleSound, Armed
<1> QED
  BY <1>2, <1>3

LEMMA IdleFreeSlot ==
    ASSUME NEW r, IdleSound(r), r.obj = "live"
    PROVE  IdleSound(Idle!FreeSlot(r))
<1> DEFINE q == [r EXCEPT !.slot = "null"]
<1>1. /\ q \in Idle!Resources /\ q.obj = r.obj /\ q.rc = r.rc /\ q.start = r.start
      /\ q.active = r.active
  BY DEF IdleSound, Idle!Resources
<1>2. Idle!FreeSlot(r) \in {q, Idle!Deref(q)}
  BY DEF Idle!FreeSlot
<1> HIDE DEF q
<1>3. IdleSound(q) /\ q.obj = "live"
  BY <1>1 DEF IdleSound, Armed
<1> QED
  BY <1>2, <1>3, IdleDeref

\* A step that changes one idle handle keeps the invariant if it keeps that handle.
LEMMA IdleStep ==
    ASSUME IdlersInv, NEW i \in Idlers, NEW q, idle' = [idle EXCEPT ![i] = q], IdleInv(q)
    PROVE  IdlersInv'
<1>1. idle' \in [Idlers -> Idle!Resources]
  BY DEF IdlersInv, IdleInv
<1>2. ASSUME NEW v \in Idlers PROVE IdleInv(idle'[v])
  BY DEF IdlersInv
<1> QED
  BY <1>1, <1>2 DEF IdlersInv

LEMMA IdleFacts ==
    ASSUME IdlersInv, NEW i \in Idlers
    PROVE  /\ IdleInv(idle[i]) /\ IdleSound(idle[i]) /\ Armed(idle[i]) /\ Callable(idle[i])
           /\ idle[i] \in Idle!Resources /\ idle[i].rc \in Nat /\ idle[i].script \in Nat
           /\ idle[i].obj = "live" => idle[i].rc > 0
BY DEF IdlersInv, IdleInv, IdleSound, Idle!Resources

LEMMA IdleNew == ASSUME IdlersInv, NEW i \in Idlers, Idle!New(i)
                 PROVE  IdlersInv' /\ UNCHANGED running
<1> DEFINE q == [Idle!Blank EXCEPT !.obj = "live", !.rc = 1, !.script = 1]
<1>1. q \in Idle!Resources /\ q.rc = 1 /\ ~q.active
  BY DEF Idle!Blank, Idle!Resources
<1>2. Idle!Update(i, q)
  BY DEF Idle!New
<1> HIDE DEF q
<1>3. IdleInv(q)
  BY <1>1 DEF IdleInv, Armed, Callable
<1> QED
  BY <1>2, <1>3, IdleStep DEF Idle!Update

\* A refused start() leaves the handle active with nothing to call, and is
\* remembered; one that succeeds finds the object live and keeps it so.
LEMMA IdleStart == ASSUME IdlersInv, NEW i \in Idlers, Idle!Start(i)
                   PROVE  IdlersInv' /\ UNCHANGED running
<1> DEFINE r == Idle!FreeSlot(idle[i])
<1>1. IdleSound(r)
  BY IdleFacts, IdleFreeSlot DEF Idle!Start, Idle!CanCall
<1>2. \/ Idle!Update(i, [r EXCEPT !.misused = TRUE])
      \/ /\ r.obj = "live"
         /\ \E f \in Closures :
               Idle!Update(i, [Idle!SetSlot(r, f) EXCEPT !.start = TRUE, !.active = TRUE])
  BY DEF Idle!Start
<1> HIDE DEF r
<1>3. CASE Idle!Update(i, [r EXCEPT !.misused = TRUE])
  <2> DEFINE q == [r EXCEPT !.misused = TRUE]
  <2>1. /\ q \in Idle!Resources /\ q.obj = r.obj /\ q.rc = r.rc /\ q.start = r.start
        /\ q.active = r.active /\ q.misused
    BY <1>1 DEF IdleSound, Idle!Resources
  <2>2. idle' = [idle EXCEPT ![i] = q] /\ UNCHANGED running
    BY <1>3 DEF Idle!Update
  <2> HIDE DEF q
  <2>3. IdleInv(q)
    BY <1>1, <2>1 DEF IdleSound, IdleInv, Armed, Callable
  <2> QED
    BY <2>2, <2>3, IdleStep
<1>4. ASSUME r.obj = "live", NEW f \in Closures,
             Idle!Update(i, [Idle!SetSlot(r, f) EXCEPT !.start = TRUE, !.active = TRUE])
      PROVE  IdlersInv' /\ UNCHANGED running
  <2> DEFINE k == r.rc + Idle!Captures(f)
             q == [r EXCEPT !.slot = f, !.rc = k, !.start = TRUE, !.active = TRUE]
  <2>1. k \in Nat /\ k > 0
    BY <1>1, <1>4 DEF IdleSound, Idle!Resources, Idle!Captures
  <2>2. idle' = [idle EXCEPT ![i] = q] /\ UNCHANGED running
    BY <1>1, <1>4 DEF Idle!Update, Idle!SetSlot, IdleSound, Idle!Resources
  <2> HIDE DEF k
  <2>3. /\ q \in Idle!Resources /\ q.obj = "live" /\ q.rc = k /\ q.start /\ q.slot = f
    BY <1>1, <1>4, <2>1, ClosuresAssumption DEF IdleSound, Idle!Resources
  <2> HIDE DEF q
  <2>4. IdleInv(q)
    BY <2>1, <2>3 DEF IdleInv, Armed, Callable
  <2> QED
    BY <2>2, <2>4, IdleStep
<1> QED
  BY <1>2, <1>3, <1>4

LEMMA IdleStop == ASSUME IdlersInv, NEW i \in Idlers, Idle!Stop(i)
                  PROVE  IdlersInv' /\ UNCHANGED running
<1> DEFINE q == [idle[i] EXCEPT !.start = FALSE, !.active = FALSE]
<1>1. /\ q \in Idle!Resources /\ q.obj = "live" /\ q.rc = idle[i].rc /\ ~q.active
  BY IdleFacts DEF Idle!Stop, Idle!CanCall, Idle!Resources
<1>2. idle' = [idle EXCEPT ![i] = Idle!Deref(q)] /\ UNCHANGED running
  BY DEF Idle!Stop, Idle!Update
<1> HIDE DEF q
<1>3. IdleSound(q) /\ q.obj = "live"
  BY <1>1, IdleFacts DEF IdleSound, Armed, Idle!Stop, Idle!CanCall
<1>4. IdleInv(Idle!Deref(q))
  BY <1>1, <1>3, IdleDeref DEF IdleSound, IdleInv, Callable
<1> QED
  BY <1>2, <1>4, IdleStep

LEMMA IdleKeep == ASSUME IdlersInv, NEW i \in Idlers, Idle!Keep(i)
                  PROVE  IdlersInv' /\ UNCHANGED running
<1> DEFINE r == idle[i]
           q == [r EXCEPT !.rc = @ + 1, !.script = @ + 1]
<1>1. r.rc + 1 \in Nat /\ r.rc + 1 > 0 /\ r.script + 1 \in Nat
  BY IdleFacts
<1>2. /\ q \in Idle!Resources /\ q.obj = r.obj /\ q.rc = r.rc + 1 /\ q.slot = r.slot
      /\ q.start = r.start /\ q.active = r.active /\ q.misused = r.misused
  BY <1>1, IdleFacts DEF Idle!Resources
<1>3. idle' = [idle EXCEPT ![i] = q] /\ UNCHANGED running
  BY DEF Idle!Keep, Idle!Update
<1> HIDE DEF q
<1>4. IdleInv(q)
  BY <1>1, <1>2, IdleFacts DEF IdleInv, Armed, Callable
<1> QED
  BY <1>3, <1>4, IdleStep

LEMMA IdleDrop == ASSUME IdlersInv, NEW i \in Idlers, Idle!Drop(i)
                  PROVE  IdlersInv' /\ UNCHANGED running
<1> DEFINE r == idle[i]
           q == [r EXCEPT !.script = @ - 1]
<1>1. r.obj = "live" /\ r.script - 1 \in Nat
  BY IdleFacts DEF Idle!Drop
<1>2. /\ q \in Idle!Resources /\ q.obj = r.obj /\ q.rc = r.rc /\ q.slot = r.slot
      /\ q.start = r.start /\ q.active = r.active /\ q.misused = r.misused
  BY <1>1, IdleFacts DEF Idle!Resources
<1>3. idle' = [idle EXCEPT ![i] = Idle!Deref(q)] /\ UNCHANGED running
  BY DEF Idle!Drop, Idle!Update
<1> HIDE DEF q
<1>4. IdleSound(q) /\ Callable(q)
  BY <1>2, IdleFacts DEF IdleSound, Armed, Callable
<1>5. IdleInv(Idle!Deref(q))
  BY <1>1, <1>2, <1>4, IdleDeref DEF IdleSound, IdleInv, Callable
<1> QED
  BY <1>3, <1>5, IdleStep

\* What the collector takes is freed, and disarmed if it was active.
LEMMA IdleCollect == ASSUME IdlersInv, NEW i \in Idlers, Idle!Collect(i)
                     PROVE  IdlersInv' /\ UNCHANGED running
<1> DEFINE a == IF idle[i].start THEN FALSE ELSE idle[i].active
           q == [idle[i] EXCEPT !.obj = "freed", !.rc = 0, !.slot = "null", !.active = a]
<1>1. ~a /\ a \in BOOLEAN
  BY IdleFacts DEF Armed, Idle!Resources
<1>2. idle' = [idle EXCEPT ![i] = q] /\ UNCHANGED running
  BY IdleFacts DEF Idle!Collect, Idle!Update, Idle!Free, Idle!Resources
<1> HIDE DEF a
<1>3. q \in Idle!Resources /\ q.obj = "freed" /\ ~q.active
  BY <1>1, IdleFacts DEF Idle!Resources
<1> HIDE DEF q
<1>4. IdleInv(q)
  BY <1>3 DEF IdleInv, Armed, Callable
<1> QED
  BY <1>2, <1>4, IdleStep

LEMMA IdleTurn == ASSUME IdlersInv, NEW i \in Idlers, Idle!Turn(i)
                  PROVE  /\ IdlersInv'
                         /\ \/ UNCHANGED running
                            \/ running = None /\ running' = i
<1> DEFINE r == idle[i]
           q == [r EXCEPT !.rc = @ + 1]
<1>1. CASE UNCHANGED Idle!vars
  BY <1>1 DEF Idle!vars, IdlersInv
<1>2. CASE idle' = [idle EXCEPT ![i].rc = @ + 1] /\ running' = i
  <2>1. r.rc + 1 \in Nat /\ r.rc + 1 > 0
    BY IdleFacts
  <2>2. /\ q \in Idle!Resources /\ q.obj = r.obj /\ q.rc = r.rc + 1 /\ q.slot = r.slot
        /\ q.start = r.start /\ q.active = r.active /\ q.misused = r.misused
    BY <2>1, IdleFacts DEF Idle!Resources
  <2>3. idle' = [idle EXCEPT ![i] = q] /\ running = None
    BY <1>2 DEF Idle!Turn
  <2> HIDE DEF q
  <2>4. IdleInv(q)
    BY <2>1, <2>2, IdleFacts DEF IdleInv, Armed, Callable
  <2> QED
    BY <1>2, <2>3, <2>4, IdleStep
<1> QED
  BY <1>1, <1>2 DEF Idle!Turn

LEMMA IdleReturn == ASSUME IdlersInv, Idle!Return PROVE IdlersInv' /\ running' = None
<1> PICK i \in Idlers : i = running
  BY DEF Idle!Return
<1> DEFINE q == IF idle[i].obj = "live" THEN Idle!Deref(idle[i]) ELSE idle[i]
<1>1. idle' = [idle EXCEPT ![i] = q] /\ running' = None
  BY DEF Idle!Return
<1>2. IdleInv(q)
  BY IdleFacts, IdleDeref DEF IdleSound, IdleInv, Callable
<1> HIDE DEF q
<1> QED
  BY <1>1, <1>2, IdleStep

LEMMA IdleNextInv ==
    ASSUME IdlersInv, Idle!Next
    PROVE  /\ IdlersInv'
           /\ \/ running' = running
              \/ running = None /\ running' \in Idlers
              \/ running \in Idlers /\ running' = None
BY IdleNew, IdleStart, IdleStop, IdleKeep, IdleDrop, IdleCollect, IdleTurn, IdleReturn
   DEF Idle!Next, Idle!Return

----------------------------------------------------------------------------
(* Signal handles.                                                          *)

\* What the steps of one call keep, before the callback is looked at.
SignalSound(r) ==
    /\ r \in Signal!Resources /\ (r.obj = "live" => r.rc > 0) /\ Armed(r)
    /\ r.slot = "borrowed" => r.misused

\* One reference is given back; the destructor disarms what was armed.
LEMMA SignalDeref ==
    ASSUME NEW r, SignalSound(r), r.obj = "live"
    PROVE  LET q == Signal!Deref(r) IN
           /\ SignalSound(q) /\ q.misused = r.misused
           /\ q.active => r.active /\ q.slot = r.slot
<1>1. /\ r \in Signal!Resources /\ r.rc \in Nat /\ r.rc > 0 /\ Armed(r)
      /\ r.slot = "borrowed" => r.misused
  BY DEF SignalSound, Signal!Resources
<1>2. CASE r.rc = 1
  <2> DEFINE u == IF r.start THEN [r EXCEPT !.active = FALSE, !.slot = "null"] ELSE r
             q == [u EXCEPT !.obj = "freed", !.rc = 0]
  <2>1. Signal!Deref(r) = q
    BY <1>2 DEF Signal!Deref, Signal!Free
  <2>2. /\ u \in Signal!Resources /\ ~u.active /\ u.misused = r.misused
        /\ u.slot \in {r.slot, "null"}
    BY <1>1 DEF Armed, Signal!Resources
  <2> HIDE DEF u
  <2>3. /\ q \in Signal!Resources /\ q.obj = "freed" /\ ~q.active
        /\ q.misused = r.misused /\ q.slot \in {r.slot, "null"}
    BY <2>2 DEF Signal!Resources
  <2> HIDE DEF q
  <2> QED
    BY <1>1, <2>1, <2>3 DEF SignalSound, Armed
<1>3. CASE r.rc # 1
  <2> DEFINE q == [r EXCEPT !.rc = @ - 1]
  <2>1. r.rc - 1 \in Nat /\ r.rc - 1 > 0
    BY <1>1, <1>3
  <2>2. Signal!Deref(r) = q
    BY <1>3 DEF Signal!Deref
  <2>3. /\ q \in Signal!Resources /\ q.obj = r.obj /\ q.rc = r.rc - 1 /\ q.start = r.start
        /\ q.slot = r.slot /\ q.active = r.active /\ q.misused = r.misused
    BY <1>1, <2>1 DEF Signal!Resources
  <2> HIDE DEF q
  <2> QED
    BY <1>1, <2>1, <2>2, <2>3 DEF SignalSound, Armed
<1> QED
  BY <1>2, <1>3

LEMMA SignalFreeSlot ==
    ASSUME NEW r, SignalSound(r), r.obj = "live"
    PROVE  LET u == Signal!FreeSlot(r) IN
           SignalSound(u) /\ (u.active => r.active) /\ (u.active => u.slot = "null")
<1> DEFINE q == [r EXCEPT !.slot = "null"]
<1>1. /\ q \in Signal!Resources /\ q.obj = r.obj /\ q.rc = r.rc /\ q.start = r.start
      /\ q.active = r.active /\ q.slot = "null"
  BY DEF SignalSound, Signal!Resources
<1>2. Signal!FreeSlot(r) \in {q, Signal!Deref(q)}
  BY DEF Signal!FreeSlot
<1> HIDE DEF q
<1>3. SignalSound(q) /\ q.obj = "live"
  BY <1>1 DEF SignalSound, Armed
<1> QED
  BY <1>1, <1>2, <1>3, SignalDeref

LEMMA SignalStep ==
    ASSUME SignalsInv, NEW s \in Signals, NEW q, signal' = [signal EXCEPT ![s] = q], SignalInv(q)
    PROVE  SignalsInv'
<1>1. signal' \in [Signals -> Signal!Resources]
  BY DEF SignalsInv, SignalInv
<1>2. ASSUME NEW v \in Signals PROVE SignalInv(signal'[v])
  BY DEF SignalsInv
<1> QED
  BY <1>1, <1>2 DEF SignalsInv

LEMMA SignalFacts ==
    ASSUME SignalsInv, NEW s \in Signals
    PROVE  /\ SignalInv(signal[s]) /\ SignalSound(signal[s])
           /\ Armed(signal[s]) /\ Callable(signal[s])
           /\ signal[s] \in Signal!Resources /\ signal[s].rc \in Nat /\ signal[s].script \in Nat
           /\ signal[s].slot = "borrowed" => signal[s].misused
           /\ signal[s].obj = "live" => signal[s].rc > 0
BY DEF SignalsInv, SignalInv, SignalSound, Signal!Resources

LEMMA SignalNew == ASSUME SignalsInv, NEW s \in Signals, Signal!New(s)
                   PROVE  SignalsInv' /\ UNCHANGED running
<1> DEFINE q == [Signal!Blank EXCEPT !.obj = "live", !.rc = 1, !.script = 1]
<1>1. q \in Signal!Resources /\ q.rc = 1 /\ ~q.active /\ q.slot = "null"
  BY DEF Signal!Blank, Signal!Resources
<1>2. Signal!Update(s, q)
  BY DEF Signal!New
<1> HIDE DEF q
<1>3. SignalInv(q)
  BY <1>1 DEF SignalInv, Armed, Callable
<1> QED
  BY <1>2, <1>3, SignalStep DEF Signal!Update

\* A start() that fails may leave libuv watching with nothing to call, or a callback
\* the object does not own, and is remembered; one that succeeds finds the object
\* live and keeps it so.
LEMMA SignalStart == ASSUME SignalsInv, NEW s \in Signals, Signal!Start(s)
                     PROVE  SignalsInv' /\ UNCHANGED running
<1> DEFINE r == Signal!FreeSlot(signal[s])
           bad == [r EXCEPT !.misused = TRUE]
<1>1. SignalSound(r)
  BY SignalFacts, SignalFreeSlot DEF Signal!Start, Signal!CanCall
<1>2. \/ Signal!Update(s, bad)
      \/ /\ r.obj = "live"
         /\ \/ Signal!Update(s, [bad EXCEPT !.slot = "borrowed"])
            \/ \E kept \in BOOLEAN :
                  Signal!Update(s, [bad EXCEPT !.start = TRUE, !.active = @ /\ kept])
            \/ \E f \in Closures :
                  Signal!Update(s, [Signal!SetSlot(r, f) EXCEPT !.start = TRUE, !.active = TRUE])
  BY DEF Signal!Start
<1> HIDE DEF r
<1>3. /\ bad \in Signal!Resources /\ bad.obj = r.obj /\ bad.rc = r.rc
      /\ bad.start = r.start /\ bad.active = r.active /\ bad.misused
  BY <1>1 DEF SignalSound, Signal!Resources
<1> HIDE DEF bad
<1>4. CASE Signal!Update(s, bad)
  <2>1. SignalInv(bad)
    BY <1>1, <1>3 DEF SignalSound, SignalInv, Armed, Callable
  <2> QED
    BY <1>4, <2>1, SignalStep DEF Signal!Update
<1>5. CASE r.obj = "live" /\ Signal!Update(s, [bad EXCEPT !.slot = "borrowed"])
  <2> DEFINE q == [bad EXCEPT !.slot = "borrowed"]
  <2>1. /\ q \in Signal!Resources /\ q.obj = bad.obj /\ q.rc = bad.rc
        /\ q.start = bad.start /\ q.active = bad.active /\ q.misused
    BY <1>3 DEF Signal!Resources
  <2>2. signal' = [signal EXCEPT ![s] = q] /\ UNCHANGED running
    BY <1>5 DEF Signal!Update
  <2> HIDE DEF q
  <2>3. SignalInv(q)
    BY <1>1, <1>3, <2>1 DEF SignalSound, SignalInv, Armed, Callable
  <2> QED
    BY <2>2, <2>3, SignalStep
<1>6. ASSUME r.obj = "live", NEW kept \in BOOLEAN,
             Signal!Update(s, [bad EXCEPT !.start = TRUE, !.active = @ /\ kept])
      PROVE  SignalsInv' /\ UNCHANGED running
  <2> DEFINE q == [bad EXCEPT !.start = TRUE, !.active = @ /\ kept]
  <2>1. /\ q \in Signal!Resources /\ q.obj = bad.obj /\ q.rc = bad.rc /\ q.start
        /\ (q.active => bad.active) /\ q.misused
    BY <1>3 DEF Signal!Resources
  <2>2. signal' = [signal EXCEPT ![s] = q] /\ UNCHANGED running
    BY <1>6 DEF Signal!Update
  <2> HIDE DEF q
  <2>3. SignalInv(q)
    BY <1>1, <1>3, <1>6, <2>1 DEF SignalSound, SignalInv, Armed, Callable
  <2> QED
    BY <2>2, <2>3, SignalStep
<1>7. ASSUME r.obj = "live", NEW f \in Closures,
             Signal!Update(s, [Signal!SetSlot(r, f) EXCEPT !.start = TRUE, !.active = TRUE])
      PROVE  SignalsInv' /\ UNCHANGED running
  <2> DEFINE k == r.rc + Signal!Captures(f)
             q == [r EXCEPT !.slot = f, !.rc = k, !.start = TRUE, !.active = TRUE]
  <2>1. k \in Nat /\ k > 0
    BY <1>1, <1>7 DEF SignalSound, Signal!Resources, Signal!Captures
  <2>2. signal' = [signal EXCEPT ![s] = q] /\ UNCHANGED running
    BY <1>1, <1>7 DEF Signal!Update, Signal!SetSlot, SignalSound, Signal!Resources
  <2> HIDE DEF k
  <2>3. /\ q \in Signal!Resources /\ q.obj = "live" /\ q.rc = k /\ q.start /\ q.slot = f
        /\ f # "borrowed"
    BY <1>1, <1>7, <2>1, ClosuresAssumption DEF SignalSound, Signal!Resources
  <2> HIDE DEF q
  <2>4. SignalInv(q)
    BY <2>1, <2>3 DEF SignalInv, Armed, Callable
  <2> QED
    BY <2>2, <2>4, SignalStep
<1> QED
  BY <1>2, <1>4, <1>5, <1>6, <1>7

\* stop() may free the object with its callback, or with the copy start() did not
\* count: it is disarmed before either.
LEMMA SignalStop == ASSUME SignalsInv, NEW s \in Signals, Signal!Stop(s)
                    PROVE  SignalsInv' /\ UNCHANGED running
<1> DEFINE o == [signal[s] EXCEPT !.start = FALSE, !.active = FALSE]
           r == Signal!FreeSlot(o)
           q == IF r.obj = "live" THEN Signal!Deref(r) ELSE r
<1>1. signal' = [signal EXCEPT ![s] = q] /\ UNCHANGED running
  BY DEF Signal!Stop, Signal!Update
<1>2. /\ o \in Signal!Resources /\ o.obj = "live" /\ o.rc = signal[s].rc /\ ~o.active
      /\ o.slot = signal[s].slot /\ o.misused = signal[s].misused
  BY SignalFacts DEF Signal!Stop, Signal!CanCall, Signal!Resources
<1> HIDE DEF o
<1>3. SignalSound(o)
  BY <1>2, SignalFacts DEF SignalSound, Armed, Signal!Stop, Signal!CanCall
<1>4. SignalSound(r) /\ ~r.active
  BY <1>2, <1>3, SignalFreeSlot
<1> HIDE DEF r
<1>5. SignalSound(q) /\ ~q.active
  BY <1>4, SignalDeref
<1> HIDE DEF q
<1>6. SignalInv(q)
  BY <1>5 DEF SignalSound, SignalInv, Callable
<1> QED
  BY <1>1, <1>6, SignalStep

LEMMA SignalKeep == ASSUME SignalsInv, NEW s \in Signals, Signal!Keep(s)
                    PROVE  SignalsInv' /\ UNCHANGED running
<1> DEFINE r == signal[s]
           q == [r EXCEPT !.rc = @ + 1, !.script = @ + 1]
<1>1. r.rc + 1 \in Nat /\ r.rc + 1 > 0 /\ r.script + 1 \in Nat
  BY SignalFacts
<1>2. /\ q \in Signal!Resources /\ q.obj = r.obj /\ q.rc = r.rc + 1 /\ q.slot = r.slot
      /\ q.start = r.start /\ q.active = r.active /\ q.misused = r.misused
  BY <1>1, SignalFacts DEF Signal!Resources
<1>3. signal' = [signal EXCEPT ![s] = q] /\ UNCHANGED running
  BY DEF Signal!Keep, Signal!Update
<1> HIDE DEF q
<1>4. SignalInv(q)
  BY <1>1, <1>2, SignalFacts DEF SignalInv, Armed, Callable
<1> QED
  BY <1>3, <1>4, SignalStep

LEMMA SignalDrop == ASSUME SignalsInv, NEW s \in Signals, Signal!Drop(s)
                    PROVE  SignalsInv' /\ UNCHANGED running
<1> DEFINE r == signal[s]
           q == [r EXCEPT !.script = @ - 1]
<1>1. r.obj = "live" /\ r.script - 1 \in Nat
  BY SignalFacts DEF Signal!Drop
<1>2. /\ q \in Signal!Resources /\ q.obj = r.obj /\ q.rc = r.rc /\ q.slot = r.slot
      /\ q.start = r.start /\ q.active = r.active /\ q.misused = r.misused
  BY <1>1, SignalFacts DEF Signal!Resources
<1>3. signal' = [signal EXCEPT ![s] = Signal!Deref(q)] /\ UNCHANGED running
  BY DEF Signal!Drop, Signal!Update
<1> HIDE DEF q
<1>4. SignalSound(q) /\ Callable(q)
  BY <1>2, SignalFacts DEF SignalSound, Armed, Callable
<1>5. SignalInv(Signal!Deref(q))
  BY <1>1, <1>2, <1>4, SignalDeref DEF SignalSound, SignalInv, Callable
<1> QED
  BY <1>3, <1>5, SignalStep

LEMMA SignalReceive == ASSUME SignalsInv, NEW s \in Signals, Signal!Receive(s)
                       PROVE  /\ SignalsInv'
                              /\ \/ UNCHANGED running
                                 \/ running = None /\ running' = s
<1> DEFINE r == signal[s]
           q == [r EXCEPT !.rc = @ + 1]
<1>1. CASE UNCHANGED Signal!vars
  BY <1>1 DEF Signal!vars, SignalsInv
<1>2. CASE signal' = [signal EXCEPT ![s].rc = @ + 1] /\ running' = s
  <2>1. r.rc + 1 \in Nat /\ r.rc + 1 > 0
    BY SignalFacts
  <2>2. /\ q \in Signal!Resources /\ q.obj = r.obj /\ q.rc = r.rc + 1 /\ q.slot = r.slot
        /\ q.start = r.start /\ q.active = r.active /\ q.misused = r.misused
    BY <2>1, SignalFacts DEF Signal!Resources
  <2>3. signal' = [signal EXCEPT ![s] = q] /\ running = None
    BY <1>2 DEF Signal!Receive
  <2> HIDE DEF q
  <2>4. SignalInv(q)
    BY <2>1, <2>2, SignalFacts DEF SignalInv, Armed, Callable
  <2> QED
    BY <1>2, <2>3, <2>4, SignalStep
<1> QED
  BY <1>1, <1>2 DEF Signal!Receive

LEMMA SignalReturn == ASSUME SignalsInv, Signal!Return PROVE SignalsInv' /\ running' = None
<1> PICK s \in Signals : s = running
  BY DEF Signal!Return
<1> DEFINE q == IF signal[s].obj = "live" THEN Signal!Deref(signal[s]) ELSE signal[s]
<1>1. signal' = [signal EXCEPT ![s] = q] /\ running' = None
  BY DEF Signal!Return
<1>2. SignalInv(q)
  BY SignalFacts, SignalDeref DEF SignalSound, SignalInv, Callable
<1> HIDE DEF q
<1> QED
  BY <1>1, <1>2, SignalStep

LEMMA SignalNextInv ==
    ASSUME SignalsInv, Signal!Next
    PROVE  /\ SignalsInv'
           /\ \/ running' = running
              \/ running = None /\ running' \in Signals
              \/ running \in Signals /\ running' = None
BY SignalNew, SignalStart, SignalStop, SignalKeep, SignalDrop, SignalReceive, SignalReturn
   DEF Signal!Next, Signal!Return

----------------------------------------------------------------------------
(* The three classes on one loop.                                           *)

\* A callback of another class neither holds nor releases a timer.
LEMMA OtherRuns ==
    ASSUME TimersInv, UNCHANGED timer, NEW C, C \cap Timers = {}, None \notin Timers,
           \/ running' = running
           \/ running = None /\ running' \in C
           \/ running \in C /\ running' = None
    PROVE  TimersInv'
<1>1. \A t \in Timers : Runs(t)' = Runs(t)
  BY DEF Runs
<1> QED
  BY <1>1 DEF TimersInv

LEMMA WatchersInit == Init => WatchersInv
<1> SUFFICES ASSUME Init PROVE WatchersInv
  OBVIOUS
<1>1. TimersInv
  <2>1. Timer!Blank \in Timer!Resources
    BY DEF Timer!Blank, Timer!Resources, Timer!SlotValues
  <2>2. \A t \in Timers : timer[t] = Timer!Blank /\ Runs(t) = 0
    BY ApartAssumption DEF Init, Timer!Init, Runs
  <2>3. TimerInv(Timer!Blank, 0)
    BY <2>1 DEF TimerInv, Armed, Callable, Timer!Blank
  <2> QED
    BY <2>1, <2>2, <2>3 DEF Init, Timer!Init, TimersInv
<1>2. IdlersInv
  <2>1. IdleInv(Idle!Blank)
    BY DEF Idle!Blank, Idle!Resources, IdleInv, Armed, Callable
  <2> QED
    BY <2>1 DEF Init, Idle!Init, IdlersInv, IdleInv
<1>3. SignalsInv
  <2>1. SignalInv(Signal!Blank)
    BY DEF Signal!Blank, Signal!Resources, SignalInv, Armed, Callable
  <2> QED
    BY <2>1 DEF Init, Signal!Init, SignalsInv, SignalInv
<1> QED
  BY <1>1, <1>2, <1>3 DEF Init, Timer!Init, WatchersInv

LEMMA WatchersNext == WatchersInv /\ [Next]_vars => WatchersInv'
<1> SUFFICES ASSUME WatchersInv, [Next]_vars PROVE WatchersInv'
  OBVIOUS
<1> USE DEF WatchersInv
<1>1. CASE Timer!Next /\ UNCHANGED <<idle, signal>>
  BY <1>1, TimerNextInv DEF IdlersInv, SignalsInv
<1>2. CASE Idle!Next /\ UNCHANGED <<timer, signal>>
  <2>1. SignalsInv'
    BY <1>2 DEF SignalsInv
  <2>2. /\ IdlersInv'
        /\ \/ running' = running
           \/ running = None /\ running' \in Idlers
           \/ running \in Idlers /\ running' = None
    BY <1>2, IdleNextInv
  <2>3. TimersInv'
    BY <1>2, <2>2, OtherRuns, ApartAssumption
  <2> QED
    BY <2>1, <2>2, <2>3
<1>3. CASE Signal!Next /\ UNCHANGED <<timer, idle>>
  <2>1. IdlersInv'
    BY <1>3 DEF IdlersInv
  <2>2. /\ SignalsInv'
        /\ \/ running' = running
           \/ running = None /\ running' \in Signals
           \/ running \in Signals /\ running' = None
    BY <1>3, SignalNextInv
  <2>3. TimersInv'
    BY <1>3, <2>2, OtherRuns, ApartAssumption
  <2> QED
    BY <2>1, <2>2, <2>3
<1>4. CASE UNCHANGED vars
  BY <1>4 DEF vars, TimersInv, IdlersInv, SignalsInv, Runs
<1> QED
  BY <1>1, <1>2, <1>3, <1>4 DEF Next

\* In every reachable state each handle satisfies the invariant of its class.
THEOREM Invariance == Spec => []WatchersInv
<1>1. Init => WatchersInv
  BY WatchersInit
<1>2. WatchersInv /\ [Next]_vars => WatchersInv'
  BY WatchersNext
<1> QED
  BY <1>1, <1>2, PTL DEF Spec

\* Resources keep their types in uv_timer.c, uv_idle.c and uv_signal.c: no count
\* goes below zero, although stop() gives back what was never taken.
THEOREM TypeCorrect == Spec => []TypeOK
<1>1. WatchersInv => TypeOK
  BY DEF WatchersInv, TimersInv, IdlersInv, SignalsInv, SignalInv, TypeOK,
         Timer!TypeOK, Idle!TypeOK, Signal!TypeOK
<1> QED
  BY <1>1, Invariance, PTL

\* libuv calls back into living memory only, whatever is stopped, dropped or
\* started from whichever callback (uv_timer.c:84 and the tests of start in
\* freeUVTimerResource, freeUVIdleResource and freeUVSignalResource).
THEOREM ActiveHandlesAreLive == Spec => []ActiveIsLive
<1>1. WatchersInv => ActiveIsLive
  BY DEF WatchersInv, TimersInv, IdlersInv, SignalsInv, TimerInv, IdleInv, SignalInv, Armed,
         ActiveIsLive, Timer!ActiveIsLive, Idle!ActiveIsLive, Signal!ActiveIsLive
<1> QED
  BY <1>1, Invariance, PTL

\* A timer's reference count is what its holders and its lost references account
\* for (uv_timer.c:84), whatever callbacks of the other classes run meanwhile.
THEOREM TimerRefcountsAreExact == Spec => []TimerRefcountExact
<1>1. WatchersInv => TimerRefcountExact
  BY DEF WatchersInv, TimersInv, TimerInv, Runs, StartRef, TimerRefcountExact,
         Timer!RefcountExact
<1> QED
  BY <1>1, Invariance, PTL

\* An active handle has a callback to call unless one of its start() calls failed
\* after freeing the callback (the FCI_FREE that opens every start()).
THEOREM ActiveHandlesHaveCallbacks == Spec => []ActiveHasCallback
<1>1. WatchersInv => ActiveHasCallback
  BY ClosuresAssumption
     DEF WatchersInv, TimersInv, IdlersInv, SignalsInv, TimerInv, IdleInv, SignalInv, Callable,
         ActiveHasCallback, Timer!ActiveOwnsCallback, Idle!ActiveHasCallback,
         Signal!ActiveOwnsCallback
<1> QED
  BY <1>1, Invariance, PTL

=============================================================================
