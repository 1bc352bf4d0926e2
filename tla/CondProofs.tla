----------------------------- MODULE CondProofs -----------------------------
(***************************************************************************)
(* Proofs about pthread_cond_wait(), _timedwait(), _signal() and           *)
(* _broadcast(), for every number of threads, mutexes and condition        *)
(* variables: no dead entry stays in a queue, no signal is lost, and the   *)
(* condition variables implement CondSpec.  The second half is about their *)
(* user, the producer and the consumer of producer_consumer.c: they use    *)
(* the kernel as module Cond allows, are never in their critical sections  *)
(* together, never meet a null owner, and stay in step, for every choice   *)
(* of priorities and every range of the counter.                           *)
(***************************************************************************)
EXTENDS ProducerConsumer, MutexProofs

-----------------------------------------------------------------------------
(***************************************************************************)
(* The inductive invariant.                                                *)
(***************************************************************************)
Arguments == [cond : Cond, mutex : Mutex, kind : {"wait", "timedwait"}]

CondTypeOK ==
    /\ cond_wq \in [Cond -> Seq(Thread)]
    /\ waits \in [Thread -> SUBSET Arguments]
    /\ \A t \in Thread : \A v, w \in waits[t] : v = w

Queued(t) == \E c \in Cond : InQueue(cond_wq[c], t)

\* Where t is while it is in a wait, the lock at its end included, and while it
\* has a timer.
CondPlace(t) ==
    /\ waits[t] # {} =>
          pc[t] \in {"wait", "timedwait", "timedwait_delete", "wait_lock",
                     "lock_spread", "lock_try", "fault"}
    /\ \A w \in waits[t] : pc[t] \in {"timedwait", "timedwait_delete"} => w.kind = "timedwait"
    /\ t \in timers => pc[t] \in {"timer_add", "timer_delete", "timedwait_delete"}

\* The mutex of a wait is the one that is locked at its end, and may be waited
\* for: of those that its thread still holds, it is of the highest rank, or it
\* is the mutex itself, which is recursive then.
WaitMutex(t) ==
    \A w \in waits[t] :
        /\ sleep_on[t] # NULL => sleep_on[t] = w.mutex
        /\ \A h \in Holds(t) \ {w.mutex} : Rank[h] < Rank[w.mutex]
        /\ w.mutex \in Holds(t) => w.mutex \in Recursive

\* A thread that is not RUNNING in a wait can be signalled, or waits for the
\* mutex.
Signalable(t) ==
    waits[t] # {} /\ sched.state[t] # "RUNNING" => Queued(t) \/ sleep_on[t] # NULL

\* Without a timeout a thread sleeps until it is signalled: it does not run
\* with its struct wait in a queue.
NoSpurious(t) ==
    \A w \in waits[t] : w.kind = "wait" /\ Queued(t) =>
        sched.state[t] = "SLEEPING" /\ pc[t] \in {"wait", "wait_lock"}

WaitOK(t) == CondPlace(t) /\ WaitMutex(t) /\ Signalable(t) /\ NoSpurious(t)

\* ... and is not current at the lock at the end of its wait before that.
AwakeAtLock ==
    Current \in Thread /\ pc[Current] = "wait_lock" =>
        \A w \in waits[Current] : w.kind = "wait" => sched.state[Current] = "RUNNING"

\* Only a recursive mutex is locked more than once.
CountsOK == \A m \in Mutex : recursive_count[m] > 1 => m \in Recursive

WaitInv ==
    /\ CondTypeOK
    /\ NoStaleEntry
    /\ CountsOK
    /\ \A t \in Thread : WaitOK(t)
    /\ AwakeAtLock

CondInv == KernelInv /\ StructInv /\ WaitInv

-----------------------------------------------------------------------------
(***************************************************************************)
(* The scheduler.                                                          *)
(***************************************************************************)
\* The states that the loop of broadcast runs through.
Woken(s, q, n, u) ==
    /\ Steady(u)
    /\ \A t \in Task : u.state[t] = IF \E i \in 1..n : q[i] = t THEN "RUNNING" ELSE s.state[t]
    /\ u.current = s.current
    /\ u.next = s.next
    /\ u.in_irq = s.in_irq

IsLoop(f, s, q, n) ==
    f = [i \in 0..n |-> IF i = 0 THEN s ELSE __pthread_set_running(f[i - 1], q[i])]

\* The function that the loop is written as exists.
LEMMA LoopExists ==
    ASSUME NEW s, NEW q, NEW n \in Nat
    PROVE  \E f : IsLoop(f, s, q, n)
<1> DEFINE S == {m \in Nat : ~\E f : IsLoop(f, s, q, m)}
           R(u, t) == __pthread_set_running(u, t)
<1>1. ASSUME S # {} PROVE FALSE
  <2> DEFINE m == Min(S)
  <2>1. m \in S /\ \A k \in S : m <= k
    BY <1>1, MinOfSet
  <2> HIDE DEF m
  <2>2. m \in Nat /\ ~\E f : IsLoop(f, s, q, m)
    BY <2>1
  <2> HIDE DEF R
  <2>3. CASE m = 0
    <3> DEFINE f == [i \in 0..0 |-> s]
    <3>1. f = [i \in 0..0 |-> IF i = 0 THEN s ELSE R(f[i - 1], q[i])]
      OBVIOUS
    <3>2. IsLoop(f, s, q, 0)
      BY <3>1 DEF IsLoop, R
    <3> QED BY <2>2, <2>3, <3>2
  <2>4. CASE m > 0
    <3>1. m - 1 \in Nat /\ m - 1 \notin S
      BY <2>1, <2>2, <2>4
    <3>2. PICK g : IsLoop(g, s, q, m - 1)
      BY <3>1
    <3> DEFINE f == [i \in 0..m |-> IF i = m THEN R(g[m - 1], q[m]) ELSE g[i]]
    <3>3. g = [i \in 0..(m - 1) |-> IF i = 0 THEN s ELSE R(g[i - 1], q[i])]
      BY <3>2 DEF IsLoop, R
    <3>4. ASSUME NEW i \in 0..m
          PROVE  f[i] = IF i = 0 THEN s ELSE R(f[i - 1], q[i])
      <4>1. CASE i = m
        <5>1. i # 0 /\ i - 1 \in 0..m /\ i - 1 # m
          BY <2>2, <2>4, <4>1
        <5>2. f[i - 1] = g[m - 1]
          BY <4>1, <5>1
        <5>3. f[i] = R(g[m - 1], q[m])
          BY <4>1
        <5> QED BY <4>1, <5>1, <5>2, <5>3
      <4>2. CASE i # m
        <5>1. i \in 0..(m - 1) /\ f[i] = g[i]
          BY <2>2, <2>4, <4>2
        <5>2. g[i] = IF i = 0 THEN s ELSE R(g[i - 1], q[i])
          BY <3>3, <5>1
        <5>3. CASE i = 0
          BY <5>1, <5>2, <5>3
        <5>4. CASE i # 0
          <6>1. i - 1 \in 0..m /\ i - 1 # m
            BY <2>2, <5>1, <5>4
          <6>2. f[i - 1] = g[i - 1]
            BY <6>1
          <6> QED BY <5>1, <5>2, <5>4, <6>2
        <5> QED BY <5>3, <5>4
      <4> QED BY <4>1, <4>2
    <3>5. f = [i \in 0..m |-> IF i = 0 THEN s ELSE R(f[i - 1], q[i])]
      BY <3>4
    <3>6. IsLoop(f, s, q, m)
      BY <3>5 DEF IsLoop, R
    <3> QED BY <2>2, <3>6
  <2> QED BY <2>2, <2>3, <2>4
<1> QED BY <1>1

\* The loop of broadcast sets the threads of the queue running and no others.
LEMMA AllRunningEffect ==
    ASSUME NEW s, Steady(s), NEW q \in Seq(Thread)
    PROVE  Woken(s, q, Len(q), AllRunning(s, q))
<1> DEFINE n == Len(q)
           f == CHOOSE g : IsLoop(g, s, q, n)
<1>1. n \in Nat /\ \A i \in 1..n : q[i] \in Task
  BY DEF Task
<1>2. AllRunning(s, q) = f[n]
  BY DEF AllRunning, IsLoop
<1>3. IsLoop(f, s, q, n)
  BY <1>1, LoopExists
<1> HIDE DEF f, n
<1>4. f[0] = s /\ \A i \in 1..n : f[i] = __pthread_set_running(f[i - 1], q[i])
  BY <1>1, <1>3 DEF IsLoop
<1> DEFINE S == {k \in 0..n : ~Woken(s, q, k, f[k])}
<1>5. ASSUME S # {} PROVE FALSE
  <2> DEFINE m == Min(S)
  <2>1. m \in S /\ \A k \in S : m <= k
    <3>1. S \in SUBSET Nat
      BY <1>1
    <3> QED BY <1>5, <3>1, MinOfSet
  <2> HIDE DEF m
  <2>2. m \in 0..n /\ ~Woken(s, q, m, f[m])
    BY <2>1
  <2>3. Woken(s, q, 0, f[0])
    BY <1>4 DEF Woken
  <2>4. m \in 1..n /\ m - 1 \in 0..n /\ m - 1 \notin S /\ m \in Nat
    BY <1>1, <2>1, <2>2, <2>3
  <2>5. Woken(s, q, m - 1, f[m - 1])
    BY <2>4
  <2> DEFINE u == f[m - 1]
             v == f[m]
             t == q[m]
  <2>6. MadeRunning(u, t, v) /\ t \in Task
    BY <1>1, <1>4, <2>4, <2>5, SetRunningEffect DEF Woken
  <2>7. Woken(s, q, m - 1, u)
    BY <2>5
  <2> HIDE DEF u, v
  <2>8. \A x \in Task : v.state[x] = IF x = t THEN "RUNNING" ELSE u.state[x]
    <3>1. u.state \in [Task -> State] /\ v.state = [u.state EXCEPT ![t] = "RUNNING"]
      BY <2>6, <2>7 DEF Woken, Steady, Sound, SchedRecord, MadeRunning
    <3> QED BY <2>6, <3>1
  <2>9. \A x \in Task : (\E i \in 1..m : q[i] = x) <=> x = t \/ (\E i \in 1..(m - 1) : q[i] = x)
    BY <2>4
  <2> HIDE DEF t
  <2>10. Woken(s, q, m, v)
    BY <2>6, <2>7, <2>8, <2>9 DEF Woken, MadeRunning
  <2> QED BY <2>2, <2>10 DEF v
<1>6. Woken(s, q, n, f[n])
  BY <1>1, <1>5
<1> QED BY <1>2, <1>6 DEF n

\* What a step of the scheduler means to the waits: it wakes nobody but a
\* thread whose timer has expired, or that is created, and where it changes the
\* current task it switches to one that is RUNNING.
SchedWakes ==
    /\ \A t \in Thread :
          sched'.state[t] # sched.state[t] => t \in timers \/ pc[t] \in {"none", "user"}
    /\ \A t \in Thread : t \in timers' => pc'[t] \in {"timer_add", "timer_delete", "timedwait_delete"}
    /\ Current' = Current \/ sched'.state[Current'] = "RUNNING"

\* Every step of main(), of the threads and of the timer interrupt.
LEMMA SchedWakesStep ==
    ASSUME KernelInv, SchedNext,
           \A t \in timers : pc[t] \in {"timer_add", "timer_delete", "timedwait_delete"}
    PROVE  SchedWakes
<1>1. /\ Steady(sched) /\ Pointed(sched)
      /\ sched \in SchedRecord
      /\ sched.state \in [Task -> State]
      /\ pc = [t \in Task |-> pc[t]]
      /\ timers \subseteq Thread
      /\ Current \in Task /\ Thread \subseteq Task
      /\ Current = sched.current
      /\ PlacesOK
  BY DEF KernelInv, Steady, Sound, Current, SchedRecord, Task
<1>2. ASSUME NEW p \in Priorities, BootCreate(p) PROVE SchedWakes
  <2> DEFINE t == Min(FreeSlots(sched))
  <2>1. t \in Thread /\ sched.state[t] = "NONE"
    <3>1. FreeSlots(sched) \in SUBSET Nat /\ FreeSlots(sched) # {}
      BY <1>2, SchedAssumption DEF FreeSlots, BootCreate
    <3>2. t \in FreeSlots(sched)
      BY <3>1, MinOfSet
    <3> QED BY <3>2 DEF FreeSlots
  <2> DEFINE i == InitSlot(sched, t, p)
  <2>2. /\ sched' = wake_up(i, t)
        /\ pc' = [pc EXCEPT ![t] = "user"]
        /\ pc[Idle] = "init"
        /\ timers' = timers
    BY <1>2 DEF BootCreate
  <2> HIDE DEF t
  <2>3. sched.in_irq /\ sched.current = Idle /\ t # Idle /\ pc[t] = "none"
    BY <1>1, <2>1, <2>2, SchedAssumption DEF PlacesOK, Current
  <2>4. t \notin sched.linked
    BY <1>1, <2>1, <2>3 DEF Steady, Ready
  <2>5. SlotFilled(sched, t, p, i)
    BY <1>1, <2>1, <2>4, InitSlotEffect, PrioritiesAssumption
  <2> HIDE DEF i
  <2>6. PICK r : MadeRunning(i, t, r) /\ Rescheduled(r, sched')
    BY <1>1, <2>1, <2>2, <2>5, WakeUpEffect DEF SlotFilled
  <2>7. sched'.current = Idle
    BY <2>3, <2>5, <2>6 DEF SlotFilled, MadeRunning, Rescheduled
  <2>8. sched'.state = [sched.state EXCEPT ![t] = "RUNNING"]
    BY <2>5, <2>6, Zenon DEF SlotFilled, MadeRunning, Rescheduled
  <2>9. \A x \in Thread : sched'.state[x] = IF x = t THEN "RUNNING" ELSE sched.state[x]
    BY <1>1, <2>1, <2>8
  <2>10. \A x \in Thread : pc'[x] = IF x = t THEN "user" ELSE pc[x]
    BY <1>1, <2>1, <2>2
  <2>11. t \notin timers
    BY <2>3
  <2> QED BY <2>2, <2>3, <2>7, <2>9, <2>10, <2>11 DEF SchedWakes, Current
<1>3. CASE BootEnable
  <2>1. IrqStored(sched, FALSE, sched')
    BY <1>1, <1>3, StoreIrq DEF BootEnable, Steady
  <2>2. timers' = timers /\ \A t \in Thread : pc'[t] = pc[t]
    BY <1>1, <1>3, SchedAssumption DEF BootEnable
  <2> QED BY <2>1, <2>2 DEF IrqStored, SchedWakes, Current
<1>4. ASSUME ~sched.in_irq, sched' = schedule(sched) PROVE
          /\ sched'.state = sched.state
          /\ sched'.state[sched'.current] = "RUNNING"
  <2>1. sched.in_irq = FALSE
    BY <1>1, <1>4 DEF SchedRecord
  <2> QED BY <1>1, <1>4, <2>1, SwitchStep
<1>5. CASE BootYield
  <2>1. ~sched.in_irq /\ pc[Current] = "sti" /\ sched' = schedule(sched)
        /\ timers' = timers /\ Goto("halt")
    BY <1>5 DEF BootYield, At
  <2>2. Current = Idle
    BY <1>1, <2>1 DEF PlacesOK, Task
  <2>3. \A t \in Thread : pc'[t] = pc[t]
    BY <1>1, <2>1, <2>2, SchedAssumption DEF Goto
  <2> QED BY <1>4, <2>1, <2>3 DEF SchedWakes, Current
<1>6. CASE pthread_yield
  <2>1. ~sched.in_irq /\ sched' = schedule(sched) /\ timers' = timers /\ pc' = pc
    BY <1>6 DEF pthread_yield, Calls, At
  <2> QED BY <1>4, <2>1 DEF SchedWakes, Current
<1>7. CASE sleep
  <2>1. /\ ~sched.in_irq /\ pc[Current] = "user" /\ Goto("sleep") /\ timers' = timers
        /\ sched' = [sched EXCEPT !.state[Current] = "SLEEPING"]
    BY <1>7 DEF sleep, Calls, At
  <2>2. Current # Idle /\ Current \in Thread
    BY <2>1, ThreadRuns
  <2>3. StateStored(sched, Current, "SLEEPING", sched')
    BY <1>1, <2>1, <2>2, StoreState DEF Steady, State
  <2>4. sched'.current = sched.current
        /\ sched'.state = [sched.state EXCEPT ![Current] = "SLEEPING"]
    BY <2>3 DEF StateStored
  <2>5. \A t \in Thread : t # Current => sched'.state[t] = sched.state[t]
    BY <1>1, <2>4
  <2>6. \A t \in Thread : t # Current => pc'[t] = pc[t]
    BY <1>1, <2>1 DEF Goto
  <2>7. Current \notin timers
    BY <2>1
  <2> QED BY <2>1, <2>4, <2>5, <2>6, <2>7 DEF SchedWakes, Current
<1>8. CASE timer_add
  <2>1. /\ timers' = timers \cup {Current} /\ Goto("timer_add") /\ sched' = sched
    BY <1>8 DEF timer_add, At
  <2>2. \A t \in Thread : pc'[t] = IF t = Current THEN "timer_add" ELSE pc[t]
    BY <1>1, <2>1 DEF Goto
  <2> QED BY <2>1, <2>2 DEF SchedWakes, Current
<1>9. CASE sleep_schedule
  <2>1. /\ ~sched.in_irq /\ sched' = schedule(sched) /\ timers' = timers
        /\ Goto("timer_delete")
    BY <1>9 DEF sleep_schedule, At
  <2>2. \A t \in Thread : pc'[t] = IF t = Current THEN "timer_delete" ELSE pc[t]
    BY <1>1, <2>1 DEF Goto
  <2> QED BY <1>4, <2>1, <2>2 DEF SchedWakes, Current
<1>10. CASE timer_delete
  <2>1. timers' = timers \ {Current} /\ Goto("user") /\ sched' = sched
    BY <1>10 DEF timer_delete, At
  <2>2. \A t \in Thread : t # Current => pc'[t] = pc[t]
    BY <1>1, <2>1 DEF Goto
  <2> QED BY <2>1, <2>2 DEF SchedWakes, Current
<1>11. CASE IrqEnter
  <2>1. IrqStored(sched, TRUE, sched') /\ timers' = timers /\ pc' = pc
    BY <1>1, <1>11, StoreIrq DEF IrqEnter, EnterIrq, Steady
  <2> QED BY <2>1 DEF IrqStored, SchedWakes, Current
<1>12. ASSUME NEW t \in Thread, sched_timeout(t) PROVE SchedWakes
  <2>1. /\ sched.in_irq /\ t \in timers
        /\ sched' = wake_up(sched, t)
        /\ timers' = timers \ {t} /\ pc' = pc
    BY <1>12 DEF sched_timeout, InHandler
  <2>2. PICK r : MadeRunning(sched, t, r) /\ Rescheduled(r, sched')
    BY <1>1, <2>1, WakeUpEffect
  <2>3. sched'.current = sched.current
    BY <2>1, <2>2 DEF MadeRunning, Rescheduled
  <2>4. sched'.state = [sched.state EXCEPT ![t] = "RUNNING"]
    BY <2>2, Zenon DEF MadeRunning, Rescheduled
  <2>5. \A x \in Thread : x # t => sched'.state[x] = sched.state[x]
    BY <1>1, <2>4
  <2> QED BY <2>1, <2>3, <2>5 DEF SchedWakes, Current
<1>13. CASE IrqLeave
  <2>1. Left(sched, sched') /\ pc' = pc /\ timers' = timers
    BY <1>1, <1>13, LeaveIrqEffect DEF IrqLeave
  <2> QED BY <2>1 DEF Left, SchedWakes, Current
<1> QED BY <1>2, <1>3, <1>5, <1>6, <1>7, <1>8, <1>9, <1>10, <1>11, <1>12, <1>13
        DEF SchedNext, Boot, Sleeping, Timer

-----------------------------------------------------------------------------
(***************************************************************************)
(* The mutexes, seen from the condition variables.                         *)
(***************************************************************************)
\* What no step of the mutexes does: it touches the records of the current
\* thread alone, and changes the state of nobody who does not wait for a mutex.
Moved ==
    /\ KernelInv' /\ StructInv'
    /\ Current \in Thread
    /\ \A t \in Thread : t # Current =>
          pc'[t] = pc[t] /\ sleep_on'[t] = sleep_on[t] /\ held'[t] = held[t]
    /\ \A t \in Thread : sched'.state[t] # sched.state[t] => sleep_on[t] # NULL
    /\ timers' = timers
    /\ Current' = Current \/ sched'.state[Current'] = "RUNNING"
    /\ CountsOK => CountsOK'

\* A thread that waits for a mutex does so until it wins.
MutexMove ==
    /\ Moved
    /\ pc[Current] \in {"user", "lock_spread", "lock_try", "setprio_spread"}
    /\ pc'[Current] \in {"user", "lock_spread", "lock_try", "setprio_spread", "fault"}
    /\ pc[Current] \in {"lock_spread", "lock_try"} /\ ~Wins =>
          /\ pc'[Current] \in {"lock_spread", "lock_try", "fault"}
          /\ sleep_on'[Current] = sleep_on[Current]
          /\ held'[Current] = held[Current]

\* A place at which a thread may call pthread_mutex_lock().
CallsLock(label) == label \in {"user", "wait_lock"}

\* A free mutex is taken.
LEMMA TakeFreeMoved ==
    ASSUME KernelInv, StructInv, NEW label, CallsLock(label), At(label),
           NEW m \in Mutex, TakeFree(m)
    PROVE  Moved /\ pc'[Current] = "user"
<1>1. ~sched.in_irq /\ pc[Current] \in {"user", "wait_lock"}
  BY DEF At, CallsLock
<1>2. /\ Own(m) /\ Goto("user")
      /\ sched' = sched /\ timers' = timers /\ sleep_on' = sleep_on
  BY DEF TakeFree
<1>3. KernelInv' /\ Current \in Thread /\ Current' = Current
  BY <1>1, <1>2, QuietStep
<1>4. Outside(pc[Current])
  BY <1>1 DEF Outside
<1>5. StructInv'
  BY <1>3, <1>4, TakeFreeStruct
<1>6. \A t \in Thread : pc'[t] = IF t = Current THEN "user" ELSE pc[t]
  BY <1>2, <1>3, GotoEffect
<1>7. MutexTypeOK
  BY DEF StructInv
<1>8. \A t \in Thread : t # Current => held'[t] = held[t]
  BY <1>2, <1>7 DEF Own, Counts, MutexTypeOK
<1>9. CountsOK => CountsOK'
  BY <1>2, <1>3, <1>7, OwnEffect DEF CountsOK
<1> QED BY <1>2, <1>3, <1>5, <1>6, <1>8, <1>9 DEF Moved

\* A recursive mutex is taken again.
LEMMA TakeAgainMoved ==
    ASSUME KernelInv, StructInv, NEW label, CallsLock(label), At(label),
           NEW m \in Mutex, TakeAgain(m)
    PROVE  Moved /\ pc'[Current] = "user"
<1>1. ~sched.in_irq /\ pc[Current] \in {"user", "wait_lock"}
  BY DEF At, CallsLock
<1>2. /\ m \in Recursive /\ Goto("user")
      /\ sched' = sched /\ timers' = timers /\ sleep_on' = sleep_on
      /\ Counts(Current, m, held[Current][m] + 1)
      /\ recursive_count' = [recursive_count EXCEPT ![m] = @ + 1]
  BY DEF TakeAgain
<1>3. KernelInv' /\ Current \in Thread /\ Current' = Current
  BY <1>1, <1>2, QuietStep
<1>4. Outside(pc[Current])
  BY <1>1 DEF Outside
<1>5. StructInv'
  BY <1>3, <1>4, TakeAgainStruct
<1>6. \A t \in Thread : pc'[t] = IF t = Current THEN "user" ELSE pc[t]
  BY <1>2, <1>3, GotoEffect
<1>7. MutexTypeOK
  BY DEF StructInv
<1>8. \A t \in Thread : t # Current => held'[t] = held[t]
  BY <1>2, <1>7 DEF Counts, MutexTypeOK
<1>9. CountsOK => CountsOK'
  BY <1>2, <1>7 DEF CountsOK, MutexTypeOK
<1> QED BY <1>2, <1>3, <1>5, <1>6, <1>8, <1>9 DEF Moved

\* A thread queues up for a mutex of a higher rank than those it holds.
LEMMA ContendMoved ==
    ASSUME KernelInv, StructInv, NEW label, CallsLock(label), At(label),
           NEW m \in Mutex, Contend(m), \A h \in Holds(Current) : Rank[h] < Rank[m]
    PROVE  /\ Moved
           /\ pc'[Current] = "lock_spread"
           /\ sleep_on'[Current] = m
           /\ held' = held
<1>1. ~sched.in_irq /\ pc[Current] \in {"user", "wait_lock"}
  BY DEF At, CallsLock
<1>2. /\ Goto("lock_spread")
      /\ sched' = sched /\ timers' = timers /\ held' = held
      /\ recursive_count' = recursive_count
      /\ sleep_on' = [sleep_on EXCEPT ![Current] = m]
  BY DEF Contend
<1>3. KernelInv' /\ Current \in Thread /\ Current' = Current
  BY <1>1, <1>2, QuietStep
<1>4. Outside(pc[Current])
  BY <1>1 DEF Outside
<1>5. StructInv'
  BY <1>3, <1>4, ContendStruct
<1>6. \A t \in Thread : pc'[t] = IF t = Current THEN "lock_spread" ELSE pc[t]
  BY <1>2, <1>3, GotoEffect
<1>7. MutexTypeOK
  BY DEF StructInv
<1>8. \A t \in Thread : sleep_on'[t] = IF t = Current THEN m ELSE sleep_on[t]
  BY <1>2, <1>3, <1>7 DEF MutexTypeOK, Task
<1>9. CountsOK => CountsOK'
  BY <1>2 DEF CountsOK
<1> QED BY <1>2, <1>3, <1>5, <1>6, <1>8, <1>9 DEF Moved

\* pthread_mutex_lock() and pthread_mutex_trylock(), up to the first wait.
LEMMA LockMove ==
    ASSUME KernelInv, StructInv, NEW m \in Mutex,
           lock_free(m) \/ lock_again(m) \/ lock_contend(m) \/ trylock(m)
    PROVE  MutexMove
<1>1. At("user") /\ CallsLock("user") /\ pc[Current] = "user"
  BY DEF lock_free, lock_again, lock_contend, trylock, Calls, At, CallsLock
<1>2. CASE TakeFree(m) \/ TakeAgain(m)
  BY <1>1, <1>2, TakeFreeMoved, TakeAgainMoved DEF MutexMove
<1>3. CASE lock_contend(m)
  <2>1. Contend(m) /\ MayLock(Current, m) /\ ~(m \in Recursive /\ owner[m] = Current)
    BY <1>3 DEF lock_contend, Contend
  <2>2. Current \in Thread
    BY <1>1, ThreadRuns DEF At
  <2>3. \A h \in Holds(Current) : Rank[h] < Rank[m]
    <3>1. CASE m \in Recursive \cap Holds(Current)
      BY <2>1, <2>2, <3>1, HolderOwns
    <3> QED BY <2>1, <3>1 DEF MayLock
  <2> QED BY <1>1, <2>1, <2>3, ContendMoved DEF MutexMove
<1> QED BY <1>2, <1>3 DEF lock_free, lock_again, trylock

\* One visit of __pthread_spread().
LEMMA SpreadStepMove ==
    ASSUME KernelInv, StructInv, spread_step
    PROVE  MutexMove
<1>1. /\ ~sched.in_irq /\ pc[Current] \in {"lock_spread", "setprio_spread"}
      /\ sleep_on[cursor] # NULL
      /\ owner[sleep_on[cursor]] # NULL
      /\ pc' = pc /\ timers' = timers
      /\ lock' = lock /\ owner' = owner /\ recursive_count' = recursive_count
      /\ wq' = wq /\ sleep_on' = sleep_on /\ mutex_queue' = mutex_queue
      /\ held' = held /\ stale' = stale
  BY DEF spread_step, Spreading, At, structVars
<1>2. MutexTypeOK /\ OwnershipOK /\ WaitPlaces /\ RanksOK
  BY DEF StructInv
<1>3. Walking /\ cursor # NULL /\ cursor \in Thread
  BY <1>1, <1>2 DEF Walking, WaitPlaces, MutexTypeOK
<1>4. PICK th \in Thread : /\ th = owner[sleep_on[cursor]] /\ th \in Task
                           /\ cursor' = th
                           /\ sched' = SetEffectivePriority(sched, th, Inherited(th))
  <2>1. owner[sleep_on[cursor]] \in Thread
    BY <1>1, <1>2, <1>3 DEF MutexTypeOK, Task
  <2> QED BY <2>1 DEF spread_step, __pthread_setschedprio, Inherited, Task
<1>5. Steady(sched) /\ Inherited(th) \in Prio
  BY <1>4, InheritedBounds DEF KernelInv
<1>6. PrioritySet(sched, th, Inherited(th), sched')
  BY <1>4, <1>5, SetPriorityEffect
<1>7. /\ Current \in Thread /\ sched.in_irq = FALSE
      /\ sched.next = sched.current
  BY <1>1, ThreadRuns
<1>8. KernelInv' /\ Current' = Current /\ sched'.state = sched.state
  <2>1. Goto(pc[Current])
    BY <1>1 DEF Goto, KernelInv
  <2>2. timers' \subseteq Thread /\ pc[Current] \notin {"none", "init", "sti", "halt"}
    BY <1>1 DEF KernelInv
  <2>3. /\ Steady(sched') /\ sched'.in_irq = FALSE /\ sched'.next = sched'.current
        /\ sched'.state = sched.state /\ sched'.current = sched.current
    BY <1>6, <1>7 DEF PrioritySet
  <2>4. KernelInv'
    BY <1>1, <1>7, <2>1, <2>2, <2>3, ThreadStep
  <2> QED BY <2>3, <2>4 DEF Current
<1>9. StructInv'
  <2>1. MutexTypeOK'
    BY <1>1, <1>2, <1>4 DEF MutexTypeOK
  <2>2. OwnershipOK' /\ RanksOK'
    BY <1>1, <1>2 DEF OwnershipOK, RanksOK, Holds
  <2>3. WaitPlaces'
    BY <1>1, <1>2, <1>3, <1>4, <1>8 DEF WaitPlaces, Walking
  <2> QED BY <2>1, <2>2, <2>3 DEF StructInv
<1>10. Moved
  BY <1>1, <1>7, <1>8, <1>9 DEF Moved, CountsOK
<1> QED BY <1>1, <1>10 DEF MutexMove

\* The steps of a walk that change no priority.
LEMMA SpreadQuietMove ==
    ASSUME KernelInv, StructInv, spread_null \/ lock_spread_done
    PROVE  MutexMove
<1>1. PICK label \in {"fault", "lock_try"} :
      /\ ~sched.in_irq /\ pc[Current] \in {"lock_spread", "setprio_spread"}
      /\ pc[Current] = "lock_spread" \/ label = "fault"
      /\ label = "fault" => owner[sleep_on[cursor]] = NULL
      /\ cursor' = IF label = "fault" THEN cursor ELSE NULL
      /\ Goto(label)
      /\ sched' = sched /\ timers' = timers
      /\ lock' = lock /\ owner' = owner /\ recursive_count' = recursive_count
      /\ wq' = wq /\ sleep_on' = sleep_on /\ mutex_queue' = mutex_queue
      /\ held' = held /\ stale' = stale
  BY DEF spread_null, lock_spread_done, Spreading, At, mutexVars, structVars
<1>2. KernelInv' /\ Current \in Thread /\ Current' = Current
  BY <1>1, QuietStep
<1>3. \A t \in Thread : pc'[t] = IF t = Current THEN label ELSE pc[t]
  BY <1>1, <1>2, GotoEffect
<1>4. MutexTypeOK /\ OwnershipOK /\ WaitPlaces /\ RanksOK
  BY DEF StructInv
<1>5. StructInv'
  <2>1. MutexTypeOK' /\ OwnershipOK' /\ RanksOK'
    BY <1>1, <1>4 DEF MutexTypeOK, OwnershipOK, RanksOK, Holds
  <2>2. WaitPlaces'
    <3>1. CASE label = "fault"
      BY <1>1, <1>2, <1>3, <1>4, <3>1 DEF WaitPlaces, Walking
    <3>2. CASE label = "lock_try"
      BY <1>1, <1>2, <1>3, <1>4, <3>2 DEF WaitPlaces, Walking
    <3> QED BY <3>1, <3>2
  <2> QED BY <2>1, <2>2 DEF StructInv
<1>6. Moved
  BY <1>1, <1>2, <1>3, <1>5 DEF Moved, CountsOK
<1> QED BY <1>1, <1>2, <1>3, <1>6 DEF MutexMove

\* A waiter that finds the mutex taken sleeps.
LEMMA LockSleepMove ==
    ASSUME KernelInv, StructInv, NEW m \in Mutex, lock_sleep(m)
    PROVE  MutexMove
<1>1. /\ ~sched.in_irq /\ pc[Current] = "lock_try"
      /\ sleep_on[Current] = m /\ lock[m] # 1
      /\ lock' = [lock EXCEPT ![m] = -1]
      /\ sched' = Block(sched)
      /\ pc' = pc /\ timers' = timers
      /\ owner' = owner /\ recursive_count' = recursive_count
      /\ wq' = wq /\ sleep_on' = sleep_on /\ mutex_queue' = mutex_queue
      /\ cursor' = cursor /\ held' = held /\ stale' = stale
  BY DEF lock_sleep, At
<1>2. Current \in Thread /\ Current # Idle /\ sched.in_irq = FALSE /\ Steady(sched)
  BY <1>1, ThreadRuns DEF KernelInv
<1>3. /\ Steady(sched')
      /\ sched'.in_irq = FALSE /\ sched'.next = sched'.current
      /\ sched'.state[sched'.current] = "RUNNING"
      /\ sched'.state = [sched.state EXCEPT ![Current] = "SLEEPING"]
  BY <1>1, <1>2, BlockEffect DEF Current
<1>4. \A t \in Thread : sched'.state[t] = IF t = Current THEN "SLEEPING" ELSE sched.state[t]
  BY <1>2, <1>3 DEF Steady, Sound, SchedRecord, Task
<1>5. KernelInv'
  <2>1. Goto("lock_try") /\ timers' \subseteq Thread
    BY <1>1 DEF Goto, KernelInv
  <2> QED BY <1>1, <1>2, <1>3, <1>4, <2>1, ThreadStep
<1>6. MutexTypeOK /\ OwnershipOK /\ WaitPlaces /\ RanksOK /\ m # NULL
  BY MutexAssumption DEF StructInv
<1>7. /\ lock' \in [Mutex -> {1, 0, -1}]
      /\ \A x \in Mutex : lock'[x] = IF x = m THEN -1 ELSE lock[x]
  BY <1>1, <1>6 DEF MutexTypeOK
<1>8. StructInv'
  <2>1. MutexTypeOK' /\ RanksOK'
    BY <1>1, <1>6, <1>7 DEF MutexTypeOK, RanksOK, Holds
  <2>2. OwnershipOK'
    <3>1. \A x \in Mutex : lock'[x] = 1 <=> lock[x] = 1
      BY <1>1, <1>7
    <3> QED BY <1>1, <1>6, <3>1 DEF OwnershipOK
  <2>3. WaitPlaces'
    BY <1>1, <1>2, <1>5, <1>6, CalmPlaces DEF Walking
  <2> QED BY <2>1, <2>2, <2>3 DEF StructInv
<1>9. Moved
  BY <1>1, <1>2, <1>3, <1>4, <1>5, <1>6, <1>8 DEF Moved, CountsOK, Current
<1> QED BY <1>1, <1>9 DEF MutexMove

\* A waiter wins.
LEMMA LockWinMove ==
    ASSUME KernelInv, StructInv, NEW m \in Mutex, lock_win(m)
    PROVE  MutexMove /\ Wins
<1> DEFINE v == InheritedPriority(sched, Current, mutex_queue'[Current], wq')
<1>1. /\ ~sched.in_irq /\ pc[Current] = "lock_try" /\ At("lock_try")
      /\ sleep_on[Current] = m /\ lock[m] = 1
      /\ sleep_on' = [sleep_on EXCEPT ![Current] = NULL]
      /\ Own(m) /\ Goto("user") /\ timers' = timers
      /\ sched' = SetEffectivePriority(sched, Current, v)
  BY DEF lock_win, At, __pthread_setschedprio
<1>2. /\ Current \in Thread /\ Current \in Task /\ sched.in_irq = FALSE
      /\ sched.next = sched.current /\ Steady(sched) /\ sched \in SchedRecord
  BY <1>1, ThreadRuns DEF KernelInv, Steady, Sound
<1>3. v \in Prio
  BY <1>2, InheritedIsMax
<1>4. PrioritySet(sched, Current, v, sched')
  BY <1>1, <1>2, <1>3, SetPriorityEffect
<1>5. /\ Steady(sched') /\ sched'.in_irq = FALSE /\ sched'.next = sched'.current
      /\ sched'.state = sched.state /\ Current' = Current
  BY <1>2, <1>4 DEF PrioritySet, Current
<1>6. KernelInv'
  <2>1. timers' \subseteq Thread
    BY <1>1 DEF KernelInv
  <2> QED BY <1>1, <1>2, <1>5, <2>1, ThreadStep
<1>7. StructInv'
  BY <1>2, <1>6, WinStruct
<1>8. \A t \in Thread : pc'[t] = IF t = Current THEN "user" ELSE pc[t]
  BY <1>1, <1>2, GotoEffect
<1>9. MutexTypeOK
  BY DEF StructInv
<1>10. \A t \in Thread : t # Current => sleep_on'[t] = sleep_on[t] /\ held'[t] = held[t]
  BY <1>1, <1>2, <1>9 DEF Own, Counts, MutexTypeOK, Task
<1>11. CountsOK => CountsOK'
  BY <1>1, <1>2, <1>9, OwnEffect DEF CountsOK
<1>12. Moved
  BY <1>1, <1>2, <1>5, <1>6, <1>7, <1>8, <1>10, <1>11 DEF Moved
<1>13. Wins
  BY <1>1 DEF Wins
<1> QED BY <1>1, <1>2, <1>8, <1>12, <1>13 DEF MutexMove

\* What an unlock that begins in the scheduler state s leaves, the current
\* thread going on at label.
UnlockedFrom(s, m, label) ==
    /\ KernelInv' /\ StructInv'
    /\ Current \in Thread
    /\ timers' = timers /\ sleep_on' = sleep_on
    /\ \A t \in Thread : pc'[t] = IF t = Current THEN label ELSE pc[t]
    /\ \A t \in Thread : t # Current => held'[t] = held[t]
    /\ \A x \in Mutex : held'[Current][x] = IF x = m THEN held[Current][m] - 1
                                                     ELSE held[Current][x]
    /\ \A t \in Thread : sched'.state[t] # s.state[t] => sleep_on[t] # NULL
    /\ CountsOK => CountsOK' /\ (held[Current][m] > 1 => m \in Recursive)

\* The last unlock of a mutex, as in pthread_mutex_unlock() and in a wait.
LEMMA ReleaseFrom ==
    ASSUME KernelInv, StructInv, At("user"), NEW m \in Mutex, Release(m),
           NEW s, Steady(s), s.current = Current, s.in_irq = FALSE,
           \A t \in Thread : s.state[t] = "NONE" => sched.state[t] = "NONE",
           sched' = schedule(Unlocked(s, m)),
           NEW label, Outside(label), label \notin {"init", "sti", "halt"}, Goto(label)
    PROVE  /\ UnlockedFrom(s, m, label)
           /\ sched'.state[Current'] = "RUNNING"
<1>1. ~sched.in_irq /\ pc[Current] = "user" /\ Outside(pc[Current])
  BY DEF At, Outside
<1>2. /\ m \in Holds(Current) /\ recursive_count[m] = 1
      /\ recursive_count' = [recursive_count EXCEPT ![m] = 0]
      /\ Counts(Current, m, 0)
      /\ timers' = timers /\ sleep_on' = sleep_on
  BY DEF Release
<1>3. MutexTypeOK /\ Consistent(m) /\ m # NULL
  BY EachConsistent, MutexAssumption DEF StructInv
<1>4. PICK c \in Thread : c = Current
  BY <1>1, ThreadRuns
<1> DEFINE v == InheritedPriority(s, c, mutex_queue[c] \ {m}, wq)
           u == Unlocked(s, m)
<1>5. UnlockedTo(s, c, v, m, u)
  BY <1>3, <1>4, UnlockedEffect
<1>6. sched' = schedule(u)
  OBVIOUS
<1> HIDE DEF u
<1>7. /\ Steady(sched') /\ sched'.in_irq = FALSE /\ sched'.next = sched'.current
      /\ sched'.state[sched'.current] = "RUNNING"
      /\ sched'.state = u.state
  <2>1. Steady(u) /\ u.in_irq = FALSE
    BY <1>5 DEF UnlockedTo
  <2>2. Rescheduled(u, sched')
    BY <1>6, <2>1, RescheduleEffect, Zenon
  <2> QED BY <2>1, <2>2 DEF Rescheduled, Switched
<1>8. \A t \in Thread : /\ sched'.state[t] = s.state[t] \/ sched'.state[t] = "RUNNING"
                        /\ sched'.state[t] # s.state[t] => InQueue(wq[m], t)
  BY <1>5, <1>7 DEF UnlockedTo, Task
<1>9. \A t \in Thread : sched'.state[t] # s.state[t] => sleep_on[t] # NULL
  BY <1>3, <1>8 DEF Consistent
<1>10. KernelInv'
  <2>1. timers' \subseteq Thread
    BY <1>2 DEF KernelInv
  <2>2. \A t \in Thread : sched'.state[t] = "NONE" => sched.state[t] = "NONE"
    BY <1>8
  <2> QED BY <1>1, <1>4, <1>7, <2>1, <2>2, ThreadStep
<1>11. StructInv'
  BY <1>1, <1>4, <1>10, ReleaseStruct
<1>12. \A t \in Thread : pc'[t] = IF t = Current THEN label ELSE pc[t]
  BY <1>4, GotoEffect
<1>13. held[Current][m] = 1
  BY <1>2, <1>4, HolderOwns
<1>14. \A t \in Thread : t # Current => held'[t] = held[t]
  BY <1>2, <1>3 DEF Counts, MutexTypeOK
<1>15. \A x \in Mutex : held'[Current][x] = IF x = m THEN held[Current][m] - 1
                                                     ELSE held[Current][x]
  BY <1>2, <1>3, <1>4, <1>13, CountEffect
<1>16. CountsOK => CountsOK'
  BY <1>2, <1>3 DEF CountsOK, MutexTypeOK
<1>17. sched'.state[Current'] = "RUNNING"
  BY <1>7 DEF Current
<1> QED BY <1>2, <1>4, <1>9, <1>10, <1>11, <1>12, <1>13, <1>14, <1>15, <1>16, <1>17 DEF UnlockedFrom

\* An unlock that leaves a recursive mutex locked.
LEMMA CountDownFrom ==
    ASSUME KernelInv, StructInv, At("user"), NEW m \in Mutex, CountDown(m),
           Steady(sched'), sched'.current = Current, sched'.next = sched.next,
           sched'.in_irq = FALSE,
           \A t \in Thread : sched'.state[t] = "NONE" => sched.state[t] = "NONE",
           NEW label, Outside(label), label \notin {"init", "sti", "halt"}, Goto(label)
    PROVE  UnlockedFrom(sched', m, label)
<1>1. ~sched.in_irq /\ pc[Current] = "user" /\ Outside(pc[Current])
  BY DEF At, Outside
<1>2. /\ m \in Holds(Current) /\ recursive_count[m] # 1
      /\ recursive_count' = [recursive_count EXCEPT ![m] = @ - 1]
      /\ Counts(Current, m, held[Current][m] - 1)
      /\ timers' = timers /\ sleep_on' = sleep_on
  BY DEF CountDown
<1>3. MutexTypeOK
  BY DEF StructInv
<1>4. Current \in Thread /\ sched.next = sched.current
  BY <1>1, ThreadRuns
<1>5. KernelInv'
  <2>1. timers' \subseteq Thread /\ sched'.next = sched'.current
    BY <1>2, <1>4 DEF KernelInv, Current
  <2> QED BY <1>1, <1>4, <2>1, ThreadStep
<1>6. StructInv'
  BY <1>1, <1>4, <1>5, CountDownStruct
<1>7. \A t \in Thread : pc'[t] = IF t = Current THEN label ELSE pc[t]
  BY <1>4, GotoEffect
<1>8. /\ held[Current][m] = recursive_count[m]
      /\ recursive_count[m] \in Nat /\ recursive_count[m] # 0
  BY <1>2, <1>4, HolderOwns
<1>9. \A t \in Thread : t # Current => held'[t] = held[t]
  BY <1>2, <1>3 DEF Counts, MutexTypeOK
<1>10. \A x \in Mutex : held'[Current][x] = IF x = m THEN held[Current][m] - 1
                                                     ELSE held[Current][x]
  BY <1>2, <1>3, <1>4, <1>8, CountEffect
<1>11. CountsOK => CountsOK' /\ (held[Current][m] > 1 => m \in Recursive)
  BY <1>2, <1>3, <1>8 DEF CountsOK, MutexTypeOK
<1> QED BY <1>2, <1>4, <1>5, <1>6, <1>7, <1>9, <1>10, <1>11 DEF UnlockedFrom

\* pthread_mutex_unlock().
LEMMA UnlockMove ==
    ASSUME KernelInv, StructInv, NEW m \in Mutex, Unlock(m)
    PROVE  MutexMove
<1>1. At("user") /\ pc' = pc /\ pc[Current] = "user" /\ ~sched.in_irq
  BY DEF Unlock, unlock, unlock_again, Calls, At
<1>2. /\ Current \in Thread /\ sched.in_irq = FALSE
      /\ Steady(sched) /\ sched.current = Current
  BY <1>1, ThreadRuns DEF KernelInv, Current
<1>3. Goto("user") /\ Outside("user") /\ "user" \notin {"init", "sti", "halt"}
  BY <1>1 DEF Goto, Outside, KernelInv
<1>4. CASE unlock(m)
  <2>1. Release(m) /\ sched' = schedule(Unlocked(sched, m))
    BY <1>4 DEF unlock
  <2>2. UnlockedFrom(sched, m, "user") /\ sched'.state[Current'] = "RUNNING"
    BY <1>1, <1>2, <1>3, <2>1, ReleaseFrom
  <2> QED BY <1>1, <2>2 DEF UnlockedFrom, Moved, MutexMove
<1>5. CASE unlock_again(m)
  <2>1. CountDown(m) /\ sched' = sched /\ Current' = Current
    BY <1>5 DEF unlock_again, Current
  <2>2. UnlockedFrom(sched', m, "user")
    BY <1>1, <1>2, <1>3, <2>1, CountDownFrom
  <2> QED BY <1>1, <2>1, <2>2 DEF UnlockedFrom, Moved, MutexMove
<1> QED BY <1>4, <1>5 DEF Unlock

\* pthread_setschedprio(), without a walk.
LEMMA SetPrioMove ==
    ASSUME KernelInv, StructInv, NEW t \in Thread, NEW p \in Priorities,
           setprio_same(t, p) \/ setprio(t, p)
    PROVE  MutexMove
<1>1. /\ ~sched.in_irq /\ pc[Current] = "user" /\ pc' = pc /\ timers' = timers
      /\ UNCHANGED <<structVars, cursor, held>>
      /\ recursive_count' = recursive_count /\ sleep_on' = sleep_on /\ held' = held
      /\ stale' \subseteq stale \cup {"set"}
  BY DEF setprio_same, setprio, Calls, At, mutexVars, structVars
<1>2. /\ Current \in Thread /\ sched.in_irq = FALSE
      /\ sched.next = sched.current /\ Steady(sched) /\ t \in Task /\ p \in Prio
  BY <1>1, ThreadRuns, PrioritiesAssumption DEF KernelInv, Task
<1>3. /\ Steady(sched') /\ sched'.in_irq = FALSE /\ sched'.next = sched'.current
      /\ sched'.state = sched.state
      /\ sched'.current = sched.current \/ sched'.state[sched'.current] = "RUNNING"
  <2>1. CASE setprio_same(t, p)
    <3>1. sched' = [sched EXCEPT !.priority[t] = p]
      BY <2>1 DEF setprio_same
    <3>2. /\ Steady(sched') /\ sched'.state = sched.state
          /\ sched'.current = sched.current /\ sched'.next = sched.next
          /\ sched'.in_irq = sched.in_irq
      BY <1>2, <3>1, StorePriority
    <3> QED BY <1>2, <3>2
  <2>2. CASE setprio(t, p)
    <3> DEFINE u == Reprioritized(t, p)
    <3>1. sched' = schedule(u)
      BY <2>2 DEF setprio
    <3>2. PICK v \in Prio : ReprioritizedTo(sched, t, p, v, u)
      BY <1>2, ReprioritizedEffect
    <3> HIDE DEF u
    <3>3. Steady(u) /\ u.in_irq = FALSE /\ u.state = sched.state
      BY <1>2, <3>2 DEF ReprioritizedTo
    <3> QED BY <3>1, <3>3, SwitchStep
  <2> QED BY <2>1, <2>2
<1>4. KernelInv'
  <2>1. Goto("user") /\ timers' \subseteq Thread
    BY <1>1 DEF Goto, KernelInv
  <2> QED BY <1>1, <1>2, <1>3, <2>1, ThreadStep
<1>5. StructInv'
  <2>1. ~Walking /\ stale' \subseteq {"set", "passed"}
    BY <1>1 DEF Walking, StructInv, MutexTypeOK
  <2> QED BY <1>1, <1>2, <1>4, <2>1, SameStruct
<1>6. Moved
  BY <1>1, <1>2, <1>3, <1>4, <1>5 DEF Moved, CountsOK, Current
<1> QED BY <1>1, <1>6 DEF MutexMove

\* The beginning and the end of the walk of pthread_setschedprio().
LEMMA SetPrioSpreadMove ==
    ASSUME KernelInv, StructInv,
           setprio_done \/ \E t \in Thread, p \in Priorities : setprio_sleeping(t, p)
    PROVE  MutexMove
<1>1. PICK label \in {"user", "setprio_spread"} :
      /\ ~sched.in_irq /\ pc[Current] \in {"user", "setprio_spread"} /\ pc[Current] # label
      /\ Goto(label)
      /\ cursor' \in Thread \cup {NULL} /\ (cursor' # NULL <=> label = "setprio_spread")
      /\ timers' = timers
      /\ lock' = lock /\ owner' = owner /\ recursive_count' = recursive_count
      /\ wq' = wq /\ sleep_on' = sleep_on /\ mutex_queue' = mutex_queue
      /\ held' = held /\ stale' = stale
  <2>1. CASE setprio_done
    BY <2>1 DEF setprio_done, At, structVars
  <2>2. ASSUME NEW t \in Thread, NEW p \in Priorities, setprio_sleeping(t, p)
        PROVE  /\ ~sched.in_irq /\ pc[Current] = "user"
               /\ Goto("setprio_spread")
               /\ cursor' = t /\ t # NULL
               /\ timers' = timers
               /\ lock' = lock /\ owner' = owner /\ recursive_count' = recursive_count
               /\ wq' = wq /\ sleep_on' = sleep_on /\ mutex_queue' = mutex_queue
               /\ held' = held /\ stale' = stale
    BY <2>2, SchedAssumption DEF setprio_sleeping, Calls, At, structVars
  <2> QED BY <2>1, <2>2
<1>2. /\ Current \in Thread /\ sched.in_irq = FALSE
      /\ sched.next = sched.current /\ Steady(sched)
  BY <1>1, ThreadRuns DEF KernelInv
<1>3. /\ Steady(sched') /\ sched'.in_irq = FALSE /\ sched'.next = sched'.current
      /\ sched'.state = sched.state
      /\ \/ sched'.current = sched.current
         \/ label = "user" /\ sched'.state[sched'.current] = "RUNNING"
  <2>1. CASE setprio_done
    <3>1. sched' = schedule(sched) /\ pc[Current] = "setprio_spread"
      BY <2>1 DEF setprio_done, At
    <3> QED BY <1>1, <1>2, <3>1, SwitchStep
  <2>2. ASSUME NEW t \in Thread, NEW p \in Priorities, setprio_sleeping(t, p)
        PROVE  /\ Steady(sched') /\ sched'.in_irq = FALSE /\ sched'.next = sched'.current
               /\ sched'.state = sched.state /\ sched'.current = sched.current
    <3>1. sched' = Reprioritized(t, p) /\ p \in Prio
      BY <2>2, PrioritiesAssumption DEF setprio_sleeping
    <3>2. PICK v \in Prio : ReprioritizedTo(sched, t, p, v, sched')
      BY <3>1, ReprioritizedEffect
    <3> QED BY <1>2, <3>2 DEF ReprioritizedTo
  <2> QED BY <2>1, <2>2
<1>4. KernelInv'
  <2>1. timers' \subseteq Thread
    BY <1>1 DEF KernelInv
  <2> QED BY <1>1, <1>2, <1>3, <2>1, ThreadStep
<1>5. \A x \in Thread : pc'[x] = IF x = Current THEN label ELSE pc[x]
  BY <1>1, <1>2, GotoEffect
<1>6. MutexTypeOK /\ OwnershipOK /\ WaitPlaces /\ RanksOK
  BY DEF StructInv
<1>7. StructInv'
  <2>1. MutexTypeOK' /\ OwnershipOK' /\ RanksOK'
    BY <1>1, <1>6 DEF MutexTypeOK, OwnershipOK, RanksOK, Holds
  <2>2. CASE label = "setprio_spread"
    <3>1. Current' = Current
      BY <1>3, <2>2 DEF Current
    <3>2. WaitPlaces'
      BY <1>1, <1>2, <1>5, <1>6, <2>2, <3>1 DEF WaitPlaces, Walking
    <3> QED BY <2>1, <3>2 DEF StructInv
  <2>3. CASE label = "user"
    <3>1. \A x \in Thread : pc'[x] \notin {"lock_spread", "setprio_spread", "fault"}
      BY <1>1, <1>5, <1>6, <2>3 DEF WaitPlaces
    <3>2. pc'[Current'] \notin {"lock_spread", "setprio_spread", "fault"}
      <4>1. Current' \in Thread \/ Current' = Idle
        BY <1>4 DEF KernelInv, Steady, Sound, SchedRecord, Current, Task
      <4> QED BY <1>4, <3>1, <4>1 DEF KernelInv, PlacesOK
    <3>3. WaitPlaces'
      BY <1>1, <1>2, <1>5, <1>6, <2>3, <3>1, <3>2 DEF WaitPlaces, Walking
    <3> QED BY <2>1, <3>3 DEF StructInv
  <2> QED BY <2>2, <2>3
<1>8. Moved
  BY <1>1, <1>2, <1>3, <1>4, <1>5, <1>7 DEF Moved, CountsOK, Current
<1> QED BY <1>1, <1>2, <1>5, <1>8 DEF MutexMove

\* Every step of the mutexes that is not one of the scheduler, and what it
\* takes to win.
LEMMA MutexMoves ==
    ASSUME KernelInv, StructInv,
           \/ Spread
           \/ \E m \in Mutex : Lock(m) \/ Unlock(m)
           \/ \E t \in Thread, p \in Priorities : SetPrio(t, p)
    PROVE  MutexMove
<1>1. CASE Spread
  BY <1>1, SpreadStepMove, SpreadQuietMove, SetPrioSpreadMove DEF Spread
<1>2. ASSUME NEW m \in Mutex, Lock(m) PROVE MutexMove
  BY <1>2, LockMove, LockSleepMove, LockWinMove DEF Lock
<1>3. ASSUME NEW m \in Mutex, Unlock(m) PROVE MutexMove
  BY <1>3, UnlockMove
<1>4. ASSUME NEW t \in Thread, NEW p \in Priorities, SetPrio(t, p) PROVE MutexMove
  BY <1>4, SetPrioMove, SetPrioSpreadMove DEF SetPrio
<1> QED BY <1>1, <1>2, <1>3, <1>4

-----------------------------------------------------------------------------
(***************************************************************************)
(* The queues, and what a step may do to a wait.                           *)
(***************************************************************************)
\* The entries of one queue belong to waits for its condition variable.
Fresh(c) ==
    /\ cond_wq[c] \in Seq(Thread)
    /\ Distinct(cond_wq[c])
    /\ \A t \in Thread : InQueue(cond_wq[c], t) => \E w \in waits[t] : w.cond = c

\* The queues can be looked at one by one.
LEMMA EachFresh ==
    ASSUME CondTypeOK PROVE NoStaleEntry <=> \A c \in Cond : Fresh(c)
<1>1. \A c \in Cond : cond_wq[c] \in Seq(Thread)
  BY DEF CondTypeOK
<1>2. ASSUME NoStaleEntry, NEW c \in Cond PROVE Fresh(c)
  BY <1>1, <1>2 DEF NoStaleEntry, Fresh, Distinct, InQueue
<1>3. ASSUME \A c \in Cond : Fresh(c) PROVE NoStaleEntry
  BY <1>1, <1>3 DEF NoStaleEntry, Fresh, Distinct, InQueue
<1> QED BY <1>2, <1>3

\* The same in the state after a step.
LEMMA EachFreshAfter ==
    ASSUME CondTypeOK', \A c \in Cond : Fresh(c)'
    PROVE  NoStaleEntry'
<1>1. \A c \in Cond : cond_wq'[c] \in Seq(Thread)
  BY DEF CondTypeOK
<1> QED BY <1>1 DEF NoStaleEntry, Fresh, Distinct, InQueue

\* A thread can be queued only for the condition variable of its wait.
LEMMA QueuedWaits ==
    ASSUME CondTypeOK, NoStaleEntry, NEW t \in Thread
    PROVE  /\ Queued(t) => waits[t] # {}
           /\ \A w \in waits[t] : Queued(t) <=> InQueue(cond_wq[w.cond], t)
           /\ \A c \in Cond : \A w \in waits[t] : InQueue(cond_wq[c], t) => w.cond = c
<1>1. \A c \in Cond : Fresh(c)
  BY EachFresh
<1>2. waits[t] \subseteq Arguments /\ \A v, w \in waits[t] : v = w
  BY DEF CondTypeOK
<1>3. \A w \in waits[t] : w.cond \in Cond
  BY <1>2 DEF Arguments
<1> QED BY <1>1, <1>2, <1>3 DEF Fresh, Queued

\* A wait is kept as it is by a step that does not touch it: it may leave its
\* queue as its thread is set running, and be woken by its timer or from its
\* sleep on the mutex.
LEMMA WaitKept ==
    ASSUME StructInv, NEW t \in Thread, WaitOK(t),
           waits'[t] = waits[t],
           waits[t] # {} =>
               pc'[t] = pc[t] /\ sleep_on'[t] = sleep_on[t] /\ held'[t] = held[t],
           t \in timers' => pc'[t] \in {"timer_add", "timer_delete", "timedwait_delete"},
           Queued(t)' => Queued(t),
           Queued(t) /\ ~Queued(t)' => sched'.state[t] = "RUNNING",
           waits[t] # {} /\ sched'.state[t] # sched.state[t] =>
               \/ sleep_on[t] # NULL
               \/ sched'.state[t] = "RUNNING" /\ (t \in timers \/ ~Queued(t)')
    PROVE  WaitOK(t)'
<1>1. CondPlace(t)'
  BY DEF WaitOK, CondPlace
<1>2. WaitMutex(t)'
  BY DEF WaitOK, WaitMutex, Holds
<1>3. Signalable(t)'
  BY DEF WaitOK, Signalable
<1>4. NoSpurious(t)'
  <2>1. sleep_on[t] # NULL => pc[t] \notin {"wait", "wait_lock"}
    BY DEF StructInv, WaitPlaces
  <2>2. t \in timers => pc[t] \notin {"wait", "wait_lock"}
    BY DEF WaitOK, CondPlace
  <2> QED BY <2>1, <2>2 DEF WaitOK, NoSpurious
<1> QED BY <1>1, <1>2, <1>3, <1>4 DEF WaitOK

\* Nothing is asked of a thread that is in no wait, but for its timer.
LEMMA NoWait ==
    ASSUME NEW t \in Thread, waits'[t] = {},
           t \in timers' => pc'[t] \in {"timer_add", "timer_delete", "timedwait_delete"}
    PROVE  WaitOK(t)'
BY DEF WaitOK, CondPlace, WaitMutex, Signalable, NoSpurious

\* The end of a wait takes the thread out of the queue, and touches no other.
LEMMA EndWaitEffect ==
    ASSUME CondTypeOK, NoStaleEntry, Current \in Thread, EndWait
    PROVE  /\ CondTypeOK' /\ NoStaleEntry'
           /\ waits'[Current] = {}
           /\ \A t \in Thread : t # Current => waits'[t] = waits[t]
           /\ \A t \in Thread : Queued(t)' <=> Queued(t) /\ t # Current
<1>1. PICK x \in Thread : x = Current
  OBVIOUS
<1>2. \A c \in Cond : Fresh(c)
  BY EachFresh
<1>3. /\ waits \in [Thread -> SUBSET Arguments]
      /\ waits' = [waits EXCEPT ![x] = {}]
      /\ cond_wq' = [c \in Cond |-> TAILQ_REMOVE(cond_wq[c], x)]
  BY <1>1 DEF CondTypeOK, EndWait
<1>4. /\ waits' \in [Thread -> SUBSET Arguments]
      /\ \A t \in Thread : waits'[t] = IF t = x THEN {} ELSE waits[t]
  BY <1>3
<1>5. ASSUME NEW c \in Cond
      PROVE  /\ cond_wq'[c] \in Seq(Thread)
             /\ Distinct(cond_wq'[c])
             /\ \A t : InQueue(cond_wq'[c], t) <=> InQueue(cond_wq[c], t) /\ t # x
  <2>1. cond_wq[c] \in Seq(Thread) /\ Distinct(cond_wq[c])
    BY <1>2 DEF Fresh
  <2> DEFINE r == TAILQ_REMOVE(cond_wq[c], x)
  <2>2. r \in Seq(Thread) /\ Distinct(r)
        /\ \A t : InQueue(r, t) <=> InQueue(cond_wq[c], t) /\ t # x
    BY <2>1, LeaveQueue
  <2>3. cond_wq'[c] = r
    BY <1>3
  <2> HIDE DEF r
  <2> QED BY <2>2, <2>3
<1>6. CondTypeOK'
  <2>1. cond_wq' \in [Cond -> Seq(Thread)]
    BY <1>3, <1>5
  <2>2. \A t \in Thread : \A v, w \in waits'[t] : v = w
    BY <1>4 DEF CondTypeOK
  <2> QED BY <1>4, <2>1, <2>2 DEF CondTypeOK
<1>7. ASSUME NEW c \in Cond PROVE Fresh(c)'
  <2>1. ASSUME NEW t \in Thread, InQueue(cond_wq'[c], t) PROVE \E w \in waits'[t] : w.cond = c
    <3>1. InQueue(cond_wq[c], t) /\ t # x /\ waits'[t] = waits[t]
      BY <1>4, <1>5, <2>1
    <3> QED BY <1>2, <3>1, Zenon DEF Fresh
  <2> QED BY <1>5, <2>1 DEF Fresh
<1>8. NoStaleEntry'
  BY <1>6, <1>7, EachFreshAfter
<1>9. \A t \in Thread : Queued(t)' <=> Queued(t) /\ t # x
  BY <1>5 DEF Queued
<1> QED BY <1>1, <1>4, <1>6, <1>8, <1>9

\* The beginning of a wait puts the thread into the queue, and touches no other.
LEMMA EnqueueEffect ==
    ASSUME CondTypeOK, NoStaleEntry, Current \in Thread, waits[Current] = {},
           NEW c \in Cond, NEW w \in Arguments, w.cond = c,
           Enqueue(c), waits' = [waits EXCEPT ![Current] = {w}]
    PROVE  /\ CondTypeOK' /\ NoStaleEntry'
           /\ waits'[Current] = {w}
           /\ \A t \in Thread : t # Current => waits'[t] = waits[t]
           /\ \A t \in Thread : Queued(t)' <=> Queued(t) \/ t = Current
<1>1. PICK x \in Thread : x = Current
  OBVIOUS
<1>2. \A d \in Cond : Fresh(d)
  BY EachFresh
<1>3. /\ waits \in [Thread -> SUBSET Arguments]
      /\ cond_wq \in [Cond -> Seq(Thread)]
      /\ waits' = [waits EXCEPT ![x] = {w}]
      /\ cond_wq' = [cond_wq EXCEPT ![c] = TAILQ_INSERT_TAIL(@, x)]
  BY <1>1 DEF CondTypeOK, Enqueue
<1>4. /\ waits' \in [Thread -> SUBSET Arguments]
      /\ \A t \in Thread : waits'[t] = IF t = x THEN {w} ELSE waits[t]
  BY <1>3
<1> DEFINE r == TAILQ_INSERT_TAIL(cond_wq[c], x)
<1>5. r \in Seq(Thread) /\ Distinct(r)
      /\ \A t : InQueue(r, t) <=> InQueue(cond_wq[c], t) \/ t = x
  <2>1. cond_wq[c] \in Seq(Thread) /\ Distinct(cond_wq[c]) /\ ~InQueue(cond_wq[c], x)
    BY <1>1, <1>2 DEF Fresh
  <2> QED BY <2>1, JoinQueue
<1> HIDE DEF r
<1>6. \A d \in Cond : cond_wq'[d] = IF d = c THEN r ELSE cond_wq[d]
  BY <1>3 DEF r
<1>7. ASSUME NEW d \in Cond
      PROVE  /\ cond_wq'[d] \in Seq(Thread)
             /\ Distinct(cond_wq'[d])
             /\ \A t : InQueue(cond_wq'[d], t) <=> InQueue(cond_wq[d], t) \/ (t = x /\ d = c)
  <2>1. CASE d = c
    BY <1>5, <1>6, <2>1
  <2>2. CASE d # c
    <3>1. cond_wq'[d] = cond_wq[d]
      BY <1>6, <2>2
    <3> QED BY <1>2, <2>2, <3>1 DEF Fresh
  <2> QED BY <2>1, <2>2
<1>8. CondTypeOK'
  <2>1. cond_wq' \in [Cond -> Seq(Thread)]
    BY <1>3, <1>5 DEF r
  <2>2. \A t \in Thread : \A v, y \in waits'[t] : v = y
    BY <1>4 DEF CondTypeOK
  <2> QED BY <1>4, <2>1, <2>2 DEF CondTypeOK
<1>9. ASSUME NEW d \in Cond PROVE Fresh(d)'
  <2>1. ASSUME NEW t \in Thread, InQueue(cond_wq'[d], t) PROVE \E v \in waits'[t] : v.cond = d
    <3>1. CASE t = x
      <4>1. ~InQueue(cond_wq[d], t)
        BY <1>1, <1>2, <3>1 DEF Fresh
      <4>2. d = c
        BY <1>7, <2>1, <4>1
      <4> QED BY <1>4, <3>1, <4>2
    <3>2. CASE t # x
      <4>1. InQueue(cond_wq[d], t) /\ waits'[t] = waits[t]
        BY <1>4, <1>7, <2>1, <3>2
      <4> QED BY <1>2, <4>1, Zenon DEF Fresh
    <3> QED BY <3>1, <3>2
  <2> QED BY <1>7, <2>1 DEF Fresh
<1>10. NoStaleEntry'
  BY <1>8, <1>9, EachFreshAfter
<1>11. \A t \in Thread : Queued(t)' <=> Queued(t) \/ t = x
  BY <1>7 DEF Queued
<1> QED BY <1>1, <1>4, <1>8, <1>10, <1>11

-----------------------------------------------------------------------------
(***************************************************************************)
(* The steps, one by one.                                                  *)
(***************************************************************************)
\* Only a thread that sleeps with a timer, or is deleting it, has one.
LEMMA TimerPlaces ==
    ASSUME CondInv
    PROVE  \A t \in timers :
               t \in Thread /\ pc[t] \in {"timer_add", "timer_delete", "timedwait_delete"}
BY DEF CondInv, KernelInv, WaitInv, WaitOK, CondPlace

\* A step of the scheduler.
LEMMA SchedCond ==
    ASSUME CondInv, SchedNext, UNCHANGED mutexVars, UNCHANGED condVars
    PROVE  CondInv'
<1>1. KernelInv /\ StructInv /\ WaitInv
  BY DEF CondInv
<1>2. KernelInv' /\ SchedMove
  BY <1>1, KernelStep
<1>3. StructInv'
  BY <1>1, <1>2, SchedStruct
<1>4. SchedWakes
  BY <1>1, SchedWakesStep, TimerPlaces
<1>5. /\ recursive_count' = recursive_count /\ sleep_on' = sleep_on /\ held' = held
      /\ cond_wq' = cond_wq /\ waits' = waits
  BY DEF mutexVars, condVars
<1>6. CondTypeOK' /\ NoStaleEntry' /\ CountsOK'
  BY <1>1, <1>5 DEF WaitInv, CondTypeOK, NoStaleEntry, CountsOK
<1>7. ASSUME NEW t \in Thread PROVE WaitOK(t)'
  <2>1. WaitOK(t) /\ (waits[t] # {} => pc[t] \notin SchedPc)
    BY <1>1 DEF WaitInv, WaitOK, CondPlace, SchedPc
  <2>2. waits[t] # {} => pc'[t] = pc[t]
    BY <1>2, <2>1 DEF SchedMove, Task
  <2>3. waits[t] # {} /\ sched'.state[t] # sched.state[t] =>
            t \in timers /\ sched'.state[t] = "RUNNING"
    BY <1>2, <1>4, <2>1 DEF SchedWakes, SchedMove, SchedPc
  <2>4. Queued(t)' <=> Queued(t)
    BY <1>5 DEF Queued
  <2>5. t \in timers' => pc'[t] \in {"timer_add", "timer_delete", "timedwait_delete"}
    BY <1>4 DEF SchedWakes
  <2> QED BY <1>1, <1>5, <2>1, <2>2, <2>3, <2>4, <2>5, WaitKept
<1>8. AwakeAtLock'
  <2>1. CASE Current' = Current
    <3>1. Current' \in Task
      BY <1>2 DEF KernelInv, Steady, Sound, SchedRecord, Current
    <3>2. pc'[Current'] # "wait_lock"
      BY <1>2, <2>1, <3>1 DEF SchedMove, Masked, SchedPc
    <3> QED BY <3>2 DEF AwakeAtLock
  <2>2. CASE Current' # Current
    BY <1>4, <2>2 DEF SchedWakes, AwakeAtLock
  <2> QED BY <2>1, <2>2
<1> QED BY <1>2, <1>3, <1>6, <1>7, <1>8 DEF CondInv, WaitInv

\* A step of the mutexes, with the end of the wait if it wins the mutex.
LEMMA MutexCond ==
    ASSUME CondInv, MutexMove, IF Wins THEN EndWait ELSE UNCHANGED condVars
    PROVE  CondInv'
<1>1. KernelInv /\ StructInv /\ WaitInv /\ CondTypeOK /\ NoStaleEntry /\ CountsOK
  BY DEF CondInv, WaitInv
<1>2. Moved /\ KernelInv' /\ StructInv' /\ Current \in Thread /\ CountsOK' /\ timers' = timers
  BY <1>1 DEF MutexMove, Moved
<1>3. Current \notin timers /\ \A t \in timers : t \in Thread /\ t # Current
  BY TimerPlaces DEF MutexMove
<1>4. \A t \in Thread : t \in timers' =>
          pc'[t] \in {"timer_add", "timer_delete", "timedwait_delete"}
  BY <1>2, <1>3, TimerPlaces DEF Moved
<1>5. PICK c \in Thread : c = Current
  BY <1>2
<1>6. /\ CondTypeOK' /\ NoStaleEntry'
      /\ \A t \in Thread : t # c => waits'[t] = waits[t] /\ (Queued(t)' <=> Queued(t))
      /\ \/ waits'[c] = {}
         \/ ~Wins /\ waits'[c] = waits[c] /\ (Queued(c)' <=> Queued(c))
  <2>1. CASE Wins
    BY <1>1, <1>2, <1>5, <2>1, EndWaitEffect
  <2>2. CASE ~Wins
    <3>1. cond_wq' = cond_wq /\ waits' = waits
      BY <2>2 DEF condVars
    <3>2. CondTypeOK' /\ NoStaleEntry'
      BY <1>1, <3>1 DEF CondTypeOK, NoStaleEntry
    <3>3. \A t \in Thread : waits'[t] = waits[t] /\ (Queued(t)' <=> Queued(t))
      BY <3>1 DEF Queued
    <3> QED BY <2>2, <3>2, <3>3
  <2> QED BY <2>1, <2>2
<1>7. ASSUME NEW t \in Thread, t # c PROVE WaitOK(t)'
  <2>1. WaitOK(t)
    BY <1>1 DEF WaitInv
  <2>2. /\ pc'[t] = pc[t] /\ sleep_on'[t] = sleep_on[t] /\ held'[t] = held[t]
        /\ sched'.state[t] # sched.state[t] => sleep_on[t] # NULL
    BY <1>2, <1>5, <1>7 DEF Moved
  <2> QED BY <1>1, <1>4, <1>6, <1>7, <2>1, <2>2, WaitKept
<1>8. WaitOK(c)'
  <2>1. CASE waits'[c] = {}
    BY <1>4, <2>1, NoWait
  <2>2. CASE waits'[c] # {}
    <3>1. /\ waits[c] # {} /\ ~Wins /\ waits'[c] = waits[c] /\ (Queued(c)' <=> Queued(c))
          /\ WaitOK(c)
      BY <1>1, <1>6, <2>2 DEF WaitInv
    <3>2. pc[c] \in {"lock_spread", "lock_try"}
      BY <1>5, <3>1 DEF MutexMove, WaitOK, CondPlace
    <3>3. /\ pc'[c] \in {"lock_spread", "lock_try", "fault"}
          /\ sleep_on'[c] = sleep_on[c] /\ held'[c] = held[c]
      BY <1>5, <3>1, <3>2 DEF MutexMove
    <3>4. sleep_on[c] # NULL
      BY <1>1, <3>2 DEF StructInv, WaitPlaces
    <3>5. CondPlace(c)'
      BY <1>2, <1>3, <1>5, <3>3 DEF CondPlace
    <3>6. WaitMutex(c)'
      BY <3>1, <3>3 DEF WaitOK, WaitMutex, Holds
    <3>7. Signalable(c)'
      BY <3>3, <3>4 DEF Signalable
    <3>8. NoSpurious(c)'
      BY <3>1, <3>2 DEF WaitOK, NoSpurious
    <3> QED BY <3>5, <3>6, <3>7, <3>8 DEF WaitOK
  <2> QED BY <2>1, <2>2
<1>9. AwakeAtLock'
  <2>1. CASE Current' = Current
    <3>1. pc'[Current'] # "wait_lock"
      BY <2>1 DEF MutexMove
    <3> QED BY <3>1 DEF AwakeAtLock
  <2>2. CASE Current' # Current
    BY <1>2, <2>2 DEF Moved, AwakeAtLock
  <2> QED BY <2>1, <2>2
<1>10. \A t \in Thread : WaitOK(t)'
  BY <1>7, <1>8
<1> QED BY <1>2, <1>6, <1>9, <1>10 DEF CondInv, WaitInv

\* The current thread marks itself SLEEPING, and is still current and queued.
LEMMA FallingAsleepEffect ==
    ASSUME KernelInv, ~sched.in_irq, Current \in Thread
    PROVE  /\ Steady(FallingAsleep)
           /\ FallingAsleep.current = Current
           /\ FallingAsleep.next = sched.next
           /\ FallingAsleep.in_irq = FALSE
           /\ \A t \in Thread : FallingAsleep.state[t] =
                 IF t = Current THEN "SLEEPING" ELSE sched.state[t]
<1> DEFINE v == FallingAsleep
<1>1. /\ sched \in SchedRecord /\ Steady(sched) /\ sched.state \in [Task -> State]
      /\ Current \in Task /\ Current # Idle /\ Current = sched.current
      /\ sched.in_irq = FALSE /\ "SLEEPING" \in State
  BY SchedAssumption DEF KernelInv, Steady, Sound, SchedRecord, Task, Current, State
<1>2. StateStored(sched, Current, "SLEEPING", v)
  BY <1>1, StoreState DEF Steady, FallingAsleep
<1> HIDE DEF v
<1>3. Steady(v)
  <2>1. Sound(v) /\ v.current \in v.linked
    BY <1>1, <1>2 DEF StateStored, Steady
  <2>2. Ready(v) /\ Sliced(v)
    BY <1>1, <1>2 DEF StateStored, Steady, Ready, Sliced
  <2> QED BY <2>1, <2>2 DEF Steady
<1>4. \A t \in Thread : v.state[t] = IF t = Current THEN "SLEEPING" ELSE sched.state[t]
  BY <1>1, <1>2 DEF StateStored, Task
<1>5. v.current = Current /\ v.next = sched.next /\ v.in_irq = FALSE
  BY <1>1, <1>2 DEF StateStored
<1> QED BY <1>3, <1>4, <1>5 DEF v

\* What a wait leaves: the mutex is given up once, the current thread SLEEPING.
LEMMA WaitUnlocks ==
    ASSUME KernelInv, StructInv, NEW c \in Cond, NEW m \in Mutex,
           NEW kind \in {"wait", "timedwait"}, cond_wait(c, m, kind)
    PROVE  /\ UnlockedFrom(FallingAsleep, m, kind)
           /\ (Current' = Current \/ sched'.state[Current'] = "RUNNING")
<1>1. At("user") /\ Goto(kind) /\ pc[Current] = "user" /\ ~sched.in_irq
  BY DEF cond_wait, Calls, At
<1>2. Current \in Thread /\ Outside(kind) /\ kind \notin {"init", "sti", "halt"}
  BY <1>1, ThreadRuns DEF Outside
<1> DEFINE s == FallingAsleep
<1>3. /\ Steady(s) /\ s.current = Current /\ s.next = sched.next /\ s.in_irq = FALSE
      /\ \A t \in Thread : s.state[t] = "NONE" => sched.state[t] = "NONE"
  BY <1>1, <1>2, FallingAsleepEffect
<1> HIDE DEF s
<1>4. CASE Release(m) /\ sched' = schedule(Unlocked(s, m))
  BY <1>1, <1>2, <1>3, <1>4, ReleaseFrom DEF s
<1>5. CASE CountDown(m) /\ sched' = s
  <2>1. UnlockedFrom(sched', m, kind)
    BY <1>1, <1>2, <1>3, <1>5, CountDownFrom
  <2>2. UnlockedFrom(s, m, kind)
    BY <1>5, <2>1 DEF UnlockedFrom
  <2> QED BY <1>3, <1>5, <2>2 DEF s, Current
<1> QED BY <1>4, <1>5 DEF cond_wait, s

\* pthread_cond_wait() and pthread_cond_timedwait(), up to the unlock.
LEMMA WaitCond ==
    ASSUME CondInv, NEW c \in Cond, NEW m \in Mutex,
           NEW kind \in {"wait", "timedwait"}, cond_wait(c, m, kind)
    PROVE  CondInv'
<1>1. KernelInv /\ StructInv /\ WaitInv /\ CondTypeOK /\ NoStaleEntry /\ CountsOK
  BY DEF CondInv, WaitInv
<1>2. /\ pc[Current] = "user" /\ ~sched.in_irq /\ Enqueue(c)
      /\ waits' = [waits EXCEPT ![Current] = {Args(c, m, kind)}]
      /\ \A h \in Holds(Current) \ {m} : Rank[h] < Rank[m]
  BY DEF cond_wait, Calls, At
<1>3. /\ UnlockedFrom(FallingAsleep, m, kind)
      /\ (Current' = Current \/ sched'.state[Current'] = "RUNNING")
  BY <1>1, WaitUnlocks
<1>4. PICK x \in Thread : x = Current
  BY <1>3 DEF UnlockedFrom
<1> DEFINE w == Args(c, m, kind)
<1>5. w \in Arguments /\ w.cond = c /\ w.mutex = m /\ w.kind = kind
  BY DEF Args, Arguments
<1>6. waits[x] = {} /\ x \notin timers /\ sleep_on[x] = NULL
  <2>1. WaitOK(x) /\ x \in Thread
    BY <1>1, <1>4 DEF WaitInv
  <2>2. sleep_on[x] = NULL
    BY <1>1, <1>2, <1>4 DEF StructInv, WaitPlaces
  <2> QED BY <1>2, <1>4, <2>1, <2>2 DEF WaitOK, CondPlace
<1> HIDE DEF w
<1>7. waits' = [waits EXCEPT ![Current] = {w}]
  BY <1>2 DEF w
<1>8. /\ CondTypeOK' /\ NoStaleEntry'
      /\ waits'[x] = {w}
      /\ \A t \in Thread : t # x => waits'[t] = waits[t]
      /\ \A t \in Thread : Queued(t)' <=> Queued(t) \/ t = x
  BY <1>1, <1>2, <1>4, <1>5, <1>6, <1>7, EnqueueEffect
<1>9. /\ KernelInv' /\ StructInv' /\ CountsOK' /\ timers' = timers /\ sleep_on' = sleep_on
      /\ \A t \in Thread : pc'[t] = IF t = x THEN kind ELSE pc[t]
      /\ \A t \in Thread : t # x => held'[t] = held[t]
      /\ \A h \in Mutex : held'[x][h] = IF h = m THEN held[x][m] - 1 ELSE held[x][h]
      /\ held[x][m] > 1 => m \in Recursive
  BY <1>1, <1>3, <1>4 DEF UnlockedFrom
<1>10. /\ sched'.state[x] = "SLEEPING"
       /\ \A t \in Thread : t # x /\ sched'.state[t] # sched.state[t] => sleep_on[t] # NULL
  <2>1. \A t \in Thread : FallingAsleep.state[t] = IF t = x THEN "SLEEPING" ELSE sched.state[t]
    BY <1>1, <1>2, <1>4, FallingAsleepEffect
  <2> QED BY <1>3, <1>4, <1>6, <2>1 DEF UnlockedFrom
<1>11. \A t \in Thread : t \in timers' =>
           t # x /\ pc'[t] \in {"timer_add", "timer_delete", "timedwait_delete"}
  BY <1>6, <1>9, TimerPlaces
<1>12. ASSUME NEW t \in Thread PROVE WaitOK(t)'
  <2>1. CASE t # x
    <3>1. WaitOK(t)
      BY <1>1 DEF WaitInv
    <3>2. /\ pc'[t] = pc[t] /\ sleep_on'[t] = sleep_on[t] /\ held'[t] = held[t]
          /\ waits'[t] = waits[t] /\ (Queued(t)' <=> Queued(t))
          /\ (sched'.state[t] # sched.state[t] => sleep_on[t] # NULL)
      BY <1>8, <1>9, <1>10, <2>1
    <3> QED BY <1>1, <1>11, <3>1, <3>2, WaitKept
  <2>2. CASE t = x
    <3>1. CondPlace(x)'
      BY <1>5, <1>8, <1>9, <1>11 DEF CondPlace
    <3>2. WaitMutex(x)'
      <4>1. \A h \in Mutex : held'[x][h] > 0 /\ h # m => h \in Holds(Current)
        BY <1>4, <1>9 DEF Holds
      <4>2. held'[x][m] > 0 => m \in Recursive
        <5>1. held[x][m] \in Nat
          BY <1>1 DEF StructInv, MutexTypeOK
        <5> QED BY <1>9, <5>1
      <4> QED BY <1>2, <1>5, <1>6, <1>8, <1>9, <4>1, <4>2 DEF WaitMutex, Holds
    <3>3. Signalable(x)'
      BY <1>8 DEF Signalable
    <3>4. NoSpurious(x)'
      BY <1>5, <1>8, <1>9, <1>10 DEF NoSpurious
    <3> QED BY <2>2, <3>1, <3>2, <3>3, <3>4 DEF WaitOK
  <2> QED BY <2>1, <2>2
<1>13. AwakeAtLock'
  <2>1. CASE Current' = Current
    <3>1. pc'[Current'] # "wait_lock"
      BY <1>4, <1>9, <2>1
    <3> QED BY <3>1 DEF AwakeAtLock
  <2>2. CASE Current' # Current
    BY <1>3, <2>2 DEF AwakeAtLock
  <2> QED BY <2>1, <2>2
<1> QED BY <1>8, <1>9, <1>12, <1>13 DEF CondInv, WaitInv

\* Inside a wait the records of the mutexes are kept.
LEMMA WaitStruct ==
    ASSUME KernelInv, KernelInv', StructInv, Current \in Thread,
           Outside(pc[Current]), NEW label, Outside(label), Goto(label),
           UNCHANGED mutexVars
    PROVE  StructInv'
<1>1. MutexTypeOK /\ OwnershipOK /\ WaitPlaces /\ RanksOK
  BY DEF StructInv
<1>2. /\ lock' = lock /\ owner' = owner /\ recursive_count' = recursive_count
      /\ wq' = wq /\ sleep_on' = sleep_on /\ mutex_queue' = mutex_queue
      /\ cursor' = cursor /\ held' = held /\ stale' = stale
  BY DEF mutexVars, structVars
<1>3. MutexTypeOK' /\ OwnershipOK' /\ RanksOK'
  BY <1>1, <1>2 DEF MutexTypeOK, OwnershipOK, RanksOK, Holds
<1>4. \A t \in Thread : pc'[t] = IF t = Current THEN label ELSE pc[t]
  BY GotoEffect
<1>5. ~Walking /\ sleep_on[Current] = NULL
  BY <1>1 DEF Outside, Walking, WaitPlaces
<1>6. WaitPlaces'
  <2>1. label \notin {"none", "lock_spread", "setprio_spread", "fault"}
        /\ (sleep_on'[Current] # NULL <=> label = "lock_try")
    BY <1>2, <1>5 DEF Outside
  <2> QED BY <1>1, <1>2, <1>4, <1>5, <2>1, CalmPlaces
<1> QED BY <1>3, <1>6 DEF StructInv

\* The statements of a wait between the unlock and the lock.
LEMMA WaitingCond ==
    ASSUME CondInv,
           wait_schedule \/ timedwait_late \/ timedwait_schedule \/ timedwait_delete
    PROVE  CondInv'
<1>1. KernelInv /\ StructInv /\ WaitInv /\ CondTypeOK /\ NoStaleEntry /\ CountsOK
  BY DEF CondInv, WaitInv
<1>2. PICK from \in {"wait", "timedwait", "timedwait_delete"},
           label \in {"wait_lock", "timedwait_delete"} :
      /\ pc[Current] = from /\ ~sched.in_irq /\ Goto(label)
      /\ label = "timedwait_delete" => from = "timedwait"
      /\ sched' = schedule(sched) \/ (sched' = sched /\ from # "wait")
      /\ \/ timers' = timers /\ from # "timedwait_delete"
         \/ timers' = timers \cup {Current} /\ label = "timedwait_delete"
         \/ timers' = timers \ {Current}
      /\ UNCHANGED mutexVars /\ UNCHANGED condVars
  <2>1. CASE wait_schedule
    BY <2>1 DEF wait_schedule, At
  <2>2. CASE timedwait_late
    BY <2>2 DEF timedwait_late, At
  <2>3. CASE timedwait_schedule
    BY <2>3 DEF timedwait_schedule, At
  <2>4. CASE timedwait_delete
    BY <2>4 DEF timedwait_delete, At
  <2> QED BY <2>1, <2>2, <2>3, <2>4
<1>3. PICK x \in Thread : x = Current
  BY <1>1, <1>2, ThreadRuns
<1>4. sched.in_irq = FALSE /\ sched.next = sched.current /\ Steady(sched)
  BY <1>1, <1>2, ThreadRuns DEF KernelInv
<1>5. /\ Steady(sched') /\ sched'.in_irq = FALSE /\ sched'.next = sched'.current
      /\ sched'.state = sched.state
      /\ sched'.state[sched'.current] = "RUNNING" \/ (sched'.current = x /\ from # "wait")
  <2>1. CASE sched' = schedule(sched)
    BY <1>4, <2>1, SwitchStep
  <2>2. CASE sched' = sched /\ from # "wait"
    BY <1>3, <1>4, <2>2 DEF Current
  <2> QED BY <1>2, <2>1, <2>2
<1>6. KernelInv'
  <2>1. timers' \subseteq Thread
    BY <1>1, <1>2, <1>3 DEF KernelInv
  <2>2. pc[Current] # "none" /\ label \notin {"init", "sti", "halt"}
    BY <1>2
  <2> QED BY <1>1, <1>2, <1>3, <1>5, <2>1, <2>2, ThreadStep
<1>7. StructInv'
  <2>1. Outside(pc[Current]) /\ Outside(label)
    BY <1>2 DEF Outside
  <2> QED BY <1>1, <1>2, <1>3, <1>6, <2>1, WaitStruct
<1>8. /\ recursive_count' = recursive_count /\ sleep_on' = sleep_on /\ held' = held
      /\ cond_wq' = cond_wq /\ waits' = waits
  BY <1>2 DEF mutexVars, structVars, condVars
<1>9. CondTypeOK' /\ NoStaleEntry' /\ CountsOK'
  BY <1>1, <1>8 DEF CondTypeOK, NoStaleEntry, CountsOK
<1>10. \A t \in Thread : pc'[t] = IF t = x THEN label ELSE pc[t]
  BY <1>1, <1>2, <1>3, GotoEffect
<1>11. \A t \in Thread : t \in timers' =>
           pc'[t] \in {"timer_add", "timer_delete", "timedwait_delete"}
  <2>1. \A t \in Thread \ {x} : t \in timers' => t \in timers
    BY <1>2, <1>3
  <2>2. x \in timers' => label = "timedwait_delete"
    BY <1>2, <1>3, TimerPlaces
  <2> QED BY <1>3, <1>10, <2>1, <2>2, TimerPlaces
<1>12. \A t \in Thread : Queued(t)' <=> Queued(t)
  BY <1>8 DEF Queued
<1>13. \A w \in waits[x] : from # "wait" => w.kind = "timedwait"
  BY <1>1, <1>2, <1>3 DEF WaitInv, WaitOK, CondPlace
<1>14. ASSUME NEW t \in Thread PROVE WaitOK(t)'
  <2>1. WaitOK(t)
    BY <1>1 DEF WaitInv
  <2>2. CASE t # x
    BY <1>1, <1>5, <1>8, <1>10, <1>11, <1>12, <2>1, <2>2, WaitKept
  <2>3. CASE t = x
    <3>1. CondPlace(x)'
      BY <1>2, <1>8, <1>10, <1>11, <1>13 DEF CondPlace
    <3>2. WaitMutex(x)'
      BY <1>8, <2>1, <2>3 DEF WaitOK, WaitMutex, Holds
    <3>3. Signalable(x)'
      BY <1>5, <1>8, <1>12, <2>1, <2>3 DEF WaitOK, Signalable
    <3>4. NoSpurious(x)'
      BY <1>2, <1>5, <1>8, <1>10, <1>12, <1>13, <2>1, <2>3 DEF WaitOK, NoSpurious
    <3> QED BY <2>3, <3>1, <3>2, <3>3, <3>4 DEF WaitOK
  <2> QED BY <2>2, <2>3
<1>15. AwakeAtLock'
  <2>1. CASE sched'.state[sched'.current] = "RUNNING"
    BY <2>1 DEF AwakeAtLock, Current
  <2>2. CASE sched'.current = x /\ from # "wait"
    <3>1. \A w \in waits'[Current'] : w.kind # "wait"
      BY <1>8, <1>13, <2>2 DEF Current
    <3> QED BY <3>1 DEF AwakeAtLock
  <2> QED BY <1>5, <2>1, <2>2
<1> QED BY <1>6, <1>7, <1>9, <1>14, <1>15 DEF CondInv, WaitInv

\* A wait takes its mutex again and is over.
LEMMA WaitLockTakes ==
    ASSUME CondInv, NEW m \in Mutex, At("wait_lock"), TakeFree(m) \/ TakeAgain(m), EndWait
    PROVE  CondInv'
<1>1. KernelInv /\ StructInv /\ WaitInv /\ CondTypeOK /\ NoStaleEntry /\ CountsOK
  BY DEF CondInv, WaitInv
<1>2. Moved /\ pc'[Current] = "user"
  <2>1. CallsLock("wait_lock")
    BY DEF CallsLock
  <2> QED BY <1>1, <2>1, TakeFreeMoved, TakeAgainMoved
<1>3. PICK x \in Thread : x = Current
  BY <1>2 DEF Moved
<1>4. /\ CondTypeOK' /\ NoStaleEntry'
      /\ waits'[x] = {}
      /\ \A t \in Thread : t # x => waits'[t] = waits[t]
      /\ \A t \in Thread : Queued(t)' <=> Queued(t) /\ t # x
  BY <1>1, <1>3, EndWaitEffect
<1>5. /\ KernelInv' /\ StructInv' /\ CountsOK' /\ timers' = timers
      /\ \A t \in Thread : t # x =>
            pc'[t] = pc[t] /\ sleep_on'[t] = sleep_on[t] /\ held'[t] = held[t]
      /\ \A t \in Thread : sched'.state[t] # sched.state[t] => sleep_on[t] # NULL
      /\ Current' = Current \/ sched'.state[Current'] = "RUNNING"
  BY <1>1, <1>2, <1>3 DEF Moved
<1>6. \A t \in Thread : t \in timers' =>
          t # x /\ pc'[t] \in {"timer_add", "timer_delete", "timedwait_delete"}
  <2>1. x \notin timers
    BY <1>3, TimerPlaces DEF At
  <2> QED BY <1>5, <2>1, TimerPlaces
<1>7. ASSUME NEW t \in Thread PROVE WaitOK(t)'
  <2>1. CASE t # x
    <3>1. WaitOK(t)
      BY <1>1 DEF WaitInv
    <3> QED BY <1>1, <1>4, <1>5, <1>6, <2>1, <3>1, WaitKept
  <2>2. CASE t = x
    BY <1>4, <1>6, <2>2, NoWait
  <2> QED BY <2>1, <2>2
<1>8. AwakeAtLock'
  <2>1. CASE Current' = Current
    <3>1. pc'[Current'] # "wait_lock"
      BY <1>2, <2>1
    <3> QED BY <3>1 DEF AwakeAtLock
  <2>2. CASE Current' # Current
    BY <1>5, <2>2 DEF AwakeAtLock
  <2> QED BY <2>1, <2>2
<1> QED BY <1>4, <1>5, <1>7, <1>8 DEF CondInv, WaitInv

\* The mutex of the wait may be waited for.
LEMMA WaitRanks ==
    ASSUME CondInv, NEW m \in Mutex, Current \in Thread, Contend(m),
           \E w \in waits[Current] : w.mutex = m
    PROVE  \A h \in Holds(Current) : Rank[h] < Rank[m]
<1>1. StructInv /\ WaitMutex(Current)
  BY DEF CondInv, WaitInv, WaitOK
<1>2. ~(m \in Recursive /\ owner[m] = Current)
  BY DEF Contend
<1>3. m \notin Holds(Current)
  BY <1>1, <1>2, HolderOwns DEF WaitMutex
<1> QED BY <1>1, <1>3 DEF WaitMutex

\* A wait finds its mutex taken, and contends for it.
LEMMA WaitLockContends ==
    ASSUME CondInv, NEW m \in Mutex, At("wait_lock"),
           \E w \in waits[Current] : w.mutex = m,
           Contend(m), UNCHANGED condVars
    PROVE  CondInv'
<1>1. KernelInv /\ StructInv /\ WaitInv /\ CondTypeOK /\ NoStaleEntry /\ CountsOK /\ AwakeAtLock
  BY DEF CondInv, WaitInv
<1>2. PICK x \in Thread : x = Current
  BY <1>1, ThreadRuns DEF At
<1>3. Moved /\ pc'[x] = "lock_spread" /\ sleep_on'[x] = m /\ held' = held
  <2>1. CallsLock("wait_lock")
    BY DEF CallsLock
  <2>2. \A h \in Holds(Current) : Rank[h] < Rank[m]
    BY <1>2, WaitRanks
  <2> QED BY <1>1, <1>2, <2>1, <2>2, ContendMoved
<1>4. /\ KernelInv' /\ StructInv' /\ CountsOK' /\ timers' = timers
      /\ \A t \in Thread : t # x =>
            pc'[t] = pc[t] /\ sleep_on'[t] = sleep_on[t] /\ held'[t] = held[t]
      /\ \A t \in Thread : sched'.state[t] # sched.state[t] => sleep_on[t] # NULL
      /\ Current' = Current \/ sched'.state[Current'] = "RUNNING"
  BY <1>1, <1>2, <1>3 DEF Moved
<1>5. cond_wq' = cond_wq /\ waits' = waits
  BY DEF condVars
<1>6. CondTypeOK' /\ NoStaleEntry' /\ \A t \in Thread : Queued(t)' <=> Queued(t)
  BY <1>1, <1>5 DEF CondTypeOK, NoStaleEntry, Queued
<1>7. \A t \in Thread : t \in timers' =>
          t # x /\ pc'[t] \in {"timer_add", "timer_delete", "timedwait_delete"}
  <2>1. x \notin timers
    BY <1>2, TimerPlaces DEF At
  <2> QED BY <1>4, <2>1, TimerPlaces
<1>8. ASSUME NEW t \in Thread PROVE WaitOK(t)'
  <2>1. WaitOK(t)
    BY <1>1 DEF WaitInv
  <2>2. CASE t # x
    BY <1>1, <1>4, <1>5, <1>6, <1>7, <2>1, <2>2, WaitKept
  <2>3. CASE t = x
    <3>1. CondPlace(x)'
      BY <1>3, <1>7 DEF CondPlace
    <3>2. WaitMutex(x)'
      <4>1. \A w \in waits[x] : w.mutex = m
        BY <1>1, <1>2 DEF CondTypeOK
      <4> QED BY <1>3, <1>5, <2>1, <2>3, <4>1 DEF WaitOK, WaitMutex, Holds
    <3>3. Signalable(x)'
      BY <1>3, MutexAssumption DEF Signalable
    <3>4. NoSpurious(x)'
      <4>1. pc[Current] = "wait_lock"
        BY DEF At
      <4>2. \A w \in waits[x] : w.kind = "wait" => ~Queued(x)
        BY <1>1, <1>2, <2>1, <2>3, <4>1 DEF WaitOK, NoSpurious, AwakeAtLock
      <4> QED BY <1>5, <1>6, <4>2 DEF NoSpurious
    <3> QED BY <2>3, <3>1, <3>2, <3>3, <3>4 DEF WaitOK
  <2> QED BY <2>2, <2>3
<1>9. AwakeAtLock'
  <2>1. CASE Current' = Current
    <3>1. pc'[Current'] # "wait_lock"
      BY <1>2, <1>3, <2>1
    <3> QED BY <3>1 DEF AwakeAtLock
  <2>2. CASE Current' # Current
    BY <1>4, <2>2 DEF AwakeAtLock
  <2> QED BY <2>1, <2>2
<1> QED BY <1>4, <1>6, <1>8, <1>9 DEF CondInv, WaitInv

\* The threads of one queue that are left out of it, and of no other, are no
\* longer queued.
LEMMA DequeueEffect ==
    ASSUME CondTypeOK, NoStaleEntry, NEW c \in Cond,
           NEW r \in Seq(Thread), Distinct(r),
           \A t \in Thread : InQueue(r, t) => InQueue(cond_wq[c], t),
           cond_wq' = [cond_wq EXCEPT ![c] = r], waits' = waits
    PROVE  /\ CondTypeOK' /\ NoStaleEntry'
           /\ \A t \in Thread :
                 Queued(t)' <=> Queued(t) /\ (InQueue(cond_wq[c], t) => InQueue(r, t))
<1>1. \A d \in Cond : Fresh(d)
  BY EachFresh
<1>2. cond_wq \in [Cond -> Seq(Thread)]
  BY DEF CondTypeOK
<1>3. CondTypeOK'
  BY <1>2 DEF CondTypeOK
<1>4. \A d \in Cond : cond_wq'[d] = IF d = c THEN r ELSE cond_wq[d]
  BY <1>2
<1>5. ASSUME NEW d \in Cond PROVE Fresh(d)'
  <2>1. CASE d = c
    BY <1>1, <1>4, <2>1 DEF Fresh
  <2>2. CASE d # c
    BY <1>1, <1>4, <2>2 DEF Fresh
  <2> QED BY <2>1, <2>2
<1>6. NoStaleEntry'
  BY <1>3, <1>5, EachFreshAfter
<1>7. ASSUME NEW t \in Thread
      PROVE  Queued(t)' <=> Queued(t) /\ (InQueue(cond_wq[c], t) => InQueue(r, t))
  <2>1. \A d \in Cond : InQueue(cond_wq[c], t) /\ InQueue(cond_wq[d], t) => d = c
    <3>1. /\ Queued(t) => waits[t] # {}
          /\ \A d \in Cond : \A w \in waits[t] : InQueue(cond_wq[d], t) => w.cond = d
      BY QueuedWaits
    <3> QED BY <3>1 DEF Queued
  <2>2. Queued(t)' <=> \E d \in Cond : InQueue(cond_wq'[d], t)
    BY DEF Queued
  <2> QED BY <1>4, <2>1, <2>2 DEF Queued
<1> QED BY <1>3, <1>6, <1>7

\* A step that takes threads out of one queue and sets these, and no others,
\* running.
LEMMA WakesCond ==
    ASSUME CondInv, At("user"), NEW c \in Cond,
           NEW r \in Seq(Thread), Distinct(r),
           \A t \in Thread : InQueue(r, t) => InQueue(cond_wq[c], t),
           cond_wq' = [cond_wq EXCEPT ![c] = r], waits' = waits,
           pc' = pc, timers' = timers, UNCHANGED mutexVars,
           Steady(sched'), sched'.in_irq = FALSE, sched'.next = sched'.current,
           sched'.state[sched'.current] = "RUNNING",
           \A t \in Thread : sched'.state[t] =
               IF InQueue(cond_wq[c], t) /\ ~InQueue(r, t) THEN "RUNNING" ELSE sched.state[t]
    PROVE  CondInv'
<1>1. KernelInv /\ StructInv /\ WaitInv /\ CondTypeOK /\ NoStaleEntry /\ CountsOK
  BY DEF CondInv, WaitInv
<1>2. /\ CondTypeOK' /\ NoStaleEntry'
      /\ \A t \in Thread :
            Queued(t)' <=> Queued(t) /\ (InQueue(cond_wq[c], t) => InQueue(r, t))
  BY <1>1, DequeueEffect
<1>3. ~sched.in_irq /\ pc[Current] = "user" /\ Goto("user")
  BY <1>1 DEF At, Goto, KernelInv
<1>4. Current \in Thread
  BY <1>1, <1>3, ThreadRuns
<1>5. KernelInv'
  <2>1. timers' \subseteq Thread
    BY <1>1 DEF KernelInv
  <2>2. \A t \in Thread : sched'.state[t] = "NONE" => sched.state[t] = "NONE"
    OBVIOUS
  <2> QED BY <1>1, <1>3, <1>4, <2>1, <2>2, ThreadStep
<1>6. StructInv'
  <2>1. Outside("user")
    BY DEF Outside
  <2> QED BY <1>1, <1>3, <1>4, <1>5, <2>1, WaitStruct
<1>7. recursive_count' = recursive_count /\ sleep_on' = sleep_on /\ held' = held
  BY DEF mutexVars, structVars
<1>8. CountsOK'
  BY <1>1, <1>7 DEF CountsOK
<1>9. ASSUME NEW t \in Thread PROVE WaitOK(t)'
  <2>1. WaitOK(t)
    BY <1>1 DEF WaitInv
  <2>2. t \in timers' => pc'[t] \in {"timer_add", "timer_delete", "timedwait_delete"}
    BY TimerPlaces
  <2> QED BY <1>1, <1>2, <1>7, <2>1, <2>2, WaitKept
<1>10. AwakeAtLock'
  BY DEF AwakeAtLock, Current
<1> QED BY <1>2, <1>5, <1>6, <1>8, <1>9, <1>10 DEF CondInv, WaitInv

\* pthread_cond_signal().
LEMMA SignalCond ==
    ASSUME CondInv, NEW c \in Cond, signal(c)
    PROVE  CondInv'
<1> DEFINE q == cond_wq[c]
           target == HighestWaiter(sched, q)
           r == TAILQ_REMOVE(q, target)
<1>1. /\ At("user") /\ q # <<>>
      /\ cond_wq' = [cond_wq EXCEPT ![c] = r]
      /\ sched' = wake_up(sched, target)
      /\ pc' = pc /\ timers' = timers /\ waits' = waits /\ UNCHANGED mutexVars
  BY DEF signal, Calls
<1>2. /\ KernelInv /\ Steady(sched) /\ sched \in SchedRecord
      /\ sched.state \in [Task -> State]
      /\ sched.in_irq = FALSE /\ Fresh(c)
  <2>1. KernelInv /\ Fresh(c)
    BY EachFresh DEF CondInv, WaitInv
  <2> QED BY <1>1, <2>1 DEF KernelInv, Steady, Sound, SchedRecord, At
<1>3. q \in Seq(Thread) /\ Distinct(q)
  BY <1>2 DEF Fresh
<1>4. PICK i \in 1..Len(q) : target = q[i]
  BY <1>1, <1>2, <1>3, HighestWaiterOf
<1>5. target \in Thread /\ target \in Task /\ InQueue(q, target)
  BY <1>3, <1>4 DEF InQueue, Task
<1> HIDE DEF target
<1>6. /\ r \in Seq(Thread) /\ Distinct(r)
      /\ \A t : InQueue(r, t) <=> InQueue(q, t) /\ t # target
  BY <1>3, <1>5, LeaveQueue
<1> HIDE DEF q, r
<1>7. PICK u : MadeRunning(sched, target, u) /\ Rescheduled(u, sched')
  BY <1>1, <1>2, <1>5, WakeUpEffect
<1>8. /\ Steady(sched') /\ sched'.in_irq = FALSE /\ sched'.next = sched'.current
      /\ sched'.state[sched'.current] = "RUNNING"
  BY <1>2, <1>7 DEF MadeRunning, Rescheduled, Switched
<1>9. sched'.state = [sched.state EXCEPT ![target] = "RUNNING"]
  BY <1>7, Zenon DEF MadeRunning, Rescheduled
<1>10. \A t \in Thread : sched'.state[t] = IF t = target THEN "RUNNING" ELSE sched.state[t]
  BY <1>2, <1>5, <1>9 DEF Task
<1>11. \A t \in Thread : sched'.state[t] =
           IF InQueue(cond_wq[c], t) /\ ~InQueue(r, t) THEN "RUNNING" ELSE sched.state[t]
  BY <1>5, <1>6, <1>10 DEF q
<1>12. \A t \in Thread : InQueue(r, t) => InQueue(cond_wq[c], t)
  BY <1>6 DEF q
<1> QED BY <1>1, <1>6, <1>8, <1>11, <1>12, WakesCond

\* pthread_cond_broadcast().
LEMMA BroadcastCond ==
    ASSUME CondInv, NEW c \in Cond, broadcast(c)
    PROVE  CondInv'
<1> DEFINE q == cond_wq[c]
           u == AllRunning(sched, q)
<1>1. /\ At("user")
      /\ cond_wq' = [cond_wq EXCEPT ![c] = <<>>]
      /\ sched' = schedule(u)
      /\ pc' = pc /\ timers' = timers /\ waits' = waits /\ UNCHANGED mutexVars
  BY DEF broadcast, Calls
<1>2. Steady(sched) /\ sched.in_irq = FALSE /\ Fresh(c)
  <2>1. KernelInv /\ Fresh(c)
    BY EachFresh DEF CondInv, WaitInv
  <2> QED BY <1>1, <2>1 DEF KernelInv, Steady, Sound, SchedRecord, At
<1>3. q \in Seq(Thread)
  BY <1>2 DEF Fresh
<1>4. Woken(sched, q, Len(q), u)
  BY <1>2, <1>3, AllRunningEffect
<1> HIDE DEF u, q
<1>5. Rescheduled(u, sched')
  <2>1. Steady(u)
    BY <1>4 DEF Woken
  <2> QED BY <1>1, <2>1, RescheduleEffect, Zenon
<1>6. /\ Steady(sched') /\ sched'.in_irq = FALSE /\ sched'.next = sched'.current
      /\ sched'.state[sched'.current] = "RUNNING"
      /\ sched'.state = u.state
  BY <1>2, <1>4, <1>5 DEF Woken, Rescheduled, Switched
<1>7. \A t \in Thread : sched'.state[t] = IF InQueue(q, t) THEN "RUNNING" ELSE sched.state[t]
  <2>1. \A t \in Thread : u.state[t] =
            IF \E i \in 1..Len(q) : q[i] = t THEN "RUNNING" ELSE sched.state[t]
    BY <1>4 DEF Woken, Task
  <2> QED BY <1>6, <2>1 DEF InQueue
<1>8. /\ <<>> \in Seq(Thread) /\ Distinct(<<>>)
      /\ \A t \in Thread : ~InQueue(<<>>, t)
  BY DEF Distinct, InQueue
<1>9. \A t \in Thread : sched'.state[t] =
          IF InQueue(cond_wq[c], t) /\ ~InQueue(<<>>, t) THEN "RUNNING" ELSE sched.state[t]
  BY <1>7, <1>8 DEF q
<1> QED BY <1>1, <1>6, <1>8, <1>9, WakesCond

\* Boot establishes the invariant.
LEMMA CondInitInv == CondInit => CondInv
<1> SUFFICES ASSUME CondInit PROVE CondInv
  OBVIOUS
<1>1. /\ MutexInit
      /\ cond_wq = [c \in Cond |-> <<>>]
      /\ waits = [t \in Thread |-> {}]
  BY DEF CondInit
<1>2. KernelInv /\ StructInv
  BY <1>1, MutexInitInv DEF MutexInv
<1>3. timers = {} /\ recursive_count = [m \in Mutex |-> 0]
  BY <1>1 DEF MutexInit, SchedInit
<1>4. CondTypeOK /\ NoStaleEntry /\ CountsOK
  BY <1>1, <1>3 DEF CondTypeOK, NoStaleEntry, CountsOK
<1>5. \A t \in Thread : WaitOK(t)
  BY <1>1, <1>3 DEF WaitOK, CondPlace, WaitMutex, Signalable, NoSpurious
<1>6. AwakeAtLock
  BY <1>1 DEF AwakeAtLock
<1> QED BY <1>2, <1>4, <1>5, <1>6 DEF CondInv, WaitInv

\* A step of the scheduler or of the mutexes keeps the invariant.
LEMMA MutexNextCond ==
    ASSUME CondInv, MutexNext, IF Wins THEN EndWait ELSE UNCHANGED condVars
    PROVE  CondInv'
<1>1. KernelInv /\ StructInv
  BY DEF CondInv
<1>2. CASE SchedNext /\ UNCHANGED mutexVars
  <2>1. ~Wins
    <3>1. pc[Current] \notin Masked \ {"init"}
      BY <1>1, <1>2, KernelStep DEF SchedMove
    <3> QED BY <3>1 DEF Wins, At, Masked
  <2> QED BY <1>2, <2>1, SchedCond
<1>3. CASE \/ Spread
           \/ \E m \in Mutex : Lock(m) \/ Unlock(m)
           \/ \E t \in Thread, p \in Priorities : SetPrio(t, p)
  BY <1>1, <1>3, MutexMoves, MutexCond
<1> QED BY <1>2, <1>3 DEF MutexNext

\* Every step keeps the invariant.
LEMMA CondNextInv == CondInv /\ [CondNext]_allVars => CondInv'
<1> SUFFICES ASSUME CondInv, [CondNext]_allVars PROVE CondInv'
  OBVIOUS
<1>1. CASE MutexNext /\ IF Wins THEN EndWait ELSE UNCHANGED condVars
  BY <1>1, MutexNextCond
<1>2. ASSUME NEW c \in Cond, NEW m \in Mutex, NEW kind \in {"wait", "timedwait"},
             cond_wait(c, m, kind)
      PROVE  CondInv'
  BY <1>2, WaitCond
<1>3. CASE Waiting
  <2>1. ASSUME NEW m \in Mutex, wait_lock(m) PROVE CondInv'
    BY <2>1, WaitLockTakes, WaitLockContends DEF wait_lock
  <2> QED BY <1>3, <2>1, WaitingCond DEF Waiting
<1>4. ASSUME NEW c \in Cond, signal(c) \/ broadcast(c) PROVE CondInv'
  BY <1>4, SignalCond, BroadcastCond
<1>5. CASE UNCHANGED allVars
  <2>1. /\ sched' = sched /\ pc' = pc /\ timers' = timers
        /\ lock' = lock /\ owner' = owner /\ recursive_count' = recursive_count
        /\ wq' = wq /\ sleep_on' = sleep_on /\ mutex_queue' = mutex_queue
        /\ cursor' = cursor /\ held' = held /\ stale' = stale /\ Current' = Current
        /\ cond_wq' = cond_wq /\ waits' = waits
    BY <1>5 DEF allVars, vars, Current
  <2>2. KernelInv'
    BY <2>1 DEF CondInv, KernelInv, PlacesOK
  <2>3. StructInv'
    BY <2>1 DEF CondInv, StructInv, MutexTypeOK, OwnershipOK, WaitPlaces, Walking, RanksOK, Holds
  <2>4. CondTypeOK' /\ NoStaleEntry' /\ CountsOK'
    BY <2>1 DEF CondInv, WaitInv, CondTypeOK, NoStaleEntry, CountsOK
  <2>5. \A t \in Thread : WaitOK(t)'
    BY <2>1 DEF CondInv, WaitInv, WaitOK, CondPlace, WaitMutex, Signalable, NoSpurious,
                Queued, Holds
  <2>6. AwakeAtLock'
    BY <2>1 DEF CondInv, WaitInv, AwakeAtLock
  <2> QED BY <2>2, <2>3, <2>4, <2>5, <2>6 DEF CondInv, WaitInv
<1> QED BY <1>1, <1>2, <1>3, <1>4, <1>5 DEF CondNext

\* The invariant holds in every reachable state.
LEMMA CondInvariant == CondSpec => []CondInv
<1>1. CondInit => CondInv
  BY CondInitInv
<1>2. CondInv /\ [CondNext]_allVars => CondInv'
  BY CondNextInv
<1> QED BY <1>1, <1>2, PTL DEF CondSpec

-----------------------------------------------------------------------------
(***************************************************************************)
(* Theorems.                                                               *)
(***************************************************************************)
\* A struct wait is on its thread's stack: pthread_cond_timedwait() never
\* returns with it still in the queue of the condition variable.
THEOREM EntriesCorrect == CondSpec => []NoStaleEntry
<1>1. CondInv => NoStaleEntry
  BY DEF CondInv, WaitInv
<1> QED BY <1>1, CondInvariant, PTL

\* The unlock and the sleep of pthread_cond_wait() leave no window: a thread
\* that is off the run queue in a wait can be signalled, or waits for the mutex.
THEOREM SignalCorrect == CondSpec => []NoLostSignal
<1>1. CondInv => NoLostSignal
  <2> SUFFICES ASSUME CondInv, NEW t \in Thread, waits[t] # {}, t \notin sched.linked
               PROVE  (\E c \in Cond : InQueue(cond_wq[c], t)) \/ sleep_on[t] # NULL
    BY DEF NoLostSignal
  <2>1. Steady(sched) /\ Signalable(t) /\ t \in Task
    BY DEF CondInv, KernelInv, WaitInv, WaitOK, Task
  <2>2. sched.state[t] # "RUNNING"
    BY <2>1 DEF Steady, Ready
  <2> QED BY <2>1, <2>2 DEF Signalable, Queued
<1> QED BY <1>1, CondInvariant, PTL

\* The condition variables use the run queue and the mutexes as they are meant
\* to be used, the thread that calls unlock while it is SLEEPING included.
THEOREM CondQueueCorrect == CondSpec => [](RunQueueOK /\ PeekSafe /\ ReadyIsQueued /\ OwnershipOK)
<1>1. CondInv => RunQueueOK /\ PeekSafe /\ ReadyIsQueued /\ OwnershipOK
  BY KernelProperties DEF CondInv, StructInv
<1> QED BY <1>1, CondInvariant, PTL

-----------------------------------------------------------------------------
(***************************************************************************)
(* The refinement of CondSpec.                                             *)
(***************************************************************************)
\* The blocked threads of CondSpec are those with an entry in a queue.
LEMMA BlockedQueued ==
    /\ Blocked = {t \in Thread : Queued(t)}
    /\ Blocked' = {t \in Thread : Queued(t)'}
BY DEF Blocked, Queued

\* The locks of CondSpec: whoever becomes the owner acquires the mutex.
LEMMA OwnAcquires ==
    ASSUME StructInv, Current \in Thread, NEW m \in Mutex, lock[m] = 1, Own(m)
    PROVE  Conds!Acquire(Current, m)
<1>1. Consistent(m) /\ \A t \in Thread : t # NULL
  BY EachConsistent, SchedAssumption DEF StructInv
<1>2. \A t \in Thread : held[t][m] = 0
  BY <1>1 DEF Consistent
<1> QED BY <1>2 DEF Own, Counts, Conds!Acquire, Conds!Free

\* Locking a recursive mutex again.
LEMMA AgainReacquires ==
    ASSUME StructInv, Current \in Thread, NEW m \in Mutex, TakeAgain(m)
    PROVE  Conds!Reacquire(Current, m)
<1>1. owner[m] = Current /\ m \in Recursive /\ Counts(Current, m, held[Current][m] + 1)
  BY DEF TakeAgain
<1>2. MutexTypeOK /\ Consistent(m) /\ Current # NULL
  BY EachConsistent, SchedAssumption DEF StructInv
<1>3. held[Current][m] > 0
  BY <1>1, <1>2 DEF Consistent, MutexTypeOK
<1> QED BY <1>1, <1>3 DEF Counts, Conds!Reacquire

\* Both kinds of unlock.
LEMMA UnlockReleases ==
    ASSUME StructInv, Current \in Thread, NEW m \in Mutex, Release(m) \/ CountDown(m)
    PROVE  Conds!Release(Current, m)
<1>1. m \in Holds(Current) /\ (Release(m) => recursive_count[m] = 1)
  BY DEF Release, CountDown
<1>2. held[Current][m] = recursive_count[m]
  BY <1>1, HolderOwns
<1>3. Counts(Current, m, held[Current][m] - 1)
  BY <1>1, <1>2 DEF Release, CountDown
<1> QED BY <1>1, <1>3 DEF Holds, Counts, Conds!Release

\* Of the steps of the mutexes that do not win one after a sleep, those that
\* take or give up a mutex are steps of a thread that is in no wait.
LEMMA LockingStep ==
    ASSUME CondInv, MutexNext, ~Wins, UNCHANGED condVars
    PROVE  [Conds!CondNext]_<<held, waits, Blocked>>
<1>1. KernelInv /\ StructInv
  BY DEF CondInv
<1>2. waits' = waits /\ Blocked' = Blocked
  BY DEF condVars, Blocked
<1>3. ASSUME held' = held PROVE [Conds!CondNext]_<<held, waits, Blocked>>
  BY <1>2, <1>3
<1>4. ASSUME At("user"), NEW m \in Mutex,
             Conds!Acquire(Current, m) \/ Conds!Reacquire(Current, m) \/ Conds!Release(Current, m)
      PROVE  [Conds!CondNext]_<<held, waits, Blocked>>
  <2>1. Current \in Thread
    BY <1>1, <1>4, ThreadRuns DEF At
  <2>2. waits[Current] = {}
    BY <1>4, <2>1 DEF CondInv, WaitInv, WaitOK, CondPlace, At
  <2>3. Conds!Locking
    BY <1>2, <1>4, <2>1, <2>2 DEF Conds!Locking, Conds!Waiting
  <2> QED BY <2>3 DEF Conds!CondNext
<1>5. ASSUME At("user") PROVE Current \in Thread
  BY <1>1, <1>5, ThreadRuns DEF At
<1>6. CASE SchedNext /\ UNCHANGED mutexVars
  BY <1>3, <1>6 DEF mutexVars
<1>7. CASE Spread
  BY <1>3, <1>7 DEF Spread, spread_step, spread_null, lock_spread_done, setprio_done, mutexVars
<1>8. ASSUME NEW m \in Mutex, Lock(m) PROVE [Conds!CondNext]_<<held, waits, Blocked>>
  <2>1. ASSUME At("user"), TakeFree(m) \/ TakeAgain(m)
        PROVE  [Conds!CondNext]_<<held, waits, Blocked>>
    <3>1. CASE TakeFree(m)
      BY <1>1, <1>4, <1>5, <2>1, <3>1, OwnAcquires DEF TakeFree
    <3>2. CASE TakeAgain(m)
      BY <1>1, <1>4, <1>5, <2>1, <3>2, AgainReacquires
    <3> QED BY <2>1, <3>1, <3>2
  <2>2. CASE lock_free(m) \/ lock_again(m) \/ trylock(m)
    BY <2>1, <2>2 DEF lock_free, lock_again, trylock, Calls
  <2>3. CASE lock_contend(m)
    BY <1>3, <2>3 DEF lock_contend, Contend
  <2>4. CASE lock_sleep(m)
    BY <1>3, <2>4 DEF lock_sleep
  <2>5. CASE lock_win(m)
    BY <2>5 DEF lock_win, Wins
  <2> QED BY <1>8, <2>2, <2>3, <2>4, <2>5 DEF Lock
<1>9. ASSUME NEW m \in Mutex, Unlock(m) PROVE [Conds!CondNext]_<<held, waits, Blocked>>
  <2>1. At("user") /\ (Release(m) \/ CountDown(m))
    BY <1>9 DEF Unlock, unlock, unlock_again, Calls
  <2> QED BY <1>1, <1>4, <1>5, <2>1, UnlockReleases
<1>10. ASSUME NEW t \in Thread, NEW p \in Priorities, SetPrio(t, p)
       PROVE  [Conds!CondNext]_<<held, waits, Blocked>>
  BY <1>3, <1>10 DEF SetPrio, setprio_same, setprio, setprio_sleeping, mutexVars
<1> QED BY <1>6, <1>7, <1>8, <1>9, <1>10 DEF MutexNext

\* The end of a wait is a return, with the mutex of the wait.
LEMMA EndWaitReturns ==
    ASSUME CondInv, Current \in Thread, EndWait, NEW m \in Mutex,
           Conds!Acquire(Current, m) \/ Conds!Reacquire(Current, m),
           NEW w \in waits[Current], w.mutex = m,
           Queued(Current) => w.kind = "timedwait"
    PROVE  Conds!Return(Current)
<1>1. CondTypeOK /\ NoStaleEntry
  BY DEF CondInv, WaitInv
<1>2. PICK x \in Thread : x = Current
  OBVIOUS
<1>3. \A t \in Thread : Queued(t)' <=> Queued(t) /\ t # x
  BY <1>1, <1>2, EndWaitEffect
<1>4. Blocked' = Blocked \ {x} /\ (x \in Blocked <=> Queued(x))
  BY <1>3, BlockedQueued
<1>5. waits' = [waits EXCEPT ![Current] = {}]
  BY DEF EndWait
<1> QED BY <1>2, <1>4, <1>5 DEF Conds!Return

\* Winning a mutex after a sleep ends the wait that it was locked for, if any.
LEMMA WinReturns ==
    ASSUME CondInv, MutexNext, Wins, EndWait
    PROVE  Conds!CondNext
<1>1. KernelInv /\ StructInv /\ CondTypeOK /\ NoStaleEntry
  BY DEF CondInv, WaitInv
<1>2. pc[Current] = "lock_try" /\ ~sched.in_irq /\ lock[sleep_on[Current]] = 1
  BY DEF Wins, At
<1>3. Current \in Thread
  BY <1>1, <1>2, ThreadRuns
<1>4. PICK m \in Mutex : lock_win(m)
  <2>1. ~SchedNext
    <3>1. ASSUME SchedNext PROVE FALSE
      BY <1>1, <1>2, <3>1, KernelStep DEF SchedMove, Masked
    <3> QED BY <3>1
  <2>2. ~Spread
    BY <1>2 DEF Spread, spread_step, spread_null, lock_spread_done, setprio_done, Spreading, At
  <2>3. \A m \in Mutex : ~Unlock(m) /\ (Lock(m) => lock_win(m))
    BY <1>2 DEF Unlock, unlock, unlock_again, Lock, lock_free, lock_again, lock_contend,
                trylock, lock_sleep, Calls, At
  <2>4. \A t \in Thread, p \in Priorities : ~SetPrio(t, p)
    BY <1>2 DEF SetPrio, setprio_same, setprio, setprio_sleeping, Calls, At
  <2> QED BY <2>1, <2>2, <2>3, <2>4 DEF MutexNext
<1>5. sleep_on[Current] = m /\ lock[m] = 1 /\ Own(m) /\ m # NULL
  BY <1>4, MutexAssumption DEF lock_win
<1>6. Conds!Acquire(Current, m)
  BY <1>1, <1>3, <1>5, OwnAcquires
<1>7. WaitOK(Current)
  BY <1>3 DEF CondInv, WaitInv
<1>8. ASSUME NEW w \in waits[Current] PROVE Conds!CondNext
  <2>1. w.mutex = m
    BY <1>5, <1>7 DEF WaitOK, WaitMutex
  <2>2. Queued(Current) => w.kind = "timedwait"
    <3>1. w.kind \in {"wait", "timedwait"}
      BY <1>1, <1>3 DEF CondTypeOK, Arguments
    <3> QED BY <1>2, <1>7, <3>1 DEF WaitOK, NoSpurious
  <2>3. Conds!Return(Current)
    BY <1>3, <1>6, <2>1, <2>2, EndWaitReturns
  <2> QED BY <1>3, <2>3 DEF Conds!CondNext
<1>9. CASE waits[Current] = {}
  <2>1. PICK x \in Thread : x = Current
    BY <1>3
  <2>2. /\ \A t \in Thread : Queued(t)' <=> Queued(t) /\ t # x
        /\ ~Queued(x)
    BY <1>1, <1>9, <2>1, EndWaitEffect, QueuedWaits
  <2>3. Blocked' = Blocked
    BY <2>2, BlockedQueued
  <2>4. waits' = waits
    BY <1>1, <1>3, <1>9 DEF EndWait, CondTypeOK
  <2>5. Conds!Locking
    BY <1>3, <1>6, <1>9, <2>3, <2>4 DEF Conds!Locking, Conds!Waiting
  <2> QED BY <2>5 DEF Conds!CondNext
<1> QED BY <1>8, <1>9

\* A wait unlocks the mutex and blocks in one step.
LEMMA WaitWaits ==
    ASSUME CondInv, NEW c \in Cond, NEW m \in Mutex,
           NEW kind \in {"wait", "timedwait"}, cond_wait(c, m, kind)
    PROVE  Conds!CondNext
<1>1. KernelInv /\ StructInv /\ CondTypeOK /\ NoStaleEntry
  BY DEF CondInv, WaitInv
<1> DEFINE w == [cond |-> c, mutex |-> m, kind |-> kind]
<1>2. /\ pc[Current] = "user" /\ ~sched.in_irq /\ Enqueue(c)
      /\ waits' = [waits EXCEPT ![Current] = {w}]
      /\ Release(m) \/ CountDown(m)
  BY DEF cond_wait, Calls, At, Args
<1>3. PICK x \in Thread : x = Current
  BY <1>1, <1>2, ThreadRuns
<1>4. waits[x] = {}
  BY <1>2, <1>3 DEF CondInv, WaitInv, WaitOK, CondPlace
<1>5. w \in Arguments /\ w.cond = c /\ w.mutex = m
  BY DEF Arguments
<1>6. Conds!Release(x, w.mutex)
  BY <1>1, <1>2, <1>3, <1>5, UnlockReleases
<1> HIDE DEF w
<1>7. \A t \in Thread : Queued(t)' <=> Queued(t) \/ t = x
  BY <1>1, <1>2, <1>3, <1>4, <1>5, EnqueueEffect
<1>8. Blocked' = Blocked \cup {x}
  BY <1>7, BlockedQueued
<1>9. Conds!Wait(x, w)
  BY <1>2, <1>3, <1>4, <1>6, <1>8 DEF Conds!Wait, Conds!Waiting
<1> QED BY <1>9 DEF Conds!CondNext, w

\* The lock at the end of a wait returns, or the thread goes on to wait for it.
LEMMA WaitLockReturns ==
    ASSUME CondInv, NEW m \in Mutex, wait_lock(m)
    PROVE  [Conds!CondNext]_<<held, waits, Blocked>>
<1>1. /\ KernelInv /\ StructInv /\ AwakeAtLock
      /\ \A t \in Thread : waits[t] \subseteq Arguments
  BY DEF CondInv, WaitInv, CondTypeOK
<1>2. pc[Current] = "wait_lock" /\ ~sched.in_irq
  BY DEF wait_lock, At
<1>3. Current \in Thread
  BY <1>1, <1>2, ThreadRuns
<1>4. CASE (TakeFree(m) \/ TakeAgain(m)) /\ EndWait
  <2>1. PICK w \in waits[Current] : w.mutex = m
    BY DEF wait_lock
  <2>2. Conds!Acquire(Current, m) \/ Conds!Reacquire(Current, m)
    BY <1>1, <1>3, <1>4, OwnAcquires, AgainReacquires DEF TakeFree
  <2>3. Queued(Current) => w.kind = "timedwait"
    <3>1. NoSpurious(Current)
      BY <1>3 DEF CondInv, WaitInv, WaitOK
    <3>2. w.kind \in {"wait", "timedwait"}
      BY <1>1, <1>3, <2>1 DEF Arguments
    <3> QED BY <1>1, <1>2, <1>3, <2>1, <3>1, <3>2 DEF NoSpurious, AwakeAtLock
  <2>4. Conds!Return(Current)
    BY <1>3, <1>4, <2>1, <2>2, <2>3, EndWaitReturns
  <2> QED BY <1>3, <2>4 DEF Conds!CondNext
<1>5. CASE Contend(m) /\ UNCHANGED condVars
  BY <1>5 DEF Contend, condVars, Blocked
<1> QED BY <1>4, <1>5 DEF wait_lock

\* Who is in the queue of c is blocked on c.
LEMMA BlockedOnQueue ==
    ASSUME CondInv, NEW c \in Cond
    PROVE  \A t \in Thread : t \in Conds!BlockedOn(c) <=> InQueue(cond_wq[c], t)
<1>1. ASSUME NEW t \in Thread
      PROVE  t \in Conds!BlockedOn(c) <=> InQueue(cond_wq[c], t)
  <2>1. /\ Queued(t) => waits[t] # {}
        /\ \A w \in waits[t] : Queued(t) <=> InQueue(cond_wq[w.cond], t)
        /\ \A d \in Cond : \A w \in waits[t] : InQueue(cond_wq[d], t) => w.cond = d
    BY QueuedWaits DEF CondInv, WaitInv
  <2>2. t \in Conds!BlockedOn(c) <=> Queued(t) /\ \E w \in waits[t] : w.cond = c
    BY BlockedQueued DEF Conds!BlockedOn
  <2>3. InQueue(cond_wq[c], t) => Queued(t)
    BY DEF Queued
  <2> QED BY <2>1, <2>2, <2>3
<1> QED BY <1>1

\* A signal lets one blocked thread go, a broadcast all of them.
LEMMA SignalSignals ==
    ASSUME CondInv, NEW c \in Cond, signal(c) \/ broadcast(c)
    PROVE  Conds!CondNext
<1>1. /\ KernelInv /\ CondTypeOK /\ NoStaleEntry /\ Fresh(c)
      /\ sched \in SchedRecord
  <2>1. CondTypeOK /\ NoStaleEntry /\ KernelInv
    BY DEF CondInv, WaitInv
  <2> QED BY <2>1, EachFresh DEF KernelInv, Steady, Sound
<1>2. waits' = waits /\ held' = held /\ cond_wq[c] # <<>>
  BY DEF signal, broadcast, mutexVars
<1>3. cond_wq[c] \in Seq(Thread) /\ Distinct(cond_wq[c])
  BY <1>1 DEF Fresh
<1>4. \A t \in Thread : t \in Conds!BlockedOn(c) <=> InQueue(cond_wq[c], t)
  BY BlockedOnQueue
<1>5. CASE signal(c)
  <2> DEFINE x == HighestWaiter(sched, cond_wq[c])
             r == TAILQ_REMOVE(cond_wq[c], x)
  <2>1. x \in Thread /\ InQueue(cond_wq[c], x)
    <3>1. PICK i \in 1..Len(cond_wq[c]) : x = cond_wq[c][i]
      BY <1>1, <1>2, <1>3, HighestWaiterOf
    <3> QED BY <1>3, <3>1 DEF InQueue
  <2>2. cond_wq' = [cond_wq EXCEPT ![c] = r]
    BY <1>5 DEF signal
  <2> HIDE DEF x
  <2>3. r \in Seq(Thread) /\ Distinct(r)
        /\ \A t : InQueue(r, t) <=> InQueue(cond_wq[c], t) /\ t # x
    BY <1>3, <2>1, LeaveQueue
  <2> HIDE DEF r
  <2>4. \A t \in Thread :
            Queued(t)' <=> Queued(t) /\ (InQueue(cond_wq[c], t) => InQueue(r, t))
    BY <1>1, <1>2, <2>2, <2>3, DequeueEffect
  <2>5. Queued(x)
    BY <2>1 DEF Queued
  <2>6. Blocked' = Blocked \ {x}
    <3>1. \A t \in Thread : Queued(t)' <=> Queued(t) /\ t # x
      BY <2>1, <2>3, <2>4
    <3> QED BY <3>1, BlockedQueued
  <2>7. Conds!Signal(c)
    BY <1>2, <1>4, <2>1, <2>6 DEF Conds!Signal
  <2> QED BY <2>7 DEF Conds!CondNext
<1>6. CASE broadcast(c)
  <2>1. <<>> \in Seq(Thread) /\ Distinct(<<>>) /\ \A t \in Thread : ~InQueue(<<>>, t)
    BY DEF Distinct, InQueue
  <2>2. cond_wq' = [cond_wq EXCEPT ![c] = <<>>]
    BY <1>6 DEF broadcast
  <2>3. \A t \in Thread :
            Queued(t)' <=> Queued(t) /\ (InQueue(cond_wq[c], t) => InQueue(<<>>, t))
    BY <1>1, <1>2, <2>1, <2>2, DequeueEffect
  <2>4. Blocked' = Blocked \ Conds!BlockedOn(c)
    <3>1. \A t \in Thread : Queued(t)' <=> Queued(t) /\ t \notin Conds!BlockedOn(c)
      BY <1>4, <2>1, <2>3
    <3> QED BY <3>1, BlockedQueued
  <2>5. Conds!Broadcast(c)
    BY <1>2, <2>4 DEF Conds!Broadcast
  <2> QED BY <2>5 DEF Conds!CondNext
<1> QED BY <1>5, <1>6

\* The condition variables implement CondSpec: pthread_cond_wait() unlocks and
\* blocks in one step, a signal frees one thread and a broadcast all of those
\* that wait, only a timed wait ends by itself, and a wait returns in the step
\* in which it holds its mutex again.
THEOREM CondRefinement == CondSpec => ImplementsCond
<1>1. CondInit => Conds!CondInit
  <2> SUFFICES ASSUME CondInit PROVE Conds!CondInit
    OBVIOUS
  <2>1. /\ held = [t \in Thread |-> [m \in Mutex |-> 0]]
        /\ waits = [t \in Thread |-> {}]
        /\ cond_wq = [c \in Cond |-> <<>>]
    BY DEF CondInit, MutexInit
  <2>2. Blocked = {}
    BY <2>1 DEF Blocked, InQueue
  <2> QED BY <2>1, <2>2 DEF Conds!CondInit, Conds!Init
<1>2. ASSUME CondInv, [CondNext]_allVars PROVE [Conds!CondNext]_<<held, waits, Blocked>>
  <2>1. CASE MutexNext /\ IF Wins THEN EndWait ELSE UNCHANGED condVars
    BY <1>2, <2>1, LockingStep, WinReturns
  <2>2. ASSUME NEW c \in Cond, NEW m \in Mutex, NEW kind \in {"wait", "timedwait"},
               cond_wait(c, m, kind)
        PROVE  Conds!CondNext
    BY <1>2, <2>2, WaitWaits
  <2>3. CASE Waiting
    <3>1. ASSUME NEW m \in Mutex, wait_lock(m)
          PROVE  [Conds!CondNext]_<<held, waits, Blocked>>
      BY <1>2, <3>1, WaitLockReturns
    <3>2. CASE wait_schedule \/ timedwait_late \/ timedwait_schedule \/ timedwait_delete
      <4>1. UNCHANGED mutexVars /\ UNCHANGED condVars
        BY <3>2 DEF wait_schedule, timedwait_late, timedwait_schedule, timedwait_delete
      <4> QED BY <4>1 DEF mutexVars, condVars, Blocked
    <3> QED BY <2>3, <3>1, <3>2 DEF Waiting
  <2>4. ASSUME NEW c \in Cond, signal(c) \/ broadcast(c) PROVE Conds!CondNext
    BY <1>2, <2>4, SignalSignals
  <2>5. CASE UNCHANGED allVars
    BY <2>5 DEF allVars, vars, Blocked
  <2> QED BY <1>2, <2>1, <2>2, <2>3, <2>4, <2>5 DEF CondNext
<1> QED BY <1>1, <1>2, CondInvariant, PTL DEF CondSpec, ImplementsCond, Conds!CondSpec

-----------------------------------------------------------------------------
(***************************************************************************)
(* The producer and the consumer: the inductive invariant.                 *)
(***************************************************************************)
Labels == {"lock", "test", "signal", "unlock", "increment", "clear", "print"}
Numbers == 0..(Modulus - 1)

AppTypeOK ==
    /\ app \in [Thread -> Labels]
    /\ pcount \in BOOLEAN
    /\ count \in Numbers /\ printed \in Numbers /\ number \in Numbers

\* Thread t is between its lock and its unlock, and not in a wait.
Critical(t) == pc[t] = "user" /\ app[t] \in {"test", "signal", "clear", "unlock"}

\* Where t is in the kernel, and that it holds the mutex exactly in its critical
\* section.
Guarded(t) ==
    /\ app[t] = "lock" => pc[t] \in {"none", "user"}
    /\ app[t] = "test" => pc[t] \in {"user", "lock_spread", "lock_try", "wait", "wait_lock"}
    /\ app[t] \notin {"lock", "test"} => pc[t] = "user"
    /\ held[t][mutex] = IF Critical(t) THEN 1 ELSE 0

\* The number is in the consumer's hands, who has not read it.
Open == pcount /\ app[Consumer] # "clear"

\* The producer has handed count over, and has still to increment it.
Late == app[Producer] \in {"signal", "unlock", "increment"}

\* The numbers agree but for what the two threads have still to do.
HandOver ==
    /\ app[Consumer] = "clear" => pcount
    /\ Late /\ ~Open => number = Plus1(count)
    /\ ~Late /\ Open => count = Plus1(number)
    /\ (Late <=> Open) => count = number
    /\ app[Consumer] \in {"clear", "signal", "unlock", "print"} =>
          number = printed \/ number = Plus1(printed)

AppInv == AppTypeOK /\ HandOver /\ \A t \in Thread : Guarded(t)

PCInv == CondInv /\ AppInv

\* Incrementing stays in the range.
LEMMA Plus1Type == \A k \in Numbers : Plus1(k) \in Numbers
BY RolesAssumption DEF Numbers, Plus1

\* It is an addition that comes round at the end of the range.
LEMMA Plus1Is ==
    ASSUME NEW k \in Numbers
    PROVE  Plus1(k) = IF k = Modulus - 1 THEN 0 ELSE k + 1
BY RolesAssumption DEF Numbers, Plus1

\* How far apart two numbers are.
LEMMA Apart ==
    ASSUME NEW a \in Numbers, NEW b \in Numbers
    PROVE  /\ (a + Modulus - b) % Modulus = IF a < b THEN a + Modulus - b ELSE a - b
           /\ (a + Modulus - 1) % Modulus = IF a = 0 THEN Modulus - 1 ELSE a - 1
BY RolesAssumption DEF Numbers

-----------------------------------------------------------------------------
\* The application makes no step that module Cond does not allow.
LEMMA AppUsesCond ==
    ASSUME KernelInv, PCNext
    PROVE  CondNext \/ UNCHANGED allVars
<1>1. ASSUME SchedNext PROVE ~Wins
  <2>1. pc[Current] \notin Masked \ {"init"}
    BY <1>1, KernelStep DEF SchedMove
  <2> QED BY <2>1 DEF Wins, At, Masked
<1>2. CASE Starting \/ Ticking
  <2>1. SchedNext /\ UNCHANGED mutexVars /\ UNCHANGED condVars
    BY <1>2 DEF Starting, Ticking, SchedNext
  <2> QED BY <1>1, <2>1 DEF CondNext, MutexNext
<1>3. mutex \in Mutex /\ cond_empty \in Cond /\ cond_full \in Cond
  BY RolesAssumption
<1>4. CASE InKernel
  <2>1. CASE Spread /\ UNCHANGED condVars
    <3>1. ~Wins
      BY <2>1 DEF Spread, spread_step, spread_null, lock_spread_done, setprio_done,
                  Spreading, At, Wins
    <3> QED BY <2>1, <3>1 DEF CondNext, MutexNext
  <2>2. CASE lock_sleep(mutex) /\ UNCHANGED condVars
    <3>1. ~Wins
      BY <2>2 DEF lock_sleep, Wins
    <3> QED BY <1>3, <2>2, <3>1 DEF CondNext, MutexNext, Lock
  <2>3. CASE lock_win(mutex) /\ EndWait
    <3>1. Wins
      BY <2>3 DEF lock_win, Wins
    <3> QED BY <1>3, <2>3, <3>1 DEF CondNext, MutexNext, Lock
  <2> QED BY <1>4, <2>1, <2>2, <2>3 DEF InKernel, CondNext
<1>5. ASSUME At("user") PROVE ~Wins
  BY <1>5 DEF At, Wins
<1>6. ASSUME NEW t, Locking(t) PROVE CondNext
  BY <1>3, <1>5, <1>6 DEF Locking, Runs, CondNext, MutexNext, Lock
<1>7. ASSUME NEW t, NEW label, Unlocks(t, label) PROVE CondNext
  BY <1>3, <1>5, <1>7 DEF Unlocks, Runs, CondNext, MutexNext, Unlock
<1>8. ASSUME NEW t, NEW c \in Cond, Signals(t, c) PROVE CondNext \/ UNCHANGED allVars
  BY <1>8 DEF Signals, CondNext
<1>9. CASE producer_wait \/ consumer_wait
  <2>1. \E c \in Cond, m \in Mutex, kind \in {"wait", "timedwait"} : cond_wait(c, m, kind)
    BY <1>3, <1>9 DEF producer_wait, consumer_wait
  <2> QED BY <2>1 DEF CondNext
<1>10. CASE producer_set \/ producer_increment \/ consumer_read \/ consumer_clear \/ consumer_print
  BY <1>10 DEF producer_set, producer_increment, consumer_read, consumer_clear, consumer_print
<1> QED BY <1>2, <1>3, <1>4, <1>6, <1>7, <1>8, <1>9, <1>10 DEF PCNext, producer, consumer

-----------------------------------------------------------------------------
(***************************************************************************)
(* The numbers.                                                            *)
(***************************************************************************)
\* A step of one thread's program counter.
LEMMA StepEffect ==
    ASSUME AppTypeOK, NEW t \in Thread, NEW label \in Labels, Step(t, label)
    PROVE  /\ app' \in [Thread -> Labels]
           /\ \A x \in Thread : app'[x] = IF x = t THEN label ELSE app[x]
BY DEF AppTypeOK, Step

\* A step that leaves the numbers alone keeps them in step, unless a thread
\* enters or leaves a part of its code that the invariant tells apart.
LEMMA SameNumbers ==
    ASSUME AppTypeOK, HandOver,
           app' \in [Thread -> Labels],
           pcount' = pcount, count' = count, printed' = printed, number' = number,
           Late' <=> Late, app'[Consumer] = "clear" <=> app[Consumer] = "clear",
           app'[Consumer] \in {"clear", "signal", "unlock", "print"} =>
               app[Consumer] \in {"clear", "signal", "unlock", "print"}
    PROVE  AppTypeOK' /\ HandOver'
<1>1. AppTypeOK'
  BY DEF AppTypeOK
<1>2. Open' <=> Open
  BY DEF Open
<1>3. HandOver'
  BY <1>2 DEF HandOver, Plus1
<1> QED BY <1>1, <1>3

\* Every step keeps the two threads in step.
LEMMA HandOverStep ==
    ASSUME AppTypeOK, HandOver, PCNext
    PROVE  AppTypeOK' /\ HandOver'
<1>1. /\ Producer \in Thread /\ Consumer \in Thread /\ Producer # Consumer
      /\ \A t \in Thread : t = Producer \/ t = Consumer
  BY RolesAssumption DEF Producer, Consumer
<1>2. ASSUME NEW t \in Thread, NEW label \in Labels, NEW from \in Labels,
             app[t] = from, Step(t, label),
             <<from, label>> \in {<<"lock", "test">>, <<"signal", "unlock">>,
                                  <<"unlock", "increment">>, <<"unlock", "print">>,
                                  <<"print", "lock">>},
             label = "increment" => t = Producer,
             label = "print" \/ from = "print" => t = Consumer,
             pcount' = pcount, count' = count, printed' = printed, number' = number
      PROVE  AppTypeOK' /\ HandOver'
  <2>1. /\ app' \in [Thread -> Labels]
        /\ \A x \in Thread : app'[x] = IF x = t THEN label ELSE app[x]
    BY <1>2, StepEffect
  <2>2. (Late' <=> Late) /\ (app'[Consumer] = "clear" <=> app[Consumer] = "clear")
    BY <1>1, <1>2, <2>1 DEF Late
  <2>3. app'[Consumer] \in {"clear", "signal", "unlock", "print"} =>
            app[Consumer] \in {"clear", "signal", "unlock", "print"}
    BY <1>1, <1>2, <2>1
  <2> QED BY <1>2, <2>1, <2>2, <2>3, SameNumbers
<1>3. ASSUME NEW t \in Thread, Locking(t) PROVE AppTypeOK' /\ HandOver'
  BY <1>2, <1>3 DEF Locking, Runs, Labels
<1>4. ASSUME NEW t \in Thread, NEW c, Signals(t, c) PROVE AppTypeOK' /\ HandOver'
  BY <1>2, <1>4 DEF Signals, Runs, Labels
<1>5. CASE Unlocks(Producer, "increment")
  BY <1>1, <1>2, <1>5 DEF Unlocks, Runs, Labels
<1>6. CASE Unlocks(Consumer, "print")
  BY <1>1, <1>2, <1>6 DEF Unlocks, Runs, Labels
<1>7. CASE consumer_print
  BY <1>1, <1>2, <1>7 DEF consumer_print, Runs, Labels
<1>8. CASE UNCHANGED appVars
  <2>1. app' = app /\ pcount' = pcount /\ count' = count /\ printed' = printed /\ number' = number
    BY <1>8 DEF appVars
  <2>2. app' \in [Thread -> Labels] /\ (Late' <=> Late)
    BY <2>1 DEF AppTypeOK, Late
  <2> QED BY <2>1, <2>2, SameNumbers
<1>9. CASE producer_set
  <2>1. /\ app[Producer] = "test" /\ ~pcount /\ pcount' = TRUE /\ Step(Producer, "signal")
        /\ count' = count /\ printed' = printed /\ number' = number
    BY <1>9 DEF producer_set, Runs
  <2>2. /\ app' \in [Thread -> Labels]
        /\ app'[Producer] = "signal" /\ app'[Consumer] = app[Consumer]
    BY <1>1, <2>1, StepEffect DEF Labels
  <2>3. ~Late /\ ~Open /\ Late' /\ Open'
    BY <2>1, <2>2 DEF Late, Open, HandOver
  <2>4. HandOver'
    BY <2>1, <2>2, <2>3 DEF HandOver, Plus1
  <2> QED BY <2>1, <2>2, <2>4 DEF AppTypeOK
<1>10. CASE producer_increment
  <2>1. /\ app[Producer] = "increment" /\ count' = Plus1(count) /\ Step(Producer, "lock")
        /\ pcount' = pcount /\ printed' = printed /\ number' = number
    BY <1>10 DEF producer_increment, Runs
  <2>2. /\ app' \in [Thread -> Labels]
        /\ app'[Producer] = "lock" /\ app'[Consumer] = app[Consumer]
    BY <1>1, <2>1, StepEffect DEF Labels
  <2>3. Late /\ ~Late' /\ (Open' <=> Open)
    BY <2>1, <2>2 DEF Late, Open
  <2>4. HandOver'
    BY <2>1, <2>2, <2>3 DEF HandOver, Plus1
  <2>5. count' \in Numbers
    BY <2>1, Plus1Type DEF AppTypeOK
  <2> QED BY <2>1, <2>2, <2>4, <2>5 DEF AppTypeOK
<1>11. CASE consumer_read
  <2>1. /\ app[Consumer] = "test" /\ pcount /\ printed' = count /\ number' = Plus1(number)
        /\ Step(Consumer, "clear") /\ pcount' = pcount /\ count' = count
    BY <1>11 DEF consumer_read, Runs
  <2>2. /\ app' \in [Thread -> Labels]
        /\ app'[Consumer] = "clear" /\ app'[Producer] = app[Producer]
    BY <1>1, <2>1, StepEffect DEF Labels
  <2>3. (Late' <=> Late) /\ Open /\ ~Open'
    BY <2>1, <2>2 DEF Late, Open
  <2>4. HandOver'
    BY <2>1, <2>2, <2>3 DEF HandOver, Plus1
  <2>5. number' \in Numbers
    BY <2>1, Plus1Type DEF AppTypeOK
  <2> QED BY <2>1, <2>2, <2>4, <2>5 DEF AppTypeOK
<1>12. CASE consumer_clear
  <2>1. /\ app[Consumer] = "clear" /\ pcount' = FALSE /\ Step(Consumer, "signal")
        /\ count' = count /\ printed' = printed /\ number' = number
    BY <1>12 DEF consumer_clear, Runs
  <2>2. /\ app' \in [Thread -> Labels]
        /\ app'[Consumer] = "signal" /\ app'[Producer] = app[Producer]
    BY <1>1, <2>1, StepEffect DEF Labels
  <2>3. (Late' <=> Late) /\ ~Open /\ ~Open'
    BY <2>1, <2>2 DEF Late, Open
  <2>4. HandOver'
    BY <2>1, <2>2, <2>3 DEF HandOver, Plus1
  <2> QED BY <2>1, <2>2, <2>4 DEF AppTypeOK
<1>13. CASE producer_wait \/ consumer_wait
  BY <1>8, <1>13 DEF producer_wait, consumer_wait
<1> QED BY <1>1, <1>3, <1>4, <1>5, <1>6, <1>7, <1>8, <1>9, <1>10, <1>11, <1>12, <1>13
        DEF PCNext, producer, consumer

-----------------------------------------------------------------------------
(***************************************************************************)
(* The mutex.                                                              *)
(***************************************************************************)
\* A thread that does not move, and whose locks do not change, stays guarded.
LEMMA StaysGuarded ==
    ASSUME NEW t \in Thread, Guarded(t),
           pc'[t] = pc[t], app'[t] = app[t], held'[t][mutex] = held[t][mutex]
    PROVE  Guarded(t)'
BY DEF Guarded, Critical

\* A step of one thread in its own code or in the kernel leaves the other
\* guarded.
LEMMA OneMoves ==
    ASSUME \A t \in Thread : Guarded(t),
           NEW x \in Thread, Guarded(x)',
           \A t \in Thread \ {x} :
               pc'[t] = pc[t] /\ app'[t] = app[t] /\ held'[t][mutex] = held[t][mutex]
    PROVE  \A t \in Thread : Guarded(t)'
<1> SUFFICES ASSUME NEW t \in Thread PROVE Guarded(t)'
  OBVIOUS
<1>1. CASE t = x
  BY <1>1
<1>2. CASE t # x
  BY <1>2, StaysGuarded
<1> QED BY <1>1, <1>2

\* Boot makes the threads start at their first label, and a tick moves nobody.
LEMMA StartingGuarded ==
    ASSUME KernelInv, AppTypeOK, \A t \in Thread : Guarded(t),
           Starting \/ Ticking, UNCHANGED appVars
    PROVE  \A t \in Thread : Guarded(t)'
<1> SUFFICES ASSUME NEW t \in Thread PROVE Guarded(t)'
  OBVIOUS
<1>1. app' = app /\ held' = held /\ SchedNext
  BY DEF appVars, Starting, Ticking, mutexVars, SchedNext
<1>2. Guarded(t) /\ t \in Task /\ pc = [x \in Task |-> pc[x]]
  BY DEF Task, KernelInv
<1>3. pc'[t] # pc[t] => pc[t] \in SchedPc
  BY <1>1, <1>2, KernelStep DEF SchedMove
<1>4. pc[t] \notin {"init", "sti"} /\ app[t] \in Labels
  BY <1>2 DEF Guarded, AppTypeOK, Labels
<1>5. pc'[t] \in {pc[t], "user"}
  <2>1. ASSUME NEW p \in Priorities, BootCreate(p) PROVE pc'[t] \in {pc[t], "user"}
    BY <1>2, <2>1 DEF BootCreate
  <2>2. CASE BootEnable
    BY <1>2, <1>4, <2>2 DEF BootEnable
  <2>3. CASE BootYield
    BY <1>2, <1>4, <2>3 DEF BootYield, At, Goto
  <2>4. CASE Ticking
    BY <2>4 DEF Ticking, Timer, IrqEnter, sched_timeout, IrqLeave
  <2> QED BY <2>1, <2>2, <2>3, <2>4 DEF Starting, Boot
<1>6. CASE pc'[t] = pc[t]
  BY <1>1, <1>2, <1>6, StaysGuarded
<1>7. CASE pc'[t] # pc[t]
  <2>1. pc'[t] = "user" /\ pc[t] = "none" /\ app[t] = "lock"
    BY <1>2, <1>3, <1>4, <1>5, <1>7 DEF Guarded, SchedPc
  <2> QED BY <1>1, <1>2, <2>1 DEF Guarded, Critical
<1> QED BY <1>6, <1>7

\* The current thread, where it is in the application or in a call: what it
\* holds is what the kernel has counted.
LEMMA CurrentGuarded ==
    ASSUME CondInv, AppInv, ~sched.in_irq, pc[Current] \notin {"init", "sti", "halt"}
    PROVE  /\ Current \in Thread /\ Guarded(Current) /\ mutex \in Mutex
           /\ held[Current][mutex] = IF owner[mutex] = Current THEN recursive_count[mutex] ELSE 0
           /\ lock[mutex] # 1 => recursive_count[mutex] # 0
           /\ held \in [Thread -> [Mutex -> Nat]]
<1>1. Current \in Thread
  BY ThreadRuns DEF CondInv
<1>2. mutex \in Mutex /\ OwnershipOK /\ MutexTypeOK
  BY RolesAssumption DEF CondInv, StructInv
<1>3. Guarded(Current)
  BY <1>1 DEF AppInv
<1> QED BY <1>1, <1>2, <1>3 DEF OwnershipOK, MutexTypeOK

\* The thread that takes the mutex is in its critical section from then on.
LEMMA TakesGuarded ==
    ASSUME CondInv, AppInv, ~sched.in_irq, pc[Current] \notin {"init", "sti", "halt"},
           Own(mutex), Goto("user"),
           \A t \in Thread : app'[t] = IF t = Current THEN "test" ELSE app[t]
    PROVE  \A t \in Thread : Guarded(t)'
<1>1. PICK x \in Thread : x = Current
  BY CurrentGuarded
<1>2. KernelInv /\ MutexTypeOK /\ mutex \in Mutex /\ \A t \in Thread : Guarded(t)
  BY RolesAssumption DEF CondInv, StructInv, AppInv
<1>3. \A t \in Thread : held'[t][mutex] = IF t = x THEN 1 ELSE held[t][mutex]
  BY <1>1, <1>2, OwnEffect
<1>4. \A t \in Thread : pc'[t] = IF t = x THEN "user" ELSE pc[t]
  BY <1>1, <1>2, GotoEffect
<1>5. app'[x] = "test"
  BY <1>1
<1>6. Guarded(x)'
  BY <1>3, <1>4, <1>5 DEF Guarded, Critical
<1> QED BY <1>1, <1>2, <1>3, <1>4, <1>6, OneMoves

\* A thread that waits for the mutex, or moves on in a wait, does not hold it.
LEMMA WaitsGuarded ==
    ASSUME CondInv, AppInv, ~sched.in_irq, pc[Current] \notin {"init", "sti", "halt"},
           held[Current][mutex] = 0, held' = held,
           NEW label \in {"lock_spread", "lock_try", "wait", "wait_lock"}, Goto(label),
           \A t \in Thread : app'[t] = IF t = Current THEN "test" ELSE app[t]
    PROVE  \A t \in Thread : Guarded(t)'
<1>1. PICK x \in Thread : x = Current
  BY CurrentGuarded
<1>2. KernelInv /\ \A t \in Thread : Guarded(t)
  BY DEF CondInv, AppInv
<1>3. \A t \in Thread : pc'[t] = IF t = x THEN label ELSE pc[t]
  BY <1>1, <1>2, GotoEffect
<1>4. app'[x] = "test" /\ held'[x][mutex] = 0
  BY <1>1
<1>5. Guarded(x)'
  BY <1>3, <1>4 DEF Guarded, Critical
<1> QED BY <1>1, <1>2, <1>3, <1>5, OneMoves

\* A thread that lets go of the mutex has left its critical section.
LEMMA LeavesGuarded ==
    ASSUME CondInv, AppInv, ~sched.in_irq, pc[Current] \notin {"init", "sti", "halt"},
           Release(mutex), NEW place, Goto(place), NEW label,
           \A t \in Thread : app'[t] = IF t = Current THEN label ELSE app[t],
           \/ place = "user" /\ label \in {"increment", "print"}
           \/ place = "wait" /\ label = "test"
    PROVE  \A t \in Thread : Guarded(t)'
<1>1. PICK x \in Thread : x = Current
  BY CurrentGuarded
<1>2. KernelInv /\ MutexTypeOK /\ mutex \in Mutex /\ \A t \in Thread : Guarded(t)
  BY RolesAssumption DEF CondInv, StructInv, AppInv
<1>3. \A t \in Thread : pc'[t] = IF t = x THEN place ELSE pc[t]
  BY <1>1, <1>2, GotoEffect
<1>4. Counts(x, mutex, 0)
  BY <1>1 DEF Release
<1>5. \A t \in Thread : held'[t][mutex] = IF t = x THEN 0 ELSE held[t][mutex]
  BY <1>2, <1>4, CountEffect
<1>6. app'[x] = label
  BY <1>1
<1>7. Guarded(x)'
  BY <1>3, <1>5, <1>6 DEF Guarded, Critical
<1> QED BY <1>1, <1>2, <1>3, <1>5, <1>7, OneMoves

\* The mutex is held once: it is never taken again by the thread that holds it,
\* nor only counted down.
LEMMA HeldOnce ==
    ASSUME CondInv, AppInv, ~sched.in_irq, pc[Current] \notin {"init", "sti", "halt"}
    PROVE  /\ ~CountDown(mutex)
           /\ TakeAgain(mutex) => held[Current][mutex] = 1
<1>1. /\ Guarded(Current)
      /\ held[Current][mutex] = IF owner[mutex] = Current THEN recursive_count[mutex] ELSE 0
      /\ lock[mutex] # 1 => recursive_count[mutex] # 0
  BY CurrentGuarded
<1>2. held[Current][mutex] \in {0, 1}
  BY <1>1 DEF Guarded
<1>3. ~CountDown(mutex)
  BY <1>1, <1>2 DEF CountDown, Holds
<1>4. TakeAgain(mutex) => held[Current][mutex] = 1
  BY <1>1, <1>2 DEF TakeAgain
<1> QED BY <1>3, <1>4

\* The walk of a contending thread never meets a null owner: there is one
\* mutex, and it is still taken.
LEMMA NoNullWalk ==
    ASSUME CondInv, AppInv
    PROVE  ~spread_null
<1> SUFFICES ASSUME spread_null PROVE FALSE
  OBVIOUS
<1>1. /\ ~sched.in_irq /\ pc[Current] \in {"lock_spread", "setprio_spread"}
      /\ sleep_on[cursor] # NULL /\ owner[sleep_on[cursor]] = NULL
  BY DEF spread_null, Spreading, At
<1>2. Current \in Thread /\ Guarded(Current) /\ app[Current] \in Labels
  BY <1>1, CurrentGuarded DEF AppInv, AppTypeOK
<1>3. pc[Current] = "lock_spread"
  BY <1>1, <1>2 DEF Guarded, Labels
<1>4. MutexTypeOK /\ WaitPlaces /\ OwnershipOK
  BY DEF CondInv, StructInv
<1>5. cursor # NULL
  BY <1>3, <1>4 DEF WaitPlaces, Walking
<1>6. /\ sleep_on[cursor] \in Mutex /\ sleep_on[Current] \in Mutex
      /\ lock[sleep_on[Current]] # 1
  BY <1>1, <1>2, <1>3, <1>4, <1>5 DEF WaitPlaces, MutexTypeOK, Task
<1>7. sleep_on[cursor] = sleep_on[Current]
  BY <1>6, RolesAssumption
<1> QED BY <1>1, <1>4, <1>6, <1>7 DEF OwnershipOK

\* The kernel's part of the calls.
LEMMA InKernelGuarded ==
    ASSUME CondInv, AppInv, InKernel, UNCHANGED appVars
    PROVE  \A t \in Thread : Guarded(t)'
<1>1. /\ app' = app /\ app \in [Thread -> Labels]
      /\ \A t \in Thread : Guarded(t)
      /\ mutex \in Mutex
  BY RolesAssumption DEF appVars, AppInv, AppTypeOK
<1>2. ASSUME NEW label, At(label), label \notin {"init", "sti", "halt"}
      PROVE  /\ ~sched.in_irq /\ pc[Current] = label
             /\ pc[Current] \notin {"init", "sti", "halt"}
             /\ Current \in Thread /\ Guarded(Current)
  BY <1>2, CurrentGuarded DEF At
<1>3. ASSUME NEW label \in {"lock_spread", "lock_try", "wait", "wait_lock"}, At(label)
      PROVE  /\ ~sched.in_irq /\ pc[Current] = label
             /\ pc[Current] \notin {"init", "sti", "halt"}
             /\ Current \in Thread
             /\ held[Current][mutex] = 0
             /\ \A t \in Thread : app'[t] = IF t = Current THEN "test" ELSE app[t]
  <2>1. /\ ~sched.in_irq /\ pc[Current] = label
        /\ pc[Current] \notin {"init", "sti", "halt"}
        /\ Current \in Thread /\ Guarded(Current)
    BY <1>2, <1>3
  <2>2. app[Current] \in Labels
    BY <1>1, <2>1
  <2>3. app[Current] = "test" /\ held[Current][mutex] = 0
    BY <2>1, <2>2 DEF Guarded, Critical, Labels
  <2> QED BY <1>1, <2>1, <2>3
<1>4. ASSUME NEW label, At(label)
      PROVE  label \notin {"setprio_spread", "timedwait", "timedwait_delete"}
  <2> SUFFICES ASSUME label \in {"setprio_spread", "timedwait", "timedwait_delete"} PROVE FALSE
    OBVIOUS
  <2>1. pc[Current] = label /\ Current \in Thread /\ Guarded(Current)
    BY <1>2, <1>4
  <2> QED BY <2>1, <1>1 DEF Guarded, Labels
<1>5. ASSUME pc' = pc, held' = held PROVE \A t \in Thread : Guarded(t)'
  BY <1>1, <1>5, StaysGuarded
<1>6. CASE spread_step
  BY <1>5, <1>6 DEF spread_step
<1>7. CASE lock_spread_done
  BY <1>3, <1>7, WaitsGuarded DEF lock_spread_done
<1>8. CASE lock_sleep(mutex)
  BY <1>5, <1>8 DEF lock_sleep
<1>9. CASE lock_win(mutex)
  BY <1>3, <1>9, TakesGuarded DEF lock_win
<1>10. CASE wait_schedule
  BY <1>3, <1>10, WaitsGuarded DEF wait_schedule, mutexVars
<1>11. ASSUME NEW m \in Mutex, wait_lock(m) PROVE \A t \in Thread : Guarded(t)'
  <2>1. m = mutex /\ At("wait_lock")
    BY <1>11, RolesAssumption DEF wait_lock
  <2>2. CASE TakeFree(mutex)
    BY <1>3, <2>1, <2>2, TakesGuarded DEF TakeFree
  <2>3. CASE TakeAgain(mutex)
    BY <1>3, <2>1, <2>3, HeldOnce
  <2>4. CASE Contend(mutex)
    BY <1>3, <2>1, <2>4, WaitsGuarded DEF Contend
  <2> QED BY <1>11, <2>1, <2>2, <2>3, <2>4 DEF wait_lock
<1>12. ~setprio_done /\ ~timedwait_late /\ ~timedwait_schedule /\ ~timedwait_delete
  BY <1>4 DEF setprio_done, timedwait_late, timedwait_schedule, timedwait_delete
<1> QED BY <1>6, <1>7, <1>8, <1>9, <1>10, <1>11, <1>12, NoNullWalk DEF InKernel, Spread, Waiting

\* The steps that begin with a thread in the application's code.
LEMMA AppGuarded ==
    ASSUME CondInv, AppInv, producer \/ consumer
    PROVE  \A t \in Thread : Guarded(t)'
<1>1. /\ Producer \in Thread /\ Consumer \in Thread
      /\ \A t \in Thread : Guarded(t)
      /\ AppTypeOK /\ mutex \in Mutex
  BY RolesAssumption DEF Producer, Consumer, AppInv
<1>2. ASSUME NEW t \in Thread, NEW label, Runs(t, label)
      PROVE  /\ Current = t /\ ~sched.in_irq /\ pc[Current] = "user" /\ pc[t] = "user"
             /\ pc[Current] \notin {"init", "sti", "halt"} /\ app[t] = label
  BY <1>2 DEF Runs, At
<1>3. ASSUME NEW t \in Thread, NEW label \in Labels, Step(t, label)
      PROVE  \A x \in Thread : app'[x] = IF x = t THEN label ELSE app[x]
  BY <1>1, <1>3, StepEffect
<1>4. ASSUME NEW t \in Thread, Locking(t) PROVE \A x \in Thread : Guarded(x)'
  <2>1. /\ Runs(t, "lock") /\ Step(t, "test")
        /\ Current = t /\ ~sched.in_irq /\ pc[t] = "user"
        /\ pc[Current] \notin {"init", "sti", "halt"} /\ app[t] = "lock"
    BY <1>2, <1>4 DEF Locking
  <2>2. \A x \in Thread : app'[x] = IF x = Current THEN "test" ELSE app[x]
    BY <1>3, <2>1 DEF Labels
  <2>3. held[Current][mutex] = 0
    BY <1>1, <2>1 DEF Guarded, Critical
  <2>4. CASE lock_free(mutex)
    BY <2>1, <2>2, <2>4, TakesGuarded DEF lock_free, TakeFree
  <2>5. CASE lock_contend(mutex)
    BY <2>1, <2>2, <2>3, <2>5, WaitsGuarded DEF lock_contend, Contend
  <2> QED BY <1>4, <2>4, <2>5 DEF Locking
<1>5. ASSUME NEW t \in Thread, NEW label \in {"increment", "print"}, Unlocks(t, label)
      PROVE  \A x \in Thread : Guarded(x)'
  <2>1. /\ Runs(t, "unlock") /\ Step(t, label) /\ Release(mutex) /\ pc' = pc
        /\ Current = t /\ ~sched.in_irq /\ pc[Current] = "user"
        /\ pc[Current] \notin {"init", "sti", "halt"}
    BY <1>2, <1>5 DEF Unlocks, unlock
  <2>2. \A x \in Thread : app'[x] = IF x = Current THEN label ELSE app[x]
    BY <1>3, <2>1 DEF Labels
  <2>3. Goto("user")
    <3>1. pc = [x \in Task |-> pc[x]]
      BY DEF CondInv, KernelInv
    <3> QED BY <2>1, <3>1 DEF Goto
  <2> QED BY <2>1, <2>2, <2>3, LeavesGuarded
<1>6. ASSUME NEW t \in Thread, NEW c, Runs(t, "test"), cond_wait(c, mutex, "wait"), app' = app
      PROVE  \A x \in Thread : Guarded(x)'
  <2>1. /\ Current = t /\ ~sched.in_irq
        /\ pc[Current] \notin {"init", "sti", "halt"} /\ app[t] = "test"
        /\ Goto("wait")
    BY <1>2, <1>6 DEF cond_wait
  <2>2. Release(mutex)
    BY <1>6, <2>1, HeldOnce DEF cond_wait
  <2>3. \A x \in Thread : app'[x] = IF x = Current THEN "test" ELSE app[x]
    BY <1>6, <2>1
  <2> QED BY <2>1, <2>2, <2>3, LeavesGuarded
<1>7. ASSUME NEW t \in Thread, NEW from, NEW label \in Labels, Runs(t, from), Step(t, label),
             \/ from \in {"test", "clear", "signal"} /\ label \in {"clear", "signal", "unlock"}
             \/ from \in {"increment", "print"} /\ label = "lock",
             pc' = pc, held' = held
      PROVE  \A x \in Thread : Guarded(x)'
  <2>1. Guarded(t) /\ pc[t] = "user" /\ app[t] = from
    BY <1>1, <1>2, <1>7
  <2>2. \A x \in Thread : app'[x] = IF x = t THEN label ELSE app[x]
    BY <1>3, <1>7
  <2>3. Guarded(t)'
    BY <1>7, <2>1, <2>2 DEF Guarded, Critical
  <2> QED BY <1>1, <1>7, <2>2, <2>3, OneMoves
<1>8. ASSUME NEW t \in Thread, NEW c, Signals(t, c) PROVE \A x \in Thread : Guarded(x)'
  <2>1. /\ Runs(t, "signal") /\ Step(t, "unlock") /\ pc' = pc /\ held' = held
    BY <1>8 DEF Signals, signal, mutexVars, allVars, vars
  <2> QED BY <1>7, <2>1 DEF Labels
<1>9. CASE producer_set \/ producer_increment \/ consumer_read \/ consumer_clear \/ consumer_print
  <2>1. pc' = pc /\ held' = held
    BY <1>9 DEF producer_set, producer_increment, consumer_read, consumer_clear,
                consumer_print, allVars, vars
  <2>2. CASE producer_set
    BY <1>1, <1>7, <2>1, <2>2 DEF producer_set, Labels
  <2>3. CASE producer_increment
    BY <1>1, <1>7, <2>1, <2>3 DEF producer_increment, Labels
  <2>4. CASE consumer_read
    BY <1>1, <1>7, <2>1, <2>4 DEF consumer_read, Labels
  <2>5. CASE consumer_clear
    BY <1>1, <1>7, <2>1, <2>5 DEF consumer_clear, Labels
  <2>6. CASE consumer_print
    BY <1>1, <1>7, <2>1, <2>6 DEF consumer_print, Labels
  <2> QED BY <1>9, <2>2, <2>3, <2>4, <2>5, <2>6
<1>10. CASE producer_wait
  BY <1>1, <1>6, <1>10 DEF producer_wait, appVars
<1>11. CASE consumer_wait
  BY <1>1, <1>6, <1>11 DEF consumer_wait, appVars
<1> QED BY <1>1, <1>4, <1>5, <1>8, <1>9, <1>10, <1>11 DEF producer, consumer

-----------------------------------------------------------------------------
(***************************************************************************)
(* The invariant and what follows from it.                                 *)
(***************************************************************************)
\* PCInv holds at the start.
LEMMA PCInitInv == PCInit => PCInv
<1> SUFFICES ASSUME PCInit PROVE PCInv
  OBVIOUS
<1>1. /\ CondInit /\ app = [t \in Thread |-> "lock"] /\ pcount = FALSE
      /\ count = 0 /\ printed = 0 /\ number = 0
  BY DEF PCInit
<1>2. CondInv
  BY <1>1, CondInitInv
<1>3. /\ Producer \in Thread /\ Consumer \in Thread /\ mutex \in Mutex
      /\ 0 \in Numbers
  BY RolesAssumption DEF Producer, Consumer, Numbers
<1>4. AppTypeOK /\ HandOver
  BY <1>1, <1>3 DEF AppTypeOK, HandOver, Labels, Late, Open
<1>5. \A t \in Thread : Guarded(t)
  <2>1. \A t \in Thread : pc[t] = "none" /\ held[t][mutex] = 0
    BY <1>1, <1>3, SchedAssumption DEF CondInit, MutexInit, SchedInit, Task
  <2> QED BY <1>1, <2>1 DEF Guarded, Critical
<1> QED BY <1>2, <1>4, <1>5 DEF PCInv, AppInv

\* PCInv is inductive.
LEMMA PCNextInv == PCInv /\ [PCNext]_pcVars => PCInv'
<1> SUFFICES ASSUME PCInv, [PCNext]_pcVars PROVE PCInv'
  OBVIOUS
<1>1. CondInv /\ AppInv /\ AppTypeOK /\ HandOver /\ KernelInv /\ \A t \in Thread : Guarded(t)
  BY DEF PCInv, AppInv, CondInv
<1>2. CASE PCNext
  <2>1. CondInv'
    BY <1>1, <1>2, AppUsesCond, CondNextInv
  <2>2. AppTypeOK' /\ HandOver'
    BY <1>1, <1>2, HandOverStep
  <2>3. \A t \in Thread : Guarded(t)'
    BY <1>1, <1>2, StartingGuarded, InKernelGuarded, AppGuarded DEF PCNext
  <2> QED BY <2>1, <2>2, <2>3 DEF PCInv, AppInv
<1>3. CASE UNCHANGED pcVars
  <2>1. UNCHANGED allVars /\ UNCHANGED appVars
    BY <1>3 DEF pcVars, appVars
  <2>2. CondInv'
    BY <1>1, <2>1, CondNextInv
  <2>3. AppTypeOK' /\ HandOver'
    BY <1>1, <2>1 DEF appVars, AppTypeOK, HandOver, Late, Open, Plus1
  <2>4. \A t \in Thread : Guarded(t)'
    BY <1>1, <2>1, StaysGuarded DEF appVars, allVars, vars
  <2> QED BY <2>2, <2>3, <2>4 DEF PCInv, AppInv
<1> QED BY <1>2, <1>3

\* PCInv is an invariant of the application.
LEMMA PCInvariant == PCSpec => []PCInv
BY PCInitInv, PCNextInv, PTL DEF PCSpec

\* The producer stores a number only when the consumer has taken the last one,
\* for every range of the counter, the increment after the unlock included.
THEOREM InStepCorrect == PCSpec => []InStep
<1>1. PCInv => InStep
  <2> SUFFICES ASSUME PCInv PROVE InStep
    OBVIOUS
  <2>1. /\ app \in [Thread -> Labels] /\ pcount \in BOOLEAN
        /\ count \in Numbers /\ printed \in Numbers /\ number \in Numbers
        /\ HandOver /\ Producer \in Thread
    BY RolesAssumption DEF PCInv, AppInv, AppTypeOK, Producer
  <2>2. app[Producer] \in Labels
    BY <2>1
  <2> DEFINE ahead == (count + Modulus - number) % Modulus
             last == (number + Modulus - 1) % Modulus
  <2>3. /\ ahead = IF count < number THEN count + Modulus - number ELSE count - number
        /\ last = IF number = 0 THEN Modulus - 1 ELSE number - 1
    BY <2>1, Apart
  <2>4. /\ Plus1(count) = IF count = Modulus - 1 THEN 0 ELSE count + 1
        /\ Plus1(number) = IF number = Modulus - 1 THEN 0 ELSE number + 1
        /\ Plus1(printed) = IF printed = Modulus - 1 THEN 0 ELSE printed + 1
    BY <2>1, Plus1Is
  <2> HIDE DEF ahead, last
  <2>5. /\ count = number => ahead = 0
        /\ count = Plus1(number) => ahead = 1
        /\ number = Plus1(count) => ahead = Modulus - 1
        /\ number = Plus1(printed) => printed = last
    BY <2>1, <2>3, <2>4, RolesAssumption DEF Numbers
  <2>6. \/ ahead = 0
        \/ ahead = 1 /\ pcount
        \/ ahead = Modulus - 1 /\ Late
    BY <2>1, <2>5 DEF HandOver, Open
  <2>7. app[Consumer] = "print" => printed \in {last, number}
    BY <2>1, <2>5 DEF HandOver
  <2> QED BY <2>6, <2>7 DEF InStep, Late, ahead, last
<1> QED BY <1>1, PCInvariant, PTL

\* pcount and the number it points to are never used by both threads at once.
Exclusive == \A s, t \in Thread : Critical(s) /\ Critical(t) => s = t

\* The mutex of producer_consumer.c protects the hand-over: the two threads are
\* never between their lock and their unlock together, waits included.
THEOREM ExclusiveCorrect == PCSpec => []Exclusive
<1>1. PCInv => Exclusive
  <2> SUFFICES ASSUME PCInv, NEW s \in Thread, NEW t \in Thread, Critical(s), Critical(t)
               PROVE  s = t
    BY DEF Exclusive
  <2>1. held[s][mutex] = 1 /\ held[t][mutex] = 1
    BY DEF PCInv, AppInv, Guarded
  <2>2. OwnershipOK /\ mutex \in Mutex
    BY RolesAssumption DEF PCInv, CondInv, StructInv
  <2>3. owner[mutex] = s /\ owner[mutex] = t
    BY <2>1, <2>2 DEF OwnershipOK
  <2> QED BY <2>3
<1> QED BY <1>1, PCInvariant, PTL

\* With one mutex __pthread_spread() never passes a null owner on: this
\* application does not meet the fault that NoNullOwner finds in others.
THEOREM NullFree == PCSpec => []NoNullOwner
<1>1. PCInv => NoNullOwner
  <2> SUFFICES ASSUME PCInv, pc[Current] = "fault" PROVE FALSE
    BY DEF NoNullOwner
  <2>1. Current \in Task /\ Steady(sched) /\ PlacesOK
    BY DEF PCInv, CondInv, KernelInv, Steady, Sound, SchedRecord, Current
  <2>2. Current \in Thread
    BY <2>1 DEF PlacesOK, Task
  <2>3. Guarded(Current) /\ app[Current] \in Labels
    BY <2>2 DEF PCInv, AppInv, AppTypeOK
  <2> QED BY <2>3 DEF Guarded, Labels
<1> QED BY <1>1, PCInvariant, PTL

\* The two threads use the kernel as module Cond allows, so that what is proved
\* of the condition variables holds for them.
THEOREM UsesCond == PCSpec => CondSpec
<1>1. PCInit => CondInit
  BY DEF PCInit
<1>2. ASSUME PCInv, [PCNext]_pcVars PROVE [CondNext]_allVars
  <2>1. CASE PCNext
    BY <1>2, <2>1, AppUsesCond DEF PCInv, CondInv
  <2>2. CASE UNCHANGED pcVars
    BY <2>2 DEF pcVars
  <2> QED BY <1>2, <2>1, <2>2
<1> QED BY <1>1, <1>2, PCInvariant, PTL DEF PCSpec, CondSpec
=============================================================================
