--------------------------- MODULE LifecycleProofs ---------------------------
(***************************************************************************)
(* Proofs about pthread_create(), pthread_exit(), pthread_join() and       *)
(* pthread_detach(), for every number of slots, of threads that use them   *)
(* and of priorities: the kernel stays sound and no circle of joiners      *)
(* arises whatever handles the application uses; with one that uses each   *)
(* handle once, no joiner and no slot is lost.                             *)
(***************************************************************************)
EXTENDS Lifecycle, SchedProofs, FiniteSetTheorems

-----------------------------------------------------------------------------
(***************************************************************************)
(* The inductive invariant, for all applications.                          *)
(***************************************************************************)
LifePlaces == {"create", "create_wake", "create_ret", "join", "join_wait"}

LifeTypes ==
    /\ detached \subseteq Thread
    /\ waiter \in [Task -> Thread \cup {NULL}]
    /\ gen \in [Thread -> Nat]
    /\ handles \subseteq Thread \X Nat
    /\ target \in [Task -> (Thread \X Nat) \cup {NULL}]
    /\ disciplined \in BOOLEAN

\* The task that runs is RUNNING unless it is in sleep().
\* A slot has code to run exactly if its thread is RUNNING or SLEEPING, one that
\* has exited is not detached, and only threads in sleep() have timers, so that
\* no timer wakes a slot that is free.
SlotsOK ==
    /\ Awake
    /\ \A t \in Thread : pc[t] = "none" <=> sched.state[t] \notin {"RUNNING", "SLEEPING"}
    /\ \A t \in Thread : sched.state[t] = "EXIT" => t \notin detached
    /\ \A t \in timers : pc[t] \in {"timer_add", "timer_delete"}

\* The slots that create and join are about; no slot is claimed twice.
TargetsOK ==
    /\ \A t \in Thread : pc[t] \in {"create", "join", "join_wait"} => target[t] # NULL
    /\ \A t \in Thread : pc[t] \notin LifePlaces => target[t] = NULL
    /\ \A t \in Thread : pc[t] = "create" =>
          /\ sched.state[Slot(target[t])] = "INIT"
          /\ target[t] = <<Slot(target[t]), gen[Slot(target[t])] + 1>>
    /\ \A t, u \in Thread :
          pc[t] = "create" /\ pc[u] = "create" /\ target[t] = target[u] => t = u

\* A registered waiter is in pthread_join() for that slot.
WaitersOK ==
    \A u \in Task : waiter[u] # NULL =>
        pc[waiter[u]] = "join_wait" /\ Slot(target[waiter[u]]) = u

LifeInv == KernelInv /\ LifeTypes /\ SlotsOK /\ TargetsOK /\ WaitersOK

-----------------------------------------------------------------------------
(***************************************************************************)
(* What each step does to the states and the places of the threads.        *)
(***************************************************************************)
\* A scheduler state that a thread's own step leaves.
Outside(s) ==
    /\ Steady(s) /\ s.in_irq = FALSE /\ s.next = s.current
    /\ s.state[s.current] = "RUNNING"

\* g is f but for t, which has x.
Stored(f, g, t, x) == \A u \in Thread : g[u] = IF u = t THEN x ELSE f[u]

\* A store to the state of a thread that is not queued, or current, keeps a
\* steady state steady.
LEMMA StoreSteady ==
    ASSUME NEW s, Steady(s), NEW t \in Thread, NEW x \in State \ {"RUNNING"},
           t \notin s.linked \/ t = s.current
    PROVE  LET u == [s EXCEPT !.state[t] = x]
           IN  Steady(u) /\ StateStored(s, t, x, u)
<1> DEFINE u == [s EXCEPT !.state[t] = x]
<1>1. s \in SchedRecord /\ s.state \in [Task -> State] /\ t \in Task /\ t # Idle
  BY SchedAssumption DEF Steady, Sound, SchedRecord, Task
<1>2. StateStored(s, t, x, u)
  BY <1>1, StoreState DEF Steady
<1> HIDE DEF u
<1>3. Sound(u) /\ u.current \in u.linked
  BY <1>2 DEF StateStored, Steady
<1>4. Ready(u) /\ Sliced(u)
  BY <1>1, <1>2 DEF StateStored, Steady, Ready, Sliced
<1> QED BY <1>2, <1>3, <1>4, Zenon DEF Steady, u

\* A step of a thread keeps the kernel's invariant if it leaves a steady state
\* and no free slot with code to run.
LEMMA LifeStep ==
    ASSUME KernelInv, ~sched.in_irq, Outside(sched'),
           pc' = [t \in Task |-> pc'[t]], pc'[Idle] = pc[Idle],
           \A t \in Thread : pc'[t] \notin {"init", "sti", "halt"},
           \A t \in Thread : sched'.state[t] = "NONE" => pc'[t] = "none",
           timers' = timers
    PROVE  KernelInv'
<1>1. pc'[Idle] \in {"sti", "halt"}
  BY DEF KernelInv, PlacesOK
<1>2. PlacesOK'
  BY <1>1 DEF PlacesOK, Outside
<1>3. sched'.next # NULL
  BY SchedAssumption DEF Outside, Steady, Sound, SchedRecord, Task
<1> QED BY <1>2, <1>3 DEF KernelInv, Pointed, Outside

\* The current thread outside a handler.
LEMMA Running ==
    ASSUME LifeInv, NEW label, label \notin {"init", "sti", "halt"}, At(label)
    PROVE  /\ Current \in Thread /\ Current \in Task /\ Current # Idle
           /\ Current = sched.current /\ ~sched.in_irq
           /\ label \notin {"sleep", "timer_add"} => Outside(sched)
           /\ pc[Current] = label
           /\ sched.state \in [Task -> State] /\ pc = [t \in Task |-> pc[t]]
           /\ Thread \subseteq Task /\ Idle \notin Thread
<1>1. /\ Current \in Thread /\ Current \in Task /\ Current # Idle
      /\ sched.in_irq = FALSE /\ sched.next = sched.current
  BY ThreadRuns DEF At, LifeInv
<1>2. Steady(sched) /\ sched.state \in [Task -> State] /\ pc = [t \in Task |-> pc[t]]
  BY DEF LifeInv, KernelInv, Steady, Sound, SchedRecord
<1>3. label \notin {"sleep", "timer_add"} => sched.state[sched.current] = "RUNNING"
  BY DEF LifeInv, SlotsOK, Awake, At, Current
<1> QED BY <1>1, <1>2, <1>3, SchedAssumption DEF Outside, Current, At, Task

\* A thread that is free, being created or gone is not on the run queue.
LEMMA NotQueued ==
    ASSUME LifeInv, NEW t \in Thread, pc[t] = "none", pc[Current] # "none"
    PROVE  t \notin sched.linked /\ t # Current
<1>1. sched.state[t] # "RUNNING" /\ t # Current
  BY DEF LifeInv, SlotsOK
<1>2. Ready(sched)
  BY DEF LifeInv, KernelInv, Steady
<1> QED BY <1>1, <1>2, SchedAssumption DEF Ready, Task, Current

\* A place of the current thread is stored.
LEMMA GotoEffect ==
    ASSUME LifeInv, NEW c \in Thread, c = Current, NEW label, Goto(label)
    PROVE  /\ Stored(pc, pc', c, label)
           /\ pc' = [t \in Task |-> pc'[t]] /\ pc'[Idle] = pc[Idle]
<1>1. pc = [t \in Task |-> pc[t]] /\ Thread \subseteq Task /\ Idle \in Task /\ Idle # c
  BY SchedAssumption DEF LifeInv, KernelInv, Task
<1> QED BY <1>1 DEF Goto, Stored

\* wake_up() in a thread's own code: the thread woken is RUNNING.
LEMMA WakeEffect ==
    ASSUME NEW s, Steady(s), s.in_irq = FALSE, NEW w \in Thread
    PROVE  Outside(wake_up(s, w)) /\ Stored(s.state, wake_up(s, w).state, w, "RUNNING")
<1> DEFINE u == wake_up(s, w)
<1>1. w \in Task /\ Thread \subseteq Task /\ s.state \in [Task -> State]
  BY DEF Task, Steady, Sound, SchedRecord
<1>2. PICK r : MadeRunning(s, w, r) /\ Rescheduled(r, u)
  BY <1>1, WakeUpEffect
<1> HIDE DEF u
<1>3. r.in_irq = FALSE /\ r.state = [s.state EXCEPT ![w] = "RUNNING"]
  BY <1>2 DEF MadeRunning
<1>4. u.state = r.state /\ Outside(u)
  BY <1>2, <1>3 DEF Rescheduled, Switched, Outside
<1>5. Stored(s.state, u.state, w, "RUNNING")
  BY <1>1, <1>3, <1>4 DEF Stored
<1> QED BY <1>4, <1>5 DEF u

\* pthread_create() claims a free slot.
LEMMA ClaimEffect ==
    ASSUME LifeInv, create_claim
    PROVE  \E c, t \in Thread :
              /\ c = Current /\ pc[c] = "user" /\ pc[t] = "none" /\ t # c
              /\ sched.state[t] = "NONE"
              /\ Outside(sched') /\ Stored(sched.state, sched'.state, t, "INIT")
              /\ Stored(pc, pc', c, "create")
              /\ pc' = [u \in Task |-> pc'[u]] /\ pc'[Idle] = pc[Idle]
              /\ target' = [target EXCEPT ![c] = <<t, gen[t] + 1>>]
<1> DEFINE t == Min(FreeSlots(sched))
<1>1. At("user") /\ FreeSlots(sched) # {} /\ Goto("create")
      /\ sched' = [sched EXCEPT !.state[t] = "INIT"]
      /\ target' = [target EXCEPT ![Current] = <<t, gen[t] + 1>>]
  BY DEF create_claim, Calls
<1>2. /\ Current \in Thread /\ Outside(sched) /\ pc[Current] = "user"
      /\ sched.state \in [Task -> State] /\ Thread \subseteq Task
  BY <1>1, Running
<1>3. t \in Thread /\ sched.state[t] = "NONE"
  BY <1>1, MinOfSet, SchedAssumption DEF FreeSlots
<1> HIDE DEF t
<1>4. pc[t] = "none"
  BY <1>3 DEF LifeInv, SlotsOK
<1>5. t \notin sched.linked /\ t # Current
  BY <1>2, <1>3, <1>4, NotQueued
<1>6. "INIT" \in State \ {"RUNNING"}
  BY DEF State
<1>7. Steady(sched') /\ StateStored(sched, t, "INIT", sched')
  BY <1>1, <1>2, <1>3, <1>5, <1>6, StoreSteady DEF Outside
<1>8. Outside(sched') /\ Stored(sched.state, sched'.state, t, "INIT")
  BY <1>2, <1>5, <1>7 DEF Outside, StateStored, Stored, Current
<1>9. Stored(pc, pc', Current, "create") /\ pc' = [u \in Task |-> pc'[u]] /\ pc'[Idle] = pc[Idle]
  BY <1>1, <1>2, GotoEffect
<1> QED BY <1>1, <1>2, <1>3, <1>4, <1>5, <1>8, <1>9

\* pthread_create() fills the slot in and makes its thread RUNNING.
LEMMA FillEffect ==
    ASSUME LifeInv, NEW p \in Priorities, NEW flag \in BOOLEAN, create_fill(p, flag)
    PROVE  \E c, t \in Thread :
              /\ c = Current /\ t = Slot(target[c])
              /\ pc[c] = "create" /\ pc[t] = "none" /\ t # c
              /\ sched.state[t] = "INIT"
              /\ Outside(sched') /\ Stored(sched.state, sched'.state, t, "RUNNING")
              /\ \A u \in Thread : pc'[u] = IF u = t THEN "user"
                                            ELSE IF u = c THEN "create_wake" ELSE pc[u]
              /\ pc' = [u \in Task |-> pc'[u]] /\ pc'[Idle] = pc[Idle]
<1>1. At("create")
  BY DEF create_fill
<1>2. /\ Current \in Thread /\ Outside(sched) /\ pc[Current] = "create"
      /\ sched.state \in [Task -> State] /\ Thread \subseteq Task
      /\ pc = [u \in Task |-> pc[u]] /\ Idle \notin Thread /\ Current = sched.current
  BY <1>1, Running
<1>3. PICK c \in Thread : c = Current
  BY <1>2
<1>4. target[c] \in Thread \X Nat
  BY <1>2, <1>3 DEF LifeInv, LifeTypes, TargetsOK
<1>5. PICK t \in Thread : t = Slot(target[c]) /\ t = Target
  BY <1>3, <1>4 DEF Slot, Target
<1>6. sched.state[t] = "INIT" /\ pc[t] = "none"
  BY <1>2, <1>3, <1>5 DEF LifeInv, TargetsOK, SlotsOK
<1>7. t \notin sched.linked /\ t # c /\ t \in Task /\ t # Idle
  BY <1>2, <1>3, <1>6, NotQueued
<1> DEFINE v == InitSlot(sched, t, p)
<1>8. SlotFilled(sched, t, p, v)
  BY <1>2, <1>7, InitSlotEffect, PrioritiesAssumption DEF Outside
<1>9. sched' = __pthread_set_running(v, t)
  BY <1>5 DEF create_fill
<1> HIDE DEF v
<1>10. MadeRunning(v, t, sched')
  BY <1>7, <1>8, <1>9, SetRunningEffect DEF SlotFilled
<1>11. Outside(sched') /\ Stored(sched.state, sched'.state, t, "RUNNING")
  BY <1>2, <1>8, <1>10 DEF Outside, Stored, SlotFilled, MadeRunning
<1>12. pc' = [pc EXCEPT ![c] = "create_wake", ![t] = "user"]
  BY <1>3, <1>5 DEF create_fill
<1>13. \A u \in Task : pc'[u] = IF u = t THEN "user" ELSE IF u = c THEN "create_wake" ELSE pc[u]
  BY <1>2, <1>7, <1>12
<1>14. pc' = [u \in Task |-> pc'[u]] /\ pc'[Idle] = pc[Idle]
  BY <1>2, <1>3, <1>7, <1>12, <1>13 DEF Task
<1> QED BY <1>2, <1>3, <1>5, <1>6, <1>7, <1>11, <1>13, <1>14

\* pthread_create() reschedules, and returns.
LEMMA WakeReturnEffect ==
    ASSUME LifeInv, create_wake \/ create_return
    PROVE  \E c \in Thread, label \in {"create_ret", "user"} :
              /\ c = Current
              /\ pc[c] = IF label = "user" THEN "create_ret" ELSE "create_wake"
              /\ label = "create_ret" => create_wake
              /\ label = "user" => create_return
              /\ Outside(sched') /\ sched'.state = sched.state
              /\ Stored(pc, pc', c, label)
              /\ pc' = [u \in Task |-> pc'[u]] /\ pc'[Idle] = pc[Idle]
<1>1. CASE create_wake
  <2>1. At("create_wake") /\ sched' = schedule(sched) /\ Goto("create_ret")
    BY <1>1 DEF create_wake
  <2>2. /\ Current \in Thread /\ Outside(sched) /\ pc[Current] = "create_wake"
    BY <2>1, Running
  <2>3. Outside(sched') /\ sched'.state = sched.state
    BY <2>1, <2>2, SwitchStep DEF Outside
  <2>4. Stored(pc, pc', Current, "create_ret") /\ pc' = [u \in Task |-> pc'[u]] /\ pc'[Idle] = pc[Idle]
    BY <2>1, <2>2, GotoEffect
  <2> QED BY <1>1, <2>2, <2>3, <2>4
<1>2. CASE create_return
  <2>1. At("create_ret") /\ sched' = sched /\ Goto("user")
    BY <1>2 DEF create_return
  <2>2. /\ Current \in Thread /\ Outside(sched) /\ pc[Current] = "create_ret"
    BY <2>1, Running
  <2>3. Stored(pc, pc', Current, "user") /\ pc' = [u \in Task |-> pc'[u]] /\ pc'[Idle] = pc[Idle]
    BY <2>1, <2>2, GotoEffect
  <2>4. Outside(sched') /\ sched'.state = sched.state
    BY <2>1, <2>2
  <2> QED BY <1>2, <2>2, <2>3, <2>4
<1> QED BY <1>1, <1>2

\* pthread_exit(): the thread is gone, and its joiner, if it has one, awake.
LEMMA ExitEffect ==
    ASSUME LifeInv, pthread_exit
    PROVE  \E c \in Thread, gone \in {"NONE", "EXIT"} :
              /\ c = Current /\ pc[c] = "user"
              /\ gone = IF c \in detached THEN "NONE" ELSE "EXIT"
              /\ waiter[c] # NULL => waiter[c] \in Thread /\ waiter[c] # c
              /\ Outside(sched')
              /\ \A u \in Thread :
                    sched'.state[u] = IF u = c THEN gone
                                      ELSE IF gone = "EXIT" /\ u = waiter[c] THEN "RUNNING"
                                      ELSE sched.state[u]
              /\ Stored(pc, pc', c, "none")
              /\ pc' = [u \in Task |-> pc'[u]] /\ pc'[Idle] = pc[Idle]
<1>1. At("user") /\ Goto("none")
  BY DEF pthread_exit, Calls
<1>2. /\ Current \in Thread /\ Current # Idle /\ Outside(sched) /\ pc[Current] = "user"
      /\ sched.state \in [Task -> State] /\ Thread \subseteq Task
      /\ Current = sched.current /\ NULL \notin Thread
  BY <1>1, Running, SchedAssumption
<1>3. PICK c \in Thread : c = Current
  BY <1>2
<1> DEFINE gone == IF c \in detached THEN "NONE" ELSE "EXIT"
           v == [sched EXCEPT !.state[c] = gone]
<1>4. gone \in {"NONE", "EXIT"} /\ gone \in State \ {"RUNNING"}
  BY DEF State
<1>5. sched' = IF gone = "EXIT" /\ waiter[c] # NULL THEN wake_up(v, waiter[c]) ELSE schedule(v)
  BY <1>3 DEF pthread_exit
<1> HIDE DEF gone
<1>6. Steady(v) /\ StateStored(sched, c, gone, v)
  BY <1>2, <1>3, <1>4, StoreSteady DEF Outside
<1> HIDE DEF v
<1>7. v.in_irq = FALSE /\ v.state = [sched.state EXCEPT ![c] = gone]
  BY <1>2, <1>6 DEF Outside, StateStored
<1>8. Stored(sched.state, v.state, c, gone)
  BY <1>2, <1>7 DEF Stored
<1>9. waiter[c] # NULL => waiter[c] \in Thread /\ waiter[c] # c
  BY <1>2, <1>3 DEF LifeInv, LifeTypes, WaitersOK
<1>10. /\ Outside(sched')
       /\ \A u \in Thread :
             sched'.state[u] = IF u = c THEN gone
                               ELSE IF gone = "EXIT" /\ u = waiter[c] THEN "RUNNING"
                               ELSE sched.state[u]
  <2>1. CASE gone = "EXIT" /\ waiter[c] # NULL
    <3>1. Outside(sched') /\ Stored(v.state, sched'.state, waiter[c], "RUNNING")
      BY <1>5, <1>6, <1>7, <1>9, <2>1, WakeEffect
    <3> QED BY <1>8, <1>9, <2>1, <3>1 DEF Stored
  <2>2. CASE ~(gone = "EXIT" /\ waiter[c] # NULL)
    <3>1. sched' = schedule(v)
      BY <1>5, <2>2
    <3>2. Outside(sched') /\ sched'.state = v.state
      BY <1>6, <1>7, <3>1, SwitchStep DEF Outside
    <3> QED BY <1>2, <1>8, <2>2, <3>2 DEF Stored
  <2> QED BY <2>1, <2>2
<1>11. Stored(pc, pc', c, "none") /\ pc' = [u \in Task |-> pc'[u]] /\ pc'[Idle] = pc[Idle]
  BY <1>1, <1>3, GotoEffect
<1> QED BY <1>2, <1>3, <1>4, <1>9, <1>10, <1>11 DEF gone

\* pthread_join() up to its first look at the slot.
LEMMA JoinCallEffect ==
    ASSUME LifeInv, NEW h \in handles, join_call(h)
    PROVE  \E c \in Thread :
              /\ c = Current /\ pc[c] = "user"
              /\ Outside(sched') /\ sched' = sched
              /\ Stored(pc, pc', c, "join")
              /\ pc' = [u \in Task |-> pc'[u]] /\ pc'[Idle] = pc[Idle]
<1>1. At("user") /\ Goto("join") /\ sched' = sched
  BY DEF join_call, Calls
<1>2. Current \in Thread /\ Outside(sched) /\ pc[Current] = "user"
  BY <1>1, Running
<1>3. Stored(pc, pc', Current, "join") /\ pc' = [u \in Task |-> pc'[u]] /\ pc'[Idle] = pc[Idle]
  BY <1>1, <1>2, GotoEffect
<1>4. Outside(sched')
  BY <1>1, <1>2
<1> QED BY <1>1, <1>2, <1>3, <1>4

\* pthread_join() returns: it has reaped the thread, or it fails.
LEMMA JoinReturnEffect ==
    ASSUME LifeInv, join_reap \/ join_esrch \/ join_einval \/ join_edeadlk
    PROVE  \E c, t \in Thread :
              /\ c = Current /\ pc[c] = "join" /\ t = Slot(target[c]) /\ t = Target
              /\ target[c] # NULL
              /\ Outside(sched')
              /\ IF join_reap
                 THEN /\ sched.state[t] = "EXIT" /\ t # c
                      /\ Stored(sched.state, sched'.state, t, "NONE")
                 ELSE sched'.state = sched.state
              /\ Stored(pc, pc', c, "user")
              /\ pc' = [u \in Task |-> pc'[u]] /\ pc'[Idle] = pc[Idle]
              /\ target' = [target EXCEPT ![c] = NULL]
<1>1. At("join") /\ JoinReturns
  BY DEF join_reap, join_esrch, join_einval, join_edeadlk
<1>2. /\ Current \in Thread /\ Outside(sched) /\ pc[Current] = "join"
      /\ sched.state \in [Task -> State] /\ Thread \subseteq Task
  BY <1>1, Running
<1>3. PICK c \in Thread : c = Current
  BY <1>2
<1>4. target[c] \in Thread \X Nat /\ target[c] # NULL
  BY <1>2, <1>3 DEF LifeInv, LifeTypes, TargetsOK
<1>5. PICK t \in Thread : t = Slot(target[c]) /\ t = Target
  BY <1>3, <1>4 DEF Slot, Target
<1>6. /\ Outside(sched')
      /\ IF join_reap
         THEN /\ sched.state[t] = "EXIT" /\ t # c
              /\ Stored(sched.state, sched'.state, t, "NONE")
         ELSE sched'.state = sched.state
  <2>1. CASE join_reap
    <3>1. sched.state[t] = "EXIT" /\ sched' = [sched EXCEPT !.state[t] = "NONE"]
      BY <1>5, <2>1 DEF join_reap
    <3>2. pc[t] = "none"
      BY <3>1 DEF LifeInv, SlotsOK
    <3>3. t \notin sched.linked /\ t # c
      BY <1>2, <1>3, <3>2, NotQueued
    <3>4. "NONE" \in State \ {"RUNNING"}
      BY DEF State
    <3>5. Steady(sched') /\ StateStored(sched, t, "NONE", sched')
      BY <1>2, <3>1, <3>3, <3>4, StoreSteady DEF Outside
    <3> QED BY <1>2, <2>1, <3>1, <3>3, <3>5 DEF Outside, StateStored, Stored
  <2>2. CASE ~join_reap
    BY <1>2, <2>2 DEF join_esrch, join_einval, join_edeadlk
  <2> QED BY <2>1, <2>2
<1>7. Stored(pc, pc', c, "user") /\ pc' = [u \in Task |-> pc'[u]] /\ pc'[Idle] = pc[Idle]
  BY <1>1, <1>3, GotoEffect DEF JoinReturns
<1>8. target' = [target EXCEPT ![c] = NULL]
  BY <1>1, <1>3 DEF JoinReturns, ForgetTarget
<1> QED BY <1>2, <1>3, <1>4, <1>5, <1>6, <1>7, <1>8

\* pthread_join() goes to sleep, and goes on.
LEMMA JoinWaitEffect ==
    ASSUME LifeInv, join_sleep \/ join_resume
    PROVE  \E c, t \in Thread, label \in {"join", "join_wait"} :
              /\ c = Current /\ t = Slot(target[c]) /\ t = Target
              /\ target[c] # NULL
              /\ label = "join_wait" => join_sleep /\ pc[c] = "join"
              /\ label = "join" => join_resume /\ pc[c] = "join_wait"
              /\ Outside(sched')
              /\ IF label = "join_wait" THEN Stored(sched.state, sched'.state, c, "SLEEPING")
                                        ELSE sched' = sched
              /\ Stored(pc, pc', c, label)
              /\ pc' = [u \in Task |-> pc'[u]] /\ pc'[Idle] = pc[Idle]
              /\ waiter' = [waiter EXCEPT ![t] = IF label = "join_wait" THEN c ELSE NULL]
<1>1. CASE join_sleep
  <2>1. At("join") /\ sched' = Block(sched) /\ Goto("join_wait") /\ waiter' = Registered
    BY <1>1 DEF join_sleep
  <2>2. /\ Current \in Thread /\ Current # Idle /\ Outside(sched) /\ pc[Current] = "join"
        /\ sched.state \in [Task -> State] /\ Thread \subseteq Task /\ Current = sched.current
    BY <2>1, Running
  <2>3. target[Current] \in Thread \X Nat /\ target[Current] # NULL
    BY <2>2 DEF LifeInv, LifeTypes, TargetsOK
  <2>4. PICK c \in Thread : c = Current
    BY <2>2
  <2>5. PICK t \in Thread : t = Slot(target[c]) /\ t = Target
    BY <2>3, <2>4 DEF Slot, Target
  <2>6. /\ Outside(sched') /\ sched'.state = [sched.state EXCEPT ![sched.current] = "SLEEPING"]
    BY <2>1, <2>2, BlockEffect DEF Outside
  <2>7. Stored(sched.state, sched'.state, c, "SLEEPING")
    BY <2>2, <2>4, <2>6 DEF Stored
  <2>8. Stored(pc, pc', c, "join_wait") /\ pc' = [u \in Task |-> pc'[u]] /\ pc'[Idle] = pc[Idle]
    BY <2>1, <2>4, GotoEffect
  <2>9. waiter' = [waiter EXCEPT ![t] = c]
    BY <2>1, <2>4, <2>5 DEF Registered
  <2> QED BY <1>1, <2>2, <2>3, <2>4, <2>5, <2>6, <2>7, <2>8, <2>9
<1>2. CASE join_resume
  <2>1. At("join_wait") /\ sched' = sched /\ Goto("join") /\ waiter' = [waiter EXCEPT ![Target] = NULL]
    BY <1>2 DEF join_resume
  <2>2. Current \in Thread /\ Outside(sched) /\ pc[Current] = "join_wait"
    BY <2>1, Running
  <2>3. target[Current] \in Thread \X Nat /\ target[Current] # NULL
    BY <2>2 DEF LifeInv, LifeTypes, TargetsOK, Task
  <2>4. PICK c \in Thread : c = Current
    BY <2>2
  <2>5. PICK t \in Thread : t = Slot(target[c]) /\ t = Target
    BY <2>3, <2>4 DEF Slot, Target
  <2>6. Stored(pc, pc', c, "join") /\ pc' = [u \in Task |-> pc'[u]] /\ pc'[Idle] = pc[Idle]
    BY <2>1, <2>4, GotoEffect
  <2>7. waiter' = [waiter EXCEPT ![t] = NULL] /\ Outside(sched')
    BY <2>1, <2>2, <2>5
  <2> QED BY <1>2, <2>1, <2>2, <2>3, <2>4, <2>5, <2>6, <2>7
<1> QED BY <1>1, <1>2

\* pthread_detach() of a thread that has not exited wakes its joiner.
LEMMA DetachRunningEffect ==
    ASSUME LifeInv, NEW h \in handles, detach_running(h)
    PROVE  \E c, t \in Thread :
              /\ c = Current /\ pc[c] = "user" /\ t = Slot(h) /\ pc[t] # "none"
              /\ waiter[t] # NULL => waiter[t] \in Thread /\ waiter[t] # c
              /\ Outside(sched')
              /\ IF waiter[t] = NULL THEN sched' = sched
                 ELSE Stored(sched.state, sched'.state, waiter[t], "RUNNING")
<1>1. At("user") /\ h \in Thread \X Nat
  BY DEF detach_running, Calls, LifeInv, LifeTypes
<1>2. /\ Current \in Thread /\ Outside(sched) /\ pc[Current] = "user"
      /\ Thread \subseteq Task /\ NULL \notin Thread
  BY <1>1, Running, SchedAssumption
<1>3. PICK t \in Thread : t = Slot(h)
  BY <1>1 DEF Slot
<1>4. /\ sched.state[t] \in {"RUNNING", "SLEEPING"}
      /\ sched' = IF waiter[t] = NULL THEN sched ELSE wake_up(sched, waiter[t])
  BY <1>3 DEF detach_running
<1>5. pc[t] # "none"
  BY <1>4 DEF LifeInv, SlotsOK
<1>6. waiter[t] # NULL => waiter[t] \in Thread /\ waiter[t] # Current
  BY <1>2 DEF LifeInv, LifeTypes, WaitersOK
<1>7. CASE waiter[t] = NULL
  BY <1>2, <1>3, <1>4, <1>5, <1>7
<1>8. CASE waiter[t] # NULL
  <2>1. Outside(sched') /\ Stored(sched.state, sched'.state, waiter[t], "RUNNING")
    BY <1>2, <1>4, <1>6, <1>8, WakeEffect DEF Outside
  <2> QED BY <1>2, <1>3, <1>5, <1>6, <1>8, <2>1
<1> QED BY <1>7, <1>8

\* pthread_detach() of a thread that has exited frees its slot.
LEMMA DetachExitedEffect ==
    ASSUME LifeInv, NEW h \in handles, detach_exited(h)
    PROVE  \E c, t \in Thread :
              /\ c = Current /\ pc[c] = "user" /\ t = Slot(h) /\ pc[t] = "none"
              /\ sched.state[t] = "EXIT"
              /\ Outside(sched') /\ Stored(sched.state, sched'.state, t, "NONE")
<1>1. At("user") /\ h \in Thread \X Nat
  BY DEF detach_exited, Calls, LifeInv, LifeTypes
<1>2. /\ Current \in Thread /\ Outside(sched) /\ pc[Current] = "user"
      /\ Thread \subseteq Task /\ sched.state \in [Task -> State]
  BY <1>1, Running
<1>3. PICK t \in Thread : t = Slot(h)
  BY <1>1 DEF Slot
<1>4. sched.state[t] = "EXIT" /\ sched' = [sched EXCEPT !.state[t] = "NONE"]
  BY <1>3 DEF detach_exited
<1>5. pc[t] = "none"
  BY <1>4 DEF LifeInv, SlotsOK
<1>6. t \notin sched.linked /\ t # Current
  BY <1>2, <1>5, NotQueued
<1>7. "NONE" \in State \ {"RUNNING"}
  BY DEF State
<1>8. Steady(sched') /\ StateStored(sched, t, "NONE", sched')
  BY <1>2, <1>4, <1>6, <1>7, StoreSteady DEF Outside
<1>9. Outside(sched') /\ Stored(sched.state, sched'.state, t, "NONE")
  BY <1>2, <1>6, <1>8 DEF Outside, StateStored, Stored, Current
<1> QED BY <1>2, <1>3, <1>4, <1>5, <1>9

Plain == {"user", "sleep", "timer_add", "timer_delete"}

\* What the scheduler's own steps do to the threads: none is created or goes,
\* and none that is in a life-cycle call moves or is put to sleep.
CallKeeps ==
    /\ KernelInv'
    /\ Awake'
    /\ \A t \in Thread :
          /\ pc'[t] # pc[t] => pc[t] \in Plain /\ pc'[t] \in Plain
          /\ sched'.state[t] # sched.state[t] =>
                /\ sched.state[t] \in {"RUNNING", "SLEEPING"}
                /\ sched'.state[t] = "RUNNING" \/ (sched'.state[t] = "SLEEPING" /\ pc[t] = "user")
    /\ \A t \in timers' : pc'[t] \in {"timer_add", "timer_delete"}

SchedCall == BootEnable \/ BootYield \/ pthread_yield \/ Sleeping \/ Timer

\* They do no more.
LEMMA CallEffect ==
    ASSUME LifeInv, SchedCall
    PROVE  CallKeeps
<1>1. KernelInv' /\ Awake'
  <2>1. SchedNext
    BY DEF SchedCall, SchedNext, Boot
  <2> QED BY <2>1, KernelStep DEF LifeInv, SlotsOK, SchedMove
<1>2. /\ Steady(sched) /\ Pointed(sched) /\ sched \in SchedRecord
      /\ pc = [t \in Task |-> pc[t]] /\ sched.state \in [Task -> State]
      /\ timers \subseteq Thread /\ Thread \subseteq Task /\ Idle \notin Thread
      /\ \A t \in timers : pc[t] \in {"timer_add", "timer_delete"}
  BY SchedAssumption DEF LifeInv, KernelInv, Steady, Sound, SchedRecord, SlotsOK, Task
<1>3. ASSUME sched'.state = sched.state, \A t \in Thread : pc'[t] = pc[t], timers' = timers
      PROVE  CallKeeps
  BY <1>1, <1>2, <1>3 DEF CallKeeps
<1>4. CASE BootEnable
  <2>1. IrqStored(sched, FALSE, sched')
    BY <1>2, <1>4, StoreIrq DEF BootEnable, Steady
  <2> QED BY <1>2, <1>3, <1>4, <2>1 DEF BootEnable, IrqStored
<1>5. CASE BootYield
  <2>1. sched.in_irq = FALSE /\ pc[Current] = "sti"
    BY <1>2, <1>5 DEF BootYield, At, SchedRecord
  <2>2. Current \notin Thread
    BY <2>1 DEF LifeInv, KernelInv, PlacesOK
  <2>3. sched'.state = sched.state
    BY <1>2, <1>5, <2>1, SwitchStep DEF BootYield
  <2> QED BY <1>2, <1>3, <1>5, <2>2, <2>3 DEF BootYield, Goto
<1>6. CASE pthread_yield
  <2>1. sched.in_irq = FALSE
    BY <1>2, <1>6 DEF pthread_yield, Calls, At, SchedRecord
  <2>2. sched'.state = sched.state
    BY <1>2, <1>6, <2>1, SwitchStep DEF pthread_yield
  <2> QED BY <1>2, <1>3, <1>6, <2>2 DEF pthread_yield
<1>7. ASSUME NEW label \in Plain, At(label), NEW next \in Plain, Goto(next),
             sched'.state = sched.state
               \/ (label = "user" /\ sched'.state = [sched.state EXCEPT ![Current] = "SLEEPING"]),
             timers' = IF next = "timer_add" THEN timers \cup {Current}
                       ELSE IF next = "user" THEN timers \ {Current} ELSE timers,
             <<label, next>> \in {<<"user", "sleep">>, <<"sleep", "timer_add">>,
                                  <<"timer_add", "timer_delete">>, <<"timer_delete", "user">>}
      PROVE  CallKeeps
  <2>1. /\ Current \in Thread /\ pc[Current] = label
    BY <1>7, Running DEF Plain
  <2>2. PICK c \in Thread : c = Current
    BY <2>1
  <2>3. Stored(pc, pc', c, next)
    BY <1>7, <2>2, GotoEffect
  <2>4. sched.state[c] \in {"RUNNING", "SLEEPING"}
    BY <1>7, <2>1, <2>2 DEF LifeInv, SlotsOK, Plain
  <2>5. \A t \in Thread : sched'.state[t] = sched.state[t]
           \/ (t = c /\ sched'.state[t] = "SLEEPING" /\ pc[t] = "user")
    BY <1>2, <1>7, <2>1, <2>2
  <2>6. \A t \in timers' : pc'[t] \in {"timer_add", "timer_delete"}
    BY <1>2, <1>7, <2>1, <2>2, <2>3 DEF Stored
  <2>7. \A t \in Thread : pc'[t] # pc[t] => pc[t] \in Plain /\ pc'[t] \in Plain
    BY <1>7, <2>1, <2>2, <2>3 DEF Stored
  <2> QED BY <1>1, <2>4, <2>5, <2>6, <2>7 DEF CallKeeps
<1>8. CASE sleep
  <2>1. At("user") /\ Goto("sleep") /\ timers' = timers
    BY <1>8 DEF sleep, Calls
  <2>2. sched'.state = [sched.state EXCEPT ![Current] = "SLEEPING"]
    BY <1>2, <1>8 DEF sleep, SchedRecord
  <2> QED BY <1>7, <2>1, <2>2 DEF Plain
<1>9. CASE timer_add
  <2>1. At("sleep") /\ Goto("timer_add") /\ timers' = timers \cup {Current} /\ sched' = sched
    BY <1>9 DEF timer_add
  <2> QED BY <1>7, <2>1 DEF Plain
<1>10. CASE sleep_schedule
  <2>1. At("timer_add") /\ Goto("timer_delete") /\ timers' = timers /\ sched' = schedule(sched)
    BY <1>10 DEF sleep_schedule
  <2>2. sched.in_irq = FALSE
    BY <1>2, <2>1 DEF At, SchedRecord
  <2>3. sched'.state = sched.state
    BY <1>2, <2>1, <2>2, SwitchStep
  <2> QED BY <1>7, <2>1, <2>3 DEF Plain
<1>11. CASE timer_delete
  <2>1. At("timer_delete") /\ Goto("user") /\ timers' = timers \ {Current} /\ sched' = sched
    BY <1>11 DEF timer_delete
  <2> QED BY <1>7, <2>1 DEF Plain
<1>12. CASE IrqEnter
  <2>1. IrqStored(sched, TRUE, sched')
    BY <1>2, <1>12, StoreIrq DEF IrqEnter, EnterIrq, Steady
  <2> QED BY <1>3, <1>12, <2>1 DEF IrqEnter, IrqStored
<1>13. ASSUME NEW w \in Thread, sched_timeout(w) PROVE CallKeeps
  <2>1. w \in timers /\ timers' = timers \ {w} /\ sched' = wake_up(sched, w) /\ pc' = pc
    BY <1>13 DEF sched_timeout
  <2>2. PICK r : MadeRunning(sched, w, r) /\ Rescheduled(r, sched')
    BY <1>2, <2>1, WakeUpEffect
  <2>3. sched'.state = [sched.state EXCEPT ![w] = "RUNNING"]
    BY <2>2, Zenon DEF MadeRunning, Rescheduled
  <2>4. sched.state[w] \in {"RUNNING", "SLEEPING"}
    BY <1>2, <2>1 DEF LifeInv, SlotsOK
  <2> QED BY <1>1, <1>2, <2>1, <2>3, <2>4 DEF CallKeeps
<1>14. CASE IrqLeave
  <2>1. Left(sched, sched')
    BY <1>2, <1>14, LeaveIrqEffect DEF IrqLeave
  <2> QED BY <1>3, <1>14, <2>1 DEF IrqLeave, Left
<1> QED BY <1>4, <1>5, <1>6, <1>8, <1>9, <1>10, <1>11, <1>12, <1>13, <1>14
        DEF SchedCall, Sleeping, Timer

\* An application initializer creates a thread in a free slot.
LEMMA BootEffect ==
    ASSUME LifeInv, NEW p \in Priorities, BootCreateThread(p)
    PROVE  \E t \in Thread :
              /\ KernelInv' /\ Awake' /\ timers' = timers
              /\ sched.state[t] = "NONE" /\ pc[t] = "none"
              /\ Stored(sched.state, sched'.state, t, "RUNNING")
              /\ Stored(pc, pc', t, "user")
              /\ gen' = [gen EXCEPT ![t] = gen[t] + 1]
              /\ handles' = handles \cup {<<t, gen[t] + 1>>}
<1> DEFINE t == Min(FreeSlots(sched))
<1>1. BootCreate(p) /\ KernelInv /\ SlotsOK /\ LifeTypes
  BY DEF BootCreateThread, LifeInv
<1>2. KernelInv' /\ Awake'
  <2>1. SchedNext
    BY <1>1 DEF SchedNext, Boot
  <2> QED BY <1>1, <2>1, KernelStep DEF SlotsOK, SchedMove
<1>3. t \in Thread /\ sched.state[t] = "NONE"
  BY <1>1, MinOfSet, SchedAssumption DEF FreeSlots, BootCreate
<1>4. /\ sched' = wake_up(InitSlot(sched, t, p), t) /\ pc' = [pc EXCEPT ![t] = "user"]
      /\ timers' = timers /\ pc[Idle] = "init"
  BY <1>1 DEF BootCreate
<1>5. /\ gen' = [gen EXCEPT ![t] = gen[t] + 1]
      /\ handles' = handles \cup {<<t, gen'[t]>>}
  BY DEF BootCreateThread
<1> HIDE DEF t
<1>6. gen'[t] = gen[t] + 1
  BY <1>1, <1>3, <1>5 DEF LifeTypes
<1>7. /\ Steady(sched) /\ sched.state \in [Task -> State] /\ Thread \subseteq Task
      /\ pc = [x \in Task |-> pc[x]] /\ sched.current = Idle /\ Idle # t
  BY <1>1, <1>3, <1>4, SchedAssumption DEF KernelInv, PlacesOK, Current, Steady, Sound, SchedRecord, Task
<1>8. t \notin sched.linked
  BY <1>3, <1>7 DEF Steady, Ready
<1> DEFINE i == InitSlot(sched, t, p)
<1>9. SlotFilled(sched, t, p, i)
  BY <1>3, <1>7, <1>8, InitSlotEffect, PrioritiesAssumption
<1>10. sched' = wake_up(i, t)
  BY <1>4
<1> HIDE DEF i
<1>11. PICK r : MadeRunning(i, t, r) /\ Rescheduled(r, sched')
  BY <1>3, <1>7, <1>9, <1>10, WakeUpEffect DEF SlotFilled
<1>12. sched'.state = [sched.state EXCEPT ![t] = "RUNNING"]
  BY <1>9, <1>11, Zenon DEF SlotFilled, MadeRunning, Rescheduled
<1>13. Stored(sched.state, sched'.state, t, "RUNNING") /\ Stored(pc, pc', t, "user")
  BY <1>3, <1>4, <1>7, <1>12 DEF Stored
<1>14. pc[t] = "none"
  BY <1>1, <1>3 DEF SlotsOK
<1> QED BY <1>2, <1>3, <1>4, <1>5, <1>6, <1>13, <1>14

-----------------------------------------------------------------------------
(***************************************************************************)
(* The invariant is inductive.                                             *)
(***************************************************************************)
\* Boot establishes it: there are no threads.
LEMMA LifeInitInv == LifecycleInit => LifeInv
<1> SUFFICES ASSUME LifecycleInit PROVE LifeInv
  OBVIOUS
<1>1. KernelInv
  BY SchedInitInv DEF LifecycleInit, SchedInv
<1>2. /\ pc = [t \in Task |-> IF t = Idle THEN "init" ELSE "none"] /\ timers = {}
      /\ Thread \subseteq Task /\ Idle \notin Thread
  BY SchedAssumption DEF LifecycleInit, SchedInit, Task
<1>3. \A t \in Thread : sched.state[t] = "NONE" /\ pc[t] = "none"
  <2>1. sched.state = [t \in Task |-> IF t = Idle THEN "RUNNING" ELSE "NONE"]
    BY DEF LifecycleInit, SchedInit, pthread_init, run_queue_enqueue
  <2> QED BY <1>2, <2>1
<1>4. LifeTypes
  BY DEF LifecycleInit, LifeTypes
<1>5. SlotsOK /\ TargetsOK /\ WaitersOK
  <2>1. Awake
    BY <1>1 DEF LifecycleInit, SchedInit, Awake, Current, KernelInv, Steady, Sound,
                pthread_init, run_queue_enqueue
  <2> QED BY <1>2, <1>3, <2>1 DEF SlotsOK, TargetsOK, WaitersOK, LifecycleInit, LifePlaces
<1> QED BY <1>1, <1>4, <1>5 DEF LifeInv

\* Initializers that create threads keep it.
LEMMA BootKeeps ==
    ASSUME LifeInv, NEW p \in Priorities, BootCreateThread(p), disciplined' = disciplined
    PROVE  LifeInv'
<1>1. PICK t \in Thread :
              /\ KernelInv' /\ Awake' /\ timers' = timers
              /\ sched.state[t] = "NONE" /\ pc[t] = "none"
              /\ Stored(sched.state, sched'.state, t, "RUNNING")
              /\ Stored(pc, pc', t, "user")
              /\ gen' = [gen EXCEPT ![t] = gen[t] + 1]
              /\ handles' = handles \cup {<<t, gen[t] + 1>>}
  BY BootEffect
<1>2. UNCHANGED <<detached, waiter, target>>
  BY DEF BootCreateThread
<1>3. LifeTypes /\ SlotsOK /\ TargetsOK /\ WaitersOK /\ timers \subseteq Thread
  BY DEF LifeInv, KernelInv
<1>4. LifeTypes'
  BY <1>1, <1>2, <1>3 DEF LifeTypes
<1>5. SlotsOK'
  BY <1>1, <1>2, <1>3 DEF SlotsOK, Stored, Outside, Awake, Current
<1>6. TargetsOK'
  <2>1. \A u \in Thread : pc'[u] = IF u = t THEN "user" ELSE pc[u]
    BY <1>1 DEF Stored
  <2>2. target[t] = NULL
    BY <1>1, <1>3 DEF TargetsOK, LifePlaces
  <2>3. ASSUME NEW u \in Thread, pc'[u] = "create"
        PROVE  sched'.state[Slot(target[u])] = "INIT" /\ gen'[Slot(target[u])] = gen[Slot(target[u])]
    <3>1. pc[u] = "create" /\ sched.state[Slot(target[u])] = "INIT" /\ target[u] # NULL
      BY <2>1, <2>3, <1>3 DEF TargetsOK
    <3>2. Slot(target[u]) \in Thread /\ Slot(target[u]) # t
      BY <1>1, <1>3, <3>1 DEF LifeTypes, Slot, Task
    <3> QED BY <1>1, <1>3, <3>1, <3>2 DEF Stored, LifeTypes
  <2> QED BY <1>2, <1>3, <2>1, <2>2, <2>3 DEF TargetsOK, LifePlaces
<1>7. WaitersOK'
  BY <1>1, <1>2, <1>3, SchedAssumption DEF WaitersOK, Stored, LifeTypes
<1> QED BY <1>1, <1>4, <1>5, <1>6, <1>7 DEF LifeInv

\* The scheduler's own steps keep it.
LEMMA CallKeepsInv ==
    ASSUME LifeInv, SchedCall, UNCHANGED lifeVars, disciplined' = disciplined
    PROVE  LifeInv'
<1>1. CallKeeps
  BY CallEffect
<1>2. UNCHANGED <<detached, waiter, gen, handles, target>>
  BY DEF lifeVars
<1>3. LifeTypes /\ SlotsOK /\ TargetsOK /\ WaitersOK
  BY DEF LifeInv
<1>4. LifeTypes'
  BY <1>2, <1>3 DEF LifeTypes
<1>5. SlotsOK'
  BY <1>1, <1>2, <1>3 DEF SlotsOK, CallKeeps, Plain
<1>6. \A t \in Thread : pc'[t] # pc[t] => pc[t] \notin LifePlaces /\ pc'[t] \notin LifePlaces
  BY <1>1 DEF CallKeeps, Plain, LifePlaces
<1>7. TargetsOK'
  <2>1. ASSUME NEW u \in Thread, pc'[u] = "create"
        PROVE  sched'.state[Slot(target[u])] = "INIT"
    <3>1. pc[u] = "create" /\ sched.state[Slot(target[u])] = "INIT" /\ target[u] # NULL
      BY <1>3, <1>6, <2>1 DEF TargetsOK, LifePlaces
    <3>2. Slot(target[u]) \in Thread
      BY <1>3, <3>1 DEF LifeTypes, Slot, Task
    <3> QED BY <1>1, <3>1, <3>2 DEF CallKeeps
  <2> QED BY <1>2, <1>3, <1>6, <2>1 DEF TargetsOK, LifePlaces
<1>8. WaitersOK'
  BY <1>2, <1>3, <1>6 DEF WaitersOK, LifeTypes, LifePlaces
<1> QED BY <1>1, <1>4, <1>5, <1>7, <1>8 DEF LifeInv, CallKeeps

\* The kernel's part of the invariant after a thread's step, given the part
\* about the slots.
LEMMA LifeKernel ==
    ASSUME LifeInv, SlotsOK', ~sched.in_irq, Outside(sched'),
           pc' = [t \in Task |-> pc'[t]], pc'[Idle] = pc[Idle],
           \A t \in Thread : pc'[t] \notin {"init", "sti", "halt"},
           timers' = timers
    PROVE  KernelInv'
<1>1. \A t \in Thread : sched'.state[t] = "NONE" => pc'[t] = "none"
  BY DEF SlotsOK
<1> QED BY <1>1, LifeStep DEF LifeInv

\* pthread_create() keeps it.
LEMMA ClaimKeeps ==
    ASSUME LifeInv, create_claim, disciplined' = disciplined
    PROVE  LifeInv'
<1>1. PICK c, t \in Thread :
              /\ c = Current /\ pc[c] = "user" /\ pc[t] = "none" /\ t # c
              /\ sched.state[t] = "NONE"
              /\ Outside(sched') /\ Stored(sched.state, sched'.state, t, "INIT")
              /\ Stored(pc, pc', c, "create")
              /\ pc' = [u \in Task |-> pc'[u]] /\ pc'[Idle] = pc[Idle]
              /\ target' = [target EXCEPT ![c] = <<t, gen[t] + 1>>]
  BY ClaimEffect
<1>2. UNCHANGED <<timers, detached, waiter, gen, handles>> /\ ~sched.in_irq
  BY DEF create_claim, Calls, At
<1>3. /\ LifeTypes /\ SlotsOK /\ TargetsOK /\ WaitersOK /\ timers \subseteq Thread
      /\ \A u \in Thread : pc[u] \notin {"init", "sti", "halt"}
  BY DEF LifeInv, KernelInv, PlacesOK
<1>4. LifeTypes'
  <2>1. <<t, gen[t] + 1>> \in Thread \X Nat
    BY <1>3 DEF LifeTypes
  <2>2. target' \in [Task -> (Thread \X Nat) \cup {NULL}]
    BY <1>1, <1>3, <2>1 DEF LifeTypes
  <2> QED BY <1>2, <1>3, <2>2 DEF LifeTypes
<1>5. SlotsOK'
  BY <1>1, <1>2, <1>3 DEF SlotsOK, Stored, Outside, Awake, Current
<1>6. /\ \A u \in Thread : pc'[u] = IF u = c THEN "create" ELSE pc[u]
      /\ \A u \in Thread : target'[u] = IF u = c THEN <<t, gen[t] + 1>> ELSE target[u]
  BY <1>1, <1>3 DEF Stored, LifeTypes, Task
<1>7. TargetsOK'
  <2>1. <<t, gen[t] + 1>> # NULL /\ Slot(<<t, gen[t] + 1>>) = t
    BY <1>3, LifecycleAssumption DEF LifeTypes, Slot
  <2>2. ASSUME NEW u \in Thread, u # c, pc[u] = "create"
        PROVE  /\ Slot(target[u]) \in Thread /\ Slot(target[u]) # t
               /\ sched'.state[Slot(target[u])] = "INIT"
    <3>1. sched.state[Slot(target[u])] = "INIT" /\ target[u] # NULL
      BY <1>3, <2>2 DEF TargetsOK
    <3>2. Slot(target[u]) \in Thread /\ Slot(target[u]) # t
      BY <1>1, <1>3, <3>1 DEF LifeTypes, Slot, Task
    <3> QED BY <1>1, <3>1, <3>2 DEF Stored
  <2>3. \A u \in Thread : pc'[u] \in {"create", "join", "join_wait"} => target'[u] # NULL
    BY <1>3, <1>6, <2>1 DEF TargetsOK
  <2>4. \A u \in Thread : pc'[u] \notin LifePlaces => target'[u] = NULL
    BY <1>3, <1>6 DEF TargetsOK, LifePlaces
  <2>5. ASSUME NEW u \in Thread, pc'[u] = "create"
        PROVE  /\ sched'.state[Slot(target'[u])] = "INIT"
               /\ target'[u] = <<Slot(target'[u]), gen'[Slot(target'[u])] + 1>>
    <3>1. CASE u = c
      BY <1>1, <1>2, <1>6, <2>1, <3>1 DEF Stored
    <3>2. CASE u # c
      BY <1>2, <1>3, <1>6, <2>2, <2>5, <3>2 DEF TargetsOK
    <3> QED BY <3>1, <3>2
  <2>6. ASSUME NEW u \in Thread, NEW v \in Thread,
               pc'[u] = "create", pc'[v] = "create", target'[u] = target'[v]
        PROVE  u = v
    BY <1>3, <1>6, <2>1, <2>2, <2>6 DEF TargetsOK
  <2> QED BY <2>3, <2>4, <2>5, <2>6 DEF TargetsOK
<1>8. WaitersOK'
  BY <1>1, <1>2, <1>3, <1>6 DEF WaitersOK, LifeTypes
<1>9. KernelInv'
  <2>1. \A u \in Thread : pc'[u] \notin {"init", "sti", "halt"}
    BY <1>3, <1>6
  <2> QED BY <1>1, <1>2, <1>5, <2>1, LifeKernel
<1> QED BY <1>4, <1>5, <1>7, <1>8, <1>9 DEF LifeInv

\* pthread_create() filling in the slot keeps it.
LEMMA FillKeeps ==
    ASSUME LifeInv, NEW p \in Priorities, NEW flag \in BOOLEAN, create_fill(p, flag),
           disciplined' = disciplined
    PROVE  LifeInv'
<1>1. PICK c, t \in Thread :
              /\ c = Current /\ t = Slot(target[c])
              /\ pc[c] = "create" /\ pc[t] = "none" /\ t # c
              /\ sched.state[t] = "INIT"
              /\ Outside(sched') /\ Stored(sched.state, sched'.state, t, "RUNNING")
              /\ \A u \in Thread : pc'[u] = IF u = t THEN "user"
                                            ELSE IF u = c THEN "create_wake" ELSE pc[u]
              /\ pc' = [u \in Task |-> pc'[u]] /\ pc'[Idle] = pc[Idle]
  BY FillEffect
<1>2. /\ ~sched.in_irq /\ timers' = timers /\ handles' = handles
      /\ detached' = IF flag THEN detached \cup {t} ELSE detached \ {t}
      /\ waiter' = [waiter EXCEPT ![t] = NULL]
      /\ gen' = [gen EXCEPT ![t] = gen[t] + 1]
      /\ target' = [target EXCEPT ![c] = NULL] \/ target' = target
  BY <1>1 DEF create_fill, At, Target, ForgetTarget
<1>3. /\ LifeTypes /\ SlotsOK /\ TargetsOK /\ WaitersOK /\ timers \subseteq Thread
      /\ \A u \in Thread : pc[u] \notin {"init", "sti", "halt"}
  BY DEF LifeInv, KernelInv, PlacesOK
<1>4. LifeTypes'
  <2>1. detached' \subseteq Thread
    <3>1. flag => detached' = detached \cup {t}
      BY <1>2
    <3>2. ~flag => detached' = detached \ {t}
      BY <1>2
    <3> QED BY <1>3, <3>1, <3>2 DEF LifeTypes
  <2>3. waiter' \in [Task -> Thread \cup {NULL}]
    BY <1>2, <1>3 DEF LifeTypes
  <2>4. gen' \in [Thread -> Nat]
    BY <1>2, <1>3 DEF LifeTypes
  <2>2. target' \in [Task -> (Thread \X Nat) \cup {NULL}]
    BY <1>2, <1>3 DEF LifeTypes
  <2> QED BY <1>2, <1>3, <2>1, <2>2, <2>3, <2>4 DEF LifeTypes
<1>5. SlotsOK'
  BY <1>1, <1>2, <1>3 DEF SlotsOK, Stored, Outside, Awake, Current
<1>6. \A u \in Thread : u # c => target'[u] = target[u]
  <2>1. target \in [Task -> (Thread \X Nat) \cup {NULL}] /\ Thread \subseteq Task
    BY <1>3 DEF LifeTypes, Task
  <2> QED BY <1>2, <2>1
<1>7. TargetsOK'
  <2>1. ASSUME NEW u \in Thread, u # c, pc[u] = "create"
        PROVE  Slot(target[u]) \in Thread /\ Slot(target[u]) # t
    <3>1. target[u] = <<Slot(target[u]), gen[Slot(target[u])] + 1>> /\ target[u] # NULL
      BY <1>3, <2>1 DEF TargetsOK
    <3>2. target[c] = <<t, gen[t] + 1>>
      BY <1>1, <1>3 DEF TargetsOK
    <3>3. target[u] # target[c]
      BY <1>1, <1>3, <2>1 DEF TargetsOK
    <3>4. Slot(target[u]) \in Thread
      BY <1>3, <3>1 DEF LifeTypes, Slot, Task
    <3> QED BY <3>1, <3>2, <3>3, <3>4
  <2>2. ASSUME NEW u \in Thread, pc'[u] = "create"
        PROVE  /\ u # c /\ pc[u] = "create" /\ target'[u] = target[u] /\ target[u] # NULL
               /\ sched'.state[Slot(target[u])] = "INIT"
               /\ gen'[Slot(target[u])] = gen[Slot(target[u])]
    <3>1. u # c /\ pc[u] = "create"
      BY <1>1, <2>2
    <3>2. Slot(target[u]) \in Thread /\ Slot(target[u]) # t /\ sched.state[Slot(target[u])] = "INIT"
          /\ target[u] # NULL
      BY <1>3, <2>1, <3>1 DEF TargetsOK
    <3> QED BY <1>1, <1>2, <1>3, <1>6, <3>1, <3>2 DEF Stored, LifeTypes
  <2>3. \A u \in Thread : pc'[u] \in {"create", "join", "join_wait"} => target'[u] # NULL
    BY <1>1, <1>3, <1>6 DEF TargetsOK
  <2>4. \A u \in Thread : pc'[u] \notin LifePlaces => target'[u] = NULL
    BY <1>1, <1>3, <1>6 DEF TargetsOK, LifePlaces
  <2>5. \A u \in Thread : pc'[u] = "create" =>
           /\ sched'.state[Slot(target'[u])] = "INIT"
           /\ target'[u] = <<Slot(target'[u]), gen'[Slot(target'[u])] + 1>>
    BY <1>3, <2>2 DEF TargetsOK
  <2>6. \A u, v \in Thread : pc'[u] = "create" /\ pc'[v] = "create" /\ target'[u] = target'[v] => u = v
    BY <1>3, <2>2 DEF TargetsOK
  <2> QED BY <2>3, <2>4, <2>5, <2>6 DEF TargetsOK
<1>8. WaitersOK'
  <2>1. ASSUME NEW u \in Task, waiter'[u] # NULL
        PROVE  pc'[waiter'[u]] = "join_wait" /\ Slot(target'[waiter'[u]]) = u
    <3>1. waiter'[u] = waiter[u] /\ waiter[u] \in Thread
      BY <1>2, <1>3, <2>1 DEF LifeTypes
    <3>2. pc[waiter[u]] = "join_wait" /\ Slot(target[waiter[u]]) = u
      BY <1>3, <2>1, <3>1 DEF WaitersOK
    <3> QED BY <1>1, <1>6, <3>1, <3>2
  <2> QED BY <2>1 DEF WaitersOK
<1>9. KernelInv'
  <2>1. \A u \in Thread : pc'[u] \notin {"init", "sti", "halt"}
    BY <1>1, <1>3
  <2> QED BY <1>1, <1>2, <1>5, <2>1, LifeKernel
<1> QED BY <1>4, <1>5, <1>7, <1>8, <1>9 DEF LifeInv

\* The steps that leave the targets of the creators alone.
LEMMA TargetsKeep ==
    ASSUME LifeInv, gen' = gen, NEW c \in Thread, NEW label,
           label # "create",
           Stored(pc, pc', c, label),
           \A u \in Thread : u # c => target'[u] = target[u],
           IF label \in LifePlaces
             THEN label \in {"join", "join_wait"} => target'[c] # NULL
             ELSE target'[c] = NULL,
           \A u \in Thread : sched.state[u] = "INIT" => sched'.state[u] = "INIT"
    PROVE  TargetsOK'
<1>1. TargetsOK /\ LifeTypes
  BY DEF LifeInv
<1>2. \A u \in Thread : pc'[u] = IF u = c THEN label ELSE pc[u]
  BY DEF Stored
<1>3. ASSUME NEW u \in Thread, pc'[u] = "create"
      PROVE  u # c /\ pc[u] = "create" /\ target'[u] = target[u] /\ Slot(target[u]) \in Thread
  <2>1. u # c /\ pc[u] = "create" /\ target[u] # NULL
    BY <1>1, <1>2, <1>3 DEF TargetsOK
  <2>2. Slot(target[u]) \in Thread
    BY <1>1, <2>1 DEF LifeTypes, Slot, Task
  <2> QED BY <2>1, <2>2
<1>4. \A u \in Thread : pc'[u] \in {"create", "join", "join_wait"} => target'[u] # NULL
  BY <1>1, <1>2 DEF TargetsOK, LifePlaces
<1>5. \A u \in Thread : pc'[u] \notin LifePlaces => target'[u] = NULL
  BY <1>1, <1>2 DEF TargetsOK, LifePlaces
<1>6. \A u \in Thread : pc'[u] = "create" =>
         /\ sched'.state[Slot(target'[u])] = "INIT"
         /\ target'[u] = <<Slot(target'[u]), gen'[Slot(target'[u])] + 1>>
  BY <1>1, <1>3 DEF TargetsOK
<1>7. \A u, v \in Thread : pc'[u] = "create" /\ pc'[v] = "create" /\ target'[u] = target'[v] => u = v
  BY <1>1, <1>3 DEF TargetsOK
<1> QED BY <1>4, <1>5, <1>6, <1>7 DEF TargetsOK

\* The end of pthread_create() keeps it.
LEMMA CreateReturnKeeps ==
    ASSUME LifeInv, create_wake \/ create_return, disciplined' = disciplined
    PROVE  LifeInv'
<1>1. PICK c \in Thread, label \in {"create_ret", "user"} :
              /\ c = Current
              /\ pc[c] = IF label = "user" THEN "create_ret" ELSE "create_wake"
              /\ label = "create_ret" => create_wake
              /\ label = "user" => create_return
              /\ Outside(sched') /\ sched'.state = sched.state
              /\ Stored(pc, pc', c, label)
              /\ pc' = [u \in Task |-> pc'[u]] /\ pc'[Idle] = pc[Idle]
  BY WakeReturnEffect
<1>2. UNCHANGED <<timers, detached, waiter, gen>> /\ ~sched.in_irq
  BY DEF create_wake, create_return, lifeVars, At
<1>3. /\ LifeTypes /\ SlotsOK /\ TargetsOK /\ WaitersOK /\ timers \subseteq Thread
      /\ \A u \in Thread : pc[u] \notin {"init", "sti", "halt"}
      /\ Thread \subseteq Task
  BY DEF LifeInv, KernelInv, PlacesOK, Task
<1>4. \/ label = "create_ret" /\ UNCHANGED <<handles, target>>
      \/ /\ label = "user" /\ handles' = handles \cup ({target[c]} \ {NULL})
         /\ target' = [target EXCEPT ![c] = NULL]
  BY <1>1 DEF create_wake, create_return, lifeVars, ForgetTarget
<1>5. LifeTypes'
  <2>1. target[c] \in (Thread \X Nat) \cup {NULL}
    BY <1>3 DEF LifeTypes
  <2>2. handles' \subseteq Thread \X Nat
    BY <1>3, <1>4, <2>1 DEF LifeTypes
  <2>3. target' \in [Task -> (Thread \X Nat) \cup {NULL}]
    BY <1>3, <1>4 DEF LifeTypes
  <2> QED BY <1>2, <1>3, <2>2, <2>3 DEF LifeTypes
<1>6. SlotsOK'
  BY <1>1, <1>2, <1>3 DEF SlotsOK, Stored, Outside, Awake, Current
<1>7. TargetsOK'
  <2>1. target \in [Task -> (Thread \X Nat) \cup {NULL}]
    BY <1>3 DEF LifeTypes
  <2>2. \A u \in Thread : u # c => target'[u] = target[u]
    BY <1>3, <1>4, <2>1
  <2>3. label \notin LifePlaces => target'[c] = NULL
    BY <1>3, <1>4, <2>1 DEF LifePlaces
  <2>4. label \notin {"create", "join", "join_wait"}
    OBVIOUS
  <2> QED BY <1>1, <1>2, <2>2, <2>3, <2>4, TargetsKeep
<1>8. WaitersOK'
  <2>1. \A u \in Thread : pc[u] = "join_wait" => u # c
    BY <1>1
  <2>2. \A u \in Thread : u # c => target'[u] = target[u] /\ pc'[u] = pc[u]
    BY <1>1, <1>3, <1>4 DEF LifeTypes, Stored
  <2> QED BY <1>2, <1>3, <2>1, <2>2 DEF WaitersOK, LifeTypes
<1>9. KernelInv'
  <2>1. \A u \in Thread : pc'[u] \notin {"init", "sti", "halt"}
    BY <1>1, <1>3 DEF Stored
  <2> QED BY <1>1, <1>2, <1>6, <2>1, LifeKernel
<1> QED BY <1>5, <1>6, <1>7, <1>8, <1>9 DEF LifeInv

\* pthread_exit() keeps it.
LEMMA ExitKeeps ==
    ASSUME LifeInv, pthread_exit, disciplined' = disciplined
    PROVE  LifeInv'
<1>1. PICK c \in Thread, gone \in {"NONE", "EXIT"} :
              /\ c = Current /\ pc[c] = "user"
              /\ gone = IF c \in detached THEN "NONE" ELSE "EXIT"
              /\ waiter[c] # NULL => waiter[c] \in Thread /\ waiter[c] # c
              /\ Outside(sched')
              /\ \A u \in Thread :
                    sched'.state[u] = IF u = c THEN gone
                                      ELSE IF gone = "EXIT" /\ u = waiter[c] THEN "RUNNING"
                                      ELSE sched.state[u]
              /\ Stored(pc, pc', c, "none")
              /\ pc' = [u \in Task |-> pc'[u]] /\ pc'[Idle] = pc[Idle]
  BY ExitEffect
<1>2. UNCHANGED <<timers, detached, waiter, gen, handles, target>> /\ ~sched.in_irq
  BY DEF pthread_exit, lifeVars, Calls, At
<1>3. /\ LifeTypes /\ SlotsOK /\ TargetsOK /\ WaitersOK /\ timers \subseteq Thread
      /\ \A u \in Thread : pc[u] \notin {"init", "sti", "halt"}
      /\ Thread \subseteq Task /\ NULL \notin Thread
  BY SchedAssumption DEF LifeInv, KernelInv, PlacesOK, Task
<1>4. LifeTypes'
  BY <1>2, <1>3 DEF LifeTypes
<1>5. waiter[c] # NULL => pc[waiter[c]] = "join_wait" /\ sched.state[waiter[c]] \in {"RUNNING", "SLEEPING"}
  BY <1>1, <1>3 DEF WaitersOK, SlotsOK
<1>6. SlotsOK'
  <2>1. \A u \in Thread : pc'[u] = "none" <=> sched'.state[u] \notin {"RUNNING", "SLEEPING"}
    BY <1>1, <1>3, <1>5 DEF SlotsOK, Stored
  <2>2. \A u \in Thread : sched'.state[u] = "EXIT" => u \notin detached
    BY <1>1, <1>3 DEF SlotsOK
  <2>3. \A u \in timers : pc'[u] \in {"timer_add", "timer_delete"}
    BY <1>1, <1>3 DEF SlotsOK, Stored
  <2> QED BY <1>1, <1>2, <2>1, <2>2, <2>3 DEF SlotsOK, Outside, Awake, Current
<1>7. TargetsOK'
  <2>1. target'[c] = NULL
    BY <1>1, <1>2, <1>3 DEF TargetsOK, LifePlaces
  <2>2. \A u \in Thread : sched.state[u] = "INIT" => sched'.state[u] = "INIT"
    <3>1. sched.state[c] # "INIT"
      BY <1>1, <1>3 DEF SlotsOK
    <3> QED BY <1>1, <1>3, <1>5, <3>1
  <2>3. "none" \notin LifePlaces /\ "none" # "create"
    BY DEF LifePlaces
  <2> QED BY <1>1, <1>2, <2>1, <2>2, <2>3, TargetsKeep
<1>8. WaitersOK'
  BY <1>1, <1>2, <1>3 DEF WaitersOK, LifeTypes, Stored
<1>9. KernelInv'
  <2>1. \A u \in Thread : pc'[u] \notin {"init", "sti", "halt"}
    BY <1>1, <1>3 DEF Stored
  <2> QED BY <1>1, <1>2, <1>6, <2>1, LifeKernel
<1> QED BY <1>4, <1>6, <1>7, <1>8, <1>9 DEF LifeInv

\* A handle that is used is kept or dropped.
LEMMA UseTypes ==
    ASSUME LifeInv, NEW h, Use(h)
    PROVE  handles' \subseteq handles /\ handles' \subseteq Thread \X Nat
BY DEF Use, LifeInv, LifeTypes

\* pthread_join() up to its first look at the slot keeps it.
LEMMA JoinCallKeeps ==
    ASSUME LifeInv, NEW h \in handles, join_call(h), disciplined' = disciplined
    PROVE  LifeInv'
<1>1. PICK c \in Thread :
              /\ c = Current /\ pc[c] = "user"
              /\ Outside(sched') /\ sched' = sched
              /\ Stored(pc, pc', c, "join")
              /\ pc' = [u \in Task |-> pc'[u]] /\ pc'[Idle] = pc[Idle]
  BY JoinCallEffect
<1>2. /\ UNCHANGED <<timers, detached, waiter, gen>> /\ ~sched.in_irq
      /\ target' = [target EXCEPT ![c] = h] /\ Use(h)
  BY <1>1 DEF join_call, Calls, At
<1>3. /\ LifeTypes /\ SlotsOK /\ TargetsOK /\ WaitersOK /\ timers \subseteq Thread
      /\ \A u \in Thread : pc[u] \notin {"init", "sti", "halt"}
      /\ Thread \subseteq Task /\ h \in Thread \X Nat /\ h # NULL
      /\ target \in [Task -> (Thread \X Nat) \cup {NULL}]
  BY LifecycleAssumption DEF LifeInv, LifeTypes, KernelInv, PlacesOK, Task
<1>4. LifeTypes'
  <2>1. handles' \subseteq Thread \X Nat
    BY <1>2, UseTypes
  <2>2. target' \in [Task -> (Thread \X Nat) \cup {NULL}]
    BY <1>2, <1>3
  <2> QED BY <1>2, <1>3, <2>1, <2>2 DEF LifeTypes
<1>5. SlotsOK'
  BY <1>1, <1>2, <1>3 DEF SlotsOK, Stored, Outside, Awake, Current
<1>6. /\ \A u \in Thread : u # c => target'[u] = target[u]
      /\ target'[c] = h
  BY <1>2, <1>3
<1>7. TargetsOK'
  <2>1. "join" \in LifePlaces /\ "join" # "create"
    BY DEF LifePlaces
  <2>2. target'[c] # NULL
    BY <1>3, <1>6
  <2>3. \A u \in Thread : sched.state[u] = "INIT" => sched'.state[u] = "INIT"
    BY <1>1
  <2> QED BY <1>1, <1>2, <1>6, <2>1, <2>2, <2>3, TargetsKeep
<1>8. WaitersOK'
  BY <1>1, <1>2, <1>3, <1>6 DEF WaitersOK, LifeTypes, Stored
<1>9. KernelInv'
  <2>1. \A u \in Thread : pc'[u] \notin {"init", "sti", "halt"}
    BY <1>1, <1>3 DEF Stored
  <2> QED BY <1>1, <1>2, <1>5, <2>1, LifeKernel
<1> QED BY <1>4, <1>5, <1>7, <1>8, <1>9 DEF LifeInv

\* pthread_join() that returns keeps it.
LEMMA JoinReturnKeeps ==
    ASSUME LifeInv, join_reap \/ join_esrch \/ join_einval \/ join_edeadlk,
           disciplined' = disciplined
    PROVE  LifeInv'
<1>1. PICK c, t \in Thread :
              /\ c = Current /\ pc[c] = "join" /\ t = Slot(target[c]) /\ t = Target
              /\ target[c] # NULL
              /\ Outside(sched')
              /\ IF join_reap
                 THEN /\ sched.state[t] = "EXIT" /\ t # c
                      /\ Stored(sched.state, sched'.state, t, "NONE")
                 ELSE sched'.state = sched.state
              /\ Stored(pc, pc', c, "user")
              /\ pc' = [u \in Task |-> pc'[u]] /\ pc'[Idle] = pc[Idle]
              /\ target' = [target EXCEPT ![c] = NULL]
  BY JoinReturnEffect
<1>2. /\ UNCHANGED <<timers, detached, waiter, gen>> /\ ~sched.in_irq
      /\ handles' = handles \/ handles' = handles \cup {target[c]}
  BY <1>1 DEF join_reap, join_esrch, join_einval, join_edeadlk, GiveBack, At
<1>3. /\ LifeTypes /\ SlotsOK /\ TargetsOK /\ WaitersOK /\ timers \subseteq Thread
      /\ \A u \in Thread : pc[u] \notin {"init", "sti", "halt"}
      /\ Thread \subseteq Task
      /\ target \in [Task -> (Thread \X Nat) \cup {NULL}]
  BY DEF LifeInv, LifeTypes, KernelInv, PlacesOK, Task
<1>4. \A u \in Thread : \/ sched'.state[u] = sched.state[u]
                        \/ sched.state[u] = "EXIT" /\ sched'.state[u] = "NONE"
  BY <1>1 DEF Stored
<1>5. LifeTypes'
  <2>1. handles' \subseteq Thread \X Nat
    BY <1>1, <1>2, <1>3 DEF LifeTypes
  <2>2. target' \in [Task -> (Thread \X Nat) \cup {NULL}]
    BY <1>1, <1>3
  <2> QED BY <1>2, <1>3, <2>1, <2>2 DEF LifeTypes
<1>6. SlotsOK'
  <2>1. \A u \in Thread : pc'[u] = "none" <=> sched'.state[u] \notin {"RUNNING", "SLEEPING"}
    BY <1>1, <1>3, <1>4 DEF SlotsOK, Stored
  <2>2. \A u \in Thread : sched'.state[u] = "EXIT" => u \notin detached
    BY <1>3, <1>4 DEF SlotsOK
  <2>3. \A u \in timers : pc'[u] \in {"timer_add", "timer_delete"}
    BY <1>1, <1>3 DEF SlotsOK, Stored
  <2> QED BY <1>1, <1>2, <2>1, <2>2, <2>3 DEF SlotsOK, Outside, Awake, Current
<1>7. \A u \in Thread : target'[u] = IF u = c THEN NULL ELSE target[u]
  BY <1>1, <1>3
<1>8. TargetsOK'
  <2>1. "user" \notin LifePlaces /\ "user" # "create"
    BY DEF LifePlaces
  <2>2. \A u \in Thread : sched.state[u] = "INIT" => sched'.state[u] = "INIT"
    BY <1>4
  <2> QED BY <1>1, <1>2, <1>7, <2>1, <2>2, TargetsKeep
<1>9. WaitersOK'
  BY <1>1, <1>2, <1>3, <1>7 DEF WaitersOK, LifeTypes, Stored
<1>10. KernelInv'
  <2>1. \A u \in Thread : pc'[u] \notin {"init", "sti", "halt"}
    BY <1>1, <1>3 DEF Stored
  <2> QED BY <1>1, <1>2, <1>6, <2>1, LifeKernel
<1> QED BY <1>5, <1>6, <1>8, <1>9, <1>10 DEF LifeInv

\* pthread_join() that sleeps, or goes on, keeps it.
LEMMA JoinWaitKeeps ==
    ASSUME LifeInv, join_sleep \/ join_resume, disciplined' = disciplined
    PROVE  LifeInv'
<1>1. PICK c, t \in Thread, label \in {"join", "join_wait"} :
              /\ c = Current /\ t = Slot(target[c]) /\ t = Target
              /\ target[c] # NULL
              /\ label = "join_wait" => join_sleep /\ pc[c] = "join"
              /\ label = "join" => join_resume /\ pc[c] = "join_wait"
              /\ Outside(sched')
              /\ IF label = "join_wait" THEN Stored(sched.state, sched'.state, c, "SLEEPING")
                                        ELSE sched' = sched
              /\ Stored(pc, pc', c, label)
              /\ pc' = [u \in Task |-> pc'[u]] /\ pc'[Idle] = pc[Idle]
              /\ waiter' = [waiter EXCEPT ![t] = IF label = "join_wait" THEN c ELSE NULL]
  BY JoinWaitEffect
<1>2. UNCHANGED <<timers, detached, gen, handles, target>> /\ ~sched.in_irq
  BY DEF join_sleep, join_resume, At
<1>3. /\ LifeTypes /\ SlotsOK /\ TargetsOK /\ WaitersOK /\ timers \subseteq Thread
      /\ \A u \in Thread : pc[u] \notin {"init", "sti", "halt"}
      /\ Thread \subseteq Task
  BY DEF LifeInv, LifeTypes, KernelInv, PlacesOK, Task
<1>4. \A u \in Thread : \/ sched'.state[u] = sched.state[u]
                        \/ u = c /\ sched'.state[u] = "SLEEPING"
  BY <1>1 DEF Stored
<1>5. pc[c] \in {"join", "join_wait"}
  BY <1>1
<1>6. LifeTypes'
  BY <1>1, <1>2, <1>3 DEF LifeTypes
<1>7. SlotsOK'
  <2>1. \A u \in Thread : pc'[u] = "none" <=> sched'.state[u] \notin {"RUNNING", "SLEEPING"}
    BY <1>1, <1>3, <1>4, <1>5 DEF SlotsOK, Stored
  <2>2. \A u \in Thread : sched'.state[u] = "EXIT" => u \notin detached
    BY <1>3, <1>4 DEF SlotsOK
  <2>3. \A u \in timers : pc'[u] \in {"timer_add", "timer_delete"}
    BY <1>3, <1>1, <1>5 DEF SlotsOK, Stored
  <2> QED BY <1>1, <1>2, <2>1, <2>2, <2>3 DEF SlotsOK, Outside, Awake, Current
<1>8. TargetsOK'
  <2>1. label \in LifePlaces /\ label # "create"
    BY DEF LifePlaces
  <2>2. \A u \in Thread : sched.state[u] = "INIT" => sched'.state[u] = "INIT"
    <3>1. sched.state[c] # "INIT"
      BY <1>3, <1>5 DEF SlotsOK
    <3> QED BY <1>4, <3>1
  <2> QED BY <1>1, <1>2, <2>1, <2>2, TargetsKeep
<1>9. WaitersOK'
  <2>1. ASSUME NEW u \in Task, waiter'[u] # NULL
        PROVE  pc'[waiter'[u]] = "join_wait" /\ Slot(target'[waiter'[u]]) = u
    <3>1. CASE u = t
      BY <1>1, <1>2, <1>3, <2>1, <3>1 DEF LifeTypes, Stored
    <3>2. CASE u # t
      <4>1. waiter'[u] = waiter[u] /\ waiter[u] \in Thread
        BY <1>1, <1>3, <2>1, <3>2 DEF LifeTypes
      <4>2. pc[waiter[u]] = "join_wait" /\ Slot(target[waiter[u]]) = u
        BY <1>3, <2>1, <4>1 DEF WaitersOK
      <4>3. waiter[u] # c
        BY <1>1, <3>2, <4>2
      <4> QED BY <1>1, <1>2, <4>1, <4>2, <4>3 DEF Stored
    <3> QED BY <3>1, <3>2
  <2> QED BY <2>1 DEF WaitersOK
<1>10. KernelInv'
  <2>1. \A u \in Thread : pc'[u] \notin {"init", "sti", "halt"}
    BY <1>1, <1>3 DEF Stored
  <2> QED BY <1>1, <1>2, <1>7, <2>1, LifeKernel
<1> QED BY <1>6, <1>7, <1>8, <1>9, <1>10 DEF LifeInv

\* pthread_detach() keeps it.
LEMMA DetachKeeps ==
    ASSUME LifeInv, NEW h \in handles, Detach(h), disciplined' = disciplined
    PROVE  LifeInv'
<1>1. PICK c, t \in Thread :
          /\ c = Current /\ pc[c] = "user" /\ t = Slot(h) /\ Outside(sched')
          /\ \A u \in Thread :
                \/ sched'.state[u] = sched.state[u]
                \/ sched'.state[u] = "RUNNING" /\ pc[u] # "none"
                \/ u = t /\ sched.state[u] = "EXIT" /\ sched'.state[u] = "NONE"
          /\ \/ pc[t] # "none" /\ detached' = detached \cup {t}
             \/ detached' = detached
  <2>1. CASE detach_running(h)
    <3>1. PICK c, t \in Thread :
              /\ c = Current /\ pc[c] = "user" /\ t = Slot(h) /\ pc[t] # "none"
              /\ waiter[t] # NULL => waiter[t] \in Thread /\ waiter[t] # c
              /\ Outside(sched')
              /\ IF waiter[t] = NULL THEN sched' = sched
                 ELSE Stored(sched.state, sched'.state, waiter[t], "RUNNING")
      BY <2>1, DetachRunningEffect
    <3>2. waiter[t] # NULL => pc[waiter[t]] # "none"
      BY <3>1 DEF LifeInv, WaitersOK, Task
    <3>3. detached' = detached \cup {t}
      BY <2>1, <3>1 DEF detach_running
    <3>4. \A u \in Thread : \/ sched'.state[u] = sched.state[u]
                            \/ sched'.state[u] = "RUNNING" /\ pc[u] # "none"
      BY <3>1, <3>2 DEF Stored
    <3> QED BY <3>1, <3>3, <3>4
  <2>2. CASE detach_exited(h)
    <3>1. PICK c, t \in Thread :
              /\ c = Current /\ pc[c] = "user" /\ t = Slot(h) /\ pc[t] = "none"
              /\ sched.state[t] = "EXIT"
              /\ Outside(sched') /\ Stored(sched.state, sched'.state, t, "NONE")
      BY <2>2, DetachExitedEffect
    <3>2. detached' = detached
      BY <2>2 DEF detach_exited
    <3> QED BY <3>1, <3>2 DEF Stored
  <2> QED BY <2>1, <2>2 DEF Detach
<1>2. UNCHANGED <<pc, timers, waiter, gen, target>> /\ ~sched.in_irq /\ Use(h)
  BY DEF Detach, detach_running, detach_exited, Calls, At
<1>3. /\ LifeTypes /\ SlotsOK /\ TargetsOK /\ WaitersOK /\ timers \subseteq Thread
      /\ \A u \in Thread : pc[u] \notin {"init", "sti", "halt"}
      /\ Thread \subseteq Task /\ pc = [u \in Task |-> pc[u]]
  BY DEF LifeInv, LifeTypes, KernelInv, PlacesOK, Task
<1>4. LifeTypes'
  <2>1. handles' \subseteq Thread \X Nat
    BY <1>2, UseTypes
  <2> QED BY <1>1, <1>2, <1>3, <2>1 DEF LifeTypes
<1>5. SlotsOK'
  <2>1. \A u \in Thread : pc[u] = "none" <=> sched'.state[u] \notin {"RUNNING", "SLEEPING"}
    BY <1>1, <1>3 DEF SlotsOK
  <2>2. \A u \in Thread : sched'.state[u] = "EXIT" => u \notin detached'
    BY <1>1, <1>3, <2>1 DEF SlotsOK
  <2> QED BY <1>1, <1>2, <1>3, <2>1, <2>2 DEF SlotsOK, Outside, Awake, Current
<1>6. TargetsOK'
  <2>1. Stored(pc, pc', c, "user") /\ "user" # "create" /\ "user" \notin LifePlaces
    BY <1>1, <1>2 DEF Stored, LifePlaces
  <2>2. target'[c] = NULL
    BY <1>1, <1>2, <1>3, <2>1 DEF TargetsOK
  <2>3. \A u \in Thread : sched.state[u] = "INIT" => sched'.state[u] = "INIT"
    BY <1>1, <1>3 DEF SlotsOK
  <2> QED BY <1>2, <2>1, <2>2, <2>3, TargetsKeep
<1>7. WaitersOK'
  BY <1>2, <1>3 DEF WaitersOK
<1>8. KernelInv'
  BY <1>1, <1>2, <1>3, <1>5, LifeKernel
<1> QED BY <1>4, <1>5, <1>6, <1>7, <1>8 DEF LifeInv

\* Every step keeps it.
LEMMA LifeNextInv == LifeInv /\ [LifecycleNext]_vars => LifeInv'
<1> SUFFICES ASSUME LifeInv, [LifecycleNext]_vars PROVE LifeInv'
  OBVIOUS
<1>1. CASE UNCHANGED vars
  <2>1. /\ sched' = sched /\ pc' = pc /\ timers' = timers /\ detached' = detached
        /\ waiter' = waiter /\ gen' = gen /\ handles' = handles /\ target' = target
        /\ disciplined' = disciplined
    BY <1>1 DEF vars
  <2>2. KernelInv'
    BY <2>1 DEF LifeInv, KernelInv, PlacesOK, Current
  <2>3. LifeTypes' /\ SlotsOK'
    BY <2>1 DEF LifeInv, LifeTypes, SlotsOK, Awake, Current
  <2>4. TargetsOK' /\ WaitersOK'
    BY <2>1 DEF LifeInv, TargetsOK, WaitersOK
  <2> QED BY <2>2, <2>3, <2>4 DEF LifeInv
<1>2. CASE LifecycleNext
  <2>1. disciplined' = disciplined /\ LifecycleStep
    BY <1>2 DEF LifecycleNext
  <2>2. ASSUME NEW p \in Priorities, BootCreateThread(p) PROVE LifeInv'
    BY <2>1, <2>2, BootKeeps
  <2>3. CASE SchedCall /\ UNCHANGED lifeVars
    BY <2>1, <2>3, CallKeepsInv
  <2>4. CASE Create
    BY <2>1, <2>4, ClaimKeeps, FillKeeps, CreateReturnKeeps DEF Create
  <2>5. CASE pthread_exit
    BY <2>1, <2>5, ExitKeeps
  <2>6. CASE JoinStep
    BY <2>1, <2>6, JoinReturnKeeps, JoinWaitKeeps DEF JoinStep
  <2>7. ASSUME NEW h \in handles, join_call(h) \/ Detach(h) PROVE LifeInv'
    BY <2>1, <2>7, JoinCallKeeps, DetachKeeps
  <2> QED BY <2>1, <2>2, <2>3, <2>4, <2>5, <2>6, <2>7 DEF LifecycleStep, SchedCall
<1> QED BY <1>1, <1>2

\* It holds in every reachable state.
LEMMA LifeInvariant == LifecycleSpec => []LifeInv
BY LifeInitInv, LifeNextInv, PTL DEF LifecycleSpec

\* The kernel stays sound, whatever handles the application uses: every thread
\* that is RUNNING is queued, the queues and the bitmap agree, the assertions of
\* run_queue_peek() hold and no slice wraps.
THEOREM LifecycleQueueCorrect ==
    LifecycleSpec => [](ReadyIsQueued /\ RunQueueOK /\ PeekSafe /\ SliceLeft)
<1>1. LifeInv => ReadyIsQueued /\ RunQueueOK /\ PeekSafe /\ SliceLeft
  BY KernelProperties DEF LifeInv
<1> QED BY <1>1, LifeInvariant, PTL

\* A slot that pthread_create() may claim, or is filling in, is on no queue and
\* is nobody's waiter: its stores disturb no other thread.
THEOREM FreeSlotCorrect == LifecycleSpec => []FreeSlotUnused
<1>1. LifeInv => FreeSlotUnused
  <2> SUFFICES ASSUME LifeInv, NEW t \in Thread, sched.state[t] \in {"NONE", "INIT"}
               PROVE  t \notin sched.linked /\ \A u \in Task : waiter[u] # t
    BY DEF FreeSlotUnused
  <2>1. pc[t] = "none" /\ t # NULL
    BY SchedAssumption DEF LifeInv, SlotsOK
  <2>2. \A u \in Task : waiter[u] # t
    BY <2>1 DEF LifeInv, WaitersOK
  <2>3. t \notin sched.linked
    <3>1. t \in sched.linked => sched.state[t] = "RUNNING" \/ t = Current
      BY DEF LifeInv, KernelInv, Steady, Ready, Current, Task
    <3>2. t # Current
      BY <2>1 DEF LifeInv, SlotsOK, Awake
    <3> QED BY <3>1, <3>2
  <2> QED BY <2>2, <2>3
<1> QED BY <1>1, LifeInvariant, PTL

-----------------------------------------------------------------------------
(***************************************************************************)
(* The invariant of a disciplined application.  Each thread that can still *)
(* be joined has exactly one claim on it: a handle of the application, or  *)
(* the target of one create or join under way.                             *)
(***************************************************************************)
Live(z) == z \notin detached /\ sched.state[z] \in {"RUNNING", "SLEEPING", "EXIT"}

\* h names the thread its slot holds, and that thread can be joined.
Reapable(h) == h = Named(Slot(h)) /\ Live(Slot(h))

\* t has a handle that is not, or not yet or no longer, the application's.
Holds(t) ==
    pc[t] \in {"create_wake", "create_ret", "join", "join_wait"} /\ target[t] # NULL

HandlesOK == \A h \in handles : Reapable(h)
HoldersOK == \A t \in Thread : Holds(t) => Reapable(target[t]) /\ target[t] \notin handles
OneHolder == \A t, u \in Thread : Holds(t) /\ Holds(u) /\ target[t] = target[u] => t = u

Claimed(z) == Named(z) \in handles \/ \E t \in Thread : Holds(t) /\ target[t] = Named(z)
LiveClaimed == \A z \in Thread : Live(z) => Claimed(z)

Claims == HandlesOK /\ HoldersOK /\ OneHolder /\ LiveClaimed

\* A joiner that sleeps is registered with a thread that has still to exit.
SleepersOK ==
    \A t \in Thread :
        pc[t] = "join_wait" /\ sched.state[t] = "SLEEPING" =>
            /\ waiter[Slot(target[t])] = t
            /\ sched.state[Slot(target[t])] \in {"RUNNING", "SLEEPING"}

\* No thread is detached before one has run.
BootFree == pc[Idle] = "init" => detached = {}

DiscInv == Claims /\ SleepersOK /\ BootFree

\* The slot of a name.
LEMMA NameSlot ==
    ASSUME LifeInv
    PROVE  /\ \A z \in Thread : Named(z) \in Thread \X Nat /\ Slot(Named(z)) = z /\ Named(z) # NULL
           /\ \A h \in handles : h \in Thread \X Nat /\ Slot(h) \in Thread /\ h # NULL
           /\ \A t \in Thread : target[t] # NULL =>
                 target[t] \in Thread \X Nat /\ Slot(target[t]) \in Thread
BY LifecycleAssumption DEF LifeInv, LifeTypes, Named, Slot, Task

\* A step that changes no claim and no thread that can be joined.
LEMMA ClaimsKept ==
    ASSUME LifeInv, Claims, gen' = gen, handles' = handles,
           \A z \in Thread : Live(z)' <=> Live(z),
           \A t \in Thread : Holds(t)' <=> Holds(t),
           \A t \in Thread : Holds(t) => target'[t] = target[t]
    PROVE  Claims'
<1>1. \A h : Named(h)' = Named(h) /\ Slot(h)' = Slot(h)
  BY DEF Named, Slot
<1>2. HandlesOK'
  BY NameSlot, <1>1 DEF Claims, HandlesOK, Reapable
<1>3. HoldersOK'
  <2> SUFFICES ASSUME NEW t \in Thread, Holds(t)' PROVE (Reapable(target[t]) /\ target[t] \notin handles)'
    BY DEF HoldersOK
  <2>1. Holds(t) /\ target'[t] = target[t] /\ Reapable(target[t]) /\ target[t] \notin handles
    BY DEF Claims, HoldersOK
  <2>2. Slot(target[t]) \in Thread
    BY <2>1, NameSlot DEF Holds
  <2> QED BY <1>1, <2>1, <2>2 DEF Reapable
<1>4. OneHolder'
  BY DEF Claims, OneHolder
<1>5. LiveClaimed'
  BY <1>1 DEF Claims, LiveClaimed, Claimed
<1> QED BY <1>2, <1>3, <1>4, <1>5 DEF Claims

\* A claim moves from the application to a thread.
LEMMA ClaimTaken ==
    ASSUME LifeInv, Claims, gen' = gen, NEW h \in handles, handles' = handles \ {h},
           \A z \in Thread : Live(z)' <=> Live(z),
           NEW c \in Thread, ~Holds(c), Holds(c)', target'[c] = h,
           \A t \in Thread : t # c => (Holds(t)' <=> Holds(t)) /\ target'[t] = target[t]
    PROVE  Claims'
<1>1. \A x : Named(x)' = Named(x) /\ Slot(x)' = Slot(x)
  BY DEF Named, Slot
<1>2. HandlesOK'
  BY NameSlot, <1>1 DEF Claims, HandlesOK, Reapable
<1>3. HoldersOK'
  <2> SUFFICES ASSUME NEW t \in Thread, Holds(t)' PROVE (Reapable(target[t]) /\ target[t] \notin handles)'
    BY DEF HoldersOK
  <2>1. Reapable(target'[t]) /\ Slot(target'[t]) \in Thread /\ target'[t] \notin handles'
    <3>1. CASE t = c
      BY <3>1, NameSlot DEF Claims, HandlesOK
    <3>2. CASE t # c
      BY <3>2, NameSlot DEF Claims, HoldersOK, Holds
    <3> QED BY <3>1, <3>2
  <2> QED BY <1>1, <2>1 DEF Reapable
<1>4. OneHolder'
  BY DEF Claims, OneHolder, HoldersOK
<1>5. LiveClaimed'
  <2> SUFFICES ASSUME NEW z \in Thread, Live(z) PROVE Claimed(z)'
    BY DEF LiveClaimed
  <2>1. CASE Named(z) = h
    BY <1>1, <2>1 DEF Claimed
  <2>2. CASE Named(z) \in handles /\ Named(z) # h
    BY <1>1, <2>2 DEF Claimed
  <2>3. CASE Named(z) \notin handles
    <3>1. PICK t \in Thread : Holds(t) /\ target[t] = Named(z)
      BY <2>3 DEF Claims, LiveClaimed, Claimed
    <3> QED BY <1>1, <3>1 DEF Claimed
  <2> QED BY <2>1, <2>2, <2>3
<1> QED BY <1>2, <1>3, <1>4, <1>5 DEF Claims

\* A claim moves from a thread to the application.
LEMMA ClaimGiven ==
    ASSUME LifeInv, Claims, gen' = gen, \A z \in Thread : Live(z)' <=> Live(z),
           NEW c \in Thread, Holds(c), ~Holds(c)', handles' = handles \cup {target[c]},
           \A t \in Thread : t # c => (Holds(t)' <=> Holds(t)) /\ target'[t] = target[t]
    PROVE  Claims'
<1>1. \A x : Named(x)' = Named(x) /\ Slot(x)' = Slot(x)
  BY DEF Named, Slot
<1>2. HandlesOK'
  <2> SUFFICES ASSUME NEW h \in handles' PROVE Reapable(h)'
    BY DEF HandlesOK
  <2>1. Reapable(h) /\ Slot(h) \in Thread
    BY NameSlot DEF Claims, HandlesOK, HoldersOK, Holds
  <2> QED BY <1>1, <2>1 DEF Reapable
<1>3. HoldersOK'
  <2> SUFFICES ASSUME NEW t \in Thread, Holds(t)' PROVE (Reapable(target[t]) /\ target[t] \notin handles)'
    BY DEF HoldersOK
  <2>1. t # c /\ Holds(t) /\ target'[t] = target[t]
    OBVIOUS
  <2>2. Reapable(target[t]) /\ Slot(target[t]) \in Thread /\ target[t] \notin handles'
    BY <2>1, NameSlot DEF Claims, HoldersOK, OneHolder, Holds
  <2> QED BY <1>1, <2>1, <2>2 DEF Reapable
<1>4. OneHolder'
  BY DEF Claims, OneHolder
<1>5. LiveClaimed'
  <2> SUFFICES ASSUME NEW z \in Thread, Live(z) PROVE Claimed(z)'
    BY DEF LiveClaimed
  <2>1. CASE Named(z) \in handles \cup {target[c]}
    BY <1>1, <2>1 DEF Claimed
  <2>2. CASE Named(z) \notin handles \cup {target[c]}
    <3>1. PICK t \in Thread : Holds(t) /\ target[t] = Named(z)
      BY <2>2 DEF Claims, LiveClaimed, Claimed
    <3> QED BY <1>1, <2>2, <3>1 DEF Claimed
  <2> QED BY <2>1, <2>2
<1> QED BY <1>2, <1>3, <1>4, <1>5 DEF Claims

\* A claim ends, and with it the thread can no longer be joined.
LEMMA ClaimEnds ==
    ASSUME LifeInv, Claims, gen' = gen,
           NEW y \in Thread, ~Live(y)',
           \A z \in Thread : z # y => (Live(z)' <=> Live(z)),
           handles' = handles \ {Named(y)},
           \A t \in Thread : Holds(t)' <=> Holds(t) /\ target[t] # Named(y),
           \A t \in Thread : Holds(t)' => target'[t] = target[t]
    PROVE  Claims'
<1>1. \A x : Named(x)' = Named(x) /\ Slot(x)' = Slot(x)
  BY DEF Named, Slot
<1>2. HandlesOK'
  <2> SUFFICES ASSUME NEW h \in handles' PROVE Reapable(h)'
    BY DEF HandlesOK
  <2>1. Reapable(h) /\ Slot(h) \in Thread /\ Slot(h) # y
    BY NameSlot DEF Claims, HandlesOK, Reapable
  <2> QED BY <1>1, <2>1 DEF Reapable
<1>3. HoldersOK'
  <2> SUFFICES ASSUME NEW t \in Thread, Holds(t)' PROVE (Reapable(target[t]) /\ target[t] \notin handles)'
    BY DEF HoldersOK
  <2>1. Holds(t) /\ target'[t] = target[t] /\ target[t] # Named(y)
    OBVIOUS
  <2>2. Reapable(target[t]) /\ Slot(target[t]) \in Thread /\ target[t] \notin handles' /\ Slot(target[t]) # y
    BY <2>1, NameSlot DEF Claims, HoldersOK, Holds, Reapable
  <2> QED BY <1>1, <2>1, <2>2 DEF Reapable
<1>4. OneHolder'
  BY DEF Claims, OneHolder
<1>5. LiveClaimed'
  <2> SUFFICES ASSUME NEW z \in Thread, Live(z)' PROVE Claimed(z)'
    BY DEF LiveClaimed
  <2>1. z # y /\ Live(z) /\ Named(z) # Named(y)
    BY NameSlot
  <2>2. CASE Named(z) \in handles
    BY <1>1, <2>1, <2>2 DEF Claimed
  <2>3. CASE Named(z) \notin handles
    <3>1. PICK t \in Thread : Holds(t) /\ target[t] = Named(z)
      BY <2>1, <2>3 DEF Claims, LiveClaimed, Claimed
    <3> QED BY <1>1, <2>1, <3>1 DEF Claimed
  <2> QED BY <2>2, <2>3
<1> QED BY <1>2, <1>3, <1>4, <1>5 DEF Claims

\* A thread begins, in a slot that was free: if it can be joined, there is one
\* claim to it.
LEMMA ClaimBegins ==
    ASSUME LifeInv, Claims,
           NEW y \in Thread, ~Live(y), gen' = [gen EXCEPT ![y] = gen[y] + 1],
           NEW n, n = <<y, gen[y] + 1>>,
           \A z \in Thread : z # y => (Live(z)' <=> Live(z)),
           \A t \in Thread : Holds(t) => Holds(t)' /\ target'[t] = target[t],
           \/ Live(y)' /\ handles' = handles \cup {n} /\ \A t \in Thread : Holds(t)' <=> Holds(t)
           \/ /\ Live(y)' /\ handles' = handles
              /\ \E c \in Thread : /\ ~Holds(c) /\ Holds(c)' /\ target'[c] = n
                                   /\ \A t \in Thread : t # c => (Holds(t)' <=> Holds(t))
           \/ ~Live(y)' /\ handles' = handles /\ \A t \in Thread : Holds(t)' <=> Holds(t)
    PROVE  Claims'
<1>1. gen \in [Thread -> Nat]
  BY DEF LifeInv, LifeTypes
<1>2. /\ \A x \in Thread : x # y => Named(x)' = Named(x)
      /\ \A x : Slot(x)' = Slot(x)
      /\ Named(y)' = n /\ Slot(n) = y /\ n # Named(y)
  BY <1>1 DEF Named, Slot
<1>3. \A h : Reapable(h) /\ Slot(h) \in Thread => Slot(h) # y /\ Reapable(h)' /\ h # n
  BY <1>2 DEF Reapable
<1>4. Live(y)' => Reapable(n)'
  BY <1>2 DEF Reapable
<1>5. \A h \in handles : Reapable(h)' /\ h # n
  BY <1>3, NameSlot DEF Claims, HandlesOK
<1>6. \A t \in Thread : Holds(t) => Reapable(target[t])' /\ target[t] # n /\ target[t] \notin handles
  BY <1>3, NameSlot DEF Claims, HoldersOK, Holds
<1>7. \A z \in Thread : z # y /\ Live(z)' => Claimed(z)'
  <2> SUFFICES ASSUME NEW z \in Thread, z # y, Live(z)' PROVE Claimed(z)'
    OBVIOUS
  <2>1. Claimed(z) /\ Named(z)' = Named(z) /\ handles \subseteq handles'
    BY <1>2 DEF Claims, LiveClaimed
  <2> QED BY <2>1 DEF Claimed
<1>8. Live(y)' => Claimed(y)'
  BY <1>2 DEF Claimed
<1>9. LiveClaimed'
  BY <1>7, <1>8 DEF LiveClaimed
<1>10. HandlesOK'
  BY <1>4, <1>5 DEF HandlesOK
<1>11. \A t \in Thread : Holds(t)' =>
          \/ Holds(t) /\ target'[t] = target[t]
          \/ ~Holds(t) /\ Live(y)' /\ target'[t] = n /\ handles' = handles
  OBVIOUS
<1>12. HoldersOK'
  <2> SUFFICES ASSUME NEW t \in Thread, Holds(t)' PROVE (Reapable(target[t]) /\ target[t] \notin handles)'
    BY DEF HoldersOK
  <2>1. CASE Holds(t) /\ target'[t] = target[t]
    BY <1>6, <2>1
  <2>2. CASE ~Holds(t) /\ Live(y)' /\ target'[t] = n /\ handles' = handles
    BY <1>4, <1>5, <2>2 DEF Reapable
  <2> QED BY <1>11, <2>1, <2>2
<1>13. OneHolder'
  BY <1>6, <1>11 DEF Claims, OneHolder
<1> QED BY <1>9, <1>10, <1>12, <1>13 DEF Claims

\* No two claims are to the same slot.
LEMMA SoleHolder ==
    ASSUME LifeInv, Claims
    PROVE  /\ \A t, u \in Thread : Holds(t) /\ Holds(u) /\ Slot(target[t]) = Slot(target[u]) => t = u
           /\ \A t \in Thread, h \in handles : Holds(t) => Slot(target[t]) # Slot(h)
BY DEF Claims, HandlesOK, HoldersOK, OneHolder, Reapable

\* A thread in pthread_join() has a claim.
LEMMA JoinersHold ==
    ASSUME LifeInv
    PROVE  \A t \in Thread : pc[t] \in {"join", "join_wait"} => Holds(t)
BY DEF LifeInv, TargetsOK, Holds

\* Nobody waits for a thread whose handle the application has, or that another
\* thread is about to join.
LEMMA NobodyWaits ==
    ASSUME LifeInv, Claims
    PROVE  /\ \A h \in handles : waiter[Slot(h)] = NULL
           /\ \A t \in Thread : Holds(t) /\ pc[t] # "join_wait" => waiter[Slot(target[t])] = NULL
<1>1. ASSUME NEW z \in Thread, waiter[z] # NULL
      PROVE  /\ waiter[z] \in Thread /\ pc[waiter[z]] = "join_wait"
             /\ Slot(target[waiter[z]]) = z /\ Holds(waiter[z])
  <2>1. waiter[z] \in Thread /\ pc[waiter[z]] = "join_wait" /\ Slot(target[waiter[z]]) = z
    BY <1>1 DEF LifeInv, LifeTypes, WaitersOK, Task
  <2> QED BY <2>1, JoinersHold
<1>2. \A h \in handles : waiter[Slot(h)] = NULL
  BY <1>1, SoleHolder, NameSlot
<1>3. ASSUME NEW t \in Thread, Holds(t), pc[t] # "join_wait", waiter[Slot(target[t])] # NULL
      PROVE  FALSE
  <2>1. Slot(target[t]) \in Thread
    BY <1>3, NameSlot DEF Holds
  <2> QED BY <1>1, <1>3, <2>1, SoleHolder
<1> QED BY <1>2, <1>3

\* A step that moves no joiner into its sleep, takes no thread that is waited for
\* out of play and leaves the registrations of those who sleep.
LEMMA SleepersKept ==
    ASSUME LifeInv, Claims, SleepersOK,
           \A t \in Thread : pc'[t] = "join_wait" /\ sched'.state[t] = "SLEEPING" =>
               /\ pc[t] = "join_wait" /\ sched.state[t] = "SLEEPING" /\ target'[t] = target[t]
               /\ waiter'[Slot(target[t])] = waiter[Slot(target[t])],
           \A z \in Thread : sched.state[z] \in {"RUNNING", "SLEEPING"} =>
               \/ sched'.state[z] \in {"RUNNING", "SLEEPING"}
               \/ waiter[z] # NULL => sched'.state[waiter[z]] = "RUNNING"
    PROVE  SleepersOK'
<1> SUFFICES ASSUME NEW t \in Thread, pc'[t] = "join_wait", sched'.state[t] = "SLEEPING"
             PROVE  /\ waiter'[Slot(target'[t])] = t
                    /\ sched'.state[Slot(target'[t])] \in {"RUNNING", "SLEEPING"}
  BY DEF SleepersOK, Slot
<1>1. /\ pc[t] = "join_wait" /\ sched.state[t] = "SLEEPING" /\ target'[t] = target[t]
      /\ waiter'[Slot(target[t])] = waiter[Slot(target[t])]
  OBVIOUS
<1>2. waiter[Slot(target[t])] = t /\ sched.state[Slot(target[t])] \in {"RUNNING", "SLEEPING"}
  BY <1>1 DEF SleepersOK
<1>3. Slot(target[t]) \in Thread /\ t # NULL
  BY <1>1, JoinersHold, NameSlot, SchedAssumption DEF Holds
<1> QED BY <1>1, <1>2, <1>3

\* Boot establishes it.
LEMMA DiscInitInv == LifecycleInit => DiscInv
<1> SUFFICES ASSUME LifecycleInit PROVE DiscInv
  OBVIOUS
<1>1. LifeInv
  BY LifeInitInv
<1>2. \A t \in Thread : pc[t] = "none"
  BY SchedAssumption DEF LifecycleInit, SchedInit, Task
<1>3. \A t \in Thread : sched.state[t] = "NONE"
  <2>1. sched.state = [t \in Task |-> IF t = Idle THEN "RUNNING" ELSE "NONE"]
    BY DEF LifecycleInit, SchedInit, pthread_init, run_queue_enqueue
  <2> QED BY <2>1, SchedAssumption DEF Task
<1>4. HandlesOK /\ HoldersOK /\ OneHolder
  BY <1>2 DEF LifecycleInit, HandlesOK, HoldersOK, OneHolder, Holds
<1>5. LiveClaimed
  BY <1>3 DEF LiveClaimed, Live
<1>6. SleepersOK /\ BootFree
  BY <1>2 DEF SleepersOK, BootFree, LifecycleInit
<1> QED BY <1>4, <1>5, <1>6 DEF DiscInv, Claims

\* A step of a thread leaves boot behind.
LEMMA BootOver ==
    ASSUME LifeInv, ~sched.in_irq, pc'[Idle] = pc[Idle]
    PROVE  BootFree'
<1>1. pc[Idle] \in {"sti", "halt"}
  BY DEF LifeInv, KernelInv, PlacesOK
<1> QED BY <1>1 DEF BootFree

\* Initializers that create threads keep it.
LEMMA BootDisc ==
    ASSUME LifeInv, DiscInv, NEW p \in Priorities, BootCreateThread(p)
    PROVE  DiscInv'
<1>1. PICK t \in Thread :
              /\ KernelInv' /\ Awake' /\ timers' = timers
              /\ sched.state[t] = "NONE" /\ pc[t] = "none"
              /\ Stored(sched.state, sched'.state, t, "RUNNING")
              /\ Stored(pc, pc', t, "user")
              /\ gen' = [gen EXCEPT ![t] = gen[t] + 1]
              /\ handles' = handles \cup {<<t, gen[t] + 1>>}
  BY BootEffect
<1>2. UNCHANGED <<detached, waiter, target>> /\ pc[Idle] = "init" /\ detached = {}
  BY DEF BootCreateThread, BootCreate, DiscInv, BootFree
<1>3. /\ \A u \in Thread : sched'.state[u] = IF u = t THEN "RUNNING" ELSE sched.state[u]
      /\ \A u \in Thread : pc'[u] = IF u = t THEN "user" ELSE pc[u]
  BY <1>1 DEF Stored
<1>4. \A u \in Thread : Holds(u)' <=> Holds(u)
  BY <1>1, <1>2, <1>3 DEF Holds
<1>5. ~Live(t) /\ Live(t)' /\ \A z \in Thread : z # t => (Live(z)' <=> Live(z))
  BY <1>1, <1>2, <1>3 DEF Live
<1>6. Claims'
  BY <1>1, <1>2, <1>4, <1>5, ClaimBegins DEF DiscInv
<1>7. SleepersOK'
  BY <1>1, <1>2, <1>3, SleepersKept DEF DiscInv
<1>8. BootFree'
  BY <1>2 DEF BootFree
<1> QED BY <1>6, <1>7, <1>8 DEF DiscInv

\* The scheduler's own steps keep it.
LEMMA CallDisc ==
    ASSUME LifeInv, DiscInv, SchedCall, UNCHANGED lifeVars
    PROVE  DiscInv'
<1>1. CallKeeps
  BY CallEffect
<1>2. UNCHANGED <<detached, waiter, gen, handles, target>>
  BY DEF lifeVars
<1>3. \A t \in Thread :
         /\ pc'[t] # pc[t] => pc[t] \in Plain /\ pc'[t] \in Plain
         /\ sched'.state[t] # sched.state[t] =>
               /\ sched.state[t] \in {"RUNNING", "SLEEPING"}
               /\ sched'.state[t] = "RUNNING" \/ (sched'.state[t] = "SLEEPING" /\ pc[t] = "user")
  BY <1>1 DEF CallKeeps
<1>4. \A t \in Thread : (Holds(t)' <=> Holds(t)) /\ (Live(t)' <=> Live(t))
  BY <1>2, <1>3 DEF Holds, Live, Plain
<1>5. Claims'
  BY <1>2, <1>4, ClaimsKept DEF DiscInv
<1>6. SleepersOK'
  BY <1>2, <1>3, SleepersKept DEF DiscInv, Plain
<1>7. BootFree'
  <2>1. pc = [t \in Task |-> pc[t]] /\ Idle \in Task
    BY SchedAssumption DEF LifeInv, KernelInv, Task
  <2>2. pc' = pc \/ \E u, label : label # "init" /\ pc' = [pc EXCEPT ![u] = label]
    BY DEF SchedCall, BootEnable, BootYield, pthread_yield, Sleeping, sleep, timer_add,
           sleep_schedule, timer_delete, Timer, IrqEnter, sched_timeout, IrqLeave, Goto
  <2>3. pc'[Idle] = "init" => pc[Idle] = "init"
    BY <2>1, <2>2
  <2> QED BY <1>2, <2>3 DEF DiscInv, BootFree
<1> QED BY <1>5, <1>6, <1>7 DEF DiscInv

\* pthread_create() keeps it.
LEMMA ClaimDisc ==
    ASSUME LifeInv, DiscInv, create_claim
    PROVE  DiscInv'
<1>1. PICK c, t \in Thread :
              /\ c = Current /\ pc[c] = "user" /\ pc[t] = "none" /\ t # c
              /\ sched.state[t] = "NONE"
              /\ Outside(sched') /\ Stored(sched.state, sched'.state, t, "INIT")
              /\ Stored(pc, pc', c, "create")
              /\ pc' = [u \in Task |-> pc'[u]] /\ pc'[Idle] = pc[Idle]
              /\ target' = [target EXCEPT ![c] = <<t, gen[t] + 1>>]
  BY ClaimEffect
<1>2. UNCHANGED <<timers, detached, waiter, gen, handles>> /\ ~sched.in_irq
  BY DEF create_claim, Calls, At
<1>3. /\ \A u \in Thread : sched'.state[u] = IF u = t THEN "INIT" ELSE sched.state[u]
      /\ \A u \in Thread : pc'[u] = IF u = c THEN "create" ELSE pc[u]
      /\ \A u \in Thread : u # c => target'[u] = target[u]
  BY <1>1 DEF Stored, LifeInv, LifeTypes, Task
<1>4. \A u \in Thread : /\ (Holds(u)' <=> Holds(u)) /\ (Live(u)' <=> Live(u))
                        /\ Holds(u) => target'[u] = target[u]
  BY <1>1, <1>2, <1>3 DEF Holds, Live
<1>5. Claims'
  BY <1>2, <1>4, ClaimsKept DEF DiscInv
<1>6. SleepersOK'
  BY <1>1, <1>2, <1>3, SleepersKept DEF DiscInv
<1>7. BootFree'
  BY <1>1, <1>2, BootOver
<1> QED BY <1>5, <1>6, <1>7 DEF DiscInv

\* pthread_create() filling in the slot keeps it.
LEMMA FillDisc ==
    ASSUME LifeInv, DiscInv, disciplined,
           NEW p \in Priorities, NEW flag \in BOOLEAN, create_fill(p, flag)
    PROVE  DiscInv'
<1>1. PICK c, t \in Thread :
              /\ c = Current /\ t = Slot(target[c])
              /\ pc[c] = "create" /\ pc[t] = "none" /\ t # c
              /\ sched.state[t] = "INIT"
              /\ Outside(sched') /\ Stored(sched.state, sched'.state, t, "RUNNING")
              /\ \A u \in Thread : pc'[u] = IF u = t THEN "user"
                                            ELSE IF u = c THEN "create_wake" ELSE pc[u]
              /\ pc' = [u \in Task |-> pc'[u]] /\ pc'[Idle] = pc[Idle]
  BY FillEffect
<1>2. /\ ~sched.in_irq /\ timers' = timers /\ handles' = handles
      /\ detached' = IF flag THEN detached \cup {t} ELSE detached \ {t}
      /\ waiter' = [waiter EXCEPT ![t] = NULL]
      /\ gen' = [gen EXCEPT ![t] = gen[t] + 1]
      /\ target' = IF flag THEN [target EXCEPT ![c] = NULL] ELSE target
  BY <1>1 DEF create_fill, At, Target, ForgetTarget
<1>3. /\ target \in [Task -> (Thread \X Nat) \cup {NULL}] /\ waiter \in [Task -> Thread \cup {NULL}]
      /\ Thread \subseteq Task
  BY DEF LifeInv, LifeTypes, Task
<1>4. /\ \A u \in Thread : sched'.state[u] = IF u = t THEN "RUNNING" ELSE sched.state[u]
      /\ \A u \in Thread : u # c => target'[u] = target[u]
      /\ target'[c] = IF flag THEN NULL ELSE target[c]
      /\ \A u \in Thread : u # t => waiter'[u] = waiter[u]
  <2>1. \A u \in Thread : u # c => target'[u] = target[u]
    BY <1>2, <1>3
  <2>2. target'[c] = IF flag THEN NULL ELSE target[c]
    BY <1>2, <1>3
  <2> QED BY <1>1, <1>2, <1>3, <2>1, <2>2 DEF Stored
<1>5. target[c] = <<t, gen[t] + 1>> /\ target[c] # NULL
  BY <1>1 DEF LifeInv, TargetsOK
<1>6. /\ ~Live(t) /\ ~Holds(c)
      /\ \A z \in Thread : z # t => (Live(z)' <=> Live(z))
      /\ \A u \in Thread : u # c => (Holds(u)' <=> Holds(u))
  <2>1. \A z \in Thread : z # t => (z \in detached' <=> z \in detached)
    BY <1>2
  <2> QED BY <1>1, <1>4, <2>1 DEF Live, Holds
<1>7. Claims'
  <2>1. CASE flag
    <3>1. ~Live(t)' /\ ~Holds(c)'
      BY <1>2, <1>4, <2>1 DEF Live, Holds
    <3> QED BY <1>2, <1>4, <1>6, <3>1, ClaimBegins DEF DiscInv
  <2>2. CASE ~flag
    <3>1. Live(t)' /\ Holds(c)' /\ target'[c] = <<t, gen[t] + 1>>
      BY <1>1, <1>2, <1>4, <1>5, <2>2 DEF Live, Holds
    <3> QED BY <1>2, <1>4, <1>6, <3>1, ClaimBegins DEF DiscInv
  <2> QED BY <2>1, <2>2
<1>9. SleepersOK'
  <2>1. ASSUME NEW u \in Thread, pc'[u] = "join_wait", sched'.state[u] = "SLEEPING"
        PROVE  /\ pc[u] = "join_wait" /\ sched.state[u] = "SLEEPING" /\ target'[u] = target[u]
               /\ waiter'[Slot(target[u])] = waiter[Slot(target[u])]
    <3>1. pc[u] = "join_wait" /\ sched.state[u] = "SLEEPING" /\ u # c
      BY <1>1, <1>4, <2>1
    <3>2. Slot(target[u]) \in Thread /\ Slot(target[u]) # t
      <4>1. Holds(u) /\ Reapable(target[u])
        BY <3>1, JoinersHold DEF DiscInv, Claims, HoldersOK
      <4> QED BY <1>6, <4>1, NameSlot DEF Reapable, Holds
    <3> QED BY <1>4, <3>1, <3>2
  <2> QED BY <1>1, <1>4, <2>1, SleepersKept DEF DiscInv
<1>10. BootFree'
  BY <1>1, <1>2, BootOver
<1> QED BY <1>7, <1>9, <1>10 DEF DiscInv

\* The end of pthread_create() keeps it.
LEMMA CreateReturnDisc ==
    ASSUME LifeInv, DiscInv, create_wake \/ create_return
    PROVE  DiscInv'
<1>1. PICK c \in Thread, label \in {"create_ret", "user"} :
              /\ c = Current
              /\ pc[c] = IF label = "user" THEN "create_ret" ELSE "create_wake"
              /\ label = "create_ret" => create_wake
              /\ label = "user" => create_return
              /\ Outside(sched') /\ sched'.state = sched.state
              /\ Stored(pc, pc', c, label)
              /\ pc' = [u \in Task |-> pc'[u]] /\ pc'[Idle] = pc[Idle]
  BY WakeReturnEffect
<1>2. UNCHANGED <<timers, detached, waiter, gen>> /\ ~sched.in_irq
  BY DEF create_wake, create_return, lifeVars, At
<1>3. \/ label = "create_ret" /\ UNCHANGED <<handles, target>>
      \/ /\ label = "user" /\ handles' = handles \cup ({target[c]} \ {NULL})
         /\ target' = [target EXCEPT ![c] = NULL]
  BY <1>1 DEF create_wake, create_return, lifeVars, ForgetTarget
<1>4. /\ \A u \in Thread : pc'[u] = IF u = c THEN label ELSE pc[u]
      /\ \A u \in Thread : u # c => target'[u] = target[u]
      /\ target'[c] = IF label = "user" THEN NULL ELSE target[c]
  <2>1. target \in [Task -> (Thread \X Nat) \cup {NULL}] /\ Thread \subseteq Task
    BY DEF LifeInv, LifeTypes, Task
  <2> QED BY <1>1, <1>3, <2>1 DEF Stored
<1>5. /\ \A u \in Thread : Live(u)' <=> Live(u)
      /\ \A u \in Thread : u # c => (Holds(u)' <=> Holds(u))
      /\ label = "user" => ~Holds(c)'
      /\ label = "create_ret" => (Holds(c)' <=> Holds(c))
      /\ Holds(c) <=> target[c] # NULL
  BY <1>1, <1>2, <1>4 DEF Live, Holds
<1>6. Claims'
  <2>1. CASE label = "user" /\ Holds(c)
    <3>1. handles' = handles \cup {target[c]}
      BY <1>3, <1>5, <2>1
    <3> QED BY <1>2, <1>4, <1>5, <2>1, <3>1, ClaimGiven DEF DiscInv
  <2>2. CASE ~(label = "user" /\ Holds(c))
    <3>1. handles' = handles
      BY <1>3, <1>5, <2>2
    <3>2. \A u \in Thread : (Holds(u)' <=> Holds(u)) /\ (Holds(u) => target'[u] = target[u])
      BY <1>4, <1>5, <2>2
    <3> QED BY <1>2, <1>5, <3>1, <3>2, ClaimsKept DEF DiscInv
  <2> QED BY <2>1, <2>2
<1>7. SleepersOK'
  BY <1>1, <1>2, <1>4, SleepersKept DEF DiscInv
<1>8. BootFree'
  BY <1>1, <1>2, BootOver
<1> QED BY <1>6, <1>7, <1>8 DEF DiscInv

\* pthread_exit() keeps it.
LEMMA ExitDisc ==
    ASSUME LifeInv, DiscInv, pthread_exit
    PROVE  DiscInv'
<1>1. PICK c \in Thread, gone \in {"NONE", "EXIT"} :
              /\ c = Current /\ pc[c] = "user"
              /\ gone = IF c \in detached THEN "NONE" ELSE "EXIT"
              /\ waiter[c] # NULL => waiter[c] \in Thread /\ waiter[c] # c
              /\ Outside(sched')
              /\ \A u \in Thread :
                    sched'.state[u] = IF u = c THEN gone
                                      ELSE IF gone = "EXIT" /\ u = waiter[c] THEN "RUNNING"
                                      ELSE sched.state[u]
              /\ Stored(pc, pc', c, "none")
              /\ pc' = [u \in Task |-> pc'[u]] /\ pc'[Idle] = pc[Idle]
  BY ExitEffect
<1>2. UNCHANGED <<timers, detached, waiter, gen, handles, target>> /\ ~sched.in_irq
  BY DEF pthread_exit, lifeVars, Calls, At
<1>3. \A u \in Thread : pc'[u] = IF u = c THEN "none" ELSE pc[u]
  BY <1>1 DEF Stored
<1>4. sched.state[c] \in {"RUNNING", "SLEEPING"}
      /\ (waiter[c] # NULL => sched.state[waiter[c]] \in {"RUNNING", "SLEEPING"}
                              /\ pc[waiter[c]] = "join_wait" /\ Slot(target[waiter[c]]) = c)
  <2>1. waiter[c] # NULL => pc[waiter[c]] = "join_wait" /\ Slot(target[waiter[c]]) = c
    BY DEF LifeInv, WaitersOK, Task
  <2> QED BY <1>1, <2>1 DEF LifeInv, SlotsOK
<1>5. NULL \notin Thread
  BY SchedAssumption
<1>6. \A u \in Thread : (Live(u)' <=> Live(u)) /\ (Holds(u)' <=> Holds(u))
  BY <1>1, <1>2, <1>3, <1>4, <1>5 DEF Live, Holds
<1>7. Claims'
  BY <1>2, <1>6, ClaimsKept DEF DiscInv
<1>8. waiter[c] # NULL => gone = "EXIT"
  <2>1. ASSUME waiter[c] # NULL PROVE c \notin detached
    <3>1. Holds(waiter[c]) /\ waiter[c] \in Thread
      BY <1>1, <1>4, <2>1, JoinersHold
    <3>2. Live(c)
      BY <1>4, <2>1, <3>1 DEF DiscInv, Claims, HoldersOK, Reapable
    <3> QED BY <3>2 DEF Live
  <2> QED BY <1>1, <2>1
<1>9. SleepersOK'
  BY <1>1, <1>2, <1>3, <1>8, SleepersKept DEF DiscInv
<1>10. BootFree'
  BY <1>1, <1>2, BootOver
<1> QED BY <1>7, <1>9, <1>10 DEF DiscInv

\* pthread_join() up to its first look at the slot keeps it.
LEMMA JoinCallDisc ==
    ASSUME LifeInv, DiscInv, disciplined, NEW h \in handles, join_call(h)
    PROVE  DiscInv'
<1>1. PICK c \in Thread :
              /\ c = Current /\ pc[c] = "user"
              /\ Outside(sched') /\ sched' = sched
              /\ Stored(pc, pc', c, "join")
              /\ pc' = [u \in Task |-> pc'[u]] /\ pc'[Idle] = pc[Idle]
  BY JoinCallEffect
<1>2. /\ UNCHANGED <<timers, detached, waiter, gen>> /\ ~sched.in_irq
      /\ target' = [target EXCEPT ![c] = h] /\ handles' = handles \ {h}
  BY <1>1 DEF join_call, Calls, At, Use
<1>3. /\ \A u \in Thread : pc'[u] = IF u = c THEN "join" ELSE pc[u]
      /\ \A u \in Thread : target'[u] = IF u = c THEN h ELSE target[u]
  BY <1>1, <1>2 DEF Stored, LifeInv, LifeTypes, Task
<1>4. /\ \A u \in Thread : Live(u)' <=> Live(u)
      /\ \A u \in Thread : u # c => (Holds(u)' <=> Holds(u))
      /\ ~Holds(c) /\ Holds(c)'
  <2>1. h # NULL
    BY NameSlot
  <2> QED BY <1>1, <1>2, <1>3, <2>1 DEF Live, Holds
<1>5. Claims'
  BY <1>2, <1>3, <1>4, ClaimTaken DEF DiscInv
<1>6. SleepersOK'
  BY <1>1, <1>2, <1>3, SleepersKept DEF DiscInv
<1>7. BootFree'
  BY <1>1, <1>2, BootOver
<1> QED BY <1>5, <1>6, <1>7 DEF DiscInv

\* pthread_join() that returns keeps it; only with the thread, or EDEADLK.
LEMMA JoinReturnDisc ==
    ASSUME LifeInv, DiscInv, join_reap \/ join_esrch \/ join_einval \/ join_edeadlk
    PROVE  DiscInv'
<1>1. PICK c, t \in Thread :
              /\ c = Current /\ pc[c] = "join" /\ t = Slot(target[c]) /\ t = Target
              /\ target[c] # NULL
              /\ Outside(sched')
              /\ IF join_reap
                 THEN /\ sched.state[t] = "EXIT" /\ t # c
                      /\ Stored(sched.state, sched'.state, t, "NONE")
                 ELSE sched'.state = sched.state
              /\ Stored(pc, pc', c, "user")
              /\ pc' = [u \in Task |-> pc'[u]] /\ pc'[Idle] = pc[Idle]
              /\ target' = [target EXCEPT ![c] = NULL]
  BY JoinReturnEffect
<1>2. UNCHANGED <<timers, detached, waiter, gen>> /\ ~sched.in_irq
  BY DEF join_reap, join_esrch, join_einval, join_edeadlk, At
<1>3. /\ Holds(c) /\ target[c] = Named(t) /\ Live(t) /\ Named(t) \notin handles
      /\ waiter[t] = NULL
  BY <1>1, JoinersHold, NobodyWaits DEF DiscInv, Claims, HoldersOK, Reapable
<1>4. ~join_esrch /\ ~join_einval
  BY <1>1, <1>3 DEF join_esrch, join_einval, Joinable, Live
<1>5. /\ \A u \in Thread : pc'[u] = IF u = c THEN "user" ELSE pc[u]
      /\ \A u \in Thread : target'[u] = IF u = c THEN NULL ELSE target[u]
  BY <1>1 DEF Stored, LifeInv, LifeTypes, Task
<1>6. (\A u \in Thread : u # c => (Holds(u)' <=> Holds(u))) /\ ~Holds(c)'
  BY <1>5 DEF Holds
<1>7. Claims' /\ SleepersOK'
  <2>1. CASE join_reap
    <3>1. \A u \in Thread : sched'.state[u] = IF u = t THEN "NONE" ELSE sched.state[u]
      BY <1>1, <2>1 DEF Stored
    <3>2. ~Live(t)' /\ \A u \in Thread : u # t => (Live(u)' <=> Live(u))
      BY <1>2, <3>1 DEF Live
    <3>3. handles' = handles \ {Named(t)}
      BY <1>3, <2>1 DEF join_reap
    <3>4. \A u \in Thread : Holds(u)' <=> Holds(u) /\ target[u] # Named(t)
      BY <1>3, <1>6 DEF DiscInv, Claims, OneHolder
    <3>5. Claims'
      BY <1>2, <1>5, <1>6, <3>2, <3>3, <3>4, ClaimEnds DEF DiscInv
    <3>6. SleepersOK'
      BY <1>1, <1>2, <1>5, <2>1, <3>1, SleepersKept DEF DiscInv
    <3> QED BY <3>5, <3>6
  <2>2. CASE join_edeadlk /\ ~join_reap
    <3>1. sched'.state = sched.state /\ handles' = handles \cup {target[c]}
      BY <1>1, <2>2 DEF join_edeadlk, GiveBack
    <3>2. \A u \in Thread : Live(u)' <=> Live(u)
      BY <1>2, <3>1 DEF Live
    <3>3. Claims'
      BY <1>2, <1>3, <1>5, <1>6, <3>1, <3>2, ClaimGiven DEF DiscInv
    <3>4. SleepersOK'
      BY <1>1, <1>2, <1>5, <3>1, SleepersKept DEF DiscInv
    <3> QED BY <3>3, <3>4
  <2> QED BY <1>4, <2>1, <2>2
<1>8. BootFree'
  BY <1>1, <1>2, BootOver
<1> QED BY <1>7, <1>8 DEF DiscInv

\* pthread_join() that sleeps, or goes on, keeps it.
LEMMA JoinWaitDisc ==
    ASSUME LifeInv, DiscInv, join_sleep \/ join_resume
    PROVE  DiscInv'
<1>1. PICK c, t \in Thread, label \in {"join", "join_wait"} :
              /\ c = Current /\ t = Slot(target[c]) /\ t = Target
              /\ target[c] # NULL
              /\ label = "join_wait" => join_sleep /\ pc[c] = "join"
              /\ label = "join" => join_resume /\ pc[c] = "join_wait"
              /\ Outside(sched')
              /\ IF label = "join_wait" THEN Stored(sched.state, sched'.state, c, "SLEEPING")
                                        ELSE sched' = sched
              /\ Stored(pc, pc', c, label)
              /\ pc' = [u \in Task |-> pc'[u]] /\ pc'[Idle] = pc[Idle]
              /\ waiter' = [waiter EXCEPT ![t] = IF label = "join_wait" THEN c ELSE NULL]
  BY JoinWaitEffect
<1>2. UNCHANGED <<timers, detached, gen, handles, target>> /\ ~sched.in_irq
  BY DEF join_sleep, join_resume, At
<1>3. /\ \A u \in Thread : pc'[u] = IF u = c THEN label ELSE pc[u]
      /\ \A u \in Thread : sched'.state[u] = IF u = c /\ label = "join_wait" THEN "SLEEPING"
                                             ELSE sched.state[u]
      /\ \A u \in Thread : waiter'[u] = IF u # t THEN waiter[u]
                                        ELSE IF label = "join_wait" THEN c ELSE NULL
      /\ Thread \subseteq Task
  BY <1>1 DEF Stored, LifeInv, LifeTypes, Task
<1>4. pc[c] \in {"join", "join_wait"} /\ Holds(c) /\ sched.state[c] \in {"RUNNING", "SLEEPING"}
  BY <1>1, JoinersHold DEF LifeInv, SlotsOK
<1>5. \A u \in Thread : (Live(u)' <=> Live(u)) /\ (Holds(u)' <=> Holds(u))
  BY <1>2, <1>3, <1>4 DEF Live, Holds
<1>6. Claims'
  BY <1>2, <1>5, ClaimsKept DEF DiscInv
<1>7. SleepersOK'
  <2> SUFFICES ASSUME NEW u \in Thread, pc'[u] = "join_wait", sched'.state[u] = "SLEEPING"
               PROVE  /\ waiter'[Slot(target[u])] = u
                      /\ sched'.state[Slot(target[u])] \in {"RUNNING", "SLEEPING"}
    BY <1>2 DEF SleepersOK, Slot
  <2>1. CASE u = c
    <3>1. label = "join_wait" /\ join_sleep
      BY <1>1, <1>3, <2>1
    <3>2. Live(t) /\ sched.state[t] # "EXIT"
      BY <1>1, <1>4, <3>1 DEF join_sleep, DiscInv, Claims, HoldersOK, Reapable
    <3> QED BY <1>1, <1>3, <2>1, <3>1, <3>2 DEF Live
  <2>2. CASE u # c
    <3>1. pc[u] = "join_wait" /\ sched.state[u] = "SLEEPING" /\ Holds(u)
      BY <1>3, <2>2, JoinersHold
    <3>2. Slot(target[u]) \in Thread /\ Slot(target[u]) # t
      BY <1>1, <1>4, <2>2, <3>1, SoleHolder, NameSlot DEF DiscInv, Holds
    <3>3. waiter[Slot(target[u])] = u /\ sched.state[Slot(target[u])] \in {"RUNNING", "SLEEPING"}
      BY <3>1 DEF DiscInv, SleepersOK
    <3> QED BY <1>3, <3>2, <3>3
  <2> QED BY <2>1, <2>2
<1>8. BootFree'
  BY <1>1, <1>2, BootOver
<1> QED BY <1>6, <1>7, <1>8 DEF DiscInv

\* pthread_detach() keeps it: nobody waits for a thread that it detaches.
LEMMA DetachDisc ==
    ASSUME LifeInv, DiscInv, disciplined, NEW h \in handles, Detach(h)
    PROVE  DiscInv'
<1>1. /\ UNCHANGED <<pc, timers, waiter, gen, target>> /\ ~sched.in_irq
      /\ handles' = handles \ {h}
  BY DEF Detach, detach_running, detach_exited, Calls, At, Use
<1>2. PICK t \in Thread : t = Slot(h) /\ h = Named(t) /\ waiter[t] = NULL
  BY NameSlot, NobodyWaits DEF DiscInv, Claims, HandlesOK, Reapable
<1>3. /\ ~Live(t)'
      /\ \A u \in Thread : u # t => (Live(u)' <=> Live(u))
      /\ \A u \in Thread : \/ sched'.state[u] = sched.state[u]
                           \/ sched.state[u] = "EXIT" /\ sched'.state[u] = "NONE"
  <2>1. CASE detach_running(h)
    <3>1. sched' = sched /\ detached' = detached \cup {t}
      BY <1>2, <2>1 DEF detach_running
    <3> QED BY <3>1 DEF Live
  <2>2. CASE detach_exited(h)
    <3>1. PICK c \in Thread, y \in Thread :
              y = Slot(h) /\ sched.state[y] = "EXIT" /\ Stored(sched.state, sched'.state, y, "NONE")
      BY <2>2, DetachExitedEffect
    <3>2. detached' = detached
      BY <2>2 DEF detach_exited
    <3> QED BY <1>2, <3>1, <3>2 DEF Live, Stored
  <2> QED BY <2>1, <2>2 DEF Detach
<1>4. \A u \in Thread : Holds(u)' <=> Holds(u) /\ target[u] # Named(t)
  <2>1. \A u \in Thread : Holds(u) => target[u] # Named(t)
    BY <1>2 DEF DiscInv, Claims, HoldersOK
  <2> QED BY <1>1, <2>1 DEF Holds
<1>5. Claims'
  BY <1>1, <1>2, <1>3, <1>4, ClaimEnds DEF DiscInv
<1>6. SleepersOK'
  BY <1>1, <1>3, SleepersKept DEF DiscInv
<1>7. BootFree'
  BY <1>1, BootOver
<1> QED BY <1>5, <1>6, <1>7 DEF DiscInv

\* Every step of a disciplined application keeps it.
LEMMA DiscNextInv ==
    LifeInv /\ (disciplined => DiscInv) /\ [LifecycleNext]_vars => (disciplined => DiscInv)'
<1> SUFFICES ASSUME LifeInv, disciplined => DiscInv, [LifecycleNext]_vars, disciplined'
             PROVE  DiscInv'
  OBVIOUS
<1>1. disciplined' = disciplined
  BY DEF vars, LifecycleNext
<1>2. disciplined /\ DiscInv
  BY <1>1
<1>3. CASE UNCHANGED vars
  <2>1. UNCHANGED <<sched, pc, detached, waiter, gen, handles, target>>
    BY <1>3 DEF vars
  <2>2. Claims'
    BY <1>2, <2>1, ClaimsKept DEF DiscInv, Live, Holds
  <2>3. SleepersOK' /\ BootFree'
    BY <1>2, <2>1 DEF DiscInv, SleepersOK, BootFree, Slot
  <2> QED BY <2>2, <2>3 DEF DiscInv
<1>4. CASE LifecycleStep
  <2>1. ASSUME NEW p \in Priorities, BootCreateThread(p) PROVE DiscInv'
    BY <1>2, <2>1, BootDisc
  <2>2. CASE SchedCall /\ UNCHANGED lifeVars
    BY <1>2, <2>2, CallDisc
  <2>3. CASE Create
    BY <1>2, <2>3, ClaimDisc, FillDisc, CreateReturnDisc DEF Create
  <2>4. CASE pthread_exit
    BY <1>2, <2>4, ExitDisc
  <2>5. CASE JoinStep
    BY <1>2, <2>5, JoinReturnDisc, JoinWaitDisc DEF JoinStep
  <2>6. ASSUME NEW h \in handles, join_call(h) \/ Detach(h) PROVE DiscInv'
    BY <1>2, <2>6, JoinCallDisc, DetachDisc
  <2> QED BY <1>4, <2>1, <2>2, <2>3, <2>4, <2>5, <2>6 DEF LifecycleStep, SchedCall
<1> QED BY <1>3, <1>4 DEF LifecycleNext

\* It holds in every reachable state.
LEMMA DiscInvariant == LifecycleSpec => [](LifeInv /\ (disciplined => DiscInv))
BY LifeInitInv, LifeNextInv, DiscInitInv, DiscNextInv, PTL DEF LifecycleSpec

\* pthread_join() never works on a slot that has been given to another thread.
THEOREM JoinCorrect == LifecycleSpec => []JoinsItsThread
<1>1. LifeInv /\ (disciplined => DiscInv) => JoinsItsThread
  BY JoinersHold DEF JoinsItsThread, DiscInv, Claims, HoldersOK, Reapable
<1> QED BY <1>1, DiscInvariant, PTL

\* A thread that sleeps in pthread_join() is registered with a thread that has
\* still to exit, so pthread_exit() will wake it.
THEOREM JoinerCorrect == LifecycleSpec => []NoLostJoiner
<1>1. ASSUME LifeInv, disciplined => DiscInv PROVE NoLostJoiner
  <2> SUFFICES ASSUME disciplined, NEW t \in Thread, pc[t] = "join_wait", sched.state[t] = "SLEEPING"
               PROVE  /\ waiter[Slot(target[t])] = t
                      /\ sched.state[Slot(target[t])] \in {"RUNNING", "SLEEPING"}
                      /\ Slot(target[t]) \notin detached
    BY DEF NoLostJoiner
  <2>1. Live(Slot(target[t]))
    BY <1>1, JoinersHold DEF DiscInv, Claims, HoldersOK, Reapable
  <2> QED BY <1>1, <2>1 DEF DiscInv, SleepersOK, Live
<1> QED BY <1>1, DiscInvariant, PTL

\* The application can reap every thread that has exited: no slot leaks.
THEOREM ReapCorrect == LifecycleSpec => []NoZombie
<1>1. ASSUME LifeInv, disciplined => DiscInv PROVE NoZombie
  <2> SUFFICES ASSUME disciplined, NEW z \in Thread, sched.state[z] = "EXIT"
               PROVE  \/ Named(z) \in handles
                      \/ \E t \in Thread :
                            /\ target[t] = Named(z)
                            /\ pc[t] \in {"create_wake", "create_ret", "join", "join_wait"}
    BY DEF NoZombie
  <2>1. Live(z)
    BY <1>1 DEF LifeInv, SlotsOK, Live
  <2>2. Claimed(z)
    BY <1>1, <2>1 DEF DiscInv, Claims, LiveClaimed
  <2> QED BY <2>2 DEF Claimed, Holds
<1> QED BY <1>1, DiscInvariant, PTL

-----------------------------------------------------------------------------
(***************************************************************************)
(* has_loop() finds every circle: the walk from the thread that is about   *)
(* to be waited for is a chain of at most as many links as there are       *)
(* tasks, so if it never leaves a set of tasks it comes back to its start. *)
(***************************************************************************)
\* h is the walk by F from x, as far as n.
Walk(h, n, D, F, x) ==
    h \in [0..n -> D] /\ h[0] = F[x] /\ \A i \in 0..(n - 1) : h[i + 1] = F[h[i]]

Endless(D, F, x) ==
    \E g \in [Nat -> D] : g[0] = F[x] /\ \A i \in Nat : g[i + 1] = F[g[i]]

\* There are walks of every length.
LEMMA WalkExists ==
    ASSUME NEW D, NEW F \in [D -> D], NEW x \in D, NEW n \in Nat
    PROVE  \E h : Walk(h, n, D, F, x)
<1> DEFINE S == {m \in Nat : ~\E h : Walk(h, m, D, F, x)}
<1>1. ASSUME S # {} PROVE FALSE
  <2> DEFINE m == Min(S)
  <2>1. m \in S /\ \A k \in S : m <= k
    BY <1>1, MinOfSet
  <2> HIDE DEF m
  <2>2. m \in Nat /\ ~\E h : Walk(h, m, D, F, x)
    BY <2>1
  <2>3. CASE m = 0
    <3> DEFINE h == [i \in 0..0 |-> F[x]]
    <3>1. Walk(h, 0, D, F, x)
      BY DEF Walk
    <3> QED BY <2>2, <2>3, <3>1
  <2>4. CASE m > 0
    <3>1. m - 1 \in Nat /\ m - 1 \notin S
      BY <2>1, <2>2, <2>4
    <3>2. PICK k : Walk(k, m - 1, D, F, x)
      BY <3>1
    <3> DEFINE h == [i \in 0..m |-> IF i = m THEN F[k[m - 1]] ELSE k[i]]
    <3>3. k \in [0..(m - 1) -> D] /\ k[0] = F[x] /\ \A i \in 0..(m - 2) : k[i + 1] = F[k[i]]
      BY <2>2, <3>2 DEF Walk
    <3>4. h \in [0..m -> D] /\ h[0] = F[x]
      BY <2>2, <2>4, <3>3
    <3>5. ASSUME NEW i \in 0..(m - 1) PROVE h[i + 1] = F[h[i]]
      <4>1. CASE i = m - 1
        BY <2>2, <2>4, <4>1
      <4>2. CASE i # m - 1
        <5>1. i \in 0..(m - 2) /\ i + 1 \in 0..m /\ i \in 0..m /\ i + 1 # m /\ i # m
          BY <2>2, <2>4, <4>2
        <5> QED BY <3>3, <5>1
      <4> QED BY <4>1, <4>2
    <3>6. Walk(h, m, D, F, x)
      BY <3>4, <3>5 DEF Walk
    <3> QED BY <2>2, <3>6
  <2> QED BY <2>2, <2>3, <2>4
<1> QED BY <1>1

\* Walks agree as far as both go.
LEMMA WalkUnique ==
    ASSUME NEW D, NEW F \in [D -> D], NEW x \in D, NEW n \in Nat, NEW m \in Nat, n <= m,
           NEW h, NEW k, Walk(h, n, D, F, x), Walk(k, m, D, F, x)
    PROVE  \A i \in 0..n : h[i] = k[i]
<1> DEFINE S == {i \in 0..n : h[i] # k[i]}
<1>1. ASSUME S # {} PROVE FALSE
  <2> DEFINE j == Min(S)
  <2>1. j \in S /\ \A i \in S : j <= i
    BY <1>1, MinOfSet
  <2> HIDE DEF j
  <2>2. j \in 0..n /\ h[j] # k[j]
    BY <2>1
  <2>3. j # 0
    BY <2>2 DEF Walk
  <2>4. j - 1 \in 0..(n - 1) /\ j - 1 \in 0..(m - 1) /\ j - 1 \in 0..n /\ (j - 1) + 1 = j
    BY <2>2, <2>3
  <2>5. h[j - 1] = k[j - 1]
    BY <2>1, <2>4
  <2>6. h[(j - 1) + 1] = F[h[j - 1]] /\ k[(j - 1) + 1] = F[k[j - 1]]
    BY <2>4 DEF Walk
  <2> QED BY <2>2, <2>4, <2>5, <2>6
<1> QED BY <1>1

\* So there is one without end.
LEMMA WalkForever ==
    ASSUME NEW D, NEW F \in [D -> D], NEW x \in D
    PROVE  Endless(D, F, x)
<1> DEFINE W(n) == CHOOSE h : Walk(h, n, D, F, x)
           g == [n \in Nat |-> W(n)[n]]
<1>1. \A n \in Nat : Walk(W(n), n, D, F, x)
  BY WalkExists
<1> HIDE DEF W
<1>2. \A n \in Nat : g[n] = W(n)[n] /\ W(n)[n] \in D
  BY <1>1 DEF Walk
<1>3. g[0] = F[x]
  BY <1>1, <1>2 DEF Walk
<1>4. ASSUME NEW i \in Nat PROVE g[i + 1] = F[g[i]]
  <2>1. i + 1 \in Nat /\ i \in 0..i /\ i \in 0..((i + 1) - 1) /\ i <= i + 1
    OBVIOUS
  <2>2. Walk(W(i), i, D, F, x) /\ Walk(W(i + 1), i + 1, D, F, x)
    BY <1>1, <2>1
  <2>3. W(i)[i] = W(i + 1)[i]
    BY <2>1, <2>2, WalkUnique
  <2>4. W(i + 1)[i + 1] = F[W(i + 1)[i]]
    BY <2>1, <2>2 DEF Walk
  <2> QED BY <1>2, <2>1, <2>3, <2>4
<1>5. g \in [Nat -> D]
  BY <1>2
<1> HIDE DEF g
<1> QED BY <1>3, <1>4, <1>5 DEF Endless

\* What the walk of has_loop() visits.
LEMMA WaiterAtWalk ==
    ASSUME NEW w \in [Task -> Thread \cup {NULL}], NEW t \in Task
    PROVE  \E g \in [Nat -> Task \cup {NULL}] :
              /\ g[0] = w[t]
              /\ \A i \in Nat : g[i + 1] = IF g[i] = NULL THEN NULL ELSE w[g[i]]
              /\ \A n \in Nat : WaiterAt(w, t, n) = g[n]
<1> DEFINE D == Task \cup {NULL}
           F == [u \in D |-> IF u = NULL THEN NULL ELSE w[u]]
<1>1. NULL \notin Task /\ Thread \subseteq Task
  BY SchedAssumption DEF Task
<1>2. F \in [D -> D] /\ t \in D
  BY <1>1
<1> HIDE DEF D, F
<1>3. PICK g \in [Nat -> D] : g[0] = F[t] /\ \A i \in Nat : g[i + 1] = F[g[i]]
  <2>1. Endless(D, F, t)
    BY <1>2, WalkForever
  <2> QED BY <2>1 DEF Endless
<1> USE DEF D, F
<1>4. g[0] = w[t]
  BY <1>1, <1>3
<1>5. \A i \in Nat : g[i + 1] = IF g[i] = NULL THEN NULL ELSE w[g[i]]
  BY <1>3
<1> DEFINE Link(c, i) == LET u == IF i = 0 THEN t ELSE c[i - 1]
                         IN  IF u = NULL THEN NULL ELSE w[u]
           IsChain(c) == c = [i \in Nat |-> Link(c, i)]
           chain == CHOOSE c : IsChain(c)
<1>6. IsChain(g)
  <2>1. ASSUME NEW i \in Nat PROVE g[i] = Link(g, i)
    <3>1. CASE i = 0
      BY <1>1, <1>4, <3>1
    <3>2. CASE i > 0
      <4>1. i - 1 \in Nat /\ (i - 1) + 1 = i /\ i # 0
        BY <3>2
      <4>2. g[(i - 1) + 1] = IF g[i - 1] = NULL THEN NULL ELSE w[g[i - 1]]
        BY <1>5, <4>1
      <4> QED BY <4>1, <4>2
    <3> QED BY <3>1, <3>2
  <2>2. g = [i \in Nat |-> g[i]]
    OBVIOUS
  <2> HIDE DEF Link
  <2> QED BY <2>1, <2>2
<1>7. IsChain(chain)
  <2> HIDE DEF IsChain
  <2> QED BY <1>6
<1>8. \A n \in Nat : WaiterAt(w, t, n) = chain[n]
  BY DEF WaiterAt
<1> HIDE DEF chain
<1>9. chain[0] = w[t] /\ \A i \in Nat : chain[i + 1] = IF chain[i] = NULL THEN NULL ELSE w[chain[i]]
  <2>1. \A i \in Nat : chain[i] = Link(chain, i)
    <3> HIDE DEF Link
    <3> QED BY <1>7
  <2>2. chain[0] = w[t]
    BY <1>1, <2>1
  <2>3. ASSUME NEW i \in Nat PROVE chain[i + 1] = IF chain[i] = NULL THEN NULL ELSE w[chain[i]]
    <3>1. i + 1 \in Nat /\ i + 1 # 0 /\ (i + 1) - 1 = i
      OBVIOUS
    <3> QED BY <2>1, <3>1
  <2> QED BY <2>2, <2>3
<1>10. \A n \in Nat : chain[n] = g[n]
  <2> DEFINE S == {n \in Nat : chain[n] # g[n]}
  <2>1. ASSUME S # {} PROVE FALSE
    <3> DEFINE m == Min(S)
    <3>1. m \in S /\ \A k \in S : m <= k
      BY <2>1, MinOfSet
    <3> HIDE DEF m
    <3>2. m # 0
      BY <1>4, <1>9, <3>1
    <3>3. m - 1 \in Nat /\ m - 1 \notin S /\ (m - 1) + 1 = m
      BY <3>1, <3>2
    <3>4. chain[m - 1] = g[m - 1]
      BY <3>3
    <3> QED BY <1>5, <1>9, <3>1, <3>3, <3>4
  <2> QED BY <2>1
<1> QED BY <1>4, <1>5, <1>8, <1>10

\* A walk that stays in a set in which no two tasks have the same waiter comes
\* back to its start: has_loop() finds it.
LEMMA LoopFound ==
    ASSUME NEW w \in [Task -> Thread \cup {NULL}], NEW S \in SUBSET Task, NEW t \in S,
           \A u \in S : w[u] \in S,
           \A u, v \in S : w[u] = w[v] => u = v
    PROVE  has_loop(w, t)
<1>1. NULL \notin Task /\ NULL \notin S /\ t \in Task
  BY SchedAssumption DEF Task
<1>2. PICK g \in [Nat -> Task \cup {NULL}] :
              /\ g[0] = w[t]
              /\ \A i \in Nat : g[i + 1] = IF g[i] = NULL THEN NULL ELSE w[g[i]]
              /\ \A n \in Nat : WaiterAt(w, t, n) = g[n]
  BY <1>1, WaiterAtWalk
<1>3. \A n \in Nat : g[n] \in S
  <2> DEFINE B == {n \in Nat : g[n] \notin S}
  <2>1. ASSUME B # {} PROVE FALSE
    <3> DEFINE m == Min(B)
    <3>1. m \in B /\ \A k \in B : m <= k
      BY <2>1, MinOfSet
    <3> HIDE DEF m
    <3>2. m # 0
      BY <1>2, <3>1
    <3>3. m - 1 \in Nat /\ m - 1 \notin B /\ (m - 1) + 1 = m
      BY <3>1, <3>2
    <3>4. g[m - 1] \in S
      BY <3>3
    <3>5. g[m] = w[g[m - 1]]
      BY <1>1, <1>2, <3>3, <3>4
    <3> QED BY <3>1, <3>4, <3>5
  <2> QED BY <2>1
<1>4. \A n \in Nat : g[n + 1] = w[g[n]]
  BY <1>1, <1>2, <1>3
<1> DEFINE N == Cardinality(Task)
           e == [i \in 0..N |-> IF i = 0 THEN t ELSE g[i - 1]]
<1>5. IsFiniteSet(Task) /\ N \in Nat
  BY LifecycleAssumption, FS_AddElement, FS_CardinalityType DEF Task
<1> HIDE DEF N
<1>6. /\ e[0] = t
      /\ \A i \in 1..N : e[i] = g[i - 1]
      /\ \A i \in 0..N : e[i] \in S
      /\ \A i \in 1..N : e[i] = w[e[i - 1]]
  <2>1. e[0] = t
    BY <1>5
  <2>2. \A i \in 1..N : e[i] = g[i - 1]
    BY <1>5
  <2>3. \A i \in 0..N : e[i] \in S
    BY <1>3, <1>5, <2>1, <2>2
  <2>4. ASSUME NEW i \in 1..N PROVE e[i] = w[e[i - 1]]
    <3>1. CASE i = 1
      BY <1>2, <1>5, <2>1, <2>2, <3>1
    <3>2. CASE i # 1
      <4>1. i - 1 \in 1..N /\ i - 2 \in Nat /\ (i - 2) + 1 = i - 1 /\ (i - 1) - 1 = i - 2
        BY <1>5, <3>2
      <4> QED BY <1>4, <2>2, <4>1
    <3> QED BY <3>1, <3>2
  <2> QED BY <2>1, <2>2, <2>3, <2>4
<1>6a. e = [i \in 0..N |-> e[i]]
  OBVIOUS
<1> HIDE DEF e
<1> DEFINE Twice(i) == \E j \in 0..N : i < j /\ e[i] = e[j]
           B == {i \in 0..N : Twice(i)}
<1>7. B # {}
  <2>1. IsFiniteSet(0..N) /\ Cardinality(0..N) = N + 1
    BY <1>5, FS_Interval
  <2>2. e \in [0..N -> Task] /\ Cardinality(Task) < Cardinality(0..N)
    BY <1>5, <1>6, <1>6a, <2>1 DEF N
  <2> DEFINE I == 0..N
  <2> HIDE DEF I
  <2>3. \E i, j \in I : i # j /\ e[i] = e[j]
    <3>1. IsFiniteSet(I) /\ Cardinality(Task) < Cardinality(I) /\ e \in [I -> Task]
      BY <2>1, <2>2 DEF I
    <3> QED BY <1>5, <3>1, FS_PigeonHole
  <2>4. PICK i \in 0..N, j \in 0..N : i # j /\ e[i] = e[j]
    BY <2>3 DEF I
  <2>5. i \in B \/ j \in B
    BY <1>5, <2>4
  <2> QED BY <2>5
<1> DEFINE m == Min(B)
<1>8. m \in B /\ \A k \in B : m <= k
  <2>1. B \in SUBSET Nat
    BY <1>5
  <2> QED BY <1>7, <2>1, MinOfSet
<1> HIDE DEF m
<1>9. PICK j \in 0..N : m < j /\ e[m] = e[j] /\ m \in 0..N
  BY <1>8
<1>10. m = 0
  <2>1. ASSUME m # 0 PROVE FALSE
    <3>1. m \in 1..N /\ j \in 1..N /\ m - 1 \in 0..N /\ j - 1 \in 0..N /\ m - 1 < j - 1
      BY <1>5, <1>9, <2>1
    <3>2. w[e[m - 1]] = w[e[j - 1]] /\ e[m - 1] \in S /\ e[j - 1] \in S
      BY <1>6, <1>9, <3>1
    <3>3. e[m - 1] = e[j - 1]
      BY <3>2
    <3>4. m - 1 \in B
      BY <3>1, <3>3
    <3> QED BY <1>8, <3>1, <3>4
  <2> QED BY <2>1
<1>11. j \in 1..N /\ j - 1 \in 0..N /\ j - 1 \in Nat
  BY <1>5, <1>9
<1>12. WaiterAt(w, t, j - 1) = t
  BY <1>2, <1>6, <1>9, <1>10, <1>11
<1> QED BY <1>11, <1>12 DEF has_loop, N

\* A step in which waiters only go makes no circle.
LEMMA WaitersGo ==
    ASSUME WaitersAcyclic, \A u \in Task : waiter'[u] = waiter[u] \/ waiter'[u] = NULL
    PROVE  WaitersAcyclic'
<1> SUFFICES ASSUME NEW S \in SUBSET Task, S # {} PROVE \E t \in S : waiter'[t] \notin S
  BY DEF WaitersAcyclic
<1>1. PICK t \in S : waiter[t] \notin S
  BY DEF WaitersAcyclic
<1>2. NULL \notin S
  BY SchedAssumption DEF Task
<1> QED BY <1>1, <1>2

\* pthread_join() registers with a thread only if that closes no circle.
LEMMA SleepAcyclic ==
    ASSUME LifeInv, LifeInv', WaitersAcyclic, join_sleep
    PROVE  WaitersAcyclic'
<1> SUFFICES ASSUME NEW S \in SUBSET Task, S # {}, \A t \in S : waiter'[t] \in S PROVE FALSE
  BY DEF WaitersAcyclic
<1>1. PICK y : y = Target /\ y \in Thread
  BY JoinWaitEffect
<1>2. PICK c : c = Current
  OBVIOUS
<1>3. waiter' = [waiter EXCEPT ![y] = c] /\ ~has_loop(waiter', y)
  BY <1>1, <1>2 DEF join_sleep, Registered
<1>4. waiter \in [Task -> Thread \cup {NULL}] /\ waiter' \in [Task -> Thread \cup {NULL}]
      /\ NULL \notin Task
  BY SchedAssumption DEF LifeInv, LifeTypes, Task
<1>5. CASE y \in S
  <2>1. \A u \in S : waiter'[u] # NULL
    BY <1>4
  <2>2. \A u \in S : (Slot(target[waiter[u]]))' = u
    BY <2>1 DEF LifeInv, WaitersOK
  <2>3. \A u, v \in S : waiter'[u] = waiter'[v] => u = v
    BY <2>2 DEF Slot
  <2>4. has_loop(waiter', y)
    BY <1>4, <1>5, <2>3, LoopFound
  <2> QED BY <1>3, <2>4
<1>6. CASE y \notin S
  <2>1. \A u \in S : waiter'[u] = waiter[u]
    BY <1>3, <1>4, <1>6
  <2> QED BY <2>1 DEF WaitersAcyclic
<1> QED BY <1>5, <1>6

\* Every step keeps the waiters free of circles.
LEMMA AcyclicNext ==
    LifeInv /\ LifeInv' /\ WaitersAcyclic /\ [LifecycleNext]_vars => WaitersAcyclic'
<1> SUFFICES ASSUME LifeInv, LifeInv', WaitersAcyclic, [LifecycleNext]_vars PROVE WaitersAcyclic'
  OBVIOUS
<1>1. waiter \in [Task -> Thread \cup {NULL}]
  BY DEF LifeInv, LifeTypes
<1>2. CASE join_sleep
  BY <1>2, SleepAcyclic
<1>3. ASSUME NEW y, waiter' = [waiter EXCEPT ![y] = NULL] PROVE WaitersAcyclic'
  BY <1>1, <1>3, WaitersGo
<1>4. ASSUME waiter' = waiter PROVE WaitersAcyclic'
  BY <1>4, WaitersGo
<1>5. CASE UNCHANGED vars
  BY <1>4, <1>5 DEF vars
<1>6. CASE LifecycleStep /\ ~join_sleep
  <2>1. ASSUME NEW p \in Priorities, NEW flag \in BOOLEAN, create_fill(p, flag) PROVE WaitersAcyclic'
    BY <1>3, <2>1 DEF create_fill
  <2>2. CASE join_resume
    BY <1>3, <2>2 DEF join_resume
  <2>3. ASSUME NEW p \in Priorities, BootCreateThread(p) PROVE WaitersAcyclic'
    BY <1>4, <2>3 DEF BootCreateThread
  <2>4. CASE UNCHANGED lifeVars
    BY <1>4, <2>4 DEF lifeVars
  <2>5. CASE create_claim \/ create_wake \/ create_return \/ pthread_exit
    BY <1>4, <2>5 DEF create_claim, create_wake, create_return, pthread_exit, lifeVars
  <2>6. CASE join_reap \/ join_esrch \/ join_einval \/ join_edeadlk
    BY <1>4, <2>6 DEF join_reap, join_esrch, join_einval, join_edeadlk
  <2>7. ASSUME NEW h \in handles, join_call(h) \/ Detach(h) PROVE WaitersAcyclic'
    BY <1>4, <2>7 DEF join_call, Detach, detach_running, detach_exited
  <2> QED BY <1>6, <2>1, <2>2, <2>3, <2>4, <2>5, <2>6, <2>7 DEF LifecycleStep, Create, JoinStep
<1> QED BY <1>2, <1>5, <1>6 DEF LifecycleNext

\* Threads never wait in a circle for each other to exit, and the walk of
\* has_loop() ends, whatever handles the application uses.
THEOREM JoinersAcyclic == LifecycleSpec => []WaitersAcyclic
<1>1. LifecycleInit => WaitersAcyclic
  <2> SUFFICES ASSUME LifecycleInit, NEW S \in SUBSET Task, S # {}
               PROVE  \E t \in S : waiter[t] \notin S
    BY DEF WaitersAcyclic
  <2>1. NULL \notin S /\ \A t \in S : waiter[t] = NULL
    BY SchedAssumption DEF LifecycleInit, Task
  <2> QED BY <2>1
<1> QED BY <1>1, LifeInitInv, LifeNextInv, AcyclicNext, PTL DEF LifecycleSpec
=============================================================================
