----------------------------- MODULE MutexProofs -----------------------------
(***************************************************************************)
(* The mutexes implement the abstract lock, lose no wake-up, keep their    *)
(* inherited priorities exact and never walk in a circle, for every number *)
(* of threads, of mutexes and of priorities.                               *)
(***************************************************************************)
EXTENDS Mutex, SchedProofs, FiniteSetTheorems

\* The fields of struct pthread_mutex, the mutex fields of struct pthread and
\* the application's account hold values of their types.
MutexTypeOK ==
    /\ lock \in [Mutex -> {1, 0, -1}]
    /\ owner \in [Mutex -> Thread \cup {NULL}]
    /\ recursive_count \in [Mutex -> Nat]
    /\ wq \in [Mutex -> Seq(Thread)]
    /\ sleep_on \in [Task -> Mutex \cup {NULL}]
    /\ mutex_queue \in [Task -> SUBSET Mutex]
    /\ cursor \in Thread \cup {NULL}
    /\ held \in [Thread -> [Mutex -> Nat]]
    /\ stale \subseteq {"set", "passed"}

\* A walk is under way, or has met a null owner.
Walking == pc[Current] \in {"lock_spread", "setprio_spread", "fault"}

\* Where the threads are that wait for a mutex.  Only the current thread walks,
\* and a thread that has just queued up walks while the mutex is still taken.
WaitPlaces ==
    /\ \A t \in Thread :
          /\ sleep_on[t] # NULL => pc[t] \in {"lock_spread", "lock_try", "fault"}
          /\ pc[t] \in {"lock_spread", "lock_try"} => sleep_on[t] # NULL
          /\ pc[t] \in {"lock_spread", "setprio_spread", "fault"} => t = Current
          /\ pc[t] = "none" => sleep_on[t] = NULL /\ mutex_queue[t] = {}
    /\ cursor # NULL <=> Walking
    /\ pc[Current] = "lock_spread" => lock[sleep_on[Current]] # 1
    /\ pc[Current] = "fault" => owner[sleep_on[cursor]] = NULL

\* A thread waits for a mutex of a higher rank than those it holds.
RanksOK ==
    \A t \in Thread :
        sleep_on[t] # NULL => \A h \in Holds(t) : Rank[h] < Rank[sleep_on[t]]

\* The records of owners and waiters, kept by every step of the mutexes.
StructInv == MutexTypeOK /\ OwnershipOK /\ WaitPlaces /\ RanksOK

\* The thread whose priority the next step of a walk computes: until then its
\* inherited priority may be out of date.
Due(t) == cursor # NULL /\ sleep_on[cursor] # NULL /\ owner[sleep_on[cursor]] = t

Inherited(t) == InheritedPriority(sched, t, mutex_queue[t], wq)

\* InheritanceExact, and what is left of it once a mutex has been taken past a
\* waiter of a higher priority, in the middle of a walk too.
PriorityInv ==
    /\ stale = {} =>
          \A t \in Thread : Due(t) \/ sched.effective_priority[t] = Inherited(t)
    /\ "set" \notin stale =>
          \A t \in Thread : Due(t) \/ sched.effective_priority[t] <= Inherited(t)

\* A thread that has just walked is about to sleep.
AboutToSleep == pc[Current] = "lock_try" /\ lock[sleep_on[Current]] # 1

\* No thread is passed over, except before a schedule() that is about to come.
SettledInv == "set" \in stale \/ Walking \/ AboutToSleep \/ Settled(sched)

MutexInv ==
    /\ KernelInv
    /\ StructInv
    /\ Awake
    /\ NoLostWakeup
    /\ PriorityInv
    /\ SettledInv

-----------------------------------------------------------------------------
(***************************************************************************)
(* __pthread_setschedprio() on the scheduler state.                        *)
(***************************************************************************)
\* The effective priority of a thread off the run queue is not part of it.
LEMMA StoreEffective ==
    ASSUME NEW s \in SchedRecord, QueuedOnce(s), BitmapExact(s),
           NEW t \in Task, t \notin s.linked, NEW p \in Prio
    PROVE  LET u == [s EXCEPT !.effective_priority[t] = p]
           IN  /\ u \in SchedRecord /\ QueuedOnce(u) /\ BitmapExact(u)
               /\ u.effective_priority = [s.effective_priority EXCEPT ![t] = p]
               /\ u.state = s.state /\ u.priority = s.priority
               /\ u.timeslice = s.timeslice /\ u.linked = s.linked
               /\ u.current = s.current /\ u.next = s.next /\ u.in_irq = s.in_irq
<1> DEFINE f == [s.effective_priority EXCEPT ![t] = p]
           u == [s EXCEPT !.effective_priority = f]
<1>1. f \in [Task -> Prio] /\ \A x \in s.linked : f[x] = s.effective_priority[x]
  BY DEF SchedRecord
<1>2. u = [s EXCEPT !.effective_priority[t] = p]
  OBVIOUS
<1> HIDE DEF f
<1>3. /\ u \in SchedRecord
      /\ u.effective_priority = f
      /\ u.state = s.state /\ u.priority = s.priority
      /\ u.timeslice = s.timeslice /\ u.linked = s.linked
      /\ u.current = s.current /\ u.next = s.next /\ u.in_irq = s.in_irq
      /\ u.level = s.level /\ u.bitmap = s.bitmap
  BY <1>1 DEF SchedRecord
<1> HIDE DEF u
<1>4. QueuedOnce(u) /\ BitmapExact(u)
  BY <1>1, <1>3, SameQueue
<1> QED BY <1>2, <1>3, <1>4, Zenon DEF f

\* The state that __pthread_setschedprio() leaves.
PrioritySet(s, t, p, u) ==
    /\ Steady(u)
    /\ u.effective_priority = [s.effective_priority EXCEPT ![t] = p]
    /\ u.priority = s.priority
    /\ u.state = s.state
    /\ u.linked = s.linked
    /\ u.current = s.current
    /\ u.next = s.next
    /\ u.in_irq = s.in_irq

\* Dequeued, changed and queued again at the head, a thread on the run queue
\* ends up on the queue of its new priority; one off the run queue stays off.
LEMMA SetPriorityEffect ==
    ASSUME NEW s, Steady(s), NEW t \in Task, NEW p \in Prio
    PROVE  PrioritySet(s, t, p, SetEffectivePriority(s, t, p))
<1>1. /\ s \in SchedRecord /\ QueuedOnce(s) /\ BitmapExact(s)
      /\ s.effective_priority \in [Task -> Prio]
      /\ s.timeslice \in [Task -> 0..255]
      /\ s.linked \subseteq Task
  BY DEF Steady, Sound, SchedRecord
<1>2. /\ \A x \in Task : s.timeslice[x] <= TimeSlice
      /\ \A x \in s.linked : 1 <= s.timeslice[x]
  BY DEF Steady, Sliced
<1>3. CASE s.effective_priority[t] = p
  <2>1. SetEffectivePriority(s, t, p) = s
    BY <1>3 DEF SetEffectivePriority
  <2>2. [s.effective_priority EXCEPT ![t] = p] = s.effective_priority
    BY <1>1, <1>3
  <2> QED BY <2>1, <2>2, Zenon DEF PrioritySet
<1>4. CASE s.effective_priority[t] # p /\ t \in s.linked
  <2> DEFINE d == run_queue_dequeue(s, t)
             v == [d EXCEPT !.effective_priority[t] = p]
             e == run_queue_enqueue(v, t, TRUE)
  <2>1. SetEffectivePriority(s, t, p) = e
    BY <1>4 DEF SetEffectivePriority
  <2>2. Dequeued(s, t, d) /\ QueuedOnce(d) /\ BitmapExact(d)
    BY <1>1, <1>4, DequeueFields, DequeueSound
  <2> HIDE DEF d
  <2>3. d \in SchedRecord /\ t \notin d.linked
    BY <2>2 DEF Dequeued
  <2>4. /\ v \in SchedRecord /\ QueuedOnce(v) /\ BitmapExact(v)
        /\ v.effective_priority = [d.effective_priority EXCEPT ![t] = p]
        /\ v.state = d.state /\ v.priority = d.priority
        /\ v.timeslice = d.timeslice /\ v.linked = d.linked
        /\ v.current = d.current /\ v.next = d.next /\ v.in_irq = d.in_irq
    BY <2>2, <2>3, StoreEffective, Zenon
  <2> HIDE DEF v
  <2>5. Enqueued(v, t, TRUE, e) /\ QueuedOnce(e) /\ BitmapExact(e)
    BY <2>3, <2>4, EnqueueFields, EnqueueSound
  <2> HIDE DEF e
  <2>6. e.effective_priority = [s.effective_priority EXCEPT ![t] = p]
    BY <2>2, <2>4, <2>5, Zenon DEF Dequeued, Enqueued
  <2>7. e.linked = s.linked
    BY <1>4, <2>2, <2>4, <2>5 DEF Dequeued, Enqueued
  <2>8. /\ e \in SchedRecord
        /\ e.state = s.state /\ e.priority = s.priority
        /\ e.timeslice = [s.timeslice EXCEPT ![t] = TimeSlice]
        /\ e.current = s.current /\ e.next = s.next /\ e.in_irq = s.in_irq
    BY <2>2, <2>4, <2>5, Zenon DEF Dequeued, Enqueued
  <2>9. Sound(e) /\ Ready(e)
    BY <2>5, <2>7, <2>8 DEF Steady, Sound, Ready
  <2>10. Sliced(e)
    BY <1>1, <1>2, <2>7, <2>8, SchedAssumption DEF Sliced
  <2>11. Steady(e)
    BY <2>7, <2>8, <2>9, <2>10 DEF Steady
  <2> QED BY <2>1, <2>6, <2>7, <2>8, <2>11 DEF PrioritySet
<1>5. CASE s.effective_priority[t] # p /\ t \notin s.linked
  <2> DEFINE u == [s EXCEPT !.effective_priority[t] = p]
  <2>1. SetEffectivePriority(s, t, p) = u
    BY <1>5 DEF SetEffectivePriority
  <2>2. /\ u \in SchedRecord /\ QueuedOnce(u) /\ BitmapExact(u)
        /\ u.effective_priority = [s.effective_priority EXCEPT ![t] = p]
        /\ u.state = s.state /\ u.priority = s.priority
        /\ u.timeslice = s.timeslice /\ u.linked = s.linked
        /\ u.current = s.current /\ u.next = s.next /\ u.in_irq = s.in_irq
    BY <1>1, <1>5, StoreEffective
  <2> HIDE DEF u
  <2>3. Steady(u)
    BY <2>2 DEF Steady, Sound, Ready, Sliced
  <2> QED BY <2>1, <2>2, <2>3 DEF PrioritySet
<1> QED BY <1>3, <1>4, <1>5

\* The priority a thread was given is not part of the run queue.
LEMMA StorePriority ==
    ASSUME NEW s, Steady(s), NEW t \in Task, NEW p \in Prio
    PROVE  LET u == [s EXCEPT !.priority[t] = p]
           IN  /\ Steady(u)
               /\ u.priority = [s.priority EXCEPT ![t] = p]
               /\ u.effective_priority = s.effective_priority
               /\ u.state = s.state /\ u.linked = s.linked
               /\ u.current = s.current /\ u.next = s.next /\ u.in_irq = s.in_irq
<1> DEFINE f == [s.priority EXCEPT ![t] = p]
           u == [s EXCEPT !.priority = f]
<1>1. s \in SchedRecord
  BY DEF Steady, Sound
<1>2. f \in [Task -> Prio]
  BY <1>1 DEF SchedRecord
<1>3. u = [s EXCEPT !.priority[t] = p]
  OBVIOUS
<1> HIDE DEF f
<1>4. /\ u \in SchedRecord
      /\ u.priority = f
      /\ u.effective_priority = s.effective_priority
      /\ u.state = s.state /\ u.timeslice = s.timeslice /\ u.linked = s.linked
      /\ u.current = s.current /\ u.next = s.next /\ u.in_irq = s.in_irq
      /\ u.level = s.level /\ u.bitmap = s.bitmap
  BY <1>1, <1>2 DEF SchedRecord
<1> HIDE DEF u
<1>5. QueuedOnce(u) /\ BitmapExact(u)
  BY <1>4, SameQueue DEF Steady, Sound
<1>6. Steady(u)
  BY <1>4, <1>5 DEF Steady, Sound, Ready, Sliced
<1> QED BY <1>3, <1>4, <1>6, Zenon DEF f

-----------------------------------------------------------------------------
(***************************************************************************)
(* The inherited priority.                                                 *)
(***************************************************************************)
\* It is a priority, no lower than the thread's own and those of its waiters,
\* and one of them.
LEMMA InheritedIsMax ==
    ASSUME NEW s \in SchedRecord, NEW t \in Task, NEW mutexes, NEW queue
    PROVE  LET v == InheritedPriority(s, t, mutexes, queue)
           IN  /\ v \in Prio
               /\ s.priority[t] <= v
               /\ \A w \in Waiters(mutexes, queue) : s.effective_priority[w] <= v
               /\ \/ v = s.priority[t]
                  \/ \E w \in Waiters(mutexes, queue) : v = s.effective_priority[w]
<1> DEFINE X == {s.priority[t]}
                  \cup {s.effective_priority[w] : w \in Waiters(mutexes, queue)}
<1>1. X \in SUBSET (0..MaxPrio) /\ X # {}
  <2>1. s.priority \in [Task -> 0..MaxPrio] /\ s.effective_priority \in [Task -> 0..MaxPrio]
    BY DEF SchedRecord, Prio
  <2>2. \A w \in Waiters(mutexes, queue) : w \in Task
    BY DEF Waiters, Task
  <2> QED BY <2>1, <2>2
<1>2. Max(X) \in X /\ \A x \in X : x <= Max(X)
  BY <1>1, MaxOfSet, SchedAssumption
<1>3. InheritedPriority(s, t, mutexes, queue) = Max(X)
  BY DEF InheritedPriority
<1>4. Max(X) \in Prio
  BY <1>1, <1>2 DEF Prio
<1>5. \/ Max(X) = s.priority[t]
      \/ \E w \in Waiters(mutexes, queue) : Max(X) = s.effective_priority[w]
  BY <1>2
<1>6. s.priority[t] \in X /\ \A w \in Waiters(mutexes, queue) : s.effective_priority[w] \in X
  OBVIOUS
<1> HIDE DEF X
<1> QED BY <1>2, <1>3, <1>4, <1>5, <1>6

\* It is determined by the thread's own priority and by the effective
\* priorities of those who wait.
LEMMA InheritedSame ==
    ASSUME NEW s, NEW u, NEW t, NEW mutexes, NEW queue,
           u.priority[t] = s.priority[t],
           \A w \in Waiters(mutexes, queue) :
               u.effective_priority[w] = s.effective_priority[w]
    PROVE  InheritedPriority(u, t, mutexes, queue) = InheritedPriority(s, t, mutexes, queue)
<1> DEFINE W == Waiters(mutexes, queue)
<1>1. {u.effective_priority[w] : w \in W} = {s.effective_priority[w] : w \in W}
  OBVIOUS
<1> HIDE DEF W
<1> QED BY <1>1 DEF InheritedPriority, W

-----------------------------------------------------------------------------
(***************************************************************************)
(* The records of owners and waiters.                                      *)
(***************************************************************************)
\* The places at which a thread neither waits for a mutex nor walks.
Outside(label) ==
    label \notin {"none", "lock_spread", "lock_try", "setprio_spread", "fault"}

\* Own() makes the current thread the owner, once, and changes no other mutex.
LEMMA OwnEffect ==
    ASSUME MutexTypeOK, Current \in Thread, NEW m \in Mutex, Own(m)
    PROVE  /\ owner' \in [Mutex -> Thread \cup {NULL}]
           /\ recursive_count' \in [Mutex -> Nat]
           /\ mutex_queue' \in [Task -> SUBSET Mutex]
           /\ held' \in [Thread -> [Mutex -> Nat]]
           /\ \A x \in Mutex :
                 /\ owner'[x] = IF x = m THEN Current ELSE owner[x]
                 /\ recursive_count'[x] = IF x = m THEN 1 ELSE recursive_count[x]
           /\ \A t \in Thread, x \in Mutex :
                 /\ x \in mutex_queue'[t] <=> x \in mutex_queue[t] \/ (t = Current /\ x = m)
                 /\ held'[t][x] = IF t = Current /\ x = m THEN 1 ELSE held[t][x]
<1>1. Current \in Task /\ Thread \subseteq Task
  BY DEF Task
<1>2. /\ owner' \in [Mutex -> Thread \cup {NULL}]
      /\ recursive_count' \in [Mutex -> Nat]
      /\ \A x \in Mutex :
            /\ owner'[x] = IF x = m THEN Current ELSE owner[x]
            /\ recursive_count'[x] = IF x = m THEN 1 ELSE recursive_count[x]
  BY DEF MutexTypeOK, Own
<1>3. /\ mutex_queue' \in [Task -> SUBSET Mutex]
      /\ \A t \in Thread, x \in Mutex :
            x \in mutex_queue'[t] <=> x \in mutex_queue[t] \/ (t = Current /\ x = m)
  BY <1>1 DEF MutexTypeOK, Own
<1>4. /\ held' \in [Thread -> [Mutex -> Nat]]
      /\ \A t \in Thread, x \in Mutex :
            held'[t][x] = IF t = Current /\ x = m THEN 1 ELSE held[t][x]
  BY DEF MutexTypeOK, Own, Counts
<1> QED BY <1>2, <1>3, <1>4

\* A new count of the locks of one mutex.
LEMMA CountEffect ==
    ASSUME MutexTypeOK, NEW c \in Thread, NEW m \in Mutex, NEW n \in Nat, Counts(c, m, n)
    PROVE  /\ held' \in [Thread -> [Mutex -> Nat]]
           /\ \A t \in Thread, x \in Mutex :
                 held'[t][x] = IF t = c /\ x = m THEN n ELSE held[t][x]
BY DEF MutexTypeOK, Counts

\* The current thread moves to another place of its own code.
LEMMA GotoEffect ==
    ASSUME KernelInv, Current \in Thread, NEW label, Goto(label)
    PROVE  \A t \in Thread : pc'[t] = IF t = Current THEN label ELSE pc[t]
BY DEF KernelInv, Goto, Task

\* OwnershipOK, for one mutex.
Consistent(m) ==
    /\ \A t \in Thread :
          /\ owner[m] = t <=> m \in mutex_queue[t]
          /\ sleep_on[t] = m <=> InQueue(wq[m], t)
          /\ held[t][m] = IF owner[m] = t THEN recursive_count[m] ELSE 0
    /\ owner[m] = NULL <=> lock[m] = 1
    /\ owner[m] = NULL <=> recursive_count[m] = 0
    /\ Distinct(wq[m])

\* Nothing that is recorded about m changes.
SameMutex(m) ==
    /\ owner'[m] = owner[m] /\ lock'[m] = lock[m]
    /\ recursive_count'[m] = recursive_count[m] /\ wq'[m] = wq[m]
    /\ \A t \in Thread :
          /\ m \in mutex_queue'[t] <=> m \in mutex_queue[t]
          /\ sleep_on'[t] = m <=> sleep_on[t] = m
          /\ held'[t][m] = held[t][m]

\* The records of each mutex can be looked at on their own.
LEMMA EachConsistent == OwnershipOK <=> \A m \in Mutex : Consistent(m)
BY DEF OwnershipOK, Consistent, Distinct

\* A step that touches one mutex leaves the records of the others consistent.
LEMMA OneMutex ==
    ASSUME OwnershipOK, NEW m \in Mutex, Consistent(m)',
           \A x \in Mutex \ {m} : SameMutex(x)
    PROVE  OwnershipOK'
<1>1. \A x \in Mutex : Consistent(x)
  BY EachConsistent
<1>2. ASSUME NEW x \in Mutex PROVE Consistent(x)'
  <2>1. CASE x = m
    BY <2>1
  <2>2. CASE x # m
    BY <1>1, <2>2 DEF SameMutex, Consistent, Distinct
  <2> QED BY <2>1, <2>2
<1>3. (\A x \in Mutex : Consistent(x))'
  BY <1>2
<1> QED BY <1>3 DEF OwnershipOK, Consistent, Distinct

\* The places of the waiters after a step outside a walk, which moves only the
\* current thread and may switch to another one.
LEMMA CalmPlaces ==
    ASSUME KernelInv', WaitPlaces, ~Walking, Current \in Thread,
           NEW label, label \notin {"none", "lock_spread", "setprio_spread", "fault"},
           \A t \in Thread : pc'[t] = IF t = Current THEN label ELSE pc[t],
           cursor' = cursor,
           \A t \in Thread \ {Current} :
               sleep_on'[t] = sleep_on[t] /\ mutex_queue'[t] = mutex_queue[t],
           sleep_on'[Current] # NULL <=> label = "lock_try"
    PROVE  WaitPlaces'
<1>1. \A t \in Thread : pc'[t] \notin {"lock_spread", "setprio_spread", "fault"}
  BY DEF WaitPlaces, Walking
<1>2. pc'[Current'] \notin {"lock_spread", "setprio_spread", "fault"}
  <2>1. Current' \in Thread \/ Current' = Idle
    BY DEF KernelInv, Steady, Sound, SchedRecord, Current, Task
  <2> QED BY <1>1, <2>1 DEF KernelInv, PlacesOK
<1>3. \A t \in Thread :
          /\ sleep_on'[t] # NULL => pc'[t] \in {"lock_spread", "lock_try", "fault"}
          /\ pc'[t] \in {"lock_spread", "lock_try"} => sleep_on'[t] # NULL
          /\ pc'[t] = "none" => sleep_on'[t] = NULL /\ mutex_queue'[t] = {}
  BY DEF WaitPlaces
<1>4. cursor' # NULL <=> Walking'
  BY <1>2 DEF WaitPlaces, Walking
<1> QED BY <1>1, <1>2, <1>3, <1>4 DEF WaitPlaces

\* Ranks are kept when nobody starts to wait and no waiter comes to hold more.
LEMMA SameRanks ==
    ASSUME RanksOK,
           \A t \in Thread : sleep_on'[t] # NULL =>
               sleep_on'[t] = sleep_on[t] /\ \A h \in Mutex : held'[t][h] > 0 => held[t][h] > 0
    PROVE  RanksOK'
BY DEF RanksOK, Holds

\* Taking a free mutex, past those that wait for it, keeps the records.
LEMMA TakeFreeStruct ==
    ASSUME KernelInv, KernelInv', StructInv, Current \in Thread, Outside(pc[Current]),
           NEW m \in Mutex, TakeFree(m)
    PROVE  StructInv'
<1>1. /\ lock[m] = 1 /\ lock' = [lock EXCEPT ![m] = 0]
      /\ Own(m) /\ Goto("user")
      /\ stale' = stale \cup (IF PassesOver(m) THEN {"passed"} ELSE {})
      /\ sched' = sched /\ wq' = wq /\ sleep_on' = sleep_on /\ cursor' = cursor
      /\ Current' = Current
  BY DEF TakeFree, Current
<1>2. MutexTypeOK /\ OwnershipOK /\ WaitPlaces /\ RanksOK
  BY DEF StructInv
<1>3. /\ owner' \in [Mutex -> Thread \cup {NULL}]
      /\ recursive_count' \in [Mutex -> Nat]
      /\ mutex_queue' \in [Task -> SUBSET Mutex]
      /\ held' \in [Thread -> [Mutex -> Nat]]
      /\ \A x \in Mutex :
            /\ owner'[x] = IF x = m THEN Current ELSE owner[x]
            /\ recursive_count'[x] = IF x = m THEN 1 ELSE recursive_count[x]
      /\ \A t \in Thread, x \in Mutex :
            /\ x \in mutex_queue'[t] <=> x \in mutex_queue[t] \/ (t = Current /\ x = m)
            /\ held'[t][x] = IF t = Current /\ x = m THEN 1 ELSE held[t][x]
  BY <1>1, <1>2, OwnEffect
<1>4. /\ lock' \in [Mutex -> {1, 0, -1}]
      /\ \A x \in Mutex : lock'[x] = IF x = m THEN 0 ELSE lock[x]
  BY <1>1, <1>2 DEF MutexTypeOK
<1>5. \A t \in Thread : pc'[t] = IF t = Current THEN "user" ELSE pc[t]
  BY <1>1, GotoEffect
<1>6. owner[m] = NULL /\ \A t \in Thread : t # NULL
  BY <1>1, <1>2, SchedAssumption DEF OwnershipOK
<1>7. MutexTypeOK'
  BY <1>1, <1>2, <1>3, <1>4 DEF MutexTypeOK
<1>8. OwnershipOK'
  <2>1. Consistent(m)
    BY <1>2, EachConsistent
  <2>2. Consistent(m)'
    <3>1. \A t \in Thread : m \notin mutex_queue[t] /\ held[t][m] = 0
      BY <1>6, <2>1 DEF Consistent
    <3>2. owner'[m] = Current /\ recursive_count'[m] = 1 /\ lock'[m] = 0 /\ Current # NULL
      BY <1>3, <1>4, <1>6
    <3>3. \A t \in Thread : owner'[m] = t <=> m \in mutex_queue'[t]
      BY <1>3, <3>1, <3>2
    <3>4. \A t \in Thread : held'[t][m] = IF owner'[m] = t THEN recursive_count'[m] ELSE 0
      BY <1>3, <3>1, <3>2
    <3> QED BY <1>1, <2>1, <3>2, <3>3, <3>4 DEF Consistent
  <2>3. \A x \in Mutex \ {m} : SameMutex(x)
    BY <1>1, <1>3, <1>4 DEF SameMutex
  <2> QED BY <1>2, <2>2, <2>3, OneMutex
<1>9. sleep_on[Current] = NULL /\ ~Walking
  BY <1>2 DEF WaitPlaces, Outside, Walking
<1>10. WaitPlaces'
  <2>1. \A x \in Thread \ {Current} : mutex_queue'[x] = mutex_queue[x]
    BY <1>1, <1>2 DEF Own, MutexTypeOK, Task
  <2> QED BY <1>1, <1>2, <1>5, <1>9, <2>1, CalmPlaces
<1>11. RanksOK'
  BY <1>1, <1>2, <1>3, <1>9, SameRanks
<1> QED BY <1>7, <1>8, <1>10, <1>11 DEF StructInv

\* So does locking a recursive mutex again.
LEMMA TakeAgainStruct ==
    ASSUME KernelInv, KernelInv', StructInv, Current \in Thread, Outside(pc[Current]),
           NEW m \in Mutex, TakeAgain(m)
    PROVE  StructInv'
<1>1. /\ owner[m] = Current
      /\ recursive_count' = [recursive_count EXCEPT ![m] = @ + 1]
      /\ Counts(Current, m, held[Current][m] + 1)
      /\ Goto("user")
      /\ lock' = lock /\ owner' = owner /\ wq' = wq /\ sleep_on' = sleep_on
      /\ mutex_queue' = mutex_queue /\ cursor' = cursor /\ stale' = stale
  BY DEF TakeAgain
<1>2. MutexTypeOK /\ OwnershipOK /\ WaitPlaces /\ RanksOK
  BY DEF StructInv
<1>3. /\ recursive_count' \in [Mutex -> Nat]
      /\ \A x \in Mutex : recursive_count'[x] = IF x = m THEN recursive_count[m] + 1
                                                         ELSE recursive_count[x]
      /\ recursive_count[m] \in Nat
  BY <1>1, <1>2 DEF MutexTypeOK
<1>4. Consistent(m) /\ held[Current][m] = recursive_count[m] /\ recursive_count[m] # 0
  BY <1>1, <1>2, EachConsistent, SchedAssumption DEF Consistent
<1>5. /\ held' \in [Thread -> [Mutex -> Nat]]
      /\ \A t \in Thread, x \in Mutex :
            held'[t][x] = IF t = Current /\ x = m THEN recursive_count[m] + 1 ELSE held[t][x]
  BY <1>1, <1>2, <1>3, <1>4, CountEffect
<1>6. \A t \in Thread : pc'[t] = IF t = Current THEN "user" ELSE pc[t]
  BY <1>1, GotoEffect
<1>7. MutexTypeOK'
  BY <1>1, <1>2, <1>3, <1>5 DEF MutexTypeOK
<1>8. OwnershipOK'
  <2>1. Consistent(m)'
    <3>1. \A t \in Thread : held'[t][m] = IF owner[m] = t THEN recursive_count[m] + 1 ELSE 0
      BY <1>1, <1>4, <1>5 DEF Consistent
    <3>2. owner[m] # NULL /\ recursive_count'[m] = recursive_count[m] + 1
      BY <1>1, <1>3, SchedAssumption
    <3>3. recursive_count'[m] # 0
      BY <1>3, <3>2
    <3> QED BY <1>1, <1>4, <3>1, <3>2, <3>3, Zenon DEF Consistent, Distinct
  <2>2. \A x \in Mutex \ {m} : SameMutex(x)
    BY <1>1, <1>3, <1>5 DEF SameMutex
  <2> QED BY <1>2, <2>1, <2>2, OneMutex
<1>9. sleep_on[Current] = NULL /\ ~Walking
  BY <1>2 DEF WaitPlaces, Outside, Walking
<1>10. WaitPlaces'
  BY <1>1, <1>2, <1>6, <1>9, CalmPlaces
<1>11. RanksOK'
  BY <1>1, <1>2, <1>5, <1>9, SameRanks
<1> QED BY <1>7, <1>8, <1>10, <1>11 DEF StructInv

\* Queueing up for a taken mutex starts a walk.
LEMMA ContendStruct ==
    ASSUME KernelInv, StructInv, Current \in Thread, Outside(pc[Current]),
           NEW m \in Mutex, Contend(m), \A h \in Holds(Current) : Rank[h] < Rank[m]
    PROVE  StructInv'
<1>1. /\ lock[m] # 1
      /\ wq' = [wq EXCEPT ![m] = TAILQ_INSERT_TAIL(@, Current)]
      /\ sleep_on' = [sleep_on EXCEPT ![Current] = m]
      /\ cursor' = Current
      /\ Goto("lock_spread")
      /\ lock' = lock /\ owner' = owner /\ recursive_count' = recursive_count
      /\ mutex_queue' = mutex_queue /\ held' = held /\ stale' = stale
      /\ sched' = sched /\ Current' = Current
  BY DEF Contend, Current
<1>2. MutexTypeOK /\ OwnershipOK /\ WaitPlaces /\ RanksOK
  BY DEF StructInv
<1>3. sleep_on[Current] = NULL /\ ~Walking /\ m # NULL /\ Current # NULL
  BY <1>2, SchedAssumption, MutexAssumption DEF WaitPlaces, Outside, Walking
<1>4. \A t \in Thread : pc'[t] = IF t = Current THEN "lock_spread" ELSE pc[t]
  BY <1>1, GotoEffect
<1>5. /\ sleep_on' \in [Task -> Mutex \cup {NULL}]
      /\ \A t \in Thread : sleep_on'[t] = IF t = Current THEN m ELSE sleep_on[t]
  BY <1>1, <1>2 DEF MutexTypeOK, Task
<1>6. wq[m] \in Seq(Thread) /\ Consistent(m) /\ ~InQueue(wq[m], Current)
  BY <1>2, <1>3, EachConsistent DEF MutexTypeOK, Consistent
<1>7. /\ wq' \in [Mutex -> Seq(Thread)]
      /\ \A x \in Mutex : x # m => wq'[x] = wq[x]
      /\ Distinct(wq'[m])
      /\ \A t : InQueue(wq'[m], t) <=> InQueue(wq[m], t) \/ t = Current
  <2> DEFINE r == TAILQ_INSERT_TAIL(wq[m], Current)
  <2>1. r \in Seq(Thread) /\ Distinct(r)
        /\ \A t : InQueue(r, t) <=> InQueue(wq[m], t) \/ t = Current
    BY <1>6, JoinQueue DEF Consistent
  <2>2. wq' = [wq EXCEPT ![m] = r]
    BY <1>1
  <2> HIDE DEF r
  <2>3. /\ wq' \in [Mutex -> Seq(Thread)]
        /\ \A x \in Mutex : x # m => wq'[x] = wq[x]
        /\ wq'[m] = r
    BY <1>2, <2>1, <2>2 DEF MutexTypeOK
  <2> QED BY <2>1, <2>3
<1>8. MutexTypeOK'
  BY <1>1, <1>2, <1>5, <1>7 DEF MutexTypeOK
<1>9. OwnershipOK'
  <2>1. Consistent(m)'
    BY <1>1, <1>3, <1>5, <1>6, <1>7 DEF Consistent
  <2>2. \A x \in Mutex \ {m} : SameMutex(x)
    BY <1>1, <1>3, <1>5, <1>7, MutexAssumption DEF SameMutex
  <2> QED BY <1>2, <2>1, <2>2, OneMutex
<1>10. WaitPlaces'
  BY <1>1, <1>2, <1>3, <1>4, <1>5 DEF WaitPlaces, Walking
<1>11. RanksOK'
  <2>1. ASSUME NEW t \in Thread, sleep_on'[t] # NULL, NEW h \in Holds(t)'
        PROVE  Rank[h] < Rank[sleep_on'[t]]
    <3>1. h \in Holds(t)
      BY <1>1, <2>1 DEF Holds
    <3> QED BY <1>2, <1>5, <2>1, <3>1 DEF RanksOK
  <2> QED BY <2>1 DEF RanksOK
<1> QED BY <1>8, <1>9, <1>10, <1>11 DEF StructInv

\* The winner leaves the wait queue and becomes the owner.
LEMMA WinStruct ==
    ASSUME KernelInv, KernelInv', StructInv, Current \in Thread,
           NEW m \in Mutex, lock_win(m)
    PROVE  StructInv'
<1> DEFINE q == TAILQ_REMOVE(wq[m], Current)
<1>1. /\ pc[Current] = "lock_try" /\ sleep_on[Current] = m /\ lock[m] = 1
      /\ wq' = [wq EXCEPT ![m] = q]
      /\ lock' = [lock EXCEPT ![m] = LockAfterWin(q)]
      /\ sleep_on' = [sleep_on EXCEPT ![Current] = NULL]
      /\ Own(m) /\ Goto("user")
      /\ cursor' = cursor /\ stale' = stale
  BY DEF lock_win, At
<1>2. MutexTypeOK /\ OwnershipOK /\ WaitPlaces /\ RanksOK
  BY DEF StructInv
<1>3. /\ owner' \in [Mutex -> Thread \cup {NULL}]
      /\ recursive_count' \in [Mutex -> Nat]
      /\ mutex_queue' \in [Task -> SUBSET Mutex]
      /\ held' \in [Thread -> [Mutex -> Nat]]
      /\ \A x \in Mutex :
            /\ owner'[x] = IF x = m THEN Current ELSE owner[x]
            /\ recursive_count'[x] = IF x = m THEN 1 ELSE recursive_count[x]
      /\ \A t \in Thread, x \in Mutex :
            /\ x \in mutex_queue'[t] <=> x \in mutex_queue[t] \/ (t = Current /\ x = m)
            /\ held'[t][x] = IF t = Current /\ x = m THEN 1 ELSE held[t][x]
  BY <1>1, <1>2, OwnEffect
<1>4. Consistent(m) /\ wq[m] \in Seq(Thread) /\ m # NULL /\ Current # NULL
  BY <1>2, EachConsistent, SchedAssumption, MutexAssumption DEF MutexTypeOK
<1>5. /\ q \in Seq(Thread) /\ Distinct(q)
      /\ \A t : InQueue(q, t) <=> InQueue(wq[m], t) /\ t # Current
  BY <1>4, LeaveQueue DEF Consistent
<1> HIDE DEF q
<1>6. /\ wq' \in [Mutex -> Seq(Thread)]
      /\ wq'[m] = q
      /\ \A x \in Mutex : x # m => wq'[x] = wq[x]
      /\ lock' \in [Mutex -> {1, 0, -1}]
      /\ lock'[m] # 1
      /\ \A x \in Mutex : x # m => lock'[x] = lock[x]
  <2>1. LockAfterWin(q) \in {0, -1}
    BY DEF LockAfterWin
  <2> QED BY <1>1, <1>2, <1>5, <2>1 DEF MutexTypeOK
<1>7. /\ sleep_on' \in [Task -> Mutex \cup {NULL}]
      /\ \A t \in Thread : sleep_on'[t] = IF t = Current THEN NULL ELSE sleep_on[t]
  BY <1>1, <1>2 DEF MutexTypeOK, Task
<1>8. \A t \in Thread : pc'[t] = IF t = Current THEN "user" ELSE pc[t]
  BY <1>1, GotoEffect
<1>9. MutexTypeOK'
  BY <1>1, <1>2, <1>3, <1>6, <1>7 DEF MutexTypeOK
<1>10. OwnershipOK'
  <2>1. Consistent(m)'
    <3>1. owner[m] = NULL /\ \A t \in Thread : m \notin mutex_queue[t] /\ held[t][m] = 0
      BY <1>1, <1>4, SchedAssumption DEF Consistent
    <3>2. owner'[m] = Current /\ recursive_count'[m] = 1
      BY <1>3
    <3>3. \A t \in Thread : owner'[m] = t <=> m \in mutex_queue'[t]
      BY <1>3, <3>1, <3>2
    <3>4. \A t \in Thread : held'[t][m] = IF owner'[m] = t THEN recursive_count'[m] ELSE 0
      BY <1>3, <3>1, <3>2
    <3>5. \A t \in Thread : sleep_on'[t] = m <=> InQueue(wq'[m], t)
      BY <1>4, <1>5, <1>6, <1>7 DEF Consistent
    <3> QED BY <1>4, <1>5, <1>6, <3>2, <3>3, <3>4, <3>5 DEF Consistent
  <2>2. \A x \in Mutex \ {m} : SameMutex(x)
    BY <1>1, <1>3, <1>6, <1>7, MutexAssumption DEF SameMutex
  <2> QED BY <1>2, <2>1, <2>2, OneMutex
<1>11. WaitPlaces'
  <2>1. ~Walking
    BY <1>1 DEF Walking
  <2>2. \A x \in Thread \ {Current} : mutex_queue'[x] = mutex_queue[x]
    BY <1>1, <1>2 DEF Own, MutexTypeOK, Task
  <2> QED BY <1>1, <1>2, <1>7, <1>8, <2>1, <2>2, CalmPlaces
<1>12. RanksOK'
  BY <1>2, <1>3, <1>7, SameRanks
<1> QED BY <1>9, <1>10, <1>11, <1>12 DEF StructInv

\* What the current thread holds, it owns.
LEMMA HolderOwns ==
    ASSUME StructInv, Current \in Thread, NEW m \in Mutex, m \in Holds(Current)
    PROVE  /\ owner[m] = Current /\ Current # NULL
           /\ held[Current][m] = recursive_count[m]
           /\ recursive_count[m] \in Nat /\ recursive_count[m] # 0
<1>1. MutexTypeOK /\ Consistent(m)
  BY EachConsistent DEF StructInv
<1>2. held[Current][m] > 0 /\ held[Current][m] \in Nat
  BY <1>1 DEF Holds, MutexTypeOK
<1> QED BY <1>1, <1>2, SchedAssumption DEF Consistent, MutexTypeOK

\* An unlock that leaves a recursive mutex locked.
LEMMA CountDownStruct ==
    ASSUME KernelInv, KernelInv', StructInv, Current \in Thread, Outside(pc[Current]),
           NEW m \in Mutex, CountDown(m),
           NEW label, Outside(label), Goto(label)
    PROVE  StructInv'
<1>1. /\ m \in Holds(Current) /\ recursive_count[m] # 1
      /\ recursive_count' = [recursive_count EXCEPT ![m] = @ - 1]
      /\ Counts(Current, m, held[Current][m] - 1)
      /\ lock' = lock /\ owner' = owner /\ wq' = wq /\ sleep_on' = sleep_on
      /\ mutex_queue' = mutex_queue /\ cursor' = cursor /\ stale' = stale
  BY DEF CountDown
<1>2. MutexTypeOK /\ OwnershipOK /\ WaitPlaces /\ RanksOK /\ Consistent(m)
  BY EachConsistent DEF StructInv
<1>3. /\ owner[m] = Current /\ Current # NULL
      /\ held[Current][m] = recursive_count[m]
      /\ recursive_count[m] - 1 \in Nat /\ recursive_count[m] - 1 # 0
      /\ recursive_count[m] \in Nat /\ recursive_count[m] # 0
  BY <1>1, HolderOwns
<1>4. /\ recursive_count' \in [Mutex -> Nat]
      /\ \A x \in Mutex : recursive_count'[x] = IF x = m THEN recursive_count[m] - 1
                                                         ELSE recursive_count[x]
  BY <1>1, <1>2, <1>3 DEF MutexTypeOK
<1>5. /\ held' \in [Thread -> [Mutex -> Nat]]
      /\ \A t \in Thread, x \in Mutex :
            held'[t][x] = IF t = Current /\ x = m THEN recursive_count[m] - 1 ELSE held[t][x]
  BY <1>1, <1>2, <1>3, CountEffect
<1>6. \A t \in Thread : pc'[t] = IF t = Current THEN label ELSE pc[t]
  BY GotoEffect
<1>7. MutexTypeOK'
  BY <1>1, <1>2, <1>4, <1>5 DEF MutexTypeOK
<1>8. OwnershipOK'
  <2>1. Consistent(m)'
    <3>1. \A t \in Thread : held'[t][m] = IF owner[m] = t THEN recursive_count[m] - 1 ELSE 0
      BY <1>2, <1>3, <1>5 DEF Consistent
    <3>2. recursive_count'[m] = recursive_count[m] - 1 /\ recursive_count'[m] # 0
      BY <1>3, <1>4
    <3> QED BY <1>1, <1>2, <1>3, <3>1, <3>2, Zenon DEF Consistent, Distinct
  <2>2. \A x \in Mutex \ {m} : SameMutex(x)
    BY <1>1, <1>4, <1>5 DEF SameMutex
  <2> QED BY <1>2, <2>1, <2>2, OneMutex
<1>9. sleep_on[Current] = NULL /\ ~Walking
  BY <1>2 DEF WaitPlaces, Outside, Walking
<1>10. WaitPlaces'
  BY <1>1, <1>2, <1>6, <1>9, CalmPlaces DEF Outside
<1>11. RanksOK'
  BY <1>1, <1>2, <1>5, <1>9, SameRanks
<1> QED BY <1>7, <1>8, <1>10, <1>11 DEF StructInv

\* The last unlock leaves the mutex without an owner.
LEMMA ReleaseStruct ==
    ASSUME KernelInv, KernelInv', StructInv, Current \in Thread, Outside(pc[Current]),
           NEW m \in Mutex, Release(m),
           NEW label, Outside(label), Goto(label)
    PROVE  StructInv'
<1>1. /\ m \in Holds(Current) /\ recursive_count[m] = 1
      /\ recursive_count' = [recursive_count EXCEPT ![m] = 0]
      /\ mutex_queue' = [mutex_queue EXCEPT ![Current] = @ \ {m}]
      /\ owner' = [owner EXCEPT ![m] = NULL]
      /\ lock' = [lock EXCEPT ![m] = 1]
      /\ Counts(Current, m, 0)
      /\ wq' = wq /\ sleep_on' = sleep_on /\ cursor' = cursor /\ stale' = stale
  BY DEF Release
<1>2. MutexTypeOK /\ OwnershipOK /\ WaitPlaces /\ RanksOK /\ Consistent(m)
  BY EachConsistent DEF StructInv
<1>3. owner[m] = Current /\ Current # NULL
  BY <1>1, HolderOwns
<1>4. /\ owner' \in [Mutex -> Thread \cup {NULL}]
      /\ recursive_count' \in [Mutex -> Nat]
      /\ lock' \in [Mutex -> {1, 0, -1}]
      /\ \A x \in Mutex :
            /\ owner'[x] = IF x = m THEN NULL ELSE owner[x]
            /\ recursive_count'[x] = IF x = m THEN 0 ELSE recursive_count[x]
            /\ lock'[x] = IF x = m THEN 1 ELSE lock[x]
  BY <1>1, <1>2 DEF MutexTypeOK
<1>5. /\ mutex_queue' \in [Task -> SUBSET Mutex]
      /\ \A t \in Thread, x \in Mutex :
            x \in mutex_queue'[t] <=> x \in mutex_queue[t] /\ ~(t = Current /\ x = m)
      /\ \A t \in Thread : t # Current => mutex_queue'[t] = mutex_queue[t]
  BY <1>1, <1>2 DEF MutexTypeOK, Task
<1>6. /\ held' \in [Thread -> [Mutex -> Nat]]
      /\ \A t \in Thread, x \in Mutex :
            held'[t][x] = IF t = Current /\ x = m THEN 0 ELSE held[t][x]
  BY <1>1, <1>2, CountEffect
<1>7. \A t \in Thread : pc'[t] = IF t = Current THEN label ELSE pc[t]
  BY GotoEffect
<1>8. MutexTypeOK'
  BY <1>1, <1>2, <1>4, <1>5, <1>6 DEF MutexTypeOK
<1>9. OwnershipOK'
  <2>1. Consistent(m)'
    <3>1. owner'[m] = NULL /\ recursive_count'[m] = 0 /\ lock'[m] = 1
      BY <1>4
    <3>2. \A t \in Thread : t # NULL /\ m \notin mutex_queue'[t] /\ held'[t][m] = 0
      BY <1>2, <1>3, <1>5, <1>6, SchedAssumption DEF Consistent
    <3> QED BY <1>1, <1>2, <3>1, <3>2 DEF Consistent
  <2>2. \A x \in Mutex \ {m} : SameMutex(x)
    BY <1>1, <1>4, <1>5, <1>6 DEF SameMutex
  <2> QED BY <1>2, <2>1, <2>2, OneMutex
<1>10. sleep_on[Current] = NULL /\ ~Walking
  BY <1>2 DEF WaitPlaces, Outside, Walking
<1>11. WaitPlaces'
  BY <1>1, <1>2, <1>5, <1>7, <1>10, CalmPlaces DEF Outside
<1>12. RanksOK'
  BY <1>1, <1>2, <1>6, <1>10, SameRanks
<1> QED BY <1>8, <1>9, <1>11, <1>12 DEF StructInv

-----------------------------------------------------------------------------
(***************************************************************************)
(* Who waits for whom, and what that says of the inherited priorities.     *)
(***************************************************************************)
\* Thread w waits for a mutex that t owns.
WaitsFor(w, t) == sleep_on[w] # NULL /\ owner[sleep_on[w]] = t

\* The threads that __pthread_setschedprio() finds on the queues of a thread's
\* mutexes are those that wait for it; a thread is never one of its own.
LEMMA WaitersOf ==
    StructInv =>
        \A t \in Thread :
            /\ Waiters(mutex_queue[t], wq) = {w \in Thread : WaitsFor(w, t)}
            /\ ~WaitsFor(t, t)
<1> SUFFICES ASSUME StructInv, NEW t \in Thread
             PROVE  /\ Waiters(mutex_queue[t], wq) = {w \in Thread : WaitsFor(w, t)}
                    /\ ~WaitsFor(t, t)
  OBVIOUS
<1>1. MutexTypeOK /\ RanksOK /\ \A m \in Mutex : Consistent(m)
  BY EachConsistent DEF StructInv
<1>2. mutex_queue[t] \subseteq Mutex /\ t \in Task /\ Thread \subseteq Task
  BY <1>1 DEF MutexTypeOK, Task
<1>3. ASSUME NEW w \in Thread
      PROVE  (\E m \in mutex_queue[t] : InQueue(wq[m], w)) <=> WaitsFor(w, t)
  <2>1. sleep_on[w] \in Mutex \cup {NULL}
    BY <1>1, <1>2 DEF MutexTypeOK
  <2> QED BY <1>1, <1>2, <2>1, MutexAssumption DEF Consistent, WaitsFor
<1>4. ASSUME WaitsFor(t, t) PROVE FALSE
  <2>1. sleep_on[t] \in Mutex /\ owner[sleep_on[t]] = t /\ sleep_on[t] # NULL
    BY <1>1, <1>2, <1>4 DEF MutexTypeOK, WaitsFor
  <2> DEFINE m == sleep_on[t]
  <2>2. held[t][m] = recursive_count[m] /\ recursive_count[m] # 0 /\ recursive_count[m] \in Nat
    BY <1>1, <2>1, SchedAssumption DEF Consistent, MutexTypeOK
  <2>3. m \in Holds(t)
    BY <2>1, <2>2 DEF Holds
  <2>4. Rank[m] < Rank[m]
    BY <1>1, <2>1, <2>3 DEF RanksOK
  <2> QED BY <2>1, <2>4, MutexAssumption
<1> QED BY <1>3, <1>4 DEF Waiters

\* The inherited priority, by the threads that wait.
LEMMA InheritedBounds ==
    KernelInv /\ StructInv =>
        \A t \in Thread :
            /\ Inherited(t) \in Prio
            /\ sched.priority[t] \in Prio /\ sched.effective_priority[t] \in Prio
            /\ sched.priority[t] <= Inherited(t)
            /\ \A w \in Thread : WaitsFor(w, t) => sched.effective_priority[w] <= Inherited(t)
            /\ \/ Inherited(t) = sched.priority[t]
               \/ \E w \in Thread : WaitsFor(w, t) /\ Inherited(t) = sched.effective_priority[w]
<1> SUFFICES ASSUME KernelInv, StructInv, NEW t \in Thread
             PROVE  /\ Inherited(t) \in Prio
                    /\ sched.priority[t] \in Prio /\ sched.effective_priority[t] \in Prio
                    /\ sched.priority[t] <= Inherited(t)
                    /\ \A w \in Thread : WaitsFor(w, t) =>
                          sched.effective_priority[w] <= Inherited(t)
                    /\ \/ Inherited(t) = sched.priority[t]
                       \/ \E w \in Thread : WaitsFor(w, t)
                             /\ Inherited(t) = sched.effective_priority[w]
  OBVIOUS
<1>1. sched \in SchedRecord /\ t \in Task
  BY DEF KernelInv, Steady, Sound, Task
<1>2. sched.priority[t] \in Prio /\ sched.effective_priority[t] \in Prio
  BY <1>1 DEF SchedRecord
<1>3. Waiters(mutex_queue[t], wq) = {w \in Thread : WaitsFor(w, t)}
  BY WaitersOf
<1> DEFINE W == Waiters(mutex_queue[t], wq)
           v == InheritedPriority(sched, t, mutex_queue[t], wq)
<1>4. /\ v \in Prio
      /\ sched.priority[t] <= v
      /\ \A w \in W : sched.effective_priority[w] <= v
      /\ \/ v = sched.priority[t]
         \/ \E w \in W : v = sched.effective_priority[w]
  BY <1>1, InheritedIsMax
<1>5. Inherited(t) = v
  BY DEF Inherited
<1>6. \A w : w \in W <=> w \in Thread /\ WaitsFor(w, t)
  BY <1>3
<1> HIDE DEF W, v
<1> QED BY <1>2, <1>4, <1>5, <1>6

\* The same in the state after a step.
LEMMA InheritedBoundsAfter ==
    ASSUME KernelInv', StructInv'
    PROVE  \A t \in Thread :
               /\ Inherited(t)' \in Prio
               /\ sched'.priority[t] \in Prio /\ sched'.effective_priority[t] \in Prio
               /\ sched'.priority[t] <= Inherited(t)'
               /\ \A w \in Thread : WaitsFor(w, t)' =>
                     sched'.effective_priority[w] <= Inherited(t)'
               /\ \/ Inherited(t)' = sched'.priority[t]
                  \/ \E w \in Thread : WaitsFor(w, t)'
                        /\ Inherited(t)' = sched'.effective_priority[w]
<1>1. (KernelInv /\ StructInv =>
          \A t \in Thread :
              /\ Inherited(t) \in Prio
              /\ sched.priority[t] \in Prio /\ sched.effective_priority[t] \in Prio
              /\ sched.priority[t] <= Inherited(t)
              /\ \A w \in Thread : WaitsFor(w, t) => sched.effective_priority[w] <= Inherited(t)
              /\ \/ Inherited(t) = sched.priority[t]
                 \/ \E w \in Thread : WaitsFor(w, t)
                       /\ Inherited(t) = sched.effective_priority[w])'
  BY InheritedBounds, PTL
<1> QED BY <1>1

\* The inherited priority of a thread is kept by a step that keeps its own
\* priority, those who wait for it and their effective priorities.
LEMMA InheritedKept ==
    ASSUME KernelInv, StructInv, KernelInv', StructInv', NEW t \in Thread,
           sched'.priority[t] = sched.priority[t],
           \A w \in Thread : WaitsFor(w, t)' <=> WaitsFor(w, t),
           \A w \in Thread : WaitsFor(w, t) =>
               sched'.effective_priority[w] = sched.effective_priority[w]
    PROVE  Inherited(t)' = Inherited(t)
<1>1. /\ Inherited(t) \in Prio
      /\ sched.priority[t] <= Inherited(t)
      /\ \A w \in Thread : WaitsFor(w, t) => sched.effective_priority[w] <= Inherited(t)
      /\ \/ Inherited(t) = sched.priority[t]
         \/ \E w \in Thread : WaitsFor(w, t) /\ Inherited(t) = sched.effective_priority[w]
  BY InheritedBounds
<1>2. /\ Inherited(t)' \in Prio
      /\ sched'.priority[t] <= Inherited(t)'
      /\ \A w \in Thread : WaitsFor(w, t)' => sched'.effective_priority[w] <= Inherited(t)'
      /\ \/ Inherited(t)' = sched'.priority[t]
         \/ \E w \in Thread : WaitsFor(w, t)' /\ Inherited(t)' = sched'.effective_priority[w]
  BY InheritedBoundsAfter
<1>3. Inherited(t) \in Int /\ Inherited(t)' \in Int
  BY <1>1, <1>2 DEF Prio
<1>4. Inherited(t) <= Inherited(t)' /\ Inherited(t)' <= Inherited(t)
  BY <1>1, <1>2
<1> QED BY <1>3, <1>4

\* PriorityInv is kept by a step that changes the effective priority of one
\* thread c at most, if a walk is about to visit those who inherit from it.
LEMMA PriorityStep ==
    ASSUME KernelInv, StructInv, KernelInv', StructInv', PriorityInv,
           stale \subseteq stale', NEW c \in Thread,
           \A x \in Thread : x # c /\ "set" \notin stale' =>
               \/ Due(x)'
               \/ /\ ~Due(x)
                  /\ sched'.priority[x] = sched.priority[x]
                  /\ sched'.effective_priority[x] = sched.effective_priority[x]
                  /\ \A w \in Thread : WaitsFor(w, x)' <=> WaitsFor(w, x)
                  /\ \A w \in Thread : WaitsFor(w, x) =>
                        sched'.effective_priority[w] = sched.effective_priority[w],
           "set" \notin stale' =>
               \/ Due(c)'
               \/ /\ stale' = {} => sched'.effective_priority[c] = Inherited(c)'
                  /\ sched'.effective_priority[c] <= Inherited(c)'
    PROVE  PriorityInv'
<1>1. ASSUME NEW x \in Thread, x # c, "set" \notin stale'
      PROVE  /\ stale' = {} => Due(x)' \/ sched'.effective_priority[x] = Inherited(x)'
             /\ Due(x)' \/ sched'.effective_priority[x] <= Inherited(x)'
  <2>1. CASE Due(x)'
    BY <2>1
  <2>2. CASE ~Due(x)'
    <3>1. /\ ~Due(x)
          /\ sched'.effective_priority[x] = sched.effective_priority[x]
          /\ Inherited(x)' = Inherited(x)
      BY <1>1, <2>2, InheritedKept
    <3> QED BY <1>1, <3>1 DEF PriorityInv
  <2> QED BY <2>1, <2>2
<1>2. stale' = {} => "set" \notin stale'
  OBVIOUS
<1>3. \A x \in Thread : "set" \notin stale' =>
          /\ stale' = {} => Due(x)' \/ sched'.effective_priority[x] = Inherited(x)'
          /\ Due(x)' \/ sched'.effective_priority[x] <= Inherited(x)'
  BY <1>1
<1> QED BY <1>2, <1>3 DEF PriorityInv

-----------------------------------------------------------------------------
(***************************************************************************)
(* The steps of the mutexes, one by one.                                   *)
(***************************************************************************)
\* NoLostWakeup, for one mutex.
WakesUp(m) ==
    wq[m] # <<>> =>
        \/ lock[m] = -1 /\ owner[m] # NULL
        \/ \E i \in 1..Len(wq[m]) : sched.state[wq[m][i]] = "RUNNING"

\* A wake-up is not lost as long as nothing changes about the mutex and those
\* of its waiters that are awake stay so.
LEMMA WakeupStep ==
    ASSUME StructInv, NoLostWakeup,
           \A m \in Mutex :
               \/ WakesUp(m)'
               \/ /\ wq'[m] = wq[m] /\ lock'[m] = lock[m] /\ owner'[m] = owner[m]
                  /\ \A t \in Thread : sleep_on[t] = m /\ sched.state[t] = "RUNNING"
                                         => sched'.state[t] = "RUNNING"
    PROVE  NoLostWakeup'
<1>1. \A m \in Mutex : Consistent(m) /\ wq[m] \in Seq(Thread)
  BY EachConsistent DEF StructInv, MutexTypeOK
<1>2. ASSUME NEW m \in Mutex PROVE WakesUp(m)'
  <2>1. CASE WakesUp(m)'
    BY <2>1
  <2>2. CASE ~WakesUp(m)'
    <3>1. /\ wq'[m] = wq[m] /\ lock'[m] = lock[m] /\ owner'[m] = owner[m]
          /\ \A t \in Thread : sleep_on[t] = m /\ sched.state[t] = "RUNNING"
                                 => sched'.state[t] = "RUNNING"
      BY <2>2
    <3>2. WakesUp(m)
      BY DEF NoLostWakeup, WakesUp
    <3>3. \A i \in 1..Len(wq[m]) : wq[m][i] \in Thread /\ sleep_on[wq[m][i]] = m
      BY <1>1 DEF Consistent, InQueue
    <3> QED BY <3>1, <3>2, <3>3 DEF WakesUp
  <2> QED BY <2>1, <2>2
<1>3. \A m \in Mutex : WakesUp(m)'
  BY <1>2
<1> QED BY <1>3 DEF NoLostWakeup, WakesUp

\* A step of the current thread that does not change the scheduler state.
LEMMA QuietStep ==
    ASSUME KernelInv, ~sched.in_irq, pc[Current] \notin {"none", "init", "sti", "halt"},
           sched' = sched, timers' = timers,
           NEW label, label \notin {"init", "sti", "halt"}, Goto(label)
    PROVE  KernelInv' /\ Current \in Thread /\ Current' = Current
<1>1. /\ Current \in Thread /\ sched.in_irq = FALSE
      /\ sched.next = sched.current
  BY ThreadRuns
<1>2. Steady(sched') /\ timers' \subseteq Thread
  BY DEF KernelInv
<1>3. KernelInv'
  BY <1>1, <1>2, ThreadStep
<1> QED BY <1>1, <1>3 DEF Current

\* Where nobody walks, no inherited priority is due to be computed.
LEMMA NothingDue ==
    ASSUME StructInv, ~Walking
    PROVE  cursor = NULL /\ \A t : ~Due(t)
BY DEF StructInv, WaitPlaces, Due

\* pthread_mutex_lock() and pthread_mutex_trylock() on a free mutex.
LEMMA TakeFreeInv ==
    ASSUME MutexInv, At("user"), NEW m \in Mutex, TakeFree(m)
    PROVE  MutexInv'
<1>1. KernelInv /\ StructInv /\ Awake /\ NoLostWakeup /\ PriorityInv /\ SettledInv
  BY DEF MutexInv
<1>2. ~sched.in_irq /\ pc[Current] = "user"
  BY DEF At
<1>3. /\ lock[m] = 1 /\ lock' = [lock EXCEPT ![m] = 0]
      /\ Own(m) /\ Goto("user")
      /\ stale' = stale \cup (IF PassesOver(m) THEN {"passed"} ELSE {})
      /\ sched' = sched /\ timers' = timers
      /\ wq' = wq /\ sleep_on' = sleep_on /\ cursor' = cursor
  BY DEF TakeFree
<1>4. KernelInv' /\ Current \in Thread /\ Current' = Current
  BY <1>1, <1>2, <1>3, QuietStep
<1>5. Outside(pc[Current]) /\ ~Walking
  BY <1>2 DEF Outside, Walking
<1>6. StructInv'
  BY <1>1, <1>4, <1>5, TakeFreeStruct
<1>7. pc'[Current] = "user"
  BY <1>1, <1>3, <1>4, GotoEffect
<1>8. Awake'
  BY <1>1, <1>2, <1>3, <1>4 DEF Awake
<1>9. MutexTypeOK /\ Consistent(m) /\ owner[m] = NULL /\ m # NULL
  BY <1>1, <1>3, EachConsistent, MutexAssumption DEF StructInv, Consistent
<1>10. \A x \in Mutex : owner'[x] = IF x = m THEN Current ELSE owner[x]
  BY <1>3, <1>4, <1>9, OwnEffect
<1>11. NoLostWakeup'
  <2>1. WakesUp(m)'
    BY <1>1, <1>3, <1>9 DEF NoLostWakeup, WakesUp
  <2>2. \A x \in Mutex : x # m =>
            /\ wq'[x] = wq[x] /\ lock'[x] = lock[x] /\ owner'[x] = owner[x]
    BY <1>3, <1>9, <1>10 DEF MutexTypeOK
  <2> QED BY <1>1, <1>3, <2>1, <2>2, WakeupStep
<1>12. \A w, x \in Thread :
          WaitsFor(w, x)' <=> WaitsFor(w, x) \/ (x = Current /\ sleep_on[w] = m)
  <2>1. \A w \in Thread : sleep_on[w] \in Mutex \cup {NULL}
    BY <1>9 DEF MutexTypeOK, Task
  <2>2. \A x \in Thread : x # NULL
    BY SchedAssumption
  <2> QED BY <1>3, <1>9, <1>10, <2>1, <2>2 DEF WaitsFor
<1>13. PriorityInv'
  <2>1. \A x : ~Due(x)
    BY <1>1, <1>5, NothingDue
  <2>2. \A x \in Thread : x # Current =>
            \A w \in Thread : WaitsFor(w, x)' <=> WaitsFor(w, x)
    BY <1>12
  <2>3. /\ Inherited(Current) \in Prio
        /\ sched.effective_priority[Current] \in Prio
        /\ sched.priority[Current] <= Inherited(Current)
        /\ \A w \in Thread : WaitsFor(w, Current) =>
              sched.effective_priority[w] <= Inherited(Current)
        /\ \/ Inherited(Current) = sched.priority[Current]
           \/ \E w \in Thread : /\ WaitsFor(w, Current)
                                /\ Inherited(Current) = sched.effective_priority[w]
    BY <1>1, <1>4, InheritedBounds
  <2>4. /\ Inherited(Current)' \in Prio
        /\ sched.priority[Current] <= Inherited(Current)'
        /\ \A w \in Thread : WaitsFor(w, Current)' =>
              sched.effective_priority[w] <= Inherited(Current)'
        /\ \/ Inherited(Current)' = sched.priority[Current]
           \/ \E w \in Thread : /\ WaitsFor(w, Current)'
                                /\ Inherited(Current)' = sched.effective_priority[w]
    BY <1>3, <1>4, <1>6, InheritedBoundsAfter
  <2>5. Inherited(Current) <= Inherited(Current)'
    BY <1>12, <1>4, <2>3, <2>4
  <2>6. ASSUME stale' = {} PROVE sched.effective_priority[Current] = Inherited(Current)'
    <3>1. stale = {} /\ ~PassesOver(m)
      BY <1>3, <2>6
    <3>2. sched.effective_priority[Current] = Inherited(Current)
      BY <1>1, <1>4, <2>1, <3>1 DEF PriorityInv
    <3>3. ASSUME NEW w \in Thread, sleep_on[w] = m
          PROVE  sched.effective_priority[w] <= sched.effective_priority[Current]
      <4>1. InQueue(wq[m], w)
        BY <1>9, <3>3 DEF Consistent
      <4>2. sched.effective_priority[w] \in Prio
        BY <1>1, InheritedBounds
      <4> QED BY <2>3, <3>1, <4>1, <4>2 DEF InQueue, PassesOver, Prio
    <3>4. Inherited(Current)' <= Inherited(Current)
      BY <1>4, <1>12, <2>3, <2>4, <3>2, <3>3
    <3>5. Inherited(Current) \in Int /\ Inherited(Current)' \in Int
      BY <2>3, <2>4 DEF Prio
    <3> QED BY <2>5, <3>2, <3>4, <3>5
  <2>7. ASSUME "set" \notin stale' PROVE sched.effective_priority[Current] <= Inherited(Current)'
    <3>1. sched.effective_priority[Current] <= Inherited(Current)
      BY <1>1, <1>3, <1>4, <2>1, <2>7 DEF PriorityInv
    <3> QED BY <2>3, <2>4, <2>5, <3>1 DEF Prio
  <2> QED BY <1>1, <1>3, <1>4, <1>6, <2>1, <2>2, <2>6, <2>7, PriorityStep
<1>14. SettledInv'
  BY <1>1, <1>2, <1>3, <1>5 DEF SettledInv, AboutToSleep
<1> QED BY <1>4, <1>6, <1>8, <1>11, <1>13, <1>14 DEF MutexInv

\* A step that changes no priority and none of the records of owners and
\* waiters, puts no waiter to sleep and leaves every visit of a walk that is
\* due still due.
LEMMA SameRecords ==
    ASSUME KernelInv, StructInv, NoLostWakeup, PriorityInv, KernelInv', StructInv',
           sched'.priority = sched.priority,
           sched'.effective_priority = sched.effective_priority,
           \A t \in Thread : sleep_on[t] # NULL /\ sched.state[t] = "RUNNING"
                               => sched'.state[t] = "RUNNING",
           lock' = lock, owner' = owner, wq' = wq, sleep_on' = sleep_on,
           stale \subseteq stale',
           \A t \in Thread : Due(t) => Due(t)'
    PROVE  NoLostWakeup' /\ PriorityInv'
<1>1. \A w, t : WaitsFor(w, t)' <=> WaitsFor(w, t)
  BY DEF WaitsFor
<1>2. \A t \in Thread : Inherited(t)' = Inherited(t)
  BY <1>1, InheritedKept
<1>3. PriorityInv'
  <2>1. \A t \in Thread : Due(t) => Due(t)'
    OBVIOUS
  <2>2. stale' = {} => stale = {}
    OBVIOUS
  <2>3. "set" \notin stale' => "set" \notin stale
    OBVIOUS
  <2> QED BY <1>2, <2>1, <2>2, <2>3 DEF PriorityInv
<1>4. NoLostWakeup'
  BY WakeupStep, MutexAssumption
<1> QED BY <1>3, <1>4

\* Locking a recursive mutex again.
LEMMA TakeAgainInv ==
    ASSUME MutexInv, At("user"), NEW m \in Mutex, TakeAgain(m)
    PROVE  MutexInv'
<1>1. KernelInv /\ StructInv /\ Awake /\ NoLostWakeup /\ PriorityInv /\ SettledInv
  BY DEF MutexInv
<1>2. ~sched.in_irq /\ pc[Current] = "user"
  BY DEF At
<1>3. /\ Goto("user")
      /\ sched' = sched /\ timers' = timers /\ lock' = lock /\ owner' = owner
      /\ wq' = wq /\ sleep_on' = sleep_on /\ cursor' = cursor /\ stale' = stale
  BY DEF TakeAgain
<1>4. KernelInv' /\ Current \in Thread /\ Current' = Current
  BY <1>1, <1>2, <1>3, QuietStep
<1>5. Outside(pc[Current]) /\ ~Walking
  BY <1>2 DEF Outside, Walking
<1>6. StructInv'
  BY <1>1, <1>4, <1>5, TakeAgainStruct
<1>7. Awake'
  BY <1>1, <1>2, <1>3, <1>4 DEF Awake
<1>8. NoLostWakeup' /\ PriorityInv'
  <2>1. \A t \in Thread : Due(t) => Due(t)'
    BY <1>3 DEF Due
  <2> QED BY <1>1, <1>3, <1>4, <1>6, <2>1, SameRecords
<1>9. SettledInv'
  BY <1>1, <1>2, <1>3, <1>5 DEF SettledInv, AboutToSleep
<1> QED BY <1>4, <1>6, <1>7, <1>8, <1>9 DEF MutexInv

\* An unlock that leaves a recursive mutex locked.
LEMMA UnlockAgainInv ==
    ASSUME MutexInv, NEW m \in Mutex, unlock_again(m)
    PROVE  MutexInv'
<1>1. KernelInv /\ StructInv /\ Awake /\ NoLostWakeup /\ PriorityInv /\ SettledInv
  BY DEF MutexInv
<1>2. ~sched.in_irq /\ pc[Current] = "user"
  BY DEF unlock_again, Calls, At
<1>3. /\ sched' = sched /\ timers' = timers /\ lock' = lock /\ owner' = owner /\ pc' = pc
      /\ wq' = wq /\ sleep_on' = sleep_on /\ cursor' = cursor /\ stale' = stale
      /\ CountDown(m)
  BY DEF unlock_again, CountDown
<1>4. Goto("user")
  BY <1>1, <1>2, <1>3 DEF Goto, KernelInv
<1>5. KernelInv' /\ Current \in Thread /\ Current' = Current
  BY <1>1, <1>2, <1>3, <1>4, QuietStep
<1>6. Outside(pc[Current]) /\ Outside("user") /\ ~Walking
  BY <1>2 DEF Outside, Walking
<1>7. StructInv'
  BY <1>1, <1>3, <1>4, <1>5, <1>6, CountDownStruct
<1>8. Awake'
  BY <1>1, <1>2, <1>3, <1>5 DEF Awake
<1>9. NoLostWakeup' /\ PriorityInv'
  <2>1. \A t \in Thread : Due(t) => Due(t)'
    BY <1>3 DEF Due
  <2> QED BY <1>1, <1>3, <1>5, <1>7, <2>1, SameRecords
<1>10. SettledInv'
  BY <1>1, <1>2, <1>3, <1>6 DEF SettledInv, AboutToSleep
<1> QED BY <1>5, <1>7, <1>8, <1>9, <1>10 DEF MutexInv

\* A thread that finds the mutex taken queues up; its first visit is due.
LEMMA ContendInv ==
    ASSUME MutexInv, At("user"), NEW m \in Mutex, Contend(m), MayLock(Current, m)
    PROVE  MutexInv'
<1>1. KernelInv /\ StructInv /\ Awake /\ NoLostWakeup /\ PriorityInv /\ SettledInv
  BY DEF MutexInv
<1>2. ~sched.in_irq /\ pc[Current] = "user"
  BY DEF At
<1>3. /\ lock[m] # 1
      /\ ~(m \in Recursive /\ owner[m] = Current)
      /\ wq' = [wq EXCEPT ![m] = TAILQ_INSERT_TAIL(@, Current)]
      /\ sleep_on' = [sleep_on EXCEPT ![Current] = m]
      /\ cursor' = Current
      /\ Goto("lock_spread")
      /\ sched' = sched /\ timers' = timers
      /\ lock' = lock /\ owner' = owner /\ stale' = stale
  BY DEF Contend
<1>4. KernelInv' /\ Current \in Thread /\ Current' = Current
  BY <1>1, <1>2, <1>3, QuietStep
<1>5. Outside(pc[Current]) /\ ~Walking
  BY <1>2 DEF Outside, Walking
<1>6. MutexTypeOK /\ Consistent(m) /\ m # NULL /\ Current # NULL /\ owner[m] # NULL
  BY <1>1, <1>3, <1>4, EachConsistent, MutexAssumption, SchedAssumption
     DEF StructInv, Consistent
<1>7. \A h \in Holds(Current) : Rank[h] < Rank[m]
  <2>1. CASE m \in Recursive \cap Holds(Current)
    BY <1>1, <1>3, <1>4, <2>1, HolderOwns
  <2> QED BY <2>1 DEF MayLock
<1>8. StructInv'
  BY <1>1, <1>4, <1>5, <1>7, ContendStruct
<1>9. pc'[Current] = "lock_spread"
  BY <1>1, <1>3, <1>4, GotoEffect
<1>10. sched.state[Current] = "RUNNING" /\ Awake'
  BY <1>1, <1>2, <1>3, <1>4 DEF Awake
<1>11. sleep_on[Current] = NULL
  BY <1>1, <1>2, <1>4 DEF StructInv, WaitPlaces
<1>12. \A t \in Thread : sleep_on'[t] = IF t = Current THEN m ELSE sleep_on[t]
  BY <1>3, <1>4, <1>6 DEF MutexTypeOK, Task
<1>13. NoLostWakeup'
  <2>1. \A x \in Mutex : x # m => wq'[x] = wq[x]
    BY <1>3, <1>6 DEF MutexTypeOK
  <2>2. \A t \in Thread : sleep_on'[t] = m <=> InQueue(wq'[m], t)
    BY <1>8 DEF StructInv, OwnershipOK
  <2>3. InQueue(wq'[m], Current)
    BY <1>4, <1>12, <2>2
  <2>4. WakesUp(m)'
    BY <1>3, <1>10, <2>3 DEF WakesUp, InQueue
  <2> QED BY <1>1, <1>3, <2>1, <2>4, WakeupStep
<1>14. \A x \in Thread : Due(x)' <=> owner[m] = x
  BY <1>3, <1>4, <1>6, <1>12 DEF Due
<1>15. \A w, x \in Thread : owner[m] # x => (WaitsFor(w, x)' <=> WaitsFor(w, x))
  BY <1>3, <1>6, <1>11, <1>12 DEF WaitsFor
<1>16. PriorityInv'
  <2>1. \A x : ~Due(x)
    BY <1>1, <1>5, NothingDue
  <2>2. owner[m] \in Thread
    BY <1>6 DEF MutexTypeOK
  <2> QED BY <1>1, <1>3, <1>4, <1>8, <1>14, <1>15, <2>1, <2>2, PriorityStep
<1>17. SettledInv'
  BY <1>4, <1>9 DEF SettledInv, Walking
<1> QED BY <1>4, <1>8, <1>10, <1>13, <1>16, <1>17 DEF MutexInv

-----------------------------------------------------------------------------
\* One visit of __pthread_spread(): the owner's priority becomes exact, and
\* the owner it waits for in its turn is due.
LEMMA SpreadStepInv ==
    ASSUME MutexInv, spread_step
    PROVE  MutexInv'
<1>1. KernelInv /\ StructInv /\ Awake /\ NoLostWakeup /\ PriorityInv /\ SettledInv
  BY DEF MutexInv
<1>2. /\ ~sched.in_irq /\ pc[Current] \in {"lock_spread", "setprio_spread"}
      /\ sleep_on[cursor] # NULL
      /\ owner[sleep_on[cursor]] # NULL
      /\ pc' = pc /\ timers' = timers
      /\ lock' = lock /\ owner' = owner /\ recursive_count' = recursive_count
      /\ wq' = wq /\ sleep_on' = sleep_on /\ mutex_queue' = mutex_queue
      /\ held' = held /\ stale' = stale
  BY DEF spread_step, Spreading, At, structVars
<1>3. MutexTypeOK /\ OwnershipOK /\ WaitPlaces /\ RanksOK
  BY <1>1 DEF StructInv
<1>4. Walking /\ cursor # NULL /\ cursor \in Thread
  BY <1>2, <1>3 DEF Walking, WaitPlaces, MutexTypeOK
<1>5. PICK th \in Thread : /\ th = owner[sleep_on[cursor]] /\ th \in Task
                           /\ cursor' = th
                           /\ sched' = SetEffectivePriority(sched, th, Inherited(th))
  <2>1. owner[sleep_on[cursor]] \in Thread
    BY <1>2, <1>3, <1>4 DEF MutexTypeOK, Task
  <2> QED BY <2>1 DEF spread_step, __pthread_setschedprio, Inherited, Task
<1>6. Steady(sched) /\ Inherited(th) \in Prio
  BY <1>1, <1>5, InheritedBounds DEF KernelInv
<1>7. PrioritySet(sched, th, Inherited(th), sched')
  BY <1>2, <1>5, <1>6, SetPriorityEffect
<1>8. /\ Current \in Thread /\ sched.in_irq = FALSE
      /\ sched.next = sched.current
  BY <1>1, <1>2, ThreadRuns
<1>9. KernelInv' /\ Current' = Current /\ sched'.state = sched.state
      /\ sched'.priority = sched.priority
  <2>1. Goto(pc[Current])
    BY <1>1, <1>2 DEF Goto, KernelInv
  <2>2. timers' \subseteq Thread /\ pc[Current] \notin {"none", "init", "sti", "halt"}
    BY <1>1, <1>2 DEF KernelInv
  <2>3. /\ Steady(sched') /\ sched'.in_irq = FALSE /\ sched'.next = sched'.current
        /\ sched'.state = sched.state /\ sched'.current = sched.current
        /\ sched'.priority = sched.priority
    BY <1>7, <1>8 DEF PrioritySet
  <2>4. KernelInv'
    BY <1>1, <1>2, <1>8, <2>1, <2>2, <2>3, ThreadStep
  <2> QED BY <2>3, <2>4 DEF Current
<1>10. StructInv'
  <2>1. MutexTypeOK'
    BY <1>2, <1>3, <1>5 DEF MutexTypeOK
  <2>2. OwnershipOK'
    BY <1>2, <1>3 DEF OwnershipOK
  <2>3. WaitPlaces'
    BY <1>2, <1>3, <1>4, <1>5, <1>9 DEF WaitPlaces, Walking
  <2>4. RanksOK'
    BY <1>2, <1>3 DEF RanksOK, Holds
  <2> QED BY <2>1, <2>2, <2>3, <2>4 DEF StructInv
<1>11. Awake'
  BY <1>1, <1>2, <1>9 DEF Awake
<1>12. NoLostWakeup'
  BY <1>1, <1>2, <1>9, WakeupStep
<1>13. \A w, x : WaitsFor(w, x)' <=> WaitsFor(w, x)
  BY <1>2 DEF WaitsFor
<1>14. /\ \A x : Due(x) <=> x = th
       /\ \A x : Due(x)' <=> WaitsFor(th, x)
  BY <1>2, <1>4, <1>5, SchedAssumption DEF Due, WaitsFor
<1>15. ~WaitsFor(th, th)
  BY <1>1, <1>5, WaitersOf
<1>16. /\ sched'.effective_priority[th] = Inherited(th)
       /\ \A x \in Thread : x # th => sched'.effective_priority[x] = sched.effective_priority[x]
  BY <1>5, <1>6, <1>7 DEF PrioritySet, Steady, Sound, SchedRecord, Task
<1>17. Inherited(th)' = Inherited(th)
  <2>1. \A w \in Thread : WaitsFor(w, th) =>
            sched'.effective_priority[w] = sched.effective_priority[w]
    BY <1>15, <1>16
  <2> QED BY <1>1, <1>5, <1>9, <1>10, <1>13, <2>1, InheritedKept
<1>18. PriorityInv'
  <2>1. ASSUME NEW x \in Thread, x # th, ~Due(x)', NEW w \in Thread, WaitsFor(w, x)
        PROVE  sched'.effective_priority[w] = sched.effective_priority[w]
    BY <1>14, <1>16, <2>1
  <2>2. Inherited(th) <= Inherited(th)
    BY <1>6 DEF Prio
  <2> QED BY <1>1, <1>2, <1>5, <1>9, <1>10, <1>13, <1>14, <1>16, <1>17, <2>1, <2>2, PriorityStep
<1>19. SettledInv'
  BY <1>2, <1>9 DEF SettledInv, Walking
<1> QED BY <1>9, <1>10, <1>11, <1>12, <1>18, <1>19 DEF MutexInv

\* A walk that meets a mutex without an owner stops there.
LEMMA SpreadNullInv ==
    ASSUME MutexInv, spread_null
    PROVE  MutexInv'
<1>1. KernelInv /\ StructInv /\ Awake /\ NoLostWakeup /\ PriorityInv /\ SettledInv
  BY DEF MutexInv
<1>2. /\ ~sched.in_irq /\ pc[Current] \in {"lock_spread", "setprio_spread"}
      /\ owner[sleep_on[cursor]] = NULL
      /\ Goto("fault")
      /\ sched' = sched /\ timers' = timers
      /\ lock' = lock /\ owner' = owner /\ recursive_count' = recursive_count
      /\ wq' = wq /\ sleep_on' = sleep_on /\ mutex_queue' = mutex_queue
      /\ cursor' = cursor /\ held' = held /\ stale' = stale
  BY DEF spread_null, Spreading, At, mutexVars
<1>3. KernelInv' /\ Current \in Thread /\ Current' = Current
  BY <1>1, <1>2, QuietStep
<1>4. \A t \in Thread : pc'[t] = IF t = Current THEN "fault" ELSE pc[t]
  BY <1>1, <1>2, <1>3, GotoEffect
<1>5. MutexTypeOK /\ OwnershipOK /\ WaitPlaces /\ RanksOK
  BY <1>1 DEF StructInv
<1>6. StructInv'
  <2>1. MutexTypeOK' /\ OwnershipOK' /\ RanksOK'
    BY <1>2, <1>5 DEF MutexTypeOK, OwnershipOK, RanksOK, Holds
  <2>2. WaitPlaces'
    BY <1>2, <1>3, <1>4, <1>5 DEF WaitPlaces, Walking
  <2> QED BY <2>1, <2>2 DEF StructInv
<1>7. Awake'
  BY <1>1, <1>2, <1>3 DEF Awake
<1>8. NoLostWakeup' /\ PriorityInv'
  <2>1. \A t \in Thread : Due(t) => Due(t)'
    BY <1>2 DEF Due
  <2> QED BY <1>1, <1>2, <1>3, <1>6, <2>1, SameRecords
<1>9. SettledInv'
  BY <1>3, <1>4 DEF SettledInv, Walking
<1> QED BY <1>3, <1>6, <1>7, <1>8, <1>9 DEF MutexInv

\* The end of the walk that pthread_mutex_lock() starts.
LEMMA LockSpreadDoneInv ==
    ASSUME MutexInv, lock_spread_done
    PROVE  MutexInv'
<1>1. KernelInv /\ StructInv /\ Awake /\ NoLostWakeup /\ PriorityInv /\ SettledInv
  BY DEF MutexInv
<1>2. /\ ~sched.in_irq /\ pc[Current] = "lock_spread"
      /\ sleep_on[cursor] = NULL
      /\ cursor' = NULL
      /\ Goto("lock_try")
      /\ sched' = sched /\ timers' = timers
      /\ lock' = lock /\ owner' = owner /\ recursive_count' = recursive_count
      /\ wq' = wq /\ sleep_on' = sleep_on /\ mutex_queue' = mutex_queue
      /\ held' = held /\ stale' = stale
  BY DEF lock_spread_done, At, structVars
<1>3. KernelInv' /\ Current \in Thread /\ Current' = Current
  BY <1>1, <1>2, QuietStep
<1>4. \A t \in Thread : pc'[t] = IF t = Current THEN "lock_try" ELSE pc[t]
  BY <1>1, <1>2, <1>3, GotoEffect
<1>5. MutexTypeOK /\ OwnershipOK /\ WaitPlaces /\ RanksOK
  BY <1>1 DEF StructInv
<1>6. StructInv'
  <2>1. MutexTypeOK' /\ OwnershipOK' /\ RanksOK'
    BY <1>2, <1>5 DEF MutexTypeOK, OwnershipOK, RanksOK, Holds
  <2>2. WaitPlaces'
    BY <1>2, <1>3, <1>4, <1>5 DEF WaitPlaces, Walking
  <2> QED BY <2>1, <2>2 DEF StructInv
<1>7. Awake'
  BY <1>1, <1>2, <1>3 DEF Awake
<1>8. NoLostWakeup' /\ PriorityInv'
  <2>1. \A t \in Thread : Due(t) => Due(t)'
    BY <1>2 DEF Due
  <2> QED BY <1>1, <1>2, <1>3, <1>6, <2>1, SameRecords
<1>9. SettledInv'
  BY <1>2, <1>3, <1>4, <1>5 DEF SettledInv, AboutToSleep, WaitPlaces
<1> QED BY <1>3, <1>6, <1>7, <1>8, <1>9 DEF MutexInv

-----------------------------------------------------------------------------
\* A waiter that still finds the mutex taken has unlock wake it, and sleeps.
LEMMA LockSleepInv ==
    ASSUME MutexInv, NEW m \in Mutex, lock_sleep(m)
    PROVE  MutexInv'
<1>1. KernelInv /\ StructInv /\ Awake /\ NoLostWakeup /\ PriorityInv /\ SettledInv
  BY DEF MutexInv
<1>2. /\ ~sched.in_irq /\ pc[Current] = "lock_try"
      /\ sleep_on[Current] = m /\ lock[m] # 1
      /\ lock' = [lock EXCEPT ![m] = -1]
      /\ sched' = Block(sched)
      /\ pc' = pc /\ timers' = timers
      /\ owner' = owner /\ recursive_count' = recursive_count
      /\ wq' = wq /\ sleep_on' = sleep_on /\ mutex_queue' = mutex_queue
      /\ cursor' = cursor /\ held' = held /\ stale' = stale
  BY DEF lock_sleep, At
<1>3. Current \in Thread /\ Current # Idle /\ sched.in_irq = FALSE /\ Steady(sched)
  BY <1>1, <1>2, ThreadRuns DEF KernelInv
<1>4. /\ Steady(sched') /\ Settled(sched')
      /\ sched'.in_irq = FALSE /\ sched'.next = sched'.current
      /\ sched'.state[sched'.current] = "RUNNING"
      /\ sched'.state = [sched.state EXCEPT ![Current] = "SLEEPING"]
      /\ sched'.priority = sched.priority
      /\ sched'.effective_priority = sched.effective_priority
  BY <1>2, <1>3, BlockEffect DEF Current
<1>5. \A t \in Thread : sched'.state[t] = IF t = Current THEN "SLEEPING" ELSE sched.state[t]
  BY <1>3, <1>4 DEF Steady, Sound, SchedRecord, Task
<1>6. KernelInv'
  <2>1. Goto("lock_try") /\ timers' \subseteq Thread
    BY <1>1, <1>2 DEF Goto, KernelInv
  <2> QED BY <1>1, <1>2, <1>3, <1>4, <1>5, <2>1, ThreadStep
<1>7. MutexTypeOK /\ OwnershipOK /\ WaitPlaces /\ RanksOK
  BY <1>1 DEF StructInv
<1>8. /\ lock' \in [Mutex -> {1, 0, -1}]
      /\ \A x \in Mutex : lock'[x] = IF x = m THEN -1 ELSE lock[x]
  BY <1>2, <1>7 DEF MutexTypeOK
<1>9. owner[m] # NULL /\ m # NULL
  BY <1>2, <1>7, MutexAssumption DEF OwnershipOK
<1>10. StructInv'
  <2>1. MutexTypeOK' /\ RanksOK'
    BY <1>2, <1>7, <1>8 DEF MutexTypeOK, RanksOK, Holds
  <2>2. OwnershipOK'
    <3>1. \A x \in Mutex : lock'[x] = 1 <=> lock[x] = 1
      BY <1>2, <1>8
    <3> QED BY <1>2, <1>7, <3>1 DEF OwnershipOK
  <2>3. WaitPlaces'
    BY <1>2, <1>3, <1>6, <1>7, <1>9, CalmPlaces DEF Walking
  <2> QED BY <2>1, <2>2, <2>3 DEF StructInv
<1>11. Awake'
  BY <1>4 DEF Awake, Current
<1>12. NoLostWakeup'
  <2>1. WakesUp(m)'
    BY <1>2, <1>8, <1>9 DEF WakesUp
  <2>2. ASSUME NEW x \in Mutex, x # m
        PROVE  /\ wq'[x] = wq[x] /\ lock'[x] = lock[x] /\ owner'[x] = owner[x]
               /\ \A t \in Thread : sleep_on[t] = x /\ sched.state[t] = "RUNNING"
                                      => sched'.state[t] = "RUNNING"
    BY <1>2, <1>5, <1>8, <2>2
  <2> QED BY <1>1, <2>1, <2>2, WakeupStep
<1>13. PriorityInv'
  <2>1. \A w, x : WaitsFor(w, x)' <=> WaitsFor(w, x)
    BY <1>2 DEF WaitsFor
  <2>2. \A x : Due(x)' <=> Due(x)
    BY <1>2 DEF Due
  <2>3. \A t \in Thread : Inherited(t)' = Inherited(t)
    BY <1>1, <1>4, <1>6, <1>10, <2>1, InheritedKept
  <2> QED BY <1>1, <1>2, <1>4, <2>2, <2>3 DEF PriorityInv
<1>14. SettledInv'
  BY <1>4 DEF SettledInv
<1> QED BY <1>6, <1>10, <1>11, <1>12, <1>13, <1>14 DEF MutexInv

\* The winner takes on the priorities of those it leaves behind, which can only
\* raise its own.
LEMMA LockWinInv ==
    ASSUME MutexInv, NEW m \in Mutex, lock_win(m)
    PROVE  MutexInv'
<1>1. KernelInv /\ StructInv /\ Awake /\ NoLostWakeup /\ PriorityInv /\ SettledInv
  BY DEF MutexInv
<1> DEFINE q == TAILQ_REMOVE(wq[m], Current)
<1>2. /\ ~sched.in_irq /\ pc[Current] = "lock_try"
      /\ sleep_on[Current] = m /\ lock[m] = 1
      /\ wq' = [wq EXCEPT ![m] = q]
      /\ lock' = [lock EXCEPT ![m] = LockAfterWin(q)]
      /\ sleep_on' = [sleep_on EXCEPT ![Current] = NULL]
      /\ Own(m) /\ Goto("user")
      /\ timers' = timers /\ cursor' = cursor /\ stale' = stale
      /\ sched' = SetEffectivePriority(sched, Current,
                      InheritedPriority(sched, Current, mutex_queue'[Current], wq'))
  BY DEF lock_win, At, __pthread_setschedprio
<1> HIDE DEF q
<1>3. /\ Current \in Thread /\ Current \in Task /\ sched.in_irq = FALSE
      /\ sched.next = sched.current /\ Steady(sched) /\ sched \in SchedRecord
  BY <1>1, <1>2, ThreadRuns DEF KernelInv, Steady, Sound
<1> DEFINE v == InheritedPriority(sched, Current, mutex_queue'[Current], wq')
<1>4. v \in Prio
  BY <1>3, InheritedIsMax
<1>5. PrioritySet(sched, Current, v, sched')
  BY <1>2, <1>3, <1>4, SetPriorityEffect
<1>6. /\ Steady(sched') /\ sched'.in_irq = FALSE /\ sched'.next = sched'.current
      /\ sched'.state = sched.state /\ sched'.current = sched.current
      /\ sched'.priority = sched.priority /\ sched'.linked = sched.linked
      /\ Current' = Current
  BY <1>3, <1>5 DEF PrioritySet, Current
<1>7. KernelInv'
  <2>1. timers' \subseteq Thread
    BY <1>1, <1>2 DEF KernelInv
  <2> QED BY <1>1, <1>2, <1>3, <1>6, <2>1, ThreadStep
<1>8. StructInv'
  BY <1>1, <1>3, <1>7, WinStruct
<1>9. Awake'
  BY <1>1, <1>2, <1>6 DEF Awake
<1>10. MutexTypeOK /\ Consistent(m) /\ owner[m] = NULL /\ m # NULL
  BY <1>1, <1>2, EachConsistent, MutexAssumption DEF StructInv, Consistent
<1>11. /\ \A x \in Mutex : owner'[x] = IF x = m THEN Current ELSE owner[x]
       /\ \A t \in Thread : sleep_on'[t] = IF t = Current THEN NULL ELSE sleep_on[t]
  BY <1>2, <1>3, <1>10, OwnEffect DEF MutexTypeOK
<1>12. Current # NULL /\ \A x \in Thread : x # NULL
  BY <1>3, SchedAssumption
<1>13. NoLostWakeup'
  <2>1. wq'[m] = q /\ lock'[m] = LockAfterWin(q)
    BY <1>2, <1>10 DEF MutexTypeOK
  <2>2. WakesUp(m)'
    BY <1>11, <1>12, <2>1 DEF WakesUp, LockAfterWin
  <2>3. \A x \in Mutex : x # m =>
            /\ wq'[x] = wq[x] /\ lock'[x] = lock[x] /\ owner'[x] = owner[x]
    BY <1>2, <1>10, <1>11 DEF MutexTypeOK
  <2> QED BY <1>1, <1>6, <2>2, <2>3, WakeupStep
<1>14. \A w, x \in Thread :
          WaitsFor(w, x)' <=> WaitsFor(w, x)
                                \/ (x = Current /\ w # Current /\ sleep_on[w] = m)
  <2>1. \A w \in Thread : sleep_on[w] \in Mutex \cup {NULL}
    BY <1>10 DEF MutexTypeOK, Task
  <2> QED BY <1>2, <1>10, <1>11, <1>12, <2>1 DEF WaitsFor
<1>15. /\ sched'.effective_priority[Current] = v
       /\ \A x \in Thread : x # Current =>
             sched'.effective_priority[x] = sched.effective_priority[x]
  <2>1. /\ sched'.effective_priority = [sched.effective_priority EXCEPT ![Current] = v]
        /\ sched.effective_priority \in [Task -> Prio] /\ Thread \subseteq Task
    BY <1>3, <1>5 DEF PrioritySet, SchedRecord, Task
  <2> HIDE DEF v
  <2> QED BY <1>3, <2>1
<1>16. ~WaitsFor(Current, Current)' /\ \A x \in Thread : ~WaitsFor(Current, x)
  BY <1>2, <1>3, <1>6, <1>10, <1>11, <1>12 DEF WaitsFor
<1>17. Inherited(Current)' = v
  <2>1. (StructInv => \A t \in Thread :
            /\ Waiters(mutex_queue[t], wq) = {w \in Thread : WaitsFor(w, t)}
            /\ ~WaitsFor(t, t))'
    BY WaitersOf, PTL
  <2> DEFINE W == Waiters(mutex_queue'[Current], wq')
  <2>2. W = {w \in Thread : WaitsFor(w, Current)'}
    BY <1>3, <1>6, <1>8, <2>1
  <2>3. \A w \in W : sched'.effective_priority[w] = sched.effective_priority[w]
    BY <1>6, <1>15, <1>16, <2>2
  <2> HIDE DEF W
  <2>4. InheritedPriority(sched', Current, mutex_queue'[Current], wq') = v
    BY <1>6, <2>3, InheritedSame DEF W
  <2> QED BY <1>6, <2>4 DEF Inherited
<1> HIDE DEF v
<1>18. ~Walking /\ \A x : ~Due(x)
  BY <1>1, <1>2, NothingDue DEF Walking
<1>19. PriorityInv'
  <2>1. \A x, w \in Thread : x # Current => (WaitsFor(w, x)' <=> WaitsFor(w, x))
    BY <1>14
  <2>2. \A x, w \in Thread : WaitsFor(w, x) =>
            sched'.effective_priority[w] = sched.effective_priority[w]
    BY <1>15, <1>16
  <2>3. v <= v
    BY <1>4 DEF Prio
  <2>4. PICK c \in Thread : c = Current
    BY <1>3
  <2>5. Inherited(c)' = v /\ sched'.effective_priority[c] = v
    BY <1>6, <1>15, <1>17, <2>4
  <2> QED BY <1>1, <1>2, <1>6, <1>7, <1>8, <1>15, <1>18, <2>1, <2>2, <2>3, <2>4, <2>5, PriorityStep
<1>20. SettledInv'
  <2>1. CASE "set" \in stale
    BY <1>2, <2>1 DEF SettledInv
  <2>2. CASE "set" \notin stale
    <3>1. Settled(sched)
      BY <1>1, <1>2, <1>18, <2>2 DEF SettledInv, AboutToSleep
    <3>2. sched.effective_priority[Current] <= Inherited(Current)
      BY <1>1, <1>3, <1>18, <2>2 DEF PriorityInv
    <3>3. /\ Inherited(Current) \in Prio
          /\ sched.effective_priority[Current] \in Prio
          /\ \/ Inherited(Current) = sched.priority[Current]
             \/ \E w \in Thread : /\ WaitsFor(w, Current)
                                  /\ Inherited(Current) = sched.effective_priority[w]
      BY <1>1, <1>3, InheritedBounds
    <3>4. /\ sched.priority[Current] <= v
          /\ \A w \in Thread : WaitsFor(w, Current) => sched.effective_priority[w] <= v
      <4>1. \A t \in Thread :
               /\ sched'.priority[t] <= Inherited(t)'
               /\ \A w \in Thread : WaitsFor(w, t)' =>
                     sched'.effective_priority[w] <= Inherited(t)'
        BY <1>7, <1>8, InheritedBoundsAfter
      <4>2. PICK c \in Thread : c = Current
        BY <1>3
      <4>3. Inherited(c)' = v
        BY <1>6, <1>17, <4>2
      <4> QED BY <1>6, <1>14, <1>15, <1>16, <4>1, <4>2, <4>3
    <3>5. sched.effective_priority[Current] <= v
      BY <1>4, <3>2, <3>3, <3>4 DEF Prio
    <3>6. Highest(sched, Current)
      BY <1>3, <3>1, SchedAssumption DEF Settled, Current
    <3>7. ASSUME NEW x \in sched.linked
          PROVE  sched'.effective_priority[x] <= sched'.effective_priority[Current]
      <4>1. /\ sched.effective_priority[x] <= sched.effective_priority[Current]
            /\ x \in Task /\ sched.effective_priority[x] \in Prio
        BY <1>3, <3>6 DEF Highest, SchedRecord
      <4>2. sched'.effective_priority = [sched.effective_priority EXCEPT ![Current] = v]
        BY <1>5 DEF PrioritySet, v
      <4>3. sched'.effective_priority[x] =
                IF x = Current THEN v ELSE sched.effective_priority[x]
        BY <1>3, <4>1, <4>2 DEF SchedRecord
      <4> QED BY <1>4, <1>15, <3>3, <3>5, <4>1, <4>3 DEF Prio
    <3>8. Highest(sched', sched'.current)
      BY <1>6, <3>6, <3>7 DEF Highest, Current
    <3> QED BY <1>6, <3>8 DEF SettledInv, Settled
  <2> QED BY <2>1, <2>2
<1> QED BY <1>7, <1>8, <1>9, <1>13, <1>19, <1>20 DEF MutexInv

-----------------------------------------------------------------------------
\* The waiter that unlock chooses is one of those queued, and none of them has
\* a higher priority.
LEMMA HighestWaiterOf ==
    ASSUME NEW s \in SchedRecord, NEW q \in Seq(Thread), q # <<>>
    PROVE  \E i \in 1..Len(q) :
               /\ HighestWaiter(s, q) = q[i]
               /\ \A j \in 1..Len(q) :
                     s.effective_priority[q[j]] <= s.effective_priority[q[i]]
<1> DEFINE X == {s.effective_priority[q[i]] : i \in 1..Len(q)}
           I == {i \in 1..Len(q) : \A j \in 1..Len(q) :
                     s.effective_priority[q[j]] <= s.effective_priority[q[i]]}
<1>1. \A i \in 1..Len(q) : s.effective_priority[q[i]] \in 0..MaxPrio
  <2>1. s.effective_priority \in [Task -> 0..MaxPrio]
    BY DEF SchedRecord, Prio
  <2> QED BY <2>1 DEF Task
<1>2. 1 \in 1..Len(q)
  OBVIOUS
<1>3. X \in SUBSET (0..MaxPrio) /\ X # {}
  BY <1>1, <1>2
<1>4. Max(X) \in X /\ \A x \in X : x <= Max(X)
  BY <1>3, MaxOfSet, SchedAssumption
<1>5. PICK i \in 1..Len(q) : Max(X) = s.effective_priority[q[i]]
  BY <1>4
<1>6. i \in I
  BY <1>4, <1>5
<1>7. I \in SUBSET Nat /\ I # {}
  BY <1>6
<1>8. Min(I) \in I
  BY <1>7, MinOfSet
<1>9. HighestWaiter(s, q) = q[Min(I)]
  BY DEF HighestWaiter
<1> QED BY <1>8, <1>9

\* The state before the schedule() of an unlock: the priority inherited through
\* the mutex has been given back, and one of those who sleep on it, if there
\* are any, has been woken.
UnlockedTo(s, t, p, m, u) ==
    /\ Steady(u)
    /\ u.effective_priority = [s.effective_priority EXCEPT ![t] = p]
    /\ u.priority = s.priority
    /\ u.current = s.current
    /\ u.next = s.next
    /\ u.in_irq = s.in_irq
    /\ \A x \in Task : u.state[x] = s.state[x] \/ u.state[x] = "RUNNING"
    /\ \A x \in Task : u.state[x] # s.state[x] => InQueue(wq[m], x)
    /\ Wakes(m) => \E i \in 1..Len(wq[m]) : u.state[wq[m][i]] = "RUNNING"

\* pthread_mutex_unlock() drops the inherited priority and wakes a waiter.
LEMMA UnlockedEffect ==
    ASSUME MutexTypeOK, NEW m \in Mutex, NEW s, Steady(s), s.current = Current
    PROVE  UnlockedTo(s, Current,
                      InheritedPriority(s, Current, mutex_queue[Current] \ {m}, wq),
                      m, Unlocked(s, m))
<1> DEFINE v == InheritedPriority(s, Current, mutex_queue[Current] \ {m}, wq)
           u == SetEffectivePriority(s, Current, v)
           h == HighestWaiter(s, wq[m])
           r == __pthread_set_running(u, h)
<1>1. s \in SchedRecord /\ Current \in Task /\ Steady(s)
  BY DEF Steady, Sound, SchedRecord
<1>2. v \in Prio
  BY <1>1, InheritedIsMax
<1>3. PrioritySet(s, Current, v, u)
  BY <1>1, <1>2, SetPriorityEffect
<1>4. Unlocked(s, m) = IF Wakes(m) THEN r ELSE u
  BY DEF Unlocked, __pthread_setschedprio
<1> HIDE DEF v, u
<1>5. CASE ~Wakes(m)
  <2>1. Unlocked(s, m) = u
    BY <1>4, <1>5
  <2>2. UnlockedTo(s, Current, v, m, u)
    BY <1>3, <1>5 DEF UnlockedTo, PrioritySet
  <2> QED BY <2>1, <2>2 DEF v
<1>6. CASE Wakes(m)
  <2>1. wq[m] # <<>> /\ wq[m] \in Seq(Thread)
    BY <1>6 DEF Wakes, MutexTypeOK
  <2>2. PICK i \in 1..Len(wq[m]) : h = wq[m][i]
    BY <1>1, <2>1, HighestWaiterOf
  <2>3. h \in Task
    BY <2>1, <2>2 DEF Task
  <2> HIDE DEF h
  <2>4. MadeRunning(u, h, r)
    BY <1>3, <2>3, SetRunningEffect DEF PrioritySet
  <2>5. Unlocked(s, m) = r
    BY <1>4, <1>6
  <2> HIDE DEF r
  <2>6. \A x \in Task : r.state[x] = IF x = h THEN "RUNNING" ELSE s.state[x]
    <3>1. r.state = [s.state EXCEPT ![h] = "RUNNING"]
      BY <1>3, <2>4, Zenon DEF PrioritySet, MadeRunning
    <3>2. s.state \in [Task -> State]
      BY <1>1 DEF SchedRecord
    <3> QED BY <2>3, <3>1, <3>2
  <2>7. /\ Steady(r)
        /\ r.effective_priority = [s.effective_priority EXCEPT ![Current] = v]
        /\ r.priority = s.priority
        /\ r.current = s.current
        /\ r.next = s.next
        /\ r.in_irq = s.in_irq
    BY <1>3, <2>4, Zenon DEF PrioritySet, MadeRunning
  <2>8. \E j \in 1..Len(wq[m]) : r.state[wq[m][j]] = "RUNNING"
    BY <2>2, <2>3, <2>6
  <2>9. \A x \in Task : r.state[x] # s.state[x] => InQueue(wq[m], x)
    BY <2>2, <2>6 DEF InQueue
  <2>10. UnlockedTo(s, Current, v, m, r)
    BY <2>6, <2>7, <2>8, <2>9 DEF UnlockedTo
  <2> QED BY <2>5, <2>10 DEF v
<1> QED BY <1>5, <1>6

\* The last unlock of a mutex: the owner gives back what it inherited through
\* it, a waiter is woken if one sleeps, and the highest priority runs.
LEMMA UnlockInv ==
    ASSUME MutexInv, NEW m \in Mutex, unlock(m)
    PROVE  MutexInv'
<1>1. KernelInv /\ StructInv /\ Awake /\ NoLostWakeup /\ PriorityInv /\ SettledInv
  BY DEF MutexInv
<1>2. /\ ~sched.in_irq /\ pc[Current] = "user" /\ pc' = pc
      /\ Release(m) /\ sched' = schedule(Unlocked(sched, m))
      /\ timers' = timers /\ wq' = wq /\ sleep_on' = sleep_on
      /\ cursor' = cursor /\ stale' = stale
      /\ m \in Holds(Current)
      /\ mutex_queue' = [mutex_queue EXCEPT ![Current] = @ \ {m}]
      /\ owner' = [owner EXCEPT ![m] = NULL]
      /\ lock' = [lock EXCEPT ![m] = 1]
  BY DEF unlock, Release, Calls, At
<1>3. /\ Current \in Thread /\ Current \in Task /\ sched.in_irq = FALSE
      /\ sched.next = sched.current /\ sched \in SchedRecord
  BY <1>1, <1>2, ThreadRuns DEF KernelInv, Steady, Sound
<1>4. PICK c \in Thread : c = Current /\ c # NULL
  BY <1>3, SchedAssumption
<1> DEFINE v == InheritedPriority(sched, c, mutex_queue[c] \ {m}, wq)
           u == Unlocked(sched, m)
<1>5. MutexTypeOK /\ Consistent(m) /\ m # NULL
  BY <1>1, EachConsistent, MutexAssumption DEF StructInv
<1>6. UnlockedTo(sched, c, v, m, u) /\ v \in Prio
  <2>1. Steady(sched) /\ sched.current = Current
    BY <1>1 DEF KernelInv, Current
  <2> QED BY <1>3, <1>4, <1>5, <2>1, UnlockedEffect, InheritedIsMax
<1>7. sched' = schedule(u) /\ Steady(u) /\ u.in_irq = FALSE
  BY <1>2, <1>3, <1>6 DEF UnlockedTo
<1> HIDE DEF u
<1>8. /\ Steady(sched') /\ Settled(sched')
      /\ sched'.in_irq = FALSE /\ sched'.next = sched'.current
      /\ sched'.state[sched'.current] = "RUNNING"
      /\ sched'.state = u.state
      /\ sched'.priority = u.priority
      /\ sched'.effective_priority = u.effective_priority
  BY <1>7, SwitchStep
<1>9. /\ sched'.priority = sched.priority
      /\ \A x \in Task : sched'.state[x] = sched.state[x] \/ sched'.state[x] = "RUNNING"
      /\ Wakes(m) => \E i \in 1..Len(wq[m]) : sched'.state[wq[m][i]] = "RUNNING"
  BY <1>6, <1>8 DEF UnlockedTo
<1>10. Goto("user")
  BY <1>1, <1>2 DEF Goto, KernelInv
<1>11. KernelInv'
  <2>1. timers' \subseteq Thread /\ \A t \in Thread :
            sched'.state[t] = "NONE" => sched.state[t] = "NONE"
    BY <1>1, <1>2, <1>9 DEF KernelInv, Task
  <2> QED BY <1>1, <1>2, <1>3, <1>8, <1>10, <2>1, ThreadStep
<1>12. StructInv'
  <2>1. Outside("user")
    BY DEF Outside
  <2> QED BY <1>1, <1>2, <1>3, <1>10, <1>11, <2>1, ReleaseStruct
<1>13. Awake'
  BY <1>8 DEF Awake, Current
<1>14. owner[m] = c /\ \A x \in Mutex : owner'[x] = IF x = m THEN NULL ELSE owner[x]
  BY <1>1, <1>2, <1>3, <1>4, <1>5, HolderOwns DEF MutexTypeOK
<1>15. NoLostWakeup'
  <2>1. WakesUp(m)'
    <3>1. CASE Wakes(m)
      BY <1>2, <1>9, <3>1 DEF WakesUp
    <3>2. CASE ~Wakes(m)
      <4>1. wq[m] = <<>> \/ lock[m] = 0
        BY <3>2 DEF Wakes
      <4>2. wq[m] # <<>> => \E i \in 1..Len(wq[m]) : sched.state[wq[m][i]] = "RUNNING"
        BY <1>1, <4>1 DEF NoLostWakeup
      <4>3. \A i \in 1..Len(wq[m]) : wq[m][i] \in Task
        BY <1>5 DEF MutexTypeOK, Task
      <4> QED BY <1>2, <1>9, <4>2, <4>3 DEF WakesUp
    <3> QED BY <3>1, <3>2
  <2>2. \A x \in Mutex : x # m =>
            /\ wq'[x] = wq[x] /\ lock'[x] = lock[x] /\ owner'[x] = owner[x]
    BY <1>2, <1>5, <1>14 DEF MutexTypeOK
  <2>3. \A t \in Thread : sched.state[t] = "RUNNING" => sched'.state[t] = "RUNNING"
    BY <1>9 DEF Task
  <2> QED BY <1>1, <2>1, <2>2, <2>3, WakeupStep
<1>16. \A w, x \in Thread : x # c => (WaitsFor(w, x)' <=> WaitsFor(w, x))
  <2>1. \A w \in Thread : sleep_on[w] \in Mutex \cup {NULL}
    BY <1>5 DEF MutexTypeOK, Task
  <2>2. \A x \in Thread : x # NULL
    BY SchedAssumption
  <2> QED BY <1>2, <1>14, <2>1, <2>2 DEF WaitsFor
<1>17. /\ sched'.effective_priority[c] = v
       /\ \A x \in Thread : x # c => sched'.effective_priority[x] = sched.effective_priority[x]
  <2>1. /\ sched'.effective_priority = [sched.effective_priority EXCEPT ![c] = v]
        /\ sched.effective_priority \in [Task -> Prio] /\ Thread \subseteq Task
    BY <1>3, <1>6, <1>8, Zenon DEF UnlockedTo, SchedRecord, Task
  <2> HIDE DEF v
  <2> QED BY <2>1
<1>18. sleep_on[c] = NULL /\ \A x : ~WaitsFor(c, x)
  BY <1>1, <1>2, <1>4 DEF StructInv, WaitPlaces, WaitsFor
<1>19. Inherited(c)' = v
  <2>1. mutex_queue'[c] = mutex_queue[c] \ {m}
    BY <1>2, <1>3, <1>4, <1>5 DEF MutexTypeOK
  <2> DEFINE M == mutex_queue[c] \ {m}
             W == Waiters(M, wq)
  <2>2. (StructInv => \A t \in Thread :
            /\ Waiters(mutex_queue[t], wq) = {w \in Thread : WaitsFor(w, t)}
            /\ ~WaitsFor(t, t))'
    BY WaitersOf, PTL
  <2>3. W = {w \in Thread : WaitsFor(w, c)'} /\ ~WaitsFor(c, c)'
    BY <1>2, <1>12, <2>1, <2>2
  <2>4. \A w \in W : sched'.effective_priority[w] = sched.effective_priority[w]
    BY <1>17, <2>3
  <2>5. sched'.priority[c] = sched.priority[c] /\ v = InheritedPriority(sched, c, M, wq)
    BY <1>9
  <2> HIDE DEF M
  <2>6. InheritedPriority(sched', c, M, wq) = InheritedPriority(sched, c, M, wq)
    BY <2>4, <2>5, InheritedSame
  <2> QED BY <1>2, <2>1, <2>5, <2>6 DEF Inherited, M
<1>20. PriorityInv'
  <2>1. \A x : ~Due(x)
    BY <1>1, <1>2, NothingDue DEF Walking
  <2>2. \A x, w \in Thread : WaitsFor(w, x) =>
            sched'.effective_priority[w] = sched.effective_priority[w]
    BY <1>17, <1>18
  <2>3. v <= v
    BY <1>6 DEF Prio
  <2> HIDE DEF v
  <2> QED BY <1>1, <1>2, <1>9, <1>11, <1>12, <1>16, <1>17, <1>19, <2>1, <2>2, <2>3, PriorityStep
<1>21. SettledInv'
  BY <1>8 DEF SettledInv
<1> QED BY <1>11, <1>12, <1>13, <1>15, <1>20, <1>21 DEF MutexInv

-----------------------------------------------------------------------------
(***************************************************************************)
(* pthread_setschedprio().                                                 *)
(***************************************************************************)
\* The state left by the stores to the two priorities of a thread.
ReprioritizedTo(s, t, p, v, u) ==
    /\ Steady(u)
    /\ u.priority = [s.priority EXCEPT ![t] = p]
    /\ u.effective_priority = [s.effective_priority EXCEPT ![t] = v]
    /\ u.state = s.state
    /\ u.linked = s.linked
    /\ u.current = s.current
    /\ u.next = s.next
    /\ u.in_irq = s.in_irq

\* A thread with a new priority takes on the highest of that and of the
\* priorities of those who wait for it.
LEMMA ReprioritizedEffect ==
    ASSUME KernelInv, StructInv, NEW t \in Thread, NEW p \in Prio
    PROVE  \E v \in Prio :
               /\ ReprioritizedTo(sched, t, p, v, Reprioritized(t, p))
               /\ p <= v
               /\ \A w \in Thread : WaitsFor(w, t) => sched.effective_priority[w] <= v
               /\ v = p \/ \E w \in Thread : WaitsFor(w, t) /\ v = sched.effective_priority[w]
<1> DEFINE r == [sched EXCEPT !.priority[t] = p]
           W == Waiters(mutex_queue[t], wq)
           v == InheritedPriority(r, t, mutex_queue[t], wq)
           u == SetEffectivePriority(r, t, v)
<1>1. t \in Task /\ Steady(sched) /\ sched \in SchedRecord
  BY DEF KernelInv, Steady, Sound, Task
<1>2. /\ Steady(r)
      /\ r.priority = [sched.priority EXCEPT ![t] = p]
      /\ r.effective_priority = sched.effective_priority
      /\ r.state = sched.state /\ r.linked = sched.linked
      /\ r.current = sched.current /\ r.next = sched.next /\ r.in_irq = sched.in_irq
  BY <1>1, StorePriority
<1>3. Reprioritized(t, p) = u
  BY DEF Reprioritized, __pthread_setschedprio
<1> HIDE DEF r
<1>4. r \in SchedRecord /\ r.priority[t] = p
  BY <1>1, <1>2 DEF Steady, Sound, SchedRecord
<1>5. /\ v \in Prio
      /\ r.priority[t] <= v
      /\ \A w \in W : r.effective_priority[w] <= v
      /\ v = r.priority[t] \/ \E w \in W : v = r.effective_priority[w]
  BY <1>1, <1>4, InheritedIsMax
<1>6. W = {w \in Thread : WaitsFor(w, t)}
  BY WaitersOf
<1> HIDE DEF v, W
<1>7. PrioritySet(r, t, v, u)
  BY <1>1, <1>2, <1>5, SetPriorityEffect
<1> HIDE DEF u
<1>8. ReprioritizedTo(sched, t, p, v, u)
  BY <1>2, <1>7, Zenon DEF ReprioritizedTo, PrioritySet
<1> QED BY <1>2, <1>3, <1>4, <1>5, <1>6, <1>8

\* A change of a thread's priority keeps PriorityInv if the owner it waits for
\* is due a visit, or if what it waits for does not notice.
LEMMA SetPrioPriority ==
    ASSUME MutexInv, ~Walking, KernelInv', StructInv',
           NEW t \in Thread, NEW p \in Prio, NEW v \in Prio,
           p <= v,
           \A w \in Thread : WaitsFor(w, t) => sched.effective_priority[w] <= v,
           v = p \/ \E w \in Thread : WaitsFor(w, t) /\ v = sched.effective_priority[w],
           sched'.priority = [sched.priority EXCEPT ![t] = p],
           sched'.effective_priority = [sched.effective_priority EXCEPT ![t] = v],
           owner' = owner, sleep_on' = sleep_on, stale \subseteq stale',
           \A x \in Thread : WaitsFor(t, x) =>
               \/ "set" \in stale'
               \/ Due(x)'
               \/ v = sched.effective_priority[t]
    PROVE  PriorityInv'
<1>1. KernelInv /\ StructInv /\ PriorityInv
  BY DEF MutexInv
<1>2. /\ sched.priority \in [Task -> Prio] /\ sched.effective_priority \in [Task -> Prio]
      /\ Thread \subseteq Task
  BY <1>1 DEF KernelInv, Steady, Sound, SchedRecord, Task
<1>3. \A x \in Thread :
          /\ sched'.priority[x] = IF x = t THEN p ELSE sched.priority[x]
          /\ sched'.effective_priority[x] = IF x = t THEN v ELSE sched.effective_priority[x]
  BY <1>2
<1>4. \A w, x : WaitsFor(w, x)' <=> WaitsFor(w, x)
  BY DEF WaitsFor
<1>5. \A x : ~Due(x)
  BY <1>1, NothingDue
<1>6. ~WaitsFor(t, t)
  BY <1>1, WaitersOf
<1>7. Inherited(t)' = v
  <2>1. /\ Inherited(t)' \in Prio
        /\ sched'.priority[t] <= Inherited(t)'
        /\ \A w \in Thread : WaitsFor(w, t)' => sched'.effective_priority[w] <= Inherited(t)'
        /\ \/ Inherited(t)' = sched'.priority[t]
           \/ \E w \in Thread : WaitsFor(w, t)' /\ Inherited(t)' = sched'.effective_priority[w]
    BY InheritedBoundsAfter
  <2>2. /\ Inherited(t)' \in Prio
        /\ p <= Inherited(t)'
        /\ \A w \in Thread : WaitsFor(w, t) => sched.effective_priority[w] <= Inherited(t)'
        /\ \/ Inherited(t)' = p
           \/ \E w \in Thread : WaitsFor(w, t) /\ Inherited(t)' = sched.effective_priority[w]
    BY <1>3, <1>4, <1>6, <2>1
  <2>3. v <= Inherited(t)' /\ Inherited(t)' <= v
    BY <2>2
  <2> QED BY <2>2, <2>3 DEF Prio
<1>8. v <= v
  BY DEF Prio
<1>9. ASSUME NEW x \in Thread, x # t, "set" \notin stale', ~Due(x)'
      PROVE  /\ ~Due(x)
             /\ sched'.priority[x] = sched.priority[x]
             /\ sched'.effective_priority[x] = sched.effective_priority[x]
             /\ \A w \in Thread : WaitsFor(w, x)' <=> WaitsFor(w, x)
             /\ \A w \in Thread : WaitsFor(w, x) =>
                   sched'.effective_priority[w] = sched.effective_priority[w]
  BY <1>3, <1>4, <1>5, <1>9
<1> QED BY <1>1, <1>3, <1>7, <1>8, <1>9, PriorityStep

\* A step that changes nothing in the records of owners and waiters and moves
\* only the current thread, outside a walk before and after it.
LEMMA SameStruct ==
    ASSUME KernelInv, KernelInv', StructInv, Current \in Thread, ~Walking,
           UNCHANGED <<structVars, cursor, held>>, stale' \subseteq {"set", "passed"}, pc' = pc
    PROVE  StructInv'
<1>1. MutexTypeOK /\ OwnershipOK /\ WaitPlaces /\ RanksOK
  BY DEF StructInv
<1>2. /\ lock' = lock /\ owner' = owner /\ recursive_count' = recursive_count
      /\ wq' = wq /\ sleep_on' = sleep_on /\ mutex_queue' = mutex_queue
      /\ cursor' = cursor /\ held' = held
  BY DEF structVars
<1>3. MutexTypeOK' /\ OwnershipOK' /\ RanksOK'
  BY <1>1, <1>2 DEF MutexTypeOK, OwnershipOK, RanksOK, Holds
<1>4. \A t \in Thread : pc'[t] \notin {"lock_spread", "setprio_spread", "fault"}
  BY <1>1 DEF WaitPlaces, Walking
<1>5. pc'[Current'] \notin {"lock_spread", "setprio_spread", "fault"}
  <2>1. Current' \in Thread \/ Current' = Idle
    BY DEF KernelInv, Steady, Sound, SchedRecord, Current, Task
  <2> QED BY <1>4, <2>1 DEF KernelInv, PlacesOK
<1>6. WaitPlaces'
  BY <1>1, <1>2, <1>4, <1>5 DEF WaitPlaces, Walking
<1> QED BY <1>3, <1>6 DEF StructInv

\* The new priority is already in effect.
LEMMA SetPrioSameInv ==
    ASSUME MutexInv, NEW t \in Thread, NEW p \in Priorities, setprio_same(t, p)
    PROVE  MutexInv'
<1>1. KernelInv /\ StructInv /\ Awake /\ NoLostWakeup /\ PriorityInv /\ SettledInv
  BY DEF MutexInv
<1>2. /\ ~sched.in_irq /\ pc[Current] = "user"
      /\ sched.effective_priority[t] = p
      /\ sched' = [sched EXCEPT !.priority[t] = p]
      /\ pc' = pc /\ timers' = timers
      /\ UNCHANGED <<structVars, cursor, held, stale>>
      /\ lock' = lock /\ owner' = owner /\ wq' = wq /\ sleep_on' = sleep_on
      /\ cursor' = cursor /\ stale' = stale
  BY DEF setprio_same, Calls, At, mutexVars, structVars
<1>3. /\ Current \in Thread /\ sched.in_irq = FALSE
      /\ sched.next = sched.current /\ Steady(sched) /\ t \in Task /\ p \in Prio
  BY <1>1, <1>2, ThreadRuns, PrioritiesAssumption DEF KernelInv, Task
<1>4. /\ Steady(sched')
      /\ sched'.priority = [sched.priority EXCEPT ![t] = p]
      /\ sched'.effective_priority = sched.effective_priority
      /\ sched'.state = sched.state /\ sched'.linked = sched.linked
      /\ sched'.current = sched.current /\ sched'.next = sched.next
      /\ sched'.in_irq = sched.in_irq
  BY <1>2, <1>3, StorePriority
<1>5. Goto("user") /\ timers' \subseteq Thread
  BY <1>1, <1>2 DEF Goto, KernelInv
<1>6. KernelInv'
  BY <1>1, <1>2, <1>3, <1>4, <1>5, ThreadStep
<1>7. ~Walking
  BY <1>2 DEF Walking
<1>8. StructInv'
  BY <1>1, <1>2, <1>3, <1>6, <1>7, SameStruct DEF StructInv, MutexTypeOK
<1>9. Awake'
  BY <1>1, <1>2, <1>4 DEF Awake, Current
<1>10. NoLostWakeup'
  BY <1>1, <1>2, <1>4, WakeupStep
<1>11. PriorityInv'
  <2>1. /\ sched.priority \in [Task -> Prio] /\ Thread \subseteq Task
    BY <1>3 DEF Steady, Sound, SchedRecord, Task
  <2>2. \A x \in Thread : sched'.priority[x] = IF x = t THEN p ELSE sched.priority[x]
    BY <1>4, <2>1
  <2>3. \A w, x : WaitsFor(w, x)' <=> WaitsFor(w, x)
    BY <1>2 DEF WaitsFor
  <2>4. \A x : ~Due(x)
    BY <1>1, <1>7, NothingDue
  <2>5. /\ Inherited(t) \in Prio
        /\ \A w \in Thread : WaitsFor(w, t) => sched.effective_priority[w] <= Inherited(t)
    BY <1>1, InheritedBounds
  <2>6. /\ Inherited(t)' \in Prio
        /\ p <= Inherited(t)'
        /\ \/ Inherited(t)' = p
           \/ \E w \in Thread : WaitsFor(w, t) /\ Inherited(t)' = sched.effective_priority[w]
    <3>1. /\ Inherited(t)' \in Prio
          /\ sched'.priority[t] <= Inherited(t)'
          /\ \/ Inherited(t)' = sched'.priority[t]
             \/ \E w \in Thread : WaitsFor(w, t)' /\ Inherited(t)' = sched'.effective_priority[w]
      BY <1>6, <1>8, InheritedBoundsAfter
    <3> QED BY <1>4, <2>2, <2>3, <3>1
  <2>7. ASSUME stale' = {} PROVE p = Inherited(t)'
    <3>1. p = Inherited(t)
      BY <1>1, <1>2, <2>4, <2>7 DEF PriorityInv
    <3>2. Inherited(t)' <= p
      BY <1>3, <2>5, <2>6, <3>1 DEF Prio
    <3> QED BY <1>3, <2>6, <3>2 DEF Prio
  <2> QED BY <1>1, <1>2, <1>4, <1>6, <1>8, <2>2, <2>3, <2>4, <2>6, <2>7, PriorityStep
<1>12. SettledInv'
  <2>1. "set" \in stale \/ Settled(sched)
    BY <1>1, <1>2, <1>7 DEF SettledInv, AboutToSleep
  <2>2. Settled(sched) => Settled(sched')
    BY <1>4 DEF Settled, Highest
  <2> QED BY <1>2, <2>1, <2>2 DEF SettledInv
<1> QED BY <1>6, <1>8, <1>9, <1>10, <1>11, <1>12 DEF MutexInv

\* A thread on the run queue, or one whose effective priority stays the same:
\* the highest priority runs at once.
LEMMA SetPrioInv ==
    ASSUME MutexInv, NEW t \in Thread, NEW p \in Priorities, setprio(t, p)
    PROVE  MutexInv'
<1>1. KernelInv /\ StructInv /\ Awake /\ NoLostWakeup /\ PriorityInv /\ SettledInv
  BY DEF MutexInv
<1> DEFINE u == Reprioritized(t, p)
<1>2. /\ ~sched.in_irq /\ pc[Current] = "user"
      /\ ~MustSpread(t, p)
      /\ sched' = schedule(u)
      /\ stale' = stale \cup (IF sleep_on[t] # NULL /\ t \in sched.linked THEN {"set"} ELSE {})
      /\ pc' = pc /\ timers' = timers
      /\ UNCHANGED <<structVars, cursor, held>>
      /\ lock' = lock /\ owner' = owner /\ wq' = wq /\ sleep_on' = sleep_on
      /\ cursor' = cursor
  BY DEF setprio, Calls, At, structVars
<1>3. /\ Current \in Thread /\ sched.in_irq = FALSE /\ p \in Prio
  BY <1>1, <1>2, ThreadRuns, PrioritiesAssumption
<1>4. PICK v \in Prio :
          /\ ReprioritizedTo(sched, t, p, v, u)
          /\ p <= v
          /\ \A w \in Thread : WaitsFor(w, t) => sched.effective_priority[w] <= v
          /\ v = p \/ \E w \in Thread : WaitsFor(w, t) /\ v = sched.effective_priority[w]
  BY <1>1, <1>3, ReprioritizedEffect
<1>5. t \in sched.linked \/ u.effective_priority[t] = sched.effective_priority[t]
  BY <1>2 DEF MustSpread
<1> HIDE DEF u
<1>6. /\ Steady(sched') /\ Settled(sched')
      /\ sched'.in_irq = FALSE /\ sched'.next = sched'.current
      /\ sched'.state[sched'.current] = "RUNNING"
      /\ sched'.state = u.state
      /\ sched'.priority = u.priority
      /\ sched'.effective_priority = u.effective_priority
  BY <1>2, <1>3, <1>4, SwitchStep DEF ReprioritizedTo
<1>7. /\ sched'.state = sched.state
      /\ sched'.priority = [sched.priority EXCEPT ![t] = p]
      /\ sched'.effective_priority = [sched.effective_priority EXCEPT ![t] = v]
  BY <1>4, <1>6, Zenon DEF ReprioritizedTo
<1>8. KernelInv'
  <2>1. Goto("user") /\ timers' \subseteq Thread
    BY <1>1, <1>2 DEF Goto, KernelInv
  <2> QED BY <1>1, <1>2, <1>3, <1>6, <1>7, <2>1, ThreadStep
<1>9. ~Walking
  BY <1>2 DEF Walking
<1>10. StructInv'
  BY <1>1, <1>2, <1>3, <1>8, <1>9, SameStruct DEF StructInv, MutexTypeOK
<1>11. Awake'
  BY <1>6 DEF Awake, Current
<1>12. NoLostWakeup'
  BY <1>1, <1>2, <1>7, WakeupStep
<1>13. PriorityInv'
  <2>1. ASSUME NEW x \in Thread, WaitsFor(t, x), "set" \notin stale'
        PROVE  v = sched.effective_priority[t]
    <3>1. u.effective_priority[t] = sched.effective_priority[t]
      BY <1>2, <1>5, <2>1 DEF WaitsFor
    <3>2. sched.effective_priority \in [Task -> Prio] /\ t \in Task
      BY <1>1 DEF KernelInv, Steady, Sound, SchedRecord, Task
    <3> QED BY <1>4, <3>1, <3>2 DEF ReprioritizedTo
  <2>2. stale \subseteq stale'
    BY <1>2
  <2> QED BY <1>2, <1>3, <1>4, <1>7, <1>8, <1>9, <1>10, <2>1, <2>2, SetPrioPriority
<1>14. SettledInv'
  BY <1>6 DEF SettledInv
<1> QED BY <1>8, <1>10, <1>11, <1>12, <1>13, <1>14 DEF MutexInv

\* A thread off the run queue: the owner it waits for is due.
LEMMA SetPrioSleepingInv ==
    ASSUME MutexInv, NEW t \in Thread, NEW p \in Priorities, setprio_sleeping(t, p)
    PROVE  MutexInv'
<1>1. KernelInv /\ StructInv /\ Awake /\ NoLostWakeup /\ PriorityInv /\ SettledInv
  BY DEF MutexInv
<1>2. /\ ~sched.in_irq /\ pc[Current] = "user"
      /\ sched' = Reprioritized(t, p)
      /\ cursor' = t
      /\ Goto("setprio_spread")
      /\ timers' = timers
      /\ lock' = lock /\ owner' = owner /\ recursive_count' = recursive_count
      /\ wq' = wq /\ sleep_on' = sleep_on /\ mutex_queue' = mutex_queue
      /\ held' = held /\ stale' = stale
  BY DEF setprio_sleeping, Calls, At, structVars
<1>3. /\ Current \in Thread /\ sched.in_irq = FALSE /\ p \in Prio
      /\ sched.next = sched.current
  BY <1>1, <1>2, ThreadRuns, PrioritiesAssumption
<1>4. PICK v \in Prio :
          /\ ReprioritizedTo(sched, t, p, v, sched')
          /\ p <= v
          /\ \A w \in Thread : WaitsFor(w, t) => sched.effective_priority[w] <= v
          /\ v = p \/ \E w \in Thread : WaitsFor(w, t) /\ v = sched.effective_priority[w]
  BY <1>1, <1>2, <1>3, ReprioritizedEffect
<1>5. /\ Steady(sched')
      /\ sched'.in_irq = FALSE /\ sched'.next = sched'.current
      /\ sched'.state = sched.state
      /\ sched'.priority = [sched.priority EXCEPT ![t] = p]
      /\ sched'.effective_priority = [sched.effective_priority EXCEPT ![t] = v]
      /\ Current' = Current
  BY <1>3, <1>4 DEF ReprioritizedTo, Current
<1>6. KernelInv'
  <2>1. timers' \subseteq Thread
    BY <1>1, <1>2 DEF KernelInv
  <2> QED BY <1>1, <1>2, <1>3, <1>5, <2>1, ThreadStep
<1>7. \A x \in Thread : pc'[x] = IF x = Current THEN "setprio_spread" ELSE pc[x]
  BY <1>1, <1>2, <1>3, GotoEffect
<1>8. ~Walking /\ t # NULL
  BY <1>2, SchedAssumption DEF Walking
<1>9. StructInv'
  <2>1. MutexTypeOK /\ OwnershipOK /\ WaitPlaces /\ RanksOK
    BY <1>1 DEF StructInv
  <2>2. MutexTypeOK' /\ OwnershipOK' /\ RanksOK'
    BY <1>2, <2>1 DEF MutexTypeOK, OwnershipOK, RanksOK, Holds
  <2>3. WaitPlaces'
    BY <1>2, <1>3, <1>5, <1>7, <1>8, <2>1 DEF WaitPlaces, Walking
  <2> QED BY <2>2, <2>3 DEF StructInv
<1>10. Awake'
  BY <1>1, <1>2, <1>5 DEF Awake
<1>11. NoLostWakeup'
  BY <1>1, <1>2, <1>5, WakeupStep
<1>12. PriorityInv'
  <2>1. \A x \in Thread : WaitsFor(t, x) => Due(x)'
    BY <1>2, <1>8 DEF WaitsFor, Due
  <2> QED BY <1>2, <1>3, <1>4, <1>5, <1>6, <1>8, <1>9, <2>1, SetPrioPriority
<1>13. SettledInv'
  BY <1>3, <1>5, <1>7 DEF SettledInv, Walking
<1> QED BY <1>6, <1>9, <1>10, <1>11, <1>12, <1>13 DEF MutexInv

\* The end of the walk that pthread_setschedprio() starts.
LEMMA SetPrioDoneInv ==
    ASSUME MutexInv, setprio_done
    PROVE  MutexInv'
<1>1. KernelInv /\ StructInv /\ Awake /\ NoLostWakeup /\ PriorityInv /\ SettledInv
  BY DEF MutexInv
<1>2. /\ ~sched.in_irq /\ pc[Current] = "setprio_spread"
      /\ sleep_on[cursor] = NULL
      /\ sched' = schedule(sched)
      /\ cursor' = NULL
      /\ Goto("user")
      /\ timers' = timers
      /\ lock' = lock /\ owner' = owner /\ recursive_count' = recursive_count
      /\ wq' = wq /\ sleep_on' = sleep_on /\ mutex_queue' = mutex_queue
      /\ held' = held /\ stale' = stale
  BY DEF setprio_done, At, structVars
<1>3. Current \in Thread /\ sched.in_irq = FALSE /\ Steady(sched)
  BY <1>1, <1>2, ThreadRuns DEF KernelInv
<1>4. /\ Steady(sched') /\ Settled(sched')
      /\ sched'.in_irq = FALSE /\ sched'.next = sched'.current
      /\ sched'.state[sched'.current] = "RUNNING"
      /\ sched'.state = sched.state
      /\ sched'.priority = sched.priority
      /\ sched'.effective_priority = sched.effective_priority
  BY <1>2, <1>3, SwitchStep
<1>5. KernelInv'
  <2>1. timers' \subseteq Thread
    BY <1>1, <1>2 DEF KernelInv
  <2> QED BY <1>1, <1>2, <1>3, <1>4, <2>1, ThreadStep
<1>6. \A x \in Thread : pc'[x] = IF x = Current THEN "user" ELSE pc[x]
  BY <1>1, <1>2, <1>3, GotoEffect
<1>7. MutexTypeOK /\ OwnershipOK /\ WaitPlaces /\ RanksOK
  BY <1>1 DEF StructInv
<1>8. StructInv'
  <2>1. MutexTypeOK' /\ OwnershipOK' /\ RanksOK'
    BY <1>2, <1>7 DEF MutexTypeOK, OwnershipOK, RanksOK, Holds
  <2>2. \A t \in Thread : pc'[t] \notin {"lock_spread", "setprio_spread", "fault"}
    BY <1>6, <1>7 DEF WaitPlaces
  <2>3. pc'[Current'] \notin {"lock_spread", "setprio_spread", "fault"}
    <3>1. Current' \in Thread \/ Current' = Idle
      BY <1>5 DEF KernelInv, Steady, Sound, SchedRecord, Current, Task
    <3> QED BY <1>5, <2>2, <3>1 DEF KernelInv, PlacesOK
  <2>4. WaitPlaces'
    BY <1>2, <1>3, <1>6, <1>7, <2>2, <2>3 DEF WaitPlaces, Walking
  <2> QED BY <2>1, <2>4 DEF StructInv
<1>9. Awake'
  BY <1>4 DEF Awake, Current
<1>10. NoLostWakeup' /\ PriorityInv'
  <2>1. \A t \in Thread : Due(t) => Due(t)'
    BY <1>2 DEF Due
  <2> QED BY <1>1, <1>2, <1>4, <1>5, <1>8, <2>1, SameRecords
<1>11. SettledInv'
  BY <1>4 DEF SettledInv
<1> QED BY <1>5, <1>8, <1>9, <1>10, <1>11 DEF MutexInv

-----------------------------------------------------------------------------
\* Boot, the other calls of the threads and the timer interrupt know nothing of
\* mutexes and run only where nobody walks: the records stay as they are.
LEMMA SchedStruct ==
    ASSUME KernelInv', SchedMove, StructInv, UNCHANGED mutexVars
    PROVE  StructInv'
<1>1. /\ lock' = lock /\ owner' = owner /\ recursive_count' = recursive_count
      /\ wq' = wq /\ sleep_on' = sleep_on /\ mutex_queue' = mutex_queue
      /\ cursor' = cursor /\ held' = held /\ stale' = stale
  BY DEF mutexVars
<1>2. MutexTypeOK /\ OwnershipOK /\ WaitPlaces /\ RanksOK
  BY DEF StructInv
<1>3. ~Walking
  BY DEF SchedMove, Walking, Masked
<1>4. \A t \in Thread : pc'[t] # pc[t] => pc[t] \in SchedPc /\ pc'[t] \in SchedPc \ {"none"}
  BY DEF SchedMove, Task
<1>5. MutexTypeOK' /\ OwnershipOK' /\ RanksOK'
  BY <1>1, <1>2 DEF MutexTypeOK, OwnershipOK, RanksOK, Holds
<1>6. \A t \in Thread : pc'[t] \notin {"lock_spread", "setprio_spread", "fault"}
  BY <1>2, <1>3, <1>4 DEF WaitPlaces, Walking, SchedPc
<1>7. pc'[Current'] \notin {"lock_spread", "setprio_spread", "fault"}
  <2>1. Current' \in Thread \/ Current' = Idle
    BY DEF KernelInv, Steady, Sound, SchedRecord, Current, Task
  <2> QED BY <1>6, <2>1 DEF KernelInv, PlacesOK
<1>8. ASSUME NEW t \in Thread
      PROVE  /\ sleep_on'[t] # NULL => pc'[t] \in {"lock_spread", "lock_try", "fault"}
             /\ pc'[t] \in {"lock_spread", "lock_try"} => sleep_on'[t] # NULL
             /\ pc'[t] = "none" => sleep_on'[t] = NULL /\ mutex_queue'[t] = {}
  <2>1. CASE pc'[t] = pc[t]
    BY <1>1, <1>2, <2>1 DEF WaitPlaces
  <2>2. CASE pc'[t] # pc[t]
    BY <1>1, <1>2, <1>4, <2>2 DEF WaitPlaces, SchedPc
  <2> QED BY <2>1, <2>2
<1>9. WaitPlaces'
  BY <1>1, <1>2, <1>3, <1>6, <1>7, <1>8 DEF WaitPlaces, Walking
<1> QED BY <1>5, <1>9 DEF StructInv

\* They put no waiter to sleep.
LEMMA SchedStepInv ==
    ASSUME MutexInv, SchedNext, UNCHANGED mutexVars
    PROVE  MutexInv'
<1>1. KernelInv /\ StructInv /\ Awake /\ NoLostWakeup /\ PriorityInv /\ SettledInv
  BY DEF MutexInv
<1>2. KernelInv' /\ SchedMove
  BY <1>1, KernelStep
<1>3. /\ lock' = lock /\ owner' = owner /\ recursive_count' = recursive_count
      /\ wq' = wq /\ sleep_on' = sleep_on /\ mutex_queue' = mutex_queue
      /\ cursor' = cursor /\ held' = held /\ stale' = stale
  BY DEF mutexVars
<1>4. MutexTypeOK /\ OwnershipOK /\ WaitPlaces /\ RanksOK
  BY <1>1 DEF StructInv
<1>5. ~Walking /\ ~AboutToSleep
  BY <1>2 DEF SchedMove, Walking, AboutToSleep, Masked
<1>6. StructInv'
  BY <1>1, <1>2, SchedStruct
<1>7. Awake'
  BY <1>1, <1>2 DEF SchedMove
<1>8. NoLostWakeup'
  <2>1. ASSUME NEW t \in Thread, sleep_on[t] # NULL, sched.state[t] = "RUNNING"
        PROVE  sched'.state[t] = "RUNNING"
    <3>1. pc[t] # "user"
      BY <1>4, <2>1 DEF WaitPlaces
    <3> QED BY <1>2, <2>1, <3>1 DEF SchedMove
  <2> QED BY <1>1, <1>3, <2>1, WakeupStep, MutexAssumption
<1>9. PriorityInv'
  <2>1. CASE /\ sched'.priority = sched.priority
             /\ sched'.effective_priority = sched.effective_priority
    <3>1. \A w, x : WaitsFor(w, x)' <=> WaitsFor(w, x)
      BY <1>3 DEF WaitsFor
    <3>2. \A t \in Thread : Inherited(t)' = Inherited(t)
      BY <1>1, <1>2, <1>6, <2>1, <3>1, InheritedKept
    <3>3. \A x : Due(x)' <=> Due(x)
      BY <1>3 DEF Due
    <3> QED BY <1>1, <1>3, <2>1, <3>2, <3>3 DEF PriorityInv
  <2>2. ASSUME NEW t \in Thread, NEW p \in Prio,
               sched.state[t] = "NONE",
               sched'.priority = [sched.priority EXCEPT ![t] = p],
               sched'.effective_priority = [sched.effective_priority EXCEPT ![t] = p]
        PROVE  PriorityInv'
    <3>1. pc[t] = "none" /\ sleep_on[t] = NULL /\ mutex_queue[t] = {}
      BY <1>1, <1>4, <2>2 DEF KernelInv, PlacesOK, WaitPlaces
    <3>2. \A w \in Thread : ~WaitsFor(w, t)
      <4>1. Waiters(mutex_queue[t], wq) = {}
        BY <3>1 DEF Waiters
      <4> QED BY <1>1, <4>1, WaitersOf
    <3>3. \A x : ~WaitsFor(t, x)
      BY <3>1 DEF WaitsFor
    <3>4. p <= p
      BY DEF Prio
    <3> QED BY <1>2, <1>3, <1>5, <1>6, <2>2, <3>2, <3>3, <3>4, SetPrioPriority
  <2> QED BY <1>2, <2>1, <2>2 DEF SchedMove
<1>10. SettledInv'
  BY <1>1, <1>2, <1>3, <1>5 DEF SettledInv, SchedMove
<1> QED BY <1>2, <1>6, <1>7, <1>8, <1>9, <1>10 DEF MutexInv

\* Boot establishes the invariant.
LEMMA MutexInitInv == MutexInit => MutexInv
<1> SUFFICES ASSUME MutexInit PROVE MutexInv
  OBVIOUS
<1>1. /\ SchedInit
      /\ lock = [m \in Mutex |-> 1]
      /\ owner = [m \in Mutex |-> NULL]
      /\ recursive_count = [m \in Mutex |-> 0]
      /\ wq = [m \in Mutex |-> <<>>]
      /\ sleep_on = [t \in Task |-> NULL]
      /\ mutex_queue = [t \in Task |-> {}]
      /\ cursor = NULL
      /\ held = [t \in Thread |-> [m \in Mutex |-> 0]]
      /\ stale = {}
  BY DEF MutexInit
<1>2. KernelInv /\ Settled(sched)
  BY <1>1, SchedInitInv DEF SchedInv
<1>3. /\ Current = Idle /\ sched = pthread_init
      /\ \A t \in Task : sched.priority[t] = 0 /\ sched.effective_priority[t] = 0
  BY <1>1, InitEffect DEF SchedInit, Current
<1>4. pc[Idle] = "init" /\ (\A t \in Thread : pc[t] = "none") /\ Thread \subseteq Task
  BY <1>1, SchedAssumption DEF SchedInit, Task
<1>5. StructInv
  <2>1. MutexTypeOK
    BY <1>1 DEF MutexTypeOK
  <2>2. OwnershipOK
    <3>1. \A m \in Mutex : wq[m] = <<>> /\ \A t : ~InQueue(wq[m], t)
      BY <1>1 DEF InQueue
    <3>2. \A m \in Mutex, t \in Thread :
              /\ owner[m] = NULL /\ lock[m] = 1 /\ recursive_count[m] = 0
              /\ mutex_queue[t] = {} /\ sleep_on[t] = NULL /\ held[t][m] = 0
              /\ t # NULL /\ m # NULL
      BY <1>1, <1>4, SchedAssumption, MutexAssumption
    <3>3. \A m \in Mutex : owner[m] = NULL /\ lock[m] = 1 /\ recursive_count[m] = 0
      BY <1>1
    <3> QED BY <3>1, <3>2, <3>3 DEF OwnershipOK
  <2>3. WaitPlaces
    BY <1>1, <1>3, <1>4 DEF WaitPlaces, Walking
  <2>4. RanksOK
    BY <1>1, <1>4 DEF RanksOK
  <2> QED BY <2>1, <2>2, <2>3, <2>4 DEF StructInv
<1>6. Awake
  BY <1>2, <1>3 DEF Awake, KernelInv, Steady, Sound
<1>7. NoLostWakeup
  BY <1>1 DEF NoLostWakeup
<1>8. PriorityInv
  <2>1. \A w \in Thread : \A t : ~WaitsFor(w, t)
    BY <1>1, <1>4 DEF WaitsFor
  <2>2. \A t \in Thread : Inherited(t) = sched.priority[t]
    BY <1>2, <1>5, <2>1, InheritedBounds
  <2>3. \A t \in Thread : sched.effective_priority[t] = Inherited(t)
                            /\ sched.effective_priority[t] <= Inherited(t)
    BY <1>3, <1>4, <2>2
  <2> QED BY <2>3 DEF PriorityInv
<1>9. SettledInv
  BY <1>2 DEF SettledInv
<1> QED BY <1>2, <1>5, <1>6, <1>7, <1>8, <1>9 DEF MutexInv

\* Every step keeps the invariant.
LEMMA MutexNextInv == MutexInv /\ [MutexNext]_vars => MutexInv'
<1> SUFFICES ASSUME MutexInv, [MutexNext]_vars PROVE MutexInv'
  OBVIOUS
<1>1. CASE SchedNext /\ UNCHANGED mutexVars
  BY <1>1, SchedStepInv
<1>2. CASE Spread
  BY <1>2, SpreadStepInv, SpreadNullInv, LockSpreadDoneInv, SetPrioDoneInv DEF Spread
<1>3. ASSUME NEW m \in Mutex, Lock(m) PROVE MutexInv'
  <2>1. CASE lock_free(m)
    BY <2>1, TakeFreeInv DEF lock_free, Calls
  <2>2. CASE lock_again(m)
    BY <2>2, TakeAgainInv DEF lock_again, Calls
  <2>3. CASE lock_contend(m)
    BY <2>3, ContendInv DEF lock_contend, Calls
  <2>4. CASE trylock(m)
    BY <2>4, TakeFreeInv, TakeAgainInv DEF trylock, Calls
  <2>5. CASE lock_sleep(m)
    BY <2>5, LockSleepInv
  <2>6. CASE lock_win(m)
    BY <2>6, LockWinInv
  <2> QED BY <1>3, <2>1, <2>2, <2>3, <2>4, <2>5, <2>6 DEF Lock
<1>4. ASSUME NEW m \in Mutex, Unlock(m) PROVE MutexInv'
  BY <1>4, UnlockAgainInv, UnlockInv DEF Unlock
<1>5. ASSUME NEW t \in Thread, NEW p \in Priorities, SetPrio(t, p) PROVE MutexInv'
  BY <1>5, SetPrioSameInv, SetPrioInv, SetPrioSleepingInv DEF SetPrio
<1>6. CASE UNCHANGED vars
  <2>1. /\ sched' = sched /\ pc' = pc /\ timers' = timers
        /\ lock' = lock /\ owner' = owner /\ recursive_count' = recursive_count
        /\ wq' = wq /\ sleep_on' = sleep_on /\ mutex_queue' = mutex_queue
        /\ cursor' = cursor /\ held' = held /\ stale' = stale /\ Current' = Current
    BY <1>6 DEF vars, Current
  <2>2. KernelInv' /\ Awake' /\ NoLostWakeup' /\ SettledInv'
    BY <2>1 DEF MutexInv, KernelInv, PlacesOK, Awake, NoLostWakeup, SettledInv, Walking,
                AboutToSleep
  <2>3. StructInv'
    BY <2>1 DEF MutexInv, StructInv, MutexTypeOK, OwnershipOK, WaitPlaces, Walking, RanksOK, Holds
  <2>4. PriorityInv'
    BY <2>1 DEF MutexInv, PriorityInv, Due, Inherited
  <2> QED BY <2>2, <2>3, <2>4 DEF MutexInv
<1> QED BY <1>1, <1>2, <1>3, <1>4, <1>5, <1>6 DEF MutexNext

\* The invariant holds in every reachable state.
LEMMA MutexInvariant == MutexSpec => []MutexInv
<1>1. MutexInit => MutexInv
  BY MutexInitInv
<1>2. MutexInv /\ [MutexNext]_vars => MutexInv'
  BY MutexNextInv
<1> QED BY <1>1, <1>2, PTL DEF MutexSpec

-----------------------------------------------------------------------------
(***************************************************************************)
(* Theorems.                                                               *)
(***************************************************************************)
\* The records of pthread_mutex_lock(), _trylock() and _unlock() agree: who
\* owns a mutex, who waits for it, and how often it has been locked.
THEOREM OwnershipCorrect == MutexSpec => []OwnershipOK
<1>1. MutexInv => OwnershipOK
  BY DEF MutexInv, StructInv
<1> QED BY <1>1, MutexInvariant, PTL

\* pthread_mutex_unlock() never leaves a mutex with waiters that nobody wakes.
THEOREM WakeupCorrect == MutexSpec => []NoLostWakeup
<1>1. MutexInv => NoLostWakeup
  BY DEF MutexInv
<1> QED BY <1>1, MutexInvariant, PTL

\* The walks of __pthread_spread() and the priorities that lock and unlock set
\* keep every inherited priority exact, through chains of any length.
THEOREM InheritanceCorrect == MutexSpec => []InheritanceExact
<1>1. MutexInv => InheritanceExact
  <2> SUFFICES ASSUME MutexInv, stale = {}, ~Spreading, NEW t \in Thread
               PROVE  sched.effective_priority[t] = Inherited(t)
    BY DEF InheritanceExact, Inherited
  <2>1. KernelInv /\ WaitPlaces /\ PriorityInv
    BY DEF MutexInv, StructInv
  <2>2. pc[Current] \notin {"lock_spread", "setprio_spread"}
    BY <2>1 DEF Spreading, At, KernelInv, PlacesOK, Masked
  <2>3. ~Due(t)
    BY <2>1, <2>2, SchedAssumption DEF WaitPlaces, Walking, Due
  <2> QED BY <2>1, <2>3 DEF PriorityInv
<1> QED BY <1>1, MutexInvariant, PTL

\* Whatever is locked, unlocked or changed, the highest effective priority
\* runs.
THEOREM OwnerRunsCorrect == MutexSpec => []HighestOwnerRuns
<1>1. MutexInv => HighestOwnerRuns
  <2> SUFFICES ASSUME MutexInv, "set" \notin stale PROVE HighestRuns
    BY DEF HighestOwnerRuns
  <2>1. CASE Settled(sched)
    BY <2>1, SettledRuns DEF MutexInv
  <2>2. CASE Walking \/ AboutToSleep
    BY <2>2 DEF Walking, AboutToSleep, HighestRuns, Masked
  <2> QED BY <2>1, <2>2 DEF MutexInv, SettledInv
<1> QED BY <1>1, MutexInvariant, PTL

\* Locked in the order of Rank, mutexes never form a circle of owners, so that
\* the walk of __pthread_spread() ends.
THEOREM WalkCorrect == MutexSpec => []WalkEnds
<1>1. StructInv => WalkEnds
  <2> SUFFICES ASSUME StructInv, NEW S \in SUBSET Thread, S # {},
                      \A t \in S : sleep_on[t] # NULL /\ owner[sleep_on[t]] \in S
               PROVE  FALSE
    BY DEF WalkEnds
  <2>1. MutexTypeOK /\ RanksOK /\ \A m \in Mutex : Consistent(m)
    BY EachConsistent DEF StructInv
  <2>2. \A t \in S : sleep_on[t] \in Mutex
    BY <2>1 DEF MutexTypeOK, Task
  <2> DEFINE n == Cardinality(Mutex)
             X == {Rank[sleep_on[t]] : t \in S}
  <2>3. n \in Nat
    BY MutexAssumption, FS_CardinalityType
  <2>4. X \in SUBSET (0..n) /\ X # {}
    <3>1. \A m \in Mutex : Rank[m] \in 1..n
      BY MutexAssumption
    <3> QED BY <2>2, <2>3, <3>1
  <2>5. Max(X) \in X /\ \A x \in X : x <= Max(X)
    BY <2>3, <2>4, MaxOfSet
  <2>6. PICK t \in S : Max(X) = Rank[sleep_on[t]]
    BY <2>5
  <2>7. PICK o \in S : o = owner[sleep_on[t]]
    OBVIOUS
  <2>8. sleep_on[t] \in Holds(o)
    <3>1. sleep_on[t] \in Mutex /\ o # NULL
      BY <2>2, SchedAssumption
    <3>2. /\ held[o][sleep_on[t]] = recursive_count[sleep_on[t]]
          /\ recursive_count[sleep_on[t]] # 0
          /\ recursive_count[sleep_on[t]] \in Nat
      BY <2>1, <2>7, <3>1 DEF Consistent, MutexTypeOK
    <3> QED BY <3>1, <3>2 DEF Holds
  <2>9. Rank[sleep_on[t]] < Rank[sleep_on[o]]
    BY <2>1, <2>8 DEF RanksOK
  <2>10. Rank[sleep_on[o]] <= Rank[sleep_on[t]]
    BY <2>5, <2>6
  <2>11. Rank[sleep_on[o]] \in Int /\ Rank[sleep_on[t]] \in Int
    BY <2>2, MutexAssumption
  <2> QED BY <2>9, <2>10, <2>11
<1> QED BY <1>1, MutexInvariant, PTL DEF MutexInv

\* The mutexes and the walks use the run queue as it is meant to be used:
\* __pthread_setschedprio() moves a queued thread from queue to queue, and the
\* assertions of run_queue_peek() hold.
THEOREM MutexQueueCorrect == MutexSpec => [](RunQueueOK /\ PeekSafe /\ ReadyIsQueued /\ SliceLeft)
<1>1. MutexInv => RunQueueOK /\ PeekSafe /\ ReadyIsQueued /\ SliceLeft
  BY KernelProperties DEF MutexInv
<1> QED BY <1>1, MutexInvariant, PTL

\* The mutexes implement the abstract lock of LockSpec: a mutex is held by one
\* thread at a time, and only a recursive one is locked again by its holder.
THEOREM LockRefinement == MutexSpec => ImplementsLock
<1>1. MutexInit => Locks!Init
  BY DEF MutexInit, Locks!Init
<1>2. ASSUME MutexInv, [MutexNext]_vars PROVE [Locks!Next]_held
  <2>1. KernelInv /\ StructInv /\ MutexTypeOK
    BY <1>2 DEF MutexInv, StructInv
  <2>2. ASSUME NEW m \in Mutex, Own(m), lock[m] = 1, Current \in Thread PROVE Locks!Next
    <3>1. Consistent(m) /\ \A t \in Thread : t # NULL
      BY <2>1, EachConsistent, SchedAssumption DEF StructInv
    <3>2. \A t \in Thread : held[t][m] = 0
      BY <2>2, <3>1 DEF Consistent
    <3>3. Locks!Acquire(Current, m)
      BY <2>2, <3>2 DEF Own, Counts, Locks!Acquire, Locks!Free
    <3> QED BY <2>2, <3>3 DEF Locks!Next
  <2>3. ASSUME NEW m \in Mutex, TakeAgain(m), Current \in Thread PROVE Locks!Next
    <3>1. owner[m] = Current /\ m \in Recursive /\ Counts(Current, m, held[Current][m] + 1)
      BY <2>3 DEF TakeAgain
    <3>2. held[Current][m] > 0
      BY <2>1, <2>3, <3>1, EachConsistent, SchedAssumption DEF StructInv, Consistent, MutexTypeOK
    <3>3. Locks!Reacquire(Current, m)
      BY <3>1, <3>2 DEF Counts, Locks!Reacquire
    <3> QED BY <2>3, <3>3 DEF Locks!Next
  <2>4. ASSUME NEW m \in Mutex, m \in Holds(Current), Current \in Thread,
               Counts(Current, m, held[Current][m] - 1)
        PROVE  Locks!Next
    <3>1. Locks!Release(Current, m)
      BY <2>4 DEF Holds, Counts, Locks!Release
    <3> QED BY <2>4, <3>1 DEF Locks!Next
  <2>5. ASSUME At("user") \/ At("lock_try") PROVE Current \in Thread
    BY <2>1, <2>5, ThreadRuns DEF At
  <2>6. ASSUME NEW m \in Mutex, Lock(m) PROVE [Locks!Next]_held
    <3>1. CASE lock_free(m)
      BY <2>2, <2>5, <3>1 DEF lock_free, TakeFree, Calls
    <3>2. CASE lock_again(m)
      BY <2>3, <2>5, <3>2 DEF lock_again, Calls
    <3>3. CASE lock_contend(m)
      BY <3>3 DEF lock_contend, Contend
    <3>4. CASE trylock(m)
      BY <2>2, <2>3, <2>5, <3>4 DEF trylock, TakeFree, Calls
    <3>5. CASE lock_sleep(m)
      BY <3>5 DEF lock_sleep
    <3>6. CASE lock_win(m)
      BY <2>2, <2>5, <3>6 DEF lock_win
    <3> QED BY <2>6, <3>1, <3>2, <3>3, <3>4, <3>5, <3>6 DEF Lock
  <2>7. ASSUME NEW m \in Mutex, Unlock(m) PROVE Locks!Next
    <3>1. CASE unlock_again(m)
      BY <2>4, <2>5, <3>1 DEF unlock_again, CountDown, Calls
    <3>2. CASE unlock(m)
      <4>1. Current \in Thread /\ m \in Holds(Current) /\ recursive_count[m] = 1
            /\ Counts(Current, m, 0)
        BY <2>5, <3>2 DEF unlock, Release, Calls
      <4>2. held[Current][m] = 1
        BY <2>1, <4>1, HolderOwns
      <4> QED BY <2>4, <4>1, <4>2
    <3> QED BY <2>7, <3>1, <3>2 DEF Unlock
  <2>8. CASE SchedNext /\ UNCHANGED mutexVars
    BY <2>8 DEF mutexVars
  <2>9. CASE Spread
    BY <2>9 DEF Spread, spread_step, spread_null, lock_spread_done, setprio_done, mutexVars
  <2>10. ASSUME NEW t \in Thread, NEW p \in Priorities, SetPrio(t, p) PROVE UNCHANGED held
    BY <2>10 DEF SetPrio, setprio_same, setprio, setprio_sleeping, mutexVars
  <2>11. CASE UNCHANGED vars
    BY <2>11 DEF vars
  <2> QED BY <1>2, <2>6, <2>7, <2>8, <2>9, <2>10, <2>11 DEF MutexNext
<1> QED BY <1>1, <1>2, MutexInvariant, PTL DEF MutexSpec, ImplementsLock, Locks!Spec
=============================================================================
