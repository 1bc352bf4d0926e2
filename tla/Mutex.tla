-------------------------------- MODULE Mutex --------------------------------
(***************************************************************************)
(* The pthread mutexes of kernel/pthread.c, with priority inheritance, on  *)
(* top of the scheduler: pthread_mutex_lock(), _trylock(), _unlock() and   *)
(* pthread_setschedprio().                                                 *)
(*                                                                         *)
(* lock is 1 (free), 0 (taken) or -1 (taken, and unlock must wake a        *)
(* waiter).  A woken waiter is not handed the mutex: it competes for it    *)
(* again when it runs, and stays in wq and keeps sleep_on until it wins.   *)
(*                                                                         *)
(* __pthread_spread() walks the chain of owners with interrupts disabled;  *)
(* one step is one iteration, cursor being the variable th of the walk.    *)
(* __pthread_setschedprio() may start a walk of its own from a thread that *)
(* is not on the run queue, but it visits the owners the outer walk visits *)
(* next, and there finds nothing left to change: one walk stands for both. *)
(*                                                                         *)
(* The application is any set of threads that unlock only what they hold,  *)
(* do not lock a non-recursive mutex they hold, and lock mutexes in the    *)
(* order of Rank, as applications/philosophers.c does with its forks; held *)
(* is the application's own account of what it has locked.                 *)
(***************************************************************************)
EXTENDS Sched

CONSTANTS
    Mutex,
    Recursive,  \* the mutexes of type PTHREAD_MUTEX_RECURSIVE_NP
    Rank,       \* the place of each mutex in the order of locking
    MaxCount    \* the bound on the depth of recursive locking

ASSUME MutexAssumption ==
    /\ NULL \notin Mutex
    /\ IsFiniteSet(Mutex)
    /\ Recursive \subseteq Mutex
    /\ Rank \in [Mutex -> 1..Cardinality(Mutex)]
    /\ MaxCount \in Nat

VARIABLES
    lock, owner, recursive_count, wq,   \* struct pthread_mutex
    sleep_on, mutex_queue,              \* struct pthread
    cursor,                             \* th in __pthread_spread()
    held,                               \* held[t][m]: the locks of m that t holds
    stale                               \* what may have left an inherited priority stale

structVars == <<lock, owner, recursive_count, wq, sleep_on, mutex_queue>>
mutexVars == <<lock, owner, recursive_count, wq, sleep_on, mutex_queue, cursor, held, stale>>
vars == <<sched, pc, timers, lock, owner, recursive_count, wq, sleep_on,
          mutex_queue, cursor, held, stale>>

-----------------------------------------------------------------------------
(***************************************************************************)
(* Priority inheritance: the effective priority of a thread is the highest *)
(* of its own and of those of the threads that wait for a mutex it owns.   *)
(***************************************************************************)
Waiters(mutexes, queue) == {t \in Thread : \E m \in mutexes : InQueue(queue[m], t)}

InheritedPriority(s, t, mutexes, queue) ==
    Max({s.priority[t]}
          \cup {s.effective_priority[w] : w \in Waiters(mutexes, queue)})

\* Mutant: an inherited priority is never given back.
OnlyRaises(s, t, prio) ==
    IF prio <= s.effective_priority[t] THEN s
    ELSE IF t \in s.linked
         THEN run_queue_enqueue(
                  [run_queue_dequeue(s, t) EXCEPT !.effective_priority[t] = prio],
                  t, TRUE)
         ELSE [s EXCEPT !.effective_priority[t] = prio]

\* Mutant: the priority is changed before the thread is dequeued.
DequeuesTooLate(s, t, prio) ==
    LET u == [s EXCEPT !.effective_priority[t] = prio]
    IN  IF s.effective_priority[t] # prio /\ t \in s.linked
        THEN run_queue_enqueue(run_queue_dequeue(u, t), t, TRUE)
        ELSE u

\* __pthread_setschedprio(), without the walk it may start.
SetEffectivePriority(s, t, prio) ==
    IF s.effective_priority[t] = prio THEN s
    ELSE IF t \in s.linked
         THEN run_queue_enqueue(
                  [run_queue_dequeue(s, t) EXCEPT !.effective_priority[t] = prio],
                  t, TRUE)
         ELSE [s EXCEPT !.effective_priority[t] = prio]

__pthread_setschedprio(s, t, mutexes, queue) ==
    SetEffectivePriority(s, t, InheritedPriority(s, t, mutexes, queue))

-----------------------------------------------------------------------------
MutexInit ==
    /\ SchedInit
    /\ lock = [m \in Mutex |-> 1]
    /\ owner = [m \in Mutex |-> NULL]
    /\ recursive_count = [m \in Mutex |-> 0]
    /\ wq = [m \in Mutex |-> <<>>]
    /\ sleep_on = [t \in Task |-> NULL]
    /\ mutex_queue = [t \in Task |-> {}]
    /\ cursor = NULL
    /\ held = [t \in Thread |-> [m \in Mutex |-> 0]]
    /\ stale = {}

Holds(t) == {m \in Mutex : held[t][m] > 0}
Counts(t, m, n) == held' = [held EXCEPT ![t][m] = n]

\* Mutant: a philosopher who takes any fork first.
AnyOrder(t, m) == m \in Recursive \/ m \notin Holds(t)

\* The discipline of the application: what it may lock without trylock.
MayLock(t, m) ==
    \/ m \in Recursive \cap Holds(t)
    \/ \A h \in Holds(t) : Rank[h] < Rank[m]

\* Mutant: the mutex is not linked to its owner.
OwnNoQueue(m) ==
    /\ owner' = [owner EXCEPT ![m] = Current]
    /\ recursive_count' = [recursive_count EXCEPT ![m] = 1]
    /\ Counts(Current, m, 1)
    /\ UNCHANGED mutex_queue

\* The stores that make the current thread the owner of m.
Own(m) ==
    /\ mutex_queue' = [mutex_queue EXCEPT ![Current] = @ \cup {m}]
    /\ owner' = [owner EXCEPT ![m] = Current]
    /\ recursive_count' = [recursive_count EXCEPT ![m] = 1]
    /\ Counts(Current, m, 1)

\* A thread of a higher priority than the current one waits for m.
PassesOver(m) ==
    \E i \in 1..Len(wq[m]) :
        sched.effective_priority[wq[m][i]] > sched.effective_priority[Current]

\* Mutant: any non-zero lock counts as free.
TakeNonZero(m) ==
    /\ lock[m] # 0
    /\ lock' = [lock EXCEPT ![m] = 0]
    /\ Own(m)
    /\ Goto("user")
    /\ UNCHANGED <<sched, timers, wq, sleep_on, cursor, stale>>

\* pthread_mutex_lock() and pthread_mutex_trylock() on a free mutex; there may
\* be waiters, woken or about to go to sleep again, that are passed over.  The
\* taker does not inherit their priorities.
TakeFree(m) ==
    /\ lock[m] = 1
    /\ lock' = [lock EXCEPT ![m] = 0]
    /\ Own(m)
    /\ stale' = stale \cup (IF PassesOver(m) THEN {"passed"} ELSE {})
    /\ Goto("user")
    /\ UNCHANGED <<sched, timers, wq, sleep_on, cursor>>

TakeAgain(m) ==
    /\ lock[m] # 1
    /\ m \in Recursive
    /\ owner[m] = Current
    /\ recursive_count[m] < MaxCount
    /\ recursive_count' = [recursive_count EXCEPT ![m] = @ + 1]
    /\ Counts(Current, m, held[Current][m] + 1)
    /\ Goto("user")
    /\ UNCHANGED <<sched, timers, lock, owner, wq, sleep_on, mutex_queue, cursor, stale>>

\* Otherwise the thread queues up and spreads its priority to the owner.
Contend(m) ==
    /\ lock[m] # 1
    /\ ~(m \in Recursive /\ owner[m] = Current)
    /\ wq' = [wq EXCEPT ![m] = TAILQ_INSERT_TAIL(@, Current)]
    /\ sleep_on' = [sleep_on EXCEPT ![Current] = m]
    /\ cursor' = Current
    /\ Goto("lock_spread")
    /\ UNCHANGED <<sched, timers, lock, owner, recursive_count, mutex_queue, held, stale>>

lock_free(m) == Calls("lock") /\ MayLock(Current, m) /\ TakeFree(m)

lock_again(m) == Calls("lock") /\ MayLock(Current, m) /\ TakeAgain(m)

lock_contend(m) == Calls("lock") /\ MayLock(Current, m) /\ Contend(m)

\* trylock returns EBUSY, and changes nothing, in every other case.
trylock(m) == Calls("trylock") /\ (TakeFree(m) \/ TakeAgain(m))

-----------------------------------------------------------------------------
(***************************************************************************)
(* __pthread_spread().                                                     *)
(***************************************************************************)
Spreading == At("lock_spread") \/ At("setprio_spread")

spread_step ==
    /\ Spreading
    /\ sleep_on[cursor] # NULL
    /\ LET th == owner[sleep_on[cursor]]
       IN  /\ th # NULL
           /\ sched' = __pthread_setschedprio(sched, th, mutex_queue[th], wq)
           /\ cursor' = th
    /\ UNCHANGED <<pc, timers, structVars, held, stale>>

\* The mutex has been unlocked and its next owner, who is awake, has not run
\* yet: __pthread_setschedprio(NULL), of which nothing can be said.
spread_null ==
    /\ Spreading
    /\ sleep_on[cursor] # NULL
    /\ owner[sleep_on[cursor]] = NULL
    /\ Goto("fault")
    /\ UNCHANGED <<sched, timers, mutexVars>>

lock_spread_done ==
    /\ At("lock_spread")
    /\ sleep_on[cursor] = NULL
    /\ cursor' = NULL
    /\ Goto("lock_try")
    /\ UNCHANGED <<sched, timers, structVars, held, stale>>

\* The loop of pthread_mutex_lock(): the thread sleeps and, when it is current
\* again, comes back here with interrupts still disabled ...
lock_sleep(m) ==
    /\ At("lock_try")
    /\ sleep_on[Current] = m
    /\ lock[m] # 1
    /\ lock' = [lock EXCEPT ![m] = -1]
    /\ sched' = Block(sched)
    /\ UNCHANGED <<pc, timers, owner, recursive_count, wq, sleep_on,
                   mutex_queue, cursor, held, stale>>

\* Mutant: the winner forgets the waiters it leaves behind.
ForgetsWaiters(q) == 0

\* The lock word left by a winner: unlock has to wake those who still wait.
LockAfterWin(q) == IF q = <<>> THEN 0 ELSE -1

\* ... until it finds the mutex free.
lock_win(m) ==
    /\ At("lock_try")
    /\ sleep_on[Current] = m
    /\ lock[m] = 1
    /\ LET q == TAILQ_REMOVE(wq[m], Current)
       IN  /\ wq' = [wq EXCEPT ![m] = q]
           /\ lock' = [lock EXCEPT ![m] = LockAfterWin(q)]
    /\ sleep_on' = [sleep_on EXCEPT ![Current] = NULL]
    /\ Own(m)
    /\ sched' = __pthread_setschedprio(sched, Current, mutex_queue'[Current], wq')
    /\ Goto("user")
    /\ UNCHANGED <<timers, cursor, stale>>

-----------------------------------------------------------------------------
(***************************************************************************)
(* pthread_mutex_unlock().                                                 *)
(***************************************************************************)
\* A recursive mutex that is still locked afterwards.
CountDown(m) ==
    /\ m \in Holds(Current)
    /\ recursive_count[m] # 1
    /\ recursive_count' = [recursive_count EXCEPT ![m] = @ - 1]
    /\ Counts(Current, m, held[Current][m] - 1)
    /\ UNCHANGED <<timers, lock, owner, wq, sleep_on, mutex_queue, cursor, stale>>

unlock_again(m) == Calls("unlock") /\ CountDown(m) /\ UNCHANGED <<sched, pc>>

\* The first of the waiters with the highest effective priority.
HighestWaiter(s, q) ==
    q[Min({i \in 1..Len(q) : \A j \in 1..Len(q) :
              s.effective_priority[q[j]] <= s.effective_priority[q[i]]})]

\* Whether unlock has a waiter to wake.
Wakes(m) == lock[m] # 0 /\ wq[m] # <<>>

\* The scheduler state just before the schedule() of an unlock of m.
Unlocked(s, m) ==
    LET u == __pthread_setschedprio(s, Current, mutex_queue[Current] \ {m}, wq)
    IN  IF Wakes(m) THEN __pthread_set_running(u, HighestWaiter(s, wq[m])) ELSE u

\* The stores of the last unlock to the mutex.
Release(m) ==
    /\ m \in Holds(Current)
    /\ recursive_count[m] = 1
    /\ recursive_count' = [recursive_count EXCEPT ![m] = 0]
    /\ mutex_queue' = [mutex_queue EXCEPT ![Current] = @ \ {m}]
    /\ owner' = [owner EXCEPT ![m] = NULL]
    /\ lock' = [lock EXCEPT ![m] = 1]
    /\ Counts(Current, m, 0)
    /\ UNCHANGED <<timers, wq, sleep_on, cursor, stale>>

\* Mutant: the thread goes on without calling schedule().
UnlockNoSchedule(m) ==
    /\ Calls("unlock")
    /\ Release(m)
    /\ sched' = Unlocked(sched, m)
    /\ UNCHANGED pc

unlock(m) ==
    /\ Calls("unlock")
    /\ Release(m)
    /\ sched' = schedule(Unlocked(sched, m))
    /\ UNCHANGED pc

-----------------------------------------------------------------------------
(***************************************************************************)
(* pthread_setschedprio(), on any thread that exists.                      *)
(***************************************************************************)
Alive(t) == sched.state[t] # "NONE"

\* The new priority is already in effect: only the field changes.
setprio_same(t, p) ==
    /\ Calls("setprio")
    /\ Alive(t)
    /\ sched.priority[t] # p
    /\ sched.effective_priority[t] = p
    /\ sched' = [sched EXCEPT !.priority[t] = p]
    /\ UNCHANGED <<pc, timers, mutexVars>>

Reprioritized(t, p) ==
    __pthread_setschedprio([sched EXCEPT !.priority[t] = p], t, mutex_queue[t], wq)

\* A thread that is not on the run queue passes its change on to the owners.
MustSpread(t, p) ==
    /\ t \notin sched.linked
    /\ Reprioritized(t, p).effective_priority[t] # sched.effective_priority[t]

setprio(t, p) ==
    /\ Calls("setprio")
    /\ Alive(t)
    /\ sched.priority[t] # p
    /\ sched.effective_priority[t] # p
    /\ ~MustSpread(t, p)
    /\ sched' = schedule(Reprioritized(t, p))
    /\ stale' = stale \cup (IF sleep_on[t] # NULL /\ t \in sched.linked THEN {"set"} ELSE {})
    /\ UNCHANGED <<pc, timers, structVars, cursor, held>>

setprio_sleeping(t, p) ==
    /\ Calls("setprio")
    /\ Alive(t)
    /\ sched.priority[t] # p
    /\ sched.effective_priority[t] # p
    /\ MustSpread(t, p)
    /\ sched' = Reprioritized(t, p)
    /\ cursor' = t
    /\ Goto("setprio_spread")
    /\ UNCHANGED <<timers, structVars, held, stale>>

setprio_done ==
    /\ At("setprio_spread")
    /\ sleep_on[cursor] = NULL
    /\ sched' = schedule(sched)
    /\ cursor' = NULL
    /\ Goto("user")
    /\ UNCHANGED <<timers, structVars, held, stale>>

-----------------------------------------------------------------------------
Spread == spread_step \/ spread_null \/ lock_spread_done \/ setprio_done

Lock(m) ==
    \/ lock_free(m) \/ lock_again(m) \/ lock_contend(m) \/ trylock(m)
    \/ lock_sleep(m) \/ lock_win(m)

Unlock(m) == unlock_again(m) \/ unlock(m)

SetPrio(t, p) == setprio_same(t, p) \/ setprio(t, p) \/ setprio_sleeping(t, p)

MutexNext ==
    \/ SchedNext /\ UNCHANGED mutexVars
    \/ Spread
    \/ \E m \in Mutex : Lock(m) \/ Unlock(m)
    \/ \E t \in Thread, p \in Priorities : SetPrio(t, p)

MutexSpec == MutexInit /\ [][MutexNext]_vars

-----------------------------------------------------------------------------
(***************************************************************************)
(* Properties.                                                             *)
(***************************************************************************)
\* The three places that record who owns a mutex (lock, owner and the queue of
\* the owner), and the two that record who waits for it (wq and sleep_on),
\* agree, also after a thread has taken the mutex past its waiters.
OwnershipOK ==
    /\ \A m \in Mutex, t \in Thread :
          /\ owner[m] = t <=> m \in mutex_queue[t]
          /\ sleep_on[t] = m <=> InQueue(wq[m], t)
          /\ held[t][m] = IF owner[m] = t THEN recursive_count[m] ELSE 0
    /\ \A m \in Mutex :
          /\ owner[m] = NULL <=> lock[m] = 1
          /\ owner[m] = NULL <=> recursive_count[m] = 0
          /\ \A i, j \in 1..Len(wq[m]) : wq[m][i] = wq[m][j] => i = j

\* No wake-up is lost: while threads wait, either unlock will wake one (lock is
\* -1, and there is an owner to unlock it) or one is awake and will try again.
NoLostWakeup ==
    \A m \in Mutex :
        wq[m] # <<>> =>
            \/ lock[m] = -1 /\ owner[m] # NULL
            \/ \E i \in 1..Len(wq[m]) : sched.state[wq[m][i]] = "RUNNING"

\* Priority inheritance is exact: outside a walk, every thread runs at the
\* highest of its own priority and of those of the threads waiting for a mutex
\* it owns, through any chain of owners, and drops back when it unlocks.  Two
\* things alone can leave it stale: pthread_setschedprio() on a waiter that is
\* awake, and taking a free mutex past a waiter of a higher priority.
InheritanceExact ==
    stale = {} /\ ~Spreading =>
        \A t \in Thread :
            sched.effective_priority[t] =
                InheritedPriority(sched, t, mutex_queue[t], wq)

\* The highest of the effective priorities runs, whatever is locked, unlocked
\* or changed, unless pthread_setschedprio() was called on a waiter awake.
HighestOwnerRuns == "set" \in stale \/ HighestRuns

\* __pthread_spread() never passes a null owner to __pthread_setschedprio().
NoNullOwner == pc[Current] # "fault"

\* The mutexes implement the abstract lock: what threads hold is what LockSpec
\* lets them hold.
Locks == INSTANCE LockSpec
ImplementsLock == Locks!Spec

\* The walk of __pthread_spread(), with interrupts disabled, ends: no thread
\* waits, through any chain of owners, for a mutex of its own.
WalkEnds ==
    \A S \in (SUBSET Thread) \ {{}} :
        \E t \in S : sleep_on[t] = NULL \/ owner[sleep_on[t]] \notin S
=============================================================================
