-------------------------------- MODULE Cond --------------------------------
(***************************************************************************)
(* The condition variables of kernel/pthread.c, on top of the mutexes:     *)
(* pthread_cond_wait(), _timedwait(), _signal() and _broadcast().          *)
(*                                                                         *)
(* A wait has interrupts disabled from its first statement to its last.    *)
(* It marks the thread SLEEPING before it calls pthread_mutex_unlock(), so *)
(* that the schedule() in there puts the thread to sleep; the schedule()   *)
(* or schedule_timeout() that follows runs when it has been woken.  The    *)
(* mutex is locked again as by pthread_mutex_lock(), whose last step is    *)
(* here that of the wait too.                                              *)
(*                                                                         *)
(* Whether abstime has passed when clock_gettime() is called is left open. *)
(***************************************************************************)
EXTENDS Mutex

CONSTANT Cond

VARIABLES
    cond_wq,    \* cond_wq[c]: the threads whose struct wait is in c's wq
    waits       \* waits[t]: {} or {the arguments of the wait t is in}

condVars == <<cond_wq, waits>>
allVars == <<vars, cond_wq, waits>>

CondInit ==
    /\ MutexInit
    /\ cond_wq = [c \in Cond |-> <<>>]
    /\ waits = [t \in Thread |-> {}]

-----------------------------------------------------------------------------
(***************************************************************************)
(* pthread_cond_timedwait(); kind is "wait" when abstime is NULL.          *)
(***************************************************************************)
Args(c, m, kind) == [cond |-> c, mutex |-> m, kind |-> kind]

\* The scheduler state when the unlock in the wait begins.
FallingAsleep == [sched EXCEPT !.state[Current] = "SLEEPING"]

\* Mutant: the thread joins the queue only when it goes on after the unlock.
EnqueueLate(c) == UNCHANGED cond_wq

Enqueue(c) == cond_wq' = [cond_wq EXCEPT ![c] = TAILQ_INSERT_TAIL(@, Current)]

\* The mutex is the last one the application has locked.  Held once, unlocking
\* it puts the thread to sleep; held more often, it does not.
cond_wait(c, m, kind) ==
    /\ Calls(kind)
    /\ \A h \in Holds(Current) \ {m} : Rank[h] < Rank[m]
    /\ Enqueue(c)
    /\ waits' = [waits EXCEPT ![Current] = {Args(c, m, kind)}]
    /\ \/ Release(m) /\ sched' = schedule(Unlocked(FallingAsleep, m))
       \/ CountDown(m) /\ sched' = FallingAsleep
    /\ Goto(kind)

wait_schedule ==
    /\ At("wait")
    /\ sched' = schedule(sched)
    /\ Goto("wait_lock")
    /\ UNCHANGED <<timers, mutexVars, condVars>>

\* abstime has passed.
timedwait_late ==
    /\ At("timedwait")
    /\ Goto("wait_lock")
    /\ UNCHANGED <<sched, timers, mutexVars, condVars>>

\* abstime has not passed: schedule_timeout(), up to schedule() and after it.
timedwait_schedule ==
    /\ At("timedwait")
    /\ timers' = timers \cup {Current}
    /\ sched' = schedule(sched)
    /\ Goto("timedwait_delete")
    /\ UNCHANGED <<mutexVars, condVars>>

timedwait_delete ==
    /\ At("timedwait_delete")
    /\ timers' = timers \ {Current}
    /\ Goto("wait_lock")
    /\ UNCHANGED <<sched, mutexVars, condVars>>

\* Mutant: the thread leaves its struct wait in the queue.
EndWaitKeepsEntry ==
    /\ UNCHANGED cond_wq
    /\ waits' = [waits EXCEPT ![Current] = {}]

\* The last statements of the wait: the struct wait leaves the queue if no
\* signal has removed it.  For a thread that is in no wait, nothing.
EndWait ==
    /\ cond_wq' = [c \in Cond |-> TAILQ_REMOVE(cond_wq[c], Current)]
    /\ waits' = [waits EXCEPT ![Current] = {}]

\* The pthread_mutex_lock() of the wait: it takes the mutex, or contends for
\* it like any other thread.
wait_lock(m) ==
    /\ At("wait_lock")
    /\ \E w \in waits[Current] : w.mutex = m
    /\ \/ (TakeFree(m) \/ TakeAgain(m)) /\ EndWait
       \/ Contend(m) /\ UNCHANGED condVars

-----------------------------------------------------------------------------
\* Mutant: the entry is removed but its thread is not woken.
SignalNoWake(c) ==
    /\ Calls("signal")
    /\ cond_wq[c] # <<>>
    /\ LET target == HighestWaiter(sched, cond_wq[c])
       IN  cond_wq' = [cond_wq EXCEPT ![c] = TAILQ_REMOVE(@, target)]
    /\ UNCHANGED <<schedVars, mutexVars, waits>>

\* With nobody in the queue signal and broadcast do nothing.
signal(c) ==
    /\ Calls("signal")
    /\ cond_wq[c] # <<>>
    /\ LET target == HighestWaiter(sched, cond_wq[c])
       IN  /\ cond_wq' = [cond_wq EXCEPT ![c] = TAILQ_REMOVE(@, target)]
           /\ sched' = wake_up(sched, target)
    /\ UNCHANGED <<pc, timers, mutexVars, waits>>

\* The loop of broadcast: the threads of q are set running from first to last.
AllRunning(s, q) ==
    LET loop[i \in 0..Len(q)] ==
            IF i = 0 THEN s ELSE __pthread_set_running(loop[i - 1], q[i])
    IN  loop[Len(q)]

broadcast(c) ==
    /\ Calls("broadcast")
    /\ cond_wq[c] # <<>>
    /\ cond_wq' = [cond_wq EXCEPT ![c] = <<>>]
    /\ sched' = schedule(AllRunning(sched, cond_wq[c]))
    /\ UNCHANGED <<pc, timers, mutexVars, waits>>

-----------------------------------------------------------------------------
\* The step in which pthread_mutex_lock() wins the mutex after a sleep.
Wins == At("lock_try") /\ lock[sleep_on[Current]] = 1

Waiting ==
    \/ wait_schedule \/ timedwait_late \/ timedwait_schedule \/ timedwait_delete
    \/ \E m \in Mutex : wait_lock(m)

CondNext ==
    \/ MutexNext /\ IF Wins THEN EndWait ELSE UNCHANGED condVars
    \/ \E c \in Cond, m \in Mutex, kind \in {"wait", "timedwait"} : cond_wait(c, m, kind)
    \/ Waiting
    \/ \E c \in Cond : signal(c) \/ broadcast(c)

CondSpec == CondInit /\ [][CondNext]_allVars

-----------------------------------------------------------------------------
(***************************************************************************)
(* Properties.                                                             *)
(***************************************************************************)
\* A struct wait lives on its thread's stack: one that is in a queue belongs
\* to a thread that is still in a wait for that condition variable, and is in
\* the queue once.
NoStaleEntry ==
    \A c \in Cond :
        /\ \A i \in 1..Len(cond_wq[c]) : \E w \in waits[cond_wq[c][i]] : w.cond = c
        /\ \A i, j \in 1..Len(cond_wq[c]) : cond_wq[c][i] = cond_wq[c][j] => i = j

\* No signal is lost: a thread in a wait that is off the run queue can still be
\* signalled, or has gone on to wait for the mutex.
NoLostSignal ==
    \A t \in Thread :
        waits[t] # {} /\ t \notin sched.linked =>
            \/ \E c \in Cond : InQueue(cond_wq[c], t)
            \/ sleep_on[t] # NULL

\* Unlocking and blocking are one step, a signal frees one thread and a
\* broadcast all, and a wait returns with its mutex: the condition variables
\* implement CondSpec.
Blocked == {t \in Thread : \E c \in Cond : InQueue(cond_wq[c], t)}
Conds == INSTANCE CondSpec WITH blocked <- Blocked
ImplementsCond == Conds!CondSpec

\* A timed wait that is off the run queue has a timer that ends it, or waits
\* for the mutex.
TimedWaitHasTimer ==
    \A t \in Thread :
        pc[t] \in {"timedwait", "timedwait_delete"} /\ t \notin sched.linked => t \in timers
=============================================================================
