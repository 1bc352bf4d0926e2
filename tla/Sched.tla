-------------------------------- MODULE Sched --------------------------------
(***************************************************************************)
(* Threads on one processor: boot, preemption by the timer interrupt,      *)
(* pthread_yield() and sleep().                                            *)
(*                                                                         *)
(* One step is a stretch of code that nothing can interrupt: the code      *)
(* between interrupt_disable() and interrupt_enable(), cut where           *)
(* schedule() switches to another thread; a single store made with         *)
(* interrupts enabled; one part of an interrupt handler.  The interrupt    *)
(* flag belongs to the thread (it is saved and restored with the rest of   *)
(* its context), so whether the timer can interrupt is a matter of where   *)
(* the current thread is: pc[t] is the place in the kernel at which t goes *)
(* on when it is current, "user" being the application's own code.         *)
(*                                                                         *)
(* The timer heap is the set of the threads with a pending sched_timer;    *)
(* which of them have expired at a tick is left open.                      *)
(***************************************************************************)
EXTENDS RunQueue

CONSTANTS
    Priorities, \* the priorities the application gives to its threads
    Ops         \* the kernel calls the application's threads make

ASSUME PrioritiesAssumption == Priorities \subseteq Prio

VARIABLES
    sched,      \* the scheduler state, a record as described in RunQueue
    pc,         \* where each task is
    timers      \* the threads whose sched_timer is in timer_context.heap

schedVars == <<sched, pc, timers>>

SchedPc == {"none", "init", "sti", "halt", "user", "sleep", "timer_add", "timer_delete"}

\* The places where a task has interrupts disabled, those of the modules that
\* extend this one included.
Masked == {"none", "init", "lock_spread", "lock_try", "setprio_spread", "fault",
           "join", "join_wait", "wait", "timedwait", "timedwait_delete", "wait_lock",
           "getchar"}

Current == sched.current
At(label) == ~sched.in_irq /\ pc[Current] = label
Goto(label) == pc' = [pc EXCEPT ![Current] = label]

\* The application's code at which the current thread makes a kernel call.
Calls(op) == op \in Ops /\ At("user")

-----------------------------------------------------------------------------
(***************************************************************************)
(* main(): pthread_init(), then the application initializers, which create *)
(* threads, inside in_irq = 1; then interrupts are enabled and             *)
(* pthread_yield() leaves the idle task, which halts for ever after.       *)
(***************************************************************************)
SchedInit ==
    /\ sched = pthread_init
    /\ pc = [t \in Task |-> IF t = Idle THEN "init" ELSE "none"]
    /\ timers = {}

BootCreate(p) ==
    /\ pc[Idle] = "init"
    /\ FreeSlots(sched) # {}
    /\ LET t == Min(FreeSlots(sched))
       IN  /\ sched' = wake_up(InitSlot(sched, t, p), t)
           /\ pc' = [pc EXCEPT ![t] = "user"]
    /\ UNCHANGED timers

BootEnable ==
    /\ pc[Idle] = "init"
    /\ sched' = [sched EXCEPT !.in_irq = FALSE]
    /\ pc' = [pc EXCEPT ![Idle] = "sti"]
    /\ UNCHANGED timers

BootYield ==
    /\ At("sti")
    /\ sched' = schedule(sched)
    /\ Goto("halt")
    /\ UNCHANGED timers

-----------------------------------------------------------------------------
pthread_yield ==
    /\ Calls("yield")
    /\ sched' = schedule(sched)
    /\ UNCHANGED <<pc, timers>>

(***************************************************************************)
(* sleep() and usleep(), which is the same but for the unit: the store to  *)
(* state, timer_add(), schedule() and timer_delete() each leave interrupts *)
(* enabled behind them.                                                    *)
(***************************************************************************)
sleep ==
    /\ Calls("sleep")
    /\ sched' = [sched EXCEPT !.state[Current] = "SLEEPING"]
    /\ Goto("sleep")
    /\ UNCHANGED timers

timer_add ==
    /\ At("sleep")
    /\ timers' = timers \cup {Current}
    /\ Goto("timer_add")
    /\ UNCHANGED sched

sleep_schedule ==
    /\ At("timer_add")
    /\ sched' = schedule(sched)
    /\ Goto("timer_delete")
    /\ UNCHANGED timers

timer_delete ==
    /\ At("timer_delete")
    /\ timers' = timers \ {Current}
    /\ Goto("user")
    /\ UNCHANGED sched

-----------------------------------------------------------------------------
(***************************************************************************)
(* The timer interrupt: timer_update() first runs sched_timeout() for each *)
(* timer that has expired, then charges the interrupted task.              *)
(***************************************************************************)
IrqEnter ==
    /\ ~sched.in_irq
    /\ pc[Current] \notin Masked
    /\ sched' = EnterIrq(sched)
    /\ UNCHANGED <<pc, timers>>

InHandler == sched.in_irq /\ pc[Idle] # "init"

\* Mutant: the handler marks the thread but does not ask for a reschedule.
TimeoutNoSchedule(t) ==
    /\ InHandler
    /\ t \in timers
    /\ timers' = timers \ {t}
    /\ sched' = __pthread_set_running(sched, t)
    /\ UNCHANGED pc

\* Mutant: the timer is removed but its thread is not woken.
TimeoutNoWake(t) ==
    /\ InHandler
    /\ t \in timers
    /\ timers' = timers \ {t}
    /\ UNCHANGED <<sched, pc>>

sched_timeout(t) ==
    /\ InHandler
    /\ t \in timers
    /\ timers' = timers \ {t}
    /\ sched' = wake_up(sched, t)
    /\ UNCHANGED pc

IrqLeave ==
    /\ InHandler
    /\ sched' = LeaveIrq(ChargeTick(sched))
    /\ UNCHANGED <<pc, timers>>

-----------------------------------------------------------------------------
Boot == (\E p \in Priorities : BootCreate(p)) \/ BootEnable \/ BootYield

Sleeping == sleep \/ timer_add \/ sleep_schedule \/ timer_delete

Timer == IrqEnter \/ (\E t \in Thread : sched_timeout(t)) \/ IrqLeave

SchedNext == Boot \/ pthread_yield \/ Sleeping \/ Timer

SchedSpec == SchedInit /\ [][SchedNext]_schedVars

\* The processor does not stop: boot ends, ticks keep coming and a handler
\* returns.  The interrupted code executes between two ticks, so the steps of
\* sleep() are taken if its thread is current again and again, and every timer
\* expires at some tick.
SchedFairness ==
    /\ WF_schedVars(BootEnable)
    /\ WF_schedVars(IrqEnter)
    /\ WF_schedVars(IrqLeave)
    /\ \A t \in Thread :
          /\ SF_schedVars(Current = t /\ (timer_add \/ sleep_schedule \/ timer_delete))
          /\ SF_schedVars(sched_timeout(t))

FairSchedSpec == SchedSpec /\ SchedFairness

-----------------------------------------------------------------------------
(***************************************************************************)
(* Properties.                                                             *)
(***************************************************************************)
\* Type invariant: each field of struct pthread and of run_queue holds a
\* value of its C type, and pthread_next is the only pointer that may be NULL.
SchedTypeOK ==
    /\ sched \in SchedRecord
    /\ pc \in [Task -> SchedPc]
    /\ timers \subseteq Thread

\* run_queue: every linked task is on the queue of its effective priority,
\* exactly once, whatever mixture of run_queue_enqueue(), run_queue_dequeue()
\* and changes of effective_priority came before, and the bitmap tells the
\* non-empty queues.
RunQueueOK == QueuedOnce(sched) /\ BitmapExact(sched)

\* The assertions in run_queue_peek() hold whenever __schedule() may run: the
\* idle task never leaves the queue, so a bit is set, and the lowest bit has a
\* non-empty queue.
PeekSafe ==
    /\ Idle \in sched.linked
    /\ sched.bitmap # {}
    /\ PeekLevel(sched) # <<>>

\* No wake-up is lost and none is spurious: a RUNNING task is on the run
\* queue, and a task on the run queue that is not RUNNING is the current one,
\* on its way into __schedule().
ReadyIsQueued ==
    \A t \in Task :
        /\ sched.state[t] = "RUNNING" => t \in sched.linked
        /\ t \in sched.linked => sched.state[t] = "RUNNING" \/ t = Current

\* Priority scheduling: where the current task has interrupts enabled, no task
\* on the run queue has a higher effective priority.  (Boot before it yields,
\* and pthread_create() between the two halves of wake_up(), have still to
\* call schedule().)
HighestRuns ==
    ~sched.in_irq /\ pc[Current] \notin Masked \cup {"sti", "create_wake"} =>
        /\ Current \in sched.linked
        /\ \A t \in sched.linked :
              sched.effective_priority[t] <= sched.effective_priority[Current]

\* The uint8_t time slice never wraps: it stays within CONFIG_TIMESLICE, and
\* the task that is charged at the next tick has at least one tick left.
SliceLeft ==
    /\ \A t \in Task : sched.timeslice[t] <= TimeSlice
    /\ sched.timeslice[Current] >= 1

\* A thread in sleep() that is off the run queue has a timer that will wake it.
SleeperHasTimer ==
    \A t \in Thread :
        pc[t] \in {"sleep", "timer_add", "timer_delete"} /\ t \notin sched.linked
            => t \in timers

Before(q, a, b) == \E i, j \in 1..Len(q) : i < j /\ q[i] = a /\ q[j] = b

\* Within a priority the order of service is kept: a task falls behind another
\* one that waits at the same priority only as the current task, at the tick
\* that uses up its time slice.
OrderKept ==
    [][\A p \in Prio : \A a, b \in Task :
          Before(sched.level[p], a, b) /\ Before(sched'.level[p], b, a)
              => a = Current /\ InHandler /\ sched.timeslice[a] = 1]_schedVars

Outranked(t) == sched.effective_priority[Current] > sched.effective_priority[t]

\* Round robin: a runnable thread gets the processor in the end, unless threads
\* of higher priority keep it.
RoundRobin == \A t \in Thread : t \in sched.linked ~> Current = t \/ Outranked(t)

\* A sleep whose timer is set returns, unless threads of higher priority keep
\* the processor.
SleepReturns ==
    \A t \in Thread :
        pc[t] \in {"timer_add", "timer_delete"} ~> pc[t] = "user" \/ Outranked(t)
=============================================================================
