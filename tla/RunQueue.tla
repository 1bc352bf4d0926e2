------------------------------ MODULE RunQueue ------------------------------
(***************************************************************************)
(* The run queue of kernel/pthread.c (one FIFO per priority and a bitmap   *)
(* of the non-empty ones) and the functions that change it: __schedule(),  *)
(* schedule(), wake_up(), and the part of the timer interrupt that charges *)
(* the time slice.  Everything here runs with interrupts disabled, so each *)
(* function of the C code is an operator from scheduler state to scheduler *)
(* state; module Sched keeps that state in a variable, and it and the      *)
(* modules that extend it apply the operators in the order in which the    *)
(* code calls the functions.                                               *)
(*                                                                         *)
(* A scheduler state is a record s:                                        *)
(*   s.state, s.priority, s.effective_priority, s.timeslice                *)
(*                the fields of struct pthread, as functions on tasks;     *)
(*   s.linked     the tasks whose link.pprev is not NULL, that is, for     *)
(*                which TAILQ_ENTRY_EMPTY(&th->link) is false;             *)
(*   s.level, s.bitmap                                                     *)
(*                run_queue; the bitmap is the set of the bits that are 1; *)
(*   s.current, s.next                                                     *)
(*                pthread_current and pthread_next;                        *)
(*   s.in_irq     in_irq.                                                  *)
(***************************************************************************)
EXTENDS Integers, Sequences, FiniteSetsExt

CONSTANTS
    Thread,     \* the indices of the array pthreads[] that are in use
    Idle,       \* pthread_idle
    NULL,       \* the null pointer
    MaxPrio,    \* SCHED_RR_PRIORITY_MAX
    TimeSlice   \* CONFIG_TIMESLICE

ASSUME SchedAssumption ==
    /\ Thread \subseteq Nat
    /\ Idle \notin Thread
    /\ NULL \notin Thread \cup {Idle}
    /\ MaxPrio \in Nat
    /\ TimeSlice \in 1..255

Task == Thread \cup {Idle}
Prio == 0..MaxPrio
State == {"NONE", "INIT", "RUNNING", "SLEEPING", "EXIT"}

(***************************************************************************)
(* TAILQ of include/sys/queue.h: a queue is the sequence of its entries.   *)
(***************************************************************************)
InQueue(q, e) == \E i \in 1..Len(q) : q[i] = e

TAILQ_INSERT_HEAD(q, e) == <<e>> \o q

TAILQ_INSERT_TAIL(q, e) == Append(q, e)

\* Unlinks e; the entries before and after it keep their order.
TAILQ_REMOVE(q, e) ==
    IF InQueue(q, e)
    THEN LET k == CHOOSE i \in 1..Len(q) : q[i] = e
         IN  [j \in 1..(Len(q) - 1) |-> IF j < k THEN q[j] ELSE q[j + 1]]
    ELSE q

-----------------------------------------------------------------------------
(***************************************************************************)
(* The run queue.  Level p is bit MaxPrio - p of the bitmap, so that       *)
(* ffs(), which finds the lowest bit that is set, finds the highest        *)
(* priority that has a runnable thread.                                    *)
(***************************************************************************)
Bit(p) == MaxPrio - p

run_queue_enqueue(s, t, head) ==
    LET p == s.effective_priority[t]
    IN  [s EXCEPT
            !.bitmap = IF s.level[p] = <<>> THEN @ \cup {Bit(p)} ELSE @,
            !.timeslice[t] = TimeSlice,
            !.linked = @ \cup {t},
            !.level[p] = IF head THEN TAILQ_INSERT_HEAD(@, t)
                                 ELSE TAILQ_INSERT_TAIL(@, t)]

run_queue_dequeue(s, t) ==
    LET p == s.effective_priority[t]
        q == TAILQ_REMOVE(s.level[p], t)
    IN  IF t \in s.linked
        THEN [s EXCEPT
                 !.level[p] = q,
                 !.linked = @ \ {t},
                 !.bitmap = IF q = <<>> THEN @ \ {Bit(p)} ELSE @]
        ELSE s

\* The two assertions of run_queue_peek(): some bit is set, and the queue
\* of the lowest one is not empty.
ffs(b) == Min(b)

PeekLevel(s) == s.level[MaxPrio - ffs(s.bitmap)]

run_queue_peek(s) == PeekLevel(s)[1]

-----------------------------------------------------------------------------
(***************************************************************************)
(* __schedule() chooses pthread_next; a task that is no longer RUNNING     *)
(* leaves the run queue here and nowhere else.  arch_context_switch()      *)
(* makes pthread_next current.                                             *)
(***************************************************************************)
\* Mutant: a task that has used up its slice is not queued again.
ScheduleNoSlice(s) ==
    LET u == IF s.state[s.current] # "RUNNING" THEN run_queue_dequeue(s, s.current)
             ELSE s
    IN  [u EXCEPT !.next = run_queue_peek(u)]

\* Mutant: a task goes to the tail whether or not it has used up its slice.
ScheduleAlwaysRotates(s) ==
    LET t == s.current
        d == run_queue_dequeue(s, t)
        u == IF s.state[t] # "RUNNING" THEN d ELSE run_queue_enqueue(d, t, FALSE)
    IN  [u EXCEPT !.next = run_queue_peek(u)]

\* Mutant: a task that has used up its slice stays at the head of its queue.
ScheduleToHead(s) ==
    LET t == s.current
        d == run_queue_dequeue(s, t)
        u == IF s.state[t] # "RUNNING" THEN d
             ELSE IF s.timeslice[t] = 0 THEN run_queue_enqueue(d, t, TRUE) ELSE s
    IN  [u EXCEPT !.next = run_queue_peek(u)]

__schedule(s) ==
    LET t == s.current
        u == IF s.state[t] # "RUNNING" THEN run_queue_dequeue(s, t)
             ELSE IF s.timeslice[t] = 0
                  THEN run_queue_enqueue(run_queue_dequeue(s, t), t, FALSE)
                  ELSE s
    IN  [u EXCEPT !.next = run_queue_peek(u)]

arch_context_switch(s) == [s EXCEPT !.current = s.next]

\* In an interrupt handler schedule() only leaves a request, pthread_next =
\* NULL, for the epilogue of isr_comm.
schedule(s) ==
    IF s.in_irq THEN [s EXCEPT !.next = NULL]
                ELSE arch_context_switch(__schedule(s))

\* Mutant: the task is not put on the run queue.
SetRunningNoEnqueue(s, t) == [s EXCEPT !.state[t] = "RUNNING"]

__pthread_set_running(s, t) ==
    LET u == [s EXCEPT !.state[t] = "RUNNING"]
    IN  IF t \in s.linked THEN u ELSE run_queue_enqueue(u, t, FALSE)

wake_up(s, t) == schedule(__pthread_set_running(s, t))

\* A task that waits for an event marks itself and reschedules.
Block(s) == schedule([s EXCEPT !.state[s.current] = "SLEEPING"])

-----------------------------------------------------------------------------
(***************************************************************************)
(* The state left by pthread_init(), inside the in_irq = 1 bracket that    *)
(* main() puts around the application initializers: only the idle task is  *)
(* running, and every slot of pthreads[] is zero, that is, NONE.           *)
(***************************************************************************)
pthread_init ==
    LET Zero == [t \in Task |-> 0]
        s == [state |-> [t \in Task |-> IF t = Idle THEN "RUNNING" ELSE "NONE"],
              priority |-> Zero,
              effective_priority |-> Zero,
              timeslice |-> [t \in Task |-> IF t = Idle THEN TimeSlice ELSE 0],
              linked |-> {},
              level |-> [p \in Prio |-> <<>>],
              bitmap |-> {},
              current |-> Idle,
              next |-> Idle,
              in_irq |-> TRUE]
    IN  run_queue_enqueue(s, Idle, FALSE)

\* pthread_create() takes the first slot that is NONE; without one it fails
\* with EAGAIN.
FreeSlots(s) == {t \in Thread : s.state[t] = "NONE"}

\* The stores of pthread_create() to the slot it claimed.
InitSlot(s, t, p) ==
    [s EXCEPT !.linked = @ \ {t},
              !.priority[t] = p,
              !.effective_priority[t] = p,
              !.timeslice[t] = TimeSlice]

(***************************************************************************)
(* The timer interrupt.  interrupt_dispatch() brackets the handler with    *)
(* in_irq; the handler ends by charging the current task one tick of its   *)
(* slice (uint8_t arithmetic) and asks for a reschedule when the slice is  *)
(* used up; the epilogue of isr_comm honours the request.                  *)
(***************************************************************************)
EnterIrq(s) == [s EXCEPT !.in_irq = TRUE]

ChargeTick(s) ==
    LET left == (s.timeslice[s.current] + 255) % 256
    IN  [s EXCEPT !.timeslice[s.current] = left,
                  !.next = IF left = 0 THEN NULL ELSE @]

\* Mutant: the epilogue of isr_comm does not test pthread_next.
LeaveIrqNoTest(s) == arch_context_switch([s EXCEPT !.in_irq = FALSE])

LeaveIrq(s) ==
    LET u == [s EXCEPT !.in_irq = FALSE]
    IN  arch_context_switch(IF u.next = NULL THEN __schedule(u) ELSE u)

-----------------------------------------------------------------------------
(***************************************************************************)
(* What a scheduler state is made of, and when its run queue is sound.     *)
(***************************************************************************)
SchedRecord ==
    [state : [Task -> State], priority : [Task -> Prio],
     effective_priority : [Task -> Prio], timeslice : [Task -> 0..255],
     linked : SUBSET Task, level : [Prio -> Seq(Task)], bitmap : SUBSET Prio,
     current : Task, next : Task \cup {NULL}, in_irq : BOOLEAN]

\* A task is linked on the queue of its effective priority, once, and on no
\* other queue.
QueuedOnce(s) ==
    /\ \A p \in Prio : \A i \in 1..Len(s.level[p]) :
          /\ s.level[p][i] \in s.linked
          /\ s.effective_priority[s.level[p][i]] = p
    /\ \A t \in s.linked : InQueue(s.level[s.effective_priority[t]], t)
    /\ \A p \in Prio : \A i, j \in 1..Len(s.level[p]) :
          s.level[p][i] = s.level[p][j] => i = j

\* A bit is set exactly when its queue is not empty.
BitmapExact(s) ==
    \A p \in Prio : Bit(p) \in s.bitmap <=> s.level[p] # <<>>
=============================================================================
