------------------------------ MODULE TimerHeap ------------------------------
(***************************************************************************)
(* The timers of kernel/timer.c: a binary heap of pointers ordered by      *)
(* expires, in which every timer knows its index i, and a tick counter     *)
(* that wraps around.                                                      *)
(*                                                                         *)
(* All of it runs with interrupts disabled except the store to expires in  *)
(* schedule_timeout(), which reads ticks before timer_add() disables them. *)
(* One step is one iteration of a loop: at is the loop the kernel is in,   *)
(* "free" standing for code outside this file, and i its variable i.       *)
(*                                                                         *)
(* A timer is a thread's sched_timer.  Its thread sets expires, adds it,   *)
(* and, woken by the timer or by something else, deletes it again.         *)
(***************************************************************************)
EXTENDS Integers, FiniteSets

CONSTANTS
    Timer,
    NULL,
    MaxNum,     \* CONFIG_TIMER_MAX_NUM
    Half,       \* half the range of an unsigned long, 2^31
    Delay,      \* the arguments of schedule_timeout()
    First,      \* ticks when the first timer is about to be added
    MaxTicks,   \* bound: how many ticks there are from then on
    MaxLag,     \* bound: how far ticks may pass a deadline before timer_add()
    MaxSetting  \* bound: how many threads may be about to call timer_add()

\* schedule_timeout() works for delays that, with the lag, stay below half the
\* range of the counter; there are no more timers than threads, and no more
\* threads than slots in the heap.
ASSUME HeapAssumption ==
    /\ MaxNum \in Nat
    /\ NULL \notin Timer /\ NULL \notin 0..(MaxNum - 1)
    /\ IsFiniteSet(Timer) /\ Cardinality(Timer) <= MaxNum
    /\ Half \in Nat /\ First \in 0..(2 * Half - 1)
    /\ MaxTicks \in 0..(2 * Half - 1) /\ MaxLag \in Nat /\ MaxSetting \in Nat
    /\ Delay \subseteq Nat
    /\ \A d \in Delay : d + MaxLag + 1 < Half

VARIABLES
    ticks,
    heap, n,    \* timer_context
    index,      \* index[t]: the field i of timer t, NULL for TIMER_INVALID_INDEX
    expires,    \* expires[t]: the field expires
    phase,      \* phase[t]: where the thread of t is in schedule_timeout()
    at, i,
    ticking     \* whether timer_update() is at work

vars == <<ticks, heap, n, index, expires, phase, at, i, ticking>>

\* unsigned long arithmetic, and its result read as a long.
Wrap(x) == x % (2 * Half)
Long(x) == IF Wrap(x) < Half THEN Wrap(x) ELSE Wrap(x) - 2 * Half

\* Mutant: a comparison that does not wrap.
TimeAfterPlain(a, b) == b < a

time_after(a, b) == Long(b - a) < 0

After(j, k) == time_after(expires[heap[j]], expires[heap[k]])
Parent(k) == (k - 1) \div 2
Slots == 0..(MaxNum - 1)

-----------------------------------------------------------------------------
HeapInit ==
    /\ ticks = First
    /\ heap = [k \in Slots |-> NULL]
    /\ n = 0
    /\ index = [t \in Timer |-> NULL]
    /\ expires = [t \in Timer |-> 0]
    /\ phase = [t \in Timer |-> "none"]
    /\ at = "free"
    /\ i = 0
    /\ ticking = FALSE

(***************************************************************************)
(* The loops.  A sift ends where timer_update() or its caller goes on.     *)
(***************************************************************************)
Return == at' = (IF ticking THEN "expire" ELSE "free") /\ i' = 0

\* Mutant: the timers are exchanged but not their indices.
SwapForgetsIndex(j, k) ==
    /\ heap' = [heap EXCEPT ![j] = heap[k], ![k] = heap[j]]
    /\ UNCHANGED index

heap_swap(j, k) ==
    /\ heap' = [heap EXCEPT ![j] = heap[k], ![k] = heap[j]]
    /\ index' = [index EXCEPT ![heap[j]] = k, ![heap[k]] = j]

heap_pull_up ==
    /\ at = "pull_up"
    /\ IF i > 0 /\ After(Parent(i), i)
       THEN heap_swap(i, Parent(i)) /\ i' = Parent(i) /\ UNCHANGED at
       ELSE Return /\ UNCHANGED <<heap, index>>
    /\ UNCHANGED <<ticks, n, expires, phase, ticking>>

\* The one of j and its children that expires first.
Smallest(j) ==
    LET c == 2 * j + 1
        s == IF c < n /\ After(j, c) THEN c ELSE j
    IN  IF c + 1 < n /\ After(s, c + 1) THEN c + 1 ELSE s

heap_push_down ==
    /\ at = "push_down"
    /\ IF Smallest(i) # i
       THEN heap_swap(i, Smallest(i)) /\ i' = Smallest(i) /\ UNCHANGED at
       ELSE Return /\ UNCHANGED <<heap, index>>
    /\ UNCHANGED <<ticks, n, expires, phase, ticking>>

\* Mutant: the last timer, moved into the gap, is only ever pushed down.
DeleteOnlyPushesDown(t) ==
    LET k == index[t]
        last == heap[n - 1]
    IN  /\ n' = n - 1
        /\ IF k # n - 1
           THEN /\ heap' = [heap EXCEPT ![k] = last, ![n - 1] = NULL]
                /\ index' = [index EXCEPT ![last] = k, ![t] = NULL]
                /\ i' = k
                /\ at' = "push_down"
           ELSE /\ heap' = [heap EXCEPT ![k] = NULL]
                /\ index' = [index EXCEPT ![t] = NULL]
                /\ Return

\* The last timer moves into the gap, and heap_adjust() decides which way it
\* has to go from there.  (A slot beyond n is never read: it is NULL here.)
__timer_delete(t) ==
    LET k == index[t]
        last == heap[n - 1]
    IN  /\ n' = n - 1
        /\ IF k # n - 1
           THEN /\ heap' = [heap EXCEPT ![k] = last, ![n - 1] = NULL]
                /\ index' = [index EXCEPT ![last] = k, ![t] = NULL]
                /\ i' = k
                /\ at' = IF k > 0 /\ time_after(expires[heap[Parent(k)]], expires[last])
                         THEN "pull_up" ELSE "push_down"
           ELSE /\ heap' = [heap EXCEPT ![k] = NULL]
                /\ index' = [index EXCEPT ![t] = NULL]
                /\ Return

-----------------------------------------------------------------------------
(***************************************************************************)
(* schedule_timeout(), up to schedule() and after it.                      *)
(***************************************************************************)
set_expires(t, d) ==
    /\ at = "free"
    /\ phase[t] = "none"
    /\ Cardinality({u \in Timer : phase[u] = "set"}) < MaxSetting
    /\ expires' = [expires EXCEPT ![t] = Wrap(ticks + d)]
    /\ phase' = [phase EXCEPT ![t] = "set"]
    /\ UNCHANGED <<ticks, heap, n, index, at, i, ticking>>

timer_add(t) ==
    /\ at = "free"
    /\ phase[t] = "set"
    /\ n < MaxNum
    /\ heap' = [heap EXCEPT ![n] = t]
    /\ index' = [index EXCEPT ![t] = n]
    /\ n' = n + 1
    /\ i' = n
    /\ at' = "pull_up"
    /\ phase' = [phase EXCEPT ![t] = "added"]
    /\ UNCHANGED <<ticks, expires, ticking>>

\* The timer is a local variable of schedule_timeout(), and gone after this.
timer_delete(t) ==
    /\ at = "free"
    /\ phase[t] = "added"
    /\ phase' = [phase EXCEPT ![t] = "none"]
    /\ IF index[t] # NULL THEN __timer_delete(t)
       ELSE UNCHANGED <<heap, n, index, at, i>>
    /\ expires' = [expires EXCEPT ![t] = 0]
    /\ UNCHANGED <<ticks, ticking>>

(***************************************************************************)
(* timer_update(): the tick, then every timer that has expired.            *)
(***************************************************************************)
tick ==
    /\ at = "free"
    /\ Wrap(ticks - First) < MaxTicks
    /\ \A t \in Timer : phase[t] = "set" => Long(expires[t] - ticks) > -MaxLag
    /\ ticks' = Wrap(ticks + 1)
    /\ ticking' = TRUE
    /\ at' = "expire"
    /\ UNCHANGED <<heap, n, index, expires, phase, i>>

Due == n > 0 /\ ~time_after(expires[heap[0]], ticks)

\* The function it then calls, sched_timeout(), is an action of Sched.
expire ==
    /\ at = "expire"
    /\ Due
    /\ __timer_delete(heap[0])
    /\ UNCHANGED <<ticks, expires, phase, ticking>>

expired ==
    /\ at = "expire"
    /\ ~Due
    /\ ticking' = FALSE
    /\ at' = "free"
    /\ UNCHANGED <<ticks, heap, n, index, expires, phase, i>>

-----------------------------------------------------------------------------
Kernel == heap_pull_up \/ heap_push_down \/ expire \/ expired

HeapNext ==
    \/ \E t \in Timer : (\E d \in Delay : set_expires(t, d)) \/ timer_add(t) \/ timer_delete(t)
    \/ tick
    \/ Kernel

HeapSpec == HeapInit /\ [][HeapNext]_vars

-----------------------------------------------------------------------------
(***************************************************************************)
(* Properties.                                                             *)
(***************************************************************************)
\* Every timer knows where it is, also in the middle of a sift, so that
\* timer_delete() removes the right one.  No two slots hold the same timer, so
\* that the assertion in timer_add() holds with a slot for every thread.
IndexOK ==
    /\ \A k \in 0..(n - 1) : index[heap[k]] = k
    /\ \A t \in Timer : index[t] # NULL => index[t] < n /\ heap[index[t]] = t

\* Outside the sifts no timer expires before its parent, whatever was deleted
\* from the middle of the heap and wherever the tick counter wraps.
HeapOrdered ==
    at \in {"free", "expire"} =>
        \A k \in 1..(n - 1) : ~time_after(expires[heap[Parent(k)]], expires[heap[k]])

\* The heap implements the abstract timers: each runs in the first tick at
\* which it is due, in the order of the deadlines, once.
Ready == {t \in Timer : index[t] # NULL}
Timers == INSTANCE TimerSpec WITH
              left <- [t \in Ready |-> Long(expires[t] - ticks)]
ImplementsTimers == Timers!Spec
=============================================================================
