# Turnix in TLA+

A verification project for Turnix, a small i386 kernel with priority-based,
preemptive threads.  The modules translate the kernel's C code; TLC checks them
on small instances; TLAPS proves what matters most of the scheduler, mutexes,
condition variables, thread life cycle, timers, clocks, keyboard, shell and console
for instances of every size.  `PROJECT.json` ties every definition to the lines of code it models, every
property to the run that checks it and to a mutation of the code that breaks it,
and every hazard of the code to the properties that watch it.

## 1. The system

| Part | State | Operations | Interacts with |
|---|---|---|---|
| Run queue (`kernel/pthread.c` 48-113) | one FIFO per priority, a bitmap of the non-empty ones | enqueue, dequeue, peek | `effective_priority` and `timeslice` of each thread |
| Scheduler (`kernel/pthread.c` 177-247, `arch/i386/kernel/isr.S`) | `pthread_current`, `pthread_next`, `in_irq` | `schedule()`, `__schedule()`, `wake_up()`, `pthread_yield()` | called by every blocking operation; deferred to the epilogue of `isr_comm` inside a handler |
| Timer interrupt (`kernel/timer.c` 212-241) | `ticks`, clocks, pending timers | `timer_update()` | runs timer callbacks (`wake_up()`), charges the time slice |
| Timers and sleep (`kernel/timer.c` 50-210) | binary heap ordered by `expires` | `timer_add()`, `timer_delete()`, `schedule_timeout()`, `sleep()`, `usleep()` | scheduler |
| Clocks (`kernel/timer.c` 243-332) | monotonic clock, wall clock, processor times | the calls that read and set them | timer interrupt |
| Mutexes (`kernel/pthread.c` 454-573) | `lock`, `owner`, `recursive_count`, `wq`; per thread `sleep_on`, `mutex_queue` | lock, trylock, unlock | scheduler; priority inheritance |
| Priority inheritance (`kernel/pthread.c` 115-170) | `priority`, `effective_priority` | `__pthread_spread()`, `__pthread_setschedprio()`, `pthread_setschedprio()` | mutex owners and waiters, run queue |
| Condition variables (`kernel/pthread.c` 575-669) | `wq` | wait, timedwait, signal, broadcast | mutexes, timers |
| Thread life cycle (`kernel/pthread.c` 249-413) | the slots of `pthreads[]`: `state`, `flags`, `waiter`, `retval` | create, exit, join, detach | scheduler |
| Keyboard (`arch/i386/drivers/keyboard.c`, `lib/circular_buffer.c`) | modifier keys, prefix, circular buffer, `waiter` | interrupt handler, `getchar()` | scheduler, readline |
| Wall clock setup (`arch/i386/drivers/cmos.c`, `lib/time.c`) | the registers of the clock chip; two readings | `cmos_init()`, `mktime()`, `gmtime_r()` | wall clock |
| Shell (`applications/shell.c`, `lib/readline.c`) | the line, `argv`, `is_exit` | reading a line, parsing it, ten commands | `getchar()`, console, clocks, C library |
| Console (`arch/i386/drivers/text_buffer.c`) | the cursor and the cells | `putchar()` | shell, `printf()` |
| C library (`lib/string.c`, `stdlib.c`, `stdio.c`, `hexdump.c`, `include/ctype.h`) | none | parsing, formatting, copying | shell, console |
| Example applications (`applications/`) | producer and consumer; philosophers | | mutexes, condition variables, `sleep()` |

What is hard here.  Interrupts preempt a thread wherever they are enabled, and
the interrupt flag belongs to the thread, so code "with interrupts disabled"
is still interleaved with other threads wherever it calls `schedule()`.
Waiters are woken but not handed what they wait for, so every loop has to
re-establish its facts.  The same fact (who owns a mutex, who waits, at which
priority a thread runs) is stored in several places.  Slots of `pthreads[]` are
reused while other threads still hold pointers to them.  The tick counter wraps,
the clock chip changes while it is being read, and a key is up to six interrupts.
The shell's line buffer is cut up in place and used again, while its echo wraps
and scrolls on the screen.

What makes each part correct:

* run queue: every queued task is on one queue, that of its effective priority,
  and the bitmap agrees;
* scheduler: the highest priority runs, equal priorities take turns, a slice
  never wraps, everyone who is runnable gets the processor;
* mutexes: one owner, no lost wake-up, exact inheritance, a walk that ends;
* condition variables: no lost signal, no pointer left to a stack frame that is
  gone, no wait that ends by itself;
* life cycle: a join meets the thread it was called for, no joiner and no slot
  is lost;
* timers: each expires at its tick, in order, whether or not the counter wraps;
* clocks: no tick lost at a carry, no torn reading;
* keyboard: nobody sleeps on data, sequences are whole, modifier bits are right;
* wall clock setup: the time that is set is one the chip showed, and the date
  shown later is that time and the ticks since then, in the time zone;
* shell and console: the screen shows the line that is being typed, and the
  command runs with the words of that line and no others;
* C library: a number is read and printed exactly, or ERANGE.

## 2. Modules

    RunQueue --- Sched --- Mutex --- Cond --- ProducerConsumer
                   |         :         :
                   |      LockSpec  CondSpec
                   +--- Lifecycle
                   +--- Keyboard ... InputSpec          (: and ... refines)
    TimerHeap ... TimerSpec      Calendar --- Cmos --- WallClock --- Clock
    Library --- TextBuffer --- Shell

    SchedProofs --- MutexProofs --- CondProofs     (with ProducerConsumer)
         +--------- LifecycleProofs
         +--------- KeyboardProofs
    TimerHeapProofs       WallClockProofs       ShellProofs

| Module | Models | State and actions |
|---|---|---|
| `RunQueue` | the run queue, `__schedule()`, `schedule()`, `wake_up()`, the slice charged by a tick, the interrupt prologue and epilogue | no variables: each C function is an operator from scheduler state (a record) to scheduler state; TAILQs are sequences, the bitmap a set of bits |
| `Sched` | `main()`, the timer interrupt, `pthread_yield()`, `sleep()` | `sched`, `pc` (where each task goes on), `timers` (threads with a pending timer); one action per uninterruptible stretch |
| `Mutex` | mutexes, `pthread_setschedprio()`, the walk `__pthread_spread()` | the fields of `struct pthread_mutex`, `sleep_on`, `mutex_queue`, `cursor` (the walk); `held` is the application's own account |
| `Cond` | condition variables on top of `Mutex` | `cond_wq`, `waits` (the arguments of the wait each thread is in) |
| `ProducerConsumer` | `applications/producer_consumer.c` on top of `Cond` | `app` (program counters), `pcount`, `count`, `printed`, `number` |
| `Lifecycle` | create, exit, join, detach on top of `Sched` | `detached`, `waiter`, `target`; `gen` and `handles` name threads where the code has only slots |
| `TimerHeap` | the heap, loop iteration by loop iteration, `schedule_timeout()`, the expiry loop of `timer_update()` | `ticks`, `heap`, `n`, `index`, `expires`, and the loop the kernel is in |
| `Clock` | `update_timeval()` and the calls that read and set clocks | the clocks, word by word |
| `Keyboard` | the scan-code state machine, the circular buffer, `getchar()`, on top of `Sched` | `key`, `led`, `esc`, `cb`, `waiter`; `line` and `down` are the keyboard itself |
| `Calendar`, `Cmos` | `mktime()`, `gmtime_r()`, `localtime_r()`; `cmos_init()` reading a running chip | `day`, `date` (a reference calendar); the chip's registers and the two readings |
| `WallClock` | boot sets the clock of `Clock` from `Cmos`; what `date`, `uptime` and `cal` print | the state of both |
| `Library` | the functions of `string.c`, `stdlib.c`, `stdio.c`, `hexdump.c` and `ctype.h` that the shell uses, as operators on memory and strings; a long ends at `LONG_MAX` | `number`: the number the functions are tried on |
| `TextBuffer` | `putchar()`: cursor, backspace, tab, scrolling | no variables: operators on a screen |
| `Shell` | `readline()`, the loop, parser and commands of the shell | `screen`, `readline_buffer`, `n`, `argv`, `argc`, `is_exit`, `pc`; `line` and `cr` record what was typed |
| `LockSpec`, `CondSpec`, `TimerSpec`, `InputSpec` | what callers may rely on | abstract specifications that `Mutex`, `Cond`, `TimerHeap` and `Keyboard` are checked to implement |
| `MC*` | instances for TLC | values of constants only |

**Granularity.**  One step is a stretch of code that nothing can interrupt: code
between `interrupt_disable()` and `interrupt_enable()`, cut where `schedule()`
switches to another thread; a single store made with interrupts enabled; one part
of a handler.  `schedule()` inside such a stretch is part of its step, and what
the thread does after it is the next step of that thread, at the place `pc` names.
A place at which interrupts are disabled is in `Masked`, and the timer does not
interrupt there.  Loops with interrupts disabled (the walk along owners, the
sifts of the heap) are single steps per iteration, so that a loop that does not
end, or a state in the middle of it, is visible.

**Abstraction.**  Kept: every state change, guard, early return and their order.
Left out: registers and stacks, names of threads, return values that no property
looks at, the wording of messages, the character a key gives, colours.  An error
return that changes nothing (EBUSY, EINVAL, ESRCH of detach) is a stuttering step
and has no action.  Slots of an array that are never read again are NULL, so that
states that differ only there are one.

**Fields no run checks on their own.**  `retval` of a thread is left out of
`Lifecycle`: that a join meets its own thread (`JoinsItsThread`) is what makes
the value the right one.

**What is tried, not run.**  The calendar functions and the functions of the
library keep no state.  `Calendar` lets days pass one by one, and `Library` counts
`number` up, and the invariants evaluate the functions on each; after the last
number the shell starts.  Loops are recursive functions or folds (`printf()` is a
fold over its format): the prover does not take RECURSIVE operators, and no module
has one.

## 3. Runs

Every passing run is a complete exploration.

| Run | Instance | What it shows |
|---|---|---|
| `sched` | 2 threads, priorities 1 and 2, slice 2; yield and sleep | `SchedTypeOK`, `HighestRuns`, `SliceLeft`, `OrderKept`; under fairness `RoundRobin` and `SleepReturns` |
| `mutex` | 3 threads, 2 mutexes, one recursive to depth 2, 2 priorities; lock, trylock, unlock, setschedprio | `OwnershipOK`, `NoLostWakeup`, `InheritanceExact`, `HighestOwnerRuns`, `RunQueueOK`, `WalkEnds`, refinement of `LockSpec` |
| `lifecycle` | 3 slots, each used twice, 2 priorities; applications that use a handle once, and others that use any handle at any time | `JoinsItsThread`, `NoLostJoiner`, `NoZombie` for the former; `FreeSlotUnused`, `WaitersAcyclic`, `ReadyIsQueued` for all |
| `cond` | 3 threads, a recursive mutex, a condition variable, 2 priorities; no `pthread_setschedprio()`, which the theorems include | `NoLostSignal`, `NoStaleEntry`, refinement of `CondSpec` |
| `producer_consumer` | the two threads at any of 2 priorities, counter modulo 4 | `InStep`; under fairness `KeepsPrinting` |
| `timer_heap` | 6 timers, counter modulo 12 about to wrap, delays 0, 1 and 3, 3 ticks | `IndexOK`, `HeapOrdered`, refinement of `TimerSpec` |
| `keyboard` | a reader and another thread, ten keys, a buffer of 5 | `NoSleepOnData`, `ModifiersMatch`, refinement of `InputSpec` |
| `time` | every day from 1970-01-01 to 2038-01-18; boot on 2003-12-31 and 2004-02-28 at 4 times of day, 4 modes, 3 updates; then 4 ticks of a third of a second, 2 threads, eight hours east | `DatesCorrect`, `ReadsRealTime`, `CalendarShown`, `ClocksExact`, `ReadingsAscend`, `DateShown` |
| `shell` | `LONG_MAX` = 127, every number up to 768; a screen of 2 x 2, a line of 7, 3 words, five kinds of key, five commands | `NumbersRead`, `PrintedReadsBack`, `ShowsLine`, `RunsWhatWasTyped` |
| `sleep_window`, `null_owner`, `timedwait_timer` | 2 or 3 threads | the findings of section 6 |

**Why the bounds are enough for what they are for.**

* Two threads and the idle task give every order of a queue that a third thread
  could see only as a longer one; the theorems of section 5 cover all sizes.  A
  slice of 2 separates the tick that charges from the tick that ends the slice.
* A chain of inheritance of length two needs three threads and two mutexes; a
  recursive mutex at depth 2 separates the unlock that releases from the one
  that counts down; two priorities are enough for one thread to outrank another
  and for a change of priority to reverse that.
* A slot used twice is the case in which a stale pointer meets another thread.
* In a heap a timer that takes the place of a deleted one has to rise only if it
  comes from another subtree, which takes six timers.  With `First` = 11 the
  counter wraps at the first tick, with deadlines on both sides of it in the
  heap; delays are less than half its range, as in the code.
* A buffer of 5 has room for one sequence of 3 or 4 bytes and not for two, and
  its indices wrap.  The keys are one of each kind the handler tells apart
  that has a part in a property: left and right modifier, one, three and four
  bytes, keypad with and without num lock, prefix keys, Pause with its six codes.
* Four ticks of a third of a second carry once; the clocks are set to the last
  microsecond of a second too.  `date` is looked at while the wall clock runs from
  the time that the chip gave.
* The chip's registers change together at noon, at the end of an hour after noon,
  at midnight and at the end of a month or year: these are the boot times, two
  seconds before; eight hours to the east, 57598 seconds are two seconds before
  local midnight.  The wait for the bit, 2 x 6 reads and 3 updates allow a torn
  first reading, a torn second one and a repetition.
* A line of seven characters and the prompt are twice what the screen holds, so a
  line wraps and scrolls more than once and backspaces go back over both.  The
  keys are one of each kind `readline()` and `strtok_r()` tell apart: backspace,
  new line, CR (stored, a delimiter, not drawn), blank, and a character.  Command
  names that begin one another make a word that ends too late another command; a
  buffer of eight bytes is left with the end of an earlier line after every
  shorter one.  Four words fit into the line and three into `argv`.
* With a `LONG_MAX` of 127 three times the range of an unsigned long is 768 numbers, which wrap twice; the
  code does not depend on the width except through `ULONG_MAX` and `LONG_MAX`.

**Deadlock** is checked where the idle task or the timer can always go on.
`MCMutex`, `MCCond`, `MCNullOwner` and `MCTimedWait` switch it off because the
model stops at `spread_null`, where the code dereferences NULL; `MCWallClock`
because the calendar and the ticks come to an end.

**Fairness** is assumed in `sched` and `producer_consumer` only.  Weak fairness
of boot and of entering and leaving the tick: the processor does not stop and the
timer chip goes on.  Strong fairness of a thread's steps: the interrupted code
executes instructions between two ticks, so a thread that is current again and
again gets on.  Strong fairness of a timer's expiry: a tick at which it is due
comes, which `timer_heap` checks in detail.  Nothing is assumed about which
calls an application makes, and no thread's priority is assumed to yield to
another's: `RoundRobin` and `SleepReturns` except a thread that is outranked.

## 4. Properties worth a comment

* `InheritanceExact` holds until one of two things happens, which the history
  variable `stale` records: `pthread_setschedprio()` on a waiter that is awake
  ("set"), and taking a free mutex past a waiter of a higher priority ("passed").
  `HighestOwnerRuns` is affected by the first only.  See section 6.
* `ReadyIsQueued` allows the current task to be queued and not RUNNING: it is on
  its way into `__schedule()`.
* `WalkEnds` says that no set of threads waits for itself through owners.  It rests
  on the order of locking (`MayLock`), taken from `philosophers.c`: the kernel
  itself does not detect a cycle, and would then loop with interrupts disabled.
* `InStep` allows the consumer to print the number that follows: `count` is
  incremented outside the mutex, and the consumer may read it through `pcount`
  after that.
* `ReadsRealTime` rests on the two readings being taken within a minute; reading
  twice does not detect a change that tears both readings in the same way.
* `DateShown` takes the calendar as far as the ticks of the run go and one day back for
  the time zone.  It allows a whole second to be shown one tick late, because of the carry
  described in section 6, and is about the time the chip gave, not about a time set
  by an application.
* `ShowsLine` excepts a line with a CR in it (see section 6), and says of a line
  longer than the screen only that its end is shown.

## 5. Proofs

Every theorem holds for every value of the constants that satisfies the named
assumptions: any set of threads, number of priorities, choice of priorities by the
application and slice from 1 to 255 (`SchedAssumption`, `PrioritiesAssumption`);
any finite set of mutexes with an order of locking (`MutexAssumption`); any finite
number of slots (`LifecycleAssumption`); any capacity of the heap, width of the tick
counter and set of no more timers than slots (`HeapAssumption`: every thread has one
timer, and there are as many slots as threads); one reader and a buffer of any size
(`KeyboardAssumption`); any finite set of threads and number of ticks that divides the
second (`ClockAssumption`), any days from 1970 to the end of the 31-bit seconds,
any times of the day and any time zone less than a day from Greenwich
(`CalendarAssumption`), and a chip that is read on a day from
2000 on with less than a minute between the first register and the last
(`CmosAssumption`); a `LONG_MAX` of at least 18, so that 36 is still a base
(`LibraryAssumption`), and of at most 32 bits, because `%p` writes eight digits
(`AddressAssumption`, which only `PrintedReadsBackHolds` uses: `limits.h` has 0x7fffffff),
a screen and a line of any size, any number of words in
`argv`, any keys and messages, and any table of commands with different names
(`TextBufferAssumption`, `ShellAssumption`).  TLC evaluates the assumptions in the runs.

| Module | Theorem | Statement |
|---|---|---|
| `SchedProofs` | `SchedTypeCorrect` | `SchedSpec => []SchedTypeOK` |
| | `RunQueueCorrect` | `SchedSpec => []RunQueueOK` |
| | `PeekCorrect` | `SchedSpec => []PeekSafe`: the assertions of `run_queue_peek()` |
| | `ReadyCorrect` | `SchedSpec => []ReadyIsQueued` |
| | `PriorityCorrect` | `SchedSpec => []HighestRuns` |
| | `SliceCorrect` | `SchedSpec => []SliceLeft` |
| | `OrderKeptCorrect` | `SchedSpec => OrderKept`, an action property |
| `MutexProofs` | `OwnershipCorrect` | `MutexSpec => []OwnershipOK` |
| | `WakeupCorrect` | `MutexSpec => []NoLostWakeup` |
| | `InheritanceCorrect` | `MutexSpec => []InheritanceExact` |
| | `OwnerRunsCorrect` | `MutexSpec => []HighestOwnerRuns` |
| | `WalkCorrect` | `MutexSpec => []WalkEnds` |
| | `MutexQueueCorrect` | `RunQueueOK`, `PeekSafe`, `ReadyIsQueued` and `SliceLeft` under `MutexSpec` |
| | `LockRefinement` | `MutexSpec => ImplementsLock` |
| `CondProofs` | `EntriesCorrect` | `CondSpec => []NoStaleEntry` |
| | `SignalCorrect` | `CondSpec => []NoLostSignal` |
| | `CondQueueCorrect` | `RunQueueOK`, `PeekSafe`, `ReadyIsQueued` and `OwnershipOK` under `CondSpec` |
| | `CondRefinement` | `CondSpec => ImplementsCond` |
| | `InStepCorrect` | `PCSpec => []InStep` |
| | `ExclusiveCorrect` | `PCSpec => []Exclusive`: one thread at a time between lock and unlock |
| | `NullFree` | `PCSpec => []NoNullOwner`: this application never meets the finding `null_owner` |
| | `UsesCond` | `PCSpec => CondSpec`: what is proved of `Cond` holds for this application |
| `LifecycleProofs` | `LifecycleQueueCorrect` | `RunQueueOK`, `PeekSafe`, `ReadyIsQueued` and `SliceLeft` under `LifecycleSpec` |
| | `FreeSlotCorrect` | `LifecycleSpec => []FreeSlotUnused` |
| | `JoinersAcyclic` | `LifecycleSpec => []WaitersAcyclic` |
| | `JoinCorrect` | `LifecycleSpec => []JoinsItsThread` |
| | `JoinerCorrect` | `LifecycleSpec => []NoLostJoiner` |
| | `ReapCorrect` | `LifecycleSpec => []NoZombie` |
| `TimerHeapProofs` | `IndexCorrect` | `HeapSpec => []IndexOK` |
| | `OrderCorrect` | `HeapSpec => []HeapOrdered` |
| | `TimerRefinement` | `HeapSpec => ImplementsTimers` |
| | `AddCorrect` | `HeapSpec => []AddSafe`: the assertion of `timer_add()` |
| `KeyboardProofs` | `ReaderCorrect` | `KeyboardSpec => []NoSleepOnData` |
| | `ModifiersCorrect` | `KeyboardSpec => []ModifiersMatch` |
| | `InputRefinement` | `KeyboardSpec => ImplementsInput` |
| `WallClockProofs` | `GmtimeCorrect` | `WallSpec => []DatesCorrect` |
| | `CalendarCorrect` | `WallSpec => []CalendarShown` |
| | `RealTimeCorrect` | `WallSpec => []ReadsRealTime` |
| | `ClocksCorrect` | `WallSpec => []ClocksExact` |
| | `ReadingsCorrect` | `WallSpec => ReadingsAscend`, an action property |
| | `DateShownHolds` | `WallSpec => DateShown`, an action property |
| `ShellProofs` | `ShellInvariant` | `ShellSpec => []ShellInv`: the line and `argv` stay in the buffer, the cursor on the screen |
| | `ShowsLineHolds` | `ShellSpec => []ShowsLine` |
| | `RunsWhatWasTypedHolds` | `ShellSpec => []RunsWhatWasTyped` |
| | `NumbersReadHolds` | `ShellSpec => []NumbersRead` |
| | `PrintedReadsBackHolds` | `ShellSpec => []PrintedReadsBack` |

Each module has an inductive invariant, stated at its head as a conjunction of
named parts.

**Run queue and scheduler.**  `SchedProofs` begins with what the operators do, as lemmas
cited by name: inserting into and removing from a sequence, the effect of enqueue
and dequeue on a sound queue, `run_queue_peek()` returns a task of the highest
priority, `__schedule()`, `schedule()`, `wake_up()`, `ChargeTick` and `LeaveIrq` keep a
steady state steady.  The invariant of `Sched` consists of the types; `Steady`
(every linked task is on the queue of its effective priority, once; the bitmap is
exact; the idle task is linked and RUNNING; RUNNING tasks are linked, and only the
current one may be linked without being RUNNING; every linked task has a tick
left); `Settled` (unless a reschedule is pending, the current task is linked and
none is of higher priority); `PlacesOK` (where the idle task and the threads can
be); and that a reschedule is pending only inside a handler and during boot.  None
of the theorems is inductive alone.  That the queue `ffs()` finds is not empty
needs the idle task to stay queued; that needs the tasks that leave the queue to
be current ones put to sleep by their own code; that the slice does not wrap needs
every queued task, not only the current one, to have a tick left; and that the
right task runs needs the request that a handler leaves in `pthread_next`.  The
order of service is a property of steps: each operator of the run queue is shown to
leave the tasks of a queue in order (`InOrder`), except that a reschedule may put
behind others a current task that has used up its slice (`OnlyBehind`); that only the
tick does so follows from every queued task having a tick left at every other call of
`schedule()`.  The
part that does not depend on priorities, `KernelInv`, is kept by the steps of the
scheduler whatever module they are part of, and the proofs below cite that.

**Mutexes.**  `MutexInv` adds `StructInv` (types, `OwnershipOK`, where threads that
wait can be, and that a thread waits for a mutex of a higher rank than those it
holds), `NoLostWakeup`, `PriorityInv` and `SettledInv`.  `PriorityInv` is
`InheritanceExact` in the middle of a walk: the one thread whose priority may be out
of date is the owner that the next step of the walk computes (`Due`).  A walk may
stop early, when a priority does not change, and the invariant shows why that is
right: nobody further along the chain is `Due`.  It has a second part, an
inequality, that survives a mutex being taken past a waiter; that part is enough
for `HighestOwnerRuns`.  `WalkEnds` follows from the ranks: a set of threads that
waits for itself would have no mutex of the highest rank among those it waits for.

**Condition variables.**  `CondInv` is `KernelInv`, `StructInv` and `WaitInv`.  A wait
calls `pthread_mutex_unlock()` while its thread is marked SLEEPING, so `MutexInv` as a
whole is not an invariant here (the current thread need not be awake), and the steps
of the mutexes are shown again to keep the part of it that is.  Most of `WaitInv` is
said of one thread at a time (`WaitOK`): where it is in its wait; that its mutex may
be locked again at the end without a circle of waiters; that it can be signalled
while it is not RUNNING; and, without a timeout, that it sleeps as long as its entry
is in a queue (`NoSpurious`).  The last is what the refinement needs: a thread that
returns has been signalled.  A wait with a recursive mutex held twice does not sleep
in the unlock but in the `schedule()` after it, and only there; `AwakeAtLock` says
that the thread is not current past it before a signal has set it running.  A lemma
(`WaitKept`) shows that a wait is kept by every step that touches it in one of the
permitted ways only, so that each action has to be looked at for the current thread
alone.

**Producer and consumer.**  `AppUsesCond` shows that every step of the application is
a step of `Cond` or leaves the kernel alone, so `CondInv` holds; `PCInv` adds `AppInv`.
`Guarded` ties a thread's own program counter to its place in the kernel and to what
it holds: the mutex once in the critical section, not at all elsewhere, a wait
included.  `HandOver` says how far `count` and `number` are apart from what the two
threads have still to do: the producer's increment (`Late`) and the consumer's
reading (`Open`).  The range of the counter is any number above 2
(`RolesAssumption`): with 2, one ahead and one behind are the same.

**Life cycle.**  `LifeInv` holds for all applications: a slot has code to run exactly
if its thread is RUNNING or SLEEPING, no slot is being claimed twice, and a
registered waiter is in `pthread_join()` for that slot.  For an application that
uses each handle once, `Claims` is what makes joins right: every thread that can be
joined has exactly one claim, either a handle or a call under way, and every claim
is to a thread that is still there.  `JoinersAcyclic` is the hard one, because the
loop test is a walk of unbounded length: a circle that the new waiter closes is a
walk from the thread that returns to it, walks are unique, and in a finite set one
that is longer than the number of threads has met itself, so `has_loop()` finds it.

**Timers.**  `HeapInv` has the state of the heap in the middle of a sift: the order
holds everywhere but at the slot that is moving, whose parent is in order with its
children (`Bridged`).  Deadlines are compared modulo the width of the counter, which
is an order only while they lie within half of it of each other; `Deadlines` keeps
all pending timers that close to the tick counter.

**Keyboard.**  `LineInv` lists what the keyboard can still have to send, with the
state of the driver after what it has read.  `InputRefinement` needs that the
buffer is a queue (`BufferOK`): what `circular_buffer_write()` and `_read()` do to
the bytes between `read` and `write`, when the indices wrap too.

**Date and clocks.**  `WallClockProofs` has one invariant for each of the three parts
that `WallClock` composes.

The loops of `lib/time.c` are recursive functions.  That such a function satisfies its
equation needs a function that does, so an explicit solution is given for each
(`YearOfStep` and its like); what it computes is shown by induction over a set of
numbers, which, unlike an operator, can be named in a proof (`Induction`).  The days
before a year have a closed form (`Elapsed`), with the leap years counted by
divisions; `DateOK` ties the date of the reference calendar to the number of the day
by it, and `CalendarInv` says that the calendar keeps it from day to day.  From
`DateOK` the loop of `gmtime_r()` stops at the right year and month, and `mktime()`
adds the same days up again.  The calendar of a month follows from the weekday: it
advances by one from day to day, modulo 7.

`CmosInv` says of the first reading (`First`) and of the second (`Second`) that every
register read was shown at some second since the wait for the end of an update, and
that there is a second between the two at which the first was over and the second
had not begun.  Within a minute no register returns to a value that it has
left.  So registers that agree in both readings have the value of the second in
between; the time set is the time of that second, in BCD or binary, in 12 or 24 hours (`Back` undoes what the chip does to a
number).  That the two readings lie within a minute is an assumption, and a
necessary one.

`ClockInv` strengthens `ClocksExact`: `tv_usec` stays at or below a second, a call that is
copying has the seconds that the clock still shows, because ticks are kept out, and no
reading is ahead of its clock.  `update_timeval()` adds exactly a tick, the carry
included.  The sum over the threads is a fold over a set; that one term more adds
to it is shown by induction over the sizes of finite sets.

`DateShown` brings the three together.  `CmosInv` gives the second of the day at which
the chip was read and `ClockInv` the ticks since the clock was set; `SetInv` adds that the
wall clock is not before the time it was set to and that this was a whole second.
`PassedSeconds` makes a number of seconds of the ticks, up to the second that is carried
late.  From there the time zone may lead back over midnight (`YesterdayOK`) and the ticks
forward over any number of days: `DateOn` is the chain of the dates that follow
(`ChainExists`), and `DateOnOK` shows by induction that each is the date of its day, of
which `GmtimeValue` has what `gmtime_r()` computes (`DatePrinted`).  The model's seconds do
not wrap at 2^31, so for the program this is about the time up to 2038.

**Shell and console.**  `ShellProofs` begins with what the loops of the library do.
A fold, and a function defined by recursion, satisfies its equation only if a solution
exists: `Iterated` and `FoldSets` give one, `FoldChain` turns a fold into the chain of
its intermediate results.  On the screen one number is enough to say what a character
does: `Appended` says that the cells before the cursor are those of before, moved back
by as many cells as the screen has scrolled (`d`), and that the character stands behind
them; `Erased` says what a backspace does, over the end of a line too.  `LinesMove` is
the copy of `memmove()` onto itself, byte by byte.  `Screens` has that everything from
the cursor on is blank.  `Shows` (the last characters of a text stand before the cursor,
as many as the screen holds) is kept by both, and that is `TypedShown`, the part of the
invariant behind `ShowsLine`.

The loop of `cmd_parse()` keeps `Parsing`: what is left of the line is untouched from
the saved pointer to its NUL, that pointer is at the beginning, at the NUL or behind a
delimiter, and the tokens found so far are exactly the beginnings of words below it
(`Starts`), in order, each with its NUL where the word ended (`Kept`).  `Words` speaks of
the i-th word as the one with i - 1 words beginning before it; `WordsFound` shows that an
increasing enumeration of the beginnings is that one, by the cardinality of initial
pieces (`Increasing`).  That the buffer still holds the rest of an earlier line plays no
part because every scan ends at the NUL that `readline()` stores (`LineReady`).  A
command may print anything: `PutsChain` shows that the cursor stays on the screen.

The digits of a number are defined by recursion on quotients, which are no step by
one: `DividesAll` has a unique solution by induction over a bound.  `Written` says of
the digits what reading needs, and `Reads` what reading makes of a string of them: the
flag of `__strtoul()` is set exactly if the value is above `ULONG_MAX`, and otherwise
nothing has wrapped.  That is where the test before each digit matters: `OverflowsExact`
shows that `val > (ULONG_MAX - c) / base` holds exactly if `val * base + c` does not fit,
so that the flag is never set late, when the value has wrapped to something small again.
`Stands` says where in a string the blanks, the sign, the prefix, the digits and the rest
are, and the scans find them there; a decimal number is read without a base as octal if
it begins with a zero, which only zero itself does.

`printf()` goes through its format with `PrintStep`: `PrintSome` and `PrintChain` give its
states, and one lemma for each kind of character (`PrintText` to `PrintArgument`) takes a
format of up to five from one state to the next.  That the digits have the value they
were printed for is the recursion on quotients again: the last digit is the remainder
(`TextSteps`), and a digit more makes the value of a text `base` times what it was plus
the digit (`ValueMore`), from which `TextValue` follows by induction; blanks before the
number are cut off and zeros count nothing (`PaddedRight`, `ValueOfZeros`).  `Fits` counts
digits, from a power of the base to the next (`FitsMore`): that is why eight hexadecimal
digits hold an address of 32 bits, two a byte, and ten decimal digits with a sign are
less than the twelve bytes of the buffer.  In a line of the dump the columns have three
characters and the ninth four; `FlattenAt` says where each begins when they are put behind
each other, and `DumpLineRight` that the byte's digits are there, for any memory of
bytes.

**Only model-checked.**  Liveness (`RoundRobin`, `SleepReturns`, `KeepsPrinting`): the
prover has no fairness.

## 6. Findings

| Run | What the code does |
|---|---|
| `sleep_window` | `sleep()` stores SLEEPING with interrupts enabled and starts the timer afterwards.  A tick in between takes the thread off the run queue with no timer: it never runs again. |
| `null_owner` | `pthread_mutex_unlock()` leaves `owner` NULL until a woken waiter runs.  A thread that blocks meanwhile on another mutex, owned by that waiter, makes `__pthread_spread()` dereference NULL. |
| `timedwait_timer` | `pthread_cond_timedwait()` is put to sleep by the `schedule()` inside `pthread_mutex_unlock()`, before it starts its timer.  Without a signal it never returns. |

Observed while modelling, without a run of their own:

* `pthread_setschedprio()` on a waiter that is awake is not spread to the owner:
  inherited priorities are stale afterwards, and a thread can run while one of
  higher priority is ready.
* A thread that takes a free mutex on the fast path inherits nothing from those
  that wait for it.  This matters when it is not of the highest priority itself.
  With four threads and two mutexes that happens without `pthread_setschedprio()`:
  a mutex is taken past its waiters, so that `lock` is 0 and its unlock wakes nobody
  but the one already awake; a walk raises another waiter, asleep, above that one;
  and a thread of a priority in between takes the free mutex.  It then runs at its
  own priority while one of a higher priority waits for it, until the waiter that is
  awake runs and walks again.  The attempt to prove the stronger property led to
  this case; the run's three threads do not reach it.
* `pthread_cond_timedwait()` with a recursive mutex held twice and `abstime` in
  the past returns with its thread still marked SLEEPING.
* `update_timeval()` carries only when `tv_usec` is more than a second, so that it
  is 1000000 for one tick of every second: `date` is late by a tick, and `uptime`
  prints seven digits.
* Releasing the key `/` of the keypad types it again; scroll lock toggles num
  lock; Pause toggles num lock.
* A `\r` (Ctrl-M) is stored in the line but not drawn, so that a backspace over it
  erases the character before it from the screen and not from the line.
* `printf("%5c")` does not end: `print_char()` never counts what it pads; and
  `"%05d"` of a negative number puts the zeros before the sign.  No format in the
  repository uses either.
* `memmove()` to a higher address copies the bytes one place too high, the one
  after the last included; all callers move to a lower one.
* `strtol("0x")` is EINVAL with nothing parsed, where C has 0 and `x` unparsed.
* `pthread_getname_np()` takes the length of the name before it disables
  interrupts; nothing calls it.
* `pthread_mutex_init()` dereferences `attr`, which both example
  applications pass as NULL.

## 7. Not modelled

`memcmp()`, `memcpy()`, `memset()` and `strcpy()` are straight loops; what they copy
(stacks, names) is not part of the model.  `ps` and `uname` print and change
nothing: the shell's model has one command for all that only print.  Names and
attributes of threads beyond priority and detach state carry no control.
`philosophers.c` enters as the order of locking in `Mutex`.  The interrupt
controller, timer chip, descriptor tables and boot code program hardware registers
in a fixed order and keep no state of their own.  `getchar()` is modelled for one
reader: a second one fails an assertion.  The shell is modelled as the only thread
that prints: the output of another one appears in the middle of a line.  Typed NULs
(Ctrl-@), which cut the line short, and characters from 128 on, which change the
colour of their cell, are outside the run's set of keys.  Delays of half the range
of the tick counter or more are excluded: `time_after()` does not order them.

## 8. Plan

Done, in this order: `RunQueue`, `Sched` and their proofs; `Mutex` with `LockSpec`;
`Lifecycle`; `Cond` with `CondSpec` and `ProducerConsumer`; `TimerHeap` with
`TimerSpec`; `Clock`; `Keyboard` with `InputSpec`; `Calendar` and `Cmos`; `WallClock`,
which composes `Clock` and `Cmos`; `Library`, `TextBuffer` and `Shell`.

Proofs, in this order: `MutexProofs`, `TimerHeapProofs`, `LifecycleProofs`,
`KeyboardProofs`, `CondProofs` with `ProducerConsumer`, `WallClockProofs`,
`ShellProofs`.

Left: nothing of the plan.  The properties no theorem states are the three liveness
properties and those of the runs that expect a violation.
