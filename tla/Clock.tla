-------------------------------- MODULE Clock --------------------------------
(***************************************************************************)
(* The clocks of kernel/timer.c: the monotonic clock, the wall clock and   *)
(* the processor time of each thread, which update_timeval() advances at   *)
(* every tick, and the calls that read and set them.                       *)
(*                                                                         *)
(* A struct timeval is two words.  The calls copy it word by word, with    *)
(* interrupts disabled, so that no tick and no other thread comes between; *)
(* copy is what the call at work has copied so far.                        *)
(*                                                                         *)
(* Which thread is current at a tick is left open.                         *)
(***************************************************************************)
EXTENDS Integers, FiniteSetsExt

CONSTANTS
    Task,           \* the threads
    USECS_PER_SEC,
    CONFIG_HZ,
    MaxTicks        \* bound: the ticks since boot

ASSUME ClockAssumption ==
    /\ CONFIG_HZ \in Nat \ {0} /\ USECS_PER_SEC \in Nat \ {0} /\ MaxTicks \in Nat
    /\ USECS_PER_SEC % CONFIG_HZ = 0
    /\ IsFiniteSet(Task)

VARIABLES
    monotonic_clock, wall_clock,
    stime,          \* stime[t]: the processor time of thread t
    copy,           \* the call at work: what it copies, and the word it has
    reading,        \* reading[c]: the last value a call has returned of clock c
    ticks,          \* the ticks since boot
    set             \* when the wall clock was set, and to what

clockVars == <<monotonic_clock, wall_clock, stime, copy, reading, ticks, set>>

Clocks == {"CLOCK_REALTIME", "CLOCK_MONOTONIC"}
TickUsecs == USECS_PER_SEC \div CONFIG_HZ
timeval(s, u) == [tv_sec |-> s, tv_usec |-> u]

\* The microseconds from time a to time b.
Usecs(a, b) == (b.tv_sec - a.tv_sec) * USECS_PER_SEC + (b.tv_usec - a.tv_usec)
NoCopy == [clock |-> "none", sec |-> 0]

\* Mutant: the calls leave interrupts enabled.
InterruptsStayOn == FALSE

InterruptsOff == copy # NoCopy

ClockInit ==
    /\ monotonic_clock = timeval(0, 0)
    /\ wall_clock = timeval(0, 0)
    /\ stime = [t \in Task |-> timeval(0, 0)]
    /\ copy = NoCopy
    /\ reading = [c \in Clocks |-> timeval(0, 0)]
    /\ ticks = 0
    /\ set = [tv |-> timeval(0, 0), ticks |-> 0]

-----------------------------------------------------------------------------
\* Mutant: the carry is lost.
UpdateNoCarry(tv) ==
    LET u == tv.tv_usec + TickUsecs
    IN  IF u > USECS_PER_SEC THEN timeval(tv.tv_sec, u % USECS_PER_SEC)
                             ELSE timeval(tv.tv_sec, u)

update_timeval(tv) ==
    LET u == tv.tv_usec + TickUsecs
    IN  IF u > USECS_PER_SEC
        THEN timeval(tv.tv_sec + u \div USECS_PER_SEC, u % USECS_PER_SEC)
        ELSE timeval(tv.tv_sec, u)

\* The first statements of timer_update(), with t as the current thread.
timer_update(t) ==
    /\ ~InterruptsOff
    /\ ticks < MaxTicks
    /\ ticks' = ticks + 1
    /\ wall_clock' = update_timeval(wall_clock)
    /\ monotonic_clock' = update_timeval(monotonic_clock)
    /\ stime' = [stime EXCEPT ![t] = update_timeval(@)]
    /\ UNCHANGED <<copy, reading, set>>

-----------------------------------------------------------------------------
Value(c) == IF c = "CLOCK_REALTIME" THEN wall_clock ELSE monotonic_clock

\* gettimeofday(), uptime() and clock_gettime(): interrupts go off, one word is
\* copied, then the other, and interrupts go on again.
read_begin(c) ==
    /\ ~InterruptsOff
    /\ copy' = [clock |-> c, sec |-> Value(c).tv_sec]
    /\ UNCHANGED <<monotonic_clock, wall_clock, stime, reading, ticks, set>>

read_end ==
    /\ copy.clock \in Clocks
    /\ reading' = [reading EXCEPT ![copy.clock] =
                      timeval(copy.sec, Value(copy.clock).tv_usec)]
    /\ copy' = NoCopy
    /\ UNCHANGED <<monotonic_clock, wall_clock, stime, ticks, set>>

\* settimeofday() and clock_settime(CLOCK_REALTIME); the latter answers EINVAL
\* for every other clock.  A time that is set starts a new series of readings.
settimeofday(s, u) ==
    /\ ~InterruptsOff
    /\ wall_clock' = timeval(s, u)
    /\ reading' = [reading EXCEPT !["CLOCK_REALTIME"] = timeval(s, u)]
    /\ set' = [tv |-> timeval(s, u), ticks |-> ticks]
    /\ UNCHANGED <<monotonic_clock, stime, copy, ticks>>

ClockNext ==
    \/ \E t \in Task : timer_update(t)
    \/ \E c \in Clocks : read_begin(c)
    \/ read_end
    \/ settimeofday(0, USECS_PER_SEC - 1)

-----------------------------------------------------------------------------
(***************************************************************************)
(* Properties.                                                             *)
(***************************************************************************)
\* No tick is lost or counted twice at a carry: the monotonic clock shows the
\* ticks since boot, the wall clock runs in step with it from the time it was
\* set to, and the threads' processor times add up to it.
ClocksExact ==
    LET zero == timeval(0, 0)
    IN  /\ Usecs(zero, monotonic_clock) = ticks * TickUsecs
        /\ Usecs(set.tv, wall_clock) = (ticks - set.ticks) * TickUsecs
        /\ MapThenSumSet(LAMBDA t : Usecs(zero, stime[t]), Task) = ticks * TickUsecs

\* What gettimeofday(), uptime() and clock_gettime() return never goes back,
\* and is what the clock shows at the return: the two words belong together.
ReadingsAscend ==
    [][\A c \in Clocks : reading'[c] # reading[c] =>
          /\ reading'[c] = Value(c)'
          /\ set' # set \/ Usecs(reading[c], reading'[c]) >= 0]_clockVars
=============================================================================
