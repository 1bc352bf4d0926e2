-------------------------- MODULE ProducerConsumer --------------------------
(***************************************************************************)
(* applications/producer_consumer.c: two threads that hand over a number   *)
(* through the pointer pcount, on the mutexes and condition variables of   *)
(* the kernel.  pcount points to the producer's local variable count,      *)
(* which the producer increments after it has unlocked the mutex.          *)
(*                                                                         *)
(* A thread's program counter is in app; it moves while the thread's place *)
(* in the kernel is "user".  Calls into the kernel are the actions of      *)
(* module Cond.                                                            *)
(***************************************************************************)
EXTENDS Cond

CONSTANTS
    mutex, cond_empty, cond_full,
    Modulus     \* the range of a uint32_t

\* The threads in the order in which producer_consumer_init() creates them.
Producer == 0
Consumer == 1

ASSUME RolesAssumption ==
    /\ Thread = {Producer, Consumer}
    /\ Mutex = {mutex}
    /\ Cond = {cond_empty, cond_full}
    /\ cond_empty # cond_full
    /\ Modulus \in Nat /\ Modulus > 2

VARIABLES
    app,
    pcount,     \* whether pcount points to count; it is NULL otherwise
    count,      \* the producer's count
    printed,    \* the consumer's count, which it prints
    number      \* how many numbers have been handed over, modulo Modulus

appVars == <<app, pcount, count, printed, number>>
pcVars == <<allVars, app, pcount, count, printed, number>>

Runs(t, label) == Current = t /\ At("user") /\ app[t] = label
Step(t, label) == app' = [app EXCEPT ![t] = label]
Plus1(k) == (k + 1) % Modulus

PCInit ==
    /\ CondInit
    /\ app = [t \in Thread |-> "lock"]
    /\ pcount = FALSE
    /\ count = 0
    /\ printed = 0
    /\ number = 0

-----------------------------------------------------------------------------
\* What both threads do with the mutex and the condition variables.
Locking(t) ==
    /\ Runs(t, "lock")
    /\ lock_free(mutex) \/ lock_contend(mutex)
    /\ Step(t, "test")
    /\ UNCHANGED <<condVars, pcount, count, printed, number>>

Signals(t, c) ==
    /\ Runs(t, "signal")
    /\ IF cond_wq[c] # <<>> THEN signal(c) ELSE UNCHANGED allVars
    /\ Step(t, "unlock")
    /\ UNCHANGED <<pcount, count, printed, number>>

Unlocks(t, label) ==
    /\ Runs(t, "unlock")
    /\ unlock(mutex)
    /\ Step(t, label)
    /\ UNCHANGED <<condVars, pcount, count, printed, number>>

producer_wait ==
    /\ Runs(Producer, "test")
    /\ pcount
    /\ cond_wait(cond_full, mutex, "wait")
    /\ UNCHANGED appVars

\* Mutant: the number is stored whether or not the last one was taken.
SetUntested ==
    /\ Runs(Producer, "test")
    /\ pcount' = TRUE
    /\ Step(Producer, "signal")
    /\ UNCHANGED <<allVars, count, printed, number>>

producer_set ==
    /\ Runs(Producer, "test")
    /\ ~pcount
    /\ pcount' = TRUE
    /\ Step(Producer, "signal")
    /\ UNCHANGED <<allVars, count, printed, number>>

producer_increment ==
    /\ Runs(Producer, "increment")
    /\ count' = Plus1(count)
    /\ Step(Producer, "lock")
    /\ UNCHANGED <<allVars, pcount, printed, number>>

producer ==
    \/ Locking(Producer) \/ producer_wait \/ producer_set
    \/ Signals(Producer, cond_empty) \/ Unlocks(Producer, "increment")
    \/ producer_increment

-----------------------------------------------------------------------------
consumer_wait ==
    /\ Runs(Consumer, "test")
    /\ ~pcount
    /\ cond_wait(cond_empty, mutex, "wait")
    /\ UNCHANGED appVars

consumer_read ==
    /\ Runs(Consumer, "test")
    /\ pcount
    /\ printed' = count
    /\ number' = Plus1(number)
    /\ Step(Consumer, "clear")
    /\ UNCHANGED <<allVars, pcount, count>>

consumer_clear ==
    /\ Runs(Consumer, "clear")
    /\ pcount' = FALSE
    /\ Step(Consumer, "signal")
    /\ UNCHANGED <<allVars, count, printed, number>>

consumer_print ==
    /\ Runs(Consumer, "print")
    /\ Step(Consumer, "lock")
    /\ UNCHANGED <<allVars, pcount, count, printed, number>>

consumer ==
    \/ Locking(Consumer) \/ consumer_wait \/ consumer_read \/ consumer_clear
    \/ Signals(Consumer, cond_full) \/ Unlocks(Consumer, "print")
    \/ consumer_print

-----------------------------------------------------------------------------
\* producer_consumer_init() creates both threads before main() goes on.
Starting ==
    /\ Boot
    /\ pc'[Idle] = "sti" => FreeSlots(sched) = {}
    /\ UNCHANGED <<mutexVars, condVars>>

Ticking == Timer /\ UNCHANGED <<mutexVars, condVars>>

\* The kernel's part of the calls, after the first step of each.
InKernel ==
    \/ Spread /\ UNCHANGED condVars
    \/ lock_sleep(mutex) /\ UNCHANGED condVars
    \/ lock_win(mutex) /\ EndWait
    \/ Waiting

PCNext ==
    \/ producer
    \/ consumer
    \/ (Starting \/ Ticking \/ InKernel) /\ UNCHANGED appVars

PCSpec == PCInit /\ [][PCNext]_pcVars

\* Ticks and handlers as in SchedFairness; a thread executes when it is
\* current again and again, and code with interrupts disabled runs on.
PCFairness ==
    /\ WF_pcVars(Starting /\ UNCHANGED appVars)
    /\ SF_pcVars(IrqEnter /\ UNCHANGED <<mutexVars, condVars, appVars>>)
    /\ WF_pcVars(IrqLeave /\ UNCHANGED <<mutexVars, condVars, appVars>>)
    /\ WF_pcVars(InKernel /\ UNCHANGED appVars)
    /\ SF_pcVars(producer)
    /\ SF_pcVars(consumer)

FairPCSpec == PCSpec /\ PCFairness

-----------------------------------------------------------------------------
(***************************************************************************)
(* Properties.                                                             *)
(***************************************************************************)
\* Each number handed over is taken before the next: the producer is at most
\* one ahead of the consumer, and the consumer never ahead of the producer.  The
\* number printed is the one whose turn it is or, when the producer has
\* incremented count before the consumer reads it, the next one.
InStep ==
    LET ahead == (count + Modulus - number) % Modulus
    IN  /\ \/ ahead = 0
           \/ ahead = 1 /\ (pcount \/ app[Producer] \in {"lock", "test"})
           \/ ahead = Modulus - 1 /\ app[Producer] \in {"signal", "unlock", "increment"}
        /\ app[Consumer] = "print" => printed \in {(number + Modulus - 1) % Modulus, number}

\* The two threads never wait for each other: numbers are printed for ever.
KeepsPrinting == []<>(app[Consumer] = "print")
=============================================================================
