------------------------------ MODULE Lifecycle ------------------------------
(***************************************************************************)
(* The life of a thread: pthread_create(), pthread_exit(), pthread_join()  *)
(* and pthread_detach(), on top of the scheduler.  A pthread_t is a        *)
(* pointer to a slot of pthreads[], and slots are used again: gen[t]       *)
(* counts the threads slot t has held, so that <<t, gen[t]>> names a       *)
(* thread, where the code has only t.                                      *)
(*                                                                         *)
(* handles are the pthread_t values the application's threads share.  A    *)
(* disciplined application uses each for one successful call of            *)
(* pthread_join() or pthread_detach(), as POSIX demands; in another one    *)
(* any thread may use any handle at any time, also after the thread is     *)
(* gone.                                                                   *)
(***************************************************************************)
EXTENDS Sched

CONSTANT MaxGen     \* the bound on the threads a slot holds in turn

\* pthreads[] is an array, and the null pointer is no handle.
ASSUME LifecycleAssumption ==
    /\ MaxGen \in Nat
    /\ IsFiniteSet(Thread)
    /\ NULL \notin Thread \X Nat

VARIABLES
    detached,       \* the threads with PTHREAD_FLAG_DETACH
    waiter,         \* waiter[t]: the thread that waits in join for t, or NULL
    gen,            \* gen[t]: how many threads slot t has held
    handles,        \* the handles the application can use
    target,         \* target[t]: the thread that t's create or join is about
    disciplined     \* whether a handle is used up by join and detach

lifeVars == <<detached, waiter, gen, handles, target>>
vars == <<sched, pc, timers, detached, waiter, gen, handles, target, disciplined>>

Handle == Thread \X Nat
Named(t) == <<t, gen[t]>>
Slot(h) == h[1]
Target == Slot(target[Current])

Use(h) == handles' = IF disciplined THEN handles \ {h} ELSE handles
GiveBack == handles' = handles \cup {target[Current]}
ForgetTarget == target' = [target EXCEPT ![Current] = NULL]

-----------------------------------------------------------------------------
LifecycleInit ==
    /\ SchedInit
    /\ detached = {}
    /\ waiter = [t \in Task |-> NULL]
    /\ gen = [t \in Thread |-> 0]
    /\ handles = {}
    /\ target = [t \in Task |-> NULL]
    /\ disciplined \in BOOLEAN

\* An application initializer creates a joinable thread: pthread_create() as
\* below, but in one go, since interrupts are off and schedule() is deferred.
BootCreateThread(p) ==
    /\ BootCreate(p)
    /\ LET t == Min(FreeSlots(sched))
       IN  /\ gen' = [gen EXCEPT ![t] = @ + 1]
           /\ handles' = handles \cup {<<t, gen'[t]>>}
    /\ UNCHANGED <<detached, waiter, target>>

(***************************************************************************)
(* pthread_create(): the slot is claimed with interrupts disabled, and     *)
(* filled in with interrupts enabled, while no one else has its address;   *)
(* the two halves of wake_up() follow; *thread is stored last, when the    *)
(* new thread may long be running, or gone.                                *)
(***************************************************************************)
create_claim ==
    /\ Calls("create")
    /\ FreeSlots(sched) # {}
    /\ LET t == Min(FreeSlots(sched))
       IN  /\ gen[t] < MaxGen
           /\ sched' = [sched EXCEPT !.state[t] = "INIT"]
           /\ target' = [target EXCEPT ![Current] = <<t, gen[t] + 1>>]
    /\ Goto("create")
    /\ UNCHANGED <<timers, detached, waiter, gen, handles>>

\* A disciplined application has no use for the handle of a thread that it
\* creates detached.
create_fill(p, flag) ==
    /\ At("create")
    /\ sched' = __pthread_set_running(InitSlot(sched, Target, p), Target)
    /\ detached' = IF flag THEN detached \cup {Target} ELSE detached \ {Target}
    /\ waiter' = [waiter EXCEPT ![Target] = NULL]
    /\ gen' = [gen EXCEPT ![Target] = @ + 1]
    /\ pc' = [pc EXCEPT ![Current] = "create_wake", ![Target] = "user"]
    /\ IF disciplined /\ flag THEN ForgetTarget ELSE UNCHANGED target
    /\ UNCHANGED <<timers, handles>>

create_wake ==
    /\ At("create_wake")
    /\ sched' = schedule(sched)
    /\ Goto("create_ret")
    /\ UNCHANGED <<timers, lifeVars>>

create_return ==
    /\ At("create_ret")
    /\ handles' = handles \cup ({target[Current]} \ {NULL})
    /\ ForgetTarget
    /\ Goto("user")
    /\ UNCHANGED <<sched, timers, detached, waiter, gen>>

\* Mutant: the slot is free although no one has joined the thread.
ExitFreesSlot ==
    /\ Calls("exit")
    /\ LET s == [sched EXCEPT !.state[Current] = "NONE"]
       IN  sched' = IF Current \notin detached /\ waiter[Current] # NULL
                    THEN wake_up(s, waiter[Current])
                    ELSE schedule(s)
    /\ Goto("none")
    /\ UNCHANGED <<timers, lifeVars>>

\* Mutant: the joiner is not woken.
ExitNoWake ==
    /\ Calls("exit")
    /\ sched' = schedule([sched EXCEPT
                   !.state[Current] = IF Current \in detached THEN "NONE" ELSE "EXIT"])
    /\ Goto("none")
    /\ UNCHANGED <<timers, lifeVars>>

(***************************************************************************)
(* pthread_exit(): the slot of a detached thread is free at once; another  *)
(* one stays EXIT until it is joined.                                      *)
(***************************************************************************)
pthread_exit ==
    /\ Calls("exit")
    /\ LET t == Current
           gone == IF t \in detached THEN "NONE" ELSE "EXIT"
           s == [sched EXCEPT !.state[t] = gone]
       IN  sched' = IF gone = "EXIT" /\ waiter[t] # NULL
                    THEN wake_up(s, waiter[t])
                    ELSE schedule(s)
    /\ Goto("none")
    /\ UNCHANGED <<timers, lifeVars>>

-----------------------------------------------------------------------------
\* The chain of waiters that begins with t's, up to n of them.
WaiterAt(w, t, n) ==
    LET chain[i \in Nat] ==
            LET u == IF i = 0 THEN t ELSE chain[i - 1]
            IN  IF u = NULL THEN NULL ELSE w[u]
    IN  chain[n]

\* Mutant: only a thread that joins itself is noticed.
LoopOfOne(w, t) == w[t] = t

has_loop(w, t) == \E n \in 0..Cardinality(Task) : WaiterAt(w, t, n) = t

(***************************************************************************)
(* pthread_join(): one step is one way through the body of the loop, all   *)
(* with interrupts disabled; the thread may sleep and be woken in between. *)
(***************************************************************************)
join_call(h) ==
    /\ Calls("join")
    /\ h \in handles
    /\ Use(h)
    /\ target' = [target EXCEPT ![Current] = h]
    /\ Goto("join")
    /\ UNCHANGED <<sched, timers, detached, waiter, gen>>

JoinReturns == Goto("user") /\ ForgetTarget

join_reap ==
    /\ At("join")
    /\ sched.state[Target] = "EXIT"
    /\ sched' = [sched EXCEPT !.state[Target] = "NONE"]
    /\ JoinReturns
    /\ UNCHANGED <<timers, detached, waiter, gen, handles>>

join_esrch ==
    /\ At("join")
    /\ sched.state[Target] = "NONE"
    /\ JoinReturns
    /\ UNCHANGED <<sched, timers, detached, waiter, gen, handles>>

Joinable == Target \notin detached /\ waiter[Target] = NULL

join_einval ==
    /\ At("join")
    /\ sched.state[Target] \notin {"EXIT", "NONE"}
    /\ ~Joinable
    /\ JoinReturns
    /\ UNCHANGED <<sched, timers, detached, waiter, gen, handles>>

Registered == [waiter EXCEPT ![Target] = Current]

\* The caller keeps the handle when the answer is EDEADLK.
join_edeadlk ==
    /\ At("join")
    /\ sched.state[Target] \notin {"EXIT", "NONE"}
    /\ Joinable
    /\ has_loop(Registered, Target)
    /\ GiveBack
    /\ JoinReturns
    /\ UNCHANGED <<sched, timers, detached, waiter, gen>>

join_sleep ==
    /\ At("join")
    /\ sched.state[Target] \notin {"EXIT", "NONE"}
    /\ Joinable
    /\ ~has_loop(Registered, Target)
    /\ waiter' = Registered
    /\ sched' = Block(sched)
    /\ Goto("join_wait")
    /\ UNCHANGED <<timers, detached, gen, handles, target>>

\* Mutant: the joiner stays registered.
ResumeRegistered ==
    /\ At("join_wait")
    /\ Goto("join")
    /\ UNCHANGED <<sched, timers, detached, waiter, gen, handles, target>>

join_resume ==
    /\ At("join_wait")
    /\ waiter' = [waiter EXCEPT ![Target] = NULL]
    /\ Goto("join")
    /\ UNCHANGED <<sched, timers, detached, gen, handles, target>>

-----------------------------------------------------------------------------
(***************************************************************************)
(* pthread_detach().  ESRCH, for a slot that is NONE or INIT, and EINVAL,  *)
(* for a thread that is detached already, change nothing.                  *)
(***************************************************************************)
detach_running(h) ==
    /\ Calls("detach")
    /\ h \in handles
    /\ sched.state[Slot(h)] \in {"RUNNING", "SLEEPING"}
    /\ Slot(h) \notin detached
    /\ detached' = detached \cup {Slot(h)}
    /\ sched' = IF waiter[Slot(h)] = NULL THEN sched
                ELSE wake_up(sched, waiter[Slot(h)])
    /\ Use(h)
    /\ UNCHANGED <<pc, timers, waiter, gen, target>>

\* Mutant: a thread that has exited keeps its slot.
DetachKeepsSlot(h) ==
    /\ Calls("detach")
    /\ h \in handles
    /\ sched.state[Slot(h)] = "EXIT"
    /\ Use(h)
    /\ UNCHANGED <<sched, pc, timers, detached, waiter, gen, target>>

detach_exited(h) ==
    /\ Calls("detach")
    /\ h \in handles
    /\ sched.state[Slot(h)] = "EXIT"
    /\ sched' = [sched EXCEPT !.state[Slot(h)] = "NONE"]
    /\ Use(h)
    /\ UNCHANGED <<pc, timers, detached, waiter, gen, target>>

-----------------------------------------------------------------------------
Create ==
    \/ create_claim
    \/ \E p \in Priorities, flag \in BOOLEAN : create_fill(p, flag)
    \/ create_wake
    \/ create_return

JoinStep ==
    \/ join_reap \/ join_esrch \/ join_einval \/ join_edeadlk
    \/ join_sleep \/ join_resume

Detach(h) == detach_running(h) \/ detach_exited(h)

LifecycleStep ==
    \/ \E p \in Priorities : BootCreateThread(p)
    \/ (BootEnable \/ BootYield \/ pthread_yield \/ Sleeping \/ Timer) /\ UNCHANGED lifeVars
    \/ Create
    \/ pthread_exit
    \/ JoinStep
    \/ \E h \in handles : join_call(h) \/ Detach(h)

LifecycleNext == LifecycleStep /\ UNCHANGED disciplined

LifecycleSpec == LifecycleInit /\ [][LifecycleNext]_vars

-----------------------------------------------------------------------------
(***************************************************************************)
(* Properties.  The first three are about disciplined applications.        *)
(***************************************************************************)

\* A slot is not given to another thread while pthread_join() is at work on it,
\* so join() returns the value of the thread it was called for, or fails.
JoinsItsThread ==
    disciplined => \A t \in Thread :
        pc[t] \in {"join", "join_wait"} => target[t] = Named(Slot(target[t]))

\* No joiner is lost: a thread that sleeps in pthread_join() is the registered
\* waiter of a thread that has still to exit, and will wake it then.
NoLostJoiner ==
    disciplined => \A t \in Thread :
        pc[t] = "join_wait" /\ sched.state[t] = "SLEEPING" =>
            /\ waiter[Slot(target[t])] = t
            /\ sched.state[Slot(target[t])] \in {"RUNNING", "SLEEPING"}
            /\ Slot(target[t]) \notin detached

\* No slot leaks: the application can still reap every thread that has exited,
\* with a handle it has or is about to be given, or in a join under way.
NoZombie ==
    disciplined => \A z \in Thread : sched.state[z] = "EXIT" =>
        \/ Named(z) \in handles
        \/ \E t \in Thread :
              target[t] = Named(z) /\ pc[t] \in {"create_wake", "create_ret", "join", "join_wait"}

\* has_loop() keeps threads from waiting for each other in a circle, so its own
\* walk ends too, whatever handles the application uses.
WaitersAcyclic ==
    \A S \in SUBSET Task : S # {} => \E t \in S : waiter[t] \notin S

\* A slot that is free, or being filled in, is on no queue and nobody's waiter,
\* whatever handles the application uses.
FreeSlotUnused ==
    \A t \in Thread : sched.state[t] \in {"NONE", "INIT"} =>
        /\ t \notin sched.linked
        /\ \A u \in Task : waiter[u] # t
=============================================================================
