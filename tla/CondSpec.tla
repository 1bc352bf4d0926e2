------------------------------ MODULE CondSpec ------------------------------
(***************************************************************************)
(* What a caller may rely on when it uses condition variables: waiting     *)
(* unlocks the mutex and blocks in one step, so that a signal sent from    *)
(* then on can reach the thread; a signal lets one blocked thread go, a    *)
(* broadcast all of them; a thread returns from its wait in the step in    *)
(* which it holds the mutex again.  Only a timed wait gives up by itself.  *)
(***************************************************************************)
EXTENDS LockSpec

CONSTANT Cond

VARIABLES
    waits,      \* waits[t]: the condition variable, mutex and kind of t's wait
    blocked     \* the threads whose wait has not been signalled

Waiting(t) == waits[t] # {}
BlockedOn(c) == {t \in blocked : \E w \in waits[t] : w.cond = c}

CondInit ==
    /\ Init
    /\ waits = [t \in Thread |-> {}]
    /\ blocked = {}

Wait(t, w) ==
    /\ ~Waiting(t)
    /\ Release(t, w.mutex)
    /\ waits' = [waits EXCEPT ![t] = {w}]
    /\ blocked' = blocked \cup {t}

Signal(c) ==
    /\ \E t \in BlockedOn(c) : blocked' = blocked \ {t}
    /\ UNCHANGED <<held, waits>>

Broadcast(c) ==
    /\ blocked' = blocked \ BlockedOn(c)
    /\ UNCHANGED <<held, waits>>

Return(t) ==
    /\ \E w \in waits[t] :
          /\ t \in blocked => w.kind = "timedwait"
          /\ Acquire(t, w.mutex) \/ Reacquire(t, w.mutex)
    /\ waits' = [waits EXCEPT ![t] = {}]
    /\ blocked' = blocked \ {t}

Locking ==
    /\ \E t \in Thread, m \in Mutex :
          ~Waiting(t) /\ (Acquire(t, m) \/ Reacquire(t, m) \/ Release(t, m))
    /\ UNCHANGED <<waits, blocked>>

CondNext ==
    \/ \E t \in Thread, c \in Cond, m \in Mutex, k \in {"wait", "timedwait"} :
           Wait(t, [cond |-> c, mutex |-> m, kind |-> k])
    \/ \E c \in Cond : Signal(c) \/ Broadcast(c)
    \/ \E t \in Thread : Return(t)
    \/ Locking

CondSpec == CondInit /\ [][CondNext]_<<held, waits, blocked>>
=============================================================================
