------------------------------- MODULE LockSpec -------------------------------
(***************************************************************************)
(* What a caller may rely on when it uses pthread mutexes: a mutex is held *)
(* by at most one thread at a time; only a recursive one can be locked     *)
(* again, by its holder.  Nothing is said of who is served next: a thread  *)
(* that finds the mutex free may take it ahead of those that wait.         *)
(***************************************************************************)
EXTENDS Naturals

CONSTANTS Thread, Mutex, Recursive

VARIABLE held   \* held[t][m]: how many times t has locked m

Free(m) == \A t \in Thread : held[t][m] = 0

Init == held = [t \in Thread |-> [m \in Mutex |-> 0]]

Acquire(t, m) ==
    /\ Free(m)
    /\ held' = [held EXCEPT ![t][m] = 1]

Reacquire(t, m) ==
    /\ m \in Recursive
    /\ held[t][m] > 0
    /\ held' = [held EXCEPT ![t][m] = @ + 1]

Release(t, m) ==
    /\ held[t][m] > 0
    /\ held' = [held EXCEPT ![t][m] = @ - 1]

Next == \E t \in Thread, m \in Mutex :
            Acquire(t, m) \/ Reacquire(t, m) \/ Release(t, m)

Spec == Init /\ [][Next]_held
=============================================================================
