------------------------------ MODULE TimerSpec ------------------------------
(***************************************************************************)
(* What timer_add(), timer_delete() and timer_update() of kernel/timer.c   *)
(* promise: a timer that is pending runs its function in the first tick    *)
(* at which it is due, before any timer that is due later, and once; a     *)
(* timer that is deleted does not run.                                     *)
(***************************************************************************)
EXTENDS Integers

CONSTANT Timer

VARIABLES
    left,       \* left[t]: the ticks until t is due, for each pending timer t
    ticking     \* whether timer_update() is at work

Pending == DOMAIN left

Init == left = [t \in {} |-> 0] /\ ticking = FALSE

Add(t) ==
    /\ ~ticking
    /\ t \notin Pending
    /\ DOMAIN left' = Pending \cup {t}
    /\ left'[t] \in Int
    /\ \A u \in Pending : left'[u] = left[u]
    /\ UNCHANGED ticking

Removed(t) == left' = [u \in Pending \ {t} |-> left[u]]

Delete(t) == ~ticking /\ Removed(t) /\ UNCHANGED ticking

Tick ==
    /\ ~ticking
    /\ ticking' = TRUE
    /\ left' = [u \in Pending |-> left[u] - 1]

Fire(t) ==
    /\ ticking
    /\ t \in Pending
    /\ left[t] <= 0
    /\ \A u \in Pending : left[t] <= left[u]
    /\ Removed(t)
    /\ UNCHANGED ticking

EndTick ==
    /\ ticking
    /\ \A u \in Pending : left[u] > 0
    /\ ticking' = FALSE
    /\ UNCHANGED left

Next ==
    \/ \E t \in Timer : Add(t) \/ Delete(t) \/ Fire(t)
    \/ Tick
    \/ EndTick

Spec == Init /\ [][Next]_<<left, ticking>>
=============================================================================
