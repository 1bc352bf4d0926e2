---------------------------- MODULE MCTimerHeap ----------------------------
(***************************************************************************)
(* Instances of TimerHeap for TLC.                                         *)
(***************************************************************************)
EXTENDS TimerHeap, TLC

Permuted == Permutations(Timer)
=============================================================================
