------------------------------- MODULE MCCond -------------------------------
(***************************************************************************)
(* Instances of Cond for TLC.                                              *)
(***************************************************************************)
EXTENDS Cond

CONSTANT m1

OneMutex == [m \in {m1} |-> 1]
=============================================================================
