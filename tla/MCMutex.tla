------------------------------- MODULE MCMutex -------------------------------
(***************************************************************************)
(* Instances of Mutex for TLC.                                             *)
(***************************************************************************)
EXTENDS Mutex

CONSTANTS m1, m2

OneMutex == [m \in {m1} |-> 1]
TwoMutexes == [m \in {m1, m2} |-> IF m = m1 THEN 1 ELSE 2]
=============================================================================
