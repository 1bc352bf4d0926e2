------------------------------- MODULE MCSched -------------------------------
(***************************************************************************)
(* Instances of Sched for TLC: three slots, a time slice of two ticks (the *)
(* shortest with a tick that does not end the slice), and as many          *)
(* priorities above the idle one as a run needs.                           *)
(***************************************************************************)
EXTENDS Sched
=============================================================================
