---------------------------- MODULE MCWallClock ----------------------------
(***************************************************************************)
(* Module WallClock eight hours east of Greenwich.                         *)
(***************************************************************************)
EXTENDS WallClock

MCTz == -480
=============================================================================
