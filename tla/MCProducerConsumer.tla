------------------------- MODULE MCProducerConsumer -------------------------
(***************************************************************************)
(* An instance of ProducerConsumer for TLC.                                *)
(***************************************************************************)
EXTENDS ProducerConsumer

OneMutex == [m \in {mutex} |-> 1]
=============================================================================
