------------------------------ MODULE InputSpec ------------------------------
(***************************************************************************)
(* What a reader of the keyboard may rely on: the bytes come in the order  *)
(* of the keys, each once, and what one key sends comes whole or, when     *)
(* there is no room for it, not at all.                                    *)
(***************************************************************************)
EXTENDS Naturals, Sequences

CONSTANTS
    Units,      \* the sequences of bytes that keys send
    Size        \* how many bytes can wait

VARIABLE queue

Init == queue = <<>>

Type(u) == Len(queue) + Len(u) <= Size /\ queue' = queue \o u

Read == queue # <<>> /\ queue' = Tail(queue)

Next == (\E u \in Units : Type(u)) \/ Read

Spec == Init /\ [][Next]_queue
=============================================================================
