------------------------------- MODULE Fifo -------------------------------
(* What the run queue promises: tasks leave in the order in which they     *)
(* came, each once.                                                        *)
EXTENDS Sequences, Integers

CONSTANT Elements
VARIABLE q

FifoInit == q = <<>>

Enter(e) ==
    /\ \A i \in 1 .. Len(q) : q[i] # e
    /\ q' = Append(q, e)

Leave == q # <<>> /\ q' = Tail(q)

FifoNext == Leave \/ \E e \in Elements : Enter(e)

FifoSpec == FifoInit /\ [][FifoNext]_q
===========================================================================
