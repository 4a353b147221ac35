----------------------------- MODULE SlotPool -----------------------------
(***************************************************************************)
(* What the task table promises: a pool of slots, handed out and taken     *)
(* back first in, first out, so that the slot, and with it the low part of *)
(* the pid, that was freed last is reused last.                            *)
(***************************************************************************)
EXTENDS Integers, Sequences

CONSTANT Size        \* the number of slots

VARIABLES free,      \* the free slots, the next one to hand out first
          used       \* the slots handed out

PoolInit ==
    /\ free = [i \in 1 .. Size |-> i - 1]
    /\ used = {}

Take ==
    /\ free # <<>>
    /\ used' = used \cup {Head(free)}
    /\ free' = Tail(free)

GiveBack(s) ==
    /\ s \in used
    /\ used' = used \ {s}
    /\ free' = Append(free, s)

PoolNext == Take \/ \E s \in 0 .. Size - 1 : GiveBack(s)

PoolSpec == PoolInit /\ [][PoolNext]_<<free, used>>
===========================================================================
