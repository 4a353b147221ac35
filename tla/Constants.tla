----------------------------- MODULE Constants -----------------------------
(***************************************************************************)
(* The number of terminals (kernel/constants.h), which the terminals, the  *)
(* device table and init share.                                            *)
(***************************************************************************)
EXTENDS Integers

CONSTANT TTY_COUNT       \* terminals (12)

ASSUME TtyCountAssumption == TTY_COUNT \in Nat \ {0}

Ttys == 0 .. TTY_COUNT - 1
=============================================================================
