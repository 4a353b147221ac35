------------------------------- MODULE Arith -------------------------------
(***************************************************************************)
(* The 64-bit division that the compiler calls and the C code provides     *)
(* (kernel/core/kutils.c, and again in libs/libc.c): shift and subtract,   *)
(* a turn of the loop a step, and division by ten for printing numbers.    *)
(***************************************************************************)
EXTENDS Integers

CONSTANTS
  W,        \* bits of a word (64)
  Pow       \* Pow[k] is 2^k

ASSUME ArithAssumption ==
  /\ W \in Nat \ {0}
  /\ Pow \in [0 .. W -> Nat \ {0}]
  /\ Pow[0] = 1
  /\ \A k \in 0 .. W - 1 : Pow[k + 1] = 2 * Pow[k]

\* A word has at most 64 bits: 2^W is at most 2^64.
ASSUME WidthAssumption == (((Pow[W] \div 65536) \div 65536) \div 65536) \div 65536 <= 1

VARIABLES
  a, b,     \* arguments of the call, as integers
  n, d,     \* arguments of the loop, unsigned
  i,        \* bits of n that are left
  r, q      \* remainder and quotient so far

arithVars == <<a, b, n, d, i, r, q>>

Word == 0 .. Pow[W] - 1

\* Signed words but the least, whose magnitude is no signed word.
SignedWord == -(Pow[W - 1] - 1) .. Pow[W - 1] - 1

Magnitude(x) == IF x < 0 THEN -x ELSE x

\* A call of __udivdi3, __umoddi3, __udivmoddi4 (words) or of __divdi3,
\* __moddi3, __divmoddi4 (signed words), with a divisor that is not zero: the
\* functions return 0 for zero.
ArithInit ==
  /\ \/ a \in Word /\ b \in Word \ {0}
     \/ a \in SignedWord /\ b \in SignedWord \ {0}
  /\ n = Magnitude(a) /\ d = Magnitude(b)
  /\ i = W /\ r = 0 /\ q = 0

Bit(x, k) == (x \div Pow[k]) % 2

SetBit(x, k) == IF Bit(x, k) = 1 THEN x ELSE x + Pow[k]

\* r <<= 1; r |= (n >> i) & 1;
ShiftIn(k) == ((2 * r) % Pow[W]) + Bit(n, k)

\* Faulty variant of Turn: subtracts only from a larger remainder.
Turn_strict ==
  /\ i > 0
  /\ i' = i - 1
  /\ LET s == ShiftIn(i - 1)
     IN  IF s > d THEN r' = s - d /\ q' = SetBit(q, i - 1) ELSE r' = s /\ q' = q
  /\ UNCHANGED <<a, b, n, d>>

Turn ==
  /\ i > 0
  /\ i' = i - 1
  /\ LET s == ShiftIn(i - 1)
     IN  IF s >= d THEN r' = s - d /\ q' = SetBit(q, i - 1) ELSE r' = s /\ q' = q
  /\ UNCHANGED <<a, b, n, d>>

ArithNext == Turn
ArithSpec == ArithInit /\ [][ArithNext]_arithVars

\* What the functions return when the loop is done.
Quotient == IF (a < 0) # (b < 0) THEN -q ELSE q

Remainder == IF a < 0 THEN -r ELSE r
-----------------------------------------------------------------------------

\* Division by ten: an estimate by shifts, corrected by one if it is too small.
udiv64_10(x) ==
  LET q1 == (x \div 2) + (x \div 4)
      q2 == q1 + (q1 \div 16)
      q3 == q2 + (q2 \div 256)
      q4 == q3 + (q3 \div 65536)
      q5 == q4 + ((q4 \div 65536) \div 65536)
      est == q5 \div 8
      over == x - est * 10
  IN  IF over >= 10 THEN [quot |-> est + 1, rem |-> over - 10]
                    ELSE [quot |-> est, rem |-> over]
-----------------------------------------------------------------------------
(* The loop divides: when it is done, dividend = quotient * divisor +      *)
(* remainder with a remainder below the divisor. No bit falls out of r     *)
(* when it is shifted, whatever the divisor.                               *)
LoopDivides == i = 0 => n = q * d + r /\ 0 <= r /\ r < d

(* The results are those of C: the quotient is rounded towards zero, the   *)
(* remainder has the sign of the dividend, and __divmoddi4's a - q * b is  *)
(* the remainder of __moddi3.                                              *)
DividesLikeC ==
  i = 0 => /\ a = Quotient * b + Remainder
           /\ Magnitude(Remainder) < Magnitude(b)
           /\ (a >= 0 => Remainder >= 0) /\ (a <= 0 => Remainder <= 0)

(* The division by ten that prints numbers is exact for every word: one    *)
(* correction is always enough.                                            *)
Div10Exact == udiv64_10(n) = [quot |-> n \div 10, rem |-> n % 10]

(* The kernel's long divisions are C's divisions, for every dividend and   *)
(* every divisor but zero.                                                 *)
ArithCorrect == LoopDivides /\ DividesLikeC /\ Div10Exact
=============================================================================
