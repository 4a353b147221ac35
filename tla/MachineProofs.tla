--------------------------- MODULE MachineProofs ---------------------------
(***************************************************************************)
(* Proofs about the parts near the machine: division, for every width of a *)
(* word; the heap of a process, for every number of processes and size of  *)
(* heap; the frames on the stacks, for every number of tasks and every     *)
(* program; the clocks, for every rate of the time stamp counter; dates,   *)
(* for every last year; and the address spaces, for every number and size  *)
(* of processes.                                                           *)
(***************************************************************************)
EXTENDS Arith, Heap, CtxFrames, Calendar, Mm, CounterLemmas, FiniteSetTheorems, SequenceTheorems, TLAPS

\* A quotient is determined by its defining equation.
LEMMA DivUnique ==
    ASSUME NEW m \in Nat \ {0}, NEW x \in Int, NEW z \in Int,
           z * m <= x, x < z * m + m
    PROVE  x \div m = z /\ x % m = x - z * m
  <1> DEFINE y == x \div m
  <1>1. y \in Int /\ m * y + (x % m) = x /\ x % m \in 0 .. m - 1
    OBVIOUS
  <1> HIDE DEF y
  <1>2. DEFINE e == y - z
  <1>3. e \in Int /\ m * e < m /\ m * e > -m
    <2>1. m * e = m * y - m * z
      BY <1>1
    <2>2. m * y <= x /\ x - m < m * y
      BY <1>1
    <2>3. m * z <= x /\ x - m < m * z
      OBVIOUS
    <2> QED
      BY <1>1, <2>1, <2>2, <2>3
  <1>4. e = 0
    <2>1. CASE e >= 1
      <3>1. m * e >= m
        BY <1>3, <2>1
      <3> QED
        BY <3>1, <1>3
    <2>2. CASE e <= -1
      <3>1. m * e <= -m
        BY <1>3, <2>2
      <3> QED
        BY <3>1, <1>3
    <2> QED
      BY <2>1, <2>2, <1>3
  <1>5. y = z
    BY <1>1, <1>4
  <1> QED
    BY <1>1, <1>5 DEF y

\* The quotient and its bounds.
LEMMA DivBounds ==
    ASSUME NEW m \in Nat \ {0}, NEW x \in Nat
    PROVE  /\ x \div m \in Nat
           /\ (x \div m) * m <= x /\ x < (x \div m) * m + m
  <1> DEFINE y == x \div m
  <1>1. y \in Int /\ m * y + (x % m) = x /\ x % m \in 0 .. m - 1
    OBVIOUS
  <1> HIDE DEF y
  <1>2. y >= 0
    <2> SUFFICES ASSUME y <= -1 PROVE FALSE
      BY <1>1
    <2>1. m * y <= -m
      BY <1>1
    <2> QED
      BY <1>1, <2>1
  <1>3. y * m <= x /\ x < y * m + m
    BY <1>1
  <1> QED
    BY <1>1, <1>2, <1>3 DEF y

\* A bit of x is what halving the shifted number leaves over.
LEMMA HalfStep ==
    ASSUME NEW m \in Nat \ {0}, NEW x \in Nat
    PROVE  x \div m = 2 * (x \div (2 * m)) + ((x \div m) % 2)
  <1> DEFINE h == x \div (2 * m)
             y == x \div m
  <1>1. 2 * m \in Nat \ {0}
    OBVIOUS
  <1>2. h \in Nat /\ h * (2 * m) <= x /\ x < h * (2 * m) + 2 * m
    BY <1>1, DivBounds
  <1>3. y \in Nat /\ y % 2 \in {0, 1}
    BY DivBounds
  <1> HIDE DEF h
  <1>4. y = 2 * h \/ y = 2 * h + 1
    <2>1. CASE x < h * (2 * m) + m
      <3> DEFINE z == 2 * h
      <3>1. z \in Int /\ z * m <= x /\ x < z * m + m
        BY <1>2, <2>1
      <3> HIDE DEF z
      <3>2. y = z
        BY <3>1, DivUnique
      <3> QED
        BY <3>2 DEF z
    <2>2. CASE x >= h * (2 * m) + m
      <3> DEFINE z == 2 * h + 1
      <3>1. z \in Int /\ z * m <= x /\ x < z * m + m
        BY <1>2, <2>2
      <3> HIDE DEF z
      <3>2. y = z
        BY <3>1, DivUnique
      <3> QED
        BY <3>2 DEF z
    <2> QED
      BY <1>2, <2>1, <2>2
  <1> HIDE DEF y
  <1>5. (2 * h) % 2 = 0 /\ (2 * h + 1) % 2 = 1
    BY <1>2
  <1>6. y = 2 * h + (y % 2)
    BY <1>2, <1>3, <1>4, <1>5
  <1> QED
    BY <1>6 DEF h, y

(* The estimate by shifts is at most one too small: the losses of the      *)
(* shifts add up to less than eight, which the last shift divides by       *)
(* eight. Only linear facts about the shifted numbers are left here.       *)
LEMMA EstimateTight ==
    ASSUME NEW x \in Nat, NEW h \in Int, NEW g \in Int, NEW s2 \in Int, NEW s3 \in Int,
           NEW s4 \in Int, NEW s5 \in Int, NEW t5 \in Int, NEW est \in Int,
           NEW q1 \in Int, NEW q2 \in Int, NEW q3 \in Int, NEW q4 \in Int, NEW q5 \in Int,
           x < 36893488147419103232,
           2 * h <= x, x <= 2 * h + 1,
           4 * g <= x, x <= 4 * g + 3,
           q1 = h + g,
           16 * s2 <= q1, q1 <= 16 * s2 + 15,
           q2 = q1 + s2,
           256 * s3 <= q2, q2 <= 256 * s3 + 255,
           q3 = q2 + s3,
           65536 * s4 <= q3, q3 <= 65536 * s4 + 65535,
           q4 = q3 + s4,
           65536 * t5 <= q4, q4 <= 65536 * t5 + 65535,
           65536 * s5 <= t5, t5 <= 65536 * s5 + 65535,
           q5 = q4 + s5,
           8 * est <= q5, q5 <= 8 * est + 7
    PROVE  0 <= x - est * 10 /\ x - est * 10 < 20
  OBVIOUS

\* One shift by 16 undone.
LEMMA ShiftBound ==
    ASSUME NEW x \in Int, NEW y \in Int, x <= 65536 * y + 65535,
           y < 562949953421312
    PROVE  x < 36893488147419103232
  OBVIOUS

Below65Bits(x) == (((x \div 65536) \div 65536) \div 65536) \div 65536 <= 1

ExactTenth(x) == udiv64_10(x) = [quot |-> x \div 10, rem |-> x % 10]

\* Division by ten is exact below 2^65.
LEMMA TenExact ==
    ASSUME NEW x \in Nat, Below65Bits(x)
    PROVE  ExactTenth(x)
  <1> DEFINE h == x \div 2
             g == x \div 4
             q1 == h + g
             s2 == q1 \div 16
             q2 == q1 + s2
             s3 == q2 \div 256
             q3 == q2 + s3
             s4 == q3 \div 65536
             q4 == q3 + s4
             t5 == q4 \div 65536
             s5 == t5 \div 65536
             q5 == q4 + s5
             est == q5 \div 8
             over == x - est * 10
             x1 == x \div 65536
             x2 == x1 \div 65536
             x3 == x2 \div 65536
             x4 == x3 \div 65536
  <1>1. x < 36893488147419103232
    <2>1. x1 \in Int /\ x <= 65536 * x1 + 65535
      OBVIOUS
    <2>2. x2 \in Int /\ x1 <= 65536 * x2 + 65535
      BY <2>1
    <2>3. x3 \in Int /\ x2 <= 65536 * x3 + 65535
      BY <2>2
    <2>4. x4 \in Int /\ x3 <= 65536 * x4 + 65535 /\ x4 <= 1
      BY <2>3 DEF Below65Bits
    <2> HIDE DEF x1, x2, x3, x4
    <2>5. x3 < 131072
      BY <2>3, <2>4
    <2>6. x2 < 8589934592
      BY <2>2, <2>3, <2>5
    <2>7. x1 < 562949953421312
      BY <2>1, <2>2, <2>6
    <2> QED
      BY <2>1, <2>7, ShiftBound
  <1>2. h \in Int /\ 2 * h <= x /\ x <= 2 * h + 1
    OBVIOUS
  <1>3. g \in Int /\ 4 * g <= x /\ x <= 4 * g + 3
    OBVIOUS
  <1> HIDE DEF h, g
  <1>4. q1 \in Int
    BY <1>2, <1>3
  <1> HIDE DEF q1
  <1>5. s2 \in Int /\ 16 * s2 <= q1 /\ q1 <= 16 * s2 + 15
    BY <1>4
  <1> HIDE DEF s2
  <1>6. q2 \in Int
    BY <1>4, <1>5
  <1> HIDE DEF q2
  <1>7. s3 \in Int /\ 256 * s3 <= q2 /\ q2 <= 256 * s3 + 255
    BY <1>6
  <1> HIDE DEF s3
  <1>8. q3 \in Int
    BY <1>6, <1>7
  <1> HIDE DEF q3
  <1>9. s4 \in Int /\ 65536 * s4 <= q3 /\ q3 <= 65536 * s4 + 65535
    BY <1>8
  <1> HIDE DEF s4
  <1>10. q4 \in Int
    BY <1>8, <1>9
  <1> HIDE DEF q4
  <1>11. t5 \in Int /\ 65536 * t5 <= q4 /\ q4 <= 65536 * t5 + 65535
    BY <1>10
  <1> HIDE DEF t5
  <1>12. s5 \in Int /\ 65536 * s5 <= t5 /\ t5 <= 65536 * s5 + 65535
    BY <1>11
  <1> HIDE DEF s5
  <1>13. q5 \in Int
    BY <1>10, <1>12
  <1> HIDE DEF q5
  <1>14. est \in Int /\ 8 * est <= q5 /\ q5 <= 8 * est + 7
    BY <1>13
  <1> HIDE DEF est
  <1>15. /\ q1 = h + g /\ q2 = q1 + s2 /\ q3 = q2 + s3
         /\ q4 = q3 + s4 /\ q5 = q4 + s5
    BY DEF q1, q2, q3, q4, q5
  <1>16. 0 <= x - est * 10 /\ x - est * 10 < 20
    BY <1>1, <1>2, <1>3, <1>4, <1>5, <1>6, <1>7, <1>8, <1>9, <1>10, <1>11, <1>12,
       <1>13, <1>14, <1>15, EstimateTight
  <1>17. udiv64_10(x) = IF over >= 10 THEN [quot |-> est + 1, rem |-> over - 10]
                                      ELSE [quot |-> est, rem |-> over]
    BY DEF udiv64_10, est, q5, s5, t5, q4, s4, q3, s3, q2, s2, q1, g, h
  <1>18. CASE over >= 10
    <2>1. x \div 10 = est + 1 /\ x % 10 = over - 10
      <3>1. est + 1 \in Int /\ (est + 1) * 10 <= x /\ x < (est + 1) * 10 + 10
        BY <1>14, <1>16, <1>18
      <3>2. x - (est + 1) * 10 = over - 10
        BY <1>14
      <3> QED
        BY <1>14, <1>16, <1>18
    <2> QED
      BY <1>17, <1>18, <2>1 DEF ExactTenth
  <1>19. CASE ~(over >= 10)
    <2>1. x \div 10 = est /\ x % 10 = over
      BY <1>14, <1>16, <1>19
    <2> QED
      BY <1>17, <1>19, <2>1 DEF ExactTenth
  <1> QED
    BY <1>18, <1>19
-----------------------------------------------------------------------------
(* The inductive invariant of the loop: quotient and remainder so far are  *)
(* those of the part of the dividend that has been shifted in.             *)
DivInv ==
  /\ \/ a \in Word /\ b \in Word \ {0}
     \/ a \in SignedWord /\ b \in SignedWord \ {0}
  /\ n = Magnitude(a) /\ d = Magnitude(b)
  /\ i \in 0 .. W
  /\ r \in Nat /\ r < d
  /\ \E z \in Nat : q = z * Pow[i] /\ z * d + r = n \div Pow[i]

\* The loop's arguments are words, and the divisor is not zero.
LEMMA Magnitudes ==
    ASSUME NEW x, x \in Word \/ x \in SignedWord
    PROVE  Magnitude(x) \in Nat /\ Magnitude(x) < Pow[W] /\ (x # 0 => Magnitude(x) # 0)
  <1>1. W - 1 \in 0 .. W - 1 /\ W \in 0 .. W
    BY ArithAssumption
  <1>2. Pow[W] \in Nat \ {0} /\ Pow[W - 1] \in Nat \ {0} /\ Pow[W] = 2 * Pow[W - 1]
    BY <1>1, ArithAssumption
  <1> QED
    BY <1>2 DEF Word, SignedWord, Magnitude

\* A number below the modulus is its own remainder.
LEMMA ModSmall ==
    ASSUME NEW m \in Nat \ {0}, NEW x \in Nat, x < m PROVE x % m = x
  OBVIOUS

\* z and rr are quotient and remainder of the first bits of nn.
DividedSoFar(nn, P, dd, z, rr) == z * dd + rr = nn \div P

\* What a turn that shifts in the next bit makes of it.
ShiftedIn(nn, P, M, dd, z, rr) ==
  /\ (2 * rr) % M = 2 * rr
  /\ (nn \div P) % 2 \in {0, 1}
  /\ (2 * z) * dd + (2 * rr + ((nn \div P) % 2)) = nn \div P

\* One turn, in numbers: P is 2^i after the turn.
LEMMA OneTurn ==
    ASSUME NEW P \in Nat \ {0}, NEW M \in Nat \ {0}, NEW nn \in Nat, nn < M,
           NEW dd \in Nat \ {0}, NEW rr \in Nat, rr < dd, NEW z \in Nat,
           NEW PP, PP = 2 * P, DividedSoFar(nn, PP, dd, z, rr)
    PROVE  ShiftedIn(nn, P, M, dd, z, rr)
  <1> DEFINE y == nn \div P
             h == nn \div (2 * P)
             bit == y % 2
  <1>1. y = 2 * h + bit
    BY HalfStep
  <1>2. y \in Nat /\ y * P <= nn /\ bit \in {0, 1}
    BY DivBounds
  <1>3. h = z * dd + rr
    BY DEF DividedSoFar
  <1> HIDE DEF y, h
  <1>4. z * dd \in Nat /\ z * dd >= 0
    OBVIOUS
  <1>5. y <= nn
    <2>1. y <= y * P
      BY <1>2
    <2> QED
      BY <1>2, <2>1
  <1>6. h \in Nat /\ 2 * rr <= y
    BY <1>1, <1>2, <1>3, <1>4
  <1>7. 2 * rr \in Nat /\ 2 * rr < M
    BY <1>5, <1>6, <1>2
  <1>8. (2 * rr) % M = 2 * rr
    BY <1>7, ModSmall
  <1>9. (2 * z) * dd + (2 * rr + bit) = y
    <2>1. (2 * z) * dd = 2 * (z * dd)
      OBVIOUS
    <2> QED
      BY <1>1, <1>2, <1>3, <1>4, <2>1
  <1> QED
    BY <1>2, <1>8, <1>9 DEF y, ShiftedIn

\* Nothing has been shifted in at first.
LEMMA DivInit == ArithInit => DivInv
  <1> SUFFICES ASSUME ArithInit PROVE DivInv
    OBVIOUS
  <1>1. n \in Nat /\ n < Pow[W] /\ d \in Nat \ {0}
    BY Magnitudes DEF ArithInit
  <1>2. W \in 0 .. W /\ Pow[W] \in Nat \ {0}
    BY ArithAssumption
  <1>3. n \div Pow[W] = 0
    BY <1>1, <1>2
  <1>4. q = 0 * Pow[i] /\ 0 * d + r = n \div Pow[i]
    BY <1>1, <1>2, <1>3 DEF ArithInit
  <1>5. \E z \in Nat : q = z * Pow[i] /\ z * d + r = n \div Pow[i]
    <2> WITNESS 0 \in Nat
    <2> QED
      BY <1>4
  <1>6. i \in 0 .. W /\ r \in Nat /\ r < d
    BY <1>1, <1>2 DEF ArithInit
  <1> QED
    BY <1>5, <1>6 DEF ArithInit, DivInv

\* A turn divides one more bit.
LEMMA DivTurn == DivInv /\ Turn => DivInv'
  <1> SUFFICES ASSUME DivInv, Turn PROVE DivInv'
    OBVIOUS
  <1> DEFINE k == i - 1
             P == Pow[k]
             M == Pow[W]
             s == ShiftIn(k)
  <1>1. i \in 0 .. W /\ i > 0 /\ k \in 0 .. W - 1 /\ k \in 0 .. W /\ W \in 0 .. W
    BY ArithAssumption DEF DivInv, Turn
  <1>2. P \in Nat \ {0} /\ M \in Nat \ {0} /\ Pow[i] = 2 * P
    <2>1. Pow[k + 1] = 2 * Pow[k] /\ k + 1 = i
      BY <1>1, ArithAssumption
    <2> QED
      BY <1>1, <2>1, ArithAssumption
  <1>3. n \in Nat /\ n < M /\ d \in Nat \ {0} /\ r \in Nat /\ r < d
    BY Magnitudes DEF DivInv
  <1>4. PICK z \in Nat : q = z * (2 * P) /\ z * d + r = n \div (2 * P)
    BY <1>2 DEF DivInv
  <1>5. /\ s = 2 * r + Bit(n, k) /\ Bit(n, k) \in {0, 1}
        /\ (2 * z) * d + s = n \div P
    <2> HIDE DEF k
    <2>1. s = ((2 * r) % M) + ((n \div P) % 2) /\ Bit(n, k) = (n \div P) % 2
      BY DEF ShiftIn, Bit
    <2> HIDE DEF P, M, s
    <2>2. DividedSoFar(n, Pow[i], d, z, r)
      BY <1>2, <1>4 DEF DividedSoFar
    <2>3. ShiftedIn(n, P, M, d, z, r)
      BY <1>2, <1>3, <2>2, OneTurn
    <2> QED
      BY <2>1, <2>3 DEF ShiftedIn
  <1>6. s \in Nat /\ s < 2 * d
    BY <1>3, <1>5
  <1>7. SetBit(q, k) = q + P
    <2>1. q \div P = 2 * z
      <3> DEFINE y == 2 * z
      <3>1. y \in Int /\ y * P <= q /\ q < y * P + P /\ q \in Int
        BY <1>2, <1>4
      <3> HIDE DEF y, P
      <3>2. q \div P = y
        BY <1>2, <3>1, DivUnique
      <3> QED
        BY <3>2 DEF y
    <2>2. (2 * z) % 2 = 0
      OBVIOUS
    <2>3. Bit(q, k) = 0
      BY <2>1, <2>2 DEF Bit
    <2> QED
      BY <2>3 DEF SetBit
  <1>8. UNCHANGED <<a, b, n, d>> /\ i' = k
    BY DEF Turn
  <1>9. CASE s >= d
    <2>1. r' = s - d /\ q' = q + P
      BY <1>7, <1>9 DEF Turn
    <2>2. r' \in Nat /\ r' < d
      BY <1>3, <1>6, <1>9, <2>1
    <2> HIDE DEF s, P, k
    <2>3. q' = (2 * z + 1) * P
      BY <1>2, <1>4, <2>1
    <2>4. (2 * z + 1) * d + r' = n \div P
      <3>1. (2 * z + 1) * d = (2 * z) * d + d
        BY <1>3
      <3>2. (2 * z) * d \in Int
        BY <1>3
      <3> QED
        BY <1>3, <1>5, <1>6, <2>1, <3>1, <3>2
    <2>5. 2 * z + 1 \in Nat /\ q' = (2 * z + 1) * Pow[i'] /\ (2 * z + 1) * d' + r' = n' \div Pow[i']
      BY <1>8, <2>3, <2>4 DEF P
    <2>6. i' \in 0 .. W /\ r' \in Nat /\ r' < d'
      BY <1>1, <1>8, <2>2
    <2> QED
      BY <1>8, <2>5, <2>6 DEF DivInv, Magnitude, Word, SignedWord
  <1>10. CASE ~(s >= d)
    <2>1. r' = s /\ q' = q
      BY <1>10 DEF Turn
    <2> HIDE DEF s, P, k
    <2>2. r' \in Nat /\ r' < d
      BY <1>3, <1>6, <1>10, <2>1
    <2>3. q' = (2 * z) * P
      BY <1>2, <1>4, <2>1
    <2>4. 2 * z \in Nat /\ q' = (2 * z) * Pow[i'] /\ (2 * z) * d' + r' = n' \div Pow[i']
      BY <1>5, <1>8, <2>1, <2>3 DEF P
    <2>5. i' \in 0 .. W /\ r' \in Nat /\ r' < d'
      BY <1>1, <1>8, <2>2
    <2> QED
      BY <1>8, <2>4, <2>5 DEF DivInv, Magnitude, Word, SignedWord
  <1> QED
    BY <1>9, <1>10

\* The loop's invariant holds in every state.
LEMMA DivInvariance == ArithSpec => []DivInv
  <1>1. DivInv /\ UNCHANGED arithVars => DivInv'
    BY DEF DivInv, arithVars, Magnitude, Word, SignedWord
  <1> QED
    BY <1>1, DivInit, DivTurn, PTL DEF ArithSpec, ArithNext

(* The division loop of __udivdi3 and its relatives divides: for every     *)
(* width and all arguments, no bit is lost on the way.                     *)
THEOREM DivisionCorrect == ArithSpec => []LoopDivides
  <1>1. DivInv => LoopDivides
    <2> SUFFICES ASSUME DivInv, i = 0 PROVE n = q * d + r /\ 0 <= r /\ r < d
      BY DEF LoopDivides
    <2>1. n \in Nat /\ d \in Nat \ {0} /\ r \in Nat /\ r < d
      BY Magnitudes DEF DivInv
    <2>2. PICK z \in Nat : q = z * Pow[i] /\ z * d + r = n \div Pow[i]
      BY DEF DivInv
    <2>3. Pow[i] = 1
      BY ArithAssumption
    <2>4. q = z /\ n \div Pow[i] = n
      BY <2>1, <2>2, <2>3
    <2> QED
      BY <2>1, <2>2, <2>4
  <1> QED
    BY <1>1, DivInvariance, PTL

(* The functions return what C's / and % are, for both signs of both       *)
(* arguments.                                                              *)
THEOREM SignedDivisionCorrect == ArithSpec => []DividesLikeC
  <1>1. DivInv => DividesLikeC
    <2> SUFFICES ASSUME DivInv, i = 0
                 PROVE  /\ a = Quotient * b + Remainder
                        /\ Magnitude(Remainder) < Magnitude(b)
                        /\ (a >= 0 => Remainder >= 0) /\ (a <= 0 => Remainder <= 0)
      BY DEF DividesLikeC
    <2>1. /\ n \in Nat /\ d \in Nat \ {0} /\ r \in Nat /\ r < d
          /\ n = Magnitude(a) /\ d = Magnitude(b)
      BY Magnitudes DEF DivInv
    <2>2. a \in Int /\ b \in Int
      <3>1. Pow[W] \in Nat /\ Pow[W - 1] \in Nat
        BY ArithAssumption
      <3> QED
        BY <3>1 DEF DivInv, Word, SignedWord
    <2>3. PICK z \in Nat : q = z * Pow[i] /\ z * d + r = n \div Pow[i]
      BY DEF DivInv
    <2>4. Pow[i] = 1
      BY ArithAssumption
    <2>5. q = z /\ n \div Pow[i] = n
      BY <2>1, <2>3, <2>4
    <2>6. q \in Nat /\ n = q * d + r
      BY <2>1, <2>3, <2>5
    <2>7. a = Quotient * b + Remainder
      <3>1. CASE a < 0 /\ b < 0
        <4>1. a = -n /\ b = -d /\ Quotient = q /\ Remainder = -r
          BY <2>1, <2>2, <3>1 DEF Magnitude, Quotient, Remainder
        <4> QED
          BY <2>1, <2>6, <4>1
      <3>2. CASE a < 0 /\ ~(b < 0)
        <4>1. a = -n /\ b = d /\ Quotient = -q /\ Remainder = -r
          BY <2>1, <2>2, <3>2 DEF Magnitude, Quotient, Remainder
        <4> QED
          BY <2>1, <2>6, <4>1
      <3>3. CASE ~(a < 0) /\ b < 0
        <4>1. a = n /\ b = -d /\ Quotient = -q /\ Remainder = r
          BY <2>1, <2>2, <3>3 DEF Magnitude, Quotient, Remainder
        <4> QED
          BY <2>1, <2>6, <4>1
      <3>4. CASE ~(a < 0) /\ ~(b < 0)
        <4>1. a = n /\ b = d /\ Quotient = q /\ Remainder = r
          BY <2>1, <2>2, <3>4 DEF Magnitude, Quotient, Remainder
        <4> QED
          BY <2>1, <2>6, <4>1
      <3> QED
        BY <3>1, <3>2, <3>3, <3>4
    <2>8. Magnitude(Remainder) < Magnitude(b)
      BY <2>1, <2>2 DEF Magnitude, Remainder
    <2>9. (a >= 0 => Remainder >= 0) /\ (a <= 0 => Remainder <= 0)
      <3>1. a = 0 => r = 0
        <4> SUFFICES ASSUME a = 0 PROVE r = 0
          OBVIOUS
        <4>1. n = 0
          BY <2>1 DEF Magnitude
        <4>2. q * d \in Nat
          BY <2>1, <2>6
        <4> QED
          BY <2>1, <2>6, <4>1, <4>2
      <3> QED
        BY <2>1, <2>2, <3>1 DEF Remainder
    <2> QED
      BY <2>7, <2>8, <2>9
  <1> QED
    BY <1>1, DivInvariance, PTL

(* Division by ten for printing is exact for every word of at most 64      *)
(* bits: the estimate of udiv64_10 is never off by more than one.          *)
THEOREM Div10Correct == ArithSpec => []Div10Exact
  <1>1. DivInv => Div10Exact
    <2> SUFFICES ASSUME DivInv PROVE Div10Exact
      OBVIOUS
    <2>1. n \in Nat /\ n < Pow[W] /\ Pow[W] \in Nat
      BY Magnitudes, ArithAssumption DEF DivInv
    <2>2. Below65Bits(n)
      <3> DEFINE p == Pow[W]
      <3>1. ASSUME NEW x \in Int, NEW y \in Int, x <= y PROVE x \div 65536 <= y \div 65536
        BY <3>1
      <3>2. p \in Int /\ n <= p
        BY <2>1
      <3>3. (((p \div 65536) \div 65536) \div 65536) \div 65536 <= 1
        BY WidthAssumption
      <3> HIDE DEF p
      <3>4. n \div 65536 <= p \div 65536
        BY <2>1, <3>2, <3>1
      <3>5. (n \div 65536) \div 65536 <= (p \div 65536) \div 65536
        BY <2>1, <3>2, <3>4, <3>1
      <3>6. ((n \div 65536) \div 65536) \div 65536 <= ((p \div 65536) \div 65536) \div 65536
        BY <2>1, <3>2, <3>5, <3>1
      <3>7. (((n \div 65536) \div 65536) \div 65536) \div 65536
              <= (((p \div 65536) \div 65536) \div 65536) \div 65536
        BY <2>1, <3>2, <3>6, <3>1
      <3> QED
        BY <2>1, <3>2, <3>3, <3>7 DEF Below65Bits
    <2>3. ExactTenth(n)
      BY <2>1, <2>2, TenExact
    <2> QED
      BY <2>3 DEF ExactTenth, Div10Exact
  <1> QED
    BY <1>1, DivInvariance, PTL

(* The kernel's divisions are C's divisions, for every width of a word:    *)
(* the loop of udiv64, the signed results and the division by ten.         *)
THEOREM ArithmeticCorrect == ArithSpec => []ArithCorrect
  BY DivisionCorrect, SignedDivisionCorrect, Div10Correct, PTL DEF ArithCorrect

---------------------------------------------------------------------------
(* The heap of a process.                                                  *)

\* A sequence of blocks [from, to), each beginning where the one before it
\* ends.  The second conjunct follows from the first by induction.
Consecutive(bs) ==
    /\ \A k \in 1 .. Len(bs) : bs[k][1] < bs[k][2]
    /\ \A k, l \in 1 .. Len(bs) : k < l => bs[k][2] <= bs[l][1]
    /\ \A k \in 1 .. Len(bs) - 1 : bs[k + 1][1] = bs[k][2]

\* The last of them ends at the break.
EndsAt(bs, addr) == bs # <<>> => bs[Len(bs)][2] = addr

\* What holds of every process, dead or alive: its limit is the one of its
\* program, and its blocks lie one behind the other up to __curbrk.
HeapOK(t, g, bs) ==
    /\ t \in [brk : Int, brk_limit : Int]
    /\ g \in [end : Nat, curbrk : Nat]
    /\ t.brk_limit = g.end + HEAP
    /\ bs \in Seq(Nat \X Nat)
    /\ Consecutive(bs)
    /\ EndsAt(bs, g.curbrk)
    /\ \A k \in 1 .. Len(bs) : bs[k][2] <= g.end + HEAP

HeapInv ==
    /\ alive \subseteq Procs
    /\ task = [p \in Procs |-> task[p]]
    /\ prog = [p \in Procs |-> prog[p]]
    /\ blocks = [p \in Procs |-> blocks[p]]
    /\ \A p \in Procs : HeapOK(task[p], prog[p], blocks[p])

LEMMA BreakTypes ==
    ASSUME NEW t \in [brk : Int, brk_limit : Int], NEW g \in [end : Nat, curbrk : Nat],
           NEW addr \in Nat
    PROVE  /\ [t EXCEPT !.brk = addr] \in [brk : Int, brk_limit : Int]
           /\ [t EXCEPT !.brk = addr].brk_limit = t.brk_limit
           /\ [g EXCEPT !.curbrk = addr] \in [end : Nat, curbrk : Nat]
           /\ [g EXCEPT !.curbrk = addr].end = g.end
           /\ [g EXCEPT !.curbrk = addr].curbrk = addr
  OBVIOUS

\* A block that begins at the break goes behind the others.
LEMMA PushBlock ==
    ASSUME NEW bs \in Seq(Nat \X Nat), NEW old \in Nat, NEW inc \in Nat \ {0},
           NEW lim \in Nat, Consecutive(bs), EndsAt(bs, old),
           \A k \in 1 .. Len(bs) : bs[k][2] <= lim, old + inc <= lim
    PROVE  LET new == Append(bs, <<old, old + inc>>)
           IN  /\ new \in Seq(Nat \X Nat)
               /\ Consecutive(new)
               /\ EndsAt(new, old + inc)
               /\ \A k \in 1 .. Len(new) : new[k][2] <= lim
  <1> DEFINE new  == Append(bs, <<old, old + inc>>)
             m    == Len(bs)
             A(k) == bs[k][1]
             B(k) == bs[k][2]
             C(k) == new[k][1]
             D(k) == new[k][2]
  <1>1. /\ new \in Seq(Nat \X Nat) /\ Len(new) = m + 1 /\ m \in Nat
        /\ new[m + 1] = <<old, old + inc>>
        /\ \A k \in 1 .. m : new[k] = bs[k] /\ bs[k] \in Nat \X Nat
    <2>1. <<old, old + inc>> \in Nat \X Nat
      OBVIOUS
    <2> QED
      BY <2>1, AppendProperties, ElementOfSeq
  <1>0. m \in Nat
    BY <1>1
  <1>2. /\ \A k \in 1 .. m : A(k) \in Nat /\ B(k) \in Nat /\ C(k) = A(k) /\ D(k) = B(k)
        /\ C(m + 1) = old /\ D(m + 1) = old + inc
    <2> HIDE DEF new, m
    <2>1. \A k \in 1 .. m : bs[k][1] \in Nat /\ bs[k][2] \in Nat /\ new[k] = bs[k]
      BY <1>1
    <2>2. new[m + 1][1] = old /\ new[m + 1][2] = old + inc
      BY <1>1
    <2> QED
      BY <2>1, <2>2
  <1>3. /\ \A k \in 1 .. m : A(k) < B(k)
        /\ \A k, l \in 1 .. m : k < l => B(k) <= A(l)
        /\ \A k \in 1 .. m - 1 : A(k + 1) = B(k)
        /\ \A k \in 1 .. m : B(k) <= lim
    BY DEF Consecutive
  <1>4. m # 0 => B(m) = old
    BY <1>1 DEF EndsAt
  <1> HIDE DEF new, m, A, B, C, D
  <1>5. \A k \in 1 .. m : B(k) <= old
    <2> TAKE k \in 1 .. m
    <2>1. m \in 1 .. m /\ m # 0 /\ (k < m \/ k = m)
      BY <1>0
    <2> QED
      BY <1>2, <1>3, <1>4, <2>1
  <1>6. \A k \in 1 .. m + 1 : k \in 1 .. m \/ k = m + 1
    BY <1>0
  <1>7. \A k \in 1 .. m + 1 : C(k) < D(k) /\ D(k) <= lim
    <2> TAKE k \in 1 .. m + 1
    <2>1. CASE k \in 1 .. m
      BY <1>2, <1>3, <2>1
    <2>2. CASE k = m + 1
      BY <1>2, <2>2
    <2> QED
      BY <1>6, <2>1, <2>2
  <1>8. \A k, l \in 1 .. m + 1 : k < l => D(k) <= C(l)
    <2> SUFFICES ASSUME NEW k \in 1 .. m + 1, NEW l \in 1 .. m + 1, k < l
                 PROVE  D(k) <= C(l)
      OBVIOUS
    <2>1. k \in 1 .. m
      BY <1>1
    <2> QED
      BY <1>2, <1>3, <1>5, <1>6, <2>1
  <1>9. \A k \in 1 .. m : C(k + 1) = D(k)
    <2> TAKE k \in 1 .. m
    <2>1. CASE k = m
      BY <1>1, <1>2, <1>4, <2>1
    <2>2. CASE k # m
      <3>1. k \in 1 .. m - 1 /\ k + 1 \in 1 .. m
        BY <1>1, <2>2
      <3> QED
        BY <1>2, <1>3, <3>1
    <2> QED
      BY <2>1, <2>2
  <1>10. (m + 1) - 1 = m
    BY <1>1
  <1>11. Consecutive(new)
    BY <1>1, <1>7, <1>8, <1>9, <1>10 DEF Consecutive, C, D
  <1>12. EndsAt(new, old + inc)
    BY <1>1, <1>2 DEF EndsAt, D
  <1> QED
    BY <1>1, <1>7, <1>11, <1>12 DEF new, D

\* Without the last block, the others end where it began.
LEMMA PopBlock ==
    ASSUME NEW bs \in Seq(Nat \X Nat), bs # <<>>, Consecutive(bs), NEW lim \in Nat,
           \A k \in 1 .. Len(bs) : bs[k][2] <= lim
    PROVE  LET new == SubSeq(bs, 1, Len(bs) - 1)
           IN  /\ new \in Seq(Nat \X Nat)
               /\ Consecutive(new)
               /\ EndsAt(new, bs[Len(bs)][1])
               /\ \A k \in 1 .. Len(new) : new[k][2] <= lim
  <1> DEFINE new  == SubSeq(bs, 1, Len(bs) - 1)
             m    == Len(bs)
             A(k) == bs[k][1]
             B(k) == bs[k][2]
  <1>1. m \in Nat \ {0}
    BY EmptySeq
  <1>2. /\ new \in Seq(Nat \X Nat) /\ Len(new) = m - 1
        /\ \A k \in 1 .. m - 1 : new[k] = bs[k]
    <2>1. 1 \in 1 .. m + 1 /\ m - 1 \in 1 - 1 .. m /\ (m - 1) - 1 + 1 = m - 1
          /\ \A k \in 1 .. m - 1 : 1 + k - 1 = k
      BY <1>1
    <2> HIDE DEF m
    <2> QED
      BY <1>1, <2>1, SubSeqProperties, SMTT(20) DEF m
  <1>3. /\ \A k \in 1 .. m : A(k) < B(k)
        /\ \A k, l \in 1 .. m : k < l => B(k) <= A(l)
        /\ \A k \in 1 .. m - 1 : A(k + 1) = B(k)
        /\ \A k \in 1 .. m : B(k) <= lim
    BY DEF Consecutive
  <1>4. \A k \in 1 .. m - 1 : new[k][1] = A(k) /\ new[k][2] = B(k)
    BY <1>2
  <1> HIDE DEF new, m, A, B
  <1>5. /\ \A k \in 1 .. m - 1 : k \in 1 .. m
        /\ \A k \in 1 .. (m - 1) - 1 : k + 1 \in 1 .. m - 1 /\ k \in 1 .. m - 1
    BY <1>1
  <1>6. Consecutive(new)
    <2>1. \A k \in 1 .. m - 1 : new[k][1] < new[k][2]
      BY <1>3, <1>4, <1>5
    <2>2. \A k, l \in 1 .. m - 1 : k < l => new[k][2] <= new[l][1]
      BY <1>3, <1>4, <1>5
    <2>3. \A k \in 1 .. (m - 1) - 1 : new[k + 1][1] = new[k][2]
      BY <1>3, <1>4, <1>5
    <2> QED
      BY <1>2, <2>1, <2>2, <2>3 DEF Consecutive
  <1>7. EndsAt(new, A(m))
    <2> SUFFICES ASSUME new # <<>> PROVE new[m - 1][2] = A(m)
      BY <1>2 DEF EndsAt
    <2>1. m - 1 \in 1 .. m - 1 /\ (m - 1) + 1 = m
      BY <1>1, <1>2, EmptySeq
    <2> QED
      BY <1>3, <1>4, <2>1
  <1> QED
    BY <1>2, <1>3, <1>4, <1>5, <1>6, <1>7 DEF new, m, A

LEMMA LoadedOK ==
    ASSUME NEW end \in Ends, NEW size \in ArgSizes
    PROVE  HeapOK(Loaded(end, size).task, Loaded(end, size).prog, <<>>)
  <1>1. end \in Nat /\ size \in Nat /\ HEAP \in Nat
    BY HeapAssumption
  <1>2. Loaded(end, size).task = [brk |-> end + size, brk_limit |-> end + HEAP]
        /\ Loaded(end, size).prog = [end |-> end, curbrk |-> 0]
    BY DEF Loaded, curbrk_off
  <1>3. Consecutive(<<>>) /\ EndsAt(<<>>, 0) /\ <<>> \in Seq(Nat \X Nat) /\ Len(<<>>) = 0
    BY DEF Consecutive, EndsAt
  <1> QED
    BY <1>1, <1>2, <1>3 DEF HeapOK

\* A step that gives one process a heap that is in order and leaves the
\* others alone.
LEMMA OneHeapChanges ==
    ASSUME HeapInv, NEW p \in Procs, NEW t, NEW g, NEW bs, HeapOK(t, g, bs),
           task' = [task EXCEPT ![p] = t], prog' = [prog EXCEPT ![p] = g],
           blocks' = [blocks EXCEPT ![p] = bs], alive' \subseteq Procs
    PROVE  HeapInv'
  BY DEF HeapInv

LEMMA HeapStep ==
    ASSUME HeapInv, [HeapNext]_heapVars
    PROVE  HeapInv'
  <1>types. \A p \in Procs : HeapOK(task[p], prog[p], blocks[p])
    BY DEF HeapInv
  <1>1. ASSUME NEW p \in Procs, HeapExec(p) PROVE HeapInv'
    <2>1. PICK end \in Ends, size \in ArgSizes :
            /\ task' = [task EXCEPT ![p] = Loaded(end, size).task]
            /\ prog' = [prog EXCEPT ![p] = Loaded(end, size).prog]
      BY <1>1 DEF HeapExec
    <2>2. blocks' = [blocks EXCEPT ![p] = <<>>] /\ alive' \subseteq Procs
      BY <1>1 DEF HeapExec, HeapInv
    <2> QED
      BY <2>1, <2>2, LoadedOK, OneHeapChanges
  <1>2. ASSUME NEW p \in Procs, NEW c \in Procs, HeapFork(p, c) PROVE HeapInv'
    <2>1. /\ task' = [task EXCEPT ![c] = task[p]]
          /\ prog' = [prog EXCEPT ![c] = prog[p]]
          /\ blocks' = [blocks EXCEPT ![c] = blocks[p]]
          /\ alive' \subseteq Procs
      BY <1>2 DEF HeapFork, HeapInv
    <2> QED
      BY <1>types, <2>1, OneHeapChanges
  <1>3. ASSUME NEW p \in Procs, HeapExit(p) PROVE HeapInv'
    BY <1>3 DEF HeapExit, HeapInv
  <1>4. ASSUME NEW p \in Procs, NEW inc \in Increments, Sbrk(p, inc) PROVE HeapInv'
    <2> DEFINE old == prog[p].curbrk
               bs  == blocks[p]
               lim == prog[p].end + HEAP
               new == Append(bs, <<old, old + inc>>)
               t   == [task[p] EXCEPT !.brk = old + inc]
               g   == [prog[p] EXCEPT !.curbrk = old + inc]
    <2>0. /\ task[p] \in [brk : Int, brk_limit : Int]
          /\ prog[p] \in [end : Nat, curbrk : Nat]
          /\ task[p].brk_limit = lim
          /\ bs \in Seq(Nat \X Nat) /\ Consecutive(bs) /\ EndsAt(bs, old)
          /\ \A k \in 1 .. Len(bs) : bs[k][2] <= lim
          /\ inc \in Nat \ {0} /\ HEAP \in Nat /\ old \in Nat /\ lim \in Nat
      BY <1>types, HeapAssumption DEF HeapOK
    <2>1. CASE UNCHANGED <<task, prog, blocks>>
      BY <1>4, <2>1 DEF Sbrk, HeapInv
    <2>2. CASE /\ mm_brk(p, old + inc) /\ NewBreak(p, old + inc)
               /\ blocks' = [blocks EXCEPT ![p] = new]
      <3>1. /\ t \in [brk : Int, brk_limit : Int] /\ t.brk_limit = lim
            /\ g \in [end : Nat, curbrk : Nat] /\ g.end + HEAP = lim
            /\ g.curbrk = old + inc
        <4>1. old + inc \in Nat
          BY <2>0
        <4> QED
          BY <2>0, <4>1, BreakTypes
      <3>2. old + inc <= lim
        BY <2>0, <2>2 DEF mm_brk
      <3>3. /\ task' = [task EXCEPT ![p] = t] /\ prog' = [prog EXCEPT ![p] = g]
            /\ alive' \subseteq Procs
        BY <1>4, <2>2 DEF NewBreak, Sbrk, HeapInv
      <3> HIDE DEF old, lim, bs, t, g
      <3>4. /\ new \in Seq(Nat \X Nat) /\ Consecutive(new) /\ EndsAt(new, old + inc)
            /\ \A k \in 1 .. Len(new) : new[k][2] <= lim
        BY <2>0, <3>2, PushBlock
      <3> HIDE DEF new
      <3>5. HeapOK(t, g, new)
        BY <3>1, <3>4 DEF HeapOK
      <3> QED
        BY <2>2, <3>3, <3>5, OneHeapChanges
    <2> QED
      BY <1>4, <2>1, <2>2 DEF Sbrk
  <1>5. ASSUME NEW p \in Procs, GiveBack(p) PROVE HeapInv'
    <2> DEFINE bs   == blocks[p]
               last == bs[Len(bs)]
               lim  == prog[p].end + HEAP
               addr == prog[p].curbrk - (last[2] - last[1])
               new  == SubSeq(bs, 1, Len(bs) - 1)
               t    == [task[p] EXCEPT !.brk = addr]
               g    == [prog[p] EXCEPT !.curbrk = addr]
    <2>0. /\ task[p] \in [brk : Int, brk_limit : Int]
          /\ prog[p] \in [end : Nat, curbrk : Nat]
          /\ task[p].brk_limit = lim
          /\ bs \in Seq(Nat \X Nat) /\ Consecutive(bs) /\ EndsAt(bs, prog[p].curbrk)
          /\ \A k \in 1 .. Len(bs) : bs[k][2] <= lim
          /\ bs # <<>> /\ HEAP \in Nat /\ lim \in Nat
      BY <1>5, <1>types, HeapAssumption DEF GiveBack, HeapOK
    <2>1. last[1] \in Nat /\ last[2] \in Nat /\ last[2] = prog[p].curbrk
      <3>1. Len(bs) \in 1 .. Len(bs)
        BY <2>0, EmptySeq
      <3>2. last \in Nat \X Nat
        BY <2>0, <3>1, ElementOfSeq
      <3> QED
        BY <2>0, <3>2 DEF EndsAt
    <2>2. addr = last[1] /\ addr \in Nat
      BY <2>0, <2>1
    <2>3. /\ task' = [task EXCEPT ![p] = t] /\ prog' = [prog EXCEPT ![p] = g]
          /\ blocks' = [blocks EXCEPT ![p] = new] /\ alive' \subseteq Procs
      BY <1>5 DEF NewBreak, GiveBack, HeapInv
    <2>4. /\ new \in Seq(Nat \X Nat) /\ Consecutive(new) /\ EndsAt(new, last[1])
          /\ \A k \in 1 .. Len(new) : new[k][2] <= lim
      <3> HIDE DEF bs, lim
      <3> QED
        BY <2>0, PopBlock
    <2> HIDE DEF new, addr, lim, bs
    <2>5. /\ t \in [brk : Int, brk_limit : Int] /\ t.brk_limit = lim
          /\ g \in [end : Nat, curbrk : Nat] /\ g.end + HEAP = lim
          /\ g.curbrk = addr
      BY <2>0, <2>2, BreakTypes DEF lim
    <2> HIDE DEF t, g
    <2>6. HeapOK(t, g, new)
      BY <2>2, <2>4, <2>5 DEF HeapOK
    <2> QED
      BY <2>3, <2>6, OneHeapChanges
  <1>6. ASSUME NEW p \in Procs, Brk(p) PROVE HeapInv'
    <2>1. PICK addr \in 0 .. prog[p].end + HEAP + 1 :
            IF mm_brk(p, addr) THEN task' = [task EXCEPT ![p].brk = addr] ELSE UNCHANGED task
      BY <1>6 DEF Brk
    <2>2. CASE ~ mm_brk(p, addr)
      BY <1>6, <2>1, <2>2 DEF Brk, HeapInv
    <2>3. CASE mm_brk(p, addr)
      <3> DEFINE t == [task[p] EXCEPT !.brk = addr]
      <3>1. HeapOK(t, prog[p], blocks[p])
        BY <1>types DEF HeapOK
      <3>2. /\ task' = [task EXCEPT ![p] = t] /\ prog' = [prog EXCEPT ![p] = prog[p]]
            /\ blocks' = [blocks EXCEPT ![p] = blocks[p]] /\ alive' \subseteq Procs
        BY <1>6, <2>1, <2>3 DEF Brk, HeapInv
      <3> QED
        BY <3>1, <3>2, OneHeapChanges
    <2> QED
      BY <2>2, <2>3
  <1>7. CASE UNCHANGED heapVars
    BY <1>7 DEF heapVars, HeapInv
  <1> QED
    BY <1>1, <1>2, <1>3, <1>4, <1>5, <1>6, <1>7 DEF HeapNext

\* What sbrk hands out never overlaps another block in use and never passes
\* the limit mm_brk enforces, for every number of processes, program, heap
\* size and sequence of sbrk, brk, fork, execve and exit.
THEOREM HeapIsCorrect == HeapSpec => []HeapCorrect
  <1>1. HeapInit => HeapInv
    <2> SUFFICES ASSUME NEW first \in Procs, NEW end \in Ends, NEW size \in ArgSizes,
                        alive = {first},
                        task = [p \in Procs |-> Loaded(end, size).task],
                        prog = [p \in Procs |-> Loaded(end, size).prog],
                        blocks = [p \in Procs |-> <<>>]
                 PROVE  HeapInv
      BY DEF HeapInit
    <2> QED
      BY LoadedOK DEF HeapInv
  <1>2. HeapInv => HeapCorrect
    <2> SUFFICES ASSUME HeapInv, NEW p \in alive
                 PROVE  /\ \A k, l \in DOMAIN blocks[p] :
                             k # l => ~Overlap(blocks[p][k], blocks[p][l])
                        /\ \A k \in DOMAIN blocks[p] : blocks[p][k][2] <= prog[p].end + HEAP
      BY DEF HeapCorrect, BlocksApart, BlocksBelowLimit
    <2>1. HeapOK(task[p], prog[p], blocks[p])
      BY DEF HeapInv
    <2>2. /\ blocks[p] \in Seq(Nat \X Nat) /\ DOMAIN blocks[p] = 1 .. Len(blocks[p])
          /\ Len(blocks[p]) \in Nat
      BY <2>1 DEF HeapOK
    <2>3. ASSUME NEW k \in 1 .. Len(blocks[p]), NEW l \in 1 .. Len(blocks[p]), k # l
          PROVE  ~Overlap(blocks[p][k], blocks[p][l])
      <3>0. k < l \/ l < k
        BY <2>2, <2>3
      <3>1. /\ blocks[p][k] \in Nat \X Nat /\ blocks[p][l] \in Nat \X Nat
            /\ k < l \/ l < k
        <4>1. PICK bs : bs = blocks[p]
          OBVIOUS
        <4>2. bs[k] \in Nat \X Nat /\ bs[l] \in Nat \X Nat
          BY <2>2, <4>1, ElementOfSeq
        <4> QED
          BY <3>0, <4>1, <4>2
      <3>2. \/ blocks[p][k][2] <= blocks[p][l][1]
            \/ blocks[p][l][2] <= blocks[p][k][1]
        BY <2>1, <3>1 DEF HeapOK, Consecutive
      <3>3. PICK s, t : s = blocks[p][k] /\ t = blocks[p][l]
        OBVIOUS
      <3>4. /\ s[1] \in Nat /\ s[2] \in Nat /\ t[1] \in Nat /\ t[2] \in Nat
            /\ s[2] <= t[1] \/ t[2] <= s[1]
        BY <3>1, <3>2, <3>3
      <3>5. ~Overlap(s, t)
        BY <3>4 DEF Overlap
      <3> QED
        BY <3>3, <3>5
    <2> QED
      BY <2>1, <2>2, <2>3 DEF HeapOK
  <1> QED
    BY <1>1, <1>2, HeapStep, PTL DEF HeapSpec
-----------------------------------------------------------------------------
\* The words of a program's first stack.
StartWord == {"zero", "aux", "env", "arg", "argc"} \X Nat

LEMMA PointersAre ==
    ASSUME NEW tag \in {"env", "arg"}, NEW num \in Nat
    PROVE  /\ Pointers(tag, num) \in Seq(StartWord)
           /\ Len(Pointers(tag, num)) = num
           /\ \A j \in 1 .. num : Pointers(tag, num)[j] = <<tag, num + 1 - j>>
  <1>1. \A j \in 1 .. num : <<tag, num + 1 - j>> \in StartWord
    BY DEF StartWord
  <1>2. Pointers(tag, num) \in [1 .. num -> StartWord]
    BY <1>1 DEF Pointers
  <1>3. Pointers(tag, num) \in Seq(StartWord)
    BY <1>2, SeqDef
  <1> QED
    BY <1>2, <1>3 DEF Pointers

LEMMA OneWord ==
    ASSUME NEW w \in StartWord
    PROVE  <<w>> \in Seq(StartWord) /\ Len(<<w>>) = 1 /\ <<w>>[1] = w
  OBVIOUS

\* u is s with t behind it.
IsJoin(u, s, t) ==
    /\ u \in Seq(StartWord) /\ Len(u) = Len(s) + Len(t)
    /\ \A j \in 1 .. Len(s) : u[j] = s[j]
    /\ \A j \in 1 .. Len(t) : u[Len(s) + j] = t[j]

LEMMA Joined ==
    ASSUME NEW s \in Seq(StartWord), NEW t \in Seq(StartWord)
    PROVE  IsJoin(s \o t, s, t)
  <1> DEFINE u == s \o t
             m == Len(s)
             num == Len(t)
  <1>1. /\ u \in Seq(StartWord) /\ Len(u) = m + num /\ m \in Nat /\ num \in Nat
        /\ \A j \in 1 .. m + num : u[j] = IF j <= m THEN s[j] ELSE t[j - m]
    BY ConcatProperties, LenProperties
  <1> HIDE DEF u, m, num
  <1>2. \A j \in 1 .. m : u[j] = s[j]
    BY <1>1
  <1>3. ASSUME NEW j \in 1 .. num
        PROVE  u[m + j] = t[j]
    <2>1. m + j \in 1 .. m + num /\ ~(m + j <= m) /\ (m + j) - m = j
      BY <1>1
    <2> QED
      BY <1>1, <2>1
  <1>4. IsJoin(u, s, t)
    BY <1>1, <1>2, <1>3 DEF IsJoin, m, num
  <1> QED
    BY <1>4 DEF u

\* Where everything is on that stack.
LEMMA StartStackIs ==
    ASSUME NEW argc \in Nat, NEW envc \in Nat
    PROVE  LET u == StartStack(argc, envc)
           IN  /\ Len(u) = 17 + envc + argc
               /\ At(u, 0) = <<"argc", argc>>
               /\ \A j \in 1 .. argc : At(u, j) = <<"arg", j>>
               /\ At(u, argc + 1) = Zero
               /\ \A j \in 1 .. envc : At(u, argc + 1 + j) = <<"env", j>>
               /\ At(u, argc + envc + 2) = Zero
  <1> DEFINE Words == StartWord
             z == <<Zero>>
             e == Pointers("env", envc)
             argp == Pointers("arg", argc)
             c == <<<<"argc", argc>>>>
             s1 == Auxv \o z
             s2 == s1 \o e
             s3 == s2 \o z
             s4 == s3 \o argp
             u == s4 \o c
  <1>1. Auxv \in Seq(Words) /\ Len(Auxv) = 14
    <2>1. \A j \in 1 .. 14 : <<"aux", j>> \in Words
      BY DEF StartWord
    <2>2. Auxv \in [1 .. 14 -> Words]
      BY <2>1 DEF Auxv
    <2>3. Auxv \in Seq(Words)
      BY <2>2, SeqDef
    <2> QED
      BY <2>2, <2>3 DEF Auxv
  <1>2. z \in Seq(Words) /\ Len(z) = 1 /\ z[1] = Zero
    BY OneWord DEF Zero, StartWord
  <1>3. c \in Seq(Words) /\ Len(c) = 1 /\ c[1] = <<"argc", argc>>
    BY OneWord DEF StartWord
  <1>4. e \in Seq(Words) /\ Len(e) = envc /\ \A j \in 1 .. envc : e[j] = <<"env", envc + 1 - j>>
    BY PointersAre
  <1>5. /\ argp \in Seq(Words) /\ Len(argp) = argc
        /\ \A j \in 1 .. argc : argp[j] = <<"arg", argc + 1 - j>>
    BY PointersAre
  <1>6. u = StartStack(argc, envc)
    BY DEF StartStack
  <1> HIDE DEF z, e, argp, c, Words
  <1> HIDE DEF s1, s2, s3, s4, u
  <1>7. /\ s1 \in Seq(Words) /\ Len(s1) = 14 + 1
        /\ \A j \in 1 .. 14 : s1[j] = Auxv[j]
        /\ \A j \in 1 .. 1 : s1[14 + j] = z[j]
    <2>1. Auxv \in Seq(Words) /\ z \in Seq(Words) /\ Len(Auxv) = 14 /\ Len(z) = 1
      BY <1>1, <1>2
    <2>2. IsJoin(s1, Auxv, z)
      BY <2>1, Joined DEF s1, Words
    <2> QED
      BY <2>1, <2>2 DEF IsJoin, Words
  <1>8. /\ s2 \in Seq(Words) /\ Len(s2) = 15 + envc
        /\ \A j \in 1 .. 15 : s2[j] = s1[j]
        /\ \A j \in 1 .. envc : s2[15 + j] = e[j]
    <2>1. s1 \in Seq(Words) /\ e \in Seq(Words) /\ Len(s1) = 15 /\ Len(e) = envc
      BY <1>7, <1>4
    <2>2. IsJoin(s2, s1, e)
      BY <2>1, Joined DEF s2, Words
    <2> QED
      BY <2>1, <2>2 DEF IsJoin, Words
  <1>9. /\ s3 \in Seq(Words) /\ Len(s3) = (15 + envc) + 1
        /\ \A j \in 1 .. (15 + envc) : s3[j] = s2[j]
        /\ \A j \in 1 .. 1 : s3[(15 + envc) + j] = z[j]
    <2>1. s2 \in Seq(Words) /\ z \in Seq(Words) /\ Len(s2) = (15 + envc) /\ Len(z) = 1
      BY <1>8, <1>2
    <2>2. IsJoin(s3, s2, z)
      BY <2>1, Joined DEF s3, Words
    <2> QED
      BY <2>1, <2>2 DEF IsJoin, Words
  <1>10. /\ s4 \in Seq(Words) /\ Len(s4) = (16 + envc) + argc
         /\ \A j \in 1 .. (16 + envc) : s4[j] = s3[j]
         /\ \A j \in 1 .. argc : s4[(16 + envc) + j] = argp[j]
    <2>1. s3 \in Seq(Words) /\ argp \in Seq(Words) /\ Len(s3) = (16 + envc) /\ Len(argp) = argc
      BY <1>9, <1>5
    <2>2. IsJoin(s4, s3, argp)
      BY <2>1, Joined DEF s4, Words
    <2> QED
      BY <2>1, <2>2 DEF IsJoin, Words
  <1>11. /\ u \in Seq(Words) /\ Len(u) = (16 + envc + argc) + 1
         /\ \A j \in 1 .. (16 + envc + argc) : u[j] = s4[j]
         /\ \A j \in 1 .. 1 : u[(16 + envc + argc) + j] = c[j]
    <2>1. s4 \in Seq(Words) /\ c \in Seq(Words) /\ Len(s4) = (16 + envc + argc) /\ Len(c) = 1
      BY <1>10, <1>3
    <2>2. IsJoin(u, s4, c)
      BY <2>1, Joined DEF u, Words
    <2> QED
      BY <2>1, <2>2 DEF IsJoin, Words
  <1>12. \A j \in 1 .. argc : u[16 + envc + j] = <<"arg", argc + 1 - j>>
    <2> SUFFICES ASSUME NEW j \in 1 .. argc
                 PROVE  u[16 + envc + j] = <<"arg", argc + 1 - j>>
      OBVIOUS
    <2>1. 16 + envc + j \in 1 .. 16 + envc + argc
      OBVIOUS
    <2>2. u[16 + envc + j] = s4[16 + envc + j]
      BY <1>11, <2>1
    <2>3. s4[16 + envc + j] = argp[j]
      BY <1>10
    <2> QED
      BY <1>5, <2>2, <2>3
  <1>13. \A j \in 1 .. envc : u[15 + j] = <<"env", envc + 1 - j>>
    <2> SUFFICES ASSUME NEW j \in 1 .. envc
                 PROVE  u[15 + j] = <<"env", envc + 1 - j>>
      OBVIOUS
    <2>1. /\ 15 + j \in 1 .. 16 + envc + argc /\ 15 + j \in 1 .. 16 + envc
          /\ 15 + j \in 1 .. 15 + envc
      OBVIOUS
    <2>2. u[15 + j] = s4[15 + j] /\ s4[15 + j] = s3[15 + j] /\ s3[15 + j] = s2[15 + j]
      BY <1>9, <1>10, <1>11, <2>1
    <2>3. s2[15 + j] = e[j]
      BY <1>8
    <2> QED
      BY <1>4, <2>2, <2>3
  <1>14. u[16 + envc] = Zero /\ u[15] = Zero /\ u[17 + envc + argc] = <<"argc", argc>>
    <2>1. /\ 16 + envc \in 1 .. 16 + envc + argc /\ 16 + envc \in 1 .. 16 + envc
          /\ 15 \in 1 .. 16 + envc + argc /\ 15 \in 1 .. 16 + envc /\ 15 \in 1 .. 15 + envc
          /\ 15 \in 1 .. 15 /\ 1 \in 1 .. 1
          /\ 15 + envc + 1 = 16 + envc /\ 14 + 1 = 15
          /\ 16 + envc + argc + 1 = 17 + envc + argc
      OBVIOUS
    <2>2. u[16 + envc] = Zero
      BY <1>2, <1>9, <1>10, <1>11, <2>1
    <2>3. u[15] = Zero
      BY <1>2, <1>7, <1>8, <1>9, <1>10, <1>11, <2>1
    <2>4. u[17 + envc + argc] = <<"argc", argc>>
      BY <1>3, <1>11, <2>1
    <2> QED
      BY <2>2, <2>3, <2>4
  <1>15. Len(u) = 17 + envc + argc
    BY <1>11
  <1>16. ASSUME NEW j \in 1 .. argc
         PROVE  At(u, j) = <<"arg", j>>
    <2>1. /\ argc + 1 - j \in 1 .. argc
          /\ 16 + envc + (argc + 1 - j) = 17 + envc + argc - j
          /\ argc + 1 - (argc + 1 - j) = j
      OBVIOUS
    <2>2. u[16 + envc + (argc + 1 - j)] = <<"arg", argc + 1 - (argc + 1 - j)>>
      BY <1>12, <2>1
    <2> QED
      BY <1>15, <2>1, <2>2 DEF At
  <1>17. ASSUME NEW j \in 1 .. envc
         PROVE  At(u, argc + 1 + j) = <<"env", j>>
    <2>1. /\ envc + 1 - j \in 1 .. envc
          /\ 15 + (envc + 1 - j) = 17 + envc + argc - (argc + 1 + j)
          /\ envc + 1 - (envc + 1 - j) = j
      OBVIOUS
    <2>2. u[15 + (envc + 1 - j)] = <<"env", envc + 1 - (envc + 1 - j)>>
      BY <1>13, <2>1
    <2> QED
      BY <1>15, <2>1, <2>2 DEF At
  <1>18. At(u, 0) = <<"argc", argc>> /\ At(u, argc + 1) = Zero /\ At(u, argc + envc + 2) = Zero
    <2>1. /\ 17 + envc + argc - 0 = 17 + envc + argc
          /\ 17 + envc + argc - (argc + 1) = 16 + envc
          /\ 17 + envc + argc - (argc + envc + 2) = 15
      OBVIOUS
    <2> QED
      BY <1>14, <1>15, <2>1 DEF At
  <1> QED
    BY <1>6, <1>15, <1>16, <1>17, <1>18

\* From some place on, num words and a null pointer.
NullAfter(u, from, num) ==
    /\ Len(u) \in Nat /\ from + num < Len(u)
    /\ \A j \in 1 .. num : At(u, from + j - 1) # Zero
    /\ At(u, from + num) = Zero

\* A list of the stack ends at its first null pointer.
LEMMA ListEnds ==
    ASSUME NEW u, NEW from \in Nat, NEW num \in Nat, NullAfter(u, from, num)
    PROVE  List(u, from) = [j \in 1 .. num |-> At(u, from + j - 1)]
  <1> USE DEF NullAfter
  <1> DEFINE ends == {m \in 0 .. Len(u) : from + m >= Len(u) \/ At(u, from + m) = Zero}
             least == CHOOSE m \in ends : \A k \in ends : m <= k
  <1>1. num \in ends
    OBVIOUS
  <1>2. ASSUME NEW m \in ends
        PROVE  num <= m
    <2> SUFFICES ASSUME m < num
                 PROVE  FALSE
      OBVIOUS
    <2>1. m + 1 \in 1 .. num /\ from + (m + 1) - 1 = from + m /\ ~(from + m >= Len(u))
      OBVIOUS
    <2>2. At(u, from + m) = Zero
      BY <2>1
    <2> QED
      BY <2>1, <2>2
  <1>3. \A m \in ends : m \in Int
    OBVIOUS
  <1> HIDE DEF ends
  <1>4. least \in ends /\ \A k \in ends : least <= k
    BY <1>1, <1>2
  <1> HIDE DEF least
  <1>5. least = num
    BY <1>1, <1>2, <1>3, <1>4
  <1>6. List(u, from) = [j \in 1 .. least |-> At(u, from + j - 1)]
    BY DEF List, least, ends
  <1> QED
    BY <1>5, <1>6

\* crt0 finds these counts and lists on stack u.
Finds(u, argc, envc) ==
    /\ crt0(u).argc = argc
    /\ crt0(u).argv = [j \in 1 .. argc |-> <<"arg", j>>]
    /\ crt0(u).envp = [j \in 1 .. envc |-> <<"env", j>>]

LEMMA ProgramFinds ==
    ASSUME NEW argc \in Nat, NEW envc \in Nat, NEW u, u = StartStack(argc, envc)
    PROVE  Finds(u, argc, envc)
  <1> SUFFICES /\ crt0(u).argc = argc
               /\ crt0(u).argv = [j \in 1 .. argc |-> <<"arg", j>>]
               /\ crt0(u).envp = [j \in 1 .. envc |-> <<"env", j>>]
    BY DEF Finds
  <1>1. /\ Len(u) = 17 + envc + argc
        /\ At(u, 0) = <<"argc", argc>>
        /\ \A j \in 1 .. argc : At(u, j) = <<"arg", j>>
        /\ At(u, argc + 1) = Zero
        /\ \A j \in 1 .. envc : At(u, argc + 1 + j) = <<"env", j>>
        /\ At(u, argc + envc + 2) = Zero
    BY StartStackIs
  <1>2. \A j : <<"arg", j>> # Zero /\ <<"env", j>> # Zero
    BY DEF Zero
  <1>3. At(u, 0)[2] = argc
    BY <1>1
  <1>4. List(u, 1) = [j \in 1 .. argc |-> <<"arg", j>>]
    <2>1. \A j \in 1 .. argc : At(u, 1 + j - 1) = <<"arg", j>>
      <3> SUFFICES ASSUME NEW j \in 1 .. argc
                   PROVE  At(u, 1 + j - 1) = <<"arg", j>>
        OBVIOUS
      <3>1. 1 + j - 1 = j
        OBVIOUS
      <3> QED
        BY <1>1, <3>1
    <2>2. 1 + argc < Len(u) /\ Len(u) \in Nat /\ 1 + argc = argc + 1
      BY <1>1
    <2>3. List(u, 1) = [j \in 1 .. argc |-> At(u, 1 + j - 1)]
      <3>1. NullAfter(u, 1, argc)
        BY <1>1, <1>2, <2>1, <2>2 DEF NullAfter
      <3> QED
        BY <3>1, ListEnds
    <2> QED
      BY <2>1, <2>3
  <1>5. List(u, 2 + argc) = [j \in 1 .. envc |-> <<"env", j>>]
    <2>1. \A j \in 1 .. envc : At(u, 2 + argc + j - 1) = <<"env", j>>
      <3> SUFFICES ASSUME NEW j \in 1 .. envc
                   PROVE  At(u, 2 + argc + j - 1) = <<"env", j>>
        OBVIOUS
      <3>1. 2 + argc + j - 1 = argc + 1 + j
        OBVIOUS
      <3> QED
        BY <1>1, <3>1
    <2>2. /\ 2 + argc + envc < Len(u) /\ Len(u) \in Nat
          /\ 2 + argc + envc = argc + envc + 2 /\ 2 + argc \in Nat
      BY <1>1
    <2>3. At(u, 2 + argc + envc) = Zero
      BY <1>1, <2>2
    <2>4. NullAfter(u, 2 + argc, envc)
      BY <1>2, <2>1, <2>2, <2>3 DEF NullAfter
    <2>5. List(u, 2 + argc) = [j \in 1 .. envc |-> At(u, 2 + argc + j - 1)]
      BY <2>2, <2>4, ListEnds
    <2> QED
      BY <2>1, <2>5
  <1> QED
    BY <1>3, <1>4, <1>5 DEF crt0

\* Frames on a kernel stack, where they begin above low words.
CallAt(st, low) ==
    /\ st[low + 1][1] = "a4" /\ st[low + 2][1] = "a3" /\ st[low + 3][1] = "a2"
    /\ st[low + 4][1] = "a1" /\ st[low + 5][1] = "nr" /\ st[low + 6][1] = "sys_enter"
SwitchAt(st, low, rs) ==
    /\ st[low + 4][1] = "schedule"
    /\ st[low + 5] = rs.ebx /\ st[low + 6] = rs.esi /\ st[low + 7] = rs.edi
    /\ st[low + 8] = rs.ebp /\ st[low + 9] = rs.eflags
ForkAt(st) == st[1][1] = "sys_return" /\ st[6] = EFLAGS
ArgumentsAt(st, low, p) == st[low + 1] = <<"envc", p.envc>> /\ st[low + 4] = <<"argc", p.argc>>
TrampolineAt(st, low, p) == ArgumentsAt(st, low, p) /\ st[low + 7][1] = "task_trampoline"

IsRegs(rs) ==
    rs = [eflags |-> rs.eflags, ebp |-> rs.ebp, edi |-> rs.edi, esi |-> rs.esi, ebx |-> rs.ebx]

\* What a call leaves on the user stack of the program that makes it.
UserFrame(num) ==
    <<<<"user", 0>>, <<"a4", num>>, <<"a3", num>>, <<"a2", num>>, <<"a1", num>>, <<"nr", num>>,
      Regs("u", num).eflags, Regs("u", num).ebp, Regs("u", num).edi>>

\* The words that starts of programs have left.
Base(t) == 16 * execs[t]

\* The task is in a call, its own or that of the task it was forked from.
InCall(t) ==
    \E num \in Tasks :
      /\ ust[t] = UserFrame(num) /\ u_sp[t] = 9
      /\ call[t] = [ebp |-> Regs("u", num).ebp, depth |-> 0]

NewProgram(t) ==
    /\ execs[t] >= 1 /\ k_sp[t] = Base(t) - 4
    /\ TrampolineAt(kst[t], Base(t) - 16, program[t])
Forked(t) == execs[t] = 0 /\ k_sp[t] = 6 /\ ForkAt(kst[t]) /\ InCall(t)
SwitchedOut(t) ==
    /\ k_sp[t] = Base(t) + 15
    /\ CallAt(kst[t], Base(t)) /\ SwitchAt(kst[t], Base(t) + 6, regs_out[t])
    /\ IsRegs(regs_out[t]) /\ regs_out[t].eflags = EFLAGS
    /\ InCall(t)

\* A task that exists and does not run.
Parked(t) == NewProgram(t) \/ Forked(t) \/ SwitchedOut(t)

\* The task that runs, by where it runs.
Trampolining ==
    /\ pc = "task_trampoline" /\ execs[cur] >= 1 /\ esp = Base(cur) - 10
    /\ ArgumentsAt(kst[cur], Base(cur) - 16, program[cur])
Starting ==
    /\ pc = "_start" /\ k_sp[cur] = Base(cur)
    /\ ust[cur] = StartStack(program[cur].argc, program[cur].envc)
InProgram ==
    /\ pc = "user" /\ k_sp[cur] = Base(cur) /\ ust[cur] = <<>>
    /\ call[cur].ebp = regs.ebp /\ call[cur].depth = 0
InDispatch ==
    /\ pc = "dispatch" /\ esp = Base(cur) + 6
    /\ CallAt(kst[cur], Base(cur)) /\ InCall(cur) /\ regs.eflags = EFLAGS
InSchedule ==
    /\ pc = "schedule" /\ esp = Base(cur) + 9 /\ regs = regs_out[cur]
    /\ CallAt(kst[cur], Base(cur)) /\ InCall(cur) /\ regs.eflags = EFLAGS
Leaving ==
    /\ \/ pc = "sys_enter" /\ esp = Base(cur) + 5
       \/ pc = "sys_return" /\ esp = Base(cur)
    /\ InCall(cur) /\ regs.eflags = EFLAGS

TaskRuns ==
    /\ cur \in started
    /\ Trampolining \/ Starting \/ InProgram \/ InDispatch \/ InSchedule \/ Leaving

CtxTypes ==
    /\ CtxTypeOK
    /\ DOMAIN kst = Tasks /\ (\A t \in Tasks : DOMAIN kst[t] = 1 .. KWords)
    /\ DOMAIN ust = Tasks /\ DOMAIN u_sp = Tasks
    /\ DOMAIN regs_out = Tasks /\ DOMAIN call = Tasks
    /\ IsRegs(regs)

CtxInv ==
    /\ CtxTypes
    /\ \A t \in started \ {cur} : Parked(t)
    /\ (cur = 0 /\ pc = "none") \/ TaskRuns

\* s is the stack st with the num words of ws above the first top.
IsPoke(s, st, top, ws, num) ==
    /\ DOMAIN s = 1 .. KWords
    /\ \A j \in 1 .. num : s[top + j] = ws[j]
    /\ \A j \in 1 .. top : s[j] = st[j]

LEMMA PokeIs ==
    ASSUME NEW st, DOMAIN st = 1 .. KWords, NEW top \in Nat, NEW ws, NEW num \in Nat,
           Len(ws) = num, top + num <= KWords
    PROVE  IsPoke(Poke(st, top, ws), st, top, ws, num)
  <1>1. KWords \in Nat
    BY CtxAssumption
  <1>2. DOMAIN Poke(st, top, ws) = 1 .. KWords
    BY DEF Poke
  <1>3. ASSUME NEW j \in 1 .. num
        PROVE  Poke(st, top, ws)[top + j] = ws[j]
    <2>1. top + j \in 1 .. KWords /\ top + j \in (top + 1) .. (top + Len(ws)) /\ (top + j) - top = j
      BY <1>1
    <2> QED
      BY <2>1 DEF Poke
  <1>4. ASSUME NEW j \in 1 .. top
        PROVE  Poke(st, top, ws)[j] = st[j]
    <2>1. j \in 1 .. KWords /\ j \notin (top + 1) .. (top + Len(ws))
      BY <1>1
    <2> QED
      BY <2>1 DEF Poke
  <1> QED
    BY <1>2, <1>3, <1>4 DEF IsPoke

LEMMA RegsAre ==
    ASSUME NEW tag, NEW num
    PROVE  IsRegs(Regs(tag, num)) /\ Regs(tag, num).eflags = EFLAGS
  BY DEF IsRegs, Regs

\* The frames, pushed above top words.
LEMMA TrampolinePushed ==
    ASSUME NEW st, DOMAIN st = 1 .. KWords, NEW top \in Nat, top + 12 <= KWords, NEW p
    PROVE  /\ DOMAIN Poke(st, top, TrampolineFrame(p)) = 1 .. KWords
           /\ TrampolineAt(Poke(st, top, TrampolineFrame(p)), top, p)
  <1> DEFINE f == TrampolineFrame(p)
  <1>1. /\ Len(f) = 12 /\ f[1] = <<"envc", p.envc>> /\ f[4] = <<"argc", p.argc>>
        /\ f[7] = <<"task_trampoline", 0>>
    BY DEF TrampolineFrame
  <1> HIDE DEF f
  <1> DEFINE s == Poke(st, top, f)
  <1>2. IsPoke(s, st, top, f, 12)
    BY <1>1, PokeIs
  <1> HIDE DEF s
  <1>3. /\ DOMAIN s = 1 .. KWords
        /\ s[top + 1] = f[1] /\ s[top + 4] = f[4] /\ s[top + 7] = f[7]
    BY <1>2 DEF IsPoke
  <1>4. TrampolineAt(s, top, p)
    BY <1>1, <1>3 DEF TrampolineAt, ArgumentsAt
  <1> QED
    BY <1>3, <1>4 DEF s, f

LEMMA ForkPushed ==
    ASSUME NEW st, DOMAIN st = 1 .. KWords
    PROVE  /\ DOMAIN Poke(st, 0, ForkFrame) = 1 .. KWords
           /\ ForkAt(Poke(st, 0, ForkFrame))
  <1> DEFINE f == ForkFrame
  <1>1. Len(f) = 6 /\ f[1] = <<"sys_return", 0>> /\ f[6] = EFLAGS
    BY DEF ForkFrame
  <1> HIDE DEF f
  <1> DEFINE s == Poke(st, 0, f)
  <1>2. KWords \in Nat /\ 6 <= KWords
    BY CtxAssumption
  <1>3. IsPoke(s, st, 0, f, 6)
    <2>1. 0 \in Nat /\ 6 \in Nat /\ 0 + 6 <= KWords
      BY <1>2
    <2> QED
      BY <1>1, <2>1, PokeIs
  <1> HIDE DEF s
  <1>4. DOMAIN s = 1 .. KWords /\ s[1] = f[1] /\ s[6] = f[6]
    <2>1. 0 + 1 = 1 /\ 0 + 6 = 6 /\ 1 \in 1 .. 6 /\ 6 \in 1 .. 6
      OBVIOUS
    <2> QED
      BY <1>3, <2>1 DEF IsPoke
  <1>5. ForkAt(s)
    BY <1>1, <1>4 DEF ForkAt
  <1> QED
    BY <1>4, <1>5 DEF s, f

\* The frame of a switch leaves the call below it as it was.
LEMMA SwitchPushed ==
    ASSUME NEW st, DOMAIN st = 1 .. KWords, NEW low \in Nat, low + 15 <= KWords, CallAt(st, low),
           NEW rs, NEW s, s = Poke(st, low + 6, SwitchFrame(rs))
    PROVE  /\ DOMAIN s = 1 .. KWords /\ CallAt(s, low) /\ SwitchAt(s, low + 6, rs)
  <1> DEFINE f == SwitchFrame(rs)
             top == low + 6
  <1>1. /\ Len(f) = 9 /\ f[4] = <<"schedule", 0>> /\ f[5] = rs.ebx /\ f[6] = rs.esi
        /\ f[7] = rs.edi /\ f[8] = rs.ebp /\ f[9] = rs.eflags
    BY DEF SwitchFrame
  <1> HIDE DEF f
  <1>2. top \in Nat /\ top + 9 <= KWords
    OBVIOUS
  <1> HIDE DEF top
  <1>3. s = Poke(st, top, f)
    BY DEF top, f
  <1>4. IsPoke(s, st, top, f, 9)
    BY <1>1, <1>2, <1>3, PokeIs
  <1>5. /\ DOMAIN s = 1 .. KWords
        /\ s[top + 4] = f[4] /\ s[top + 5] = f[5] /\ s[top + 6] = f[6] /\ s[top + 7] = f[7]
        /\ s[top + 8] = f[8] /\ s[top + 9] = f[9]
    BY <1>4 DEF IsPoke
  <1>6. SwitchAt(s, top, rs)
    BY <1>1, <1>5 DEF SwitchAt
  <1>7. /\ s[low + 1] = st[low + 1] /\ s[low + 2] = st[low + 2] /\ s[low + 3] = st[low + 3]
        /\ s[low + 4] = st[low + 4] /\ s[low + 5] = st[low + 5] /\ s[low + 6] = st[low + 6]
    <2>1. /\ low + 1 \in 1 .. top /\ low + 2 \in 1 .. top /\ low + 3 \in 1 .. top
          /\ low + 4 \in 1 .. top
      BY DEF top
    <2>2. low + 5 \in 1 .. top /\ low + 6 \in 1 .. top
      BY DEF top
    <2>3. \A j \in 1 .. top : s[j] = st[j]
      BY <1>4 DEF IsPoke
    <2> QED
      BY <2>1, <2>2, <2>3
  <1>8. CallAt(s, low)
    BY <1>7 DEF CallAt
  <1> QED
    BY <1>5, <1>6, <1>8 DEF top

\* A call pushes its arguments above what starts of programs have left.
LEMMA CallPushed ==
    ASSUME NEW st, DOMAIN st = 1 .. KWords, NEW top \in Nat, top + 6 <= KWords, NEW num, NEW s,
           s = Poke(st, top, <<<<"a4", num>>, <<"a3", num>>, <<"a2", num>>, <<"a1", num>>,
                              <<"nr", num>>, <<"sys_enter", 0>>>>)
    PROVE  DOMAIN s = 1 .. KWords /\ CallAt(s, top)
  <1> DEFINE f == <<<<"a4", num>>, <<"a3", num>>, <<"a2", num>>, <<"a1", num>>, <<"nr", num>>,
                    <<"sys_enter", 0>>>>
  <1>1. /\ Len(f) = 6 /\ f[1][1] = "a4" /\ f[2][1] = "a3" /\ f[3][1] = "a2"
        /\ f[4][1] = "a1" /\ f[5][1] = "nr" /\ f[6][1] = "sys_enter"
    OBVIOUS
  <1>2. s = Poke(st, top, f)
    OBVIOUS
  <1> HIDE DEF f
  <1>3. IsPoke(s, st, top, f, 6)
    BY <1>1, <1>2, PokeIs
  <1>4. /\ DOMAIN s = 1 .. KWords
        /\ s[top + 1] = f[1] /\ s[top + 2] = f[2] /\ s[top + 3] = f[3] /\ s[top + 4] = f[4]
        /\ s[top + 5] = f[5] /\ s[top + 6] = f[6]
    BY <1>3 DEF IsPoke
  <1> QED
    BY <1>1, <1>4 DEF CallAt

\* What a step leaves alone of a task.
Untouched(t) ==
    /\ kst'[t] = kst[t] /\ k_sp'[t] = k_sp[t] /\ ust'[t] = ust[t] /\ u_sp'[t] = u_sp[t]
    /\ program'[t] = program[t] /\ execs'[t] = execs[t]
    /\ regs_out'[t] = regs_out[t] /\ call'[t] = call[t]

LEMMA StaysInCall ==
    ASSUME NEW t, NEW u, ust'[u] = ust[t], u_sp'[u] = u_sp[t], call'[u] = call[t], InCall(t)
    PROVE  InCall(u)'
  BY DEF InCall

LEMMA StaysParked ==
    ASSUME NEW t, Untouched(t), Parked(t)
    PROVE  Parked(t)'
  <1>1. InCall(t) => InCall(t)'
    BY StaysInCall DEF Untouched
  <1>2. Base(t)' = Base(t)
    BY DEF Base, Untouched
  <1>3. CASE NewProgram(t)
    <2>1. NewProgram(t)'
      BY <1>2, <1>3 DEF Untouched, NewProgram, TrampolineAt, ArgumentsAt
    <2> QED
      BY <2>1 DEF Parked
  <1>4. CASE Forked(t)
    <2>1. Forked(t)'
      BY <1>1, <1>4 DEF Untouched, Forked, ForkAt
    <2> QED
      BY <2>1 DEF Parked
  <1>5. CASE SwitchedOut(t)
    <2>1. SwitchedOut(t)'
      BY <1>1, <1>2, <1>5 DEF Untouched, SwitchedOut, CallAt, SwitchAt, IsRegs
    <2> QED
      BY <2>1 DEF Parked
  <1> QED
    BY <1>3, <1>4, <1>5 DEF Parked

\* ctx_switch finds what the frame of a task that does not run holds for it.
LEMMA SwitchRuns ==
    ASSUME NEW num \in Tasks, SwitchTo(num, kst', k_sp'), Parked(num)', num \in started',
           execs' \in [Tasks -> 0 .. MaxExecs]
    PROVE  TaskRuns' /\ IsRegs(regs)' /\ esp' \in 0 .. KWords /\ cur' = num
  <1>1. /\ cur' = num /\ pc' = kst'[num][k_sp'[num] - 5][1] /\ esp' = k_sp'[num] - 6
        /\ regs' = [eflags |-> kst'[num][k_sp'[num]], ebp |-> kst'[num][k_sp'[num] - 1],
                    edi |-> kst'[num][k_sp'[num] - 2], esi |-> kst'[num][k_sp'[num] - 3],
                    ebx |-> kst'[num][k_sp'[num] - 4]]
    BY DEF SwitchTo
  <1>2. IsRegs(regs)'
    BY <1>1 DEF IsRegs
  <1>3. KWords \in Nat /\ MaxExecs \in Nat /\ 16 * MaxExecs + 15 <= KWords
    BY CtxAssumption
  <1>4. /\ execs'[num] \in Nat /\ execs'[num] <= MaxExecs /\ Base(num)' = 16 * execs'[num]
        /\ Base(num)' \in Nat /\ Base(num)' + 15 <= KWords
    BY <1>3 DEF Base
  <1>5. InCall(num)' => InCall(cur)'
    BY <1>1 DEF InCall
  <1>6. Base(cur)' = Base(num)'
    BY <1>1 DEF Base
  <1>7. CASE NewProgram(num)'
    <2> DEFINE low == Base(num)'
    <2>1. /\ execs'[num] >= 1 /\ k_sp'[num] = low - 4
          /\ TrampolineAt(kst'[num], low - 16, program'[num])
      BY <1>7 DEF NewProgram
    <2>2. low - 4 - 5 = low - 16 + 7 /\ low - 4 - 6 = low - 10 /\ low - 10 \in 0 .. KWords
      BY <1>3, <1>4, <2>1
    <2>3. /\ pc' = "task_trampoline"
          /\ ArgumentsAt(kst'[num], low - 16, program'[num]) /\ esp' = low - 10
      BY <1>1, <2>1, <2>2 DEF TrampolineAt
    <2>4. Trampolining'
      BY <1>1, <1>6, <2>1, <2>3 DEF Trampolining
    <2> QED
      BY <1>1, <1>2, <2>2, <2>3, <2>4 DEF TaskRuns
  <1>8. CASE Forked(num)'
    <2>1. k_sp'[num] = 6 /\ execs'[num] = 0 /\ ForkAt(kst'[num]) /\ InCall(num)'
      BY <1>8 DEF Forked
    <2>2. 6 - 5 = 1 /\ 6 - 6 = 0 /\ Base(num)' = 0
      BY <1>4, <2>1
    <2>3. pc' = "sys_return" /\ esp' = 0 /\ regs'.eflags = EFLAGS
      BY <1>1, <2>1, <2>2 DEF ForkAt
    <2>4. Leaving'
      BY <1>1, <1>5, <1>6, <2>1, <2>2, <2>3 DEF Leaving
    <2> QED
      BY <1>1, <1>2, <1>3, <2>3, <2>4 DEF TaskRuns
  <1>9. CASE SwitchedOut(num)'
    <2>1. PICK low, rs, st, top :
            low = Base(num)' /\ rs = regs_out'[num] /\ st = kst'[num] /\ top = k_sp'[num]
      OBVIOUS
    <2>2. /\ top = low + 15 /\ CallAt(st, low) /\ SwitchAt(st, low + 6, rs)
          /\ rs.eflags = EFLAGS /\ InCall(num)'
      BY <1>9, <2>1 DEF SwitchedOut
    <2>3. rs = [eflags |-> rs.eflags, ebp |-> rs.ebp, edi |-> rs.edi, esi |-> rs.esi,
                ebx |-> rs.ebx]
      BY <1>9, <2>1 DEF SwitchedOut, IsRegs
    <2>4. low \in Nat /\ low + 15 <= KWords
      BY <1>4, <2>1
    <2>5. /\ top - 5 = low + 6 + 4 /\ top - 6 = low + 9 /\ low + 9 \in 0 .. KWords
          /\ top - 4 = low + 6 + 5 /\ top - 3 = low + 6 + 6 /\ top - 2 = low + 6 + 7
          /\ top - 1 = low + 6 + 8 /\ top = low + 6 + 9
      BY <1>3, <2>2, <2>4
    <2>6. /\ pc' = st[top - 5][1] /\ esp' = top - 6
          /\ regs' = [eflags |-> st[top], ebp |-> st[top - 1], edi |-> st[top - 2],
                      esi |-> st[top - 3], ebx |-> st[top - 4]]
      BY <1>1, <2>1
    <2>7. pc' = "schedule" /\ esp' = low + 9
      BY <2>2, <2>5, <2>6 DEF SwitchAt
    <2>8. regs' = rs
      <3>1. /\ st[top] = rs.eflags /\ st[top - 1] = rs.ebp /\ st[top - 2] = rs.edi
            /\ st[top - 3] = rs.esi /\ st[top - 4] = rs.ebx
        BY <2>2, <2>5 DEF SwitchAt
      <3> QED
        BY <2>3, <2>6, <3>1
    <2>9. InSchedule'
      BY <1>1, <1>5, <1>6, <2>1, <2>2, <2>7, <2>8 DEF InSchedule
    <2> QED
      BY <1>1, <1>2, <2>5, <2>7, <2>9 DEF TaskRuns
  <1> QED
    BY <1>7, <1>8, <1>9 DEF Parked

-----------------------------------------------------------------------------
LEMMA CtxFacts ==
    ASSUME CtxInv
    PROVE  /\ KWords \in Nat /\ MaxExecs \in Nat /\ 0 \notin Tasks /\ started \subseteq Tasks
           /\ \A t \in Tasks : /\ execs[t] \in 0 .. MaxExecs /\ Base(t) = 16 * execs[t]
                               /\ Base(t) \in Nat /\ Base(t) + 15 <= KWords
                               /\ DOMAIN kst[t] = 1 .. KWords
           /\ pc # "none" => TaskRuns /\ cur \in started
  <1>1. /\ KWords \in Nat /\ MaxExecs \in Nat /\ 0 \notin Tasks
        /\ 16 * MaxExecs + 15 <= KWords
    BY CtxAssumption
  <1>2. \A t \in Tasks : execs[t] \in 0 .. MaxExecs
    BY DEF CtxInv, CtxTypes, CtxTypeOK
  <1>3. \A t \in Tasks : /\ Base(t) = 16 * execs[t] /\ Base(t) \in Nat
                        /\ Base(t) + 15 <= KWords
    <2> SUFFICES ASSUME NEW t \in Tasks
                 PROVE  Base(t) = 16 * execs[t] /\ Base(t) \in Nat /\ Base(t) + 15 <= KWords
      OBVIOUS
    <2>1. PICK e \in 0 .. MaxExecs : execs[t] = e
      BY <1>2
    <2>2. 16 * e \in Nat /\ 16 * e + 15 <= KWords
      BY <1>1
    <2> QED
      BY <2>1, <2>2 DEF Base
  <1>4. pc # "none" => TaskRuns /\ cur \in started
    BY DEF CtxInv, TaskRuns
  <1> QED
    BY <1>1, <1>2, <1>3, <1>4 DEF CtxInv, CtxTypes, CtxTypeOK

\* Where the running task is says what it has.
LEMMA RunsWhere ==
    ASSUME CtxInv
    PROVE  /\ pc = "task_trampoline" => Trampolining
           /\ pc = "_start" => Starting
           /\ pc = "user" => InProgram
           /\ pc = "dispatch" => InDispatch
           /\ pc = "schedule" => InSchedule
           /\ pc \in {"sys_enter", "sys_return"} => Leaving
           /\ pc = "sys_enter" => esp = Base(cur) + 5
           /\ pc = "sys_return" => esp = Base(cur)
           /\ pc \in {"none", "user", "dispatch", "schedule", "sys_enter", "sys_return",
                      "task_trampoline", "_start"}
  BY DEF CtxInv, TaskRuns, Trampolining, Starting, InProgram, InDispatch, InSchedule, Leaving

\* The tasks that do not run need only be looked at where a step touches them.
LEMMA RestStays ==
    ASSUME CtxInv, CtxTypes', (cur' = 0 /\ pc' = "none") \/ TaskRuns',
           \A t \in started' \ {cur'} : (t \in started \ {cur} /\ Untouched(t)) \/ Parked(t)'
    PROVE  CtxInv'
  <1>1. ASSUME NEW t \in started' \ {cur'}
        PROVE  Parked(t)'
    <2>1. CASE t \in started \ {cur} /\ Untouched(t)
      <3>1. Parked(t)
        BY <2>1 DEF CtxInv
      <3> QED
        BY <2>1, <3>1, StaysParked
    <2> QED
      BY <2>1
  <1> QED
    BY <1>1 DEF CtxInv

LEMMA CtxInitial ==
    ASSUME CtxInit
    PROVE  CtxInv
  <1>1. PICK p \in Programs :
          /\ program = [t \in Tasks |-> IF t = 1 THEN p ELSE NoProgram]
          /\ kst = [t \in Tasks |-> IF t = 1
                      THEN Poke([j \in 1 .. KWords |-> Zero], 0, TrampolineFrame(p))
                      ELSE [j \in 1 .. KWords |-> Zero]]
    BY DEF CtxInit
  <1>2. /\ KWords \in Nat /\ MaxExecs \in Nat \ {0} /\ 12 <= KWords /\ 1 \in Tasks
        /\ 0 \in Nat /\ 0 + 12 <= KWords
    BY CtxAssumption
  <1>3. Len(TrampolineFrame(NoProgram)) = 12
    BY DEF TrampolineFrame
  <1> DEFINE z == [j \in 1 .. KWords |-> Zero]
  <1>4. DOMAIN z = 1 .. KWords
    OBVIOUS
  <1> HIDE DEF z
  <1>5. /\ DOMAIN Poke(z, 0, TrampolineFrame(p)) = 1 .. KWords
        /\ TrampolineAt(Poke(z, 0, TrampolineFrame(p)), 0, p)
    BY <1>2, <1>4, TrampolinePushed
  <1>6. kst[1] = Poke(z, 0, TrampolineFrame(p)) /\ program[1] = p
    BY <1>1, <1>2 DEF z
  <1>7. CtxTypes
    <2>1. \A t \in Tasks : DOMAIN kst[t] = 1 .. KWords
      <3> SUFFICES ASSUME NEW t \in Tasks
                   PROVE  DOMAIN kst[t] = 1 .. KWords
        OBVIOUS
      <3>1. CASE t = 1
        BY <1>5, <1>6, <3>1
      <3>2. CASE t # 1
        <4>1. kst[t] = z
          BY <1>1, <3>2 DEF z
        <4> QED
          BY <1>4, <4>1
      <3> QED
        BY <3>1, <3>2
    <2>2. IsRegs(regs)
      BY RegsAre DEF CtxInit
    <2>3. program \in [Tasks -> Programs \cup {NoProgram}]
      BY <1>1
    <2>4. k_sp \in [Tasks -> 0 .. KWords]
      BY <1>2, <1>3 DEF CtxInit
    <2>5. execs \in [Tasks -> 0 .. MaxExecs]
      BY <1>2 DEF CtxInit
    <2>6. esp \in 0 .. KWords /\ started \subseteq Tasks /\ cur \in Tasks \cup {0}
      BY <1>2 DEF CtxInit
    <2>7. DOMAIN kst = Tasks
      BY <1>1
    <2>8. /\ DOMAIN ust = Tasks /\ DOMAIN u_sp = Tasks /\ DOMAIN regs_out = Tasks
          /\ DOMAIN call = Tasks
      BY DEF CtxInit
    <2> QED
      BY <2>1, <2>2, <2>3, <2>4, <2>5, <2>6, <2>7, <2>8 DEF CtxTypes, CtxTypeOK
  <1>8. NewProgram(1)
    <2>1. execs[1] = 1 /\ k_sp[1] = 12
      BY <1>2, <1>3 DEF CtxInit
    <2>2. Base(1) = 16 /\ 16 - 16 = 0 /\ 16 - 4 = 12
      BY <2>1 DEF Base
    <2> QED
      BY <1>5, <1>6, <2>1, <2>2 DEF NewProgram
  <1>9. \A t \in started \ {cur} : Parked(t)
    BY <1>8 DEF Parked, CtxInit
  <1> QED
    BY <1>7, <1>9 DEF CtxInv, CtxInit

LEMMA DispatchKeeps ==
    ASSUME CtxInv, NEW num \in Tasks, Dispatch(num)
    PROVE  CtxInv'
  <1>1. /\ cur = 0 /\ num \in started /\ num # 0 /\ SwitchTo(num, kst', k_sp')
        /\ UNCHANGED <<k_sp, u_sp, kst, ust, started, program, execs, regs_out, call>>
    BY CtxFacts DEF Dispatch
  <1>2. \A t : Untouched(t)
    BY <1>1 DEF Untouched
  <1>3. Parked(num)
    BY <1>1 DEF CtxInv
  <1>4. Parked(num)'
    BY <1>2, <1>3, StaysParked
  <1>5. execs' \in [Tasks -> 0 .. MaxExecs]
    BY <1>1 DEF CtxInv, CtxTypes, CtxTypeOK
  <1>6. TaskRuns' /\ IsRegs(regs)' /\ esp' \in 0 .. KWords /\ cur' = num
    BY <1>1, <1>4, <1>5, SwitchRuns
  <1>7. CtxTypes'
    BY <1>1, <1>6 DEF CtxInv, CtxTypes, CtxTypeOK
  <1>8. \A t \in started' \ {cur'} : t \in started \ {cur} /\ Untouched(t)
    BY <1>1, <1>2, CtxFacts
  <1> QED
    BY <1>6, <1>7, <1>8, RestStays

\* A step of the running task that moves only its place, pointer and registers.
LEMMA PlaceMoves ==
    ASSUME CtxInv,
           UNCHANGED <<cur, k_sp, u_sp, kst, ust, started, program, execs, regs_out, call>>,
           TaskRuns', IsRegs(regs)', esp' \in 0 .. KWords
    PROVE  CtxInv'
  <1>1. CtxTypes'
    BY DEF CtxInv, CtxTypes, CtxTypeOK
  <1>2. \A t \in started' \ {cur'} : t \in started \ {cur} /\ Untouched(t)
    BY DEF Untouched
  <1> QED
    BY <1>1, <1>2, RestStays

LEMMA ResumeKeeps ==
    ASSUME CtxInv, Resume
    PROVE  CtxInv'
  <1>1. /\ pc = "schedule" /\ pc' = "dispatch" /\ esp' = esp - 3
        /\ UNCHANGED <<cur, regs, k_sp, u_sp, kst, ust, started, program, execs, regs_out, call>>
    BY DEF Resume
  <1>2. InSchedule /\ cur \in started /\ cur \in Tasks
    BY <1>1, RunsWhere, CtxFacts
  <1>3. Base(cur) \in Nat /\ Base(cur) + 15 <= KWords /\ KWords \in Nat
    BY <1>2, CtxFacts
  <1>4. Base(cur)' = Base(cur) /\ InCall(cur)'
    BY <1>1, <1>2 DEF Base, InCall, InSchedule
  <1>5. esp' = Base(cur) + 6 /\ esp' \in 0 .. KWords
    BY <1>1, <1>2, <1>3 DEF InSchedule
  <1>6. InDispatch'
    BY <1>1, <1>2, <1>4, <1>5 DEF InSchedule, InDispatch, CallAt
  <1>7. IsRegs(regs)'
    BY <1>1 DEF CtxInv, CtxTypes, IsRegs
  <1> QED
    BY <1>1, <1>2, <1>5, <1>6, <1>7, PlaceMoves DEF TaskRuns

LEMMA DispatchReturnsKeeps ==
    ASSUME CtxInv, DispatchReturns
    PROVE  CtxInv'
  <1>1. /\ pc = "dispatch" /\ pc' = kst[cur][esp][1] /\ esp' = esp - 1
        /\ UNCHANGED <<cur, regs, k_sp, u_sp, kst, ust, started, program, execs, regs_out, call>>
    BY DEF DispatchReturns
  <1>2. InDispatch /\ cur \in started /\ cur \in Tasks
    BY <1>1, RunsWhere, CtxFacts
  <1>3. Base(cur) \in Nat /\ Base(cur) + 15 <= KWords /\ KWords \in Nat
    BY <1>2, CtxFacts
  <1>4. Base(cur)' = Base(cur) /\ InCall(cur)'
    BY <1>1, <1>2 DEF Base, InCall, InDispatch
  <1>5. esp' = Base(cur) + 5 /\ esp' \in 0 .. KWords
    BY <1>1, <1>2, <1>3 DEF InDispatch
  <1>6. pc' = "sys_enter"
    BY <1>1, <1>2 DEF InDispatch, CallAt
  <1>7. Leaving'
    BY <1>1, <1>2, <1>4, <1>5, <1>6 DEF InDispatch, Leaving
  <1>8. IsRegs(regs)'
    BY <1>1 DEF CtxInv, CtxTypes, IsRegs
  <1> QED
    BY <1>1, <1>2, <1>5, <1>7, <1>8, PlaceMoves DEF TaskRuns

LEMMA DropArgumentsKeeps ==
    ASSUME CtxInv, DropArguments
    PROVE  CtxInv'
  <1>1. /\ pc = "sys_enter" /\ pc' = "sys_return" /\ esp' = esp - 5
        /\ UNCHANGED <<cur, regs, k_sp, u_sp, kst, ust, started, program, execs, regs_out, call>>
    BY DEF DropArguments
  <1>2. Leaving /\ esp = Base(cur) + 5 /\ cur \in started /\ cur \in Tasks
    BY <1>1, RunsWhere, CtxFacts
  <1>3. Base(cur) \in Nat /\ Base(cur) + 15 <= KWords /\ KWords \in Nat
    BY <1>2, CtxFacts
  <1>4. Base(cur)' = Base(cur) /\ InCall(cur)'
    BY <1>1, <1>2 DEF Base, InCall, Leaving
  <1>5. esp' = Base(cur) /\ esp' \in 0 .. KWords
    BY <1>1, <1>2, <1>3
  <1>6. Leaving'
    BY <1>1, <1>2, <1>4, <1>5 DEF Leaving
  <1>7. IsRegs(regs)'
    BY <1>1 DEF CtxInv, CtxTypes, IsRegs
  <1> QED
    BY <1>1, <1>2, <1>5, <1>6, <1>7, PlaceMoves DEF TaskRuns

\* A step of the running task that touches no other task.
LEMMA OthersStay ==
    ASSUME CtxInv, CtxTypes', TaskRuns', cur' = cur, started' = started,
           \A t \in started \ {cur} : Untouched(t)
    PROVE  CtxInv'
  BY RestStays

LEMMA SysEnterKeeps ==
    ASSUME CtxInv, sys_enter
    PROVE  CtxInv'
  <1>1. PICK num : num = cur
    OBVIOUS
  <1>2. pc = "user" /\ InProgram /\ num \in started /\ num \in Tasks
    BY <1>1, RunsWhere, CtxFacts DEF sys_enter
  <1>3. PICK low : low = Base(num)
    OBVIOUS
  <1>4. /\ low \in Nat /\ low + 15 <= KWords /\ KWords \in Nat /\ k_sp[num] = low
        /\ DOMAIN kst[num] = 1 .. KWords /\ ust[num] = <<>>
    BY <1>1, <1>2, <1>3, CtxFacts DEF InProgram
  <1>5. PICK u : u = UserFrame(num)
    OBVIOUS
  <1>6. <<>> \o UserFrame(num) = UserFrame(num)
    BY DEF UserFrame
  <1>7. /\ ust' = [ust EXCEPT ![num] = u] /\ u_sp' = [u_sp EXCEPT ![num] = Len(u)]
        /\ kst' = [kst EXCEPT ![num] = SysEnterArgs(u, low)]
        /\ esp' = low + 6
        /\ call' = [call EXCEPT ![num] = [ebp |-> Regs("u", num).ebp, depth |-> Len(<<>>)]]
        /\ pc' = "dispatch" /\ regs' = Regs("k", num)
        /\ UNCHANGED <<cur, k_sp, started, program, execs, regs_out>>
    <2>1. ust[num] \o <<<<"user", 0>>, <<"a4", num>>, <<"a3", num>>, <<"a2", num>>,
                      <<"a1", num>>, <<"nr", num>>, Regs("u", num).eflags, Regs("u", num).ebp,
                      Regs("u", num).edi>> = u
      BY <1>4, <1>5, <1>6 DEF UserFrame
    <2> QED
      BY <1>1, <1>4, <2>1 DEF sys_enter
  <1>8. /\ Len(u) = 9 /\ u[9 - 7] = <<"a4", num>> /\ u[9 - 6] = <<"a3", num>>
        /\ u[9 - 5] = <<"a2", num>> /\ u[9 - 4] = <<"a1", num>> /\ u[9 - 3] = <<"nr", num>>
    BY <1>5 DEF UserFrame
  <1>9. PICK s : s = SysEnterArgs(u, low)
    OBVIOUS
  <1>10. s = Poke(kst[num], low, <<<<"a4", num>>, <<"a3", num>>, <<"a2", num>>, <<"a1", num>>,
                              <<"nr", num>>, <<"sys_enter", 0>>>>)
    BY <1>1, <1>8, <1>9 DEF SysEnterArgs
  <1>11. low + 6 <= KWords
    BY <1>4
  <1>12. DOMAIN s = 1 .. KWords /\ CallAt(s, low)
    <2>1. PICK st : st = kst[num]
      OBVIOUS
    <2>2. DOMAIN st = 1 .. KWords
      BY <1>4, <2>1
    <2> QED
      BY <1>4, <1>10, <1>11, <2>1, <2>2, CallPushed
  <1>13. /\ kst'[num] = s /\ ust'[num] = u /\ u_sp'[num] = 9 /\ cur' = num
         /\ call'[num] = [ebp |-> Regs("u", num).ebp, depth |-> 0]
    BY <1>1, <1>2, <1>7, <1>8, <1>9 DEF CtxInv, CtxTypes
  <1>14. InCall(num)'
    BY <1>2, <1>5, <1>13 DEF InCall
  <1>15. InDispatch'
    <2>1. Base(num)' = low
      BY <1>3, <1>7 DEF Base
    <2>2. regs'.eflags = EFLAGS
      BY <1>7, RegsAre
    <2> QED
      BY <1>7, <1>12, <1>13, <1>14, <2>1, <2>2 DEF InDispatch
  <1>16. TaskRuns'
    BY <1>1, <1>2, <1>7, <1>15 DEF TaskRuns
  <1>17. CtxTypes'
    <2>1. /\ CtxTypeOK' /\ DOMAIN kst' = Tasks /\ DOMAIN ust' = Tasks /\ DOMAIN u_sp' = Tasks
          /\ DOMAIN regs_out' = Tasks /\ DOMAIN call' = Tasks
      BY <1>4, <1>7 DEF CtxInv, CtxTypes, CtxTypeOK
    <2>2. \A t \in Tasks : DOMAIN kst'[t] = 1 .. KWords
      BY <1>2, <1>7, <1>9, <1>12 DEF CtxInv, CtxTypes
    <2>3. IsRegs(regs)'
      BY <1>7, RegsAre DEF IsRegs
    <2> QED
      BY <2>1, <2>2, <2>3 DEF CtxTypes
  <1>18. \A t \in started \ {cur} : Untouched(t)
    BY <1>1, <1>7 DEF Untouched, CtxInv, CtxTypes
  <1> QED
    BY <1>1, <1>7, <1>16, <1>17, <1>18, OthersStay

LEMMA TrampolineKeeps ==
    ASSUME CtxInv, task_trampoline
    PROVE  CtxInv'
  <1>1. PICK num, low : num = cur /\ low = Base(cur)
    OBVIOUS
  <1>2. pc = "task_trampoline" /\ Trampolining /\ num \in started /\ num \in Tasks
    BY <1>1, RunsWhere, CtxFacts DEF task_trampoline
  <1>3. /\ low \in Nat /\ low + 15 <= KWords /\ KWords \in Nat /\ esp = low - 10 /\ low >= 16
    BY <1>1, <1>2, CtxFacts DEF Trampolining
  <1>4. /\ kst[num][low - 16 + 1] = <<"envc", program[num].envc>>
        /\ kst[num][low - 16 + 4] = <<"argc", program[num].argc>>
    BY <1>1, <1>2 DEF Trampolining, ArgumentsAt
  <1>5. esp - 2 = low - 16 + 4 /\ esp - 5 = low - 16 + 1 /\ esp + 10 = low
    BY <1>3
  <1>6. PICK u : u = StartStack(program[num].argc, program[num].envc)
    OBVIOUS
  <1>7. kst[num][esp - 2][2] = program[num].argc /\ kst[num][esp - 5][2] = program[num].envc
    BY <1>4, <1>5
  <1>8. /\ ust' = [ust EXCEPT ![num] = u] /\ k_sp' = [k_sp EXCEPT ![num] = low] /\ pc' = "_start"
        /\ UNCHANGED <<cur, esp, regs, u_sp, kst, started, program, execs, regs_out, call>>
    BY <1>1, <1>5, <1>6, <1>7 DEF task_trampoline
  <1>9. CtxTypes'
    <2>0. low \in 0 .. KWords /\ k_sp \in [Tasks -> 0 .. KWords]
      BY <1>3 DEF CtxInv, CtxTypes, CtxTypeOK
    <2>1. k_sp' \in [Tasks -> 0 .. KWords]
      BY <1>8, <2>0
    <2>2. CtxTypeOK' /\ DOMAIN ust' = Tasks
      BY <1>8, <2>1 DEF CtxInv, CtxTypes, CtxTypeOK
    <2> QED
      BY <1>8, <2>2 DEF CtxInv, CtxTypes, IsRegs
  <1>10. /\ ust'[num] = u /\ k_sp'[num] = low /\ Base(num)' = low
         /\ program'[num] = program[num] /\ cur' = num
    BY <1>1, <1>2, <1>8 DEF CtxInv, CtxTypes, CtxTypeOK, Base
  <1>11. TaskRuns'
    BY <1>2, <1>6, <1>8, <1>10 DEF TaskRuns, Starting
  <1>12. \A t \in started \ {cur} : Untouched(t)
    BY <1>1, <1>8 DEF Untouched, CtxInv, CtxTypes, CtxTypeOK
  <1> QED
    BY <1>8, <1>9, <1>11, <1>12, OthersStay

LEMMA StartKeeps ==
    ASSUME CtxInv, _start
    PROVE  CtxInv'
  <1>1. PICK num, low : num = cur /\ low = Base(cur)
    OBVIOUS
  <1>2. pc = "_start" /\ Starting /\ num \in started /\ num \in Tasks
    BY <1>1, RunsWhere, CtxFacts DEF _start
  <1>3. /\ ust' = [ust EXCEPT ![num] = <<>>] /\ pc' = "user"
        /\ call' = [call EXCEPT ![num] = [ebp |-> regs.ebp, depth |-> 0]]
        /\ UNCHANGED <<cur, esp, regs, k_sp, u_sp, kst, started, program, execs, regs_out>>
    BY <1>1 DEF _start
  <1>4. CtxTypes'
    BY <1>3 DEF CtxInv, CtxTypes, CtxTypeOK, IsRegs
  <1>5. /\ ust'[num] = <<>> /\ k_sp'[num] = low /\ Base(num)' = low /\ cur' = num
        /\ call'[num] = [ebp |-> regs'.ebp, depth |-> 0]
    BY <1>1, <1>2, <1>3 DEF CtxInv, CtxTypes, Base, Starting
  <1>6. TaskRuns'
    BY <1>2, <1>3, <1>5 DEF TaskRuns, InProgram
  <1>7. \A t \in started \ {cur} : Untouched(t)
    BY <1>1, <1>3 DEF Untouched, CtxInv, CtxTypes
  <1> QED
    BY <1>3, <1>4, <1>6, <1>7, OthersStay

LEMMA SysReturnKeeps ==
    ASSUME CtxInv, sys_return
    PROVE  CtxInv'
  <1>1. PICK num, low, old : num = cur /\ low = Base(cur) /\ old = ust[cur]
    OBVIOUS
  <1>2. pc = "sys_return" /\ Leaving /\ esp = low /\ num \in started /\ num \in Tasks
    BY <1>1, RunsWhere, CtxFacts DEF sys_return
  <1>3. /\ low \in Nat /\ low + 15 <= KWords /\ KWords \in Nat
    BY <1>1, <1>2, CtxFacts
  <1>4. PICK m \in Tasks : /\ old = UserFrame(m) /\ u_sp[num] = 9
                          /\ call[num] = [ebp |-> Regs("u", m).ebp, depth |-> 0]
    BY <1>1, <1>2 DEF Leaving, InCall
  <1>5. PICK u : u = SubSeq(old, 1, 9)
    OBVIOUS
  <1>6. /\ Len(u) = 9 /\ u[9] = Regs("u", m).edi /\ u[9 - 1] = Regs("u", m).ebp
        /\ u[9 - 2] = Regs("u", m).eflags /\ u[9 - 8] = <<"user", 0>>
        /\ SubSeq(u, 1, 9 - 9) = <<>>
    BY <1>4, <1>5 DEF UserFrame
  <1>7. /\ k_sp' = [k_sp EXCEPT ![num] = low]
        /\ regs' = [regs EXCEPT !.edi = u[9], !.ebp = u[9 - 1], !.eflags = u[9 - 2]]
        /\ pc' = u[9 - 8][1]
        /\ ust' = [ust EXCEPT ![num] = SubSeq(u, 1, 9 - 9)]
        /\ UNCHANGED <<cur, esp, u_sp, kst, started, program, execs, regs_out, call>>
    BY <1>1, <1>2, <1>4, <1>5, <1>6 DEF sys_return
  <1>8. /\ k_sp' = [k_sp EXCEPT ![num] = low] /\ pc' = "user" /\ ust' = [ust EXCEPT ![num] = <<>>]
    <2>1. PICK w, v : w = u[9 - 8] /\ v = SubSeq(u, 1, 9 - 9)
      OBVIOUS
    <2>2. w = <<"user", 0>> /\ v = <<>>
      BY <1>6, <2>1
    <2>3. pc' = w[1] /\ ust' = [ust EXCEPT ![num] = v]
      BY <1>7, <2>1
    <2> QED
      BY <1>7, <2>2, <2>3
  <1>9. IsRegs(regs)' /\ regs'.ebp = Regs("u", m).ebp
    BY <1>6, <1>7 DEF CtxInv, CtxTypes, IsRegs
  <1>10. CtxTypes'
    <2>1. low \in 0 .. KWords /\ k_sp \in [Tasks -> 0 .. KWords]
      BY <1>3 DEF CtxInv, CtxTypes, CtxTypeOK
    <2>2. k_sp' \in [Tasks -> 0 .. KWords]
      BY <1>8, <2>1
    <2>3. CtxTypeOK' /\ DOMAIN ust' = Tasks
      BY <1>7, <1>8, <2>2 DEF CtxInv, CtxTypes, CtxTypeOK
    <2> QED
      BY <1>7, <1>9, <2>3 DEF CtxInv, CtxTypes
  <1>11. /\ ust'[num] = <<>> /\ k_sp'[num] = low /\ Base(num)' = low
         /\ call'[num] = call[num] /\ cur' = num
    BY <1>1, <1>2, <1>7, <1>8 DEF CtxInv, CtxTypes, CtxTypeOK, Base
  <1>12. TaskRuns'
    BY <1>2, <1>4, <1>7, <1>8, <1>9, <1>11 DEF TaskRuns, InProgram
  <1>13. \A t \in started \ {cur} : Untouched(t)
    BY <1>1, <1>7, <1>8 DEF Untouched, CtxInv, CtxTypes, CtxTypeOK
  <1> QED
    BY <1>7, <1>10, <1>12, <1>13, OthersStay

LEMMA CtxSwitchKeeps ==
    ASSUME CtxInv, NEW num \in Tasks, ctx_switch(num)
    PROVE  CtxInv'
  <1>1. PICK c, low, rs, st : c = cur /\ low = Base(cur) /\ rs = regs /\ st = kst[cur]
    OBVIOUS
  <1>2. pc \in {"dispatch", "schedule"} /\ num \in started \ {c}
    BY <1>1 DEF ctx_switch
  <1>3. c \in started /\ c \in Tasks
    BY <1>1, <1>2, CtxFacts
  <1>4. /\ low \in Nat /\ low + 15 <= KWords /\ KWords \in Nat /\ DOMAIN st = 1 .. KWords
    BY <1>1, <1>3, CtxFacts
  <1>5. /\ CallAt(st, low) /\ InCall(c) /\ rs.eflags = EFLAGS
        /\ (IF pc = "dispatch" THEN esp ELSE esp - 3) = low + 6
    <2>1. CASE pc = "dispatch"
      BY <1>1, <2>1, RunsWhere DEF InDispatch
    <2>2. CASE pc = "schedule"
      <3>1. InSchedule
        BY <2>2, RunsWhere
      <3>2. esp = low + 9 /\ esp - 3 = low + 6
        BY <1>1, <1>4, <3>1 DEF InSchedule
      <3> QED
        BY <1>1, <2>2, <3>1, <3>2 DEF InSchedule
    <2> QED
      BY <1>2, <2>1, <2>2
  <1>6. Len(SwitchFrame(rs)) = 9 /\ low + 6 + 9 = low + 15
    BY <1>4 DEF SwitchFrame
  <1>7. PICK s : s = Poke(st, low + 6, SwitchFrame(rs))
    OBVIOUS
  <1>8. /\ kst' = [kst EXCEPT ![c] = s] /\ k_sp' = [k_sp EXCEPT ![c] = low + 15]
        /\ SwitchTo(num, kst', k_sp')
        /\ regs_out' = [regs_out EXCEPT ![c] = rs]
        /\ UNCHANGED <<u_sp, ust, started, program, execs, call>>
    BY <1>1, <1>5, <1>6, <1>7 DEF ctx_switch
  <1>9. DOMAIN s = 1 .. KWords /\ CallAt(s, low) /\ SwitchAt(s, low + 6, rs)
    BY <1>4, <1>5, <1>7, SwitchPushed
  <1>10. kst'[c] = s /\ k_sp'[c] = low + 15 /\ regs_out'[c] = rs /\ Base(c)' = low
    BY <1>1, <1>3, <1>8 DEF CtxInv, CtxTypes, CtxTypeOK, Base
  <1>11. Parked(c)'
    <2>1. InCall(c)'
      BY <1>5, <1>8, StaysInCall
    <2>2. IsRegs(rs)
      BY <1>1 DEF CtxInv, CtxTypes
    <2>3. IsRegs(regs_out'[c]) /\ regs_out'[c].eflags = EFLAGS
      BY <1>5, <1>10, <2>2
    <2>4. SwitchedOut(c)'
      BY <1>9, <1>10, <2>1, <2>3 DEF SwitchedOut
    <2> QED
      BY <2>4 DEF Parked
  <1>12. \A t \in started \ {c} : Untouched(t)
    BY <1>8 DEF Untouched, CtxInv, CtxTypes, CtxTypeOK
  <1>13. Parked(num)
    BY <1>1, <1>2 DEF CtxInv
  <1>14. Parked(num)'
    BY <1>2, <1>12, <1>13, StaysParked
  <1>15. execs' \in [Tasks -> 0 .. MaxExecs] /\ num \in started'
    BY <1>2, <1>8 DEF CtxInv, CtxTypes, CtxTypeOK
  <1>16. TaskRuns' /\ IsRegs(regs)' /\ esp' \in 0 .. KWords /\ cur' = num
    BY <1>8, <1>14, <1>15, SwitchRuns
  <1>17. CtxTypes'
    <2>1. low + 15 \in 0 .. KWords /\ k_sp \in [Tasks -> 0 .. KWords]
      BY <1>4 DEF CtxInv, CtxTypes, CtxTypeOK
    <2>2. k_sp' \in [Tasks -> 0 .. KWords]
      BY <1>8, <2>1
    <2>3. CtxTypeOK'
      BY <1>8, <1>16, <2>2 DEF CtxInv, CtxTypes, CtxTypeOK
    <2>4. DOMAIN kst' = Tasks /\ \A t \in Tasks : DOMAIN kst'[t] = 1 .. KWords
      BY <1>8, <1>9 DEF CtxInv, CtxTypes
    <2>5. /\ DOMAIN ust' = Tasks /\ DOMAIN u_sp' = Tasks
          /\ DOMAIN regs_out' = Tasks /\ DOMAIN call' = Tasks
      BY <1>8 DEF CtxInv, CtxTypes
    <2> QED
      BY <1>16, <2>3, <2>4, <2>5 DEF CtxTypes
  <1>18. ASSUME NEW t \in started' \ {cur'}
         PROVE  (t \in started \ {cur} /\ Untouched(t)) \/ Parked(t)'
    <2>1. CASE t = c
      BY <1>11, <2>1
    <2>2. CASE t # c
      BY <1>1, <1>8, <1>12, <2>2
    <2> QED
      BY <2>1, <2>2
  <1> QED
    BY <1>16, <1>17, <1>18, RestStays

LEMMA ForkKeeps ==
    ASSUME CtxInv, NEW c \in Tasks, sched_fork(c)
    PROVE  CtxInv'
  <1>1. PICK num : num = cur
    OBVIOUS
  <1>2. pc = "dispatch" /\ c \in Tasks \ started
    BY DEF sched_fork
  <1>3. InDispatch /\ num \in started /\ num \in Tasks /\ num # c
    BY <1>1, <1>2, RunsWhere, CtxFacts
  <1>4. DOMAIN kst[c] = 1 .. KWords /\ KWords \in Nat /\ 6 <= KWords /\ MaxExecs \in Nat
    BY CtxFacts, CtxAssumption
  <1>5. Len(ForkFrame) = 6
    BY DEF ForkFrame
  <1>6. PICK s : s = Poke(kst[c], 0, ForkFrame)
    OBVIOUS
  <1>7. DOMAIN s = 1 .. KWords /\ ForkAt(s)
    BY <1>4, <1>6, ForkPushed
  <1>8. /\ started' = started \cup {c}
        /\ kst' = [kst EXCEPT ![c] = s] /\ k_sp' = [k_sp EXCEPT ![c] = 6]
        /\ u_sp' = [u_sp EXCEPT ![c] = u_sp[num]] /\ ust' = [ust EXCEPT ![c] = ust[num]]
        /\ program' = [program EXCEPT ![c] = program[num]]
        /\ execs' = [execs EXCEPT ![c] = 0] /\ call' = [call EXCEPT ![c] = call[num]]
        /\ UNCHANGED <<cur, pc, esp, regs, regs_out>>
    BY <1>1, <1>5, <1>6 DEF sched_fork
  <1>9. /\ kst'[c] = s /\ k_sp'[c] = 6 /\ u_sp'[c] = u_sp[num] /\ ust'[c] = ust[num]
        /\ execs'[c] = 0 /\ call'[c] = call[num]
    BY <1>8 DEF CtxInv, CtxTypes, CtxTypeOK
  <1>10. InCall(num)
    BY <1>1, <1>3 DEF InDispatch
  <1>11. Parked(c)'
    <2>1. InCall(c)'
      BY <1>9, <1>10, StaysInCall
    <2>2. Forked(c)'
      BY <1>7, <1>9, <2>1 DEF Forked
    <2> QED
      BY <2>2 DEF Parked
  <1>12. \A t \in Tasks \ {c} : Untouched(t)
    BY <1>8 DEF Untouched, CtxInv, CtxTypes, CtxTypeOK
  <1>13. TaskRuns'
    <2>1. Untouched(num)
      BY <1>3, <1>12
    <2>2. InCall(num)'
      BY <1>10, <2>1, StaysInCall DEF Untouched
    <2>3. Base(num)' = Base(num)
      BY <2>1 DEF Untouched, Base
    <2>4. InDispatch'
      BY <1>1, <1>3, <1>8, <2>1, <2>2, <2>3 DEF InDispatch, CallAt, Untouched
    <2> QED
      BY <1>1, <1>3, <1>8, <2>4 DEF TaskRuns
  <1>14. CtxTypes'
    <2>1. /\ k_sp' \in [Tasks -> 0 .. KWords] /\ execs' \in [Tasks -> 0 .. MaxExecs]
      BY <1>4, <1>8 DEF CtxInv, CtxTypes, CtxTypeOK
    <2>2. program' \in [Tasks -> Programs \cup {NoProgram}]
      BY <1>3, <1>8 DEF CtxInv, CtxTypes, CtxTypeOK
    <2>3. CtxTypeOK'
      BY <1>8, <2>1, <2>2 DEF CtxInv, CtxTypes, CtxTypeOK
    <2>4. DOMAIN kst' = Tasks /\ \A t \in Tasks : DOMAIN kst'[t] = 1 .. KWords
      BY <1>7, <1>8 DEF CtxInv, CtxTypes
    <2>5. /\ DOMAIN ust' = Tasks /\ DOMAIN u_sp' = Tasks
          /\ DOMAIN regs_out' = Tasks /\ DOMAIN call' = Tasks
      BY <1>8 DEF CtxInv, CtxTypes
    <2> QED
      BY <1>8, <2>3, <2>4, <2>5 DEF CtxInv, CtxTypes, IsRegs
  <1>15. ASSUME NEW t \in started' \ {cur'}
         PROVE  (t \in started \ {cur} /\ Untouched(t)) \/ Parked(t)'
    <2>1. CASE t = c
      BY <1>11, <2>1
    <2>2. CASE t # c
      BY <1>8, <1>12, <2>2, CtxFacts
    <2> QED
      BY <2>1, <2>2
  <1> QED
    BY <1>13, <1>14, <1>15, RestStays

LEMMA ExecveKeeps ==
    ASSUME CtxInv, NEW p \in Programs, sched_execve(p)
    PROVE  CtxInv'
  <1>1. PICK num, low, st, e : num = cur /\ low = Base(cur) /\ st = kst[cur] /\ e = execs[cur]
    OBVIOUS
  <1>2. pc = "dispatch" /\ e < MaxExecs /\ k_sp[num] = esp - 6
    BY <1>1 DEF sched_execve
  <1>3. InDispatch /\ num \in started /\ num \in Tasks
    BY <1>1, <1>2, RunsWhere, CtxFacts
  <1>4. /\ low \in Nat /\ low + 15 <= KWords /\ KWords \in Nat /\ DOMAIN st = 1 .. KWords
        /\ e \in 0 .. MaxExecs /\ MaxExecs \in Nat /\ low = 16 * e
    BY <1>1, <1>3, CtxFacts
  <1>5. k_sp[num] = low /\ low + 12 <= KWords
    <2>1. esp = low + 6
      BY <1>1, <1>3 DEF InDispatch
    <2> QED
      BY <1>2, <1>4, <2>1
  <1>6. Len(TrampolineFrame(p)) = 12
    BY DEF TrampolineFrame
  <1>7. PICK s : s = Poke(st, low, TrampolineFrame(p))
    OBVIOUS
  <1>8. DOMAIN s = 1 .. KWords /\ TrampolineAt(s, low, p)
    BY <1>4, <1>5, <1>7, TrampolinePushed
  <1>9. /\ kst' = [kst EXCEPT ![num] = s] /\ k_sp' = [k_sp EXCEPT ![num] = low + 12]
        /\ u_sp' = [u_sp EXCEPT ![num] = 0] /\ program' = [program EXCEPT ![num] = p]
        /\ execs' = [execs EXCEPT ![num] = e + 1] /\ cur' = 0 /\ pc' = "none"
        /\ UNCHANGED <<esp, regs, ust, started, regs_out, call>>
    BY <1>1, <1>5, <1>6, <1>7 DEF sched_execve
  <1>10. kst'[num] = s /\ k_sp'[num] = low + 12 /\ program'[num] = p /\ execs'[num] = e + 1
    BY <1>3, <1>9 DEF CtxInv, CtxTypes, CtxTypeOK
  <1>11. Parked(num)'
    <2>1. Base(num)' = low + 16 /\ (low + 16) - 4 = low + 12 /\ (low + 16) - 16 = low /\ e + 1 >= 1
      BY <1>4, <1>10 DEF Base
    <2>2. NewProgram(num)'
      BY <1>8, <1>10, <2>1 DEF NewProgram
    <2> QED
      BY <2>2 DEF Parked
  <1>12. \A t \in started \ {num} : Untouched(t)
    BY <1>9 DEF Untouched, CtxInv, CtxTypes, CtxTypeOK
  <1>13. CtxTypes'
    <2>1. low + 12 \in 0 .. KWords /\ e + 1 \in 0 .. MaxExecs
      BY <1>2, <1>4, <1>5
    <2>2. /\ k_sp' \in [Tasks -> 0 .. KWords] /\ execs' \in [Tasks -> 0 .. MaxExecs]
      BY <1>9, <2>1 DEF CtxInv, CtxTypes, CtxTypeOK
    <2>3. program' \in [Tasks -> Programs \cup {NoProgram}]
      BY <1>9 DEF CtxInv, CtxTypes, CtxTypeOK
    <2>4. CtxTypeOK'
      BY <1>9, <2>2, <2>3 DEF CtxInv, CtxTypes, CtxTypeOK
    <2>5. DOMAIN kst' = Tasks /\ \A t \in Tasks : DOMAIN kst'[t] = 1 .. KWords
      BY <1>8, <1>9 DEF CtxInv, CtxTypes
    <2>6. /\ DOMAIN ust' = Tasks /\ DOMAIN u_sp' = Tasks
          /\ DOMAIN regs_out' = Tasks /\ DOMAIN call' = Tasks
      BY <1>9 DEF CtxInv, CtxTypes
    <2> QED
      BY <1>9, <2>4, <2>5, <2>6 DEF CtxInv, CtxTypes, IsRegs
  <1>14. ASSUME NEW t \in started' \ {cur'}
         PROVE  (t \in started \ {cur} /\ Untouched(t)) \/ Parked(t)'
    <2>1. CASE t = num
      BY <1>11, <2>1
    <2>2. CASE t # num
      BY <1>1, <1>9, <1>12, <2>2
    <2> QED
      BY <2>1, <2>2
  <1> QED
    BY <1>9, <1>13, <1>14, RestStays

LEMMA ExitKeeps ==
    ASSUME CtxInv, sched_exit
    PROVE  CtxInv'
  <1>1. /\ started' = started \ {cur} /\ cur' = 0 /\ pc' = "none"
        /\ UNCHANGED <<esp, regs, k_sp, u_sp, kst, ust, program, execs, regs_out, call>>
    BY DEF sched_exit
  <1>2. CtxTypes'
    BY <1>1 DEF CtxInv, CtxTypes, CtxTypeOK, IsRegs
  <1>3. \A t \in started' \ {cur'} : t \in started \ {cur} /\ Untouched(t)
    BY <1>1 DEF Untouched
  <1> QED
    BY <1>1, <1>2, <1>3, RestStays

LEMMA CtxStutters ==
    ASSUME CtxInv, UNCHANGED ctxVars
    PROVE  CtxInv'
  <1>1. \A t : Untouched(t)
    BY DEF ctxVars, Untouched
  <1>2. UNCHANGED <<cur, pc, esp, regs, k_sp, u_sp, kst, ust, started, program, execs,
                   regs_out, call>>
    BY DEF ctxVars
  <1>3. CtxTypes'
    <2>1. CtxTypes
      BY DEF CtxInv
    <2> QED
      BY <1>2, <2>1 DEF CtxTypes, CtxTypeOK
  <1>4. (cur' = 0 /\ pc' = "none") \/ TaskRuns'
    <2>1. (cur = 0 /\ pc = "none") \/ TaskRuns
      BY DEF CtxInv
    <2>2. /\ Trampolining' = Trampolining /\ Starting' = Starting
          /\ InProgram' = InProgram /\ InDispatch' = InDispatch
      BY <1>2 DEF Trampolining, Starting, InProgram, InDispatch, InCall, Base, CallAt, ArgumentsAt
    <2>3. InSchedule' = InSchedule /\ Leaving' = Leaving
      BY <1>2 DEF InSchedule, Leaving, InCall, Base, CallAt, ArgumentsAt
    <2>4. TaskRuns' = TaskRuns
      BY <1>2, <2>2, <2>3 DEF TaskRuns
    <2> QED
      BY <1>2, <2>1, <2>4
  <1>5. \A t \in started' \ {cur'} : t \in started \ {cur} /\ Untouched(t)
    BY <1>1, <1>2
  <1> QED
    BY <1>3, <1>4, <1>5, RestStays

LEMMA FramesFollow ==
    ASSUME CtxInv
    PROVE  FramesCorrect
  <1>1. CtxTypeOK /\ RetTakesReturnAddress
    BY RunsWhere DEF CtxInv, CtxTypes, RetTakesReturnAddress
  <1>2. RegistersSurvive /\ FlagsMeetPopfd
    BY RunsWhere DEF RegistersSurvive, FlagsMeetPopfd, InSchedule, Leaving
  <1>3. KernelStackReturns
    BY RunsWhere DEF KernelStackReturns, InProgram, Base
  <1>4. ProgramContinues
    <2> SUFFICES ASSUME pc = "user"
                 PROVE  regs.ebp = call[cur].ebp /\ Len(ust[cur]) = call[cur].depth
      BY DEF ProgramContinues
    <2>1. ust[cur] = <<>> /\ call[cur].ebp = regs.ebp /\ call[cur].depth = 0
      BY RunsWhere DEF InProgram
    <2>2. Len(<<>>) = 0
      OBVIOUS
    <2> QED
      BY <2>1, <2>2
  <1>5. DispatcherSeesArguments
    <2> SUFFICES ASSUME pc = "dispatch"
                 PROVE  [j \in 1 .. 5 |-> kst[cur][esp - j][1]] = <<"nr", "a1", "a2", "a3", "a4">>
      BY DEF DispatcherSeesArguments
    <2>1. PICK low, st : low = Base(cur) /\ st = kst[cur]
      OBVIOUS
    <2>2. esp = low + 6 /\ CallAt(st, low) /\ low \in Nat
      BY <2>1, RunsWhere, CtxFacts DEF InDispatch
    <2>3. /\ esp - 1 = low + 5 /\ esp - 2 = low + 4 /\ esp - 3 = low + 3 /\ esp - 4 = low + 2
          /\ esp - 5 = low + 1
      BY <2>2
    <2>4. /\ st[esp - 1][1] = "nr" /\ st[esp - 2][1] = "a1" /\ st[esp - 3][1] = "a2"
          /\ st[esp - 4][1] = "a3" /\ st[esp - 5][1] = "a4"
      BY <2>2, <2>3 DEF CallAt
    <2> DEFINE f == [j \in 1 .. 5 |-> st[esp - j][1]]
               g == <<"nr", "a1", "a2", "a3", "a4">>
    <2>5. /\ f[1] = st[esp - 1][1] /\ f[2] = st[esp - 2][1] /\ f[3] = st[esp - 3][1]
          /\ f[4] = st[esp - 4][1] /\ f[5] = st[esp - 5][1]
      OBVIOUS
    <2>6. /\ g[1] = "nr" /\ g[2] = "a1" /\ g[3] = "a2" /\ g[4] = "a3" /\ g[5] = "a4"
      OBVIOUS
    <2>7. DOMAIN f = 1 .. 5 /\ DOMAIN g = 1 .. 5
      OBVIOUS
    <2>8. f = [j \in 1 .. 5 |-> f[j]] /\ g = [j \in 1 .. 5 |-> g[j]]
      OBVIOUS
    <2> HIDE DEF f, g
    <2>9. \A j \in 1 .. 5 : f[j] = g[j]
      BY <2>4, <2>5, <2>6
    <2>10. f = g
      BY <2>7, <2>8, <2>9
    <2> QED
      BY <2>1, <2>10 DEF f, g
  <1>6. ProgramSeesArguments
    <2> SUFFICES ASSUME pc = "_start"
                 PROVE  LET seen == crt0(ust[cur])
                            p == program[cur]
                        IN  /\ seen.argc = p.argc
                            /\ seen.argv = [j \in 1 .. p.argc |-> <<"arg", j>>]
                            /\ seen.envp = [j \in 1 .. p.envc |-> <<"env", j>>]
      BY DEF ProgramSeesArguments
    <2>1. PICK u, p : u = ust[cur] /\ p = program[cur]
      OBVIOUS
    <2>2. u = StartStack(p.argc, p.envc)
      BY <2>1, RunsWhere DEF Starting
    <2>3. p \in Programs \cup {NoProgram}
      BY <2>1, CtxFacts DEF CtxInv, CtxTypes, CtxTypeOK
    <2>4. p.argc \in Nat /\ p.envc \in Nat
      BY <2>3, CtxAssumption DEF NoProgram
    <2>5. Finds(u, p.argc, p.envc)
      BY <2>2, <2>4, ProgramFinds
    <2> QED
      BY <2>1, <2>5, Zenon DEF Finds
  <1> QED
    BY <1>1, <1>2, <1>3, <1>4, <1>5, <1>6 DEF FramesCorrect

(* Stacks through every mix of calls, switches, forks and starts of        *)
(* programs (sys_enter, ctx_switch, ctx_setup_trampoline,                  *)
(* ctx_setup_fork_return, sys_return, task_trampoline, crt0): each pop     *)
(* takes the word that was pushed for it, a task goes on with its own      *)
(* registers and stack, dispatcher and program find their arguments -      *)
(* for any number of tasks and any argument and environment counts, as     *)
(* long as the kernel stack holds sixteen words a start and fifteen more.  *)
THEOREM FramesAreCorrect == CtxSpec => []FramesCorrect
  <1>1. CtxInit => CtxInv
    BY CtxInitial
  <1>2. CtxInv /\ [CtxNext]_ctxVars => CtxInv'
    <2> SUFFICES ASSUME CtxInv, [CtxNext]_ctxVars
                 PROVE  CtxInv'
      OBVIOUS
    <2>1. CASE UNCHANGED ctxVars
      BY <2>1, CtxStutters
    <2>2. ASSUME NEW num \in Tasks, Dispatch(num)
          PROVE  CtxInv'
      BY <2>2, DispatchKeeps
    <2>3. CASE sys_enter
      BY <2>3, SysEnterKeeps
    <2>4. ASSUME NEW num \in Tasks, ctx_switch(num)
          PROVE  CtxInv'
      BY <2>4, CtxSwitchKeeps
    <2>5. CASE Resume
      BY <2>5, ResumeKeeps
    <2>6. CASE DispatchReturns
      BY <2>6, DispatchReturnsKeeps
    <2>7. CASE DropArguments
      BY <2>7, DropArgumentsKeeps
    <2>8. CASE sys_return
      BY <2>8, SysReturnKeeps
    <2>9. ASSUME NEW c \in Tasks, sched_fork(c)
          PROVE  CtxInv'
      BY <2>9, ForkKeeps
    <2>10. ASSUME NEW p \in Programs, sched_execve(p)
           PROVE  CtxInv'
      BY <2>10, ExecveKeeps
    <2>11. CASE sched_exit
      BY <2>11, ExitKeeps
    <2>12. CASE task_trampoline
      BY <2>12, TrampolineKeeps
    <2>13. CASE _start
      BY <2>13, StartKeeps
    <2> QED
      BY <2>1, <2>2, <2>3, <2>4, <2>5, <2>6, <2>7, <2>8, <2>9, <2>10, <2>11, <2>12, <2>13
      DEF CtxNext
  <1>3. CtxInv => FramesCorrect
    BY FramesFollow
  <1> QED
    BY <1>1, <1>2, <1>3, PTL DEF CtxSpec
-----------------------------------------------------------------------------
(* The clocks.                                                             *)

\* sec and nsec are so many ticks at hz a second, to within a nanosecond.
Reads(sec, nsec, ticks, hz) ==
  /\ sec \in Nat /\ nsec \in Nat /\ nsec < NSEC
  /\ (sec * NSEC + nsec) * hz <= ticks * NSEC
  /\ ticks * NSEC < (sec * NSEC + nsec) * hz + hz

\* What kclock_gettime makes of a number of ticks.
LEMMA PartsRead ==
    ASSUME NEW hz \in Nat \ {0}, hz * NSEC <= WORD, NEW ticks \in Nat
    PROVE  Reads(ticks \div hz, (((ticks % hz) * NSEC) % WORD) \div hz, ticks, hz)
  <1> DEFINE sec == ticks \div hz
             rem == ticks % hz
             prod == rem * NSEC
             nsec == prod \div hz
  <1>0. NSEC \in Nat \ {0} /\ WORD \in Nat \ {0}
    BY ClockAssumption
  <1>1. sec \in Nat /\ rem \in Nat /\ rem < hz /\ ticks = sec * hz + rem
    <2>1. rem \in 0 .. hz - 1 /\ hz * sec + rem = ticks
      OBVIOUS
    <2>2. sec \in Nat
      BY DivBounds
    <2> QED
      BY <2>1, <2>2
  <1> HIDE DEF sec, rem
  <1>2. prod \in Nat /\ prod < hz * NSEC
    <2>1. rem * NSEC < hz * NSEC
      BY <1>0, <1>1
    <2> QED
      BY <1>0, <1>1, <2>1
  <1>3. prod % WORD = prod
    <2>1. prod < WORD
      <3>1. hz * NSEC \in Nat
        BY <1>0
      <3> HIDE DEF prod
      <3> QED
        BY <1>0, <1>2, <3>1
    <2> HIDE DEF prod
    <2> QED
      BY <1>0, <1>2, <2>1, ModSmall
  <1>4. nsec \in Nat /\ nsec * hz <= prod /\ prod < nsec * hz + hz
    <2> HIDE DEF prod
    <2> QED
      BY <1>2, DivBounds
  <1> HIDE DEF nsec
  <1>5. nsec < NSEC
    <2> SUFFICES ASSUME nsec >= NSEC PROVE FALSE
      BY <1>0, <1>4
    <2>1. nsec * hz >= NSEC * hz
      BY <1>0, <1>4
    <2> QED
      BY <1>0, <1>2, <1>4, <2>1
  <1>6. ticks * NSEC = sec * NSEC * hz + prod
    BY <1>0, <1>1
  <1>7. Reads(sec, nsec, ticks, hz)
    <2>1. (sec * NSEC + nsec) * hz = sec * NSEC * hz + nsec * hz
      BY <1>0, <1>1, <1>4
    <2>2. prod \in Nat /\ sec * NSEC * hz \in Nat /\ nsec * hz \in Nat
      BY <1>0, <1>1, <1>2, <1>4
    <2> HIDE DEF prod
    <2> QED
      BY <1>1, <1>4, <1>5, <1>6, <2>1, <2>2 DEF Reads
  <1> QED
    BY <1>3, <1>7 DEF nsec, sec, rem

\* More ticks read no earlier.
LEMMA ReadsInOrder ==
    ASSUME NEW hz \in Nat \ {0}, NEW ticks \in Nat, NEW later \in Nat, ticks <= later,
           NEW sec, NEW nsec, Reads(sec, nsec, ticks, hz),
           NEW sec2, NEW nsec2, Reads(sec2, nsec2, later, hz)
    PROVE  sec < sec2 \/ (sec = sec2 /\ nsec <= nsec2)
  <1> DEFINE v == sec * NSEC + nsec
             v2 == sec2 * NSEC + nsec2
  <1>0. NSEC \in Nat \ {0} /\ {sec, sec2, nsec, nsec2} \subseteq Nat
    BY ClockAssumption DEF Reads
  <1>1. v \in Nat /\ v2 \in Nat
    BY <1>0
  <1>2. ticks * NSEC <= later * NSEC /\ ticks * NSEC \in Nat /\ later * NSEC \in Nat
    BY <1>0
  <1>3. v * hz <= ticks * NSEC /\ later * NSEC < v2 * hz + hz
    BY DEF Reads
  <1>4. v <= v2
    <2> HIDE DEF v, v2
    <2> SUFFICES ASSUME v >= v2 + 1 PROVE FALSE
      BY <1>1
    <2>1. v * hz >= v2 * hz + hz
      BY <1>1
    <2> QED
      BY <1>1, <1>2, <1>3, <2>1
  <1>5. nsec2 < NSEC
    BY DEF Reads
  <1>6. ~ (sec >= sec2 + 1)
    <2> SUFFICES ASSUME sec >= sec2 + 1 PROVE FALSE
      OBVIOUS
    <2>1. sec * NSEC >= sec2 * NSEC + NSEC
      BY <1>0
    <2> QED
      BY <1>0, <1>4, <1>5, <2>1
  <1> QED
    BY <1>0, <1>4, <1>6

(* What the clocks keep: the real-time clock is read once, and the counter *)
(* at most CAL_MAX ticks later, when its rate is known.                    *)
ClockInv ==
  /\ tsc \in Nat /\ start \in 0 .. HZ - 1 /\ boot_phase \in {"rtc", "pit", "up"}
  /\ boot_phase # "rtc" =>
       /\ read_at \in 0 .. tsc
       /\ boot_epoch_sec = (start + read_at) \div HZ
  /\ boot_phase = "pit" => tsc <= read_at + CAL_MAX
  /\ boot_phase = "up" =>
       /\ tsc_hz \in Rates
       /\ boot_tsc \in read_at .. tsc /\ boot_tsc <= read_at + CAL_MAX

LEMMA ClockInvHolds == ClockSpec => []ClockInv
  <1>1. ClockInit => ClockInv
    BY ClockAssumption DEF ClockInit, ClockInv
  <1>2. ClockInv /\ [ClockNext]_clockVars => ClockInv'
    <2> SUFFICES ASSUME ClockInv, [ClockNext]_clockVars PROVE ClockInv'
      OBVIOUS
    <2>0. CAL_MAX \in Nat /\ HZ \in Nat \ {0}
      BY ClockAssumption
    <2>1. CASE Tick
      BY <2>0, <2>1 DEF Tick, ClockInv
    <2>2. CASE ReadRtc
      BY <2>0, <2>2 DEF ReadRtc, ClockInv
    <2>3. CASE Calibrated
      BY <2>0, <2>3 DEF Calibrated, ClockInv
    <2>4. CASE UNCHANGED clockVars
      BY <2>4 DEF clockVars, ClockInv
    <2> QED
      BY <2>1, <2>2, <2>3, <2>4 DEF ClockNext, clock_init
  <1> QED
    BY <1>1, <1>2, PTL DEF ClockSpec

\* What the constants make of a rate that was measured.
LEMMA RateIs ==
    ASSUME NEW hz \in Rates
    PROVE  hz \in Nat \ {0} /\ hz * NSEC <= WORD
  BY ClockAssumption

LEMMA ReadingExact == ClockInv => ReadingIsExact
  <1> SUFFICES ASSUME ClockInv, boot_phase = "up"
               PROVE  LET t == kclock_gettime("monotonic")
                          done == t.sec * tsc_hz * NSEC + t.nsec * tsc_hz
                      IN  /\ t.nsec < NSEC
                          /\ done <= tsc * NSEC /\ tsc * NSEC < done + tsc_hz
    BY DEF ReadingIsExact
  <1>0. NSEC \in Nat /\ tsc \in Nat /\ tsc_hz \in Nat \ {0} /\ tsc_hz * NSEC <= WORD
    BY ClockAssumption, RateIs DEF ClockInv
  <1> DEFINE t == kclock_gettime("monotonic")
  <1>1. t = Parts(tsc)
    BY DEF kclock_gettime
  <1> HIDE DEF t
  <1>2. Reads(t.sec, t.nsec, tsc, tsc_hz)
    <2>1. /\ t.sec = tsc \div tsc_hz
          /\ t.nsec = (((tsc % tsc_hz) * NSEC) % WORD) \div tsc_hz
      BY <1>1 DEF Parts
    <2> QED
      BY <1>0, <2>1, PartsRead
  <1>3. (t.sec * NSEC + t.nsec) * tsc_hz = t.sec * tsc_hz * NSEC + t.nsec * tsc_hz
    BY <1>0, <1>2 DEF Reads
  <1>4. /\ t.nsec < NSEC
        /\ t.sec * tsc_hz * NSEC + t.nsec * tsc_hz <= tsc * NSEC
        /\ tsc * NSEC < t.sec * tsc_hz * NSEC + t.nsec * tsc_hz + tsc_hz
    BY <1>2, <1>3 DEF Reads
  <1> QED
    BY <1>4 DEF t

LEMMA RealtimeIs ==
    ASSUME ClockInv, boot_phase = "up"
    PROVE  LET t == kclock_gettime("realtime")
           IN  /\ Reads(t.sec - boot_epoch_sec, t.nsec, tsc - boot_tsc, tsc_hz)
               /\ boot_epoch_sec \in Nat /\ t.sec \in Nat
  <1>0. tsc_hz \in Nat \ {0} /\ tsc_hz * NSEC <= WORD /\ tsc - boot_tsc \in Nat
    BY RateIs DEF ClockInv
  <1>1. boot_epoch_sec \in Nat
    <2>1. HZ \in Nat \ {0} /\ start + read_at \in Nat
      BY ClockAssumption DEF ClockInv
    <2> QED
      BY <2>1, DivBounds DEF ClockInv
  <1> DEFINE p == Parts(tsc - boot_tsc)
             t == kclock_gettime("realtime")
  <1>2. Reads(p.sec, p.nsec, tsc - boot_tsc, tsc_hz)
    BY <1>0, PartsRead DEF Parts
  <1>3. t.sec = boot_epoch_sec + p.sec /\ t.nsec = p.nsec
    BY DEF kclock_gettime, Parts
  <1> HIDE DEF p, t
  <1>4. p.sec \in Nat
    BY <1>2 DEF Reads
  <1>5. t.sec - boot_epoch_sec = p.sec /\ t.sec \in Nat
    BY <1>1, <1>3, <1>4
  <1>6. Reads(t.sec - boot_epoch_sec, t.nsec, tsc - boot_tsc, tsc_hz)
    BY <1>2, <1>3, <1>5
  <1> QED
    BY <1>1, <1>5, <1>6 DEF t

LEMMA RealtimeStaysNear == ClockInv => RealtimeFollows
  <1> SUFFICES ASSUME ClockInv, boot_phase = "up", tsc_hz = HZ
               PROVE  LET t == kclock_gettime("realtime")
                          told == t.sec * HZ * NSEC + t.nsec * HZ
                          now == (start + tsc) * NSEC
                      IN  told <= now /\ now < told + (HZ + CAL_MAX) * NSEC + HZ
    BY DEF RealtimeFollows
  <1> DEFINE t == kclock_gettime("realtime")
  <1>1. /\ Reads(t.sec - boot_epoch_sec, t.nsec, tsc - boot_tsc, HZ)
        /\ boot_epoch_sec \in Nat /\ t.sec \in Nat
    BY RealtimeIs
  <1> HIDE DEF t
  <1>2. /\ NSEC \in Nat \ {0} /\ HZ \in Nat \ {0} /\ CAL_MAX \in Nat
        /\ {tsc, start, read_at, boot_tsc} \subseteq Nat
        /\ start <= HZ - 1
        /\ read_at <= boot_tsc /\ boot_tsc <= tsc /\ boot_tsc <= read_at + CAL_MAX
    BY ClockAssumption DEF ClockInv
  <1>3. /\ boot_epoch_sec * HZ <= start + read_at
        /\ start + read_at < boot_epoch_sec * HZ + HZ
    <2>1. start + read_at \in Nat
      BY <1>2
    <2>2. boot_epoch_sec = (start + read_at) \div HZ
      BY DEF ClockInv
    <2> QED
      BY <1>2, <2>1, <2>2, DivBounds
  <1>4. PICK p \in Nat : p = t.sec - boot_epoch_sec
    BY <1>1 DEF Reads
  <1>5. PICK base \in Nat, gap \in Nat : base = boot_epoch_sec * HZ /\ gap = (start + tsc) - (base + (tsc - boot_tsc))
    <2>1. boot_epoch_sec * HZ \in Nat
      BY <1>1, <1>2
    <2>2. (start + tsc) - (boot_epoch_sec * HZ + (tsc - boot_tsc)) \in Nat
      BY <1>2, <1>3, <2>1
    <2> QED
      BY <2>1, <2>2
  <1>6. gap <= HZ + CAL_MAX
    BY <1>2, <1>3, <1>5
  <1>7. /\ t.nsec \in Nat
        /\ (p * NSEC + t.nsec) * HZ <= (tsc - boot_tsc) * NSEC
        /\ (tsc - boot_tsc) * NSEC < (p * NSEC + t.nsec) * HZ + HZ
    BY <1>1, <1>4 DEF Reads
  <1>8. t.sec * HZ * NSEC + t.nsec * HZ = base * NSEC + (p * NSEC + t.nsec) * HZ
    <2>1. t.sec = boot_epoch_sec + p
      BY <1>1, <1>4
    <2>2. t.sec * HZ = base + p * HZ
      BY <1>1, <1>2, <1>5, <2>1
    <2>3. t.sec * HZ * NSEC = base * NSEC + p * HZ * NSEC
      BY <1>2, <2>2
    <2>4. (p * NSEC + t.nsec) * HZ = p * HZ * NSEC + t.nsec * HZ
      BY <1>2, <1>7
    <2>5. {t.sec * HZ * NSEC, t.nsec * HZ, base * NSEC, p * HZ * NSEC} \subseteq Nat
      BY <1>1, <1>2, <1>7
    <2> QED
      BY <2>3, <2>4, <2>5
  <1>9. (start + tsc) * NSEC = base * NSEC + (tsc - boot_tsc) * NSEC + gap * NSEC
    <2>1. start + tsc = base + (tsc - boot_tsc) + gap
      BY <1>2, <1>5
    <2>2. tsc - boot_tsc \in Nat
      BY <1>2
    <2> QED
      BY <1>2, <2>1, <2>2
  <1>10. gap * NSEC <= (HZ + CAL_MAX) * NSEC
    BY <1>2, <1>6
  <1>11. {(p * NSEC + t.nsec) * HZ, base * NSEC, (tsc - boot_tsc) * NSEC, gap * NSEC,
          (HZ + CAL_MAX) * NSEC} \subseteq Nat
    BY <1>2, <1>7
  <1>12. /\ t.sec * HZ * NSEC + t.nsec * HZ <= (start + tsc) * NSEC
         /\ (start + tsc) * NSEC < t.sec * HZ * NSEC + t.nsec * HZ + (HZ + CAL_MAX) * NSEC + HZ
    BY <1>2, <1>7, <1>8, <1>9, <1>10, <1>11
  <1> QED
    BY <1>12 DEF t

LEMMA ClocksGoOn ==
    ASSUME ClockInv, [ClockNext]_clockVars, boot_phase = "up", NEW clk \in Clocks
    PROVE  NotBefore(kclock_gettime(clk), kclock_gettime(clk)')
  <1>1. /\ boot_tsc' = boot_tsc /\ tsc_hz' = tsc_hz /\ boot_epoch_sec' = boot_epoch_sec
        /\ tsc' \in {tsc, tsc + 1} /\ boot_phase' = "up"
    BY DEF ClockNext, clock_init, Tick, ReadRtc, Calibrated, clockVars
  <1>2. tsc \in Nat /\ tsc_hz \in Nat \ {0} /\ tsc_hz * NSEC <= WORD /\ tsc - boot_tsc \in Nat
    BY RateIs DEF ClockInv
  <1>3. /\ tsc' \in Nat /\ tsc <= tsc'
        /\ tsc' - boot_tsc \in Nat /\ tsc - boot_tsc <= tsc' - boot_tsc
    BY <1>1, <1>2 DEF ClockInv
  <1>4. boot_epoch_sec \in Nat
    BY RealtimeIs
  <1> DEFINE S(x) == x \div tsc_hz
             N(x) == (((x % tsc_hz) * NSEC) % WORD) \div tsc_hz
             P(x) == [sec |-> S(x), nsec |-> N(x)]
  <1>5. \A x, later \in Nat : x <= later =>
          /\ NotBefore(P(x), P(later))
          /\ S(x) \in Nat /\ S(later) \in Nat
    <2> SUFFICES ASSUME NEW x \in Nat, NEW later \in Nat, x <= later
                 PROVE  NotBefore(P(x), P(later)) /\ S(x) \in Nat /\ S(later) \in Nat
      OBVIOUS
    <2>1. Reads(S(x), N(x), x, tsc_hz) /\ Reads(S(later), N(later), later, tsc_hz)
      BY <1>2, PartsRead
    <2> HIDE DEF S, N
    <2>2. S(x) < S(later) \/ (S(x) = S(later) /\ N(x) <= N(later))
      BY <1>2, <2>1, ReadsInOrder
    <2> QED
      BY <2>1, <2>2 DEF NotBefore, Reads
  <1>6. CASE clk = "monotonic"
    <2>1. kclock_gettime(clk) = P(tsc)
      BY <1>6 DEF kclock_gettime, Parts
    <2>2. kclock_gettime(clk)' = P(tsc')
      BY <1>1, <1>6 DEF kclock_gettime, Parts
    <2> HIDE DEF P, S
    <2> QED
      BY <1>2, <1>3, <1>5, <2>1, <2>2
  <1>7. CASE clk = "boottime"
    <2>1. kclock_gettime(clk) = P(tsc - boot_tsc)
      BY <1>7 DEF kclock_gettime, Parts
    <2>2. kclock_gettime(clk)' = P(tsc' - boot_tsc)
      BY <1>1, <1>7 DEF kclock_gettime, Parts
    <2> HIDE DEF P, S
    <2> QED
      BY <1>2, <1>3, <1>5, <2>1, <2>2
  <1>8. CASE clk = "realtime"
    <2> DEFINE x == tsc - boot_tsc
               later == tsc' - boot_tsc
    <2>1. kclock_gettime(clk) = [sec |-> boot_epoch_sec + S(x), nsec |-> N(x)]
      BY <1>8 DEF kclock_gettime, Parts
    <2>2. kclock_gettime(clk)' = [sec |-> boot_epoch_sec + S(later), nsec |-> N(later)]
      BY <1>1, <1>8 DEF kclock_gettime, Parts
    <2>3. NotBefore(P(x), P(later)) /\ S(x) \in Nat /\ S(later) \in Nat
      BY <1>2, <1>3, <1>5
    <2> HIDE DEF S, N, x, later
    <2> QED
      BY <1>4, <2>1, <2>2, <2>3 DEF NotBefore
  <1> QED
    BY <1>6, <1>7, <1>8 DEF Clocks

(* No clock goes back, a reading is exact to a nanosecond, and the real    *)
(* time follows the chip that was read at boot (kclock_gettime and         *)
(* clock_init): for every rate of the counter that keeps the product in a  *)
(* word, and however long the calibration takes.                           *)
THEOREM ClockIsCorrect == ClockSpec => ClockCorrect
  <1>1. ClockSpec => []ClockInv
    BY ClockInvHolds
  <1>2. ClockInv => ReadingIsExact /\ RealtimeFollows
    BY ReadingExact, RealtimeStaysNear
  <1>3. ClockInv /\ [ClockNext]_clockVars =>
          [boot_phase = "up" => \A clk \in Clocks :
             NotBefore(kclock_gettime(clk), kclock_gettime(clk)')]_clockVars
    BY ClocksGoOn
  <1> QED
    BY <1>1, <1>2, <1>3, PTL DEF ClockSpec, ClockCorrect, NeverBackward
-----------------------------------------------------------------------------
(* Address spaces: where things lie.                                       *)

Tables == VM_USER_PTS_PER_PROC
Window == PDE_INDEX(COPY_SRC_VA)

\* Enough tables for a process, and none too many.
LEMMA TablesAre ==
    /\ MAX_PROCESS_CNT \in Nat \ {0, 1} /\ PAGE_TABLE_ENTRIES \in Nat \ {0, 1}
    /\ ProcPages \in Nat \ {0} /\ Tables \in Nat \ {0}
    /\ (Tables - 1) * PAGE_TABLE_ENTRIES < ProcPages
    /\ ProcPages <= Tables * PAGE_TABLE_ENTRIES
    /\ MM_PAGING_PAGES_TOTAL = MAX_PROCESS_CNT * (1 + Tables)
    /\ MM_PAGING_PAGES_TOTAL \in Nat /\ MM_PAGING_PAGES_TOTAL >= 2 + Tables
  <1>1. /\ MAX_PROCESS_CNT \in Nat \ {0, 1} /\ PAGE_TABLE_ENTRIES \in Nat \ {0, 1}
        /\ ProcPages \in Nat \ {0}
    BY MmAssumption
  <1> DEFINE E == PAGE_TABLE_ENTRIES
             x == ProcPages + E - 1
             y == x \div E
  <1>2. x \in Nat /\ E \in Nat \ {0}
    BY <1>1
  <1>3. y \in Nat /\ y * E <= x /\ x < y * E + E
    <2> HIDE DEF x, E
    <2> QED
      BY <1>2, DivBounds
  <1>4. Tables = y
    BY DEF Tables, VM_USER_PTS_PER_PROC, DIV_ROUND_UP
  <1> HIDE DEF y
  <1>5. y # 0
    BY <1>1, <1>3
  <1>6. (y - 1) * E = y * E - E
    BY <1>1, <1>3
  <1>7. y * E \in Nat
    BY <1>1, <1>3
  <1>8. (y - 1) * E < ProcPages /\ ProcPages <= y * E
    BY <1>1, <1>3, <1>6, <1>7
  <1>9. MM_PAGING_PAGES_TOTAL = MAX_PROCESS_CNT * (1 + y)
    BY <1>4 DEF MM_PAGING_PAGES_TOTAL, Tables
  <1>10. MAX_PROCESS_CNT * (1 + y) \in Nat /\ MAX_PROCESS_CNT * (1 + y) >= 2 * (1 + y)
    BY <1>1, <1>3
  <1> QED
    BY <1>1, <1>3, <1>4, <1>5, <1>8, <1>9, <1>10

\* The table and the entry of an address that is given by them.
LEMMA IndexIs ==
    ASSUME NEW x \in Nat, NEW y \in Nat, y < PAGE_TABLE_ENTRIES
    PROVE  /\ PDE_INDEX(x * PAGE_TABLE_ENTRIES + y) = x
           /\ PTE_INDEX(x * PAGE_TABLE_ENTRIES + y) = y
  <1>1. PAGE_TABLE_ENTRIES \in Nat \ {0}
    BY TablesAre
  <1> DEFINE v == x * PAGE_TABLE_ENTRIES + y
  <1>2. v \in Int /\ x * PAGE_TABLE_ENTRIES <= v /\ v < x * PAGE_TABLE_ENTRIES + PAGE_TABLE_ENTRIES
        /\ v - x * PAGE_TABLE_ENTRIES = y
    <2>1. x * PAGE_TABLE_ENTRIES \in Nat
      BY <1>1
    <2> QED
      BY <1>1, <2>1
  <1> HIDE DEF v
  <1>3. v \div PAGE_TABLE_ENTRIES = x /\ v % PAGE_TABLE_ENTRIES = y
    BY <1>1, <1>2, DivUnique
  <1> QED
    BY <1>3 DEF PDE_INDEX, PTE_INDEX, v

\* The p-th page of a process is entry y of its x-th table.
PageAt(p, x, y) ==
  /\ x \in 1 .. Tables /\ y \in Ptes
  /\ PDE_INDEX(ProcessVa + p) = x /\ PTE_INDEX(ProcessVa + p) = y
  /\ p = (x - 1) * PAGE_TABLE_ENTRIES + y

LEMMA PagesLie ==
    ASSUME NEW p \in 0 .. ProcPages - 1
    PROVE  PageAt(p, PDE_INDEX(ProcessVa + p), PTE_INDEX(ProcessVa + p))
  <1> DEFINE E == PAGE_TABLE_ENTRIES
             z == p \div E
             y == p - z * E
  <1>1. E \in Nat \ {0} /\ p \in Nat /\ p < ProcPages
    BY TablesAre
  <1>2. z \in Nat /\ z * E <= p /\ p < z * E + E
    <2> HIDE DEF E
    <2> QED
      BY <1>1, DivBounds
  <1> HIDE DEF z
  <1>3. z * E \in Nat
    BY <1>1, <1>2
  <1>4. y \in Nat /\ y < E /\ p = z * E + y
    BY <1>1, <1>2, <1>3
  <1>5. ProcessVa + p = (z + 1) * E + y
    <2>1. (z + 1) * E = z * E + E
      BY <1>1, <1>2
    <2> QED
      BY <1>1, <1>3, <1>4, <2>1 DEF ProcessVa
  <1> HIDE DEF y
  <1>6. PDE_INDEX(ProcessVa + p) = z + 1 /\ PTE_INDEX(ProcessVa + p) = y
    BY <1>2, <1>4, <1>5, IndexIs
  <1>7. z + 1 \in 1 .. Tables
    <2> SUFFICES ASSUME z >= Tables PROVE FALSE
      BY <1>2, TablesAre
    <2>1. z * E >= Tables * E
      BY <1>1, <1>2, TablesAre
    <2>2. Tables * E \in Nat
      BY <1>1, TablesAre
    <2> QED
      BY <1>1, <1>2, <1>3, <2>1, <2>2, TablesAre
  <1>8. y \in Ptes
    BY <1>1, <1>4 DEF Ptes
  <1>9. (z + 1) - 1 = z
    BY <1>2
  <1> QED
    BY <1>4, <1>6, <1>7, <1>8, <1>9 DEF PageAt

\* The kernel's addresses.
LEMMA KernelLies ==
    /\ Pdes = 0 .. Tables + 2 /\ Window = Tables + 2
    /\ PDE_INDEX(COPY_SRC_VA) = Window /\ PTE_INDEX(COPY_SRC_VA) = 0
    /\ PDE_INDEX(COPY_DST_VA) = Window /\ PTE_INDEX(COPY_DST_VA) = 1
    /\ PDE_INDEX(KernelVa) = Tables + 1
    /\ PDE_INDEX(VgaVa) = 0 /\ PTE_INDEX(VgaVa) = 1
    /\ 0 \in Ptes /\ 1 \in Ptes
    /\ COPY_SRC_VA # COPY_DST_VA /\ COPY_SRC_VA \in Nat /\ COPY_DST_VA \in Nat
  <1> DEFINE E == PAGE_TABLE_ENTRIES
  <1>1. E \in Nat \ {0, 1} /\ Tables \in Nat \ {0}
    BY TablesAre
  <1>2. KernelVa = (Tables + 1) * E + 0
    BY <1>1 DEF KernelVa, Tables
  <1>3. COPY_SRC_VA = (Tables + 2) * E + 0
    BY <1>1 DEF COPY_SRC_VA, KernelVa, Tables
  <1>4. (Tables + 2) * E \in Nat
    BY <1>1
  <1>5. COPY_DST_VA = (Tables + 2) * E + 1
    BY <1>3, <1>4 DEF COPY_DST_VA
  <1>6. VgaVa = 0 * E + 1
    BY <1>1 DEF VgaVa
  <1>a. /\ {Tables + 1, Tables + 2, 0, 1} \subseteq Nat
        /\ 0 < PAGE_TABLE_ENTRIES /\ 1 < PAGE_TABLE_ENTRIES
    BY <1>1
  <1>7. PDE_INDEX(COPY_SRC_VA) = Tables + 2 /\ PTE_INDEX(COPY_SRC_VA) = 0
    <2>1. /\ PDE_INDEX((Tables + 2) * PAGE_TABLE_ENTRIES + 0) = Tables + 2
          /\ PTE_INDEX((Tables + 2) * PAGE_TABLE_ENTRIES + 0) = 0
      BY <1>a, IndexIs
    <2> QED
      BY <1>3, <2>1
  <1>8. PDE_INDEX(COPY_DST_VA) = Tables + 2 /\ PTE_INDEX(COPY_DST_VA) = 1
    <2>1. /\ PDE_INDEX((Tables + 2) * PAGE_TABLE_ENTRIES + 1) = Tables + 2
          /\ PTE_INDEX((Tables + 2) * PAGE_TABLE_ENTRIES + 1) = 1
      BY <1>a, IndexIs
    <2> QED
      BY <1>5, <2>1
  <1>9. PDE_INDEX(KernelVa) = Tables + 1
    <2>1. PDE_INDEX((Tables + 1) * PAGE_TABLE_ENTRIES + 0) = Tables + 1
      BY <1>a, IndexIs
    <2> QED
      BY <1>2, <2>1
  <1>10. PDE_INDEX(VgaVa) = 0 /\ PTE_INDEX(VgaVa) = 1
    <2>1. /\ PDE_INDEX(0 * PAGE_TABLE_ENTRIES + 1) = 0
          /\ PTE_INDEX(0 * PAGE_TABLE_ENTRIES + 1) = 1
      BY <1>a, IndexIs
    <2> QED
      BY <1>6, <2>1
  <1>11. 0 \in Ptes /\ 1 \in Ptes
    BY <1>1 DEF Ptes
  <1>12. COPY_SRC_VA \in Nat /\ COPY_DST_VA \in Nat /\ COPY_SRC_VA # COPY_DST_VA
    BY <1>3, <1>4, <1>5
  <1> QED
    BY <1>7, <1>8, <1>9, <1>10, <1>11, <1>12 DEF Window, Pdes

\* The frame of a slot's p-th page.
Frame(s, p) == PROCESS_PA_START + s * ProcPages + p

LEMMA FramesLie ==
    ASSUME NEW s \in Slots, NEW p \in 0 .. ProcPages - 1
    PROVE  Frame(s, p) \in Region(s) /\ Frame(s, p) \in Frames /\ Frame(s, p) # Absent
  <1>1. MAX_PROCESS_CNT \in Nat \ {0} /\ ProcPages \in Nat \ {0} /\ s \in Nat /\ s + 1 <= MAX_PROCESS_CNT
    BY TablesAre DEF Slots
  <1>2. s * ProcPages \in Nat /\ MAX_PROCESS_CNT * ProcPages \in Nat
    BY <1>1
  <1>3. s * ProcPages + ProcPages <= MAX_PROCESS_CNT * ProcPages
    <2>1. (s + 1) * ProcPages <= MAX_PROCESS_CNT * ProcPages
      BY <1>1
    <2>2. (s + 1) * ProcPages = s * ProcPages + ProcPages
      BY <1>1
    <2> QED
      BY <2>1, <2>2
  <1> QED
    BY <1>1, <1>2, <1>3 DEF Frame, Region, Frames, PROCESS_PA_START, Absent

\* No frame is in two regions or at two places in one.
LEMMA RegionsApart ==
    ASSUME NEW s \in Slots, NEW t \in Slots, s # t, NEW f \in Region(s)
    PROVE  f \notin Region(t)
  <1>1. ProcPages \in Nat \ {0} /\ s \in Nat /\ t \in Nat
    BY TablesAre DEF Slots
  <1>2. s * ProcPages \in Nat /\ t * ProcPages \in Nat
    BY <1>1
  <1>3. CASE s + 1 <= t
    <2>1. (s + 1) * ProcPages <= t * ProcPages
      BY <1>1, <1>3
    <2>2. (s + 1) * ProcPages = s * ProcPages + ProcPages
      BY <1>1
    <2> QED
      BY <1>1, <1>2, <2>1, <2>2 DEF Region, PROCESS_PA_START
  <1>4. CASE t + 1 <= s
    <2>1. (t + 1) * ProcPages <= s * ProcPages
      BY <1>1, <1>4
    <2>2. (t + 1) * ProcPages = t * ProcPages + ProcPages
      BY <1>1
    <2> QED
      BY <1>1, <1>2, <2>1, <2>2 DEF Region, PROCESS_PA_START
  <1> QED
    BY <1>1, <1>3, <1>4

LEMMA FramesDiffer ==
    ASSUME NEW s \in Slots, NEW t \in Slots, NEW p \in 0 .. ProcPages - 1, NEW k \in 0 .. ProcPages - 1,
           Frame(s, p) = Frame(t, k)
    PROVE  s = t /\ p = k
  <1>1. s = t
    BY FramesLie, RegionsApart
  <1>2. s * ProcPages \in Nat
    BY TablesAre DEF Slots
  <1> QED
    BY <1>1, <1>2, TablesAre DEF Frame, PROCESS_PA_START

\* An address of a process is its so-manieth page.
LEMMA VasArePages ==
    ASSUME NEW v \in ProcessVas
    PROVE  /\ v - ProcessVa \in 0 .. ProcPages - 1 /\ ProcessVa + (v - ProcessVa) = v
           /\ v \notin WindowVas
  <1>1. ProcessVa \in Nat /\ ProcPages \in Nat
    BY TablesAre DEF ProcessVa
  <1>2. v - ProcessVa \in 0 .. ProcPages - 1 /\ ProcessVa + (v - ProcessVa) = v
    BY <1>1 DEF ProcessVas
  <1>3. PDE_INDEX(v) \in 1 .. Tables
    BY <1>2, PagesLie DEF PageAt
  <1>4. PDE_INDEX(v) # Tables + 2
    BY <1>3, TablesAre
  <1>5. v # COPY_SRC_VA /\ v # COPY_DST_VA
    BY <1>4, KernelLies
  <1> QED
    BY <1>2, <1>5 DEF WindowVas
-----------------------------------------------------------------------------
(* Address spaces: mapping pages.                                          *)

PagingType ==
  [next : 0 .. MM_PAGING_PAGES_TOTAL, pd : [Spaces -> [Pdes -> Pages \cup {Absent}]],
   pt : [Pages -> [Ptes -> Frames \cup {Absent}]]]

\* A page is mapped in the table that is there, or in a page of the pool.
PageMapped(h, g, s, x, y, pa) ==
  \/ /\ g.pd[s][x] # Absent
     /\ h.next = g.next /\ h.pd = g.pd
     /\ h.pt = [g.pt EXCEPT ![g.pd[s][x]] = [@ EXCEPT ![y] = pa]]
  \/ /\ g.pd[s][x] = Absent /\ CanAlloc(g)
     /\ h.next = g.next + 1
     /\ h.pd = [g.pd EXCEPT ![s] = [@ EXCEPT ![x] = g.next]]
     /\ h.pt = [g.pt EXCEPT ![g.next] = [NoPages EXCEPT ![y] = pa]]

\* Pages of the pool.
LEMMA PoolPages ==
    /\ Pages = 0 .. MM_PAGING_PAGES_TOTAL + 1 /\ Absent \notin Pages
    /\ \A x \in 0 .. MM_PAGING_PAGES_TOTAL : x \in Pages
    /\ Absent \notin Frames /\ KernelMm \notin Slots
    /\ NoPages \in [Ptes -> Frames \cup {Absent}] /\ NoTables \in [Pdes -> Pages \cup {Absent}]
  BY TablesAre DEF Pages, HighPt, Absent, Frames, PROCESS_PA_START, KernelMm, Slots, NoPages, NoTables

\* One entry of a table is set.
LEMMA EntrySet ==
    ASSUME NEW x1, NEW x2, NEW x3, NEW z, NEW y, NEW pa
    PROVE  [[next |-> x1, pd |-> x2, pt |-> x3] EXCEPT !.pt[z][y] = pa]
             = [next |-> x1, pd |-> x2, pt |-> [x3 EXCEPT ![z] = [@ EXCEPT ![y] = pa]]]
  OBVIOUS

LEMMA MapPage ==
    ASSUME NEW g \in PagingType, NEW s \in Spaces, NEW va, NEW pa \in Frames,
           PDE_INDEX(va) \in Pdes, PTE_INDEX(va) \in Ptes,
           g.pd[s][PDE_INDEX(va)] # Absent \/ CanAlloc(g)
    PROVE  /\ vm_map_page(g, s, va, pa) \in PagingType
           /\ PageMapped(vm_map_page(g, s, va, pa), g, s, PDE_INDEX(va), PTE_INDEX(va), pa)
  <1>1. PICK x \in Pdes, y \in Ptes : x = PDE_INDEX(va) /\ y = PTE_INDEX(va)
    OBVIOUS
  <1>2. /\ g.next \in 0 .. MM_PAGING_PAGES_TOTAL
        /\ g.pd \in [Spaces -> [Pdes -> Pages \cup {Absent}]]
        /\ g.pt \in [Pages -> [Ptes -> Frames \cup {Absent}]]
        /\ g = [next |-> g.next, pd |-> g.pd, pt |-> g.pt]
    BY DEF PagingType
  <1>3. CASE g.pd[s][x] # Absent
    <2>1. g.pd[s][x] \in Pages
      BY <1>2, <1>3
    <2>2. vm_map_page(g, s, va, pa) = [g EXCEPT !.pt[g.pd[s][x]][y] = pa]
      BY <1>1, <1>3 DEF vm_map_page
    <2>3. PICK u : u = [g.pt EXCEPT ![g.pd[s][x]] = [@ EXCEPT ![y] = pa]]
      OBVIOUS
    <2>4. [g EXCEPT !.pt[g.pd[s][x]][y] = pa] = [next |-> g.next, pd |-> g.pd, pt |-> u]
      <3>1. PICK x1, x2, x3, z : x1 = g.next /\ x2 = g.pd /\ x3 = g.pt /\ z = g.pd[s][x]
        OBVIOUS
      <3>2. g = [next |-> x1, pd |-> x2, pt |-> x3]
        BY <1>2, <3>1
      <3>3. [g EXCEPT !.pt[z][y] = pa] = [next |-> x1, pd |-> x2, pt |-> [x3 EXCEPT ![z] = [@ EXCEPT ![y] = pa]]]
        BY <3>2, EntrySet
      <3> QED
        BY <2>3, <3>1, <3>3
    <2>5. u \in [Pages -> [Ptes -> Frames \cup {Absent}]]
      BY <1>2, <2>1, <2>3
    <2>6. PICK h : h = [next |-> g.next, pd |-> g.pd, pt |-> u]
      OBVIOUS
    <2>7. h \in PagingType
      BY <1>2, <2>5, <2>6 DEF PagingType
    <2>8. h.next = g.next /\ h.pd = g.pd /\ h.pt = u
      BY <2>6
    <2>9. PageMapped(h, g, s, x, y, pa)
      BY <1>3, <2>3, <2>8 DEF PageMapped
    <2> QED
      BY <1>1, <2>2, <2>4, <2>6, <2>7, <2>9
  <1>4. CASE g.pd[s][x] = Absent
    <2>1. CanAlloc(g) /\ g.next \in Pages /\ g.next + 1 \in 0 .. MM_PAGING_PAGES_TOTAL
      <3>1. CanAlloc(g)
        BY <1>1, <1>4
      <3>2. MM_PAGING_PAGES_TOTAL \in Nat /\ g.next \in 0 .. MM_PAGING_PAGES_TOTAL
        BY <1>2, TablesAre
      <3>3. g.next + 1 \in 0 .. MM_PAGING_PAGES_TOTAL
        BY <3>1, <3>2 DEF CanAlloc
      <3> QED
        BY <3>1, <3>2, <3>3, PoolPages
    <2>2. PICK w : w = [next |-> g.next + 1, pd |-> [g.pd EXCEPT ![s][x] = g.next],
                        pt |-> [g.pt EXCEPT ![g.next] = NoPages]]
      OBVIOUS
    <2>3. vm_map_page(g, s, va, pa) = [w EXCEPT !.pt[w.pd[s][x]][y] = pa]
      BY <1>1, <1>4, <2>2 DEF vm_map_page
    <2>4. PICK dirs, tabs : /\ dirs = [g.pd EXCEPT ![s] = [@ EXCEPT ![x] = g.next]]
                            /\ tabs = [g.pt EXCEPT ![g.next] = NoPages]
      OBVIOUS
    <2>5. w = [next |-> g.next + 1, pd |-> dirs, pt |-> tabs]
      BY <2>2, <2>4
    <2>6. /\ dirs \in [Spaces -> [Pdes -> Pages \cup {Absent}]] /\ dirs[s][x] = g.next
          /\ tabs \in [Pages -> [Ptes -> Frames \cup {Absent}]] /\ tabs[g.next] = NoPages
      BY <1>2, <2>1, <2>4, PoolPages
    <2>7. PICK u : u = [tabs EXCEPT ![g.next] = [NoPages EXCEPT ![y] = pa]]
      OBVIOUS
    <2>8. [w EXCEPT !.pt[w.pd[s][x]][y] = pa] = [next |-> g.next + 1, pd |-> dirs, pt |-> u]
      <3>1. PICK x1, z : x1 = g.next + 1 /\ z = g.next
        OBVIOUS
      <3>2. w = [next |-> x1, pd |-> dirs, pt |-> tabs] /\ w.pd[s][x] = z
        BY <2>5, <2>6, <3>1
      <3>3. [w EXCEPT !.pt[z][y] = pa]
              = [next |-> x1, pd |-> dirs, pt |-> [tabs EXCEPT ![z] = [@ EXCEPT ![y] = pa]]]
        BY <3>2, EntrySet
      <3> QED
        BY <2>6, <2>7, <3>1, <3>2, <3>3
    <2>9. u = [g.pt EXCEPT ![g.next] = [NoPages EXCEPT ![y] = pa]]
      BY <1>2, <2>1, <2>4, <2>7
    <2>10. u \in [Pages -> [Ptes -> Frames \cup {Absent}]]
      <3>1. [NoPages EXCEPT ![y] = pa] \in [Ptes -> Frames \cup {Absent}]
        BY PoolPages
      <3> QED
        BY <2>1, <2>6, <2>7, <3>1
    <2>11. PICK h : h = [next |-> g.next + 1, pd |-> dirs, pt |-> u]
      OBVIOUS
    <2>12. h \in PagingType
      BY <2>1, <2>6, <2>10, <2>11 DEF PagingType
    <2>13. h.next = g.next + 1 /\ h.pd = dirs /\ h.pt = u
      BY <2>11
    <2>14. PageMapped(h, g, s, x, y, pa)
      BY <1>4, <2>1, <2>4, <2>9, <2>13 DEF PageMapped
    <2> QED
      BY <1>1, <2>3, <2>8, <2>11, <2>12, <2>14
  <1> QED
    BY <1>3, <1>4

\* One turn of the loop of vm_map_impl.
WalkType == [g : PagingType, on : BOOLEAN]
MapTurn(w, s, va, pa) ==
  IF w.on /\ (w.g.pd[s][PDE_INDEX(va)] # Absent \/ CanAlloc(w.g))
  THEN [w EXCEPT !.g = vm_map_page(w.g, s, va, pa)]
  ELSE [w EXCEPT !.on = FALSE]

Walks(f, g0, s, va, pa, size) ==
  /\ f \in [0 .. size -> WalkType]
  /\ f[0] = [g |-> g0, on |-> TRUE]
  /\ \A m \in 1 .. size : f[m] = MapTurn(f[m - 1], s, va + m - 1, pa + m - 1)

\* Addresses and frames that there are.
Mappable(va, pa, size) ==
  \A m \in 1 .. size : /\ PDE_INDEX(va + m - 1) \in Pdes /\ PTE_INDEX(va + m - 1) \in Ptes
                       /\ pa + m - 1 \in Frames

\* vm_map_impl is what its turns lead to.
LEMMA MapRuns ==
    ASSUME NEW g0 \in PagingType, NEW s \in Spaces, NEW va \in Nat, NEW pa \in Nat, NEW size \in Nat,
           Mappable(va, pa, size)
    PROVE  \E f : Walks(f, g0, s, va, pa, size) /\ vm_map_impl(g0, s, va, pa, size) = f[size].g
  <1> DEFINE first == [g |-> g0, on |-> TRUE]
  <1>1. first \in WalkType
    BY DEF WalkType
  <1>2. ASSUME NEW w \in WalkType, NEW m \in 1 .. size
        PROVE  MapTurn(w, s, va + m - 1, pa + m - 1) \in WalkType
    <2>1. w.g \in PagingType /\ w.on \in BOOLEAN /\ w = [g |-> w.g, on |-> w.on]
      BY DEF WalkType
    <2>2. CASE w.on /\ (w.g.pd[s][PDE_INDEX(va + m - 1)] # Absent \/ CanAlloc(w.g))
      <3>1. vm_map_page(w.g, s, va + m - 1, pa + m - 1) \in PagingType
        BY <2>1, <2>2, MapPage DEF Mappable
      <3> QED
        BY <2>1, <2>2, <3>1 DEF MapTurn, WalkType
    <2>3. CASE ~ (w.on /\ (w.g.pd[s][PDE_INDEX(va + m - 1)] # Absent \/ CanAlloc(w.g)))
      BY <2>1, <2>3 DEF MapTurn, WalkType
    <2> QED
      BY <2>2, <2>3
  <1>3. PICK step : step = [p \in (1 .. size) \X WalkType |-> MapTurn(p[2], s, va + p[1] - 1, pa + p[1] - 1)]
    OBVIOUS
  <1>4. step \in [(1 .. size) \X WalkType -> WalkType]
    BY <1>2, <1>3
  <1>5. PICK f \in [0 .. size -> WalkType] :
          f[0] = first /\ \A m \in 1 .. size : f[m] = step[<<m, f[m - 1]>>]
    <2> HIDE DEF first
    <2>1. \E f : Iterates(f, size, WalkType, first, step)
      BY <1>1, <1>4, RecursionExists
    <2> QED
      BY <2>1 DEF Iterates
  <1>6. \A m \in 1 .. size : m \in 0 .. size /\ m - 1 \in 0 .. size /\ m # 0
    OBVIOUS
  <1>7. \A m \in 1 .. size : f[m] = MapTurn(f[m - 1], s, va + m - 1, pa + m - 1)
    BY <1>3, <1>5, <1>6
  <1> DEFINE Eq(h) == h = [k \in 0 .. size |->
                 IF k = 0 THEN [g |-> g0, on |-> TRUE]
                 ELSE LET w == h[k - 1]
                          v == va + k - 1
                      IN  IF w.on /\ (w.g.pd[s][PDE_INDEX(v)] # Absent \/ CanAlloc(w.g))
                          THEN [w EXCEPT !.g = vm_map_page(w.g, s, v, pa + k - 1)]
                          ELSE [w EXCEPT !.on = FALSE]]
             run == CHOOSE h : Eq(h)
  <1>8. \A h : Eq(h) <=> h = [k \in 0 .. size |->
                 IF k = 0 THEN first ELSE MapTurn(h[k - 1], s, va + k - 1, pa + k - 1)]
    BY DEF MapTurn
  <1>9. Eq(f)
    <2>1. \A k \in 0 .. size : f[k] = IF k = 0 THEN first ELSE MapTurn(f[k - 1], s, va + k - 1, pa + k - 1)
      <3>1. \A k \in 0 .. size : k # 0 => k \in 1 .. size
        OBVIOUS
      <3> HIDE DEF first
      <3> QED
        BY <1>5, <1>7, <3>1
    <2>2. f = [k \in 0 .. size |-> IF k = 0 THEN first ELSE MapTurn(f[k - 1], s, va + k - 1, pa + k - 1)]
      <3> HIDE DEF first
      <3> QED
        BY <2>1
    <2> HIDE DEF Eq, first
    <2> QED
      BY <1>8, <2>2
  <1>10. Eq(run)
    <2> HIDE DEF Eq
    <2> QED
      BY <1>9
  <1>11. vm_map_impl(g0, s, va, pa, size) = run[size].g
    BY DEF vm_map_impl
  <1>12. run = [k \in 0 .. size |-> IF k = 0 THEN first ELSE MapTurn(run[k - 1], s, va + k - 1, pa + k - 1)]
    <2> HIDE DEF Eq, first, run
    <2> QED
      BY <1>8, <1>10
  <1> HIDE DEF run, Eq
  <1>13. run[0] = first /\ \A m \in 1 .. size : run[m] = MapTurn(run[m - 1], s, va + m - 1, pa + m - 1)
    <2>1. 0 \in 0 .. size
      OBVIOUS
    <2>2. \A k \in 0 .. size : run[k] = IF k = 0 THEN first ELSE MapTurn(run[k - 1], s, va + k - 1, pa + k - 1)
      BY <1>12
    <2> HIDE DEF first
    <2> QED
      BY <1>6, <2>1, <2>2
  <1>14. run \in [0 .. size -> WalkType]
    <2> DEFINE T == {k \in 0 .. size : run[k] \in WalkType}
    <2>1. 0 \in T
      <3>1. 0 \in 0 .. size
        OBVIOUS
      <3> HIDE DEF first
      <3> QED
        BY <1>1, <1>13, <3>1
    <2>2. ASSUME NEW k \in 1 .. size, k - 1 \in T PROVE k \in T
      BY <1>2, <1>6, <1>13, <2>2
    <2>3. \A k \in 0 .. size : k \in T
      <3> HIDE DEF T
      <3> QED
        BY <2>1, <2>2, CountUp
    <2>4. \A k \in 0 .. size : run[k] \in WalkType
      BY <2>3
    <2>5. PICK h : h = [k \in 0 .. size |-> IF k = 0 THEN first ELSE MapTurn(run[k - 1], s, va + k - 1, pa + k - 1)]
      OBVIOUS
    <2>6. run = h /\ DOMAIN h = 0 .. size
      BY <1>12, <2>5
    <2> QED
      BY <2>4, <2>5, <2>6
  <1>15. Walks(run, g0, s, va, pa, size)
    BY <1>13, <1>14 DEF Walks
  <1> QED
    BY <1>11, <1>15
-----------------------------------------------------------------------------
(* Address spaces: the pages of a process.                                 *)

Reach(dirs, tabs, s, va) ==
  IF dirs[s][PDE_INDEX(va)] = Absent THEN Absent
  ELSE tabs[dirs[s][PDE_INDEX(va)]][PTE_INDEX(va)]

\* The page that is entry y of table x.
PageOf(x, y) == (x - 1) * PAGE_TABLE_ENTRIES + y

\* An entry is at one place.
LEMMA PlacesDiffer ==
    ASSUME NEW x \in 1 .. Tables, NEW y \in Ptes, NEW z \in 1 .. Tables, NEW u \in Ptes,
           PageOf(x, y) = PageOf(z, u)
    PROVE  x = z /\ y = u
  <1> DEFINE E == PAGE_TABLE_ENTRIES
  <1>1. E \in Nat \ {0} /\ {x, y, z, u} \subseteq Nat /\ y < E /\ u < E /\ x >= 1 /\ z >= 1
    BY TablesAre DEF Ptes
  <1>2. (x - 1) * E + y = (z - 1) * E + u
    BY DEF PageOf
  <1>3. {(x - 1) * E, (z - 1) * E} \subseteq Nat
    BY <1>1
  <1>4. ASSUME x < z PROVE FALSE
    <2>1. (z - 1) * E >= x * E /\ x * E = (x - 1) * E + E
      BY <1>1, <1>4
    <2> QED
      BY <1>1, <1>2, <1>3, <2>1
  <1>5. ASSUME z < x PROVE FALSE
    <2>1. (x - 1) * E >= z * E /\ z * E = (z - 1) * E + E
      BY <1>1, <1>5
    <2> QED
      BY <1>1, <1>2, <1>3, <2>1
  <1>6. x = z
    BY <1>1, <1>4, <1>5
  <1> QED
    BY <1>1, <1>2, <1>3, <1>6

\* h is g with tables for slot s from the pool, k of them, and nothing else.
Extended(h, g, s, k) ==
  /\ h \in PagingType
  /\ k \in 0 .. Tables /\ h.next = g.next + k
  /\ \A t \in Spaces \ {s} : h.pd[t] = g.pd[t]
  /\ \A x \in Pdes : x \notin 1 .. Tables => h.pd[s][x] = g.pd[s][x]
  /\ \A x \in 1 .. Tables : h.pd[s][x] = IF x <= k THEN g.next + x - 1 ELSE Absent
  /\ \A w \in Pages : w < g.next => h.pt[w] = g.pt[w]
  /\ \A x \in 1 .. Tables, y \in Ptes :
       x <= k => h.pt[g.next + x - 1][y] \in {Frame(s, PageOf(x, y)), Absent}

\* The first m pages are mapped.
Filled(h, g, s, k, m) ==
  \A x \in 1 .. Tables, y \in Ptes :
    x <= k /\ PageOf(x, y) < m => h.pt[g.next + x - 1][y] = Frame(s, PageOf(x, y))

\* After m turns.
WalkedTo(w, g, s, m) ==
  /\ w \in WalkType
  /\ \E k \in 0 .. Tables :
       /\ Extended(w.g, g, s, k)
       /\ w.on => /\ (k - 1) * PAGE_TABLE_ENTRIES < m /\ m <= k * PAGE_TABLE_ENTRIES
                  /\ Filled(w.g, g, s, k, m)
  /\ ~w.on => g.next + Tables > MM_PAGING_PAGES_TOTAL

\* Whether the next page is in the last table or in a new one.
LEMMA NextPlace ==
    ASSUME NEW k \in 0 .. Tables, NEW p \in 0 .. ProcPages - 1, NEW x, NEW y, PageAt(p, x, y),
           (k - 1) * PAGE_TABLE_ENTRIES < p, p <= k * PAGE_TABLE_ENTRIES
    PROVE  \/ x = k /\ p + 1 <= k * PAGE_TABLE_ENTRIES
           \/ /\ x = k + 1 /\ y = 0 /\ p = k * PAGE_TABLE_ENTRIES
              /\ p + 1 <= (k + 1) * PAGE_TABLE_ENTRIES
  <1> DEFINE E == PAGE_TABLE_ENTRIES
  <1>1. /\ E \in Nat \ {0} /\ Tables \in Nat /\ {k, p, x, y} \subseteq Nat /\ y < E /\ x >= 1
        /\ p = (x - 1) * E + y
    BY TablesAre DEF PageAt, Ptes
  <1>2. (x - 1) * E \in Nat /\ x * E = (x - 1) * E + E /\ k * E \in Nat /\ (k + 1) * E = k * E + E
    BY <1>1
  <1>3. ASSUME x > k + 1 PROVE FALSE
    <2>1. (x - 1) * E >= (k + 1) * E
      BY <1>1, <1>3
    <2> QED
      BY <1>1, <1>2, <2>1
  <1>4. ASSUME x < k PROVE FALSE
    <2>1. (k - 1) * E >= x * E
      BY <1>1, <1>4
    <2>2. (k - 1) * E \in Int
      BY <1>1
    <2> QED
      BY <1>1, <1>2, <2>1, <2>2
  <1>5. CASE x = k
    BY <1>1, <1>2, <1>5
  <1>6. CASE x = k + 1
    BY <1>1, <1>2, <1>6
  <1> QED
    BY <1>1, <1>3, <1>4, <1>5, <1>6

LEMMA WalkOn ==
    ASSUME NEW g \in PagingType, NEW s \in Slots, NEW m \in 1 .. ProcPages, NEW w,
           \A x \in 1 .. Tables : g.pd[s][x] = Absent,
           WalkedTo(w, g, s, m - 1)
    PROVE  WalkedTo(MapTurn(w, s, ProcessVa + m - 1, PROCESS_PA_START + s * ProcPages + m - 1), g, s, m)
  <1> DEFINE va == ProcessVa + m - 1
             pa == PROCESS_PA_START + s * ProcPages + m - 1
             after == MapTurn(w, s, va, pa)
             p == m - 1
  <1>0. /\ p \in 0 .. ProcPages - 1 /\ m = p + 1 /\ m \in Nat /\ s \in Spaces
        /\ Tables \in Nat \ {0} /\ PAGE_TABLE_ENTRIES \in Nat \ {0} /\ g.next \in Nat
        /\ 1 .. Tables \subseteq Pdes
    BY TablesAre, KernelLies DEF Spaces, PagingType
  <1>1. va = ProcessVa + p /\ pa = Frame(s, p)
    BY <1>0, TablesAre DEF ProcessVa, Frame, PROCESS_PA_START, Slots
  <1>2. PICK x, y : PageAt(p, x, y)
    BY <1>0, PagesLie
  <1>3. /\ x \in 1 .. Tables /\ y \in Ptes /\ PDE_INDEX(va) = x /\ PTE_INDEX(va) = y
        /\ p = PageOf(x, y)
    BY <1>1, <1>2 DEF PageAt, PageOf
  <1>4. pa \in Frames /\ x \in Pdes
    BY <1>0, <1>1, <1>3, FramesLie
  <1>5. PICK k \in 0 .. Tables :
          /\ Extended(w.g, g, s, k)
          /\ w.on => /\ (k - 1) * PAGE_TABLE_ENTRIES < p /\ p <= k * PAGE_TABLE_ENTRIES
                     /\ Filled(w.g, g, s, k, p)
    BY DEF WalkedTo
  <1>6. /\ w.g \in PagingType /\ w.on \in BOOLEAN /\ w = [g |-> w.g, on |-> w.on]
        /\ w.g.next = g.next + k
    BY <1>5 DEF WalkedTo, WalkType, Extended
  <1> HIDE DEF va, pa, p
  <1>7. CASE ~w.on
    <2>1. after = w
      BY <1>6, <1>7 DEF MapTurn
    <2> HIDE DEF after
    <2> QED
      BY <1>7, <2>1 DEF WalkedTo, after, va, pa
  <1>8. CASE w.on /\ ~ (w.g.pd[s][x] # Absent \/ CanAlloc(w.g))
    <2>1. after = [g |-> w.g, on |-> FALSE]
      BY <1>3, <1>6, <1>8 DEF MapTurn
    <2>2. k < Tables
      <3>1. w.g.pd[s][x] = IF x <= k THEN g.next + x - 1 ELSE Absent
        BY <1>3, <1>5 DEF Extended
      <3>2. ~ (x <= k)
        BY <1>0, <1>3, <1>8, <3>1 DEF Absent
      <3> QED
        BY <1>0, <1>3, <3>2
    <2>3. g.next + Tables > MM_PAGING_PAGES_TOTAL
      BY <1>0, <1>6, <1>8, <2>2, TablesAre DEF CanAlloc
    <2>4. after \in WalkType /\ after.g = w.g /\ ~after.on
      BY <1>6, <2>1 DEF WalkType
    <2> HIDE DEF after
    <2>5. WalkedTo(after, g, s, m)
      BY <1>5, <2>3, <2>4 DEF WalkedTo
    <2> QED
      BY <2>5 DEF after, va, pa
  <1>9. CASE w.on /\ (w.g.pd[s][x] # Absent \/ CanAlloc(w.g))
    <2>1. PICK h : h = vm_map_page(w.g, s, va, pa)
      OBVIOUS
    <2>2. after = [g |-> h, on |-> TRUE]
      BY <1>3, <1>6, <1>9, <2>1 DEF MapTurn
    <2>3. h \in PagingType /\ PageMapped(h, w.g, s, x, y, pa)
      BY <1>0, <1>3, <1>4, <1>6, <1>9, <2>1, MapPage
    <2>4. after \in WalkType /\ after.g = h /\ after.on
      BY <2>2, <2>3 DEF WalkType
    <2> HIDE DEF after
    <2>5. \/ x = k /\ p + 1 <= k * PAGE_TABLE_ENTRIES
          \/ /\ x = k + 1 /\ y = 0 /\ p = k * PAGE_TABLE_ENTRIES
             /\ p + 1 <= (k + 1) * PAGE_TABLE_ENTRIES
      BY <1>0, <1>2, <1>5, <1>9, NextPlace
    <2>6. /\ g.pd \in [Spaces -> [Pdes -> Pages \cup {Absent}]]
          /\ w.g.pd \in [Spaces -> [Pdes -> Pages \cup {Absent}]]
          /\ w.g.pt \in [Pages -> [Ptes -> Frames \cup {Absent}]]
          /\ w.g.next \in 0 .. MM_PAGING_PAGES_TOTAL
      BY <1>6 DEF PagingType
    <2>7. CASE x = k
      <3>1. w.g.pd[s][x] = g.next + k - 1 /\ g.next + k - 1 \in Pages
        <4>1. w.g.pd[s][x] = g.next + k - 1
          BY <1>0, <1>3, <1>5, <2>7 DEF Extended
        <4>2. g.next + k - 1 \in 0 .. MM_PAGING_PAGES_TOTAL
          BY <1>0, <1>3, <1>6, <2>6, <2>7, TablesAre
        <4> QED
          BY <4>1, <4>2, PoolPages
      <3>2. w.g.pd[s][x] # Absent
        BY <3>1, PoolPages
      <3>3. /\ h.next = w.g.next /\ h.pd = w.g.pd
            /\ h.pt = [w.g.pt EXCEPT ![g.next + k - 1] = [@ EXCEPT ![y] = pa]]
        BY <2>3, <3>1, <3>2 DEF PageMapped
      <3>4. /\ \A z \in Pages : z # g.next + k - 1 => h.pt[z] = w.g.pt[z]
            /\ \A u \in Ptes : h.pt[g.next + k - 1][u] = IF u = y THEN pa ELSE w.g.pt[g.next + k - 1][u]
        BY <1>3, <2>6, <3>1, <3>3
      <3>5. \A z \in 1 .. Tables : z <= k => g.next + z - 1 \in Pages
        <4>1. \A z \in 1 .. Tables : z <= k => g.next + z - 1 \in 0 .. MM_PAGING_PAGES_TOTAL
          BY <1>0, <1>6, <2>6, TablesAre
        <4> QED
          BY <4>1, PoolPages
      <3>6. \A z \in 1 .. Tables, u \in Ptes : z <= k =>
              h.pt[g.next + z - 1][u] =
                IF z = x /\ u = y THEN pa ELSE w.g.pt[g.next + z - 1][u]
        BY <1>0, <2>7, <3>4, <3>5
      <3>7. Extended(h, g, s, k)
        <4>1. \A z \in Pages : z < g.next => h.pt[z] = g.pt[z]
          BY <1>0, <1>3, <1>5, <2>7, <3>4, PoolPages DEF Extended
        <4>2. \A z \in 1 .. Tables, u \in Ptes :
                z <= k => h.pt[g.next + z - 1][u] \in {Frame(s, PageOf(z, u)), Absent}
          BY <1>1, <1>3, <1>5, <3>6 DEF Extended
        <4> QED
          BY <1>5, <2>3, <3>3, <4>1, <4>2 DEF Extended
      <3>8. Filled(h, g, s, k, m)
        <4> SUFFICES ASSUME NEW z \in 1 .. Tables, NEW u \in Ptes, z <= k, PageOf(z, u) < m
                     PROVE  h.pt[g.next + z - 1][u] = Frame(s, PageOf(z, u))
          BY DEF Filled
        <4>1. CASE z = x /\ u = y
          BY <1>1, <1>3, <3>6, <4>1
        <4>2. CASE ~ (z = x /\ u = y)
          <5>1. PageOf(z, u) # p
            BY <1>3, <4>2, PlacesDiffer
          <5>2. PageOf(z, u) \in Int /\ p \in Int
            BY <1>0 DEF PageOf, Ptes
          <5>3. PageOf(z, u) < p
            BY <1>0, <5>1, <5>2
          <5>4. w.g.pt[g.next + z - 1][u] = Frame(s, PageOf(z, u))
            BY <1>5, <1>9, <5>3 DEF Filled
          <5> QED
            BY <3>6, <4>2, <5>4
        <4> QED
          BY <4>1, <4>2
      <3>9. (k - 1) * PAGE_TABLE_ENTRIES < m /\ m <= k * PAGE_TABLE_ENTRIES
        <4>1. (k - 1) * PAGE_TABLE_ENTRIES \in Int /\ k * PAGE_TABLE_ENTRIES \in Int
          BY <1>0
        <4>2. x # k + 1
          BY <1>0, <2>7
        <4> QED
          BY <1>0, <1>5, <1>9, <2>5, <4>1, <4>2
      <3>10. WalkedTo(after, g, s, m)
        BY <2>4, <3>7, <3>8, <3>9 DEF WalkedTo
      <3> QED
        BY <3>10 DEF after, va, pa
    <2>8. CASE x = k + 1 /\ y = 0 /\ p = k * PAGE_TABLE_ENTRIES
               /\ p + 1 <= (k + 1) * PAGE_TABLE_ENTRIES
      <3>1. w.g.pd[s][x] = Absent
        BY <1>0, <1>3, <1>5, <2>8 DEF Extended
      <3>2. /\ CanAlloc(w.g) /\ h.next = g.next + (k + 1)
            /\ h.pd = [w.g.pd EXCEPT ![s] = [@ EXCEPT ![x] = g.next + k]]
            /\ h.pt = [w.g.pt EXCEPT ![g.next + k] = [NoPages EXCEPT ![y] = pa]]
        BY <1>0, <1>6, <2>3, <3>1 DEF PageMapped
      <3>3. g.next + k \in Pages
        BY <1>6, <2>6, PoolPages
      <3>4. /\ \A z \in Pages : z # g.next + k => h.pt[z] = w.g.pt[z]
            /\ \A u \in Ptes : h.pt[g.next + k][u] = IF u = y THEN pa ELSE Absent
        BY <1>3, <2>6, <3>2, <3>3 DEF NoPages
      <3>5. /\ \A t \in Spaces \ {s} : h.pd[t] = w.g.pd[t]
            /\ \A z \in Pdes : h.pd[s][z] = IF z = x THEN g.next + k ELSE w.g.pd[s][z]
        BY <1>0, <1>4, <2>6, <3>2
      <3>6. k + 1 \in 0 .. Tables
        BY <1>0, <1>3, <2>8
      <3>7. \A z \in 1 .. Tables : z <= k => g.next + z - 1 \in Pages /\ g.next + z - 1 # g.next + k
        <4>1. \A z \in 1 .. Tables : z <= k => g.next + z - 1 \in 0 .. MM_PAGING_PAGES_TOTAL
          BY <1>0, <1>6, <2>6, TablesAre
        <4>2. \A z \in 1 .. Tables : z <= k => g.next + z - 1 # g.next + k
          BY <1>0
        <4> QED
          BY <4>1, <4>2, PoolPages
      <3>8. Extended(h, g, s, k + 1)
        <4>1. \A z \in Pages : z < g.next => h.pt[z] = g.pt[z]
          BY <1>0, <1>5, <3>4, PoolPages DEF Extended
        <4>2. ASSUME NEW z \in 1 .. Tables
              PROVE  h.pd[s][z] = IF z <= k + 1 THEN g.next + z - 1 ELSE Absent
          <5>1. w.g.pd[s][z] = IF z <= k THEN g.next + z - 1 ELSE Absent
            BY <1>5 DEF Extended
          <5>2. h.pd[s][z] = IF z = k + 1 THEN g.next + k ELSE w.g.pd[s][z]
            BY <1>0, <2>8, <3>5
          <5> QED
            BY <1>0, <5>1, <5>2
        <4>3. \A z \in Pdes : z \notin 1 .. Tables => h.pd[s][z] = g.pd[s][z]
          BY <1>3, <1>5, <3>5 DEF Extended
        <4>4. ASSUME NEW z \in 1 .. Tables, NEW u \in Ptes, z <= k + 1
              PROVE  h.pt[g.next + z - 1][u] \in {Frame(s, PageOf(z, u)), Absent}
          <5>1. CASE z <= k
            BY <1>5, <3>4, <3>7, <5>1 DEF Extended
          <5>2. CASE z = k + 1
            <6>1. g.next + z - 1 = g.next + k
              BY <1>0, <5>2
            <6> QED
              BY <1>1, <1>3, <2>8, <3>4, <5>2, <6>1
          <5> QED
            BY <1>0, <4>4, <5>1, <5>2
        <4>5. \A t \in Spaces \ {s} : h.pd[t] = g.pd[t]
          BY <1>5, <3>5 DEF Extended
        <4> QED
          BY <2>3, <3>2, <3>6, <4>1, <4>2, <4>3, <4>4, <4>5 DEF Extended
      <3>9. Filled(h, g, s, k + 1, m)
        <4> SUFFICES ASSUME NEW z \in 1 .. Tables, NEW u \in Ptes, z <= k + 1, PageOf(z, u) < m
                     PROVE  h.pt[g.next + z - 1][u] = Frame(s, PageOf(z, u))
          BY DEF Filled
        <4>0. u \in Nat /\ k \in Nat /\ k * PAGE_TABLE_ENTRIES \in Nat
          BY <1>0 DEF Ptes
        <4>1. CASE z <= k
          <5>1. PageOf(z, u) # p
            BY <1>0, <1>3, <2>8, <4>1, PlacesDiffer
          <5>2. PageOf(z, u) \in Int /\ p \in Int
            BY <1>0, <4>0 DEF PageOf
          <5>3. PageOf(z, u) < p
            BY <1>0, <5>1, <5>2
          <5>4. w.g.pt[g.next + z - 1][u] = Frame(s, PageOf(z, u))
            BY <1>5, <1>9, <4>1, <5>3 DEF Filled
          <5> QED
            BY <3>4, <3>7, <4>1, <5>4
        <4>2. CASE z = k + 1
          <5>1. PageOf(z, u) = k * PAGE_TABLE_ENTRIES + u /\ g.next + z - 1 = g.next + k
            BY <1>0, <4>0, <4>2 DEF PageOf
          <5>2. u = 0
            BY <1>0, <2>8, <4>0, <5>1
          <5> QED
            BY <1>1, <2>8, <3>4, <4>0, <5>1, <5>2
        <4> QED
          BY <1>0, <4>1, <4>2
      <3>10. ((k + 1) - 1) * PAGE_TABLE_ENTRIES < m /\ m <= (k + 1) * PAGE_TABLE_ENTRIES
        <4>1. (k + 1) - 1 = k /\ k * PAGE_TABLE_ENTRIES \in Nat
          BY <1>0
        <4> QED
          BY <1>0, <2>8, <4>1
      <3>11. WalkedTo(after, g, s, m)
        BY <2>4, <3>6, <3>8, <3>9, <3>10 DEF WalkedTo
      <3> QED
        BY <3>11 DEF after, va, pa
    <2> QED
      BY <2>5, <2>7, <2>8
  <1> QED
    BY <1>3, <1>6, <1>7, <1>8, <1>9

\* The whole loop: as many tables as the pool has, all when it has enough.
LEMMA ProcessMapped ==
    ASSUME NEW g \in PagingType, NEW s \in Slots, \A x \in 1 .. Tables : g.pd[s][x] = Absent
    PROVE  LET h == vm_map_impl(g, s, ProcessVa, PROCESS_PA_START + s * ProcPages, ProcPages)
           IN  \E k \in 0 .. Tables :
                 /\ Extended(h, g, s, k)
                 /\ g.next + Tables <= MM_PAGING_PAGES_TOTAL =>
                      k = Tables /\ Filled(h, g, s, k, ProcPages)
  <1> DEFINE va == ProcessVa
             pa == PROCESS_PA_START + s * ProcPages
  <1>0. /\ ProcPages \in Nat \ {0} /\ Tables \in Nat \ {0} /\ PAGE_TABLE_ENTRIES \in Nat \ {0}
        /\ va \in Nat /\ pa \in Nat /\ s \in Spaces /\ g.next \in Nat
        /\ MM_PAGING_PAGES_TOTAL \in Nat
    <2>1. s \in Nat /\ ProcPages \in Nat
      BY TablesAre DEF Slots
    <2>2. s * ProcPages \in Nat
      BY <2>1
    <2> QED
      BY <2>2, TablesAre DEF ProcessVa, PROCESS_PA_START, Spaces, PagingType
  <1>1. Mappable(va, pa, ProcPages)
    <2> SUFFICES ASSUME NEW m \in 1 .. ProcPages
                 PROVE  /\ PDE_INDEX(va + m - 1) \in Pdes /\ PTE_INDEX(va + m - 1) \in Ptes
                        /\ pa + m - 1 \in Frames
      BY DEF Mappable
    <2>1. PICK p \in 0 .. ProcPages - 1 : p = m - 1
      BY <1>0
    <2>2. va + m - 1 = ProcessVa + p /\ pa + m - 1 = Frame(s, p)
      BY <1>0, <2>1 DEF Frame
    <2>3. PDE_INDEX(ProcessVa + p) \in 1 .. Tables /\ PTE_INDEX(ProcessVa + p) \in Ptes
      BY PagesLie DEF PageAt
    <2>4. PDE_INDEX(ProcessVa + p) \in Pdes
      BY <1>0, <2>3, KernelLies
    <2> QED
      BY <2>2, <2>3, <2>4, FramesLie
  <1> HIDE DEF va, pa
  <1>2. PICK f : Walks(f, g, s, va, pa, ProcPages) /\ vm_map_impl(g, s, va, pa, ProcPages) = f[ProcPages].g
    BY <1>0, <1>1, MapRuns
  <1>3. \A m \in 0 .. ProcPages : WalkedTo(f[m], g, s, m)
    <2> DEFINE T == {m \in 0 .. ProcPages : WalkedTo(f[m], g, s, m)}
    <2>1. 0 \in T
      <3>a. 0 \in 0 .. ProcPages
        BY <1>0
      <3>1. f[0] = [g |-> g, on |-> TRUE] /\ f[0] \in WalkType /\ 0 \in 0 .. ProcPages
        BY <1>2, <3>a DEF Walks
      <3>2. f[0].g = g /\ f[0].on
        BY <3>1
      <3>3. Extended(g, g, s, 0)
        BY <1>0 DEF Extended
      <3>4. Filled(g, g, s, 0, 0)
        BY DEF Filled
      <3>5. (0 - 1) * PAGE_TABLE_ENTRIES < 0 /\ 0 <= 0 * PAGE_TABLE_ENTRIES /\ 0 \in 0 .. Tables
        BY <1>0
      <3>6. WalkedTo(f[0], g, s, 0)
        BY <3>1, <3>2, <3>3, <3>4, <3>5 DEF WalkedTo
      <3> QED
        BY <3>1, <3>6
    <2>2. ASSUME NEW m \in 1 .. ProcPages, m - 1 \in T PROVE m \in T
      <3>1. f[m] = MapTurn(f[m - 1], s, va + m - 1, pa + m - 1)
        BY <1>2 DEF Walks
      <3>2. PICK w : w = f[m - 1]
        OBVIOUS
      <3>3. WalkedTo(w, g, s, m - 1)
        BY <2>2, <3>2
      <3>4. WalkedTo(MapTurn(w, s, ProcessVa + m - 1, PROCESS_PA_START + s * ProcPages + m - 1), g, s, m)
        BY <3>3, WalkOn
      <3>5. m \in 0 .. ProcPages
        OBVIOUS
      <3> QED
        BY <3>1, <3>2, <3>4, <3>5 DEF va, pa
    <2>3. \A m \in 0 .. ProcPages : m \in T
      <3> HIDE DEF T
      <3> QED
        BY <1>0, <2>1, <2>2, CountUp
    <2> QED
      BY <2>3
  <1>4. WalkedTo(f[ProcPages], g, s, ProcPages)
    BY <1>0, <1>3
  <1>5. PICK h : h = f[ProcPages].g
    OBVIOUS
  <1>6. PICK k \in 0 .. Tables :
          /\ Extended(h, g, s, k)
          /\ f[ProcPages].on =>
               /\ (k - 1) * PAGE_TABLE_ENTRIES < ProcPages /\ ProcPages <= k * PAGE_TABLE_ENTRIES
               /\ Filled(h, g, s, k, ProcPages)
    BY <1>4, <1>5 DEF WalkedTo
  <1>7. ASSUME g.next + Tables <= MM_PAGING_PAGES_TOTAL
        PROVE  k = Tables /\ Filled(h, g, s, k, ProcPages)
    <2>1. f[ProcPages].on
      BY <1>0, <1>4, <1>7 DEF WalkedTo
    <2>2. ~ (k < Tables)
      <3> SUFFICES ASSUME k < Tables PROVE FALSE
        OBVIOUS
      <3>1. k * PAGE_TABLE_ENTRIES <= (Tables - 1) * PAGE_TABLE_ENTRIES
        BY <1>0
      <3>2. k * PAGE_TABLE_ENTRIES \in Int /\ (Tables - 1) * PAGE_TABLE_ENTRIES \in Int
        BY <1>0
      <3>3. (Tables - 1) * PAGE_TABLE_ENTRIES < ProcPages
        BY TablesAre
      <3> QED
        BY <1>0, <1>6, <2>1, <3>1, <3>2, <3>3
    <2> QED
      BY <1>0, <1>6, <2>1, <2>2
  <1> QED
    BY <1>2, <1>5, <1>6, <1>7 DEF va, pa

\* What that makes of the addresses of the process.
LEMMA ProcessReaches ==
    ASSUME NEW h, NEW g \in PagingType, NEW s \in Slots, NEW k \in 0 .. Tables, Extended(h, g, s, k),
           NEW p \in 0 .. ProcPages - 1
    PROVE  /\ Reach(h.pd, h.pt, s, ProcessVa + p) \in {Frame(s, p), Absent}
           /\ k = Tables /\ Filled(h, g, s, k, ProcPages) =>
                Reach(h.pd, h.pt, s, ProcessVa + p) = Frame(s, p)
  <1>1. PICK x, y : PageAt(p, x, y)
    BY PagesLie
  <1>2. /\ x \in 1 .. Tables /\ y \in Ptes /\ p = PageOf(x, y)
        /\ PDE_INDEX(ProcessVa + p) = x /\ PTE_INDEX(ProcessVa + p) = y
    BY <1>1 DEF PageAt, PageOf
  <1>3. Reach(h.pd, h.pt, s, ProcessVa + p) = IF h.pd[s][x] = Absent THEN Absent ELSE h.pt[h.pd[s][x]][y]
    BY <1>2 DEF Reach
  <1>4. h.pd[s][x] = IF x <= k THEN g.next + x - 1 ELSE Absent
    BY <1>2 DEF Extended
  <1>5. x <= k => h.pt[g.next + x - 1][y] \in {Frame(s, p), Absent}
    BY <1>2 DEF Extended
  <1>6. g.next + x - 1 # Absent /\ Tables \in Nat /\ ProcPages \in Nat
    BY <1>2, TablesAre DEF PagingType, Absent
  <1>7. Reach(h.pd, h.pt, s, ProcessVa + p) \in {Frame(s, p), Absent}
    BY <1>3, <1>4, <1>5
  <1>8. ASSUME k = Tables, Filled(h, g, s, k, ProcPages)
        PROVE  Reach(h.pd, h.pt, s, ProcessVa + p) = Frame(s, p)
    <2>1. x <= k /\ PageOf(x, y) < ProcPages
      BY <1>2, <1>6, <1>8
    <2>2. h.pt[g.next + x - 1][y] = Frame(s, p)
      BY <1>2, <1>8, <2>1 DEF Filled
    <2> QED
      BY <1>3, <1>4, <1>6, <2>1, <2>2
  <1> QED
    BY <1>7, <1>8
-----------------------------------------------------------------------------
(* Address spaces: what boot sets up and running keeps.                    *)

\* What the tables are: the window's is page 0, a slot has its own for its
\* process, and they lead to its region; slot 0 has all of them.
Wired ==
  /\ next >= 1 /\ (vma = {} => next = 1)
  /\ \E m \in 0 .. MAX_PROCESS_CNT : vma = 0 .. m - 1
  /\ \A s \in vma \cup {KernelMm} : pd[s][Window] = 0
  /\ \A x \in 1 .. Tables : pd[KernelMm][x] = Absent
  /\ \A s \in vma, x \in 1 .. Tables : pd[s][x] # Absent => pd[s][x] \in 1 .. next - 1
  /\ \A s, t \in vma, x, z \in 1 .. Tables : pd[s][x] # Absent /\ pd[s][x] = pd[t][z] => s = t
  /\ \A s \in vma, p \in 0 .. ProcPages - 1 : Reach(pd, pt, s, ProcessVa + p) \in {Frame(s, p), Absent}
  /\ 0 \in vma => \A p \in 0 .. ProcPages - 1 : Reach(pd, pt, 0, ProcessVa + p) = Frame(0, p)

\* The processor remembers what the tables say.
TlbTrue(t) ==
  \A va \in DOMAIN t : /\ va \in ProcessVas \cup WindowVas
                       /\ t[va] = Reach(pd, pt, cr3, va) /\ t[va] \in Frames

WindowShut == DOMAIN tlb \cap WindowVas = {} /\ pt[0][0] = Absent /\ pt[0][1] = Absent

\* Fork has copied page p.
Copied(p) ==
  /\ Reach(pd, pt, copy.to, ProcessVa + p) = Frame(copy.to, p)
  /\ mem[Frame(copy.to, p)] = mem[Frame(cr3, p)]

\* Where fork is.
Copying ==
  /\ copy.step = "idle" <=> copy = Nobody
  /\ copy.step \in {"idle", "arm"} => WindowShut
  /\ copy.step # "idle" =>
       /\ phase \in {"run", "panic"}
       /\ copy.to \in vma \ live /\ cr3 \in live
       /\ \A p \in 0 .. copy.page - 1 : Copied(p)
  /\ copy.step = "copy" =>
       /\ DOMAIN tlb \cap WindowVas = {}
       /\ Reach(pd, pt, copy.to, ProcessVa + copy.page) = Frame(copy.to, copy.page)
       /\ pt[0][0] = Frame(cr3, copy.page) /\ pt[0][1] = Frame(copy.to, copy.page)
  /\ copy.step = "disarm" => Copied(copy.page)

Kept ==
  /\ phase = "table" => live = {} /\ copy = Nobody /\ DOMAIN tlb = {} /\ cr3 = KernelMm
  /\ live \subseteq vma /\ cr3 \in live \cup {KernelMm}
  /\ \A s \in live, p \in 0 .. ProcPages - 1 : Reach(pd, pt, s, ProcessVa + p) = Frame(s, p)
  /\ TlbTrue(tlb)
  /\ Copying
  /\ StackArgsArrive

MmInv ==
  /\ MmTypeOK
  /\ phase = "boot" => MmInit
  /\ phase # "boot" => Wired /\ Kept

\* The same address as the module says it.
LEMMA ReachIs ==
    /\ \A s, va : mm_va_to_pa(s, va) = Reach(pd, pt, s, va)
    /\ \A s, va : mm_va_to_pa(s, va)' = Reach(pd', pt', s, va)
  BY DEF mm_va_to_pa, Reach

\* A process's pages by their addresses.
LEMMA VaReaches ==
    ASSUME Wired, NEW s \in vma, NEW va \in ProcessVas
    PROVE  /\ va - ProcessVa \in 0 .. ProcPages - 1
           /\ Reach(pd, pt, s, va) \in {Frame(s, va - ProcessVa), Absent}
  <1>1. va - ProcessVa \in 0 .. ProcPages - 1 /\ ProcessVa + (va - ProcessVa) = va
    BY VasArePages
  <1> QED
    BY <1>1 DEF Wired

LEMMA LiveReaches ==
    ASSUME Kept, NEW s \in live, NEW va \in ProcessVas
    PROVE  /\ va - ProcessVa \in 0 .. ProcPages - 1
           /\ Reach(pd, pt, s, va) = Frame(s, va - ProcessVa)
  <1>1. va - ProcessVa \in 0 .. ProcPages - 1 /\ ProcessVa + (va - ProcessVa) = va
    BY VasArePages
  <1> QED
    BY <1>1 DEF Kept

\* The window is the same in every space.
LEMMA WindowReaches ==
    ASSUME Wired, NEW s \in vma \cup {KernelMm}
    PROVE  /\ Reach(pd, pt, s, COPY_SRC_VA) = pt[0][0]
           /\ Reach(pd, pt, s, COPY_DST_VA) = pt[0][1]
  <1>1. pd[s][Window] = 0
    BY DEF Wired
  <1> QED
    BY <1>1, KernelLies DEF Reach, Absent

LEMMA SlotsAre ==
    ASSUME MmTypeOK, Wired
    PROVE  /\ vma \subseteq Slots /\ SlotsReady \in 0 .. MAX_PROCESS_CNT
           /\ vma = 0 .. SlotsReady - 1
  <1>1. PICK m \in 0 .. MAX_PROCESS_CNT : vma = 0 .. m - 1
    BY DEF Wired
  <1>2. m \in Nat /\ MAX_PROCESS_CNT \in Nat
    BY TablesAre
  <1>3. Cardinality(0 .. m - 1) = IF 0 > m - 1 THEN 0 ELSE (m - 1) - 0 + 1
    <2>1. 0 \in Int /\ m - 1 \in Int
      BY <1>2
    <2> QED
      BY <2>1, FS_Interval
  <1>4. Cardinality(0 .. m - 1) = m
    BY <1>2, <1>3
  <1> QED
    BY <1>1, <1>4 DEF SlotsReady, MmTypeOK

LEMMA MmInvCorrect ==
    MmInv => MmTypeOK /\ Isolation /\ WindowClosed /\ RunnersMapped /\ StackArgsArrive
  <1> SUFFICES ASSUME MmInv PROVE Isolation /\ WindowClosed /\ RunnersMapped /\ StackArgsArrive
    BY DEF MmInv
  <1>1. CASE phase = "boot"
    <2>1. vma = {} /\ args.from = Absent
      BY <1>1 DEF MmInv, MmInit, NoArgs
    <2>2. StackVa # Absent
      BY TablesAre DEF StackVa, ProcessVa, Absent
    <2> QED
      BY <1>1, <2>1, <2>2 DEF Isolation, WindowClosed, RunnersMapped, StackArgsArrive
  <1>2. CASE phase # "boot"
    <2>0. MmTypeOK /\ Wired /\ Kept
      BY <1>2 DEF MmInv
    <2>1. Isolation
      <3> SUFFICES ASSUME NEW s \in vma
                   PROVE  /\ \A va \in ProcessVas : mm_va_to_pa(s, va) \in
                               {PROCESS_PA_START + s * ProcPages + (va - ProcessVa), Absent}
                          /\ \A t \in vma \ {s}, va \in ProcessVas :
                               \/ pd[s][PDE_INDEX(va)] = Absent
                               \/ pd[s][PDE_INDEX(va)] # pd[t][PDE_INDEX(va)]
        BY DEF Isolation
      <3>1. \A va \in ProcessVas : mm_va_to_pa(s, va) \in {Frame(s, va - ProcessVa), Absent}
        BY <2>0, VaReaches, ReachIs
      <3>2. \A va \in ProcessVas : PDE_INDEX(va) \in 1 .. Tables
        <4> SUFFICES ASSUME NEW va \in ProcessVas PROVE PDE_INDEX(va) \in 1 .. Tables
          OBVIOUS
        <4>1. PICK p \in 0 .. ProcPages - 1 : ProcessVa + p = va
          BY VasArePages
        <4> QED
          BY <4>1, PagesLie DEF PageAt
      <3> QED
        BY <2>0, <3>1, <3>2 DEF Wired, Frame
    <2>2. WindowClosed
      <3> SUFFICES ASSUME copy.step \in {"idle", "arm"}, NEW va \in WindowVas
                   PROVE  /\ va \notin DOMAIN tlb
                          /\ \A s \in vma \cup {KernelMm} : mm_va_to_pa(s, va) = Absent
        BY DEF WindowClosed
      <3>1. WindowShut
        BY <2>0 DEF Kept, Copying
      <3>2. \A s \in vma \cup {KernelMm} : Reach(pd, pt, s, va) = Absent
        BY <2>0, <3>1, WindowReaches DEF WindowShut, WindowVas
      <3> QED
        BY <3>1, <3>2, ReachIs DEF WindowShut
    <2>3. RunnersMapped
      <3> SUFFICES ASSUME NEW s \in live, NEW va \in ProcessVas PROVE mm_va_to_pa(s, va) # Absent
        BY DEF RunnersMapped
      <3>1. s \in Slots
        BY <2>0 DEF MmTypeOK
      <3>2. Reach(pd, pt, s, va) = Frame(s, va - ProcessVa) /\ va - ProcessVa \in 0 .. ProcPages - 1
        BY <2>0, LiveReaches
      <3> QED
        BY <3>1, <3>2, FramesLie, ReachIs
    <2> QED
      BY <2>0, <2>1, <2>2, <2>3 DEF Kept
  <1> QED
    BY <1>1, <1>2

LEMMA MmInitial == MmInit => MmInv
  <1> SUFFICES ASSUME MmInit PROVE MmTypeOK
    BY DEF MmInv, MmInit
  <1>0. /\ Tables \in Nat \ {0} /\ PAGE_TABLE_ENTRIES \in Nat \ {0, 1} /\ ProcPages \in Nat \ {0}
        /\ MM_PAGING_PAGES_TOTAL \in Nat /\ MAX_PROCESS_CNT \in Nat \ {0}
    BY TablesAre
  <1>1. next \in 0 .. MM_PAGING_PAGES_TOTAL /\ phase = "boot" /\ vma = {} /\ live = {}
    BY <1>0 DEF MmInit
  <1>2. pd \in [Spaces -> [Pdes -> Pages \cup {Absent}]]
    <2>1. LowPt \in Pages /\ HighPt \in Pages
      BY <1>0, PoolPages DEF LowPt, HighPt
    <2>2. [NoTables EXCEPT ![0] = LowPt, ![PDE_INDEX(KernelVa)] = HighPt] \in [Pdes -> Pages \cup {Absent}]
      BY <2>1, PoolPages
    <2> QED
      BY <2>2, PoolPages DEF MmInit
  <1>3. pt \in [Pages -> [Ptes -> Frames \cup {Absent}]]
    <2>0. MAX_PROCESS_CNT * ProcPages \in Nat
      BY <1>0
    <2>1. PremainFrame \in Frames /\ VgaFrame \in Frames /\ KernelFrame \in Frames
      BY <2>0 DEF Frames, PremainFrame, VgaFrame, KernelFrame, PROCESS_PA_START
    <2>2. /\ [NoPages EXCEPT ![PremainVa] = PremainFrame, ![VgaVa] = VgaFrame] \in [Ptes -> Frames \cup {Absent}]
          /\ [NoPages EXCEPT ![0] = KernelFrame] \in [Ptes -> Frames \cup {Absent}]
      BY <2>1, PoolPages
    <2> QED
      BY <2>2, PoolPages DEF MmInit
  <1>4. cr3 \in Spaces /\ DOMAIN tlb = {} /\ mem \in [Frames -> Values]
    BY DEF MmInit, Flushed, Spaces, Values
  <1>5. copy \in [to : Slots \cup {Absent}, page : 0 .. (ProcPages - 1), step : {"idle", "arm", "copy", "disarm"}]
    <2>1. 0 \in 0 .. (ProcPages - 1)
      BY <1>0
    <2> QED
      BY <2>1 DEF MmInit, Nobody
  <1>6. args \in [from : {Absent} \cup ProcessVas, want : Values, have : Values]
    BY DEF MmInit, NoArgs, Values
  <1> QED
    BY <1>1, <1>2, <1>3, <1>4, <1>5, <1>6 DEF MmTypeOK

LEMMA PagingTyped ==
    ASSUME MmTypeOK
    PROVE  Paging \in PagingType /\ Paging.next = next /\ Paging.pd = pd /\ Paging.pt = pt
  BY DEF Paging, PagingType, MmTypeOK

\* mm_init takes one page of the pool, for the window.
LEMMA MmInitKeeps ==
    ASSUME MmInv, mm_init
    PROVE  MmInv'
  <1>0. /\ MmTypeOK /\ MmInit /\ phase = "boot"
        /\ next = 0 /\ vma = {} /\ live = {} /\ copy = Nobody /\ args = NoArgs /\ cr3 = KernelMm
    BY DEF MmInv, mm_init, MmInit
  <1>1. /\ Tables \in Nat \ {0} /\ MM_PAGING_PAGES_TOTAL \in Nat \ {0, 1} /\ PAGE_TABLE_ENTRIES \in Nat \ {0, 1}
        /\ KernelMm \in Spaces /\ 0 \in Pdes /\ Window \in Pdes /\ Window # 0 /\ 0 \in Pages /\ LowPt \in Pages
        /\ Window # PDE_INDEX(KernelVa) /\ 1 .. Tables \subseteq Pdes
        /\ \A x \in 1 .. Tables : x # 0 /\ x # PDE_INDEX(KernelVa) /\ x # Window
        /\ 0 # PDE_INDEX(KernelVa)
    <2>1. Tables \in Nat \ {0} /\ MM_PAGING_PAGES_TOTAL \in Nat \ {0, 1} /\ PAGE_TABLE_ENTRIES \in Nat \ {0, 1}
      BY TablesAre
    <2> QED
      BY <2>1, KernelLies, PoolPages DEF Spaces, LowPt
  <1>2. PICK unmapped : unmapped = vm_unmap_impl(Paging, KernelMm, {PremainVa})
    OBVIOUS
  <1>3. unmapped \in PagingType /\ unmapped.next = 0 /\ unmapped.pd = pd
    <2>1. PICK tabs : tabs = [p \in Pages |-> [e \in Ptes |->
            IF \E v \in {PremainVa} : Paging.pd[KernelMm][PDE_INDEX(v)] = p /\ PTE_INDEX(v) = e
            THEN Absent ELSE Paging.pt[p][e]]]
      OBVIOUS
    <2>2. unmapped = [Paging EXCEPT !.pt = tabs]
      BY <1>2, <2>1 DEF vm_unmap_impl
    <2>3. unmapped = [next |-> next, pd |-> pd, pt |-> tabs]
      BY <2>2 DEF Paging
    <2>4. Paging.pt \in [Pages -> [Ptes -> Frames \cup {Absent}]]
      BY <1>0, PagingTyped DEF MmTypeOK
    <2>5. tabs \in [Pages -> [Ptes -> Frames \cup {Absent}]]
      BY <2>1, <2>4
    <2> QED
      BY <1>0, <2>3, <2>5 DEF PagingType, MmTypeOK
  <1>4. PICK screen : screen = vm_map_impl(unmapped, KernelMm, VgaVa, VgaFrame, 1)
    OBVIOUS
  <1>5. screen \in PagingType /\ screen.next = 0 /\ screen.pd = pd
    <2>1. VgaVa \in Nat /\ VgaFrame \in Nat /\ VgaFrame \in Frames
      <3>1. MAX_PROCESS_CNT * ProcPages \in Nat
        BY TablesAre
      <3> QED
        BY <3>1 DEF VgaVa, VgaFrame, Frames, PROCESS_PA_START
    <2>2. VgaVa + 1 - 1 = VgaVa /\ VgaFrame + 1 - 1 = VgaFrame
      BY <2>1
    <2>3. PDE_INDEX(VgaVa) = 0 /\ PTE_INDEX(VgaVa) \in Ptes
      BY KernelLies
    <2>4. Mappable(VgaVa, VgaFrame, 1)
      <3>1. \A m \in 1 .. 1 : m = 1
        OBVIOUS
      <3> QED
        BY <1>1, <2>1, <2>2, <2>3, <3>1 DEF Mappable
    <2>5. PICK f : Walks(f, unmapped, KernelMm, VgaVa, VgaFrame, 1) /\ screen = f[1].g
      BY <1>1, <1>3, <1>4, <2>1, <2>4, MapRuns
    <2>6. f[0] = [g |-> unmapped, on |-> TRUE] /\ f[1] = MapTurn(f[0], KernelMm, VgaVa, VgaFrame)
      <3>1. 1 \in 1 .. 1 /\ 1 - 1 = 0
        OBVIOUS
      <3> QED
        BY <2>2, <2>5, <3>1 DEF Walks
    <2>7. unmapped.pd[KernelMm][0] = LowPt
      BY <1>0, <1>1, <1>3 DEF MmInit, NoTables
    <2>8. LowPt # Absent
      BY <1>1, PoolPages
    <2>9. screen = vm_map_page(unmapped, KernelMm, VgaVa, VgaFrame)
      BY <2>3, <2>5, <2>6, <2>7, <2>8 DEF MapTurn
    <2>10. screen \in PagingType /\ PageMapped(screen, unmapped, KernelMm, 0, PTE_INDEX(VgaVa), VgaFrame)
      BY <1>1, <1>3, <2>1, <2>3, <2>7, <2>8, <2>9, MapPage
    <2> QED
      BY <1>3, <2>7, <2>8, <2>10 DEF PageMapped
  <1>6. CanAlloc(screen)
    BY <1>1, <1>5 DEF CanAlloc
  <1>7. PICK g : g = [next |-> screen.next + 1,
                      pd |-> [screen.pd EXCEPT ![KernelMm][PDE_INDEX(COPY_SRC_VA)] = screen.next],
                      pt |-> [screen.pt EXCEPT ![screen.next] = NoPages]]
    OBVIOUS
  <1>8. /\ phase' = "table" /\ SetPaging(g) /\ mm_activate(g, KernelMm)
        /\ UNCHANGED <<vma, mem, live, copy, args>>
    BY <1>2, <1>4, <1>6, <1>7 DEF mm_init
  <1>9. /\ next' = 1 /\ pd' = [pd EXCEPT ![KernelMm] = [@ EXCEPT ![Window] = 0]]
        /\ pt' = [screen.pt EXCEPT ![0] = NoPages]
        /\ cr3' = KernelMm /\ DOMAIN tlb' = {}
    BY <1>5, <1>7, <1>8 DEF SetPaging, mm_activate, Window, Flushed
  <1>10. /\ pd' \in [Spaces -> [Pdes -> Pages \cup {Absent}]]
         /\ pd'[KernelMm][Window] = 0
         /\ \A x \in 1 .. Tables : pd'[KernelMm][x] = Absent
    <2>1. /\ pd \in [Spaces -> [Pdes -> Pages \cup {Absent}]]
          /\ \A x \in 1 .. Tables : pd[KernelMm][x] = Absent
      BY <1>0, <1>1 DEF MmTypeOK, MmInit, NoTables
    <2> QED
      BY <1>1, <1>9, <2>1
  <1>11. pt' \in [Pages -> [Ptes -> Frames \cup {Absent}]] /\ pt'[0] = NoPages
    BY <1>1, <1>5, <1>9, PoolPages DEF PagingType
  <1>12. MmTypeOK'
    BY <1>0, <1>1, <1>8, <1>9, <1>10, <1>11 DEF MmTypeOK
  <1>13. Wired'
    <2>1. vma' = {} /\ vma' = 0 .. 0 - 1 /\ 0 \in 0 .. MAX_PROCESS_CNT
      BY <1>0, <1>8, TablesAre
    <2> QED
      BY <1>9, <1>10, <2>1 DEF Wired
  <1>14. Kept'
    <2>1. copy'.step = "idle" /\ copy' = Nobody
      BY <1>0, <1>8 DEF Nobody
    <2>2. WindowShut'
      BY <1>9, <1>11, KernelLies DEF WindowShut, NoPages
    <2>3. Copying'
      BY <2>1, <2>2 DEF Copying
    <2>4. StackArgsArrive'
      BY <1>0, <1>8 DEF StackArgsArrive, NoArgs
    <2> QED
      BY <1>0, <1>8, <1>9, <2>1, <2>3, <2>4 DEF Kept, TlbTrue
  <1> QED
    BY <1>8, <1>12, <1>13, <1>14 DEF MmInv

\* A slot gets a directory and its tables, all behind those that are there.
LEMMA SlotKeeps ==
    ASSUME MmInv, task_table_init
    PROVE  MmInv'
  <1>0. /\ MmTypeOK /\ Wired /\ Kept /\ phase = "table" /\ phase' = "table" /\ CanAlloc(Paging)
        /\ UNCHANGED <<cr3, tlb, mem, live, copy, args>>
    BY DEF MmInv, task_table_init
  <1>1. PICK s \in Slots : s = SlotsReady /\ s \notin vma /\ vma' = vma \cup {s} /\ (s = 0 <=> vma = {})
    <2>1. SlotsReady \in 0 .. MAX_PROCESS_CNT /\ vma = 0 .. SlotsReady - 1
      BY <1>0, SlotsAre
    <2>2. SlotsReady \in Slots
      BY <2>1, TablesAre DEF Slots, task_table_init
    <2>3. SlotsReady \notin vma /\ (SlotsReady = 0 <=> vma = {})
      BY <2>1
    <2> QED
      BY <2>2, <2>3 DEF task_table_init
  <1>2. PICK g : g = mm_fork_kernel(Paging, s)
    OBVIOUS
  <1>3. PICK h : h = vm_map_impl(g, s, ProcessVa, PROCESS_PA_START + s * ProcPages, ProcPages)
    OBVIOUS
  <1>4. next' = h.next /\ pd' = h.pd /\ pt' = h.pt
    BY <1>1, <1>2, <1>3 DEF task_table_init, SetPaging
  <1>5. /\ next \in 1 .. MM_PAGING_PAGES_TOTAL /\ next + 1 <= MM_PAGING_PAGES_TOTAL
        /\ pd \in [Spaces -> [Pdes -> Pages \cup {Absent}]]
        /\ pt \in [Pages -> [Ptes -> Frames \cup {Absent}]]
        /\ s \in Spaces /\ KernelMm \in Spaces /\ s # KernelMm /\ vma \subseteq Spaces
        /\ KernelMm \notin vma
        /\ 1 .. Tables \subseteq Pdes /\ Window \in Pdes /\ Window \notin 1 .. Tables
        /\ Tables \in Nat \ {0}
    <2>1. next \in 0 .. MM_PAGING_PAGES_TOTAL /\ next >= 1 /\ next < MM_PAGING_PAGES_TOTAL
      BY <1>0, PagingTyped DEF MmTypeOK, Wired, CanAlloc
    <2>2. vma \subseteq Slots
      BY <1>0 DEF MmTypeOK
    <2> QED
      BY <1>0, <1>1, <2>1, <2>2, TablesAre, KernelLies, PoolPages DEF MmTypeOK, Spaces
  <1>6. /\ g \in PagingType /\ g.next = next + 1 /\ g.pt = pt
        /\ \A t \in Spaces \ {s} : g.pd[t] = pd[t]
        /\ \A x \in Pdes : g.pd[s][x] = pd[KernelMm][x]
    <2>1. PICK dirs : dirs = [pd EXCEPT ![s] = [x \in Pdes |-> pd[KernelMm][x]]]
      OBVIOUS
    <2>2. g = [next |-> next + 1, pd |-> dirs, pt |-> pt]
      BY <1>2, <2>1 DEF mm_fork_kernel, Paging
    <2>3. dirs \in [Spaces -> [Pdes -> Pages \cup {Absent}]]
      BY <1>5, <2>1
    <2> QED
      BY <1>5, <2>1, <2>2, <2>3 DEF PagingType
  <1>7. \A x \in 1 .. Tables : g.pd[s][x] = Absent
    BY <1>0, <1>5, <1>6 DEF Wired
  <1>8. PICK k \in 0 .. Tables :
          /\ Extended(h, g, s, k)
          /\ g.next + Tables <= MM_PAGING_PAGES_TOTAL => k = Tables /\ Filled(h, g, s, k, ProcPages)
    BY <1>3, <1>6, <1>7, ProcessMapped
  <1>9. h \in PagingType /\ next' = next + 1 + k
    BY <1>4, <1>6, <1>8 DEF Extended
  <1>10. /\ \A t \in vma \cup {KernelMm} : pd'[t] = pd[t]
         /\ pd'[s][Window] = pd[KernelMm][Window]
         /\ \A x \in 1 .. Tables : pd'[s][x] = IF x <= k THEN next + x ELSE Absent
         /\ \A w \in Pages : w < next + 1 => pt'[w] = pt[w]
    <2>1. \A t \in vma \cup {KernelMm} : pd'[t] = pd[t]
      BY <1>1, <1>4, <1>5, <1>6, <1>8 DEF Extended
    <2>2. pd'[s][Window] = pd[KernelMm][Window]
      BY <1>4, <1>5, <1>6, <1>8 DEF Extended
    <2>3. \A x \in 1 .. Tables : pd'[s][x] = IF x <= k THEN next + x ELSE Absent
      <3>1. \A x \in 1 .. Tables : g.next + x - 1 = next + x
        BY <1>5, <1>6
      <3> QED
        BY <1>4, <1>8, <3>1 DEF Extended
    <2>4. \A w \in Pages : w < next + 1 => pt'[w] = pt[w]
      BY <1>4, <1>6, <1>8 DEF Extended
    <2> QED
      BY <2>1, <2>2, <2>3, <2>4
  <1>11. \A t \in vma, p \in 0 .. ProcPages - 1 :
            Reach(pd', pt', t, ProcessVa + p) = Reach(pd, pt, t, ProcessVa + p)
    <2> SUFFICES ASSUME NEW t \in vma, NEW p \in 0 .. ProcPages - 1
                 PROVE  Reach(pd', pt', t, ProcessVa + p) = Reach(pd, pt, t, ProcessVa + p)
      OBVIOUS
    <2>1. PICK x \in 1 .. Tables : x = PDE_INDEX(ProcessVa + p)
      BY PagesLie DEF PageAt
    <2>2. pd[t][x] # Absent => pd[t][x] \in 1 .. next - 1
      BY <1>0 DEF Wired
    <2>3. pd[t][x] # Absent => pd[t][x] \in Pages /\ pd[t][x] < next + 1
      BY <1>5, <2>2, PoolPages
    <2>4. pd'[t] = pd[t]
      BY <1>10
    <2> QED
      BY <1>10, <2>1, <2>3, <2>4 DEF Reach
  <1>12. \A p \in 0 .. ProcPages - 1 :
            /\ Reach(pd', pt', s, ProcessVa + p) \in {Frame(s, p), Absent}
            /\ s = 0 => Reach(pd', pt', s, ProcessVa + p) = Frame(s, p)
    <2>1. s = 0 => k = Tables /\ Filled(h, g, s, k, ProcPages)
      <3> SUFFICES ASSUME s = 0 PROVE g.next + Tables <= MM_PAGING_PAGES_TOTAL
        BY <1>8
      <3>1. next = 1
        BY <1>0, <1>1 DEF Wired
      <3> QED
        BY <1>5, <1>6, <3>1, TablesAre
    <2> QED
      BY <1>4, <1>6, <1>8, <2>1, ProcessReaches
  <1>13. MmTypeOK'
    <2>1. pd' \in [Spaces -> [Pdes -> Pages \cup {Absent}]] /\ pt' \in [Pages -> [Ptes -> Frames \cup {Absent}]]
          /\ next' \in 0 .. MM_PAGING_PAGES_TOTAL
      BY <1>4, <1>9 DEF PagingType
    <2> QED
      BY <1>0, <1>1, <2>1 DEF MmTypeOK
  <1>14. Wired'
    <2>1. next' >= 1 /\ vma' # {}
      BY <1>1, <1>5, <1>9
    <2>2. \E m \in 0 .. MAX_PROCESS_CNT : vma' = 0 .. m - 1
      <3>1. SlotsReady \in Nat /\ vma = 0 .. SlotsReady - 1 /\ s = SlotsReady
        BY <1>0, <1>1, SlotsAre
      <3>2. s + 1 \in 0 .. MAX_PROCESS_CNT
        BY <1>1, TablesAre DEF Slots
      <3>3. vma' = 0 .. (s + 1) - 1
        BY <1>1, <3>1
      <3> QED
        BY <3>2, <3>3
    <2>3. \A t \in vma' \cup {KernelMm} : pd'[t][Window] = 0
      BY <1>0, <1>1, <1>10 DEF Wired
    <2>4. \A x \in 1 .. Tables : pd'[KernelMm][x] = Absent
      BY <1>0, <1>10 DEF Wired
    <2>5. \A t \in vma, x \in 1 .. Tables : pd'[t][x] # Absent => pd'[t][x] \in 1 .. next - 1
      BY <1>0, <1>10 DEF Wired
    <2>6. \A x \in 1 .. Tables : pd'[s][x] # Absent => pd'[s][x] = next + x /\ x <= k
      BY <1>10
    <2>7. \A t \in vma', x \in 1 .. Tables : pd'[t][x] # Absent => pd'[t][x] \in 1 .. next' - 1
      <3>1. \A x \in 1 .. next - 1 : x \in 1 .. next' - 1
        BY <1>5, <1>9
      <3>2. \A x \in 1 .. Tables : x <= k => next + x \in 1 .. next' - 1
        BY <1>5, <1>9
      <3> QED
        BY <1>1, <2>5, <2>6, <3>1, <3>2
    <2>8. \A t, u \in vma', x, z \in 1 .. Tables : pd'[t][x] # Absent /\ pd'[t][x] = pd'[u][z] => t = u
      <3> SUFFICES ASSUME NEW t \in vma', NEW u \in vma', NEW x \in 1 .. Tables, NEW z \in 1 .. Tables,
                          pd'[t][x] # Absent, pd'[t][x] = pd'[u][z]
                   PROVE  t = u
        OBVIOUS
      <3>1. CASE t \in vma /\ u \in vma
        BY <1>0, <1>10, <3>1 DEF Wired
      <3>2. CASE t \in vma /\ u = s
        <4>1. pd'[t][x] \in 1 .. next - 1 /\ pd'[u][z] = next + z
          BY <2>5, <2>6, <3>2
        <4> QED
          BY <1>5, <4>1
      <3>3. CASE t = s /\ u \in vma
        <4>1. pd'[u][z] \in 1 .. next - 1 /\ pd'[t][x] = next + x
          BY <2>5, <2>6, <3>3
        <4> QED
          BY <1>5, <4>1
      <3> QED
        BY <1>1, <3>1, <3>2, <3>3
    <2>9. \A t \in vma', p \in 0 .. ProcPages - 1 :
             Reach(pd', pt', t, ProcessVa + p) \in {Frame(t, p), Absent}
      BY <1>0, <1>1, <1>11, <1>12 DEF Wired
    <2>10. 0 \in vma' => \A p \in 0 .. ProcPages - 1 : Reach(pd', pt', 0, ProcessVa + p) = Frame(0, p)
      BY <1>0, <1>1, <1>11, <1>12 DEF Wired
    <2> QED
      BY <2>1, <2>2, <2>3, <2>4, <2>7, <2>8, <2>9, <2>10 DEF Wired
  <1>15. Kept'
    <2>0. phase = "table" => live = {} /\ copy = Nobody /\ DOMAIN tlb = {} /\ cr3 = KernelMm
      BY <1>0 DEF Kept
    <2>1. copy'.step = "idle" /\ copy' = Nobody /\ live' = {} /\ DOMAIN tlb' = {} /\ cr3' = KernelMm
      BY <1>0, <2>0 DEF Nobody
    <2>2. WindowShut'
      <3>1. pt'[0] = pt[0]
        <4>1. 0 \in 0 .. MM_PAGING_PAGES_TOTAL /\ 0 < next + 1
          BY <1>5, TablesAre
        <4>2. 0 \in Pages
          BY <4>1, PoolPages
        <4> QED
          BY <1>10, <4>1, <4>2
      <3>2. WindowShut
        BY <1>0, <2>0 DEF Kept, Copying, Nobody
      <3> QED
        BY <1>0, <3>1, <3>2 DEF WindowShut
    <2>3. Copying'
      BY <2>1, <2>2 DEF Copying
    <2>4. StackArgsArrive'
      BY <1>0 DEF StackArgsArrive, Kept
    <2> QED
      BY <1>0, <2>1, <2>3, <2>4 DEF Kept, TlbTrue
  <1> QED
    BY <1>0, <1>13, <1>14, <1>15 DEF MmInv
-----------------------------------------------------------------------------
(* Address spaces: the steps of running.                                   *)

\* No task but the one that runs has its memory changed.
OthersSame == \A s \in live : s # cr3 => \A f \in Region(s) : mem'[f] = mem[f]

\* A frame of a region is a frame of no other.
LEMMA RegionIs ==
    ASSUME NEW s \in Slots, NEW f \in Region(s)
    PROVE  /\ f \in Frames
           /\ \A t \in Slots \ {s}, p \in 0 .. ProcPages - 1 : f # Frame(t, p)
  <1>1. s * ProcPages \in Nat /\ ProcPages \in Nat \ {0}
    BY TablesAre DEF Slots
  <1>2. PICK p \in 0 .. ProcPages - 1 : f = Frame(s, p)
    <2>1. f - (PROCESS_PA_START + s * ProcPages) \in 0 .. ProcPages - 1
      BY <1>1 DEF Region, PROCESS_PA_START
    <2>2. f = Frame(s, f - (PROCESS_PA_START + s * ProcPages))
      BY <1>1 DEF Region, Frame, PROCESS_PA_START
    <2> QED
      BY <2>1, <2>2
  <1> QED
    BY <1>2, FramesLie, RegionsApart

\* Steps that leave the tables alone.
LEMMA PagingStays ==
    ASSUME Wired, UNCHANGED <<next, pd, pt, vma>>
    PROVE  Wired'
  BY DEF Wired

\* What the processor finds is what the tables say.
LEMMA Translated ==
    ASSUME NEW t, TlbTrue(t), NEW va
    PROVE  Translate(t, va) = Reach(pd, pt, cr3, va)
  BY ReachIs DEF Translate, TlbTrue

LEMMA Remembered ==
    ASSUME NEW t, TlbTrue(t), NEW va \in ProcessVas \cup WindowVas,
           Reach(pd, pt, cr3, va) \in Frames
    PROVE  /\ TlbTrue(Remember(t, va)) /\ DOMAIN Remember(t, va) = DOMAIN t \cup {va}
           /\ Remember(t, va)[va] = Reach(pd, pt, cr3, va)
  <1>1. Translate(t, va) = Reach(pd, pt, cr3, va)
    BY Translated
  <1>2. PICK u : u = Remember(t, va)
    OBVIOUS
  <1>3. /\ DOMAIN u = DOMAIN t \cup {va}
        /\ \A w \in DOMAIN u : u[w] = IF w = va THEN Reach(pd, pt, cr3, va) ELSE t[w]
    BY <1>1, <1>2 DEF Remember
  <1>4. TlbTrue(u)
    BY <1>3 DEF TlbTrue
  <1> QED
    BY <1>2, <1>3, <1>4

\* Loading a program writes the frames its addresses lead to.
LEMMA Loads ==
    ASSUME MmTypeOK, NEW s, NEW size
    PROVE  /\ Store(s, elf_load(size)) \in [Frames -> Values]
           /\ \A f \in Frames : Store(s, elf_load(size))[f] # mem[f] =>
                \E v \in ProcessVa .. (ProcessVa + size - 1) : mm_va_to_pa(s, v) = f
  <1> DEFINE vas == ProcessVa .. (ProcessVa + size - 1)
  <1>1. DOMAIN elf_load(size) = vas /\ \A v \in vas : elf_load(size)[v] = Image
    BY DEF elf_load
  <1>2. \A f \in Frames : mem[f] \in Values
    BY DEF MmTypeOK
  <1>3. Image \in Values
    BY DEF Values
  <1>4. ASSUME NEW f \in Frames
        PROVE  Store(s, elf_load(size))[f] =
                 IF \E v \in vas : mm_va_to_pa(s, v) = f THEN Image ELSE mem[f]
    <2> HIDE DEF vas
    <2>1. (\E v \in vas : mm_va_to_pa(s, v) = f) =>
             elf_load(size)[CHOOSE v \in vas : mm_va_to_pa(s, v) = f] = Image
      BY <1>1
    <2> QED
      BY <1>1, <2>1 DEF Store
  <1>5. PICK h : h = Store(s, elf_load(size))
    OBVIOUS
  <1>6. h = [f \in Frames |-> h[f]]
    BY <1>5 DEF Store
  <1> HIDE DEF vas
  <1>7. \A f \in Frames : h[f] \in Values /\ (h[f] # mem[f] => \E v \in vas : mm_va_to_pa(s, v) = f)
    BY <1>2, <1>3, <1>4, <1>5
  <1> QED
    BY <1>5, <1>6, <1>7 DEF vas

LEMMA ExecStartKeeps ==
    ASSUME MmInv, task_kernel_exec
    PROVE  MmInv' /\ OthersSame /\ copy' = copy
  <1>1. /\ MmTypeOK /\ Wired /\ Kept /\ phase = "table" /\ SlotsReady = MAX_PROCESS_CNT
        /\ live' = {0} /\ cr3' = KernelMm /\ tlb' = Flushed /\ phase' \in {"run", "panic"}
        /\ UNCHANGED <<next, pd, pt, vma, copy, args>>
    BY DEF MmInv, task_kernel_exec, mm_activate
  <1>2. live = {} /\ copy = Nobody /\ DOMAIN tlb = {} /\ copy.step = "idle"
    BY <1>1 DEF Kept, Nobody
  <1>3. mem' \in [Frames -> Values]
    BY <1>1, Loads DEF task_kernel_exec, MmTypeOK
  <1>4. 0 \in vma /\ 0 \in Slots /\ DOMAIN tlb' = {}
    <2>1. vma = 0 .. MAX_PROCESS_CNT - 1 /\ vma \subseteq Slots
      BY <1>1, SlotsAre
    <2>2. 0 \in 0 .. MAX_PROCESS_CNT - 1
      BY TablesAre
    <2> QED
      BY <1>1, <2>1, <2>2 DEF Flushed
  <1>5. MmTypeOK'
    BY <1>1, <1>3, <1>4 DEF MmTypeOK, Spaces
  <1>6. Wired'
    BY <1>1, PagingStays
  <1>7. Kept'
    <2>1. \A s \in live', p \in 0 .. ProcPages - 1 : Reach(pd', pt', s, ProcessVa + p) = Frame(s, p)
      BY <1>1, <1>4 DEF Wired
    <2>2. Copying'
      BY <1>1, <1>2, <1>4 DEF Copying, Kept, WindowShut
    <2> QED
      BY <1>1, <1>4, <2>1, <2>2 DEF Kept, TlbTrue, StackArgsArrive
  <1> QED
    BY <1>1, <1>2, <1>5, <1>6, <1>7 DEF MmInv, OthersSame

\* Another space is loaded: ctx_switch, from a task that goes on or ends.
LEMMA SwitchKeeps ==
    ASSUME MmInv, NEW s \in Slots, Switch(s) \/ Exit(s)
    PROVE  MmInv' /\ OthersSame /\ copy' = copy
  <1>1. /\ MmTypeOK /\ Wired /\ Kept /\ phase = "run" /\ copy = Nobody
        /\ s \in live' /\ live' \subseteq live /\ cr3' = s /\ tlb' = Flushed
        /\ UNCHANGED <<phase, next, pd, pt, vma, mem, copy, args>>
    BY DEF MmInv, Switch, Exit, InTask, Running
  <1>2. copy.step = "idle" /\ DOMAIN tlb' = {}
    BY <1>1 DEF Nobody, Flushed
  <1>3. MmTypeOK'
    BY <1>1, <1>2 DEF MmTypeOK, Spaces
  <1>4. Wired'
    BY <1>1, PagingStays
  <1>5. Kept'
    <2>1. Copying'
      BY <1>1, <1>2 DEF Copying, Kept, WindowShut
    <2> QED
      BY <1>1, <1>2, <2>1 DEF Kept, TlbTrue, StackArgsArrive
  <1> QED
    BY <1>1, <1>3, <1>4, <1>5 DEF MmInv, OthersSame

\* The task that runs, and what its addresses lead to.
LEMMA InTaskIs ==
    ASSUME MmInv, InTask
    PROVE  /\ MmTypeOK /\ Wired /\ Kept /\ phase = "run" /\ copy = Nobody /\ copy.step = "idle"
           /\ cr3 \in live /\ cr3 \in Slots
           /\ \A va \in ProcessVas : /\ va - ProcessVa \in 0 .. ProcPages - 1
                                     /\ Reach(pd, pt, cr3, va) = Frame(cr3, va - ProcessVa)
                                     /\ Frame(cr3, va - ProcessVa) \in Frames
  <1>1. /\ MmTypeOK /\ Wired /\ Kept /\ phase = "run" /\ copy = Nobody /\ copy.step = "idle"
        /\ cr3 \in live /\ cr3 \in Slots
    BY DEF MmInv, InTask, Running, Nobody, MmTypeOK
  <1> QED
    BY <1>1, LiveReaches, FramesLie

LEMMA ProgramVas ==
    /\ ProcessVa \in ProcessVas /\ StackVa \in ProcessVas
    /\ \A size \in ImagePages : ProcessVa + size \in ProcessVas
  <1>1. ProcessVa \in Nat /\ ProcPages \in Nat \ {0} /\ ImagePages \subseteq 1 .. (ProcPages - 2)
    BY TablesAre, MmAssumption DEF ProcessVa
  <1> QED
    BY <1>1 DEF ProcessVas, StackVa

\* Memory that only the running task's frames differ in.
LEMMA OwnWrites ==
    ASSUME MmTypeOK, cr3 \in Slots, NEW after,
           \A f \in Frames : after[f] # mem[f] => \E p \in 0 .. ProcPages - 1 : f = Frame(cr3, p)
    PROVE  \A s \in live : s # cr3 => \A f \in Region(s) : after[f] = mem[f]
  <1> SUFFICES ASSUME NEW s \in live, s # cr3, NEW f \in Region(s) PROVE after[f] = mem[f]
    OBVIOUS
  <1>1. s \in Slots /\ cr3 \in Slots \ {s}
    BY DEF MmTypeOK
  <1> QED
    BY <1>1, RegionIs

LEMMA WriteKeeps ==
    ASSUME MmInv, NEW va \in {ProcessVa, StackVa}, NEW v \in Data, Write(va, v)
    PROVE  MmInv' /\ OthersSame /\ copy' = copy
  <1>1. /\ MmTypeOK /\ Wired /\ Kept /\ phase = "run" /\ copy = Nobody /\ copy.step = "idle"
        /\ cr3 \in live /\ cr3 \in Slots
        /\ UNCHANGED <<next, pd, pt, vma, cr3, live, copy, args>>
    BY InTaskIs DEF Write
  <1>2. PICK p \in 0 .. ProcPages - 1 : Reach(pd, pt, cr3, va) = Frame(cr3, p) /\ Frame(cr3, p) \in Frames
    BY InTaskIs, ProgramVas DEF Write
  <1>3. TlbTrue(tlb) /\ WindowShut
    BY <1>1 DEF Kept, Copying
  <1>4. Translate(tlb, va) = Frame(cr3, p)
    BY <1>2, <1>3, Translated
  <1>5. Translate(tlb, va) # Absent
    BY <1>2, <1>4, PoolPages
  <1>6. PICK t : t = Remember(tlb, va)
    OBVIOUS
  <1>7. TlbTrue(t) /\ DOMAIN t = DOMAIN tlb \cup {va} /\ t[va] = Frame(cr3, p)
    BY <1>2, <1>3, <1>6, ProgramVas, Remembered
  <1>8. tlb' = t /\ mem' = [mem EXCEPT ![Frame(cr3, p)] = v] /\ phase' = phase
    BY <1>5, <1>6, <1>7 DEF Write
  <1>9. TlbTrue(tlb)'
    BY <1>1, <1>7, <1>8 DEF TlbTrue
  <1>10. /\ mem' \in [Frames -> Values]
         /\ \A f \in Frames : mem'[f] # mem[f] => f = Frame(cr3, p)
    BY <1>1, <1>2, <1>8 DEF MmTypeOK, Values
  <1>11. MmTypeOK'
    BY <1>1, <1>8, <1>9, <1>10 DEF MmTypeOK, TlbTrue
  <1>12. Wired'
    BY <1>1, PagingStays
  <1>13. va \notin WindowVas
    BY ProgramVas, VasArePages
  <1>14. Kept'
    <2>1. WindowShut'
      BY <1>1, <1>3, <1>7, <1>8, <1>13 DEF WindowShut
    <2>2. Copying'
      BY <1>1, <2>1 DEF Copying
    <2> QED
      BY <1>1, <1>8, <1>9, <2>2 DEF Kept, StackArgsArrive
  <1>15. OthersSame
    BY <1>1, <1>10, OwnWrites DEF OthersSame
  <1> QED
    BY <1>1, <1>8, <1>11, <1>12, <1>14, <1>15 DEF MmInv

\* The new image ends below the stack and the page the arguments go to.
LEMMA ExecKeeps ==
    ASSUME MmInv, NEW size \in ImagePages, NEW from \in {ProcessVa, StackVa}, Exec(size, from)
    PROVE  MmInv' /\ OthersSame /\ copy' = copy
  <1>1. /\ MmTypeOK /\ Wired /\ Kept /\ phase = "run" /\ copy = Nobody /\ copy.step = "idle"
        /\ cr3 \in live /\ cr3 \in Slots
        /\ UNCHANGED <<phase, next, pd, pt, vma, cr3, tlb, live, copy>>
    BY InTaskIs DEF Exec
  <1>2. TlbTrue(tlb) /\ WindowShut
    BY <1>1 DEF Kept, Copying
  <1>3. PICK t : t = [va \in ProcessVas |-> Translate(tlb, va)]
    OBVIOUS
  <1>4. \A va \in ProcessVas : /\ va - ProcessVa \in 0 .. ProcPages - 1
                               /\ t[va] = Frame(cr3, va - ProcessVa) /\ t[va] \in Frames
                               /\ mm_va_to_pa(cr3, va) = t[va]
    BY <1>2, <1>3, InTaskIs, Translated, ReachIs DEF Exec
  <1>5. PICK loaded : loaded = Store(cr3, elf_load(size))
    OBVIOUS
  <1>6. PICK at : at = t[ProcessVa + size]
    OBVIOUS
  <1>7. PICK passed : passed = loaded[t[from]]
    OBVIOUS
  <1>8. /\ mem' = [loaded EXCEPT ![at] = passed]
        /\ args' = [from |-> from, want |-> mem[t[from]], have |-> passed]
    BY <1>3, <1>5, <1>6, <1>7 DEF Exec, task_init_args
  <1>9. /\ ProcPages \in Nat \ {0} /\ ProcessVa \in Nat /\ size \in 1 .. ProcPages - 2
        /\ from \in ProcessVas /\ ProcessVa + size \in ProcessVas
    BY TablesAre, MmAssumption, ProgramVas DEF ProcessVa
  <1>10. /\ loaded \in [Frames -> Values]
         /\ \A f \in Frames : loaded[f] # mem[f] =>
              \E va \in ProcessVa .. (ProcessVa + size - 1) : mm_va_to_pa(cr3, va) = f
    BY <1>1, <1>5, Loads
  <1>11. \A f \in Frames : loaded[f] # mem[f] => \E p \in 0 .. size - 1 : f = Frame(cr3, p)
    <2> SUFFICES ASSUME NEW f \in Frames, NEW va \in ProcessVa .. (ProcessVa + size - 1),
                        mm_va_to_pa(cr3, va) = f
                 PROVE  \E p \in 0 .. size - 1 : f = Frame(cr3, p)
      BY <1>10
    <2>1. va \in ProcessVas /\ va - ProcessVa \in 0 .. size - 1
      BY <1>9 DEF ProcessVas
    <2> QED
      BY <1>4, <2>1
  <1>12. at \in Frames /\ t[from] \in Frames /\ passed \in Values /\ mem[t[from]] \in Values
    BY <1>1, <1>4, <1>6, <1>7, <1>9, <1>10 DEF MmTypeOK
  <1>13. /\ mem' \in [Frames -> Values]
         /\ \A f \in Frames : mem'[f] # mem[f] => \E p \in 0 .. ProcPages - 1 : f = Frame(cr3, p)
    <2>1. \A f \in Frames : mem'[f] = IF f = at THEN passed ELSE loaded[f]
      BY <1>8, <1>10
    <2>2. \E p \in 0 .. ProcPages - 1 : at = Frame(cr3, p)
      BY <1>4, <1>6, <1>9
    <2>3. \A p \in 0 .. size - 1 : p \in 0 .. ProcPages - 1
      BY <1>9
    <2>4. mem' \in [Frames -> Values]
      BY <1>8, <1>10, <1>12
    <2> QED
      BY <1>11, <2>1, <2>2, <2>3, <2>4
  <1>14. StackArgsArrive'
    <2> SUFFICES ASSUME from = StackVa PROVE passed = mem[t[from]]
      BY <1>8 DEF StackArgsArrive
    <2>1. StackVa - ProcessVa = ProcPages - 1 /\ ProcPages - 1 \in 0 .. ProcPages - 1
      BY <1>9 DEF StackVa
    <2>2. t[from] = Frame(cr3, ProcPages - 1)
      BY <1>4, <1>9, <2>1
    <2>3. \A p \in 0 .. size - 1 : p \in 0 .. ProcPages - 1 /\ p # ProcPages - 1
      BY <1>9
    <2>4. \A p \in 0 .. size - 1 : t[from] # Frame(cr3, p)
      BY <1>1, <2>1, <2>2, <2>3, FramesDiffer
    <2> QED
      BY <1>7, <1>11, <1>12, <2>4
  <1>15. MmTypeOK'
    <2>1. args' \in [from : {Absent} \cup ProcessVas, want : Values, have : Values]
      BY <1>8, <1>9, <1>12
    <2> QED
      BY <1>1, <1>13, <2>1 DEF MmTypeOK
  <1>16. Wired'
    BY <1>1, PagingStays
  <1>17. Kept'
    <2>1. WindowShut' /\ TlbTrue(tlb)'
      BY <1>1, <1>2 DEF WindowShut, TlbTrue
    <2>2. Copying'
      BY <1>1, <2>1 DEF Copying
    <2> QED
      BY <1>1, <1>14, <2>1, <2>2 DEF Kept
  <1>18. OthersSame
    BY <1>1, <1>13, OwnWrites DEF OthersSame
  <1> QED
    BY <1>1, <1>15, <1>16, <1>17, <1>18 DEF MmInv

LEMMA ForgetKeeps ==
    ASSUME MmInv, phase # "boot", Forget \/ UNCHANGED mmVars
    PROVE  MmInv' /\ OthersSame /\ copy' = copy
  <1>1. /\ MmTypeOK /\ Wired /\ Kept /\ args' \in {args, NoArgs}
        /\ UNCHANGED <<phase, next, pd, pt, vma, cr3, tlb, mem, live, copy>>
    BY DEF MmInv, Forget, mmVars
  <1>2. NoArgs \in [from : {Absent} \cup ProcessVas, want : Values, have : Values]
    BY DEF NoArgs, Values
  <1>3. MmTypeOK'
    BY <1>1, <1>2 DEF MmTypeOK
  <1>4. Wired'
    BY <1>1, PagingStays
  <1>5. Kept'
    <2>1. WindowShut => WindowShut'
      BY <1>1 DEF WindowShut
    <2>2. \A p : Copied(p) => Copied(p)'
      BY <1>1 DEF Copied
    <2>3. TlbTrue(tlb)' /\ Copying
      BY <1>1 DEF Kept, TlbTrue
    <2>4. Copying'
      BY <1>1, <2>1, <2>2, <2>3 DEF Copying
    <2>5. StackArgsArrive'
      BY <1>1 DEF Kept, StackArgsArrive, NoArgs
    <2> QED
      BY <1>1, <2>3, <2>4, <2>5 DEF Kept
  <1> QED
    BY <1>1, <1>3, <1>4, <1>5 DEF MmInv, OthersSame

LEMMA ForkStarts ==
    ASSUME MmInv, NEW c \in Slots, Fork(c)
    PROVE  MmInv' /\ OthersSame /\ copy.step = "idle"
  <1>1. /\ MmTypeOK /\ Wired /\ Kept /\ phase = "run" /\ copy = Nobody /\ copy.step = "idle"
        /\ cr3 \in live /\ cr3 \in Slots /\ c \in vma \ live
        /\ copy' = [to |-> c, page |-> 0, step |-> "arm"]
        /\ UNCHANGED <<phase, next, pd, pt, vma, cr3, tlb, mem, live, args>>
    BY InTaskIs DEF Fork
  <1>2. copy'.to = c /\ copy'.page = 0 /\ copy'.step = "arm" /\ copy' # Nobody
    BY <1>1 DEF Nobody
  <1>3. 0 \in 0 .. ProcPages - 1 /\ \A p : p \notin 0 .. 0 - 1
    BY TablesAre
  <1>4. MmTypeOK'
    <2>1. copy' \in [to : Slots \cup {Absent}, page : 0 .. (ProcPages - 1),
                     step : {"idle", "arm", "copy", "disarm"}]
      BY <1>1, <1>3
    <2> QED
      BY <1>1, <2>1 DEF MmTypeOK
  <1>5. Wired'
    BY <1>1, PagingStays
  <1>6. Kept'
    <2>1. WindowShut' /\ TlbTrue(tlb)'
      BY <1>1 DEF Kept, Copying, WindowShut, TlbTrue
    <2>2. Copying'
      BY <1>1, <1>2, <1>3, <2>1 DEF Copying
    <2> QED
      BY <1>1, <2>1, <2>2 DEF Kept, StackArgsArrive
  <1> QED
    BY <1>1, <1>4, <1>5, <1>6 DEF MmInv, OthersSame
-----------------------------------------------------------------------------
(* Address spaces: the copy window.                                        *)

\* Setting the window's entries changes no address of a process.
LEMMA WindowSet ==
    ASSUME MmTypeOK, Wired, NEW src \in Frames \cup {Absent}, NEW dst \in Frames \cup {Absent},
           SetWindow(src, dst), UNCHANGED <<next, pd, vma>>
    PROVE  /\ pt' \in [Pages -> [Ptes -> Frames \cup {Absent}]]
           /\ pt'[0][0] = src /\ pt'[0][1] = dst
           /\ \A s \in vma, va \in ProcessVas : Reach(pd', pt', s, va) = Reach(pd, pt, s, va)
           /\ Wired'
  <1>1. /\ pt \in [Pages -> [Ptes -> Frames \cup {Absent}]] /\ pd[KernelMm][Window] = 0
        /\ 0 \in Ptes /\ 1 \in Ptes /\ next \in Nat
    <2>1. pd[KernelMm][Window] = 0
      BY DEF Wired
    <2>2. next \in 0 .. MM_PAGING_PAGES_TOTAL /\ MM_PAGING_PAGES_TOTAL \in Nat
      BY TablesAre DEF MmTypeOK
    <2> QED
      BY <2>1, <2>2, KernelLies DEF MmTypeOK
  <1>2. 0 \in Pages
    <2>1. 0 \in 0 .. MM_PAGING_PAGES_TOTAL
      BY TablesAre
    <2> QED
      BY <2>1, PoolPages
  <1>3. pt' = [pt EXCEPT ![0] = [@ EXCEPT ![0] = src, ![1] = dst]]
    BY <1>1, KernelLies DEF SetWindow
  <1>4. /\ pt' \in [Pages -> [Ptes -> Frames \cup {Absent}]]
        /\ pt'[0][0] = src /\ pt'[0][1] = dst
        /\ \A w \in Pages : w # 0 => pt'[w] = pt[w]
    BY <1>1, <1>2, <1>3
  <1>5. ASSUME NEW s \in vma, NEW p \in 0 .. ProcPages - 1
        PROVE  Reach(pd', pt', s, ProcessVa + p) = Reach(pd, pt, s, ProcessVa + p)
    <2>1. PICK x \in 1 .. Tables : x = PDE_INDEX(ProcessVa + p)
      BY PagesLie DEF PageAt
    <2>2. pd[s][x] # Absent => pd[s][x] \in 1 .. next - 1
      BY DEF Wired
    <2>3. \A w \in 1 .. next - 1 : w # 0 /\ w \in 0 .. MM_PAGING_PAGES_TOTAL
      BY <1>1, TablesAre DEF MmTypeOK
    <2>4. pd[s][x] # Absent => pd[s][x] \in Pages /\ pd[s][x] # 0
      BY <2>2, <2>3, PoolPages
    <2> QED
      BY <1>4, <2>1, <2>4 DEF Reach
  <1>6. \A s \in vma, va \in ProcessVas : Reach(pd', pt', s, va) = Reach(pd, pt, s, va)
    BY <1>5, VasArePages
  <1>7. Wired'
    <2>1. \A s \in vma', p \in 0 .. ProcPages - 1 :
             Reach(pd', pt', s, ProcessVa + p) \in {Frame(s, p), Absent}
      BY <1>5 DEF Wired
    <2>2. 0 \in vma' => \A p \in 0 .. ProcPages - 1 : Reach(pd', pt', 0, ProcessVa + p) = Frame(0, p)
      BY <1>5 DEF Wired
    <2>3. /\ next' >= 1 /\ (vma' = {} => next' = 1)
          /\ \E m \in 0 .. MAX_PROCESS_CNT : vma' = 0 .. m - 1
          /\ \A s \in vma' \cup {KernelMm} : pd'[s][Window] = 0
          /\ \A x \in 1 .. Tables : pd'[KernelMm][x] = Absent
      BY DEF Wired
    <2>4. \A s \in vma', x \in 1 .. Tables : pd'[s][x] # Absent => pd'[s][x] \in 1 .. next' - 1
      BY DEF Wired
    <2>5. \A s, t \in vma', x, z \in 1 .. Tables :
             pd'[s][x] # Absent /\ pd'[s][x] = pd'[t][z] => s = t
      BY DEF Wired
    <2> QED
      BY <2>1, <2>2, <2>3, <2>4, <2>5 DEF Wired
  <1> QED
    BY <1>4, <1>6, <1>7

\* What is forgotten of the window leaves the rest remembered.
LEMMA WindowFlushed ==
    ASSUME Kept, cr3 \in vma, tlb' = invlpg(tlb, WindowVas), cr3' = cr3,
           \A s \in vma, va \in ProcessVas : Reach(pd', pt', s, va) = Reach(pd, pt, s, va)
    PROVE  TlbTrue(tlb)' /\ DOMAIN tlb' \cap WindowVas = {}
  <1>1. /\ DOMAIN tlb' = DOMAIN tlb \ WindowVas
        /\ \A va \in DOMAIN tlb' : tlb'[va] = tlb[va]
    BY DEF invlpg
  <1>2. \A va \in DOMAIN tlb : /\ va \in ProcessVas \cup WindowVas
                               /\ tlb[va] = Reach(pd, pt, cr3, va) /\ tlb[va] \in Frames
    BY DEF Kept, TlbTrue
  <1> QED
    BY <1>1, <1>2 DEF TlbTrue

\* Fork in the middle of a page.
LEMMA CopyingIs ==
    ASSUME MmInv, phase = "run", copy.step # "idle"
    PROVE  /\ MmTypeOK /\ Wired /\ Kept /\ copy # Nobody
           /\ cr3 \in live /\ cr3 \in vma /\ cr3 \in Slots
           /\ copy.to \in vma \ live /\ copy.to \in Slots /\ copy.to # cr3
           /\ copy.page \in 0 .. ProcPages - 1
           /\ copy = [to |-> copy.to, page |-> copy.page, step |-> copy.step]
           /\ \A p \in 0 .. copy.page - 1 : Copied(p)
           /\ \A p \in 0 .. ProcPages - 1 :
                /\ Reach(pd, pt, cr3, ProcessVa + p) = Frame(cr3, p)
                /\ Frame(cr3, p) \in Frames /\ Frame(copy.to, p) \in Frames
                /\ ProcessVa + p \in ProcessVas
  <1>1. MmTypeOK /\ Wired /\ Kept
    BY DEF MmInv
  <1>2. /\ cr3 \in live /\ copy.to \in vma \ live /\ copy # Nobody
        /\ \A p \in 0 .. copy.page - 1 : Copied(p)
    BY <1>1 DEF Kept, Copying
  <1>3. /\ cr3 \in vma /\ cr3 \in Slots /\ copy.to \in Slots /\ copy.to # cr3
        /\ copy.page \in 0 .. ProcPages - 1
        /\ copy = [to |-> copy.to, page |-> copy.page, step |-> copy.step]
    BY <1>1, <1>2 DEF MmTypeOK, Kept
  <1>4. ASSUME NEW p \in 0 .. ProcPages - 1
        PROVE  /\ Reach(pd, pt, cr3, ProcessVa + p) = Frame(cr3, p)
               /\ Frame(cr3, p) \in Frames /\ Frame(copy.to, p) \in Frames
               /\ ProcessVa + p \in ProcessVas
    <2>1. ProcessVa + p \in ProcessVas
      BY TablesAre DEF ProcessVas, ProcessVa
    <2> QED
      BY <1>1, <1>2, <1>3, <2>1, FramesLie DEF Kept
  <1> QED
    BY <1>1, <1>2, <1>3, <1>4

LEMMA CopyArmKeeps ==
    ASSUME MmInv, CopyArm
    PROVE  MmInv' /\ OthersSame /\ copy.step = "arm"
  <1>0. /\ phase = "run" /\ copy.step = "arm"
        /\ UNCHANGED <<next, pd, vma, cr3, mem, live, args>>
    BY DEF CopyArm
  <1>1. /\ MmTypeOK /\ Wired /\ Kept
        /\ cr3 \in live /\ cr3 \in vma /\ cr3 \in Slots
        /\ copy.to \in vma \ live /\ copy.to \in Slots /\ copy.to # cr3
        /\ copy.page \in 0 .. ProcPages - 1
        /\ copy = [to |-> copy.to, page |-> copy.page, step |-> copy.step]
        /\ \A p \in 0 .. copy.page - 1 : Copied(p)
    BY <1>0, CopyingIs
  <1>2. PICK k \in 0 .. ProcPages - 1 : k = copy.page
    BY <1>1
  <1>3. PICK src, dst : src = mm_va_to_pa(cr3, ProcessVa + k) /\ dst = mm_va_to_pa(copy.to, ProcessVa + k)
    OBVIOUS
  <1>4. src = Frame(cr3, k) /\ src \in Frames /\ src # Absent
    BY <1>0, <1>2, <1>3, CopyingIs, ReachIs, PoolPages
  <1>5. dst \in {Frame(copy.to, k), Absent} /\ Frame(copy.to, k) \in Frames
    <2>1. Reach(pd, pt, copy.to, ProcessVa + k) \in {Frame(copy.to, k), Absent}
      BY <1>1 DEF Wired
    <2> QED
      BY <1>1, <1>3, <2>1, ReachIs, FramesLie
  <1>6. WindowShut /\ TlbTrue(tlb)
    BY <1>0, <1>1 DEF Kept, Copying
  <1>7. CASE dst = Absent
    <2>1. phase' = "panic" /\ UNCHANGED <<pt, tlb, copy>>
      BY <1>2, <1>3, <1>7 DEF CopyArm
    <2>2. MmTypeOK'
      BY <1>0, <1>1, <2>1 DEF MmTypeOK
    <2>3. Wired'
      BY <1>0, <1>1, <2>1, PagingStays
    <2>4. Kept'
      <3>1. WindowShut' /\ TlbTrue(tlb)'
        BY <1>0, <1>6, <2>1 DEF WindowShut, TlbTrue
      <3>2. \A p \in 0 .. copy'.page - 1 : Copied(p)'
        BY <1>0, <1>1, <2>1 DEF Copied
      <3>3. copy.step = "idle" <=> copy = Nobody
        BY <1>1 DEF Kept, Copying
      <3>4. Copying'
        BY <1>0, <1>1, <2>1, <3>1, <3>2, <3>3 DEF Copying
      <3> QED
        BY <1>0, <1>1, <2>1, <3>1, <3>4 DEF Kept, StackArgsArrive
    <2> QED
      BY <1>0, <2>1, <2>2, <2>3, <2>4 DEF MmInv, OthersSame
  <1>8. CASE dst # Absent
    <2>1. /\ SetWindow(src, dst) /\ tlb' = invlpg(tlb, WindowVas) /\ phase' = phase
          /\ copy' = [copy EXCEPT !.step = "copy"]
      BY <1>2, <1>3, <1>4, <1>8 DEF CopyArm
    <2>2. dst = Frame(copy.to, k) /\ dst \in Frames
      BY <1>5, <1>8
    <2>3. /\ pt' \in [Pages -> [Ptes -> Frames \cup {Absent}]]
          /\ pt'[0][0] = src /\ pt'[0][1] = dst
          /\ \A s \in vma, va \in ProcessVas : Reach(pd', pt', s, va) = Reach(pd, pt, s, va)
          /\ Wired'
      BY <1>0, <1>1, <1>4, <2>1, <2>2, WindowSet
    <2>4. TlbTrue(tlb)' /\ DOMAIN tlb' \cap WindowVas = {}
      BY <1>0, <1>1, <2>1, <2>3, WindowFlushed
    <2>5. copy' = [to |-> copy.to, page |-> k, step |-> "copy"] /\ copy'.to = copy.to
          /\ copy'.page = k /\ copy'.step = "copy" /\ copy' # Nobody
      BY <1>1, <1>2, <2>1 DEF Nobody
    <2>6. \A s \in vma, p \in 0 .. ProcPages - 1 :
             Reach(pd', pt', s, ProcessVa + p) = Reach(pd, pt, s, ProcessVa + p)
      BY <1>0, <2>3, CopyingIs
    <2>7. MmTypeOK'
      <3>1. copy' \in [to : Slots \cup {Absent}, page : 0 .. (ProcPages - 1),
                       step : {"idle", "arm", "copy", "disarm"}]
        BY <1>1, <1>2, <2>5
      <3>2. \A va \in DOMAIN tlb' : tlb'[va] \in Frames
        BY <2>4 DEF TlbTrue
      <3> QED
        BY <1>0, <1>1, <2>1, <2>3, <3>1, <3>2 DEF MmTypeOK
    <2>8. Copying'
      <3>1. \A p \in 0 .. k - 1 : Copied(p)'
        <4> SUFFICES ASSUME NEW p \in 0 .. k - 1 PROVE Copied(p)'
          OBVIOUS
        <4>1. p \in 0 .. ProcPages - 1
          BY <1>2, TablesAre
        <4>2. Copied(p)
          BY <1>1, <1>2
        <4> QED
          BY <1>0, <1>1, <2>5, <2>6, <4>1, <4>2 DEF Copied
      <3>2. Reach(pd', pt', copy.to, ProcessVa + k) = Frame(copy.to, k)
        BY <1>1, <1>3, <2>2, <2>6, ReachIs
      <3> QED
        BY <1>0, <1>1, <1>4, <2>1, <2>2, <2>3, <2>4, <2>5, <3>1, <3>2 DEF Copying
    <2>9. Kept'
      <3>1. \A s \in live', p \in 0 .. ProcPages - 1 : Reach(pd', pt', s, ProcessVa + p) = Frame(s, p)
        BY <1>0, <1>1, <2>6 DEF Kept
      <3> QED
        BY <1>0, <1>1, <2>1, <2>4, <2>8, <3>1 DEF Kept, StackArgsArrive
    <2> QED
      BY <1>0, <2>1, <2>3, <2>7, <2>9 DEF MmInv, OthersSame
  <1> QED
    BY <1>0, <1>7, <1>8

LEMMA CopyBytesKeeps ==
    ASSUME MmInv, CopyBytes
    PROVE  MmInv' /\ OthersSame /\ copy.step = "copy"
  <1>0. /\ phase = "run" /\ copy.step = "copy" /\ copy' = [copy EXCEPT !.step = "disarm"]
        /\ UNCHANGED <<phase, next, pd, pt, vma, cr3, live, args>>
    BY DEF CopyBytes
  <1>1. /\ MmTypeOK /\ Wired /\ Kept
        /\ cr3 \in live /\ cr3 \in vma /\ cr3 \in Slots
        /\ copy.to \in vma \ live /\ copy.to \in Slots /\ copy.to # cr3
        /\ copy.page \in 0 .. ProcPages - 1
        /\ copy = [to |-> copy.to, page |-> copy.page, step |-> copy.step]
        /\ \A p \in 0 .. copy.page - 1 : Copied(p)
    BY <1>0, CopyingIs
  <1>2. PICK k \in 0 .. ProcPages - 1 : k = copy.page
    BY <1>1
  <1>3. /\ TlbTrue(tlb)
        /\ Reach(pd, pt, copy.to, ProcessVa + k) = Frame(copy.to, k)
        /\ pt[0][0] = Frame(cr3, k) /\ pt[0][1] = Frame(copy.to, k)
    BY <1>0, <1>1, <1>2 DEF Kept, Copying
  <1>4. /\ Reach(pd, pt, cr3, COPY_SRC_VA) = Frame(cr3, k) /\ Frame(cr3, k) \in Frames
        /\ Reach(pd, pt, cr3, COPY_DST_VA) = Frame(copy.to, k) /\ Frame(copy.to, k) \in Frames
    BY <1>1, <1>3, WindowReaches, FramesLie
  <1>5. PICK t : t = Remember(tlb, COPY_SRC_VA)
    OBVIOUS
  <1>6. PICK u : u = Remember(t, COPY_DST_VA)
    OBVIOUS
  <1>7. COPY_SRC_VA \in WindowVas /\ COPY_DST_VA \in WindowVas /\ COPY_SRC_VA # COPY_DST_VA
    BY KernelLies DEF WindowVas
  <1>8. /\ TlbTrue(t) /\ DOMAIN t = DOMAIN tlb \cup {COPY_SRC_VA}
    BY <1>3, <1>4, <1>5, <1>7, Remembered
  <1>9. /\ TlbTrue(u) /\ DOMAIN u = DOMAIN t \cup {COPY_DST_VA}
        /\ u[COPY_DST_VA] = Frame(copy.to, k)
    BY <1>4, <1>6, <1>7, <1>8, Remembered
  <1>10. u[COPY_SRC_VA] = Frame(cr3, k)
    BY <1>4, <1>8, <1>9 DEF TlbTrue
  <1>11. tlb' = u /\ mem' = [mem EXCEPT ![Frame(copy.to, k)] = mem[Frame(cr3, k)]]
    BY <1>5, <1>6, <1>9, <1>10 DEF CopyBytes
  <1>12. copy' = [to |-> copy.to, page |-> k, step |-> "disarm"] /\ copy'.to = copy.to
         /\ copy'.page = k /\ copy'.step = "disarm" /\ copy' # Nobody
    BY <1>0, <1>1, <1>2 DEF Nobody
  <1>13. /\ mem' \in [Frames -> Values]
         /\ \A f \in Frames : mem'[f] = IF f = Frame(copy.to, k) THEN mem[Frame(cr3, k)] ELSE mem[f]
    BY <1>1, <1>4, <1>11 DEF MmTypeOK
  <1>14. TlbTrue(tlb)'
    BY <1>0, <1>9, <1>11 DEF TlbTrue
  <1>15. MmTypeOK'
    <2>1. copy' \in [to : Slots \cup {Absent}, page : 0 .. (ProcPages - 1),
                     step : {"idle", "arm", "copy", "disarm"}]
      BY <1>1, <1>12
    <2>2. \A va \in DOMAIN tlb' : tlb'[va] \in Frames
      BY <1>14 DEF TlbTrue
    <2> QED
      BY <1>0, <1>1, <1>13, <2>1, <2>2 DEF MmTypeOK
  <1>16. Wired'
    BY <1>0, <1>1, PagingStays
  <1>17. Copying'
    <2>1. ASSUME NEW p \in 0 .. k PROVE Copied(p)'
      <3>1. p \in 0 .. ProcPages - 1 /\ (p = k \/ p \in 0 .. copy.page - 1)
        BY <1>2, TablesAre
      <3>2. Reach(pd, pt, copy.to, ProcessVa + p) = Frame(copy.to, p)
        BY <1>1, <1>3, <3>1 DEF Copied
      <3>3. p # k => mem[Frame(copy.to, p)] = mem[Frame(cr3, p)]
        BY <1>1, <3>1 DEF Copied
      <3>4. /\ Frame(cr3, p) \in Frames /\ Frame(copy.to, p) \in Frames
            /\ Frame(cr3, p) # Frame(copy.to, k)
            /\ p # k => Frame(copy.to, p) # Frame(copy.to, k)
        BY <1>1, <3>1, FramesLie, FramesDiffer
      <3>5. mem'[Frame(copy.to, p)] = mem'[Frame(cr3, p)]
        BY <1>13, <3>3, <3>4
      <3> QED
        BY <1>0, <1>12, <3>2, <3>5 DEF Copied
    <2>2. k \in 0 .. k /\ \A p \in 0 .. k - 1 : p \in 0 .. k
      OBVIOUS
    <2> QED
      BY <1>0, <1>1, <1>12, <2>1, <2>2 DEF Copying
  <1>18. Kept'
    BY <1>0, <1>1, <1>14, <1>17 DEF Kept, StackArgsArrive
  <1>19. OthersSame
    <2> SUFFICES ASSUME NEW s \in live, NEW f \in Region(s) PROVE mem'[f] = mem[f]
      BY DEF OthersSame
    <2>1. s \in Slots /\ copy.to \in Slots \ {s}
      BY <1>1 DEF MmTypeOK
    <2> QED
      BY <1>13, <2>1, RegionIs
  <1> QED
    BY <1>0, <1>15, <1>16, <1>18, <1>19 DEF MmInv

\* After the last page the child has what the parent has.
LEMMA CopyDisarmKeeps ==
    ASSUME MmInv, CopyDisarm
    PROVE  /\ MmInv' /\ OthersSame
           /\ copy'.step = "idle" =>
                \A va \in ProcessVas : mem'[mm_va_to_pa(copy.to, va)] = mem'[mm_va_to_pa(cr3, va)]
  <1>0. /\ phase = "run" /\ copy.step = "disarm" /\ SetWindow(Absent, Absent)
        /\ tlb' = invlpg(tlb, WindowVas) /\ NextPage
        /\ UNCHANGED <<phase, next, pd, vma, cr3, mem, args>>
    BY DEF CopyDisarm
  <1>1. /\ MmTypeOK /\ Wired /\ Kept
        /\ cr3 \in live /\ cr3 \in vma /\ cr3 \in Slots
        /\ copy.to \in vma \ live /\ copy.to \in Slots /\ copy.to # cr3
        /\ copy.page \in 0 .. ProcPages - 1
        /\ copy = [to |-> copy.to, page |-> copy.page, step |-> copy.step]
        /\ \A p \in 0 .. copy.page - 1 : Copied(p)
    BY <1>0, CopyingIs
  <1>2. PICK k \in 0 .. ProcPages - 1 : k = copy.page
    BY <1>1
  <1>3. \A p \in 0 .. k : Copied(p)
    <2>1. Copied(k)
      BY <1>0, <1>1, <1>2 DEF Kept, Copying
    <2>2. \A p \in 0 .. k : p = k \/ p \in 0 .. copy.page - 1
      BY <1>2
    <2> QED
      BY <1>1, <2>1, <2>2
  <1>4. /\ pt' \in [Pages -> [Ptes -> Frames \cup {Absent}]]
        /\ pt'[0][0] = Absent /\ pt'[0][1] = Absent
        /\ \A s \in vma, va \in ProcessVas : Reach(pd', pt', s, va) = Reach(pd, pt, s, va)
        /\ Wired'
    BY <1>0, <1>1, WindowSet
  <1>5. TlbTrue(tlb)' /\ DOMAIN tlb' \cap WindowVas = {}
    BY <1>0, <1>1, <1>4, WindowFlushed
  <1>6. WindowShut'
    BY <1>4, <1>5 DEF WindowShut
  <1>7. \A s \in vma, p \in 0 .. ProcPages - 1 :
           Reach(pd', pt', s, ProcessVa + p) = Reach(pd, pt, s, ProcessVa + p)
    BY <1>0, <1>4, CopyingIs
  <1>8. /\ \A va \in DOMAIN tlb' : tlb'[va] \in Frames
        /\ \A p \in 0 .. k : p \in 0 .. ProcPages - 1
    <2>1. \A va \in DOMAIN tlb' : tlb'[va] \in Frames
      BY <1>5 DEF TlbTrue
    <2> QED
      BY <2>1, TablesAre
  <1>9. \A s \in live, p \in 0 .. ProcPages - 1 : Reach(pd', pt', s, ProcessVa + p) = Frame(s, p)
    BY <1>1, <1>7 DEF Kept
  <1>10. CASE k + 1 < ProcPages
    <2>1. copy' = [to |-> copy.to, page |-> k + 1, step |-> "arm"] /\ live' = live
      BY <1>0, <1>1, <1>2, <1>10 DEF NextPage
    <2>2. copy'.to = copy.to /\ copy'.page = k + 1 /\ copy'.step = "arm" /\ copy' # Nobody
      BY <2>1 DEF Nobody
    <2>3. MmTypeOK'
      <3>1. k + 1 \in 0 .. ProcPages - 1
        BY <1>10, TablesAre
      <3>2. copy' \in [to : Slots \cup {Absent}, page : 0 .. (ProcPages - 1),
                       step : {"idle", "arm", "copy", "disarm"}]
        BY <1>1, <2>1, <3>1
      <3> QED
        BY <1>0, <1>1, <1>4, <1>8, <2>1, <3>2 DEF MmTypeOK
    <2>4. \A p \in 0 .. copy'.page - 1 : Copied(p)'
      <3> SUFFICES ASSUME NEW p \in 0 .. k PROVE Copied(p)'
        BY <2>2
      <3>1. Copied(p) /\ p \in 0 .. ProcPages - 1
        BY <1>3, <1>8
      <3> QED
        BY <1>0, <1>1, <1>7, <2>2, <3>1 DEF Copied
    <2>5. Copying'
      BY <1>0, <1>1, <1>6, <2>1, <2>2, <2>4 DEF Copying
    <2>6. Kept'
      BY <1>0, <1>1, <1>5, <1>9, <2>1, <2>5 DEF Kept, StackArgsArrive
    <2> QED
      BY <1>0, <1>4, <2>2, <2>3, <2>6 DEF MmInv, OthersSame
  <1>11. CASE ~ (k + 1 < ProcPages)
    <2>1. copy' = Nobody /\ live' = live \cup {copy.to} /\ copy'.step = "idle"
      BY <1>0, <1>2, <1>11 DEF NextPage, Nobody
    <2>2. \A p \in 0 .. ProcPages - 1 : Copied(p)
      <3>1. \A p \in 0 .. ProcPages - 1 : p \in 0 .. k
        BY <1>2, <1>11, TablesAre
      <3> QED
        BY <1>3, <3>1
    <2>3. MmTypeOK'
      <3>1. Nobody \in [to : Slots \cup {Absent}, page : 0 .. (ProcPages - 1),
                        step : {"idle", "arm", "copy", "disarm"}]
        <4>1. 0 \in 0 .. ProcPages - 1
          BY TablesAre
        <4> QED
          BY <4>1 DEF Nobody
      <3> QED
        BY <1>0, <1>1, <1>4, <1>8, <2>1, <3>1 DEF MmTypeOK
    <2>4. Copying'
      BY <1>6, <2>1 DEF Copying
    <2>5. \A s \in live', p \in 0 .. ProcPages - 1 : Reach(pd', pt', s, ProcessVa + p) = Frame(s, p)
      BY <1>1, <1>7, <1>9, <2>1, <2>2 DEF Copied
    <2>6. Kept'
      BY <1>0, <1>1, <1>5, <2>1, <2>4, <2>5 DEF Kept, StackArgsArrive
    <2>7. ASSUME NEW va \in ProcessVas
          PROVE  mem'[mm_va_to_pa(copy.to, va)] = mem'[mm_va_to_pa(cr3, va)]
      <3>1. PICK p \in 0 .. ProcPages - 1 : ProcessVa + p = va
        BY VasArePages
      <3>2. /\ Reach(pd, pt, copy.to, va) = Frame(copy.to, p)
            /\ mem[Frame(copy.to, p)] = mem[Frame(cr3, p)]
        BY <2>2, <3>1 DEF Copied
      <3>3. Reach(pd, pt, cr3, va) = Frame(cr3, p)
        BY <1>1, <3>1 DEF Kept
      <3> QED
        BY <1>0, <3>2, <3>3, ReachIs
    <2> QED
      BY <1>0, <1>4, <2>3, <2>6, <2>7 DEF MmInv, OthersSame
  <1> QED
    BY <1>10, <1>11

\* Fork is over: the child has what the parent has.
ForkEnds ==
  copy.step = "disarm" /\ copy'.step = "idle" =>
    \A va \in ProcessVas : mem'[mm_va_to_pa(copy.to, va)] = mem'[mm_va_to_pa(cr3, va)]

LEMMA MmInvStep ==
    ASSUME MmInv, [MmNext]_mmVars
    PROVE  MmInv' /\ OthersSame /\ ForkEnds
  <1>1. CASE phase = "boot"
    <2>1. MmInit /\ live = {} /\ copy.step = "idle"
      BY <1>1 DEF MmInv, MmInit, Nobody
    <2>2. OthersSame /\ ForkEnds
      BY <2>1 DEF OthersSame, ForkEnds
    <2>3. CASE mm_init
      BY <2>2, <2>3, MmInitKeeps
    <2>4. CASE UNCHANGED mmVars
      <3>1. MmTypeOK
        BY DEF MmInv
      <3>2. MmTypeOK'
        BY <2>4, <3>1 DEF MmTypeOK, mmVars
      <3>3. MmInit'
        BY <2>1, <2>4 DEF MmInit, mmVars
      <3>4. phase' = phase
        BY <2>4 DEF mmVars
      <3> QED
        BY <1>1, <2>2, <3>2, <3>3, <3>4 DEF MmInv
    <2>5. CASE Forget
      BY <2>1, <2>5 DEF Forget, MmInit
    <2> QED
      BY <1>1, <2>1, <2>3, <2>4, <2>5
      DEF MmNext, task_table_init, task_kernel_exec, Switch, Write, Exec, Exit, Fork, CopyArm,
          CopyBytes, CopyDisarm, InTask, Running
  <1>2. CASE phase # "boot"
    <2>1. CASE task_table_init
      <3>1. copy = Nobody /\ live = {}
        BY <1>2, <2>1 DEF MmInv, Kept, task_table_init
      <3> QED
        BY <2>1, <3>1, SlotKeeps DEF OthersSame, ForkEnds, Nobody
    <2>2. CASE task_kernel_exec
      BY <2>2, ExecStartKeeps DEF ForkEnds
    <2>3. ASSUME NEW s \in Slots, Switch(s) \/ Exit(s) PROVE MmInv' /\ OthersSame /\ ForkEnds
      BY <2>3, SwitchKeeps DEF ForkEnds
    <2>4. ASSUME NEW va \in {ProcessVa, StackVa}, NEW v \in Data, Write(va, v)
          PROVE  MmInv' /\ OthersSame /\ ForkEnds
      BY <2>4, WriteKeeps DEF ForkEnds
    <2>5. ASSUME NEW size \in ImagePages, NEW from \in {ProcessVa, StackVa}, Exec(size, from)
          PROVE  MmInv' /\ OthersSame /\ ForkEnds
      BY <2>5, ExecKeeps DEF ForkEnds
    <2>6. CASE Forget \/ UNCHANGED mmVars
      BY <1>2, <2>6, ForgetKeeps DEF ForkEnds
    <2>7. ASSUME NEW c \in Slots, Fork(c) PROVE MmInv' /\ OthersSame /\ ForkEnds
      BY <2>7, ForkStarts DEF ForkEnds
    <2>8. CASE CopyArm
      BY <2>8, CopyArmKeeps DEF ForkEnds
    <2>9. CASE CopyBytes
      BY <2>9, CopyBytesKeeps DEF ForkEnds
    <2>10. CASE CopyDisarm
      BY <2>10, CopyDisarmKeeps DEF ForkEnds
    <2>11. ~mm_init
      BY <1>2 DEF mm_init
    <2> QED
      BY <2>1, <2>2, <2>3, <2>4, <2>5, <2>6, <2>7, <2>8, <2>9, <2>10, <2>11 DEF MmNext
  <1> QED
    BY <1>1, <1>2

(* Address spaces are apart and stay so, the copy window is shut between   *)
(* two pages, fork copies every page, and nobody but the task that runs    *)
(* and the child being made has its memory changed (mm.c, sched_fork).     *)
THEOREM MmIsCorrect == MmSpec => MmCorrect
  <1>1. MmInit => MmInv
    BY MmInitial
  <1>2. MmInv /\ [MmNext]_mmVars => MmInv' /\ OthersSame /\ ForkEnds
    BY MmInvStep
  <1>3. MmInv => MmTypeOK /\ Isolation /\ WindowClosed /\ RunnersMapped /\ StackArgsArrive
    BY MmInvCorrect
  <1>4. OthersSame => [\A s \in live : s # cr3 => \A f \in Region(s) : mem'[f] = mem[f]]_mmVars
    BY DEF OthersSame
  <1>5. ForkEnds => [copy.step = "disarm" /\ copy'.step = "idle" =>
                       \A va \in ProcessVas :
                         mem'[mm_va_to_pa(copy.to, va)] = mem'[mm_va_to_pa(cr3, va)]]_mmVars
    BY DEF ForkEnds
  <1> QED
    BY <1>1, <1>2, <1>3, <1>4, <1>5, PTL DEF MmSpec, MmCorrect, ForkCopies, OthersUntouched
-----------------------------------------------------------------------------
(* Dates.                                                                  *)

\* The days of a year before its month m, from 0, and those of all years
\* from 1970 to this one.
DaysToMonth(year, m) ==
  <<0, 31, 59, 90, 120, 151, 181, 212, 243, 273, 304, 334>>[m + 1]
    + (IF m >= 2 /\ is_leap(year) THEN 1 ELSE 0)

DaysToYear(year) == 365 * (year - 1970) + (year - 1969) \div 4

Centuries == 1970 .. 2099

LEMMA LeapYears ==
    ASSUME NEW year \in Centuries
    PROVE  is_leap(year) <=> year % 4 = 0
  BY DEF is_leap, Centuries

LEMMA MonthFollows ==
    ASSUME NEW year \in Centuries, NEW m \in 0 .. 10
    PROVE  DaysToMonth(year, m + 1) = DaysToMonth(year, m) + days_in_month(year, m)
  <1>1. m \in {0, 1, 2, 3, 4, 5, 6, 7, 8, 9, 10}
    OBVIOUS
  <1> QED
    BY <1>1 DEF DaysToMonth, days_in_month

LEMMA MonthLengths ==
    ASSUME NEW year \in Centuries, NEW m \in 0 .. 11
    PROVE  days_in_month(year, m) \in 28 .. 31 /\ DaysToMonth(year, m) \in 0 .. 335
  <1>1. m \in {0, 1, 2, 3, 4, 5, 6, 7, 8, 9, 10, 11}
    OBVIOUS
  <1> QED
    BY <1>1 DEF DaysToMonth, days_in_month

LEMMA YearFollows ==
    ASSUME NEW year \in Centuries
    PROVE  /\ DaysToYear(year) \in Nat
           /\ DaysToYear(year + 1) = DaysToYear(year) + DaysToMonth(year, 11) + 31
           /\ DaysToYear(year + 1) = DaysToYear(year) + 365 + (IF is_leap(year) THEN 1 ELSE 0)
  <1>1. DaysToMonth(year, 11) = 334 + (IF is_leap(year) THEN 1 ELSE 0)
    BY DEF DaysToMonth
  <1>2. ((year + 1) - 1969) \div 4 = (year - 1969) \div 4 + (IF year % 4 = 0 THEN 1 ELSE 0)
    BY DEF Centuries
  <1>3. DaysToYear(year + 1) = DaysToYear(year) + 365 + (IF year % 4 = 0 THEN 1 ELSE 0)
    BY <1>2 DEF DaysToYear, Centuries
  <1>4. DaysToYear(year) \in Nat
    BY DEF DaysToYear, Centuries
  <1> QED
    BY <1>1, <1>3, <1>4, LeapYears

\* Months and years come one after the other.
LEMMA MonthsInOrder ==
    ASSUME NEW year \in Centuries, NEW m \in 0 .. 11, NEW k \in 0 .. 11, m < k
    PROVE  DaysToMonth(year, m) + days_in_month(year, m) <= DaysToMonth(year, k)
  <1>1. /\ m \in {0, 1, 2, 3, 4, 5, 6, 7, 8, 9, 10, 11}
        /\ k \in {0, 1, 2, 3, 4, 5, 6, 7, 8, 9, 10, 11}
    OBVIOUS
  <1> QED
    BY <1>1 DEF DaysToMonth, days_in_month

LEMMA YearsInOrder ==
    ASSUME NEW year \in 1970 .. 2100, NEW k \in 1970 .. 2100, year < k
    PROVE  DaysToYear(year + 1) <= DaysToYear(k)
  BY DEF DaysToYear

LEMMA DaysBeforeAre ==
    ASSUME NEW year \in 1970 .. LastYear + 1
    PROVE  DaysBefore[year] = DaysToYear(year)
  <1>0. LastYear \in 2000 .. 2099
    BY CalendarAssumption
  <1> DEFINE Leaps(k) == {j \in 1970 .. k - 1 : is_leap(j)}
             Counted(k) == IsFiniteSet(Leaps(k)) /\ Cardinality(Leaps(k)) = (k - 1969) \div 4
             N == LastYear + 1 - 1970
             T == {p \in 0 .. N : Counted(1970 + p)}
  <1>1. 0 \in T
    <2>1. Leaps(1970) = {}
      OBVIOUS
    <2>2. Counted(1970)
      BY <2>1, FS_EmptySet
    <2> QED
      BY <1>0, <2>2
  <1>2. ASSUME NEW p \in 1 .. N, p - 1 \in T PROVE p \in T
    <2>1. PICK k \in Centuries : k = 1970 + (p - 1) /\ k + 1 = 1970 + p
      BY <1>0 DEF Centuries
    <2>2. Counted(k)
      BY <1>2, <2>1
    <2>3. Leaps(k + 1) = IF is_leap(k) THEN Leaps(k) \cup {k} ELSE Leaps(k)
      BY DEF Centuries
    <2>4. k \notin Leaps(k)
      BY DEF Centuries
    <2> HIDE DEF Leaps
    <2>5. PICK x : x = Leaps(k)
      OBVIOUS
    <2>6. IsFiniteSet(x) /\ Cardinality(x) = (k - 1969) \div 4 /\ k \notin x
      BY <2>2, <2>4, <2>5
    <2>7. IsFiniteSet(x \cup {k}) /\ Cardinality(x \cup {k}) = Cardinality(x) + 1
      BY <2>6, FS_AddElement
    <2>8. ((k + 1) - 1969) \div 4 = (k - 1969) \div 4 + (IF k % 4 = 0 THEN 1 ELSE 0)
      BY DEF Centuries
    <2>9. is_leap(k) <=> k % 4 = 0
      BY LeapYears
    <2>10. Counted(k + 1)
      <3>1. CASE is_leap(k)
        <4>1. Leaps(k + 1) = x \cup {k} /\ ((k + 1) - 1969) \div 4 = (k - 1969) \div 4 + 1
          BY <2>3, <2>5, <2>8, <2>9, <3>1
        <4> QED
          BY <2>6, <2>7, <4>1
      <3>2. CASE ~is_leap(k)
        <4>1. Leaps(k + 1) = x /\ ((k + 1) - 1969) \div 4 = (k - 1969) \div 4 + 0
          BY <2>3, <2>5, <2>8, <2>9, <3>2
        <4>2. (k - 1969) \div 4 + 0 = (k - 1969) \div 4
          BY DEF Centuries
        <4> QED
          BY <2>6, <4>1, <4>2
      <3> QED
        BY <3>1, <3>2
    <2>11. p \in 0 .. N
      OBVIOUS
    <2> QED
      BY <2>1, <2>10, <2>11
  <1>3. \A p \in 0 .. N : p \in T
    <2>1. N \in Nat
      BY <1>0
    <2> HIDE DEF N, T
    <2> QED
      BY <1>1, <1>2, <2>1, CountUp
  <1>4. Counted(year)
    <2>1. year - 1970 \in 0 .. N /\ 1970 + (year - 1970) = year
      BY <1>0
    <2> HIDE DEF Counted
    <2> QED
      BY <1>3, <2>1
  <1>5. DaysBefore[year] = 365 * (year - 1970) + Cardinality(Leaps(year))
    BY DEF DaysBefore
  <1> HIDE DEF Leaps
  <1> QED
    BY <1>4, <1>5 DEF DaysToYear


\* A year the calendar comes to.
Covered(year) == year \in 2000 .. LastYear

\* Where a month of a year lies.
LEMMA InYear ==
    ASSUME NEW year \in Centuries, NEW m \in 0 .. 11, NEW p \in 0 .. days_in_month(year, m) - 1
    PROVE  LET t == DaysToYear(year) + DaysToMonth(year, m) + p
           IN  DaysToYear(year) <= t /\ t < DaysToYear(year + 1) /\ t \in Int
  <1>1. PICK x, z, u, v, w : /\ x = days_in_month(year, m) /\ z = DaysToMonth(year, m)
                             /\ u = DaysToMonth(year, 11) /\ v = DaysToYear(year)
                             /\ w = DaysToYear(year + 1)
    OBVIOUS
  <1>2. x \in 28 .. 31 /\ z \in 0 .. 335
    BY <1>1, MonthLengths
  <1>3. u \in 0 .. 335
    BY <1>1, MonthLengths
  <1>4. v \in Nat /\ w = v + u + 31
    BY <1>1, YearFollows
  <1>5. z + x <= u + 31
    <2>1. CASE m = 11
      <3>1. x = 31 /\ z = u
        BY <1>1, <2>1 DEF days_in_month
      <3> QED
        BY <1>3, <3>1
    <2>2. CASE m # 11
      <3>1. z + x <= u
        BY <1>1, <2>2, MonthsInOrder
      <3> QED
        BY <1>2, <1>3, <3>1
    <2> QED
      BY <2>1, <2>2
  <1>6. p \in 0 .. x - 1
    BY <1>1
  <1>7. v <= v + z + p /\ v + z + p < w /\ v + z + p \in Int
    BY <1>2, <1>3, <1>4, <1>5, <1>6
  <1> QED
    BY <1>1, <1>7

\* What the date command makes of the days.
YearOf(t) == CHOOSE k \in 1970 .. LastYear : DaysBefore[k] <= t /\ t < DaysBefore[k + 1]

LEMMA YearFound ==
    ASSUME NEW year \in Centuries, Covered(year), NEW m \in 0 .. 11,
           NEW p \in 0 .. days_in_month(year, m) - 1
    PROVE  YearOf(DaysToYear(year) + DaysToMonth(year, m) + p) = year
  <1> DEFINE t == DaysToYear(year) + DaysToMonth(year, m) + p
             Holds(k) == DaysBefore[k] <= t /\ t < DaysBefore[k + 1]
  <1>0. /\ LastYear \in 2000 .. 2099 /\ year \in 1970 .. LastYear
        /\ \A k \in 1970 .. LastYear : /\ k \in 1970 .. LastYear + 1 /\ k + 1 \in 1970 .. LastYear + 1
                                       /\ k \in 1970 .. 2100 /\ k \in Centuries
    BY CalendarAssumption DEF Centuries, Covered
  <1>1. \A k \in 1970 .. LastYear : /\ DaysBefore[k] = DaysToYear(k) /\ DaysBefore[k + 1] = DaysToYear(k + 1)
                                    /\ DaysToYear(k) \in Nat /\ DaysToYear(k + 1) \in Int
    <2>1. \A k \in 1970 .. LastYear : DaysToYear(k) \in Nat /\ DaysToYear(k + 1) \in Int
      BY <1>0 DEF DaysToYear
    <2> QED
      BY <1>0, <2>1, DaysBeforeAre
  <1>2. DaysToYear(year) <= t /\ t < DaysToYear(year + 1) /\ t \in Int
    BY InYear
  <1> HIDE DEF t
  <1>3. Holds(year)
    BY <1>0, <1>1, <1>2
  <1>4. ASSUME NEW k \in 1970 .. LastYear, Holds(k) PROVE k = year
    <2>1. k < year => DaysToYear(k + 1) <= DaysToYear(year)
      BY <1>0, YearsInOrder
    <2>2. year < k => DaysToYear(year + 1) <= DaysToYear(k)
      BY <1>0, YearsInOrder
    <2>3. DaysToYear(year) \in Int /\ DaysToYear(k) \in Int /\ DaysToYear(k + 1) \in Int /\ DaysToYear(year + 1) \in Int
      BY <1>0, <1>1
    <2>4. DaysToYear(k) <= t /\ t < DaysToYear(k + 1)
      BY <1>1, <1>4
    <2> QED
      BY <1>0, <1>2, <2>1, <2>2, <2>3, <2>4
  <1> HIDE DEF Holds
  <1>5. (CHOOSE k \in 1970 .. LastYear : Holds(k)) = year
    BY <1>0, <1>3, <1>4
  <1> QED
    BY <1>5 DEF Holds, t, YearOf

\* One turn of the loop over the months.
MonthTurn(year, w) ==
  IF w.t < days_in_month(year, w.m) THEN w
  ELSE [m |-> w.m + 1, t |-> w.t - days_in_month(year, w.m)]

MonthLoop(f, year, p) ==
  f = [k \in 0 .. 11 |-> IF k = 0 THEN [m |-> 0, t |-> p] ELSE MonthTurn(year, f[k - 1])]

LEMMA MonthFound ==
    ASSUME NEW year \in Centuries, NEW m \in 0 .. 11, NEW p \in 0 .. days_in_month(year, m) - 1
    PROVE  LET z == DaysToMonth(year, m) + p
           IN  /\ \E f : MonthLoop(f, year, z)
               /\ \A f : MonthLoop(f, year, z) => f[11] = [m |-> m, t |-> p]
  <1> DEFINE z == DaysToMonth(year, m) + p
             Reached(k) == IF k < m THEN [m |-> k, t |-> z - DaysToMonth(year, k)] ELSE [m |-> m, t |-> p]
  <1>0. /\ \A k \in 0 .. 11 : days_in_month(year, k) \in 28 .. 31 /\ DaysToMonth(year, k) \in 0 .. 335
    BY MonthLengths
  <1>a. PICK len, x : len = days_in_month(year, m) /\ x = DaysToMonth(year, m)
    OBVIOUS
  <1>b. /\ len \in 28 .. 31 /\ x \in 0 .. 335 /\ p \in 0 .. len - 1 /\ z = x + p
        /\ p \in Nat /\ p < len /\ z \in Nat
    <2>1. len \in 28 .. 31 /\ x \in 0 .. 335
      BY <1>0, <1>a
    <2>2. p \in 0 .. len - 1 /\ z = x + p
      BY <1>a
    <2> HIDE DEF z
    <2> QED
      BY <2>1, <2>2
  <1> HIDE DEF z
  <1>1. Reached(0) = [m |-> 0, t |-> z]
    <2>1. DaysToMonth(year, 0) = 0
      BY DEF DaysToMonth
    <2>2. m = 0 => z = p
      BY <1>a, <1>b, <2>1
    <2>3. z - 0 = z
      BY <1>b
    <2>4. 0 < m \/ m = 0
      OBVIOUS
    <2> QED
      BY <2>1, <2>2, <2>3, <2>4
  <1>2. ASSUME NEW k \in 1 .. 11 PROVE Reached(k) = MonthTurn(year, Reached(k - 1))
    <2>0. k - 1 \in 0 .. 10 /\ (k - 1) + 1 = k /\ k - 1 \in 0 .. 11 /\ k \in 0 .. 11
      OBVIOUS
    <2>1. CASE k - 1 < m
      <3>1. Reached(k - 1) = [m |-> k - 1, t |-> z - DaysToMonth(year, k - 1)]
        BY <2>1
      <3>2. PICK c, u, v : /\ c = days_in_month(year, k - 1) /\ u = DaysToMonth(year, k - 1)
                           /\ v = DaysToMonth(year, k)
        OBVIOUS
      <3>3. c \in 28 .. 31 /\ u \in 0 .. 335 /\ v \in 0 .. 335
        BY <1>0, <2>0, <3>2
      <3>4. v = u + c
        BY <2>0, <3>2, MonthFollows
      <3>5. v <= x
        <4>1. k < m => v + days_in_month(year, k) <= x
          BY <1>a, <2>0, <3>2, MonthsInOrder
        <4>2. PICK e : e = days_in_month(year, k)
          OBVIOUS
        <4>3. e \in 28 .. 31
          BY <1>0, <2>0, <4>2
        <4>4. k < m => v <= x
          BY <1>b, <3>3, <4>1, <4>2, <4>3
        <4>5. k = m => v = x
          BY <1>a, <3>2
        <4>6. k = m \/ k < m
          BY <2>1
        <4> QED
          BY <1>b, <4>4, <4>5, <4>6
      <3>6. ~ (z - u < c) /\ z - u - c = z - v
        BY <1>b, <3>3, <3>4, <3>5
      <3>7. MonthTurn(year, Reached(k - 1)) = [m |-> k, t |-> z - v]
        BY <2>0, <3>1, <3>2, <3>6 DEF MonthTurn
      <3>8. k = m => z - v = p
        BY <1>a, <1>b, <3>2
      <3>9. k < m \/ k = m
        BY <2>1
      <3> QED
        BY <3>2, <3>7, <3>8, <3>9
    <2>2. CASE ~ (k - 1 < m)
      <3>1. Reached(k - 1) = [m |-> m, t |-> p] /\ Reached(k) = [m |-> m, t |-> p]
        BY <2>2
      <3> QED
        BY <1>a, <1>b, <3>1 DEF MonthTurn
    <2> QED
      BY <2>1, <2>2
  <1>3. Reached(11) = [m |-> m, t |-> p]
    <2>1. ~(11 < m)
      OBVIOUS
    <2> QED
      BY <2>1
  <1> HIDE DEF Reached
  <1>4. PICK g : g = [k \in 0 .. 11 |-> Reached(k)]
    OBVIOUS
  <1>5. MonthLoop(g, year, z)
    <2>1. \A k \in 0 .. 11 : g[k] = Reached(k)
      BY <1>4
    <2>2. \A k \in 0 .. 11 : Reached(k) = IF k = 0 THEN [m |-> 0, t |-> z] ELSE MonthTurn(year, g[k - 1])
      BY <1>1, <1>2, <2>1
    <2> QED
      BY <1>4, <2>2 DEF MonthLoop
  <1>6. ASSUME NEW f, MonthLoop(f, year, z) PROVE f[11] = [m |-> m, t |-> p]
    <2> DEFINE T == {k \in 0 .. 11 : f[k] = Reached(k)}
    <2>0. \A k \in 0 .. 11 : f[k] = IF k = 0 THEN [m |-> 0, t |-> z] ELSE MonthTurn(year, f[k - 1])
      BY <1>6 DEF MonthLoop
    <2>1. 0 \in T
      BY <1>1, <2>0
    <2>2. ASSUME NEW k \in 1 .. 11, k - 1 \in T PROVE k \in T
      BY <1>2, <2>0, <2>2
    <2>3. \A k \in 0 .. 11 : k \in T
      <3> HIDE DEF T
      <3> QED
        BY <2>1, <2>2, CountUp
    <2> QED
      BY <1>3, <2>3
  <1> QED
    BY <1>5, <1>6 DEF z

\* The year and the loop over the months in epoch_to_utc.
LEMMA EpochRuns ==
    ASSUME NEW t, NEW year, year = YearOf(t), NEW z, z = t - DaysBefore[year],
           \E f : MonthLoop(f, year, z)
    PROVE  \E f : /\ MonthLoop(f, year, z)
                  /\ epoch_to_utc(t) = [year |-> year, mon |-> f[11].m, mday |-> f[11].t + 1,
                                        wday |-> (t + 4) % 7]
  <1> DEFINE Eq(h) == h = [k \in 0 .. 11 |->
                 IF k = 0 THEN [m |-> 0, t |-> t - DaysBefore[year]]
                 ELSE LET w == h[k - 1]
                          len == days_in_month(year, w.m)
                      IN  IF w.t < len THEN w ELSE [m |-> w.m + 1, t |-> w.t - len]]
             run == CHOOSE h : Eq(h)
  <1>1. \A h : Eq(h) <=> MonthLoop(h, year, z)
    BY DEF MonthLoop, MonthTurn
  <1>2. epoch_to_utc(t) = [year |-> year, mon |-> run[11].m, mday |-> run[11].t + 1, wday |-> (t + 4) % 7]
    BY DEF epoch_to_utc, YearOf
  <1> HIDE DEF Eq
  <1>3. Eq(run)
    BY <1>1
  <1>4. MonthLoop(run, year, z)
    BY <1>1, <1>3
  <1> HIDE DEF run
  <1> QED
    BY <1>2, <1>4


\* The date is one there is, and both counts are those of the date.
DateInv ==
  /\ bcd_mode \in BOOLEAN /\ yr \in Centuries /\ Covered(yr)
  /\ mon \in 1 .. 12 /\ day \in 1 .. days_in_month(yr, mon - 1)
  /\ since = DaysToYear(yr) + DaysToMonth(yr, mon - 1) + (day - 1)
  /\ since \in Nat /\ weekday = (since + 4) % 7

LEMMA CodingUndone ==
    ASSUME NEW x \in 0 .. 99
    PROVE  rtc_value(Register(x)) = x
  <1>1. PICK u, v : u = x \div 10 /\ v = x % 10
    OBVIOUS
  <1>2. u \in Int /\ v \in 0 .. 9 /\ x = 10 * u + v
    BY <1>1
  <1>3. (u * 16 + v) % 16 = v /\ (u * 16 + v) \div 16 = u
    BY <1>2
  <1> QED
    BY <1>1, <1>2, <1>3 DEF rtc_value, Register, bcd

LEMMA DateInvHolds ==
    ASSUME DateInv
    PROVE  DatesCorrect
  <1>1. PICK m \in 0 .. 11 : m = mon - 1 /\ mon = m + 1
    BY DEF DateInv
  <1>2. PICK p : p = day - 1
    OBVIOUS
  <1>3. /\ yr \in Centuries /\ Covered(yr) /\ mon \in 1 .. 12 /\ day \in 1 .. days_in_month(yr, m)
        /\ since = DaysToYear(yr) + DaysToMonth(yr, m) + p /\ since \in Nat
        /\ weekday = (since + 4) % 7
    BY <1>1, <1>2 DEF DateInv
  <1>4. /\ day \in 1 .. 31 /\ day \in Nat /\ p \in 0 .. days_in_month(yr, m) - 1 /\ day = p + 1
    <2>1. PICK len : len = days_in_month(yr, m)
      OBVIOUS
    <2>2. len \in 28 .. 31
      BY <1>3, <2>1, MonthLengths
    <2>3. day \in 1 .. len
      BY <1>3, <2>1
    <2> QED
      BY <1>2, <2>1, <2>2, <2>3
  <1>5. EpochIsExact
    <2>1. rtc_value(Register(day)) = day /\ rtc_value(Register(mon)) = mon
      <3>1. day \in 0 .. 99 /\ mon \in 0 .. 99
        BY <1>3, <1>4
      <3> QED
        BY <3>1, CodingUndone
    <2>2. 2000 + rtc_value(Register(yr % 100)) = yr
      <3>1. yr \in 2000 .. 2099
        BY <1>3, CalendarAssumption DEF Covered
      <3>2. PICK k \in 0 .. 99 : k = yr - 2000 /\ yr = 2000 + k
        BY <3>1
      <3>3. yr % 100 = k
        BY <3>2
      <3>4. rtc_value(Register(k)) = k
        BY CodingUndone
      <3> QED
        BY <3>2, <3>3, <3>4
    <2>3. PICK x, u, v, z : /\ x = (yr - 1970) * 365 /\ u = (yr - 1969) \div 4
                            /\ v = <<0, 31, 59, 90, 120, 151, 181, 212, 243, 273, 304, 334>>[mon]
                            /\ z = IF LeapDay(mon, yr) THEN 1 ELSE 0
      OBVIOUS
    <2>4. RtcDays = x + u + v + p + z
      BY <1>2, <2>1, <2>2, <2>3 DEF RtcDays, rtc_days
    <2>5. LeapDay(mon, yr) <=> m >= 2 /\ is_leap(yr)
      BY <1>1, <1>3 DEF LeapDay, is_leap, Centuries
    <2>6. DaysToMonth(yr, m) = v + z /\ DaysToYear(yr) = x + u
      BY <1>1, <1>3, <2>3, <2>5 DEF DaysToMonth, DaysToYear, Centuries
    <2>7. {x, u, v, z, p} \subseteq Int
      <3>1. {x, u, z} \subseteq Int
        BY <1>3, <2>3 DEF Centuries
      <3>2. v \in Int
        <4>1. mon \in {1, 2, 3, 4, 5, 6, 7, 8, 9, 10, 11, 12}
          BY <1>3
        <4> QED
          BY <2>3, <4>1
      <3> QED
        BY <1>4, <3>1, <3>2
    <2> QED
      BY <1>3, <2>4, <2>6, <2>7 DEF EpochIsExact
  <1>6. DatePrintsDate
    <2>1. RtcDays = since
      BY <1>5 DEF EpochIsExact
    <2>2. PICK t : t = since
      OBVIOUS
    <2>3. t = DaysToYear(yr) + DaysToMonth(yr, m) + p
      BY <1>3, <2>2
    <2>4. YearOf(t) = yr
      <3>1. YearOf(DaysToYear(yr) + DaysToMonth(yr, m) + p) = yr
        BY <1>3, <1>4, YearFound
      <3> QED
        BY <2>3, <3>1
    <2>5. PICK z : z = DaysToMonth(yr, m) + p
      OBVIOUS
    <2>6. t - DaysBefore[yr] = z
      <3>1. PICK u, v : u = DaysToYear(yr) /\ v = DaysToMonth(yr, m)
        OBVIOUS
      <3>2. DaysBefore[yr] = u
        <4>1. yr \in 1970 .. LastYear + 1
          BY <1>3, CalendarAssumption DEF Covered
        <4> QED
          BY <3>1, <4>1, DaysBeforeAre
      <3>3. u \in Int /\ v \in Int /\ p \in Int
        <4>1. v \in 0 .. 335
          BY <1>3, <3>1, MonthLengths
        <4>2. p \in Int
          BY <1>4
        <4> QED
          BY <1>3, <3>1, <4>1, <4>2, YearFollows
      <3> QED
        BY <2>3, <2>5, <3>1, <3>2, <3>3
    <2>7. (\E f : MonthLoop(f, yr, z)) /\ \A f : MonthLoop(f, yr, z) => f[11] = [m |-> m, t |-> p]
      BY <1>3, <1>4, <2>5, MonthFound
    <2>8. PICK f : /\ MonthLoop(f, yr, z)
                   /\ epoch_to_utc(t) = [year |-> yr, mon |-> f[11].m, mday |-> f[11].t + 1,
                                         wday |-> (t + 4) % 7]
      BY <2>4, <2>6, <2>7, EpochRuns
    <2>9. f[11] = [m |-> m, t |-> p]
      BY <2>7, <2>8
    <2>10. PICK dt : dt = epoch_to_utc(t)
      OBVIOUS
    <2>11. dt.year = yr /\ dt.mon = m /\ dt.mday = p + 1 /\ dt.wday = (t + 4) % 7
      BY <2>8, <2>9, <2>10
    <2>12. dt.mon = mon - 1 /\ dt.mday = day /\ dt.wday = weekday
      BY <1>1, <1>3, <1>4, <2>2, <2>11
    <2> QED
      BY <2>1, <2>2, <2>10, <2>11, <2>12 DEF DatePrintsDate
  <1> QED
    BY <1>5, <1>6 DEF DatesCorrect

LEMMA DateStart == CalendarInit => DateInv
  <1> SUFFICES ASSUME CalendarInit PROVE DateInv
    OBVIOUS
  <1>1. yr \in Centuries /\ Covered(yr)
    BY CalendarAssumption DEF CalendarInit, Centuries, Covered
  <1>2. DaysToYear(2000) = 10957 /\ DaysToMonth(2000, 0) = 0 /\ days_in_month(2000, 0) = 31
    BY DEF DaysToYear, DaysToMonth, days_in_month
  <1>3. (10957 + 4) % 7 = 6
    OBVIOUS
  <1>4. yr = 2000 /\ mon = 1 /\ day = 1 /\ weekday = 6 /\ since = 10957 /\ bcd_mode \in BOOLEAN
    BY DEF CalendarInit
  <1> QED
    BY <1>1, <1>2, <1>3, <1>4 DEF DateInv

LEMMA DateStep ==
    ASSUME DateInv, [NextDay]_calendarVars
    PROVE  DateInv'
  <1>1. CASE UNCHANGED calendarVars
    BY <1>1 DEF DateInv, calendarVars
  <1>2. CASE NextDay
    <2>1. PICK m \in 0 .. 11 : m = mon - 1 /\ mon = m + 1
      BY DEF DateInv
    <2>2. PICK len, u, v : len = days_in_month(yr, m) /\ u = DaysToMonth(yr, m) /\ v = DaysToYear(yr)
      OBVIOUS
    <2>3. /\ yr \in Centuries /\ Covered(yr) /\ bcd_mode' = bcd_mode /\ bcd_mode \in BOOLEAN
          /\ len \in 28 .. 31 /\ u \in 0 .. 335 /\ v \in Nat
      BY <1>2, <2>1, <2>2, MonthLengths, YearFollows DEF DateInv, NextDay
    <2>4. /\ day \in 1 .. len /\ since = v + u + (day - 1) /\ since \in Nat
          /\ weekday = (since + 4) % 7
      BY <2>1, <2>2 DEF DateInv
    <2>5. MonthLength = len
      <3>1. GregorianLeap <=> is_leap(yr)
        BY <2>3 DEF GregorianLeap, is_leap, Centuries
      <3>2. m \in {0, 1, 2, 3, 4, 5, 6, 7, 8, 9, 10, 11}
        OBVIOUS
      <3> QED
        BY <2>1, <2>2, <3>1, <3>2 DEF MonthLength, days_in_month
    <2>6. since' = since + 1 /\ since' \in Nat /\ weekday' = (since' + 4) % 7
      <3>1. since' = since + 1 /\ weekday' = (weekday + 1) % 7
        BY <1>2 DEF NextDay
      <3> QED
        BY <2>4, <3>1
    <2>7. CASE day < len
      <3>1. day' = day + 1 /\ mon' = mon /\ yr' = yr
        BY <1>2, <2>5, <2>7 DEF NextDay
      <3>2. day' \in 1 .. len /\ since' = v + u + (day' - 1)
        BY <2>3, <2>4, <2>6, <2>7, <3>1
      <3> QED
        BY <2>1, <2>2, <2>3, <2>6, <3>1, <3>2 DEF DateInv
    <2>8. CASE ~(day < len) /\ mon < 12
      <3>1. day' = 1 /\ mon' = mon + 1 /\ yr' = yr /\ day = len
        BY <1>2, <2>3, <2>4, <2>5, <2>8 DEF NextDay
      <3>2. PICK k \in 0 .. 11 : k = m + 1 /\ m \in 0 .. 10 /\ mon' - 1 = k /\ mon' \in 1 .. 12
        BY <2>1, <2>8, <3>1
      <3>3. PICK x : x = days_in_month(yr, k)
        OBVIOUS
      <3>4. x \in 28 .. 31
        BY <2>3, <3>3, MonthLengths
      <3>5. DaysToMonth(yr, k) = u + len
        BY <2>2, <2>3, <3>2, MonthFollows
      <3>6. since' = v + (u + len) + (day' - 1) /\ day' \in 1 .. x
        BY <2>3, <2>4, <2>6, <3>1, <3>4
      <3> QED
        BY <2>2, <2>3, <2>6, <3>1, <3>2, <3>3, <3>5, <3>6 DEF DateInv
    <2>9. CASE ~(day < len) /\ ~(mon < 12)
      <3>1. day' = 1 /\ mon' = 1 /\ yr' = yr + 1 /\ day = len /\ m = 11
        BY <1>2, <2>1, <2>3, <2>4, <2>5, <2>9 DEF NextDay
      <3>2. len = 31
        BY <2>2, <3>1 DEF days_in_month
      <3>3. yr # LastYear
        BY <1>2, <2>1, <3>1, <3>2 DEF NextDay
      <3>4. yr' \in Centuries /\ Covered(yr)'
        BY <2>3, <3>1, <3>3, CalendarAssumption DEF Centuries, Covered
      <3>5. DaysToYear(yr + 1) = v + u + 31
        BY <2>2, <2>3, <3>1, YearFollows
      <3>6. DaysToMonth(yr', 0) = 0 /\ days_in_month(yr', 0) = 31
        BY DEF DaysToMonth, days_in_month
      <3>7. since' = (v + u + 31) + 0 + (day' - 1)
        BY <2>3, <2>4, <2>6, <3>1, <3>2
      <3>8. mon' - 1 = 0 /\ mon' \in 1 .. 12 /\ day' \in 1 .. 31
        BY <3>1
      <3> QED
        BY <2>3, <2>6, <3>1, <3>4, <3>5, <3>6, <3>7, <3>8 DEF DateInv
    <2> QED
      BY <2>7, <2>8, <2>9
  <1> QED
    BY <1>1, <1>2

(* Every date is the right number of days at boot and the same date again  *)
(* for the date command, whatever the last year that the calendar comes to *)
(* (clock.c, date.c).                                                      *)
THEOREM DatesAreCorrect == CalendarSpec => []DatesCorrect
  <1>1. CalendarInit => DateInv
    BY DateStart
  <1>2. DateInv /\ [NextDay]_calendarVars => DateInv'
    BY DateStep
  <1>3. DateInv => DatesCorrect
    BY DateInvHolds
  <1> QED
    BY <1>1, <1>2, <1>3, PTL DEF CalendarSpec

(* Clocks never go back and are exact to a nanosecond, real time follows   *)
(* the chip that was read at boot, and dates come out as they were set, for *)
(* every rate of the counter and every last year (clock.c, date.c).        *)
THEOREM TimeIsCorrect == ClockSpec /\ CalendarSpec => TimeCorrect
  BY ClockIsCorrect, DatesAreCorrect DEF TimeCorrect
=============================================================================
