--------------------------- MODULE CounterLemmas ---------------------------
(***************************************************************************)
(* Lemmas about remainders and about counters that wrap around, for the    *)
(* rings of the kernel: the free task slots, the free files and the bytes  *)
(* typed at a terminal; and about texts, sequences whose elements do not   *)
(* matter.                                                                 *)
(***************************************************************************)
EXTENDS Integers, WellFoundedInduction, SequenceTheorems, TLAPS

\* A non-empty set of natural numbers has a least element.
LEMMA LeastNat ==
    ASSUME NEW T, T \subseteq Nat, T # {}
    PROVE  \E x \in T : \A y \in T : ~(y < x)
  <1> DEFINE R == OpToRel(<, Nat)
  <1>1. IsWellFoundedOn(R, Nat)
    BY NatLessThanWellFounded
  <1>2. \A y, x \in Nat : y < x => <<y, x>> \in R
    BY DEF OpToRel
  <1> HIDE DEF R
  <1>3. PICK x \in T : \A y \in T : ~(<<y, x>> \in R)
    BY <1>1, WFMin
  <1> QED
    BY <1>2, <1>3

\* Counting up from 0 reaches every number.
LEMMA CountUp ==
    ASSUME NEW N \in Nat, NEW T, 0 \in T, \A n \in 1 .. N : n - 1 \in T => n \in T
    PROVE  \A n \in 0 .. N : n \in T
  <1> DEFINE B == {n \in 0 .. N : n \notin T}
  <1> SUFFICES ASSUME B # {} PROVE FALSE
    OBVIOUS
  <1>1. PICK n \in B : \A m \in B : ~(m < n)
    <2>1. B \subseteq Nat
      OBVIOUS
    <2> HIDE DEF B
    <2> QED
      BY <2>1, LeastNat
  <1>2. n \in 1 .. N /\ n - 1 \in 0 .. N /\ n - 1 < n
    BY <1>1
  <1>3. n - 1 \in T
    BY <1>1, <1>2
  <1> QED
    BY <1>1, <1>2, <1>3

\* What a step makes of a value, again and again.
Iterates(f, N, X, b, step) ==
    /\ f \in [0 .. N -> X] /\ f[0] = b
    /\ \A n \in 1 .. N : f[n] = step[<<n, f[n - 1]>>]

LEMMA RecursionExists ==
    ASSUME NEW N \in Nat, NEW X, NEW b \in X, NEW step \in [(1 .. N) \X X -> X]
    PROVE  \E f : Iterates(f, N, X, b, step)
  <1> DEFINE Runs(f, k) == Iterates(f, k, X, b, step)
             T == {k \in 0 .. N : \E f : Runs(f, k)}
  <1> USE DEF Iterates
  <1>1. 0 \in T
    <2>1. PICK g : g = [n \in 0 .. 0 |-> b]
      OBVIOUS
    <2>2. Runs(g, 0)
      BY <2>1
    <2>3. 0 \in 0 .. N
      OBVIOUS
    <2> HIDE DEF Runs
    <2> QED
      BY <2>2, <2>3
  <1>2. ASSUME NEW k \in 1 .. N, k - 1 \in T PROVE k \in T
    <2>1. PICK f : Runs(f, k - 1)
      BY <1>2
    <2>a. PICK g : g = [n \in 0 .. k |-> IF n = k THEN step[<<k, f[k - 1]>>] ELSE f[n]]
      OBVIOUS
    <2>2. /\ k - 1 \in 0 .. k - 1 /\ 0 \in 0 .. k - 1 /\ 0 # k
          /\ \A n \in 0 .. k : n # k => n \in 0 .. k - 1
          /\ \A n \in 1 .. k : n # k => n \in 1 .. k - 1 /\ n - 1 \in 0 .. k - 1 /\ n - 1 # k
      OBVIOUS
    <2>3. f[k - 1] \in X /\ step[<<k, f[k - 1]>>] \in X
      BY <2>1, <2>2
    <2>4. g \in [0 .. k -> X] /\ g[0] = b
      BY <2>1, <2>2, <2>3, <2>a
    <2>5. ASSUME NEW n \in 1 .. k PROVE g[n] = step[<<n, g[n - 1]>>]
      <3>1. CASE n = k
        <4>1. n - 1 \in 0 .. k /\ n - 1 # k /\ n \in 0 .. k
          BY <3>1
        <4> QED
          BY <3>1, <4>1, <2>a
      <3>2. CASE n # k
        <4>1. n - 1 \in 0 .. k /\ n - 1 # k /\ n \in 0 .. k
          BY <2>2, <3>2
        <4>2. f[n] = step[<<n, f[n - 1]>>]
          BY <2>1, <2>2, <3>2
        <4> QED
          BY <3>2, <4>1, <4>2, <2>a
      <3> QED
        BY <3>1, <3>2
    <2>6. Runs(g, k)
      BY <2>4, <2>5
    <2>7. k \in 0 .. N
      OBVIOUS
    <2> HIDE DEF Runs
    <2> QED
      BY <2>6, <2>7
  <1>3. N \in T
    <2>1. N \in 0 .. N
      OBVIOUS
    <2> HIDE DEF T
    <2> QED
      BY <1>1, <1>2, <2>1, CountUp
  <1>4. PICK f : Runs(f, N)
    BY <1>3
  <1> QED
    BY <1>4

\* Division with remainder, the only fact about % the proofs use.
LEMMA DivMod ==
    ASSUME NEW x \in Int, NEW n \in Nat \ {0}
    PROVE  /\ x % n \in 0 .. n - 1
           /\ x \div n \in Int
           /\ x = n * (x \div n) + (x % n)
  OBVIOUS

\* A remainder is determined by its defining equation.
LEMMA ModUnique ==
    ASSUME NEW n \in Nat \ {0}, NEW q \in Int, NEW r \in 0 .. n - 1
    PROVE  (n * q + r) % n = r
  <1> DEFINE x == n * q + r
             d == q - (x \div n)
  <1>1. x \in Int
    OBVIOUS
  <1>2. /\ x % n \in 0 .. n - 1
        /\ x \div n \in Int
        /\ x = n * (x \div n) + (x % n)
    BY <1>1, DivMod
  <1>3. d \in Int /\ n * d = (x % n) - r
    BY <1>2
  <1>4. d = 0
    <2>1. CASE d >= 1
      <3>1. n * d >= n
        BY <1>3, <2>1
      <3> QED
        BY <3>1, <1>2, <1>3
    <2>2. CASE d <= -1
      <3>1. n * d <= -n
        BY <1>3, <2>2
      <3> QED
        BY <3>1, <1>2, <1>3
    <2> QED
      BY <2>1, <2>2, <1>3
  <1> QED
    BY <1>2, <1>3, <1>4

\* Adding a multiple of the modulus changes nothing.
LEMMA ModShift ==
    ASSUME NEW n \in Nat \ {0}, NEW q \in Int, NEW x \in Int
    PROVE  (n * q + x) % n = x % n
  <1> DEFINE k == x \div n
             r == x % n
  <1>1. k \in Int /\ r \in 0 .. n - 1 /\ x = n * k + r
    BY DivMod
  <1> HIDE DEF k, r
  <1>2. q + k \in Int /\ n * q + x = n * (q + k) + r
    BY <1>1
  <1>3. (n * (q + k) + r) % n = r
    BY <1>1, <1>2, ModUnique
  <1> USE DEF r
  <1> QED
    BY <1>2, <1>3

\* Two numbers less than n apart have different remainders.
LEMMA ModApart ==
    ASSUME NEW n \in Nat \ {0}, NEW x \in Int, NEW d \in 1 .. n - 1
    PROVE  (x + d) % n # x % n
  <1> SUFFICES ASSUME (x + d) % n = x % n PROVE FALSE
    OBVIOUS
  <1> DEFINE k == x \div n
             j == (x + d) \div n
  <1>1. k \in Int /\ x = n * k + (x % n) /\ x % n \in Int
    BY DivMod
  <1>2. j \in Int /\ x + d = n * j + ((x + d) % n)
    BY DivMod
  <1>3. d = n * (j - k)
    BY <1>1, <1>2
  <1>4. CASE j - k >= 1
    <2>1. n * (j - k) >= n
      BY <1>1, <1>2, <1>4
    <2> QED
      BY <2>1, <1>3
  <1>5. CASE j - k <= 0
    <2>1. n * (j - k) <= 0
      BY <1>1, <1>2, <1>5
    <2> QED
      BY <2>1, <1>3
  <1> QED
    BY <1>1, <1>2, <1>4, <1>5

---------------------------------------------------------------------------
(* Free-running counters, as the rings of the kernel use them.             *)

\* A ring position is the same whether the counter wrapped or not, when the
\* ring size n divides the counter's modulus m.
LEMMA ModOfMod ==
    ASSUME NEW n \in Nat \ {0}, NEW m \in Nat \ {0}, m % n = 0,
           NEW x \in Int, NEW j \in Int
    PROVE  ((x % m) + j) % n = (x + j) % n
  <1> DEFINE k == m \div n
             d == x \div m
             y == x % m
  <1>1. n \in Nat \ {0} /\ m \in Nat \ {0} /\ m % n = 0
    OBVIOUS
  <1>2. k \in Int /\ m = n * k
    <2>1. k \in Int /\ m = n * k + (m % n)
      BY <1>1, DivMod
    <2> QED
      BY <1>1, <2>1
  <1>3. d \in Int /\ y \in Int /\ x = m * d + y
    BY <1>1, DivMod
  <1> HIDE DEF k, d, y
  <1>4. k * d \in Int /\ y + j \in Int /\ x + j = n * (k * d) + (y + j)
    BY <1>1, <1>2, <1>3
  <1>5. (n * (k * d) + (y + j)) % n = (y + j) % n
    BY <1>1, <1>4, ModShift
  <1> QED
    BY <1>4, <1>5 DEF y

\* A pair of counters h and t modulo m that stand c apart: advancing h
\* lowers the distance by one, advancing t raises it, and t is h plus the
\* distance.
LEMMA CounterPair ==
    ASSUME NEW m \in Nat \ {0}, NEW h \in 0 .. m - 1, NEW t \in 0 .. m - 1
    PROVE  LET c == (t - h) % m
           IN  /\ c \in 0 .. m - 1
               /\ c = 0 <=> h = t
               /\ t = (h + c) % m
               /\ c >= 1 => (t - ((h + 1) % m)) % m = c - 1
               /\ c < m - 1 =>
                    (((t + 1) % m) - h) % m = c + 1
  <1> DEFINE c == (t - h) % m
             d == (t - h) \div m
  <1>1. m \in Nat \ {0} /\ h \in 0 .. m - 1 /\ t \in 0 .. m - 1
    OBVIOUS
  <1>2. c \in 0 .. m - 1 /\ d \in Int /\ t - h = m * d + c
    BY <1>1, DivMod
  <1> HIDE DEF c, d
  <1>3. h <= t => d = 0 /\ c = t - h
    <2>1. SUFFICES ASSUME h <= t PROVE d = 0
      BY <1>1, <1>2
    <2>2. d >= 1 => m * d >= m
      BY <1>1, <1>2
    <2>3. d <= -1 => m * d <= -m
      BY <1>1, <1>2
    <2> QED
      BY <1>1, <1>2, <2>1, <2>2, <2>3
  <1>4. h > t => d = -1 /\ c = t - h + m
    <2>1. SUFFICES ASSUME h > t PROVE d = -1
      BY <1>1, <1>2
    <2>2. d >= 0 => m * d >= 0
      BY <1>1, <1>2
    <2>3. d <= -2 => m * d <= -(2 * m)
      BY <1>1, <1>2
    <2> QED
      BY <1>1, <1>2, <2>1, <2>2, <2>3
  <1>5. c = 0 <=> h = t
    BY <1>1, <1>2, <1>3, <1>4
  <1>6. \A x \in Int : /\ x \in 0 .. m - 1 => x % m = x
                       /\ x - m \in 0 .. m - 1 => x % m = x - m
                       /\ x + m \in 0 .. m - 1 => x % m = x + m
    <2>1. TAKE x \in Int
    <2>2. x \in 0 .. m - 1 => x % m = x
      <3>1. ASSUME x \in 0 .. m - 1 PROVE (m * 0 + x) % m = x
        BY <1>1, <3>1, ModUnique
      <3> QED
        BY <1>1, <3>1
    <2>3. x - m \in 0 .. m - 1 => x % m = x - m
      <3>1. ASSUME x - m \in 0 .. m - 1 PROVE (m * 1 + (x - m)) % m = x - m
        BY <1>1, <3>1, ModUnique
      <3> QED
        BY <1>1, <3>1
    <2>4. x + m \in 0 .. m - 1 => x % m = x + m
      <3>1. \A q \in Int : x + m \in 0 .. m - 1 => (m * q + (x + m)) % m = x + m
        BY <1>1, ModUnique
      <3>2. x + m \in 0 .. m - 1 => (m * (-1) + (x + m)) % m = x + m
        BY <3>1
      <3> QED
        BY <1>1, <3>2
    <2> QED
      BY <2>2, <2>3, <2>4
  <1>7. t = (h + c) % m
    BY <1>1, <1>2, <1>3, <1>4, <1>6
  <1>8. c >= 1 => (t - ((h + 1) % m)) % m = c - 1
    <2>1. CASE h + 1 = m
      <3>1. (h + 1) % m = 0
        BY <1>1, <1>6, <2>1
      <3> QED
        BY <1>1, <1>2, <1>3, <1>4, <1>6, <2>1, <3>1
    <2>2. CASE h + 1 # m
      <3>1. (h + 1) % m = h + 1
        BY <1>1, <1>6, <2>2
      <3> QED
        BY <1>1, <1>2, <1>3, <1>4, <1>6, <2>2, <3>1
    <2> QED
      BY <2>1, <2>2
  <1>9. c < m - 1 => (((t + 1) % m) - h) % m = c + 1
    <2>1. CASE t + 1 = m
      <3>1. (t + 1) % m = 0
        BY <1>1, <1>6, <2>1
      <3> QED
        BY <1>1, <1>2, <1>3, <1>4, <1>6, <2>1, <3>1
    <2>2. CASE t + 1 # m
      <3>1. (t + 1) % m = t + 1
        BY <1>1, <1>6, <2>2
      <3> QED
        BY <1>1, <1>2, <1>3, <1>4, <1>6, <2>2, <3>1
    <2> QED
      BY <2>1, <2>2
  <1> QED
    BY <1>2, <1>5, <1>7, <1>8, <1>9 DEF c

\* Counter t is c ahead of counter h.
Ahead(m, h, t, c) == c = (t - h) % m

\* What one more in the ring makes of a count.
LEMMA CounterUp ==
    ASSUME NEW m \in Nat \ {0}, NEW h \in 0 .. m - 1, NEW t \in 0 .. m - 1,
           NEW c, Ahead(m, h, t, c)
    PROVE  /\ c \in 0 .. m - 1
           /\ t = (h + c) % m
           /\ c < m - 1 => (((t + 1) % m) - h) % m = c + 1
  BY CounterPair DEF Ahead

\* Advancing h by several lowers the distance by as many.
LEMMA CounterDrop ==
    ASSUME NEW m \in Nat \ {0}, NEW h \in 0 .. m - 1, NEW t \in 0 .. m - 1,
           NEW k \in 0 .. (t - h) % m
    PROVE  (t - ((h + k) % m)) % m = ((t - h) % m) - k
  <1> DEFINE c == (t - h) % m
             d == (t - h) \div m
             y == (h + k) % m
             a == (h + k) \div m
  <1>1. c \in 0 .. m - 1 /\ d \in Int /\ t - h = m * d + c
    BY DivMod
  <1>2. k \in 0 .. c /\ k \in Int
    BY <1>1
  <1>3. y \in 0 .. m - 1 /\ a \in Int /\ h + k = m * a + y
    <2>1. h + k \in Int
      BY <1>2
    <2> QED
      BY <2>1, DivMod
  <1> HIDE DEF c, d, y, a
  <1>4. d + a \in Int /\ c - k \in 0 .. m - 1 /\ t - y = m * (d + a) + (c - k)
    BY <1>1, <1>2, <1>3
  <1>5. (m * (d + a) + (c - k)) % m = c - k
    BY <1>4, ModUnique
  <1> QED
    BY <1>4, <1>5 DEF c, y

-----------------------------------------------------------------------------
\* A sequence, of whatever it is.
IsText(s) == Len(s) \in Nat /\ s = [k \in 1 .. Len(s) |-> s[k]]

LEMMA SeqIsText ==
    ASSUME NEW C, NEW s \in Seq(C)
    PROVE  IsText(s)
  BY LenProperties DEF IsText

LEMMA TextIsSeq ==
    ASSUME NEW s, IsText(s)
    PROVE  \E C : s \in Seq(C)
  <1>1. PICK C : C = {s[k] : k \in 1 .. Len(s)}
    OBVIOUS
  <1>2. PICK n \in Nat : n = Len(s)
    BY DEF IsText
  <1>3. s = [k \in 1 .. n |-> s[k]]
    BY <1>2 DEF IsText
  <1>4. \A k \in 1 .. n : s[k] \in C
    BY <1>1, <1>2
  <1>5. s \in [1 .. n -> C]
    BY <1>3, <1>4
  <1>6. s \in UNION {[1 .. m -> C] : m \in Nat}
    BY <1>5
  <1>7. s \in Seq(C)
    BY <1>6, SeqDef, Zenon
  <1> QED
    BY <1>7

\* A text after another.
LEMMA TextsJoin ==
    ASSUME NEW s, IsText(s), NEW t, IsText(t)
    PROVE  /\ IsText(s \o t) /\ Len(s \o t) = Len(s) + Len(t)
           /\ \A k \in 1 .. Len(s) : (s \o t)[k] = s[k]
           /\ \A k \in 1 .. Len(t) : (s \o t)[Len(s) + k] = t[k]
           /\ SubSeq(s \o t, Len(s) + 1, Len(s \o t)) = t
  <1>1. PICK A : s \in Seq(A)
    BY TextIsSeq
  <1>2. PICK B : t \in Seq(B)
    BY TextIsSeq
  <1>3. PICK C : C = A \cup B
    OBVIOUS
  <1>4. s \in Seq(C) /\ t \in Seq(C)
    <2>1. A \subseteq C /\ B \subseteq C
      BY <1>3
    <2> QED
      BY <1>1, <1>2, <2>1
  <1>5. PICK m, n \in Nat : m = Len(s) /\ n = Len(t)
    BY <1>4
  <1>6. PICK q : q = s \o t
    OBVIOUS
  <1>7. /\ q \in Seq(C) /\ Len(q) = m + n
        /\ \A i \in 1 .. m + n : q[i] = IF i <= m THEN s[i] ELSE t[i - m]
    <2>1. /\ q \in Seq(C) /\ Len(q) = Len(s) + Len(t)
          /\ \A i \in 1 .. Len(s) + Len(t) : q[i] = IF i <= Len(s) THEN s[i] ELSE t[i - Len(s)]
      BY <1>4, <1>6, ConcatProperties
    <2> QED
      BY <1>5, <2>1
  <1>8. \A k \in 1 .. m : q[k] = s[k]
    BY <1>7
  <1>9. \A k \in 1 .. n : q[m + k] = t[k]
    BY <1>7
  <1>10. SubSeq(q, m + 1, m + n) = t
    <2>1. PICK r : r = SubSeq(q, m + 1, m + n)
      OBVIOUS
    <2>2. r \in Seq(C) /\ Len(r) = n /\ \A i \in 1 .. n : r[i] = q[m + i]
      <3>1. PICK a, z \in Int : a = m + 1 /\ z = m + n
        OBVIOUS
      <3>2. \A i \in a .. z : q[i] \in C
        <4>1. \A i \in a .. z : i \in 1 .. Len(q)
          BY <1>7, <3>1
        <4> QED
          BY <1>7, <4>1, ElementOfSeq
      <3>3. /\ r \in Seq(C) /\ Len(r) = IF a <= z THEN z - a + 1 ELSE 0
            /\ \A i \in 1 .. z - a + 1 : r[i] = q[a + i - 1]
        BY <2>1, <3>1, <3>2, SubSeqProperties
      <3>4. /\ z - a + 1 = n /\ (IF a <= z THEN z - a + 1 ELSE 0) = n
            /\ \A i \in 1 .. n : a + i - 1 = m + i
        BY <3>1
      <3> QED
        BY <3>3, <3>4
    <2>3. \A i \in 1 .. n : r[i] = t[i]
      BY <1>9, <2>2
    <2>4. r = t
      BY <1>4, <1>5, <2>2, <2>3, SeqEqual
    <2> QED
      BY <2>1, <2>4
  <1> QED
    BY <1>5, <1>6, <1>7, <1>8, <1>9, <1>10, SeqIsText
=============================================================================
