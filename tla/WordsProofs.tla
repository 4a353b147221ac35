---------------------------- MODULE WordsProofs ----------------------------
(***************************************************************************)
(* Proofs about the lines of the shell: its words, the expansion of its    *)
(* variables, assignments, and the environment of the programs it starts,  *)
(* for every line, every alphabet and every size of the buffers.           *)
(***************************************************************************)
EXTENDS ShellWords, CounterLemmas, FiniteSetTheorems

(* Strings and their parts.                                                *)

LEMMA GivenTexts ==
    /\ DOMAIN Special = {"?", "$", "!"} /\ \A c \in DOMAIN Special : IsText(Special[c])
    /\ IsText(Value)
  BY WordsAssumption, SeqIsText

\* Two strings that agree everywhere.
LEMMA SameString ==
    ASSUME NEW s, IsText(s), NEW t, IsText(t), Len(s) = Len(t),
           \A k \in 1 .. Len(s) : s[k] = t[k]
    PROVE  s = t
  <1>1. s = [k \in 1 .. Len(s) |-> s[k]] /\ t = [k \in 1 .. Len(s) |-> t[k]]
    BY DEF IsText
  <1>2. [k \in 1 .. Len(s) |-> s[k]] = [k \in 1 .. Len(s) |-> t[k]]
    OBVIOUS
  <1> QED
    BY <1>1, <1>2

\* A sequence given place by place.
LEMMA GivenString ==
    ASSUME NEW n \in Nat, NEW s, s = [k \in 1 .. n |-> s[k]]
    PROVE  IsText(s) /\ Len(s) = n
  <1>1. PICK C : C = {s[k] : k \in 1 .. n}
    OBVIOUS
  <1>2. \A k \in 1 .. n : s[k] \in C
    BY <1>1
  <1>3. s \in [1 .. n -> C]
    BY <1>2
  <1>4. s \in UNION {[1 .. m -> C] : m \in Nat}
    BY <1>3
  <1>5. s \in Seq(C)
    BY <1>4, SeqDef, Zenon
  <1>6. Len(s) \in Nat /\ DOMAIN s = 1 .. Len(s) /\ DOMAIN s = 1 .. n
    BY <1>3, <1>5, LenProperties
  <1>7. Len(s) = n
    BY <1>6
  <1> QED
    BY <1>5, <1>7, SeqIsText

LEMMA AppendedString ==
    ASSUME NEW s, IsText(s), NEW e
    PROVE  /\ IsText(Append(s, e)) /\ Len(Append(s, e)) = Len(s) + 1
           /\ \A k \in 1 .. Len(s) : Append(s, e)[k] = s[k]
           /\ Append(s, e)[Len(s) + 1] = e
  <1>1. PICK A : s \in Seq(A)
    BY TextIsSeq
  <1>2. PICK C : C = A \cup {e}
    OBVIOUS
  <1>3. s \in Seq(C) /\ e \in C
    BY <1>1, <1>2
  <1>4. PICK t : t = Append(s, e)
    OBVIOUS
  <1>5. /\ t \in Seq(C) /\ Len(t) = Len(s) + 1
        /\ \A k \in 1 .. Len(s) : t[k] = s[k]
        /\ t[Len(s) + 1] = e
    BY <1>3, <1>4, AppendProperties
  <1>6. IsText(t)
    BY <1>5, SeqIsText
  <1> QED
    BY <1>4, <1>5, <1>6

LEMMA PartOfString ==
    ASSUME NEW s, IsText(s), NEW a \in 1 .. Len(s) + 1, NEW b \in a - 1 .. Len(s)
    PROVE  /\ IsText(SubSeq(s, a, b)) /\ Len(SubSeq(s, a, b)) = b - a + 1
           /\ \A k \in 1 .. b - a + 1 : SubSeq(s, a, b)[k] = s[a + k - 1]
  <1>1. PICK C : s \in Seq(C)
    BY TextIsSeq
  <1>2. Len(s) \in Nat /\ a \in Int /\ b \in Int
    BY DEF IsText
  <1>3. \A i \in a .. b : i \in 1 .. Len(s)
    BY <1>2
  <1>4. \A i \in a .. b : s[i] \in C
    BY <1>1, <1>3, ElementOfSeq
  <1>5. /\ SubSeq(s, a, b) \in Seq(C)
        /\ Len(SubSeq(s, a, b)) = IF a <= b THEN b - a + 1 ELSE 0
        /\ \A i \in 1 .. b - a + 1 : SubSeq(s, a, b)[i] = s[a + i - 1]
    BY <1>2, <1>4, SubSeqProperties
  <1>6. (IF a <= b THEN b - a + 1 ELSE 0) = b - a + 1
    BY <1>2
  <1> QED
    BY <1>5, <1>6, SeqIsText

LEMMA FirstOfString ==
    ASSUME NEW s, IsText(s), NEW m \in 0 .. Len(s)
    PROVE  /\ IsText(SubSeq(s, 1, m)) /\ Len(SubSeq(s, 1, m)) = m
           /\ \A k \in 1 .. m : SubSeq(s, 1, m)[k] = s[k]
  <1>1. PICK one \in Nat : one = 1
    OBVIOUS
  <1>2. one \in 1 .. Len(s) + 1 /\ m \in one - 1 .. Len(s) /\ m - one + 1 = m
    BY <1>1 DEF IsText
  <1>3. /\ IsText(SubSeq(s, one, m)) /\ Len(SubSeq(s, one, m)) = m
        /\ \A k \in 1 .. m : SubSeq(s, one, m)[k] = s[one + k - 1]
    BY <1>2, PartOfString
  <1>4. \A k \in 1 .. m : one + k - 1 = k
    BY <1>1
  <1> QED
    BY <1>1, <1>3, <1>4

LEMMA EmptyString == IsText(<<>>) /\ Len(<<>>) = 0
  <1>1. <<>> \in Seq({0})
    OBVIOUS
  <1> QED
    BY <1>1, SeqIsText, EmptySeq

\* The lesser of two numbers, and the greatest of an interval's subset.
LEMMA LesserOfTwo ==
    ASSUME NEW a \in Int, NEW b \in Int
    PROVE  Min({a, b}) = IF a <= b THEN a ELSE b
  <1>1. PICK m : m = IF a <= b THEN a ELSE b
    OBVIOUS
  <1>2. m \in {a, b} /\ \A y \in {a, b} : m <= y
    BY <1>1
  <1>3. \A x \in {a, b} : (\A y \in {a, b} : x <= y) => x = m
    BY <1>1
  <1>4. Min({a, b}) \in {a, b} /\ \A y \in {a, b} : Min({a, b}) <= y
    BY <1>2 DEF Min
  <1> QED
    BY <1>1, <1>3, <1>4

LEMMA GreatestIs ==
    ASSUME NEW a \in Int, NEW b \in Int, NEW S, S \subseteq a .. b, S # {}
    PROVE  Max(S) \in S /\ \A y \in S : y <= Max(S)
  <1> DEFINE T == {b - x : x \in S}
  <1>1. T \subseteq Nat /\ T # {}
    <2>1. \A x \in S : b - x \in Nat
      OBVIOUS
    <2>2. PICK x \in S : TRUE
      OBVIOUS
    <2>3. b - x \in T
      OBVIOUS
    <2> QED
      BY <2>1, <2>3
  <1>2. PICK n \in T : \A m \in T : ~(m < n)
    <2> HIDE DEF T
    <2> QED
      BY <1>1, LeastNat
  <1>3. PICK x \in S : n = b - x
    BY <1>2
  <1>4. \A y \in S : y <= x
    <2> TAKE y \in S
    <2>1. b - y \in T /\ y \in Int /\ x \in Int
      OBVIOUS
    <2>2. ~(b - y < b - x)
      BY <1>2, <1>3, <2>1
    <2> QED
      BY <2>1, <2>2
  <1> QED
    BY <1>3, <1>4 DEF Max

-----------------------------------------------------------------------------
\* Characters at some places, and at one more place after them.
LEMMA AtIs ==
    ASSUME NEW s, NEW P, IsFiniteSet(P)
    PROVE  IsText(At(s, P)) /\ Len(At(s, P)) = Cardinality(P)
  <1>1. Cardinality(P) \in Nat
    BY FS_CardinalityType
  <1>2. PICK n \in Nat : n = Cardinality(P)
    BY <1>1
  <1>3. At(s, P) = [k \in 1 .. n |-> At(s, P)[k]]
    BY <1>2 DEF At
  <1> QED
    BY <1>2, <1>3, GivenString

LEMMA AtGrows ==
    ASSUME NEW s, NEW n \in Nat \ {0}, NEW P, P \subseteq 1 .. n - 1
    PROVE  At(s, P \cup {n}) = Append(At(s, P), s[n])
  <1>1. PICK Q : Q = P \cup {n}
    OBVIOUS
  <1>2. IsFiniteSet(P) /\ IsFiniteSet(Q) /\ n \notin P
    <2>1. IsFiniteSet(1 .. n - 1)
      BY FS_Interval
    <2>2. IsFiniteSet(P)
      BY <2>1, FS_Subset
    <2> QED
      BY <1>1, <2>2, FS_AddElement
  <1>3. PICK c \in Nat : c = Cardinality(P) /\ Cardinality(Q) = c + 1
    BY <1>1, <1>2, FS_CardinalityType, FS_AddElement
  <1> DEFINE Rank(S, i) == Cardinality({j \in S : j <= i})
             Nth(S, k) == {i \in S : Rank(S, i) = k}
  <1>4. \A i \in P : Rank(Q, i) = Rank(P, i)
    <2> TAKE i \in P
    <2>1. {j \in Q : j <= i} = {j \in P : j <= i}
      BY <1>1
    <2> QED
      BY <2>1
  <1>5. Rank(Q, n) = c + 1
    <2>1. \A j \in Q : j <= n
      BY <1>1
    <2>2. {j \in Q : j <= n} = Q
      BY <2>1
    <2> QED
      BY <1>3, <2>2
  <1>6. \A i \in P : Rank(P, i) \in Nat /\ Rank(P, i) <= c
    <2> TAKE i \in P
    <2>1. {j \in P : j <= i} \subseteq P
      OBVIOUS
    <2> QED
      BY <1>2, <1>3, <2>1, FS_Subset, FS_CardinalityType
  <1>7. \A k \in 1 .. c : Nth(Q, k) = Nth(P, k)
    <2> TAKE k \in 1 .. c
    <2>1. k # c + 1
      BY <1>3
    <2> HIDE DEF Rank
    <2> QED
      BY <1>1, <1>4, <1>5, <2>1
  <1>8. Nth(Q, c + 1) = {n}
    <2>1. \A i \in P : Rank(P, i) # c + 1
      BY <1>3, <1>6
    <2> HIDE DEF Rank
    <2> QED
      BY <1>1, <1>4, <1>5, <2>1
  <1>9. Min({n}) = n
    BY LesserOfTwo
  <1>10. /\ At(s, P) = [k \in 1 .. c |-> s[Min(Nth(P, k))]]
         /\ At(s, Q) = [k \in 1 .. c + 1 |-> s[Min(Nth(Q, k))]]
    BY <1>3 DEF At
  <1> HIDE DEF Nth, Rank
  <1>11. PICK t : t = Append(At(s, P), s[n])
    OBVIOUS
  <1>12. /\ IsText(t) /\ Len(t) = c + 1
         /\ \A k \in 1 .. c : t[k] = At(s, P)[k]
         /\ t[c + 1] = s[n]
    BY <1>2, <1>3, <1>11, AtIs, AppendedString
  <1>13. ASSUME NEW k \in 1 .. c + 1 PROVE At(s, Q)[k] = t[k]
    <2>1. CASE k = c + 1
      <3>1. At(s, Q)[k] = s[Min(Nth(Q, k))]
        BY <1>10
      <3> QED
        BY <1>8, <1>9, <1>12, <2>1, <3>1
    <2>2. CASE k # c + 1
      <3>1. k \in 1 .. c
        BY <1>3, <2>2
      <3> QED
        BY <1>7, <1>10, <1>12, <3>1
    <2> QED
      BY <2>1, <2>2
  <1>14. IsText(At(s, Q)) /\ Len(At(s, Q)) = c + 1
    BY <1>2, <1>3, AtIs
  <1> QED
    BY <1>1, <1>11, <1>12, <1>13, <1>14, SameString

LEMMA StartsAre ==
    ASSUME NEW s, IsText(s)
    PROVE  /\ Starts(s) \subseteq 1 .. Len(s) /\ IsFiniteSet(Starts(s))
           /\ Cardinality(Starts(s)) \in Nat
  <1>1. PICK n \in Nat : n = Len(s) /\ DOMAIN s = 1 .. n
    BY DEF IsText
  <1>2. Starts(s) \subseteq 1 .. n
    BY <1>1 DEF Starts
  <1>3. IsFiniteSet(1 .. n)
    BY FS_Interval
  <1> QED
    BY <1>1, <1>2, <1>3, FS_Subset, FS_CardinalityType

\* How many words have begun at a place.
LEMMA CountIs ==
    ASSUME NEW s, IsText(s)
    PROVE  /\ Count(s, 0) = 0 /\ Count(s, Len(s)) = Cardinality(Starts(s))
           /\ \A n \in 0 .. Len(s) : Count(s, n) \in Nat
           /\ \A n \in 1 .. Len(s) :
                Count(s, n) = Count(s, n - 1) + (IF n \in Starts(s) THEN 1 ELSE 0)
           /\ \A n \in 0 .. Len(s) : \A i \in 0 .. n : Count(s, i) <= Count(s, n)
  <1>1. PICK S : S = Starts(s)
    OBVIOUS
  <1>2. PICK N \in Nat : N = Len(s)
    BY DEF IsText
  <1>3. S \subseteq 1 .. N /\ IsFiniteSet(S)
    BY <1>1, <1>2, StartsAre
  <1> DEFINE U(n) == {j \in S : j <= n}
  <1>4. \A n \in 0 .. N : IsFiniteSet(U(n)) /\ Cardinality(U(n)) \in Nat
    <2> TAKE n \in 0 .. N
    <2>1. U(n) \subseteq S
      OBVIOUS
    <2> HIDE DEF U
    <2> QED
      BY <1>3, <2>1, FS_Subset, FS_CardinalityType
  <1>5. \A n : Count(s, n) = Cardinality(U(n))
    BY <1>1 DEF Count
  <1>6. U(0) = {} /\ U(N) = S
    <2>1. \A j \in S : ~(j <= 0) /\ j <= N
      BY <1>3
    <2> QED
      BY <2>1
  <1>7. Cardinality({}) = 0
    BY FS_EmptySet
  <1>8. ASSUME NEW n \in 1 .. N
        PROVE  Cardinality(U(n)) = Cardinality(U(n - 1)) + (IF n \in S THEN 1 ELSE 0)
    <2>1. \A j \in S : j <= n <=> j <= n - 1 \/ j = n
      BY <1>3
    <2>2. CASE n \in S
      <3>0. n \in S /\ ~(n <= n - 1) /\ n <= n
        BY <2>2
      <3>1. U(n) = U(n - 1) \cup {n} /\ n \notin U(n - 1)
        BY <2>1, <3>0
      <3>2. IsFiniteSet(U(n - 1)) /\ Cardinality(U(n - 1)) \in Nat
        <4>1. n - 1 \in 0 .. N
          OBVIOUS
        <4> HIDE DEF U
        <4> QED
          BY <1>4, <4>1
      <3> HIDE DEF U
      <3> QED
        BY <2>2, <3>1, <3>2, FS_AddElement
    <2>3. CASE n \notin S
      <3>1. U(n) = U(n - 1)
        BY <2>1, <2>3
      <3>2. Cardinality(U(n - 1)) \in Nat
        <4>1. n - 1 \in 0 .. N
          OBVIOUS
        <4> HIDE DEF U
        <4> QED
          BY <1>4, <4>1
      <3> HIDE DEF U
      <3> QED
        BY <2>3, <3>1, <3>2
    <2> QED
      BY <2>2, <2>3
  <1>9. ASSUME NEW n \in 0 .. N, NEW i \in 0 .. n
        PROVE  Cardinality(U(i)) <= Cardinality(U(n))
    <2>1. U(i) \subseteq U(n)
      <3>1. \A j \in S : j <= i => j <= n
        BY <1>3
      <3> QED
        BY <3>1
    <2>2. IsFiniteSet(U(n))
      BY <1>4
    <2> HIDE DEF U
    <2> QED
      BY <2>1, <2>2, FS_Subset
  <1> HIDE DEF U
  <1>10. Count(s, 0) = 0 /\ Count(s, N) = Cardinality(S)
    BY <1>5, <1>6, <1>7
  <1>11. \A n \in 0 .. N : Count(s, n) \in Nat
    BY <1>4, <1>5
  <1>12. \A n \in 1 .. N : Count(s, n) = Count(s, n - 1) + (IF n \in S THEN 1 ELSE 0)
    BY <1>5, <1>8
  <1>13. \A n \in 0 .. N : \A i \in 0 .. n : Count(s, i) <= Count(s, n)
    BY <1>5, <1>9
  <1> QED
    BY <1>1, <1>2, <1>10, <1>11, <1>12, <1>13

\* A quote begins or ends what is quoted.
LEMMA OutsideNext ==
    ASSUME NEW s, IsText(s)
    PROVE  /\ Outside(s, 1) = TRUE
           /\ \A n \in 1 .. Len(s) :
                Outside(s, n + 1) = IF s[n] = QUOTE THEN ~Outside(s, n) ELSE Outside(s, n)
  <1>1. PICK N \in Nat : N = Len(s)
    BY DEF IsText
  <1> DEFINE Q(n) == {j \in 1 .. n - 1 : s[j] = QUOTE}
  <1>2. \A n \in Int : IsFiniteSet(Q(n)) /\ Cardinality(Q(n)) \in Nat
    <2> TAKE n \in Int
    <2>1. Q(n) \subseteq 1 .. n - 1 /\ IsFiniteSet(1 .. n - 1)
      BY FS_Interval
    <2> HIDE DEF Q
    <2> QED
      BY <2>1, FS_Subset, FS_CardinalityType
  <1>3. \A n : Outside(s, n) = (Cardinality(Q(n)) % 2 = 0)
    BY DEF Outside
  <1>4. Outside(s, 1) = TRUE
    <2>1. Q(1) = {}
      OBVIOUS
    <2> HIDE DEF Q
    <2>2. Cardinality(Q(1)) = 0
      BY <2>1, FS_EmptySet
    <2>3. 0 % 2 = 0
      OBVIOUS
    <2> QED
      BY <1>3, <2>2, <2>3
  <1>5. ASSUME NEW n \in 1 .. N
        PROVE  Outside(s, n + 1) = IF s[n] = QUOTE THEN ~Outside(s, n) ELSE Outside(s, n)
    <2>1. 1 .. n = (1 .. n - 1) \cup {n} /\ n \notin 1 .. n - 1 /\ (n + 1) - 1 = n
      OBVIOUS
    <2>2. CASE s[n] = QUOTE
      <3>1. Q(n + 1) = Q(n) \cup {n} /\ n \notin Q(n)
        BY <2>1, <2>2
      <3>2. PICK c \in Nat : c = Cardinality(Q(n)) /\ IsFiniteSet(Q(n))
        <4> HIDE DEF Q
        <4> QED
          BY <1>2
      <3>3. Cardinality(Q(n + 1)) = c + 1
        <4> HIDE DEF Q
        <4> QED
          BY <3>1, <3>2, FS_AddElement
      <3>4. ((c + 1) % 2 = 0) = ~(c % 2 = 0)
        OBVIOUS
      <3>5. Outside(s, n) = (c % 2 = 0) /\ Outside(s, n + 1) = ((c + 1) % 2 = 0)
        <4> HIDE DEF Q
        <4> QED
          BY <1>3, <3>2, <3>3
      <3> HIDE DEF Q
      <3> QED
        BY <2>2, <3>4, <3>5
    <2>3. CASE s[n] # QUOTE
      <3>1. Q(n + 1) = Q(n)
        BY <2>1, <2>3
      <3> HIDE DEF Q
      <3> QED
        BY <1>3, <2>3, <3>1
    <2> QED
      BY <2>2, <2>3
  <1> QED
    BY <1>1, <1>4, <1>5

\* The letters of word k among the first n characters.
Upto(s, k, n) == {i \in Letter(s, k) : i <= n}

LEMMA UptoIs ==
    ASSUME NEW s, IsText(s), NEW k
    PROVE  /\ \A n \in 0 .. Len(s) : Upto(s, k, n) \subseteq 1 .. n
           /\ Upto(s, k, 0) = {} /\ Upto(s, k, Len(s)) = Letter(s, k)
           /\ \A n \in 1 .. Len(s) :
                /\ n \in Letter(s, k) => Upto(s, k, n) = Upto(s, k, n - 1) \cup {n}
                /\ n \notin Letter(s, k) => Upto(s, k, n) = Upto(s, k, n - 1)
  <1>1. PICK N \in Nat : N = Len(s) /\ DOMAIN s = 1 .. N
    BY DEF IsText
  <1>2. PICK P : P = Letter(s, k)
    OBVIOUS
  <1>3. P \subseteq 1 .. N
    BY <1>1, <1>2 DEF Letter
  <1>4. \A n : Upto(s, k, n) = {i \in P : i <= n}
    BY <1>2 DEF Upto
  <1>5. \A n \in 0 .. N : Upto(s, k, n) \subseteq 1 .. n
    <2> TAKE n \in 0 .. N
    <2>1. \A i \in P : i <= n => i \in 1 .. n
      BY <1>3
    <2>2. {i \in P : i <= n} \subseteq 1 .. n
      BY <2>1
    <2> QED
      BY <1>4, <2>2
  <1>6. {i \in P : i <= 0} = {} /\ {i \in P : i <= N} = P
    <2>1. \A i \in P : ~(i <= 0) /\ i <= N
      BY <1>3
    <2> QED
      BY <2>1
  <1>7. ASSUME NEW n \in 1 .. N
        PROVE  /\ n \in P => {i \in P : i <= n} = {i \in P : i <= n - 1} \cup {n}
               /\ n \notin P => {i \in P : i <= n} = {i \in P : i <= n - 1}
    <2>1. \A j \in P : j <= n <=> j <= n - 1 \/ j = n
      BY <1>3
    <2> QED
      BY <2>1
  <1>8. ASSUME NEW n \in 1 .. N
        PROVE  /\ n \in P => Upto(s, k, n) = Upto(s, k, n - 1) \cup {n}
               /\ n \notin P => Upto(s, k, n) = Upto(s, k, n - 1)
    BY <1>4, <1>7
  <1>9. Upto(s, k, 0) = {} /\ Upto(s, k, N) = P
    BY <1>4, <1>6
  <1> QED
    BY <1>1, <1>2, <1>5, <1>8, <1>9

\* A word that has not begun has no letters.
LEMMA NotBegun ==
    ASSUME NEW s, IsText(s), NEW n \in 0 .. Len(s), NEW k \in Nat, Count(s, n) < k
    PROVE  Upto(s, k, n) = {}
  <1> SUFFICES ASSUME NEW i \in Upto(s, k, n) PROVE FALSE
    OBVIOUS
  <1>1. Len(s) \in Nat
    BY DEF IsText
  <1>2. i \in 0 .. n /\ i \in 0 .. Len(s)
    <2>1. Upto(s, k, n) \subseteq 1 .. n
      BY UptoIs
    <2>2. i \in 1 .. n
      BY <2>1
    <2> QED
      BY <1>1, <2>2
  <1>3. Count(s, i) <= Count(s, n) /\ Count(s, i) \in Nat /\ Count(s, n) \in Nat
    BY <1>2, CountIs
  <1>4. Count(s, i) = k
    BY DEF Upto, Letter
  <1> QED
    BY <1>3, <1>4

\* What the pass knows after n characters.
IsPass(s, max, n, r) ==
  /\ r = [argv |-> r.argv, word |-> r.word, open |-> r.open, in_quotes |-> r.in_quotes]
  /\ r.open \in BOOLEAN /\ r.in_quotes \in BOOLEAN
  /\ IsText(r.argv) /\ Len(r.argv) <= max
  /\ \A k \in 1 .. Len(r.argv) : r.argv[k] = At(s, Upto(s, k, n))

InWord(s, max, n, r) ==
  /\ n > 0 /\ ~Separates(s, n)
  /\ Count(s, n) = Len(r.argv) + 1 /\ Count(s, n) <= max
  /\ r.word = At(s, Upto(s, Count(s, n), n))
  /\ r.in_quotes = ~Outside(s, n + 1)

BetweenWords(s, max, n, r) ==
  /\ Len(r.argv) < max =>
       /\ Count(s, n) = Len(r.argv) /\ (n > 0 => Separates(s, n))
       /\ r.word = <<>> /\ r.in_quotes = FALSE
  /\ Len(r.argv) = max => Count(s, n) >= max /\ (Count(s, n) = max => Separates(s, n))

Passed(s, max, n, r) ==
  /\ IsPass(s, max, n, r)
  /\ r.open => InWord(s, max, n, r)
  /\ ~r.open => BetweenWords(s, max, n, r)

\* One more character, n, in a word.
LEMMA WordGoesOn ==
    ASSUME NEW s, IsText(s), NEW max \in Nat \ {0}, NEW n \in 1 .. Len(s),
           NEW r, IsPass(s, max, n - 1, r), r.open = TRUE,
           \A k \in 1 .. Len(r.argv) : n \notin Letter(s, k),
           Count(s, n) = Len(r.argv) + 1, Count(s, n) <= max,
           r.word = At(s, Upto(s, Count(s, n), n - 1)),
           r.in_quotes = ~Outside(s, n)
    PROVE  Passed(s, max, n, WordChar(r, s[n]))
  <1>1. PICK c : c = s[n]
    OBVIOUS
  <1>2. PICK w \in Nat : w = Len(r.argv) + 1 /\ w = Count(s, n)
    BY DEF IsPass, IsText
  <1>3. PICK q : q = WordChar(r, c)
    OBVIOUS
  <1>4. Len(s) \in Nat /\ DOMAIN s = 1 .. Len(s) /\ n \in Nat /\ n > 0 /\ Len(r.argv) \in Nat
    BY DEF IsText, IsPass
  <1>5. Outside(s, n + 1) = IF c = QUOTE THEN ~Outside(s, n) ELSE Outside(s, n)
    <2>1. \A k \in 1 .. Len(s) :
            Outside(s, k + 1) = IF s[k] = QUOTE THEN ~Outside(s, k) ELSE Outside(s, k)
      BY OutsideNext
    <2> QED
      BY <1>1, <2>1
  <1>6. Outside(s, n) \in BOOLEAN
    BY DEF Outside
  <1>7. BLANK # QUOTE
    BY DEF BLANK, QUOTE
  <1>8. Separates(s, n) = (c = BLANK /\ Outside(s, n))
    BY <1>1 DEF Separates
  <1>9. n \in Letter(s, w) <=> ~Separates(s, n) /\ c # QUOTE
    BY <1>1, <1>2, <1>4 DEF Letter
  <1>10. \A k \in 1 .. Len(r.argv) : r.argv[k] = At(s, Upto(s, k, n))
    BY UptoIs DEF IsPass
  <1>11. /\ n \in Letter(s, w) => Upto(s, w, n) = Upto(s, w, n - 1) \cup {n}
         /\ n \notin Letter(s, w) => Upto(s, w, n) = Upto(s, w, n - 1)
    BY UptoIs
  <1>12. CASE c = QUOTE
    <2>1. q = [r EXCEPT !.in_quotes = ~@]
      BY <1>3, <1>12 DEF WordChar
    <2>2. q = [argv |-> r.argv, word |-> r.word, open |-> TRUE, in_quotes |-> ~r.in_quotes]
      BY <2>1 DEF IsPass
    <2>3. Upto(s, w, n) = Upto(s, w, n - 1) /\ ~Separates(s, n)
      BY <1>7, <1>8, <1>9, <1>11, <1>12
    <2>4. IsPass(s, max, n, q)
      BY <1>10, <2>2 DEF IsPass
    <2>5. InWord(s, max, n, q)
      BY <1>2, <1>4, <1>5, <1>6, <1>12, <2>2, <2>3 DEF InWord
    <2> QED
      BY <1>1, <1>3, <2>2, <2>4, <2>5 DEF Passed
  <1>13. CASE c = BLANK /\ ~r.in_quotes
    <2>1. q = [argv |-> Append(r.argv, r.word), word |-> <<>>, open |-> FALSE, in_quotes |-> FALSE]
      BY <1>3, <1>7, <1>13 DEF WordChar
    <2>2. Separates(s, n) /\ n \notin Letter(s, w)
      BY <1>6, <1>8, <1>9, <1>13
    <2>3. /\ IsText(q.argv) /\ Len(q.argv) = w
          /\ \A k \in 1 .. Len(r.argv) : q.argv[k] = r.argv[k]
          /\ q.argv[w] = r.word
      BY <1>2, <2>1, AppendedString DEF IsPass
    <2>4. ASSUME NEW k \in 1 .. w PROVE q.argv[k] = At(s, Upto(s, k, n))
      <3>1. CASE k = w
        BY <1>2, <1>11, <2>2, <2>3, <3>1
      <3>2. CASE k # w
        <4>1. k \in 1 .. Len(r.argv)
          BY <1>2, <1>4, <3>2
        <4> QED
          BY <1>10, <2>3, <4>1
      <3> QED
        BY <3>1, <3>2
    <2>5. IsPass(s, max, n, q)
      BY <1>2, <2>1, <2>3, <2>4 DEF IsPass
    <2>6. BetweenWords(s, max, n, q)
      BY <1>2, <2>1, <2>2, <2>3 DEF BetweenWords
    <2> QED
      BY <1>1, <1>3, <2>1, <2>5, <2>6 DEF Passed
  <1>14. CASE c # QUOTE /\ ~(c = BLANK /\ ~r.in_quotes)
    <2>1. q = [r EXCEPT !.word = Append(@, c)]
      BY <1>3, <1>14 DEF WordChar, IsPass
    <2>2. q = [argv |-> r.argv, word |-> Append(r.word, c), open |-> TRUE, in_quotes |-> r.in_quotes]
      BY <2>1 DEF IsPass
    <2>3. ~Separates(s, n) /\ n \in Letter(s, w)
      BY <1>6, <1>8, <1>9, <1>14
    <2>4. Append(r.word, c) = At(s, Upto(s, w, n))
      <3>1. Upto(s, w, n - 1) \subseteq 1 .. n - 1
        <4>1. n - 1 \in 0 .. Len(s)
          BY <1>4
        <4> QED
          BY <4>1, UptoIs
      <3>2. PICK S : S = Upto(s, w, n - 1)
        OBVIOUS
      <3>3. Upto(s, w, n) = S \cup {n} /\ r.word = At(s, S)
        BY <1>2, <1>11, <2>3, <3>2
      <3>4. At(s, S \cup {n}) = Append(At(s, S), s[n])
        <4>1. n \in Nat \ {0} /\ S \subseteq 1 .. n - 1
          BY <1>4, <3>1, <3>2
        <4> QED
          BY <4>1, AtGrows
      <3> QED
        BY <1>1, <3>3, <3>4
    <2>5. IsPass(s, max, n, q)
      BY <1>10, <2>2 DEF IsPass
    <2>6. InWord(s, max, n, q)
      BY <1>2, <1>4, <1>5, <1>6, <1>14, <2>2, <2>3, <2>4 DEF InWord
    <2> QED
      BY <1>1, <1>3, <2>2, <2>5, <2>6 DEF Passed
  <1> QED
    BY <1>12, <1>13, <1>14

LEMMA NoPlaces ==
    ASSUME NEW s
    PROVE  At(s, {}) = <<>>
  <1>1. IsFiniteSet({}) /\ Cardinality({}) = 0
    BY FS_EmptySet
  <1>2. IsText(At(s, {})) /\ Len(At(s, {})) = 0
    BY <1>1, AtIs
  <1> QED
    BY <1>2, EmptyString, SameString

\* Outside words quotes are closed.
LEMMA ClosedBetween ==
    ASSUME NEW s, IsText(s), NEW n \in 1 .. Len(s), n - 1 > 0 => Separates(s, n - 1)
    PROVE  Outside(s, n) = TRUE
  <1>1. Len(s) \in Nat
    BY DEF IsText
  <1>2. CASE n = 1
    BY <1>2, OutsideNext
  <1>3. CASE n # 1
    <2>1. PICK m \in 1 .. Len(s) : m = n - 1 /\ m + 1 = n
      BY <1>1, <1>3
    <2>2. s[m] = BLANK /\ Outside(s, m) /\ BLANK # QUOTE
      <3>1. n - 1 > 0
        BY <2>1
      <3>2. Separates(s, m)
        BY <2>1, <3>1
      <3> QED
        BY <3>2 DEF Separates, BLANK, QUOTE
    <2>3. Outside(s, m + 1) = Outside(s, m)
      BY <2>2, OutsideNext
    <2>4. Outside(s, m) \in BOOLEAN
      BY DEF Outside
    <2> QED
      BY <2>1, <2>2, <2>3, <2>4
  <1> QED
    BY <1>2, <1>3

LEMMA PassSteps ==
    ASSUME NEW s, IsText(s), NEW max \in Nat \ {0}, NEW n \in 1 .. Len(s),
           NEW r, Passed(s, max, n - 1, r)
    PROVE  Passed(s, max, n, ParseChar(r, s[n], max))
  <1>1. PICK c : c = s[n]
    OBVIOUS
  <1>2. IsPass(s, max, n - 1, r)
    BY DEF Passed
  <1>3. PICK q : q = ParseChar(r, c, max)
    OBVIOUS
  <1>4. /\ Len(s) \in Nat /\ DOMAIN s = 1 .. Len(s) /\ n \in Nat /\ n > 0 /\ n - 1 \in 0 .. Len(s)
        /\ Len(r.argv) \in Nat /\ n \in 0 .. Len(s) /\ (n = 1 <=> ~(n - 1 > 0))
    BY <1>2 DEF IsText, IsPass
  <1>5. PICK w \in Nat : w = Len(r.argv) + 1
    BY <1>4
  <1>6. /\ Count(s, n - 1) \in Nat /\ Count(s, n) \in Nat
        /\ Count(s, n) = Count(s, n - 1) + (IF n \in Starts(s) THEN 1 ELSE 0)
    BY <1>4, CountIs
  <1>7. n \in Starts(s) <=> ~Separates(s, n) /\ (n = 1 \/ Separates(s, n - 1))
    BY <1>4 DEF Starts
  <1>8. \A k : n \in Letter(s, k) => ~Separates(s, n) /\ k = Count(s, n)
    BY DEF Letter
  <1>9. \A k : n \notin Letter(s, k) => Upto(s, k, n) = Upto(s, k, n - 1)
    BY UptoIs
  <1>10. CASE r.open
    <2>1. InWord(s, max, n - 1, r)
      BY <1>10 DEF Passed
    <2>2. n - 1 > 0 /\ ~Separates(s, n - 1) /\ Count(s, n - 1) = w /\ w <= max
      BY <1>5, <2>1 DEF InWord
    <2>3. Count(s, n) = w
      BY <1>4, <1>6, <1>7, <2>2
    <2>4. \A k \in 1 .. Len(r.argv) : n \notin Letter(s, k)
      BY <1>4, <1>5, <1>8, <2>3
    <2>5. r.word = At(s, Upto(s, Count(s, n), n - 1))
      BY <1>5, <2>1, <2>2, <2>3 DEF InWord
    <2>6. r.in_quotes = ~Outside(s, n)
      <3>1. (n - 1) + 1 = n
        BY <1>4
      <3> QED
        BY <2>1, <3>1 DEF InWord
    <2>7. r.open = TRUE
      BY <1>2, <1>10 DEF IsPass
    <2>8. Passed(s, max, n, WordChar(r, s[n]))
      BY <1>2, <1>5, <2>2, <2>3, <2>4, <2>5, <2>6, <2>7, WordGoesOn
    <2> QED
      BY <1>10, <2>8 DEF ParseChar
  <1>11. CASE ~r.open /\ Len(r.argv) < max /\ c # BLANK
    <2>1. /\ Count(s, n - 1) = Len(r.argv) /\ (n - 1 > 0 => Separates(s, n - 1))
          /\ r.word = <<>> /\ r.in_quotes = FALSE
      BY <1>11 DEF Passed, BetweenWords
    <2>2. ~Separates(s, n)
      BY <1>1, <1>11 DEF Separates
    <2>3. Count(s, n) = w /\ w <= max
      BY <1>4, <1>5, <1>6, <1>7, <1>11, <2>1, <2>2
    <2>4. PICK z : z = [r EXCEPT !.open = TRUE]
      OBVIOUS
    <2>5. /\ z = [argv |-> r.argv, word |-> <<>>, open |-> TRUE, in_quotes |-> FALSE]
          /\ z.argv = r.argv /\ z.word = <<>> /\ z.open = TRUE /\ z.in_quotes = FALSE
      BY <1>2, <2>1, <2>4 DEF IsPass
    <2>6. IsPass(s, max, n - 1, z)
      BY <1>2, <2>5 DEF IsPass
    <2>7. \A k \in 1 .. Len(z.argv) : n \notin Letter(s, k)
      BY <1>4, <1>5, <1>8, <2>3, <2>5
    <2>8. z.word = At(s, Upto(s, Count(s, n), n - 1))
      <3>1. Count(s, n - 1) < w
        BY <1>4, <1>5, <2>1
      <3>2. Upto(s, w, n - 1) = {}
        BY <1>4, <3>1, NotBegun
      <3> QED
        BY <2>3, <2>5, <3>2, NoPlaces
    <2>9. Outside(s, n) = TRUE
      BY <2>1, ClosedBetween
    <2>10. Passed(s, max, n, WordChar(z, s[n]))
      BY <1>5, <2>3, <2>5, <2>6, <2>7, <2>8, <2>9, WordGoesOn
    <2>11. ParseChar(r, c, max) = WordChar(z, c)
      BY <1>4, <1>11, <2>4 DEF ParseChar
    <2> QED
      BY <1>1, <2>10, <2>11
  <1>12. CASE ~r.open /\ Len(r.argv) < max /\ c = BLANK
    <2>1. /\ Count(s, n - 1) = Len(r.argv) /\ (n - 1 > 0 => Separates(s, n - 1))
          /\ r.word = <<>> /\ r.in_quotes = FALSE
      BY <1>12 DEF Passed, BetweenWords
    <2>2. Separates(s, n)
      BY <1>1, <1>12, <2>1, ClosedBetween DEF Separates
    <2>3. Count(s, n) = Len(r.argv)
      BY <1>6, <1>7, <2>1, <2>2
    <2>4. \A k : Upto(s, k, n) = Upto(s, k, n - 1)
      BY <1>8, <1>9, <2>2
    <2>5. IsPass(s, max, n, r)
      BY <1>2, <2>4 DEF IsPass
    <2>6. BetweenWords(s, max, n, r)
      BY <1>4, <1>12, <2>1, <2>2, <2>3 DEF BetweenWords
    <2>7. ParseChar(r, c, max) = r
      BY <1>12 DEF ParseChar
    <2> QED
      BY <1>1, <1>12, <2>5, <2>6, <2>7 DEF Passed
  <1>13. CASE ~r.open /\ ~(Len(r.argv) < max)
    <2>1. Len(r.argv) = max
      BY <1>2, <1>4, <1>13 DEF IsPass
    <2>2. Count(s, n - 1) >= max /\ (Count(s, n - 1) = max => Separates(s, n - 1))
      BY <1>13, <2>1 DEF Passed, BetweenWords
    <2>3. Count(s, n) >= max /\ (Count(s, n) = max => Separates(s, n))
      BY <1>6, <1>7, <2>2
    <2>4. \A k \in 1 .. max : Upto(s, k, n) = Upto(s, k, n - 1)
      BY <1>6, <1>8, <1>9, <2>3
    <2>5. IsPass(s, max, n, r)
      BY <1>2, <2>1, <2>4 DEF IsPass
    <2>6. BetweenWords(s, max, n, r)
      BY <2>1, <2>3 DEF BetweenWords
    <2>7. ParseChar(r, c, max) = r
      BY <1>4, <1>13, <2>1 DEF ParseChar
    <2> QED
      BY <1>1, <1>13, <2>5, <2>6, <2>7 DEF Passed
  <1> QED
    BY <1>10, <1>11, <1>12, <1>13

\* The states of the pass, one for each character.
LEMMA ParsedInSteps ==
    ASSUME NEW s, IsText(s), NEW max \in Nat
    PROVE  \E f : /\ f[0] = [argv |-> <<>>, word |-> <<>>, open |-> FALSE, in_quotes |-> FALSE]
                  /\ \A n \in 1 .. Len(s) : f[n] = ParseChar(f[n - 1], s[n], max)
                  /\ parse_arguments(s, max) =
                       IF f[Len(s)].open THEN Append(f[Len(s)].argv, f[Len(s)].word)
                       ELSE f[Len(s)].argv
  <1>1. PICK C : s \in Seq(C)
    BY TextIsSeq
  <1>2. PICK N \in Nat : N = Len(s) /\ \A n \in 1 .. N : s[n] \in C
    BY <1>1, LenProperties
  <1> DEFINE X == [argv : Seq(Seq(C)), word : Seq(C), open : BOOLEAN, in_quotes : BOOLEAN]
             Start == [argv |-> <<>>, word |-> <<>>, open |-> FALSE, in_quotes |-> FALSE]
             Eq(h) == h = [n \in 0 .. N |->
                             IF n = 0 THEN Start ELSE ParseChar(h[n - 1], s[n], max)]
             after == CHOOSE h : Eq(h)
  <1>3. Start \in X
    <2>1. <<>> \in Seq(Seq(C)) /\ <<>> \in Seq(C)
      OBVIOUS
    <2> QED
      BY <2>1
  <1>4. \A r \in X : \A c \in C : WordChar(r, c) \in X
    <2> TAKE r \in X
    <2> TAKE c \in C
    <2>1. Append(r.argv, r.word) \in Seq(Seq(C)) /\ Append(r.word, c) \in Seq(C) /\ <<>> \in Seq(C)
      BY AppendProperties
    <2>2. CASE c = QUOTE
      BY <2>2 DEF WordChar
    <2>3. CASE c # QUOTE /\ ~r.in_quotes /\ c = BLANK
      BY <2>1, <2>3 DEF WordChar
    <2>4. CASE c # QUOTE /\ ~(~r.in_quotes /\ c = BLANK)
      BY <2>1, <2>4 DEF WordChar
    <2> QED
      BY <2>2, <2>3, <2>4
  <1>5. \A r \in X : \A c \in C : ParseChar(r, c, max) \in X
    <2> TAKE r \in X
    <2> TAKE c \in C
    <2>1. [r EXCEPT !.open = TRUE] \in X
      OBVIOUS
    <2> HIDE DEF X
    <2> QED
      BY <1>4, <2>1 DEF ParseChar
  <1>6. parse_arguments(s, max) =
          IF after[N].open THEN Append(after[N].argv, after[N].word) ELSE after[N].argv
    BY <1>2 DEF parse_arguments
  <1> HIDE DEF X, Start
  <1>7. PICK step : step = [p \in (1 .. N) \X X |-> ParseChar(p[2], s[p[1]], max)]
    OBVIOUS
  <1>8. step \in [(1 .. N) \X X -> X]
    BY <1>2, <1>5, <1>7
  <1>9. PICK f : Iterates(f, N, X, Start, step)
    BY <1>3, <1>8, RecursionExists
  <1>10. /\ f \in [0 .. N -> X] /\ f[0] = Start
         /\ \A n \in 1 .. N : f[n] = step[<<n, f[n - 1]>>]
    BY <1>9 DEF Iterates
  <1>11. \A n \in 1 .. N : n - 1 \in 0 .. N /\ n \in 0 .. N /\ n # 0
    BY <1>2
  <1>12. \A n \in 1 .. N : f[n] = ParseChar(f[n - 1], s[n], max)
    <2> TAKE n \in 1 .. N
    <2>1. f[n - 1] \in X
      BY <1>10, <1>11
    <2> QED
      BY <1>7, <1>10, <2>1
  <1>13. \A n \in 0 .. N : n # 0 => n \in 1 .. N
    BY <1>2
  <1>14. Eq(f)
    BY <1>10, <1>12, <1>13
  <1>15. Eq(after)
    <2> HIDE DEF Eq
    <2> QED
      BY <1>14
  <1> HIDE DEF after
  <1>16. 0 \in 0 .. N
    BY <1>2
  <1>17. after[0] = Start /\ \A n \in 1 .. N : after[n] = ParseChar(after[n - 1], s[n], max)
    BY <1>11, <1>15, <1>16
  <1> QED
    BY <1>2, <1>6, <1>17 DEF Start

\* The words are what the pass finds, as many as there is room for.
LEMMA ParsedAreWords ==
    ASSUME NEW s, IsText(s), NEW max \in Nat \ {0}
    PROVE  parse_arguments(s, max) = SubSeq(Words(s), 1, Min({max, Len(Words(s))}))
  <1>1. PICK N \in Nat : N = Len(s)
    BY DEF IsText
  <1>2. PICK f : /\ f[0] = [argv |-> <<>>, word |-> <<>>, open |-> FALSE, in_quotes |-> FALSE]
                 /\ \A n \in 1 .. N : f[n] = ParseChar(f[n - 1], s[n], max)
                 /\ parse_arguments(s, max) =
                      IF f[N].open THEN Append(f[N].argv, f[N].word) ELSE f[N].argv
    BY <1>1, ParsedInSteps
  <1> DEFINE T == {n \in 0 .. N : Passed(s, max, n, f[n])}
  <1>3. 0 \in T
    <2>1. /\ IsPass(s, max, 0, f[0]) /\ Len(f[0].argv) = 0 /\ f[0].open = FALSE
          /\ f[0].word = <<>> /\ f[0].in_quotes = FALSE
      BY <1>2, EmptyString DEF IsPass
    <2>2. BetweenWords(s, max, 0, f[0])
      <3>1. Count(s, 0) = 0
        BY CountIs
      <3> QED
        BY <2>1, <3>1 DEF BetweenWords
    <2> QED
      BY <2>1, <2>2 DEF Passed
  <1>4. ASSUME NEW n \in 1 .. N, n - 1 \in T PROVE n \in T
    <2>1. Passed(s, max, n - 1, f[n - 1]) /\ n \in 1 .. Len(s) /\ n \in 0 .. N
      BY <1>1, <1>4
    <2>2. Passed(s, max, n, ParseChar(f[n - 1], s[n], max))
      BY <2>1, PassSteps
    <2> QED
      BY <1>2, <2>1, <2>2
  <1>5. N \in T
    <2>1. N \in 0 .. N
      BY <1>1
    <2> HIDE DEF T
    <2> QED
      BY <1>3, <1>4, <2>1, CountUp
  <1>6. PICK r : r = f[N] /\ Passed(s, max, N, r)
    BY <1>5
  <1>7. PICK w \in Nat : w = Cardinality(Starts(s)) /\ w = Count(s, N)
    BY <1>1, CountIs, StartsAre
  <1>8. \A k : Upto(s, k, N) = Letter(s, k)
    BY <1>1, UptoIs
  <1>9. Words(s) = [k \in 1 .. w |-> At(s, Letter(s, k))]
    BY <1>7 DEF Words
  <1>10. PICK m \in Nat : m = IF max <= w THEN max ELSE w
    OBVIOUS
  <1>11. PICK q : q = parse_arguments(s, max)
    OBVIOUS
  <1>12. IsText(q) /\ Len(q) = m /\ \A k \in 1 .. m : q[k] = At(s, Letter(s, k))
    <2>1. /\ IsText(r.argv) /\ Len(r.argv) \in Nat /\ Len(r.argv) <= max
          /\ r.open \in BOOLEAN
          /\ \A k \in 1 .. Len(r.argv) : r.argv[k] = At(s, Letter(s, k))
      BY <1>6, <1>8 DEF Passed, IsPass, IsText
    <2>2. CASE r.open
      <3>1. w = Len(r.argv) + 1 /\ w <= max /\ r.word = At(s, Letter(s, w))
        BY <1>6, <1>7, <1>8, <2>2 DEF Passed, InWord
      <3>2. q = Append(r.argv, r.word)
        BY <1>2, <1>6, <1>11, <2>2
      <3>3. /\ IsText(q) /\ Len(q) = w
            /\ \A k \in 1 .. Len(r.argv) : q[k] = r.argv[k]
            /\ q[w] = r.word
        BY <2>1, <3>1, <3>2, AppendedString
      <3>4. m = w
        BY <1>10, <2>1, <3>1
      <3>5. \A k \in 1 .. w : k # w => k \in 1 .. Len(r.argv)
        BY <2>1, <3>1
      <3> QED
        BY <2>1, <3>1, <3>3, <3>4, <3>5
    <2>3. CASE ~r.open
      <3>1. q = r.argv
        BY <1>2, <1>6, <1>11, <2>3
      <3>2. BetweenWords(s, max, N, r)
        BY <1>6, <2>3 DEF Passed
      <3>3. Len(r.argv) = m
        BY <1>7, <1>10, <2>1, <3>2 DEF BetweenWords
      <3> QED
        BY <2>1, <3>1, <3>3
    <2> QED
      BY <2>1, <2>2, <2>3
  <1>13. IsText(Words(s)) /\ Len(Words(s)) = w
    <2>1. Words(s) = [k \in 1 .. w |-> Words(s)[k]]
      BY <1>9
    <2> QED
      BY <2>1, GivenString
  <1>14. Min({max, Len(Words(s))}) = m
    BY <1>10, <1>13, LesserOfTwo
  <1>15. PICK p : p = SubSeq(Words(s), 1, m)
    OBVIOUS
  <1>16. IsText(p) /\ Len(p) = m /\ \A k \in 1 .. m : p[k] = At(s, Letter(s, k))
    <2>1. PICK ws : ws = Words(s)
      OBVIOUS
    <2>2. m \in 0 .. Len(ws) /\ IsText(ws) /\ p = SubSeq(ws, 1, m)
      BY <1>10, <1>13, <1>15, <2>1
    <2>3. IsText(p) /\ Len(p) = m /\ \A k \in 1 .. m : p[k] = ws[k]
      BY <2>2, FirstOfString
    <2>4. \A k \in 1 .. m : k \in 1 .. w
      BY <1>10
    <2> QED
      BY <1>9, <2>1, <2>3, <2>4
  <1> QED
    BY <1>11, <1>12, <1>14, <1>15, <1>16, SameString

-----------------------------------------------------------------------------
\* One string after another, and what of a string fits a buffer.
LEMMA JoinedString ==
    ASSUME NEW s, IsText(s), NEW t, IsText(t)
    PROVE  /\ IsText(s \o t) /\ Len(s \o t) = Len(s) + Len(t)
           /\ \A k \in 1 .. Len(s) + Len(t) :
                (s \o t)[k] = IF k <= Len(s) THEN s[k] ELSE t[k - Len(s)]
  <1>1. PICK m, n \in Nat : m = Len(s) /\ n = Len(t)
    BY DEF IsText
  <1>2. PICK q : q = s \o t
    OBVIOUS
  <1>3. /\ IsText(q) /\ Len(q) = m + n
        /\ \A k \in 1 .. m : q[k] = s[k]
        /\ \A k \in 1 .. n : q[m + k] = t[k]
    BY <1>1, <1>2, TextsJoin
  <1>4. ASSUME NEW k \in 1 .. m + n PROVE q[k] = IF k <= m THEN s[k] ELSE t[k - m]
    <2>1. CASE k <= m
      BY <1>3, <2>1
    <2>2. CASE ~(k <= m)
      <3>1. k - m \in 1 .. n /\ m + (k - m) = k
        BY <2>2
      <3>2. q[m + (k - m)] = t[k - m]
        BY <1>3, <3>1
      <3> QED
        BY <2>2, <3>1, <3>2
    <2> QED
      BY <2>1, <2>2
  <1> QED
    BY <1>1, <1>2, <1>3, <1>4

\* The same with the lengths named: of one string after another, and of
\* what of a string fits in b places.
Long(s, n) == IsText(s) /\ Len(s) = n
Joined(q, s, t, m, n) ==
  /\ Long(q, m + n)
  /\ \A k \in 1 .. m + n : q[k] = IF k <= m THEN s[k] ELSE t[k - m]
Fitted(q, s, m, b) ==
  /\ Long(q, IF m <= b THEN m ELSE b)
  /\ \A k \in 1 .. Len(q) : q[k] = s[k]
  /\ m <= b => q = s

LEMMA JoinedLengths ==
    ASSUME NEW m \in Nat, NEW n \in Nat, NEW s, Long(s, m), NEW t, Long(t, n)
    PROVE  Joined(s \o t, s, t, m, n)
  <1>1. IsText(s) /\ IsText(t) /\ Len(s) = m /\ Len(t) = n
    BY DEF Long
  <1>2. PICK q : q = s \o t
    OBVIOUS
  <1>3. /\ IsText(q) /\ Len(q) = Len(s) + Len(t)
        /\ \A k \in 1 .. Len(s) + Len(t) : q[k] = IF k <= Len(s) THEN s[k] ELSE t[k - Len(s)]
    BY <1>1, <1>2, JoinedString
  <1>4. Joined(q, s, t, m, n)
    BY <1>1, <1>3 DEF Joined, Long
  <1> QED
    BY <1>2, <1>4

LEMMA CutIs ==
    ASSUME NEW s, IsText(s), NEW size \in Nat \ {0}
    PROVE  /\ IsText(Cut(s, size))
           /\ Len(Cut(s, size)) = IF Len(s) <= size - 1 THEN Len(s) ELSE size - 1
           /\ \A k \in 1 .. Len(Cut(s, size)) : Cut(s, size)[k] = s[k]
           /\ Len(s) < size => Cut(s, size) = s
  <1>1. PICK m : m = IF Len(s) <= size - 1 THEN Len(s) ELSE size - 1
    OBVIOUS
  <1>2. m \in 0 .. Len(s) /\ Min({Len(s), size - 1}) = m /\ (Len(s) < size => m = Len(s))
    <2>1. PICK n, b \in Int : n = Len(s) /\ b = size - 1 /\ n >= 0 /\ b >= 0
      BY DEF IsText
    <2>2. Min({n, b}) = m
      BY <1>1, <2>1, LesserOfTwo
    <2> QED
      BY <1>1, <2>1, <2>2
  <1>3. PICK c : c = Cut(s, size)
    OBVIOUS
  <1>4. c = SubSeq(s, 1, m)
    BY <1>2, <1>3 DEF Cut
  <1>5. IsText(c) /\ Len(c) = m /\ \A k \in 1 .. m : c[k] = s[k]
    BY <1>2, <1>4, FirstOfString
  <1>6. Len(s) < size => c = s
    BY <1>2, <1>5, SameString
  <1> QED
    BY <1>1, <1>3, <1>5, <1>6

LEMMA CutLengths ==
    ASSUME NEW m \in Nat, NEW s, Long(s, m), NEW size \in Nat \ {0},
           NEW z \in Nat, z = size - 1
    PROVE  Fitted(Cut(s, size), s, m, z)
  <1>1. IsText(s) /\ Len(s) = m
    BY DEF Long
  <1>2. PICK c : c = Cut(s, size)
    OBVIOUS
  <1>3. /\ IsText(c) /\ Len(c) = IF Len(s) <= size - 1 THEN Len(s) ELSE size - 1
        /\ \A k \in 1 .. Len(c) : c[k] = s[k]
        /\ Len(s) < size => c = s
    BY <1>1, <1>2, CutIs
  <1>4. Fitted(c, s, m, z)
    BY <1>1, <1>3 DEF Fitted, Long
  <1> QED
    BY <1>2, <1>4

\* The least of a set.
LEMMA LeastIs ==
    ASSUME NEW S, S \subseteq Nat, S # {}
    PROVE  Min(S) \in S /\ \A y \in S : Min(S) <= y
  <1>1. PICK x \in S : \A y \in S : ~(y < x)
    BY LeastNat
  <1>2. \A y \in S : x <= y
    BY <1>1
  <1> QED
    BY <1>2 DEF Min

LEMMA FoundByName ==
    ASSUME NEW vs, Len(vs) \in Nat, NEW n
    PROVE  \/ find_variable(vs, n) = 0 /\ \A j \in 1 .. Len(vs) : vs[j].name # n
           \/ /\ find_variable(vs, n) \in 1 .. Len(vs) /\ find_variable(vs, n) > 0
              /\ vs[find_variable(vs, n)].name = n
  <1> DEFINE I == {j \in 1 .. Len(vs) : vs[j].name = n}
  <1>1. find_variable(vs, n) = IF I # {} THEN Min(I) ELSE 0
    BY DEF find_variable, SelectInSeq
  <1>2. I \subseteq Nat
    OBVIOUS
  <1>3. CASE I = {}
    BY <1>1, <1>3
  <1>4. CASE I # {}
    <2>1. Min(I) \in I
      <3> HIDE DEF I
      <3> QED
        BY <1>2, <1>4, LeastIs
    <2>2. find_variable(vs, n) \in I
      BY <1>1, <1>4, <2>1
    <2> QED
      BY <2>2
  <1> QED
    BY <1>3, <1>4

\* Where a name ends.
LEMMA NameEnds ==
    ASSUME NEW s, IsText(s), NEW i \in 1 .. Len(s), s[i] \in Ident
    PROVE  /\ NameEnd(s, i) \in i .. Len(s)
           /\ \A k \in i .. NameEnd(s, i) : s[k] \in Ident
           /\ NameEnd(s, i) < Len(s) => s[NameEnd(s, i) + 1] \notin Ident
  <1> DEFINE J == {j \in i .. Len(s) : \A k \in i .. j : s[k] \in Ident}
  <1>1. PICK N \in Nat : N = Len(s)
    BY DEF IsText
  <1>2. i \in J
    <2>1. \A k \in i .. i : k = i
      OBVIOUS
    <2> QED
      BY <2>1
  <1>3. {i - 1} \cup J \subseteq i - 1 .. N /\ {i - 1} \cup J # {}
    BY <1>1
  <1>4. PICK e : e = NameEnd(s, i) /\ e = Max({i - 1} \cup J)
    BY DEF NameEnd
  <1>5. e \in {i - 1} \cup J /\ \A y \in {i - 1} \cup J : y <= e
    <2>1. PICK S, a : S = {i - 1} \cup J /\ a = i - 1
      OBVIOUS
    <2>2. a \in Int /\ N \in Int /\ S \subseteq a .. N /\ S # {}
      <3> HIDE DEF J
      <3> QED
        BY <1>1, <1>3, <2>1
    <2>3. Max(S) \in S /\ \A y \in S : y <= Max(S)
      BY <2>2, GreatestIs
    <2> HIDE DEF J
    <2> QED
      BY <1>4, <2>1, <2>3
  <1>6. i <= e /\ e \in J
    BY <1>2, <1>5
  <1>7. ASSUME e < N, s[e + 1] \in Ident PROVE FALSE
    <2>1. \A k \in i .. e + 1 : k \in i .. e \/ k = e + 1
      BY <1>6
    <2>2. e + 1 \in J
      BY <1>1, <1>6, <1>7, <2>1
    <2> QED
      BY <1>1, <1>5, <1>6, <2>2
  <1> QED
    BY <1>1, <1>4, <1>6, <1>7

HasStrings(vs) == Len(vs) \in Nat /\ \A j \in 1 .. Len(vs) : IsText(vs[j].value)

LEMMA VariableText ==
    ASSUME NEW vs, HasStrings(vs), NEW n
    PROVE  IsText(get_variable(vs, n, <<>>))
  <1>1. PICK i : i = find_variable(vs, n)
    OBVIOUS
  <1>2. i = 0 \/ (i \in 1 .. Len(vs) /\ i > 0)
    BY <1>1, FoundByName DEF HasStrings
  <1>3. CASE i = 0
    BY <1>1, <1>3, EmptyString DEF get_variable
  <1>4. CASE i \in 1 .. Len(vs) /\ i > 0
    BY <1>1, <1>4 DEF get_variable, HasStrings
  <1> QED
    BY <1>2, <1>3, <1>4

\* A piece is a string, and the next one begins after it.
LEMMA PieceIs ==
    ASSUME NEW s, IsText(s), NEW i \in 1 .. Len(s), NEW vs, HasStrings(vs)
    PROVE  IsText(Piece(s, i, vs)[1]) /\ Piece(s, i, vs)[2] \in i + 1 .. Len(s) + 1
  <1>1. PICK N \in Nat : N = Len(s)
    BY DEF IsText
  <1>2. IsText(SubSeq(s, i, i))
    <2>1. i \in 1 .. Len(s) + 1 /\ i \in i - 1 .. Len(s)
      BY <1>1
    <2> QED
      BY <2>1, PartOfString
  <1>3. CASE s[i] # "$" \/ i = Len(s)
    <2>1. Piece(s, i, vs) = <<SubSeq(s, i, i), i + 1>>
      BY <1>3 DEF Piece
    <2> QED
      BY <1>1, <1>2, <2>1
  <1>4. CASE ~(s[i] # "$" \/ i = Len(s)) /\ s[i + 1] \in DOMAIN Special
    <2>1. Piece(s, i, vs) = <<Special[s[i + 1]], i + 2>>
      BY <1>4 DEF Piece
    <2>2. IsText(Special[s[i + 1]])
      BY <1>4, GivenTexts
    <2> QED
      BY <1>1, <1>4, <2>1, <2>2
  <1>5. CASE /\ ~(s[i] # "$" \/ i = Len(s)) /\ s[i + 1] \notin DOMAIN Special
             /\ s[i + 1] \in Letters
    <2>1. PICK e : e = NameEnd(s, i + 1)
      OBVIOUS
    <2>2. PICK n : n = Cut(SubSeq(s, i + 1, e), MAX_VAR_NAME)
      OBVIOUS
    <2>3. Piece(s, i, vs) = <<get_variable(vs, n, <<>>), e + 1>>
      BY <1>5, <2>1, <2>2 DEF Piece
    <2>4. i + 1 \in 1 .. Len(s) /\ s[i + 1] \in Ident
      BY <1>1, <1>5 DEF Ident
    <2>5. e \in i + 1 .. Len(s)
      BY <2>1, <2>4, NameEnds
    <2> QED
      BY <1>1, <2>3, <2>5, VariableText
  <1>6. CASE /\ ~(s[i] # "$" \/ i = Len(s)) /\ s[i + 1] \notin DOMAIN Special
             /\ s[i + 1] \notin Letters
    <2>1. Piece(s, i, vs) = <<SubSeq(s, i, i), i + 1>>
      BY <1>6 DEF Piece
    <2> QED
      BY <1>1, <1>2, <2>1
  <1> QED
    BY <1>3, <1>4, <1>5, <1>6

\* A function from the end of a string to its beginning.
Leads(next, L) == \A i \in 1 .. L : next[i] \in i + 1 .. L + 1
Unwinds(f, L, X, base, join, next) ==
  /\ f \in [1 .. L + 1 -> X] /\ f[L + 1] = base
  /\ \A i \in 1 .. L : f[i] = join[<<i, f[next[i]]>>]

LEMMA FromTheEnd ==
    ASSUME NEW L \in Nat, NEW X, NEW base \in X,
           NEW join \in [(1 .. L) \X X -> X], NEW next, Leads(next, L)
    PROVE  \E f : Unwinds(f, L, X, base, join, next)
  <1> DEFINE Good(f, n) == /\ f \in [1 .. L + 1 -> X] /\ f[L + 1] = base
                           /\ \A i \in L + 1 - n .. L :
                                i > 0 => f[i] = join[<<i, f[next[i]]>>]
             T == {n \in 0 .. L : \E f : Good(f, n)}
  <1>1. 0 \in T
    <2>1. PICK f : f = [i \in 1 .. L + 1 |-> base]
      OBVIOUS
    <2>2. f \in [1 .. L + 1 -> X] /\ f[L + 1] = base
      BY <2>1
    <2>3. L + 1 - 0 .. L = {}
      OBVIOUS
    <2>4. Good(f, 0)
      BY <2>2, <2>3
    <2>5. 0 \in 0 .. L
      OBVIOUS
    <2> HIDE DEF Good
    <2> QED
      BY <2>4, <2>5
  <1>2. ASSUME NEW n \in 1 .. L, n - 1 \in T PROVE n \in T
    <2>1. PICK g : Good(g, n - 1)
      BY <1>2
    <2>2. PICK m : m = L + 1 - n
      OBVIOUS
    <2>3. m \in 1 .. L /\ m \in 1 .. L + 1 /\ m # L + 1 /\ L + 1 \in 1 .. L + 1
      BY <2>2
    <2>4. next[m] \in 1 .. L + 1 /\ next[m] # m
      <3>1. next[m] \in m + 1 .. L + 1
        BY <2>3 DEF Leads
      <3> QED
        BY <2>3, <3>1
    <2>5. PICK f : f = [i \in 1 .. L + 1 |-> IF i = m THEN join[<<m, g[next[m]]>>] ELSE g[i]]
      OBVIOUS
    <2>6. g[next[m]] \in X /\ join[<<m, g[next[m]]>>] \in X
      BY <2>1, <2>3, <2>4
    <2>7. f \in [1 .. L + 1 -> X] /\ f[L + 1] = base
      BY <2>1, <2>3, <2>5, <2>6
    <2>8. ASSUME NEW i \in m .. L PROVE f[i] = join[<<i, f[next[i]]>>]
      <3>1. i \in 1 .. L /\ i \in 1 .. L + 1
        BY <2>3
      <3>2. next[i] \in i + 1 .. L + 1
        BY <3>1 DEF Leads
      <3>3. next[i] \in 1 .. L + 1 /\ next[i] # m
        BY <2>3, <3>1, <3>2
      <3>4. f[next[i]] = g[next[i]]
        BY <2>5, <3>3
      <3>5. CASE i = m
        BY <2>5, <3>1, <3>4, <3>5
      <3>6. CASE i # m
        <4>1. i \in L + 1 - (n - 1) .. L /\ i > 0
          BY <2>2, <2>3, <3>1, <3>6
        <4>2. g[i] = join[<<i, g[next[i]]>>]
          BY <2>1, <4>1
        <4> QED
          BY <2>5, <3>1, <3>4, <3>6, <4>2
      <3> QED
        BY <3>5, <3>6
    <2>9. Good(f, n)
      BY <2>2, <2>7, <2>8
    <2>10. n \in 0 .. L
      OBVIOUS
    <2> HIDE DEF Good
    <2> QED
      BY <2>9, <2>10
  <1>3. L \in T
    <2>1. L \in 0 .. L
      OBVIOUS
    <2> HIDE DEF T
    <2> QED
      BY <1>1, <1>2, <2>1, CountUp
  <1>4. PICK f : Good(f, L)
    BY <1>3
  <1>5. \A i \in 1 .. L : i \in L + 1 - L .. L /\ i > 0
    OBVIOUS
  <1>6. Unwinds(f, L, X, base, join, next)
    BY <1>4, <1>5 DEF Unwinds
  <1> QED
    BY <1>6

LEMMA StringOf ==
    ASSUME NEW t, IsText(t), NEW C, \A k \in 1 .. Len(t) : t[k] \in C
    PROVE  t \in Seq(C)
  <1>1. PICK n \in Nat : n = Len(t)
    BY DEF IsText
  <1>2. t = [k \in 1 .. n |-> t[k]]
    BY <1>1 DEF IsText
  <1>3. t \in [1 .. n -> C]
    BY <1>1, <1>2
  <1>4. t \in UNION {[1 .. m -> C] : m \in Nat}
    BY <1>3
  <1> QED
    BY <1>4, SeqDef, Zenon

LEMMA PieceChars ==
    ASSUME NEW s, IsText(s), NEW vs, HasStrings(vs)
    PROVE  \E C : \A i \in 1 .. Len(s) : Piece(s, i, vs)[1] \in Seq(C)
  <1> DEFINE P(i) == Piece(s, i, vs)[1]
             Chars(i) == {P(i)[k] : k \in 1 .. Len(P(i))}
  <1>1. PICK C : C = UNION {Chars(i) : i \in 1 .. Len(s)}
    OBVIOUS
  <1>2. ASSUME NEW i \in 1 .. Len(s) PROVE P(i) \in Seq(C)
    <2>1. IsText(P(i))
      BY PieceIs
    <2>2. \A k \in 1 .. Len(P(i)) : P(i)[k] \in C
      <3>1. Chars(i) \subseteq C
        BY <1>1
      <3> QED
        BY <3>1
    <2> HIDE DEF P
    <2> QED
      BY <2>1, <2>2, StringOf
  <1> QED
    BY <1>2

\* What is left to expand at each place.
LEMMA ExpansionIs ==
    ASSUME NEW s, IsText(s), NEW vs, HasStrings(vs)
    PROVE  \E f : /\ f[1] = Expansion(s, vs) /\ f[Len(s) + 1] = <<>>
                  /\ \A i \in 1 .. Len(s) + 1 : IsText(f[i])
                  /\ \A i \in 1 .. Len(s) :
                       f[i] = Piece(s, i, vs)[1] \o f[Piece(s, i, vs)[2]]
  <1>1. PICK L \in Nat : L = Len(s)
    BY DEF IsText
  <1>2. PICK C : \A i \in 1 .. L : Piece(s, i, vs)[1] \in Seq(C)
    BY <1>1, PieceChars
  <1>3. PICK next : next = [i \in 1 .. L |-> Piece(s, i, vs)[2]]
    OBVIOUS
  <1>4. \A i \in 1 .. L : next[i] \in i + 1 .. L + 1
    BY <1>1, <1>3, PieceIs
  <1>5. PICK X : X = Seq(C)
    OBVIOUS
  <1>6. PICK join : join = [p \in (1 .. L) \X X |-> Piece(s, p[1], vs)[1] \o p[2]]
    OBVIOUS
  <1>7. join \in [(1 .. L) \X X -> X]
    <2>1. \A i \in 1 .. L : \A t \in X : Piece(s, i, vs)[1] \o t \in X
      BY <1>2, <1>5, ConcatProperties
    <2> QED
      BY <1>6, <2>1
  <1>8. <<>> \in X
    BY <1>5
  <1>9. PICK f \in [1 .. L + 1 -> X] :
          f[L + 1] = <<>> /\ \A i \in 1 .. L : f[i] = join[<<i, f[next[i]]>>]
    <2>1. PICK base \in X : base = <<>>
      BY <1>8
    <2>2. Leads(next, L)
      BY <1>4 DEF Leads
    <2>3. \E f : Unwinds(f, L, X, base, join, next)
      BY <1>7, <2>2, FromTheEnd
    <2> QED
      BY <2>1, <2>3 DEF Unwinds
  <1>10. ASSUME NEW i \in 1 .. L PROVE f[i] = Piece(s, i, vs)[1] \o f[Piece(s, i, vs)[2]]
    <2>1. next[i] \in 1 .. L + 1 /\ next[i] = Piece(s, i, vs)[2]
      <3>1. next[i] \in i + 1 .. L + 1
        BY <1>4
      <3> QED
        BY <1>3, <3>1
    <2>2. f[next[i]] \in X
      BY <1>9, <2>1
    <2>3. join[<<i, f[next[i]]>>] = Piece(s, i, vs)[1] \o f[next[i]]
      BY <1>6, <2>2
    <2> QED
      BY <1>9, <2>1, <2>3
  <1> DEFINE Eq(h) == h = [i \in 1 .. Len(s) + 1 |->
                             IF i > Len(s) THEN <<>>
                             ELSE Piece(s, i, vs)[1] \o h[Piece(s, i, vs)[2]]]
             from == CHOOSE h : Eq(h)
  <1>11. Eq(f)
    <2>1. \A i \in 1 .. L + 1 : (i > L <=> i = L + 1) /\ (~(i > L) => i \in 1 .. L)
      OBVIOUS
    <2>2. \A i \in 1 .. L + 1 :
            f[i] = IF i > L THEN <<>> ELSE Piece(s, i, vs)[1] \o f[Piece(s, i, vs)[2]]
      BY <1>9, <1>10, <2>1
    <2> QED
      BY <1>1, <1>9, <2>2
  <1>12. Eq(from)
    <2> HIDE DEF Eq
    <2> QED
      BY <1>11
  <1>13. Expansion(s, vs) = from[1]
    BY DEF Expansion
  <1> HIDE DEF from
  <1>14. /\ from[L + 1] = <<>>
         /\ \A i \in 1 .. L : from[i] = Piece(s, i, vs)[1] \o from[Piece(s, i, vs)[2]]
    <2>1. L + 1 \in 1 .. Len(s) + 1 /\ L + 1 > Len(s)
      BY <1>1
    <2>2. \A i \in 1 .. L : i \in 1 .. Len(s) + 1 /\ ~(i > Len(s))
      BY <1>1
    <2> QED
      BY <1>12, <2>1, <2>2
  <1> DEFINE T == {n \in 0 .. L : \A i \in L + 1 - n .. L + 1 : IsText(from[i])}
  <1>15. 0 \in T
    <2>1. \A i \in L + 1 - 0 .. L + 1 : i = L + 1
      OBVIOUS
    <2>2. IsText(from[L + 1])
      BY <1>14, EmptyString
    <2>3. 0 \in 0 .. L
      OBVIOUS
    <2> QED
      BY <2>1, <2>2, <2>3
  <1>16. ASSUME NEW n \in 1 .. L, n - 1 \in T PROVE n \in T
    <2>1. \A i \in L + 1 - (n - 1) .. L + 1 : IsText(from[i])
      BY <1>16
    <2>2. PICK m : m = L + 1 - n
      OBVIOUS
    <2>3. m \in 1 .. L
      BY <2>2
    <2>4. next[m] \in m + 1 .. L + 1 /\ next[m] = Piece(s, m, vs)[2]
      BY <1>3, <1>4, <2>3
    <2>5. IsText(from[next[m]])
      <3>1. next[m] \in L + 1 - (n - 1) .. L + 1
        BY <2>2, <2>3, <2>4
      <3> QED
        BY <2>1, <3>1
    <2>6. IsText(Piece(s, m, vs)[1])
      BY <1>1, <2>3, PieceIs
    <2>7. IsText(from[m])
      <3>1. PICK p, t : p = Piece(s, m, vs)[1] /\ t = from[next[m]]
        OBVIOUS
      <3>2. IsText(p \o t)
        BY <2>5, <2>6, <3>1, TextsJoin
      <3>3. from[m] = p \o t
        BY <1>14, <2>3, <2>4, <3>1
      <3> QED
        BY <3>2, <3>3
    <2>8. \A i \in L + 1 - n .. L + 1 : i = m \/ i \in L + 1 - (n - 1) .. L + 1
      BY <2>2
    <2> QED
      BY <2>1, <2>7, <2>8
  <1>17. L \in T
    <2>1. L \in 0 .. L
      OBVIOUS
    <2> HIDE DEF T
    <2> QED
      BY <1>15, <1>16, <2>1, CountUp
  <1>18. \A i \in 1 .. L + 1 : IsText(from[i])
    <2>1. \A i \in 1 .. L + 1 : i \in L + 1 - L .. L + 1
      OBVIOUS
    <2> QED
      BY <1>17, <2>1
  <1> QED
    BY <1>1, <1>13, <1>14, <1>18

\* What of a piece fits behind the pieces before it.
LEMMA FittedPiece ==
    ASSUME NEW l \in Nat, NEW p, Long(p, l), NEW b \in Nat
    PROVE  Fitted(SubSeq(p, 1, Min({Len(p), b})), p, l, b)
  <1>0. IsText(p) /\ Len(p) = l
    BY DEF Long
  <1>1. PICK m \in Nat : m = IF l <= b THEN l ELSE b
    OBVIOUS
  <1>2. Min({l, b}) = m
    BY <1>1, LesserOfTwo
  <1>3. m \in 0 .. Len(p)
    BY <1>0, <1>1
  <1>a. PICK q : q = SubSeq(p, 1, Min({Len(p), b}))
    OBVIOUS
  <1>4. q = SubSeq(p, 1, m)
    BY <1>0, <1>2, <1>a
  <1>5. IsText(q) /\ Len(q) = m /\ \A k \in 1 .. m : q[k] = p[k]
    BY <1>0, <1>3, <1>4, FirstOfString
  <1>6. l <= b => q = p
    BY <1>0, <1>1, <1>5, SameString
  <1>7. Fitted(q, p, l, b)
    BY <1>1, <1>5, <1>6 DEF Fitted, Long
  <1> QED
    BY <1>7, <1>a

\* Cutting a piece to the room there is does not change what is cut at the end.
LEMMA CutPiece ==
    ASSUME NEW m \in Nat, NEW a, Long(a, m), NEW l \in Nat, NEW p, Long(p, l),
           NEW h \in Nat, NEW g, Long(g, h), NEW b \in Nat,
           NEW size \in Nat \ {0}, size = m + b + 1,
           NEW q, Fitted(q, p, l, b)
    PROVE  /\ IsText(a \o q) /\ Len(a \o q) <= size - 1
           /\ Cut(a \o (p \o g), size) = Cut((a \o q) \o g, size)
  <1>1. PICK z \in Nat : z = m + b
    OBVIOUS
  <1>a. z = size - 1
    BY <1>1
  <1>2. PICK x \in Nat : x = IF l <= b THEN l ELSE b
    OBVIOUS
  <1>3. Long(q, x) /\ x <= l /\ x <= b /\ \A k \in 1 .. x : q[k] = p[k]
    BY <1>2 DEF Fitted, Long
  <1>4. PICK pg : pg = p \o g
    OBVIOUS
  <1>5. PICK aq : aq = a \o q
    OBVIOUS
  <1>b. PICK lh, mx \in Nat : lh = l + h /\ mx = m + x
    OBVIOUS
  <1>6. Joined(pg, p, g, l, h)
    BY <1>4, JoinedLengths
  <1>7. Joined(aq, a, q, m, x)
    BY <1>3, <1>5, JoinedLengths
  <1>c. /\ Long(pg, lh)
        /\ \A k \in 1 .. lh : pg[k] = IF k <= l THEN p[k] ELSE g[k - l]
    BY <1>6, <1>b DEF Joined
  <1>d. /\ Long(aq, mx)
        /\ \A k \in 1 .. mx : aq[k] = IF k <= m THEN a[k] ELSE q[k - m]
    BY <1>7, <1>b DEF Joined
  <1>8. PICK s : s = a \o pg
    OBVIOUS
  <1>9. PICK t : t = aq \o g
    OBVIOUS
  <1>e. PICK u \in Nat : u = m + lh /\ u = mx + (h + (l - x))
    BY <1>3, <1>b
  <1>f. PICK w \in Nat : w = mx + h
    OBVIOUS
  <1>10. Long(s, u) /\ \A k \in 1 .. u : s[k] = IF k <= m THEN a[k] ELSE pg[k - m]
    <2>1. Joined(s, a, pg, m, lh)
      BY <1>8, <1>c, JoinedLengths
    <2> QED
      BY <2>1, <1>e DEF Joined
  <1>11. Long(t, w) /\ \A k \in 1 .. w : t[k] = IF k <= mx THEN aq[k] ELSE g[k - mx]
    <2>1. Joined(t, aq, g, mx, h)
      BY <1>9, <1>d, JoinedLengths
    <2> QED
      BY <2>1, <1>f DEF Joined
  <1>12. PICK c : c = Cut(s, size)
    OBVIOUS
  <1>13. PICK d : d = Cut(t, size)
    OBVIOUS
  <1>14. PICK n \in Nat : n = IF u <= z THEN u ELSE z
    OBVIOUS
  <1>15. n = (IF w <= z THEN w ELSE z) /\ n <= u /\ n <= w
    BY <1>1, <1>2, <1>14, <1>b, <1>e, <1>f
  <1>16. IsText(c) /\ Len(c) = n /\ \A k \in 1 .. n : c[k] = s[k]
    <2>1. Fitted(c, s, u, z)
      BY <1>10, <1>12, <1>a, CutLengths
    <2> QED
      BY <2>1, <1>14 DEF Fitted, Long
  <1>17. IsText(d) /\ Len(d) = n /\ \A k \in 1 .. n : d[k] = t[k]
    <2>1. Fitted(d, t, w, z)
      BY <1>11, <1>13, <1>a, CutLengths
    <2> QED
      BY <2>1, <1>15 DEF Fitted, Long
  <1>18. ASSUME NEW k \in 1 .. n PROVE s[k] = t[k]
    <2>1. k \in 1 .. u /\ k \in 1 .. w
      BY <1>15
    <2>2. CASE k <= m
      <3>1. k \in 1 .. mx /\ k <= mx
        BY <1>b, <2>2
      <3> QED
        BY <1>d, <1>10, <1>11, <2>1, <2>2, <3>1
    <2>3. CASE ~(k <= m) /\ k <= mx
      <3>1. k - m \in 1 .. x /\ k - m \in 1 .. lh /\ k - m <= l /\ k \in 1 .. mx
        BY <1>3, <1>b, <2>1, <2>3
      <3>2. s[k] = p[k - m]
        BY <1>c, <1>10, <2>1, <2>3, <3>1
      <3>3. t[k] = q[k - m]
        BY <1>d, <1>11, <2>1, <2>3, <3>1
      <3> QED
        BY <1>3, <3>1, <3>2, <3>3
    <2>4. CASE ~(k <= mx)
      <3>1. x = l
        BY <1>1, <1>2, <1>14, <1>b, <2>4
      <3>2. k - m \in 1 .. lh /\ ~(k - m <= l) /\ (k - m) - l = k - mx /\ ~(k <= m)
        BY <1>b, <1>e, <2>1, <2>4, <3>1
      <3>3. s[k] = g[k - mx]
        BY <1>c, <1>10, <2>1, <3>2
      <3> QED
        BY <1>11, <2>1, <2>4, <3>3
    <2> QED
      BY <2>2, <2>3, <2>4
  <1>19. c = d
    BY <1>16, <1>17, <1>18, SameString
  <1>20. IsText(aq) /\ Len(aq) <= size - 1
    BY <1>1, <1>3, <1>a, <1>b, <1>d DEF Long
  <1> QED
    BY <1>4, <1>5, <1>8, <1>9, <1>12, <1>13, <1>19, <1>20

\* The states of the expansion.
LEMMA ExpandedInSteps ==
    ASSUME NEW s, IsText(s), NEW vs, HasStrings(vs)
    PROVE  \E g : /\ g[0] = [out |-> <<>>, i |-> 1]
                  /\ \A n \in 1 .. Len(s) : g[n] = NextPiece(s, vs, g[n - 1])
                  /\ expand_variables(s, vs) = g[Len(s)].out
  <1>1. PICK N \in Nat : N = Len(s)
    BY DEF IsText
  <1>2. PICK C : \A i \in 1 .. N : Piece(s, i, vs)[1] \in Seq(C)
    BY <1>1, PieceChars
  <1>3. ARG_MAX \in Nat
    BY WordsAssumption
  <1> DEFINE X == [out : Seq(C), i : 1 .. N + 1]
             Start == [out |-> <<>>, i |-> 1]
             Eq(h) == h = [n \in 0 .. N |-> IF n = 0 THEN Start ELSE NextPiece(s, vs, h[n - 1])]
             after == CHOOSE h : Eq(h)
  <1>4. Start \in X
    OBVIOUS
  <1>5. ASSUME NEW r \in X PROVE NextPiece(s, vs, r) \in X
    <2>1. CASE r.i > Len(s) \/ Room(r.out) <= 0
      BY <2>1 DEF NextPiece
    <2>2. CASE ~(r.i > Len(s) \/ Room(r.out) <= 0)
      <3>1. r.i \in 1 .. N /\ IsText(r.out) /\ r.out \in Seq(C)
        BY <1>1, <2>2, SeqIsText
      <3>2. PICK p : p = Piece(s, r.i, vs)
        OBVIOUS
      <3>3. p[1] \in Seq(C) /\ p[2] \in 1 .. N + 1
        <4>1. p[2] \in r.i + 1 .. N + 1
          BY <1>1, <3>1, <3>2, PieceIs
        <4> QED
          BY <1>2, <3>1, <3>2, <4>1
      <3>4. PICK q : q = SubSeq(p[1], 1, Min({Len(p[1]), Room(r.out)}))
        OBVIOUS
      <3>5. NextPiece(s, vs, r) = [out |-> r.out \o q, i |-> p[2]]
        BY <2>2, <3>2, <3>4 DEF NextPiece
      <3>6. q \in Seq(C)
        <4>1. Room(r.out) \in Int /\ Room(r.out) >= 0
          BY <1>3, <2>2, <3>1 DEF Room, IsText
        <4>2. PICK b \in Nat : b = Room(r.out)
          BY <4>1
        <4>3. PICK u \in Seq(C) : u = p[1]
          BY <3>3
        <4>4. PICK l \in Nat : l = Len(u) /\ \A k \in 1 .. l : u[k] \in C
          BY <4>3, LenProperties
        <4>5. /\ IsText(q) /\ Len(q) = IF l <= b THEN l ELSE b
              /\ \A k \in 1 .. Len(q) : q[k] = u[k]
          <5>1. Long(u, l)
            BY <4>3, <4>4, SeqIsText DEF Long
          <5>2. Fitted(q, u, l, b)
            BY <3>4, <4>2, <4>3, <5>1, FittedPiece
          <5> QED
            BY <5>2 DEF Fitted, Long
        <4>6. \A k \in 1 .. Len(q) : k \in 1 .. l
          BY <4>5
        <4> QED
          BY <4>4, <4>5, <4>6, StringOf
      <3>7. r.out \o q \in Seq(C)
        BY <3>1, <3>6, ConcatProperties
      <3> QED
        BY <3>3, <3>5, <3>7
    <2> QED
      BY <2>1, <2>2
  <1>6. expand_variables(s, vs) = after[N].out
    BY <1>1 DEF expand_variables
  <1> HIDE DEF X, Start
  <1>7. PICK step : step = [p \in (1 .. N) \X X |-> NextPiece(s, vs, p[2])]
    OBVIOUS
  <1>8. step \in [(1 .. N) \X X -> X]
    BY <1>5, <1>7
  <1>9. PICK f : Iterates(f, N, X, Start, step)
    BY <1>4, <1>8, RecursionExists
  <1>10. /\ f \in [0 .. N -> X] /\ f[0] = Start
         /\ \A n \in 1 .. N : f[n] = step[<<n, f[n - 1]>>]
    BY <1>9 DEF Iterates
  <1>11. \A n \in 1 .. N : n - 1 \in 0 .. N /\ n \in 0 .. N /\ n # 0
    BY <1>1
  <1>12. \A n \in 1 .. N : f[n] = NextPiece(s, vs, f[n - 1])
    <2> TAKE n \in 1 .. N
    <2>1. f[n - 1] \in X
      BY <1>10, <1>11
    <2> QED
      BY <1>7, <1>10, <2>1
  <1>13. \A n \in 0 .. N : n # 0 => n \in 1 .. N
    BY <1>1
  <1>14. Eq(f)
    BY <1>10, <1>12, <1>13
  <1>15. Eq(after)
    <2> HIDE DEF Eq
    <2> QED
      BY <1>14
  <1> HIDE DEF after
  <1>16. 0 \in 0 .. N
    BY <1>1
  <1>17. after[0] = Start /\ \A n \in 1 .. N : after[n] = NextPiece(s, vs, after[n - 1])
    BY <1>11, <1>15, <1>16
  <1> QED
    BY <1>1, <1>6, <1>17 DEF Start

\* What fills the buffer, or is followed by nothing, is what is cut.
LEMMA CutBehind ==
    ASSUME NEW m \in Nat, NEW a, Long(a, m), NEW h \in Nat, NEW g, Long(g, h),
           NEW size \in Nat \ {0}, m <= size - 1, h = 0 \/ m = size - 1
    PROVE  Cut(a \o g, size) = a
  <1>1. PICK z \in Nat : z = size - 1
    OBVIOUS
  <1>2. PICK s : s = a \o g
    OBVIOUS
  <1>3. PICK u \in Nat : u = m + h
    OBVIOUS
  <1>4. Long(s, u) /\ \A k \in 1 .. u : s[k] = IF k <= m THEN a[k] ELSE g[k - m]
    <2>1. Joined(s, a, g, m, h)
      BY <1>2, JoinedLengths
    <2> QED
      BY <2>1, <1>3 DEF Joined
  <1>5. PICK c : c = Cut(s, size)
    OBVIOUS
  <1>6. Fitted(c, s, u, z)
    BY <1>1, <1>4, <1>5, CutLengths
  <1>7. IsText(c) /\ Len(c) = m /\ \A k \in 1 .. m : c[k] = s[k]
    BY <1>1, <1>3, <1>6 DEF Fitted, Long
  <1>8. \A k \in 1 .. m : c[k] = a[k]
    BY <1>3, <1>4, <1>7
  <1>9. IsText(a) /\ Len(a) = m
    BY DEF Long
  <1>10. c = a
    BY <1>7, <1>8, <1>9, SameString
  <1> QED
    BY <1>2, <1>5, <1>10

\* Every state of the expansion stands for the same expansion, cut.
Expanding(s, f, r, n) ==
  /\ IsText(r.out) /\ Len(r.out) <= ARG_MAX - 1 /\ r.i \in 1 .. Len(s) + 1
  /\ Cut(r.out \o f[r.i], ARG_MAX) = Cut(f[1], ARG_MAX)
  /\ n < r.i \/ Room(r.out) <= 0

LEMMA ExpansionBegins ==
    ASSUME NEW s, IsText(s), NEW f, IsText(f[1])
    PROVE  Expanding(s, f, [out |-> <<>>, i |-> 1], 0)
  <1>1. PICK g : g = f[1]
    OBVIOUS
  <1>2. PICK q : q = <<>> \o g
    OBVIOUS
  <1>3. PICK h \in Nat : Long(g, h)
    BY <1>1 DEF IsText, Long
  <1>4. PICK e : e = <<>>
    OBVIOUS
  <1>5. Long(e, 0)
    BY <1>4, EmptyString DEF Long
  <1>6. Joined(q, e, g, 0, h)
    BY <1>2, <1>3, <1>4, <1>5, JoinedLengths
  <1>7. \A k \in 1 .. h : ~(k <= 0) /\ k - 0 = k
    OBVIOUS
  <1>8. 0 + h = h
    OBVIOUS
  <1>9. Long(q, h) /\ \A k \in 1 .. h : q[k] = g[k]
    BY <1>6, <1>7, <1>8 DEF Joined
  <1>10. q = g
    BY <1>3, <1>9, SameString DEF Long
  <1>11. 0 <= ARG_MAX - 1 /\ 1 \in 1 .. Len(s) + 1
    BY WordsAssumption DEF IsText
  <1> QED
    BY <1>1, <1>2, <1>10, <1>11, EmptyString DEF Expanding

LEMMA ExpansionGoesOn ==
    ASSUME NEW s, IsText(s), NEW vs, HasStrings(vs), NEW f,
           \A i \in 1 .. Len(s) + 1 : IsText(f[i]),
           \A i \in 1 .. Len(s) : f[i] = Piece(s, i, vs)[1] \o f[Piece(s, i, vs)[2]],
           NEW n \in 1 .. Len(s), NEW r, Expanding(s, f, r, n - 1)
    PROVE  Expanding(s, f, NextPiece(s, vs, r), n)
  <1>1. PICK L \in Nat : L = Len(s)
    BY DEF IsText
  <1>2. ARG_MAX \in Nat \ {0}
    BY WordsAssumption
  <1>3. /\ IsText(r.out) /\ Len(r.out) <= ARG_MAX - 1 /\ r.i \in 1 .. L + 1
        /\ Cut(r.out \o f[r.i], ARG_MAX) = Cut(f[1], ARG_MAX)
        /\ n - 1 < r.i \/ Room(r.out) <= 0
    BY <1>1 DEF Expanding
  <1>4. CASE r.i > Len(s) \/ Room(r.out) <= 0
    <2>1. NextPiece(s, vs, r) = r
      BY <1>4 DEF NextPiece
    <2>2. n < r.i \/ Room(r.out) <= 0
      BY <1>1, <1>3, <1>4
    <2> QED
      BY <1>1, <1>3, <2>1, <2>2 DEF Expanding
  <1>5. CASE ~(r.i > Len(s) \/ Room(r.out) <= 0)
    <2>1. r.i \in 1 .. L
      BY <1>1, <1>3, <1>5
    <2>2. PICK P : P = Piece(s, r.i, vs)
      OBVIOUS
    <2>3. IsText(P[1]) /\ P[2] \in r.i + 1 .. L + 1
      BY <1>1, <2>1, <2>2, PieceIs
    <2>4. PICK p, g, a : p = P[1] /\ g = f[P[2]] /\ a = r.out
      OBVIOUS
    <2>5. IsText(p) /\ IsText(g) /\ IsText(a) /\ f[r.i] = p \o g
      <3>1. P[2] \in 1 .. L + 1
        BY <2>1, <2>3
      <3> QED
        BY <1>1, <1>3, <2>1, <2>2, <2>3, <2>4, <3>1
    <2>6. PICK m, l, h \in Nat : Long(a, m) /\ Long(p, l) /\ Long(g, h)
      BY <2>5 DEF IsText, Long
    <2>7. PICK b \in Nat : b = Room(a) /\ ARG_MAX = m + b + 1
      <3>1. Len(a) = m /\ m <= ARG_MAX - 1
        BY <1>3, <2>4, <2>6 DEF Long
      <3>2. Room(a) = ARG_MAX - 1 - m
        BY <3>1 DEF Room
      <3> QED
        BY <1>2, <3>1, <3>2
    <2>8. PICK q : q = SubSeq(p, 1, Min({Len(p), b}))
      OBVIOUS
    <2>9. Fitted(q, p, l, b)
      BY <2>6, <2>8, FittedPiece
    <2>10. PICK size \in Nat \ {0} : size = ARG_MAX
      BY <1>2
    <2>11. /\ IsText(a \o q) /\ Len(a \o q) <= size - 1
           /\ Cut(a \o (p \o g), size) = Cut((a \o q) \o g, size)
      <3>1. size = m + b + 1
        BY <2>7, <2>10
      <3> QED
        BY <2>6, <2>9, <3>1, CutPiece
    <2>12. NextPiece(s, vs, r) = [out |-> a \o q, i |-> P[2]]
      BY <1>5, <2>2, <2>4, <2>7, <2>8 DEF NextPiece
    <2>13. n < P[2]
      BY <1>3, <1>5, <2>1, <2>3
    <2>14. P[2] \in 1 .. Len(s) + 1
      BY <1>1, <2>1, <2>3
    <2> QED
      BY <1>3, <2>4, <2>5, <2>10, <2>11, <2>12, <2>13, <2>14 DEF Expanding
  <1> QED
    BY <1>4, <1>5

\* Expansion is the expansion of every piece, cut where the buffer ends.
LEMMA ExpandedIsCut ==
    ASSUME NEW s, IsText(s), NEW vs, HasStrings(vs)
    PROVE  /\ expand_variables(s, vs) = Cut(Expansion(s, vs), ARG_MAX)
           /\ Len(expand_variables(s, vs)) < ARG_MAX
  <1>1. PICK L \in Nat : L = Len(s)
    BY DEF IsText
  <1>2. PICK f : /\ f[1] = Expansion(s, vs) /\ f[Len(s) + 1] = <<>>
                 /\ \A i \in 1 .. Len(s) + 1 : IsText(f[i])
                 /\ \A i \in 1 .. Len(s) :
                      f[i] = Piece(s, i, vs)[1] \o f[Piece(s, i, vs)[2]]
    BY ExpansionIs
  <1>3. PICK g : /\ g[0] = [out |-> <<>>, i |-> 1]
                 /\ \A n \in 1 .. Len(s) : g[n] = NextPiece(s, vs, g[n - 1])
                 /\ expand_variables(s, vs) = g[Len(s)].out
    BY ExpandedInSteps
  <1> DEFINE T == {n \in 0 .. L : Expanding(s, f, g[n], n)}
  <1>4. 0 \in T
    <2>1. 1 \in 1 .. Len(s) + 1 /\ 0 \in 0 .. L
      BY <1>1
    <2>2. Expanding(s, f, g[0], 0)
      BY <1>2, <1>3, <2>1, ExpansionBegins
    <2> QED
      BY <2>1, <2>2
  <1>5. ASSUME NEW n \in 1 .. L, n - 1 \in T PROVE n \in T
    <2>1. PICK r : r = g[n - 1]
      OBVIOUS
    <2>2. Expanding(s, f, r, n - 1)
      BY <1>5, <2>1
    <2>3. Expanding(s, f, NextPiece(s, vs, r), n)
      BY <1>1, <1>2, <2>2, ExpansionGoesOn
    <2>4. g[n] = NextPiece(s, vs, r)
      BY <1>1, <1>3, <2>1
    <2> QED
      BY <2>3, <2>4
  <1>6. L \in T
    <2>1. L \in 0 .. L
      OBVIOUS
    <2> HIDE DEF T
    <2> QED
      BY <1>4, <1>5, <2>1, CountUp
  <1>7. PICK a, i : a = g[L].out /\ i = g[L].i
    OBVIOUS
  <1>8. /\ IsText(a) /\ Len(a) <= ARG_MAX - 1 /\ i \in 1 .. L + 1
        /\ Cut(a \o f[i], ARG_MAX) = Cut(f[1], ARG_MAX)
        /\ L < i \/ Room(a) <= 0
    BY <1>1, <1>6, <1>7 DEF Expanding
  <1>9. PICK size \in Nat \ {0} : size = ARG_MAX
    BY WordsAssumption
  <1>10. PICK e : e = f[i]
    OBVIOUS
  <1>11. PICK m, h \in Nat : Long(a, m) /\ Long(e, h)
    BY <1>1, <1>2, <1>8, <1>10 DEF IsText, Long
  <1>12. m <= size - 1 /\ (h = 0 \/ m = size - 1)
    <2>1. Len(a) = m /\ Room(a) = size - 1 - m /\ m <= size - 1
      BY <1>8, <1>9, <1>11 DEF Long, Room
    <2>2. L < i => h = 0
      <3>1. L < i => i = L + 1
        BY <1>8
      <3> QED
        BY <1>1, <1>2, <1>10, <1>11, <3>1, EmptyString DEF Long
    <2> QED
      BY <1>8, <2>1, <2>2
  <1>13. Cut(a \o e, size) = a
    BY <1>11, <1>12, CutBehind
  <1>14. expand_variables(s, vs) = a
    BY <1>1, <1>3, <1>7
  <1>15. Len(a) < ARG_MAX
    BY <1>8, <1>9, <1>11 DEF Long
  <1> QED
    BY <1>2, <1>8, <1>9, <1>10, <1>13, <1>14, <1>15

\* Nothing put behind a string changes it.
LEMMA NothingBehind ==
    ASSUME NEW s, IsText(s)
    PROVE  s \o <<>> = s
  <1>1. PICK e : e = <<>>
    OBVIOUS
  <1>2. PICK m \in Nat : Long(s, m)
    BY DEF IsText, Long
  <1>3. PICK q : q = s \o e
    OBVIOUS
  <1>4. Joined(q, s, e, m, 0)
    BY <1>1, <1>2, <1>3, JoinedLengths, EmptyString DEF Long
  <1>5. m + 0 = m /\ \A k \in 1 .. m : k <= m
    OBVIOUS
  <1>6. Long(q, m) /\ \A k \in 1 .. m : q[k] = s[k]
    BY <1>4, <1>5 DEF Joined
  <1>7. q = s
    BY <1>2, <1>6, SameString DEF Long
  <1> QED
    BY <1>1, <1>3, <1>7

\* Where the first '=' is.
LEMMA FirstEqualsIs ==
    ASSUME NEW s, IsText(s)
    PROVE  \/ FirstEquals(s) = 0 /\ \A j \in 1 .. Len(s) : s[j] # "="
           \/ /\ FirstEquals(s) \in 1 .. Len(s) /\ s[FirstEquals(s)] = "="
              /\ \A j \in 1 .. Len(s) : s[j] = "=" => FirstEquals(s) <= j
  <1> DEFINE I == {j \in 1 .. Len(s) : s[j] = "="}
  <1>1. FirstEquals(s) = IF I # {} THEN Min(I) ELSE 0
    BY DEF FirstEquals, SelectInSeq
  <1>2. I \subseteq Nat
    OBVIOUS
  <1>3. CASE I = {}
    BY <1>1, <1>3
  <1>4. CASE I # {}
    <2>1. Min(I) \in I /\ \A y \in I : Min(I) <= y
      <3> HIDE DEF I
      <3> QED
        BY <1>2, <1>4, LeastIs
    <2>2. FirstEquals(s) \in I /\ \A y \in I : FirstEquals(s) <= y
      BY <1>1, <1>4, <2>1
    <2> QED
      BY <2>2
  <1> QED
    BY <1>3, <1>4

\* The parts of an assignment.
IsName(n) ==
  /\ IsText(n) /\ Len(n) > 0
  /\ n[1] \in Letters /\ \A k \in 1 .. Len(n) : n[k] \in Ident

LEMMA AssignmentParts ==
    ASSUME NEW s, IsText(s), parse_assignment(s), NEW eq, eq = FirstEquals(s)
    PROVE  /\ eq \in 2 .. Len(s)
           /\ IsName(SubSeq(s, 1, eq - 1)) /\ IsText(SubSeq(s, eq + 1, Len(s)))
  <1>1. PICK N \in Nat : N = Len(s)
    BY DEF IsText
  <1>2. eq > 1 /\ (\A i \in 1 .. eq - 1 : s[i] \in Ident) /\ s[1] \notin NameDigits
    BY DEF parse_assignment
  <1>3. eq \in 2 .. N
    <2>1. eq = 0 \/ eq \in 1 .. N
      BY <1>1, FirstEqualsIs
    <2> QED
      BY <1>2, <2>1
  <1>4. PICK m \in Nat : m = eq - 1 /\ m \in 1 .. N
    BY <1>3
  <1>5. PICK n : n = SubSeq(s, 1, m)
    OBVIOUS
  <1>6. IsText(n) /\ Len(n) = m /\ \A k \in 1 .. m : n[k] = s[k]
    <2>1. m \in 0 .. Len(s)
      BY <1>1, <1>4
    <2> QED
      BY <1>5, <2>1, FirstOfString
  <1>7. s[1] \in Letters
    <2>1. 1 \in 1 .. eq - 1
      BY <1>3
    <2> QED
      BY <1>2, <2>1 DEF Ident
  <1>8. IsName(n)
    <2>1. \A k \in 1 .. m : n[k] \in Ident
      BY <1>2, <1>4, <1>6
    <2>2. 1 \in 1 .. m /\ m > 0
      BY <1>4
    <2> QED
      BY <1>6, <1>7, <2>1, <2>2 DEF IsName
  <1>9. IsText(SubSeq(s, eq + 1, Len(s)))
    <2>1. PICK a \in Int : a = eq + 1 /\ a \in 1 .. N + 1 /\ N \in a - 1 .. N
      BY <1>3
    <2>2. IsText(SubSeq(s, a, N))
      BY <1>1, <2>1, PartOfString
    <2> QED
      BY <1>1, <2>1, <2>2
  <1> QED
    BY <1>1, <1>3, <1>4, <1>5, <1>8, <1>9

\* The first variable of a shell.
LEMMA FirstVariable ==
    ASSUME NEW n, NEW v, NEW x
    PROVE  set_variable(<<>>, n, v, x) = <<[name |-> n, value |-> v, exported |-> x]>>
  <1>1. PICK e : e = <<>>
    OBVIOUS
  <1>2. Len(e) = 0
    BY <1>1, EmptyString
  <1>3. find_variable(e, n) = 0
    <2>1. Len(e) \in Nat /\ \A i : ~(i \in 1 .. Len(e))
      BY <1>2
    <2> QED
      BY <2>1, FoundByName
  <1>4. ~(Len(e) >= MAX_VARS) /\ ~(find_variable(e, n) > 0)
    BY <1>2, <1>3, VarsAssumption
  <1>5. set_variable(e, n, v, x) = Append(e, [name |-> n, value |-> v, exported |-> x])
    BY <1>4 DEF set_variable
  <1>6. PICK r : r = [name |-> n, value |-> v, exported |-> x]
    OBVIOUS
  <1>7. Append(<<>>, r) = <<r>>
    OBVIOUS
  <1> QED
    BY <1>1, <1>5, <1>6, <1>7

\* A string that is one piece.
LEMMA OnePiece ==
    ASSUME NEW s, IsText(s), Len(s) > 0, NEW vs, HasStrings(vs), NEW v, IsText(v),
           Piece(s, 1, vs)[1] = v, Piece(s, 1, vs)[2] = Len(s) + 1
    PROVE  Expansion(s, vs) = v
  <1>1. PICK f : /\ f[1] = Expansion(s, vs) /\ f[Len(s) + 1] = <<>>
                 /\ \A i \in 1 .. Len(s) + 1 : IsText(f[i])
                 /\ \A i \in 1 .. Len(s) :
                      f[i] = Piece(s, i, vs)[1] \o f[Piece(s, i, vs)[2]]
    BY ExpansionIs
  <1>2. 1 \in 1 .. Len(s)
    BY DEF IsText
  <1>3. f[1] = Piece(s, 1, vs)[1] \o f[Piece(s, 1, vs)[2]]
    BY <1>1, <1>2
  <1>4. f[1] = v \o <<>>
    BY <1>1, <1>3
  <1> QED
    BY <1>1, <1>4, NothingBehind

\* What $NAME gives.
LEMMA NamedVariable ==
    ASSUME NEW n, IsName(n), NEW v, IsText(v), NEW vs,
           vs = <<[name |-> Cut(n, MAX_VAR_NAME), value |-> v, exported |-> FALSE]>>
    PROVE  expand_variables(<<"$">> \o n, vs) = Cut(v, ARG_MAX)
  <1>1. PICK m \in Nat : Long(n, m) /\ m > 0
    BY DEF IsName, IsText, Long
  <1>2. PICK d : d = <<"$">>
    OBVIOUS
  <1>3. Long(d, 1) /\ d[1] = "$"
    <2>1. d \in Seq({"$"}) /\ Len(d) = 1 /\ d[1] = "$"
      BY <1>2
    <2> QED
      BY <2>1, SeqIsText DEF Long
  <1>4. PICK s : s = d \o n
    OBVIOUS
  <1>5. PICK L \in Nat : L = 1 + m
    OBVIOUS
  <1>6. Long(s, L) /\ \A k \in 1 .. L : s[k] = IF k <= 1 THEN d[k] ELSE n[k - 1]
    <2>1. Joined(s, d, n, 1, m)
      BY <1>1, <1>3, <1>4, JoinedLengths
    <2> QED
      BY <2>1, <1>5 DEF Joined
  <1>7. s[1] = "$" /\ \A k \in 2 .. L : s[k] = n[k - 1] /\ s[k] \in Ident
    <2>1. 1 \in 1 .. L /\ 1 <= 1
      BY <1>5
    <2>2. \A k \in 2 .. L : k \in 1 .. L /\ ~(k <= 1) /\ k - 1 \in 1 .. m
      BY <1>5
    <2>3. \A k \in 1 .. m : n[k] \in Ident
      BY <1>1 DEF IsName, Long
    <2> QED
      BY <1>3, <1>6, <2>1, <2>2, <2>3
  <1>8. s[2] \in Letters
    <2>1. 2 \in 2 .. L /\ 2 - 1 = 1
      BY <1>1, <1>5
    <2> QED
      BY <1>7, <2>1 DEF IsName
  <1>9. IsText(s) /\ Len(s) = L
    BY <1>6 DEF Long
  <1>10. NameEnd(s, 2) = L
    <2>1. PICK i \in 1 .. Len(s) : i = 2
      BY <1>1, <1>5, <1>9
    <2>2. s[i] \in Ident
      BY <1>8, <2>1 DEF Ident
    <2>3. PICK e : e = NameEnd(s, i)
      OBVIOUS
    <2>4. e \in i .. L /\ (e < L => s[e + 1] \notin Ident)
      BY <1>9, <2>2, <2>3, NameEnds
    <2>5. e < L => e + 1 \in 2 .. L
      BY <2>1, <2>4
    <2>6. ~(e < L)
      BY <1>7, <2>4, <2>5
    <2> QED
      BY <2>1, <2>3, <2>4, <2>6
  <1>11. SubSeq(s, 2, L) = n
    <2>1. PICK i \in Nat : i = 2
      OBVIOUS
    <2>2. i \in 1 .. Len(s) + 1 /\ L \in i - 1 .. Len(s) /\ L - i + 1 = m
      BY <1>5, <1>9, <2>1
    <2>3. PICK q : q = SubSeq(s, i, L)
      OBVIOUS
    <2>4. IsText(q) /\ Len(q) = m /\ \A k \in 1 .. m : q[k] = s[i + k - 1]
      BY <1>9, <2>2, <2>3, PartOfString
    <2>5. \A k \in 1 .. m : i + k - 1 \in 2 .. L /\ (i + k - 1) - 1 = k
      BY <1>5, <2>1
    <2>6. \A k \in 1 .. m : q[k] = n[k]
      BY <1>7, <2>4, <2>5
    <2>7. q = n
      BY <1>1, <2>4, <2>6, SameString DEF Long
    <2> QED
      BY <2>1, <2>3, <2>7
  <1>12. PICK c : c = Cut(n, MAX_VAR_NAME)
    OBVIOUS
  <1>13. Len(vs) = 1 /\ vs[1].name = c /\ vs[1].value = v
    BY <1>12
  <1>14. get_variable(vs, c, <<>>) = v
    <2>1. PICK i : i = find_variable(vs, c)
      OBVIOUS
    <2>2. i = 1
      <3>1. Len(vs) \in Nat /\ 1 \in 1 .. Len(vs) /\ \A j \in 1 .. Len(vs) : j = 1
        BY <1>13
      <3> QED
        BY <1>13, <2>1, <3>1, FoundByName
    <2> QED
      BY <1>13, <2>1, <2>2 DEF get_variable
  <1>15. HasStrings(vs)
    <2>1. \A j \in 1 .. 1 : j = 1
      OBVIOUS
    <2> QED
      BY <1>13, <2>1 DEF HasStrings
  <1>16. Piece(s, 1, vs) = <<v, L + 1>>
    <2>1. s[1] = "$" /\ 1 # Len(s) /\ 1 + 1 = 2
      BY <1>1, <1>5, <1>7, <1>9
    <2>2. s[1 + 1] \notin DOMAIN Special /\ s[1 + 1] \in Letters
      BY <1>8, <2>1, WordsAssumption
    <2>3. NameEnd(s, 1 + 1) = L /\ SubSeq(s, 1 + 1, L) = n
      BY <1>10, <1>11, <2>1
    <2> QED
      BY <1>12, <1>14, <2>1, <2>2, <2>3 DEF Piece
  <1>17. Expansion(s, vs) = v
    <2>1. Len(s) > 0 /\ Piece(s, 1, vs)[1] = v /\ Piece(s, 1, vs)[2] = Len(s) + 1
      BY <1>5, <1>9, <1>16
    <2>2. IsText(s)
      BY <1>9
    <2> QED
      BY <1>15, <2>1, <2>2, OnePiece
  <1>18. expand_variables(s, vs) = Cut(v, ARG_MAX)
    BY <1>9, <1>15, <1>17, ExpandedIsCut
  <1> QED
    BY <1>2, <1>4, <1>18

\* AssignedIsExpanded, for every string.
LEMMA AssignmentExpanded ==
    ASSUME NEW s, IsText(s), parse_assignment(s), NEW eq, eq = FirstEquals(s),
           NEW v, v = Split(s, eq)
    PROVE  expand_variables(<<"$">> \o SubSeq(s, 1, eq - 1),
                            set_variable(<<>>, v.name, v.value, FALSE))
             = Cut(v.value, ARG_MAX)
  <1>1. PICK n, w : n = SubSeq(s, 1, eq - 1) /\ w = SubSeq(s, eq + 1, Len(s))
    OBVIOUS
  <1>2. IsName(n) /\ IsText(w)
    BY <1>1, AssignmentParts
  <1>3. v.name = Cut(n, MAX_VAR_NAME) /\ v.value = Cut(w, MAX_VAR_VALUE)
    BY <1>1 DEF Split
  <1>4. IsText(v.value)
    BY <1>2, <1>3, CutIs, WordsAssumption
  <1>5. PICK vs : vs = set_variable(<<>>, v.name, v.value, FALSE)
    OBVIOUS
  <1>6. vs = <<[name |-> Cut(n, MAX_VAR_NAME), value |-> v.value, exported |-> FALSE]>>
    <2>1. PICK c, u : c = v.name /\ u = v.value
      OBVIOUS
    <2>2. vs = <<[name |-> c, value |-> u, exported |-> FALSE]>>
      BY <1>5, <2>1, FirstVariable
    <2> QED
      BY <1>3, <2>1, <2>2
  <1>7. expand_variables(<<"$">> \o n, vs) = Cut(v.value, ARG_MAX)
    BY <1>2, <1>4, <1>6, NamedVariable
  <1> QED
    BY <1>1, <1>5, <1>7

-----------------------------------------------------------------------------
\* The environment: an entry of the table, written and read.
FitsName(n) == IsName(n) /\ Len(n) < MAX_VAR_NAME
FitsValue(v) == IsText(v) /\ Len(v) < MAX_VAR_VALUE
IsEntry(e) ==
  /\ e = [name |-> e.name, value |-> e.value, exported |-> e.exported]
  /\ e.exported \in BOOLEAN /\ FitsName(e.name) /\ FitsValue(e.value)
Reads(s, n, v) ==
  FirstEquals(s) > 1 /\ Split(s, FirstEquals(s)) = [name |-> n, value |-> v]

LEMMA EntryComesBack ==
    ASSUME NEW e, IsEntry(e)
    PROVE  Reads(EnvString(e), e.name, e.value)
  <1>1. PICK n, v, d : n = e.name /\ v = e.value /\ d = <<"=">>
    OBVIOUS
  <1>2. PICK m, l \in Nat : /\ Long(n, m) /\ Long(v, l) /\ m > 0
                            /\ m < MAX_VAR_NAME /\ l < MAX_VAR_VALUE
                            /\ \A k \in 1 .. m : n[k] # "="
    <2>1. /\ IsText(n) /\ IsText(v) /\ Len(n) > 0 /\ Len(n) < MAX_VAR_NAME
          /\ Len(v) < MAX_VAR_VALUE
      BY <1>1 DEF IsEntry, FitsName, FitsValue, IsName
    <2>2. \A k \in 1 .. Len(n) : n[k] # "="
      <3>1. \A k \in 1 .. Len(n) : n[k] \in Ident
        BY <1>1 DEF IsEntry, FitsName, IsName
      <3>2. "=" \notin Ident
        BY WordsAssumption DEF Ident
      <3> QED
        BY <3>1, <3>2
    <2> QED
      BY <2>1, <2>2 DEF IsText, Long
  <1>3. Long(d, 1) /\ d[1] = "="
    <2>1. d \in Seq({"="}) /\ Len(d) = 1 /\ d[1] = "="
      BY <1>1
    <2> QED
      BY <2>1, SeqIsText DEF Long
  <1>4. PICK a, s : a = n \o d /\ s = a \o v
    OBVIOUS
  <1>5. PICK q, u \in Nat : q = m + 1 /\ u = q + l
    OBVIOUS
  <1>6. Long(a, q) /\ \A k \in 1 .. q : a[k] = IF k <= m THEN n[k] ELSE d[k - m]
    <2>1. Joined(a, n, d, m, 1)
      BY <1>2, <1>3, <1>4, JoinedLengths
    <2> QED
      BY <2>1, <1>5 DEF Joined
  <1>7. Long(s, u) /\ \A k \in 1 .. u : s[k] = IF k <= q THEN a[k] ELSE v[k - q]
    <2>1. Joined(s, a, v, q, l)
      BY <1>2, <1>4, <1>6, JoinedLengths
    <2> QED
      BY <2>1, <1>5 DEF Joined
  <1>8. IsText(s) /\ Len(s) = u /\ IsText(n) /\ Len(n) = m /\ IsText(v) /\ Len(v) = l
    BY <1>2, <1>7 DEF Long
  <1>9. \A k \in 1 .. m : s[k] = n[k]
    <2>1. \A k \in 1 .. m : k \in 1 .. u /\ k <= q /\ k \in 1 .. q
      BY <1>5
    <2> QED
      BY <1>6, <1>7, <2>1
  <1>10. s[q] = "="
    <2>1. q \in 1 .. u /\ q <= q /\ q \in 1 .. q /\ ~(q <= m) /\ q - m = 1
      BY <1>5
    <2> QED
      BY <1>3, <1>6, <1>7, <2>1
  <1>11. EnvString(e) = s
    <2>1. PICK size \in Nat \ {0} : size = MAX_VAR_NAME + MAX_VAR_VALUE + 1
      BY WordsAssumption
    <2>2. Len(s) < size
      <3>1. PICK x, y \in Nat : x = MAX_VAR_NAME /\ y = MAX_VAR_VALUE
        BY WordsAssumption
      <3>2. m < x /\ l < y /\ size = x + y + 1
        BY <1>2, <2>1, <3>1
      <3>3. u < size
        BY <1>5, <3>2
      <3> QED
        BY <1>8, <3>3
    <2>3. Cut(s, size) = s
      BY <1>8, <2>2, CutIs
    <2> QED
      BY <1>1, <1>4, <2>1, <2>3 DEF EnvString
  <1>12. FirstEquals(s) = q
    <2>1. PICK f : f = FirstEquals(s)
      OBVIOUS
    <2>2. \/ f = 0 /\ \A j \in 1 .. u : s[j] # "="
          \/ f \in 1 .. u /\ s[f] = "=" /\ \A j \in 1 .. u : s[j] = "=" => f <= j
      BY <1>8, <2>1, FirstEqualsIs
    <2>3. q \in 1 .. u
      BY <1>5
    <2>4. f \in 1 .. q /\ s[f] = "="
      BY <1>10, <2>2, <2>3
    <2>5. f \notin 1 .. m
      BY <1>2, <1>9, <2>4
    <2> QED
      BY <1>5, <2>1, <2>4, <2>5
  <1>13. Cut(SubSeq(s, 1, m), MAX_VAR_NAME) = n
    <2>1. m \in 0 .. Len(s)
      BY <1>5, <1>8
    <2>2. PICK x : x = SubSeq(s, 1, m)
      OBVIOUS
    <2>3. IsText(x) /\ Len(x) = m /\ \A k \in 1 .. m : x[k] = s[k]
      BY <1>8, <2>1, <2>2, FirstOfString
    <2>4. x = n
      BY <1>8, <1>9, <2>3, SameString
    <2>5. MAX_VAR_NAME \in Nat \ {0}
      BY WordsAssumption
    <2> QED
      BY <1>2, <1>8, <2>2, <2>4, <2>5, CutIs
  <1>14. Cut(SubSeq(s, q + 1, u), MAX_VAR_VALUE) = v
    <2>1. PICK b \in Nat : b = q + 1 /\ b \in 1 .. Len(s) + 1 /\ u \in b - 1 .. Len(s)
      BY <1>5, <1>8
    <2>2. PICK x : x = SubSeq(s, b, u)
      OBVIOUS
    <2>3. u - b + 1 = l
      BY <1>5, <2>1
    <2>4. IsText(x) /\ Len(x) = l /\ \A k \in 1 .. l : x[k] = s[b + k - 1]
      <3>1. /\ IsText(SubSeq(s, b, u)) /\ Len(SubSeq(s, b, u)) = u - b + 1
            /\ \A k \in 1 .. u - b + 1 : SubSeq(s, b, u)[k] = s[b + k - 1]
        BY <1>8, <2>1, PartOfString
      <3> QED
        BY <2>2, <2>3, <3>1
    <2>5. \A k \in 1 .. l : b + k - 1 \in 1 .. u /\ ~(b + k - 1 <= q) /\ (b + k - 1) - q = k
      BY <1>5, <2>1
    <2>6. \A k \in 1 .. l : x[k] = v[k]
      BY <1>7, <2>4, <2>5
    <2>7. x = v
      BY <1>8, <2>4, <2>6, SameString
    <2>8. MAX_VAR_VALUE \in Nat \ {0}
      BY WordsAssumption
    <2> QED
      BY <1>2, <1>8, <2>1, <2>2, <2>7, <2>8, CutIs
  <1>15. q > 1 /\ q - 1 = m
    BY <1>2, <1>5
  <1>16. Split(s, q) = [name |-> n, value |-> v]
    BY <1>8, <1>13, <1>14, <1>15 DEF Split
  <1> QED
    BY <1>1, <1>11, <1>12, <1>15, <1>16 DEF Reads

LEMMA EntryLoaded ==
    ASSUME NEW vs, IsText(vs), Len(vs) < MAX_VARS,
           NEW e, IsEntry(e), e.exported, \A j \in 1 .. Len(vs) : vs[j].name # e.name
    PROVE  LoadEntry(vs, EnvString(e)) = Append(vs, e)
  <1>1. PICK s, n, v : s = EnvString(e) /\ n = e.name /\ v = e.value
    OBVIOUS
  <1>2. FirstEquals(s) > 1 /\ Split(s, FirstEquals(s)) = [name |-> n, value |-> v]
    BY <1>1, EntryComesBack DEF Reads
  <1>3. PICK f : f = FirstEquals(s)
    OBVIOUS
  <1>4. ~(Len(vs) >= MAX_VARS) /\ ~(f <= 1)
    <2>1. f \in Int
      <3>1. PICK I : I = {j \in 1 .. Len(s) : s[j] = "="}
        OBVIOUS
      <3>2. f = IF I # {} THEN Min(I) ELSE 0
        BY <1>3, <3>1 DEF FirstEquals, SelectInSeq
      <3>3. I # {} => Min(I) \in I
        <4>1. I \subseteq Nat
          BY <3>1
        <4> QED
          BY <4>1, LeastIs
      <3> QED
        BY <3>1, <3>2, <3>3
    <2> QED
      BY <1>2, <1>3, <2>1, VarsAssumption DEF IsText
  <1>5. LoadEntry(vs, s) = set_variable(vs, n, v, TRUE)
    <2>1. PICK p : p = Split(s, f)
      OBVIOUS
    <2>2. p.name = n /\ p.value = v
      BY <1>2, <1>3, <2>1
    <2>3. LoadEntry(vs, s) = set_variable(vs, p.name, p.value, TRUE)
      BY <1>3, <1>4, <2>1 DEF LoadEntry
    <2> QED
      BY <2>2, <2>3
  <1>6. find_variable(vs, n) = 0
    <2>1. Len(vs) \in Nat
      BY DEF IsText
    <2> QED
      BY <1>1, <2>1, FoundByName
  <1>7. PICK r : r = [name |-> n, value |-> v, exported |-> TRUE]
    OBVIOUS
  <1>8. r = e
    BY <1>1, <1>7 DEF IsEntry
  <1>9. set_variable(vs, n, v, TRUE) = Append(vs, r)
    <2>1. ~(find_variable(vs, n) > 0)
      BY <1>6
    <2> QED
      BY <1>4, <1>7, <2>1 DEF set_variable
  <1> QED
    BY <1>1, <1>5, <1>8, <1>9

\* The loops of build_environment and of load_environment.
LEMMA BuiltInSteps ==
    ASSUME NEW n \in Nat, NEW vs, Len(vs) = n, NEW g, g[0] = <<>>,
           \A k \in 1 .. n : g[k] = NextEntry(g[k - 1], vs[k])
    PROVE  build_environment(vs) = g[n]
  <1> DEFINE Eq(h) == h = [k \in 0 .. n |-> IF k = 0 THEN <<>> ELSE NextEntry(h[k - 1], vs[k])]
             after == CHOOSE h : Eq(h)
  <1>1. build_environment(vs) = after[n]
    BY DEF build_environment
  <1>2. PICK f : f = [k \in 0 .. n |-> g[k]]
    OBVIOUS
  <1>3. \A k \in 0 .. n : (k # 0 => k \in 1 .. n /\ k - 1 \in 0 .. n)
    OBVIOUS
  <1>4. \A k \in 0 .. n : f[k] = IF k = 0 THEN <<>> ELSE NextEntry(f[k - 1], vs[k])
    BY <1>2, <1>3
  <1>5. Eq(f)
    BY <1>2, <1>4
  <1>6. Eq(after)
    <2> HIDE DEF Eq
    <2> QED
      BY <1>5
  <1> HIDE DEF after
  <1>7. /\ after[0] = <<>>
        /\ \A k \in 1 .. n : after[k] = NextEntry(after[k - 1], vs[k])
    <2>1. \A k \in 1 .. n : k \in 0 .. n /\ k # 0
      OBVIOUS
    <2>2. 0 \in 0 .. n
      OBVIOUS
    <2> QED
      BY <1>6, <2>1, <2>2
  <1> HIDE DEF Eq
  <1> DEFINE T == {k \in 0 .. n : after[k] = g[k]}
  <1>8. 0 \in T
    BY <1>7
  <1>9. \A k \in 1 .. n : k - 1 \in T => k \in T
    BY <1>7
  <1>10. n \in T
    <2>1. n \in 0 .. n
      OBVIOUS
    <2> HIDE DEF T
    <2> QED
      BY <1>8, <1>9, <2>1, CountUp
  <1> QED
    BY <1>1, <1>10

LEMMA LoadedInSteps ==
    ASSUME NEW n \in Nat, NEW envp, Len(envp) = n, NEW g, g[0] = <<>>,
           \A k \in 1 .. n : g[k] = LoadEntry(g[k - 1], envp[k])
    PROVE  load_environment(envp) = g[n]
  <1> DEFINE Eq(h) == h = [k \in 0 .. n |-> IF k = 0 THEN <<>> ELSE LoadEntry(h[k - 1], envp[k])]
             after == CHOOSE h : Eq(h)
  <1>1. load_environment(envp) = after[n]
    BY DEF load_environment
  <1>2. PICK f : f = [k \in 0 .. n |-> g[k]]
    OBVIOUS
  <1>3. \A k \in 0 .. n : (k # 0 => k \in 1 .. n /\ k - 1 \in 0 .. n)
    OBVIOUS
  <1>4. \A k \in 0 .. n : f[k] = IF k = 0 THEN <<>> ELSE LoadEntry(f[k - 1], envp[k])
    BY <1>2, <1>3
  <1>5. Eq(f)
    BY <1>2, <1>4
  <1>6. Eq(after)
    <2> HIDE DEF Eq
    <2> QED
      BY <1>5
  <1> HIDE DEF after
  <1>7. /\ after[0] = <<>>
        /\ \A k \in 1 .. n : after[k] = LoadEntry(after[k - 1], envp[k])
    <2>1. \A k \in 1 .. n : k \in 0 .. n /\ k # 0
      OBVIOUS
    <2>2. 0 \in 0 .. n
      OBVIOUS
    <2> QED
      BY <1>6, <2>1, <2>2
  <1> HIDE DEF Eq
  <1> DEFINE T == {k \in 0 .. n : after[k] = g[k]}
  <1>8. 0 \in T
    BY <1>7
  <1>9. \A k \in 1 .. n : k - 1 \in T => k \in T
    BY <1>7
  <1>10. n \in T
    <2>1. n \in 0 .. n
      OBVIOUS
    <2> HIDE DEF T
    <2> QED
      BY <1>8, <1>9, <2>1, CountUp
  <1> QED
    BY <1>1, <1>10

\* A table of variables.
EnvTable(vs) ==
  /\ IsText(vs) /\ Len(vs) <= MAX_VARS
  /\ \A j \in 1 .. Len(vs) : IsEntry(vs[j])
  /\ \A i, j \in 1 .. Len(vs) : vs[i].name = vs[j].name => i = j
AllExported(vs) == \A j \in 1 .. Len(vs) : vs[j].exported

\* The strings of a table, as many as have been written.
StringsOf(vs, k) == [j \in 1 .. k |-> EnvString(vs[j])]

LEMMA StringWritten ==
    ASSUME NEW vs, NEW k \in Nat \ {0}, vs[k].exported
    PROVE  StringsOf(vs, k) = NextEntry(StringsOf(vs, k - 1), vs[k])
  <1>1. PICK i \in Nat : i = k - 1
    OBVIOUS
  <1>2. PICK s, t, e : s = StringsOf(vs, i) /\ t = StringsOf(vs, k) /\ e = EnvString(vs[k])
    OBVIOUS
  <1>3. IsText(s) /\ Len(s) = i /\ \A j \in 1 .. i : s[j] = EnvString(vs[j])
    <2>1. s = [j \in 1 .. i |-> s[j]] /\ \A j \in 1 .. i : s[j] = EnvString(vs[j])
      BY <1>2 DEF StringsOf
    <2> QED
      BY <2>1, GivenString
  <1>4. IsText(t) /\ Len(t) = k /\ \A j \in 1 .. k : t[j] = EnvString(vs[j])
    <2>1. t = [j \in 1 .. k |-> t[j]] /\ \A j \in 1 .. k : t[j] = EnvString(vs[j])
      BY <1>2 DEF StringsOf
    <2> QED
      BY <2>1, GivenString
  <1>5. PICK u : u = Append(s, e)
    OBVIOUS
  <1>6. /\ IsText(u) /\ Len(u) = i + 1 /\ u[i + 1] = e
        /\ \A j \in 1 .. i : u[j] = s[j]
    BY <1>3, <1>5, AppendedString
  <1>7. \A j \in 1 .. k : j \in 1 .. i \/ j = i + 1
    BY <1>1
  <1>8. \A j \in 1 .. k : u[j] = t[j]
    BY <1>1, <1>2, <1>3, <1>4, <1>6, <1>7
  <1>9. Len(u) = k
    BY <1>1, <1>6
  <1>10. u = t
    BY <1>4, <1>6, <1>8, <1>9, SameString
  <1> QED
    BY <1>1, <1>2, <1>5, <1>10 DEF NextEntry

\* What is written of a table, all of whose entries are exported.
LEMMA TableWritten ==
    ASSUME NEW n \in Nat, NEW vs, Len(vs) = n, AllExported(vs)
    PROVE  build_environment(vs) = StringsOf(vs, n)
  <1>1. PICK g : g = [k \in 0 .. n |-> StringsOf(vs, k)]
    OBVIOUS
  <1>2. g[0] = <<>>
    <2>1. PICK s : s = StringsOf(vs, 0)
      OBVIOUS
    <2>2. s = [j \in 1 .. 0 |-> s[j]]
      BY <2>1 DEF StringsOf
    <2>3. IsText(s) /\ Len(s) = 0
      BY <2>2, GivenString
    <2>4. PICK e : e = <<>>
      OBVIOUS
    <2>5. s = e
      <3>1. IsText(e) /\ Len(s) = Len(e) /\ \A k \in 1 .. Len(s) : s[k] = e[k]
        BY <2>3, <2>4, EmptyString
      <3> QED
        BY <2>3, <3>1, SameString
    <2> QED
      BY <1>1, <2>1, <2>4, <2>5
  <1>3. \A k \in 1 .. n : g[k] = NextEntry(g[k - 1], vs[k])
    <2> TAKE k \in 1 .. n
    <2>1. vs[k].exported
      BY DEF AllExported
    <2>2. StringsOf(vs, k) = NextEntry(StringsOf(vs, k - 1), vs[k])
      BY <2>1, StringWritten
    <2> QED
      BY <1>1, <2>2
  <1>4. build_environment(vs) = g[n]
    BY <1>2, <1>3, BuiltInSteps
  <1> QED
    BY <1>1, <1>4

\* An entry that is not exported is not written.
LEMMA EntryKept ==
    ASSUME NEW vs, IsText(vs), AllExported(vs), NEW e, e.exported = FALSE
    PROVE  build_environment(Append(vs, e)) = build_environment(vs)
  <1>1. PICK n, m \in Nat : n = Len(vs) /\ m = n + 1
    BY DEF IsText
  <1>2. PICK ws : ws = Append(vs, e)
    OBVIOUS
  <1>3. Len(ws) = m /\ ws[m] = e /\ \A k \in 1 .. n : ws[k] = vs[k]
    BY <1>1, <1>2, AppendedString
  <1>4. PICK g : g = [k \in 0 .. m |-> IF k = m THEN StringsOf(vs, n) ELSE StringsOf(vs, k)]
    OBVIOUS
  <1>5. g[0] = <<>>
    <2>1. PICK s : s = StringsOf(vs, 0)
      OBVIOUS
    <2>2. s = [j \in 1 .. 0 |-> s[j]]
      BY <2>1 DEF StringsOf
    <2>3. IsText(s) /\ Len(s) = 0
      BY <2>2, GivenString
    <2>4. PICK x : x = <<>>
      OBVIOUS
    <2>5. s = x
      <3>1. IsText(x) /\ Len(s) = Len(x) /\ \A k \in 1 .. Len(s) : s[k] = x[k]
        BY <2>3, <2>4, EmptyString
      <3> QED
        BY <2>3, <3>1, SameString
    <2>6. 0 \in 0 .. m /\ 0 # m
      BY <1>1
    <2> QED
      BY <1>4, <2>1, <2>4, <2>5, <2>6
  <1>6. \A k \in 1 .. n : g[k] = NextEntry(g[k - 1], ws[k])
    <2> TAKE k \in 1 .. n
    <2>1. vs[k].exported
      BY <1>1 DEF AllExported
    <2>2. StringsOf(vs, k) = NextEntry(StringsOf(vs, k - 1), vs[k])
      BY <2>1, StringWritten
    <2>3. k \in 0 .. m /\ k # m /\ k - 1 \in 0 .. m /\ k - 1 # m
      BY <1>1
    <2> QED
      BY <1>3, <1>4, <2>2, <2>3
  <1>7. g[m] = NextEntry(g[m - 1], ws[m])
    <2>1. m \in 0 .. m /\ m - 1 \in 0 .. m /\ m - 1 # m /\ m - 1 = n
      BY <1>1
    <2>2. g[m] = StringsOf(vs, n) /\ g[m - 1] = StringsOf(vs, n)
      BY <1>4, <2>1
    <2> QED
      BY <1>3, <2>2 DEF NextEntry
  <1>8. \A k \in 1 .. m : k \in 1 .. n \/ k = m
    BY <1>1
  <1>9. build_environment(ws) = g[m]
    <2>1. \A k \in 1 .. m : g[k] = NextEntry(g[k - 1], ws[k])
      BY <1>6, <1>7, <1>8
    <2> QED
      BY <1>3, <1>5, <2>1, BuiltInSteps
  <1>10. build_environment(vs) = StringsOf(vs, n)
    BY <1>1, TableWritten
  <1>11. g[m] = StringsOf(vs, n)
    <2>1. m \in 0 .. m
      OBVIOUS
    <2> QED
      BY <1>4, <2>1
  <1> QED
    BY <1>2, <1>9, <1>10, <1>11

\* What a shell writes of such a table, the shell it starts reads back.
LEMMA TableComesBack ==
    ASSUME NEW vs, EnvTable(vs), AllExported(vs)
    PROVE  load_environment(build_environment(vs)) = vs
  <1>1. PICK n \in Nat : n = Len(vs)
    BY DEF EnvTable, IsText
  <1>2. /\ IsText(vs) /\ n <= MAX_VARS
        /\ \A j \in 1 .. n : IsEntry(vs[j]) /\ vs[j].exported
        /\ \A i, j \in 1 .. n : vs[i].name = vs[j].name => i = j
    BY <1>1 DEF EnvTable, AllExported
  <1>3. PICK envp : envp = StringsOf(vs, n)
    OBVIOUS
  <1>4. build_environment(vs) = envp
    BY <1>1, <1>3, TableWritten
  <1>5. Len(envp) = n /\ \A j \in 1 .. n : envp[j] = EnvString(vs[j])
    <2>1. envp = [j \in 1 .. n |-> envp[j]] /\ \A j \in 1 .. n : envp[j] = EnvString(vs[j])
      BY <1>3 DEF StringsOf
    <2> QED
      BY <2>1, GivenString
  <1>6. PICK g : g = [k \in 0 .. n |-> [j \in 1 .. k |-> vs[j]]]
    OBVIOUS
  <1>7. \A k \in 0 .. n : IsText(g[k]) /\ Len(g[k]) = k /\ \A j \in 1 .. k : g[k][j] = vs[j]
    <2> TAKE k \in 0 .. n
    <2>1. PICK s : s = g[k]
      OBVIOUS
    <2>2. s = [j \in 1 .. k |-> vs[j]]
      BY <1>6, <2>1
    <2>3. s = [j \in 1 .. k |-> s[j]] /\ \A j \in 1 .. k : s[j] = vs[j]
      BY <2>2
    <2>4. IsText(s) /\ Len(s) = k
      BY <2>3, GivenString
    <2> QED
      BY <2>1, <2>3, <2>4
  <1>8. g[0] = <<>>
    <2>1. PICK s, x : s = g[0] /\ x = <<>>
      OBVIOUS
    <2>2. IsText(s) /\ Len(s) = 0
      BY <1>7, <2>1
    <2>3. IsText(x) /\ Len(s) = Len(x) /\ \A k \in 1 .. Len(s) : s[k] = x[k]
      BY <2>1, <2>2, EmptyString
    <2>4. s = x
      BY <2>2, <2>3, SameString
    <2> QED
      BY <2>1, <2>4
  <1>9. ASSUME NEW k \in 1 .. n PROVE g[k] = LoadEntry(g[k - 1], envp[k])
    <2>1. PICK i \in 0 .. n : i = k - 1
      OBVIOUS
    <2>2. PICK s, t, e : s = g[i] /\ t = g[k] /\ e = vs[k]
      OBVIOUS
    <2>3. IsText(s) /\ Len(s) = i /\ \A j \in 1 .. i : s[j] = vs[j]
      BY <1>7, <2>2
    <2>4. IsText(t) /\ Len(t) = k /\ \A j \in 1 .. k : t[j] = vs[j]
      BY <1>7, <2>2
    <2>5. IsEntry(e) /\ e.exported
      BY <1>2, <2>2
    <2>6. Len(s) < MAX_VARS
      BY <1>2, <2>1, <2>3, VarsAssumption
    <2>7. \A j \in 1 .. Len(s) : s[j].name # e.name
      <3>1. \A j \in 1 .. i : j \in 1 .. n /\ j # k
        BY <2>1
      <3> QED
        BY <1>2, <2>2, <2>3, <3>1
    <2>8. LoadEntry(s, EnvString(e)) = Append(s, e)
      BY <2>3, <2>5, <2>6, <2>7, EntryLoaded
    <2>9. PICK u : u = Append(s, e)
      OBVIOUS
    <2>10. /\ IsText(u) /\ Len(u) = i + 1 /\ u[i + 1] = e
           /\ \A j \in 1 .. i : u[j] = s[j]
      BY <2>3, <2>9, AppendedString
    <2>11. \A j \in 1 .. k : j \in 1 .. i \/ j = i + 1
      BY <2>1
    <2>12. Len(u) = k /\ k = i + 1
      BY <2>1, <2>10
    <2>13. \A j \in 1 .. k : u[j] = t[j]
      BY <2>2, <2>3, <2>4, <2>10, <2>11, <2>12
    <2>14. u = t
      BY <2>4, <2>10, <2>12, <2>13, SameString
    <2> QED
      BY <1>5, <2>1, <2>2, <2>8, <2>9, <2>14
  <1>10. load_environment(envp) = g[n]
    BY <1>5, <1>8, <1>9, LoadedInSteps
  <1>11. g[n] = vs
    <2>1. PICK s : s = g[n]
      OBVIOUS
    <2>2. IsText(s) /\ Len(s) = n /\ \A j \in 1 .. n : s[j] = vs[j]
      BY <1>7, <2>1
    <2>3. s = vs
      BY <1>1, <1>2, <2>2, SameString
    <2> QED
      BY <2>1, <2>3
  <1> QED
    BY <1>4, <1>10, <1>11

\* A table with an entry assigned, and with an entry more.
WithValue(e, v, c) == [e EXCEPT !.value = v, !.exported = c]

LEMMA EnvEntryAssigned ==
    ASSUME NEW e, IsEntry(e), NEW v, FitsValue(v), NEW c \in BOOLEAN
    PROVE  /\ IsEntry(WithValue(e, v, c)) /\ WithValue(e, v, c).name = e.name
           /\ WithValue(e, v, c).exported = c
  <1>1. PICK n, w, y : n = e.name /\ w = e.value /\ y = e.exported
    OBVIOUS
  <1>2. e = [name |-> n, value |-> w, exported |-> y] /\ FitsName(n)
    BY <1>1 DEF IsEntry
  <1>3. PICK z : z = [e EXCEPT !.value = v, !.exported = c]
    OBVIOUS
  <1>4. DOMAIN e = {"name", "value", "exported"}
    BY <1>2
  <1>5. DOMAIN z = {"name", "value", "exported"} /\ z = [k \in DOMAIN z |-> z[k]]
    BY <1>3, <1>4
  <1>6. z.name = n /\ z.value = v /\ z.exported = c
    BY <1>1, <1>3, <1>4
  <1>7. z = [name |-> n, value |-> v, exported |-> c]
    BY <1>5, <1>6
  <1>8. z = [name |-> z.name, value |-> z.value, exported |-> z.exported]
    BY <1>6, <1>7
  <1>9. IsEntry(z)
    BY <1>2, <1>6, <1>8 DEF IsEntry
  <1> QED
    BY <1>1, <1>3, <1>6, <1>9 DEF WithValue

LEMMA EnvTableAssigned ==
    ASSUME NEW vs, EnvTable(vs), NEW i \in 1 .. Len(vs), NEW v, FitsValue(v),
           NEW x \in BOOLEAN, NEW ws,
           ws = [vs EXCEPT ![i].value = v, ![i].exported = @ \/ x]
    PROVE  EnvTable(ws) /\ (AllExported(vs) => AllExported(ws))
  <1>1. PICK n \in Nat : n = Len(vs)
    BY DEF EnvTable, IsText
  <1>2. /\ IsText(vs) /\ n <= MAX_VARS
        /\ \A j \in 1 .. n : IsEntry(vs[j])
        /\ \A j, k \in 1 .. n : vs[j].name = vs[k].name => j = k
    BY <1>1 DEF EnvTable
  <1>3. PICK r : r = [vs[i] EXCEPT !.value = v, !.exported = @ \/ x]
    OBVIOUS
  <1>4. IsEntry(r) /\ r.name = vs[i].name /\ (vs[i].exported \/ x => r.exported)
    <2>1. PICK e : e = vs[i] /\ IsEntry(e)
      BY <1>1, <1>2
    <2>2. e.exported \in BOOLEAN
      BY <2>1 DEF IsEntry
    <2>3. PICK c \in BOOLEAN : c = (e.exported \/ x)
      BY <2>2
    <2>4. PICK z : z = WithValue(e, v, c) /\ IsEntry(z) /\ z.name = e.name /\ z.exported = c
      BY <2>1, EnvEntryAssigned
    <2>5. r = z
      BY <1>3, <2>1, <2>3, <2>4 DEF WithValue
    <2> QED
      BY <2>1, <2>3, <2>4, <2>5
  <1>5. DOMAIN vs = 1 .. n
    BY <1>1, <1>2 DEF IsText
  <1>6. ws = [vs EXCEPT ![i] = r]
    BY <1>1, <1>3, <1>5
  <1>7. /\ ws = [k \in 1 .. n |-> ws[k]]
        /\ \A k \in 1 .. n : ws[k] = IF k = i THEN r ELSE vs[k]
    BY <1>1, <1>5, <1>6
  <1>8. IsText(ws) /\ Len(ws) = n
    BY <1>7, GivenString
  <1>9. \A k \in 1 .. n : IsEntry(ws[k]) /\ ws[k].name = vs[k].name
    BY <1>2, <1>4, <1>7
  <1>10. AllExported(vs) => AllExported(ws)
    BY <1>1, <1>4, <1>7, <1>8 DEF AllExported
  <1>11. EnvTable(ws)
    BY <1>2, <1>8, <1>9 DEF EnvTable
  <1> QED
    BY <1>10, <1>11

LEMMA EnvTableAppended ==
    ASSUME NEW vs, EnvTable(vs), Len(vs) < MAX_VARS, NEW e, IsEntry(e),
           \A j \in 1 .. Len(vs) : vs[j].name # e.name, NEW ws, ws = Append(vs, e)
    PROVE  EnvTable(ws) /\ (AllExported(vs) /\ e.exported => AllExported(ws))
  <1>1. PICK n, m \in Nat : n = Len(vs) /\ m = n + 1
    BY DEF EnvTable, IsText
  <1>2. /\ IsText(vs) /\ \A j \in 1 .. n : IsEntry(vs[j])
        /\ \A j, k \in 1 .. n : vs[j].name = vs[k].name => j = k
        /\ \A j \in 1 .. n : vs[j].name # e.name
    BY <1>1 DEF EnvTable
  <1>3. /\ IsText(ws) /\ Len(ws) = m /\ ws[m] = e
        /\ \A k \in 1 .. n : ws[k] = vs[k]
    BY <1>1, <1>2, AppendedString
  <1>4. \A k \in 1 .. m : k \in 1 .. n \/ k = m
    BY <1>1
  <1>5. m <= MAX_VARS
    BY <1>1, VarsAssumption
  <1>6. \A k \in 1 .. m : IsEntry(ws[k])
    BY <1>2, <1>3, <1>4
  <1>7. \A j, k \in 1 .. m : ws[j].name = ws[k].name => j = k
    BY <1>2, <1>3, <1>4
  <1>8. AllExported(vs) /\ e.exported => AllExported(ws)
    BY <1>1, <1>3, <1>4 DEF AllExported
  <1>9. EnvTable(ws)
    BY <1>3, <1>5, <1>6, <1>7 DEF EnvTable
  <1> QED
    BY <1>8, <1>9

\* What an assignment to a table, all of whose entries are exported, hands on:
\* the table, or nothing of the new entry if that is not exported.
LEMMA TableHandedOn ==
    ASSUME NEW vs, EnvTable(vs), AllExported(vs), NEW n, FitsName(n), NEW v, FitsValue(v),
           NEW x \in BOOLEAN, NEW ws, ws = set_variable(vs, n, v, x)
    PROVE  load_environment(build_environment(ws))
             = IF x \/ find_variable(vs, n) > 0 THEN ws ELSE vs
  <1>1. PICK i : i = find_variable(vs, n)
    OBVIOUS
  <1>2. \/ i = 0 /\ \A j \in 1 .. Len(vs) : vs[j].name # n
        \/ i \in 1 .. Len(vs) /\ i > 0
    <2>1. Len(vs) \in Nat
      BY DEF EnvTable, IsText
    <2> QED
      BY <1>1, <2>1, FoundByName
  <1>3. CASE i \in 1 .. Len(vs) /\ i > 0
    <2>1. ws = [vs EXCEPT ![i].value = v, ![i].exported = @ \/ x]
      BY <1>1, <1>3 DEF set_variable
    <2>2. EnvTable(ws) /\ AllExported(ws)
      BY <1>3, <2>1, EnvTableAssigned
    <2> QED
      BY <1>1, <1>3, <2>2, TableComesBack
  <1>4. CASE i = 0 /\ Len(vs) >= MAX_VARS
    <2>1. ws = vs
      BY <1>1, <1>4 DEF set_variable
    <2> QED
      BY <2>1, TableComesBack
  <1>5. CASE i = 0 /\ ~(Len(vs) >= MAX_VARS)
    <2>1. PICK e : e = [name |-> n, value |-> v, exported |-> x]
      OBVIOUS
    <2>2. ws = Append(vs, e)
      BY <1>1, <1>5, <2>1 DEF set_variable
    <2>3. e.name = n /\ e.value = v /\ e.exported = x
      BY <2>1
    <2>4. IsEntry(e)
      BY <2>1, <2>3 DEF IsEntry
    <2>5. CASE x
      <3>1. \A j \in 1 .. Len(vs) : vs[j].name # e.name
        BY <1>2, <1>5, <2>3
      <3>2. Len(vs) < MAX_VARS
        BY <1>5, VarsAssumption DEF EnvTable, IsText
      <3>3. EnvTable(ws) /\ AllExported(ws)
        BY <2>2, <2>3, <2>4, <2>5, <3>1, <3>2, EnvTableAppended
      <3> QED
        BY <2>5, <3>3, TableComesBack
    <2>6. CASE ~x
      <3>1. e.exported = FALSE
        BY <2>3, <2>6
      <3>2. build_environment(ws) = build_environment(vs)
        BY <2>2, <3>1, EntryKept DEF EnvTable
      <3>3. ~(find_variable(vs, n) > 0)
        BY <1>1, <1>5
      <3> QED
        BY <2>6, <3>2, <3>3, TableComesBack
    <2> QED
      BY <2>5, <2>6
  <1> QED
    BY <1>2, <1>3, <1>4, <1>5

LEMMA SplitFits ==
    ASSUME NEW s, IsText(s), parse_assignment(s), NEW v, v = Split(s, FirstEquals(s))
    PROVE  FitsName(v.name) /\ FitsValue(v.value)
  <1>1. PICK eq, n, w : /\ eq = FirstEquals(s) /\ n = SubSeq(s, 1, eq - 1)
                        /\ w = SubSeq(s, eq + 1, Len(s))
    OBVIOUS
  <1>2. IsName(n) /\ IsText(w)
    BY <1>1, AssignmentParts
  <1>3. v.name = Cut(n, MAX_VAR_NAME) /\ v.value = Cut(w, MAX_VAR_VALUE)
    BY <1>1 DEF Split
  <1>4. PICK l, m, a, b \in Nat : /\ l = Len(n) /\ m = Len(w)
                                  /\ a + 1 = MAX_VAR_NAME /\ b + 1 = MAX_VAR_VALUE /\ a > 0
    <2>1. PICK x, y \in Nat : x = MAX_VAR_NAME /\ y = MAX_VAR_VALUE /\ x > 1 /\ y > 1
      BY WordsAssumption
    <2>2. x - 1 \in Nat /\ (x - 1) + 1 = x /\ x - 1 > 0 /\ y - 1 \in Nat /\ (y - 1) + 1 = y
      BY <2>1
    <2> QED
      BY <1>2, <2>1, <2>2 DEF IsName, IsText
  <1>5. PICK c, d : c = Cut(n, MAX_VAR_NAME) /\ d = Cut(w, MAX_VAR_VALUE)
    OBVIOUS
  <1>6. Fitted(c, n, l, a)
    <2>1. Long(n, l) /\ MAX_VAR_NAME \in Nat \ {0} /\ a = MAX_VAR_NAME - 1
      BY <1>2, <1>4, WordsAssumption DEF Long, IsName
    <2> QED
      BY <1>5, <2>1, CutLengths
  <1>7. Fitted(d, w, m, b)
    <2>1. Long(w, m) /\ MAX_VAR_VALUE \in Nat \ {0} /\ b = MAX_VAR_VALUE - 1
      BY <1>2, <1>4, WordsAssumption DEF Long
    <2> QED
      BY <1>5, <2>1, CutLengths
  <1>8. FitsValue(d)
    BY <1>4, <1>7 DEF FitsValue, Fitted, Long
  <1>9. IsText(c) /\ Len(c) > 0 /\ Len(c) <= l /\ Len(c) <= a /\ \A k \in 1 .. Len(c) : c[k] = n[k]
    <2>1. l > 0
      BY <1>2, <1>4 DEF IsName
    <2> QED
      BY <1>4, <1>6, <2>1 DEF Fitted, Long
  <1>10. c[1] \in Letters /\ \A k \in 1 .. Len(c) : c[k] \in Ident
    <2>1. 1 \in 1 .. Len(c) /\ \A k \in 1 .. Len(c) : k \in 1 .. l
      BY <1>4, <1>9
    <2> QED
      BY <1>2, <1>4, <1>9, <2>1 DEF IsName
  <1>11. FitsName(c)
    BY <1>4, <1>9, <1>10 DEF FitsName, IsName
  <1> QED
    BY <1>3, <1>5, <1>8, <1>11

LEMMA OneVariableIs ==
    /\ EnvTable(OneVariable) /\ AllExported(OneVariable) /\ HasStrings(OneVariable)
    /\ \A n : find_variable(OneVariable, n) > 0 <=> n = OneVariable[1].name
  <1>1. PICK a \in Letters : a = CHOOSE c \in Letters : TRUE
    BY WordsAssumption
  <1>2. PICK n, e, vs : n = <<a>> /\ e = [name |-> n, value |-> Value, exported |-> TRUE]
                        /\ vs = <<e>>
    OBVIOUS
  <1>3. OneVariable = vs
    BY <1>1, <1>2 DEF OneVariable
  <1>4. IsText(n) /\ Len(n) = 1 /\ n[1] = a
    <2>1. n \in Seq({a}) /\ Len(n) = 1 /\ n[1] = a
      BY <1>2
    <2> QED
      BY <2>1, SeqIsText
  <1>5. FitsName(n)
    <2>1. \A k \in 1 .. 1 : k = 1
      OBVIOUS
    <2>2. 1 < MAX_VAR_NAME /\ 1 > 0
      BY WordsAssumption
    <2> QED
      BY <1>4, <2>1, <2>2 DEF FitsName, IsName, Ident
  <1>6. IsEntry(e) /\ e.name = n /\ e.exported /\ e.value = Value
    <2>1. e.name = n /\ e.exported = TRUE /\ e.value = Value
      BY <1>2
    <2>2. FitsValue(Value)
      BY GivenTexts, WordsAssumption DEF FitsValue
    <2> QED
      BY <1>2, <1>5, <2>1, <2>2 DEF IsEntry
  <1>7. IsText(vs) /\ Len(vs) = 1 /\ vs[1] = e
    <2>1. vs \in Seq({e}) /\ Len(vs) = 1 /\ vs[1] = e
      BY <1>2
    <2> QED
      BY <2>1, SeqIsText
  <1>8. \A j \in 1 .. Len(vs) : j = 1
    BY <1>7
  <1>9. EnvTable(vs) /\ AllExported(vs) /\ HasStrings(vs)
    <2>1. 1 <= MAX_VARS
      BY VarsAssumption
    <2>2. IsText(Value)
      BY GivenTexts
    <2> QED
      BY <1>6, <1>7, <1>8, <2>1, <2>2 DEF EnvTable, AllExported, HasStrings
  <1>10. ASSUME NEW x PROVE find_variable(vs, x) > 0 <=> x = vs[1].name
    <2>1. PICK i : i = find_variable(vs, x)
      OBVIOUS
    <2>2. Len(vs) \in Nat /\ 1 \in 1 .. Len(vs)
      BY <1>7
    <2>3. \/ i = 0 /\ \A j \in 1 .. Len(vs) : vs[j].name # x
          \/ i \in 1 .. Len(vs) /\ i > 0 /\ vs[i].name = x
      BY <2>1, <2>2, FoundByName
    <2> QED
      BY <1>8, <2>1, <2>2, <2>3
  <1> QED
    BY <1>3, <1>9, <1>10

\* The words of a line, the expansion of its variables, what an assignment
\* sets and what a shell hands to a shell it starts, for every line and every
\* size of the buffers (parse_arguments, expand_variables, parse_assignment,
\* build_environment, load_environment).
THEOREM WordsAreCorrect == WordsSpec => []WordsCorrect
  <1> DEFINE Inv == text \in Seq(Alphabet)
  <1>1. WordsInit => Inv
    BY DEF WordsInit
  <1>2. Inv /\ [WordsNext]_text => Inv'
    BY AppendProperties DEF WordsNext, TypeChar
  <1>3. Inv => WordsCorrect
    <2> SUFFICES ASSUME IsText(text) PROVE WordsCorrect
      BY SeqIsText
    <2>1. WordsAreWords
      BY ParsedAreWords, WordsAssumption DEF WordsAreWords
    <2>2. ExpansionIsCut
      BY ExpandedIsCut, OneVariableIs DEF ExpansionIsCut
    <2>3. AssignedIsExpanded
      BY AssignmentExpanded DEF AssignedIsExpanded
    <2>4. EnvironmentArrives
      <3> SUFFICES ASSUME parse_assignment(text), NEW v, v = Split(text, FirstEquals(text)),
                          NEW x \in BOOLEAN, NEW ws,
                          ws = set_variable(OneVariable, v.name, v.value, x)
                   PROVE  load_environment(build_environment(ws))
                            = IF x \/ v.name = OneVariable[1].name THEN ws ELSE OneVariable
        BY DEF EnvironmentArrives
      <3>1. FitsName(v.name) /\ FitsValue(v.value)
        BY SplitFits
      <3> QED
        BY <3>1, OneVariableIs, TableHandedOn
    <2> QED
      BY <2>1, <2>2, <2>3, <2>4 DEF WordsCorrect
  <1> QED
    BY <1>1, <1>2, <1>3, PTL DEF WordsSpec
=============================================================================
