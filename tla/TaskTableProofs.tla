-------------------------- MODULE TaskTableProofs --------------------------
(***************************************************************************)
(* Proofs about the task table, for every table size, counter width and    *)
(* number of generations that TableAssumption allows.                      *)
(***************************************************************************)
EXTENDS TaskTable, CounterLemmas, FiniteSetTheorems, SequenceTheorems

---------------------------------------------------------------------------
(* The counters.                                                           *)

LEMMA RingWrap ==
    ASSUME NEW x \in Int, NEW j \in Int
    PROVE  RingIndex((x % COUNTER_MOD) + j) = RingIndex(x + j)
  <1>1. /\ MAX_PROCESS_CNT \in Nat \ {0} /\ COUNTER_MOD \in Nat \ {0}
        /\ COUNTER_MOD % MAX_PROCESS_CNT = 0
    BY TableAssumption
  <1> QED
    BY <1>1, ModOfMod DEF RingIndex

LEMMA Counters ==
    ASSUME NEW h \in 0 .. COUNTER_MOD - 1, NEW t \in 0 .. COUNTER_MOD - 1
    PROVE  LET c == (t - h) % COUNTER_MOD
           IN  /\ c \in 0 .. COUNTER_MOD - 1
               /\ c = 0 <=> h = t
               /\ t = (h + c) % COUNTER_MOD
               /\ c >= 1 => (t - ((h + 1) % COUNTER_MOD)) % COUNTER_MOD = c - 1
               /\ c < COUNTER_MOD - 1 =>
                    (((t + 1) % COUNTER_MOD) - h) % COUNTER_MOD = c + 1
  <1>1. COUNTER_MOD \in Nat \ {0}
    BY TableAssumption
  <1> QED
    BY <1>1, CounterPair

---------------------------------------------------------------------------
(* The operations.                                                         *)

\* What every operation on the table preserves.
TableInv(tt) == tt \in TableType /\ FreeRingExact(tt) /\ PidsOwn(tt)

\* A pid gives its slot back, whatever its generation.
LEMMA PidSlot ==
    ASSUME NEW g \in Generations, NEW s \in Slots
    PROVE  PidOf(g, s) \in Nat /\ SlotOf(PidOf(g, s)) = s
  <1> DEFINE n == MAX_PROCESS_CNT
  <1>1. n \in Nat \ {0} /\ s \in 0 .. n - 1 /\ g \in Nat
    BY TableAssumption DEF Slots, Generations
  <1> HIDE DEF n
  <1>2. (n * g + s) % n = s
    BY <1>1, ModUnique
  <1>3. n * g = g * n /\ n * g + s \in Nat
    BY <1>1
  <1> QED
    BY <1>2, <1>3 DEF PidOf, SlotOf, n

\* The ring positions of the free slots.
LEMMA FreeSeqElements ==
    ASSUME NEW tt \in TableType, FreeCount(tt) \in 0 .. MAX_PROCESS_CNT
    PROVE  /\ FreeSeq(tt) \in Seq(Slots)
           /\ Len(FreeSeq(tt)) = FreeCount(tt)
           /\ \A i \in 1 .. FreeCount(tt) :
                /\ RingIndex(tt.free_head + i - 1) \in Slots
                /\ FreeSeq(tt)[i] = tt.free_ring[RingIndex(tt.free_head + i - 1)]
                /\ FreeSeq(tt)[i] \in Slots
  <1>1. tt.free_head \in Int /\ tt.free_ring \in [Slots -> Slots]
    BY TableAssumption DEF TableType
  <1>2. \A x \in Int : RingIndex(x) \in Slots
    BY TableAssumption, DivMod DEF RingIndex, Slots
  <1>3. \A i \in 1 .. FreeCount(tt) :
          /\ RingIndex(tt.free_head + i - 1) \in Slots
          /\ FreeSeq(tt)[i] = tt.free_ring[RingIndex(tt.free_head + i - 1)]
          /\ FreeSeq(tt)[i] \in Slots
    BY <1>1, <1>2 DEF FreeSeq
  <1>4. FreeCount(tt) \in Nat
    BY TableAssumption
  <1>5. FreeSeq(tt) \in [1 .. FreeCount(tt) -> Slots]
    BY <1>1, <1>3 DEF FreeSeq
  <1> QED
    BY <1>3, <1>4, <1>5, SMT

\* task_table_alloc hands out a slot that was not in use, the first of the
\* free ones, and leaves the other free slots in their order.
LEMMA AllocLemma ==
    ASSUME NEW tt, TableInv(tt), HasFreeSlot(tt)
    PROVE  LET new == task_table_alloc(tt)
               s   == NextSlot(tt)
           IN  /\ TableInv(new)
               /\ s \in Slots /\ s \notin InUse(tt)
               /\ InUse(new) = InUse(tt) \cup {s}
               /\ \A r \in InUse(tt) : new.pid[r] = tt.pid[r]
               /\ FreeSeq(tt) # <<>>
               /\ s = Head(FreeSeq(tt))
               /\ FreeSeq(new) = Tail(FreeSeq(tt))
  <1> DEFINE new == task_table_alloc(tt)
             s   == NextSlot(tt)
             c   == FreeCount(tt)
             h   == tt.free_head
             g   == tt.generation[s]
  <1>1. /\ tt \in TableType
        /\ h \in 0 .. COUNTER_MOD - 1
        /\ tt.free_tail \in 0 .. COUNTER_MOD - 1
        /\ c \in 0 .. MAX_PROCESS_CNT
        /\ c >= 1
    <2>1. /\ tt \in TableType /\ c \in 0 .. MAX_PROCESS_CNT
          /\ h # tt.free_tail
          /\ h \in 0 .. COUNTER_MOD - 1 /\ tt.free_tail \in 0 .. COUNTER_MOD - 1
      BY DEF TableInv, FreeRingExact, TableType, HasFreeSlot
    <2>2. c # 0
      BY <2>1, Counters DEF FreeCount
    <2> QED
      BY <2>1, <2>2, TableAssumption
  <1>2. s = FreeSeq(tt)[1] /\ s \in Slots /\ g \in Generations
    <2>1. 1 \in 1 .. c /\ h + 1 - 1 = h
      BY <1>1, TableAssumption
    <2>2. s = FreeSeq(tt)[1] /\ s \in Slots
      BY <1>1, <2>1, FreeSeqElements DEF NextSlot
    <2> QED
      BY <1>1, <2>2 DEF TableType
  <1>3. s \notin InUse(tt)
    <2>1. 1 \in 1 .. c
      BY <1>1, TableAssumption
    <2> QED
      BY <1>2, <2>1 DEF TableInv, FreeRingExact
  <1>4. /\ new.free_head = (h + 1) % COUNTER_MOD
        /\ new.free_tail = tt.free_tail
        /\ new.free_ring = tt.free_ring
        /\ new.generation = [tt.generation EXCEPT ![s] = (g + 1) % (MAX_GENERATION + 1)]
        /\ new.pid = [tt.pid EXCEPT ![s] = PidOf(g, s)]
    BY <1>1 DEF task_table_alloc, TableType
  <1>5. new \in TableType
    <2>1. (h + 1) % COUNTER_MOD \in 0 .. COUNTER_MOD - 1
      <3>1. h + 1 \in Int /\ COUNTER_MOD \in Nat \ {0}
        BY <1>1, TableAssumption
      <3> QED
        BY <3>1, DivMod
    <2>2. (g + 1) % (MAX_GENERATION + 1) \in Generations
      <3>1. /\ g + 1 \in Int /\ MAX_GENERATION + 1 \in Nat \ {0}
            /\ (MAX_GENERATION + 1) - 1 = MAX_GENERATION
        BY <1>2, TableAssumption DEF Generations
      <3>2. (g + 1) % (MAX_GENERATION + 1) \in 0 .. (MAX_GENERATION + 1) - 1
        BY <3>1, DivMod
      <3> QED
        BY <3>1, <3>2 DEF Generations
    <2>3. PidOf(g, s) \in Pids
      BY <1>2 DEF Pids
    <2> QED
      BY <1>1, <1>2, <2>1, <2>2, <2>3 DEF task_table_alloc, TableType
  <1>6. InUse(new) = InUse(tt) \cup {s} /\ \A r \in InUse(tt) : new.pid[r] = tt.pid[r]
    <2>1. PidOf(g, s) # PID_NONE
      BY <1>2, PidSlot DEF PID_NONE
    <2> QED
      BY <1>1, <1>2, <1>3, <1>4, <2>1 DEF InUse, TableType
  <1>7. PidsOwn(new)
    BY <1>1, <1>2, <1>4, <1>6 DEF PidsOwn, InUse, TableInv, TableType
  <1>8. FreeCount(new) = c - 1
    <2>1. (tt.free_tail - ((h + 1) % COUNTER_MOD)) % COUNTER_MOD
            = ((tt.free_tail - h) % COUNTER_MOD) - 1
      BY <1>1, Counters DEF FreeCount
    <2> QED
      BY <1>4, <2>1 DEF FreeCount
  <1>9. c - 1 \in 0 .. MAX_PROCESS_CNT
    BY <1>1, TableAssumption
  <1>10. \A i \in 1 .. c - 1 : FreeSeq(new)[i] = FreeSeq(tt)[i + 1]
    <2> TAKE i \in 1 .. c - 1
    <2>1. FreeSeq(new)[i] = tt.free_ring[RingIndex(new.free_head + i - 1)]
      BY <1>4, <1>5, <1>8, <1>9, FreeSeqElements
    <2>2. FreeSeq(tt)[i + 1] = tt.free_ring[RingIndex(h + (i + 1) - 1)]
      <3>1. i + 1 \in 1 .. c
        BY <1>1, TableAssumption
      <3> QED
        BY <1>1, <3>1, FreeSeqElements
    <2>3. RingIndex(((h + 1) % COUNTER_MOD) + (i - 1)) = RingIndex((h + 1) + (i - 1))
      <3>1. h + 1 \in Int /\ i - 1 \in Int
        BY <1>1, TableAssumption
      <3> QED
        BY <3>1, RingWrap
    <2>4. (h + 1) + (i - 1) = h + (i + 1) - 1
      BY <1>1, TableAssumption
    <2>5. ((h + 1) % COUNTER_MOD) + (i - 1) = new.free_head + i - 1
      BY <1>1, <1>4, <1>5, TableAssumption DEF TableType
    <2> QED
      BY <2>1, <2>2, <2>3, <2>4, <2>5
  <1>11. FreeRingExact(new)
    <2> DEFINE F == FreeSeq(tt)
               G == FreeSeq(new)
    <2>1. /\ \A i, j \in 1 .. c : F[i] = F[j] => i = j
          /\ \A r \in Slots : r \notin InUse(tt) <=> \E i \in 1 .. c : F[i] = r
      BY DEF TableInv, FreeRingExact
    <2>2. \A i \in 1 .. c - 1 : G[i] = F[i + 1]
      BY <1>10
    <2>3. s = F[1]
      BY <1>2
    <2> HIDE DEF F, G
    <2>4. \A i, j \in 1 .. c - 1 : G[i] = G[j] => i = j
      BY <1>1, <2>1, <2>2, TableAssumption
    <2>5. \A r \in Slots : r \notin InUse(new) <=> \E i \in 1 .. c - 1 : G[i] = r
      <3> TAKE r \in Slots
      <3>1. r \notin InUse(new) <=> r \notin InUse(tt) /\ r # s
        BY <1>6
      <3>2. ASSUME NEW i \in 1 .. c, F[i] = r, r # s
            PROVE  i - 1 \in 1 .. c - 1 /\ G[i - 1] = r
        <4>1. i # 1
          BY <2>3, <3>2
        <4>2. i - 1 \in 1 .. c - 1 /\ (i - 1) + 1 = i
          BY <1>1, <3>2, <4>1, TableAssumption
        <4> QED
          BY <2>2, <3>2, <4>2
      <3>3. ASSUME NEW i \in 1 .. c - 1, G[i] = r
            PROVE  i + 1 \in 1 .. c /\ F[i + 1] = r /\ r # s
        <4>1. i + 1 \in 1 .. c /\ 1 \in 1 .. c /\ i + 1 # 1
          BY <1>1, TableAssumption
        <4> QED
          BY <2>1, <2>2, <2>3, <3>3, <4>1
      <3> QED
        BY <2>1, <3>1, <3>2, <3>3
    <2> QED
      BY <1>8, <1>9, <2>4, <2>5 DEF FreeRingExact, G
  <1>12. /\ FreeSeq(tt) # <<>>
         /\ s = Head(FreeSeq(tt))
         /\ FreeSeq(new) = Tail(FreeSeq(tt))
    <2>1. FreeSeq(tt) \in Seq(Slots) /\ Len(FreeSeq(tt)) = c /\ c >= 1
      BY <1>1, FreeSeqElements
    <2>2. FreeSeq(new) \in Seq(Slots) /\ Len(FreeSeq(new)) = c - 1
      BY <1>5, <1>8, <1>9, FreeSeqElements
    <2>3. FreeSeq(tt) # <<>> /\ s = Head(FreeSeq(tt))
      BY <1>2, <2>1
    <2>4. /\ Tail(FreeSeq(tt)) \in Seq(Slots)
          /\ Len(Tail(FreeSeq(tt))) = c - 1
          /\ \A i \in 1 .. c - 1 : Tail(FreeSeq(tt))[i] = FreeSeq(tt)[i + 1]
      BY <2>1, <2>3, HeadTailProperties
    <2>5. FreeSeq(new) = Tail(FreeSeq(tt))
      BY <1>10, <2>2, <2>4, SeqEqual
    <2> QED
      BY <2>3, <2>5
  <1> QED
    BY <1>2, <1>3, <1>5, <1>6, <1>7, <1>11, <1>12 DEF TableInv

\* While a slot is in use the ring is not full: the free slots are distinct
\* and none of them is that slot.
LEMMA RingNotFull ==
    ASSUME NEW tt, TableInv(tt), NEW s \in InUse(tt)
    PROVE  FreeCount(tt) < MAX_PROCESS_CNT
  <1> DEFINE n == MAX_PROCESS_CNT
             F == FreeSeq(tt)
  <1>1. n \in Nat \ {0} /\ FreeCount(tt) \in 0 .. n /\ s \in Slots
    BY TableAssumption DEF TableInv, FreeRingExact, InUse
  <1>2. SUFFICES ASSUME FreeCount(tt) = n PROVE FALSE
    BY <1>1
  <1>3. F \in [1 .. n -> Slots \ {s}]
    <2>1. F \in Seq(Slots) /\ Len(F) = n
      BY <1>1, <1>2, FreeSeqElements DEF TableInv
    <2>2. \A i \in 1 .. n : F[i] # s
      BY <1>1, <1>2 DEF TableInv, FreeRingExact
    <2>3. F \in [1 .. n -> Slots]
      BY <2>1, LenProperties
    <2> HIDE DEF F
    <2> QED
      BY <2>2, <2>3
  <1>4. IsFiniteSet(1 .. n) /\ Cardinality(1 .. n) = n
    BY <1>1, FS_Interval
  <1>5. IsFiniteSet(Slots) /\ Cardinality(Slots) = n
    <2>1. 0 \in Int /\ n - 1 \in Int /\ ~(0 > n - 1) /\ (n - 1) - 0 + 1 = n
      BY <1>1
    <2> QED
      BY <2>1, FS_Interval DEF Slots
  <1>6. IsFiniteSet(Slots \ {s}) /\ Cardinality(Slots \ {s}) = n - 1
    BY <1>1, <1>5, FS_RemoveElement
  <1>7. n - 1 < n
    BY <1>1
  <1>8. \E i, j \in 1 .. n : i # j /\ F[i] = F[j]
    BY <1>3, <1>4, <1>6, <1>7, FS_PigeonHole
  <1> QED
    BY <1>2, <1>8 DEF TableInv, FreeRingExact

\* A slot in use can be freed without a panic and is found under its pid.
LEMMA InUseLemma ==
    ASSUME NEW tt, TableInv(tt), NEW s \in InUse(tt)
    PROVE  /\ tt.pid[s] \in Nat
           /\ SlotOf(tt.pid[s]) = s
           /\ task_table_find(tt, tt.pid[s]) = {s}
           /\ ~ task_table_free_panics(tt, s)
  <1>1. s \in Slots /\ FreeCount(tt) < MAX_PROCESS_CNT
    BY RingNotFull DEF InUse
  <1>2. PICK g \in Generations : tt.pid[s] = PidOf(g, s)
    BY DEF TableInv, PidsOwn
  <1>3. tt.pid[s] \in Nat /\ SlotOf(tt.pid[s]) = s
    BY <1>1, <1>2, PidSlot
  <1>4. task_table_find(tt, tt.pid[s]) = {s}
    BY <1>1, <1>3 DEF task_table_find
  <1>5. FreeCount(tt) # MAX_PROCESS_CNT /\ ~(tt.pid[s] < 0)
    BY <1>1, <1>3, TableAssumption DEF TableInv, FreeRingExact
  <1> QED
    BY <1>3, <1>4, <1>5 DEF task_table_free_panics

\* task_table_free puts the slot behind the other free ones, which keep
\* their order.
LEMMA FreeLemma ==
    ASSUME NEW tt, TableInv(tt), NEW s \in InUse(tt)
    PROVE  LET new == task_table_free(tt, s)
           IN  /\ TableInv(new)
               /\ InUse(new) = InUse(tt) \ {s}
               /\ \A r \in InUse(new) : new.pid[r] = tt.pid[r]
               /\ FreeSeq(new) = Append(FreeSeq(tt), s)
  <1> DEFINE new == task_table_free(tt, s)
             c   == FreeCount(tt)
             h   == tt.free_head
             t   == tt.free_tail
  <1>1. /\ tt \in TableType
        /\ h \in 0 .. COUNTER_MOD - 1
        /\ t \in 0 .. COUNTER_MOD - 1
        /\ c \in 0 .. MAX_PROCESS_CNT /\ c < MAX_PROCESS_CNT
        /\ s \in Slots /\ SlotOf(tt.pid[s]) = s
    BY RingNotFull, InUseLemma DEF TableInv, FreeRingExact, TableType, InUse
  <1>2. /\ c + 1 \in 0 .. MAX_PROCESS_CNT
        /\ c < COUNTER_MOD - 1
    BY <1>1, TableAssumption
  <1>3. RingIndex(t) \in Slots
    <2>1. t \in Int /\ MAX_PROCESS_CNT \in Nat \ {0}
      BY <1>1, TableAssumption
    <2> QED
      BY <2>1, DivMod DEF RingIndex, Slots
  <1>4. /\ new.free_head = h
        /\ new.free_tail = (t + 1) % COUNTER_MOD
        /\ new.free_ring = [tt.free_ring EXCEPT ![RingIndex(t)] = s]
        /\ new.generation = tt.generation
        /\ new.pid = [tt.pid EXCEPT ![s] = PID_NONE]
    BY <1>1 DEF task_table_free, TableType
  <1>5. new \in TableType
    <2>1. (t + 1) % COUNTER_MOD \in 0 .. COUNTER_MOD - 1
      <3>1. t + 1 \in Int /\ COUNTER_MOD \in Nat \ {0}
        BY <1>1, TableAssumption
      <3> QED
        BY <3>1, DivMod
    <2> QED
      BY <1>1, <1>3, <2>1 DEF task_table_free, TableType
  <1>6. InUse(new) = InUse(tt) \ {s} /\ \A r \in InUse(new) : new.pid[r] = tt.pid[r]
    BY <1>1, <1>4 DEF InUse, TableType
  <1>7. PidsOwn(new)
    BY <1>6 DEF PidsOwn, TableInv
  <1>8. FreeCount(new) = c + 1
    <2>1. (((t + 1) % COUNTER_MOD) - h) % COUNTER_MOD = ((t - h) % COUNTER_MOD) + 1
      BY <1>1, <1>2, Counters DEF FreeCount
    <2> QED
      BY <1>4, <2>1 DEF FreeCount
  <1>9. RingIndex(h + c) = RingIndex(t)
    <2>1. t = (h + c) % COUNTER_MOD
      BY <1>1, Counters DEF FreeCount
    <2>2. RingIndex(((h + c) % COUNTER_MOD) + 0) = RingIndex((h + c) + 0)
      <3>1. h + c \in Int /\ 0 \in Int
        BY <1>1, TableAssumption
      <3> QED
        BY <3>1, RingWrap
    <2>3. ((h + c) % COUNTER_MOD) + 0 = t /\ (h + c) + 0 = h + c
      BY <1>1, <2>1, TableAssumption
    <2> QED
      BY <2>2, <2>3
  <1>10. \A i \in 1 .. c : RingIndex(h + i - 1) # RingIndex(t)
    <2> TAKE i \in 1 .. c
    <2> DEFINE x == h + i - 1
               d == c - i + 1
    <2>1. x \in Int /\ d \in 1 .. MAX_PROCESS_CNT - 1 /\ x + d = h + c
      BY <1>1, TableAssumption
    <2> HIDE DEF x, d
    <2>2. (x + d) % MAX_PROCESS_CNT # x % MAX_PROCESS_CNT
      BY <2>1, TableAssumption, ModApart
    <2> QED
      BY <1>9, <2>1, <2>2 DEF RingIndex, x
  <1>11. FreeSeq(new) = Append(FreeSeq(tt), s)
    <2> DEFINE F == FreeSeq(tt)
               G == FreeSeq(new)
    <2>1. F \in Seq(Slots) /\ Len(F) = c
      BY <1>1, FreeSeqElements
    <2>2. G \in Seq(Slots) /\ Len(G) = c + 1
      BY <1>2, <1>5, <1>8, FreeSeqElements
    <2>3. \A i \in 1 .. c : G[i] = F[i]
      <3> TAKE i \in 1 .. c
      <3>1. i \in 1 .. c + 1
        BY <1>1, TableAssumption
      <3>2. G[i] = new.free_ring[RingIndex(h + i - 1)]
        BY <1>2, <1>4, <1>5, <1>8, <3>1, FreeSeqElements
      <3>3. F[i] = tt.free_ring[RingIndex(h + i - 1)] /\ RingIndex(h + i - 1) \in Slots
        BY <1>1, FreeSeqElements
      <3> QED
        BY <1>1, <1>3, <1>4, <1>10, <3>2, <3>3 DEF TableType
    <2>4. G[c + 1] = s
      <3>1. c + 1 \in 1 .. c + 1 /\ h + (c + 1) - 1 = h + c
        BY <1>1, TableAssumption
      <3>2. G[c + 1] = new.free_ring[RingIndex(h + (c + 1) - 1)]
        BY <1>2, <1>4, <1>5, <1>8, <3>1, FreeSeqElements
      <3> QED
        BY <1>1, <1>3, <1>4, <1>9, <3>1, <3>2 DEF TableType
    <2>5. /\ Append(F, s) \in Seq(Slots) /\ Len(Append(F, s)) = c + 1
          /\ \A i \in 1 .. c : Append(F, s)[i] = F[i]
          /\ Append(F, s)[c + 1] = s
      BY <1>1, <2>1, AppendProperties
    <2>6. \A i \in 1 .. c + 1 : G[i] = Append(F, s)[i]
      <3> TAKE i \in 1 .. c + 1
      <3>1. i \in 1 .. c \/ i = c + 1
        BY <1>1, TableAssumption
      <3> QED
        BY <2>3, <2>4, <2>5, <3>1
    <2> QED
      BY <2>2, <2>5, <2>6, SeqEqual
  <1>12. FreeRingExact(new)
    <2> DEFINE F == FreeSeq(tt)
               G == FreeSeq(new)
    <2>1. /\ \A i, j \in 1 .. c : F[i] = F[j] => i = j
          /\ \A r \in Slots : r \notin InUse(tt) <=> \E i \in 1 .. c : F[i] = r
      BY DEF TableInv, FreeRingExact
    <2>2. (\A i \in 1 .. c : G[i] = F[i]) /\ G[c + 1] = s
      <3>1. F \in Seq(Slots) /\ Len(F) = c
        BY <1>1, FreeSeqElements
      <3> QED
        BY <1>1, <1>11, <3>1, AppendProperties
    <2> HIDE DEF F, G
    <2>3. \A i \in 1 .. c + 1 : i \in 1 .. c \/ i = c + 1
      BY <1>1, TableAssumption
    <2>4. c + 1 \in 1 .. c + 1 /\ \A i \in 1 .. c : i \in 1 .. c + 1
      BY <1>1, TableAssumption
    <2>5. \A i \in 1 .. c : F[i] # s
      BY <1>1, <2>1
    <2>6. \A i, j \in 1 .. c + 1 : G[i] = G[j] => i = j
      BY <2>1, <2>2, <2>3, <2>5
    <2>7. \A r \in Slots : r \notin InUse(new) <=> \E i \in 1 .. c + 1 : G[i] = r
      BY <1>6, <2>1, <2>2, <2>3, <2>4
    <2> QED
      BY <1>2, <1>8, <2>6, <2>7 DEF FreeRingExact, G
  <1> QED
    BY <1>5, <1>6, <1>7, <1>11, <1>12 DEF TableInv

---------------------------------------------------------------------------
(* The theorems.                                                           *)

\* Boot leaves a well-formed table with every slot free.
LEMMA InitLemma ==
    /\ TableInv(task_table_init)
    /\ InUse(task_table_init) = {}
    /\ FreeSeq(task_table_init) = [i \in 1 .. MAX_PROCESS_CNT |-> i - 1]
  <1> DEFINE tt == task_table_init
             n  == MAX_PROCESS_CNT
  <1>1. n \in Nat \ {0} /\ COUNTER_MOD \in Nat \ {0} /\ n \in 0 .. COUNTER_MOD - 1
    BY TableAssumption
  <1>2. /\ tt.free_head = 0 /\ tt.free_tail = n
        /\ tt.free_ring = [i \in Slots |-> i]
        /\ tt.pid = [s \in Slots |-> PID_NONE]
    BY DEF task_table_init
  <1>3. tt \in TableType
    BY <1>1, TableAssumption DEF task_table_init, TableType, Slots, Generations
  <1>4. FreeCount(tt) = n
    <2>1. (COUNTER_MOD * 0 + n) % COUNTER_MOD = n
      BY <1>1, ModUnique
    <2>2. COUNTER_MOD * 0 + n = n /\ n - 0 = n
      BY <1>1
    <2> QED
      BY <1>2, <2>1, <2>2 DEF FreeCount
  <1>5. n \in 0 .. n
    BY <1>1
  <1>6. \A i \in 1 .. n : FreeSeq(tt)[i] = i - 1
    <2> TAKE i \in 1 .. n
    <2>1. FreeSeq(tt)[i] = tt.free_ring[RingIndex(tt.free_head + i - 1)]
      BY <1>3, <1>4, <1>5, FreeSeqElements
    <2>2. (n * 0 + (i - 1)) % n = i - 1
      BY <1>1, ModUnique
    <2>3. n * 0 + (i - 1) = 0 + i - 1 /\ i - 1 \in Slots
      BY <1>1 DEF Slots
    <2>4. RingIndex(0 + i - 1) = i - 1
      BY <2>2, <2>3 DEF RingIndex
    <2> QED
      BY <1>2, <2>1, <2>3, <2>4
  <1>7. InUse(tt) = {}
    BY <1>2 DEF InUse
  <1>8. FreeRingExact(tt)
    <2>1. \A i, j \in 1 .. n : FreeSeq(tt)[i] = FreeSeq(tt)[j] => i = j
      BY <1>1, <1>6
    <2>2. \A s \in Slots : \E i \in 1 .. n : FreeSeq(tt)[i] = s
      <3> TAKE s \in Slots
      <3>1. s + 1 \in 1 .. n /\ (s + 1) - 1 = s
        BY <1>1 DEF Slots
      <3> QED
        BY <1>6, <3>1
    <2> QED
      BY <1>4, <1>5, <1>7, <2>1, <2>2 DEF FreeRingExact
  <1>9. PidsOwn(tt)
    BY <1>7 DEF PidsOwn
  <1>10. FreeSeq(tt) = [i \in 1 .. n |-> i - 1]
    BY <1>4, <1>6 DEF FreeSeq
  <1> QED
    BY <1>3, <1>7, <1>8, <1>9, <1>10 DEF TableInv

TTInv == TableInv(task_table)

\* The table's invariant holds in every state of the table's specification.
THEOREM TableInvariance == TTSpec => []TTInv
  <1>1. TTInit => TTInv
    BY InitLemma DEF TTInit, TTInv
  <1>2. TTInv /\ [TTNext]_task_table => TTInv'
    <2> SUFFICES ASSUME TableInv(task_table), [TTNext]_task_table
                 PROVE  TableInv(task_table')
      BY DEF TTInv
    <2>1. CASE TTAlloc
      BY <2>1, AllocLemma DEF TTAlloc
    <2>2. ASSUME NEW s \in Slots, TTFree(s) PROVE TableInv(task_table')
      <3>1. s \in InUse(task_table)
        BY <2>2 DEF TTFree, InUse
      <3> QED
        BY <2>2, <3>1, FreeLemma DEF TTFree
    <2>3. CASE UNCHANGED task_table
      BY <2>3
    <2> QED
      BY <2>1, <2>2, <2>3 DEF TTNext
  <1> QED
    BY <1>1, <1>2, PTL DEF TTSpec

\* task_table_alloc and task_table_free keep counters, ring, pids and
\* generations within their types.
THEOREM TableTypeCorrect == TTSpec => []TTTypeOK
  <1>1. TTInv => TTTypeOK
    BY DEF TTInv, TableInv, TTTypeOK
  <1> QED
    BY <1>1, TableInvariance, PTL

\* No slot is handed out twice or lost, for any number of allocations and
\* frees, across every wrap-around of free_head, free_tail and generation.
THEOREM RingCorrect == TTSpec => []RingOK
  <1>1. TTInv => RingOK
    BY DEF TTInv, TableInv, RingOK
  <1> QED
    BY <1>1, TableInvariance, PTL

\* A lookup by a live task's pid returns that task, and task_table_free of a
\* slot in use cannot panic.
THEOREM PidsCorrect == TTSpec => []PidsOK
  <1>1. TTInv => PidsOK
    BY InUseLemma DEF TTInv, PidsOK, PidsLeadHome
  <1> QED
    BY <1>1, TableInvariance, PTL

\* The ring with its wrapping counters implements the abstract first-in
\* first-out pool of slots.
THEOREM TableImplementsPool == TTSpec => ImplementsSlotPool
  <1>1. TTInit => Pool!PoolInit
    BY InitLemma DEF TTInit, Pool!PoolInit
  <1>2. TTInv /\ [TTNext]_task_table
          => [Pool!PoolNext]_<<FreeSeq(task_table), InUse(task_table)>>
    <2> SUFFICES ASSUME TableInv(task_table), [TTNext]_task_table
                 PROVE  \/ Pool!PoolNext
                        \/ UNCHANGED <<FreeSeq(task_table), InUse(task_table)>>
      BY DEF TTInv
    <2>1. CASE TTAlloc
      <3>1. Pool!Take
        BY <2>1, AllocLemma DEF TTAlloc, Pool!Take
      <3> QED
        BY <3>1 DEF Pool!PoolNext
    <2>2. ASSUME NEW s \in Slots, TTFree(s) PROVE Pool!PoolNext
      <3>1. s \in InUse(task_table)
        BY <2>2 DEF TTFree, InUse
      <3>2. Pool!GiveBack(s)
        BY <2>2, <3>1, FreeLemma DEF TTFree, Pool!GiveBack
      <3> QED
        BY <3>2 DEF Pool!PoolNext, Slots
    <2>3. CASE UNCHANGED task_table
      BY <2>3
    <2> QED
      BY <2>1, <2>2, <2>3 DEF TTNext
  <1> QED
    BY <1>1, <1>2, TableInvariance, PTL DEF TTSpec, ImplementsSlotPool, Pool!PoolSpec
===========================================================================
