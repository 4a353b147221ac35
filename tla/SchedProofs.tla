---------------------------- MODULE SchedProofs ----------------------------
(***************************************************************************)
(* Proofs about the scheduler and its run queue, for every table size.     *)
(*                                                                         *)
(* Type correctness and the process tree hold for every workload; the      *)
(* exact run queue, the absence of lost wakeups and dangling wait queue    *)
(* entries, and the absence of panics for every workload that does not     *)
(* signal sleeping tasks. The run queue on its own is a first-in first-out *)
(* queue.                                                                  *)
(***************************************************************************)
EXTENDS Sched, RunQueueSpec, TaskTableProofs

(* The linked list of the run queue and the sequence of tasks it stands    *)
(* for, for any set of tasks.                                              *)

\* run_queue_push and run_queue_poll keep the pointers pointing at tasks,
\* whatever state the list is in.
LEMMA QueueTypes ==
    ASSUME NEW TS, NULL \notin TS, NEW rq \in QueueType(TS)
    PROVE  /\ \A t \in TS : run_queue_push(rq, t) \in QueueType(TS)
           /\ PolledTask(rq) \in TS \cup {NULL}
           /\ ~run_queue_poll_faults(rq) => run_queue_poll(rq) \in QueueType(TS)
  <1> DEFINE P == TS \cup {NULL}
             N == [TS -> P]
  <1>0. /\ rq = [len |-> rq.len, first |-> rq.first, last |-> rq.last, next |-> rq.next]
        /\ rq.len \in Nat /\ rq.first \in P /\ rq.last \in P /\ rq.next \in N
    BY DEF QueueType
  <1>1. ASSUME NEW t \in TS PROVE run_queue_push(rq, t) \in QueueType(TS)
    <2>1. CASE rq.len = 0
      <3>1. [rq.next EXCEPT ![t] = NULL] \in N
        BY <1>0
      <3>2. run_queue_push(rq, t) = [len |-> 1, first |-> t, last |-> t,
                                     next |-> [rq.next EXCEPT ![t] = NULL]]
        BY <1>0, <2>1 DEF run_queue_push
      <3> QED
        BY <1>1, <3>1, <3>2 DEF QueueType
    <2>2. CASE rq.len # 0
      <3> DEFINE f == [[rq.next EXCEPT ![t] = NULL] EXCEPT ![rq.last] = t]
      <3>1. f \in N
        BY <1>0, <1>1
      <3>2. run_queue_push(rq, t) = [len |-> rq.len + 1, first |-> rq.first, last |-> t,
                                     next |-> f]
        BY <1>0, <2>2 DEF run_queue_push
      <3>3. rq.len + 1 \in Nat
        BY <1>0
      <3> HIDE DEF f
      <3> QED
        BY <1>0, <1>1, <3>1, <3>2, <3>3 DEF QueueType
    <2> QED
      BY <2>1, <2>2
  <1>2. PolledTask(rq) \in TS \cup {NULL}
    BY DEF PolledTask, QueueType
  <1>3. ASSUME ~run_queue_poll_faults(rq) PROVE run_queue_poll(rq) \in QueueType(TS)
    <2>1. CASE rq.len = 0
      BY <2>1 DEF run_queue_poll
    <2>2. CASE rq.len # 0
      <3> DEFINE f == [rq.next EXCEPT ![rq.first] = NULL]
                 l == IF rq.len = 1 THEN NULL ELSE rq.last
      <3>1. rq.first \in TS
        BY <1>0, <1>3, <2>2 DEF run_queue_poll_faults
      <3>2. f \in N /\ l \in P /\ rq.next[rq.first] \in P
        BY <1>0, <3>1
      <3>3. run_queue_poll(rq) = [len |-> rq.len - 1, first |-> rq.next[rq.first],
                                  last |-> l, next |-> f]
        BY <1>0, <2>2 DEF run_queue_poll
      <3>4. rq.len - 1 \in Nat
        BY <1>0, <2>2
      <3> HIDE DEF f, l
      <3> QED
        BY <3>2, <3>3, <3>4 DEF QueueType
    <2> QED
      BY <2>1, <2>2
  <1> QED
    BY <1>1, <1>2, <1>3

\* An initialised queue is empty.
LEMMA InitRepresents ==
    ASSUME NEW TS, NULL \notin TS
    PROVE  /\ run_queue_init(TS) \in QueueType(TS)
           /\ Represents(run_queue_init(TS), <<>>)
  BY DEF run_queue_init, QueueType, Represents

\* Pushing a task that is not in the list appends it to the sequence.
LEMMA PushRepresents ==
    ASSUME NEW TS, NULL \notin TS, NEW rq \in QueueType(TS),
           NEW q \in Seq(TS), Represents(rq, q),
           NEW t \in TS, \A i \in 1 .. Len(q) : q[i] # t
    PROVE  Represents(run_queue_push(rq, t), Append(q, t))
  <1> DEFINE new == run_queue_push(rq, t)
             p   == Append(q, t)
             n   == Len(q)
  <1>1. /\ n \in Nat /\ \A i \in 1 .. n : q[i] \in TS
        /\ rq.next \in [TS -> TS \cup {NULL}]
    BY ElementOfSeq, LenProperties DEF QueueType
  <1>2. /\ p \in Seq(TS) /\ Len(p) = n + 1 /\ p # <<>>
        /\ \A i \in 1 .. n : p[i] = q[i]
        /\ p[n + 1] = t
    BY AppendProperties
  <1>3. /\ new.len = n + 1
        /\ new.last = t
        /\ new.first = p[1]
        /\ DOMAIN new.next = TS
    <2>1. CASE n = 0
      BY <1>1, <1>2, <2>1 DEF Represents, run_queue_push, QueueType
    <2>2. CASE n # 0
      <3>1. q # <<>> /\ 1 \in 1 .. n
        BY <1>1, <2>2
      <3> QED
        BY <1>1, <1>2, <2>2, <3>1 DEF Represents, run_queue_push, QueueType
    <2> QED
      BY <2>1, <2>2
  <1>4. \A s \in TS :
          new.next[s] = IF n # 0 /\ s = q[n] THEN t
                        ELSE IF s = t THEN NULL ELSE rq.next[s]
    <2>1. CASE n = 0
      BY <1>1, <2>1 DEF Represents, run_queue_push, QueueType
    <2>2. CASE n # 0
      <3>1. q # <<>> /\ n \in 1 .. n /\ q[n] # t /\ rq.last = q[n] /\ rq.len # 0
        BY <1>1, <2>2 DEF Represents
      <3> QED
        BY <1>1, <2>2, <3>1 DEF run_queue_push, QueueType
    <2> QED
      BY <2>1, <2>2
  <1>5. \A i \in 1 .. n + 1 : i \in 1 .. n \/ i = n + 1
    BY <1>1
  <1>6. \A i, j \in 1 .. n + 1 : p[i] = p[j] => i = j
    BY <1>2, <1>5 DEF Represents
  <1>7. \A i \in 1 .. n + 1 : new.next[p[i]] = IF i = n + 1 THEN NULL ELSE p[i + 1]
    <2> TAKE i \in 1 .. n + 1
    <2>1. CASE i = n + 1
      <3>1. n # 0 => q[n] # t
        BY <1>1
      <3> QED
        BY <1>2, <1>4, <2>1, <3>1
    <2>2. CASE i = n /\ n # 0
      BY <1>1, <1>2, <1>4, <2>2
    <2>3. CASE i \in 1 .. n - 1
      <3>1. i \in 1 .. n /\ i + 1 \in 1 .. n /\ i # n /\ n \in 1 .. n /\ i # n + 1
        BY <1>1, <2>3
      <3>2. q[i] # q[n] /\ q[i] # t /\ rq.next[q[i]] = q[i + 1]
        BY <3>1 DEF Represents
      <3> QED
        BY <1>1, <1>2, <1>4, <3>1, <3>2
    <2> QED
      BY <1>1, <2>1, <2>2, <2>3
  <1>8. \A s \in TS : (\A i \in 1 .. n + 1 : p[i] # s) => new.next[s] = NULL
    <2> SUFFICES ASSUME NEW s \in TS, \A i \in 1 .. n + 1 : p[i] # s
                 PROVE  new.next[s] = NULL
      OBVIOUS
    <2>1. s # t /\ \A i \in 1 .. n : q[i] # s
      <3>1. n + 1 \in 1 .. n + 1 /\ \A i \in 1 .. n : i \in 1 .. n + 1
        BY <1>1
      <3> QED
        BY <1>2, <3>1
    <2>2. n # 0 => s # q[n]
      BY <1>1, <2>1
    <2>3. rq.next[s] = NULL
      BY <1>1, <2>1 DEF Represents
    <2> QED
      BY <1>4, <2>1, <2>2, <2>3
  <1> HIDE DEF new, p
  <1>9. Represents(new, p)
    BY <1>1, <1>2, <1>3, <1>6, <1>7, <1>8 DEF Represents
  <1> QED
    BY <1>9 DEF new, p

\* Polling takes the first task of the sequence.
LEMMA PollRepresents ==
    ASSUME NEW TS, NULL \notin TS, NEW rq \in QueueType(TS),
           NEW q \in Seq(TS), Represents(rq, q)
    PROVE  /\ ~run_queue_poll_faults(rq)
           /\ PolledTask(rq) = IF q = <<>> THEN NULL ELSE q[1]
           /\ Represents(run_queue_poll(rq), IF q = <<>> THEN q ELSE Tail(q))
  <1> DEFINE new == run_queue_poll(rq)
             n   == Len(q)
  <1>1. /\ n \in Nat /\ \A i \in 1 .. n : q[i] \in TS
        /\ rq.next \in [TS -> TS \cup {NULL}]
        /\ q = <<>> <=> n = 0
        /\ rq.len = n
    BY ElementOfSeq, LenProperties, EmptySeq DEF QueueType, Represents
  <1>2. CASE n = 0
    BY <1>1, <1>2 DEF run_queue_poll_faults, PolledTask, run_queue_poll, Represents
  <1>3. CASE n # 0
    <2> DEFINE p == Tail(q)
    <2>1. q # <<>> /\ 1 \in 1 .. n /\ rq.first = q[1] /\ q[1] \in TS /\ q[1] # NULL
      BY <1>1, <1>3 DEF Represents
    <2>2. p \in Seq(TS) /\ Len(p) = n - 1 /\ \A i \in 1 .. n - 1 : p[i] = q[i + 1]
      BY <2>1, HeadTailProperties
    <2>3. ~run_queue_poll_faults(rq) /\ PolledTask(rq) = q[1]
      BY <1>1, <1>3, <2>1 DEF run_queue_poll_faults, PolledTask
    <2>4. /\ new.len = n - 1
          /\ new.first = rq.next[q[1]]
          /\ new.last = IF n = 1 THEN NULL ELSE rq.last
          /\ new.next = [rq.next EXCEPT ![q[1]] = NULL]
      BY <1>1, <1>3, <2>1 DEF run_queue_poll, QueueType
    <2>0. \A m \in Nat : m # 0 =>
            /\ m - 1 = 0 <=> m = 1
            /\ m # 1 => 1 \in 1 .. m - 1 /\ m - 1 \in 1 .. m - 1 /\ (m - 1) + 1 = m
      OBVIOUS
    <2>5. p = <<>> <=> n = 1
      <3>1. p = <<>> <=> Len(p) = 0
        BY <2>2, EmptySeq
      <3> QED
        BY <1>1, <1>3, <2>0, <2>2, <3>1
    <2>6. new.first = IF p = <<>> THEN NULL ELSE p[1]
      <3>1. rq.next[q[1]] = IF 1 = n THEN NULL ELSE q[1 + 1]
        BY <2>1 DEF Represents
      <3>2. n # 1 => 1 \in 1 .. n - 1
        BY <1>1, <1>3, <2>0
      <3> QED
        BY <2>2, <2>4, <2>5, <3>1, <3>2
    <2>7. new.last = IF p = <<>> THEN NULL ELSE p[Len(p)]
      <3>1. n # 1 => n - 1 \in 1 .. n - 1 /\ (n - 1) + 1 = n
        BY <1>1, <1>3, <2>0
      <3>2. rq.last = q[n]
        BY <2>1 DEF Represents
      <3> QED
        BY <2>2, <2>4, <2>5, <3>1, <3>2
    <2>8. \A i \in 1 .. n - 1 : i + 1 \in 1 .. n /\ i + 1 # 1
      BY <1>1
    <2>9. \A i, j \in 1 .. n - 1 : p[i] = p[j] => i = j
      <3> TAKE i, j \in 1 .. n - 1
      <3>1. q[i + 1] = q[j + 1] => i + 1 = j + 1
        BY <2>8 DEF Represents
      <3> QED
        BY <1>1, <2>2, <3>1
    <2>10. \A i \in 1 .. n - 1 : new.next[p[i]] = IF i = n - 1 THEN NULL ELSE p[i + 1]
      <3> TAKE i \in 1 .. n - 1
      <3>1. q[i + 1] # q[1] /\ q[i + 1] \in TS
        BY <1>1, <2>1, <2>8 DEF Represents
      <3>2. rq.next[q[i + 1]] = IF i + 1 = n THEN NULL ELSE q[(i + 1) + 1]
        BY <2>8 DEF Represents
      <3>3. i # n - 1 => i + 1 \in 1 .. n - 1
        BY <1>1
      <3>4. i + 1 = n <=> i = n - 1
        BY <1>1
      <3> QED
        BY <1>1, <2>2, <2>4, <3>1, <3>2, <3>3, <3>4
    <2>11. \A s \in TS : (\A i \in 1 .. n - 1 : p[i] # s) => new.next[s] = NULL
      <3> SUFFICES ASSUME NEW s \in TS, \A i \in 1 .. n - 1 : p[i] # s
                   PROVE  new.next[s] = NULL
        OBVIOUS
      <3>1. CASE s = q[1]
        BY <1>1, <2>4, <3>1
      <3>2. CASE s # q[1]
        <4>1. \A i \in 1 .. n : q[i] # s
          <5> TAKE i \in 1 .. n
          <5>1. CASE i = 1
            BY <3>2, <5>1
          <5>2. CASE i # 1
            <6>1. i - 1 \in 1 .. n - 1 /\ (i - 1) + 1 = i
              BY <1>1, <5>2
            <6> QED
              BY <2>2, <6>1
          <5> QED
            BY <5>1, <5>2
        <4>2. rq.next[s] = NULL
          BY <1>1, <4>1 DEF Represents
        <4> QED
          BY <1>1, <2>4, <3>2, <4>2
      <3> QED
        BY <3>1, <3>2
    <2>12. DOMAIN new.next = TS
      BY <1>1, <2>4
    <2> HIDE DEF new, p
    <2>13. Represents(new, p)
      BY <1>1, <1>3, <2>2, <2>4, <2>6, <2>7, <2>9, <2>10, <2>11, <2>12 DEF Represents
    <2> QED
      BY <2>1, <2>3, <2>13 DEF new, p
  <1> QED
    BY <1>2, <1>3

---------------------------------------------------------------------------
(* Types, and the lemmas on the operators that all parts use.              *)

LEMMA SlotFacts ==
    /\ Swapper \in Slots /\ InitTask \in Slots /\ Swapper # InitTask
    /\ NULL \notin Slots
    /\ Slots \subseteq Nat
  BY TableAssumption, SchedAssumption DEF Slots, Swapper, InitTask, NULL

LEMMA QueueFacts ==
    /\ TtyQueue \in WaitQueues /\ NoQueue \notin WaitQueues
    /\ \A t \in Slots : ExitQueue(t) \in WaitQueues /\ ChildQueue(t) \in WaitQueues
    /\ \A q \in WaitQueues \cup {NoQueue} :
         /\ q[1] = "exit" => q[2] \in Slots /\ q = ExitQueue(q[2])
         /\ q[1] = "child" => q[2] \in Slots /\ q = ChildQueue(q[2])
         /\ q \in WaitQueues => q = TtyQueue \/ q[1] = "exit" \/ q[1] = "child"
  BY DEF TtyQueue, NoQueue, WaitQueues, ExitQueue, ChildQueue

\* Removing an element from a sequence.
LEMMA WithoutLemma ==
    ASSUME NEW S, NEW s \in Seq(S), NEW e
    PROVE  /\ Without(s, e) \in Seq(S)
           /\ (\A i, j \in 1 .. Len(s) : s[i] = s[j] => i = j) =>
                /\ Elems(Without(s, e)) = Elems(s) \ {e}
                /\ \A i, j \in 1 .. Len(Without(s, e)) :
                     Without(s, e)[i] = Without(s, e)[j] => i = j
  <1> DEFINE n == Len(s)
             w == Without(s, e)
  <1>1. n \in Nat /\ \A i \in 1 .. n : s[i] \in S
    BY LenProperties, ElementOfSeq
  <1>2. CASE e \notin Elems(s)
    BY <1>2 DEF Without
  <1>3. CASE e \in Elems(s)
    <2> DEFINE k == CHOOSE i \in 1 .. n : s[i] = e
    <2>1. k \in 1 .. n /\ s[k] = e
      BY <1>3 DEF Elems
    <2>2. w = [i \in 1 .. n - 1 |-> IF i < k THEN s[i] ELSE s[i + 1]]
      BY <1>3 DEF Without
    <2> HIDE DEF k, w, n
    <2>3. n - 1 \in Nat /\ \A i \in 1 .. n - 1 : i \in 1 .. n /\ i + 1 \in 1 .. n
      BY <1>1, <2>1
    <2>4. /\ w \in [1 .. n - 1 -> S]
          /\ \A i \in 1 .. n - 1 : w[i] = IF i < k THEN s[i] ELSE s[i + 1]
      BY <1>1, <2>1, <2>2, <2>3
    <2>5. w \in Seq(S) /\ Len(w) = n - 1
      BY <2>3, <2>4
    <2>6. ASSUME \A i, j \in 1 .. n : s[i] = s[j] => i = j
          PROVE  /\ Elems(w) = Elems(s) \ {e}
                 /\ \A i, j \in 1 .. Len(w) : w[i] = w[j] => i = j
      <3>1. \A i, j \in 1 .. n - 1 : w[i] = w[j] => i = j
        <4> SUFFICES ASSUME NEW i \in 1 .. n - 1, NEW j \in 1 .. n - 1, w[i] = w[j]
                     PROVE  i = j
          OBVIOUS
        <4>1. CASE i < k /\ j < k
          BY <2>3, <2>4, <2>6, <4>1
        <4>2. CASE i < k /\ ~(j < k)
          <5>1. s[i] = s[j + 1]
            BY <2>4, <4>2
          <5>2. i = j + 1
            BY <2>3, <2>6, <5>1
          <5> QED
            BY <1>1, <2>1, <4>2, <5>2
        <4>3. CASE ~(i < k) /\ j < k
          <5>1. s[i + 1] = s[j]
            BY <2>4, <4>3
          <5>2. i + 1 = j
            BY <2>3, <2>6, <5>1
          <5> QED
            BY <1>1, <2>1, <4>3, <5>2
        <4>4. CASE ~(i < k) /\ ~(j < k)
          <5>1. s[i + 1] = s[j + 1]
            BY <2>4, <4>4
          <5>2. i + 1 = j + 1
            BY <2>3, <2>6, <5>1
          <5> QED
            BY <1>1, <5>2
        <4> QED
          BY <4>1, <4>2, <4>3, <4>4
      <3>2. ASSUME NEW i \in 1 .. n - 1 PROVE w[i] \in Elems(s) \ {e}
        <4>1. CASE i < k
          <5>1. i \in 1 .. n /\ i # k
            BY <1>1, <2>1, <2>3, <4>1
          <5> QED
            BY <2>1, <2>4, <2>6, <4>1, <5>1 DEF Elems, n
        <4>2. CASE ~(i < k)
          <5>1. i + 1 \in 1 .. n /\ i + 1 # k
            BY <1>1, <2>1, <2>3, <4>2
          <5> QED
            BY <2>1, <2>4, <2>6, <4>2, <5>1 DEF Elems, n
        <4> QED
          BY <4>1, <4>2
      <3>3. ASSUME NEW i \in 1 .. n, s[i] # e PROVE \E j \in 1 .. n - 1 : w[j] = s[i]
        <4>1. CASE i < k
          <5>1. i \in 1 .. n - 1
            BY <1>1, <2>1, <4>1
          <5> QED
            BY <2>4, <4>1, <5>1
        <4>2. CASE ~(i < k)
          <5>1. i - 1 \in 1 .. n - 1 /\ ~(i - 1 < k) /\ (i - 1) + 1 = i
            BY <1>1, <2>1, <3>3, <4>2
          <5> QED
            BY <2>4, <5>1
        <4> QED
          BY <4>1, <4>2
      <3>4. Elems(w) = Elems(s) \ {e}
        <4>1. Elems(w) = {w[i] : i \in 1 .. n - 1}
          BY <2>5 DEF Elems
        <4>2. Elems(s) = {s[i] : i \in 1 .. n}
          BY DEF Elems, n
        <4> QED
          BY <3>2, <3>3, <4>1, <4>2
      <3> QED
        BY <2>5, <3>1, <3>4
    <2> QED
      BY <2>5, <2>6 DEF w, n
  <1> QED
    BY <1>2, <1>3

\* find_zombie_child finds the first zombie when there is one.
LEMMA FindZombie ==
    ASSUME NEW t \in Slots, children \in [Slots -> Seq(Slots)],
           \E c \in Elems(children[t]) : state[c] = "ZOMBIE"
    PROVE  /\ find_zombie_child(t) \in Elems(children[t])
           /\ find_zombie_child(t) \in Slots
           /\ state[find_zombie_child(t)] = "ZOMBIE"
  <1> DEFINE s == children[t]
             n == Len(s)
             D == {i \in 1 .. n : state[s[i]] = "ZOMBIE"}
  <1>1. s \in Seq(Slots) /\ n \in Nat /\ \A i \in 1 .. n : s[i] \in Slots
    BY LenProperties, ElementOfSeq
  <1>2. PICK k \in D : \A i \in D : ~(i < k)
    <2>1. D \subseteq Nat
      BY <1>1
    <2>2. PICK i \in 1 .. n : state[s[i]] = "ZOMBIE"
      BY DEF Elems
    <2>3. D # {}
      BY <2>2
    <2> HIDE DEF D
    <2> QED
      BY <2>1, <2>3, LeastNat
  <1>3. \A j \in 1 .. k - 1 : state[s[j]] # "ZOMBIE"
    <2> TAKE j \in 1 .. k - 1
    <2>1. j \in 1 .. n /\ j < k
      BY <1>1, <1>2
    <2> QED
      BY <1>2, <2>1
  <1>4. \E i \in 1 .. n : /\ state[s[i]] = "ZOMBIE"
                          /\ \A j \in 1 .. i - 1 : state[s[j]] # "ZOMBIE"
    BY <1>2, <1>3
  <1> DEFINE m == CHOOSE i \in 1 .. n : /\ state[s[i]] = "ZOMBIE"
                                        /\ \A j \in 1 .. i - 1 : state[s[j]] # "ZOMBIE"
  <1>5. m \in 1 .. n /\ state[s[m]] = "ZOMBIE"
    BY <1>4
  <1>6. find_zombie_child(t) = s[m]
    BY DEF find_zombie_child
  <1> HIDE DEF m
  <1> QED
    BY <1>1, <1>5, <1>6 DEF Elems

---------------------------------------------------------------------------
(* Type correctness.                                                       *)

TypeInv == TypeOK /\ TableInv(task_table)

LEMMA ScheduleType ==
    ASSUME NEW rq \in QueueType(Slots), NEW st \in [Slots -> States],
           NEW prev \in Slots \cup {NULL}, panic \in BOOLEAN,
           sched_schedule(rq, st, prev)
    PROVE  /\ run_queue' \in QueueType(Slots)
           /\ state' \in [Slots -> States]
           /\ current' \in Slots \cup {NULL}
           /\ panic' \in BOOLEAN
  <1>1. NextTask(rq) \in Slots
    BY SlotFacts, QueueTypes DEF NextTask
  <1>2. Requeued(st, prev) \in [Slots -> States]
    BY DEF Requeued, States
  <1>3. ~run_queue_poll_faults(rq) =>
          /\ run_queue_poll(rq) \in QueueType(Slots)
          /\ prev # NULL => run_queue_push(run_queue_poll(rq), prev) \in QueueType(Slots)
    BY SlotFacts, QueueTypes
  <1>4. "RUNNING" \in States
    BY DEF States
  <1> QED
    BY <1>1, <1>2, <1>3, <1>4 DEF sched_schedule, StillRunnable

LEMMA SleepType ==
    ASSUME TypeOK, NEW t \in Slots, NEW q \in WaitQueues \cup {NoQueue},
           NEW wqs \in [WaitQueues -> Seq(Slots)], SleepOn(t, q, wqs)
    PROVE  /\ waiters' \in [WaitQueues -> Seq(Slots)]
           /\ waiting' \in [Slots -> WaitQueues \cup {NoQueue}]
           /\ pc' \in [Slots -> Points]
           /\ run_queue' \in QueueType(Slots)
           /\ state' \in [Slots -> States]
           /\ current' \in Slots \cup {NULL}
           /\ panic' \in BOOLEAN
  <1>1. waiters' \in [WaitQueues -> Seq(Slots)]
    <2>1. \A s \in Seq(Slots) : Append(s, t) \in Seq(Slots)
      BY AppendProperties
    <2> QED
      BY <2>1 DEF SleepOn
  <1>2. waiting' \in [Slots -> WaitQueues \cup {NoQueue}] /\ pc' \in [Slots -> Points]
    BY DEF SleepOn, TypeOK, Points
  <1>3. [state EXCEPT ![t] = "INTERRUPTIBLE"] \in [Slots -> States]
    BY DEF TypeOK, States, Sleeping
  <1>4. run_queue \in QueueType(Slots) /\ panic \in BOOLEAN
    BY DEF TypeOK
  <1>5. sched_schedule(run_queue, [state EXCEPT ![t] = "INTERRUPTIBLE"], t)
    BY DEF SleepOn
  <1> QED
    BY <1>1, <1>2, <1>3, <1>4, <1>5, ScheduleType

LEMMA RemovedType ==
    ASSUME TypeOK, NEW t \in Slots
    PROVE  EntryRemoved(t) \in [WaitQueues -> Seq(Slots)]
  BY WithoutLemma DEF EntryRemoved, TypeOK

LEMMA ExitType ==
    ASSUME TypeOK, NEW t \in Slots,
           NEW wqs \in [WaitQueues -> Seq(Slots)], BeginExit(t, wqs)
    PROVE  /\ waiters' \in [WaitQueues -> Seq(Slots)]
           /\ wakelist' \in Seq(Slots)
           /\ waiting' \in [Slots -> WaitQueues \cup {NoQueue}]
           /\ pc' \in [Slots -> Points]
           /\ state' \in [Slots -> States]
  BY QueueFacts DEF BeginExit, TypeOK, Points, States

\* A slot that sched_waitpid frees without a panic was in use.
LEMMA ReapType ==
    ASSUME TypeInv, NEW t \in Slots, NEW c \in Slots, Reap(t, c)
    PROVE  /\ task_table' \in TableType
           /\ TableInv(task_table')
           /\ state' \in [Slots -> States]
           /\ parent' \in [Slots -> Slots \cup {NULL}]
           /\ children' \in [Slots -> Seq(Slots)]
           /\ panic' \in BOOLEAN
  <1>1. CASE task_table_free_panics(task_table, c)
    BY <1>1 DEF Reap, TypeInv, TypeOK
  <1>2. CASE ~task_table_free_panics(task_table, c)
    <2>1. c \in InUse(task_table)
      BY <1>2 DEF task_table_free_panics, InUse, PID_NONE
    <2>2. TableInv(task_table')
      BY <1>2, <2>1, FreeLemma DEF Reap, TypeInv
    <2>3. /\ state' \in [Slots -> States]
          /\ parent' \in [Slots -> Slots \cup {NULL}]
          /\ panic' \in BOOLEAN
      BY <1>2 DEF Reap, TypeInv, TypeOK, States
    <2>4. children' \in [Slots -> Seq(Slots)]
      <3>1. Without(children[t], c) \in Seq(Slots) /\ <<>> \in Seq(Slots)
        BY WithoutLemma DEF TypeInv, TypeOK
      <3> QED
        BY <1>2, <3>1 DEF Reap, TypeInv, TypeOK
    <2> QED
      BY <2>2, <2>3, <2>4 DEF TableInv
  <1> QED
    BY <1>1, <1>2

\* At boot the swapper and init are in the table, at slots 0 and 1.
LEMMA BootTable == Init => TableInv(task_table) /\ InUse(task_table) = {Swapper, InitTask}
  <1> SUFFICES ASSUME Init PROVE TableInv(task_table) /\ InUse(task_table) = {Swapper, InitTask}
    OBVIOUS
  <1> DEFINE t0 == task_table_init
             t1 == task_table_alloc(t0)
             n  == MAX_PROCESS_CNT
  <1>1. TableInv(t0) /\ HasFreeSlot(t0) /\ InUse(t0) = {}
    BY InitLemma, TableAssumption DEF HasFreeSlot, task_table_init
  <1>2. n \in Nat /\ n >= 2 /\ FreeSeq(t0) = [i \in 1 .. n |-> i - 1]
    BY InitLemma, TableAssumption, SchedAssumption
  <1>3. NextSlot(t0) = 0 /\ TableInv(t1) /\ InUse(t1) = {0}
    <2> HIDE DEF t0
    <2>1. Head(FreeSeq(t0)) = 0
      BY <1>2
    <2> QED
      BY <1>1, <2>1, AllocLemma
  <1>4. HasFreeSlot(t1)
    <2>1. (0 + 1) % COUNTER_MOD = 1
      <3>1. (COUNTER_MOD * 0 + 1) % COUNTER_MOD = 1
        BY TableAssumption, SchedAssumption, ModUnique
      <3> QED
        BY <3>1, TableAssumption
    <2>2. t1.free_head = 1 /\ t1.free_tail = n
      BY <2>1 DEF task_table_alloc, task_table_init
    <2> QED
      BY <2>2, <1>2 DEF HasFreeSlot
  <1>5. NextSlot(t1) = 1
    <2>1. FreeSeq(t1) = Tail(FreeSeq(t0))
      BY <1>1, AllocLemma
    <2>2. NextSlot(t1) = Head(FreeSeq(t1))
      BY <1>3, <1>4, AllocLemma
    <2> HIDE DEF t0, t1
    <2>3. Head(Tail(FreeSeq(t0))) = 1
      BY <1>2
    <2> QED
      BY <2>1, <2>2, <2>3
  <1>6. task_table = task_table_alloc(t1)
    BY DEF Init
  <1> HIDE DEF t1
  <1> QED
    BY <1>3, <1>4, <1>5, <1>6, AllocLemma DEF Swapper, InitTask

\* Boot leaves the state well typed.
LEMMA TypeInit == Init => TypeInv
  <1> SUFFICES ASSUME Init PROVE TypeInv
    OBVIOUS
  <1>1. TableInv(task_table)
    BY BootTable
  <1>2. run_queue \in QueueType(Slots)
    BY SlotFacts, InitRepresents, QueueTypes DEF Init
  <1>3. TypeOK
    <2>1. /\ state \in [Slots -> States]
          /\ parent \in [Slots -> Slots \cup {NULL}]
          /\ pc \in [Slots -> Points]
      BY DEF Init, States, Points
    <2>2. /\ children \in [Slots -> Seq(Slots)]
          /\ waiters \in [WaitQueues -> Seq(Slots)]
          /\ wakelist \in Seq(Slots)
      BY DEF Init
    <2>3. /\ pending \in [Slots -> SUBSET Signals]
          /\ waiting \in [Slots -> WaitQueues \cup {NoQueue}]
          /\ current \in Slots \cup {NULL}
          /\ panic \in BOOLEAN
      BY DEF Init
    <2>4. input \in 0 .. INPUT_MAX
      BY SchedAssumption DEF Init
    <2> QED
      BY <1>1, <1>2, <2>1, <2>2, <2>3, <2>4 DEF TypeOK, TableInv
  <1> QED
    BY <1>1, <1>3 DEF TypeInv

\* What the tasks' points of execution say of the process tree: a task that
\* has not left sched_exit has a parent and a slot, and an exiting task has
\* the CPU.
Life ==
    /\ FamilyOK
    /\ \A t \in Slots :
         /\ pc[t] # "dead" => parent[t] \in Slots /\ t \in InUse(task_table)
         /\ state[t] = "ZOMBIE" => pc[t] \in {"dead", "exit1", "exit2"}
         /\ pc[t] \in {"exit1", "exit2"} => t = current
         /\ pc[t] = "wait" => waiting[t] \in WaitQueues

LEMMA TypeStep == TypeInv /\ Life /\ [Next]_vars => TypeInv'
  <1> SUFFICES ASSUME TypeInv, Life, [Next]_vars PROVE TypeInv'
    OBVIOUS
  <1> USE DEF TypeInv
  <1>1. /\ task_table \in TableType /\ TableInv(task_table)
        /\ run_queue \in QueueType(Slots)
        /\ current \in Slots \cup {NULL}
        /\ state \in [Slots -> States]
        /\ parent \in [Slots -> Slots \cup {NULL}]
        /\ children \in [Slots -> Seq(Slots)]
        /\ pending \in [Slots -> SUBSET Signals]
        /\ waiters \in [WaitQueues -> Seq(Slots)]
        /\ wakelist \in Seq(Slots)
        /\ pc \in [Slots -> Points]
        /\ waiting \in [Slots -> WaitQueues \cup {NoQueue}]
        /\ input \in 0 .. INPUT_MAX
        /\ panic \in BOOLEAN
    BY DEF TypeOK
  <1>2. CASE Boot
    <2>1. sched_schedule(run_queue, state, NULL)
      BY <1>2 DEF Boot
    <2> QED
      BY <1>1, <1>2, <2>1, ScheduleType DEF Boot, TypeOK
  <1>3. CASE WakeNext
    <2>1. Head(wakelist) \in Slots /\ Tail(wakelist) \in Seq(Slots)
      BY <1>1, <1>3, HeadTailProperties DEF WakeNext
    <2>2. run_queue_push(run_queue, Head(wakelist)) \in QueueType(Slots)
      BY <1>1, <2>1, SlotFacts, QueueTypes
    <2> QED
      BY <1>1, <1>3, <2>1, <2>2 DEF WakeNext, TypeOK
  <1>4. ASSUME NEW t \in Slots, Yield(t) PROVE TypeInv'
    <2>1. sched_schedule(run_queue, state, t)
      BY <1>4 DEF Yield
    <2> QED
      BY <1>1, <1>4, <2>1, ScheduleType DEF Yield, TypeOK
  <1>5. ASSUME NEW t \in Slots, Read(t) PROVE TypeInv'
    <2>1. sched_schedule(run_queue, state, t)
      BY <1>5 DEF Read
    <2>2. pc' \in [Slots -> Points]
      BY <1>1, <1>5 DEF Read, Points
    <2> QED
      BY <1>1, <1>5, <2>1, <2>2, ScheduleType DEF Read, TypeOK
  <1>6. ASSUME NEW t \in Slots, ReadBody(t) PROVE TypeInv'
    <2>1. CASE SleepOn(t, TtyQueue, waiters) /\ UNCHANGED input
      BY <1>1, <1>6, <2>1, QueueFacts, SleepType DEF ReadBody, TypeOK
    <2>2. CASE /\ TakeInput \/ UNCHANGED input
               /\ pc' = [pc EXCEPT ![t] = "user"]
               /\ UNCHANGED <<run_queue, current, state, waiters, waiting, panic>>
      <3>1. pc' \in [Slots -> Points]
        BY <1>1, <2>2 DEF Points
      <3>2. input' \in 0 .. INPUT_MAX
        BY <1>1, <2>2, SchedAssumption DEF TakeInput
      <3> QED
        BY <1>1, <1>6, <2>2, <3>1, <3>2 DEF ReadBody, TypeOK
    <2> QED
      BY <1>6, <2>1, <2>2 DEF ReadBody
  <1>7. ASSUME NEW t \in Slots, Fork(t) PROVE TypeInv'
    <2> DEFINE c == NextSlot(task_table)
    <2>1. c \in Slots /\ TableInv(task_table')
      BY <1>1, <1>7, AllocLemma DEF Fork
    <2> HIDE DEF c
    <2>2. run_queue' \in QueueType(Slots)
      BY <1>1, <1>7, <2>1, SlotFacts, QueueTypes DEF Fork, c
    <2>3. children' \in [Slots -> Seq(Slots)]
      <3>1. <<c>> \o children[t] \in Seq(Slots)
        BY <1>1, <2>1
      <3> QED
        BY <1>1, <1>7, <3>1 DEF Fork, c
    <2>4. waiters' \in [WaitQueues -> Seq(Slots)]
      <3>1. <<>> \in Seq(Slots)
        OBVIOUS
      <3> QED
        BY <1>1, <1>7, <3>1 DEF Fork
    <2>5. /\ parent' \in [Slots -> Slots \cup {NULL}]
          /\ pending' \in [Slots -> SUBSET Signals]
      BY <1>1, <1>7 DEF Fork
    <2>6. state' \in [Slots -> States] /\ pc' \in [Slots -> Points]
      BY <1>1, <1>7 DEF Fork, States, Points
    <2> QED
      BY <1>1, <1>7, <2>1, <2>2, <2>3, <2>4, <2>5, <2>6 DEF Fork, TypeOK, TableInv
  <1>8. ASSUME NEW t \in Slots, Execve(t) PROVE TypeInv'
    <2>1. [state EXCEPT ![t] = "QUEUED"] \in [Slots -> States]
      BY <1>1 DEF States
    <2>2. run_queue_push(run_queue, t) \in QueueType(Slots)
      BY <1>1, SlotFacts, QueueTypes
    <2>3. sched_schedule(run_queue_push(run_queue, t), [state EXCEPT ![t] = "QUEUED"], NULL)
      BY <1>8 DEF Execve
    <2>4. pending' \in [Slots -> SUBSET Signals]
      BY <1>1, <1>8 DEF Execve
    <2> QED
      BY <1>1, <1>8, <2>1, <2>2, <2>3, <2>4, ScheduleType DEF Execve, TypeOK
  <1>9. ASSUME NEW t \in Slots, Exit(t) PROVE TypeInv'
    BY <1>1, <1>9, ExitType DEF Exit, TypeOK
  <1>10. ASSUME NEW t \in Slots, NEW pid, NEW sig \in Signals, Kill(t, pid, sig)
         PROVE  TypeInv'
    <2>1. PICK s \in task_table_find(task_table, pid) :
            /\ pending' = [pending EXCEPT ![s] = @ \cup {sig}]
            /\ run_queue' = IF state[s] = "INTERRUPTIBLE"
                            THEN run_queue_push(run_queue, s) ELSE run_queue
      BY <1>10 DEF Kill
    <2>2. s \in Slots
      BY DEF task_table_find
    <2>3. run_queue' \in QueueType(Slots)
      BY <1>1, <2>1, <2>2, SlotFacts, QueueTypes
    <2>4. pending' \in [Slots -> SUBSET Signals]
      BY <1>1, <2>1, <2>2
    <2> QED
      BY <1>1, <1>10, <2>3, <2>4 DEF Kill, TypeOK
  <1>11. ASSUME NEW t \in Slots, NEW c \in Slots, WaitpidOne(t, c) PROVE TypeInv'
    <2>1. CASE Reap(t, c) /\ UNCHANGED <<run_queue, current, waiters, pc, waiting>>
      BY <1>1, <1>11, <2>1, ReapType DEF WaitpidOne, TypeOK
    <2>2. CASE SleepOn(t, ExitQueue(c), waiters) /\ UNCHANGED <<task_table, parent, children>>
      BY <1>1, <1>11, <2>2, QueueFacts, SleepType DEF WaitpidOne, TypeOK
    <2> QED
      BY <1>11, <2>1, <2>2 DEF WaitpidOne
  <1>12. ASSUME NEW t \in Slots, WaitpidAny(t) PROVE TypeInv'
    <2>1. CASE /\ Condition(t, ChildQueue(t))
               /\ Reap(t, find_zombie_child(t))
               /\ UNCHANGED <<run_queue, current, waiters, pc, waiting>>
      <3>1. find_zombie_child(t) \in Slots
        BY <1>1, <2>1, FindZombie DEF Condition, ChildQueue, TtyQueue
      <3> QED
        BY <1>1, <1>12, <2>1, <3>1, ReapType DEF WaitpidAny, TypeOK
    <2>2. CASE SleepOn(t, ChildQueue(t), waiters) /\ UNCHANGED <<task_table, parent, children>>
      BY <1>1, <1>12, <2>2, QueueFacts, SleepType DEF WaitpidAny, TypeOK
    <2> QED
      BY <1>12, <2>1, <2>2 DEF WaitpidAny
  <1>13. ASSUME NEW t \in Slots, WaitInterrupted(t) PROVE TypeInv'
    BY <1>1, <1>13, RemovedType, ExitType DEF WaitInterrupted, TypeOK
  <1>14. ASSUME NEW t \in Slots, WaitAgain(t) PROVE TypeInv'
    BY <1>1, <1>14, RemovedType, SleepType DEF WaitAgain, TypeOK
  <1>15. ASSUME NEW t \in Slots, WaitDone(t) PROVE TypeInv'
    <2>1. /\ waiters' \in [WaitQueues -> Seq(Slots)]
          /\ waiting' \in [Slots -> WaitQueues \cup {NoQueue}]
          /\ pc' \in [Slots -> Points]
      BY <1>1, <1>15, RemovedType DEF WaitDone, Points
    <2>2. CASE /\ TakeInput
               /\ UNCHANGED <<task_table, state, parent, children, panic>>
      <3>1. input' \in 0 .. INPUT_MAX
        BY <1>1, <2>2, SchedAssumption DEF TakeInput
      <3> QED
        BY <1>1, <1>15, <2>1, <2>2, <3>1 DEF WaitDone, TypeOK
    <2>3. CASE waiting[t][1] = "exit" /\ Reap(t, waiting[t][2]) /\ UNCHANGED input
      <3>1. waiting[t][2] \in Slots
        BY <1>1, <2>3, QueueFacts
      <3> QED
        BY <1>1, <1>15, <2>1, <2>3, <3>1, ReapType DEF WaitDone, TypeOK
    <2>4. CASE waiting[t][1] = "child" /\ Reap(t, find_zombie_child(t)) /\ UNCHANGED input
      <3>1. \E c \in Elems(children[t]) : state[c] = "ZOMBIE"
        BY <1>15, <2>4 DEF WaitDone, Condition, TtyQueue
      <3>2. find_zombie_child(t) \in Slots
        BY <1>1, <3>1, FindZombie
      <3> QED
        BY <1>1, <1>15, <2>1, <2>4, <3>2, ReapType DEF WaitDone, TypeOK
    <2> QED
      BY <1>15, <2>2, <2>3, <2>4 DEF WaitDone
  <1>16. ASSUME NEW t \in Slots, ExitNotifyParent(t) PROVE TypeInv'
    <2>1. pc' \in [Slots -> Points]
      BY <1>1, <1>16 DEF ExitNotifyParent, Points
    <2>2. CASE detach(ChildQueue(parent[t]))
      <3>1. ChildQueue(parent[t]) \in WaitQueues
        BY <1>16, QueueFacts DEF Life, ExitNotifyParent, At
      <3>2. waiters' \in [WaitQueues -> Seq(Slots)] /\ wakelist' \in Seq(Slots)
        <4>1. <<>> \in Seq(Slots)
          OBVIOUS
        <4> QED
          BY <1>1, <2>2, <3>1, <4>1 DEF detach
      <3> QED
        BY <1>1, <1>16, <2>1, <3>2 DEF ExitNotifyParent, TypeOK
    <2>3. CASE UNCHANGED <<wakelist, waiters>>
      BY <1>1, <1>16, <2>1, <2>3 DEF ExitNotifyParent, TypeOK
    <2> QED
      BY <1>16, <2>2, <2>3 DEF ExitNotifyParent
  <1>17. ASSUME NEW t \in Slots, ExitSwitch(t) PROVE TypeInv'
    <2>1. pc' \in [Slots -> Points] /\ sched_schedule(run_queue, state, NULL)
      BY <1>1, <1>17 DEF ExitSwitch, Points
    <2> QED
      BY <1>1, <1>17, <2>1, ScheduleType DEF ExitSwitch, TypeOK
  <1>18. CASE SwapperHalt
    BY <1>1, <1>18 DEF SwapperHalt, TypeOK, Points
  <1>19. CASE SwapperYield
    <2>1. pc' \in [Slots -> Points] /\ sched_schedule(run_queue, state, Swapper)
      BY <1>1, <1>19 DEF SwapperYield, Points
    <2> QED
      BY <1>1, <1>19, <2>1, SlotFacts, ScheduleType DEF SwapperYield, TypeOK
  <1>20. CASE KeyboardInput
    <2>1. pc' \in [Slots -> Points]
      BY <1>1, <1>20 DEF KeyboardInput, EndHalt, Points
    <2>2. input' \in 0 .. INPUT_MAX
      BY <1>1, <1>20, SchedAssumption DEF KeyboardInput
    <2>3. waiters' \in [WaitQueues -> Seq(Slots)] /\ wakelist' \in Seq(Slots)
      <3>1. <<>> \in Seq(Slots) /\ TtyQueue \in WaitQueues
        BY QueueFacts
      <3>2. CASE detach(TtyQueue)
        BY <1>1, <3>1, <3>2 DEF detach
      <3>3. CASE UNCHANGED <<wakelist, waiters>>
        BY <1>1, <3>3
      <3> QED
        BY <1>20, <3>2, <3>3 DEF KeyboardInput
    <2> QED
      BY <1>1, <1>20, <2>1, <2>2, <2>3 DEF KeyboardInput, TypeOK
  <1>21. CASE UNCHANGED vars
    BY <1>1, <1>21 DEF vars, TypeOK
  <1> QED
    BY <1>2, <1>3, <1>4, <1>5, <1>6, <1>7, <1>8, <1>9, <1>10, <1>11, <1>12, <1>13,
       <1>14, <1>15, <1>16, <1>17, <1>18, <1>19, <1>20, <1>21
       DEF Next, UserStep, KernelStep

---------------------------------------------------------------------------
(* The process tree, for every workload.                                   *)

\* sched_schedule makes no zombies.
LEMMA ScheduleZombie ==
    ASSUME NEW rq \in QueueType(Slots), NEW st \in [Slots -> States],
           NEW prev \in Slots \cup {NULL}, sched_schedule(rq, st, prev),
           NEW x \in Slots, state'[x] = "ZOMBIE"
    PROVE  st[x] = "ZOMBIE"
  <1>1. NextTask(rq) \in Slots
    BY SlotFacts, QueueTypes DEF NextTask
  <1>2. Requeued(st, prev) \in [Slots -> States]
    BY DEF Requeued, States
  <1>3. Requeued(st, prev)[x] = "ZOMBIE" => st[x] = "ZOMBIE"
    BY DEF Requeued, StillRunnable
  <1> QED
    BY <1>1, <1>2, <1>3 DEF sched_schedule

\* At boot no task has children, is a zombie or waits.
LEMMA LifeInit == Init => Life
  <1> SUFFICES ASSUME Init PROVE Life
    OBVIOUS
  <1>1. \A p \in Slots : Len(children[p]) = 0
    BY DEF Init
  <1>2. FamilyOK
    BY <1>1 DEF FamilyOK, Init
  <1>3. \A t \in Slots : pc[t] # "dead" => parent[t] \in Slots /\ t \in InUse(task_table)
    BY BootTable, SlotFacts DEF Init
  <1> QED
    BY <1>2, <1>3 DEF Life, Init

\* A step that leaves the table and the family links alone, lets no dead task
\* run, and makes a task wait only for a child of its own.
LEMMA LifeFrame ==
    ASSUME TypeInv, TypeInv', Life,
           UNCHANGED <<task_table, parent, children>>,
           \A x \in Slots :
             /\ pc'[x] # "dead" => pc[x] # "dead"
             /\ state'[x] = "ZOMBIE" => pc'[x] \in {"dead", "exit1", "exit2"}
             /\ pc'[x] \in {"exit1", "exit2"} => x = current'
             /\ pc'[x] = "wait" =>
                  /\ waiting'[x] \in WaitQueues
                  /\ waiting'[x][1] = "exit" => waiting'[x][2] \in Elems(children[x])
    PROVE  Life'
  <1>1. FamilyOK'
    BY DEF Life, FamilyOK
  <1> QED
    BY <1>1 DEF Life

\* A call of sched_schedule by the current task t, which is not exiting and
\* stays alive.
LEMMA LifeSchedule ==
    ASSUME TypeInv, TypeInv', Life, NEW t \in Slots, current = t,
           pc[t] \notin {"dead", "exit1", "exit2"},
           UNCHANGED <<task_table, parent, children>>,
           NEW rq \in QueueType(Slots), NEW st \in [Slots -> States],
           NEW prev \in Slots \cup {NULL}, sched_schedule(rq, st, prev),
           \A x \in Slots : st[x] = "ZOMBIE" => state[x] = "ZOMBIE",
           \A x \in Slots \ {t} : pc'[x] = pc[x] /\ waiting'[x] = waiting[x],
           pc'[t] \notin {"exit1", "exit2"},
           pc'[t] = "wait" =>
             /\ waiting'[t] \in WaitQueues
             /\ waiting'[t][1] = "exit" => waiting'[t][2] \in Elems(children[t])
    PROVE  Life'
  <1>1. \A x \in Slots : pc'[x] # "dead" => pc[x] # "dead"
    OBVIOUS
  <1>2. \A x \in Slots : state'[x] = "ZOMBIE" => x # t /\ pc[x] = "dead"
    <2> SUFFICES ASSUME NEW x \in Slots, state'[x] = "ZOMBIE" PROVE x # t /\ pc[x] = "dead"
      OBVIOUS
    <2>1. state[x] = "ZOMBIE"
      BY ScheduleZombie
    <2> QED
      BY <2>1 DEF Life
  <1>3. \A x \in Slots : pc'[x] \notin {"exit1", "exit2"}
    BY DEF Life
  <1>4. \A x \in Slots : pc'[x] = "wait" =>
          /\ waiting'[x] \in WaitQueues
          /\ waiting'[x][1] = "exit" => waiting'[x][2] \in Elems(children[x])
    BY DEF Life, FamilyOK
  <1> QED
    BY <1>1, <1>2, <1>3, <1>4, LifeFrame

\* wait_event putting the current task to sleep, on a child of its own when it
\* is an exit queue.
LEMMA LifeSleep ==
    ASSUME TypeInv, TypeInv', Life, NEW t \in Slots, current = t,
           pc[t] \notin {"dead", "exit1", "exit2"},
           UNCHANGED <<task_table, parent, children>>,
           NEW q \in WaitQueues, NEW wqs, SleepOn(t, q, wqs),
           q[1] = "exit" => q[2] \in Elems(children[t])
    PROVE  Life'
  <1> DEFINE st == [state EXCEPT ![t] = "INTERRUPTIBLE"]
  <1>1. /\ run_queue \in QueueType(Slots) /\ state \in [Slots -> States]
        /\ pc \in [Slots -> Points] /\ waiting \in [Slots -> WaitQueues \cup {NoQueue}]
    BY DEF TypeInv, TypeOK
  <1>2. st \in [Slots -> States] /\ \A x \in Slots : st[x] = "ZOMBIE" => state[x] = "ZOMBIE"
    BY <1>1 DEF States, Sleeping
  <1>3. sched_schedule(run_queue, st, t)
    BY DEF SleepOn
  <1>4. /\ \A x \in Slots \ {t} : pc'[x] = pc[x] /\ waiting'[x] = waiting[x]
        /\ pc'[t] = "wait" /\ waiting'[t] = q
    BY <1>1 DEF SleepOn
  <1> HIDE DEF st
  <1> QED
    BY <1>1, <1>2, <1>3, <1>4, LifeSchedule

\* sched_exit of the current task.
LEMMA LifeExit ==
    ASSUME TypeInv, TypeInv', Life, NEW t \in Slots, current = t, current' = t,
           pc[t] \notin {"dead", "exit1", "exit2"},
           UNCHANGED <<task_table, parent, children>>,
           NEW wqs, BeginExit(t, wqs)
    PROVE  Life'
  <1>1. /\ state \in [Slots -> States] /\ pc \in [Slots -> Points]
        /\ waiting \in [Slots -> WaitQueues \cup {NoQueue}]
    BY DEF TypeInv, TypeOK
  <1>2. /\ state'[t] = "ZOMBIE" /\ pc'[t] = "exit1"
        /\ \A x \in Slots \ {t} :
             pc'[x] = pc[x] /\ waiting'[x] = waiting[x] /\ state'[x] = state[x]
    BY <1>1 DEF BeginExit
  <1>3. \A x \in Slots :
             /\ pc'[x] # "dead" => pc[x] # "dead"
             /\ state'[x] = "ZOMBIE" => pc'[x] \in {"dead", "exit1", "exit2"}
             /\ pc'[x] \in {"exit1", "exit2"} => x = current'
             /\ pc'[x] = "wait" =>
                  /\ waiting'[x] \in WaitQueues
                  /\ waiting'[x][1] = "exit" => waiting'[x][2] \in Elems(children[x])
    BY <1>2 DEF Life, FamilyOK
  <1> QED
    BY <1>3, LifeFrame

\* fork: the new child has a slot that nobody knew.
LEMMA LifeFork ==
    ASSUME TypeInv, TypeInv', Life, NEW t \in Slots, Fork(t)
    PROVE  Life'
  <1> DEFINE c == NextSlot(task_table)
  <1>1. /\ parent \in [Slots -> Slots \cup {NULL}]
        /\ children \in [Slots -> Seq(Slots)]
        /\ state \in [Slots -> States] /\ pc \in [Slots -> Points]
        /\ waiting \in [Slots -> WaitQueues \cup {NoQueue}]
        /\ current = t /\ pc[t] = "user" /\ current' = t /\ waiting' = waiting
    BY DEF TypeInv, TypeOK, Fork, Makes, At
  <1>2. /\ c \in Slots /\ c \notin InUse(task_table)
        /\ InUse(task_table') = InUse(task_table) \cup {c}
    BY AllocLemma DEF TypeInv, Fork
  <1>3. /\ parent' = [parent EXCEPT ![c] = t]
        /\ children' = [children EXCEPT ![t] = <<c>> \o @]
        /\ state' = [state EXCEPT ![c] = "QUEUED"]
        /\ pc' = [pc EXCEPT ![c] = "user"]
    BY DEF Fork
  <1> HIDE DEF c
  <1>4. t \in InUse(task_table) /\ t # c /\ pc[c] = "dead"
    BY <1>1, <1>2 DEF Life
  <1>5. \A p \in Slots : c \notin Elems(children[p])
    BY <1>2 DEF Life, FamilyOK, Elems
  <1>6. /\ Len(children'[t]) = Len(children[t]) + 1
        /\ children'[t][1] = c
        /\ \A i \in 2 .. Len(children'[t]) :
             i - 1 \in 1 .. Len(children[t]) /\ children'[t][i] = children[t][i - 1]
    <2>1. children[t] \in Seq(Slots) /\ children'[t] = <<c>> \o children[t]
      BY <1>1, <1>3
    <2>2. Len(children[t]) \in Nat
      BY <2>1, LenProperties
    <2> QED
      BY <2>1, <2>2, <1>2, ConcatProperties
  <1>7. \A p \in Slots \ {t} : children'[p] = children[p]
    BY <1>1, <1>3
  <1>8. \A p \in Slots : \A i, j \in 1 .. Len(children'[p]) :
          /\ parent'[children'[p][i]] = p
          /\ children'[p][i] # p
          /\ children'[p][i] \in InUse(task_table')
          /\ p \in InUse(task_table')
          /\ children'[p][i] = children'[p][j] => i = j
    <2> SUFFICES ASSUME NEW p \in Slots, NEW i \in 1 .. Len(children'[p]),
                        NEW j \in 1 .. Len(children'[p])
                 PROVE  /\ parent'[children'[p][i]] = p
                        /\ children'[p][i] # p
                        /\ children'[p][i] \in InUse(task_table')
                        /\ p \in InUse(task_table')
                        /\ children'[p][i] = children'[p][j] => i = j
      OBVIOUS
    <2>0. Len(children[p]) \in Nat /\ \A k \in 1 .. Len(children[p]) : children[p][k] \in Slots
      BY <1>1, LenProperties, ElementOfSeq
    <2>1. CASE p # t
      <3>1. children'[p] = children[p]
        BY <1>7, <2>1
      <3>2. children[p][i] # c
        BY <1>5, <3>1 DEF Elems
      <3> QED
        BY <1>1, <1>2, <1>3, <2>0, <3>1, <3>2 DEF Life, FamilyOK
    <2>2. CASE p = t
      <3>1. \A k \in 1 .. Len(children[t]) :
              /\ children[t][k] # c /\ parent[children[t][k]] = t
              /\ children[t][k] # t /\ children[t][k] \in InUse(task_table)
        BY <1>5 DEF Elems, Life, FamilyOK
      <3>2. \A k, l \in 1 .. Len(children[t]) : children[t][k] = children[t][l] => k = l
        BY DEF Life, FamilyOK
      <3>3. \A k \in 1 .. Len(children'[t]) : k = 1 \/ k \in 2 .. Len(children'[t])
        BY <1>6, <2>0, <2>2
      <3>4. \A k \in 1 .. Len(children'[t]) :
              /\ parent'[children'[t][k]] = t
              /\ children'[t][k] # t
              /\ children'[t][k] \in InUse(task_table')
        BY <1>1, <1>2, <1>3, <1>4, <1>6, <2>0, <2>2, <3>1, <3>3
      <3>5. children'[t][i] = children'[t][j] => i = j
        <4>1. CASE i = 1 /\ j = 1
          BY <4>1
        <4>2. CASE i = 1 /\ j # 1
          BY <1>6, <2>2, <3>1, <3>3, <4>2
        <4>3. CASE i # 1 /\ j = 1
          BY <1>6, <2>2, <3>1, <3>3, <4>3
        <4>4. CASE i # 1 /\ j # 1
          <5>1. /\ i - 1 \in 1 .. Len(children[t]) /\ children'[t][i] = children[t][i - 1]
                /\ j - 1 \in 1 .. Len(children[t]) /\ children'[t][j] = children[t][j - 1]
            BY <1>6, <2>2, <3>3, <4>4
          <5>2. children'[t][i] = children'[t][j] => i - 1 = j - 1
            BY <3>2, <5>1
          <5> QED
            BY <5>2, <2>2, <1>6, <2>0
        <4> QED
          BY <4>1, <4>2, <4>3, <4>4
      <3> QED
        BY <1>2, <1>4, <2>2, <3>4, <3>5
    <2> QED
      BY <2>1, <2>2
  <1>9. \A x \in Slots : pc'[x] = "wait" /\ waiting'[x][1] = "exit" =>
          waiting'[x][2] \in Elems(children'[x])
    <2> SUFFICES ASSUME NEW x \in Slots, pc'[x] = "wait", waiting'[x][1] = "exit"
                 PROVE  waiting'[x][2] \in Elems(children'[x])
      OBVIOUS
    <2>1. x # c /\ x # t /\ pc[x] = "wait"
      BY <1>1, <1>2, <1>3, <1>4
    <2> QED
      BY <1>1, <1>7, <2>1 DEF Life, FamilyOK
  <1>10. FamilyOK'
    BY <1>8, <1>9 DEF FamilyOK
  <1> QED
    BY <1>1, <1>2, <1>3, <1>4, <1>10 DEF Life

\* The child that sched_waitpid frees has left sched_exit for good, and only
\* its parent's list and wait queue knew it.
LEMMA LifeReap ==
    ASSUME TypeInv, TypeInv', Life, NEW t \in Slots, current = t, current' = t,
           pc[t] \in {"user", "wait"},
           NEW c \in Elems(children[t]), state[c] = "ZOMBIE", Reap(t, c),
           \A x \in Slots \ {t} : pc'[x] = pc[x] /\ waiting'[x] = waiting[x],
           pc'[t] = "user"
    PROVE  Life' /\ panic' = panic
  <1>1. /\ parent \in [Slots -> Slots \cup {NULL}]
        /\ children \in [Slots -> Seq(Slots)]
        /\ state \in [Slots -> States] /\ pc \in [Slots -> Points]
    BY DEF TypeInv, TypeOK
  <1>2. /\ c \in Slots /\ c # t /\ parent[c] = t
        /\ c \in InUse(task_table) /\ t \in InUse(task_table)
    BY <1>1 DEF Elems, Life, FamilyOK, InUse
  <1>3. pc[c] = "dead"
    BY <1>2 DEF Life
  <1>4. ~task_table_free_panics(task_table, c)
    BY <1>2, InUseLemma DEF TypeInv
  <1>5. /\ state' = [state EXCEPT ![c] = "POOLED"]
        /\ parent' = [parent EXCEPT ![c] = NULL]
        /\ children' = [[children EXCEPT ![t] = Without(@, c)] EXCEPT ![c] = <<>>]
        /\ panic' = panic
        /\ InUse(task_table') = InUse(task_table) \ {c}
    BY <1>2, <1>4, FreeLemma DEF Reap, TypeInv
  <1>6. /\ children'[c] = <<>> /\ children'[t] = Without(children[t], c)
        /\ \A p \in Slots \ {c, t} : children'[p] = children[p]
    BY <1>1, <1>2, <1>5
  <1>7. /\ \A i, j \in 1 .. Len(children'[t]) : children'[t][i] = children'[t][j] => i = j
        /\ Elems(children'[t]) = Elems(children[t]) \ {c}
    <2>1. \A i, j \in 1 .. Len(children[t]) : children[t][i] = children[t][j] => i = j
      BY DEF Life, FamilyOK
    <2>2. children[t] \in Seq(Slots)
      BY <1>1
    <2> QED
      BY <1>6, <2>1, <2>2, WithoutLemma
  <1>8. \A p \in Slots \ {t} : c \notin Elems(children[p])
    BY <1>2 DEF Elems, Life, FamilyOK
  <1>9. \A p \in Slots : \A x \in Elems(children'[p]) :
          p # c /\ x \in Elems(children[p]) /\ x # c
    <2>1. Elems(children'[c]) = {}
      BY <1>6 DEF Elems
    <2> QED
      BY <1>6, <1>7, <1>8, <2>1
  <1>10. \A p \in Slots : \A i, j \in 1 .. Len(children'[p]) :
           /\ parent'[children'[p][i]] = p
           /\ children'[p][i] # p
           /\ children'[p][i] \in InUse(task_table')
           /\ p \in InUse(task_table')
           /\ children'[p][i] = children'[p][j] => i = j
    <2> SUFFICES ASSUME NEW p \in Slots, NEW i \in 1 .. Len(children'[p]),
                        NEW j \in 1 .. Len(children'[p])
                 PROVE  /\ parent'[children'[p][i]] = p
                        /\ children'[p][i] # p
                        /\ children'[p][i] \in InUse(task_table')
                        /\ p \in InUse(task_table')
                        /\ children'[p][i] = children'[p][j] => i = j
      OBVIOUS
    <2> DEFINE x == children'[p][i]
    <2>1. x \in Elems(children'[p])
      BY DEF Elems
    <2>2. p # c /\ x \in Elems(children[p]) /\ x # c
      BY <1>9, <2>1
    <2>3. parent[x] = p /\ x # p /\ x \in InUse(task_table) /\ p \in InUse(task_table)
      BY <2>2 DEF Elems, Life, FamilyOK
    <2>4. parent'[x] = p /\ x \in InUse(task_table') /\ p \in InUse(task_table')
      BY <1>1, <1>5, <2>2, <2>3 DEF InUse
    <2>5. children'[p][i] = children'[p][j] => i = j
      BY <1>6, <1>7, <2>2 DEF Life, FamilyOK
    <2> QED
      BY <2>3, <2>4, <2>5
  <1>11. \A x \in Slots : pc'[x] = "wait" /\ waiting'[x][1] = "exit" =>
           waiting'[x][2] \in Elems(children'[x])
    <2> SUFFICES ASSUME NEW x \in Slots, pc'[x] = "wait", waiting'[x][1] = "exit"
                 PROVE  waiting'[x][2] \in Elems(children'[x])
      OBVIOUS
    <2>1. x # t /\ x # c /\ waiting'[x] = waiting[x] /\ pc[x] = "wait"
      BY <1>2, <1>3
    <2> QED
      BY <1>6, <2>1 DEF Life, FamilyOK
  <1>12. FamilyOK'
    BY <1>10, <1>11 DEF FamilyOK
  <1>13. \A x \in Slots :
           /\ pc'[x] # "dead" => parent'[x] \in Slots /\ x \in InUse(task_table')
           /\ state'[x] = "ZOMBIE" => pc'[x] \in {"dead", "exit1", "exit2"}
           /\ pc'[x] \in {"exit1", "exit2"} => x = current'
           /\ pc'[x] = "wait" => waiting'[x] \in WaitQueues
    <2> TAKE x \in Slots
    <2>1. CASE x = t
      <3>1. parent'[t] = parent[t] /\ parent[t] \in Slots
        BY <1>1, <1>2, <1>5 DEF Life
      <3>2. state'[t] # "ZOMBIE"
        BY <1>1, <1>2, <1>5 DEF Life
      <3> QED
        BY <1>2, <1>5, <2>1, <3>1, <3>2
    <2>2. CASE x = c
      BY <1>1, <1>2, <1>3, <2>2
    <2>3. CASE x # t /\ x # c
      BY <1>1, <1>5, <2>3 DEF Life
    <2> QED
      BY <2>1, <2>2, <2>3
  <1> QED
    BY <1>5, <1>12, <1>13 DEF Life

\* Every step keeps the tree.
LEMMA LifeStep == TypeInv /\ TypeInv' /\ Life /\ [Next]_vars => Life'
  <1> SUFFICES ASSUME TypeInv, TypeInv', Life, [Next]_vars PROVE Life'
    OBVIOUS
  <1>1. /\ run_queue \in QueueType(Slots) /\ state \in [Slots -> States]
        /\ pc \in [Slots -> Points] /\ waiting \in [Slots -> WaitQueues \cup {NoQueue}]
        /\ children \in [Slots -> Seq(Slots)]
        /\ NULL \in Slots \cup {NULL} /\ \A t \in Slots : t \in Slots \cup {NULL}
    BY DEF TypeInv, TypeOK
  <1>2. CASE Boot
    <2>1. sched_schedule(run_queue, state, NULL)
      BY <1>2 DEF Boot
    <2>2. \A x \in Slots : pc[x] \notin {"exit1", "exit2"}
      BY <1>2, SlotFacts DEF Boot, Life
    <2>3. \A x \in Slots : state'[x] = "ZOMBIE" => state[x] = "ZOMBIE"
      BY <1>1, <2>1, ScheduleZombie
    <2> QED
      BY <1>1, <1>2, <2>2, <2>3, LifeFrame DEF Boot, Life, FamilyOK
  <1>3. CASE WakeNext
    BY <1>1, <1>3, LifeFrame DEF WakeNext, Life, FamilyOK
  <1>4. ASSUME NEW t \in Slots, Yield(t) PROVE Life'
    BY <1>1, <1>4, LifeSchedule DEF Yield, Makes, At
  <1>5. ASSUME NEW t \in Slots, Read(t) PROVE Life'
    <2>1. /\ sched_schedule(run_queue, state, t) /\ current = t
          /\ pc[t] \notin {"dead", "exit1", "exit2"}
          /\ UNCHANGED <<task_table, parent, children>>
          /\ \A x \in Slots \ {t} : pc'[x] = pc[x] /\ waiting'[x] = waiting[x]
          /\ pc'[t] \in {"read1", "read2"}
      BY <1>1, <1>5 DEF Read, Makes, At
    <2> QED
      BY <1>1, <2>1, LifeSchedule
  <1>6. ASSUME NEW t \in Slots, ReadBody(t) PROVE Life'
    <2>1. current = t /\ pc[t] = "read2" /\ UNCHANGED <<task_table, parent, children>>
      BY <1>6 DEF ReadBody, At
    <2>2. CASE SleepOn(t, TtyQueue, waiters)
      <3>1. TtyQueue \in WaitQueues /\ TtyQueue[1] # "exit"
        BY QueueFacts DEF TtyQueue
      <3> QED
        BY <2>1, <2>2, <3>1, LifeSleep
    <2>3. CASE /\ pc' = [pc EXCEPT ![t] = "user"]
               /\ UNCHANGED <<run_queue, current, state, waiters, waiting, panic>>
      BY <1>1, <2>1, <2>3, LifeFrame DEF Life, FamilyOK
    <2> QED
      BY <1>6, <2>2, <2>3 DEF ReadBody
  <1>7. ASSUME NEW t \in Slots, Fork(t) PROVE Life'
    BY <1>7, LifeFork
  <1>8. ASSUME NEW t \in Slots, Execve(t) PROVE Life'
    <2>1. /\ [state EXCEPT ![t] = "QUEUED"] \in [Slots -> States]
          /\ \A x \in Slots : [state EXCEPT ![t] = "QUEUED"][x] = "ZOMBIE" => state[x] = "ZOMBIE"
      BY <1>1 DEF States
    <2>2. run_queue_push(run_queue, t) \in QueueType(Slots)
      BY <1>1, SlotFacts, QueueTypes
    <2>3. sched_schedule(run_queue_push(run_queue, t), [state EXCEPT ![t] = "QUEUED"], NULL)
      BY <1>8 DEF Execve
    <2>4. /\ current = t /\ pc[t] = "user" /\ UNCHANGED <<task_table, parent, children>>
          /\ pc' = pc /\ waiting' = waiting
      BY <1>8 DEF Execve, Makes, At
    <2> DEFINE rq == run_queue_push(run_queue, t)
               st == [state EXCEPT ![t] = "QUEUED"]
    <2> HIDE DEF rq, st
    <2>5. /\ TypeInv /\ TypeInv' /\ Life /\ NULL \in Slots \cup {NULL}
          /\ pc[t] \notin {"dead", "exit1", "exit2"} /\ pc'[t] = "user"
          /\ \A x \in Slots \ {t} : pc'[x] = pc[x] /\ waiting'[x] = waiting[x]
      BY <1>1, <2>4
    <2>6. /\ rq \in QueueType(Slots) /\ st \in [Slots -> States]
          /\ sched_schedule(rq, st, NULL)
          /\ \A x \in Slots : st[x] = "ZOMBIE" => state[x] = "ZOMBIE"
      BY <2>1, <2>2, <2>3 DEF rq, st
    <2> QED
      BY <2>4, <2>5, <2>6, LifeSchedule
  <1>9. ASSUME NEW t \in Slots, Exit(t) PROVE Life'
    <2>1. /\ current = t /\ current' = t /\ pc[t] = "user"
          /\ UNCHANGED <<task_table, parent, children>> /\ BeginExit(t, waiters)
      BY <1>9 DEF Exit, Makes, At
    <2> QED
      BY <2>1, LifeExit
  <1>10. ASSUME NEW t \in Slots, NEW pid, NEW sig \in Signals, Kill(t, pid, sig)
         PROVE  Life'
    BY <1>1, <1>10, LifeFrame DEF Kill, Life, FamilyOK
  <1>11. ASSUME NEW t \in Slots, NEW c \in Slots, WaitpidOne(t, c) PROVE Life'
    <2>1. current = t /\ pc[t] = "user" /\ c \in Elems(children[t])
      BY <1>11 DEF WaitpidOne, Makes, At
    <2>2. CASE /\ state[c] = "ZOMBIE"
               /\ Reap(t, c) /\ UNCHANGED <<run_queue, current, waiters, pc, waiting>>
      BY <2>1, <2>2, LifeReap
    <2>3. CASE SleepOn(t, ExitQueue(c), waiters) /\ UNCHANGED <<task_table, parent, children>>
      <3>1. ExitQueue(c) \in WaitQueues /\ ExitQueue(c)[2] = c
        BY QueueFacts DEF ExitQueue
      <3> QED
        BY <2>1, <2>3, <3>1, LifeSleep
    <2> QED
      BY <1>11, <2>2, <2>3 DEF WaitpidOne
  <1>12. ASSUME NEW t \in Slots, WaitpidAny(t) PROVE Life'
    <2>1. current = t /\ pc[t] = "user"
      BY <1>12 DEF WaitpidAny, Makes, At
    <2>2. CASE /\ Condition(t, ChildQueue(t))
               /\ Reap(t, find_zombie_child(t))
               /\ UNCHANGED <<run_queue, current, waiters, pc, waiting>>
      <3>1. /\ find_zombie_child(t) \in Elems(children[t])
            /\ state[find_zombie_child(t)] = "ZOMBIE"
        BY <1>1, <2>2, FindZombie DEF Condition, ChildQueue, TtyQueue
      <3> QED
        BY <2>1, <2>2, <3>1, LifeReap
    <2>3. CASE SleepOn(t, ChildQueue(t), waiters) /\ UNCHANGED <<task_table, parent, children>>
      <3>1. ChildQueue(t) \in WaitQueues /\ ChildQueue(t)[1] # "exit"
        BY QueueFacts DEF ChildQueue
      <3> QED
        BY <2>1, <2>3, <3>1, LifeSleep
    <2> QED
      BY <1>12, <2>2, <2>3 DEF WaitpidAny
  <1>13. ASSUME NEW t \in Slots, WaitInterrupted(t) PROVE Life'
    <2>1. /\ current = t /\ current' = t /\ pc[t] = "wait"
          /\ UNCHANGED <<task_table, parent, children>> /\ BeginExit(t, EntryRemoved(t))
      BY <1>13 DEF WaitInterrupted, At
    <2> QED
      BY <2>1, LifeExit
  <1>14. ASSUME NEW t \in Slots, WaitAgain(t) PROVE Life'
    <2>1. /\ current = t /\ pc[t] = "wait"
          /\ UNCHANGED <<task_table, parent, children>>
          /\ SleepOn(t, waiting[t], EntryRemoved(t))
      BY <1>14 DEF WaitAgain, At
    <2>2. /\ waiting[t] \in WaitQueues
          /\ waiting[t][1] = "exit" => waiting[t][2] \in Elems(children[t])
      BY <2>1 DEF Life, FamilyOK
    <2> QED
      BY <2>1, <2>2, LifeSleep
  <1>15. ASSUME NEW t \in Slots, WaitDone(t) PROVE Life'
    <2>1. /\ current = t /\ current' = t /\ pc[t] = "wait" /\ pc'[t] = "user"
          /\ Condition(t, waiting[t])
          /\ \A x \in Slots \ {t} : pc'[x] = pc[x] /\ waiting'[x] = waiting[x]
      BY <1>1, <1>15 DEF WaitDone, At
    <2>2. CASE UNCHANGED <<task_table, state, parent, children, panic>>
      BY <2>1, <2>2, LifeFrame DEF Life, FamilyOK
    <2>3. CASE waiting[t][1] = "exit" /\ Reap(t, waiting[t][2])
      <3>1. waiting[t][2] \in Elems(children[t])
        BY <2>1, <2>3 DEF Life, FamilyOK
      <3>2. state[waiting[t][2]] = "ZOMBIE"
        BY <2>1, <2>3 DEF Condition, TtyQueue
      <3> QED
        BY <2>1, <2>3, <3>1, <3>2, LifeReap
    <2>4. CASE waiting[t][1] = "child" /\ Reap(t, find_zombie_child(t))
      <3>1. \E c \in Elems(children[t]) : state[c] = "ZOMBIE"
        BY <2>1, <2>4 DEF Condition, TtyQueue
      <3>2. /\ find_zombie_child(t) \in Elems(children[t])
            /\ state[find_zombie_child(t)] = "ZOMBIE"
        BY <1>1, <3>1, FindZombie
      <3> QED
        BY <2>1, <2>4, <3>2, LifeReap
    <2> QED
      BY <1>15, <2>2, <2>3, <2>4 DEF WaitDone
  <1>16. ASSUME NEW t \in Slots, ExitNotifyParent(t) PROVE Life'
    <2>1. /\ UNCHANGED <<task_table, parent, children, state, current, waiting>>
          /\ current = t /\ pc[t] = "exit1" /\ pc'[t] = "exit2"
          /\ \A x \in Slots \ {t} : pc'[x] = pc[x]
      BY <1>1, <1>16 DEF ExitNotifyParent, At
    <2> QED
      BY <2>1, LifeFrame DEF Life, FamilyOK
  <1>17. ASSUME NEW t \in Slots, ExitSwitch(t) PROVE Life'
    <2>1. sched_schedule(run_queue, state, NULL) /\ pc' = [pc EXCEPT ![t] = "dead"]
      BY <1>17 DEF ExitSwitch
    <2>2. \A x \in Slots : pc'[x] \notin {"exit1", "exit2"}
      BY <1>1, <1>17, <2>1 DEF ExitSwitch, At, Life
    <2>3. \A x \in Slots : state'[x] = "ZOMBIE" => pc'[x] = "dead"
      <3>1. \A x \in Slots : state'[x] = "ZOMBIE" => state[x] = "ZOMBIE"
        BY <1>1, <2>1, ScheduleZombie
      <3> QED
        BY <1>1, <2>1, <2>2, <3>1 DEF Life
    <2>4. /\ UNCHANGED <<task_table, parent, children, waiting>>
          /\ pc[t] # "dead"
          /\ \A x \in Slots \ {t} : pc'[x] = pc[x]
          /\ pc'[t] = "dead"
      BY <1>1, <1>17 DEF ExitSwitch, At
    <2> QED
      BY <2>2, <2>3, <2>4, LifeFrame DEF Life, FamilyOK
  <1>18. CASE SwapperHalt
    BY <1>1, <1>18, SlotFacts, LifeFrame DEF SwapperHalt, At, Life, FamilyOK
  <1>19. CASE SwapperYield
    <2>1. /\ sched_schedule(run_queue, state, Swapper) /\ current = Swapper
          /\ pc[Swapper] = "yield" /\ Swapper \in Slots
          /\ UNCHANGED <<task_table, parent, children>>
          /\ \A x \in Slots \ {Swapper} : pc'[x] = pc[x] /\ waiting'[x] = waiting[x]
          /\ pc'[Swapper] = "user"
      BY <1>1, <1>19, SlotFacts DEF SwapperYield, At
    <2> QED
      BY <1>1, <2>1, LifeSchedule
  <1>20. CASE KeyboardInput
    <2>1. /\ UNCHANGED <<task_table, parent, children, state, current, waiting>>
          /\ \A x \in Slots : pc'[x] = pc[x] \/ (pc[x] = "hlt" /\ pc'[x] = "yield")
      BY <1>1, <1>20, SlotFacts DEF KeyboardInput, EndHalt
    <2> QED
      BY <2>1, LifeFrame DEF Life, FamilyOK
  <1>21. CASE UNCHANGED vars
    BY <1>21, LifeFrame DEF vars, Life, FamilyOK
  <1> QED
    BY <1>2, <1>3, <1>4, <1>5, <1>6, <1>7, <1>8, <1>9, <1>10, <1>11, <1>12, <1>13,
       <1>14, <1>15, <1>16, <1>17, <1>18, <1>19, <1>20, <1>21
       DEF Next, UserStep, KernelStep

\* Type correctness and the tree need each other: sched_exit follows a parent
\* pointer, and only the tree says that it is one.
LEMMA TreeInvariance == Spec => [](TypeInv /\ Life)
  <1>1. Init => TypeInv /\ Life
    BY TypeInit, LifeInit
  <1>2. TypeInv /\ Life /\ [Next]_vars => TypeInv' /\ Life'
    BY TypeStep, LifeStep
  <1> QED
    BY <1>1, <1>2, PTL DEF Spec

\* No operation of sched.c and wait.c, in any order and with any signals,
\* leaves the type of the scheduler's state: no list pointer, parent pointer
\* or wait queue of a system call is ever a null or stray one.
THEOREM TypeCorrect == Spec => []TypeOK
  BY TreeInvariance, PTL DEF TypeInv

\* sched_fork, sched_exit and sched_waitpid keep the process tree for every
\* table size and every order of calls, signals that corrupt the run queue
\* included: no slot is in two lists of children or in the list of a task that
\* is not its parent, and sched_waitpid waits for and frees own children only.
THEOREM FamilyCorrect == Spec => []FamilyOK
  BY TreeInvariance, PTL DEF Life

---------------------------------------------------------------------------
(* Safety, for every workload that does not signal sleeping tasks.         *)

\* The workload sends no signal to a task asleep in wait_event.
NoSleeperSignalled == "INTERRUPTIBLE" \notin KillTargets

\* The sleepers nobody has pushed to the run queue yet.
Asleep == {t \in Slots : Enlisted(t) \/ t \in Elems(wakelist)}

\* The tasks that can run when the states are st and the tasks W sleep.
RunnableIn(st, W) ==
    {t \in Slots : \/ st[t] = "QUEUED" /\ t # Swapper
                   \/ st[t] = "INTERRUPTIBLE" /\ t \notin W}

\* How a task's state, its point of execution and its wait queue entry agree.
TasksOK ==
    /\ \A t \in Slots :
         /\ state[t] # "UNINTERRUPTIBLE"
         /\ state[t] = "INTERRUPTIBLE" => pc[t] = "wait"
         /\ pc[t] = "wait" => state[t] \in {"INTERRUPTIBLE", "RUNNING"}
         /\ t \in Asleep => state[t] = "INTERRUPTIBLE"
         /\ pc[t] = "dead" => state[t] \in {"ZOMBIE", "POOLED"}
         /\ pc[t] \in {"exit1", "exit2"} => state[t] = "ZOMBIE"
         /\ pc[t] = "wait" /\ waiting[t][1] = "child" => waiting[t] = ChildQueue(t)
         /\ pc[t] \in {"hlt", "yield"} => t = Swapper
    /\ pc[Swapper] \in {"user", "hlt", "yield"}
    /\ state[Swapper] \in {"QUEUED", "RUNNING"}
    /\ current = NULL => \A t \in Slots : pc[t] \in {"user", "dead"}

\* The inductive invariant.
Safe ==
    /\ TasksOK
    /\ StatesOK
    /\ NoDanglingEntry
    /\ NoLostWakeup
    /\ HoldsExactly(run_queue, RunnableIn(state, Asleep))
    /\ NoPanic

---------------------------------------------------------------------------
(* The run queue as a set of tasks.                                        *)

\* A list that holds the set R is a sequence of distinct tasks.
LEMMA HoldsSeq ==
    ASSUME NEW rq \in QueueType(Slots), NEW R
    PROVE  HoldsExactly(rq, R) <=>
             \E q \in Seq(Slots) : Represents(rq, q) /\ Elems(q) = R
  <1>1. rq.len \in Nat
    BY DEF QueueType
  <1>2. ASSUME NEW q \in [1 .. rq.len -> Slots] PROVE q \in Seq(Slots)
    BY <1>1
  <1>3. ASSUME NEW q \in Seq(Slots), Represents(rq, q) PROVE q \in [1 .. rq.len -> Slots]
    <2>1. q \in [1 .. Len(q) -> Slots]
      BY LenProperties
    <2> QED
      BY <1>3, <2>1 DEF Represents
  <1> QED
    BY <1>2, <1>3 DEF HoldsExactly

\* Pushing a task that is not in the list adds it to the set.
LEMMA PushHolds ==
    ASSUME NEW rq \in QueueType(Slots), NEW R, HoldsExactly(rq, R),
           NEW t \in Slots, t \notin R
    PROVE  /\ run_queue_push(rq, t) \in QueueType(Slots)
           /\ HoldsExactly(run_queue_push(rq, t), R \cup {t})
  <1>1. run_queue_push(rq, t) \in QueueType(Slots)
    BY SlotFacts, QueueTypes
  <1>2. PICK q \in Seq(Slots) : Represents(rq, q) /\ Elems(q) = R
    BY HoldsSeq
  <1>3. \A i \in 1 .. Len(q) : q[i] # t
    BY <1>2 DEF Elems
  <1>4. Represents(run_queue_push(rq, t), Append(q, t))
    BY <1>2, <1>3, SlotFacts, PushRepresents
  <1>5. /\ Append(q, t) \in Seq(Slots) /\ Len(Append(q, t)) = Len(q) + 1 /\ Len(q) \in Nat
        /\ \A i \in 1 .. Len(q) : Append(q, t)[i] = q[i]
        /\ Append(q, t)[Len(q) + 1] = t
    BY AppendProperties, LenProperties
  <1>6. Elems(Append(q, t)) = R \cup {t}
    <2> DEFINE p == Append(q, t)
    <2> HIDE DEF p
    <2>1. \A x \in Elems(p) : x \in R \cup {t}
      <3> SUFFICES ASSUME NEW i \in 1 .. Len(p) PROVE p[i] \in R \cup {t}
        BY DEF Elems
      <3>1. CASE i = Len(q) + 1
        BY <1>5, <3>1 DEF p
      <3>2. CASE i # Len(q) + 1
        <4>1. i \in 1 .. Len(q)
          BY <1>5, <3>2 DEF p
        <4> QED
          BY <1>2, <1>5, <4>1 DEF p, Elems
      <3> QED
        BY <3>1, <3>2
    <2>2. t \in Elems(p)
      BY <1>5 DEF p, Elems
    <2>3. \A i \in 1 .. Len(q) : q[i] \in Elems(p)
      BY <1>5 DEF p, Elems
    <2>4. \A x \in R : x \in Elems(p)
      BY <1>2, <2>3 DEF Elems
    <2> QED
      BY <2>1, <2>2, <2>4 DEF p
  <1> QED
    BY <1>1, <1>4, <1>5, <1>6, HoldsSeq

\* Polling takes a task out of the set.
LEMMA PollHolds ==
    ASSUME NEW rq \in QueueType(Slots), NEW R, HoldsExactly(rq, R)
    PROVE  /\ ~run_queue_poll_faults(rq)
           /\ run_queue_poll(rq) \in QueueType(Slots)
           /\ R = {} => /\ PolledTask(rq) = NULL
                        /\ HoldsExactly(run_queue_poll(rq), {})
           /\ R # {} => /\ PolledTask(rq) \in R /\ PolledTask(rq) \in Slots
                        /\ HoldsExactly(run_queue_poll(rq), R \ {PolledTask(rq)})
  <1>1. PICK q \in Seq(Slots) : Represents(rq, q) /\ Elems(q) = R
    BY HoldsSeq
  <1>2. /\ ~run_queue_poll_faults(rq)
        /\ PolledTask(rq) = IF q = <<>> THEN NULL ELSE q[1]
        /\ Represents(run_queue_poll(rq), IF q = <<>> THEN q ELSE Tail(q))
    BY <1>1, SlotFacts, PollRepresents
  <1>3. run_queue_poll(rq) \in QueueType(Slots)
    BY <1>2, SlotFacts, QueueTypes
  <1>4. Len(q) \in Nat /\ \A i \in 1 .. Len(q) : q[i] \in Slots
    BY LenProperties, ElementOfSeq
  <1>5. CASE q = <<>>
    <2>1. R = {}
      BY <1>1, <1>5 DEF Elems
    <2> QED
      BY <1>1, <1>2, <1>3, <1>5, <2>1, HoldsSeq
  <1>6. CASE q # <<>>
    <2>1. /\ Len(q) >= 1 /\ q[1] \in R /\ q[1] \in Slots
          /\ PolledTask(rq) = q[1]
      <3>1. Len(q) # 0
        BY <1>6, EmptySeq
      <3> QED
        BY <1>1, <1>2, <1>4, <1>6, <3>1 DEF Elems
    <2>2. /\ Tail(q) \in Seq(Slots) /\ Len(Tail(q)) = Len(q) - 1
          /\ \A i \in 1 .. Len(q) - 1 : Tail(q)[i] = q[i + 1]
      BY <1>6, HeadTailProperties
    <2>3. \A i, j \in 1 .. Len(q) : q[i] = q[j] => i = j
      BY <1>1 DEF Represents
    <2>4. Elems(Tail(q)) = R \ {q[1]}
      <3> DEFINE p == Tail(q)
      <3> HIDE DEF p
      <3>1. ASSUME NEW i \in 1 .. Len(q) - 1 PROVE p[i] \in R \ {q[1]}
        <4>1. i + 1 \in 1 .. Len(q) /\ i + 1 # 1 /\ 1 \in 1 .. Len(q)
          BY <1>4, <2>1
        <4> QED
          BY <1>1, <2>2, <2>3, <4>1 DEF p, Elems
      <3>2. ASSUME NEW i \in 1 .. Len(q), q[i] # q[1] PROVE \E j \in 1 .. Len(q) - 1 : p[j] = q[i]
        <4>1. i - 1 \in 1 .. Len(q) - 1 /\ (i - 1) + 1 = i
          BY <1>4, <3>2
        <4> QED
          BY <2>2, <4>1 DEF p
      <3>3. Elems(p) = {p[i] : i \in 1 .. Len(q) - 1} /\ R = {q[i] : i \in 1 .. Len(q)}
        BY <1>1, <2>2 DEF p, Elems
      <3> QED
        BY <3>1, <3>2, <3>3 DEF p
    <2> QED
      BY <1>2, <1>3, <1>6, <2>1, <2>2, <2>4, HoldsSeq
  <1> QED
    BY <1>5, <1>6

LEMMA ReadyIs == Ready = RunnableIn(state, Asleep)
  BY DEF Ready, RunnableIn, Woken, Asleep

\* What sched_schedule does when the run queue holds what can run: it gives
\* the CPU to a task that can run, to the swapper or to its caller, and the
\* run queue again holds what can run.
LEMMA ScheduleHolds ==
    ASSUME NEW rq \in QueueType(Slots), NEW st \in [Slots -> States],
           NEW W, NEW prev \in Slots \cup {NULL},
           HoldsExactly(rq, RunnableIn(st, W)),
           prev # NULL => /\ st[prev] \in {"RUNNING", "INTERRUPTIBLE"}
                          /\ st[prev] = "INTERRUPTIBLE" => prev \in W,
           st[Swapper] \in {"QUEUED", "RUNNING"},
           sched_schedule(rq, st, prev)
    PROVE  /\ panic' = panic
           /\ current' \in Slots /\ state'[current'] = "RUNNING"
           /\ \/ current' = Swapper
              \/ current' = prev /\ st[prev] = "RUNNING"
              \/ current' \in RunnableIn(st, W)
           /\ \A x \in Slots \ {current'} :
                state'[x] = IF x = prev /\ st[x] = "RUNNING" THEN "QUEUED" ELSE st[x]
           /\ HoldsExactly(run_queue', RunnableIn(state', W))
  <1> DEFINE R == RunnableIn(st, W)
             n == NextTask(rq)
  <1>1. /\ ~run_queue_poll_faults(rq)
        /\ run_queue_poll(rq) \in QueueType(Slots)
        /\ R = {} => n = Swapper /\ HoldsExactly(run_queue_poll(rq), {})
        /\ R # {} => /\ n \in R /\ n \in Slots
                     /\ HoldsExactly(run_queue_poll(rq), R \ {n})
    BY PollHolds, SlotFacts DEF NextTask
  <1>2. Swapper \notin R /\ (prev # NULL => prev \notin R) /\ R \subseteq Slots
    BY DEF RunnableIn
  <1>3. n \in Slots /\ HoldsExactly(run_queue_poll(rq), R \ {n}) /\ (R = {} <=> n = Swapper)
    <2>1. R = {} => R \ {n} = {}
      OBVIOUS
    <2> QED
      BY <1>1, <1>2, <2>1, SlotFacts
  <1>4. CASE KeepsRunning(rq, st, prev)
    <2>1. run_queue' = run_queue_poll(rq) /\ state' = st /\ current' = prev /\ panic' = panic
      BY <1>1, <1>4 DEF sched_schedule
    <2>2. prev \in Slots /\ st[prev] = "RUNNING" /\ n = Swapper
      BY <1>4 DEF KeepsRunning
    <2>3. RunnableIn(state', W) = R \ {n}
      BY <1>2, <2>1, <2>2
    <2> QED
      BY <1>3, <2>1, <2>2, <2>3
  <1>5. CASE ~KeepsRunning(rq, st, prev)
    <2>1. /\ run_queue' = IF StillRunnable(st, prev) /\ prev # Swapper
                          THEN run_queue_push(run_queue_poll(rq), prev)
                          ELSE run_queue_poll(rq)
          /\ state' = [Requeued(st, prev) EXCEPT ![n] = "RUNNING"]
          /\ current' = n
          /\ panic' = panic
      BY <1>1, <1>5 DEF sched_schedule
    <2>2. StillRunnable(st, prev) <=> prev # NULL /\ st[prev] = "RUNNING"
      BY DEF StillRunnable, Sleeping
    <2>3. StillRunnable(st, prev) => n # Swapper /\ n # prev
      BY <1>2, <1>3, <1>1, <1>5, <2>2 DEF KeepsRunning
    <2>4. \A x \in Slots : state'[x] = IF x = n THEN "RUNNING"
                                       ELSE IF x = prev /\ st[x] = "RUNNING" THEN "QUEUED"
                                       ELSE st[x]
      <3>1. Requeued(st, prev) \in [Slots -> States]
        BY DEF Requeued, States
      <3>2. \A x \in Slots : Requeued(st, prev)[x] =
                 IF x = prev /\ st[x] = "RUNNING" THEN "QUEUED" ELSE st[x]
        BY <2>2, SlotFacts DEF Requeued
      <3> QED
        BY <2>1, <3>1, <3>2, <1>3
    <2>5. CASE StillRunnable(st, prev) /\ prev # Swapper
      <3>1. prev \in Slots /\ prev \notin R \ {n} /\ n # prev /\ st[prev] = "RUNNING"
        BY <1>2, <2>2, <2>3, <2>5
      <3>2. HoldsExactly(run_queue', (R \ {n}) \cup {prev})
        BY <1>1, <1>3, <2>1, <2>5, <3>1, PushHolds
      <3>3. RunnableIn(state', W) = (R \ {n}) \cup {prev}
        BY <1>3, <2>4, <2>5, <3>1 DEF RunnableIn
      <3> QED
        BY <1>1, <1>3, <2>1, <2>4, <3>2, <3>3
    <2>6. CASE ~(StillRunnable(st, prev) /\ prev # Swapper)
      <3>1. RunnableIn(state', W) = R \ {n}
        BY <1>3, <2>2, <2>4, <2>6, SlotFacts DEF RunnableIn
      <3>2. n = Swapper \/ n \in R
        BY <1>1, <1>3
      <3> QED
        BY <1>3, <2>1, <2>4, <2>6, <3>1, <3>2
    <2> QED
      BY <2>5, <2>6
  <1> QED
    BY <1>4, <1>5

---------------------------------------------------------------------------
(* The steps that call sched_schedule.                                     *)

\* A call of sched_schedule in states st, in which the caller prev is the only
\* task that runs and nobody waits for what has happened.
LEMMA SafeSchedule ==
    ASSUME TypeInv, TypeInv', Safe,
           NEW rq \in QueueType(Slots), NEW st \in [Slots -> States],
           NEW prev \in Slots \cup {NULL}, sched_schedule(rq, st, prev),
           UNCHANGED <<task_table, children, input>>,
           HoldsExactly(rq, RunnableIn(st, Asleep')),
           NoDanglingEntry',
           prev # NULL => /\ st[prev] \in {"RUNNING", "INTERRUPTIBLE"}
                          /\ st[prev] = "INTERRUPTIBLE" => prev \in Asleep',
           st[Swapper] \in {"QUEUED", "RUNNING"},
           pc'[Swapper] \in {"user", "hlt", "yield"},
           \A x \in Slots :
             /\ st[x] # "UNINTERRUPTIBLE"
             /\ st[x] = "INTERRUPTIBLE" <=> pc'[x] = "wait"
             /\ x \in Asleep' => st[x] = "INTERRUPTIBLE"
             /\ pc'[x] = "dead" => st[x] \in {"ZOMBIE", "POOLED"}
             /\ pc'[x] \notin {"exit1", "exit2"}
             /\ pc'[x] = "wait" /\ waiting'[x][1] = "child" => waiting'[x] = ChildQueue(x)
             /\ pc'[x] \in {"hlt", "yield"} => x = Swapper
             /\ st[x] = "RUNNING" => x = prev
             /\ st[x] = "POOLED" <=> x \notin InUse(task_table)
             /\ st[x] = "ZOMBIE" => state[x] = "ZOMBIE"
             /\ Enlisted(x)' => ~Condition(x, waiting'[x])
    PROVE  Safe'
  <1>1. /\ panic' = panic
        /\ current' \in Slots /\ state'[current'] = "RUNNING"
        /\ \/ current' = Swapper
           \/ current' = prev /\ st[prev] = "RUNNING"
           \/ current' \in RunnableIn(st, Asleep')
        /\ \A x \in Slots \ {current'} :
             state'[x] = IF x = prev /\ st[x] = "RUNNING" THEN "QUEUED" ELSE st[x]
        /\ HoldsExactly(run_queue', RunnableIn(state', Asleep'))
    BY ScheduleHolds
  <1>2. /\ st[current'] \in {"QUEUED", "RUNNING", "INTERRUPTIBLE"}
        /\ current' \notin Asleep'
    BY <1>1, SlotFacts DEF RunnableIn
  <1>3. TasksOK'
    <2>1. ASSUME NEW x \in Slots
          PROVE  /\ state'[x] # "UNINTERRUPTIBLE"
                 /\ state'[x] = "INTERRUPTIBLE" => pc'[x] = "wait"
                 /\ pc'[x] = "wait" => state'[x] \in {"INTERRUPTIBLE", "RUNNING"}
                 /\ x \in Asleep' => state'[x] = "INTERRUPTIBLE"
                 /\ pc'[x] = "dead" => state'[x] \in {"ZOMBIE", "POOLED"}
      BY <1>1, <1>2, <2>1
    <2>2. state'[Swapper] \in {"QUEUED", "RUNNING"}
      BY <1>1, SlotFacts
    <2>3. current' # NULL
      BY <1>1, SlotFacts
    <2> QED
      BY <2>1, <2>2, <2>3 DEF TasksOK
  <1>4. StatesOK'
    <2>1. \A x \in Slots : state'[x] = "POOLED" <=> x \notin InUse(task_table)
      BY <1>1, <1>2
    <2>2. \A x \in Slots : state'[x] = "RUNNING" => x = current'
      BY <1>1
    <2>3. pc'[current'] # "dead"
      BY <1>1, <1>2
    <2>4. InUse(task_table') = InUse(task_table)
      OBVIOUS
    <2> QED
      BY <1>1, <2>1, <2>2, <2>3, <2>4 DEF StatesOK
  <1>5. \A x \in Slots : state'[x] = "ZOMBIE" => state[x] = "ZOMBIE"
    BY <1>1
  <1>6. NoLostWakeup'
    <2> SUFFICES ASSUME NEW x \in Slots, Enlisted(x)', Condition(x, waiting[x])'
                 PROVE  FALSE
      BY DEF NoLostWakeup
    <2>1. waiting'[x] \in WaitQueues \cup {NoQueue}
      BY DEF TypeInv, TypeOK
    <2>2. \A c \in Elems(children[x]) : c \in Slots
      BY ElementOfSeq DEF TypeInv, TypeOK, Elems
    <2>3. Condition(x, waiting'[x])
      BY <1>5, <2>1, <2>2, QueueFacts DEF Condition
    <2> QED
      BY <2>3
  <1> QED
    BY <1>1, <1>3, <1>4, <1>6 DEF Safe, NoPanic

\* The current task runs, unless it is on its way out, and is in no queue.
LEMMA CurrentRuns ==
    ASSUME Safe, NEW t \in Slots, current = t, pc[t] \notin {"exit1", "exit2"}
    PROVE  state[t] = "RUNNING" /\ t \notin Asleep
  <1>1. state[t] = "RUNNING"
    BY SlotFacts DEF Safe, StatesOK
  <1> QED
    BY <1>1 DEF Safe, TasksOK

\* Nobody in a wait queue waits for what has happened already, when no task is
\* between the two wakeups of sched_exit.
LEMMA NobodyMissed ==
    ASSUME Safe, NEW x \in Slots, Enlisted(x), current = NULL \/ pc[current] # "exit1"
    PROVE  ~Condition(x, waiting[x])
  <1>1. CASE current = NULL
    BY <1>1 DEF Safe, TasksOK, Enlisted
  <1>2. CASE pc[current] # "exit1"
    BY <1>2 DEF Safe, NoLostWakeup
  <1> QED
    BY <1>1, <1>2

\* The tasks that wait queues and the list of wakeup point to.
LEMMA EntryFacts ==
    ASSUME TypeInv, NoDanglingEntry
    PROVE  /\ \A q \in WaitQueues : \A i \in 1 .. Len(waiters[q]) :
                /\ waiters[q][i] \in Asleep /\ waiters[q][i] \in Slots
                /\ pc[waiters[q][i]] = "wait" /\ waiting[waiters[q][i]] = q
           /\ \A i \in 1 .. Len(wakelist) :
                /\ wakelist[i] \in Asleep /\ wakelist[i] \in Slots
                /\ pc[wakelist[i]] = "wait" /\ ~Enlisted(wakelist[i])
  <1>1. /\ \A q \in WaitQueues : waiters[q] \in Seq(Slots)
        /\ wakelist \in Seq(Slots)
    BY DEF TypeInv, TypeOK
  <1>2. ASSUME NEW q \in WaitQueues, NEW i \in 1 .. Len(waiters[q])
        PROVE  /\ waiters[q][i] \in Asleep /\ waiters[q][i] \in Slots
               /\ pc[waiters[q][i]] = "wait" /\ waiting[waiters[q][i]] = q
    <2>1. waiters[q][i] \in Slots
      BY <1>1, ElementOfSeq
    <2>2. pc[waiters[q][i]] = "wait" /\ waiting[waiters[q][i]] = q
      BY DEF NoDanglingEntry
    <2> QED
      BY <2>1, <2>2 DEF Asleep, Enlisted, Elems
  <1>3. ASSUME NEW i \in 1 .. Len(wakelist)
        PROVE  /\ wakelist[i] \in Asleep /\ wakelist[i] \in Slots
               /\ pc[wakelist[i]] = "wait" /\ ~Enlisted(wakelist[i])
    <2>1. wakelist[i] \in Slots
      BY <1>1, ElementOfSeq
    <2> QED
      BY <2>1 DEF NoDanglingEntry, Asleep, Elems
  <1> QED
    BY <1>2, <1>3

\* A step that leaves the wait queues and the tasks in them alone.
LEMMA EntriesFrame ==
    ASSUME TypeInv, NoDanglingEntry, UNCHANGED <<waiters, wakelist>>,
           \A x \in Slots :
             /\ x \in Asleep => pc'[x] = pc[x] /\ waiting'[x] = waiting[x]
             /\ pc'[x] = "wait" => pc[x] = "wait" /\ waiting'[x] = waiting[x]
    PROVE  /\ NoDanglingEntry'
           /\ Asleep' = Asleep
           /\ \A x \in Slots : Enlisted(x)' <=> Enlisted(x)
  <1>1. \A x \in Slots : Enlisted(x)' <=> Enlisted(x)
    BY DEF Enlisted, Asleep
  <1>2. Asleep' = Asleep
    BY <1>1 DEF Asleep
  <1>3. \A q \in WaitQueues : \A i, j \in 1 .. Len(waiters[q]) :
          /\ pc'[waiters[q][i]] = "wait"
          /\ waiting'[waiters[q][i]] = q
          /\ waiters[q][i] = waiters[q][j] => i = j
    BY EntryFacts DEF NoDanglingEntry
  <1>4. \A i, j \in 1 .. Len(wakelist) :
          /\ pc'[wakelist[i]] = "wait"
          /\ ~Enlisted(wakelist[i])'
          /\ wakelist[i] = wakelist[j] => i = j
    <2> SUFFICES ASSUME NEW i \in 1 .. Len(wakelist), NEW j \in 1 .. Len(wakelist)
                 PROVE  /\ pc'[wakelist[i]] = "wait"
                        /\ ~Enlisted(wakelist[i])'
                        /\ wakelist[i] = wakelist[j] => i = j
      OBVIOUS
    <2>1. wakelist'[i] = wakelist[i]
      OBVIOUS
    <2>2. /\ wakelist[i] \in Slots /\ wakelist[i] \in Asleep
          /\ pc[wakelist[i]] = "wait" /\ ~Enlisted(wakelist[i])
      BY EntryFacts
    <2>3. pc'[wakelist[i]] = "wait" /\ waiting'[wakelist[i]] = waiting[wakelist[i]]
      BY <2>2
    <2>4. ~Enlisted(wakelist[i])'
      BY <2>1, <2>2, <2>3 DEF Enlisted
    <2> QED
      BY <2>3, <2>4 DEF NoDanglingEntry
  <1> QED
    BY <1>1, <1>2, <1>3, <1>4 DEF NoDanglingEntry

\* A system call's sched_schedule, or the swapper's.
LEMMA SafeYield ==
    ASSUME TypeInv, TypeInv', Life, Safe, NEW t \in Slots, current = t,
           pc[t] \in {"user", "read1", "yield"},
           sched_schedule(run_queue, state, t),
           UNCHANGED <<task_table, children, waiters, wakelist, waiting, input>>,
           \A x \in Slots \ {t} : pc'[x] = pc[x],
           pc'[t] \in {"user", "read1", "read2"},
           t = Swapper => pc'[t] = "user"
    PROVE  Safe'
  <1>1. state[t] = "RUNNING" /\ t \notin Asleep
    BY CurrentRuns
  <1>2. NoDanglingEntry' /\ Asleep' = Asleep /\ \A x \in Slots : Enlisted(x)' <=> Enlisted(x)
    BY <1>1, EntriesFrame DEF Safe
  <1>3. /\ run_queue \in QueueType(Slots) /\ state \in [Slots -> States]
        /\ HoldsExactly(run_queue, RunnableIn(state, Asleep'))
    BY <1>2 DEF TypeInv, TypeOK, Safe
  <1>4. /\ state[Swapper] \in {"QUEUED", "RUNNING"}
        /\ pc'[Swapper] \in {"user", "hlt", "yield"}
    BY SlotFacts DEF Safe, TasksOK
  <1>5. ASSUME NEW x \in Slots
        PROVE  /\ state[x] # "UNINTERRUPTIBLE"
               /\ state[x] = "INTERRUPTIBLE" <=> pc'[x] = "wait"
               /\ x \in Asleep' => state[x] = "INTERRUPTIBLE"
               /\ pc'[x] = "dead" => state[x] \in {"ZOMBIE", "POOLED"}
               /\ pc'[x] \notin {"exit1", "exit2"}
               /\ pc'[x] = "wait" /\ waiting'[x][1] = "child" => waiting'[x] = ChildQueue(x)
               /\ pc'[x] \in {"hlt", "yield"} => x = Swapper
               /\ state[x] = "RUNNING" => x = t
               /\ state[x] = "POOLED" <=> x \notin InUse(task_table)
               /\ Enlisted(x)' => ~Condition(x, waiting'[x])
    <2>1. Enlisted(x)' => ~Condition(x, waiting'[x])
      BY <1>2, NobodyMissed
    <2>2. state[x] = "RUNNING" => x = t
      BY DEF Safe, StatesOK
    <2>3. CASE x = t
      BY <1>1, <1>2, <2>1, <2>2, <2>3 DEF Safe, StatesOK
    <2>4. CASE x # t
      BY <1>1, <1>2, <2>1, <2>2, <2>4 DEF Safe, StatesOK, TasksOK, Life
    <2> QED
      BY <2>3, <2>4
  <1> QED
    BY <1>1, <1>2, <1>3, <1>4, <1>5, SafeSchedule

\* The first call of sched_schedule.
LEMMA SafeBoot ==
    ASSUME TypeInv, TypeInv', Life, Safe, Boot
    PROVE  Safe'
  <1>1. /\ current = NULL /\ sched_schedule(run_queue, state, NULL)
        /\ UNCHANGED <<task_table, parent, children, pending, waiters, wakelist, pc,
                       waiting, input>>
    BY DEF Boot
  <1>2. NoDanglingEntry' /\ Asleep' = Asleep /\ \A x \in Slots : Enlisted(x)' <=> Enlisted(x)
    BY <1>1, EntriesFrame DEF Safe
  <1>3. /\ run_queue \in QueueType(Slots) /\ state \in [Slots -> States]
        /\ HoldsExactly(run_queue, RunnableIn(state, Asleep'))
    BY <1>2 DEF TypeInv, TypeOK, Safe
  <1>4. /\ state[Swapper] \in {"QUEUED", "RUNNING"}
        /\ pc'[Swapper] \in {"user", "hlt", "yield"}
    BY <1>1 DEF Safe, TasksOK
  <1>5. ASSUME NEW x \in Slots
        PROVE  /\ state[x] # "UNINTERRUPTIBLE"
               /\ state[x] = "INTERRUPTIBLE" <=> pc'[x] = "wait"
               /\ x \in Asleep' => state[x] = "INTERRUPTIBLE"
               /\ pc'[x] = "dead" => state[x] \in {"ZOMBIE", "POOLED"}
               /\ pc'[x] \in {"user", "dead"}
               /\ state[x] # "RUNNING"
               /\ state[x] = "POOLED" <=> x \notin InUse(task_table)
               /\ ~Enlisted(x)'
    BY <1>1, <1>2, SlotFacts DEF Safe, TasksOK, StatesOK, Enlisted
  <1> QED
    BY <1>1, <1>2, <1>3, <1>4, <1>5, SafeSchedule

\* execve: the task queues itself and then schedules as nobody.
LEMMA SafeExecve ==
    ASSUME TypeInv, TypeInv', Life, Safe, NEW t \in Slots, Execve(t)
    PROVE  Safe'
  <1> DEFINE st == [state EXCEPT ![t] = "QUEUED"]
             rq == run_queue_push(run_queue, t)
  <1>0. /\ current = t /\ t # Swapper /\ pc[t] = "user"
        /\ sched_schedule(rq, st, NULL)
        /\ UNCHANGED <<task_table, parent, children, waiters, wakelist, pc, waiting, input>>
    BY DEF Execve, Makes, At
  <1>1. state[t] = "RUNNING" /\ t \notin Asleep
    BY <1>0, CurrentRuns
  <1>2. NoDanglingEntry' /\ Asleep' = Asleep /\ \A x \in Slots : Enlisted(x)' <=> Enlisted(x)
    BY <1>0, EntriesFrame DEF Safe
  <1>3. /\ run_queue \in QueueType(Slots) /\ state \in [Slots -> States]
        /\ HoldsExactly(run_queue, RunnableIn(state, Asleep))
    BY DEF TypeInv, TypeOK, Safe
  <1>4. /\ st \in [Slots -> States] /\ st[t] = "QUEUED"
        /\ \A x \in Slots \ {t} : st[x] = state[x]
    BY <1>3 DEF States
  <1> HIDE DEF st
  <1>5. rq \in QueueType(Slots) /\ HoldsExactly(rq, RunnableIn(st, Asleep'))
    <2>1. t \notin RunnableIn(state, Asleep)
      BY <1>1 DEF RunnableIn
    <2>2. RunnableIn(st, Asleep') = RunnableIn(state, Asleep) \cup {t}
      BY <1>0, <1>1, <1>2, <1>4 DEF RunnableIn
    <2> QED
      BY <1>3, <2>1, <2>2, PushHolds
  <1> HIDE DEF rq
  <1>6. /\ st[Swapper] \in {"QUEUED", "RUNNING"}
        /\ pc'[Swapper] \in {"user", "hlt", "yield"}
    BY <1>0, <1>4, SlotFacts DEF Safe, TasksOK
  <1>7. ASSUME NEW x \in Slots
        PROVE  /\ st[x] # "UNINTERRUPTIBLE"
               /\ st[x] = "INTERRUPTIBLE" <=> pc'[x] = "wait"
               /\ x \in Asleep' => st[x] = "INTERRUPTIBLE"
               /\ pc'[x] = "dead" => st[x] \in {"ZOMBIE", "POOLED"}
               /\ pc'[x] \notin {"exit1", "exit2"}
               /\ pc'[x] = "wait" /\ waiting'[x][1] = "child" => waiting'[x] = ChildQueue(x)
               /\ pc'[x] \in {"hlt", "yield"} => x = Swapper
               /\ st[x] # "RUNNING"
               /\ st[x] = "POOLED" <=> x \notin InUse(task_table)
               /\ st[x] = "ZOMBIE" => state[x] = "ZOMBIE"
               /\ Enlisted(x)' => ~Condition(x, waiting'[x])
    <2>1. Enlisted(x)' => ~Condition(x, waiting'[x])
      BY <1>0, <1>2, NobodyMissed
    <2>2. x # t => state[x] # "RUNNING"
      BY <1>0 DEF Safe, StatesOK
    <2>3. CASE x = t
      BY <1>0, <1>1, <1>2, <1>4, <2>1, <2>3 DEF Safe, StatesOK
    <2>4. CASE x # t
      BY <1>0, <1>2, <1>4, <2>1, <2>2, <2>4 DEF Safe, StatesOK, TasksOK, Life
    <2> QED
      BY <2>3, <2>4
  <1> QED
    BY <1>0, <1>2, <1>4, <1>5, <1>6, <1>7, SafeSchedule

\* sched_exit gives up the CPU: the zombie is in no queue and does not return.
LEMMA SafeExitSwitch ==
    ASSUME TypeInv, TypeInv', Life, Safe, NEW t \in Slots, ExitSwitch(t)
    PROVE  Safe'
  <1>0. /\ current = t /\ pc[t] = "exit2"
        /\ sched_schedule(run_queue, state, NULL)
        /\ UNCHANGED <<task_table, parent, children, waiters, wakelist, waiting, input>>
        /\ pc'[t] = "dead" /\ \A x \in Slots \ {t} : pc'[x] = pc[x]
    BY DEF ExitSwitch, At, TypeInv, TypeOK
  <1>1. state[t] = "ZOMBIE" /\ t \notin Asleep /\ t # Swapper
    BY <1>0 DEF Safe, TasksOK
  <1>2. NoDanglingEntry' /\ Asleep' = Asleep /\ \A x \in Slots : Enlisted(x)' <=> Enlisted(x)
    BY <1>0, <1>1, EntriesFrame DEF Safe
  <1>3. /\ run_queue \in QueueType(Slots) /\ state \in [Slots -> States]
        /\ HoldsExactly(run_queue, RunnableIn(state, Asleep'))
    BY <1>2 DEF TypeInv, TypeOK, Safe
  <1>4. /\ state[Swapper] \in {"QUEUED", "RUNNING"}
        /\ pc'[Swapper] \in {"user", "hlt", "yield"}
    BY <1>0, <1>1, SlotFacts DEF Safe, TasksOK
  <1>5. ASSUME NEW x \in Slots
        PROVE  /\ state[x] # "UNINTERRUPTIBLE"
               /\ state[x] = "INTERRUPTIBLE" <=> pc'[x] = "wait"
               /\ x \in Asleep' => state[x] = "INTERRUPTIBLE"
               /\ pc'[x] = "dead" => state[x] \in {"ZOMBIE", "POOLED"}
               /\ pc'[x] \notin {"exit1", "exit2"}
               /\ pc'[x] = "wait" /\ waiting'[x][1] = "child" => waiting'[x] = ChildQueue(x)
               /\ pc'[x] \in {"hlt", "yield"} => x = Swapper
               /\ state[x] # "RUNNING"
               /\ state[x] = "POOLED" <=> x \notin InUse(task_table)
               /\ Enlisted(x)' => ~Condition(x, waiting'[x])
    <2>1. Enlisted(x)' => ~Condition(x, waiting'[x])
      BY <1>0, <1>2, NobodyMissed
    <2>2. state[x] # "RUNNING"
      BY <1>0, <1>1 DEF Safe, StatesOK
    <2>3. CASE x = t
      BY <1>0, <1>1, <1>2, <2>1, <2>3 DEF Safe, StatesOK
    <2>4. CASE x # t
      BY <1>0, <1>2, <2>1, <2>2, <2>4 DEF Safe, StatesOK, TasksOK, Life
    <2> QED
      BY <2>3, <2>4
  <1> QED
    BY <1>0, <1>2, <1>3, <1>4, <1>5, SafeSchedule

\* A task that was woken finds its entry taken out of the queue already.
LEMMA NothingToRemove ==
    ASSUME TypeInv, Life, NEW t \in Slots, pc[t] = "wait", t \notin Asleep
    PROVE  EntryRemoved(t) = waiters
  <1>1. waiting[t] \in WaitQueues /\ waiters \in [WaitQueues -> Seq(Slots)]
    BY DEF Life, TypeInv, TypeOK
  <1>2. t \notin Elems(waiters[waiting[t]])
    BY DEF Asleep, Enlisted
  <1>3. Without(waiters[waiting[t]], t) = waiters[waiting[t]]
    BY <1>2 DEF Without
  <1> QED
    BY <1>1, <1>3 DEF EntryRemoved

\* wait_event puts its caller to sleep in queue q.
LEMMA SafeSleep ==
    ASSUME TypeInv, TypeInv', Life, Safe, NEW t \in Slots, current = t, t # Swapper,
           pc[t] \in {"user", "read2", "wait"},
           NEW q \in WaitQueues, ~Condition(t, q),
           q[1] = "child" => q = ChildQueue(t),
           SleepOn(t, q, waiters),
           UNCHANGED <<task_table, children, wakelist, input>>
    PROVE  Safe'
  <1> DEFINE st == [state EXCEPT ![t] = "INTERRUPTIBLE"]
  <1>0. /\ waiters \in [WaitQueues -> Seq(Slots)]
        /\ waiting \in [Slots -> WaitQueues \cup {NoQueue}]
        /\ pc \in [Slots -> Points] /\ wakelist \in Seq(Slots)
        /\ run_queue \in QueueType(Slots) /\ state \in [Slots -> States]
        /\ HoldsExactly(run_queue, RunnableIn(state, Asleep))
        /\ NoDanglingEntry
    BY DEF TypeInv, TypeOK, Safe
  <1>1. state[t] = "RUNNING" /\ t \notin Asleep
    BY CurrentRuns
  <1>2. /\ waiters'[q] = Append(waiters[q], t)
        /\ \A p \in WaitQueues \ {q} : waiters'[p] = waiters[p]
        /\ waiting'[t] = q /\ pc'[t] = "wait"
        /\ \A x \in Slots \ {t} : waiting'[x] = waiting[x] /\ pc'[x] = pc[x]
        /\ sched_schedule(run_queue, st, t)
    BY <1>0 DEF SleepOn
  <1>3. /\ st \in [Slots -> States] /\ st[t] = "INTERRUPTIBLE"
        /\ \A x \in Slots \ {t} : st[x] = state[x]
    BY <1>0 DEF States, Sleeping
  <1> HIDE DEF st
  <1>4. /\ Len(waiters[q]) \in Nat
        /\ Len(waiters'[q]) = Len(waiters[q]) + 1
        /\ \A i \in 1 .. Len(waiters[q]) : waiters'[q][i] = waiters[q][i]
        /\ waiters'[q][Len(waiters[q]) + 1] = t
    <2>1. waiters[q] \in Seq(Slots)
      BY <1>0
    <2> QED
      BY <1>2, <2>1, AppendProperties, LenProperties
  <1>5. \A i \in 1 .. Len(waiters'[q]) : i = Len(waiters[q]) + 1 \/ i \in 1 .. Len(waiters[q])
    BY <1>4
  <1>6. /\ \A p \in WaitQueues : \A i \in 1 .. Len(waiters[p]) : waiters[p][i] # t
        /\ \A i \in 1 .. Len(wakelist) : wakelist[i] # t
    BY <1>0, <1>1, EntryFacts
  <1>7. \A x \in Slots : Enlisted(x)' <=> Enlisted(x) \/ x = t
    <2> SUFFICES ASSUME NEW x \in Slots PROVE Enlisted(x)' <=> Enlisted(x) \/ x = t
      OBVIOUS
    <2>1. CASE x = t
      <3>1. Len(waiters[q]) + 1 \in 1 .. Len(waiters'[q])
        BY <1>4
      <3>2. t \in Elems(waiters'[q])
        BY <1>4, <3>1 DEF Elems
      <3> QED
        BY <1>2, <2>1, <3>2 DEF Enlisted
    <2>2. CASE x # t
      <3>1. x \in Elems(waiters'[q]) <=> x \in Elems(waiters[q])
        <4>1. \A i \in 1 .. Len(waiters[q]) : i \in 1 .. Len(waiters'[q])
          BY <1>4
        <4> QED
          BY <1>4, <1>5, <2>2, <4>1 DEF Elems
      <3>2. CASE pc[x] = "wait"
        <4>1. waiting[x] \in WaitQueues
          BY <3>2 DEF Life
        <4> QED
          BY <1>2, <2>2, <3>1, <3>2, <4>1 DEF Enlisted
      <3>3. CASE pc[x] # "wait"
        BY <1>2, <2>2, <3>3 DEF Enlisted
      <3> QED
        BY <3>2, <3>3
    <2> QED
      BY <2>1, <2>2
  <1>8. Asleep' = Asleep \cup {t}
    BY <1>7 DEF Asleep
  <1>9. NoDanglingEntry'
    <2>1. ASSUME NEW p \in WaitQueues, NEW i \in 1 .. Len(waiters'[p]),
                 NEW j \in 1 .. Len(waiters'[p])
          PROVE  /\ pc'[waiters'[p][i]] = "wait"
                 /\ waiting'[waiters'[p][i]] = p
                 /\ waiters'[p][i] = waiters'[p][j] => i = j
      <3>1. CASE p # q
        <4>1. waiters'[p] = waiters[p]
          BY <1>2, <3>1
        <4>2. /\ waiters[p][i] \in Slots /\ waiters[p][i] # t
              /\ pc[waiters[p][i]] = "wait" /\ waiting[waiters[p][i]] = p
          BY <1>0, <1>6, <4>1, EntryFacts
        <4> QED
          BY <1>0, <1>2, <4>1, <4>2 DEF NoDanglingEntry
      <3>2. CASE p = q
        <4>1. \A k \in 1 .. Len(waiters[q]) :
                /\ waiters[q][k] \in Slots /\ waiters[q][k] # t
                /\ pc[waiters[q][k]] = "wait" /\ waiting[waiters[q][k]] = q
          BY <1>0, <1>6, EntryFacts
        <4>2. \A k \in 1 .. Len(waiters[q]) :
                pc'[waiters[q][k]] = "wait" /\ waiting'[waiters[q][k]] = q
          BY <1>2, <4>1
        <4>3. \A k, l \in 1 .. Len(waiters[q]) : waiters[q][k] = waiters[q][l] => k = l
          BY <1>0 DEF NoDanglingEntry
        <4>4. CASE i \in 1 .. Len(waiters[q])
          <5>1. waiters'[q][i] = waiters[q][i] /\ waiters[q][i] # t
            BY <1>4, <4>1, <4>4
          <5>2. CASE j \in 1 .. Len(waiters[q])
            BY <1>4, <3>2, <4>2, <4>3, <4>4, <5>1, <5>2
          <5>3. CASE j = Len(waiters[q]) + 1
            BY <1>4, <3>2, <4>2, <4>4, <5>1, <5>3
          <5> QED
            BY <1>5, <3>2, <5>2, <5>3
        <4>5. CASE i = Len(waiters[q]) + 1
          BY <1>2, <1>4, <1>5, <3>2, <4>1, <4>5
        <4> QED
          BY <1>5, <3>2, <4>4, <4>5
      <3> QED
        BY <3>1, <3>2
    <2>2. ASSUME NEW i \in 1 .. Len(wakelist), NEW j \in 1 .. Len(wakelist)
          PROVE  /\ pc'[wakelist[i]] = "wait"
                 /\ ~Enlisted(wakelist[i])'
                 /\ wakelist[i] = wakelist[j] => i = j
      <3>1. /\ wakelist[i] \in Slots /\ wakelist[i] # t
            /\ pc[wakelist[i]] = "wait" /\ ~Enlisted(wakelist[i])
        BY <1>0, <1>6, EntryFacts
      <3>2. wakelist'[i] = wakelist[i]
        OBVIOUS
      <3> QED
        BY <1>0, <1>2, <1>7, <3>1, <3>2 DEF NoDanglingEntry
    <2> QED
      BY <2>1, <2>2 DEF NoDanglingEntry
  <1>10. HoldsExactly(run_queue, RunnableIn(st, Asleep'))
    <2>1. RunnableIn(st, Asleep') = RunnableIn(state, Asleep)
      BY <1>1, <1>3, <1>8 DEF RunnableIn
    <2> QED
      BY <1>0, <2>1
  <1>11. /\ st[Swapper] \in {"QUEUED", "RUNNING"}
         /\ pc'[Swapper] \in {"user", "hlt", "yield"}
    BY <1>2, <1>3, SlotFacts DEF Safe, TasksOK
  <1>12. ASSUME NEW x \in Slots
         PROVE  /\ st[x] # "UNINTERRUPTIBLE"
                /\ st[x] = "INTERRUPTIBLE" <=> pc'[x] = "wait"
                /\ x \in Asleep' => st[x] = "INTERRUPTIBLE"
                /\ pc'[x] = "dead" => st[x] \in {"ZOMBIE", "POOLED"}
                /\ pc'[x] \notin {"exit1", "exit2"}
                /\ pc'[x] = "wait" /\ waiting'[x][1] = "child" => waiting'[x] = ChildQueue(x)
                /\ pc'[x] \in {"hlt", "yield"} => x = Swapper
                /\ st[x] = "RUNNING" => x = t
                /\ st[x] = "POOLED" <=> x \notin InUse(task_table)
                /\ st[x] = "ZOMBIE" => state[x] = "ZOMBIE"
                /\ Enlisted(x)' => ~Condition(x, waiting'[x])
    <2>1. x # t => state[x] # "RUNNING"
      BY DEF Safe, StatesOK
    <2>2. CASE x = t
      BY <1>1, <1>2, <1>3, <1>8, <2>2 DEF Safe, StatesOK
    <2>3. CASE x # t
      <3>1. Enlisted(x)' => ~Condition(x, waiting'[x])
        BY <1>2, <1>7, <2>3, NobodyMissed
      <3> QED
        BY <1>2, <1>3, <1>8, <2>1, <2>3, <3>1 DEF Safe, StatesOK, TasksOK, Life
    <2> QED
      BY <2>2, <2>3
  <1>13. /\ run_queue \in QueueType(Slots) /\ t \in Slots \cup {NULL}
         /\ st[t] = "INTERRUPTIBLE" /\ t \in Asleep'
    BY <1>0, <1>3, <1>8
  <1>14. sched_schedule(run_queue, st, t)
    BY <1>2
  <1> QED
    BY <1>3, <1>9, <1>10, <1>11, <1>12, <1>13, <1>14, SafeSchedule

---------------------------------------------------------------------------
(* The other steps.                                                        *)

\* A step that changes only points of execution, and no wait queue, and may
\* take input.
LEMMA SafeFrame ==
    ASSUME TypeInv, TypeInv', Life, Safe,
           UNCHANGED <<task_table, run_queue, current, state, parent, children,
                       waiters, wakelist, panic>>,
           input' \in 0 .. input,
           \A x \in Slots :
             \/ pc'[x] = pc[x] /\ waiting'[x] = waiting[x]
             \/ /\ x = current /\ x # Swapper
                /\ pc[x] \notin {"exit1", "exit2"} /\ pc'[x] = "user"
             \/ /\ x = Swapper /\ current # NULL /\ pc'[x] \in {"hlt", "yield"}
    PROVE  Safe'
  <1>1. ASSUME NEW x \in Slots, ~(pc'[x] = pc[x] /\ waiting'[x] = waiting[x])
        PROVE  /\ state[x] \in {"QUEUED", "RUNNING"} /\ x \notin Asleep /\ current # NULL
               /\ pc[x] \notin {"exit1", "exit2"} /\ pc'[x] \in {"user", "hlt", "yield"}
               /\ x = Swapper => pc'[x] # "user"
               /\ x # Swapper => pc'[x] = "user"
    <2>1. CASE x = Swapper
      BY <1>1, <2>1, SlotFacts DEF Safe, TasksOK
    <2>2. CASE x # Swapper
      BY <1>1, <2>2, SlotFacts, CurrentRuns
    <2> QED
      BY <2>1, <2>2
  <1>2. NoDanglingEntry' /\ Asleep' = Asleep /\ \A x \in Slots : Enlisted(x)' <=> Enlisted(x)
    BY <1>1, EntriesFrame DEF Safe
  <1>3. TasksOK'
    <2>1. ASSUME NEW x \in Slots
          PROVE  /\ state'[x] # "UNINTERRUPTIBLE"
                 /\ state'[x] = "INTERRUPTIBLE" => pc'[x] = "wait"
                 /\ pc'[x] = "wait" => state'[x] \in {"INTERRUPTIBLE", "RUNNING"}
                 /\ x \in Asleep' => state'[x] = "INTERRUPTIBLE"
                 /\ pc'[x] = "dead" => state'[x] \in {"ZOMBIE", "POOLED"}
                 /\ pc'[x] \in {"exit1", "exit2"} => state'[x] = "ZOMBIE"
                 /\ pc'[x] = "wait" /\ waiting'[x][1] = "child" => waiting'[x] = ChildQueue(x)
                 /\ pc'[x] \in {"hlt", "yield"} => x = Swapper
                 /\ current' = NULL => pc'[x] \in {"user", "dead"}
      BY <1>1, <1>2 DEF Safe, TasksOK
    <2>2. pc'[Swapper] \in {"user", "hlt", "yield"} /\ state'[Swapper] \in {"QUEUED", "RUNNING"}
      BY <1>1, SlotFacts DEF Safe, TasksOK
    <2> QED
      BY <2>1, <2>2 DEF TasksOK
  <1>4. StatesOK'
    <2>1. current # NULL => \/ state[current] = "RUNNING" /\ pc'[current] # "dead"
                            \/ state[current] = "ZOMBIE" /\ pc'[current] \in {"exit1", "exit2"}
      <3>1. current \in Slots \cup {NULL}
        BY DEF TypeInv, TypeOK
      <3> QED
        BY <1>1, <3>1 DEF Safe, StatesOK
    <2> QED
      BY <2>1 DEF Safe, StatesOK
  <1>5. NoLostWakeup'
    <2> SUFFICES ASSUME NEW x \in Slots, Enlisted(x)', Condition(x, waiting[x])'
                 PROVE  pc'[current'] = "exit1" /\ waiting'[x] = ChildQueue(parent'[current'])
      BY DEF NoLostWakeup
    <2>1. Enlisted(x) /\ x \in Asleep /\ waiting'[x] = waiting[x]
      BY <1>1, <1>2 DEF Asleep
    <2>2. Condition(x, waiting[x])
      BY <2>1 DEF Condition, TypeInv, TypeOK
    <2>3. pc[current] = "exit1" /\ waiting[x] = ChildQueue(parent[current])
      BY <2>1, <2>2 DEF Safe, NoLostWakeup
    <2>4. current \in Slots
      BY <2>1, <2>2, NobodyMissed DEF TypeInv, TypeOK
    <2> QED
      BY <1>1, <2>1, <2>3, <2>4
  <1>6. HoldsExactly(run_queue', RunnableIn(state', Asleep'))
    BY <1>2 DEF Safe
  <1> QED
    BY <1>2, <1>3, <1>4, <1>5, <1>6 DEF Safe, NoPanic

\* wakeup detaches queue q.
LEMMA DetachEntries ==
    ASSUME TypeInv, Life, NoDanglingEntry, NEW q \in WaitQueues, wakelist = <<>>,
           wakelist' = waiters[q], waiters' = [waiters EXCEPT ![q] = <<>>],
           \A x \in Slots :
             /\ x \in Asleep => pc'[x] = pc[x] /\ waiting'[x] = waiting[x]
             /\ pc'[x] = "wait" => pc[x] = "wait" /\ waiting'[x] = waiting[x]
    PROVE  /\ NoDanglingEntry'
           /\ Asleep' = Asleep
           /\ \A x \in Slots : Enlisted(x)' <=> Enlisted(x) /\ waiting[x] # q
  <1>1. /\ waiters \in [WaitQueues -> Seq(Slots)]
        /\ waiters'[q] = <<>> /\ \A p \in WaitQueues \ {q} : waiters'[p] = waiters[p]
    BY DEF TypeInv, TypeOK
  <1>2. Elems(<<>>) = {}
    BY DEF Elems
  <1>3. \A x \in Slots : Enlisted(x)' <=> Enlisted(x) /\ waiting[x] # q
    <2> SUFFICES ASSUME NEW x \in Slots PROVE Enlisted(x)' <=> Enlisted(x) /\ waiting[x] # q
      OBVIOUS
    <2>1. pc[x] = "wait" => waiting[x] \in WaitQueues
      BY DEF Life
    <2>2. Enlisted(x) => pc'[x] = "wait" /\ waiting'[x] = waiting[x]
      BY DEF Asleep, Enlisted
    <2> QED
      BY <1>1, <1>2, <2>1, <2>2 DEF Enlisted
  <1>4. \A x \in Slots : Enlisted(x) /\ waiting[x] = q <=> x \in Elems(waiters[q])
    BY EntryFacts DEF Enlisted, Elems
  <1>5. Asleep' = Asleep
    BY <1>2, <1>3, <1>4 DEF Asleep
  <1>6. ASSUME NEW p \in WaitQueues, NEW i \in 1 .. Len(waiters'[p]),
               NEW j \in 1 .. Len(waiters'[p])
        PROVE  /\ pc'[waiters'[p][i]] = "wait"
               /\ waiting'[waiters'[p][i]] = p
               /\ waiters'[p][i] = waiters'[p][j] => i = j
    <2>1. p # q
      BY <1>1
    <2>2. waiters'[p] = waiters[p]
      BY <1>1, <2>1
    <2> QED
      BY <2>2, EntryFacts DEF NoDanglingEntry
  <1>7. ASSUME NEW i \in 1 .. Len(wakelist'), NEW j \in 1 .. Len(wakelist')
        PROVE  /\ pc'[wakelist'[i]] = "wait"
               /\ ~Enlisted(wakelist[i])'
               /\ wakelist'[i] = wakelist'[j] => i = j
    <2>1. /\ wakelist'[i] \in Slots /\ wakelist'[i] \in Asleep
          /\ pc[wakelist'[i]] = "wait" /\ waiting[wakelist'[i]] = q
      BY EntryFacts
    <2>2. pc'[wakelist'[i]] = "wait" /\ waiting'[wakelist'[i]] = q
      BY <2>1
    <2>3. ~Enlisted(wakelist[i])'
      BY <1>1, <1>2, <2>2 DEF Enlisted
    <2> QED
      BY <2>2, <2>3 DEF NoDanglingEntry
  <1> QED
    BY <1>3, <1>5, <1>6, <1>7 DEF NoDanglingEntry

\* A step of the current task, or the keyboard, that detaches queue q.
LEMMA SafeDetach ==
    ASSUME TypeInv, TypeInv', Life, Safe, NEW q \in WaitQueues, wakelist = <<>>,
           detach(q), current \in Slots,
           UNCHANGED <<task_table, run_queue, current, state, parent, children,
                       waiting, panic>>,
           input' = input \/ q = TtyQueue,
           \A x \in Slots :
             \/ pc'[x] = pc[x]
             \/ /\ pc[x] = "exit1" /\ pc'[x] = "exit2"
                /\ \A y \in Slots : Enlisted(y) /\ waiting[y] # q => ~Condition(y, waiting[y])
             \/ x = Swapper /\ pc[x] = "hlt" /\ pc'[x] = "yield"
    PROVE  Safe'
  <1>1. /\ NoDanglingEntry' /\ Asleep' = Asleep
        /\ \A x \in Slots : Enlisted(x)' <=> Enlisted(x) /\ waiting[x] # q
    <2>1. \A x \in Slots : /\ x \in Asleep => pc'[x] = pc[x]
                           /\ pc'[x] = "wait" => pc[x] = "wait"
      BY DEF Safe, TasksOK
    <2>2. wakelist' = waiters[q] /\ waiters' = [waiters EXCEPT ![q] = <<>>]
      BY DEF detach
    <2> QED
      BY <2>1, <2>2, DetachEntries DEF Safe
  <1>2. TasksOK'
    <2>1. ASSUME NEW x \in Slots
          PROVE  /\ state'[x] # "UNINTERRUPTIBLE"
                 /\ state'[x] = "INTERRUPTIBLE" => pc'[x] = "wait"
                 /\ pc'[x] = "wait" => state'[x] \in {"INTERRUPTIBLE", "RUNNING"}
                 /\ x \in Asleep' => state'[x] = "INTERRUPTIBLE"
                 /\ pc'[x] = "dead" => state'[x] \in {"ZOMBIE", "POOLED"}
                 /\ pc'[x] \in {"exit1", "exit2"} => state'[x] = "ZOMBIE"
                 /\ pc'[x] = "wait" /\ waiting'[x][1] = "child" => waiting'[x] = ChildQueue(x)
                 /\ pc'[x] \in {"hlt", "yield"} => x = Swapper
      BY <1>1 DEF Safe, TasksOK
    <2>2. pc'[Swapper] \in {"user", "hlt", "yield"} /\ state'[Swapper] \in {"QUEUED", "RUNNING"}
      BY SlotFacts DEF Safe, TasksOK
    <2>3. current' # NULL
      BY SlotFacts
    <2> QED
      BY <2>1, <2>2, <2>3 DEF TasksOK
  <1>3. StatesOK'
    <2>1. \/ state[current] = "RUNNING" /\ pc'[current] # "dead"
          \/ state[current] = "ZOMBIE" /\ pc'[current] \in {"exit1", "exit2"}
      BY SlotFacts DEF Safe, StatesOK
    <2> QED
      BY <2>1 DEF Safe, StatesOK
  <1>4. NoLostWakeup'
    <2> SUFFICES ASSUME NEW x \in Slots, Enlisted(x)', Condition(x, waiting[x])'
                 PROVE  pc'[current'] = "exit1" /\ waiting'[x] = ChildQueue(parent'[current'])
      BY DEF NoLostWakeup
    <2>1. Enlisted(x) /\ waiting[x] # q
      BY <1>1
    <2>2. Condition(x, waiting[x])
      BY <2>1 DEF Condition
    <2>3. pc[current] = "exit1" /\ waiting[x] = ChildQueue(parent[current])
      BY <2>1, <2>2 DEF Safe, NoLostWakeup
    <2> QED
      BY <2>1, <2>2, <2>3
  <1>5. HoldsExactly(run_queue', RunnableIn(state', Asleep'))
    BY <1>1 DEF Safe
  <1> QED
    BY <1>1, <1>2, <1>3, <1>4, <1>5 DEF Safe, NoPanic

\* sched_exit: the current task is a zombie and its wait_exit queue detached.
LEMMA SafeExit ==
    ASSUME TypeInv, TypeInv', Life, Safe, NEW t \in Slots, current = t, current' = t,
           t # Swapper, pc[t] \in {"user", "wait"}, wakelist = <<>>,
           UNCHANGED <<task_table, run_queue, parent, children, input, panic>>,
           BeginExit(t, waiters)
    PROVE  Safe'
  <1>0. /\ state'[t] = "ZOMBIE" /\ pc'[t] = "exit1"
        /\ \A x \in Slots \ {t} :
             pc'[x] = pc[x] /\ waiting'[x] = waiting[x] /\ state'[x] = state[x]
        /\ wakelist' = waiters[ExitQueue(t)]
        /\ waiters' = [waiters EXCEPT ![ExitQueue(t)] = <<>>]
        /\ ExitQueue(t) \in WaitQueues
    BY QueueFacts DEF BeginExit, TypeInv, TypeOK
  <1>1. state[t] = "RUNNING" /\ t \notin Asleep
    BY CurrentRuns
  <1>2. /\ NoDanglingEntry' /\ Asleep' = Asleep
        /\ \A x \in Slots : Enlisted(x)' <=> Enlisted(x) /\ waiting[x] # ExitQueue(t)
    BY <1>0, <1>1, DetachEntries DEF Safe
  <1>3. TasksOK'
    <2>1. ASSUME NEW x \in Slots
          PROVE  /\ state'[x] # "UNINTERRUPTIBLE"
                 /\ state'[x] = "INTERRUPTIBLE" => pc'[x] = "wait"
                 /\ pc'[x] = "wait" => state'[x] \in {"INTERRUPTIBLE", "RUNNING"}
                 /\ x \in Asleep' => state'[x] = "INTERRUPTIBLE"
                 /\ pc'[x] = "dead" => state'[x] \in {"ZOMBIE", "POOLED"}
                 /\ pc'[x] \in {"exit1", "exit2"} => state'[x] = "ZOMBIE"
                 /\ pc'[x] = "wait" /\ waiting'[x][1] = "child" => waiting'[x] = ChildQueue(x)
                 /\ pc'[x] \in {"hlt", "yield"} => x = Swapper
      <3>1. CASE x = t
        BY <1>0, <1>1, <1>2, <3>1
      <3>2. CASE x # t
        BY <1>0, <1>2, <3>2 DEF Safe, TasksOK
      <3> QED
        BY <3>1, <3>2
    <2>2. pc'[Swapper] \in {"user", "hlt", "yield"} /\ state'[Swapper] \in {"QUEUED", "RUNNING"}
      BY <1>0, SlotFacts DEF Safe, TasksOK
    <2>3. current' # NULL
      BY SlotFacts
    <2> QED
      BY <2>1, <2>2, <2>3 DEF TasksOK
  <1>4. StatesOK'
    <2>1. \A x \in Slots : state'[x] # "RUNNING"
      BY <1>0 DEF Safe, StatesOK
    <2>2. \A x \in Slots : state'[x] = "POOLED" <=> x \notin InUse(task_table)
      BY <1>0, <1>1 DEF Safe, StatesOK
    <2>3. InUse(task_table') = InUse(task_table)
      OBVIOUS
    <2> QED
      BY <1>0, <2>1, <2>2, <2>3 DEF StatesOK
  <1>5. NoLostWakeup'
    <2> SUFFICES ASSUME NEW x \in Slots, Enlisted(x)', Condition(x, waiting[x])'
                 PROVE  pc'[t] = "exit1" /\ waiting'[x] = ChildQueue(parent'[t])
      BY DEF NoLostWakeup
    <2>1. /\ Enlisted(x) /\ waiting[x] # ExitQueue(t) /\ x # t
          /\ waiting'[x] = waiting[x] /\ pc[x] = "wait" /\ waiting[x] \in WaitQueues
      BY <1>0, <1>1, <1>2 DEF Asleep, Enlisted, Life
    <2>2. ~Condition(x, waiting[x])
      BY <2>1, NobodyMissed
    <2>3. \A c \in Elems(children[x]) : c \in Slots /\ parent[c] = x
      BY ElementOfSeq DEF TypeInv, TypeOK, Elems, Life, FamilyOK
    <2>4. waiting[x][1] = "child" /\ t \in Elems(children[x])
      BY <1>0, <2>1, <2>2, <2>3, QueueFacts DEF Condition
    <2>5. waiting[x] = ChildQueue(x) /\ parent[t] = x
      BY <2>1, <2>3, <2>4 DEF Safe, TasksOK
    <2> QED
      BY <1>0, <2>1, <2>5
  <1>6. HoldsExactly(run_queue', RunnableIn(state', Asleep'))
    <2>1. RunnableIn(state', Asleep') = RunnableIn(state, Asleep)
      BY <1>0, <1>1, <1>2 DEF RunnableIn
    <2> QED
      BY <2>1 DEF Safe
  <1> QED
    BY <1>2, <1>3, <1>4, <1>5, <1>6 DEF Safe, NoPanic

\* One turn of wakeup: the task it pushes was in no queue any more.
LEMMA SafeWakeNext ==
    ASSUME TypeInv, TypeInv', Life, Safe, WakeNext
    PROVE  Safe'
  <1> DEFINE h == Head(wakelist)
  <1>0. /\ wakelist \in Seq(Slots) /\ wakelist # <<>> /\ wakelist' = Tail(wakelist)
        /\ run_queue \in QueueType(Slots)
        /\ UNCHANGED <<task_table, current, state, parent, children, waiters,
                       pc, waiting, input, panic>>
        /\ run_queue' = IF state[h] \in Sleeping THEN run_queue_push(run_queue, h) ELSE run_queue
    BY DEF WakeNext, TypeInv, TypeOK
  <1>1. /\ Len(wakelist) \in Nat /\ Len(wakelist) >= 1 /\ h = wakelist[1]
        /\ Len(wakelist') = Len(wakelist) - 1
        /\ \A i \in 1 .. Len(wakelist) - 1 : wakelist'[i] = wakelist[i + 1]
    <2>1. Len(wakelist) \in Nat /\ Len(wakelist) # 0
      BY <1>0, LenProperties, EmptySeq
    <2> QED
      BY <1>0, <2>1, HeadTailProperties
  <1> HIDE DEF h
  <1>2. /\ h \in Slots /\ h \in Asleep /\ ~Enlisted(h) /\ pc[h] = "wait"
        /\ \A i, j \in 1 .. Len(wakelist) : wakelist[i] = wakelist[j] => i = j
    <2>1. 1 \in 1 .. Len(wakelist)
      BY <1>1
    <2> QED
      BY <1>1, <2>1, EntryFacts DEF Safe, NoDanglingEntry
  <1>3. state[h] = "INTERRUPTIBLE"
    BY <1>2 DEF Safe, TasksOK
  <1>4. \A i \in 1 .. Len(wakelist') :
          /\ i + 1 \in 1 .. Len(wakelist) /\ wakelist'[i] = wakelist[i + 1]
          /\ wakelist'[i] # h
    <2> TAKE i \in 1 .. Len(wakelist')
    <2>1. i + 1 \in 1 .. Len(wakelist) /\ wakelist'[i] = wakelist[i + 1] /\ i + 1 # 1
          /\ 1 \in 1 .. Len(wakelist)
      BY <1>1
    <2> QED
      BY <1>1, <1>2, <2>1
  <1>5. Elems(wakelist') = Elems(wakelist) \ {h}
    <2>1. \A i \in 1 .. Len(wakelist) : wakelist[i] # h =>
            i - 1 \in 1 .. Len(wakelist') /\ wakelist'[i - 1] = wakelist[i]
      <3> SUFFICES ASSUME NEW i \in 1 .. Len(wakelist), wakelist[i] # h
                   PROVE  i - 1 \in 1 .. Len(wakelist') /\ wakelist'[i - 1] = wakelist[i]
        OBVIOUS
      <3>1. i # 1
        BY <1>1
      <3>2. i - 1 \in 1 .. Len(wakelist) - 1 /\ (i - 1) + 1 = i
        BY <1>1, <3>1
      <3> QED
        BY <1>1, <3>2
    <2> QED
      BY <1>4, <2>1 DEF Elems
  <1>6. \A x \in Slots : Enlisted(x)' <=> Enlisted(x)
    BY <1>0 DEF Enlisted
  <1>7. Asleep' = Asleep \ {h}
    BY <1>2, <1>5, <1>6 DEF Asleep
  <1>8. NoDanglingEntry'
    <2>1. \A q \in WaitQueues : \A i, j \in 1 .. Len(waiters'[q]) :
            /\ pc'[waiters'[q][i]] = "wait"
            /\ waiting'[waiters'[q][i]] = q
            /\ waiters'[q][i] = waiters'[q][j] => i = j
      BY <1>0 DEF Safe, NoDanglingEntry
    <2>2. ASSUME NEW i \in 1 .. Len(wakelist'), NEW j \in 1 .. Len(wakelist')
          PROVE  /\ pc'[wakelist'[i]] = "wait"
                 /\ ~Enlisted(wakelist[i])'
                 /\ wakelist'[i] = wakelist'[j] => i = j
      <3>1. /\ i + 1 \in 1 .. Len(wakelist) /\ wakelist'[i] = wakelist[i + 1]
            /\ j + 1 \in 1 .. Len(wakelist) /\ wakelist'[j] = wakelist[j + 1]
        BY <1>4
      <3>2. pc[wakelist[i + 1]] = "wait" /\ ~Enlisted(wakelist[i + 1])
        BY <3>1, EntryFacts DEF Safe
      <3>3. pc'[wakelist'[i]] = "wait" /\ ~Enlisted(wakelist[i])'
        BY <1>0, <3>1, <3>2 DEF Enlisted
      <3>4. wakelist'[i] = wakelist'[j] => i + 1 = j + 1
        BY <1>2, <3>1
      <3>5. i \in Int /\ j \in Int
        BY <1>1
      <3> QED
        BY <3>3, <3>4, <3>5
    <2> QED
      BY <2>1, <2>2 DEF NoDanglingEntry
  <1>9. HoldsExactly(run_queue', RunnableIn(state', Asleep'))
    <2>1. h \notin RunnableIn(state, Asleep)
      BY <1>2, <1>3 DEF RunnableIn
    <2>2. RunnableIn(state', Asleep') = RunnableIn(state, Asleep) \cup {h}
      BY <1>0, <1>2, <1>3, <1>7 DEF RunnableIn
    <2>3. run_queue' = run_queue_push(run_queue, h)
      BY <1>0, <1>3 DEF Sleeping
    <2> QED
      BY <1>0, <1>2, <2>1, <2>2, <2>3, PushHolds DEF Safe
  <1>10. TasksOK'
    BY <1>0, <1>7 DEF Safe, TasksOK
  <1>11. StatesOK'
    BY <1>0 DEF Safe, StatesOK
  <1>12. NoLostWakeup'
    BY <1>0, <1>6 DEF Safe, NoLostWakeup, Condition
  <1> QED
    BY <1>0, <1>8, <1>9, <1>10, <1>11, <1>12 DEF Safe, NoPanic

\* fork: the wait queues that signal_init empties were empty.
LEMMA SafeFork ==
    ASSUME TypeInv, TypeInv', Life, Safe, NEW t \in Slots, Fork(t)
    PROVE  Safe'
  <1> DEFINE c == NextSlot(task_table)
  <1>0. /\ c \in Slots /\ c \notin InUse(task_table)
        /\ InUse(task_table') = InUse(task_table) \cup {c}
    BY AllocLemma DEF TypeInv, Fork
  <1>1. /\ waiters' = [waiters EXCEPT ![ExitQueue(c)] = <<>>, ![ChildQueue(c)] = <<>>]
        /\ children' = [children EXCEPT ![t] = <<c>> \o @]
        /\ state' = [state EXCEPT ![c] = "QUEUED"]
        /\ pc' = [pc EXCEPT ![c] = "user"]
        /\ run_queue' = run_queue_push(run_queue, c)
        /\ UNCHANGED <<current, wakelist, waiting, input, panic>>
        /\ current = t /\ pc[t] = "user" /\ t # Swapper
    BY DEF Fork, Makes, At
  <1> HIDE DEF c
  <1>2. /\ waiters \in [WaitQueues -> Seq(Slots)] /\ children \in [Slots -> Seq(Slots)]
        /\ state \in [Slots -> States] /\ pc \in [Slots -> Points]
        /\ run_queue \in QueueType(Slots)
    BY DEF TypeInv, TypeOK
  <1>3. /\ state[t] = "RUNNING" /\ t \notin Asleep /\ t # c
        /\ pc[c] = "dead" /\ c # Swapper /\ c \notin Asleep /\ state[c] = "POOLED"
    <2>1. state[t] = "RUNNING" /\ t \notin Asleep
      BY <1>1, CurrentRuns
    <2>2. pc[c] = "dead" /\ state[c] = "POOLED"
      BY <1>0 DEF Life, Safe, StatesOK
    <2> QED
      BY <1>0, <2>1, <2>2 DEF Safe, TasksOK
  <1>4. waiters' = waiters
    <2>1. ASSUME NEW q \in {ExitQueue(c), ChildQueue(c)} PROVE waiters[q] = <<>>
      <3>0. q \in WaitQueues
        BY <1>0, QueueFacts
      <3>1. SUFFICES ASSUME waiters[q] # <<>> PROVE FALSE
        OBVIOUS
      <3>2. 1 \in 1 .. Len(waiters[q])
        BY <1>2, <3>0, <3>1, LenProperties, EmptySeq
      <3> DEFINE x == waiters[q][1]
      <3>3. x \in Slots /\ pc[x] = "wait" /\ waiting[x] = q
        BY <3>0, <3>2, EntryFacts DEF Safe
      <3> HIDE DEF x
      <3>4. CASE q = ExitQueue(c)
        <4>1. c \in Elems(children[x])
          BY <3>3, <3>4 DEF Life, FamilyOK, ExitQueue
        <4> QED
          BY <1>0, <3>3, <4>1 DEF Life, FamilyOK, Elems
      <3>5. CASE q = ChildQueue(c)
        <4>1. ChildQueue(c) = ChildQueue(x)
          BY <3>3, <3>5 DEF Safe, TasksOK, ChildQueue
        <4>2. x = c
          BY <4>1 DEF ChildQueue
        <4> QED
          BY <1>3, <3>3, <4>2
      <3> QED
        BY <3>4, <3>5
    <2>2. waiters[ExitQueue(c)] = <<>> /\ waiters[ChildQueue(c)] = <<>>
      BY <2>1
    <2> QED
      BY <1>1, <1>2, <2>2
  <1>5. NoDanglingEntry' /\ Asleep' = Asleep /\ \A x \in Slots : Enlisted(x)' <=> Enlisted(x)
    BY <1>1, <1>2, <1>3, <1>4, EntriesFrame DEF Safe
  <1>6. \A x \in Slots \ {c} : state'[x] = state[x] /\ pc'[x] = pc[x]
    BY <1>1, <1>2
  <1>7. state'[c] = "QUEUED" /\ pc'[c] = "user"
    BY <1>0, <1>1, <1>2
  <1>8. TasksOK'
    <2>1. ASSUME NEW x \in Slots
          PROVE  /\ state'[x] # "UNINTERRUPTIBLE"
                 /\ state'[x] = "INTERRUPTIBLE" => pc'[x] = "wait"
                 /\ pc'[x] = "wait" => state'[x] \in {"INTERRUPTIBLE", "RUNNING"}
                 /\ x \in Asleep' => state'[x] = "INTERRUPTIBLE"
                 /\ pc'[x] = "dead" => state'[x] \in {"ZOMBIE", "POOLED"}
                 /\ pc'[x] \in {"exit1", "exit2"} => state'[x] = "ZOMBIE"
                 /\ pc'[x] = "wait" /\ waiting'[x][1] = "child" => waiting'[x] = ChildQueue(x)
                 /\ pc'[x] \in {"hlt", "yield"} => x = Swapper
      <3>1. CASE x = c
        BY <1>3, <1>5, <1>7, <3>1
      <3>2. CASE x # c
        BY <1>1, <1>5, <1>6, <3>2 DEF Safe, TasksOK
      <3> QED
        BY <3>1, <3>2
    <2>2. pc'[Swapper] \in {"user", "hlt", "yield"} /\ state'[Swapper] \in {"QUEUED", "RUNNING"}
      BY <1>3, <1>6, SlotFacts DEF Safe, TasksOK
    <2>3. current' # NULL
      BY <1>1, SlotFacts
    <2> QED
      BY <2>1, <2>2, <2>3 DEF TasksOK
  <1>9. StatesOK'
    <2>1. \A x \in Slots : state'[x] = "RUNNING" => x = current'
      BY <1>1, <1>6, <1>7 DEF Safe, StatesOK
    <2>2. \A x \in Slots : state'[x] = "POOLED" <=> x \notin InUse(task_table')
      BY <1>0, <1>6, <1>7 DEF Safe, StatesOK
    <2>3. state'[current'] = "RUNNING" /\ pc'[current'] # "dead"
      BY <1>1, <1>3, <1>6
    <2> QED
      BY <2>1, <2>2, <2>3 DEF StatesOK
  <1>10. NoLostWakeup'
    <2> SUFFICES ASSUME NEW x \in Slots, Enlisted(x)', Condition(x, waiting[x])'
                 PROVE  FALSE
      BY DEF NoLostWakeup
    <2>1. Enlisted(x) /\ x # t /\ x # c /\ waiting[x] \in WaitQueues
      BY <1>3, <1>5 DEF Asleep, Enlisted, Life
    <2>2. ~Condition(x, waiting[x])
      BY <1>1, <2>1, NobodyMissed
    <2>3. children'[x] = children[x] /\ \A d \in Elems(children[x]) : d \in Slots
      BY <1>1, <1>2, <2>1, ElementOfSeq DEF Elems
    <2> QED
      BY <1>1, <1>6, <1>7, <2>1, <2>2, <2>3, QueueFacts DEF Condition
  <1>11. HoldsExactly(run_queue', RunnableIn(state', Asleep'))
    <2>1. c \notin RunnableIn(state, Asleep)
      BY <1>3 DEF RunnableIn
    <2>2. RunnableIn(state', Asleep') = RunnableIn(state, Asleep) \cup {c}
      BY <1>0, <1>3, <1>5, <1>6, <1>7 DEF RunnableIn
    <2>3. HoldsExactly(run_queue, RunnableIn(state, Asleep))
      BY DEF Safe
    <2>4. run_queue' = run_queue_push(run_queue, c) /\ run_queue \in QueueType(Slots) /\ c \in Slots
      BY <1>0, <1>1, <1>2
    <2> QED
      BY <2>1, <2>2, <2>3, <2>4, PushHolds
  <1> QED
    BY <1>1, <1>5, <1>8, <1>9, <1>10, <1>11 DEF Safe, NoPanic

\* sched_waitpid frees a child that is a zombie.
LEMMA SafeReap ==
    ASSUME TypeInv, TypeInv', Life, Safe, NEW t \in Slots, current = t, current' = t,
           t # Swapper, pc[t] \in {"user", "wait"},
           NEW c \in Elems(children[t]), state[c] = "ZOMBIE", Reap(t, c),
           UNCHANGED <<run_queue, waiters, wakelist, input>>,
           \A x \in Slots \ {t} : pc'[x] = pc[x] /\ waiting'[x] = waiting[x],
           pc'[t] = "user"
    PROVE  Safe'
  <1>0. /\ children \in [Slots -> Seq(Slots)] /\ state \in [Slots -> States]
    BY DEF TypeInv, TypeOK
  <1>1. /\ c \in Slots /\ c \in InUse(task_table) /\ c # t
    BY <1>0 DEF Elems, Life, FamilyOK, InUse
  <1>2. panic' = panic
    BY LifeReap
  <1>3. ~task_table_free_panics(task_table, c)
    BY <1>1, InUseLemma DEF TypeInv
  <1>4. /\ state' = [state EXCEPT ![c] = "POOLED"]
        /\ children' = [[children EXCEPT ![t] = Without(@, c)] EXCEPT ![c] = <<>>]
        /\ InUse(task_table') = InUse(task_table) \ {c}
    BY <1>1, <1>3, FreeLemma DEF Reap, TypeInv
  <1>5. state'[c] = "POOLED" /\ \A x \in Slots \ {c} : state'[x] = state[x]
    BY <1>0, <1>1, <1>4
  <1>6. /\ state[t] = "RUNNING" /\ t \notin Asleep
        /\ pc[c] = "dead" /\ c \notin Asleep /\ c # Swapper
    <2>1. state[t] = "RUNNING" /\ t \notin Asleep
      BY CurrentRuns
    <2>2. pc[c] = "dead"
      BY <1>1 DEF Life
    <2> QED
      BY <1>1, <2>1, <2>2 DEF Safe, TasksOK
  <1>7. NoDanglingEntry' /\ Asleep' = Asleep /\ \A x \in Slots : Enlisted(x)' <=> Enlisted(x)
    BY <1>6, EntriesFrame DEF Safe
  <1>8. TasksOK'
    <2>1. ASSUME NEW x \in Slots
          PROVE  /\ state'[x] # "UNINTERRUPTIBLE"
                 /\ state'[x] = "INTERRUPTIBLE" => pc'[x] = "wait"
                 /\ pc'[x] = "wait" => state'[x] \in {"INTERRUPTIBLE", "RUNNING"}
                 /\ x \in Asleep' => state'[x] = "INTERRUPTIBLE"
                 /\ pc'[x] = "dead" => state'[x] \in {"ZOMBIE", "POOLED"}
                 /\ pc'[x] \in {"exit1", "exit2"} => state'[x] = "ZOMBIE"
                 /\ pc'[x] = "wait" /\ waiting'[x][1] = "child" => waiting'[x] = ChildQueue(x)
                 /\ pc'[x] \in {"hlt", "yield"} => x = Swapper
      <3>1. CASE x = c
        BY <1>1, <1>5, <1>6, <1>7, <3>1
      <3>2. CASE x = t
        BY <1>1, <1>5, <1>6, <1>7, <3>2
      <3>3. CASE x # c /\ x # t
        BY <1>5, <1>7, <3>3 DEF Safe, TasksOK
      <3> QED
        BY <3>1, <3>2, <3>3
    <2>2. pc'[Swapper] \in {"user", "hlt", "yield"} /\ state'[Swapper] \in {"QUEUED", "RUNNING"}
      BY <1>5, <1>6, SlotFacts DEF Safe, TasksOK
    <2>3. current' # NULL
      BY SlotFacts
    <2> QED
      BY <2>1, <2>2, <2>3 DEF TasksOK
  <1>9. StatesOK'
    <2>1. \A x \in Slots : state'[x] = "RUNNING" => x = current'
      BY <1>5 DEF Safe, StatesOK
    <2>2. \A x \in Slots : state'[x] = "POOLED" <=> x \notin InUse(task_table')
      BY <1>4, <1>5 DEF Safe, StatesOK
    <2>3. state'[t] = "RUNNING" /\ pc'[t] # "dead"
      BY <1>1, <1>5, <1>6
    <2> QED
      BY <2>1, <2>2, <2>3 DEF StatesOK
  <1>10. NoLostWakeup'
    <2> SUFFICES ASSUME NEW x \in Slots, Enlisted(x)', Condition(x, waiting[x])'
                 PROVE  FALSE
      BY DEF NoLostWakeup
    <2>1. /\ Enlisted(x) /\ x # t /\ x # c /\ waiting[x] \in WaitQueues
          /\ waiting'[x] = waiting[x]
      BY <1>6, <1>7 DEF Asleep, Enlisted, Life
    <2>2. ~Condition(x, waiting[x])
      BY <2>1, NobodyMissed
    <2>3. children'[x] = children[x] /\ \A d \in Elems(children[x]) : d \in Slots
      BY <1>0, <1>4, <2>1, ElementOfSeq DEF Elems
    <2> QED
      BY <1>5, <2>1, <2>2, <2>3, QueueFacts DEF Condition
  <1>11. HoldsExactly(run_queue', RunnableIn(state', Asleep'))
    <2>1. RunnableIn(state', Asleep') = RunnableIn(state, Asleep)
      BY <1>1, <1>5, <1>7 DEF RunnableIn
    <2> QED
      BY <2>1 DEF Safe
  <1> QED
    BY <1>2, <1>7, <1>8, <1>9, <1>10, <1>11 DEF Safe, NoPanic

\* After boot the run queue holds init.
LEMMA SafeInit == Init => Safe
  <1> SUFFICES ASSUME Init PROVE Safe
    OBVIOUS
  <1>1. \A x \in Slots : /\ state[x] = IF x \in {Swapper, InitTask} THEN "QUEUED" ELSE "POOLED"
                         /\ pc[x] = IF x \in {Swapper, InitTask} THEN "user" ELSE "dead"
    BY DEF Init
  <1>2. wakelist = <<>> /\ (\A q \in WaitQueues : waiters[q] = <<>>) /\ current = NULL /\ ~panic
    BY DEF Init
  <1>3. \A x \in Slots : ~Enlisted(x) /\ x \notin Asleep
    BY <1>1, <1>2 DEF Enlisted, Asleep, Elems
  <1>4. NoDanglingEntry
    BY <1>2 DEF NoDanglingEntry
  <1>5. TasksOK
    BY <1>1, <1>2, <1>3, SlotFacts DEF TasksOK
  <1>6. StatesOK
    BY <1>1, <1>2, SlotFacts, BootTable DEF StatesOK
  <1>7. HoldsExactly(run_queue, RunnableIn(state, Asleep))
    <2>1. run_queue_init(Slots) \in QueueType(Slots) /\ HoldsExactly(run_queue_init(Slots), {})
      <3>1. /\ run_queue_init(Slots) \in QueueType(Slots)
            /\ Represents(run_queue_init(Slots), <<>>)
        BY SlotFacts, InitRepresents
      <3>2. Elems(<<>>) = {} /\ <<>> \in Seq(Slots)
        BY DEF Elems
      <3> QED
        BY <3>1, <3>2, HoldsSeq
    <2>2. HoldsExactly(run_queue_push(run_queue_init(Slots), InitTask), {} \cup {InitTask})
      BY <2>1, SlotFacts, PushHolds
    <2>3. RunnableIn(state, Asleep) = {} \cup {InitTask}
      BY <1>1, SlotFacts DEF RunnableIn
    <2> QED
      BY <2>2, <2>3 DEF Init
  <1> QED
    BY <1>2, <1>3, <1>4, <1>5, <1>6, <1>7 DEF Safe, NoLostWakeup, NoPanic

---------------------------------------------------------------------------
\* Every step keeps the invariant.
LEMMA SafeStep ==
    ASSUME NoSleeperSignalled, TypeInv, TypeInv', Life, Safe, [Next]_vars
    PROVE  Safe'
  <1>0. /\ pc \in [Slots -> Points] /\ waiting \in [Slots -> WaitQueues \cup {NoQueue}]
        /\ input \in 0 .. INPUT_MAX /\ children \in [Slots -> Seq(Slots)]
        /\ INPUT_MAX \in Nat
    BY SchedAssumption DEF TypeInv, TypeOK
  <1>1. input \in 0 .. input
    BY <1>0
  <1>2. CASE Boot
    BY <1>2, SafeBoot
  <1>3. CASE WakeNext
    BY <1>3, SafeWakeNext
  <1>4. ASSUME NEW t \in Slots, Yield(t) PROVE Safe'
    <2>1. /\ current = t /\ pc[t] = "user" /\ sched_schedule(run_queue, state, t)
          /\ UNCHANGED <<task_table, children, waiters, wakelist, pc, waiting, input>>
      BY <1>4 DEF Yield, Makes, At
    <2> QED
      BY <2>1, SafeYield
  <1>5. ASSUME NEW t \in Slots, Read(t) PROVE Safe'
    <2>1. /\ current = t /\ pc[t] \in {"user", "read1"} /\ sched_schedule(run_queue, state, t)
          /\ UNCHANGED <<task_table, children, waiters, wakelist, waiting, input>>
          /\ pc'[t] \in {"read1", "read2"} /\ \A x \in Slots \ {t} : pc'[x] = pc[x]
      BY <1>0, <1>5 DEF Read, Makes, At
    <2>2. t # Swapper
      BY <1>5 DEF Read, Makes, At, Safe, TasksOK
    <2> QED
      BY <2>1, <2>2, SafeYield
  <1>6. ASSUME NEW t \in Slots, ReadBody(t) PROVE Safe'
    <2>1. /\ current = t /\ pc[t] = "read2" /\ t # Swapper
          /\ UNCHANGED <<task_table, parent, children, pending, wakelist>>
      BY <1>6 DEF ReadBody, At, Safe, TasksOK
    <2>2. CASE /\ TakeInput \/ UNCHANGED input
               /\ pc' = [pc EXCEPT ![t] = "user"]
               /\ UNCHANGED <<run_queue, current, state, waiters, waiting, panic>>
      <3>1. input' \in 0 .. input
        BY <1>0, <1>1, <2>2 DEF TakeInput
      <3>2. pc'[t] = "user" /\ \A x \in Slots \ {t} : pc'[x] = pc[x]
        BY <1>0, <2>2
      <3> QED
        BY <2>1, <2>2, <3>1, <3>2, SafeFrame
    <2>3. CASE ~Condition(t, TtyQueue) /\ SleepOn(t, TtyQueue, waiters) /\ UNCHANGED input
      <3>1. TtyQueue \in WaitQueues /\ TtyQueue[1] # "child"
        BY QueueFacts DEF TtyQueue
      <3> QED
        BY <2>1, <2>3, <3>1, SafeSleep
    <2> QED
      BY <1>6, <2>2, <2>3 DEF ReadBody
  <1>7. ASSUME NEW t \in Slots, Fork(t) PROVE Safe'
    BY <1>7, SafeFork
  <1>8. ASSUME NEW t \in Slots, Execve(t) PROVE Safe'
    BY <1>8, SafeExecve
  <1>9. ASSUME NEW t \in Slots, Exit(t) PROVE Safe'
    <2>1. /\ current = t /\ current' = t /\ pc[t] = "user" /\ t # Swapper /\ wakelist = <<>>
          /\ UNCHANGED <<task_table, run_queue, parent, children, input, panic>>
          /\ BeginExit(t, waiters)
      BY <1>9 DEF Exit, Makes, At
    <2> QED
      BY <2>1, SafeExit
  <1>10. ASSUME NEW t \in Slots, NEW pid, NEW sig \in Signals, Kill(t, pid, sig)
         PROVE  Safe'
    <2>1. /\ run_queue' = run_queue
          /\ UNCHANGED <<task_table, current, state, parent, children, waiters, wakelist,
                         pc, waiting, input, panic>>
      BY <1>10 DEF Kill, NoSleeperSignalled
    <2> QED
      BY <1>1, <2>1, SafeFrame
  <1>11. ASSUME NEW t \in Slots, NEW c \in Slots, WaitpidOne(t, c) PROVE Safe'
    <2>1. /\ current = t /\ pc[t] = "user" /\ c \in Elems(children[t]) /\ t # Swapper
          /\ UNCHANGED <<pending, wakelist, input>>
      BY <1>11 DEF WaitpidOne, Makes, At
    <2>2. CASE /\ state[c] = "ZOMBIE"
               /\ Reap(t, c) /\ UNCHANGED <<run_queue, current, waiters, pc, waiting>>
      BY <2>1, <2>2, SafeReap
    <2>3. CASE /\ state[c] # "ZOMBIE" /\ SleepOn(t, ExitQueue(c), waiters)
               /\ UNCHANGED <<task_table, parent, children>>
      <3>1. ExitQueue(c) \in WaitQueues /\ ExitQueue(c)[1] = "exit" /\ ExitQueue(c)[2] = c
        BY QueueFacts DEF ExitQueue
      <3>2. ~Condition(t, ExitQueue(c))
        BY <2>3 DEF Condition, ExitQueue, TtyQueue
      <3>3. ExitQueue(c)[1] # "child"
        BY <3>1
      <3> QED
        BY <2>1, <2>3, <3>1, <3>2, <3>3, SafeSleep
    <2> QED
      BY <1>11, <2>2, <2>3 DEF WaitpidOne
  <1>12. ASSUME NEW t \in Slots, WaitpidAny(t) PROVE Safe'
    <2>1. /\ current = t /\ pc[t] = "user" /\ t # Swapper
          /\ UNCHANGED <<pending, wakelist, input>>
      BY <1>12 DEF WaitpidAny, Makes, At
    <2>2. CASE /\ Condition(t, ChildQueue(t))
               /\ Reap(t, find_zombie_child(t))
               /\ UNCHANGED <<run_queue, current, waiters, pc, waiting>>
      <3>1. /\ find_zombie_child(t) \in Elems(children[t])
            /\ state[find_zombie_child(t)] = "ZOMBIE"
        BY <1>0, <2>2, FindZombie DEF Condition, ChildQueue, TtyQueue
      <3> QED
        BY <2>1, <2>2, <3>1, SafeReap
    <2>3. CASE /\ ~Condition(t, ChildQueue(t)) /\ SleepOn(t, ChildQueue(t), waiters)
               /\ UNCHANGED <<task_table, parent, children>>
      <3>1. ChildQueue(t) \in WaitQueues
        BY QueueFacts
      <3> QED
        BY <2>1, <2>3, <3>1, SafeSleep
    <2> QED
      BY <1>12, <2>2, <2>3 DEF WaitpidAny
  <1>13. ASSUME NEW t \in Slots, At(t, "wait")
         PROVE  /\ current = t /\ pc[t] = "wait" /\ t # Swapper /\ wakelist = <<>>
                /\ EntryRemoved(t) = waiters /\ waiting[t] \in WaitQueues
                /\ waiting[t][1] = "child" => waiting[t] = ChildQueue(t)
    <2>1. current = t /\ pc[t] = "wait" /\ wakelist = <<>>
      BY <1>13 DEF At
    <2>2. t \notin Asleep
      BY <2>1, CurrentRuns
    <2>3. EntryRemoved(t) = waiters
      BY <2>1, <2>2, NothingToRemove
    <2> QED
      BY <2>1, <2>3 DEF Life, Safe, TasksOK
  <1>14. ASSUME NEW t \in Slots, WaitInterrupted(t) PROVE Safe'
    <2>1. /\ At(t, "wait") /\ BeginExit(t, EntryRemoved(t)) /\ current' = current
          /\ UNCHANGED <<task_table, run_queue, parent, children, input, panic>>
      BY <1>14 DEF WaitInterrupted
    <2> QED
      BY <1>13, <2>1, SafeExit
  <1>15. ASSUME NEW t \in Slots, WaitAgain(t) PROVE Safe'
    <2>1. /\ At(t, "wait") /\ ~Condition(t, waiting[t])
          /\ SleepOn(t, waiting[t], EntryRemoved(t))
          /\ UNCHANGED <<task_table, parent, children, pending, wakelist, input>>
      BY <1>15 DEF WaitAgain
    <2> QED
      BY <1>13, <2>1, SafeSleep
  <1>16. ASSUME NEW t \in Slots, WaitDone(t) PROVE Safe'
    <2>1. /\ At(t, "wait") /\ Condition(t, waiting[t])
          /\ waiters' = EntryRemoved(t)
          /\ pc'[t] = "user"
          /\ \A x \in Slots \ {t} : pc'[x] = pc[x] /\ waiting'[x] = waiting[x]
          /\ UNCHANGED <<run_queue, current, pending, wakelist>>
      BY <1>0, <1>16 DEF WaitDone
    <2>2. /\ current = t /\ pc[t] = "wait" /\ t # Swapper /\ waiters' = waiters
          /\ waiting[t] \in WaitQueues
      BY <1>13, <2>1
    <2>3. CASE TakeInput /\ UNCHANGED <<task_table, state, parent, children, panic>>
      <3>1. input' \in 0 .. input
        BY <1>0, <2>3 DEF TakeInput
      <3> QED
        BY <2>1, <2>2, <2>3, <3>1, SafeFrame
    <2>4. CASE /\ waiting[t][1] = "exit" /\ Reap(t, waiting[t][2]) /\ UNCHANGED input
      <3>1. waiting[t][2] \in Elems(children[t])
        BY <2>2, <2>4 DEF Life, FamilyOK
      <3>2. state[waiting[t][2]] = "ZOMBIE"
        BY <2>1, <2>4 DEF Condition, TtyQueue
      <3> QED
        BY <2>1, <2>2, <2>4, <3>1, <3>2, SafeReap
    <2>5. CASE /\ waiting[t][1] = "child" /\ Reap(t, find_zombie_child(t)) /\ UNCHANGED input
      <3>1. \E c \in Elems(children[t]) : state[c] = "ZOMBIE"
        BY <2>1, <2>5 DEF Condition, TtyQueue
      <3>2. /\ find_zombie_child(t) \in Elems(children[t])
            /\ state[find_zombie_child(t)] = "ZOMBIE"
        BY <1>0, <3>1, FindZombie
      <3> QED
        BY <2>1, <2>2, <2>5, <3>2, SafeReap
    <2> QED
      BY <1>16, <2>3, <2>4, <2>5 DEF WaitDone
  <1>17. ASSUME NEW t \in Slots, ExitNotifyParent(t) PROVE Safe'
    <2>1. /\ UNCHANGED <<task_table, run_queue, current, state, parent, children,
                         waiting, input, panic>>
          /\ current = t /\ pc[t] = "exit1" /\ pc'[t] = "exit2" /\ wakelist = <<>>
          /\ \A x \in Slots \ {t} : pc'[x] = pc[x]
          /\ \/ parent[t] # t /\ detach(ChildQueue(parent[t]))
             \/ parent[t] = t /\ UNCHANGED <<wakelist, waiters>>
      BY <1>0, <1>17 DEF ExitNotifyParent, At
    <2>2. parent[t] \in Slots /\ ChildQueue(parent[t]) \in WaitQueues
      BY <2>1, QueueFacts DEF Life
    <2>3. \A y \in Slots : Enlisted(y) /\ waiting[y] # ChildQueue(parent[t]) =>
                            ~Condition(y, waiting[y])
      BY <2>1 DEF Safe, NoLostWakeup
    <2>4. CASE parent[t] # t
      <3>1. detach(ChildQueue(parent[t]))
        BY <2>1, <2>4
      <3> QED
        BY <2>1, <2>2, <2>3, <3>1, SafeDetach
    <2>5. CASE parent[t] = t
      <3>1. ChildQueue(t)[1] = "child" /\ (\A y \in Slots : ChildQueue(t) = ChildQueue(y) => y = t)
        BY DEF ChildQueue
      <3>2. \A y \in Slots : Enlisted(y) => waiting[y] # ChildQueue(t)
        BY <2>1, <3>1 DEF Enlisted, Safe, TasksOK
      <3>3. waiters[ChildQueue(t)] = <<>>
        <4>1. ChildQueue(t) \in WaitQueues
          BY QueueFacts
        <4>2. waiters[ChildQueue(t)] \in Seq(Slots)
          BY <4>1 DEF TypeInv, TypeOK
        <4>3. SUFFICES ASSUME waiters[ChildQueue(t)] # <<>> PROVE FALSE
          OBVIOUS
        <4>4. 1 \in 1 .. Len(waiters[ChildQueue(t)])
          BY <4>2, <4>3, LenProperties, EmptySeq
        <4> DEFINE y == waiters[ChildQueue(t)][1]
        <4>5. /\ y \in Slots /\ pc[y] = "wait" /\ waiting[y] = ChildQueue(t)
              /\ y \in Elems(waiters[ChildQueue(t)])
          BY <4>1, <4>4, EntryFacts DEF Safe, Elems
        <4> QED
          BY <3>2, <4>5 DEF Enlisted
      <3>4. detach(ChildQueue(t))
        BY <2>1, <2>5, <3>3, QueueFacts DEF detach, TypeInv, TypeOK
      <3> QED
        BY <2>1, <2>2, <2>3, <2>5, <3>4, SafeDetach
    <2> QED
      BY <2>4, <2>5
  <1>18. ASSUME NEW t \in Slots, ExitSwitch(t) PROVE Safe'
    BY <1>18, SafeExitSwitch
  <1>19. CASE SwapperHalt
    <2>1. /\ UNCHANGED <<task_table, run_queue, current, state, parent, children, pending,
                         waiters, wakelist, waiting, input, panic>>
          /\ current = Swapper /\ pc'[Swapper] = "hlt"
          /\ \A x \in Slots \ {Swapper} : pc'[x] = pc[x]
      BY <1>0, <1>19, SlotFacts DEF SwapperHalt, At
    <2> QED
      BY <1>1, <2>1, SlotFacts, SafeFrame
  <1>20. CASE SwapperYield
    <2>1. /\ sched_schedule(run_queue, state, Swapper) /\ current = Swapper
          /\ pc[Swapper] = "yield" /\ Swapper \in Slots
          /\ UNCHANGED <<task_table, children, waiters, wakelist, waiting, input>>
          /\ \A x \in Slots \ {Swapper} : pc'[x] = pc[x]
          /\ pc'[Swapper] = "user"
      BY <1>0, <1>20, SlotFacts DEF SwapperYield, At
    <2> QED
      BY <2>1, SafeYield
  <1>21. CASE KeyboardInput
    <2>1. /\ UNCHANGED <<task_table, run_queue, current, state, parent, children, pending,
                         waiting, panic>>
          /\ \A x \in Slots :
               pc'[x] = pc[x] \/ (x = Swapper /\ pc[x] = "hlt" /\ pc'[x] = "yield")
          /\ wakelist = <<>> /\ current \in Slots
      BY <1>0, <1>21, SlotFacts DEF KeyboardInput, EndHalt, Interruptible, At
    <2>2. CASE detach(TtyQueue)
      BY <2>1, <2>2, QueueFacts, SafeDetach
    <2>3. CASE UNCHANGED <<input, wakelist, waiters>>
      BY <1>1, <2>1, <2>3, SlotFacts, SafeFrame
    <2> QED
      BY <1>21, <2>2, <2>3 DEF KeyboardInput
  <1>22. CASE UNCHANGED vars
    <2>1. UNCHANGED <<task_table, run_queue, current, state, parent, children,
                      waiters, wakelist, panic, pc, waiting, input>>
      BY <1>22 DEF vars
    <2> QED
      BY <1>1, <2>1, SafeFrame
  <1> QED
    BY <1>2, <1>3, <1>4, <1>5, <1>6, <1>7, <1>8, <1>9, <1>10, <1>11, <1>12, <1>14,
       <1>15, <1>16, <1>17, <1>18, <1>19, <1>20, <1>21, <1>22
       DEF Next, UserStep, KernelStep

\* A task on its way out of sched_exit, or out of it, never turns back.
LEMMA DyingStays ==
    ASSUME TypeInv, Life, Safe, [Next]_vars, NEW x \in Slots,
           pc[x] \in {"exit1", "exit2", "dead"}, state[x] = "ZOMBIE"
    PROVE  pc'[x] \in {"exit1", "exit2", "dead"}
  <1>1. pc \in [Slots -> Points] /\ Swapper \in Slots /\ pc[Swapper] \in {"user", "hlt", "yield"}
    BY SlotFacts DEF TypeInv, TypeOK, Safe, TasksOK
  <1>2. \A t \in Slots : Fork(t) => NextSlot(task_table) # x
    <2>1. x \in InUse(task_table)
      BY DEF Safe, StatesOK
    <2> QED
      BY <2>1, AllocLemma DEF TypeInv, Fork
  <1>3. ASSUME NEW t \in Slots, UserStep(t) PROVE pc'[x] \in {"exit1", "exit2", "dead"}
    <2>1. pc[t] \in {"user", "read1", "read2"}
      BY <1>3 DEF UserStep, Yield, Read, ReadBody, Fork, Execve, Exit, Kill, WaitpidOne,
                  WaitpidAny, Makes, At
    <2>2. x # t
      BY <2>1
    <2>3. CASE Fork(t)
      BY <1>1, <1>2, <2>3 DEF Fork
    <2>4. CASE ~Fork(t)
      BY <1>1, <1>3, <2>2, <2>4
         DEF UserStep, Yield, Read, ReadBody, Execve, Exit, Kill, WaitpidOne, WaitpidAny,
             SleepOn, BeginExit
    <2> QED
      BY <2>3, <2>4
  <1>4. ASSUME NEW t \in Slots, KernelStep(t) PROVE pc'[x] \in {"exit1", "exit2", "dead"}
    <2>1. CASE WaitInterrupted(t) \/ WaitAgain(t) \/ WaitDone(t)
      BY <1>1, <2>1 DEF WaitInterrupted, WaitAgain, WaitDone, SleepOn, BeginExit, At
    <2>2. CASE ExitNotifyParent(t) \/ ExitSwitch(t)
      BY <1>1, <2>2 DEF ExitNotifyParent, ExitSwitch
    <2> QED
      BY <1>4, <2>1, <2>2 DEF KernelStep
  <1>5. CASE Boot \/ WakeNext \/ UNCHANGED vars
    BY <1>5 DEF Boot, WakeNext, vars
  <1>6. CASE SwapperHalt \/ SwapperYield \/ KeyboardInput
    BY <1>1, <1>6 DEF SwapperHalt, SwapperYield, KeyboardInput, EndHalt
  <1> QED
    BY <1>3, <1>4, <1>5, <1>6 DEF Next

\* A slot comes out of use only in sched_waitpid, and then as a zombie child of
\* the caller.
LEMMA FreedByParent ==
    ASSUME TypeInv, Life, Safe, [Next]_vars, NEW c \in Slots,
           c \in InUse(task_table), c \notin InUse(task_table')
    PROVE  /\ state[c] = "ZOMBIE" /\ pc[c] = "dead"
           /\ current # NULL /\ c \in Elems(children[current])
  <1>1. children \in [Slots -> Seq(Slots)]
    BY DEF TypeInv, TypeOK
  <1>2. task_table' # task_table
    OBVIOUS
  <1>3. ASSUME NEW t \in Slots, Fork(t) PROVE FALSE
    BY <1>3, AllocLemma DEF TypeInv, Fork
  <1>4. ASSUME NEW t \in Slots, NEW d \in Elems(children[t]), Reap(t, d), current = t,
               state[d] = "ZOMBIE", pc[t] \in {"user", "wait"}
        PROVE  /\ state[c] = "ZOMBIE" /\ pc[c] = "dead"
               /\ current # NULL /\ c \in Elems(children[current])
    <2>1. d \in Slots /\ d \in InUse(task_table) /\ d # t
      BY <1>1 DEF Elems, Life, FamilyOK, InUse
    <2>2. InUse(task_table') = InUse(task_table) \ {d}
      BY <1>2, <1>4, <2>1, FreeLemma DEF Reap, TypeInv
    <2>3. c = d
      BY <2>2
    <2>4. pc[d] = "dead"
      BY <1>4, <2>1 DEF Life
    <2> QED
      BY <1>4, <2>3, <2>4, SlotFacts
  <1>5. ASSUME NEW t \in Slots, UserStep(t)
        PROVE  /\ state[c] = "ZOMBIE" /\ pc[c] = "dead"
               /\ current # NULL /\ c \in Elems(children[current])
    <2>1. CASE \E d \in Slots : WaitpidOne(t, d)
      <3>1. PICK d \in Slots : WaitpidOne(t, d)
        BY <2>1
      <3>2. /\ d \in Elems(children[t]) /\ Reap(t, d) /\ current = t /\ pc[t] = "user"
            /\ state[d] = "ZOMBIE"
        BY <1>2, <3>1 DEF WaitpidOne, Makes, At
      <3> QED
        BY <1>4, <3>2
    <2>2. CASE WaitpidAny(t)
      <3>1. /\ Condition(t, ChildQueue(t)) /\ Reap(t, find_zombie_child(t))
            /\ current = t /\ pc[t] = "user"
        BY <1>2, <2>2 DEF WaitpidAny, Makes, At
      <3>2. /\ find_zombie_child(t) \in Elems(children[t])
            /\ state[find_zombie_child(t)] = "ZOMBIE"
        BY <1>1, <3>1, FindZombie DEF Condition, ChildQueue, TtyQueue
      <3> QED
        BY <1>4, <3>1, <3>2
    <2> QED
      BY <1>2, <1>3, <1>5, <2>1, <2>2
         DEF UserStep, Yield, Read, ReadBody, Execve, Exit, Kill
  <1>6. ASSUME NEW t \in Slots, KernelStep(t)
        PROVE  /\ state[c] = "ZOMBIE" /\ pc[c] = "dead"
               /\ current # NULL /\ c \in Elems(children[current])
    <2>1. WaitDone(t)
      BY <1>2, <1>6 DEF KernelStep, WaitInterrupted, WaitAgain, ExitNotifyParent, ExitSwitch
    <2>2. /\ Condition(t, waiting[t]) /\ current = t /\ pc[t] = "wait"
          /\ \/ waiting[t][1] = "exit" /\ Reap(t, waiting[t][2])
             \/ waiting[t][1] = "child" /\ Reap(t, find_zombie_child(t))
      BY <1>2, <2>1 DEF WaitDone, At
    <2>3. CASE waiting[t][1] = "exit" /\ Reap(t, waiting[t][2])
      <3>1. waiting[t][2] \in Elems(children[t])
        BY <2>2, <2>3 DEF Life, FamilyOK
      <3>2. state[waiting[t][2]] = "ZOMBIE"
        BY <2>2, <2>3 DEF Condition, TtyQueue
      <3> QED
        BY <1>4, <2>2, <2>3, <3>1, <3>2
    <2>4. CASE waiting[t][1] = "child" /\ Reap(t, find_zombie_child(t))
      <3>1. \E d \in Elems(children[t]) : state[d] = "ZOMBIE"
        BY <2>2, <2>4 DEF Condition, TtyQueue
      <3>2. /\ find_zombie_child(t) \in Elems(children[t])
            /\ state[find_zombie_child(t)] = "ZOMBIE"
        BY <1>1, <3>1, FindZombie
      <3> QED
        BY <1>4, <2>2, <2>4, <3>2
    <2> QED
      BY <2>2, <2>3, <2>4
  <1> QED
    BY <1>2, <1>5, <1>6
       DEF Next, Boot, WakeNext, SwapperHalt, SwapperYield, KeyboardInput, vars

LEMMA SafeInvariance ==
    ASSUME NoSleeperSignalled
    PROVE  Spec => [](TypeInv /\ Life /\ Safe)
  <1>1. Init => TypeInv /\ Life /\ Safe
    BY TypeInit, LifeInit, SafeInit
  <1>2. TypeInv /\ Life /\ Safe /\ [Next]_vars => (TypeInv /\ Life /\ Safe)'
    BY TypeStep, LifeStep, SafeStep
  <1> QED
    BY <1>1, <1>2, PTL DEF Spec

\* As long as no sleeping task is signalled, sched_schedule, wakeup, fork,
\* execve and sched_exit keep the run queue exact for every table size: no task
\* is pushed twice, forgotten, or queued while it sleeps, runs or is dead.
THEOREM RunQueueCorrect == NoSleeperSignalled => (Spec => []RunQueueOK)
  <1> SUFFICES ASSUME NoSleeperSignalled PROVE Spec => []RunQueueOK
    OBVIOUS
  <1>1. Safe => RunQueueOK
    BY ReadyIs DEF Safe, RunQueueOK
  <1> QED
    BY <1>1, SafeInvariance, PTL

\* Under the same condition the states agree with what the tasks do: no
\* second RUNNING task, and no switch to a task that has exited or was reaped.
THEOREM StatesCorrect == NoSleeperSignalled => (Spec => []StatesOK)
  <1> SUFFICES ASSUME NoSleeperSignalled PROVE Spec => []StatesOK
    OBVIOUS
  <1>1. Safe => StatesOK
    BY DEF Safe
  <1> QED
    BY <1>1, SafeInvariance, PTL

\* Under the same condition, and with every call of the kernel atomic with
\* respect to the keyboard, whose interrupt Sched takes in programs and in the
\* swapper only, wait_event and wakeup lose no wakeup: outside sched_exit a task
\* that is still in a wait queue has nothing to wake up for, in whatever order
\* the tasks sleep, wake, exit and are reaped.  It says nothing of a key inside
\* wait_event: between the check and wait_queue_add the code loses that wakeup.
\* WaitIsCorrect is the theorem for interrupts between any two stores, outside
\* the points that WaitIrq names in Window.
THEOREM WakeupsCorrect == NoSleeperSignalled => (Spec => []NoLostWakeup)
  <1> SUFFICES ASSUME NoSleeperSignalled PROVE Spec => []NoLostWakeup
    OBVIOUS
  <1>1. Safe => NoLostWakeup
    BY DEF Safe
  <1> QED
    BY <1>1, SafeInvariance, PTL

\* Under the same condition no wait queue keeps an entry of a wait_event call
\* that has returned, and signal_init of a reused slot drops no waiter.
THEOREM EntriesCorrect == NoSleeperSignalled => (Spec => []NoDanglingEntry)
  <1> SUFFICES ASSUME NoSleeperSignalled PROVE Spec => []NoDanglingEntry
    OBVIOUS
  <1>1. Safe => NoDanglingEntry
    BY DEF Safe
  <1> QED
    BY <1>1, SafeInvariance, PTL

\* Under the same condition neither run_queue_poll nor task_table_free panics.
THEOREM PanicFree == NoSleeperSignalled => (Spec => []NoPanic)
  <1> SUFFICES ASSUME NoSleeperSignalled PROVE Spec => []NoPanic
    OBVIOUS
  <1>1. Safe => NoPanic
    BY DEF Safe
  <1> QED
    BY <1>1, SafeInvariance, PTL

\* Under the same condition a slot is freed only by sched_waitpid of its parent
\* after its task has left sched_exit, and a zombie stays one until then.
THEOREM ReapingCorrect == NoSleeperSignalled => (Spec => ReapedByParent)
  <1> SUFFICES ASSUME NoSleeperSignalled PROVE Spec => ReapedByParent
    OBVIOUS
  <1>1. ASSUME TypeInv, Life, Safe, Safe', [Next]_vars, NEW c \in Slots
        PROVE  /\ state[c] = "ZOMBIE" => state'[c] \in {"ZOMBIE", "POOLED"}
               /\ state'[c] = "POOLED" /\ state[c] # "POOLED" =>
                    /\ state[c] = "ZOMBIE" /\ pc[c] = "dead"
                    /\ current # NULL /\ c \in Elems(children[current])
    <2>1. state[c] = "ZOMBIE" => state'[c] \in {"ZOMBIE", "POOLED"}
      BY <1>1, DyingStays DEF Life, Safe, TasksOK
    <2>2. state'[c] = "POOLED" /\ state[c] # "POOLED" =>
            c \in InUse(task_table) /\ c \notin InUse(task_table')
      BY <1>1 DEF Safe, StatesOK
    <2> QED
      BY <1>1, <2>1, <2>2, FreedByParent
  <1>2. TypeInv /\ Life /\ Safe /\ Safe' /\ [Next]_vars =>
          [\A c \in Slots :
             /\ state[c] = "ZOMBIE" => state'[c] \in {"ZOMBIE", "POOLED"}
             /\ state'[c] = "POOLED" /\ state[c] # "POOLED" =>
                  /\ state[c] = "ZOMBIE" /\ pc[c] = "dead"
                  /\ current # NULL /\ c \in Elems(children[current])]_vars
    BY <1>1
  <1> QED
    BY <1>2, SafeInvariance, PTL DEF Spec, ReapedByParent
-----------------------------------------------------------------------------
(* The linked run queue implements a first-in first-out queue, for any set *)
(* of tasks, as long as no task is pushed while it is queued.              *)

\* A list stands for one sequence only.
LEMMA RepresentsUnique ==
    ASSUME NEW rq, NEW p \in Seq(Tasks), NEW q \in Seq(Tasks),
           Represents(rq, p), Represents(rq, q)
    PROVE  p = q
  <1> DEFINE n == Len(p)
             D == {i \in 1 .. n : p[i] # q[i]}
  <1>1. n \in Nat /\ Len(q) = n
    BY LenProperties DEF Represents
  <1>2. SUFFICES ASSUME D # {} PROVE FALSE
    BY <1>1, SeqEqual
  <1>3. PICK k \in D : \A i \in D : ~(i < k)
    <2>1. D \subseteq Nat
      BY <1>1
    <2> HIDE DEF D
    <2> QED
      BY <1>2, <2>1, LeastNat
  <1>4. k \in 1 .. n /\ p[k] # q[k]
    BY <1>3
  <1>5. CASE k = 1
    <2>1. p # <<>> /\ q # <<>>
      BY <1>1, <1>4, EmptySeq
    <2> QED
      BY <1>4, <1>5, <2>1 DEF Represents
  <1>6. CASE k # 1
    <2>1. k - 1 \in 1 .. n /\ k - 1 < k /\ k - 1 # n /\ (k - 1) + 1 = k
      BY <1>1, <1>4, <1>6
    <2>2. p[k - 1] = q[k - 1]
      BY <1>3, <2>1
    <2>3. rq.next[p[k - 1]] = p[(k - 1) + 1]
      BY <2>1 DEF Represents
    <2>4. rq.next[q[k - 1]] = q[(k - 1) + 1]
      BY <1>1, <2>1 DEF Represents
    <2> QED
      BY <1>4, <2>1, <2>2, <2>3, <2>4
  <1> QED
    BY <1>5, <1>6

---------------------------------------------------------------------------
RQInv == /\ queue \in QueueType(Tasks)
         /\ Contents \in Seq(Tasks)
         /\ Represents(queue, Contents)

\* Contents is the sequence a list stands for, if there is one.
LEMMA ContentsIs ==
    ASSUME NEW q \in Seq(Tasks), Represents(queue, q)
    PROVE  Contents = q
  <1>1. q \in [1 .. queue.len -> Tasks]
    BY LenProperties DEF Represents
  <1>2. /\ Contents \in [1 .. queue.len -> Tasks]
        /\ Represents(queue, Contents)
    BY <1>1 DEF Contents
  <1>3. queue.len \in Nat
    BY LenProperties DEF Represents
  <1>4. Contents \in Seq(Tasks)
    BY <1>2, <1>3
  <1> QED
    BY <1>2, <1>4, RepresentsUnique

\* Initially the list stands for the empty sequence, and every step changes
\* the sequence it stands for as the abstract queue does.
LEMMA RQInitial == RQInit => RQInv /\ Contents = <<>>
  <1> SUFFICES ASSUME RQInit PROVE RQInv /\ Contents = <<>>
    OBVIOUS
  <1>1. queue \in QueueType(Tasks) /\ Represents(queue, <<>>)
    BY TasksAssumption, InitRepresents DEF RQInit
  <1>2. <<>> \in Seq(Tasks)
    OBVIOUS
  <1>3. Contents = <<>>
    BY <1>1, <1>2, ContentsIs
  <1> QED
    BY <1>1, <1>2, <1>3 DEF RQInv

\* The same for the state after a step.
LEMMA ContentsIsNext ==
    ASSUME NEW q \in Seq(Tasks), Represents(queue', q)
    PROVE  Contents' = q
  <1>1. q \in [1 .. queue'.len -> Tasks]
    BY LenProperties DEF Represents
  <1>2. /\ Contents' \in [1 .. queue'.len -> Tasks]
        /\ Represents(queue', Contents')
    BY <1>1 DEF Contents
  <1>3. queue'.len \in Nat
    BY LenProperties DEF Represents
  <1>4. Contents' \in Seq(Tasks)
    BY <1>2, <1>3
  <1> QED
    BY <1>2, <1>4, RepresentsUnique

LEMMA RQStep ==
    ASSUME RQInv, [RQNext]_queue
    PROVE  /\ RQInv'
           /\ \/ \E t \in Tasks : Abs!Enter(t)
              \/ Abs!Leave
              \/ UNCHANGED Contents
  <1> DEFINE q == Contents
  <1>0. /\ queue \in QueueType(Tasks) /\ q \in Seq(Tasks)
        /\ Represents(queue, q) /\ queue.len = Len(q)
    BY DEF RQInv, Represents
  <1>1. ASSUME NEW t \in Tasks, RQPush(t)
        PROVE  RQInv' /\ Abs!Enter(t)
    <2>1. \A i \in 1 .. Len(q) : q[i] # t
      BY <1>0, <1>1 DEF RQPush, Queued
    <2>2. /\ queue' \in QueueType(Tasks)
          /\ Represents(queue', Append(q, t))
          /\ Append(q, t) \in Seq(Tasks)
      <3> HIDE DEF q
      <3>1. run_queue_push(queue, t) \in QueueType(Tasks)
        BY <1>0, TasksAssumption, QueueTypes
      <3>2. Represents(run_queue_push(queue, t), Append(q, t))
        BY <1>0, <2>1, TasksAssumption, PushRepresents
      <3>3. Append(q, t) \in Seq(Tasks)
        BY <1>0
      <3> QED
        BY <1>1, <3>1, <3>2, <3>3 DEF RQPush
    <2>3. Contents' = Append(q, t)
      BY <2>2, ContentsIsNext
    <2> QED
      BY <2>1, <2>2, <2>3 DEF RQInv, Abs!Enter
  <1>2. ASSUME RQPoll PROVE RQInv' /\ Abs!Leave
    <2>1. q # <<>>
      BY <1>0, <1>2 DEF RQPoll
    <2>2. /\ queue' \in QueueType(Tasks)
          /\ Represents(queue', Tail(q))
          /\ Tail(q) \in Seq(Tasks)
      <3> HIDE DEF q
      <3>1. ~run_queue_poll_faults(queue) /\ Represents(run_queue_poll(queue), Tail(q))
        BY <1>0, <2>1, TasksAssumption, PollRepresents
      <3>2. run_queue_poll(queue) \in QueueType(Tasks)
        BY <1>0, <3>1, TasksAssumption, QueueTypes
      <3>3. Tail(q) \in Seq(Tasks)
        BY <1>0, <2>1, HeadTailProperties
      <3> QED
        BY <1>2, <3>1, <3>2, <3>3 DEF RQPoll
    <2>3. Contents' = Tail(q)
      BY <2>2, ContentsIsNext
    <2> QED
      BY <2>1, <2>2, <2>3 DEF RQInv, Abs!Leave
  <1>3. CASE UNCHANGED queue
    BY <1>3 DEF RQInv, Contents
  <1> QED
    BY <1>1, <1>2, <1>3 DEF RQNext

\* Every reachable list is well formed.
THEOREM RunQueueWellLinked == RQSpec => []WellLinked
  <1>1. RQInv => WellLinked
    BY LenProperties DEF RQInv, WellLinked, Represents
  <1>2. RQInv /\ [RQNext]_queue => RQInv'
    BY RQStep
  <1> QED
    BY <1>1, <1>2, RQInitial, PTL DEF RQSpec

\* The linked list implements the abstract queue.
THEOREM RunQueueImplementsFifo == RQSpec => ImplementsFifo
  <1>1. RQInit => RQInv /\ Abs!FifoInit
    BY RQInitial DEF Abs!FifoInit
  <1>2. RQInv /\ [RQNext]_queue => RQInv' /\ [Abs!FifoNext]_Contents
    BY RQStep DEF Abs!FifoNext
  <1> QED
    BY <1>1, <1>2, PTL DEF RQSpec, ImplementsFifo, Abs!FifoSpec
===========================================================================
