--------------------------- MODULE TerminalProofs ---------------------------
(***************************************************************************)
(* Proofs about the way of a key to a command: terminals, for every number *)
(* of terminals, size of the rings and width of the counters that          *)
(* TtyAssumption allows and every interleaving of keys with a reader and a *)
(* writer; the keyboard driver, for every number of keys held and bytes    *)
(* pending; the line editor, for every length of line and history; and     *)
(* sleeping and waking between any two stores, for every set of readers.   *)
(***************************************************************************)
EXTENDS Keyboard, Tty, ShellLine, WaitIrq, CounterLemmas, FiniteSetTheorems, SequenceTheorems

(* Rings.                                                                  *)

RingType(size) ==
    [head : 0 .. CounterMod - 1, tail : 0 .. CounterMod - 1,
     buf : [0 .. size - 1 -> Int]]

\* The k-th character of a ring.
Nth(r, size, k) == r.buf[Slot((r.tail + k - 1) % CounterMod, size)]

\* A size a ring can have.
Fits(size) ==
    /\ size \in Nat \ {0} /\ CounterMod \in Nat \ {0}
    /\ CounterMod % size = 0 /\ CounterMod >= 2 * size

LEMMA SizesFit == Fits(TTY_INPUT_BUF_SIZE) /\ Fits(TTY_OUTPUT_BUF_SIZE)
  BY TtyAssumption, TtyCountAssumption DEF Fits

LEMMA SlotOfCounter ==
    ASSUME NEW size, Fits(size), NEW x \in Int
    PROVE  /\ Slot(x % CounterMod, size) = Slot(x, size)
           /\ Slot(x, size) \in 0 .. size - 1
           /\ x % CounterMod \in 0 .. CounterMod - 1
  <1>1. size \in Nat \ {0} /\ CounterMod \in Nat \ {0} /\ CounterMod % size = 0
    BY DEF Fits
  <1>2. \A j \in Int : ((x % CounterMod) + j) % size = (x + j) % size
    BY <1>1, ModOfMod
  <1>3. x % CounterMod \in 0 .. CounterMod - 1 /\ x % size \in 0 .. size - 1
    BY <1>1, DivMod
  <1> QED
    BY <1>1, <1>2, <1>3 DEF Slot

\* The counters of a ring.
LEMMA UsedFacts ==
    ASSUME NEW size, Fits(size), NEW r \in RingType(size)
    PROVE  /\ Used(r) \in 0 .. CounterMod - 1
           /\ Slot(r.head, size) = Slot(r.tail + Used(r), size)
           /\ Used(r) < size => (Inc(r.head) - r.tail) % CounterMod = Used(r) + 1
           /\ \A n \in 0 .. Used(r) :
                (r.head - ((r.tail + n) % CounterMod)) % CounterMod = Used(r) - n
  <1> DEFINE h == r.tail
             t == r.head
             m == CounterMod
             c == Used(r)
  <1>1. /\ m \in Nat \ {0} /\ size \in Nat \ {0} /\ m >= 2 * size
        /\ h \in 0 .. m - 1 /\ t \in 0 .. m - 1
    BY DEF Fits, RingType
  <1>2. c = (t - h) % m
    BY DEF Used
  <1> HIDE DEF h, t, m, c
  <1>3. /\ c \in 0 .. m - 1
        /\ t = (h + c) % m
        /\ c < m - 1 => (((t + 1) % m) - h) % m = c + 1
    <2>1. Ahead(m, h, t, c)
      BY <1>2 DEF Ahead
    <2> QED
      BY <1>1, <2>1, CounterUp
  <1>4. \A n \in 0 .. c : (t - ((h + n) % m)) % m = c - n
    BY <1>1, <1>2, CounterDrop
  <1>5. Slot((h + c) % m, size) = Slot(h + c, size)
    <2>1. h + c \in Int
      BY <1>1, <1>3
    <2> QED
      BY <2>1, SlotOfCounter DEF m
  <1>6. c < size => c < m - 1
    BY <1>1, <1>3
  <1> QED
    BY <1>3, <1>4, <1>5, <1>6 DEF h, t, m, c, Inc

LEMMA NthIs ==
    ASSUME NEW size, Fits(size), NEW r \in RingType(size), NEW k \in Int
    PROVE  /\ Nth(r, size, k) = r.buf[Slot(r.tail + k - 1, size)]
           /\ Slot(r.tail + k - 1, size) \in 0 .. size - 1
  <1>1. r.tail + k - 1 \in Int
    BY DEF RingType
  <1> QED
    BY <1>1, SlotOfCounter DEF Nth

\* Storing a character at the head changes no character of the ring, when
\* there is room.
LEMMA StoreKeeps ==
    ASSUME NEW size, Fits(size), NEW r \in RingType(size), Used(r) < size,
           NEW x \in Int, NEW s,
           s = [r EXCEPT !.buf[Slot(r.head, size)] = x]
    PROVE  /\ s \in RingType(size)
           /\ Used(s) = Used(r)
           /\ s.buf[Slot(s.head, size)] = x
           /\ \A k \in 1 .. Used(r) : Nth(s, size, k) = Nth(r, size, k)
  <1>1. size \in Nat \ {0} /\ r.tail \in Int /\ r.head \in Int /\ Used(r) \in Nat
        /\ Slot(r.head, size) = Slot(r.tail + Used(r), size)
    BY UsedFacts DEF Fits, RingType
  <1>2. Slot(r.head, size) \in 0 .. size - 1
    BY <1>1, SlotOfCounter
  <1>3. /\ s \in RingType(size) /\ s.head = r.head /\ s.tail = r.tail
        /\ s.buf = [r.buf EXCEPT ![Slot(r.head, size)] = x]
    BY <1>2 DEF RingType
  <1>4. Used(s) = Used(r)
    BY <1>3 DEF Used
  <1>5. s.buf[Slot(s.head, size)] = x
    BY <1>2, <1>3 DEF RingType
  <1>6. ASSUME NEW k \in 1 .. Used(r) PROVE Nth(s, size, k) = Nth(r, size, k)
    <2> DEFINE y == r.tail + k - 1
               d == Used(r) - (k - 1)
    <2>1. y \in Int /\ d \in 1 .. size - 1 /\ y + d = r.tail + Used(r)
      BY <1>1
    <2>2. (y + d) % size # y % size
      <3> HIDE DEF y, d
      <3> QED
        BY <1>1, <2>1, ModApart
    <2>3. Slot(y, size) # Slot(r.head, size)
      BY <1>1, <2>1, <2>2 DEF Slot
    <2>4. /\ Nth(s, size, k) = s.buf[Slot(s.tail + k - 1, size)]
          /\ Nth(r, size, k) = r.buf[Slot(r.tail + k - 1, size)]
          /\ Slot(r.tail + k - 1, size) \in 0 .. size - 1
      <3>1. k \in Int
        BY <1>1
      <3> QED
        BY <1>3, <3>1, NthIs
    <2> QED
      BY <1>3, <2>3, <2>4 DEF RingType
  <1> QED
    BY <1>3, <1>4, <1>5, <1>6

\* Advancing the head adds the character stored there.
LEMMA AdvanceAdds ==
    ASSUME NEW size, Fits(size), NEW r \in RingType(size), Used(r) < size,
           NEW s, s = [r EXCEPT !.head = Inc(r.head)]
    PROVE  /\ s \in RingType(size)
           /\ Used(s) = Used(r) + 1
           /\ \A k \in 1 .. Used(r) : Nth(s, size, k) = Nth(r, size, k)
           /\ Nth(s, size, Used(r) + 1) = r.buf[Slot(r.head, size)]
  <1>1. r.tail \in Int /\ r.head \in Int /\ Used(r) \in Nat
        /\ Slot(r.head, size) = Slot(r.tail + Used(r), size)
        /\ (Inc(r.head) - r.tail) % CounterMod = Used(r) + 1
    BY UsedFacts DEF Fits, RingType
  <1>2. Inc(r.head) \in 0 .. CounterMod - 1
    <2>1. r.head + 1 \in Int
      BY <1>1
    <2> QED
      BY <2>1, SlotOfCounter DEF Inc
  <1>3. /\ s \in RingType(size) /\ s.head = Inc(r.head) /\ s.tail = r.tail
        /\ s.buf = r.buf
    BY <1>2 DEF RingType
  <1>4. Used(s) = Used(r) + 1
    BY <1>1, <1>3 DEF Used
  <1>5. \A k : Nth(s, size, k) = Nth(r, size, k)
    BY <1>3 DEF Nth
  <1>6. Nth(r, size, Used(r) + 1) = r.buf[Slot(r.head, size)]
    <2>1. Used(r) + 1 \in Int /\ r.tail + (Used(r) + 1) - 1 = r.tail + Used(r)
      BY <1>1
    <2> QED
      BY <1>1, <2>1, NthIs
  <1> QED
    BY <1>3, <1>4, <1>5, <1>6

\* Advancing the tail by n drops the first n characters.
LEMMA DropTakes ==
    ASSUME NEW size, Fits(size), NEW r \in RingType(size), NEW n \in 0 .. Used(r),
           NEW s, s = [r EXCEPT !.tail = (r.tail + n) % CounterMod]
    PROVE  /\ s \in RingType(size)
           /\ Used(s) = Used(r) - n
           /\ s.buf = r.buf /\ s.head = r.head
           /\ \A k \in 1 .. Used(r) - n : Nth(s, size, k) = Nth(r, size, n + k)
  <1>1. r.tail \in Int /\ r.head \in Int /\ Used(r) \in Nat /\ n \in Int
        /\ (r.head - ((r.tail + n) % CounterMod)) % CounterMod = Used(r) - n
    BY UsedFacts DEF Fits, RingType
  <1>2. /\ r.tail + n \in Int
        /\ (r.tail + n) % CounterMod \in 0 .. CounterMod - 1
    BY <1>1, SlotOfCounter
  <1>3. /\ s \in RingType(size) /\ s.tail = (r.tail + n) % CounterMod /\ s.head = r.head
        /\ s.buf = r.buf
    BY <1>2 DEF RingType
  <1>4. Used(s) = Used(r) - n
    BY <1>1, <1>3 DEF Used
  <1>5. ASSUME NEW k \in 1 .. Used(r) - n PROVE Nth(s, size, k) = Nth(r, size, n + k)
    <2>1. /\ k - 1 \in Int /\ k \in Int /\ n + k \in Int
          /\ (r.tail + n) + (k - 1) = r.tail + (n + k) - 1
          /\ ((r.tail + n) % CounterMod) + (k - 1) = s.tail + k - 1
      BY <1>1, <1>2, <1>3
    <2>2. (((r.tail + n) % CounterMod) + (k - 1)) % size = ((r.tail + n) + (k - 1)) % size
      <3>1. size \in Nat \ {0} /\ CounterMod \in Nat \ {0} /\ CounterMod % size = 0
        BY DEF Fits
      <3> QED
        BY <1>2, <2>1, <3>1, ModOfMod
    <2>3. Slot(s.tail + k - 1, size) = Slot(r.tail + (n + k) - 1, size)
      BY <2>1, <2>2 DEF Slot
    <2>4. Nth(s, size, k) = s.buf[Slot(s.tail + k - 1, size)]
      BY <1>3, <2>1, NthIs
    <2>5. Nth(r, size, n + k) = r.buf[Slot(r.tail + (n + k) - 1, size)]
      BY <2>1, NthIs
    <2> QED
      BY <1>3, <2>3, <2>4, <2>5
  <1> QED
    BY <1>3, <1>4, <1>5

---------------------------------------------------------------------------
(* The invariant.                                                          *)

\* The input ring of a terminal that accepted ty characters and gave g of
\* them to readers.
InputOK(r, ty, g) ==
    /\ r \in RingType(TTY_INPUT_BUF_SIZE)
    /\ ty \in Nat /\ g \in Nat
    /\ Used(r) <= TTY_INPUT_BUF_SIZE
    /\ Used(r) = ty - g
    /\ \A k \in 1 .. Used(r) : Nth(r, TTY_INPUT_BUF_SIZE, k) = g + k

\* A write of terminal t between making room and advancing the head.
Between(t) ==
    thread.op = "write" /\ thread.tty = t /\ thread.step \in {"store", "advance"}

\* The output ring of terminal t after w characters; room says that a place
\* has been made free for the next one.
OutputOK(t, r, w, room) ==
    /\ r \in RingType(TTY_OUTPUT_BUF_SIZE)
    /\ w \in Nat
    /\ Used(r) = IF w < TTY_OUTPUT_BUF_SIZE THEN w
                 ELSE IF room THEN TTY_OUTPUT_BUF_SIZE - 1 ELSE TTY_OUTPUT_BUF_SIZE
    /\ \A k \in 1 .. Used(r) :
         Nth(r, TTY_OUTPUT_BUF_SIZE, k) = Char(t, w - Used(r) + k)

WriteSteps == {"room", "store", "advance", "test", "put"}

\* The read or the write in progress: what a read has copied is what follows
\* the characters read before it, and is still in the ring.
ThreadOK ==
    /\ thread \in [op : {"idle", "read", "write"}, tty : Ttys, left : Nat,
                   step : WriteSteps \cup {"none", "copy", "commit"},
                   copied : Seq(Int)]
    /\ thread.op = "idle" => thread = Idle
    /\ thread.op = "write" => thread.step \in WriteSteps /\ thread.left >= 1
    /\ thread.op = "read" =>
         /\ thread.step \in {"copy", "commit"}
         /\ thread.left <= Used(in[thread.tty])
         /\ Len(thread.copied) <= thread.left
         /\ thread.step = "commit" => Len(thread.copied) = thread.left
         /\ \A k \in 1 .. Len(thread.copied) : thread.copied[k] = got[thread.tty] + k
    /\ thread.step = "advance" =>
         out[thread.tty].buf[Slot(out[thread.tty].head, TTY_OUTPUT_BUF_SIZE)]
           = Char(thread.tty, written[thread.tty] + 1)

\* The last character the screen should show.
LastShown ==
    IF thread.step \in {"test", "put"} /\ thread.tty = active
    THEN written[active] - 1 ELSE written[active]

ScreenOK ==
    /\ screen \in Seq(Int)
    /\ torn \in BOOLEAN
    /\ ~torn => /\ thread.step = "put" => thread.tty = active
                /\ \A k \in 1 .. Len(screen) :
                     screen[k] = Char(active, LastShown - Len(screen) + k)

TtyInv ==
    /\ active \in Ttys
    /\ in = [t \in Ttys |-> in[t]] /\ out = [t \in Ttys |-> out[t]]
    /\ typed = [t \in Ttys |-> typed[t]] /\ got = [t \in Ttys |-> got[t]]
    /\ written = [t \in Ttys |-> written[t]]
    /\ \A t \in Ttys : InputOK(in[t], typed[t], got[t])
    /\ \A t \in Ttys : OutputOK(t, out[t], written[t], Between(t))
    /\ ThreadOK
    /\ ScreenOK

LEMMA CharType == \A t \in Ttys, n \in Int : Char(t, n) \in Int
  BY DEF Char, Ttys

LEMMA IdleIs ==
    /\ Idle.op = "idle" /\ Idle.tty = 0 /\ Idle.step = "none" /\ Idle.left = 0
    /\ Idle.copied = <<>>
    /\ 0 \in Ttys
  BY TtyAssumption, TtyCountAssumption DEF Idle, Ttys

LEMMA StoredAs ==
    ASSUME NEW A, NEW B, NEW C, NEW r \in [head : A, tail : B, buf : C], NEW i, NEW x
    PROVE  [r EXCEPT !.buf[i] = x]
             = [head |-> r.head, tail |-> r.tail, buf |-> [r.buf EXCEPT ![i] = x]]
  OBVIOUS

\* tty_input_put: the next character, or a full ring as it was.
LEMMA InputPutKeeps ==
    ASSUME NEW s, NEW g, InputOK(s.ring, s.typed, g)
    PROVE  /\ InputOK(InputPut(s).ring, InputPut(s).typed, g)
           /\ Used(InputPut(s).ring) >= Used(s.ring)
  <1> DEFINE z == TTY_INPUT_BUF_SIZE
             r == s.ring
             p == InputPut(s)
             h == [r EXCEPT !.buf[Slot(r.head, z)] = s.typed + 1]
             e == [h EXCEPT !.head = Inc(h.head)]
  <1>1. /\ r \in RingType(z) /\ Fits(z) /\ Used(r) \in Nat /\ z \in Nat
        /\ s.typed + 1 \in Int /\ s.typed \in Nat /\ g \in Nat
    <2>1. r \in RingType(z) /\ Fits(z) /\ s.typed \in Nat /\ g \in Nat
      BY SizesFit DEF InputOK
    <2> QED
      BY <2>1, UsedFacts DEF Fits
  <1>2. CASE Used(r) >= z
    <2>1. p = s
      BY <1>2 DEF InputPut
    <2> QED
      BY <1>1, <2>1
  <1>3. CASE ~(Used(r) >= z)
    <2>1. Used(r) < z
      BY <1>1, <1>3
    <2>2. p.typed = s.typed + 1 /\ p.ring = [head |-> Inc(r.head), tail |-> r.tail,
                    buf |-> [r.buf EXCEPT ![Slot(r.head, z)] = s.typed + 1]]
      BY <1>3 DEF InputPut
    <2>3. /\ h \in RingType(z) /\ Used(h) = Used(r)
          /\ h.buf[Slot(h.head, z)] = s.typed + 1
          /\ \A k \in 1 .. Used(r) : Nth(h, z, k) = Nth(r, z, k)
      BY <1>1, <2>1, StoreKeeps
    <2>4. p.ring = e
      <3> DEFINE b == [r.buf EXCEPT ![Slot(r.head, z)] = s.typed + 1]
      <3>1. h = [head |-> r.head, tail |-> r.tail, buf |-> b]
        <4>1. r \in [head : 0 .. CounterMod - 1, tail : 0 .. CounterMod - 1,
                    buf : [0 .. z - 1 -> Int]]
          BY <1>1 DEF RingType
        <4> HIDE DEF r, z
        <4> QED
          BY <4>1, StoredAs
      <3>2. e = [head |-> Inc(r.head), tail |-> r.tail, buf |-> b]
        <4> HIDE DEF r, b, h
        <4> QED
          BY <3>1
      <3> QED
        BY <2>2, <3>2
    <2> HIDE DEF h
    <2>5. /\ e \in RingType(z) /\ Used(e) = Used(h) + 1
          /\ \A k \in 1 .. Used(h) : Nth(e, z, k) = Nth(h, z, k)
          /\ Nth(e, z, Used(h) + 1) = h.buf[Slot(h.head, z)]
      BY <1>1, <2>1, <2>3, AdvanceAdds
    <2> HIDE DEF e
    <2>6. \A k \in 1 .. Used(r) + 1 : Nth(e, z, k) = g + k
      <3> TAKE k \in 1 .. Used(r) + 1
      <3>1. k \in 1 .. Used(r) \/ k = Used(r) + 1
        BY <1>1
      <3>2. k \in 1 .. Used(r) => Nth(r, z, k) = g + k
        BY DEF InputOK
      <3>3. g + (Used(r) + 1) = s.typed + 1
        BY <1>1 DEF InputOK
      <3> QED
        BY <2>3, <2>5, <3>1, <3>2, <3>3
    <2>7. Used(e) = p.typed - g /\ Used(e) <= z /\ Used(e) >= Used(r)
      BY <1>1, <2>1, <2>2, <2>3, <2>5 DEF InputOK
    <2> QED
      BY <1>1, <2>2, <2>3, <2>4, <2>5, <2>6, <2>7 DEF InputOK
  <1> QED
    BY <1>2, <1>3

\* A key changes the input ring of the active terminal only.
LEMMA TypeKeeps ==
    ASSUME TtyInv, NEW new, Type(new), InputOK(new.ring, new.typed, got[active]),
           Used(new.ring) >= Used(in[active])
    PROVE  TtyInv'
  <1>1. /\ in' = [in EXCEPT ![active] = new.ring]
        /\ typed' = [typed EXCEPT ![active] = new.typed]
        /\ UNCHANGED <<out, active, screen, thread, got, written, torn>>
    BY DEF Type
  <1>2. \A t \in Ttys : /\ in'[t] = IF t = active THEN new.ring ELSE in[t]
                        /\ typed'[t] = IF t = active THEN new.typed ELSE typed[t]
    BY <1>1 DEF TtyInv
  <1>3. \A t \in Ttys : InputOK(in'[t], typed'[t], got'[t])
    BY <1>1, <1>2 DEF TtyInv
  <1>4. \A t \in Ttys : OutputOK(t, out'[t], written'[t], Between(t)')
    BY <1>1 DEF TtyInv, Between
  <1>5. \A t \in Ttys : Used(in'[t]) >= Used(in[t]) /\ Used(in[t]) \in Nat
                        /\ Used(in'[t]) \in Nat
    <2> TAKE t \in Ttys
    <2>1. Used(in[t]) \in Nat /\ Used(in'[t]) \in Nat
      BY <1>3, SizesFit, UsedFacts DEF TtyInv, InputOK
    <2> QED
      BY <1>2, <2>1 DEF TtyInv
  <1>6. ThreadOK'
    <2>1. ThreadOK /\ thread.tty \in Ttys /\ thread.left \in Nat
      BY DEF TtyInv, ThreadOK
    <2>2. thread.left <= Used(in[thread.tty]) => thread.left <= Used(in'[thread.tty])
      BY <1>5, <2>1
    <2> QED
      BY <1>1, <2>1, <2>2 DEF ThreadOK
  <1>7. ScreenOK'
    BY <1>1 DEF TtyInv, ScreenOK, LastShown
  <1>8. /\ in' = [t \in Ttys |-> in'[t]] /\ out' = [t \in Ttys |-> out'[t]]
        /\ typed' = [t \in Ttys |-> typed'[t]] /\ got' = [t \in Ttys |-> got'[t]]
        /\ written' = [t \in Ttys |-> written'[t]] /\ active' \in Ttys
    BY <1>1 DEF TtyInv
  <1> QED
    BY <1>3, <1>4, <1>6, <1>7, <1>8 DEF TtyInv

LEMMA KeysKeep == TtyInv /\ (KeyChar \/ KeyArrow) => TtyInv'
  <1> SUFFICES ASSUME TtyInv PROVE KeyChar \/ KeyArrow => TtyInv'
    OBVIOUS
  <1> DEFINE g  == got[active]
             s0 == Current
             s1 == InputPut(s0)
             s2 == InputPut(s1)
             s3 == InputPut(s2)
  <1>0. /\ InputOK(s0.ring, s0.typed, g) /\ s0.ring = in[active]
    BY DEF Current, TtyInv
  <1> HIDE DEF s0
  <1>1. InputOK(s1.ring, s1.typed, g) /\ Used(s1.ring) >= Used(s0.ring)
    BY <1>0, InputPutKeeps
  <1> HIDE DEF s1
  <1>2. InputOK(s2.ring, s2.typed, g) /\ Used(s2.ring) >= Used(s1.ring)
    BY <1>1, InputPutKeeps
  <1> HIDE DEF s2
  <1>3. InputOK(s3.ring, s3.typed, g) /\ Used(s3.ring) >= Used(s2.ring)
    BY <1>2, InputPutKeeps
  <1> HIDE DEF s3
  <1>4. /\ Used(s0.ring) \in Nat /\ Used(s1.ring) \in Nat
        /\ Used(s2.ring) \in Nat /\ Used(s3.ring) \in Nat
    <2>1. \A r, ty, x : InputOK(r, ty, x) => Used(r) \in Nat
      BY SizesFit, UsedFacts DEF InputOK
    <2> QED
      BY <1>0, <1>1, <1>2, <1>3, <2>1
  <1>5. Used(s3.ring) >= Used(s0.ring)
    BY <1>1, <1>2, <1>3, <1>4
  <1>6. KeyChar => Type(s1)
    BY DEF KeyChar, s1, s0
  <1>7. KeyArrow => Type(s3)
    BY DEF KeyArrow, s3, s2, s1, s0
  <1> QED
    BY <1>0, <1>1, <1>3, <1>5, <1>6, <1>7, TypeKeeps

\* What a thread at a given step is doing.
LEMMA StepTells ==
    ASSUME ThreadOK
    PROVE  /\ thread.tty \in Ttys /\ thread.left \in Nat
           /\ thread.step \in WriteSteps => thread.op = "write" /\ thread.left >= 1
           /\ thread.step \in {"copy", "commit"} => thread.op = "read"
           /\ thread.op = "idle" <=> thread = Idle
  BY IdleIs DEF ThreadOK, WriteSteps

\* The ring of a terminal, copied to a screen that was cleared.
LEMMA RedrawShows ==
    ASSUME TtyInv, NEW t \in Ttys
    PROVE  LET text == Contents(out[t], TTY_OUTPUT_BUF_SIZE)
           IN  /\ text \in Seq(Int)
               /\ Len(text) = Used(out[t])
               /\ \A k \in 1 .. Len(text) :
                    text[k] = Char(t, written[t] - Len(text) + k)
  <1> DEFINE z == TTY_OUTPUT_BUF_SIZE
             u == Used(out[t])
             text == Contents(out[t], z)
  <1>1. OutputOK(t, out[t], written[t], Between(t))
    BY DEF TtyInv
  <1>2. u \in Nat /\ written[t] \in Nat
    BY <1>1, SizesFit, UsedFacts DEF OutputOK
  <1>3. /\ text = [k \in 1 .. u |-> Nth(out[t], z, k)]
        /\ \A k \in 1 .. u : Nth(out[t], z, k) = Char(t, written[t] - u + k)
    BY <1>1 DEF Contents, Nth, OutputOK
  <1>4. \A k \in 1 .. u : Char(t, written[t] - u + k) \in Int
    BY <1>2, CharType
  <1> HIDE DEF u, text
  <1>5. text \in Seq(Int) /\ Len(text) = u
    BY <1>2, <1>3, <1>4
  <1> QED
    BY <1>3, <1>5 DEF text, u

LEMMA ActivateKeeps ==
    ASSUME TtyInv, NEW t \in Ttys, tty_activate(t)
    PROVE  TtyInv'
  <1>1. /\ active' = t /\ screen' = Contents(out[t], TTY_OUTPUT_BUF_SIZE)
        /\ torn' = InWindow(t)
        /\ UNCHANGED <<in, out, thread, typed, got, written>>
    BY DEF tty_activate, tty_redraw
  <1>2. ThreadOK'
    BY <1>1 DEF TtyInv, ThreadOK
  <1>3. ScreenOK'
    <2>1. torn' \in BOOLEAN /\ screen' \in Seq(Int)
      BY <1>1, RedrawShows DEF InWindow
    <2>2. ASSUME ~torn'
          PROVE  thread'.step # "put" /\ LastShown' = written[t]
      BY <1>1, <2>2 DEF InWindow, LastShown
    <2>3. \A k \in 1 .. Len(screen') :
            screen'[k] = Char(t, written[t] - Len(screen') + k)
      BY <1>1, RedrawShows
    <2> QED
      BY <1>1, <2>1, <2>2, <2>3 DEF ScreenOK
  <1>4. \A u \in Ttys : OutputOK(u, out'[u], written'[u], Between(u)')
    BY <1>1 DEF TtyInv, Between
  <1> QED
    BY <1>1, <1>2, <1>3, <1>4 DEF TtyInv

\* A step of the thread that touches neither the rings nor the screen.
LEMMA ThreadMoves ==
    ASSUME TtyInv, UNCHANGED <<in, out, active, screen, typed, got, written, torn>>,
           ThreadOK', \A t \in Ttys : Between(t)' <=> Between(t),
           LastShown' = LastShown,
           ~torn /\ thread'.step = "put" => thread'.tty = active
    PROVE  TtyInv'
  <1>1. \A u \in Ttys : OutputOK(u, out'[u], written'[u], Between(u)')
    BY DEF TtyInv, OutputOK
  <1>2. ScreenOK'
    BY DEF TtyInv, ScreenOK
  <1> QED
    BY <1>1, <1>2 DEF TtyInv

LEMMA StartKeeps ==
    ASSUME TtyInv, NEW t \in Ttys, NEW n \in 1 .. MaxCount,
           StartWrite(t, n) \/ ReadAvailable(t, n)
    PROVE  TtyInv'
  <1>1. thread = Idle /\ UNCHANGED <<in, out, active, screen, typed, got, written, torn>>
    BY DEF StartWrite, ReadAvailable
  <1>2. n \in Nat \ {0}
    OBVIOUS
  <1>3. CASE StartWrite(t, n)
    <2>1. thread' = [op |-> "write", tty |-> t, left |-> n, step |-> "room", copied |-> <<>>]
      BY <1>3 DEF StartWrite, Idle
    <2>2. ThreadOK'
      BY <1>2, <2>1 DEF ThreadOK, WriteSteps
    <2>3. /\ \A u \in Ttys : Between(u)' <=> Between(u)
          /\ LastShown' = LastShown
      BY <1>1, <2>1, IdleIs DEF Between, LastShown
    <2> QED
      BY <1>1, <2>1, <2>2, <2>3, ThreadMoves
  <1>4. CASE ReadAvailable(t, n)
    <2> DEFINE u == Used(in[t])
               l == IF u > n THEN n ELSE u
    <2>0. u \in Nat
      BY SizesFit, UsedFacts DEF TtyInv, InputOK
    <2>1. thread' = [op |-> "read", tty |-> t, left |-> l, step |-> "copy", copied |-> <<>>]
      BY <1>4 DEF ReadAvailable, Idle
    <2> HIDE DEF u
    <2>2. l \in Nat /\ l <= u
      BY <1>2, <2>0
    <2> HIDE DEF l
    <2>3. thread'.left <= Used(in'[thread'.tty])
      BY <1>1, <2>1, <2>2 DEF u
    <2>4. ThreadOK'
      BY <2>1, <2>2, <2>3 DEF ThreadOK, WriteSteps
    <2>5. /\ \A v \in Ttys : Between(v)' <=> Between(v)
          /\ LastShown' = LastShown
      BY <1>1, <2>1, IdleIs DEF Between, LastShown
    <2> QED
      BY <1>1, <2>1, <2>4, <2>5, ThreadMoves
  <1> QED
    BY <1>3, <1>4

\* The output ring of the writing terminal changes; the screen does not.
LEMMA WriterMoves ==
    ASSUME TtyInv, thread.step \in {"room", "store", "advance"},
           UNCHANGED <<in, active, screen, typed, got, torn>>,
           thread'.step \in {"store", "advance", "test"}, thread'.tty = thread.tty,
           NEW r, out' = [out EXCEPT ![thread.tty] = r],
           \A t \in Ttys : t # thread.tty => written'[t] = written[t],
           written' = [t \in Ttys |-> written'[t]],
           written'[thread.tty] = IF thread'.step = "test" THEN written[thread.tty] + 1
                                  ELSE written[thread.tty],
           OutputOK(thread.tty, r, written'[thread.tty], Between(thread.tty)'),
           ThreadOK'
    PROVE  TtyInv'
  <1>1. thread.tty \in Ttys /\ ScreenOK /\ active \in Ttys
    BY StepTells DEF TtyInv
  <1>2. \A t \in Ttys : out'[t] = IF t = thread.tty THEN r ELSE out[t]
    BY DEF TtyInv
  <1>3. out' = [t \in Ttys |-> out'[t]]
    BY DEF TtyInv
  <1>4. \A t \in Ttys : OutputOK(t, out'[t], written'[t], Between(t)')
    <2> TAKE t \in Ttys
    <2>1. CASE t = thread.tty
      BY <1>2, <2>1
    <2>2. CASE t # thread.tty
      <3>1. Between(t)' = FALSE /\ Between(t) = FALSE
        BY <2>2 DEF Between
      <3>2. OutputOK(t, out[t], written[t], Between(t))
        BY DEF TtyInv
      <3> QED
        BY <1>2, <2>2, <3>1, <3>2
    <2> QED
      BY <2>1, <2>2
  <1>5. LastShown' = LastShown
    <2>1. \A t \in Ttys : written[t] \in Nat
      BY DEF TtyInv, OutputOK
    <2>2. LastShown = written[active]
      BY DEF LastShown
    <2>3. LastShown' = IF thread'.step = "test" /\ thread.tty = active
                       THEN written'[active] - 1 ELSE written'[active]
      BY DEF LastShown
    <2> QED
      BY <1>1, <2>1, <2>2, <2>3
  <1>6. ScreenOK'
    BY <1>1, <1>5 DEF ScreenOK
  <1> QED
    BY <1>3, <1>4, <1>6 DEF TtyInv

LEMMA WriterSteps ==
    ASSUME TtyInv, WriteRoom \/ WriteStore \/ WriteAdvance
    PROVE  TtyInv'
  <1> DEFINE z == TTY_OUTPUT_BUF_SIZE
             t == thread.tty
             r == out[t]
             w == written[t]
  <1>1. thread.step \in {"room", "store", "advance"}
    BY DEF WriteRoom, WriteStore, WriteAdvance
  <1>2. /\ ThreadOK /\ t \in Ttys /\ thread.op = "write"
        /\ OutputOK(t, r, w, Between(t))
        /\ thread \in [op : {"idle", "read", "write"}, tty : Ttys, left : Nat,
                       step : WriteSteps \cup {"none", "copy", "commit"},
                       copied : Seq(Int)]
    BY <1>1, StepTells DEF TtyInv, WriteSteps, ThreadOK
  <1>3. /\ r \in RingType(z) /\ Fits(z) /\ w \in Nat /\ Used(r) \in Nat /\ z \in Nat \ {0}
        /\ \A k \in 1 .. Used(r) : Nth(r, z, k) = Char(t, w - Used(r) + k)
        /\ out = [u \in Ttys |-> out[u]] /\ written = [u \in Ttys |-> written[u]]
    <2>1. r \in RingType(z) /\ Fits(z)
      BY <1>2, SizesFit DEF OutputOK
    <2> QED
      BY <1>2, <2>1, UsedFacts DEF OutputOK, Fits, TtyInv
  <1>4. Between(t) <=> thread.step \in {"store", "advance"}
    BY <1>2 DEF Between
  \* Where the thread is after the step.
  <1>5. ASSUME NEW st, st \in {"store", "advance", "test"},
               thread' = [thread EXCEPT !.step = st],
               st = "advance" => out'[t].buf[Slot(out'[t].head, z)] = Char(t, written'[t] + 1)
        PROVE  /\ ThreadOK' /\ thread'.step = st /\ thread'.tty = t
               /\ Between(t)' <=> st \in {"store", "advance"}
    <2>1. /\ thread' \in [op : {"idle", "read", "write"}, tty : Ttys, left : Nat,
                       step : WriteSteps \cup {"none", "copy", "commit"},
                       copied : Seq(Int)]
          /\ thread'.op = "write" /\ thread'.step = st /\ thread'.tty = t
          /\ thread'.left = thread.left
      BY <1>2, <1>5 DEF WriteSteps
    <2> QED
      BY <1>2, <1>5, <2>1 DEF ThreadOK, WriteSteps, Between
  <1>6. CASE WriteRoom
    <2>1. /\ thread.step = "room" /\ thread' = [thread EXCEPT !.step = "store"]
          /\ UNCHANGED <<in, active, screen, typed, got, written, torn>>
          /\ out' = IF Used(r) >= z THEN [out EXCEPT ![t].tail = Inc(@)] ELSE out
      BY <1>6 DEF WriteRoom, Step
    <2>2. ThreadOK' /\ thread'.step = "store" /\ thread'.tty = t /\ Between(t)'
      BY <1>5, <2>1
    <2>3. CASE Used(r) >= z
      <3> DEFINE e == [r EXCEPT !.tail = (r.tail + 1) % CounterMod]
      <3>1. out' = [out EXCEPT ![t] = e]
        BY <1>3, <2>1, <2>3 DEF Inc
      <3>2. 1 \in 0 .. Used(r) /\ Used(r) = z /\ w >= z
        BY <1>2, <1>3, <1>4, <2>1, <2>3 DEF OutputOK
      <3>3. /\ e \in RingType(z) /\ Used(e) = Used(r) - 1
            /\ \A k \in 1 .. Used(r) - 1 : Nth(e, z, k) = Nth(r, z, 1 + k)
        <4> HIDE DEF r, z, w, t
        <4> QED
          BY <1>3, <3>2, DropTakes
      <3> HIDE DEF e
      <3>4. \A k \in 1 .. Used(e) : Nth(e, z, k) = Char(t, w - Used(e) + k)
        <4> TAKE k \in 1 .. Used(e)
        <4>1. 1 + k \in 1 .. Used(r) /\ w - Used(r) + (1 + k) = w - Used(e) + k
          BY <1>3, <3>3
        <4> QED
          BY <1>3, <3>3, <4>1
      <3>5. OutputOK(t, e, w, Between(t)')
        BY <1>3, <2>2, <3>2, <3>3, <3>4 DEF OutputOK
      <3> QED
        BY <1>1, <1>3, <2>1, <2>2, <3>1, <3>5, WriterMoves
    <2>4. CASE ~(Used(r) >= z)
      <3>1. out' = [out EXCEPT ![t] = r]
        BY <1>3, <2>1, <2>4
      <3>2. OutputOK(t, r, w, Between(t)')
        BY <1>2, <1>3, <1>4, <2>1, <2>2, <2>4 DEF OutputOK
      <3> QED
        BY <1>1, <1>3, <2>1, <2>2, <3>1, <3>2, WriterMoves
    <2> QED
      BY <2>3, <2>4
  <1>7. CASE WriteStore
    <2> DEFINE e == [r EXCEPT !.buf[Slot(r.head, z)] = Char(t, w + 1)]
    <2>1. /\ thread.step = "store" /\ thread' = [thread EXCEPT !.step = "advance"]
          /\ UNCHANGED <<in, active, screen, typed, got, written, torn>>
          /\ out' = [out EXCEPT ![t] = e]
      BY <1>7 DEF WriteStore, Step
    <2>2. Used(r) < z /\ Char(t, w + 1) \in Int
      BY <1>2, <1>3, <1>4, <2>1, CharType DEF OutputOK
    <2>3. /\ e \in RingType(z) /\ Used(e) = Used(r)
          /\ e.buf[Slot(e.head, z)] = Char(t, w + 1)
          /\ \A k \in 1 .. Used(r) : Nth(e, z, k) = Nth(r, z, k)
      <3> HIDE DEF r, z, w, t
      <3> QED
        BY <1>3, <2>2, StoreKeeps
    <2> HIDE DEF e
    <2>4. out'[t] = e
      BY <1>2, <1>3, <2>1
    <2>5. ThreadOK' /\ thread'.step = "advance" /\ thread'.tty = t /\ Between(t)'
      BY <1>5, <2>1, <2>3, <2>4
    <2>6. OutputOK(t, e, w, Between(t)')
      BY <1>2, <1>3, <1>4, <2>1, <2>3, <2>5 DEF OutputOK
    <2> QED
      BY <1>1, <1>3, <2>1, <2>5, <2>6, WriterMoves
  <1>8. CASE WriteAdvance
    <2> DEFINE e == [r EXCEPT !.head = Inc(r.head)]
    <2>1. /\ thread.step = "advance" /\ thread' = [thread EXCEPT !.step = "test"]
          /\ UNCHANGED <<in, active, screen, typed, got, torn>>
          /\ out' = [out EXCEPT ![t] = e]
          /\ written' = [written EXCEPT ![t] = w + 1]
      BY <1>8 DEF WriteAdvance, Step
    <2>2. Used(r) < z /\ Used(r) = IF w < z THEN w ELSE z - 1
      BY <1>2, <1>3, <1>4, <2>1, CharType DEF OutputOK
    <2>3. /\ e \in RingType(z) /\ Used(e) = Used(r) + 1
          /\ \A k \in 1 .. Used(r) : Nth(e, z, k) = Nth(r, z, k)
          /\ Nth(e, z, Used(r) + 1) = Char(t, w + 1)
      <3>1. r.buf[Slot(r.head, z)] = Char(t, w + 1)
        BY <1>2, <2>1 DEF ThreadOK
      <3> HIDE DEF r, z, w, t
      <3> QED
        BY <1>3, <2>2, <3>1, AdvanceAdds
    <2> HIDE DEF e
    <2>4. /\ written'[t] = w + 1 /\ written' = [u \in Ttys |-> written'[u]]
          /\ \A u \in Ttys : u # t => written'[u] = written[u]
      BY <1>2, <1>3, <2>1
    <2>5. ThreadOK' /\ thread'.step = "test" /\ thread'.tty = t /\ ~Between(t)'
      BY <1>5, <2>1
    <2>6. \A k \in 1 .. Used(e) : Nth(e, z, k) = Char(t, (w + 1) - Used(e) + k)
      <3> TAKE k \in 1 .. Used(e)
      <3>1. CASE k = Used(r) + 1
        <4>1. (w + 1) - Used(e) + k = w + 1
          BY <1>3, <2>3, <3>1
        <4> QED
          BY <2>3, <3>1, <4>1
      <3>2. CASE k # Used(r) + 1
        <4>1. k \in 1 .. Used(r) /\ (w + 1) - Used(e) + k = w - Used(r) + k
          BY <1>3, <2>3, <3>2
        <4> QED
          BY <1>3, <2>3, <4>1
      <3> QED
        BY <3>1, <3>2
    <2>7. OutputOK(t, e, w + 1, Between(t)')
      BY <1>3, <2>2, <2>3, <2>5, <2>6 DEF OutputOK
    <2> QED
      BY <1>1, <2>1, <2>4, <2>5, <2>7, WriterMoves
  <1> QED
    BY <1>6, <1>7, <1>8

LEMMA NextCharOK ==
    ASSUME TtyInv, thread.step \in {"test", "put"}, NextChar,
           UNCHANGED <<in, out, got, written>>
    PROVE  /\ ThreadOK'
           /\ thread'.step \in {"none", "room"}
           /\ \A t \in Ttys : ~Between(t)'
  <1>1. /\ ThreadOK /\ thread.op = "write" /\ thread.left \in Nat /\ thread.left >= 1
        /\ thread \in [op : {"idle", "read", "write"}, tty : Ttys, left : Nat,
                       step : WriteSteps \cup {"none", "copy", "commit"},
                       copied : Seq(Int)]
    BY StepTells DEF TtyInv, WriteSteps, ThreadOK
  <1>2. CASE thread.left = 1
    <2>1. thread' = Idle
      BY <1>2 DEF NextChar
    <2>2. Idle \in [op : {"idle", "read", "write"}, tty : Ttys, left : Nat,
                    step : WriteSteps \cup {"none", "copy", "commit"},
                    copied : Seq(Int)]
      BY IdleIs DEF Idle
    <2> QED
      BY <2>1, <2>2, IdleIs DEF ThreadOK, Between
  <1>3. CASE thread.left # 1
    <2>1. /\ thread' = [thread EXCEPT !.left = @ - 1, !.step = "room"]
          /\ thread.left - 1 \in Nat /\ thread.left - 1 >= 1
      BY <1>1, <1>3 DEF NextChar
    <2>2. /\ thread' \in [op : {"idle", "read", "write"}, tty : Ttys, left : Nat,
                          step : WriteSteps \cup {"none", "copy", "commit"},
                          copied : Seq(Int)]
          /\ thread'.op = "write" /\ thread'.step = "room"
          /\ thread'.left = thread.left - 1
      BY <1>1, <2>1 DEF WriteSteps
    <2> QED
      BY <2>1, <2>2 DEF ThreadOK, Between, WriteSteps
  <1> QED
    BY <1>2, <1>3

LEMMA ShowSteps ==
    ASSUME TtyInv, WriteTest \/ WritePut
    PROVE  TtyInv'
  <1> DEFINE t == thread.tty
  <1>1. /\ ThreadOK /\ t \in Ttys /\ ScreenOK /\ active \in Ttys
        /\ thread.step \in {"test", "put"} /\ thread.op = "write"
        /\ \A u \in Ttys : ~Between(u)
        /\ \A u \in Ttys : written[u] \in Nat
        /\ thread \in [op : {"idle", "read", "write"}, tty : Ttys, left : Nat,
                       step : WriteSteps \cup {"none", "copy", "commit"},
                       copied : Seq(Int)]
    BY StepTells DEF TtyInv, WriteTest, WritePut, Between, WriteSteps, OutputOK, ThreadOK
  <1>2. CASE WriteTest /\ active = t
    <2>1. /\ thread.step = "test" /\ thread' = [thread EXCEPT !.step = "put"]
          /\ UNCHANGED <<in, out, active, screen, typed, got, written, torn>>
      BY <1>2 DEF WriteTest, Step
    <2>2. /\ thread' \in [op : {"idle", "read", "write"}, tty : Ttys, left : Nat,
                          step : WriteSteps \cup {"none", "copy", "commit"},
                          copied : Seq(Int)]
          /\ thread'.op = "write" /\ thread'.step = "put" /\ thread'.tty = t
          /\ thread'.left = thread.left
      BY <1>1, <2>1 DEF WriteSteps
    <2>3. ThreadOK'
      BY <1>1, <2>1, <2>2 DEF ThreadOK, WriteSteps
    <2>4. LastShown' = LastShown /\ \A u \in Ttys : ~Between(u)'
      BY <2>1, <2>2 DEF LastShown, Between
    <2> QED
      BY <1>1, <1>2, <2>1, <2>2, <2>3, <2>4, ThreadMoves
  <1>3. CASE WriteTest /\ active # t
    <2>1. /\ thread.step = "test" /\ NextChar
          /\ UNCHANGED <<in, out, active, screen, typed, got, written, torn>>
      BY <1>3 DEF WriteTest
    <2>2. /\ ThreadOK' /\ thread'.step \in {"none", "room"}
          /\ \A u \in Ttys : ~Between(u)'
      BY <1>1, <2>1, NextCharOK
    <2>3. LastShown' = LastShown
      BY <1>3, <2>1, <2>2 DEF LastShown
    <2> QED
      BY <1>1, <2>1, <2>2, <2>3, ThreadMoves
  <1>4. CASE WritePut
    <2> DEFINE c == Char(t, written[t])
    <2>1. /\ thread.step = "put" /\ NextChar /\ screen' = Append(screen, c)
          /\ UNCHANGED <<in, out, active, typed, got, written, torn>>
      BY <1>4 DEF WritePut
    <2>2. /\ ThreadOK' /\ thread'.step \in {"none", "room"}
          /\ \A u \in Ttys : ~Between(u)'
      BY <1>1, <2>1, NextCharOK
    <2>3. c \in Int /\ screen \in Seq(Int)
      <3>1. written[t] \in Int
        BY <1>1
      <3> QED
        BY <1>1, <3>1, CharType DEF ScreenOK
    <2>4. /\ screen' \in Seq(Int) /\ Len(screen') = Len(screen) + 1 /\ Len(screen) \in Nat
          /\ \A k \in 1 .. Len(screen) : screen'[k] = screen[k]
          /\ screen'[Len(screen) + 1] = c
      <3> HIDE DEF c
      <3> QED
        BY <2>1, <2>3, AppendProperties
    <2>5. LastShown' = written[active]
      BY <2>1, <2>2 DEF LastShown
    <2>6. ASSUME ~torn
          PROVE  \A k \in 1 .. Len(screen') :
                   screen'[k] = Char(active, LastShown' - Len(screen') + k)
      <3>1. t = active /\ LastShown = written[active] - 1
            /\ \A k \in 1 .. Len(screen) :
                 screen[k] = Char(active, LastShown - Len(screen) + k)
        BY <1>1, <2>1, <2>6 DEF ScreenOK, LastShown
      <3> TAKE k \in 1 .. Len(screen')
      <3>2. CASE k = Len(screen) + 1
        <4>1. LastShown' - Len(screen') + k = written[active]
          BY <1>1, <2>4, <2>5, <3>2
        <4> QED
          BY <2>4, <3>1, <3>2, <4>1
      <3>3. CASE k # Len(screen) + 1
        <4>1. /\ k \in 1 .. Len(screen)
              /\ LastShown' - Len(screen') + k = LastShown - Len(screen) + k
          <5> DEFINE l == Len(screen)
                     w == written[active]
          <5>1. l \in Nat /\ w \in Nat /\ k \in 1 .. l + 1 /\ k # l + 1
            BY <1>1, <2>4, <3>3
          <5>2. Len(screen') = l + 1 /\ LastShown' = w /\ LastShown = w - 1
            BY <2>4, <2>5, <3>1
          <5> HIDE DEF l, w
          <5>3. k \in 1 .. l /\ w - (l + 1) + k = (w - 1) - l + k
            BY <5>1
          <5> QED
            BY <5>2, <5>3 DEF l
        <4> QED
          BY <2>4, <3>1, <4>1
      <3> QED
        BY <3>2, <3>3
    <2>7. ScreenOK'
      BY <1>1, <2>1, <2>2, <2>4, <2>6 DEF ScreenOK
    <2>8. \A u \in Ttys : OutputOK(u, out'[u], written'[u], Between(u)')
      <3> TAKE u \in Ttys
      <3>1. OutputOK(u, out[u], written[u], Between(u)) /\ ~Between(u) /\ ~Between(u)'
        BY <1>1, <2>2 DEF TtyInv
      <3> QED
        BY <2>1, <3>1 DEF OutputOK
    <2> QED
      BY <2>1, <2>2, <2>7, <2>8 DEF TtyInv
  <1> QED
    BY <1>2, <1>3, <1>4 DEF WriteTest

LEMMA ReadSteps ==
    ASSUME TtyInv, ReadCopy \/ ReadCommit
    PROVE  TtyInv'
  <1> DEFINE z == TTY_INPUT_BUF_SIZE
             t == thread.tty
             r == in[t]
             n == Len(thread.copied)
             l == thread.left
  <1>1. /\ ThreadOK /\ t \in Ttys /\ l \in Nat /\ n \in Nat
        /\ thread.step \in {"copy", "commit"} /\ thread.op = "read"
        /\ l <= Used(r) /\ n <= l
        /\ thread.copied \in Seq(Int)
        /\ \A k \in 1 .. n : thread.copied[k] = got[t] + k
        /\ thread \in [op : {"idle", "read", "write"}, tty : Ttys, left : Nat,
                       step : WriteSteps \cup {"none", "copy", "commit"},
                       copied : Seq(Int)]
    <2>1. ThreadOK /\ thread.op = "read" /\ thread.step \in {"copy", "commit"}
      BY StepTells DEF TtyInv, ReadCopy, ReadCommit
    <2>2. thread.copied \in Seq(Int)
      BY <2>1 DEF ThreadOK
    <2> QED
      BY <2>1, <2>2 DEF ThreadOK
  <1>2. /\ InputOK(r, typed[t], got[t]) /\ Fits(z) /\ r \in RingType(z)
        /\ Used(r) \in Nat /\ got[t] \in Nat /\ typed[t] \in Nat
    <2>1. InputOK(r, typed[t], got[t]) /\ Fits(z)
      BY <1>1, SizesFit DEF TtyInv
    <2> QED
      BY <2>1, UsedFacts DEF InputOK
  <1>3. CASE ReadCopy
    <2>1. UNCHANGED <<in, out, active, screen, typed, got, written, torn>>
      BY <1>3 DEF ReadCopy
    <2>2. CASE n = l
      <3>1. thread' = [thread EXCEPT !.step = "commit"]
        BY <1>3, <2>2 DEF ReadCopy, Step
      <3>2. /\ thread' \in [op : {"idle", "read", "write"}, tty : Ttys, left : Nat,
                            step : WriteSteps \cup {"none", "copy", "commit"},
                            copied : Seq(Int)]
            /\ thread'.op = "read" /\ thread'.step = "commit" /\ thread'.tty = t
            /\ thread'.left = l /\ thread'.copied = thread.copied
        BY <1>1, <3>1
      <3>3. ThreadOK'
        BY <1>1, <2>1, <2>2, <3>2 DEF ThreadOK
      <3>4. LastShown' = LastShown /\ \A u \in Ttys : Between(u)' <=> Between(u)
        BY <1>1, <2>1, <3>2 DEF LastShown, Between
      <3> QED
        BY <2>1, <3>2, <3>3, <3>4, ThreadMoves
    <2>3. CASE n # l
      <3> DEFINE x == r.buf[Slot((r.tail + n) % CounterMod, z)]
                 new == Append(thread.copied, x)
      <3>1. thread' = [thread EXCEPT !.copied = new]
        BY <1>3, <2>3 DEF ReadCopy
      <3>2. n + 1 \in 1 .. Used(r) /\ n + 1 <= l
        BY <1>1, <1>2, <2>3
      <3>3. x = got[t] + (n + 1) /\ x \in Int
        <4>1. r.tail + (n + 1) - 1 = r.tail + n
          BY <1>1, <1>2 DEF RingType
        <4>2. Nth(r, z, n + 1) = got[t] + (n + 1)
          BY <1>2, <3>2 DEF InputOK
        <4>3. Nth(r, z, n + 1) = x
          BY <4>1 DEF Nth
        <4> QED
          BY <1>1, <1>2, <4>2, <4>3
      <3> HIDE DEF x
      <3>4. /\ new \in Seq(Int) /\ Len(new) = n + 1
            /\ \A k \in 1 .. n : new[k] = thread.copied[k]
            /\ new[n + 1] = x
        BY <1>1, <3>3, AppendProperties
      <3> HIDE DEF new
      <3>5. /\ thread' \in [op : {"idle", "read", "write"}, tty : Ttys, left : Nat,
                            step : WriteSteps \cup {"none", "copy", "commit"},
                            copied : Seq(Int)]
            /\ thread'.op = "read" /\ thread'.step = thread.step /\ thread'.tty = t
            /\ thread'.left = l /\ thread'.copied = new
        BY <1>1, <3>1, <3>4
      <3>6. \A k \in 1 .. n + 1 : new[k] = got[t] + k
        <4> TAKE k \in 1 .. n + 1
        <4>1. k \in 1 .. n \/ k = n + 1
          BY <1>1
        <4> QED
          BY <1>1, <3>3, <3>4, <4>1
      <3>7. thread.step = "copy"
        BY <1>3 DEF ReadCopy
      <3>8. ThreadOK'
        BY <1>1, <2>1, <3>2, <3>4, <3>5, <3>6, <3>7 DEF ThreadOK
      <3>9. LastShown' = LastShown /\ \A u \in Ttys : Between(u)' <=> Between(u)
        BY <1>1, <2>1, <3>5 DEF LastShown, Between
      <3> QED
        BY <1>1, <2>1, <3>5, <3>8, <3>9, ThreadMoves
    <2> QED
      BY <2>2, <2>3
  <1>4. CASE ReadCommit
    <2> DEFINE e == [r EXCEPT !.tail = (r.tail + l) % CounterMod]
               g == got[t] + l
    <2>1. /\ thread.step = "commit" /\ n = l
          /\ in' = [in EXCEPT ![t] = e] /\ got' = [got EXCEPT ![t] = g]
          /\ thread' = Idle
          /\ UNCHANGED <<out, active, screen, typed, written, torn>>
      BY <1>1, <1>4 DEF ReadCommit, ThreadOK
    <2>2. l \in 0 .. Used(r)
      BY <1>1, <1>2
    <2>3. /\ e \in RingType(z) /\ Used(e) = Used(r) - l
          /\ \A k \in 1 .. Used(r) - l : Nth(e, z, k) = Nth(r, z, l + k)
      <3> HIDE DEF r, z, l
      <3> QED
        BY <1>2, <2>2, DropTakes
    <2> HIDE DEF e
    <2>4. InputOK(e, typed[t], g)
      <3>1. Used(e) = typed[t] - g /\ g \in Nat /\ Used(e) <= z
        <4>1. z \in Nat
          BY <1>2 DEF Fits
        <4> QED
          BY <1>1, <1>2, <2>2, <2>3, <4>1 DEF InputOK
      <3>2. \A k \in 1 .. Used(e) : Nth(e, z, k) = g + k
        <4> TAKE k \in 1 .. Used(e)
        <4>1. l + k \in 1 .. Used(r) /\ k \in 1 .. Used(r) - l /\ got[t] + (l + k) = g + k
          BY <1>1, <1>2, <2>2, <2>3
        <4> QED
          BY <1>2, <2>3, <4>1 DEF InputOK
      <3> QED
        BY <1>2, <2>3, <3>1, <3>2 DEF InputOK
    <2>5. \A u \in Ttys : /\ in'[u] = IF u = t THEN e ELSE in[u]
                          /\ got'[u] = IF u = t THEN g ELSE got[u]
      BY <2>1 DEF TtyInv
    <2>6. \A u \in Ttys : InputOK(in'[u], typed'[u], got'[u])
      BY <2>1, <2>4, <2>5 DEF TtyInv
    <2>7. ThreadOK'
      <3>1. Idle \in [op : {"idle", "read", "write"}, tty : Ttys, left : Nat,
                      step : WriteSteps \cup {"none", "copy", "commit"},
                      copied : Seq(Int)]
        BY IdleIs DEF Idle
      <3> QED
        BY <2>1, <3>1, IdleIs DEF ThreadOK
    <2>8. \A u \in Ttys : ~Between(u)' /\ ~Between(u)
      BY <1>1, <2>1, IdleIs DEF Between
    <2>9. \A u \in Ttys : OutputOK(u, out'[u], written'[u], Between(u)')
      <3> TAKE u \in Ttys
      <3>1. OutputOK(u, out[u], written[u], Between(u))
        BY DEF TtyInv
      <3> QED
        BY <2>1, <2>8, <3>1 DEF OutputOK
    <2>10. LastShown' = LastShown
      BY <2>1, IdleIs DEF LastShown
    <2>11. ScreenOK'
      BY <2>1, <2>10, IdleIs DEF TtyInv, ScreenOK
    <2>12. in' = [u \in Ttys |-> in'[u]] /\ got' = [u \in Ttys |-> got'[u]]
      BY <2>1 DEF TtyInv
    <2> QED
      BY <2>1, <2>6, <2>7, <2>9, <2>11, <2>12 DEF TtyInv
  <1> QED
    BY <1>3, <1>4

LEMMA EmptyRing ==
    ASSUME NEW size, Fits(size)
    PROVE  Ring(size) \in RingType(size) /\ Used(Ring(size)) = 0
  <1>1. size \in Nat \ {0} /\ CounterMod \in Nat \ {0}
    BY DEF Fits
  <1>2. 0 \in 0 .. CounterMod - 1 /\ (0 - 0) % CounterMod = 0
    <2>1. (CounterMod * 0 + 0) % CounterMod = 0
      BY <1>1, ModUnique
    <2> QED
      BY <1>1, <2>1
  <1> QED
    BY <1>2 DEF Ring, RingType, Used

LEMMA TtyInitial == TtyInit => TtyInv
  <1> SUFFICES ASSUME TtyInit PROVE TtyInv
    OBVIOUS
  <1>1. /\ TTY_OUTPUT_BUF_SIZE \in Nat \ {0} /\ TTY_INPUT_BUF_SIZE \in Nat \ {0}
        /\ 0 \in Ttys
    BY TtyAssumption, TtyCountAssumption DEF Ttys
  <1>2. ASSUME NEW t \in Ttys
        PROVE  /\ in[t] = Ring(TTY_INPUT_BUF_SIZE) /\ out[t] = Ring(TTY_OUTPUT_BUF_SIZE)
               /\ typed[t] = 0 /\ got[t] = 0 /\ written[t] = 0
    BY DEF TtyInit
  <1>3. \A t \in Ttys : InputOK(in[t], typed[t], got[t])
    BY <1>1, <1>2, SizesFit, EmptyRing DEF InputOK
  <1>4. \A t \in Ttys : OutputOK(t, out[t], written[t], Between(t))
    BY <1>1, <1>2, SizesFit, EmptyRing DEF OutputOK
  <1>5. ThreadOK
    <2>1. Idle \in [op : {"idle", "read", "write"}, tty : Ttys, left : Nat,
                    step : WriteSteps \cup {"none", "copy", "commit"},
                    copied : Seq(Int)]
      BY IdleIs DEF Idle
    <2> QED
      BY <2>1, IdleIs DEF TtyInit, ThreadOK
  <1>6. ScreenOK
    BY IdleIs DEF TtyInit, ScreenOK
  <1> QED
    BY <1>1, <1>3, <1>4, <1>5, <1>6 DEF TtyInit, TtyInv

LEMMA TtyStep ==
    ASSUME TtyInv, [TtyNext]_ttyVars
    PROVE  TtyInv'
  <1>1. CASE UNCHANGED ttyVars
    <2>1. UNCHANGED <<in, out, active, screen, thread, typed, got, written, torn>>
      BY <1>1 DEF ttyVars
    <2>2. ThreadOK' /\ LastShown' = LastShown /\ \A u \in Ttys : Between(u)' <=> Between(u)
      BY <2>1 DEF TtyInv, ThreadOK, LastShown, Between
    <2> QED
      BY <2>1, <2>2, ThreadMoves DEF TtyInv, ScreenOK
  <1>2. CASE TtyNext
    BY <1>2, KeysKeep, ActivateKeeps, StartKeeps, WriterSteps, ShowSteps, ReadSteps
    DEF TtyNext
  <1> QED
    BY <1>1, <1>2

LEMMA TtyInvImplies == TtyInv => TtyCorrect
  <1> SUFFICES ASSUME TtyInv PROVE TtyCorrect
    OBVIOUS
  <1>1. \A t \in Ttys : /\ InputOK(in[t], typed[t], got[t]) /\ Used(in[t]) \in Nat
                        /\ OutputOK(t, out[t], written[t], Between(t))
                        /\ Used(out[t]) \in Nat
    BY SizesFit, UsedFacts DEF TtyInv, InputOK, OutputOK
  <1>2. TtyTypeOK
    <2>1. \A t \in Ttys : Used(out[t]) <= TTY_OUTPUT_BUF_SIZE
      BY <1>1, TtyAssumption, TtyCountAssumption DEF OutputOK
    <2> QED
      BY <1>1, <2>1 DEF TtyTypeOK, TtyInv, InputOK, RingType, ScreenOK
  <1>3. InputInOrder
    <2> SUFFICES ASSUME NEW t \in Ttys
                 PROVE  Contents(in[t], TTY_INPUT_BUF_SIZE)
                          = [i \in 1 .. typed[t] - got[t] |-> got[t] + i]
      BY DEF InputInOrder
    <2>1. Contents(in[t], TTY_INPUT_BUF_SIZE)
            = [i \in 1 .. Used(in[t]) |-> Nth(in[t], TTY_INPUT_BUF_SIZE, i)]
      BY DEF Contents, Nth
    <2>2. /\ Used(in[t]) = typed[t] - got[t]
          /\ \A i \in 1 .. Used(in[t]) : Nth(in[t], TTY_INPUT_BUF_SIZE, i) = got[t] + i
      BY <1>1 DEF InputOK
    <2> QED
      BY <2>1, <2>2
  <1>4. ReadIsStable
    <2> SUFFICES ASSUME thread.op = "read"
                 PROVE  thread.copied
                          = [i \in 1 .. Len(thread.copied) |-> got[thread.tty] + i]
      BY DEF ReadIsStable
    <2>1. thread.copied \in Seq(Int)
          /\ \A k \in 1 .. Len(thread.copied) : thread.copied[k] = got[thread.tty] + k
      BY DEF TtyInv, ThreadOK
    <2> QED
      BY <2>1
  <1>5. RingKeepsLast
    <2> SUFFICES ASSUME NEW t \in Ttys
                 PROVE  LET kept == IF written[t] < TTY_OUTPUT_BUF_SIZE THEN written[t]
                                    ELSE IF Between(t) THEN TTY_OUTPUT_BUF_SIZE - 1
                                    ELSE TTY_OUTPUT_BUF_SIZE
                        IN  Contents(out[t], TTY_OUTPUT_BUF_SIZE)
                              = [i \in 1 .. kept |-> Char(t, written[t] - kept + i)]
      BY DEF RingKeepsLast, Between
    <2>1. Contents(out[t], TTY_OUTPUT_BUF_SIZE)
            = [i \in 1 .. Used(out[t]) |-> Nth(out[t], TTY_OUTPUT_BUF_SIZE, i)]
      BY DEF Contents, Nth
    <2> QED
      BY <1>1, <2>1 DEF OutputOK
  <1>6. ScreenShowsActive
    <2> SUFFICES ASSUME ~torn
                 PROVE  screen = [i \in 1 .. Len(screen) |->
                                    Char(active, LastShown - Len(screen) + i)]
      BY DEF ScreenShowsActive, LastShown, TtyInv, ScreenOK
    <2>1. screen \in Seq(Int)
          /\ \A k \in 1 .. Len(screen) : screen[k] = Char(active, LastShown - Len(screen) + k)
      BY DEF TtyInv, ScreenOK
    <2> QED
      BY <2>1
  <1> QED
    BY <1>2, <1>3, <1>4, <1>5, <1>6 DEF TtyCorrect

\* Characters typed come out of tty_read once and in order, whatever keys
\* arrive between two steps of the read; the output ring holds the last
\* characters tty_write was given; and the screen shows the active terminal
\* unless a switch tore a write, for any number of terminals, ring sizes and
\* counter width, however often the counters have wrapped around.
THEOREM TtyIsCorrect == TtySpec => []TtyCorrect
  BY TtyInitial, TtyStep, TtyInvImplies, PTL DEF TtySpec
-----------------------------------------------------------------------------
(* Keyboard driver.                                                        *)

ByteType == [code : Nat, release : BOOLEAN]
Codes == {"none", "KEY_SHIFT", "KEY_CTRL", "KEY_ALT", "KEY_UP", "KEY_F1"}
CallType == [value : 0 .. 127, code : Codes, ctrl : BOOLEAN, alt : BOOLEAN, shift : BOOLEAN]
Driver == [shift : BOOLEAN, ctrl : BOOLEAN, alt : BOOLEAN, ext : BOOLEAN, event : CallType]

\* What the driver keeps.
Now == [shift |-> shift_pressed, ctrl |-> ctrl_pressed, alt |-> alt_pressed,
        ext |-> extended_code, event |-> event]

\* The modifier whose flag a byte sets in a state d of the driver.
ModOf(d, b) ==
    IF b.code \in {42, 54} /\ ~d.ext THEN "shift"
    ELSE IF b.code = 29 THEN "ctrl" ELSE IF b.code = 56 THEN "alt" ELSE "no"

Flag(d, b, mod, old) == IF ModOf(d, b) = mod THEN ~b.release ELSE old

\* The character of a press, 0 where there is none.
CharOf(d, b) ==
    LET c == SCANCODE(d.shift, b.code)
    IN  IF d.ext \/ b.code \in {42, 54, 29, 56, 59} THEN 0
        ELSE IF d.ctrl THEN Control(c) ELSE c

CodeOf(d, b) ==
    IF ModOf(d, b) = "shift" THEN "KEY_SHIFT"
    ELSE IF ModOf(d, b) = "ctrl" THEN "KEY_CTRL"
    ELSE IF ModOf(d, b) = "alt" THEN "KEY_ALT"
    ELSE IF d.ext /\ b.code = 72 THEN "KEY_UP"
    ELSE IF ~d.ext /\ b.code = 59 THEN "KEY_F1" ELSE "none"

CallOf(d, b) ==
    IF b.release \/ (CodeOf(d, b) = "none" /\ CharOf(d, b) = 0) THEN d.event
    ELSE [value |-> CharOf(d, b), code |-> CodeOf(d, b),
          ctrl |-> Flag(d, b, "ctrl", d.ctrl), alt |-> Flag(d, b, "alt", d.alt),
          shift |-> Flag(d, b, "shift", d.shift)]

\* The state of the driver after a byte: keyboard_interrupt_handler as a function.
After(d, b) ==
    IF b = Extended THEN [d EXCEPT !.ext = TRUE]
    ELSE [shift |-> Flag(d, b, "shift", d.shift), ctrl |-> Flag(d, b, "ctrl", d.ctrl),
          alt |-> Flag(d, b, "alt", d.alt), ext |-> FALSE, event |-> CallOf(d, b)]

(* What has to be true of the driver once the controller has nothing left. *)
Settled(d, keys, two, call) ==
    /\ ~d.ext
    /\ d.shift => Down("shift", keys)
    /\ d.ctrl => Down("ctrl", keys)
    /\ d.alt => Down("alt", keys)
    /\ ~two => /\ Down("shift", keys) => d.shift
               /\ Down("ctrl", keys) => d.ctrl
               /\ Down("alt", keys) => d.alt
               /\ d.event = call

\* Until two keys of one modifier have been down together.
SingleHeld ==
    ~twice => \A k, l \in held : Key[k].mod = Key[l].mod /\ Key[k].mod # "no" => k = l

\* r takes the driver from d through the bytes of p.
Run(r, p, d) ==
    /\ r \in [0 .. Len(p) -> Driver]
    /\ r[0] = d
    /\ \A i \in 1 .. Len(p) : r[i] = After(r[i - 1], p[i])

KeyboardInv ==
    /\ held \subseteq Keys
    /\ port \in Seq(ByteType) /\ Len(port) <= MaxPending
    /\ Now \in Driver
    /\ expected.value \in 0 .. 127
    /\ twice \in BOOLEAN
    /\ SingleHeld
    /\ \E r : Run(r, port, Now) /\ Settled(r[Len(port)], held, twice, expected)

\* The keys by their bytes.
KeyRules(k) ==
    /\ Key[k].code \in {42, 54, 29, 56, 30, 3, 59, 72, 71}
    /\ Key[k].mod \in {"shift", "ctrl", "alt", "no"}
    /\ Key[k].mod = "shift" <=> Key[k].code \in {42, 54}
    /\ Key[k].mod = "ctrl" <=> Key[k].code = 29
    /\ Key[k].mod = "alt" <=> Key[k].code = 56
    /\ Key[k].code \in {42, 54, 30, 3, 59} => ~Key[k].ext
    /\ Key[k].code = 71 => Key[k].ext
    /\ k = "A" <=> Key[k].code = 30
    /\ k = "Two" <=> Key[k].code = 3
    /\ k = "F1" <=> Key[k].code = 59
    /\ k = "Up" <=> Key[k].code = 72 /\ Key[k].ext
    /\ k \in {"Home", "Pad8"} <=> Key[k].code = 71 \/ (Key[k].code = 72 /\ ~Key[k].ext)

LEMMA KeyFacts ==
    ASSUME NEW k \in DOMAIN Key
    PROVE  KeyRules(k) /\ Key[k].ext \in BOOLEAN
  <1>1. k \in {"LShift", "RShift", "LCtrl", "RCtrl", "LAlt", "RAlt", "A", "Two", "F1",
               "Pad8", "Up", "Home"}
    BY DEF Key
  <1>2. CASE k = "LShift"
    <2>1. Key["LShift"] = [code |-> 42, ext |-> FALSE, mod |-> "shift"]
      BY DEF Key
    <2>2. Key[k].code = 42 /\ Key[k].ext = FALSE /\ Key[k].mod = "shift"
      BY <1>2, <2>1
    <2>3. KeyRules(k)
      BY <1>2, <2>2 DEF KeyRules
    <2>4. Key[k].ext \in BOOLEAN
      BY <2>2
    <2> QED
      BY <2>3, <2>4
  <1>3. CASE k = "RShift"
    <2>1. Key["RShift"] = [code |-> 54, ext |-> FALSE, mod |-> "shift"]
      BY DEF Key
    <2>2. Key[k].code = 54 /\ Key[k].ext = FALSE /\ Key[k].mod = "shift"
      BY <1>3, <2>1
    <2>3. KeyRules(k)
      BY <1>3, <2>2 DEF KeyRules
    <2>4. Key[k].ext \in BOOLEAN
      BY <2>2
    <2> QED
      BY <2>3, <2>4
  <1>4. CASE k = "LCtrl"
    <2>1. Key["LCtrl"] = [code |-> 29, ext |-> FALSE, mod |-> "ctrl"]
      BY DEF Key
    <2>2. Key[k].code = 29 /\ Key[k].ext = FALSE /\ Key[k].mod = "ctrl"
      BY <1>4, <2>1
    <2>3. KeyRules(k)
      BY <1>4, <2>2 DEF KeyRules
    <2>4. Key[k].ext \in BOOLEAN
      BY <2>2
    <2> QED
      BY <2>3, <2>4
  <1>5. CASE k = "RCtrl"
    <2>1. Key["RCtrl"] = [code |-> 29, ext |-> TRUE, mod |-> "ctrl"]
      BY DEF Key
    <2>2. Key[k].code = 29 /\ Key[k].ext = TRUE /\ Key[k].mod = "ctrl"
      BY <1>5, <2>1
    <2>3. KeyRules(k)
      BY <1>5, <2>2 DEF KeyRules
    <2>4. Key[k].ext \in BOOLEAN
      BY <2>2
    <2> QED
      BY <2>3, <2>4
  <1>6. CASE k = "LAlt"
    <2>1. Key["LAlt"] = [code |-> 56, ext |-> FALSE, mod |-> "alt"]
      BY DEF Key
    <2>2. Key[k].code = 56 /\ Key[k].ext = FALSE /\ Key[k].mod = "alt"
      BY <1>6, <2>1
    <2>3. KeyRules(k)
      BY <1>6, <2>2 DEF KeyRules
    <2>4. Key[k].ext \in BOOLEAN
      BY <2>2
    <2> QED
      BY <2>3, <2>4
  <1>7. CASE k = "RAlt"
    <2>1. Key["RAlt"] = [code |-> 56, ext |-> TRUE, mod |-> "alt"]
      BY DEF Key
    <2>2. Key[k].code = 56 /\ Key[k].ext = TRUE /\ Key[k].mod = "alt"
      BY <1>7, <2>1
    <2>3. KeyRules(k)
      BY <1>7, <2>2 DEF KeyRules
    <2>4. Key[k].ext \in BOOLEAN
      BY <2>2
    <2> QED
      BY <2>3, <2>4
  <1>8. CASE k = "A"
    <2>1. Key["A"] = [code |-> 30, ext |-> FALSE, mod |-> "no"]
      BY DEF Key
    <2>2. Key[k].code = 30 /\ Key[k].ext = FALSE /\ Key[k].mod = "no"
      BY <1>8, <2>1
    <2>3. KeyRules(k)
      BY <1>8, <2>2 DEF KeyRules
    <2>4. Key[k].ext \in BOOLEAN
      BY <2>2
    <2> QED
      BY <2>3, <2>4
  <1>9. CASE k = "Two"
    <2>1. Key["Two"] = [code |-> 3, ext |-> FALSE, mod |-> "no"]
      BY DEF Key
    <2>2. Key[k].code = 3 /\ Key[k].ext = FALSE /\ Key[k].mod = "no"
      BY <1>9, <2>1
    <2>3. KeyRules(k)
      BY <1>9, <2>2 DEF KeyRules
    <2>4. Key[k].ext \in BOOLEAN
      BY <2>2
    <2> QED
      BY <2>3, <2>4
  <1>10. CASE k = "F1"
    <2>1. Key["F1"] = [code |-> 59, ext |-> FALSE, mod |-> "no"]
      BY DEF Key
    <2>2. Key[k].code = 59 /\ Key[k].ext = FALSE /\ Key[k].mod = "no"
      BY <1>10, <2>1
    <2>3. KeyRules(k)
      BY <1>10, <2>2 DEF KeyRules
    <2>4. Key[k].ext \in BOOLEAN
      BY <2>2
    <2> QED
      BY <2>3, <2>4
  <1>11. CASE k = "Pad8"
    <2>1. Key["Pad8"] = [code |-> 72, ext |-> FALSE, mod |-> "no"]
      BY DEF Key
    <2>2. Key[k].code = 72 /\ Key[k].ext = FALSE /\ Key[k].mod = "no"
      BY <1>11, <2>1
    <2>3. KeyRules(k)
      BY <1>11, <2>2 DEF KeyRules
    <2>4. Key[k].ext \in BOOLEAN
      BY <2>2
    <2> QED
      BY <2>3, <2>4
  <1>12. CASE k = "Up"
    <2>1. Key["Up"] = [code |-> 72, ext |-> TRUE, mod |-> "no"]
      BY DEF Key
    <2>2. Key[k].code = 72 /\ Key[k].ext = TRUE /\ Key[k].mod = "no"
      BY <1>12, <2>1
    <2>3. KeyRules(k)
      BY <1>12, <2>2 DEF KeyRules
    <2>4. Key[k].ext \in BOOLEAN
      BY <2>2
    <2> QED
      BY <2>3, <2>4
  <1>13. CASE k = "Home"
    <2>1. Key["Home"] = [code |-> 71, ext |-> TRUE, mod |-> "no"]
      BY DEF Key
    <2>2. Key[k].code = 71 /\ Key[k].ext = TRUE /\ Key[k].mod = "no"
      BY <1>13, <2>1
    <2>3. KeyRules(k)
      BY <1>13, <2>2 DEF KeyRules
    <2>4. Key[k].ext \in BOOLEAN
      BY <2>2
    <2> QED
      BY <2>3, <2>4
  <1> QED
    BY <1>1, <1>2, <1>3, <1>4, <1>5, <1>6, <1>7, <1>8, <1>9, <1>10, <1>11, <1>12, <1>13

\* The handler takes one step of a run.
LEMMA CharRange ==
    ASSUME NEW d \in Driver, NEW b \in ByteType
    PROVE  CharOf(d, b) \in 0 .. 127
  BY DEF CharOf, SCANCODE, Control, Driver, ByteType

LEMMA AfterType ==
    ASSUME NEW d \in Driver, NEW b \in ByteType
    PROVE  After(d, b) \in Driver
  <1>1. CASE b = Extended
    BY <1>1 DEF After, Driver
  <1>2. CASE b # Extended
    <2>1. \A mod, old : old \in BOOLEAN => Flag(d, b, mod, old) \in BOOLEAN
      BY DEF Flag, ByteType
    <2>2. d.shift \in BOOLEAN /\ d.ctrl \in BOOLEAN /\ d.alt \in BOOLEAN /\ d.event \in CallType
      BY DEF Driver
    <2>3. CodeOf(d, b) \in Codes
      BY DEF CodeOf, Codes
    <2>4. CallOf(d, b) \in CallType
      BY <2>1, <2>2, <2>3, CharRange DEF CallOf, CallType
    <2> QED
      BY <1>2, <2>1, <2>2, <2>4 DEF After, Driver
  <1> QED
    BY <1>1, <1>2

\* The fields of the driver's state.
LEMMA NowFields ==
    /\ Now.shift = shift_pressed /\ Now.ctrl = ctrl_pressed /\ Now.alt = alt_pressed
    /\ Now.ext = extended_code /\ Now.event = event
  BY DEF Now

\* A byte that calls the terminal, or would if it were a press.
LEMMA LoudByte ==
    ASSUME NEW b \in ByteType, b # Extended, Now \in Driver, extended_code' = FALSE,
           NEW mod, SetModifier(b, mod), ModOf(Now, b) = mod,
           NEW value, CharOf(Now, b) = value,
           NEW code, CodeOf(Now, b) = code, EmitIf(b, value, code),
           code # "none" \/ value # 0
    PROVE  Now' = After(Now, b)
  <1>1. /\ shift_pressed' = Flag(Now, b, "shift", Now.shift)
        /\ ctrl_pressed' = Flag(Now, b, "ctrl", Now.ctrl)
        /\ alt_pressed' = Flag(Now, b, "alt", Now.alt)
    BY NowFields DEF SetModifier, Flag
  <1>2. event' = CallOf(Now, b)
    <2>1. CASE b.release
      BY <2>1, NowFields DEF EmitIf, CallOf
    <2>2. CASE ~b.release
      BY <1>1, <2>2 DEF EmitIf, Call, CallOf
    <2> QED
      BY <2>1, <2>2
  <1> QED
    BY <1>1, <1>2 DEF After, Now

\* A byte the driver takes no notice of.
LEMMA SilentByte ==
    ASSUME NEW b \in ByteType, b # Extended, Now \in Driver, extended_code' = FALSE,
           UNCHANGED <<flags, event>>, ModOf(Now, b) = "no",
           b.release \/ (CharOf(Now, b) = 0 /\ CodeOf(Now, b) = "none")
    PROVE  Now' = After(Now, b)
  <1>1. /\ shift_pressed' = Flag(Now, b, "shift", Now.shift)
        /\ ctrl_pressed' = Flag(Now, b, "ctrl", Now.ctrl)
        /\ alt_pressed' = Flag(Now, b, "alt", Now.alt)
    BY NowFields DEF flags, Flag
  <1>2. event' = CallOf(Now, b)
    BY NowFields DEF CallOf
  <1> QED
    BY <1>1, <1>2 DEF After, Now

LEMMA HandlerIsAfter ==
    ASSUME KeyboardInv, keyboard_interrupt_handler
    PROVE  Now' = After(Now, Head(port))
  <1> DEFINE b == Head(port)
  <1>1. b \in ByteType
    BY HeadTailProperties DEF KeyboardInv, keyboard_interrupt_handler
  <1>2. Now \in Driver /\ extended_code \in BOOLEAN
    BY DEF KeyboardInv, Now, Driver
  <1> HIDE DEF b
  <1> SUFFICES Now' = After(Now, b)
    BY DEF b
  <1>3. CASE b = Extended
    BY <1>3 DEF keyboard_interrupt_handler, b, After, Now, flags
  <1>4. CASE b # Extended /\ extended_code
    <2>1. ExtendedByte(b) /\ extended_code' = FALSE
      BY <1>4 DEF keyboard_interrupt_handler, b, ExtendedByte
    <2>2. CharOf(Now, b) = 0 /\ Now.ext
      BY <1>4, NowFields DEF CharOf
    <2>3. CASE b.code = 29 /\ SetModifier(b, "ctrl") /\ EmitIf(b, 0, "KEY_CTRL")
      <3>1. ModOf(Now, b) = "ctrl" /\ CodeOf(Now, b) = "KEY_CTRL"
        BY <2>3 DEF ModOf, CodeOf
      <3> QED
        BY <1>1, <1>2, <1>4, <2>1, <2>2, <2>3, <3>1, LoudByte
    <2>4. CASE b.code = 56 /\ SetModifier(b, "alt") /\ EmitIf(b, 0, "KEY_ALT")
      <3>1. ModOf(Now, b) = "alt" /\ CodeOf(Now, b) = "KEY_ALT"
        BY <2>4 DEF ModOf, CodeOf
      <3> QED
        BY <1>1, <1>2, <1>4, <2>1, <2>2, <2>4, <3>1, LoudByte
    <2>5. CASE b.code = 72 /\ UNCHANGED flags /\ EmitIf(b, 0, "KEY_UP")
      <3>1. ModOf(Now, b) = "no" /\ CodeOf(Now, b) = "KEY_UP"
        BY <2>2, <2>5 DEF ModOf, CodeOf
      <3>2. SetModifier(b, "no")
        BY <2>5 DEF SetModifier, flags
      <3> QED
        BY <1>1, <1>2, <1>4, <2>1, <2>2, <2>5, <3>1, <3>2, LoudByte
    <2>6. CASE b.code \notin {29, 56, 72} /\ UNCHANGED <<flags, event>>
      <3>1. ModOf(Now, b) = "no" /\ CodeOf(Now, b) = "none"
        BY <2>2, <2>6 DEF ModOf, CodeOf
      <3> QED
        BY <1>1, <1>2, <1>4, <2>1, <2>2, <2>6, <3>1, SilentByte
    <2> QED
      BY <2>1, <2>3, <2>4, <2>5, <2>6 DEF ExtendedByte
  <1>5. CASE b # Extended /\ ~extended_code
    <2>1. PlainByte(b) /\ extended_code' = FALSE
      BY <1>2, <1>5 DEF keyboard_interrupt_handler, b, PlainByte
    <2>2. ~Now.ext
      BY <1>5, NowFields
    <2>3. CASE b.code \in {42, 54} /\ SetModifier(b, "shift") /\ EmitIf(b, 0, "KEY_SHIFT")
      <3>1. ModOf(Now, b) = "shift" /\ CodeOf(Now, b) = "KEY_SHIFT" /\ CharOf(Now, b) = 0
        BY <2>2, <2>3 DEF ModOf, CodeOf, CharOf
      <3> QED
        BY <1>1, <1>2, <1>5, <2>1, <2>3, <3>1, LoudByte
    <2>4. CASE b.code = 29 /\ SetModifier(b, "ctrl") /\ EmitIf(b, 0, "KEY_CTRL")
      <3>1. ModOf(Now, b) = "ctrl" /\ CodeOf(Now, b) = "KEY_CTRL" /\ CharOf(Now, b) = 0
        BY <2>4 DEF ModOf, CodeOf, CharOf
      <3> QED
        BY <1>1, <1>2, <1>5, <2>1, <2>4, <3>1, LoudByte
    <2>5. CASE b.code = 56 /\ SetModifier(b, "alt") /\ EmitIf(b, 0, "KEY_ALT")
      <3>1. ModOf(Now, b) = "alt" /\ CodeOf(Now, b) = "KEY_ALT" /\ CharOf(Now, b) = 0
        BY <2>5 DEF ModOf, CodeOf, CharOf
      <3> QED
        BY <1>1, <1>2, <1>5, <2>1, <2>5, <3>1, LoudByte
    <2>6. CASE b.code = 59 /\ UNCHANGED flags /\ EmitIf(b, 0, "KEY_F1")
      <3>1. ModOf(Now, b) = "no" /\ CodeOf(Now, b) = "KEY_F1" /\ CharOf(Now, b) = 0
        BY <2>2, <2>6 DEF ModOf, CodeOf, CharOf
      <3>2. SetModifier(b, "no")
        BY <2>6 DEF SetModifier, flags
      <3> QED
        BY <1>1, <1>2, <1>5, <2>1, <2>6, <3>1, <3>2, LoudByte
    <2>7. CASE /\ b.code \notin {42, 54, 29, 56, 59}
               /\ UNCHANGED flags
               /\ LET c == SCANCODE(shift_pressed, b.code)
                  IN  IF b.release \/ c = 0
                      THEN UNCHANGED event
                      ELSE event' = Call(IF ctrl_pressed THEN Control(c) ELSE c, "none")
      <3> DEFINE c == SCANCODE(shift_pressed, b.code)
                 v == IF ctrl_pressed THEN Control(c) ELSE c
      <3>1. c \in {0, 65, 97, 64, 50}
        BY DEF SCANCODE
      <3>2. Control(c) \in Nat /\ (Control(c) = 0 <=> c = 0)
        BY <3>1 DEF Control
      <3>3. b.release \/ c = 0 => UNCHANGED event
        BY <2>7
      <3>4. ~b.release /\ c # 0 => event' = Call(v, "none")
        BY <2>7
      <3>5. v = 0 <=> c = 0
        BY <3>2
      <3>6. CharOf(Now, b) = v
        BY <2>2, <2>7, NowFields DEF CharOf
      <3> HIDE DEF c, v
      <3>7. ModOf(Now, b) = "no" /\ CodeOf(Now, b) = "none"
        BY <2>2, <2>7 DEF ModOf, CodeOf
      <3>8. CASE b.release \/ c = 0
        BY <1>1, <1>2, <1>5, <2>1, <2>7, <3>3, <3>5, <3>6, <3>7, <3>8, SilentByte
      <3>9. CASE ~b.release /\ c # 0
        <4>1. SetModifier(b, "no") /\ EmitIf(b, v, "none")
          BY <2>7, <3>4, <3>9 DEF SetModifier, flags, EmitIf
        <4> QED
          BY <1>1, <1>2, <1>5, <2>1, <3>5, <3>6, <3>7, <3>9, <4>1, LoudByte
      <3> QED
        BY <3>8, <3>9
    <2> QED
      BY <2>1, <2>3, <2>4, <2>5, <2>6, <2>7 DEF PlainByte
  <1> QED
    BY <1>2, <1>3, <1>4, <1>5

\* A run goes on for one byte more.
LEMMA RunGrows ==
    ASSUME NEW p \in Seq(ByteType), NEW d, NEW r, Run(r, p, d), NEW b \in ByteType
    PROVE  \E q : Run(q, Append(p, b), d) /\ q[Len(p) + 1] = After(r[Len(p)], b)
  <1> DEFINE n == Len(p)
             pb == Append(p, b)
             q == [i \in 0 .. n + 1 |-> IF i <= n THEN r[i] ELSE After(r[n], b)]
  <1>1. n \in Nat /\ Len(pb) = n + 1 /\ (\A i \in 1 .. n : pb[i] = p[i]) /\ pb[n + 1] = b
    BY AppendProperties
  <1>2. /\ r \in [0 .. n -> Driver] /\ r[0] = d
        /\ \A i \in 1 .. n : r[i] = After(r[i - 1], p[i])
    BY DEF Run
  <1> HIDE DEF n, pb
  <1>3. After(r[n], b) \in Driver
    BY <1>1, <1>2, AfterType
  <1>4. q \in [0 .. n + 1 -> Driver]
    BY <1>1, <1>2, <1>3
  <1>5. /\ \A i \in 0 .. n : q[i] = r[i]
        /\ q[n + 1] = After(r[n], b)
    BY <1>1
  <1> HIDE DEF q
  <1>6. q[0] = d
    BY <1>1, <1>2, <1>5
  <1>7. ASSUME NEW i \in 1 .. n + 1
        PROVE  q[i] = After(q[i - 1], pb[i])
    <2>1. CASE i = n + 1
      <3>1. i - 1 = n /\ n \in 0 .. n
        BY <1>1, <2>1
      <3> QED
        BY <1>1, <1>5, <2>1, <3>1
    <2>2. CASE i # n + 1
      <3>1. i \in 1 .. n /\ i \in 0 .. n /\ i - 1 \in 0 .. n
        BY <1>1, <2>2
      <3> QED
        BY <1>1, <1>2, <1>5, <3>1
    <2> QED
      BY <2>1, <2>2
  <1>8. Run(q, pb, d)
    BY <1>1, <1>4, <1>6, <1>7 DEF Run
  <1> QED
    BY <1>5, <1>8 DEF n, pb

\* The rest of a run is a run.
LEMMA RunDrops ==
    ASSUME NEW p \in Seq(ByteType), p # <<>>, NEW d, NEW r, Run(r, p, d)
    PROVE  \E q : Run(q, Tail(p), After(d, Head(p))) /\ q[Len(Tail(p))] = r[Len(p)]
  <1> DEFINE n == Len(p)
             t == Tail(p)
             q == [i \in 0 .. n - 1 |-> r[i + 1]]
  <1>1. n \in Nat \ {0} /\ Len(t) = n - 1 /\ \A i \in 1 .. n - 1 : t[i] = p[i + 1]
    BY EmptySeq, HeadTailProperties
  <1>2. Head(p) = p[1]
    BY EmptySeq, HeadTailProperties
  <1>3. /\ r \in [0 .. n -> Driver] /\ r[0] = d
        /\ \A i \in 1 .. n : r[i] = After(r[i - 1], p[i])
    BY DEF Run
  <1> HIDE DEF n, t
  <1>4. q \in [0 .. n - 1 -> Driver]
    BY <1>1, <1>3
  <1>5. \A i \in 0 .. n - 1 : q[i] = r[i + 1]
    BY <1>1
  <1> HIDE DEF q
  <1>6. q[0] = After(d, Head(p))
    <2>1. 0 \in 0 .. n - 1 /\ 1 \in 1 .. n /\ 0 + 1 = 1 /\ 1 - 1 = 0
      BY <1>1
    <2> QED
      BY <1>2, <1>3, <1>5, <2>1
  <1>7. ASSUME NEW i \in 1 .. n - 1
        PROVE  q[i] = After(q[i - 1], t[i])
    <2>1. /\ i \in 0 .. n - 1 /\ i - 1 \in 0 .. n - 1 /\ i + 1 \in 1 .. n
          /\ (i - 1) + 1 = i /\ (i + 1) - 1 = i
      BY <1>1
    <2> QED
      BY <1>1, <1>3, <1>5, <2>1
  <1>8. Run(q, t, After(d, Head(p)))
    BY <1>1, <1>4, <1>6, <1>7 DEF Run
  <1>9. q[Len(t)] = r[n]
    BY <1>1, <1>5
  <1> QED
    BY <1>8, <1>9 DEF n, t

\* A key's bytes, and the driver after them.
KeyByte(k, up) == [code |-> Key[k].code, release |-> up]
AfterKey(d, k, up) == After(IF Key[k].ext THEN After(d, Extended) ELSE d, KeyByte(k, up))

LEMMA KeyByteType ==
    ASSUME NEW k \in DOMAIN Key, NEW up \in BOOLEAN
    PROVE  KeyByte(k, up) \in ByteType /\ KeyByte(k, up) # Extended /\ Extended \in ByteType
  <1>1. Key[k].code \in Nat /\ Key[k].code # 224
    BY KeyFacts DEF KeyRules
  <1>2. KeyByte(k, up) \in ByteType
    BY <1>1 DEF KeyByte, ByteType
  <1>3. KeyByte(k, up).code = Key[k].code /\ Extended.code = 224
    BY DEF KeyByte, Extended
  <1>4. Extended \in ByteType
    BY DEF Extended, ByteType
  <1> QED
    BY <1>1, <1>2, <1>3, <1>4

\* A run goes on for the bytes of a key.
LEMMA KeyRuns ==
    ASSUME KeyboardInv, NEW k \in Keys, NEW up \in BOOLEAN, Now' = Now,
           port' = port \o Bytes(k, up), Len(port) + Len(Bytes(k, up)) <= MaxPending
    PROVE  /\ port' \in Seq(ByteType) /\ Len(port') <= MaxPending
           /\ \E d, q : /\ d \in Driver
                       /\ Settled(d, held, twice, expected)
                       /\ Run(q, port', Now')
                       /\ q[Len(port')] = AfterKey(d, k, up)
  <1>1. PICK r : Run(r, port, Now) /\ Settled(r[Len(port)], held, twice, expected)
    BY DEF KeyboardInv
  <1> DEFINE b == KeyByte(k, up)
             pe == Append(port, Extended)
             d == r[Len(port)]
  <1>2. k \in DOMAIN Key /\ port \in Seq(ByteType)
    BY KeyboardAssumption DEF KeyboardInv
  <1>3. d \in Driver
    BY <1>1, <1>2 DEF Run
  <1>4. b \in ByteType /\ Extended \in ByteType
    BY <1>2, KeyByteType
  <1>5. Key[k].ext \in BOOLEAN
    BY <1>2, KeyFacts
  <1> HIDE DEF b
  <1>6. /\ port' \in Seq(ByteType)
        /\ \E q : Run(q, port', Now) /\ q[Len(port')] = AfterKey(d, k, up)
    <2>1. CASE ~Key[k].ext
      <3>1. port' = Append(port, b)
        BY <1>2, <1>4, <2>1, AppendIsConcat DEF Bytes, b, KeyByte
      <3>2. AfterKey(d, k, up) = After(d, b)
        BY <2>1 DEF AfterKey, b
      <3>3. PICK q : Run(q, Append(port, b), Now) /\ q[Len(port) + 1] = After(d, b)
        BY <1>1, <1>2, <1>4, RunGrows
      <3>4. Append(port, b) \in Seq(ByteType) /\ Len(Append(port, b)) = Len(port) + 1
        BY <1>2, <1>4, AppendProperties
      <3> QED
        BY <3>1, <3>2, <3>3, <3>4
    <2>2. CASE Key[k].ext
      <3>1. pe \in Seq(ByteType) /\ Len(pe) = Len(port) + 1
        BY <1>2, <1>4, AppendProperties
      <3>2. port' = Append(pe, b)
        <4>1. Bytes(k, up) = <<Extended>> \o <<b>>
          BY <2>2 DEF Bytes, b, KeyByte
        <4>2. pe = port \o <<Extended>> /\ Append(pe, b) = pe \o <<b>>
          BY <1>2, <1>4, <3>1, AppendIsConcat
        <4>3. <<Extended>> \in Seq(ByteType) /\ <<b>> \in Seq(ByteType)
          BY <1>4
        <4>4. (port \o <<Extended>>) \o <<b>> = port \o (<<Extended>> \o <<b>>)
          BY <1>2, <4>3, ConcatAssociative
        <4> QED
          BY <4>1, <4>2, <4>4
      <3>3. AfterKey(d, k, up) = After(After(d, Extended), b)
        BY <2>2 DEF AfterKey, b
      <3>4. PICK q : Run(q, pe, Now) /\ q[Len(port) + 1] = After(d, Extended)
        BY <1>1, <1>2, <1>4, RunGrows
      <3> HIDE DEF pe, d
      <3>5. PICK s : Run(s, Append(pe, b), Now) /\ s[Len(pe) + 1] = After(q[Len(pe)], b)
        BY <1>4, <3>1, <3>4, RunGrows
      <3>6. Append(pe, b) \in Seq(ByteType) /\ Len(Append(pe, b)) = Len(pe) + 1
        BY <1>4, <3>1, AppendProperties
      <3> QED
        BY <3>1, <3>2, <3>3, <3>4, <3>5, <3>6
    <2> QED
      BY <1>5, <2>1, <2>2
  <1>7. Len(port') <= MaxPending
    <2>1. Bytes(k, up) \in Seq(ByteType)
      BY <1>4, <1>5 DEF Bytes, b, KeyByte
    <2>2. Len(port') = Len(port) + Len(Bytes(k, up))
      BY <1>2, <2>1, ConcatProperties
    <2> QED
      BY <2>2
  <1> QED
    BY <1>1, <1>3, <1>6, <1>7

\* What a key changes in a driver that waits for nothing.
LEMMA KeyEffect ==
    ASSUME NEW d \in Driver, ~d.ext, NEW k \in DOMAIN Key, NEW up \in BOOLEAN
    PROVE  LET e == AfterKey(d, k, up)
           IN  /\ ~e.ext
               /\ e.shift = IF Key[k].mod = "shift" THEN ~up ELSE d.shift
               /\ e.ctrl = IF Key[k].mod = "ctrl" THEN ~up ELSE d.ctrl
               /\ e.alt = IF Key[k].mod = "alt" THEN ~up ELSE d.alt
               /\ up \/ k \in {"Home", "Pad8"} => e.event = d.event
  <1> DEFINE b == KeyByte(k, up)
             f == IF Key[k].ext THEN After(d, Extended) ELSE d
  <1>1. /\ f.shift = d.shift /\ f.ctrl = d.ctrl /\ f.alt = d.alt /\ f.event = d.event
        /\ f.ext = Key[k].ext
    BY KeyFacts DEF After, Driver
  <1>2. b.code = Key[k].code /\ b.release = up /\ b # Extended
    BY KeyByteType DEF KeyByte
  <1>3. AfterKey(d, k, up) = After(f, b)
    BY DEF AfterKey
  <1> HIDE DEF f, b
  <1>4. KeyRules(k)
    BY KeyFacts
  <1>5. ModOf(f, b) = Key[k].mod
    BY <1>1, <1>2, <1>4 DEF KeyRules, ModOf
  <1>6. /\ After(f, b).ext = FALSE
        /\ After(f, b).shift = Flag(f, b, "shift", f.shift)
        /\ After(f, b).ctrl = Flag(f, b, "ctrl", f.ctrl)
        /\ After(f, b).alt = Flag(f, b, "alt", f.alt)
        /\ After(f, b).event = CallOf(f, b)
    BY <1>2 DEF After
  <1>7. up \/ k \in {"Home", "Pad8"} => CallOf(f, b) = f.event
    <2>1. ASSUME k \in {"Home", "Pad8"}
          PROVE  CharOf(f, b) = 0 /\ CodeOf(f, b) = "none"
      <3>1. (Key[k].code = 71 /\ Key[k].ext) \/ (Key[k].code = 72 /\ ~Key[k].ext)
        BY <1>4, <2>1 DEF KeyRules
      <3>2. CharOf(f, b) = 0
        BY <1>1, <1>2, <3>1 DEF CharOf, SCANCODE, Control
      <3>3. CodeOf(f, b) = "none"
        BY <1>1, <1>2, <3>1 DEF CodeOf, ModOf
      <3> QED
        BY <3>2, <3>3
    <2> QED
      BY <1>2, <2>1 DEF CallOf
  <1> QED
    BY <1>1, <1>2, <1>3, <1>5, <1>6, <1>7 DEF Flag

LEMMA DownPlus ==
    ASSUME NEW keys, NEW k, NEW mod
    PROVE  Down(mod, keys \cup {k}) <=> Down(mod, keys) \/ Key[k].mod = mod
  BY DEF Down

LEMMA DownMinus ==
    ASSUME NEW keys, NEW k, NEW mod
    PROVE  /\ Key[k].mod # mod => (Down(mod, keys \ {k}) <=> Down(mod, keys))
           /\ Down(mod, keys \ {k}) => Down(mod, keys)
  BY DEF Down

\* A press that has a character or a code is answered as keyboard.h promises.
LEMMA KeyCall ==
    ASSUME NEW d \in Driver, ~d.ext, NEW k \in DOMAIN Key, k \notin {"Home", "Pad8"},
           d.shift <=> Down("shift", held), d.ctrl <=> Down("ctrl", held),
           d.alt <=> Down("alt", held)
    PROVE  AfterKey(d, k, FALSE).event = Promise(k)
  <1> DEFINE b == KeyByte(k, FALSE)
             f == IF Key[k].ext THEN After(d, Extended) ELSE d
             s == Down("shift", held \cup {k})
             c == Down("ctrl", held \cup {k})
             a == Down("alt", held \cup {k})
  <1>1. /\ f.shift = d.shift /\ f.ctrl = d.ctrl /\ f.alt = d.alt /\ f.event = d.event
        /\ f.ext = Key[k].ext
    BY KeyFacts DEF After, Driver
  <1>2. b.code = Key[k].code /\ b.release = FALSE /\ b # Extended
    BY KeyByteType DEF KeyByte
  <1>3. AfterKey(d, k, FALSE) = After(f, b)
    BY DEF AfterKey
  <1>4. d.shift \in BOOLEAN /\ d.ctrl \in BOOLEAN /\ d.alt \in BOOLEAN
    BY DEF Driver
  <1>5. KeyRules(k)
    BY KeyFacts
  <1>6. /\ s <=> Down("shift", held) \/ Key[k].mod = "shift"
        /\ c <=> Down("ctrl", held) \/ Key[k].mod = "ctrl"
        /\ a <=> Down("alt", held) \/ Key[k].mod = "alt"
    BY DownPlus
  <1>7. s \in BOOLEAN /\ c \in BOOLEAN /\ a \in BOOLEAN
    BY DEF Down
  <1> HIDE DEF f, b, s, c, a
  <1>8. ModOf(f, b) = Key[k].mod
    BY <1>1, <1>2, <1>5 DEF KeyRules, ModOf
  <1>9. /\ Flag(f, b, "shift", f.shift) = s
        /\ Flag(f, b, "ctrl", f.ctrl) = c
        /\ Flag(f, b, "alt", f.alt) = a
    BY <1>1, <1>2, <1>4, <1>6, <1>7, <1>8 DEF Flag
  <1>10. CodeOf(f, b) = CASE k = "Up" -> "KEY_UP"
                          [] k = "F1" -> "KEY_F1"
                          [] Key[k].mod = "shift" -> "KEY_SHIFT"
                          [] Key[k].mod = "ctrl"  -> "KEY_CTRL"
                          [] Key[k].mod = "alt"   -> "KEY_ALT"
                          [] OTHER -> "none"
    BY <1>1, <1>2, <1>5, <1>8 DEF KeyRules, CodeOf
  <1>11. CharOf(f, b) = CASE k = "A" -> IF c THEN 1 ELSE IF s THEN 65 ELSE 97
                          [] k = "Two" -> IF s THEN 64 ELSE 50
                          [] OTHER -> 0
    <2>1. CASE k = "A"
      <3>1. Key[k].code = 30 /\ ~Key[k].ext /\ Key[k].mod \notin {"shift", "ctrl"}
        BY <1>5, <2>1 DEF KeyRules
      <3>2. (f.ctrl <=> c) /\ (f.shift <=> s)
        BY <1>1, <1>6, <3>1
      <3> QED
        BY <1>1, <1>2, <2>1, <3>1, <3>2 DEF CharOf, SCANCODE, Control
    <2>2. CASE k = "Two"
      <3>1. Key[k].code = 3 /\ ~Key[k].ext /\ Key[k].mod \notin {"shift", "ctrl"}
        BY <1>5, <2>2 DEF KeyRules
      <3>2. (f.ctrl <=> c) /\ (f.shift <=> s)
        BY <1>1, <1>6, <3>1
      <3> QED
        BY <1>1, <1>2, <2>2, <3>1, <3>2 DEF CharOf, SCANCODE, Control
    <2>3. CASE k \notin {"A", "Two"}
      <3>1. Key[k].ext \/ Key[k].code \in {42, 54, 29, 56, 59}
        BY <1>5, <2>3 DEF KeyRules
      <3>2. CharOf(f, b) = 0
        BY <1>1, <1>2, <3>1 DEF CharOf
      <3> QED
        BY <2>3, <3>2
    <2> QED
      BY <2>1, <2>2, <2>3
  <1>12. CodeOf(f, b) # "none" \/ CharOf(f, b) # 0
    <2>1. CASE k \in {"A", "Two"}
      BY <1>11, <2>1
    <2>2. CASE k \notin {"A", "Two"}
      <3>1. \/ k = "Up" \/ k = "F1" \/ Key[k].mod = "shift" \/ Key[k].mod = "ctrl"
            \/ Key[k].mod = "alt"
        BY <1>5, <2>2 DEF KeyRules
      <3> QED
        BY <1>10, <3>1
    <2> QED
      BY <2>1, <2>2
  <1>13. CallOf(f, b) = [value |-> CharOf(f, b), code |-> CodeOf(f, b),
                         ctrl |-> c, alt |-> a, shift |-> s]
    BY <1>2, <1>9, <1>12 DEF CallOf
  <1>14. Promise(k) = [value |-> CharOf(f, b), code |-> CodeOf(f, b),
                       ctrl |-> c, alt |-> a, shift |-> s]
    BY <1>10, <1>11 DEF Promise, s, c, a
  <1>15. After(f, b).event = CallOf(f, b)
    BY <1>2 DEF After
  <1> QED
    BY <1>3, <1>13, <1>14, <1>15

LEMMA KeyboardInvGives ==
    KeyboardInv => KeyboardCorrect
  <1> SUFFICES ASSUME KeyboardInv
               PROVE  KeyboardCorrect
    OBVIOUS
  <1>1. KeyboardTypeOK
    <2>1. /\ shift_pressed \in BOOLEAN /\ ctrl_pressed \in BOOLEAN /\ alt_pressed \in BOOLEAN
          /\ extended_code \in BOOLEAN
      BY NowFields DEF KeyboardInv, Driver
    <2>2. event \in CallType
      BY NowFields DEF KeyboardInv, Driver
    <2>3. event.value \in 0 .. 127
      BY <2>2 DEF CallType
    <2>4. held \subseteq Keys /\ Len(port) <= MaxPending /\ expected.value \in 0 .. 127
      BY DEF KeyboardInv
    <2>5. flags \in BOOLEAN \X BOOLEAN \X BOOLEAN
      BY <2>1 DEF flags
    <2> QED
      BY <2>1, <2>3, <2>4, <2>5 DEF KeyboardTypeOK
  <1>2. port = <<>> => Settled(Now, held, twice, expected)
    <2> SUFFICES ASSUME port = <<>>
                 PROVE  Settled(Now, held, twice, expected)
      OBVIOUS
    <2>1. PICK r : Run(r, port, Now) /\ Settled(r[Len(port)], held, twice, expected)
      BY DEF KeyboardInv
    <2>2. Len(port) = 0
      BY EmptySeq
    <2> QED
      BY <2>1, <2>2 DEF Run
  <1>3. LastPressHeard
    BY <1>2, NowFields DEF LastPressHeard, Settled
  <1>4. PrefixConsumed
    BY <1>2, NowFields DEF PrefixConsumed, Settled
  <1>5. SingleModifiersAsHeld
    <2> SUFFICES ASSUME ~twice, port = <<>>
                 PROVE  flags = <<Down("shift", held), Down("ctrl", held), Down("alt", held)>>
      BY DEF SingleModifiersAsHeld, ModifiersAsHeld
    <2>1. /\ shift_pressed <=> Down("shift", held)
          /\ ctrl_pressed <=> Down("ctrl", held)
          /\ alt_pressed <=> Down("alt", held)
      BY <1>2, NowFields DEF Settled
    <2>2. /\ shift_pressed \in BOOLEAN /\ ctrl_pressed \in BOOLEAN /\ alt_pressed \in BOOLEAN
      BY NowFields DEF KeyboardInv, Driver
    <2>3. \A m : Down(m, held) \in BOOLEAN
      BY DEF Down
    <2>4. /\ shift_pressed = Down("shift", held)
          /\ ctrl_pressed = Down("ctrl", held)
          /\ alt_pressed = Down("alt", held)
      BY <2>1, <2>2, <2>3
    <2> QED
      BY <2>4 DEF flags
  <1>6. FlagsClear
    <2> SUFFICES ASSUME port = <<>>, held = {}
                 PROVE  flags = <<FALSE, FALSE, FALSE>>
      BY DEF FlagsClear
    <2>1. ~shift_pressed /\ ~ctrl_pressed /\ ~alt_pressed
      BY <1>2, NowFields DEF Settled, Down
    <2>2. /\ shift_pressed \in BOOLEAN /\ ctrl_pressed \in BOOLEAN /\ alt_pressed \in BOOLEAN
      BY NowFields DEF KeyboardInv, Driver
    <2>3. shift_pressed = FALSE /\ ctrl_pressed = FALSE /\ alt_pressed = FALSE
      BY <2>1, <2>2
    <2> QED
      BY <2>3 DEF flags
  <1> QED
    BY <1>1, <1>3, <1>4, <1>5, <1>6 DEF KeyboardCorrect

LEMMA KeyboardStart ==
    KeyboardInit => KeyboardInv
  <1> SUFFICES ASSUME KeyboardInit
               PROVE  KeyboardInv
    OBVIOUS
  <1>1. port \in Seq(ByteType) /\ Len(port) = 0
    BY EmptySeq DEF KeyboardInit
  <1>2. event \in CallType
    BY DEF KeyboardInit, CallType, Codes
  <1>3. Now \in Driver
    BY <1>2 DEF KeyboardInit, Now, Driver
  <1>4. Settled(Now, held, twice, expected)
    BY NowFields DEF KeyboardInit, Settled, Down
  <1> DEFINE r == [i \in 0 .. 0 |-> Now]
  <1>5. r \in [0 .. 0 -> Driver] /\ r[0] = Now
    BY <1>3
  <1>6. Run(r, port, Now) /\ Settled(r[Len(port)], held, twice, expected)
    BY <1>1, <1>4, <1>5 DEF Run
  <1>7. SingleHeld /\ twice \in BOOLEAN /\ held \subseteq Keys
    BY DEF SingleHeld, KeyboardInit
  <1>8. MaxPending \in Nat
    BY KeyboardAssumption
  <1>9. expected.value \in 0 .. 127
    BY DEF KeyboardInit
  <1> QED
    BY <1>1, <1>3, <1>6, <1>7, <1>8, <1>9 DEF KeyboardInv

LEMMA PressKeeps ==
    ASSUME KeyboardInv, NEW k \in Keys, Press(k)
    PROVE  KeyboardInv'
  <1>1. Now' = Now
    BY DEF Press, Now, flags
  <1>2. /\ port' = port \o Bytes(k, FALSE) /\ Len(port) + Len(Bytes(k, FALSE)) <= MaxPending
        /\ held' = held \cup {k} /\ k \notin held
        /\ expected' = IF k \in {"Home", "Pad8"} THEN expected ELSE Promise(k)
        /\ twice' = (twice \/ (Key[k].mod # "no" /\ Down(Key[k].mod, held)))
    BY DEF Press
  <1>3. /\ port' \in Seq(ByteType) /\ Len(port') <= MaxPending
        /\ \E d, q : /\ d \in Driver
                    /\ Settled(d, held, twice, expected)
                    /\ Run(q, port', Now')
                    /\ q[Len(port')] = AfterKey(d, k, FALSE)
    BY <1>1, <1>2, KeyRuns
  <1>4. PICK d, q : /\ d \in Driver
                    /\ Settled(d, held, twice, expected)
                    /\ Run(q, port', Now')
                    /\ q[Len(port')] = AfterKey(d, k, FALSE)
    BY <1>3
  <1> DEFINE e == AfterKey(d, k, FALSE)
  <1>5. k \in DOMAIN Key /\ ~d.ext
    BY <1>4, KeyboardAssumption DEF Settled
  <1>6. /\ ~e.ext
        /\ e.shift = IF Key[k].mod = "shift" THEN ~FALSE ELSE d.shift
        /\ e.ctrl = IF Key[k].mod = "ctrl" THEN ~FALSE ELSE d.ctrl
        /\ e.alt = IF Key[k].mod = "alt" THEN ~FALSE ELSE d.alt
        /\ k \in {"Home", "Pad8"} => e.event = d.event
    BY <1>4, <1>5, KeyEffect
  <1>7. ~twice /\ k \notin {"Home", "Pad8"} => e.event = Promise(k)
    BY <1>4, <1>5, KeyCall DEF Settled
  <1> HIDE DEF e
  <1>8. \A mod : Down(mod, held') <=> Down(mod, held) \/ Key[k].mod = mod
    BY <1>2, DownPlus
  <1>9. ~twice' => ~twice
    BY <1>2
  <1>10. Settled(e, held', twice', expected')
    BY <1>2, <1>4, <1>6, <1>7, <1>8, <1>9 DEF Settled
  <1>11. SingleHeld'
    <2> SUFFICES ASSUME ~twice', NEW x \in held', NEW y \in held',
                        Key[x].mod = Key[y].mod, Key[x].mod # "no"
                 PROVE  x = y
      BY DEF SingleHeld
    <2>1. ~twice /\ (Key[k].mod = "no" \/ ~Down(Key[k].mod, held))
      BY <1>2
    <2>2. CASE x \in held /\ y \in held
      BY <2>1, <2>2 DEF KeyboardInv, SingleHeld
    <2>3. CASE x = k \/ y = k
      BY <1>2, <2>1, <2>3 DEF Down
    <2> QED
      BY <1>2, <2>2, <2>3
  <1>12. expected'.value \in 0 .. 127
    <2>1. Promise(k).value \in 0 .. 127
      BY DEF Promise
    <2> QED
      BY <1>2, <2>1 DEF KeyboardInv
  <1>13. held' \subseteq Keys
    BY <1>2 DEF KeyboardInv
  <1>14. twice' \in BOOLEAN
    BY <1>2 DEF KeyboardInv, Down
  <1>15. Now' \in Driver
    BY <1>1 DEF KeyboardInv
  <1>16. Run(q, port', Now') /\ Settled(q[Len(port')], held', twice', expected')
    BY <1>4, <1>10 DEF e
  <1> QED
    BY <1>3, <1>11, <1>12, <1>13, <1>14, <1>15, <1>16 DEF KeyboardInv

LEMMA ReleaseKeeps ==
    ASSUME KeyboardInv, NEW k \in Keys, Release(k)
    PROVE  KeyboardInv'
  <1>1. Now' = Now
    BY DEF Release, Now, flags
  <1>2. /\ port' = port \o Bytes(k, TRUE) /\ Len(port) + Len(Bytes(k, TRUE)) <= MaxPending
        /\ k \in held /\ held' = held \ {k} /\ expected' = expected /\ twice' = twice
    BY DEF Release
  <1>3. /\ port' \in Seq(ByteType) /\ Len(port') <= MaxPending
        /\ \E d, q : /\ d \in Driver
                    /\ Settled(d, held, twice, expected)
                    /\ Run(q, port', Now')
                    /\ q[Len(port')] = AfterKey(d, k, TRUE)
    BY <1>1, <1>2, KeyRuns
  <1>4. PICK d, q : /\ d \in Driver
                    /\ Settled(d, held, twice, expected)
                    /\ Run(q, port', Now')
                    /\ q[Len(port')] = AfterKey(d, k, TRUE)
    BY <1>3
  <1> DEFINE e == AfterKey(d, k, TRUE)
  <1>5. k \in DOMAIN Key /\ ~d.ext
    BY <1>4, KeyboardAssumption DEF Settled
  <1>6. /\ ~e.ext
        /\ e.shift = IF Key[k].mod = "shift" THEN ~TRUE ELSE d.shift
        /\ e.ctrl = IF Key[k].mod = "ctrl" THEN ~TRUE ELSE d.ctrl
        /\ e.alt = IF Key[k].mod = "alt" THEN ~TRUE ELSE d.alt
        /\ e.event = d.event
    BY <1>4, <1>5, KeyEffect
  <1> HIDE DEF e
  <1>7. \A mod : /\ Key[k].mod # mod => (Down(mod, held') <=> Down(mod, held))
                 /\ Down(mod, held') => Down(mod, held)
    BY <1>2, DownMinus
  <1>8. ~twice /\ Key[k].mod # "no" => ~Down(Key[k].mod, held')
    BY <1>2 DEF KeyboardInv, SingleHeld, Down
  <1>9. Settled(e, held', twice', expected')
    BY <1>2, <1>4, <1>6, <1>7, <1>8 DEF Settled
  <1>10. SingleHeld'
    BY <1>2 DEF KeyboardInv, SingleHeld
  <1>11. /\ expected'.value \in 0 .. 127 /\ held' \subseteq Keys /\ twice' \in BOOLEAN
         /\ Now' \in Driver
    BY <1>1, <1>2 DEF KeyboardInv
  <1>12. Run(q, port', Now') /\ Settled(q[Len(port')], held', twice', expected')
    BY <1>4, <1>9 DEF e
  <1> QED
    BY <1>3, <1>10, <1>11, <1>12 DEF KeyboardInv

LEMMA HandlerKeeps ==
    ASSUME KeyboardInv, keyboard_interrupt_handler
    PROVE  KeyboardInv'
  <1>1. PICK r : Run(r, port, Now) /\ Settled(r[Len(port)], held, twice, expected)
    BY DEF KeyboardInv
  <1>2. /\ port \in Seq(ByteType) /\ port # <<>> /\ port' = Tail(port)
        /\ held' = held /\ expected' = expected /\ twice' = twice
    BY DEF KeyboardInv, keyboard_interrupt_handler
  <1>3. Now' = After(Now, Head(port))
    BY HandlerIsAfter
  <1>4. PICK q : Run(q, Tail(port), After(Now, Head(port))) /\ q[Len(Tail(port))] = r[Len(port)]
    BY <1>1, <1>2, RunDrops
  <1>5. Run(q, port', Now') /\ Settled(q[Len(port')], held', twice', expected')
    BY <1>1, <1>2, <1>3, <1>4
  <1>6. port' \in Seq(ByteType) /\ Len(port') = Len(port) - 1 /\ Len(port) \in Nat
    BY <1>2, HeadTailProperties, EmptySeq
  <1>7. Now' \in Driver
    <2>1. q \in [0 .. Len(port') -> Driver] /\ Now' = q[0]
      BY <1>5 DEF Run
    <2>2. 0 \in 0 .. Len(port')
      <3>1. Len(port') \in Nat
        BY <1>6, LenProperties
      <3> QED
        BY <3>1
    <2> QED
      BY <2>1, <2>2
  <1>8. Len(port') <= MaxPending
    BY <1>6, KeyboardAssumption DEF KeyboardInv
  <1>9. SingleHeld'
    BY <1>2 DEF KeyboardInv, SingleHeld
  <1> QED
    BY <1>2, <1>5, <1>6, <1>7, <1>8, <1>9 DEF KeyboardInv

\* Whatever keys are pressed and released, and however their codes are spread
\* over interrupts, console_interrupt (kb_process_scancode) hears what was
\* pressed: prefix bytes end, the last key comes out as the character it had
\* with the modifiers held then, the modifiers are as held as long as no two
\* keys of one were down together, and with every key up they are off, for
\* every number of bytes the controller may hold.
THEOREM KeyboardIsCorrect == KeyboardSpec => []KeyboardCorrect
  <1>1. KeyboardInit => KeyboardInv
    BY KeyboardStart
  <1>2. KeyboardInv /\ [KeyboardNext]_keyboardVars => KeyboardInv'
    <2> SUFFICES ASSUME KeyboardInv, [KeyboardNext]_keyboardVars
                 PROVE  KeyboardInv'
      OBVIOUS
    <2>1. CASE UNCHANGED keyboardVars
      BY <2>1 DEF keyboardVars, flags, KeyboardInv, Now, SingleHeld
    <2>2. CASE KeyboardNext
      BY <2>2, PressKeeps, ReleaseKeeps, HandlerKeeps DEF KeyboardNext
    <2> QED
      BY <2>1, <2>2
  <1> QED
    BY <1>1, <1>2, KeyboardInvGives, PTL DEF KeyboardSpec
-----------------------------------------------------------------------------
(* Line editor.                                                            *)

Typed == Chars \cup {ESCAPE, RUBOUT, ENTER}

\* The types, with what the sequences are made of.
EditorTypes ==
    /\ line \in Seq(Chars) /\ shown \in Seq(Chars)
    /\ history \in Seq(Seq(Chars)) /\ entered \in Seq(Seq(Chars))
    /\ escape \in Seq(Typed)
    /\ edited \in BOOLEAN
    /\ ShellLineTypeOK

\* HistoryIsTail, line by line.
HistoryTail(h, e) ==
    /\ Len(h) <= Len(e)
    /\ \A i \in 1 .. Len(h) : h[i] = e[Len(e) - Len(h) + i]
    /\ Len(h) < HISTORY_MAX => Len(h) = Len(e)

LineInv ==
    /\ EditorTypes
    /\ ScreenIsLine
    /\ HistoryTail(history, entered)
    /\ LineIsRecalled

LEMMA HistoryIsSubSeq ==
    ASSUME NEW S, NEW h \in Seq(S), NEW e \in Seq(S), HistoryTail(h, e)
    PROVE  h = SubSeq(e, Len(e) - Len(h) + 1, Len(e))
  <1> DEFINE s == SubSeq(e, Len(e) - Len(h) + 1, Len(e))
  <1>1. Len(h) \in Nat /\ Len(e) \in Nat /\ Len(h) <= Len(e)
    BY DEF HistoryTail
  <1>2. s \in Seq(S) /\ Len(s) = Len(h)
    BY <1>1
  <1>3. \A i \in 1 .. Len(h) : s[i] = h[i]
    BY <1>1, <1>2 DEF HistoryTail
  <1> HIDE DEF s
  <1>4. s = h
    BY <1>2, <1>3, SeqEqual
  <1> QED
    BY <1>4 DEF s, HistoryTail

LEMMA LineInvGives ==
    LineInv => LineCorrect
  BY HistoryIsSubSeq DEF LineInv, LineCorrect, EditorTypes, HistoryIsTail, HistoryTail

LEMMA LineStart ==
    LineInit => LineInv
  <1> SUFFICES ASSUME LineInit
               PROVE  LineInv
    OBVIOUS
  <1>1. \A S : <<>> \in Seq(S) /\ Len(<<>>) = 0
    BY EmptySeq
  <1>2. EditorTypes
    <2>1. ShellLineTypeOK
      BY <1>1, LineAssumption DEF LineInit, ShellLineTypeOK
    <2>2. edited \in BOOLEAN
      BY DEF LineInit
    <2> QED
      BY <1>1, <2>1, <2>2 DEF LineInit, EditorTypes
  <1>3. ScreenIsLine /\ HistoryTail(history, entered) /\ LineIsRecalled
    BY <1>1 DEF LineInit, ScreenIsLine, HistoryTail, LineIsRecalled
  <1> QED
    BY <1>2, <1>3 DEF LineInv

\* Erasing the whole line leaves what an entry of the history appends.
LEMMA Load ==
    ASSUME LineInv, NEW index \in 0 .. Len(history), load_history_entry(index)
    PROVE  /\ line' \in Seq(Chars) /\ Len(line') < LINE_MAX
           /\ shown' = line'
           /\ edited' = FALSE
           /\ line' = IF index = Len(history) THEN <<>> ELSE history[index + 1]
  <1> DEFINE new == IF index = Len(history) THEN <<>> ELSE history[index + 1]
  <1>1. /\ history \in Seq(Seq(Chars)) /\ line \in Seq(Chars) /\ shown = line
        /\ \A i \in DOMAIN history : Len(history[i]) \in 1 .. LINE_MAX - 1
        /\ LINE_MAX \in Nat \ {0, 1}
    BY LineAssumption DEF LineInv, EditorTypes, ShellLineTypeOK, ScreenIsLine
  <1>2. new \in Seq(Chars) /\ Len(new) < LINE_MAX
    <2>1. CASE index = Len(history)
      BY <1>1, <2>1
    <2>2. CASE index # Len(history)
      BY <1>1, <2>2
    <2> QED
      BY <2>1, <2>2
  <1>3. erase(shown, Len(line)) = <<>>
    BY <1>1 DEF erase
  <1>4. line' = new /\ shown' = <<>> \o new /\ edited' = FALSE
    BY <1>3 DEF load_history_entry
  <1> HIDE DEF new
  <1>5. <<>> \o new = new
    BY <1>2, ConcatEmptySeq
  <1>6. line' = new /\ shown' = new /\ edited' = FALSE
    BY <1>4, <1>5
  <1> QED
    BY <1>2, <1>6 DEF new

\* A step that moves in the history.
LEMMA MoveKeeps ==
    ASSUME LineInv, UNCHANGED <<history, entered>>, escape' = <<>>,
           NEW index \in 0 .. Len(history), history_pos' = index,
           load_history_entry(index)
    PROVE  LineInv'
  <1>1. /\ line' \in Seq(Chars) /\ Len(line') < LINE_MAX
        /\ shown' = line'
        /\ edited' = FALSE
        /\ line' = IF index = Len(history) THEN <<>> ELSE history[index + 1]
    BY Load
  <1>2. EditorTypes'
    <2>1. escape' \in Seq(Typed) /\ Len(escape') = 0
      BY EmptySeq
    <2>2. ShellLineTypeOK'
      BY <1>1, <2>1 DEF LineInv, EditorTypes, ShellLineTypeOK
    <2>3. edited' \in BOOLEAN
      BY <1>1
    <2> QED
      BY <1>1, <2>1, <2>2, <2>3 DEF LineInv, EditorTypes
  <1>3. ScreenIsLine' /\ LineIsRecalled'
    BY <1>1 DEF ScreenIsLine, LineIsRecalled
  <1>4. HistoryTail(history, entered)'
    BY DEF LineInv, HistoryTail
  <1> QED
    BY <1>2, <1>3, <1>4 DEF LineInv

LEMMA EscapedKeeps ==
    ASSUME LineInv, NEW c \in Typed, Escaped(c)
    PROVE  LineInv'
  <1>1. /\ escape \in Seq(Typed) /\ Len(escape) \in 0 .. 2 /\ escape # <<>>
        /\ history \in Seq(Seq(Chars)) /\ history_pos \in 0 .. Len(history)
    BY DEF LineInv, EditorTypes, ShellLineTypeOK, Escaped
  <1>2. UNCHANGED <<history, entered>>
    BY DEF Escaped
  <1>3. escape' \in Seq(Typed) /\ Len(escape') \in 0 .. 2
    <2>1. CASE Len(escape) = 1
      <3>1. escape' = Append(escape, c)
        BY <2>1 DEF Escaped
      <3>2. escape' \in Seq(Typed) /\ Len(escape') = Len(escape) + 1
        BY <1>1, <3>1, AppendProperties
      <3> QED
        BY <2>1, <3>2
    <2>2. CASE Len(escape) # 1
      BY <1>1, <2>2, EmptySeq DEF Escaped
    <2> QED
      BY <2>1, <2>2
  <1>4. CASE UNCHANGED <<line, shown, history_pos, edited>>
    BY <1>2, <1>3, <1>4 DEF LineInv, EditorTypes, ShellLineTypeOK, ScreenIsLine,
       HistoryTail, LineIsRecalled
  <1>5. CASE escape' = <<>> /\ HistoryUp
    <2>1. CASE history # <<>> /\ history_pos > 0
      <3>1. history_pos - 1 \in 0 .. Len(history)
        BY <1>1, <2>1
      <3> QED
        BY <1>2, <1>5, <2>1, <3>1, MoveKeeps DEF HistoryUp
    <2> QED
      BY <1>4, <1>5, <2>1 DEF HistoryUp
  <1>6. CASE escape' = <<>> /\ HistoryDown
    <2>1. CASE history # <<>> /\ history_pos < Len(history)
      <3>1. history_pos + 1 \in 0 .. Len(history)
        BY <1>1, <2>1
      <3> QED
        BY <1>2, <1>6, <2>1, <3>1, MoveKeeps DEF HistoryDown
    <2> QED
      BY <1>4, <1>6, <2>1 DEF HistoryDown
  <1> QED
    BY <1>4, <1>5, <1>6 DEF Escaped

\* The history after a line is entered is again the tail of what was entered.
LEMMA AddKeepsTail ==
    ASSUME NEW S, NEW l \in S, history \in Seq(S), entered \in Seq(S),
           HistoryTail(history, entered), Len(history) <= HISTORY_MAX
    PROVE  /\ history_add(l) \in Seq(S)
           /\ Len(history_add(l)) \in 1 .. HISTORY_MAX
           /\ HistoryTail(history_add(l), Append(entered, l))
           /\ \A i \in 1 .. Len(history_add(l)) :
                history_add(l)[i] = l \/ \E j \in 1 .. Len(history) : history_add(l)[i] = history[j]
  <1>1. HISTORY_MAX \in Nat \ {0} /\ Len(history) \in Nat /\ Len(entered) \in Nat
    BY LineAssumption
  <1>2. CASE Len(history) < HISTORY_MAX
    <2>1. history_add(l) = Append(history, l)
      BY <1>2 DEF history_add
    <2>2. /\ Append(history, l) \in Seq(S) /\ Len(Append(history, l)) = Len(history) + 1
          /\ \A i \in 1 .. Len(history) : Append(history, l)[i] = history[i]
          /\ Append(history, l)[Len(history) + 1] = l
      BY <1>1
    <2>3. Len(history) = Len(entered) /\ \A i \in 1 .. Len(history) : history[i] = entered[i]
      BY <1>1, <1>2 DEF HistoryTail
    <2> QED
      BY <1>1, <1>2, <2>1, <2>2, <2>3 DEF HistoryTail
  <1>3. CASE Len(history) = HISTORY_MAX
    <2>1. history_add(l) = Append(Tail(history), l)
      BY <1>1, <1>3 DEF history_add
    <2>2. /\ Tail(history) \in Seq(S) /\ Len(Tail(history)) = Len(history) - 1
          /\ \A i \in 1 .. Len(history) - 1 : Tail(history)[i] = history[i + 1]
      BY <1>1, <1>3, HeadTailProperties
    <2> DEFINE t == Tail(history)
    <2> HIDE DEF t
    <2>3. /\ Append(t, l) \in Seq(S) /\ Len(Append(t, l)) = Len(history)
          /\ \A i \in 1 .. Len(history) - 1 : Append(t, l)[i] = history[i + 1]
          /\ Append(t, l)[Len(history)] = l
      BY <1>1, <1>3, <2>2 DEF t
    <2>4. /\ Len(Append(entered, l)) = Len(entered) + 1
          /\ \A i \in 1 .. Len(entered) : Append(entered, l)[i] = entered[i]
          /\ Append(entered, l)[Len(entered) + 1] = l
      BY <1>1
    <2>5. HistoryTail(Append(t, l), Append(entered, l))
      <3>1. Len(history) <= Len(entered)
            /\ \A i \in 1 .. Len(history) : history[i] = entered[Len(entered) - Len(history) + i]
        BY DEF HistoryTail
      <3>2. ASSUME NEW i \in 1 .. Len(history)
            PROVE  Append(t, l)[i] = Append(entered, l)[Len(entered) + 1 - Len(history) + i]
        <4>1. CASE i = Len(history)
          BY <1>1, <2>3, <2>4, <4>1
        <4>2. CASE i < Len(history)
          <5>1. i + 1 \in 1 .. Len(history) /\ i \in 1 .. Len(history) - 1
            BY <1>1, <4>2
          <5>2. Append(t, l)[i] = entered[Len(entered) - Len(history) + (i + 1)]
            BY <2>3, <3>1, <5>1
          <5>3. /\ Len(entered) + 1 - Len(history) + i \in 1 .. Len(entered)
                /\ Len(entered) + 1 - Len(history) + i = Len(entered) - Len(history) + (i + 1)
            BY <1>1, <3>1, <4>2
          <5> QED
            BY <2>4, <5>2, <5>3
        <4>3. i = Len(history) \/ i < Len(history)
          BY <1>1
        <4> QED
          BY <4>1, <4>2, <4>3
      <3>3. Len(Append(t, l)) = HISTORY_MAX
        BY <1>3, <2>3
      <3>4. Len(Append(t, l)) <= Len(Append(entered, l))
        BY <1>1, <2>3, <2>4, <3>1
      <3>5. \A i \in 1 .. Len(Append(t, l)) :
              Append(t, l)[i]
                = Append(entered, l)[Len(Append(entered, l)) - Len(Append(t, l)) + i]
        <4>1. Len(Append(entered, l)) - Len(Append(t, l)) = Len(entered) + 1 - Len(history)
          BY <1>1, <2>3, <2>4
        <4>2. Len(Append(t, l)) = Len(history)
          BY <2>3
        <4> DEFINE a == Append(t, l)
                   b == Append(entered, l)
        <4> HIDE DEF a, b
        <4>3. \A i \in 1 .. Len(history) : a[i] = b[Len(entered) + 1 - Len(history) + i]
          BY <3>2 DEF a, b
        <4>4. \A i \in 1 .. Len(a) : a[i] = b[Len(b) - Len(a) + i]
          BY <4>1, <4>2, <4>3 DEF a, b
        <4> QED
          BY <4>4 DEF a, b
      <3>6. ~(Len(Append(t, l)) < HISTORY_MAX)
        BY <1>1, <3>3
      <3> QED
        BY <3>4, <3>5, <3>6 DEF HistoryTail
    <2>6. \A i \in 1 .. Len(history) :
             Append(t, l)[i] = l \/ \E j \in 1 .. Len(history) : Append(t, l)[i] = history[j]
      <3> SUFFICES ASSUME NEW i \in 1 .. Len(history), i # Len(history)
                   PROVE  i + 1 \in 1 .. Len(history) /\ Append(t, l)[i] = history[i + 1]
        BY <2>3
      <3> QED
        BY <1>1, <2>3
    <2> QED
      BY <1>1, <1>3, <2>1, <2>3, <2>5, <2>6 DEF t
  <1> QED
    BY <1>1, <1>2, <1>3

LEMMA EnterKeeps ==
    ASSUME LineInv, NEW c \in Typed, Enter(c)
    PROVE  LineInv'
  <1>1. /\ line \in Seq(Chars) /\ history \in Seq(Seq(Chars)) /\ entered \in Seq(Seq(Chars))
        /\ Len(line) < LINE_MAX /\ Len(history) <= HISTORY_MAX
        /\ \A i \in DOMAIN history : Len(history[i]) \in 1 .. LINE_MAX - 1
        /\ escape \in Seq(Typed) /\ Len(escape) \in 0 .. 2
        /\ HistoryTail(history, entered)
    BY DEF LineInv, EditorTypes, ShellLineTypeOK
  <1>2. LINE_MAX \in Nat \ {0, 1} /\ HISTORY_MAX \in Nat \ {0}
    BY LineAssumption
  <1>3. /\ line' = <<>> /\ shown' = <<>> /\ edited' = FALSE
        /\ history_pos' = Len(history') /\ escape' = escape
    BY DEF Enter, Prompt
  <1>4. /\ history' \in Seq(Seq(Chars)) /\ entered' \in Seq(Seq(Chars))
        /\ Len(history') <= HISTORY_MAX
        /\ \A i \in 1 .. Len(history') : Len(history'[i]) \in 1 .. LINE_MAX - 1
        /\ HistoryTail(history', entered')
    <2>1. CASE line = <<>>
      BY <1>1, <2>1 DEF Enter
    <2>2. CASE line # <<>>
      <3>1. history' = history_add(line) /\ entered' = Append(entered, line)
        BY <2>2 DEF Enter
      <3>2. Len(line) \in 1 .. LINE_MAX - 1
        BY <1>1, <1>2, <2>2, EmptySeq
      <3>3. /\ history_add(line) \in Seq(Seq(Chars))
            /\ Len(history_add(line)) \in 1 .. HISTORY_MAX
            /\ HistoryTail(history_add(line), Append(entered, line))
            /\ \A i \in 1 .. Len(history_add(line)) :
                 history_add(line)[i] = line
                   \/ \E j \in 1 .. Len(history) : history_add(line)[i] = history[j]
        BY <1>1, AddKeepsTail, SMTT(20)
      <3>4. Append(entered, line) \in Seq(Seq(Chars))
        BY <1>1
      <3>5. \A j \in 1 .. Len(history) : Len(history[j]) \in 1 .. LINE_MAX - 1
        <4>1. DOMAIN history = 1 .. Len(history)
          BY <1>1, LenProperties
        <4> QED
          BY <1>1, <4>1
      <3>6. \A i \in 1 .. Len(history_add(line)) :
              Len(history_add(line)[i]) \in 1 .. LINE_MAX - 1
        BY <3>2, <3>3, <3>5
      <3> QED
        BY <1>2, <3>1, <3>3, <3>4, <3>6
    <2> QED
      BY <2>1, <2>2
  <1>5. EditorTypes'
    <2>1. line' \in Seq(Chars) /\ Len(line') = 0
      BY <1>3, EmptySeq
    <2>2. DOMAIN history' = 1 .. Len(history') /\ Len(history') \in Nat
      BY <1>4
    <2>3. ShellLineTypeOK'
      BY <1>1, <1>2, <1>3, <1>4, <2>1, <2>2 DEF ShellLineTypeOK
    <2>4. edited' \in BOOLEAN /\ shown' = line'
      BY <1>3
    <2> QED
      BY <1>1, <1>3, <1>4, <2>1, <2>3, <2>4 DEF EditorTypes
  <1>6. ScreenIsLine' /\ LineIsRecalled'
    BY <1>3 DEF ScreenIsLine, LineIsRecalled
  <1> QED
    BY <1>4, <1>5, <1>6 DEF LineInv

LEMMA TypingKeeps ==
    ASSUME LineInv, NEW c \in Typed, EraseLast(c) \/ Insert(c) \/ BeginEscape(c)
    PROVE  LineInv'
  <1>1. /\ line \in Seq(Chars) /\ shown = line
        /\ Len(line) < LINE_MAX /\ LINE_MAX \in Nat \ {0, 1}
    BY LineAssumption DEF LineInv, EditorTypes, ShellLineTypeOK, ScreenIsLine
  <1>2. UNCHANGED <<history, history_pos, entered>>
        /\ escape' \in Seq(Typed) /\ Len(escape') \in 0 .. 2
    <2>1. <<ESCAPE>> \in Seq(Typed) /\ Len(<<ESCAPE>>) = 1
      BY DEF Typed
    <2>2. escape \in Seq(Typed) /\ Len(escape) \in 0 .. 2
      BY DEF LineInv, EditorTypes, ShellLineTypeOK
    <2>3. escape' = escape \/ escape' = <<ESCAPE>>
      BY DEF EraseLast, Insert, BeginEscape
    <2>4. UNCHANGED <<history, history_pos, entered>>
      BY DEF EraseLast, Insert, BeginEscape
    <2>5. CASE escape' = escape
      BY <2>2, <2>4, <2>5
    <2>6. CASE escape' = <<ESCAPE>>
      BY <2>1, <2>4, <2>6
    <2> QED
      BY <2>3, <2>5, <2>6
  <1>3. CASE UNCHANGED <<line, shown, edited>>
    BY <1>2, <1>3 DEF LineInv, EditorTypes, ShellLineTypeOK, ScreenIsLine, HistoryTail,
       LineIsRecalled
  <1>4. CASE line' \in Seq(Chars) /\ Len(line') < LINE_MAX /\ shown' = line' /\ edited' = TRUE
    BY <1>2, <1>4 DEF LineInv, EditorTypes, ShellLineTypeOK, ScreenIsLine, HistoryTail,
       LineIsRecalled
  <1>5. CASE EraseLast(c) /\ line # <<>>
    <2>1. Len(line) \in Nat \ {0}
      BY <1>1, <1>5, EmptySeq
    <2> DEFINE s == SubSeq(line, 1, Len(line) - 1)
    <2>2. s \in Seq(Chars) /\ Len(s) = Len(line) - 1
      <3>1. \A i \in 1 .. Len(line) - 1 : line[i] \in Chars
        BY <1>1, <2>1
      <3>2. Len(line) - 1 \in Int /\ 1 \in Int
        BY <2>1
      <3> DEFINE n == Len(line) - 1
      <3>3. s \in Seq(Chars) /\ Len(s) = IF 1 <= n THEN n - 1 + 1 ELSE 0
        BY <3>1, <3>2, SubSeqProperties
      <3>4. n \in Nat
        BY <2>1
      <3> HIDE DEF s, n
      <3>5. s \in Seq(Chars) /\ Len(s) = n
        BY <3>3, <3>4
      <3> QED
        BY <3>5 DEF n
    <2> QED
      BY <1>1, <1>4, <1>5, <2>1, <2>2 DEF EraseLast, Front, erase
  <1>6. CASE Insert(c) /\ Len(line) < LINE_MAX - 1
    <2>1. Append(line, c) \in Seq(Chars) /\ Len(Append(line, c)) < LINE_MAX
      BY <1>1, <1>6 DEF Insert
    <2> QED
      BY <1>1, <1>4, <1>6, <2>1 DEF Insert
  <1> QED
    BY <1>3, <1>5, <1>6 DEF EraseLast, Insert, BeginEscape

\* After every key, and every key sequence that is cut short, the line the
\* shell edits is what the screen shows, the history is the last lines that
\* were entered, and a recalled line is one of them (shell_read_line,
\* history_add), for any length of a line, size of the history and characters.
THEOREM LineIsCorrect == LineSpec => []LineCorrect
  <1>1. LineInit => LineInv
    BY LineStart
  <1>2. LineInv /\ [LineNext]_lineVars => LineInv'
    <2> SUFFICES ASSUME LineInv, [LineNext]_lineVars
                 PROVE  LineInv'
      OBVIOUS
    <2>1. CASE UNCHANGED lineVars
      BY <2>1 DEF lineVars, LineInv, EditorTypes, ShellLineTypeOK, ScreenIsLine,
         HistoryTail, LineIsRecalled
    <2>2. CASE LineNext
      <3>1. PICK c \in Typed :
              Escaped(c) \/ BeginEscape(c) \/ Enter(c) \/ EraseLast(c) \/ Insert(c)
        BY <2>2 DEF LineNext, Typed
      <3> QED
        BY <3>1, EscapedKeeps, EnterKeeps, TypingKeeps
    <2> QED
      BY <2>1, <2>2
  <1> QED
    BY <1>1, <1>2, LineInvGives, PTL DEF LineSpec

(***************************************************************************)
(* Sleeping and waking, store by store (WaitIrq).                          *)
(***************************************************************************)
\* Lists of readers.
Members(s) == {s[i] : i \in 1 .. Len(s)}
FirstOf(s) == IF s = <<>> THEN NIL ELSE s[1]
LastOf(s) == IF s = <<>> THEN NIL ELSE s[Len(s)]
NoTwice(s) == s \in Seq(Readers) /\ \A i, j \in 1 .. Len(s) : s[i] = s[j] => i = j

\* Each member of s is linked to the one after it, the last to end.
Links(next, s, end) ==
    \A i \in 1 .. Len(s) : next[s[i]] = IF i = Len(s) THEN end ELSE s[i + 1]

\* The points of the program.
Polling == {"poll", "poll_first", "poll_len", "poll_last", "poll_next", "decide"}
Pushing == {"push_next", "push_link", "push_first", "push_last", "push_len"}
Adding == {"add", "add_link", "add_tail"}
Points == {"enter", "check", "sleep", "asleep", "awake", "halt", "halted", "switch"}
            \cup Polling \cup Pushing \cup Adding

\* What the pointers hold.
Pointers == Readers \cup {NIL}

RunQueues == [first : Pointers, last : Pointers, len : Nat, next : [Tasks -> Pointers]]
WaitQueues == [head : Pointers, tail : Pointers, next : [Tasks -> Pointers],
               prev : [Tasks -> Pointers], on : SUBSET Readers]
TaskStates == {"running", "queued", "interruptible"}

\* Types, and where each of the points can be reached with which tasks.  They hold
\* whatever the interrupts do.
WaitTypes ==
    /\ state \in [Tasks -> TaskStates]
    /\ rq \in RunQueues
    /\ wq \in WaitQueues
    /\ input \in 0 .. InputMax
    /\ cur \in Tasks /\ chosen \in Tasks \cup {NIL} /\ at \in Points /\ hit \in BOOLEAN
    /\ cont \in [Tasks -> {"enter", "check", "awake", "halt"}]
    /\ \A t \in Tasks : cont[t] = "halt" <=> t = Swapper
    /\ at \in {"check", "sleep", "asleep", "awake"} \cup Adding \cup Pushing => cur # Swapper
    /\ at \in {"halt", "halted"} => cur = Swapper
    /\ at = "poll_first" => chosen \in Pointers
    /\ at \in {"poll_len", "poll_last", "poll_next"} => chosen \in Readers
    /\ at \in {"decide", "switch"} \cup Pushing => chosen \in Tasks
    /\ at \in {"poll_first", "poll_len"} => rq.len >= 1

\* The run queue lists q: without the task that has been polled as soon as the
\* first pointer has passed it, and with the one that is pushed as soon as the
\* pointers lead to it.
RunQueueIs(q) ==
    /\ NoTwice(q)
    /\ rq.first = FirstOf(q)
    /\ rq.last = IF at \in {"poll_len", "poll_last"} /\ q = <<>> THEN chosen
                 ELSE IF at = "push_first" THEN cur ELSE LastOf(q)
    /\ rq.len = IF at = "poll_len" THEN Len(q) + 1
                ELSE IF at = "push_len" THEN Len(q) - 1 ELSE Len(q)
    /\ Links(rq.next, q, IF at = "push_last" THEN cur ELSE NIL)
    /\ at \in {"push_link", "push_first", "push_last"} => rq.next[cur] = NIL
    /\ at = "poll_first" => q # <<>> /\ chosen = q[1]
    /\ at \in {"poll_last", "push_first"} => q = <<>>
    /\ at = "push_last" => q # <<>>
    /\ at = "push_len" => cur \in Members(q)

\* The wait queue lists w, without the entry that is being added.
WaitQueueIs(w) ==
    /\ NoTwice(w)
    /\ wq.head = IF at = "add_tail" /\ w = <<>> THEN cur ELSE FirstOf(w)
    /\ wq.tail = LastOf(w)
    /\ Links(wq.next, w, IF at = "add_tail" THEN cur ELSE NIL)
    /\ wq.on = Members(w) \cup IF at \in {"add_link", "add_tail"} THEN {cur} ELSE {}
    /\ at \in {"add_link", "add_tail"} => wq.next[cur] = NIL

\* Whether the running task, and the task polled, are on neither queue.
CurLoose ==
    /\ at \notin {"asleep", "push_len", "switch"}
    /\ at \in Polling => state[cur] = "running"
ChosenLoose ==
    at \in {"poll_len", "poll_last", "poll_next", "decide", "switch"} \cup Pushing

\* Every reader is in one place: in one of the queues, running, or polled.
Places(q, w) ==
    /\ \A t \in Readers : \/ t \in Members(q) \/ t \in Members(w)
                          \/ (t = cur /\ CurLoose) \/ (t = chosen /\ ChosenLoose)
    /\ Members(q) \cap Members(w) = {}
    /\ CurLoose => cur \notin Members(q) \cup Members(w)
    /\ ChosenLoose => chosen \notin Members(q) \cup Members(w)
    /\ CurLoose /\ ChosenLoose /\ chosen # Swapper => cur # chosen

\* The states of the sleeping tasks and of the running one.
StatesFit(w) ==
    /\ \A t \in Members(w) : state[t] = "interruptible"
    /\ state[Swapper] # "interruptible"
    /\ at \in {"enter", "check", "sleep", "awake", "halt", "halted"} => state[cur] = "running"
    /\ at \in Adding \cup {"asleep"} => state[cur] = "interruptible"
    /\ at \in Polling => state[cur] # "queued"
    /\ at \in Pushing => state[cur] = "queued"
    /\ at = "switch" => state[cur] # "running"

\* The idle task runs, or is about to, with an empty run queue.
IdleFits(q) ==
    /\ at \in Pushing => chosen # Swapper
    /\ at \in {"halt", "halted"} => q = <<>>
    /\ at \in {"decide", "switch"} /\ chosen = Swapper
         /\ (cur = Swapper \/ state[cur] # "running")
         => q = <<>>

\* Nobody sleeps on input.
InputFits(w) ==
    /\ at \in {"sleep"} \cup Adding => input = 0
    /\ input > 0 => w = <<>>

\* The run queue lists q and the wait queue w, and all the rest agrees with that.
InOrder(q, w) ==
    RunQueueIs(q) /\ WaitQueueIs(w) /\ Places(q, w) /\ StatesFit(w) /\ IdleFits(q) /\ InputFits(w)

\* The inductive invariant: the types, and a run queue and a wait queue in order as
\* long as no interrupt has come in a window.
WaitInv == WaitTypes /\ (~hit => \E q, w : InOrder(q, w))

\* The tasks.
LEMMA TasksAreFinite ==
    /\ Cardinality(Readers) \in Nat /\ Cardinality(Readers) >= 1
    /\ Cardinality(Tasks) \in Nat /\ Cardinality(Tasks) = Cardinality(Readers) + 1
    /\ Readers \subseteq Tasks /\ Swapper \in Tasks /\ Swapper \notin Readers
    /\ NIL \notin Tasks
  <1>1. Cardinality(Readers) \in Nat
    BY WaitAssumption, FS_CardinalityType
  <1>2. Cardinality(Readers) # 0
    BY WaitAssumption, FS_EmptySet
  <1>3. Cardinality(Tasks) = Cardinality(Readers) + 1
    BY WaitAssumption, FS_AddElement DEF Tasks
  <1>4. /\ Readers \subseteq Tasks /\ Swapper \in Tasks /\ Swapper \notin Readers
        /\ NIL \notin Tasks
    BY WaitAssumption DEF Tasks
  <1> QED
    BY <1>1, <1>2, <1>3, <1>4

\* No list of different readers is longer than there are readers.
LEMMA DistinctLen ==
    ASSUME NEW s, NoTwice(s)
    PROVE  Len(s) \in 0 .. Cardinality(Readers)
  <1>1. Len(s) \in Nat /\ s \in [1 .. Len(s) -> Readers]
    BY LenProperties DEF NoTwice
  <1>2. s \in Injection(1 .. Len(s), Readers)
    BY <1>1 DEF NoTwice, Injection, IsInjective
  <1>3. Cardinality(1 .. Len(s)) <= Cardinality(Readers)
    BY <1>2, WaitAssumption, FS_Injection
  <1>4. Cardinality(1 .. Len(s)) = Len(s)
    <2>1. PICK len \in Nat : len = Len(s)
      BY <1>1
    <2>2. Cardinality(1 .. len) = IF 1 > len THEN 0 ELSE len - 1 + 1
      BY FS_Interval
    <2> QED
      BY <2>1, <2>2
  <1> QED
    BY <1>1, <1>3, <1>4, TasksAreFinite

\* One step of Linked.
Longer(next, s) ==
    IF s = <<>> \/ next[s[Len(s)]] = NIL \/ \E i \in DOMAIN s : s[i] = next[s[Len(s)]]
    THEN s ELSE Append(s, next[s[Len(s)]])

\* Linked is what its steps lead to.
LEMMA LinkedSteps ==
    ASSUME NEW first \in Pointers, NEW next \in [Tasks -> Pointers]
    PROVE  \E f \in [0 .. Cardinality(Tasks) -> Seq(Readers)] :
             /\ f[0] = IF first = NIL THEN <<>> ELSE <<first>>
             /\ \A n \in 1 .. Cardinality(Tasks) : f[n] = Longer(next, f[n - 1])
             /\ Linked(first, next) = f[Cardinality(Tasks)]
  <1> DEFINE b == IF first = NIL THEN <<>> ELSE <<first>>
  <1>N. PICK N \in Nat : N = Cardinality(Tasks)
    BY TasksAreFinite
  <1>1. b \in Seq(Readers)
    BY DEF Pointers
  <1>2. ASSUME NEW s \in Seq(Readers) PROVE Longer(next, s) \in Seq(Readers)
    <2>1. CASE s = <<>>
      BY <2>1 DEF Longer
    <2>2. CASE s # <<>>
      <3>1. Len(s) \in 1 .. Len(s)
        BY <2>2, EmptySeq
      <3>2. s[Len(s)] \in Readers
        BY <3>1, ElementOfSeq
      <3>3. next[s[Len(s)]] \in Pointers
        BY <3>2, TasksAreFinite
      <3> QED
        BY <3>3, AppendProperties DEF Longer, Pointers
    <2> QED
      BY <2>1, <2>2
  <1>3. PICK step : step = [p \in (1 .. N) \X Seq(Readers) |-> Longer(next, p[2])]
    OBVIOUS
  <1>4. step \in [(1 .. N) \X Seq(Readers) -> Seq(Readers)]
    BY <1>2, <1>3
  <1>5. PICK f \in [0 .. N -> Seq(Readers)] :
          f[0] = b /\ \A n \in 1 .. N : f[n] = step[<<n, f[n - 1]>>]
    <2>1. PICK X : X = Seq(Readers)
      OBVIOUS
    <2> HIDE DEF b
    <2>2. b \in X /\ step \in [(1 .. N) \X X -> X]
      BY <1>1, <1>4, <2>1
    <2>3. \E f : Iterates(f, N, X, b, step)
      BY <1>N, <2>2, RecursionExists
    <2> QED
      BY <2>1, <2>3 DEF Iterates
  <1>6. \A n \in 1 .. N : n \in 0 .. N /\ n - 1 \in 0 .. N /\ n # 0
    OBVIOUS
  <1>7. \A n \in 1 .. N : f[n] = Longer(next, f[n - 1])
    BY <1>3, <1>5, <1>6
  <1> DEFINE Eq(g) == g = [n \in 0 .. Cardinality(Tasks) |->
                             IF n = 0 THEN IF first = NIL THEN <<>> ELSE <<first>>
                             ELSE LET s == g[n - 1]
                                  IN  IF s = <<>> \/ next[s[Len(s)]] = NIL
                                         \/ \E i \in DOMAIN s : s[i] = next[s[Len(s)]]
                                      THEN s ELSE Append(s, next[s[Len(s)]])]
             g == CHOOSE g : Eq(g)
  <1>8. \A h : Eq(h) <=> h = [n \in 0 .. N |-> IF n = 0 THEN b ELSE Longer(next, h[n - 1])]
    BY <1>N DEF Longer
  <1>9. Eq(f)
    <2>1. \A n \in 0 .. N : f[n] = IF n = 0 THEN b ELSE Longer(next, f[n - 1])
      <3>1. \A n \in 0 .. N : n # 0 => n \in 1 .. N
        OBVIOUS
      <3> HIDE DEF b
      <3> QED
        BY <1>5, <1>7, <3>1
    <2>2. f = [n \in 0 .. N |-> IF n = 0 THEN b ELSE Longer(next, f[n - 1])]
      <3> HIDE DEF b
      <3> QED
        BY <2>1
    <2> HIDE DEF Eq, b
    <2> QED
      BY <1>8, <2>2
  <1>10. Eq(g)
    <2> HIDE DEF Eq
    <2> QED
      BY <1>9
  <1>11. Linked(first, next) = g[Cardinality(Tasks)]
    BY DEF Linked
  <1>12. g = [n \in 0 .. N |-> IF n = 0 THEN b ELSE Longer(next, g[n - 1])]
    <2> HIDE DEF Eq, b, g
    <2> QED
      BY <1>8, <1>10
  <1> HIDE DEF g, Eq
  <1>13. g[0] = b /\ \A n \in 1 .. N : g[n] = Longer(next, g[n - 1])
    <2>1. 0 \in 0 .. N
      OBVIOUS
    <2>2. \A n \in 0 .. N : g[n] = IF n = 0 THEN b ELSE Longer(next, g[n - 1])
      BY <1>12
    <2> HIDE DEF b
    <2> QED
      BY <1>6, <2>1, <2>2
  <1>14. g \in [0 .. N -> Seq(Readers)]
    <2> DEFINE T == {n \in 0 .. N : g[n] \in Seq(Readers)}
    <2>1. 0 \in T
      <3>1. 0 \in 0 .. N
        OBVIOUS
      <3> HIDE DEF b
      <3> QED
        BY <1>1, <1>13, <3>1
    <2>2. ASSUME NEW n \in 1 .. N, n - 1 \in T PROVE n \in T
      BY <1>2, <1>6, <1>13, <2>2
    <2>3. \A n \in 0 .. N : n \in T
      <3> HIDE DEF T
      <3> QED
        BY <2>1, <2>2, CountUp
    <2>4. \A n \in 0 .. N : g[n] \in Seq(Readers)
      BY <2>3
    <2>5. PICK h : h = [n \in 0 .. N |-> IF n = 0 THEN b ELSE Longer(next, g[n - 1])]
      OBVIOUS
    <2>6. g = h /\ DOMAIN h = 0 .. N
      BY <1>12, <2>5
    <2> QED
      BY <2>4, <2>5, <2>6
  <1> QED
    BY <1>N, <1>11, <1>13, <1>14

\* Links lead to readers, in whatever state an interrupt has left them.
LEMMA LinkedType ==
    ASSUME NEW first \in Pointers, NEW next \in [Tasks -> Pointers]
    PROVE  Linked(first, next) \in Seq(Readers)
  <1>1. PICK f \in [0 .. Cardinality(Tasks) -> Seq(Readers)] :
          Linked(first, next) = f[Cardinality(Tasks)]
    BY LinkedSteps
  <1>2. Cardinality(Tasks) \in 0 .. Cardinality(Tasks)
    BY TasksAreFinite
  <1> QED
    BY <1>1, <1>2

\* A list whose links are in order is what is found along them.
LEMMA LinkedIs ==
    ASSUME NEW s, NoTwice(s), NEW next \in [Tasks -> Pointers], Links(next, s, NIL)
    PROVE  Linked(FirstOf(s), next) = s
  <1>1. /\ Len(s) \in Nat /\ s \in [1 .. Len(s) -> Readers] /\ s \in Seq(Readers)
        /\ Len(s) = 0 <=> s = <<>>
    BY LenProperties, EmptySeq DEF NoTwice
  <1>2. FirstOf(s) \in Pointers
    BY <1>1 DEF FirstOf, Pointers
  <1>N. PICK N \in Nat : N = Cardinality(Tasks)
    BY TasksAreFinite
  <1>3. PICK f \in [0 .. N -> Seq(Readers)] :
          /\ f[0] = IF FirstOf(s) = NIL THEN <<>> ELSE <<FirstOf(s)>>
          /\ \A n \in 1 .. N : f[n] = Longer(next, f[n - 1])
          /\ Linked(FirstOf(s), next) = f[N]
    BY <1>2, <1>N, LinkedSteps
  <1>4. Len(s) < N
    BY <1>N, DistinctLen, TasksAreFinite
  <1>5. CASE s = <<>>
    <2> DEFINE T == {n \in 0 .. N : f[n] = <<>>}
    <2>1. 0 \in T
      BY <1>3, <1>5 DEF FirstOf
    <2>2. ASSUME NEW n \in 1 .. N, n - 1 \in T PROVE n \in T
      BY <1>3, <2>2 DEF Longer
    <2>3. \A n \in 0 .. N : n \in T
      <3> HIDE DEF T
      <3> QED
        BY <2>1, <2>2, CountUp
    <2> QED
      BY <1>3, <1>5, <2>3
  <1>6. CASE s # <<>>
    <2>1. \A i \in 1 .. Len(s) : s[i] \in Readers /\ s[i] # NIL
      BY <1>1, TasksAreFinite
    <2>2. Len(s) >= 1
      BY <1>1, <1>6
    <2>3. FirstOf(s) = s[1] /\ s[1] # NIL /\ s[1] \in Readers
      BY <1>6, <2>1, <2>2 DEF FirstOf
    <2> DEFINE k(n) == IF n < Len(s) THEN n + 1 ELSE Len(s)
               Prefix(t, m) == t \in Seq(Readers) /\ Len(t) = m /\ \A i \in 1 .. m : t[i] = s[i]
               T == {n \in 0 .. N : Prefix(f[n], k(n))}
    <2>4. 0 \in T
      <3>1. f[0] = <<s[1]>>
        BY <1>3, <2>3
      <3>2. 0 \in 0 .. N /\ k(0) = 1
        BY <1>1, <2>2
      <3>3. Prefix(<<s[1]>>, 1)
        BY <2>3
      <3> HIDE DEF k, Prefix
      <3> QED
        BY <3>1, <3>2, <3>3
    <2>5. ASSUME NEW t, NEW m \in 1 .. Len(s), Prefix(t, m)
          PROVE  Prefix(Longer(next, t), IF m < Len(s) THEN m + 1 ELSE m)
      <3>1. t # <<>> /\ t[Len(t)] = s[m]
        BY <2>5
      <3>2. CASE m = Len(s)
        <4>1. next[s[m]] = NIL
          BY <3>2 DEF Links
        <4> QED
          BY <2>5, <3>1, <3>2, <4>1 DEF Longer
      <3>3. CASE m < Len(s)
        <4>1. next[s[m]] = s[m + 1]
          BY <3>3 DEF Links
        <4>2. m + 1 \in 1 .. Len(s) /\ s[m + 1] # NIL /\ s[m + 1] \in Readers
          BY <2>1, <3>3
        <4>3. DOMAIN t = 1 .. m
          BY <2>5
        <4>4. \A i \in DOMAIN t : t[i] # s[m + 1]
          <5> SUFFICES ASSUME NEW i \in 1 .. m, s[i] = s[m + 1] PROVE FALSE
            BY <2>5, <4>3
          <5>1. i \in 1 .. Len(s) /\ i # m + 1
            BY <3>3
          <5> QED
            BY <4>2, <5>1 DEF NoTwice
        <4>5. Longer(next, t) = Append(t, s[m + 1])
          BY <3>1, <4>1, <4>2, <4>4 DEF Longer
        <4>6. /\ Append(t, s[m + 1]) \in Seq(Readers) /\ Len(Append(t, s[m + 1])) = m + 1
              /\ \A i \in 1 .. m + 1 : Append(t, s[m + 1])[i] = IF i = m + 1 THEN s[m + 1] ELSE t[i]
          BY <2>5, <4>2, AppendProperties
        <4>7. \A i \in 1 .. m + 1 : i # m + 1 => i \in 1 .. m
          OBVIOUS
        <4> QED
          BY <2>5, <3>3, <4>5, <4>6, <4>7
      <3> QED
        BY <3>2, <3>3
    <2>6. ASSUME NEW n \in 1 .. N, n - 1 \in T PROVE n \in T
      <3>1. k(n - 1) \in 1 .. Len(s)
              /\ k(n) = IF k(n - 1) < Len(s) THEN k(n - 1) + 1 ELSE k(n - 1)
        <4>1. n \in Nat /\ n >= 1
          OBVIOUS
        <4>2. k(n - 1) = (IF n <= Len(s) THEN n ELSE Len(s))
              /\ k(n) = (IF n < Len(s) THEN n + 1 ELSE Len(s))
          BY <1>1, <4>1
        <4> HIDE DEF k
        <4>3. CASE n < Len(s)
          BY <1>1, <4>1, <4>2, <4>3
        <4>4. CASE ~(n < Len(s))
          BY <1>1, <2>2, <4>1, <4>2, <4>4
        <4> QED
          BY <4>3, <4>4
      <3>2. Prefix(f[n - 1], k(n - 1)) /\ f[n] = Longer(next, f[n - 1]) /\ n \in 0 .. N
        BY <2>6, <1>3
      <3> HIDE DEF Prefix, k
      <3>3. Prefix(f[n], k(n))
        BY <2>5, <3>1, <3>2
      <3> QED
        BY <3>2, <3>3
    <2>7. \A n \in 0 .. N : n \in T
      <3> HIDE DEF T
      <3> QED
        BY <2>4, <2>6, CountUp
    <2>8. N \in 0 .. N /\ k(N) = Len(s)
      <3>1. N \in 0 .. N
        OBVIOUS
      <3>2. ~(N < Len(s))
        BY <1>1, <1>4
      <3> QED
        BY <3>1, <3>2
    <2>9. Prefix(f[N], Len(s))
      <3> HIDE DEF Prefix, k
      <3> QED
        BY <2>7, <2>8
    <2> QED
      BY <1>1, <1>3, <2>9, SeqEqual
  <1> QED
    BY <1>5, <1>6

\* What run_queue_push does.
Pushed(r, t, p) ==
    /\ p \in RunQueues /\ p.len = r.len + 1
    /\ r.len = 0 => p.first = t /\ p.last = t /\ p.next = [r.next EXCEPT ![t] = NIL]
    /\ r.len # 0 /\ r.last # NIL =>
         /\ p.first = r.first /\ p.last = t
         /\ p.next = [[r.next EXCEPT ![t] = NIL] EXCEPT ![r.last] = t]

LEMMA PushEffect ==
    ASSUME NEW r \in RunQueues, NEW t \in Readers
    PROVE  Pushed(r, t, run_queue_push(r, t))
  <1>1. t \in Tasks /\ t \in Pointers /\ NIL \in Pointers
    BY TasksAreFinite DEF Pointers
  <1>2. r.last # NIL => r.last \in Tasks
    BY TasksAreFinite DEF RunQueues, Pointers
  <1>3. PICK s : s = [r EXCEPT !.next[t] = NIL]
    OBVIOUS
  <1>4. /\ s \in RunQueues /\ s.len = r.len /\ s.first = r.first /\ s.last = r.last
        /\ s.next = [r.next EXCEPT ![t] = NIL]
    BY <1>1, <1>3 DEF RunQueues
  <1>p. PICK p : p = run_queue_push(r, t)
    OBVIOUS
  <1>5. p = [(IF s.len = 0 THEN [s EXCEPT !.first = t, !.last = t]
              ELSE IF s.last = NIL THEN s
              ELSE [s EXCEPT !.next[s.last] = t, !.last = t]) EXCEPT !.len = @ + 1]
    BY <1>3, <1>p DEF run_queue_push
  <1>6. CASE s.len = 0
    <2>1. PICK w : w = [s EXCEPT !.first = t, !.last = t]
      OBVIOUS
    <2>2. p = [w EXCEPT !.len = @ + 1]
      BY <1>5, <1>6, <2>1
    <2>3. /\ w \in RunQueues /\ w.len = s.len /\ w.last = t
          /\ w.first = t
          /\ w.next = s.next
      BY <1>1, <1>2, <1>4, <1>6, <2>1 DEF RunQueues
    <2>4. /\ p \in RunQueues /\ p.len = s.len + 1 /\ p.last = t
          /\ p.first = w.first /\ p.next = w.next
      BY <2>2, <2>3 DEF RunQueues
    <2> QED
      BY <1>4, <1>p, <1>6, <2>3, <2>4 DEF Pushed
  <1>7. CASE s.len # 0 /\ s.last = NIL
    <2>1. p = [s EXCEPT !.len = @ + 1]
      BY <1>5, <1>7
    <2> QED
      BY <1>1, <1>4, <1>7, <1>p, <2>1 DEF RunQueues, Pushed
  <1>8. CASE s.len # 0 /\ s.last # NIL
    <2>1. PICK w : w = [s EXCEPT !.next[s.last] = t, !.last = t]
      OBVIOUS
    <2>2. p = [w EXCEPT !.len = @ + 1]
      BY <1>5, <1>8, <2>1
    <2>3. /\ w \in RunQueues /\ w.len = s.len /\ w.last = t
          /\ w.first = s.first
          /\ w.next = [s.next EXCEPT ![s.last] = t]
      BY <1>1, <1>2, <1>4, <1>8, <2>1 DEF RunQueues
    <2>4. /\ p \in RunQueues /\ p.len = s.len + 1 /\ p.last = t
          /\ p.first = w.first /\ p.next = w.next
      BY <2>2, <2>3 DEF RunQueues
    <2> QED
      BY <1>4, <1>p, <1>8, <2>3, <2>4 DEF Pushed
  <1> QED
    BY <1>6, <1>7, <1>8

\* One step of wakeup.
Woken(r, t) == IF state[t] = "interruptible" THEN run_queue_push(r, t) ELSE r

\* wakeup is what its steps lead to.
LEMMA WakeupSteps ==
    ASSUME NEW r \in RunQueues, NEW list \in Seq(Readers)
    PROVE  \E f \in [0 .. Len(list) -> RunQueues] :
             /\ f[0] = r
             /\ \A n \in 1 .. Len(list) : f[n] = Woken(f[n - 1], list[n])
             /\ wakeup(r, list) = f[Len(list)]
  <1>N. PICK N \in Nat : N = Len(list)
    OBVIOUS
  <1>1. \A n \in 1 .. N : list[n] \in Readers
    BY <1>N
  <1>2. ASSUME NEW s \in RunQueues, NEW t \in Readers PROVE Woken(s, t) \in RunQueues
    BY PushEffect DEF Woken, Pushed
  <1>3. PICK step : step = [p \in (1 .. N) \X RunQueues |-> Woken(p[2], list[p[1]])]
    OBVIOUS
  <1>4. step \in [(1 .. N) \X RunQueues -> RunQueues]
    BY <1>1, <1>2, <1>3
  <1>5. PICK f \in [0 .. N -> RunQueues] :
          f[0] = r /\ \A n \in 1 .. N : f[n] = step[<<n, f[n - 1]>>]
    <2>1. PICK X : X = RunQueues
      OBVIOUS
    <2>2. r \in X /\ step \in [(1 .. N) \X X -> X]
      BY <1>4, <2>1
    <2>3. \E f : Iterates(f, N, X, r, step)
      BY <1>N, <2>2, RecursionExists
    <2> QED
      BY <2>1, <2>3 DEF Iterates
  <1>6. \A n \in 1 .. N : n \in 0 .. N /\ n - 1 \in 0 .. N /\ n # 0
    OBVIOUS
  <1>7. \A n \in 1 .. N : f[n] = Woken(f[n - 1], list[n])
    BY <1>3, <1>5, <1>6
  <1> DEFINE Eq(g) == g = [n \in 0 .. Len(list) |->
                             IF n = 0 THEN r
                             ELSE IF state[list[n]] = "interruptible"
                                  THEN run_queue_push(g[n - 1], list[n])
                                  ELSE g[n - 1]]
             g == CHOOSE g : Eq(g)
  <1>8. \A h : Eq(h) <=> h = [n \in 0 .. N |-> IF n = 0 THEN r ELSE Woken(h[n - 1], list[n])]
    BY <1>N DEF Woken
  <1>9. Eq(f)
    <2>1. \A n \in 0 .. N : f[n] = IF n = 0 THEN r ELSE Woken(f[n - 1], list[n])
      <3>1. \A n \in 0 .. N : n # 0 => n \in 1 .. N
        OBVIOUS
      <3> QED
        BY <1>5, <1>7, <3>1
    <2>2. f = [n \in 0 .. N |-> IF n = 0 THEN r ELSE Woken(f[n - 1], list[n])]
      BY <2>1
    <2> HIDE DEF Eq
    <2> QED
      BY <1>8, <2>2
  <1>10. Eq(g)
    <2> HIDE DEF Eq
    <2> QED
      BY <1>9
  <1>11. wakeup(r, list) = g[Len(list)]
    BY DEF wakeup
  <1>12. g = [n \in 0 .. N |-> IF n = 0 THEN r ELSE Woken(g[n - 1], list[n])]
    <2> HIDE DEF Eq, g
    <2> QED
      BY <1>8, <1>10
  <1> HIDE DEF g, Eq
  <1>13. g[0] = r /\ \A n \in 1 .. N : g[n] = Woken(g[n - 1], list[n])
    <2>1. 0 \in 0 .. N
      OBVIOUS
    <2>2. \A n \in 0 .. N : g[n] = IF n = 0 THEN r ELSE Woken(g[n - 1], list[n])
      BY <1>12
    <2> QED
      BY <1>6, <2>1, <2>2
  <1>14. g \in [0 .. N -> RunQueues]
    <2> DEFINE T == {n \in 0 .. N : g[n] \in RunQueues}
    <2>1. 0 \in T
      <3>1. 0 \in 0 .. N
        OBVIOUS
      <3> QED
        BY <1>13, <3>1
    <2>2. ASSUME NEW n \in 1 .. N, n - 1 \in T PROVE n \in T
      BY <1>1, <1>2, <1>6, <1>13, <2>2
    <2>3. \A n \in 0 .. N : n \in T
      <3> HIDE DEF T
      <3> QED
        BY <2>1, <2>2, CountUp
    <2>4. \A n \in 0 .. N : g[n] \in RunQueues
      BY <2>3
    <2>5. PICK h : h = [n \in 0 .. N |-> IF n = 0 THEN r ELSE Woken(g[n - 1], list[n])]
      OBVIOUS
    <2>6. g = h /\ DOMAIN h = 0 .. N
      BY <1>12, <2>5
    <2> QED
      BY <2>4, <2>5, <2>6
  <1> QED
    BY <1>N, <1>11, <1>13, <1>14

\* Whatever list it gets, wakeup leaves a run queue that has not become shorter.
LEMMA WakeupType ==
    ASSUME NEW r \in RunQueues, NEW list \in Seq(Readers)
    PROVE  wakeup(r, list) \in RunQueues /\ wakeup(r, list).len >= r.len
  <1>N. PICK N \in Nat : N = Len(list)
    OBVIOUS
  <1>1. PICK f \in [0 .. N -> RunQueues] :
             /\ f[0] = r
             /\ \A n \in 1 .. N : f[n] = Woken(f[n - 1], list[n])
             /\ wakeup(r, list) = f[N]
    BY <1>N, WakeupSteps
  <1> DEFINE T == {n \in 0 .. N : f[n].len >= r.len}
  <1>2. \A s \in RunQueues : s.len \in Nat
    BY DEF RunQueues
  <1>3. 0 \in T
    <2>1. 0 \in 0 .. N
      OBVIOUS
    <2> QED
      BY <1>1, <1>2, <2>1
  <1>4. ASSUME NEW n \in 1 .. N, n - 1 \in T PROVE n \in T
    <2>1. n \in 0 .. N /\ n - 1 \in 0 .. N /\ list[n] \in Readers
      BY <1>N
    <2>2. PICK s \in RunQueues : s = f[n - 1]
      BY <2>1
    <2>3. f[n] = Woken(s, list[n])
      BY <1>1, <2>2
    <2>4. f[n].len >= s.len
      <3>1. CASE f[n] = s
        BY <1>2, <3>1
      <3>2. CASE f[n] = run_queue_push(s, list[n])
        <4>1. Pushed(s, list[n], f[n])
          BY <2>1, <3>2, PushEffect
        <4>2. f[n].len = s.len + 1
          BY <4>1 DEF Pushed
        <4> QED
          BY <1>2, <4>2
      <3> QED
        BY <2>3, <3>1, <3>2 DEF Woken
    <2>5. f[n].len \in Nat /\ s.len \in Nat /\ r.len \in Nat /\ s.len >= r.len
      BY <1>2, <1>4, <2>1, <2>2
    <2>6. f[n].len >= r.len
      BY <2>4, <2>5
    <2> QED
      BY <2>1, <2>6
  <1>5. N \in 0 .. N
    OBVIOUS
  <1>6. \A n \in 0 .. N : n \in T
    <2> HIDE DEF T
    <2> QED
      BY <1>3, <1>4, CountUp
  <1> QED
    BY <1>1, <1>5, <1>6

\* r lists the first k tasks of v; its length is d more than that while a poll
\* or a push is under way.
Lists(r, v, k, d) ==
    /\ r.first = IF k = 0 THEN NIL ELSE v[1]
    /\ r.last = IF k = 0 THEN NIL ELSE v[k]
    /\ r.len = k + d /\ (r.len = 0 <=> k = 0)
    /\ \A i \in 1 .. k : r.next[v[i]] = IF i = k THEN NIL ELSE v[i + 1]

\* The tasks outside s keep their links.
Keeps(old, new, s) == \A t \in Tasks : t \notin Members(s) => new[t] = old[t]

\* run_queue_push takes the next task of the list.
LEMMA PushLists ==
    ASSUME NEW v, NoTwice(v), NEW k \in 0 .. Len(v) - 1, NEW d \in Int,
           NEW r \in RunQueues, Lists(r, v, k, d)
    PROVE  /\ Lists(run_queue_push(r, v[k + 1]), v, k + 1, d)
           /\ Keeps(r.next, run_queue_push(r, v[k + 1]).next, v)
  <1>1. Len(v) \in Nat /\ \A i \in 1 .. Len(v) : v[i] \in Readers /\ v[i] \in Tasks /\ v[i] # NIL
    BY LenProperties, TasksAreFinite DEF NoTwice
  <1>2. k + 1 \in 1 .. Len(v) /\ k \in 0 .. Len(v) /\ k \in Nat
    BY <1>1
  <1>3. PICK t \in Readers : t = v[k + 1]
    BY <1>1, <1>2
  <1>4. PICK p : p = run_queue_push(r, t)
    OBVIOUS
  <1>5. /\ p \in RunQueues /\ p.len = r.len + 1
        /\ r.len = 0 => p.first = t /\ p.last = t /\ p.next = [r.next EXCEPT ![t] = NIL]
        /\ r.len # 0 /\ r.last # NIL =>
             /\ p.first = r.first /\ p.last = t
             /\ p.next = [[r.next EXCEPT ![t] = NIL] EXCEPT ![r.last] = t]
    BY <1>4, PushEffect DEF Pushed
  <1>6. r.next \in [Tasks -> Pointers] /\ r.len \in Nat /\ p.next \in [Tasks -> Pointers]
    BY <1>5 DEF RunQueues
  <1>7. \A i \in 1 .. Len(v) : v[i] \in Members(v)
    BY DEF Members
  <1>8. CASE k = 0
    <2>1. r.len = 0 /\ d = 0
      BY <1>8 DEF Lists
    <2>2. \A i \in 1 .. 1 : i = 1
      OBVIOUS
    <2>3. p.next[t] = NIL
      BY <1>1, <1>3, <1>5, <1>6, <2>1
    <2>4. Lists(p, v, 1, 0)
      BY <1>3, <1>5, <1>8, <2>1, <2>2, <2>3 DEF Lists
    <2>5. Keeps(r.next, p.next, v)
      BY <1>2, <1>3, <1>5, <1>6, <1>7, <2>1 DEF Keeps
    <2> QED
      BY <1>3, <1>4, <1>8, <2>1, <2>4, <2>5
  <1>9. CASE k # 0
    <2>1. k \in 1 .. Len(v) /\ r.last = v[k] /\ r.len # 0 /\ r.len = k + d
      BY <1>2, <1>9 DEF Lists
    <2>2. r.last # NIL /\ r.last \in Tasks /\ r.last # t
      BY <1>1, <1>2, <1>3, <2>1 DEF NoTwice
    <2>3. p.next = [[r.next EXCEPT ![t] = NIL] EXCEPT ![r.last] = t] /\ p.first = r.first
            /\ p.last = t
      BY <1>5, <2>1, <2>2
    <2>4. ASSUME NEW i \in 1 .. k + 1
          PROVE  p.next[v[i]] = IF i = k + 1 THEN NIL ELSE v[i + 1]
      <3>1. i \in 1 .. Len(v) /\ v[i] \in Tasks
        BY <1>1, <1>2
      <3>2. CASE i = k + 1
        BY <1>3, <1>6, <2>2, <2>3, <3>1, <3>2
      <3>3. CASE i = k
        <4>1. v[i] = r.last /\ i # k + 1
          BY <2>1, <3>3
        <4> QED
          BY <1>3, <1>6, <2>2, <2>3, <3>1, <3>3, <4>1
      <3>4. CASE i # k + 1 /\ i # k
        <4>1. v[i] # t /\ v[i] # r.last
          BY <1>2, <1>3, <2>1, <3>1, <3>4 DEF NoTwice
        <4>2. i \in 1 .. k
          BY <3>4
        <4>3. r.next[v[i]] = v[i + 1]
          BY <3>4, <4>2 DEF Lists
        <4>4. p.next[v[i]] = r.next[v[i]]
          BY <1>6, <2>3, <3>1, <4>1
        <4> QED
          BY <3>4, <4>3, <4>4
      <3> QED
        BY <3>2, <3>3, <3>4
    <2>5. p.first = v[1] /\ k + 1 # 0 /\ p.len = k + 1 + d /\ p.len # 0
      BY <1>5, <1>6, <1>9, <2>1, <2>3 DEF Lists
    <2>6. Lists(p, v, k + 1, d)
      BY <1>3, <2>3, <2>4, <2>5 DEF Lists
    <2>7. Keeps(r.next, p.next, v)
      BY <1>2, <1>3, <1>6, <1>7, <2>1, <2>3 DEF Keeps
    <2> QED
      BY <1>3, <1>4, <2>6, <2>7
  <1> QED
    BY <1>8, <1>9

\* All the sleepers go to the end of the run queue, in the order they slept in.
LEMMA WakeupLists ==
    ASSUME NEW v, NoTwice(v), NEW list \in Seq(Readers), NEW k \in Nat,
           Len(v) = k + Len(list), \A n \in 1 .. Len(list) : list[n] = v[k + n],
           \A n \in 1 .. Len(list) : state[list[n]] = "interruptible",
           NEW d \in Int, NEW r \in RunQueues, Lists(r, v, k, d)
    PROVE  /\ Lists(wakeup(r, list), v, Len(v), d)
           /\ Keeps(r.next, wakeup(r, list).next, v)
  <1>N. PICK N \in Nat : N = Len(list)
    OBVIOUS
  <1>1. PICK f \in [0 .. N -> RunQueues] :
             /\ f[0] = r
             /\ \A n \in 1 .. N : f[n] = Woken(f[n - 1], list[n])
             /\ wakeup(r, list) = f[N]
    BY <1>N, WakeupSteps
  <1> DEFINE Holds(n) == Lists(f[n], v, k + n, d) /\ Keeps(r.next, f[n].next, v)
             T == {n \in 0 .. N : Holds(n)}
  <1>2. 0 \in T
    <2>1. 0 \in 0 .. N /\ k + 0 = k
      OBVIOUS
    <2>2. Keeps(r.next, r.next, v)
      BY DEF Keeps
    <2> QED
      BY <1>1, <2>1, <2>2
  <1>3. ASSUME NEW n \in 1 .. N, n - 1 \in T PROVE n \in T
    <2>1. n \in 0 .. N /\ n - 1 \in 0 .. N /\ n \in 1 .. Len(list)
      BY <1>N
    <2>2. PICK s \in RunQueues : s = f[n - 1]
      BY <2>1
    <2>3. PICK j \in 0 .. Len(v) - 1 : j = k + (n - 1) /\ j + 1 = k + n
      <3>1. k + (n - 1) \in Nat /\ (k + (n - 1)) + 1 = k + n /\ Len(v) = k + N /\ n <= N
        BY <1>N
      <3>2. k + (n - 1) \in 0 .. Len(v) - 1
        BY <3>1
      <3> QED
        BY <3>1, <3>2
    <2>4. Lists(s, v, j, d) /\ Keeps(r.next, s.next, v)
      BY <1>3, <2>2, <2>3
    <2>5. f[n] = run_queue_push(s, v[j + 1])
      BY <1>1, <2>1, <2>2, <2>3 DEF Woken
    <2>6. Lists(f[n], v, j + 1, d) /\ Keeps(s.next, f[n].next, v)
      <3>1. PICK g : g = run_queue_push(s, v[j + 1])
        OBVIOUS
      <3>2. Lists(g, v, j + 1, d) /\ Keeps(s.next, g.next, v)
        <4>1. NoTwice(v) /\ d \in Int
          OBVIOUS
        <4> QED
          BY <2>4, <3>1, <4>1, PushLists
      <3> QED
        BY <2>5, <3>1, <3>2
    <2>7. Keeps(r.next, f[n].next, v)
      BY <2>4, <2>6 DEF Keeps
    <2> QED
      BY <2>1, <2>3, <2>6, <2>7
  <1>4. N \in 0 .. N /\ k + N = Len(v)
    BY <1>N
  <1>5. \A n \in 0 .. N : n \in T
    <2> HIDE DEF T
    <2> QED
      BY <1>2, <1>3, CountUp
  <1>6. Holds(N)
    BY <1>4, <1>5
  <1> QED
    BY <1>1, <1>4, <1>6

\* The first, the last and the members of a list.
LEMMA ListFacts ==
    ASSUME NEW s, NoTwice(s)
    PROVE  /\ s \in Seq(Readers) /\ Len(s) \in Nat /\ (Len(s) = 0 <=> s = <<>>)
           /\ \A i \in 1 .. Len(s) : s[i] \in Readers /\ s[i] \in Tasks /\ s[i] # NIL
                /\ s[i] \in Members(s)
           /\ Members(s) \subseteq Readers
           /\ FirstOf(s) \in Pointers /\ LastOf(s) \in Pointers
           /\ FirstOf(s) = NIL <=> s = <<>>
           /\ LastOf(s) = NIL <=> s = <<>>
           /\ s # <<>> => 1 \in 1 .. Len(s) /\ Len(s) \in 1 .. Len(s)
                            /\ FirstOf(s) = s[1] /\ LastOf(s) = s[Len(s)]
                            /\ LastOf(s) \in Members(s) /\ FirstOf(s) \in Members(s)
  <1>1. s \in Seq(Readers) /\ Len(s) \in Nat /\ (Len(s) = 0 <=> s = <<>>)
    BY LenProperties, EmptySeq DEF NoTwice
  <1>2. \A i \in 1 .. Len(s) : s[i] \in Readers /\ s[i] \in Tasks /\ s[i] # NIL
          /\ s[i] \in Members(s)
    BY <1>1, LenProperties, TasksAreFinite DEF Members
  <1>3. Members(s) \subseteq Readers
    BY <1>2 DEF Members
  <1>4. s # <<>> => 1 \in 1 .. Len(s) /\ Len(s) \in 1 .. Len(s)
    BY <1>1
  <1> QED
    BY <1>1, <1>2, <1>3, <1>4 DEF FirstOf, LastOf, Pointers

\* u is s and t after it.
Appended(s, t, u) ==
    /\ NoTwice(u) /\ Len(u) = Len(s) + 1 /\ u # <<>>
    /\ Members(u) = Members(s) \cup {t}
    /\ FirstOf(u) = IF s = <<>> THEN t ELSE FirstOf(s)
    /\ LastOf(u) = t
    /\ \A i \in 1 .. Len(u) : u[i] = IF i = Len(u) THEN t ELSE s[i]

LEMMA AppendList ==
    ASSUME NEW s, NoTwice(s), NEW t \in Readers, t \notin Members(s)
    PROVE  Appended(s, t, Append(s, t))
  <1>u. PICK u : u = Append(s, t)
    OBVIOUS
  <1>1. /\ s \in Seq(Readers) /\ Len(s) \in Nat /\ (Len(s) = 0 <=> s = <<>>)
        /\ \A i \in 1 .. Len(s) : s[i] \in Members(s)
        /\ s # <<>> => FirstOf(s) = s[1]
    BY ListFacts
  <1>2. /\ u \in Seq(Readers) /\ u # <<>> /\ Len(u) = Len(s) + 1
        /\ \A i \in 1 .. Len(s) : u[i] = s[i]
        /\ u[Len(s) + 1] = t
    BY <1>1, <1>u, AppendProperties
  <1>3. \A i \in 1 .. Len(u) : u[i] = IF i = Len(u) THEN t ELSE s[i]
    BY <1>1, <1>2
  <1>4. \A i \in 1 .. Len(u) : i # Len(u) => i \in 1 .. Len(s)
    BY <1>1, <1>2
  <1>5. \A i, j \in 1 .. Len(u) : u[i] = u[j] => i = j
    BY <1>1, <1>3, <1>4 DEF NoTwice
  <1>6. Members(u) = Members(s) \cup {t}
    <2>1. Len(u) \in 1 .. Len(u) /\ \A i \in 1 .. Len(s) : i \in 1 .. Len(u)
      BY <1>1, <1>2
    <2> QED
      BY <1>2, <1>3, <1>4, <2>1 DEF Members
  <1>7. FirstOf(u) = IF s = <<>> THEN t ELSE FirstOf(s)
    <2>1. s # <<>> => 1 \in 1 .. Len(s)
      BY <1>1
    <2>2. s = <<>> => Len(s) + 1 = 1
      BY <1>1
    <2> QED
      BY <1>1, <1>2, <2>1, <2>2 DEF FirstOf
  <1> QED
    BY <1>u, <1>2, <1>3, <1>5, <1>6, <1>7 DEF NoTwice, LastOf, Appended

\* u is s without its first task.
ButFirst(s, u) ==
    /\ NoTwice(u) /\ Len(u) = Len(s) - 1 /\ (u = <<>> <=> Len(s) = 1)
    /\ Members(u) = Members(s) \ {s[1]}
    /\ FirstOf(u) = IF u = <<>> THEN NIL ELSE s[2]
    /\ LastOf(u) = IF u = <<>> THEN NIL ELSE LastOf(s)
    /\ \A i \in 1 .. Len(u) : u[i] = s[i + 1] /\ i + 1 \in 1 .. Len(s)

LEMMA TailList ==
    ASSUME NEW s, NoTwice(s), s # <<>>
    PROVE  ButFirst(s, Tail(s))
  <1>u. PICK u : u = Tail(s)
    OBVIOUS
  <1>1. /\ s \in Seq(Readers) /\ Len(s) \in Nat /\ Len(s) # 0
        /\ \A i \in 1 .. Len(s) : s[i] \in Members(s)
        /\ LastOf(s) = s[Len(s)]
    BY ListFacts
  <1>2. /\ u \in Seq(Readers) /\ Len(u) = Len(s) - 1
        /\ \A i \in 1 .. Len(u) : u[i] = s[i + 1]
    BY <1>1, <1>u, HeadTailProperties
  <1>3. \A i \in 1 .. Len(u) : i + 1 \in 1 .. Len(s)
    BY <1>1, <1>2
  <1>4. \A i, j \in 1 .. Len(u) : u[i] = u[j] => i = j
    <2> SUFFICES ASSUME NEW i \in 1 .. Len(u), NEW j \in 1 .. Len(u), u[i] = u[j] PROVE i = j
      OBVIOUS
    <2>1. i + 1 = j + 1
      BY <1>2, <1>3 DEF NoTwice
    <2> QED
      BY <2>1
  <1>5. NoTwice(u)
    BY <1>2, <1>4 DEF NoTwice
  <1>6. u = <<>> <=> Len(s) = 1
    <2>1. Len(u) = 0 <=> u = <<>>
      BY <1>5, ListFacts
    <2> QED
      BY <1>1, <1>2, <2>1
  <1>7. Members(u) = Members(s) \ {s[1]}
    <2>1. ASSUME NEW i \in 1 .. Len(u) PROVE u[i] \in Members(s) \ {s[1]}
      <3>1. 1 \in 1 .. Len(s) /\ i + 1 # 1
        BY <1>1
      <3> QED
        BY <1>1, <1>2, <1>3, <3>1 DEF NoTwice
    <2>2. ASSUME NEW i \in 1 .. Len(s), s[i] # s[1] PROVE s[i] \in Members(u)
      <3>1. i - 1 \in 1 .. Len(u) /\ i = (i - 1) + 1
        BY <1>1, <1>2, <2>2
      <3>2. u[i - 1] = s[i]
        BY <1>2, <3>1
      <3> QED
        BY <3>1, <3>2 DEF Members
    <2> QED
      BY <2>1, <2>2 DEF Members
  <1>8. u # <<>> => 1 \in 1 .. Len(u) /\ Len(u) \in 1 .. Len(u) /\ Len(u) + 1 = Len(s)
    BY <1>1, <1>2, <1>6
  <1>9. FirstOf(u) = IF u = <<>> THEN NIL ELSE s[2]
    BY <1>2, <1>8 DEF FirstOf
  <1>10. LastOf(u) = IF u = <<>> THEN NIL ELSE LastOf(s)
    BY <1>1, <1>2, <1>8 DEF LastOf
  <1> QED
    BY <1>u, <1>2, <1>3, <1>5, <1>6, <1>7, <1>9, <1>10 DEF ButFirst

\* u is s and then t.
Joined(s, t, u) ==
    /\ NoTwice(u) /\ Len(u) = Len(s) + Len(t)
    /\ Members(u) = Members(s) \cup Members(t)
    /\ \A i \in 1 .. Len(s) : u[i] = s[i]
    /\ \A i \in 1 .. Len(t) : t[i] = u[Len(s) + i]

LEMMA ConcatList ==
    ASSUME NEW s, NEW t, NoTwice(s), NoTwice(t), Members(s) \cap Members(t) = {}
    PROVE  Joined(s, t, s \o t)
  <1>u. PICK u : u = s \o t
    OBVIOUS
  <1>1. /\ s \in Seq(Readers) /\ Len(s) \in Nat /\ \A i \in 1 .. Len(s) : s[i] \in Members(s)
        /\ t \in Seq(Readers) /\ Len(t) \in Nat /\ \A i \in 1 .. Len(t) : t[i] \in Members(t)
    BY ListFacts
  <1>2. /\ u \in Seq(Readers) /\ Len(u) = Len(s) + Len(t)
        /\ \A i \in 1 .. Len(s) + Len(t) : u[i] = IF i <= Len(s) THEN s[i] ELSE t[i - Len(s)]
    BY <1>1, <1>u, ConcatProperties
  <1>3. \A i \in 1 .. Len(s) : u[i] = s[i] /\ i \in 1 .. Len(u)
    BY <1>1, <1>2
  <1>4. \A i \in 1 .. Len(t) : t[i] = u[Len(s) + i] /\ Len(s) + i \in 1 .. Len(u)
    <2> SUFFICES ASSUME NEW i \in 1 .. Len(t)
                 PROVE  t[i] = u[Len(s) + i] /\ Len(s) + i \in 1 .. Len(u)
      OBVIOUS
    <2>1. Len(s) + i \in 1 .. Len(s) + Len(t) /\ ~(Len(s) + i <= Len(s))
            /\ (Len(s) + i) - Len(s) = i
      BY <1>1
    <2> QED
      BY <1>2, <2>1
  <1>5. \A i \in 1 .. Len(u) : \/ i \in 1 .. Len(s) /\ u[i] = s[i]
                               \/ i - Len(s) \in 1 .. Len(t) /\ u[i] = t[i - Len(s)] /\ i > Len(s)
    BY <1>1, <1>2
  <1>6. ASSUME NEW i \in 1 .. Len(u), NEW j \in 1 .. Len(u), u[i] = u[j] PROVE i = j
    <2>1. CASE i \in 1 .. Len(s) /\ j \in 1 .. Len(s)
      BY <1>3, <1>6, <2>1 DEF NoTwice
    <2>2. CASE i > Len(s) /\ j > Len(s)
      <3>1. i - Len(s) \in 1 .. Len(t) /\ u[i] = t[i - Len(s)]
        BY <1>1, <1>5, <2>2
      <3>2. j - Len(s) \in 1 .. Len(t) /\ u[j] = t[j - Len(s)]
        BY <1>1, <1>5, <2>2
      <3>3. i - Len(s) = j - Len(s)
        BY <1>6, <3>1, <3>2 DEF NoTwice
      <3> QED
        BY <1>1, <3>3
    <2>3. CASE i \in 1 .. Len(s) /\ j > Len(s)
      <3>1. u[i] \in Members(s)
        BY <1>1, <1>3, <2>3
      <3>2. j \notin 1 .. Len(s)
        BY <1>1, <2>3
      <3>3. u[j] \in Members(t)
        BY <1>1, <1>5, <3>2
      <3> QED
        BY <1>6, <3>1, <3>3
    <2>4. CASE i > Len(s) /\ j \in 1 .. Len(s)
      <3>1. u[j] \in Members(s)
        BY <1>1, <1>3, <2>4
      <3>2. i \notin 1 .. Len(s)
        BY <1>1, <2>4
      <3>3. u[i] \in Members(t)
        BY <1>1, <1>5, <3>2
      <3> QED
        BY <1>6, <3>1, <3>3
    <2> QED
      BY <1>1, <1>2, <2>1, <2>2, <2>3, <2>4
  <1>7. Members(u) = Members(s) \cup Members(t)
    <2>1. \A x \in Members(u) : x \in Members(s) \cup Members(t)
      BY <1>5 DEF Members
    <2>2. \A x \in Members(s) : x \in Members(u)
      BY <1>3 DEF Members
    <2>3. \A x \in Members(t) : x \in Members(u)
      BY <1>4 DEF Members
    <2> QED
      BY <2>1, <2>2, <2>3
  <1> QED
    BY <1>u, <1>2, <1>3, <1>4, <1>6, <1>7 DEF NoTwice, Joined

\* Types: every step of the program and every interrupt keeps them.
LEMMA TypesStep == WaitTypes /\ [WaitNext]_waitVars => WaitTypes'
  <1> SUFFICES ASSUME WaitTypes, [WaitNext]_waitVars PROVE WaitTypes'
    OBVIOUS
  <1> USE DEF WaitTypes, Points, Polling, Pushing, Adding, Goto, StillThere
  <1>0. /\ \A t \in Readers : t \in Tasks /\ t \in Pointers
        /\ NIL \in Pointers /\ NIL \notin Tasks /\ Swapper \in Tasks /\ Swapper \notin Readers
        /\ \A t \in Tasks : t # Swapper => t \in Readers
        /\ \A t \in Pointers : t # NIL => t \in Readers
    BY TasksAreFinite DEF Pointers, Tasks
  <1>r. /\ rq.first \in Pointers /\ rq.last \in Pointers /\ rq.len \in Nat
        /\ \A t \in Tasks : rq.next[t] \in Pointers
    BY DEF RunQueues
  <1>w. /\ wq.head \in Pointers /\ wq.tail \in Pointers
        /\ \A t \in Tasks : wq.next[t] \in Pointers /\ wq.prev[t] \in Pointers
    BY DEF WaitQueues
  <1>1. CASE Read
    BY <1>0, <1>r, <1>1 DEF Read, Syscall, TaskStates
  <1>2. CASE Yield
    BY <1>0, <1>r, <1>2 DEF Yield, Syscall, TaskStates
  <1>3. CASE SwapperYield
    BY <1>0, <1>r, <1>3 DEF SwapperYield, Syscall, TaskStates
  <1>4. CASE PollFirst
    BY <1>0, <1>r, <1>4 DEF PollFirst, TaskStates
  <1>5. CASE PollAdvance
    <2>1. rq' \in RunQueues /\ rq'.len = rq.len
      BY <1>0, <1>r, <1>5 DEF PollAdvance, RunQueues
    <2> QED
      BY <1>0, <1>r, <1>5, <2>1 DEF PollAdvance
  <1>6. CASE PollLen
    <2>1. rq' \in RunQueues /\ rq'.len = rq.len - 1
      BY <1>0, <1>r, <1>6 DEF PollLen, RunQueues
    <2> QED
      BY <1>0, <1>r, <1>6, <2>1 DEF PollLen
  <1>7. CASE PollLast
    <2>1. rq' \in RunQueues /\ rq'.len = rq.len
      BY <1>0, <1>r, <1>7 DEF PollLast, RunQueues
    <2> QED
      BY <1>0, <1>r, <1>7, <2>1 DEF PollLast
  <1>8. CASE PollNext
    <2>1. rq' \in RunQueues /\ rq'.len = rq.len
      BY <1>0, <1>r, <1>8 DEF PollNext, RunQueues
    <2> QED
      BY <1>0, <1>r, <1>8, <2>1 DEF PollNext
  <1>9. CASE Decide
    <2>1. state' \in [Tasks -> TaskStates]
      BY <1>9 DEF Decide, TaskStates
    <2>2. cont[cur] \in {"enter", "check", "awake", "halt"}
            /\ (cont[cur] = "halt" <=> cur = Swapper)
      OBVIOUS
    <2>3. UNCHANGED <<rq, wq, input, cur, chosen, cont, hit>>
      BY <1>9 DEF Decide
    <2>4. CASE at' = cont[cur]
      BY <1>0, <2>1, <2>2, <2>3, <2>4
    <2>5. CASE at' = "switch"
      BY <1>0, <1>9, <2>1, <2>3, <2>5 DEF Decide
    <2>6. CASE at' = "push_next" /\ cur # Swapper /\ chosen \in Tasks
      BY <1>0, <1>9, <2>1, <2>3, <2>6 DEF Decide
    <2> QED
      BY <1>0, <1>9, <2>4, <2>5, <2>6 DEF Decide
  <1>10. CASE PushNext
    <2>1. rq' \in RunQueues /\ rq'.len = rq.len
      BY <1>0, <1>r, <1>10 DEF PushNext, RunQueues
    <2> QED
      BY <1>0, <1>r, <1>10, <2>1 DEF PushNext
  <1>11. CASE PushLink
    <2>1. rq' \in RunQueues /\ rq'.len = rq.len
      BY <1>0, <1>r, <1>11 DEF PushLink, RunQueues
    <2> QED
      BY <1>0, <1>r, <1>11, <2>1 DEF PushLink
  <1>12. CASE PushFirst
    <2>1. rq' \in RunQueues /\ rq'.len = rq.len
      BY <1>0, <1>r, <1>12 DEF PushFirst, RunQueues
    <2> QED
      BY <1>0, <1>r, <1>12, <2>1 DEF PushFirst
  <1>13. CASE PushLast
    <2>1. rq' \in RunQueues /\ rq'.len = rq.len
      BY <1>0, <1>r, <1>13 DEF PushLast, RunQueues
    <2> QED
      BY <1>0, <1>r, <1>13, <2>1 DEF PushLast
  <1>14. CASE PushLen
    <2>1. rq' \in RunQueues /\ rq'.len = rq.len + 1
      BY <1>0, <1>r, <1>14 DEF PushLen, RunQueues
    <2> QED
      BY <1>0, <1>r, <1>14, <2>1 DEF PushLen
  <1>15. CASE Switch
    BY <1>0, <1>r, <1>15 DEF Switch, TaskStates
  <1>16. CASE Halt
    BY <1>0, <1>r, <1>16 DEF Halt, TaskStates
  <1>17. CASE Check
    <2>1. input' \in 0 .. InputMax
      BY <1>0, <1>17, WaitAssumption DEF Check, TakeInput
    <2> QED
      BY <1>0, <1>17, <2>1 DEF Check, TakeInput
  <1>18. CASE Sleep
    BY <1>0, <1>r, <1>18 DEF Sleep, TaskStates
  <1>19. CASE Add
    <2>1. cur \in Readers
      BY <1>0, <1>19 DEF Add
    <2>x. PICK u : u = [wq EXCEPT !.on = @ \cup {cur}]
      OBVIOUS
    <2>y. u \in WaitQueues
      BY <2>1, <2>x DEF WaitQueues
    <2>2. PICK v : v = [u EXCEPT !.prev[cur] = wq.tail]
      OBVIOUS
    <2>3. v \in WaitQueues
      BY <1>0, <1>w, <2>1, <2>2, <2>y DEF WaitQueues
    <2>4. cur \notin wq.on => wq' = [v EXCEPT !.next[cur] = NIL]
      BY <1>19, <2>2, <2>x DEF Add
    <2>5. wq' \in WaitQueues
      BY <1>0, <1>19, <2>1, <2>3, <2>4 DEF Add, WaitQueues
    <2> QED
      BY <1>0, <1>19, <2>5 DEF Add
  <1>20. CASE AddLink
    <2>1. wq' \in WaitQueues
      BY <1>0, <1>w, <1>20 DEF AddLink, WaitQueues
    <2> QED
      BY <1>0, <1>20, <2>1 DEF AddLink
  <1>21. CASE AddTail
    <2>1. wq' \in WaitQueues
      BY <1>0, <1>w, <1>21 DEF AddTail, WaitQueues
    <2> QED
      BY <1>0, <1>21, <2>1 DEF AddTail
  <1>22. CASE Asleep
    BY <1>0, <1>r, <1>22 DEF Asleep, TaskStates
  <1>23. CASE Awake
    <2>1. cur \in Readers
      BY <1>0, <1>23 DEF Awake
    <2>2. PICK p \in Pointers, n \in Pointers : p = wq.prev[cur] /\ n = wq.next[cur]
      BY <1>0, <1>w, <2>1
    <2>3. PICK u : u = IF p # NIL THEN [wq EXCEPT !.next[p] = n] ELSE [wq EXCEPT !.head = n]
      OBVIOUS
    <2>4. u \in WaitQueues
      BY <1>0, <2>2, <2>3 DEF WaitQueues
    <2>5. PICK v : v = IF n # NIL THEN [u EXCEPT !.prev[n] = p] ELSE [u EXCEPT !.tail = p]
      OBVIOUS
    <2>6. v \in WaitQueues
      BY <1>0, <2>2, <2>4, <2>5 DEF WaitQueues
    <2>7. PICK x : x = [v EXCEPT !.on = @ \ {cur}, !.prev[cur] = NIL]
      OBVIOUS
    <2>8. x \in WaitQueues
      BY <1>0, <2>1, <2>6, <2>7 DEF WaitQueues
    <2>9. cur \in wq.on => wq' = [x EXCEPT !.next[cur] = NIL]
      BY <1>23, <2>2, <2>3, <2>5, <2>7 DEF Awake
    <2>10. wq' \in WaitQueues
      BY <1>0, <1>23, <2>1, <2>8, <2>9 DEF Awake, WaitQueues
    <2> QED
      BY <1>0, <1>23, <2>10 DEF Awake
  <1>30. CASE SilentIrq
    BY <1>0, <1>30 DEF SilentIrq
  <1>31. CASE UNCHANGED waitVars
    BY <1>31 DEF waitVars
  <1>32. CASE KeyIrq
    <2>1. PICK list : list = Chain(wq)
      OBVIOUS
    <2>2. list \in Seq(Readers)
      BY <2>1, LinkedType DEF Chain, WaitQueues
    <2>3. rq' \in RunQueues /\ rq'.len >= rq.len
      BY <1>32, <2>1, <2>2, WakeupType DEF KeyIrq
    <2>4. wq' = Detach(wq, list)
      BY <1>32, <2>1 DEF KeyIrq
    <2>5. wq' \in WaitQueues
      BY <1>0, <1>w, <2>2, <2>4 DEF Detach, WaitQueues
    <2>6. rq'.len \in Nat
      BY <2>3 DEF RunQueues
    <2>7. input' \in 0 .. InputMax
      BY <1>32, WaitAssumption DEF KeyIrq
    <2> QED
      BY <1>0, <1>r, <1>32, <2>3, <2>5, <2>6, <2>7 DEF KeyIrq
  <1> QED
    BY <1>1, <1>2, <1>3, <1>4, <1>5, <1>6, <1>7, <1>8, <1>9, <1>10, <1>11, <1>12, <1>13,
       <1>14, <1>15, <1>16, <1>17, <1>18, <1>19, <1>20, <1>21, <1>22, <1>23, <1>30, <1>31,
       <1>32 DEF WaitNext, Thread

\* The steps that leave both lists as they are.
LEMMA ListsKept ==
    ASSUME WaitTypes, NEW q, NEW w, InOrder(q, w),
           \/ Read \/ Yield \/ SwapperYield \/ PollFirst \/ PollLen \/ PollLast \/ PollNext
                \/ Decide \/ PushNext \/ PushLink \/ PushLen \/ Switch \/ Halt \/ Check
                     \/ Sleep \/ Add \/ AddLink \/ Asleep \/ Awake \/ SilentIrq
    PROVE  InOrder(q, w)'
  <1> USE DEF WaitTypes, Points, Polling, Pushing, Adding, Goto, StillThere
  <1>g. RunQueueIs(q) /\ WaitQueueIs(w) /\ Places(q, w) /\ StatesFit(w) /\ IdleFits(q)
          /\ InputFits(w)
    BY DEF InOrder
  <1>l. /\ \A i \in 1 .. Len(q) : q[i] \in Tasks /\ q[i] \in Members(q)
        /\ \A i \in 1 .. Len(w) : w[i] \in Tasks /\ w[i] \in Members(w)
    BY <1>g, ListFacts DEF RunQueueIs, WaitQueueIs
  <1>1. CASE Read
    <2>1. RunQueueIs(q)' /\ WaitQueueIs(w)' /\ StatesFit(w)' /\ IdleFits(q)' /\ InputFits(w)'
      BY <1>g, <1>1 DEF Read, Syscall, RunQueueIs, WaitQueueIs, StatesFit, IdleFits, InputFits
    <2>2. Places(q, w)'
      <3>1. CurLoose /\ CurLoose'
        BY <1>g, <1>1 DEF Read, Syscall, StatesFit, CurLoose
      <3>2. ~ChosenLoose /\ ~ChosenLoose'
        BY <1>1 DEF Read, Syscall, ChosenLoose
      <3>3. UNCHANGED <<cur, chosen>>
        BY <1>1 DEF Read, Syscall
      <3> QED
        BY <1>g, <3>1, <3>2, <3>3 DEF Places
    <2> QED
      BY <2>1, <2>2 DEF InOrder
  <1>2. CASE Yield
    <2>1. RunQueueIs(q)' /\ WaitQueueIs(w)' /\ StatesFit(w)' /\ IdleFits(q)' /\ InputFits(w)'
      BY <1>g, <1>2 DEF Yield, Syscall, RunQueueIs, WaitQueueIs, StatesFit, IdleFits, InputFits
    <2>2. Places(q, w)'
      <3>1. CurLoose /\ CurLoose'
        BY <1>g, <1>2 DEF Yield, Syscall, StatesFit, CurLoose
      <3>2. ~ChosenLoose /\ ~ChosenLoose'
        BY <1>2 DEF Yield, Syscall, ChosenLoose
      <3>3. UNCHANGED <<cur, chosen>>
        BY <1>2 DEF Yield, Syscall
      <3> QED
        BY <1>g, <3>1, <3>2, <3>3 DEF Places
    <2> QED
      BY <2>1, <2>2 DEF InOrder
  <1>3. CASE SwapperYield
    <2>1. RunQueueIs(q)' /\ WaitQueueIs(w)' /\ StatesFit(w)' /\ IdleFits(q)' /\ InputFits(w)'
      BY <1>g, <1>3 DEF SwapperYield, Syscall, RunQueueIs, WaitQueueIs, StatesFit, IdleFits,
         InputFits
    <2>2. Places(q, w)'
      BY <1>g, <1>3, TasksAreFinite DEF SwapperYield, Syscall, Places, CurLoose, ChosenLoose
    <2> QED
      BY <2>1, <2>2 DEF InOrder
  <1>4. CASE PollFirst
    <2>1. WaitQueueIs(w)' /\ StatesFit(w)' /\ InputFits(w)'
      BY <1>g, <1>4 DEF PollFirst, WaitQueueIs, StatesFit, InputFits
    <2>2. RunQueueIs(q)'
      <3>1. rq' = rq /\ cur' = cur /\ Len(q) \in Nat /\ (Len(q) = 0 <=> q = <<>>)
        BY <1>g, <1>4, ListFacts DEF PollFirst, RunQueueIs
      <3>2. CASE rq.len = 0
        BY <1>g, <1>4, <3>1, <3>2 DEF PollFirst, RunQueueIs
      <3>3. CASE rq.len # 0
        BY <1>g, <1>4, <3>1, <3>3 DEF PollFirst, RunQueueIs, FirstOf
      <3> QED
        BY <3>2, <3>3
    <2>3. Places(q, w)'
      <3>1. CurLoose' <=> CurLoose
        BY <1>4 DEF PollFirst, CurLoose
      <3>2. ~ChosenLoose /\ (ChosenLoose' => chosen' = Swapper) /\ cur' = cur
        BY <1>4 DEF PollFirst, ChosenLoose
      <3>3. Swapper \notin Members(q) \cup Members(w)
        BY <1>g, ListFacts, TasksAreFinite DEF RunQueueIs, WaitQueueIs
      <3> QED
        BY <1>g, <3>1, <3>2, <3>3, TasksAreFinite DEF Places
    <2>4. IdleFits(q)'
      <3>1. Len(q) \in Nat /\ (Len(q) = 0 <=> q = <<>>) /\ (at = "poll" => rq.len = Len(q))
        BY <1>g, ListFacts DEF RunQueueIs
      <3>2. CASE rq.len = 0
        BY <1>4, <3>1, <3>2 DEF PollFirst, IdleFits
      <3>3. CASE rq.len # 0
        BY <1>4, <3>3 DEF PollFirst, IdleFits
      <3> QED
        BY <3>2, <3>3
    <2> QED
      BY <2>1, <2>2, <2>3, <2>4 DEF InOrder
  <1>5. CASE PollLen
    <2>1. RunQueueIs(q)' /\ WaitQueueIs(w)' /\ StatesFit(w)' /\ IdleFits(q)' /\ InputFits(w)'
      BY <1>g, <1>5 DEF PollLen, RunQueueIs, WaitQueueIs, StatesFit, IdleFits, InputFits
    <2>2. Places(q, w)'
      BY <1>g, <1>5 DEF PollLen, Places, CurLoose, ChosenLoose
    <2> QED
      BY <2>1, <2>2 DEF InOrder
  <1>6. CASE PollLast
    <2>1. WaitQueueIs(w)' /\ StatesFit(w)' /\ IdleFits(q)' /\ InputFits(w)'
      BY <1>g, <1>6 DEF PollLast, WaitQueueIs, StatesFit, IdleFits, InputFits
    <2>2. RunQueueIs(q)'
      <3>1. q = <<>> /\ Len(q) = 0 /\ LastOf(q) = NIL
        BY <1>g, <1>6 DEF PollLast, RunQueueIs, LastOf
      <3>2. rq'.first = rq.first /\ rq'.len = rq.len /\ rq'.next = rq.next /\ rq'.last = NIL
        BY <1>6 DEF PollLast, RunQueues
      <3> QED
        BY <1>g, <1>6, <3>1, <3>2 DEF PollLast, RunQueueIs, Links
    <2>3. Places(q, w)'
      BY <1>g, <1>6 DEF PollLast, Places, CurLoose, ChosenLoose
    <2> QED
      BY <2>1, <2>2, <2>3 DEF InOrder
  <1>7. CASE PollNext
    <2>1. WaitQueueIs(w)' /\ StatesFit(w)' /\ InputFits(w)'
      BY <1>g, <1>7 DEF PollNext, WaitQueueIs, StatesFit, InputFits
    <2>2. RunQueueIs(q)'
      <3>1. chosen \in Tasks /\ chosen \notin Members(q)
        BY <1>g, <1>7, TasksAreFinite DEF PollNext, Places, CurLoose, ChosenLoose
      <3>2. rq'.first = rq.first /\ rq'.len = rq.len /\ rq'.last = rq.last
            /\ rq'.next[chosen] = NIL /\ \A t \in Tasks : t # chosen => rq'.next[t] = rq.next[t]
        BY <1>7, <3>1 DEF PollNext, RunQueues
      <3>3. Links(rq'.next, q, NIL)
        BY <1>g, <1>7, <1>l, <3>1, <3>2 DEF PollNext, RunQueueIs, Links
      <3>4. at' # "push_last" /\ UNCHANGED <<cur, chosen>>
        BY <1>7 DEF PollNext
      <3> QED
        BY <1>g, <1>7, <3>2, <3>3, <3>4 DEF PollNext, RunQueueIs
    <2>3. Places(q, w)'
      BY <1>g, <1>7 DEF PollNext, Places, CurLoose, ChosenLoose
    <2>4. IdleFits(q)'
      BY <1>g, <1>7, TasksAreFinite DEF PollNext, IdleFits
    <2> QED
      BY <2>1, <2>2, <2>3, <2>4 DEF InOrder
  <1>8. CASE Decide
    <2>1. RunQueueIs(q)' /\ WaitQueueIs(w)' /\ InputFits(w)'
      BY <1>g, <1>8 DEF Decide, RunQueueIs, WaitQueueIs, InputFits
    <2>2. Places(q, w)'
      <3>1. CurLoose' => CurLoose
        <4>1. state[cur] \in TaskStates /\ cur \in Tasks /\ state[cur] # "queued"
          BY <1>g, <1>8 DEF Decide, StatesFit
        <4>2. state[cur] = "interruptible" => at' = "switch"
          BY <1>8 DEF Decide
        <4> QED
          BY <1>8, <4>1, <4>2 DEF Decide, CurLoose, TaskStates
      <3>2. ChosenLoose /\ (~ChosenLoose' => chosen = Swapper)
        BY <1>8 DEF Decide, ChosenLoose
      <3>3. UNCHANGED <<cur, chosen>>
        BY <1>8 DEF Decide
      <3>4. CurLoose /\ ~CurLoose' => cur = Swapper
        BY <1>g, <1>8 DEF Decide, StatesFit, CurLoose
      <3> QED
        BY <1>g, <3>1, <3>2, <3>3, <3>4, TasksAreFinite DEF Places
    <2>3. StatesFit(w)'
      <3>1. cont[cur] \in {"enter", "check", "awake", "halt"}
        OBVIOUS
      <3>2. state[cur] \in TaskStates /\ cur \in Tasks /\ state[cur] # "queued"
        BY <1>g, <1>8 DEF Decide, StatesFit
      <3>3. CASE chosen = Swapper /\ state[cur] = "running"
        BY <1>g, <1>8, <3>1, <3>3 DEF Decide, StatesFit
      <3>4. CASE ~(chosen = Swapper /\ state[cur] = "running") /\ state[cur] = "interruptible"
        BY <1>g, <1>8, <3>4 DEF Decide, StatesFit
      <3>5. CASE ~(chosen = Swapper /\ state[cur] = "running") /\ state[cur] # "interruptible"
        <4>1. state'[cur] = "queued" /\ \A t \in Tasks : t # cur => state'[t] = state[t]
          BY <1>8, <3>2, <3>5 DEF Decide
        <4>2. \A t \in Members(w) : t # cur
          BY <1>g, <3>5 DEF StatesFit
        <4>3. \A t \in Members(w) : t \in Tasks
          BY <1>g, ListFacts, TasksAreFinite DEF WaitQueueIs
        <4>4. Swapper \in Tasks
          BY TasksAreFinite
        <4> QED
          BY <1>g, <1>8, <3>5, <4>1, <4>2, <4>3, <4>4 DEF Decide, StatesFit
      <3> QED
        BY <3>3, <3>4, <3>5
    <2>4. IdleFits(q)'
      <3>1. cont[cur] \in {"enter", "check", "awake", "halt"}
              /\ (cont[cur] = "halt" <=> cur = Swapper)
        OBVIOUS
      <3>2. state[cur] \in TaskStates /\ cur \in Tasks /\ state[cur] # "queued"
        BY <1>g, <1>8 DEF Decide, StatesFit
      <3>3. CASE chosen = Swapper /\ state[cur] = "running"
        BY <1>g, <1>8, <3>1, <3>3 DEF Decide, IdleFits
      <3>4. CASE ~(chosen = Swapper /\ state[cur] = "running") /\ state[cur] = "interruptible"
        BY <1>g, <1>8, <3>4 DEF Decide, IdleFits
      <3>5. CASE chosen # Swapper /\ state[cur] # "interruptible"
        BY <1>8, <3>5 DEF Decide, IdleFits
      <3> QED
        BY <3>2, <3>3, <3>4, <3>5 DEF TaskStates
    <2> QED
      BY <2>1, <2>2, <2>3, <2>4 DEF InOrder
  <1>9. CASE PushNext
    <2>1. WaitQueueIs(w)' /\ StatesFit(w)' /\ IdleFits(q)' /\ InputFits(w)'
      BY <1>g, <1>9 DEF PushNext, WaitQueueIs, StatesFit, IdleFits, InputFits
    <2>2. RunQueueIs(q)'
      <3>1. cur \in Tasks /\ cur \notin Members(q)
        BY <1>g, <1>9, TasksAreFinite DEF PushNext, Places, CurLoose, ChosenLoose
      <3>2. rq'.first = rq.first /\ rq'.len = rq.len /\ rq'.last = rq.last
            /\ rq'.next[cur] = NIL /\ \A t \in Tasks : t # cur => rq'.next[t] = rq.next[t]
        BY <1>9, <3>1 DEF PushNext, RunQueues
      <3>3. Links(rq'.next, q, NIL)
        BY <1>g, <1>9, <1>l, <3>1, <3>2 DEF PushNext, RunQueueIs, Links
      <3>4. at' # "push_last" /\ UNCHANGED <<cur, chosen>>
        BY <1>9 DEF PushNext
      <3> QED
        BY <1>g, <1>9, <3>2, <3>3, <3>4 DEF PushNext, RunQueueIs
    <2>3. Places(q, w)'
      BY <1>g, <1>9 DEF PushNext, Places, CurLoose, ChosenLoose
    <2> QED
      BY <2>1, <2>2, <2>3 DEF InOrder
  <1>10. CASE PushLink
    <2>1. WaitQueueIs(w)' /\ StatesFit(w)' /\ IdleFits(q)' /\ InputFits(w)'
      BY <1>g, <1>10 DEF PushLink, WaitQueueIs, StatesFit, IdleFits, InputFits
    <2>2. RunQueueIs(q)'
      <3>0. NoTwice(q) /\ rq.last = LastOf(q) /\ rq.len = Len(q) /\ rq.first = FirstOf(q)
            /\ Links(rq.next, q, NIL) /\ rq.next[cur] = NIL
        BY <1>g, <1>10 DEF PushLink, RunQueueIs
      <3>1. cur \in Tasks /\ cur \notin Members(q)
        BY <1>g, <1>10 DEF PushLink, Places, CurLoose
      <3>2. CASE rq.len = 0
        <4>1. q = <<>> /\ FirstOf(q) = NIL
          BY <3>0, <3>2, ListFacts
        <4>2. rq'.first = rq.first /\ rq'.len = rq.len /\ rq'.last = cur /\ rq'.next = rq.next
          BY <1>10, <3>2 DEF PushLink, RunQueues
        <4> QED
          BY <1>10, <3>0, <3>2, <4>1, <4>2 DEF PushLink, RunQueueIs
      <3>3. CASE rq.len # 0
        <4>1. q # <<>> /\ Len(q) \in 1 .. Len(q) /\ rq.last = q[Len(q)]
                /\ rq.last \in Members(q) /\ rq.last \in Tasks
          BY <1>l, <3>0, <3>3, ListFacts
        <4>2. rq'.first = rq.first /\ rq'.len = rq.len /\ rq'.last = rq.last
              /\ rq'.next[rq.last] = cur
                   /\ \A t \in Tasks : t # rq.last => rq'.next[t] = rq.next[t]
          BY <1>10, <3>3, <4>1 DEF PushLink, RunQueues
        <4>3. \A i \in 1 .. Len(q) : q[i] = q[Len(q)] => i = Len(q)
          BY <3>0, <4>1 DEF NoTwice
        <4>4. Links(rq'.next, q, cur)
          BY <1>l, <3>0, <4>1, <4>2, <4>3 DEF Links
        <4>5. rq'.next[cur] = NIL
          BY <3>0, <3>1, <4>1, <4>2
        <4>6. at' = "push_last" /\ UNCHANGED <<cur, chosen>>
          BY <1>10, <3>3 DEF PushLink
        <4> QED
          BY <3>0, <4>1, <4>2, <4>4, <4>5, <4>6 DEF RunQueueIs
      <3> QED
        BY <3>2, <3>3
    <2>3. Places(q, w)'
      BY <1>g, <1>10 DEF PushLink, Places, CurLoose, ChosenLoose
    <2> QED
      BY <2>1, <2>2, <2>3 DEF InOrder
  <1>11. CASE PushLen
    <2>1. RunQueueIs(q)' /\ WaitQueueIs(w)' /\ StatesFit(w)' /\ IdleFits(q)' /\ InputFits(w)'
      BY <1>g, <1>11 DEF PushLen, RunQueueIs, WaitQueueIs, StatesFit, IdleFits, InputFits
    <2>2. Places(q, w)'
      BY <1>g, <1>11 DEF PushLen, Places, CurLoose, ChosenLoose
    <2> QED
      BY <2>1, <2>2 DEF InOrder
  <1>12. CASE Switch
    <2>1. RunQueueIs(q)' /\ WaitQueueIs(w)' /\ InputFits(w)'
      BY <1>g, <1>12 DEF Switch, RunQueueIs, WaitQueueIs, InputFits
    <2>2. Places(q, w)'
      BY <1>g, <1>12 DEF Switch, Places, CurLoose, ChosenLoose
    <2>3. StatesFit(w)'
      <3>1. cont[chosen] \in {"enter", "check", "awake", "halt"} /\ chosen \in Tasks
        BY <1>12 DEF Switch
      <3>2. state'[chosen] = "running" /\ \A t \in Tasks : t # chosen => state'[t] = state[t]
        BY <1>12, <3>1 DEF Switch
      <3>3. \A t \in Members(w) : t \in Tasks /\ t # chosen
        BY <1>g, <1>12, ListFacts, TasksAreFinite DEF Switch, WaitQueueIs, Places, ChosenLoose
      <3>4. state'[Swapper] # "interruptible"
        BY <1>g, <3>2, TasksAreFinite DEF StatesFit
      <3>5. cur' = chosen /\ at' = cont[chosen]
        BY <1>12 DEF Switch
      <3> QED
        BY <1>g, <3>1, <3>2, <3>3, <3>4, <3>5 DEF StatesFit
    <2>4. IdleFits(q)'
      <3>1. cont[chosen] \in {"enter", "check", "awake", "halt"}
              /\ (cont[chosen] = "halt" <=> chosen = Swapper)
        BY <1>12 DEF Switch
      <3>2. chosen = Swapper => q = <<>>
        BY <1>g, <1>12 DEF Switch, IdleFits, StatesFit
      <3>3. at' = cont[chosen]
        BY <1>12 DEF Switch
      <3> QED
        BY <3>1, <3>2, <3>3 DEF IdleFits
    <2> QED
      BY <2>1, <2>2, <2>3, <2>4 DEF InOrder
  <1>13. CASE Halt
    <2>1. RunQueueIs(q)' /\ WaitQueueIs(w)' /\ StatesFit(w)' /\ IdleFits(q)' /\ InputFits(w)'
      BY <1>g, <1>13 DEF Halt, RunQueueIs, WaitQueueIs, StatesFit, IdleFits, InputFits
    <2>2. Places(q, w)'
      BY <1>g, <1>13 DEF Halt, Places, CurLoose, ChosenLoose
    <2> QED
      BY <2>1, <2>2 DEF InOrder
  <1>14. CASE Check
    <2>1. RunQueueIs(q)' /\ WaitQueueIs(w)' /\ StatesFit(w)' /\ IdleFits(q)'
      BY <1>g, <1>14 DEF Check, TakeInput, RunQueueIs, WaitQueueIs, StatesFit, IdleFits
    <2>2. Places(q, w)'
      BY <1>g, <1>14 DEF Check, TakeInput, Places, CurLoose, ChosenLoose
    <2>3. InputFits(w)'
      <3>1. input \in Nat
        BY WaitAssumption
      <3>2. CASE input > 0
        <4>1. w = <<>> /\ at' = "enter"
          BY <1>g, <1>14, <3>2 DEF Check, Goto, InputFits
        <4> QED
          BY <4>1 DEF InputFits, Adding
      <3>3. CASE ~(input > 0)
        <4>1. input = 0 /\ input' = 0
          BY <1>14, <3>1, <3>3 DEF Check
        <4> QED
          BY <4>1 DEF InputFits
      <3> QED
        BY <3>2, <3>3
    <2> QED
      BY <2>1, <2>2, <2>3 DEF InOrder
  <1>15. CASE Sleep
    <2>1. RunQueueIs(q)' /\ WaitQueueIs(w)' /\ StatesFit(w)' /\ IdleFits(q)' /\ InputFits(w)'
      BY <1>g, <1>15 DEF Sleep, RunQueueIs, WaitQueueIs, StatesFit, IdleFits, InputFits
    <2>2. Places(q, w)'
      BY <1>g, <1>15 DEF Sleep, Places, CurLoose, ChosenLoose
    <2> QED
      BY <2>1, <2>2 DEF InOrder
  <1>16. CASE Add
    <2>1. RunQueueIs(q)' /\ StatesFit(w)' /\ IdleFits(q)' /\ InputFits(w)'
      BY <1>g, <1>16 DEF Add, RunQueueIs, StatesFit, IdleFits, InputFits
    <2>2. WaitQueueIs(w)'
      <3>1. wq.on = Members(w) /\ cur \notin Members(w) /\ cur \in Tasks
        BY <1>g, <1>16 DEF Add, WaitQueueIs, Places, CurLoose
      <3>2. at' = "add_link" /\ cur' = cur
        BY <1>16, <3>1 DEF Add
      <3>a. PICK u : u = [wq EXCEPT !.on = @ \cup {cur}, !.prev[cur] = wq.tail]
        OBVIOUS
      <3>b. u.head = wq.head /\ u.tail = wq.tail /\ u.on = wq.on \cup {cur} /\ u.next = wq.next
            /\ DOMAIN u = DOMAIN wq
        BY <3>a DEF WaitQueues
      <3>c. wq' = [u EXCEPT !.next[cur] = NIL]
        BY <1>16, <3>1, <3>a DEF Add
      <3>3. wq'.head = wq.head /\ wq'.tail = wq.tail /\ wq'.on = wq.on \cup {cur}
            /\ wq'.next = [wq.next EXCEPT ![cur] = NIL]
        BY <3>b, <3>c DEF WaitQueues
      <3>4. wq'.next[cur] = NIL /\ \A t \in Tasks : t # cur => wq'.next[t] = wq.next[t]
        BY <3>1, <3>3 DEF WaitQueues
      <3>5. Links(wq'.next, w, NIL)
        <4>1. Links(wq.next, w, NIL)
          BY <1>g, <1>16 DEF Add, WaitQueueIs
        <4>2. \A i \in 1 .. Len(w) : w[i] \in Tasks /\ w[i] # cur
          BY <1>g, <1>l, <3>1 DEF WaitQueueIs, NoTwice, Members
        <4> QED
          BY <3>4, <4>1, <4>2 DEF Links
      <3> QED
        BY <1>g, <1>16, <3>1, <3>2, <3>3, <3>4, <3>5 DEF Add, WaitQueueIs
    <2>3. Places(q, w)'
      <3>1. wq.on = Members(w) /\ cur \notin Members(w)
        BY <1>g, <1>16 DEF Add, WaitQueueIs, Places, CurLoose
      <3>2. at' = "add_link" /\ UNCHANGED <<cur, chosen>>
        BY <1>16, <3>1 DEF Add
      <3>3. CurLoose /\ CurLoose' /\ ~ChosenLoose /\ ~ChosenLoose'
        BY <1>16, <3>2 DEF Add, CurLoose, ChosenLoose
      <3> QED
        BY <1>g, <3>2, <3>3 DEF Places
    <2> QED
      BY <2>1, <2>2, <2>3 DEF InOrder
  <1>17. CASE AddLink
    <2>1. RunQueueIs(q)' /\ StatesFit(w)' /\ IdleFits(q)' /\ InputFits(w)'
      BY <1>g, <1>17 DEF AddLink, RunQueueIs, StatesFit, IdleFits, InputFits
    <2>2. WaitQueueIs(w)'
      <3>0. NoTwice(w) /\ wq.head = FirstOf(w) /\ wq.tail = LastOf(w) /\ Links(wq.next, w, NIL)
            /\ wq.on = Members(w) \cup {cur} /\ wq.next[cur] = NIL
        BY <1>g, <1>17 DEF AddLink, WaitQueueIs
      <3>1. cur \in Tasks /\ cur \notin Members(w)
        BY <1>g, <1>17 DEF AddLink, Places, CurLoose
      <3>2. at' = "add_tail" /\ cur' = cur
        BY <1>17 DEF AddLink
      <3>3. CASE w = <<>>
        <4>1. wq.tail = NIL /\ Len(w) = 0
          BY <3>0, <3>3 DEF LastOf
        <4>2. wq'.head = cur /\ wq'.tail = wq.tail /\ wq'.on = wq.on /\ wq'.next = wq.next
          BY <1>17, <4>1 DEF AddLink, WaitQueues
        <4> QED
          BY <3>0, <3>2, <3>3, <4>1, <4>2 DEF WaitQueueIs, Links
      <3>4. CASE w # <<>>
        <4>1. Len(w) \in 1 .. Len(w) /\ wq.tail = w[Len(w)] /\ wq.tail \in Members(w)
                /\ wq.tail \in Tasks
              /\ wq.tail # NIL
          BY <1>l, <3>0, <3>4, ListFacts
        <4>2. wq'.head = wq.head /\ wq'.tail = wq.tail /\ wq'.on = wq.on
              /\ wq'.next[wq.tail] = cur
                   /\ \A t \in Tasks : t # wq.tail => wq'.next[t] = wq.next[t]
          BY <1>17, <4>1 DEF AddLink, WaitQueues
        <4>3. \A i \in 1 .. Len(w) : w[i] = w[Len(w)] => i = Len(w)
          BY <3>0, <4>1 DEF NoTwice
        <4>4. Links(wq'.next, w, cur)
          BY <1>l, <3>0, <4>1, <4>2, <4>3 DEF Links
        <4>5. wq'.next[cur] = NIL
          BY <3>0, <3>1, <4>1, <4>2
        <4> QED
          BY <3>0, <3>2, <3>4, <4>2, <4>4, <4>5 DEF WaitQueueIs
      <3> QED
        BY <3>3, <3>4
    <2>3. Places(q, w)'
      BY <1>g, <1>17 DEF AddLink, Places, CurLoose, ChosenLoose
    <2> QED
      BY <2>1, <2>2, <2>3 DEF InOrder
  <1>18. CASE Asleep
    <2>1. RunQueueIs(q)' /\ WaitQueueIs(w)' /\ StatesFit(w)' /\ IdleFits(q)' /\ InputFits(w)'
      BY <1>g, <1>18 DEF Asleep, RunQueueIs, WaitQueueIs, StatesFit, IdleFits, InputFits
    <2>2. Places(q, w)'
      <3>1. ~CurLoose /\ ~CurLoose' /\ ~ChosenLoose /\ ~ChosenLoose'
        BY <1>g, <1>18 DEF Asleep, StatesFit, CurLoose, ChosenLoose
      <3>2. UNCHANGED <<cur, chosen>>
        BY <1>18 DEF Asleep
      <3> QED
        BY <1>g, <3>1, <3>2 DEF Places
    <2> QED
      BY <2>1, <2>2 DEF InOrder
  <1>19. CASE Awake
    <2>1. RunQueueIs(q)' /\ StatesFit(w)' /\ IdleFits(q)' /\ InputFits(w)'
      BY <1>g, <1>19 DEF Awake, RunQueueIs, StatesFit, IdleFits, InputFits
    <2>2. WaitQueueIs(w)'
      <3>1. wq.on = Members(w) /\ cur \notin Members(w)
        BY <1>g, <1>19 DEF Awake, WaitQueueIs, Places, CurLoose
      <3>2. wq' = wq /\ at' = "check" /\ cur' = cur
        BY <1>19, <3>1 DEF Awake
      <3>3. at = "awake"
        BY <1>19 DEF Awake
      <3> QED
        BY <1>g, <3>2, <3>3 DEF WaitQueueIs
    <2>3. Places(q, w)'
      BY <1>g, <1>19 DEF Awake, Places, CurLoose, ChosenLoose
    <2> QED
      BY <2>1, <2>2, <2>3 DEF InOrder
  <1>20. CASE SilentIrq
    <2>1. RunQueueIs(q)' /\ WaitQueueIs(w)' /\ StatesFit(w)' /\ IdleFits(q)' /\ InputFits(w)'
      BY <1>g, <1>20 DEF SilentIrq, RunQueueIs, WaitQueueIs, StatesFit, IdleFits, InputFits
    <2>2. Places(q, w)'
      BY <1>g, <1>20 DEF SilentIrq, Places, CurLoose, ChosenLoose
    <2> QED
      BY <2>1, <2>2 DEF InOrder
  <1> QED
    BY <1>1, <1>2, <1>3, <1>4, <1>5, <1>6, <1>7, <1>8, <1>9, <1>10, <1>11, <1>12, <1>13,
       <1>14, <1>15, <1>16, <1>17, <1>18, <1>19, <1>20

\* run_queue_poll: the first pointer moves past the task that is polled.
LEMMA PollAdvanceFits ==
    ASSUME WaitTypes, NEW q, NEW w, InOrder(q, w), PollAdvance
    PROVE  InOrder(Tail(q), w)'
  <1> USE DEF WaitTypes, Points, Polling, Pushing, Adding, Goto, StillThere
  <1>g. RunQueueIs(q) /\ WaitQueueIs(w) /\ Places(q, w) /\ StatesFit(w) /\ IdleFits(q)
          /\ InputFits(w)
    BY DEF InOrder
  <1>a. /\ at = "poll_first" /\ at' = "poll_len" /\ q # <<>> /\ chosen = q[1]
        /\ UNCHANGED <<state, wq, input, cur, cont, hit, chosen>>
        /\ NoTwice(q) /\ NoTwice(w)
    BY <1>g DEF PollAdvance, RunQueueIs, WaitQueueIs
  <1>l. /\ Len(q) \in Nat /\ 1 \in 1 .. Len(q) /\ chosen \in Readers /\ chosen \in Members(q)
        /\ \A i \in 1 .. Len(q) : q[i] \in Tasks
    BY <1>a, ListFacts
  <1>u. PICK u : u = Tail(q)
    OBVIOUS
  <1>t. /\ NoTwice(u) /\ Len(u) = Len(q) - 1 /\ (u = <<>> <=> Len(q) = 1)
        /\ Members(u) = Members(q) \ {q[1]}
        /\ FirstOf(u) = IF u = <<>> THEN NIL ELSE q[2]
        /\ LastOf(u) = IF u = <<>> THEN NIL ELSE LastOf(q)
        /\ \A i \in 1 .. Len(u) : u[i] = q[i + 1] /\ i + 1 \in 1 .. Len(q)
    BY <1>a, <1>u, TailList DEF ButFirst
  <1>q. /\ rq.first = FirstOf(q) /\ rq.last = LastOf(q) /\ rq.len = Len(q)
        /\ Links(rq.next, q, NIL)
    BY <1>a, <1>g DEF RunQueueIs
  <1>r. rq'.first = rq.next[chosen] /\ rq'.last = rq.last /\ rq'.len = rq.len
          /\ rq'.next = rq.next
    BY DEF PollAdvance, RunQueues
  <1>1. RunQueueIs(u)'
    <2>1. rq'.first = FirstOf(u)
      BY <1>a, <1>l, <1>q, <1>r, <1>t DEF Links
    <2>2. u = <<>> => LastOf(q) = chosen
      BY <1>a, <1>l, <1>t DEF LastOf
    <2>3. rq'.len = Len(u) + 1
      BY <1>l, <1>q, <1>r, <1>t
    <2>4. Links(rq'.next, u, NIL)
      <3> SUFFICES ASSUME NEW i \in 1 .. Len(u)
                   PROVE  rq.next[u[i]] = IF i = Len(u) THEN NIL ELSE u[i + 1]
        BY <1>r DEF Links
      <3>1. rq.next[q[i + 1]] = IF i + 1 = Len(q) THEN NIL ELSE q[(i + 1) + 1]
        BY <1>q, <1>t DEF Links
      <3>2. i + 1 = Len(q) <=> i = Len(u)
        BY <1>l, <1>t
      <3>3. i # Len(u) => i + 1 \in 1 .. Len(u)
        BY <1>l, <1>t
      <3> QED
        BY <1>t, <3>1, <3>2, <3>3
    <2> QED
      BY <1>a, <1>q, <1>r, <1>t, <2>1, <2>2, <2>3, <2>4 DEF RunQueueIs
  <1>2. WaitQueueIs(w)'
    BY <1>a, <1>g DEF WaitQueueIs
  <1>3. Places(u, w)'
    <2>1. (CurLoose' <=> CurLoose) /\ ~ChosenLoose /\ ChosenLoose'
      BY <1>a DEF CurLoose, ChosenLoose
    <2>2. chosen \notin Members(w)
      BY <1>g, <1>l DEF Places
    <2>3. CurLoose => cur # chosen
      BY <1>g, <1>l DEF Places
    <2> QED
      BY <1>a, <1>g, <1>l, <1>t, <2>1, <2>2, <2>3 DEF Places
  <1>4. StatesFit(w)'
    BY <1>a, <1>g DEF StatesFit
  <1>5. IdleFits(u)'
    BY <1>a, <1>g DEF IdleFits
  <1>6. InputFits(w)'
    BY <1>a, <1>g DEF InputFits
  <1> QED
    BY <1>u, <1>1, <1>2, <1>3, <1>4, <1>5, <1>6 DEF InOrder

\* run_queue_push on an empty queue.
LEMMA PushFirstFits ==
    ASSUME WaitTypes, NEW q, NEW w, InOrder(q, w), PushFirst
    PROVE  InOrder(Append(q, cur), w)'
  <1> USE DEF WaitTypes, Points, Polling, Pushing, Adding, Goto, StillThere
  <1>g. RunQueueIs(q) /\ WaitQueueIs(w) /\ Places(q, w) /\ StatesFit(w) /\ IdleFits(q)
          /\ InputFits(w)
    BY DEF InOrder
  <1>a. /\ at = "push_first" /\ at' = "push_len" /\ q = <<>> /\ Len(q) = 0
        /\ UNCHANGED <<state, wq, input, cur, cont, hit, chosen>>
        /\ NoTwice(q) /\ NoTwice(w) /\ cur \in Readers
    BY <1>g, TasksAreFinite DEF PushFirst, RunQueueIs, WaitQueueIs, Tasks
  <1>q. /\ rq.last = cur /\ rq.len = 0 /\ rq.next[cur] = NIL
    BY <1>a, <1>g DEF RunQueueIs
  <1>r. rq'.first = cur /\ rq'.last = rq.last /\ rq'.len = rq.len /\ rq'.next = rq.next
    BY DEF PushFirst, RunQueues
  <1>p. CurLoose /\ ~CurLoose' /\ ChosenLoose /\ ChosenLoose'
          /\ cur \notin Members(q) \cup Members(w)
    BY <1>a, <1>g DEF CurLoose, ChosenLoose, Places
  <1>u. PICK u : u = Append(q, cur)
    OBVIOUS
  <1>t. /\ NoTwice(u) /\ Len(u) = 1 /\ u # <<>> /\ Members(u) = Members(q) \cup {cur}
        /\ FirstOf(u) = cur /\ LastOf(u) = cur /\ u[1] = cur
    <2>1. Appended(q, cur, u)
      BY <1>a, <1>p, <1>u, AppendList
    <2>2. Len(u) = 1 /\ u # <<>> /\ LastOf(u) = cur
      BY <1>a, <2>1 DEF Appended
    <2> QED
      BY <1>a, <2>1, <2>2 DEF Appended, LastOf
  <1>1. RunQueueIs(u)'
    <2>1. Links(rq'.next, u, NIL)
      BY <1>q, <1>r, <1>t DEF Links
    <2> QED
      BY <1>a, <1>q, <1>r, <1>t, <2>1 DEF RunQueueIs
  <1>2. WaitQueueIs(w)'
    BY <1>a, <1>g DEF WaitQueueIs
  <1>3. Places(u, w)'
    BY <1>a, <1>g, <1>p, <1>t DEF Places
  <1>4. StatesFit(w)'
    BY <1>a, <1>g DEF StatesFit
  <1>5. IdleFits(u)'
    BY <1>a, <1>g DEF IdleFits
  <1>6. InputFits(w)'
    BY <1>a, <1>g DEF InputFits
  <1> QED
    BY <1>a, <1>u, <1>1, <1>2, <1>3, <1>4, <1>5, <1>6 DEF InOrder

\* run_queue_push behind the last task.
LEMMA PushLastFits ==
    ASSUME WaitTypes, NEW q, NEW w, InOrder(q, w), PushLast
    PROVE  InOrder(Append(q, cur), w)'
  <1> USE DEF WaitTypes, Points, Polling, Pushing, Adding, Goto, StillThere
  <1>g. RunQueueIs(q) /\ WaitQueueIs(w) /\ Places(q, w) /\ StatesFit(w) /\ IdleFits(q)
          /\ InputFits(w)
    BY DEF InOrder
  <1>a. /\ at = "push_last" /\ at' = "push_len" /\ q # <<>>
        /\ UNCHANGED <<state, wq, input, cur, cont, hit, chosen>>
        /\ NoTwice(q) /\ NoTwice(w) /\ cur \in Readers
    BY <1>g, TasksAreFinite DEF PushLast, RunQueueIs, WaitQueueIs, Tasks
  <1>q. /\ rq.first = FirstOf(q) /\ rq.len = Len(q) /\ rq.next[cur] = NIL
             /\ Links(rq.next, q, cur)
    BY <1>a, <1>g DEF RunQueueIs
  <1>r. rq'.first = rq.first /\ rq'.last = cur /\ rq'.len = rq.len /\ rq'.next = rq.next
    BY DEF PushLast, RunQueues
  <1>p. CurLoose /\ ~CurLoose' /\ ChosenLoose /\ ChosenLoose'
          /\ cur \notin Members(q) \cup Members(w)
    BY <1>a, <1>g DEF CurLoose, ChosenLoose, Places
  <1>u. PICK u : u = Append(q, cur)
    OBVIOUS
  <1>t. /\ NoTwice(u) /\ Len(u) = Len(q) + 1 /\ u # <<>> /\ Members(u) = Members(q) \cup {cur}
        /\ FirstOf(u) = FirstOf(q) /\ LastOf(u) = cur
        /\ \A i \in 1 .. Len(u) : u[i] = IF i = Len(u) THEN cur ELSE q[i]
    BY <1>a, <1>p, <1>u, AppendList DEF Appended
  <1>l. Len(q) \in Nat
    BY <1>a, ListFacts
  <1>1. RunQueueIs(u)'
    <2>1. Links(rq'.next, u, NIL)
      <3> SUFFICES ASSUME NEW i \in 1 .. Len(u)
                   PROVE  rq.next[u[i]] = IF i = Len(u) THEN NIL ELSE u[i + 1]
        BY <1>r DEF Links
      <3>1. CASE i = Len(u)
        BY <1>q, <1>t, <3>1
      <3>2. CASE i # Len(u)
        <4>1. i \in 1 .. Len(q) /\ i + 1 \in 1 .. Len(u) /\ (i = Len(q) <=> i + 1 = Len(u))
          BY <1>l, <1>t, <3>2
        <4>2. rq.next[q[i]] = IF i = Len(q) THEN cur ELSE q[i + 1]
          BY <1>q, <4>1 DEF Links
        <4> QED
          BY <1>t, <3>2, <4>1, <4>2
      <3> QED
        BY <3>1, <3>2
    <2>2. rq'.len = Len(u) - 1
      BY <1>l, <1>q, <1>r, <1>t
    <2> QED
      BY <1>a, <1>q, <1>r, <1>t, <2>1, <2>2 DEF RunQueueIs
  <1>2. WaitQueueIs(w)'
    BY <1>a, <1>g DEF WaitQueueIs
  <1>3. Places(u, w)'
    BY <1>a, <1>g, <1>p, <1>t DEF Places
  <1>4. StatesFit(w)'
    BY <1>a, <1>g DEF StatesFit
  <1>5. IdleFits(u)'
    BY <1>a, <1>g DEF IdleFits
  <1>6. InputFits(w)'
    BY <1>a, <1>g DEF InputFits
  <1> QED
    BY <1>a, <1>u, <1>1, <1>2, <1>3, <1>4, <1>5, <1>6 DEF InOrder

\* wait_queue_add is done: the reader is on the wait queue.
LEMMA AddTailFits ==
    ASSUME WaitTypes, NEW q, NEW w, InOrder(q, w), AddTail
    PROVE  InOrder(q, Append(w, cur))'
  <1> USE DEF WaitTypes, Points, Polling, Pushing, Adding, Goto, StillThere
  <1>g. RunQueueIs(q) /\ WaitQueueIs(w) /\ Places(q, w) /\ StatesFit(w) /\ IdleFits(q)
          /\ InputFits(w)
    BY DEF InOrder
  <1>a. /\ at = "add_tail" /\ at' = "asleep"
        /\ UNCHANGED <<state, rq, input, cur, cont, hit, chosen>>
        /\ NoTwice(q) /\ NoTwice(w) /\ cur \in Readers
    BY <1>g, TasksAreFinite DEF AddTail, RunQueueIs, WaitQueueIs, Tasks
  <1>q. /\ wq.head = IF w = <<>> THEN cur ELSE FirstOf(w)
        /\ wq.tail = LastOf(w) /\ wq.next[cur] = NIL /\ Links(wq.next, w, cur)
        /\ wq.on = Members(w) \cup {cur}
    BY <1>a, <1>g DEF WaitQueueIs
  <1>r. wq'.head = wq.head /\ wq'.tail = cur /\ wq'.on = wq.on /\ wq'.next = wq.next
    BY DEF AddTail, WaitQueues
  <1>p. CurLoose /\ ~CurLoose' /\ ~ChosenLoose /\ ~ChosenLoose'
          /\ cur \notin Members(q) \cup Members(w)
    BY <1>a, <1>g DEF CurLoose, ChosenLoose, Places
  <1>u. PICK u : u = Append(w, cur)
    OBVIOUS
  <1>t. /\ NoTwice(u) /\ Len(u) = Len(w) + 1 /\ u # <<>> /\ Members(u) = Members(w) \cup {cur}
        /\ FirstOf(u) = (IF w = <<>> THEN cur ELSE FirstOf(w)) /\ LastOf(u) = cur
        /\ \A i \in 1 .. Len(u) : u[i] = IF i = Len(u) THEN cur ELSE w[i]
    BY <1>a, <1>p, <1>u, AppendList DEF Appended
  <1>l. Len(w) \in Nat
    BY <1>a, ListFacts
  <1>1. RunQueueIs(q)'
    BY <1>a, <1>g DEF RunQueueIs
  <1>2. WaitQueueIs(u)'
    <2>1. Links(wq'.next, u, NIL)
      <3> SUFFICES ASSUME NEW i \in 1 .. Len(u)
                   PROVE  wq.next[u[i]] = IF i = Len(u) THEN NIL ELSE u[i + 1]
        BY <1>r DEF Links
      <3>1. CASE i = Len(u)
        BY <1>q, <1>t, <3>1
      <3>2. CASE i # Len(u)
        <4>1. i \in 1 .. Len(w) /\ i + 1 \in 1 .. Len(u) /\ (i = Len(w) <=> i + 1 = Len(u))
          BY <1>l, <1>t, <3>2
        <4>2. wq.next[w[i]] = IF i = Len(w) THEN cur ELSE w[i + 1]
          BY <1>q, <4>1 DEF Links
        <4> QED
          BY <1>t, <3>2, <4>1, <4>2
      <3> QED
        BY <3>1, <3>2
    <2> QED
      BY <1>a, <1>q, <1>r, <1>t, <2>1 DEF WaitQueueIs
  <1>3. Places(q, u)'
    BY <1>a, <1>g, <1>p, <1>t DEF Places
  <1>4. StatesFit(u)'
    BY <1>a, <1>g, <1>t DEF StatesFit
  <1>5. IdleFits(q)'
    BY <1>a, <1>g DEF IdleFits
  <1>6. InputFits(u)'
    BY <1>a, <1>g DEF InputFits
  <1> QED
    BY <1>a, <1>u, <1>1, <1>2, <1>3, <1>4, <1>5, <1>6 DEF InOrder

\* An interrupt outside the windows moves the sleepers to the run queue, at whatever
\* point of a poll or a push it comes.
LEMMA KeyIrqFits ==
    ASSUME WaitTypes, NEW q, NEW w, InOrder(q, w), KeyIrq, ~Window
    PROVE  InOrder(q \o w, <<>>)'
  <1> USE DEF WaitTypes, Points, Polling, Pushing, Adding
  <1>g. RunQueueIs(q) /\ WaitQueueIs(w) /\ Places(q, w) /\ StatesFit(w) /\ IdleFits(q)
          /\ InputFits(w)
    BY DEF InOrder
  <1>w. /\ at \notin {"sleep", "add", "add_link", "add_tail", "poll_last", "push_first",
                      "push_last", "halt"}
        /\ at = "poll_len" => rq.first # NIL
        /\ at = "push_len" => rq.len # 0
        /\ at \in {"decide", "switch"}
             /\ chosen = Swapper => ~(cur = Swapper \/ state[cur] # "running")
    BY DEF Window
  <1>a. /\ at' = (IF at = "halted" THEN "enter" ELSE at)
        /\ UNCHANGED <<state, cur, chosen, cont>>
        /\ NoTwice(q) /\ NoTwice(w)
    BY <1>g DEF KeyIrq, RunQueueIs, WaitQueueIs
  <1>l. /\ Len(q) \in Nat /\ (Len(q) = 0 <=> q = <<>>)
             /\ (q # <<>> => 1 \in 1 .. Len(q) /\ Len(q) \in 1 .. Len(q))
        /\ Len(w) \in Nat /\ (Len(w) = 0 <=> w = <<>>) /\ w \in Seq(Readers)
        /\ \A i \in 1 .. Len(w) : w[i] \in Members(w)
    BY <1>a, ListFacts
  <1>q. /\ rq.first = FirstOf(q) /\ rq.last = LastOf(q) /\ Links(rq.next, q, NIL)
        /\ rq.len = Len(q) + (IF at = "poll_len" THEN 1 ELSE IF at = "push_len" THEN -1 ELSE 0)
        /\ at = "poll_len" => q # <<>>
        /\ at = "poll_first" => q # <<>> /\ chosen = q[1]
        /\ at = "push_link" => rq.next[cur] = NIL
        /\ at = "push_len" => cur \in Members(q)
    <2>1. at = "poll_len" => q # <<>>
      BY <1>g, <1>w DEF RunQueueIs, FirstOf
    <2> QED
      BY <1>g, <1>l, <1>w, <2>1 DEF RunQueueIs
  <1>h. wq.head = FirstOf(w) /\ wq.on = Members(w) /\ Links(wq.next, w, NIL)
    BY <1>g, <1>w DEF WaitQueueIs
  <1>u. PICK v : v = q \o w
    OBVIOUS
  <1>v. /\ NoTwice(v) /\ Len(v) = Len(q) + Len(w) /\ Members(v) = Members(q) \cup Members(w)
        /\ \A i \in 1 .. Len(q) : v[i] = q[i]
        /\ \A i \in 1 .. Len(w) : w[i] = v[Len(q) + i]
    BY <1>a, <1>g, <1>u, ConcatList DEF Joined, Places
  <1>c. Chain(wq) = w
    BY <1>a, <1>h, LinkedIs DEF Chain, WaitQueues
  <1>r. PICK r : r = wakeup(rq, w)
    OBVIOUS
  <1>d. PICK d \in Int : d = IF at = "poll_len" THEN 1 ELSE IF at = "push_len" THEN -1 ELSE 0
    OBVIOUS
  <1>s. Lists(r, v, Len(v), d) /\ Keeps(rq.next, r.next, v)
    <2>1. Lists(rq, v, Len(q), d)
      <3>1. rq.first = IF Len(q) = 0 THEN NIL ELSE v[1]
        BY <1>l, <1>q, <1>v DEF FirstOf
      <3>2. rq.last = IF Len(q) = 0 THEN NIL ELSE v[Len(q)]
        BY <1>l, <1>q, <1>v DEF LastOf
      <3>3. rq.len = Len(q) + d /\ (rq.len = 0 <=> Len(q) = 0)
        <4>1. CASE at = "poll_len"
          BY <1>d, <1>l, <1>q, <4>1
        <4>2. CASE at = "push_len"
          <5>1. rq.len # 0 /\ rq.len = Len(q) - 1 /\ d = -1
            BY <1>d, <1>l, <1>q, <1>w, <4>2
          <5>2. rq.len \in Nat
            BY DEF RunQueues
          <5> QED
            BY <1>l, <5>1, <5>2
        <4>3. CASE at \notin {"poll_len", "push_len"}
          BY <1>d, <1>l, <1>q, <4>3
        <4> QED
          BY <4>1, <4>2, <4>3
      <3>4. ASSUME NEW i \in 1 .. Len(q)
                     PROVE rq.next[v[i]] = IF i = Len(q) THEN NIL ELSE v[i + 1]
        <4>1. rq.next[q[i]] = IF i = Len(q) THEN NIL ELSE q[i + 1]
          BY <1>q DEF Links
        <4>2. i # Len(q) => i + 1 \in 1 .. Len(q)
          BY <1>l
        <4> QED
          BY <1>v, <4>1, <4>2
      <3> QED
        BY <3>1, <3>2, <3>3, <3>4 DEF Lists
    <2>2. \A n \in 1 .. Len(w) : state[w[n]] = "interruptible"
      BY <1>g, <1>l DEF StatesFit
    <2> QED
      BY <1>d, <1>l, <1>r, <1>v, <2>1, <2>2, WakeupLists
  <1>k. rq' = r /\ wq' = Detach(wq, w)
    BY <1>c, <1>r DEF KeyIrq
  <1>1. RunQueueIs(v)'
    <2>0. Len(v) \in Nat /\ (Len(v) = 0 <=> v = <<>>) /\ (q # <<>> => v # <<>> /\ v[1] = q[1])
      <3>1. Len(v) \in Nat /\ (Len(v) = 0 <=> v = <<>>)
        BY <1>v, ListFacts
      <3> QED
        BY <1>l, <1>v, <3>1
    <2>1. r.first = FirstOf(v) /\ r.last = LastOf(v) /\ r.len = Len(v) + d
      BY <1>s, <2>0 DEF Lists, FirstOf, LastOf
    <2>2. Links(r.next, v, NIL)
      BY <1>s DEF Lists, Links
    <2>3. at = "push_link" => r.next[cur] = NIL
      <3>1. at = "push_link" => cur \in Tasks /\ cur \notin Members(v)
        BY <1>g, <1>v DEF Places, CurLoose
      <3> QED
        BY <1>q, <1>s, <3>1 DEF Keeps
    <2>4. at' \notin {"poll_last", "push_first", "push_last"} /\ (at' = "poll_len" => v # <<>>)
      BY <1>a, <1>q, <1>w, <2>0
    <2>5. r.len = IF at' = "poll_len" THEN Len(v) + 1
                  ELSE IF at' = "push_len" THEN Len(v) - 1 ELSE Len(v)
      BY <1>a, <1>d, <2>0, <2>1
    <2>6. at' = "poll_first" => v # <<>> /\ chosen' = v[1]
      BY <1>a, <1>q, <2>0
    <2>7. at' = "push_len" => cur' \in Members(v)
      BY <1>a, <1>q, <1>v
    <2>8. at' = "push_link" => rq'.next[cur'] = NIL
      BY <1>a, <1>k, <2>3
    <2> QED
      BY <1>k, <1>v, <2>1, <2>2, <2>4, <2>5, <2>6, <2>7, <2>8 DEF RunQueueIs
  <1>2. WaitQueueIs(<<>>)'
    <2>1. wq'.head = NIL /\ wq'.tail = NIL /\ wq'.on = wq.on \ {w[i] : i \in DOMAIN w}
      BY <1>k DEF Detach
    <2>2. DOMAIN w = 1 .. Len(w)
      BY <1>l
    <2>3. wq'.on = {}
      BY <1>h, <2>1, <2>2 DEF Members
    <2>4. Members(<<>>) = {} /\ NoTwice(<<>>) /\ FirstOf(<<>>) = NIL /\ LastOf(<<>>) = NIL
      BY DEF Members, NoTwice, FirstOf, LastOf
    <2>5. \A next, end : Links(next, <<>>, end)
      BY DEF Links
    <2>6. at' \notin {"add_link", "add_tail"}
      BY <1>a, <1>w
    <2> QED
      BY <2>1, <2>3, <2>4, <2>5, <2>6 DEF WaitQueueIs
  <1>3. Places(v, <<>>)'
    <2>1. (CurLoose' <=> CurLoose) /\ (ChosenLoose' <=> ChosenLoose)
      BY <1>a DEF CurLoose, ChosenLoose
    <2>2. Members(<<>>) = {}
      BY DEF Members
    <2> QED
      BY <1>a, <1>g, <1>v, <2>1, <2>2 DEF Places
  <1>4. StatesFit(<<>>)'
    <2>1. Members(<<>>) = {}
      BY DEF Members
    <2> QED
      BY <1>a, <1>g, <2>1 DEF StatesFit
  <1>5. IdleFits(v)'
    BY <1>a, <1>g, <1>w DEF IdleFits
  <1>6. InputFits(<<>>)'
    BY <1>a, <1>w DEF InputFits
  <1> QED
    BY <1>u, <1>1, <1>2, <1>3, <1>4, <1>5, <1>6 DEF InOrder

\* The run queue the program starts with.
LEMMA OrderIs ==
    ASSUME NEW order \in Orders
    PROVE  /\ NoTwice(order) /\ Len(order) = Cardinality(Readers) /\ Members(order) = Readers
           /\ Queued(order) \in RunQueues
           /\ Queued(order).first = FirstOf(order) /\ Queued(order).last = LastOf(order)
           /\ Queued(order).len = Len(order) /\ Links(Queued(order).next, order, NIL)
  <1>n. PICK n \in Nat : n = Cardinality(Readers) /\ n >= 1
    BY TasksAreFinite
  <1>1. order \in [1 .. n -> Readers] /\ \A i, j \in 1 .. n : order[i] = order[j] => i = j
    BY <1>n DEF Orders
  <1>2. order \in Seq(Readers) /\ Len(order) = n
    BY <1>1, <1>n
  <1>3. NoTwice(order)
    BY <1>1, <1>2 DEF NoTwice
  <1>4. Members(order) = Readers
    <2>1. order \in Injection(1 .. n, Readers)
      BY <1>1 DEF Injection, IsInjective
    <2>2. Cardinality(1 .. n) = Cardinality(Readers)
      BY <1>n, FS_Interval
    <2>3. order \in Surjection(1 .. n, Readers)
      BY <2>1, <2>2, WaitAssumption, FS_Injection
    <2> QED
      BY <1>1, <1>2, <2>3 DEF Surjection, Members
  <1>5. PICK r : r = Queued(order)
    OBVIOUS
  <1>6. PICK next : next = [t \in Tasks |->
                              IF \E i \in 1 .. (n - 1) : order[i] = t
                              THEN order[(CHOOSE i \in 1 .. n : order[i] = t) + 1] ELSE NIL]
    OBVIOUS
  <1>7. r = [first |-> order[1], last |-> order[n], len |-> n, next |-> next]
    BY <1>5, <1>6, <1>n DEF Queued
  <1>8. \A i \in 1 .. n : (CHOOSE j \in 1 .. n : order[j] = order[i]) = i
    BY <1>1
  <1>9. next \in [Tasks -> Pointers]
    <2> SUFFICES ASSUME NEW t \in Tasks PROVE next[t] \in Pointers
      BY <1>6
    <2>1. CASE \E i \in 1 .. (n - 1) : order[i] = t
      <3>1. PICK i \in 1 .. (n - 1) : order[i] = t
        BY <2>1
      <3>2. i \in 1 .. n /\ i + 1 \in 1 .. n
        BY <1>n
      <3>3. next[t] = order[i + 1]
        <4>1. (CHOOSE j \in 1 .. n : order[j] = t) = i
          BY <1>8, <3>1, <3>2
        <4> QED
          BY <1>6, <2>1, <4>1
      <3> QED
        BY <1>1, <3>2, <3>3 DEF Pointers
    <2>2. CASE ~(\E i \in 1 .. (n - 1) : order[i] = t)
      BY <1>6, <2>2 DEF Pointers
    <2> QED
      BY <2>1, <2>2
  <1>10. Links(next, order, NIL)
    <2> SUFFICES ASSUME NEW i \in 1 .. n
                 PROVE  next[order[i]] = IF i = n THEN NIL ELSE order[i + 1]
      BY <1>2 DEF Links
    <2>0. order[i] \in Tasks
      BY <1>1, TasksAreFinite
    <2>1. CASE i = n
      <3>1. \A j \in 1 .. (n - 1) : j \in 1 .. n /\ j # n
        BY <1>n
      <3>2. ~(\E j \in 1 .. (n - 1) : order[j] = order[i])
        BY <1>1, <2>1, <3>1
      <3> QED
        BY <1>6, <2>0, <2>1, <3>2
    <2>2. CASE i # n
      <3>1. i \in 1 .. (n - 1)
        BY <1>n, <2>2
      <3> QED
        BY <1>6, <1>8, <2>0, <2>2, <3>1
    <2> QED
      BY <2>1, <2>2
  <1>11. r \in RunQueues
    <2>1. order[1] \in Pointers /\ order[n] \in Pointers
      BY <1>1, <1>n DEF Pointers
    <2> QED
      BY <1>7, <1>9, <2>1 DEF RunQueues
  <1>12. order # <<>>
    BY <1>2, <1>n
  <1>13. r.first = FirstOf(order) /\ r.last = LastOf(order) /\ r.len = Len(order) /\ r.next = next
    BY <1>2, <1>7, <1>12 DEF FirstOf, LastOf
  <1> QED
    BY <1>2, <1>3, <1>4, <1>5, <1>10, <1>11, <1>13, <1>n

\* The invariant at the start, ...
LEMMA InitWaitInv == WaitInit => WaitInv
  <1> SUFFICES ASSUME WaitInit PROVE WaitInv
    OBVIOUS
  <1>1. PICK order \in Orders : rq = Queued(order)
    BY DEF WaitInit
  <1>2. /\ NoTwice(order) /\ Len(order) = Cardinality(Readers) /\ Members(order) = Readers
        /\ rq \in RunQueues
        /\ rq.first = FirstOf(order) /\ rq.last = LastOf(order)
        /\ rq.len = Len(order) /\ Links(rq.next, order, NIL)
    BY <1>1, OrderIs
  <1>3. /\ state = [t \in Tasks |-> IF t = Swapper THEN "running" ELSE "queued"]
        /\ wq = [head |-> NIL, tail |-> NIL, next |-> [t \in Tasks |-> NIL],
                 prev |-> [t \in Tasks |-> NIL], on |-> {}]
        /\ input = 0 /\ cur = Swapper /\ at = "enter" /\ chosen = NIL /\ hit = FALSE
        /\ cont = [t \in Tasks |-> IF t = Swapper THEN "halt" ELSE "check"]
    BY DEF WaitInit
  <1>4. wq \in WaitQueues /\ wq.head = NIL /\ wq.tail = NIL /\ wq.on = {}
    BY <1>3 DEF WaitQueues, Pointers
  <1>5. WaitTypes
    <2>1. input \in 0 .. InputMax
      BY <1>3, WaitAssumption
    <2>2. state \in [Tasks -> TaskStates]
      BY <1>3 DEF TaskStates
    <2>3. cont \in [Tasks -> {"enter", "check", "awake", "halt"}]
            /\ \A t \in Tasks : cont[t] = "halt" <=> t = Swapper
      BY <1>3
    <2> QED
      BY <1>2, <1>3, <1>4, <2>1, <2>2, <2>3, TasksAreFinite
      DEF WaitTypes, Points, Polling, Pushing, Adding
  <1>6. Members(<<>>) = {} /\ NoTwice(<<>>) /\ FirstOf(<<>>) = NIL /\ LastOf(<<>>) = NIL
    BY DEF Members, NoTwice, FirstOf, LastOf
  <1>7. \A next, end : Links(next, <<>>, end)
    BY DEF Links
  <1>8. InOrder(order, <<>>)
    <2>1. RunQueueIs(order)
      BY <1>2, <1>3 DEF RunQueueIs
    <2>2. WaitQueueIs(<<>>)
      BY <1>3, <1>4, <1>6, <1>7 DEF WaitQueueIs
    <2>3. Places(order, <<>>)
      BY <1>2, <1>3, <1>6, TasksAreFinite DEF Places, CurLoose, ChosenLoose, Polling, Pushing
    <2>4. StatesFit(<<>>)
      <3>1. state[Swapper] = "running"
        BY <1>3, TasksAreFinite
      <3> QED
        BY <1>3, <1>6, <3>1 DEF StatesFit, Adding, Polling, Pushing
    <2>5. IdleFits(order)
      BY <1>3 DEF IdleFits, Pushing
    <2>6. InputFits(<<>>)
      BY DEF InputFits, WaitInit
    <2> QED
      BY <2>1, <2>2, <2>3, <2>4, <2>5, <2>6 DEF InOrder
  <1> QED
    BY <1>5, <1>8 DEF WaitInv

\* ... kept by every step, ...
LEMMA WaitInvStep == WaitInv /\ [WaitNext]_waitVars => WaitInv'
  <1> SUFFICES ASSUME WaitInv, [WaitNext]_waitVars PROVE WaitInv'
    OBVIOUS
  <1>t. WaitTypes /\ WaitTypes'
    BY TypesStep DEF WaitInv
  <1>u. CASE UNCHANGED waitVars
    BY <1>t, <1>u DEF waitVars, WaitInv, InOrder, RunQueueIs, WaitQueueIs, Places, StatesFit,
       IdleFits, InputFits,
         CurLoose, ChosenLoose
  <1>k. CASE KeyIrq
    <2> SUFFICES ASSUME ~hit' PROVE \E q, w : InOrder(q, w)'
      BY <1>t DEF WaitInv
    <2>1. ~hit /\ ~Window
      BY <1>k, <1>t DEF KeyIrq, WaitTypes
    <2>2. PICK q, w : InOrder(q, w)
      BY <2>1 DEF WaitInv
    <2>3. InOrder(q \o w, <<>>)'
      BY <1>k, <1>t, <2>1, <2>2, KeyIrqFits
    <2> QED
      BY <2>3
  <1>n. CASE Thread \/ SilentIrq
    <2> SUFFICES ASSUME ~hit' PROVE \E q, w : InOrder(q, w)'
      BY <1>t DEF WaitInv
    <2>h. hit' = hit
      BY <1>n DEF Thread, SilentIrq, StillThere, Syscall, Read, Yield, SwapperYield,
         PollFirst, PollAdvance, PollLen, PollLast, PollNext, Decide, PushNext, PushLink,
         PushFirst, PushLast, PushLen, Switch, Halt, Check, Sleep, Add, AddLink, AddTail,
         Asleep, Awake
    <2>g. PICK q, w : InOrder(q, w)
      BY <2>h DEF WaitInv
    <2>1. CASE PollAdvance
      <3>1. InOrder(Tail(q), w)'
        BY <1>t, <2>g, <2>1, PollAdvanceFits
      <3> QED
        BY <3>1
    <2>2. CASE PushFirst
      <3>1. InOrder(Append(q, cur), w)'
        BY <1>t, <2>g, <2>2, PushFirstFits
      <3> QED
        BY <3>1
    <2>3. CASE PushLast
      <3>1. InOrder(Append(q, cur), w)'
        BY <1>t, <2>g, <2>3, PushLastFits
      <3> QED
        BY <3>1
    <2>4. CASE AddTail
      <3>1. InOrder(q, Append(w, cur))'
        BY <1>t, <2>g, <2>4, AddTailFits
      <3> QED
        BY <3>1
    <2>5. CASE ~(PollAdvance \/ PushFirst \/ PushLast \/ AddTail)
      <3>1. InOrder(q, w)'
        BY <1>n, <1>t, <2>g, <2>5, ListsKept DEF Thread
      <3> QED
        BY <3>1
    <2> QED
      BY <2>1, <2>2, <2>3, <2>4, <2>5
  <1> QED
    BY <1>u, <1>k, <1>n DEF WaitNext

\* ... and what follows from it.
LEMMA WaitInvCorrect == WaitInv => WaitCorrect
  <1> SUFFICES ASSUME WaitInv PROVE WaitCorrect
    OBVIOUS
  <1>t. WaitTypes
    BY DEF WaitInv
  <1>1. ASSUME NEW q, NEW w, InOrder(q, w),
               at \in {"enter", "check", "halt", "halted", "asleep", "awake"}
        PROVE  /\ Queue = q /\ Chain(wq) = w
               /\ \A t : InQueue(t) <=> t \in Members(q)
               /\ \A t : OnWaitQueue(t) <=> t \in Members(w)
               /\ rq.len = Len(q) /\ rq.last = LastOf(q) /\ NoTwice(q)
    <2>1. /\ NoTwice(q) /\ rq.first = FirstOf(q) /\ rq.last = LastOf(q) /\ rq.len = Len(q)
          /\ Links(rq.next, q, NIL)
      BY <1>1 DEF InOrder, RunQueueIs
    <2>2. NoTwice(w) /\ wq.head = FirstOf(w) /\ Links(wq.next, w, NIL)
      BY <1>1 DEF InOrder, WaitQueueIs
    <2>3. rq.next \in [Tasks -> Pointers] /\ wq.next \in [Tasks -> Pointers]
      BY <1>t DEF WaitTypes, RunQueues, WaitQueues
    <2>4. Queue = q /\ Chain(wq) = w
      BY <2>1, <2>2, <2>3, LinkedIs DEF Queue, Chain
    <2>5. DOMAIN q = 1 .. Len(q) /\ DOMAIN w = 1 .. Len(w)
      BY <2>1, <2>2, ListFacts
    <2> QED
      BY <2>1, <2>4, <2>5 DEF InQueue, OnWaitQueue, Members
  <1>2. WaitTypeOK
    <2>1. {rq.first, rq.last, wq.head, wq.tail} \subseteq Readers \cup {NIL} /\ rq.len \in Nat
      BY <1>t DEF WaitTypes, RunQueues, WaitQueues, Pointers
    <2>2. ASSUME ~hit PROVE rq.len <= Cardinality(Readers)
      <3>1. PICK q, w : InOrder(q, w)
        BY <2>2 DEF WaitInv
      <3>2. NoTwice(q) /\ Len(q) \in 0 .. Cardinality(Readers) /\ Cardinality(Readers) \in Nat
        BY <3>1, DistinctLen, TasksAreFinite DEF InOrder, RunQueueIs
      <3>3. CASE at = "poll_len"
        <4>1. chosen \in Readers /\ chosen \notin Members(q) /\ rq.len = Len(q) + 1
          BY <1>t, <3>1, <3>3 DEF WaitTypes, InOrder, Places, ChosenLoose, RunQueueIs
        <4>2. Appended(q, chosen, Append(q, chosen))
          BY <3>2, <4>1, AppendList
        <4>3. PICK u : NoTwice(u) /\ Len(u) = Len(q) + 1
          BY <4>2 DEF Appended
        <4>4. Len(u) \in 0 .. Cardinality(Readers)
          BY <4>3, DistinctLen
        <4> QED
          BY <3>2, <4>1, <4>3, <4>4
      <3>4. CASE at # "poll_len"
        <4>1. rq.len = Len(q) \/ rq.len = Len(q) - 1
          BY <3>1, <3>4 DEF InOrder, RunQueueIs
        <4> QED
          BY <3>2, <4>1
      <3> QED
        BY <3>3, <3>4
    <2> QED
      BY <1>t, <2>1, <2>2 DEF WaitTypes, WaitTypeOK, TaskStates
  <1>3. NobodyLost
    <2> SUFFICES ASSUME ~hit, at \in {"enter", "check", "halt", "halted", "asleep", "awake"}
                 PROVE  /\ \A t \in Readers : t = cur \/ InQueue(t) \/ OnWaitQueue(t)
                        /\ \A t \in Readers : ~(InQueue(t) /\ OnWaitQueue(t))
                        /\ rq.len = Len(Queue)
                        /\ rq.last = IF rq.len = 0 THEN NIL ELSE Queue[rq.len]
      BY DEF NobodyLost
    <2>1. PICK q, w : InOrder(q, w)
      BY DEF WaitInv
    <2>2. /\ Queue = q /\ Chain(wq) = w
          /\ \A t : InQueue(t) <=> t \in Members(q)
          /\ \A t : OnWaitQueue(t) <=> t \in Members(w)
          /\ rq.len = Len(q) /\ rq.last = LastOf(q) /\ NoTwice(q)
      BY <1>1, <2>1
    <2>3. ~ChosenLoose
      BY DEF ChosenLoose, Pushing
    <2>4. Len(q) = 0 <=> q = <<>>
      BY <2>2, ListFacts
    <2>5. rq.last = IF rq.len = 0 THEN NIL ELSE Queue[rq.len]
      BY <2>2, <2>4 DEF LastOf
    <2>6. Places(q, w)
      BY <2>1 DEF InOrder
    <2> QED
      BY <2>2, <2>3, <2>5, <2>6 DEF Places
  <1>4. NoSleepOnInput
    <2> SUFFICES ASSUME ~hit, at \in {"enter", "check", "halt", "halted"}, input > 0,
                        NEW t \in Readers
                 PROVE  ~OnWaitQueue(t)
      BY DEF NoSleepOnInput
    <2>1. PICK q, w : InOrder(q, w)
      BY DEF WaitInv
    <2>2. OnWaitQueue(t) <=> t \in Members(w)
      BY <1>1, <2>1
    <2>3. w = <<>>
      BY <2>1 DEF InOrder, InputFits
    <2> QED
      BY <2>2, <2>3 DEF Members
  <1>5. HaltsOnlyIdle
    <2> SUFFICES ASSUME ~hit, at = "halted" PROVE rq.len = 0
      BY DEF HaltsOnlyIdle
    <2>1. PICK q, w : InOrder(q, w)
      BY DEF WaitInv
    <2>2. rq.len = Len(q)
      BY <1>1, <2>1
    <2>3. q = <<>>
      BY <2>1 DEF InOrder, IdleFits
    <2> QED
      BY <2>2, <2>3
  <1> QED
    BY <1>2, <1>3, <1>4, <1>5 DEF WaitCorrect

\* Between any two stores of wait_event, of the run queue and of the idle task, for any
\* set of readers: unless an interrupt has come in one of the windows, no reader is lost
\* from both queues, none sleeps while there is input, and the processor halts only with
\* an empty run queue (wait_event, wakeup, run_queue_push, run_queue_poll).
THEOREM WaitIsCorrect == WaitSpec => []WaitCorrect
  <1>1. WaitInit => WaitInv
    BY InitWaitInv
  <1>2. WaitInv /\ [WaitNext]_waitVars => WaitInv'
    BY WaitInvStep
  <1>3. WaitInv => WaitCorrect
    BY WaitInvCorrect
  <1> QED
    BY <1>1, <1>2, <1>3, PTL DEF WaitSpec
=============================================================================
