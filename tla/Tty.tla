-------------------------------- MODULE Tty --------------------------------
(***************************************************************************)
(* Terminals (kernel/core/tty.c): input and output rings, the screen that  *)
(* shows the active one, and the keyboard interrupt, which may come        *)
(* between any two steps of a read or a write - the kernel runs with       *)
(* interrupts enabled - and puts characters into the input ring of the     *)
(* active terminal or makes another terminal the active one.               *)
(*                                                                         *)
(* Reads and writes are steps of one thread: neither calls the scheduler   *)
(* once there is something to do.  Sleeping is the subject of WaitIrq.     *)
(* Characters are numbered per terminal in the order they are accepted and *)
(* in the order they are written.                                          *)
(***************************************************************************)
EXTENDS Constants, Sequences, Functions

CONSTANTS
  TTY_INPUT_BUF_SIZE,
  TTY_OUTPUT_BUF_SIZE,
  CounterMod,       \* values of a size_t counter, a multiple of both sizes
  MaxTyped,         \* bound on the characters accepted
  MaxWritten,       \* bound on the characters written
  MaxCount          \* bound on the count of one read or write

ASSUME TtyAssumption ==
  /\ CounterMod \in Nat
  /\ TTY_INPUT_BUF_SIZE \in Nat \ {0} /\ TTY_OUTPUT_BUF_SIZE \in Nat \ {0}
  /\ CounterMod % TTY_INPUT_BUF_SIZE = 0 /\ CounterMod >= 2 * TTY_INPUT_BUF_SIZE
  /\ CounterMod % TTY_OUTPUT_BUF_SIZE = 0 /\ CounterMod >= 2 * TTY_OUTPUT_BUF_SIZE

VARIABLES
  in, out,          \* rings: [head, tail, buf]
  active,           \* ctx.active
  screen,           \* what the console got since it was cleared
  thread,           \* the read or write in progress
  typed, got,       \* number of characters accepted and read, per terminal
  written,          \* number of characters written, per terminal
  torn              \* a switch of terminals hit a write between its
                    \* bookkeeping and its output

ttyVars == <<in, out, active, screen, thread, typed, got, written, torn>>
-----------------------------------------------------------------------------
Used(r) == (r.head - r.tail) % CounterMod
Inc(c) == (c + 1) % CounterMod
Slot(c, size) == c % size
Contents(r, size) == [i \in 1 .. Used(r) |-> r.buf[Slot((r.tail + i - 1) % CounterMod, size)]]

Total(f) == FoldFunction(+, 0, f)

Idle == [op |-> "idle", tty |-> 0, left |-> 0, step |-> "none", copied |-> <<>>]
Ring(size) == [head |-> 0, tail |-> 0, buf |-> [i \in 0 .. (size - 1) |-> 0]]

(* tty_system_init.                                                        *)
TtyInit ==
  /\ in = [t \in Ttys |-> Ring(TTY_INPUT_BUF_SIZE)]
  /\ out = [t \in Ttys |-> Ring(TTY_OUTPUT_BUF_SIZE)]
  /\ active = 0
  /\ screen = <<>>
  /\ thread = Idle
  /\ typed = [t \in Ttys |-> 0]
  /\ got = [t \in Ttys |-> 0]
  /\ written = [t \in Ttys |-> 0]
  /\ torn = FALSE
-----------------------------------------------------------------------------
(* The keyboard interrupt.                                                 *)

(* tty_input_put: a full ring drops the character.                         *)
InputPut(s) ==
  IF Used(s.ring) >= TTY_INPUT_BUF_SIZE
  THEN s
  ELSE [ring  |-> [head |-> Inc(s.ring.head), tail |-> s.ring.tail,
                   buf |-> [s.ring.buf EXCEPT
                              ![Slot(s.ring.head, TTY_INPUT_BUF_SIZE)] = s.typed + 1]],
        typed |-> s.typed + 1]

Type(new) ==
  /\ in' = [in EXCEPT ![active] = new.ring]
  /\ typed' = [typed EXCEPT ![active] = new.typed]
  /\ Total(typed') <= MaxTyped
  /\ UNCHANGED <<out, active, screen, thread, got, written, torn>>

Current == [ring |-> in[active], typed |-> typed[active]]

(* A character is one call, an arrow key is three: ESC, [ and a letter.    *)
KeyChar == Type(InputPut(Current))
KeyArrow == Type(InputPut(InputPut(InputPut(Current))))

(* tty_redraw: clear, then the ring from its tail.                         *)
tty_redraw(t) == screen' = Contents(out[t], TTY_OUTPUT_BUF_SIZE)

InWindow(t) == \/ thread.step = "put"
               \/ thread.step = "test" /\ thread.tty = t

(* Alt and a function key.                                                 *)
tty_activate(t) ==
  /\ t \in Ttys
  /\ active' = t
  /\ tty_redraw(t)
  /\ torn' = InWindow(t)
  /\ UNCHANGED <<in, out, thread, typed, got, written>>
-----------------------------------------------------------------------------
(* tty_write, for each character: make room, store, advance, and put it on *)
(* the screen if the terminal is the active one.                           *)
Step(s) == thread' = [thread EXCEPT !.step = s]

StartWrite(t, n) ==
  /\ thread = Idle
  /\ Total(written) + n <= MaxWritten
  /\ thread' = [Idle EXCEPT !.op = "write", !.tty = t, !.left = n, !.step = "room"]
  /\ UNCHANGED <<in, out, active, screen, typed, got, written, torn>>

WriteRoom ==
  /\ thread.step = "room"
  /\ out' = IF Used(out[thread.tty]) >= TTY_OUTPUT_BUF_SIZE
            THEN [out EXCEPT ![thread.tty].tail = Inc(@)]
            ELSE out
  /\ Step("store")
  /\ UNCHANGED <<in, active, screen, typed, got, written, torn>>

Char(t, n) == 100 * (t + 1) + n

WriteStore ==
  /\ thread.step = "store"
  /\ out' = [out EXCEPT ![thread.tty].buf[Slot(out[thread.tty].head, TTY_OUTPUT_BUF_SIZE)] =
               Char(thread.tty, written[thread.tty] + 1)]
  /\ Step("advance")
  /\ UNCHANGED <<in, active, screen, typed, got, written, torn>>

WriteAdvance ==
  /\ thread.step = "advance"
  /\ out' = [out EXCEPT ![thread.tty].head = Inc(@)]
  /\ written' = [written EXCEPT ![thread.tty] = @ + 1]
  /\ Step("test")
  /\ UNCHANGED <<in, active, screen, typed, got, torn>>

NextChar ==
  thread' = IF thread.left = 1 THEN Idle
            ELSE [thread EXCEPT !.left = @ - 1, !.step = "room"]

WriteTest ==
  /\ thread.step = "test"
  /\ IF active = thread.tty THEN Step("put") ELSE NextChar
  /\ UNCHANGED <<in, out, active, screen, typed, got, written, torn>>

WritePut ==
  /\ thread.step = "put"
  /\ screen' = Append(screen, Char(thread.tty, written[thread.tty]))
  /\ NextChar
  /\ UNCHANGED <<in, out, active, typed, got, written, torn>>

(* tty_read, once wait_event has seen input: how much, then character by   *)
(* character, then the tail for all of them.                               *)
ReadAvailable(t, count) ==
  /\ thread = Idle
  /\ Used(in[t]) # 0
  /\ LET n == IF Used(in[t]) > count THEN count ELSE Used(in[t])
     IN  thread' = [Idle EXCEPT !.op = "read", !.tty = t, !.left = n, !.step = "copy"]
  /\ UNCHANGED <<in, out, active, screen, typed, got, written, torn>>

ReadCopy ==
  /\ thread.step = "copy"
  /\ LET r == in[thread.tty]
         n == Len(thread.copied)
     IN  IF n = thread.left
         THEN Step("commit")
         ELSE thread' = [thread EXCEPT !.copied =
                Append(@, r.buf[Slot((r.tail + n) % CounterMod, TTY_INPUT_BUF_SIZE)])]
  /\ UNCHANGED <<in, out, active, screen, typed, got, written, torn>>

\* Faulty variant of ReadCommit: takes everything that has arrived by now.
ReadCommit_all ==
  /\ thread.step = "commit"
  /\ in' = [in EXCEPT ![thread.tty].tail = in[thread.tty].head]
  /\ got' = [got EXCEPT ![thread.tty] = @ + Len(thread.copied)]
  /\ thread' = Idle
  /\ UNCHANGED <<out, active, screen, typed, written, torn>>

ReadCommit ==
  /\ thread.step = "commit"
  /\ in' = [in EXCEPT ![thread.tty].tail = (@ + thread.left) % CounterMod]
  /\ got' = [got EXCEPT ![thread.tty] = @ + Len(thread.copied)]
  /\ thread' = Idle
  /\ UNCHANGED <<out, active, screen, typed, written, torn>>

TtyNext ==
  \/ KeyChar
  \/ KeyArrow
  \/ \E t \in Ttys : tty_activate(t)
  \/ \E t \in Ttys, n \in 1 .. MaxCount : StartWrite(t, n)
  \/ WriteRoom \/ WriteStore \/ WriteAdvance \/ WriteTest \/ WritePut
  \/ \E t \in Ttys, n \in 1 .. MaxCount : ReadAvailable(t, n)
  \/ ReadCopy \/ ReadCommit

TtySpec == TtyInit /\ [][TtyNext]_ttyVars
-----------------------------------------------------------------------------
(* Types; no ring ever claims more than its size, whatever the counters    *)
(* have wrapped to.                                                        *)
TtyTypeOK ==
  /\ active \in Ttys
  /\ \A t \in Ttys : /\ in[t].head \in 0 .. (CounterMod - 1)
                     /\ in[t].tail \in 0 .. (CounterMod - 1)
                     /\ Used(in[t]) <= TTY_INPUT_BUF_SIZE
                     /\ Used(out[t]) <= TTY_OUTPUT_BUF_SIZE
  /\ torn \in BOOLEAN

(* What was read and what waits in the ring is what was accepted, in       *)
(* order, nothing twice and nothing lost, with keys arriving at any point  *)
(* of a read (tty_input_put, tty_read).                                    *)
InputInOrder ==
  \A t \in Ttys :
    Contents(in[t], TTY_INPUT_BUF_SIZE) = [i \in 1 .. typed[t] - got[t] |-> got[t] + i]

(* A read returns the characters after the ones that were read before it,  *)
(* whatever arrives while it copies.                                       *)
ReadIsStable ==
  thread.op = "read" =>
    thread.copied = [i \in 1 .. Len(thread.copied) |-> got[thread.tty] + i]

(* The output ring has the last characters written, all that fit.          *)
RingKeepsLast ==
  \A t \in Ttys :
    LET busy == thread.op = "write" /\ thread.tty = t /\ thread.step \in {"store", "advance"}
        text == Contents(out[t], TTY_OUTPUT_BUF_SIZE)
        kept == IF written[t] < TTY_OUTPUT_BUF_SIZE THEN written[t]
                ELSE IF busy THEN TTY_OUTPUT_BUF_SIZE - 1 ELSE TTY_OUTPUT_BUF_SIZE
    IN  text = [i \in 1 .. kept |-> Char(t, written[t] - kept + i)]

(* The screen shows the active terminal and only it: an unbroken run of    *)
(* its characters up to the last one written (or the one before, while     *)
(* that is being put).  The only exception is a switch of terminals that   *)
(* hits a write between out_head++ and console_put_char; the next switch   *)
(* repairs the screen (tty_write, tty_redraw).                             *)
ScreenShowsActive ==
  LET last == IF thread.step \in {"test", "put"} /\ thread.tty = active
              THEN written[active] - 1 ELSE written[active]
  IN  torn \/ screen = [i \in 1 .. Len(screen) |-> Char(active, last - Len(screen) + i)]

(* Terminals with keys arriving between any two steps of a reader and a    *)
(* writer: input comes out once and in order, the output ring keeps the    *)
(* last characters, and the screen shows the active terminal unless a      *)
(* switch tore a write.                                                    *)
TtyCorrect ==
  /\ TtyTypeOK
  /\ InputInOrder
  /\ ReadIsStable
  /\ RingKeepsLast
  /\ ScreenShowsActive
=============================================================================
