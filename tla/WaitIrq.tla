------------------------------ MODULE WaitIrq ------------------------------
(***************************************************************************)
(* Sleeping and waking with interrupts enabled: wait_event, the wait queue *)
(* of a terminal, the run queue, the choice of the next task and the idle  *)
(* task, store by store (kernel/core/wait.c, sched.c, bin/swapper.c), and  *)
(* the keyboard interrupt between any two of them, which adds a character, *)
(* empties the wait queue and pushes the readers on the run queue.         *)
(*                                                                         *)
(* Sched takes each of these calls as atomic with respect to the           *)
(* interrupt.  This module says for which arrivals that does no harm:      *)
(* Window is the set of points at which one does, hit that one did.        *)
(* ctx_switch runs with interrupts off.                                    *)
(***************************************************************************)
EXTENDS Integers, Sequences, FiniteSets

CONSTANTS
  Readers,      \* programs that read the terminal and yield for ever
  Swapper,      \* the idle task
  NIL,
  InputMax      \* TTY_INPUT_BUF_SIZE

ASSUME WaitAssumption ==
  /\ IsFiniteSet(Readers) /\ Readers # {}
  /\ Swapper \notin Readers /\ NIL \notin Readers \cup {Swapper}
  /\ InputMax \in Nat

VARIABLES
  state,        \* task->state
  rq,           \* run queue: [first, last, len, next], next being task->next
  wq,           \* wait queue: [head, tail, next, prev, on] of entries, one a task
  input,        \* characters in the terminal
  cur,          \* sched.current
  at, chosen,   \* of the running thread: where it is, the task it polled
  cont,         \* where a task goes on when it is switched to
  hit

waitVars == <<state, rq, wq, input, cur, at, chosen, cont, hit>>
Tasks == Readers \cup {Swapper}

\* The orders the readers can queue in, and the queue each of them makes.
Orders == {f \in [1 .. Cardinality(Readers) -> Readers] :
             \A i, j \in DOMAIN f : f[i] = f[j] => i = j}
Queued(order) ==
  LET n == Cardinality(Readers)
  IN  [first |-> order[1], last |-> order[n], len |-> n,
       next |-> [t \in Tasks |->
                   IF \E i \in 1 .. (n - 1) : order[i] = t
                   THEN order[(CHOOSE i \in 1 .. n : order[i] = t) + 1] ELSE NIL]]

WaitInit ==
  /\ state = [t \in Tasks |-> IF t = Swapper THEN "running" ELSE "queued"]
  /\ \E order \in Orders : rq = Queued(order)
  /\ wq = [head |-> NIL, tail |-> NIL, next |-> [t \in Tasks |-> NIL],
           prev |-> [t \in Tasks |-> NIL], on |-> {}]
  /\ input = 0
  /\ cur = Swapper
  /\ at = "enter" /\ chosen = NIL
  /\ cont = [t \in Tasks |-> IF t = Swapper THEN "halt" ELSE "check"]
  /\ hit = FALSE
-----------------------------------------------------------------------------
(* The running thread.                                                     *)
Goto(p) == at' = p
StillThere == UNCHANGED <<state, wq, input, cur, cont, hit>>

(* A system call starts with sched_schedule: read, then the test of the    *)
(* input; or sched_yield, of a program and of the idle task.               *)
Syscall(then) ==
  /\ at = "enter"
  /\ cont' = [cont EXCEPT ![cur] = then]
  /\ Goto("poll")
  /\ UNCHANGED <<state, rq, wq, input, cur, chosen, hit>>

Read == cur \in Readers /\ Syscall("check")
Yield == cur \in Readers /\ Syscall("enter")
SwapperYield == cur = Swapper /\ Syscall("halt")

(* run_queue_poll.                                                         *)
PollFirst ==
  /\ at = "poll"
  /\ IF rq.len = 0
     THEN chosen' = Swapper /\ Goto("decide")
     ELSE chosen' = rq.first /\ Goto("poll_first")
  /\ StillThere /\ UNCHANGED rq

PollAdvance ==
  /\ at = "poll_first" /\ chosen # NIL
  /\ rq' = [rq EXCEPT !.first = rq.next[chosen]]
  /\ Goto("poll_len")
  /\ StillThere /\ UNCHANGED chosen

PollLen ==
  /\ at = "poll_len"
  /\ rq' = [rq EXCEPT !.len = @ - 1]
  /\ Goto(IF rq.len = 1 THEN "poll_last" ELSE "poll_next")
  /\ StillThere /\ UNCHANGED chosen

PollLast ==
  /\ at = "poll_last"
  /\ rq' = [rq EXCEPT !.last = NIL]
  /\ Goto("poll_next")
  /\ StillThere /\ UNCHANGED chosen

PollNext ==
  /\ at = "poll_next"
  /\ rq' = [rq EXCEPT !.next[chosen] = NIL]
  /\ Goto("decide")
  /\ StillThere /\ UNCHANGED chosen

(* sched_schedule: whether to switch, and whether the previous task goes   *)
(* back to the run queue.                                                  *)
Decide ==
  /\ at = "decide"
  /\ IF chosen = Swapper /\ state[cur] = "running"
     THEN Goto(cont[cur]) /\ UNCHANGED state
     ELSE IF state[cur] # "interruptible"
     THEN /\ state' = [state EXCEPT ![cur] = "queued"]
          /\ Goto(IF cur = Swapper THEN "switch" ELSE "push_next")
     ELSE Goto("switch") /\ UNCHANGED state
  /\ UNCHANGED <<rq, wq, input, cur, chosen, cont, hit>>

(* run_queue_push.  "rq->first = rq->last = task" stores last first.       *)
PushNext ==
  /\ at = "push_next"
  /\ rq' = [rq EXCEPT !.next[cur] = NIL]
  /\ Goto("push_link")
  /\ StillThere /\ UNCHANGED chosen

PushLink ==
  /\ at = "push_link"
  /\ IF rq.len = 0
     THEN rq' = [rq EXCEPT !.last = cur] /\ Goto("push_first")
     ELSE /\ rq.last # NIL
          /\ rq' = [rq EXCEPT !.next[rq.last] = cur]
          /\ Goto("push_last")
  /\ StillThere /\ UNCHANGED chosen

PushFirst ==
  /\ at = "push_first"
  /\ rq' = [rq EXCEPT !.first = cur]
  /\ Goto("push_len")
  /\ StillThere /\ UNCHANGED chosen

PushLast ==
  /\ at = "push_last"
  /\ rq' = [rq EXCEPT !.last = cur]
  /\ Goto("push_len")
  /\ StillThere /\ UNCHANGED chosen

PushLen ==
  /\ at = "push_len"
  /\ rq' = [rq EXCEPT !.len = @ + 1]
  /\ Goto("switch")
  /\ StillThere /\ UNCHANGED chosen

Switch ==
  /\ at = "switch"
  /\ state' = [state EXCEPT ![chosen] = "running"]
  /\ cur' = chosen
  /\ Goto(cont[chosen])
  /\ UNCHANGED <<rq, wq, input, chosen, cont, hit>>

(* The idle task: hlt stops until an interrupt, then it yields.            *)
Halt ==
  /\ at = "halt"
  /\ Goto("halted")
  /\ StillThere /\ UNCHANGED <<rq, chosen>>

\* tty_read takes what there is, but no more than its caller asks for.
TakeInput == \E count \in 1 .. input : input' = input - count

\* Faulty variant of Check: one character is not enough.
Check_off_by_one ==
  /\ at = "check"
  /\ IF input > 1 THEN TakeInput /\ Goto("enter")
                  ELSE UNCHANGED input /\ Goto("sleep")
  /\ UNCHANGED <<state, rq, wq, cur, chosen, cont, hit>>

(* wait_event in tty_read: the condition, ...                              *)
Check ==
  /\ at = "check"
  /\ IF input > 0 THEN TakeInput /\ Goto("enter")
                  ELSE UNCHANGED input /\ Goto("sleep")
  /\ UNCHANGED <<state, rq, wq, cur, chosen, cont, hit>>

(* ... the state, ...                                                      *)
Sleep ==
  /\ at = "sleep"
  /\ state' = [state EXCEPT ![cur] = "interruptible"]
  /\ Goto("add")
  /\ UNCHANGED <<rq, wq, input, cur, chosen, cont, hit>>

(* ... wait_queue_add, ...                                                 *)
Add ==
  /\ at = "add"
  /\ IF cur \in wq.on
     THEN wq' = wq /\ Goto("asleep")
     ELSE /\ wq' = [wq EXCEPT !.on = @ \cup {cur}, !.prev[cur] = wq.tail,
                              !.next[cur] = NIL]
          /\ Goto("add_link")
  /\ UNCHANGED <<state, rq, input, cur, chosen, cont, hit>>

AddLink ==
  /\ at = "add_link"
  /\ wq' = IF wq.tail # NIL THEN [wq EXCEPT !.next[wq.tail] = cur]
                            ELSE [wq EXCEPT !.head = cur]
  /\ Goto("add_tail")
  /\ UNCHANGED <<state, rq, input, cur, chosen, cont, hit>>

AddTail ==
  /\ at = "add_tail"
  /\ wq' = [wq EXCEPT !.tail = cur]
  /\ Goto("asleep")
  /\ UNCHANGED <<state, rq, input, cur, chosen, cont, hit>>

(* ... sched_schedule ...                                                  *)
Asleep ==
  /\ at = "asleep"
  /\ cont' = [cont EXCEPT ![cur] = "awake"]
  /\ Goto("poll")
  /\ UNCHANGED <<state, rq, wq, input, cur, chosen, hit>>

(* ... and wait_queue_remove: an entry that wakeup has detached is left    *)
(* alone.                                                                  *)
Awake ==
  /\ at = "awake"
  /\ wq' = IF cur \notin wq.on THEN wq
           ELSE LET p == wq.prev[cur]
                    n == wq.next[cur]
                    a == IF p # NIL THEN [wq EXCEPT !.next[p] = n]
                                    ELSE [wq EXCEPT !.head = n]
                    b == IF n # NIL THEN [a EXCEPT !.prev[n] = p]
                                    ELSE [a EXCEPT !.tail = p]
                IN  [b EXCEPT !.on = @ \ {cur}, !.prev[cur] = NIL, !.next[cur] = NIL]
  /\ Goto("check")
  /\ UNCHANGED <<state, rq, input, cur, chosen, cont, hit>>
-----------------------------------------------------------------------------
(* The interrupt: tty_input_put and wakeup, run_queue_push in one go.      *)
run_queue_push(q, t) ==
  LET p == [q EXCEPT !.next[t] = NIL]
      l == IF p.len = 0 THEN [p EXCEPT !.first = t, !.last = t]
           ELSE IF p.last = NIL THEN p          \* a store through NULL
           ELSE [p EXCEPT !.next[p.last] = t, !.last = t]
  IN  [l EXCEPT !.len = @ + 1]

\* What the links lead to from first on, in order, each task once.
Linked(first, next) ==
  LET from[n \in 0 .. Cardinality(Tasks)] ==
        IF n = 0 THEN IF first = NIL THEN <<>> ELSE <<first>>
        ELSE LET s == from[n - 1]
             IN  IF s = <<>> \/ next[s[Len(s)]] = NIL
                     \/ \E i \in DOMAIN s : s[i] = next[s[Len(s)]]
                 THEN s ELSE Append(s, next[s[Len(s)]])
  IN  from[Cardinality(Tasks)]

\* The entries of a wait queue.
Chain(q) == Linked(q.head, q.next)

wakeup(q, list) ==
  LET after[n \in 0 .. Len(list)] ==
        IF n = 0 THEN q
        ELSE IF state[list[n]] = "interruptible"
             THEN run_queue_push(after[n - 1], list[n])
             ELSE after[n - 1]
  IN  after[Len(list)]

\* Faulty variant of Detach: unlinks the first entry only.
Detach_first(q, list) ==
  IF list = <<>> THEN q
  ELSE [head |-> q.next[list[1]], tail |-> IF Len(list) = 1 THEN NIL ELSE q.tail,
        on |-> q.on \ {list[1]},
        next |-> [q.next EXCEPT ![list[1]] = NIL], prev |-> [q.prev EXCEPT ![list[1]] = NIL]]

\* The wait queue after wakeup: head and tail first, then entry by entry.
Detach(q, list) ==
  LET gone == {list[i] : i \in DOMAIN list}
  IN  [head |-> NIL, tail |-> NIL, on |-> q.on \ gone,
       next |-> [t \in Tasks |-> IF t \in gone THEN NIL ELSE q.next[t]],
       prev |-> [t \in Tasks |-> IF t \in gone THEN NIL ELSE q.prev[t]]]

(* The points at which the interrupt does harm: the reader has found no    *)
(* input but is not wholly on the queue yet; poll has read that the queue  *)
(* is empty or has one task, and has not said so to everyone; push has     *)
(* linked the task and not counted it, or the reverse; the idle task is    *)
(* about to stop although there is no one else to see the queue.           *)
Window ==
  \/ at \in {"sleep", "add", "add_link", "add_tail"}
  \/ at = "poll_len" /\ rq.first = NIL
  \/ at \in {"poll_last", "push_first", "push_last", "halt"}
  \/ at = "push_len" /\ rq.len = 0
  \/ at \in {"decide", "switch"} /\ chosen = Swapper
       /\ (cur = Swapper \/ state[cur] # "running")

KeyIrq ==
  /\ input < InputMax
  /\ input' = input + 1
  /\ LET list == Chain(wq)
     IN  /\ rq' = wakeup(rq, list)
         /\ wq' = Detach(wq, list)
  /\ at' = IF at = "halted" THEN "enter" ELSE at
  /\ hit' = (hit \/ Window)
  /\ UNCHANGED <<state, cur, chosen, cont>>

(* An interrupt that delivers no character - a key that goes up, a         *)
(* modifier, a full terminal - only ends hlt.                              *)
SilentIrq ==
  /\ at = "halted" /\ Goto("enter")
  /\ StillThere /\ UNCHANGED <<rq, chosen>>

Thread ==
  \/ Read \/ Yield \/ SwapperYield \/ PollFirst \/ PollAdvance \/ PollLen \/ PollLast \/ PollNext
  \/ Decide \/ PushNext \/ PushLink \/ PushFirst \/ PushLast \/ PushLen \/ Switch
  \/ Halt \/ Check \/ Sleep \/ Add \/ AddLink \/ AddTail \/ Asleep \/ Awake

WaitNext == Thread \/ KeyIrq \/ SilentIrq
WaitSpec == WaitInit /\ [][WaitNext]_waitVars
-----------------------------------------------------------------------------
\* The tasks of the run queue.
Queue == Linked(rq.first, rq.next)
InQueue(t) == \E i \in DOMAIN Queue : Queue[i] = t
OnWaitQueue(t) == \E i \in DOMAIN Chain(wq) : Chain(wq)[i] = t

(* Types.  An interrupt in a window can corrupt the run queue, whose       *)
(* length then says little; until then it counts readers.                  *)
WaitTypeOK ==
  /\ state \in [Tasks -> {"running", "queued", "interruptible"}]
  /\ {rq.first, rq.last, wq.head, wq.tail} \subseteq Readers \cup {NIL}
  /\ rq.len \in Nat /\ (~hit => rq.len <= Cardinality(Readers))
  /\ input \in 0 .. InputMax
  /\ cur \in Tasks /\ chosen \in Tasks \cup {NIL}

(* Between two system calls' worth of stores every reader is somewhere it  *)
(* will be found - running, on the run queue once, or on the wait queue -  *)
(* unless an interrupt came in a window.  So run_queue_push, run_queue_poll *)
(* and wait_queue_add need interrupts off in the windows and nowhere else. *)
NobodyLost ==
  ~hit /\ at \in {"enter", "check", "halt", "halted", "asleep", "awake"} =>
    /\ \A t \in Readers : t = cur \/ InQueue(t) \/ OnWaitQueue(t)
    /\ \A t \in Readers : ~(InQueue(t) /\ OnWaitQueue(t))
    /\ rq.len = Len(Queue)
    /\ rq.last = IF rq.len = 0 THEN NIL ELSE Queue[rq.len]

(* No reader sleeps on the wait queue while there is input: the test of    *)
(* the condition and going to sleep miss a character only in a window      *)
(* (wait_event).                                                           *)
NoSleepOnInput ==
  ~hit /\ at \in {"enter", "check", "halt", "halted"} =>
    (input > 0 => \A t \in Readers : ~OnWaitQueue(t))

(* The processor does not stop while a task could run: hlt is reached with *)
(* an empty run queue (swapper, sched_schedule).                           *)
HaltsOnlyIdle == ~hit /\ at = "halted" => rq.len = 0

(* What is typed gets read, if no interrupt ever comes in a window: input  *)
(* that is there again and again is taken again and again, in reads as     *)
(* small as the programs like (tty_read).  None is left behind.  The       *)
(* running thread goes on as long as it can: that is all the fairness the  *)
(* processor gives.  Of the programs it is assumed that those that call    *)
(* again and again call read among it.                                     *)
KeysGetRead == []~hit => ([]<>(input > 0) => []<><<input' < input>>_waitVars)

(* Interrupts outside the windows do no harm: no reader is lost, none      *)
(* sleeps while there is input, and the processor halts only when no task  *)
(* can run.                                                                *)
WaitCorrect == WaitTypeOK /\ NobodyLost /\ NoSleepOnInput /\ HaltsOnlyIdle
=============================================================================
