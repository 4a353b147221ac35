------------------------------- MODULE Sched -------------------------------
(***************************************************************************)
(* The scheduler of the kernel: tasks, context switches, sleeping and      *)
(* waking, fork, exit, waitpid and kill (kernel/core/sched.c, wait.c and   *)
(* the dispatch of syscall.c).                                             *)
(*                                                                         *)
(* The kernel has one CPU and no timer interrupt, so a task keeps the CPU  *)
(* until it calls sched_schedule.  A step of this model is what the kernel *)
(* does for the current task from one resumption to the next call of       *)
(* sched_schedule, wakeup or return to the program; pc[t] is where task t  *)
(* goes on when it has the CPU.  wakeup is one step per entry it walks.    *)
(* Keyboard interrupts arrive while a program runs; the ones that hit      *)
(* kernel code, which the kernel does not mask either, are not modelled    *)
(* here.                                                                   *)
(*                                                                         *)
(* Left out: file descriptors, memory and the console, which none of these *)
(* operations branches on; counters; system calls that return without a    *)
(* change of this state (an unknown pid, WNOHANG without a zombie, ...).   *)
(***************************************************************************)
EXTENDS TaskTable, RunQueue

CONSTANTS Calls,        \* the system calls programs make
          Signals,      \* the signal numbers programs send
          KillTargets,  \* the states in which the workload signals tasks
          QUEUE_MAX,    \* bound: a sleeper is signalled while fewer are queued
          INPUT_MAX     \* characters the terminal's input ring holds

ASSUME SchedAssumption ==
    /\ MAX_PROCESS_CNT >= 2
    /\ Calls \subseteq {"yield", "read", "fork", "execve", "exit", "kill", "waitpid"}
    /\ Signals \subseteq 1 .. 32
    /\ INPUT_MAX \in Nat \ {0}

VARIABLES
    run_queue,  \* sched.run_queue, with the next pointers of the tasks
    current,    \* sched.current
    state,      \* task->state
    parent,     \* task->parent
    children,   \* task->children: the list over next_sibling, newest first
    pending,    \* task->signal.pending
    waiters,    \* the wait queues: the tasks whose entry each one holds
    wakelist,   \* the entries wakeup has detached and not walked yet
    pc,         \* where the task goes on when it is resumed
    waiting,    \* the queue of the task's wait_event call
    input,      \* characters in the terminal's input ring
    panic       \* the kernel has halted

vars == <<task_table, run_queue, current, state, parent, children, pending,
          waiters, wakelist, pc, waiting, input, panic>>

Swapper == 0
InitTask == 1

Sleeping == {"INTERRUPTIBLE", "UNINTERRUPTIBLE"}
States == {"POOLED", "QUEUED", "RUNNING", "ZOMBIE"} \cup Sleeping

\* signal.wait_exit and signal.wait_child of every task, and the in_wait_queue
\* of the terminal.  A wait_queue_entry is a local variable of wait_event, so
\* a task has one entry and the queues hold tasks.
ExitQueue(t) == <<"exit", t>>
ChildQueue(t) == <<"child", t>>
TtyQueue == <<"tty", 0>>
WaitQueues == ({"exit", "child"} \X Slots) \cup {TtyQueue}
NoQueue == <<"none", 0>>

Elems(s) == {s[i] : i \in 1 .. Len(s)}

\* The sequence without its element e.
Without(s, e) ==
    IF e \notin Elems(s) THEN s
    ELSE LET k == CHOOSE i \in 1 .. Len(s) : s[i] = e
         IN  [i \in 1 .. Len(s) - 1 |-> IF i < k THEN s[i] ELSE s[i + 1]]

---------------------------------------------------------------------------
(* Boot: sched_init creates the swapper, sched_kernel_exec creates init and *)
(* queues it.  Both are their own parent.                                  *)

Init ==
    /\ task_table = task_table_alloc(task_table_alloc(task_table_init))
    /\ run_queue = run_queue_push(run_queue_init(Slots), InitTask)
    /\ current = NULL
    /\ state = [t \in Slots |-> IF t \in {Swapper, InitTask} THEN "QUEUED" ELSE "POOLED"]
    /\ parent = [t \in Slots |-> IF t \in {Swapper, InitTask} THEN t ELSE NULL]
    /\ children = [t \in Slots |-> <<>>]
    /\ pending = [t \in Slots |-> {}]
    /\ waiters = [q \in WaitQueues |-> <<>>]
    /\ wakelist = <<>>
    /\ pc = [t \in Slots |-> IF t \in {Swapper, InitTask} THEN "user" ELSE "dead"]
    /\ waiting = [t \in Slots |-> NoQueue]
    /\ input = 0
    /\ panic = FALSE

---------------------------------------------------------------------------
(* sched_schedule, called with run queue rq, task states st and previous    *)
(* task prev (NULL when the caller cleared sched.current).                 *)

NextTask(rq) == IF PolledTask(rq) = NULL THEN Swapper ELSE PolledTask(rq)

\* prev goes on when nothing else can run.
KeepsRunning(rq, st, prev) ==
    prev # NULL /\ NextTask(rq) = Swapper /\ st[prev] = "RUNNING"

\* A previous task that is not asleep is runnable.
StillRunnable(st, prev) == prev # NULL /\ st[prev] \notin Sleeping

Requeued(st, prev) ==
    IF StillRunnable(st, prev) THEN [st EXCEPT ![prev] = "QUEUED"] ELSE st

sched_schedule(rq, st, prev) ==
    \/ /\ run_queue_poll_faults(rq)
       /\ panic' = TRUE
       /\ run_queue' = rq /\ state' = st /\ current' = prev
    \/ /\ ~run_queue_poll_faults(rq)
       /\ KeepsRunning(rq, st, prev)
       /\ run_queue' = run_queue_poll(rq) /\ state' = st /\ current' = prev
       /\ panic' = panic
    \/ /\ ~run_queue_poll_faults(rq)
       /\ ~KeepsRunning(rq, st, prev)
       /\ run_queue' = IF StillRunnable(st, prev) /\ prev # Swapper
                       THEN run_queue_push(run_queue_poll(rq), prev)
                       ELSE run_queue_poll(rq)
       /\ state' = [Requeued(st, prev) EXCEPT ![NextTask(rq)] = "RUNNING"]
       /\ current' = NextTask(rq)
       /\ panic' = panic

\* kmain hands the CPU over for the first time.
Boot ==
    /\ current = NULL /\ ~panic
    /\ sched_schedule(run_queue, state, NULL)
    /\ UNCHANGED <<task_table, parent, children, pending, waiters, wakelist, pc,
                   waiting, input>>

\* Task t has the CPU, at this point of its code.
At(t, point) == current = t /\ pc[t] = point /\ wakelist = <<>> /\ ~panic

---------------------------------------------------------------------------
(* wakeup, wait_event                                                      *)

\* Faulty variant: the queue keeps the list that is walked.
detach_keeps_list(q) ==
    /\ wakelist' = waiters[q]
    /\ waiters' = waiters

\* wakeup, first part: the whole list is detached from queue q.
detach(q) ==
    /\ wakelist' = waiters[q]
    /\ waiters' = [waiters EXCEPT ![q] = <<>>]

\* wakeup, one turn of its loop.  The state of a woken task stays as it is
\* until the task is switched to.
WakeNext ==
    /\ wakelist # <<>> /\ ~panic
    /\ wakelist' = Tail(wakelist)
    /\ run_queue' = IF state[Head(wakelist)] \in Sleeping
                    THEN run_queue_push(run_queue, Head(wakelist))
                    ELSE run_queue
    /\ UNCHANGED <<task_table, current, state, parent, children, pending, waiters,
                   pc, waiting, input, panic>>

\* The condition a wait_event call of task t on queue q waits for:
\* tty_input_available, task_is_zombie or has_zombie_child.
Condition(t, q) ==
    \/ q = TtyQueue /\ input > 0
    \/ q[1] = "exit" /\ state[q[2]] = "ZOMBIE"
    \/ q[1] = "child" /\ \E c \in Elems(children[t]) : state[c] = "ZOMBIE"

\* wait_event, when the condition does not hold: t goes to sleep in queue q.
\* wqs are the wait queues at this point.
SleepOn(t, q, wqs) ==
    /\ waiters' = [wqs EXCEPT ![q] = Append(@, t)]
    /\ waiting' = [waiting EXCEPT ![t] = q]
    /\ pc' = [pc EXCEPT ![t] = "wait"]
    /\ sched_schedule(run_queue, [state EXCEPT ![t] = "INTERRUPTIBLE"], t)

\* sched_exit up to the end of its first wakeup's detaching.
BeginExit(t, wqs) ==
    /\ state' = [state EXCEPT ![t] = "ZOMBIE"]
    /\ wakelist' = wqs[ExitQueue(t)]
    /\ waiters' = [wqs EXCEPT ![ExitQueue(t)] = <<>>]
    /\ pc' = [pc EXCEPT ![t] = "exit1"]
    /\ waiting' = [waiting EXCEPT ![t] = NoQueue]

\* Faulty variant: the child stays in its parent's list.
Reap_keeps_link(t, c) ==
    /\ task_table' = task_table_free(task_table, c)
    /\ state' = [state EXCEPT ![c] = "POOLED"]
    /\ parent' = [parent EXCEPT ![c] = NULL]
    /\ UNCHANGED <<children, panic>>

\* The end of sched_waitpid: child c leaves its parent's list and the table.
Reap(t, c) ==
    \/ /\ task_table_free_panics(task_table, c)
       /\ panic' = TRUE
       /\ UNCHANGED <<task_table, state, parent, children>>
    \/ /\ ~task_table_free_panics(task_table, c)
       /\ task_table' = task_table_free(task_table, c)
       /\ state' = [state EXCEPT ![c] = "POOLED"]
       /\ parent' = [parent EXCEPT ![c] = NULL]
       /\ children' = [[children EXCEPT ![t] = Without(@, c)] EXCEPT ![c] = <<>>]
       /\ panic' = panic

\* find_zombie_child: the first zombie in the list.
find_zombie_child(t) ==
    children[t][CHOOSE i \in 1 .. Len(children[t]) :
                  /\ state[children[t][i]] = "ZOMBIE"
                  /\ \A j \in 1 .. i - 1 : state[children[t][j]] # "ZOMBIE"]

\* t is back from sched_schedule in wait_event and its entry is taken out of
\* the queue, if wakeup has not done so.
EntryRemoved(t) == [waiters EXCEPT ![waiting[t]] = Without(@, t)]

\* Faulty variant: the task exits before its entry is taken out.
WaitInterrupted_keeps_entry(t) ==
    /\ At(t, "wait")
    /\ pending[t] # {}
    /\ BeginExit(t, waiters)
    /\ UNCHANGED <<task_table, run_queue, current, parent, children, pending,
                   input, panic>>

\* A signal is pending: the task exits.
WaitInterrupted(t) ==
    /\ At(t, "wait")
    /\ pending[t] # {}
    /\ BeginExit(t, EntryRemoved(t))
    /\ UNCHANGED <<task_table, run_queue, current, parent, children, pending,
                   input, panic>>

\* The condition does not hold: another turn of the loop.
WaitAgain(t) ==
    /\ At(t, "wait")
    /\ pending[t] = {}
    /\ ~Condition(t, waiting[t])
    /\ SleepOn(t, waiting[t], EntryRemoved(t))
    /\ UNCHANGED <<task_table, parent, children, pending, wakelist, input>>

\* tty_read takes what it can use of the input.
TakeInput == \E n \in 1 .. input : input' = input - n

\* wait_event returns to tty_read or sched_waitpid, which do their work.
WaitDone(t) ==
    /\ At(t, "wait")
    /\ pending[t] = {}
    /\ Condition(t, waiting[t])
    /\ waiters' = EntryRemoved(t)
    /\ waiting' = [waiting EXCEPT ![t] = NoQueue]
    /\ pc' = [pc EXCEPT ![t] = "user"]
    /\ \/ /\ waiting[t] = TtyQueue
          /\ TakeInput
          /\ UNCHANGED <<task_table, state, parent, children, panic>>
       \/ /\ waiting[t][1] = "exit"
          /\ Reap(t, waiting[t][2])
          /\ UNCHANGED input
       \/ /\ waiting[t][1] = "child"
          /\ Reap(t, find_zombie_child(t))
          /\ UNCHANGED input
    /\ UNCHANGED <<run_queue, current, pending, wakelist>>

---------------------------------------------------------------------------
(* System calls of the program of task t.  The swapper is not one of these *)
(* programs: it only halts and yields.                                     *)

Makes(t, call) == At(t, "user") /\ t # Swapper /\ call \in Calls

\* write, open, close, getdents, fstat, getpid, sched_yield, brk, chdir,
\* getcwd, clock_gettime: sched_schedule, then work outside this state.
Yield(t) ==
    /\ Makes(t, "yield")
    /\ sched_schedule(run_queue, state, t)
    /\ UNCHANGED <<task_table, parent, children, pending, waiters, wakelist, pc,
                   waiting, input>>

\* read calls sched_schedule in the dispatch and again in vfs_read ...
Read(t) ==
    /\ \/ Makes(t, "read") /\ pc' = [pc EXCEPT ![t] = "read1"]
       \/ At(t, "read1") /\ pc' = [pc EXCEPT ![t] = "read2"]
    /\ sched_schedule(run_queue, state, t)
    /\ UNCHANGED <<task_table, parent, children, pending, waiters, wakelist,
                   waiting, input>>

\* ... and then reads the terminal, or a file that needs no waiting.
ReadBody(t) ==
    /\ At(t, "read2")
    /\ \/ /\ TakeInput \/ UNCHANGED input
          /\ pc' = [pc EXCEPT ![t] = "user"]
          /\ UNCHANGED <<run_queue, current, state, waiters, waiting, panic>>
       \/ /\ ~Condition(t, TtyQueue)
          /\ SleepOn(t, TtyQueue, waiters)
          /\ UNCHANGED input
    /\ UNCHANGED <<task_table, parent, children, pending, wakelist>>

\* fork: the child gets a slot, the front of its parent's list, empty wait
\* queues and a place in the run queue.  Without a free slot nothing happens.
Fork(t) ==
    /\ Makes(t, "fork")
    /\ HasFreeSlot(task_table)
    /\ task_table' = task_table_alloc(task_table)
    /\ LET c == NextSlot(task_table)
       IN  /\ parent' = [parent EXCEPT ![c] = t]
           /\ children' = [children EXCEPT ![t] = <<c>> \o @]
           /\ pending' = [pending EXCEPT ![c] = {}]
           /\ waiters' = [waiters EXCEPT ![ExitQueue(c)] = <<>>, ![ChildQueue(c)] = <<>>]
           /\ state' = [state EXCEPT ![c] = "QUEUED"]
           /\ pc' = [pc EXCEPT ![c] = "user"]
           /\ run_queue' = run_queue_push(run_queue, c)
    /\ UNCHANGED <<current, wakelist, waiting, input, panic>>

\* Faulty variant: sched.current is not cleared before sched_schedule.
Execve_keeps_current(t) ==
    /\ Makes(t, "execve")
    /\ pending' = [pending EXCEPT ![t] = {}]
    /\ sched_schedule(run_queue_push(run_queue, t), [state EXCEPT ![t] = "QUEUED"], t)
    /\ UNCHANGED <<task_table, parent, children, waiters, wakelist, pc, waiting, input>>

\* execve: the task forgets its signals, queues itself and gives up the CPU.
\* (A name that is not found changes nothing.)
Execve(t) ==
    /\ Makes(t, "execve")
    /\ pending' = [pending EXCEPT ![t] = {}]
    /\ sched_schedule(run_queue_push(run_queue, t), [state EXCEPT ![t] = "QUEUED"], NULL)
    /\ UNCHANGED <<task_table, parent, children, waiters, wakelist, pc, waiting, input>>

\* exit, or an execve whose image cannot be loaded.
Exit(t) ==
    /\ Makes(t, "exit")
    /\ BeginExit(t, waiters)
    /\ UNCHANGED <<task_table, run_queue, current, parent, children, pending,
                   input, panic>>

\* Faulty variant: the parent's wait_child queue is not woken.
ExitNotifyParent_silent(t) ==
    /\ At(t, "exit1")
    /\ pc' = [pc EXCEPT ![t] = "exit2"]
    /\ UNCHANGED <<task_table, run_queue, current, state, parent, children, pending,
                   waiters, wakelist, waiting, input, panic>>

\* sched_exit after its first wakeup: wake the parent's wait_child queue.
ExitNotifyParent(t) ==
    /\ At(t, "exit1")
    /\ \/ parent[t] # t /\ detach(ChildQueue(parent[t]))
       \/ parent[t] = t /\ UNCHANGED <<wakelist, waiters>>
    /\ pc' = [pc EXCEPT ![t] = "exit2"]
    /\ UNCHANGED <<task_table, run_queue, current, state, parent, children, pending,
                   waiting, input, panic>>

\* Faulty variant: sched.current is not cleared before sched_schedule.
ExitSwitch_keeps_current(t) ==
    /\ At(t, "exit2")
    /\ pc' = [pc EXCEPT ![t] = "dead"]
    /\ sched_schedule(run_queue, state, t)
    /\ UNCHANGED <<task_table, parent, children, pending, waiters, wakelist,
                   waiting, input>>

\* sched_exit gives up the CPU for good.
ExitSwitch(t) ==
    /\ At(t, "exit2")
    /\ pc' = [pc EXCEPT ![t] = "dead"]
    /\ sched_schedule(run_queue, state, NULL)
    /\ UNCHANGED <<task_table, parent, children, pending, waiters, wakelist,
                   waiting, input>>

\* Faulty variant: the task is queued whatever its state.
Kill_queues_always(t, pid, sig) ==
    /\ Makes(t, "kill")
    /\ \E s \in task_table_find(task_table, pid) :
         /\ state[s] \in KillTargets
         /\ pending' = [pending EXCEPT ![s] = @ \cup {sig}]
         /\ run_queue' = run_queue_push(run_queue, s)
    /\ UNCHANGED <<task_table, current, state, parent, children, waiters, wakelist,
                   pc, waiting, input, panic>>

\* kill: the signal is recorded, and a sleeping task is put into the run
\* queue, whether it is there already or not.
Kill(t, pid, sig) ==
    /\ Makes(t, "kill")
    /\ \E s \in task_table_find(task_table, pid) :
         /\ state[s] \in KillTargets
         /\ state[s] = "INTERRUPTIBLE" => run_queue.len < QUEUE_MAX
         /\ pending' = [pending EXCEPT ![s] = @ \cup {sig}]
         /\ run_queue' = IF state[s] = "INTERRUPTIBLE"
                         THEN run_queue_push(run_queue, s)
                         ELSE run_queue
    /\ UNCHANGED <<task_table, current, state, parent, children, waiters, wakelist,
                   pc, waiting, input, panic>>

\* Faulty variant: the child is freed whether it has exited or not.
WaitpidOne_unchecked(t, c) ==
    /\ Makes(t, "waitpid")
    /\ c \in Elems(children[t])
    /\ Reap(t, c)
    /\ UNCHANGED <<run_queue, current, waiters, pc, waiting, pending, wakelist, input>>

\* Faulty variant: the pid is looked up in the whole table.
WaitpidOne_any_task(t, c) ==
    /\ Makes(t, "waitpid")
    /\ c \in InUse(task_table) /\ state[c] # "ZOMBIE"
    /\ SleepOn(t, ExitQueue(c), waiters)
    /\ UNCHANGED <<task_table, parent, children, pending, wakelist, input>>

\* waitpid for child c: at once when it is a zombie, after its exit otherwise.
WaitpidOne(t, c) ==
    /\ Makes(t, "waitpid")
    /\ c \in Elems(children[t])
    /\ \/ /\ state[c] = "ZOMBIE"
          /\ Reap(t, c)
          /\ UNCHANGED <<run_queue, current, waiters, pc, waiting>>
       \/ /\ state[c] # "ZOMBIE"
          /\ SleepOn(t, ExitQueue(c), waiters)
          /\ UNCHANGED <<task_table, parent, children>>
    /\ UNCHANGED <<pending, wakelist, input>>

\* waitpid for any child.
WaitpidAny(t) ==
    /\ Makes(t, "waitpid")
    /\ children[t] # <<>>
    /\ \/ /\ Condition(t, ChildQueue(t))
          /\ Reap(t, find_zombie_child(t))
          /\ UNCHANGED <<run_queue, current, waiters, pc, waiting>>
       \/ /\ ~Condition(t, ChildQueue(t))
          /\ SleepOn(t, ChildQueue(t), waiters)
          /\ UNCHANGED <<task_table, parent, children>>
    /\ UNCHANGED <<pending, wakelist, input>>

---------------------------------------------------------------------------
(* The swapper's loop (bin/swapper.c) and the keyboard interrupt.          *)

SwapperHalt ==
    /\ At(Swapper, "user")
    /\ pc' = [pc EXCEPT ![Swapper] = "hlt"]
    /\ UNCHANGED <<task_table, run_queue, current, state, parent, children, pending,
                   waiters, wakelist, waiting, input, panic>>

SwapperYield ==
    /\ At(Swapper, "yield")
    /\ pc' = [pc EXCEPT ![Swapper] = "user"]
    /\ sched_schedule(run_queue, state, Swapper)
    /\ UNCHANGED <<task_table, parent, children, pending, waiters, wakelist,
                   waiting, input>>

\* Programs run with interrupts enabled; an interrupt ends a hlt.
Interruptible == \E t \in Slots, p \in {"user", "hlt", "yield"} : At(t, p)

EndHalt == pc' = [pc EXCEPT ![Swapper] = IF @ = "hlt" THEN "yield" ELSE @]

\* Faulty variant: the character does not wake the readers.
KeyboardInput_silent ==
    /\ Interruptible
    /\ EndHalt
    /\ input < INPUT_MAX /\ input' = input + 1
    /\ UNCHANGED <<task_table, run_queue, current, state, parent, children, pending,
                   waiters, wakelist, waiting, panic>>

\* Faulty variant: the test for a full ring is off by one.
KeyboardInput_overflows ==
    /\ Interruptible
    /\ EndHalt
    /\ input <= INPUT_MAX /\ input' = input + 1 /\ detach(TtyQueue)
    /\ UNCHANGED <<task_table, run_queue, current, state, parent, children, pending,
                   waiting, panic>>

\* A character arrives (tty_input_put) and wakes the terminal's readers; a
\* key without a character, or one that finds the ring full, does nothing.
KeyboardInput ==
    /\ Interruptible
    /\ EndHalt
    /\ \/ input < INPUT_MAX /\ input' = input + 1 /\ detach(TtyQueue)
       \/ UNCHANGED <<input, wakelist, waiters>>
    /\ UNCHANGED <<task_table, run_queue, current, state, parent, children, pending,
                   waiting, panic>>

---------------------------------------------------------------------------
UserStep(t) ==
    \/ Yield(t) \/ Read(t) \/ ReadBody(t)
    \/ Fork(t) \/ Execve(t) \/ Exit(t)
    \/ \E s \in Slots, sig \in Signals : Kill(t, task_table.pid[s], sig)
    \/ \E c \in Slots : WaitpidOne(t, c)
    \/ WaitpidAny(t)

KernelStep(t) ==
    \/ WaitInterrupted(t) \/ WaitAgain(t) \/ WaitDone(t)
    \/ ExitNotifyParent(t) \/ ExitSwitch(t)

Next ==
    \/ Boot
    \/ WakeNext
    \/ \E t \in Slots : UserStep(t) \/ KernelStep(t)
    \/ SwapperHalt
    \/ SwapperYield
    \/ KeyboardInput

Spec == Init /\ [][Next]_vars

\* The kernel's own steps are always taken.  Of a program only what the
\* cooperative kernel relies on is assumed: that it makes, again and again,
\* a system call that schedules; and of the keyboard that it interrupts a
\* halted CPU in the end.
Continue(t) ==
    Yield(t) \/ (At(t, "read1") /\ Read(t)) \/ ReadBody(t) \/ KernelStep(t)

FairSpec ==
    /\ Spec
    /\ WF_vars(Boot)
    /\ WF_vars(WakeNext)
    /\ WF_vars(SwapperHalt)
    /\ WF_vars(SwapperYield)
    /\ WF_vars(At(Swapper, "hlt") /\ KeyboardInput)
    /\ \A t \in Slots : WF_vars(Continue(t))

---------------------------------------------------------------------------
(* Properties.                                                             *)

Points == {"user", "read1", "read2", "wait", "exit1", "exit2", "dead", "hlt", "yield"}

\* The type of the scheduler's state, as boot and the system calls write it.
TypeOK ==
    /\ task_table \in TableType
    /\ run_queue \in QueueType(Slots)
    /\ current \in Slots \cup {NULL}
    /\ state \in [Slots -> States]
    /\ parent \in [Slots -> Slots \cup {NULL}]
    /\ children \in [Slots -> Seq(Slots)]
    /\ pending \in [Slots -> SUBSET Signals]
    /\ waiters \in [WaitQueues -> Seq(Slots)]
    /\ wakelist \in Seq(Slots)
    /\ pc \in [Slots -> Points]
    /\ waiting \in [Slots -> WaitQueues \cup {NoQueue}]
    /\ input \in 0 .. INPUT_MAX
    /\ panic \in BOOLEAN

\* The task is in the queue of its wait_event call: nobody has woken it.
Enlisted(t) == pc[t] = "wait" /\ t \in Elems(waiters[waiting[t]])

\* The task was woken, and not switched to since.
Woken(t) ==
    state[t] = "INTERRUPTIBLE" /\ ~Enlisted(t) /\ t \notin Elems(wakelist)

\* The tasks that can run.
Ready ==
    {t \in Slots : (state[t] = "QUEUED" /\ t # Swapper) \/ Woken(t)}

\* The list rq is well formed and holds the tasks of the set R, each once.
HoldsExactly(rq, R) ==
    \E q \in [1 .. rq.len -> Slots] : Represents(rq, q) /\ Elems(q) = R

\* The run queue holds, each once, exactly the tasks that can run: the ones
\* in state QUEUED except the swapper, and the sleepers that were woken.  The
\* running task, zombies and free slots are never in it (run_queue_push does
\* not check).
RunQueueOK == HoldsExactly(run_queue, Ready)

\* The states agree with what the tasks do: the only RUNNING task is
\* sched.current, exactly the free slots are POOLED, and a task that exited
\* or was reaped never gets the CPU again (its kernel stack is gone).
StatesOK ==
    /\ \A t \in Slots : state[t] = "RUNNING" => t = current
    /\ \A t \in Slots : state[t] = "POOLED" <=> t \notin InUse(task_table)
    /\ current # NULL => \/ state[current] = "RUNNING" /\ pc[current] # "dead"
                         \/ state[current] = "ZOMBIE" /\ pc[current] \in {"exit1", "exit2"}

\* No wakeup is lost between calls of the kernel: a task still in the wait
\* queue of its wait_event call waits for something that has not happened,
\* except while sched_exit is on its way to the wakeup of that very queue.  The
\* calls are atomic with respect to the keyboard here: a key between the check
\* of the condition and wait_queue_add does lose its wakeup (WaitIrq).
NoLostWakeup ==
    \A t \in Slots :
        Enlisted(t) /\ Condition(t, waiting[t]) =>
            /\ pc[current] = "exit1"
            /\ waiting[t] = ChildQueue(parent[current])

\* The wait queues hold exactly entries of tasks inside wait_event on that
\* queue, each once: no queue keeps a pointer into the stack frame of a
\* wait_event call that has returned, and signal_init never drops a waiter.
NoDanglingEntry ==
    /\ \A q \in WaitQueues : \A i, j \in 1 .. Len(waiters[q]) :
         /\ pc[waiters[q][i]] = "wait"
         /\ waiting[waiters[q][i]] = q
         /\ waiters[q][i] = waiters[q][j] => i = j
    /\ \A i, j \in 1 .. Len(wakelist) :
         /\ pc[wakelist[i]] = "wait"
         /\ ~Enlisted(wakelist[i])
         /\ wakelist[i] = wakelist[j] => i = j

\* The process tree: a slot is in at most one list of children, its parent's;
\* it is not its own child; and a slot in such a list, or waited for, is in
\* use, so find_child_by_pid and the reaping of sched_waitpid only meet tasks
\* that are really children.
FamilyOK ==
    /\ \A p \in Slots : \A i, j \in 1 .. Len(children[p]) :
         /\ parent[children[p][i]] = p
         /\ children[p][i] # p
         /\ children[p][i] \in InUse(task_table)
         /\ p \in InUse(task_table)
         /\ children[p][i] = children[p][j] => i = j
    /\ \A t \in Slots : pc[t] = "wait" /\ waiting[t][1] = "exit" =>
                          waiting[t][2] \in Elems(children[t])

\* The kernel never panics: run_queue_poll finds a task when len says so, and
\* task_table_free never refuses the slot sched_waitpid gives back.
NoPanic == ~panic

\* A slot is freed only by sched_waitpid of its parent, and only after its
\* task has left sched_exit for good; an exited task stays a zombie until then.
ReapedByParent ==
    [][\A c \in Slots :
        /\ state[c] = "ZOMBIE" => state'[c] \in {"ZOMBIE", "POOLED"}
        /\ state'[c] = "POOLED" /\ state[c] # "POOLED" =>
             /\ state[c] = "ZOMBIE" /\ pc[c] = "dead"
             /\ current # NULL /\ c \in Elems(children[current])]_vars

\* Nothing runnable starves: a task in the run queue, queued by fork, a yield
\* or the wakeup of a sleeper by sched_exit, gets the CPU.
RunnableRuns ==
    \A t \in Slots \ {Swapper} :
        (state[t] = "QUEUED" \/ Woken(t)) ~> (current = t)

\* A parent asleep in sched_waitpid whose awaited child has become a zombie
\* returns to its program.
WaitpidReturns ==
    \A t \in Slots :
        (pc[t] = "wait" /\ waiting[t] # TtyQueue /\ Condition(t, waiting[t]))
            ~> (pc[t] = "user")

---------------------------------------------------------------------------
(* What the comments of include/kernel/sched.h say of the task states.     *)

\* The tasks reached from the head of the run queue along the next pointers.
Linked ==
    LET walk[i \in 1 .. MAX_PROCESS_CNT] ==
            IF i = 1 THEN run_queue.first
            ELSE IF walk[i - 1] = NULL THEN NULL ELSE run_queue.next[walk[i - 1]]
    IN  IF run_queue.len = 0 THEN {} ELSE {walk[i] : i \in 1 .. MAX_PROCESS_CNT} \ {NULL}

\* TASK_ZOMBIE: "The thread has died, but has not been reaped": a thread that
\* has died is not running.
DeadNeverRuns == current # NULL => pc[current] # "dead"

\* TASK_QUEUED: "runnable and waiting in the run queue", while
\* TASK_INTERRUPTIBLE is "sleeping; waiting for an event".
QueuedStateInQueue == \A t \in Linked : state[t] = "QUEUED"
===========================================================================
