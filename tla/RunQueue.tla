----------------------------- MODULE RunQueue -----------------------------
(***************************************************************************)
(* The run queue (kernel/core/sched.c): an intrusive singly linked list.   *)
(* The link is the field "next" of struct task, one per task, so a task    *)
(* can be in the queue only once; nothing in the code checks that it is    *)
(* not there already when it is pushed.                                    *)
(*                                                                         *)
(* A queue is a record of the fields of struct run_queue and the next      *)
(* pointers of all tasks.  A pointer to a task is the task; NULL is no     *)
(* task.                                                                   *)
(***************************************************************************)
EXTENDS Integers, Sequences

NULL == -1

run_queue_init(Tasks) ==
    [len |-> 0, first |-> NULL, last |-> NULL, next |-> [t \in Tasks |-> NULL]]

\* Faulty variant: the new task goes to the front.
run_queue_push_front(rq, task) ==
    [rq EXCEPT !.next[task] = rq.first,
               !.first = task,
               !.last = IF rq.len = 0 THEN task ELSE @,
               !.len = @ + 1]

run_queue_push(rq, task) ==
    IF rq.len = 0
    THEN [rq EXCEPT !.next[task] = NULL, !.first = task, !.last = task, !.len = 1]
    ELSE [rq EXCEPT !.next = [[@ EXCEPT ![task] = NULL] EXCEPT ![rq.last] = task],
                    !.last = task,
                    !.len = @ + 1]

\* run_queue_poll returns this task, NULL when the queue is empty.
PolledTask(rq) == IF rq.len = 0 THEN NULL ELSE rq.first

\* A corrupted list can say it has tasks and have no first one; poll then
\* reads a field of NULL, which is a page fault.
run_queue_poll_faults(rq) == rq.len # 0 /\ rq.first = NULL

\* Faulty variant: the last pointer survives the last task.
run_queue_poll_keeps_last(rq) ==
    IF rq.len = 0 THEN rq
    ELSE [rq EXCEPT !.first = rq.next[rq.first],
                    !.len = @ - 1,
                    !.next[rq.first] = NULL]

\* run_queue_poll: the queue after the first task is taken out.
run_queue_poll(rq) ==
    IF rq.len = 0 THEN rq
    ELSE [rq EXCEPT !.first = rq.next[rq.first],
                    !.len = @ - 1,
                    !.last = IF rq.len = 1 THEN NULL ELSE @,
                    !.next[rq.first] = NULL]

---------------------------------------------------------------------------
QueueType(Tasks) ==
    [len : Nat, first : Tasks \cup {NULL}, last : Tasks \cup {NULL},
     next : [Tasks -> Tasks \cup {NULL}]]

\* The list rq is well formed and holds the tasks of the sequence q, each
\* once and in this order; tasks outside of it have no link.
Represents(rq, q) ==
    /\ rq.len = Len(q)
    /\ rq.first = IF q = <<>> THEN NULL ELSE q[1]
    /\ rq.last = IF q = <<>> THEN NULL ELSE q[Len(q)]
    /\ \A i, j \in 1 .. Len(q) : q[i] = q[j] => i = j
    /\ \A i \in 1 .. Len(q) :
         rq.next[q[i]] = IF i = Len(q) THEN NULL ELSE q[i + 1]
    /\ \A t \in DOMAIN rq.next : (\A i \in 1 .. Len(q) : q[i] # t) => rq.next[t] = NULL
===========================================================================
