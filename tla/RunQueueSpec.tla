---------------------------- MODULE RunQueueSpec ----------------------------
(* The run queue on its own, with callers that keep the rule the code      *)
(* relies on: a task is pushed only while it is not in the queue.          *)
EXTENDS RunQueue

CONSTANT Tasks
ASSUME TasksAssumption == NULL \notin Tasks

VARIABLE queue

\* The sequence of tasks the list holds.
Contents ==
    CHOOSE q \in [1 .. queue.len -> Tasks] : Represents(queue, q)

Queued(t) == \E i \in 1 .. queue.len : Contents[i] = t

RQInit == queue = run_queue_init(Tasks)

RQPush(t) ==
    /\ ~Queued(t)
    /\ queue' = run_queue_push(queue, t)

RQPoll ==
    /\ queue.len # 0
    /\ queue' = run_queue_poll(queue)

RQNext == RQPoll \/ \E t \in Tasks : RQPush(t)

RQSpec == RQInit /\ [][RQNext]_queue

---------------------------------------------------------------------------
\* The list that push and poll maintain is always well formed: as many links
\* as its length says, no cycle, first and last at its ends, and no link
\* left behind in a task that poll took out.
WellLinked == \E q \in [1 .. queue.len -> Tasks] : Represents(queue, q)

\* The list, seen as an abstract queue.
Abs == INSTANCE Fifo WITH Elements <- Tasks, q <- Contents

\* The linked list implements the abstract queue: run_queue_poll returns the
\* tasks in the order in which run_queue_push was given them.
ImplementsFifo == Abs!FifoSpec
===========================================================================
