---------------------------- MODULE TaskTable ----------------------------
(***************************************************************************)
(* The fixed table of task slots (kernel/core/task_table.c).               *)
(*                                                                         *)
(* A slot that is not in use waits in free_ring, a ring addressed by the   *)
(* free-running counters free_head (next slot to hand out) and free_tail   *)
(* (where the next freed slot goes).  The counters are uint32_t in the     *)
(* code; COUNTER_MOD is 2^32 there and any larger multiple of the table    *)
(* size here, so that the wrap-around happens in small instances.  The     *)
(* masks PID_MASK and MAX_GENERATION are one less than a power of two in   *)
(* the code, so "& mask" is "% (mask + 1)".                                *)
(*                                                                         *)
(* The table is one record, and each C function an operator on it, so that *)
(* the scheduler uses the same operators on its own copy.                  *)
(***************************************************************************)
EXTENDS Integers, Sequences

CONSTANTS MAX_PROCESS_CNT,  \* slots in the table
          COUNTER_MOD,      \* free_head and free_tail count modulo this
          MAX_GENERATION    \* a slot's generation counts modulo this + 1

\* The ring is indexed by a counter that wraps at COUNTER_MOD, so the table
\* size divides it; twice the size is needed to tell a full ring from an
\* empty one.
ASSUME TableAssumption ==
    /\ MAX_PROCESS_CNT \in Nat \ {0}
    /\ COUNTER_MOD \in Nat
    /\ COUNTER_MOD % MAX_PROCESS_CNT = 0
    /\ COUNTER_MOD >= 2 * MAX_PROCESS_CNT
    /\ MAX_GENERATION \in Nat

VARIABLE task_table

Slots == 0 .. MAX_PROCESS_CNT - 1
Generations == 0 .. MAX_GENERATION
PID_NONE == -1

\* Faulty variant of PidOf: the slot shifted instead of the generation.
PidOf_shifts_slot(generation, slot) == slot * MAX_PROCESS_CNT + generation

\* One pid per generation and slot.
PidOf(generation, slot) == generation * MAX_PROCESS_CNT + slot
SlotOf(pid) == pid % MAX_PROCESS_CNT
RingIndex(counter) == counter % MAX_PROCESS_CNT

task_table_init ==
    [free_head  |-> 0,
     free_tail  |-> MAX_PROCESS_CNT,
     free_ring  |-> [i \in Slots |-> i],
     generation |-> [s \in Slots |-> 0],
     pid        |-> [s \in Slots |-> PID_NONE]]

\* The number of free slots, as the unsigned difference of the counters.
FreeCount(tt) == (tt.free_tail - tt.free_head) % COUNTER_MOD

HasFreeSlot(tt) == tt.free_head # tt.free_tail

\* Faulty variant of NextSlot: the slot freed last instead of the one freed first.
NextSlot_lifo(tt) == tt.free_ring[RingIndex(tt.free_tail + MAX_PROCESS_CNT - 1)]

\* task_table_alloc hands out this slot, when HasFreeSlot.
NextSlot(tt) == tt.free_ring[RingIndex(tt.free_head)]

\* Faulty variant: the generation is not masked.
task_table_alloc_unmasked(tt) ==
    LET slot == NextSlot(tt)
    IN  [tt EXCEPT !.pid[slot] = PidOf(tt.generation[slot], slot),
                   !.generation[slot] = @ + 1,
                   !.free_head = (@ + 1) % COUNTER_MOD]

\* task_table_alloc: the table after the slot is handed out under its pid.
task_table_alloc(tt) ==
    LET slot == NextSlot(tt)
    IN  [tt EXCEPT !.pid[slot] = PidOf(tt.generation[slot], slot),
                   !.generation[slot] = (@ + 1) % (MAX_GENERATION + 1),
                   !.free_head = (@ + 1) % COUNTER_MOD]

\* The three panics of task_table_free.
task_table_free_panics(tt, slot) ==
    \/ FreeCount(tt) = MAX_PROCESS_CNT
    \/ tt.pid[slot] < 0
    \/ SlotOf(tt.pid[slot]) # slot

\* Faulty variant: the tail is advanced before it is used as an index.
task_table_free_preincrement(tt, slot) ==
    [tt EXCEPT !.free_ring[RingIndex(tt.free_tail + 1)] = SlotOf(tt.pid[slot]),
               !.free_tail = (@ + 1) % COUNTER_MOD,
               !.pid[slot] = PID_NONE]

\* task_table_free: the table after the slot is put back into the ring.
task_table_free(tt, slot) ==
    [tt EXCEPT !.free_ring[RingIndex(tt.free_tail)] = SlotOf(tt.pid[slot]),
               !.free_tail = (@ + 1) % COUNTER_MOD,
               !.pid[slot] = PID_NONE]

\* task_table_find_task_by_pid: the slots a lookup of the pid returns
\* (none, where the code returns NULL).
task_table_find(tt, pid) ==
    {s \in Slots : pid >= 0 /\ s = SlotOf(pid) /\ tt.pid[s] = pid}

---------------------------------------------------------------------------
(* The table on its own: its callers allocate whenever they like and free  *)
(* only slots they were given.                                             *)

TTInit == task_table = task_table_init

TTAlloc ==
    /\ HasFreeSlot(task_table)
    /\ task_table' = task_table_alloc(task_table)

TTFree(slot) ==
    /\ task_table.pid[slot] # PID_NONE
    /\ task_table' = task_table_free(task_table, slot)

TTNext == TTAlloc \/ \E s \in Slots : TTFree(s)

TTSpec == TTInit /\ [][TTNext]_task_table

---------------------------------------------------------------------------
Pids == {PidOf(g, s) : g \in Generations, s \in Slots}

TableType ==
    [free_head  : 0 .. COUNTER_MOD - 1,
     free_tail  : 0 .. COUNTER_MOD - 1,
     free_ring  : [Slots -> Slots],
     generation : [Slots -> Generations],
     pid        : [Slots -> Pids \cup {PID_NONE}]]

\* The free slots in the order in which task_table_alloc hands them out.
FreeSeq(tt) ==
    [i \in 1 .. FreeCount(tt) |-> tt.free_ring[RingIndex(tt.free_head + i - 1)]]

InUse(tt) == {s \in Slots : tt.pid[s] # PID_NONE}

\* The type of the table: counters stay within their width, and the ring
\* and the pids hold what task_table_init, alloc and free write to them.
TTTypeOK == task_table \in TableType

\* The window of free_ring between the two counters lists every slot that is
\* not in use exactly once, across any wrap-around of the counters: no slot is
\* handed out twice by task_table_alloc and none is lost by task_table_free.
FreeRingExact(tt) ==
    /\ FreeCount(tt) \in 0 .. MAX_PROCESS_CNT
    /\ \A i, j \in 1 .. FreeCount(tt) : FreeSeq(tt)[i] = FreeSeq(tt)[j] => i = j
    /\ \A s \in Slots :
         s \notin InUse(tt) <=> \E i \in 1 .. FreeCount(tt) : FreeSeq(tt)[i] = s

RingOK == FreeRingExact(task_table)

\* A slot in use carries a pid of its own slot.
PidsOwn(tt) ==
    \A s \in InUse(tt) : \E g \in Generations : tt.pid[s] = PidOf(g, s)

\* A task is found again under the pid task_table_alloc gave it: the pid's
\* low part is the slot for every generation, so no lookup ever returns
\* another task and none of the panics of task_table_free can fire for a slot
\* in use.
PidsLeadHome(tt) ==
    \A s \in InUse(tt) : /\ task_table_find(tt, tt.pid[s]) = {s}
                         /\ ~ task_table_free_panics(tt, s)

PidsOK == PidsLeadHome(task_table)

\* The ring, seen as the abstract pool of slots.
Pool == INSTANCE SlotPool WITH
            Size <- MAX_PROCESS_CNT,
            free <- FreeSeq(task_table),
            used <- InUse(task_table)

\* The table implements the first-in first-out pool of slots: the slot
\* task_table_alloc returns is the one that was freed longest ago.
ImplementsSlotPool == Pool!PoolSpec
===========================================================================
