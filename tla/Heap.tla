-------------------------------- MODULE Heap --------------------------------
(***************************************************************************)
(* The heap of a process: brk and brk_limit in the kernel (mm_brk), and    *)
(* __curbrk in the program (sbrk of libs/libc.c), through execve and fork. *)
(* A program lies somewhere below its end; below it nothing is mapped.     *)
(***************************************************************************)
EXTENDS Integers, Sequences

CONSTANTS
  Procs,        \* processes
  Ends,         \* ends of programs, aligned
  ArgSizes,     \* sizes of arguments and environment together
  HEAP,         \* PROCESS_HEAP_SIZE
  Increments,   \* sizes a program asks sbrk for
  BlockMax      \* bound: blocks a process holds

ASSUME HeapAssumption ==
  /\ Ends \subseteq Nat \ {0} /\ Increments \subseteq Nat \ {0}
  /\ HEAP \in Nat /\ ArgSizes \subseteq 0 .. HEAP /\ BlockMax \in Nat

VARIABLES
  alive,        \* processes that run a program
  task,         \* of each process: brk and brk_limit
  prog,         \* of each process: its end and its __curbrk
  blocks        \* history: [from, to) of what sbrk handed out and nobody gave back

heapVars == <<alive, task, prog, blocks>>

\* Whether the kernel takes addr as the new break.
mm_brk(p, addr) == addr <= task[p].brk_limit

\* elf_load does not look for __curbrk: it always says that there is none.
curbrk_off == 0

\* A program as task_kernel_exec and sched_execve leave it: __curbrk is zero
\* unless its place is known, and arguments and environment are copied to the
\* break.
Loaded(end, size) ==
  [task |-> [brk |-> end + size, brk_limit |-> end + HEAP],
   prog |-> [end |-> end, curbrk |-> IF curbrk_off # 0 THEN end ELSE 0]]

HeapInit ==
  \E first \in Procs, end \in Ends, size \in ArgSizes :
    /\ alive = {first}
    /\ task = [p \in Procs |-> Loaded(end, size).task]
    /\ prog = [p \in Procs |-> Loaded(end, size).prog]
    /\ blocks = [p \in Procs |-> <<>>]

HeapExec(p) ==
  /\ p \in alive
  /\ \E end \in Ends, size \in ArgSizes :
       /\ task' = [task EXCEPT ![p] = Loaded(end, size).task]
       /\ prog' = [prog EXCEPT ![p] = Loaded(end, size).prog]
  /\ blocks' = [blocks EXCEPT ![p] = <<>>]
  /\ UNCHANGED alive

\* The child has a copy of the memory, __curbrk in it, and of the break.
HeapFork(p, c) ==
  /\ p \in alive /\ c \notin alive
  /\ alive' = alive \cup {c}
  /\ task' = [task EXCEPT ![c] = task[p]]
  /\ prog' = [prog EXCEPT ![c] = prog[p]]
  /\ blocks' = [blocks EXCEPT ![c] = blocks[p]]

HeapExit(p) == p \in alive /\ alive # {p} /\ alive' = alive \ {p} /\ UNCHANGED <<task, prog, blocks>>

\* Faulty variant of NewBreak: the program's copy of the break stays.
NewBreak_stale(p, addr) ==
  /\ task' = [task EXCEPT ![p].brk = addr]
  /\ UNCHANGED prog

\* A break that the kernel took is stored in the program.
NewBreak(p, addr) ==
  /\ task' = [task EXCEPT ![p].brk = addr]
  /\ prog' = [prog EXCEPT ![p].curbrk = addr]

\* sbrk with a positive increment.
Sbrk(p, inc) ==
  /\ p \in alive /\ Len(blocks[p]) < BlockMax
  /\ LET old == prog[p].curbrk
     IN  \/ /\ mm_brk(p, old + inc)
            /\ NewBreak(p, old + inc)
            /\ blocks' = [blocks EXCEPT ![p] = Append(@, <<old, old + inc>>)]
         \/ ~mm_brk(p, old + inc) /\ UNCHANGED <<task, prog, blocks>>
  /\ UNCHANGED alive

\* sbrk with a negative increment: a program gives back its last block.
GiveBack(p) ==
  /\ p \in alive /\ blocks[p] # <<>>
  /\ LET last == blocks[p][Len(blocks[p])]
         new == prog[p].curbrk - (last[2] - last[1])
     IN  mm_brk(p, new) /\ NewBreak(p, new)
  /\ blocks' = [blocks EXCEPT ![p] = SubSeq(@, 1, Len(@) - 1)]
  /\ UNCHANGED alive

\* brk: the kernel's break moves, __curbrk does not.
Brk(p) ==
  /\ p \in alive
  /\ \E addr \in 0 .. prog[p].end + HEAP + 1 :
       IF mm_brk(p, addr) THEN task' = [task EXCEPT ![p].brk = addr] ELSE UNCHANGED task
  /\ UNCHANGED <<alive, prog, blocks>>

HeapNext ==
  \E p \in Procs :
    \/ HeapExec(p) \/ HeapExit(p) \/ GiveBack(p) \/ Brk(p)
    \/ \E c \in Procs : HeapFork(p, c)
    \/ \E inc \in Increments : Sbrk(p, inc)

HeapSpec == HeapInit /\ [][HeapNext]_heapVars
-----------------------------------------------------------------------------
Overlap(s, t) == s[1] < t[2] /\ t[1] < s[2]

(* Blocks that sbrk handed out do not overlap, also in a child that goes   *)
(* on with the heap of its parent, and after calls of brk.                 *)
BlocksApart ==
  \A p \in alive : \A i, j \in DOMAIN blocks[p] :
    i # j => ~Overlap(blocks[p][i], blocks[p][j])

(* No block goes beyond the limit of the heap, which is below the stack,   *)
(* whatever the program's own copy of the break says.                      *)
BlocksBelowLimit ==
  \A p \in alive : \A i \in DOMAIN blocks[p] : blocks[p][i][2] <= prog[p].end + HEAP

(* What sbrk hands out lies in the heap: sched_execve stores the break in  *)
(* __curbrk, whose place elf_load is to report.                            *)
BlocksInHeap ==
  \A p \in alive : \A i \in DOMAIN blocks[p] : prog[p].end <= blocks[p][i][1]

(* What sbrk hands out: blocks that are in use do not overlap and never go *)
(* over the limit of the heap, through execve, fork and giving back.       *)
HeapCorrect == BlocksApart /\ BlocksBelowLimit
=============================================================================
