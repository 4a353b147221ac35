----------------------------- MODULE CtxFrames -----------------------------
(***************************************************************************)
(* The stacks under a context switch: what sys_enter, ctx_switch,          *)
(* ctx_setup_trampoline, ctx_setup_fork_return, task_trampoline and        *)
(* sys_return push and pop, word by word (arch/x86/sched.asm,              *)
(* arch/x86/syscall.asm), and what the start code of a program             *)
(* (bin/crt0_i386.asm) reads from the stack it is given.                   *)
(*                                                                         *)
(* A word is <<what, number>>.  A kernel stack is an array of words and    *)
(* its pointer the number of words above it that are in use, so a push     *)
(* makes it grow.  A user stack is a sequence with [esp] at its end.       *)
(***************************************************************************)
EXTENDS Integers, Sequences

CONSTANTS
  Tasks,        \* the slots of the task table, 1 .. n; 1 is the first task
  KWords,       \* words of a kernel stack
  MaxExecs,     \* bound on the executes of one task
  Programs      \* argc and envc of the programs that may be started

(* Every start of a program leaves sixteen words on the kernel stack and a *)
(* call that is switched out takes fifteen more: so much fits.             *)
ASSUME CtxAssumption ==
  /\ Programs \subseteq [argc : Nat, envc : Nat]
  /\ Tasks \subseteq Nat \ {0} /\ 1 \in Tasks
  /\ MaxExecs \in Nat \ {0}
  /\ KWords \in Nat /\ 16 * MaxExecs + 15 <= KWords

VARIABLES
  cur,          \* the task that runs, 0 for none
  pc,           \* where it runs
  esp,          \* kernel stack pointer of the running task
  regs,         \* the registers ctx_switch saves
  k_sp, u_sp,   \* struct cpu_ctx
  kst, ust,     \* kernel and user stacks
  started,      \* tasks that exist
  program,      \* argc and envc each task was last started with
  execs,        \* how often the task was started by a trampoline
  regs_out,          \* registers a task had when it was switched out
  call          \* what a program had when it entered the kernel

ctxVars == <<cur, pc, esp, regs, k_sp, u_sp, kst, ust, started, program, execs,
          regs_out, call>>
-----------------------------------------------------------------------------
Zero == <<"zero", 0>>
EFLAGS == <<"eflags", 514>>             \* 0x202
Regs(tag, n) == [ebx |-> <<tag \o "ebx", n>>, esi |-> <<tag \o "esi", n>>,
                 edi |-> <<tag \o "edi", n>>, ebp |-> <<tag \o "ebp", n>>,
                 eflags |-> EFLAGS]
NoProgram == [argc |-> 0, envc |-> 0]
NoCall == [ebp |-> Zero, depth |-> 0]

\* The words ws on a stack st with d words in use; the last is [esp].
Poke(st, d, ws) ==
  [i \in DOMAIN st |-> IF i \in (d + 1) .. (d + Len(ws)) THEN ws[i - d] ELSE st[i]]

\* Faulty variant of the frame of a forked task: the order of the other frame.
ForkFrame_reversed ==
  <<<<"sys_return", 0>>, EFLAGS, Zero, Zero, Zero, Zero>>

ForkFrame == <<<<"sys_return", 0>>, Zero, Zero, Zero, Zero, EFLAGS>>

TrampolineFrame(p) ==
  <<<<"envc", p.envc>>, <<"envp", 0>>, <<"argv", 0>>, <<"argc", p.argc>>,
    <<"entry", 0>>, Zero, <<"task_trampoline", 0>>,
    EFLAGS, Zero, Zero, Zero, Zero>>

(* The three arguments, the last one first, and the return address of the  *)
(* call in sched_schedule, then what ctx_switch pushes.                    *)
SwitchFrame(r) ==
  <<<<"mm", 0>>, <<"next", 0>>, <<"prev", 0>>, <<"schedule", 0>>,
    r.ebx, r.esi, r.edi, r.ebp, r.eflags>>
-----------------------------------------------------------------------------
(* task_kernel_exec has prepared the first task; sched_start will switch   *)
(* to it.                                                                  *)
CtxInit ==
  /\ \E p \in Programs :
       /\ program = [t \in Tasks |-> IF t = 1 THEN p ELSE NoProgram]
       /\ kst = [t \in Tasks |-> IF t = 1
                   THEN Poke([i \in 1 .. KWords |-> Zero], 0, TrampolineFrame(p))
                   ELSE [i \in 1 .. KWords |-> Zero]]
  /\ cur = 0 /\ pc = "none" /\ esp = 0
  /\ regs = Regs("k", 0)
  /\ k_sp = [t \in Tasks |-> IF t = 1 THEN Len(TrampolineFrame(NoProgram)) ELSE 0]
  /\ u_sp = [t \in Tasks |-> 0]
  /\ ust = [t \in Tasks |-> <<>>]
  /\ started = {1}
  /\ execs = [t \in Tasks |-> IF t = 1 THEN 1 ELSE 0]
  /\ regs_out = [t \in Tasks |-> Regs("k", 0)]
  /\ call = [t \in Tasks |-> NoCall]

(* The second half of ctx_switch: the stack of task n, five pops, sti and  *)
(* the return to whatever address comes next.                              *)
SwitchTo(n, stacks, sps) ==
  LET st == stacks[n]
      d == sps[n]
  IN  /\ cur' = n
      /\ regs' = [eflags |-> st[d], ebp |-> st[d - 1], edi |-> st[d - 2],
                  esi |-> st[d - 3], ebx |-> st[d - 4]]
      /\ pc' = st[d - 5][1]
      /\ esp' = d - 6

(* sched_start and, after the running task has gone, sched_schedule with   *)
(* no previous task: what is saved goes to a context nobody reads.         *)
Dispatch(n) ==
  /\ cur = 0
  /\ n \in started
  /\ SwitchTo(n, kst, k_sp)
  /\ UNCHANGED <<k_sp, u_sp, kst, ust, started, program, execs, regs_out, call>>

(* A program calls the kernel.  The call pushes the return address,        *)
(* sys_enter the arguments, flags, ebp and edi on the user stack and the   *)
(* arguments once more on the kernel stack; then it calls the dispatcher,  *)
(* whose code uses the registers.  Values carry the number of the task     *)
(* they belong to.                                                         *)

SysEnterArgs(u, d) ==
  Poke(kst[cur], d, <<u[Len(u) - 7], u[Len(u) - 6], u[Len(u) - 5],
                      u[Len(u) - 4], u[Len(u) - 3], <<"sys_enter", 0>>>>)

sys_enter ==
  /\ pc = "user"
  /\ LET n == cur
         r == Regs("u", n)
         u == ust[cur] \o <<<<"user", 0>>, <<"a4", n>>, <<"a3", n>>, <<"a2", n>>,
                            <<"a1", n>>, <<"nr", n>>, r.eflags, r.ebp, r.edi>>
     IN  /\ ust' = [ust EXCEPT ![cur] = u]
         /\ u_sp' = [u_sp EXCEPT ![cur] = Len(u)]
         /\ kst' = [kst EXCEPT ![cur] = SysEnterArgs(u, k_sp[cur])]
         /\ esp' = k_sp[cur] + 6
         /\ call' = [call EXCEPT ![cur] = [ebp |-> r.ebp, depth |-> Len(ust[cur])]]
  /\ pc' = "dispatch"
  /\ regs' = Regs("k", cur)
  /\ UNCHANGED <<cur, k_sp, started, program, execs, regs_out>>

(* sched_schedule and ctx_switch: the running task stops here, n goes on.  *)
ctx_switch(n) ==
  /\ pc \in {"dispatch", "schedule"}
  /\ n \in started \ {cur}
  /\ LET frame == SwitchFrame(regs)
         base == IF pc = "dispatch" THEN esp ELSE esp - 3
         stacks == [kst EXCEPT ![cur] = Poke(@, base, frame)]
         sps == [k_sp EXCEPT ![cur] = base + Len(frame)]
     IN  kst' = stacks /\ k_sp' = sps /\ SwitchTo(n, stacks, sps)
  /\ regs_out' = [regs_out EXCEPT ![cur] = regs]
  /\ UNCHANGED <<u_sp, ust, started, program, execs, call>>

(* A task that is switched back to returns through sched_schedule to the   *)
(* dispatcher: its caller drops the three arguments.                       *)
Resume ==
  /\ pc = "schedule"
  /\ pc' = "dispatch"
  /\ esp' = esp - 3
  /\ UNCHANGED <<cur, regs, k_sp, u_sp, kst, ust, started, program, execs, regs_out, call>>

(* sys_enter_dispatch_c returns, the arguments are dropped.                *)
DispatchReturns ==
  /\ pc = "dispatch"
  /\ pc' = kst[cur][esp][1]
  /\ esp' = esp - 1
  /\ UNCHANGED <<cur, regs, k_sp, u_sp, kst, ust, started, program, execs, regs_out, call>>

DropArguments ==
  /\ pc = "sys_enter"
  /\ pc' = "sys_return"
  /\ esp' = esp - 5
  /\ UNCHANGED <<cur, regs, k_sp, u_sp, kst, ust, started, program, execs, regs_out, call>>

(* sys_return: the kernel stack pointer is kept for the next call; edi,    *)
(* ebp and flags come from the user stack, the five arguments are          *)
(* discarded, and ret takes the return address.                            *)

sys_return ==
  /\ pc = "sys_return"
  /\ k_sp' = [k_sp EXCEPT ![cur] = esp]
  /\ LET u == SubSeq(ust[cur], 1, u_sp[cur])
         n == Len(u)
     IN  /\ regs' = [regs EXCEPT !.edi = u[n], !.ebp = u[n - 1], !.eflags = u[n - 2]]
         /\ pc' = u[n - 8][1]
         /\ ust' = [ust EXCEPT ![cur] = SubSeq(u, 1, n - 9)]
  /\ UNCHANGED <<cur, esp, u_sp, kst, started, program, execs, regs_out, call>>

(* sched_fork: the child's kernel stack is empty but for the frame; its    *)
(* memory, and so its user stack, is the parent's.                         *)
sched_fork(c) ==
  /\ pc = "dispatch"
  /\ c \in Tasks \ started
  /\ started' = started \cup {c}
  /\ kst' = [kst EXCEPT ![c] = Poke(@, 0, ForkFrame)]
  /\ k_sp' = [k_sp EXCEPT ![c] = Len(ForkFrame)]
  /\ u_sp' = [u_sp EXCEPT ![c] = u_sp[cur]]
  /\ ust' = [ust EXCEPT ![c] = ust[cur]]
  /\ program' = [program EXCEPT ![c] = program[cur]]
  /\ execs' = [execs EXCEPT ![c] = 0]
  /\ call' = [call EXCEPT ![c] = call[cur]]
  /\ UNCHANGED <<cur, pc, esp, regs, regs_out>>

(* A successful sched_execve and the tail of its system call: the frame    *)
(* goes where the kernel stack was when the call began, and the task is    *)
(* only one of those that sched_schedule may choose.                       *)
sched_execve(p) ==
  /\ pc = "dispatch"
  /\ execs[cur] < MaxExecs
  /\ k_sp[cur] = esp - 6                \* the call has not been switched out
  /\ kst' = [kst EXCEPT ![cur] = Poke(@, k_sp[cur], TrampolineFrame(p))]
  /\ k_sp' = [k_sp EXCEPT ![cur] = @ + Len(TrampolineFrame(p))]
  /\ u_sp' = [u_sp EXCEPT ![cur] = 0]
  /\ program' = [program EXCEPT ![cur] = p]
  /\ execs' = [execs EXCEPT ![cur] = @ + 1]
  /\ cur' = 0 /\ pc' = "none"
  /\ UNCHANGED <<esp, regs, ust, started, regs_out, call>>

(* sched_exit and sched_schedule; the slot can be taken again.             *)
sched_exit ==
  /\ pc = "dispatch"
  /\ cur # 1
  /\ started' = started \ {cur}
  /\ cur' = 0 /\ pc' = "none"
  /\ UNCHANGED <<esp, regs, k_sp, u_sp, kst, ust, program, execs, regs_out, call>>

(* task_trampoline finds its arguments above its return address, leaves    *)
(* ten words of its own below them (ebp, six locals, three registers), and *)
(* builds the stack of the program: from the top of memory down the        *)
(* auxiliary vector, NULL, envp backwards, NULL, argv backwards, argc.     *)
Auxv == [i \in 1 .. 14 |-> <<"aux", i>>]
Pointers(tag, n) == [i \in 1 .. n |-> <<tag, n + 1 - i>>]

StartStack(argc, envc) ==
  Auxv \o <<Zero>> \o Pointers("env", envc)
       \o <<Zero>> \o Pointers("arg", argc) \o <<<<"argc", argc>>>>

task_trampoline ==
  /\ pc = "task_trampoline"
  /\ LET arg(i) == kst[cur][esp - i]    \* [ebp + 4 + 4i]
     IN  ust' = [ust EXCEPT ![cur] = StartStack(arg(2)[2], arg(5)[2])]
  /\ k_sp' = [k_sp EXCEPT ![cur] = esp + 10]
  /\ pc' = "_start"
  /\ UNCHANGED <<cur, esp, regs, u_sp, kst, started, program, execs, regs_out, call>>

(* _start reads argc and works out argv and envp from it.  The words of a  *)
(* stack by their distance from esp:                                       *)
At(u, i) == u[Len(u) - i]
List(u, from) ==
  LET ends == {n \in 0 .. Len(u) : from + n >= Len(u) \/ At(u, from + n) = Zero}
      len == CHOOSE n \in ends : \A m \in ends : n <= m
  IN  [i \in 1 .. len |-> At(u, from + i - 1)]
crt0(u) ==
  LET argc == At(u, 0)[2]
  IN  [argc |-> argc, argv |-> List(u, 1), envp |-> List(u, 2 + argc)]

_start ==
  /\ pc = "_start"
  /\ pc' = "user"
  /\ ust' = [ust EXCEPT ![cur] = <<>>]  \* the part below is the program's own
  /\ call' = [call EXCEPT ![cur] = [ebp |-> regs.ebp, depth |-> 0]]
  /\ UNCHANGED <<cur, esp, regs, k_sp, u_sp, kst, started, program, execs, regs_out>>

CtxNext ==
  \/ \E n \in Tasks : Dispatch(n)
  \/ sys_enter
  \/ \E n \in Tasks : ctx_switch(n)
  \/ Resume
  \/ DispatchReturns
  \/ DropArguments
  \/ sys_return
  \/ \E c \in Tasks : sched_fork(c)
  \/ \E p \in Programs : sched_execve(p)
  \/ sched_exit
  \/ task_trampoline
  \/ _start

CtxSpec == CtxInit /\ [][CtxNext]_ctxVars
-----------------------------------------------------------------------------
(* Types; the stack pointers stay inside the kernel stack.                 *)
CtxTypeOK ==
  /\ cur \in Tasks \cup {0}
  /\ esp \in 0 .. KWords
  /\ k_sp \in [Tasks -> 0 .. KWords]
  /\ started \subseteq Tasks
  /\ program \in [Tasks -> Programs \cup {NoProgram}]
  /\ execs \in [Tasks -> 0 .. MaxExecs]

(* Every ret takes a return address: the word on top when ctx_switch,      *)
(* sys_enter or sys_return has popped what it pops was put there as one,   *)
(* in every mix of frames that calls, forks and executes leave behind.     *)
RetTakesReturnAddress ==
  pc \in {"none", "user", "dispatch", "schedule", "sys_enter", "sys_return",
         "task_trampoline", "_start"}

(* A task that is switched back to has the registers it was switched out   *)
(* with (ctx_switch).                                                      *)
RegistersSurvive == pc = "schedule" => regs = regs_out[cur]

(* Whoever returns to a program - the caller or the child of its fork,     *)
(* after any number of switches - has the program's ebp and its stack as   *)
(* at the call (sys_enter, sys_return, ctx_setup_fork_return).             *)
ProgramContinues ==
  pc = "user" => /\ regs.ebp = call[cur].ebp
                 /\ Len(ust[cur]) = call[cur].depth

(* A switched-out task and the child of a fork start with popfd taking the *)
(* word that was meant for it (ctx_setup_fork_return, ctx_switch).         *)
FlagsMeetPopfd == pc \in {"schedule", "sys_return"} => regs.eflags = EFLAGS

(* sys_enter_dispatch_c(nr, a1, a2, a3, a4) finds its arguments in that    *)
(* order above its return address for as long as it runs (sys_enter).      *)
DispatcherSeesArguments ==
  pc = "dispatch" =>
    [i \in 1 .. 5 |-> kst[cur][esp - i][1]] = <<"nr", "a1", "a2", "a3", "a4">>

(* Calls leave nothing on a kernel stack; every start of a program leaves  *)
(* sixteen words for good (task_trampoline keeps its frame and its         *)
(* arguments and is never returned to).                                    *)
KernelStackReturns == pc = "user" => k_sp[cur] = 16 * execs[cur]

(* The start code finds the arguments and the environment the program was  *)
(* started with (TrampolineFrame, task_trampoline, crt0_i386.asm).         *)
ProgramSeesArguments ==
  pc = "_start" =>
    LET seen == crt0(ust[cur])
        p == program[cur]
    IN  /\ seen.argc = p.argc
        /\ seen.argv = [i \in 1 .. p.argc |-> <<"arg", i>>]
        /\ seen.envp = [i \in 1 .. p.envc |-> <<"env", i>>]

(* "CPU state that ctx_switch will restore (must match ctx_switch pop      *)
(* order)" (sched.asm, ctx_setup_trampoline): a new program's flags and    *)
(* ebx are the words meant for them.                                       *)
TrampolineMatchesPops ==
  pc = "task_trampoline" => regs.eflags = EFLAGS /\ regs.ebx = Zero

(* "Save kernel ESP (should be at top after unwinding)" (syscall.asm,      *)
(* sys_return).                                                            *)
TopAfterUnwinding == pc = "sys_return" => esp = 0

(* Stacks through every mix of calls, switches, forks and starts of        *)
(* programs: each pop takes the word that was pushed for it, a task goes   *)
(* on with its own registers and stack, and dispatcher and program find    *)
(* their arguments.                                                        *)
FramesCorrect ==
  /\ CtxTypeOK
  /\ RetTakesReturnAddress
  /\ RegistersSurvive
  /\ ProgramContinues
  /\ FlagsMeetPopfd
  /\ DispatcherSeesArguments
  /\ KernelStackReturns
  /\ ProgramSeesArguments
=============================================================================
