# Verification of the punix kernel

Punix is a small 32-bit Unix-like kernel for x86. This directory holds TLA+ modules
that model its core, TLC configurations that check them on small instances, and TLAPS
proofs of the most important properties for every instance.

## The system

One CPU, no timer interrupt, one interrupt source (the keyboard). The kernel is
cooperative: a task keeps the CPU until it calls `sched_schedule`, which most system
calls do before their work. Kernel code runs with interrupts enabled.

| part | source | state | operations | talks to |
|---|---|---|---|---|
| task table | `kernel/core/task_table.c` | 64 slots, a ring of free slots with free-running counters, a generation per slot | init, alloc, free, find by pid | memory management (an address space per slot) |
| run queue | `kernel/core/sched.c` | first, last, len; a `next` pointer in every task | init, push, poll | |
| scheduler, process life cycle | `kernel/core/sched.c` | current task; state, parent, children, signals of every task | schedule, fork, execve, exit, kill, waitpid | task table, run queue, wait queues, context switch |
| wait queues | `kernel/core/wait.c` | doubly linked entries on the stacks of sleeping tasks | wait_event, wakeup | run queue |
| system calls | `kernel/core/syscall.c`, `arch/x86/syscall.asm` | | dispatch | everything |
| terminals | `kernel/core/tty.c` | input and output rings, active terminal, waiting readers | read, write, input_put, activate | wait queues, console |
| keyboard | `arch/x86/keyboard.c` | modifiers, prefix byte | interrupt handler | terminals |
| interrupts, context switch | `arch/x86/irq.c`, `arch/x86/sched.asm` | gates; stack frames | switch, start, return from fork | scheduler |
| console | `arch/x86/console_vga.c` | cells, cursor, escape state | put, clear | terminals |
| virtual file system, open files | `fs/vfs.c`, `fs/files.c` | mounts, pool of files, descriptors, cwd | open, close, read, write, getdents, fstat, chdir, getcwd | file systems, tasks |
| file systems | `fs/*_fs.c` | tables of entries | per operation | tasks, terminals |
| memory management, ELF loader | `arch/x86/mm.c`, `kernel/core/mm.c`, `kernel/core/elf_loader.c` | pools of pages and areas | fork, copy, map, brk, load | tasks |
| clock | `arch/x86/clock.c` | boot time | gettime | |
| programs | `bin/`, `libs/libc.c` | | shell, init, swapper, tools | system calls |

What is hard, and what a property must be about:

* the order in which two tasks and the keyboard interrupt take their steps between two
  calls of `sched_schedule` (sleeping, waking, exiting and reaping);
* lists threaded through the tasks themselves, with no check that a task is in one
  only once (`run_queue_push`, `wait_queue_add`);
* slots that are reused while old pointers and pids still name them;
* counters and generations that wrap;
* pools at their limits, and calls that fail after they have taken half of what they need;
* an interrupt between any two stores of the kernel;
* text that is cut at the end of buffers of different sizes.

`PROJECT.json` lists these hazards at their lines, with the properties that cover them.

## Modules

| module | models |
|---|---|
| `TaskTable` | `task_table.c`: each function as an operator on the table, and the table on its own as a specification |
| `SlotPool` | what the table promises: a first-in first-out pool of slots |
| `RunQueue` | the three run queue functions as operators on the linked list |
| `RunQueueSpec`, `Fifo` | the run queue on its own, and the queue it promises to be |
| `Sched` | the scheduler: composes `TaskTable` and `RunQueue` with wait queues, process life cycle, signals, one terminal's readers and the swapper |
| `WaitIrq` | `wait_event`, `wakeup`, run queue, `sched_schedule` and the swapper store by store, with the keyboard interrupt between any two stores |
| `Keyboard` | `keyboard.c`: bytes of the controller, prefix, modifiers, characters, terminal switch |
| `Tty` | `tty.c`: input and output rings, active terminal, redraw, with interrupts inside reads and writes |
| `Console` | `console_vga.c`: cells, cursor, scrolling, control characters, escape sequences |
| `Paths` | `vfs.c`: normalisation in place, resolution, mounts, chdir, getcwd |
| `Files` | `files.c` and the pool of files of `vfs.c`, through open, close, fork, execve, exit and reuse of slots |
| `ProcFs` | `proc_fs.c` over the table of `TaskTable`, while tasks come and go |
| `FileSystems` | `root_fs.c`, `sys_fs.c`, `dev_fs.c`, `bin_fs.c`, their operations and shared position, chdir |
| `Mm` | `arch/x86/mm.c`: paging pool, directories and tables, TLB, copy window; what fork, execve and boot do to memory; the loader's areas |
| `Heap` | `mm_brk`, `sbrk` and `brk`: the break in the kernel and its copy in the program |
| `CtxFrames` | `sched.asm`, `syscall.asm`, `crt0_i386.asm`: the stacks, word by word |
| `Clock`, `Calendar` | `clock.c` and the date of `date.c` |
| `Arith` | the 64-bit divisions of `kutils.c` and `libc.c` |
| `Format` | `vsnprintf`, `printf`, `atoi` of `libc.c`, and their copies in the kernel |
| `ShellLine` | `sh.c`: line editor and history |
| `ShellWords` | `sh.c`: words, quotes, assignments, expansion, environment strings |
| `ShellVars`, `Shell`, `ShellEnv` | `sh.c`: the table of variables; commands, jobs and statuses; and the map the table promises to be |
| `InitProc` | `init.c`: a shell for every terminal |
| `Constants` | the number of terminals, which `Tty`, `FileSystems` and `InitProc` share |
| `MCFiles`, `MCMachine`, `MCTerminals`, `MCTasks` | instances: see "Suites" |
| `CounterLemmas`, `TaskTableProofs`, `SchedProofs`, `FilesProofs`, `MachineProofs`, `TerminalProofs`, `ShellProofs`, `WordsProofs` | theorems and proofs |

Definitions keep the names of the C functions; operators whose names end in a
description of a fault (`task_table_free_preincrement`, `proc_read_by_slot`) are
faulty variants that show that a property notices such a bug.

**Suites.** A module that a run checks together with others has its own names for its
initial states, steps and variables (`PathsInit`, `PathsNext`, `pathsVars`). The suites
put such modules side by side: the variable `part` picks one in the initial state, that
one takes its steps, and the rest keep one of their initial states. The modules of a
suite share no variable and no operator depends on another module's state, so the
behaviours of a suite are exactly the behaviours of its modules one at a time, and a
suite only saves writing the same instance four or six times. `Stopped` is a step that
changes nothing, for the states in which the system may really end (a panic, a bound on
time, an exited shell); everywhere else deadlock is an error.

Composition in the proper sense is in `Sched` (task table, run queue, wait queues),
`ProcFs` (task table), `Mm` (memory of fork and execve) and `WaitIrq` (run queue and wait
queue with interrupts). Three modules are shown to implement an abstract specification:
`TaskTable` implements `SlotPool`, `RunQueueSpec` implements `Fifo`, and the variables of
`Shell` implement `ShellEnv` (`VariablesAreMap`).

### State and actions of `Sched`

`task_table`, `run_queue`, `current` are the fields of `struct scheduler`; `state`,
`parent`, `children` (the list over `next_sibling`), `pending` fields of `struct task`.
A wait queue entry is a local variable of `wait_event`, so a task has at most one and a
queue is a sequence of tasks (`waiters`). `wakelist` is the list that a `wakeup` in
progress has detached. `pc[t]` and `waiting[t]` stand for the kernel stack of task `t`:
the place where it goes on when it gets the CPU. `input` counts the characters in the
input ring. `panic` is set where the code panics or faults.

One step is what the kernel does for the current task from one resumption to its next
call of `sched_schedule`, its next `wakeup`, or its return to the program:

* `sched_schedule` is an operator: poll, the early return when only the swapper is left,
  requeueing of a task that is not asleep, the switch. A list that says it has tasks and
  has no first one is a page fault.
* `Yield` stands for every system call that only schedules, as far as this state goes;
  `Read` and `ReadBody` for `read`, which schedules twice and may sleep.
* `Fork`, `Execve`, `Kill`, `WaitpidOne`, `WaitpidAny` are the calls of their names;
  `Exit`, `ExitNotifyParent`, `ExitSwitch` are `sched_exit` cut at its two wakeups.
* `WaitInterrupted`, `WaitAgain`, `WaitDone` are the three ways on from the
  `sched_schedule` in `wait_event`; the last one includes the rest of `tty_read` or of
  `sched_waitpid`.
* `WakeNext` is one turn of the loop of `wakeup`.
* `SwapperHalt`, `SwapperYield` are `bin/swapper.c`; `KeyboardInput` is the interrupt, as
  far as it comes in programs and in the swapper's loop.

A task that has died has no step: `sched_exit` does not save its context, so what a
switch to it would run is whatever its stack last held. The properties say it does not
happen, or, with signals to sleeping tasks, show that it does.

### State and actions of the other modules

* `WaitIrq`. `at` is the next store of the running thread and `cont[t]` where task `t`
  goes on when it is switched to; every store to the run queue and to the wait queue is
  an action. `KeyIrq` may be taken between any two: it adds a character, empties the wait
  queue and pushes its tasks. `Window` names the points at which that does harm, and `hit`
  records that it happened; the properties hold of all behaviours without a hit. This is
  what the module adds to `Sched`, whose calls are atomic with respect to the interrupt:
  there `KeyboardInput` comes only while a program runs and in the swapper's loop. A read
  takes any part of the input (`TakeInput`), so `KeysGetRead` does not say that the
  terminal is empty at some time, which keys that go on coming may prevent, but that input
  which is there again and again is taken again and again.
* `Tty`. A read is count, copy, commit; a write is test for room, store, count, test for
  the active terminal, put; a key or a switch of terminals may come in between. `torn`
  says that a switch came between the store and the put.
* `Files`. `vfs` is the ring of free files, `files[t]` the descriptors of a task. Every
  open may fail at each of its three points. `life` follows a slot from the pool through
  a task and a zombie back to the pool.
* `Mm`. `pd` and `pt` are the directories and tables, `tlb` what the processor remembers,
  `mem` the frames. `mm_init`, `task_table_init` and `task_kernel_exec` allocate in the
  order of boot; fork is a step per page: arm the window, copy, disarm.
* `CtxFrames`. `kst` and `ust` are the stacks; each action pops and pushes what one
  stretch of assembler does, and `pc` becomes whatever word `ret` finds.
* `Paths`, `ShellWords`, `Format`, `Console` work on characters because what they do at
  the end of a buffer is the point; their buffers are a few characters long.
* `Arith` takes the width of a word as the parameter `W`; a turn of the loop is a step.
* `Clock` and `Calendar` scale seconds, counter and word down; `Calendar` walks day by
  day through all years.
* `Shell` and `InitProc` treat their children as `sched_fork`, `sched_execve`,
  `sched_exit` and `sched_waitpid` do (`external` in the map where a child's own program
  decides).

## Runs

| run | instance | shows |
|---|---|---|
| `task_table` | 3 slots, counters modulo 6, 3 generations | ring exact, pids lead home, a first-in first-out pool |
| `run_queue` | 5 tasks | well-formed list, a first-in first-out queue |
| `sched_tree` | 4 slots, all calls but kill | run queue, wakeups, process tree, reaping |
| `sched_signals` | 3 slots, 2 generations, all calls, 2 characters of input | the same and states, wait queue entries, no panic, with signals to tasks that are not asleep |
| `sched_kill_sleepers` | as before, signals to sleepers too | wait queues and process tree survive a corrupted run queue |
| `sched_liveness` | 4 slots, yield, fork, exit, waitpid | no starvation; waitpid returns |
| `file_system` | `MCFiles`: paths of 3 characters in buffers of 6, 3 mounts; 2 tasks, 4 files, 2 descriptors each; 2 slots of /proc with reuse; 2 terminals, 6 devices, 2 programs | `PathsCorrect`, `FilesCorrect`, `ProcCorrect`, `FsCorrect` |
| `machine` | `MCMachine`: 3 address spaces of 4 pages; 2 heaps; 2 tasks with 2 starts each of 2 programs; words of 6 bits; every day from 2000 to 2099 | `MmCorrect`, `HeapCorrect`, `FramesCorrect`, `TimeCorrect`, `ArithCorrect` |
| `terminals` | `MCTerminals`: 8 keys, 3 held; 2 terminals with rings of 2; a screen of 3 by 2; lines of 3 characters, history of 2; words over lines of 5 characters; formats into buffers of 1 and 4 | `KeyboardCorrect`, `TtyCorrect`, `ConsoleCorrect`, `LineCorrect`, `WordsCorrect`, `FormatCorrect` |
| `waiting` | `MCTasks`: 3 readers; 28 commands, 2 pids, programs that are not there (status 1) or exit with 256; 3 terminals, 4 pids | `WaitCorrect`, `KeysGetRead`, `ShellCorrect`, `PromptReturns`, `InitCorrect` |
| `sched_doc_zombie` | as `sched_kill_sleepers` | violation: a dead task gets the CPU |
| `sched_doc_queued` | as `sched_signals`, no signals | violation: a task in the run queue that is not `TASK_QUEUED` |

The properties of the four suites are conjunctions of named parts, each of which has its
own definition and comment in its module:

| property | parts |
|---|---|
| `PathsCorrect` | `ResolutionKeepsMeaning`, `RoomyPathsAreCanonical`, `DeepestMountWins`, `GetcwdLeadsBack` |
| `FilesCorrect` | `PoolOK`, `FreeNeverPanics`, `OneDescriptor`, `DeadHoldNothing`, `ReaderKeepsFile`, `FileForEveryDescriptor` |
| `ProcCorrect` | `ReadsNamedTask`, `ListedCanBeOpened`, `WritesFit` |
| `FsCorrect` | `ReadsInOrder`, `ListedOpens`, `CwdOpens`, `StandardFilesAreOwn` |
| `MmCorrect` | `Isolation`, `WindowClosed`, `RunnersMapped`, `StackArgsArrive`, `ForkCopies`, `OthersUntouched` |
| `HeapCorrect` | `BlocksApart`, `BlocksBelowLimit` |
| `FramesCorrect` | `RetTakesReturnAddress`, `RegistersSurvive`, `ProgramContinues`, `FlagsMeetPopfd`, `DispatcherSeesArguments`, `KernelStackReturns`, `ProgramSeesArguments` |
| `TimeCorrect` | `NeverBackward`, `ReadingIsExact`, `RealtimeFollows`, `EpochIsExact`, `DatePrintsDate` |
| `ArithCorrect` | `LoopDivides`, `DividesLikeC`, `Div10Exact` |
| `KeyboardCorrect` | `LastPressHeard`, `PrefixConsumed`, `SingleModifiersAsHeld`, `FlagsClear` |
| `TtyCorrect` | `InputInOrder`, `ReadIsStable`, `RingKeepsLast`, `ScreenShowsActive` |
| `ConsoleCorrect` | `ScreenIsPaper`, `EraseUndoes`, `SequencesAreSilent` |
| `LineCorrect` | `ScreenIsLine`, `HistoryIsTail`, `LineIsRecalled` |
| `WordsCorrect` | `WordsAreWords`, `ExpansionIsCut`, `AssignedIsExpanded`, `EnvironmentArrives` |
| `FormatCorrect` | `OwnBytesOnly`, `TextIsCut`, `PrintfWritesText`, `NumbersReadBack` |
| `WaitCorrect` | `NobodyLost`, `NoSleepOnInput`, `HaltsOnlyIdle` |
| `ShellCorrect` | `VariablesAreMap`, `NoNameTwice`, `ForegroundReaped`, `BgPidIsChild`, `RepeatMakesItsTurns` |
| `InitCorrect` | `OneShellPerTty`, `UnservedWasRefused`, `ShellsComeBack` |

Most also contain the type invariant of their module.

**Bounds.** Four slots are the swapper, init, and two more: enough for a grandchild, for
an orphan whose parent's slot is freed and handed out again, and for two children of one
parent. Three slots with two generations reuse a slot under a new pid. `COUNTER_MOD` is
twice the table size, the least that tells a full ring from an empty one, so the counters
wrap all the time. `INPUT_MAX` stands for the size of the input ring. `QUEUE_MAX` bounds
`run_queue.len`, which a task signalled again and again makes grow without end; it is
larger than the number of tasks, so double entries happen. `KillTargets` separates the
workloads with and without signals to sleeping tasks.

In the suites: `MAX_FILE_CNT` is tasks times descriptors, as in the code (1024 = 64 * 16),
so that the pool and the tables run out together. The paging pool is computed from the
number of slots as in the code, so it is one page short in the instance too. `MAX_MOUNTS`
is smaller than one of the lists of mounts. Ring counters are twice the ring. Buffers of
paths, lines, words and formats are shorter than the longest input, so that every kind of
cut happens. `MaxPending` and `MaxHeld` bound the bytes the keyboard controller holds and
the fingers on the keyboard; `EnteredMax`, `MaxTyped`, `MaxWritten`, `MaxExecs`, `TSC_MAX`,
`LastYear` bound what would go on for ever, each past the point where its ring, history
or stack has gone round. Three readers are the fewest for a run queue and a wait queue
with a first, a middle and a last task.

Two suites give TLC a `VIEW`, which takes states for the same that differ only in what
nobody reads again: entries of the ring of free files outside its two counters
(`vfs_alloc_file` moves a counter and leaves the entry), the parameters of an escape
sequence that is over, and lines entered so long ago that the history no longer has room
for them. The next steps and the truth of every property are the same in such states.

**Deadlock** is checked everywhere except in the two runs with signals to sleepers, where
the kernel does stop.

**Fairness** (`FairSpec` of `Sched`). The kernel's own steps are taken, since nothing
preempts them. Of a program it is assumed that, again and again, it makes a call that
schedules: without a timer the kernel has no other way to get the CPU back, so this is
the condition of any progress. The keyboard is assumed to interrupt a halted CPU at some
time: the swapper executes `hlt` after its check and only an interrupt ends it. No program
is assumed ever to call fork, exit or waitpid.

`MCTasks`: the running thread goes on as long as it can (weak fairness of `Thread`);
readers that call again and again call read among it (strong fairness of `Read`: they may
yield as often as they like in between); the shell and init take their next step when they
have one, and a program the shell waits for ends. Nothing is assumed of programs in the
background, of keys, or of who dies when.

### What the runs found

* `sched_kill` queues a sleeping task without changing its state. Two signals, or a
  signal and a wakeup, queue it twice: the list loses tasks, `run_queue_poll` can meet
  a null first task, and the task gets the CPU again after it has exited
  (`sched_doc_zombie`). Without signals to sleeping tasks none of this happens
  (`sched_signals`), whatever else the programs do.
* A woken task waits in the run queue in state `TASK_INTERRUPTIBLE`, not `TASK_QUEUED`
  as `sched.h` says (`sched_doc_queued`). This is what makes the double entry possible.

### Known differences between text and code

The following definitions state what a comment, a help text or a name in the repository
says. TLC refutes each of them when it is added to the `INVARIANTS` of its suite; the
properties that the suites check are what holds instead.

| definition | the text | the code |
|---|---|---|
| `ResolvedIsCanonical` (`Paths`) | `fs/vfs.c:56`: the result "resolves '.' and '..'" and "strips trailing '/' except for root" | `fs/vfs.c:179` wants two free bytes after a component, so a path that fills its buffer is cut by one after its components were looked at |
| `ListingFits` (`ProcFs`) | `fs/fs_util.c:14` returns when `*idx >= max_entries` | `fs/proc_fs.c:44` writes an entry for every task, whatever the caller's room |
| `BinContents` (`FileSystems`) | `fs/bin_fs.c:33` "Fill dirent entries for /bin from embedded_bins" | `fs/bin_fs.c:73` lists programs of `/sbin` too, which `/bin/...` does not open |
| `CwdIsDirectory` (`FileSystems`) | `bin/sh.c:826` "Change the current directory to DIR."; `errno.h:24` "Not a directory" | `fs/vfs.c:634` takes every file that answers getdents, programs and devices among them |
| `EverySlotMapped` (`Mm`) | `arch/x86/mm.c:56` "PD + PTs" for each slot, `:538` "Map the pages" | the table of the copy window comes out of the same pool: 129 pages of 128 are needed, and the last slot has no table |
| `ArgsArrive` (`Mm`) | `kernel/core/sched.c:172` "Copies envp[] into the process heap" | `kernel/core/sched.c:507`: the new image is loaded over the caller's memory first |
| `TrampolineMatchesPops` (`CtxFrames`) | `arch/x86/sched.asm:85` "must match ctx_switch pop order" | the flags and `ebx` change places in a new program's frame |
| `TopAfterUnwinding` (`CtxFrames`) | `arch/x86/syscall.asm:63` "should be at top after unwinding" | every start of a program leaves 64 bytes on the kernel stack for good |
| `BlocksInHeap` (`Heap`) | `elf_loader.h:63` "offset of '__curbrk' from base_va (0 if absent)" | `kernel/core/elf_loader.c:70` always says 0, so `sbrk` begins at address 0 |
| `VariablesInherited` (`ShellWords`) | `bin/sh.c:1067` "load environment variables from parent" | `kernel/core/elf_loader.c:69` always says that `environ` is absent, so a shell gets none |
| `ModifiersAsHeld` (`Keyboard`) | `keyboard.h:32`: shift is "true if" it "is currently pressed" | `arch/x86/keyboard.c:141` has one flag for two keys |
| `StatusIsTold` (`Shell`) | `bin/sh.c:813` "$?  Exit status of last command" | `bin/sh.c:1047` takes bits 8 to 15 of a status that is stored as it is |
| `RepeatStopsEarly` (`Shell`) | `bin/sh.c:865` "Stops early if command exits with non-zero status." | `bin/sh.c:784` does the same |

`%d` with a width and without a leading zero puts the sign before the spaces, so `atoi`
does not read it back; `NumbersReadBack` says so.

## Proofs

All theorems hold for every value of the constants that the named assumptions allow; the
assumptions are about the constants only, are checked by TLC on every run, and are named
below where they say more than types. Each theorem follows from an inductive invariant,
with one lemma for each action; TLC checked each invariant on an instance before it was
proved.

**Counters.** `CounterLemmas`: remainders and free-running counters that wrap
(`ModUnique`, `ModShift`, `Counters`, `RingWrap`), for the rings of free slots, free
files, and bytes typed and shown; sequences whose elements do not matter (`IsText`), one
after another (`TextsJoin`); that a set of natural numbers has a least element,
which stands in for induction; and two forms of that for loops: `CountUp`, for what every
turn keeps, and `RecursionExists`, for the states a loop goes through. With these two a
recursive function can be reasoned about although the induction theorems of the library
cannot be used: its unfolding is `RecursionExists`, what it computes is `CountUp` over the
set of arguments for which the claim holds.

**Task table, run queue, scheduler.** (`TableAssumption`, `SchedAssumption`: at least two
slots, counters that wrap at a multiple of the table size.)

* `TaskTableProofs`: `RingCorrect`, `PidsCorrect`, `TableTypeCorrect` and
  `TableImplementsPool`. The inductive invariant is `TableInv`: the type, the ring window
  being exactly the free slots, and every slot in use carrying a pid of its own. `RingOK`
  alone is not inductive, because `task_table_free` recomputes the slot from the pid.
* `SchedProofs`, at its beginning: push and poll on a list that represents a sequence
  (lemmas), found by descending to the least counterexample; at its end:
  `RunQueueWellLinked`, `RunQueueImplementsFifo`.
* `SchedProofs`, first half: `TypeCorrect` and `FamilyCorrect`, for all workloads,
  signals to sleeping tasks included. Type correctness needs the process tree, because
  `sched_exit` follows a parent pointer that is null in a free slot, so the two are
  proved together. The inductive invariant is `TypeInv /\ Life`: `Life` adds to
  `FamilyOK` that a task that can still run has a slot and a parent, that a zombie is
  past its last step or inside `sched_exit`, and that only the current task is inside
  `sched_exit`. The last two are what makes reaping safe: the child that
  `sched_waitpid` frees is not the current task, so it is past its last step.
* `SchedProofs`, second half: `RunQueueCorrect`, `StatesCorrect`, `WakeupsCorrect`,
  `EntriesCorrect`, `PanicFree` and `ReapingCorrect`, for every workload that signals no
  sleeping task (`NoSleeperSignalled`; the run `sched_doc_zombie` shows that the condition
  is needed). They hold of `Sched`, where calls of the kernel are atomic with respect to
  the keyboard. So `WakeupsCorrect` does not say that no key is ever lost on a sleeper:
  a key between the check of `wait_event` and the end of `wait_queue_add` wakes nobody.
  Which stores an interrupt may come between is the subject of `WaitIrq` and its theorem
  `WaitIsCorrect`. None of the six is inductive: that a push keeps the run queue exact needs
  that the task is in no queue, which needs that a wait queue entry belongs to a sleeping
  task, which needs to know where the task is in its code. The inductive invariant `Safe`
  is their conjunction with `TasksOK`, which ties a task's state, its point of execution
  and its entry together (asleep exactly inside `wait_event`, a wait for any child only on
  the task's own queue, the swapper never asleep). The run queue is treated as a set
  (`HoldsExactly`, `RunnableIn`): `PushHolds`, `PollHolds` and `ScheduleHolds` say what
  push, poll and `sched_schedule` do to it, `SafeSchedule` covers every call of
  `sched_schedule`, `SafeDetach` every `wakeup`, and there is one lemma for each of fork,
  exec, exit and reaping.

**Files.** `FilesProofs`:

* `FilesAreCorrect`, for every number of tasks, files and descriptors and every counter
  that wraps at a multiple of the pool (`FilesAssumption`). The invariant `FilesIInv`
  says that the window of the ring lists exactly the files behind no descriptor, each
  once (`RingLists`), that no file is behind two, that a reader is alive and still holds
  the file it reads, and that the loop of `sched_exit` has emptied the descriptors it has
  passed. The last is what makes a zombie hold nothing when the loop ends. The number of
  free files plus the number of held ones is not part of it: that a free never finds a
  full ring follows from the file that is being freed being in no slot of the window.
* `ProcIsCorrect`, over any task table (`TableInv` again). What has to be added is
  `StatesAgree`: the slots in use by their pids are those whose state is not POOLED.
  Then a listed pid is found again by an open, and a lookup through a stale pid fails on
  the generation.
* `FsIsCorrect`, for any number of terminals and any programs. `FileSystemsAssumption`
  has the table of devices large enough for all (32 for 12 terminals and four names), and
  that the names printed for terminals are none of the four: printing is `ToString`, of
  which the prover knows nothing. `DevicesAre` says that `tty_system_init` registers them
  all, `OpenIs` which paths open, and as what. The invariant `FsInv` ties the position of
  an open program to the bytes read of it (`FileFits`, `BytesInOrder`), which is why a
  listing in between can only make the first read start late, and says that what was
  listed and what chdir took is among the paths that open (`Openable`).
* `InitIsSafe`, for any number of terminals: the safety half of `InitCorrect`. The
  invariant `InitInv` says that init's children have pids of their own, that every pid in
  the table of terminals that is not dead is one of them, and that nothing is there yet
  for the terminals that the first loop has not come to. Different pids make the terminal
  of a dead shell the only one with that pid, and the children never outnumber the
  terminals.

**Machine.** `MachineProofs`:

* `DivisionCorrect`, `SignedDivisionCorrect`, `Div10Correct` and their conjunction
  `ArithmeticCorrect`, for every width of a word (`ArithAssumption`; the division by ten
  for words of up to 64 bits, `WidthAssumption`). The inductive invariant `DivInv` says
  that the quotient so far times the divisor plus the remainder is the part of the
  dividend that has been shifted in, and that the remainder is smaller than the divisor:
  without the second half a bit could fall out of the shift. That one correction is
  enough in the division by ten is a bound on the sum of what the five shifts lose.
* `HeapIsCorrect`: the blocks of a process lie one behind the other up to the break in
  the program (`Consecutive`, `EndsAt`), which is at most the end of the program plus the
  heap, alive or not. The two copies of the break need not agree, and after brk they do
  not; the limit does.
* `FramesAreCorrect`, for any number of tasks and any arguments, as long as the kernel
  stack holds sixteen words for every start of a program and fifteen more
  (`CtxAssumption`; the sixteen words are what each start leaves behind for good, see
  `TopAfterUnwinding`). The invariant `CtxInv` says of each task that does not run which
  of the three frames lies where on its kernel stack (`NewProgram`, `Forked`,
  `SwitchedOut`), and of the running one where in the assembler it is and what lies above
  its stack pointer (`Trampolining`, `Starting`, `InProgram`, `InDispatch`, `InSchedule`,
  `Leaving`). `StartStackIs` says what `task_init` writes, word by word, and
  `ProgramFinds` that crt0 finds the counts and the two lists in it.
* `ClockIsCorrect`, for every rate that leaves `rem * 1000000000` within a word
  (`ClockAssumption`). The invariant `ClockInv` says that the chip was read once, and the
  counter at most `CAL_MAX` ticks later. `Reads` says that a reading is the ticks in
  nanoseconds, rounded down, although the code splits them into seconds and a rest first;
  `ReadsInOrder` that more ticks never read less. The bound on the error includes the
  rounding.
* `DatesAreCorrect`, for every last year up to 2099. The invariant `DateInv` says that the
  days since 1970 are those of the years before, the months before and the days before.
  `DaysBeforeAre` counts the leap years that the loop of the date command passes,
  `YearFound` says in which year the first loop stops, `MonthFound` in which month the
  second; `YearFollows` and `MonthFollows` are what a new year and a new month add. With
  `ClockIsCorrect` this is `TimeIsCorrect`.
* `MmIsCorrect` (`MmAssumption`: at least two slots; with one, the last slot, which has no
  table for its last pages, would be the swapper's). The invariant `MmInv` has the types,
  `Wired` (the table of the window is the first page of the pool, the tables of a slot are
  its own and lead into its own region, and the first slot has all of them) and `Kept`
  (`TlbTrue`: what the processor remembers is what the tables say, outside the window;
  `WindowShut`; `Copying`: the pages copied so far are equal and the window leads where
  the copy is; every live slot is mapped). `ProcessMapped` and `WalkOn` say what the loop
  of `vm_map_impl` does to any pool, `WindowSet` and `OwnWrites` what a store through the
  window and one by the program changes.

**Terminals.** `TerminalProofs`:

* `TtyIsCorrect` (`TtyAssumption`: counters that wrap at a multiple of both sizes and
  hold twice either). A character is its number, so the invariant `TtyInv` can say that
  the ring of input holds those from the last one read on (`InputOK`), that the ring of
  output holds the last ones written, one fewer while a write has made room and not
  stored (`OutputOK`), what a read in progress has copied (`ThreadOK`), and that the screen
  ends with the last character shown (`ScreenOK`), which is one behind while a write is
  between its store and its put.
* `KeyboardIsCorrect`. The properties are about the state with no byte pending, so the
  invariant (`KeyboardInv`) is about the future: there is a run of the handler through
  the bytes pending (`Run`) that ends in a driver that agrees with the keys that are down
  (`Settled`). `RunGrows` and `RunDrops` add and take a byte at either end.
* `LineIsCorrect`: the three parts of `LineCorrect` with `HistoryTail`, which says line
  by line what `HistoryIsTail` says of the sequence.
* `WaitIsCorrect` (`WaitAssumption`: finitely many readers, at least one, and the swapper
  is none of them). The invariant `WaitInv` has the types, which hold whatever interrupts
  do, and, until one has come in a window, `InOrder`: there are two lists, one that the
  run queue stands for and one that the wait queue stands for (`RunQueueIs`,
  `WaitQueueIs`, which say at each store which pointers are behind), and every reader is
  on one of them, or is the one that runs, or is on its way between them (`Places`).
  `WakeupLists` says that an interrupt appends the sleepers to the run queue whichever
  poll or push it interrupts.

**Screen, output and shell.** `ShellProofs`, and `WordsProofs` for the last:

* `ConsoleIsCorrect`, for every size of the screen from two lines on, width of a tab stop
  and text (`ConsoleAssumption`: the characters that print are none of the control
  characters). The invariant `ConsoleInv` says that the cursor is on the screen and that
  the cells show the page that the text makes on paper (`Shows`). `PlainMoves` says which
  cell a character writes and where the cursor goes, `ScreenScrolls` what scrolling does;
  `PaperFollows` and `PageScrolls` say that the paper does the same. That a backspace
  undoes a character needs the three cases the code distinguishes: inside a line, at the
  start of a line, and after a scroll.
* `FormatIsCorrect`, for every list of items, size of the buffer and largest number
  (`FormatAssumption`). The invariant `FormatInv` says of each byte what it holds, while
  the buffer is filled, after the return, and while the rest of the format is only
  counted. That numbers are read back is `NumberReadsBack`: `DigitsRead` says that the
  digits taken from the end of a number and put in reverse make the number again,
  `PaddedNumber` that zeros before them change nothing, `AtoiIs` what `atoi` does with
  spaces, a sign and digits, and `PartsRead` puts them together for the three ways a
  number can be padded.
* `ShellIsCorrect`, for every set of names, values, commands, programs and statuses and
  every interleaving of the shell with its children (`ShellAssumption`: commands have the
  parts of their kind, statuses are numbers, and the default variables are pairs). The
  invariant `ShellInv` says that the table names nothing twice (`IsTable`), that a child in
  the foreground exists exactly while the shell waits (`WaitedFor`), that every other
  child was started with `&` and `$!` is one of them, and that the turns `repeat` has made
  and has left add up (`TurnsAdd`). `VariableSet`, `VariableExported` and `VariableUnset` say
  what the three ways of changing the table do to the map it stands for, which gives each
  step of the refinement to `ShellEnv` (`EnvSteps`).
* `WordsAreCorrect`, for every line, every alphabet and every size of the buffers
  (`WordsAssumption`: letters, digits and the characters that mean something are
  different, and what is in the table fits it). All four parts are facts about one line,
  so the invariant is only that the line is a string; the induction is over the loops of
  the code. `Passed` says what `parse_arguments` has made of the first characters: the
  words that have ended are runs without separators less their quotes, and the word that
  has not ended has its characters so far (`InWord`, `BetweenWords`). `Expanding` says of
  each turn of `expand_variables` that what has been put out and the expansion of what is
  left, cut together, are the whole expansion, cut: `CutPiece` is the reason, and why it
  does not matter that the code cuts every piece by itself. `NamedVariable` follows a name
  that is too long through both cuts. `TableHandedOn` holds for every table of exported
  variables, not only for the small one of the property: `EntryComesBack` finds the first
  `=` of a string behind its name, whatever the value has in it, and `EntryLoaded` puts
  the entry where it was.

**Only model-checked**, and why:

* Liveness (`RunnableRuns`, `WaitpidReturns`, `KeysGetRead`, `PromptReturns`,
  `ShellsComeBack`): out of the prover's reach.
* `PathsCorrect`: it says that a pass over the characters of a string computes what a
  definition that looks at the whole string says. The pass is a fold, and the reference
  filters sequences with operators that the library defines by a `CHOOSE` or by recursion
  of their own, of which no theorem is installed. (`WordsCorrect`, which is of the same
  kind, is proved for passes and references written as recursive functions.)
* `NoDanglingEntry` when sleeping tasks are signalled.

## Not modelled, and why

* Boot loader and early start, interrupt gates and interrupt controller: straight-line
  hardware access before anything else runs.
* `console_vesa.c`: never registered as a console. `panic`: prints and halts.
* The parsing of ELF headers: programs are embedded at build time; the model takes the
  areas they fill and the two offsets the loader reports.
* String and memory functions of `kutils.c` and `libc.c`: they appear as TLA+ operators
  where their behaviour at the end of a buffer matters (`Paths`, `ShellWords`) and as
  equality of sequences elsewhere. System call wrappers pass their arguments on.
  `getenv` has no caller.
* Output of floating-point numbers, and formats that end inside a directive, which no
  program has.
* The check of the processor's features in `clock.c`, and error returns for bad pointers
  and clock numbers.
* The tools other than the date of `date`: sequences of calls and output, without state of
  their own.
* The wording of the files of `/proc`: only their lengths matter to a reader's buffer.
