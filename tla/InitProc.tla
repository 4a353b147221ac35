------------------------------ MODULE InitProc ------------------------------
(***************************************************************************)
(* The init process (bin/init.c): one shell for every terminal, and a new  *)
(* one when it exits.  Pids are reused once their task has been reaped,    *)
(* and fork fails when other tasks have taken the last slot.  Children are *)
(* modelled from how sched_fork, sched_execve and sched_waitpid treat      *)
(* them; a task's children do not go to init when it dies, so the shells   *)
(* are init's only ones.                                                   *)
(***************************************************************************)
EXTENDS Constants, Sequences, SequencesExt

CONSTANT InitPids      \* pids the kernel gives to children of init

ASSUME InitAssumption == InitPids \subseteq Nat \ {0}

VARIABLES
  tty_pids,
  boot,            \* terminals of the first loop done
  shells,            \* init's children, newest first: [pid, tty, st] of each
  cpu,             \* init runs, has yielded in a printf, or sleeps in wait
  refused          \* terminals whose last fork failed

initVars == <<tty_pids, boot, shells, cpu, refused>>

InitProcInit ==
  /\ tty_pids = [i \in Ttys |-> 0]
  /\ boot = 0
  /\ shells = <<>>
  /\ cpu = "init"
  /\ refused = {}

PidsIn(s) == {s[k].pid : k \in DOMAIN s}
Zombies(s) == {k \in DOMAIN s : s[k].st = "zombie"}

\* Faulty variant of Refuse: the pid of the dead shell stays.
Refuse_keeps(i) == UNCHANGED tty_pids

\* fork failed: the terminal has no pid.
Refuse(i) == tty_pids' = [tty_pids EXCEPT ![i] = 0]

\* The pid of a terminal's new shell.
Note(i, p) == tty_pids' = [tty_pids EXCEPT ![i] = p]

\* fork does not schedule.
Forked == cpu' = "init"

(* fork and the assignment to tty_pids, with the children that are there.  *)
(* A failure is printed, and printing schedules.                           *)
spawn_shell(i, old) ==
  \/ /\ Refuse(i)
     /\ cpu' = "yielded"
     /\ shells' = old
     /\ refused' = refused \cup {i}
  \/ \E p \in InitPids \ PidsIn(old) :
       /\ Note(i, p)
       /\ Forked
       /\ shells' = <<[pid |-> p, tty |-> i, st |-> "forked"]>> \o old
       /\ refused' = refused \ {i}

Boot ==
  /\ cpu = "init" /\ boot < TTY_COUNT
  /\ spawn_shell(boot, shells)
  /\ boot' = boot + 1

\* wait, the first zombie in the list, and a new shell for its terminal.
Respawn ==
  /\ cpu = "init" /\ boot = TTY_COUNT
  /\ Zombies(shells) # {}
  /\ LET k == CHOOSE i \in Zombies(shells) : \A j \in Zombies(shells) : i <= j
         rest == RemoveAt(shells, k)
         mine == {i \in Ttys : tty_pids[i] = shells[k].pid}
     IN  IF mine = {} THEN shells' = rest /\ UNCHANGED <<tty_pids, cpu, refused>>
         ELSE spawn_shell(CHOOSE i \in mine : \A j \in mine : i <= j, rest)
  /\ UNCHANGED boot

\* wait sleeps, or fails when there is no child and says so.
Wait ==
  /\ cpu = "init" /\ boot = TTY_COUNT
  /\ Zombies(shells) = {}
  /\ cpu' = IF shells = <<>> THEN "yielded" ELSE "asleep"
  /\ UNCHANGED <<tty_pids, boot, shells, refused>>

Resume ==
  /\ cpu = "yielded" \/ (cpu = "asleep" /\ Zombies(shells) # {})
  /\ cpu' = "init"
  /\ UNCHANGED <<tty_pids, boot, shells, refused>>

\* setctty and execve in the child; a failure of either makes it exit(1).
Start(k) ==
  /\ cpu # "init" /\ shells[k].st = "forked"
  /\ \E st \in {"shell", "zombie"} : shells' = [shells EXCEPT ![k].st = st]
  /\ UNCHANGED <<tty_pids, boot, cpu, refused>>

ShellExit(k) ==
  /\ cpu # "init" /\ shells[k].st = "shell"
  /\ shells' = [shells EXCEPT ![k].st = "zombie"]
  /\ UNCHANGED <<tty_pids, boot, cpu, refused>>

InitStep == Boot \/ Respawn \/ Wait \/ Resume
InitProcNext == InitStep \/ \E k \in DOMAIN shells : Start(k) \/ ShellExit(k)
InitProcSpec == InitProcInit /\ [][InitProcNext]_initVars
-----------------------------------------------------------------------------
(* Types.                                                                  *)
InitTypeOK ==
  /\ tty_pids \in [Ttys -> InitPids \cup {0}]
  /\ PidsIn(shells) \subseteq InitPids
  /\ Len(shells) <= TTY_COUNT
  /\ boot \in 0 .. TTY_COUNT

(* The table names the one child of each terminal, over failed forks and   *)
(* reused pids: no terminal ever has two shells, and none that the table   *)
(* does not know (main, spawn_shell).                                      *)
OneShellPerTty ==
  /\ \A k \in DOMAIN shells : tty_pids[shells[k].tty] = shells[k].pid
  /\ \A i \in Ttys : tty_pids[i] # 0 =>
       \E k \in DOMAIN shells : shells[k].pid = tty_pids[i] /\ shells[k].tty = i

(* A terminal is without a shell only if fork failed for it.               *)
UnservedWasRefused == \A i \in 0 .. boot - 1 : tty_pids[i] = 0 <=> i \in refused

(* A shell that exits is replaced, or fork fails for its terminal, also    *)
(* while other shells exit again and again: find_zombie_child takes the    *)
(* newest child first, and it is only because neither fork nor wait        *)
(* schedules that the others get their turn.  Init goes on whenever it can *)
(* run.                                                                    *)
Serves(i) == \E k \in DOMAIN shells : shells[k].tty = i /\ shells[k].st # "zombie"
ShellsComeBack ==
  \A i \in Ttys : (boot = TTY_COUNT /\ ~Serves(i)) ~> (Serves(i) \/ i \in refused)

(* No terminal has two shells, one without a shell is one whose fork was   *)
(* refused, and a terminal whose shell ends gets another as long as none   *)
(* is refused (spawn_shell, the loop of main).                             *)
InitCorrect ==
  /\ [](InitTypeOK /\ OneShellPerTty /\ UnservedWasRefused)
  /\ ShellsComeBack
=============================================================================
