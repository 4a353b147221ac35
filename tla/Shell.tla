------------------------------- MODULE Shell -------------------------------
(***************************************************************************)
(* The shell's commands (bin/sh.c: process_command, the builtins and the   *)
(* start of main): variables, exit statuses, and the children it forks and *)
(* waits for, which run at their own speed.                                *)
(*                                                                         *)
(* A command is what parse_arguments has made of a line (ShellWords):      *)
(*   assign  the leading words NAME=VALUE, pairs                           *)
(*   op      the command word: a builtin, a program, or "" for none        *)
(*   args    its arguments: names, or pairs NAME=VALUE of export           *)
(*   bg      the last word is "&"                                          *)
(* The children are modelled from how sched_fork, sched_execve, sched_exit *)
(* and sched_waitpid treat them (module Sched).                            *)
(***************************************************************************)
EXTENDS ShellVars, FiniteSets, FiniteSetsExt, Functions

CONSTANTS
  Names, Values,     \* of variables
  Defaults,          \* the variables main sets if they are not there, in order
  Commands,          \* the commands given to it
  Bin,               \* programs that are found
  Missing,           \* absolute paths of programs that are not there
  Statuses,          \* statuses a program may exit with
  Pids,              \* bound: pids the kernel has for the shell's children
  NoPid

\* What parse_arguments can make of a line.
IsCommand(c) ==
  /\ c = [assign |-> c.assign, op |-> c.op, args |-> c.args, bg |-> c.bg]
  /\ c.assign \in Seq(Names \X Values) /\ c.bg \in BOOLEAN
  /\ c.op = "cd" => c.args \in Seq(Values)
  /\ c.op = "export" => c.args \in Seq({<<n>> : n \in Names} \cup Names \X Values)
  /\ c.op = "unset" => c.args \in Seq(Names)
  /\ c.op = "repeat" => Len(c.args) \in Nat /\ (Len(c.args) >= 2 => c.args[1] \in Int)

ASSUME ShellAssumption ==
  /\ Defaults \in Seq(Names \X Values)
  /\ \A c \in Commands : IsCommand(c)
  /\ Statuses \subseteq Int /\ NoPid \notin Pids

VARIABLES
  variables, last_exit_status, last_bg_pid,
  cwd,               \* set by chdir
  pc,                \* prompt, assign, args, resolve, fork, wait, exited
  cmd,               \* what is left of the command
  left,              \* turns left of repeat
  pid,               \* the child waited for
  kids,              \* children: [st, status, bg, path] of each
  told, ran, failed  \* history: the last command's true status; turns of repeat
                     \* started and failed

shellVars == <<variables, last_exit_status, last_bg_pid, cwd, pc, cmd, left, pid, kids,
          told, ran, failed>>
Private == <<variables, last_bg_pid, cwd>>

SetDefault(vs, d) ==
  IF find_variable(vs, d[1]) = 0 THEN set_variable(vs, d[1], d[2], TRUE) ELSE vs

SetDefaults ==
  LET after[n \in 0 .. Len(Defaults)] ==
        IF n = 0 THEN <<>> ELSE SetDefault(after[n - 1], Defaults[n])
  IN  after[Len(Defaults)]

NoCmd == [assign |-> <<>>, op |-> "", args |-> <<>>, bg |-> FALSE]

\* environ is NULL in every program (ShellWords!environ): nothing is inherited.
ShellInit ==
  /\ variables = SetDefaults
  /\ last_exit_status = 0 /\ told = 0
  /\ last_bg_pid = NoPid
  /\ cwd = "/"
  /\ pc = "prompt" /\ cmd = NoCmd
  /\ left = 0 /\ pid = NoPid /\ ran = 0 /\ failed = FALSE
  /\ kids = [p \in {} |-> 0]
-----------------------------------------------------------------------------
\* Back to main: the locals of the command are gone.
Return ==
  /\ pc' = "prompt" /\ cmd' = NoCmd
  /\ left' = 0 /\ pid' = NoPid /\ ran' = 0 /\ failed' = FALSE

\* The command is over, with this status; the children are left as they are.
Done(status) ==
  /\ last_exit_status' = status /\ told' = status
  /\ Return
  /\ UNCHANGED <<last_bg_pid, kids>>

Line ==
  /\ pc = "prompt"
  /\ \E c \in Commands : cmd' = c
  /\ pc' = "assign"
  /\ UNCHANGED <<Private, last_exit_status, left, pid, kids, told, ran, failed>>

\* Leading words NAME=VALUE, one a step.
Assignment ==
  /\ pc = "assign" /\ cmd.assign # <<>>
  /\ LET w == Head(cmd.assign)
     IN  variables' = set_variable(variables, w[1], w[2], FALSE)
  /\ IF Len(cmd.assign) = 1 /\ cmd.op = "" /\ ~cmd.bg
     THEN Done(0)
     ELSE /\ cmd' = [cmd EXCEPT !.assign = Tail(@)]
          /\ UNCHANGED <<last_exit_status, told, last_bg_pid, pc, left, pid, kids, ran, failed>>
  /\ UNCHANGED cwd

Ready(op) == pc = "assign" /\ cmd.assign = <<>> /\ cmd.op = op

\* Nothing but "&", or an empty line: no new status.
Nothing ==
  /\ Ready("")
  /\ Return
  /\ UNCHANGED <<Private, last_exit_status, kids, told>>

\* The exit code is for the parent only.
builtin_exit ==
  /\ Ready("exit")
  /\ pc' = "exited"
  /\ UNCHANGED <<Private, last_exit_status, cmd, left, pid, kids, told, ran, failed>>

\* chdir may find the directory or not.
builtin_cd ==
  /\ Ready("cd")
  /\ LET path == IF cmd.args = <<>> THEN get_variable(variables, "HOME", "/")
                 ELSE cmd.args[1]
     IN  \/ Len(cmd.args) <= 1 /\ cwd' = path /\ Done(0)
         \/ UNCHANGED cwd /\ Done(1)
  /\ UNCHANGED variables

\* set, and env, printenv and export without arguments print variables.
builtin_set ==
  /\ pc = "assign" /\ cmd.assign = <<>> /\ cmd.op \in {"set", "env", "export"}
  /\ cmd.op = "set" \/ cmd.args = <<>>
  /\ Done(0)
  /\ UNCHANGED <<variables, cwd>>

builtin_env_like ==
  /\ Ready("env") /\ cmd.args # <<>>
  /\ LET i == find_variable(variables, cmd.args[1])
     IN  Done(IF i > 0 /\ variables[i].exported THEN 0 ELSE 1)
  /\ UNCHANGED <<variables, cwd>>

Builtins == {"cd", "exit", "export", "unset", "set", "env", "printenv", "repeat", "help"}

builtin_help ==
  /\ Ready("help")
  /\ Done(IF cmd.args = <<>> \/ cmd.args[1] \in Builtins THEN 0 ELSE 1)
  /\ UNCHANGED <<variables, cwd>>

\* The arguments of export and unset, one a step.
NextArgument ==
  IF Len(cmd.args) = 1 THEN Done(0)
  ELSE /\ cmd' = [cmd EXCEPT !.args = Tail(@)]
       /\ UNCHANGED <<last_exit_status, told, last_bg_pid, pc, left, pid, kids, ran, failed>>

builtin_export ==
  /\ Ready("export") /\ cmd.args # <<>>
  /\ LET a == Head(cmd.args)
     IN  variables' = IF Len(a) = 2 THEN set_variable(variables, a[1], a[2], TRUE)
                                    ELSE export_variable(variables, a[1])
  /\ NextArgument
  /\ UNCHANGED cwd

builtin_unset ==
  /\ Ready("unset")
  /\ IF cmd.args = <<>> THEN Done(1) /\ UNCHANGED variables
     ELSE variables' = unset_variable(variables, Head(cmd.args)) /\ NextArgument
  /\ UNCHANGED cwd
-----------------------------------------------------------------------------
(* Programs.  repeat COUNT COMMAND has its count and command as arguments. *)
Program == IF cmd.op = "repeat" THEN cmd.args[2] ELSE cmd.op

builtin_repeat ==
  /\ Ready("repeat")
  /\ IF Len(cmd.args) < 2 \/ cmd.args[1] <= 0
     THEN Done(1)
     ELSE /\ left' = cmd.args[1]
          /\ pc' = "resolve"
          /\ UNCHANGED <<last_exit_status, last_bg_pid, cmd, pid, kids, told, ran, failed>>
  /\ UNCHANGED <<variables, cwd>>

run_program ==
  /\ Ready(cmd.op) /\ cmd.op \notin Builtins /\ cmd.op \in Bin \cup Missing \cup {"unknown"}
  /\ left' = 1
  /\ pc' = "resolve"
  /\ UNCHANGED <<Private, last_exit_status, cmd, pid, kids, told, ran, failed>>

\* /bin lists the program.
find_in_bin(name) == name \in Bin

\* An absolute path is taken as it is; another name must be in /bin.
resolve_full_path ==
  /\ pc = "resolve"
  /\ IF Program \notin Missing /\ ~find_in_bin(Program) THEN Done(127)
     ELSE pc' = "fork" /\ UNCHANGED <<last_exit_status, last_bg_pid, cmd, left, pid, kids,
                                      told, ran, failed>>
  /\ UNCHANGED <<variables, cwd>>

\* Faulty variant of Background: "&" is not noticed.
Background_never == FALSE

\* A builtin takes no notice of "&".
Background == cmd.bg /\ cmd.op # "repeat"

(* fork fails when there is no slot.  The child of a program in the        *)
(* background is not waited for.                                           *)
fork ==
  /\ pc = "fork"
  /\ IF Pids \subseteq DOMAIN kids THEN Done(1)
     ELSE \E p \in Pids \ DOMAIN kids :
       /\ LET child == [st |-> "forked", status |-> 0, path |-> Program,
                        bg |-> cmd.bg /\ cmd.op # "repeat"]
          IN  kids' = [q \in DOMAIN kids \cup {p} |-> IF q = p THEN child ELSE kids[q]]
       /\ IF Background THEN Return /\ last_bg_pid' = p
          ELSE /\ pc' = "wait" /\ pid' = p
               /\ left' = left - 1 /\ ran' = ran + 1
               /\ UNCHANGED <<cmd, last_bg_pid, failed>>
       /\ UNCHANGED <<last_exit_status, told>>
  /\ UNCHANGED <<variables, cwd>>

\* The children waitpid(pid, ...) may return.
Dead == {p \in DOMAIN kids : p = pid /\ kids[p].st = "zombie"}

MoreTurns == left > 0

(* waitpid and what follows it: the status as sched_waitpid stored it is   *)
(* shifted by 8, and repeat goes on while the result is 0.  It cannot fail: *)
(* the child is the shell's own and nobody else reaps it.                  *)
waitpid ==
  /\ pc = "wait"
  /\ \E p \in Dead :
       LET status == (kids[p].status \div 256) % 256
       IN  /\ kids' = Restrict(kids, DOMAIN kids \ {p})
           /\ last_exit_status' = status
           /\ told' = kids[p].status
           /\ IF MoreTurns /\ status = 0
              THEN /\ pc' = "resolve"
                   /\ failed' = (failed \/ told' # 0)
                   /\ UNCHANGED <<cmd, left, pid, ran>>
              ELSE Return
  /\ UNCHANGED Private
-----------------------------------------------------------------------------
(* The children.                                                           *)
Child(p, new) ==
  /\ kids' = [kids EXCEPT ![p] = new]
  /\ UNCHANGED <<Private, last_exit_status, pc, cmd, left, pid, told, ran, failed>>

\* Between fork and execve; a path that is not there makes the child exit(1).
ChildExec(p) ==
  /\ kids[p].st = "forked"
  /\ Child(p, IF kids[p].path \in Missing
              THEN [kids[p] EXCEPT !.st = "zombie", !.status = 1]
              ELSE [kids[p] EXCEPT !.st = "running"])

ChildExit(p) ==
  /\ kids[p].st = "running"
  /\ \E s \in Statuses : Child(p, [kids[p] EXCEPT !.st = "zombie", !.status = s])

Sh ==
  \/ Assignment \/ Nothing \/ builtin_exit \/ builtin_cd \/ builtin_set
  \/ builtin_env_like \/ builtin_help \/ builtin_export \/ builtin_unset
  \/ builtin_repeat \/ run_program \/ resolve_full_path \/ fork \/ waitpid

ChildStep == \E p \in DOMAIN kids : ChildExec(p) \/ ChildExit(p)

ShellNext == Line \/ Sh \/ ChildStep

ShellSpec == ShellInit /\ [][ShellNext]_shellVars
-----------------------------------------------------------------------------
(* Types.                                                                  *)
ShellTypeOK ==
  /\ Len(variables) <= MAX_VARS
  /\ \A i \in DOMAIN variables : variables[i].name \in Names /\ variables[i].value \in Values
  /\ last_exit_status \in 0 .. 255
  /\ last_bg_pid \in Pids \cup {NoPid}
  /\ cwd \in Values \cup {"/"}
  /\ DOMAIN kids \subseteq Pids

(* The table never has a name twice and implements a map from names to     *)
(* values and export marks: what was set is found, an assignment keeps the *)
(* export mark, unset takes away that name and no other (set_variable,     *)
(* unset_variable, export_variable).                                       *)
NoNameTwice ==
  \A i, j \in DOMAIN variables : variables[i].name = variables[j].name => i = j

AsMap ==
  [n \in {variables[i].name : i \in DOMAIN variables} |->
     LET v == variables[find_variable(variables, n)]
     IN  [value |-> v.value, exported |-> v.exported]]
Env == INSTANCE ShellEnv WITH env <- AsMap
VariablesAreMap == Env!Spec

(* At the prompt the only children left are those started in the           *)
(* background: every other one was waited for and reaped, whatever builtin *)
(* started it (process_command, builtin_repeat).                           *)
ForegroundReaped == pc = "prompt" => \A p \in DOMAIN kids : kids[p].bg

(* $! names a child that was started in the background and whose pid has   *)
(* not gone to another child since.                                        *)
BgPidIsChild ==
  last_bg_pid # NoPid => last_bg_pid \in DOMAIN kids /\ kids[last_bg_pid].bg

(* repeat that ends with status 0 has made as many turns as it was asked   *)
(* for (builtin_repeat).                                                   *)
RepeatMakesItsTurns ==
  [][cmd.op = "repeat" /\ pc = "wait" /\ pc' = "prompt" /\ last_exit_status' = 0
       => ran = cmd.args[1]]_shellVars

(* The shell comes back to its prompt from every command whose programs    *)
(* end, without any help from programs in the background.                  *)
PromptReturns == pc # "prompt" ~> pc \in {"prompt", "exited"}

\* A step of a program that the shell waits for.
Foreground(p) == p \in DOMAIN kids /\ ~kids[p].bg /\ (ChildExec(p) \/ ChildExit(p))

(* "$?  Exit status of last command" (help), "use the exit status of last  *)
(* command" (help exit).                                                   *)
StatusIsTold == pc = "prompt" => last_exit_status = told

(* repeat "Stops early if command exits with non-zero status." (help       *)
(* repeat).                                                                *)
RepeatStopsEarly == ~(failed /\ pc = "resolve")

(* Commands in any order: variables are a map, every program run in the    *)
(* foreground is reaped, $! names a child, and repeat makes its turns.     *)
ShellCorrect ==
  /\ [](ShellTypeOK /\ NoNameTwice /\ ForegroundReaped /\ BgPidIsChild)
  /\ VariablesAreMap
  /\ RepeatMakesItsTurns
=============================================================================
