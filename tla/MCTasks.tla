------------------------------ MODULE MCTasks ------------------------------
(***************************************************************************)
(* What tasks wait for, side by side: readers for a key, the shell for its *)
(* programs, init for its shells.  The modules share no variable, so a     *)
(* behaviour picks one of them and the rest stay as they began.            *)
(***************************************************************************)
EXTENDS WaitIrq, Shell, InitProc

VARIABLE part      \* the module whose behaviour this is

C(op, args) == [assign |-> <<>>, op |-> op, args |-> args, bg |-> FALSE]

MCDefaults == <<<<"HOME", "/">>>>
MCCommands ==
  {[assign |-> <<<<"x", "/">>>>, op |-> "", args |-> <<>>, bg |-> FALSE],
   [assign |-> <<<<"y", "u">>>>, op |-> "unset", args |-> <<"x", "HOME">>, bg |-> FALSE],
   [assign |-> <<>>, op |-> "", args |-> <<>>, bg |-> TRUE],
   C("exit", <<>>), C("exit", <<3>>), C("cd", <<>>), C("cd", <<"/">>), C("cd", <<"/", "/">>),
   C("set", <<>>), C("env", <<>>), C("env", <<"x">>), C("help", <<>>), C("help", <<"cd">>),
   C("help", <<"x">>), C("export", <<>>), C("export", <<<<"y">>, <<"x", "u">>>>),
   C("unset", <<>>), C("unset", <<"y">>), C("repeat", <<"ls">>), C("repeat", <<0, "ls">>),
   C("repeat", <<2, "ls">>), C("repeat", <<2, "/none">>), C("repeat", <<1, "unknown">>),
   C("ls", <<>>), C("unknown", <<>>), C("/none", <<>>)}
  \cup {[C("ls", <<>>) EXCEPT !.bg = TRUE], [C("repeat", <<2, "ls">>) EXCEPT !.bg = TRUE]}

mcVars == <<part, waitVars, shellVars, initVars>>

Init ==
  /\ part \in {"wait", "shell", "init"}
  /\ WaitInit /\ (part = "wait" \/ rq = Queued(CHOOSE o \in Orders : TRUE))
  /\ ShellInit /\ InitProcInit

\* The run queue is corrupt and a null pointer is followed; the shell has exited.
Stopped ==
  /\ \/ part = "wait" /\ at = "poll_first" /\ chosen = NIL
     \/ part = "wait" /\ at = "push_link" /\ rq.len # 0 /\ rq.last = NIL
     \/ part = "shell" /\ pc = "exited"
  /\ UNCHANGED mcVars

Next ==
  \/ part = "wait" /\ WaitNext /\ UNCHANGED <<part, shellVars, initVars>>
  \/ part = "shell" /\ ShellNext /\ UNCHANGED <<part, waitVars, initVars>>
  \/ part = "init" /\ InitProcNext /\ UNCHANGED <<part, waitVars, shellVars>>
  \/ Stopped

(* Nothing keeps the kernel, the shell, a program it waits for, or init    *)
(* from a next step; programs that call again and again call read as well. *)
Fairness ==
  /\ WF_waitVars(part = "wait" /\ Thread) /\ SF_waitVars(part = "wait" /\ Read)
  /\ WF_shellVars(part = "shell" /\ Sh)
  /\ \A p \in Pids : WF_shellVars(part = "shell" /\ Foreground(p))
  /\ WF_initVars(part = "init" /\ InitStep)

Spec == Init /\ [][Next]_mcVars /\ Fairness
=============================================================================
