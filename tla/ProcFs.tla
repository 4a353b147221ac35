------------------------------- MODULE ProcFs -------------------------------
(***************************************************************************)
(* The process file system (fs/proc_fs.c) while tasks come and go.         *)
(*                                                                         *)
(* A reader keeps one file of /proc open.  The file remembers only its     *)
(* path, and every call looks the pid of the path up again, in the task    *)
(* table of module TaskTable, whose slots and, after enough generations,   *)
(* pids are used again.                                                    *)
(*                                                                         *)
(* A path is the number proc_path_to_pid reads in it and the rest of it.   *)
(* Texts are their lengths.  Sizes of directories count entries.           *)
(***************************************************************************)
EXTENDS TaskTable, FiniteSetsExt

CONSTANTS PROC_NOFILE,    \* RLIMIT_NOFILE: descriptors of a task
          NameLen,        \* length of a task's name
          PathLen,        \* length of a directory or of a file's path
          StatLen,        \* length of the texts of <pid>/stat and <pid>/status
          CtxtLen,        \* length of the text of /proc/stat
          ProcMaxCount    \* bound: the largest size passed to a call

ASSUME ProcAssumption ==
    {PROC_NOFILE, NameLen, PathLen, StatLen, CtxtLen, ProcMaxCount} \subseteq Nat

VARIABLES state,  \* task->state
          fds,    \* the open descriptors of each task
          proc_file,   \* the reader's file: its path and its position
          answer  \* what the last call of the reader returned and did

procVars == <<task_table, state, fds, proc_file, answer>>

ProcFds == 0 .. PROC_NOFILE - 1
Leaves == {"comm", "cmdline", "stat", "status", "cwd", "exe"}

\* The last part of <pid>/fd/<num>; k_atoi makes 0 of a name without digits.
Links == [rest : {"fd/num"}, fd : 0 .. PROC_NOFILE] \cup [rest : {"fd/name"}, fd : {0}]

Path(pid, rest)  == [pid |-> pid, rest |-> rest, fd |-> -1]
Root             == Path(PID_NONE, "root")
Stat             == Path(PID_NONE, "stat")
Dir(pid)         == Path(pid, "dir")
FdDir(pid)       == Path(pid, "fd")
FdLink(pid, num) == [pid |-> pid, rest |-> "fd/num", fd |-> num]

ProcPaths ==
    {Root, Stat, Path(PID_NONE, "unknown")}
        \cup {Path(pid, rest) : pid \in Pids, rest \in {"dir", "fd", "other"} \cup Leaves}
        \cup {[pid |-> pid, rest |-> l.rest, fd |-> l.fd] : pid \in Pids, l \in Links}

IsFdLink(path) == path.rest \in {"fd/num", "fd/name"}
proc_is_root(path) == path = Root
proc_is_pid_dir(path) == path.pid # PID_NONE /\ path.rest = "dir"
proc_is_fd_dir(path) == path.pid # PID_NONE /\ path.rest = "fd"
proc_extract_fd_num(path) == path.fd

\* The slot a lookup finds for the path, as a set of at most one.
TaskOf(path) == task_table_find(task_table, path.pid)

---------------------------------------------------------------------------
\* proc_open: whether the path can be opened.
proc_open(path) ==
    \/ proc_is_root(path)
    \/ path = Stat
    \/ /\ path.pid # PID_NONE
       /\ \E t \in TaskOf(path) :
            \/ proc_is_pid_dir(path)
            \/ path.rest \in Leaves
            \/ proc_is_fd_dir(path)
            \/ IsFdLink(path) /\ proc_extract_fd_num(path) \in fds[t]

Error == -1
Answer(call, slot, ret, written, names) ==
    [call |-> call, slot |-> slot, ret |-> ret, written |-> written, names |-> names, size |-> 0]
Nothing(call, ret) == Answer(call, Error, ret, 0, {})

\* The text of a leaf: its length, and whether a '\n' is put after it.  With
\* one, at most count - 1 bytes of the text are copied.
TextOf(path) ==
    CASE path.rest = "cmdline"          -> [len |-> NameLen, newline |-> FALSE]
      [] path.rest \in {"comm", "exe"}  -> [len |-> NameLen, newline |-> TRUE]
      [] path.rest = "cwd"              -> [len |-> PathLen, newline |-> TRUE]
      [] path.rest \in {"stat", "status"} -> [len |-> StatLen, newline |-> FALSE]
      [] IsFdLink(path)                 -> [len |-> PathLen, newline |-> TRUE]

\* The functions read_proc_pid_*.
ReadLeaf(path, count, slot) ==
    LET text == TextOf(path)
        n    == IF text.newline THEN Min({text.len, count - 1}) + 1
                ELSE Min({text.len, count})
    IN  Answer("read", slot, n, n, {})

\* read_proc_stat returns no more than count but copies its whole text.
ReadStat(count) == Answer("read", Error, Min({CtxtLen, count}), CtxtLen, {})

\* Faulty variant of proc_read: any task in the slot of the pid is taken for
\* the task the file was opened for.
proc_read_by_slot(path, pos, count) ==
    IF pos > 0 \/ count = 0 THEN Nothing("read", 0)
    ELSE IF path = Stat THEN ReadStat(count)
    ELSE IF path.pid = PID_NONE \/ state[SlotOf(path.pid)] = "POOLED" THEN Nothing("read", Error)
    ELSE IF IsFdLink(path) /\ proc_extract_fd_num(path) \notin fds[SlotOf(path.pid)]
         THEN Nothing("read", Error)
    ELSE IF IsFdLink(path) \/ path.rest \in Leaves
         THEN ReadLeaf(path, count, SlotOf(path.pid))
    ELSE Nothing("read", Error)

\* proc_read: the second read of a file is its end.
proc_read(path, pos, count) ==
    IF pos > 0 \/ count = 0 THEN Nothing("read", 0)
    ELSE IF path = Stat THEN ReadStat(count)
    ELSE IF path.pid = PID_NONE \/ TaskOf(path) = {} THEN Nothing("read", Error)
    ELSE LET t == CHOOSE s \in TaskOf(path) : TRUE
         IN  IF IsFdLink(path) /\ proc_extract_fd_num(path) \notin fds[t]
             THEN Nothing("read", Error)
             ELSE IF IsFdLink(path) \/ path.rest \in Leaves
             THEN ReadLeaf(path, count, t)
             ELSE Nothing("read", Error)

---------------------------------------------------------------------------
(* Directories.  fs_add_entry adds an entry only while there is room.      *)

fs_add_entry(listing, max, path) ==
    IF listing.idx >= max THEN listing
    ELSE [idx |-> listing.idx + 1, names |-> listing.names \cup {path}]

\* The entries "." and ".." come first everywhere.
Dots(max) == [idx |-> Min({2, max}), names |-> {}]

\* sched_fill_proc_dirents: an entry for every slot in use, however many the
\* caller has room for.
sched_fill_proc_dirents ==
    {[slot |-> s, path |-> Dir(task_table.pid[s])] : s \in {r \in Slots : state[r] # "POOLED"}}

ListRoot(max) ==
    LET head  == fs_add_entry(Dots(max), max, Stat)
        tasks == sched_fill_proc_dirents
    IN  IF head.idx < max
        THEN [idx   |-> head.idx + Cardinality(tasks),
              names |-> head.names \cup {e.path : e \in tasks}]
        ELSE head

\* The descriptors in their order, while there is room.
ListFds(pid, t, max) ==
    LET room   == max - Min({2, max})
        listed == {n \in fds[t] : Cardinality({k \in fds[t] : k < n}) < room}
    IN  [idx   |-> Min({2, max}) + Cardinality(listed),
         names |-> {FdLink(pid, n) : n \in listed}]

\* The leaves of a task's directory, in the order of the code.
PidEntries(pid) ==
    <<Path(pid, "cmdline"), Path(pid, "comm"), Path(pid, "cwd"), Path(pid, "exe"),
      FdDir(pid), Path(pid, "stat"), Path(pid, "status")>>

ListPid(pid, max) ==
    LET room == Min({Len(PidEntries(pid)), max - Min({2, max})})
    IN  [idx |-> Min({2, max}) + room, names |-> {PidEntries(pid)[i] : i \in 1 .. room}]

Listed(listing) == Answer("getdents", Error, listing.idx, listing.idx, listing.names)

\* proc_getdents with room for max entries; -ENOTDIR is an error like others.
proc_getdents(path, pos, max) ==
    IF max = 0 \/ pos > 0 THEN Nothing("getdents", 0)
    ELSE IF proc_is_root(path) THEN Listed(ListRoot(max))
    ELSE IF ~ proc_is_fd_dir(path) /\ ~ proc_is_pid_dir(path) THEN Nothing("getdents", Error)
    ELSE IF TaskOf(path) = {} THEN Nothing("getdents", Error)
    ELSE IF proc_is_fd_dir(path)
         THEN Listed(ListFds(path.pid, CHOOSE s \in TaskOf(path) : TRUE, max))
    ELSE Listed(ListPid(path.pid, max))

---------------------------------------------------------------------------
\* Slot 0 is a task that never dies, the reader.
ProcInit ==
    /\ task_table = task_table_alloc(task_table_init)
    /\ state = [s \in Slots |-> IF s = 0 THEN "RUNNING" ELSE "POOLED"]
    /\ fds = [s \in Slots |-> {}]
    /\ proc_file = [path |-> Root, pos |-> 0]
    /\ answer = Nothing("open", 0)

\* What the rest of the kernel does to the task table.
ProcFork ==
    /\ HasFreeSlot(task_table)
    /\ task_table' = task_table_alloc(task_table)
    /\ state' = [state EXCEPT ![NextSlot(task_table)] = "RUNNING"]
    /\ UNCHANGED <<fds, proc_file, answer>>

OpenClose(s) ==
    /\ state[s] = "RUNNING"
    /\ \E fd \in ProcFds :
         fds' = [fds EXCEPT ![s] = IF fd \in @ THEN @ \ {fd} ELSE @ \cup {fd}]
    /\ UNCHANGED <<task_table, state, proc_file, answer>>

ProcExit(s) ==
    /\ state[s] = "RUNNING" /\ s # 0
    /\ state' = [state EXCEPT ![s] = "ZOMBIE"]
    /\ fds' = [fds EXCEPT ![s] = {}]
    /\ UNCHANGED <<task_table, proc_file, answer>>

ProcReap(s) ==
    /\ state[s] = "ZOMBIE"
    /\ task_table' = task_table_free(task_table, s)
    /\ state' = [state EXCEPT ![s] = "POOLED"]
    /\ UNCHANGED <<fds, proc_file, answer>>

\* The reader opens another file of /proc in place of the one it has.
ProcOpen(path) ==
    /\ proc_open(path)
    /\ proc_file' = [path |-> path, pos |-> 0]
    /\ answer' = Nothing("open", 0)
    /\ UNCHANGED <<task_table, state, fds>>

\* A call with a buffer of a size: what it returned moves the position.
Returns(a, size) ==
    /\ answer' = [a EXCEPT !.size = size]
    /\ proc_file' = [proc_file EXCEPT !.pos = @ + Max({a.ret, 0})]
    /\ UNCHANGED <<task_table, state, fds>>

ProcRead(count)   == Returns(proc_read(proc_file.path, proc_file.pos, count), count)
ProcGetdents(max) == Returns(proc_getdents(proc_file.path, proc_file.pos, max), max)

ProcNext ==
    \/ ProcFork
    \/ \E s \in Slots : OpenClose(s) \/ ProcExit(s) \/ ProcReap(s)
    \/ \E path \in ProcPaths : ProcOpen(path)
    \/ \E count \in 0 .. ProcMaxCount : ProcRead(count) \/ ProcGetdents(count)

ProcSpec == ProcInit /\ [][ProcNext]_procVars

---------------------------------------------------------------------------
\* Type: a file has a path that was opened and a position past what it gave.
ProcTypeOK ==
    /\ state \in [Slots -> {"RUNNING", "ZOMBIE", "POOLED"}]
    /\ fds \in [Slots -> SUBSET ProcFds]
    /\ proc_file.path \in ProcPaths /\ proc_file.pos \in Nat
    /\ answer.slot \in Slots \cup {Error}

\* A read answers about the task that has the pid of the path at that moment:
\* not about the task that has taken over the slot since the file was opened,
\* and not about a slot that has been given back.
ReadsNamedTask ==
    [][answer' # answer /\ answer'.call = "read" /\ answer'.slot # Error =>
         /\ task_table.pid[answer'.slot] = proc_file.path.pid
         /\ state[answer'.slot] # "POOLED"]_procVars

\* What a listing names can be opened as long as nothing changes: the listing
\* goes by task->state and opening by the pid in the table, and the two agree
\* through every fork, exit and reap.
ListedCanBeOpened ==
    [][answer' # answer /\ answer'.call = "getdents" =>
         \A path \in answer'.names : proc_open(path)]_procVars

\* No call writes past the size it was given, except the two that ignore it:
\* the list of tasks in /proc, which still has one entry per slot at most, and
\* /proc/stat, which copies its whole text.
WritesFit ==
    answer.written <=
        IF answer.call = "getdents" /\ proc_is_root(proc_file.path)
        THEN Max({answer.size, 3 + MAX_PROCESS_CNT})
        ELSE IF answer.call = "read" /\ proc_file.path = Stat THEN Max({answer.size, CtxtLen})
        ELSE answer.size

\* The room of the caller as the limit of every listing, also when there are
\* more tasks than ps, which has room for 32 entries, can take.
ListingFits == answer.call = "getdents" => answer.written <= answer.size

\* /proc tells of the task it names, through exits, reaps and reuse of
\* slots: reads find the pid's own task, what is listed opens, and nothing
\* but the two known calls writes past the size it was given.
ProcCorrect ==
  /\ [](ProcTypeOK /\ WritesFit)
  /\ ReadsNamedTask
  /\ ListedCanBeOpened
=============================================================================
