------------------------------- MODULE Files -------------------------------
(***************************************************************************)
(* Open files and descriptors (fs/files.c and the file pool of fs/vfs.c)   *)
(* over the life of the tasks that hold them.                              *)
(*                                                                         *)
(* struct file's wait in a ring addressed by free-running counters, like   *)
(* the task slots; a task's table maps descriptors to files.  fork gives   *)
(* the child no files, execve closes none and the start code of the new    *)
(* program opens three more, sched_exit closes all of them.  The tables    *)
(* are emptied only once, at boot, so a slot of the task table that is     *)
(* used again must come with an empty one.                                 *)
(***************************************************************************)
EXTENDS Integers, FiniteSets

CONSTANTS Task,           \* the slots of the task table
          MAX_FILE_CNT,   \* files in the pool
          RLIMIT_NOFILE,  \* descriptors of a task
          FILE_COUNTER_MOD,    \* free_head and free_tail count modulo this
          NIL             \* the null pointer

ASSUME FilesAssumption ==
    /\ IsFiniteSet(Task)
    /\ MAX_FILE_CNT \in Nat \ {0}
    /\ RLIMIT_NOFILE \in Nat
    /\ FILE_COUNTER_MOD \in Nat
    /\ FILE_COUNTER_MOD % MAX_FILE_CNT = 0
    /\ FILE_COUNTER_MOD >= 2 * MAX_FILE_CNT
    /\ NIL \notin Int

VARIABLES vfs,      \* the file pool and what it says of each file
          files,    \* task->files: for each task, its descriptors
          life,    \* where a task is in its life
          reading,  \* the file a task that sleeps in tty_read goes on to use
          exiting   \* the task inside sched_exit and the descriptor it is at

filesVars == <<vfs, files, life, reading, exiting>>

File == 0 .. MAX_FILE_CNT - 1
Fds  == 0 .. RLIMIT_NOFILE - 1
FileRingIndex(counter) == counter % MAX_FILE_CNT

vfs_init ==
    [free_head |-> 0,
     free_tail |-> MAX_FILE_CNT,
     free_ring |-> [i \in File |-> i],
     fd        |-> [f \in File |-> 0]]

FreeFiles(v) == (v.free_tail - v.free_head) % FILE_COUNTER_MOD

\* vfs_alloc_file: the file it returns, when the ring is not empty.
NextFile(v) == v.free_ring[FileRingIndex(v.free_head)]

vfs_alloc_file(v) == [v EXCEPT !.free_head = (@ + 1) % FILE_COUNTER_MOD]

vfs_free_file_panics(v) == FreeFiles(v) = MAX_FILE_CNT

vfs_free_file(v, f) ==
    [v EXCEPT !.fd[f] = -1,
              !.free_ring[FileRingIndex(v.free_tail)] = f,
              !.free_tail = (@ + 1) % FILE_COUNTER_MOD]

FreeFds(table) == {fd \in Fds : table[fd] = NIL}

\* files_alloc_fd: the lowest free descriptor, -1 when there is none.
files_alloc_fd(table) ==
    IF FreeFds(table) = {} THEN -1
    ELSE CHOOSE fd \in FreeFds(table) : \A other \in FreeFds(table) : fd <= other

\* Faulty variant of vfs_open: the file of an open that the file system
\* refuses is not given back.
vfs_open_leaks(s, t, ok) ==
    LET f     == NextFile(s.vfs)
        taken == vfs_alloc_file(s.vfs)
        fd    == files_alloc_fd(s.files[t])
    IN  IF s.vfs.free_head = s.vfs.free_tail THEN s
        ELSE IF fd < 0 THEN [s EXCEPT !.vfs = vfs_free_file(taken, f)]
        ELSE IF ~ ok THEN [s EXCEPT !.vfs = [taken EXCEPT !.fd[f] = fd]]
        ELSE [s EXCEPT !.vfs = [taken EXCEPT !.fd[f] = fd], !.files[t][fd] = f]

\* vfs_open, on the pool and the tables; ok is what the file system's own
\* open answers.  A file that gets no descriptor, or that the file system
\* refuses, goes back to the other end of the ring.
vfs_open(s, t, ok) ==
    LET f     == NextFile(s.vfs)
        taken == vfs_alloc_file(s.vfs)
        fd    == files_alloc_fd(s.files[t])
    IN  IF s.vfs.free_head = s.vfs.free_tail THEN s
        ELSE IF fd < 0 THEN [s EXCEPT !.vfs = vfs_free_file(taken, f)]
        ELSE IF ~ ok THEN [s EXCEPT !.vfs = vfs_free_file([taken EXCEPT !.fd[f] = fd], f)]
        ELSE [s EXCEPT !.vfs = [taken EXCEPT !.fd[f] = fd], !.files[t][fd] = f]

\* vfs_close of a descriptor in range; the close of every device does nothing.
vfs_close(s, t, fd) ==
    IF s.files[t][fd] = NIL THEN s
    ELSE [s EXCEPT !.vfs = vfs_free_file(s.vfs, s.files[t][fd]),
                   !.files[t][fd] = NIL]

---------------------------------------------------------------------------
\* One task is running the first program, the other slots are in the pool;
\* kmain has emptied all tables.
FilesInit ==
    /\ vfs = vfs_init
    /\ files = [t \in Task |-> [fd \in Fds |-> NIL]]
    /\ \E t \in Task : life = [u \in Task |-> IF u = t THEN "alive" ELSE "pooled"]
    /\ reading = [t \in Task |-> NIL]
    /\ exiting = NIL

Now == [vfs |-> vfs, files |-> files]

Becomes(s) == vfs' = s.vfs /\ files' = s.files

\* A task makes a system call: it is not asleep, and sched_exit, which does
\* not give up the CPU while it closes files, has nobody inside.
MakesCall(t) == life[t] = "alive" /\ reading[t] = NIL /\ exiting = NIL

FileOpen(t, ok) ==
    /\ MakesCall(t)
    /\ Becomes(vfs_open(Now, t, ok))
    /\ UNCHANGED <<life, reading, exiting>>

FileClose(t, fd) ==
    /\ MakesCall(t)
    /\ Becomes(vfs_close(Now, t, fd))
    /\ UNCHANGED <<life, reading, exiting>>

\* vfs_chdir opens the directory to try it, and closes it again.
FileChdir(t, ok) ==
    LET opened == vfs_open(Now, t, ok)
        fd     == files_alloc_fd(files[t])
    IN  /\ MakesCall(t)
        /\ Becomes(IF opened.files = files THEN opened ELSE vfs_close(opened, t, fd))
        /\ UNCHANGED <<life, reading, exiting>>

\* vfs_read of a terminal without input: tty_read keeps the file across
\* wait_event.
ReadBlocks(t, fd) ==
    /\ MakesCall(t)
    /\ files[t][fd] # NIL
    /\ reading' = [reading EXCEPT ![t] = files[t][fd]]
    /\ UNCHANGED <<vfs, files, life, exiting>>

ReadReturns(t) ==
    /\ reading[t] # NIL
    /\ exiting = NIL
    /\ reading' = [reading EXCEPT ![t] = NIL]
    /\ UNCHANGED <<vfs, files, life, exiting>>

\* sched_fork takes a slot and leaves its table as it is.
FileFork(t, child) ==
    /\ MakesCall(t)
    /\ life[child] = "pooled"
    /\ life' = [life EXCEPT ![child] = "alive"]
    /\ UNCHANGED <<vfs, files, reading, exiting>>

\* sched_execve closes nothing; task_trampoline, which runs next in this
\* task, opens the three standard files and looks at none of the results.
Execve(t) ==
    /\ MakesCall(t)
    /\ Becomes(vfs_open(vfs_open(vfs_open(Now, t, TRUE), t, TRUE), t, TRUE))
    /\ UNCHANGED <<life, reading, exiting>>

\* sched_exit, from the system call or from wait_event when a signal is
\* pending, in the middle of a read.
FileExit(t) ==
    /\ life[t] = "alive" /\ exiting = NIL
    /\ exiting' = [task |-> t, fd |-> 0]
    /\ reading' = [reading EXCEPT ![t] = NIL]
    /\ UNCHANGED <<vfs, files, life>>

\* The loop of sched_exit over the descriptors, and what follows it.
ExitCloses ==
    /\ exiting # NIL
    /\ IF exiting.fd < RLIMIT_NOFILE
       THEN /\ Becomes(vfs_close(Now, exiting.task, exiting.fd))
            /\ exiting' = [exiting EXCEPT !.fd = @ + 1]
            /\ UNCHANGED life
       ELSE /\ life' = [life EXCEPT ![exiting.task] = "zombie"]
            /\ exiting' = NIL
            /\ UNCHANGED <<vfs, files>>
    /\ UNCHANGED reading

\* sched_waitpid of another task gives the slot back to the task table.
FileReap(t) ==
    /\ life[t] = "zombie"
    /\ \E u \in Task : MakesCall(u)
    /\ life' = [life EXCEPT ![t] = "pooled"]
    /\ UNCHANGED <<vfs, files, reading, exiting>>

FilesNext ==
    \/ \E t \in Task :
         \/ \E ok \in BOOLEAN : FileOpen(t, ok) \/ FileChdir(t, ok)
         \/ \E fd \in Fds : FileClose(t, fd) \/ ReadBlocks(t, fd)
         \/ ReadReturns(t) \/ Execve(t) \/ FileExit(t) \/ FileReap(t)
         \/ \E child \in Task : FileFork(t, child)
    \/ ExitCloses

FilesSpec == FilesInit /\ [][FilesNext]_filesVars

---------------------------------------------------------------------------
PoolType ==
    [free_head : 0 .. FILE_COUNTER_MOD - 1,
     free_tail : 0 .. FILE_COUNTER_MOD - 1,
     free_ring : [File -> File],
     fd        : [File -> Fds \cup {0, -1}]]

\* Type: the pool, the tables and the places of the tasks keep their types.
FilesTypeOK ==
    /\ vfs \in PoolType
    /\ files \in [Task -> [Fds -> File \cup {NIL}]]
    /\ life \in [Task -> {"pooled", "alive", "zombie"}]
    /\ reading \in [Task -> File \cup {NIL}]
    /\ exiting \in [task : Task, fd : 0 .. RLIMIT_NOFILE] \cup {NIL}

\* The files between the two counters of the ring.
FreeAt(v, i) == v.free_ring[FileRingIndex(v.free_head + i)]

Held(tables, f) == \E t \in Task, fd \in Fds : tables[t][fd] = f

\* The ring lists every file that no descriptor names exactly once: an open
\* that fails half way, a close, a chdir and the loop of sched_exit lose no
\* file and free none twice, so vfs_free_file never panics.
PoolExact(v, tables) ==
    /\ FreeFiles(v) \in 0 .. MAX_FILE_CNT
    /\ \A i, j \in 0 .. FreeFiles(v) - 1 : FreeAt(v, i) = FreeAt(v, j) => i = j
    /\ \A f \in File :
         (\E i \in 0 .. FreeFiles(v) - 1 : FreeAt(v, i) = f) <=> ~ Held(tables, f)

PoolOK == PoolExact(vfs, files)

\* Closing an open file never finds a pool that is full already: vfs_free_file
\* does not panic.
FreeNeverPanics ==
    (\E t \in Task, fd \in Fds : files[t][fd] # NIL) => ~ vfs_free_file_panics(vfs)

\* A file has one descriptor, and knows it: no two descriptors, of one task or
\* of two, share a file, although fork duplicates a task.
Owned(v, tables) ==
    \A t, u \in Task : \A fd, gd \in Fds :
        tables[t][fd] # NIL =>
          /\ v.fd[tables[t][fd]] = fd
          /\ tables[t][fd] = tables[u][gd] => t = u /\ fd = gd

OneDescriptor == Owned(vfs, files)

\* A task that is dead or not yet born holds no file, so that the next fork
\* into its slot starts with an empty table, which nobody empties.
DeadHoldNothing ==
    \A t \in Task : life[t] # "alive" => \A fd \in Fds : files[t][fd] = NIL

\* A task that sleeps in tty_read finds its file as it left it, whatever the
\* others open, close or execute in the meantime.
ReaderKeepsFile ==
    \A t \in Task : reading[t] # NIL =>
        /\ life[t] = "alive"
        /\ \E fd \in Fds : files[t][fd] = reading[t] /\ vfs.fd[reading[t]] = fd

\* With RLIMIT_NOFILE files in the pool for every task a free descriptor
\* always finds a free file, at the end of any sequence of calls: only the
\* descriptors of a task limit it.
FileForEveryDescriptor ==
    Cardinality(Task) * RLIMIT_NOFILE <= MAX_FILE_CNT =>
        \A t \in Task : FreeFds(files[t]) # {} => vfs.free_head # vfs.free_tail

\* Files and descriptors through open, close, fork, exec and exit,
\* with calls that fail half way: every file is free or in use once and
\* never lost, belongs to one descriptor, stays while a reader waits, and
\* dies with its task.
FilesCorrect ==
  /\ FilesTypeOK
  /\ PoolOK
  /\ FreeNeverPanics
  /\ OneDescriptor
  /\ DeadHoldNothing
  /\ ReaderKeepsFile
  /\ FileForEveryDescriptor
===========================================================================
