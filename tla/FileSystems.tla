---------------------------- MODULE FileSystems ----------------------------
(***************************************************************************)
(* What the root, sys, dev and bin file systems (fs/root_fs.c, fs/sys_fs.c, *)
(* fs/dev_fs.c, fs/bin_fs.c) make of an open file: which paths open, which *)
(* operations the file gets, and how read and getdents, which share the    *)
(* position of the file, move through it.  /proc is module ProcFs.         *)
(*                                                                         *)
(* A path is the file system path_to_fs finds for it and the name below    *)
(* the mount point, "" for the mount point.  Positions count bytes.        *)
(***************************************************************************)
EXTENDS Constants, Sequences, SequencesExt, FiniteSetsExt

CONSTANTS MAX_DEVICES,   \* slots in the device table (32)
          Bins,          \* the embedded programs: a sequence of paths
          BinSize,       \* bytes in a program
          DirentSize,    \* sizeof(struct dirent)
          FsMaxCount     \* bound: the largest size passed to a call

TtyName(i) == "tty" \o ToString(i)

ASSUME FileSystemsAssumption ==
    /\ {MAX_DEVICES, BinSize, DirentSize} \subseteq Nat \ {0} /\ FsMaxCount \in Nat
    /\ MAX_DEVICES >= TTY_COUNT + 4
    /\ \A i \in Ttys : TtyName(i) \notin {"tty", "stdin", "stdout", "stderr"}
    /\ Bins \in Seq([fs : STRING, name : STRING])

VARIABLES devices,  \* the device table, in slot order
          active,   \* ctx.active: the terminal on the screen
          ctty,     \* the terminal of the task, or NO_TTY
          fs_cwd,   \* the working directory of the task
          fs_file,  \* the file the task has open, or NONE
          got,      \* the bytes its reads have delivered since the open
          names     \* the paths its last getdents has listed

fsVars == <<devices, active, ctty, fs_cwd, fs_file, got, names>>

NONE == [fs |-> "none"]
P(fs, name) == [fs |-> fs, name |-> name]
NO_TTY == -1
MARKER == -1

---------------------------------------------------------------------------
(* The device table.                                                       *)

\* dev_register takes the first free slot; devices are never removed.
dev_register(table, name, data) ==
    IF Len(table) >= MAX_DEVICES THEN table
    ELSE Append(table, [name |-> name, data |-> data])

\* tty_system_init: a device per terminal, whose data is the terminal, and
\* four names whose terminal is found when they are opened.
tty_system_init ==
    LET loop[i \in 0 .. TTY_COUNT] ==
          IF i = 0 THEN <<>> ELSE dev_register(loop[i - 1], TtyName(i - 1), i - 1)
        tty   == dev_register(loop[TTY_COUNT], "tty", MARKER)
        stdin == dev_register(tty, "stdin", MARKER)
        stdout == dev_register(stdin, "stdout", MARKER)
    IN  dev_register(stdout, "stderr", MARKER)

\* dev_lookup: the first device of that name.
dev_lookup(name) == {i \in DOMAIN devices :
                       /\ devices[i].name = name
                       /\ \A j \in 1 .. i - 1 : devices[j].name # name}

\* Faulty variant of tty_open: the standard names follow the screen.
tty_open_active(dev) ==
    IF dev.data # MARKER THEN dev.data ELSE active

\* tty_open: the standard names lead to the task's terminal if it has one.
tty_open(dev) ==
    IF dev.data # MARKER THEN dev.data
    ELSE IF dev.name # "tty" /\ ctty # NO_TTY THEN ctty
    ELSE active

---------------------------------------------------------------------------
(* open                                                                    *)

Opened(path, ops, data) == [fs |-> path.fs, name |-> path.name, ops |-> ops,
                            data |-> data, pos |-> 0]

\* dev_open: devices list the directory as well.
dev_open(path) ==
    IF path.name = "" THEN Opened(path, {"getdents"}, NONE)
    ELSE IF dev_lookup(path.name) = {} THEN NONE
    ELSE LET dev == devices[CHOOSE i \in dev_lookup(path.name) : TRUE]
         IN  Opened(path, {"getdents", "read", "write"}, [fs |-> "tty", tty |-> tty_open(dev)])

\* find_bin compares whole paths.
find_bin(path) == \E i \in DOMAIN Bins : Bins[i] = path

\* bin_open: programs list the directory as well.
bin_open(path) ==
    IF path.name = "" THEN Opened(path, {"read", "getdents", "fstat"}, NONE)
    ELSE IF ~ find_bin(path) THEN NONE
    ELSE Opened(path, {"read", "getdents", "fstat"}, [fs |-> "program"])

sys_open(path) == IF path.name = "" THEN Opened(path, {"getdents"}, NONE) ELSE NONE

\* root_open takes every path that is below no other mount.
root_open(path) == Opened(path, {"getdents"}, NONE)

fs_open(path) ==
    CASE path.fs = "dev"  -> dev_open(path)
      [] path.fs = "bin"  -> bin_open(path)
      [] path.fs = "sys"  -> sys_open(path)
      [] path.fs = "root" -> root_open(path)

---------------------------------------------------------------------------
(* getdents, read and fstat                                                *)

\* vfs_get_root_mounts: the mount points below the root, in slot order.
vfs_get_root_mounts == <<P("sys", ""), P("proc", ""), P("dev", ""), P("bin", "")>>

\* elf_fill_bin_dirents: every embedded program under its last name.
elf_fill_bin_dirents == [i \in DOMAIN Bins |-> P("bin", Bins[i].name)]

\* sys_getdents and dev_getdents: nothing yet, and every device.
sys_getdents == <<>>
dev_getdents == [i \in DOMAIN devices |-> P("dev", devices[i].name)]

\* The entries after "." and "..", which are listed first.
Entries(fs) ==
    CASE fs = "root" -> vfs_get_root_mounts
      [] fs = "sys"  -> sys_getdents
      [] fs = "dev"  -> dev_getdents
      [] fs = "bin"  -> elf_fill_bin_dirents

\* root_getdents, sys_getdents, dev_getdents and bin_getdents with count
\* bytes: one listing per open, cut to the entries there is room for.
Listing(count) ==
    LET max == count \div DirentSize
    IN  IF max = 0 \/ fs_file.pos > 0 THEN [n |-> 0, names |-> {}]
        ELSE [n     |-> Min({max, 2 + Len(Entries(fs_file.fs))}),
              names |-> {Entries(fs_file.fs)[i] : i \in 1 .. Min({max - 2, Len(Entries(fs_file.fs))})}]

\* bin_read: how many bytes it copies from the position on; nothing from the
\* directory itself.
bin_read(count) ==
    IF fs_file.data = NONE \/ fs_file.pos >= BinSize THEN 0 ELSE Min({count, BinSize - fs_file.pos})

\* vfs_fstat: what it says of the file; a file without its own fstat gets
\* zeroes.
vfs_fstat ==
    IF "fstat" \notin fs_file.ops THEN [type |-> "zero", size |-> 0]
    ELSE IF fs_file.data = NONE THEN [type |-> "dir", size |-> 0]
    ELSE [type |-> "reg", size |-> BinSize]

---------------------------------------------------------------------------
FsPaths == {P(fs, "") : fs \in {"root", "sys", "dev", "bin"}}
           \cup {P("root", "sbin"), P("sys", "x"), P("dev", "x"), P("bin", "x")}
           \cup {P("dev", name) : name \in {TtyName(0), "tty", "stdin"}}
           \cup {P("bin", Bins[i].name) : i \in DOMAIN Bins}

FsInit ==
    /\ devices = tty_system_init
    /\ active = 0
    /\ ctty \in Ttys \cup {NO_TTY}
    /\ fs_cwd = P("root", "")
    /\ fs_file = NONE
    /\ got = <<>>
    /\ names = {}

FsOpen(path) ==
    /\ fs_file = NONE
    /\ fs_file' = fs_open(path)
    /\ got' = <<>>
    /\ names' = {}
    /\ UNCHANGED <<devices, active, ctty, fs_cwd>>

FsClose ==
    /\ fs_file # NONE
    /\ fs_file' = NONE
    /\ UNCHANGED <<devices, active, ctty, fs_cwd, got, names>>

\* vfs_read of a program; a terminal is module Tty.
FsRead(count) ==
    /\ fs_file # NONE /\ fs_file.fs = "bin"
    /\ fs_file' = [fs_file EXCEPT !.pos = @ + bin_read(count)]
    /\ got' = got \o [i \in 1 .. bin_read(count) |-> fs_file.pos + i - 1]
    /\ UNCHANGED <<devices, active, ctty, fs_cwd, names>>

FsGetdents(count) ==
    /\ fs_file # NONE
    /\ names' = Listing(count).names
    /\ fs_file' = [fs_file EXCEPT !.pos = @ + Listing(count).n * DirentSize]
    /\ UNCHANGED <<devices, active, ctty, fs_cwd, got>>

\* vfs_chdir: a file that opens and has entries is taken for a directory.
FsChdir(path) ==
    /\ fs_file = NONE
    /\ fs_open(path) # NONE
    /\ "getdents" \in fs_open(path).ops
    /\ fs_cwd' = path
    /\ UNCHANGED <<devices, active, ctty, fs_file, got, names>>

\* The keyboard switches the screen; SYS_setctty.
Activate(tty) == active' = tty /\ UNCHANGED <<devices, ctty, fs_cwd, fs_file, got, names>>
SetCtty(tty)  == ctty' = tty /\ UNCHANGED <<devices, active, fs_cwd, fs_file, got, names>>

FsNext ==
    \/ \E path \in FsPaths : FsOpen(path) \/ FsChdir(path)
    \/ FsClose
    \/ \E count \in 0 .. FsMaxCount : FsRead(count) \/ FsGetdents(count)
    \/ \E tty \in Ttys : Activate(tty) \/ SetCtty(tty)

FsSpec == FsInit /\ [][FsNext]_fsVars

---------------------------------------------------------------------------
\* Type, and the device table holds every terminal and the four names.
FsTypeOK ==
    /\ active \in Ttys /\ ctty \in Ttys \cup {NO_TTY}
    /\ fs_cwd.fs \in {"root", "sys", "dev", "bin"}
    /\ fs_file # NONE => fs_file.pos \in Nat /\ fs_file.ops \subseteq {"read", "write", "getdents", "fstat"}
    /\ Len(devices) = TTY_COUNT + 4

\* The bytes of a program come in order, none left out or twice and none from
\* past its end, in pieces of any size, although getdents moves the position
\* that read uses: a listing can only make the first read start late.  A file
\* that was read from its first byte ends where fstat says.
ReadsInOrder ==
    /\ \A i \in DOMAIN got : got[i] = got[1] + i - 1 /\ got[i] < BinSize
    /\ fs_file # NONE /\ fs_file.data = [fs |-> "program"] /\ Len(got) = BinSize
         => fs_file.pos = vfs_fstat.size

\* What the root, sys and dev directories list can be opened.
ListedOpens ==
    \A path \in names : path.fs \in {"sys", "dev"} => fs_open(path) # NONE

\* A file opened under a standard name belongs to the terminal of the task
\* when it has one, whatever is on the screen at that moment.
StandardFilesAreOwn ==
    [][fs_file = NONE /\ fs_file' # NONE /\ fs_file'.fs = "dev" /\ fs_file'.name = "stdin" /\ ctty # NO_TTY
         => fs_file'.data.tty = ctty]_fsVars

\* The working directory of a task can always be opened again: vfs_chdir
\* takes no path that the file system refuses.
CwdOpens == fs_open(fs_cwd) # NONE

\* The contents of /bin, as a listing of it shows them, can be opened.
BinContents == \A path \in names : path.fs = "bin" => fs_open(path) # NONE

\* The working directory is a directory, not a program or a device.
CwdIsDirectory == fs_cwd.fs \in {"bin", "dev"} => fs_cwd.name = ""

\* Files of the other file systems: reads go on where the last one ended,
\* what a listing names and what chdir takes opens again, and a task's
\* standard files are on its own terminal.
FsCorrect ==
  /\ [](FsTypeOK /\ ReadsInOrder /\ ListedOpens /\ CwdOpens)
  /\ StandardFilesAreOwn
=============================================================================
