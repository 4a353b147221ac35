------------------------------- MODULE Paths -------------------------------
(***************************************************************************)
(* Path names (fs/vfs.c): normalisation, resolution against the working    *)
(* directory, the mount table and getcwd, at the level of characters in a  *)
(* buffer of MAX_FILENAME_LEN bytes, because normalisation rewrites the    *)
(* buffer in place and cuts a path that does not fit.                      *)
(*                                                                         *)
(* A C string is the sequence of its characters without the closing NUL; a *)
(* buffer is a function from byte offsets to characters.                   *)
(***************************************************************************)
EXTENDS Integers, Sequences, SequencesExt, FiniteSetsExt

CONSTANTS MAX_FILENAME_LEN,  \* bytes in a path buffer (64 in the code)
          VFS_MAX_SEGMENTS,  \* components normalisation keeps (64)
          MAX_MOUNTS,        \* slots in the mount table (16)
          Char,              \* the characters of path names
          MaxArg,            \* bound: the longest path name passed in
          BootMounts         \* the lists of paths that may be mounted at boot

ASSUME PathsAssumption ==
    /\ MAX_FILENAME_LEN \in Nat /\ MAX_FILENAME_LEN >= 2
    /\ VFS_MAX_SEGMENTS \in Nat /\ MAX_MOUNTS \in Nat /\ MaxArg \in Nat
    /\ {"/", "."} \subseteq Char

VARIABLES mounts,    \* vfs.mounts: the mounted paths, in slot order
          cwd,       \* the working directory of the task
          pathname,  \* the argument of the last call
          resolved   \* what vfs_resolve_path made of it

pathsVars == <<mounts, cwd, pathname, resolved>>

NUL == "NUL"
Offsets == 0 .. MAX_FILENAME_LEN - 1

Buffer(s) == [i \in Offsets |-> IF i < Len(s) THEN s[i + 1] ELSE NUL]

\* k_strlen; a buffer without a NUL is read up to its end.
k_strlen(buf) == Min({MAX_FILENAME_LEN} \cup {i \in Offsets : buf[i] = NUL})

String(buf) == [i \in 1 .. k_strlen(buf) |-> buf[i - 1]]

\* k_memcpy inside one buffer copies forward byte by byte, so a copy to a
\* higher, overlapping place repeats the bytes between the two places.
k_memcpy(buf, dst, src, n) ==
    [i \in Offsets |->
        IF i \notin dst .. dst + n - 1 THEN buf[i]
        ELSE IF dst <= src THEN buf[src + (i - dst)]
        ELSE buf[src + ((i - dst) % (dst - src))]]

\* k_strncpy of s into a buffer, and a NUL in the last byte.
k_strncpy(s) == SubSeq(s, 1, Min({Len(s), MAX_FILENAME_LEN - 1}))

---------------------------------------------------------------------------
(* vfs_normalize_path                                                      *)

\* A path without a leading '/' is shifted by one byte, its NUL included;
\* when there is no room it is shifted without its last byte and its NUL.
EnsureLeadingSlash(path) ==
    IF path[1] = "/" THEN Buffer(path)
    ELSE [i \in Offsets |-> IF i = 0 THEN "/" ELSE Buffer(path)[i - 1]]

\* The components of a path: where each starts in the buffer and its length.
Components(buf) ==
    LET len    == k_strlen(buf)
        starts == {i \in 1 .. len - 1 : buf[i] # "/" /\ buf[i - 1] = "/"}
        end(i) == Min({len} \cup {j \in i .. len - 1 : buf[j] = "/"})
    IN  [k \in 1 .. Len(SetToSortSeq(starts, <)) |->
            LET start == SetToSortSeq(starts, <)[k]
            IN  [start |-> start, len |-> end(start) - start]]

IsDot(buf, seg)    == seg.len = 1 /\ buf[seg.start] = "."
IsDotDot(buf, seg) == seg.len = 2 /\ buf[seg.start] = "." /\ buf[seg.start + 1] = "."

\* "." is skipped, ".." takes back the component before it, anything else is
\* kept while there is room.
KeepSegment(buf, segs, seg) ==
    IF IsDot(buf, seg) THEN segs
    ELSE IF IsDotDot(buf, seg) THEN IF segs = <<>> THEN segs ELSE Front(segs)
    ELSE IF Len(segs) < VFS_MAX_SEGMENTS THEN Append(segs, seg) ELSE segs

\* One component copied to the end of the new path, followed by '/' unless it
\* is the last; a component that does not fit with a byte to spare is cut.
CopySegment(acc, seg, last) ==
    LET len  == IF acc.pos + seg.len + 1 >= MAX_FILENAME_LEN
                THEN MAX_FILENAME_LEN - acc.pos - 2 ELSE seg.len
        buf  == k_memcpy(acc.buf, acc.pos, seg.start, len)
        pos  == acc.pos + len
    IN  IF acc.full \/ len <= 0 THEN [acc EXCEPT !.full = TRUE]
        ELSE IF last THEN [acc EXCEPT !.buf = buf, !.pos = pos]
        ELSE IF pos + 1 >= MAX_FILENAME_LEN
             THEN [buf |-> buf, pos |-> pos, full |-> TRUE]
        ELSE [buf |-> [buf EXCEPT ![pos] = "/"], pos |-> pos + 1, full |-> FALSE]

vfs_normalize_path(path) ==
    IF path = <<>> THEN <<"/">>
    ELSE LET buf  == EnsureLeadingSlash(path)
             segs == FoldLeft(LAMBDA kept, seg : KeepSegment(buf, kept, seg),
                              <<>>, Components(buf))
             done == FoldLeftDomain(
                         LAMBDA acc, s : CopySegment(acc, segs[s], s = Len(segs)),
                         [buf |-> [buf EXCEPT ![0] = "/"], pos |-> 1, full |-> FALSE], segs)
         IN  IF segs = <<>> THEN <<"/">>
             ELSE String([done.buf EXCEPT ![Min({done.pos, MAX_FILENAME_LEN - 1})] = NUL])

---------------------------------------------------------------------------
(* vfs_resolve_path, the mount table, vfs_getcwd                           *)

\* Faulty variant of vfs_resolve_path: no separator after the directory.
vfs_resolve_path_glued(dir, path) ==
    vfs_normalize_path(k_strncpy(IF path # <<>> /\ path[1] = "/" THEN path ELSE dir \o path))

vfs_resolve_path(dir, path) ==
    LET base == k_strncpy(IF dir = <<>> THEN <<"/">> ELSE dir)
        sep  == IF Len(base) < MAX_FILENAME_LEN - 1 /\ Last(base) # "/"
                THEN Append(base, "/") ELSE base
    IN  vfs_normalize_path(
            IF path = <<>> THEN base
            ELSE IF path[1] = "/" THEN k_strncpy(path)
            ELSE k_strncpy(sep \o path))

\* vfs_mount takes the first free slot; slots are never given back.
vfs_mount(table, path) ==
    IF Len(table) = MAX_MOUNTS THEN table
    ELSE Append(table, vfs_normalize_path(k_strncpy(path)))

NO_FS == 0

\* path_to_fs: the slot of the longest mount path that starts the path and
\* ends at a component boundary, the first slot when two are equally long.
path_to_fs(path) ==
    LET len(i)  == Len(mounts[i])
        matches == {i \in DOMAIN mounts :
                      /\ IsPrefix(mounts[i], path)
                      /\ \/ len(i) = Len(path)
                         \/ path[len(i) + 1] = "/"
                         \/ len(i) = 1}
        longest == {i \in matches : \A j \in matches : len(j) <= len(i)}
    IN  IF matches = {} THEN NO_FS ELSE Min(longest)

\* vfs_getcwd with a buffer of size bytes; the buffer is empty
\* when it is too small.
vfs_getcwd(size) ==
    LET dir == IF cwd = <<>> THEN <<"/">> ELSE cwd
    IN  IF Len(dir) < size THEN dir ELSE <<>>

---------------------------------------------------------------------------
Strings == SeqOf(Char, MaxArg)

PathsInit ==
    /\ \E list \in BootMounts : mounts = FoldLeft(vfs_mount, <<>>, list)
    /\ cwd = <<"/">>
    /\ pathname = <<>>
    /\ resolved = <<"/">>

\* vfs_open resolves its argument.  A chdir that finds no file system, or is
\* refused by the file system, changes no more than that.
PathOpen(path) ==
    /\ pathname' = path
    /\ resolved' = vfs_resolve_path(cwd, path)
    /\ UNCHANGED <<mounts, cwd>>

\* vfs_chdir resolves its argument, opens the resolved path, which resolves
\* it once more, and makes it the working directory.
PathChdir(path) ==
    /\ pathname' = path
    /\ resolved' = vfs_resolve_path(cwd, path)
    /\ path_to_fs(vfs_resolve_path(cwd, resolved')) # NO_FS
    /\ cwd' = k_strncpy(resolved')
    /\ UNCHANGED mounts

PathsNext == \E path \in Strings : PathOpen(path) \/ PathChdir(path)

PathsSpec == PathsInit /\ [][PathsNext]_pathsVars

---------------------------------------------------------------------------
(* What a path means: the names on the way down from the root.             *)

\* The maximal runs of characters other than '/'.
Names(path) ==
    LET starts == {i \in DOMAIN path : path[i] # "/" /\ (i = 1 \/ path[i - 1] = "/")}
        end(i) == CHOOSE j \in i .. Len(path) :
                     /\ \A k \in i .. j : path[k] # "/"
                     /\ j = Len(path) \/ path[j + 1] = "/"
    IN  [k \in 1 .. Cardinality(starts) |->
            LET i == SetToSortSeq(starts, <)[k] IN SubSeq(path, i, end(i))]

Walk(dir, name) ==
    IF name = <<".">> THEN dir
    ELSE IF name = <<".", ".">> THEN SubSeq(dir, 1, Len(dir) - 1)
    ELSE Append(dir, name)

\* The directory reached from dir along a path.
Reach(dir, path) ==
    FoldLeft(Walk, IF path # <<>> /\ path[1] = "/" THEN <<>> ELSE dir, Names(path))

\* A path is canonical when it is the root, or '/' before each of its names
\* and nothing else, and no name is "." or "..".
Canonical(path) ==
    \/ path = <<"/">>
    \/ /\ Names(path) # <<>>
       /\ path = FlattenSeq([i \in DOMAIN Names(path) |-> <<"/">> \o Names(path)[i]])
       /\ \A i \in DOMAIN Names(path) : Names(path)[i] \notin {<<".">>, <<".", ".">>}

\* The longest path a call builds before it normalises it, and whether the
\* buffer holds it with the byte to spare that CopySegment wants.
Roomy(dir, path) ==
    (IF path # <<>> /\ path[1] = "/" THEN Len(path) ELSE Len(dir) + 1 + Len(path))
        < MAX_FILENAME_LEN - 1

\* Type: every path of the module is a string that fits its buffer.
PathsTypeOK ==
    /\ \A s \in {cwd, resolved} \cup Range(mounts) :
         Len(s) < MAX_FILENAME_LEN /\ Range(s) \subseteq Char
    /\ pathname \in Strings
    /\ Len(mounts) <= MAX_MOUNTS

\* A step that resolves another path, or the same one to something else.
Answered == <<pathname, resolved>>' # <<pathname, resolved>>

\* Resolution keeps the meaning of a path: what vfs_resolve_path returns
\* leads from the root to the directory the argument leads to from the
\* working directory, although the buffer is rewritten in place (every
\* argument that leaves a byte to spare).
ResolutionKeepsMeaning ==
    [][Answered /\ Roomy(cwd, pathname') =>
         Reach(<<>>, resolved') = Reach(Reach(<<>>, cwd), pathname')]_pathsVars

\* The comment on vfs_normalize_path: the result is absolute, without double
\* or trailing '/', "." and "..".  It holds with a byte to spare, and then
\* every working directory a task can reach is canonical as well.
RoomyPathsAreCanonical ==
    [][Answered /\ Roomy(cwd, pathname') => Canonical(resolved')]_pathsVars

\* The same without the byte to spare, as the comment states it.
ResolvedIsCanonical == Canonical(resolved)

\* The file system a path is given to is the one mounted at the deepest
\* directory above or at it, by names and not by characters: /aa is not
\* below a mount at /a (paths that were not cut).
DeepestMountWins ==
    LET above(i) == IsPrefix(Names(mounts[i]), Names(resolved))
        found    == {i \in DOMAIN mounts : above(i)}
    IN  Canonical(resolved) =>
        IF found = {} THEN path_to_fs(resolved) = NO_FS
        ELSE /\ path_to_fs(resolved) \in found
             /\ \A i \in found :
                  Len(Names(mounts[i])) <= Len(Names(mounts[path_to_fs(resolved)]))

\* A task can go elsewhere and come back: from any directory, what getcwd
\* gave in a buffer of MAX_FILENAME_LEN bytes resolves to the directory it
\* was asked for (canonical ones that leave the byte to spare).
GetcwdLeadsBack ==
    Canonical(cwd) /\ Len(cwd) < MAX_FILENAME_LEN - 1 =>
        vfs_resolve_path(resolved, vfs_getcwd(MAX_FILENAME_LEN)) = cwd

\* What vfs_resolve_path returns means what its argument meant and is
\* canonical, for every path that leaves a byte to spare; it gets to the file
\* system mounted deepest above it, and vfs_getcwd hands out a path that leads
\* back, in buffers that are never overrun.
PathsCorrect ==
    /\ [](PathsTypeOK /\ DeepestMountWins /\ GetcwdLeadsBack)
    /\ ResolutionKeepsMeaning
    /\ RoomyPathsAreCanonical
===========================================================================
