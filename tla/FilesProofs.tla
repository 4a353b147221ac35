---------------------------- MODULE FilesProofs ----------------------------
(***************************************************************************)
(* Proofs about open files and descriptors, for every number of tasks,     *)
(* files and descriptors and every counter width FilesAssumption allows;   *)
(* about the process file system over any task table; about the other file *)
(* systems, for every number of devices and programs; and about the shells *)
(* that init keeps, one for each of its terminals.                         *)
(***************************************************************************)
EXTENDS Files, ProcFs, InitProc, FileSystems, TaskTableProofs

\* The window between the two counters of the ring lists the files of S,
\* each exactly once.
RingLists(v, S) ==
    /\ FreeFiles(v) \in 0 .. MAX_FILE_CNT
    /\ \A i, j \in 0 .. FreeFiles(v) - 1 : FreeAt(v, i) = FreeAt(v, j) => i = j
    /\ \A f \in File : (\E i \in 0 .. FreeFiles(v) - 1 : FreeAt(v, i) = f) <=> f \in S

Unheld(tables) == {f \in File : ~ Held(tables, f)}

TableTypes == [Task -> [Fds -> File \cup {NIL}]]

\* What open and close keep, whoever calls them.
FilesInv(v, tables) ==
    /\ v \in PoolType
    /\ tables \in TableTypes
    /\ RingLists(v, Unheld(tables))
    /\ Owned(v, tables)

LEMMA FilesFacts ==
    /\ NIL \notin File /\ NIL \notin Fds
    /\ \A x \in Int : FileRingIndex(x) \in File
    /\ File \subseteq Nat /\ Fds \subseteq Nat
  <1>1. MAX_FILE_CNT \in Nat \ {0} /\ RLIMIT_NOFILE \in Nat /\ NIL \notin Int
    BY FilesAssumption
  <1>2. \A x \in Int : FileRingIndex(x) \in File
    BY <1>1, DivMod DEF FileRingIndex, File
  <1> QED
    BY <1>1, <1>2 DEF File, Fds

\* The two counters of the pool.
LEMMA PoolCounters ==
    ASSUME NEW v \in PoolType
    PROVE  /\ v.free_head \in 0 .. FILE_COUNTER_MOD - 1
           /\ v.free_tail \in 0 .. FILE_COUNTER_MOD - 1
           /\ FreeFiles(v) \in 0 .. FILE_COUNTER_MOD - 1
           /\ FreeFiles(v) = 0 <=> v.free_head = v.free_tail
           /\ v.free_tail = (v.free_head + FreeFiles(v)) % FILE_COUNTER_MOD
           /\ FreeFiles(v) >= 1 =>
                (v.free_tail - ((v.free_head + 1) % FILE_COUNTER_MOD)) % FILE_COUNTER_MOD
                  = FreeFiles(v) - 1
           /\ FreeFiles(v) < FILE_COUNTER_MOD - 1 =>
                (((v.free_tail + 1) % FILE_COUNTER_MOD) - v.free_head) % FILE_COUNTER_MOD
                  = FreeFiles(v) + 1
  <1> DEFINE h == v.free_head
             t == v.free_tail
             m == FILE_COUNTER_MOD
  <1>1. m \in Nat \ {0} /\ h \in 0 .. m - 1 /\ t \in 0 .. m - 1
    BY FilesAssumption DEF PoolType
  <1>2. FreeFiles(v) = (t - h) % m
    BY DEF FreeFiles
  <1> HIDE DEF h, t, m
  <1>3. LET c == (t - h) % m
        IN  /\ c \in 0 .. m - 1
            /\ c = 0 <=> h = t
            /\ t = (h + c) % m
            /\ c >= 1 => (t - ((h + 1) % m)) % m = c - 1
            /\ c < m - 1 => (((t + 1) % m) - h) % m = c + 1
    BY <1>1, CounterPair
  <1> QED
    BY <1>1, <1>2, <1>3 DEF h, t, m

LEMMA FileRingWrap ==
    ASSUME NEW x \in Int, NEW j \in Int
    PROVE  FileRingIndex((x % FILE_COUNTER_MOD) + j) = FileRingIndex(x + j)
  <1>1. /\ MAX_FILE_CNT \in Nat \ {0} /\ FILE_COUNTER_MOD \in Nat \ {0}
        /\ FILE_COUNTER_MOD % MAX_FILE_CNT = 0
    BY FilesAssumption
  <1> QED
    BY <1>1, ModOfMod DEF FileRingIndex

\* vfs_alloc_file takes a file of the ring out of it.
LEMMA TakeFile ==
    ASSUME NEW v \in PoolType, NEW S \in SUBSET File, RingLists(v, S),
           v.free_head # v.free_tail
    PROVE  /\ NextFile(v) \in S
           /\ vfs_alloc_file(v) \in PoolType
           /\ vfs_alloc_file(v).fd = v.fd
           /\ RingLists(vfs_alloc_file(v), S \ {NextFile(v)})
  <1> DEFINE new == vfs_alloc_file(v)
             h == v.free_head
             c == FreeFiles(v)
             n == MAX_FILE_CNT
  <1>1. /\ n \in Nat \ {0} /\ FILE_COUNTER_MOD \in Nat \ {0}
        /\ h \in 0 .. FILE_COUNTER_MOD - 1
        /\ c \in 1 .. n
    BY PoolCounters, FilesAssumption DEF RingLists
  <1>2. (h + 1) % FILE_COUNTER_MOD \in 0 .. FILE_COUNTER_MOD - 1
    <2>1. h + 1 \in Int
      BY <1>1
    <2> QED
      BY <1>1, <2>1, DivMod
  <1>3. new \in PoolType /\ new.free_head = (h + 1) % FILE_COUNTER_MOD
        /\ new.free_tail = v.free_tail /\ new.free_ring = v.free_ring /\ new.fd = v.fd
    BY <1>2 DEF vfs_alloc_file, PoolType
  <1>4. FreeFiles(new) = c - 1
    <2>1. (v.free_tail - ((h + 1) % FILE_COUNTER_MOD)) % FILE_COUNTER_MOD = c - 1
      BY <1>1, PoolCounters
    <2> QED
      BY <1>3, <2>1 DEF FreeFiles
  <1>5. \A i \in 0 .. c - 2 : FreeAt(new, i) = FreeAt(v, i + 1)
    <2> TAKE i \in 0 .. c - 2
    <2>1. h + 1 \in Int /\ i \in Int /\ (h + 1) + i = h + (i + 1)
      BY <1>1
    <2>2. FileRingIndex(((h + 1) % FILE_COUNTER_MOD) + i) = FileRingIndex((h + 1) + i)
      BY <2>1, FileRingWrap
    <2> QED
      BY <1>3, <2>1, <2>2 DEF FreeAt
  <1>6. NextFile(v) = FreeAt(v, 0)
    BY <1>1 DEF NextFile, FreeAt
  <1>7. NextFile(v) \in File
    <2>1. FileRingIndex(h) \in File
      BY <1>1, FilesFacts
    <2> QED
      BY <2>1 DEF NextFile, PoolType
  <1> DEFINE F(i) == FreeAt(v, i)
             G(i) == FreeAt(new, i)
             x == NextFile(v)
  <1>8. /\ \A i, j \in 0 .. c - 1 : F(i) = F(j) => i = j
        /\ \A f \in File : (\E i \in 0 .. c - 1 : F(i) = f) <=> f \in S
    BY DEF RingLists
  <1>9. x = F(0) /\ x \in File /\ \A i \in 0 .. c - 2 : G(i) = F(i + 1)
    BY <1>5, <1>6, <1>7
  <1> HIDE DEF F, G, x, c, n, h, new
  <1>10. 0 \in 0 .. c - 1
    BY <1>1
  <1>11. x \in S
    BY <1>8, <1>9, <1>10
  <1>12. \A i, j \in 0 .. c - 2 : G(i) = G(j) => i = j
    <2> SUFFICES ASSUME NEW i \in 0 .. c - 2, NEW j \in 0 .. c - 2, G(i) = G(j)
                 PROVE  i = j
      OBVIOUS
    <2>1. i + 1 \in 0 .. c - 1 /\ j + 1 \in 0 .. c - 1
      BY <1>1
    <2>2. i + 1 = j + 1
      BY <1>8, <1>9, <2>1
    <2> QED
      BY <2>2
  <1>13. ASSUME NEW f \in File
         PROVE  (\E i \in 0 .. c - 2 : G(i) = f) <=> f \in S \ {x}
    <2>1. ASSUME NEW i \in 0 .. c - 2, G(i) = f PROVE f \in S \ {x}
      <3>1. i + 1 \in 0 .. c - 1 /\ i + 1 # 0
        BY <1>1
      <3> QED
        BY <1>8, <1>9, <1>10, <2>1, <3>1
    <2>2. ASSUME f \in S, f # x PROVE \E i \in 0 .. c - 2 : G(i) = f
      <3>1. PICK k \in 0 .. c - 1 : F(k) = f
        BY <1>8, <2>2
      <3>2. k # 0
        BY <1>9, <2>2, <3>1
      <3>3. k - 1 \in 0 .. c - 2 /\ (k - 1) + 1 = k
        BY <1>1, <3>2
      <3> QED
        BY <1>9, <3>1, <3>3
    <2> QED
      BY <2>1, <2>2
  <1>14. c - 1 \in 0 .. n /\ (c - 1) - 1 = c - 2
    BY <1>1
  <1>15. RingLists(new, S \ {x})
    <2>1. FreeFiles(new) = c - 1
      BY <1>4 DEF c, new
    <2> QED
      BY <1>12, <1>13, <1>14, <2>1 DEF RingLists, G, n
  <1> QED
    BY <1>3, <1>11, <1>15 DEF new, x

\* While a file is outside the ring, the ring is not full: its files are
\* distinct and none of them is that file.
LEMMA FileRingNotFull ==
    ASSUME NEW v \in PoolType, NEW S \in SUBSET File, RingLists(v, S),
           NEW x \in File \ S
    PROVE  FreeFiles(v) < MAX_FILE_CNT
  <1> DEFINE n == MAX_FILE_CNT
             F == [i \in File |-> FreeAt(v, i)]
  <1>1. n \in Nat \ {0} /\ FreeFiles(v) \in 0 .. n /\ v.free_head \in Int
    BY FilesAssumption DEF RingLists, PoolType
  <1>2. SUFFICES ASSUME FreeFiles(v) = n PROVE FALSE
    BY <1>1
  <1>3. \A i \in 0 .. n - 1 : FreeAt(v, i) \in File \ {x}
    <2> TAKE i \in 0 .. n - 1
    <2>1. FileRingIndex(v.free_head + i) \in File
      <3>1. v.free_head + i \in Int
        BY <1>1
      <3> QED
        BY <3>1, FilesFacts
    <2>2. FreeAt(v, i) \in File
      BY <2>1 DEF FreeAt, PoolType
    <2>3. FreeAt(v, i) # x
      BY <1>2 DEF RingLists
    <2> QED
      BY <2>2, <2>3
  <1>4. F \in [File -> File \ {x}]
    BY <1>3 DEF File
  <1>5. IsFiniteSet(File) /\ Cardinality(File) = n
    <2>1. 0 \in Int /\ n - 1 \in Int /\ ~(0 > n - 1) /\ (n - 1) - 0 + 1 = n
      BY <1>1
    <2> QED
      BY <2>1, FS_Interval DEF File
  <1>6. IsFiniteSet(File \ {x}) /\ Cardinality(File \ {x}) = n - 1
    BY <1>5, FS_RemoveElement
  <1>7. n - 1 < n
    BY <1>1
  <1>8. \E i, j \in File : i # j /\ F[i] = F[j]
    <2> HIDE DEF F
    <2> QED
      BY <1>4, <1>5, <1>6, <1>7, FS_PigeonHole
  <1> QED
    BY <1>2, <1>8 DEF RingLists, File

\* vfs_free_file puts a file that is outside the ring into it, and does not
\* panic.
LEMMA GiveFile ==
    ASSUME NEW v \in PoolType, NEW S \in SUBSET File, RingLists(v, S),
           NEW x \in File \ S
    PROVE  /\ ~ vfs_free_file_panics(v)
           /\ vfs_free_file(v, x) \in PoolType
           /\ vfs_free_file(v, x).fd = [v.fd EXCEPT ![x] = -1]
           /\ RingLists(vfs_free_file(v, x), S \cup {x})
  <1> DEFINE new == vfs_free_file(v, x)
             h == v.free_head
             t == v.free_tail
             c == FreeFiles(v)
             n == MAX_FILE_CNT
             m == FILE_COUNTER_MOD
  <1>1. /\ n \in Nat \ {0} /\ m \in Nat \ {0} /\ m >= 2 * n
        /\ h \in 0 .. m - 1 /\ t \in 0 .. m - 1
        /\ c \in 0 .. n - 1
    BY PoolCounters, FileRingNotFull, FilesAssumption DEF RingLists
  <1>2. (t + 1) % m \in 0 .. m - 1
    <2>1. t + 1 \in Int
      BY <1>1
    <2> QED
      BY <1>1, <2>1, DivMod
  <1>3. FileRingIndex(t) \in File
    BY <1>1, FilesFacts
  <1>4. /\ new \in PoolType
        /\ new.free_head = h
        /\ new.free_tail = (t + 1) % m
        /\ new.free_ring = [v.free_ring EXCEPT ![FileRingIndex(t)] = x]
        /\ new.fd = [v.fd EXCEPT ![x] = -1]
    BY <1>2, <1>3 DEF vfs_free_file, PoolType
  <1>5. FreeFiles(new) = c + 1
    <2>1. c < m - 1
      BY <1>1
    <2>2. (((t + 1) % m) - h) % m = c + 1
      BY <2>1, PoolCounters
    <2> QED
      BY <1>4, <2>2 DEF FreeFiles
  <1>6. FileRingIndex(t) = FileRingIndex(h + c)
    <2>1. t = (h + c) % m
      BY PoolCounters
    <2>2. h + c \in Int /\ t + 0 = t /\ (h + c) + 0 = h + c
      BY <1>1
    <2>3. FileRingIndex(((h + c) % m) + 0) = FileRingIndex((h + c) + 0)
      BY <2>2, FileRingWrap
    <2> QED
      BY <2>1, <2>2, <2>3
  <1>7. FreeAt(new, c) = x
    BY <1>3, <1>4, <1>6 DEF FreeAt, PoolType
  <1>8. \A i \in 0 .. c - 1 : FreeAt(new, i) = FreeAt(v, i)
    <2> TAKE i \in 0 .. c - 1
    <2>1. h + i \in Int /\ c - i \in 1 .. n - 1 /\ (h + i) + (c - i) = h + c
      BY <1>1
    <2>2. FileRingIndex(h + c) # FileRingIndex(h + i)
      BY <1>1, <2>1, ModApart DEF FileRingIndex
    <2>3. FileRingIndex(h + i) \in File
      BY <2>1, FilesFacts
    <2> QED
      BY <1>3, <1>4, <1>6, <2>2, <2>3 DEF FreeAt, PoolType
  <1> DEFINE F(i) == FreeAt(v, i)
             G(i) == FreeAt(new, i)
  <1>9. /\ \A i, j \in 0 .. c - 1 : F(i) = F(j) => i = j
        /\ \A f \in File : (\E i \in 0 .. c - 1 : F(i) = f) <=> f \in S
    BY DEF RingLists
  <1>10. G(c) = x /\ \A i \in 0 .. c - 1 : G(i) = F(i)
    BY <1>7, <1>8
  <1>11. \A i \in 0 .. c : i = c \/ i \in 0 .. c - 1
    BY <1>1
  <1>12. ~ vfs_free_file_panics(v)
    BY <1>1 DEF vfs_free_file_panics
  <1> HIDE DEF F, G, c, n, h, t, m, new
  <1>13. \A i, j \in 0 .. c : G(i) = G(j) => i = j
    BY <1>9, <1>10, <1>11
  <1>14. ASSUME NEW f \in File
         PROVE  (\E i \in 0 .. c : G(i) = f) <=> f \in S \cup {x}
    <2>1. c \in 0 .. c /\ \A i \in 0 .. c - 1 : i \in 0 .. c
      BY <1>1
    <2> QED
      BY <1>9, <1>10, <1>11, <2>1
  <1>15. c + 1 \in 0 .. n /\ (c + 1) - 1 = c
    BY <1>1
  <1>16. RingLists(new, S \cup {x})
    <2>1. FreeFiles(new) = c + 1
      BY <1>5 DEF c, new
    <2> QED
      BY <1>13, <1>14, <1>15, <2>1 DEF RingLists, G, n
  <1> QED
    BY <1>4, <1>12, <1>16 DEF new

\* What the file's own descriptor field says has no part in the ring.
LEMMA SetFd ==
    ASSUME NEW v \in PoolType, NEW S, RingLists(v, S), NEW x \in File,
           NEW d \in Fds \cup {0, -1}
    PROVE  /\ [v EXCEPT !.fd[x] = d] \in PoolType
           /\ [v EXCEPT !.fd[x] = d].fd = [v.fd EXCEPT ![x] = d]
           /\ RingLists([v EXCEPT !.fd[x] = d], S)
  <1> DEFINE new == [v EXCEPT !.fd[x] = d]
  <1>1. /\ new \in PoolType
        /\ new.fd = [v.fd EXCEPT ![x] = d]
        /\ new.free_head = v.free_head /\ new.free_tail = v.free_tail
        /\ new.free_ring = v.free_ring
    BY DEF PoolType
  <1> HIDE DEF new
  <1>2. FreeFiles(new) = FreeFiles(v) /\ \A i : FreeAt(new, i) = FreeAt(v, i)
    BY <1>1 DEF FreeFiles, FreeAt
  <1>3. RingLists(new, S)
    BY <1>2 DEF RingLists
  <1> QED
    BY <1>1, <1>3 DEF new

\* files_alloc_fd returns a free descriptor when there is one.
LEMMA AllocFd ==
    ASSUME NEW table \in [Fds -> File \cup {NIL}]
    PROVE  LET fd == files_alloc_fd(table)
           IN  /\ FreeFds(table) = {} => fd = -1
               /\ FreeFds(table) # {} => fd \in Fds /\ table[fd] = NIL /\ ~(fd < 0)
  <1>1. FreeFds(table) \subseteq Nat /\ FreeFds(table) \subseteq Fds
    BY FilesFacts DEF FreeFds
  <1>2. ASSUME FreeFds(table) # {}
        PROVE  \E fd \in FreeFds(table) : \A other \in FreeFds(table) : fd <= other
    <2>1. PICK fd \in FreeFds(table) : \A other \in FreeFds(table) : ~(other < fd)
      BY <1>1, <1>2, LeastNat
    <2> QED
      BY <1>1, <2>1
  <1>3. ASSUME FreeFds(table) # {} PROVE files_alloc_fd(table) \in FreeFds(table)
    BY <1>2, <1>3 DEF files_alloc_fd
  <1>4. FreeFds(table) = {} => files_alloc_fd(table) = -1
    BY DEF files_alloc_fd
  <1> QED
    BY <1>1, <1>3, <1>4 DEF FreeFds

---------------------------------------------------------------------------
(* open and close.                                                         *)

Snapshot == [vfs : PoolType, files : TableTypes]

\* The tables after descriptor fd of task t is set to x.
Put(tables, t, fd, x) == [tables EXCEPT ![t][fd] = x]

\* vfs_open keeps the pool exact whichever way it ends, and touches no
\* descriptor but the free one it picks for its own task.
LEMMA OpenKeeps ==
    ASSUME NEW s \in Snapshot, FilesInv(s.vfs, s.files), NEW t \in Task,
           NEW ok \in BOOLEAN
    PROVE  LET r  == vfs_open(s, t, ok)
               fd == files_alloc_fd(s.files[t])
           IN  /\ r \in Snapshot
               /\ FilesInv(r.vfs, r.files)
               /\ \/ r.files = s.files
                  \/ /\ fd \in Fds /\ s.files[t][fd] = NIL
                     /\ \E f \in File : r.files = Put(s.files, t, fd, f)
  <1> DEFINE f     == NextFile(s.vfs)
             taken == vfs_alloc_file(s.vfs)
             fd    == files_alloc_fd(s.files[t])
             S     == Unheld(s.files)
             r     == vfs_open(s, t, ok)
  <1>1. /\ s.vfs \in PoolType /\ s.files \in TableTypes /\ S \in SUBSET File
        /\ RingLists(s.vfs, S) /\ Owned(s.vfs, s.files)
    BY DEF Snapshot, FilesInv, Unheld
  <1>2. s.files[t] \in [Fds -> File \cup {NIL}]
    BY <1>1 DEF TableTypes
  <1>3. \/ fd = -1
        \/ fd \in Fds /\ s.files[t][fd] = NIL /\ ~(fd < 0)
    BY <1>2, AllocFd
  <1>4. CASE s.vfs.free_head = s.vfs.free_tail
    <2>1. r = s
      BY <1>4 DEF vfs_open
    <2> QED
      BY <2>1
  <1>5. CASE s.vfs.free_head # s.vfs.free_tail
    <2>1. /\ f \in S /\ taken \in PoolType /\ taken.fd = s.vfs.fd
          /\ RingLists(taken, S \ {f})
      BY <1>1, <1>5, TakeFile
    <2>2. f \in File /\ f \in File \ (S \ {f}) /\ S \ {f} \in SUBSET File
          /\ (S \ {f}) \cup {f} = S /\ ~ Held(s.files, f) /\ f # NIL
      BY <2>1, FilesFacts DEF Unheld
    <2> HIDE DEF f, taken, S, fd
    \* f is nobody's, so what f says of its descriptor concerns nobody.
    <2>3. ASSUME NEW v, v \in PoolType, NEW d, v.fd = [s.vfs.fd EXCEPT ![f] = d]
          PROVE  Owned(v, s.files)
      <3> SUFFICES ASSUME NEW a \in Task, NEW b \in Task, NEW i \in Fds, NEW j \in Fds,
                          s.files[a][i] # NIL
                   PROVE  /\ v.fd[s.files[a][i]] = i
                          /\ s.files[a][i] = s.files[b][j] => a = b /\ i = j
        BY DEF Owned
      <3>1. s.files[a][i] \in File /\ s.files[a][i] # f
        BY <1>1, <2>2 DEF TableTypes, Held
      <3>2. v.fd[s.files[a][i]] = s.vfs.fd[s.files[a][i]]
        BY <1>1, <2>3, <3>1 DEF PoolType
      <3> QED
        BY <1>1, <3>2 DEF Owned
    <2>4. CASE fd = -1
      <3>1. r = [s EXCEPT !.vfs = vfs_free_file(taken, f)]
        BY <1>5, <2>4 DEF vfs_open, f, taken, fd
      <3>2. /\ vfs_free_file(taken, f) \in PoolType
            /\ vfs_free_file(taken, f).fd = [taken.fd EXCEPT ![f] = -1]
            /\ RingLists(vfs_free_file(taken, f), S)
        <4>1. RingLists(vfs_free_file(taken, f), (S \ {f}) \cup {f})
          BY <2>1, <2>2, GiveFile
        <4> QED
          BY <2>1, <2>2, <4>1, GiveFile
      <3>3. r.vfs = vfs_free_file(taken, f) /\ r.files = s.files /\ r \in Snapshot
        BY <1>1, <3>1, <3>2 DEF Snapshot
      <3>4. Owned(r.vfs, s.files)
        BY <2>1, <2>3, <3>2, <3>3
      <3> QED
        BY <1>1, <3>2, <3>3, <3>4 DEF FilesInv, S
    <2>5. CASE fd \in Fds /\ s.files[t][fd] = NIL /\ ~(fd < 0) /\ ~ok
      <3> DEFINE w == [taken EXCEPT !.fd[f] = fd]
      <3>1. r = [s EXCEPT !.vfs = vfs_free_file(w, f)]
        BY <1>5, <2>5 DEF vfs_open, f, taken, fd
      <3>2. /\ w \in PoolType /\ w.fd = [taken.fd EXCEPT ![f] = fd]
            /\ RingLists(w, S \ {f})
        BY <2>1, <2>2, <2>5, SetFd
      <3> HIDE DEF w
      <3>3. /\ vfs_free_file(w, f) \in PoolType
            /\ vfs_free_file(w, f).fd = [w.fd EXCEPT ![f] = -1]
            /\ RingLists(vfs_free_file(w, f), S)
        <4>1. RingLists(vfs_free_file(w, f), (S \ {f}) \cup {f})
          BY <2>2, <3>2, GiveFile
        <4> QED
          BY <2>2, <3>2, <4>1, GiveFile
      <3>4. r.vfs = vfs_free_file(w, f) /\ r.files = s.files /\ r \in Snapshot
        BY <1>1, <3>1, <3>3 DEF Snapshot
      <3>5. r.vfs.fd = [s.vfs.fd EXCEPT ![f] = -1]
        BY <1>1, <2>1, <2>2, <3>2, <3>3, <3>4 DEF PoolType
      <3>6. Owned(r.vfs, s.files)
        BY <2>3, <3>3, <3>4, <3>5
      <3> QED
        BY <1>1, <3>3, <3>4, <3>6 DEF FilesInv, S
    <2>6. CASE fd \in Fds /\ s.files[t][fd] = NIL /\ ~(fd < 0) /\ ok
      <3> DEFINE w == [taken EXCEPT !.fd[f] = fd]
                 T == Put(s.files, t, fd, f)
      <3>1. r = [s EXCEPT !.vfs = w, !.files[t][fd] = f]
        BY <1>5, <2>6 DEF vfs_open, f, taken, fd
      <3>2. /\ w \in PoolType /\ w.fd = [taken.fd EXCEPT ![f] = fd]
            /\ RingLists(w, S \ {f})
        BY <2>1, <2>2, <2>6, SetFd
      <3>3. r.vfs = w /\ r.files = T
        BY <1>1, <3>1 DEF Snapshot, Put
      <3>4. T \in TableTypes
        BY <1>1, <2>2, <2>6 DEF TableTypes, Put
      <3>5. r \in Snapshot
        BY <1>1, <3>1, <3>2, <3>4 DEF Snapshot, Put
      <3>6. \A a \in Task, i \in Fds :
              T[a][i] = IF a = t /\ i = fd THEN f ELSE s.files[a][i]
        BY <1>1, <2>6 DEF TableTypes, Put
      <3> HIDE DEF w, T
      <3>7. Unheld(T) = S \ {f}
        BY <2>6, <2>2, <3>6, FilesFacts DEF Unheld, Held, S
      <3>8. Owned(w, T)
        <4> SUFFICES ASSUME NEW a \in Task, NEW b \in Task, NEW i \in Fds, NEW j \in Fds,
                            T[a][i] # NIL
                     PROVE  /\ w.fd[T[a][i]] = i
                            /\ T[a][i] = T[b][j] => a = b /\ i = j
          BY DEF Owned
        <4>1. Owned(w, s.files)
          BY <2>1, <2>3, <3>2
        <4>2. s.files[a][i] # f /\ s.files[b][j] # f
          BY <2>2 DEF Held
        <4>3. w.fd[f] = fd
          BY <1>1, <2>1, <2>2, <3>2 DEF PoolType
        <4> QED
          BY <3>6, <4>1, <4>2, <4>3 DEF Owned
      <3>9. FilesInv(r.vfs, r.files)
        BY <3>2, <3>3, <3>4, <3>7, <3>8 DEF FilesInv
      <3> QED
        BY <2>2, <2>6, <3>3, <3>5, <3>9 DEF T, fd
    <2> QED
      BY <1>3, <2>4, <2>5, <2>6 DEF fd
  <1> QED
    BY <1>4, <1>5

\* vfs_close empties the descriptor and gives its file back.
LEMMA CloseKeeps ==
    ASSUME NEW s \in Snapshot, FilesInv(s.vfs, s.files), NEW t \in Task,
           NEW fd \in Fds
    PROVE  LET r == vfs_close(s, t, fd)
           IN  /\ r \in Snapshot
               /\ FilesInv(r.vfs, r.files)
               /\ r.files = Put(s.files, t, fd, NIL)
  <1> DEFINE r == vfs_close(s, t, fd)
             f == s.files[t][fd]
             S == Unheld(s.files)
             T == Put(s.files, t, fd, NIL)
  <1>1. /\ s.vfs \in PoolType /\ s.files \in TableTypes /\ S \in SUBSET File
        /\ RingLists(s.vfs, S) /\ Owned(s.vfs, s.files)
    BY DEF Snapshot, FilesInv, Unheld
  <1>2. CASE f = NIL
    <2>1. r = s
      BY <1>2 DEF vfs_close
    <2>2. T = s.files
      BY <1>1, <1>2 DEF TableTypes, Put
    <2> QED
      BY <2>1, <2>2
  <1>3. CASE f # NIL
    <2>1. f \in File \ S /\ f \in File
      BY <1>1, <1>3 DEF TableTypes, Unheld, Held
    <2>2. r = [s EXCEPT !.vfs = vfs_free_file(s.vfs, f), !.files[t][fd] = NIL]
      BY <1>3 DEF vfs_close
    <2>3. /\ vfs_free_file(s.vfs, f) \in PoolType
          /\ vfs_free_file(s.vfs, f).fd = [s.vfs.fd EXCEPT ![f] = -1]
          /\ RingLists(vfs_free_file(s.vfs, f), S \cup {f})
      BY <1>1, <2>1, GiveFile
    <2>4. T \in TableTypes
      BY <1>1 DEF TableTypes, Put
    <2>5. r \in Snapshot /\ r.vfs = vfs_free_file(s.vfs, f) /\ r.files = T
      BY <1>1, <2>2, <2>3, <2>4 DEF Snapshot, Put
    <2>6. \A a \in Task, i \in Fds :
            T[a][i] = IF a = t /\ i = fd THEN NIL ELSE s.files[a][i]
      BY <1>1 DEF TableTypes, Put
    <2>7. \A a \in Task, i \in Fds : s.files[a][i] = f => a = t /\ i = fd
      BY <1>1, <1>3 DEF Owned
    <2> HIDE DEF T, f
    <2>8. Unheld(T) = S \cup {f}
      <3>1. \A g \in File : Held(T, g) <=> Held(s.files, g) /\ g # f
        BY <2>6, <2>7, FilesFacts DEF Held, f
      <3> QED
        BY <2>1, <3>1 DEF Unheld
    <2>9. Owned(r.vfs, T)
      <3> SUFFICES ASSUME NEW a \in Task, NEW b \in Task, NEW i \in Fds, NEW j \in Fds,
                          T[a][i] # NIL
                   PROVE  /\ r.vfs.fd[T[a][i]] = i
                          /\ T[a][i] = T[b][j] => a = b /\ i = j
        BY DEF Owned
      <3>1. T[a][i] = s.files[a][i] /\ T[a][i] # f /\ T[a][i] \in File
        BY <1>1, <2>6, <2>7 DEF TableTypes
      <3>2. r.vfs.fd[T[a][i]] = s.vfs.fd[T[a][i]]
        BY <1>1, <2>3, <2>5, <3>1 DEF PoolType
      <3> QED
        BY <1>1, <2>6, <3>1, <3>2 DEF Owned
    <2> QED
      BY <2>3, <2>4, <2>5, <2>8, <2>9 DEF FilesInv, T
  <1> QED
    BY <1>2, <1>3

\* Neither touches the table of another task.
LEMMA OthersKeep ==
    ASSUME NEW s \in Snapshot, FilesInv(s.vfs, s.files), NEW t \in Task
    PROVE  /\ \A ok \in BOOLEAN :
                LET r == vfs_open(s, t, ok)
                IN  /\ r \in Snapshot /\ FilesInv(r.vfs, r.files)
                    /\ \A u \in Task : u # t => r.files[u] = s.files[u]
                    /\ r.files # s.files => files_alloc_fd(s.files[t]) \in Fds
           /\ \A fd \in Fds :
                LET r == vfs_close(s, t, fd)
                IN  /\ r \in Snapshot /\ FilesInv(r.vfs, r.files)
                    /\ \A u \in Task : u # t => r.files[u] = s.files[u]
  <1>1. s.files \in TableTypes
    BY DEF Snapshot
  <1>2. ASSUME NEW fd, NEW x
        PROVE  \A u \in Task : u # t => Put(s.files, t, fd, x)[u] = s.files[u]
    BY <1>1 DEF TableTypes, Put
  <1>3. ASSUME NEW ok \in BOOLEAN
        PROVE  LET r == vfs_open(s, t, ok)
               IN  /\ r \in Snapshot /\ FilesInv(r.vfs, r.files)
                   /\ \A u \in Task : u # t => r.files[u] = s.files[u]
                   /\ r.files # s.files => files_alloc_fd(s.files[t]) \in Fds
    <2> DEFINE r  == vfs_open(s, t, ok)
               fd == files_alloc_fd(s.files[t])
    <2>1. /\ r \in Snapshot /\ FilesInv(r.vfs, r.files)
          /\ \/ r.files = s.files
             \/ /\ fd \in Fds
                /\ \E f \in File : r.files = Put(s.files, t, fd, f)
      BY OpenKeeps
    <2> HIDE DEF r, fd
    <2>2. CASE r.files = s.files
      BY <2>1, <2>2 DEF r
    <2>3. CASE \E f \in File : r.files = Put(s.files, t, fd, f)
      <3>1. \A u \in Task : u # t => r.files[u] = s.files[u]
        BY <1>2, <2>3
      <3> QED
        BY <2>1, <3>1 DEF r, fd
    <2> QED
      BY <2>1, <2>2, <2>3
  <1>4. ASSUME NEW fd \in Fds
        PROVE  LET r == vfs_close(s, t, fd)
               IN  /\ r \in Snapshot /\ FilesInv(r.vfs, r.files)
                   /\ \A u \in Task : u # t => r.files[u] = s.files[u]
    <2> DEFINE r == vfs_close(s, t, fd)
    <2>1. /\ r \in Snapshot /\ FilesInv(r.vfs, r.files)
          /\ r.files = Put(s.files, t, fd, NIL)
      BY CloseKeeps
    <2> HIDE DEF r
    <2>2. \A u \in Task : u # t => r.files[u] = s.files[u]
      BY <1>2, <2>1
    <2> QED
      BY <2>1, <2>2 DEF r
  <1> QED
    BY <1>3, <1>4

---------------------------------------------------------------------------
(* The specification.                                                      *)

\* A reader is alive and still holds the file it reads.
ReadersHold ==
    \A t \in Task : reading[t] # NIL =>
        life[t] = "alive" /\ \E fd \in Fds : files[t][fd] = reading[t]

\* The task inside sched_exit reads nothing any more, and the descriptors
\* the loop has passed are empty.
ExitPassed ==
    exiting # NIL =>
        /\ life[exiting.task] = "alive" /\ reading[exiting.task] = NIL
        /\ \A fd \in Fds : fd < exiting.fd => files[exiting.task][fd] = NIL

LifeTypes ==
    /\ life \in [Task -> {"pooled", "alive", "zombie"}]
    /\ reading \in [Task -> File \cup {NIL}]
    /\ exiting \in [task : Task, fd : 0 .. RLIMIT_NOFILE] \cup {NIL}

\* The inductive invariant.
FilesIInv ==
    /\ LifeTypes
    /\ FilesInv(vfs, files)
    /\ DeadHoldNothing
    /\ ReadersHold
    /\ ExitPassed

LEMMA FilesInitial == FilesInit => FilesIInv
  <1> SUFFICES ASSUME FilesInit PROVE FilesIInv
    OBVIOUS
  <1> DEFINE n == MAX_FILE_CNT
             m == FILE_COUNTER_MOD
  <1>1. /\ n \in Nat \ {0} /\ m \in Nat /\ m >= 2 * n /\ RLIMIT_NOFILE \in Nat
        /\ NIL \notin File
    BY FilesAssumption, FilesFacts
  <1>2. LifeTypes /\ DeadHoldNothing /\ ReadersHold /\ ExitPassed
    BY DEF FilesInit, LifeTypes, DeadHoldNothing, ReadersHold, ExitPassed
  <1>3. \A x \in Nat : x < m => x % m = x
    <2> TAKE x \in Nat
    <2>1. SUFFICES ASSUME x < m PROVE x % m = x
      OBVIOUS
    <2>2. m \in Nat \ {0} /\ x \in 0 .. m - 1 /\ 0 \in Int
      BY <1>1, <2>1
    <2>3. (m * 0 + x) % m = x
      BY <2>2, ModUnique
    <2> QED
      BY <2>2, <2>3
  <1>4. \A x \in File : FileRingIndex(x) = x
    <2> TAKE x \in File
    <2>1. x \in 0 .. n - 1 /\ 0 \in Int
      BY DEF File
    <2>2. (n * 0 + x) % n = x
      BY <1>1, <2>1, ModUnique
    <2> QED
      BY <1>1, <2>1, <2>2 DEF FileRingIndex
  <1>5. /\ vfs.free_head = 0 /\ vfs.free_tail = n
        /\ vfs.free_ring = [i \in File |-> i] /\ vfs.fd = [f \in File |-> 0]
    BY DEF FilesInit, vfs_init
  <1>6. vfs \in PoolType
    <2>1. vfs_init \in PoolType
      BY <1>1 DEF vfs_init, PoolType
    <2> QED
      BY <2>1 DEF FilesInit
  <1>7. FreeFiles(vfs) = n
    <2>1. n < m /\ n \in Nat /\ n - 0 = n
      BY <1>1
    <2> QED
      BY <1>3, <1>5, <2>1 DEF FreeFiles
  <1>8. \A i \in 0 .. n - 1 : FreeAt(vfs, i) = i
    BY <1>4, <1>5 DEF FreeAt, File
  <1>9. files \in TableTypes /\ \A f \in File : ~ Held(files, f)
    BY <1>1 DEF FilesInit, TableTypes, Held
  <1>10. RingLists(vfs, Unheld(files))
    BY <1>1, <1>7, <1>8, <1>9 DEF RingLists, Unheld, File
  <1>11. Owned(vfs, files)
    BY DEF FilesInit, Owned
  <1> QED
    BY <1>2, <1>6, <1>9, <1>10, <1>11 DEF FilesIInv, FilesInv

\* The state, as the operators on it take it.
LEMMA NowIsSnapshot ==
    ASSUME FilesIInv
    PROVE  /\ Now \in Snapshot /\ Now.vfs = vfs /\ Now.files = files
           /\ FilesInv(Now.vfs, Now.files)
  BY DEF FilesIInv, FilesInv, Now, Snapshot

\* A call of a live task that changes nothing but the pool and its own
\* table, and keeps the descriptors the table had.
LEMMA CallKeeps ==
    ASSUME FilesIInv, NEW t \in Task, MakesCall(t),
           FilesInv(vfs', files'),
           \A u \in Task : u # t => files'[u] = files[u],
           UNCHANGED <<life, reading, exiting>>
    PROVE  FilesIInv'
  <1>1. LifeTypes'
    BY DEF FilesIInv, LifeTypes
  <1>2. DeadHoldNothing'
    BY DEF FilesIInv, DeadHoldNothing, MakesCall
  <1>3. ReadersHold'
    BY DEF FilesIInv, ReadersHold, MakesCall
  <1>4. ExitPassed'
    BY DEF ExitPassed, MakesCall
  <1> QED
    BY <1>1, <1>2, <1>3, <1>4 DEF FilesIInv

LEMMA FilesStep ==
    ASSUME FilesIInv, [FilesNext]_filesVars
    PROVE  FilesIInv'
  <1>types. /\ files \in TableTypes /\ LifeTypes /\ DeadHoldNothing /\ ReadersHold
            /\ ExitPassed /\ FilesInv(vfs, files)
            /\ Now \in Snapshot /\ FilesInv(Now.vfs, Now.files) /\ Now.files = files
    BY NowIsSnapshot DEF FilesIInv, FilesInv
  <1>1. ASSUME NEW t \in Task, NEW ok \in BOOLEAN, FileOpen(t, ok) PROVE FilesIInv'
    <2> DEFINE r == vfs_open(Now, t, ok)
    <2>1. /\ FilesInv(r.vfs, r.files)
          /\ \A u \in Task : u # t => r.files[u] = files[u]
      BY <1>types, OthersKeep
    <2>2. vfs' = r.vfs /\ files' = r.files
      BY <1>1 DEF FileOpen, Becomes
    <2> QED
      BY <1>1, <2>1, <2>2, CallKeeps DEF FileOpen
  <1>2. ASSUME NEW t \in Task, NEW ok \in BOOLEAN, FileChdir(t, ok) PROVE FilesIInv'
    <2> DEFINE opened == vfs_open(Now, t, ok)
               fd == files_alloc_fd(files[t])
               r == vfs_close(opened, t, fd)
    <2>1. /\ opened \in Snapshot /\ FilesInv(opened.vfs, opened.files)
          /\ \A u \in Task : u # t => opened.files[u] = files[u]
          /\ opened.files # files => fd \in Fds
      BY <1>types, OthersKeep
    <2> HIDE DEF opened, fd
    <2>2. opened.files # files =>
            /\ FilesInv(r.vfs, r.files)
            /\ \A u \in Task : u # t => r.files[u] = files[u]
      BY <2>1, OthersKeep
    <2>3. \/ opened.files = files /\ vfs' = opened.vfs /\ files' = opened.files
          \/ opened.files # files /\ vfs' = r.vfs /\ files' = r.files
      BY <1>2 DEF FileChdir, Becomes, opened, fd
    <2>4. FilesInv(vfs', files') /\ \A u \in Task : u # t => files'[u] = files[u]
      BY <2>1, <2>2, <2>3
    <2> QED
      BY <1>2, <2>4, CallKeeps DEF FileChdir
  <1>3. ASSUME NEW t \in Task, NEW fd \in Fds, FileClose(t, fd) PROVE FilesIInv'
    <2> DEFINE r == vfs_close(Now, t, fd)
    <2>1. /\ FilesInv(r.vfs, r.files)
          /\ \A u \in Task : u # t => r.files[u] = files[u]
      BY <1>types, OthersKeep
    <2>2. vfs' = r.vfs /\ files' = r.files
      BY <1>3 DEF FileClose, Becomes
    <2> QED
      BY <1>3, <2>1, <2>2, CallKeeps DEF FileClose
  <1>4. ASSUME NEW t \in Task, NEW fd \in Fds, ReadBlocks(t, fd) PROVE FilesIInv'
    <2>1. FilesInv(vfs, files)' /\ DeadHoldNothing'
      BY <1>4, <1>types DEF ReadBlocks, DeadHoldNothing
    <2>2. LifeTypes'
      BY <1>4, <1>types DEF ReadBlocks, LifeTypes, TableTypes
    <2>3. ReadersHold'
      BY <1>4, <1>types DEF ReadBlocks, ReadersHold, LifeTypes, MakesCall
    <2>4. ExitPassed'
      BY <1>4 DEF ReadBlocks, ExitPassed, MakesCall
    <2> QED
      BY <2>1, <2>2, <2>3, <2>4 DEF FilesIInv
  <1>5. ASSUME NEW t \in Task, ReadReturns(t) PROVE FilesIInv'
    <2>1. FilesInv(vfs, files)' /\ DeadHoldNothing'
      BY <1>5, <1>types DEF ReadReturns, DeadHoldNothing
    <2>2. LifeTypes'
      BY <1>5, <1>types DEF ReadReturns, LifeTypes
    <2>3. ReadersHold'
      BY <1>5, <1>types DEF ReadReturns, ReadersHold, LifeTypes
    <2>4. ExitPassed'
      BY <1>5 DEF ReadReturns, ExitPassed
    <2> QED
      BY <2>1, <2>2, <2>3, <2>4 DEF FilesIInv
  <1>6. ASSUME NEW t \in Task, Execve(t) PROVE FilesIInv'
    <2> DEFINE r1 == vfs_open(Now, t, TRUE)
               r2 == vfs_open(r1, t, TRUE)
               r3 == vfs_open(r2, t, TRUE)
    <2>1. /\ r1 \in Snapshot /\ FilesInv(r1.vfs, r1.files)
          /\ \A u \in Task : u # t => r1.files[u] = files[u]
      BY <1>types, OthersKeep
    <2> HIDE DEF r1
    <2>2. /\ r2 \in Snapshot /\ FilesInv(r2.vfs, r2.files)
          /\ \A u \in Task : u # t => r2.files[u] = files[u]
      BY <2>1, OthersKeep
    <2> HIDE DEF r2
    <2>3. /\ FilesInv(r3.vfs, r3.files)
          /\ \A u \in Task : u # t => r3.files[u] = files[u]
      BY <2>2, OthersKeep
    <2>4. vfs' = r3.vfs /\ files' = r3.files
      BY <1>6 DEF Execve, Becomes, r1, r2
    <2> QED
      BY <1>6, <2>3, <2>4, CallKeeps DEF Execve
  <1>7. ASSUME NEW t \in Task, FileExit(t) PROVE FilesIInv'
    <2>1. FilesInv(vfs, files)' /\ DeadHoldNothing'
      BY <1>7, <1>types DEF FileExit, DeadHoldNothing
    <2>2. LifeTypes'
      <3>1. 0 \in 0 .. RLIMIT_NOFILE
        BY FilesAssumption
      <3> QED
        BY <1>7, <1>types, <3>1 DEF FileExit, LifeTypes
    <2>3. ReadersHold'
      BY <1>7, <1>types DEF FileExit, ReadersHold, LifeTypes
    <2>4. ExitPassed'
      <3>1. \A fd \in Fds : ~(fd < 0)
        BY FilesFacts
      <3> QED
        BY <1>7, <1>types, <3>1 DEF FileExit, ExitPassed, LifeTypes
    <2> QED
      BY <2>1, <2>2, <2>3, <2>4 DEF FilesIInv
  <1>8. ASSUME NEW t \in Task, FileReap(t) PROVE FilesIInv'
    <2>1. FilesInv(vfs, files)' /\ LifeTypes' /\ exiting' = NIL
      BY <1>8, <1>types DEF FileReap, LifeTypes, MakesCall
    <2>2. DeadHoldNothing'
      BY <1>8, <1>types DEF FileReap, DeadHoldNothing, LifeTypes
    <2>3. ReadersHold'
      BY <1>8, <1>types DEF FileReap, ReadersHold, LifeTypes
    <2>4. ExitPassed'
      BY <2>1 DEF ExitPassed
    <2> QED
      BY <2>1, <2>2, <2>3, <2>4 DEF FilesIInv
  <1>9. ASSUME NEW t \in Task, NEW child \in Task, FileFork(t, child) PROVE FilesIInv'
    <2>1. FilesInv(vfs, files)' /\ LifeTypes' /\ exiting' = NIL
      BY <1>9, <1>types DEF FileFork, LifeTypes, MakesCall
    <2>2. DeadHoldNothing'
      BY <1>9, <1>types DEF FileFork, DeadHoldNothing, LifeTypes
    <2>3. ReadersHold'
      BY <1>9, <1>types DEF FileFork, ReadersHold, LifeTypes
    <2>4. ExitPassed'
      BY <2>1 DEF ExitPassed
    <2> QED
      BY <2>1, <2>2, <2>3, <2>4 DEF FilesIInv
  <1>10. ASSUME ExitCloses PROVE FilesIInv'
    <2> DEFINE u == exiting.task
               d == exiting.fd
    <2>1. /\ exiting \in [task : Task, fd : 0 .. RLIMIT_NOFILE] /\ exiting # NIL
          /\ u \in Task /\ d \in 0 .. RLIMIT_NOFILE /\ RLIMIT_NOFILE \in Nat
          /\ reading[u] = NIL /\ life[u] = "alive"
      BY <1>10, <1>types, FilesAssumption DEF ExitCloses, LifeTypes, ExitPassed
    <2>2. CASE d < RLIMIT_NOFILE
      <3> DEFINE r == vfs_close(Now, u, d)
      <3>1. d \in Fds /\ d + 1 \in 0 .. RLIMIT_NOFILE
        BY <2>1, <2>2 DEF Fds
      <3>2. FilesInv(r.vfs, r.files) /\ r.files = Put(files, u, d, NIL)
        BY <1>types, <2>1, <3>1, CloseKeeps
      <3>3. /\ vfs' = r.vfs /\ files' = Put(files, u, d, NIL) /\ life' = life
            /\ reading' = reading /\ exiting' = [exiting EXCEPT !.fd = d + 1]
        BY <1>10, <2>2, <3>2 DEF ExitCloses, Becomes
      <3>4. FilesInv(vfs', files')
        BY <3>2, <3>3
      <3>5. exiting' \in [task : Task, fd : 0 .. RLIMIT_NOFILE]
            /\ exiting'.task = u /\ exiting'.fd = d + 1
        BY <2>1, <3>1, <3>3
      <3>6. LifeTypes'
        BY <1>types, <3>3, <3>5 DEF LifeTypes
      <3>7. \A a \in Task, i \in Fds :
              files'[a][i] = IF a = u /\ i = d THEN NIL ELSE files[a][i]
        BY <1>types, <2>1, <3>1, <3>3 DEF TableTypes, Put
      <3>8. DeadHoldNothing'
        BY <1>types, <3>3, <3>7 DEF DeadHoldNothing
      <3>9. ReadersHold'
        BY <1>types, <2>1, <3>3, <3>7 DEF ReadersHold
      <3>10. ExitPassed'
        <4> SUFFICES ASSUME NEW i \in Fds, i < d + 1 PROVE files'[u][i] = NIL
          BY <2>1, <3>3, <3>5 DEF ExitPassed
        <4>1. i < d \/ i = d
          BY <2>1 DEF Fds
        <4> QED
          BY <1>types, <2>1, <3>7, <4>1 DEF ExitPassed
      <3> QED
        BY <3>4, <3>6, <3>8, <3>9, <3>10 DEF FilesIInv
    <2>3. CASE ~(d < RLIMIT_NOFILE)
      <3>1. /\ life' = [life EXCEPT ![u] = "zombie"] /\ exiting' = NIL
            /\ UNCHANGED <<vfs, files, reading>>
        BY <1>10, <2>3 DEF ExitCloses
      <3>2. \A i \in Fds : files[u][i] = NIL
        <4> TAKE i \in Fds
        <4>1. i < d
          BY <2>1, <2>3 DEF Fds
        <4> QED
          BY <1>types, <2>1, <4>1 DEF ExitPassed
      <3>3. FilesInv(vfs, files)' /\ LifeTypes'
        BY <1>types, <3>1 DEF LifeTypes
      <3>4. DeadHoldNothing'
        BY <1>types, <3>1, <3>2 DEF DeadHoldNothing, LifeTypes
      <3>5. ReadersHold'
        BY <1>types, <2>1, <3>1 DEF ReadersHold, LifeTypes
      <3>6. ExitPassed'
        BY <3>1 DEF ExitPassed
      <3> QED
        BY <3>3, <3>4, <3>5, <3>6 DEF FilesIInv
    <2> QED
      BY <2>2, <2>3
  <1>11. CASE UNCHANGED filesVars
    BY <1>11, <1>types DEF filesVars, FilesIInv, LifeTypes, DeadHoldNothing, ReadersHold, ExitPassed
  <1> QED
    BY <1>1, <1>2, <1>3, <1>4, <1>5, <1>6, <1>7, <1>8, <1>9, <1>10, <1>11 DEF FilesNext

\* A task with a free descriptor finds a free file when the pool has
\* RLIMIT_NOFILE files for every task: otherwise every file would be behind
\* a descriptor, and there are fewer of those left than files.
LEMMA FreeFileLeft ==
    ASSUME FilesInv(vfs, files), Cardinality(Task) * RLIMIT_NOFILE <= MAX_FILE_CNT,
           NEW t \in Task, FreeFds(files[t]) # {}
    PROVE  vfs.free_head # vfs.free_tail
  <1> SUFFICES ASSUME vfs.free_head = vfs.free_tail PROVE FALSE
    OBVIOUS
  <1> DEFINE Pairs == Task \X Fds
  <1>1. MAX_FILE_CNT \in Nat \ {0} /\ RLIMIT_NOFILE \in Nat /\ IsFiniteSet(Task)
    BY FilesAssumption
  <1>2. vfs \in PoolType /\ files \in TableTypes /\ RingLists(vfs, Unheld(files))
    BY DEF FilesInv
  <1>3. PICK e \in Fds : files[t][e] = NIL
    BY DEF FreeFds
  <1>4. \A f \in File : Held(files, f)
    <2>1. FreeFiles(vfs) = 0
      BY <1>2, PoolCounters
    <2> QED
      BY <1>2, <2>1 DEF RingLists, Unheld
  <1>5. IsFiniteSet(File) /\ Cardinality(File) = MAX_FILE_CNT
    <2>1. 0 \in Int /\ MAX_FILE_CNT - 1 \in Int /\ ~(0 > MAX_FILE_CNT - 1)
          /\ (MAX_FILE_CNT - 1) - 0 + 1 = MAX_FILE_CNT
      BY <1>1
    <2> QED
      BY <2>1, FS_Interval DEF File
  <1>6. IsFiniteSet(Fds) /\ Cardinality(Fds) = RLIMIT_NOFILE
    <2>1. 0 \in Int /\ RLIMIT_NOFILE - 1 \in Int
          /\ (0 > RLIMIT_NOFILE - 1 => RLIMIT_NOFILE = 0)
          /\ (RLIMIT_NOFILE - 1) - 0 + 1 = RLIMIT_NOFILE
      BY <1>1
    <2> QED
      BY <2>1, FS_Interval DEF Fds
  <1>7. IsFiniteSet(Pairs) /\ Cardinality(Pairs) = Cardinality(Task) * RLIMIT_NOFILE
        /\ Cardinality(Pairs) \in Nat
    BY <1>1, <1>6, FS_Product, FS_CardinalityType
  <1>8. <<t, e>> \in Pairs
    BY <1>3
  <1>9. /\ IsFiniteSet(Pairs \ {<<t, e>>})
        /\ Cardinality(Pairs \ {<<t, e>>}) = Cardinality(Pairs) - 1
    BY <1>7, <1>8, FS_RemoveElement
  <1> DEFINE D == {p \in Pairs : files[p[1]][p[2]] # NIL}
             F == [p \in D |-> files[p[1]][p[2]]]
  <1>10. D \in SUBSET (Pairs \ {<<t, e>>})
    BY <1>3
  <1>11. IsFiniteSet(D) /\ Cardinality(D) <= Cardinality(Pairs) - 1 /\ Cardinality(D) \in Nat
    <2> HIDE DEF D, Pairs
    <2> QED
      BY <1>9, <1>10, FS_Subset, FS_CardinalityType
  <1>12. F \in Surjection(D, File)
    <2>1. F \in [D -> File]
      BY <1>2 DEF TableTypes
    <2>2. ASSUME NEW f \in File PROVE \E p \in D : F[p] = f
      <3>1. PICK u \in Task, d \in Fds : files[u][d] = f
        BY <1>4 DEF Held
      <3>2. <<u, d>> \in D
        BY <3>1, FilesFacts
      <3>3. F[<<u, d>>] = f
        BY <3>1, <3>2
      <3> QED
        BY <3>2, <3>3
    <2> QED
      BY <2>1, <2>2 DEF Surjection
  <1>13. Cardinality(File) <= Cardinality(D)
    <2> HIDE DEF D, F
    <2> QED
      BY <1>11, <1>12, FS_Surjection
  <1> HIDE DEF D, F, Pairs
  <1> QED
    BY <1>1, <1>5, <1>7, <1>11, <1>13

LEMMA FilesIInvImplies == FilesIInv => FilesCorrect
  <1> SUFFICES ASSUME FilesIInv PROVE FilesCorrect
    OBVIOUS
  <1>1. /\ LifeTypes /\ vfs \in PoolType /\ files \in TableTypes
        /\ RingLists(vfs, Unheld(files)) /\ Owned(vfs, files)
    BY DEF FilesIInv, FilesInv
  <1>2. FilesTypeOK
    BY <1>1 DEF FilesTypeOK, LifeTypes, TableTypes
  <1>3. PoolOK
    BY <1>1 DEF PoolOK, PoolExact, RingLists, Unheld
  <1>4. FreeNeverPanics
    <2> SUFFICES ASSUME NEW t \in Task, NEW fd \in Fds, files[t][fd] # NIL
                 PROVE  ~ vfs_free_file_panics(vfs)
      BY DEF FreeNeverPanics
    <2>1. files[t][fd] \in File \ Unheld(files) /\ Unheld(files) \in SUBSET File
      BY <1>1 DEF TableTypes, Unheld, Held
    <2> QED
      BY <1>1, <2>1, GiveFile
  <1>5. OneDescriptor /\ DeadHoldNothing
    BY <1>1 DEF OneDescriptor, FilesIInv
  <1>6. ReaderKeepsFile
    BY <1>1 DEF ReaderKeepsFile, FilesIInv, ReadersHold, Owned
  <1>7. FileForEveryDescriptor
    BY FreeFileLeft DEF FileForEveryDescriptor, FilesIInv
  <1> QED
    BY <1>2, <1>3, <1>4, <1>5, <1>6, <1>7 DEF FilesCorrect

\* Every file of the pool is free or behind exactly one descriptor, and never
\* lost: through open that fails half way (vfs_open), close, chdir, execve and
\* the loop of sched_exit the ring lists each unused file once, no free finds
\* a full ring, a sleeping reader keeps its file and a dead task holds none,
\* for any number of tasks, files and descriptors.
THEOREM FilesAreCorrect == FilesSpec => []FilesCorrect
  BY FilesInitial, FilesStep, FilesIInvImplies, PTL DEF FilesSpec
-----------------------------------------------------------------------------
LEMMA MinOfTwo ==
    ASSUME NEW x \in Int, NEW y \in Int
    PROVE  Min({x, y}) \in {x, y} /\ Min({x, y}) <= x /\ Min({x, y}) <= y
  <1>1. \E m \in {x, y} : \A z \in {x, y} : m <= z
    <2>1. CASE x <= y
      BY <2>1
    <2>2. CASE y <= x
      BY <2>2
    <2> QED
      BY <2>1, <2>2
  <1>2. Min({x, y}) \in {x, y} /\ \A z \in {x, y} : Min({x, y}) <= z
    BY <1>1 DEF Min
  <1> QED
    BY <1>2

LEMMA MaxOfTwo ==
    ASSUME NEW x \in Int, NEW y \in Int
    PROVE  Max({x, y}) \in {x, y} /\ Max({x, y}) >= x /\ Max({x, y}) >= y
  <1>1. \E m \in {x, y} : \A z \in {x, y} : m >= z
    <2>1. CASE x >= y
      BY <2>1
    <2>2. CASE y >= x
      BY <2>2
    <2> QED
      BY <2>1, <2>2
  <1>2. Max({x, y}) \in {x, y} /\ \A z \in {x, y} : Max({x, y}) >= z
    BY <1>1 DEF Max
  <1> QED
    BY <1>2

\* The first members of a set of descriptors are no more than there is room for.
LEMMA FirstFew ==
    ASSUME NEW F \in SUBSET ProcFds, NEW room \in Nat, NEW L,
           L = {x \in F : Cardinality({y \in F : y < x}) < room}
    PROVE  Cardinality(L) \in Nat /\ Cardinality(L) <= room
  <1>1. PROC_NOFILE \in Nat
    BY ProcAssumption
  <1>2. IsFiniteSet(ProcFds)
    BY <1>1, FS_Interval DEF ProcFds
  <1>3. IsFiniteSet(F) /\ IsFiniteSet(L)
    <2>1. L \in SUBSET ProcFds
      OBVIOUS
    <2> QED
      BY <1>2, <2>1, FS_Subset
  <1>4. Cardinality(L) \in Nat
    BY <1>3, FS_CardinalityType
  <1>5. CASE L = {}
    <2>1. Cardinality(L) = 0
      BY <1>5, FS_EmptySet
    <2> QED
      BY <2>1
  <1>6. CASE L # {}
    \* The largest of them, found as the least distance from the end.
    <2> DEFINE D == {PROC_NOFILE - x : x \in L}
    <2>1. D \subseteq Nat /\ D # {}
      <3>1. \A x \in L : PROC_NOFILE - x \in Nat
        BY <1>1 DEF ProcFds
      <3>2. PICK x : x \in L
        BY <1>6
      <3> QED
        BY <3>1, <3>2
    <2> HIDE DEF D
    <2>2. PICK g \in D : \A z \in D : g <= z
      <3>1. PICK g \in D : \A z \in D : ~(z < g)
        BY <2>1, LeastNat
      <3>2. \A z \in D : z \in Nat
        BY <2>1
      <3> QED
        BY <3>1, <3>2
    <2>3. PICK m \in L : g = PROC_NOFILE - m
      BY DEF D
    <2>4. \A x \in L : x <= m
      <3> SUFFICES ASSUME NEW x \in L
                   PROVE  x <= m
        OBVIOUS
      <3>1. PROC_NOFILE - m <= PROC_NOFILE - x
        BY <2>2, <2>3 DEF D
      <3>2. x \in Int /\ m \in Int
        BY DEF ProcFds
      <3> QED
        BY <1>1, <3>1, <3>2
    <2> DEFINE B == {y \in F : y < m}
    <2>5. L \ {m} \subseteq B
      <3> SUFFICES ASSUME NEW x \in L \ {m}
                   PROVE  x < m /\ x \in F
        OBVIOUS
      <3>1. x \in Int /\ m \in Int /\ x <= m /\ x # m
        BY <2>4 DEF ProcFds
      <3> QED
        BY <3>1
    <2>6. Cardinality(B) < room
      OBVIOUS
    <2>7. IsFiniteSet(B)
      BY <1>3, FS_Subset
    <2>8. Cardinality(L \ {m}) = Cardinality(L) - 1
      BY <1>3, FS_RemoveElement
    <2>9. Cardinality(L \ {m}) <= Cardinality(B) /\ Cardinality(B) \in Nat
      <3> HIDE DEF B
      <3>1. L \ {m} \in SUBSET B
        BY <2>5
      <3> QED
        BY <2>7, <3>1, FS_Subset, FS_CardinalityType
    <2> HIDE DEF B
    <2> QED
      BY <1>4, <2>6, <2>8, <2>9
  <1> QED
    BY <1>4, <1>5, <1>6

\* The most a call may write.
Limit(name, path, size) ==
    IF name = "getdents" /\ proc_is_root(path) THEN Max({size, 3 + MAX_PROCESS_CNT})
    ELSE IF name = "read" /\ path = Stat THEN Max({size, CtxtLen})
    ELSE size

\* An answer to a call with a buffer of the size.
Fits(a, path, size) ==
    /\ a = [call |-> a.call, slot |-> a.slot, ret |-> a.ret, written |-> a.written,
            names |-> a.names, size |-> 0]
    /\ a.ret \in Int /\ a.slot \in Slots \cup {Error}
    /\ a.written <= Limit(a.call, path, size)

LEMMA ProcFacts ==
    /\ PROC_NOFILE \in Nat /\ NameLen \in Nat /\ PathLen \in Nat /\ StatLen \in Nat
    /\ CtxtLen \in Nat /\ ProcMaxCount \in Nat /\ MAX_PROCESS_CNT \in Nat \ {0}
  BY ProcAssumption, TableAssumption

\* The ordinary answers: no more is written than the limit of every call.
LEMMA OrdinaryFits ==
    ASSUME NEW name, NEW slot \in Slots \cup {Error}, NEW ret \in Int, NEW x \in Int,
           NEW found, NEW path, NEW size \in Nat, x <= size
    PROVE  Fits(Answer(name, slot, ret, x, found), path, size)
  <1>1. 3 + MAX_PROCESS_CNT \in Int /\ CtxtLen \in Int
    BY ProcFacts
  <1>2. /\ Max({size, 3 + MAX_PROCESS_CNT}) \in Int /\ Max({size, 3 + MAX_PROCESS_CNT}) >= size
        /\ Max({size, CtxtLen}) \in Int /\ Max({size, CtxtLen}) >= size
    BY <1>1, MaxOfTwo
  <1>3. Limit(name, path, size) \in Int /\ size <= Limit(name, path, size)
    BY <1>2 DEF Limit
  <1>4. x <= Limit(name, path, size)
    BY <1>3
  <1> QED
    BY <1>4 DEF Fits, Answer

LEMMA NothingFits ==
    ASSUME NEW name, NEW ret \in Int, NEW path, NEW size \in Nat
    PROVE  Fits(Nothing(name, ret), path, size)
  BY OrdinaryFits DEF Nothing

LEMMA TextLength ==
    ASSUME NEW path, IsFdLink(path) \/ path.rest \in Leaves
    PROVE  TextOf(path).len \in Nat /\ TextOf(path).newline \in BOOLEAN
  BY ProcFacts DEF TextOf, IsFdLink, Leaves

\* A read fits, and answers about the task that a lookup finds.
LEMMA ReadFits ==
    ASSUME NEW path \in ProcPaths, NEW pos \in Nat, NEW count \in Nat
    PROVE  LET a == proc_read(path, pos, count)
           IN  /\ Fits(a, path, count) /\ a.call = "read"
               /\ a.slot # Error => a.slot \in TaskOf(path)
  <1> DEFINE a == proc_read(path, pos, count)
  <1>1. CASE pos > 0 \/ count = 0
    <2>1. a = Nothing("read", 0)
      BY <1>1 DEF proc_read
    <2> QED
      BY <2>1, NothingFits DEF Nothing, Answer
  <1>2. CASE ~(pos > 0 \/ count = 0) /\ path = Stat
    <2>1. a = ReadStat(count)
      BY <1>2 DEF proc_read
    <2>2. Min({CtxtLen, count}) \in Int /\ CtxtLen \in Int
      <3>1. CtxtLen \in Int /\ count \in Int
        BY ProcFacts
      <3> QED
        BY <3>1, MinOfTwo
    <2>3. Max({count, CtxtLen}) >= CtxtLen
      BY <2>2, MaxOfTwo
    <2>4. Limit("read", path, count) = Max({count, CtxtLen})
      BY <1>2 DEF Limit
    <2> QED
      BY <2>1, <2>2, <2>3, <2>4 DEF ReadStat, Answer, Fits
  <1>3. CASE ~(pos > 0 \/ count = 0) /\ path # Stat /\ (path.pid = PID_NONE \/ TaskOf(path) = {})
    <2>1. a = Nothing("read", Error)
      BY <1>3 DEF proc_read
    <2> QED
      BY <2>1, NothingFits DEF Nothing, Answer, Error
  <1>4. CASE ~(pos > 0 \/ count = 0) /\ path # Stat /\ path.pid # PID_NONE /\ TaskOf(path) # {}
    <2> DEFINE t == CHOOSE s \in TaskOf(path) : TRUE
    <2>1. t \in TaskOf(path) /\ t \in Slots
      BY <1>4 DEF TaskOf, task_table_find
    <2> HIDE DEF t
    <2>2. a \in {Nothing("read", Error)} \/ (/\ IsFdLink(path) \/ path.rest \in Leaves
                                            /\ a = ReadLeaf(path, count, t))
      BY <1>4 DEF proc_read, t
    <2>3. CASE a = Nothing("read", Error)
      BY <2>3, NothingFits DEF Nothing, Answer, Error
    <2>4. CASE (IsFdLink(path) \/ path.rest \in Leaves) /\ a = ReadLeaf(path, count, t)
      <3> DEFINE len == TextOf(path).len
                 x   == IF TextOf(path).newline THEN Min({len, count - 1}) + 1
                        ELSE Min({len, count})
      <3>1. len \in Nat
        BY <2>4, TextLength
      <3>2. count - 1 \in Int /\ count \in Int
        OBVIOUS
      <3> HIDE DEF len
      <3>3. /\ Min({len, count - 1}) \in Int /\ Min({len, count - 1}) <= count - 1
            /\ Min({len, count}) \in Int /\ Min({len, count}) <= count
        BY <3>1, <3>2, MinOfTwo
      <3>4. x \in Int /\ x <= count
        BY <3>3
      <3>5. a = Answer("read", t, x, x, {})
        BY <2>4 DEF ReadLeaf, len
      <3> HIDE DEF x, a
      <3>6. Fits(a, path, count)
        BY <2>1, <3>4, <3>5, OrdinaryFits
      <3> QED
        BY <2>1, <3>5, <3>6 DEF Answer, a
    <2> QED
      BY <2>2, <2>3, <2>4
  <1> QED
    BY <1>1, <1>2, <1>3, <1>4

LEMMA ListedFits ==
    ASSUME NEW l, NEW path, NEW max \in Nat, l.idx \in Int,
           l.idx <= Limit("getdents", path, max)
    PROVE  Fits(Listed(l), path, max)
  BY DEF Fits, Listed, Answer

\* What can be opened below a pid that a lookup finds.
LEMMA FoundOpens ==
    ASSUME NEW pid, NEW t \in task_table_find(task_table, pid)
    PROVE  /\ pid # PID_NONE
           /\ proc_open(Dir(pid)) /\ proc_open(FdDir(pid))
           /\ \A rest \in Leaves : proc_open(Path(pid, rest))
           /\ \A num \in fds[t] : proc_open(FdLink(pid, num))
  <1>1. pid # PID_NONE
    BY DEF task_table_find, PID_NONE
  <1>2. /\ \A rest : TaskOf(Path(pid, rest)) = task_table_find(task_table, pid)
        /\ \A num : TaskOf(FdLink(pid, num)) = task_table_find(task_table, pid)
    BY DEF TaskOf, Path, FdLink
  <1>3. proc_open(Dir(pid))
    BY <1>1, <1>2 DEF proc_open, Dir, Path, proc_is_pid_dir
  <1>4. proc_open(FdDir(pid))
    BY <1>1, <1>2 DEF proc_open, FdDir, Path, proc_is_fd_dir
  <1>5. \A rest \in Leaves : proc_open(Path(pid, rest))
    BY <1>1, <1>2 DEF proc_open, Path
  <1>6. \A num \in fds[t] : proc_open(FdLink(pid, num))
    BY <1>1, <1>2 DEF proc_open, FdLink, IsFdLink, proc_extract_fd_num
  <1> QED
    BY <1>1, <1>3, <1>4, <1>5, <1>6

LEMMA StatOpens == proc_open(Stat)
  BY DEF proc_open

\* The two dots, with room for at least one entry.
LEMMA DotsAre ==
    ASSUME NEW max \in Nat \ {0}
    PROVE  /\ Min({2, max}) \in Nat /\ Min({2, max}) <= 2 /\ Min({2, max}) <= max
           /\ max - Min({2, max}) \in Nat
  <1>1. max \in Int /\ 2 \in Int
    OBVIOUS
  <1>2. Min({2, max}) \in {2, max} /\ Min({2, max}) <= 2 /\ Min({2, max}) <= max
    BY <1>1, MinOfTwo
  <1> QED
    BY <1>2

\* Where the listing goes by the state and opening by the pid.
StatesAgree == InUse(task_table) = {s \in Slots : state[s] # "POOLED"}

LEMMA RootListed ==
    ASSUME TableInv(task_table), StatesAgree, NEW max \in Nat \ {0}, NEW path, path = Root
    PROVE  /\ ListRoot(max).idx \in Int /\ ListRoot(max).idx <= Limit("getdents", path, max)
           /\ \A p \in ListRoot(max).names : proc_open(p)
  <1> DEFINE head  == fs_add_entry(Dots(max), max, Stat)
             tasks == sched_fill_proc_dirents
             used  == {s \in Slots : state[s] # "POOLED"}
  <1>1. /\ head.idx \in Nat /\ head.idx <= 3 /\ head.idx <= max
        /\ \A p \in head.names : p = Stat
    <2>1. PICK k : k = Min({2, max})
      OBVIOUS
    <2>2. k \in Nat /\ k <= 2 /\ k <= max
      BY <2>1, DotsAre
    <2>3. Dots(max) = [idx |-> k, names |-> {}]
      BY <2>1 DEF Dots
    <2>4. head = IF k >= max THEN [idx |-> k, names |-> {}]
                 ELSE [idx |-> k + 1, names |-> {} \cup {Stat}]
      BY <2>3 DEF fs_add_entry
    <2> HIDE DEF head
    <2>5. CASE k >= max
      BY <2>2, <2>4, <2>5
    <2>6. CASE ~(k >= max)
      BY <2>2, <2>4, <2>6
    <2> QED
      BY <2>5, <2>6
  <1>2. IsFiniteSet(Slots) /\ Cardinality(Slots) = MAX_PROCESS_CNT
    <2>1. 0 \in Int /\ MAX_PROCESS_CNT - 1 \in Int /\ ~(0 > MAX_PROCESS_CNT - 1)
          /\ (MAX_PROCESS_CNT - 1) - 0 + 1 = MAX_PROCESS_CNT
      BY ProcFacts
    <2> QED
      BY <2>1, FS_Interval DEF Slots
  <1>3. IsFiniteSet(used) /\ Cardinality(used) <= MAX_PROCESS_CNT /\ Cardinality(used) \in Nat
    <2> HIDE DEF used
    <2>1. used \in SUBSET Slots
      BY DEF used
    <2> QED
      BY <1>2, <2>1, FS_Subset, FS_CardinalityType
  <1>4. Cardinality(tasks) \in Nat /\ Cardinality(tasks) <= MAX_PROCESS_CNT
    <2> DEFINE f == [s \in used |-> [slot |-> s, path |-> Dir(task_table.pid[s])]]
    <2>1. tasks = {f[s] : s \in used}
      BY DEF sched_fill_proc_dirents
    <2> HIDE DEF tasks
    <2>2. f \in Surjection(used, tasks)
      BY <2>1 DEF Surjection
    <2> HIDE DEF f, used
    <2>3. IsFiniteSet(tasks) /\ Cardinality(tasks) <= Cardinality(used)
      BY <1>3, <2>2, FS_Surjection
    <2>4. Cardinality(tasks) \in Nat
      BY <2>3, FS_CardinalityType
    <2> QED
      BY <1>3, <2>3, <2>4, ProcFacts
  <1>5. \A e \in tasks : proc_open(e.path)
    <2> SUFFICES ASSUME NEW e \in tasks
                 PROVE  proc_open(e.path)
      OBVIOUS
    <2>1. PICK s \in used : e.path = Dir(task_table.pid[s])
      BY DEF sched_fill_proc_dirents
    <2>2. s \in InUse(task_table)
      BY DEF StatesAgree
    <2>3. s \in task_table_find(task_table, task_table.pid[s])
      BY <2>2, InUseLemma
    <2> QED
      BY <2>1, <2>3, FoundOpens
  <1>6. ListRoot(max) = IF head.idx < max
                        THEN [idx   |-> head.idx + Cardinality(tasks),
                              names |-> head.names \cup {e.path : e \in tasks}]
                        ELSE head
    BY DEF ListRoot
  <1> HIDE DEF head, tasks, used
  <1>7. PICK top : top = Max({max, 3 + MAX_PROCESS_CNT})
    OBVIOUS
  <1>8. Limit("getdents", path, max) = top
    BY <1>7 DEF Limit, proc_is_root
  <1>9. top \in Int /\ top >= max /\ top >= 3 + MAX_PROCESS_CNT
    <2>1. max \in Int /\ 3 + MAX_PROCESS_CNT \in Int
      BY ProcFacts
    <2> QED
      BY <1>7, <2>1, MaxOfTwo
  <1>10. CASE head.idx < max
    BY <1>1, <1>4, <1>5, <1>6, <1>8, <1>9, <1>10, ProcFacts, StatOpens
  <1>11. CASE ~(head.idx < max)
    BY <1>1, <1>6, <1>8, <1>9, <1>11, StatOpens
  <1> QED
    BY <1>10, <1>11

LEMMA FdsListed ==
    ASSUME fds \in [Slots -> SUBSET ProcFds], NEW max \in Nat \ {0}, NEW pid,
           NEW t \in task_table_find(task_table, pid)
    PROVE  /\ ListFds(pid, t, max).idx \in Int /\ ListFds(pid, t, max).idx <= max
           /\ \A p \in ListFds(pid, t, max).names : proc_open(p)
  <1>1. PICK k, room : k = Min({2, max}) /\ room = max - Min({2, max})
    OBVIOUS
  <1>2. k \in Nat /\ room \in Nat /\ room = max - k
    BY <1>1, DotsAre
  <1>3. PICK F : F = fds[t]
    OBVIOUS
  <1>4. F \in SUBSET ProcFds
    BY <1>3 DEF task_table_find
  <1>5. PICK L : L = {x \in F : Cardinality({y \in F : y < x}) < room}
    OBVIOUS
  <1>6. Cardinality(L) \in Nat /\ Cardinality(L) <= room
    BY <1>2, <1>4, <1>5, FirstFew
  <1>7. ListFds(pid, t, max) = [idx |-> k + Cardinality(L), names |-> {FdLink(pid, x) : x \in L}]
    BY <1>1, <1>3, <1>5 DEF ListFds
  <1>8. \A x \in L : proc_open(FdLink(pid, x))
    BY <1>3, <1>5, FoundOpens
  <1> QED
    BY <1>2, <1>6, <1>7, <1>8

LEMMA PidListed ==
    ASSUME NEW max \in Nat \ {0}, NEW pid, NEW t \in task_table_find(task_table, pid)
    PROVE  /\ ListPid(pid, max).idx \in Int /\ ListPid(pid, max).idx <= max
           /\ \A p \in ListPid(pid, max).names : proc_open(p)
  <1>1. PICK k, left, room : k = Min({2, max}) /\ left = max - Min({2, max})
                           /\ room = Min({7, left})
    OBVIOUS
  <1>2. k \in Nat /\ left \in Nat /\ left = max - k
    BY <1>1, DotsAre
  <1>3. room \in Int /\ room <= 7 /\ room <= left
    <2>1. 7 \in Int /\ left \in Int
      BY <1>2
    <2> QED
      BY <1>1, <2>1, MinOfTwo
  <1>4. Len(PidEntries(pid)) = 7
    BY DEF PidEntries
  <1>5. ListPid(pid, max) = [idx |-> k + room, names |-> {PidEntries(pid)[i] : i \in 1 .. room}]
    BY <1>1, <1>4 DEF ListPid
  <1>6. \A i \in 1 .. 7 : proc_open(PidEntries(pid)[i])
    <2>1. /\ proc_open(FdDir(pid)) /\ proc_open(Path(pid, "cmdline"))
          /\ proc_open(Path(pid, "comm")) /\ proc_open(Path(pid, "cwd"))
          /\ proc_open(Path(pid, "exe")) /\ proc_open(Path(pid, "stat"))
          /\ proc_open(Path(pid, "status"))
      BY FoundOpens DEF Leaves
    <2> QED
      BY <2>1 DEF PidEntries
  <1>7. \A i \in 1 .. room : proc_open(PidEntries(pid)[i])
    BY <1>3, <1>6
  <1> QED
    BY <1>2, <1>3, <1>5, <1>7

\* An answer to proc_getdents that fits and names what can be opened.
GoodListing(a, path, max) ==
    /\ Fits(a, path, max) /\ a.call = "getdents" /\ a.slot = Error
    /\ \A p \in a.names : proc_open(p)

\* A listing fits, and everything it names can be opened.
LEMMA GetdentsFits ==
    ASSUME TableInv(task_table), StatesAgree, fds \in [Slots -> SUBSET ProcFds],
           NEW path \in ProcPaths, NEW pos \in Nat, NEW max \in Nat
    PROVE  GoodListing(proc_getdents(path, pos, max), path, max)
  <1>0. PICK a : a = proc_getdents(path, pos, max)
    OBVIOUS
  <1> SUFFICES GoodListing(a, path, max)
    BY <1>0
  <1>1. ASSUME NEW ret \in {0, Error}, a = Nothing("getdents", ret)
        PROVE  GoodListing(a, path, max)
    <2>1. ret \in Int
      BY DEF Error
    <2> QED
      BY <1>1, <2>1, NothingFits DEF Nothing, Answer, GoodListing
  <1>2. ASSUME NEW l, a = Listed(l), l.idx \in Int, l.idx <= Limit("getdents", path, max),
               \A p \in l.names : proc_open(p)
        PROVE  GoodListing(a, path, max)
    <2>1. Fits(Listed(l), path, max)
      BY <1>2, ListedFits
    <2> QED
      BY <1>2, <2>1 DEF Listed, Answer, GoodListing
  <1>3. CASE max = 0 \/ pos > 0
    <2>1. a = Nothing("getdents", 0)
      BY <1>0, <1>3 DEF proc_getdents
    <2> QED
      BY <1>1, <2>1
  <1>4. CASE max # 0 /\ ~(pos > 0) /\ proc_is_root(path)
    <2>1. a = Listed(ListRoot(max))
      BY <1>0, <1>4 DEF proc_getdents
    <2>2. /\ ListRoot(max).idx \in Int /\ ListRoot(max).idx <= Limit("getdents", path, max)
          /\ \A p \in ListRoot(max).names : proc_open(p)
      BY <1>4, RootListed DEF proc_is_root
    <2> QED
      BY <1>2, <2>1, <2>2
  <1>5. CASE /\ max # 0 /\ ~(pos > 0) /\ ~proc_is_root(path)
             /\ (~proc_is_fd_dir(path) /\ ~proc_is_pid_dir(path)) \/ TaskOf(path) = {}
    <2>1. a = Nothing("getdents", Error)
      BY <1>0, <1>5 DEF proc_getdents
    <2> QED
      BY <1>1, <2>1
  <1>6. CASE /\ max # 0 /\ ~(pos > 0) /\ ~proc_is_root(path)
             /\ proc_is_fd_dir(path) \/ proc_is_pid_dir(path)
             /\ TaskOf(path) # {}
    <2>1. PICK pid, t : pid = path.pid /\ t = CHOOSE s \in TaskOf(path) : TRUE
      OBVIOUS
    <2>2. t \in task_table_find(task_table, pid)
      BY <1>6, <2>1 DEF TaskOf
    <2>3. a = Listed(ListFds(pid, t, max)) \/ a = Listed(ListPid(pid, max))
      BY <1>0, <1>6, <2>1 DEF proc_getdents
    <2>4. Limit("getdents", path, max) = max
      BY <1>6 DEF Limit
    <2>5. CASE a = Listed(ListFds(pid, t, max))
      <3>1. /\ ListFds(pid, t, max).idx \in Int /\ ListFds(pid, t, max).idx <= max
            /\ \A p \in ListFds(pid, t, max).names : proc_open(p)
        BY <1>6, <2>2, FdsListed
      <3> QED
        BY <1>2, <2>4, <2>5, <3>1
    <2>6. CASE a = Listed(ListPid(pid, max))
      <3>1. /\ ListPid(pid, max).idx \in Int /\ ListPid(pid, max).idx <= max
            /\ \A p \in ListPid(pid, max).names : proc_open(p)
        BY <1>6, <2>2, PidListed
      <3> QED
        BY <1>2, <2>4, <2>6, <3>1
    <2> QED
      BY <2>3, <2>5, <2>6
  <1> QED
    BY <1>3, <1>4, <1>5, <1>6

-----------------------------------------------------------------------------
ProcInv ==
    /\ TableInv(task_table) /\ StatesAgree /\ ProcTypeOK
    /\ proc_file = [path |-> proc_file.path, pos |-> proc_file.pos]
    /\ WritesFit

LEMMA ProcInitial == ProcInit => ProcInv
  <1> SUFFICES ASSUME ProcInit
               PROVE  ProcInv
    OBVIOUS
  <1>1. 0 \in Slots /\ MAX_PROCESS_CNT \in Nat /\ 0 < MAX_PROCESS_CNT
    BY ProcFacts DEF Slots
  <1>2. HasFreeSlot(task_table_init)
    BY <1>1 DEF HasFreeSlot, task_table_init
  <1>3. NextSlot(task_table_init) = 0
    <2>1. RingIndex(0) = 0
      BY <1>1 DEF RingIndex
    <2> QED
      BY <1>1, <2>1 DEF NextSlot, task_table_init
  <1>4. PICK tt : tt = task_table_init
    OBVIOUS
  <1>5. TableInv(tt) /\ HasFreeSlot(tt) /\ InUse(tt) = {} /\ NextSlot(tt) = 0
    BY <1>2, <1>3, <1>4, InitLemma
  <1>6. TableInv(task_table_alloc(tt)) /\ InUse(task_table_alloc(tt)) = {0}
    BY <1>5, AllocLemma
  <1>7. TableInv(task_table) /\ InUse(task_table) = {0}
    BY <1>4, <1>6 DEF ProcInit
  <1>8. {s \in Slots : state[s] # "POOLED"} = {0}
    BY <1>1 DEF ProcInit
  <1>9. ProcTypeOK /\ WritesFit /\ proc_file = [path |-> proc_file.path, pos |-> proc_file.pos]
    <2>1. proc_file = [path |-> Root, pos |-> 0] /\ answer = Nothing("open", 0)
      BY DEF ProcInit
    <2>2. WritesFit
      BY <2>1 DEF WritesFit, Nothing, Answer
    <2>3. state \in [Slots -> {"RUNNING", "ZOMBIE", "POOLED"}] /\ fds \in [Slots -> SUBSET ProcFds]
      BY DEF ProcInit
    <2>4. answer.slot \in Slots \cup {Error} /\ Root \in ProcPaths
      BY <2>1 DEF Nothing, Answer, ProcPaths
    <2> QED
      BY <2>1, <2>2, <2>3, <2>4 DEF ProcTypeOK
  <1> QED
    BY <1>7, <1>8, <1>9 DEF ProcInv, StatesAgree

\* The rest of the kernel keeps the table and the states together.
LEMMA KernelKeeps ==
    ASSUME ProcInv, ProcFork \/ \E s \in Slots : OpenClose(s) \/ ProcExit(s) \/ ProcReap(s)
    PROVE  ProcInv' /\ answer' = answer
  <1>1. UNCHANGED <<proc_file, answer>>
    BY DEF ProcFork, OpenClose, ProcExit, ProcReap
  <1>2. /\ proc_file' = [path |-> proc_file'.path, pos |-> proc_file'.pos] /\ WritesFit'
        /\ proc_file'.path \in ProcPaths /\ proc_file'.pos \in Nat
        /\ answer'.slot \in Slots \cup {Error}
    BY <1>1 DEF ProcInv, WritesFit, ProcTypeOK
  <1>3. SUFFICES /\ TableInv(task_table)' /\ StatesAgree'
                 /\ state' \in [Slots -> {"RUNNING", "ZOMBIE", "POOLED"}]
                 /\ fds' \in [Slots -> SUBSET ProcFds]
    BY <1>1, <1>2 DEF ProcInv, ProcTypeOK
  <1>4. /\ TableInv(task_table) /\ InUse(task_table) = {s \in Slots : state[s] # "POOLED"}
        /\ state \in [Slots -> {"RUNNING", "ZOMBIE", "POOLED"}]
        /\ fds \in [Slots -> SUBSET ProcFds]
    BY DEF ProcInv, StatesAgree, ProcTypeOK
  <1>5. CASE ProcFork
    <2>1. PICK s, new : s = NextSlot(task_table) /\ new = task_table_alloc(task_table)
      OBVIOUS
    <2>2. /\ HasFreeSlot(task_table) /\ task_table' = new
          /\ state' = [state EXCEPT ![s] = "RUNNING"] /\ fds' = fds
      BY <1>5, <2>1 DEF ProcFork
    <2>3. TableInv(new) /\ s \in Slots /\ InUse(new) = InUse(task_table) \cup {s}
      BY <1>4, <2>1, <2>2, AllocLemma
    <2>4. InUse(task_table') = {r \in Slots : state'[r] # "POOLED"}
      BY <1>4, <2>2, <2>3
    <2>5. TableInv(task_table')
      BY <2>2, <2>3
    <2> QED
      BY <1>4, <2>2, <2>3, <2>4, <2>5 DEF StatesAgree
  <1>6. ASSUME NEW s \in Slots, OpenClose(s)
        PROVE  /\ TableInv(task_table)' /\ StatesAgree'
               /\ state' \in [Slots -> {"RUNNING", "ZOMBIE", "POOLED"}]
               /\ fds' \in [Slots -> SUBSET ProcFds]
    <2>1. UNCHANGED <<task_table, state>>
      BY <1>6 DEF OpenClose
    <2>2. fds' \in [Slots -> SUBSET ProcFds]
      BY <1>4, <1>6 DEF OpenClose
    <2> QED
      BY <1>4, <2>1, <2>2 DEF StatesAgree
  <1>7. ASSUME NEW s \in Slots, ProcExit(s)
        PROVE  /\ TableInv(task_table)' /\ StatesAgree'
               /\ state' \in [Slots -> {"RUNNING", "ZOMBIE", "POOLED"}]
               /\ fds' \in [Slots -> SUBSET ProcFds]
    <2>1. /\ state[s] = "RUNNING" /\ task_table' = task_table
          /\ state' = [state EXCEPT ![s] = "ZOMBIE"] /\ fds' = [fds EXCEPT ![s] = {}]
      BY <1>7 DEF ProcExit
    <2>2. {r \in Slots : state'[r] # "POOLED"} = {r \in Slots : state[r] # "POOLED"}
      BY <1>4, <2>1
    <2>3. /\ state' \in [Slots -> {"RUNNING", "ZOMBIE", "POOLED"}]
          /\ fds' \in [Slots -> SUBSET ProcFds]
      BY <1>4, <2>1
    <2> QED
      BY <1>4, <2>1, <2>2, <2>3 DEF StatesAgree
  <1>8. ASSUME NEW s \in Slots, ProcReap(s)
        PROVE  /\ TableInv(task_table)' /\ StatesAgree'
               /\ state' \in [Slots -> {"RUNNING", "ZOMBIE", "POOLED"}]
               /\ fds' \in [Slots -> SUBSET ProcFds]
    <2>1. PICK new : new = task_table_free(task_table, s)
      OBVIOUS
    <2>2. /\ state[s] = "ZOMBIE" /\ task_table' = new
          /\ state' = [state EXCEPT ![s] = "POOLED"] /\ fds' = fds
      BY <1>8, <2>1 DEF ProcReap
    <2>3. s \in InUse(task_table)
      BY <1>4, <2>2
    <2>4. TableInv(new) /\ InUse(new) = InUse(task_table) \ {s}
      BY <1>4, <2>1, <2>3, FreeLemma
    <2>5. InUse(task_table') = {r \in Slots : state'[r] # "POOLED"}
      BY <1>4, <2>2, <2>4
    <2>6. TableInv(task_table')
      BY <2>2, <2>4
    <2> QED
      BY <1>4, <2>2, <2>5, <2>6 DEF StatesAgree
  <1> QED
    BY <1>5, <1>6, <1>7, <1>8

LEMMA OpenKeepsProc ==
    ASSUME ProcInv, NEW path \in ProcPaths, ProcOpen(path)
    PROVE  ProcInv' /\ answer'.call = "open"
  <1>1. /\ proc_file' = [path |-> path, pos |-> 0] /\ answer' = Nothing("open", 0)
        /\ UNCHANGED <<task_table, state, fds>>
    BY DEF ProcOpen
  <1>2. WritesFit' /\ answer'.call = "open" /\ answer'.slot = Error
    BY <1>1 DEF WritesFit, Nothing, Answer
  <1> QED
    BY <1>1, <1>2 DEF ProcInv, ProcTypeOK, StatesAgree

\* A call whose answer fits.
LEMMA ReturnKeeps ==
    ASSUME ProcInv, NEW a, NEW size \in Nat, Returns(a, size), Fits(a, proc_file.path, size)
    PROVE  /\ ProcInv' /\ answer'.call = a.call /\ answer'.slot = a.slot
           /\ answer'.names = a.names
  <1>1. PICK moved : moved = Max({a.ret, 0})
    OBVIOUS
  <1>2. moved \in Nat
    <2>1. a.ret \in Int /\ 0 \in Int
      BY DEF Fits
    <2>2. moved \in {a.ret, 0} /\ moved >= 0
      BY <1>1, <2>1, MaxOfTwo
    <2> QED
      BY <2>1, <2>2
  <1>3. /\ answer' = [a EXCEPT !.size = size]
        /\ proc_file' = [proc_file EXCEPT !.pos = @ + moved]
        /\ UNCHANGED <<task_table, state, fds>>
    BY <1>1 DEF Returns
  <1>4. /\ answer'.call = a.call /\ answer'.slot = a.slot /\ answer'.names = a.names
        /\ answer'.size = size /\ answer'.written = a.written
    BY <1>3 DEF Fits
  <1>5. /\ proc_file' = [path |-> proc_file'.path, pos |-> proc_file'.pos]
        /\ proc_file'.path = proc_file.path /\ proc_file'.pos \in Nat
    BY <1>2, <1>3 DEF ProcInv, ProcTypeOK
  <1>6. WritesFit'
    <2>1. a.written <= Limit(a.call, proc_file.path, size)
      BY DEF Fits
    <2> QED
      BY <1>4, <1>5, <2>1 DEF WritesFit, Limit
  <1>7. ProcTypeOK'
    BY <1>3, <1>4, <1>5 DEF ProcInv, ProcTypeOK, Fits
  <1>8. TableInv(task_table)' /\ StatesAgree'
    BY <1>3 DEF ProcInv, StatesAgree
  <1> QED
    BY <1>4, <1>5, <1>6, <1>7, <1>8 DEF ProcInv

LEMMA ReadKeepsProc ==
    ASSUME ProcInv, NEW count \in Nat, ProcRead(count)
    PROVE  /\ ProcInv' /\ answer'.call = "read"
           /\ answer'.slot # Error => /\ task_table.pid[answer'.slot] = proc_file.path.pid
                                     /\ state[answer'.slot] # "POOLED"
  <1>1. PICK path, pos, a : /\ path = proc_file.path /\ pos = proc_file.pos
                           /\ a = proc_read(path, pos, count)
    OBVIOUS
  <1>2. path \in ProcPaths /\ pos \in Nat
    BY <1>1 DEF ProcInv, ProcTypeOK
  <1>3. Fits(a, path, count) /\ a.call = "read" /\ (a.slot # Error => a.slot \in TaskOf(path))
    BY <1>1, <1>2, ReadFits
  <1>4. Returns(a, count)
    BY <1>1 DEF ProcRead
  <1>5. ProcInv' /\ answer'.call = "read" /\ answer'.slot = a.slot
    BY <1>1, <1>3, <1>4, ReturnKeeps
  <1>6. ASSUME a.slot # Error
        PROVE  task_table.pid[a.slot] = path.pid /\ state[a.slot] # "POOLED"
    <2>1. a.slot \in Slots /\ task_table.pid[a.slot] = path.pid /\ path.pid >= 0
      BY <1>3, <1>6 DEF TaskOf, task_table_find
    <2>2. a.slot \in InUse(task_table)
      BY <2>1 DEF InUse, PID_NONE
    <2> QED
      BY <2>1, <2>2 DEF ProcInv, StatesAgree
  <1> QED
    BY <1>1, <1>5, <1>6

LEMMA GetdentsKeepsProc ==
    ASSUME ProcInv, NEW max \in Nat, ProcGetdents(max)
    PROVE  /\ ProcInv' /\ answer'.call = "getdents"
           /\ \A path \in answer'.names : proc_open(path)
  <1>1. PICK path, pos, a : /\ path = proc_file.path /\ pos = proc_file.pos
                           /\ a = proc_getdents(path, pos, max)
    OBVIOUS
  <1>2. path \in ProcPaths /\ pos \in Nat
    BY <1>1 DEF ProcInv, ProcTypeOK
  <1>3. GoodListing(a, path, max)
    BY <1>1, <1>2, GetdentsFits DEF ProcInv, ProcTypeOK
  <1>4. Returns(a, max)
    BY <1>1 DEF ProcGetdents
  <1>5. ProcInv' /\ answer'.call = a.call /\ answer'.names = a.names
    BY <1>1, <1>3, <1>4, ReturnKeeps DEF GoodListing
  <1> QED
    BY <1>3, <1>5 DEF GoodListing

\* What a step may answer.
Answered ==
    answer' = answer
    \/ answer'.call = "open"
    \/ /\ answer'.call = "read"
       /\ answer'.slot # Error => /\ task_table.pid[answer'.slot] = proc_file.path.pid
                                 /\ state[answer'.slot] # "POOLED"
    \/ /\ answer'.call = "getdents"
       /\ \A path \in answer'.names : proc_open(path)

LEMMA ProcStep == ProcInv /\ [ProcNext]_procVars => ProcInv' /\ Answered
  <1> SUFFICES ASSUME ProcInv, [ProcNext]_procVars
               PROVE  ProcInv' /\ Answered
    OBVIOUS
  <1>1. CASE ProcFork \/ \E s \in Slots : OpenClose(s) \/ ProcExit(s) \/ ProcReap(s)
    BY <1>1, KernelKeeps DEF Answered
  <1>2. ASSUME NEW path \in ProcPaths, ProcOpen(path)
        PROVE  ProcInv' /\ Answered
    BY <1>2, OpenKeepsProc DEF Answered
  <1>3. ASSUME NEW count \in 0 .. ProcMaxCount, ProcRead(count) \/ ProcGetdents(count)
        PROVE  ProcInv' /\ Answered
    <2>1. count \in Nat
      BY ProcFacts
    <2> QED
      BY <1>3, <2>1, ReadKeepsProc, GetdentsKeepsProc DEF Answered
  <1>4. CASE UNCHANGED procVars
    <2>1. UNCHANGED <<task_table, state, fds, proc_file, answer>>
      BY <1>4 DEF procVars
    <2>2. WritesFit'
      BY <2>1 DEF ProcInv, WritesFit
    <2> QED
      BY <2>1, <2>2 DEF ProcInv, ProcTypeOK, StatesAgree, Answered
  <1> QED
    BY <1>1, <1>2, <1>3, <1>4 DEF ProcNext

(* /proc tells of the task it names, through exits, reaps and reuse of     *)
(* slots and pids (proc_read, proc_getdents, task_table_find_task_by_pid,  *)
(* sched_fill_proc_dirents): a read finds the task that has the pid then,  *)
(* what a listing names can be opened, and no call but the two known ones  *)
(* writes past its size - for any number of tasks, descriptors and sizes.  *)
THEOREM ProcIsCorrect == ProcSpec => ProcCorrect
  <1>1. ProcInit => ProcInv
    BY ProcInitial
  <1>2. ProcInv /\ [ProcNext]_procVars => ProcInv'
    BY ProcStep
  <1>3. ProcInv => ProcTypeOK /\ WritesFit
    BY DEF ProcInv
  <1>4. ProcInv /\ [ProcNext]_procVars
        => [answer' # answer /\ answer'.call = "read" /\ answer'.slot # Error =>
              /\ task_table.pid[answer'.slot] = proc_file.path.pid
              /\ state[answer'.slot] # "POOLED"]_procVars
    BY ProcStep DEF Answered
  <1>5. ProcInv /\ [ProcNext]_procVars
        => [answer' # answer /\ answer'.call = "getdents" =>
              \A path \in answer'.names : proc_open(path)]_procVars
    BY ProcStep DEF Answered
  <1> QED
    BY <1>1, <1>2, <1>3, <1>4, <1>5, PTL
    DEF ProcSpec, ProcCorrect, ReadsNamedTask, ListedCanBeOpened
-----------------------------------------------------------------------------
(* The shells of init.                                                     *)

Shells == [pid : InitPids, tty : Ttys, st : {"forked", "shell", "zombie"}]

\* No two children with one pid, and the table has them all.
Known(s, pids) ==
  /\ \A j, k \in DOMAIN s : s[j].pid = s[k].pid => j = k
  /\ \A k \in DOMAIN s : pids[s[k].tty] = s[k].pid
  /\ \A i \in Ttys : pids[i] # 0 => \E k \in DOMAIN s : s[k].pid = pids[i] /\ s[k].tty = i

(* What init keeps: children with pids of their own that the table knows,  *)
(* and nothing yet for the terminals it has not come to.                   *)
InitInv ==
  /\ tty_pids \in [Ttys -> InitPids \cup {0}] /\ shells \in Seq(Shells)
  /\ boot \in 0 .. TTY_COUNT /\ refused \subseteq Ttys
  /\ Known(shells, tty_pids)
  /\ \A i \in Ttys : i >= boot => tty_pids[i] = 0
  /\ UnservedWasRefused

\* Two children are on two terminals.
LEMMA OneEach ==
    ASSUME NEW s \in Seq(Shells), NEW pids, Known(s, pids),
           NEW j \in DOMAIN s, NEW k \in DOMAIN s, s[j].tty = s[k].tty
    PROVE  j = k
  BY DEF Known

\* No more children than terminals.
LEMMA ShellsFit ==
    ASSUME NEW s \in Seq(Shells), NEW pids, Known(s, pids)
    PROVE  Len(s) <= TTY_COUNT
  <1>1. /\ Len(s) \in Nat /\ DOMAIN s = 1 .. Len(s)
        /\ \A k \in DOMAIN s : s[k] \in Shells
    BY LenProperties
  <1>2. PICK f : f = [k \in 1 .. Len(s) |-> s[k].tty]
    OBVIOUS
  <1>3. f \in Injection(1 .. Len(s), Ttys)
    <2>1. f \in [1 .. Len(s) -> Ttys]
      BY <1>1, <1>2 DEF Shells
    <2>2. \A j, k \in 1 .. Len(s) : f[j] = f[k] => j = k
      BY <1>1, <1>2, OneEach
    <2> QED
      BY <2>1, <2>2 DEF Injection, IsInjective
  <1>4. TTY_COUNT \in Nat /\ IsFiniteSet(Ttys) /\ Cardinality(Ttys) = TTY_COUNT
    <2>1. 0 \in Int /\ TTY_COUNT - 1 \in Int /\ TTY_COUNT \in Nat \ {0}
      BY InitAssumption, TtyCountAssumption
    <2>2. IsFiniteSet(0 .. TTY_COUNT - 1)
      BY <2>1, FS_Interval
    <2>3. Cardinality(0 .. TTY_COUNT - 1) = IF 0 > TTY_COUNT - 1 THEN 0 ELSE (TTY_COUNT - 1) - 0 + 1
      BY <2>1, FS_Interval
    <2>4. Cardinality(0 .. TTY_COUNT - 1) = TTY_COUNT
      BY <2>1, <2>3
    <2> QED
      BY <2>1, <2>2, <2>4 DEF Ttys
  <1>5. Cardinality(1 .. Len(s)) = Len(s)
    <2>1. PICK len \in Nat : len = Len(s)
      BY <1>1
    <2>2. Cardinality(1 .. len) = IF 1 > len THEN 0 ELSE len - 1 + 1
      BY FS_Interval
    <2> QED
      BY <2>1, <2>2
  <1>6. Cardinality(1 .. Len(s)) <= Cardinality(Ttys)
    BY <1>3, <1>4, FS_Injection
  <1> QED
    BY <1>4, <1>5, <1>6

LEMMA InitInvCorrect == InitInv => InitTypeOK /\ OneShellPerTty /\ UnservedWasRefused
  <1> SUFFICES ASSUME InitInv PROVE InitTypeOK /\ OneShellPerTty /\ UnservedWasRefused
    OBVIOUS
  <1>1. \A k \in DOMAIN shells : shells[k] \in Shells
    BY LenProperties DEF InitInv
  <1>2. PidsIn(shells) \subseteq InitPids
    BY <1>1 DEF PidsIn, Shells
  <1>3. Len(shells) <= TTY_COUNT
    BY ShellsFit DEF InitInv
  <1> QED
    BY <1>2, <1>3 DEF InitInv, InitTypeOK, OneShellPerTty, Known

\* The children without the k-th.
LEMMA WithoutOne ==
    ASSUME NEW s \in Seq(Shells), NEW k \in DOMAIN s
    PROVE  LET rest == RemoveAt(s, k)
           IN  /\ rest \in Seq(Shells)
               /\ \A j \in DOMAIN rest :
                    (IF j < k THEN j ELSE j + 1) \in DOMAIN s \ {k}
                      /\ rest[j] = s[IF j < k THEN j ELSE j + 1]
               /\ \A n \in DOMAIN s \ {k} : \E j \in DOMAIN rest : rest[j] = s[n]
  <1> DEFINE front == SubSeq(s, 1, k - 1)
             back == SubSeq(s, k + 1, Len(s))
             rest == front \o back
  <1>1. Len(s) \in Nat /\ DOMAIN s = 1 .. Len(s) /\ k \in 1 .. Len(s)
    BY LenProperties
  <1>2. /\ front \in Seq(Shells) /\ Len(front) = k - 1
        /\ \A j \in 1 .. k - 1 : front[j] = s[j]
    <2>1. /\ \A j \in 1 .. k - 1 : s[j] \in Shells
          /\ 1 \in Int /\ k - 1 \in Int
          /\ (IF 1 <= k - 1 THEN (k - 1) - 1 + 1 ELSE 0) = k - 1
          /\ (k - 1) - 1 + 1 = k - 1
          /\ \A j \in 1 .. k - 1 : 1 + j - 1 = j
      BY <1>1
    <2>2. /\ front \in Seq(Shells)
          /\ Len(front) = IF 1 <= k - 1 THEN (k - 1) - 1 + 1 ELSE 0
          /\ \A j \in 1 .. (k - 1) - 1 + 1 : front[j] = s[1 + j - 1]
      BY <2>1, SubSeqProperties
    <2> HIDE DEF front
    <2> QED
      BY <2>1, <2>2
  <1>3. /\ back \in Seq(Shells) /\ Len(back) = Len(s) - k
        /\ \A j \in 1 .. Len(s) - k : back[j] = s[k + j]
    <2>1. /\ \A j \in k + 1 .. Len(s) : s[j] \in Shells
          /\ k + 1 \in Int /\ Len(s) \in Int
          /\ (IF k + 1 <= Len(s) THEN Len(s) - (k + 1) + 1 ELSE 0) = Len(s) - k
          /\ Len(s) - (k + 1) + 1 = Len(s) - k
          /\ \A j \in 1 .. Len(s) - k : k + 1 + j - 1 = k + j
      BY <1>1
    <2>2. /\ back \in Seq(Shells)
          /\ Len(back) = IF k + 1 <= Len(s) THEN Len(s) - (k + 1) + 1 ELSE 0
          /\ \A j \in 1 .. Len(s) - (k + 1) + 1 : back[j] = s[k + 1 + j - 1]
      BY <2>1, SubSeqProperties
    <2> HIDE DEF back
    <2> QED
      BY <2>1, <2>2
  <1> HIDE DEF front, back
  <1>4. /\ rest \in Seq(Shells) /\ Len(rest) = Len(s) - 1
        /\ \A j \in 1 .. Len(s) - 1 : rest[j] = IF j < k THEN s[j] ELSE s[j + 1]
    <2>1. /\ rest \in Seq(Shells) /\ Len(rest) = Len(front) + Len(back)
          /\ \A j \in 1 .. Len(front) + Len(back) :
               rest[j] = IF j <= Len(front) THEN front[j] ELSE back[j - Len(front)]
      BY <1>2, <1>3, ConcatProperties
    <2> HIDE DEF rest
    <2>2. ASSUME NEW j \in 1 .. Len(s) - 1 PROVE rest[j] = IF j < k THEN s[j] ELSE s[j + 1]
      <3>1. CASE j < k
        <4>1. j \in 1 .. k - 1 /\ j <= Len(front) /\ j \in 1 .. Len(front) + Len(back)
          BY <1>1, <1>2, <1>3, <3>1
        <4>2. rest[j] = front[j]
          BY <2>1, <4>1
        <4> QED
          BY <1>2, <3>1, <4>1, <4>2
      <3>2. CASE j >= k
        <4>1. j - (k - 1) \in 1 .. Len(s) - k /\ k + (j - (k - 1)) = j + 1
          BY <1>1, <3>2
        <4>0. /\ Len(front) = k - 1 /\ j \in 1 .. Len(front) + Len(back)
              /\ ~(j <= Len(front)) /\ j - Len(front) = j - (k - 1)
          BY <1>1, <1>2, <1>3, <3>2
        <4>2. rest[j] = back[j - (k - 1)]
          BY <2>1, <4>0
        <4> QED
          BY <1>3, <3>2, <4>1, <4>2
      <3> QED
        BY <1>1, <3>1, <3>2
    <2> QED
      BY <1>1, <1>2, <1>3, <2>1, <2>2
  <1>5. DOMAIN rest = 1 .. Len(s) - 1
    BY <1>4, LenProperties
  <1>6. RemoveAt(s, k) = rest
    BY DEF RemoveAt, front, back
  <1> HIDE DEF rest
  <1>7. \A j \in DOMAIN rest : (IF j < k THEN j ELSE j + 1) \in DOMAIN s \ {k}
                                 /\ rest[j] = s[IF j < k THEN j ELSE j + 1]
    BY <1>1, <1>4, <1>5
  <1>8. ASSUME NEW n \in DOMAIN s \ {k} PROVE \E j \in DOMAIN rest : rest[j] = s[n]
    <2>1. CASE n < k
      BY <1>1, <1>4, <1>5, <2>1
    <2>2. CASE n > k
      <3>1. n - 1 \in DOMAIN rest /\ ~ (n - 1 < k) /\ (n - 1) + 1 = n
        BY <1>1, <1>5, <2>2
      <3> QED
        BY <1>4, <1>5, <3>1
    <2> QED
      BY <1>1, <2>1, <2>2
  <1> QED
    BY <1>4, <1>6, <1>7, <1>8

\* A new child first.
LEMMA WithOneMore ==
    ASSUME NEW s \in Seq(Shells), NEW c \in Shells
    PROVE  LET more == <<c>> \o s
           IN  /\ more \in Seq(Shells)
               /\ DOMAIN more = 1 .. Len(s) + 1
               /\ more[1] = c
               /\ \A j \in 2 .. Len(s) + 1 : j - 1 \in DOMAIN s /\ more[j] = s[j - 1]
               /\ \A n \in DOMAIN s : n + 1 \in 2 .. Len(s) + 1 /\ more[n + 1] = s[n]
  <1> DEFINE more == <<c>> \o s
  <1>1. Len(s) \in Nat /\ DOMAIN s = 1 .. Len(s)
    BY LenProperties
  <1>2. /\ more \in Seq(Shells) /\ Len(more) = 1 + Len(s)
        /\ \A j \in 1 .. 1 + Len(s) : more[j] = IF j <= 1 THEN c ELSE s[j - 1]
    <2>1. <<c>> \in Seq(Shells) /\ Len(<<c>>) = 1 /\ <<c>>[1] = c
      OBVIOUS
    <2>2. PICK one : one = <<c>>
      OBVIOUS
    <2>3. /\ one \o s \in Seq(Shells) /\ Len(one \o s) = 1 + Len(s)
          /\ \A j \in 1 .. 1 + Len(s) : (one \o s)[j] = IF j <= 1 THEN one[j] ELSE s[j - 1]
      BY <2>1, <2>2, ConcatProperties
    <2>4. \A j \in 1 .. 1 + Len(s) : j <= 1 => j = 1
      BY <1>1
    <2> QED
      BY <2>1, <2>2, <2>3, <2>4
  <1>3. DOMAIN more = 1 .. Len(s) + 1
    BY <1>1, <1>2, LenProperties
  <1> HIDE DEF more
  <1>4. more[1] = c /\ \A j \in 2 .. Len(s) + 1 : j - 1 \in DOMAIN s /\ more[j] = s[j - 1]
    BY <1>1, <1>2
  <1>5. ASSUME NEW n \in DOMAIN s PROVE n + 1 \in 2 .. Len(s) + 1 /\ more[n + 1] = s[n]
    <2>1. n + 1 \in 2 .. Len(s) + 1 /\ (n + 1) - 1 = n
      BY <1>1
    <2> QED
      BY <1>4, <2>1
  <1> USE DEF more
  <1> QED
    BY <1>2, <1>3, <1>4, <1>5

(* A new shell for a terminal that has none: with it, or with the refusal, *)
(* the table knows the children again.                                     *)
LEMMA SpawnKeeps ==
    ASSUME NEW i \in Ttys, NEW old \in Seq(Shells),
           tty_pids \in [Ttys -> InitPids \cup {0}], refused \subseteq Ttys,
           Known(old, [tty_pids EXCEPT ![i] = 0]),
           spawn_shell(i, old)
    PROVE  /\ tty_pids' \in [Ttys -> InitPids \cup {0}] /\ shells' \in Seq(Shells)
           /\ refused' \subseteq Ttys
           /\ Known(shells', tty_pids')
           /\ tty_pids'[i] = 0 <=> i \in refused'
           /\ \A t \in Ttys \ {i} : tty_pids'[t] = tty_pids[t]
                                      /\ (t \in refused' <=> t \in refused)
  <1> DEFINE cleared == [tty_pids EXCEPT ![i] = 0]
  <1>0. InitPids \subseteq Nat \ {0}
    BY InitAssumption, TtyCountAssumption
  <1>1. CASE Refuse(i) /\ shells' = old /\ refused' = refused \cup {i}
    BY <1>1 DEF Refuse
  <1>2. CASE \E p \in InitPids \ PidsIn(old) :
               /\ Note(i, p)
               /\ shells' = <<[pid |-> p, tty |-> i, st |-> "forked"]>> \o old
               /\ refused' = refused \ {i}
    <2>1. PICK p \in InitPids \ PidsIn(old) :
               /\ Note(i, p)
               /\ shells' = <<[pid |-> p, tty |-> i, st |-> "forked"]>> \o old
               /\ refused' = refused \ {i}
      BY <1>2
    <2>2. PICK c : c = [pid |-> p, tty |-> i, st |-> "forked"]
      OBVIOUS
    <2>3. c \in Shells /\ c.pid = p /\ c.tty = i
      BY <2>2 DEF Shells
    <2>4. /\ shells' \in Seq(Shells)
          /\ DOMAIN shells' = 1 .. Len(old) + 1
          /\ shells'[1] = c
          /\ \A j \in 2 .. Len(old) + 1 : j - 1 \in DOMAIN old /\ shells'[j] = old[j - 1]
          /\ \A n \in DOMAIN old : n + 1 \in 2 .. Len(old) + 1 /\ shells'[n + 1] = old[n]
      BY <2>1, <2>2, <2>3, WithOneMore
    <2>5. tty_pids' = [tty_pids EXCEPT ![i] = p]
      BY <2>1 DEF Note
    <2>6. \A n \in DOMAIN old : old[n].pid # p /\ old[n] \in Shells
      BY <2>1, LenProperties DEF PidsIn
    <2>7. \A n \in DOMAIN old : old[n].tty # i
      <3> SUFFICES ASSUME NEW n \in DOMAIN old, old[n].tty = i PROVE FALSE
        OBVIOUS
      <3>1. cleared[i] = old[n].pid
        BY DEF Known
      <3>2. cleared[i] = 0
        OBVIOUS
      <3> QED
        BY <1>0, <2>6, <3>1, <3>2 DEF Shells
    <2>8. Len(old) \in Nat
      BY LenProperties
    <2>9. \A k \in DOMAIN shells' : k = 1 \/ k \in 2 .. Len(old) + 1
      BY <2>4, <2>8
    <2>10. \A j, k \in DOMAIN shells' : shells'[j].pid = shells'[k].pid => j = k
      <3> SUFFICES ASSUME NEW j \in DOMAIN shells', NEW k \in DOMAIN shells',
                          shells'[j].pid = shells'[k].pid
                   PROVE  j = k
        OBVIOUS
      <3>1. CASE j = 1 /\ k \in 2 .. Len(old) + 1
        BY <2>3, <2>4, <2>6, <3>1
      <3>2. CASE k = 1 /\ j \in 2 .. Len(old) + 1
        BY <2>3, <2>4, <2>6, <3>2
      <3>3. CASE j \in 2 .. Len(old) + 1 /\ k \in 2 .. Len(old) + 1
        <4>1. old[j - 1].pid = old[k - 1].pid /\ j - 1 \in DOMAIN old /\ k - 1 \in DOMAIN old
          BY <2>4, <3>3
        <4>2. j - 1 = k - 1
          BY <4>1 DEF Known
        <4> QED
          BY <2>8, <3>3, <4>2
      <3> QED
        BY <2>9, <3>1, <3>2, <3>3
    <2>11. \A k \in DOMAIN shells' : tty_pids'[shells'[k].tty] = shells'[k].pid
      <3> SUFFICES ASSUME NEW k \in DOMAIN shells'
                   PROVE  tty_pids'[shells'[k].tty] = shells'[k].pid
        OBVIOUS
      <3>1. CASE k = 1
        BY <2>3, <2>4, <2>5, <3>1
      <3>2. CASE k \in 2 .. Len(old) + 1
        <4>1. k - 1 \in DOMAIN old /\ shells'[k] = old[k - 1]
          BY <2>4, <3>2
        <4>2. old[k - 1].tty # i /\ old[k - 1].tty \in Ttys
          BY <2>6, <2>7, <4>1 DEF Shells
        <4>3. cleared[old[k - 1].tty] = old[k - 1].pid
          BY <4>1 DEF Known
        <4> QED
          BY <2>5, <4>1, <4>2, <4>3
      <3> QED
        BY <2>9, <3>1, <3>2
    <2>12. ASSUME NEW t \in Ttys, tty_pids'[t] # 0
           PROVE  \E k \in DOMAIN shells' : shells'[k].pid = tty_pids'[t] /\ shells'[k].tty = t
      <3>1. CASE t = i
        <4>1. 1 \in DOMAIN shells' /\ shells'[1].pid = tty_pids'[t] /\ shells'[1].tty = t
          BY <2>3, <2>4, <2>5, <2>8, <3>1
        <4> QED
          BY <4>1
      <3>2. CASE t # i
        <4>1. cleared[t] = tty_pids'[t]
          BY <2>5, <3>2
        <4>2. PICK n \in DOMAIN old : old[n].pid = cleared[t] /\ old[n].tty = t
          BY <2>12, <4>1 DEF Known
        <4>3. n + 1 \in DOMAIN shells' /\ shells'[n + 1] = old[n]
          BY <2>4, <2>8
        <4> QED
          BY <4>1, <4>2, <4>3
      <3> QED
        BY <3>1, <3>2
    <2>13. Known(shells', tty_pids')
      BY <2>10, <2>11, <2>12 DEF Known
    <2>14. tty_pids'[i] # 0 /\ tty_pids' \in [Ttys -> InitPids \cup {0}]
      BY <1>0, <2>1, <2>5
    <2> QED
      BY <2>1, <2>4, <2>5, <2>13, <2>14
  <1> QED
    BY <1>1, <1>2 DEF spawn_shell

\* A child changes its state.
LEMMA ChildKeeps ==
    ASSUME InitInv, NEW k \in DOMAIN shells, NEW st \in {"shell", "zombie"},
           shells' = [shells EXCEPT ![k].st = st],
           UNCHANGED <<tty_pids, boot, refused>>
    PROVE  InitInv'
  <1>1. DOMAIN shells = 1 .. Len(shells) /\ \A j \in DOMAIN shells : shells[j] \in Shells
    BY LenProperties DEF InitInv
  <1>2. /\ DOMAIN shells' = DOMAIN shells
        /\ \A j \in DOMAIN shells : /\ shells'[j] \in Shells
                                    /\ shells'[j].pid = shells[j].pid
                                    /\ shells'[j].tty = shells[j].tty
    BY <1>1 DEF Shells
  <1>3. shells' \in Seq(Shells)
    <2>1. shells \in Seq(Shells) /\ Len(shells) \in Nat
      BY LenProperties DEF InitInv
    <2>2. shells' \in [1 .. Len(shells) -> Shells]
      BY <1>1, <1>2
    <2> QED
      BY <2>1, <2>2, SeqDef
  <1>4. Known(shells', tty_pids')
    BY <1>2 DEF InitInv, Known
  <1> QED
    BY <1>3, <1>4 DEF InitInv, UnservedWasRefused

LEMMA InitInvStep == InitInv /\ [InitProcNext]_initVars => InitInv'
  <1> SUFFICES ASSUME InitInv, [InitProcNext]_initVars PROVE InitInv'
    OBVIOUS
  <1>0. TTY_COUNT \in Nat \ {0} /\ boot \in 0 .. TTY_COUNT /\ InitPids \subseteq Nat \ {0}
    BY InitAssumption, TtyCountAssumption DEF InitInv
  <1>1. CASE Boot
    <2>1. boot \in Ttys /\ boot' = boot + 1 /\ boot < TTY_COUNT /\ spawn_shell(boot, shells)
      BY <1>0, <1>1 DEF Boot, Ttys
    <2>2. [tty_pids EXCEPT ![boot] = 0] = tty_pids
      BY <1>0, <2>1 DEF InitInv
    <2>3. /\ tty_pids' \in [Ttys -> InitPids \cup {0}] /\ shells' \in Seq(Shells)
          /\ refused' \subseteq Ttys
          /\ Known(shells', tty_pids')
          /\ tty_pids'[boot] = 0 <=> boot \in refused'
          /\ \A t \in Ttys \ {boot} : tty_pids'[t] = tty_pids[t]
                                        /\ (t \in refused' <=> t \in refused)
      BY <2>1, <2>2, SpawnKeeps DEF InitInv
    <2>4. \A t \in Ttys : t >= boot' => tty_pids'[t] = 0
      BY <1>0, <2>1, <2>3 DEF InitInv, Ttys
    <2>5. \A t \in 0 .. boot' - 1 : t \in Ttys /\ (t = boot \/ t \in 0 .. boot - 1)
      BY <1>0, <2>1 DEF Ttys
    <2>6. UnservedWasRefused'
      BY <2>3, <2>5 DEF InitInv, UnservedWasRefused
    <2> QED
      BY <1>0, <2>1, <2>3, <2>4, <2>6 DEF InitInv
  <1>2. CASE Respawn
    <2>1. /\ boot = TTY_COUNT /\ boot' = boot /\ Zombies(shells) # {}
          /\ \A i \in Ttys : i \in 0 .. boot - 1
      BY <1>0, <1>2 DEF Respawn, Ttys
    <2>2. PICK k : k = CHOOSE i \in Zombies(shells) : \A j \in Zombies(shells) : i <= j
      OBVIOUS
    <2>3. k \in DOMAIN shells
      <3>1. Zombies(shells) \subseteq Nat /\ Zombies(shells) \subseteq DOMAIN shells
        BY LenProperties DEF InitInv, Zombies
      <3>2. \E i \in Zombies(shells) : \A j \in Zombies(shells) : i <= j
        <4>1. PICK i \in Zombies(shells) : \A j \in Zombies(shells) : ~(j < i)
          BY <2>1, <3>1, LeastNat
        <4> QED
          BY <3>1, <4>1
      <3>3. k \in Zombies(shells)
        BY <2>2, <3>2
      <3> QED
        BY <3>1, <3>3
    <2>4. PICK rest : rest = RemoveAt(shells, k)
      OBVIOUS
    <2>5. PICK i : i = shells[k].tty
      OBVIOUS
    <2>6. /\ shells[k] \in Shells /\ i \in Ttys
          /\ \A j \in DOMAIN shells : shells[j] \in Shells
      <3>1. \A j \in DOMAIN shells : shells[j] \in Shells
        BY LenProperties DEF InitInv
      <3> QED
        BY <2>3, <2>5, <3>1 DEF Shells
    <2>7. {t \in Ttys : tty_pids[t] = shells[k].pid} = {i}
      <3>1. tty_pids[i] = shells[k].pid
        BY <2>3, <2>5 DEF InitInv, Known
      <3>2. ASSUME NEW t \in Ttys, tty_pids[t] = shells[k].pid PROVE t = i
        <4>1. tty_pids[t] # 0
          BY <1>0, <2>6, <3>2 DEF Shells
        <4>2. PICK j \in DOMAIN shells : shells[j].pid = tty_pids[t] /\ shells[j].tty = t
          BY <4>1 DEF InitInv, Known
        <4>3. j = k
          BY <2>3, <3>2, <4>2 DEF InitInv, Known
        <4> QED
          BY <2>5, <4>2, <4>3
      <3> QED
        BY <2>6, <3>1, <3>2
    <2>8. spawn_shell(i, rest)
      <3>1. (CHOOSE t \in {i} : \A j \in {i} : t <= j) = i
        <4>1. i \in Int
          BY <1>0, <2>6 DEF Ttys
        <4> QED
          BY <4>1
      <3>2. \/ {t \in Ttys : tty_pids[t] = shells[k].pid} = {}
            \/ spawn_shell(CHOOSE t \in {i} : \A j \in {i} : t <= j, rest)
        BY <1>2, <2>2, <2>4, <2>7 DEF Respawn
      <3> QED
        BY <2>7, <3>1, <3>2
    <2>9. /\ rest \in Seq(Shells)
          /\ \A j \in DOMAIN rest :
               (IF j < k THEN j ELSE j + 1) \in DOMAIN shells \ {k}
                 /\ rest[j] = shells[IF j < k THEN j ELSE j + 1]
          /\ \A n \in DOMAIN shells \ {k} : \E j \in DOMAIN rest : rest[j] = shells[n]
      BY <2>3, <2>4, WithoutOne DEF InitInv
    <2>10. PICK at : at = [j \in DOMAIN rest |-> IF j < k THEN j ELSE j + 1]
      OBVIOUS
    <2>11. \A j \in DOMAIN rest : at[j] \in DOMAIN shells /\ at[j] # k /\ rest[j] = shells[at[j]]
      BY <2>9, <2>10
    <2>12. Known(rest, [tty_pids EXCEPT ![i] = 0])
      <3>1. ASSUME NEW j \in DOMAIN rest, NEW n \in DOMAIN rest, rest[j].pid = rest[n].pid
            PROVE  j = n
        <4>1. at[j] = at[n]
          BY <2>11, <3>1 DEF InitInv, Known
        <4>2. j \in Nat /\ n \in Nat /\ k \in Nat
          BY <2>3, <2>9, LenProperties DEF InitInv
        <4>3. (IF j < k THEN j ELSE j + 1) = (IF n < k THEN n ELSE n + 1)
          BY <2>10, <4>1
        <4> QED
          BY <4>2, <4>3
      <3>2. ASSUME NEW j \in DOMAIN rest
            PROVE  [tty_pids EXCEPT ![i] = 0][rest[j].tty] = rest[j].pid
        <4>1. rest[j].tty # i
          BY <2>3, <2>5, <2>11, OneEach DEF InitInv
        <4>2. tty_pids[rest[j].tty] = rest[j].pid /\ rest[j].tty \in Ttys
          BY <2>6, <2>11 DEF InitInv, Known, Shells
        <4> QED
          BY <4>1, <4>2 DEF InitInv
      <3>3. ASSUME NEW t \in Ttys, [tty_pids EXCEPT ![i] = 0][t] # 0
            PROVE  \E j \in DOMAIN rest :
                     rest[j].pid = [tty_pids EXCEPT ![i] = 0][t] /\ rest[j].tty = t
        <4>1. t # i /\ tty_pids[t] # 0 /\ [tty_pids EXCEPT ![i] = 0][t] = tty_pids[t]
          BY <2>6, <3>3 DEF InitInv
        <4>2. PICK n \in DOMAIN shells : shells[n].pid = tty_pids[t] /\ shells[n].tty = t
          BY <4>1 DEF InitInv, Known
        <4>3. n # k
          BY <2>5, <4>1, <4>2
        <4>4. PICK j \in DOMAIN rest : rest[j] = shells[n]
          BY <2>9, <4>3
        <4> QED
          BY <4>1, <4>2, <4>4
      <3> QED
        BY <3>1, <3>2, <3>3 DEF Known
    <2>13. /\ tty_pids' \in [Ttys -> InitPids \cup {0}] /\ shells' \in Seq(Shells)
           /\ refused' \subseteq Ttys
           /\ Known(shells', tty_pids')
           /\ tty_pids'[i] = 0 <=> i \in refused'
           /\ \A t \in Ttys \ {i} : tty_pids'[t] = tty_pids[t]
                                      /\ (t \in refused' <=> t \in refused)
      BY <2>6, <2>8, <2>9, <2>12, SpawnKeeps DEF InitInv
    <2>14. UnservedWasRefused'
      <3>1. \A t \in 0 .. boot' - 1 : t \in Ttys
        BY <2>1 DEF Ttys
      <3> QED
        BY <2>1, <2>13, <3>1 DEF InitInv, UnservedWasRefused
    <2>15. \A t \in Ttys : ~ (t >= boot')
      BY <1>0, <2>1 DEF Ttys
    <2> QED
      BY <1>0, <2>1, <2>13, <2>14, <2>15 DEF InitInv
  <1>3. CASE Wait
    BY <1>3 DEF Wait, InitInv, UnservedWasRefused
  <1>4. CASE Resume
    BY <1>4 DEF Resume, InitInv, UnservedWasRefused
  <1>5. ASSUME NEW k \in DOMAIN shells, Start(k) PROVE InitInv'
    BY <1>5, ChildKeeps DEF Start
  <1>6. ASSUME NEW k \in DOMAIN shells, ShellExit(k) PROVE InitInv'
    BY <1>6, ChildKeeps DEF ShellExit
  <1>7. CASE UNCHANGED initVars
    BY <1>7 DEF initVars, InitInv, UnservedWasRefused
  <1> QED
    BY <1>1, <1>2, <1>3, <1>4, <1>5, <1>6, <1>7 DEF InitProcNext, InitStep

(* No terminal ever has two shells or one that init's table does not know, *)
(* over failed forks and reused pids, and a terminal has none only when    *)
(* its last fork failed (spawn_shell and main of init): for every number   *)
(* of terminals and of pids.                                               *)
THEOREM InitIsSafe ==
  InitProcSpec => [](InitTypeOK /\ OneShellPerTty /\ UnservedWasRefused)
  <1>1. InitProcInit => InitInv
    <2> SUFFICES ASSUME InitProcInit PROVE InitInv
      OBVIOUS
    <2>1. DOMAIN shells = {} /\ shells \in Seq(Shells)
      BY DEF InitProcInit
    <2> QED
      BY <2>1, InitAssumption, TtyCountAssumption DEF InitProcInit, InitInv, Known, UnservedWasRefused
  <1>2. InitInv /\ [InitProcNext]_initVars => InitInv'
    BY InitInvStep
  <1> QED
    BY <1>1, <1>2, InitInvCorrect, PTL DEF InitProcSpec
-----------------------------------------------------------------------------
(* The other file systems.                                                 *)

\* The devices there are.
Devices == {[name |-> TtyName(i), data |-> i] : i \in Ttys}
           \cup {[name |-> x, data |-> MARKER] : x \in {"tty", "stdin", "stdout", "stderr"}}

LEMMA DeviceIsRegistered ==
    ASSUME NEW table \in Seq(Devices), NEW x, NEW y, [name |-> x, data |-> y] \in Devices
    PROVE  /\ dev_register(table, x, y) \in Seq(Devices)
           /\ Len(table) < MAX_DEVICES => Len(dev_register(table, x, y)) = Len(table) + 1
  <1>1. Len(table) \in Nat /\ MAX_DEVICES \in Nat
    BY LenProperties, FileSystemsAssumption
  <1>2. PICK e \in Devices : e = [name |-> x, data |-> y]
    OBVIOUS
  <1>3. Append(table, e) \in Seq(Devices) /\ Len(Append(table, e)) = Len(table) + 1
    BY AppendProperties
  <1> QED
    BY <1>1, <1>2, <1>3 DEF dev_register

\* tty_system_init finds room for every device.
LEMMA DevicesAre == tty_system_init \in Seq(Devices) /\ Len(tty_system_init) = TTY_COUNT + 4
  <1>0. /\ TTY_COUNT \in Nat \ {0} /\ MAX_DEVICES \in Nat /\ MAX_DEVICES >= TTY_COUNT + 4
        /\ \A k \in 1 .. TTY_COUNT : [name |-> TtyName(k - 1), data |-> k - 1] \in Devices
        /\ \A x \in {"tty", "stdin", "stdout", "stderr"} : [name |-> x, data |-> MARKER] \in Devices
    BY TtyCountAssumption, FileSystemsAssumption DEF Devices, Ttys
  <1> DEFINE Turn(table, k) == dev_register(table, TtyName(k - 1), k - 1)
             Eq(h) == h = [k \in 0 .. TTY_COUNT |->
                             IF k = 0 THEN <<>> ELSE dev_register(h[k - 1], TtyName(k - 1), k - 1)]
             loop == CHOOSE h : Eq(h)
  <1>1. \A table \in Seq(Devices), k \in 1 .. TTY_COUNT : Turn(table, k) \in Seq(Devices)
    BY <1>0, DeviceIsRegistered
  <1>2. PICK step : step = [p \in (1 .. TTY_COUNT) \X Seq(Devices) |-> Turn(p[2], p[1])]
    OBVIOUS
  <1>3. step \in [(1 .. TTY_COUNT) \X Seq(Devices) -> Seq(Devices)]
    <2> HIDE DEF Turn
    <2> QED
      BY <1>1, <1>2
  <1>4. PICK f \in [0 .. TTY_COUNT -> Seq(Devices)] :
          f[0] = <<>> /\ \A k \in 1 .. TTY_COUNT : f[k] = step[<<k, f[k - 1]>>]
    <2>1. <<>> \in Seq(Devices)
      BY EmptySeq
    <2>2. \E f : Iterates(f, TTY_COUNT, Seq(Devices), <<>>, step)
      BY <1>0, <1>3, <2>1, RecursionExists
    <2> QED
      BY <2>2 DEF Iterates
  <1>5. \A k \in 1 .. TTY_COUNT : f[k] = Turn(f[k - 1], k)
    <2>1. \A k \in 1 .. TTY_COUNT : k - 1 \in 0 .. TTY_COUNT
      BY <1>0
    <2> HIDE DEF Turn
    <2> QED
      BY <1>2, <1>4, <2>1
  <1>6. Eq(f)
    <2>1. \A k \in 0 .. TTY_COUNT : f[k] = IF k = 0 THEN <<>> ELSE Turn(f[k - 1], k)
      <3>1. \A k \in 0 .. TTY_COUNT : k # 0 => k \in 1 .. TTY_COUNT
        OBVIOUS
      <3> HIDE DEF Turn
      <3> QED
        BY <1>4, <1>5, <3>1
    <2>2. f = [k \in 0 .. TTY_COUNT |-> IF k = 0 THEN <<>> ELSE Turn(f[k - 1], k)]
      <3> HIDE DEF Turn
      <3> QED
        BY <1>4, <2>1
    <2> QED
      BY <2>2
  <1>7. Eq(loop)
    <2> HIDE DEF Eq
    <2> QED
      BY <1>6
  <1>8. /\ \A k \in 1 .. TTY_COUNT : loop[k] = Turn(loop[k - 1], k)
        /\ loop[0] = <<>>
    <2> HIDE DEF loop
    <2>1. \A k \in 0 .. TTY_COUNT : loop[k] = IF k = 0 THEN <<>> ELSE Turn(loop[k - 1], k)
      BY <1>7
    <2>2. 0 \in 0 .. TTY_COUNT /\ \A k \in 1 .. TTY_COUNT : k \in 0 .. TTY_COUNT /\ k # 0
      BY <1>0
    <2> HIDE DEF Turn
    <2> QED
      BY <2>1, <2>2
  <1>9. tty_system_init = dev_register(dev_register(dev_register(dev_register(
            loop[TTY_COUNT], "tty", MARKER), "stdin", MARKER), "stdout", MARKER), "stderr", MARKER)
    BY DEF tty_system_init
  <1> HIDE DEF loop, Eq
  <1>10. loop[TTY_COUNT] \in Seq(Devices) /\ Len(loop[TTY_COUNT]) = TTY_COUNT
    <2> DEFINE Holds(k) == loop[k] \in Seq(Devices) /\ Len(loop[k]) = k
               T == {k \in 0 .. TTY_COUNT : Holds(k)}
    <2>1. 0 \in T
      <3>1. loop[0] = <<>> /\ 0 \in 0 .. TTY_COUNT
        BY <1>0, <1>8
      <3>2. <<>> \in Seq(Devices) /\ Len(<<>>) = 0
        BY EmptySeq
      <3> QED
        BY <3>1, <3>2
    <2>2. ASSUME NEW k \in 1 .. TTY_COUNT, k - 1 \in T PROVE k \in T
      <3>1. PICK table \in Seq(Devices) : table = loop[k - 1] /\ Len(table) = k - 1
        BY <2>2
      <3>2. loop[k] = dev_register(table, TtyName(k - 1), k - 1)
        BY <1>8, <3>1
      <3>3. [name |-> TtyName(k - 1), data |-> k - 1] \in Devices /\ k - 1 < MAX_DEVICES
            /\ (k - 1) + 1 = k /\ k \in 0 .. TTY_COUNT
        BY <1>0
      <3> QED
        BY <3>1, <3>2, <3>3, DeviceIsRegistered
    <2>3. \A k \in 0 .. TTY_COUNT : k \in T
      <3> HIDE DEF T
      <3> QED
        BY <1>0, <2>1, <2>2, CountUp
    <2> QED
      BY <1>0, <2>3
  <1>11. ASSUME NEW table \in Seq(Devices), NEW k \in 0 .. 3, Len(table) = TTY_COUNT + k,
                NEW x \in {"tty", "stdin", "stdout", "stderr"}
         PROVE  /\ dev_register(table, x, MARKER) \in Seq(Devices)
                /\ Len(dev_register(table, x, MARKER)) = TTY_COUNT + (k + 1)
    <2>1. Len(table) < MAX_DEVICES /\ Len(table) + 1 = TTY_COUNT + (k + 1)
      BY <1>0, <1>11
    <2> QED
      BY <1>0, <2>1, DeviceIsRegistered
  <1>12. PICK t1, t2, t3, t4 : /\ t1 = dev_register(loop[TTY_COUNT], "tty", MARKER)
                               /\ t2 = dev_register(t1, "stdin", MARKER)
                               /\ t3 = dev_register(t2, "stdout", MARKER)
                               /\ t4 = dev_register(t3, "stderr", MARKER)
    OBVIOUS
  <1>13. t1 \in Seq(Devices) /\ Len(t1) = TTY_COUNT + 1
    <2>1. Len(loop[TTY_COUNT]) = TTY_COUNT + 0 /\ 0 + 1 = 1
      BY <1>0, <1>10
    <2> QED
      BY <1>10, <1>11, <1>12, <2>1
  <1>14. t2 \in Seq(Devices) /\ Len(t2) = TTY_COUNT + 2
    BY <1>11, <1>12, <1>13
  <1>15. t3 \in Seq(Devices) /\ Len(t3) = TTY_COUNT + 3
    BY <1>11, <1>12, <1>14
  <1>16. t4 \in Seq(Devices) /\ Len(t4) = TTY_COUNT + 4
    BY <1>11, <1>12, <1>15
  <1> QED
    BY <1>9, <1>12, <1>16

FileSystemNames == {"root", "sys", "dev", "bin"}

\* The paths that open.
Openable(path) ==
    \/ path.fs = "root" \/ path.name = ""
    \/ path.fs = "dev" /\ \E k \in 1 .. Len(devices) : devices[k].name = path.name
    \/ path.fs = "bin" /\ find_bin(path)

LEMMA LookupFinds ==
    ASSUME devices \in Seq(Devices), NEW name
    PROVE  /\ dev_lookup(name) \subseteq {k \in 1 .. Len(devices) : devices[k].name = name}
           /\ (\E k \in 1 .. Len(devices) : devices[k].name = name) => dev_lookup(name) # {}
  <1>1. Len(devices) \in Nat /\ DOMAIN devices = 1 .. Len(devices)
    BY LenProperties
  <1>2. ASSUME NEW k \in 1 .. Len(devices), devices[k].name = name
        PROVE  dev_lookup(name) # {}
    <2> DEFINE T == {j \in 1 .. Len(devices) : devices[j].name = name}
    <2>1. T \subseteq Nat /\ T # {}
      BY <1>1, <1>2
    <2>2. PICK x \in T : \A y \in T : ~(y < x)
      <3> HIDE DEF T
      <3> QED
        BY <2>1, LeastNat
    <2>3. \A j \in 1 .. x - 1 : devices[j].name # name
      BY <1>1, <2>2
    <2> QED
      BY <1>1, <2>2, <2>3 DEF dev_lookup
  <1> QED
    BY <1>1, <1>2 DEF dev_lookup

\* A file just opened.
Fresh(f, path) ==
    /\ DOMAIN f = {"fs", "name", "ops", "data", "pos"}
    /\ f.fs = path.fs /\ f.name = path.name /\ f.pos = 0
    /\ f.ops \subseteq {"read", "write", "getdents", "fstat"}
    /\ f.data = [fs |-> "program"] => "fstat" \in f.ops

\* A path opens exactly if it is one of these, and the file is at its start.
LEMMA OpenIs ==
    ASSUME devices \in Seq(Devices), NEW path, path.fs \in FileSystemNames, NEW f, f = fs_open(path)
    PROVE  /\ f # NONE <=> Openable(path)
           /\ f # NONE => Fresh(f, path)
           /\ path.fs = "dev" /\ path.name = "stdin" /\ f # NONE /\ ctty # NO_TTY => f.data.tty = ctty
  <1>1. ASSUME NEW ops, NEW data
        PROVE  /\ Opened(path, ops, data) # NONE
               /\ Opened(path, ops, data).data = data
               /\ ops \subseteq {"read", "write", "getdents", "fstat"}
                    /\ (data = [fs |-> "program"] => "fstat" \in ops) => Fresh(Opened(path, ops, data), path)
    <2>1. PICK o : o = [fs |-> path.fs, name |-> path.name, ops |-> ops, data |-> data, pos |-> 0]
      OBVIOUS
    <2>2. Opened(path, ops, data) = o
      BY <2>1 DEF Opened
    <2>3. /\ DOMAIN o = {"fs", "name", "ops", "data", "pos"}
          /\ o.fs = path.fs /\ o.name = path.name /\ o.pos = 0 /\ o.ops = ops /\ o.data = data
      BY <2>1
    <2>4. NONE.fs = "none" /\ path.fs # "none"
      BY DEF NONE, FileSystemNames
    <2> QED
      BY <2>2, <2>3, <2>4 DEF Fresh
  <1>3. NONE # [fs |-> "program"] /\ \A x : [fs |-> "tty", tty |-> x] # [fs |-> "program"]
    <2>1. NONE.fs = "none" /\ [fs |-> "program"].fs = "program"
      BY DEF NONE
    <2>2. \A x : [fs |-> "tty", tty |-> x].fs = "tty"
      OBVIOUS
    <2> QED
      BY <2>1, <2>2
  <1>a. /\ \A ops \in {{"getdents"}, {"read", "getdents", "fstat"}} :
             Opened(path, ops, NONE) # NONE /\ Fresh(Opened(path, ops, NONE), path)
        /\ Opened(path, {"read", "getdents", "fstat"}, [fs |-> "program"]) # NONE
        /\ Fresh(Opened(path, {"read", "getdents", "fstat"}, [fs |-> "program"]), path)
        /\ \A x : /\ Opened(path, {"getdents", "read", "write"}, [fs |-> "tty", tty |-> x]) # NONE
                  /\ Fresh(Opened(path, {"getdents", "read", "write"}, [fs |-> "tty", tty |-> x]), path)
    <2>1. {"getdents"} \subseteq {"read", "write", "getdents", "fstat"}
          /\ {"read", "getdents", "fstat"} \subseteq {"read", "write", "getdents", "fstat"}
          /\ {"getdents", "read", "write"} \subseteq {"read", "write", "getdents", "fstat"}
          /\ "fstat" \in {"read", "getdents", "fstat"}
      OBVIOUS
    <2> QED
      BY <1>1, <1>3, <2>1
  <1>b. \A x, y : [fs |-> x, tty |-> y].tty = y
    OBVIOUS
  <1>4. CASE path.fs = "root"
    <2>1. f = Opened(path, {"getdents"}, NONE)
      BY <1>4 DEF fs_open, root_open
    <2> QED
      BY <1>a, <1>4, <2>1 DEF Openable
  <1>5. CASE path.fs = "sys"
    <2>1. f = IF path.name = "" THEN Opened(path, {"getdents"}, NONE) ELSE NONE
      BY <1>5 DEF fs_open, sys_open
    <2> QED
      BY <1>a, <1>5, <2>1 DEF Openable
  <1>6. CASE path.fs = "bin"
    <2>1. f = IF path.name = "" THEN Opened(path, {"read", "getdents", "fstat"}, NONE)
              ELSE IF ~ find_bin(path) THEN NONE
              ELSE Opened(path, {"read", "getdents", "fstat"}, [fs |-> "program"])
      BY <1>6 DEF fs_open, bin_open
    <2> QED
      BY <1>a, <1>6, <2>1 DEF Openable
  <1>7. CASE path.fs = "dev"
    <2>0. f = dev_open(path)
      BY <1>7 DEF fs_open
    <2>1. CASE path.name = ""
      <3>1. f = Opened(path, {"getdents"}, NONE)
        BY <2>0, <2>1 DEF dev_open
      <3> QED
        BY <1>a, <1>7, <2>1, <3>1 DEF Openable
    <2>2. CASE path.name # "" /\ dev_lookup(path.name) = {}
      <3>1. f = NONE
        BY <2>0, <2>2 DEF dev_open
      <3> QED
        BY <1>7, <2>2, <3>1, LookupFinds DEF Openable
    <2>3. CASE path.name # "" /\ dev_lookup(path.name) # {}
      <3>1. PICK k : k = CHOOSE i \in dev_lookup(path.name) : TRUE
        OBVIOUS
      <3>2. PICK dev : dev = devices[k]
        OBVIOUS
      <3>3. f = Opened(path, {"getdents", "read", "write"}, [fs |-> "tty", tty |-> tty_open(dev)])
        BY <2>0, <2>3, <3>1, <3>2 DEF dev_open
      <3>4. k \in 1 .. Len(devices) /\ dev.name = path.name /\ dev \in Devices
        <4>1. k \in dev_lookup(path.name)
          BY <2>3, <3>1
        <4>2. k \in 1 .. Len(devices) /\ devices[k].name = path.name
          BY <4>1, LookupFinds
        <4> QED
          BY <3>2, <4>2, ElementOfSeq
      <3>5. path.name = "stdin" /\ ctty # NO_TTY => tty_open(dev) = ctty
        <4>1. path.name = "stdin" => dev.data = MARKER
          BY <3>4, FileSystemsAssumption DEF Devices
        <4> QED
          BY <3>4, <4>1 DEF tty_open
      <3>6. f.data.tty = tty_open(dev)
        BY <1>1, <1>b, <3>3
      <3>7. f # NONE /\ Fresh(f, path)
        BY <1>a, <3>3
      <3>8. Openable(path)
        BY <1>7, <3>2, <3>4 DEF Openable
      <3> QED
        BY <3>5, <3>6, <3>7, <3>8
    <2> QED
      BY <2>1, <2>2, <2>3
  <1> QED
    BY <1>4, <1>5, <1>6, <1>7 DEF FileSystemNames

\* The open file, and what was read of it.
FileFits ==
    fs_file # NONE =>
      /\ DOMAIN fs_file = {"fs", "name", "ops", "data", "pos"}
      /\ fs_file.fs \in FileSystemNames /\ fs_file.pos \in Nat
      /\ fs_file.ops \subseteq {"read", "write", "getdents", "fstat"}
      /\ fs_file.data = [fs |-> "program"] => "fstat" \in fs_file.ops
      /\ got # <<>> => fs_file.pos = got[1] + Len(got)

BytesInOrder ==
    /\ got \in Seq(Nat)
    /\ \A k \in 1 .. Len(got) : got[k] = got[1] + k - 1 /\ got[k] < BinSize

FsInv ==
    /\ devices \in Seq(Devices) /\ Len(devices) = TTY_COUNT + 4
    /\ active \in Ttys /\ ctty \in Ttys \cup {NO_TTY}
    /\ fs_cwd.fs \in FileSystemNames /\ Openable(fs_cwd)
    /\ FileFits /\ BytesInOrder
    /\ \A path \in names : path.fs \in {"sys", "dev"} => Openable(path)

LEMMA FsInvCorrect ==
    ASSUME FsInv
    PROVE  FsTypeOK /\ ReadsInOrder /\ ListedOpens /\ CwdOpens
  <1>1. FsTypeOK
    BY DEF FsInv, FileFits, FsTypeOK, FileSystemNames
  <1>2. ReadsInOrder
    <2>1. got \in Seq(Nat) /\ Len(got) \in Nat /\ DOMAIN got = 1 .. Len(got)
      BY LenProperties DEF FsInv, BytesInOrder
    <2>2. \A k \in 1 .. Len(got) : got[k] = got[1] + k - 1 /\ got[k] < BinSize
      BY DEF FsInv, BytesInOrder
    <2>3. ASSUME fs_file # NONE, fs_file.data = [fs |-> "program"], Len(got) = BinSize
          PROVE  fs_file.pos = vfs_fstat.size
      <3>1. BinSize \in Nat \ {0}
        BY FileSystemsAssumption
      <3>2. got # <<>> /\ 1 \in 1 .. Len(got) /\ BinSize \in 1 .. Len(got)
        BY <2>1, <2>3, <3>1
      <3>3. got[1] \in Nat
        BY <2>1, <3>2, ElementOfSeq
      <3>4. got[1] = 0
        <4>1. got[BinSize] = got[1] + BinSize - 1 /\ got[BinSize] < BinSize
          BY <2>2, <3>2
        <4> QED
          BY <3>1, <3>3, <4>1
      <3>5. fs_file.pos = BinSize /\ "fstat" \in fs_file.ops
        BY <2>1, <2>3, <3>1, <3>2, <3>4 DEF FsInv, FileFits
      <3>6. fs_file.data # NONE
        <4>1. NONE.fs = "none" /\ [fs |-> "program"].fs = "program"
          BY DEF NONE
        <4> QED
          BY <2>3, <4>1
      <3>7. vfs_fstat = [type |-> "reg", size |-> BinSize]
        BY <3>5, <3>6 DEF vfs_fstat
      <3> QED
        BY <3>5, <3>7
    <2> QED
      BY <2>1, <2>2, <2>3 DEF ReadsInOrder
  <1>3. ListedOpens
    <2> SUFFICES ASSUME NEW path \in names, path.fs \in {"sys", "dev"} PROVE fs_open(path) # NONE
      BY DEF ListedOpens
    <2>1. Openable(path) /\ devices \in Seq(Devices) /\ path.fs \in FileSystemNames
      BY DEF FsInv, FileSystemNames
    <2>2. PICK f : f = fs_open(path)
      OBVIOUS
    <2> QED
      BY <2>1, <2>2, OpenIs
  <1>4. CwdOpens
    <2>1. PICK f : f = fs_open(fs_cwd)
      OBVIOUS
    <2> QED
      BY <2>1, OpenIs DEF FsInv, CwdOpens
  <1> QED
    BY <1>1, <1>2, <1>3, <1>4

LEMMA FsStart == FsInit => FsInv
  <1> SUFFICES ASSUME FsInit PROVE FsInv
    OBVIOUS
  <1>1. devices \in Seq(Devices) /\ Len(devices) = TTY_COUNT + 4
    BY DevicesAre DEF FsInit
  <1>2. active \in Ttys /\ ctty \in Ttys \cup {NO_TTY}
    <2>1. 0 \in Ttys
      BY TtyCountAssumption DEF Ttys
    <2> QED
      BY <2>1 DEF FsInit
  <1>3. fs_cwd.fs \in FileSystemNames /\ Openable(fs_cwd)
    BY DEF FsInit, P, FileSystemNames, Openable
  <1>4. FileFits /\ names = {}
    BY DEF FsInit, FileFits
  <1>5. BytesInOrder
    <2>1. got = <<>> /\ <<>> \in Seq(Nat) /\ Len(got) = 0
      BY EmptySeq DEF FsInit
    <2> QED
      BY <2>1 DEF BytesInOrder
  <1> QED
    BY <1>1, <1>2, <1>3, <1>4, <1>5 DEF FsInv

\* What keeps the device table keeps what opens.
LEMMA OpenableStays ==
    ASSUME UNCHANGED devices
    PROVE  \A path : Openable(path) <=> Openable(path)'
  BY DEF Openable

\* The paths that are tried are in one of the four.
LEMMA TriedPaths ==
    ASSUME NEW path \in FsPaths
    PROVE  path.fs \in FileSystemNames
  <1>1. \A fs, name : P(fs, name).fs = fs
    BY DEF P
  <1>2. \E fs \in FileSystemNames : \E name : path = P(fs, name)
    BY DEF FsPaths, FileSystemNames
  <1> QED
    BY <1>1, <1>2

\* How many entries a listing has and how far it goes.
LEMMA ListingIs ==
    ASSUME FsInv, fs_file # NONE, NEW count \in Nat
    PROVE  /\ Listing(count).n \in Nat
           /\ fs_file.pos > 0 => Listing(count).n = 0
           /\ \A path \in Listing(count).names :
                path.fs \in {"sys", "dev"} => Openable(path)
  <1> DEFINE e == Entries(fs_file.fs)
  <1>1. fs_file.fs \in FileSystemNames /\ fs_file.pos \in Nat
    BY DEF FsInv, FileFits
  <1>2. devices \in Seq(Devices) /\ Len(devices) \in Nat /\ DOMAIN devices = 1 .. Len(devices)
    BY LenProperties DEF FsInv
  <1>3. Len(e) \in Nat /\ \A k \in 1 .. Len(e) : e[k].fs \in {"sys", "dev"} => Openable(e[k])
    <2>1. CASE fs_file.fs = "root"
      <3>1. e = <<P("sys", ""), P("proc", ""), P("dev", ""), P("bin", "")>>
        BY <2>1 DEF Entries, vfs_get_root_mounts
      <3>a. \A fs, name : P(fs, name).name = name
        BY DEF P
      <3> HIDE DEF e
      <3>b. Len(e) = 4 /\ e[1].name = "" /\ e[2].name = "" /\ e[3].name = "" /\ e[4].name = ""
        BY <3>1, <3>a
      <3>c. \A k \in 1 .. 4 : k = 1 \/ k = 2 \/ k = 3 \/ k = 4
        OBVIOUS
      <3>2. Len(e) = 4 /\ \A k \in 1 .. 4 : e[k].name = ""
        BY <3>b, <3>c
      <3>3. \A q : q.name = "" => Openable(q)
        BY DEF Openable
      <3>4. ASSUME NEW k \in 1 .. Len(e) PROVE Openable(e[k])
        <4>1. k \in 1 .. 4
          BY <3>2
        <4> QED
          BY <3>2, <3>3, <4>1
      <3>5. Len(e) \in Nat
        <4>1. 4 \in Nat /\ Len(e) = 4
          BY <3>2
        <4> QED
          BY <4>1, Zenon
      <3> QED
        BY <3>4, <3>5
    <2>2. CASE fs_file.fs = "sys"
      <3>1. e = <<>> /\ Len(e) = 0
        BY <2>2 DEF Entries, sys_getdents
      <3> QED
        BY <3>1
    <2>3. CASE fs_file.fs = "dev"
      <3>1. e = [k \in 1 .. Len(devices) |-> P("dev", devices[k].name)]
        BY <1>2, <2>3 DEF Entries, dev_getdents
      <3>2. Len(e) = Len(devices)
        BY <1>2, <3>1
      <3>3. \A k \in 1 .. Len(e) : e[k].fs = "dev" /\ e[k].name = devices[k].name
        BY <3>1, <3>2 DEF P
      <3> QED
        BY <1>2, <3>2, <3>3 DEF Openable
    <2>4. CASE fs_file.fs = "bin"
      <3>1. Len(Bins) \in Nat /\ DOMAIN Bins = 1 .. Len(Bins)
        BY FileSystemsAssumption, LenProperties
      <3>2. e = [k \in 1 .. Len(Bins) |-> P("bin", Bins[k].name)]
        BY <2>4, <3>1 DEF Entries, elf_fill_bin_dirents
      <3>3. Len(e) = Len(Bins)
        BY <3>1, <3>2
      <3>4. \A k \in 1 .. Len(e) : e[k].fs = "bin"
        BY <3>2, <3>3 DEF P
      <3> QED
        BY <3>1, <3>3, <3>4
    <2> QED
      BY <1>1, <2>1, <2>2, <2>3, <2>4 DEF FileSystemNames
  <1>4. PICK max : max = count \div DirentSize
    OBVIOUS
  <1>5. max \in Nat
    BY <1>4, FileSystemsAssumption
  <1> HIDE DEF e
  <1>6. CASE max = 0 \/ fs_file.pos > 0
    <2>1. Listing(count) = [n |-> 0, names |-> {}]
      BY <1>4, <1>6 DEF Listing
    <2> QED
      BY <2>1
  <1>7. CASE ~(max = 0 \/ fs_file.pos > 0)
    <2>1. PICK x, y : x = Min({max, 2 + Len(e)}) /\ y = Min({max - 2, Len(e)})
      OBVIOUS
    <2>0. PICK len \in Nat : len = Len(e)
      BY <1>3
    <2>2. x \in Nat
      <3>0. PICK z \in Nat : z = 2 + len
        BY <2>0
      <3>1. x \in {max, z}
        <4>1. x = Min({max, z})
          BY <2>0, <2>1, <3>0
        <4> QED
          BY <1>5, <4>1, MinOfTwo
      <3> QED
        BY <1>5, <3>0, <3>1
    <2>3. y \in Int /\ y <= Len(e)
      <3>0. PICK z \in Int : z = max - 2
        BY <1>5
      <3>1. y \in {z, len} /\ y <= len
        <4>1. y = Min({z, len})
          BY <2>0, <2>1, <3>0
        <4>2. Min({z, len}) \in {z, len} /\ Min({z, len}) <= len
          BY MinOfTwo
        <4> QED
          BY <4>1, <4>2
      <3> QED
        BY <2>0, <3>0, <3>1
    <2>4. Listing(count) = [n |-> x, names |-> {e[k] : k \in 1 .. y}]
      BY <1>4, <1>7, <2>1 DEF Listing, e
    <2>5. 1 .. y \subseteq 1 .. Len(e)
      BY <1>3, <2>3
    <2> QED
      BY <1>3, <1>7, <2>2, <2>4, <2>5
  <1> QED
    BY <1>6, <1>7

\* What a read copies lies within the program.
LEMMA BinReads ==
    ASSUME NEW count \in Nat, fs_file.pos \in Nat
    PROVE  bin_read(count) \in Nat /\ (bin_read(count) > 0 => fs_file.pos + bin_read(count) <= BinSize)
  <1>0. BinSize \in Nat
    BY FileSystemsAssumption
  <1>1. CASE fs_file.data = NONE \/ fs_file.pos >= BinSize
    BY <1>1 DEF bin_read
  <1>2. CASE ~(fs_file.data = NONE \/ fs_file.pos >= BinSize)
    <2>1. PICK x : x = Min({count, BinSize - fs_file.pos})
      OBVIOUS
    <2>2. x \in {count, BinSize - fs_file.pos} /\ x <= BinSize - fs_file.pos
      <3>1. PICK z \in Int : z = BinSize - fs_file.pos
        BY <1>0
      <3>2. x = Min({count, z})
        BY <2>1, <3>1
      <3>3. x \in {count, z} /\ x <= z
        <4>1. Min({count, z}) \in {count, z} /\ Min({count, z}) <= z
          BY MinOfTwo
        <4> QED
          BY <3>2, <4>1
      <3> QED
        BY <3>1, <3>3
    <2>3. bin_read(count) = x
      BY <1>2, <2>1 DEF bin_read
    <2> QED
      BY <1>0, <1>2, <2>2, <2>3
  <1> QED
    BY <1>1, <1>2

LEMMA FsReadKeeps ==
    ASSUME FsInv, NEW count \in Nat, FsRead(count)
    PROVE  FileFits' /\ BytesInOrder'
  <1>1. /\ fs_file # NONE /\ DOMAIN fs_file = {"fs", "name", "ops", "data", "pos"}
        /\ fs_file.fs \in FileSystemNames /\ fs_file.pos \in Nat
    BY DEF FsRead, FsInv, FileFits
  <1>2. PICK z, p : z = bin_read(count) /\ p = fs_file.pos
    OBVIOUS
  <1>3. p \in Nat /\ z \in Nat /\ (z > 0 => p + z <= BinSize) /\ BinSize \in Nat
    BY <1>1, <1>2, BinReads, FileSystemsAssumption
  <1>4. PICK new : new = [k \in 1 .. z |-> p + k - 1]
    OBVIOUS
  <1>5. new \in Seq(Nat) /\ Len(new) = z
    <2>1. new \in [1 .. z -> Nat]
      BY <1>3, <1>4
    <2> QED
      BY <1>3, <2>1, IsASeq, LenProperties
  <1>6. got' = got \o new /\ fs_file' = [fs_file EXCEPT !.pos = p + z]
    BY <1>2, <1>4 DEF FsRead
  <1>7. got \in Seq(Nat) /\ Len(got) \in Nat
    BY LenProperties DEF FsInv, BytesInOrder
  <1>8. /\ got' \in Seq(Nat) /\ Len(got') = Len(got) + z
        /\ \A k \in 1 .. Len(got') : got'[k] = IF k <= Len(got) THEN got[k] ELSE new[k - Len(got)]
    <2>1. PICK g, h, x : g \in Seq(Nat) /\ h \in Seq(Nat) /\ g = got /\ h = new /\ x = g \o h
      BY <1>5, <1>7
    <2>a. /\ x \in Seq(Nat) /\ Len(x) = Len(g) + Len(h)
          /\ \A k \in 1 .. Len(g) + Len(h) : x[k] = IF k <= Len(g) THEN g[k] ELSE h[k - Len(g)]
      BY <2>1, ConcatProperties
    <2>2. /\ x \in Seq(Nat) /\ Len(x) = Len(got) + Len(new)
          /\ \A k \in 1 .. Len(x) : x[k] = IF k <= Len(got) THEN got[k] ELSE new[k - Len(got)]
      BY <2>1, <2>a
    <2>3. got' = x /\ Len(new) = z
      BY <1>5, <1>6, <2>1
    <2>4. got' \in Seq(Nat) /\ Len(got') = Len(got) + z
      BY <2>2, <2>3
    <2> QED
      BY <2>2, <2>3, <2>4
  <1>9. \A k \in 1 .. Len(got) : got[k] = got[1] + k - 1 /\ got[k] < BinSize
    BY DEF FsInv, BytesInOrder
  <1>10. got # <<>> => p = got[1] + Len(got)
    BY <1>1, <1>2 DEF FsInv, FileFits
  <1>11. got = <<>> <=> Len(got) = 0
    BY <1>7, EmptySeq
  <1>f. ASSUME got' # <<>> => p + z = got'[1] + Len(got') PROVE FileFits'
    <2>1. /\ DOMAIN fs_file' = {"fs", "name", "ops", "data", "pos"} /\ fs_file'.pos = p + z
          /\ fs_file'.fs = fs_file.fs /\ fs_file'.ops = fs_file.ops /\ fs_file'.data = fs_file.data
      BY <1>1, <1>6
    <2>2. p + z \in Nat
      BY <1>3
    <2> QED
      BY <1>1, <1>f, <2>1, <2>2 DEF FsInv, FileFits
  <1>12. CASE Len(got) = 0
    <2>1. Len(got') = z /\ \A k \in 1 .. z : got'[k] = p + k - 1
      BY <1>3, <1>4, <1>8, <1>12
    <2>2. \A k \in 1 .. Len(got') : got'[k] = got'[1] + k - 1 /\ got'[k] < BinSize
      BY <1>3, <2>1
    <2>3. got' # <<>> => p + z = got'[1] + Len(got')
      <3>1. got' # <<>> => z > 0
        BY <1>3, <1>8, <2>1, EmptySeq
      <3>2. z > 0 => 1 \in 1 .. z
        BY <1>3
      <3> QED
        BY <1>3, <2>1, <3>1, <3>2
    <2> QED
      BY <1>f, <1>8, <2>2, <2>3 DEF BytesInOrder
  <1>13. CASE Len(got) > 0
    <2>0. PICK len \in Nat : len = Len(got) /\ len > 0
      BY <1>7, <1>13
    <2>1. got'[1] = got[1] /\ got[1] \in Nat /\ p = got[1] + len
      <3>1. 1 \in 1 .. len /\ 1 \in 1 .. (len + z) /\ 1 <= len
        BY <1>3, <2>0
      <3> QED
        BY <1>7, <1>8, <1>10, <1>11, <1>13, <2>0, <3>1, ElementOfSeq
    <2>2. ASSUME NEW k \in 1 .. Len(got')
          PROVE  got'[k] = got'[1] + k - 1 /\ got'[k] < BinSize
      <3>0. k \in 1 .. len + z /\ k \in Nat
        BY <1>3, <1>8, <2>0
      <3>1. CASE k <= len
        <4>1. k \in 1 .. Len(got) /\ got'[k] = got[k]
          BY <1>8, <2>0, <3>0, <3>1
        <4> QED
          BY <1>9, <2>1, <4>1
      <3>2. CASE ~(k <= len)
        <4>1. k - len \in 1 .. z
          BY <1>3, <2>0, <3>0, <3>2
        <4>2. got'[k] = new[k - len]
          BY <1>8, <2>0, <3>2
        <4>3. PICK j \in 1 .. z : j = k - len /\ got'[k] = p + j - 1
          BY <1>4, <4>1, <4>2
        <4>4. p + j - 1 < BinSize
          BY <1>3, <4>3
        <4>5. p + j - 1 = got[1] + k - 1
          <5>1. PICK x \in Nat, m \in Nat : x = got[1] /\ m = k
            BY <2>1, <3>0
          <5>2. p = x + len /\ j = m - len /\ j \in Int
            BY <1>3, <2>1, <4>3, <5>1
          <5>3. p + j - 1 = x + m - 1
            BY <5>2
          <5> QED
            BY <5>1, <5>3
        <4> QED
          BY <2>1, <4>3, <4>4, <4>5
      <3> QED
        BY <3>1, <3>2
    <2>3. p + z = got'[1] + Len(got')
      <3>1. PICK x \in Nat : x = got[1]
        BY <2>1
      <3>2. p = x + len /\ got'[1] = x /\ Len(got') = len + z
        BY <1>8, <2>0, <2>1, <3>1
      <3> QED
        BY <1>3, <3>2
    <2> QED
      BY <1>f, <1>8, <2>2, <2>3 DEF BytesInOrder
  <1> QED
    BY <1>7, <1>12, <1>13

LEMMA FsInvStep ==
    ASSUME FsInv, [FsNext]_fsVars
    PROVE  /\ FsInv'
           /\ fs_file = NONE /\ fs_file' # NONE /\ fs_file'.fs = "dev" /\ fs_file'.name = "stdin"
                /\ ctty # NO_TTY => fs_file'.data.tty = ctty
  <1>a. UNCHANGED devices
    BY DEF FsNext, fsVars, FsOpen, FsChdir, FsClose, FsRead, FsGetdents, Activate, SetCtty
  <1>b. devices' \in Seq(Devices) /\ Len(devices') = TTY_COUNT + 4 /\ devices \in Seq(Devices)
    BY <1>a DEF FsInv
  <1>c. \A path : Openable(path) <=> Openable(path)'
    BY <1>a, OpenableStays
  <1>d. /\ names' = names => \A path \in names' : path.fs \in {"sys", "dev"} => Openable(path)'
        /\ fs_cwd' = fs_cwd => fs_cwd'.fs \in FileSystemNames /\ Openable(fs_cwd)'
        /\ active' = active => active' \in Ttys
        /\ ctty' = ctty => ctty' \in Ttys \cup {NO_TTY}
        /\ got' = got => BytesInOrder'
        /\ got' = got /\ fs_file' = fs_file => FileFits'
    <2>1. fs_cwd' = fs_cwd => (Openable(fs_cwd)' <=> Openable(fs_cwd))
      BY <1>a DEF Openable
    <2> QED
      BY <1>c, <2>1 DEF FsInv, FileFits, BytesInOrder
  <1>1. CASE UNCHANGED fsVars
    BY <1>b, <1>d, <1>1 DEF FsInv, fsVars
  <1>2. ASSUME NEW path \in FsPaths, FsOpen(path)
        PROVE  /\ FsInv'
               /\ fs_file' # NONE /\ fs_file'.fs = "dev" /\ fs_file'.name = "stdin" /\ ctty # NO_TTY
                    => fs_file'.data.tty = ctty
    <2>1. path.fs \in FileSystemNames
      BY TriedPaths
    <2>2. PICK f : f = fs_open(path)
      OBVIOUS
    <2>3. /\ f # NONE => Fresh(f, path)
          /\ path.fs = "dev" /\ path.name = "stdin" /\ f # NONE /\ ctty # NO_TTY => f.data.tty = ctty
      BY <1>b, <2>1, <2>2, OpenIs
    <2>4. /\ fs_file' = f /\ got' = <<>> /\ names' = {}
          /\ UNCHANGED <<devices, active, ctty, fs_cwd>>
      BY <1>2, <2>2 DEF FsOpen
    <2>5. FileFits'
      BY <2>1, <2>3, <2>4 DEF FileFits, Fresh
    <2>6. BytesInOrder'
      <3>1. got' \in Seq(Nat) /\ Len(got') = 0
        BY <2>4, EmptySeq
      <3> QED
        BY <3>1 DEF BytesInOrder
    <2>7. FsInv'
      BY <1>b, <1>d, <2>4, <2>5, <2>6 DEF FsInv
    <2> QED
      BY <2>3, <2>4, <2>7 DEF Fresh
  <1>3. ASSUME NEW path \in FsPaths, FsChdir(path)
        PROVE  FsInv' /\ fs_file' = fs_file
    <2>0. PICK f : f = fs_open(path)
      OBVIOUS
    <2>1. path.fs \in FileSystemNames /\ Openable(path)
      BY <1>b, <1>3, <2>0, TriedPaths, OpenIs DEF FsChdir
    <2>2. fs_cwd' = path /\ UNCHANGED <<devices, active, ctty, fs_file, got, names>>
      BY <1>3 DEF FsChdir
    <2>3. Openable(fs_cwd)'
      BY <2>1, <2>2 DEF Openable
    <2> QED
      BY <1>b, <1>d, <2>1, <2>2, <2>3 DEF FsInv
  <1>4. ASSUME FsClose PROVE FsInv' /\ fs_file' = NONE
    <2>1. fs_file' = NONE /\ UNCHANGED <<devices, active, ctty, fs_cwd, got, names>>
      BY <1>4 DEF FsClose
    <2>2. FileFits'
      BY <2>1 DEF FileFits
    <2> QED
      BY <1>b, <1>d, <2>1, <2>2 DEF FsInv
  <1>5. ASSUME NEW count \in 0 .. FsMaxCount, FsRead(count)
        PROVE  FsInv' /\ fs_file # NONE
    <2>1. count \in Nat
      BY FileSystemsAssumption
    <2>2. FileFits' /\ BytesInOrder'
      BY <1>5, <2>1, FsReadKeeps
    <2>3. fs_file # NONE /\ UNCHANGED <<devices, active, ctty, fs_cwd, names>>
      BY <1>5 DEF FsRead
    <2> QED
      BY <1>b, <1>d, <2>2, <2>3 DEF FsInv
  <1>6. ASSUME NEW count \in 0 .. FsMaxCount, FsGetdents(count)
        PROVE  FsInv' /\ fs_file # NONE
    <2>1. count \in Nat /\ DirentSize \in Nat
      BY FileSystemsAssumption
    <2>2. fs_file # NONE /\ UNCHANGED <<devices, active, ctty, fs_cwd, got>>
      BY <1>6 DEF FsGetdents
    <2>3. PICK l : l = Listing(count)
      OBVIOUS
    <2>4. /\ l.n \in Nat /\ (fs_file.pos > 0 => l.n = 0)
          /\ \A path \in l.names : path.fs \in {"sys", "dev"} => Openable(path)
      BY <2>1, <2>2, <2>3, ListingIs
    <2>5. names' = l.names /\ fs_file' = [fs_file EXCEPT !.pos = fs_file.pos + l.n * DirentSize]
      BY <1>6, <2>3 DEF FsGetdents
    <2>6. \A path \in names' : path.fs \in {"sys", "dev"} => Openable(path)'
      BY <1>c, <2>4, <2>5
    <2>7. PICK z : z = l.n * DirentSize
      OBVIOUS
    <2>8. z \in Nat /\ (fs_file.pos > 0 => z = 0)
      BY <2>1, <2>4, <2>7
    <2>9. /\ DOMAIN fs_file = {"fs", "name", "ops", "data", "pos"}
          /\ fs_file.pos \in Nat /\ (got # <<>> => fs_file.pos = got[1] + Len(got))
      BY <2>2 DEF FsInv, FileFits
    <2>10. got # <<>> => fs_file.pos > 0
      <3>1. got \in Seq(Nat)
        BY DEF FsInv, BytesInOrder
      <3>2. got # <<>> => Len(got) \in Nat /\ Len(got) > 0 /\ 1 \in 1 .. Len(got)
        BY <3>1, LenProperties, EmptySeq
      <3>3. got # <<>> => got[1] \in Nat
        BY <3>1, <3>2, ElementOfSeq
      <3> QED
        BY <2>9, <3>2, <3>3
    <2>11. fs_file'.pos = fs_file.pos + z /\ fs_file'.pos \in Nat
           /\ (got # <<>> => fs_file'.pos = fs_file.pos)
      BY <2>5, <2>7, <2>8, <2>9, <2>10
    <2>12. FileFits'
      BY <2>2, <2>5, <2>9, <2>11 DEF FsInv, FileFits
    <2> QED
      BY <1>b, <1>d, <2>2, <2>6, <2>12 DEF FsInv
  <1>7. ASSUME NEW tty \in Ttys, Activate(tty) \/ SetCtty(tty)
        PROVE  FsInv' /\ fs_file' = fs_file
    <2>1. /\ UNCHANGED <<devices, fs_cwd, fs_file, got, names>>
          /\ active' \in Ttys /\ ctty' \in Ttys \cup {NO_TTY}
      BY <1>7 DEF FsInv, Activate, SetCtty
    <2> QED
      BY <1>b, <1>d, <2>1 DEF FsInv
  <1>8. CASE FsNext
    BY <1>2, <1>3, <1>4, <1>5, <1>6, <1>7, <1>8 DEF FsNext
  <1> QED
    BY <1>1, <1>8 DEF fsVars

(* Reads of a program go on where the last one ended, what a listing names *)
(* and what chdir took opens again, and the standard names lead to the     *)
(* task's own terminal, for every number of terminals and every set of     *)
(* programs (root_fs.c, sys_fs.c, dev_fs.c, bin_fs.c, tty.c).              *)
THEOREM FsIsCorrect == FsSpec => FsCorrect
  <1>1. FsInit => FsInv
    BY FsStart
  <1>2. FsInv /\ [FsNext]_fsVars => FsInv'
    BY FsInvStep
  <1>3. FsInv /\ [FsNext]_fsVars =>
          [fs_file = NONE /\ fs_file' # NONE /\ fs_file'.fs = "dev" /\ fs_file'.name = "stdin" /\ ctty # NO_TTY
             => fs_file'.data.tty = ctty]_fsVars
    BY FsInvStep
  <1>4. FsInv => FsTypeOK /\ ReadsInOrder /\ ListedOpens /\ CwdOpens
    BY FsInvCorrect
  <1> QED
    BY <1>1, <1>2, <1>3, <1>4, PTL DEF FsSpec, FsCorrect, StandardFilesAreOwn
=============================================================================
