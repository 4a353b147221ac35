------------------------------ MODULE MCFiles ------------------------------
(***************************************************************************)
(* The modules of the file system side by side: path names, open files,    *)
(* the process file system and the others.  They share no variable, so a   *)
(* behaviour picks one of them and the rest stay as they began.            *)
(***************************************************************************)
EXTENDS Paths, Files, ProcFs, FileSystems

VARIABLE part      \* the module whose behaviour this is

\* "/", "/a", "/aa"; a mount of a mount and none at the root; more mounts than slots.
MCBootMounts ==
  {<< <<"/">>, <<"/", "a">>, <<"/", "a", "a">> >>,
   << <<"/", "a", "/", "a">>, <<"a">> >>,
   << <<"/", "a", "/", "/">>, <<"/", ".", "/", "a">>, <<"/">>, <<"/", "a", "a">> >>}

\* One program in /bin and one that is not below /bin.
MCBins == <<P("root", "init"), P("bin", "sh")>>

mcVars == <<part, pathsVars, filesVars, procVars, fsVars>>

Init ==
  /\ part \in {"paths", "files", "proc", "fs"}
  /\ PathsInit /\ (part = "paths" \/ Len(mounts) = 2)
  /\ FilesInit /\ (part = "files" \/ life = [t \in Task |-> IF t = CHOOSE u \in Task : TRUE
                                                            THEN "alive" ELSE "pooled"])
  /\ ProcInit
  /\ FsInit /\ (part = "fs" \/ ctty = NO_TTY)

\* No task is left to make a call.
Stopped == part = "files" /\ (\A t \in Task : life[t] # "alive") /\ UNCHANGED mcVars

Next ==
  \/ part = "paths" /\ PathsNext /\ UNCHANGED <<part, filesVars, procVars, fsVars>>
  \/ part = "files" /\ FilesNext /\ UNCHANGED <<part, pathsVars, procVars, fsVars>>
  \/ part = "proc" /\ ProcNext /\ UNCHANGED <<part, pathsVars, filesVars, fsVars>>
  \/ part = "fs" /\ FsNext /\ UNCHANGED <<part, pathsVars, filesVars, procVars>>
  \/ Stopped

Spec == Init /\ [][Next]_mcVars

(* States that differ only in entries of the ring of free files that are   *)
(* outside its two counters are one: nothing reads such an entry before it *)
(* is written.                                                             *)
View ==
  <<part, pathsVars, procVars, fsVars, files, life, reading, exiting,
    [vfs EXCEPT !.free_ring = [i \in 0 .. FreeFiles(vfs) - 1 |-> FreeAt(vfs, i)]]>>
=============================================================================
