------------------------------ MODULE Filesystem ------------------------------
(***************************************************************************)
(* Filesystem.cpp: the mount table and the table of open files under       *)
(* VfsState::mtx.  Open resolves the guest path under the mutex, opens the *)
(* host file without it and takes it again to insert the handle.           *)
(*                                                                         *)
(* A path is a mount point and the name of one file below it, which        *)
(* Normalise leaves as it is; no prefix of a mount point begins another.   *)
(* Of a host file the model keeps its length.  The host lets nobody remove *)
(* or rename a file that is open, as Windows does.                         *)
(***************************************************************************)
EXTENDS Naturals, FiniteSets

CONSTANTS FsThreads,
          FsMounts, FsTemp,     \* mount points, and Temp, one of them
          FsDirs, FsTempDir,    \* host directories, and the one of CreateTempFile
          FsMaxFd,              \* bound: handles given out
          FsMaxLen              \* bound: length of a file, with what is buffered

ASSUME FilesystemAssumption ==
    /\ FsTemp \in FsMounts /\ FsTempDir \in FsDirs
    /\ FsMaxFd \in Nat /\ FsMaxLen \in Nat

VARIABLES fsMounts,   \* mounts
          fsFiles,    \* files: host directory, rdOnly, whether the stream writes, bytes buffered
          fsNextFd,
          fsHost,     \* the file of each host directory: whether it exists, its length
          fsOpening,  \* where each thread is in Open
          fsWritable, \* history: host directories that were ever mounted for writing
          fsTrace     \* FsTraceState: whether it is enabled, whether it has entries

fsVars == <<fsMounts, fsFiles, fsNextFd, fsHost, fsOpening, fsWritable, fsTrace>>

FsFds     == 1 .. FsMaxFd
FsAbsent  == [there |-> FALSE, len |-> 0]
Unmounted == [valid |-> FALSE, dir |-> FsTempDir, readOnly |-> FALSE]
NoFile    == [open |-> FALSE, dir |-> FsTempDir, rdOnly |-> FALSE, writes |-> FALSE, buffered |-> 0]
FsOut     == [at |-> "idle", dir |-> FsTempDir, rdOnly |-> FALSE, flag |-> "Read"]
FsFlags   == {"Read", "Write", "ReadWrite", "Append"}

FsTypeOK ==
    /\ fsMounts \in [FsMounts -> [valid : BOOLEAN, dir : FsDirs, readOnly : BOOLEAN]]
    /\ fsFiles \in [FsFds -> [open : BOOLEAN, dir : FsDirs, rdOnly : BOOLEAN, writes : BOOLEAN,
                              buffered : 0 .. FsMaxLen]]
    /\ fsNextFd \in 1 .. FsMaxFd + 1
    /\ fsHost \in [FsDirs -> [there : BOOLEAN, len : Nat]]
    /\ fsOpening \in [FsThreads -> [at : {"idle", "resolved", "opened"}, dir : FsDirs,
                                    rdOnly : BOOLEAN, flag : FsFlags]]
    /\ fsWritable \subseteq FsDirs
    /\ fsTrace \in [on : BOOLEAN, any : BOOLEAN]

\* The mount table of Init; the host has files before the emulator starts.
FsInit ==
    /\ fsMounts = [m \in FsMounts |-> Unmounted]
    /\ fsFiles = [fd \in FsFds |-> NoFile]
    /\ fsNextFd = 1
    /\ fsHost \in [FsDirs -> [there : BOOLEAN, len : {0}]]
    /\ fsOpening = [t \in FsThreads |-> FsOut]
    /\ fsWritable = {}
    /\ fsTrace = [on |-> FALSE, any |-> FALSE]
-----------------------------------------------------------------------------
Mount(m, d, ro) ==
    /\ fsMounts' = [fsMounts EXCEPT ![m] = [valid |-> TRUE, dir |-> d, readOnly |-> ro]]
    /\ fsWritable' = IF ro THEN fsWritable ELSE fsWritable \cup {d}
    /\ UNCHANGED <<fsFiles, fsNextFd, fsHost, fsOpening, fsTrace>>

Unmount(m) ==
    /\ fsMounts' = [fsMounts EXCEPT ![m] = Unmounted]
    /\ UNCHANGED <<fsFiles, fsNextFd, fsHost, fsOpening, fsWritable, fsTrace>>

\* Where a guest path below m leads.  The path is normalised first, so that
\* no ".." takes it above the mount.
ResolveImpl(m) == IF fsMounts[m].valid THEN {fsMounts[m].dir} ELSE {}

\* Mutant: only Write alone is refused below a read-only mount.
OpenResolveAppends(t, m, flag) ==
    /\ fsOpening[t] = FsOut
    /\ fsMounts[m].readOnly => flag \in {"Read", "Append"}
    /\ \E d \in ResolveImpl(m) :
         fsOpening' = [fsOpening EXCEPT ![t] = [at |-> "resolved", dir |-> d,
                                                rdOnly |-> FALSE, flag |-> flag]]
    /\ UNCHANGED <<fsMounts, fsFiles, fsNextFd, fsHost, fsWritable, fsTrace>>

\* Open, to the point where it releases the mutex; writing below a read-only mount is refused.
OpenResolve(t, m, flag) ==
    /\ fsOpening[t] = FsOut
    /\ fsMounts[m].readOnly => flag = "Read"
    /\ \E d \in ResolveImpl(m) :
         fsOpening' = [fsOpening EXCEPT ![t] = [at |-> "resolved", dir |-> d,
                                                rdOnly |-> fsMounts[m].readOnly, flag |-> flag]]
    /\ UNCHANGED <<fsMounts, fsFiles, fsNextFd, fsHost, fsWritable, fsTrace>>

\* What fopen does to the host file in the mode FlagMode gives; Create changes no mode.
FlagMode(flag, file) ==
    CASE flag = "Write"  -> [there |-> TRUE, len |-> 0]    \* wb
      [] flag = "Append" -> [file EXCEPT !.there = TRUE]   \* ab
      [] OTHER           -> file                           \* r+b, rb

OpenHost(t) ==
    LET open == fsOpening[t]
        found == fsHost[open.dir].there \/ open.flag \in {"Write", "Append"} IN
    /\ open.at = "resolved"
    /\ fsHost' = IF found THEN [fsHost EXCEPT ![open.dir] = FlagMode(open.flag, @)] ELSE fsHost
    /\ fsOpening' = [fsOpening EXCEPT ![t] = IF found THEN [@ EXCEPT !.at = "opened"] ELSE FsOut]
    /\ UNCHANGED <<fsMounts, fsFiles, fsNextFd, fsWritable, fsTrace>>

OpenInsert(t) ==
    LET open == fsOpening[t] IN
    /\ open.at = "opened"
    /\ fsNextFd <= FsMaxFd
    /\ fsFiles' = [fsFiles EXCEPT ![fsNextFd] = [open |-> TRUE, dir |-> open.dir, rdOnly |-> open.rdOnly,
                                                 writes |-> open.flag # "Read", buffered |-> 0]]
    /\ fsNextFd' = fsNextFd + 1
    /\ fsOpening' = [fsOpening EXCEPT ![t] = FsOut]
    /\ UNCHANGED <<fsMounts, fsHost, fsWritable, fsTrace>>

\* The stream's buffer reaches the host file.
Drain(fd) == fsHost' = [fsHost EXCEPT ![fsFiles[fd].dir].len = @ + fsFiles[fd].buffered]

Close(fd) ==
    /\ fsFiles[fd].open
    /\ Drain(fd)
    /\ fsFiles' = [fsFiles EXCEPT ![fd] = NoFile]
    /\ UNCHANGED <<fsMounts, fsNextFd, fsOpening, fsWritable, fsTrace>>

Flush(fd) ==
    /\ fsFiles[fd].open
    /\ Drain(fd)
    /\ fsFiles' = [fsFiles EXCEPT ![fd].buffered = 0]
    /\ UNCHANGED <<fsMounts, fsNextFd, fsOpening, fsWritable, fsTrace>>

\* A Write that fails, because of rdOnly or of the stream's mode, changes nothing.
Write(fd) ==
    /\ fsFiles[fd].open /\ ~fsFiles[fd].rdOnly /\ fsFiles[fd].writes
    /\ fsHost[fsFiles[fd].dir].len + fsFiles[fd].buffered < FsMaxLen
    /\ fsFiles' = [fsFiles EXCEPT ![fd].buffered = @ + 1]
    /\ UNCHANGED <<fsMounts, fsNextFd, fsHost, fsOpening, fsWritable, fsTrace>>

FsInUse(d) ==
    \/ \E fd \in FsFds : fsFiles[fd].open /\ fsFiles[fd].dir = d
    \/ \E t \in FsThreads : fsOpening[t].at = "opened" /\ fsOpening[t].dir = d

\* Remove (RemoveFile) and Rename resolve their paths and do not look at readOnly.
RemoveFile(m) ==
    /\ \E d \in ResolveImpl(m) : /\ fsHost[d].there /\ ~FsInUse(d)
                                /\ fsHost' = [fsHost EXCEPT ![d] = FsAbsent]
    /\ UNCHANGED <<fsMounts, fsFiles, fsNextFd, fsOpening, fsWritable, fsTrace>>

Rename(from, to) ==
    /\ \E a \in ResolveImpl(from), b \in ResolveImpl(to) :
         /\ a # b /\ fsHost[a].there /\ ~FsInUse(a) /\ ~FsInUse(b)
         /\ fsHost' = [fsHost EXCEPT ![a] = FsAbsent, ![b] = fsHost[a]]
    /\ UNCHANGED <<fsMounts, fsFiles, fsNextFd, fsOpening, fsWritable, fsTrace>>

\* CreateTempFile mounts Temp if it is not; it is the only call that writes the trace.
CreateTempFile ==
    LET mount == IF fsMounts[FsTemp].valid THEN fsMounts[FsTemp]
                 ELSE [valid |-> TRUE, dir |-> FsTempDir, readOnly |-> FALSE] IN
    /\ fsMounts' = [fsMounts EXCEPT ![FsTemp] = mount]
    /\ fsHost' = [fsHost EXCEPT ![mount.dir] = [there |-> TRUE, len |-> 0]]
    /\ fsWritable' = IF mount.readOnly THEN fsWritable ELSE fsWritable \cup {mount.dir}
    /\ fsTrace' = [fsTrace EXCEPT !.any = @ \/ fsTrace.on]
    /\ UNCHANGED <<fsFiles, fsNextFd, fsOpening>>

EnableTracing == \E on \in BOOLEAN, any \in {FALSE, fsTrace.any} :
    /\ fsTrace' = [on |-> on, any |-> any]     \* any is forgotten by ClearTrace
    /\ UNCHANGED <<fsMounts, fsFiles, fsNextFd, fsHost, fsOpening, fsWritable>>

\* What fclose of every stream adds to the file of d.
BufferedFor(d) ==
    LET sum[n \in 0 .. FsMaxFd] ==
            IF n = 0 THEN 0 ELSE sum[n - 1] + (IF fsFiles[n].dir = d THEN fsFiles[n].buffered ELSE 0)
    IN  sum[FsMaxFd]

\* Shutdown closes the streams; Init drops them as they are.
FsReset ==
    /\ \E fd \in FsFds : fsFiles[fd].open
    /\ \/ /\ fsHost' = [d \in FsDirs |-> [fsHost[d] EXCEPT !.len = @ + BufferedFor(d)]]
          /\ UNCHANGED fsNextFd
       \/ fsNextFd' = 1 /\ UNCHANGED fsHost
    /\ fsFiles' = [fd \in FsFds |-> NoFile]
    /\ fsMounts' = [m \in FsMounts |-> Unmounted]
    /\ UNCHANGED <<fsOpening, fsWritable, fsTrace>>

FsNext ==
    \/ \E m \in FsMounts : \/ \E d \in FsDirs, ro \in BOOLEAN : Mount(m, d, ro)
                           \/ Unmount(m) \/ RemoveFile(m)
                           \/ \E to \in FsMounts : Rename(m, to)
                           \/ \E t \in FsThreads, flag \in FsFlags : OpenResolve(t, m, flag)
    \/ \E t \in FsThreads : OpenHost(t) \/ OpenInsert(t)
    \/ \E fd \in FsFds : Close(fd) \/ Flush(fd) \/ Write(fd)
    \/ CreateTempFile \/ EnableTracing \/ FsReset

FsSpec == FsInit /\ [][FsNext]_fsVars
-----------------------------------------------------------------------------
(***************************************************************************)
(* The two halves of Open agree about the mount however it is remounted or *)
(* unmounted between them: a handle that writes, or an fopen that will, is *)
(* on a host directory the guest was once given for writing.               *)
(***************************************************************************)
WritersAreAllowed ==
    /\ \A fd \in FsFds : fsFiles[fd].open /\ fsFiles[fd].writes => fsFiles[fd].dir \in fsWritable
    /\ \A t \in FsThreads : fsOpening[t].at # "idle" /\ fsOpening[t].flag # "Read"
                              => fsOpening[t].dir \in fsWritable

(***************************************************************************)
(* Filesystem.h calls /app0/ and /system/ read-only: a file of a directory *)
(* that was only ever mounted so would stay there.                         *)
(***************************************************************************)
ReadOnlyKept == [][\A d \in FsDirs \ fsWritable' : fsHost[d].there => fsHost'[d] = fsHost[d]]_fsVars
=============================================================================
