-------------------------- MODULE GuestServicesProofs --------------------------
(***************************************************************************)
(* The services of a guest side by side, for any threads, mounts, files,   *)
(* slots, regions, loads and words: what each of them promises, and that   *)
(* a behaviour of all of them is one of each.                              *)
(***************************************************************************)
EXTENDS GuestServices, KernelServicesProofs, KahnSortProofs

-----------------------------------------------------------------------------
(* The file system: handles that write are on directories that were once   *)
(* mounted for writing, however mounts change between the two halves of an *)
(* Open.                                                                   *)

\* The shape of what the argument looks at.
FsShape ==
    /\ fsMounts \in [FsMounts -> [valid : BOOLEAN, dir : FsDirs, readOnly : BOOLEAN]]
    /\ fsFiles \in [FsFds -> [open : BOOLEAN, dir : FsDirs, rdOnly : BOOLEAN, writes : BOOLEAN, buffered : Nat]]
    /\ fsOpening \in [FsThreads -> [at : {"idle", "resolved", "opened"}, dir : FsDirs, rdOnly : BOOLEAN, flag : FsFlags]]

\* What a mount allows now it has allowed before.
MountsRecorded == \A m \in FsMounts : fsMounts[m].valid /\ ~fsMounts[m].readOnly => fsMounts[m].dir \in fsWritable

FilesAllowed == \A fd \in FsFds : fsFiles[fd].open /\ fsFiles[fd].writes => fsFiles[fd].dir \in fsWritable

OpensAllowed == \A t \in FsThreads : fsOpening[t].at # "idle" /\ fsOpening[t].flag # "Read" => fsOpening[t].dir \in fsWritable

FsInv == FsShape /\ MountsRecorded /\ FilesAllowed /\ OpensAllowed

USE FilesystemAssumption DEF FsFds

\* Mount, Unmount and the Mount inside CreateTempFile.
LEMMA MountChange ==
    ASSUME FsInv,
           fsMounts' \in [FsMounts -> [valid : BOOLEAN, dir : FsDirs, readOnly : BOOLEAN]],
           fsWritable \subseteq fsWritable',
           \A m \in FsMounts : fsMounts'[m] = fsMounts[m]
               \/ (fsMounts'[m].valid /\ ~fsMounts'[m].readOnly => fsMounts'[m].dir \in fsWritable'),
           UNCHANGED <<fsFiles, fsOpening>>
    PROVE  FsInv'
  BY DEF FsInv, FsShape, MountsRecorded, FilesAllowed, OpensAllowed

\* OpenResolve, OpenHost.
LEMMA OpeningChange ==
    ASSUME FsInv, NEW t \in FsThreads, NEW o, fsOpening' = [fsOpening EXCEPT ![t] = o],
           o \in [at : {"idle", "resolved", "opened"}, dir : FsDirs, rdOnly : BOOLEAN, flag : FsFlags],
           o.at # "idle" /\ o.flag # "Read" => o.dir \in fsWritable,
           UNCHANGED <<fsMounts, fsFiles, fsWritable>>
    PROVE  FsInv'
  BY DEF FsInv, FsShape, MountsRecorded, FilesAllowed, OpensAllowed

\* Close, Flush, Write, and the last step of Open.
LEMMA FileChange ==
    ASSUME FsInv, NEW fd \in FsFds, NEW f, fsFiles' = [fsFiles EXCEPT ![fd] = f],
           f \in [open : BOOLEAN, dir : FsDirs, rdOnly : BOOLEAN, writes : BOOLEAN, buffered : Nat],
           f.open /\ f.writes => f.dir \in fsWritable,
           UNCHANGED <<fsMounts, fsOpening, fsWritable>>
    PROVE  FsInv'
  BY DEF FsInv, FsShape, MountsRecorded, FilesAllowed, OpensAllowed

LEMMA FsInvStable ==
    ASSUME FsInv, UNCHANGED <<fsMounts, fsFiles, fsOpening, fsWritable>>
    PROVE  FsInv'
  BY DEF FsInv, FsShape, MountsRecorded, FilesAllowed, OpensAllowed

LEMMA FsInvInit == FsInit => FsInv
  BY DEF FsInit, FsInv, FsShape, MountsRecorded, FilesAllowed, OpensAllowed, Unmounted, NoFile, FsOut, FsFlags

LEMMA FsInvInductive == FsInv /\ [FsNext]_fsVars => FsInv'
  <1> SUFFICES ASSUME FsInv, [FsNext]_fsVars
               PROVE  FsInv'
    OBVIOUS
  <1> USE DEF FsShape
  <1>1. ASSUME NEW m \in FsMounts, NEW d \in FsDirs, NEW ro \in BOOLEAN, Mount(m, d, ro)
        PROVE  FsInv'
    BY <1>1, MountChange DEF Mount, FsInv
  <1>2. ASSUME NEW m \in FsMounts, Unmount(m)
        PROVE  FsInv'
    BY <1>2, MountChange DEF Unmount, Unmounted, FsInv
  <1>3. ASSUME NEW m \in FsMounts, RemoveFile(m) \/ \E to \in FsMounts : Rename(m, to)
        PROVE  FsInv'
    BY <1>3, FsInvStable DEF RemoveFile, Rename, ResolveImpl
  <1>4. ASSUME NEW m \in FsMounts, NEW t \in FsThreads, NEW flag \in FsFlags, OpenResolve(t, m, flag)
        PROVE  FsInv'
    <2> DEFINE o == [at |-> "resolved", dir |-> fsMounts[m].dir, rdOnly |-> fsMounts[m].readOnly, flag |-> flag]
    <2>1. /\ fsOpening' = [fsOpening EXCEPT ![t] = o]
          /\ UNCHANGED <<fsMounts, fsFiles, fsWritable>>
      BY <1>4 DEF OpenResolve, ResolveImpl
    <2>2. o.at # "idle" /\ o.flag # "Read" => o.dir \in fsWritable
      BY <1>4 DEF OpenResolve, ResolveImpl, FsInv, MountsRecorded
    <2>3. o \in [at : {"idle", "resolved", "opened"}, dir : FsDirs, rdOnly : BOOLEAN, flag : FsFlags]
      BY DEF FsInv
    <2> QED BY <2>1, <2>2, <2>3, OpeningChange
  <1>5. ASSUME NEW t \in FsThreads, OpenHost(t)
        PROVE  FsInv'
    <2>1. PICK o \in {[fsOpening[t] EXCEPT !.at = "opened"], FsOut} :
             /\ fsOpening' = [fsOpening EXCEPT ![t] = o]
             /\ UNCHANGED <<fsMounts, fsFiles, fsWritable>>
      BY <1>5 DEF OpenHost
    <2>2. o.at # "idle" /\ o.flag # "Read" => o.dir \in fsWritable
      BY <1>5, <2>1 DEF OpenHost, FsInv, OpensAllowed, FsOut
    <2>3. o \in [at : {"idle", "resolved", "opened"}, dir : FsDirs, rdOnly : BOOLEAN, flag : FsFlags]
      <3>1. fsOpening[t] \in [at : {"idle", "resolved", "opened"}, dir : FsDirs, rdOnly : BOOLEAN, flag : FsFlags]
        BY DEF FsInv
      <3>2. CASE o = FsOut
        BY <3>2 DEF FsOut, FsFlags
      <3>3. CASE o = [fsOpening[t] EXCEPT !.at = "opened"]
        BY <3>1, <3>3
      <3> QED BY <2>1, <3>2, <3>3
    <2> QED BY <2>1, <2>2, <2>3, OpeningChange
  <1>6. ASSUME NEW t \in FsThreads, OpenInsert(t)
        PROVE  FsInv'
    <2>1. /\ fsOpening[t].at = "opened" /\ fsOpening[t].flag # "Read" => fsOpening[t].dir \in fsWritable
          /\ fsOpening[t].at = "opened"
      BY <1>6 DEF OpenInsert, FsInv, OpensAllowed
    <2> QED BY <1>6, <2>1 DEF OpenInsert, FsInv, MountsRecorded, FilesAllowed, OpensAllowed, FsOut, FsFlags
  <1>7. ASSUME NEW fd \in FsFds, Close(fd)
        PROVE  FsInv'
    BY <1>7, FileChange DEF Close, NoFile
  <1>8. ASSUME NEW fd \in FsFds, Flush(fd)
        PROVE  FsInv'
    BY <1>8, FileChange DEF Flush, FsInv, FilesAllowed
  <1>9. ASSUME NEW fd \in FsFds, Write(fd)
        PROVE  FsInv'
    <2> DEFINE f == [fsFiles[fd] EXCEPT !.buffered = @ + 1]
    <2>1. fsFiles[fd] \in [open : BOOLEAN, dir : FsDirs, rdOnly : BOOLEAN, writes : BOOLEAN, buffered : Nat]
      BY DEF FsInv
    <2>2. f \in [open : BOOLEAN, dir : FsDirs, rdOnly : BOOLEAN, writes : BOOLEAN, buffered : Nat]
      BY <2>1
    <2>3. f.open /\ f.writes => f.dir \in fsWritable
      BY <2>1 DEF FsInv, FilesAllowed
    <2>4. /\ fsFiles' = [fsFiles EXCEPT ![fd] = f]
          /\ UNCHANGED <<fsMounts, fsOpening, fsWritable>>
      BY <1>9 DEF Write
    <2> HIDE DEF f
    <2> QED BY <2>2, <2>3, <2>4, FileChange
  <1>10. CASE CreateTempFile
    <2>1. \A m \in FsMounts : m # FsTemp => fsMounts'[m] = fsMounts[m]
      BY <1>10 DEF CreateTempFile, FsInv
    <2>2. fsMounts'[FsTemp].valid /\ ~fsMounts'[FsTemp].readOnly => fsMounts'[FsTemp].dir \in fsWritable'
      BY <1>10 DEF CreateTempFile, FsInv
    <2>3. /\ fsMounts' \in [FsMounts -> [valid : BOOLEAN, dir : FsDirs, readOnly : BOOLEAN]]
          /\ fsWritable \subseteq fsWritable'
      BY <1>10 DEF CreateTempFile, FsInv
    <2> QED BY <1>10, <2>1, <2>2, <2>3, MountChange DEF CreateTempFile
  <1>11. CASE EnableTracing
    BY <1>11, FsInvStable DEF EnableTracing
  <1>12. CASE FsReset
    BY <1>12 DEF FsReset, FsInv, MountsRecorded, FilesAllowed, OpensAllowed, NoFile, Unmounted
  <1>13. CASE UNCHANGED fsVars
    BY <1>13, FsInvStable DEF fsVars
  <1> QED
    BY <1>1, <1>2, <1>3, <1>4, <1>5, <1>6, <1>7, <1>8, <1>9, <1>10, <1>11, <1>12, <1>13 DEF FsNext

\* No handle and no fopen writes to a directory the guest never had for writing.
THEOREM WritersOnWritableMounts == FsSpec => []WritersAreAllowed
  <1>1. FsInv => WritersAreAllowed
    BY DEF FsInv, FilesAllowed, OpensAllowed, WritersAreAllowed
  <1> QED BY <1>1, FsInvInit, FsInvInductive, PTL DEF FsSpec

HIDE FilesystemAssumption DEF FsFds
-----------------------------------------------------------------------------
(* The system calls: commits that fail, attempts to shrink the break and   *)
(* refused calls leave the guest the memory it was told it has.            *)

\* The state has its type, and memory is kept: that of the mappings if the guest unmaps
\* what it mapped.
SyInv == SyTypeOK /\ HeapCommitted /\ (SyWhole => MapsKept)

HeapType == [base : {0, SyHeap}, size : 0 .. SyReserve, brk : 0 .. SyWord - 1, committed : SUBSET (0 .. SyReserve - 1)]

\* HeapCommitted of one heap.
HeapKept(h) ==
    h.base # 0 => h.brk = h.base + h.size /\ \A n \in 0 .. h.size - 1 : n \in h.committed

USE SyscallsAssumption DEF SyscallsAssumption

LEMMA DifferenceOfWords ==
    ASSUME NEW a \in 0 .. SyWord - 1, NEW b \in 0 .. SyWord - 1
    PROVE  /\ Difference(a, b) \in Nat
           /\ a >= b => Difference(a, b) = a - b
           /\ a < b => Difference(a, b) = a + SyWord - b
  BY DEF Difference

\* A heap after the reservation was tried.
LEMMA EnsureBrkKeeps ==
    ASSUME NEW g \in HeapType, HeapKept(g), NEW h \in EnsureBrk(g)
    PROVE  h \in HeapType /\ HeapKept(h)
  BY DEF EnsureBrk, HeapType, HeapKept

\* A commit reaches from the old size to the new one; a shrinking break would have to reach
\* past the reserved range.
LEMMA MoveBreakKeeps ==
    ASSUME NEW g \in HeapType, HeapKept(g), NEW a \in 0 .. SyWord - 1,
           a >= g.base, a - g.base <= SyReserve, NEW h \in MoveBreak(g, a)
    PROVE  h \in HeapType /\ HeapKept(h)
  <1> DEFINE new  == a - g.base
             more == Difference(new, g.size)
  <1>1. /\ g.base \in {0, SyHeap} /\ g.size \in 0 .. SyReserve /\ g.brk \in 0 .. SyWord - 1
        /\ g.committed \in SUBSET (0 .. SyReserve - 1)
    BY DEF HeapType
  <1>2. new \in 0 .. SyReserve /\ new \in 0 .. SyWord - 1 /\ g.size \in 0 .. SyWord - 1  BY <1>1
  <1>3. /\ more \in Nat
        /\ new >= g.size => more = new - g.size
        /\ new < g.size => more = new + SyWord - g.size
    BY <1>2, DifferenceOfWords
  <1>4. CASE h = g  BY <1>4
  <1>5. CASE more = 0 /\ h = [g EXCEPT !.brk = a]
    <2>1. new = g.size  BY <1>2, <1>3, <1>5
    <2>2. h \in HeapType  BY <1>5 DEF HeapType
    <2>3. h.base = g.base /\ h.size = g.size /\ h.committed = g.committed /\ h.brk = a  BY <1>5 DEF HeapType
    <2> QED  BY <1>1, <2>1, <2>2, <2>3 DEF HeapKept
  <1>6. CASE CanCommit(g, more) /\ h = [g EXCEPT !.size = new, !.brk = a, !.committed = Committing(g, more)]
    <2>1. h = [base |-> g.base, size |-> new, brk |-> a, committed |-> Committing(g, more)]
      BY <1>6 DEF HeapType
    <2>2. CASE g.base = 0
      <3>1. h.committed = g.committed  BY <2>1, <2>2 DEF Committing
      <3> QED  BY <1>1, <1>2, <2>1, <2>2, <3>1 DEF HeapType, HeapKept
    <2>3. CASE g.base # 0
      <3>1. g.size + more <= SyReserve  BY <1>6, <2>3 DEF CanCommit
      <3>2. new >= g.size /\ g.size + more = new  BY <1>1, <1>2, <1>3, <3>1
      <3>3. h.committed = g.committed \cup (g.size .. g.size + more - 1)  BY <2>1, <2>3 DEF Committing
      <3> HIDE DEF new, more
      <3>4. h.committed \in SUBSET (0 .. SyReserve - 1)  BY <1>1, <1>2, <1>3, <3>2, <3>3
      <3>5. \A n \in 0 .. g.size - 1 : n \in g.committed  BY <2>3 DEF HeapKept
      <3>6. \A n \in 0 .. new - 1 : n \in h.committed  BY <1>1, <1>2, <1>3, <3>2, <3>3, <3>5
      <3> QED  BY <1>1, <1>2, <2>1, <3>4, <3>6 DEF HeapType, HeapKept, new
    <2> QED  BY <2>2, <2>3
  <1> QED  BY <1>4, <1>5, <1>6 DEF MoveBreak

LEMMA HeapStep ==
    ASSUME SyInv, NEW t \in SyThreads, Brk(t)
    PROVE  syHeap' \in HeapType /\ HeapKept(syHeap')
  <1>1. syHeap \in HeapType /\ HeapKept(syHeap)
    BY DEF SyInv, SyTypeOK, HeapType, HeapCommitted, HeapKept
  <1>2. PICK a \in 0 .. SyWord - 1 : \E h \in EnsureBrk(syHeap) :
          syHeap' \in IF a = 0 \/ a < SySmall \/ a < h.base \/ a - h.base > SyReserve
                        THEN {h} ELSE MoveBreak(h, a)
    BY DEF Brk
  <1>3. PICK h \in EnsureBrk(syHeap) :
          syHeap' \in IF a = 0 \/ a < SySmall \/ a < h.base \/ a - h.base > SyReserve
                        THEN {h} ELSE MoveBreak(h, a)
    BY <1>2
  <1>4. h \in HeapType /\ HeapKept(h)  BY <1>1, EnsureBrkKeeps
  <1>5. h.base \in Nat  BY <1>4 DEF HeapType
  <1>6. CASE syHeap' = h  BY <1>4, <1>6
  <1>7. CASE a >= h.base /\ a - h.base <= SyReserve /\ syHeap' \in MoveBreak(h, a)
    BY <1>4, <1>7, MoveBreakKeeps
  <1> QED  BY <1>3, <1>5, <1>6, <1>7

\* The host gives at least the rights asked for.
LEMMA WinProtGrants ==
    ASSUME NEW prot \in Rights
    PROVE  prot \subseteq WinProt(prot) /\ WinProt(prot) \in Rights
  BY DEF Rights, WinProt

\* Init, RegisterSyscall and the look-up leave heap and regions alone.
LEMMA TableStep ==
    ASSUME SyInv, UNCHANGED <<syHeap, syMaps, syAsked>>,
           syTable' \subseteq Numbers, syPending' \in Seq(Numbers),
           syCall' \in [SyThreads -> [at : {"idle", "found", "missing"}, nr : Numbers]]
    PROVE  SyInv'
  BY DEF SyInv, SyTypeOK, HeapCommitted, MapsKept

LEMMA HandlerReturns ==
    ASSUME SyInv, NEW t \in SyThreads, NEW nr \in Numbers, Handling(t, nr)
    PROVE  /\ syTable' \subseteq Numbers /\ syPending' \in Seq(Numbers)
           /\ syCall' \in [SyThreads -> [at : {"idle", "found", "missing"}, nr : Numbers]]
  BY DEF SyInv, SyTypeOK, Handling, syCalls, Numbers

\* One region changes, and what was asked of it is granted.
LEMMA RegionStep ==
    ASSUME SyInv, NEW t \in SyThreads, NEW nr \in Numbers, Handling(t, nr),
           UNCHANGED syHeap,
           NEW r \in SyRegions, NEW pages \in PageMaps, NEW asked \in PageMaps,
           syMaps' = [syMaps EXCEPT ![r] = pages],
           syAsked' = [syAsked EXCEPT ![r] = asked],
           SyWhole => \A p \in DOMAIN asked : p \in DOMAIN pages /\ asked[p] \subseteq pages[p]
    PROVE  SyInv'
  <1>1. syMaps \in [SyRegions -> PageMaps] /\ syAsked \in [SyRegions -> PageMaps]
    BY DEF SyInv, SyTypeOK
  <1>2. syMaps' \in [SyRegions -> PageMaps] /\ syAsked' \in [SyRegions -> PageMaps]  BY <1>1
  <1>3. SyWhole => MapsKept'  BY <1>1 DEF SyInv, MapsKept
  <1>4. HeapCommitted'  BY DEF SyInv, HeapCommitted
  <1>5. SyTypeOK'  BY <1>2, HandlerReturns DEF SyInv, SyTypeOK
  <1> QED  BY <1>3, <1>4, <1>5 DEF SyInv

LEMMA MapsOfSubset ==
    ASSUME NEW S \in SUBSET SyPages, NEW f \in [S -> Rights]
    PROVE  f \in PageMaps
  BY DEF PageMaps

LEMMA MmapKeeps ==
    ASSUME SyInv, NEW t \in SyThreads, Mmap(t)
    PROVE  SyInv'
  <1>1. Handling(t, "mmap") /\ UNCHANGED syHeap  BY DEF Mmap
  <1>2. CASE UNCHANGED <<syMaps, syAsked>>
    <2>1. "mmap" \in Numbers  BY DEF Numbers
    <2> QED  BY <1>1, <1>2, <2>1, HandlerReturns, TableStep
  <1>3. ASSUME NEW r \in SyRegions, NEW len \in SyPages, NEW prot \in Rights,
               syMaps' = [syMaps EXCEPT ![r] = [p \in 1 .. len |-> WinProt(prot)]],
               syAsked' = [syAsked EXCEPT ![r] = [p \in 1 .. len |-> prot]]
        PROVE  SyInv'
    <2> DEFINE pages == [p \in 1 .. len |-> WinProt(prot)]
               asked == [p \in 1 .. len |-> prot]
    <2>1. 1 .. len \in SUBSET SyPages  BY DEF SyPages
    <2>2. pages \in [1 .. len -> Rights] /\ asked \in [1 .. len -> Rights]  BY WinProtGrants
    <2>3. pages \in PageMaps /\ asked \in PageMaps  BY <2>1, <2>2, MapsOfSubset
    <2>4. \A p \in DOMAIN asked : p \in DOMAIN pages /\ asked[p] \subseteq pages[p]  BY WinProtGrants
    <2>5. "mmap" \in Numbers  BY DEF Numbers
    <2> HIDE DEF pages, asked
    <2>6. syMaps' = [syMaps EXCEPT ![r] = pages] /\ syAsked' = [syAsked EXCEPT ![r] = asked]
      BY <1>3 DEF pages, asked
    <2> QED  BY <1>1, <2>3, <2>4, <2>5, <2>6, RegionStep
  <1> QED  BY <1>2, <1>3 DEF Mmap

\* The length that munmap is given is that of the mapping, so nothing the guest still counts
\* on goes with it.
LEMMA MunmapKeeps ==
    ASSUME SyInv, NEW t \in SyThreads, Munmap(t)
    PROVE  SyInv'
  <1>1. Handling(t, "munmap") /\ UNCHANGED syHeap /\ "munmap" \in Numbers  BY DEF Munmap, Numbers
  <1>2. CASE UNCHANGED <<syMaps, syAsked>>  BY <1>1, <1>2, HandlerReturns, TableStep
  <1>3. ASSUME NEW r \in SyRegions, NEW len \in SyPages,
               SyWhole => 1 .. len = DOMAIN syAsked[r],
               syMaps' = [syMaps EXCEPT ![r] = NoPages],
               syAsked' = [syAsked EXCEPT ![r] = [p \in DOMAIN syAsked[r] \ 1 .. len |-> syAsked[r][p]]]
        PROVE  SyInv'
    <2>1. NoPages \in [{} -> Rights] /\ DOMAIN NoPages = {}  BY DEF NoPages
    <2>2. NoPages \in PageMaps  BY <2>1, MapsOfSubset
    <2> DEFINE asked == [p \in DOMAIN syAsked[r] \ 1 .. len |-> syAsked[r][p]]
    <2>3. SyWhole => asked = NoPages  BY <1>3 DEF NoPages
    <2>4. PICK T \in SUBSET SyPages : syAsked[r] \in [T -> Rights]
      BY DEF SyInv, SyTypeOK, PageMaps
    <2>5. T \ 1 .. len \in SUBSET SyPages /\ asked \in [T \ 1 .. len -> Rights]  BY <2>4
    <2>6. asked \in PageMaps  BY <2>5, MapsOfSubset
    <2>7. SyWhole => \A p \in DOMAIN asked : p \in DOMAIN NoPages /\ asked[p] \subseteq NoPages[p]
      BY <2>1, <2>3
    <2>8. syMaps' = [syMaps EXCEPT ![r] = NoPages] /\ syAsked' = [syAsked EXCEPT ![r] = asked]
      BY <1>3
    <2> HIDE DEF asked
    <2> QED  BY <1>1, <2>2, <2>6, <2>7, <2>8, RegionStep
  <1> QED  BY <1>2, <1>3 DEF Munmap

LEMMA MprotectKeeps ==
    ASSUME SyInv, NEW t \in SyThreads, Mprotect(t)
    PROVE  SyInv'
  <1>1. Handling(t, "mprotect") /\ UNCHANGED syHeap /\ "mprotect" \in Numbers  BY DEF Mprotect, Numbers
  <1>2. CASE UNCHANGED <<syMaps, syAsked>>  BY <1>1, <1>2, HandlerReturns, TableStep
  <1>3. ASSUME NEW r \in SyRegions, NEW first \in SyPages, NEW last \in SyPages, NEW prot \in Rights,
               syMaps' = [syMaps EXCEPT ![r] =
                  [p \in DOMAIN syMaps[r] |-> IF p \in first .. last THEN WinProt(prot) ELSE syMaps[r][p]]],
               syAsked' = [syAsked EXCEPT ![r] =
                  [p \in DOMAIN syAsked[r] |-> IF p \in first .. last THEN prot ELSE syAsked[r][p]]]
        PROVE  SyInv'
    <2> DEFINE pages == [p \in DOMAIN syMaps[r] |-> IF p \in first .. last THEN WinProt(prot) ELSE syMaps[r][p]]
               asked == [p \in DOMAIN syAsked[r] |-> IF p \in first .. last THEN prot ELSE syAsked[r][p]]
    <2>1. syMaps[r] \in PageMaps /\ syAsked[r] \in PageMaps  BY DEF SyInv, SyTypeOK
    <2>2. PICK S \in SUBSET SyPages : syMaps[r] \in [S -> Rights]  BY <2>1 DEF PageMaps
    <2>3. PICK T \in SUBSET SyPages : syAsked[r] \in [T -> Rights]  BY <2>1 DEF PageMaps
    <2>4. pages \in [S -> Rights] /\ asked \in [T -> Rights]  BY <2>2, <2>3, WinProtGrants
    <2>5. pages \in PageMaps /\ asked \in PageMaps  BY <2>4, MapsOfSubset
    <2>6. SyWhole => \A p \in DOMAIN asked : p \in DOMAIN pages /\ asked[p] \subseteq pages[p]
      <3> SUFFICES ASSUME SyWhole
                   PROVE  \A p \in DOMAIN asked : p \in DOMAIN pages /\ asked[p] \subseteq pages[p]
        OBVIOUS
      <3>1. \A p \in DOMAIN syAsked[r] : p \in DOMAIN syMaps[r] /\ syAsked[r][p] \subseteq syMaps[r][p]
        BY DEF SyInv, MapsKept
      <3> QED  BY <3>1, WinProtGrants
    <2> HIDE DEF pages, asked
    <2>7. syMaps' = [syMaps EXCEPT ![r] = pages] /\ syAsked' = [syAsked EXCEPT ![r] = asked]
      BY <1>3 DEF pages, asked
    <2> QED  BY <1>1, <2>5, <2>6, <2>7, RegionStep
  <1> QED  BY <1>2, <1>3 DEF Mprotect

LEMMA BrkKeeps ==
    ASSUME SyInv, NEW t \in SyThreads, Brk(t)
    PROVE  SyInv'
  <1>1. Handling(t, "brk") /\ UNCHANGED <<syMaps, syAsked>> /\ "brk" \in Numbers  BY DEF Brk, Numbers
  <1>2. syHeap' \in HeapType /\ HeapKept(syHeap')  BY HeapStep
  <1>3. HeapCommitted'  BY <1>2 DEF HeapKept, HeapCommitted
  <1>4. SyWhole => MapsKept'  BY <1>1 DEF SyInv, MapsKept
  <1>5. SyTypeOK'  BY <1>1, <1>2, HandlerReturns DEF SyInv, SyTypeOK, HeapType
  <1> QED  BY <1>3, <1>4, <1>5 DEF SyInv

LEMMA SyInvInit == SyInit => SyInv
  <1> SUFFICES ASSUME SyInit PROVE SyInv  OBVIOUS
  <1>1. syHeap \in HeapType  BY DEF SyInit, HeapType
  <1>2. NoPages \in [{} -> Rights] /\ DOMAIN NoPages = {}  BY DEF NoPages
  <1>3. NoPages \in PageMaps  BY <1>2, MapsOfSubset
  <1>4. syMaps \in [SyRegions -> PageMaps] /\ syAsked \in [SyRegions -> PageMaps]  BY <1>3 DEF SyInit
  <1>5. syPending \in Seq(Numbers)  BY DEF SyInit
  <1>6. SyTypeOK  BY <1>1, <1>4, <1>5 DEF SyInit, SyTypeOK, HeapType, Numbers
  <1> QED  BY <1>2, <1>6 DEF SyInit, SyInv, HeapCommitted, MapsKept

LEMMA SyInvInductive == SyInv /\ [SyNext]_syVars => SyInv'
  <1> SUFFICES ASSUME SyInv, [SyNext]_syVars PROVE SyInv'  OBVIOUS
  <1>1. CASE InitTable
    <2>1. syPending' \in Seq(Numbers)  BY <1>1 DEF InitTable, Handlers, Numbers
    <2> QED  BY <1>1, <2>1, TableStep DEF InitTable, SyInv, SyTypeOK
  <1>2. CASE RegisterSyscall  BY <1>2, TableStep DEF RegisterSyscall, SyInv, SyTypeOK
  <1>3. ASSUME NEW t \in SyThreads, NEW nr \in Numbers, Dispatch(t, nr) PROVE SyInv'
    BY <1>3, TableStep DEF Dispatch, syCalls, SyInv, SyTypeOK
  <1>4. ASSUME NEW t \in SyThreads, UnknownHandler(t) PROVE SyInv'
    BY <1>4, TableStep DEF UnknownHandler, syCalls, SyInv, SyTypeOK, Numbers
  <1>5. ASSUME NEW t \in SyThreads, OtherHandler(t) PROVE SyInv'
    <2>1. "other" \in Numbers  BY DEF Numbers
    <2> QED  BY <1>5, <2>1, HandlerReturns, TableStep DEF OtherHandler
  <1>6. ASSUME NEW t \in SyThreads, Brk(t) \/ Mmap(t) \/ Munmap(t) \/ Mprotect(t) PROVE SyInv'
    BY <1>6, BrkKeeps, MmapKeeps, MunmapKeeps, MprotectKeeps
  <1>7. CASE UNCHANGED syVars
    BY <1>7 DEF syVars, SyInv, SyTypeOK, HeapCommitted, MapsKept
  <1> QED  BY <1>1, <1>2, <1>3, <1>4, <1>5, <1>6, <1>7 DEF SyNext

\* The guest keeps the memory it was told it has, if it unmaps what it mapped (Brk, Mmap,
\* Munmap and Builtin_mprotect, beside any Init and RegisterBuiltins).
THEOREM GuestKeepsMemory == SyWhole /\ SySpec => []GuestMemoryKept
  <1> SUFFICES ASSUME SyWhole PROVE SySpec => []GuestMemoryKept  OBVIOUS
  <1>1. SyInv => GuestMemoryKept  BY DEF SyInv, GuestMemoryKept
  <1> QED  BY <1>1, SyInvInit, SyInvInductive, PTL DEF SySpec

HIDE SyscallsAssumption DEF SyscallsAssumption
-----------------------------------------------------------------------------
(* Save states.  While a Load runs, the file it reads is complete and      *)
(* stays so, as the mutex keeps every Save and Delete away; how far the    *)
(* Load has come tells what has been restored from it.                     *)

USE SaveStateAssumption DEF SaveStateAssumption

PageVersions == UNION {[S -> Versions] : S \in SUBSET SsRegions}
MachineData  == [cpu : Versions, mem : PageVersions]
SaveFiles    == [there : BOOLEAN, parts : 0 .. Complete, id : 0 .. SsMaxSaves, data : MachineData]
SsOps        == [op : {"none", "Save", "Load"}, at : {"idle", "cpu", "memory", "write", "gpu"},
                 slot : SsSlots, data : MachineData]

SsShape ==
    /\ ssReady \in BOOLEAN
    /\ ssFile \in [SsSlots -> SaveFiles]
    /\ ssOp \in SsOps
    /\ ssSaves \in 0 .. SsMaxSaves
    /\ ssGuest \in MachineData
    /\ ssLoaded \in [cpu : 0 .. SsMaxSaves, mem : 0 .. SsMaxSaves]
    /\ ssSteps \in Versions

LoadProgress ==
    ssOp.op = "Load" =>
        /\ ssOp.at \in {"cpu", "memory", "gpu"} /\ LoadValid(ssOp.slot)
        /\ ssOp.at = "memory" => ssLoaded.cpu = ssFile[ssOp.slot].id
        /\ ssOp.at # "memory" => ssLoaded.cpu = ssLoaded.mem

SaveProgress == ssOp.op = "Save" => ssOp.at \in {"memory", "write"}

IdleProgress == ssOp.op = "none" => ssOp.at = "idle"

SsInv == SsShape /\ LoadProgress /\ SaveProgress /\ IdleProgress /\ LoadedFromOneSave

LEMMA NoDataTyped == NoData \in MachineData /\ NoData.cpu = 0 /\ 0 \in Versions
  <1>1. [r \in {} |-> 0] \in [{} -> Versions]
    OBVIOUS
  <1>2. [r \in {} |-> 0] \in PageVersions
    BY <1>1 DEF PageVersions
  <1> QED  BY <1>2 DEF NoData, MachineData, Versions

LEMMA NoOpTyped == NoOp \in SsOps /\ NoOp.op = "none" /\ NoOp.at = "idle"
  BY NoDataTyped DEF NoOp, SsOps

LEMMA NoSaveTyped == NoSave \in SaveFiles /\ ~NoSave.there
  BY NoDataTyped DEF NoSave, SaveFiles, Complete

LEMMA SsInvInit == SsInit => SsInv
  <1> SUFFICES ASSUME SsInit PROVE SsInv
    OBVIOUS
  <1>1. SsShape
    BY NoDataTyped, NoOpTyped, NoSaveTyped DEF SsInit, SsShape
  <1> QED  BY <1>1, NoOpTyped DEF SsInit, SsInv, LoadProgress, SaveProgress, IdleProgress, LoadedFromOneSave

\* The guest runs beside whatever the manager does.
LEMMA GuestStepKeeps == ASSUME SsInv, GuestStep PROVE SsInv'
  <1>1. SsShape'
    <2>1. PICK live \in SUBSET SsRegions :
             ssGuest' = [cpu |-> ssSteps + 1, mem |-> [r \in live |-> ssSteps + 1]]
      BY DEF GuestStep
    <2>2. ssSteps + 1 \in Versions
      BY DEF GuestStep, SsInv, SsShape, Versions
    <2>3. [r \in live |-> ssSteps + 1] \in [live -> Versions]
      BY <2>2
    <2>4. [r \in live |-> ssSteps + 1] \in PageVersions
      BY <2>3 DEF PageVersions
    <2>5. ssGuest' \in MachineData
      BY <2>1, <2>2, <2>4 DEF MachineData
    <2> QED  BY <2>2, <2>5 DEF GuestStep, SsInv, SsShape
  <1> QED
    BY <1>1 DEF GuestStep, SsInv, LoadProgress, SaveProgress, IdleProgress, LoadedFromOneSave, LoadValid

\* Save and Delete.
LEMMA SavesKeep ==
    ASSUME SsInv, \/ SerializeMemoryMap \/ WriteFile
                  \/ \E s \in SsSlots : SaveBegin(s) \/ Delete(s)
    PROVE  SsInv'
  <1> USE DEF SsInv, SsShape
  <1>1. ASSUME NEW s \in SsSlots, SaveBegin(s)
        PROVE  SsInv'
    <2>1. [NoData EXCEPT !.cpu = ssGuest.cpu] \in MachineData
      BY NoDataTyped DEF MachineData
    <2>2. ssOp' \in SsOps /\ ssOp'.op = "Save" /\ ssOp'.at = "memory" /\ ssSaves' \in 0 .. SsMaxSaves
      BY <1>1, <2>1 DEF SaveBegin, SsOps
    <2>3. SsShape'
      BY <1>1, <2>2 DEF SaveBegin
    <2> QED
      BY <1>1, <2>2, <2>3, NoOpTyped
      DEF SaveBegin, SsMutexFree, LoadProgress, SaveProgress, IdleProgress, LoadedFromOneSave
  <1>2. CASE SerializeMemoryMap
    <2>1. ssOp' \in SsOps /\ ssOp'.op = "Save" /\ ssOp'.at = "write"
      BY <1>2 DEF SerializeMemoryMap, SsOps, MachineData
    <2> QED
      BY <1>2, <2>1 DEF SerializeMemoryMap, LoadProgress, SaveProgress, IdleProgress, LoadedFromOneSave
  <1>3. CASE WriteFile
    <2>1. \A n \in 0 .. Complete : SsFileOf(n) \in SaveFiles
      BY DEF SsFileOf, SaveFiles, SsOps
    <2>2. ssFile' \in [SsSlots -> SaveFiles]
      BY <1>3, <2>1 DEF WriteFile
    <2> QED
      BY <1>3, <2>2, NoOpTyped DEF WriteFile, LoadProgress, SaveProgress, IdleProgress, LoadedFromOneSave
  <1>4. ASSUME NEW s \in SsSlots, Delete(s)
        PROVE  SsInv'
    <2>1. ssFile' \in [SsSlots -> SaveFiles]
      BY <1>4, NoSaveTyped DEF Delete
    <2> QED
      BY <1>4, <2>1, NoOpTyped DEF Delete, SsMutexFree, LoadProgress, SaveProgress, IdleProgress, LoadedFromOneSave
  <1> QED  BY <1>1, <1>2, <1>3, <1>4

LEMMA EmulatorCrashKeeps == ASSUME SsInv, EmulatorCrash PROVE SsInv'
  <1> USE DEF SsInv, SsShape
  <1>1. \A n \in 0 .. Complete : SsFileOf(n) \in SaveFiles
    BY DEF SsFileOf, SaveFiles, SsOps
  <1>2. ssFile' \in [SsSlots -> SaveFiles]
    BY <1>1 DEF EmulatorCrash
  <1> QED
    BY <1>2, NoOpTyped, NoDataTyped
    DEF EmulatorCrash, LoadProgress, SaveProgress, IdleProgress, LoadedFromOneSave

\* A Load that began goes through to the end, from one file.
LEMMA LoadsKeep ==
    ASSUME SsInv, \/ DeserializeCpuContext \/ DeserializeMemoryMap \/ DeserializeGpuState
                  \/ \E s \in SsSlots : LoadBegin(s)
    PROVE  SsInv'
  <1> USE DEF SsInv, SsShape
  <1>1. ASSUME NEW s \in SsSlots, LoadBegin(s)
        PROVE  SsInv'
    <2>1. ssOp' \in SsOps /\ ssOp'.op = "Load" /\ ssOp'.at = "cpu" /\ ssOp'.slot = s
      BY <1>1, NoDataTyped DEF LoadBegin, SsOps
    <2>2. ssOp.op = "none"
      BY <1>1, NoOpTyped DEF LoadBegin, SsMutexFree
    <2> QED
      BY <1>1, <2>1, <2>2
      DEF LoadBegin, LoadProgress, SaveProgress, IdleProgress, LoadedFromOneSave, LoadValid
  <1>2. CASE DeserializeCpuContext
    <2>1. /\ ssOp.op = "Load" /\ ssOp.at = "cpu" /\ ssOp.slot \in SsSlots
          /\ ssFile[ssOp.slot] \in SaveFiles /\ ssFile[ssOp.slot].parts = Complete
      BY <1>2 DEF DeserializeCpuContext, LoadProgress, LoadValid, SsOps
    <2>2. /\ ssGuest' = [ssGuest EXCEPT !.cpu = ssFile[ssOp.slot].data.cpu]
          /\ ssLoaded' = [ssLoaded EXCEPT !.cpu = ssFile[ssOp.slot].id]
          /\ ssOp' = [ssOp EXCEPT !.at = "memory"]
          /\ UNCHANGED <<ssReady, ssFile, ssSaves, ssSteps>>
      BY <1>2, <2>1 DEF DeserializeCpuContext, Complete
    <2>3. ssOp' \in SsOps /\ ssOp'.op = "Load" /\ ssOp'.at = "memory" /\ ssOp'.slot = ssOp.slot
      BY <2>1, <2>2 DEF SsOps
    <2>4. ssGuest' \in MachineData
      BY <2>1, <2>2 DEF MachineData, SaveFiles
    <2>5. ssLoaded' \in [cpu : 0 .. SsMaxSaves, mem : 0 .. SsMaxSaves] /\ ssLoaded'.cpu = ssFile[ssOp.slot].id
      BY <2>1, <2>2 DEF SaveFiles
    <2> QED
      BY <2>1, <2>2, <2>3, <2>4, <2>5
      DEF LoadProgress, SaveProgress, IdleProgress, LoadedFromOneSave, LoadValid
  <1>3. CASE DeserializeMemoryMap
    <2>1. /\ ssOp.op = "Load" /\ ssOp.at = "memory" /\ ssOp.slot \in SsSlots
          /\ ssFile[ssOp.slot] \in SaveFiles /\ ssFile[ssOp.slot].parts = Complete
          /\ ssLoaded.cpu = ssFile[ssOp.slot].id
      BY <1>3 DEF DeserializeMemoryMap, LoadProgress, LoadValid, SsOps
    <2> DEFINE file == ssFile[ssOp.slot]
    <2>2. file \in SaveFiles
      BY <2>1
    <2> HIDE DEF file
    <2>7. file.parts >= 3
      BY <2>1 DEF Complete, file
    <2>3. /\ \E unmappable \in SUBSET (DOMAIN file.data.mem \ DOMAIN ssGuest.mem) :
                LET restored == DOMAIN file.data.mem \ unmappable IN
                ssGuest' = [ssGuest EXCEPT !.mem =
                  [r \in DOMAIN ssGuest.mem \cup restored |->
                     IF r \in restored THEN file.data.mem[r] ELSE ssGuest.mem[r]]]
          /\ ssLoaded' = [ssLoaded EXCEPT !.mem = file.id]
          /\ ssOp' = [ssOp EXCEPT !.at = "gpu"]
          /\ UNCHANGED <<ssReady, ssFile, ssSaves, ssSteps>>
      BY <1>3, <2>7, Zenon DEF DeserializeMemoryMap, file
    <2>4. ssOp' \in SsOps /\ ssOp'.op = "Load" /\ ssOp'.at = "gpu" /\ ssOp'.slot = ssOp.slot
      BY <2>1, <2>3 DEF SsOps
    <2>5. ssGuest' \in MachineData
      <3>1. PICK unmappable \in SUBSET (DOMAIN file.data.mem \ DOMAIN ssGuest.mem) :
               LET restored == DOMAIN file.data.mem \ unmappable IN
               ssGuest' = [ssGuest EXCEPT !.mem =
                 [r \in DOMAIN ssGuest.mem \cup restored |->
                    IF r \in restored THEN file.data.mem[r] ELSE ssGuest.mem[r]]]
        BY <2>3
      <3> DEFINE restored == DOMAIN file.data.mem \ unmappable
                 mem == [r \in DOMAIN ssGuest.mem \cup restored |->
                           IF r \in restored THEN file.data.mem[r] ELSE ssGuest.mem[r]]
      <3>2. PICK F \in SUBSET SsRegions : file.data.mem \in [F -> Versions]
        BY ZenonT(40), <2>2 DEF SaveFiles, MachineData, PageVersions
      <3>3. PICK G \in SUBSET SsRegions : ssGuest.mem \in [G -> Versions]
        BY DEF MachineData, PageVersions
      <3>4. mem \in [G \cup restored -> Versions] /\ G \cup restored \in SUBSET SsRegions
        BY <3>2, <3>3
      <3>5. mem \in PageVersions
        BY <3>4 DEF PageVersions
      <3>6. ssGuest' = [ssGuest EXCEPT !.mem = mem]
        BY <3>1
      <3> HIDE DEF mem, restored
      <3> QED  BY <3>5, <3>6 DEF MachineData
    <2>6. /\ ssLoaded' \in [cpu : 0 .. SsMaxSaves, mem : 0 .. SsMaxSaves]
          /\ ssLoaded'.mem = file.id /\ ssLoaded'.cpu = ssLoaded.cpu
      BY <2>2, <2>3 DEF SaveFiles
    <2> QED
      BY <2>1, <2>2, <2>3, <2>4, <2>5, <2>6
      DEF file, LoadProgress, SaveProgress, IdleProgress, LoadedFromOneSave, LoadValid
  <1>4. CASE DeserializeGpuState
    BY <1>4, NoOpTyped DEF DeserializeGpuState, LoadProgress, SaveProgress, IdleProgress, LoadedFromOneSave
  <1> QED  BY <1>1, <1>2, <1>3, <1>4

LEMMA SsInvInductive == SsInv /\ [SsNext]_ssVars => SsInv'
  <1> SUFFICES ASSUME SsInv, [SsNext]_ssVars PROVE SsInv'
    OBVIOUS
  <1>1. CASE SsSetReady \/ UNCHANGED ssVars
    BY <1>1 DEF SsSetReady, ssVars, SsInv, SsShape, LoadProgress, SaveProgress, IdleProgress, LoadedFromOneSave, LoadValid
  <1> QED  BY <1>1, GuestStepKeeps, SavesKeep, EmulatorCrashKeeps, LoadsKeep DEF SsNext

\* Load puts the machine together from one Save or leaves it as it is, whatever prefix
\* a full disk or a crash left of the file (Save, LoadFromStream and Deserialize*).
THEOREM LoadsFromOneSave == SsSpec => []LoadedFromOneSave
  <1>1. SsInv => LoadedFromOneSave
    BY DEF SsInv
  <1> QED  BY <1>1, SsInvInit, SsInvInductive, PTL DEF SsSpec

-----------------------------------------------------------------------------
(* The slots implement AtomicSaves: Save's first step is Begin, the write  *)
(* of its file Write, the moment Load has both CPU and memory Restore.     *)

\* Every Save has a number, and so has every file.
SaveNumbers ==
    /\ \A s \in SsSlots : LoadValid(s) => ssFile[s].id # 0
    /\ ssOp.op = "Save" => ssSaves # 0

LEMMA SaveNumbersInductive == SsInv /\ SaveNumbers /\ [SsNext]_ssVars => SaveNumbers'
  <1> SUFFICES ASSUME SsInv, SaveNumbers, [SsNext]_ssVars PROVE SaveNumbers'
    OBVIOUS
  <1> USE DEF SsInv, SsShape, SaveNumbers
  <1>1. ASSUME ssFile' = ssFile, ssOp'.op = "Save" => ssSaves' # 0
        PROVE  SaveNumbers'
    BY <1>1 DEF LoadValid
  <1>2. ASSUME NEW n \in 0 .. Complete, ssOp.op = "Save", ssOp' = NoOp,
               ssFile' = [ssFile EXCEPT ![ssOp.slot] = SsFileOf(n)]
        PROVE  SaveNumbers'
    <2>1. SsFileOf(n).id # 0
      BY <1>2 DEF SsFileOf
    <2>2. \A s \in SsSlots : ssFile'[s] = ssFile[s] \/ ssFile'[s] = SsFileOf(n)
      BY <1>2
    <2> QED  BY <1>2, <2>1, <2>2, NoOpTyped DEF LoadValid
  <1>3. CASE GuestStep \/ SsSetReady \/ UNCHANGED ssVars
    BY <1>1, <1>3 DEF GuestStep, SsSetReady, ssVars
  <1>4. ASSUME NEW s \in SsSlots, SaveBegin(s) \/ LoadBegin(s)
        PROVE  SaveNumbers'
    BY <1>1, <1>4 DEF SaveBegin, LoadBegin
  <1>5. ASSUME NEW s \in SsSlots, Delete(s)
        PROVE  SaveNumbers'
    <2>1. \A r \in SsSlots : ssFile'[r] = ssFile[r] \/ ssFile'[r] = NoSave
      BY <1>5 DEF Delete
    <2> QED  BY <1>5, <2>1, NoSaveTyped DEF Delete, LoadValid
  <1>6. CASE SerializeMemoryMap
    BY <1>1, <1>6 DEF SerializeMemoryMap
  <1>7. CASE WriteFile
    BY <1>1, <1>2, <1>7, NoOpTyped DEF WriteFile
  <1>8. CASE EmulatorCrash
    <2>1. ssOp.at = "write" => ssOp.op = "Save"
      BY DEF LoadProgress, IdleProgress, SsOps
    <2> QED  BY <1>1, <1>2, <1>8, <2>1, NoOpTyped DEF EmulatorCrash
  <1>9. CASE DeserializeCpuContext \/ DeserializeMemoryMap \/ DeserializeGpuState
    <2>1. ssFile' = ssFile /\ (ssOp'.op = "Load" \/ ssOp' = NoOp)
      BY <1>9 DEF DeserializeCpuContext, DeserializeMemoryMap, DeserializeGpuState, SsOps
    <2> QED  BY <1>1, <2>1, NoOpTyped
  <1> QED  BY <1>3, <1>4, <1>5, <1>6, <1>7, <1>8, <1>9 DEF SsNext

\* What the abstract variables stand for.
SlotsHold   == [s \in SsSlots |-> IF LoadValid(s) THEN ssFile[s].id ELSE 0]
MachineFrom == [cpu |-> IF MidLoad THEN ssLoaded.mem ELSE ssLoaded.cpu, mem |-> ssLoaded.mem]

\* A file written is a save kept, if it is whole, or a slot lost.
LEMMA FileIsWritten ==
    ASSUME SsInv, NEW n \in 0 .. Complete,
           ssFile' = [ssFile EXCEPT ![ssOp.slot] = SsFileOf(n)]
    PROVE  Saves!Written
  <1> USE DEF SsInv, SsShape
  <1>1. PICK o \in SsSlots : o = ssOp.slot
    BY DEF SsOps
  <1> DEFINE save == IF n = Complete THEN ssSaves ELSE 0
  <1>2. /\ \A s \in SsSlots : s # o => ssFile'[s] = ssFile[s]
        /\ ssFile'[o] = SsFileOf(n)
    BY <1>1
  <1>3. SlotsHold' = [SlotsHold EXCEPT ![o] = save]
    <2>1. LoadValid(o)' <=> n = Complete
      BY <1>2 DEF LoadValid, SsFileOf
    <2>2. ssFile'[o].id = ssSaves
      BY <1>2 DEF SsFileOf
    <2>3. \A s \in SsSlots : s # o => (LoadValid(s)' <=> LoadValid(s)) /\ ssFile'[s] = ssFile[s]
      BY <1>2 DEF LoadValid
    <2>4. /\ \A s \in SsSlots : s # o => SlotsHold'[s] = SlotsHold[s]
          /\ SlotsHold'[o] = save
      BY <2>1, <2>2, <2>3 DEF SlotsHold
    <2>5. DOMAIN SlotsHold = SsSlots /\ SlotsHold = [s \in SsSlots |-> SlotsHold[s]]
      BY DEF SlotsHold
    <2>6. SlotsHold' = [s \in SsSlots |-> SlotsHold'[s]]
      BY DEF SlotsHold
    <2> HIDE DEF save
    <2> QED  BY <2>4, <2>5, <2>6
  <1>4. save \in {ssSaves, 0}
    OBVIOUS
  <1> HIDE DEF save
  <1> QED  BY <1>3, <1>4 DEF Saves!Written, SlotsHold

\* Every step is one of the abstract saves', or changes nothing there.
LEMMA SavesStep ==
    ASSUME SsInv, SaveNumbers, [SsNext]_ssVars
    PROVE  [Saves!Next]_<<SlotsHold, ssSaves, MachineFrom>>
  <1> USE DEF SsInv, SsShape
  <1> DEFINE Goal == Saves!Next \/ UNCHANGED <<SlotsHold, ssSaves, MachineFrom>>
  <1>0. (ssOp.op # "Load" => MachineFrom = [cpu |-> ssLoaded.mem, mem |-> ssLoaded.mem])
    BY DEF MachineFrom, MidLoad, LoadedFromOneSave
  <1>1. ASSUME ssFile' = ssFile PROVE SlotsHold' = SlotsHold
    BY <1>1 DEF SlotsHold, LoadValid
  <1>2. ASSUME UNCHANGED ssLoaded, ~MidLoad, ~MidLoad' PROVE MachineFrom' = MachineFrom
    BY <1>2 DEF MachineFrom
  <1>3. CASE GuestStep \/ SsSetReady \/ UNCHANGED ssVars
    BY <1>1, <1>3 DEF GuestStep, SsSetReady, ssVars, MachineFrom, MidLoad
  <1>4. ASSUME NEW s \in SsSlots, SaveBegin(s) PROVE Goal
    <2>1. ~MidLoad /\ ~MidLoad'
      BY <1>4, NoOpTyped DEF SaveBegin, SsMutexFree, MidLoad
    <2> QED  BY <1>1, <1>2, <1>4, <2>1 DEF SaveBegin, Saves!Next, Saves!Begin, SlotsHold, MachineFrom
  <1>5. ASSUME NEW s \in SsSlots, LoadBegin(s) PROVE Goal
    <2>1. ~MidLoad /\ ~MidLoad'
      BY <1>5, NoOpTyped DEF LoadBegin, SsMutexFree, MidLoad
    <2> QED  BY <1>1, <1>2, <1>5, <2>1 DEF LoadBegin
  <1>6. ASSUME NEW s \in SsSlots, Delete(s) PROVE Goal
    <2>1. ~MidLoad /\ ~MidLoad' /\ UNCHANGED <<ssSaves, ssLoaded>>
      BY <1>6, NoOpTyped DEF Delete, SsMutexFree, MidLoad
    <2>2. SlotsHold' = [SlotsHold EXCEPT ![s] = 0]
      BY <1>6, NoSaveTyped DEF Delete, SlotsHold, LoadValid
    <2>3. Saves!Write
      BY <1>2, <2>1, <2>2 DEF Saves!Write, Saves!Written, SlotsHold, MachineFrom
    <2> QED  BY <2>3 DEF Saves!Next
  <1>7. CASE SerializeMemoryMap
    <2>1. ~MidLoad /\ ~MidLoad'
      BY <1>7 DEF SerializeMemoryMap, MidLoad, SsOps
    <2> QED  BY <1>1, <1>2, <1>7, <2>1 DEF SerializeMemoryMap
  <1>8. CASE WriteFile
    <2>1. ~MidLoad /\ ~MidLoad' /\ UNCHANGED <<ssSaves, ssLoaded>>
      BY <1>8, NoOpTyped DEF WriteFile, MidLoad
    <2>2. MachineFrom' = MachineFrom
      BY <1>2, <2>1
    <2>3. CASE ssFile' = ssFile
      BY <1>1, <2>1, <2>2, <2>3
    <2>4. CASE ssFile' # ssFile
      <3>1. PICK n \in 0 .. Complete : ssFile' = [ssFile EXCEPT ![ssOp.slot] = SsFileOf(n)]
        BY <1>8, <2>4 DEF WriteFile
      <3>2. Saves!Write
        BY <2>1, <2>2, <3>1, FileIsWritten DEF Saves!Write, MachineFrom
      <3> QED  BY <3>2 DEF Saves!Next
    <2> QED  BY <2>3, <2>4
  <1>9. CASE EmulatorCrash
    <2>1. /\ ssLoaded' = [cpu |-> 0, mem |-> 0] /\ ssSaves' = ssSaves /\ ~MidLoad'
      BY <1>9, NoOpTyped DEF EmulatorCrash, MidLoad
    <2>2. MachineFrom' = [cpu |-> 0, mem |-> 0]
      BY <2>1 DEF MachineFrom
    <2>3. SlotsHold' = SlotsHold \/ Saves!Written
      BY <1>1, <1>9, FileIsWritten DEF EmulatorCrash
    <2>4. Saves!Die
      BY <2>1, <2>2, <2>3 DEF Saves!Die, Saves!From, MachineFrom, SlotsHold
    <2> QED  BY <2>4 DEF Saves!Next
  <1>10. CASE DeserializeCpuContext
    <2>1. /\ ~MidLoad /\ ssLoaded.cpu = ssLoaded.mem /\ ssFile[ssOp.slot].parts = Complete
          /\ ssOp.slot \in SsSlots
      BY <1>10 DEF DeserializeCpuContext, MidLoad, LoadProgress, LoadValid, SsOps
    <2>2. /\ ssLoaded' = [ssLoaded EXCEPT !.cpu = ssFile[ssOp.slot].id]
          /\ ssOp' = [ssOp EXCEPT !.at = "memory"]
          /\ UNCHANGED <<ssFile, ssSaves>>
      BY <1>10, <2>1 DEF DeserializeCpuContext, Complete
    <2>3. MidLoad' /\ ssLoaded'.mem = ssLoaded.mem
      BY <1>10, <2>2 DEF DeserializeCpuContext, MidLoad, SsOps
    <2> QED  BY <1>1, <2>1, <2>2, <2>3 DEF MachineFrom
  <1>11. CASE DeserializeMemoryMap
    <2>1. PICK o \in SsSlots : o = ssOp.slot /\ LoadValid(o) /\ ssLoaded.cpu = ssFile[o].id
      BY <1>11 DEF DeserializeMemoryMap, LoadProgress, SsOps
    <2>2. ssFile[o].parts >= 3
      BY <2>1 DEF LoadValid, Complete
    <2>3. /\ ssLoaded' = [ssLoaded EXCEPT !.mem = ssFile[o].id]
          /\ ssOp' = [ssOp EXCEPT !.at = "gpu"]
          /\ UNCHANGED <<ssFile, ssSaves>>
      BY <1>11, <2>1, <2>2 DEF DeserializeMemoryMap
    <2>4. ~MidLoad' /\ ssLoaded'.cpu = ssFile[o].id /\ ssLoaded'.mem = ssFile[o].id
      BY <2>1, <2>3 DEF MidLoad, SsOps
    <2>5. SlotsHold[o] = ssFile[o].id /\ ssFile[o].id # 0
      BY <2>1 DEF SlotsHold, SaveNumbers
    <2>6. MachineFrom' = [cpu |-> SlotsHold[o], mem |-> SlotsHold[o]]
      BY <2>4, <2>5 DEF MachineFrom
    <2>7. Saves!Restore(o)
      BY <1>1, <2>3, <2>5, <2>6 DEF Saves!Restore, Saves!From, SlotsHold, MachineFrom
    <2> QED  BY <2>7 DEF Saves!Next
  <1>12. CASE DeserializeGpuState
    <2>1. ~MidLoad /\ ~MidLoad'
      BY <1>12, NoOpTyped DEF DeserializeGpuState, MidLoad
    <2> QED  BY <1>1, <1>2, <1>12, <2>1 DEF DeserializeGpuState
  <1> QED  BY <1>3, <1>4, <1>5, <1>6, <1>7, <1>8, <1>9, <1>10, <1>11, <1>12 DEF SsNext

\* For any slots and any number of saves, a slot holds one whole save or none that Load
\* accepts, and a Load that began restores CPU and memory at one moment, whatever prefix
\* of a file a full disk or the emulator's death leaves (Save, Load, Delete).
THEOREM SlotsHoldWholeSaves == SsSpec => SavesAreAtomic
  <1>1. SsInit => Saves!Init /\ SaveNumbers
    BY NoOpTyped, NoSaveTyped
    DEF SsInit, Saves!Init, Saves!From, SaveNumbers, LoadValid, MidLoad
  <1>2. SsInv /\ SaveNumbers /\ [SsNext]_ssVars => [Saves!Next]_(Saves!vars)
    BY SavesStep DEF Saves!vars, SlotsHold, MachineFrom
  <1> QED  BY <1>1, <1>2, SsInvInit, SsInvInductive, SaveNumbersInductive, PTL
           DEF SsSpec, SavesAreAtomic, Saves!Spec

LEMMA SsInvTyped == SsInv => SsTypeOK
  <1> SUFFICES ASSUME SsInv PROVE SsTypeOK
    OBVIOUS
  <1> USE DEF SsInv, SsShape
  <1>1. \A s \in SsSlots : ssFile[s] \in SaveFiles
    OBVIOUS
  <1>2. DOMAIN ssGuest.mem \subseteq SsRegions
    BY DEF MachineData, PageVersions
  <1> QED  BY <1>1, <1>2 DEF SsTypeOK, SaveFiles, SsOps, MachineData

HIDE SaveStateAssumption DEF SaveStateAssumption
-----------------------------------------------------------------------------
(* The execution manager.  What a thread has left to do tells how deep it  *)
(* is in ctx.mtx: every scope it is in has its release among the next two  *)
(* steps, and before it comes nothing but a change of state or of the pid. *)
(* So whoever holds ctx.mtx wants no other mutex.                          *)

USE ExecutionAssumption DEF ExecutionAssumption

ExSteps ==
    {x \in [do : ExOps, arg : ExecStates \cup ExOps \cup {"none"}, n : Nat] :
        /\ x.do = "set" => x.arg \in ExecStates
        /\ x.do = "lock" => x.arg \in ExecStates \cup {"none", "remember", "forget"}}

ExShape ==
    /\ exState \in ExecStates
    /\ exPid \in 0 .. ExMaxLoads
    /\ exMtx \in [by : ExThreads \cup {ExNobody}, depth : {0, 1, 2}]
    /\ exMtx.depth = 0 <=> exMtx.by = ExNobody
    /\ exProcMtx \in ExThreads \cup {ExNobody}
    /\ exProcs \in Seq({"Created", "Running", "Exiting", "Terminated"})
    /\ Len(exProcs) <= ExMaxLoads
    /\ exInfo \in {"Unknown", "Fault", "GuestPanic"}
    /\ exTodo \in [ExThreads -> Seq(ExSteps)]

\* s is the rest of a thread that is d deep in ctx.mtx.
Unlocked(s) == \A i \in DOMAIN s : s[i].do # "unlock"

UnlockedFrom(s, k) == \A i \in k .. Len(s) : s[i].do # "unlock"

\* The release is the next step, or the one after, or both are.
ReleaseNow(s) == Len(s) >= 1 /\ s[1].do = "unlock" /\ UnlockedFrom(s, 2)

ReleaseNext(s) ==
    /\ Len(s) >= 2 /\ s[2].do = "unlock" /\ UnlockedFrom(s, 3)
    /\ s[1].do \in {"set", "remember", "forget"} \/ (s[1].do = "lock" /\ s[1].arg = "none")

ReleaseTwice(s) == Len(s) >= 2 /\ s[1].do = "unlock" /\ s[2].do = "unlock" /\ UnlockedFrom(s, 3)

Scoped(s, d) ==
    /\ d = 0 => Unlocked(s)
    /\ d = 1 => ReleaseNow(s) \/ ReleaseNext(s)
    /\ d = 2 => ReleaseTwice(s)

ScopesClosed ==
    /\ exMtx.by # ExNobody => Scoped(exTodo[exMtx.by], exMtx.depth)
    /\ \A t \in ExThreads : t # exMtx.by => Scoped(exTodo[t], 0)

\* One load at a time, and one callback for each process there has been.
LoadsOnce(s) == \A i, j \in DOMAIN s : s[i].do \in {"create", "register"} /\ s[j].do \in {"create", "register"} => i = j

Registers(s) == \E i \in DOMAIN s : s[i].do = "register"

ExRegistering == {t \in ExThreads : Registers(exTodo[t])}

CallbacksCounted ==
    /\ \A t \in ExThreads : LoadsOnce(exTodo[t])
    /\ exCallbacks \in Nat
    /\ exCallbacks + Cardinality(ExRegistering) <= Len(exProcs)

ExInv == ExShape /\ ScopesClosed /\ CallbacksCounted
-----------------------------------------------------------------------------
\* The rest of a call after its first step became the steps p.
IsSpliced(new, p, s) ==
    /\ new \in Seq(ExSteps)
    /\ Len(new) = Len(p) + Len(s) - 1
    /\ \A i \in 1 .. Len(new) : new[i] = IF i <= Len(p) THEN p[i] ELSE s[i - Len(p) + 1]

LEMMA Spliced ==
    ASSUME NEW s \in Seq(ExSteps), s # <<>>, NEW p \in Seq(ExSteps)
    PROVE  IsSpliced(p \o Tail(s), p, s)
  <1>1. /\ Tail(s) \in Seq(ExSteps) /\ Len(Tail(s)) = Len(s) - 1
        /\ \A i \in 1 .. Len(s) - 1 : Tail(s)[i] = s[i + 1]
        /\ Len(s) \in Nat /\ Len(s) > 0 /\ Len(p) \in Nat
    BY HeadTailProperties, EmptySeq, LenProperties
  <1>2. PICK q \in Seq(ExSteps) : q = Tail(s)
    BY <1>1
  <1>3. /\ p \o q \in Seq(ExSteps) /\ Len(p \o q) = Len(p) + Len(q)
        /\ \A i \in 1 .. Len(p) + Len(q) : (p \o q)[i] = IF i <= Len(p) THEN p[i] ELSE q[i - Len(p)]
    BY ConcatProperties, <1>1
  <1>4. ASSUME NEW i \in 1 .. Len(p) + Len(s) - 1, i > Len(p)
        PROVE  q[i - Len(p)] = s[i - Len(p) + 1]
    BY <1>1, <1>2, <1>4
  <1> QED BY <1>1, <1>2, <1>3, <1>4 DEF IsSpliced

\* Steps that do not belong to a load.
Quiet(p) == \A i \in DOMAIN p : p[i].do \notin {"create", "register"}

IsQuietly(new, p, s) ==
    /\ Unlocked(s) /\ Unlocked(p) => Unlocked(new)
    /\ LoadsOnce(s) => LoadsOnce(new)
    /\ Registers(new) => Registers(s)
    /\ Registers(s) /\ s[1].do # "register" => Registers(new)

LEMMA QuietlySpliced ==
    ASSUME NEW s \in Seq(ExSteps), s # <<>>, NEW p \in Seq(ExSteps), NEW new, IsSpliced(new, p, s), Quiet(p)
    PROVE  IsQuietly(new, p, s)
  <1>1. PICK k \in Nat, m \in Nat : k = Len(p) /\ m = Len(s) /\ m > 0
    BY EmptySeq, LenProperties
  <1>2. DOMAIN s = 1 .. m /\ DOMAIN p = 1 .. k /\ DOMAIN new = 1 .. (k + m - 1)
    BY <1>1, LenProperties DEF IsSpliced
  <1>3. ASSUME NEW i \in 1 .. (k + m - 1)
        PROVE  \/ i \in 1 .. k /\ new[i] = p[i]
               \/ i > k /\ i - k + 1 \in 1 .. m /\ new[i] = s[i - k + 1]
    BY <1>1, <1>2, <1>3 DEF IsSpliced
  <1>4. ASSUME NEW j \in 1 .. m, j > 1
        PROVE  j - 1 + k \in 1 .. (k + m - 1) /\ new[j - 1 + k] = s[j]
    <2>1. PICK i : i = j - 1 + k
      OBVIOUS
    <2>2. i \in 1 .. (k + m - 1) /\ i > k /\ i - k + 1 = j
      BY <1>1, <1>4, <2>1
    <2>3. i \in 1 .. Len(new) /\ ~(i <= Len(p))
      BY <1>1, <2>2 DEF IsSpliced
    <2>4. new[i] = s[i - Len(p) + 1]
      BY <2>3 DEF IsSpliced
    <2>5. new[i] = s[j]
      BY <1>1, <2>2, <2>4
    <2> QED BY <2>1, <2>2, <2>5
  <1>5. Unlocked(s) /\ Unlocked(p) => Unlocked(new)
    BY <1>2, <1>3 DEF Unlocked
  <1>6. ASSUME LoadsOnce(s)
        PROVE  LoadsOnce(new)
    <2> SUFFICES ASSUME NEW i \in 1 .. (k + m - 1), NEW j \in 1 .. (k + m - 1),
                        new[i].do \in {"create", "register"}, new[j].do \in {"create", "register"}
                 PROVE  i = j
      BY <1>2 DEF LoadsOnce
    <2>1. /\ i - k + 1 \in 1 .. m /\ new[i] = s[i - k + 1]
          /\ j - k + 1 \in 1 .. m /\ new[j] = s[j - k + 1]
      BY <1>2, <1>3 DEF Quiet
    <2>2. i - k + 1 = j - k + 1
      BY <1>2, <1>6, <2>1 DEF LoadsOnce
    <2> QED BY <2>2
  <1>7. Registers(new) => Registers(s)
    BY <1>2, <1>3 DEF Registers, Quiet
  <1>8. ASSUME Registers(s), s[1].do # "register"
        PROVE  Registers(new)
    <2>1. PICK j \in 1 .. m : s[j].do = "register"
      BY <1>2, <1>8 DEF Registers
    <2>2. j > 1
      BY <1>8, <2>1
    <2> QED BY <1>2, <1>4, <2>1, <2>2 DEF Registers
  <1> QED BY <1>5, <1>6, <1>7, <1>8 DEF IsQuietly
-----------------------------------------------------------------------------
\* The single steps.
LEMMA SingleSteps ==
    /\ \A x \in ExOps \ {"set", "lock"} : Do(x) \in Seq(ExSteps)
    /\ \A x \in ExOps \ {"set", "lock"}, k \in Nat : DoWith(x, k) \in Seq(ExSteps)
    /\ \A x \in ExecStates : SetState(x) \in Seq(ExSteps)
    /\ \A x \in ExecStates \cup {"none", "remember", "forget"} : Locked(x) \in Seq(ExSteps)
  <1>1. ASSUME NEW x \in ExOps \ {"set", "lock"}, NEW k \in Nat
        PROVE  [do |-> x, arg |-> "none", n |-> k] \in ExSteps
    BY DEF ExSteps
  <1>2. ASSUME NEW x \in ExecStates
        PROVE  [do |-> "set", arg |-> x, n |-> 0] \in ExSteps
    BY DEF ExSteps, ExOps
  <1>3. ASSUME NEW x \in ExecStates \cup {"none", "remember", "forget"}
        PROVE  [do |-> "lock", arg |-> x, n |-> 0] \in ExSteps
    BY DEF ExSteps, ExOps
  <1>0. \A x \in ExSteps : <<x>> \in Seq(ExSteps)
    <2> SUFFICES ASSUME NEW S, NEW x \in S
                 PROVE  <<x>> \in Seq(S)
      OBVIOUS
    <2> QED OBVIOUS
  <1>4. \A x \in ExOps \ {"set", "lock"} : Do(x) \in Seq(ExSteps)
    BY <1>0, <1>1 DEF Do
  <1>5. \A x \in ExOps \ {"set", "lock"}, k \in Nat : DoWith(x, k) \in Seq(ExSteps)
    BY <1>0, <1>1 DEF DoWith
  <1>6. \A x \in ExecStates : SetState(x) \in Seq(ExSteps)
    BY <1>0, <1>2 DEF SetState
  <1>7. \A x \in ExecStates \cup {"none", "remember", "forget"} : Locked(x) \in Seq(ExSteps)
    BY <1>0, <1>3 DEF Locked
  <1> QED BY <1>4, <1>5, <1>6, <1>7

LEMMA QuietSteps ==
    /\ <<>> \in Seq(ExSteps) /\ Quiet(<<>>) /\ Unlocked(<<>>)
    /\ \A x : x \notin {"create", "register", "unlock"} => Quiet(Do(x)) /\ Unlocked(Do(x))
    /\ \A x, k : x \notin {"create", "register", "unlock"} => Quiet(DoWith(x, k)) /\ Unlocked(DoWith(x, k))
    /\ \A x : Quiet(SetState(x)) /\ Quiet(Locked(x)) /\ Unlocked(SetState(x)) /\ Unlocked(Locked(x))
  <1>1. <<>> \in Seq(ExSteps) /\ Quiet(<<>>) /\ Unlocked(<<>>)
    BY DEF Quiet, Unlocked
  <1>2. ASSUME NEW x, x.do \notin {"create", "register", "unlock"}
        PROVE  Quiet(<<x>>) /\ Unlocked(<<x>>)
    BY <1>2 DEF Quiet, Unlocked
  <1>3. ASSUME NEW x, NEW y, NEW k, x \notin {"create", "register", "unlock"}
        PROVE  Quiet(<<[do |-> x, arg |-> y, n |-> k]>>) /\ Unlocked(<<[do |-> x, arg |-> y, n |-> k]>>)
    <2>1. [do |-> x, arg |-> y, n |-> k].do = x
      OBVIOUS
    <2> QED BY <1>2, <1>3, <2>1
  <1> QED BY <1>1, <1>3 DEF Do, DoWith, SetState, Locked

LEMMA QuietTogether ==
    ASSUME NEW p \in Seq(ExSteps), NEW q \in Seq(ExSteps), Quiet(p), Quiet(q)
    PROVE  p \o q \in Seq(ExSteps) /\ Quiet(p \o q) /\ (Unlocked(p) /\ Unlocked(q) => Unlocked(p \o q))
  <1>0. p \o q \in Seq(ExSteps)
    BY ConcatProperties
  <1>1. PICK r \in Seq(ExSteps) :
          /\ r = p \o q /\ Len(r) = Len(p) + Len(q)
          /\ \A i \in 1 .. Len(p) + Len(q) : r[i] = IF i <= Len(p) THEN p[i] ELSE q[i - Len(p)]
    BY <1>0, ConcatProperties, Zenon
  <1>2. PICK k \in Nat, m \in Nat : k = Len(p) /\ m = Len(q)
    BY LenProperties
  <1>3. DOMAIN p = 1 .. k /\ DOMAIN q = 1 .. m /\ DOMAIN r = 1 .. (k + m)
    BY <1>1, <1>2, LenProperties
  <1>4. ASSUME NEW i \in 1 .. (k + m)
        PROVE  (i \in 1 .. k /\ r[i] = p[i]) \/ (i - k \in 1 .. m /\ r[i] = q[i - k])
    BY <1>1, <1>2, <1>4
  <1> QED BY <1>1, <1>3, <1>4 DEF Quiet, Unlocked
-----------------------------------------------------------------------------
\* A step that is no part of a load leaves the count of the callbacks.
IsSplicedStep(t, p) ==
    /\ exTodo' \in [ExThreads -> Seq(ExSteps)]
    /\ \A u \in ExThreads \ {t} : exTodo'[u] = exTodo[u]
    /\ IsSpliced(exTodo'[t], p, exTodo[t])

LEMMA SplicedStep ==
    ASSUME ExInv, NEW t \in ExThreads, exTodo[t] # <<>>, NEW p \in Seq(ExSteps), ExThen(t, p)
    PROVE  IsSplicedStep(t, p)
  <1>1. exTodo \in [ExThreads -> Seq(ExSteps)] /\ exTodo[t] \in Seq(ExSteps)
    BY DEF ExInv, ExShape
  <1>2. IsSpliced(p \o Tail(exTodo[t]), p, exTodo[t])
    BY <1>1, Spliced
  <1>3. p \o Tail(exTodo[t]) \in Seq(ExSteps)
    BY <1>2 DEF IsSpliced
  <1> QED BY <1>1, <1>2, <1>3 DEF ExThen, IsSplicedStep

LEMMA QuietStep ==
    ASSUME ExInv, NEW t \in ExThreads, exTodo[t] # <<>>, exTodo[t][1].do # "register",
           NEW p \in Seq(ExSteps), Quiet(p), IsSplicedStep(t, p),
           UNCHANGED exCallbacks, Len(exProcs') = Len(exProcs)
    PROVE  CallbacksCounted'
  <1>1. IsQuietly(exTodo'[t], p, exTodo[t])
    BY QuietlySpliced DEF IsSplicedStep, ExInv, ExShape
  <1>2. \A u \in ExThreads : Registers(exTodo'[u]) <=> Registers(exTodo[u])
    BY <1>1 DEF IsSplicedStep, IsQuietly
  <1>3. ExRegistering' = ExRegistering
    BY <1>2 DEF ExRegistering
  <1> QED BY <1>1, <1>3 DEF ExInv, CallbacksCounted, IsQuietly, IsSplicedStep

\* A step that takes and releases no mutex, by a thread that does not hold ctx.mtx.
LEMMA OutsideStep ==
    ASSUME ExInv, NEW t \in ExThreads, exMtx.by # t, UNCHANGED exMtx,
           \A u \in ExThreads \ {t} : exTodo'[u] = exTodo[u],
           Unlocked(exTodo[t]) => Unlocked(exTodo'[t])
    PROVE  ScopesClosed'
  <1>1. exMtx.by # ExNobody => exMtx.by \in ExThreads \ {t}
    BY DEF ExInv, ExShape
  <1>2. Unlocked(exTodo'[t])
    BY DEF ExInv, ScopesClosed, Scoped
  <1>3. Scoped(exTodo'[t], 0)
    BY <1>2 DEF Scoped
  <1> QED BY <1>1, <1>3 DEF ExInv, ScopesClosed

LEMMA HolderUpdates ==
    ASSUME ExInv, NEW t \in ExThreads, exMtx.by = t
    PROVE  /\ exTodo[t] # <<>>
           /\ exTodo[t][1].do \in {"set", "remember", "forget", "lock", "unlock"}
           /\ exMtx.depth \in {1, 2}
  <1>1. exMtx.depth \in {1, 2} /\ Scoped(exTodo[t], exMtx.depth)
    BY DEF ExInv, ExShape, ScopesClosed
  <1>2. ReleaseNow(exTodo[t]) \/ ReleaseNext(exTodo[t]) \/ ReleaseTwice(exTodo[t])
    BY <1>1 DEF Scoped
  <1>3. Len(<<>>) = 0
    OBVIOUS
  <1>4. Len(exTodo[t]) \in Nat
    BY DEF ExInv, ExShape
  <1> QED BY <1>1, <1>2, <1>3, <1>4 DEF ReleaseNow, ReleaseNext, ReleaseTwice

LEMMA QuietOutsideStep ==
    ASSUME ExInv, NEW t \in ExThreads, exTodo[t] # <<>>,
           exTodo[t][1].do \in {"create", "start", "exit", "kill", "fire", "fired", "wait", "fault", "panic"},
           NEW p \in Seq(ExSteps), Quiet(p), Unlocked(p), ExThen(t, p),
           UNCHANGED <<exMtx, exCallbacks>>, Len(exProcs') = Len(exProcs)
    PROVE  exTodo' \in [ExThreads -> Seq(ExSteps)] /\ ScopesClosed' /\ CallbacksCounted'
  <1>1. IsSplicedStep(t, p)
    BY SplicedStep
  <1>2. CallbacksCounted'
    BY <1>1, QuietStep
  <1>3. IsQuietly(exTodo'[t], p, exTodo[t])
    BY <1>1, QuietlySpliced DEF IsSplicedStep, ExInv, ExShape
  <1>4. exMtx.by # t
    BY HolderUpdates
  <1>5. ScopesClosed'
    BY <1>1, <1>3, <1>4, OutsideStep DEF IsQuietly, IsSplicedStep
  <1> QED BY <1>1, <1>2, <1>5 DEF IsSplicedStep
-----------------------------------------------------------------------------
LEMMA ExDoesFirst ==
    ASSUME ExInv, NEW t \in ExThreads, NEW x, ExDoes(t, x)
    PROVE  exTodo[t] # <<>> /\ exTodo[t][1].do = x /\ Head(exTodo[t]) = exTodo[t][1] /\ exTodo[t][1] \in ExSteps
  <1>1. exTodo[t] \in Seq(ExSteps) /\ exTodo[t] # <<>>
    BY DEF ExDoes, ExInv, ExShape
  <1>2. PICK s \in Seq(ExSteps) : s = exTodo[t]
    BY <1>1
  <1>3. Head(s) = s[1] /\ s[1] \in ExSteps
    BY <1>1, <1>2, HeadTailProperties
  <1> QED BY <1>1, <1>2, <1>3 DEF ExDoes

\* The processes change their states and stay where they are.
LEMMA ProcessesKept ==
    ASSUME ExInv, NEW k, NEW x \in {"Created", "Running", "Exiting", "Terminated"},
           exProcs' = [exProcs EXCEPT ![k] = x]
    PROVE  /\ exProcs' \in Seq({"Created", "Running", "Exiting", "Terminated"})
           /\ Len(exProcs') = Len(exProcs)
  <1>1. PICK S : S = {"Created", "Running", "Exiting", "Terminated"}
    OBVIOUS
  <1>2. PICK n \in Nat : exProcs \in [1 .. n -> S] /\ n = Len(exProcs)
    BY <1>1, LenProperties DEF ExInv, ExShape
  <1>3. exProcs' \in [1 .. n -> S]
    BY <1>1, <1>2
  <1>4. exProcs' \in Seq(S)
    BY <1>3, SeqDef
  <1> QED BY <1>1, <1>2, <1>3, <1>4, LenProperties

LEMMA DoStartKeeps ==
    ASSUME ExInv, NEW t \in ExThreads, DoStart(t)
    PROVE  ExInv'
  <1>1. exTodo[t] # <<>> /\ exTodo[t][1].do = "start"
    BY ExDoesFirst DEF DoStart
  <1>2. PICK x \in {"Running", "Faulted"} : ExThen(t, SetState(x))
    BY DEF DoStart
  <1>3. SetState(x) \in Seq(ExSteps) /\ Quiet(SetState(x)) /\ Unlocked(SetState(x))
    BY SingleSteps, QuietSteps DEF ExecStates
  <1>4. /\ exProcs' \in Seq({"Created", "Running", "Exiting", "Terminated"})
        /\ Len(exProcs') = Len(exProcs)
    <2>1. CASE exProcs' = [exProcs EXCEPT ![exPid] = "Running"]
      BY <2>1, ProcessesKept
    <2>2. CASE UNCHANGED exProcs
      BY <2>2 DEF ExInv, ExShape
    <2> QED BY <2>1, <2>2 DEF DoStart
  <1>5. exTodo' \in [ExThreads -> Seq(ExSteps)] /\ ScopesClosed' /\ CallbacksCounted'
    BY <1>1, <1>2, <1>3, <1>4, QuietOutsideStep DEF DoStart
  <1> QED BY <1>4, <1>5 DEF DoStart, ExInv, ExShape

LEMMA DoEndKeeps ==
    ASSUME ExInv, NEW t \in ExThreads, DoEnd(t)
    PROVE  ExInv'
  <1>1. exTodo[t] # <<>> /\ exTodo[t][1].do \in {"exit", "kill"}
    BY ExDoesFirst DEF DoEnd
  <1>2. <<>> \in Seq(ExSteps) /\ Quiet(<<>>) /\ Unlocked(<<>>)
    BY QuietSteps
  <1>4. /\ exProcs' \in Seq({"Created", "Running", "Exiting", "Terminated"})
        /\ Len(exProcs') = Len(exProcs)
    <2>1. CASE exProcs' = [exProcs EXCEPT ![Head(exTodo[t]).n] = "Terminated"]
      BY <2>1, ProcessesKept
    <2>2. CASE exProcs' = [exProcs EXCEPT ![exPid] = "Exiting"]
      BY <2>2, ProcessesKept
    <2>3. CASE UNCHANGED exProcs
      BY <2>3 DEF ExInv, ExShape
    <2> QED BY <2>1, <2>2, <2>3 DEF DoEnd
  <1>5. exTodo' \in [ExThreads -> Seq(ExSteps)] /\ ScopesClosed' /\ CallbacksCounted'
    BY <1>1, <1>2, <1>4, QuietOutsideStep DEF DoEnd
  <1> QED BY <1>4, <1>5 DEF DoEnd, ExInv, ExShape

LEMMA DoFireKeeps ==
    ASSUME ExInv, NEW t \in ExThreads, DoFire(t)
    PROVE  ExInv'
  <1>1. exTodo[t] # <<>> /\ exTodo[t][1].do = "fire"
    BY ExDoesFirst DEF DoFire
  <1>2. PICK p \in Seq(ExSteps) : p = DoWith("fired", exCallbacks) /\ Quiet(p) /\ Unlocked(p)
    BY SingleSteps, QuietSteps DEF ExOps, ExInv, CallbacksCounted
  <1>3. exTodo' \in [ExThreads -> Seq(ExSteps)] /\ ScopesClosed' /\ CallbacksCounted'
    BY <1>1, <1>2, QuietOutsideStep DEF DoFire
  <1> QED BY <1>3 DEF DoFire, ExInv, ExShape

LEMMA DoFiredKeeps ==
    ASSUME ExInv, NEW t \in ExThreads, DoFired(t)
    PROVE  ExInv'
  <1>1. exTodo[t] # <<>> /\ exTodo[t][1].do = "fired" /\ Head(exTodo[t]) = exTodo[t][1] /\ exTodo[t][1] \in ExSteps
    BY ExDoesFirst DEF DoFired
  <1>2. PICK left \in Nat : left = Head(exTodo[t]).n
    BY <1>1 DEF ExSteps
  <1>3. PICK p \in Seq(ExSteps) : ExThen(t, p) /\ Quiet(p) /\ Unlocked(p)
    <2>1. CASE left = 0
      BY <1>2, <2>1, QuietSteps DEF DoFired
    <2>2. CASE left # 0
      <3>1. PICK a \in Seq(ExSteps) : a = Locked("none") /\ Quiet(a) /\ Unlocked(a)
        BY SingleSteps, QuietSteps
      <3>2. PICK b \in Seq(ExSteps) : b = SetState("Terminated") /\ Quiet(b) /\ Unlocked(b)
        BY SingleSteps, QuietSteps DEF ExecStates
      <3>3. PICK c \in Seq(ExSteps) : c = DoWith("fired", left - 1) /\ Quiet(c) /\ Unlocked(c)
        <4>1. left - 1 \in Nat
          BY <2>2
        <4> QED BY <4>1, SingleSteps, QuietSteps DEF ExOps
      <3>4. PICK ab \in Seq(ExSteps) : ab = a \o b /\ Quiet(ab) /\ Unlocked(ab)
        BY <3>1, <3>2, QuietTogether
      <3>5. PICK abc \in Seq(ExSteps) : abc = ab \o c /\ Quiet(abc) /\ Unlocked(abc)
        BY <3>3, <3>4, QuietTogether
      <3>6. ExThen(t, Locked("none") \o SetState("Terminated") \o DoWith("fired", left - 1))
        BY <1>2, <2>2 DEF DoFired
      <3> QED BY <3>1, <3>2, <3>3, <3>4, <3>5, <3>6
    <2> QED BY <2>1, <2>2
  <1>4. exTodo' \in [ExThreads -> Seq(ExSteps)] /\ ScopesClosed' /\ CallbacksCounted'
    BY <1>1, <1>3, QuietOutsideStep DEF DoFired
  <1>5. exProcMtx' \in {exProcMtx, ExNobody}
    BY DEF DoFired
  <1> QED BY <1>4, <1>5 DEF DoFired, ExInv, ExShape

LEMMA DoWaitKeeps ==
    ASSUME ExInv, NEW t \in ExThreads, DoWait(t)
    PROVE  ExInv'
  <1>1. exTodo[t] # <<>> /\ exTodo[t][1].do = "wait"
    BY ExDoesFirst DEF DoWait
  <1>2. PICK p \in Seq(ExSteps) : ExThen(t, p) /\ Quiet(p) /\ Unlocked(p)
    BY SingleSteps, QuietSteps DEF DoWait, ExOps
  <1>3. exTodo' \in [ExThreads -> Seq(ExSteps)] /\ ScopesClosed' /\ CallbacksCounted'
    BY <1>1, <1>2, QuietOutsideStep DEF DoWait
  <1> QED BY <1>3 DEF DoWait, ExInv, ExShape

LEMMA DoReportKeeps ==
    ASSUME ExInv, NEW t \in ExThreads, DoReport(t)
    PROVE  ExInv'
  <1>1. exTodo[t] # <<>> /\ exTodo[t][1].do \in {"fault", "panic"}
    BY ExDoesFirst DEF DoReport
  <1>2. exTodo' \in [ExThreads -> Seq(ExSteps)] /\ ScopesClosed' /\ CallbacksCounted'
    BY <1>1, QuietSteps, QuietOutsideStep DEF DoReport
  <1> QED BY <1>2 DEF DoReport, ExInv, ExShape
-----------------------------------------------------------------------------
\* What the steps of a holder do to its scopes.
LEMMA SplicedPointwise ==
    ASSUME NEW s \in Seq(ExSteps), s # <<>>, NEW new, NEW p \in Seq(ExSteps), IsSpliced(new, p, s)
    PROVE  /\ Len(s) \in Nat /\ Len(s) > 0 /\ Len(p) \in Nat /\ Len(new) = Len(p) + Len(s) - 1
           /\ DOMAIN s = 1 .. Len(s) /\ DOMAIN new = 1 .. Len(new)
           /\ \A i \in 1 .. Len(p) : new[i] = p[i]
           /\ \A i \in 1 .. Len(new) : i > Len(p) => new[i] = s[i - Len(p) + 1]
  <1>1. Len(s) \in Nat /\ Len(s) > 0 /\ Len(p) \in Nat /\ DOMAIN s = 1 .. Len(s)
    BY EmptySeq, LenProperties
  <1>2. DOMAIN new = 1 .. Len(new) /\ Len(new) = Len(p) + Len(s) - 1
    BY LenProperties DEF IsSpliced
  <1>3. \A i \in 1 .. Len(p) : i \in 1 .. Len(new)
    BY <1>1, <1>2
  <1> QED BY <1>1, <1>2, <1>3 DEF IsSpliced

LEMMA ScopeStays ==
    ASSUME NEW s \in Seq(ExSteps), s # <<>>, NEW new, IsSpliced(new, <<>>, s), NEW d \in {0, 1, 2},
           Scoped(s, d), s[1].do \notin {"lock", "unlock"}
    PROVE  Scoped(new, d)
  <1>1. PICK m \in Nat : m = Len(s) /\ m > 0 /\ DOMAIN s = 1 .. m
    BY EmptySeq, LenProperties
  <1>2. Len(new) = m - 1 /\ DOMAIN new = 1 .. m - 1 /\ \A i \in 1 .. m - 1 : new[i] = s[i + 1]
    BY <1>1 DEF IsSpliced
  <1>3. CASE d = 0
    BY <1>1, <1>2, <1>3 DEF Scoped, Unlocked
  <1>4. CASE d = 1
    <2>1. m >= 2 /\ s[2].do = "unlock" /\ UnlockedFrom(s, 3)
      BY <1>1, <1>4 DEF Scoped, ReleaseNow, ReleaseNext
    <2>2. new[1] = s[2]
      BY <1>1, <1>2, <2>1
    <2>3. UnlockedFrom(new, 2)
      BY <1>1, <1>2, <2>1 DEF UnlockedFrom
    <2> QED BY <1>2, <1>4, <2>1, <2>2, <2>3 DEF Scoped, ReleaseNow
  <1> QED BY <1>1, <1>3, <1>4 DEF Scoped, ReleaseTwice

LEMMA ScopeCallback ==
    ASSUME NEW s \in Seq(ExSteps), s # <<>>, NEW new, NEW p \in Seq(ExSteps), IsSpliced(new, p, s), NEW d \in {0, 1, 2},
           Scoped(s, d), s[1].do = "set", Len(p) = 1, p[1].do = "lock", p[1].arg = "none"
    PROVE  Scoped(new, d)
  <1>1. PICK m \in Nat : m = Len(s) /\ m > 0 /\ DOMAIN s = 1 .. m
    BY EmptySeq, LenProperties
  <1>2. Len(new) = m /\ DOMAIN new = 1 .. m /\ new[1] = p[1] /\ \A i \in 2 .. m : new[i] = s[i]
    <2>1. Len(new) = m
      <3>1. Len(new) = Len(p) + Len(s) - 1
        BY SplicedPointwise
      <3>2. Len(p) + Len(s) - 1 = m
        BY <1>1
      <3> QED BY <3>1, <3>2
    <2>2. \A i \in 2 .. m : new[i] = s[i - 1 + 1]
      BY <1>1, <2>1, SplicedPointwise
    <2>3. \A i \in 2 .. m : i - 1 + 1 = i
      OBVIOUS
    <2> QED BY <1>1, <2>1, <2>2, <2>3, SplicedPointwise
  <1>3. CASE d = 0
    <2>1. ASSUME NEW i \in 1 .. m PROVE new[i].do # "unlock"
      BY <1>1, <1>2, <1>3 DEF Scoped, Unlocked
    <2> QED BY <1>2, <1>3, <2>1 DEF Scoped, Unlocked
  <1>4. CASE d = 1
    <2>1. m >= 2 /\ s[2].do = "unlock" /\ UnlockedFrom(s, 3)
      BY <1>1, <1>4 DEF Scoped, ReleaseNow, ReleaseNext
    <2>2. UnlockedFrom(new, 3) /\ new[2] = s[2]
      BY <1>1, <1>2, <2>1 DEF UnlockedFrom
    <2> QED BY <1>2, <1>4, <2>1, <2>2 DEF Scoped, ReleaseNext
  <1> QED BY <1>1, <1>3, <1>4 DEF Scoped, ReleaseTwice

LEMMA ScopeEntered ==
    ASSUME NEW s \in Seq(ExSteps), s # <<>>, NEW new, NEW p \in Seq(ExSteps), IsSpliced(new, p, s), NEW d \in {0, 1, 2},
           Scoped(s, d), s[1].do = "lock",
           \/ Len(p) = 1 /\ p[1].do = "unlock"
           \/ d = 0 /\ Len(p) = 2 /\ p[1].do \in {"set", "remember", "forget"} /\ p[2].do = "unlock"
    PROVE  d \in {0, 1} /\ Scoped(new, d + 1)
  <1>1. PICK m \in Nat : m = Len(s) /\ m > 0 /\ DOMAIN s = 1 .. m
    BY EmptySeq, LenProperties
  <1>2. ASSUME Len(p) = 1
        PROVE  Len(new) = m /\ new[1] = p[1] /\ \A i \in 2 .. m : new[i] = s[i]
    <2>1. Len(new) = m
      <3>1. Len(new) = Len(p) + Len(s) - 1
        BY SplicedPointwise
      <3>2. Len(p) + Len(s) - 1 = m
        BY <1>1, <1>2
      <3> QED BY <3>1, <3>2
    <2>2. \A i \in 2 .. m : new[i] = s[i - 1 + 1]
      BY <1>1, <1>2, <2>1, SplicedPointwise
    <2>3. \A i \in 2 .. m : i - 1 + 1 = i
      OBVIOUS
    <2> QED BY <1>1, <1>2, <2>1, <2>2, <2>3, SplicedPointwise
  <1>3. CASE d = 0 /\ Len(p) = 1
    <2>1. UnlockedFrom(new, 2)
      BY <1>1, <1>2, <1>3 DEF UnlockedFrom, Scoped, Unlocked
    <2> QED BY <1>1, <1>2, <1>3, <2>1 DEF Scoped, ReleaseNow
  <1>4. CASE d = 0 /\ Len(p) = 2
    <2>1. Len(new) = m + 1 /\ new[1] = p[1] /\ new[2] = p[2]
      BY SMTT(40), <1>1, <1>4, SplicedPointwise
    <2>2. \A i \in 3 .. m + 1 : i \in 1 .. Len(new) /\ i > Len(p) /\ i - Len(p) + 1 = i - 1 /\ i - 1 \in 1 .. m
      BY <1>1, <1>4, <2>1
    <2>3. \A i \in 3 .. m + 1 : new[i] = s[i - 1]
      BY <2>2, SplicedPointwise
    <2>4. UnlockedFrom(new, 3)
      BY <1>1, <1>4, <2>1, <2>2, <2>3 DEF UnlockedFrom, Scoped, Unlocked
    <2> QED BY <1>1, <1>4, <2>1, <2>4 DEF Scoped, ReleaseNext
  <1>5. CASE d = 1
    <2>1. m >= 2 /\ s[2].do = "unlock" /\ UnlockedFrom(s, 3)
      BY <1>1, <1>5 DEF Scoped, ReleaseNow, ReleaseNext
    <2>2. UnlockedFrom(new, 3) /\ new[2] = s[2] /\ new[1] = p[1]
      BY <1>1, <1>2, <1>5, <2>1 DEF UnlockedFrom
    <2> QED BY <1>1, <1>2, <1>5, <2>1, <2>2 DEF Scoped, ReleaseTwice
  <1> QED BY <1>1, <1>3, <1>4, <1>5 DEF Scoped, ReleaseTwice

LEMMA ScopeLeft ==
    ASSUME NEW s \in Seq(ExSteps), s # <<>>, NEW new, IsSpliced(new, <<>>, s), NEW d \in {0, 1, 2},
           Scoped(s, d), s[1].do = "unlock"
    PROVE  d \in {1, 2} /\ Scoped(new, d - 1)
  <1>1. PICK m \in Nat : m = Len(s) /\ m > 0 /\ DOMAIN s = 1 .. m
    BY EmptySeq, LenProperties
  <1>2. Len(new) = m - 1 /\ DOMAIN new = 1 .. m - 1 /\ \A i \in 1 .. m - 1 : new[i] = s[i + 1]
    BY <1>1 DEF IsSpliced
  <1>3. CASE d = 1
    <2>1. UnlockedFrom(s, 2)
      BY <1>1, <1>3 DEF Scoped, ReleaseNow, ReleaseNext
    <2>2. \A i \in 1 .. m - 1 : new[i].do # "unlock"
      BY <1>1, <1>2, <2>1 DEF UnlockedFrom
    <2> QED BY <1>2, <1>3, <2>2 DEF Scoped, Unlocked
  <1>4. CASE d = 2
    <2>1. m >= 2 /\ s[2].do = "unlock" /\ UnlockedFrom(s, 3)
      BY <1>1, <1>4 DEF Scoped, ReleaseTwice
    <2>2. new[1] = s[2]
      BY <1>1, <1>2, <2>1
    <2>3. UnlockedFrom(new, 2)
      BY <1>1, <1>2, <2>1 DEF UnlockedFrom
    <2> QED BY <1>2, <1>4, <2>1, <2>2, <2>3 DEF Scoped, ReleaseNow
  <1> QED BY <1>1, <1>3, <1>4 DEF Scoped, Unlocked
-----------------------------------------------------------------------------
DepthOf(t) == IF exMtx.by = t THEN exMtx.depth ELSE 0

LEMMA DepthScoped ==
    ASSUME ExInv, NEW t \in ExThreads
    PROVE  DepthOf(t) \in {0, 1, 2} /\ Scoped(exTodo[t], DepthOf(t))
  BY DEF ExInv, ExShape, ScopesClosed, DepthOf

\* A step of t at the depth d has taken t to the depth e; no other thread has the mutex.
LEMMA HolderStep ==
    ASSUME ExInv, NEW t \in ExThreads, NEW e \in {0, 1, 2},
           \A u \in ExThreads \ {t} : exTodo'[u] = exTodo[u],
           \/ exMtx' = exMtx /\ e = DepthOf(t)
           \/ exMtx' = [by |-> t, depth |-> e] /\ exMtx.by \in {t, ExNobody}
           \/ exMtx' = [by |-> ExNobody, depth |-> 0] /\ e = 0 /\ exMtx.by = t,
           Scoped(exTodo'[t], e)
    PROVE  ScopesClosed'
  <1>1. \A u \in ExThreads \ {t} : u # exMtx.by => Scoped(exTodo'[u], 0)
    BY DEF ExInv, ScopesClosed
  <1>2. CASE exMtx' = exMtx /\ e = DepthOf(t)
    BY <1>1, <1>2 DEF ExInv, ExShape, ScopesClosed, DepthOf
  <1>3. CASE exMtx' = [by |-> t, depth |-> e] /\ exMtx.by \in {t, ExNobody}
    BY <1>1, <1>3 DEF ScopesClosed
  <1>4. CASE exMtx' = [by |-> ExNobody, depth |-> 0] /\ e = 0 /\ exMtx.by = t
    BY <1>1, <1>4 DEF ScopesClosed
  <1> QED BY <1>2, <1>3, <1>4
-----------------------------------------------------------------------------
LEMMA DoSetKeeps ==
    ASSUME ExInv, NEW t \in ExThreads, DoSet(t)
    PROVE  ExInv'
  <1>1. exTodo[t] # <<>> /\ exTodo[t][1].do = "set" /\ Head(exTodo[t]) = exTodo[t][1] /\ exTodo[t][1] \in ExSteps
    BY ExDoesFirst DEF DoSet
  <1>2. exTodo[t] \in Seq(ExSteps)
    BY DEF ExInv, ExShape
  <1>3. PICK p \in Seq(ExSteps) : p \in {<<>>, Locked("none")} /\ ExThen(t, p) /\ Quiet(p)
    BY QuietSteps, SingleSteps DEF DoSet
  <1>4. IsSplicedStep(t, p)
    BY <1>1, <1>3, SplicedStep
  <1>5. CallbacksCounted'
    BY <1>1, <1>3, <1>4, QuietStep DEF DoSet
  <1>6. Scoped(exTodo'[t], DepthOf(t))
    <2>1. CASE p = <<>>
      <3>1. IsSpliced(exTodo'[t], <<>>, exTodo[t])
        BY <1>4, <2>1 DEF IsSplicedStep
      <3>2. DepthOf(t) \in {0, 1, 2} /\ Scoped(exTodo[t], DepthOf(t))
        BY DepthScoped
      <3>3. exTodo[t][1].do \notin {"lock", "unlock"}
        BY <1>1
      <3> QED BY <1>1, <1>2, <3>1, <3>2, <3>3, ScopeStays
    <2>2. CASE p = Locked("none")
      <3>1. Len(p) = 1 /\ p[1].do = "lock" /\ p[1].arg = "none"
        BY <2>2 DEF Locked
      <3> QED BY <1>1, <1>2, <1>4, <3>1, DepthScoped, ScopeCallback DEF IsSplicedStep
    <2> QED BY <1>3, <2>1, <2>2
  <1>7. ScopesClosed'
    BY <1>4, <1>6, DepthScoped, HolderStep DEF DoSet, IsSplicedStep
  <1>8. exState' \in ExecStates
    BY <1>1 DEF DoSet, ExSteps
  <1> QED BY <1>4, <1>5, <1>7, <1>8 DEF DoSet, ExInv, ExShape, IsSplicedStep

LEMMA DoPidKeeps ==
    ASSUME ExInv, NEW t \in ExThreads, DoPid(t)
    PROVE  ExInv'
  <1>1. exTodo[t] # <<>> /\ exTodo[t][1].do \in {"remember", "forget"}
    BY ExDoesFirst DEF DoPid
  <1>2. exTodo[t] \in Seq(ExSteps) /\ <<>> \in Seq(ExSteps) /\ Quiet(<<>>)
    BY QuietSteps DEF ExInv, ExShape
  <1>3. IsSplicedStep(t, <<>>)
    BY <1>1, <1>2, SplicedStep DEF DoPid
  <1>4. CallbacksCounted'
    BY <1>1, <1>2, <1>3, QuietStep DEF DoPid
  <1>5. Scoped(exTodo'[t], DepthOf(t))
    BY <1>1, <1>2, <1>3, DepthScoped, ScopeStays DEF IsSplicedStep
  <1>6. ScopesClosed'
    BY <1>3, <1>5, DepthScoped, HolderStep DEF DoPid, IsSplicedStep
  <1>7. exPid' \in 0 .. ExMaxLoads
    BY DEF DoPid, ExInv, ExShape
  <1> QED BY <1>3, <1>4, <1>6, <1>7 DEF DoPid, ExInv, ExShape, IsSplicedStep

LEMMA DoUnlockKeeps ==
    ASSUME ExInv, NEW t \in ExThreads, DoUnlock(t)
    PROVE  ExInv'
  <1>1. exTodo[t] # <<>> /\ exTodo[t][1].do = "unlock"
    BY ExDoesFirst DEF DoUnlock
  <1>2. exTodo[t] \in Seq(ExSteps) /\ <<>> \in Seq(ExSteps) /\ Quiet(<<>>)
    BY QuietSteps DEF ExInv, ExShape
  <1>3. IsSplicedStep(t, <<>>)
    BY <1>1, <1>2, SplicedStep DEF DoUnlock
  <1>4. CallbacksCounted'
    BY <1>1, <1>2, <1>3, QuietStep DEF DoUnlock
  <1>5. DepthOf(t) \in {1, 2} /\ Scoped(exTodo'[t], DepthOf(t) - 1)
    BY <1>1, <1>2, <1>3, DepthScoped, ScopeLeft DEF IsSplicedStep
  <1>6. exMtx.by = t /\ exMtx.depth = DepthOf(t) /\ exMtx \in [by : ExThreads \cup {ExNobody}, depth : {0, 1, 2}]
    BY <1>5 DEF DepthOf, ExInv, ExShape
  <1>7. PICK e \in {0, 1} :
          /\ e = DepthOf(t) - 1
          /\ exMtx' = IF e = 0 THEN [by |-> ExNobody, depth |-> 0] ELSE [by |-> t, depth |-> e]
    <2>1. CASE exMtx.depth = 1
      BY <1>6, <2>1 DEF DoUnlock
    <2>2. CASE exMtx.depth = 2
      <3>1. [exMtx EXCEPT !.depth = @ - 1] = [by |-> t, depth |-> 1]
        BY <1>6, <2>2
      <3> QED BY <1>6, <2>2, <3>1 DEF DoUnlock
    <2> QED BY <1>5, <1>6, <2>1, <2>2
  <1>8. ScopesClosed'
    BY <1>3, <1>5, <1>6, <1>7, HolderStep DEF IsSplicedStep
  <1>9. /\ exMtx' \in [by : ExThreads \cup {ExNobody}, depth : {0, 1, 2}]
        /\ exMtx'.depth = 0 <=> exMtx'.by = ExNobody
    BY <1>7
  <1> QED BY <1>3, <1>4, <1>8, <1>9 DEF DoUnlock, ExInv, ExShape, IsSplicedStep

LEMMA OneStep ==
    ASSUME NEW y \in ExSteps
    PROVE  <<y>> \in Seq(ExSteps) /\ Len(<<y>>) = 1 /\ <<y>>[1] = y
  <1> SUFFICES ASSUME NEW S, NEW x \in S
               PROVE  <<x>> \in Seq(S) /\ Len(<<x>>) = 1 /\ <<x>>[1] = x
    OBVIOUS
  <1> QED OBVIOUS

LEMMA OneMoreStep ==
    ASSUME NEW p \in Seq(ExSteps), NEW y \in ExSteps, NEW k \in Nat, NEW m \in Nat, k = Len(p), m = k + 1
    PROVE  /\ p \o <<y>> \in Seq(ExSteps) /\ Len(p \o <<y>>) = m
           /\ \A i \in 1 .. k : (p \o <<y>>)[i] = p[i]
           /\ (p \o <<y>>)[m] = y
  <1>1. PICK q \in Seq(ExSteps) : q = <<y>> /\ Len(q) = 1 /\ q[1] = y
    BY OneStep
  <1>2. /\ p \o q \in Seq(ExSteps) /\ Len(p \o q) = k + 1
        /\ \A i \in 1 .. k + 1 : (p \o q)[i] = IF i <= k THEN p[i] ELSE q[i - k]
    BY <1>1, ConcatProperties
  <1>3. m \in 1 .. k + 1 /\ ~(m <= k) /\ m - k = 1
    OBVIOUS
  <1>4. \A i \in 1 .. k : i \in 1 .. k + 1 /\ i <= k
    OBVIOUS
  <1>5. (p \o q)[m] = q[m - k]
    BY <1>2, <1>3
  <1> QED BY <1>1, <1>2, <1>3, <1>4, <1>5

LEMMA DoLockKeeps ==
    ASSUME ExInv, NEW t \in ExThreads, DoLock(t)
    PROVE  ExInv'
  <1>1. exTodo[t] # <<>> /\ exTodo[t][1].do = "lock" /\ Head(exTodo[t]) = exTodo[t][1] /\ exTodo[t][1] \in ExSteps
    BY ExDoesFirst DEF DoLock
  <1>2. exTodo[t] \in Seq(ExSteps)
    BY DEF ExInv, ExShape
  <1>3. PICK what \in ExecStates \cup {"none", "remember", "forget"} : what = Head(exTodo[t]).arg
    BY <1>1 DEF ExSteps
  <1>4. PICK x \in ExSteps : x = [do |-> "unlock", arg |-> "none", n |-> 0]
    BY DEF ExSteps, ExOps
  <1>5. PICK p \in Seq(ExSteps) :
          /\ p = Inside(what) \o Do("unlock") /\ Quiet(p)
          /\ \/ Len(p) = 1 /\ p[1].do = "unlock"
             \/ /\ what # "none" /\ Len(p) = 2
                /\ p[1].do \in {"set", "remember", "forget"} /\ p[2].do = "unlock"
    <2>1. CASE what = "none"
      <3>1. Inside(what) \o Do("unlock") = <<x>>
        BY <1>4, <2>1 DEF Inside, Do
      <3>2. <<x>> \in Seq(ExSteps) /\ Quiet(<<x>>) /\ Len(<<x>>) = 1 /\ <<x>>[1] = x
        BY <1>4 DEF Quiet
      <3> QED BY <1>4, <3>1, <3>2
    <2>2. CASE what # "none"
      <3>1. PICK y \in ExSteps : y.do \in {"set", "remember", "forget"} /\ Inside(what) = <<y>>
        <4>1. CASE what \in ExecStates
          <5>1. [do |-> "set", arg |-> what, n |-> 0] \in ExSteps
            BY <4>1 DEF ExSteps, ExOps
          <5> QED BY <2>2, <4>1, <5>1 DEF Inside, SetState
        <4>2. CASE what \in {"remember", "forget"} /\ what \notin ExecStates
          <5>1. [do |-> what, arg |-> "none", n |-> 0] \in ExSteps
            BY <4>2 DEF ExSteps, ExOps
          <5> QED BY <2>2, <4>2, <5>1 DEF Inside, Do
        <4> QED BY <2>2, <4>1, <4>2
      <3>2. PICK a \in Seq(ExSteps) : a = <<y>> /\ 1 = Len(a) /\ a[1] = y
        BY OneStep
      <3>3. PICK q \in Seq(ExSteps) : q = a \o <<x>> /\ Len(q) = 2 /\ q[1] = y /\ q[2] = x
        <4>1. 1 \in 1 .. 1 /\ 2 = 1 + 1 /\ 1 \in Nat /\ 2 \in Nat
          OBVIOUS
        <4>2. /\ a \o <<x>> \in Seq(ExSteps) /\ Len(a \o <<x>>) = 2
              /\ \A i \in 1 .. 1 : (a \o <<x>>)[i] = a[i]
              /\ (a \o <<x>>)[2] = x
          BY <3>2, <4>1, OneMoreStep
        <4> QED BY <3>2, <4>1, <4>2
      <3>4. q = Inside(what) \o Do("unlock")
        BY <1>4, <3>1, <3>2, <3>3 DEF Do
      <3>5. Quiet(q)
        <4>1. DOMAIN q = 1 .. 2
          BY <3>3, LenProperties
        <4>2. \A i \in 1 .. 2 : i = 1 \/ i = 2
          OBVIOUS
        <4>3. x.do = "unlock"
          BY <1>4
        <4>4. q[1].do \notin {"create", "register"} /\ q[2].do \notin {"create", "register"}
          BY <3>1, <3>3, <4>3
        <4>5. \A i \in 1 .. 2 : q[i].do \notin {"create", "register"}
          BY <4>2, <4>4
        <4> QED BY <4>1, <4>5 DEF Quiet
      <3>6. Len(q) = 2 /\ q[1].do \in {"set", "remember", "forget"} /\ q[2].do = "unlock"
        BY <1>4, <3>1, <3>3
      <3> QED BY <2>2, <3>4, <3>5, <3>6, Zenon
    <2> QED BY <2>1, <2>2
  <1>6. IsSplicedStep(t, p)
    BY <1>1, <1>3, <1>5, SplicedStep DEF DoLock
  <1>7. CallbacksCounted'
    BY <1>1, <1>5, <1>6, QuietStep DEF DoLock
  <1>8. DepthOf(t) # 0 => what = "none"
    <2>1. exTodo[t][1].do # "unlock"
      BY <1>1
    <2> QED BY <1>1, <1>3, <2>1, DepthScoped DEF Scoped, ReleaseNow, ReleaseNext, ReleaseTwice
  <1>9. DepthOf(t) \in {0, 1} /\ Scoped(exTodo'[t], DepthOf(t) + 1)
    <2>1. PICK d \in {0, 1, 2} : d = DepthOf(t) /\ Scoped(exTodo[t], d)
      BY DepthScoped
    <2>2. \/ Len(p) = 1 /\ p[1].do = "unlock"
          \/ d = 0 /\ Len(p) = 2 /\ p[1].do \in {"set", "remember", "forget"} /\ p[2].do = "unlock"
      BY <1>5, <1>8, <2>1
    <2>3. d \in {0, 1} /\ Scoped(exTodo'[t], d + 1)
      BY <1>1, <1>2, <1>6, <2>1, <2>2, ScopeEntered DEF IsSplicedStep
    <2> QED BY <2>1, <2>3
  <1>10. exMtx.by \in {t, ExNobody} /\ exMtx.depth = DepthOf(t) /\ exMtx' = [by |-> t, depth |-> DepthOf(t) + 1]
    BY DEF DoLock, DepthOf, ExInv, ExShape
  <1>11. PICK e \in {1, 2} : e = DepthOf(t) + 1
    BY <1>9
  <1>12. ScopesClosed'
    BY <1>6, <1>9, <1>10, <1>11, HolderStep DEF IsSplicedStep
  <1>13. /\ exMtx' \in [by : ExThreads \cup {ExNobody}, depth : {0, 1, 2}]
         /\ exMtx'.depth = 0 <=> exMtx'.by = ExNobody
    BY <1>10, <1>11
  <1> QED BY <1>6, <1>7, <1>12, <1>13 DEF DoLock, ExInv, ExShape, IsSplicedStep

LEMMA DoRegisterKeeps ==
    ASSUME ExInv, NEW t \in ExThreads, DoRegister(t)
    PROVE  ExInv'
  <1>1. exTodo[t] # <<>> /\ exTodo[t][1].do = "register"
    BY ExDoesFirst DEF DoRegister
  <1>2. exTodo[t] \in Seq(ExSteps) /\ <<>> \in Seq(ExSteps) /\ Unlocked(<<>>) /\ Quiet(<<>>)
    BY QuietSteps DEF ExInv, ExShape
  <1>3. IsSplicedStep(t, <<>>)
    BY <1>1, <1>2, SplicedStep DEF DoRegister
  <1>4. IsQuietly(exTodo'[t], <<>>, exTodo[t])
    BY <1>1, <1>2, <1>3, QuietlySpliced DEF IsSplicedStep
  <1>5. exMtx.by # t
    BY <1>1, HolderUpdates
  <1>6. ScopesClosed'
    BY <1>2, <1>3, <1>4, <1>5, OutsideStep DEF DoRegister, IsSplicedStep, IsQuietly
  <1>7. Registers(exTodo[t]) /\ ~Registers(exTodo'[t])
    <2>1. PICK m \in Nat : m = Len(exTodo[t]) /\ m > 0 /\ DOMAIN exTodo[t] = 1 .. m
      BY <1>1, <1>2, EmptySeq, LenProperties
    <2>2. \A i \in 2 .. m : exTodo[t][i].do # "register"
      <3>1. LoadsOnce(exTodo[t])
        BY DEF ExInv, CallbacksCounted
      <3>2. \A i \in 2 .. m : i \in 1 .. m /\ i # 1 /\ 1 \in 1 .. m
        BY <2>1
      <3> QED BY <1>1, <2>1, <3>1, <3>2 DEF LoadsOnce
    <2>3. DOMAIN exTodo'[t] = 1 .. m - 1 /\ \A i \in 1 .. m - 1 : exTodo'[t][i] = exTodo[t][i + 1]
      BY <2>1, <1>3 DEF IsSplicedStep, IsSpliced
    <2>4. \A i \in 1 .. m - 1 : i + 1 \in 2 .. m
      BY <2>1
    <2>5. \A i \in 1 .. m - 1 : exTodo'[t][i].do # "register"
      BY <2>2, <2>3, <2>4
    <2>6. Registers(exTodo[t])
      BY <1>1, <2>1 DEF Registers
    <2> QED BY <2>3, <2>5, <2>6 DEF Registers
  <1>8. ExRegistering' = ExRegistering \ {t} /\ t \in ExRegistering
    BY <1>3, <1>7 DEF ExRegistering, IsSplicedStep
  <1>9. IsFiniteSet(ExRegistering)
    BY FS_Union, FS_Singleton, FS_Subset DEF ExRegistering, ExThreads
  <1>10. Cardinality(ExRegistering') = Cardinality(ExRegistering) - 1 /\ Cardinality(ExRegistering) \in Nat
    BY <1>8, <1>9, FS_RemoveElement, FS_CardinalityType
  <1>11. CallbacksCounted'
    <2>1. exCallbacks' + Cardinality(ExRegistering') = exCallbacks + Cardinality(ExRegistering) /\ exCallbacks' \in Nat
      BY <1>10 DEF DoRegister, ExInv, CallbacksCounted
    <2>2. \A u \in ExThreads : LoadsOnce(exTodo'[u])
      BY <1>3, <1>4 DEF ExInv, CallbacksCounted, IsSplicedStep, IsQuietly
    <2> QED BY <2>1, <2>2 DEF DoRegister, ExInv, CallbacksCounted
  <1> QED BY <1>3, <1>6, <1>11 DEF DoRegister, ExInv, ExShape, IsSplicedStep

LEMMA DoCreateFails ==
    ASSUME ExInv, NEW t \in ExThreads, DoCreate(t), ExThen(t, SetState("Faulted")), UNCHANGED exProcs
    PROVE  ExInv'
  <1>1. exTodo[t] # <<>> /\ exTodo[t][1].do = "create"
    BY ExDoesFirst DEF DoCreate
  <1>2. PICK p \in Seq(ExSteps) : p = SetState("Faulted") /\ Quiet(p) /\ Unlocked(p)
    BY SingleSteps, QuietSteps DEF ExecStates
  <1>3. exTodo' \in [ExThreads -> Seq(ExSteps)] /\ ScopesClosed' /\ CallbacksCounted'
    BY <1>1, <1>2, QuietOutsideStep DEF DoCreate
  <1> QED BY <1>3 DEF DoCreate, ExInv, ExShape

LEMMA LoadSteps ==
    \E p \in Seq(ExSteps) :
        /\ p = Locked("remember") \o Do("register") \o SetState("Ready")
        /\ Len(p) = 3 /\ p[1].do = "lock" /\ p[2].do = "register" /\ p[3].do = "set"
  <1>1. PICK x \in ExSteps, y \in ExSteps, z \in ExSteps :
          /\ Locked("remember") = <<x>> /\ x.do = "lock"
          /\ Do("register") = <<y>> /\ y.do = "register"
          /\ SetState("Ready") = <<z>> /\ z.do = "set"
    <2>1. /\ [do |-> "lock", arg |-> "remember", n |-> 0] \in ExSteps
          /\ [do |-> "register", arg |-> "none", n |-> 0] \in ExSteps
          /\ [do |-> "set", arg |-> "Ready", n |-> 0] \in ExSteps
      BY DEF ExSteps, ExOps, ExecStates
    <2> QED BY <2>1 DEF Locked, Do, SetState
  <1>2. PICK a \in Seq(ExSteps) : a = <<x>> /\ 1 = Len(a) /\ a[1] = x
    BY OneStep
  <1>3. PICK b \in Seq(ExSteps) : b = a \o <<y>> /\ 2 = Len(b) /\ b[1] = x /\ b[2] = y
    <2>1. 1 \in 1 .. 1 /\ 2 = 1 + 1 /\ 1 \in Nat /\ 2 \in Nat
      OBVIOUS
    <2>2. /\ a \o <<y>> \in Seq(ExSteps) /\ Len(a \o <<y>>) = 2
          /\ \A i \in 1 .. 1 : (a \o <<y>>)[i] = a[i]
          /\ (a \o <<y>>)[2] = y
      BY <1>2, <2>1, OneMoreStep
    <2> QED BY <1>2, <2>1, <2>2
  <1>4. PICK p \in Seq(ExSteps) : p = b \o <<z>> /\ Len(p) = 3 /\ p[1] = x /\ p[2] = y /\ p[3] = z
    <2>1. 1 \in 1 .. 2 /\ 2 \in 1 .. 2 /\ 3 = 2 + 1 /\ 2 \in Nat /\ 3 \in Nat
      OBVIOUS
    <2>2. /\ b \o <<z>> \in Seq(ExSteps) /\ Len(b \o <<z>>) = 3
          /\ \A i \in 1 .. 2 : (b \o <<z>>)[i] = b[i]
          /\ (b \o <<z>>)[3] = z
      BY <1>3, <2>1, OneMoreStep
    <2> QED BY <1>3, <2>1, <2>2
  <1> QED BY <1>1, <1>2, <1>3, <1>4

LEMMA DoCreateLoads ==
    ASSUME ExInv, NEW t \in ExThreads, DoCreate(t),
           Len(exProcs) < ExMaxLoads, exProcs' = Append(exProcs, "Created"),
           ExThen(t, Locked("remember") \o Do("register") \o SetState("Ready"))
    PROVE  ExInv'
  <1>1. exTodo[t] # <<>> /\ exTodo[t][1].do = "create"
    BY ExDoesFirst DEF DoCreate
  <1>2. exTodo[t] \in Seq(ExSteps)
    BY DEF ExInv, ExShape
  <1>3. PICK p \in Seq(ExSteps) :
          /\ p = Locked("remember") \o Do("register") \o SetState("Ready")
          /\ Len(p) = 3 /\ p[1].do = "lock" /\ p[2].do = "register" /\ p[3].do = "set"
    BY LoadSteps
  <1>4. IsSplicedStep(t, p)
    BY <1>1, <1>3, SplicedStep
  <1>5. PICK m \in Nat : m = Len(exTodo[t]) /\ m > 0 /\ DOMAIN exTodo[t] = 1 .. m
    BY <1>1, <1>2, EmptySeq, LenProperties
  <1>6. /\ DOMAIN exTodo'[t] = 1 .. m + 2
        /\ exTodo'[t][1].do = "lock" /\ exTodo'[t][2].do = "register" /\ exTodo'[t][3].do = "set"
        /\ \A i \in 4 .. m + 2 : i - 2 \in 2 .. m /\ exTodo'[t][i] = exTodo[t][i - 2]
    <2>1. PICK new \in Seq(ExSteps) : new = exTodo'[t] /\ IsSpliced(new, p, exTodo[t])
      BY <1>4 DEF IsSplicedStep, IsSpliced
    <2>2. Len(new) = 3 + m - 1 /\ DOMAIN new = 1 .. Len(new)
      <3>1. Len(new) = Len(p) + Len(exTodo[t]) - 1 /\ DOMAIN new = 1 .. Len(new)
        BY <1>1, <1>2, <2>1, SplicedPointwise
      <3> QED BY <1>3, <1>5, <3>1
    <2>3. Len(new) = m + 2
      BY <2>2
    <2>4. new[1] = p[1] /\ new[2] = p[2] /\ new[3] = p[3]
      <3>1. \A i \in 1 .. Len(p) : new[i] = p[i]
        BY <1>1, <1>2, <2>1, SplicedPointwise
      <3>2. 1 \in 1 .. Len(p) /\ 2 \in 1 .. Len(p) /\ 3 \in 1 .. Len(p)
        BY SMTT(40), <1>3
      <3> QED BY <3>1, <3>2
    <2>5. \A i \in 4 .. m + 2 : i - 2 \in 2 .. m /\ i \in 1 .. Len(new) /\ i > Len(p) /\ i - Len(p) + 1 = i - 2
      <3>1. \A i \in 4 .. m + 2 : i - 2 \in 2 .. m /\ i \in 1 .. m + 2 /\ i > 3 /\ i - 3 + 1 = i - 2
        BY <1>5
      <3> QED BY <1>3, <2>3, <3>1
    <2>6. \A i \in 4 .. m + 2 : new[i] = exTodo[t][i - 2]
      <3>1. \A i \in 1 .. Len(new) : i > Len(p) => new[i] = exTodo[t][i - Len(p) + 1]
        BY <1>1, <1>2, <2>1, SplicedPointwise
      <3> QED BY <2>5, <3>1
    <2> QED BY <1>3, <2>1, <2>2, <2>3, <2>4, <2>5, <2>6
  <1>7. \A i \in 2 .. m : exTodo[t][i].do \notin {"create", "register"}
    <2>1. LoadsOnce(exTodo[t])
      BY DEF ExInv, CallbacksCounted
    <2>2. \A i \in 2 .. m : i \in 1 .. m /\ i # 1 /\ 1 \in 1 .. m
      BY <1>5
    <2> QED BY <1>1, <1>5, <2>1, <2>2 DEF LoadsOnce
  <1>8. \A i \in 1 .. m + 2 : exTodo'[t][i].do \in {"create", "register"} <=> i = 2
    <2> SUFFICES ASSUME NEW i \in 1 .. m + 2
                 PROVE  exTodo'[t][i].do \in {"create", "register"} <=> i = 2
      OBVIOUS
    <2>1. CASE i \in {1, 2, 3}
      BY <1>6, <2>1
    <2>2. CASE i \in 4 .. m + 2
      BY <1>6, <1>7, <2>2
    <2> QED BY <2>1, <2>2
  <1>9. LoadsOnce(exTodo'[t]) /\ Registers(exTodo'[t]) /\ ~Registers(exTodo[t])
    <2>1. LoadsOnce(exTodo'[t])
      BY <1>6, <1>8 DEF LoadsOnce
    <2>2. Registers(exTodo'[t])
      BY <1>5, <1>6 DEF Registers
    <2>3. ~Registers(exTodo[t])
      BY <1>1, <1>5, <1>7 DEF Registers
    <2> QED BY <2>1, <2>2, <2>3
  <1>10. exMtx.by # t
    BY <1>1, HolderUpdates
  <1>11. ScopesClosed'
    <2>1. Unlocked(exTodo[t])
      BY <1>10, DepthScoped DEF DepthOf, Scoped
    <2>2. \A i \in 1 .. m + 2 : exTodo'[t][i].do # "unlock"
      <3> SUFFICES ASSUME NEW i \in 1 .. m + 2
                   PROVE  exTodo'[t][i].do # "unlock"
        OBVIOUS
      <3>1. CASE i \in {1, 2, 3}
        BY <1>6, <3>1
      <3>2. CASE i \in 4 .. m + 2
        <4>1. i - 2 \in 1 .. m /\ exTodo'[t][i] = exTodo[t][i - 2]
          BY <1>5, <1>6, <3>2
        <4> QED BY <1>5, <2>1, <4>1 DEF Unlocked
      <3> QED BY <3>1, <3>2
    <2>3. Unlocked(exTodo'[t])
      BY <1>6, <2>2 DEF Unlocked
    <2> QED BY <1>4, <1>10, <2>3, OutsideStep DEF DoCreate, IsSplicedStep
  <1>12. ExRegistering' = ExRegistering \cup {t} /\ t \notin ExRegistering
    BY <1>4, <1>9 DEF ExRegistering, IsSplicedStep
  <1>13. IsFiniteSet(ExRegistering)
    BY FS_Union, FS_Singleton, FS_Subset DEF ExRegistering, ExThreads
  <1>14. Cardinality(ExRegistering') = Cardinality(ExRegistering) + 1 /\ Cardinality(ExRegistering) \in Nat
    BY <1>12, <1>13, FS_AddElement, FS_CardinalityType
  <1>15. /\ exProcs' \in Seq({"Created", "Running", "Exiting", "Terminated"})
         /\ Len(exProcs') = Len(exProcs) + 1 /\ Len(exProcs) \in Nat
    BY DEF ExInv, ExShape
  <1>16. CallbacksCounted'
    <2>1. \A u \in ExThreads : LoadsOnce(exTodo'[u])
      BY <1>4, <1>9 DEF ExInv, CallbacksCounted, IsSplicedStep
    <2>2. exCallbacks' = exCallbacks /\ exCallbacks \in Nat /\ exCallbacks + Cardinality(ExRegistering) <= Len(exProcs)
      BY DEF DoCreate, ExInv, CallbacksCounted
    <2> QED BY <1>14, <1>15, <2>1, <2>2 DEF CallbacksCounted
  <1>17. Len(exProcs') <= ExMaxLoads
    BY <1>15
  <1> QED BY <1>4, <1>11, <1>15, <1>16, <1>17 DEF DoCreate, ExInv, ExShape, IsSplicedStep
-----------------------------------------------------------------------------
\* What a call may set out to do.
IsCall(p) == p \in Seq(ExSteps) /\ Unlocked(p) /\ LoadsOnce(p) /\ ~Registers(p)

IsQuietCall(p) == p \in Seq(ExSteps) /\ Quiet(p) /\ Unlocked(p)

LEMMA QuietCalls ==
    /\ \A p : IsQuietCall(p) => IsCall(p)
    /\ \A p, q : IsQuietCall(p) /\ IsQuietCall(q) => IsQuietCall(p \o q)
    /\ IsQuietCall(<<>>)
    /\ \A x \in {"wait", "start", "exit", "fire", "fault", "panic"} : IsQuietCall(Do(x))
    /\ \A k \in Nat : IsQuietCall(DoWith("kill", k))
    /\ \A x \in ExecStates : IsQuietCall(SetState(x))
    /\ \A x \in ExecStates \cup {"none", "remember", "forget"} : IsQuietCall(Locked(x))
  <1>1. \A p : IsQuietCall(p) => IsCall(p)
    BY DEF IsQuietCall, IsCall, Quiet, LoadsOnce, Registers
  <1>2. \A p, q : IsQuietCall(p) /\ IsQuietCall(q) => IsQuietCall(p \o q)
    BY QuietTogether DEF IsQuietCall
  <1>3. IsQuietCall(<<>>)
    BY QuietSteps DEF IsQuietCall
  <1>4. ASSUME NEW x \in {"wait", "start", "exit", "fire", "fault", "panic"}
        PROVE  IsQuietCall(Do(x))
    <2>1. x \in ExOps \ {"set", "lock"} /\ x \notin {"create", "register", "unlock"}
      BY DEF ExOps
    <2> QED BY <2>1, QuietSteps, SingleSteps DEF IsQuietCall
  <1>5. ASSUME NEW k \in Nat
        PROVE  IsQuietCall(DoWith("kill", k))
    <2>1. "kill" \in ExOps \ {"set", "lock"} /\ "kill" \notin {"create", "register", "unlock"}
      BY DEF ExOps
    <2> QED BY <2>1, QuietSteps, SingleSteps DEF IsQuietCall
  <1>6. \A x \in ExecStates : IsQuietCall(SetState(x))
    BY QuietSteps, SingleSteps DEF IsQuietCall
  <1>7. \A x \in ExecStates \cup {"none", "remember", "forget"} : IsQuietCall(Locked(x))
    BY QuietSteps, SingleSteps DEF IsQuietCall
  <1> QED BY <1>1, <1>2, <1>3, <1>4, <1>5, <1>6, <1>7

LEMMA ForceTerminateQuiet == ExInv => IsQuietCall(ForceTerminate)
  <1> SUFFICES ASSUME ExInv
               PROVE  IsQuietCall(ForceTerminate)
    OBVIOUS
  <1>1. CASE exPid = 0
    BY <1>1, QuietCalls DEF ForceTerminate, ExecStates
  <1>2. CASE exPid # 0
    <2>1. exPid \in Nat
      BY DEF ExInv, ExShape
    <2>2. /\ IsQuietCall(DoWith("kill", exPid)) /\ IsQuietCall(Do("fire"))
          /\ IsQuietCall(Locked("forget")) /\ IsQuietCall(SetState("Terminated"))
      BY <2>1, QuietCalls DEF ExecStates
    <2>3. IsQuietCall(DoWith("kill", exPid) \o Do("fire") \o Locked("forget") \o SetState("Terminated"))
      BY <2>2, QuietCalls, Zenon
    <2> QED BY <1>2, <2>3 DEF ForceTerminate
  <1> QED BY <1>1, <1>2

\* LoadProgram: a new state and one load.
LEMMA LoadIsCall == IsCall(SetState("Loading") \o Do("create"))
  <1>1. PICK x \in ExSteps, y \in ExSteps :
          /\ SetState("Loading") = <<x>> /\ x.do = "set"
          /\ Do("create") = <<y>> /\ y.do = "create"
    <2>1. /\ [do |-> "set", arg |-> "Loading", n |-> 0] \in ExSteps
          /\ [do |-> "create", arg |-> "none", n |-> 0] \in ExSteps
      BY DEF ExSteps, ExOps, ExecStates
    <2> QED BY <2>1 DEF SetState, Do
  <1>2. PICK a \in Seq(ExSteps) : a = <<x>> /\ 1 = Len(a) /\ a[1] = x
    BY OneStep
  <1>3. PICK b \in Seq(ExSteps) : b = a \o <<y>> /\ Len(b) = 2 /\ b[1] = x /\ b[2] = y
    <2>1. 1 \in 1 .. 1 /\ 2 = 1 + 1 /\ 1 \in Nat /\ 2 \in Nat
      OBVIOUS
    <2>2. /\ a \o <<y>> \in Seq(ExSteps) /\ Len(a \o <<y>>) = 2
          /\ \A i \in 1 .. 1 : (a \o <<y>>)[i] = a[i]
          /\ (a \o <<y>>)[2] = y
      BY <1>2, <2>1, OneMoreStep
    <2> QED BY <1>2, <2>1, <2>2
  <1>4. DOMAIN b = 1 .. 2
    BY <1>3, LenProperties
  <1>5. \A i \in DOMAIN b : /\ b[i].do \in {"create", "register"} => i = 2
                            /\ b[i].do \notin {"unlock", "register"}
    BY <1>1, <1>3, <1>4
  <1>6. IsCall(b)
    BY <1>5 DEF IsCall, Unlocked, LoadsOnce, Registers
  <1> QED BY <1>1, <1>2, <1>3, <1>6

LEMMA HostCallsAreCalls == ExInv => \A p \in HostCalls : IsCall(p)
  <1> SUFFICES ASSUME ExInv
               PROVE  \A p \in HostCalls : IsCall(p)
    OBVIOUS
  <1>1. IsQuietCall(ForceTerminate)
    BY ForceTerminateQuiet
  <1>2. IsCall(SetState("Loading") \o Do("create"))
    BY LoadIsCall
  <1>3. IsCall(ForceTerminate) /\ IsCall(Do("wait")) /\ IsCall(Start)
    <2>1. IsQuietCall(Do("wait")) /\ IsQuietCall(Do("start"))
      BY QuietCalls
    <2> QED BY <1>1, <2>1, QuietCalls DEF Start
  <1>4. IsCall((IF exState = "Running" THEN ForceTerminate ELSE <<>>) \o Locked("Idle"))
    <2>1. IsQuietCall(Locked("Idle")) /\ IsQuietCall(<<>>)
      BY QuietCalls DEF ExecStates
    <2>2. IsQuietCall(ForceTerminate \o Locked("Idle")) /\ IsQuietCall(<<>> \o Locked("Idle"))
      BY <1>1, <2>1, QuietCalls
    <2> QED BY <2>2, QuietCalls
  <1>5. IsCall(SetState("Exiting") \o Do("exit"))
    <2>1. IsQuietCall(SetState("Exiting")) /\ IsQuietCall(Do("exit"))
      BY QuietCalls DEF ExecStates
    <2>2. IsQuietCall(SetState("Exiting") \o Do("exit"))
      BY <2>1, QuietCalls
    <2> QED BY <2>2, QuietCalls
  <1>6. \A p \in PauseResume : IsCall(p)
    <2>1. IsQuietCall(SetState("Paused")) /\ IsQuietCall(SetState("Running"))
      BY QuietCalls DEF ExecStates
    <2>2. IsCall(SetState("Paused")) /\ IsCall(SetState("Running"))
      BY <2>1, QuietCalls
    <2> QED BY <2>2 DEF PauseResume
  <1> QED BY <1>2, <1>3, <1>4, <1>5, <1>6, Zenon DEF HostCalls

LEMMA GuestCallsAreCalls == \A p \in GuestCalls : IsCall(p)
  <1>1. /\ IsQuietCall(Do("fault")) /\ IsQuietCall(Locked("Faulted"))
        /\ IsQuietCall(Do("panic")) /\ IsQuietCall(SetState("Faulted"))
    BY QuietCalls DEF ExecStates
  <1>2. /\ IsQuietCall(Do("fault") \o Locked("Faulted"))
        /\ IsQuietCall(Do("panic") \o SetState("Faulted"))
    BY <1>1, QuietCalls
  <1>3. /\ IsCall(Do("fault") \o Locked("Faulted"))
        /\ IsCall(Do("panic") \o SetState("Faulted"))
        /\ IsCall(SetState("Faulted"))
    BY <1>1, <1>2, QuietCalls
  <1> QED BY <1>3 DEF GuestCalls

LEMMA ExCallKeeps ==
    ASSUME ExInv, NEW t \in ExThreads, ExCall(t)
    PROVE  ExInv'
  <1>1. PICK p : IsCall(p) /\ exTodo' = [exTodo EXCEPT ![t] = p]
    BY HostCallsAreCalls, GuestCallsAreCalls DEF ExCall
  <1>2. /\ exTodo' \in [ExThreads -> Seq(ExSteps)] /\ exTodo'[t] = p
        /\ \A u \in ExThreads \ {t} : exTodo'[u] = exTodo[u]
    BY <1>1 DEF IsCall, ExInv, ExShape
  <1>3. exMtx.by # t
    BY HolderUpdates DEF ExCall
  <1>4. ScopesClosed'
    BY <1>1, <1>2, <1>3, OutsideStep DEF ExCall, IsCall
  <1>5. ~Registers(exTodo[t])
    BY DEF ExCall, Registers
  <1>6. ExRegistering' = ExRegistering
    BY <1>1, <1>2, <1>5 DEF ExRegistering, IsCall
  <1>7. CallbacksCounted'
    BY <1>1, <1>2, <1>6 DEF ExCall, ExInv, CallbacksCounted, IsCall
  <1> QED BY <1>2, <1>4, <1>7 DEF ExCall, ExInv, ExShape

LEMMA ExInvInit == ExInit => ExInv
  <1> SUFFICES ASSUME ExInit
               PROVE  ExInv
    OBVIOUS
  <1>1. ExShape
    BY DEF ExInit, ExShape, ExecStates
  <1>2. ScopesClosed
    BY DEF ExInit, ScopesClosed, Scoped, Unlocked
  <1>3. ExRegistering = {}
    BY DEF ExInit, ExRegistering, Registers
  <1>4. Cardinality(ExRegistering) = 0
    BY <1>3, FS_EmptySet
  <1>5. CallbacksCounted
    BY <1>4 DEF ExInit, CallbacksCounted, LoadsOnce
  <1> QED BY <1>1, <1>2, <1>5 DEF ExInv

LEMMA ExInvInductive == ExInv /\ [ExNext]_exVars => ExInv'
  <1> SUFFICES ASSUME ExInv, [ExNext]_exVars
               PROVE  ExInv'
    OBVIOUS
  <1>1. ASSUME NEW t \in ExThreads, DoCreate(t)
        PROVE  ExInv'
    BY <1>1, DoCreateFails, DoCreateLoads DEF DoCreate
  <1>2. CASE UNCHANGED exVars
    <2>1. ExRegistering' = ExRegistering
      BY <1>2 DEF exVars, ExRegistering
    <2> QED BY <1>2, <2>1 DEF exVars, ExInv, ExShape, ScopesClosed, CallbacksCounted
  <1> QED
    BY <1>1, <1>2, ExCallKeeps, DoSetKeeps, DoLockKeeps, DoUnlockKeeps, DoPidKeeps, DoRegisterKeeps, DoStartKeeps,
       DoEndKeeps, DoFireKeeps, DoFiredKeeps, DoWaitKeeps, DoReportKeeps DEF ExNext

LEMMA ExInvTyped == ExInv => ExTypeOK
  <1> SUFFICES ASSUME ExInv
               PROVE  ExTypeOK
    OBVIOUS
  <1>1. IsFiniteSet(ExRegistering)
    BY FS_Union, FS_Singleton, FS_Subset DEF ExRegistering, ExThreads
  <1>2. exCallbacks \in 0 .. ExMaxLoads
    BY <1>1, FS_CardinalityType DEF ExInv, ExShape, CallbacksCounted
  <1>3. exTodo \in [ExThreads -> Seq([do : ExOps, arg : ExecStates \cup ExOps \cup {"none"}, n : Nat])]
    <2>1. ExSteps \subseteq [do : ExOps, arg : ExecStates \cup ExOps \cup {"none"}, n : Nat]
      BY DEF ExSteps
    <2>2. \A s \in Seq(ExSteps) : s \in Seq([do : ExOps, arg : ExecStates \cup ExOps \cup {"none"}, n : Nat])
      BY <2>1, SeqMonotonic
    <2> QED BY <2>2 DEF ExInv, ExShape
  <1>4. exMtx.by \in ExThreads \cup {ExNobody} /\ exMtx.depth \in Nat
    BY DEF ExInv, ExShape
  <1>5. ExShape
    BY DEF ExInv
  <1> QED BY <1>2, <1>3, <1>4, <1>5 DEF ExShape, ExTypeOK

\* Whoever holds ctx.mtx has only the end of a scope before it: the framework
\* never calls the process manager with it held, so the two mutexes are taken
\* in one order and no two threads wait for each other's.
THEOREM FrameworkLocksInOrder == ExSpec => []ExecNoLockCycle
  <1>1. ExInv => ExecNoLockCycle
    <2> SUFFICES ASSUME ExInv, NEW t \in ExThreads, exMtx.by = t
                 PROVE  ~ExWantsProc(t)
      BY DEF ExecNoLockCycle
    <2>1. exTodo[t][1].do \in {"set", "remember", "forget", "lock", "unlock"}
      BY HolderUpdates
    <2> QED BY <2>1, ExDoesFirst DEF ExWantsProc
  <1> QED BY <1>1, ExInvInit, ExInvInductive, PTL DEF ExSpec

HIDE ExecutionAssumption DEF ExecutionAssumption
-----------------------------------------------------------------------------
(* Audio.  Between two callbacks every ring is empty, wherever its         *)
(* positions stand: a fill either fits and is read at once, or is refused. *)
(* A handle is never given out twice, so what was heard of a port that is  *)
(* still open was heard of this one.                                       *)

USE AudioAssumption DEF AudioAssumption

AuPorts == [running : BOOLEAN, source : {"fill", "none"}, ring : Rings]

AuShape ==
    /\ auInitialised \in BOOLEAN
    /\ auDevice \in {"none", "playing", "closing"}
    /\ DOMAIN auPorts \subseteq AuHandles
    /\ auPorts \in [DOMAIN auPorts -> AuPorts]
    /\ auNextHandle \in 1 .. AuMaxPorts + 1
    /\ auOwner \in AuHosts \cup {AuFree}
    /\ auThread \in {"idle", "called"}
    /\ auStamp \in 1 .. AuStamps
    /\ DOMAIN auHeard \subseteq AuHandles /\ \A h \in DOMAIN auHeard : auHeard[h] \in Samples(AuNeeded)

\* The rings of a given size.
RingOf(c) == [data : Samples(c), readPos : 0 .. c - 1, writePos : 0 .. c - 1, used : 0 .. c]

\* A device buffer that holds one stamp.
Buffer(s) == [i \in 1 .. AuNeeded |-> s]

LEMMA BufferFits ==
    ASSUME NEW s \in 0 .. AuStamps
    PROVE  Buffer(s) \in Samples(AuNeeded) /\ Len(Buffer(s)) = AuNeeded
  <1>1. Buffer(s) \in [1 .. AuNeeded -> 0 .. AuStamps]
    BY DEF Buffer
  <1> QED BY <1>1 DEF Samples

Drained(r) == r.used = 0 /\ r.readPos = r.writePos

AllDrained == \A h \in DOMAIN auPorts : Drained(auPorts[h].ring)

HandlesFresh ==
    /\ \A h \in DOMAIN auPorts : h < auNextHandle
    /\ \A h \in DOMAIN auHeard : h < auNextHandle

AuInv == AuShape /\ AllDrained /\ HandlesFresh /\ HeardAsFilled

\* Positions go round a ring once.
LEMMA Around ==
    ASSUME NEW c \in Nat \ {0}, NEW w \in 0 .. c - 1, NEW n \in 1 .. c
    PROVE  /\ (w + n) % c \in 0 .. c - 1
           /\ (w + n - 1) % c \in 0 .. c - 1
           /\ ((((w + n - 1) % c) + c - w) % c) = n - 1
  <1>1. (w + n) % c \in 0 .. c - 1 /\ (w + n - 1) % c \in 0 .. c - 1
    OBVIOUS
  <1>2. CASE w + n - 1 < c
    <2>1. (w + n - 1) % c = w + n - 1
      BY <1>2
    <2>2. PICK a \in Nat : a = n - 1 + c
      OBVIOUS
    <2>3. a % c = n - 1
      BY <2>2
    <2>4. w + n - 1 + c - w = a
      BY <2>2
    <2> QED BY <1>1, <2>1, <2>3, <2>4
  <1>3. CASE w + n - 1 >= c
    <2>1. (w + n - 1) % c = w + n - 1 - c
      BY <1>3
    <2>2. (n - 1) % c = n - 1
      OBVIOUS
    <2>3. w + n - 1 - c + c - w = n - 1
      OBVIOUS
    <2> QED BY <1>1, <2>1, <2>2, <2>3
  <1> QED BY <1>2, <1>3

LEMMA IsRing ==
    ASSUME NEW c \in Nat \ {0}, NEW d \in Samples(c), NEW p \in 0 .. c - 1, NEW q \in 0 .. c - 1, NEW u \in 0 .. c
    PROVE  [data |-> d, readPos |-> p, writePos |-> q, used |-> u] \in RingOf(c)
  BY DEF RingOf

LEMMA RingUpdated ==
    ASSUME NEW c \in Nat \ {0}, NEW r \in RingOf(c), NEW p \in 0 .. c - 1
    PROVE  [r EXCEPT !.readPos = p, !.used = 0] = [data |-> r.data, readPos |-> p, writePos |-> r.writePos, used |-> 0]
  <1>1. PICK q : q = [r EXCEPT !.readPos = p]
    OBVIOUS
  <1>2. q = [data |-> r.data, readPos |-> p, writePos |-> r.writePos, used |-> r.used]
    BY <1>1 DEF RingOf
  <1>3. q \in RingOf(c)
    BY <1>2 DEF RingOf
  <1>4. [q EXCEPT !.used = 0] = [data |-> r.data, readPos |-> p, writePos |-> r.writePos, used |-> 0]
    BY <1>2, <1>3 DEF RingOf
  <1> QED BY <1>1, <1>4

\* A fill that fits is read as it was written, and the ring is empty again.
LEMMA FillIsHeard ==
    ASSUME NEW c \in Nat \ {0}, NEW r \in RingOf(c), Drained(r), AuNeeded <= c,
           NEW stamp \in 1 .. AuStamps,
           NEW f, f = RingWrite(r, Buffer(stamp))
    PROVE  /\ RingRead(f, AuNeeded) = Buffer(stamp)
           /\ RingAfter(f, AuNeeded) \in RingOf(c) /\ Drained(RingAfter(f, AuNeeded))
  <1>1. PICK w \in 0 .. c - 1 : r.writePos = w /\ r.readPos = w /\ r.used = 0
    BY DEF RingOf, Drained
  <1>2. r.data \in [1 .. c -> 0 .. AuStamps] /\ Len(r.data) = c
    BY DEF RingOf, Samples
  <1>3. PICK src \in Seq(1 .. AuStamps) : src = Buffer(stamp) /\ Len(src) = AuNeeded /\ src \in [1 .. AuNeeded -> 1 .. AuStamps]
    BY DEF Buffer
  <1>4. f = RingWrite(r, src)
    BY <1>3
  <1> DEFINE at(i) == ((i - 1 + c - w) % c) + 1
               data == [i \in 1 .. c |-> IF at(i) <= AuNeeded THEN src[at(i)] ELSE r.data[i]]
               pos == (w + AuNeeded) % c
  <1>5. f = [r EXCEPT !.data = data, !.writePos = pos, !.used = AuNeeded]
    <2>1. ~(Len(src) > Len(r.data) - r.used)
      BY <1>1, <1>2, <1>3
    <2>2. f = [r EXCEPT !.data = data, !.writePos = (@ + Len(src)) % Len(r.data), !.used = @ + Len(src)]
      <3> DEFINE lands(i) == ((i - 1 + Len(r.data) - r.writePos) % Len(r.data)) + 1
      <3>3. PICK new : new = [i \in 1 .. Len(r.data) |-> IF lands(i) <= Len(src) THEN src[lands(i)] ELSE r.data[i]]
        OBVIOUS
      <3>1. new = data
        BY <1>1, <1>2, <1>3, <3>3
      <3>2. f = [r EXCEPT !.data = new, !.writePos = (@ + Len(src)) % Len(r.data), !.used = @ + Len(src)]
        BY <1>4, <2>1, <3>3 DEF RingWrite
      <3> HIDE DEF data
      <3> QED BY <3>1, <3>2
    <2>3. (r.writePos + Len(src)) % Len(r.data) = pos /\ r.used + Len(src) = AuNeeded
      BY <1>1, <1>2, <1>3
    <2> HIDE DEF data, pos
    <2> QED BY <2>2, <2>3
  <1>6. \A i \in 1 .. c : at(i) \in 1 .. c
    OBVIOUS
  <1>7. data \in [1 .. c -> 0 .. AuStamps]
    BY <1>2, <1>3, <1>6
  <1>8. pos \in 0 .. c - 1
    BY <1>1
  <1>9. \A i \in 1 .. AuNeeded : data[((w + i - 1) % c) + 1] = stamp
    <2> SUFFICES ASSUME NEW i \in 1 .. AuNeeded
                 PROVE  data[((w + i - 1) % c) + 1] = stamp
      OBVIOUS
    <2>1. i \in 1 .. c
      OBVIOUS
    <2>2. PICK m \in 0 .. c - 1 : m = (w + i - 1) % c /\ (m + c - w) % c = i - 1
      BY <2>1, Around
    <2>3. m + 1 \in 1 .. c /\ m + 1 - 1 + c - w = m + c - w
      OBVIOUS
    <2>4. at(m + 1) = i
      BY <2>2, <2>3
    <2>5. data[m + 1] = src[at(m + 1)]
      BY <2>3, <2>4
    <2>6. src[i] = stamp
      BY <1>3 DEF Buffer
    <2> QED BY <2>2, <2>4, <2>5, <2>6
  <1> HIDE DEF data, pos, at
  <1>10. f = [data |-> data, readPos |-> w, writePos |-> pos, used |-> AuNeeded]
    BY <1>1, <1>5 DEF RingOf
  <1>11. Len(data) = c
    BY <1>7
  <1>12. RingTaken(f, AuNeeded) = AuNeeded
    BY <1>10 DEF RingTaken
  <1>13. RingRead(f, AuNeeded) = Buffer(stamp)
    <2>1. f.data = data /\ f.readPos = w /\ Len(f.data) = c
      BY <1>10, <1>11
    <2>2. \A i \in 1 .. AuNeeded :
            (IF i <= RingTaken(f, AuNeeded) THEN f.data[((f.readPos + i - 1) % Len(f.data)) + 1] ELSE 0) = stamp
      BY <1>9, <1>12, <2>1
    <2> QED BY <2>2 DEF RingRead, Buffer
  <1>14. RingAfter(f, AuNeeded) = [data |-> data, readPos |-> pos, writePos |-> pos, used |-> 0]
    <2>1. f.data = data /\ f.readPos = w /\ f.writePos = pos /\ f.used = AuNeeded /\ Len(f.data) = c
      BY <1>10, <1>11
    <2>2. (f.readPos + RingTaken(f, AuNeeded)) % Len(f.data) = pos
      BY <1>12, <2>1 DEF pos
    <2>3. f.used - RingTaken(f, AuNeeded) = 0
      BY <1>12, <2>1
    <2>4. RingAfter(f, AuNeeded) = [f EXCEPT !.readPos = pos, !.used = 0]
      BY <2>2, <2>3 DEF RingAfter
    <2>5. f \in RingOf(c)
      <3>1. AuNeeded \in 0 .. c
        OBVIOUS
      <3>2. data \in Samples(c)
        BY <1>7 DEF Samples
      <3> QED BY <1>8, <1>10, <3>1, <3>2, IsRing
    <2>6. RingAfter(f, AuNeeded) = [data |-> f.data, readPos |-> pos, writePos |-> f.writePos, used |-> 0]
      BY <1>8, <2>4, <2>5, RingUpdated
    <2> QED BY <2>1, <2>6
  <1>15. RingAfter(f, AuNeeded) \in RingOf(c) /\ Drained(RingAfter(f, AuNeeded))
    <2>1. 0 \in 0 .. c
      OBVIOUS
    <2>2. RingAfter(f, AuNeeded) \in RingOf(c)
      <3>1. data \in Samples(c)
        BY <1>7 DEF Samples
      <3> QED BY <1>8, <1>14, <2>1, <3>1, IsRing
    <2>3. Drained(RingAfter(f, AuNeeded))
      BY <1>14 DEF Drained
    <2> QED BY <2>2, <2>3
  <1> QED BY <1>13, <1>15

\* An empty ring that nothing was written to is silent, and stays as it is.
LEMMA EmptyIsSilent ==
    ASSUME NEW c \in Nat \ {0}, NEW r \in RingOf(c), Drained(r)
    PROVE  /\ RingRead(r, AuNeeded) = Buffer(0)
           /\ RingAfter(r, AuNeeded) = r
  <1>1. PICK w \in 0 .. c - 1 : r.writePos = w /\ r.readPos = w /\ r.used = 0
    BY DEF RingOf, Drained
  <1>2. r.data \in [1 .. c -> 0 .. AuStamps] /\ Len(r.data) = c
    BY DEF RingOf, Samples
  <1>3. RingTaken(r, AuNeeded) = 0
    BY <1>1 DEF RingTaken
  <1>4. RingRead(r, AuNeeded) = Buffer(0)
    BY <1>3 DEF RingRead, Buffer
  <1>5. (w + 0) % c = w
    OBVIOUS
  <1>6. r = [data |-> r.data, readPos |-> w, writePos |-> w, used |-> 0]
    BY <1>1 DEF RingOf
  <1>7. RingAfter(r, AuNeeded) = r
    <2>1. (r.readPos + RingTaken(r, AuNeeded)) % Len(r.data) = w
      BY <1>1, <1>2, <1>3, <1>5
    <2>2. r.used - RingTaken(r, AuNeeded) = 0
      BY <1>1, <1>3
    <2>3. RingAfter(r, AuNeeded) = [r EXCEPT !.readPos = w, !.used = 0]
      BY <2>1, <2>2 DEF RingAfter
    <2>4. RingAfter(r, AuNeeded) = [data |-> r.data, readPos |-> w, writePos |-> r.writePos, used |-> 0]
      BY <2>3, RingUpdated
    <2> QED BY <1>1, <1>6, <2>4
  <1> QED BY <1>4, <1>7
\* What a running port's fill leaves in its ring.
Filled(p) == IF p.source = "fill" THEN RingWrite(p.ring, Buffer(auStamp)) ELSE p.ring

\* What a port is heard as, and what its ring is after that.
HeardRight(p, heard) ==
    /\ p.source = "fill" /\ Len(p.ring.data) >= AuNeeded => heard = Buffer(auStamp)
    /\ p.source = "none" \/ Len(p.ring.data) < AuNeeded => heard = Buffer(0)

LEMMA RingSized ==
    ASSUME NEW r \in Rings
    PROVE  \E c \in AuCapacity : c \in Nat \ {0} /\ r \in RingOf(c) /\ Len(r.data) = c
  <1>1. PICK c \in AuCapacity : r \in RingOf(c)
    BY DEF Rings, RingOf
  <1>2. r.data \in [1 .. c -> 0 .. AuStamps] /\ c \in Nat \ {0}
    BY <1>1 DEF RingOf, Samples
  <1> QED BY <1>1, <1>2

\* One port in one callback: the three cases of a fill that fits, a fill refused, no source.
LEMMA PortMixed ==
    ASSUME AuShape, NEW p \in AuPorts, Drained(p.ring)
    PROVE  /\ RingRead(Filled(p), AuNeeded) \in Samples(AuNeeded)
           /\ HeardRight(p, RingRead(Filled(p), AuNeeded))
           /\ RingAfter(Filled(p), AuNeeded) \in Rings
           /\ Drained(RingAfter(Filled(p), AuNeeded))
           /\ Len(RingAfter(Filled(p), AuNeeded).data) = Len(p.ring.data)
  <1>1. PICK c \in AuCapacity : c \in Nat \ {0} /\ p.ring \in RingOf(c) /\ Len(p.ring.data) = c
    BY RingSized DEF AuPorts
  <1>2. auStamp \in 1 .. AuStamps
    BY DEF AuShape
  <1>3. \A s \in 0 .. AuStamps : Buffer(s) \in Samples(AuNeeded) /\ Len(Buffer(s)) = AuNeeded
    BY BufferFits
  <1>4. \A r \in RingOf(c) : r \in Rings /\ Len(r.data) = c
    <2> SUFFICES ASSUME NEW r \in RingOf(c) PROVE r \in Rings /\ Len(r.data) = c
      OBVIOUS
    <2>1. r.data \in [1 .. c -> 0 .. AuStamps]
      BY DEF RingOf, Samples
    <2>2. Len(r.data) = c
      BY <1>1, <2>1
    <2>3. r \in Rings
      BY <1>1 DEF RingOf, Rings
    <2> QED BY <2>2, <2>3
  <1>5. CASE p.source = "fill" /\ AuNeeded <= c
    <2>1. PICK f : f = RingWrite(p.ring, Buffer(auStamp))
      OBVIOUS
    <2>2. Filled(p) = f
      BY <1>5, <2>1 DEF Filled
    <2>3. /\ RingRead(f, AuNeeded) = Buffer(auStamp)
          /\ RingAfter(f, AuNeeded) \in RingOf(c) /\ Drained(RingAfter(f, AuNeeded))
      BY <1>1, <1>2, <1>5, <2>1, FillIsHeard
    <2>4. HeardRight(p, RingRead(f, AuNeeded))
      BY <1>1, <1>5, <2>3 DEF HeardRight
    <2>5. RingRead(f, AuNeeded) \in Samples(AuNeeded)
      BY <1>2, <1>3, <2>3
    <2> QED BY <1>1, <1>4, <2>2, <2>3, <2>4, <2>5
  <1>6. CASE p.source = "none" \/ c < AuNeeded
    <2>1. Filled(p) = p.ring
      <3>1. CASE p.source = "none"
        BY <3>1 DEF Filled
      <3>2. CASE c < AuNeeded
        <4>1. PICK src : src = Buffer(auStamp) /\ Len(src) = AuNeeded
          BY <1>2, <1>3
        <4>2. p.ring.used = 0
          BY DEF Drained
        <4>3. RingWrite(p.ring, src) = p.ring
          BY <1>1, <3>2, <4>1, <4>2 DEF RingWrite
        <4> QED BY <4>1, <4>3 DEF Filled
      <3> QED BY <1>6, <3>1, <3>2
    <2>2. RingRead(p.ring, AuNeeded) = Buffer(0) /\ RingAfter(p.ring, AuNeeded) = p.ring
      BY <1>1, EmptyIsSilent
    <2>3. HeardRight(p, RingRead(p.ring, AuNeeded))
      BY <1>1, <1>6, <2>2 DEF HeardRight
    <2>4. RingRead(p.ring, AuNeeded) \in Samples(AuNeeded)
      BY <1>3, <2>2
    <2> QED BY <1>1, <1>4, <2>1, <2>2, <2>3, <2>4
  <1>7. p.source \in {"fill", "none"}
    BY DEF AuPorts
  <1> QED BY <1>1, <1>5, <1>6, <1>7
\* One field of a port is assigned.
LEMMA RingAssigned ==
    ASSUME NEW p \in AuPorts, NEW r \in Rings
    PROVE  LET q == [p EXCEPT !.ring = r] IN q \in AuPorts /\ q.ring = r /\ q.source = p.source
  BY DEF AuPorts

LEMMA RunningAssigned ==
    ASSUME NEW p \in AuPorts, NEW on \in BOOLEAN
    PROVE  LET q == [p EXCEPT !.running = on] IN q \in AuPorts /\ q.ring = p.ring /\ q.source = p.source
  BY DEF AuPorts

LEMMA EmptyRingDrained ==
    ASSUME NEW c \in AuCapacity
    PROVE  EmptyRing(c) \in Rings /\ Drained(EmptyRing(c))
  <1>1. c \in Nat \ {0} /\ 0 \in 0 .. c - 1 /\ 0 \in 0 .. c
    OBVIOUS
  <1>2. PICK d : d = [i \in 1 .. c |-> 0] /\ d \in Samples(c)
    <2>1. [i \in 1 .. c |-> 0] \in [1 .. c -> 0 .. AuStamps]
      OBVIOUS
    <2> QED BY <2>1 DEF Samples
  <1>3. EmptyRing(c) = [data |-> d, readPos |-> 0, writePos |-> 0, used |-> 0]
    BY <1>2 DEF EmptyRing
  <1>4. EmptyRing(c) \in RingOf(c)
    BY <1>1, <1>2, <1>3, IsRing
  <1> QED BY <1>3, <1>4 DEF Drained, Rings, RingOf

LEMMA AuInvInit == AuInit => AuInv
  <1> SUFFICES ASSUME AuInit PROVE AuInv
    OBVIOUS
  <1>1. DOMAIN auPorts = {} /\ DOMAIN auHeard = {}
    BY DEF AuInit
  <1>2. auPorts \in [DOMAIN auPorts -> AuPorts]
    BY <1>1 DEF AuInit
  <1>3. 1 \in 1 .. AuMaxPorts + 1 /\ 1 \in 1 .. AuStamps
    OBVIOUS
  <1>4. DOMAIN auPorts \subseteq AuHandles /\ DOMAIN auHeard \subseteq AuHandles
        /\ \A h \in DOMAIN auHeard : auHeard[h] \in Samples(AuNeeded)
    BY <1>1
  <1>5. AuShape
    BY <1>2, <1>3, <1>4 DEF AuInit, AuShape
  <1> QED BY <1>1, <1>5 DEF AuInv, AllDrained, HandlesFresh, HeardAsFilled

\* The device and the mutex: the ports are kept or all dropped.
LEMMA DeviceKeepsAuInv ==
    ASSUME AuInv, OpenAudio \/ (\E t \in AuHosts : ShutdownAudio(t) \/ DeviceClosed(t))
    PROVE  AuInv'
  <1>1. CASE OpenAudio
    BY <1>1 DEF AuInv, OpenAudio, AuShape, AllDrained, HandlesFresh, HeardAsFilled
  <1>2. ASSUME NEW t \in AuHosts, ShutdownAudio(t) PROVE AuInv'
    BY <1>2 DEF AuInv, ShutdownAudio, AuShape, AllDrained, HandlesFresh, HeardAsFilled
  <1>3. ASSUME NEW t \in AuHosts, DeviceClosed(t) PROVE AuInv'
    <2>1. DOMAIN auPorts' = {} /\ auPorts' \in [DOMAIN auPorts' -> AuPorts]
      BY <1>3 DEF DeviceClosed
    <2>2. AuShape'
      BY <1>3, <2>1 DEF AuInv, AuShape, DeviceClosed
    <2> QED BY <1>3, <2>1, <2>2 DEF AuInv, DeviceClosed, AllDrained, HandlesFresh, HeardAsFilled
  <1> QED BY <1>1, <1>2, <1>3

LEMMA OpenPortKeepsAuInv ==
    ASSUME AuInv, NEW s \in {"fill", "none"}, NEW c \in AuCapacity, OpenPort(s, c)
    PROVE  AuInv'
  <1>1. DOMAIN auPorts' = DOMAIN auPorts \cup {auNextHandle}
    BY DEF OpenPort
  <1>2. PICK new : new = [running |-> FALSE, source |-> s, ring |-> EmptyRing(c)] /\ new \in AuPorts /\ Drained(new.ring)
    <2>1. EmptyRing(c) \in Rings /\ Drained(EmptyRing(c))
      BY EmptyRingDrained
    <2>2. [running |-> FALSE, source |-> s, ring |-> EmptyRing(c)] \in AuPorts
      BY <2>1 DEF AuPorts
    <2> QED BY <2>1, <2>2
  <1>3. auNextHandle \notin DOMAIN auPorts /\ auNextHandle \notin DOMAIN auHeard /\ auNextHandle \in AuHandles
    BY DEF AuInv, AuShape, HandlesFresh, OpenPort, AuHandles
  <1>4. \A h \in DOMAIN auPorts' : auPorts'[h] = IF h = auNextHandle THEN new ELSE auPorts[h]
    BY <1>2 DEF OpenPort
  <1>5. \A h \in DOMAIN auPorts' : auPorts'[h] \in AuPorts /\ Drained(auPorts'[h].ring)
    BY <1>1, <1>2, <1>4 DEF AuInv, AuShape, AllDrained
  <1>6. auPorts' \in [DOMAIN auPorts' -> AuPorts]
    <2>1. auPorts' = [h \in DOMAIN auPorts' |-> auPorts'[h]]
      BY <1>1 DEF OpenPort
    <2> QED BY <1>5, <2>1
  <1>7. auNextHandle' = auNextHandle + 1 /\ auNextHandle \in 1 .. AuMaxPorts + 1 /\ auNextHandle <= AuMaxPorts
    BY DEF AuInv, AuShape, OpenPort
  <1>8. auNextHandle' \in 1 .. AuMaxPorts + 1
    BY <1>7
  <1>9. AuShape'
    BY <1>1, <1>3, <1>6, <1>8 DEF AuInv, AuShape, OpenPort
  <1>10. HandlesFresh'
    <2>1. \A h \in AuHandles : h < auNextHandle => h < auNextHandle + 1
      BY <1>7 DEF AuHandles
    <2> QED BY <1>1, <1>3, <1>7, <2>1 DEF AuInv, AuShape, HandlesFresh, OpenPort
  <1>11. HeardAsFilled'
    <2>1. \A h \in DOMAIN auHeard' \cap DOMAIN auPorts' : h \in DOMAIN auPorts /\ h \in DOMAIN auHeard /\ auPorts'[h] = auPorts[h]
      BY <1>1, <1>3, <1>4 DEF OpenPort
    <2> QED BY ZenonT(40), <2>1 DEF AuInv, HeardAsFilled, OpenPort
  <1> QED BY <1>5, <1>9, <1>10, <1>11 DEF AuInv, AllDrained

LEMMA ClosePortKeepsAuInv ==
    ASSUME AuInv, NEW h \in DOMAIN auPorts, ClosePort(h)
    PROVE  AuInv'
  <1>1. /\ DOMAIN auPorts' = DOMAIN auPorts \ {h}
        /\ \A p \in DOMAIN auPorts' : auPorts'[p] = auPorts[p]
        /\ auPorts' \in [DOMAIN auPorts' -> AuPorts]
    BY DEF AuInv, AuShape, ClosePort
  <1>2. AuShape'
    BY <1>1 DEF AuInv, AuShape, ClosePort
  <1> QED BY <1>1, <1>2 DEF AuInv, ClosePort, AllDrained, HandlesFresh, HeardAsFilled

LEMMA SetRunningKeepsAuInv ==
    ASSUME AuInv, NEW h \in DOMAIN auPorts, NEW on \in BOOLEAN, SetRunning(h, on)
    PROVE  AuInv'
  <1>1. auPorts' = [auPorts EXCEPT ![h] = [auPorts[h] EXCEPT !.running = on]]
    BY DEF SetRunning
  <1>2. auPorts[h] \in AuPorts
    BY DEF AuInv, AuShape
  <1>3. PICK new \in AuPorts : /\ new = [auPorts[h] EXCEPT !.running = on]
                               /\ new.source = auPorts[h].source /\ new.ring = auPorts[h].ring
    BY <1>2, RunningAssigned
  <1>4. /\ DOMAIN auPorts' = DOMAIN auPorts
        /\ auPorts' \in [DOMAIN auPorts' -> AuPorts]
    BY <1>1, <1>3 DEF AuInv, AuShape
  <1>5. \A p \in DOMAIN auPorts' : auPorts'[p].ring = auPorts[p].ring /\ auPorts'[p].source = auPorts[p].source
    BY <1>1, <1>3, <1>4 DEF AuInv, AuShape
  <1>6. AuShape'
    BY <1>4 DEF AuInv, AuShape, SetRunning
  <1> QED BY <1>4, <1>5, <1>6 DEF AuInv, SetRunning, AllDrained, HandlesFresh, HeardAsFilled

LEMMA CallbackKeepsAuInv ==
    ASSUME AuInv, CallbackEnter \/ CallbackMix
    PROVE  AuInv'
  <1>1. CASE CallbackEnter
    <2>1. auStamp' \in 1 .. AuStamps
      BY <1>1 DEF AuInv, AuShape, CallbackEnter
    <2>2. AuShape'
      BY <1>1, <2>1 DEF AuInv, AuShape, CallbackEnter
    <2> QED BY <1>1, <2>2 DEF AuInv, CallbackEnter, AllDrained, HandlesFresh, HeardAsFilled
  <1>2. CASE CallbackMix
    <2>1. PICK on : on = {h \in DOMAIN auPorts : auPorts[h].running}
      OBVIOUS
    <2>2. /\ auHeard' = [h \in on |-> RingRead(Filled(auPorts[h]), AuNeeded)]
          /\ auPorts' = [h \in DOMAIN auPorts |-> IF h \notin on THEN auPorts[h]
                           ELSE [auPorts[h] EXCEPT !.ring = RingAfter(Filled(auPorts[h]), AuNeeded)]]
          /\ UNCHANGED <<auInitialised, auDevice, auNextHandle, auOwner, auStamp>> /\ auThread' = "idle"
      BY <1>2, <2>1 DEF CallbackMix, Filled, Buffer
    <2>3. \A h \in DOMAIN auPorts : auPorts[h] \in AuPorts /\ Drained(auPorts[h].ring)
      BY DEF AuInv, AuShape, AllDrained
    <2>4. DOMAIN auPorts' = DOMAIN auPorts /\ DOMAIN auHeard' = on /\ on \subseteq DOMAIN auPorts
      BY <2>1, <2>2
    <2>5. ASSUME NEW h \in DOMAIN auPorts
          PROVE  /\ auPorts'[h] \in AuPorts /\ Drained(auPorts'[h].ring)
                 /\ h \in on => /\ auHeard'[h] \in Samples(AuNeeded)
                                /\ HeardRight(auPorts[h], auHeard'[h])
                                /\ auPorts'[h].source = auPorts[h].source
                                /\ Len(auPorts'[h].ring.data) = Len(auPorts[h].ring.data)
      <3>1. CASE h \notin on
        BY <2>2, <2>3, <3>1
      <3>2. CASE h \in on
        <4>1. PICK p \in AuPorts : p = auPorts[h] /\ Drained(p.ring)
          BY <2>3
        <4>2. PICK r \in Rings : /\ r = RingAfter(Filled(p), AuNeeded)
                                 /\ Drained(r) /\ Len(r.data) = Len(p.ring.data)
          BY <4>1, PortMixed DEF AuInv
        <4>3. RingRead(Filled(p), AuNeeded) \in Samples(AuNeeded) /\ HeardRight(p, RingRead(Filled(p), AuNeeded))
          BY <4>1, PortMixed DEF AuInv
        <4>4. auPorts'[h] = [p EXCEPT !.ring = r] /\ auHeard'[h] = RingRead(Filled(p), AuNeeded)
          BY <2>2, <3>2, <4>1, <4>2
        <4>5. PICK q \in AuPorts : q = [p EXCEPT !.ring = r] /\ q.ring = r /\ q.source = p.source
          BY RingAssigned
        <4> QED BY <4>1, <4>2, <4>3, <4>4, <4>5
      <3> QED BY <3>1, <3>2
    <2>6. auPorts' \in [DOMAIN auPorts' -> AuPorts]
      BY <2>2, <2>4, <2>5
    <2>7. DOMAIN auHeard' \subseteq AuHandles /\ \A h \in DOMAIN auHeard' : auHeard'[h] \in Samples(AuNeeded)
      BY <2>4, <2>5 DEF AuInv, AuShape
    <2>8. AuShape'
      BY <2>2, <2>4, <2>6, <2>7 DEF AuInv, AuShape
    <2>9. AllDrained' /\ HandlesFresh'
      BY <2>2, <2>4, <2>5 DEF AuInv, AllDrained, HandlesFresh
    <2>10. HeardAsFilled'
      <3>1. \A h \in on : /\ HeardRight(auPorts[h], auHeard'[h])
                          /\ auPorts'[h].source = auPorts[h].source
                          /\ Len(auPorts'[h].ring.data) = Len(auPorts[h].ring.data)
        BY <2>4, <2>5
      <3> QED BY ZenonT(40), <2>2, <2>4, <3>1 DEF HeardAsFilled, HeardRight, Buffer
    <2> QED BY <2>8, <2>9, <2>10 DEF AuInv
  <1> QED BY <1>1, <1>2

LEMMA AuInvInductive == AuInv /\ [AuNext]_auVars => AuInv'
  <1> SUFFICES ASSUME AuInv, [AuNext]_auVars PROVE AuInv'
    OBVIOUS
  <1>1. CASE UNCHANGED auVars
    BY <1>1 DEF auVars, AuInv, AuShape, AllDrained, HandlesFresh, HeardAsFilled
  <1>2. CASE AuNext
    BY <1>2, DeviceKeepsAuInv, OpenPortKeepsAuInv, ClosePortKeepsAuInv, SetRunningKeepsAuInv, CallbackKeepsAuInv DEF AuNext
  <1> QED BY <1>1, <1>2

\* AuInv holds the whole of the module's type invariant.
LEMMA AuInvTyped == AuInv => AuTypeOK
  BY DEF AuInv, AuShape, AuTypeOK, AuPorts

(***************************************************************************)
(* What AudioCallback mixes for a port is what the port's fill function    *)
(* gave for this very callback, whatever the size of its ring and wherever *)
(* RingBuffer::Write and Read wrap; a ring shorter than the device buffer, *)
(* whose fill Write refuses, is silent and not stale.                      *)
(***************************************************************************)
THEOREM PortsHeardAsFilled == AuSpec => []HeardAsFilled
  <1>1. AuInv => HeardAsFilled
    BY DEF AuInv
  <1> QED BY <1>1, AuInvInit, AuInvInductive, PTL DEF AuSpec

HIDE AudioAssumption DEF AudioAssumption

-----------------------------------------------------------------------------
(* GPU.  A fence's flag is raised under its mutex, so a thread that found  *)
(* it down and still holds the mutex is asleep before it rises; handles    *)
(* are not given out again.  The heap's pointer is past every block.       *)

USE GlBounds DEF GlBounds

IsWork(w) == w = [list |-> w.list, cut |-> w.cut, buf |-> w.buf, pos |-> w.pos, done |-> w.done, pc |-> w.pc, fence |-> w.fence]

\* Inside a fence call, with the entry in hand.
FenceCalls == {"set", "notify", "peek", "lock", "doze", "asleep", "woken"}

FenceShape ==
    /\ glWork = [t \in GlThreads |-> glWork[t]] /\ \A t \in GlThreads : IsWork(glWork[t])
    /\ glFences \in [Handles -> [live : BOOLEAN, signalled : BOOLEAN, owner : GlThreads \cup {GlNoThread}]]
    /\ glNext \in 1 .. GlMaxFences + 1

FencesGiven ==
    /\ \A h \in Handles : glFences[h].live => h < glNext
    /\ \A t \in GlThreads : glWork[t].pc \in FenceCalls => glWork[t].fence \in Handles /\ glWork[t].fence < glNext

DozersHold ==
    \A t \in GlThreads : glWork[t].pc = "doze" =>
        glFences[glWork[t].fence].owner = t /\ ~glFences[glWork[t].fence].signalled

FenceInv == FenceShape /\ FencesGiven /\ DozersHold /\ NoSleepOnSignalled

\* What a thread may go on with when it alone moves: it neither takes the mutex nor notifies.
MayMove(w) ==
    /\ IsWork(w)
    /\ w.pc \in FenceCalls => w.fence \in Handles /\ w.fence < glNext
    /\ w.pc # "doze"
    /\ w.pc = "asleep" => ~glFences[w.fence].signalled

LEMMA ThreadMoves ==
    ASSUME FenceInv, NEW t \in GlThreads, NEW w, MayMove(w), glWork[t].pc # "notify",
           glWork' = [glWork EXCEPT ![t] = w], UNCHANGED <<glFences, glNext>>
    PROVE  FenceInv'
  <1>1. \A u \in GlThreads : glWork'[u] = IF u = t THEN w ELSE glWork[u]
    BY DEF FenceInv, FenceShape
  <1>2. FenceShape'
    BY <1>1 DEF FenceInv, FenceShape, MayMove, IsWork
  <1>3. FencesGiven' /\ DozersHold'
    BY <1>1 DEF FenceInv, FencesGiven, DozersHold, MayMove
  <1>4. NoSleepOnSignalled'
    BY <1>1 DEF FenceInv, NoSleepOnSignalled, GlAt, MayMove
  <1> QED BY <1>2, <1>3, <1>4 DEF FenceInv

LEMMA IdleMoves == MayMove(Idle)
  BY DEF MayMove, Idle, IsWork, FenceCalls

\* A thread whose position is assigned, and one that returns.
LEMMA PcAssigned ==
    ASSUME NEW w, IsWork(w), NEW pc
    PROVE  LET q == [w EXCEPT !.pc = pc] IN IsWork(q) /\ q.pc = pc /\ q.fence = w.fence /\ q.done = w.done /\ q.list = w.list
  BY DEF IsWork

LEMMA AfterMoves ==
    ASSUME FenceInv, NEW t \in GlThreads
    PROVE  MayMove(After(t)) /\ After(t).pc \in {"idle", "packet"} /\ IsWork(After(t))
  <1>1. IsWork(glWork[t])
    BY DEF FenceInv, FenceShape
  <1>2. PICK q : q = [glWork[t] EXCEPT !.pc = "packet", !.fence = 0]
    OBVIOUS
  <1>3. IsWork(q) /\ q.pc = "packet"
    BY <1>1, <1>2 DEF IsWork
  <1>4. MayMove(q)
    BY <1>3 DEF MayMove, FenceCalls
  <1> QED BY <1>2, <1>3, <1>4, IdleMoves DEF After, Idle, IsWork

\* Moves of one thread.
LEMMA MovesKeepFences ==
    ASSUME FenceInv, NEW t \in GlThreads,
           \/ \E l \in GlLists, cut \in GlCuts : Process(t, l, cut)
           \/ \E h \in Handles, op \in {"WaitFence", "SignalFence"} : HostCall(t, op, h)
           \/ ProcessDone(t) \/ ProcessPacket(t) \/ FindFence(t) \/ PeekFence(t) \/ WaitTimesOut(t)
    PROVE  FenceInv'
  <1>0. IsWork(glWork[t]) /\ MayMove(After(t))
    BY AfterMoves DEF FenceInv, FenceShape
  <1>1. ASSUME NEW l \in GlLists, NEW cut \in GlCuts, Process(t, l, cut) PROVE FenceInv'
    <2>1. PICK w : w = [Idle EXCEPT !.list = l, !.cut = cut > 0, !.pc = "packet",
                                    !.buf = SubSeq(Build(l), 1, Len(Build(l)) - cut)]
      OBVIOUS
    <2>2. IsWork(w) /\ w.pc = "packet"
      BY <2>1 DEF IsWork, Idle
    <2>3. MayMove(w) /\ glWork[t].pc # "notify"
      BY <1>1, <2>2 DEF MayMove, FenceCalls, Process, GlAt
    <2> QED BY <1>1, <2>1, <2>3, ThreadMoves DEF Process
  <1>2. ASSUME NEW h \in Handles, NEW op \in {"WaitFence", "SignalFence"}, HostCall(t, op, h) PROVE FenceInv'
    <2>1. PICK w : w = [Idle EXCEPT !.fence = h, !.pc = "find", !.done = <<[op |-> op, args |-> <<h>>]>>]
      OBVIOUS
    <2>2. IsWork(w) /\ w.pc = "find"
      BY <2>1 DEF IsWork, Idle
    <2>3. MayMove(w) /\ glWork[t].pc # "notify"
      BY <1>2, <2>2 DEF MayMove, FenceCalls, HostCall, GlAt
    <2> QED BY <1>2, <2>1, <2>3, ThreadMoves DEF HostCall
  <1>3. CASE ProcessDone(t)
    <2>1. glWork[t].pc # "notify"
      BY <1>3 DEF ProcessDone, GlAt
    <2> QED BY <1>3, <2>1, IdleMoves, ThreadMoves DEF ProcessDone
  <1>4. CASE ProcessPacket(t)
    <2>1. PICK d, f, pc : /\ pc \in {"find", "packet"}
                          /\ glWork' = [glWork EXCEPT ![t].pos = d.pos, ![t].done = Append(@, d.cmd),
                                                      ![t].fence = f, ![t].pc = pc]
      BY <1>4 DEF ProcessPacket
    <2>2. PICK w : w = [glWork[t] EXCEPT !.pos = d.pos, !.done = Append(@, d.cmd), !.fence = f, !.pc = pc]
      OBVIOUS
    <2>3. glWork' = [glWork EXCEPT ![t] = w]
      BY <2>1, <2>2, <1>0 DEF FenceInv, FenceShape, IsWork
    <2>4. IsWork(w) /\ w.pc = pc
      BY <1>0, <2>2 DEF IsWork
    <2>5. MayMove(w) /\ glWork[t].pc # "notify"
      BY <1>4, <2>1, <2>4 DEF MayMove, FenceCalls, ProcessPacket, GlAt
    <2> QED BY <1>4, <2>3, <2>5, ThreadMoves DEF ProcessPacket
  <1>5. CASE FindFence(t)
    <2>1. CASE glWork[t].fence \in Handles /\ glFences[glWork[t].fence].live
      <3>1. PICK pc \in {"set", "peek"} : glWork' = [glWork EXCEPT ![t] = [glWork[t] EXCEPT !.pc = pc]]
        BY <1>5, <2>1 DEF FindFence, GlGoto
      <3>4. PICK w : w = [glWork[t] EXCEPT !.pc = pc]
        OBVIOUS
      <3>2. IsWork(w) /\ w.pc = pc /\ w.fence = glWork[t].fence
        BY <1>0, <3>4, PcAssigned
      <3>3. MayMove(w) /\ glWork[t].pc # "notify"
        BY <1>5, <2>1, <3>2 DEF MayMove, FenceInv, FencesGiven, FindFence, GlAt
      <3> QED BY <1>5, <3>1, <3>4, <3>3, ThreadMoves DEF FindFence
    <2>2. CASE ~(glWork[t].fence \in Handles /\ glFences[glWork[t].fence].live)
      <3>1. glWork[t].pc # "notify" /\ glWork' = [glWork EXCEPT ![t] = After(t)]
        BY <1>5, <2>2 DEF FindFence, Return, GlAt
      <3> QED BY <1>0, <1>5, <3>1, ThreadMoves DEF FindFence
    <2> QED BY <2>1, <2>2
  <1>6. CASE PeekFence(t)
    <2>1. CASE glFences[glWork[t].fence].signalled
      <3>1. glWork[t].pc # "notify" /\ glWork' = [glWork EXCEPT ![t] = After(t)]
        BY <1>6, <2>1 DEF PeekFence, Return, GlAt
      <3> QED BY <1>0, <1>6, <3>1, ThreadMoves DEF PeekFence
    <2>2. CASE ~glFences[glWork[t].fence].signalled
      <3>1. glWork' = [glWork EXCEPT ![t] = [glWork[t] EXCEPT !.pc = "lock"]] /\ glWork[t].pc = "peek"
        BY <1>6, <2>2 DEF PeekFence, GlGoto, GlAt
      <3>4. PICK w : w = [glWork[t] EXCEPT !.pc = "lock"]
        OBVIOUS
      <3>2. IsWork(w) /\ w.pc = "lock" /\ w.fence = glWork[t].fence
        BY <1>0, <3>4, PcAssigned
      <3>3. MayMove(w)
        BY <3>1, <3>2 DEF MayMove, FenceInv, FencesGiven, FenceCalls
      <3> QED BY <1>6, <3>1, <3>4, <3>3, ThreadMoves DEF PeekFence
    <2> QED BY <2>1, <2>2
  <1>7. CASE WaitTimesOut(t)
    <2>1. glWork[t].pc # "notify" /\ glWork' = [glWork EXCEPT ![t] = After(t)]
      BY <1>7 DEF WaitTimesOut, Return, GlAt
    <2> QED BY <1>0, <1>7, <2>1, ThreadMoves DEF WaitTimesOut
  <1> QED BY <1>1, <1>2, <1>3, <1>4, <1>5, <1>6, <1>7

LEMMA TestKeepsFences ==
    ASSUME FenceInv, NEW t \in GlThreads, TestFence(t)
    PROVE  FenceInv'
  <1>1. /\ IsWork(glWork[t]) /\ MayMove(After(t)) /\ glWork[t].pc \in {"lock", "woken"}
        /\ glWork[t].fence \in Handles /\ glWork[t].fence < glNext
    BY AfterMoves DEF FenceInv, FenceShape, FencesGiven, FenceCalls, TestFence, GlAt
  <1>2. CASE glFences[glWork[t].fence].signalled
    <2>1. glWork' = [glWork EXCEPT ![t] = After(t)] /\ UNCHANGED <<glFences, glNext>>
      BY <1>2 DEF TestFence, Return
    <2> QED BY <1>1, <2>1, ThreadMoves
  <1>3. CASE ~glFences[glWork[t].fence].signalled
    <2>1. PICK h \in Handles : h = glWork[t].fence
      BY <1>1
    <2>2. PICK w : w = [glWork[t] EXCEPT !.pc = "doze"]
      OBVIOUS
    <2>3. IsWork(w) /\ w.pc = "doze" /\ w.fence = h
      BY <1>1, <2>1, <2>2, PcAssigned
    <2>4. /\ glWork' = [glWork EXCEPT ![t] = w] /\ UNCHANGED glNext
          /\ glFences' = [glFences EXCEPT ![h].owner = t] /\ glFences[h].owner = GlNoThread
      BY <1>3, <2>1, <2>2 DEF TestFence, GlGoto, Free
    <2>5. \A u \in GlThreads : glWork'[u] = IF u = t THEN w ELSE glWork[u]
      BY <2>4 DEF FenceInv, FenceShape
    <2>6. \A g \in Handles : /\ glFences'[g].live = glFences[g].live /\ glFences'[g].signalled = glFences[g].signalled
                              /\ glFences'[g].owner = IF g = h THEN t ELSE glFences[g].owner
      BY <2>4 DEF FenceInv, FenceShape
    <2>7. glFences' \in [Handles -> [live : BOOLEAN, signalled : BOOLEAN, owner : GlThreads \cup {GlNoThread}]]
      BY <2>4 DEF FenceInv, FenceShape
    <2>8. FenceShape'
      BY <2>3, <2>4, <2>5, <2>7 DEF FenceInv, FenceShape
    <2>9. FencesGiven'
      BY <1>1, <2>1, <2>3, <2>4, <2>5, <2>6 DEF FenceInv, FencesGiven
    <2>10. DozersHold'
      <3>1. \A u \in GlThreads : u # t /\ glWork[u].pc = "doze" => glWork[u].fence # h /\ glWork[u].fence \in Handles
        BY <2>4 DEF FenceInv, DozersHold, FencesGiven, FenceCalls
      <3> QED BY <1>3, <2>1, <2>3, <2>5, <2>6, <3>1 DEF FenceInv, DozersHold
    <2>11. NoSleepOnSignalled'
      <3>1. \A u \in GlThreads : glWork[u].pc = "asleep" => glWork[u].fence \in Handles
        BY DEF FenceInv, FencesGiven, FenceCalls
      <3> QED BY <1>1, <2>3, <2>5, <2>6, <3>1 DEF FenceInv, NoSleepOnSignalled, GlAt
    <2> QED BY <2>8, <2>9, <2>10, <2>11 DEF FenceInv
  <1> QED BY <1>2, <1>3

\* A thread goes to sleep with the flag still down.
LEMMA SleepKeepsFences ==
    ASSUME FenceInv, NEW t \in GlThreads, SleepOnFence(t)
    PROVE  FenceInv'
  <1>1. PICK h \in Handles : /\ h = glWork[t].fence /\ h < glNext /\ IsWork(glWork[t]) /\ glWork[t].pc = "doze"
                             /\ glFences[h].owner = t /\ ~glFences[h].signalled
    BY DEF FenceInv, FenceShape, FencesGiven, DozersHold, FenceCalls, SleepOnFence, GlAt
  <1>2. PICK w : w = [glWork[t] EXCEPT !.pc = "asleep"]
    OBVIOUS
  <1>3. IsWork(w) /\ w.pc = "asleep" /\ w.fence = h
    BY <1>1, <1>2, PcAssigned
  <1>4. /\ glWork' = [glWork EXCEPT ![t] = w] /\ UNCHANGED glNext
        /\ glFences' = [glFences EXCEPT ![h].owner = GlNoThread]
    BY <1>1, <1>2 DEF SleepOnFence, GlGoto
  <1>5. \A u \in GlThreads : glWork'[u] = IF u = t THEN w ELSE glWork[u]
    BY <1>4 DEF FenceInv, FenceShape
  <1>6. \A g \in Handles : /\ glFences'[g].live = glFences[g].live /\ (glFences'[g].signalled => glFences[g].signalled)
                            /\ (g # h => glFences'[g].owner = glFences[g].owner)
    BY <1>4 DEF FenceInv, FenceShape
  <1>7. glFences' \in [Handles -> [live : BOOLEAN, signalled : BOOLEAN, owner : GlThreads \cup {GlNoThread}]]
    BY <1>4 DEF FenceInv, FenceShape
  <1>8. FenceShape'
    BY <1>3, <1>4, <1>5, <1>7 DEF FenceInv, FenceShape
  <1>9. FencesGiven'
    BY <1>1, <1>3, <1>4, <1>5, <1>6 DEF FenceInv, FencesGiven
  <1>10. DozersHold'
    <2>1. \A u \in GlThreads : u # t /\ glWork[u].pc = "doze" => glWork[u].fence # h /\ glWork[u].fence \in Handles
      BY <1>1 DEF FenceInv, DozersHold, FencesGiven, FenceCalls
    <2> SUFFICES ASSUME NEW u \in GlThreads, glWork'[u].pc = "doze"
                 PROVE  glFences'[glWork'[u].fence].owner = u /\ ~glFences'[glWork'[u].fence].signalled
      BY DEF DozersHold
    <2>2. u # t /\ glWork'[u] = glWork[u] /\ glWork[u].pc = "doze"
      BY <1>3, <1>5
    <2>3. PICK g \in Handles : g = glWork[u].fence /\ g # h
      BY <2>1, <2>2
    <2>4. glFences[g].owner = u /\ ~glFences[g].signalled
      BY <2>2, <2>3 DEF FenceInv, DozersHold
    <2> QED BY <1>6, <2>2, <2>3, <2>4
  <1>11. NoSleepOnSignalled'
    <2>1. \A u \in GlThreads : glWork[u].pc = "asleep" => glWork[u].fence \in Handles
      BY DEF FenceInv, FencesGiven, FenceCalls
    <2> SUFFICES ASSUME NEW u \in GlThreads, glWork'[u].pc = "asleep", glFences'[glWork'[u].fence].signalled
                 PROVE  \E v \in GlThreads : glWork'[v].pc = "notify" /\ glWork'[v].fence = glWork'[u].fence
      BY DEF NoSleepOnSignalled, GlAt
    <2>2. u # t
      BY <1>1, <1>3, <1>5, <1>6
    <2>3. PICK g \in Handles : g = glWork[u].fence /\ glWork'[u] = glWork[u]
      BY <1>5, <2>1, <2>2
    <2>4. glFences[g].signalled
      BY <1>6, <2>3
    <2>5. PICK v \in GlThreads : glWork[v].pc = "notify" /\ glWork[v].fence = g
      BY <2>3, <2>4 DEF FenceInv, NoSleepOnSignalled, GlAt
    <2>6. v # t
      BY <1>1, <2>5
    <2> QED BY <1>5, <2>3, <2>5, <2>6
  <1> QED BY <1>8, <1>9, <1>10, <1>11 DEF FenceInv

\* The flag rises when nobody holds the mutex, and its riser is about to notify.
LEMMA SignalKeepsFences ==
    ASSUME FenceInv, NEW t \in GlThreads, SetSignalled(t)
    PROVE  FenceInv'
  <1>1. PICK h \in Handles : /\ h = glWork[t].fence /\ h < glNext /\ IsWork(glWork[t]) /\ glWork[t].pc = "set"
                             /\ glFences[h].owner = GlNoThread
    BY DEF FenceInv, FenceShape, FencesGiven, FenceCalls, SetSignalled, GlAt, Free
  <1>2. PICK w : w = [glWork[t] EXCEPT !.pc = "notify"]
    OBVIOUS
  <1>3. IsWork(w) /\ w.pc = "notify" /\ w.fence = h
    BY <1>1, <1>2, PcAssigned
  <1>4. /\ glWork' = [glWork EXCEPT ![t] = w] /\ UNCHANGED glNext
        /\ glFences' = [glFences EXCEPT ![h].signalled = TRUE]
    BY <1>1, <1>2 DEF SetSignalled, GlGoto
  <1>5. \A u \in GlThreads : glWork'[u] = IF u = t THEN w ELSE glWork[u]
    BY <1>4 DEF FenceInv, FenceShape
  <1>6. \A g \in Handles : /\ glFences'[g].live = glFences[g].live /\ glFences'[g].owner = glFences[g].owner
                            /\ (g # h /\ glFences'[g].signalled => glFences[g].signalled)
    BY <1>4 DEF FenceInv, FenceShape
  <1>7. glFences' \in [Handles -> [live : BOOLEAN, signalled : BOOLEAN, owner : GlThreads \cup {GlNoThread}]]
    BY <1>4 DEF FenceInv, FenceShape
  <1>8. FenceShape'
    BY <1>3, <1>4, <1>5, <1>7 DEF FenceInv, FenceShape
  <1>9. FencesGiven'
    BY <1>1, <1>3, <1>4, <1>5, <1>6 DEF FenceInv, FencesGiven
  <1>10. DozersHold'
    <2>1. \A u \in GlThreads : glWork[u].pc = "doze" => glWork[u].fence # h /\ glWork[u].fence \in Handles
      BY <1>1 DEF FenceInv, DozersHold, FencesGiven, FenceCalls
    <2> SUFFICES ASSUME NEW u \in GlThreads, glWork'[u].pc = "doze"
                 PROVE  glFences'[glWork'[u].fence].owner = u /\ ~glFences'[glWork'[u].fence].signalled
      BY DEF DozersHold
    <2>2. u # t /\ glWork'[u] = glWork[u] /\ glWork[u].pc = "doze"
      BY <1>3, <1>5
    <2>3. PICK g \in Handles : g = glWork[u].fence /\ g # h
      BY <2>1, <2>2
    <2>4. glFences[g].owner = u /\ ~glFences[g].signalled
      BY <2>2, <2>3 DEF FenceInv, DozersHold
    <2> QED BY <1>6, <2>2, <2>3, <2>4
  <1>11. NoSleepOnSignalled'
    <2>1. \A u \in GlThreads : glWork[u].pc = "asleep" => glWork[u].fence \in Handles
      BY DEF FenceInv, FencesGiven, FenceCalls
    <2> SUFFICES ASSUME NEW u \in GlThreads, glWork'[u].pc = "asleep", glFences'[glWork'[u].fence].signalled
                 PROVE  \E v \in GlThreads : glWork'[v].pc = "notify" /\ glWork'[v].fence = glWork'[u].fence
      BY DEF NoSleepOnSignalled, GlAt
    <2>2. PICK g \in Handles : g = glWork[u].fence /\ glWork'[u] = glWork[u]
      BY <1>3, <1>5, <2>1
    <2>3. CASE g = h
      BY <1>3, <1>5, <2>2, <2>3
    <2>4. CASE g # h
      <3>1. glFences[g].signalled
        BY <1>6, <2>2, <2>4
      <3>2. PICK v \in GlThreads : glWork[v].pc = "notify" /\ glWork[v].fence = g
        BY <2>2, <3>1 DEF FenceInv, NoSleepOnSignalled, GlAt
      <3>3. v # t
        BY <1>1, <3>2
      <3> QED BY <1>5, <2>2, <3>2, <3>3
    <2> QED BY <2>3, <2>4
  <1> QED BY <1>8, <1>9, <1>10, <1>11 DEF FenceInv

\* Every sleeper of the fence wakes.
LEMMA NotifyKeepsFences ==
    ASSUME FenceInv, NEW t \in GlThreads, NotifySleepers(t)
    PROVE  FenceInv'
  <1>1. /\ glWork' = [u \in GlThreads |->
                       IF u = t THEN After(t)
                       ELSE IF glWork[u].pc = "asleep" /\ glWork[u].fence = glWork[t].fence
                            THEN [glWork[u] EXCEPT !.pc = "woken"] ELSE glWork[u]]
        /\ UNCHANGED <<glFences, glNext>>
    BY DEF NotifySleepers, GlAt
  <1>2. MayMove(After(t)) /\ After(t).pc \in {"idle", "packet"}
    BY AfterMoves
  <1>3. ASSUME NEW u \in GlThreads
        PROVE  /\ IsWork(glWork'[u])
               /\ u # t => glWork'[u].fence = glWork[u].fence
               /\ u # t => \/ glWork'[u].pc = glWork[u].pc
                           \/ glWork'[u].pc = "woken" /\ glWork[u].pc = "asleep"
               /\ glWork'[u].pc = "asleep" => u # t /\ glWork[u].pc = "asleep" /\ glWork[u].fence # glWork[t].fence
    <2>1. IsWork(glWork[u])
      BY DEF FenceInv, FenceShape
    <2>2. PICK q : q = [glWork[u] EXCEPT !.pc = "woken"]
      OBVIOUS
    <2>3. IsWork(q) /\ q.pc = "woken" /\ q.fence = glWork[u].fence
      BY <2>1, <2>2, PcAssigned
    <2> QED BY <1>1, <1>2, <2>1, <2>2, <2>3 DEF MayMove
  <1>4. glWork'[t] = After(t)
    BY <1>1
  <1>5. FenceShape'
    BY <1>1, <1>3 DEF FenceInv, FenceShape
  <1>6. FencesGiven'
    BY <1>1, <1>2, <1>3, <1>4 DEF FenceInv, FencesGiven, FenceCalls, MayMove
  <1>7. DozersHold'
    BY <1>1, <1>2, <1>3, <1>4 DEF FenceInv, DozersHold
  <1>8. NoSleepOnSignalled'
    <2> SUFFICES ASSUME NEW u \in GlThreads, glWork'[u].pc = "asleep", glFences[glWork'[u].fence].signalled
                 PROVE  \E v \in GlThreads : glWork'[v].pc = "notify" /\ glWork'[v].fence = glWork'[u].fence
      BY <1>1 DEF NoSleepOnSignalled, GlAt
    <2>1. u # t /\ glWork[u].pc = "asleep" /\ glWork[u].fence # glWork[t].fence /\ glWork'[u].fence = glWork[u].fence
      BY <1>3
    <2>2. PICK v \in GlThreads : glWork[v].pc = "notify" /\ glWork[v].fence = glWork[u].fence
      BY <2>1 DEF FenceInv, NoSleepOnSignalled, GlAt
    <2>3. v # t /\ glWork'[v].pc = "notify" /\ glWork'[v].fence = glWork[u].fence
      BY <1>3, <2>1, <2>2
    <2> QED BY <2>1, <2>3
  <1> QED BY <1>5, <1>6, <1>7, <1>8 DEF FenceInv

\* A new fence has a handle no thread is inside a call of.
LEMMA HandlesKeepFences ==
    ASSUME FenceInv, CreateFence \/ \E h \in Handles : DestroyFence(h)
    PROVE  FenceInv'
  <1>1. CASE CreateFence
    <2>1. PICK new : new = [NoFence EXCEPT !.live = TRUE]
      OBVIOUS
    <2>2. new = [live |-> TRUE, signalled |-> FALSE, owner |-> GlNoThread]
      BY <2>1 DEF NoFence
    <2>3. /\ glNext \in Handles /\ glFences' = [glFences EXCEPT ![glNext] = new]
          /\ glNext' = glNext + 1 /\ UNCHANGED glWork
      BY <1>1, <2>1 DEF CreateFence, FenceInv, FenceShape, Handles
    <2>4. \A h \in Handles : glFences'[h] = IF h = glNext THEN new ELSE glFences[h]
      BY <2>3 DEF FenceInv, FenceShape
    <2>5. \A t \in GlThreads : glWork[t].pc \in FenceCalls => glWork[t].fence \in Handles \ {glNext} /\ glWork[t].fence < glNext'
      BY <2>3 DEF FenceInv, FenceShape, FencesGiven, Handles
    <2>6. glFences' \in [Handles -> [live : BOOLEAN, signalled : BOOLEAN, owner : GlThreads \cup {GlNoThread}]]
      BY <2>2, <2>3 DEF FenceInv, FenceShape
    <2>7. glNext' \in 1 .. GlMaxFences + 1
      BY <1>1, <2>3 DEF CreateFence, Handles
    <2>8. FenceShape'
      BY <2>3, <2>6, <2>7 DEF FenceInv, FenceShape
    <2>9. FencesGiven'
      <3>1. \A h \in Handles : glFences'[h].live => h < glNext + 1
        BY <2>3, <2>4 DEF FenceInv, FencesGiven, Handles
      <3> QED BY <2>3, <2>5, <3>1 DEF FencesGiven
    <2>10. DozersHold' /\ NoSleepOnSignalled'
      BY <2>3, <2>4, <2>5 DEF FenceInv, DozersHold, NoSleepOnSignalled, GlAt, FenceCalls
    <2> QED BY <2>8, <2>9, <2>10 DEF FenceInv
  <1>2. ASSUME NEW h \in Handles, DestroyFence(h) PROVE FenceInv'
    <2>1. glFences' = [glFences EXCEPT ![h].live = FALSE] /\ UNCHANGED <<glWork, glNext>>
      BY <1>2 DEF DestroyFence
    <2>2. \A g \in Handles : /\ glFences'[g].signalled = glFences[g].signalled /\ glFences'[g].owner = glFences[g].owner
                              /\ glFences'[g].live => glFences[g].live
      BY <2>1 DEF FenceInv, FenceShape
    <2>3. FenceShape'
      BY <2>1 DEF FenceInv, FenceShape
    <2>4. FencesGiven' /\ DozersHold' /\ NoSleepOnSignalled'
      BY <2>1, <2>2 DEF FenceInv, FencesGiven, DozersHold, NoSleepOnSignalled, GlAt, FenceCalls
    <2> QED BY <2>3, <2>4 DEF FenceInv
  <1> QED BY <1>1, <1>2

LEMMA FenceInvInit == GlInit => FenceInv
  <1> SUFFICES ASSUME GlInit PROVE FenceInv
    OBVIOUS
  <1>1. \A t \in GlThreads : glWork[t] = Idle
    BY DEF GlInit
  <1>2. IsWork(Idle) /\ Idle.pc = "idle"
    BY DEF IsWork, Idle
  <1>3. glFences \in [Handles -> [live : BOOLEAN, signalled : BOOLEAN, owner : GlThreads \cup {GlNoThread}]]
        /\ \A h \in Handles : ~glFences[h].live
    BY DEF GlInit, NoFence
  <1>4. 1 \in 1 .. GlMaxFences + 1
    OBVIOUS
  <1>5. FenceShape
    BY <1>1, <1>2, <1>3, <1>4 DEF GlInit, FenceShape
  <1> QED BY <1>1, <1>2, <1>3, <1>5 DEF FenceInv, FencesGiven, DozersHold, NoSleepOnSignalled, GlAt, FenceCalls

LEMMA FenceInvInductive == FenceInv /\ [GlNext]_glVars => FenceInv'
  <1> SUFFICES ASSUME FenceInv, [GlNext]_glVars PROVE FenceInv'
    OBVIOUS
  <1>1. CASE UNCHANGED <<glWork, glFences, glNext>>
    BY <1>1 DEF FenceInv, FenceShape, FencesGiven, DozersHold, NoSleepOnSignalled, GlAt
  <1>2. CASE GlListsNext
    BY <1>2, MovesKeepFences, TestKeepsFences, SleepKeepsFences, SignalKeepsFences, NotifyKeepsFences, HandlesKeepFences
       DEF GlListsNext, GlCalls, GlStep
  <1> QED BY <1>1, <1>2 DEF GlNext, glVars

(***************************************************************************)
(* SignalFence raises the flag under the entry's mutex and notifies after  *)
(* it, WaitFence tests it under the mutex before it sleeps: no thread      *)
(* sleeps on a fence that was signalled and notified, whatever fences are  *)
(* made or destroyed meanwhile.                                            *)
(***************************************************************************)
THEOREM FencesWakeSleepers == GlSpec => []NoSleepOnSignalled
  <1>1. FenceInv => NoSleepOnSignalled
    BY DEF FenceInv
  <1> QED BY <1>1, FenceInvInit, FenceInvInductive, PTL DEF GlSpec

\* The allocator's pointer is past every block given since the heap was mapped.
HeapInv ==
    /\ glHeap = [base |-> glHeap.base, used |-> glHeap.used, given |-> glHeap.given]
    /\ glHeap.used \in Nat /\ glHeap.used <= GlHeapSize
    /\ \A b \in glHeap.given : b.at \in Nat /\ b.size \in Nat /\ b.at + b.size <= glHeap.used
    /\ AllocsDisjoint

LEMMA RoundedUp ==
    ASSUME NEW n \in Nat, NEW a \in Nat \ {0}
    PROVE  RoundUp(n, a) \in Nat /\ RoundUp(n, a) >= n
  <1>1. PICK m \in Nat : m = n + a - 1
    OBVIOUS
  <1>2. PICK q \in Nat : q = m \div a
    OBVIOUS
  <1>3. m = q * a + (m % a) /\ m % a \in 0 .. a - 1
    BY <1>2
  <1>4. PICK p \in Nat : p = q * a
    OBVIOUS
  <1>5. p >= n
    BY <1>1, <1>3, <1>4
  <1> QED BY <1>1, <1>2, <1>4, <1>5 DEF RoundUp

LEMMA HeapInvInductive == HeapInv /\ [GlNext]_glVars => HeapInv'
  <1> SUFFICES ASSUME HeapInv, [GlNext]_glVars PROVE HeapInv'
    OBVIOUS
  <1>1. CASE UNCHANGED glHeap
    BY <1>1 DEF HeapInv, AllocsDisjoint
  <1>2. CASE HeapInit
    <2>1. glHeap' = [base |-> TRUE, used |-> glHeap.used, given |-> {}]
      BY <1>2 DEF HeapInit, HeapInv
    <2> QED BY <2>1 DEF HeapInv, AllocsDisjoint
  <1>3. CASE HeapShutdown
    <2>1. glHeap' = [base |-> FALSE, used |-> 0, given |-> {}]
      BY <1>3 DEF HeapShutdown
    <2> QED BY <2>1 DEF HeapInv, AllocsDisjoint
  <1>4. ASSUME NEW n \in GlSizes, NEW a \in GlAligns, Alloc(n, a) PROVE HeapInv'
    <2>1. PICK at \in Nat : at = RoundUp(glHeap.used, a) /\ at >= glHeap.used
      BY RoundedUp DEF HeapInv
    <2>2. PICK new : new = [at |-> at, size |-> n, mapped |-> glHeap.base]
      OBVIOUS
    <2>9. new.at = at /\ new.size = n
      BY <2>2
    <2>3. PICK top \in Nat : top = at + n /\ top >= at
      OBVIOUS
    <2>4. glHeap' = [glHeap EXCEPT !.used = top, !.given = @ \union {new}]
      BY <1>4, <2>1, <2>2, <2>3 DEF Alloc
    <2>5. glHeap' = [base |-> glHeap.base, used |-> top, given |-> glHeap.given \union {new}]
      BY <2>4 DEF HeapInv
    <2>6. \A b \in glHeap'.given : b = new \/ (b \in glHeap.given /\ b.at + b.size <= at)
      <3>1. \A b \in glHeap.given : b.at + b.size <= at
        BY <2>1 DEF HeapInv
      <3>2. glHeap'.given = glHeap.given \union {new}
        BY <2>5
      <3> QED BY <3>1, <3>2
    <2>7. \A b \in glHeap'.given : b.at \in Nat /\ b.size \in Nat /\ b.at + b.size <= top
      BY <2>3, <2>5, <2>6, <2>9 DEF HeapInv
    <2>8. AllocsDisjoint'
      <3> SUFFICES ASSUME NEW b \in glHeap'.given, NEW c \in glHeap'.given, b # c
                   PROVE  b.at + b.size <= c.at \/ c.at + c.size <= b.at
        BY DEF AllocsDisjoint
      <3>1. CASE b \in glHeap.given /\ c \in glHeap.given
        BY <3>1 DEF HeapInv, AllocsDisjoint
      <3> QED BY <2>6, <2>9, <3>1
    <2>10. top <= GlHeapSize
      BY <1>4, <2>1, <2>3 DEF Alloc
    <2> QED BY <2>5, <2>7, <2>8, <2>10 DEF HeapInv
  <1> QED BY <1>1, <1>2, <1>3, <1>4 DEF GlNext, GlHeapNext, glVars

(***************************************************************************)
(* GpuHeap::Alloc rounds its pointer up to the alignment asked for and     *)
(* never back: between two mappings of the heap no two blocks overlap,     *)
(* whatever sizes and alignments are asked for.                            *)
(***************************************************************************)
THEOREM HeapBlocksDisjoint == GlSpec => []AllocsDisjoint
  <1>1. GlInit => HeapInv
    BY DEF GlInit, HeapInv, AllocsDisjoint
  <1>2. HeapInv => AllocsDisjoint
    BY DEF HeapInv
  <1> QED BY <1>1, <1>2, HeapInvInductive, PTL DEF GlSpec

HIDE GlBounds DEF GlBounds

-----------------------------------------------------------------------------
(* Functions defined by recursion over a range, and concatenations. *)

StepsIn(S, step, n) == \A i \in 1 .. n : step[i] \in [S -> S]

\* f begins with x and takes the first n steps.
Recursion(S, x, step, n, f) ==
    f \in [0 .. n -> S] /\ f[0] = x /\ \A i \in 1 .. n : f[i] = step[i][f[i - 1]]

\* A recursion whose steps stay in a set has a function there.
LEMMA RecursionExists ==
    ASSUME NEW S, NEW x \in S, NEW n \in Nat, NEW step, StepsIn(S, step, n)
    PROVE  \E f : Recursion(S, x, step, n, f)
  <1> DEFINE Goes(m, f) == f \in [0 .. m -> S] /\ f[0] = x /\ \A i \in 1 .. m : f[i] = step[i][f[i - 1]]
             N == {m \in Nat : m <= n => \E f : Goes(m, f)}
  <1> USE DEF StepsIn
  <1>1. 0 \in N
    <2>1. PICK f : f = [i \in 0 .. 0 |-> x]
      OBVIOUS
    <2>2. Goes(0, f)
      BY <2>1
    <2> QED BY <2>2
  <1>2. ASSUME NEW m \in Nat, m \in N PROVE m + 1 \in N
    <2> SUFFICES ASSUME m + 1 <= n PROVE \E f : Goes(m + 1, f)
      OBVIOUS
    <2>1. m <= n /\ m + 1 \in 1 .. n /\ m \in 0 .. m
      OBVIOUS
    <2>2. PICK f : Goes(m, f)
      BY <1>2, <2>1
    <2>3. f[m] \in S /\ step[m + 1] \in [S -> S]
      BY <2>1, <2>2
    <2>4. PICK y \in S : y = step[m + 1][f[m]]
      BY <2>3
    <2>5. PICK g : g = [i \in 0 .. m + 1 |-> IF i = m + 1 THEN y ELSE f[i]]
      OBVIOUS
    <2>6. g \in [0 .. m + 1 -> S]
      BY <2>2, <2>4, <2>5
    <2>7. g[m + 1] = y /\ \A i \in 0 .. m : g[i] = f[i]
      BY <2>5
    <2>8. \A i \in 1 .. m : i \in 0 .. m /\ i - 1 \in 0 .. m
      OBVIOUS
    <2>9. \A i \in 1 .. m : g[i] = step[i][g[i - 1]]
      BY <2>2, <2>7, <2>8
    <2>10. (m + 1) - 1 = m /\ \A i \in 1 .. m + 1 : i \in 1 .. m \/ i = m + 1
      OBVIOUS
    <2>11. g[m + 1] = step[m + 1][g[(m + 1) - 1]]
      BY <2>1, <2>4, <2>7, <2>10
    <2>12. \A i \in 1 .. m + 1 : g[i] = step[i][g[i - 1]]
      BY <2>9, <2>10, <2>11
    <2>13. g[0] = x
      BY <2>2, <2>7
    <2> QED BY <2>6, <2>12, <2>13
  <1>3. n \in N
    <2> HIDE DEF N
    <2> QED BY <1>1, <1>2, CountingUp
  <1>4. n <= n
    OBVIOUS
  <1> QED BY <1>3, <1>4 DEF Recursion

\* f is the recursion of Joined.
Joins(parts, S, f) ==
    /\ f \in [0 .. Len(parts) -> Seq(S)]
    /\ f[0] = <<>>
    /\ \A i \in 1 .. Len(parts) : f[i] = f[i - 1] \o parts[i]

LEMMA JoinedIs ==
    ASSUME NEW S, NEW parts \in Seq(Seq(S))
    PROVE  \E f : Joins(parts, S, f) /\ Joined(parts) = f[Len(parts)]
  <1>1. PICK n \in Nat : n = Len(parts)
    BY LenProperties
  <1>2. \A i \in 1 .. n : parts[i] \in Seq(S)
    BY <1>1, ElementOfSeq
  <1>3. PICK step : step = [i \in 1 .. n |-> [s \in Seq(S) |-> s \o parts[i]]]
    OBVIOUS
  <1>4. \A i \in 1 .. n : step[i] \in [Seq(S) -> Seq(S)]
    <2> SUFFICES ASSUME NEW i \in 1 .. n PROVE step[i] \in [Seq(S) -> Seq(S)]
      OBVIOUS
    <2>1. \A s \in Seq(S) : s \o parts[i] \in Seq(S)
      BY <1>2, ConcatProperties
    <2> QED BY <1>3, <2>1
  <1>5. <<>> \in Seq(S)
    BY EmptySeq
  <1>6. PICK f \in [0 .. n -> Seq(S)] : f[0] = <<>> /\ \A i \in 1 .. n : f[i] = step[i][f[i - 1]]
    <2>1. StepsIn(Seq(S), step, n)
      BY <1>4 DEF StepsIn
    <2>2. \E f : Recursion(Seq(S), <<>>, step, n, f)
      BY <1>5, <2>1, RecursionExists
    <2> QED BY <2>2 DEF Recursion
  <1>7. \A i \in 1 .. n : i - 1 \in 0 .. n /\ f[i - 1] \in Seq(S)
    BY <1>6
  <1>8. \A i \in 1 .. n : f[i] = f[i - 1] \o parts[i]
    BY <1>3, <1>6, <1>7
  <1>9. \A i \in 0 .. n : f[i] = IF i = 0 THEN <<>> ELSE f[i - 1] \o parts[i]
    <2>1. \A i \in 0 .. n : i = 0 \/ i \in 1 .. n
      OBVIOUS
    <2> QED BY <1>6, <1>8, <2>1
  <1>10. f = [i \in 0 .. n |-> IF i = 0 THEN <<>> ELSE f[i - 1] \o parts[i]]
    BY <1>6, <1>9
  <1> DEFINE g == CHOOSE h : h = [i \in 0 .. Len(parts) |-> IF i = 0 THEN <<>> ELSE h[i - 1] \o parts[i]]
  <1>11. g = [i \in 0 .. n |-> IF i = 0 THEN <<>> ELSE g[i - 1] \o parts[i]]
    BY <1>1, <1>10
  <1>12. Joined(parts) = g[Len(parts)]
    BY DEF Joined
  <1> HIDE DEF g
  <1> DEFINE N == {m \in Nat : m <= n => g[m] = f[m]}
  <1>13. 0 \in N
    BY <1>6, <1>11
  <1>14. ASSUME NEW m \in Nat, m \in N PROVE m + 1 \in N
    <2> SUFFICES ASSUME m + 1 <= n PROVE g[m + 1] = f[m + 1]
      OBVIOUS
    <2>1. m <= n /\ m + 1 \in 1 .. n /\ m + 1 \in 0 .. n /\ m + 1 # 0 /\ (m + 1) - 1 = m
      OBVIOUS
    <2>2. g[m + 1] = g[m] \o parts[m + 1]
      BY <1>11, <2>1
    <2>3. f[m + 1] = f[m] \o parts[m + 1]
      BY <1>8, <2>1
    <2>4. g[m] = f[m]
      BY <1>14, <2>1
    <2> QED BY <2>2, <2>3, <2>4
  <1>15. n \in N
    <2> HIDE DEF N
    <2> QED BY <1>13, <1>14, CountingUp
  <1>16. g[n] = f[n]
    BY <1>15
  <1>17. Joins(parts, S, f)
    BY <1>1, <1>6, <1>8 DEF Joins
  <1> QED BY <1>1, <1>12, <1>16, <1>17

\* Part i stands in the whole after the parts before it.
Placed(parts, f, i) ==
    /\ Len(f[i - 1]) \in Nat /\ Len(parts[i]) \in Nat
    /\ Len(f[i]) = Len(f[i - 1]) + Len(parts[i])
    /\ Len(f[i]) <= Len(f[Len(parts)])
    /\ \A c \in 1 .. Len(parts[i]) : f[Len(parts)][Len(f[i - 1]) + c] = parts[i][c]

LEMMA JoinsPlaces ==
    ASSUME NEW S, NEW parts, parts \in Seq(Seq(S)), NEW f, Joins(parts, S, f), NEW i \in 1 .. Len(parts)
    PROVE  Placed(parts, f, i)
  <1>1. PICK n \in Nat : n = Len(parts)
    BY LenProperties
  <1>2. \A j \in 1 .. n : parts[j] \in Seq(S)
    BY <1>1, ElementOfSeq
  <1>3. \A j \in 0 .. n : f[j] \in Seq(S) /\ Len(f[j]) \in Nat
    BY <1>1, LenProperties DEF Joins
  <1>4. \A j \in 1 .. n : /\ f[j] = f[j - 1] \o parts[j]
                          /\ Len(parts[j]) \in Nat
                          /\ Len(f[j]) = Len(f[j - 1]) + Len(parts[j])
                          /\ \A c \in 1 .. Len(f[j - 1]) : f[j][c] = f[j - 1][c]
                          /\ \A c \in 1 .. Len(parts[j]) : f[j][Len(f[j - 1]) + c] = parts[j][c]
    <2> SUFFICES ASSUME NEW j \in 1 .. n
                 PROVE  /\ f[j] = f[j - 1] \o parts[j]
                        /\ Len(parts[j]) \in Nat
                        /\ Len(f[j]) = Len(f[j - 1]) + Len(parts[j])
                        /\ \A c \in 1 .. Len(f[j - 1]) : f[j][c] = f[j - 1][c]
                        /\ \A c \in 1 .. Len(parts[j]) : f[j][Len(f[j - 1]) + c] = parts[j][c]
      OBVIOUS
    <2>1. j - 1 \in 0 .. n /\ f[j] = f[j - 1] \o parts[j]
      <3>1. j \in 1 .. Len(parts)
        BY <1>1
      <3>2. f[j] = f[j - 1] \o parts[j]
        BY <3>1 DEF Joins
      <3> QED BY <3>2
    <2>2. PICK a, b \in Seq(S) : a = f[j - 1] /\ b = parts[j]
      BY <1>2, <1>3, <2>1
    <2>3. /\ Len(a \o b) = Len(a) + Len(b) /\ Len(a) \in Nat /\ Len(b) \in Nat
          /\ \A c \in 1 .. Len(a) + Len(b) : (a \o b)[c] = IF c <= Len(a) THEN a[c] ELSE b[c - Len(a)]
      BY ConcatProperties, LenProperties
    <2>4. \A c \in 1 .. Len(a) : (a \o b)[c] = a[c]
      BY <2>3
    <2>5. \A c \in 1 .. Len(b) : (a \o b)[Len(a) + c] = b[c]
      <3> SUFFICES ASSUME NEW c \in 1 .. Len(b) PROVE (a \o b)[Len(a) + c] = b[c]
        OBVIOUS
      <3>1. Len(a) + c \in 1 .. Len(a) + Len(b) /\ ~(Len(a) + c <= Len(a)) /\ (Len(a) + c) - Len(a) = c
        BY <2>3
      <3> QED BY <2>3, <3>1
    <2> QED BY <2>1, <2>2, <2>3, <2>4, <2>5
  <1> DEFINE N == {j \in Nat : i <= j /\ j <= n => Len(f[i]) <= Len(f[j]) /\ \A c \in 1 .. Len(f[i]) : f[j][c] = f[i][c]}
  <1>5. 0 \in N
    BY <1>1
  <1>6. ASSUME NEW j \in Nat, j \in N PROVE j + 1 \in N
    <2> SUFFICES ASSUME i <= j + 1, j + 1 <= n
                 PROVE  Len(f[i]) <= Len(f[j + 1]) /\ \A c \in 1 .. Len(f[i]) : f[j + 1][c] = f[i][c]
      OBVIOUS
    <2>1. PICK k \in 1 .. n : k = j + 1
      OBVIOUS
    <2>2. k - 1 = j /\ j \in 0 .. n /\ i \in 0 .. n
      BY <1>1, <2>1
    <2>3. CASE i = k
      BY <1>3, <2>1, <2>2, <2>3
    <2>4. CASE i # k
      <3>1. Len(f[i]) <= Len(f[j]) /\ \A c \in 1 .. Len(f[i]) : f[j][c] = f[i][c]
        BY <1>1, <1>6, <2>1, <2>4
      <3>2. Len(f[k]) = Len(f[j]) + Len(parts[k]) /\ Len(parts[k]) \in Nat /\ \A c \in 1 .. Len(f[j]) : f[k][c] = f[j][c]
        BY <1>4, <2>2
      <3>3. Len(f[i]) \in Nat /\ Len(f[j]) \in Nat
        BY <1>3, <2>2
      <3>4. Len(f[i]) <= Len(f[k])
        <4>1. PICK a, b, d \in Nat : a = Len(f[i]) /\ b = Len(f[j]) /\ d = Len(parts[k])
          BY <3>2, <3>3
        <4>2. a <= b
          BY <3>1, <4>1
        <4>3. Len(f[k]) = Len(f[j]) + Len(parts[k])
          BY <3>2
        <4>4. Len(f[k]) = b + d
          BY <4>1, <4>3
        <4>5. PICK e \in Nat : e = b + d
          OBVIOUS
        <4>6. a <= e /\ Len(f[k]) = e
          BY <4>2, <4>4, <4>5
        <4> QED BY <4>1, <4>6
      <3>5. \A c \in 1 .. Len(f[i]) : c \in 1 .. Len(f[j])
        BY <3>1, <3>3
      <3>6. \A c \in 1 .. Len(f[i]) : f[k][c] = f[i][c]
        BY <3>1, <3>2, <3>5
      <3> QED BY <2>1, <3>4, <3>6
    <2> QED BY <2>3, <2>4
  <1>7. n \in N
    <2> HIDE DEF N
    <2> QED BY <1>5, <1>6, CountingUp
  <1>8. Len(f[i]) <= Len(f[n]) /\ \A c \in 1 .. Len(f[i]) : f[n][c] = f[i][c]
    BY <1>1, <1>7
  <1>9. i \in 1 .. n /\ i - 1 \in 0 .. n /\ i \in 0 .. n
    BY <1>1
  <1>10. /\ Len(f[i]) = Len(f[i - 1]) + Len(parts[i]) /\ Len(parts[i]) \in Nat
         /\ \A c \in 1 .. Len(parts[i]) : f[i][Len(f[i - 1]) + c] = parts[i][c]
    BY <1>4, <1>9
  <1>11. Len(f[i - 1]) \in Nat
    BY <1>3, <1>9
  <1>12. \A c \in 1 .. Len(parts[i]) : Len(f[i - 1]) + c \in 1 .. Len(f[i])
    <2>1. PICK a, d \in Nat : a = Len(f[i - 1]) /\ d = Len(parts[i])
      BY <1>10, <1>11
    <2>2. Len(f[i]) = a + d
      BY <1>10, <2>1
    <2>3. \A c \in 1 .. d : a + c \in 1 .. a + d
      OBVIOUS
    <2> QED BY <2>1, <2>2, <2>3
  <1>13. \A c \in 1 .. Len(parts[i]) : f[n][Len(f[i - 1]) + c] = parts[i][c]
    BY <1>8, <1>10, <1>12
  <1> QED BY <1>1, <1>8, <1>10, <1>11, <1>13 DEF Placed

-----------------------------------------------------------------------------
(* A command list.  Its packets lie one after another in the buffer, each  *)
(* laid out field after field; where a packet starts, Decode reads back    *)
(* its command and steps to its end, or to the buffer's end if the packet  *)
(* was cut short.                                                          *)

GpuCells == Nat \cup Opcodes \cup {"text"}

IsCommand(cmd) == cmd \in [op : Opcodes, args : Seq(Nat)] /\ Len(cmd.args) = Len(BuiltFields(cmd.op))

\* What the decoder's tables have in common with the builder's.
FieldsFit(op) ==
    /\ ReadFields(op) = BuiltFields(op)
    /\ BuiltFields(op) \in Seq({1, 2})
    /\ \A i \in 1 .. Len(BuiltFields(op)) :
         BuiltFields(op)[i] = 2 => i < Len(BuiltFields(op)) /\ BuiltFields(op)[i + 1] = 1
    /\ op \in Labelled \cup {"WaitFence", "SignalFence"} => Len(BuiltFields(op)) = 1

LEMMA FieldsAgree == \A op \in Opcodes : FieldsFit(op)
  <1> SUFFICES ASSUME NEW op \in Opcodes PROVE FieldsFit(op)
    OBVIOUS
  <1>1. CASE op \in {"Nop", "EndRenderPass", "PopDebugLabel", "End", "Bad"}
    <2>1. BuiltFields(op) = <<>> /\ ReadFields(op) = <<>>
      BY <1>1 DEF BuiltFields, ReadFields
    <2> QED BY <1>1, <2>1 DEF FieldsFit, Labelled
  <1>2. CASE op \in {"WaitFence", "SignalFence", "BeginRenderPass", "PushDebugLabel"}
    <2>1. BuiltFields(op) = <<1>> /\ ReadFields(op) = <<1>>
      BY <1>2 DEF BuiltFields, ReadFields
    <2> QED BY <1>2, <2>1 DEF FieldsFit, Labelled
  <1>3. CASE op \in {"SetRenderTarget"}
    <2>1. BuiltFields(op) = <<1, 2, 1, 1, 1, 1>> /\ ReadFields(op) = <<1, 2, 1, 1, 1, 1>>
      BY <1>3 DEF BuiltFields, ReadFields
    <2> QED BY <1>3, <2>1 DEF FieldsFit, Labelled
  <1>4. CASE op \in {"SetDepthTarget"}
    <2>1. BuiltFields(op) = <<2, 1, 1, 1>> /\ ReadFields(op) = <<2, 1, 1, 1>>
      BY <1>4 DEF BuiltFields, ReadFields
    <2> QED BY <1>4, <2>1 DEF FieldsFit, Labelled
  <1>5. CASE op \in {"Barrier"}
    <2>1. BuiltFields(op) = <<2, 1, 1>> /\ ReadFields(op) = <<2, 1, 1>>
      BY <1>5 DEF BuiltFields, ReadFields
    <2> QED BY <1>5, <2>1 DEF FieldsFit, Labelled
  <1>6. CASE op \in {"ClearColor", "DrawIndexed"}
    <2>1. BuiltFields(op) = <<1, 1, 1, 1, 1>> /\ ReadFields(op) = <<1, 1, 1, 1, 1>>
      BY <1>6 DEF BuiltFields, ReadFields
    <2> QED BY <1>6, <2>1 DEF FieldsFit, Labelled
  <1>7. CASE op \in {"DrawDirect", "SetScissor"}
    <2>1. BuiltFields(op) = <<1, 1, 1, 1>> /\ ReadFields(op) = <<1, 1, 1, 1>>
      BY <1>7 DEF BuiltFields, ReadFields
    <2> QED BY <1>7, <2>1 DEF FieldsFit, Labelled
  <1>8. CASE op \in {"SetViewport"}
    <2>1. BuiltFields(op) = <<1, 1, 1, 1, 1, 1>> /\ ReadFields(op) = <<1, 1, 1, 1, 1, 1>>
      BY <1>8 DEF BuiltFields, ReadFields
    <2> QED BY <1>8, <2>1 DEF FieldsFit, Labelled
  <1>9. CASE op \in {"ClearDepth"}
    <2>1. BuiltFields(op) = <<1, 1>> /\ ReadFields(op) = <<1, 1>>
      BY <1>9 DEF BuiltFields, ReadFields
    <2> QED BY <1>9, <2>1 DEF FieldsFit, Labelled
  <1>10. CASE op \in {"Dispatch"}
    <2>1. BuiltFields(op) = <<1, 1, 1>> /\ ReadFields(op) = <<1, 1, 1>>
      BY <1>10 DEF BuiltFields, ReadFields
    <2> QED BY <1>10, <2>1 DEF FieldsFit, Labelled
  <1> QED BY <1>1, <1>2, <1>3, <1>4, <1>5, <1>6, <1>7, <1>8, <1>9, <1>10 DEF Opcodes

LabelCells(cmd) == IF cmd.op \in Labelled THEN cmd.args[1] ELSE 0

\* p is the packet of cmd: field i stands after cell at[i - 1] and ends with at[i], the label follows.
LaidOut(cmd, p, at) ==
    /\ at \in [0 .. Len(cmd.args) -> Nat] /\ at[0] = 1
    /\ p \in Seq(GpuCells) /\ p[1] = cmd.op
    /\ \A i \in 1 .. Len(cmd.args) : /\ at[i] = at[i - 1] + BuiltFields(cmd.op)[i]
                                     /\ p[at[i - 1] + 1] = cmd.args[i]
                                     /\ at[i] <= Len(p)
    /\ LabelCells(cmd) \in Nat /\ Len(p) \in Nat
    /\ Len(p) = at[Len(cmd.args)] + LabelCells(cmd)

LEMMA PacketLaidOut ==
    ASSUME NEW cmd, IsCommand(cmd)
    PROVE  \E at : LaidOut(cmd, Packet(cmd), at)
  <1>0. PICK n \in Nat : n = Len(cmd.args)
    BY LenProperties DEF IsCommand
  <1>1. PICK w, a : n = Len(cmd.args) /\ w = BuiltFields(cmd.op) /\ a = cmd.args
    BY <1>0
  <1>2. /\ cmd.op \in Opcodes /\ FieldsFit(cmd.op)
        /\ \A i \in 1 .. n : w[i] \in {1, 2} /\ a[i] \in Nat
    BY <1>1, FieldsAgree, ElementOfSeq DEF IsCommand, FieldsFit
  <1>3. PICK cells : cells = [i \in 1 .. n |-> [k \in 1 .. w[i] |-> a[i]]]
    OBVIOUS
  <1>4. \A i \in 1 .. n : cells[i] \in Seq(GpuCells) /\ Len(cells[i]) = w[i] /\ cells[i][1] = a[i]
    <2> SUFFICES ASSUME NEW i \in 1 .. n
                 PROVE  cells[i] \in Seq(GpuCells) /\ Len(cells[i]) = w[i] /\ cells[i][1] = a[i]
      OBVIOUS
    <2>1. PICK m \in Nat : m = w[i]
      BY <1>2
    <2>2. m >= 1 /\ a[i] \in GpuCells
      BY <1>2, <2>1 DEF GpuCells
    <2>3. PICK s : s = [k \in 1 .. m |-> a[i]]
      OBVIOUS
    <2>4. s \in [1 .. m -> GpuCells] /\ s[1] = a[i]
      BY <2>2, <2>3
    <2>5. s \in Seq(GpuCells) /\ Len(s) = m
      BY <2>4, SeqDef, LenProperties
    <2> QED BY <1>3, <2>1, <2>3, <2>4, <2>5
  <1>5. cells \in Seq(Seq(GpuCells)) /\ Len(cells) = n
    <2>1. cells \in [1 .. n -> Seq(GpuCells)]
      BY <1>3, <1>4
    <2> QED BY <2>1, SeqDef, LenProperties
  <1>6. PICK f : Joins(cells, GpuCells, f) /\ Joined(cells) = f[n]
    BY <1>5, JoinedIs
  <1>7. \A i \in 0 .. n : f[i] \in Seq(GpuCells) /\ Len(f[i]) \in Nat
    BY <1>5, <1>6, LenProperties DEF Joins
  <1>8. \A i \in 1 .. n : Len(f[i]) = Len(f[i - 1]) + w[i] /\ Len(f[i]) <= Len(f[n]) /\ f[n][Len(f[i - 1]) + 1] = a[i]
    <2> SUFFICES ASSUME NEW i \in 1 .. n
                 PROVE  Len(f[i]) = Len(f[i - 1]) + w[i] /\ Len(f[i]) <= Len(f[n]) /\ f[n][Len(f[i - 1]) + 1] = a[i]
      OBVIOUS
    <2>1. i \in 1 .. Len(cells)
      BY <1>5
    <2>2. /\ Len(f[i]) = Len(f[i - 1]) + Len(cells[i])
          /\ Len(f[i]) <= Len(f[Len(cells)])
          /\ \A c \in 1 .. Len(cells[i]) : f[Len(cells)][Len(f[i - 1]) + c] = cells[i][c]
      <3>1. cells \in Seq(Seq(GpuCells)) /\ Joins(cells, GpuCells, f)
        BY <1>5, <1>6
      <3>2. Placed(cells, f, i)
        BY <2>1, <3>1, JoinsPlaces
      <3> QED BY <3>2 DEF Placed
    <2>3. Len(cells[i]) = w[i] /\ 1 \in 1 .. w[i] /\ cells[i][1] = a[i]
      BY <1>2, <1>4
    <2> QED BY <1>5, <2>2, <2>3
  <1>9. PICK l \in Nat : l = LabelCells(cmd)
    <2>1. CASE cmd.op \in Labelled
      <3>1. n = 1
        BY <1>1, <1>2, <2>1 DEF FieldsFit, IsCommand
      <3> QED BY <1>1, <1>2, <2>1, <3>1 DEF LabelCells
    <2> QED BY <2>1 DEF LabelCells
  <1>10. PICK label : label = [k \in 1 .. l |-> "text"]
    OBVIOUS
  <1>11. label \in Seq(GpuCells) /\ Len(label) = l
    <2>1. label \in [1 .. l -> GpuCells]
      BY <1>10 DEF GpuCells
    <2> QED BY <2>1, SeqDef, LenProperties
  <1>12. (IF cmd.op \in Labelled THEN [k \in 1 .. cmd.args[1] |-> "text"] ELSE <<>>) = label
    <2>1. CASE cmd.op \in Labelled
      BY <1>9, <1>10, <2>1 DEF LabelCells
    <2>2. CASE cmd.op \notin Labelled
      <3>1. l = 0
        BY <1>9, <2>2 DEF LabelCells
      <3>2. label = <<>>
        BY <1>11, <3>1, EmptySeq
      <3> QED BY <2>2, <3>2
    <2> QED BY <2>1, <2>2
  <1>13. PICK J, o \in Seq(GpuCells) : J = f[n] /\ o = <<cmd.op>>
    <2>1. f[n] \in Seq(GpuCells)
      BY <1>7
    <2>2. PICK x \in GpuCells : x = cmd.op
      BY <1>2 DEF GpuCells
    <2>3. <<x>> \in Seq(GpuCells)
      OBVIOUS
    <2> QED BY <2>1, <2>2, <2>3
  <1>14. Len(o) = 1 /\ o[1] = cmd.op /\ Len(J) \in Nat
    BY <1>13, LenProperties
  <1>15. PICK q \in Seq(GpuCells) : q = o \o J
    BY ConcatProperties
  <1>16. Len(q) = 1 + Len(J) /\ q[1] = cmd.op /\ \A c \in 1 .. Len(J) : q[1 + c] = J[c]
    <2>1. /\ Len(q) = 1 + Len(J)
          /\ \A c \in 1 .. 1 + Len(J) : q[c] = IF c <= 1 THEN o[c] ELSE J[c - 1]
      BY <1>14, <1>15, ConcatProperties
    <2>2. \A c \in 1 .. Len(J) : 1 + c \in 1 .. 1 + Len(J) /\ ~(1 + c <= 1) /\ (1 + c) - 1 = c
      BY <1>14
    <2>3. 1 \in 1 .. 1 + Len(J)
      BY <1>14
    <2> QED BY <1>14, <2>1, <2>2, <2>3
  <1>17. PICK p \in Seq(GpuCells) : p = q \o label
    BY <1>11, ConcatProperties
  <1>18. Len(p) = Len(q) + l /\ \A c \in 1 .. Len(q) : p[c] = q[c]
    <2>1. /\ Len(p) = Len(q) + Len(label) /\ Len(q) \in Nat
          /\ \A c \in 1 .. Len(q) + Len(label) : p[c] = IF c <= Len(q) THEN q[c] ELSE label[c - Len(q)]
      BY <1>11, <1>17, ConcatProperties, LenProperties
    <2>2. \A c \in 1 .. Len(q) : c \in 1 .. Len(q) + Len(label) /\ c <= Len(q)
      BY <1>11, <2>1
    <2> QED BY <1>11, <2>1, <2>2
  <1>19. Packet(cmd) = p
    <2>1. Joined([i \in 1 .. Len(cmd.args) |-> [k \in 1 .. BuiltFields(cmd.op)[i] |-> cmd.args[i]]]) = J
      BY <1>1, <1>3, <1>6, <1>13
    <2> QED BY <1>12, <1>13, <1>15, <1>17, <2>1 DEF Packet
  <1>20. PICK at : at = [i \in 0 .. n |-> 1 + Len(f[i])]
    OBVIOUS
  <1>21. at \in [0 .. n -> Nat] /\ at[0] = 1
    <2>1. f[0] = <<>> /\ Len(<<>>) = 0
      BY <1>6 DEF Joins
    <2> QED BY <1>7, <1>20, <2>1
  <1>22. \A i \in 1 .. n : at[i] = at[i - 1] + w[i] /\ p[at[i - 1] + 1] = a[i] /\ at[i] <= Len(p)
    <2> SUFFICES ASSUME NEW i \in 1 .. n
                 PROVE  at[i] = at[i - 1] + w[i] /\ p[at[i - 1] + 1] = a[i] /\ at[i] <= Len(p)
      OBVIOUS
    <2>1. PICK b, d, e, v \in Nat : b = Len(f[i - 1]) /\ d = Len(f[i]) /\ e = Len(J) /\ v = w[i]
      <3>1. i - 1 \in 0 .. n /\ i \in 0 .. n
        OBVIOUS
      <3> QED BY <1>2, <1>7, <1>14, <3>1
    <2>2. at[i] = 1 + d /\ at[i - 1] = 1 + b
      BY <1>20, <2>1
    <2>3. d = b + v /\ d <= e /\ J[b + 1] = a[i] /\ v >= 1
      <3>1. Len(f[i]) = Len(f[i - 1]) + w[i] /\ Len(f[i]) <= Len(J) /\ J[Len(f[i - 1]) + 1] = a[i]
        BY <1>8, <1>13
      <3>2. w[i] >= 1
        BY <1>2
      <3>3. d = b + v /\ d <= e /\ v >= 1
        BY <2>1, <3>1, <3>2
      <3>4. J[b + 1] = a[i]
        BY <2>1, <3>1
      <3> QED BY <3>3, <3>4
    <2>4. b + 1 \in 1 .. e /\ 1 + (b + 1) = (1 + b) + 1 /\ 1 + (b + 1) \in 1 .. 1 + e
      BY <2>3
    <2>5. Len(q) = 1 + e /\ q[1 + (b + 1)] = J[b + 1]
      BY <1>16, <2>1, <2>4
    <2>6. Len(p) = (1 + e) + l /\ p[1 + (b + 1)] = q[1 + (b + 1)]
      BY <1>18, <2>4, <2>5
    <2>7. 1 + d = (1 + b) + v /\ 1 + d <= (1 + e) + l
      <3>1. d = b + v /\ d <= e
        BY <2>3
      <3>2. 1 + d <= 1 + e /\ 1 + e <= (1 + e) + l
        BY <3>1
      <3> QED BY <3>1, <3>2
    <2> QED BY <2>1, <2>2, <2>3, <2>4, <2>5, <2>6, <2>7
  <1>23. Len(p) = at[n] + l /\ p[1] = cmd.op /\ Len(p) \in Nat
    <2>1. PICK e \in Nat : e = Len(J)
      BY <1>14
    <2>2. Len(q) = 1 + e /\ Len(p) = (1 + e) + l /\ at[n] = 1 + e
      BY <1>13, <1>16, <1>18, <1>20, <2>1
    <2>3. 1 \in 1 .. 1 + e
      OBVIOUS
    <2>4. p[1] = q[1]
      BY <1>18, <2>2, <2>3
    <2>5. (1 + e) + l \in Nat
      OBVIOUS
    <2> QED BY <1>16, <2>2, <2>4, <2>5
  <1> QED BY <1>1, <1>9, <1>17, <1>19, <1>21, <1>22, <1>23 DEF LaidOut

\* Where the reading of a packet stands.
ReadStates == [pos : Nat, args : Seq(GpuCells)]

\* g is the recursion of Decode, and the packet it reads.
Reads(buf, pos, w, g) ==
    /\ g \in [0 .. Len(w) -> ReadStates]
    /\ g[0] = [pos |-> pos + 1, args |-> <<>>]
    /\ \A i \in 1 .. Len(w) : g[i] = ReadVal(buf, g[i - 1], w[i])

DecodedAs(buf, pos, op, r) ==
    Decode(buf, pos) = [cmd |-> [op |-> op, args |-> r.args],
                        pos |-> IF op \in Labelled
                                THEN r.pos + (IF r.args[1] \in 0 .. Len(buf) - r.pos THEN r.args[1] ELSE Len(buf) - r.pos)
                                ELSE r.pos]

LEMMA ReadValTyped ==
    ASSUME NEW buf \in Seq(GpuCells), NEW acc \in ReadStates, NEW w \in {1, 2}
    PROVE  /\ ReadVal(buf, acc, w) \in ReadStates
           /\ LET r == ReadVal(buf, acc, w)
              IN  /\ r.pos = IF acc.pos + w <= Len(buf) THEN acc.pos + w ELSE acc.pos
                  /\ r.args = Append(acc.args, IF acc.pos + w <= Len(buf) THEN buf[acc.pos + 1] ELSE 0)
  <1>1. PICK n, m \in Nat : n = acc.pos /\ m = Len(buf)
    BY LenProperties DEF ReadStates
  <1>2. acc.args \in Seq(GpuCells)
    BY DEF ReadStates
  <1>3. CASE n + w <= m
    <2>1. n + 1 \in 1 .. m /\ n + w \in Nat
      BY <1>3
    <2>2. buf[n + 1] \in GpuCells
      BY <1>1, <2>1, ElementOfSeq
    <2>3. Append(acc.args, buf[n + 1]) \in Seq(GpuCells)
      BY <1>2, <2>2, AppendProperties
    <2> QED BY <1>1, <1>3, <2>1, <2>3 DEF ReadVal, ReadStates
  <1>4. CASE ~(n + w <= m)
    <2>1. 0 \in GpuCells
      BY DEF GpuCells
    <2>2. Append(acc.args, 0) \in Seq(GpuCells)
      BY <1>2, <2>1, AppendProperties
    <2> QED BY <1>1, <1>4, <2>2 DEF ReadVal, ReadStates
  <1> QED BY <1>3, <1>4

LEMMA DecodeReads ==
    ASSUME NEW buf \in Seq(GpuCells), NEW pos \in Nat, NEW op, op = buf[pos + 1],
           NEW w, w = ReadFields(op), w \in Seq({1, 2})
    PROVE  \E g : Reads(buf, pos, w, g) /\ DecodedAs(buf, pos, op, g[Len(w)])
  <1>1. PICK n \in Nat : n = Len(w)
    BY LenProperties
  <1>2. \A i \in 1 .. n : w[i] \in {1, 2}
    BY <1>1, ElementOfSeq
  <1>3. PICK step : step = [i \in 1 .. n |-> [acc \in ReadStates |-> ReadVal(buf, acc, w[i])]]
    OBVIOUS
  <1>4. StepsIn(ReadStates, step, n)
    <2>1. \A i \in 1 .. n : \A acc \in ReadStates : ReadVal(buf, acc, w[i]) \in ReadStates
      BY <1>2, ReadValTyped
    <2> QED BY <1>3, <2>1 DEF StepsIn
  <1>5. PICK x \in ReadStates : x = [pos |-> pos + 1, args |-> <<>>]
    <2>1. PICK e \in Seq(GpuCells) : e = <<>>
      BY EmptySeq
    <2>2. pos + 1 \in Nat
      OBVIOUS
    <2>3. [pos |-> pos + 1, args |-> e] \in ReadStates
      BY <2>2 DEF ReadStates
    <2> QED BY <2>1, <2>3
  <1>6. PICK f : Recursion(ReadStates, x, step, n, f)
    BY <1>4, RecursionExists
  <1>7. f \in [0 .. n -> ReadStates] /\ f[0] = x /\ \A i \in 1 .. n : f[i] = step[i][f[i - 1]]
    BY <1>6 DEF Recursion
  <1>8. \A i \in 1 .. n : i - 1 \in 0 .. n /\ f[i - 1] \in ReadStates
    BY <1>7
  <1>9. \A i \in 1 .. n : f[i] = ReadVal(buf, f[i - 1], w[i])
    BY <1>3, <1>7, <1>8
  <1>10. \A i \in 0 .. n : f[i] = IF i = 0 THEN [pos |-> pos + 1, args |-> <<>>] ELSE ReadVal(buf, f[i - 1], w[i])
    <2>1. \A i \in 0 .. n : i = 0 \/ i \in 1 .. n
      OBVIOUS
    <2> QED BY <1>5, <1>7, <1>9, <2>1
  <1>11. f = [i \in 0 .. n |-> IF i = 0 THEN [pos |-> pos + 1, args |-> <<>>] ELSE ReadVal(buf, f[i - 1], w[i])]
    BY <1>7, <1>10
  <1> DEFINE g == CHOOSE h : h = [i \in 0 .. Len(ReadFields(buf[pos + 1])) |->
                                     IF i = 0 THEN [pos |-> pos + 1, args |-> <<>>]
                                     ELSE ReadVal(buf, h[i - 1], ReadFields(buf[pos + 1])[i])]
  <1>12. g = [i \in 0 .. n |-> IF i = 0 THEN [pos |-> pos + 1, args |-> <<>>] ELSE ReadVal(buf, g[i - 1], w[i])]
    <2>1. \E h : h = [i \in 0 .. Len(ReadFields(buf[pos + 1])) |->
                        IF i = 0 THEN [pos |-> pos + 1, args |-> <<>>]
                        ELSE ReadVal(buf, h[i - 1], ReadFields(buf[pos + 1])[i])]
      BY <1>1, <1>11
    <2>2. g = [i \in 0 .. Len(ReadFields(buf[pos + 1])) |->
                 IF i = 0 THEN [pos |-> pos + 1, args |-> <<>>]
                 ELSE ReadVal(buf, g[i - 1], ReadFields(buf[pos + 1])[i])]
      BY <2>1
    <2> QED BY <1>1, <2>2
  <1>13. DecodedAs(buf, pos, op, g[n])
    BY <1>1 DEF Decode, DecodedAs
  <1> HIDE DEF g
  <1> DEFINE N == {m \in Nat : m <= n => g[m] = f[m]}
  <1>14. 0 \in N
    BY <1>10, <1>12
  <1>15. ASSUME NEW m \in Nat, m \in N PROVE m + 1 \in N
    <2> SUFFICES ASSUME m + 1 <= n PROVE g[m + 1] = f[m + 1]
      OBVIOUS
    <2>1. m <= n /\ m + 1 \in 1 .. n /\ m + 1 \in 0 .. n /\ m + 1 # 0 /\ (m + 1) - 1 = m
      OBVIOUS
    <2>2. g[m + 1] = ReadVal(buf, g[m], w[m + 1])
      BY <1>12, <2>1
    <2>3. f[m + 1] = ReadVal(buf, f[m], w[m + 1])
      BY <1>9, <2>1
    <2>4. g[m] = f[m]
      BY <1>15, <2>1
    <2> QED BY <2>2, <2>3, <2>4
  <1>16. n \in N
    <2> HIDE DEF N
    <2> QED BY <1>14, <1>15, CountingUp
  <1>17. g[n] = f[n]
    BY <1>16
  <1>18. Reads(buf, pos, w, f)
    BY <1>1, <1>5, <1>7, <1>9 DEF Reads
  <1> QED BY <1>1, <1>13, <1>17, <1>18

\* buf has the packet p of cmd at pos, up to where it ends.
Standing(buf, pos, p) ==
    /\ buf \in Seq(GpuCells) /\ pos \in Nat /\ pos < Len(buf)
    /\ \A c \in 1 .. Len(p) : pos + c <= Len(buf) => buf[pos + c] = p[c]

\* After i fields: the operands as they were built while they are whole, the end
\* of the buffer, or the last cell before it, once one is not.
ReadSoFar(cmd, at, buf, pos, i, r) ==
    /\ r \in ReadStates /\ Len(r.args) = i
    /\ i >= 1 => r.args[1] \in Nat
    /\ pos + at[i] <= Len(buf) => r.pos = pos + at[i] /\ \A j \in 1 .. i : r.args[j] = cmd.args[j]
    /\ pos + at[i] > Len(buf) => \/ r.pos = Len(buf)
                                 \/ r.pos = Len(buf) - 1 /\ i >= 1 /\ BuiltFields(cmd.op)[i] = 2

LEMMA OneFieldRead ==
    ASSUME NEW cmd, IsCommand(cmd), NEW p, NEW at, LaidOut(cmd, p, at), NEW buf, NEW pos, Standing(buf, pos, p),
           NEW i \in 1 .. Len(cmd.args), NEW r, ReadSoFar(cmd, at, buf, pos, i - 1, r)
    PROVE  ReadSoFar(cmd, at, buf, pos, i, ReadVal(buf, r, BuiltFields(cmd.op)[i]))
  <1>0. PICK n \in Nat : n = Len(cmd.args)
    BY LenProperties DEF IsCommand
  <1>1. PICK w, a : n = Len(cmd.args) /\ w = BuiltFields(cmd.op) /\ a = cmd.args
    BY <1>0
  <1>2. /\ cmd.op \in Opcodes /\ FieldsFit(cmd.op)
        /\ \A j \in 1 .. n : w[j] \in {1, 2} /\ a[j] \in Nat
    BY <1>1, FieldsAgree, ElementOfSeq DEF IsCommand, FieldsFit
  <1>3. i \in 1 .. n /\ i - 1 \in 0 .. n /\ i \in 0 .. n
    BY <1>1
  <1>4. PICK d, e, m \in Nat : d = at[i - 1] /\ e = at[i] /\ m = Len(buf)
    BY <1>1, <1>3, LenProperties DEF LaidOut, Standing
  <1>5. PICK v \in {1, 2} : v = w[i]
    BY <1>2, <1>3
  <1>6. e = d + v /\ p[d + 1] = a[i] /\ e <= Len(p) /\ Len(p) \in Nat
    BY <1>1, <1>3, <1>4, <1>5 DEF LaidOut
  <1>7. pos \in Nat /\ buf \in Seq(GpuCells)
    BY DEF Standing
  <1>8. PICK k \in Nat : k = i - 1
    BY <1>3
  <1>9. PICK rp \in Nat, ra \in Seq(GpuCells) : rp = r.pos /\ ra = r.args
    BY DEF ReadSoFar, ReadStates
  <1>10. /\ r \in ReadStates /\ Len(ra) = k
         /\ k >= 1 => ra[1] \in Nat
         /\ pos + d <= m => rp = pos + d /\ \A j \in 1 .. k : ra[j] = a[j]
         /\ pos + d > m => rp = m \/ (rp = m - 1 /\ k >= 1 /\ w[k] = 2)
    BY <1>1, <1>4, <1>8, <1>9 DEF ReadSoFar
  <1>11. /\ e = d + v /\ pos \in Nat
         /\ pos + d <= m => rp = pos + d
         /\ pos + d > m => rp = m \/ (rp = m - 1 /\ k >= 1 /\ w[k] = 2)
    BY <1>6, <1>7, <1>10
  <1>12. PICK x : x = IF rp + v <= m THEN buf[rp + 1] ELSE 0
    OBVIOUS
  <1>13. PICK q : q = ReadVal(buf, r, v)
    OBVIOUS
  <1>14. /\ q \in ReadStates
         /\ q.pos = IF rp + v <= m THEN rp + v ELSE rp
         /\ q.args = Append(ra, x)
    BY <1>4, <1>7, <1>9, <1>10, <1>12, <1>13, ReadValTyped
  <1>15. x \in GpuCells
    <2>1. CASE rp + v <= m
      <3>1. rp + 1 \in 1 .. m
        BY <2>1
      <3> QED BY <1>4, <1>7, <1>12, <2>1, <3>1, ElementOfSeq
    <2>2. CASE ~(rp + v <= m)
      BY <1>12, <2>2 DEF GpuCells
    <2> QED BY <2>1, <2>2
  <1>16. Len(q.args) = k + 1 /\ q.args[k + 1] = x /\ \A j \in 1 .. k : q.args[j] = ra[j]
    BY <1>10, <1>14, <1>15, AppendProperties
  <1>17. k + 1 = i /\ i = k + 1
    BY <1>8
  <1>18. CASE pos + e <= m
    <2>1. pos + d <= m /\ rp = pos + d /\ rp + v = pos + e /\ rp + v <= m
      BY <1>11, <1>18
    <2>2. x = a[i]
      <3>1. x = buf[rp + 1]
        BY <1>12, <2>1
      <3>2. d + 1 \in 1 .. Len(p) /\ pos + (d + 1) <= m /\ rp + 1 = pos + (d + 1)
        <4>1. d + 1 <= e
          BY <1>11
        <4>2. d + 1 \in 1 .. Len(p)
          BY <1>6, <4>1
        <4>3. pos + (d + 1) <= m /\ rp + 1 = pos + (d + 1)
          BY <1>18, <1>11, <2>1, <4>1
        <4> QED BY <4>2, <4>3
      <3>3. buf[pos + (d + 1)] = p[d + 1]
        BY <1>4, <3>2 DEF Standing
      <3> QED BY <1>6, <3>1, <3>2, <3>3
    <2>3. \A j \in 1 .. i : q.args[j] = a[j]
      <3>1. \A j \in 1 .. i : j \in 1 .. k \/ j = k + 1
        BY <1>8
      <3> QED BY <1>10, <1>16, <1>17, <2>1, <2>2, <3>1
    <2>4. q.args[1] \in Nat
      <3>1. 1 \in 1 .. i /\ 1 \in 1 .. n
        BY <1>3
      <3> QED BY <1>2, <2>3, <3>1
    <2>5. q.pos = pos + e
      BY <1>14, <2>1
    <2>6. Len(q.args) = i
      BY <1>16, <1>17
    <2>7. /\ pos + at[i] <= Len(buf) => q.pos = pos + at[i] /\ \A j \in 1 .. i : q.args[j] = cmd.args[j]
          /\ ~(pos + at[i] > Len(buf))
      <3>1. pos + e <= m /\ ~(pos + e > m)
        BY <1>6, <1>7, <1>18
      <3> QED BY <1>1, <1>4, <2>3, <2>5, <3>1
    <2>8. ReadSoFar(cmd, at, buf, pos, i, q)
      BY <1>14, <2>4, <2>6, <2>7 DEF ReadSoFar
    <2> QED BY <1>1, <1>5, <1>13, <2>8
  <1>19. CASE pos + e > m
    <2>1. q.args[1] \in Nat
      <3>1. CASE k = 0
        <4>1. d = 1
          BY <1>4, <1>8, <3>1 DEF LaidOut
        <4>2. pos + d <= m
          BY <1>4, <4>1 DEF Standing
        <4>3. ~(rp + v <= m)
          BY <1>11, <1>19, <4>2
        <4>4. x = 0
          BY <1>12, <4>3
        <4>5. k + 1 = 1
          BY <3>1
        <4> QED BY <1>16, <4>4, <4>5
      <3>2. CASE k # 0
        <4>1. k >= 1 /\ 1 \in 1 .. k
          BY <3>2
        <4> QED BY <1>10, <1>16, <4>1
      <3> QED BY <3>1, <3>2
    <2>2. q.pos = m \/ (q.pos = m - 1 /\ w[i] = 2)
      <3>1. CASE pos + d <= m
        <4>1. rp = pos + d /\ rp + v > m /\ rp <= m
          BY <1>11, <1>19, <3>1
        <4>2. q.pos = rp
          BY <1>14, <4>1
        <4>3. v = 1 \/ v = 2
          OBVIOUS
        <4>4. rp = m \/ (rp = m - 1 /\ v = 2)
          BY <4>1, <4>3
        <4> QED BY <1>5, <4>2, <4>4
      <3>2. CASE pos + d > m /\ rp = m
        <4>1. ~(rp + v <= m)
          BY <3>2
        <4> QED BY <1>14, <3>2, <4>1
      <3>3. CASE pos + d > m /\ rp = m - 1 /\ k >= 1 /\ w[k] = 2
        <4>1. k \in 1 .. Len(BuiltFields(cmd.op))
          BY <1>1, <1>3, <1>8, <3>3 DEF IsCommand
        <4>2. w[k + 1] = 1
          BY <1>1, <1>2, <3>3, <4>1 DEF FieldsFit
        <4>3. v = 1
          BY <1>5, <1>17, <4>2
        <4>4. rp + v <= m /\ rp + v = m
          BY <3>3, <4>3
        <4>5. q.pos = rp + v
          BY <1>14, <4>4
        <4> QED BY <4>4, <4>5
      <3>4. pos + d <= m \/ pos + d > m
        BY <1>11
      <3> QED BY <1>11, <3>1, <3>2, <3>3, <3>4
    <2>3. ~(pos + e <= m)
      BY <1>7, <1>19
    <2>4. i >= 1
      BY <1>3
    <2>5. ReadSoFar(cmd, at, buf, pos, i, q)
      BY <1>1, <1>4, <1>14, <1>16, <1>17, <1>19, <2>1, <2>2, <2>3, <2>4 DEF ReadSoFar
    <2> QED BY <1>1, <1>5, <1>13, <2>5
  <1>20. pos + e <= m \/ pos + e > m
    BY <1>7
  <1> QED BY <1>18, <1>19, <1>20

LEMMA FieldsRead ==
    ASSUME NEW cmd, IsCommand(cmd), NEW p, NEW at, LaidOut(cmd, p, at), NEW buf, NEW pos, Standing(buf, pos, p),
           NEW g, Reads(buf, pos, BuiltFields(cmd.op), g)
    PROVE  ReadSoFar(cmd, at, buf, pos, Len(cmd.args), g[Len(cmd.args)])
  <1>0. PICK n \in Nat : n = Len(cmd.args)
    BY LenProperties DEF IsCommand
  <1>1. PICK w : n = Len(cmd.args) /\ w = BuiltFields(cmd.op) /\ Len(w) = n
    BY <1>0, FieldsAgree DEF IsCommand, FieldsFit
  <1>2. /\ g \in [0 .. n -> ReadStates] /\ g[0] = [pos |-> pos + 1, args |-> <<>>]
        /\ \A i \in 1 .. n : g[i] = ReadVal(buf, g[i - 1], w[i])
    BY <1>1 DEF Reads
  <1> DEFINE N == {i \in Nat : i <= n => ReadSoFar(cmd, at, buf, pos, i, g[i])}
  <1>3. 0 \in N
    <2>1. g[0] \in ReadStates /\ g[0].pos = pos + 1 /\ g[0].args = <<>> /\ Len(<<>>) = 0
      BY <1>2
    <2>2. at[0] = 1
      BY DEF LaidOut
    <2>3. pos + 1 <= Len(buf) /\ ~(pos + 1 > Len(buf))
      <3>1. pos \in Nat /\ Len(buf) \in Nat /\ pos < Len(buf)
        BY LenProperties DEF Standing
      <3> QED BY <3>1
    <2>4. ReadSoFar(cmd, at, buf, pos, 0, g[0])
      BY <2>1, <2>2, <2>3 DEF ReadSoFar
    <2> QED BY <2>4
  <1>4. ASSUME NEW i \in Nat, i \in N PROVE i + 1 \in N
    <2> SUFFICES ASSUME i + 1 <= n PROVE ReadSoFar(cmd, at, buf, pos, i + 1, g[i + 1])
      OBVIOUS
    <2>1. PICK k \in 1 .. n : k = i + 1
      OBVIOUS
    <2>2. i <= n /\ k - 1 = i /\ k \in 1 .. Len(cmd.args)
      BY <1>1, <2>1
    <2>3. ReadSoFar(cmd, at, buf, pos, k - 1, g[i])
      BY <1>4, <2>2
    <2>4. ReadSoFar(cmd, at, buf, pos, k, ReadVal(buf, g[i], BuiltFields(cmd.op)[k]))
      BY <2>2, <2>3, OneFieldRead
    <2>5. g[k] = ReadVal(buf, g[i], BuiltFields(cmd.op)[k])
      BY <1>1, <1>2, <2>2
    <2> QED BY <2>1, <2>4, <2>5
  <1>5. n \in N
    <2> HIDE DEF N
    <2> QED BY <1>3, <1>4, CountingUp
  <1>6. n <= n
    OBVIOUS
  <1> QED BY <1>1, <1>5, <1>6

DoneCommands == [op : Opcodes, args : Seq(GpuCells)]

\* What Decode makes of a packet that is whole, and of one cut short.
DecodedRight(cmd, d, buf, pos, cells) ==
    /\ d.cmd \in DoneCommands /\ d.cmd.op = cmd.op
    /\ cmd.op \in {"WaitFence", "SignalFence"} => d.cmd.args[1] \in Nat
    /\ pos + cells <= Len(buf) => d.cmd = cmd /\ d.pos = pos + cells
    /\ pos + cells > Len(buf) => d.pos = Len(buf)

LEMMA DecodesPacket ==
    ASSUME NEW cmd, IsCommand(cmd), NEW p, NEW at, LaidOut(cmd, p, at), NEW buf, NEW pos, Standing(buf, pos, p)
    PROVE  DecodedRight(cmd, Decode(buf, pos), buf, pos, Len(p)) /\ buf[pos + 1] = cmd.op
  <1>0. PICK n \in Nat : n = Len(cmd.args)
    BY LenProperties DEF IsCommand
  <1>1. PICK w, a, op : n = Len(cmd.args) /\ w = BuiltFields(cmd.op) /\ a = cmd.args /\ op = cmd.op /\ Len(w) = n
    BY <1>0, FieldsAgree DEF IsCommand, FieldsFit
  <1>2. op \in Opcodes /\ FieldsFit(op) /\ w = ReadFields(op) /\ w \in Seq({1, 2})
    BY <1>1, FieldsAgree DEF IsCommand, FieldsFit
  <1>3. PICK e, m, l, s \in Nat : e = at[n] /\ m = Len(buf) /\ l = LabelCells(cmd) /\ s = Len(p)
    <2>1. n \in 0 .. n
      OBVIOUS
    <2>2. at[n] \in Nat /\ LabelCells(cmd) \in Nat /\ Len(p) \in Nat
      BY <1>1, <2>1 DEF LaidOut
    <2>3. Len(buf) \in Nat
      BY LenProperties DEF Standing
    <2> QED BY <2>2, <2>3
  <1>4. s = e + l
    BY <1>1, <1>3 DEF LaidOut
  <1>5. e >= 1
    <2>1. CASE n = 0
      BY <1>1, <1>3, <2>1 DEF LaidOut
    <2>2. CASE n # 0
      <3>1. n \in 1 .. n /\ n - 1 \in 0 .. n
        BY <2>2
      <3>2. at[n] = at[n - 1] + w[n] /\ at[n - 1] \in Nat /\ w[n] \in {1, 2}
        BY <1>1, <1>2, <3>1, ElementOfSeq DEF LaidOut
      <3> QED BY <1>3, <3>2
    <2> QED BY <2>1, <2>2
  <1>6. buf \in Seq(GpuCells) /\ pos \in Nat /\ pos < m
    BY <1>3 DEF Standing
  <1>7. buf[pos + 1] = op
    <2>1. 1 \in 1 .. Len(p) /\ pos + 1 <= Len(buf)
      BY <1>3, <1>4, <1>5, <1>6
    <2> QED BY <1>1, <2>1 DEF LaidOut, Standing
  <1>8. PICK g : Reads(buf, pos, w, g) /\ DecodedAs(buf, pos, op, g[Len(w)])
    BY <1>2, <1>6, <1>7, DecodeReads
  <1>9. PICK r : r = g[n]
    OBVIOUS
  <1>10. ReadSoFar(cmd, at, buf, pos, n, r)
    <2>1. Reads(buf, pos, BuiltFields(cmd.op), g)
      BY <1>1, <1>8
    <2> QED BY <1>1, <1>9, <2>1, FieldsRead
  <1>11. PICK d : d = Decode(buf, pos)
    OBVIOUS
  <1>12. PICK rp \in Nat, ra \in Seq(GpuCells) : rp = r.pos /\ ra = r.args
    BY <1>10 DEF ReadSoFar, ReadStates
  <1>13. /\ Len(ra) = n
         /\ n >= 1 => ra[1] \in Nat
         /\ pos + e <= m => rp = pos + e /\ \A j \in 1 .. n : ra[j] = a[j]
    BY <1>1, <1>3, <1>10, <1>12 DEF ReadSoFar
  <1>14. pos + e > m => rp = m
    <2>1. pos + e > m => rp = m \/ (n >= 1 /\ w[n] = 2)
      BY <1>1, <1>3, <1>10, <1>12 DEF ReadSoFar
    <2>2. ~(n >= 1 /\ w[n] = 2)
      <3> SUFFICES ASSUME n >= 1, w[n] = 2 PROVE FALSE
        OBVIOUS
      <3>1. n \in 1 .. Len(BuiltFields(op)) /\ BuiltFields(op)[n] = 2
        BY <1>1
      <3>2. n < Len(BuiltFields(op))
        BY <1>2, <3>1 DEF FieldsFit
      <3> QED BY <1>1, <3>2
    <2> QED BY <2>1, <2>2
  <1>15. /\ d.cmd = [op |-> op, args |-> ra]
         /\ d.pos = IF op \in Labelled THEN rp + (IF ra[1] \in 0 .. m - rp THEN ra[1] ELSE m - rp) ELSE rp
    BY <1>1, <1>3, <1>8, <1>9, <1>11, <1>12 DEF DecodedAs
  <1>16. op \in Labelled \cup {"WaitFence", "SignalFence"} => n = 1 /\ ra[1] \in Nat
    BY <1>1, <1>2, <1>13 DEF FieldsFit
  <1>17. pos + e <= m => ra = a
    <2> SUFFICES ASSUME pos + e <= m PROVE ra = a
      OBVIOUS
    <2>1. ra = [i \in 1 .. n |-> ra[i]]
      BY <1>13, LenProperties
    <2>2. a = [i \in 1 .. n |-> a[i]]
      <3>1. a \in Seq(Nat) /\ Len(a) = n
        BY <1>1 DEF IsCommand
      <3> QED BY <3>1, LenProperties
    <2> QED BY <1>13, <2>1, <2>2
  <1>18. op \in Labelled /\ pos + e <= m => ra[1] = l
    BY <1>1, <1>3, <1>17 DEF LabelCells
  <1>19. op \notin Labelled => l = 0
    BY <1>1, <1>3 DEF LabelCells
  <1>20. pos + s <= m => d.cmd = cmd /\ d.pos = pos + s
    <2> SUFFICES ASSUME pos + s <= m PROVE d.cmd = cmd /\ d.pos = pos + s
      OBVIOUS
    <2>1. pos + e <= m
      BY <1>4, <1>6
    <2>2. ra = a /\ rp = pos + e
      BY <1>13, <1>17, <2>1
    <2>3. cmd = [op |-> op, args |-> a]
      BY <1>1 DEF IsCommand
    <2>4. d.pos = pos + s
      <3>1. CASE op \in Labelled
        <4>1. ra[1] = l
          BY <1>18, <2>1, <3>1
        <4>2. l \in 0 .. m - rp /\ rp + l = pos + s
          BY <1>4, <1>6, <2>2
        <4> QED BY <1>15, <3>1, <4>1, <4>2
      <3>2. CASE op \notin Labelled
        <4>1. d.pos = rp /\ l = 0
          BY <1>15, <1>19, <3>2
        <4> QED BY <1>4, <1>6, <2>2, <4>1
      <3> QED BY <3>1, <3>2
    <2> QED BY <1>15, <2>2, <2>3, <2>4
  <1>21. pos + s > m => d.pos = m
    <2> SUFFICES ASSUME pos + s > m PROVE d.pos = m
      OBVIOUS
    <2>1. CASE pos + e > m
      <3>1. rp = m
        BY <1>14, <2>1
      <3>2. CASE op \in Labelled
        <4>1. PICK x \in Nat : x = ra[1]
          BY <1>16, <3>2
        <4>2. d.pos = rp + (IF x \in 0 .. m - rp THEN x ELSE m - rp)
          BY <1>15, <3>2, <4>1
        <4>3. m - rp = 0 /\ (x \in 0 .. 0 => x = 0)
          BY <3>1
        <4>4. (IF x \in 0 .. m - rp THEN x ELSE m - rp) = 0
          BY <4>3
        <4> QED BY <3>1, <4>2, <4>4
      <3>3. CASE op \notin Labelled
        BY <1>15, <3>1, <3>3
      <3> QED BY <3>2, <3>3
    <2>2. CASE pos + e <= m
      <3>1. op \in Labelled
        BY <1>4, <1>6, <1>19, <2>2
      <3>2. ra[1] = l /\ rp = pos + e
        BY <1>13, <1>18, <2>2, <3>1
      <3>3. l \notin 0 .. m - rp /\ rp + (m - rp) = m
        BY <1>4, <1>6, <3>2
      <3> QED BY <1>15, <3>1, <3>2, <3>3
    <2>3. pos + e > m \/ pos + e <= m
      BY <1>6
    <2> QED BY <2>1, <2>2, <2>3
  <1>22. d.cmd.op = op /\ (op \in {"WaitFence", "SignalFence"} => d.cmd.args[1] \in Nat)
    BY <1>15, <1>16
  <1>23. d.cmd \in DoneCommands
    BY <1>2, <1>12, <1>15 DEF DoneCommands
  <1> QED BY <1>1, <1>3, <1>7, <1>11, <1>20, <1>21, <1>22, <1>23 DEF DecodedRight

USE GlBounds DEF GlBounds

Packets(list) == [i \in 1 .. Len(list) |-> Packet(list[i])]

\* The buffer is the front of the built list, all of it unless it was cut.
FrontOf(list, cut, buf, f) ==
    /\ Joins(Packets(list), GpuCells, f)
    /\ buf \in Seq(GpuCells) /\ Len(buf) <= Len(f[Len(list)])
    /\ \A c \in 1 .. Len(buf) : buf[c] = f[Len(list)][c]
    /\ cut \/ Len(buf) = Len(f[Len(list)])

\* The first k commands were carried out, the last of them perhaps from a packet cut short.
CarriedOut(list, cut, buf, pos, done, f) ==
    /\ Len(done) <= Len(list)
    /\ \A i \in 1 .. Len(done) : i < Len(done) => done[i] = list[i]
    /\ \/ /\ pos = Len(f[Len(done)]) /\ pos <= Len(buf)
          /\ Len(done) >= 1 => done[Len(done)] = list[Len(done)]
       \/ cut /\ Len(done) >= 1 /\ pos = Len(buf) /\ done[Len(done)].op = list[Len(done)].op

Carried(w) == \E f : FrontOf(w.list, w.cut, w.buf, f) /\ CarriedOut(w.list, w.cut, w.buf, w.pos, w.done, f)

WorkPcs == {"idle", "packet", "find", "peek", "lock", "doze", "asleep", "set", "notify", "woken"}

WorkRight(w) ==
    /\ IsWork(w)
    /\ w.done \in Seq(DoneCommands) /\ w.fence \in Nat /\ w.pc \in WorkPcs
    /\ w.list = <<>> => w.pos = 0 /\ w.buf = <<>>
    /\ w.list # <<>> => w.list \in GlLists /\ Carried(w)

ListsInv ==
    /\ glWork = [t \in GlThreads |-> glWork[t]]
    /\ \A t \in GlThreads : WorkRight(glWork[t])

LEMMA CommandsOf ==
    ASSUME NEW list \in GlLists
    PROVE  /\ Len(list) \in Nat /\ DOMAIN list = 1 .. Len(list)
           /\ \A i \in 1 .. Len(list) : IsCommand(list[i])
  <1>1. list \in Seq([op : Opcodes, args : Seq(Nat)]) /\ \A i \in 1 .. Len(list) : Len(list[i].args) = Len(BuiltFields(list[i].op))
    BY GlListsBuilt
  <1>2. \A i \in 1 .. Len(list) : list[i] \in [op : Opcodes, args : Seq(Nat)]
    BY <1>1, ElementOfSeq
  <1>3. Len(list) \in Nat /\ DOMAIN list = 1 .. Len(list)
    BY <1>1, LenProperties
  <1> QED BY <1>1, <1>2, <1>3 DEF IsCommand

LEMMA PacketsOf ==
    ASSUME NEW list \in GlLists
    PROVE  Packets(list) \in Seq(Seq(GpuCells)) /\ Len(Packets(list)) = Len(list)
  <1>1. PICK n \in Nat : n = Len(list)
    BY CommandsOf
  <1>2. \A i \in 1 .. n : Packet(list[i]) \in Seq(GpuCells)
    <2> SUFFICES ASSUME NEW i \in 1 .. n PROVE Packet(list[i]) \in Seq(GpuCells)
      OBVIOUS
    <2>1. IsCommand(list[i])
      BY <1>1, CommandsOf
    <2>2. \E at : LaidOut(list[i], Packet(list[i]), at)
      BY <2>1, PacketLaidOut
    <2> QED BY <2>2 DEF LaidOut
  <1>3. PICK s : s = [i \in 1 .. n |-> Packet(list[i])]
    OBVIOUS
  <1>4. s \in [1 .. n -> Seq(GpuCells)]
    BY <1>2, <1>3
  <1>5. s \in Seq(Seq(GpuCells)) /\ Len(s) = n
    BY <1>4, SeqDef, LenProperties
  <1> QED BY <1>1, <1>3, <1>5 DEF Packets

LEMMA ListStarted ==
    ASSUME NEW list \in GlLists, NEW cut \in GlCuts
    PROVE  WorkRight([Idle EXCEPT !.list = list, !.cut = cut > 0, !.pc = "packet",
                                  !.buf = SubSeq(Build(list), 1, Len(Build(list)) - cut)])
  <1>0. PICK z \in BOOLEAN : z = (cut > 0)
    <2>1. (cut > 0) \in BOOLEAN
      OBVIOUS
    <2> QED BY <2>1, Zenon
  <1>W. PICK w : w = [Idle EXCEPT !.list = list, !.cut = z, !.pc = "packet",
                                   !.buf = SubSeq(Build(list), 1, Len(Build(list)) - cut)]
    OBVIOUS
  <1>1. PICK n \in Nat : n = Len(list)
    BY CommandsOf
  <1>2. Packets(list) \in Seq(Seq(GpuCells)) /\ Len(Packets(list)) = n
    BY <1>1, PacketsOf
  <1>3. PICK f : Joins(Packets(list), GpuCells, f) /\ Joined(Packets(list)) = f[n]
    BY <1>2, JoinedIs
  <1>4. f \in [0 .. n -> Seq(GpuCells)] /\ f[0] = <<>>
    BY <1>2, <1>3 DEF Joins
  <1>5. PICK b \in Seq(GpuCells) : b = f[n]
    BY <1>4
  <1>6. Build(list) = b
    BY <1>1, <1>3, <1>5 DEF Build, Packets
  <1>7. PICK m \in Nat : m = Len(b) /\ \A c \in 1 .. m : b[c] \in GpuCells
    BY LenProperties, ElementOfSeq
  <1>8. cut \in Nat /\ m - cut \in Int /\ m - cut <= m
    OBVIOUS
  <1>K. PICK k \in Int : k = m - cut
    BY <1>8
  <1>9. PICK buf : k = m - cut /\ buf = SubSeq(b, 1, k)
    BY <1>K
  <1>10. \A c \in 1 .. k : b[c] \in GpuCells
    BY <1>7, <1>9, <1>8
  <1>11. /\ buf \in Seq(GpuCells)
         /\ Len(buf) = IF 1 <= k THEN k - 1 + 1 ELSE 0
         /\ \A c \in 1 .. k - 1 + 1 : buf[c] = b[1 + c - 1]
    <2>1. 1 \in Int /\ k \in Int /\ \A c \in 1 .. k : b[c] \in GpuCells
      BY <1>10
    <2>2. /\ SubSeq(b, 1, k) \in Seq(GpuCells)
          /\ Len(SubSeq(b, 1, k)) = IF 1 <= k THEN k - 1 + 1 ELSE 0
          /\ \A c \in 1 .. k - 1 + 1 : SubSeq(b, 1, k)[c] = b[1 + c - 1]
      BY <2>1, SubSeqProperties
    <2>3. buf = SubSeq(b, 1, k)
      BY <1>9
    <2> QED BY <2>2, <2>3
  <1>12. Len(buf) = (IF 1 <= k THEN k ELSE 0) /\ Len(buf) <= m
    BY <1>9, <1>8, <1>11
  <1>13. \A c \in 1 .. Len(buf) : buf[c] = b[c]
    <2> SUFFICES ASSUME NEW c \in 1 .. Len(buf) PROVE buf[c] = b[c]
      OBVIOUS
    <2>1. c \in 1 .. k - 1 + 1 /\ 1 + c - 1 = c
      BY <1>12
    <2> QED BY <1>11, <2>1
  <1>14. z \/ Len(buf) = m
    <2>1. CASE cut = 0
      BY <1>9, <1>8, <1>12, <2>1
    <2>2. CASE cut # 0
      <3>1. cut > 0
        BY <1>8, <2>2
      <3> QED BY <1>0, <3>1
    <2> QED BY <2>1, <2>2
  <1>15. FrontOf(list, z, buf, f)
    BY <1>1, <1>3, <1>5, <1>7, <1>11, <1>12, <1>13, <1>14 DEF FrontOf
  <1>16. w = [list |-> list, cut |-> z, buf |-> buf, pos |-> 0, done |-> <<>>, pc |-> "packet", fence |-> 0]
    BY <1>W, <1>6, <1>7, <1>9 DEF Idle
  <1>17. CarriedOut(list, z, buf, 0, <<>>, f)
    <2>1. PICK done : done = <<>> /\ Len(done) = 0 /\ Len(f[0]) = 0
      BY <1>4
    <2>2. Len(buf) \in Nat /\ 0 <= n /\ 0 <= Len(buf) /\ \A i \in 1 .. 0 : FALSE
      BY <1>11, LenProperties
    <2>3. CarriedOut(list, z, buf, 0, done, f)
      BY <1>1, <2>1, <2>2 DEF CarriedOut
    <2> QED BY <2>1, <2>3
  <1>18. Carried(w)
    BY <1>15, <1>16, <1>17 DEF Carried
  <1>19. list = <<>> => buf = <<>>
    <2> SUFFICES ASSUME list = <<>> PROVE buf = <<>>
      OBVIOUS
    <2>1. n = 0
      BY <1>1
    <2>2. m = 0
      BY <1>4, <1>5, <1>7, <2>1
    <2>3. Len(buf) = 0
      BY <1>9, <1>8, <1>12, <2>2
    <2> QED BY <1>11, <2>3, EmptySeq
  <1>20. <<>> \in Seq(DoneCommands)
    BY EmptySeq
  <1>21. /\ w.list = list /\ w.buf = buf /\ w.pos = 0 /\ w.done = <<>> /\ w.pc = "packet" /\ w.fence = 0
         /\ IsWork(w)
    BY <1>16 DEF IsWork
  <1>22. WorkRight(w)
    BY <1>18, <1>19, <1>20, <1>21 DEF WorkRight, WorkPcs
  <1> QED BY <1>0, <1>W, <1>22, Zenon

\* The packet the decoder is at, and what carrying it out leaves.
StandsAt(list, buf, pos, done, f, k, at) ==
    /\ k = Len(done) + 1 /\ pos = Len(f[k - 1]) /\ \A i \in 1 .. Len(done) : done[i] = list[i]
    /\ IsCommand(list[k]) /\ LaidOut(list[k], Packet(list[k]), at) /\ Standing(buf, pos, Packet(list[k]))
    /\ Len(f[k]) = pos + Len(Packet(list[k])) /\ Len(f[k]) <= Len(f[Len(list)])
    /\ pos \in Nat /\ Len(Packet(list[k])) \in Nat

LEMMA PacketStands ==
    ASSUME NEW list \in GlLists, NEW cut, NEW buf, NEW pos, NEW done \in Seq(DoneCommands), NEW f,
           FrontOf(list, cut, buf, f), CarriedOut(list, cut, buf, pos, done, f), pos # Len(buf)
    PROVE  \E k \in 1 .. Len(list) : \E at : StandsAt(list, buf, pos, done, f, k, at)
  <1>1. PICK n, m, j \in Nat : n = Len(list) /\ m = Len(buf) /\ j = Len(done)
    BY CommandsOf, LenProperties DEF FrontOf
  <1>2. Packets(list) \in Seq(Seq(GpuCells)) /\ Len(Packets(list)) = n
    BY <1>1, PacketsOf
  <1>3. Joins(Packets(list), GpuCells, f)
    BY DEF FrontOf
  <1>4. \A i \in 0 .. n : f[i] \in Seq(GpuCells) /\ Len(f[i]) \in Nat
    BY <1>2, <1>3, LenProperties DEF Joins
  <1>5. /\ j <= n /\ pos = Len(f[j]) /\ pos <= m
        /\ \A i \in 1 .. j : i < j => done[i] = list[i]
        /\ j >= 1 => done[j] = list[j]
    BY <1>1 DEF CarriedOut
  <1>6. \A i \in 1 .. j : done[i] = list[i]
    <2>1. \A i \in 1 .. j : i < j \/ (i = j /\ j >= 1)
      OBVIOUS
    <2> QED BY <1>5, <2>1
  <1>7. pos \in Nat /\ pos < m /\ m <= Len(f[n])
    <2>1. j \in 0 .. n
      BY <1>5
    <2>2. pos \in Nat
      BY <1>4, <1>5, <2>1
    <2> QED BY <1>1, <1>5, <2>2 DEF FrontOf
  <1>8. j # n
    <2> SUFFICES ASSUME j = n PROVE FALSE
      OBVIOUS
    <2>1. pos = Len(f[n])
      BY <1>5
    <2> QED BY <1>7, <2>1
  <1>9. PICK k \in 1 .. n : k = j + 1
    BY <1>5, <1>8
  <1>10. k - 1 = j /\ k \in 1 .. Len(Packets(list)) /\ Packets(list)[k] = Packet(list[k])
    BY <1>1, <1>2, <1>9 DEF Packets
  <1>11. Placed(Packets(list), f, k)
    BY <1>2, <1>3, <1>10, JoinsPlaces
  <1>12. PICK p : p = Packet(list[k])
    OBVIOUS
  <1>13. /\ Len(p) \in Nat /\ Len(f[k]) = Len(f[k - 1]) + Len(p) /\ Len(f[k]) <= Len(f[n])
         /\ \A c \in 1 .. Len(p) : f[n][Len(f[k - 1]) + c] = p[c]
    BY <1>2, <1>10, <1>11, <1>12 DEF Placed
  <1>14. Len(f[k]) = pos + Len(p) /\ \A c \in 1 .. Len(p) : f[n][pos + c] = p[c]
    BY <1>5, <1>10, <1>13
  <1>15. Standing(buf, pos, p)
    <2>1. \A c \in 1 .. m : buf[c] = f[n][c]
      BY <1>1 DEF FrontOf
    <2>2. ASSUME NEW c \in 1 .. Len(p), pos + c <= m PROVE buf[pos + c] = p[c]
      <3>1. pos + c \in 1 .. m
        BY <1>7, <1>13, <2>2
      <3> QED BY <1>14, <2>1, <3>1
    <2> QED BY <1>1, <1>7, <2>2 DEF Standing, FrontOf
  <1>16. IsCommand(list[k])
    BY <1>1, CommandsOf
  <1>17. PICK at : LaidOut(list[k], p, at)
    BY <1>12, <1>16, PacketLaidOut
  <1>18. /\ k = Len(done) + 1 /\ pos = Len(f[k - 1]) /\ \A i \in 1 .. Len(done) : done[i] = list[i]
    BY <1>1, <1>5, <1>6, <1>9, <1>10
  <1>19. Len(f[k]) = pos + Len(Packet(list[k])) /\ Len(f[k]) <= Len(f[Len(list)]) /\ Len(Packet(list[k])) \in Nat
    BY <1>1, <1>12, <1>13, <1>14
  <1>20. LaidOut(list[k], Packet(list[k]), at) /\ Standing(buf, pos, Packet(list[k]))
    BY <1>12, <1>15, <1>17
  <1>21. StandsAt(list, buf, pos, done, f, k, at)
    BY <1>7, <1>16, <1>18, <1>19, <1>20 DEF StandsAt
  <1> QED BY <1>1, <1>21

LEMMA PacketCarriedOut ==
    ASSUME NEW list \in GlLists, NEW cut, NEW buf, NEW pos, NEW done \in Seq(DoneCommands), NEW f,
           FrontOf(list, cut, buf, f), CarriedOut(list, cut, buf, pos, done, f), pos # Len(buf),
           NEW d, d = Decode(buf, pos)
    PROVE  /\ CarriedOut(list, cut, buf, d.pos, Append(done, d.cmd), f)
           /\ d.cmd \in DoneCommands /\ d.cmd.op = buf[pos + 1]
           /\ d.cmd.op \in {"WaitFence", "SignalFence"} => d.cmd.args[1] \in Nat
  <1>K. PICK k \in 1 .. Len(list) : \E at : StandsAt(list, buf, pos, done, f, k, at)
    BY PacketStands
  <1>A. PICK at : StandsAt(list, buf, pos, done, f, k, at)
    BY <1>K
  <1>1. /\ k = Len(done) + 1 /\ pos = Len(f[k - 1]) /\ \A i \in 1 .. Len(done) : done[i] = list[i]
        /\ IsCommand(list[k]) /\ LaidOut(list[k], Packet(list[k]), at) /\ Standing(buf, pos, Packet(list[k]))
        /\ Len(f[k]) = pos + Len(Packet(list[k])) /\ Len(f[k]) <= Len(f[Len(list)])
        /\ pos \in Nat /\ Len(Packet(list[k])) \in Nat
    BY <1>A DEF StandsAt
  <1>2. PICK n, m, j, l \in Nat : n = Len(list) /\ m = Len(buf) /\ j = Len(done) /\ l = Len(Packet(list[k]))
    BY <1>1, CommandsOf, LenProperties DEF FrontOf
  <1>3. PICK cmd : cmd = list[k]
    OBVIOUS
  <1>4. DecodedRight(cmd, d, buf, pos, l) /\ buf[pos + 1] = cmd.op
    <2>1. PICK p : p = Packet(list[k])
      OBVIOUS
    <2>2. IsCommand(cmd) /\ LaidOut(cmd, p, at) /\ Standing(buf, pos, p)
      BY <1>1, <1>3, <2>1
    <2>3. DecodedRight(cmd, Decode(buf, pos), buf, pos, Len(p)) /\ buf[pos + 1] = cmd.op
      BY <2>2, DecodesPacket
    <2> QED BY <1>2, <2>1, <2>3
  <1>5. /\ d.cmd \in DoneCommands /\ d.cmd.op = cmd.op
        /\ cmd.op \in {"WaitFence", "SignalFence"} => d.cmd.args[1] \in Nat
        /\ pos + l <= m => d.cmd = cmd /\ d.pos = pos + l
        /\ pos + l > m => d.pos = m
    BY <1>2, <1>4 DEF DecodedRight
  <1>6. PICK new : new = Append(done, d.cmd)
    OBVIOUS
  <1>7. Len(new) = k /\ new[k] = d.cmd /\ \A i \in 1 .. j : new[i] = done[i]
    BY <1>1, <1>2, <1>5, <1>6, AppendProperties
  <1>8. \A i \in 1 .. k : i < k => new[i] = list[i]
    <2>1. \A i \in 1 .. k : i < k => i \in 1 .. j
      BY <1>1, <1>2
    <2> QED BY <1>1, <1>2, <1>7, <2>1
  <1>9. CASE pos + l <= m
    <2>1. d.pos = Len(f[k]) /\ d.pos <= m /\ d.cmd = list[k]
      BY <1>1, <1>2, <1>3, <1>5, <1>9
    <2>2. CarriedOut(list, cut, buf, d.pos, new, f)
      BY <1>2, <1>7, <1>8, <2>1 DEF CarriedOut
    <2> QED BY <1>4, <1>5, <1>6, <2>2
  <1>10. CASE pos + l > m
    <2>1. cut
      <3>1. pos + l <= Len(f[Len(list)])
        BY <1>1, <1>2
      <3>2. CASE m = Len(f[Len(list)])
        <4>1. pos + l <= m
          BY <3>1, <3>2
        <4>2. pos \in Nat
          BY <1>1
        <4> QED BY <1>10, <4>1, <4>2
      <3>3. CASE m # Len(f[Len(list)])
        BY <1>2, <3>3 DEF FrontOf
      <3> QED BY <3>2, <3>3
    <2>2. d.pos = m /\ k >= 1 /\ new[k].op = list[k].op
      BY <1>3, <1>5, <1>7, <1>10
    <2>3. CarriedOut(list, cut, buf, d.pos, new, f)
      BY <1>2, <1>7, <1>8, <2>1, <2>2 DEF CarriedOut
    <2> QED BY <1>4, <1>5, <1>6, <2>3
  <1>11. pos + l <= m \/ pos + l > m
    <2>1. pos \in Nat
      BY <1>1
    <2>2. pos + l \in Nat
      BY <2>1
    <2> QED BY <2>2
  <1> QED BY <1>9, <1>10, <1>11

\* One thread goes on with another piece of work.
LEMMA WorkMoves ==
    ASSUME ListsInv, NEW t \in GlThreads, NEW w, WorkRight(w), glWork' = [glWork EXCEPT ![t] = w]
    PROVE  ListsInv'
  <1>1. \A u \in GlThreads : glWork'[u] = IF u = t THEN w ELSE glWork[u]
    BY DEF ListsInv
  <1>2. glWork' = [u \in GlThreads |-> glWork'[u]]
    BY DEF ListsInv
  <1>3. PICK new : new = glWork'
    OBVIOUS
  <1>4. \A u \in GlThreads : WorkRight(new[u])
    BY <1>1, <1>3 DEF ListsInv
  <1> QED BY <1>2, <1>3, <1>4 DEF ListsInv

\* ... at another point of the same list.
LEMMA WorkGoes ==
    ASSUME NEW w, WorkRight(w), NEW pc \in WorkPcs, NEW h \in Nat
    PROVE  WorkRight([w EXCEPT !.pc = pc]) /\ WorkRight([w EXCEPT !.pc = pc, !.fence = h])
  <1>1. IsWork(w)
    BY DEF WorkRight
  <1>2. ASSUME NEW q, q = [w EXCEPT !.pc = pc] \/ q = [w EXCEPT !.pc = pc, !.fence = h] PROVE WorkRight(q)
    <2>1. /\ IsWork(q) /\ q.pc = pc /\ q.fence \in {w.fence, h}
          /\ q.list = w.list /\ q.cut = w.cut /\ q.buf = w.buf /\ q.pos = w.pos /\ q.done = w.done
      BY <1>1, <1>2 DEF IsWork
    <2>2. Carried(w) => Carried(q)
      BY <2>1 DEF Carried
    <2> QED BY <2>1, <2>2 DEF WorkRight
  <1> QED BY <1>2

LEMMA IdleRight == WorkRight(Idle)
  <1>1. <<>> \in Seq(DoneCommands)
    BY EmptySeq
  <1>2. IsWork(Idle)
    BY DEF IsWork, Idle
  <1> QED BY <1>1, <1>2 DEF WorkRight, Idle, WorkPcs

LEMMA AfterRight ==
    ASSUME ListsInv, NEW t \in GlThreads PROVE WorkRight(After(t))
  <1>1. WorkRight(glWork[t])
    BY DEF ListsInv
  <1>2. PICK q : q = [glWork[t] EXCEPT !.pc = "packet", !.fence = 0]
    OBVIOUS
  <1>3. WorkRight(q)
    BY <1>1, <1>2, WorkGoes DEF WorkPcs
  <1> QED BY <1>2, <1>3, IdleRight DEF After

LEMMA PacketKeeps ==
    ASSUME ListsInv, NEW t \in GlThreads, ProcessPacket(t)
    PROVE  ListsInv'
  <1>1. PICK w : w = glWork[t] /\ WorkRight(w)
    BY DEF ListsInv
  <1>2. IsWork(w) /\ w.done \in Seq(DoneCommands)
    BY <1>1 DEF WorkRight
  <1>3. w.pos # Len(w.buf)
    BY <1>1 DEF ProcessPacket, Over
  <1>4. w.list # <<>>
    BY <1>1, <1>3 DEF WorkRight
  <1>5. w.list \in GlLists /\ Carried(w)
    BY <1>1, <1>4 DEF WorkRight
  <1>6. PICK f : FrontOf(w.list, w.cut, w.buf, f) /\ CarriedOut(w.list, w.cut, w.buf, w.pos, w.done, f)
    BY <1>5 DEF Carried
  <1>7. PICK d : d = Decode(w.buf, w.pos)
    OBVIOUS
  <1>8. /\ CarriedOut(w.list, w.cut, w.buf, d.pos, Append(w.done, d.cmd), f)
        /\ d.cmd \in DoneCommands
        /\ d.cmd.op \in {"WaitFence", "SignalFence"} => d.cmd.args[1] \in Nat
    BY <1>2, <1>3, <1>5, <1>6, <1>7, PacketCarriedOut
  <1>9. PICK h \in Nat, pc \in WorkPcs :
          /\ h = IF d.cmd.op \in {"WaitFence", "SignalFence"} THEN d.cmd.args[1] ELSE 0
          /\ pc = IF d.cmd.op \in {"WaitFence", "SignalFence"} THEN "find" ELSE "packet"
    BY <1>8 DEF WorkPcs
  <1>10. PICK q : q = [w EXCEPT !.pos = d.pos, !.done = Append(@, d.cmd), !.fence = h, !.pc = pc]
    OBVIOUS
  <1>11. glWork' = [glWork EXCEPT ![t] = q]
    BY <1>1, <1>2, <1>7, <1>9, <1>10 DEF ProcessPacket, ListsInv, IsWork
  <1>12. /\ IsWork(q) /\ q.list = w.list /\ q.cut = w.cut /\ q.buf = w.buf /\ q.pos = d.pos
         /\ q.done = Append(w.done, d.cmd) /\ q.fence = h /\ q.pc = pc
    BY <1>2, <1>10 DEF IsWork
  <1>13. Append(w.done, d.cmd) \in Seq(DoneCommands)
    BY <1>2, <1>8, AppendProperties
  <1>14. Carried(q)
    BY <1>6, <1>8, <1>12 DEF Carried
  <1>15. WorkRight(q)
    BY <1>4, <1>5, <1>9, <1>12, <1>13, <1>14 DEF WorkRight
  <1> QED BY <1>11, <1>15, WorkMoves

LEMMA CallStarted ==
    ASSUME NEW h \in Handles, NEW op \in {"WaitFence", "SignalFence"}
    PROVE  WorkRight([Idle EXCEPT !.fence = h, !.pc = "find", !.done = <<[op |-> op, args |-> <<h>>]>>])
  <1>1. h \in Nat /\ h \in GpuCells
    BY DEF Handles, GpuCells
  <1>2. PICK args : args = <<h>> /\ args \in Seq(GpuCells)
    <2>1. <<h>> \in Seq(GpuCells)
      BY <1>1, SeqDef
    <2> QED BY <2>1
  <1>3. PICK cmd : cmd = [op |-> op, args |-> args] /\ cmd \in DoneCommands
    <2>1. [op |-> op, args |-> args] \in DoneCommands
      BY <1>2 DEF DoneCommands, Opcodes
    <2> QED BY <2>1
  <1>4. PICK done : done = <<[op |-> op, args |-> args]>> /\ done \in Seq(DoneCommands)
    <2>1. <<cmd>> \in Seq(DoneCommands)
      BY <1>3, SeqDef
    <2> QED BY <1>3, <2>1
  <1>5. PICK w : w = [Idle EXCEPT !.fence = h, !.pc = "find", !.done = done]
    OBVIOUS
  <1>6. w = [list |-> <<>>, cut |-> FALSE, buf |-> <<>>, pos |-> 0, done |-> done, pc |-> "find", fence |-> h]
    BY <1>5 DEF Idle
  <1>7. WorkRight(w)
    BY <1>1, <1>4, <1>6 DEF WorkRight, IsWork, WorkPcs
  <1> QED BY <1>2, <1>4, <1>5, <1>7

\* A thread that goes to another point of its list, or returns.
LEMMA GotoKeeps ==
    ASSUME ListsInv, NEW t \in GlThreads,
           Return(t) \/ \E pc \in WorkPcs : GlGoto(t, pc)
    PROVE  ListsInv'
  <1>1. CASE Return(t)
    BY <1>1, AfterRight, WorkMoves DEF Return
  <1>2. ASSUME NEW pc \in WorkPcs, GlGoto(t, pc) PROVE ListsInv'
    <2>1. PICK w : w = [glWork[t] EXCEPT !.pc = pc]
      OBVIOUS
    <2>2. WorkRight(w)
      <3>1. WorkRight(glWork[t]) /\ 0 \in Nat
        BY DEF ListsInv
      <3> QED BY <2>1, <3>1, WorkGoes
    <2>3. glWork' = [glWork EXCEPT ![t] = w]
      BY <1>2, <2>1 DEF GlGoto, ListsInv
    <2> QED BY <2>2, <2>3, WorkMoves
  <1> QED BY <1>1, <1>2

LEMMA NotifyKeepsLists ==
    ASSUME ListsInv, NEW t \in GlThreads, NotifySleepers(t)
    PROVE  ListsInv'
  <1>1. PICK new : /\ new = glWork'
                   /\ new = [u \in GlThreads |->
                               IF u = t THEN After(t)
                               ELSE IF GlAt(u, "asleep") /\ glWork[u].fence = glWork[t].fence
                                    THEN [glWork[u] EXCEPT !.pc = "woken"] ELSE glWork[u]]
    BY DEF NotifySleepers
  <1>2. ASSUME NEW u \in GlThreads PROVE WorkRight(new[u])
    <2>1. WorkRight(glWork[u]) /\ WorkRight(After(t)) /\ 0 \in Nat /\ "woken" \in WorkPcs
      BY AfterRight DEF ListsInv, WorkPcs
    <2>2. PICK q : q = [glWork[u] EXCEPT !.pc = "woken"]
      OBVIOUS
    <2>3. WorkRight(q)
      BY <2>1, <2>2, WorkGoes
    <2>4. new[u] \in {After(t), q, glWork[u]}
      BY <1>1, <2>2
    <2> QED BY <2>1, <2>3, <2>4
  <1>3. new = [u \in GlThreads |-> new[u]]
    BY <1>1
  <1> QED BY <1>1, <1>2, <1>3 DEF ListsInv

LEMMA CallsKeepLists ==
    ASSUME ListsInv, GlCalls
    PROVE  ListsInv'
  <1>1. ASSUME NEW t \in GlThreads, NEW l \in GlLists, NEW cut \in GlCuts, Process(t, l, cut) PROVE ListsInv'
    <2>1. PICK w : w = [Idle EXCEPT !.list = l, !.cut = cut > 0, !.pc = "packet",
                                    !.buf = SubSeq(Build(l), 1, Len(Build(l)) - cut)]
      OBVIOUS
    <2>2. WorkRight(w)
      BY <2>1, ListStarted
    <2> QED BY <1>1, <2>1, <2>2, WorkMoves DEF Process
  <1>2. ASSUME NEW t \in GlThreads, NEW h \in Handles, NEW op \in {"WaitFence", "SignalFence"}, HostCall(t, op, h)
        PROVE  ListsInv'
    <2>1. PICK w : w = [Idle EXCEPT !.fence = h, !.pc = "find", !.done = <<[op |-> op, args |-> <<h>>]>>]
      OBVIOUS
    <2>2. WorkRight(w)
      BY <2>1, CallStarted
    <2> QED BY <1>2, <2>1, <2>2, WorkMoves DEF HostCall
  <1>3. ASSUME CreateFence \/ \E h \in Handles : DestroyFence(h) PROVE ListsInv'
    BY <1>3 DEF CreateFence, DestroyFence, ListsInv
  <1> QED BY <1>1, <1>2, <1>3 DEF GlCalls

LEMMA StepsKeepLists ==
    ASSUME ListsInv, NEW t \in GlThreads, GlStep(t)
    PROVE  ListsInv'
  <1>1. CASE ProcessDone(t)
    BY <1>1, IdleRight, WorkMoves DEF ProcessDone
  <1>2. CASE ProcessPacket(t)
    BY <1>2, PacketKeeps
  <1>3. CASE NotifySleepers(t)
    BY <1>3, NotifyKeepsLists
  <1>4. CASE FindFence(t)
    <2>1. Return(t) \/ GlGoto(t, "set") \/ GlGoto(t, "peek")
      BY <1>4 DEF FindFence
    <2> QED BY <2>1, GotoKeeps DEF WorkPcs
  <1>5. CASE SetSignalled(t)
    <2>1. GlGoto(t, "notify")
      BY <1>5 DEF SetSignalled
    <2> QED BY <2>1, GotoKeeps DEF WorkPcs
  <1>6. CASE PeekFence(t)
    <2>1. Return(t) \/ GlGoto(t, "lock")
      BY <1>6 DEF PeekFence
    <2> QED BY <2>1, GotoKeeps DEF WorkPcs
  <1>7. CASE TestFence(t)
    <2>1. Return(t) \/ GlGoto(t, "doze")
      BY <1>7 DEF TestFence
    <2> QED BY <2>1, GotoKeeps DEF WorkPcs
  <1>8. CASE SleepOnFence(t)
    <2>1. GlGoto(t, "asleep")
      BY <1>8 DEF SleepOnFence
    <2> QED BY <2>1, GotoKeeps DEF WorkPcs
  <1>9. CASE WaitTimesOut(t)
    BY <1>9, GotoKeeps DEF WaitTimesOut
  <1> QED BY <1>1, <1>2, <1>3, <1>4, <1>5, <1>6, <1>7, <1>8, <1>9 DEF GlStep

LEMMA ListsInvInit == GlInit => ListsInv
  BY IdleRight DEF GlInit, ListsInv

LEMMA ListsInvInductive == ListsInv /\ [GlNext]_glVars => ListsInv'
  <1> SUFFICES ASSUME ListsInv, [GlNext]_glVars PROVE ListsInv'
    OBVIOUS
  <1>1. CASE UNCHANGED glWork
    BY <1>1 DEF ListsInv
  <1>2. CASE GlListsNext
    BY <1>2, CallsKeepLists, StepsKeepLists DEF GlListsNext
  <1> QED BY <1>1, <1>2 DEF GlNext, glVars

LEMMA ListsDecoded == ListsInv => DecodesWhatWasBuilt
  <1> SUFFICES ASSUME ListsInv, NEW t \in GlThreads, glWork[t].list # <<>>
               PROVE  LET w == glWork[t] IN
                      /\ Len(w.done) <= Len(w.list)
                      /\ \A i \in 1 .. Len(w.done) :
                           /\ w.done[i].op = w.list[i].op
                           /\ (w.cut /\ i = Len(w.done)) \/ w.done[i] = w.list[i]
    BY DEF DecodesWhatWasBuilt
  <1>1. PICK w : w = glWork[t] /\ w.list # <<>> /\ WorkRight(w)
    BY DEF ListsInv
  <1>2. PICK f : CarriedOut(w.list, w.cut, w.buf, w.pos, w.done, f)
    BY <1>1 DEF WorkRight, Carried
  <1>3. PICK n \in Nat : n = Len(w.done)
    BY <1>1, LenProperties DEF WorkRight
  <1>4. ASSUME NEW i \in 1 .. n
        PROVE  w.done[i].op = w.list[i].op /\ ((w.cut /\ i = n) \/ w.done[i] = w.list[i])
    <2>1. CASE i < n
      BY <1>2, <1>3, <2>1 DEF CarriedOut
    <2>2. CASE i = n
      BY <1>2, <1>3, <2>2 DEF CarriedOut
    <2> QED BY <2>1, <2>2
  <1> QED BY <1>1, <1>2, <1>3, <1>4 DEF CarriedOut

(***************************************************************************)
(* Process reads the fields CommandList wrote, with their widths: whatever *)
(* lists are built, however they are cut and whatever threads run between  *)
(* packets, the commands carried out are the list's, in order and with     *)
(* their operands, but for the operands of a last packet cut short.        *)
(***************************************************************************)
THEOREM ListsDecodeAsBuilt == GlSpec => []DecodesWhatWasBuilt
  BY ListsInvInit, ListsInvInductive, ListsDecoded, PTL DEF GlSpec

\* The lists, the fences and the heap: what the GPU run checks, for every value of the constants.
THEOREM CommandsAreCarriedOut == GlSpec => []CommandsCarriedOut
  <1>1. DecodesWhatWasBuilt /\ NoSleepOnSignalled /\ AllocsDisjoint => CommandsCarriedOut
    BY DEF CommandsCarriedOut
  <1> QED BY <1>1, ListsDecodeAsBuilt, FencesWakeSleepers, HeapBlocksDisjoint, PTL

LEMMA GlTypedFrom == FenceInv /\ ListsInv /\ HeapInv => GlTypeOK
  <1> SUFFICES ASSUME FenceInv, ListsInv, HeapInv PROVE GlTypeOK
    OBVIOUS
  <1>1. ASSUME NEW t \in GlThreads
        PROVE  /\ glWork[t].list \in GlLists \cup {<<>>} /\ glWork[t].pos \in 0 .. Len(glWork[t].buf)
               /\ glWork[t].pc \in WorkPcs /\ glWork[t].fence \in Nat
    <2>1. PICK w : w = glWork[t] /\ WorkRight(w)
      BY DEF ListsInv
    <2>2. w.pc \in WorkPcs /\ w.fence \in Nat /\ w.list \in GlLists \cup {<<>>}
      BY <2>1 DEF WorkRight
    <2>3. CASE w.list = <<>>
      BY <2>1, <2>2, <2>3 DEF WorkRight
    <2>4. CASE w.list # <<>>
      <3>1. PICK f : FrontOf(w.list, w.cut, w.buf, f) /\ CarriedOut(w.list, w.cut, w.buf, w.pos, w.done, f)
        BY <2>1, <2>4 DEF WorkRight, Carried
      <3>2. Len(w.buf) \in Nat /\ Len(w.done) \in Nat
        BY <2>1, <3>1, LenProperties DEF FrontOf, WorkRight
      <3>3. CASE w.pos = Len(w.buf)
        BY <2>1, <2>2, <3>2, <3>3
      <3>4. CASE w.pos # Len(w.buf)
        <4>1. w.pos = Len(f[Len(w.done)]) /\ w.pos <= Len(w.buf) /\ Len(w.done) <= Len(w.list)
          BY <3>1, <3>4 DEF CarriedOut
        <4>2. PICK n \in Nat : n = Len(w.list) /\ Len(Packets(w.list)) = n
          BY <2>1, <2>4, CommandsOf, PacketsOf DEF WorkRight
        <4>3. f[Len(w.done)] \in Seq(GpuCells)
          BY <3>1, <3>2, <4>1, <4>2 DEF FrontOf, Joins
        <4>4. Len(f[Len(w.done)]) \in Nat
          BY <4>3, LenProperties
        <4> QED BY <2>1, <2>2, <3>2, <4>1, <4>4
      <3> QED BY <3>3, <3>4
    <2> QED BY <2>3, <2>4
  <1>2. /\ \A h \in Handles : /\ glFences[h].live \in BOOLEAN /\ glFences[h].signalled \in BOOLEAN
                              /\ glFences[h].owner \in GlThreads \cup {GlNoThread}
        /\ glNext \in 1 .. GlMaxFences + 1
    BY DEF FenceInv, FenceShape
  <1>3. glHeap.used \in 0 .. GlHeapSize
    BY DEF HeapInv
  <1> QED BY <1>1, <1>2, <1>3 DEF GlTypeOK, WorkPcs

\* The GPU's threads, fences and heap keep their types.
LEMMA GlTyped == GlSpec => []GlTypeOK
  <1>1. GlInit => HeapInv
    BY DEF GlInit, HeapInv, AllocsDisjoint
  <1> QED BY <1>1, FenceInvInit, FenceInvInductive, ListsInvInit, ListsInvInductive, HeapInvInductive, GlTypedFrom, PTL
          DEF GlSpec

HIDE GlBounds DEF GlBounds

-----------------------------------------------------------------------------
(* The types of the file system: what a Reset writes out for a handle is a *)
(* number of bytes.                                                        *)

USE FilesystemAssumption DEF FsFds

OpenFiles == [open : BOOLEAN, dir : FsDirs, rdOnly : BOOLEAN, writes : BOOLEAN, buffered : 0 .. FsMaxLen]
HostFiles == [there : BOOLEAN, len : Nat]
MountSlots == [valid : BOOLEAN, dir : FsDirs, readOnly : BOOLEAN]
FsOpens == [at : {"idle", "resolved", "opened"}, dir : FsDirs, rdOnly : BOOLEAN, flag : FsFlags]

\* What the streams hold for a file is a number of bytes.
LEMMA BufferedIsNumber ==
    ASSUME FsTypeOK, NEW d \in FsDirs PROVE BufferedFor(d) \in Nat
  <1>1. PICK add : add = [n \in FsFds |-> IF fsFiles[n].dir = d THEN fsFiles[n].buffered ELSE 0]
    OBVIOUS
  <1>2. add \in [FsFds -> Nat]
    BY <1>1 DEF FsTypeOK
  <1>3. PICK step : step = [n \in FsFds |-> [x \in Nat |-> x + add[n]]]
    OBVIOUS
  <1>4. StepsIn(Nat, step, FsMaxFd)
    BY <1>2, <1>3 DEF StepsIn
  <1>5. PICK f : Recursion(Nat, 0, step, FsMaxFd, f)
    BY <1>4, RecursionExists
  <1>6. f \in [0 .. FsMaxFd -> Nat] /\ f[0] = 0 /\ \A i \in FsFds : f[i] = step[i][f[i - 1]]
    BY <1>5 DEF Recursion
  <1>7. \A i \in FsFds : i - 1 \in 0 .. FsMaxFd /\ f[i - 1] \in Nat
    BY <1>6
  <1>8. \A i \in FsFds : f[i] = f[i - 1] + add[i]
    BY <1>3, <1>6, <1>7
  <1>9. \A i \in 0 .. FsMaxFd :
            f[i] = IF i = 0 THEN 0 ELSE f[i - 1] + (IF fsFiles[i].dir = d THEN fsFiles[i].buffered ELSE 0)
    <2>1. \A i \in 0 .. FsMaxFd : i = 0 \/ i \in FsFds
      OBVIOUS
    <2> QED BY <1>1, <1>6, <1>8, <2>1
  <1> DEFINE sum(h) == [n \in 0 .. FsMaxFd |->
                          IF n = 0 THEN 0 ELSE h[n - 1] + (IF fsFiles[n].dir = d THEN fsFiles[n].buffered ELSE 0)]
             g == CHOOSE h : h = sum(h)
  <1>10. f = sum(f)
    BY <1>6, <1>9
  <1>11. g = sum(g)
    BY <1>10
  <1>12. BufferedFor(d) = g[FsMaxFd]
    BY DEF BufferedFor
  <1> HIDE DEF g
  <1>13. g[0] = 0 /\ \A n \in FsFds : g[n] = g[n - 1] + add[n]
    <2>1. 0 \in 0 .. FsMaxFd /\ \A n \in FsFds : n \in 0 .. FsMaxFd /\ n # 0
      OBVIOUS
    <2> QED BY <1>1, <1>11, <2>1
  <1> HIDE DEF sum
  <1> DEFINE N == {m \in Nat : m <= FsMaxFd => g[m] \in Nat}
  <1>14. 0 \in N
    BY <1>13
  <1>15. ASSUME NEW m \in Nat, m \in N PROVE m + 1 \in N
    <2> SUFFICES ASSUME m + 1 <= FsMaxFd PROVE g[m + 1] \in Nat
      OBVIOUS
    <2>1. m <= FsMaxFd /\ m + 1 \in FsFds /\ (m + 1) - 1 = m
      OBVIOUS
    <2>2. g[m] \in Nat /\ add[m + 1] \in Nat
      BY <1>2, <1>15, <2>1
    <2> QED BY <1>13, <2>1, <2>2
  <1>16. FsMaxFd \in N
    <2> HIDE DEF N
    <2> QED BY <1>14, <1>15, CountingUp
  <1> QED BY <1>12, <1>16

LEMMA LongerFile ==
    ASSUME NEW h \in HostFiles, NEW n \in Nat PROVE [h EXCEPT !.len = @ + n] \in HostFiles
  <1>1. h.len \in Nat /\ h.there \in BOOLEAN
    BY DEF HostFiles
  <1>2. PICK z \in Nat : z = h.len + n
    BY <1>1
  <1>3. [h EXCEPT !.len = z] \in HostFiles
    BY DEF HostFiles
  <1> QED BY <1>2, <1>3

LEMMA FsTypeInit == FsInit => FsTypeOK
  BY DEF FsInit, FsTypeOK, Unmounted, NoFile, FsOut, FsFlags

\* The types of its parts.
FsTyped(mounts, files, next, host, opening, writable, trace) ==
    /\ mounts \in [FsMounts -> MountSlots] /\ files \in [FsFds -> OpenFiles]
    /\ next \in 1 .. FsMaxFd + 1 /\ host \in [FsDirs -> HostFiles] /\ opening \in [FsThreads -> FsOpens]
    /\ writable \subseteq FsDirs /\ trace \in [on : BOOLEAN, any : BOOLEAN]

LEMMA FsTypedIs ==
    /\ FsTypeOK = FsTyped(fsMounts, fsFiles, fsNextFd, fsHost, fsOpening, fsWritable, fsTrace)
    /\ FsTypeOK' = FsTyped(fsMounts', fsFiles', fsNextFd', fsHost', fsOpening', fsWritable', fsTrace')
  BY DEF FsTypeOK, FsTyped, MountSlots, OpenFiles, HostFiles, FsOpens

LEMMA FsTypeInductive == FsTypeOK /\ [FsNext]_fsVars => FsTypeOK'
  <1> SUFFICES ASSUME FsTypeOK, [FsNext]_fsVars PROVE FsTypeOK'
    OBVIOUS
  <1>0. FsTyped(fsMounts, fsFiles, fsNextFd, fsHost, fsOpening, fsWritable, fsTrace)
    BY FsTypedIs
  <1> USE <1>0 DEF FsTyped
  <1> DEFINE Typed == FsTyped(fsMounts', fsFiles', fsNextFd', fsHost', fsOpening', fsWritable', fsTrace')
  <1> SUFFICES Typed
    BY FsTypedIs
  <1>1. ASSUME NEW m \in FsMounts, NEW d \in FsDirs, NEW ro \in BOOLEAN, Mount(m, d, ro) PROVE Typed
    BY <1>1 DEF Mount, MountSlots
  <1>2. ASSUME NEW m \in FsMounts, Unmount(m) PROVE Typed
    BY <1>2 DEF Unmount, Unmounted, MountSlots
  <1>3. ASSUME NEW m \in FsMounts, RemoveFile(m) PROVE Typed
    BY <1>3 DEF RemoveFile, ResolveImpl, FsAbsent, HostFiles, MountSlots
  <1>4. ASSUME NEW m \in FsMounts, NEW to \in FsMounts, Rename(m, to) PROVE Typed
    <2>1. PICK a, b : /\ a \in ResolveImpl(m) /\ b \in ResolveImpl(to)
                      /\ fsHost' = [fsHost EXCEPT ![a] = FsAbsent, ![b] = fsHost[a]]
                      /\ UNCHANGED <<fsMounts, fsFiles, fsNextFd, fsOpening, fsWritable, fsTrace>>
      BY <1>4 DEF Rename
    <2>2. a \in FsDirs /\ b \in FsDirs
      BY <2>1 DEF ResolveImpl, MountSlots
    <2>3. FsAbsent \in HostFiles /\ fsHost[a] \in HostFiles
      BY <2>2 DEF FsAbsent, HostFiles
    <2> QED BY <2>1, <2>2, <2>3
  <1>5. ASSUME NEW m \in FsMounts, NEW t \in FsThreads, NEW flag \in FsFlags, OpenResolve(t, m, flag) PROVE Typed
    <2>1. PICK o : /\ o = [at |-> "resolved", dir |-> fsMounts[m].dir, rdOnly |-> fsMounts[m].readOnly, flag |-> flag]
                   /\ fsOpening' = [fsOpening EXCEPT ![t] = o]
                   /\ UNCHANGED <<fsMounts, fsFiles, fsNextFd, fsHost, fsWritable, fsTrace>>
      BY <1>5 DEF OpenResolve, ResolveImpl
    <2>2. o \in FsOpens
      BY <2>1 DEF FsOpens, MountSlots
    <2> QED BY <2>1, <2>2
  <1>6. ASSUME NEW t \in FsThreads, OpenHost(t) PROVE Typed
    <2>1. PICK open \in FsOpens : open = fsOpening[t]
      OBVIOUS
    <2>2. fsHost' \in [FsDirs -> HostFiles]
      <3>1. PICK file \in HostFiles : file = fsHost[open.dir] /\ open.dir \in FsDirs
        BY <2>1 DEF FsOpens
      <3>2. PICK new \in HostFiles : new = FlagMode(open.flag, file)
        <4>1. FlagMode(open.flag, file) \in HostFiles
          BY <3>1 DEF FlagMode, HostFiles
        <4> QED BY <4>1
      <3>3. fsHost' = fsHost \/ fsHost' = [fsHost EXCEPT ![open.dir] = new]
        BY <1>6, <2>1, <3>1, <3>2 DEF OpenHost
      <3> QED BY <3>1, <3>3
    <2>3. fsOpening' \in [FsThreads -> FsOpens]
      <3>1. PICK o : /\ fsOpening' = [fsOpening EXCEPT ![t] = o]
                     /\ o = [open EXCEPT !.at = "opened"] \/ o = FsOut
        BY <1>6, <2>1 DEF OpenHost
      <3>2. o \in FsOpens
        <4>1. FsOut \in FsOpens
          BY DEF FsOpens, FsOut, FsFlags
        <4>2. [open EXCEPT !.at = "opened"] \in FsOpens
          BY DEF FsOpens
        <4> QED BY <3>1, <4>1, <4>2
      <3> QED BY <3>1, <3>2
    <2> QED BY <1>6, <2>2, <2>3 DEF OpenHost
  <1>7. ASSUME NEW t \in FsThreads, OpenInsert(t) PROVE Typed
    <2>1. FsOut \in FsOpens /\ fsOpening[t] \in FsOpens
      BY DEF FsOpens, FsOut, FsFlags
    <2>2. PICK f : /\ f = [open |-> TRUE, dir |-> fsOpening[t].dir, rdOnly |-> fsOpening[t].rdOnly,
                           writes |-> fsOpening[t].flag # "Read", buffered |-> 0]
                   /\ fsFiles' = [fsFiles EXCEPT ![fsNextFd] = f]
      BY <1>7 DEF OpenInsert
    <2>3. f \in OpenFiles
      BY <2>1, <2>2 DEF FsOpens, OpenFiles
    <2> QED BY <1>7, <2>1, <2>2, <2>3 DEF OpenInsert
  <1>8. ASSUME NEW fd \in FsFds, Close(fd) \/ Flush(fd) PROVE Typed
    <2>1. PICK f \in OpenFiles : f = fsFiles[fd]
      OBVIOUS
    <2>2. f.dir \in FsDirs /\ f.buffered \in Nat
      BY <2>1 DEF OpenFiles
    <2>3. PICK h \in HostFiles : h = fsHost[f.dir]
      BY <2>2
    <2>4. PICK k : k = [h EXCEPT !.len = @ + f.buffered] /\ k \in HostFiles
      <3>1. [h EXCEPT !.len = @ + f.buffered] \in HostFiles
        BY <2>2, LongerFile
      <3> QED BY <3>1
    <2>5. fsHost' = [fsHost EXCEPT ![f.dir] = k]
      BY <1>8, <2>1, <2>2, <2>3, <2>4 DEF Close, Flush, Drain
    <2>6. fsHost' \in [FsDirs -> HostFiles]
      BY <2>2, <2>4, <2>5
    <2>7. PICK e : e \in OpenFiles /\ fsFiles' = [fsFiles EXCEPT ![fd] = e]
      <3>1. NoFile \in OpenFiles /\ [f EXCEPT !.buffered = 0] \in OpenFiles
        BY SMTT(40), <2>1 DEF NoFile, OpenFiles
      <3> QED BY <1>8, <2>1, <3>1 DEF Close, Flush
    <2> QED BY <1>8, <2>6, <2>7 DEF Close, Flush
  <1>9. ASSUME NEW fd \in FsFds, Write(fd) PROVE Typed
    <2>1. PICK f \in OpenFiles : f = fsFiles[fd]
      OBVIOUS
    <2>2. f.dir \in FsDirs /\ f.buffered \in Nat
      BY <2>1 DEF OpenFiles
    <2>3. PICK n \in Nat : n = fsHost[f.dir].len
      BY <2>2 DEF HostFiles
    <2>4. n + f.buffered < FsMaxLen
      BY <1>9, <2>1, <2>3 DEF Write
    <2>5. f.buffered + 1 \in 0 .. FsMaxLen
      BY <2>2, <2>3, <2>4
    <2>6. PICK e : e = [f EXCEPT !.buffered = @ + 1] /\ e \in OpenFiles
      <3>1. [f EXCEPT !.buffered = @ + 1] \in OpenFiles
        BY <2>1, <2>5 DEF OpenFiles
      <3> QED BY <3>1
    <2>7. fsFiles' = [fsFiles EXCEPT ![fd] = e]
      BY <1>9, <2>1, <2>6 DEF Write
    <2> QED BY <1>9, <2>6, <2>7 DEF Write
  <1>10. CASE CreateTempFile
    <2>1. PICK mount \in MountSlots :
             mount = IF fsMounts[FsTemp].valid THEN fsMounts[FsTemp] ELSE [valid |-> TRUE, dir |-> FsTempDir, readOnly |-> FALSE]
      <3>1. [valid |-> TRUE, dir |-> FsTempDir, readOnly |-> FALSE] \in MountSlots /\ fsMounts[FsTemp] \in MountSlots
        BY DEF MountSlots
      <3> QED BY <3>1
    <2>2. mount.dir \in FsDirs
      BY <2>1 DEF MountSlots
    <2>3. /\ fsMounts' = [fsMounts EXCEPT ![FsTemp] = mount]
          /\ fsHost' = [fsHost EXCEPT ![mount.dir] = [there |-> TRUE, len |-> 0]]
          /\ fsWritable' \in {fsWritable, fsWritable \cup {mount.dir}}
          /\ fsTrace' = [fsTrace EXCEPT !.any = @ \/ fsTrace.on]
          /\ UNCHANGED <<fsFiles, fsNextFd, fsOpening>>
      BY <1>10, <2>1 DEF CreateTempFile
    <2>4. [there |-> TRUE, len |-> 0] \in HostFiles
      BY DEF HostFiles
    <2>5. fsHost' \in [FsDirs -> HostFiles] /\ fsMounts' \in [FsMounts -> MountSlots] /\ fsWritable' \subseteq FsDirs
      BY <2>1, <2>2, <2>3, <2>4
    <2>6. fsTrace' \in [on : BOOLEAN, any : BOOLEAN]
      BY <2>3
    <2> QED BY <2>3, <2>5, <2>6
  <1>11. CASE EnableTracing
    <2>1. fsTrace.any \in BOOLEAN
      OBVIOUS
    <2>2. PICK on \in BOOLEAN, any \in BOOLEAN :
             /\ fsTrace' = [on |-> on, any |-> any]
             /\ UNCHANGED <<fsMounts, fsFiles, fsNextFd, fsHost, fsOpening, fsWritable>>
      BY <1>11, <2>1, Zenon DEF EnableTracing
    <2>3. fsTrace' \in [on : BOOLEAN, any : BOOLEAN]
      BY <2>2
    <2> QED BY <2>2, <2>3
  <1>12. CASE FsReset
    <2>1. Unmounted \in MountSlots /\ NoFile \in OpenFiles
      BY DEF Unmounted, NoFile, MountSlots, OpenFiles
    <2>2. \A d \in FsDirs : [fsHost[d] EXCEPT !.len = @ + BufferedFor(d)] \in HostFiles
      <3> SUFFICES ASSUME NEW d \in FsDirs PROVE [fsHost[d] EXCEPT !.len = @ + BufferedFor(d)] \in HostFiles
        OBVIOUS
      <3>1. PICK n \in Nat : n = BufferedFor(d)
        BY BufferedIsNumber
      <3>2. fsHost[d] \in HostFiles
        OBVIOUS
      <3> QED BY <3>1, <3>2, LongerFile
    <2>3. fsHost' \in [FsDirs -> HostFiles]
      BY <1>12, <2>2 DEF FsReset
    <2>4. fsNextFd' \in 1 .. FsMaxFd + 1
      BY <1>12 DEF FsReset
    <2> QED BY <1>12, <2>1, <2>3, <2>4 DEF FsReset
  <1>13. CASE UNCHANGED fsVars
    BY <1>13 DEF fsVars
  <1> QED BY <1>1, <1>2, <1>3, <1>4, <1>5, <1>6, <1>7, <1>8, <1>9, <1>10, <1>11, <1>12, <1>13 DEF FsNext

HIDE FilesystemAssumption DEF FsFds

-----------------------------------------------------------------------------
(* Modules.  A module keeps its name, its address and its dependencies as  *)
(* long as it is registered, and an id that was given back names no other  *)
(* module: what a lookup saw is true of the module it saw, or that module  *)
(* is gone.                                                                *)

USE ModuleLinkingAssumption DEF ModuleLinkingAssumption

IsModule(m) == m = [name |-> m.name, base |-> m.base, deps |-> m.deps, refs |-> m.refs, bound |-> m.bound]
IsLookup(w) == w = [at |-> w.at, file |-> w.file, base |-> w.base, id |-> w.id]

LinkShape ==
    /\ mlNextId \in Nat /\ DOMAIN mlModules \subseteq Nat
    /\ mlModules = [i \in DOMAIN mlModules |-> mlModules[i]] /\ \A i \in DOMAIN mlModules : IsModule(mlModules[i])
    /\ mlThread = [t \in MlThreads |-> mlThread[t]] /\ \A t \in MlThreads : IsLookup(mlThread[t])

\* What is registered was given its id, and its dependencies are registered.
DepsRegistered ==
    \A i \in DOMAIN mlModules : i < mlNextId /\ mlModules[i].deps \subseteq DOMAIN mlModules

\* A symbol found in a module: the id was given, and is of that module or of none.
FoundIn(s, id, base) ==
    /\ id \in Nat /\ id < mlNextId
    /\ id \in DOMAIN mlModules => mlModules[id].name = s /\ mlModules[id].base = base

LookupsSound ==
    \A t \in MlThreads : mlThread[t].at = "cache" => FoundIn(mlThread[t].file, mlThread[t].id, mlThread[t].base)

CacheSound ==
    \A s \in DOMAIN mlCache : FoundIn(s, mlCache[s].id, mlCache[s].base)

LinkInv == LinkShape /\ DepsRegistered /\ LookupsSound /\ CacheSound

\* What a step may do to the registry: modules come with new ids and go; the others keep
\* what they are.
Kept(i) ==
    /\ mlModules'[i].name = mlModules[i].name
    /\ mlModules'[i].base = mlModules[i].base
    /\ mlModules'[i].deps = mlModules[i].deps

RegistryMoves ==
    /\ mlNextId' \in Nat /\ mlNextId' >= mlNextId
    /\ DOMAIN mlModules' \subseteq Nat
    /\ mlModules' = [i \in DOMAIN mlModules' |-> mlModules'[i]] /\ \A i \in DOMAIN mlModules' : IsModule(mlModules'[i])
    /\ \A i \in DOMAIN mlModules' : i < mlNextId => i \in DOMAIN mlModules /\ Kept(i)
    /\ DepsRegistered'

\* What a step may do to the lookups: threads start others, or leave one in the cache.
LookupsMove ==
    /\ mlThread' = [t \in MlThreads |-> mlThread'[t]] /\ \A t \in MlThreads : IsLookup(mlThread'[t])
    /\ \A t \in MlThreads : mlThread'[t].at = "cache" =>
          \/ mlThread'[t] = mlThread[t]
          \/ FoundIn(mlThread'[t].file, mlThread'[t].id, mlThread'[t].base)
    /\ \A s \in DOMAIN mlCache' : \/ s \in DOMAIN mlCache /\ mlCache'[s] = mlCache[s]
                                  \/ FoundIn(s, mlCache'[s].id, mlCache'[s].base)

LEMMA FoundStays ==
    ASSUME LinkInv, RegistryMoves, NEW s, NEW id, NEW base, FoundIn(s, id, base)
    PROVE  FoundIn(s, id, base)'
  <1>1. id \in Nat /\ id < mlNextId'
    BY DEF FoundIn, RegistryMoves, LinkInv, LinkShape
  <1>2. id \in DOMAIN mlModules' => id \in DOMAIN mlModules /\ Kept(id)
    BY DEF FoundIn, RegistryMoves
  <1> QED BY <1>1, <1>2 DEF FoundIn, Kept

LEMMA StepKeepsLinkInv ==
    ASSUME LinkInv, RegistryMoves, LookupsMove
    PROVE  LinkInv'
  <1>1. LinkShape' /\ DepsRegistered'
    BY DEF RegistryMoves, LookupsMove, LinkShape
  <1>2. LookupsSound'
    <2> SUFFICES ASSUME NEW t \in MlThreads, mlThread'[t].at = "cache"
                 PROVE  FoundIn(mlThread[t].file, mlThread[t].id, mlThread[t].base)'
      BY DEF LookupsSound
    <2>1. PICK f, i, b : f = mlThread'[t].file /\ i = mlThread'[t].id /\ b = mlThread'[t].base
      OBVIOUS
    <2>2. FoundIn(f, i, b)
      BY <2>1 DEF LookupsMove, LinkInv, LookupsSound
    <2>3. FoundIn(f, i, b)'
      BY <2>2, FoundStays
    <2> QED BY <2>1, <2>3
  <1>3. CacheSound'
    <2> SUFFICES ASSUME NEW s \in DOMAIN mlCache'
                 PROVE  FoundIn(s, mlCache[s].id, mlCache[s].base)'
      BY DEF CacheSound
    <2>1. PICK i, b : i = mlCache'[s].id /\ b = mlCache'[s].base
      OBVIOUS
    <2>2. FoundIn(s, i, b)
      BY <2>1 DEF LookupsMove, LinkInv, CacheSound
    <2>3. FoundIn(s, i, b)'
      BY <2>2, FoundStays
    <2> QED BY <2>1, <2>3
  <1> QED BY <1>1, <1>2, <1>3 DEF LinkInv

LEMMA RegistryStays ==
    ASSUME LinkInv, UNCHANGED <<mlModules, mlNextId>>
    PROVE  RegistryMoves
  BY DEF LinkInv, LinkShape, DepsRegistered, RegistryMoves, Kept

LEMMA LookupsStay ==
    ASSUME LinkInv, UNCHANGED <<mlThread, mlCache>>
    PROVE  LookupsMove
  BY DEF LinkInv, LinkShape, LookupsMove

\* One module's references or bindings are assigned; an id that is not registered does nothing.
LEMMA ModuleAssigned ==
    ASSUME LinkInv, UNCHANGED mlNextId, NEW i, NEW m,
           mlModules' = [mlModules EXCEPT ![i] = m],
           i \in DOMAIN mlModules => IsModule(m) /\ m.name = mlModules[i].name /\ m.base = mlModules[i].base
                                     /\ m.deps = mlModules[i].deps
    PROVE  RegistryMoves
  <1>1. DOMAIN mlModules' = DOMAIN mlModules
    BY DEF LinkInv, LinkShape
  <1>2. \A j \in DOMAIN mlModules : mlModules'[j] = IF j = i THEN m ELSE mlModules[j]
    BY DEF LinkInv, LinkShape
  <1>3. \A j \in DOMAIN mlModules : IsModule(mlModules'[j]) /\ Kept(j)
    BY <1>2 DEF LinkInv, LinkShape, Kept
  <1>4. mlModules' = [j \in DOMAIN mlModules' |-> mlModules'[j]]
    BY <1>1 DEF LinkInv, LinkShape
  <1>5. DepsRegistered'
    BY <1>1, <1>3 DEF LinkInv, LinkShape, DepsRegistered, Kept
  <1> QED BY <1>1, <1>3, <1>4, <1>5 DEF LinkInv, LinkShape, RegistryMoves

LEMMA RefsAssigned ==
    ASSUME NEW m, IsModule(m), NEW n
    PROVE  LET q == [m EXCEPT !.refs = n] IN IsModule(q) /\ q.name = m.name /\ q.base = m.base /\ q.deps = m.deps
  BY DEF IsModule

LEMMA BoundAssigned ==
    ASSUME NEW m, IsModule(m), NEW n
    PROVE  LET q == [m EXCEPT !.bound = n] IN IsModule(q) /\ q.name = m.name /\ q.base = m.base /\ q.deps = m.deps
  BY DEF IsModule

LEMMA RefsMove ==
    ASSUME LinkInv, UNCHANGED mlNextId, NEW i, NEW n, mlModules' = [mlModules EXCEPT ![i].refs = n]
    PROVE  RegistryMoves
  <1>1. PICK m : m = [mlModules[i] EXCEPT !.refs = n]
    OBVIOUS
  <1>2. mlModules' = [mlModules EXCEPT ![i] = m]
    BY <1>1
  <1>3. i \in DOMAIN mlModules => IsModule(m) /\ m.name = mlModules[i].name /\ m.base = mlModules[i].base
                                  /\ m.deps = mlModules[i].deps
    BY <1>1, RefsAssigned DEF LinkInv, LinkShape
  <1> QED BY <1>2, <1>3, ModuleAssigned

\* A module enters with the next id and registered dependencies.
LEMMA EnterMoves ==
    ASSUME LinkInv, NEW m, IsModule(m), m.deps \subseteq DOMAIN mlModules, Enter(m)
    PROVE  RegistryMoves
  <1>1. /\ mlNextId \in Nat /\ mlNextId' = mlNextId + 1
        /\ mlModules' = [j \in DOMAIN mlModules \cup {mlNextId} |-> IF j = mlNextId THEN m ELSE mlModules[j]]
    BY DEF Enter, Put1, LinkInv, LinkShape
  <1>2. DOMAIN mlModules' = DOMAIN mlModules \cup {mlNextId}
    BY <1>1
  <1>3. \A j \in DOMAIN mlModules : j < mlNextId /\ j \in Nat
    BY DEF LinkInv, LinkShape, DepsRegistered
  <1>4. \A j \in DOMAIN mlModules' : mlModules'[j] = IF j = mlNextId THEN m ELSE mlModules[j]
    BY <1>1
  <1>5. mlNextId \notin DOMAIN mlModules
    BY <1>1, <1>3
  <1>6. \A j \in DOMAIN mlModules' : IsModule(mlModules'[j])
    BY <1>2, <1>4 DEF LinkInv, LinkShape
  <1>7. \A j \in DOMAIN mlModules' : j < mlNextId => j \in DOMAIN mlModules /\ Kept(j)
    BY <1>1, <1>2, <1>4 DEF Kept
  <1>8. \A j \in DOMAIN mlModules' : j \in Nat /\ j < mlNextId + 1
    BY <1>1, <1>2, <1>3
  <1>9. \A j \in DOMAIN mlModules' : mlModules'[j].deps \subseteq DOMAIN mlModules'
    BY <1>2, <1>4, <1>5 DEF LinkInv, DepsRegistered
  <1>10. mlModules' = [j \in DOMAIN mlModules' |-> mlModules'[j]]
    BY <1>1
  <1>11. DepsRegistered'
    BY <1>1, <1>8, <1>9 DEF DepsRegistered
  <1>12. mlNextId' \in Nat /\ mlNextId' >= mlNextId /\ DOMAIN mlModules' \subseteq Nat
    BY <1>1, <1>8
  <1> QED BY <1>6, <1>7, <1>10, <1>11, <1>12 DEF RegistryMoves

\* The registry's operations.
LEMMA RegistryKeepsLinkInv ==
    ASSUME LinkInv,
           \/ \E t \in MlThreads, f \in MlFiles : LoadHit(t, f)
           \/ \E t \in MlThreads, i \in Ids : Retain(t, i) \/ UnloadOne(t, i) \/ UnloadLast(t, i)
           \/ \E f \in MlFiles, deps \in SUBSET Ids : RegisterDesc(f, deps)
           \/ ResetRegistry
    PROVE  LinkInv'
  <1>0. LookupsMove
    <2>1. UNCHANGED <<mlThread, mlCache>>
      BY DEF LoadHit, Retain, UnloadOne, UnloadLast, RegisterDesc, ResetRegistry
    <2> QED BY <2>1, LookupsStay
  <1>1. ASSUME NEW t \in MlThreads, NEW f \in MlFiles, LoadHit(t, f) PROVE RegistryMoves
    <2>1. PICK i, n : i = mlByName[f] /\ n = mlModules[i].refs + 1
      OBVIOUS
    <2>2. mlModules' = [mlModules EXCEPT ![i].refs = n] /\ UNCHANGED mlNextId
      BY <1>1, <2>1 DEF LoadHit
    <2> QED BY <2>2, RefsMove
  <1>2. ASSUME NEW t \in MlThreads, NEW i \in Ids, Retain(t, i) PROVE RegistryMoves
    <2>1. PICK n : n = mlModules[i].refs + 1
      OBVIOUS
    <2>2. mlModules' = [mlModules EXCEPT ![i].refs = n] /\ UNCHANGED mlNextId
      BY <1>2, <2>1 DEF Retain
    <2> QED BY <2>2, RefsMove
  <1>3. ASSUME NEW t \in MlThreads, NEW i \in Ids, UnloadOne(t, i) PROVE RegistryMoves
    <2>1. PICK n : n = mlModules[i].refs - 1
      OBVIOUS
    <2>2. mlModules' = [mlModules EXCEPT ![i].refs = n] /\ UNCHANGED mlNextId
      BY <1>3, <2>1 DEF UnloadOne
    <2> QED BY <2>2, RefsMove
  <1>4. ASSUME NEW t \in MlThreads, NEW i \in Ids, UnloadLast(t, i) PROVE RegistryMoves
    <2>1. /\ mlModules' = [j \in DOMAIN mlModules \ {i} |-> mlModules[j]]
          /\ Dependents(i) \ {i} = {} /\ UNCHANGED mlNextId
      BY <1>4 DEF UnloadLast, Cut1
    <2>2. DOMAIN mlModules' = DOMAIN mlModules \ {i}
      BY <2>1
    <2>3. \A j \in DOMAIN mlModules' : mlModules'[j] = mlModules[j]
      BY <2>1
    <2>4. \A j \in DOMAIN mlModules' : mlModules'[j].deps \subseteq DOMAIN mlModules'
      BY <2>1, <2>2, <2>3 DEF LinkInv, DepsRegistered, Dependents
    <2>5. \A j \in DOMAIN mlModules' : j < mlNextId
      BY <2>2 DEF LinkInv, DepsRegistered
    <2>6. mlModules' = [j \in DOMAIN mlModules' |-> mlModules'[j]]
      BY <2>1
    <2> QED BY <2>1, <2>2, <2>3, <2>4, <2>5, <2>6 DEF LinkInv, LinkShape, RegistryMoves, DepsRegistered, Kept
  <1>5. ASSUME NEW f \in MlFiles, NEW deps \in SUBSET Ids, RegisterDesc(f, deps) PROVE RegistryMoves
    <2>1. PICK m : m = [name |-> f, base |-> 0, deps |-> deps, refs |-> 0, bound |-> {}]
      OBVIOUS
    <2>2. IsModule(m) /\ m.deps \subseteq DOMAIN mlModules /\ Enter(m)
      BY <1>5, <2>1 DEF RegisterDesc, IsModule
    <2> QED BY <2>2, EnterMoves
  <1>6. ASSUME ResetRegistry PROVE RegistryMoves
    <2>1. mlModules' = <<>> /\ UNCHANGED mlNextId
      BY <1>6 DEF ResetRegistry
    <2>2. DOMAIN mlModules' = {} /\ mlModules' = [j \in DOMAIN mlModules' |-> mlModules'[j]]
      BY <2>1
    <2>3. DOMAIN mlModules' \subseteq Nat /\ \A j \in DOMAIN mlModules' : FALSE
      BY <2>2
    <2>4. mlNextId' = mlNextId /\ mlNextId \in Nat
      BY <2>1 DEF LinkInv, LinkShape
    <2>5. mlNextId' \in Nat /\ mlNextId' >= mlNextId
      BY <2>4
    <2>6. DepsRegistered'
      BY <2>3 DEF DepsRegistered
    <2> QED BY <2>2, <2>3, <2>5, <2>6 DEF RegistryMoves
  <1> QED BY <1>0, <1>1, <1>2, <1>3, <1>4, <1>5, <1>6, StepKeepsLinkInv

LEMMA ThreadGoes ==
    ASSUME LinkInv, NEW t \in MlThreads, NEW w, IsLookup(w), mlThread' = [mlThread EXCEPT ![t] = w],
           w.at = "cache" => FoundIn(w.file, w.id, w.base),
           UNCHANGED mlCache
    PROVE  LookupsMove
  <1>1. \A u \in MlThreads : mlThread'[u] = IF u = t THEN w ELSE mlThread[u]
    BY DEF LinkInv, LinkShape
  <1> QED BY <1>1 DEF LinkInv, LinkShape, LookupsMove

LEMMA IdleLookup == IsLookup(MlIdle) /\ MlIdle.at = "idle"
  BY DEF IsLookup, MlIdle

\* Load from the miss to the relocation: between its steps anything may happen to the registry.
LEMMA LoadKeepsLinkInv ==
    ASSUME LinkInv, NEW t \in MlThreads,
           \/ \E f \in MlFiles : LoadMiss(t, f)
           \/ MapImage(t) \/ StoreCurrent(t) \/ Register(t) \/ ApplyRelocations(t)
    PROVE  LinkInv'
  <1>0. IsLookup(mlThread[t])
    BY DEF LinkInv, LinkShape
  <1>1. ASSUME NEW f \in MlFiles, LoadMiss(t, f) PROVE LinkInv'
    <2>1. PICK w : w = [MlIdle EXCEPT !.at = "map", !.file = f]
      OBVIOUS
    <2>2. IsLookup(w) /\ w.at = "map"
      BY <2>1 DEF IsLookup, MlIdle
    <2>3. mlThread' = [mlThread EXCEPT ![t] = w] /\ UNCHANGED <<mlCache, mlModules, mlNextId>>
      BY <1>1, <2>1 DEF LoadMiss, Go, mlRegistry
    <2>4. LookupsMove
      BY <2>2, <2>3, ThreadGoes
    <2> QED BY <2>3, <2>4, RegistryStays, StepKeepsLinkInv
  <1>2. CASE MapImage(t)
    <2>1. UNCHANGED <<mlCache, mlModules, mlNextId>>
      BY <1>2 DEF MapImage, mlRegistry
    <2>2. CASE mlThread' = [mlThread EXCEPT ![t] = MlIdle]
      BY <2>1, <2>2, IdleLookup, ThreadGoes, RegistryStays, StepKeepsLinkInv
    <2>3. ASSUME NEW b \in Bases, mlThread' = [mlThread EXCEPT ![t] = [mlThread[t] EXCEPT !.at = "store", !.base = b]]
          PROVE  LinkInv'
      <3>1. PICK w : w = [mlThread[t] EXCEPT !.at = "store", !.base = b]
        OBVIOUS
      <3>2. IsLookup(w) /\ w.at = "store"
        BY <1>0, <3>1 DEF IsLookup
      <3>3. mlThread' = [mlThread EXCEPT ![t] = w]
        BY <2>3, <3>1
      <3>4. LookupsMove
        BY <2>1, <3>2, <3>3, ThreadGoes
      <3> QED BY <2>1, <3>4, RegistryStays, StepKeepsLinkInv
    <2> QED BY <1>2, <2>2, <2>3 DEF MapImage, Go
  <1>3. CASE StoreCurrent(t)
    <2>1. PICK w : w = [mlThread[t] EXCEPT !.at = "register"]
      OBVIOUS
    <2>2. IsLookup(w) /\ w.at = "register"
      BY <1>0, <2>1 DEF IsLookup
    <2>3. mlThread' = [mlThread EXCEPT ![t] = w] /\ UNCHANGED <<mlCache, mlModules, mlNextId>>
      BY <1>3, <2>1 DEF StoreCurrent, Go, mlRegistry
    <2>4. LookupsMove
      BY <2>2, <2>3, ThreadGoes
    <2> QED BY <2>3, <2>4, RegistryStays, StepKeepsLinkInv
  <1>4. CASE Register(t)
    <2>1. PICK f, id : f = mlThread[t].file /\ id = IF f \in DOMAIN mlByName THEN mlByName[f] ELSE mlNextId
      OBVIOUS
    <2>2. PICK w : w = [mlThread[t] EXCEPT !.at = "relocate", !.id = id]
      OBVIOUS
    <2>3. IsLookup(w) /\ w.at = "relocate"
      BY <1>0, <2>2 DEF IsLookup
    <2>4. mlThread' = [mlThread EXCEPT ![t] = w] /\ UNCHANGED mlCache
      BY <1>4, <2>1, <2>2 DEF Register, Go
    <2>5. LookupsMove
      BY <2>3, <2>4, ThreadGoes
    <2>6. RegistryMoves
      <3>1. CASE f \in DOMAIN mlByName
        <4>1. PICK n : n = mlModules[id].refs + 1
          OBVIOUS
        <4>2. mlModules' = [mlModules EXCEPT ![id].refs = n] /\ UNCHANGED mlNextId
          BY <1>4, <2>1, <3>1, <4>1 DEF Register
        <4> QED BY <4>2, RefsMove
      <3>2. CASE f \notin DOMAIN mlByName
        <4>1. PICK m : m = [name |-> f, base |-> mlThread[t].base, deps |-> {}, refs |-> 1, bound |-> {}]
          OBVIOUS
        <4>2. IsModule(m) /\ m.deps = {}
          BY <4>1 DEF IsModule
        <4>3. Enter(m)
          BY <1>4, <2>1, <3>2, <4>1 DEF Register
        <4> QED BY <4>2, <4>3, EnterMoves
      <3> QED BY <3>1, <3>2
    <2> QED BY <2>5, <2>6, StepKeepsLinkInv
  <1>5. CASE ApplyRelocations(t)
    <2>1. mlThread' = [mlThread EXCEPT ![t] = MlIdle] /\ UNCHANGED <<mlCache, mlNextId>>
      BY <1>5 DEF ApplyRelocations, Go
    <2>2. LookupsMove
      BY <2>1, IdleLookup, ThreadGoes
    <2>3. PICK i : i = mlThread[t].id
      OBVIOUS
    <2>4. CASE i \notin DOMAIN mlModules
      <3>1. UNCHANGED mlModules
        BY <1>5, <2>3, <2>4 DEF ApplyRelocations
      <3> QED BY <2>1, <2>2, <3>1, RegistryStays, StepKeepsLinkInv
    <2>5. CASE i \in DOMAIN mlModules
      <3>1. PICK b : mlModules' = [mlModules EXCEPT ![i].bound = b]
        BY <1>5, <2>3, <2>5 DEF ApplyRelocations
      <3>2. PICK m : m = [mlModules[i] EXCEPT !.bound = b]
        OBVIOUS
      <3>3. mlModules' = [mlModules EXCEPT ![i] = m]
        BY <3>1, <3>2
      <3>4. IsModule(m) /\ m.name = mlModules[i].name /\ m.base = mlModules[i].base /\ m.deps = mlModules[i].deps
        BY <2>5, <3>2, BoundAssigned DEF LinkInv, LinkShape
      <3>5. RegistryMoves
        BY <2>1, <3>3, <3>4, ModuleAssigned
      <3> QED BY <2>2, <3>5, StepKeepsLinkInv
    <2> QED BY <2>4, <2>5
  <1> QED BY <1>1, <1>2, <1>3, <1>4, <1>5

\* LookupSymbol, and what takes cached symbols away.
LEMMA LookupKeepsLinkInv ==
    ASSUME LinkInv, NEW t \in MlThreads,
           \/ \E s \in MlFiles : LookupMiss(t, s)
           \/ ResolveSymbol(t) \/ CacheSymbol(t)
    PROVE  LinkInv'
  <1>0. IsLookup(mlThread[t])
    BY DEF LinkInv, LinkShape
  <1>1. UNCHANGED <<mlModules, mlNextId>> /\ RegistryMoves
    <2>1. UNCHANGED <<mlModules, mlNextId>>
      BY DEF LookupMiss, ResolveSymbol, CacheSymbol, mlRegistry
    <2> QED BY <2>1, RegistryStays
  <1>2. ASSUME NEW s \in MlFiles, LookupMiss(t, s) PROVE LookupsMove
    <2>1. PICK w : w = [MlIdle EXCEPT !.at = "resolve", !.file = s]
      OBVIOUS
    <2>2. IsLookup(w) /\ w.at = "resolve"
      BY <2>1 DEF IsLookup, MlIdle
    <2>3. mlThread' = [mlThread EXCEPT ![t] = w] /\ UNCHANGED mlCache
      BY <1>2, <2>1 DEF LookupMiss, Go
    <2> QED BY <2>2, <2>3, ThreadGoes
  <1>3. ASSUME ResolveSymbol(t) PROVE LookupsMove
    <2>1. UNCHANGED mlCache
      BY <1>3 DEF ResolveSymbol
    <2>2. CASE mlThread' = [mlThread EXCEPT ![t] = MlIdle]
      <3>1. IsLookup(MlIdle) /\ MlIdle.at # "cache"
        BY IdleLookup
      <3> QED BY <2>1, <2>2, <3>1, ThreadGoes
    <2>3. ASSUME NEW i \in DOMAIN mlModules, mlModules[i].name = mlThread[t].file,
                 mlThread' = [mlThread EXCEPT ![t] = [mlThread[t] EXCEPT !.at = "cache", !.id = i, !.base = mlModules[i].base]]
          PROVE  LookupsMove
      <3>1. PICK w : w = [mlThread[t] EXCEPT !.at = "cache", !.id = i, !.base = mlModules[i].base]
        OBVIOUS
      <3>2. IsLookup(w) /\ w.file = mlThread[t].file /\ w.id = i /\ w.base = mlModules[i].base
        BY <1>0, <3>1 DEF IsLookup
      <3>3. FoundIn(w.file, w.id, w.base)
        BY <2>3, <3>2 DEF FoundIn, LinkInv, LinkShape, DepsRegistered
      <3>4. mlThread' = [mlThread EXCEPT ![t] = w]
        BY <2>3, <3>1
      <3> QED BY <2>1, <3>2, <3>3, <3>4, ThreadGoes
    <2>4. \/ mlThread' = [mlThread EXCEPT ![t] = MlIdle]
          \/ \E i \in DOMAIN mlModules :
                /\ mlModules[i].name = mlThread[t].file
                /\ mlThread' = [mlThread EXCEPT ![t] = [mlThread[t] EXCEPT !.at = "cache", !.id = i, !.base = mlModules[i].base]]
      <3>1. PICK hits : hits = {n \in DOMAIN mlOrder : /\ mlOrder[n] \in DOMAIN mlModules
                                                       /\ mlModules[mlOrder[n]].name = mlThread[t].file}
        OBVIOUS
      <3>2. \/ mlThread' = [mlThread EXCEPT ![t] = MlIdle]
            \/ \E n \in hits : mlThread' = [mlThread EXCEPT ![t] =
                  [mlThread[t] EXCEPT !.at = "cache", !.id = mlOrder[n], !.base = mlModules[mlOrder[n]].base]]
        BY <1>3, <3>1, Zenon DEF ResolveSymbol, Go
      <3> QED BY <3>1, <3>2, Zenon
    <2> QED BY <2>2, <2>3, <2>4
  <1>4. ASSUME CacheSymbol(t) PROVE LookupsMove
    <2>1. PICK f, i, b : f = mlThread[t].file /\ i = mlThread[t].id /\ b = mlThread[t].base
      OBVIOUS
    <2>2. FoundIn(f, i, b)
      BY <1>4, <2>1 DEF CacheSymbol, At, LinkInv, LookupsSound
    <2>3. /\ mlThread' = [mlThread EXCEPT ![t] = MlIdle]
          /\ mlCache' = [s \in DOMAIN mlCache \cup {f} |-> IF s = f THEN [id |-> i, base |-> b] ELSE mlCache[s]]
      BY <1>4, <2>1 DEF CacheSymbol, Go, Put1
    <2>4. \A s \in DOMAIN mlCache' : \/ s \in DOMAIN mlCache /\ mlCache'[s] = mlCache[s]
                                     \/ FoundIn(s, mlCache'[s].id, mlCache'[s].base)
      <3> SUFFICES ASSUME NEW s \in DOMAIN mlCache', s = f \/ (s # f /\ s \in DOMAIN mlCache)
                   PROVE  \/ s \in DOMAIN mlCache /\ mlCache'[s] = mlCache[s]
                          \/ FoundIn(s, mlCache'[s].id, mlCache'[s].base)
        BY <2>3
      <3>1. CASE s = f
        <4>1. mlCache'[s] = [id |-> i, base |-> b]
          BY <2>3, <3>1
        <4>2. mlCache'[s].id = i /\ mlCache'[s].base = b
          BY <4>1
        <4> QED BY <2>2, <3>1, <4>2
      <3>2. CASE s # f /\ s \in DOMAIN mlCache
        BY <2>3, <3>2
      <3> QED BY <3>1, <3>2
    <2>5. /\ mlThread' = [u \in MlThreads |-> mlThread'[u]]
          /\ \A u \in MlThreads : IsLookup(mlThread'[u]) /\ (mlThread'[u].at = "cache" => mlThread'[u] = mlThread[u])
      <3>1. \A u \in MlThreads : mlThread'[u] = IF u = t THEN MlIdle ELSE mlThread[u]
        BY <2>3 DEF LinkInv, LinkShape
      <3> QED BY <2>3, <3>1, IdleLookup DEF LinkInv, LinkShape
    <2> QED BY <2>4, <2>5, Zenon DEF LookupsMove
  <1>5. LookupsMove
    BY <1>2, <1>3, <1>4
  <1> QED BY <1>1, <1>5, StepKeepsLinkInv

LEMMA InvalidateKeepsLinkInv ==
    ASSUME LinkInv, NEW ids, InvalidateCache(ids)
    PROVE  LinkInv'
  <1>1. mlCache' = [s \in {x \in DOMAIN mlCache : mlCache[x].id \notin ids} |-> mlCache[s]]
        /\ UNCHANGED <<mlThread, mlModules, mlNextId>>
    BY DEF InvalidateCache, mlRegistry
  <1>2. LookupsMove
    BY <1>1 DEF LookupsMove, LinkInv, LinkShape
  <1> QED BY <1>1, <1>2, RegistryStays, StepKeepsLinkInv

LEMMA LinkInvInit == MlInit => LinkInv
  <1> SUFFICES ASSUME MlInit PROVE LinkInv
    OBVIOUS
  <1>1. DOMAIN mlModules = {} /\ mlModules = [i \in DOMAIN mlModules |-> mlModules[i]] /\ DOMAIN mlCache = {}
    BY DEF MlInit
  <1>2. \A t \in MlThreads : mlThread[t] = MlIdle
    BY DEF MlInit
  <1>3. mlThread = [t \in MlThreads |-> mlThread[t]] /\ mlNextId \in Nat
    BY DEF MlInit
  <1> QED BY <1>1, <1>2, <1>3, IdleLookup DEF LinkInv, LinkShape, DepsRegistered, LookupsSound, CacheSound

LEMMA LinkInvInductive == LinkInv /\ [MlNext]_mlVars => LinkInv'
  <1> SUFFICES ASSUME LinkInv, [MlNext]_mlVars PROVE LinkInv'
    OBVIOUS
  <1>1. CASE UNCHANGED <<mlModules, mlNextId, mlThread, mlCache>>
    BY <1>1, RegistryStays, LookupsStay, StepKeepsLinkInv
  <1>2. CASE MlNext
    <2>1. ASSUME NEW t \in MlThreads,
                 \/ MapImage(t) \/ StoreCurrent(t) \/ Register(t) \/ ApplyRelocations(t)
                 \/ ResolveSymbol(t) \/ CacheSymbol(t)
          PROVE  LinkInv'
      BY <2>1, LoadKeepsLinkInv, LookupKeepsLinkInv
    <2>2. ASSUME NEW t \in MlThreads, NEW f \in MlFiles, LoadHit(t, f) \/ LoadMiss(t, f) \/ LookupMiss(t, f)
          PROVE  LinkInv'
      BY <2>2, RegistryKeepsLinkInv, LoadKeepsLinkInv, LookupKeepsLinkInv
    <2>3. ASSUME NEW t \in MlThreads, NEW i \in Ids, Retain(t, i) \/ UnloadOne(t, i) \/ UnloadLast(t, i)
          PROVE  LinkInv'
      BY <2>3, RegistryKeepsLinkInv
    <2>4. ASSUME NEW f \in MlFiles, NEW deps \in SUBSET Ids, RegisterDesc(f, deps)
          PROVE  LinkInv'
      BY <2>4, RegistryKeepsLinkInv
    <2>5. CASE ResetRegistry
      BY <2>5, RegistryKeepsLinkInv
    <2>6. CASE ResetLoader
      BY <1>1, <2>6 DEF ResetLoader, mlRegistry
    <2>7. ASSUME NEW ids, InvalidateCache(ids)
          PROVE  LinkInv'
      BY <2>7, InvalidateKeepsLinkInv
    <2> QED BY <1>2, <2>1, <2>2, <2>3, <2>4, <2>5, <2>6, <2>7, Zenon DEF MlNext
  <1> QED BY <1>1, <1>2 DEF mlVars, mlRegistry

(***************************************************************************)
(* LookupSymbol resolves and caches under two locks, one after the other,  *)
(* and Unload invalidates nothing: for any number of threads and modules,  *)
(* a cached symbol whose module is still registered is that module's, at   *)
(* its address, since ids are not reused and no module is moved.           *)
(***************************************************************************)
THEOREM CacheNamesItsModule == MlSpec => []CacheNotMisattributed
  <1>1. LinkInv => CacheNotMisattributed
    BY DEF LinkInv, CacheSound, FoundIn, CacheNotMisattributed
  <1> QED BY <1>1, LinkInvInit, LinkInvInductive, PTL DEF MlSpec

(***************************************************************************)
(* Unload refuses a module somebody depends on and Register takes          *)
(* registered dependencies only: a dependency is never gone before its     *)
(* dependent.                                                              *)
(***************************************************************************)
THEOREM DependenciesStay == MlSpec => []DepsRegistered
  <1>1. LinkInv => DepsRegistered
    BY DEF LinkInv
  <1> QED BY <1>1, LinkInvInit, LinkInvInductive, PTL DEF MlSpec

-----------------------------------------------------------------------------
(* Who holds a module, and what it depends on.  Its references are at      *)
(* least those that threads keep; a dependency has an earlier id, so that  *)
(* the dependencies have no cycle.                                         *)

HoldsShape ==
    /\ mlHeld \in [MlThreads -> [Ids -> 0 .. MlMaxHolds]]
    /\ DOMAIN mlModules \subseteq Ids
    /\ \A i \in DOMAIN mlModules : mlModules[i].refs \in Nat

NamesFound == \A f \in DOMAIN mlByName : mlByName[f] \in DOMAIN mlModules /\ mlModules[mlByName[f]].name = f

HeldCounted ==
    \A i \in Ids : /\ RefsHeld(i) # {} => i \in DOMAIN mlModules
                   /\ i \in DOMAIN mlModules => Cardinality(RefsHeld(i)) <= mlModules[i].refs

DepsEarlier == \A i \in DOMAIN mlModules : \A j \in mlModules[i].deps : j < i

OrderListed == Lists(mlOrder, Ids, DOMAIN mlModules)

RegistryInv == LinkInv /\ HoldsShape /\ NamesFound /\ HeldCounted /\ DepsEarlier /\ OrderListed

LEMMA RefsFinite ==
    \A i : IsFiniteSet(RefsHeld(i)) /\ Cardinality(RefsHeld(i)) \in Nat
  <1> SUFFICES ASSUME NEW i PROVE IsFiniteSet(RefsHeld(i)) /\ Cardinality(RefsHeld(i)) \in Nat
    OBVIOUS
  <1>1. IsFiniteSet(1 .. MlMaxHolds)
    BY FS_Interval
  <1>2. IsFiniteSet(MlThreads \X (1 .. MlMaxHolds))
    BY <1>1, FS_Product
  <1>3. RefsHeld(i) \subseteq MlThreads \X (1 .. MlMaxHolds)
    BY DEF RefsHeld
  <1>4. IsFiniteSet(RefsHeld(i))
    BY <1>2, <1>3, FS_Subset
  <1> QED BY <1>4, FS_CardinalityType

\* A thread that takes a reference to i, or gives the last one back, has one more or one less.
LEMMA RefsTaken ==
    ASSUME HoldsShape, NEW t \in MlThreads, NEW i \in Ids, Hold(t, i)
    PROVE  /\ mlHeld' \in [MlThreads -> [Ids -> 0 .. MlMaxHolds]]
           /\ RefsHeld(i)' # {} /\ Cardinality(RefsHeld(i)') = Cardinality(RefsHeld(i)) + 1
           /\ \A j \in Ids \ {i} : RefsHeld(j)' = RefsHeld(j)
  <1>1. PICK n \in Nat : n = mlHeld[t][i] /\ n < MlMaxHolds
    BY DEF Hold, HoldsShape
  <1>2. mlHeld' = [mlHeld EXCEPT ![t][i] = n + 1]
    BY <1>1 DEF Hold
  <1>3. mlHeld' \in [MlThreads -> [Ids -> 0 .. MlMaxHolds]]
    BY <1>1, <1>2 DEF HoldsShape
  <1>4. \A u \in MlThreads, j \in Ids : mlHeld'[u][j] = IF u = t /\ j = i THEN n + 1 ELSE mlHeld[u][j]
    BY <1>2 DEF HoldsShape
  <1>5. \A j \in Ids \ {i} : RefsHeld(j)' = RefsHeld(j)
    BY <1>4 DEF RefsHeld
  <1>6. <<t, n + 1>> \in MlThreads \X (1 .. MlMaxHolds)
    BY <1>1
  <1>7. RefsHeld(i)' = RefsHeld(i) \cup {<<t, n + 1>>}
    <2>1. ASSUME NEW u \in MlThreads, NEW k \in 1 .. MlMaxHolds
          PROVE  k <= mlHeld'[u][i] <=> (k <= mlHeld[u][i] \/ (u = t /\ k = n + 1))
      <3>1. CASE u = t
        <4>1. mlHeld'[u][i] = n + 1 /\ mlHeld[u][i] = n
          BY <1>1, <1>4, <3>1
        <4> QED BY <3>1, <4>1
      <3>2. CASE u # t
        BY <1>4, <3>2
      <3> QED BY <3>1, <3>2
    <2>2. \A r \in MlThreads \X (1 .. MlMaxHolds) :
             r \in RefsHeld(i)' <=> (r \in RefsHeld(i) \/ r = <<t, n + 1>>)
      <3> SUFFICES ASSUME NEW u \in MlThreads, NEW k \in 1 .. MlMaxHolds
                   PROVE  <<u, k>> \in RefsHeld(i)' <=> (<<u, k>> \in RefsHeld(i) \/ <<u, k>> = <<t, n + 1>>)
        OBVIOUS
      <3>1. <<u, k>> \in RefsHeld(i)' <=> k <= mlHeld'[u][i]
        BY DEF RefsHeld
      <3>2. <<u, k>> \in RefsHeld(i) <=> k <= mlHeld[u][i]
        BY DEF RefsHeld
      <3> QED BY <2>1, <3>1, <3>2
    <2>3. RefsHeld(i) \subseteq MlThreads \X (1 .. MlMaxHolds) /\ RefsHeld(i)' \subseteq MlThreads \X (1 .. MlMaxHolds)
      BY DEF RefsHeld
    <2> QED BY <1>6, <2>2, <2>3
  <1>8. <<t, n + 1>> \notin RefsHeld(i)
    BY <1>1 DEF RefsHeld
  <1>9. Cardinality(RefsHeld(i)') = Cardinality(RefsHeld(i)) + 1
    BY <1>7, <1>8, RefsFinite, FS_AddElement
  <1> QED BY <1>3, <1>5, <1>7, <1>9

LEMMA RefsGivenBack ==
    ASSUME HoldsShape, NEW t \in MlThreads, NEW i \in Ids, mlHeld[t][i] > 0,
           mlHeld' = [mlHeld EXCEPT ![t][i] = @ - 1]
    PROVE  /\ mlHeld' \in [MlThreads -> [Ids -> 0 .. MlMaxHolds]]
           /\ Cardinality(RefsHeld(i)') = Cardinality(RefsHeld(i)) - 1
           /\ \A j \in Ids \ {i} : RefsHeld(j)' = RefsHeld(j)
  <1>1. PICK n \in Nat : n = mlHeld[t][i] /\ n \in 1 .. MlMaxHolds
    BY DEF HoldsShape
  <1>2. mlHeld' = [mlHeld EXCEPT ![t][i] = n - 1]
    BY <1>1
  <1>3. mlHeld' \in [MlThreads -> [Ids -> 0 .. MlMaxHolds]]
    BY <1>1, <1>2 DEF HoldsShape
  <1>4. \A u \in MlThreads, j \in Ids : mlHeld'[u][j] = IF u = t /\ j = i THEN n - 1 ELSE mlHeld[u][j]
    BY <1>2 DEF HoldsShape
  <1>5. \A j \in Ids \ {i} : RefsHeld(j)' = RefsHeld(j)
    BY <1>4 DEF RefsHeld
  <1>6. <<t, n>> \in RefsHeld(i)
    BY <1>1 DEF RefsHeld
  <1>7. RefsHeld(i)' = RefsHeld(i) \ {<<t, n>>}
    <2>1. ASSUME NEW u \in MlThreads, NEW k \in 1 .. MlMaxHolds
          PROVE  k <= mlHeld'[u][i] <=> (k <= mlHeld[u][i] /\ ~(u = t /\ k = n))
      <3>1. CASE u = t
        <4>1. mlHeld'[u][i] = n - 1 /\ mlHeld[u][i] = n
          BY <1>1, <1>4, <3>1
        <4> QED BY <1>1, <3>1, <4>1
      <3>2. CASE u # t
        BY <1>4, <3>2
      <3> QED BY <3>1, <3>2
    <2>2. \A r \in MlThreads \X (1 .. MlMaxHolds) :
             r \in RefsHeld(i)' <=> (r \in RefsHeld(i) /\ r # <<t, n>>)
      <3> SUFFICES ASSUME NEW u \in MlThreads, NEW k \in 1 .. MlMaxHolds
                   PROVE  <<u, k>> \in RefsHeld(i)' <=> (<<u, k>> \in RefsHeld(i) /\ <<u, k>> # <<t, n>>)
        OBVIOUS
      <3>1. <<u, k>> \in RefsHeld(i)' <=> k <= mlHeld'[u][i]
        BY DEF RefsHeld
      <3>2. <<u, k>> \in RefsHeld(i) <=> k <= mlHeld[u][i]
        BY DEF RefsHeld
      <3> QED BY <2>1, <3>1, <3>2
    <2>3. RefsHeld(i) \subseteq MlThreads \X (1 .. MlMaxHolds) /\ RefsHeld(i)' \subseteq MlThreads \X (1 .. MlMaxHolds)
      BY DEF RefsHeld
    <2> QED BY <2>2, <2>3
  <1>8. Cardinality(RefsHeld(i)') = Cardinality(RefsHeld(i)) - 1
    <2>1. IsFiniteSet(RefsHeld(i))
      BY RefsFinite
    <2>2. Cardinality(RefsHeld(i) \ {<<t, n>>}) = Cardinality(RefsHeld(i)) - 1
      BY <1>6, <2>1, FS_RemoveElement
    <2> QED BY <1>7, <2>2
  <1> QED BY <1>3, <1>5, <1>8

\* A module's references change, with or without those of a thread.
LEMMA RefsSet ==
    ASSUME RegistryInv, LinkInv', NEW i \in DOMAIN mlModules, NEW n \in Nat,
           mlModules' = [mlModules EXCEPT ![i].refs = n], UNCHANGED <<mlByName, mlOrder>>,
           mlHeld' \in [MlThreads -> [Ids -> 0 .. MlMaxHolds]],
           \A j \in Ids \ {i} : RefsHeld(j)' = RefsHeld(j),
           Cardinality(RefsHeld(i)') <= n
    PROVE  RegistryInv'
  <1>1. IsModule(mlModules[i]) /\ DOMAIN mlModules' = DOMAIN mlModules
    BY DEF RegistryInv, LinkInv, LinkShape
  <1>2. \A j \in DOMAIN mlModules : mlModules'[j] = IF j = i THEN [mlModules[i] EXCEPT !.refs = n] ELSE mlModules[j]
    BY DEF RegistryInv, LinkInv, LinkShape
  <1>3. /\ mlModules'[i].refs = n /\ mlModules'[i].name = mlModules[i].name /\ mlModules'[i].deps = mlModules[i].deps
        /\ \A j \in DOMAIN mlModules \ {i} : mlModules'[j] = mlModules[j]
    BY <1>1, <1>2 DEF IsModule
  <1>4. HoldsShape'
    BY <1>1, <1>3 DEF RegistryInv, HoldsShape
  <1>5. NamesFound'
    BY <1>1, <1>3 DEF RegistryInv, NamesFound
  <1>6. HeldCounted'
    BY <1>1, <1>3 DEF RegistryInv, HeldCounted, HoldsShape
  <1>7. DepsEarlier' /\ OrderListed'
    BY <1>1, <1>3 DEF RegistryInv, DepsEarlier, OrderListed
  <1> QED BY <1>4, <1>5, <1>6, <1>7 DEF RegistryInv

LEMMA RefsUp ==
    ASSUME RegistryInv, LinkInv', NEW t \in MlThreads, NEW i \in DOMAIN mlModules, Hold(t, i),
           mlModules' = [mlModules EXCEPT ![i].refs = @ + 1], UNCHANGED <<mlByName, mlOrder>>
    PROVE  RegistryInv'
  <1>1. i \in Ids /\ HoldsShape /\ HeldCounted
    BY DEF RegistryInv, HoldsShape
  <1>2. PICK n \in Nat : n = mlModules[i].refs
    BY <1>1 DEF HoldsShape
  <1>3. mlModules' = [mlModules EXCEPT ![i].refs = n + 1] /\ n + 1 \in Nat
    BY <1>2
  <1>4. /\ mlHeld' \in [MlThreads -> [Ids -> 0 .. MlMaxHolds]]
        /\ Cardinality(RefsHeld(i)') = Cardinality(RefsHeld(i)) + 1
        /\ \A j \in Ids \ {i} : RefsHeld(j)' = RefsHeld(j)
    BY <1>1, RefsTaken
  <1>5. Cardinality(RefsHeld(i)) <= n /\ Cardinality(RefsHeld(i)) \in Nat
    BY <1>1, <1>2, RefsFinite DEF HeldCounted
  <1>6. Cardinality(RefsHeld(i)') <= n + 1
    BY <1>4, <1>5
  <1> QED BY <1>3, <1>4, <1>6, RefsSet

LEMMA RegistryUnloadOne ==
    ASSUME RegistryInv, LinkInv', NEW t \in MlThreads, NEW i \in Ids, UnloadOne(t, i)
    PROVE  RegistryInv'
  <1>1. HoldsShape /\ HeldCounted /\ i \in DOMAIN mlModules /\ mlModules[i].refs > 1
    BY DEF RegistryInv, UnloadOne
  <1>2. PICK n \in Nat : n = mlModules[i].refs /\ n > 1
    BY <1>1 DEF HoldsShape
  <1>3. mlModules' = [mlModules EXCEPT ![i].refs = n - 1] /\ n - 1 \in Nat /\ UNCHANGED <<mlByName, mlOrder>>
    BY <1>2 DEF UnloadOne
  <1>4. /\ mlHeld' \in [MlThreads -> [Ids -> 0 .. MlMaxHolds]]
        /\ Cardinality(RefsHeld(i)') = Cardinality(RefsHeld(i)) - 1
        /\ \A j \in Ids \ {i} : RefsHeld(j)' = RefsHeld(j)
    BY <1>1, RefsGivenBack DEF UnloadOne
  <1>5. Cardinality(RefsHeld(i)) <= n /\ Cardinality(RefsHeld(i)) \in Nat
    BY <1>1, <1>2, RefsFinite DEF HeldCounted
  <1>6. Cardinality(RefsHeld(i)') <= n - 1
    BY <1>4, <1>5
  <1> QED BY <1>1, <1>3, <1>4, <1>6, RefsSet

\* The last reference goes with the module: nobody else has one.
LEMMA RegistryUnloadLast ==
    ASSUME RegistryInv, LinkInv', NEW t \in MlThreads, NEW i \in Ids, UnloadLast(t, i)
    PROVE  RegistryInv'
  <1>1. /\ HoldsShape /\ HeldCounted /\ i \in DOMAIN mlModules /\ mlModules[i].refs <= 1
        /\ mlHeld[t][i] > 0 \/ mlModules[i].refs = 0
        /\ mlModules' = [j \in DOMAIN mlModules \ {i} |-> mlModules[j]]
        /\ mlByName' = [f \in DOMAIN mlByName \ {mlModules[i].name} |-> mlByName[f]]
        /\ mlOrder' = Among(mlOrder, DOMAIN mlModules \ {i})
        /\ mlHeld' = [mlHeld EXCEPT ![t][i] = 0]
    BY DEF RegistryInv, UnloadLast, Cut1
  <1>2. DOMAIN mlModules' = DOMAIN mlModules \ {i} /\ \A j \in DOMAIN mlModules' : mlModules'[j] = mlModules[j]
    BY <1>1
  <1>3. /\ mlHeld' \in [MlThreads -> [Ids -> 0 .. MlMaxHolds]]
        /\ \A u \in MlThreads, j \in Ids : mlHeld'[u][j] = IF u = t /\ j = i THEN 0 ELSE mlHeld[u][j]
    <2>1. 0 \in 0 .. MlMaxHolds
      OBVIOUS
    <2> QED BY <1>1, <2>1 DEF HoldsShape
  <1>4. \A j \in Ids \ {i} : RefsHeld(j)' = RefsHeld(j)
    BY <1>3 DEF RefsHeld
  <1>5. \A u \in MlThreads : mlHeld'[u][i] = 0
    <2> SUFFICES ASSUME NEW u \in MlThreads, u # t, mlHeld[u][i] # 0 PROVE FALSE
      BY <1>3
    <2>1. mlHeld[u][i] \in Nat /\ mlHeld[u][i] > 0 /\ mlHeld[u][i] <= MlMaxHolds /\ mlHeld[t][i] <= MlMaxHolds
      BY <1>1 DEF HoldsShape
    <2>2. <<u, 1>> \in RefsHeld(i) /\ (mlHeld[t][i] > 0 => <<t, 1>> \in RefsHeld(i))
      <3>1. 1 \in 1 .. MlMaxHolds /\ 1 <= mlHeld[u][i]
        BY <2>1
      <3>2. mlHeld[t][i] > 0 => 1 <= mlHeld[t][i]
        BY <1>1 DEF HoldsShape
      <3> QED BY <3>1, <3>2 DEF RefsHeld
    <2>3. IsFiniteSet(RefsHeld(i)) /\ Cardinality(RefsHeld(i)) \in Nat /\ Cardinality(RefsHeld(i)) <= mlModules[i].refs
          /\ mlModules[i].refs \in Nat
      BY <1>1, RefsFinite DEF HeldCounted, HoldsShape
    <2>4. CASE mlModules[i].refs = 0
      <3>1. Cardinality(RefsHeld(i)) = 0
        BY <2>3, <2>4
      <3>2. RefsHeld(i) = {}
        BY <2>3, <3>1, FS_EmptySet
      <3> QED BY <2>2, <3>2
    <2>5. CASE mlHeld[t][i] > 0
      <3>1. {<<u, 1>>, <<t, 1>>} \subseteq RefsHeld(i) /\ <<u, 1>> # <<t, 1>>
        BY <2>2, <2>5
      <3>2. Cardinality({<<u, 1>>, <<t, 1>>}) = 2
        <4>1. Cardinality({<<u, 1>>}) = 1 /\ IsFiniteSet({<<u, 1>>})
          BY FS_Singleton
        <4>2. {<<u, 1>>, <<t, 1>>} = {<<u, 1>>} \cup {<<t, 1>>} /\ <<t, 1>> \notin {<<u, 1>>}
          BY <3>1
        <4>3. Cardinality({<<u, 1>>} \cup {<<t, 1>>}) = Cardinality({<<u, 1>>}) + 1
          BY <4>1, <4>2, FS_AddElement
        <4> QED BY <4>1, <4>2, <4>3
      <3>3. 2 <= Cardinality(RefsHeld(i))
        BY <2>3, <3>1, <3>2, FS_Subset
      <3> QED BY <1>1, <2>3, <3>3
    <2> QED BY <1>1, <2>4, <2>5
  <1>6. RefsHeld(i)' = {}
    BY <1>5 DEF RefsHeld
  <1>7. HoldsShape'
    BY <1>1, <1>2, <1>3 DEF HoldsShape
  <1>8. HeldCounted'
    <2> SUFFICES ASSUME NEW j \in Ids
                 PROVE  /\ RefsHeld(j)' # {} => j \in DOMAIN mlModules'
                        /\ j \in DOMAIN mlModules' => Cardinality(RefsHeld(j)') <= mlModules'[j].refs
      BY DEF HeldCounted
    <2>1. CASE j = i
      BY <1>2, <1>6, <2>1
    <2>2. CASE j # i
      <3>1. RefsHeld(j)' = RefsHeld(j)
        BY <1>4, <2>2
      <3> QED BY <1>1, <1>2, <2>2, <3>1 DEF HeldCounted
    <2> QED BY <2>1, <2>2
  <1>9. NamesFound'
    BY <1>1, <1>2 DEF RegistryInv, NamesFound
  <1>10. DepsEarlier'
    BY <1>2 DEF RegistryInv, DepsEarlier
  <1>11. OrderListed'
    <2>1. Lists(mlOrder', Ids, DOMAIN mlModules \cap (DOMAIN mlModules \ {i}))
      BY <1>1, AmongLists DEF RegistryInv, OrderListed
    <2>2. DOMAIN mlModules \cap (DOMAIN mlModules \ {i}) = DOMAIN mlModules'
      BY <1>2
    <2> QED BY <2>1, <2>2 DEF OrderListed
  <1> QED BY <1>7, <1>8, <1>9, <1>10, <1>11 DEF RegistryInv

\* A module enters, with a reference of the thread that loaded it or with none.
LEMMA EnterKeeps ==
    ASSUME RegistryInv, LinkInv', NEW m, Enter(m), m.refs \in Nat, m.deps \subseteq DOMAIN mlModules,
           NEW id \in Ids, id = mlNextId,
           mlHeld' \in [MlThreads -> [Ids -> 0 .. MlMaxHolds]],
           \A j \in Ids \ {id} : RefsHeld(j)' = RefsHeld(j),
           Cardinality(RefsHeld(id)') <= m.refs
    PROVE  RegistryInv'
  <1>1. id \in Nat
    BY DEF Ids
  <1>2. /\ mlModules' = [j \in DOMAIN mlModules \cup {id} |-> IF j = id THEN m ELSE mlModules[j]]
        /\ mlByName' = [f \in DOMAIN mlByName \cup {m.name} |-> IF f = m.name THEN id ELSE mlByName[f]]
        /\ mlOrder' = Append(mlOrder, id)
    BY DEF Enter, Put1
  <1>3. /\ HoldsShape /\ HeldCounted /\ NamesFound /\ DepsEarlier /\ OrderListed
        /\ \A j \in DOMAIN mlModules : j < id
    BY DEF RegistryInv, LinkInv, DepsRegistered
  <1>4. id \notin DOMAIN mlModules
    BY <1>1, <1>3
  <1>5. DOMAIN mlModules' = DOMAIN mlModules \cup {id}
    BY <1>2
  <1>6. mlModules'[id] = m /\ \A j \in DOMAIN mlModules : mlModules'[j] = mlModules[j]
    BY <1>2, <1>4, <1>5
  <1>7. HoldsShape'
    BY <1>3, <1>5, <1>6 DEF HoldsShape
  <1>8. HeldCounted'
    <2> SUFFICES ASSUME NEW j \in Ids
                 PROVE  /\ RefsHeld(j)' # {} => j \in DOMAIN mlModules'
                        /\ j \in DOMAIN mlModules' => Cardinality(RefsHeld(j)') <= mlModules'[j].refs
      BY DEF HeldCounted
    <2>1. CASE j = id
      BY <1>5, <1>6, <2>1
    <2>2. CASE j # id
      <3>1. RefsHeld(j)' = RefsHeld(j)
        BY <2>2
      <3> QED BY <1>3, <1>5, <1>6, <2>2, <3>1 DEF HeldCounted
    <2> QED BY <2>1, <2>2
  <1>9. NamesFound'
    <2> SUFFICES ASSUME NEW f \in DOMAIN mlByName'
                 PROVE  mlByName'[f] \in DOMAIN mlModules' /\ mlModules'[mlByName'[f]].name = f
      BY DEF NamesFound
    <2>1. CASE f = m.name
      <3>1. mlByName'[f] = id
        BY <1>2, <2>1
      <3> QED BY <1>5, <1>6, <2>1, <3>1
    <2>2. CASE f # m.name
      <3>1. f \in DOMAIN mlByName /\ mlByName'[f] = mlByName[f]
        BY <1>2, <2>2
      <3> QED BY <1>3, <1>5, <1>6, <3>1 DEF NamesFound
    <2> QED BY <2>1, <2>2
  <1>10. DepsEarlier'
    <2>1. \A j \in m.deps : j < id
      BY <1>3
    <2> QED BY <1>3, <1>5, <1>6, <2>1 DEF DepsEarlier
  <1>11. OrderListed'
    BY <1>2, <1>3, <1>4, <1>5, ListsAppend DEF OrderListed
  <1> QED BY <1>7, <1>8, <1>9, <1>10, <1>11 DEF RegistryInv

LEMMA RegistryRegister ==
    ASSUME RegistryInv, LinkInv', NEW t \in MlThreads, Register(t)
    PROVE  RegistryInv'
  <1>1. PICK f : f = mlThread[t].file
    OBVIOUS
  <1>2. CASE f \in DOMAIN mlByName
    <2>1. PICK i : i = mlByName[f] /\ i \in DOMAIN mlModules
      BY <1>2 DEF RegistryInv, NamesFound
    <2>2. Hold(t, i) /\ mlModules' = [mlModules EXCEPT ![i].refs = @ + 1] /\ UNCHANGED <<mlByName, mlOrder>>
      BY <1>1, <1>2, <2>1 DEF Register
    <2> QED BY <2>1, <2>2, RefsUp
  <1>3. CASE f \notin DOMAIN mlByName
    <2>1. PICK m : m = [name |-> f, base |-> mlThread[t].base, deps |-> {}, refs |-> 1, bound |-> {}]
      OBVIOUS
    <2>2. PICK id \in Ids : id = mlNextId /\ Enter(m) /\ Hold(t, id)
      BY <1>1, <1>3, <2>1 DEF Register
    <2>3. m.refs = 1 /\ m.deps = {} /\ id \in Nat
      BY <2>1 DEF Ids
    <2>4. id \notin DOMAIN mlModules
      BY <2>2, <2>3 DEF RegistryInv, LinkInv, DepsRegistered
    <2>5. RefsHeld(id) = {} /\ HoldsShape
      BY <2>4 DEF RegistryInv, HeldCounted
    <2>6. /\ mlHeld' \in [MlThreads -> [Ids -> 0 .. MlMaxHolds]]
          /\ \A j \in Ids \ {id} : RefsHeld(j)' = RefsHeld(j)
          /\ Cardinality(RefsHeld(id)') = Cardinality(RefsHeld(id)) + 1
      BY <2>2, <2>5, RefsTaken
    <2>7. Cardinality(RefsHeld(id)') <= 1
      BY <2>5, <2>6, FS_EmptySet
    <2> QED BY <2>2, <2>3, <2>6, <2>7, EnterKeeps
  <1> QED BY <1>2, <1>3

LEMMA RegistryReset ==
    ASSUME RegistryInv, LinkInv', ResetRegistry
    PROVE  RegistryInv'
  <1>1. DOMAIN mlModules' = {} /\ DOMAIN mlByName' = {} /\ mlOrder' = <<>>
        /\ mlHeld' = [t \in MlThreads |-> [i \in Ids |-> 0]]
    BY DEF ResetRegistry
  <1>2. 0 \in 0 .. MlMaxHolds
    OBVIOUS
  <1>3. mlHeld' \in [MlThreads -> [Ids -> 0 .. MlMaxHolds]]
    BY <1>1, <1>2
  <1>4. \A i \in Ids : RefsHeld(i)' = {}
    BY <1>1 DEF RefsHeld
  <1>5. HoldsShape' /\ HeldCounted' /\ NamesFound' /\ DepsEarlier'
    BY <1>1, <1>3, <1>4 DEF HoldsShape, HeldCounted, NamesFound, DepsEarlier
  <1>6. OrderListed'
    BY <1>1, ListsEmpty DEF OrderListed
  <1> QED BY <1>5, <1>6 DEF RegistryInv

\* Relocation binds imports and changes nothing else.
LEMMA RegistryRelocates ==
    ASSUME RegistryInv, LinkInv', NEW i \in DOMAIN mlModules, NEW b, mlModules' = [mlModules EXCEPT ![i].bound = b],
           UNCHANGED <<mlByName, mlOrder, mlHeld>>
    PROVE  RegistryInv'
  <1>1. IsModule(mlModules[i]) /\ DOMAIN mlModules' = DOMAIN mlModules
    BY DEF RegistryInv, LinkInv, LinkShape
  <1>2. \A j \in DOMAIN mlModules : mlModules'[j] = IF j = i THEN [mlModules[i] EXCEPT !.bound = b] ELSE mlModules[j]
    BY DEF RegistryInv, LinkInv, LinkShape
  <1>3. \A j \in DOMAIN mlModules : /\ mlModules'[j].refs = mlModules[j].refs /\ mlModules'[j].name = mlModules[j].name
                                    /\ mlModules'[j].deps = mlModules[j].deps
    BY <1>1, <1>2 DEF IsModule
  <1>4. \A j : RefsHeld(j)' = RefsHeld(j)
    BY DEF RefsHeld
  <1>5. HoldsShape' /\ NamesFound' /\ DepsEarlier'
    BY <1>1, <1>3 DEF RegistryInv, HoldsShape, NamesFound, DepsEarlier
  <1>6. HeldCounted'
    BY <1>1, <1>3, <1>4 DEF RegistryInv, HeldCounted
  <1>7. OrderListed'
    BY <1>1 DEF RegistryInv, OrderListed
  <1> QED BY <1>5, <1>6, <1>7 DEF RegistryInv

LEMMA RegistryUntouched ==
    ASSUME RegistryInv, LinkInv', UNCHANGED <<mlModules, mlByName, mlOrder, mlHeld>>
    PROVE  RegistryInv'
  BY DEF RegistryInv, HoldsShape, NamesFound, HeldCounted, RefsHeld, DepsEarlier, OrderListed

LEMMA RegistryInvInit == MlInit => RegistryInv
  <1> SUFFICES ASSUME MlInit PROVE RegistryInv
    OBVIOUS
  <1>1. DOMAIN mlModules = {} /\ DOMAIN mlByName = {} /\ mlOrder = <<>>
        /\ mlHeld = [t \in MlThreads |-> [i \in Ids |-> 0]]
    BY DEF MlInit
  <1>2. 0 \in 0 .. MlMaxHolds
    OBVIOUS
  <1>3. mlHeld \in [MlThreads -> [Ids -> 0 .. MlMaxHolds]]
    BY <1>1, <1>2
  <1>4. \A i \in Ids : RefsHeld(i) = {}
    BY <1>1 DEF RefsHeld
  <1>5. HoldsShape /\ HeldCounted /\ NamesFound /\ DepsEarlier
    BY <1>1, <1>3, <1>4 DEF HoldsShape, HeldCounted, NamesFound, DepsEarlier
  <1>6. OrderListed
    BY <1>1, ListsEmpty DEF OrderListed
  <1> QED BY <1>5, <1>6, LinkInvInit DEF RegistryInv

LEMMA RegistryInvInductive == RegistryInv /\ [MlNext]_mlVars => RegistryInv'
  <1> SUFFICES ASSUME RegistryInv, [MlNext]_mlVars PROVE RegistryInv'
    OBVIOUS
  <1>0. LinkInv /\ LinkInv'
    BY LinkInvInductive DEF RegistryInv
  <1>1. CASE UNCHANGED <<mlModules, mlByName, mlOrder, mlHeld>>
    BY <1>0, <1>1, RegistryUntouched
  <1>2. CASE MlNext
    <2>1. ASSUME NEW t \in MlThreads,
                 MapImage(t) \/ StoreCurrent(t) \/ ResolveSymbol(t) \/ CacheSymbol(t)
          PROVE  RegistryInv'
      BY <1>1, <2>1 DEF MapImage, StoreCurrent, ResolveSymbol, CacheSymbol, mlRegistry
    <2>2. ASSUME NEW t \in MlThreads, Register(t) PROVE RegistryInv'
      BY <1>0, <2>2, RegistryRegister
    <2>3. ASSUME NEW t \in MlThreads, ApplyRelocations(t) PROVE RegistryInv'
      <3>1. UNCHANGED <<mlByName, mlOrder, mlHeld>>
        BY <2>3 DEF ApplyRelocations
      <3>2. CASE mlThread[t].id \notin DOMAIN mlModules
        BY <1>1, <2>3, <3>1, <3>2 DEF ApplyRelocations
      <3>3. CASE mlThread[t].id \in DOMAIN mlModules
        <4>1. PICK b : mlModules' = [mlModules EXCEPT ![mlThread[t].id].bound = b]
          BY <2>3, <3>3 DEF ApplyRelocations
        <4> QED BY <1>0, <3>1, <3>3, <4>1, RegistryRelocates
      <3> QED BY <3>2, <3>3
    <2>4. ASSUME NEW t \in MlThreads, NEW f \in MlFiles, LoadHit(t, f) PROVE RegistryInv'
      <3>1. PICK i : i = mlByName[f] /\ i \in DOMAIN mlModules
        BY <2>4 DEF LoadHit, RegistryInv, NamesFound
      <3>2. Hold(t, i) /\ mlModules' = [mlModules EXCEPT ![i].refs = @ + 1] /\ UNCHANGED <<mlByName, mlOrder>>
        BY <2>4, <3>1 DEF LoadHit
      <3> QED BY <1>0, <3>1, <3>2, RefsUp
    <2>5. ASSUME NEW t \in MlThreads, NEW f \in MlFiles, LoadMiss(t, f) \/ LookupMiss(t, f) PROVE RegistryInv'
      BY <1>1, <2>5 DEF LoadMiss, LookupMiss, mlRegistry
    <2>6. ASSUME NEW t \in MlThreads, NEW i \in Ids, Retain(t, i) PROVE RegistryInv'
      <3>1. i \in DOMAIN mlModules /\ Hold(t, i) /\ mlModules' = [mlModules EXCEPT ![i].refs = @ + 1]
            /\ UNCHANGED <<mlByName, mlOrder>>
        BY <2>6 DEF Retain
      <3> QED BY <1>0, <3>1, RefsUp
    <2>7. ASSUME NEW t \in MlThreads, NEW i \in Ids, UnloadOne(t, i) \/ UnloadLast(t, i) PROVE RegistryInv'
      BY <1>0, <2>7, RegistryUnloadOne, RegistryUnloadLast
    <2>8. ASSUME NEW f \in MlFiles, NEW deps \in SUBSET Ids, RegisterDesc(f, deps) PROVE RegistryInv'
      <3>1. PICK m : m = [name |-> f, base |-> 0, deps |-> deps, refs |-> 0, bound |-> {}]
        OBVIOUS
      <3>2. PICK id \in Ids : id = mlNextId /\ Enter(m)
        BY <2>8, <3>1 DEF RegisterDesc, Enter
      <3>3. m.refs = 0 /\ m.deps \subseteq DOMAIN mlModules /\ UNCHANGED mlHeld /\ id \in Nat
        BY <2>8, <3>1 DEF RegisterDesc, Ids
      <3>4. id \notin DOMAIN mlModules
        BY <3>2, <3>3 DEF RegistryInv, LinkInv, DepsRegistered
      <3>5. \A j : RefsHeld(j)' = RefsHeld(j)
        BY <3>3 DEF RefsHeld
      <3>6. RefsHeld(id)' = {}
        BY <3>4, <3>5 DEF RegistryInv, HeldCounted
      <3>7. Cardinality(RefsHeld(id)') <= 0
        BY <3>6, FS_EmptySet
      <3>8. mlHeld' \in [MlThreads -> [Ids -> 0 .. MlMaxHolds]]
        BY <3>3 DEF RegistryInv, HoldsShape
      <3> QED BY <1>0, <3>2, <3>3, <3>5, <3>7, <3>8, EnterKeeps
    <2>9. CASE ResetRegistry
      BY <1>0, <2>9, RegistryReset
    <2>10. CASE ResetLoader
      BY <1>1, <2>10 DEF ResetLoader, mlRegistry
    <2>11. ASSUME NEW ids, InvalidateCache(ids) PROVE RegistryInv'
      BY <1>1, <2>11 DEF InvalidateCache, mlRegistry
    <2> QED BY <1>2, <2>1, <2>2, <2>3, <2>4, <2>5, <2>6, <2>7, <2>8, <2>9, <2>10, <2>11, Zenon DEF MlNext
  <1> QED BY <1>1, <1>2 DEF mlVars, mlRegistry

\* Ids grow with the registrations, so dependencies have no cycle: all modules can be ordered.
LEMMA ModulesGrounded ==
    ASSUME RegistryInv
    PROVE  Grounded([i \in DOMAIN mlModules |-> mlModules[i].deps], DOMAIN mlModules)
  <1>1. PICK deps : deps = [i \in DOMAIN mlModules |-> mlModules[i].deps]
    OBVIOUS
  <1>2. \A i \in DOMAIN mlModules : deps[i] \subseteq DOMAIN mlModules /\ \A j \in deps[i] : j < i
    BY <1>1 DEF RegistryInv, LinkInv, DepsRegistered, DepsEarlier
  <1>3. ASSUME NEW group \in (SUBSET DOMAIN mlModules) \ {{}}
        PROVE  \E k \in group : deps[k] \cap group = {}
    <2>1. group \subseteq Nat /\ group # {}
      BY DEF RegistryInv, LinkInv, LinkShape
    <2>2. PICK k \in group : \A j \in group : k <= j
      BY <2>1, LeastOf
    <2>3. \A j \in deps[k] : j < k
      BY <1>2
    <2>4. \A j \in group : j \notin deps[k]
      <3>1. \A j \in group : j \in Nat /\ k \in Nat /\ k <= j
        BY <2>1, <2>2
      <3> QED BY <2>3, <3>1
    <2> QED BY <2>4
  <1> QED BY <1>1, <1>2, <1>3 DEF Grounded

(***************************************************************************)
(* Two threads may load a file at once, descriptions take names over and   *)
(* Unload asks for dependents: for any number of threads, files and        *)
(* modules, what a thread holds stays registered, and the linker's order   *)
(* has all modules, each after its dependencies, however the hash map is   *)
(* walked (Load, Retain, Unload, TopologicalOrder).                        *)
(***************************************************************************)
THEOREM RegistryConsistent == MlSpec => []ModulesConsistent
  <1>1. ASSUME RegistryInv PROVE ModulesConsistent
    <2>1. HeldIsRegistered
      <3>1. ASSUME NEW i \in Ids, RefsHeld(i) # {}
            PROVE  i \in DOMAIN mlModules /\ mlModules[i].refs >= Cardinality(RefsHeld(i))
        <4>1. i \in DOMAIN mlModules /\ Cardinality(RefsHeld(i)) <= mlModules[i].refs
          BY <1>1, <3>1 DEF RegistryInv, HeldCounted
        <4>2. Cardinality(RefsHeld(i)) \in Nat /\ mlModules[i].refs \in Nat
          BY <1>1, <4>1, RefsFinite DEF RegistryInv, HoldsShape
        <4> QED BY <4>1, <4>2
      <3> QED BY <3>1 DEF HeldIsRegistered
    <2>2. CacheNotMisattributed
      BY <1>1 DEF RegistryInv, LinkInv, CacheSound, FoundIn, CacheNotMisattributed
    <2>3. ASSUME NEW table \in SetToSeqs(DOMAIN mlModules)
          PROVE  LET order == TopologicalOrder(table)
                 IN  /\ Range(order) = DOMAIN mlModules /\ IsInjective(order)
                     /\ \A n \in DOMAIN order : mlModules[order[n]].deps \subseteq {order[m] : m \in 1 .. n - 1}
      <3>1. PICK K : K = DOMAIN mlModules
        OBVIOUS
      <3>2. PICK deps : deps = [i \in K |-> mlModules[i].deps]
        OBVIOUS
      <3>3. Lists(mlOrder, Ids, K)
        BY <1>1, <3>1 DEF RegistryInv, OrderListed
      <3>4. IsFiniteSet(K)
        BY <3>3, ListsCount
      <3>5. Lists(table, K, K)
        BY <2>3, <3>1, <3>4, SetToSeqsLists
      <3>6. Lists(mlOrder, K, K)
        <4>1. mlOrder \in Seq(Ids) /\ Len(mlOrder) \in Nat /\ DOMAIN mlOrder = 1 .. Len(mlOrder)
          BY <3>3, LenProperties DEF Lists
        <4>2. \A i \in 1 .. Len(mlOrder) : mlOrder[i] \in K
          BY <3>3 DEF Lists
        <4>3. mlOrder = [i \in 1 .. Len(mlOrder) |-> mlOrder[i]]
          BY <4>1, LenProperties
        <4>4. mlOrder \in [1 .. Len(mlOrder) -> K]
          BY <4>2, <4>3
        <4>5. mlOrder \in Seq(K)
          BY <4>1, <4>4, SeqDef
        <4> QED BY <3>3, <4>5 DEF Lists
      <3>7. Grounded(deps, K)
        BY <1>1, <3>1, <3>2, ModulesGrounded
      <3>8. PICK order : order = Kahn(deps, table, mlOrder)
        OBVIOUS
      <3>9. PICK all : all = UNION {S \in SUBSET K : Grounded(deps, S)}
        OBVIOUS
      <3>10. /\ Lists(order, K, all)
             /\ \A n \in 1 .. Len(order) : deps[order[n]] \subseteq Before(order, n)
        BY <3>4, <3>5, <3>6, <3>8, <3>9, KahnOrdersAllThatCanBe
      <3>11. all = K
        <4>1. K \in {S \in SUBSET K : Grounded(deps, S)}
          BY <3>7
        <4> QED BY <3>9, <4>1
      <3>12. Lists(order, K, K)
        BY <3>10, <3>11
      <3>13. Range(order) = K /\ IsInjective(order) /\ DOMAIN order = 1 .. Len(order)
        BY <3>12, ListsRange
      <3>14. \A n \in DOMAIN order : order[n] \in K
        BY <3>12, <3>13 DEF Lists
      <3>15. \A n \in DOMAIN order : mlModules[order[n]].deps \subseteq {order[m] : m \in 1 .. n - 1}
        BY <3>2, <3>10, <3>13, <3>14 DEF Before
      <3>16. TopologicalOrder(table) = order
        BY <3>1, <3>2, <3>8 DEF TopologicalOrder
      <3> QED BY <3>1, <3>13, <3>15, <3>16
    <2>4. DepsBeforeModules
      BY <2>3 DEF DepsBeforeModules
    <2> QED BY <2>1, <2>2, <2>4 DEF ModulesConsistent
  <1> QED BY <1>1, RegistryInvInit, RegistryInvInductive, PTL DEF MlSpec

(* Types. *)

Links == SUBSET (MlFiles \X (0 .. MlMaxBases))
LoaderSteps == [at : {"idle", "map", "store", "register", "relocate", "resolve", "cache"},
              file : MlFiles \cup {NoImage}, base : 0 .. MlMaxBases, id : 0 .. MlMaxIds]

\* A module that is registered, and a thread inside Load or LookupSymbol.
ModuleTyped(m) == m.name \in MlFiles /\ m.base \in 0 .. MlMaxBases /\ m.bound \in Links
LoadTyped(w) == w \in LoaderSteps /\ (w.at # "idle" => w.file \in MlFiles)

ImagesTyped == mlHost \in [Bases -> MlFiles \cup {NoImage}] /\ mlCurrent \in 0 .. MlMaxBases

NamesTyped ==
    /\ mlNextId \in 1 .. MlMaxIds + 1 /\ DOMAIN mlByName \subseteq MlFiles
    /\ \A i \in DOMAIN mlModules : ModuleTyped(mlModules[i])

LoadsTyped ==
    /\ mlThread = [t \in MlThreads |-> mlThread[t]] /\ \A t \in MlThreads : LoadTyped(mlThread[t])
    /\ DOMAIN mlCache \subseteq MlFiles

LinksTyped == ImagesTyped /\ NamesTyped /\ LoadsTyped

LEMMA LinksTypedAre == RegistryInv /\ LinksTyped => MlTypeOK
  <1> SUFFICES ASSUME RegistryInv, LinksTyped PROVE MlTypeOK
    OBVIOUS
  <1>1. ASSUME NEW i \in DOMAIN mlModules
        PROVE  mlModules[i] \in [name : MlFiles, base : 0 .. MlMaxBases, deps : SUBSET Ids, refs : Nat,
                                 bound : SUBSET (MlFiles \X (0 .. MlMaxBases))]
    <2>1. PICK m : m = mlModules[i]
      OBVIOUS
    <2>2. IsModule(m) /\ ModuleTyped(m)
      BY <2>1 DEF RegistryInv, LinkInv, LinkShape, LinksTyped, NamesTyped
    <2>3. m.deps \in SUBSET Ids /\ m.refs \in Nat
      BY <2>1 DEF RegistryInv, LinkInv, DepsRegistered, HoldsShape
    <2> QED BY <2>1, <2>2, <2>3 DEF IsModule, ModuleTyped, Links
  <1>2. DOMAIN mlModules \subseteq Ids /\ mlHeld \in [MlThreads -> [Ids -> 0 .. MlMaxHolds]] /\ mlOrder \in Seq(Ids)
    BY DEF RegistryInv, HoldsShape, OrderListed, Lists
  <1>3. mlThread \in [MlThreads -> LoaderSteps]
    BY DEF LinksTyped, LoadsTyped, LoadTyped
  <1> QED BY <1>1, <1>2, <1>3 DEF MlTypeOK, LinksTyped, ImagesTyped, NamesTyped, LoadsTyped, LoaderSteps

LEMMA LinksTypedInit == MlInit => LinksTyped
  <1> SUFFICES ASSUME MlInit PROVE LinksTyped
    OBVIOUS
  <1>1. DOMAIN mlModules = {} /\ DOMAIN mlByName = {} /\ DOMAIN mlCache = {}
    BY DEF MlInit
  <1>2. LoadTyped(MlIdle)
    BY DEF LoadTyped, LoaderSteps, MlIdle, NoImage
  <1> QED BY <1>1, <1>2 DEF MlInit, LinksTyped, ImagesTyped, NamesTyped, LoadsTyped

\* One thread goes on.
LEMMA LoadGoes ==
    ASSUME LinksTyped, NEW t \in MlThreads, NEW w, LoadTyped(w), Go(t, w), UNCHANGED mlCache
    PROVE  LoadsTyped'
  <1>1. \A u \in MlThreads : mlThread'[u] = IF u = t THEN w ELSE mlThread[u]
    BY DEF Go, LinksTyped, LoadsTyped
  <1>2. mlThread' = [u \in MlThreads |-> mlThread'[u]]
    BY DEF Go, LinksTyped, LoadsTyped
  <1>3. PICK new : new = mlThread'
    OBVIOUS
  <1>4. \A u \in MlThreads : LoadTyped(new[u])
    BY <1>1, <1>3 DEF LinksTyped, LoadsTyped
  <1> QED BY <1>2, <1>3, <1>4 DEF LinksTyped, LoadsTyped

LEMMA IdleTyped == LoadTyped(MlIdle)
  BY DEF LoadTyped, LoaderSteps, MlIdle, NoImage

\* The threads and the cache.
LEMMA LoadsKept ==
    ASSUME RegistryInv, LinksTyped, MlNext
    PROVE  LoadsTyped'
  <1>1. ASSUME NEW t \in MlThreads PROVE LoadTyped(mlThread[t])
    BY DEF LinksTyped, LoadsTyped
  <1>2. CASE UNCHANGED <<mlThread, mlCache>>
    BY <1>2 DEF LinksTyped, LoadsTyped
  <1>3. ASSUME NEW t \in MlThreads, MapImage(t) PROVE LoadsTyped'
    <2>1. PICK w : w = mlThread[t] /\ w \in LoaderSteps /\ w.file \in MlFiles
      BY <1>1, <1>3 DEF LoadTyped, MapImage, At
    <2>2. CASE Go(t, MlIdle)
      BY <1>3, <2>2, IdleTyped, LoadGoes DEF MapImage
    <2>3. ASSUME NEW b \in Bases, Go(t, [mlThread[t] EXCEPT !.at = "store", !.base = b]) PROVE LoadsTyped'
      <3>0. b \in 0 .. MlMaxBases
        BY DEF Bases
      <3>1. LoadTyped([w EXCEPT !.at = "store", !.base = b])
        <4>1. PICK x : x = [w EXCEPT !.at = "store", !.base = b]
          OBVIOUS
        <4>2. x \in LoaderSteps /\ x.file = w.file
          BY <2>1, <3>0, <4>1 DEF LoaderSteps
        <4> QED BY <2>1, <4>1, <4>2 DEF LoadTyped
      <3> QED BY <1>3, <2>1, <2>3, <3>1, LoadGoes DEF MapImage
    <2> QED BY <1>3, <2>2, <2>3 DEF MapImage
  <1>4. ASSUME NEW t \in MlThreads, StoreCurrent(t) PROVE LoadsTyped'
    <2>1. PICK w : w = mlThread[t] /\ w \in LoaderSteps /\ w.file \in MlFiles
      BY <1>1, <1>4 DEF LoadTyped, StoreCurrent, At
    <2>2. LoadTyped([w EXCEPT !.at = "register"])
      BY <2>1 DEF LoadTyped, LoaderSteps
    <2> QED BY <1>4, <2>1, <2>2, LoadGoes DEF StoreCurrent
  <1>5. ASSUME NEW t \in MlThreads, Register(t) PROVE LoadsTyped'
    <2>1. PICK w : w = mlThread[t] /\ w \in LoaderSteps /\ w.file \in MlFiles
      BY <1>1, <1>5 DEF LoadTyped, Register, At
    <2>2. PICK id \in Ids : Go(t, [w EXCEPT !.at = "relocate", !.id = id])
      BY <1>5, <2>1 DEF Register
    <2>3. LoadTyped([w EXCEPT !.at = "relocate", !.id = id])
      <3>1. id \in 0 .. MlMaxIds
        BY DEF Ids
      <3>2. PICK x : x = [w EXCEPT !.at = "relocate", !.id = id]
        OBVIOUS
      <3>3. x \in LoaderSteps /\ x.file = w.file
        BY <2>1, <3>1, <3>2 DEF LoaderSteps
      <3> QED BY <2>1, <3>2, <3>3 DEF LoadTyped
    <2> QED BY <1>5, <2>2, <2>3, LoadGoes DEF Register
  <1>6. ASSUME NEW t \in MlThreads, ApplyRelocations(t) PROVE LoadsTyped'
    BY <1>6, IdleTyped, LoadGoes DEF ApplyRelocations
  <1>7. ASSUME NEW t \in MlThreads, NEW f \in MlFiles, LoadMiss(t, f) \/ LookupMiss(t, f) PROVE LoadsTyped'
    <2>1. PICK w : w = MlIdle /\ w \in LoaderSteps
      BY IdleTyped DEF LoadTyped
    <2>2. LoadTyped([w EXCEPT !.at = "map", !.file = f])
      <3>1. PICK x : x = [w EXCEPT !.at = "map", !.file = f]
        OBVIOUS
      <3>2. x \in LoaderSteps /\ x.file = f
        BY <2>1, <3>1 DEF LoaderSteps
      <3> QED BY <3>1, <3>2 DEF LoadTyped
    <2>3. LoadTyped([w EXCEPT !.at = "resolve", !.file = f])
      <3>1. PICK x : x = [w EXCEPT !.at = "resolve", !.file = f]
        OBVIOUS
      <3>2. x \in LoaderSteps /\ x.file = f
        BY <2>1, <3>1 DEF LoaderSteps
      <3> QED BY <3>1, <3>2 DEF LoadTyped
    <2> QED BY <1>7, <2>1, <2>2, <2>3, LoadGoes DEF LoadMiss, LookupMiss
  <1>8. ASSUME NEW t \in MlThreads, ResolveSymbol(t) PROVE LoadsTyped'
    <2>1. PICK w : w = mlThread[t] /\ w \in LoaderSteps /\ w.file \in MlFiles
      BY <1>1, <1>8 DEF LoadTyped, ResolveSymbol, At
    <2>2. CASE Go(t, MlIdle)
      BY <1>8, <2>2, IdleTyped, LoadGoes DEF ResolveSymbol
    <2>3. CASE ~Go(t, MlIdle)
      <3>1. PICK i \in DOMAIN mlModules : Go(t, [w EXCEPT !.at = "cache", !.id = i, !.base = mlModules[i].base])
        BY <1>8, <2>1, <2>3 DEF ResolveSymbol
      <3>2. PICK b \in 0 .. MlMaxBases : b = mlModules[i].base
        BY DEF LinksTyped, NamesTyped, ModuleTyped
      <3>3. i \in 0 .. MlMaxIds
        BY DEF RegistryInv, HoldsShape, Ids
      <3>4. LoadTyped([w EXCEPT !.at = "cache", !.id = i, !.base = b])
        BY <2>1, <3>3 DEF LoadTyped, LoaderSteps
      <3> QED BY <1>8, <3>1, <3>2, <3>4, LoadGoes DEF ResolveSymbol
    <2> QED BY <2>2, <2>3
  <1>9. ASSUME NEW t \in MlThreads, CacheSymbol(t) PROVE LoadsTyped'
    <2>1. PICK w : w = mlThread[t] /\ w.file \in MlFiles
      BY <1>1, <1>9 DEF LoadTyped, CacheSymbol, At
    <2>2. DOMAIN mlCache' = DOMAIN mlCache \cup {w.file}
      BY <1>9, <2>1 DEF CacheSymbol, Put1
    <2>3. DOMAIN mlCache' \subseteq MlFiles
      BY <2>1, <2>2 DEF LinksTyped, LoadsTyped
    <2>4. \A u \in MlThreads : mlThread'[u] = IF u = t THEN MlIdle ELSE mlThread[u]
      BY <1>9 DEF CacheSymbol, Go, LinksTyped, LoadsTyped
    <2>5. PICK new : new = mlThread' /\ new = [u \in MlThreads |-> new[u]]
      BY <1>9 DEF CacheSymbol, Go, LinksTyped, LoadsTyped
    <2>6. \A u \in MlThreads : LoadTyped(new[u])
      BY <1>1, <2>4, <2>5, IdleTyped
    <2> QED BY <2>3, <2>5, <2>6 DEF LoadsTyped
  <1>10. ASSUME NEW ids, InvalidateCache(ids) PROVE LoadsTyped'
    <2>1. DOMAIN mlCache' \subseteq DOMAIN mlCache /\ UNCHANGED mlThread
      BY <1>10 DEF InvalidateCache
    <2> QED BY <2>1 DEF LinksTyped, LoadsTyped
  <1>11. ASSUME NEW t \in MlThreads, NEW f \in MlFiles, LoadHit(t, f) PROVE LoadsTyped'
    BY <1>2, <1>11 DEF LoadHit
  <1>12. ASSUME NEW t \in MlThreads, NEW i \in Ids, Retain(t, i) \/ UnloadOne(t, i) \/ UnloadLast(t, i) PROVE LoadsTyped'
    BY <1>2, <1>12 DEF Retain, UnloadOne, UnloadLast
  <1>13. ASSUME NEW f, NEW deps, RegisterDesc(f, deps) PROVE LoadsTyped'
    BY <1>2, <1>13 DEF RegisterDesc
  <1>14. CASE ResetRegistry \/ ResetLoader
    BY <1>2, <1>14 DEF ResetRegistry, ResetLoader
  <1> QED BY <1>3, <1>4, <1>5, <1>6, <1>7, <1>8, <1>9, <1>10, <1>11, <1>12, <1>13, <1>14, Zenon DEF MlNext

\* The images.
LEMMA ImagesKept ==
    ASSUME RegistryInv, LinksTyped, MlNext
    PROVE  ImagesTyped'
  <1>1. mlHost \in [Bases -> MlFiles \cup {NoImage}] /\ mlCurrent \in 0 .. MlMaxBases
    BY DEF LinksTyped, ImagesTyped
  <1>2. ASSUME NEW t \in MlThreads PROVE LoadTyped(mlThread[t])
    BY DEF LinksTyped, LoadsTyped
  <1>3. CASE UNCHANGED <<mlHost, mlCurrent>>
    BY <1>1, <1>3 DEF ImagesTyped
  <1>4. ASSUME NEW t \in MlThreads, MapImage(t) PROVE ImagesTyped'
    <2>1. mlThread[t].file \in MlFiles
      BY <1>2, <1>4 DEF LoadTyped, MapImage, At
    <2> QED BY <1>1, <1>4, <2>1 DEF MapImage, ImagesTyped
  <1>5. ASSUME NEW t \in MlThreads, StoreCurrent(t) PROVE ImagesTyped'
    <2>1. mlThread[t].base \in 0 .. MlMaxBases
      BY <1>2 DEF LoadTyped, LoaderSteps
    <2> QED BY <1>1, <1>5, <2>1 DEF StoreCurrent, ImagesTyped
  <1>6. ASSUME NEW t \in MlThreads, NEW i \in Ids, UnloadLast(t, i) PROVE ImagesTyped'
    BY <1>1, <1>6 DEF UnloadLast, Unmapped, ImagesTyped
  <1>7. CASE ResetRegistry
    BY <1>1, <1>7 DEF ResetRegistry, ImagesTyped
  <1>8. CASE ResetLoader
    <2>1. mlHost' = mlHost \/ mlHost' = [mlHost EXCEPT ![mlCurrent] = NoImage]
      BY <1>8 DEF ResetLoader, Unmapped
    <2>2. mlCurrent' = 0 /\ 0 \in 0 .. MlMaxBases
      BY <1>8 DEF ResetLoader
    <2>3. mlHost' \in [Bases -> MlFiles \cup {NoImage}]
      BY <1>1, <2>1
    <2> QED BY <2>2, <2>3 DEF ImagesTyped
  <1>9. ASSUME NEW t \in MlThreads,
               Register(t) \/ ApplyRelocations(t) \/ ResolveSymbol(t) \/ CacheSymbol(t)
        PROVE  ImagesTyped'
    BY <1>3, <1>9 DEF Register, ApplyRelocations, ResolveSymbol, CacheSymbol
  <1>10. ASSUME NEW t \in MlThreads, NEW f \in MlFiles, LoadHit(t, f) \/ LoadMiss(t, f) \/ LookupMiss(t, f) PROVE ImagesTyped'
    BY <1>3, <1>10 DEF LoadHit, LoadMiss, LookupMiss
  <1>11. ASSUME NEW t \in MlThreads, NEW i \in Ids, Retain(t, i) \/ UnloadOne(t, i) PROVE ImagesTyped'
    BY <1>3, <1>11 DEF Retain, UnloadOne
  <1>12. ASSUME NEW f, NEW deps, RegisterDesc(f, deps) PROVE ImagesTyped'
    BY <1>3, <1>12 DEF RegisterDesc
  <1>13. ASSUME NEW ids, InvalidateCache(ids) PROVE ImagesTyped'
    BY <1>3, <1>13 DEF InvalidateCache
  <1> QED BY <1>4, <1>5, <1>6, <1>7, <1>8, <1>9, <1>10, <1>11, <1>12, <1>13, Zenon DEF MlNext

\* A module that is counted or bound keeps its name and its address; one that enters is typed.
LEMMA ModuleChanges ==
    ASSUME RegistryInv, LinksTyped, NEW i \in DOMAIN mlModules, NEW m, ModuleTyped(m),
           mlModules' = [mlModules EXCEPT ![i] = m], UNCHANGED <<mlByName, mlNextId>>
    PROVE  NamesTyped'
  <1>1. \A j \in DOMAIN mlModules : mlModules'[j] = IF j = i THEN m ELSE mlModules[j]
    BY DEF RegistryInv, LinkInv, LinkShape
  <1>2. DOMAIN mlModules' = DOMAIN mlModules
    BY DEF RegistryInv, LinkInv, LinkShape
  <1>3. PICK new : new = mlModules'
    OBVIOUS
  <1>4. \A j \in DOMAIN new : ModuleTyped(new[j])
    BY <1>1, <1>2, <1>3 DEF LinksTyped, NamesTyped
  <1> QED BY <1>3, <1>4 DEF LinksTyped, NamesTyped

LEMMA ModuleCounted ==
    ASSUME RegistryInv, LinksTyped, NEW i \in DOMAIN mlModules, NEW r,
           mlModules' = [mlModules EXCEPT ![i].refs = r], UNCHANGED <<mlByName, mlNextId>>
    PROVE  NamesTyped'
  <1>1. PICK m : m = mlModules[i] /\ IsModule(m) /\ ModuleTyped(m)
    BY DEF RegistryInv, LinkInv, LinkShape, LinksTyped, NamesTyped
  <1>2. PICK new : new = [m EXCEPT !.refs = r]
    OBVIOUS
  <1>3. ModuleTyped(new)
    BY <1>1, <1>2 DEF IsModule, ModuleTyped
  <1>4. mlModules' = [mlModules EXCEPT ![i] = new]
    BY <1>1, <1>2 DEF RegistryInv, LinkInv, LinkShape
  <1> QED BY <1>3, <1>4, ModuleChanges

LEMMA ModuleEnters ==
    ASSUME LinksTyped, NEW m, ModuleTyped(m), Enter(m)
    PROVE  NamesTyped'
  <1>1. /\ mlNextId \in Ids /\ mlNextId' = mlNextId + 1
        /\ DOMAIN mlByName' = DOMAIN mlByName \cup {m.name}
        /\ DOMAIN mlModules' = DOMAIN mlModules \cup {mlNextId}
        /\ \A j \in DOMAIN mlModules' : mlModules'[j] = IF j = mlNextId THEN m ELSE mlModules[j]
    BY DEF Enter, Put1
  <1>2. mlNextId' \in 1 .. MlMaxIds + 1
    <2>1. PICK n \in Nat : n = mlNextId /\ 1 <= n /\ n <= MlMaxIds
      BY <1>1 DEF Ids
    <2>2. mlNextId' = n + 1 /\ n + 1 \in Nat
      BY <1>1, <2>1
    <2> QED BY <2>1, <2>2
  <1>3. DOMAIN mlByName' \subseteq MlFiles
    BY <1>1 DEF LinksTyped, NamesTyped, ModuleTyped
  <1>4. PICK new : new = mlModules'
    OBVIOUS
  <1>5. \A j \in DOMAIN new : ModuleTyped(new[j])
    BY <1>1, <1>4 DEF LinksTyped, NamesTyped
  <1> QED BY <1>2, <1>3, <1>4, <1>5 DEF NamesTyped

\* The registry's tables.
LEMMA NamesKept ==
    ASSUME RegistryInv, LinksTyped, MlNext
    PROVE  NamesTyped'
  <1>1. ASSUME NEW t \in MlThreads PROVE LoadTyped(mlThread[t])
    BY DEF LinksTyped, LoadsTyped
  <1>2. CASE UNCHANGED <<mlModules, mlByName, mlNextId>>
    BY <1>2 DEF LinksTyped, NamesTyped
  <1>3. \A f \in DOMAIN mlByName : mlByName[f] \in DOMAIN mlModules
    BY DEF RegistryInv, NamesFound
  <1>4. ASSUME NEW t \in MlThreads, Register(t) PROVE NamesTyped'
    <2>1. PICK w : w = mlThread[t] /\ w.file \in MlFiles /\ w.base \in 0 .. MlMaxBases
      BY <1>1, <1>4 DEF LoadTyped, LoaderSteps, Register, At
    <2>2. CASE w.file \in DOMAIN mlByName
      <3>1. PICK i \in DOMAIN mlModules : i = mlByName[w.file]
        BY <1>3, <2>2
      <3>2. mlModules' = [mlModules EXCEPT ![i].refs = mlModules[i].refs + 1] /\ UNCHANGED <<mlByName, mlNextId>>
        BY <1>4, <2>1, <2>2, <3>1 DEF Register
      <3> QED BY <3>2, ModuleCounted
    <2>3. CASE w.file \notin DOMAIN mlByName
      <3>1. PICK m : m = [name |-> w.file, base |-> w.base, deps |-> {}, refs |-> 1, bound |-> {}]
        OBVIOUS
      <3>2. ModuleTyped(m)
        BY <2>1, <3>1 DEF ModuleTyped, Links
      <3>3. Enter(m)
        BY <1>4, <2>1, <2>3, <3>1 DEF Register
      <3> QED BY <3>2, <3>3, ModuleEnters
    <2> QED BY <2>2, <2>3
  <1>5. ASSUME NEW t \in MlThreads, ApplyRelocations(t) PROVE NamesTyped'
    <2>1. PICK i : i = mlThread[t].id
      OBVIOUS
    <2>2. CASE i \notin DOMAIN mlModules
      BY <1>2, <1>5, <2>1, <2>2 DEF ApplyRelocations
    <2>3. CASE i \in DOMAIN mlModules
      <3> DEFINE Bound(s) == {j \in DOMAIN mlModules \ {mlThread[t].id} : mlModules[j].name = s /\ mlModules[j].base # 0}
                 Found == {s \in MlImports[mlModules[mlThread[t].id].name] : Bound(s) # {}}
      <3>A. mlThread[t].id \in DOMAIN mlModules
        BY <2>1, <2>3
      <3>B. PICK pick \in [Found -> DOMAIN mlModules] :
               mlModules' = [mlModules EXCEPT ![mlThread[t].id].bound = {<<s, mlModules[pick[s]].base>> : s \in Found}]
        BY <1>5, <3>A, Zenon DEF ApplyRelocations
      <3>C. PICK found : found = Found
        OBVIOUS
      <3>D. pick \in [found -> DOMAIN mlModules]
        BY <3>B, <3>C
      <3>E. mlModules' = [mlModules EXCEPT ![i].bound = {<<s, mlModules[pick[s]].base>> : s \in found}]
        BY <2>1, <3>B, <3>C
      <3>1. found \subseteq MlImports[mlModules[i].name]
        BY <2>1, <3>C
      <3> HIDE DEF Bound, Found
      <3>2. PICK links : links = {<<s, mlModules[pick[s]].base>> : s \in found}
        OBVIOUS
      <3>3. links \in Links
        <4>1. found \subseteq MlFiles
          <5>1. PICK f \in MlFiles : f = mlModules[i].name
            BY <2>3 DEF LinksTyped, NamesTyped, ModuleTyped
          <5>2. MlImports[f] \subseteq MlFiles
            BY <5>1
          <5> QED BY <3>1, <5>1, <5>2
        <4>2. \A s \in found : mlModules[pick[s]].base \in 0 .. MlMaxBases
          BY <3>D DEF LinksTyped, NamesTyped, ModuleTyped
        <4> QED BY <3>2, <4>1, <4>2 DEF Links
      <3>4. PICK m : m = mlModules[i] /\ IsModule(m) /\ ModuleTyped(m)
        BY <2>3 DEF RegistryInv, LinkInv, LinkShape, LinksTyped, NamesTyped
      <3>5. PICK new : new = [m EXCEPT !.bound = links]
        OBVIOUS
      <3>6. ModuleTyped(new)
        BY <3>3, <3>4, <3>5 DEF IsModule, ModuleTyped
      <3>7. mlModules' = [mlModules EXCEPT ![i] = new]
        BY <3>E, <3>2, <3>4, <3>5 DEF RegistryInv, LinkInv, LinkShape
      <3> QED BY <1>5, <2>3, <3>6, <3>7, ModuleChanges DEF ApplyRelocations
    <2> QED BY <2>2, <2>3
  <1>6. ASSUME NEW t \in MlThreads, NEW f \in MlFiles, LoadHit(t, f) PROVE NamesTyped'
    <2>1. PICK i \in DOMAIN mlModules : i = mlByName[f]
      BY <1>3, <1>6 DEF LoadHit
    <2>2. mlModules' = [mlModules EXCEPT ![i].refs = mlModules[i].refs + 1] /\ UNCHANGED <<mlByName, mlNextId>>
      BY <1>6, <2>1 DEF LoadHit
    <2> QED BY <2>2, ModuleCounted
  <1>7. ASSUME NEW t \in MlThreads, NEW i \in Ids, Retain(t, i) PROVE NamesTyped'
    <2>1. i \in DOMAIN mlModules /\ mlModules' = [mlModules EXCEPT ![i].refs = mlModules[i].refs + 1]
          /\ UNCHANGED <<mlByName, mlNextId>>
      BY <1>7 DEF Retain
    <2> QED BY <2>1, ModuleCounted
  <1>8. ASSUME NEW t \in MlThreads, NEW i \in Ids, UnloadOne(t, i) PROVE NamesTyped'
    <2>1. i \in DOMAIN mlModules /\ mlModules' = [mlModules EXCEPT ![i].refs = mlModules[i].refs - 1]
          /\ UNCHANGED <<mlByName, mlNextId>>
      BY <1>8 DEF UnloadOne
    <2> QED BY <2>1, ModuleCounted
  <1>9. ASSUME NEW t \in MlThreads, NEW i \in Ids, UnloadLast(t, i) PROVE NamesTyped'
    <2>1. /\ DOMAIN mlModules' = DOMAIN mlModules \ {i} /\ \A j \in DOMAIN mlModules' : mlModules'[j] = mlModules[j]
          /\ DOMAIN mlByName' \subseteq DOMAIN mlByName /\ UNCHANGED mlNextId
      BY <1>9 DEF UnloadLast, Cut1
    <2>2. PICK new : new = mlModules'
      OBVIOUS
    <2>3. \A j \in DOMAIN new : ModuleTyped(new[j])
      BY <2>1, <2>2 DEF LinksTyped, NamesTyped
    <2> QED BY <2>1, <2>2, <2>3 DEF LinksTyped, NamesTyped
  <1>10. ASSUME NEW f \in MlFiles, NEW deps, RegisterDesc(f, deps) PROVE NamesTyped'
    <2>1. PICK m : m = [name |-> f, base |-> 0, deps |-> deps, refs |-> 0, bound |-> {}]
      OBVIOUS
    <2>2. ModuleTyped(m)
      <3>1. m.name = f /\ m.base = 0 /\ m.bound = {}
        BY <2>1
      <3>2. 0 \in 0 .. MlMaxBases /\ {} \in Links
        BY DEF Links
      <3> QED BY <3>1, <3>2 DEF ModuleTyped
    <2>3. Enter(m)
      BY <1>10, <2>1 DEF RegisterDesc
    <2> QED BY <2>2, <2>3, ModuleEnters
  <1>11. CASE ResetRegistry
    <2>1. DOMAIN mlModules' = {} /\ DOMAIN mlByName' = {} /\ UNCHANGED mlNextId
      BY <1>11 DEF ResetRegistry
    <2>2. mlNextId' \in 1 .. MlMaxIds + 1
      BY <2>1 DEF LinksTyped, NamesTyped
    <2> QED BY <2>1, <2>2 DEF NamesTyped
  <1>12. CASE ResetLoader
    BY <1>2, <1>12 DEF ResetLoader, mlRegistry
  <1>13. ASSUME NEW t \in MlThreads, MapImage(t) \/ StoreCurrent(t) \/ ResolveSymbol(t) \/ CacheSymbol(t) PROVE NamesTyped'
    BY <1>2, <1>13 DEF MapImage, StoreCurrent, ResolveSymbol, CacheSymbol, mlRegistry
  <1>14. ASSUME NEW t \in MlThreads, NEW f \in MlFiles, LoadMiss(t, f) \/ LookupMiss(t, f) PROVE NamesTyped'
    BY <1>2, <1>14 DEF LoadMiss, LookupMiss, mlRegistry
  <1>15. ASSUME NEW ids, InvalidateCache(ids) PROVE NamesTyped'
    BY <1>2, <1>15 DEF InvalidateCache, mlRegistry
  <1> QED BY <1>4, <1>5, <1>6, <1>7, <1>8, <1>9, <1>10, <1>11, <1>12, <1>13, <1>14, <1>15, Zenon DEF MlNext

LEMMA LinksTypedInductive == RegistryInv /\ LinksTyped /\ [MlNext]_mlVars => LinksTyped'
  <1>1. ASSUME LinksTyped, UNCHANGED mlVars PROVE LinksTyped'
    BY <1>1 DEF mlVars, mlRegistry, LinksTyped, ImagesTyped, NamesTyped, LoadsTyped
  <1>2. ASSUME RegistryInv, LinksTyped, MlNext PROVE LinksTyped'
    BY <1>2, ImagesKept, NamesKept, LoadsKept DEF LinksTyped
  <1> QED BY <1>1, <1>2

\* The loader, the registry and the linker keep their types for any threads, files and images.
THEOREM ModulesTyped == MlSpec => []MlTypeOK
  BY RegistryInvInit, RegistryInvInductive, LinksTypedInit, LinksTypedInductive, LinksTypedAre, PTL DEF MlSpec

HIDE ModuleLinkingAssumption DEF ModuleLinkingAssumption

-----------------------------------------------------------------------------
(* Side by side.  A behaviour of the services is one of each: the step of  *)
(* one is a step or a stutter of every other.                              *)

LEMMA InitOfEach ==
    Init => KsInit /\ FsInit /\ SsInit /\ ExInit /\ MlInit /\ AuInit /\ GlInit /\ SyInit
  BY DEF Init

LEMMA StepOfKernel == [Next]_serviceVars => [KsNext]_ksVars
  <1> SUFFICES ASSUME [Next]_serviceVars PROVE [KsNext]_ksVars
    OBVIOUS
  <1>1. CASE StepKernel
    BY <1>1 DEF StepKernel, KsNext
  <1>2. CASE UNCHANGED ksVars
    BY <1>2
  <1> QED BY <1>1, <1>2 DEF Next, serviceVars, StepFiles, StepSaves, StepExecution, StepModules, StepAudio, StepGpu, StepSyscalls

LEMMA StepOfFiles == [Next]_serviceVars => [FsNext]_fsVars
  BY DEF Next, serviceVars, StepKernel, StepFiles, StepSaves, StepExecution, StepModules, StepAudio, StepGpu, StepSyscalls

LEMMA StepOfSaves == [Next]_serviceVars => [SsNext]_ssVars
  BY DEF Next, serviceVars, StepKernel, StepFiles, StepSaves, StepExecution, StepModules, StepAudio, StepGpu, StepSyscalls

LEMMA StepOfExecution == [Next]_serviceVars => [ExNext]_exVars
  BY DEF Next, serviceVars, StepKernel, StepFiles, StepSaves, StepExecution, StepModules, StepAudio, StepGpu, StepSyscalls

LEMMA StepOfModules == [Next]_serviceVars => [MlNext]_mlVars
  BY DEF Next, serviceVars, StepKernel, StepFiles, StepSaves, StepExecution, StepModules, StepAudio, StepGpu, StepSyscalls

LEMMA StepOfAudio == [Next]_serviceVars => [AuNext]_auVars
  BY DEF Next, serviceVars, StepKernel, StepFiles, StepSaves, StepExecution, StepModules, StepAudio, StepGpu, StepSyscalls

LEMMA StepOfGpu == [Next]_serviceVars => [GlNext]_glVars
  BY DEF Next, serviceVars, StepKernel, StepFiles, StepSaves, StepExecution, StepModules, StepAudio, StepGpu, StepSyscalls, GlNext, glVars

LEMMA StepOfSyscalls == [Next]_serviceVars => [SyNext]_syVars
  BY DEF Next, serviceVars, StepKernel, StepFiles, StepSaves, StepExecution, StepModules, StepAudio, StepGpu, StepSyscalls

(***************************************************************************)
(* The services have their own mutexes and share no field: whatever they   *)
(* do side by side, each behaves as it does alone.                         *)
(***************************************************************************)
THEOREM ServicesSideBySide ==
    Spec => KsSpec /\ FsSpec /\ SsSpec /\ ExSpec /\ MlSpec /\ AuSpec /\ GlSpec /\ SySpec
  BY InitOfEach, StepOfKernel, StepOfFiles, StepOfSaves, StepOfExecution, StepOfModules, StepOfAudio, StepOfGpu,
     StepOfSyscalls, PTL
     DEF Spec, KsSpec, FsSpec, SsSpec, ExSpec, MlSpec, AuSpec, GlSpec, SySpec

(***************************************************************************)
(* What each service promises alone it promises beside the others: the     *)
(* queue is a mailbox, shared memory and queues serve, writers write where *)
(* they may, saves load as they were written, the framework's locks are    *)
(* taken in order, modules stay while they are held or depended on and are *)
(* ordered after their dependencies, ports are heard as filled, command    *)
(* lists are carried out as built, fences wake who waits for them and      *)
(* blocks of the heap do not overlap.  The guest keeps its memory if it    *)
(* unmaps whole reservations.                                              *)
(***************************************************************************)
THEOREM ServicesKeepPromises ==
    Spec => /\ MqIsMailbox
            /\ SavesAreAtomic
            /\ [](/\ SharedObjectsServe
                  /\ WritersAreAllowed
                  /\ LoadedFromOneSave
                  /\ ExecNoLockCycle
                  /\ ModulesConsistent
                  /\ HeardAsFilled
                  /\ CommandsCarriedOut)
            /\ (SyWhole => []GuestMemoryKept)
  <1>1. SySpec => (SyWhole => []GuestMemoryKept)
    BY GuestKeepsMemory
  <1> QED BY <1>1, ServicesSideBySide, SharedObjectsAlwaysServe, QueueIsMailbox, WritersOnWritableMounts,
             LoadsFromOneSave, SlotsHoldWholeSaves, FrameworkLocksInOrder, RegistryConsistent, PortsHeardAsFilled,
             CommandsAreCarriedOut, PTL

ServiceNamed == service \in Services

\* Every service keeps the types of its state, beside the others.
THEOREM ServicesTyped == Spec => []ServicesTypeOK
  <1>1. Init => ServiceNamed
    BY DEF Init, ServiceNamed
  <1>2. ServiceNamed /\ [Next]_serviceVars => ServiceNamed'
    BY DEF ServiceNamed, Next, serviceVars, StepKernel, StepFiles, StepSaves, StepExecution, StepModules, StepAudio,
           StepGpu, StepSyscalls
  <1>3. Spec => []ServiceNamed
    BY <1>1, <1>2, PTL DEF Spec
  <1>4. FsSpec => []FsTypeOK
    BY FsTypeInit, FsTypeInductive, PTL DEF FsSpec
  <1>5. SsSpec => []SsTypeOK
    BY SsInvInit, SsInvInductive, SsInvTyped, PTL DEF SsSpec
  <1>6. ExSpec => []ExTypeOK
    BY ExInvInit, ExInvInductive, ExInvTyped, PTL DEF ExSpec
  <1>7. AuSpec => []AuTypeOK
    BY AuInvInit, AuInvInductive, AuInvTyped, PTL DEF AuSpec
  <1>8. SySpec => []SyTypeOK
    <2>1. SyInv => SyTypeOK
      BY DEF SyInv
    <2> QED BY <2>1, SyInvInit, SyInvInductive, PTL DEF SySpec
  <1>9. /\ ServiceNamed /\ KsTypeOK /\ FsTypeOK /\ SsTypeOK /\ ExTypeOK /\ MlTypeOK /\ AuTypeOK /\ GlTypeOK /\ SyTypeOK
        => ServicesTypeOK
    BY DEF ServicesTypeOK, ServiceNamed
  <1> QED BY <1>3, <1>4, <1>5, <1>6, <1>7, <1>8, <1>9, KernelServicesTyped, ModulesTyped, GlTyped, ServicesSideBySide, PTL
=============================================================================
