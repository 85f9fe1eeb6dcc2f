------------------------------- MODULE Syscalls -------------------------------
(***************************************************************************)
(* Syscalls.cpp as built for Windows: the table that Process::Create       *)
(* clears and fills again, Dispatch with its look-up under tableMtx and    *)
(* its handler outside it, the break that brk moves through a reserved     *)
(* range, and the regions of mmap, munmap and mprotect.  Addresses are     *)
(* words below SyWord, counted in pages; SySmall stands for 16 MB and      *)
(* SyReserve for kBrkReserve.  Handlers that only answer or write to the   *)
(* guest's own memory are "other".                                         *)
(***************************************************************************)
EXTENDS Naturals, FiniteSets, Sequences

CONSTANTS SyThreads,  \* guest threads
          SyWord,     \* size_t counts modulo SyWord
          SySmall,
          SyReserve,
          SyHeap,     \* where the host reserves the break's range
          SyRegions,  \* places where the host may put a mapping
          SyMaxLen,   \* bound: pages of one mapping
          SyWhole     \* guests unmap what they mapped, whole

ASSUME SyscallsAssumption ==
    /\ SyWord \in Nat /\ SySmall \in Nat /\ SyReserve \in Nat /\ SyMaxLen \in Nat
    /\ SyHeap \in Nat \ {0} /\ SyHeap + SyReserve < SyWord
    /\ SyWhole \in BOOLEAN

VARIABLES syHeap,    \* brkBase, brkSize, brkCurrent, and the host's committed pages above brkBase
          syMaps,    \* the pages of each region with their protection
          syAsked,   \* what the guest was told of them
          syTable,   \* the numbers in the table
          syPending, \* the numbers RegisterBuiltins has still to enter
          syCall     \* where each guest thread is, and the number it called

syVars == <<syHeap, syMaps, syAsked, syTable, syPending, syCall>>

Rights   == SUBSET {"r", "w", "x"}
Handlers == <<"other", "brk", "mmap", "munmap", "mprotect">>
Numbers  == {"other", "brk", "mmap", "munmap", "mprotect"}
SyPages  == 1 .. SyMaxLen
NoPages  == [p \in {} |-> {}]
PageMaps == UNION {[S -> Rights] : S \in SUBSET SyPages}

\* The type of the break, the regions and the calls under way.
SyTypeOK ==
    /\ syHeap \in [base : {0, SyHeap}, size : 0 .. SyReserve, brk : 0 .. SyWord - 1, committed : SUBSET (0 .. SyReserve - 1)]
    /\ syMaps \in [SyRegions -> PageMaps]
    /\ syAsked \in [SyRegions -> PageMaps]
    /\ syTable \subseteq Numbers
    /\ syPending \in Seq(Numbers)
    /\ syCall \in [SyThreads -> [at : {"idle", "found", "missing"}, nr : Numbers]]

SyInit ==
    /\ syHeap = [base |-> 0, size |-> 0, brk |-> 0, committed |-> {}]
    /\ syMaps = [r \in SyRegions |-> NoPages]
    /\ syAsked = [r \in SyRegions |-> NoPages]
    /\ syTable = {}
    /\ syPending = <<>>
    /\ syCall = [t \in SyThreads |-> [at |-> "idle", nr |-> "other"]]

syCalls == <<syTable, syPending>>
-----------------------------------------------------------------------------
\* Process::Create clears the table with Init and enters the handlers one by one.
InitTable ==
    /\ syPending = <<>>
    /\ syTable' = {}
    /\ syPending' = Handlers
    /\ UNCHANGED <<syHeap, syMaps, syAsked, syCall>>

RegisterSyscall ==
    /\ syPending # <<>>
    /\ syTable' = syTable \cup {Head(syPending)}
    /\ syPending' = Tail(syPending)
    /\ UNCHANGED <<syHeap, syMaps, syAsked, syCall>>

\* Dispatch: the look-up; the handler runs on a copy, whatever becomes of the table.
Dispatch(t, nr) ==
    /\ syCall[t].at = "idle"
    /\ syTable # {}
    /\ syCall' = [syCall EXCEPT ![t] = [at |-> IF nr \in syTable THEN "found" ELSE "missing", nr |-> nr]]
    /\ UNCHANGED <<syHeap, syMaps, syAsked, syCalls>>

Handling(t, nr) ==
    /\ syCall[t] = [at |-> "found", nr |-> nr]
    /\ syCall' = [syCall EXCEPT ![t] = [at |-> "idle", nr |-> "other"]]
    /\ UNCHANGED syCalls

UnknownHandler(t) ==
    /\ syCall[t].at = "missing"
    /\ syCall' = [syCall EXCEPT ![t] = [at |-> "idle", nr |-> "other"]]
    /\ UNCHANGED <<syHeap, syMaps, syAsked, syCalls>>

OtherHandler(t) ==
    /\ Handling(t, "other")
    /\ UNCHANGED <<syHeap, syMaps, syAsked>>

\* The difference of two words.
Difference(a, b) == IF a >= b THEN a - b ELSE a + SyWord - b

\* The range is reserved by the first call that gets it.
EnsureBrk(h) ==
    IF h.base # 0 THEN {h}
    ELSE {h, [base |-> SyHeap, size |-> 0, brk |-> SyHeap, committed |-> {}]}

\* MEM_COMMIT: inside the reserved range, or anywhere when the address is null.
CanCommit(h, more) == IF h.base = 0 THEN h.size = 0 ELSE h.size + more <= SyReserve
Committing(h, more) == IF h.base = 0 THEN h.committed ELSE h.committed \cup h.size .. h.size + more - 1

\* Mutant: the size is stored before the commit is known to have worked.
MoveBreakSizeFirst(h, a) ==
    LET new  == a - h.base
        more == Difference(new, h.size)
        kept == [h EXCEPT !.size = new]
    IN  IF more = 0 THEN {[h EXCEPT !.brk = a]}
        ELSE {kept} \cup (IF CanCommit(h, more)
                          THEN {[kept EXCEPT !.brk = a, !.committed = Committing(h, more)]}
                          ELSE {})

\* A shrinking break asks for nearly a whole word of pages, which the host refuses.
MoveBreak(h, a) ==
    LET new  == a - h.base
        more == Difference(new, h.size)
    IN  IF more = 0 THEN {[h EXCEPT !.brk = a]}
        ELSE {h} \cup (IF CanCommit(h, more)
                       THEN {[h EXCEPT !.size = new, !.brk = a, !.committed = Committing(h, more)]}
                       ELSE {})

\* brk: the answer for an address below SySmall is the address itself, and nothing moves.
Brk(t) ==
    /\ Handling(t, "brk")
    /\ \E a \in 0 .. SyWord - 1 : \E h \in EnsureBrk(syHeap) :
         syHeap' \in IF a = 0 \/ a < SySmall \/ a < h.base \/ a - h.base > SyReserve
                       THEN {h} ELSE MoveBreak(h, a)
    /\ UNCHANGED <<syMaps, syAsked>>

\* The protection that the host gives for what was asked.
WinProt(prot) ==
    IF "x" \in prot THEN {"r", "w", "x"}
    ELSE IF "w" \in prot THEN {"r", "w"}
    ELSE prot

\* mmap of len pages, wherever the host has room; it may have none.
Mmap(t) ==
    /\ Handling(t, "mmap")
    /\ \/ UNCHANGED <<syMaps, syAsked>>
       \/ \E r \in SyRegions, len \in SyPages, prot \in Rights :
            /\ syMaps[r] = NoPages
            /\ syMaps' = [syMaps EXCEPT ![r] = [p \in 1 .. len |-> WinProt(prot)]]
            /\ syAsked' = [syAsked EXCEPT ![r] = [p \in 1 .. len |-> prot]]
    /\ UNCHANGED syHeap

\* munmap frees the region that begins at the address, whatever the length, and fails for
\* any other address.
Munmap(t) ==
    /\ Handling(t, "munmap")
    /\ \E r \in SyRegions, first, len \in SyPages :
         /\ SyWhole => first = 1 /\ 1 .. len = DOMAIN syAsked[r]
         /\ IF first = 1 /\ syMaps[r] # NoPages
              THEN /\ syMaps' = [syMaps EXCEPT ![r] = NoPages]
                   /\ syAsked' = [syAsked EXCEPT ![r] = [p \in DOMAIN @ \ 1 .. len |-> @[p]]]
              ELSE UNCHANGED <<syMaps, syAsked>>
    /\ UNCHANGED syHeap

\* mprotect of pages that are all mapped by one call; others are refused.
Mprotect(t) ==
    /\ Handling(t, "mprotect")
    /\ \E r \in SyRegions, first, last \in SyPages, prot \in Rights :
         IF first <= last /\ first .. last \subseteq DOMAIN syMaps[r]
           THEN /\ syMaps' = [syMaps EXCEPT ![r] = [p \in DOMAIN @ |-> IF p \in first .. last THEN WinProt(prot) ELSE @[p]]]
                /\ syAsked' = [syAsked EXCEPT ![r] = [p \in DOMAIN @ |-> IF p \in first .. last THEN prot ELSE @[p]]]
           ELSE UNCHANGED <<syMaps, syAsked>>
    /\ UNCHANGED syHeap

SyNext ==
    \/ InitTable \/ RegisterSyscall
    \/ \E t \in SyThreads :
         \/ \E nr \in Numbers : Dispatch(t, nr)
         \/ UnknownHandler(t) \/ OtherHandler(t)
         \/ Brk(t) \/ Mmap(t) \/ Munmap(t) \/ Mprotect(t)

SySpec == SyInit /\ [][SyNext]_syVars

-----------------------------------------------------------------------------
\* Below the break all memory is committed, through commits that fail and attempts to
\* shrink (Brk and EnsureBrk).
HeapCommitted ==
    syHeap.base # 0 =>
      /\ syHeap.brk = syHeap.base + syHeap.size
      /\ \A n \in 0 .. syHeap.size - 1 : n \in syHeap.committed

\* What the guest was given it has: its pages are mapped, with at least the rights asked for
\* (Mmap, Munmap and Builtin_mprotect).
MapsKept ==
    \A r \in SyRegions : \A p \in DOMAIN syAsked[r] :
        p \in DOMAIN syMaps[r] /\ syAsked[r][p] \subseteq syMaps[r][p]

\* Memory that a guest was told it has is there.
GuestMemoryKept == HeapCommitted /\ MapsKept

\* Refuted: the break is in mapped memory.  When the reservation fails brkBase is null, and
\* the commit at a null address succeeds somewhere else (line 114).
BreakIsMapped == syHeap.base # 0 \/ syHeap.brk = 0

\* Refuted: a built-in number is known.  Creating a process clears the table and fills it
\* again while an earlier one may call (lines 488, 504-523).
BuiltinsAnswer == \A t \in SyThreads : syCall[t].at # "missing"
=============================================================================
