---------------------------- MODULE MemoryRegions ----------------------------
(***************************************************************************)
(* The region table of Memory.cpp beside the address space it describes.   *)
(* Every operation calls the operating system first, outside the manager's *)
(* mutex, and then brings the table up to date under it, so two threads    *)
(* can interleave between an address and its entry.                        *)
(*                                                                         *)
(* Addresses are host pages; a PAGE_SIZE page of the manager is MemUnit of *)
(* them.  Threads unmap, commit and protect only regions they hold, with   *)
(* the size they asked for; Reset and Shutdown come when no other call is  *)
(* under way and nothing is reserved without being committed, because they *)
(* forget such a region without releasing it.  The aligned heap is a table *)
(* of its own and is left out.                                             *)
(***************************************************************************)
EXTENDS Naturals, FiniteSets, SequencesExt

CONSTANTS MemThreads,
          MemPages,     \* number of host pages of the address space
          MemUnit,      \* PAGE_SIZE in host pages
          MemSizes,     \* the sizes callers ask for, in host pages
          MemMaxTable   \* bound on regions in the table or on their way to it

ASSUME MemoryAssumption ==
    /\ IsFiniteSet(MemThreads)
    /\ MemPages \in Nat
    /\ MemUnit \in Nat \ {0}
    /\ MemSizes \subseteq Nat \ {0}
    /\ MemMaxTable \in Nat

VARIABLES memOs,        \* protection of every mapped host page
          memTable,     \* MemState::regions
          memReserved,  \* Stats::totalReserved
          memCount,     \* Stats::regionCount
          memCall,      \* the call each thread is in, after its system call
          memHeld       \* what callers hold: base and the size they asked for

memVars == <<memOs, memTable, memReserved, memCount, memCall, memHeld>>

Addresses == 1..MemPages

Prots == {"None", "RW", "RX"}

NotMapped == "unmapped"

NoCall == [op |-> "none", base |-> 0, size |-> 0, prot |-> "None"]

AlignUp(size) == ((size + MemUnit - 1) \div MemUnit) * MemUnit

Span(base, size) == base..base + size - 1

MappedPages == {p \in Addresses : memOs[p] # NotMapped}

RegionPages(r) == Span(r.base, r.size)

MemoryTypeOK ==
    /\ memOs \in [Addresses -> Prots \cup {NotMapped}]
    /\ memTable \in Seq([base : Addresses, size : Nat, prot : Prots, committed : BOOLEAN])
    /\ memReserved \in Nat
    /\ memCount \in Nat
    /\ memCall \in [MemThreads -> [op : {"none", "Reserve", "Map", "Commit", "Protect", "Unmap"},
                                   base : 0..MemPages, size : Nat, prot : Prots]]
    /\ memHeld \subseteq [base : Addresses, size : MemSizes]

MemoryInit ==
    /\ memOs = [p \in Addresses |-> NotMapped]
    /\ memTable = <<>>
    /\ memReserved = 0
    /\ memCount = 0
    /\ memCall = [t \in MemThreads |-> NoCall]
    /\ memHeld = {}

AddRegion(r) ==
    /\ memTable' = Append(memTable, r)
    /\ memCount' = memCount + 1
    /\ memReserved' = memReserved + r.size

\* Mutant: the last region with this base is found.
FindBaseLast(base) ==
    LET hits == {i \in DOMAIN memTable : memTable[i].base = base}
    IN  IF hits = {} THEN 0 ELSE CHOOSE i \in hits : \A j \in hits : i >= j

\* The first region with this base, as std::find_if yields it; 0 if there is none.
FindBase(base) ==
    LET hits == {i \in DOMAIN memTable : memTable[i].base = base}
    IN  IF hits = {} THEN 0 ELSE CHOOSE i \in hits : \A j \in hits : i <= j

RemoveRegion(base) ==
    LET i == FindBase(base)
    IN  /\ memTable' = IF i = 0 THEN memTable ELSE RemoveAt(memTable, i)
        /\ memCount' = IF i = 0 THEN memCount ELSE memCount - 1
        /\ memReserved' = IF i = 0 THEN memReserved ELSE memReserved - memTable[i].size

SetPages(pages, prot) == memOs' = [p \in Addresses |-> IF p \in pages THEN prot ELSE memOs[p]]

Calls == {t \in MemThreads : memCall[t].op # "none"}

-----------------------------------------------------------------------------
\* mmap finds free pages for the rounded size anywhere, as the hint is not binding.
MapPages(t, op, base, size, prot) ==
    /\ memCall[t] = NoCall
    /\ Len(memTable) + Cardinality(Calls) < MemMaxTable
    /\ Span(base, AlignUp(size)) \subseteq Addresses \ MappedPages
    /\ SetPages(Span(base, AlignUp(size)), prot)
    /\ memCall' = [memCall EXCEPT ![t] = [op |-> op, base |-> base, size |-> size, prot |-> prot]]
    /\ UNCHANGED <<memTable, memReserved, memCount, memHeld>>

Reserve(t, base, size) == MapPages(t, "Reserve", base, size, "None")

Map(t, base, size, prot) == MapPages(t, "Map", base, size, prot)

\* The second half of Reserve and Map.
TableAdd(t) ==
    /\ memCall[t].op \in {"Reserve", "Map"}
    /\ AddRegion([base |-> memCall[t].base, size |-> AlignUp(memCall[t].size), prot |-> memCall[t].prot,
                  committed |-> memCall[t].op = "Map"])
    /\ memHeld' = memHeld \cup {[base |-> memCall[t].base, size |-> memCall[t].size]}
    /\ memCall' = [memCall EXCEPT ![t] = NoCall]
    /\ UNCHANGED memOs

\* Commit rounds the size, Protect does not; the kernel rounds to host pages.
Commit(t, h, prot) ==
    /\ memCall[t] = NoCall
    /\ SetPages(Span(h.base, AlignUp(h.size)), prot)
    /\ memCall' = [memCall EXCEPT ![t] = [op |-> "Commit", base |-> h.base, size |-> h.size, prot |-> prot]]
    /\ UNCHANGED <<memTable, memReserved, memCount, memHeld>>

Protect(t, h, prot) ==
    /\ memCall[t] = NoCall
    /\ SetPages(Span(h.base, h.size), prot)
    /\ memCall' = [memCall EXCEPT ![t] = [op |-> "Protect", base |-> h.base, size |-> h.size, prot |-> prot]]
    /\ UNCHANGED <<memTable, memReserved, memCount, memHeld>>

\* The second half of Commit and Protect: the whole region gets the protection.
TableUpdate(t) ==
    /\ memCall[t].op \in {"Commit", "Protect"}
    /\ LET i == FindBase(memCall[t].base)
       IN  memTable' = IF i = 0 THEN memTable
                       ELSE [memTable EXCEPT ![i].prot = memCall[t].prot,
                                             ![i].committed = @ \/ memCall[t].op = "Commit"]
    /\ memCall' = [memCall EXCEPT ![t] = NoCall]
    /\ UNCHANGED <<memOs, memReserved, memCount, memHeld>>

\* munmap gets the caller's size as it is.
Unmap(t, h) ==
    /\ memCall[t] = NoCall
    /\ SetPages(Span(h.base, h.size), NotMapped)
    /\ memHeld' = memHeld \ {h}
    /\ memCall' = [memCall EXCEPT ![t] = [op |-> "Unmap", base |-> h.base, size |-> h.size, prot |-> "None"]]
    /\ UNCHANGED <<memTable, memReserved, memCount>>

TableRemove(t) ==
    /\ memCall[t].op = "Unmap"
    /\ RemoveRegion(memCall[t].base)
    /\ memCall' = [memCall EXCEPT ![t] = NoCall]
    /\ UNCHANGED <<memOs, memHeld>>

\* Reset and Shutdown release the committed regions and forget all of them.
MemoryReset ==
    /\ Calls = {}
    /\ \A i \in DOMAIN memTable : memTable[i].committed
    /\ SetPages(UNION {RegionPages(r) : r \in {q \in Range(memTable) : q.committed}}, NotMapped)
    /\ memTable' = <<>>
    /\ memReserved' = 0
    /\ memCount' = 0
    /\ memHeld' = {}
    /\ UNCHANGED memCall

\* A region is used by one call at a time: its holder's.
Usable == {h \in memHeld : \A t \in MemThreads : memCall[t].op \in {"Commit", "Protect"} => memCall[t].base # h.base}

MemoryNext ==
    \/ \E t \in MemThreads, base \in Addresses, size \in MemSizes :
           Reserve(t, base, size) \/ \E prot \in Prots : Map(t, base, size, prot)
    \/ \E t \in MemThreads, h \in Usable :
           Unmap(t, h) \/ \E prot \in Prots : Commit(t, h, prot) \/ Protect(t, h, prot)
    \/ \E t \in MemThreads : TableAdd(t) \/ TableUpdate(t) \/ TableRemove(t)
    \/ MemoryReset

MemSpec == MemoryInit /\ [][MemoryNext]_memVars

-----------------------------------------------------------------------------
\* With no call under way the table tells the truth about the address space:
\* its regions are disjoint, together they are what is mapped, and the counts of
\* regions and reserved bytes are theirs.  The same base may have been unmapped
\* and mapped again by another thread before the first entry was removed.
TableMatchesOs ==
    Calls = {} =>
        /\ MappedPages = UNION {RegionPages(memTable[i]) : i \in DOMAIN memTable}
        /\ \A i, j \in DOMAIN memTable : i # j => RegionPages(memTable[i]) \cap RegionPages(memTable[j]) = {}
        /\ memCount = Len(memTable)
        /\ memReserved = Cardinality(MappedPages)

\* Callers ask for whole PAGE_SIZE pages, so that Unmap gets the size Map and Reserve used.
WholePages == \A size \in MemSizes : size % MemUnit = 0

\* "Decommit and release a range": what is mapped belongs to regions that callers
\* still hold, so unmapping a region with the size it was mapped with frees all of it.
UnmapReleases ==
    Calls = {} => MappedPages \subseteq UNION {Span(h.base, AlignUp(h.size)) : h \in memHeld}
=============================================================================
