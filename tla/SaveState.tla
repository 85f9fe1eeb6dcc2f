------------------------------- MODULE SaveState -------------------------------
(***************************************************************************)
(* SaveState.cpp: Save writes the CPU context and the committed memory to  *)
(* the file of a slot, Load puts them back.  Both hold the manager's mutex *)
(* throughout, which keeps them apart but not the guest, whose steps       *)
(* change the context and the memory meanwhile.  The file is truncated     *)
(* when it is opened, the header is written first, and a full disk or a    *)
(* crash of the emulator leaves any prefix of the rest.                    *)
(*                                                                         *)
(* A register file and the pages are version numbers; every Save has a     *)
(* number of its own, so that what is restored can be traced to it.        *)
(***************************************************************************)
EXTENDS Naturals, FiniteSets

CONSTANTS SsSlots,
          SsRegions,     \* base addresses of regions
          SsMaxSaves,    \* bound: Saves
          SsMaxSteps     \* bound: steps of the guest

ASSUME SaveStateAssumption == SsSlots # {} /\ SsMaxSaves \in Nat \ {0} /\ SsMaxSteps \in Nat

VARIABLES ssReady,     \* initialised
          ssFile,      \* the file of each slot
          ssOp,        \* the Save or Load that holds the mutex
          ssSaves,     \* Saves begun
          ssGuest,     \* the running guest: CPU version, the pages of each committed region
          ssLoaded,    \* where the CPU and each region were last restored from: a Save, 0 for none
          ssSteps      \* steps of the guest

ssVars == <<ssReady, ssFile, ssOp, ssSaves, ssGuest, ssLoaded, ssSteps>>

Versions == 0 .. SsMaxSteps
NoData   == [cpu |-> 0, mem |-> [r \in {} |-> 0]]
NoSave   == [there |-> FALSE, parts |-> 0, id |-> 0, data |-> NoData]
NoOp     == [op |-> "none", at |-> "idle", slot |-> CHOOSE s \in SsSlots : TRUE, data |-> NoData]

\* The parts of a file after its magic: the header, the CPU's bytes, the memory's, the GPU's.
Complete == 4

SsTypeOK ==
    /\ ssReady \in BOOLEAN
    /\ \A s \in SsSlots : /\ ssFile[s].there \in BOOLEAN
                          /\ ssFile[s].parts \in 0 .. Complete
                          /\ ssFile[s].id \in 0 .. SsMaxSaves
    /\ ssOp.op \in {"none", "Save", "Load"}
    /\ ssOp.at \in {"idle", "cpu", "memory", "write", "gpu"}
    /\ ssSaves \in 0 .. SsMaxSaves
    /\ ssGuest.cpu \in Versions /\ DOMAIN ssGuest.mem \subseteq SsRegions
    /\ ssLoaded.cpu \in 0 .. SsMaxSaves /\ ssLoaded.mem \in 0 .. SsMaxSaves
    /\ ssSteps \in Versions

SsInit ==
    /\ ssReady = TRUE
    /\ ssFile = [s \in SsSlots |-> NoSave]
    /\ ssOp = NoOp
    /\ ssSaves = 0
    /\ ssGuest = NoData
    /\ ssLoaded = [cpu |-> 0, mem |-> 0]
    /\ ssSteps = 0

SsMutexFree == ssOp = NoOp /\ ssReady
-----------------------------------------------------------------------------
\* The guest runs an instruction, maps a region or unmaps one.
GuestStep ==
    /\ ssSteps < SsMaxSteps
    /\ ssSteps' = ssSteps + 1
    /\ \E live \in SUBSET SsRegions :
         ssGuest' = [cpu |-> ssSteps + 1, mem |-> [r \in live |-> ssSteps + 1]]
    /\ UNCHANGED <<ssReady, ssFile, ssOp, ssSaves, ssLoaded>>

SaveBegin(s) ==
    /\ SsMutexFree /\ ssSaves < SsMaxSaves
    /\ ssSaves' = ssSaves + 1
    /\ ssOp' = [op |-> "Save", at |-> "memory", slot |-> s, data |-> [NoData EXCEPT !.cpu = ssGuest.cpu]]
    /\ UNCHANGED <<ssReady, ssFile, ssGuest, ssLoaded, ssSteps>>

SerializeMemoryMap ==
    /\ ssOp.op = "Save" /\ ssOp.at = "memory"
    /\ ssOp' = [ssOp EXCEPT !.at = "write", !.data.mem = ssGuest.mem]
    /\ UNCHANGED <<ssReady, ssFile, ssSaves, ssGuest, ssLoaded, ssSteps>>

SsFileOf(parts) == [there |-> TRUE, parts |-> parts, id |-> ssSaves, data |-> ssOp.data]

\* The file cannot be opened (FileError), or it is written up to some part (DiskFull) or whole.
WriteFile ==
    /\ ssOp.op = "Save" /\ ssOp.at = "write"
    /\ ssFile' \in {ssFile} \cup {[ssFile EXCEPT ![ssOp.slot] = SsFileOf(n)] : n \in 0 .. Complete}
    /\ ssOp' = NoOp
    /\ UNCHANGED <<ssReady, ssSaves, ssGuest, ssLoaded, ssSteps>>

\* The emulator dies, perhaps while it writes a file, and is started again.
EmulatorCrash ==
    /\ ssOp # NoOp
    /\ \/ UNCHANGED ssFile
       \/ /\ ssOp.at = "write"
          /\ \E n \in 0 .. Complete : ssFile' = [ssFile EXCEPT ![ssOp.slot] = SsFileOf(n)]
    /\ ssOp' = NoOp
    /\ ssGuest' = NoData
    /\ ssLoaded' = [cpu |-> 0, mem |-> 0]
    /\ UNCHANGED <<ssReady, ssSaves, ssSteps>>

\* Mutant: the header is enough.
LoadValidHeader(s) == ssFile[s].there /\ ssFile[s].parts >= 1

\* Magic, version, size and checksum are tested before anything is restored.
LoadValid(s) == ssFile[s].there /\ ssFile[s].parts = Complete

LoadBegin(s) ==
    /\ SsMutexFree /\ LoadValid(s)
    /\ ssOp' = [op |-> "Load", at |-> "cpu", slot |-> s, data |-> NoData]
    /\ UNCHANGED <<ssReady, ssFile, ssSaves, ssGuest, ssLoaded, ssSteps>>

\* DeserializeCpuContext writes the live context register by register and stops at the end of the data.
DeserializeCpuContext ==
    LET file == ssFile[ssOp.slot] IN
    /\ ssOp.op = "Load" /\ ssOp.at = "cpu"
    /\ IF file.parts >= 2
         THEN /\ ssGuest' = [ssGuest EXCEPT !.cpu = file.data.cpu]
              /\ ssLoaded' = [ssLoaded EXCEPT !.cpu = file.id]
              /\ ssOp' = [ssOp EXCEPT !.at = "memory"]
         ELSE /\ ssOp' = NoOp
              /\ UNCHANGED <<ssGuest, ssLoaded>>
    /\ UNCHANGED <<ssReady, ssFile, ssSaves, ssSteps>>

\* A region of the file is written over the one at its address or mapped there; a Map that
\* fails is passed over.  Regions the file does not have stay.
DeserializeMemoryMap ==
    LET file == ssFile[ssOp.slot] IN
    /\ ssOp.op = "Load" /\ ssOp.at = "memory"
    /\ IF file.parts >= 3
         THEN /\ \E unmappable \in SUBSET (DOMAIN file.data.mem \ DOMAIN ssGuest.mem) :
                   LET restored == DOMAIN file.data.mem \ unmappable IN
                   ssGuest' = [ssGuest EXCEPT !.mem =
                     [r \in DOMAIN ssGuest.mem \cup restored |->
                        IF r \in restored THEN file.data.mem[r] ELSE ssGuest.mem[r]]]
              /\ ssLoaded' = [ssLoaded EXCEPT !.mem = file.id]
              /\ ssOp' = [ssOp EXCEPT !.at = "gpu"]
         ELSE /\ ssOp' = NoOp
              /\ UNCHANGED <<ssGuest, ssLoaded>>
    /\ UNCHANGED <<ssReady, ssFile, ssSaves, ssSteps>>

\* The GPU's counters are read and forgotten.
DeserializeGpuState ==
    /\ ssOp.op = "Load" /\ ssOp.at = "gpu"
    /\ ssOp' = NoOp
    /\ UNCHANGED <<ssReady, ssFile, ssSaves, ssGuest, ssLoaded, ssSteps>>

Delete(s) ==
    /\ SsMutexFree /\ ssFile[s].there
    /\ ssFile' = [ssFile EXCEPT ![s] = NoSave]
    /\ UNCHANGED <<ssReady, ssOp, ssSaves, ssGuest, ssLoaded, ssSteps>>

\* Init, which may fail to make the directory, and Shutdown.
SsSetReady ==
    /\ ssOp = NoOp
    /\ ssReady' = ~ssReady
    /\ UNCHANGED <<ssFile, ssOp, ssSaves, ssGuest, ssLoaded, ssSteps>>

SsNext ==
    \/ GuestStep \/ SerializeMemoryMap \/ WriteFile \/ EmulatorCrash
    \/ DeserializeCpuContext \/ DeserializeMemoryMap \/ DeserializeGpuState \/ SsSetReady
    \/ \E s \in SsSlots : SaveBegin(s) \/ LoadBegin(s) \/ Delete(s)

SsSpec == SsInit /\ [][SsNext]_ssVars
-----------------------------------------------------------------------------
(***************************************************************************)
(* Whatever a full disk or a crash left of a slot's file, Load restores    *)
(* either nothing or the CPU and the memory of one and the same Save:      *)
(* between two calls the machine is never put together from two of them.   *)
(***************************************************************************)
LoadedFromOneSave == ssOp.op # "Load" => ssLoaded.cpu = ssLoaded.mem

\* Load has the CPU of the new save and the memory of the old.
MidLoad == ssOp.op = "Load" /\ ssOp.at = "memory"

Saves == INSTANCE AtomicSaves
           WITH Slots <- SsSlots, number <- ssSaves,
                slot <- [s \in SsSlots |-> IF LoadValid(s) THEN ssFile[s].id ELSE 0],
                machine <- [cpu |-> IF MidLoad THEN ssLoaded.mem ELSE ssLoaded.cpu, mem |-> ssLoaded.mem]

(***************************************************************************)
(* A slot holds one whole save or none that Load accepts, and a Load that  *)
(* began takes effect at one moment, although it writes register by        *)
(* register, the file is written in place and the emulator may die in      *)
(* between.                                                                *)
(***************************************************************************)
SavesAreAtomic == Saves!Spec

(***************************************************************************)
(* SaveState.h promises a snapshot of the full emulator state: the context *)
(* and the pages in a complete file are of one moment of the guest.        *)
(***************************************************************************)
SnapshotIsOneMoment ==
    \A s \in SsSlots : ssFile[s].parts = Complete =>
        \A r \in DOMAIN ssFile[s].data.mem : ssFile[s].data.mem[r] = ssFile[s].data.cpu
=============================================================================
