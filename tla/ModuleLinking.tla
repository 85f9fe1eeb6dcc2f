---------------------------- MODULE ModuleLinking ----------------------------
(***************************************************************************)
(* Loader.cpp, ModuleRegistry.cpp and the symbol cache of DynamicLinker.cpp*)
(* as they share modules: an image mapped by LoadExecutable belongs to the *)
(* registry and, as the current executable, to the loader too.  An image   *)
(* is one mapping, known by its base; a file exports one symbol, its name, *)
(* and imports some others.  The linker's own relocation table is left out:*)
(* nothing ever fills it.                                                  *)
(***************************************************************************)
EXTENDS Naturals, FiniteSets, Sequences, SequencesExt, KahnSort

CONSTANTS MlThreads,
          MlFiles,
          MlImports,   \* what each file imports: [MlFiles -> SUBSET MlFiles]
          MlMaxBases,  \* bound: places an image may be mapped at
          MlMaxIds,    \* bound: modules registered
          MlMaxHolds   \* bound: references a thread keeps to one module

ASSUME ModuleLinkingAssumption ==
    /\ MlImports \in [MlFiles -> SUBSET MlFiles] /\ "none" \notin MlFiles
    /\ IsFiniteSet(MlThreads) /\ MlMaxBases \in Nat /\ MlMaxIds \in Nat /\ MlMaxHolds \in Nat

VARIABLES mlHost,     \* the image mapped at each base
          mlCurrent,  \* Loader's State::current: its base, 0 when not loaded
          mlModules,  \* RegistryState::modules
          mlByName, mlOrder, mlNextId,
          mlThread,   \* where each thread is in Load or LookupSymbol
          mlHeld,     \* history: the references each thread has been given and not given back
          mlCache     \* LinkerState::cache

mlRegistry == <<mlModules, mlByName, mlOrder, mlNextId>>
mlVars == <<mlHost, mlCurrent, mlRegistry, mlThread, mlHeld, mlCache>>

NoImage == "none"
Bases   == 1 .. MlMaxBases
Ids     == 1 .. MlMaxIds
MlIdle  == [at |-> "idle", file |-> NoImage, base |-> 0, id |-> 0]

MlTypeOK ==
    /\ mlHost \in [Bases -> MlFiles \cup {NoImage}]
    /\ mlCurrent \in 0 .. MlMaxBases
    /\ DOMAIN mlModules \subseteq Ids
    /\ \A i \in DOMAIN mlModules :
          mlModules[i] \in [name : MlFiles, base : 0 .. MlMaxBases, deps : SUBSET Ids, refs : Nat,
                            bound : SUBSET (MlFiles \X (0 .. MlMaxBases))]
    /\ DOMAIN mlByName \subseteq MlFiles
    /\ mlOrder \in Seq(Ids) /\ mlNextId \in 1 .. MlMaxIds + 1
    /\ mlThread \in [MlThreads -> [at : {"idle", "map", "store", "register", "relocate", "resolve", "cache"},
                                   file : MlFiles \cup {NoImage}, base : 0 .. MlMaxBases, id : 0 .. MlMaxIds]]
    /\ mlHeld \in [MlThreads -> [Ids -> 0 .. MlMaxHolds]]
    /\ DOMAIN mlCache \subseteq MlFiles

MlInit ==
    /\ mlHost = [b \in Bases |-> NoImage] /\ mlCurrent = 0
    /\ mlModules = <<>> /\ mlByName = <<>> /\ mlOrder = <<>> /\ mlNextId = 1
    /\ mlThread = [t \in MlThreads |-> MlIdle]
    /\ mlHeld = [t \in MlThreads |-> [i \in Ids |-> 0]]
    /\ mlCache = <<>>

Put1(f, k, x) == [j \in DOMAIN f \cup {k} |-> IF j = k THEN x ELSE f[j]]
Cut1(f, k)    == [j \in DOMAIN f \ {k} |-> f[j]]
At(t, where)  == mlThread[t].at = where
Go(t, where)  == mlThread' = [mlThread EXCEPT ![t] = where]
Hold(t, i)    == mlHeld[t][i] < MlMaxHolds /\ mlHeld' = [mlHeld EXCEPT ![t][i] = @ + 1]
Unmapped(b)   == [mlHost EXCEPT ![b] = NoImage]

\* A module enters the three tables; its id is the next one.
Enter(m) ==
    /\ mlNextId \in Ids
    /\ mlModules' = Put1(mlModules, mlNextId, m)
    /\ mlByName' = Put1(mlByName, m.name, mlNextId)
    /\ mlOrder' = Append(mlOrder, mlNextId)
    /\ mlNextId' = mlNextId + 1
-----------------------------------------------------------------------------
(* Load: the name is looked for, the image mapped, kept as the loader's current one, *)
(* registered and relocated, with no lock held from one to the next.                 *)
LoadHit(t, f) ==
    /\ mlThread[t] = MlIdle /\ f \in DOMAIN mlByName
    /\ mlModules' = [mlModules EXCEPT ![mlByName[f]].refs = @ + 1]
    /\ Hold(t, mlByName[f])
    /\ UNCHANGED <<mlHost, mlCurrent, mlByName, mlOrder, mlNextId, mlThread, mlCache>>

LoadMiss(t, f) ==
    /\ mlThread[t] = MlIdle /\ f \notin DOMAIN mlByName
    /\ Go(t, [MlIdle EXCEPT !.at = "map", !.file = f])
    /\ UNCHANGED <<mlHost, mlCurrent, mlRegistry, mlHeld, mlCache>>

\* MapSegments: an error after the first segment leaves what was mapped.
MapImage(t) ==
    /\ At(t, "map")
    /\ \/ \E b \in Bases : /\ mlHost[b] = NoImage
                           /\ mlHost' = [mlHost EXCEPT ![b] = mlThread[t].file]
                           /\ Go(t, MlIdle) \/ Go(t, [mlThread[t] EXCEPT !.at = "store", !.base = b])
       \/ Go(t, MlIdle) /\ UNCHANGED mlHost
    /\ UNCHANGED <<mlCurrent, mlRegistry, mlHeld, mlCache>>

StoreCurrent(t) ==
    /\ At(t, "store")
    /\ mlCurrent' = mlThread[t].base
    /\ Go(t, [mlThread[t] EXCEPT !.at = "register"])
    /\ UNCHANGED <<mlHost, mlRegistry, mlHeld, mlCache>>

\* Mutant: a name that was registered meanwhile is returned without being counted.
RegisterUncounted(t) ==
    LET f == mlThread[t].file
        id == IF f \in DOMAIN mlByName THEN mlByName[f] ELSE mlNextId
    IN  /\ At(t, "register")
        /\ IF f \in DOMAIN mlByName THEN UNCHANGED mlRegistry
           ELSE Enter([name |-> f, base |-> mlThread[t].base, deps |-> {}, refs |-> 1, bound |-> {}])
        /\ id \in Ids /\ Hold(t, id)
        /\ Go(t, [mlThread[t] EXCEPT !.at = "relocate", !.id = id])
        /\ UNCHANGED <<mlHost, mlCurrent, mlCache>>

\* A name that was registered meanwhile is counted; the second image stays mapped.
Register(t) ==
    LET f == mlThread[t].file
        id == IF f \in DOMAIN mlByName THEN mlByName[f] ELSE mlNextId
    IN  /\ At(t, "register")
        /\ IF f \in DOMAIN mlByName
           THEN mlModules' = [mlModules EXCEPT ![id].refs = @ + 1] /\ UNCHANGED <<mlByName, mlOrder, mlNextId>>
           ELSE Enter([name |-> f, base |-> mlThread[t].base, deps |-> {}, refs |-> 1, bound |-> {}])
        /\ id \in Ids /\ Hold(t, id)
        /\ Go(t, [mlThread[t] EXCEPT !.at = "relocate", !.id = id])
        /\ UNCHANGED <<mlHost, mlCurrent, mlCache>>

\* ApplyRelocations: an import is bound to a module that defines it, in the hash map's order.
ApplyRelocations(t) ==
    LET i == mlThread[t].id
        Definers(s) == {j \in DOMAIN mlModules \ {i} : mlModules[j].name = s /\ mlModules[j].base # 0}
    IN  /\ At(t, "relocate")
        /\ IF i \notin DOMAIN mlModules THEN UNCHANGED mlModules
           ELSE LET found == {s \in MlImports[mlModules[i].name] : Definers(s) # {}}
                IN  \E pick \in [found -> DOMAIN mlModules] :
                       /\ \A s \in found : pick[s] \in Definers(s)
                       /\ mlModules' = [mlModules EXCEPT ![i].bound = {<<s, mlModules[pick[s]].base>> : s \in found}]
        /\ Go(t, MlIdle)
        /\ UNCHANGED <<mlHost, mlCurrent, mlByName, mlOrder, mlNextId, mlHeld, mlCache>>

\* Register with a description: nothing is counted, and a second one of a name takes it over.
RegisterDesc(f, deps) ==
    /\ deps \subseteq DOMAIN mlModules
    /\ Enter([name |-> f, base |-> 0, deps |-> deps, refs |-> 0, bound |-> {}])
    /\ UNCHANGED <<mlHost, mlCurrent, mlThread, mlHeld, mlCache>>

\* A thread that was handed the id retains it while its holder keeps it.
Retain(t, i) ==
    /\ mlThread[t] = MlIdle /\ i \in DOMAIN mlModules /\ \E u \in MlThreads : mlHeld[u][i] > 0
    /\ mlModules' = [mlModules EXCEPT ![i].refs = @ + 1]
    /\ Hold(t, i)
    /\ UNCHANGED <<mlHost, mlCurrent, mlByName, mlOrder, mlNextId, mlThread, mlCache>>

UnloadOne(t, i) ==
    /\ mlThread[t] = MlIdle /\ mlHeld[t][i] > 0 /\ i \in DOMAIN mlModules
    /\ mlModules[i].refs > 1
    /\ mlModules' = [mlModules EXCEPT ![i].refs = @ - 1]
    /\ mlHeld' = [mlHeld EXCEPT ![t][i] = @ - 1]
    /\ UNCHANGED <<mlHost, mlCurrent, mlByName, mlOrder, mlNextId, mlThread, mlCache>>

Dependents(i) == {j \in DOMAIN mlModules : i \in mlModules[j].deps}

\* The last reference, or a module registered by description that nobody counts: dependents are asked for.
UnloadLast(t, i) ==
    /\ mlThread[t] = MlIdle /\ i \in DOMAIN mlModules
    /\ mlHeld[t][i] > 0 \/ mlModules[i].refs = 0
    /\ mlModules[i].refs <= 1 /\ Dependents(i) \ {i} = {}
    /\ mlHost' = IF mlModules[i].base = 0 THEN mlHost ELSE Unmapped(mlModules[i].base)
    /\ mlModules' = Cut1(mlModules, i)
    /\ mlByName' = Cut1(mlByName, mlModules[i].name)
    /\ mlOrder' = Among(mlOrder, DOMAIN mlModules \ {i})
    /\ mlHeld' = [mlHeld EXCEPT ![t][i] = 0]
    /\ UNCHANGED <<mlCurrent, mlNextId, mlThread, mlCache>>

\* Reset of the registry takes every module away, held or not.
ResetRegistry ==
    /\ mlHost' = [b \in Bases |-> IF \E i \in DOMAIN mlModules : mlModules[i].base = b THEN NoImage ELSE mlHost[b]]
    /\ mlModules' = <<>> /\ mlByName' = <<>> /\ mlOrder' = <<>>
    /\ mlHeld' = [t \in MlThreads |-> [i \in Ids |-> 0]]
    /\ UNCHANGED <<mlCurrent, mlNextId, mlThread, mlCache>>

\* Reset of the loader unmaps the current image, whoever else has it.
ResetLoader ==
    /\ mlHost' = IF mlCurrent = 0 THEN mlHost ELSE Unmapped(mlCurrent)
    /\ mlCurrent' = 0
    /\ UNCHANGED <<mlRegistry, mlThread, mlHeld, mlCache>>

\* LookupSymbol: the cache, then the modules in load order, then the cache again; one lock at a time.
LookupMiss(t, s) ==
    /\ mlThread[t] = MlIdle /\ s \notin DOMAIN mlCache
    /\ Go(t, [MlIdle EXCEPT !.at = "resolve", !.file = s])
    /\ UNCHANGED <<mlHost, mlCurrent, mlRegistry, mlHeld, mlCache>>

ResolveSymbol(t) ==
    LET hits == {n \in DOMAIN mlOrder : /\ mlOrder[n] \in DOMAIN mlModules
                                        /\ mlModules[mlOrder[n]].name = mlThread[t].file}
    IN  /\ At(t, "resolve")
        /\ \/ hits = {} /\ Go(t, MlIdle)
           \/ \E n \in hits :
                 /\ \A m \in hits : n <= m
                 /\ Go(t, [mlThread[t] EXCEPT !.at = "cache", !.id = mlOrder[n], !.base = mlModules[mlOrder[n]].base])
        /\ UNCHANGED <<mlHost, mlCurrent, mlRegistry, mlHeld, mlCache>>

CacheSymbol(t) ==
    /\ At(t, "cache")
    /\ mlCache' = Put1(mlCache, mlThread[t].file, [id |-> mlThread[t].id, base |-> mlThread[t].base])
    /\ Go(t, MlIdle)
    /\ UNCHANGED <<mlHost, mlCurrent, mlRegistry, mlHeld>>

\* InvalidateCache of one module, or ClearCache.
InvalidateCache(ids) ==
    /\ mlCache' = [s \in {x \in DOMAIN mlCache : mlCache[x].id \notin ids} |-> mlCache[s]]
    /\ UNCHANGED <<mlHost, mlCurrent, mlRegistry, mlThread, mlHeld>>

\* The modules are walked in load order, the table of in-degrees in the order of a hash map.
TopologicalOrder(table) == Kahn([i \in DOMAIN mlModules |-> mlModules[i].deps], table, mlOrder)

MlNext ==
    \/ \E t \in MlThreads :
          \/ MapImage(t) \/ StoreCurrent(t) \/ Register(t) \/ ApplyRelocations(t) \/ ResolveSymbol(t) \/ CacheSymbol(t)
          \/ \E f \in MlFiles : LoadHit(t, f) \/ LoadMiss(t, f) \/ LookupMiss(t, f)
          \/ \E i \in Ids : Retain(t, i) \/ UnloadOne(t, i) \/ UnloadLast(t, i)
    \/ \E f \in MlFiles, deps \in SUBSET Ids : RegisterDesc(f, deps)
    \/ ResetRegistry \/ ResetLoader
    \/ \E ids \in {{i} : i \in Ids} \cup {Ids} : InvalidateCache(ids)

MlSpec == MlInit /\ [][MlNext]_mlVars
-----------------------------------------------------------------------------
\* The references to a module that threads keep, each with its thread.
RefsHeld(i) == {r \in MlThreads \X (1 .. MlMaxHolds) : r[2] <= mlHeld[r[1]][i]}

(***************************************************************************)
(* A module that a thread has loaded or retained stays registered until    *)
(* that thread unloads it, also when two threads load the file at once and *)
(* when a description takes its name over.                                 *)
(***************************************************************************)
HeldIsRegistered ==
    \A i \in Ids : RefsHeld(i) # {} => i \in DOMAIN mlModules /\ mlModules[i].refs >= Cardinality(RefsHeld(i))

(***************************************************************************)
(* What a module depends on stays registered, and the topological order    *)
(* has every module once and after its dependencies.                       *)
(***************************************************************************)
DepsBeforeModules ==
    \A table \in SetToSeqs(DOMAIN mlModules) :
       LET order == TopologicalOrder(table)
       IN  /\ Range(order) = DOMAIN mlModules /\ IsInjective(order)
           /\ \A n \in DOMAIN order : mlModules[order[n]].deps \subseteq {order[m] : m \in 1 .. n - 1}

(***************************************************************************)
(* A cached symbol is never attributed to another module than it came      *)
(* from: if the module it names is registered, that is its address.        *)
(***************************************************************************)
CacheNotMisattributed ==
    \A s \in DOMAIN mlCache : mlCache[s].id \in DOMAIN mlModules =>
       mlModules[mlCache[s].id].name = s /\ mlModules[mlCache[s].id].base = mlCache[s].base

(***************************************************************************)
(* A registered module is mapped, and so is each image its imports were    *)
(* bound to.                                                               *)
(***************************************************************************)
ImportsStayMapped ==
    \A i \in DOMAIN mlModules : \A b \in mlModules[i].bound : mlHost[b[2]] = b[1]

\* Registry and linker agree on what is loaded, in what order, and where a cached
\* symbol lives (Load, Unload, TopologicalOrder, LookupSymbol, InvalidateCache).
ModulesConsistent == HeldIsRegistered /\ DepsBeforeModules /\ CacheNotMisattributed
=============================================================================
