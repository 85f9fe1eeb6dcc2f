------------------------------ MODULE ShaderCache ------------------------------
(***************************************************************************)
(* ShaderCache.cpp: the cache under CacheState::mtx, kept here as its keys *)
(* from the least to the most recently used; the queue of background jobs  *)
(* under jobMtx and the worker thread that waits on jobCv; Init, FlushQueue*)
(* and Shutdown on a control thread.  Jobs are not queued between the      *)
(* flush of a Shutdown and the next Init.                                  *)
(***************************************************************************)
EXTENDS Naturals, FiniteSets, Sequences, SequencesExt, Sublists

CONSTANTS ShClients,     \* threads that look up and compile
          ShKeys,
          ShMaxEntries,  \* the largest maxEntries
          ShMaxJobs,     \* bound: jobs queued
          ShMaxStarts    \* bound: Inits

ASSUME ShaderCacheAssumption ==
    /\ IsFiniteSet(ShClients)
    /\ ShMaxEntries \in Nat \ {0} /\ "none" \notin ShKeys
    /\ ShMaxJobs \in Nat /\ ShMaxStarts \in Nat

VARIABLES shEntries, shMax,   \* entries, maxEntries
          shQueue, shPending, \* jobQueue, pendingJobs
          shRunning,          \* workerRunning
          shWorker,           \* where the worker is, and the key it compiles
          shClient,           \* where each client is, and its key
          shCtl,              \* where the control thread is
          shDisk,             \* the keys in shadercache.bin
          shCount             \* jobs queued, Inits

shVars == <<shEntries, shMax, shQueue, shPending, shRunning, shWorker, shClient, shCtl, shDisk, shCount>>

NoKey  == "none"
Orders == {s \in UNION {[1 .. n -> ShKeys] : n \in 0 .. Cardinality(ShKeys)} : IsInjective(s)}

ShTypeOK ==
    /\ shEntries \in Seq(ShKeys) /\ IsInjective(shEntries)
    /\ shDisk \subseteq ShKeys
    /\ shMax \in 1 .. ShMaxEntries
    /\ shQueue \in Seq(ShKeys)
    /\ shPending \in 0 .. ShMaxJobs
    /\ shRunning \in BOOLEAN
    /\ shWorker \in [at : {"none", "top", "falling", "asleep", "compiling"}, key : ShKeys \cup {NoKey}]
    /\ shClient \in [ShClients -> [at : {"idle", "compiling", "queueing"}, key : ShKeys \cup {NoKey}]]
    /\ shCtl \in {"down", "up", "flush", "stop", "join", "save", "flushOnly"}
    /\ shCount \in [jobs : 0 .. ShMaxJobs, starts : 0 .. ShMaxStarts]

ShOut == [at |-> "idle", key |-> NoKey]

ShInit ==
    /\ shEntries = <<>> /\ shDisk = {}
    /\ shMax = ShMaxEntries
    /\ shQueue = <<>> /\ shPending = 0
    /\ shRunning = FALSE
    /\ shWorker = [at |-> "none", key |-> NoKey]
    /\ shClient = [c \in ShClients |-> ShOut]
    /\ shCtl = "down"
    /\ shCount = [jobs |-> 0, starts |-> 0]

Without(s, k) == Among(s, ShKeys \ {k})
Used(s, k)    == Append(Without(s, k), k)

\* Room is made whether the key is in the cache or not.
Insert(s, k) == Used(IF Len(s) >= shMax THEN Tail(s) ELSE s, k)

shJobs == <<shQueue, shPending, shCount>>
-----------------------------------------------------------------------------
\* The file does not keep the order of use: what is read comes back in an older one.
LoadFromDisk == shEntries' \in {s \in Orders : ToSet(s) = ToSet(shEntries) \cup shDisk}

\* A file that cannot be opened stays as it is.
SaveToDisk == shDisk' \in {shDisk, ToSet(shEntries)}

\* Init: the counters start from nothing and the file, if any, is read in.
StartCache(max) ==
    /\ shCtl = "down" /\ shCount.starts < ShMaxStarts
    /\ shCount' = [shCount EXCEPT !.starts = @ + 1]
    /\ shCtl' = "up"
    /\ shMax' = max
    /\ LoadFromDisk
    /\ shPending' = 0
    /\ shRunning' = TRUE
    /\ shWorker' = [at |-> "top", key |-> NoKey]
    /\ UNCHANGED <<shQueue, shClient, shDisk>>

Lookup(c, k) ==
    /\ shClient[c] = ShOut /\ shCtl # "down"
    /\ k \in ToSet(shEntries)
    /\ shEntries' = Used(shEntries, k)
    /\ UNCHANGED <<shMax, shJobs, shRunning, shWorker, shClient, shCtl, shDisk>>

CompileMiss(c, k) ==
    /\ shClient[c] = ShOut /\ shCtl # "down"
    /\ k \notin ToSet(shEntries)
    /\ shClient' = [shClient EXCEPT ![c] = [at |-> "compiling", key |-> k]]
    /\ UNCHANGED <<shEntries, shMax, shJobs, shRunning, shWorker, shCtl, shDisk>>

CompileStore(c) ==
    /\ shClient[c].at = "compiling"
    /\ shEntries' = Insert(shEntries, shClient[c].key)
    /\ shClient' = [shClient EXCEPT ![c] = ShOut]
    /\ UNCHANGED <<shMax, shJobs, shRunning, shWorker, shCtl, shDisk>>

\* Mutant: the job is counted after it was queued.
QueueCompileLate(c, k) ==
    /\ shClient[c] = ShOut /\ shCtl \in {"up", "flushOnly"} /\ shCount.jobs < ShMaxJobs
    /\ shCount' = [shCount EXCEPT !.jobs = @ + 1]
    /\ shClient' = [shClient EXCEPT ![c] = [at |-> "queueing", key |-> k]]
    /\ UNCHANGED <<shEntries, shMax, shQueue, shPending, shRunning, shWorker, shCtl, shDisk>>

QueueCompile(c, k) ==
    /\ shClient[c] = ShOut /\ shCtl \in {"up", "flushOnly"} /\ shCount.jobs < ShMaxJobs
    /\ shCount' = [shCount EXCEPT !.jobs = @ + 1]
    /\ shPending' = shPending + 1
    /\ shClient' = [shClient EXCEPT ![c] = [at |-> "queueing", key |-> k]]
    /\ UNCHANGED <<shEntries, shMax, shQueue, shRunning, shWorker, shCtl, shDisk>>

\* jobMtx is the worker's while it falls asleep.
QueuePush(c) ==
    /\ shClient[c].at = "queueing" /\ shWorker.at # "falling"
    /\ shQueue' = Append(shQueue, shClient[c].key)
    /\ shClient' = [shClient EXCEPT ![c] = ShOut]
    /\ shWorker' = IF shWorker.at = "asleep" THEN [shWorker EXCEPT !.at = "top"] ELSE shWorker
    /\ UNCHANGED <<shEntries, shMax, shPending, shCount, shRunning, shCtl, shDisk>>

\* The worker sees workerRunning and the queue, and takes a job, ends or decides to sleep.
WorkerTop ==
    /\ shWorker.at = "top"
    /\ IF ~shRunning THEN shWorker' = [at |-> "none", key |-> NoKey] /\ UNCHANGED shQueue
       ELSE IF shQueue # <<>>
         THEN shWorker' = [at |-> "compiling", key |-> Head(shQueue)] /\ shQueue' = Tail(shQueue)
         ELSE shWorker' = [shWorker EXCEPT !.at = "falling"] /\ UNCHANGED shQueue
    /\ UNCHANGED <<shEntries, shMax, shPending, shCount, shRunning, shClient, shCtl, shDisk>>

WorkerSleeps ==
    /\ shWorker.at = "falling"
    /\ shWorker' = [shWorker EXCEPT !.at = "asleep"]
    /\ UNCHANGED <<shEntries, shMax, shJobs, shRunning, shClient, shCtl, shDisk>>

\* Mutant: a job whose compilation fails stays pending.
WorkerDoneFailing ==
    /\ shWorker.at = "compiling"
    /\ \/ shEntries' = Insert(shEntries, shWorker.key) /\ shPending' = shPending - 1
       \/ UNCHANGED <<shEntries, shPending>>
    /\ shWorker' = [at |-> "top", key |-> NoKey]
    /\ UNCHANGED <<shMax, shQueue, shCount, shRunning, shClient, shCtl, shDisk>>

\* A failed compilation stores nothing.
WorkerDone ==
    /\ shWorker.at = "compiling"
    /\ shEntries' \in {shEntries, Insert(shEntries, shWorker.key)}
    /\ shPending' = shPending - 1
    /\ shWorker' = [at |-> "top", key |-> NoKey]
    /\ UNCHANGED <<shMax, shQueue, shCount, shRunning, shClient, shCtl, shDisk>>

\* FlushQueue, alone or first in Shutdown, which waits for the clients to stop queueing.
FlushBegin ==
    /\ shCtl = "up"
    /\ \/ shCtl' = "flushOnly"
       \/ shCtl' = "flush" /\ \A c \in ShClients : shClient[c].at # "queueing"
    /\ UNCHANGED <<shEntries, shMax, shJobs, shRunning, shWorker, shClient, shDisk>>

FlushEnd ==
    /\ shPending = 0
    /\ \/ shCtl = "flushOnly" /\ shCtl' = "up"
       \/ shCtl = "flush" /\ shCtl' = "stop"
    /\ UNCHANGED <<shEntries, shMax, shJobs, shRunning, shWorker, shClient, shDisk>>

\* workerRunning is cleared and jobCv notified without jobMtx.
ShutdownStop ==
    /\ shCtl = "stop"
    /\ shRunning' = FALSE
    /\ shWorker' = IF shWorker.at = "asleep" THEN [shWorker EXCEPT !.at = "top"] ELSE shWorker
    /\ shCtl' = "join"
    /\ UNCHANGED <<shEntries, shMax, shJobs, shClient, shDisk>>

ShutdownJoin ==
    /\ shCtl = "join" /\ shWorker.at = "none"
    /\ SaveToDisk
    /\ shCtl' = "save"
    /\ UNCHANGED <<shEntries, shMax, shJobs, shRunning, shWorker, shClient>>

ShutdownClear ==
    /\ shCtl = "save"
    /\ shEntries' = <<>>
    /\ shCtl' = "down"
    /\ UNCHANGED <<shMax, shJobs, shRunning, shWorker, shClient, shDisk>>

\* Invalidate and InvalidateAll.
Drop ==
    /\ shCtl = "up" /\ shEntries # <<>>
    /\ shEntries' \in {<<>>} \cup {Without(shEntries, k) : k \in ToSet(shEntries)}
    /\ UNCHANGED <<shMax, shJobs, shRunning, shWorker, shClient, shCtl, shDisk>>

\* The entries used least recently, as far back as maxAgeUs says.
Evict ==
    /\ shCtl = "up" /\ shEntries # <<>>
    /\ \E n \in 1 .. Len(shEntries) : shEntries' = SubSeq(shEntries, n + 1, Len(shEntries))
    /\ UNCHANGED <<shMax, shJobs, shRunning, shWorker, shClient, shCtl, shDisk>>

ShWorkerStep == WorkerTop \/ WorkerSleeps \/ WorkerDone
ShCtlStep    == FlushEnd \/ ShutdownStop \/ ShutdownJoin \/ ShutdownClear

ShNext ==
    \/ ShWorkerStep \/ ShCtlStep \/ FlushBegin \/ Drop \/ Evict
    \/ \E max \in 1 .. ShMaxEntries : StartCache(max)
    \/ \E c \in ShClients : \/ CompileStore(c) \/ QueuePush(c)
                            \/ \E k \in ShKeys : Lookup(c, k) \/ CompileMiss(c, k) \/ QueueCompile(c, k)

\* The worker and the calls under way are threads the host schedules.
ShFairness ==
    /\ WF_shVars(ShWorkerStep)
    /\ WF_shVars(ShCtlStep)
    /\ \A c \in ShClients : WF_shVars(QueuePush(c))
-----------------------------------------------------------------------------
(***************************************************************************)
(* pendingJobs is the number of jobs that are about to be queued, queued   *)
(* or with the worker: FlushQueue returns neither early nor never, and the *)
(* unsigned counter does not wrap.                                         *)
(***************************************************************************)
PendingExact ==
    shPending = Len(shQueue) + Cardinality({c \in ShClients : shClient[c].at = "queueing"})
                  + IF shWorker.at = "compiling" THEN 1 ELSE 0

(***************************************************************************)
(* FlushQueue returns: the worker misses no job, however the notification  *)
(* of QueueCompile and the worker's falling asleep interleave.             *)
(***************************************************************************)
FlushReturns == shCtl \in {"flush", "flushOnly"} ~> shCtl \in {"up", "stop"}

(***************************************************************************)
(* Shutdown ends the worker and joins it.                                  *)
(***************************************************************************)
ShutdownReturns == shCtl = "join" ~> shCtl = "down"
=============================================================================
