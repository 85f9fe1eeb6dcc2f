------------------------------- MODULE TaskPool -------------------------------
(***************************************************************************)
(* The worker pool of PerfTools.cpp: tasks under mtx, workers that sleep   *)
(* on cv and count themselves in activeTasks, callers of WaitAll that      *)
(* sleep on waitCv, and a control thread that calls Init and Shutdown.     *)
(* activeTasks and stop are atomics and are also written without mtx.  A   *)
(* thread that has tested its predicate and not yet slept is "falling": it *)
(* still holds mtx.  Init has at least one worker to start, nothing is     *)
(* submitted from the start of a Shutdown to the next Init, and a task is  *)
(* a value of its own that returns in the end.                             *)
(***************************************************************************)
EXTENDS Naturals, FiniteSets, Sequences

CONSTANTS TpWorkers,   \* threads the pool may start
          TpClients,   \* threads that call Submit and WaitAll
          TpTasks,     \* tasks, each submitted once
          TpMaxStarts  \* bound: Inits

ASSUME TaskPoolAssumption ==
    /\ IsFiniteSet(TpWorkers)
    /\ TpMaxStarts \in Nat

VARIABLES tpQueue,     \* tasks
          tpActive,    \* activeTasks
          tpStop,      \* stop
          tpWorker,    \* where each worker is, and the tasks it runs
          tpClient,    \* where each client is, and the tasks it waits for
          tpCtl,       \* where the control thread is
          tpSubmitted, \* tasks pushed so far
          tpDone,      \* tasks that returned
          tpStarts     \* Inits

tpVars == <<tpQueue, tpActive, tpStop, tpWorker, tpClient, tpCtl, tpSubmitted, tpDone, tpStarts>>

TpQueued == {tpQueue[i] : i \in DOMAIN tpQueue}
Busy     == {w \in TpWorkers : tpWorker[w].at \in {"running", "ran"}}

\* The type of the pool's state: tasks, activeTasks, stop, the workers and their clients.
TpTypeOK ==
    /\ tpQueue \in Seq(TpTasks)
    /\ tpActive \in Nat
    /\ tpStop \in BOOLEAN
    /\ tpWorker \in [TpWorkers ->
          [at : {"none", "top", "falling", "asleep", "running", "ran", "notify", "gone"}, task : SUBSET TpTasks]]
    /\ tpClient \in [TpClients ->
          [at : {"idle", "notify", "test", "falling", "asleep"}, owed : SUBSET TpTasks]]
    /\ tpCtl \in {"down", "up", "stopped", "join"}
    /\ tpSubmitted \subseteq TpTasks /\ tpDone \subseteq TpTasks
    /\ tpStarts \in 0 .. TpMaxStarts

TpInit ==
    /\ tpQueue = <<>> /\ tpActive = 0
    /\ tpStop = FALSE
    /\ tpWorker = [w \in TpWorkers |-> [at |-> "none", task |-> {}]]
    /\ tpClient = [c \in TpClients |-> [at |-> "idle", owed |-> {}]]
    /\ tpCtl = "down"
    /\ tpSubmitted = {} /\ tpDone = {}
    /\ tpStarts = 0

\* Who falls asleep holds mtx until it sleeps.
TpMtxFree ==
    /\ \A w \in TpWorkers : tpWorker[w].at # "falling"
    /\ \A c \in TpClients : tpClient[c].at # "falling"

WorkerAt(w, place, tasks) == tpWorker' = [tpWorker EXCEPT ![w] = [at |-> place, task |-> tasks]]
ClientAt(c, place, tasks) == tpClient' = [tpClient EXCEPT ![c] = [at |-> place, owed |-> tasks]]

\* cv.notify_all and waitCv.notify_all.
WorkersWoken == [w \in TpWorkers |->
    IF tpWorker[w].at = "asleep" THEN [at |-> "top", task |-> {}] ELSE tpWorker[w]]
WaitersWoken == [c \in TpClients |->
    IF tpClient[c].at = "asleep" THEN [at |-> "test", owed |-> tpClient[c].owed] ELSE tpClient[c]]

tpTasks == <<tpQueue, tpActive, tpSubmitted, tpDone>>
-----------------------------------------------------------------------------
\* Init may come again without a Shutdown: it adds workers to those there are.
StartPool ==
    /\ tpCtl \in {"down", "up"} /\ tpStarts < TpMaxStarts
    /\ tpStarts' = tpStarts + 1
    /\ tpCtl' = "up"
    /\ tpStop' = FALSE
    /\ \E W \in SUBSET {w \in TpWorkers : tpWorker[w].at = "none"} :
         /\ W # {}
         /\ tpWorker' = [w \in TpWorkers |->
                IF w \in W THEN [at |-> "top", task |-> {}] ELSE tpWorker[w]]
    /\ UNCHANGED <<tpTasks, tpClient>>

StopStore ==
    /\ tpCtl = "up"
    /\ tpCtl' = "stopped"
    /\ tpStop' = TRUE
    /\ UNCHANGED <<tpTasks, tpWorker, tpClient, tpStarts>>

StopNotify ==
    /\ tpCtl = "stopped"
    /\ tpCtl' = "join"
    /\ tpWorker' = WorkersWoken
    /\ UNCHANGED <<tpTasks, tpStop, tpClient, tpStarts>>

\* The last join returns; what is left of the tasks is dropped.
StopJoin ==
    /\ tpCtl = "join"
    /\ \A w \in TpWorkers : tpWorker[w].at \in {"none", "gone"}
    /\ tpCtl' = "down"
    /\ tpWorker' = [w \in TpWorkers |-> [at |-> "none", task |-> {}]]
    /\ tpQueue' = <<>>
    /\ UNCHANGED <<tpActive, tpStop, tpClient, tpSubmitted, tpDone, tpStarts>>

\* Submit: the push under mtx, the notification after it.
SubmitPush(c, t) ==
    /\ tpClient[c].at = "idle" /\ tpCtl = "up"
    /\ t \notin tpSubmitted
    /\ TpMtxFree
    /\ tpQueue' = Append(tpQueue, t)
    /\ tpSubmitted' = tpSubmitted \cup {t}
    /\ ClientAt(c, "notify", {})
    /\ UNCHANGED <<tpActive, tpDone, tpStop, tpWorker, tpCtl, tpStarts>>

SubmitNotify(c) ==
    /\ tpClient[c].at = "notify"
    /\ tpWorker' = WorkersWoken
    /\ ClientAt(c, "idle", {})
    /\ UNCHANGED <<tpTasks, tpStop, tpCtl, tpStarts>>

\* A worker with mtx leaves, takes a task and counts itself, or finds nothing.
WorkerLeaves(w) ==
    /\ tpWorker[w].at = "top" /\ TpMtxFree
    /\ tpStop /\ tpQueue = <<>>
    /\ WorkerAt(w, "gone", {})
    /\ UNCHANGED <<tpTasks, tpStop, tpClient, tpCtl, tpStarts>>

WorkerTakes(w) ==
    /\ tpWorker[w].at = "top" /\ TpMtxFree
    /\ tpQueue # <<>>
    /\ WorkerAt(w, "running", {Head(tpQueue)})
    /\ tpQueue' = Tail(tpQueue)
    /\ tpActive' = tpActive + 1
    /\ UNCHANGED <<tpSubmitted, tpDone, tpStop, tpClient, tpCtl, tpStarts>>

WorkerFalls(w) ==
    /\ tpWorker[w].at = "top" /\ TpMtxFree
    /\ ~tpStop /\ tpQueue = <<>>
    /\ WorkerAt(w, "falling", {})
    /\ UNCHANGED <<tpTasks, tpStop, tpClient, tpCtl, tpStarts>>

PoolWorkerSleeps(w) ==
    /\ tpWorker[w].at = "falling"
    /\ WorkerAt(w, "asleep", {})
    /\ UNCHANGED <<tpTasks, tpStop, tpClient, tpCtl, tpStarts>>

PoolWorkerSpurious(w) ==
    /\ tpWorker[w].at = "asleep"
    /\ WorkerAt(w, "top", {})
    /\ UNCHANGED <<tpTasks, tpStop, tpClient, tpCtl, tpStarts>>

TaskReturns(w) ==
    /\ tpWorker[w].at = "running"
    /\ tpDone' = tpDone \cup tpWorker[w].task
    /\ WorkerAt(w, "ran", {})
    /\ UNCHANGED <<tpQueue, tpActive, tpSubmitted, tpStop, tpClient, tpCtl, tpStarts>>

\* Neither the count nor the notification takes mtx.
WorkerCountsDown(w) ==
    /\ tpWorker[w].at = "ran"
    /\ tpActive' = tpActive - 1
    /\ WorkerAt(w, "notify", {})
    /\ UNCHANGED <<tpQueue, tpSubmitted, tpDone, tpStop, tpClient, tpCtl, tpStarts>>

WorkerNotifies(w) ==
    /\ tpWorker[w].at = "notify"
    /\ tpClient' = WaitersWoken
    /\ WorkerAt(w, "top", {})
    /\ UNCHANGED <<tpTasks, tpStop, tpCtl, tpStarts>>

\* WaitAll is owed every task submitted before it.
WaitAll(c) ==
    /\ tpClient[c].at = "idle" /\ tpCtl # "down"
    /\ ClientAt(c, "test", tpSubmitted)
    /\ UNCHANGED <<tpTasks, tpStop, tpWorker, tpCtl, tpStarts>>

\* Mutant: only the queue is looked at.
WaitTestQueue(c) ==
    /\ tpClient[c].at = "test" /\ TpMtxFree
    /\ IF tpQueue = <<>> THEN ClientAt(c, "idle", {})
                         ELSE ClientAt(c, "falling", tpClient[c].owed)
    /\ UNCHANGED <<tpTasks, tpStop, tpWorker, tpCtl, tpStarts>>

WaitTest(c) ==
    /\ tpClient[c].at = "test" /\ TpMtxFree
    /\ IF tpQueue = <<>> /\ tpActive = 0
         THEN ClientAt(c, "idle", {})
         ELSE ClientAt(c, "falling", tpClient[c].owed)
    /\ UNCHANGED <<tpTasks, tpStop, tpWorker, tpCtl, tpStarts>>

PoolWaiterSleeps(c) ==
    /\ tpClient[c].at = "falling"
    /\ ClientAt(c, "asleep", tpClient[c].owed)
    /\ UNCHANGED <<tpTasks, tpStop, tpWorker, tpCtl, tpStarts>>

PoolWaiterSpurious(c) ==
    /\ tpClient[c].at = "asleep"
    /\ ClientAt(c, "test", tpClient[c].owed)
    /\ UNCHANGED <<tpTasks, tpStop, tpWorker, tpCtl, tpStarts>>

PoolWorkerStep(w) ==
    \/ WorkerLeaves(w) \/ WorkerTakes(w) \/ WorkerFalls(w) \/ PoolWorkerSleeps(w)
    \/ PoolWorkerSpurious(w) \/ TaskReturns(w) \/ WorkerCountsDown(w) \/ WorkerNotifies(w)

PoolClientStep(c) ==
    \/ \E t \in TpTasks : SubmitPush(c, t)
    \/ SubmitNotify(c) \/ WaitAll(c) \/ WaitTest(c) \/ PoolWaiterSleeps(c) \/ PoolWaiterSpurious(c)

TpNext ==
    \/ StartPool \/ StopStore \/ StopNotify \/ StopJoin
    \/ \E w \in TpWorkers : PoolWorkerStep(w)
    \/ \E c \in TpClients : PoolClientStep(c)

TpSpec == TpInit /\ [][TpNext]_tpVars

\* The pool's threads run, a task returns, and who waits for mtx gets it in the end.
TpFairness ==
    /\ \A w \in TpWorkers :
         /\ WF_tpVars(PoolWorkerSleeps(w))
         /\ SF_tpVars(WorkerLeaves(w) \/ WorkerTakes(w) \/ WorkerFalls(w))
         /\ WF_tpVars(TaskReturns(w) \/ WorkerCountsDown(w) \/ WorkerNotifies(w))
    /\ \A c \in TpClients :
         /\ WF_tpVars(SubmitNotify(c) \/ PoolWaiterSleeps(c))
         /\ SF_tpVars(WaitTest(c))
    /\ WF_tpVars(StopNotify \/ StopJoin)

-----------------------------------------------------------------------------
\* When WaitAll returns, every task submitted before it was called has returned:
\* a worker that has taken a task is counted before anyone can see the queue without it
\* (lines 50-52 against line 82).
WaitAllSound == [][\A c \in TpClients :
    tpClient[c].at = "test" /\ tpClient'[c].at = "idle" => tpClient[c].owed \subseteq tpDone]_tpVars

\* activeTasks is the number of workers between taking a task and counting themselves out.
ActiveExact == tpActive = Cardinality(Busy)

\* Stop's tasks.clear() has nothing to drop: the workers leave only an empty queue behind,
\* so every task submitted before Shutdown is run (lines 49, 65-69).
PoolDrains == tpCtl = "join" /\ (\A w \in TpWorkers : tpWorker[w].at \in {"none", "gone"}) => tpQueue = <<>>

\* A task that was submitted is run, whatever Shutdown and WaitAll do meanwhile.
TasksRun == \A t \in TpTasks : t \in tpSubmitted ~> t \in tpDone

\* Refuted: WaitAll returns once its tasks have.  A worker counts down and notifies without
\* mtx, so a waiter between its test and its sleep misses the last notification (lines 55-56).
WaitAllReturns == \A c \in TpClients : tpClient[c].at = "test" ~> tpClient[c].at = "idle"

\* Refuted: Shutdown returns.  stop is stored and notified without mtx (lines 63-64).
PoolStops == tpCtl = "stopped" ~> tpCtl = "down"
=============================================================================
