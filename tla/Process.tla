------------------------------- MODULE Process -------------------------------
(***************************************************************************)
(* The process manager (Process.cpp): the table of guest processes under   *)
(* ProcState::mtx, their modules, their main threads and the exit          *)
(* callbacks.  Calls are split where they take or release the mutex or     *)
(* work outside it.  Executables are loaded and unloaded by the Loader,    *)
(* and threads run by KernelRuntime: both appear as what they do to the    *)
(* process here.  A load that fails changes nothing and has no step.       *)
(***************************************************************************)
EXTENDS Integers, FiniteSets

CONSTANTS Threads,
          NoThread,
          MaxPid,        \* bound: processes created between two Inits
          MaxModules,    \* bound: modules loaded for one process
          MaxCallbacks,  \* bound: registered exit callbacks
          LateLoads      \* whether a module may be asked for after Terminate

Pids   == 1 .. MaxPid
NoPid  == 0

ASSUME ProcessAssumption ==
    /\ IsFiniteSet(Threads)
    /\ NoThread \notin Threads
    /\ MaxPid \in Nat /\ MaxModules \in Nat /\ MaxCallbacks \in Nat
    /\ LateLoads \in BOOLEAN

VARIABLES
    mtx,         \* ProcState::mtx: its owner
    procs,       \* ProcessEntry::state, "None" when the pid is not in procs
    nextPid, currentPid,
    callbacks,   \* how many exit callbacks are registered
    modules,     \* how many modules info.modules lists
    loaded,      \* modules the Loader holds for the process
    main,        \* the main guest thread
    killed,      \* history: Terminate has run on the process
    pc, pid, carry,   \* the call of each thread, its process, modules in its hands
    running      \* the call under way

vars == <<mtx, procs, nextPid, currentPid, callbacks, modules, loaded, main,
          killed, pc, pid, carry, running>>

States == {"None", "Created", "Running", "Exiting", "Terminated", "Faulted"}

TypeOK ==
    /\ mtx \in Threads \cup {NoThread}
    /\ procs \in [Pids -> States]
    /\ nextPid \in 1 .. MaxPid + 1
    /\ currentPid \in Pids \cup {NoPid}
    /\ callbacks \in 0 .. MaxCallbacks
    /\ modules \in [Pids -> Nat]
    /\ loaded \in [Pids -> Nat]
    /\ main \in [Pids -> {"none", "created", "runs", "dead", "stopped",
                       "detached"}]
    /\ killed \in [Pids -> BOOLEAN]
    /\ pc \in [Threads -> {"idle", "register", "attach", "join", "reap", "stop",
                           "unload", "fire", "call"}]
    /\ pid \in [Threads -> Pids \cup {NoPid}]
    /\ carry \in [Threads -> Nat]
    /\ running \in [Threads -> {"none", "Create", "LoadModule", "Wait", "Terminate"}]

Init ==
    /\ mtx = NoThread
    /\ procs = [p \in Pids |-> "None"]
    /\ nextPid = 1
    /\ currentPid = NoPid
    /\ callbacks = 0
    /\ modules = [p \in Pids |-> 0]
    /\ loaded = [p \in Pids |-> 0]
    /\ main = [p \in Pids |-> "none"]
    /\ killed = [p \in Pids |-> FALSE]
    /\ pc = [t \in Threads |-> "idle"]
    /\ pid = [t \in Threads |-> NoPid]
    /\ carry = [t \in Threads |-> 0]
    /\ running = [t \in Threads |-> "none"]

Free == mtx = NoThread

Begin(t, call, step, p) ==
    /\ pc' = [pc EXCEPT ![t] = step]
    /\ pid' = [pid EXCEPT ![t] = p]
    /\ running' = [running EXCEPT ![t] = call]

Return(t) ==
    /\ pc' = [pc EXCEPT ![t] = "idle"]
    /\ pid' = [pid EXCEPT ![t] = NoPid]
    /\ carry' = [carry EXCEPT ![t] = 0]
    /\ running' = [running EXCEPT ![t] = "none"]

Goto(t, step) ==
    pc' = [pc EXCEPT ![t] = step] /\ UNCHANGED <<pid, running>>

locals == <<pc, pid, carry, running>>

-----------------------------------------------------------------------------
\* The executable is loaded, a pid drawn and the main thread created; the
\* entry is inserted under the mutex afterwards.
Create(t) ==
    /\ pc[t] = "idle"
    /\ nextPid <= MaxPid
    /\ nextPid' = nextPid + 1
    /\ loaded' = [loaded EXCEPT ![nextPid] = @ + 1]
    /\ main' = [main EXCEPT ![nextPid] = "created"]
    /\ Begin(t, "Create", "register", nextPid)
    /\ UNCHANGED <<mtx, procs, currentPid, callbacks, modules, killed, carry>>

Register(t) ==
    /\ pc[t] = "register"
    /\ Free
    /\ procs' = [procs EXCEPT ![pid[t]] = "Created"]
    /\ modules' = [modules EXCEPT ![pid[t]] = 1]
    /\ currentPid' = pid[t]
    /\ Return(t)
    /\ UNCHANGED <<mtx, nextPid, callbacks, loaded, main, killed>>

\* All under the mutex.  StartThread refuses when the kernel runtime has lost
\* the thread's handle (a Reset of KernelRuntime).
Start(t, p) ==
    /\ pc[t] = "idle"
    /\ Free
    /\ procs[p] = "Created"
    /\ \E ok \in BOOLEAN :
          /\ procs' = [procs EXCEPT ![p] = IF ok THEN "Running" ELSE "Faulted"]
          /\ main' = [main EXCEPT ![p] = IF ok THEN "runs" ELSE @]
    /\ UNCHANGED <<mtx, nextPid, currentPid, callbacks, modules, loaded, killed,
                   locals>>

\* The entry function of the main thread returns, also after a StopThread,
\* which only lets it go.
MainReturns(p) ==
    /\ main[p] \in {"runs", "detached"}
    /\ main' = [main EXCEPT ![p] = "dead"]
    /\ UNCHANGED <<mtx, procs, nextPid, currentPid, callbacks, modules, loaded,
                   killed, locals>>

\* The state is overwritten whatever it was.
RequestExit(t, p) ==
    /\ pc[t] = "idle"
    /\ Free
    /\ procs[p] # "None"
    /\ procs' = [procs EXCEPT ![p] = "Exiting"]
    /\ UNCHANGED <<mtx, nextPid, currentPid, callbacks, modules, loaded, main,
                   killed, locals>>

RegisterExitCallback(t) ==
    /\ pc[t] = "idle"
    /\ Free
    /\ callbacks < MaxCallbacks
    /\ callbacks' = callbacks + 1
    /\ UNCHANGED <<mtx, procs, nextPid, currentPid, modules, loaded, main,
                   killed, locals>>

-----------------------------------------------------------------------------
(* Wait.                                                                   *)

Wait(t, p) ==
    /\ pc[t] = "idle"
    /\ Free
    /\ procs[p] # "None"
    /\ Begin(t, "Wait", "join", p)
    /\ UNCHANGED <<mtx, procs, nextPid, currentPid, callbacks, modules, loaded,
                   main, killed, carry>>

\* JoinThread returns true, for a main thread that is Dead.
Joined(t) ==
    /\ pc[t] = "join"
    /\ main[pid[t]] = "dead"
    /\ Goto(t, "reap")
    /\ UNCHANGED <<mtx, procs, nextPid, currentPid, callbacks, modules, loaded,
                   main, killed, carry>>

\* JoinThread returns false: a thread not started or stopped, or a timeout
\* (every wait has one here).
JoinFails(t) ==
    /\ pc[t] = "join"
    /\ main[pid[t]] # "dead"
    /\ Return(t)
    /\ UNCHANGED <<mtx, procs, nextPid, currentPid, callbacks, modules, loaded,
                   main, killed>>

\* The mutex is taken and kept while FireExitCallbacks, which takes it too, is
\* called.
Reap(t) ==
    /\ pc[t] = "reap"
    /\ Free
    /\ mtx' = t
    /\ procs' = [procs EXCEPT ![pid[t]] =
                    IF @ = "None" THEN @ ELSE "Terminated"]
    /\ Goto(t, "fire")
    /\ UNCHANGED <<nextPid, currentPid, callbacks, modules, loaded, main, killed,
                   carry>>

-----------------------------------------------------------------------------
(* FireExitCallbacks: the callbacks run with the mutex held.               *)

FireLock(t) ==
    /\ pc[t] = "fire"
    /\ Free
    /\ mtx' = t
    /\ Goto(t, "call")
    /\ UNCHANGED <<procs, nextPid, currentPid, callbacks, modules, loaded, main,
                   killed, carry>>

FireDone(t) ==
    /\ pc[t] = "call"
    /\ mtx' = NoThread
    /\ Return(t)
    /\ UNCHANGED <<procs, nextPid, currentPid, callbacks, modules, loaded, main,
                   killed>>

-----------------------------------------------------------------------------
(* Terminate.                                                              *)

\* Mutant: the modules are copied out but stay listed.
TerminateKeepsModules(t, p) ==
    /\ pc[t] = "idle"
    /\ Free
    /\ procs[p] # "None"
    /\ procs' = [procs EXCEPT ![p] = "Terminated"]
    /\ killed' = [killed EXCEPT ![p] = TRUE]
    /\ carry' = [carry EXCEPT ![t] = modules[p]]
    /\ currentPid' = IF currentPid = p THEN NoPid ELSE currentPid
    /\ Begin(t, "Terminate", "stop", p)
    /\ UNCHANGED <<mtx, nextPid, callbacks, modules, loaded, main>>

\* Mutant: the mutex is still held when the call goes on.
TerminateKeepsLock(t, p) ==
    /\ pc[t] = "idle"
    /\ Free
    /\ procs[p] # "None"
    /\ mtx' = t
    /\ procs' = [procs EXCEPT ![p] = "Terminated"]
    /\ killed' = [killed EXCEPT ![p] = TRUE]
    /\ carry' = [carry EXCEPT ![t] = modules[p]]
    /\ modules' = [modules EXCEPT ![p] = 0]
    /\ currentPid' = IF currentPid = p THEN NoPid ELSE currentPid
    /\ Begin(t, "Terminate", "stop", p)
    /\ UNCHANGED <<nextPid, callbacks, loaded, main>>

\* Under the mutex: what is to be undone is taken out of the entry.
Terminate(t, p) ==
    /\ pc[t] = "idle"
    /\ Free
    /\ procs[p] # "None"
    /\ procs' = [procs EXCEPT ![p] = "Terminated"]
    /\ killed' = [killed EXCEPT ![p] = TRUE]
    /\ carry' = [carry EXCEPT ![t] = modules[p]]
    /\ modules' = [modules EXCEPT ![p] = 0]
    /\ currentPid' = IF currentPid = p THEN NoPid ELSE currentPid
    /\ Begin(t, "Terminate", "stop", p)
    /\ UNCHANGED <<mtx, nextPid, callbacks, loaded, main>>

\* StopThread, outside the mutex: the thread object is marked and let go.
TerminateStop(t) ==
    /\ pc[t] = "stop"
    /\ main' = [main EXCEPT ![pid[t]] =
                   IF @ \in {"runs", "detached"} THEN "detached" ELSE "stopped"]
    /\ Goto(t, "unload")
    /\ UNCHANGED <<mtx, procs, nextPid, currentPid, callbacks, modules, loaded,
                   killed, carry>>

TerminateUnload(t) ==
    /\ pc[t] = "unload"
    /\ loaded' = [loaded EXCEPT ![pid[t]] = @ - carry[t]]
    /\ carry' = [carry EXCEPT ![t] = 0]
    /\ Goto(t, "fire")
    /\ UNCHANGED <<mtx, procs, nextPid, currentPid, callbacks, modules, main,
                   killed>>

-----------------------------------------------------------------------------
(* LoadModule.                                                             *)

\* A pid is known once Create has returned it.
Known(p) == p < nextPid /\ \A u \in Threads : ~(pc[u] = "register" /\ pid[u] = p)

\* The file is loaded before the table is looked at.
LoadModule(t, p) ==
    /\ pc[t] = "idle"
    /\ Known(p)
    /\ LateLoads \/ ~killed[p]
    /\ loaded[p] < MaxModules
    /\ loaded' = [loaded EXCEPT ![p] = @ + 1]
    /\ carry' = [carry EXCEPT ![t] = 1]
    /\ Begin(t, "LoadModule", "attach", p)
    /\ UNCHANGED <<mtx, procs, nextPid, currentPid, callbacks, modules, main,
                   killed>>

\* A process that is gone leaves the module loaded and listed nowhere.
Attach(t) ==
    /\ pc[t] = "attach"
    /\ Free
    /\ modules' = [modules EXCEPT ![pid[t]] =
                      IF procs[pid[t]] = "None" THEN @ ELSE @ + 1]
    /\ Return(t)
    /\ UNCHANGED <<mtx, procs, nextPid, currentPid, callbacks, loaded, main,
                   killed>>

-----------------------------------------------------------------------------
(* Shutdown and Init, when no call is under way.  The entries go, what the *)
(* Loader holds for them stays.                                            *)

Quiet == \A t \in Threads : pc[t] = "idle"

Forget ==
    /\ procs' = [p \in Pids |-> "None"]
    /\ modules' = [p \in Pids |-> 0]
    /\ callbacks' = 0
    /\ UNCHANGED <<mtx, locals>>

Shutdown ==
    /\ Quiet
    /\ Forget
    /\ currentPid' = NoPid
    /\ UNCHANGED <<nextPid, loaded, main, killed>>

\* Pids start again at 1: the ghosts of the last run are forgotten here.
ProcessInit ==
    /\ Quiet
    /\ Forget
    /\ currentPid' = NoPid
    /\ nextPid' = 1
    /\ loaded' = [p \in Pids |-> 0]
    /\ main' = [p \in Pids |-> "none"]
    /\ killed' = [p \in Pids |-> FALSE]

-----------------------------------------------------------------------------
Step(t) ==
    \/ Register(t) \/ Attach(t)
    \/ Joined(t) \/ JoinFails(t) \/ Reap(t)
    \/ TerminateStop(t) \/ TerminateUnload(t)
    \/ FireLock(t) \/ FireDone(t)

Call(t) ==
    \/ Create(t)
    \/ RegisterExitCallback(t)
    \/ \E p \in Pids :
          \/ Start(t, p) \/ RequestExit(t, p) \/ Wait(t, p)
          \/ Terminate(t, p) \/ LoadModule(t, p)

Next ==
    \/ \E t \in Threads : Call(t) \/ Step(t)
    \/ \E p \in Pids : MainReturns(p)
    \/ Shutdown
    \/ ProcessInit

Spec == Init /\ [][Next]_vars

\* The host runs the calls that have begun; a thread waiting for the mutex
\* gets it in the end.
FairSpec == Spec /\ \A t \in Threads : SF_vars(Step(t))

-----------------------------------------------------------------------------
\* The modules of p that calls have in their hands, each with the thread whose call it is.
InHands(p) == UNION {{t} \X (1 .. carry[t]) : t \in {u \in Threads : pid[u] = p}}

\* The modules the Loader holds for a registered process are those its entry
\* lists and those a call is about to attach or unload: none is unloaded twice
\* by two Terminates, and none is dropped while calls overlap.
ModulesAccounted ==
    \A p \in Pids : procs[p] # "None" =>
        loaded[p] = modules[p] + Cardinality(InHands(p))

\* Wait has called FireExitCallbacks with the mutex in its own hands.
WaitHangs == \E t \in Threads : running[t] = "Wait" /\ pc[t] = "fire" /\ mtx = t

\* Whoever holds the mutex between two steps is calling the exit callbacks, after
\* which it lets go, or is a Wait about to take the mutex a second time: no other
\* call keeps it through its work outside (Terminate stops the thread and unloads
\* without it), so nothing but such a Wait blocks the manager.
OnlyWaitBlocks ==
    mtx # NoThread =>
        /\ pc[mtx] \in {"call", "fire"}
        /\ pc[mtx] = "fire" => running[mtx] = "Wait"

\* However calls interleave: no module is unloaded twice or lost, and no mutex is
\* kept but by a Wait (Terminate, LoadModule, Wait, FireExitCallbacks).
ManagerSound == ModulesAccounted /\ OnlyWaitBlocks

\* Terminate returns, and so its exit callbacks have run, whatever other calls
\* do meanwhile, unless a Wait blocks the manager for good (WaitReturns).
TerminateReturns ==
    \A t \in Threads :
        (running[t] = "Terminate") ~> (running[t] = "none" \/ WaitHangs)

\* Wait returns.
WaitReturns == \A t \in Threads : (running[t] = "Wait") ~> (running[t] = "none")

\* Once Terminate has run on a process and no call on it is under way, the
\* Loader holds nothing of it.
TerminateCleans ==
    \A p \in Pids :
        killed[p] /\ (\A t \in Threads : pid[t] # p) => loaded[p] = 0
=============================================================================
