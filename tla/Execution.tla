------------------------------- MODULE Execution -------------------------------
(***************************************************************************)
(* Execution.cpp: the life cycle of the loaded program, driven by threads  *)
(* of the host and reported on by the guest.  A call tests the state and   *)
(* then works through the steps below, which other threads' steps come     *)
(* between; ctx.mtx is recursive and held while callbacks run, and the     *)
(* process manager calls back with its own mutex held.  Callbacks do not   *)
(* call the framework.  Statistics, traps and the error text are left out. *)
(***************************************************************************)
EXTENDS Naturals, Sequences, FiniteSets

CONSTANTS ExHosts, ExGuest,   \* threads that drive the program; the one that reports on it
          ExMaxLoads          \* bound: programs loaded

VARIABLES exState, exPid,     \* ctx.state, ctx.pid
          exMtx, exProcMtx,   \* ctx.mtx with its depth, ProcState::mtx
          exProcs,            \* the processes, as Process.cpp keeps them
          exCallbacks,        \* exit callbacks registered with the process manager
          exInfo,             \* g_exitInfo.reason
          exTodo              \* what is left of each thread's call

exVars == <<exState, exPid, exMtx, exProcMtx, exProcs, exCallbacks, exInfo, exTodo>>

ExThreads == ExHosts \cup {ExGuest}
ExNobody  == "nobody"

ASSUME ExecutionAssumption ==
    /\ IsFiniteSet(ExHosts) /\ ExGuest \notin ExHosts /\ ExNobody \notin ExThreads
    /\ ExMaxLoads \in Nat

ExecStates == {"Idle", "Loading", "Ready", "Running", "Paused", "Exiting", "Terminated", "Faulted"}

\* What a thread may have left to do.
ExOps == {"set", "lock", "unlock", "create", "remember", "forget", "register", "start", "exit",
          "kill", "fire", "fired", "wait", "fault", "panic"}

ExTypeOK ==
    /\ exState \in ExecStates
    /\ exPid \in 0 .. ExMaxLoads
    /\ exMtx.by \in ExThreads \cup {ExNobody} /\ exMtx.depth \in Nat
    /\ exMtx.depth = 0 <=> exMtx.by = ExNobody
    /\ exProcMtx \in ExThreads \cup {ExNobody}
    /\ exProcs \in Seq({"Created", "Running", "Exiting", "Terminated"})
    /\ exCallbacks \in 0 .. ExMaxLoads
    /\ exInfo \in {"Unknown", "Fault", "GuestPanic"}
    /\ exTodo \in [ExThreads -> Seq([do : ExOps, arg : ExecStates \cup ExOps \cup {"none"}, n : Nat])]

ExInit ==
    /\ exState = "Idle" /\ exPid = 0
    /\ exMtx = [by |-> ExNobody, depth |-> 0] /\ exProcMtx = ExNobody
    /\ exProcs = <<>>
    /\ exCallbacks = 0
    /\ exInfo = "Unknown"
    /\ exTodo = [t \in ExThreads |-> <<>>]

Do(step) == <<[do |-> step, arg |-> "none", n |-> 0]>>
DoWith(step, k) == <<[do |-> step, arg |-> "none", n |-> k]>>
SetState(s) == <<[do |-> "set", arg |-> s, n |-> 0]>>

\* A scope of ctx.mtx, and what is done in it: the callbacks, a new state, or a step.
Locked(what) == <<[do |-> "lock", arg |-> what, n |-> 0]>>
Inside(what) == IF what = "none" THEN <<>> ELSE IF what \in ExecStates THEN SetState(what) ELSE Do(what)

ExDoes(t, step) == exTodo[t] # <<>> /\ Head(exTodo[t]).do = step
ExThen(t, steps) == exTodo' = [exTodo EXCEPT ![t] = steps \o Tail(@)]
-----------------------------------------------------------------------------
(* The calls: what each tests first and what it does after. *)

ForceTerminate ==
    IF exPid = 0 THEN SetState("Terminated")
    ELSE DoWith("kill", exPid) \o Do("fire") \o Locked("forget") \o SetState("Terminated")

\* Pause and Resume.
PauseResume ==
    (IF exState = "Running" THEN {SetState("Paused")} ELSE {})
    \cup (IF exState = "Paused" THEN {SetState("Running")} ELSE {})

\* Mutant: Start keeps ctx.mtx while it calls the process manager.
StartLocked == Locked("start")

Start == Do("start")

HostCalls ==
    {ForceTerminate, Do("wait"),
     (IF exState = "Running" THEN ForceTerminate ELSE <<>>)     \* Shutdown
        \o Locked("Idle")}
    \cup (IF exState \in {"Idle", "Terminated"} THEN {SetState("Loading") \o Do("create")} ELSE {})
    \cup (IF exState = "Ready" THEN {Start} ELSE {})
    \cup (IF exState \in {"Running", "Paused"} THEN {SetState("Exiting") \o Do("exit")} ELSE {})
    \cup PauseResume

\* ReportFault, ReportGuestPanic and DispatchException.
GuestCalls == {Do("fault") \o Locked("Faulted"),
               Do("panic") \o SetState("Faulted"),
               SetState("Faulted")}

ExCall(t) ==
    /\ exTodo[t] = <<>>
    /\ t = ExGuest => \E p \in DOMAIN exProcs : exProcs[p] = "Running"
    /\ \E steps \in IF t = ExGuest THEN GuestCalls ELSE HostCalls :
         exTodo' = [exTodo EXCEPT ![t] = steps]
    /\ UNCHANGED <<exState, exPid, exMtx, exProcMtx, exProcs, exCallbacks, exInfo>>
-----------------------------------------------------------------------------
\* SetState: the exchange, then, if the state changed, the callbacks under ctx.mtx.
DoSet(t) ==
    /\ ExDoes(t, "set")
    /\ exState' = Head(exTodo[t]).arg
    /\ ExThen(t, IF exState' = exState THEN <<>> ELSE Locked("none"))
    /\ UNCHANGED <<exPid, exMtx, exProcMtx, exProcs, exCallbacks, exInfo>>

DoLock(t) ==
    /\ ExDoes(t, "lock") /\ exMtx.by \in {t, ExNobody}
    /\ exMtx' = [by |-> t, depth |-> exMtx.depth + 1]
    /\ ExThen(t, Inside(Head(exTodo[t]).arg) \o Do("unlock"))
    /\ UNCHANGED <<exState, exPid, exProcMtx, exProcs, exCallbacks, exInfo>>

DoUnlock(t) ==
    /\ ExDoes(t, "unlock")
    /\ exMtx' = IF exMtx.depth = 1 THEN [by |-> ExNobody, depth |-> 0] ELSE [exMtx EXCEPT !.depth = @ - 1]
    /\ ExThen(t, <<>>)
    /\ UNCHANGED <<exState, exPid, exProcMtx, exProcs, exCallbacks, exInfo>>

\* Process::Create, which may fail, the pid under ctx.mtx, and the exit callback of this load.
DoCreate(t) ==
    /\ ExDoes(t, "create") /\ exProcMtx = ExNobody
    /\ \/ /\ ExThen(t, SetState("Faulted"))
          /\ UNCHANGED exProcs
       \/ /\ Len(exProcs) < ExMaxLoads
          /\ exProcs' = Append(exProcs, "Created")
          /\ ExThen(t, Locked("remember") \o Do("register") \o SetState("Ready"))
    /\ UNCHANGED <<exState, exPid, exMtx, exProcMtx, exCallbacks, exInfo>>

DoPid(t) ==
    /\ \/ ExDoes(t, "remember") /\ exPid' = Len(exProcs)
       \/ ExDoes(t, "forget") /\ exPid' = 0
    /\ ExThen(t, <<>>)
    /\ UNCHANGED <<exState, exMtx, exProcMtx, exProcs, exCallbacks, exInfo>>

DoRegister(t) ==
    /\ ExDoes(t, "register") /\ exProcMtx = ExNobody
    /\ exCallbacks' = exCallbacks + 1
    /\ ExThen(t, <<>>)
    /\ UNCHANGED <<exState, exPid, exMtx, exProcMtx, exProcs, exInfo>>

DoStart(t) ==
    /\ ExDoes(t, "start") /\ exProcMtx = ExNobody
    /\ IF exPid # 0 /\ exProcs[exPid] = "Created"
         THEN exProcs' = [exProcs EXCEPT ![exPid] = "Running"] /\ ExThen(t, SetState("Running"))
         ELSE ExThen(t, SetState("Faulted")) /\ UNCHANGED exProcs
    /\ UNCHANGED <<exState, exPid, exMtx, exProcMtx, exCallbacks, exInfo>>

\* Process::RequestExit, and the first half of Process::Terminate.
DoEnd(t) ==
    /\ ExDoes(t, "exit") \/ ExDoes(t, "kill")
    /\ exProcMtx = ExNobody
    /\ exProcs' = IF ExDoes(t, "kill") THEN [exProcs EXCEPT ![Head(exTodo[t]).n] = "Terminated"]
                  ELSE IF exPid # 0 THEN [exProcs EXCEPT ![exPid] = "Exiting"] ELSE exProcs
    /\ ExThen(t, <<>>)
    /\ UNCHANGED <<exState, exPid, exMtx, exProcMtx, exCallbacks, exInfo>>

\* FireExitCallbacks: every callback ever registered, under ProcState::mtx.
DoFire(t) ==
    /\ ExDoes(t, "fire") /\ exProcMtx = ExNobody
    /\ exProcMtx' = t
    /\ ExThen(t, DoWith("fired", exCallbacks))
    /\ UNCHANGED <<exState, exPid, exMtx, exProcs, exCallbacks, exInfo>>

\* The next callback, or the end of the scope.
DoFired(t) ==
    /\ ExDoes(t, "fired")
    /\ LET left == Head(exTodo[t]).n IN
       IF left = 0 THEN exProcMtx' = ExNobody /\ ExThen(t, <<>>)
       ELSE /\ ExThen(t, Locked("none") \o SetState("Terminated") \o DoWith("fired", left - 1))
            /\ UNCHANGED exProcMtx
    /\ UNCHANGED <<exState, exPid, exMtx, exProcs, exCallbacks, exInfo>>

\* Process::Wait times out, or takes ProcState::mtx and then wants it again to call back.
DoWait(t) ==
    /\ ExDoes(t, "wait")
    /\ \/ ExThen(t, <<>>) /\ UNCHANGED exProcMtx
       \/ /\ exPid # 0 /\ exProcs[exPid] # "Created" /\ exProcMtx = ExNobody
          /\ exProcMtx' = t
          /\ ExThen(t, Do("fire"))
    /\ UNCHANGED <<exState, exPid, exMtx, exProcs, exCallbacks, exInfo>>

DoReport(t) ==
    /\ \/ ExDoes(t, "fault") /\ exInfo' = "Fault"
       \/ ExDoes(t, "panic") /\ exInfo' = "GuestPanic"
    /\ ExThen(t, <<>>)
    /\ UNCHANGED <<exState, exPid, exMtx, exProcMtx, exProcs, exCallbacks>>

ExNext == \E t \in ExThreads :
    \/ ExCall(t) \/ DoSet(t) \/ DoLock(t) \/ DoUnlock(t) \/ DoCreate(t) \/ DoPid(t) \/ DoRegister(t)
    \/ DoStart(t) \/ DoEnd(t) \/ DoFire(t) \/ DoFired(t) \/ DoWait(t) \/ DoReport(t)

ExSpec == ExInit /\ [][ExNext]_exVars
-----------------------------------------------------------------------------
ExWantsCtx(t)  == ExDoes(t, "lock") /\ exMtx.by \notin {t, ExNobody}
ExWantsProc(t) == /\ \E step \in {"create", "register", "start", "exit", "kill", "fire"} : ExDoes(t, step)
                  /\ exProcMtx # ExNobody

(***************************************************************************)
(* The framework and the process manager call each other with a mutex      *)
(* held, but no two threads wait for each other's: ctx.mtx is taken inside *)
(* ProcState::mtx and never the other way round.                           *)
(***************************************************************************)
ExecNoLockCycle ==
    ~ \E t, u \in ExThreads : /\ t # u
                              /\ exMtx.by = t /\ ExWantsProc(t) /\ exProcMtx = u
                              /\ ExWantsCtx(u)

(***************************************************************************)
(* Execution.h: GetExitInfo returns the exit information once the state is *)
(* Terminated or Faulted.                                                  *)
(***************************************************************************)
ExitInfoKnown == exState \in {"Terminated", "Faulted"} => exInfo # "Unknown"
=============================================================================
