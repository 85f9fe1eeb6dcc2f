---------------------------- MODULE KernelObjects ----------------------------
(***************************************************************************)
(* Guest threads, timers, wait queues and IPC ports of KernelRuntime.cpp   *)
(* side by side.  No two of them share a lock, a condition variable or a   *)
(* field: guest threads and timers are entries of one handle table, which  *)
(* gives each entry a number of its own (KernelSync), and the other two    *)
(* have tables of their own.  Steps of different facilities therefore      *)
(* commute, and a formula about one facility holds of their interleaving   *)
(* exactly if it holds of the behaviours in which only that facility       *)
(* steps.  Each behaviour here keeps to one facility, the one in focus.    *)
(***************************************************************************)
EXTENDS KernelThreads, KernelTimer, KernelWaitQueue, KernelIpc

CONSTANT Facilities   \* the facilities to look at

ASSUME FacilitiesAssumption ==
    Facilities \subseteq {"threads", "timers", "queues", "ports"}

VARIABLE focus

objectVars == <<focus, guestVars, timerVars, wqVars, ipcVars>>

ObjectsTypeOK ==
    /\ focus \in Facilities
    /\ ThreadsTypeOK
    /\ TimersTypeOK
    /\ WaitQueuesTypeOK
    /\ PortsTypeOK

Init ==
    /\ focus \in Facilities
    /\ ThreadsInit
    /\ TimersInit
    /\ WaitQueuesInit
    /\ PortsInit

StepThreads ==
    /\ focus = "threads"
    /\ ThreadsNext
    /\ UNCHANGED <<focus, timerVars, wqVars, ipcVars>>

StepTimers ==
    /\ focus = "timers"
    /\ TimersNext
    /\ UNCHANGED <<focus, guestVars, wqVars, ipcVars>>

StepQueues ==
    /\ focus = "queues"
    /\ WaitQueuesNext
    /\ UNCHANGED <<focus, guestVars, timerVars, ipcVars>>

StepPorts ==
    /\ focus = "ports"
    /\ PortsNext
    /\ UNCHANGED <<focus, guestVars, timerVars, wqVars>>

Next == StepThreads \/ StepTimers \/ StepQueues \/ StepPorts

Spec == Init /\ [][Next]_objectVars

\* What the scheduler owes to each facility; the ones out of focus have no call
\* under way, so it owes them nothing.
FairSpec ==
    /\ Spec
    /\ ThreadsFairness
    /\ TimersFairness
    /\ WaitQueuesFairness
    /\ PortsFairness

-----------------------------------------------------------------------------
\* The runtime never calls std::terminate: not when a guest thread ends, is
\* stopped, joined and its handle dropped, and not when a timer fires, is
\* stopped, restarted and closed, as long as callers drop a guest only on the
\* evidence named by Evidence and stop a timer before they restart or close it.
NeverAborts == ~guestAbort /\ ~timerAbort

\* A join gives what the guest left behind, with a timeout or without (JoinGuest).
JoinsSound == JoinSound /\ UntimedJoinExitCode

\* Nothing of a timer runs once Stop has returned, and one that runs has its thread
\* (StartTimer, StopTimer, CloseTimer).
TimersSettle == StopQuiesces /\ RunningIsServed

\* The counts of waiters are exact, a port delivers in order and to whoever waits, and
\* its name finds it while it is there (wait queues, IPC ports).
QueuesServe == WaitersExact /\ FifoDelivery /\ NoStrandedMessage /\ NamesLive

\* Joins, StopTimer and timed waits on a queue return although the guest never ends, the
\* timer is periodic, the queue is destroyed (JoinThread, StopTimer, WaitOnQueue).
CallsReturn == JoinReturns /\ StopReturns /\ TimedWaitReturns
=============================================================================
