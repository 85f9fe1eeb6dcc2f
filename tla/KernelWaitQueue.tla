--------------------------- MODULE KernelWaitQueue ---------------------------
(***************************************************************************)
(* Wait queues of KernelRuntime.cpp: a bare condition variable per queue,  *)
(* without a predicate.  P6State::wqMtx guards the table, the entry's own  *)
(* mutex its waiters; WakeOne, WakeAll and DestroyWaitQueue notify under   *)
(* wqMtx only.                                                             *)
(***************************************************************************)
EXTENDS Integers, FiniteSets

CONSTANTS Waiters,
          Queues,     \* the handles CreateWaitQueue will hand out; never reused
          NoQueue

ASSUME WaitQueueAssumption ==
    /\ IsFiniteSet(Waiters)
    /\ NoQueue \notin Queues

VARIABLES
    wqUsed,    \* handles nextWq has passed
    wqs,       \* handles in P6State::wqs
    waiters,   \* WaitQueueEntry::waiters
    wqPc, wqOn, wqTimed,  \* WaitOnQueue of each thread: step, entry, timeout
    wqCause,   \* what ended the cv wait
    wqResult   \* the last return value of WaitOnQueue

wqVars == <<wqUsed, wqs, waiters, wqPc, wqOn, wqTimed, wqCause,
            wqResult>>

Causes == {"none", "wake", "destroy", "spurious", "timeout"}

WaitQueuesTypeOK ==
    /\ wqUsed \subseteq Queues
    /\ wqs \subseteq wqUsed
    /\ waiters \in [Queues -> Nat]
    /\ wqPc \in [Waiters -> {"idle", "enter", "wait", "woken"}]
    /\ wqOn \in [Waiters -> Queues \cup {NoQueue}]
    /\ wqTimed \in [Waiters -> BOOLEAN]
    /\ wqCause \in [Waiters -> Causes]
    /\ wqResult \in [Waiters -> BOOLEAN]

WaitQueuesInit ==
    /\ wqUsed = {}
    /\ wqs = {}
    /\ waiters = [q \in Queues |-> 0]
    /\ wqPc = [t \in Waiters |-> "idle"]
    /\ wqOn = [t \in Waiters |-> NoQueue]
    /\ wqTimed = [t \in Waiters |-> FALSE]
    /\ wqCause = [t \in Waiters |-> "none"]
    /\ wqResult = [t \in Waiters |-> TRUE]

-----------------------------------------------------------------------------
\* Mutant: nextWq is not incremented.
CreateWaitQueueNoBump ==
    \E q \in Queues \ wqUsed :
        /\ wqs' = wqs \cup {q}
        /\ UNCHANGED <<wqUsed, waiters, wqPc, wqOn, wqTimed, wqCause,
                       wqResult>>

CreateWaitQueue ==
    \E q \in Queues \ wqUsed :
        /\ wqUsed' = wqUsed \cup {q}
        /\ wqs' = wqs \cup {q}
        /\ UNCHANGED <<waiters, wqPc, wqOn, wqTimed, wqCause, wqResult>>

\* The look-up under wqMtx, which is then released.
WaitOnQueue(t, q, tm) ==
    /\ wqPc[t] = "idle"
    /\ q \in wqs
    /\ wqPc' = [wqPc EXCEPT ![t] = "enter"]
    /\ wqOn' = [wqOn EXCEPT ![t] = q]
    /\ wqTimed' = [wqTimed EXCEPT ![t] = tm]
    /\ UNCHANGED <<wqUsed, wqs, waiters, wqCause, wqResult>>

\* ++waiters and the cv wait, one critical section of the entry's mutex.
WaitSleep(t) ==
    /\ wqPc[t] = "enter"
    /\ wqPc' = [wqPc EXCEPT ![t] = "wait"]
    /\ waiters' = [waiters EXCEPT ![wqOn[t]] = @ + 1]
    /\ UNCHANGED <<wqUsed, wqs, wqOn, wqTimed, wqCause, wqResult>>

\* The threads of S leave their condition variable.
CvWake(S, why) ==
    /\ wqPc' = [t \in Waiters |-> IF t \in S THEN "woken" ELSE wqPc[t]]
    /\ wqCause' = [t \in Waiters |-> IF t \in S THEN why ELSE wqCause[t]]
    /\ UNCHANGED <<wqUsed, waiters, wqOn, wqTimed, wqResult>>

WaitingOn(q) == {t \in Waiters : wqPc[t] = "wait" /\ wqOn[t] = q}

\* notify_one wakes one of the waiters, whichever the host chooses.
WakeOne(q) ==
    /\ q \in wqs
    /\ \/ WaitingOn(q) = {} /\ CvWake({}, "wake")
       \/ \E t \in WaitingOn(q) : CvWake({t}, "wake")
    /\ UNCHANGED wqs

WakeAll(q) ==
    /\ q \in wqs
    /\ CvWake(WaitingOn(q), "wake")
    /\ UNCHANGED wqs

DestroyWaitQueue(q) ==
    /\ q \in wqs
    /\ CvWake(WaitingOn(q), "destroy")
    /\ wqs' = wqs \ {q}

WaitSpurious(t) ==
    /\ wqPc[t] = "wait"
    /\ CvWake({t}, "spurious")
    /\ UNCHANGED wqs

WaitTimeout(t) ==
    /\ wqPc[t] = "wait"
    /\ wqTimed[t]
    /\ CvWake({t}, "timeout")
    /\ UNCHANGED wqs

\* What WaitOnQueue may return.  A wait_for that is notified still answers
\* timeout when its deadline has passed by the time it looks at the clock.
Answers(t) ==
    {ok \in BOOLEAN : /\ ~wqTimed[t] => ok
                      /\ wqCause[t] = "timeout" => ~ok}

\* --waiters and the return.
WaitReturn(t) ==
    /\ wqPc[t] = "woken"
    /\ \E ok \in Answers(t) :
          wqResult' = [wqResult EXCEPT ![t] = ok]
    /\ waiters' = [waiters EXCEPT ![wqOn[t]] = @ - 1]
    /\ wqPc' = [wqPc EXCEPT ![t] = "idle"]
    /\ wqOn' = [wqOn EXCEPT ![t] = NoQueue]
    /\ wqTimed' = [wqTimed EXCEPT ![t] = FALSE]
    /\ wqCause' = [wqCause EXCEPT ![t] = "none"]
    /\ UNCHANGED <<wqUsed, wqs>>

WaiterStep(t) == WaitSleep(t) \/ WaitReturn(t)

WaitQueuesNext ==
    \/ CreateWaitQueue
    \/ \E q \in Queues :
          \/ \E t \in Waiters : \E tm \in BOOLEAN : WaitOnQueue(t, q, tm)
          \/ WakeOne(q)
          \/ WakeAll(q)
          \/ DestroyWaitQueue(q)
    \/ \E t \in Waiters : WaiterStep(t) \/ WaitSpurious(t) \/ WaitTimeout(t)

WaitQueuesSpec == WaitQueuesInit /\ [][WaitQueuesNext]_wqVars

\* A thread that can run runs, and a deadline passes.  Nobody has to wake.
WaitQueuesFairness ==
    \A t \in Waiters : WF_wqVars(WaiterStep(t)) /\ WF_wqVars(WaitTimeout(t))

WaitQueuesFairSpec == WaitQueuesSpec /\ WaitQueuesFairness

-----------------------------------------------------------------------------
\* The waiters field, which WakeAll returns without taking the entry's mutex,
\* counts the threads inside the wait, however each of them left it.
WaitersExact ==
    \A q \in Queues :
        waiters[q] =
            Cardinality({t \in Waiters : /\ wqPc[t] \in {"wait", "woken"}
                                         /\ wqOn[t] = q})

\* WaitOnQueue with a timeout returns, whatever happens to its queue.
TimedWaitReturns ==
    \A t \in Waiters : (wqOn[t] # NoQueue /\ wqTimed[t]) ~> (wqPc[t] = "idle")

\* Destroying a queue wakes every thread that waits on it with an error: a
\* thread still on its way into the wait, or woken by the destruction, returns,
\* and returns false.
DestroyWakesAll ==
    \A t \in Waiters :
        (/\ wqOn[t] \in wqUsed \ wqs
         /\ wqPc[t] = "enter" \/ wqCause[t] = "destroy")
            ~> (wqPc[t] = "idle" /\ ~wqResult[t])
=============================================================================
