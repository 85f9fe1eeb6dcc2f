----------------------------- MODULE KernelTimer -----------------------------
(***************************************************************************)
(* Timers of KernelRuntime.cpp: a host thread per start, a running flag    *)
(* shared without a lock, and a std::thread object that StartTimer assigns *)
(* and StopTimer joins.  As for guest threads, the callers take turns on   *)
(* one timer, so a timer has at most one call under way; the timer's own   *)
(* thread and Reset run against it.                                        *)
(***************************************************************************)
EXTENDS Integers

CONSTANTS Timers,
          Periodic,    \* the timers with attr.periodUs > 0
          Disciplined, \* callers stop a timer before starting or closing it again
          MaxStarts    \* bound: starts of one timer

ASSUME TimerAssumption ==
    /\ Periodic \subseteq Timers
    /\ Disciplined \in BOOLEAN
    /\ MaxStarts \in Nat \ {0}

VARIABLES
    timerOpen,      \* the timer's handle is in KernelState::handles
    timerRuns,      \* KTimer::running
    timerJoinable,  \* KTimer::thread.joinable()
    timerBody,      \* how far the timer's thread is
    timerPc,        \* the call under way on the timer
    timerStarts,    \* history: threads spawned
    timerQuiet,     \* history: StopTimer has returned since the last start
    timerAbort      \* std::terminate was called

timerVars == <<timerOpen, timerRuns, timerJoinable, timerBody, timerPc,
               timerStarts, timerQuiet, timerAbort>>

timerHistory == <<timerStarts, timerQuiet>>

TimersTypeOK ==
    /\ timerOpen \in [Timers -> BOOLEAN]
    /\ timerRuns \in [Timers -> BOOLEAN]
    /\ timerJoinable \in [Timers -> BOOLEAN]
    /\ timerBody \in
           [Timers -> {"none", "sleep", "call", "again", "end", "gone"}]
    /\ timerPc \in
           [Timers -> {"none", "idle", "starting", "spawning", "stopping",
                       "joining"}]
    /\ timerStarts \in [Timers -> 0 .. MaxStarts]
    /\ timerQuiet \in [Timers -> BOOLEAN]
    /\ timerAbort \in BOOLEAN

TimersInit ==
    /\ timerOpen = [k \in Timers |-> FALSE]
    /\ timerRuns = [k \in Timers |-> FALSE]
    /\ timerJoinable = [k \in Timers |-> FALSE]
    /\ timerBody = [k \in Timers |-> "none"]
    /\ timerPc = [k \in Timers |-> "none"]
    /\ timerStarts = [k \in Timers |-> 0]
    /\ timerQuiet = [k \in Timers |-> FALSE]
    /\ timerAbort = FALSE

TimerAlive(k) == timerBody[k] \in {"sleep", "call", "again", "end"}

-----------------------------------------------------------------------------
\* CreateTimer, with or without attr.autoStart.
CreateTimer(k, autoStart) ==
    /\ timerPc[k] = "none"
    /\ timerOpen' = [timerOpen EXCEPT ![k] = TRUE]
    /\ timerPc' = [timerPc EXCEPT ![k] =
                      IF autoStart THEN "starting" ELSE "idle"]
    /\ UNCHANGED <<timerRuns, timerJoinable, timerBody, timerHistory,
                   timerAbort>>

\* A timer that is running already is left alone.
StartTimer(k) ==
    /\ timerPc[k] = "idle"
    /\ timerOpen[k]
    /\ ~timerRuns[k]
    /\ timerStarts[k] < MaxStarts
    /\ Disciplined => timerQuiet[k] \/ timerStarts[k] = 0
    /\ timerPc' = [timerPc EXCEPT ![k] = "starting"]
    /\ UNCHANGED <<timerOpen, timerRuns, timerJoinable, timerBody, timerHistory,
                   timerAbort>>

StartTimerStore(k) ==
    /\ timerPc[k] = "starting"
    /\ timerRuns' = [timerRuns EXCEPT ![k] = TRUE]
    /\ timerPc' = [timerPc EXCEPT ![k] = "spawning"]
    /\ UNCHANGED <<timerOpen, timerJoinable, timerBody, timerHistory,
                   timerAbort>>

\* thread = std::thread(...): terminates when the old thread is joinable.
StartTimerSpawn(k) ==
    /\ timerPc[k] = "spawning"
    /\ timerAbort' = timerJoinable[k]
    /\ timerJoinable' = [timerJoinable EXCEPT ![k] = TRUE]
    /\ timerBody' = [timerBody EXCEPT ![k] = "sleep"]
    /\ timerStarts' = [timerStarts EXCEPT ![k] = @ + 1]
    /\ timerQuiet' = [timerQuiet EXCEPT ![k] = FALSE]
    /\ timerPc' = [timerPc EXCEPT ![k] = "idle"]
    /\ UNCHANGED <<timerOpen, timerRuns>>

\* The timer's thread: sleep a period, test running, call back, go round.
TimerWake(k) ==
    /\ timerBody[k] = "sleep"
    /\ timerBody' = [timerBody EXCEPT ![k] =
                        IF timerRuns[k] THEN "call" ELSE "end"]
    /\ UNCHANGED <<timerOpen, timerRuns, timerJoinable, timerPc, timerHistory,
                   timerAbort>>

TimerCallback(k) ==
    /\ timerBody[k] = "call"
    /\ timerBody' = [timerBody EXCEPT ![k] = "again"]
    /\ UNCHANGED <<timerOpen, timerRuns, timerJoinable, timerPc, timerStarts,
                   timerQuiet, timerAbort>>

TimerAgain(k) ==
    /\ timerBody[k] = "again"
    /\ timerBody' = [timerBody EXCEPT ![k] =
                        IF k \in Periodic /\ timerRuns[k] THEN "sleep" ELSE "end"]
    /\ UNCHANGED <<timerOpen, timerRuns, timerJoinable, timerPc, timerHistory,
                   timerAbort>>

\* running.store(false); the captured shared_ptr goes with the lambda.
TimerEnd(k) ==
    /\ timerBody[k] = "end"
    /\ timerRuns' = [timerRuns EXCEPT ![k] = FALSE]
    /\ timerBody' = [timerBody EXCEPT ![k] = "gone"]
    /\ timerAbort' = (~timerOpen[k] /\ timerPc[k] = "idle" /\ timerJoinable[k])
    /\ UNCHANGED <<timerOpen, timerJoinable, timerPc, timerHistory>>

\* StopTimer and CancelTimer.
StopTimer(k) ==
    /\ timerPc[k] = "idle"
    /\ timerOpen[k]
    /\ timerPc' = [timerPc EXCEPT ![k] = "stopping"]
    /\ UNCHANGED <<timerOpen, timerRuns, timerJoinable, timerBody, timerHistory,
                   timerAbort>>

\* Mutant: StopTimer joins without clearing the flag.
StopTimerStoreForgets(k) ==
    /\ timerPc[k] = "stopping"
    /\ timerPc' = [timerPc EXCEPT ![k] = "joining"]
    /\ UNCHANGED <<timerOpen, timerRuns, timerJoinable, timerBody, timerHistory,
                   timerAbort>>

StopTimerStore(k) ==
    /\ timerPc[k] = "stopping"
    /\ timerRuns' = [timerRuns EXCEPT ![k] = FALSE]
    /\ timerPc' = [timerPc EXCEPT ![k] = "joining"]
    /\ UNCHANGED <<timerOpen, timerJoinable, timerBody, timerHistory,
                   timerAbort>>

\* Mutant: the thread is detached instead of joined.
StopTimerDetach(k) ==
    /\ timerPc[k] = "joining"
    /\ timerJoinable' = [timerJoinable EXCEPT ![k] = FALSE]
    /\ timerQuiet' = [timerQuiet EXCEPT ![k] = TRUE]
    /\ timerPc' = [timerPc EXCEPT ![k] = "idle"]
    /\ UNCHANGED <<timerOpen, timerRuns, timerBody, timerStarts,
                   timerAbort>>

StopTimerJoin(k) ==
    /\ timerPc[k] = "joining"
    /\ timerJoinable[k] => ~TimerAlive(k)
    /\ timerJoinable' = [timerJoinable EXCEPT ![k] = FALSE]
    /\ timerQuiet' = [timerQuiet EXCEPT ![k] = TRUE]
    /\ timerPc' = [timerPc EXCEPT ![k] = "idle"]
    /\ UNCHANGED <<timerOpen, timerRuns, timerBody, timerStarts,
                   timerAbort>>

\* The KTimer goes with its last shared_ptr, and its std::thread with it.
CloseTimerHandle(k) ==
    /\ timerPc[k] = "idle"
    /\ timerOpen[k]
    /\ Disciplined => timerQuiet[k] \/ timerStarts[k] = 0
    /\ timerOpen' = [timerOpen EXCEPT ![k] = FALSE]
    /\ timerAbort' = (~TimerAlive(k) /\ timerJoinable[k])
    /\ UNCHANGED <<timerRuns, timerJoinable, timerBody, timerPc, timerHistory>>

\* Reset, between two calls: every timer in the table is told to stop and its
\* thread is detached, then the table is cleared.
ResetTimers ==
    LET T == {k \in Timers : timerOpen[k]}
    IN /\ \A k \in Timers : timerPc[k] \in {"none", "idle"}
       /\ T # {}
       /\ timerRuns' = [k \in Timers |-> timerRuns[k] /\ k \notin T]
       /\ timerJoinable' = [k \in Timers |-> timerJoinable[k] /\ k \notin T]
       /\ timerOpen' = [k \in Timers |-> FALSE]
       /\ UNCHANGED <<timerBody, timerPc, timerStarts, timerQuiet,
                      timerAbort>>

TimerCallStep(k) ==
    /\ ~timerAbort
    /\ \/ StartTimerStore(k) \/ StartTimerSpawn(k)
       \/ StopTimerStore(k) \/ StopTimerJoin(k)

TimerBody(k) ==
    /\ ~timerAbort
    /\ TimerWake(k) \/ TimerCallback(k) \/ TimerAgain(k) \/ TimerEnd(k)

TimerCall(k) ==
    /\ ~timerAbort
    /\ \/ \E a \in BOOLEAN : CreateTimer(k, a)
       \/ StartTimer(k) \/ StopTimer(k) \/ CloseTimerHandle(k)

TimersNext ==
    \/ \E k \in Timers : TimerCall(k) \/ TimerCallStep(k) \/ TimerBody(k)
    \/ ~timerAbort /\ ResetTimers

TimersSpec == TimersInit /\ [][TimersNext]_timerVars

\* The host runs the call under way and the timer's thread; a callback returns.
TimersFairness ==
    \A k \in Timers : /\ WF_timerVars(TimerCallStep(k))
                      /\ WF_timerVars(TimerBody(k))

TimersFairSpec == TimersSpec /\ TimersFairness

-----------------------------------------------------------------------------
\* Once StopTimer has returned, and until the timer is started again, its
\* callback is neither running nor about to run.
StopQuiesces == \A k \in Timers : timerQuiet[k] => ~TimerAlive(k)

\* The running flag, on which StartTimer decides that there is nothing to do,
\* is set only while a thread serves the timer or is about to.
RunningIsServed ==
    \A k \in Timers :
        timerRuns[k] => TimerAlive(k) \/ timerPc[k] = "spawning"

\* StopTimer returns: a periodic timer's thread sees the flag and ends.
StopReturns ==
    \A k \in Timers :
        (timerPc[k] \in {"stopping", "joining"}) ~> (timerPc[k] = "idle")

=============================================================================
