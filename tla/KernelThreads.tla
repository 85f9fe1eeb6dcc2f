---------------------------- MODULE KernelThreads ----------------------------
(***************************************************************************)
(* The life of a guest thread in KernelRuntime.cpp: CreateThread,          *)
(* StartThread, StopThread, JoinThread, CloseHandle and Reset on the       *)
(* caller's side, the lambda handed to std::thread on the other.  The      *)
(* state, the exit code and the std::thread object of a KThread are shared *)
(* without a lock, so every load and store of them is a step of its own.   *)
(* std::thread forbids two callers to operate on one object at a time, so  *)
(* the callers are assumed to take turns on a guest; the guest's own body  *)
(* runs against all of them.                                               *)
(*                                                                         *)
(* guestAbort records a call of std::terminate: destroying or assigning a  *)
(* std::thread that is still joinable, or joining one that is not.         *)
(***************************************************************************)
EXTENDS Integers, FiniteSets

CONSTANTS Callers,    \* host threads that manage guest threads
          Guests,     \* KThread objects
          NoGuest,
          Code,       \* the value the entry function returns
          Evidence    \* what lets a caller drop the handle of a started guest

ASSUME ThreadsAssumption ==
    /\ NoGuest \notin Guests
    /\ Code \in Int \ {0}
    /\ Evidence \subseteq {"stopped", "joined", "timed"}

VARIABLES
    guestOpen,  \* the guest's handle is in KernelState::handles
    guestState, \* KThread::state
    exitCode,   \* KThread::info.exitCode
    guestJoinable,  \* KThread::osThread.joinable()
    guestBody,  \* how far the lambda of StartThread is
    callPc, tgt, callTimed, got,  \* the call each caller is in, and its locals
    entries,    \* history: how often the entry function was entered
    stopped,    \* history: StopThread was called on the guest
    reported,   \* history: what successful joins of the guest returned
    guestAbort  \* std::terminate was called

guestVars == <<guestOpen, guestState, exitCode, guestJoinable, guestBody,
               callPc, tgt, callTimed, got, entries, stopped, reported,
               guestAbort>>

GuestStates == {"None", "Created", "Running", "Stopped", "Dead"}
GuestBodies == {"none", "run", "coded", "dead", "gone"}
CallLabels == {"idle", "starting", "spawning", "stopping", "detaching", "join",
               "poll", "recheck", "read", "ret"}

ThreadsTypeOK ==
    /\ guestOpen \in [Guests -> BOOLEAN]
    /\ guestState \in [Guests -> GuestStates]
    /\ exitCode \in [Guests -> {0, Code}]
    /\ guestJoinable \in [Guests -> BOOLEAN]
    /\ guestBody \in [Guests -> GuestBodies]
    /\ callPc \in [Callers -> CallLabels]
    /\ tgt \in [Callers -> Guests \cup {NoGuest}]
    /\ callTimed \in [Callers -> BOOLEAN]
    /\ got \in [Callers -> {0, Code}]
    /\ entries \in [Guests -> Nat]
    /\ stopped \in [Guests -> BOOLEAN]
    /\ reported \in [Guests -> SUBSET [code : {0, Code}, timed : BOOLEAN,
                                     stopped : BOOLEAN]]
    /\ guestAbort \in BOOLEAN

ThreadsInit ==
    /\ guestOpen = [g \in Guests |-> FALSE]
    /\ guestState = [g \in Guests |-> "None"]
    /\ exitCode = [g \in Guests |-> 0]
    /\ guestJoinable = [g \in Guests |-> FALSE]
    /\ guestBody = [g \in Guests |-> "none"]
    /\ callPc = [c \in Callers |-> "idle"]
    /\ tgt = [c \in Callers |-> NoGuest]
    /\ callTimed = [c \in Callers |-> FALSE]
    /\ got = [c \in Callers |-> 0]
    /\ entries = [g \in Guests |-> 0]
    /\ stopped = [g \in Guests |-> FALSE]
    /\ reported = [g \in Guests |-> {}]
    /\ guestAbort = FALSE

threadVars   == <<guestState, exitCode, guestJoinable, guestBody>>
guestHistory == <<entries, stopped, reported>>
callLocals   == <<callTimed, got>>

-----------------------------------------------------------------------------
\* Who shares the KThread of g besides the table: running calls, the lambda.
Called(g)   == \E c \in Callers : tgt[c] = g
Captured(g) == guestBody[g] \in {"run", "coded", "dead"}

\* The last shared_ptr goes while osThread is joinable: ~thread terminates.
Destroys(g) == guestJoinable[g]

CreateThread(c, g) ==
    /\ callPc[c] = "idle"
    /\ guestState[g] = "None"
    /\ guestState' = [guestState EXCEPT ![g] = "Created"]
    /\ guestOpen' = [guestOpen EXCEPT ![g] = TRUE]
    /\ UNCHANGED <<exitCode, guestJoinable, guestBody, callPc, tgt, callLocals,
                   guestHistory, guestAbort>>

\* The look-up that opens a call on g's handle.
GuestLookup(c, g, step) ==
    /\ callPc[c] = "idle"
    /\ guestOpen[g]
    /\ ~Called(g)
    /\ callPc' = [callPc EXCEPT ![c] = step]
    /\ tgt' = [tgt EXCEPT ![c] = g]

\* The call returns: its shared_ptr goes and may be the last one, of a
\* std::thread that is still attached or not.
CallReturn(c, attached) ==
    LET g == tgt[c]
    IN /\ callPc' = [callPc EXCEPT ![c] = "idle"]
       /\ tgt' = [tgt EXCEPT ![c] = NoGuest]
       /\ callTimed' = [callTimed EXCEPT ![c] = FALSE]
       /\ got' = [got EXCEPT ![c] = 0]
       /\ guestAbort' = (guestAbort \/ (/\ ~guestOpen[g]
                                  /\ ~Captured(g)
                                  /\ attached))

\* Mutant: StartThread forgets to test the state.
StartThreadAnyState(c, g) ==
    /\ GuestLookup(c, g, "starting")
    /\ UNCHANGED <<guestOpen, threadVars, callLocals, guestHistory, guestAbort>>

\* StartThread: the test of Created, the store of Running and the spawn.
StartThread(c, g) ==
    /\ GuestLookup(c, g, "starting")
    /\ guestState[g] = "Created"
    /\ UNCHANGED <<guestOpen, threadVars, callLocals, guestHistory, guestAbort>>

StartThreadStore(c) ==
    /\ callPc[c] = "starting"
    /\ guestState' = [guestState EXCEPT ![tgt[c]] = "Running"]
    /\ callPc' = [callPc EXCEPT ![c] = "spawning"]
    /\ UNCHANGED <<guestOpen, exitCode, guestJoinable, guestBody, tgt,
                   callLocals, guestHistory, guestAbort>>

StartThreadSpawn(c) ==
    /\ callPc[c] = "spawning"
    /\ guestJoinable' = [guestJoinable EXCEPT ![tgt[c]] = TRUE]
    /\ guestBody' = [guestBody EXCEPT ![tgt[c]] = "run"]
    /\ entries' = [entries EXCEPT ![tgt[c]] = @ + 1]
    /\ callPc' = [callPc EXCEPT ![c] = "idle"]
    /\ tgt' = [tgt EXCEPT ![c] = NoGuest]
    /\ guestAbort' = (guestAbort \/ guestJoinable[tgt[c]])
    /\ UNCHANGED <<guestOpen, guestState, exitCode, callLocals, stopped,
                   reported>>

\* The lambda: the entry function returns, info.exitCode is written, the
\* state becomes Dead, and the captured shared_ptr goes with the lambda.
BodyReturn(g) ==
    /\ guestBody[g] = "run"
    /\ exitCode' = [exitCode EXCEPT ![g] = Code]
    /\ guestBody' = [guestBody EXCEPT ![g] = "coded"]
    /\ UNCHANGED <<guestOpen, guestState, guestJoinable, callPc, tgt,
                   callLocals, guestHistory, guestAbort>>

BodyDead(g) ==
    /\ guestBody[g] = "coded"
    /\ guestState' = [guestState EXCEPT ![g] = "Dead"]
    /\ guestBody' = [guestBody EXCEPT ![g] = "dead"]
    /\ UNCHANGED <<guestOpen, exitCode, guestJoinable, callPc, tgt, callLocals,
                   guestHistory, guestAbort>>

BodyGone(g) ==
    /\ guestBody[g] = "dead"
    /\ guestBody' = [guestBody EXCEPT ![g] = "gone"]
    /\ guestAbort' = (guestAbort \/ (~guestOpen[g] /\ ~Called(g) /\ Destroys(g)))
    /\ UNCHANGED <<guestOpen, guestState, exitCode, guestJoinable, callPc, tgt,
                   callLocals, guestHistory>>

\* StopThread: the store of Stopped, then the detach of a joinable thread.
StopThread(c, g) ==
    /\ GuestLookup(c, g, "stopping")
    /\ UNCHANGED <<guestOpen, threadVars, callLocals, guestHistory, guestAbort>>

StopThreadStore(c) ==
    /\ callPc[c] = "stopping"
    /\ guestState' = [guestState EXCEPT ![tgt[c]] = "Stopped"]
    /\ stopped' = [stopped EXCEPT ![tgt[c]] = TRUE]
    /\ callPc' = [callPc EXCEPT ![c] = "detaching"]
    /\ UNCHANGED <<guestOpen, exitCode, guestJoinable, guestBody, tgt,
                   callLocals, entries, reported, guestAbort>>

StopThreadDetach(c) ==
    /\ callPc[c] = "detaching"
    /\ guestJoinable' = [guestJoinable EXCEPT ![tgt[c]] = FALSE]
    /\ CallReturn(c, FALSE)
    /\ UNCHANGED <<guestOpen, guestState, exitCode, guestBody, guestHistory>>

-----------------------------------------------------------------------------
(* JoinThread.                                                             *)

JoinThread(c, g, tm) ==
    /\ GuestLookup(c, g, IF ~guestJoinable[g] THEN "read"
                    ELSE IF tm THEN "poll" ELSE "join")
    /\ callTimed' = [callTimed EXCEPT ![c] = tm]
    /\ UNCHANGED <<guestOpen, threadVars, got, guestHistory, guestAbort>>

\* The polling loop ends when the thread is Dead or the deadline has passed.
JoinPoll(c) ==
    /\ callPc[c] = "poll"
    /\ callPc' = [callPc EXCEPT ![c] = "recheck"]
    /\ UNCHANGED <<guestOpen, threadVars, tgt, callLocals, guestHistory,
                   guestAbort>>

JoinRecheck(c) ==
    /\ callPc[c] = "recheck"
    /\ callPc' = [callPc EXCEPT ![c] =
                 IF guestState[tgt[c]] = "Dead" /\ guestJoinable[tgt[c]]
                 THEN "join" ELSE "read"]
    /\ UNCHANGED <<guestOpen, threadVars, tgt, callLocals, guestHistory,
                   guestAbort>>

\* osThread.join(): returns once the OS thread is gone.
JoinOs(c) ==
    /\ callPc[c] = "join"
    /\ guestBody[tgt[c]] = "gone" \/ ~guestJoinable[tgt[c]]
    /\ guestAbort' = (guestAbort \/ ~guestJoinable[tgt[c]])
    /\ guestJoinable' = [guestJoinable EXCEPT ![tgt[c]] = FALSE]
    /\ callPc' = [callPc EXCEPT ![c] = "read"]
    /\ UNCHANGED <<guestOpen, guestState, exitCode, guestBody, tgt, callLocals,
                   guestHistory>>

\* *exitCode = kt->info.exitCode, before the state is loaded.
JoinRead(c) ==
    /\ callPc[c] = "read"
    /\ got' = [got EXCEPT ![c] = exitCode[tgt[c]]]
    /\ callPc' = [callPc EXCEPT ![c] = "ret"]
    /\ UNCHANGED <<guestOpen, threadVars, tgt, callTimed, guestHistory,
                   guestAbort>>

Outcome(c) ==
    [code |-> got[c], timed |-> callTimed[c], stopped |-> stopped[tgt[c]]]

\* Mutant: a join always reports success.
JoinReturnAlways(c) ==
    /\ callPc[c] = "ret"
    /\ reported' = [reported EXCEPT ![tgt[c]] = @ \cup {Outcome(c)}]
    /\ CallReturn(c, guestJoinable[tgt[c]])
    /\ UNCHANGED <<guestOpen, threadVars, entries, stopped>>

\* return kt->state.load() == Dead
JoinReturn(c) ==
    /\ callPc[c] = "ret"
    /\ reported' = [reported EXCEPT ![tgt[c]] =
                       IF guestState[tgt[c]] = "Dead"
                       THEN @ \cup {Outcome(c)} ELSE @]
    /\ CallReturn(c, guestJoinable[tgt[c]])
    /\ UNCHANGED <<guestOpen, threadVars, entries, stopped>>

-----------------------------------------------------------------------------
(* Dropping handles.  The std::thread of an object nobody shares any more  *)
(* is destroyed with it.                                                   *)

\* The caller has reason to believe that g is over, and is not inside a call.
Droppable(g) ==
    /\ ~Called(g)
    /\ \/ entries[g] = 0
       \/ "stopped" \in Evidence /\ stopped[g]
       \/ "joined" \in Evidence /\ \E r \in reported[g] : ~r.timed
       \/ "timed" \in Evidence /\ \E r \in reported[g] : r.timed

Last(g) == guestOpen[g] /\ ~Called(g) /\ ~Captured(g)

CloseGuestHandle(c, g) ==
    /\ callPc[c] = "idle"
    /\ guestOpen[g]
    /\ Droppable(g)
    /\ guestOpen' = [guestOpen EXCEPT ![g] = FALSE]
    /\ guestAbort' = (guestAbort \/ (Last(g) /\ Destroys(g)))
    /\ UNCHANGED <<threadVars, callPc, tgt, callLocals, guestHistory>>

\* Reset: timers are detached, threads are not; then the table is cleared.
ResetThreads ==
    /\ \E g \in Guests : guestOpen[g]
    /\ \A g \in Guests : Droppable(g)
    /\ guestOpen' = [g \in Guests |-> FALSE]
    /\ guestAbort' = (guestAbort \/ \E g \in Guests : Last(g) /\ Destroys(g))
    /\ UNCHANGED <<threadVars, callPc, tgt, callLocals, guestHistory>>

\* Nothing runs after std::terminate.
CallerStep(c) ==
    /\ ~guestAbort
    /\ \/ StartThreadStore(c) \/ StartThreadSpawn(c)
       \/ StopThreadStore(c) \/ StopThreadDetach(c)
       \/ JoinPoll(c) \/ JoinRecheck(c) \/ JoinOs(c)
       \/ JoinRead(c) \/ JoinReturn(c)

GuestBody(g) ==
    /\ ~guestAbort
    /\ BodyReturn(g) \/ BodyDead(g) \/ BodyGone(g)

CallerCall(c) ==
    /\ ~guestAbort
    /\ \E g \in Guests :
          \/ CreateThread(c, g) \/ StartThread(c, g) \/ StopThread(c, g)
          \/ CloseGuestHandle(c, g)
          \/ \E tm \in BOOLEAN : JoinThread(c, g, tm)

ThreadsNext ==
    \/ \E c \in Callers : CallerCall(c) \/ CallerStep(c)
    \/ \E g \in Guests : GuestBody(g)
    \/ ~guestAbort /\ ResetThreads

ThreadsSpec == ThreadsInit /\ [][ThreadsNext]_guestVars

\* The host runs a call that has begun, and the lambda's own code once the
\* entry function has returned; nothing makes an entry function return.
ThreadsFairness ==
    /\ \A c \in Callers : WF_guestVars(CallerStep(c))
    /\ \A g \in Guests : WF_guestVars(guestBody[g] # "run" /\ GuestBody(g))

ThreadsFairSpec == ThreadsSpec /\ ThreadsFairness

-----------------------------------------------------------------------------
\* A join that reports success reports it of a guest whose entry function has
\* returned, whatever stops, timeouts and closed handles came before.
JoinSound ==
    \A g \in Guests : reported[g] # {} => guestBody[g] \in {"dead", "gone"}

\* A successful join without a timeout, of a guest nobody stopped, returns the
\* exit code of the entry function.
UntimedJoinExitCode ==
    \A g \in Guests : \A r \in reported[g] :
        ~r.timed /\ ~r.stopped => r.code = Code

\* A timed join returns even if the guest never does, and an untimed one
\* returns once the entry function has returned.
JoinReturns ==
    \A c \in Callers :
        (/\ callPc[c] \in {"join", "poll", "recheck", "read", "ret"}
         /\ callTimed[c] \/ guestBody[tgt[c]] # "run") ~> callPc[c] = "idle"
=============================================================================
