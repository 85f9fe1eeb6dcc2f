------------------------- MODULE KernelObjectsProofs -------------------------
(***************************************************************************)
(* The safety properties of guest threads, timers, wait queues and IPC     *)
(* ports, for any callers, guests, timers, waiters, queues, peers, names   *)
(* and bounds.  Each facility has an inductive invariant of its own; the   *)
(* last section puts them side by side, as KernelObjects does.             *)
(***************************************************************************)
EXTENDS KernelObjects, FiniteSetTheorems, TLAPS

-----------------------------------------------------------------------------
(* Guest threads.                                                          *)

\* A caller is in a call exactly while it has a guest, callers take turns on a guest, and
\* nobody drops the handle of a guest on which a call is under way.
TakeTurns ==
    /\ \A c \in Callers : callPc[c] = "idle" <=> tgt[c] = NoGuest
    /\ \A c, d \in Callers : tgt[c] = tgt[d] /\ tgt[c] # NoGuest => c = d
    /\ \A c \in Callers : tgt[c] # NoGuest => guestOpen[tgt[c]]

\* What the stored state and the std::thread object say of the lambda.
GuestOK(g) ==
    /\ guestState[g] \in {"None", "Created"} => guestBody[g] = "none" /\ ~stopped[g]
    /\ guestState[g] = "Dead" => guestBody[g] \in {"dead", "gone"}
    /\ guestBody[g] \in {"coded", "dead", "gone"} => exitCode[g] = Code
    /\ guestBody[g] = "none" => ~guestJoinable[g]
    /\ entries[g] = 0 => guestBody[g] = "none"
    /\ ~guestJoinable[g] /\ ~stopped[g] => guestBody[g] \in {"none", "gone"}
    /\ guestJoinable[g] /\ stopped[g] =>
          \E c \in Callers : tgt[c] = g /\ callPc[c] = "detaching"
    /\ reported[g] # {} => guestBody[g] \in {"dead", "gone"}
    /\ \A r \in reported[g] : ~r.timed => ~guestJoinable[g]
    /\ \A r \in reported[g] : ~r.timed /\ ~r.stopped => r.code = Code

\* What a caller in the middle of a call may rely on.
CallOK(c) ==
    /\ callPc[c] = "starting" => guestState[tgt[c]] = "Created"
    /\ callPc[c] = "spawning" =>
          /\ guestState[tgt[c]] = "Running"
          /\ guestBody[tgt[c]] = "none"
          /\ ~stopped[tgt[c]]
    /\ callPc[c] = "detaching" => stopped[tgt[c]]
    /\ callPc[c] = "join" => guestJoinable[tgt[c]]
    /\ callPc[c] \in {"poll", "recheck"} => callTimed[c]
    /\ callPc[c] \in {"read", "ret"} /\ ~callTimed[c] => ~guestJoinable[tgt[c]]
    /\ callPc[c] = "ret" /\ ~callTimed[c] /\ ~stopped[tgt[c]] =>
          guestBody[tgt[c]] = "none" \/ got[c] = Code

\* A guest is closed on evidence that its thread is not attached any more, unless the
\* success of a timed join counts as evidence.
NoTimedEvidence == "timed" \notin Evidence

ClosedDetached == \A g \in Guests : ~guestOpen[g] => ~guestJoinable[g]

ThreadsInv ==
    /\ ThreadsTypeOK
    /\ TakeTurns
    /\ \A g \in Guests : GuestOK(g)
    /\ \A c \in Callers : CallOK(c)
    /\ NoTimedEvidence => ClosedDetached /\ ~guestAbort

\* What lets a caller drop a handle makes the thread's object safe to destroy.
LEMMA DroppableDetached ==
    ASSUME ThreadsInv, NoTimedEvidence, NEW g \in Guests, Droppable(g)
    PROVE  ~guestJoinable[g]
  BY ThreadsAssumption
  DEF ThreadsAssumption, ThreadsInv, ThreadsTypeOK, GuestOK, Droppable, Called, NoTimedEvidence

LEMMA ThreadsInitInv == ThreadsInit => ThreadsInv
  <1> SUFFICES ASSUME ThreadsInit  PROVE ThreadsInv  OBVIOUS
  <1> USE ThreadsAssumption DEF ThreadsAssumption, ThreadsInit
  <1>1. ThreadsTypeOK  BY DEF ThreadsTypeOK, GuestStates, GuestBodies, CallLabels
  <1>2. TakeTurns  BY DEF TakeTurns
  <1>3. \A g \in Guests : GuestOK(g)  BY DEF GuestOK
  <1>4. \A c \in Callers : CallOK(c)  BY DEF CallOK
  <1>5. ClosedDetached /\ ~guestAbort  BY DEF ClosedDetached
  <1> QED  BY <1>1, <1>2, <1>3, <1>4, <1>5 DEF ThreadsInv

\* The lambda's own steps.
LEMMA GuestBodyKeeps ==
    ASSUME ThreadsInv, NEW g \in Guests, GuestBody(g)
    PROVE  ThreadsInv'
  <1> USE ThreadsAssumption DEF ThreadsAssumption, ThreadsInv, GuestStates, GuestBodies,
          CallLabels, GuestBody, callLocals, guestHistory, threadVars
  <1>1. ASSUME BodyReturn(g)  PROVE ThreadsInv'
    <2>1. ThreadsTypeOK'  BY <1>1 DEF ThreadsTypeOK, BodyReturn
    <2>2. TakeTurns'  BY <1>1 DEF TakeTurns, BodyReturn
    <2>3. \A h \in Guests : GuestOK(h)'  BY <1>1 DEF GuestOK, BodyReturn, ThreadsTypeOK
    <2>4. \A c \in Callers : CallOK(c)'
      BY <1>1 DEF CallOK, BodyReturn, ThreadsTypeOK, GuestOK
    <2>5. NoTimedEvidence => ClosedDetached' /\ ~guestAbort'
      BY <1>1 DEF ClosedDetached, BodyReturn
    <2> QED  BY <2>1, <2>2, <2>3, <2>4, <2>5
  <1>2. ASSUME BodyDead(g)  PROVE ThreadsInv'
    <2>1. ThreadsTypeOK'  BY <1>2 DEF ThreadsTypeOK, BodyDead
    <2>2. TakeTurns'  BY <1>2 DEF TakeTurns, BodyDead
    <2>3. \A h \in Guests : GuestOK(h)'  BY <1>2 DEF GuestOK, BodyDead, ThreadsTypeOK
    <2>4. \A c \in Callers : CallOK(c)'
      BY <1>2 DEF CallOK, BodyDead, ThreadsTypeOK, GuestOK
    <2>5. NoTimedEvidence => ClosedDetached' /\ ~guestAbort'
      BY <1>2 DEF ClosedDetached, BodyDead
    <2> QED  BY <2>1, <2>2, <2>3, <2>4, <2>5
  <1>3. ASSUME BodyGone(g)  PROVE ThreadsInv'
    <2>1. ThreadsTypeOK'  BY <1>3 DEF ThreadsTypeOK, BodyGone
    <2>2. TakeTurns'  BY <1>3 DEF TakeTurns, BodyGone
    <2>3. \A h \in Guests : GuestOK(h)'  BY <1>3 DEF GuestOK, BodyGone, ThreadsTypeOK
    <2>4. \A c \in Callers : CallOK(c)'
      BY <1>3 DEF CallOK, BodyGone, ThreadsTypeOK, GuestOK
    <2>5. NoTimedEvidence => ClosedDetached' /\ ~guestAbort'
      BY <1>3 DEF ClosedDetached, BodyGone, Destroys
    <2> QED  BY <2>1, <2>2, <2>3, <2>4, <2>5
  <1> QED  BY <1>1, <1>2, <1>3

\* A caller's step inside a call.
LEMMA CallerStepKeeps ==
    ASSUME ThreadsInv, NEW c \in Callers, CallerStep(c)
    PROVE  ThreadsInv'
  <1> USE ThreadsAssumption DEF ThreadsAssumption, ThreadsInv, GuestStates, GuestBodies,
          CallLabels, CallerStep, callLocals, guestHistory, threadVars
  <1> DEFINE Inv == /\ ThreadsTypeOK' /\ TakeTurns'
                    /\ \A h \in Guests : GuestOK(h)'
                    /\ \A d \in Callers : CallOK(d)'
                    /\ NoTimedEvidence => ClosedDetached' /\ ~guestAbort'
  <1> SUFFICES Inv  OBVIOUS
  <1>0. callPc[c] # "idle" => tgt[c] \in Guests  BY DEF TakeTurns, ThreadsTypeOK
  <1>1. CASE StartThreadStore(c)
    <2>1. ThreadsTypeOK'  BY <1>1, <1>0 DEF ThreadsTypeOK, StartThreadStore
    <2>2. TakeTurns'  BY <1>1, <1>0 DEF TakeTurns, StartThreadStore, ThreadsTypeOK
    <2>3. \A h \in Guests : GuestOK(h)'
      BY <1>1, <1>0 DEF GuestOK, StartThreadStore, ThreadsTypeOK, CallOK, TakeTurns
    <2>4. \A d \in Callers : CallOK(d)'
      BY <1>1, <1>0 DEF CallOK, StartThreadStore, ThreadsTypeOK, GuestOK, TakeTurns
    <2>5. NoTimedEvidence => ClosedDetached' /\ ~guestAbort'
      BY <1>1 DEF ClosedDetached, StartThreadStore
    <2> QED  BY <2>1, <2>2, <2>3, <2>4, <2>5
  <1>2. CASE StartThreadSpawn(c)
    <2>1. ThreadsTypeOK'  BY <1>2, <1>0 DEF ThreadsTypeOK, StartThreadSpawn
    <2>2. TakeTurns'  BY <1>2, <1>0 DEF TakeTurns, StartThreadSpawn, ThreadsTypeOK
    <2>3. \A h \in Guests : GuestOK(h)'
      BY <1>2, <1>0 DEF GuestOK, StartThreadSpawn, ThreadsTypeOK, CallOK, TakeTurns
    <2>4. \A d \in Callers : CallOK(d)'
      BY <1>2, <1>0 DEF CallOK, StartThreadSpawn, ThreadsTypeOK, GuestOK, TakeTurns
    <2>5. NoTimedEvidence => ClosedDetached' /\ ~guestAbort'
      BY <1>2, <1>0 DEF ClosedDetached, StartThreadSpawn, GuestOK, CallOK, TakeTurns, ThreadsTypeOK
    <2> QED  BY <2>1, <2>2, <2>3, <2>4, <2>5
  <1>3. CASE StopThreadStore(c)
    <2>1. ThreadsTypeOK'  BY <1>3, <1>0 DEF ThreadsTypeOK, StopThreadStore
    <2>2. TakeTurns'  BY <1>3, <1>0 DEF TakeTurns, StopThreadStore, ThreadsTypeOK
    <2>3. \A h \in Guests : GuestOK(h)'
      BY <1>3, <1>0 DEF GuestOK, StopThreadStore, ThreadsTypeOK, CallOK, TakeTurns
    <2>4. \A d \in Callers : CallOK(d)'
      BY <1>3, <1>0 DEF CallOK, StopThreadStore, ThreadsTypeOK, GuestOK, TakeTurns
    <2>5. NoTimedEvidence => ClosedDetached' /\ ~guestAbort'
      BY <1>3 DEF ClosedDetached, StopThreadStore
    <2> QED  BY <2>1, <2>2, <2>3, <2>4, <2>5
  <1>4. CASE StopThreadDetach(c)
    <2>1. ThreadsTypeOK'  BY <1>4, <1>0 DEF ThreadsTypeOK, StopThreadDetach, CallReturn
    <2>2. TakeTurns'  BY <1>4, <1>0 DEF TakeTurns, StopThreadDetach, CallReturn, ThreadsTypeOK
    <2>3. \A h \in Guests : GuestOK(h)'
      <3> SUFFICES ASSUME NEW h \in Guests  PROVE GuestOK(h)'  OBVIOUS
      <3>1. CASE h = tgt[c]
        BY <3>1, <1>4, <1>0 DEF GuestOK, CallOK, StopThreadDetach, CallReturn, ThreadsTypeOK
      <3>2. CASE h # tgt[c]
        <4>1. \A d \in Callers : tgt[d] = h => tgt'[d] = h /\ callPc'[d] = callPc[d]
          BY <3>2, <1>4 DEF StopThreadDetach, CallReturn, ThreadsTypeOK
        <4>2. /\ guestState'[h] = guestState[h] /\ guestBody'[h] = guestBody[h]
              /\ exitCode'[h] = exitCode[h] /\ guestJoinable'[h] = guestJoinable[h]
              /\ entries'[h] = entries[h] /\ stopped'[h] = stopped[h]
              /\ reported'[h] = reported[h]
          BY <3>2, <1>4 DEF StopThreadDetach, CallReturn, ThreadsTypeOK
        <4> QED  BY <4>1, <4>2 DEF GuestOK
      <3> QED  BY <3>1, <3>2
    <2>4. \A d \in Callers : CallOK(d)'
      BY <1>4, <1>0 DEF CallOK, StopThreadDetach, CallReturn, ThreadsTypeOK, GuestOK, TakeTurns
    <2>5. NoTimedEvidence => ClosedDetached' /\ ~guestAbort'
      BY <1>4, <1>0 DEF ClosedDetached, StopThreadDetach, CallReturn, ThreadsTypeOK
    <2> QED  BY <2>1, <2>2, <2>3, <2>4, <2>5
  <1>5. CASE JoinPoll(c) \/ JoinRecheck(c)
    <2>1. ThreadsTypeOK'  BY <1>5, <1>0 DEF ThreadsTypeOK, JoinPoll, JoinRecheck
    <2>2. TakeTurns'  BY <1>5, <1>0 DEF TakeTurns, JoinPoll, JoinRecheck, ThreadsTypeOK
    <2>3. \A h \in Guests : GuestOK(h)'
      BY <1>5, <1>0 DEF GuestOK, JoinPoll, JoinRecheck, ThreadsTypeOK, CallOK, TakeTurns
    <2>4. \A d \in Callers : CallOK(d)'
      BY <1>5, <1>0 DEF CallOK, JoinPoll, JoinRecheck, ThreadsTypeOK, GuestOK, TakeTurns
    <2>5. NoTimedEvidence => ClosedDetached' /\ ~guestAbort'
      BY <1>5 DEF ClosedDetached, JoinPoll, JoinRecheck
    <2> QED  BY <2>1, <2>2, <2>3, <2>4, <2>5
  <1>6. CASE JoinOs(c)
    <2>1. ThreadsTypeOK'  BY <1>6, <1>0 DEF ThreadsTypeOK, JoinOs
    <2>2. TakeTurns'  BY <1>6, <1>0 DEF TakeTurns, JoinOs, ThreadsTypeOK
    <2>3. \A h \in Guests : GuestOK(h)'
      BY <1>6, <1>0 DEF GuestOK, JoinOs, ThreadsTypeOK, CallOK, TakeTurns
    <2>4. \A d \in Callers : CallOK(d)'
      BY <1>6, <1>0 DEF CallOK, JoinOs, ThreadsTypeOK, GuestOK, TakeTurns
    <2>5. NoTimedEvidence => ClosedDetached' /\ ~guestAbort'
      BY <1>6, <1>0 DEF ClosedDetached, JoinOs, CallOK, ThreadsTypeOK
    <2> QED  BY <2>1, <2>2, <2>3, <2>4, <2>5
  <1>7. CASE JoinRead(c)
    <2>1. ThreadsTypeOK'  BY <1>7, <1>0 DEF ThreadsTypeOK, JoinRead
    <2>2. TakeTurns'  BY <1>7, <1>0 DEF TakeTurns, JoinRead, ThreadsTypeOK
    <2>3. \A h \in Guests : GuestOK(h)'
      BY <1>7, <1>0 DEF GuestOK, JoinRead, ThreadsTypeOK, CallOK, TakeTurns
    <2>4. \A d \in Callers : CallOK(d)'
      BY <1>7, <1>0 DEF CallOK, JoinRead, ThreadsTypeOK, GuestOK, TakeTurns
    <2>5. NoTimedEvidence => ClosedDetached' /\ ~guestAbort'
      BY <1>7 DEF ClosedDetached, JoinRead
    <2> QED  BY <2>1, <2>2, <2>3, <2>4, <2>5
  <1>8. CASE JoinReturn(c)
    <2>0. Outcome(c) \in [code : {0, Code}, timed : BOOLEAN, stopped : BOOLEAN]
      BY <1>8, <1>0 DEF JoinReturn, Outcome, ThreadsTypeOK
    <2>1. ThreadsTypeOK'  BY <1>8, <1>0, <2>0 DEF ThreadsTypeOK, JoinReturn, CallReturn
    <2>2. TakeTurns'  BY <1>8, <1>0 DEF TakeTurns, JoinReturn, CallReturn, ThreadsTypeOK
    <2>3. \A h \in Guests : GuestOK(h)'
      BY <1>8, <1>0 DEF GuestOK, JoinReturn, CallReturn, ThreadsTypeOK, CallOK, TakeTurns, Outcome
    <2>4. \A d \in Callers : CallOK(d)'
      BY <1>8, <1>0 DEF CallOK, JoinReturn, CallReturn, ThreadsTypeOK, GuestOK, TakeTurns
    <2>5. NoTimedEvidence => ClosedDetached' /\ ~guestAbort'
      BY <1>8, <1>0 DEF ClosedDetached, JoinReturn, CallReturn, ThreadsTypeOK, TakeTurns
    <2> QED  BY <2>1, <2>2, <2>3, <2>4, <2>5
  <1> QED  BY <1>1, <1>2, <1>3, <1>4, <1>5, <1>6, <1>7, <1>8

\* A caller opens a call, creates a guest or closes a handle.
LEMMA CallerCallKeeps ==
    ASSUME ThreadsInv, NEW c \in Callers, CallerCall(c)
    PROVE  ThreadsInv'
  <1> USE ThreadsAssumption DEF ThreadsAssumption, ThreadsInv, GuestStates, GuestBodies,
          CallLabels, callLocals, guestHistory, threadVars
  <1> DEFINE Inv == /\ ThreadsTypeOK' /\ TakeTurns'
                    /\ \A h \in Guests : GuestOK(h)'
                    /\ \A d \in Callers : CallOK(d)'
                    /\ NoTimedEvidence => ClosedDetached' /\ ~guestAbort'
  <1> SUFFICES Inv  OBVIOUS
  <1> PICK g \in Guests :
        /\ ~guestAbort
        /\ \/ CreateThread(c, g) \/ StartThread(c, g) \/ StopThread(c, g)
           \/ CloseGuestHandle(c, g)
           \/ \E tm \in BOOLEAN : JoinThread(c, g, tm)
    BY DEF CallerCall
  <1>1. CASE CreateThread(c, g)
    <2>1. ThreadsTypeOK'  BY <1>1 DEF ThreadsTypeOK, CreateThread
    <2>2. TakeTurns'  BY <1>1 DEF TakeTurns, CreateThread, ThreadsTypeOK
    <2>3. \A h \in Guests : GuestOK(h)'  BY <1>1 DEF GuestOK, CreateThread, ThreadsTypeOK
    <2>4. \A d \in Callers : CallOK(d)'
      BY <1>1 DEF CallOK, CreateThread, ThreadsTypeOK, TakeTurns
    <2>5. NoTimedEvidence => ClosedDetached' /\ ~guestAbort'
      BY <1>1 DEF ClosedDetached, CreateThread, ThreadsTypeOK
    <2> QED  BY <2>1, <2>2, <2>3, <2>4, <2>5
  <1>2. CASE StartThread(c, g) \/ StopThread(c, g)
    <2>1. ThreadsTypeOK'
      BY <1>2 DEF ThreadsTypeOK, StartThread, StopThread, GuestLookup
    <2>2. TakeTurns'
      BY <1>2 DEF TakeTurns, StartThread, StopThread, GuestLookup, Called, ThreadsTypeOK
    <2>3. \A h \in Guests : GuestOK(h)'
      BY <1>2 DEF GuestOK, StartThread, StopThread, GuestLookup, ThreadsTypeOK
    <2>4. \A d \in Callers : CallOK(d)'
      BY <1>2 DEF CallOK, StartThread, StopThread, GuestLookup, ThreadsTypeOK
    <2>5. NoTimedEvidence => ClosedDetached' /\ ~guestAbort'
      BY <1>2 DEF ClosedDetached, StartThread, StopThread
    <2> QED  BY <2>1, <2>2, <2>3, <2>4, <2>5
  <1>3. CASE CloseGuestHandle(c, g)
    <2>1. ThreadsTypeOK'  BY <1>3 DEF ThreadsTypeOK, CloseGuestHandle
    <2>2. TakeTurns'
      BY <1>3 DEF TakeTurns, CloseGuestHandle, Droppable, Called, ThreadsTypeOK
    <2>3. \A h \in Guests : GuestOK(h)'  BY <1>3 DEF GuestOK, CloseGuestHandle
    <2>4. \A d \in Callers : CallOK(d)'  BY <1>3 DEF CallOK, CloseGuestHandle
    <2>5. ASSUME NoTimedEvidence  PROVE ClosedDetached' /\ ~guestAbort'
      <3>1. ~guestJoinable[g]
        BY <1>3, <2>5, DroppableDetached DEF CloseGuestHandle
      <3> QED  BY <1>3, <2>5, <3>1 DEF ClosedDetached, CloseGuestHandle, Destroys, ThreadsTypeOK
    <2> QED  BY <2>1, <2>2, <2>3, <2>4, <2>5
  <1>4. ASSUME NEW tm \in BOOLEAN, JoinThread(c, g, tm)  PROVE Inv
    <2>1. ThreadsTypeOK'  BY <1>4 DEF ThreadsTypeOK, JoinThread, GuestLookup
    <2>2. TakeTurns'
      BY <1>4 DEF TakeTurns, JoinThread, GuestLookup, Called, ThreadsTypeOK
    <2>3. \A h \in Guests : GuestOK(h)'
      BY <1>4 DEF GuestOK, JoinThread, GuestLookup, ThreadsTypeOK
    <2>4. \A d \in Callers : CallOK(d)'
      BY <1>4 DEF CallOK, JoinThread, GuestLookup, ThreadsTypeOK
    <2>5. NoTimedEvidence => ClosedDetached' /\ ~guestAbort'
      BY <1>4 DEF ClosedDetached, JoinThread
    <2> QED  BY <2>1, <2>2, <2>3, <2>4, <2>5
  <1> QED  BY <1>1, <1>2, <1>3, <1>4

LEMMA ResetThreadsKeeps ==
    ASSUME ThreadsInv, ~guestAbort, ResetThreads
    PROVE  ThreadsInv'
  <1> USE ThreadsAssumption DEF ThreadsAssumption, ThreadsInv, GuestStates, GuestBodies,
          CallLabels, callLocals, guestHistory, threadVars
  <1>1. ThreadsTypeOK'  BY DEF ThreadsTypeOK, ResetThreads
  <1>2. TakeTurns'  BY DEF TakeTurns, ResetThreads, Droppable, Called, ThreadsTypeOK
  <1>3. \A h \in Guests : GuestOK(h)'  BY DEF GuestOK, ResetThreads
  <1>4. \A d \in Callers : CallOK(d)'  BY DEF CallOK, ResetThreads
  <1>5. ASSUME NoTimedEvidence  PROVE ClosedDetached' /\ ~guestAbort'
    <2>1. \A g \in Guests : ~guestJoinable[g]
      BY <1>5, DroppableDetached DEF ResetThreads
    <2> QED  BY <2>1 DEF ClosedDetached, ResetThreads, Destroys
  <1> QED  BY <1>1, <1>2, <1>3, <1>4, <1>5

LEMMA ThreadsNextKeeps == ThreadsInv /\ ThreadsNext => ThreadsInv'
  BY CallerStepKeeps, CallerCallKeeps, GuestBodyKeeps, ResetThreadsKeeps DEF ThreadsNext

LEMMA ThreadsStutterKeeps == ThreadsInv /\ UNCHANGED guestVars => ThreadsInv'
  <1> SUFFICES ASSUME ThreadsInv, UNCHANGED guestVars  PROVE ThreadsInv'  OBVIOUS
  <1> USE DEF ThreadsInv, guestVars
  <1>1. ThreadsTypeOK' /\ TakeTurns'  BY DEF ThreadsTypeOK, TakeTurns
  <1>2. \A g \in Guests : GuestOK(g)'  BY DEF GuestOK
  <1>3. \A c \in Callers : CallOK(c)'  BY DEF CallOK
  <1> QED  BY <1>1, <1>2, <1>3 DEF ClosedDetached

-----------------------------------------------------------------------------
(* Timers.                                                                 *)

InTimerCall(k) == timerPc[k] \in {"starting", "spawning", "stopping", "joining"}

\* What the fields of a timer say of its thread.
TimerOK(k) ==
    /\ timerPc[k] = "none" =>
          /\ timerBody[k] = "none"
          /\ timerStarts[k] = 0
    /\ timerStarts[k] = 0 => ~timerJoinable[k]
    /\ InTimerCall(k) => timerOpen[k]
    /\ timerPc[k] \in {"starting", "spawning"} => timerStarts[k] < MaxStarts
    /\ TimerAlive(k) /\ timerOpen[k] => timerJoinable[k]
    /\ timerQuiet[k] => ~TimerAlive(k) /\ ~timerJoinable[k]
    /\ timerRuns[k] => TimerAlive(k) \/ timerPc[k] = "spawning"

\* A caller that stops a timer before it restarts or closes it finds the thread's object
\* free, and leaves it so.
TimerFree(k) ==
    ~timerOpen[k] \/ timerPc[k] \in {"starting", "spawning"} => ~timerJoinable[k]

TimersInv ==
    /\ TimersTypeOK
    /\ \A k \in Timers : TimerOK(k)
    /\ Disciplined => ~timerAbort /\ \A k \in Timers : TimerFree(k)

LEMMA TimersInitInv == TimersInit => TimersInv
  <1> SUFFICES ASSUME TimersInit  PROVE TimersInv  OBVIOUS
  <1> USE TimerAssumption DEF TimerAssumption, TimersInit
  <1>0. 0 \in 0 .. MaxStarts  OBVIOUS
  <1>1. TimersTypeOK
    <2>1. timerStarts \in [Timers -> 0 .. MaxStarts]  BY <1>0
    <2>2. /\ timerBody \in
               [Timers -> {"none", "sleep", "call", "again", "end", "gone"}]
          /\ timerPc \in
               [Timers -> {"none", "idle", "starting", "spawning", "stopping",
                           "joining"}]
      OBVIOUS
    <2> QED  BY <2>1, <2>2 DEF TimersTypeOK
  <1>2. \A k \in Timers : TimerOK(k)  BY DEF TimerOK, TimerAlive, InTimerCall
  <1>3. ~timerAbort /\ \A k \in Timers : TimerFree(k)  BY DEF TimerFree
  <1> QED  BY <1>1, <1>2, <1>3 DEF TimersInv

\* Steps of one timer: the other timers keep every field.
LEMMA TimerStepKeeps ==
    ASSUME TimersInv, NEW k \in Timers,
           TimerCall(k) \/ TimerCallStep(k) \/ TimerBody(k)
    PROVE  TimersInv'
  <1> USE TimerAssumption DEF TimerAssumption, TimersInv, TimersTypeOK, TimerOK, TimerFree,
          TimerAlive, InTimerCall, timerHistory
  <1>1. ASSUME NEW a \in BOOLEAN, CreateTimer(k, a), ~timerAbort  PROVE TimersInv'
    BY <1>1 DEF CreateTimer
  <1>2. ASSUME StartTimer(k), ~timerAbort  PROVE TimersInv'  BY <1>2 DEF StartTimer
  <1>3. ASSUME StopTimer(k), ~timerAbort  PROVE TimersInv'  BY <1>3 DEF StopTimer
  <1>4. ASSUME CloseTimerHandle(k), ~timerAbort  PROVE TimersInv'
    BY <1>4 DEF CloseTimerHandle
  <1>5. ASSUME StartTimerStore(k), ~timerAbort  PROVE TimersInv'
    BY <1>5 DEF StartTimerStore
  <1>6. ASSUME StartTimerSpawn(k), ~timerAbort  PROVE TimersInv'
    BY <1>6 DEF StartTimerSpawn
  <1>7. ASSUME StopTimerStore(k), ~timerAbort  PROVE TimersInv'
    BY <1>7 DEF StopTimerStore
  <1>8. ASSUME StopTimerJoin(k), ~timerAbort  PROVE TimersInv'
    BY <1>8 DEF StopTimerJoin
  <1>9. ASSUME TimerWake(k), ~timerAbort  PROVE TimersInv'  BY <1>9 DEF TimerWake
  <1>10. ASSUME TimerCallback(k), ~timerAbort  PROVE TimersInv'  BY <1>10 DEF TimerCallback
  <1>11. ASSUME TimerAgain(k), ~timerAbort  PROVE TimersInv'  BY <1>11 DEF TimerAgain
  <1>12. ASSUME TimerEnd(k), ~timerAbort  PROVE TimersInv'  BY <1>12 DEF TimerEnd
  <1> QED
    BY <1>1, <1>2, <1>3, <1>4, <1>5, <1>6, <1>7, <1>8, <1>9, <1>10, <1>11, <1>12
    DEF TimerCall, TimerCallStep, TimerBody

LEMMA ResetTimersKeeps ==
    ASSUME TimersInv, ResetTimers
    PROVE  TimersInv'
  BY TimerAssumption DEF TimerAssumption, TimersInv, TimersTypeOK, TimerOK, TimerFree,
     TimerAlive, InTimerCall, ResetTimers

LEMMA TimersNextKeeps == TimersInv /\ TimersNext => TimersInv'
  BY TimerStepKeeps, ResetTimersKeeps DEF TimersNext

LEMMA TimersStutterKeeps == TimersInv /\ UNCHANGED timerVars => TimersInv'
  BY DEF TimersInv, TimersTypeOK, TimerOK, TimerFree, TimerAlive, InTimerCall, timerVars

-----------------------------------------------------------------------------
(* Wait queues.                                                            *)

\* The threads the waiters field of q is meant to count.
Inside(q) == {t \in Waiters : wqPc[t] \in {"wait", "woken"} /\ wqOn[t] = q}

QueuesInv ==
    /\ WaitQueuesTypeOK
    /\ \A t \in Waiters : wqPc[t] # "idle" => wqOn[t] \in Queues
    /\ WaitersExact

LEMMA InsideFinite == \A q \in Queues : IsFiniteSet(Inside(q))
  <1>1. \A q \in Queues : Inside(q) \subseteq Waiters  BY DEF Inside
  <1> QED  BY <1>1, WaitQueueAssumption, FS_Subset DEF WaitQueueAssumption

LEMMA QueuesInitInv == WaitQueuesInit => QueuesInv
  <1> SUFFICES ASSUME WaitQueuesInit  PROVE QueuesInv  OBVIOUS
  <1>1. WaitQueuesTypeOK  BY DEF WaitQueuesTypeOK, WaitQueuesInit, Causes
  <1>2. \A t \in Waiters : wqPc[t] = "idle"  BY DEF WaitQueuesInit
  <1>3. \A q \in Queues : Inside(q) = {}  BY <1>2 DEF Inside
  <1>4. \A q \in Queues : waiters[q] = Cardinality(Inside(q))
    BY <1>3, FS_EmptySet DEF WaitQueuesInit
  <1> QED  BY <1>1, <1>2, <1>4 DEF QueuesInv, WaitersExact, Inside

\* A step that leaves everybody's place between outside and inside alone.
LEMMA SamePlaces ==
    ASSUME QueuesInv, WaitQueuesTypeOK',
           \A t \in Waiters : wqPc'[t] # "idle" => wqOn'[t] \in Queues,
           UNCHANGED waiters,
           \A t \in Waiters : \A q \in Queues :
              wqPc'[t] \in {"wait", "woken"} /\ wqOn'[t] = q <=>
              wqPc[t] \in {"wait", "woken"} /\ wqOn[t] = q
    PROVE  QueuesInv'
  <1>1. \A q \in Queues : Inside(q)' = Inside(q)  BY DEF Inside
  <1>2. WaitersExact'  BY <1>1 DEF QueuesInv, WaitersExact, Inside
  <1> QED  BY <1>2 DEF QueuesInv

\* Whoever leaves the condition variable, for whatever reason, is still inside.
LEMMA CvWakeKeeps ==
    ASSUME QueuesInv, NEW S, NEW why \in Causes, CvWake(S, why),
           \A t \in Waiters : t \in S => wqPc[t] = "wait",
           wqs' \subseteq wqs
    PROVE  QueuesInv'
  <1>1. WaitQueuesTypeOK'  BY DEF QueuesInv, WaitQueuesTypeOK, CvWake
  <1>2. \A t \in Waiters : wqPc'[t] # "idle" => wqOn'[t] \in Queues
    BY DEF QueuesInv, CvWake
  <1>3. \A t \in Waiters : \A q \in Queues :
           wqPc'[t] \in {"wait", "woken"} /\ wqOn'[t] = q <=>
           wqPc[t] \in {"wait", "woken"} /\ wqOn[t] = q
    BY DEF CvWake
  <1>4. UNCHANGED waiters  BY DEF CvWake
  <1> QED  BY <1>1, <1>2, <1>3, <1>4, SamePlaces

LEMMA WaitSleepKeeps ==
    ASSUME QueuesInv, NEW t \in Waiters, WaitSleep(t)
    PROVE  QueuesInv'
  <1>1. PICK q \in Queues : q = wqOn[t]  BY DEF QueuesInv, WaitSleep
  <1>2. WaitQueuesTypeOK'  BY <1>1 DEF QueuesInv, WaitQueuesTypeOK, WaitSleep
  <1>3. \A u \in Waiters : wqPc'[u] # "idle" => wqOn'[u] \in Queues
    BY <1>1 DEF QueuesInv, WaitQueuesTypeOK, WaitSleep
  <1>4. Inside(q)' = Inside(q) \cup {t}
    BY <1>1 DEF Inside, WaitSleep, QueuesInv, WaitQueuesTypeOK
  <1>5. t \notin Inside(q)  BY <1>1 DEF Inside, WaitSleep
  <1>6. \A p \in Queues \ {q} : Inside(p)' = Inside(p)
    BY <1>1 DEF Inside, WaitSleep, QueuesInv, WaitQueuesTypeOK
  <1>7. Cardinality(Inside(q)') = Cardinality(Inside(q)) + 1
    BY <1>1, <1>4, <1>5, InsideFinite, FS_AddElement
  <1>8. \A p \in Queues : waiters'[p] = Cardinality(Inside(p)')
    BY <1>1, <1>6, <1>7 DEF QueuesInv, WaitersExact, Inside, WaitSleep, WaitQueuesTypeOK
  <1>9. WaitersExact'  BY <1>8 DEF WaitersExact, Inside
  <1> QED  BY <1>2, <1>3, <1>9 DEF QueuesInv

LEMMA WaitReturnKeeps ==
    ASSUME QueuesInv, NEW t \in Waiters, WaitReturn(t)
    PROVE  QueuesInv'
  <1>1. PICK q \in Queues : q = wqOn[t]  BY DEF QueuesInv, WaitReturn
  <1>2. Inside(q)' = Inside(q) \ {t}
    BY <1>1 DEF Inside, WaitReturn, QueuesInv, WaitQueuesTypeOK
  <1>3. t \in Inside(q)  BY <1>1 DEF Inside, WaitReturn
  <1>4. \A p \in Queues \ {q} : Inside(p)' = Inside(p)
    BY <1>1 DEF Inside, WaitReturn, QueuesInv, WaitQueuesTypeOK
  <1>5. /\ Cardinality(Inside(q)) \in Nat
        /\ Cardinality(Inside(q)') = Cardinality(Inside(q)) - 1
    BY <1>1, <1>2, <1>3, InsideFinite, FS_RemoveElement, FS_CardinalityType
  <1>6. IsFiniteSet(Inside(q)')  BY <1>1, <1>2, InsideFinite, FS_Subset
  <1>7. Cardinality(Inside(q)') \in Nat  BY <1>6, FS_CardinalityType
  <1>8. waiters[q] = Cardinality(Inside(q))  BY <1>1 DEF QueuesInv, WaitersExact, Inside
  <1>9. waiters'[q] = Cardinality(Inside(q)') /\ waiters'[q] \in Nat
    BY <1>1, <1>5, <1>7, <1>8 DEF WaitReturn, QueuesInv, WaitQueuesTypeOK
  <1>10. \A p \in Queues \ {q} : waiters'[p] = waiters[p]
    BY <1>1 DEF WaitReturn, QueuesInv, WaitQueuesTypeOK
  <1>11. waiters' \in [Queues -> Nat]
    BY <1>9, <1>10 DEF WaitReturn, QueuesInv, WaitQueuesTypeOK
  <1>12. WaitQueuesTypeOK'
    <2>1. wqResult' \in [Waiters -> BOOLEAN]
      BY DEF QueuesInv, WaitQueuesTypeOK, WaitReturn, Answers
    <2>2. wqCause' \in [Waiters -> Causes]
      BY DEF QueuesInv, WaitQueuesTypeOK, WaitReturn, Causes
    <2>3. /\ wqPc' \in [Waiters -> {"idle", "enter", "wait", "woken"}]
          /\ wqOn' \in [Waiters -> Queues \cup {NoQueue}]
          /\ wqTimed' \in [Waiters -> BOOLEAN]
          /\ UNCHANGED <<wqUsed, wqs>>
      BY DEF QueuesInv, WaitQueuesTypeOK, WaitReturn
    <2> QED  BY <1>11, <2>1, <2>2, <2>3 DEF QueuesInv, WaitQueuesTypeOK
  <1>13. \A u \in Waiters : wqPc'[u] # "idle" => wqOn'[u] \in Queues
    BY DEF QueuesInv, WaitQueuesTypeOK, WaitReturn
  <1>14. \A p \in Queues : waiters'[p] = Cardinality(Inside(p)')
    BY <1>4, <1>9, <1>10 DEF QueuesInv, WaitersExact, Inside
  <1>15. WaitersExact'  BY <1>14 DEF WaitersExact, Inside
  <1> QED  BY <1>12, <1>13, <1>15 DEF QueuesInv

LEMMA QueuesNextKeeps == QueuesInv /\ WaitQueuesNext => QueuesInv'
  <1> SUFFICES ASSUME QueuesInv, WaitQueuesNext  PROVE QueuesInv'  OBVIOUS
  <1>1. CASE CreateWaitQueue
    <2>1. WaitQueuesTypeOK'  BY <1>1 DEF QueuesInv, WaitQueuesTypeOK, CreateWaitQueue
    <2>2. UNCHANGED <<waiters, wqPc, wqOn>>  BY <1>1 DEF CreateWaitQueue
    <2> QED  BY <2>1, <2>2, SamePlaces DEF QueuesInv
  <1>2. ASSUME NEW q \in Queues, NEW t \in Waiters, NEW tm \in BOOLEAN,
               WaitOnQueue(t, q, tm)
        PROVE  QueuesInv'
    <2>1. WaitQueuesTypeOK'  BY <1>2 DEF QueuesInv, WaitQueuesTypeOK, WaitOnQueue
    <2>2. \A u \in Waiters : wqPc'[u] # "idle" => wqOn'[u] \in Queues
      BY <1>2 DEF QueuesInv, WaitQueuesTypeOK, WaitOnQueue
    <2>3. \A u \in Waiters : \A p \in Queues :
             wqPc'[u] \in {"wait", "woken"} /\ wqOn'[u] = p <=>
             wqPc[u] \in {"wait", "woken"} /\ wqOn[u] = p
      BY <1>2 DEF QueuesInv, WaitQueuesTypeOK, WaitOnQueue
    <2>4. UNCHANGED waiters  BY <1>2 DEF WaitOnQueue
    <2> QED  BY <2>1, <2>2, <2>3, <2>4, SamePlaces
  <1>3. ASSUME NEW q \in Queues, WakeOne(q)  PROVE QueuesInv'
    <2>1. CASE CvWake({}, "wake")
      BY <1>3, <2>1, CvWakeKeeps DEF WakeOne, Causes
    <2>2. ASSUME NEW t \in WaitingOn(q), CvWake({t}, "wake")  PROVE QueuesInv'
      BY <1>3, <2>2, CvWakeKeeps DEF WakeOne, Causes, WaitingOn
    <2> QED  BY <1>3, <2>1, <2>2 DEF WakeOne
  <1>4. ASSUME NEW q \in Queues, WakeAll(q)  PROVE QueuesInv'
    BY <1>4, CvWakeKeeps DEF WakeAll, Causes, WaitingOn
  <1>5. ASSUME NEW q \in Queues, DestroyWaitQueue(q)  PROVE QueuesInv'
    BY <1>5, CvWakeKeeps DEF DestroyWaitQueue, Causes, WaitingOn
  <1>6. ASSUME NEW t \in Waiters, WaitSpurious(t) \/ WaitTimeout(t)  PROVE QueuesInv'
    BY <1>6, CvWakeKeeps DEF WaitSpurious, WaitTimeout, Causes
  <1> QED
    BY <1>1, <1>2, <1>3, <1>4, <1>5, <1>6, WaitSleepKeeps, WaitReturnKeeps
    DEF WaitQueuesNext, WaiterStep

LEMMA QueuesStutterKeeps == QueuesInv /\ UNCHANGED wqVars => QueuesInv'
  BY DEF QueuesInv, WaitQueuesTypeOK, WaitersExact, wqVars

-----------------------------------------------------------------------------
(* IPC ports.                                                              *)

LEMMA AppendAfter ==
    ASSUME NEW S, NEW s \in Seq(S), NEW t \in Seq(S), NEW m \in S
    PROVE  /\ s \o Append(t, m) = Append(s \o t, m)
           /\ Append(t, m) \in Seq(S)
  OBVIOUS

LEMMA MoveHead ==
    ASSUME NEW S, NEW s \in Seq(S), NEW t \in Seq(S), t # <<>>
    PROVE  /\ Append(s, Head(t)) \o Tail(t) = s \o t
           /\ Head(t) \in S
           /\ Tail(t) \in Seq(S)
           /\ Len(Tail(t)) = Len(t) - 1
  OBVIOUS

PeerOK(t) ==
    /\ ipcPc[t] # "idle" => ipcAt[t] \in Ports
    /\ ipcPc[t] = "push" => ipcSent[t] < MaxSent

\* A handle leads to a port that exists already.
HandlesLead == \A h \in Ports : byHandle[h] # NoPort => byHandle[h] < nextIpc

PortsInv ==
    /\ PortsTypeOK
    /\ \A t \in Peers : PeerOK(t)
    /\ HandlesLead
    /\ FifoDelivery
    /\ NoStrandedMessage
    /\ NamesLive

USE IpcAssumption DEF IpcAssumption

LEMMA PortsInitInv == PortsInit => PortsInv
  <1> SUFFICES ASSUME PortsInit  PROVE PortsInv  OBVIOUS
  <1>1. PortsTypeOK  BY DEF PortsTypeOK, PortsInit, Ports, NoPort
  <1>2. (\A t \in Peers : PeerOK(t)) /\ HandlesLead
    BY DEF PortsInit, PeerOK, HandlesLead, NoPort
  <1>3. FifoDelivery  BY DEF PortsInit, FifoDelivery
  <1>4. \A p \in Ports : Receivers(p) = {}  BY DEF PortsInit, Receivers
  <1>5. NoStrandedMessage  BY <1>4 DEF NoStrandedMessage
  <1>6. NamesLive  BY DEF PortsInit, NamesLive
  <1> QED  BY <1>1, <1>2, <1>3, <1>5, <1>6 DEF PortsInv

\* The table operations leave queues and threads alone.
LEMMA TableStep ==
    ASSUME PortsInv, UNCHANGED <<portQueue, ipcPc, ipcAt, ipcTimed, portHistory>>,
           nextIpc' \in 1 .. MaxPort + 1,
           byName' \in [Names -> Ports \cup {NoPort}],
           byHandle' \in [Ports -> Ports \cup {NoPort}],
           \A h \in Ports : byHandle'[h] # NoPort => h < nextIpc' /\ byHandle'[h] < nextIpc',
           portName' \in [Ports -> Names],
           NamesLive'
    PROVE  PortsInv'
  <1> USE DEF PortsInv, portHistory
  <1>1. PortsTypeOK'  BY DEF PortsTypeOK
  <1>2. (\A t \in Peers : PeerOK(t)') /\ HandlesLead'  BY DEF PeerOK, HandlesLead
  <1>3. FifoDelivery'  BY DEF FifoDelivery
  <1>4. NoStrandedMessage'  BY DEF NoStrandedMessage, Receivers, Awake
  <1> QED  BY <1>1, <1>2, <1>3, <1>4

LEMMA CreateIpcPortKeeps ==
    ASSUME PortsInv, NEW n \in Names, CreateIpcPort(n)
    PROVE  PortsInv'
  <1> USE DEF PortsInv, PortsTypeOK, CreateIpcPort, Ports, NoPort
  <1>1. nextIpc \in Ports /\ nextIpc' \in 1 .. MaxPort + 1  OBVIOUS
  <1>2. /\ byName' \in [Names -> Ports \cup {NoPort}]
        /\ byHandle' \in [Ports -> Ports \cup {NoPort}]
        /\ portName' \in [Ports -> Names]
    BY <1>1
  <1>3. \A h \in Ports : byHandle'[h] # NoPort => h < nextIpc' /\ byHandle'[h] < nextIpc'
    BY SMTT(40), <1>1 DEF HandlesLead
  <1>4. ASSUME NEW m \in Names, byName'[m] # NoPort
        PROVE  portName'[byName'[m]] = m /\ \E h \in Ports : byHandle'[h] = byName'[m]
    <2>1. CASE m = n  BY <1>1, <2>1
    <2>2. CASE m # n
      <3>1. byName'[m] = byName[m]  BY <2>2
      <3>2. PICK h \in Ports : byHandle[h] = byName[m]  BY <1>4, <3>1 DEF NamesLive
      <3>3. h < nextIpc /\ byName[m] < nextIpc  BY <1>4, <3>1, <3>2 DEF HandlesLead
      <3>4. byHandle'[h] = byName[m]  BY <3>2, <3>3
      <3>5. portName'[byName[m]] = portName[byName[m]]  BY <3>3, <1>1
      <3> QED  BY <1>4, <3>1, <3>4, <3>5 DEF NamesLive
    <2> QED  BY <2>1, <2>2
  <1>5. NamesLive'  BY <1>4 DEF NamesLive
  <1> QED  BY <1>1, <1>2, <1>3, <1>5, TableStep

LEMMA ConnectIpcPortKeeps ==
    ASSUME PortsInv, NEW n \in Names, ConnectIpcPort(n)
    PROVE  PortsInv'
  <1> USE DEF PortsInv, PortsTypeOK, ConnectIpcPort, Ports, NoPort
  <1>1. nextIpc \in Ports /\ nextIpc' \in 1 .. MaxPort + 1 /\ byName[n] \in Ports
    OBVIOUS
  <1>2. byName[n] < nextIpc  BY <1>1 DEF NamesLive, HandlesLead
  <1>3. byHandle' \in [Ports -> Ports \cup {NoPort}]  BY <1>1
  <1>4. \A h \in Ports : byHandle'[h] # NoPort => h < nextIpc' /\ byHandle'[h] < nextIpc'
    BY SMTT(40), <1>1, <1>2 DEF HandlesLead
  <1>5. \A h \in Ports : byHandle[h] # NoPort => byHandle'[h] = byHandle[h]
    BY <1>1
  <1>6. NamesLive'  BY <1>5 DEF NamesLive
  <1> QED  BY <1>1, <1>3, <1>4, <1>6, TableStep

LEMMA CloseIpcPortKeeps ==
    ASSUME PortsInv, NEW h \in Ports, CloseIpcPort(h)
    PROVE  PortsInv'
  <1> USE DEF PortsInv, PortsTypeOK, CloseIpcPort, NoPort
  <1>1. byHandle[h] \in Ports /\ portName[byHandle[h]] \in Names  OBVIOUS
  <1>2. /\ byName' \in [Names -> Ports \cup {NoPort}]
        /\ byHandle' \in [Ports -> Ports \cup {NoPort}]
    BY <1>1
  <1>3. \A i \in Ports : byHandle'[i] # NoPort => i < nextIpc' /\ byHandle'[i] < nextIpc'
    BY <1>1 DEF HandlesLead
  <1>4. ASSUME NEW m \in Names, byName'[m] # NoPort
        PROVE  portName'[byName'[m]] = m /\ \E i \in Ports : byHandle'[i] = byName'[m]
    <2>1. m # portName[byHandle[h]] /\ byName'[m] = byName[m]  BY <1>1, <1>4
    <2>2. PICK i \in Ports : byHandle[i] = byName[m]  BY <1>4, <2>1 DEF NamesLive
    <2>3. portName[byName[m]] = m  BY <1>4, <2>1 DEF NamesLive
    <2>4. i # h  BY <2>1, <2>2, <2>3
    <2> QED  BY <2>1, <2>2, <2>3, <2>4
  <1>5. NamesLive'  BY <1>4 DEF NamesLive
  <1> QED  BY <1>2, <1>3, <1>5, TableStep

\* The steps of a thread leave the tables, and with them NamesLive, alone.
LEMMA PeerStepKeeps ==
    ASSUME PortsInv, UNCHANGED portTables,
           PortsTypeOK', \A t \in Peers : PeerOK(t)',
           FifoDelivery', NoStrandedMessage'
    PROVE  PortsInv'
  <1>1. HandlesLead' /\ NamesLive'  BY DEF PortsInv, portTables, HandlesLead, NamesLive
  <1> QED  BY <1>1 DEF PortsInv

LEMMA AwakeFinite ==
    ASSUME NEW p
    PROVE  IsFiniteSet(Awake(p)) /\ Cardinality(Awake(p)) \in Nat
  <1>1. Awake(p) \subseteq Peers  BY DEF Awake
  <1>2. IsFiniteSet(Awake(p))  BY <1>1, FS_Subset
  <1> QED  BY <1>2, FS_CardinalityType

\* A thread that opens a call or changes its place, with the queues as they were.  When a
\* receiver is asleep at p afterwards, one was before, or the queue is empty; and nobody
\* who is awake at p goes away, except for another in his place.
LEMMA MoveKeeps ==
    ASSUME PortsInv, UNCHANGED <<portTables, portQueue, portHistory>>,
           PortsTypeOK', \A t \in Peers : PeerOK(t)',
           \A p \in Ports : Receivers(p)' # {} =>
              \/ portQueue[p] = <<>>
              \/ /\ Receivers(p) # {}
                 /\ Cardinality(Awake(p)) <= Cardinality(Awake(p)')
    PROVE  PortsInv'
  <1>1. FifoDelivery'  BY DEF PortsInv, FifoDelivery, portHistory
  <1>2. ASSUME NEW p \in Ports, Receivers(p)' # {}
        PROVE  Len(portQueue'[p]) <= Cardinality(Awake(p)')
    <2>1. Len(portQueue[p]) \in Nat  BY DEF PortsInv, PortsTypeOK
    <2>2. Cardinality(Awake(p)) \in Nat  BY AwakeFinite
    <2>3. Cardinality(Awake(p)') \in Nat
      <3>1. Awake(p)' \subseteq Peers  BY DEF Awake
      <3> QED  BY <3>1, FS_Subset, FS_CardinalityType
    <2>4. CASE portQueue[p] = <<>>  BY <2>3, <2>4
    <2>5. CASE Receivers(p) # {} /\ Cardinality(Awake(p)) <= Cardinality(Awake(p)')
      BY <2>1, <2>2, <2>3, <2>5 DEF PortsInv, NoStrandedMessage
    <2> QED  BY <1>2, <2>4, <2>5
  <1>3. NoStrandedMessage'  BY <1>2 DEF NoStrandedMessage
  <1> QED  BY <1>1, <1>3, PeerStepKeeps

\* A thread that was not awake wakes, for any reason.
LEMMA WakingKeeps ==
    ASSUME PortsInv, UNCHANGED <<portTables, portQueue, portHistory>>,
           PortsTypeOK', \A u \in Peers : PeerOK(u)', NEW t \in Peers,
           ipcPc[t] \in {"idle", "wait"}, ipcPc'[t] # "wait",
           \A u \in Peers \ {t} : ipcPc'[u] = ipcPc[u] /\ ipcAt'[u] = ipcAt[u]
    PROVE  PortsInv'
  <1>1. ASSUME NEW p \in Ports, Receivers(p)' # {}
        PROVE  Receivers(p) # {} /\ Cardinality(Awake(p)) <= Cardinality(Awake(p)')
    <2>1. Receivers(p)' \subseteq Receivers(p)  BY DEF Receivers
    <2>2. Awake(p) \subseteq Awake(p)'  BY DEF Awake
    <2>3. Awake(p)' \subseteq Peers  BY DEF Awake
    <2>4. IsFiniteSet(Awake(p)')  BY <2>3, FS_Subset
    <2> QED  BY <1>1, <2>1, <2>2, <2>4, FS_Subset
  <1> QED  BY <1>1, MoveKeeps

LEMMA OpenCallKeeps ==
    ASSUME PortsInv, NEW t \in Peers, NEW h \in Ports,
           IpcSend(t, h) \/ \E tm \in BOOLEAN : IpcRecv(t, h, tm)
    PROVE  PortsInv'
  <1>1. PortsTypeOK'
    BY ZenonT(40) DEF PortsInv, PortsTypeOK, IpcSend, IpcRecv, PortLookup, portTables, portHistory
  <1>2. \A u \in Peers : PeerOK(u)'
    BY DEF PortsInv, PortsTypeOK, PeerOK, IpcSend, IpcRecv, PortLookup, portHistory
  <1>3. \A u \in Peers \ {t} : ipcPc'[u] = ipcPc[u] /\ ipcAt'[u] = ipcAt[u]
    BY DEF PortsInv, PortsTypeOK, IpcSend, IpcRecv, PortLookup
  <1>4. ipcPc[t] = "idle" /\ ipcPc'[t] # "wait"
    BY DEF PortsInv, PortsTypeOK, IpcSend, IpcRecv, PortLookup
  <1>5. UNCHANGED <<portTables, portQueue, portHistory>>
    BY DEF IpcSend, IpcRecv, PortLookup
  <1> QED  BY <1>1, <1>2, <1>3, <1>4, <1>5, WakingKeeps

LEMMA WakeUpKeeps ==
    ASSUME PortsInv, NEW t \in Peers, RecvTimeout(t) \/ RecvSpurious(t)
    PROVE  PortsInv'
  <1>1. PortsTypeOK'
    BY DEF PortsInv, PortsTypeOK, RecvTimeout, RecvSpurious, portTables, portHistory
  <1>2. \A u \in Peers : PeerOK(u)'
    BY DEF PortsInv, PortsTypeOK, PeerOK, RecvTimeout, RecvSpurious, portHistory
  <1>3. \A u \in Peers \ {t} : ipcPc'[u] = ipcPc[u] /\ ipcAt'[u] = ipcAt[u]
    BY DEF PortsInv, PortsTypeOK, RecvTimeout, RecvSpurious
  <1>4. ipcPc[t] = "wait" /\ ipcPc'[t] # "wait"
    BY DEF PortsInv, PortsTypeOK, RecvTimeout, RecvSpurious
  <1>5. UNCHANGED <<portTables, portQueue, portHistory>>
    BY DEF RecvTimeout, RecvSpurious
  <1> QED  BY <1>1, <1>2, <1>3, <1>4, <1>5, WakingKeeps

\* The sender's own notify_one takes over for the message it adds.
LEMMA SendPushKeeps ==
    ASSUME PortsInv, NEW t \in Peers, SendPush(t)
    PROVE  PortsInv'
  <1> USE DEF PortsInv, PortsTypeOK, SendPush
  <1>1. PICK p \in Ports : p = ipcAt[t]  BY DEF PeerOK
  <1>2. PICK m \in Messages : m = <<t, ipcSent[t] + 1>>
    <2>1. ipcSent[t] \in 0 .. MaxSent /\ ipcSent[t] < MaxSent  BY DEF PeerOK
    <2>2. ipcSent[t] + 1 \in 1 .. MaxSent  BY <2>1
    <2> QED  BY <2>2 DEF Messages
  <1>3. /\ portQueue' = [portQueue EXCEPT ![p] = Append(portQueue[p], m)]
        /\ portLog' = [portLog EXCEPT ![p] = Append(portLog[p], m)]
    BY <1>1, <1>2
  <1>4. ipcSent' \in [Peers -> 0 .. MaxSent]  BY DEF PeerOK
  <1>5. PortsTypeOK'
    <2>0. /\ Append(portQueue[p], m) \in Seq(Messages)
          /\ Append(portLog[p], m) \in Seq(Messages)
      <3>1. portQueue[p] \in Seq(Messages) /\ portLog[p] \in Seq(Messages)  OBVIOUS
      <3> QED  BY <3>1, AppendAfter
    <2>1. portQueue' \in [Ports -> Seq(Messages)] /\ portLog' \in [Ports -> Seq(Messages)]
      BY ZenonT(40), <1>3, <2>0
    <2>2. ipcPc' \in [Peers -> {"idle", "push", "notify", "recv", "wait", "expired"}]
      OBVIOUS
    <2> QED  BY <1>4, <2>1, <2>2 DEF portTables
  <1>6. \A u \in Peers : PeerOK(u)'  BY DEF PeerOK
  <1>7. FifoDelivery'
    <2>1. portTaken[p] \o Append(portQueue[p], m) = Append(portTaken[p] \o portQueue[p], m)
      BY AppendAfter
    <2> QED  BY <1>3, <2>1 DEF FifoDelivery
  <1>8. ASSUME NEW r \in Ports, Receivers(r)' # {}
        PROVE  Len(portQueue'[r]) <= Cardinality(Awake(r)')
    <2>1. Receivers(r)' = Receivers(r)  BY DEF Receivers
    <2>2. Len(portQueue[r]) <= Cardinality(Awake(r))
      BY <1>8, <2>1 DEF NoStrandedMessage
    <2>3. CASE r # p
      <3>1. Awake(r)' = Awake(r)  BY <1>1, <2>3 DEF Awake
      <3> QED  BY <1>3, <2>2, <2>3, <3>1
    <2>4. CASE r = p
      <3>1. Awake(r)' = Awake(r) \cup {t} /\ t \notin Awake(r)  BY <1>1, <2>4 DEF Awake
      <3>2. Cardinality(Awake(r)') = Cardinality(Awake(r)) + 1
        BY <3>1, AwakeFinite, FS_AddElement
      <3>3. Len(portQueue'[r]) = Len(portQueue[r]) + 1 /\ Len(portQueue[r]) \in Nat
        BY <1>3, <2>4
      <3> QED  BY <2>2, <3>2, <3>3, AwakeFinite
    <2> QED  BY <2>3, <2>4
  <1>9. NoStrandedMessage'  BY <1>8 DEF NoStrandedMessage
  <1>10. UNCHANGED portTables  OBVIOUS
  <1> QED  BY <1>5, <1>6, <1>7, <1>9, <1>10, PeerStepKeeps

\* notify_one passes the duty to look on to the receiver it wakes.
LEMMA SendNotifyKeeps ==
    ASSUME PortsInv, NEW t \in Peers, SendNotify(t)
    PROVE  PortsInv'
  <1> USE DEF PortsInv, PortsTypeOK, SendNotify, PeerReturn
  <1>1. PICK q \in Ports : q = ipcAt[t]  BY DEF PeerOK
  <1>2. PortsTypeOK'  BY DEF portTables, portHistory, Receivers
  <1>3. \A u \in Peers : PeerOK(u)'  BY DEF PeerOK, Receivers, portHistory
  <1>4. ASSUME NEW p \in Ports, Receivers(p)' # {}
        PROVE  Receivers(p) # {} /\ Cardinality(Awake(p)) <= Cardinality(Awake(p)')
    <2>1. Receivers(p)' \subseteq Receivers(p)  BY DEF Receivers
    <2>2. CASE p # q
      <3>1. Awake(p)' = Awake(p)  BY <1>1, <2>2 DEF Awake, Receivers
      <3> QED  BY <1>4, <2>1, <3>1, AwakeFinite
    <2>3. CASE p = q
      <3>1. PICK u \in Receivers(q) : ipcPc' = [ipcPc EXCEPT ![t] = "idle", ![u] = "recv"]
        BY <1>1, <1>4, <2>1, <2>3
      <3>2. /\ Awake(p)' = (Awake(p) \ {t}) \cup {u}
            /\ t \in Awake(p) /\ u \notin Awake(p)
        BY <1>1, <2>3, <3>1 DEF Awake, Receivers
      <3>3. IsFiniteSet(Awake(p) \ {t}) /\ Cardinality(Awake(p) \ {t}) = Cardinality(Awake(p)) - 1
        BY <3>2, AwakeFinite, FS_RemoveElement
      <3>4. Cardinality(Awake(p)') = Cardinality(Awake(p))
        <4>1. u \notin Awake(p) \ {t}  BY <3>2
        <4>2. Cardinality((Awake(p) \ {t}) \cup {u}) = Cardinality(Awake(p) \ {t}) + 1
          BY <3>3, <4>1, FS_AddElement
        <4>3. Cardinality(Awake(p)) \in Nat  BY AwakeFinite
        <4> QED  BY <3>2, <3>3, <4>2, <4>3
      <3> QED  BY <1>4, <2>1, <3>4, AwakeFinite
    <2> QED  BY <2>2, <2>3
  <1>5. UNCHANGED <<portTables, portQueue, portHistory>>  OBVIOUS
  <1> QED  BY <1>2, <1>3, <1>4, <1>5, MoveKeeps

\* A receiver that is about to look takes a message with it when it goes.
LEMMA RecvTakeKeeps ==
    ASSUME PortsInv, NEW t \in Peers, ipcPc[t] \in {"recv", "expired"}, RecvTake(t)
    PROVE  PortsInv'
  <1> USE DEF PortsInv, PortsTypeOK, RecvTake, PeerReturn
  <1>1. PICK p \in Ports : p = ipcAt[t]  BY DEF PeerOK
  <1> DEFINE q == portQueue[p]
  <1>2. /\ Append(portTaken[p], Head(q)) \o Tail(q) = portTaken[p] \o q
        /\ Head(q) \in Messages
        /\ Tail(q) \in Seq(Messages)
        /\ Len(Tail(q)) = Len(q) - 1
    <2>1. portTaken[p] \in Seq(Messages) /\ q \in Seq(Messages) /\ q # <<>>  BY <1>1
    <2> HIDE DEF q
    <2> QED  BY <2>1, MoveHead
  <1>3. /\ portQueue' = [portQueue EXCEPT ![p] = Tail(q)]
        /\ portTaken' = [portTaken EXCEPT ![p] = Append(portTaken[p], Head(q))]
        /\ portLog' = portLog
    BY <1>1
  <1>4. PortsTypeOK'
    <2>1. Append(portTaken[p], Head(q)) \in Seq(Messages)
      <3> HIDE DEF q
      <3> QED  BY <1>2
    <2>2. portQueue' \in [Ports -> Seq(Messages)]  BY <1>2, <1>3
    <2>3. portTaken' \in [Ports -> Seq(Messages)]  BY <2>1, <1>3
    <2>4. /\ ipcPc' \in [Peers -> {"idle", "push", "notify", "recv", "wait", "expired"}]
          /\ ipcAt' \in [Peers -> Ports \cup {NoPort}]
          /\ ipcTimed' \in [Peers -> BOOLEAN]
      OBVIOUS
    <2> QED  BY <2>2, <2>3, <2>4, <1>3 DEF portTables
  <1>5. \A u \in Peers : PeerOK(u)'  BY DEF PeerOK
  <1>6. FifoDelivery'  BY <1>2, <1>3 DEF FifoDelivery
  <1>7. ASSUME NEW r \in Ports, Receivers(r)' # {}
        PROVE  Len(portQueue'[r]) <= Cardinality(Awake(r)')
    <2>1. Receivers(r)' = Receivers(r)  BY DEF Receivers
    <2>2. Len(portQueue[r]) <= Cardinality(Awake(r))
      BY <1>7, <2>1 DEF NoStrandedMessage
    <2>3. CASE r # p
      <3>1. Awake(r)' = Awake(r)  BY <1>1, <2>3 DEF Awake
      <3> QED  BY <1>3, <2>2, <2>3, <3>1
    <2>4. CASE r = p
      <3>1. Awake(r)' = Awake(r) \ {t} /\ t \in Awake(r)  BY <1>1, <2>4 DEF Awake
      <3>2. Cardinality(Awake(r)') = Cardinality(Awake(r)) - 1
        BY <3>1, AwakeFinite, FS_RemoveElement
      <3>3. Len(portQueue'[r]) = Len(portQueue[r]) - 1 /\ Len(portQueue[r]) \in Nat
        <4>1. portQueue'[p] = Tail(portQueue[p])  BY <1>3
        <4>2. Len(portQueue[p]) \in Nat  OBVIOUS
        <4> QED  BY <1>2, <2>4, <4>1, <4>2
      <3> QED  BY <2>2, <3>2, <3>3, AwakeFinite
    <2> QED  BY <2>3, <2>4
  <1>8. NoStrandedMessage'  BY <1>7 DEF NoStrandedMessage
  <1>9. UNCHANGED portTables  OBVIOUS
  <1> QED  BY <1>4, <1>5, <1>6, <1>8, <1>9, PeerStepKeeps

\* A receiver that finds the queue empty sleeps, or gives up.
LEMMA RecvEmptyKeeps ==
    ASSUME PortsInv, NEW t \in Peers,
           ipcPc[t] \in {"recv", "expired"}, portQueue[ipcAt[t]] = <<>>,
           \/ /\ ipcPc' = [ipcPc EXCEPT ![t] = "wait"]
              /\ UNCHANGED <<ipcAt, ipcTimed>>
           \/ ipcPc' = [ipcPc EXCEPT ![t] = "idle"] /\ PeerReturn(t),
           UNCHANGED <<portTables, portQueue, portHistory>>
    PROVE  PortsInv'
  <1> USE DEF PortsInv, PortsTypeOK, PeerReturn
  <1>1. PICK q \in Ports : q = ipcAt[t]  BY DEF PeerOK
  <1>2. PortsTypeOK'  BY DEF portTables, portHistory, NoPort
  <1>3. \A u \in Peers : PeerOK(u)'  BY DEF PeerOK, portHistory
  <1>4. ASSUME NEW p \in Ports \ {q}, Receivers(p)' # {}
        PROVE  Receivers(p) # {} /\ Cardinality(Awake(p)) <= Cardinality(Awake(p)')
    <2>1. Receivers(p)' = Receivers(p)  BY <1>1 DEF Receivers, NoPort, Ports
    <2>2. Awake(p)' = Awake(p)  BY <1>1 DEF Awake, NoPort, Ports
    <2> QED  BY <1>4, <2>1, <2>2, AwakeFinite
  <1>5. portQueue[q] = <<>>  BY <1>1
  <1> QED  BY <1>2, <1>3, <1>4, <1>5, MoveKeeps

LEMMA PortsNextKeeps == PortsInv /\ PortsNext => PortsInv'
  <1> SUFFICES ASSUME PortsInv, PortsNext  PROVE PortsInv'  OBVIOUS
  <1>1. ASSUME NEW t \in Peers, RecvCheck(t)  PROVE PortsInv'
    BY <1>1, RecvTakeKeeps, RecvEmptyKeeps DEF RecvCheck
  <1>2. ASSUME NEW t \in Peers, RecvExpired(t)  PROVE PortsInv'
    BY <1>2, RecvTakeKeeps, RecvEmptyKeeps DEF RecvExpired
  <1>3. ASSUME NEW t \in Peers, PeerStep(t)  PROVE PortsInv'
    BY <1>1, <1>2, <1>3, SendPushKeeps, SendNotifyKeeps DEF PeerStep
  <1>4. ASSUME NEW h \in Ports, NEW t \in Peers,
               IpcSend(t, h) \/ \E tm \in BOOLEAN : IpcRecv(t, h, tm)
        PROVE  PortsInv'
    BY <1>4, OpenCallKeeps
  <1> QED
    BY <1>3, <1>4, CreateIpcPortKeeps, ConnectIpcPortKeeps, CloseIpcPortKeeps, WakeUpKeeps
    DEF PortsNext

LEMMA PortsStutterKeeps == PortsInv /\ UNCHANGED ipcVars => PortsInv'
  <1> SUFFICES ASSUME PortsInv, UNCHANGED ipcVars  PROVE PortsInv'  OBVIOUS
  <1> USE DEF PortsInv, ipcVars
  <1>1. PortsTypeOK'  BY DEF PortsTypeOK
  <1>2. (\A t \in Peers : PeerOK(t)') /\ HandlesLead'  BY DEF PeerOK, HandlesLead
  <1>3. FifoDelivery' /\ NamesLive'  BY DEF FifoDelivery, NamesLive
  <1>4. NoStrandedMessage'  BY DEF NoStrandedMessage, Receivers, Awake
  <1> QED  BY <1>1, <1>2, <1>3, <1>4

-----------------------------------------------------------------------------
(* The four facilities side by side.                                       *)

ObjectsInv ==
    /\ focus \in Facilities
    /\ ThreadsInv
    /\ TimersInv
    /\ QueuesInv
    /\ PortsInv

LEMMA ObjectsInvariant == Spec => []ObjectsInv
  <1>1. Init => ObjectsInv
    BY ThreadsInitInv, TimersInitInv, QueuesInitInv, PortsInitInv DEF Init, ObjectsInv
  <1>2. ObjectsInv /\ [Next]_objectVars => ObjectsInv'
    <2> SUFFICES ASSUME ObjectsInv, [Next]_objectVars  PROVE ObjectsInv'  OBVIOUS
    <2> USE ThreadsStutterKeeps, TimersStutterKeeps, QueuesStutterKeeps, PortsStutterKeeps
        DEF ObjectsInv
    <2>1. CASE StepThreads  BY <2>1, ThreadsNextKeeps DEF StepThreads
    <2>2. CASE StepTimers  BY <2>2, TimersNextKeeps DEF StepTimers
    <2>3. CASE StepQueues  BY <2>3, QueuesNextKeeps DEF StepQueues
    <2>4. CASE StepPorts  BY <2>4, PortsNextKeeps DEF StepPorts
    <2>5. CASE UNCHANGED objectVars  BY <2>5 DEF objectVars
    <2> QED  BY <2>1, <2>2, <2>3, <2>4, <2>5 DEF Next
  <1> QED  BY <1>1, <1>2, PTL DEF Spec

\* Type correctness of guest threads, timers, wait queues and ports; for the waiter counts
\* that they never go below zero (WaitOnQueue), for the timers that the bound holds.
THEOREM ObjectsTypeCorrect == Spec => []ObjectsTypeOK
  <1>1. ObjectsInv => ObjectsTypeOK
    BY DEF ObjectsInv, ThreadsInv, TimersInv, QueuesInv, PortsInv, ObjectsTypeOK
  <1> QED  BY <1>1, ObjectsInvariant, PTL

\* A join that reports success reports it of a guest that has ended, and without a timeout
\* with the exit code of its entry function, whatever stops, timeouts and closed handles
\* came before (JoinThread, StopThread).
THEOREM JoinsReportTheTruth == Spec => []JoinsSound
  <1>1. ObjectsInv => JoinsSound
    BY DEF ObjectsInv, ThreadsInv, GuestOK, JoinsSound, JoinSound, UntimedJoinExitCode
  <1> QED  BY <1>1, ObjectsInvariant, PTL

\* Callers who drop a guest's handle only after StopThread or an untimed join, and stop a
\* timer before they restart or close it, never make the runtime destroy or assign a
\* std::thread that is still attached (CloseHandle, StartTimer, CloseTimer, Reset).
THEOREM NobodyAborts ==
    ASSUME NoTimedEvidence, Disciplined
    PROVE  Spec => []NeverAborts
  <1>1. ObjectsInv => NeverAborts
    BY DEF ObjectsInv, ThreadsInv, TimersInv, NeverAborts
  <1> QED  BY <1>1, ObjectsInvariant, PTL

\* Once StopTimer has returned no callback runs, and a timer that calls itself running has
\* a thread, without any discipline of the callers (StartTimer, StopTimer, Reset).
THEOREM TimersSettleDown == Spec => []TimersSettle
  <1>1. ObjectsInv => TimersSettle
    BY DEF ObjectsInv, TimersInv, TimerOK, TimersSettle, StopQuiesces, RunningIsServed
  <1> QED  BY <1>1, ObjectsInvariant, PTL

\* The waiter counts are exact; a port delivers every message once, in order, and never
\* leaves one queued while all its receivers sleep and nobody is about to wake one; a name
\* finds a live port (WaitOnQueue, IpcSend, IpcRecv, the ipcByName table).
THEOREM QueuesServeAll == Spec => []QueuesServe
  <1>1. ObjectsInv => QueuesServe
    BY DEF ObjectsInv, QueuesInv, PortsInv, QueuesServe
  <1> QED  BY <1>1, ObjectsInvariant, PTL

=============================================================================
