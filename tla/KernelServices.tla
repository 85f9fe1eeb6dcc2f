---------------------------- MODULE KernelServices ----------------------------
(***************************************************************************)
(* KernelServices.cpp: shared memory, message queues, read-write locks and *)
(* condition variables.  Every call holds SvcState::mtx while it looks a   *)
(* handle up; the calls that block drop it and keep a raw pointer, so they *)
(* take two steps here.  One queue, one lock and one condition variable;   *)
(* several shared memories.  What a call does with the pointer of a        *)
(* deleted entry is undefined: the thread has no step then.                *)
(***************************************************************************)
EXTENDS Naturals, FiniteSets, Sequences, SequencesExt

CONSTANTS KsThreads, KsNobody,
          KsNames,       \* names of shared memories
          KsMaxShm,      \* bound: shared memories created
          KsMessages, KsPriority,   \* messages, each sent once, and their priorities
          KsCapacity     \* MqAttr::maxMessages

ASSUME KernelServicesAssumption ==
    /\ IsFiniteSet(KsThreads) /\ KsNobody \notin KsThreads
    /\ KsNames # {}
    /\ KsMaxShm \in Nat /\ KsCapacity \in Nat
    /\ KsPriority \in [KsMessages -> Nat]

VARIABLES ksShm,     \* shms: name and refCount, which is 0 when the handle is not there
          ksNextShm, ksMem,      \* nextShm; the handles whose memory is mapped
          ksHas,     \* the handles each thread has opened and not closed, with their number
          ksMq,      \* the MqEntry: whether it exists, its messages
          ksTaken,   \* messages received
          ksRw, ksCv,            \* the RwEntry and the CvEntry
          ksMutex,   \* the KernelRuntime mutex a waiter passes: its owner
          ksAt       \* where each thread is

ksShmVars  == <<ksShm, ksNextShm, ksMem, ksHas>>
ksMqVars   == <<ksMq, ksTaken>>
ksLockVars == <<ksRw, ksCv, ksMutex>>
ksVars     == <<ksShmVars, ksMqVars, ksLockVars, ksAt>>

KsHandles == 1 .. KsMaxShm
KsIdle    == [op |-> "idle", msg |-> KsNobody]

KsTypeOK ==
    /\ ksShm \in [KsHandles -> [name : KsNames, refs : Nat]]
    /\ ksNextShm \in 1 .. KsMaxShm + 1
    /\ ksMem \subseteq KsHandles
    /\ ksHas \in [KsThreads -> [KsHandles -> Nat]]
    /\ ksMq.open \in BOOLEAN /\ ksMq.msgs \in Seq(KsMessages)
    /\ ksTaken \subseteq KsMessages
    /\ ksRw \in [open : BOOLEAN, writer : KsThreads \cup {KsNobody}, readers : SUBSET KsThreads]
    /\ ksCv \in BOOLEAN
    /\ ksMutex \in KsThreads \cup {KsNobody}
    /\ ksAt \in [KsThreads -> [op : {"idle", "send", "recv", "sendAsleep", "recvAsleep", "rdLock",
                                     "wrLock", "condAsleep", "condAwake"},
                               msg : KsMessages \cup {KsNobody}]]

KsInit ==
    /\ ksShm = [h \in KsHandles |-> [name |-> CHOOSE n \in KsNames : TRUE, refs |-> 0]]
    /\ ksNextShm = 1
    /\ ksMem = {}
    /\ ksHas = [t \in KsThreads |-> [h \in KsHandles |-> 0]]
    /\ ksMq = [open |-> TRUE, msgs |-> <<>>]
    /\ ksTaken = {}
    /\ ksRw = [open |-> TRUE, writer |-> KsNobody, readers |-> {}]
    /\ ksCv = TRUE
    /\ ksMutex = KsNobody
    /\ ksAt = [t \in KsThreads |-> KsIdle]

KsFree(t) == ksAt[t] = KsIdle
KsTo(t, op) == ksAt' = [ksAt EXCEPT ![t].op = op]
KsBack(t) == ksAt' = [ksAt EXCEPT ![t] = KsIdle]
-----------------------------------------------------------------------------
CreateShm(t, n) ==
    /\ ksNextShm <= KsMaxShm
    /\ ksNextShm' = ksNextShm + 1
    /\ ksShm' = [ksShm EXCEPT ![ksNextShm] = [name |-> n, refs |-> 1]]
    /\ ksMem' = ksMem \cup {ksNextShm}
    /\ ksHas' = [ksHas EXCEPT ![t][ksNextShm] = 1]

\* Mutant: a second opener is not counted.
OpenShmUncounted(t, h) ==
    /\ ksShm[h].refs > 0
    /\ ksHas[t][h] = 0
    /\ ksHas' = [ksHas EXCEPT ![t][h] = @ + 1]
    /\ UNCHANGED <<ksShm, ksNextShm, ksMem>>

\* Any of the memories that carry the name may be found.
OpenShm(t, h) ==
    /\ ksShm[h].refs > 0
    /\ ksHas[t][h] = 0
    /\ ksShm' = [ksShm EXCEPT ![h].refs = @ + 1]
    /\ ksHas' = [ksHas EXCEPT ![t][h] = @ + 1]
    /\ UNCHANGED <<ksNextShm, ksMem>>

\* CloseShm, and UnmapShm, which is the same call; a thread closes what it opened.
CloseShm(t, h) ==
    /\ ksHas[t][h] > 0
    /\ ksShm' = [ksShm EXCEPT ![h].refs = @ - 1]
    /\ ksMem' = IF ksShm[h].refs = 1 THEN ksMem \ {h} ELSE ksMem
    /\ ksHas' = [ksHas EXCEPT ![t][h] = @ - 1]
    /\ UNCHANGED ksNextShm

\* Shutdown, called when no other thread is in the services.
ShutdownShm ==
    /\ \E h \in KsHandles : ksShm[h].refs > 0
    /\ ksMem' = ksMem \ {h \in KsHandles : ksShm[h].refs > 0}
    /\ ksShm' = [h \in KsHandles |-> [ksShm[h] EXCEPT !.refs = 0]]
    /\ ksHas' = [t \in KsThreads |-> [h \in KsHandles |-> 0]]
    /\ UNCHANGED ksNextShm

KsShmNext ==
    /\ \/ ShutdownShm
       \/ \E t \in KsThreads :
            \/ \E n \in KsNames : CreateShm(t, n)
            \/ \E h \in KsHandles : OpenShm(t, h) \/ CloseShm(t, h)
    /\ UNCHANGED <<ksMqVars, ksLockVars, ksAt>>
-----------------------------------------------------------------------------
\* The sender or receiver has its pointer to the queue.
SendMsg(t, m) ==
    /\ KsFree(t) /\ ksMq.open
    /\ m \notin ToSet(ksMq.msgs) \cup ksTaken \cup {ksAt[u].msg : u \in KsThreads}
    /\ ksAt' = [ksAt EXCEPT ![t] = [op |-> "send", msg |-> m]]
    /\ UNCHANGED ksMqVars

RecvMsg(t) ==
    /\ KsFree(t) /\ ksMq.open
    /\ KsTo(t, "recv")
    /\ UNCHANGED ksMqVars

\* notify_one on the condition variable the threads of class op sleep on; t returns.
ReturnAndWake(t, asleep, awake) ==
    \/ /\ \A u \in KsThreads : ksAt[u].op # asleep
       /\ KsBack(t)
    \/ \E u \in KsThreads : /\ ksAt[u].op = asleep
                            /\ ksAt' = [ksAt EXCEPT ![t] = KsIdle, ![u].op = awake]

\* Mutant: a message goes behind the ones it outranks.
InsertionPointSwapped(m) ==
    Cardinality({i \in DOMAIN ksMq.msgs : KsPriority[ksMq.msgs[i]] < KsPriority[m]}) + 1

\* lower_bound: before the first message of the same or a lower priority.
InsertionPoint(m) ==
    Cardinality({i \in DOMAIN ksMq.msgs : KsPriority[ksMq.msgs[i]] > KsPriority[m]}) + 1

SendNow(t) ==
    /\ ksAt[t].op = "send" /\ ksMq.open
    /\ Len(ksMq.msgs) < KsCapacity
    /\ ksMq' = [ksMq EXCEPT !.msgs = InsertAt(@, InsertionPoint(ksAt[t].msg), ksAt[t].msg)]
    /\ ReturnAndWake(t, "recvAsleep", "recv")
    /\ UNCHANGED ksTaken

RecvNow(t) ==
    /\ ksAt[t].op = "recv" /\ ksMq.open
    /\ ksMq.msgs # <<>>
    /\ ksMq' = [ksMq EXCEPT !.msgs = Tail(@)]
    /\ ksTaken' = ksTaken \cup {Head(ksMq.msgs)}
    /\ ReturnAndWake(t, "sendAsleep", "send")

MqSleep(t) ==
    /\ ksMq.open
    /\ \/ ksAt[t].op = "send" /\ Len(ksMq.msgs) >= KsCapacity /\ KsTo(t, "sendAsleep")
       \/ ksAt[t].op = "recv" /\ ksMq.msgs = <<>> /\ KsTo(t, "recvAsleep")
    /\ UNCHANGED ksMqVars

\* wait_for's deadline: the predicate decides once more.
MqTimeout(t) ==
    /\ ksMq.open
    /\ \/ ksAt[t].op = "sendAsleep" /\ IF Len(ksMq.msgs) >= KsCapacity THEN KsBack(t) ELSE KsTo(t, "send")
       \/ ksAt[t].op = "recvAsleep" /\ IF ksMq.msgs = <<>> THEN KsBack(t) ELSE KsTo(t, "recv")
    /\ UNCHANGED ksMqVars

\* The queue is deleted under the sleepers it has just woken.
CloseMq ==
    /\ ksMq.open
    /\ ksMq' = [open |-> FALSE, msgs |-> <<>>]
    /\ ksAt' = [t \in KsThreads |-> CASE ksAt[t].op = "sendAsleep" -> [ksAt[t] EXCEPT !.op = "send"]
                                      [] ksAt[t].op = "recvAsleep" -> [ksAt[t] EXCEPT !.op = "recv"]
                                      [] OTHER -> ksAt[t]]
    /\ UNCHANGED ksTaken

KsMqNext ==
    /\ \/ CloseMq
       \/ \E t \in KsThreads : \/ \E m \in KsMessages : SendMsg(t, m)
                               \/ RecvMsg(t) \/ SendNow(t) \/ RecvNow(t) \/ MqSleep(t) \/ MqTimeout(t)
    /\ UNCHANGED <<ksShmVars, ksLockVars>>
-----------------------------------------------------------------------------
\* RdLock and WrLock look the lock up, then block on it; the Try forms do both at once.
RwLookup(t) ==
    /\ KsFree(t) /\ ksRw.open
    /\ t # ksRw.writer /\ t \notin ksRw.readers
    /\ KsTo(t, "rdLock") \/ KsTo(t, "wrLock")
    /\ UNCHANGED ksLockVars

RdLock(t) ==
    /\ ksAt[t].op \in {"rdLock", "idle"} /\ ksRw.open
    /\ ksRw.writer = KsNobody /\ t \notin ksRw.readers
    /\ ksRw' = [ksRw EXCEPT !.readers = @ \cup {t}]
    /\ KsBack(t)
    /\ UNCHANGED <<ksCv, ksMutex>>

WrLock(t) ==
    /\ ksAt[t].op \in {"wrLock", "idle"} /\ ksRw.open
    /\ ksRw.writer = KsNobody /\ ksRw.readers = {}
    /\ ksRw' = [ksRw EXCEPT !.writer = t]
    /\ KsBack(t)
    /\ UNCHANGED <<ksCv, ksMutex>>

RwUnlock(t) ==
    /\ KsFree(t) /\ ksRw.open
    /\ t = ksRw.writer \/ t \in ksRw.readers
    /\ ksRw' = [ksRw EXCEPT !.writer = IF @ = t THEN KsNobody ELSE @, !.readers = @ \ {t}]
    /\ UNCHANGED <<ksCv, ksMutex, ksAt>>

\* Nothing looks at who holds the lock.
DestroyRwLock ==
    /\ ksRw.open
    /\ ksRw' = [open |-> FALSE, writer |-> KsNobody, readers |-> {}]
    /\ UNCHANGED <<ksCv, ksMutex, ksAt>>

\* The guest's mutex, from KernelRuntime.
GuestLock(t) ==
    /\ KsFree(t) /\ ksMutex = KsNobody
    /\ ksMutex' = t
    /\ UNCHANGED <<ksRw, ksCv, ksAt>>

GuestUnlock(t) ==
    /\ KsFree(t) /\ ksMutex = t
    /\ ksMutex' = KsNobody
    /\ UNCHANGED <<ksRw, ksCv, ksAt>>

\* The mutex parameter is not used: the caller keeps its mutex while it sleeps.
WaitCondVar(t) ==
    /\ KsFree(t) /\ ksMutex = t /\ ksCv
    /\ KsTo(t, "condAsleep")
    /\ UNCHANGED ksLockVars

CondReturns(t) ==
    /\ ksAt[t].op = "condAwake" /\ ksCv
    /\ KsBack(t)
    /\ UNCHANGED ksLockVars

CondTimeout(t) ==
    /\ ksAt[t].op = "condAsleep" /\ ksCv
    /\ KsBack(t)
    /\ UNCHANGED ksLockVars

CondWake(woken) == ksAt' = [t \in KsThreads |-> IF t \in woken THEN [ksAt[t] EXCEPT !.op = "condAwake"] ELSE ksAt[t]]

CondSleepers == {t \in KsThreads : ksAt[t].op = "condAsleep"}

SignalCondVar ==
    /\ ksCv
    /\ \E t \in CondSleepers : CondWake({t})
    /\ UNCHANGED ksLockVars

\* BroadcastCondVar wakes all the sleepers; DestroyCondVar also deletes what they sleep on.
BroadcastCondVar ==
    /\ ksCv
    /\ CondWake(CondSleepers)
    /\ ksCv' \in BOOLEAN
    /\ UNCHANGED <<ksRw, ksMutex>>

KsLockNext ==
    /\ \/ DestroyRwLock \/ SignalCondVar \/ BroadcastCondVar
       \/ \E t \in KsThreads : \/ RwLookup(t) \/ RdLock(t) \/ WrLock(t) \/ RwUnlock(t)
                               \/ GuestLock(t) \/ GuestUnlock(t)
                               \/ WaitCondVar(t) \/ CondReturns(t) \/ CondTimeout(t)
    /\ UNCHANGED <<ksShmVars, ksMqVars>>

KsNext == KsShmNext \/ KsMqNext \/ KsLockNext

KsSpec == KsInit /\ [][KsNext]_ksVars
-----------------------------------------------------------------------------
(***************************************************************************)
(* Memory a thread has opened (OpenShm, CreateShm) and not closed is       *)
(* mapped, in whatever order the threads that share it close it.           *)
(***************************************************************************)
ShmAlive == \A t \in KsThreads, h \in KsHandles : ksHas[t][h] > 0 => h \in ksMem

(***************************************************************************)
(* The queue of SendMsg and RecvMsg implements the priority mailbox: it    *)
(* never exceeds maxMessages and hands out no message while one of higher  *)
(* priority waits, with any number of senders, receivers and timeouts.     *)
(***************************************************************************)
Mailbox == INSTANCE PriorityMailbox
             WITH Messages <- KsMessages, Capacity <- KsCapacity, Priority <- KsPriority,
                  box <- ToSet(ksMq.msgs), taken <- ksTaken

MqIsMailbox == Mailbox!Spec

(***************************************************************************)
(* notify_one strands no message: while one is in the queue and a receiver *)
(* sleeps, another receiver is awake to take it, or a sender to wake the   *)
(* sleeper; and likewise for a free place and a sleeping sender.           *)
(***************************************************************************)
MqNobodyForgotten ==
    ksMq.open =>
      /\ Cardinality({t \in KsThreads : ksAt[t].op = "recvAsleep"}) > 0 /\ ksMq.msgs # <<>>
           => \E t \in KsThreads : ksAt[t].op = "recv"
      /\ Cardinality({t \in KsThreads : ksAt[t].op = "sendAsleep"}) > 0 /\ Len(ksMq.msgs) < KsCapacity
           => \E t \in KsThreads : ksAt[t].op = "send"

\* Shared memory is mapped while it is open, and a message waits for no sleeper
\* that nobody will wake (CreateShm, OpenShm, CloseShm; notify_one in SendMsg and RecvMsg).
SharedObjectsServe == ShmAlive /\ MqNobodyForgotten

(***************************************************************************)
(* KernelServices.h pairs a condition variable with a KernelRuntime mutex: *)
(* a thread asleep in WaitCondVar would not hold the mutex it passed.      *)
(***************************************************************************)
CondWaitReleasesMutex == \A t \in CondSleepers : ksMutex # t
=============================================================================
