----------------------------- MODULE KernelSync -----------------------------
(***************************************************************************)
(* The handle table and the blocking objects of KernelRuntime: semaphores, *)
(* events and mutexes (KernelRuntime.cpp).  A call is split where the code *)
(* releases a lock: the look-up under KernelState::mtx, the critical       *)
(* section under the object's own mutex, and the notify_all that follows   *)
(* it.  A critical section that cannot block is one step.                  *)
(*                                                                         *)
(* A call whose look-up fails returns false and changes nothing, so it has *)
(* no step of its own.                                                     *)
(***************************************************************************)
EXTENDS Integers, FiniteSets

CONSTANTS Threads,     \* host threads that call the kernel
          Objects,     \* storage for KSemaphore / KEvent / KMutex objects
          NoObj,       \* the null shared_ptr
          Creatable,   \* the object kinds this instance creates
          MaxHandle,   \* bound: handle numbers 1..MaxHandle
          IntMax,      \* INT32_MAX
          SemMaxes,    \* SemaphoreAttr::maxValue choices
          Counts,      \* SignalSemaphore counts
          MaxCredit,   \* bound: outstanding permits of one object
          MaxDepth     \* bound: recursion depth of a recursive mutex

Kinds   == {"Semaphore", "Event", "Mutex"}
Handles == 1 .. MaxHandle

ASSUME SyncAssumption ==
    /\ NoObj \notin Objects
    /\ Creatable \subseteq Kinds
    /\ MaxHandle \in Nat
    /\ IntMax \in Nat
    /\ SemMaxes \subseteq 0 .. IntMax
    /\ Counts \subseteq 1 .. IntMax
    /\ MaxCredit \in Nat
    /\ MaxDepth \in Nat

VARIABLES
    table,       \* handles: handle number -> object, NoObj when absent
    nextHandle,  \* nextHandle
    kind,        \* HandleEntry::type of the entry an object is stored under
    semValue, semMax,    \* KSemaphore::value, attr.maxValue
    evtSet, evtAuto,     \* KEvent::set, attr.autoReset
    hold, mtxRec,        \* how often each thread owns the KMutex, attr.recursive
    pc,          \* where each thread is inside a kernel call
    ref,         \* the shared_ptr local to that call
    want,        \* the expectedType of that call
    timed,       \* timeoutUs # UINT64_MAX
    arg,         \* the count to signal, or the handle number being inserted
    credit       \* history: permits issued to an object minus waits granted

vars == <<table, nextHandle, kind, semValue, semMax, evtSet, evtAuto,
          hold, mtxRec, pc, ref, want, timed, arg, credit>>

objVars  == <<kind, semMax, evtAuto, mtxRec>>     \* fixed when created
heldVars == <<hold>>
callVars == <<pc, ref, want, timed, arg>>

Labels == {"idle", "alloc", "enter", "wait", "expired", "post", "set",
           "clear", "notify", "lock", "try", "unlock"}

TypeOK ==
    /\ table \in [Handles -> Objects \cup {NoObj}]
    /\ nextHandle \in 1 .. MaxHandle + 1
    /\ kind \in [Objects -> Kinds]
    /\ semValue \in [Objects -> Int]
    /\ semMax \in [Objects -> Nat]
    /\ evtSet \in [Objects -> BOOLEAN]
    /\ evtAuto \in [Objects -> BOOLEAN]
    /\ hold \in [Objects -> [Threads -> Nat]]
    /\ mtxRec \in [Objects -> BOOLEAN]
    /\ pc \in [Threads -> Labels]
    /\ ref \in [Threads -> Objects \cup {NoObj}]
    /\ want \in [Threads -> Kinds]
    /\ timed \in [Threads -> BOOLEAN]
    /\ arg \in [Threads -> Nat]
    /\ credit \in [Objects -> Int]

Init ==
    /\ table = [h \in Handles |-> NoObj]
    /\ nextHandle = 1
    /\ kind = [o \in Objects |-> "Event"]
    /\ semValue = [o \in Objects |-> 0]
    /\ semMax = [o \in Objects |-> 0]
    /\ evtSet = [o \in Objects |-> FALSE]
    /\ evtAuto = [o \in Objects |-> FALSE]
    /\ hold = [o \in Objects |-> [t \in Threads |-> 0]]
    /\ mtxRec = [o \in Objects |-> FALSE]
    /\ pc = [t \in Threads |-> "idle"]
    /\ ref = [t \in Threads |-> NoObj]
    /\ want = [t \in Threads |-> "Event"]
    /\ timed = [t \in Threads |-> FALSE]
    /\ arg = [t \in Threads |-> 0]
    /\ credit = [o \in Objects |-> 0]

-----------------------------------------------------------------------------
(* The handle table.                                                       *)

\* An object is alive while the table or a running call shares it.
Unreferenced(o) ==
    /\ \A h \in Handles : table[h] # o
    /\ \A t \in Threads : ref[t] # o

\* make_shared<...> followed by nextHandle.fetch_add: the new object is
\* private to the call until InsertHandle publishes it.
Alloc(t, o, k) ==
    /\ pc[t] = "idle"
    /\ k \in Creatable
    /\ Unreferenced(o)
    /\ nextHandle <= MaxHandle
    /\ nextHandle' = nextHandle + 1
    /\ kind' = [kind EXCEPT ![o] = k]
    /\ hold' = [hold EXCEPT ![o] = [u \in Threads |-> 0]]
    /\ pc' = [pc EXCEPT ![t] = "alloc"]
    /\ ref' = [ref EXCEPT ![t] = o]
    /\ arg' = [arg EXCEPT ![t] = nextHandle]
    /\ UNCHANGED <<table, want, timed>>

KSemaphore(o, max, initial) ==
    /\ semMax' = [semMax EXCEPT ![o] = max]
    /\ semValue' = [semValue EXCEPT ![o] = initial]

KEvent(o, autoReset, initialSet) ==
    /\ evtAuto' = [evtAuto EXCEPT ![o] = autoReset]
    /\ evtSet' = [evtSet EXCEPT ![o] = initialSet]

KMutex(o, recursive) == mtxRec' = [mtxRec EXCEPT ![o] = recursive]

CreateSemaphore(t, o, max, initial) ==
    /\ Alloc(t, o, "Semaphore")
    /\ KSemaphore(o, max, initial) /\ KEvent(o, FALSE, FALSE) /\ KMutex(o, FALSE)
    /\ credit' = [credit EXCEPT ![o] = initial]

CreateEvent(t, o, autoReset, initialSet) ==
    /\ Alloc(t, o, "Event")
    /\ KSemaphore(o, 0, 0) /\ KEvent(o, autoReset, initialSet) /\ KMutex(o, FALSE)
    /\ credit' = [credit EXCEPT ![o] = IF autoReset /\ initialSet THEN 1 ELSE 0]

CreateMutex(t, o, recursive) ==
    /\ Alloc(t, o, "Mutex")
    /\ KSemaphore(o, 0, 0) /\ KEvent(o, FALSE, FALSE) /\ KMutex(o, recursive)
    /\ credit' = [credit EXCEPT ![o] = 0]

\* The call returns and its locals go.
Return(t) ==
    /\ pc' = [pc EXCEPT ![t] = "idle"]
    /\ ref' = [ref EXCEPT ![t] = NoObj]
    /\ want' = [want EXCEPT ![t] = "Event"]
    /\ timed' = [timed EXCEPT ![t] = FALSE]
    /\ arg' = [arg EXCEPT ![t] = 0]

\* The locked half of KernelState::Alloc.
InsertHandle(t) ==
    /\ pc[t] = "alloc"
    /\ table' = [table EXCEPT ![arg[t]] = ref[t]]
    /\ Return(t)
    /\ UNCHANGED <<nextHandle, objVars, semValue, evtSet, heldVars, credit>>

\* Mutant: the new number is read but not taken.
DuplicateHandleNoBump(t, h) ==
    /\ pc[t] = "idle"
    /\ table[h] # NoObj
    /\ nextHandle <= MaxHandle
    /\ table' = [table EXCEPT ![nextHandle] = table[h]]
    /\ UNCHANGED <<nextHandle, objVars, semValue, evtSet, heldVars, callVars,
                   credit>>

DuplicateHandle(t, h) ==
    /\ pc[t] = "idle"
    /\ table[h] # NoObj
    /\ nextHandle <= MaxHandle
    /\ table' = [table EXCEPT ![nextHandle] = table[h]]
    /\ nextHandle' = nextHandle + 1
    /\ UNCHANGED <<objVars, semValue, evtSet, heldVars, callVars, credit>>

CloseHandle(t, h) ==
    /\ pc[t] = "idle"
    /\ table[h] # NoObj
    /\ table' = [table EXCEPT ![h] = NoObj]
    /\ UNCHANGED <<nextHandle, objVars, semValue, evtSet, heldVars, callVars,
                   credit>>

\* Reset: drops every handle but keeps nextHandle, so numbers are not reused.
\* It runs on the host's side, whatever the guest's threads are doing.
Reset ==
    /\ table' = [h \in Handles |-> NoObj]
    /\ UNCHANGED <<nextHandle, objVars, semValue, evtSet, heldVars, callVars,
                   credit>>

\* Mutant: numbering restarts at 0.
KernelInitFromZero ==
    /\ \A t \in Threads : pc[t] = "idle"
    /\ table' = [h \in Handles |-> NoObj]
    /\ nextHandle' = 0
    /\ UNCHANGED <<objVars, semValue, evtSet, heldVars, callVars, credit>>

\* KernelRuntime::Init, called at start-up when no thread is in a call: it
\* also rewinds nextHandle, so that handle numbers are used again.
KernelInit ==
    /\ \A t \in Threads : pc[t] = "idle"
    /\ table' = [h \in Handles |-> NoObj]
    /\ nextHandle' = 1
    /\ UNCHANGED <<objVars, semValue, evtSet, heldVars, callVars, credit>>

\* Mutant: the cast is made without the type check.
GetUntyped(h, k) == table[h] # NoObj

\* KernelState::Get<T>(h, expectedType): the entry must exist and have the
\* type the caller is about to cast to.
Get(h, k) == table[h] # NoObj /\ kind[table[h]] = k

\* The look-up that opens a call, after which KernelState::mtx is released.
Lookup(t, h, k, step) ==
    /\ pc[t] = "idle"
    /\ Get(h, k)
    /\ pc' = [pc EXCEPT ![t] = step]
    /\ ref' = [ref EXCEPT ![t] = table[h]]
    /\ want' = [want EXCEPT ![t] = k]
    /\ UNCHANGED <<table, nextHandle, objVars, semValue, evtSet, heldVars,
                   credit>>

-----------------------------------------------------------------------------
(* Condition-variable waits of WaitSemaphore and WaitEvent.                *)

WaitSemaphore(t, h, tm) ==
    /\ Lookup(t, h, "Semaphore", "enter")
    /\ timed' = [timed EXCEPT ![t] = tm]
    /\ UNCHANGED arg

WaitEvent(t, h, tm) ==
    /\ Lookup(t, h, "Event", "enter")
    /\ timed' = [timed EXCEPT ![t] = tm]
    /\ UNCHANGED arg

\* The predicates handed to cv.wait.
SemPred(o) == semValue[o] > 0
EvtPred(o) == evtSet[o]
Pred(t) == IF want[t] = "Semaphore" THEN SemPred(ref[t]) ELSE EvtPred(ref[t])

\* --value, or the reset of an autoReset event; the wait returns true.
SemTake(o) ==
    /\ semValue' = [semValue EXCEPT ![o] = @ - 1]
    /\ credit' = [credit EXCEPT ![o] = @ - 1]
    /\ UNCHANGED evtSet

EvtTake(o) ==
    /\ evtSet' = [evtSet EXCEPT ![o] = @ /\ ~evtAuto[o]]
    /\ credit' = [credit EXCEPT ![o] = IF evtAuto[o] THEN @ - 1 ELSE @]
    /\ UNCHANGED semValue

Take(t) == IF want[t] = "Semaphore" THEN SemTake(ref[t]) ELSE EvtTake(ref[t])

\* Under the object's mutex: take the permit, or start to wait, which
\* releases the mutex in the same step.
CvEnter(t) ==
    /\ pc[t] = "enter"
    /\ \/ /\ Pred(t)
          /\ Take(t)
          /\ Return(t)
       \/ /\ ~Pred(t)
          /\ pc' = [pc EXCEPT ![t] = "wait"]
          /\ UNCHANGED <<semValue, evtSet, credit, ref, want, timed, arg>>
    /\ UNCHANGED <<table, nextHandle, objVars, heldVars>>

\* A condition variable may wake for no reason; the predicate is re-checked.
CvSpurious(t) ==
    /\ pc[t] = "wait"
    /\ pc' = [pc EXCEPT ![t] = "enter"]
    /\ UNCHANGED <<table, nextHandle, objVars, semValue, evtSet, heldVars,
                   ref, want, timed, arg, credit>>

CvTimeout(t) ==
    /\ pc[t] = "wait"
    /\ timed[t]
    /\ pc' = [pc EXCEPT ![t] = "expired"]
    /\ UNCHANGED <<table, nextHandle, objVars, semValue, evtSet, heldVars,
                   ref, want, timed, arg, credit>>

\* Mutant: a wait that timed out takes a permit without looking again.
CvExpiredBlind(t) ==
    /\ pc[t] = "expired"
    /\ Take(t)
    /\ Return(t)
    /\ UNCHANGED <<table, nextHandle, objVars, heldVars>>

\* wait_for evaluates the predicate once more after its deadline.
CvExpired(t) ==
    /\ pc[t] = "expired"
    /\ \/ Pred(t) /\ Take(t)
       \/ ~Pred(t) /\ UNCHANGED <<semValue, evtSet, credit>>
    /\ Return(t)
    /\ UNCHANGED <<table, nextHandle, objVars, heldVars>>

-----------------------------------------------------------------------------
(* Signals.  The store happens under the object's mutex, the notification  *)
(* after it is released.                                                   *)

SignalSemaphore(t, h, n) ==
    /\ Lookup(t, h, "Semaphore", "post")
    /\ credit[table[h]] + n <= MaxCredit
    /\ arg' = [arg EXCEPT ![t] = n]
    /\ UNCHANGED timed

\* int32_t: what the build's addition makes of a sum beyond the largest value,
\* which the language leaves undefined, is below zero.
Int32(n) == IF n <= IntMax THEN n ELSE n - 2 * (IntMax + 1)

\* The sum is made before it is clamped.
SemPost(t) ==
    /\ pc[t] = "post"
    /\ LET o == ref[t]
           v == Int32(semValue[o] + arg[t])
       IN /\ semValue' = [semValue EXCEPT ![o] = IF v > semMax[o] THEN semMax[o]
                                                 ELSE v]
          /\ credit' = [credit EXCEPT ![o] = @ + arg[t]]
    /\ pc' = [pc EXCEPT ![t] = "notify"]
    /\ UNCHANGED <<table, nextHandle, objVars, evtSet, heldVars, ref, want,
                   timed, arg>>

SetEvent(t, h) ==
    /\ Lookup(t, h, "Event", "set")
    /\ credit[table[h]] < MaxCredit
    /\ UNCHANGED <<timed, arg>>

EvtPost(t) ==
    /\ pc[t] = "set"
    /\ evtSet' = [evtSet EXCEPT ![ref[t]] = TRUE]
    /\ credit' = [credit EXCEPT ![ref[t]] =
                     IF evtAuto[ref[t]] THEN @ + 1 ELSE @]
    /\ pc' = [pc EXCEPT ![t] = "notify"]
    /\ UNCHANGED <<table, nextHandle, objVars, semValue, heldVars, ref, want,
                   timed, arg>>

ClearEvent(t, h) == Lookup(t, h, "Event", "clear") /\ UNCHANGED <<timed, arg>>

EvtClear(t) ==
    /\ pc[t] = "clear"
    /\ evtSet' = [evtSet EXCEPT ![ref[t]] = FALSE]
    /\ Return(t)
    /\ UNCHANGED <<table, nextHandle, objVars, semValue, heldVars, credit>>

\* Mutant: notify_one, which leaves the other waiters asleep.
NotifyOne(t) ==
    /\ pc[t] = "notify"
    /\ LET W == {u \in Threads : pc[u] = "wait" /\ ref[u] = ref[t]}
       IN \E S \in SUBSET W :
            /\ Cardinality(S) = IF W = {} THEN 0 ELSE 1
            /\ pc' = [u \in Threads |-> IF u = t THEN "idle"
                                        ELSE IF u \in S THEN "enter" ELSE pc[u]]
    /\ ref' = [ref EXCEPT ![t] = NoObj]
    /\ want' = [want EXCEPT ![t] = "Event"]
    /\ timed' = [timed EXCEPT ![t] = FALSE]
    /\ arg' = [arg EXCEPT ![t] = 0]
    /\ UNCHANGED <<table, nextHandle, objVars, semValue, evtSet, heldVars,
                   credit>>

\* cv.notify_all: every thread that waits on the object re-checks.
NotifyAll(t) ==
    /\ pc[t] = "notify"
    /\ pc' = [u \in Threads |->
                 IF u = t THEN "idle"
                 ELSE IF pc[u] = "wait" /\ ref[u] = ref[t] THEN "enter"
                 ELSE pc[u]]
    /\ ref' = [ref EXCEPT ![t] = NoObj]
    /\ want' = [want EXCEPT ![t] = "Event"]
    /\ timed' = [timed EXCEPT ![t] = FALSE]
    /\ arg' = [arg EXCEPT ![t] = 0]
    /\ UNCHANGED <<table, nextHandle, objVars, semValue, evtSet, heldVars,
                   credit>>

-----------------------------------------------------------------------------
(* Mutexes: std::mutex, or std::recursive_mutex when attr.recursive.  A    *)
(* thread that locks a non-recursive mutex it already owns never returns.  *)

LockMutex(t, h) == Lookup(t, h, "Mutex", "lock") /\ UNCHANGED <<timed, arg>>

TryLockMutex(t, h) == Lookup(t, h, "Mutex", "try") /\ UNCHANGED <<timed, arg>>

\* A thread unlocks only what it owns: anything else is undefined.
UnlockMutex(t, h) ==
    /\ Lookup(t, h, "Mutex", "unlock")
    /\ hold[table[h]][t] > 0
    /\ UNCHANGED <<timed, arg>>

\* Mutant: the recursive mutex is used whatever attr.recursive says.
LockableRecursive(t, o) ==
    /\ \A u \in Threads \ {t} : hold[o][u] = 0
    /\ hold[o][t] < MaxDepth

\* Whether KMutex::lock(recursive) would succeed now.
Lockable(t, o) ==
    /\ \A u \in Threads \ {t} : hold[o][u] = 0
    /\ hold[o][t] = 0 \/ (mtxRec[o] /\ hold[o][t] < MaxDepth)

MtxAcquire(t) ==
    /\ pc[t] \in {"lock", "try"}
    /\ Lockable(t, ref[t])
    /\ hold' = [hold EXCEPT ![ref[t]][t] = @ + 1]
    /\ Return(t)
    /\ UNCHANGED <<table, nextHandle, objVars, semValue, evtSet, credit>>

MtxTryFails(t) ==
    /\ pc[t] = "try"
    /\ ~Lockable(t, ref[t])
    /\ Return(t)
    /\ UNCHANGED <<table, nextHandle, objVars, semValue, evtSet, heldVars,
                   credit>>

MtxRelease(t) ==
    /\ pc[t] = "unlock"
    /\ hold' = [hold EXCEPT ![ref[t]][t] = @ - 1]
    /\ Return(t)
    /\ UNCHANGED <<table, nextHandle, objVars, semValue, evtSet, credit>>

-----------------------------------------------------------------------------
\* A new call of thread t.
Call(t) ==
    \/ \E o \in Objects :
          \/ \E max \in SemMaxes : \E initial \in 0 .. max :
                CreateSemaphore(t, o, max, initial)
          \/ \E a, s \in BOOLEAN : CreateEvent(t, o, a, s)
          \/ \E r \in BOOLEAN : CreateMutex(t, o, r)
    \/ \E h \in Handles :
          \/ DuplicateHandle(t, h)
          \/ CloseHandle(t, h)
          \/ \E tm \in BOOLEAN : WaitSemaphore(t, h, tm)
          \/ \E tm \in BOOLEAN : WaitEvent(t, h, tm)
          \/ \E n \in Counts : SignalSemaphore(t, h, n)
          \/ SetEvent(t, h)
          \/ ClearEvent(t, h)
          \/ LockMutex(t, h)
          \/ TryLockMutex(t, h)
          \/ UnlockMutex(t, h)

\* The next step of a call thread t has begun.
Step(t) ==
    \/ InsertHandle(t)
    \/ CvEnter(t)
    \/ CvExpired(t)
    \/ SemPost(t)
    \/ EvtPost(t)
    \/ EvtClear(t)
    \/ NotifyAll(t)
    \/ MtxAcquire(t)
    \/ MtxTryFails(t)
    \/ MtxRelease(t)

Next ==
    \/ \E t \in Threads : Call(t) \/ Step(t) \/ CvSpurious(t) \/ CvTimeout(t)
    \/ Reset
    \/ KernelInit

Spec == Init /\ [][Next]_vars

\* The host schedules every thread that can run: the steps inside a call are
\* fair.  Nothing makes a caller call, a cv wake early or a deadline pass.
FairSpec == Spec /\ \A t \in Threads : WF_vars(Step(t))

-----------------------------------------------------------------------------
\* A thread never sleeps on an object whose predicate holds unless the
\* notify_all of the call that made it hold is still to come: no wake-up is
\* lost between the store under the object's mutex and the notification
\* outside it (SignalSemaphore, SetEvent against WaitSemaphore, WaitEvent).
NoLostWakeup ==
    \A t \in Threads :
        pc[t] = "wait" /\ Pred(t) =>
            \E u \in Threads : pc[u] = "notify" /\ ref[u] = ref[t]

\* No count carries a semaphore of this maximum past INT32_MAX.
Fits(max) == \A n \in Counts : max + n <= IntMax

PermitsOf(o) ==
    /\ kind[o] = "Semaphore" =>
          /\ semValue[o] <= semMax[o]
          /\ semValue[o] <= credit[o] /\ credit[o] >= 0
          /\ Fits(semMax[o]) => semValue[o] >= 0
    /\ kind[o] = "Event" /\ evtAuto[o] =>
          /\ credit[o] >= 0
          /\ evtSet[o] => credit[o] >= 1

\* A semaphore grants no more waits than it was given permits, and its value
\* stays at most maxValue and, unless a sum overflows, at least 0; an auto-reset
\* event releases at most one waiter per SetEvent, although notify_all wakes
\* them all.
PermitsConserved == \A o \in Objects : PermitsOf(o)

\* The static_pointer_cast of a call always names the object's real type, and
\* the object stays that type while the call holds it, although handles are
\* closed and their numbers reused meanwhile (Get's type check).
TypedAccess ==
    \A t \in Threads :
        pc[t] \notin {"idle", "alloc"} =>
            /\ ref[t] \in Objects
            /\ kind[ref[t]] = want[t]
            /\ pc[t] \in {"enter", "wait", "expired", "notify"} =>
                  want[t] # "Mutex"

\* At most one thread owns a mutex, and a non-recursive one is owned once.
MutualExclusion ==
    \A o \in Objects :
        \A t \in Threads :
            hold[o][t] > 0 =>
                /\ \A u \in Threads \ {t} : hold[o][u] = 0
                /\ ~mtxRec[o] => hold[o][t] = 1

\* A live handle keeps meaning the object it was created or duplicated for:
\* two allocations never publish under the same number (Alloc's fetch_add
\* outside the lock, DuplicateHandle's inside it).
HandleStable ==
    [][\A h \in Handles :
          table[h] # NoObj => table'[h] \in {table[h], NoObj}]_vars

\* Who owns a mutex each thread has locked counts[t] times, and how deep.
Owner(counts) == {t \in Threads : counts[t] > 0}
Depth(counts) == IF Owner(counts) = {} THEN 0 ELSE counts[CHOOSE t \in Owner(counts) : TRUE]

ObjectOf(o) ==
    CASE kind[o] = "Semaphore" -> [kind |-> "Semaphore", max |-> semMax[o], value |-> semValue[o]]
      [] kind[o] = "Event"     -> [kind |-> "Event", auto |-> evtAuto[o], set |-> evtSet[o]]
      [] kind[o] = "Mutex"     -> [kind |-> "Mutex", recursive |-> mtxRec[o],
                                   owner |-> Owner(hold[o]), depth |-> Depth(hold[o])]

Atomic == INSTANCE AtomicObjects WITH object <- [o \in Objects |-> ObjectOf(o)]

\* Every call takes effect at one moment between its look-up and its return, on
\* an object of its own kind and as an operation of that kind, whatever sleeps,
\* wake-ups, deadlines and closed handles lie in between; the rest of its steps
\* change no object.
ObjectsAreAtomic == Atomic!Spec

\* Whoever sleeps on an object whose predicate holds is woken, under fair
\* scheduling of the signaller's remaining steps.
WaiterWakes ==
    \A t \in Threads : (pc[t] = "wait" /\ Pred(t)) ~> (pc[t] # "wait")
=============================================================================
