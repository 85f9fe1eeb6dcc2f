-------------------------- MODULE KernelSyncProofs --------------------------
(***************************************************************************)
(* Proofs about KernelSync, for any number of threads, objects, handles    *)
(* and any bounds.                                                         *)
(***************************************************************************)
EXTENDS KernelSync, TLAPS

\* A thread on its way to unlock a mutex owns it: UnlockMutex is called by the
\* owner only, and nobody else lowers its count.
UnlockOwned ==
    \A t \in Threads :
        pc[t] = "unlock" => ref[t] \in Objects /\ hold[ref[t]][t] > 0

\* A thread past the look-up of its call holds an object.
InCall ==
    \A t \in Threads : pc[t] \notin {"idle", "alloc"} => ref[t] \in Objects

\* The inductive form of TypeOK.
TypeInv == TypeOK /\ InCall /\ UnlockOwned

\* The initial state is well typed.
LEMMA InitTyped == Init => TypeInv
<1> SUFFICES ASSUME Init PROVE TypeInv
  OBVIOUS
<1>1. TypeOK
  BY SyncAssumption DEF Init, TypeOK, Kinds, Labels, Handles
<1>2. InCall /\ UnlockOwned
  BY DEF Init, InCall, UnlockOwned
<1> QED
  BY <1>1, <1>2 DEF TypeInv

\* The part of TypeOK about the locals of calls.
CallTypeOK ==
    /\ pc \in [Threads -> Labels]
    /\ ref \in [Threads -> Objects \cup {NoObj}]
    /\ want \in [Threads -> Kinds]
    /\ timed \in [Threads -> BOOLEAN]
    /\ arg \in [Threads -> Nat]

\* What a call leaves behind when it returns is well typed, and no other
\* thread's call has moved.
LEMMA ReturnTyped ==
    ASSUME CallTypeOK, NEW t \in Threads, Return(t)
    PROVE  /\ CallTypeOK'
           /\ pc'[t] = "idle"
           /\ \A u \in Threads \ {t} : pc'[u] = pc[u] /\ ref'[u] = ref[u]
BY DEF CallTypeOK, Return, Labels, Kinds

\* The look-up that opens a call keeps the types and finds an object.
LEMMA LookupTyped ==
    ASSUME TypeOK, NEW t \in Threads, NEW h \in Handles, NEW k \in Kinds,
           NEW step \in Labels, Lookup(t, h, k, step)
    PROVE  /\ pc' \in [Threads -> Labels]
           /\ ref' \in [Threads -> Objects \cup {NoObj}]
           /\ want' \in [Threads -> Kinds]
           /\ pc'[t] = step /\ ref'[t] = table[h] /\ want'[t] = k
           /\ ref'[t] \in Objects /\ kind[ref'[t]] = k
           /\ \A u \in Threads \ {t} :
                 pc'[u] = pc[u] /\ ref'[u] = ref[u] /\ want'[u] = want[u]
BY DEF TypeOK, Lookup, Get

\* A constructor keeps the types: the new object's number is in range, and no
\* thread that owns a mutex holds the storage it reuses.
LEMMA AllocTyped ==
    ASSUME TypeInv, NEW t \in Threads, NEW o \in Objects, NEW k \in Kinds,
           Alloc(t, o, k),
           semValue' \in [Objects -> Int], semMax' \in [Objects -> Nat],
           evtSet' \in [Objects -> BOOLEAN], evtAuto' \in [Objects -> BOOLEAN],
           mtxRec' \in [Objects -> BOOLEAN], credit' \in [Objects -> Int]
    PROVE  TypeInv'
<1> USE DEF TypeInv, TypeOK
<1>1. TypeOK'
  <2>1. nextHandle' \in 1 .. MaxHandle + 1
    BY SyncAssumption DEF Alloc
  <2>2. kind' \in [Objects -> Kinds]
    BY DEF Alloc
  <2>3. hold' \in [Objects -> [Threads -> Nat]]
    BY DEF Alloc
  <2>4. pc' \in [Threads -> Labels]
    BY DEF Alloc, Labels
  <2>5. ref' \in [Threads -> Objects \cup {NoObj}]
    BY DEF Alloc
  <2>6. arg' \in [Threads -> Nat]
    BY SyncAssumption DEF Alloc
  <2>7. table' = table /\ want' = want /\ timed' = timed
    BY DEF Alloc
  <2> QED
    BY <2>1, <2>2, <2>3, <2>4, <2>5, <2>6, <2>7
<1>2. InCall' /\ UnlockOwned'
  BY DEF InCall, UnlockOwned, Alloc, Unreferenced
<1> QED
  BY <1>1, <1>2

\* Every new call keeps the types.
LEMMA CallTyped ==
    ASSUME TypeInv, NEW t \in Threads, Call(t)
    PROVE  TypeInv'
<1> USE DEF TypeInv
<1>1. ASSUME NEW o \in Objects, NEW max \in SemMaxes, NEW initial \in 0 .. max,
             CreateSemaphore(t, o, max, initial)
      PROVE  TypeInv'
  <2>1. /\ semValue' \in [Objects -> Int] /\ semMax' \in [Objects -> Nat]
        /\ credit' \in [Objects -> Int]
    BY <1>1, SyncAssumption DEF TypeOK, CreateSemaphore, KSemaphore
  <2>2. /\ evtSet' \in [Objects -> BOOLEAN] /\ evtAuto' \in [Objects -> BOOLEAN]
        /\ mtxRec' \in [Objects -> BOOLEAN]
    BY <1>1 DEF TypeOK, CreateSemaphore, KEvent, KMutex
  <2> QED
    BY <1>1, <2>1, <2>2, AllocTyped DEF CreateSemaphore, Kinds
<1>2. ASSUME NEW o \in Objects, NEW a \in BOOLEAN, NEW s \in BOOLEAN,
             CreateEvent(t, o, a, s)
      PROVE  TypeInv'
  <2>1. /\ semValue' \in [Objects -> Int] /\ semMax' \in [Objects -> Nat]
        /\ credit' \in [Objects -> Int]
    BY <1>2 DEF TypeOK, CreateEvent, KSemaphore
  <2>2. /\ evtSet' \in [Objects -> BOOLEAN] /\ evtAuto' \in [Objects -> BOOLEAN]
        /\ mtxRec' \in [Objects -> BOOLEAN]
    BY <1>2 DEF TypeOK, CreateEvent, KEvent, KMutex
  <2> QED
    BY <1>2, <2>1, <2>2, AllocTyped DEF CreateEvent, Kinds
<1>3. ASSUME NEW o \in Objects, NEW r \in BOOLEAN, CreateMutex(t, o, r)
      PROVE  TypeInv'
  <2>1. /\ semValue' \in [Objects -> Int] /\ semMax' \in [Objects -> Nat]
        /\ credit' \in [Objects -> Int]
    BY <1>3 DEF TypeOK, CreateMutex, KSemaphore
  <2>2. /\ evtSet' \in [Objects -> BOOLEAN] /\ evtAuto' \in [Objects -> BOOLEAN]
        /\ mtxRec' \in [Objects -> BOOLEAN]
    BY <1>3 DEF TypeOK, CreateMutex, KEvent, KMutex
  <2> QED
    BY <1>3, <2>1, <2>2, AllocTyped DEF CreateMutex, Kinds
<1>4. ASSUME NEW h \in Handles, DuplicateHandle(t, h)
      PROVE  TypeInv'
  BY <1>4, SyncAssumption DEF TypeOK, InCall, UnlockOwned, DuplicateHandle, objVars,
     heldVars, callVars, Handles
<1>5. ASSUME NEW h \in Handles, CloseHandle(t, h)
      PROVE  TypeInv'
  BY <1>5 DEF TypeOK, InCall, UnlockOwned, CloseHandle, objVars, heldVars, callVars
<1>6. ASSUME NEW h \in Handles, NEW k \in Kinds, NEW step \in Labels,
             Lookup(t, h, k, step), timed' \in [Threads -> BOOLEAN],
             arg' \in [Threads -> Nat],
             step = "unlock" => hold[table[h]][t] > 0
      PROVE  TypeInv'
  <2>1. TypeOK'
    BY <1>6, LookupTyped DEF TypeOK, Lookup, objVars, heldVars
  <2>2. InCall' /\ UnlockOwned'
    BY ZenonT(40), <1>6, LookupTyped DEF InCall, UnlockOwned, Lookup, heldVars
  <2> QED
    BY <2>1, <2>2
<1>7. ASSUME NEW h \in Handles, NEW tm \in BOOLEAN,
             WaitSemaphore(t, h, tm) \/ WaitEvent(t, h, tm)
      PROVE  TypeInv'
  <2>1. timed' \in [Threads -> BOOLEAN] /\ arg' \in [Threads -> Nat]
    BY <1>7 DEF TypeOK, WaitSemaphore, WaitEvent
  <2> QED
    BY <1>6, <1>7, <2>1 DEF WaitSemaphore, WaitEvent, Kinds, Labels
<1>8. ASSUME NEW h \in Handles, NEW n \in Counts, SignalSemaphore(t, h, n)
      PROVE  TypeInv'
  <2>1. timed' \in [Threads -> BOOLEAN] /\ arg' \in [Threads -> Nat]
    BY <1>8, SyncAssumption DEF TypeOK, SignalSemaphore
  <2> QED
    BY <1>6, <1>8, <2>1 DEF SignalSemaphore, Kinds, Labels
<1>9. ASSUME NEW h \in Handles,
             \/ SetEvent(t, h) \/ ClearEvent(t, h) \/ LockMutex(t, h)
             \/ TryLockMutex(t, h) \/ UnlockMutex(t, h)
      PROVE  TypeInv'
  <2>1. timed' \in [Threads -> BOOLEAN] /\ arg' \in [Threads -> Nat]
    BY <1>9 DEF TypeOK, SetEvent, ClearEvent, LockMutex, TryLockMutex, UnlockMutex
  <2> QED
    BY <1>6, <1>9, <2>1 DEF SetEvent, ClearEvent, LockMutex, TryLockMutex,
       UnlockMutex, Kinds, Labels
<1> QED
  BY <1>1, <1>2, <1>3, <1>4, <1>5, <1>7, <1>8, <1>9 DEF Call

\* A sum in int32_t is the sum, or far below it.
LEMMA Int32Below ==
    ASSUME NEW n \in Int
    PROVE  Int32(n) \in Int /\ Int32(n) <= n /\ (n <= IntMax => Int32(n) = n)
BY SyncAssumption DEF Int32

\* Every further step of a call keeps the types.
LEMMA StepTyped ==
    ASSUME TypeInv, NEW t \in Threads,
           Step(t) \/ CvSpurious(t) \/ CvTimeout(t)
    PROVE  TypeInv'
<1> USE DEF TypeInv
<1>0. CallTypeOK
  BY DEF TypeOK, CallTypeOK
<1>o. pc[t] \notin {"idle", "alloc"} => ref[t] \in Objects
  BY DEF InCall
<1>1. CASE InsertHandle(t)
  BY <1>0, <1>1, ReturnTyped DEF InsertHandle, TypeOK, CallTypeOK, InCall, UnlockOwned,
     objVars, heldVars
<1>2. ASSUME ref[t] \in Objects, Take(t) \/ UNCHANGED <<semValue, evtSet, credit>>
      PROVE  /\ semValue' \in [Objects -> Int]
             /\ evtSet' \in [Objects -> BOOLEAN]
             /\ credit' \in [Objects -> Int]
  <2>1. CASE SemTake(ref[t])
    BY <1>2, <2>1 DEF SemTake, TypeOK
  <2>2. CASE EvtTake(ref[t])
    <3>1. evtSet' \in [Objects -> BOOLEAN]
      BY <1>2, <2>2, Zenon DEF EvtTake, TypeOK
    <3>2. credit' \in [Objects -> Int]
      BY <1>2, <2>2 DEF EvtTake, TypeOK
    <3> QED
      BY <2>2, <3>1, <3>2 DEF EvtTake, TypeOK
  <2>3. CASE UNCHANGED <<semValue, evtSet, credit>>
    BY <2>3 DEF TypeOK
  <2> QED
    BY <1>2, <2>1, <2>2, <2>3 DEF Take
<1>3. CASE CvEnter(t)
  <2>1. CASE Take(t) /\ Return(t)
    BY <1>0, <1>o, <1>2, <1>3, <2>1, ReturnTyped DEF CvEnter, TypeOK, CallTypeOK,
       InCall, UnlockOwned, objVars, heldVars
  <2>2. CASE /\ pc' = [pc EXCEPT ![t] = "wait"]
             /\ UNCHANGED <<semValue, evtSet, credit, ref, want, timed, arg>>
    BY <1>3, <2>2 DEF CvEnter, TypeOK, InCall, UnlockOwned, objVars, heldVars, Labels
  <2> QED
    BY <1>3, <2>1, <2>2 DEF CvEnter
<1>4. CASE CvExpired(t)
  BY <1>0, <1>o, <1>2, <1>4, ReturnTyped DEF CvExpired, TypeOK, CallTypeOK,
     InCall, UnlockOwned, objVars, heldVars
<1>5. CASE SemPost(t)
  <2>1. semValue' \in [Objects -> Int] /\ credit' \in [Objects -> Int]
    <3> DEFINE v == Int32(semValue[ref[t]] + arg[t])
    <3>1. credit' = [credit EXCEPT ![ref[t]] = @ + arg[t]]
      BY <1>5 DEF SemPost
    <3>2. semValue' = [semValue EXCEPT ![ref[t]] = IF v > semMax[ref[t]]
                                                   THEN semMax[ref[t]] ELSE v]
      BY <1>5 DEF SemPost
    <3>3. ref[t] \in Objects
      BY <1>o, <1>5 DEF SemPost
    <3>4. v \in Int
      BY <3>3, Int32Below DEF TypeOK
    <3> HIDE DEF v
    <3> QED
      BY <3>1, <3>2, <3>3, <3>4 DEF TypeOK
  <2> QED
    BY <1>5, <2>1 DEF SemPost, TypeOK, InCall, UnlockOwned, objVars, heldVars, Labels
<1>6. CASE EvtPost(t)
  <2>1. evtSet' \in [Objects -> BOOLEAN] /\ credit' \in [Objects -> Int]
    <3>1. evtSet' \in [Objects -> BOOLEAN]
      BY <1>o, <1>6 DEF EvtPost, TypeOK
    <3>2. credit' \in [Objects -> Int]
      BY <1>o, <1>6 DEF EvtPost, TypeOK
    <3> QED
      BY <3>1, <3>2
  <2> QED
    BY <1>6, <2>1 DEF EvtPost, TypeOK, InCall, UnlockOwned, objVars, heldVars, Labels
<1>7. CASE EvtClear(t)
  BY <1>0, <1>7, ReturnTyped DEF EvtClear, TypeOK, CallTypeOK, InCall, UnlockOwned,
     objVars, heldVars
<1>8. CASE NotifyAll(t)
  BY <1>8 DEF NotifyAll, TypeOK, InCall, UnlockOwned, objVars, heldVars, Labels, Kinds
<1>9. CASE MtxAcquire(t)
  <2> DEFINE row == [hold[ref[t]] EXCEPT ![t] = @ + 1]
  <2>0. hold' = [hold EXCEPT ![ref[t]] = row]
    BY <1>9 DEF MtxAcquire
  <2>a. row \in [Threads -> Nat] /\ \A u \in Threads : row[u] >= hold[ref[t]][u]
    <3>1. hold[ref[t]] \in [Threads -> Nat]
      BY <1>o, <1>9 DEF MtxAcquire, TypeOK
    <3> QED
      BY <3>1
  <2> HIDE DEF row
  <2>1. hold' \in [Objects -> [Threads -> Nat]]
    BY <2>0, <2>a DEF TypeOK
  <2>2. \A o \in Objects : \A u \in Threads : hold'[o][u] >= hold[o][u]
    <3> SUFFICES ASSUME NEW o \in Objects, NEW u \in Threads
                 PROVE  hold'[o][u] >= hold[o][u]
      OBVIOUS
    <3>1. hold[o] \in [Threads -> Nat]
      BY DEF TypeOK
    <3>2. CASE o = ref[t]
      BY <2>0, <2>a, <3>2 DEF TypeOK
    <3>3. CASE o # ref[t]
      BY <2>0, <3>1, <3>3 DEF TypeOK
    <3> QED
      BY <3>2, <3>3
  <2>3. TypeOK'
    BY <1>0, <1>9, <2>1, ReturnTyped DEF MtxAcquire, TypeOK, CallTypeOK, objVars
  <2>4. InCall' /\ UnlockOwned'
    BY <1>0, <1>9, <2>1, <2>2, ReturnTyped DEF MtxAcquire, InCall, UnlockOwned, TypeOK
  <2> QED
    BY <2>3, <2>4
<1>10. CASE MtxTryFails(t)
  BY <1>0, <1>10, ReturnTyped DEF MtxTryFails, TypeOK, CallTypeOK, InCall, UnlockOwned,
     objVars, heldVars
<1>11. CASE MtxRelease(t)
  <2>1. ref[t] \in Objects /\ hold[ref[t]][t] > 0
    BY <1>11 DEF MtxRelease, InCall, UnlockOwned
  <2> DEFINE row == [hold[ref[t]] EXCEPT ![t] = @ - 1]
  <2>0. hold' = [hold EXCEPT ![ref[t]] = row]
    BY <1>11 DEF MtxRelease
  <2>a. /\ row \in [Threads -> Nat]
        /\ \A u \in Threads \ {t} : row[u] = hold[ref[t]][u]
    <3>1. hold[ref[t]] \in [Threads -> Nat]
      BY <2>1 DEF TypeOK
    <3> QED
      BY <3>1, <2>1
  <2> HIDE DEF row
  <2>2. hold' \in [Objects -> [Threads -> Nat]]
    BY <2>0, <2>a DEF TypeOK
  <2>3. \A o \in Objects : \A u \in Threads \ {t} : hold'[o][u] = hold[o][u]
    BY <2>0, <2>a DEF TypeOK
  <2>4. TypeOK'
    BY <1>0, <1>11, <2>2, ReturnTyped DEF MtxRelease, TypeOK, CallTypeOK, objVars
  <2>5. InCall' /\ UnlockOwned'
    BY ZenonT(40), <1>0, <1>11, <2>3, ReturnTyped DEF MtxRelease, InCall, UnlockOwned, TypeOK
  <2> QED
    BY <2>4, <2>5
<1>12. CASE CvSpurious(t)
  BY <1>12 DEF CvSpurious, TypeOK, InCall, UnlockOwned, objVars, heldVars, Labels
<1>13. CASE CvTimeout(t)
  BY <1>13 DEF CvTimeout, TypeOK, InCall, UnlockOwned, objVars, heldVars, Labels
<1> QED
  BY <1>1, <1>3, <1>4, <1>5, <1>6, <1>7, <1>8, <1>9, <1>10, <1>11, <1>12, <1>13
     DEF Step

\* Every step keeps the types.
LEMMA NextTyped == TypeInv /\ [Next]_vars => TypeInv'
<1> SUFFICES ASSUME TypeInv, [Next]_vars PROVE TypeInv'
  OBVIOUS
<1>1. CASE \E t \in Threads : Call(t) \/ Step(t) \/ CvSpurious(t) \/ CvTimeout(t)
  BY <1>1, CallTyped, StepTyped
<1>2. CASE Reset
  BY <1>2 DEF Reset, TypeInv, TypeOK, InCall, UnlockOwned, objVars, heldVars, callVars
<1>3. CASE KernelInit
  BY <1>3, SyncAssumption DEF KernelInit, TypeInv, TypeOK, InCall, UnlockOwned, objVars,
     heldVars, callVars
<1>4. CASE UNCHANGED vars
  BY <1>4 DEF TypeInv, TypeOK, InCall, UnlockOwned, vars
<1> QED
  BY <1>1, <1>2, <1>3, <1>4 DEF Next

\* The variables keep their types, whatever the threads do; in particular the
\* ownership count of a mutex never falls below zero (KMutex unlock).
THEOREM TypeCorrect == Spec => []TypeOK
<1>1. Init => TypeInv
  BY InitTyped
<1>2. TypeInv /\ [Next]_vars => TypeInv'
  BY NextTyped
<1>3. TypeInv => TypeOK
  BY DEF TypeInv
<1> QED
  BY <1>1, <1>2, <1>3, PTL DEF Spec

-----------------------------------------------------------------------------
(* The casts of a call are right.                                          *)

\* What a call is about to touch.
SignalKinds ==
    \A t \in Threads :
        /\ pc[t] = "post" => want[t] = "Semaphore"
        /\ pc[t] \in {"set", "clear"} => want[t] = "Event"
        /\ pc[t] \in {"lock", "try", "unlock"} => want[t] = "Mutex"

\* The inductive form of TypedAccess.
TypedInv == TypedAccess /\ SignalKinds

\* A thread that returns leaves the casts of the others as they were.
LEMMA ReturnKeepsTyped ==
    ASSUME TypeInv, TypedInv, NEW t \in Threads, Return(t), kind' = kind
    PROVE  TypedInv'
BY DEF TypeInv, TypeOK, TypedInv, TypedAccess, SignalKinds, Return

\* A look-up names the type it has tested.
LEMMA LookupKeepsTyped ==
    ASSUME TypeInv, TypedInv, NEW t \in Threads, NEW h \in Handles,
           NEW k \in Kinds, NEW step \in Labels, Lookup(t, h, k, step),
           step \in {"enter", "wait", "expired", "notify"} => k # "Mutex",
           step = "post" => k = "Semaphore",
           step \in {"set", "clear"} => k = "Event",
           step \in {"lock", "try", "unlock"} => k = "Mutex"
    PROVE  TypedInv'
<1>1. kind' = kind
  BY DEF Lookup, objVars
<1> QED
  BY <1>1, LookupTyped DEF TypeInv, TypedInv, TypedAccess, SignalKinds

\* Moving on inside a call keeps the cast.
LEMMA MoveKeepsTyped ==
    ASSUME TypeInv, TypedInv, NEW t \in Threads, NEW step \in Labels,
           pc' = [pc EXCEPT ![t] = step],
           UNCHANGED <<ref, want, kind>>,
           pc[t] \notin {"idle", "alloc"},
           step \notin {"post", "set", "clear", "lock", "try", "unlock"},
           want[t] # "Mutex"
    PROVE  TypedInv'
BY DEF TypeInv, TypeOK, TypedInv, TypedAccess, SignalKinds

\* A new object is one that no call holds.
LEMMA AllocKeepsTyped ==
    ASSUME TypeInv, TypedInv, NEW t \in Threads, NEW o \in Objects,
           NEW k \in Kinds, Alloc(t, o, k)
    PROVE  TypedInv'
BY DEF TypeInv, TypeOK, TypedInv, TypedAccess, SignalKinds, Alloc, Unreferenced

\* Every step keeps the casts right: only a look-up that has tested the type,
\* and a constructor of an object nobody holds, touch what they rest on.
LEMMA NextKeepsTyped == TypeInv /\ TypedInv /\ [Next]_vars => TypedInv'
<1> SUFFICES ASSUME TypeInv, TypedInv, [Next]_vars PROVE TypedInv'
  OBVIOUS
<1>1. ASSUME NEW t \in Threads, Call(t) PROVE TypedInv'
  <2>1. ASSUME NEW o \in Objects, NEW k \in Kinds, Alloc(t, o, k) PROVE TypedInv'
    BY <2>1, AllocKeepsTyped
  <2>2. ASSUME NEW h \in Handles, DuplicateHandle(t, h) \/ CloseHandle(t, h)
        PROVE  TypedInv'
    BY <2>2 DEF DuplicateHandle, CloseHandle, callVars, objVars, TypedInv,
       TypedAccess, SignalKinds
  <2>3. ASSUME NEW h \in Handles,
               \/ \E tm \in BOOLEAN : WaitSemaphore(t, h, tm) \/ WaitEvent(t, h, tm)
               \/ \E n \in Counts : SignalSemaphore(t, h, n)
               \/ SetEvent(t, h) \/ ClearEvent(t, h) \/ LockMutex(t, h)
               \/ TryLockMutex(t, h) \/ UnlockMutex(t, h)
        PROVE  TypedInv'
    BY <2>3, LookupKeepsTyped DEF WaitSemaphore, WaitEvent, SignalSemaphore,
       SetEvent, ClearEvent, LockMutex, TryLockMutex, UnlockMutex, Kinds, Labels
  <2> QED
    BY <1>1, <2>1, <2>2, <2>3 DEF Call, CreateSemaphore, CreateEvent, CreateMutex,
       Kinds
<1>2. ASSUME NEW t \in Threads, Step(t) PROVE TypedInv'
  <2>1. CASE \/ InsertHandle(t) \/ CvExpired(t) \/ EvtClear(t) \/ MtxAcquire(t)
             \/ MtxTryFails(t) \/ MtxRelease(t)
    BY <2>1, ReturnKeepsTyped DEF InsertHandle, CvExpired, EvtClear, MtxAcquire,
       MtxTryFails, MtxRelease, objVars
  <2>2. CASE CvEnter(t)
    <3>1. kind' = kind
      BY <2>2 DEF CvEnter, objVars
    <3>2. CASE Return(t)
      BY <3>1, <3>2, ReturnKeepsTyped
    <3>3. CASE pc' = [pc EXCEPT ![t] = "wait"] /\ UNCHANGED <<ref, want>>
      BY <2>2, <3>1, <3>3, MoveKeepsTyped DEF CvEnter, TypedInv, TypedAccess, Labels
    <3> QED
      BY <2>2, <3>2, <3>3 DEF CvEnter
  <2>3. CASE SemPost(t)
    BY <2>3, MoveKeepsTyped DEF SemPost, TypedInv, SignalKinds, Labels, objVars
  <2>4. CASE EvtPost(t)
    BY <2>4, MoveKeepsTyped DEF EvtPost, TypedInv, SignalKinds, Labels, objVars
  <2>5. CASE NotifyAll(t)
    BY <2>5 DEF NotifyAll, TypeInv, TypeOK, TypedInv, TypedAccess, SignalKinds,
       objVars
  <2> QED
    BY <1>2, <2>1, <2>2, <2>3, <2>4, <2>5 DEF Step
<1>3. ASSUME NEW t \in Threads, CvSpurious(t) \/ CvTimeout(t) PROVE TypedInv'
  BY <1>3, MoveKeepsTyped DEF CvSpurious, CvTimeout, TypedInv, TypedAccess, Labels,
     objVars
<1>4. CASE Reset \/ KernelInit
  BY <1>4 DEF Reset, KernelInit, callVars, objVars, TypedInv, TypedAccess,
     SignalKinds
<1>5. CASE UNCHANGED vars
  BY <1>5 DEF vars, TypedInv, TypedAccess, SignalKinds
<1> QED
  BY <1>1, <1>2, <1>3, <1>4, <1>5 DEF Next

\* The static_pointer_cast of every call names the real type of the object it
\* holds, for as long as it holds it.
THEOREM CastsCorrect == Spec => []TypedAccess
<1>1. Init => TypeInv /\ TypedInv
  BY InitTyped DEF Init, TypedInv, TypedAccess, SignalKinds
<1>2. TypeInv /\ TypedInv /\ [Next]_vars => TypeInv' /\ TypedInv'
  BY NextTyped, NextKeepsTyped
<1>3. TypedInv => TypedAccess
  BY DEF TypedInv
<1> QED
  BY <1>1, <1>2, <1>3, PTL DEF Spec

-----------------------------------------------------------------------------
(* No wake-up is lost.                                                     *)

\* A step of a thread that is not about to notify, that lets no sleeper's
\* predicate become true and puts nobody to sleep, keeps the promise.
LEMMA QuietStep ==
    ASSUME TypeInv, NoLostWakeup, NEW t \in Threads, pc[t] # "notify",
           \A u \in Threads \ {t} :
               pc'[u] = pc[u] /\ ref'[u] = ref[u] /\ want'[u] = want[u],
           pc'[t] # "wait",
           \A u \in Threads : pc[u] = "wait" /\ u # t /\ Pred(u)' => Pred(u)
    PROVE  NoLostWakeup'
BY DEF NoLostWakeup

\* Every step keeps the promise of a wake-up: a signaller that makes a
\* predicate true goes on to notify, and a thread sleeps only after it has seen
\* the predicate false under the object's mutex.
LEMMA NextKeepsWakeups == TypeInv /\ NoLostWakeup /\ [Next]_vars => NoLostWakeup'
<1> SUFFICES ASSUME TypeInv, NoLostWakeup, [Next]_vars PROVE NoLostWakeup'
  OBVIOUS
<1> USE DEF TypeInv
<1>1. ASSUME NEW t \in Threads, NEW o \in Objects, NEW k \in Kinds, Alloc(t, o, k),
             \A p \in Objects \ {o} : semValue'[p] = semValue[p] /\ evtSet'[p] = evtSet[p]
      PROVE  NoLostWakeup'
  <2>1. \A u \in Threads \ {t} :
            pc'[u] = pc[u] /\ ref'[u] = ref[u] /\ want'[u] = want[u]
    BY <1>1 DEF Alloc, TypeOK
  <2>2. pc[t] = "idle" /\ pc'[t] = "alloc"
    BY <1>1 DEF Alloc, TypeOK
  <2>3. \A u \in Threads : pc[u] = "wait" /\ u # t => ref[u] \in Objects \ {o}
    BY <1>1 DEF Alloc, Unreferenced, InCall
  <2>4. \A u \in Threads : pc[u] = "wait" /\ u # t /\ Pred(u)' => Pred(u)
    BY <1>1, <2>1, <2>3 DEF Pred, SemPred, EvtPred
  <2> QED
    BY <2>1, <2>2, <2>4, QuietStep
<1>2. ASSUME NEW t \in Threads, NEW h \in Handles, NEW k \in Kinds,
             NEW step \in Labels \ {"wait"}, Lookup(t, h, k, step)
      PROVE  NoLostWakeup'
  <2>1. \A u \in Threads \ {t} :
            pc'[u] = pc[u] /\ ref'[u] = ref[u] /\ want'[u] = want[u]
    BY <1>2, LookupTyped
  <2>2. pc[t] = "idle" /\ pc'[t] # "wait"
    BY <1>2, LookupTyped DEF Lookup
  <2>3. \A u \in Threads : pc[u] = "wait" /\ u # t /\ Pred(u)' => Pred(u)
    BY <1>2, <2>1 DEF Lookup, Pred, SemPred, EvtPred
  <2> QED
    BY <2>1, <2>2, <2>3, QuietStep
<1>3. ASSUME NEW t \in Threads, Call(t) PROVE NoLostWakeup'
  <2>1. ASSUME NEW o \in Objects, NEW max \in SemMaxes, NEW initial \in 0 .. max,
               CreateSemaphore(t, o, max, initial)
        PROVE  NoLostWakeup'
    BY <1>1, <2>1 DEF CreateSemaphore, KSemaphore, KEvent, TypeOK, Kinds
  <2>2. ASSUME NEW o \in Objects, NEW a \in BOOLEAN, NEW s \in BOOLEAN,
               CreateEvent(t, o, a, s)
        PROVE  NoLostWakeup'
    BY <1>1, <2>2 DEF CreateEvent, KSemaphore, KEvent, TypeOK, Kinds
  <2>3. ASSUME NEW o \in Objects, NEW r \in BOOLEAN, CreateMutex(t, o, r)
        PROVE  NoLostWakeup'
    BY <1>1, <2>3 DEF CreateMutex, KSemaphore, KEvent, TypeOK, Kinds
  <2>4. ASSUME NEW h \in Handles, DuplicateHandle(t, h) \/ CloseHandle(t, h)
        PROVE  NoLostWakeup'
    BY <2>4 DEF DuplicateHandle, CloseHandle, callVars, NoLostWakeup, Pred,
       SemPred, EvtPred
  <2>5. ASSUME NEW h \in Handles,
               \/ \E tm \in BOOLEAN : WaitSemaphore(t, h, tm) \/ WaitEvent(t, h, tm)
               \/ \E n \in Counts : SignalSemaphore(t, h, n)
               \/ SetEvent(t, h) \/ ClearEvent(t, h) \/ LockMutex(t, h)
               \/ TryLockMutex(t, h) \/ UnlockMutex(t, h)
        PROVE  NoLostWakeup'
    BY <1>2, <2>5 DEF WaitSemaphore, WaitEvent, SignalSemaphore, SetEvent,
       ClearEvent, LockMutex, TryLockMutex, UnlockMutex, Kinds, Labels
  <2> QED
    BY <1>3, <2>1, <2>2, <2>3, <2>4, <2>5 DEF Call
<1>4. ASSUME NEW t \in Threads, Return(t), pc[t] # "notify",
             \A o \in Objects : /\ semValue'[o] > 0 => semValue[o] > 0
                                /\ evtSet'[o] => evtSet[o]
      PROVE  NoLostWakeup'
  <2>1. \A u \in Threads \ {t} :
            pc'[u] = pc[u] /\ ref'[u] = ref[u] /\ want'[u] = want[u]
    BY <1>4 DEF Return, TypeOK
  <2>2. pc'[t] = "idle"
    BY <1>4 DEF Return, TypeOK
  <2>3. \A u \in Threads : pc[u] = "wait" /\ u # t /\ Pred(u)' => Pred(u)
    BY <1>4, <2>1 DEF Pred, SemPred, EvtPred, InCall
  <2> QED
    BY <1>4, <2>1, <2>2, <2>3, QuietStep
<1>5. ASSUME NEW t \in Threads, Step(t) PROVE NoLostWakeup'
  <2>1. CASE \/ InsertHandle(t) \/ MtxAcquire(t) \/ MtxTryFails(t) \/ MtxRelease(t)
    BY <1>4, <2>1 DEF InsertHandle, MtxAcquire, MtxTryFails, MtxRelease
  <2>2. CASE EvtClear(t)
    BY <1>4, <2>2 DEF EvtClear, TypeOK
  <2>3. ASSUME ref[t] \in Objects, Take(t)
        PROVE  \A o \in Objects : /\ semValue'[o] > 0 => semValue[o] > 0
                                  /\ evtSet'[o] => evtSet[o]
    <3>1. CASE SemTake(ref[t])
      BY <2>3, <3>1 DEF SemTake, TypeOK
    <3>2. CASE EvtTake(ref[t])
      <4>1. \A o \in Objects : evtSet'[o] => evtSet[o]
        BY <2>3, <3>2, Zenon DEF EvtTake, TypeOK
      <4> QED
        BY <3>2, <4>1 DEF EvtTake
    <3> QED
      BY <2>3, <3>1, <3>2 DEF Take
  <2>4. CASE CvExpired(t)
    BY <1>4, <2>3, <2>4 DEF CvExpired, InCall
  <2>5. CASE CvEnter(t)
    <3>1. CASE Take(t) /\ Return(t)
      BY <1>4, <2>3, <2>5, <3>1 DEF CvEnter, InCall
    <3>2. CASE /\ ~Pred(t)
               /\ pc' = [pc EXCEPT ![t] = "wait"]
               /\ UNCHANGED <<semValue, evtSet, ref, want>>
      BY <2>5, <3>2 DEF CvEnter, NoLostWakeup, Pred, SemPred, EvtPred, TypeOK
    <3> QED
      BY <2>5, <3>1, <3>2 DEF CvEnter
  <2>6. ASSUME pc[t] # "notify", pc' = [pc EXCEPT ![t] = "notify"],
               UNCHANGED <<ref, want>>,
               \A o \in Objects \ {ref[t]} :
                   semValue'[o] = semValue[o] /\ evtSet'[o] = evtSet[o]
        PROVE  NoLostWakeup'
    <3> SUFFICES ASSUME NEW u \in Threads, pc'[u] = "wait", Pred(u)'
                 PROVE  \E w \in Threads : pc'[w] = "notify" /\ ref'[w] = ref'[u]
      BY DEF NoLostWakeup
    <3>1. pc'[t] = "notify" /\ u # t /\ pc[u] = "wait"
      BY <2>6 DEF TypeOK
    <3>2. CASE ref[u] = ref[t]
      BY <2>6, <3>1, <3>2
    <3>3. CASE ref[u] # ref[t]
      <4>1. Pred(u)
        BY <2>6, <3>1, <3>3 DEF Pred, SemPred, EvtPred, InCall
      <4>2. PICK w \in Threads : pc[w] = "notify" /\ ref[w] = ref[u]
        BY <3>1, <4>1 DEF NoLostWakeup
      <4> QED
        BY <2>6, <4>2 DEF TypeOK
    <3> QED
      BY <3>2, <3>3
  <2>7. CASE SemPost(t)
    <3>1. \A o \in Objects \ {ref[t]} :
              semValue'[o] = semValue[o] /\ evtSet'[o] = evtSet[o]
      BY <2>7 DEF SemPost, TypeOK
    <3> QED
      BY <2>6, <2>7, <3>1 DEF SemPost
  <2>8. CASE EvtPost(t)
    <3>1. \A o \in Objects \ {ref[t]} :
              semValue'[o] = semValue[o] /\ evtSet'[o] = evtSet[o]
      BY <2>8 DEF EvtPost, TypeOK
    <3> QED
      BY <2>6, <2>8, <3>1 DEF EvtPost
  <2>9. CASE NotifyAll(t)
    <3> SUFFICES ASSUME NEW u \in Threads, pc'[u] = "wait", Pred(u)'
                 PROVE  \E w \in Threads : pc'[w] = "notify" /\ ref'[w] = ref'[u]
      BY DEF NoLostWakeup
    <3>1. u # t /\ pc[u] = "wait" /\ ref[u] # ref[t]
      BY <2>9 DEF NotifyAll
    <3>2. ref'[u] = ref[u] /\ want'[u] = want[u]
      BY <2>9, <3>1 DEF NotifyAll, TypeOK
    <3>3. Pred(u)
      BY <2>9, <3>2 DEF NotifyAll, Pred, SemPred, EvtPred
    <3>4. PICK w \in Threads : pc[w] = "notify" /\ ref[w] = ref[u]
      BY <3>1, <3>3 DEF NoLostWakeup
    <3> QED
      BY <2>9, <3>1, <3>2, <3>4 DEF NotifyAll, TypeOK
  <2> QED
    BY <1>5, <2>1, <2>2, <2>4, <2>5, <2>7, <2>8, <2>9 DEF Step
<1>6. ASSUME NEW t \in Threads, CvSpurious(t) \/ CvTimeout(t) PROVE NoLostWakeup'
  <2>1. \A u \in Threads \ {t} :
            pc'[u] = pc[u] /\ ref'[u] = ref[u] /\ want'[u] = want[u]
    BY <1>6 DEF CvSpurious, CvTimeout, TypeOK
  <2>2. pc[t] # "notify" /\ pc'[t] # "wait"
    BY <1>6 DEF CvSpurious, CvTimeout, TypeOK
  <2>3. \A u \in Threads : pc[u] = "wait" /\ u # t /\ Pred(u)' => Pred(u)
    BY <1>6 DEF CvSpurious, CvTimeout, Pred, SemPred, EvtPred
  <2> QED
    BY <2>1, <2>2, <2>3, QuietStep
<1>7. CASE Reset \/ KernelInit
  BY <1>7 DEF Reset, KernelInit, callVars, NoLostWakeup, Pred, SemPred, EvtPred
<1>8. CASE UNCHANGED vars
  BY <1>8 DEF vars, NoLostWakeup, Pred, SemPred, EvtPred
<1> QED
  BY <1>3, <1>5, <1>6, <1>7, <1>8 DEF Next

\* No wake-up is lost: a thread sleeps on an object whose predicate holds only
\* while the signaller that made it hold has its notify_all still to do.
THEOREM WakeupsKept == Spec => []NoLostWakeup
<1>1. Init => TypeInv /\ NoLostWakeup
  BY InitTyped DEF Init, NoLostWakeup
<1>2. TypeInv /\ NoLostWakeup /\ [Next]_vars => TypeInv' /\ NoLostWakeup'
  BY NextTyped, NextKeepsWakeups
<1> QED
  BY <1>1, <1>2, PTL DEF Spec

-----------------------------------------------------------------------------
(* Permits are conserved.                                                  *)

\* Semaphores have the maxima, and signals the counts, that callers give.
AsGiven ==
    /\ \A o \in Objects : kind[o] = "Semaphore" => semMax[o] \in SemMaxes
    /\ \A t \in Threads : pc[t] = "post" => arg[t] \in Counts

\* Every step keeps them: a maximum is written when the semaphore is made, and a
\* count by the look-up that opens its signal.
LEMMA NextKeepsGiven == TypeInv /\ AsGiven /\ [Next]_vars => AsGiven'
<1> SUFFICES ASSUME TypeInv, AsGiven, [Next]_vars PROVE AsGiven'
  OBVIOUS
<1> USE DEF TypeInv, TypeOK, AsGiven
<1>1. ASSUME NEW t \in Threads, UNCHANGED <<kind, semMax>>,
             \A u \in Threads : u # t => pc'[u] = pc[u] \/ pc'[u] # "post",
             \A u \in Threads : u # t => arg'[u] = arg[u],
             pc'[t] = "post" => arg'[t] \in Counts
      PROVE  AsGiven'
  BY <1>1
<1>2. ASSUME NEW t \in Threads, NEW o \in Objects, NEW k \in Kinds, Alloc(t, o, k),
             \A p \in Objects \ {o} : semMax'[p] = semMax[p],
             k = "Semaphore" => semMax'[o] \in SemMaxes
      PROVE  AsGiven'
  BY <1>2 DEF Alloc
<1>3. ASSUME NEW t \in Threads, Call(t) PROVE AsGiven'
  <2>1. ASSUME NEW o \in Objects, NEW max \in SemMaxes, NEW initial \in 0 .. max,
               CreateSemaphore(t, o, max, initial)
        PROVE  AsGiven'
    BY <1>2, <2>1, SyncAssumption DEF CreateSemaphore, KSemaphore, Kinds
  <2>2. ASSUME NEW o \in Objects, NEW k \in {"Event", "Mutex"}, Alloc(t, o, k),
               KSemaphore(o, 0, 0)
        PROVE  AsGiven'
    BY <1>2, <2>2 DEF KSemaphore, Kinds
  <2>3. ASSUME NEW h \in Handles, DuplicateHandle(t, h) \/ CloseHandle(t, h)
        PROVE  AsGiven'
    BY <2>3 DEF DuplicateHandle, CloseHandle, callVars, objVars
  <2>4. ASSUME NEW h \in Handles,
               \/ \E tm \in BOOLEAN : WaitSemaphore(t, h, tm) \/ WaitEvent(t, h, tm)
               \/ SetEvent(t, h) \/ ClearEvent(t, h) \/ LockMutex(t, h)
               \/ TryLockMutex(t, h) \/ UnlockMutex(t, h)
        PROVE  AsGiven'
    BY <1>1, <2>4 DEF WaitSemaphore, WaitEvent, SetEvent, ClearEvent, LockMutex,
       TryLockMutex, UnlockMutex, Lookup, objVars
  <2>5. ASSUME NEW h \in Handles, NEW n \in Counts, SignalSemaphore(t, h, n)
        PROVE  AsGiven'
    BY <1>1, <2>5 DEF SignalSemaphore, Lookup, objVars
  <2> QED
    BY <1>3, <2>1, <2>2, <2>3, <2>4, <2>5 DEF Call, CreateEvent, CreateMutex
<1>4. ASSUME NEW t \in Threads, Return(t), UNCHANGED <<kind, semMax>> PROVE AsGiven'
  BY <1>1, <1>4 DEF Return
<1>5. ASSUME NEW t \in Threads, Step(t) PROVE AsGiven'
  <2>1. CASE \/ InsertHandle(t) \/ CvExpired(t) \/ EvtClear(t) \/ MtxAcquire(t)
             \/ MtxTryFails(t) \/ MtxRelease(t)
    BY <1>4, <2>1 DEF InsertHandle, CvExpired, EvtClear, MtxAcquire, MtxTryFails,
       MtxRelease, objVars
  <2>2. CASE CvEnter(t)
    BY <1>1, <1>4, <2>2 DEF CvEnter, objVars
  <2>3. CASE SemPost(t) \/ EvtPost(t)
    BY <1>1, <2>3 DEF SemPost, EvtPost, objVars
  <2>4. CASE NotifyAll(t)
    BY <1>1, <2>4 DEF NotifyAll, objVars
  <2> QED
    BY <1>5, <2>1, <2>2, <2>3, <2>4 DEF Step
<1>6. ASSUME NEW t \in Threads, CvSpurious(t) \/ CvTimeout(t) PROVE AsGiven'
  BY <1>1, <1>6 DEF CvSpurious, CvTimeout, objVars
<1>7. CASE Reset \/ KernelInit \/ UNCHANGED vars
  BY <1>7 DEF Reset, KernelInit, callVars, objVars, vars
<1> QED
  BY <1>3, <1>5, <1>6, <1>7 DEF Next

\* An object no part of which is written keeps its permits.
LEMMA PermitsFrame ==
    ASSUME NEW o \in Objects, PermitsOf(o),
           kind'[o] = kind[o], semValue'[o] = semValue[o], semMax'[o] = semMax[o],
           evtAuto'[o] = evtAuto[o], evtSet'[o] = evtSet[o], credit'[o] = credit[o]
    PROVE  PermitsOf(o)'
BY DEF PermitsOf

\* A granted wait takes exactly one permit.
LEMMA TakeKeepsPermits ==
    ASSUME TypeInv, TypedInv, PermitsConserved, NEW t \in Threads,
           pc[t] \in {"enter", "expired"}, Pred(t), Take(t),
           UNCHANGED <<kind, semMax, evtAuto>>
    PROVE  PermitsConserved'
<1> SUFFICES ASSUME NEW o \in Objects PROVE PermitsOf(o)'
  BY DEF PermitsConserved
<1>0. PermitsOf(o)
  BY DEF PermitsConserved
<1>1. ref[t] \in Objects /\ kind[ref[t]] = want[t] /\ want[t] \in {"Semaphore", "Event"}
  BY DEF TypedInv, TypedAccess, TypeInv, TypeOK, Kinds
<1>2. CASE o # ref[t]
  <2>1. semValue'[o] = semValue[o] /\ evtSet'[o] = evtSet[o] /\ credit'[o] = credit[o]
    BY <1>2 DEF Take, SemTake, EvtTake, TypeInv, TypeOK
  <2> QED
    BY <1>0, <2>1, PermitsFrame
<1>3. CASE o = ref[t] /\ want[t] = "Semaphore"
  <2>1. semValue[o] > 0
    BY <1>3 DEF Pred, SemPred
  <2>2. semValue'[o] = semValue[o] - 1 /\ credit'[o] = credit[o] - 1
    BY <1>3 DEF Take, SemTake, TypeInv, TypeOK
  <2>3. /\ semValue[o] \in Int /\ credit[o] \in Int /\ semMax[o] \in Int
        /\ kind[o] = "Semaphore"
    BY <1>1, <1>3 DEF TypeInv, TypeOK
  <2> QED
    BY <1>0, <2>1, <2>2, <2>3 DEF PermitsOf
<1>4. CASE o = ref[t] /\ want[t] = "Event"
  <2>1. evtSet[o]
    BY <1>4 DEF Pred, EvtPred
  <2>2. kind[o] = "Event" /\ credit[o] \in Int
    BY <1>1, <1>4 DEF TypeInv, TypeOK
  <2>3. credit'[o] = IF evtAuto[o] THEN credit[o] - 1 ELSE credit[o]
    BY <1>4 DEF Take, EvtTake, TypeInv, TypeOK
  <2>4. evtAuto[o] => ~evtSet'[o]
    BY <1>4, Zenon DEF Take, EvtTake, TypeInv, TypeOK
  <2> QED
    BY <1>0, <2>1, <2>2, <2>3, <2>4 DEF PermitsOf
<1> QED
  BY <1>1, <1>2, <1>3, <1>4

\* A new object starts with its own permits.
LEMMA AllocKeepsPermits ==
    ASSUME TypeInv, PermitsConserved, NEW t \in Threads, NEW o \in Objects,
           NEW k \in Kinds, Alloc(t, o, k), PermitsOf(o)',
           \A p \in Objects \ {o} :
               /\ semValue'[p] = semValue[p] /\ semMax'[p] = semMax[p]
               /\ evtSet'[p] = evtSet[p] /\ evtAuto'[p] = evtAuto[p]
               /\ credit'[p] = credit[p]
    PROVE  PermitsConserved'
<1> SUFFICES ASSUME NEW p \in Objects PROVE PermitsOf(p)'
  BY DEF PermitsConserved
<1>1. CASE p = o
  BY <1>1
<1>2. CASE p # o
  <2>1. kind'[p] = kind[p]
    BY <1>2 DEF Alloc, TypeInv, TypeOK
  <2> QED
    BY <1>2, <2>1, PermitsFrame DEF PermitsConserved
<1> QED
  BY <1>1, <1>2

\* The three constructors keep the permits of every object.
LEMMA CreateKeepsPermits ==
    ASSUME TypeInv, PermitsConserved, NEW t \in Threads, NEW o \in Objects
    PROVE  /\ \A max \in SemMaxes : \A initial \in 0 .. max :
                 CreateSemaphore(t, o, max, initial) => PermitsConserved'
           /\ \A a, s \in BOOLEAN : CreateEvent(t, o, a, s) => PermitsConserved'
           /\ \A r \in BOOLEAN : CreateMutex(t, o, r) => PermitsConserved'
<1> USE DEF TypeInv, TypeOK
<1>1. ASSUME NEW max \in SemMaxes, NEW initial \in 0 .. max,
             CreateSemaphore(t, o, max, initial)
      PROVE  PermitsConserved'
  <2>1. /\ kind'[o] = "Semaphore" /\ semValue'[o] = initial /\ semMax'[o] = max
        /\ credit'[o] = initial
    BY <1>1 DEF CreateSemaphore, Alloc, KSemaphore
  <2>2. PermitsOf(o)'
    BY <2>1, SyncAssumption DEF PermitsOf
  <2> QED
    BY <1>1, <2>2, AllocKeepsPermits DEF CreateSemaphore, KSemaphore, KEvent, Kinds
<1>2. ASSUME NEW a \in BOOLEAN, NEW s \in BOOLEAN, CreateEvent(t, o, a, s)
      PROVE  PermitsConserved'
  <2>1. /\ kind'[o] = "Event" /\ evtAuto'[o] = a /\ evtSet'[o] = s
        /\ credit'[o] = IF a /\ s THEN 1 ELSE 0
    BY <1>2 DEF CreateEvent, Alloc, KEvent
  <2>2. PermitsOf(o)'
    BY <2>1 DEF PermitsOf
  <2> QED
    BY <1>2, <2>2, AllocKeepsPermits DEF CreateEvent, KSemaphore, KEvent, Kinds
<1>3. ASSUME NEW r \in BOOLEAN, CreateMutex(t, o, r)
      PROVE  PermitsConserved'
  <2>1. kind'[o] = "Mutex"
    BY <1>3 DEF CreateMutex, Alloc
  <2>2. PermitsOf(o)'
    BY <2>1 DEF PermitsOf
  <2> QED
    BY <1>3, <2>2, AllocKeepsPermits DEF CreateMutex, KSemaphore, KEvent, Kinds
<1> QED
  BY <1>1, <1>2, <1>3

\* Every step keeps the permits: a signal issues what it adds, a granted wait
\* takes one, and nothing else writes a value or a flag except ClearEvent, which
\* only lowers it.
LEMMA NextKeepsPermits ==
    TypeInv /\ TypedInv /\ AsGiven /\ PermitsConserved /\ [Next]_vars
        => PermitsConserved'
<1> SUFFICES ASSUME TypeInv, TypedInv, AsGiven, PermitsConserved, [Next]_vars
             PROVE  PermitsConserved'
  OBVIOUS
<1>1. ASSUME UNCHANGED <<kind, semValue, semMax, evtAuto, evtSet, credit>>
      PROVE  PermitsConserved'
  BY <1>1 DEF PermitsConserved, PermitsOf
<1>2. ASSUME NEW t \in Threads, Call(t) PROVE PermitsConserved'
  <2>1. CASE \E o \in Objects :
                \/ \E max \in SemMaxes : \E initial \in 0 .. max :
                      CreateSemaphore(t, o, max, initial)
                \/ \E a, s \in BOOLEAN : CreateEvent(t, o, a, s)
                \/ \E r \in BOOLEAN : CreateMutex(t, o, r)
    BY <2>1, CreateKeepsPermits
  <2>2. CASE \E h \in Handles :
                \/ DuplicateHandle(t, h) \/ CloseHandle(t, h)
                \/ \E tm \in BOOLEAN : WaitSemaphore(t, h, tm) \/ WaitEvent(t, h, tm)
                \/ \E n \in Counts : SignalSemaphore(t, h, n)
                \/ SetEvent(t, h) \/ ClearEvent(t, h) \/ LockMutex(t, h)
                \/ TryLockMutex(t, h) \/ UnlockMutex(t, h)
    BY <1>1, <2>2 DEF DuplicateHandle, CloseHandle, WaitSemaphore, WaitEvent,
       SignalSemaphore, SetEvent, ClearEvent, LockMutex, TryLockMutex, UnlockMutex,
       Lookup, objVars
  <2> QED
    BY <1>2, <2>1, <2>2 DEF Call
<1>3. ASSUME NEW t \in Threads, Step(t) PROVE PermitsConserved'
  <2>1. CASE \/ InsertHandle(t) \/ NotifyAll(t) \/ MtxAcquire(t)
             \/ MtxTryFails(t) \/ MtxRelease(t)
    BY <1>1, <2>1 DEF InsertHandle, NotifyAll, MtxAcquire, MtxTryFails, MtxRelease,
       objVars
  <2>2. CASE CvEnter(t)
    <3>1. CASE Pred(t) /\ Take(t)
      BY <2>2, <3>1, TakeKeepsPermits DEF CvEnter, objVars
    <3>2. CASE UNCHANGED <<semValue, evtSet, credit>>
      BY <1>1, <2>2, <3>2 DEF CvEnter, objVars
    <3> QED
      BY <2>2, <3>1, <3>2 DEF CvEnter
  <2>3. CASE CvExpired(t)
    <3>1. CASE Pred(t) /\ Take(t)
      BY <2>3, <3>1, TakeKeepsPermits DEF CvExpired, objVars
    <3>2. CASE UNCHANGED <<semValue, evtSet, credit>>
      BY <1>1, <2>3, <3>2 DEF CvExpired, objVars
    <3> QED
      BY <2>3, <3>1, <3>2 DEF CvExpired
  <2>4. CASE SemPost(t)
    <3> SUFFICES ASSUME NEW o \in Objects PROVE PermitsOf(o)'
      BY DEF PermitsConserved
    <3>0. PermitsOf(o)
      BY DEF PermitsConserved
    <3>1. ref[t] \in Objects /\ kind[ref[t]] = "Semaphore"
      BY <2>4 DEF SemPost, TypedInv, TypedAccess, SignalKinds
    <3>2. CASE o # ref[t]
      <4>1. semValue'[o] = semValue[o] /\ credit'[o] = credit[o]
        BY <2>4, <3>2 DEF SemPost, TypeInv, TypeOK
      <4> QED
        BY <2>4, <3>0, <4>1, PermitsFrame DEF SemPost, objVars
    <3>3. CASE o = ref[t]
      <4> DEFINE v == Int32(semValue[o] + arg[t])
      <4>1. credit'[o] = credit[o] + arg[t]
        BY <2>4, <3>1, <3>3 DEF SemPost, TypeInv, TypeOK
      <4>2. semValue'[o] = IF v > semMax[o] THEN semMax[o] ELSE v
        BY <2>4, <3>1, <3>3 DEF SemPost, TypeInv, TypeOK
      <4>3. /\ semValue[o] \in Int /\ credit[o] \in Int /\ semMax[o] \in Nat
            /\ arg[t] \in Nat
        BY DEF TypeInv, TypeOK
      <4>4. kind'[o] = "Semaphore" /\ semMax'[o] = semMax[o] /\ kind[o] = "Semaphore"
        BY <2>4, <3>1, <3>3 DEF SemPost, objVars
      <4>5. v \in Int /\ v <= semValue[o] + arg[t]
        BY <4>3, Int32Below
      <4>6. ASSUME Fits(semMax[o]) PROVE v >= 0
        <5>1. arg[t] \in Counts
          BY <2>4 DEF SemPost, AsGiven
        <5>2. semValue[o] + arg[t] <= IntMax
          BY <3>0, <4>3, <4>4, <4>6, <5>1, SyncAssumption DEF Fits, PermitsOf
        <5> QED
          BY <3>0, <4>3, <4>4, <4>6, <5>2, Int32Below DEF PermitsOf
      <4> HIDE DEF v
      <4>7. semValue'[o] <= semMax[o] /\ semValue'[o] <= v
        BY <4>2, <4>3, <4>5
      <4>8. Fits(semMax[o]) => semValue'[o] >= 0
        BY <4>2, <4>3, <4>6
      <4>9. semValue'[o] \in Int
        BY <4>2, <4>3, <4>5
      <4> QED
        BY <3>0, <4>1, <4>3, <4>4, <4>5, <4>7, <4>8, <4>9 DEF PermitsOf
    <3> QED
      BY <3>2, <3>3
  <2>5. CASE EvtPost(t)
    <3> SUFFICES ASSUME NEW o \in Objects PROVE PermitsOf(o)'
      BY DEF PermitsConserved
    <3>0. PermitsOf(o)
      BY DEF PermitsConserved
    <3>1. ref[t] \in Objects /\ kind[ref[t]] = "Event"
      BY <2>5 DEF EvtPost, TypedInv, TypedAccess, SignalKinds
    <3>2. CASE o # ref[t]
      <4>1. evtSet'[o] = evtSet[o] /\ credit'[o] = credit[o]
        BY <2>5, <3>2 DEF EvtPost, TypeInv, TypeOK
      <4> QED
        BY <2>5, <3>0, <4>1, PermitsFrame DEF EvtPost, objVars
    <3>3. CASE o = ref[t]
      <4>1. credit'[o] = IF evtAuto[o] THEN credit[o] + 1 ELSE credit[o]
        BY <2>5, <3>1, <3>3 DEF EvtPost, TypeInv, TypeOK
      <4>2. credit[o] \in Int
        BY DEF TypeInv, TypeOK
      <4>3. kind'[o] = "Event" /\ evtAuto'[o] = evtAuto[o] /\ kind[o] = "Event"
        BY <2>5, <3>1, <3>3 DEF EvtPost, objVars
      <4> QED
        BY <3>0, <4>1, <4>2, <4>3 DEF PermitsOf
    <3> QED
      BY <3>2, <3>3
  <2>6. CASE EvtClear(t)
    <3> SUFFICES ASSUME NEW o \in Objects PROVE PermitsOf(o)'
      BY DEF PermitsConserved
    <3>1. evtSet'[o] => evtSet[o]
      BY <2>6 DEF EvtClear, TypeInv, TypeOK
    <3> QED
      BY <2>6, <3>1 DEF EvtClear, objVars, PermitsConserved, PermitsOf
  <2> QED
    BY <1>3, <2>1, <2>2, <2>3, <2>4, <2>5, <2>6 DEF Step
<1>4. ASSUME NEW t \in Threads, CvSpurious(t) \/ CvTimeout(t) PROVE PermitsConserved'
  BY <1>1, <1>4 DEF CvSpurious, CvTimeout, objVars
<1>5. CASE Reset \/ KernelInit \/ UNCHANGED vars
  BY <1>1, <1>5 DEF Reset, KernelInit, vars, objVars
<1> QED
  BY <1>2, <1>3, <1>4, <1>5 DEF Next

\* Neither semaphores nor auto-reset events grant more waits than they were
\* signalled for, though sums wrap; a semaphore never goes above its maximum, and
\* never below zero if its maximum leaves room for a count (SignalSemaphore,
\* SetEvent, WaitSemaphore, WaitEvent).
THEOREM PermitsCorrect == Spec => []PermitsConserved
<1>1. Init => TypeInv /\ TypedInv /\ AsGiven /\ PermitsConserved
  BY InitTyped DEF Init, TypedInv, TypedAccess, SignalKinds, AsGiven, PermitsConserved,
     PermitsOf
<1>2. TypeInv /\ TypedInv /\ AsGiven /\ PermitsConserved /\ [Next]_vars
        => TypeInv' /\ TypedInv' /\ AsGiven' /\ PermitsConserved'
  BY NextTyped, NextKeepsTyped, NextKeepsGiven, NextKeepsPermits
<1> QED
  BY <1>1, <1>2, PTL DEF Spec

-----------------------------------------------------------------------------
(* Mutexes exclude.                                                        *)

\* Every step keeps mutexes exclusive: a lock is granted only when no other
\* thread owns it, and released only by its owner.
LEMMA NextKeepsExclusion ==
    TypeInv /\ MutualExclusion /\ [Next]_vars => MutualExclusion'
<1> SUFFICES ASSUME TypeInv, MutualExclusion, [Next]_vars PROVE MutualExclusion'
  OBVIOUS
<1> USE DEF TypeInv, TypeOK
<1>1. ASSUME UNCHANGED <<hold, mtxRec>> PROVE MutualExclusion'
  BY <1>1 DEF MutualExclusion
<1>2. ASSUME NEW t \in Threads, NEW o \in Objects, NEW k \in Kinds, NEW r \in BOOLEAN,
             Alloc(t, o, k), KMutex(o, r)
      PROVE  MutualExclusion'
  BY <1>2 DEF Alloc, KMutex, MutualExclusion
<1>3. ASSUME NEW t \in Threads, Call(t) PROVE MutualExclusion'
  <2>1. CASE \E o \in Objects :
                \/ \E max \in SemMaxes : \E initial \in 0 .. max :
                      CreateSemaphore(t, o, max, initial)
                \/ \E a, s \in BOOLEAN : CreateEvent(t, o, a, s)
                \/ \E r \in BOOLEAN : CreateMutex(t, o, r)
    <3>1. PICK o \in Objects :
                \/ \E max \in SemMaxes : \E initial \in 0 .. max :
                      CreateSemaphore(t, o, max, initial)
                \/ \E a, s \in BOOLEAN : CreateEvent(t, o, a, s)
                \/ \E r \in BOOLEAN : CreateMutex(t, o, r)
      BY <2>1
    <3>2. \E k \in Kinds : \E r \in BOOLEAN : Alloc(t, o, k) /\ KMutex(o, r)
      BY <3>1 DEF CreateSemaphore, CreateEvent, CreateMutex, Kinds
    <3> QED
      BY <1>2, <3>2
  <2>2. CASE \E h \in Handles :
                \/ DuplicateHandle(t, h) \/ CloseHandle(t, h)
                \/ \E tm \in BOOLEAN : WaitSemaphore(t, h, tm) \/ WaitEvent(t, h, tm)
                \/ \E n \in Counts : SignalSemaphore(t, h, n)
                \/ SetEvent(t, h) \/ ClearEvent(t, h) \/ LockMutex(t, h)
                \/ TryLockMutex(t, h) \/ UnlockMutex(t, h)
    BY <1>1, <2>2 DEF DuplicateHandle, CloseHandle, WaitSemaphore, WaitEvent,
       SignalSemaphore, SetEvent, ClearEvent, LockMutex, TryLockMutex, UnlockMutex,
       Lookup, objVars, heldVars
  <2> QED
    BY <1>3, <2>1, <2>2 DEF Call
<1>4. ASSUME NEW t \in Threads, MtxAcquire(t) PROVE MutualExclusion'
  <2>1. ref[t] \in Objects /\ Lockable(t, ref[t]) /\ mtxRec' = mtxRec
    BY <1>4 DEF MtxAcquire, InCall, objVars
  <2>2. \A o \in Objects : \A u \in Threads :
            hold'[o][u] = IF o = ref[t] /\ u = t THEN hold[o][u] + 1 ELSE hold[o][u]
    BY <1>4, <2>1 DEF MtxAcquire
  <2> SUFFICES ASSUME NEW o \in Objects, NEW u \in Threads, hold'[o][u] > 0
               PROVE  /\ \A v \in Threads \ {u} : hold'[o][v] = 0
                      /\ ~mtxRec'[o] => hold'[o][u] = 1
    BY DEF MutualExclusion
  <2>3. \A v \in Threads : hold[o][v] \in Nat
    OBVIOUS
  <2>4. CASE o # ref[t]
    BY <2>1, <2>2, <2>4 DEF MutualExclusion
  <2>5. CASE o = ref[t] /\ u = t
    BY <2>1, <2>2, <2>3, <2>5 DEF Lockable
  <2>6. CASE o = ref[t] /\ u # t
    BY <2>1, <2>2, <2>6 DEF Lockable
  <2> QED
    BY <2>4, <2>5, <2>6
<1>5. ASSUME NEW t \in Threads, MtxRelease(t) PROVE MutualExclusion'
  <2>1. ref[t] \in Objects /\ hold[ref[t]][t] > 0 /\ mtxRec' = mtxRec
    BY <1>5 DEF MtxRelease, UnlockOwned, objVars
  <2>2. \A o \in Objects : \A u \in Threads :
            hold'[o][u] = IF o = ref[t] /\ u = t THEN hold[o][u] - 1 ELSE hold[o][u]
    BY <1>5, <2>1 DEF MtxRelease
  <2> SUFFICES ASSUME NEW o \in Objects, NEW u \in Threads, hold'[o][u] > 0
               PROVE  /\ \A v \in Threads \ {u} : hold'[o][v] = 0
                      /\ ~mtxRec'[o] => hold'[o][u] = 1
    BY DEF MutualExclusion
  <2>3. \A v \in Threads : hold[o][v] \in Nat
    OBVIOUS
  <2>4. CASE o # ref[t]
    BY <2>1, <2>2, <2>4 DEF MutualExclusion
  <2>5. CASE o = ref[t]
    <3>1. \A v \in Threads \ {t} : hold[o][v] = 0 /\ (~mtxRec[o] => hold[o][t] = 1)
      BY <2>1, <2>5 DEF MutualExclusion
    <3> QED
      BY SMTT(40), <2>1, <2>2, <2>3, <2>5, <3>1 DEF MutualExclusion
  <2> QED
    BY <2>4, <2>5
<1>6. ASSUME NEW t \in Threads,
             \/ InsertHandle(t) \/ CvEnter(t) \/ CvExpired(t) \/ SemPost(t)
             \/ EvtPost(t) \/ EvtClear(t) \/ NotifyAll(t) \/ MtxTryFails(t)
             \/ CvSpurious(t) \/ CvTimeout(t)
      PROVE  MutualExclusion'
  BY <1>1, <1>6 DEF InsertHandle, CvEnter, CvExpired, SemPost, EvtPost, EvtClear,
     NotifyAll, MtxTryFails, CvSpurious, CvTimeout, objVars, heldVars
<1>7. ASSUME Reset \/ KernelInit \/ UNCHANGED vars PROVE MutualExclusion'
  BY <1>1, <1>7 DEF Reset, KernelInit, vars, objVars, heldVars
<1> QED
  BY <1>3, <1>4, <1>5, <1>6, <1>7 DEF Next, Step

\* At most one thread owns a mutex, and a non-recursive one is owned once
\* (LockMutex, TryLockMutex, UnlockMutex), also when its handle is closed or its
\* number reused meanwhile.
THEOREM MutexesExclude == Spec => []MutualExclusion
<1>1. Init => TypeInv /\ MutualExclusion
  BY InitTyped DEF Init, MutualExclusion
<1>2. TypeInv /\ MutualExclusion /\ [Next]_vars => TypeInv' /\ MutualExclusion'
  BY NextTyped, NextKeepsExclusion
<1> QED
  BY <1>1, <1>2, PTL DEF Spec

-----------------------------------------------------------------------------
(* Handles are stable.                                                     *)

\* Numbers in use were drawn from nextHandle; a number drawn by an Alloc that
\* has not inserted it yet is free, and no two Allocs hold the same one.
HandleInv ==
    /\ \A h \in Handles : table[h] # NoObj => h < nextHandle
    /\ \A t \in Threads : pc[t] = "alloc" =>
          arg[t] \in Handles /\ arg[t] < nextHandle /\ table[arg[t]] = NoObj
    /\ \A t, u \in Threads :
          t # u /\ pc[t] = "alloc" /\ pc[u] = "alloc" => arg[t] # arg[u]

\* A step that draws no number and inserts nothing keeps the numbers apart.
LEMMA HandlesFrame ==
    ASSUME TypeInv, HandleInv, nextHandle' = nextHandle,
           \A h \in Handles : table'[h] \in {table[h], NoObj},
           \A u \in Threads : pc'[u] = "alloc" => pc[u] = "alloc" /\ arg'[u] = arg[u]
    PROVE  HandleInv'
BY DEF HandleInv, TypeInv, TypeOK

\* A constructor draws a number nobody has.
LEMMA AllocKeepsHandles ==
    ASSUME TypeInv, HandleInv, NEW t \in Threads, NEW o \in Objects, NEW k \in Kinds,
           Alloc(t, o, k)
    PROVE  HandleInv' /\ table' = table
<1>1. nextHandle \in Handles /\ nextHandle' = nextHandle + 1 /\ table' = table
  BY SyncAssumption DEF Alloc, Handles, TypeInv, TypeOK
<1>2. /\ arg'[t] = nextHandle /\ pc'[t] = "alloc"
      /\ \A u \in Threads \ {t} : pc'[u] = pc[u] /\ arg'[u] = arg[u]
  BY DEF Alloc, TypeInv, TypeOK
<1>3. table[nextHandle] = NoObj
  BY <1>1 DEF HandleInv, Handles, TypeInv, TypeOK
<1>4. \A h \in Handles : h \in Int
  BY SyncAssumption DEF Handles
<1>5. nextHandle \in Int
  BY DEF TypeInv, TypeOK
<1>6. \A h \in Handles : table'[h] # NoObj => h < nextHandle'
  BY <1>1, <1>4, <1>5 DEF HandleInv
<1>7. \A u \in Threads : pc'[u] = "alloc" =>
          arg'[u] \in Handles /\ arg'[u] < nextHandle' /\ table'[arg'[u]] = NoObj
  <2> SUFFICES ASSUME NEW u \in Threads, pc'[u] = "alloc"
               PROVE  /\ arg'[u] \in Handles /\ arg'[u] < nextHandle'
                      /\ table'[arg'[u]] = NoObj
    OBVIOUS
  <2>1. CASE u = t
    BY <1>1, <1>2, <1>3, <1>5, <2>1
  <2>2. CASE u # t
    <3>1. /\ arg'[u] = arg[u] /\ arg[u] \in Handles /\ arg[u] < nextHandle
          /\ table[arg[u]] = NoObj
      BY <1>2, <2>2 DEF HandleInv
    <3>2. arg[u] \in Int
      BY <1>4, <3>1
    <3> QED
      BY <1>1, <1>5, <3>1, <3>2
  <2> QED
    BY <2>1, <2>2
<1>8. \A u \in Threads \ {t} : pc'[u] = "alloc" => arg'[u] # arg'[t]
  BY <1>2, <1>4, <1>5 DEF HandleInv
<1>9. \A u, v \in Threads :
          u # v /\ pc'[u] = "alloc" /\ pc'[v] = "alloc" => arg'[u] # arg'[v]
  BY <1>2, <1>8 DEF HandleInv
<1> QED
  BY <1>1, <1>6, <1>7, <1>9 DEF HandleInv

\* Every step keeps the numbers apart and writes no handle that is in use.
LEMMA NextKeepsHandles ==
    ASSUME TypeInv, HandleInv, [Next]_vars
    PROVE  /\ HandleInv'
           /\ \A h \in Handles : table[h] # NoObj => table'[h] \in {table[h], NoObj}
<1> DEFINE Goal == /\ HandleInv'
                   /\ \A h \in Handles :
                         table[h] # NoObj => table'[h] \in {table[h], NoObj}
<1> SUFFICES Goal
  OBVIOUS
<1> USE DEF TypeInv, TypeOK
<1>1. ASSUME nextHandle' = nextHandle,
             \A h \in Handles : table'[h] \in {table[h], NoObj},
             \A u \in Threads :
                 pc'[u] = "alloc" => pc[u] = "alloc" /\ arg'[u] = arg[u]
      PROVE  Goal
  BY <1>1, HandlesFrame
<1>2. ASSUME NEW t \in Threads, Call(t) PROVE Goal
  <2>1. CASE \E o \in Objects :
                \/ \E max \in SemMaxes : \E initial \in 0 .. max :
                      CreateSemaphore(t, o, max, initial)
                \/ \E a, s \in BOOLEAN : CreateEvent(t, o, a, s)
                \/ \E r \in BOOLEAN : CreateMutex(t, o, r)
    BY <2>1, AllocKeepsHandles DEF CreateSemaphore, CreateEvent, CreateMutex, Kinds
  <2>2. ASSUME NEW h \in Handles, DuplicateHandle(t, h) PROVE Goal
    <3>1. /\ nextHandle \in Handles /\ nextHandle' = nextHandle + 1
          /\ table' = [table EXCEPT ![nextHandle] = table[h]]
          /\ UNCHANGED <<pc, arg>>
      BY <2>2, SyncAssumption DEF DuplicateHandle, Handles, callVars
    <3>2. table[nextHandle] = NoObj
      BY <3>1 DEF HandleInv, Handles
    <3>3. \A g \in Handles : g \in Int
      BY SyncAssumption DEF Handles
    <3> QED
      BY <3>1, <3>2, <3>3 DEF HandleInv
  <2>3. ASSUME NEW h \in Handles, CloseHandle(t, h) PROVE Goal
    BY <1>1, <2>3 DEF CloseHandle, callVars
  <2>4. ASSUME NEW h \in Handles, NEW k \in Kinds, NEW step \in Labels \ {"alloc"},
               Lookup(t, h, k, step), arg' = [arg EXCEPT ![t] = arg'[t]]
        PROVE  Goal
    BY <1>1, <2>4 DEF Lookup
  <2>5. ASSUME NEW h \in Handles,
               \/ \E tm \in BOOLEAN : WaitSemaphore(t, h, tm) \/ WaitEvent(t, h, tm)
               \/ \E n \in Counts : SignalSemaphore(t, h, n)
               \/ SetEvent(t, h) \/ ClearEvent(t, h) \/ LockMutex(t, h)
               \/ TryLockMutex(t, h) \/ UnlockMutex(t, h)
        PROVE  Goal
    BY <2>4, <2>5 DEF WaitSemaphore, WaitEvent, SignalSemaphore, SetEvent, ClearEvent,
       LockMutex, TryLockMutex, UnlockMutex, Kinds, Labels
  <2> QED
    BY <1>2, <2>1, <2>2, <2>3, <2>5 DEF Call
<1>3. ASSUME NEW t \in Threads, InsertHandle(t) PROVE Goal
  <2>1. /\ pc[t] = "alloc" /\ arg[t] \in Handles /\ arg[t] < nextHandle
        /\ table[arg[t]] = NoObj
    BY <1>3 DEF InsertHandle, HandleInv
  <2>2. /\ table' = [table EXCEPT ![arg[t]] = ref[t]] /\ nextHandle' = nextHandle
        /\ pc' = [pc EXCEPT ![t] = "idle"] /\ arg' = [arg EXCEPT ![t] = 0]
    BY <1>3 DEF InsertHandle, Return
  <2> QED
    BY <2>1, <2>2 DEF HandleInv
<1>4. ASSUME NEW t \in Threads, Return(t), UNCHANGED <<table, nextHandle>> PROVE Goal
  BY <1>1, <1>4 DEF Return
<1>5. ASSUME NEW t \in Threads, NEW step \in Labels \ {"alloc"},
             pc' = [pc EXCEPT ![t] = step], UNCHANGED <<arg, table, nextHandle>>
      PROVE  Goal
  BY <1>1, <1>5
<1>6. ASSUME NEW t \in Threads,
             \/ CvEnter(t) \/ CvExpired(t) \/ SemPost(t) \/ EvtPost(t) \/ EvtClear(t)
             \/ MtxAcquire(t) \/ MtxTryFails(t) \/ MtxRelease(t)
             \/ CvSpurious(t) \/ CvTimeout(t)
      PROVE  Goal
  BY <1>4, <1>5, <1>6 DEF CvEnter, CvExpired, SemPost, EvtPost, EvtClear, MtxAcquire,
     MtxTryFails, MtxRelease, CvSpurious, CvTimeout, Labels
<1>7. ASSUME NEW t \in Threads, NotifyAll(t) PROVE Goal
  BY <1>1, <1>7 DEF NotifyAll
<1>8. CASE Reset
  BY <1>1, <1>8 DEF Reset, callVars
<1>9. CASE KernelInit
  BY <1>9 DEF KernelInit, callVars, HandleInv
<1>10. CASE UNCHANGED vars
  BY <1>1, <1>10 DEF vars
<1> QED
  BY <1>2, <1>3, <1>6, <1>7, <1>8, <1>9, <1>10 DEF Next, Step

\* A handle in use is never overwritten with another object: a number drawn by
\* fetch_add outside the lock is inserted before anybody else can have it, and
\* DuplicateHandle draws from the same counter.
THEOREM HandlesStable == Spec => HandleStable
<1> DEFINE Kept == \A h \in Handles : table[h] # NoObj => table'[h] \in {table[h], NoObj}
<1>1. Init => TypeInv /\ HandleInv
  BY InitTyped DEF Init, HandleInv
<1>2. TypeInv /\ HandleInv /\ [Next]_vars => TypeInv' /\ HandleInv' /\ [Kept]_vars
  BY NextTyped, NextKeepsHandles
<1> QED
  BY <1>1, <1>2, PTL DEF Spec, HandleStable
-----------------------------------------------------------------------------
(* The objects are atomic.  The critical section of a call is the moment   *)
(* it takes effect: it is a step of AtomicObjects, and the look-up, the    *)
(* sleeps, the notification and the return are stutters.                   *)

\* No signal under way carries its semaphore past INT32_MAX.
SumsFit ==
    \A t \in Threads : pc[t] = "post" => semValue[ref[t]] + arg[t] <= IntMax

\* Writing one object and leaving the others is a step of that object.
LEMMA BecomesStep ==
    ASSUME NEW o \in Objects, NEW x, ObjectOf(o)' = x,
           \A p \in Objects \ {o} : ObjectOf(p)' = ObjectOf(p)
    PROVE  Atomic!Becomes(o, x)
BY DEF Atomic!Becomes

\* An object no part of which is written is the same object.
LEMMA SameObject ==
    ASSUME NEW o \in Objects,
           kind'[o] = kind[o], semValue'[o] = semValue[o], semMax'[o] = semMax[o],
           evtAuto'[o] = evtAuto[o], evtSet'[o] = evtSet[o],
           mtxRec'[o] = mtxRec[o], hold'[o] = hold[o]
    PROVE  ObjectOf(o)' = ObjectOf(o)
BY DEF ObjectOf

\* A step that writes no object is a stutter.
LEMMA SameObjects ==
    ASSUME UNCHANGED <<objVars, semValue, evtSet, heldVars>>
    PROVE  UNCHANGED [o \in Objects |-> ObjectOf(o)]
BY DEF ObjectOf, objVars, heldVars

\* The one thread that has locked a mutex is its owner, at its count.
LEMMA OwnerAlone ==
    ASSUME NEW counts \in [Threads -> Nat], NEW t \in Threads, counts[t] > 0,
           \A u \in Threads \ {t} : counts[u] = 0
    PROVE  Owner(counts) = {t} /\ Depth(counts) = counts[t]
<1>1. Owner(counts) = {t}
  BY DEF Owner
<1> QED
  BY <1>1 DEF Depth

LEMMA OwnerNone ==
    ASSUME NEW counts \in [Threads -> Nat], \A u \in Threads : counts[u] = 0
    PROVE  Owner(counts) = {} /\ Depth(counts) = 0
BY DEF Owner, Depth

\* A constructor creates an object in the state it was asked for.
LEMMA CreateIsCreate ==
    ASSUME TypeInv, NEW t \in Threads, NEW o \in Objects,
           \/ \E max \in SemMaxes : \E initial \in 0 .. max :
                 CreateSemaphore(t, o, max, initial)
           \/ \E a, s \in BOOLEAN : CreateEvent(t, o, a, s)
           \/ \E r \in BOOLEAN : CreateMutex(t, o, r)
    PROVE  Atomic!Next
<1> USE DEF TypeInv, TypeOK
<1>0. ASSUME NEW k \in Kinds, NEW max, NEW initial, NEW a, NEW s, NEW r,
             Alloc(t, o, k), KSemaphore(o, max, initial), KEvent(o, a, s), KMutex(o, r)
      PROVE  /\ \A p \in Objects \ {o} : ObjectOf(p)' = ObjectOf(p)
             /\ kind'[o] = k /\ semMax'[o] = max /\ semValue'[o] = initial
             /\ evtAuto'[o] = a /\ evtSet'[o] = s /\ mtxRec'[o] = r
             /\ hold'[o] = [u \in Threads |-> 0]
  <2>1. \A p \in Objects \ {o} :
            /\ kind'[p] = kind[p] /\ semValue'[p] = semValue[p] /\ semMax'[p] = semMax[p]
            /\ evtAuto'[p] = evtAuto[p] /\ evtSet'[p] = evtSet[p]
            /\ mtxRec'[p] = mtxRec[p] /\ hold'[p] = hold[p]
    BY <1>0 DEF Alloc, KSemaphore, KEvent, KMutex
  <2> QED
    BY <1>0, <2>1, SameObject DEF Alloc, KSemaphore, KEvent, KMutex
<1>1. ASSUME NEW max \in SemMaxes, NEW initial \in 0 .. max,
             CreateSemaphore(t, o, max, initial)
      PROVE  Atomic!Create(o)
  <2>1. /\ \A p \in Objects \ {o} : ObjectOf(p)' = ObjectOf(p)
        /\ kind'[o] = "Semaphore" /\ semMax'[o] = max /\ semValue'[o] = initial
    BY <1>0, <1>1 DEF CreateSemaphore, Kinds
  <2>2. ObjectOf(o)' = Atomic!Semaphore(max, initial)
    BY <2>1 DEF ObjectOf, Atomic!Semaphore
  <2> QED
    BY <2>1, <2>2, BecomesStep DEF Atomic!Create
<1>2. ASSUME NEW a \in BOOLEAN, NEW s \in BOOLEAN, CreateEvent(t, o, a, s)
      PROVE  Atomic!Create(o)
  <2>1. /\ \A p \in Objects \ {o} : ObjectOf(p)' = ObjectOf(p)
        /\ kind'[o] = "Event" /\ evtAuto'[o] = a /\ evtSet'[o] = s
    BY <1>0, <1>2 DEF CreateEvent, Kinds
  <2>2. ObjectOf(o)' = Atomic!Event(a, s)
    BY <2>1 DEF ObjectOf, Atomic!Event
  <2> QED
    BY <2>1, <2>2, BecomesStep DEF Atomic!Create
<1>3. ASSUME NEW r \in BOOLEAN, CreateMutex(t, o, r)
      PROVE  Atomic!Create(o)
  <2>1. /\ \A p \in Objects \ {o} : ObjectOf(p)' = ObjectOf(p)
        /\ kind'[o] = "Mutex" /\ mtxRec'[o] = r /\ hold'[o] = [u \in Threads |-> 0]
    BY <1>0, <1>3 DEF CreateMutex, Kinds
  <2>2. Owner(hold'[o]) = {} /\ Depth(hold'[o]) = 0
    BY <2>1, OwnerNone
  <2>3. ObjectOf(o)' = Atomic!Mutex(r, {}, 0)
    BY <2>1, <2>2 DEF ObjectOf, Atomic!Mutex
  <2> QED
    BY <2>1, <2>3, BecomesStep DEF Atomic!Create
<1> QED
  BY <1>1, <1>2, <1>3 DEF Atomic!Next

\* A wait that is let through takes one unit of its semaphore, or sees its event
\* set.
LEMMA TakeIsWait ==
    ASSUME TypeInv, TypedInv, NEW t \in Threads, pc[t] \in {"enter", "expired"},
           Pred(t), Take(t), UNCHANGED <<objVars, heldVars>>
    PROVE  Atomic!Next
<1> USE DEF TypeInv, TypeOK
<1>1. PICK o \in Objects : o = ref[t] /\ kind[o] = want[t] /\ want[t] \in {"Semaphore", "Event"}
  BY DEF TypedInv, TypedAccess, Kinds
<1>2. CASE want[t] = "Semaphore"
  <2>1. semValue' = [semValue EXCEPT ![o] = @ - 1] /\ evtSet' = evtSet /\ semValue[o] > 0
    BY <1>1, <1>2 DEF Take, SemTake, Pred, SemPred
  <2>2. \A p \in Objects \ {o} : ObjectOf(p)' = ObjectOf(p)
    BY <2>1, SameObject DEF objVars, heldVars
  <2>3. ObjectOf(o) = [kind |-> "Semaphore", max |-> semMax[o], value |-> semValue[o]]
    BY <1>1, <1>2 DEF ObjectOf
  <2>4. ObjectOf(o)' = [kind |-> "Semaphore", max |-> semMax[o], value |-> semValue[o] - 1]
    BY <1>1, <1>2, <2>1 DEF ObjectOf, objVars
  <2>5. ObjectOf(o)' = [ObjectOf(o) EXCEPT !.value = @ - 1]
    BY <2>3, <2>4
  <2>6. Atomic!Is(o, "Semaphore") /\ ObjectOf(o).value > 0
    BY <2>1, <2>3 DEF Atomic!Is
  <2>7. Atomic!Wait(o)
    BY <2>2, <2>5, <2>6 DEF Atomic!Wait, Atomic!Becomes
  <2> QED
    BY <2>7 DEF Atomic!Next
<1>3. CASE want[t] = "Event"
  <2>1. evtSet' = [evtSet EXCEPT ![o] = @ /\ ~evtAuto[o]] /\ semValue' = semValue /\ evtSet[o]
    BY <1>1, <1>3 DEF Take, EvtTake, Pred, EvtPred
  <2>2. \A p \in Objects \ {o} : ObjectOf(p)' = ObjectOf(p)
    BY <2>1, SameObject DEF objVars, heldVars
  <2>3. ObjectOf(o) = [kind |-> "Event", auto |-> evtAuto[o], set |-> evtSet[o]]
    BY <1>1, <1>3 DEF ObjectOf
  <2>4. ObjectOf(o)' = [kind |-> "Event", auto |-> evtAuto[o], set |-> ~evtAuto[o]]
    <3>1. evtSet'[o] = ~evtAuto[o]
      BY <2>1
    <3> QED
      BY <1>1, <1>3, <3>1 DEF ObjectOf, objVars
  <2>5. ObjectOf(o)' = [ObjectOf(o) EXCEPT !.set = ~ObjectOf(o).auto]
    BY <2>3, <2>4
  <2>6. Atomic!Is(o, "Event") /\ ObjectOf(o).set
    BY <2>1, <2>3 DEF Atomic!Is
  <2>7. Atomic!Await(o)
    BY <2>2, <2>5, <2>6 DEF Atomic!Await, Atomic!Becomes
  <2> QED
    BY <2>7 DEF Atomic!Next
<1> QED
  BY <1>1, <1>2, <1>3

\* A sum that fits is the one the semaphore is clamped from.
LEMMA PostIsSignal ==
    ASSUME SumsFit, TypeInv, TypedInv, AsGiven, NEW t \in Threads, SemPost(t)
    PROVE  Atomic!Next
<1> USE DEF TypeInv, TypeOK
<1>1. PICK o \in Objects : o = ref[t] /\ kind[o] = "Semaphore"
  BY DEF SemPost, TypedInv, TypedAccess, SignalKinds
<1>2. PICK n \in Counts : n = arg[t]
  BY DEF SemPost, AsGiven
<1>3. Int32(semValue[o] + n) = semValue[o] + n
  <2>1. semValue[o] + n \in Int /\ semValue[o] + n <= IntMax
    BY <1>1, <1>2, SyncAssumption DEF SemPost, SumsFit
  <2> QED
    BY <2>1, Int32Below
<1> DEFINE v == semValue[o] + n
<1>4. /\ semValue' = [semValue EXCEPT ![o] = IF v > semMax[o] THEN semMax[o] ELSE v]
      /\ UNCHANGED <<objVars, evtSet, heldVars>>
  BY <1>1, <1>2, <1>3 DEF SemPost
<1>5. \A p \in Objects \ {o} : ObjectOf(p)' = ObjectOf(p)
  BY <1>4, SameObject DEF objVars, heldVars
<1>6. ObjectOf(o) = [kind |-> "Semaphore", max |-> semMax[o], value |-> semValue[o]]
  BY <1>1 DEF ObjectOf
<1>7. ObjectOf(o)' = [kind |-> "Semaphore", max |-> semMax[o],
                      value |-> IF v > semMax[o] THEN semMax[o] ELSE v]
  <2>1. semValue'[o] = IF v > semMax[o] THEN semMax[o] ELSE v
    BY <1>4
  <2> QED
    BY <1>1, <1>4, <2>1 DEF ObjectOf, objVars
<1>8. ObjectOf(o)' = [ObjectOf(o) EXCEPT !.value =
                         IF ObjectOf(o).value + n > ObjectOf(o).max
                         THEN ObjectOf(o).max ELSE ObjectOf(o).value + n]
  BY <1>6, <1>7
<1>9. Atomic!Is(o, "Semaphore")
  BY <1>6 DEF Atomic!Is
<1>10. Atomic!Signal(o, n)
  BY <1>5, <1>8, <1>9 DEF Atomic!Signal, Atomic!Becomes
<1> QED
  BY <1>10 DEF Atomic!Next

\* SetEvent and ClearEvent write the event and nothing else.
LEMMA WriteIsSet ==
    ASSUME TypeInv, TypedInv, NEW t \in Threads, EvtPost(t) \/ EvtClear(t)
    PROVE  Atomic!Next
<1> USE DEF TypeInv, TypeOK
<1>1. PICK o \in Objects : o = ref[t] /\ kind[o] = "Event"
  BY DEF EvtPost, EvtClear, TypedInv, TypedAccess, SignalKinds
<1>2. PICK set \in BOOLEAN : evtSet' = [evtSet EXCEPT ![o] = set]
  BY <1>1 DEF EvtPost, EvtClear
<1>3. UNCHANGED <<objVars, semValue, heldVars>>
  BY DEF EvtPost, EvtClear
<1>4. \A p \in Objects \ {o} : ObjectOf(p)' = ObjectOf(p)
  BY <1>2, <1>3, SameObject DEF objVars, heldVars
<1>5. ObjectOf(o) = [kind |-> "Event", auto |-> evtAuto[o], set |-> evtSet[o]]
  BY <1>1 DEF ObjectOf
<1>6. ObjectOf(o)' = [kind |-> "Event", auto |-> evtAuto[o], set |-> set]
  BY <1>1, <1>2, <1>3 DEF ObjectOf, objVars
<1>7. ObjectOf(o)' = [ObjectOf(o) EXCEPT !.set = set] /\ Atomic!Is(o, "Event")
  BY <1>5, <1>6 DEF Atomic!Is
<1>8. Atomic!Set(o, set)
  BY <1>4, <1>7 DEF Atomic!Set, Atomic!Becomes
<1> QED
  BY <1>8 DEF Atomic!Next

\* A mutex is had by the thread that found it free, or its own and recursive.
LEMMA AcquireIsLock ==
    ASSUME TypeInv, TypedInv, NEW t \in Threads, MtxAcquire(t)
    PROVE  Atomic!Next
<1> USE DEF TypeInv, TypeOK
<1>1. PICK o \in Objects : o = ref[t] /\ kind[o] = "Mutex"
  BY DEF MtxAcquire, TypedInv, TypedAccess, SignalKinds
<1> DEFINE row == [hold[o] EXCEPT ![t] = @ + 1]
<1>2. hold' = [hold EXCEPT ![o] = row] /\ UNCHANGED <<objVars, semValue, evtSet>>
  BY <1>1 DEF MtxAcquire
<1>3. /\ \A u \in Threads \ {t} : hold[o][u] = 0
      /\ hold[o][t] = 0 \/ mtxRec[o]
  BY <1>1 DEF MtxAcquire, Lockable
<1>4. hold[o] \in [Threads -> Nat]
  OBVIOUS
<1>5. /\ row \in [Threads -> Nat] /\ row[t] = hold[o][t] + 1 /\ row[t] > 0
      /\ \A u \in Threads \ {t} : row[u] = 0
  BY <1>3, <1>4
<1>6. /\ Owner(hold[o]) = {} \/ (Owner(hold[o]) = {t} /\ mtxRec[o])
      /\ Depth(hold[o]) = hold[o][t]
  <2>1. CASE hold[o][t] = 0
    BY <1>3, <1>4, <2>1, OwnerNone
  <2>2. CASE hold[o][t] # 0
    <3>1. hold[o][t] > 0
      BY <1>4, <2>2
    <3> QED
      BY <1>3, <1>4, <2>2, <3>1, OwnerAlone
  <2> QED
    BY <2>1, <2>2
<1> HIDE DEF row
<1>7. Owner(row) = {t} /\ Depth(row) = hold[o][t] + 1
  BY <1>5, OwnerAlone
<1>8. hold'[o] = row
  BY <1>2
<1>9. \A p \in Objects \ {o} : ObjectOf(p)' = ObjectOf(p)
  BY <1>2, SameObject DEF objVars
<1>10. ObjectOf(o) = [kind |-> "Mutex", recursive |-> mtxRec[o],
                      owner |-> Owner(hold[o]), depth |-> Depth(hold[o])]
  BY <1>1 DEF ObjectOf
<1>11. ObjectOf(o)' = [kind |-> "Mutex", recursive |-> mtxRec[o],
                       owner |-> {t}, depth |-> Depth(hold[o]) + 1]
  <2>1. kind'[o] = "Mutex" /\ mtxRec'[o] = mtxRec[o]
    BY <1>1, <1>2 DEF objVars
  <2>2. ObjectOf(o)' = [kind |-> "Mutex", recursive |-> mtxRec[o],
                        owner |-> Owner(row), depth |-> Depth(row)]
    BY <1>8, <2>1 DEF ObjectOf
  <2> QED
    BY <1>6, <1>7, <2>2
<1>12. ObjectOf(o)' = Atomic!Mutex(ObjectOf(o).recursive, {t}, ObjectOf(o).depth + 1)
  BY <1>10, <1>11 DEF Atomic!Mutex
<1>13. /\ Atomic!Is(o, "Mutex")
       /\ ObjectOf(o).owner = {} \/ (ObjectOf(o).owner = {t} /\ ObjectOf(o).recursive)
  BY <1>6, <1>10 DEF Atomic!Is
<1>14. Atomic!Lock(t, o)
  BY <1>9, <1>12, <1>13 DEF Atomic!Lock, Atomic!Becomes
<1> QED
  BY <1>14 DEF Atomic!Next

\* A mutex is given up by its owner, and free again after the last unlock.
LEMMA ReleaseIsUnlock ==
    ASSUME TypeInv, TypedInv, MutualExclusion, NEW t \in Threads, MtxRelease(t)
    PROVE  Atomic!Next
<1> USE DEF TypeInv, TypeOK
<1>1. PICK o \in Objects : o = ref[t] /\ kind[o] = "Mutex" /\ hold[o][t] > 0
  BY DEF MtxRelease, TypedInv, TypedAccess, SignalKinds, UnlockOwned
<1> DEFINE row == [hold[o] EXCEPT ![t] = @ - 1]
<1>2. hold' = [hold EXCEPT ![o] = row] /\ UNCHANGED <<objVars, semValue, evtSet>>
  BY <1>1 DEF MtxRelease
<1>3. \A u \in Threads \ {t} : hold[o][u] = 0
  BY <1>1 DEF MutualExclusion
<1>4. hold[o] \in [Threads -> Nat]
  OBVIOUS
<1>5. /\ row \in [Threads -> Nat] /\ row[t] = hold[o][t] - 1
      /\ \A u \in Threads \ {t} : row[u] = 0
  BY <1>1, <1>3, <1>4
<1>6. Owner(hold[o]) = {t} /\ Depth(hold[o]) = hold[o][t]
  BY <1>1, <1>3, <1>4, OwnerAlone
<1> HIDE DEF row
<1>7. /\ Owner(row) = IF hold[o][t] = 1 THEN {} ELSE {t}
      /\ Depth(row) = hold[o][t] - 1
  <2>1. CASE hold[o][t] = 1
    <3>1. \A u \in Threads : row[u] = 0
      BY <1>5, <2>1
    <3> QED
      BY <1>5, <2>1, <3>1, OwnerNone
  <2>2. CASE hold[o][t] # 1
    <3>1. row[t] > 0
      BY <1>1, <1>4, <1>5, <2>2
    <3> QED
      BY <1>5, <2>2, <3>1, OwnerAlone
  <2> QED
    BY <2>1, <2>2
<1>8. hold'[o] = row
  BY <1>2
<1>9. \A p \in Objects \ {o} : ObjectOf(p)' = ObjectOf(p)
  BY <1>2, SameObject DEF objVars
<1>10. ObjectOf(o) = [kind |-> "Mutex", recursive |-> mtxRec[o],
                      owner |-> Owner(hold[o]), depth |-> Depth(hold[o])]
  BY <1>1 DEF ObjectOf
<1>11. ObjectOf(o)' = [kind |-> "Mutex", recursive |-> mtxRec[o],
                       owner |-> IF Depth(hold[o]) = 1 THEN {} ELSE {t},
                       depth |-> Depth(hold[o]) - 1]
  <2>1. kind'[o] = "Mutex" /\ mtxRec'[o] = mtxRec[o]
    BY <1>1, <1>2 DEF objVars
  <2>2. ObjectOf(o)' = [kind |-> "Mutex", recursive |-> mtxRec[o],
                        owner |-> Owner(row), depth |-> Depth(row)]
    BY <1>8, <2>1 DEF ObjectOf
  <2> QED
    BY <1>6, <1>7, <2>2
<1>12. ObjectOf(o)' = Atomic!Mutex(ObjectOf(o).recursive,
                                   IF ObjectOf(o).depth = 1 THEN {} ELSE {t},
                                   ObjectOf(o).depth - 1)
  BY <1>10, <1>11 DEF Atomic!Mutex
<1>13. Atomic!Is(o, "Mutex") /\ ObjectOf(o).owner = {t}
  BY <1>6, <1>10 DEF Atomic!Is
<1>14. Atomic!Unlock(t, o)
  BY <1>9, <1>12, <1>13 DEF Atomic!Unlock, Atomic!Becomes
<1> QED
  BY <1>14 DEF Atomic!Next

\* Every step is an operation on one object, or changes none.
LEMMA NextIsAtomic ==
    ASSUME SumsFit, TypeInv, TypedInv, AsGiven, MutualExclusion, [Next]_vars
    PROVE  [Atomic!Next]_[o \in Objects |-> ObjectOf(o)]
<1> DEFINE Goal == Atomic!Next \/ UNCHANGED [o \in Objects |-> ObjectOf(o)]
<1> SUFFICES Goal
  OBVIOUS
<1>1. ASSUME NEW t \in Threads, Call(t) PROVE Goal
  <2>1. ASSUME NEW o \in Objects,
               \/ \E max \in SemMaxes : \E initial \in 0 .. max :
                     CreateSemaphore(t, o, max, initial)
               \/ \E a, s \in BOOLEAN : CreateEvent(t, o, a, s)
               \/ \E r \in BOOLEAN : CreateMutex(t, o, r)
        PROVE  Goal
    BY <2>1, CreateIsCreate
  <2>2. ASSUME NEW h \in Handles,
               \/ DuplicateHandle(t, h) \/ CloseHandle(t, h)
               \/ \E tm \in BOOLEAN : WaitSemaphore(t, h, tm) \/ WaitEvent(t, h, tm)
               \/ \E n \in Counts : SignalSemaphore(t, h, n)
               \/ SetEvent(t, h) \/ ClearEvent(t, h) \/ LockMutex(t, h)
               \/ TryLockMutex(t, h) \/ UnlockMutex(t, h)
        PROVE  Goal
    BY <2>2, SameObjects DEF DuplicateHandle, CloseHandle, WaitSemaphore, WaitEvent,
       SignalSemaphore, SetEvent, ClearEvent, LockMutex, TryLockMutex, UnlockMutex, Lookup
  <2> QED
    BY <1>1, <2>1, <2>2 DEF Call
<1>2. ASSUME NEW t \in Threads, Step(t) \/ CvSpurious(t) \/ CvTimeout(t) PROVE Goal
  <2>1. CASE CvEnter(t) \/ CvExpired(t)
    BY <2>1, SameObjects, TakeIsWait DEF CvEnter, CvExpired
  <2>2. CASE \/ SemPost(t) \/ EvtPost(t) \/ EvtClear(t) \/ MtxAcquire(t) \/ MtxRelease(t)
    BY <2>2, PostIsSignal, WriteIsSet, AcquireIsLock, ReleaseIsUnlock
  <2>3. CASE \/ InsertHandle(t) \/ NotifyAll(t) \/ MtxTryFails(t)
             \/ CvSpurious(t) \/ CvTimeout(t)
    BY <2>3, SameObjects DEF InsertHandle, NotifyAll, MtxTryFails, CvSpurious, CvTimeout
  <2> QED
    BY <1>2, <2>1, <2>2, <2>3 DEF Step
<1>3. CASE Reset \/ KernelInit \/ UNCHANGED vars
  BY <1>3, SameObjects DEF Reset, KernelInit, vars, objVars, heldVars
<1> QED
  BY <1>1, <1>2, <1>3 DEF Next

\* For any number of threads and objects, closed handles and timed waits included,
\* each call on a semaphore, event or mutex is one operation on one object of its
\* kind, as long as no sum of SignalSemaphore, which adds before it clamps, passes
\* INT32_MAX.
THEOREM KernelIsAtomic == Spec /\ []SumsFit => ObjectsAreAtomic
<1> DEFINE Inv == TypeInv /\ TypedInv /\ AsGiven /\ MutualExclusion
<1>1. Init => Inv
  BY InitTyped DEF Init, TypedInv, TypedAccess, SignalKinds, AsGiven, MutualExclusion
<1>2. Inv /\ [Next]_vars => Inv'
  BY NextTyped, NextKeepsTyped, NextKeepsGiven, NextKeepsExclusion
<1>3. Init => Atomic!Init
  BY DEF Init, Atomic!Init, ObjectOf, Atomic!Event
<1>4. SumsFit /\ Inv /\ [Next]_vars => [Atomic!Next]_[o \in Objects |-> ObjectOf(o)]
  BY NextIsAtomic
<1> HIDE DEF Inv
<1> QED
  BY <1>1, <1>2, <1>3, <1>4, PTL DEF Spec, ObjectsAreAtomic, Atomic!Spec

\* The sums fit when every maximum leaves room for every count above it.
THEOREM SumsAlwaysFit == (\A max \in SemMaxes : Fits(max)) /\ Spec => []SumsFit
<1> SUFFICES ASSUME \A max \in SemMaxes : Fits(max) PROVE Spec => []SumsFit
  OBVIOUS
<1> DEFINE Inv == TypeInv /\ TypedInv /\ AsGiven /\ PermitsConserved
<1>1. Init => Inv
  BY InitTyped DEF Init, TypedInv, TypedAccess, SignalKinds, AsGiven, PermitsConserved,
     PermitsOf
<1>2. Inv /\ [Next]_vars => Inv'
  BY NextTyped, NextKeepsTyped, NextKeepsGiven, NextKeepsPermits
<1>3. Inv => SumsFit
  <2> SUFFICES ASSUME Inv, NEW t \in Threads, pc[t] = "post"
               PROVE  semValue[ref[t]] + arg[t] <= IntMax
    BY DEF SumsFit
  <2>1. PICK o \in Objects : o = ref[t] /\ kind[o] = "Semaphore"
    BY DEF TypedInv, TypedAccess, SignalKinds
  <2>2. PICK n \in Counts : n = arg[t]
    BY DEF AsGiven
  <2>3. semMax[o] \in SemMaxes /\ semValue[o] <= semMax[o]
    BY <2>1 DEF AsGiven, PermitsConserved, PermitsOf
  <2>4. semMax[o] + n <= IntMax
    BY <2>3 DEF Fits
  <2>5. semValue[o] \in Int /\ semMax[o] \in Int /\ n \in Int
    BY SyncAssumption DEF TypeInv, TypeOK
  <2> QED
    BY <2>1, <2>2, <2>3, <2>4, <2>5, SyncAssumption
<1> HIDE DEF Inv
<1> QED
  BY <1>1, <1>2, <1>3, PTL DEF Spec
=============================================================================
