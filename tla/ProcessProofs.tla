---------------------------- MODULE ProcessProofs ----------------------------
(***************************************************************************)
(* The process manager's accounts, for any threads and bounds: the modules *)
(* the Loader holds for a registered process are those its entry lists and *)
(* those some call has in its hands.                                       *)
(***************************************************************************)
EXTENDS Process, FiniteSetTheorems, TLAPS

USE ProcessAssumption DEF ProcessAssumption

-----------------------------------------------------------------------------
(* Adding up what the threads of a set hold.                               *)

Hands(c, T) == UNION {{t} \X (1 .. c[t]) : t \in T}

LEMMA InHandsIs == \A p : InHands(p) = Hands(carry, {u \in Threads : pid[u] = p})
  BY DEF InHands, Hands

LEMMA HandsFinite ==
    ASSUME NEW c \in [Threads -> Nat], NEW T \in SUBSET Threads
    PROVE  IsFiniteSet(Hands(c, T)) /\ Cardinality(Hands(c, T)) \in Nat
  <1> DEFINE S == {{t} \X (1 .. c[t]) : t \in T}
             f == [t \in T |-> {t} \X (1 .. c[t])]
  <1>1. IsFiniteSet(T)  BY FS_Subset
  <1>2. f \in Surjection(T, S)  BY DEF Surjection
  <1>3. IsFiniteSet(S)  BY <1>1, <1>2, FS_Surjection
  <1>4. \A s \in S : IsFiniteSet(s)
    <2>1. ASSUME NEW t \in T  PROVE IsFiniteSet({t} \X (1 .. c[t]))
      <3>1. c[t] \in Int  OBVIOUS
      <3>2. IsFiniteSet(1 .. c[t])  BY <3>1, FS_Interval
      <3> QED  BY <3>2, FS_Singleton, FS_Product
    <2> QED  BY <2>1
  <1>5. IsFiniteSet(UNION S)
    <2> HIDE DEF S
    <2> QED  BY <1>3, <1>4, FS_UNION
  <1> QED  BY <1>5, FS_CardinalityType DEF Hands

LEMMA HandsSame ==
    ASSUME NEW c, NEW e, NEW T, \A t \in T : c[t] = e[t]
    PROVE  Hands(c, T) = Hands(e, T)
  BY DEF Hands

\* What one thread of the set adds.
LEMMA HandsSplit ==
    ASSUME NEW c \in [Threads -> Nat], NEW T \in SUBSET Threads, NEW t \in Threads
    PROVE  Cardinality(Hands(c, T)) =
             Cardinality(Hands(c, T \ {t})) + IF t \in T THEN c[t] ELSE 0
  <1> DEFINE R == T \ {t}
             M == {t} \X (1 .. c[t])
  <1>1. /\ IsFiniteSet(Hands(c, R)) /\ Cardinality(Hands(c, R)) \in Nat
    BY HandsFinite
  <1>2. CASE t \notin T
    <2>1. T \ {t} = T  BY <1>2
    <2>2. Cardinality(Hands(c, T)) \in Nat  BY HandsFinite
    <2> QED  BY <1>2, <2>1, <2>2
  <1>3. CASE t \in T
    <2>1. Hands(c, T) = Hands(c, R) \cup M  BY <1>3 DEF Hands
    <2>2. Hands(c, R) \cap M = {}  BY DEF Hands
    <2>3. c[t] \in Nat /\ c[t] \in Int  OBVIOUS
    <2>4. IsFiniteSet(1 .. c[t]) /\ Cardinality(1 .. c[t]) = c[t]
      BY <2>3, FS_Interval
    <2>5. IsFiniteSet({t}) /\ Cardinality({t}) = 1  BY FS_Singleton
    <2>6. IsFiniteSet(M) /\ Cardinality(M) = 1 * c[t]  BY <2>4, <2>5, FS_Product
    <2>7. Cardinality(Hands(c, R) \cup M) =
            Cardinality(Hands(c, R)) + Cardinality(M) - Cardinality({})
      <3> HIDE DEF R, M
      <3> QED  BY <1>1, <2>2, <2>6, FS_Union
    <2>8. Cardinality({}) = 0  BY FS_EmptySet
    <2> HIDE DEF M, R
    <2>9. Cardinality(Hands(c, T)) = Cardinality(Hands(c, R)) + c[t]
      BY <1>1, <2>1, <2>3, <2>6, <2>7, <2>8
    <2> QED  BY <1>3, <2>9 DEF R
  <1> QED  BY <1>2, <1>3

\* How many modules of p the call of t has in its hands.
Holds(t, p) == IF pid[t] = p THEN carry[t] ELSE 0

HandsTyped ==
    /\ carry \in [Threads -> Nat]
    /\ pid \in [Threads -> Pids \cup {NoPid}]

\* A step of t changes what is in hands by what it changes for t.
LEMMA HandsMove ==
    ASSUME NEW t \in Threads, NEW p \in Pids, HandsTyped, HandsTyped',
           \A u \in Threads \ {t} : carry'[u] = carry[u] /\ pid'[u] = pid[u]
    PROVE  /\ Cardinality(InHands(p)) \in Nat
           /\ Cardinality(InHands(p)') \in Nat
           /\ Cardinality(InHands(p)) >= Holds(t, p)
           /\ Cardinality(InHands(p)') - Holds(t, p)' = Cardinality(InHands(p)) - Holds(t, p)
  <1> DEFINE T == {u \in Threads : pid[u] = p}
             U == {u \in Threads : pid'[u] = p}
  <1>1. InHands(p) = Hands(carry, T)  BY DEF InHands, Hands
  <1>2. InHands(p)' = Hands(carry', U)  BY DEF InHands, Hands
  <1>3. T \ {t} = U \ {t}  OBVIOUS
  <1>4. Hands(carry, T \ {t}) = Hands(carry', U \ {t})
    <2>1. \A u \in T \ {t} : carry[u] = carry'[u]  OBVIOUS
    <2> HIDE DEF T, U
    <2> QED  BY <1>3, <2>1, HandsSame
  <1>5. Cardinality(Hands(carry, T \ {t})) \in Nat  BY HandsFinite DEF HandsTyped
  <1>6. Cardinality(InHands(p)) = Cardinality(Hands(carry, T \ {t})) + Holds(t, p)
    <2>1. Holds(t, p) = IF t \in T THEN carry[t] ELSE 0  BY DEF Holds
    <2>2. T \in SUBSET Threads  OBVIOUS
    <2> HIDE DEF T
    <2> QED  BY <1>1, <2>1, <2>2, HandsSplit DEF HandsTyped
  <1>7. Cardinality(InHands(p)') = Cardinality(Hands(carry, T \ {t})) + Holds(t, p)'
    <2>1. Holds(t, p)' = IF t \in U THEN carry'[t] ELSE 0  BY DEF Holds
    <2>2. U \in SUBSET Threads  OBVIOUS
    <2>3. carry' \in [Threads -> Nat]  BY DEF HandsTyped
    <2> HIDE DEF T, U
    <2> QED  BY <1>2, <1>4, <2>1, <2>2, <2>3, HandsSplit
  <1>8. Holds(t, p) \in Nat /\ Holds(t, p)' \in Nat  BY DEF Holds, HandsTyped
  <1> QED  BY <1>5, <1>6, <1>7, <1>8

-----------------------------------------------------------------------------
(* The invariant.                                                          *)

\* Where a call is tells what it holds and what it may rely on.
CallOK(t) ==
    /\ pc[t] = "idle" <=> pid[t] = NoPid
    /\ pid[t] < nextPid
    /\ carry[t] # 0 => pc[t] \in {"attach", "stop", "unload"}
    /\ pc[t] = "attach" => carry[t] = 1
    /\ pc[t] \in {"stop", "unload"} => procs[pid[t]] # "None"
    /\ pc[t] = "register" =>
          /\ procs[pid[t]] = "None"
          /\ loaded[pid[t]] = 1
          /\ \A u \in Threads \ {t} : pid[u] # pid[t]

\* Nothing is known of a pid that has not been drawn.
FreshPids == \A p \in Pids : p >= nextPid => procs[p] = "None" /\ loaded[p] = 0

ProcInv ==
    /\ TypeOK
    /\ \A t \in Threads : CallOK(t)
    /\ FreshPids
    /\ ModulesAccounted

LEMMA ProcInitInv == Init => ProcInv
  <1> SUFFICES ASSUME Init  PROVE ProcInv  OBVIOUS
  <1>1. TypeOK  BY DEF Init, TypeOK, States, Pids, NoPid
  <1>2. (\A t \in Threads : CallOK(t)) /\ FreshPids  BY DEF Init, CallOK, FreshPids, NoPid
  <1>3. ModulesAccounted  BY DEF Init, ModulesAccounted
  <1> QED  BY <1>1, <1>2, <1>3 DEF ProcInv

\* Steps that move no module and no call: only what is registered matters.
LEMMA AccountsSame ==
    ASSUME ModulesAccounted, UNCHANGED <<modules, loaded, pid, carry>>,
           \A p \in Pids : procs'[p] = "None" <=> procs[p] = "None"
    PROVE  ModulesAccounted'
  BY DEF ModulesAccounted, InHands

LEMMA BystanderKeeps ==
    ASSUME ProcInv,
           \/ \E t \in Threads : \/ RegisterExitCallback(t) \/ Joined(t) \/ Reap(t)
                                \/ FireLock(t) \/ TerminateStop(t)
                                \/ \E p \in Pids : Start(t, p) \/ RequestExit(t, p)
           \/ \E p \in Pids : MainReturns(p)
    PROVE  ProcInv'
  <1> USE DEF ProcInv, locals, Goto, Start, RequestExit, MainReturns, RegisterExitCallback,
          Joined, Reap, FireLock, TerminateStop
  <1>1. UNCHANGED <<modules, loaded, pid, carry, nextPid>>  OBVIOUS
  <1>2. \A q \in Pids : procs'[q] = "None" <=> procs[q] = "None"  BY DEF TypeOK, States
  <1>3. TypeOK'
    <2>1. ASSUME NEW t \in Threads, NEW p \in Pids, Start(t, p) \/ RequestExit(t, p)
          PROVE  TypeOK'
      BY <2>1 DEF TypeOK, States
    <2>2. ASSUME NEW p \in Pids, MainReturns(p)  PROVE TypeOK'
      BY <2>2 DEF TypeOK
    <2>3. ASSUME NEW t \in Threads, RegisterExitCallback(t)  PROVE TypeOK'
      BY <2>3 DEF TypeOK
    <2>4. ASSUME NEW t \in Threads, Joined(t) \/ FireLock(t)  PROVE TypeOK'
      BY <2>4 DEF TypeOK
    <2>5. ASSUME NEW t \in Threads, Reap(t)  PROVE TypeOK'
      BY <2>5 DEF TypeOK, States
    <2>6. ASSUME NEW t \in Threads, TerminateStop(t)  PROVE TypeOK'
      BY <2>6 DEF TypeOK
    <2> HIDE DEF Start, RequestExit, MainReturns, RegisterExitCallback, Joined, Reap,
                 FireLock, TerminateStop
    <2> QED  BY <2>1, <2>2, <2>3, <2>4, <2>5, <2>6
  <1>4. \A u \in Threads : CallOK(u)'
    BY <1>1, <1>2 DEF CallOK, TypeOK, NoPid
  <1>5. FreshPids'  BY <1>1, <1>2 DEF FreshPids
  <1>6. ModulesAccounted'  BY <1>1, <1>2, AccountsSame
  <1> QED  BY <1>3, <1>4, <1>5, <1>6

\* A call that has nothing in hands opens or returns.
LEMMA EmptyHandedKeeps ==
    ASSUME ProcInv, NEW t \in Threads, NEW p \in Pids,
           Wait(t, p) \/ JoinFails(t) \/ FireDone(t)
    PROVE  ProcInv'
  <1> USE DEF ProcInv, Begin, Return, Wait, JoinFails, FireDone
  <1>1. UNCHANGED <<procs, modules, loaded, nextPid>>  OBVIOUS
  <1>2. TypeOK'  BY DEF TypeOK
  <1>3. p < nextPid \/ ~Wait(t, p)  BY DEF FreshPids, TypeOK, Pids
  <1>4. \A u \in Threads : CallOK(u)'
    <2>1. CASE Wait(t, p)
      <3>1. /\ pc' = [pc EXCEPT ![t] = "join"] /\ pid' = [pid EXCEPT ![t] = p]
            /\ carry' = carry /\ carry[t] = 0 /\ procs[p] # "None"
        BY <2>1 DEF CallOK, TypeOK
      <3> HIDE DEF Wait, JoinFails, FireDone
      <3> QED  BY <1>1, <1>3, <2>1, <3>1 DEF CallOK, TypeOK, NoPid, Pids
    <2>2. CASE JoinFails(t) \/ FireDone(t)
      <3>1. /\ pc' = [pc EXCEPT ![t] = "idle"] /\ pid' = [pid EXCEPT ![t] = NoPid]
            /\ carry' = [carry EXCEPT ![t] = 0]
        BY <2>2
      <3> HIDE DEF Wait, JoinFails, FireDone
      <3> QED  BY <1>1, <3>1 DEF CallOK, TypeOK, NoPid, Pids
    <2> QED  BY <2>1, <2>2
  <1>5. FreshPids'  BY <1>1 DEF FreshPids
  <1>6. carry[t] = 0 /\ carry'[t] = 0  BY DEF CallOK, TypeOK
  <1>7. \A u \in Threads \ {t} : carry'[u] = carry[u] /\ pid'[u] = pid[u]  BY DEF TypeOK
  <1>8. HandsTyped /\ HandsTyped'  BY <1>2 DEF TypeOK, HandsTyped
  <1>9. ASSUME NEW q \in Pids  PROVE Cardinality(InHands(q)') = Cardinality(InHands(q))
    <2>1. Holds(t, q) = 0 /\ Holds(t, q)' = 0  BY <1>6 DEF Holds
    <2> QED  BY <1>7, <1>8, <2>1, HandsMove
  <1>10. ModulesAccounted'  BY <1>1, <1>9 DEF ModulesAccounted
  <1> QED  BY <1>2, <1>4, <1>5, <1>10

\* The module of a new executable is in nobody's hands: the entry is yet to list it.
LEMMA CreateKeeps ==
    ASSUME ProcInv, NEW t \in Threads, Create(t)
    PROVE  ProcInv'
  <1> USE DEF ProcInv, Begin, Create
  <1>1. nextPid \in Pids /\ procs[nextPid] = "None" /\ loaded[nextPid] = 0
    BY DEF TypeOK, Pids, FreshPids
  <1>2. TypeOK'  BY <1>1 DEF TypeOK, Pids
  <1>3. carry[t] = 0 /\ pid[t] = NoPid /\ pid'[t] = nextPid /\ carry' = carry
    BY DEF CallOK, TypeOK
  <1>4. \A u \in Threads : CallOK(u)'
    <2>1. CallOK(t)'  BY <1>1, <1>3 DEF CallOK, TypeOK, NoPid, Pids
    <2>2. ASSUME NEW u \in Threads \ {t}  PROVE CallOK(u)'
      <3>1. pid[u] < nextPid /\ pid'[u] = pid[u] /\ pc'[u] = pc[u]  BY DEF CallOK, TypeOK
      <3>2. loaded'[pid[u]] = loaded[pid[u]] \/ pid[u] = NoPid
        BY <3>1 DEF TypeOK, Pids, NoPid
      <3> QED  BY <1>1, <1>3, <3>1, <3>2 DEF CallOK, TypeOK, NoPid, Pids
    <2> QED  BY <2>1, <2>2
  <1>5. FreshPids'  BY <1>1 DEF FreshPids, TypeOK, Pids
  <1>6. \A u \in Threads \ {t} : carry'[u] = carry[u] /\ pid'[u] = pid[u]  BY DEF TypeOK
  <1>7. HandsTyped /\ HandsTyped'  BY <1>2 DEF TypeOK, HandsTyped
  <1>8. ASSUME NEW q \in Pids, procs'[q] # "None"
        PROVE  loaded'[q] = modules'[q] + Cardinality(InHands(q)')
    <2>1. Holds(t, q) = 0 /\ Holds(t, q)' = 0  BY <1>3 DEF Holds
    <2>2. Cardinality(InHands(q)') = Cardinality(InHands(q))  BY <1>6, <1>7, <2>1, HandsMove
    <2>3. q # nextPid  BY <1>1, <1>8
    <2> QED  BY <1>8, <2>2, <2>3 DEF ModulesAccounted, TypeOK
  <1>9. ModulesAccounted'  BY <1>8 DEF ModulesAccounted
  <1> QED  BY <1>2, <1>4, <1>5, <1>9

\* The entry appears with the module that was loaded for it.
LEMMA RegisterKeeps ==
    ASSUME ProcInv, NEW t \in Threads, Register(t)
    PROVE  ProcInv'
  <1> USE DEF ProcInv, Return, Register
  <1>1. PICK p \in Pids : p = pid[t]  BY DEF CallOK, TypeOK
  <1>2. /\ carry[t] = 0 /\ procs[p] = "None" /\ loaded[p] = 1 /\ p < nextPid
        /\ \A u \in Threads \ {t} : pid[u] # p
    BY <1>1 DEF CallOK, TypeOK
  <1>3. TypeOK'  BY <1>1 DEF TypeOK, States
  <1>4. \A u \in Threads : CallOK(u)'
    <2>1. CallOK(t)'  BY <1>1 DEF CallOK, TypeOK, NoPid, Pids
    <2>2. ASSUME NEW u \in Threads \ {t}  PROVE CallOK(u)'
      <3>1. /\ pid[u] # p /\ pid'[u] = pid[u] /\ pc'[u] = pc[u] /\ carry'[u] = carry[u]
            /\ pid'[t] = NoPid /\ \A v \in Threads \ {t} : pid'[v] = pid[v]
        BY <1>2 DEF TypeOK
      <3>2. procs'[pid[u]] = procs[pid[u]] \/ pid[u] = NoPid
        BY <1>1, <3>1 DEF TypeOK
      <3> QED  BY <1>1, <3>1, <3>2 DEF CallOK, TypeOK
    <2> QED  BY <2>1, <2>2
  <1>5. FreshPids'  BY <1>1, <1>2 DEF FreshPids, TypeOK, Pids
  <1>6. \A u \in Threads \ {t} : carry'[u] = carry[u] /\ pid'[u] = pid[u]  BY DEF TypeOK
  <1>7. HandsTyped /\ HandsTyped'  BY <1>3 DEF TypeOK, HandsTyped
  <1>8. ASSUME NEW q \in Pids, procs'[q] # "None"
        PROVE  loaded'[q] = modules'[q] + Cardinality(InHands(q)')
    <2>1. Holds(t, q) = 0 /\ Holds(t, q)' = 0  BY <1>2 DEF Holds, TypeOK
    <2>2. Cardinality(InHands(q)') = Cardinality(InHands(q))  BY <1>6, <1>7, <2>1, HandsMove
    <2>3. CASE q = p
      <3>1. InHands(q)' = {}
        BY <1>1, <1>2, <2>3 DEF InHands, TypeOK, NoPid, Pids
      <3>2. modules'[q] = 1 /\ loaded'[q] = 1  BY <1>1, <1>2, <2>3 DEF TypeOK
      <3> QED  BY <3>1, <3>2, FS_EmptySet
    <2>4. CASE q # p
      BY <1>1, <1>8, <2>2, <2>4 DEF ModulesAccounted, TypeOK
    <2> QED  BY <2>3, <2>4
  <1>9. ModulesAccounted'  BY <1>8 DEF ModulesAccounted
  <1> QED  BY <1>3, <1>4, <1>5, <1>9

\* The listed modules pass from the entry into the hands of the call.
LEMMA TerminateKeeps ==
    ASSUME ProcInv, NEW t \in Threads, NEW p \in Pids, Terminate(t, p)
    PROVE  ProcInv'
  <1> USE DEF ProcInv, Begin, Terminate
  <1>1. carry[t] = 0 /\ pid[t] = NoPid /\ p < nextPid
    <2>1. carry[t] = 0 /\ pid[t] = NoPid  BY DEF CallOK
    <2>2. procs[p] # "None" /\ ~(p >= nextPid)  BY DEF FreshPids
    <2>3. p \in Int /\ nextPid \in Int  BY DEF TypeOK, Pids
    <2> QED  BY <2>1, <2>2, <2>3
  <1>2. TypeOK'
    BY DEF TypeOK, States
  <1>3. \A q \in Pids : procs'[q] = "None" <=> procs[q] = "None"  BY DEF TypeOK
  <1>4. \A u \in Threads : CallOK(u)'
    <2>1. CallOK(t)'  BY <1>1, <1>3 DEF CallOK, TypeOK, NoPid, Pids
    <2>2. ASSUME NEW u \in Threads \ {t}  PROVE CallOK(u)'
      <3>1. /\ pid'[u] = pid[u] /\ pc'[u] = pc[u] /\ carry'[u] = carry[u]
            /\ pid'[t] = p /\ \A v \in Threads \ {t} : pid'[v] = pid[v]
        BY DEF TypeOK
      <3>2. pc[u] = "register" => pid[u] # p  BY DEF CallOK
      <3> QED  BY <1>3, <3>1, <3>2 DEF CallOK, TypeOK, NoPid
    <2> QED  BY <2>1, <2>2
  <1>5. FreshPids'  BY <1>3 DEF FreshPids
  <1>6. \A u \in Threads \ {t} : carry'[u] = carry[u] /\ pid'[u] = pid[u]  BY DEF TypeOK
  <1>7. HandsTyped /\ HandsTyped'  BY <1>2 DEF TypeOK, HandsTyped
  <1>8. ASSUME NEW q \in Pids, procs'[q] # "None"
        PROVE  loaded'[q] = modules'[q] + Cardinality(InHands(q)')
    <2>1. Holds(t, q) = 0 /\ Holds(t, q)' = IF q = p THEN modules[p] ELSE 0
      BY <1>1 DEF Holds, TypeOK
    <2>2. /\ Cardinality(InHands(q)) \in Nat /\ Cardinality(InHands(q)') \in Nat
          /\ Cardinality(InHands(q)') = Cardinality(InHands(q)) + Holds(t, q)'
      BY <1>6, <1>7, <2>1, HandsMove DEF TypeOK
    <2>3. /\ modules'[q] = IF q = p THEN 0 ELSE modules[q]
          /\ loaded'[q] = loaded[q] /\ modules[q] \in Nat
      BY DEF TypeOK
    <2>4. loaded[q] = modules[q] + Cardinality(InHands(q))
      BY <1>3, <1>8 DEF ModulesAccounted
    <2> QED  BY <2>1, <2>2, <2>3, <2>4
  <1>9. ModulesAccounted'  BY <1>8 DEF ModulesAccounted
  <1> QED  BY <1>2, <1>4, <1>5, <1>9

\* The modules in the hands of the call are unloaded, and nobody else's.
LEMMA UnloadKeeps ==
    ASSUME ProcInv, NEW t \in Threads, TerminateUnload(t)
    PROVE  ProcInv'
  <1> USE DEF ProcInv, Goto, TerminateUnload
  <1>1. PICK p \in Pids : p = pid[t]  BY DEF CallOK, TypeOK
  <1>2. procs[p] # "None"  BY <1>1 DEF CallOK
  <1>3. \A u \in Threads \ {t} : carry'[u] = carry[u] /\ pid'[u] = pid[u]  BY DEF TypeOK
  <1>4. HandsTyped /\ HandsTyped'  BY DEF TypeOK, HandsTyped
  <1>5. /\ Cardinality(InHands(p)) \in Nat
        /\ Cardinality(InHands(p)) >= carry[t] /\ carry[t] \in Nat
    <2>1. Holds(t, p) = carry[t]  BY <1>1 DEF Holds
    <2> QED  BY <1>3, <1>4, <2>1, HandsMove DEF TypeOK
  <1>6. loaded[p] \in Nat /\ loaded[p] - carry[t] \in Nat
    <2>1. loaded[p] = modules[p] + Cardinality(InHands(p))  BY <1>2 DEF ModulesAccounted
    <2>2. modules[p] \in Nat /\ loaded[p] \in Nat  BY DEF TypeOK
    <2> QED  BY <1>5, <2>1, <2>2
  <1>7. TypeOK'  BY <1>1, <1>6 DEF TypeOK
  <1>8. \A u \in Threads : CallOK(u)'
    <2>1. CallOK(t)'  BY <1>1 DEF CallOK, TypeOK
    <2>2. ASSUME NEW u \in Threads \ {t}  PROVE CallOK(u)'
      <3>1. pid'[u] = pid[u] /\ pc'[u] = pc[u] /\ carry'[u] = carry[u]  BY DEF TypeOK
      <3>2. pc[u] = "register" => pid[u] # p  BY <1>2 DEF CallOK
      <3> QED  BY <1>1, <3>1, <3>2 DEF CallOK, TypeOK
    <2> QED  BY <2>1, <2>2
  <1>9. FreshPids'  BY <1>1, <1>2 DEF FreshPids, TypeOK
  <1>10. ASSUME NEW q \in Pids, procs'[q] # "None"
         PROVE  loaded'[q] = modules'[q] + Cardinality(InHands(q)')
    <2>1. /\ Holds(t, q) = IF q = p THEN carry[t] ELSE 0
          /\ Holds(t, q)' = 0
      BY <1>1 DEF Holds, TypeOK
    <2>2. /\ Cardinality(InHands(q)) \in Nat /\ Cardinality(InHands(q)') \in Nat
          /\ Cardinality(InHands(q)') = Cardinality(InHands(q)) - Holds(t, q)
      BY <1>3, <1>4, <1>5, <2>1, HandsMove
    <2>3. /\ loaded'[q] = IF q = p THEN loaded[q] - carry[t] ELSE loaded[q]
          /\ modules'[q] = modules[q] /\ modules[q] \in Nat /\ loaded[q] \in Nat
      BY <1>1 DEF TypeOK
    <2>4. loaded[q] = modules[q] + Cardinality(InHands(q))
      BY <1>10 DEF ModulesAccounted
    <2> QED  BY <1>5, <2>1, <2>2, <2>3, <2>4
  <1>11. ModulesAccounted'  BY <1>10 DEF ModulesAccounted
  <1> QED  BY <1>7, <1>8, <1>9, <1>11

\* A module is loaded into the hands of the call that asked for it.
LEMMA LoadModuleKeeps ==
    ASSUME ProcInv, NEW t \in Threads, NEW p \in Pids, LoadModule(t, p)
    PROVE  ProcInv'
  <1> USE DEF ProcInv, Begin, LoadModule
  <1>1. /\ p < nextPid /\ carry[t] = 0 /\ pid[t] = NoPid
        /\ \A u \in Threads : ~(pc[u] = "register" /\ pid[u] = p)
    BY DEF Known, CallOK
  <1>2. TypeOK'  BY DEF TypeOK
  <1>3. \A u \in Threads : CallOK(u)'
    <2>1. CallOK(t)'  BY <1>1 DEF CallOK, TypeOK, NoPid, Pids
    <2>2. ASSUME NEW u \in Threads \ {t}  PROVE CallOK(u)'
      <3>1. /\ pid'[u] = pid[u] /\ pc'[u] = pc[u] /\ carry'[u] = carry[u]
            /\ pid'[t] = p /\ \A v \in Threads \ {t} : pid'[v] = pid[v]
        BY DEF TypeOK
      <3>2. pc[u] = "register" => pid[u] # p  BY <1>1
      <3> QED  BY <3>1, <3>2 DEF CallOK, TypeOK, NoPid
    <2> QED  BY <2>1, <2>2
  <1>4. FreshPids'  BY <1>1 DEF FreshPids, TypeOK, Pids
  <1>5. \A u \in Threads \ {t} : carry'[u] = carry[u] /\ pid'[u] = pid[u]  BY DEF TypeOK
  <1>6. HandsTyped /\ HandsTyped'  BY <1>2 DEF TypeOK, HandsTyped
  <1>7. ASSUME NEW q \in Pids, procs'[q] # "None"
        PROVE  loaded'[q] = modules'[q] + Cardinality(InHands(q)')
    <2>1. Holds(t, q) = 0 /\ Holds(t, q)' = IF q = p THEN 1 ELSE 0
      BY <1>1 DEF Holds, TypeOK
    <2>2. /\ Cardinality(InHands(q)) \in Nat /\ Cardinality(InHands(q)') \in Nat
          /\ Cardinality(InHands(q)') = Cardinality(InHands(q)) + Holds(t, q)'
      BY <1>5, <1>6, <2>1, HandsMove
    <2>3. /\ loaded'[q] = IF q = p THEN loaded[q] + 1 ELSE loaded[q]
          /\ modules'[q] = modules[q] /\ modules[q] \in Nat
      BY DEF TypeOK
    <2>4. loaded[q] = modules[q] + Cardinality(InHands(q))
      BY <1>7 DEF ModulesAccounted
    <2> QED  BY <2>1, <2>2, <2>3, <2>4
  <1>8. ModulesAccounted'  BY <1>7 DEF ModulesAccounted
  <1> QED  BY <1>2, <1>3, <1>4, <1>8

\* The module passes into the list of an entry that is still there.
LEMMA AttachKeeps ==
    ASSUME ProcInv, NEW t \in Threads, Attach(t)
    PROVE  ProcInv'
  <1> USE DEF ProcInv, Return, Attach
  <1>1. PICK p \in Pids : p = pid[t]  BY DEF CallOK, TypeOK
  <1>2. carry[t] = 1  BY DEF CallOK
  <1>3. TypeOK'  BY <1>1 DEF TypeOK
  <1>4. \A u \in Threads : CallOK(u)'
    <2>1. CallOK(t)'  BY DEF CallOK, TypeOK, NoPid
    <2>2. ASSUME NEW u \in Threads \ {t}  PROVE CallOK(u)'
      <3>1. /\ pid'[u] = pid[u] /\ pc'[u] = pc[u] /\ carry'[u] = carry[u]
            /\ pid'[t] = NoPid /\ \A v \in Threads \ {t} : pid'[v] = pid[v]
        BY DEF TypeOK
      <3> QED  BY <3>1 DEF CallOK, TypeOK
    <2> QED  BY <2>1, <2>2
  <1>5. FreshPids'  BY DEF FreshPids
  <1>6. \A u \in Threads \ {t} : carry'[u] = carry[u] /\ pid'[u] = pid[u]  BY DEF TypeOK
  <1>7. HandsTyped /\ HandsTyped'  BY <1>3 DEF TypeOK, HandsTyped
  <1>8. ASSUME NEW q \in Pids, procs'[q] # "None"
        PROVE  loaded'[q] = modules'[q] + Cardinality(InHands(q)')
    <2>1. Holds(t, q) = (IF q = p THEN 1 ELSE 0) /\ Holds(t, q)' = 0
      BY <1>1, <1>2 DEF Holds, TypeOK, NoPid, Pids
    <2>2. /\ Cardinality(InHands(q)) \in Nat /\ Cardinality(InHands(q)') \in Nat
          /\ Cardinality(InHands(q)') = Cardinality(InHands(q)) - Holds(t, q)
      BY <1>6, <1>7, <2>1, HandsMove
    <2>3. /\ loaded'[q] = loaded[q]
          /\ modules'[q] = (IF q = p THEN modules[q] + 1 ELSE modules[q])
          /\ modules[q] \in Nat
      BY <1>1, <1>8 DEF TypeOK
    <2>4. loaded[q] = modules[q] + Cardinality(InHands(q))
      BY <1>8 DEF ModulesAccounted
    <2> QED  BY <2>1, <2>2, <2>3, <2>4
  <1>9. ModulesAccounted'  BY <1>8 DEF ModulesAccounted
  <1> QED  BY <1>3, <1>4, <1>5, <1>9

\* Between two runs nothing is registered, and there is nothing to account for.
LEMMA ForgetKeeps ==
    ASSUME ProcInv, Shutdown \/ ProcessInit
    PROVE  ProcInv'
  <1> USE DEF ProcInv, Quiet, Forget, locals, Shutdown, ProcessInit
  <1>1. TypeOK'
    <2>1. CASE Shutdown  BY <2>1 DEF TypeOK, States
    <2>2. CASE ProcessInit  BY <2>2 DEF TypeOK, States
    <2> QED  BY <2>1, <2>2
  <1>2. \A u \in Threads : CallOK(u)'  BY DEF CallOK, TypeOK, NoPid
  <1>3. FreshPids'  BY DEF FreshPids
  <1>4. ModulesAccounted'  BY DEF ModulesAccounted
  <1> QED  BY <1>1, <1>2, <1>3, <1>4

LEMMA ProcInvariant == Spec => []ProcInv
  <1>1. ProcInv /\ [Next]_vars => ProcInv'
    <2> SUFFICES ASSUME ProcInv, [Next]_vars  PROVE ProcInv'  OBVIOUS
    <2>1. ASSUME NEW t \in Threads, Step(t)  PROVE ProcInv'
      <3>1. CASE JoinFails(t) \/ FireDone(t)
        <4>1. PICK p \in Pids : p = pid[t]
          BY <3>1 DEF ProcInv, CallOK, TypeOK, JoinFails, FireDone
        <4> QED  BY <3>1, EmptyHandedKeeps
      <3> QED
        BY <2>1, <3>1, BystanderKeeps, RegisterKeeps, AttachKeeps, UnloadKeeps DEF Step
    <2>2. ASSUME NEW t \in Threads, Call(t)  PROVE ProcInv'
      BY <2>2, CreateKeeps, BystanderKeeps, EmptyHandedKeeps, TerminateKeeps,
         LoadModuleKeeps
      DEF Call
    <2>3. ASSUME NEW p \in Pids, MainReturns(p)  PROVE ProcInv'
      BY <2>3, BystanderKeeps
    <2>4. CASE UNCHANGED vars
      <3> USE <2>4 DEF ProcInv, vars
      <3>1. TypeOK'  BY DEF TypeOK
      <3>2. (\A u \in Threads : CallOK(u)') /\ FreshPids'  BY DEF CallOK, FreshPids
      <3>3. ModulesAccounted'  BY AccountsSame
      <3> QED  BY <3>1, <3>2, <3>3
    <2> QED  BY <2>1, <2>2, <2>3, <2>4, ForgetKeeps DEF Next
  <1> QED  BY <1>1, ProcInitInv, PTL DEF Spec

\* Type correctness of the process manager; for the Loader's counts that Terminate never
\* unloads a module that is not there.
THEOREM ProcessTypeCorrect == Spec => []TypeOK
  <1>1. ProcInv => TypeOK  BY DEF ProcInv
  <1> QED  BY <1>1, ProcInvariant, PTL

\* The modules the Loader holds for a registered process are those its entry lists and
\* those some LoadModule or Terminate has in its hands: two Terminates never unload one
\* module, and overlapping calls drop none (Terminate, LoadModule).
THEOREM EveryModuleAccounted == Spec => []ModulesAccounted
  <1>1. ProcInv => ModulesAccounted  BY DEF ProcInv
  <1> QED  BY <1>1, ProcInvariant, PTL

-----------------------------------------------------------------------------
(* Who holds the mutex.                                                    *)

\* Only a Wait joins and reaps, and whoever calls the callbacks holds the mutex.
WaitSteps ==
    \A t \in Threads :
        /\ pc[t] \in {"join", "reap"} => running[t] = "Wait"
        /\ pc[t] = "call" => mtx = t

HolderInv == TypeOK /\ WaitSteps /\ OnlyWaitBlocks

\* A step of a call that neither holds nor takes the mutex.
LEMMA BystanderHolds ==
    ASSUME HolderInv, NEW t \in Threads, mtx' = mtx, pc[t] \notin {"call", "fire"},
           \A u \in Threads \ {t} : pc'[u] = pc[u] /\ running'[u] = running[u],
           pc'[t] # "call", pc'[t] \in {"join", "reap"} => running'[t] = "Wait"
    PROVE  WaitSteps' /\ OnlyWaitBlocks'
  BY DEF HolderInv, TypeOK, WaitSteps, OnlyWaitBlocks

\* A call takes the mutex and keeps it over the step only to call the callbacks, or
\* as a Wait on its way there.
LEMMA HoldersKept ==
    ASSUME HolderInv, [Next]_vars
    PROVE  WaitSteps' /\ OnlyWaitBlocks'
  <1> DEFINE Goal == WaitSteps' /\ OnlyWaitBlocks'
  <1> USE DEF HolderInv
  <1>1. ASSUME UNCHANGED <<mtx, pc, running>>  PROVE Goal
    BY <1>1 DEF WaitSteps, OnlyWaitBlocks
  <1>2. ASSUME NEW t \in Threads, Call(t)  PROVE Goal
    <2>1. CASE RegisterExitCallback(t) \/ \E p \in Pids : Start(t, p) \/ RequestExit(t, p)
      BY <1>1, <2>1 DEF RegisterExitCallback, Start, RequestExit, locals
    <2>2. ASSUME NEW call \in {"Create", "LoadModule", "Wait", "Terminate"}, NEW step, NEW p,
                 pc[t] = "idle", mtx' = mtx, Begin(t, call, step, p),
                 step # "call", step \in {"join", "reap"} => call = "Wait"
          PROVE  Goal
      BY <2>2, BystanderHolds DEF Begin, TypeOK
    <2> QED  BY <1>2, <2>1, <2>2 DEF Call, Create, Wait, Terminate, LoadModule
  <1>3. ASSUME NEW t \in Threads, Step(t)  PROVE Goal
    <2>1. CASE Register(t) \/ Attach(t) \/ JoinFails(t)
      BY <2>1, BystanderHolds DEF Register, Attach, JoinFails, Return, TypeOK
    <2>2. CASE Joined(t) \/ TerminateStop(t) \/ TerminateUnload(t)
      BY <2>2, BystanderHolds DEF Joined, TerminateStop, TerminateUnload, Goto, TypeOK, WaitSteps
    <2>3. CASE Reap(t) \/ FireLock(t)
      <3>1. /\ mtx' = t /\ mtx = NoThread /\ running' = running
            /\ \A u \in Threads \ {t} : pc'[u] = pc[u]
            /\ pc'[t] = "call" \/ (pc'[t] = "fire" /\ pc[t] = "reap")
        BY <2>3 DEF Reap, FireLock, Goto, Free, TypeOK
      <3>2. \A u \in Threads : pc[u] # "call"
        BY <3>1, NoThread \notin Threads DEF WaitSteps
      <3> QED  BY <3>1, <3>2 DEF WaitSteps, OnlyWaitBlocks
    <2>4. CASE FireDone(t)
      BY <2>4 DEF FireDone, Return, TypeOK, WaitSteps, OnlyWaitBlocks
    <2> QED  BY <1>3, <2>1, <2>2, <2>3, <2>4 DEF Step
  <1>4. CASE (\E p \in Pids : MainReturns(p)) \/ Shutdown \/ ProcessInit \/ UNCHANGED vars
    BY <1>1, <1>4 DEF MainReturns, Shutdown, ProcessInit, Forget, locals, vars
  <1> QED  BY <1>2, <1>3, <1>4 DEF Next

LEMMA HolderInvariant == Spec => []HolderInv
  <1>1. Init => WaitSteps /\ OnlyWaitBlocks
    BY DEF Init, WaitSteps, OnlyWaitBlocks
  <1>2. TypeOK /\ WaitSteps /\ OnlyWaitBlocks /\ [Next]_vars => WaitSteps' /\ OnlyWaitBlocks'
    BY HoldersKept DEF HolderInv
  <1> QED  BY <1>1, <1>2, ProcessTypeCorrect, PTL DEF Spec, HolderInv

\* However many calls overlap, whoever holds the manager's mutex between two steps lets
\* it go with the callbacks, unless it is a Wait that calls FireExitCallbacks: nothing
\* else keeps Terminate from returning (Wait, Terminate, FireExitCallbacks).
THEOREM OnlyWaitsBlock == Spec => []OnlyWaitBlocks
  <1>1. HolderInv => OnlyWaitBlocks  BY DEF HolderInv
  <1> QED  BY <1>1, HolderInvariant, PTL

\* Both hold of the manager at once, for any number of threads and processes
\* (Terminate, LoadModule, Wait).
THEOREM ManagerStaysSound == Spec => []ManagerSound
  <1> QED  BY EveryModuleAccounted, OnlyWaitsBlock, PTL DEF ManagerSound

\* t has come to FireExitCallbacks with the mutex in its own hands.
Hung(t) == running[t] = "Wait" /\ pc[t] = "fire" /\ mtx = t

\* A Wait that has come there stays there and keeps the mutex for good: no step of any
\* thread, and no Shutdown, lets it go, so every later call on the manager waits for
\* ever.
THEOREM HungForGood == Spec => [][\A t \in Threads : Hung(t) => Hung(t)']_vars
  <1>1. ASSUME HolderInv, [Next]_vars, NEW t \in Threads, Hung(t)  PROVE Hung(t)'
    <2> USE <1>1 DEF Hung, HolderInv, TypeOK
    <2>1. ASSUME NEW u \in Threads, Call(u)  PROVE Hung(t)'
      BY <2>1 DEF Call, Create, RegisterExitCallback, Start, RequestExit, Wait, Terminate,
         LoadModule, Begin, Free, locals
    <2>2. ASSUME NEW u \in Threads, Step(u)  PROVE Hung(t)'
      <3>1. CASE Register(u) \/ Attach(u) \/ Reap(u) \/ FireLock(u)
        BY <3>1 DEF Register, Attach, Reap, FireLock, Free
      <3>2. CASE Joined(u) \/ JoinFails(u) \/ TerminateStop(u) \/ TerminateUnload(u)
        BY <3>2 DEF Joined, JoinFails, TerminateStop, TerminateUnload, Goto, Return
      <3>3. CASE FireDone(u)
        <4>1. pc[u] = "call" /\ mtx = u
          BY <3>3 DEF FireDone, WaitSteps
        <4> QED  BY <4>1
      <3> QED  BY <2>2, <3>1, <3>2, <3>3 DEF Step
    <2>3. CASE (\E p \in Pids : MainReturns(p)) \/ UNCHANGED vars
      BY <2>3 DEF MainReturns, locals, vars
    <2>4. CASE Shutdown \/ ProcessInit
      BY <2>4 DEF Shutdown, ProcessInit, Quiet
    <2> QED  BY <1>1, <2>1, <2>2, <2>3, <2>4 DEF Next
  <1>2. HolderInv /\ [Next]_vars => [\A t \in Threads : Hung(t) => Hung(t)']_vars
    BY <1>1
  <1> QED  BY <1>2, HolderInvariant, PTL DEF Spec

=============================================================================
