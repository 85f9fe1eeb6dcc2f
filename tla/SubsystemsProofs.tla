-------------------------- MODULE SubsystemsProofs --------------------------
(***************************************************************************)
(* The subsystem registry, the histograms of the metrics, the event bus,   *)
(* the input slots and profiles, and the memory manager's region table,    *)
(* for any subsystems, dependencies, recorders, publishers, handlers,      *)
(* pads, profiles and threads.                                             *)
(***************************************************************************)
EXTENDS Subsystems, KahnSortProofs

-----------------------------------------------------------------------------
(* The registry. *)
RtEntry == [state : SubsystemState, deps : SUBSET RtIds, optional : BOOLEAN]
RtCallType == [op : {"none", "InitAll", "ShutdownAll", "InitOne", "ShutdownOne"}, todo : Seq(RtIds),
               inside : BOOLEAN, ok : BOOLEAN]

RtShape ==
    /\ rtEntries \in [RtIds -> RtEntry]
    /\ rtOrder \in Seq(RtIds)
    /\ rtCall \in RtCallType
    /\ rtCall.inside => rtCall.todo # <<>>

NoneOnItself == \A k \in RtIds : k \notin Deps[k]

\* All that run are in the sequence.
Shown(seq, run) == \A k \in run : \E i \in 1 .. Len(seq) : seq[i] = k

\* In the order of start-up a subsystem that runs comes again after each place of what it
\* depends on, in the order of teardown before it.
Followed(seq, run, deps) ==
    \A k \in run : \A i \in 1 .. Len(seq) : seq[i] \in deps[k] => \E j \in i + 1 .. Len(seq) : seq[j] = k

Preceded(seq, run, deps) ==
    \A k \in run : \A i \in 1 .. Len(seq) : seq[i] \in deps[k] => \E j \in 1 .. i - 1 : seq[j] = k

OrderKept ==
    /\ Shown(rtOrder, RunningSubsystems)
    /\ Followed(rtOrder, RunningSubsystems, Deps)

\* S is still to come: what it depends on is behind it or comes before, and what is behind
\* has been started, or could not be.
OnTheWay(S) ==
    /\ Lists(rtCall.todo, RtIds, S)
    /\ S \subseteq Orderable
    /\ S \cap RunningSubsystems = {}
    /\ \A n \in 1 .. Len(rtCall.todo) : Deps[rtCall.todo[n]] \subseteq (Orderable \ S) \cup Before(rtCall.todo, n)
    /\ \A k \in Orderable \ S : Deps[k] \subseteq Orderable \ S
    /\ rtCall.ok => \A k \in Orderable \ S : rtEntries[k].optional \/ k \in RunningSubsystems
    /\ ~rtCall.ok => \E k \in Orderable \ S : ~rtEntries[k].optional /\ k \notin RunningSubsystems
    /\ \A k \in Orderable \ S : DepsMet(k) => rtEntries[k].state \in {"Running", "Failed"}

CallSound ==
    /\ rtCall.op = "none" => rtCall = RtIdle
    /\ rtCall.op = "InitAll" => \E S : OnTheWay(S)
    /\ rtCall.op = "InitOne" => rtCall.inside /\ Len(rtCall.todo) = 1
    /\ rtCall.op = "ShutdownAll" => Shown(rtCall.todo, RunningSubsystems) /\ Preceded(rtCall.todo, RunningSubsystems, Deps)
    /\ rtCall.op = "ShutdownOne" =>
          /\ Len(rtCall.todo) <= 1
          /\ rtCall.todo # <<>> /\ ~rtCall.inside => \A k \in RunningSubsystems : Head(rtCall.todo) \notin Deps[k]
    /\ rtCall.inside => Head(rtCall.todo) \in Registered \ RunningSubsystems

RtInv == RtShape /\ NoneOnItself /\ OrderKept /\ CallSound /\ DepsRunning

LEMMA RtInvInit == RuntimeInit => RtInv
  <1> SUFFICES ASSUME RuntimeInit PROVE RtInv
    OBVIOUS
  <1>1. rtOrder = <<>> /\ rtCall = RtIdle /\ rtEntries = [k \in RtIds |-> RtUnregistered]
    BY DEF RuntimeInit
  <1>2. \A k \in RtIds : rtEntries[k] = RtUnregistered
    BY <1>1
  <1>3. RunningSubsystems = {} /\ Inside = {}
    BY <1>1, <1>2 DEF RunningSubsystems, RtUnregistered, Inside, RtIdle
  <1>4. RtUnregistered \in RtEntry /\ RtIdle \in RtCallType /\ rtOrder \in Seq(RtIds)
    BY <1>1, EmptySeq DEF RtUnregistered, RtEntry, SubsystemState, RtIdle, RtCallType
  <1>5. RtShape
    BY <1>1, <1>4 DEF RtShape, RtIdle
  <1>6. NoneOnItself
    BY <1>2 DEF NoneOnItself, Deps, RtUnregistered
  <1>7. OrderKept
    BY <1>3 DEF OrderKept, Shown, Followed
  <1>8. CallSound
    BY <1>1, <1>3 DEF CallSound, RtIdle
  <1>9. DepsRunning
    BY <1>3 DEF DepsRunning
  <1> QED BY <1>5, <1>6, <1>7, <1>8, <1>9 DEF RtInv

-----------------------------------------------------------------------------
(* Orders. *)
LEMMA FollowedAppend ==
    ASSUME NEW seq \in Seq(RtIds), NEW run, NEW deps, Followed(seq, run, deps), Shown(seq, run), NEW k \in RtIds,
           \A m \in run : k \notin deps[m], k \notin deps[k]
    PROVE  Followed(Append(seq, k), run \cup {k}, deps) /\ Shown(Append(seq, k), run \cup {k})
  <1>1. PICK new : new = Append(seq, k)
    OBVIOUS
  <1>2. /\ Len(seq) \in Nat /\ Len(new) = Len(seq) + 1 /\ new[Len(seq) + 1] = k
        /\ \A i \in 1 .. Len(seq) : new[i] = seq[i]
    BY <1>1
  <1>3. \A i \in 1 .. Len(new) : i \in 1 .. Len(seq) \/ i = Len(seq) + 1
    BY <1>2
  <1>4. \A i \in 1 .. Len(seq) : i \in 1 .. Len(new)
    BY <1>2
  <1>5. ASSUME NEW m \in run \cup {k}, NEW i \in 1 .. Len(new), new[i] \in deps[m]
        PROVE  \E j \in i + 1 .. Len(new) : new[j] = m
    <2>1. i # Len(seq) + 1
      BY <1>2, <1>5
    <2>2. i \in 1 .. Len(seq) /\ seq[i] \in deps[m]
      BY <1>2, <1>3, <1>5, <2>1
    <2>3. CASE m \in run
      <3>1. PICK j \in i + 1 .. Len(seq) : seq[j] = m
        BY <2>2, <2>3 DEF Followed
      <3>2. j \in 1 .. Len(seq) /\ j \in i + 1 .. Len(new)
        BY <1>2, <2>2
      <3> QED BY <1>2, <3>1, <3>2
    <2>4. CASE m = k
      <3>1. Len(seq) + 1 \in i + 1 .. Len(new)
        BY <1>2, <2>2
      <3> QED BY <1>2, <2>4, <3>1
    <2> QED BY <2>3, <2>4
  <1>6. Shown(new, run \cup {k})
    <2>1. Len(seq) + 1 \in 1 .. Len(new)
      BY <1>2
    <2> QED BY <1>2, <1>4, <2>1 DEF Shown
  <1> QED BY <1>1, <1>5, <1>6 DEF Followed

LEMMA ReversePreceded ==
    ASSUME NEW seq \in Seq(RtIds), NEW run, NEW deps, Followed(seq, run, deps), Shown(seq, run)
    PROVE  Preceded(Reverse(seq), run, deps) /\ Shown(Reverse(seq), run) /\ Reverse(seq) \in Seq(RtIds)
  <1>1. PICK new : new = Reverse(seq)
    OBVIOUS
  <1>2. PICK n \in Nat : n = Len(seq)
    BY LenProperties
  <1>3. new = [i \in 1 .. n |-> seq[(n - i) + 1]]
    BY <1>1, <1>2 DEF Reverse
  <1>4. \A i \in 1 .. n : (n - i) + 1 \in 1 .. n /\ (n - ((n - i) + 1)) + 1 = i
    OBVIOUS
  <1>5. \A i \in 1 .. n : new[i] = seq[(n - i) + 1] /\ seq[i] = new[(n - i) + 1]
    BY <1>3, <1>4
  <1>6. new \in Seq(RtIds) /\ Len(new) = n
    <2>1. \A i \in 1 .. n : new[i] \in RtIds
      BY <1>2, <1>4, <1>5
    <2>2. new \in [1 .. n -> RtIds]
      BY <1>3, <2>1
    <2>3. new \in Seq(RtIds)
      BY <2>2, SeqDef
    <2> QED BY <2>2, <2>3, LenProperties
  <1>7. ASSUME NEW k \in run, NEW i \in 1 .. n, new[i] \in deps[k] PROVE \E j \in 1 .. i - 1 : new[j] = k
    <2>1. PICK a : a = (n - i) + 1
      OBVIOUS
    <2>2. a \in 1 .. n /\ seq[a] \in deps[k]
      BY <1>4, <1>5, <1>7, <2>1
    <2>3. PICK b \in a + 1 .. n : seq[b] = k
      BY <1>2, <2>2 DEF Followed
    <2>4. b \in 1 .. n /\ (n - b) + 1 \in 1 .. i - 1
      BY <2>1, <2>2
    <2> QED BY <1>5, <2>3, <2>4
  <1>8. Shown(new, run)
    BY <1>2, <1>4, <1>5, <1>6 DEF Shown
  <1> QED BY <1>1, <1>6, <1>7, <1>8 DEF Preceded

\* What is first in a teardown has nothing that runs depending on it, and may be dropped
\* once it does not run.
LEMMA PrecededHead ==
    ASSUME NEW seq \in Seq(RtIds), NEW run, NEW deps, Preceded(seq, run, deps), seq # <<>>
    PROVE  \A k \in run : Head(seq) \notin deps[k]
  <1>1. 1 \in 1 .. Len(seq) /\ Head(seq) = seq[1]
    BY EmptySeq
  <1>2. 1 .. (1 - 1) = {}
    OBVIOUS
  <1> QED BY <1>1, <1>2 DEF Preceded

LEMMA PrecededTail ==
    ASSUME NEW seq \in Seq(RtIds), NEW run, NEW deps, Preceded(seq, run, deps), Shown(seq, run), seq # <<>>,
           Head(seq) \notin run
    PROVE  Preceded(Tail(seq), run, deps) /\ Shown(Tail(seq), run)
  <1>1. PICK new : new = Tail(seq)
    OBVIOUS
  <1>2. /\ Len(seq) \in Nat /\ Len(seq) > 0 /\ Head(seq) = seq[1] /\ Len(new) = Len(seq) - 1
        /\ \A i \in 1 .. Len(new) : new[i] = seq[i + 1]
    BY <1>1, EmptySeq
  <1>3. \A i \in 1 .. Len(new) : i + 1 \in 1 .. Len(seq)
    BY <1>2
  <1>4. \A i \in 1 .. Len(seq) : i # 1 => i - 1 \in 1 .. Len(new) /\ (i - 1) + 1 = i
    BY <1>2
  <1>5. \A i \in 1 .. Len(seq) : i # 1 => i - 1 \in 1 .. Len(new) /\ new[i - 1] = seq[i]
    BY <1>2, <1>4
  <1>6. ASSUME NEW k \in run, NEW i \in 1 .. Len(new), new[i] \in deps[k] PROVE \E j \in 1 .. i - 1 : new[j] = k
    <2>1. seq[i + 1] \in deps[k] /\ i + 1 \in 1 .. Len(seq)
      BY <1>2, <1>3, <1>6
    <2>2. PICK j \in 1 .. (i + 1) - 1 : seq[j] = k
      BY <2>1 DEF Preceded
    <2>3. j # 1
      BY <1>2, <2>2
    <2>4. j \in 1 .. Len(seq) /\ j - 1 \in 1 .. i - 1
      BY <1>2, <2>2, <2>3
    <2> QED BY <1>5, <2>2, <2>3, <2>4
  <1>7. Shown(new, run)
    BY <1>2, <1>5 DEF Shown
  <1> QED BY <1>1, <1>6, <1>7 DEF Preceded

-----------------------------------------------------------------------------
(* One step of the registry. *)
LEMMA SetStateIs ==
    ASSUME RtShape, NEW k \in RtIds, NEW st \in SubsystemState, SetState(k, st)
    PROVE  /\ rtEntries' \in [RtIds -> RtEntry]
           /\ \A j \in RtIds : /\ rtEntries'[j].deps = rtEntries[j].deps
                               /\ rtEntries'[j].optional = rtEntries[j].optional
                               /\ rtEntries'[j].state = IF j = k THEN st ELSE rtEntries[j].state
           /\ Deps' = Deps
           /\ RunningSubsystems' = IF st = "Running" THEN RunningSubsystems \cup {k} ELSE RunningSubsystems \ {k}
           /\ st # "Unregistered" /\ k \in Registered => Registered' = Registered /\ Orderable' = Orderable
  <1>1. rtEntries \in [RtIds -> RtEntry] /\ rtEntries' = [rtEntries EXCEPT ![k].state = st]
    BY DEF RtShape, SetState
  <1>2. rtEntries' \in [RtIds -> RtEntry]
    BY <1>1 DEF RtEntry
  <1>3. \A j \in RtIds : /\ rtEntries'[j].deps = rtEntries[j].deps
                         /\ rtEntries'[j].optional = rtEntries[j].optional
                         /\ rtEntries'[j].state = IF j = k THEN st ELSE rtEntries[j].state
    BY <1>1 DEF RtEntry
  <1>4. Deps' = Deps
    BY <1>3 DEF Deps
  <1>5. RunningSubsystems' = IF st = "Running" THEN RunningSubsystems \cup {k} ELSE RunningSubsystems \ {k}
    BY <1>3 DEF RunningSubsystems
  <1>6. st # "Unregistered" /\ k \in Registered => Registered' = Registered
    BY <1>3 DEF Registered
  <1>7. Registered' = Registered => Orderable' = Orderable
    BY <1>4 DEF Orderable
  <1> QED BY <1>2, <1>3, <1>4, <1>5, <1>6, <1>7

LEMMA DepsTyped ==
    ASSUME RtShape
    PROVE  \A k \in RtIds : Deps[k] = rtEntries[k].deps /\ Deps[k] \subseteq RtIds /\ (DepsMet(k) <=> Deps[k] \subseteq RunningSubsystems)
  BY DEF RtShape, RtEntry, Deps, DepsMet

LEMMA TodoTyped ==
    ASSUME RtShape, rtCall.todo # <<>>
    PROVE  /\ Head(rtCall.todo) \in RtIds /\ Tail(rtCall.todo) \in Seq(RtIds)
           /\ Len(rtCall.todo) \in Nat \ {0} /\ Len(Tail(rtCall.todo)) = Len(rtCall.todo) - 1
  <1>1. rtCall.todo \in Seq(RtIds)
    BY DEF RtShape, RtCallType
  <1> QED BY <1>1, EmptySeq, HeadTailProperties

\* When there is no call and nothing runs, any table will do.
LEMMA NothingRuns ==
    ASSUME rtCall' = RtIdle, rtOrder' \in Seq(RtIds), RunningSubsystems' = {}, rtEntries' \in [RtIds -> RtEntry], NoneOnItself'
    PROVE  RtInv'
  <1>1. RtIdle \in RtCallType /\ RtIdle.op = "none" /\ ~RtIdle.inside
    BY EmptySeq DEF RtIdle, RtCallType
  <1>2. RtShape'
    BY <1>1 DEF RtShape
  <1>3. OrderKept'
    BY DEF OrderKept, Shown, Followed
  <1>4. CallSound'
    BY <1>1 DEF CallSound
  <1>5. DepsRunning'
    BY <1>1 DEF DepsRunning, Inside
  <1> QED BY <1>2, <1>3, <1>4, <1>5 DEF RtInv

LEMMA RegisterKeeps ==
    ASSUME RtInv, NEW k \in RtIds, NEW deps \in SUBSET RtIds, NEW optional \in BOOLEAN, Register(k, deps \ {k}, optional)
    PROVE  RtInv'
  <1>1. RtShape /\ NoneOnItself /\ OrderKept
    BY DEF RtInv
  <1>2. RunningSubsystems = {}
    <2>1. Len(rtOrder) = 0
      BY DEF Register
    <2> QED BY <1>1, <2>1 DEF OrderKept, Shown
  <1>3. PICK e : e = [state |-> "Registered", deps |-> deps \ {k}, optional |-> optional]
    OBVIOUS
  <1>4. e \in RtEntry /\ e.state # "Running" /\ k \notin e.deps
    BY <1>3 DEF RtEntry, SubsystemState
  <1>5. rtEntries' = [rtEntries EXCEPT ![k] = e] /\ rtCall' = rtCall /\ rtOrder' = rtOrder /\ rtCall = RtIdle
    BY <1>3 DEF Register
  <1>6. rtEntries \in [RtIds -> RtEntry]
    BY <1>1 DEF RtShape
  <1>7. rtEntries' \in [RtIds -> RtEntry] /\ \A j \in RtIds : rtEntries'[j] = IF j = k THEN e ELSE rtEntries[j]
    BY <1>4, <1>5, <1>6
  <1>8. RunningSubsystems' = {}
    BY <1>2, <1>4, <1>7 DEF RunningSubsystems
  <1>9. NoneOnItself'
    BY <1>1, <1>4, <1>7 DEF NoneOnItself, Deps
  <1> QED BY <1>1, <1>5, <1>7, <1>8, <1>9, NothingRuns DEF RtShape

LEMMA RegistryResetKeeps ==
    ASSUME RtInv, RuntimeReset PROVE RtInv'
  <1>1. rtEntries' = [k \in RtIds |-> RtUnregistered] /\ rtOrder' = <<>> /\ rtCall' = RtIdle
    BY DEF RuntimeReset
  <1>2. RtUnregistered \in RtEntry /\ \A k \in RtIds : rtEntries'[k] = RtUnregistered
    BY <1>1 DEF RtUnregistered, RtEntry, SubsystemState
  <1>3. RunningSubsystems' = {} /\ NoneOnItself'
    BY <1>2 DEF RunningSubsystems, RtUnregistered, NoneOnItself, Deps
  <1>4. rtEntries' \in [RtIds -> RtEntry]
    BY <1>1, <1>2
  <1> QED BY <1>1, <1>3, <1>4, NothingRuns, EmptySeq

\* Steps that leave the table and what has been started alone need only keep the call.
LEMMA TableKept ==
    ASSUME RtInv, UNCHANGED <<rtEntries, rtOrder>>, RtShape', CallSound', DepsRunning'
    PROVE  RtInv'
  <1>1. Deps' = Deps /\ RunningSubsystems' = RunningSubsystems
    BY DEF Deps, RunningSubsystems
  <1> QED BY <1>1 DEF RtInv, NoneOnItself, OrderKept

LEMMA InitAllKeeps ==
    ASSUME RtInv, NEW table \in SetToSeqs(Registered), NEW keys \in SetToSeqs(Registered), InitAll(table, keys)
    PROVE  RtInv'
  <1>1. RtShape /\ RunningSubsystems = {} /\ UNCHANGED <<rtEntries, rtOrder>>
    BY DEF RtInv, InitAll
  <1>2. IsFiniteSet(Registered) /\ Registered \subseteq RtIds
    BY RuntimeAssumption, FS_Subset DEF Registered, RuntimeAssumption
  <1>3. Lists(table, Registered, Registered) /\ Lists(keys, Registered, Registered)
    BY <1>2, SetToSeqsLists
  <1>4. PICK todo : todo = Kahn(Deps, table, keys)
    OBVIOUS
  <1>5. /\ Lists(todo, Registered, UNION {S \in SUBSET Registered : Grounded(Deps, S)})
        /\ \A n \in 1 .. Len(todo) : Deps[todo[n]] \subseteq Before(todo, n)
    BY <1>2, <1>3, <1>4, KahnOrdersAllThatCanBe
  <1>6. Lists(todo, Registered, Orderable)
    BY <1>5 DEF Orderable
  <1>7. Lists(todo, RtIds, Orderable)
    BY <1>2, <1>6, SeqMonotonic DEF Lists
  <1>8. rtCall' = [op |-> "InitAll", todo |-> todo, inside |-> FALSE, ok |-> TRUE]
    BY <1>4 DEF InitAll, TopoSort
  <1>9. rtCall'.op = "InitAll" /\ rtCall'.todo = todo /\ ~rtCall'.inside /\ rtCall'.ok
    BY <1>8
  <1>10. Deps' = Deps /\ RunningSubsystems' = {} /\ Orderable' = Orderable
    BY <1>1 DEF Deps, RunningSubsystems, Orderable, Registered
  <1>11. RtShape'
    BY <1>1, <1>7, <1>8 DEF RtShape, RtCallType, Lists
  <1>12. OnTheWay(Orderable)'
    BY <1>5, <1>7, <1>9, <1>10 DEF OnTheWay
  <1>13. CallSound'
    BY <1>9, <1>12 DEF CallSound
  <1>14. DepsRunning'
    BY <1>9, <1>10 DEF DepsRunning, Inside
  <1> QED BY <1>1, <1>11, <1>13, <1>14, TableKept

-----------------------------------------------------------------------------
(* The steps of InitAll. *)

\* What is at the head of the way.
LEMMA HeadOnTheWay ==
    ASSUME RtInv, NEW S, OnTheWay(S), rtCall.todo # <<>>
    PROVE  /\ Head(rtCall.todo) \in S /\ Head(rtCall.todo) \in Registered \ RunningSubsystems
           /\ Deps[Head(rtCall.todo)] \subseteq Orderable \ S
           /\ Lists(Tail(rtCall.todo), RtIds, S \ {Head(rtCall.todo)})
           /\ \A n \in 1 .. Len(Tail(rtCall.todo)) :
                 /\ n + 1 \in 1 .. Len(rtCall.todo) /\ Tail(rtCall.todo)[n] = rtCall.todo[n + 1]
                 /\ Before(rtCall.todo, n + 1) = {Head(rtCall.todo)} \cup Before(Tail(rtCall.todo), n)
  <1>1. PICK todo : todo = rtCall.todo
    OBVIOUS
  <1>2. Lists(todo, RtIds, S) /\ todo # <<>> /\ todo \in Seq(RtIds)
    BY <1>1 DEF OnTheWay, Lists
  <1>3. PICK h, rest : h = Head(todo) /\ rest = Tail(todo)
    OBVIOUS
  <1>4. /\ Len(todo) \in Nat /\ Len(todo) > 0 /\ h = todo[1] /\ rest \in Seq(RtIds) /\ Len(rest) = Len(todo) - 1
        /\ \A n \in 1 .. Len(rest) : rest[n] = todo[n + 1]
    BY <1>2, <1>3, EmptySeq
  <1>5. \A n \in 1 .. Len(rest) : n + 1 \in 1 .. Len(todo) /\ n + 1 # 1
    BY <1>4
  <1>6. \A n \in 1 .. Len(todo) : n = 1 \/ \E m \in 1 .. Len(rest) : n = m + 1
    <2> SUFFICES ASSUME NEW n \in 1 .. Len(todo), n # 1 PROVE \E m \in 1 .. Len(rest) : n = m + 1
      OBVIOUS
    <2>1. n - 1 \in 1 .. Len(rest) /\ n = (n - 1) + 1
      BY <1>4
    <2> QED BY <2>1
  <1>7. S = {todo[n] : n \in 1 .. Len(todo)} /\ \A n, m \in 1 .. Len(todo) : todo[n] = todo[m] => n = m
    BY <1>2 DEF Lists
  <1>8. 1 \in 1 .. Len(todo)
    BY <1>4
  <1>9. h \in S /\ \A n \in 1 .. Len(rest) : rest[n] \in S \ {h}
    BY <1>4, <1>5, <1>7, <1>8
  <1>10. Lists(rest, RtIds, S \ {h})
    <2>1. ASSUME NEW x \in S \ {h} PROVE x \in {rest[n] : n \in 1 .. Len(rest)}
      <3>1. PICK n \in 1 .. Len(todo) : x = todo[n]
        BY <1>7
      <3>2. n # 1
        BY <1>4, <2>1, <3>1
      <3>3. PICK m \in 1 .. Len(rest) : n = m + 1
        BY <1>6, <3>2
      <3> QED BY <1>4, <3>1, <3>3
    <2>2. S \ {h} = {rest[n] : n \in 1 .. Len(rest)}
      BY <1>9, <2>1
    <2>3. \A n, m \in 1 .. Len(rest) : n + 1 = m + 1 => n = m
      BY <1>4
    <2>4. \A n, m \in 1 .. Len(rest) : rest[n] = rest[m] => n = m
      BY <1>4, <1>5, <1>7, <2>3
    <2> QED BY <1>4, <2>2, <2>4 DEF Lists
  <1>11. ASSUME NEW n \in 1 .. Len(rest) PROVE Before(todo, n + 1) = {h} \cup Before(rest, n)
    <2>1. (n + 1) - 1 = n /\ n \in Nat
      BY <1>4
    <2>2. \A m \in 1 .. n : m = 1 \/ \E l \in 1 .. n - 1 : m = l + 1
      <3> SUFFICES ASSUME NEW m \in 1 .. n, m # 1 PROVE \E l \in 1 .. n - 1 : m = l + 1
        OBVIOUS
      <3>1. m - 1 \in 1 .. n - 1 /\ m = (m - 1) + 1
        BY <2>1
      <3> QED BY <3>1
    <2>3. \A l \in 1 .. n - 1 : l + 1 \in 1 .. n /\ l \in 1 .. Len(rest)
      BY <1>4
    <2>4. 1 \in 1 .. n
      BY <2>1
    <2>5. Before(todo, n + 1) = {todo[m] : m \in 1 .. n} /\ Before(rest, n) = {rest[m] : m \in 1 .. n - 1}
      BY <2>1 DEF Before
    <2>6. \A l \in 1 .. n - 1 : todo[l + 1] = rest[l]
      BY <1>4, <2>3
    <2>7. ASSUME NEW x \in Before(todo, n + 1) PROVE x \in {h} \cup Before(rest, n)
      <3>1. PICK m \in 1 .. n : x = todo[m]
        BY <2>5, <2>7
      <3>2. m = 1 \/ \E l \in 1 .. n - 1 : m = l + 1
        BY <2>2
      <3> QED BY ZenonT(40), <1>4, <2>5, <2>6, <3>1, <3>2
    <2>8. ASSUME NEW x \in {h} \cup Before(rest, n) PROVE x \in Before(todo, n + 1)
      <3>1. CASE x = h
        BY <1>4, <2>4, <2>5, <3>1
      <3>2. CASE x \in Before(rest, n)
        BY <2>3, <2>5, <2>6, <3>2
      <3> QED BY <2>8, <3>1, <3>2
    <2> QED BY <2>7, <2>8
  <1>12. Deps[h] \subseteq Orderable \ S
    <2>1. Deps[todo[1]] \subseteq (Orderable \ S) \cup Before(todo, 1)
      BY <1>1, <1>8 DEF OnTheWay
    <2>2. Before(todo, 1) = {}
      BY DEF Before
    <2> QED BY <1>4, <2>1, <2>2
  <1>13. h \in Registered \ RunningSubsystems
    BY <1>9 DEF OnTheWay, Orderable
  <1> QED BY <1>1, <1>3, <1>4, <1>5, <1>9, <1>10, <1>11, <1>12, <1>13

\* The way shortened by its head.
LEMMA WayShortened ==
    ASSUME RtInv, NEW S, OnTheWay(S), rtCall.todo # <<>>, NEW h, h = Head(rtCall.todo),
           rtCall'.todo = Tail(rtCall.todo), Deps' = Deps, Orderable' = Orderable,
           RunningSubsystems' \subseteq RunningSubsystems \cup {h}, RunningSubsystems \subseteq RunningSubsystems',
           \A j \in RtIds : rtEntries'[j].optional = rtEntries[j].optional,
           \A j \in RtIds \ {h} : rtEntries'[j].state = rtEntries[j].state,
           RtShape', RtShape,
           rtCall'.ok => rtCall.ok /\ (rtEntries[h].optional \/ h \in RunningSubsystems'),
           ~rtCall'.ok => ~rtCall.ok \/ (~rtEntries[h].optional /\ h \notin RunningSubsystems'),
           DepsMet(h)' => rtEntries'[h].state \in {"Running", "Failed"}
    PROVE  OnTheWay(S \ {h})'
  <1>1. /\ h \in S /\ h \in Registered \ RunningSubsystems
        /\ Deps[h] \subseteq Orderable \ S
        /\ Lists(Tail(rtCall.todo), RtIds, S \ {h})
        /\ \A n \in 1 .. Len(Tail(rtCall.todo)) :
              /\ n + 1 \in 1 .. Len(rtCall.todo) /\ Tail(rtCall.todo)[n] = rtCall.todo[n + 1]
              /\ Before(rtCall.todo, n + 1) = {h} \cup Before(Tail(rtCall.todo), n)
    BY HeadOnTheWay
  <1>2. /\ S \subseteq Orderable /\ S \cap RunningSubsystems = {}
        /\ \A n \in 1 .. Len(rtCall.todo) : Deps[rtCall.todo[n]] \subseteq (Orderable \ S) \cup Before(rtCall.todo, n)
        /\ \A k \in Orderable \ S : Deps[k] \subseteq Orderable \ S
        /\ rtCall.ok => \A k \in Orderable \ S : rtEntries[k].optional \/ k \in RunningSubsystems
        /\ ~rtCall.ok => \E k \in Orderable \ S : ~rtEntries[k].optional /\ k \notin RunningSubsystems
        /\ \A k \in Orderable \ S : DepsMet(k) => rtEntries[k].state \in {"Running", "Failed"}
    BY DEF OnTheWay
  <1>3. Orderable \subseteq RtIds
    BY DEF Orderable, Registered
  <1>4. Orderable \ (S \ {h}) = (Orderable \ S) \cup {h} /\ h \notin Orderable \ S
    BY <1>1, <1>2
  <1>5. (S \ {h}) \cap RunningSubsystems' = {}
    BY <1>2
  <1>6. ASSUME NEW n \in 1 .. Len(Tail(rtCall.todo))
        PROVE  Deps[Tail(rtCall.todo)[n]] \subseteq (Orderable \ (S \ {h})) \cup Before(Tail(rtCall.todo), n)
    BY <1>1, <1>2, <1>4, <1>6
  <1>7. \A k \in Orderable \ (S \ {h}) : Deps[k] \subseteq Orderable \ (S \ {h})
    BY <1>1, <1>2, <1>4
  <1>8. \A k \in Orderable \ S : k \in RunningSubsystems' => k \in RunningSubsystems
    BY <1>4
  <1>9. rtCall'.ok => \A k \in Orderable \ (S \ {h}) : rtEntries'[k].optional \/ k \in RunningSubsystems'
    BY <1>2, <1>3, <1>4, <1>1
  <1>10. ~rtCall'.ok => \E k \in Orderable \ (S \ {h}) : ~rtEntries'[k].optional /\ k \notin RunningSubsystems'
    BY <1>2, <1>3, <1>4, <1>1, <1>8
  <1>11. ASSUME NEW k \in Orderable \ (S \ {h}), DepsMet(k)' PROVE rtEntries'[k].state \in {"Running", "Failed"}
    <2>1. CASE k = h
      BY <1>11, <2>1
    <2>2. CASE k \in Orderable \ S
      <3>1. Deps[k] \subseteq RunningSubsystems'
        BY <1>3, <1>11, DepsTyped DEF RtShape, RtEntry, DepsMet, Deps
      <3>2. h \notin Deps[k]
        BY <1>1, <1>2, <2>2
      <3>3. DepsMet(k)
        BY <1>3, <2>2, <3>1, <3>2, DepsTyped
      <3> QED BY <1>2, <1>3, <1>4, <2>2, <3>3
    <2> QED BY <1>4, <2>1, <2>2
  <1> QED BY <1>1, <1>2, <1>5, <1>6, <1>7, <1>9, <1>10, <1>11 DEF OnTheWay

LEMMA InitAllCheckKeeps ==
    ASSUME RtInv, InitAllCheck PROVE RtInv'
  <1>1. /\ RtShape /\ NoneOnItself /\ OrderKept /\ DepsRunning /\ CallSound
        /\ rtCall.op = "InitAll" /\ ~rtCall.inside /\ rtCall.todo # <<>> /\ rtOrder' = rtOrder
    BY DEF RtInv, InitAllCheck
  <1>2. PICK S : OnTheWay(S)
    BY <1>1 DEF CallSound
  <1>3. PICK h : h = Head(rtCall.todo)
    OBVIOUS
  <1>4. h \in S /\ h \in Registered \ RunningSubsystems /\ h \in RtIds
    BY <1>1, <1>2, <1>3, HeadOnTheWay, TodoTyped
  <1>5. PICK st \in {"Initialising", "Failed"} : /\ SetState(h, st)
                                                 /\ DepsMet(h) => st = "Initialising"
                                                 /\ ~DepsMet(h) => (st = "Failed" <=> ~rtEntries[h].optional)
    BY <1>3 DEF InitAllCheck
  <1>6. st \in SubsystemState /\ st # "Running" /\ st # "Unregistered"
    BY DEF SubsystemState
  <1>7. /\ rtEntries' \in [RtIds -> RtEntry] /\ Deps' = Deps /\ Orderable' = Orderable
        /\ RunningSubsystems' = RunningSubsystems /\ Registered' = Registered
        /\ \A j \in RtIds : /\ rtEntries'[j].deps = rtEntries[j].deps
                            /\ rtEntries'[j].optional = rtEntries[j].optional
                            /\ rtEntries'[j].state = IF j = h THEN st ELSE rtEntries[j].state
    <2>1. RunningSubsystems' = RunningSubsystems \ {h}
      BY <1>1, <1>4, <1>5, <1>6, SetStateIs
    <2>2. RunningSubsystems' = RunningSubsystems
      BY <1>4, <2>1
    <2> QED BY <1>1, <1>4, <1>5, <1>6, <2>2, SetStateIs
  <1>8. rtCall \in RtCallType /\ Tail(rtCall.todo) \in Seq(RtIds)
    BY <1>1, TodoTyped DEF RtShape
  <1>9. NoneOnItself' /\ OrderKept'
    BY <1>1, <1>7 DEF NoneOnItself, OrderKept
  <1>10. \A k \in RtIds : DepsMet(k)' <=> DepsMet(k)
    BY <1>7 DEF DepsMet
  <1>11. RunningSubsystems \subseteq RtIds
    BY DEF RunningSubsystems
  <1>12. CASE DepsMet(h)
    <2>1. rtCall' = [rtCall EXCEPT !.inside = TRUE]
      BY <1>3, <1>12 DEF InitAllCheck
    <2>2. /\ rtCall' \in RtCallType /\ rtCall'.op = "InitAll" /\ rtCall'.todo = rtCall.todo
          /\ rtCall'.inside /\ rtCall'.ok = rtCall.ok
      BY <1>1, <1>8, <2>1 DEF RtCallType
    <2>3. RtShape'
      BY <1>1, <1>7, <2>2 DEF RtShape
    <2>4. OnTheWay(S)'
      <3>1. /\ Lists(rtCall.todo, RtIds, S) /\ S \subseteq Orderable /\ S \cap RunningSubsystems = {}
            /\ \A n \in 1 .. Len(rtCall.todo) : Deps[rtCall.todo[n]] \subseteq (Orderable \ S) \cup Before(rtCall.todo, n)
            /\ \A k \in Orderable \ S : Deps[k] \subseteq Orderable \ S
            /\ rtCall.ok => \A k \in Orderable \ S : rtEntries[k].optional \/ k \in RunningSubsystems
            /\ ~rtCall.ok => \E k \in Orderable \ S : ~rtEntries[k].optional /\ k \notin RunningSubsystems
            /\ \A k \in Orderable \ S : DepsMet(k) => rtEntries[k].state \in {"Running", "Failed"}
        BY <1>2 DEF OnTheWay
      <3>2. Orderable \ S \subseteq RtIds \ {h}
        BY <1>4 DEF Orderable, Registered
      <3>3. \A k \in Orderable \ S : rtEntries'[k].optional = rtEntries[k].optional /\ rtEntries'[k].state = rtEntries[k].state
                                     /\ (DepsMet(k)' <=> DepsMet(k))
        BY <1>7, <1>10, <3>2
      <3> QED BY <1>7, <2>2, <3>1, <3>3 DEF OnTheWay
    <2>5. CallSound'
      BY <1>3, <1>4, <1>7, <2>2, <2>4 DEF CallSound
    <2>6. DepsRunning'
      BY <1>1, <1>3, <1>4, <1>7, <1>10, <1>11, <1>12, <2>2 DEF DepsRunning, Inside
    <2> QED BY <1>9, <2>3, <2>5, <2>6 DEF RtInv
  <1>13. CASE ~DepsMet(h)
    <2>1. rtCall' = [rtCall EXCEPT !.todo = Tail(rtCall.todo), !.ok = rtCall.ok /\ ~(~rtEntries[h].optional)]
      BY <1>3, <1>13 DEF InitAllCheck
    <2>2. PICK ok \in BOOLEAN : /\ ok => rtCall.ok /\ rtEntries[h].optional
                                /\ ~ok => ~rtCall.ok \/ ~rtEntries[h].optional
                                /\ rtCall' = [rtCall EXCEPT !.todo = Tail(rtCall.todo), !.ok = ok]
      BY <2>1
    <2>3. /\ rtCall' \in RtCallType /\ rtCall'.op = "InitAll" /\ rtCall'.todo = Tail(rtCall.todo)
          /\ ~rtCall'.inside /\ rtCall'.ok = ok
      BY <1>1, <1>8, <2>2 DEF RtCallType
    <2>4. RtShape'
      BY <1>1, <1>7, <2>3 DEF RtShape
    <2>5. OnTheWay(S \ {h})'
      BY <1>1, <1>2, <1>3, <1>4, <1>7, <1>10, <1>13, <2>2, <2>3, <2>4, WayShortened
    <2>6. CallSound'
      BY <2>3, <2>5 DEF CallSound
    <2>7. DepsRunning'
      BY <1>1, <1>7, <1>10, <1>11, <2>3 DEF DepsRunning, Inside
    <2> QED BY <1>9, <2>4, <2>6, <2>7 DEF RtInv
  <1> QED BY <1>12, <1>13

\* A subsystem whose dependencies run is started and takes its place in the order.
LEMMA StartedInOrder ==
    ASSUME RtInv, NEW h \in RtIds, h \in Registered \ RunningSubsystems, DepsMet(h), SetState(h, "Running"),
           rtOrder' = Append(rtOrder, h)
    PROVE  OrderKept' /\ NoneOnItself' /\ rtOrder' \in Seq(RtIds) /\ \A k \in RunningSubsystems' : DepsMet(k)'
  <1>1. RtShape /\ NoneOnItself /\ OrderKept /\ DepsRunning
    BY DEF RtInv
  <1>2. "Running" \in SubsystemState
    BY DEF SubsystemState
  <1>3. RunningSubsystems' = RunningSubsystems \cup {h} /\ Deps' = Deps
        /\ \A j \in RtIds : rtEntries'[j].deps = rtEntries[j].deps
    BY <1>1, <1>2, SetStateIs
  <1>4. \A m \in RunningSubsystems : Deps[m] \subseteq RunningSubsystems /\ m \in RtIds
    BY <1>1, DepsTyped DEF DepsRunning, RunningSubsystems
  <1>5. Deps[h] \subseteq RunningSubsystems /\ h \notin Deps[h]
    BY <1>1, DepsTyped DEF NoneOnItself
  <1>6. \A m \in RunningSubsystems : h \notin Deps[m]
    BY <1>4
  <1>7. rtOrder \in Seq(RtIds)
    BY <1>1 DEF RtShape
  <1>8. Followed(rtOrder', RunningSubsystems \cup {h}, Deps) /\ Shown(rtOrder', RunningSubsystems \cup {h})
    BY <1>1, <1>5, <1>6, <1>7, FollowedAppend DEF OrderKept
  <1>9. OrderKept'
    BY <1>3, <1>8 DEF OrderKept
  <1>10. NoneOnItself'
    BY <1>1, <1>3 DEF NoneOnItself
  <1>11. ASSUME NEW k \in RunningSubsystems' PROVE DepsMet(k)'
    <2>1. k \in RtIds /\ Deps[k] \subseteq RunningSubsystems
      BY <1>3, <1>4, <1>5
    <2>2. rtEntries'[k].deps \subseteq RunningSubsystems'
      BY <1>1, <1>3, <2>1, DepsTyped
    <2> QED BY <2>2 DEF DepsMet
  <1>12. rtOrder' \in Seq(RtIds)
    BY <1>7
  <1> QED BY <1>9, <1>10, <1>11, <1>12

\* One that does not run changes its state and still does not.
LEMMA NotStarted ==
    ASSUME RtInv, NEW h \in RtIds, h \notin RunningSubsystems, NEW st \in SubsystemState, st # "Running",
           SetState(h, st), rtOrder' = rtOrder
    PROVE  /\ OrderKept' /\ NoneOnItself' /\ rtOrder' \in Seq(RtIds) /\ RunningSubsystems' = RunningSubsystems
           /\ \A k \in RtIds : DepsMet(k)' <=> DepsMet(k)
           /\ \A k \in RunningSubsystems' : DepsMet(k)'
  <1>1. RtShape /\ NoneOnItself /\ OrderKept /\ DepsRunning
    BY DEF RtInv
  <1>2. RunningSubsystems' = RunningSubsystems \ {h} /\ Deps' = Deps
        /\ \A j \in RtIds : rtEntries'[j].deps = rtEntries[j].deps
    BY <1>1, SetStateIs
  <1>3. RunningSubsystems' = RunningSubsystems
    BY <1>2
  <1>4. \A k \in RtIds : DepsMet(k)' <=> DepsMet(k)
    BY <1>2, <1>3 DEF DepsMet
  <1>5. RunningSubsystems \subseteq RtIds
    BY DEF RunningSubsystems
  <1>6. \A k \in RunningSubsystems' : DepsMet(k)'
    BY <1>1, <1>3, <1>4, <1>5 DEF DepsRunning
  <1> QED BY <1>1, <1>2, <1>3, <1>4, <1>6 DEF OrderKept, NoneOnItself, RtShape

LEMMA InitAllRecordKeeps ==
    ASSUME RtInv, NEW initOk \in BOOLEAN, InitAllRecord(initOk) PROVE RtInv'
  <1>1. /\ RtShape /\ NoneOnItself /\ OrderKept /\ DepsRunning /\ CallSound
        /\ rtCall.op = "InitAll" /\ rtCall.inside /\ rtCall.todo # <<>>
    BY DEF RtInv, InitAllRecord, RtShape
  <1>2. PICK S : OnTheWay(S)
    BY <1>1 DEF CallSound
  <1>3. PICK h : h = Head(rtCall.todo)
    OBVIOUS
  <1>4. h \in S /\ h \in Registered \ RunningSubsystems /\ h \in RtIds /\ DepsMet(h)
    BY <1>1, <1>2, <1>3, HeadOnTheWay, TodoTyped DEF DepsRunning, Inside
  <1>5. PICK st \in {"Running", "Failed"} : /\ SetState(h, st) /\ (initOk <=> st = "Running")
                                            /\ rtOrder' = IF initOk THEN Append(rtOrder, h) ELSE rtOrder
    BY <1>3 DEF InitAllRecord
  <1>6. st \in SubsystemState /\ st # "Unregistered"
    BY DEF SubsystemState
  <1>7. /\ rtEntries' \in [RtIds -> RtEntry] /\ Deps' = Deps /\ Orderable' = Orderable
        /\ RunningSubsystems' = IF st = "Running" THEN RunningSubsystems \cup {h} ELSE RunningSubsystems \ {h}
        /\ \A j \in RtIds : /\ rtEntries'[j].deps = rtEntries[j].deps
                            /\ rtEntries'[j].optional = rtEntries[j].optional
                            /\ rtEntries'[j].state = IF j = h THEN st ELSE rtEntries[j].state
    BY <1>1, <1>4, <1>5, <1>6, SetStateIs
  <1>8. OrderKept' /\ NoneOnItself' /\ rtOrder' \in Seq(RtIds) /\ \A k \in RunningSubsystems' : DepsMet(k)'
    <2>1. CASE initOk
      BY <1>4, <1>5, <2>1, StartedInOrder
    <2>2. CASE ~initOk
      BY <1>4, <1>5, <1>6, <2>2, NotStarted
    <2> QED BY <2>1, <2>2
  <1>9. rtCall \in RtCallType /\ Tail(rtCall.todo) \in Seq(RtIds)
    BY <1>1, TodoTyped DEF RtShape
  <1>10. PICK ok \in BOOLEAN : /\ ok => rtCall.ok /\ (initOk \/ rtEntries[h].optional)
                               /\ ~ok => ~rtCall.ok \/ (~initOk /\ ~rtEntries[h].optional)
                               /\ rtCall' = [rtCall EXCEPT !.inside = FALSE, !.todo = Tail(rtCall.todo), !.ok = ok]
    <2>1. PICK ok : ok = (rtCall.ok /\ (initOk \/ rtEntries[h].optional))
      OBVIOUS
    <2>2. rtCall' = [rtCall EXCEPT !.inside = FALSE, !.todo = Tail(rtCall.todo), !.ok = ok]
      BY <1>3, <2>1 DEF InitAllRecord
    <2> QED BY <2>1, <2>2
  <1>11. /\ rtCall' \in RtCallType /\ rtCall'.op = "InitAll" /\ rtCall'.todo = Tail(rtCall.todo)
         /\ ~rtCall'.inside /\ rtCall'.ok = ok
    BY <1>1, <1>9, <1>10 DEF RtCallType
  <1>12. RtShape'
    BY <1>7, <1>8, <1>11 DEF RtShape
  <1>13. h \in RunningSubsystems' <=> initOk
    BY <1>4, <1>5, <1>7
  <1>14. RunningSubsystems \subseteq RunningSubsystems' /\ RunningSubsystems' \subseteq RunningSubsystems \cup {h}
    BY <1>4, <1>7
  <1>15. OnTheWay(S \ {h})'
    BY <1>1, <1>2, <1>3, <1>4, <1>7, <1>10, <1>11, <1>12, <1>13, <1>14, WayShortened
  <1>16. CallSound'
    BY <1>11, <1>15 DEF CallSound
  <1>17. DepsRunning'
    BY <1>8, <1>11 DEF DepsRunning, Inside
  <1> QED BY <1>8, <1>12, <1>16, <1>17 DEF RtInv

-----------------------------------------------------------------------------
(* Single starts, and returns. *)
LEMMA IdleIs ==
    RtIdle \in RtCallType /\ RtIdle.op = "none" /\ ~RtIdle.inside
  BY EmptySeq DEF RtIdle, RtCallType

LEMMA InitOneKeeps ==
    ASSUME RtInv, NEW k \in RtIds, InitOne(k) PROVE RtInv'
  <1>1. "Initialising" \in SubsystemState /\ RtShape /\ DepsMet(k) /\ k \in Registered \ RunningSubsystems
        /\ SetState(k, "Initialising") /\ rtOrder' = rtOrder
    BY DEF SubsystemState, RtInv, InitOne
  <1>2. /\ OrderKept' /\ NoneOnItself' /\ rtOrder' \in Seq(RtIds) /\ RunningSubsystems' = RunningSubsystems
        /\ \A j \in RtIds : DepsMet(j)' <=> DepsMet(j)
        /\ \A j \in RunningSubsystems' : DepsMet(j)'
    BY <1>1, NotStarted
  <1>3. Registered' = Registered /\ rtEntries' \in [RtIds -> RtEntry]
    BY <1>1, SetStateIs
  <1>4. rtCall' = [op |-> "InitOne", todo |-> <<k>>, inside |-> TRUE, ok |-> TRUE]
    BY DEF InitOne, RtIdle
  <1>5. rtCall'.op = "InitOne" /\ rtCall'.todo = <<k>> /\ rtCall'.inside /\ <<k>> \in Seq(RtIds) /\ <<k>> # <<>>
        /\ Head(<<k>>) = k /\ Len(<<k>>) = 1
    BY <1>4
  <1>6. RtShape'
    BY <1>2, <1>3, <1>4, <1>5 DEF RtShape, RtCallType
  <1>7. CallSound'
    BY <1>1, <1>2, <1>3, <1>5 DEF CallSound
  <1>8. DepsRunning'
    BY <1>1, <1>2, <1>5 DEF DepsRunning, Inside
  <1> QED BY <1>2, <1>6, <1>7, <1>8 DEF RtInv

LEMMA InitOneReturnKeeps ==
    ASSUME RtInv, NEW initOk \in BOOLEAN, InitOneReturn(initOk) PROVE RtInv'
  <1>1. RtShape /\ CallSound /\ DepsRunning /\ rtCall.op = "InitOne" /\ rtCall' = RtIdle
    BY DEF RtInv, InitOneReturn
  <1>2. PICK h : h = Head(rtCall.todo)
    OBVIOUS
  <1>3. rtCall.inside /\ rtCall.todo # <<>> /\ h \in Registered \ RunningSubsystems /\ h \in RtIds
    BY <1>1, <1>2, TodoTyped DEF CallSound, RtShape
  <1>4. DepsMet(h)
    BY <1>1, <1>2, <1>3 DEF DepsRunning, Inside
  <1>5. PICK st \in {"Running", "Failed"} : /\ SetState(h, st) /\ (initOk <=> st = "Running")
                                            /\ rtOrder' = IF initOk THEN Append(rtOrder, h) ELSE rtOrder
    BY <1>2 DEF InitOneReturn
  <1>6. st \in SubsystemState
    BY DEF SubsystemState
  <1>7. OrderKept' /\ NoneOnItself' /\ rtOrder' \in Seq(RtIds) /\ \A k \in RunningSubsystems' : DepsMet(k)'
    <2>1. CASE initOk
      BY <1>3, <1>4, <1>5, <2>1, StartedInOrder
    <2>2. CASE ~initOk
      BY <1>3, <1>5, <1>6, <2>2, NotStarted
    <2> QED BY <2>1, <2>2
  <1>8. rtEntries' \in [RtIds -> RtEntry]
    BY <1>1, <1>3, <1>5, <1>6, SetStateIs
  <1>9. RtShape' /\ CallSound' /\ DepsRunning'
    BY <1>1, <1>7, <1>8, IdleIs DEF RtShape, CallSound, DepsRunning, Inside
  <1> QED BY <1>7, <1>9 DEF RtInv

LEMMA CallReturnKeeps ==
    ASSUME RtInv, InitAllReturn \/ ShutdownReturn PROVE RtInv'
  <1>1. RtShape /\ CallSound /\ DepsRunning /\ rtCall' = RtIdle /\ rtEntries' = rtEntries /\ NoneOnItself
    BY DEF RtInv, InitAllReturn, ShutdownReturn
  <1>2. RunningSubsystems' = RunningSubsystems /\ Deps' = Deps
    BY <1>1 DEF RunningSubsystems, Deps
  <1>3. \A k \in RunningSubsystems' : DepsMet(k)'
    BY <1>1, <1>2 DEF DepsRunning, DepsMet
  <1>4. CallSound' /\ DepsRunning'
    BY <1>1, <1>3, IdleIs DEF CallSound, DepsRunning, Inside
  <1>5. CASE rtOrder' = rtOrder
    <2>1. RtShape'
      BY <1>1, <1>5, IdleIs DEF RtShape
    <2> QED BY <1>1, <1>4, <1>5, <2>1, TableKept
  <1>6. CASE rtCall.op = "ShutdownAll" /\ rtCall.todo = <<>> /\ rtOrder' = <<>>
    <2>1. Shown(rtCall.todo, RunningSubsystems) /\ Len(rtCall.todo) = 0
      BY <1>1, <1>6 DEF CallSound
    <2>2. RunningSubsystems = {}
      BY <2>1 DEF Shown
    <2>3. NoneOnItself'
      BY <1>1, <1>2 DEF NoneOnItself
    <2>4. rtEntries' \in [RtIds -> RtEntry] /\ rtOrder' \in Seq(RtIds)
      BY <1>1, <1>6, EmptySeq DEF RtShape
    <2> QED BY <1>1, <1>2, <2>2, <2>3, <2>4, NothingRuns
  <1> QED BY <1>5, <1>6 DEF InitAllReturn, ShutdownReturn

-----------------------------------------------------------------------------
(* Teardown. *)
LEMMA ShutdownAllKeeps ==
    ASSUME RtInv, ShutdownAll PROVE RtInv'
  <1>1. RtShape /\ DepsRunning /\ OrderKept /\ UNCHANGED <<rtEntries, rtOrder>> /\ rtCall = RtIdle
    BY DEF RtInv, ShutdownAll
  <1>2. RunningSubsystems' = RunningSubsystems /\ Deps' = Deps /\ Registered' = Registered
    BY <1>1 DEF RunningSubsystems, Deps, Registered
  <1>3. \A j \in RunningSubsystems' : DepsMet(j)'
    BY <1>1, <1>2 DEF DepsRunning, DepsMet
  <1>4. PICK todo : todo = Reverse(rtOrder)
    OBVIOUS
  <1>5. rtCall' = [op |-> "ShutdownAll", todo |-> todo, inside |-> FALSE, ok |-> TRUE]
    BY <1>4 DEF ShutdownAll, RtIdle
  <1>6. rtCall'.op = "ShutdownAll" /\ rtCall'.todo = todo /\ ~rtCall'.inside
    BY <1>5
  <1>7. todo \in Seq(RtIds) /\ Shown(todo, RunningSubsystems) /\ Preceded(todo, RunningSubsystems, Deps)
    BY <1>1, <1>4, ReversePreceded DEF OrderKept, RtShape
  <1>8. RtShape'
    BY <1>1, <1>5, <1>7 DEF RtShape, RtCallType
  <1>9. CallSound' /\ DepsRunning'
    BY <1>2, <1>3, <1>6, <1>7 DEF CallSound, DepsRunning, Inside
  <1> QED BY <1>1, <1>8, <1>9, TableKept

LEMMA ShutdownOneKeeps ==
    ASSUME RtInv, NEW k \in RtIds, ShutdownOne(k) PROVE RtInv'
  <1>1. RtShape /\ DepsRunning /\ OrderKept /\ UNCHANGED <<rtEntries, rtOrder>> /\ rtCall = RtIdle
    BY DEF RtInv, ShutdownOne
  <1>2. RunningSubsystems' = RunningSubsystems /\ Deps' = Deps /\ Registered' = Registered
    BY <1>1 DEF RunningSubsystems, Deps, Registered
  <1>3. \A j \in RunningSubsystems' : DepsMet(j)'
    BY <1>1, <1>2 DEF DepsRunning, DepsMet
  <1>4. rtCall' = [op |-> "ShutdownOne", todo |-> <<k>>, inside |-> FALSE, ok |-> TRUE]
    BY DEF ShutdownOne, RtIdle
  <1>5. rtCall'.op = "ShutdownOne" /\ rtCall'.todo = <<k>> /\ ~rtCall'.inside
    BY <1>4
  <1>6. <<k>> \in Seq(RtIds) /\ Len(<<k>>) = 1 /\ Head(<<k>>) = k
    OBVIOUS
  <1>7. \A j \in RunningSubsystems : k \notin Deps[j]
    BY DEF ShutdownOne, Deps, RunningSubsystems
  <1>8. RtShape'
    BY <1>1, <1>4, <1>6 DEF RtShape, RtCallType
  <1>9. CallSound' /\ DepsRunning'
    BY <1>2, <1>3, <1>5, <1>6, <1>7 DEF CallSound, DepsRunning, Inside
  <1> QED BY <1>1, <1>8, <1>9, TableKept

\* A subsystem that nothing running depends on may stop.
LEMMA FewerRunInOrder ==
    ASSUME RtInv, NEW h \in RtIds, NEW st \in SubsystemState, st # "Running", SetState(h, st), rtOrder' = rtOrder,
           \A k \in RunningSubsystems : h \notin Deps[k]
    PROVE  /\ OrderKept' /\ NoneOnItself' /\ RunningSubsystems' = RunningSubsystems \ {h} /\ Deps' = Deps
           /\ rtEntries' \in [RtIds -> RtEntry]
           /\ \A k \in RtIds : DepsMet(k) /\ h \notin Deps[k] => DepsMet(k)'
           /\ \A k \in RunningSubsystems' : DepsMet(k)'
           /\ st # "Unregistered" /\ h \in Registered => Registered' = Registered
  <1>1. RtShape /\ NoneOnItself /\ OrderKept /\ DepsRunning
    BY DEF RtInv
  <1>2. /\ RunningSubsystems' = RunningSubsystems \ {h} /\ Deps' = Deps
        /\ rtEntries' \in [RtIds -> RtEntry]
        /\ \A j \in RtIds : rtEntries'[j].deps = rtEntries[j].deps
        /\ st # "Unregistered" /\ h \in Registered => Registered' = Registered
    BY <1>1, SetStateIs
  <1>3. \A k \in RtIds : DepsMet(k) /\ h \notin Deps[k] => DepsMet(k)'
    BY <1>1, <1>2, DepsTyped DEF DepsMet
  <1>4. \A k \in RunningSubsystems' : DepsMet(k)'
    BY <1>1, <1>2, <1>3 DEF DepsRunning, RunningSubsystems
  <1>5. OrderKept'
    BY <1>1, <1>2 DEF OrderKept, Shown, Followed
  <1> QED BY <1>1, <1>2, <1>3, <1>4, <1>5 DEF NoneOnItself

LEMMA LastTaken ==
    ASSUME NEW seq \in Seq(RtIds), seq # <<>>, Len(seq) <= 1 PROVE Tail(seq) = <<>>
  <1>1. Tail(seq) \in Seq(RtIds) /\ Len(seq) \in Nat \ {0} /\ Len(Tail(seq)) = Len(seq) - 1
    BY EmptySeq, HeadTailProperties
  <1>2. Len(Tail(seq)) = 0
    BY <1>1
  <1> QED BY <1>1, <1>2, EmptySeq

LEMMA ShutdownBeginKeeps ==
    ASSUME RtInv, ShutdownBegin PROVE RtInv'
  <1>1. /\ RtShape /\ NoneOnItself /\ OrderKept /\ DepsRunning /\ CallSound /\ rtOrder' = rtOrder
        /\ rtCall.op \in {"ShutdownAll", "ShutdownOne"} /\ ~rtCall.inside /\ rtCall.todo # <<>>
    BY DEF RtInv, ShutdownBegin
  <1>2. PICK h : h = Head(rtCall.todo)
    OBVIOUS
  <1>3. /\ h \in RtIds /\ rtCall.todo \in Seq(RtIds) /\ Tail(rtCall.todo) \in Seq(RtIds)
        /\ Len(rtCall.todo) \in Nat \ {0} /\ Len(Tail(rtCall.todo)) = Len(rtCall.todo) - 1
    BY <1>1, <1>2, TodoTyped DEF RtShape, RtCallType
  <1>4. \A k \in RunningSubsystems : h \notin Deps[k]
    BY <1>1, <1>2, <1>3, PrecededHead DEF CallSound
  <1>5. rtCall \in RtCallType
    BY <1>1 DEF RtShape
  <1>6. CASE h \in RunningSubsystems
    <2>1. SetState(h, "ShuttingDown") /\ rtCall' = [rtCall EXCEPT !.inside = TRUE]
      BY <1>2, <1>6 DEF ShutdownBegin
    <2>2. "ShuttingDown" \in SubsystemState /\ h \in Registered
      BY <1>6 DEF SubsystemState, Registered, RunningSubsystems
    <2>3. /\ OrderKept' /\ NoneOnItself' /\ RunningSubsystems' = RunningSubsystems \ {h} /\ Deps' = Deps
          /\ rtEntries' \in [RtIds -> RtEntry]
          /\ \A k \in RtIds : DepsMet(k) /\ h \notin Deps[k] => DepsMet(k)'
          /\ \A k \in RunningSubsystems' : DepsMet(k)'
          /\ Registered' = Registered
      BY <1>1, <1>3, <1>4, <2>1, <2>2, FewerRunInOrder
    <2>4. /\ rtCall' \in RtCallType /\ rtCall'.op = rtCall.op /\ rtCall'.todo = rtCall.todo /\ rtCall'.inside
      BY <1>5, <2>1 DEF RtCallType
    <2>5. RtShape'
      BY <1>1, <2>3, <2>4 DEF RtShape
    <2>6. CallSound'
      BY <1>1, <1>2, <2>2, <2>3, <2>4 DEF CallSound, Shown, Preceded
    <2>7. DepsMet(h)'
      BY <1>1, <1>3, <1>6, <2>3 DEF DepsRunning, NoneOnItself
    <2>8. DepsRunning'
      BY <1>2, <2>3, <2>4, <2>7 DEF DepsRunning, Inside
    <2> QED BY <2>3, <2>5, <2>6, <2>8 DEF RtInv
  <1>7. CASE h \notin RunningSubsystems
    <2>1. rtCall' = [rtCall EXCEPT !.todo = Tail(rtCall.todo)] /\ rtEntries' = rtEntries
      BY <1>2, <1>7 DEF ShutdownBegin
    <2>2. /\ rtCall' \in RtCallType /\ rtCall'.op = rtCall.op /\ rtCall'.todo = Tail(rtCall.todo) /\ ~rtCall'.inside
      BY <1>1, <1>3, <1>5, <2>1 DEF RtCallType
    <2>3. RunningSubsystems' = RunningSubsystems /\ Deps' = Deps
      BY <2>1 DEF RunningSubsystems, Deps
    <2>4. RtShape'
      BY <1>1, <2>1, <2>2 DEF RtShape
    <2>5. ASSUME rtCall.op = "ShutdownAll" PROVE CallSound'
      <3>1. Preceded(rtCall'.todo, RunningSubsystems, Deps) /\ Shown(rtCall'.todo, RunningSubsystems)
        BY <1>1, <1>2, <1>3, <1>7, <2>2, <2>5, PrecededTail DEF CallSound
      <3>2. rtCall'.op = "ShutdownAll" /\ ~rtCall'.inside
        BY <2>2, <2>5
      <3>3. Preceded(rtCall'.todo, RunningSubsystems', Deps') /\ Shown(rtCall'.todo, RunningSubsystems')
        BY <2>3, <3>1
      <3> QED BY <3>2, <3>3 DEF CallSound
    <2>6. ASSUME rtCall.op = "ShutdownOne" PROVE CallSound'
      <3>1. Len(rtCall.todo) <= 1
        BY <1>1, <2>6 DEF CallSound
      <3>2. rtCall'.op = "ShutdownOne" /\ ~rtCall'.inside /\ rtCall'.todo = <<>>
        BY <1>1, <1>3, <2>2, <2>6, <3>1, LastTaken
      <3>3. Len(rtCall'.todo) <= 1
        BY <3>2
      <3> QED BY <3>2, <3>3 DEF CallSound
    <2>7. CallSound'
      BY <1>1, <2>5, <2>6
    <2>8. DepsRunning'
      BY <1>1, <2>1, <2>2, <2>3 DEF DepsRunning, Inside, DepsMet
    <2> QED BY <1>1, <2>1, <2>4, <2>7, <2>8, TableKept
  <1> QED BY <1>6, <1>7

LEMMA ShutdownEndKeeps ==
    ASSUME RtInv, ShutdownEnd PROVE RtInv'
  <1>1. /\ RtShape /\ NoneOnItself /\ OrderKept /\ DepsRunning /\ CallSound /\ rtOrder' = rtOrder
        /\ rtCall.op \in {"ShutdownAll", "ShutdownOne"} /\ rtCall.inside /\ rtCall.todo # <<>>
    BY DEF RtInv, ShutdownEnd, RtShape
  <1>2. PICK h : h = Head(rtCall.todo)
    OBVIOUS
  <1>3. /\ h \in RtIds /\ rtCall.todo \in Seq(RtIds) /\ Tail(rtCall.todo) \in Seq(RtIds)
        /\ Len(rtCall.todo) \in Nat \ {0} /\ Len(Tail(rtCall.todo)) = Len(rtCall.todo) - 1
        /\ rtCall \in RtCallType
    BY <1>1, <1>2, TodoTyped DEF RtShape, RtCallType
  <1>4. h \in Registered \ RunningSubsystems
    BY <1>1, <1>2 DEF CallSound
  <1>5. SetState(h, "Stopped") /\ rtCall' = [rtCall EXCEPT !.inside = FALSE, !.todo = Tail(rtCall.todo)]
        /\ "Stopped" \in SubsystemState
    BY <1>2 DEF ShutdownEnd, SubsystemState
  <1>6. /\ OrderKept' /\ NoneOnItself' /\ rtOrder' \in Seq(RtIds) /\ RunningSubsystems' = RunningSubsystems
        /\ \A k \in RunningSubsystems' : DepsMet(k)'
    BY <1>1, <1>3, <1>4, <1>5, NotStarted
  <1>7. Deps' = Deps /\ rtEntries' \in [RtIds -> RtEntry]
    BY <1>1, <1>3, <1>5, SetStateIs
  <1>8. /\ rtCall' \in RtCallType /\ rtCall'.op = rtCall.op /\ rtCall'.todo = Tail(rtCall.todo) /\ ~rtCall'.inside
    BY <1>1, <1>3, <1>5 DEF RtCallType
  <1>9. RtShape'
    BY <1>6, <1>7, <1>8 DEF RtShape
  <1>10. DepsRunning'
    BY <1>6, <1>8 DEF DepsRunning, Inside
  <1>11. CASE rtCall.op = "ShutdownAll"
    <2>1. Preceded(rtCall'.todo, RunningSubsystems, Deps) /\ Shown(rtCall'.todo, RunningSubsystems)
      BY <1>1, <1>2, <1>3, <1>4, <1>8, <1>11, PrecededTail DEF CallSound
    <2>2. rtCall'.op = "ShutdownAll" /\ ~rtCall'.inside
      BY <1>8, <1>11
    <2>3. Preceded(rtCall'.todo, RunningSubsystems', Deps') /\ Shown(rtCall'.todo, RunningSubsystems')
      BY <1>6, <1>7, <2>1
    <2>4. CallSound'
      BY <2>2, <2>3 DEF CallSound
    <2> QED BY <1>6, <1>9, <1>10, <2>4 DEF RtInv
  <1>12. CASE rtCall.op = "ShutdownOne"
    <2>1. Len(rtCall.todo) <= 1
      BY <1>1, <1>12 DEF CallSound
    <2>2. rtCall'.op = "ShutdownOne" /\ ~rtCall'.inside /\ rtCall'.todo = <<>>
      BY <1>1, <1>3, <1>8, <1>12, <2>1, LastTaken
    <2>3. Len(rtCall'.todo) <= 1
      BY <2>2
    <2>4. CallSound'
      BY <2>2, <2>3 DEF CallSound
    <2> QED BY <1>6, <1>9, <1>10, <2>4 DEF RtInv
  <1> QED BY <1>1, <1>11, <1>12

LEMMA RtInvInductive == RtInv /\ [RuntimeNext]_rtVars => RtInv'
  <1>1. ASSUME RtInv, RuntimeNext PROVE RtInv'
    BY <1>1, RegisterKeeps, RegistryResetKeeps, InitAllKeeps, InitAllCheckKeeps, InitAllRecordKeeps, InitOneKeeps,
       InitOneReturnKeeps, CallReturnKeeps, ShutdownAllKeeps, ShutdownOneKeeps, ShutdownBeginKeeps, ShutdownEndKeeps DEF RuntimeNext
  <1>2. ASSUME RtInv, UNCHANGED rtVars PROVE RtInv'
    <2>1. /\ UNCHANGED <<rtEntries, rtOrder, rtCall>> /\ Deps' = Deps /\ RunningSubsystems' = RunningSubsystems
          /\ Registered' = Registered /\ Orderable' = Orderable
      BY <1>2 DEF rtVars, Deps, RunningSubsystems, Registered, Orderable
    <2>2. RtShape' /\ NoneOnItself' /\ OrderKept'
      BY <1>2, <2>1 DEF RtInv, RtShape, NoneOnItself, OrderKept
    <2>3. DepsRunning'
      BY <1>2, <2>1 DEF RtInv, DepsRunning, Inside, DepsMet
    <2>4. \A S : OnTheWay(S) => OnTheWay(S)'
      BY <2>1 DEF OnTheWay, DepsMet
    <2>5. CallSound'
      BY <1>2, <2>1, <2>4 DEF RtInv, CallSound
    <2> QED BY <2>2, <2>3, <2>5 DEF RtInv
  <1> QED BY <1>1, <1>2

(***************************************************************************)
(* Whatever is registered, in whatever order the table is walked and       *)
(* whichever callbacks fail: nothing runs before or after what it depends  *)
(* on, InitAll leaves out nothing that can be started and reports what it  *)
(* could not start, and ShutdownAll stops everything (InitAll,             *)
(* ShutdownAll, InitOne, ShutdownOne).                                     *)
(***************************************************************************)
THEOREM RegistryKeepsOrder == RtSpec => [](DepsRunning /\ InitAllComplete /\ TeardownComplete)
  <1>1. ASSUME RtInv PROVE DepsRunning /\ InitAllComplete /\ TeardownComplete
    <2>1. CallSound /\ DepsRunning
      BY <1>1 DEF RtInv
    <2>2. ASSUME rtCall.todo = <<>> PROVE 1 .. Len(rtCall.todo) = {}
      BY <2>2
    <2>3. ASSUME rtCall.op = "InitAll", rtCall.todo = <<>>
          PROVE  /\ rtCall.ok <=> \A k \in Orderable : rtEntries[k].optional \/ k \in RunningSubsystems
                 /\ \A k \in Orderable : DepsMet(k) => rtEntries[k].state \in {"Running", "Failed"}
      <3>1. PICK S : OnTheWay(S)
        BY <2>1, <2>3 DEF CallSound
      <3>2. S = {}
        BY <2>2, <2>3, <3>1 DEF OnTheWay, Lists
      <3>3. Orderable \ S = Orderable
        BY <3>2
      <3>4. /\ rtCall.ok => \A k \in Orderable : rtEntries[k].optional \/ k \in RunningSubsystems
            /\ ~rtCall.ok => \E k \in Orderable : ~rtEntries[k].optional /\ k \notin RunningSubsystems
            /\ \A k \in Orderable : DepsMet(k) => rtEntries[k].state \in {"Running", "Failed"}
        BY <3>1, <3>3 DEF OnTheWay
      <3>5. rtCall.ok \in BOOLEAN
        BY <1>1 DEF RtInv, RtShape, RtCallType
      <3> QED BY <3>4, <3>5, Zenon
    <2>4. InitAllComplete
      BY <2>3 DEF InitAllComplete
    <2>5. TeardownComplete
      BY <2>1, <2>2 DEF TeardownComplete, CallSound, Shown
    <2> QED BY <2>1, <2>4, <2>5
  <1> QED BY <1>1, RtInvInit, RtInvInductive, PTL DEF RtSpec

-----------------------------------------------------------------------------
(* The histograms of the metrics. First, partial sums. *)

\* The recursion of UpTo, as a predicate.
SumsUp(c, n, g) == g = [j \in 0 .. n |-> IF j = 0 THEN 0 ELSE c[j] + g[j - 1]]

LEMMA SumsExist ==
    ASSUME NEW c, NEW n \in Nat
    PROVE  \E g : SumsUp(c, n, g)
  <1> DEFINE S == {k \in Nat : \E g : SumsUp(c, k, g)}
  <1>1. 0 \in S
    <2>1. SumsUp(c, 0, [j \in 0 .. 0 |-> 0])
      BY DEF SumsUp
    <2> QED BY <2>1
  <1>2. ASSUME NEW k \in Nat, k \in S PROVE k + 1 \in S
    <2>1. PICK g : SumsUp(c, k, g)
      BY <1>2
    <2> DEFINE h == [j \in 0 .. k + 1 |-> IF j = k + 1 THEN c[k + 1] + g[k] ELSE g[j]]
    <2>2. \A j \in 0 .. k : g[j] = IF j = 0 THEN 0 ELSE c[j] + g[j - 1]
      BY <2>1 DEF SumsUp
    <2>3. \A j \in 0 .. k + 1 : h[j] = IF j = 0 THEN 0 ELSE c[j] + h[j - 1]
      <3> SUFFICES ASSUME NEW j \in 0 .. k + 1 PROVE h[j] = IF j = 0 THEN 0 ELSE c[j] + h[j - 1]
        OBVIOUS
      <3>1. CASE j = k + 1
        <4>1. h[j] = c[k + 1] + g[k]  BY <3>1
        <4>2. h[k] = g[k]  OBVIOUS
        <4>3. j - 1 = k /\ j # 0  BY <3>1
        <4> QED BY <3>1, <4>1, <4>2, <4>3
      <3>2. CASE j # k + 1
        <4>1. j \in 0 .. k  BY <3>2
        <4>2. j # 0 => h[j - 1] = g[j - 1]  BY <4>1
        <4> QED BY <2>2, <4>1, <4>2
      <3> QED BY <3>1, <3>2
    <2>4. SumsUp(c, k + 1, h)
      BY <2>3 DEF SumsUp
    <2> QED BY <2>4
  <1> HIDE DEF S
  <1>3. \A k \in Nat : k \in S
    BY <1>1, <1>2, CountingUp
  <1> QED BY <1>3 DEF S

LEMMA UpToIs ==
    ASSUME NEW c, NEW n \in Nat
    PROVE  \E g : SumsUp(c, n, g) /\ UpTo(c, n) = g[n]
  <1> DEFINE g == CHOOSE h : h = [j \in 0 .. n |-> IF j = 0 THEN 0 ELSE c[j] + h[j - 1]]
  <1>1. SumsUp(c, n, g)
    BY ZenonT(40), SumsExist DEF SumsUp
  <1>2. UpTo(c, n) = g[n]
    BY DEF UpTo
  <1> QED BY <1>1, <1>2

\* Two recursions over the same counts agree as far as both go.
LEMMA SumsAgree ==
    ASSUME NEW c, NEW m \in Nat, NEW n \in Nat, m <= n,
           NEW g, NEW h, SumsUp(c, m, g), SumsUp(c, n, h)
    PROVE  g[m] = h[m]
  <1> DEFINE S == {k \in Nat : k <= m => g[k] = h[k]}
  <1>1. \A j \in 0 .. m : g[j] = IF j = 0 THEN 0 ELSE c[j] + g[j - 1]
    BY DEF SumsUp
  <1>2. \A j \in 0 .. m : h[j] = IF j = 0 THEN 0 ELSE c[j] + h[j - 1]
    <2>1. \A j \in 0 .. n : h[j] = IF j = 0 THEN 0 ELSE c[j] + h[j - 1]
      BY DEF SumsUp
    <2> QED BY <2>1
  <1>3. 0 \in S
    BY <1>1, <1>2
  <1>4. ASSUME NEW k \in Nat, k \in S PROVE k + 1 \in S
    <2> SUFFICES ASSUME k + 1 <= m PROVE g[k + 1] = h[k + 1]
      OBVIOUS
    <2>1. g[k] = h[k] /\ k + 1 \in 0 .. m /\ k + 1 # 0 /\ (k + 1) - 1 = k
      BY <1>4
    <2>2. g[k + 1] = c[k + 1] + g[k]  BY <1>1, <2>1
    <2>3. h[k + 1] = c[k + 1] + h[k]  BY <1>2, <2>1
    <2> QED BY <2>1, <2>2, <2>3
  <1> HIDE DEF S
  <1>5. \A k \in Nat : k \in S
    BY <1>3, <1>4, CountingUp
  <1> QED BY <1>5 DEF S

LEMMA UpToStep ==
    ASSUME NEW c, NEW n \in Nat
    PROVE  /\ UpTo(c, 0) = 0
           /\ n > 0 => UpTo(c, n) = c[n] + UpTo(c, n - 1)
  <1>1. UpTo(c, 0) = 0
    <2>1. PICK g : SumsUp(c, 0, g) /\ UpTo(c, 0) = g[0]
      BY UpToIs
    <2> QED BY <2>1 DEF SumsUp
  <1>2. ASSUME n > 0 PROVE UpTo(c, n) = c[n] + UpTo(c, n - 1)
    <2>1. PICK g : SumsUp(c, n, g) /\ UpTo(c, n) = g[n]
      BY UpToIs
    <2>2. n - 1 \in Nat /\ n - 1 <= n
      BY <1>2
    <2>3. PICK h : SumsUp(c, n - 1, h) /\ UpTo(c, n - 1) = h[n - 1]
      BY <2>2, UpToIs
    <2>4. h[n - 1] = g[n - 1]
      BY <2>1, <2>2, <2>3, SumsAgree
    <2>5. g[n] = c[n] + g[n - 1]
      BY <1>2, <2>1 DEF SumsUp
    <2> QED BY <2>1, <2>3, <2>4, <2>5
  <1> QED BY <1>1, <1>2

\* Sums of counts are counts, and they grow.
LEMMA UpToNat ==
    ASSUME NEW N \in Nat, NEW c \in [1 .. N -> Nat]
    PROVE  \A i \in 0 .. N : UpTo(c, i) \in Nat
  <1> DEFINE S == {i \in Nat : i <= N => UpTo(c, i) \in Nat}
  <1>1. 0 \in S
    BY UpToStep
  <1>2. ASSUME NEW k \in Nat, k \in S PROVE k + 1 \in S
    <2> SUFFICES ASSUME k + 1 <= N PROVE UpTo(c, k + 1) \in Nat
      OBVIOUS
    <2>1. UpTo(c, k) \in Nat /\ k + 1 \in Nat /\ k + 1 > 0 /\ (k + 1) - 1 = k /\ k + 1 \in 1 .. N
      BY <1>2
    <2>2. UpTo(c, k + 1) = c[k + 1] + UpTo(c, k)
      BY <2>1, UpToStep
    <2> QED BY <2>1, <2>2
  <1> HIDE DEF S
  <1>3. \A i \in Nat : i \in S
    BY <1>1, <1>2, CountingUp
  <1> QED BY <1>3 DEF S

LEMMA UpToMonotone ==
    ASSUME NEW N \in Nat, NEW c \in [1 .. N -> Nat], NEW i \in 0 .. N, NEW j \in 0 .. N, i <= j
    PROVE  UpTo(c, i) <= UpTo(c, j)
  <1> DEFINE S == {k \in Nat : i <= k /\ k <= N => UpTo(c, i) <= UpTo(c, k)}
  <1>0. \A k \in 0 .. N : UpTo(c, k) \in Nat
    BY UpToNat
  <1>1. 0 \in S
    BY <1>0
  <1>2. ASSUME NEW k \in Nat, k \in S PROVE k + 1 \in S
    <2> SUFFICES ASSUME i <= k + 1, k + 1 <= N PROVE UpTo(c, i) <= UpTo(c, k + 1)
      OBVIOUS
    <2>1. k + 1 \in Nat /\ k + 1 > 0 /\ (k + 1) - 1 = k /\ k + 1 \in 1 .. N /\ k \in 0 .. N
      OBVIOUS
    <2>2. UpTo(c, k + 1) = c[k + 1] + UpTo(c, k)
      BY <2>1, UpToStep
    <2>3. c[k + 1] \in Nat /\ UpTo(c, k) \in Nat /\ UpTo(c, i) \in Nat
      BY <2>1, <1>0
    <2>4. CASE i = k + 1
      BY <2>3, <2>4, <1>0
    <2>5. CASE i <= k
      <3>1. UpTo(c, i) <= UpTo(c, k)
        BY <1>2, <2>1, <2>5
      <3> QED BY <2>2, <2>3, <3>1
    <2> QED BY <2>4, <2>5
  <1> HIDE DEF S
  <1>3. \A k \in Nat : k \in S
    BY <1>1, <1>2, CountingUp
  <1> QED BY <1>3 DEF S

\* A count is part of every sum that reaches it.
LEMMA UpToHolds ==
    ASSUME NEW N \in Nat, NEW c \in [1 .. N -> Nat], NEW v \in 1 .. N
    PROVE  /\ UpTo(c, v) = c[v] + UpTo(c, v - 1)
           /\ c[v] <= UpTo(c, N)
  <1>1. v \in Nat /\ v > 0 /\ v \in 0 .. N /\ v - 1 \in 0 .. N /\ N \in 0 .. N
    OBVIOUS
  <1>2. UpTo(c, v) = c[v] + UpTo(c, v - 1)
    BY <1>1, UpToStep
  <1>3. UpTo(c, v) \in Nat /\ UpTo(c, v - 1) \in Nat /\ UpTo(c, N) \in Nat
    BY <1>1, UpToNat
  <1>4. UpTo(c, v) <= UpTo(c, N)
    BY <1>1, UpToMonotone
  <1>5. c[v] \in Nat
    OBVIOUS
  <1> QED BY <1>2, <1>3, <1>4, <1>5

\* Nothing counted sums to nothing.
LEMMA UpToZero ==
    ASSUME NEW N \in Nat, NEW c, \A i \in 1 .. N : c[i] = 0
    PROVE  \A i \in 0 .. N : UpTo(c, i) = 0
  <1> DEFINE S == {i \in Nat : i <= N => UpTo(c, i) = 0}
  <1>1. 0 \in S
    BY UpToStep
  <1>2. ASSUME NEW k \in Nat, k \in S PROVE k + 1 \in S
    <2> SUFFICES ASSUME k + 1 <= N PROVE UpTo(c, k + 1) = 0
      OBVIOUS
    <2>1. UpTo(c, k) = 0 /\ k + 1 \in Nat /\ k + 1 > 0 /\ (k + 1) - 1 = k /\ k + 1 \in 1 .. N
      BY <1>2
    <2>2. UpTo(c, k + 1) = c[k + 1] + UpTo(c, k)
      BY <2>1, UpToStep
    <2> QED BY <2>1, <2>2
  <1> HIDE DEF S
  <1>3. \A i \in Nat : i \in S
    BY <1>1, <1>2, CountingUp
  <1> QED BY <1>3 DEF S

\* One more at v is one more in every sum that reaches v.
OneMore(c, d, v, N) == \A i \in 1 .. N : d[i] = c[i] + (IF i = v THEN 1 ELSE 0)
SumsOneMore(c, d, v, N) == \A i \in 0 .. N : UpTo(d, i) = UpTo(c, i) + (IF v <= i THEN 1 ELSE 0)

LEMMA UpToCounts ==
    ASSUME NEW N \in Nat, NEW c, \A i \in 1 .. N : c[i] \in Nat, NEW v \in 1 .. N, NEW d, OneMore(c, d, v, N)
    PROVE  SumsOneMore(c, d, v, N)
  <1> DEFINE S == {i \in Nat : i <= N => UpTo(c, i) \in Nat /\ UpTo(d, i) = UpTo(c, i) + (IF v <= i THEN 1 ELSE 0)}
  <1>1. 0 \in S
    <2>1. UpTo(d, 0) = 0 /\ UpTo(c, 0) = 0
      BY UpToStep
    <2> QED BY <2>1
  <1>2. ASSUME NEW k \in Nat, k \in S PROVE k + 1 \in S
    <2> SUFFICES ASSUME k + 1 <= N
                 PROVE  /\ UpTo(c, k + 1) \in Nat
                        /\ UpTo(d, k + 1) = UpTo(c, k + 1) + (IF v <= k + 1 THEN 1 ELSE 0)
      OBVIOUS
    <2>1. k + 1 \in Nat /\ k + 1 > 0 /\ (k + 1) - 1 = k /\ k + 1 \in 1 .. N /\ k \in 0 .. N
      OBVIOUS
    <2>2. UpTo(d, k + 1) = d[k + 1] + UpTo(d, k) /\ UpTo(c, k + 1) = c[k + 1] + UpTo(c, k)
      BY <2>1, UpToStep
    <2>3. UpTo(c, k) \in Nat /\ UpTo(d, k) = UpTo(c, k) + (IF v <= k THEN 1 ELSE 0)
      BY <1>2, <2>1
    <2>4. c[k + 1] \in Nat /\ d[k + 1] = c[k + 1] + (IF k + 1 = v THEN 1 ELSE 0)
      BY <2>1 DEF OneMore
    <2> QED BY <2>2, <2>3, <2>4
  <1> HIDE DEF S
  <1>3. \A i \in Nat : i \in S
    BY <1>1, <1>2, CountingUp
  <1> SUFFICES ASSUME NEW i \in 0 .. N PROVE UpTo(d, i) = UpTo(c, i) + (IF v <= i THEN 1 ELSE 0)
    BY DEF SumsOneMore
  <1>4. i \in S /\ i <= N
    BY <1>3
  <1> QED BY <1>4 DEF S

-----------------------------------------------------------------------------
(* The invariant of the histogram. *)

USE DEF HgValues, HgHighest, HgLowest

HgShape ==
    /\ hgBuckets \in [1 .. Overflow -> Nat]
    /\ hgCount \in Nat /\ hgSum \in Nat
    /\ hgMin \in HgValues \cup {HgHighest} /\ hgMax \in HgValues \cup {HgLowest}
    /\ hgThread \in [HgThreads ->
          [at : {"idle", "count", "load", "store", "min", "max"}, value : 0 .. HgMaxValue, seen : Nat]]
    /\ hgRecorded \in [HgValues -> Nat]

\* The recorders that have filled a bucket and not counted yet.
Counting == {t \in HgThreads : hgThread[t].at = "count"}

CountsMatch == hgCount + Cardinality(Counting) = UpTo(hgRecorded, HgMaxValue)

\* The largest value that falls into the first i buckets.
Reach(i) == IF i = Overflow \/ HgBounds[i] > HgMaxValue THEN HgMaxValue ELSE HgBounds[i]

BucketsMatch == \A i \in 1 .. Overflow : UpTo(hgBuckets, i) = UpTo(hgRecorded, Reach(i))

\* A recorder still to pass the loop for the minimum, or the one for the maximum.
BeforeMin(t) == hgThread[t].at \in {"count", "load", "store", "min"}
BeforeMax(t) == hgThread[t].at \in {"count", "load", "store", "min", "max"}

\* What a recorder brings has been recorded, and what it saw is no better than what is kept.
RecordersTrue ==
    \A t \in HgThreads :
      /\ BeforeMax(t) => hgThread[t].value \in HgValues /\ hgRecorded[hgThread[t].value] > 0
      /\ hgThread[t].at = "min" => hgMin <= hgThread[t].seen
      /\ hgThread[t].at = "max" => hgThread[t].seen <= hgMax

\* A value beyond an extreme has a recorder that will still store it; an extreme was recorded.
MinimumKept ==
    /\ \A v \in HgValues : hgRecorded[v] > 0 =>
          hgMin <= v \/ \E t \in HgThreads : BeforeMin(t) /\ hgThread[t].value = v
    /\ hgMin # HgHighest => hgRecorded[hgMin] > 0

MaximumKept ==
    /\ \A v \in HgValues : hgRecorded[v] > 0 =>
          v <= hgMax \/ \E t \in HgThreads : BeforeMax(t) /\ hgThread[t].value = v
    /\ hgMax # HgLowest => hgRecorded[hgMax] > 0

HgInv == HgShape /\ CountsMatch /\ BucketsMatch /\ RecordersTrue /\ MinimumKept /\ MaximumKept

LEMMA OverflowNat ==
    /\ Overflow \in Nat /\ Overflow > 1 /\ DOMAIN HgBounds = 1 .. Overflow - 1
    /\ \A j \in 1 .. Overflow - 1 : HgBounds[j] \in Nat
    /\ \A j \in 1 .. Overflow - 1 : \A k \in 1 .. j - 1 : HgBounds[k] < HgBounds[j]
  BY HistogramAssumption DEF HistogramAssumption, Overflow

LEMMA MaxNat == HgMaxValue \in Nat
  BY HistogramAssumption DEF HistogramAssumption

LEMMA BucketFound ==
    ASSUME NEW v \in Nat
    PROVE  /\ BucketOf(v) \in 1 .. Overflow
           /\ BucketOf(v) < Overflow => v <= HgBounds[BucketOf(v)]
           /\ \A j \in 1 .. BucketOf(v) - 1 : v > HgBounds[j]
  <1> DEFINE Fits == {i \in 1 .. Overflow : i < Overflow => v <= HgBounds[i]}
  <1>1. Fits \subseteq Nat /\ Overflow \in Fits
    BY OverflowNat, MaxNat
  <1>2. PICK i \in Fits : \A j \in Fits : i <= j
    <2> HIDE DEF Fits
    <2> QED BY <1>1, LeastOf
  <1>3. \A j \in 1 .. i - 1 : v > HgBounds[j]
    <2> SUFFICES ASSUME NEW j \in 1 .. i - 1 PROVE v > HgBounds[j]
      OBVIOUS
    <2>1. j \in 1 .. Overflow /\ j < i /\ j < Overflow
      BY <1>2, OverflowNat, MaxNat
    <2>2. j \notin Fits
      BY <1>2, <2>1
    <2>3. HgBounds[j] \in Nat
      BY <2>1, OverflowNat, MaxNat
    <2> QED BY <2>1, <2>2, <2>3
  <1> QED BY <1>2, <1>3 DEF BucketOf

\* No other bucket would do.
LEMMA BucketIs ==
    ASSUME NEW v \in Nat, NEW i \in 1 .. Overflow, i < Overflow => v <= HgBounds[i],
           \A j \in 1 .. i - 1 : v > HgBounds[j]
    PROVE  BucketOf(v) = i
  <1> DEFINE k == BucketOf(v)
  <1>1. /\ k \in 1 .. Overflow
        /\ k < Overflow => v <= HgBounds[k]
        /\ \A j \in 1 .. k - 1 : v > HgBounds[j]
    BY BucketFound
  <1> HIDE DEF k
  <1>2. \A j \in 1 .. Overflow - 1 : HgBounds[j] \in Nat
    BY OverflowNat
  <1>3. ~(k < i)
    <2> SUFFICES ASSUME k < i PROVE FALSE
      OBVIOUS
    <2>1. k \in 1 .. i - 1 /\ k < Overflow /\ k \in 1 .. Overflow - 1
      BY <1>1, OverflowNat
    <2> QED BY <1>1, <1>2, <2>1
  <1>4. ~(i < k)
    <2> SUFFICES ASSUME i < k PROVE FALSE
      OBVIOUS
    <2>1. i \in 1 .. k - 1 /\ i < Overflow /\ i \in 1 .. Overflow - 1
      BY <1>1, OverflowNat
    <2> QED BY <1>1, <1>2, <2>1
  <1>5. k = i
    BY <1>1, <1>3, <1>4, OverflowNat
  <1> QED BY <1>5 DEF k

\* A value falls into the first i buckets if and only if it is within their reach.
LEMMA BucketReach ==
    ASSUME NEW v \in HgValues, NEW i \in 1 .. Overflow
    PROVE  BucketOf(v) <= i <=> v <= Reach(i)
  <1>1. /\ BucketOf(v) \in 1 .. Overflow
        /\ BucketOf(v) < Overflow => v <= HgBounds[BucketOf(v)]
        /\ \A j \in 1 .. BucketOf(v) - 1 : v > HgBounds[j]
    BY BucketFound, MaxNat
  <1>2. \A j \in 1 .. Overflow - 1 : HgBounds[j] \in Nat
    BY OverflowNat, MaxNat
  <1>3. \A j \in 1 .. Overflow - 1 : \A k \in 1 .. j - 1 : HgBounds[k] < HgBounds[j]
    BY OverflowNat, MaxNat
  <1>4. CASE i = Overflow
    BY <1>1, <1>4, OverflowNat, MaxNat DEF Reach
  <1>5. CASE i < Overflow /\ BucketOf(v) <= i
    <2>1. v <= HgBounds[BucketOf(v)] /\ BucketOf(v) \in 1 .. Overflow - 1 /\ i \in 1 .. Overflow - 1
      BY <1>1, <1>5, OverflowNat, MaxNat
    <2>2. BucketOf(v) = i \/ BucketOf(v) \in 1 .. i - 1
      BY <1>1, <1>5
    <2>3. HgBounds[BucketOf(v)] <= HgBounds[i]
      BY <1>2, <1>3, <2>1, <2>2
    <2>4. v <= HgBounds[i] /\ v <= HgMaxValue
      BY <1>2, <2>1, <2>3
    <2> QED BY <1>5, <2>4 DEF Reach
  <1>6. CASE i < Overflow /\ BucketOf(v) > i
    <2>1. i \in 1 .. BucketOf(v) - 1 /\ i \in 1 .. Overflow - 1
      BY <1>1, <1>6, OverflowNat
    <2>2. v > HgBounds[i] /\ HgBounds[i] \in Nat
      BY <1>1, <1>2, <2>1
    <2>3. ~(v <= Reach(i))
      BY <1>6, <2>2, OverflowNat, MaxNat DEF Reach
    <2> QED BY <1>1, <1>6, <2>3
  <1> QED BY <1>1, <1>4, <1>5, <1>6, OverflowNat, MaxNat

LEMMA ReachIn == \A i \in 1 .. Overflow : Reach(i) \in 0 .. HgMaxValue
  BY OverflowNat, MaxNat DEF Reach

\* An empty histogram with nobody recording.
LEMMA HgInvInit ==
    ASSUME HgInit PROVE HgInv
  <1>1. Counting = {}
    BY DEF HgInit, Counting, HgOut
  <1>2. Cardinality(Counting) = 0
    BY <1>1, FS_EmptySet
  <1>3. \A i \in 0 .. HgMaxValue : UpTo(hgRecorded, i) = 0
    BY MaxNat, UpToZero DEF HgInit
  <1>4. \A i \in 0 .. Overflow : UpTo(hgBuckets, i) = 0
    BY MaxNat, UpToZero, OverflowNat, MaxNat DEF HgInit
  <1>5. HgShape
    BY OverflowNat, MaxNat DEF HgInit, HgShape, HgOut
  <1>6. CountsMatch
    BY <1>2, <1>3, MaxNat DEF HgInit, CountsMatch
  <1>7. BucketsMatch
    BY <1>3, <1>4, ReachIn, MaxNat DEF BucketsMatch
  <1>8. RecordersTrue /\ MinimumKept /\ MaximumKept
    BY DEF HgInit, RecordersTrue, MinimumKept, MaximumKept, BeforeMax, HgOut
  <1> QED BY <1>5, <1>6, <1>7, <1>8 DEF HgInv

LEMMA ResetKeeps ==
    ASSUME HgInv, HgReset PROVE HgInv'
  <1>1. Counting' = {}
    BY DEF HgReset, Counting
  <1>2. Cardinality(Counting') = 0
    BY <1>1, FS_EmptySet
  <1>3. \A i \in 0 .. HgMaxValue : UpTo(hgRecorded', i) = 0
    BY MaxNat, UpToZero DEF HgReset, Cleared
  <1>4. \A i \in 0 .. Overflow : UpTo(hgBuckets', i) = 0
    BY MaxNat, UpToZero, OverflowNat, MaxNat DEF HgReset, Cleared
  <1>5. HgShape'
    BY OverflowNat, MaxNat DEF HgInv, HgReset, Cleared, HgShape
  <1>6. CountsMatch'
    BY <1>2, <1>3, MaxNat DEF HgReset, Cleared, CountsMatch
  <1>7. BucketsMatch'
    BY <1>3, <1>4, ReachIn, MaxNat DEF BucketsMatch
  <1>8. RecordersTrue' /\ MinimumKept' /\ MaximumKept'
    BY DEF HgReset, Cleared, RecordersTrue, MinimumKept, MaximumKept, BeforeMax
  <1> QED BY <1>5, <1>6, <1>7, <1>8 DEF HgInv

\* A recorder that begins or stops counting changes their number by one.
LEMMA CountingFinite == IsFiniteSet(Counting) /\ Cardinality(Counting) \in Nat
  BY HistogramAssumption, FS_Subset, FS_CardinalityType DEF HistogramAssumption, Counting

LEMMA RecordBucketKeeps ==
    ASSUME HgInv, NEW t \in HgThreads, NEW v \in HgValues, RecordBucket(t, v) PROVE HgInv'
  <1>0. HgShape /\ CountsMatch /\ BucketsMatch /\ RecordersTrue /\ MinimumKept /\ MaximumKept
    BY DEF HgInv
  <1>1. /\ hgThread[t].at = "idle"
        /\ hgThread' = [hgThread EXCEPT ![t] = [at |-> "count", value |-> v, seen |-> 0]]
        /\ hgRecorded' = [hgRecorded EXCEPT ![v] = @ + 1]
        /\ hgBuckets' = [hgBuckets EXCEPT ![BucketOf(v)] = @ + 1]
        /\ UNCHANGED <<hgCount, hgSum, hgMin, hgMax>>
    BY DEF RecordBucket
  <1>2. BucketOf(v) \in 1 .. Overflow
    BY BucketFound, MaxNat
  <1>14. hgRecorded \in [1 .. HgMaxValue -> Nat] /\ v \in 1 .. HgMaxValue /\ hgBuckets \in [1 .. Overflow -> Nat]
    BY <1>0 DEF HgShape
  <1>3. HgShape'
    <2>1. hgRecorded' \in [1 .. HgMaxValue -> Nat]
      BY <1>1, <1>14
    <2>2. hgBuckets' \in [1 .. Overflow -> Nat]
      BY <1>1, <1>2, <1>14
    <2>3. hgThread' \in [HgThreads ->
          [at : {"idle", "count", "load", "store", "min", "max"}, value : 0 .. HgMaxValue, seen : Nat]]
      BY <1>0, <1>1 DEF HgShape
    <2> QED BY <1>0, <1>1, <2>1, <2>2, <2>3 DEF HgShape
  <1>4. Cardinality(Counting') = Cardinality(Counting) + 1
    <2>1. Counting' = Counting \cup {t} /\ t \notin Counting
      BY <1>0, <1>1 DEF Counting, HgShape
    <2> QED BY <2>1, CountingFinite, FS_AddElement
  <1>5. \A i \in 0 .. HgMaxValue : UpTo(hgRecorded', i) = UpTo(hgRecorded, i) + (IF v <= i THEN 1 ELSE 0)
    <2>1. OneMore(hgRecorded, hgRecorded', v, HgMaxValue)
      BY <1>1, <1>14 DEF OneMore
    <2>2. \A i \in 1 .. HgMaxValue : hgRecorded[i] \in Nat
      BY <1>14
    <2>3. SumsOneMore(hgRecorded, hgRecorded', v, HgMaxValue)
      BY <1>14, <2>1, <2>2, MaxNat, UpToCounts
    <2> QED BY <2>3 DEF SumsOneMore
  <1>6. \A i \in 0 .. Overflow : UpTo(hgBuckets', i) = UpTo(hgBuckets, i) + (IF BucketOf(v) <= i THEN 1 ELSE 0)
    <2>1. OneMore(hgBuckets, hgBuckets', BucketOf(v), Overflow)
      BY <1>1, <1>2, <1>14 DEF OneMore
    <2>2. \A i \in 1 .. Overflow : hgBuckets[i] \in Nat
      BY <1>14
    <2>3. SumsOneMore(hgBuckets, hgBuckets', BucketOf(v), Overflow)
      BY <1>2, <2>1, <2>2, OverflowNat, UpToCounts
    <2> QED BY <2>3 DEF SumsOneMore
  <1>7. CountsMatch'
    <2>1. UpTo(hgRecorded', HgMaxValue) = UpTo(hgRecorded, HgMaxValue) + 1
      BY <1>5, <1>14, MaxNat
    <2>2. UpTo(hgRecorded, HgMaxValue) \in Nat
      BY <1>14, MaxNat, UpToNat
    <2> QED BY <1>1, <1>4, <2>1, <2>2, <1>0, CountingFinite DEF CountsMatch, HgShape
  <1>8. BucketsMatch'
    <2> SUFFICES ASSUME NEW i \in 1 .. Overflow PROVE UpTo(hgBuckets', i) = UpTo(hgRecorded', Reach(i))
      BY DEF BucketsMatch
    <2>1. UpTo(hgBuckets, i) = UpTo(hgRecorded, Reach(i))
      BY <1>0 DEF BucketsMatch
    <2>2. BucketOf(v) <= i <=> v <= Reach(i)
      BY BucketReach
    <2>3. UpTo(hgBuckets', i) = UpTo(hgBuckets, i) + (IF BucketOf(v) <= i THEN 1 ELSE 0)
      BY <1>6
    <2>4. UpTo(hgRecorded', Reach(i)) = UpTo(hgRecorded, Reach(i)) + (IF v <= Reach(i) THEN 1 ELSE 0)
      BY <1>5, ReachIn, MaxNat
    <2> QED BY <2>1, <2>2, <2>3, <2>4
  <1>9. \A w \in HgValues : /\ hgRecorded[w] > 0 => hgRecorded'[w] > 0
                            /\ hgRecorded'[w] > 0 => w = v \/ hgRecorded[w] > 0
    BY <1>0, <1>1 DEF HgShape
  <1>10. \A u \in HgThreads : u # t => hgThread'[u] = hgThread[u]
    BY <1>0, <1>1 DEF HgShape
  <1>11. hgThread'[t] = [at |-> "count", value |-> v, seen |-> 0] /\ hgRecorded'[v] > 0
    BY <1>0, <1>1 DEF HgShape
  <1>12. RecordersTrue'
    BY <1>1, <1>9, <1>10, <1>0, <1>11 DEF RecordersTrue, BeforeMax
  <1>13. MinimumKept'
    <2>1. \A u \in HgThreads : BeforeMin(u) => BeforeMin(u)' /\ hgThread'[u].value = hgThread[u].value
      BY <1>1, <1>10 DEF BeforeMin
    <2>2. BeforeMin(t)' /\ hgThread'[t].value = v
      BY <1>11 DEF BeforeMin
    <2>3. hgMin \in HgValues \/ hgMin = HgHighest
      BY <1>0 DEF HgShape
    <2> QED BY <1>1, <1>9, <2>1, <2>2, <2>3, <1>0 DEF MinimumKept
  <1>15. MaximumKept'
    <2>1. \A u \in HgThreads : BeforeMax(u) => BeforeMax(u)' /\ hgThread'[u].value = hgThread[u].value
      BY <1>1, <1>10 DEF BeforeMax
    <2>2. BeforeMax(t)' /\ hgThread'[t].value = v
      BY <1>11 DEF BeforeMax
    <2>3. hgMax \in HgValues \/ hgMax = HgLowest
      BY <1>0 DEF HgShape
    <2> QED BY <1>1, <1>9, <2>1, <2>2, <2>3, <1>0 DEF MaximumKept
  <1> QED BY <1>3, <1>7, <1>8, <1>12, <1>13, <1>15 DEF HgInv

\* The steps of a recorder after its bucket leave the counts alone.
LEMMA CountsStand ==
    ASSUME HgInv, UNCHANGED <<hgBuckets, hgRecorded>>,
           hgCount' + Cardinality(Counting') = hgCount + Cardinality(Counting)
    PROVE  CountsMatch' /\ BucketsMatch'
  BY DEF HgInv, CountsMatch, BucketsMatch

\* Nor do the extremes change before the loops for them.
KeepsPlaces(t) ==
    /\ UNCHANGED <<hgMin, hgMax, hgRecorded>>
    /\ \A u \in HgThreads : u # t => hgThread'[u] = hgThread[u]
    /\ hgThread[t].at \in {"count", "load", "store", "min"}
    /\ hgThread'[t].value = hgThread[t].value
    /\ \/ hgThread'[t].at \in {"load", "store"}
       \/ hgThread'[t].at = "min" /\ hgMin <= hgThread'[t].seen

LEMMA PlacesStand ==
    ASSUME RecordersTrue, MinimumKept, MaximumKept, NEW t \in HgThreads, KeepsPlaces(t)
    PROVE  RecordersTrue' /\ MinimumKept' /\ MaximumKept'
  <1>0. /\ UNCHANGED <<hgMin, hgMax, hgRecorded>>
        /\ \A u \in HgThreads : u # t => hgThread'[u] = hgThread[u]
        /\ BeforeMin(t)
        /\ hgThread'[t].value = hgThread[t].value
        /\ \/ hgThread'[t].at \in {"load", "store"}
           \/ hgThread'[t].at = "min" /\ hgMin <= hgThread'[t].seen
    BY DEF KeepsPlaces, BeforeMin
  <1>1. \A u \in HgThreads : /\ BeforeMin(u)' = BeforeMin(u) /\ BeforeMax(u)' = BeforeMax(u)
                             /\ hgThread'[u].value = hgThread[u].value
    BY <1>0 DEF BeforeMin, BeforeMax
  <1>2. RecordersTrue'
    BY <1>0, <1>1 DEF RecordersTrue
  <1>3. MinimumKept'
    BY <1>0, <1>1 DEF MinimumKept
  <1>4. MaximumKept'
    BY <1>0, <1>1 DEF MaximumKept
  <1> QED BY <1>2, <1>3, <1>4

LEMMA RecordCountKeeps ==
    ASSUME HgInv, NEW t \in HgThreads, RecordCount(t) PROVE HgInv'
  <1>0. HgShape /\ CountsMatch /\ BucketsMatch /\ RecordersTrue /\ MinimumKept /\ MaximumKept
    BY DEF HgInv
  <1>1. /\ hgThread[t].at = "count"
        /\ hgThread' = [hgThread EXCEPT ![t].at = "load", ![t].seen = 0]
        /\ hgCount' = hgCount + 1
        /\ UNCHANGED <<hgBuckets, hgSum, hgMin, hgMax, hgRecorded>>
    BY DEF RecordCount, RecorderAt
  <1>2. HgShape'
    <2>1. hgThread' \in [HgThreads ->
          [at : {"idle", "count", "load", "store", "min", "max"}, value : 0 .. HgMaxValue, seen : Nat]]
      BY <1>0, <1>1 DEF HgShape
    <2> QED BY <1>0, <1>1, <2>1 DEF HgShape
  <1>3. Cardinality(Counting') = Cardinality(Counting) - 1
    <2>1. Counting' = Counting \ {t} /\ t \in Counting
      BY <1>0, <1>1 DEF Counting, HgShape
    <2> QED BY <2>1, CountingFinite, FS_RemoveElement
  <1>4. CountsMatch' /\ BucketsMatch'
    BY <1>0, <1>1, <1>3, CountingFinite, CountsStand DEF HgShape
  <1>5. /\ \A u \in HgThreads : u # t => hgThread'[u] = hgThread[u]
        /\ hgThread'[t].at = "load" /\ hgThread'[t].value = hgThread[t].value
    BY <1>0, <1>1 DEF HgShape
  <1>6. RecordersTrue' /\ MinimumKept' /\ MaximumKept'
    <2>1. KeepsPlaces(t)
      BY <1>1, <1>5 DEF KeepsPlaces
    <2> QED BY <1>0, <2>1, PlacesStand
  <1> QED BY <1>2, <1>4, <1>6 DEF HgInv

\* A step beyond the count.
LEMMA SameCounting ==
    ASSUME HgInv, NEW t \in HgThreads, hgThread[t].at # "count",
           hgThread'[t].at # "count", \A u \in HgThreads : u # t => hgThread'[u] = hgThread[u],
           UNCHANGED <<hgBuckets, hgCount, hgRecorded>>
    PROVE  CountsMatch' /\ BucketsMatch'
  <1>1. Counting' = Counting
    BY DEF Counting
  <1> QED BY <1>1, CountsStand

LEMMA SumKeeps ==
    ASSUME HgInv, NEW t \in HgThreads, SumLoad(t) \/ SumStore(t) PROVE HgInv'
  <1>0. HgShape /\ CountsMatch /\ BucketsMatch /\ RecordersTrue /\ MinimumKept /\ MaximumKept
    BY DEF HgInv
  <1>1. HgShape'
    <2>1. hgThread' \in [HgThreads ->
          [at : {"idle", "count", "load", "store", "min", "max"}, value : 0 .. HgMaxValue, seen : Nat]]
      <3>1. CASE SumLoad(t)
        <4>1. hgSum \in Nat
          BY <1>0 DEF HgShape
        <4>2. hgThread' = [hgThread EXCEPT ![t].at = "store", ![t].seen = hgSum]
          BY <3>1 DEF SumLoad, RecorderAt
        <4> QED BY <1>0, <4>1, <4>2 DEF HgShape
      <3>2. CASE SumStore(t)
        <4>1. hgMin \in Nat
          BY <1>0, MaxNat DEF HgShape
        <4>2. hgThread' = [hgThread EXCEPT ![t].at = "min", ![t].seen = hgMin]
          BY <3>2 DEF SumStore, RecorderAt
        <4> QED BY <1>0, <4>1, <4>2 DEF HgShape
      <3> QED BY <3>1, <3>2
    <2>2. hgSum' \in Nat
      BY <1>0 DEF HgShape, SumLoad, SumStore
    <2> QED BY <1>0, <2>1, <2>2 DEF HgShape, SumLoad, SumStore
  <1>2. /\ \A u \in HgThreads : u # t => hgThread'[u] = hgThread[u]
        /\ hgThread[t].at \in {"load", "store"}
        /\ hgThread'[t].value = hgThread[t].value
        /\ \/ hgThread'[t].at = "store"
           \/ hgThread'[t].at = "min" /\ hgThread'[t].seen = hgMin
        /\ UNCHANGED <<hgBuckets, hgCount, hgMin, hgMax, hgRecorded>>
    BY <1>0 DEF HgShape, SumLoad, SumStore, RecorderAt
  <1>3. CountsMatch' /\ BucketsMatch'
    BY <1>2, SameCounting
  <1>4. hgMin \in Nat
    BY <1>0, MaxNat DEF HgShape
  <1>5. RecordersTrue' /\ MinimumKept' /\ MaximumKept'
    <2>1. KeepsPlaces(t)
      BY <1>2, <1>4 DEF KeepsPlaces
    <2> QED BY <1>0, <2>1, PlacesStand
  <1> QED BY <1>1, <1>3, <1>5 DEF HgInv

\* The loop for the minimum is left with a value no lower than the minimum.
LEMMA MinTryKeeps ==
    ASSUME HgInv, NEW t \in HgThreads, MinTry(t) PROVE HgInv'
  <1>0. HgShape /\ CountsMatch /\ BucketsMatch /\ RecordersTrue /\ MinimumKept /\ MaximumKept
    BY DEF HgInv
  <1>1. /\ hgMin \in Nat /\ hgMax \in Nat /\ hgThread[t].seen \in Nat
        /\ hgThread[t].value \in HgValues /\ hgRecorded[hgThread[t].value] > 0
        /\ hgThread[t].at = "min" /\ hgMin <= hgThread[t].seen
    BY <1>0, MaxNat DEF HgShape, MinTry, RecordersTrue, BeforeMax
  <1>2. UNCHANGED <<hgBuckets, hgCount, hgSum, hgMax, hgRecorded>>
    BY DEF MinTry
  <1>3. CASE hgThread' = [hgThread EXCEPT ![t].at = "min", ![t].seen = hgMin] /\ hgMin' = hgMin
    <2>1. hgThread' \in [HgThreads ->
          [at : {"idle", "count", "load", "store", "min", "max"}, value : 0 .. HgMaxValue, seen : Nat]]
      BY <1>0, <1>1, <1>3 DEF HgShape
    <2>2. /\ \A u \in HgThreads : u # t => hgThread'[u] = hgThread[u]
          /\ hgThread'[t].at = "min" /\ hgThread'[t].seen = hgMin /\ hgThread'[t].value = hgThread[t].value
      BY <1>0, <1>3 DEF HgShape
    <2>7. UNCHANGED <<hgMin, hgMax, hgRecorded>>
      BY <1>2, <1>3
    <2>3. KeepsPlaces(t)
      BY <1>1, <2>2, <2>7 DEF KeepsPlaces
    <2>4. CountsMatch' /\ BucketsMatch'
      BY <1>1, <1>2, <2>2, SameCounting
    <2>5. RecordersTrue' /\ MinimumKept' /\ MaximumKept'
      BY <1>0, <2>3, PlacesStand
    <2>6. HgShape'
      BY <1>0, <1>2, <1>3, <2>1 DEF HgShape
    <2> QED BY <2>4, <2>5, <2>6 DEF HgInv
  <1>4. CASE /\ hgThread' = [hgThread EXCEPT ![t].at = "max", ![t].seen = hgMax]
             /\ hgMin' \in {hgMin, hgThread[t].value} /\ hgMin' <= hgMin /\ hgMin' <= hgThread[t].value
    <2>1. hgThread' \in [HgThreads ->
          [at : {"idle", "count", "load", "store", "min", "max"}, value : 0 .. HgMaxValue, seen : Nat]]
      BY <1>0, <1>1, <1>4 DEF HgShape
    <2>2. /\ \A u \in HgThreads : u # t => hgThread'[u] = hgThread[u]
          /\ hgThread'[t].at = "max" /\ hgThread'[t].seen = hgMax /\ hgThread'[t].value = hgThread[t].value
      BY <1>0, <1>4 DEF HgShape
    <2>3. CountsMatch' /\ BucketsMatch'
      BY <1>1, <1>2, <2>2, SameCounting
    <2>4. hgMin' \in HgValues \cup {HgHighest} /\ hgMin' \in Nat
      BY <1>0, <1>1, <1>4 DEF HgShape
    <2>5. HgShape'
      BY <1>0, <1>2, <2>1, <2>4 DEF HgShape
    <2>6. RecordersTrue'
      <3> SUFFICES ASSUME NEW u \in HgThreads
                   PROVE  /\ BeforeMax(u)' => hgThread'[u].value \in HgValues /\ hgRecorded'[hgThread'[u].value] > 0
                          /\ hgThread'[u].at = "min" => hgMin' <= hgThread'[u].seen
                          /\ hgThread'[u].at = "max" => hgThread'[u].seen <= hgMax'
        BY DEF RecordersTrue
      <3>1. CASE u = t
        BY <1>1, <1>2, <2>2, <3>1
      <3>2. CASE u # t
        <4>1. hgThread[u].seen \in Nat /\ hgThread'[u] = hgThread[u]
          BY <1>0, <2>2, <3>2 DEF HgShape
        <4>2. hgMin' <= hgMin /\ UNCHANGED <<hgMax, hgRecorded>>
          BY <1>2, <1>4
        <4>3. /\ BeforeMax(u) => hgThread[u].value \in HgValues /\ hgRecorded[hgThread[u].value] > 0
              /\ hgThread[u].at = "min" => hgMin <= hgThread[u].seen
              /\ hgThread[u].at = "max" => hgThread[u].seen <= hgMax
          BY <1>0 DEF RecordersTrue
        <4>4. hgThread[u].at = "min" => hgMin' <= hgThread[u].seen
          BY <1>1, <2>4, <4>1, <4>2, <4>3
        <4> QED BY <4>1, <4>2, <4>3, <4>4 DEF BeforeMax
      <3> QED BY <3>1, <3>2
    <2>7. MinimumKept'
      <3>1. hgMin' # HgHighest => hgRecorded'[hgMin'] > 0
        BY <1>0, <1>1, <1>2, <1>4 DEF MinimumKept
      <3>2. ASSUME NEW v \in HgValues, hgRecorded'[v] > 0, ~(hgMin' <= v)
            PROVE  \E u \in HgThreads : BeforeMin(u)' /\ hgThread'[u].value = v
        <4>1. v \in Nat /\ ~(hgMin <= v) /\ v # hgThread[t].value
          BY <1>1, <1>4, <2>4, <3>2, MaxNat
        <4>2. PICK u \in HgThreads : BeforeMin(u) /\ hgThread[u].value = v
          BY <1>0, <1>2, <3>2, <4>1 DEF MinimumKept
        <4>3. u # t
          BY <4>1, <4>2
        <4> QED BY <2>2, <4>2, <4>3 DEF BeforeMin
      <3> QED BY <3>1, <3>2 DEF MinimumKept
    <2>8. MaximumKept'
      <3>1. \A u \in HgThreads : BeforeMax(u) => BeforeMax(u)' /\ hgThread'[u].value = hgThread[u].value
        BY <2>2 DEF BeforeMax
      <3> QED BY <1>0, <1>2, <3>1 DEF MaximumKept
    <2> QED BY <2>3, <2>5, <2>6, <2>7, <2>8 DEF HgInv
  <1>5. \/ hgThread' = [hgThread EXCEPT ![t].at = "min", ![t].seen = hgMin] /\ hgMin' = hgMin
        \/ /\ hgThread' = [hgThread EXCEPT ![t].at = "max", ![t].seen = hgMax]
           /\ hgMin' \in {hgMin, hgThread[t].value} /\ hgMin' <= hgMin /\ hgMin' <= hgThread[t].value
    <2>1. hgThread[t].value \in Nat
      BY <1>1, MaxNat
    <2> QED BY <1>1, <2>1 DEF MinTry, RecorderAt
  <1> QED BY <1>3, <1>4, <1>5

\* The loop for the maximum, and the end of the call.
LEMMA MaxTryKeeps ==
    ASSUME HgInv, NEW t \in HgThreads, MaxTry(t) PROVE HgInv'
  <1>0. HgShape /\ CountsMatch /\ BucketsMatch /\ RecordersTrue /\ MinimumKept /\ MaximumKept
    BY DEF HgInv
  <1>1. /\ hgMin \in Nat /\ hgMax \in Nat /\ hgThread[t].seen \in Nat
        /\ hgThread[t].value \in HgValues /\ hgRecorded[hgThread[t].value] > 0
        /\ hgThread[t].at = "max" /\ hgThread[t].seen <= hgMax
    BY <1>0, MaxNat DEF HgShape, MaxTry, RecordersTrue, BeforeMax
  <1>2. UNCHANGED <<hgBuckets, hgCount, hgSum, hgMin, hgRecorded>>
    BY DEF MaxTry
  <1>3. PICK out : /\ hgThread' = [hgThread EXCEPT ![t] = out]
                   /\ \/ hgMax' = hgMax /\ out = [hgThread[t] EXCEPT !.seen = hgMax]
                      \/ /\ hgMax' \in {hgMax, hgThread[t].value} /\ hgMax <= hgMax' /\ hgThread[t].value <= hgMax'
                         /\ out = HgOut
    <2>1. hgThread[t].value \in Nat
      BY <1>1, MaxNat
    <2>2. CASE /\ hgThread' = [hgThread EXCEPT ![t] = HgOut]
               /\ \/ hgThread[t].value <= hgThread[t].seen /\ hgMax' = hgMax
                  \/ hgThread[t].value > hgThread[t].seen /\ hgMax = hgThread[t].seen /\ hgMax' = hgThread[t].value
      <3>1. hgMax' \in {hgMax, hgThread[t].value} /\ hgMax <= hgMax' /\ hgThread[t].value <= hgMax'
        BY <1>1, <2>1, <2>2
      <3> QED BY <2>2, <3>1
    <2>3. CASE RecorderAt(t, "max", hgMax) /\ UNCHANGED hgMax
      <3>1. hgThread' = [hgThread EXCEPT ![t] = [hgThread[t] EXCEPT !.seen = hgMax]]
        BY <1>0, <1>1, <2>3 DEF HgShape, RecorderAt
      <3> QED BY <2>3, <3>1
    <2> QED BY <2>2, <2>3 DEF MaxTry
  <1>4. /\ \A u \in HgThreads : u # t => hgThread'[u] = hgThread[u]
        /\ hgThread'[t] = out
    BY <1>0, <1>3 DEF HgShape
  <1>5. /\ out \in [at : {"idle", "count", "load", "store", "min", "max"}, value : 0 .. HgMaxValue, seen : Nat]
        /\ \/ /\ hgMax' = hgMax /\ out.at = "max" /\ out.value = hgThread[t].value /\ out.seen = hgMax
           \/ /\ hgMax' \in {hgMax, hgThread[t].value} /\ hgMax <= hgMax' /\ hgThread[t].value <= hgMax'
              /\ out.at = "idle"
    <2>1. hgThread[t] \in [at : {"idle", "count", "load", "store", "min", "max"}, value : 0 .. HgMaxValue, seen : Nat]
      BY <1>0 DEF HgShape
    <2> QED BY <1>1, <1>3, <2>1, MaxNat DEF HgOut
  <1>6. HgShape'
    <2>1. hgThread' \in [HgThreads ->
          [at : {"idle", "count", "load", "store", "min", "max"}, value : 0 .. HgMaxValue, seen : Nat]]
      BY <1>0, <1>3, <1>5 DEF HgShape
    <2>2. hgMax' \in HgValues \cup {HgLowest}
      BY <1>0, <1>1, <1>5 DEF HgShape
    <2> QED BY <1>0, <1>2, <2>1, <2>2 DEF HgShape
  <1>7. CountsMatch' /\ BucketsMatch'
    <2>1. hgThread'[t].at # "count"
      BY <1>4, <1>5
    <2> QED BY <1>1, <1>2, <1>4, <2>1, SameCounting
  <1>8. hgMax' \in Nat /\ hgMax <= hgMax'
    BY <1>1, <1>5, MaxNat
  <1>9. RecordersTrue'
    <2> SUFFICES ASSUME NEW u \in HgThreads
                 PROVE  /\ BeforeMax(u)' => hgThread'[u].value \in HgValues /\ hgRecorded'[hgThread'[u].value] > 0
                        /\ hgThread'[u].at = "min" => hgMin' <= hgThread'[u].seen
                        /\ hgThread'[u].at = "max" => hgThread'[u].seen <= hgMax'
      BY DEF RecordersTrue
    <2>1. CASE u = t
      <3>1. BeforeMax(u)' => hgThread'[u].value = hgThread[t].value /\ hgThread'[u].at = "max" /\ hgThread'[u].seen = hgMax
        BY <1>4, <1>5, <2>1 DEF BeforeMax
      <3>2. hgThread'[u].at \notin {"min", "max"} \/ BeforeMax(u)'
        BY DEF BeforeMax
      <3> QED BY <1>1, <1>2, <1>8, <3>1, <3>2
    <2>2. CASE u # t
      <3>1. hgThread[u].seen \in Nat /\ hgThread'[u] = hgThread[u]
        BY <1>0, <1>4, <2>2 DEF HgShape
      <3>2. UNCHANGED <<hgMin, hgRecorded>>
        BY <1>2
      <3>3. /\ BeforeMax(u) => hgThread[u].value \in HgValues /\ hgRecorded[hgThread[u].value] > 0
            /\ hgThread[u].at = "min" => hgMin <= hgThread[u].seen
            /\ hgThread[u].at = "max" => hgThread[u].seen <= hgMax
        BY <1>0 DEF RecordersTrue
      <3>4. hgThread[u].at = "max" => hgThread[u].seen <= hgMax'
        BY <1>1, <1>8, <3>1, <3>3
      <3> QED BY <3>1, <3>2, <3>3, <3>4 DEF BeforeMax
    <2> QED BY <2>1, <2>2
  <1>10. MinimumKept'
    <2>1. \A u \in HgThreads : BeforeMin(u) => BeforeMin(u)' /\ hgThread'[u].value = hgThread[u].value
      BY <1>1, <1>4 DEF BeforeMin
    <2> QED BY <1>0, <1>2, <2>1 DEF MinimumKept
  <1>11. MaximumKept'
    <2>1. hgMax' # HgLowest => hgRecorded'[hgMax'] > 0
      BY <1>0, <1>1, <1>2, <1>5 DEF MaximumKept
    <2>2. ASSUME NEW v \in HgValues, hgRecorded'[v] > 0, ~(v <= hgMax')
          PROVE  \E u \in HgThreads : BeforeMax(u)' /\ hgThread'[u].value = v
      <3>1. v \in Nat /\ ~(v <= hgMax)
        BY <1>1, <1>8, <2>2, MaxNat
      <3>2. PICK u \in HgThreads : BeforeMax(u) /\ hgThread[u].value = v
        BY <1>0, <1>2, <2>2, <3>1 DEF MaximumKept
      <3>3. CASE u = t
        <4>1. out.at = "max" /\ out.value = v
          BY <1>1, <1>5, <2>2, <3>2, <3>3
        <4> QED BY <1>4, <3>3, <4>1 DEF BeforeMax
      <3>4. CASE u # t
        BY <1>4, <3>2, <3>4 DEF BeforeMax
      <3> QED BY <3>3, <3>4
    <2> QED BY <2>1, <2>2 DEF MaximumKept
  <1> QED BY <1>6, <1>7, <1>9, <1>10, <1>11 DEF HgInv

LEMMA HgInvInductive == HgInv /\ [HgNext]_hgVars => HgInv'
  <1> SUFFICES ASSUME HgInv, [HgNext]_hgVars PROVE HgInv'
    OBVIOUS
  <1>1. CASE HgReset
    BY <1>1, ResetKeeps
  <1>2. ASSUME NEW t \in HgThreads, NEW v \in HgValues, RecordBucket(t, v) PROVE HgInv'
    BY <1>2, RecordBucketKeeps
  <1>3. ASSUME NEW t \in HgThreads, RecordCount(t) \/ SumLoad(t) \/ SumStore(t) \/ MinTry(t) \/ MaxTry(t)
        PROVE  HgInv'
    BY <1>3, RecordCountKeeps, SumKeeps, MinTryKeeps, MaxTryKeeps
  <1>4. CASE UNCHANGED hgVars
    <2>1. Counting' = Counting
      BY <1>4 DEF hgVars, Counting
    <2> QED BY <1>4, <2>1 DEF hgVars, HgInv, HgShape, CountsMatch, BucketsMatch, RecordersTrue, MinimumKept,
                              MaximumKept, BeforeMin, BeforeMax
  <1> QED BY <1>1, <1>2, <1>3, <1>4 DEF HgNext

-----------------------------------------------------------------------------
(* What a snapshot estimates. *)

\* The value of a rank, and the bucket that reaches it.
LEMMA RankedIs ==
    ASSUME HgInv, NEW r \in Nat, 0 < r, r <= UpTo(hgRecorded, HgMaxValue)
    PROVE  \E v \in HgValues : UpTo(hgRecorded, v) >= r /\ UpTo(hgRecorded, v - 1) < r
  <1>1. hgRecorded \in [1 .. HgMaxValue -> Nat] /\ HgMaxValue \in Nat
    BY MaxNat DEF HgInv, HgShape
  <1>2. \A v \in 0 .. HgMaxValue : UpTo(hgRecorded, v) \in Nat
    BY <1>1, UpToNat
  <1> DEFINE High == {v \in 0 .. HgMaxValue : UpTo(hgRecorded, v) >= r}
  <1>3. High \subseteq Nat /\ HgMaxValue \in High
    BY <1>1, <1>2
  <1>4. PICK v \in High : \A w \in High : v <= w
    <2> HIDE DEF High
    <2> QED BY <1>3, LeastOf
  <1>5. UpTo(hgRecorded, 0) = 0
    BY UpToStep
  <1>6. v \in HgValues /\ v - 1 \in 0 .. HgMaxValue
    BY <1>1, <1>4, <1>5
  <1>7. ~(UpTo(hgRecorded, v - 1) >= r)
    BY <1>1, <1>4, <1>6
  <1> QED BY <1>2, <1>4, <1>6, <1>7

\* Of the values that fall into the first i buckets those that were recorded are counted there.
LEMMA BucketOfRank ==
    ASSUME HgInv, NEW r \in Nat, NEW v \in HgValues, UpTo(hgRecorded, v) >= r, UpTo(hgRecorded, v - 1) < r,
           NEW i \in 1 .. Overflow
    PROVE  UpTo(hgBuckets, i) >= r <=> BucketOf(v) <= i
  <1>1. hgRecorded \in [1 .. HgMaxValue -> Nat] /\ HgMaxValue \in Nat
    BY MaxNat DEF HgInv, HgShape
  <1>2. v \in 0 .. HgMaxValue /\ v - 1 \in 0 .. HgMaxValue /\ Reach(i) \in 0 .. HgMaxValue
    BY <1>1, ReachIn
  <1>3. UpTo(hgRecorded, v) \in Nat /\ UpTo(hgRecorded, v - 1) \in Nat /\ UpTo(hgRecorded, Reach(i)) \in Nat
    BY <1>1, <1>2, UpToNat
  <1>4. UpTo(hgBuckets, i) = UpTo(hgRecorded, Reach(i))
    BY DEF HgInv, BucketsMatch
  <1>5. CASE v <= Reach(i)
    <2>1. UpTo(hgRecorded, v) <= UpTo(hgRecorded, Reach(i))
      BY <1>1, <1>2, <1>5, UpToMonotone
    <2> QED BY <1>3, <1>4, <1>5, <2>1, BucketReach
  <1>6. CASE ~(v <= Reach(i))
    <2>1. Reach(i) <= v - 1
      BY <1>1, <1>2, <1>6
    <2>2. UpTo(hgRecorded, Reach(i)) <= UpTo(hgRecorded, v - 1)
      BY <1>1, <1>2, <2>1, UpToMonotone
    <2> QED BY <1>3, <1>4, <1>6, <2>2, BucketReach
  <1> QED BY <1>5, <1>6

\* The rank of a percentile of n values is one of them.
LEMMA RankIn ==
    ASSUME NEW n \in Nat, n > 0, NEW pct \in {50, 95, 99}
    PROVE  RankOf(pct, n) \in Nat /\ 0 < RankOf(pct, n) /\ RankOf(pct, n) <= n
  <1>1. CASE pct = 50
    <2>1. (50 * n + 99) \div 100 \in Nat /\ (50 * n + 99) \div 100 <= n
      OBVIOUS
    <2> QED BY <1>1, <2>1 DEF RankOf
  <1>2. CASE pct = 95
    <2>1. (95 * n + 99) \div 100 \in Nat /\ (95 * n + 99) \div 100 <= n
      OBVIOUS
    <2> QED BY <1>2, <2>1 DEF RankOf
  <1>3. CASE pct = 99
    <2>1. (99 * n + 99) \div 100 \in Nat /\ (99 * n + 99) \div 100 <= n
      OBVIOUS
    <2> QED BY <1>3, <2>1 DEF RankOf
  <1> QED BY <1>1, <1>2, <1>3

\* With nobody recording the count and the buckets hold every value.
LEMMA CountsAtRest ==
    ASSUME HgInv, HgQuiet
    PROVE  hgCount = UpTo(hgRecorded, HgMaxValue) /\ hgCount = UpTo(hgBuckets, Overflow)
  <1>1. Counting = {}
    BY DEF HgQuiet, Counting
  <1>2. hgCount + Cardinality(Counting) = UpTo(hgRecorded, HgMaxValue) /\ hgCount \in Nat
    BY DEF HgInv, CountsMatch, HgShape
  <1>3. hgCount = UpTo(hgRecorded, HgMaxValue)
    BY <1>1, <1>2, FS_EmptySet
  <1>4. UpTo(hgBuckets, Overflow) = UpTo(hgRecorded, HgMaxValue)
    BY OverflowNat DEF HgInv, BucketsMatch, Reach
  <1> QED BY <1>3, <1>4

\* The extremes are those of the values recorded.
LEMMA ExtremesAtRest ==
    ASSUME HgInv, HgQuiet
    PROVE  /\ \A v \in HgValues : hgRecorded[v] > 0 => hgMin <= v /\ v <= hgMax
           /\ hgCount > 0 => /\ hgMin \in HgValues /\ hgMax \in HgValues
                             /\ hgRecorded[hgMin] > 0 /\ hgRecorded[hgMax] > 0
  <1>1. \A v \in HgValues : hgRecorded[v] > 0 => hgMin <= v /\ v <= hgMax
    BY DEF HgQuiet, HgInv, MinimumKept, MaximumKept, BeforeMin, BeforeMax
  <1>2. ASSUME hgCount > 0
        PROVE  hgMin \in HgValues /\ hgMax \in HgValues /\ hgRecorded[hgMin] > 0 /\ hgRecorded[hgMax] > 0
    <2>1. UpTo(hgRecorded, HgMaxValue) > 0 /\ hgRecorded \in [1 .. HgMaxValue -> Nat]
      BY <1>2, CountsAtRest DEF HgInv, HgShape
    <2>2. \E v \in HgValues : hgRecorded[v] # 0
      <3> SUFFICES ASSUME \A v \in 1 .. HgMaxValue : hgRecorded[v] = 0 PROVE FALSE
        OBVIOUS
      <3>1. UpTo(hgRecorded, HgMaxValue) = 0
        BY MaxNat, UpToZero
      <3> QED BY <2>1, <3>1
    <2>3. PICK v \in HgValues : hgRecorded[v] > 0
      BY <2>1, <2>2
    <2>4. hgMin <= v /\ v <= hgMax /\ v \in Nat
      BY <1>1, <2>3, MaxNat
    <2>5. hgMin # HgHighest /\ hgMax # HgLowest /\ hgMin \in HgValues /\ hgMax \in HgValues
      BY <2>3, <2>4, MaxNat DEF HgInv, HgShape
    <2> QED BY <2>5 DEF HgInv, MinimumKept, MaximumKept
  <1> QED BY <1>1, <1>2

LEMMA EstimateInBucket ==
    ASSUME HgInv, HgQuiet, hgCount > 0, NEW pct \in {50, 95, 99}
    PROVE  BucketOf(Estimate(pct)) = BucketOf(Ranked(pct))
  <1> DEFINE r == RankOf(pct, hgCount)
             v == Ranked(pct)
             b == BucketOf(v)
             reach == {i \in 1 .. Overflow : UpTo(hgBuckets, i) >= RankOf(pct, hgCount)}
             first == CHOOSE i \in reach : \A j \in reach : i <= j
  <1>1. hgCount \in Nat /\ hgCount = UpTo(hgRecorded, HgMaxValue)
    BY CountsAtRest DEF HgInv, HgShape
  <1>2. r \in Nat /\ 0 < r /\ r <= UpTo(hgRecorded, HgMaxValue)
    BY <1>1, RankIn
  <1>3. v \in HgValues /\ UpTo(hgRecorded, v) >= r /\ UpTo(hgRecorded, v - 1) < r
    <2>1. \E w \in HgValues : UpTo(hgRecorded, w) >= r /\ UpTo(hgRecorded, w - 1) < r
      <3> HIDE DEF r
      <3> QED BY <1>2, RankedIs
    <2>2. v = CHOOSE w \in HgValues : UpTo(hgRecorded, w) >= r /\ UpTo(hgRecorded, w - 1) < r
      BY <1>1 DEF Ranked
    <2> HIDE DEF r, v
    <2> QED BY <2>1, <2>2
  <1>4. /\ b \in 1 .. Overflow
        /\ b < Overflow => v <= HgBounds[b]
        /\ \A j \in 1 .. b - 1 : v > HgBounds[j]
    <2> HIDE DEF v
    <2> QED BY <1>3, BucketFound, MaxNat
  <1>5. \A i \in 1 .. Overflow : UpTo(hgBuckets, i) >= r <=> b <= i
    <2> HIDE DEF r, v
    <2> QED BY <1>2, <1>3, BucketOfRank
  <1>6. first = b /\ reach # {}
    <2>1. reach = {i \in 1 .. Overflow : b <= i}
      <3> HIDE DEF b
      <3> QED BY <1>5
    <2> HIDE DEF b, v, reach
    <2>2. b \in reach /\ \A j \in reach : b <= j
      BY <1>4, <2>1
    <2>3. \A i \in reach : (\A j \in reach : i <= j) => i = b
      BY <1>4, <2>1, <2>2, OverflowNat
    <2> QED BY <2>2, <2>3
  <1>7. Estimate(pct) = IF b = Overflow THEN hgMax
                        ELSE IF b = 1 THEN (IF hgMin < HgBounds[1] THEN hgMin ELSE HgBounds[1])
                        ELSE HgBounds[b]
    <2>1. Estimate(pct) = IF reach = {} \/ first = Overflow THEN hgMax
                          ELSE IF first = 1 THEN (IF hgMin < HgBounds[1] THEN hgMin ELSE HgBounds[1])
                          ELSE HgBounds[first]
      BY DEF Estimate
    <2> HIDE DEF b, v, reach, first
    <2> QED BY <1>6, <2>1
  <1>8. PICK e : e = Estimate(pct)
    OBVIOUS
  <1>9. hgRecorded[v] > 0 /\ v \in Nat
    <2> HIDE DEF r, v
    <2>1. hgRecorded \in [1 .. HgMaxValue -> Nat] /\ v \in 1 .. HgMaxValue
      BY <1>3 DEF HgInv, HgShape
    <2>2. UpTo(hgRecorded, v) = hgRecorded[v] + UpTo(hgRecorded, v - 1)
      BY <2>1, MaxNat, UpToHolds
    <2>3. v - 1 \in 0 .. HgMaxValue /\ UpTo(hgRecorded, v - 1) \in Nat /\ hgRecorded[v] \in Nat
      BY <2>1, MaxNat, UpToNat
    <2> QED BY <1>2, <1>3, <2>1, <2>2, <2>3
  <1>10. /\ hgMin \in HgValues /\ hgMax \in HgValues /\ v <= hgMax
    <2> HIDE DEF v
    <2> QED BY <1>3, <1>9, ExtremesAtRest
  <1>11. e \in Nat /\ (b < Overflow => e <= HgBounds[b]) /\ \A j \in 1 .. b - 1 : e > HgBounds[j]
    <2> HIDE DEF b, v, r
    <2>1. CASE b = Overflow
      <3>1. e = hgMax /\ hgMax \in Nat
        BY <1>7, <1>8, <1>10, <2>1, MaxNat
      <3>2. \A j \in 1 .. b - 1 : v > HgBounds[j] /\ HgBounds[j] \in Nat
        BY <1>4, <2>1, OverflowNat
      <3> QED BY <1>9, <1>10, <2>1, <3>1, <3>2, OverflowNat
    <2>2. CASE b # Overflow /\ b = 1
      <3>1. HgBounds[1] \in Nat /\ hgMin \in Nat
        BY <1>10, OverflowNat, MaxNat
      <3> QED BY <1>7, <1>8, <2>2, <3>1
    <2>3. CASE b # Overflow /\ b # 1
      <3>1. b \in 1 .. Overflow - 1 /\ e = HgBounds[b]
        BY <1>4, <1>7, <1>8, <2>3, OverflowNat
      <3>2. HgBounds[b] \in Nat /\ \A j \in 1 .. b - 1 : HgBounds[j] < HgBounds[b] /\ HgBounds[j] \in Nat
        BY <3>1, OverflowNat
      <3> QED BY <3>1, <3>2
    <2> QED BY <2>1, <2>2, <2>3
  <1>12. BucketOf(e) = b
    <2> HIDE DEF b, v, r
    <2> QED BY <1>4, <1>11, BucketIs
  <1> QED BY <1>8, <1>12

(***************************************************************************)
(* Whatever recorders interleave, once they have returned the count and    *)
(* the buckets hold every value, the extremes are exact and a percentile   *)
(* lies in the bucket of the value of its rank (Record, GetSnapshot).      *)
(***************************************************************************)
THEOREM HistogramsExact == HgSpec => []HistogramExact
  <1>1. HgInv => HistogramExact
    BY CountsAtRest, ExtremesAtRest, EstimateInBucket DEF HistogramExact
  <1> QED BY <1>1, HgInvInit, HgInvInductive, PTL DEF HgSpec

HIDE DEF HgValues, HgHighest, HgLowest

-----------------------------------------------------------------------------
(* The event bus. *)
LEMMA EventsConstants ==
    /\ IsFiniteSet(Threads)
    /\ EvCapacity \in Nat /\ EvCapacity > 0 /\ EvMaxEvents \in Nat /\ EvMaxHandlers \in Nat
    /\ Watchdog \in Threads /\ Nobody \notin Threads /\ Publishers \subseteq Threads
  BY EventsAssumption, FS_AddElement DEF EventsAssumption, Threads

PubType == [at : {"idle", "made", "pushed", "calling"}, id : 0..EvMaxEvents + 2,
            type : Types \cup {"none"}, todo : SUBSET Handlers]
DogType == [running : BOOLEAN, age : 0..2,
            at : {"none", "top", "asleep", "warning", "warned", "timeout", "timedout", "ended"}]

\* The thread that has the lock is the one that dispatches, to handlers that are registered;
\* while the browser is not attached, or only about to subscribe, no handler is its.
BusLocked ==
    /\ \A t \in Threads : /\ evPub[t].at = "calling" <=> evMtx = t
                          /\ evPub[t].at # "calling" => evPub[t].todo = {}
                          /\ evPub[t].todo \subseteq evHandlers
    /\ evDbg.held => evDbg.attached
    /\ evDbg.held \/ ~evDbg.attached => \A h \in evHandlers : h.filter # "browser"

\* Whoever stops the watchdog waits until its thread has ended.
WatchdogStopped ==
    /\ evCtl.at \in {"join", "finish"} => ~evDog.running
    /\ evCtl.at = "finish" => evDog.at = "none"
    /\ WatchdogQuiet

\* The events that are counted and not yet in the ring.
Made == {t \in Threads : evPub[t].at = "made"}

\* Their numbers and those in the ring are different and were given out.
NumbersDiffer ==
    /\ evNextId = evTotal + 1
    /\ \A t \in Made : evPub[t].id \in 1 .. evTotal
    /\ \A t, u \in Made : t # u => evPub[t].id # evPub[u].id
    /\ \A i \in 1 .. Len(evRing) : evRing[i] \in 1 .. evTotal
    /\ \A i \in 1 .. Len(evRing), t \in Made : evRing[i] # evPub[t].id
    /\ \A i, j \in 1 .. Len(evRing) : i # j => evRing[i] # evRing[j]

RingFilled ==
    Len(evRing) = IF evTotal - Cardinality(Made) < EvCapacity THEN evTotal - Cardinality(Made) ELSE EvCapacity

\* How far numbers may run ahead of the bound: the watchdog publishes twice before it ends.
NumbersBounded ==
    /\ evNextHandler <= EvMaxHandlers + 2
    /\ evDbg.held => evNextHandler <= EvMaxHandlers + 1
    /\ evNextId <= EvMaxEvents + 3
    /\ evDog.at \in {"top", "asleep", "warned", "timeout"} => evNextId <= EvMaxEvents + 2
    /\ evDog.at = "warning" => evNextId <= EvMaxEvents + 1

EvInv == EventsTypeOK /\ BusLocked /\ WatchdogStopped /\ NumbersDiffer /\ RingFilled /\ NumbersBounded

\* The earliest of some handlers is one of them.
LEMMA EarliestIs ==
    ASSUME NEW H, H \subseteq Handlers, H # {}
    PROVE  Earliest(H) \in H
  <1> DEFINE T == {h.id : h \in H}
  <1>1. T \subseteq Nat /\ T # {}
    BY EventsConstants DEF Handlers
  <1>2. PICK m \in T : \A n \in T : m <= n
    <2> HIDE DEF T
    <2> QED BY <1>1, LeastOf
  <1>3. PICK h \in H : m = h.id
    BY <1>2
  <1>4. \A g \in H : h.id <= g.id
    BY <1>2, <1>3
  <1> QED BY <1>4 DEF Earliest

LEMMA EvInvInit == EventsBusInit => EvInv
  <1> SUFFICES ASSUME EventsBusInit PROVE EvInv
    OBVIOUS
  <1>1. EventsTypeOK
    BY EventsConstants DEF EventsBusInit, EventsTypeOK, NotPublishing, Types, Handlers
  <1>2. BusLocked /\ WatchdogStopped
    BY EventsConstants DEF EventsBusInit, BusLocked, WatchdogStopped, WatchdogQuiet, NotPublishing
  <1>3. Made = {}
    BY DEF EventsBusInit, Made, NotPublishing
  <1>4. NumbersDiffer
    BY <1>3 DEF EventsBusInit, NumbersDiffer
  <1>5. RingFilled
    BY <1>3, FS_EmptySet, EventsConstants DEF EventsBusInit, RingFilled
  <1>6. NumbersBounded
    BY EventsConstants DEF EventsBusInit, NumbersBounded
  <1> QED BY <1>1, <1>2, <1>4, <1>5, <1>6 DEF EvInv

-----------------------------------------------------------------------------
(* The lock. *)
LEMMA BusLockedKept ==
    ASSUME EvInv, EventsNext PROVE BusLocked'
  <1>1. EventsTypeOK /\ BusLocked
    BY DEF EvInv
  <1>2. evPub \in [Threads -> PubType] /\ \A t \in Threads : evPub[t] \in PubType
    BY <1>1 DEF EventsTypeOK, PubType
  \* Steps that touch neither the handlers, the lock nor the debugger.
  <1>3. ASSUME NEW t \in Threads, NEW p \in PubType, evPub' = [evPub EXCEPT ![t] = p], p.todo = {},
               evPub[t].at # "calling", p.at # "calling", UNCHANGED <<evHandlers, evMtx, evDbg>>
        PROVE  BusLocked'
    BY <1>1, <1>2, <1>3 DEF BusLocked
  <1>4. CASE UNCHANGED <<evPub, evHandlers, evMtx, evDbg>>
    BY <1>1, <1>4 DEF BusLocked
  <1>5. ASSUME NEW t \in Threads, NEW type \in Types, MakeEvent(t, type), UNCHANGED <<evHandlers, evMtx, evDbg>>
        PROVE  BusLocked'
    <2>1. PICK p : p = [at |-> "made", id |-> evNextId, type |-> type, todo |-> {}]
      OBVIOUS
    <2>2. evPub' = [evPub EXCEPT ![t] = p] /\ evPub[t].at = "idle" /\ p.at = "made" /\ p.todo = {}
      BY <1>5, <2>1 DEF MakeEvent
    <2>3. /\ \A u \in Threads : u # t => evPub'[u] = evPub[u]
          /\ evPub'[t] = p
      BY <1>2, <2>2
    <2> QED BY <1>1, <1>5, <2>2, <2>3 DEF BusLocked
  <1>6. ASSUME NEW t \in Threads, PublishPush(t) PROVE BusLocked'
    <2>1. \A u \in Threads : /\ evPub'[u].todo = evPub[u].todo
                             /\ evPub'[u].at = IF u = t THEN "pushed" ELSE evPub[u].at
      BY <1>2, <1>6 DEF PublishPush, PubType
    <2>2. evPub[t].at = "made" /\ UNCHANGED <<evHandlers, evMtx, evDbg>>
      BY <1>6 DEF PublishPush
    <2> QED BY <1>1, <2>1, <2>2 DEF BusLocked
  <1>7. ASSUME NEW t \in Threads, Dispatch(t) PROVE BusLocked'
    <2>1. \A u \in Threads : IF u = t THEN evPub'[u].at = "calling" /\ evPub'[u].todo \subseteq evHandlers
                             ELSE evPub'[u] = evPub[u]
      BY <1>2, <1>7 DEF Dispatch, PubType
    <2>2. evMtx = Nobody /\ evMtx' = t /\ UNCHANGED <<evHandlers, evDbg>>
      BY <1>7 DEF Dispatch
    <2> QED BY <1>1, <2>1, <2>2, EventsConstants DEF BusLocked
  <1>8. ASSUME NEW t \in Threads, HandlerReturns(t) PROVE BusLocked'
    <2>1. \A u \in Threads : IF u = t THEN evPub'[u].at = evPub[u].at /\ evPub'[u].todo \subseteq evPub[u].todo
                             ELSE evPub'[u] = evPub[u]
      BY <1>2, <1>8 DEF HandlerReturns, PubType
    <2>2. UNCHANGED <<evMtx, evHandlers, evDbg>>
      BY <1>8 DEF HandlerReturns
    <2> QED BY <1>1, <2>1, <2>2 DEF BusLocked
  <1>9. ASSUME NEW t \in Threads, DispatchEnd(t) PROVE BusLocked'
    <2>1. \A u \in Threads : IF u = t THEN evPub'[u].at = "idle" /\ evPub'[u].todo = {}
                             ELSE evPub'[u] = evPub[u]
      BY <1>2, <1>9 DEF DispatchEnd, NotPublishing
    <2>2. evPub[t].at = "calling" /\ evMtx' = Nobody /\ UNCHANGED <<evHandlers, evDbg>>
      BY <1>9 DEF DispatchEnd
    <2> QED BY <1>1, <2>1, <2>2, EventsConstants DEF BusLocked
  <1>10. \A t \in Threads : evMtx = Nobody => evPub[t].todo = {}
    BY <1>1, EventsConstants DEF BusLocked
  <1>11. ASSUME NEW filter \in Filters \ {"browser"}, Subscribe(filter) PROVE BusLocked'
    BY <1>1, <1>11 DEF BusLocked, Subscribe, AddHandler
  <1>12. ASSUME NEW handlerId, Unsubscribe(handlerId) PROVE BusLocked'
    <2>1. evMtx = Nobody /\ evHandlers' \subseteq evHandlers /\ UNCHANGED <<evMtx, evPub, evDbg>>
      BY <1>12 DEF Unsubscribe
    <2> QED BY <1>1, <1>10, <2>1 DEF BusLocked
  <1>13. CASE EventsInit
    BY <1>1, <1>13 DEF BusLocked, EventsInit, NotPublishing
  <1>14. CASE EventsShutdown
    BY <1>1, <1>10, <1>14 DEF BusLocked, EventsShutdown
  <1>15. CASE DebuggerInit
    <2>1. evDbg'.held = evDbg.held /\ ~evDbg.held /\ \A h \in evHandlers : h.filter # "browser"
      BY <1>1, <1>15 DEF DebuggerInit, EventsTypeOK
    <2> QED BY <1>1, <1>15, <2>1 DEF BusLocked, DebuggerInit
  <1>16. CASE AttachEventBrowser
    BY <1>1, <1>16 DEF BusLocked, AttachEventBrowser
  <1>17. CASE AttachSubscribe
    <2>1. /\ evMtx = Nobody /\ evDbg.held /\ evHandlers \subseteq evHandlers' /\ UNCHANGED <<evMtx, evPub>>
      BY <1>17 DEF AttachSubscribe, AddHandler
    <2>2. ~evDbg'.held /\ evDbg'.attached
      BY <1>1, <1>17 DEF AttachSubscribe, BusLocked, EventsTypeOK
    <2> QED BY <1>1, <2>1, <2>2 DEF BusLocked
  <1>18. CASE DogPublishes
    BY <1>5, <1>18, EventsConstants DEF DogPublishes, Types
  <1>19. ASSUME NEW t \in Publishers, Publish(t) PROVE BusLocked'
    BY <1>5, <1>19, EventsConstants DEF Publish, Types
  <1>20. CASE \/ EventsReset \/ TimePasses \/ KickWatchdog \/ DogLoop \/ DogWakes \/ DogPublished \/ JoinWatchdog
              \/ (\E op \in {"Configure", "Shutdown"} : StopWatchdog(op))
              \/ (\E enabled \in BOOLEAN : ConfigureWatchdog(enabled))
    BY <1>4, <1>20 DEF EventsReset, TimePasses, KickWatchdog, DogLoop, DogWakes, DogPublished, JoinWatchdog,
                       StopWatchdog, ConfigureWatchdog
  <1> QED BY <1>6, <1>7, <1>8, <1>9, <1>11, <1>12, <1>13, <1>14, <1>15, <1>16, <1>17, <1>18, <1>19, <1>20
             DEF EventsNext

-----------------------------------------------------------------------------
(* The watchdog and the bounds. *)
LEMMA WatchdogStoppedKept ==
    ASSUME EvInv, EventsNext PROVE WatchdogStopped'
  <1>1. EventsTypeOK /\ WatchdogStopped
    BY DEF EvInv
  <1>2. evDog \in DogType /\ evCtl \in [op : {"none", "Configure", "Shutdown"}, at : {"idle", "join", "finish"}]
    BY <1>1 DEF EventsTypeOK, DogType
  <1>3. CASE UNCHANGED <<evDog, evCtl>>
    BY <1>1, <1>3 DEF WatchdogStopped, WatchdogQuiet
  \* A thread that is not there does nothing.
  <1>4. ASSUME evDog.at # "none", evDog'.running = evDog.running, UNCHANGED evCtl PROVE WatchdogStopped'
    BY <1>1, <1>4 DEF WatchdogStopped, WatchdogQuiet
  <1>5. CASE TimePasses \/ DogLoop \/ DogWakes \/ DogPublishes \/ DogPublished
    BY <1>2, <1>4, <1>5 DEF TimePasses, DogLoop, DogWakes, DogPublishes, DogPublished, DogType
  <1>6. CASE KickWatchdog
    <2>1. evDog'.running = evDog.running /\ evDog'.at = evDog.at /\ evCtl' = evCtl
      BY <1>2, <1>6 DEF KickWatchdog, DogType
    <2> QED BY <1>1, <2>1 DEF WatchdogStopped, WatchdogQuiet
  <1>7. ASSUME NEW op, StopWatchdog(op) PROVE WatchdogStopped'
    <2>1. /\ ~evDog'.running /\ evDog'.at = evDog.at
          /\ evCtl.at = "idle" /\ evCtl'.at = IF evDog.running THEN "join" ELSE "finish"
      BY <1>2, <1>7 DEF StopWatchdog, DogType
    <2> QED BY <1>1, <2>1 DEF WatchdogStopped, WatchdogQuiet
  <1>8. CASE JoinWatchdog
    <2>1. evDog'.running = evDog.running /\ evDog'.at = "none" /\ evCtl.at = "join" /\ evCtl'.at = "finish"
      BY <1>2, <1>8 DEF JoinWatchdog, DogType
    <2> QED BY <1>1, <2>1 DEF WatchdogStopped, WatchdogQuiet
  <1>9. ASSUME NEW enabled \in BOOLEAN, ConfigureWatchdog(enabled) PROVE WatchdogStopped'
    <2>1. evCtl.at = "finish" /\ evCtl'.at = "idle" /\ (evDog' = evDog \/ evDog'.running)
      BY <1>9 DEF ConfigureWatchdog
    <2> QED BY <1>1, <2>1 DEF WatchdogStopped, WatchdogQuiet
  <1>10. CASE EventsShutdown
    BY <1>1, <1>10 DEF EventsShutdown, WatchdogStopped, WatchdogQuiet
  <1> QED BY <1>3, <1>5, <1>6, <1>7, <1>8, <1>9, <1>10
             DEF EventsNext, Publish, PublishPush, Dispatch, HandlerReturns, DispatchEnd, Subscribe, Unsubscribe,
                 EventsReset, EventsInit, DebuggerInit, AttachEventBrowser, AttachSubscribe

LEMMA NumbersBoundedKept ==
    ASSUME EvInv, EventsNext PROVE NumbersBounded'
  <1>1. EventsTypeOK /\ NumbersBounded
    BY DEF EvInv
  <1>2. /\ evDog \in DogType /\ evNextId \in Nat /\ evNextHandler \in Nat
        /\ evDbg \in [held : BOOLEAN, attached : BOOLEAN]
        /\ EvMaxEvents \in Nat /\ EvMaxHandlers \in Nat
    BY <1>1, EventsConstants DEF EventsTypeOK, DogType
  <1>3. CASE UNCHANGED <<evNextHandler, evNextId, evDog, evDbg>>
    BY <1>1, <1>3 DEF NumbersBounded
  <1>4. ASSUME evNextId' <= EvMaxEvents + 1, UNCHANGED <<evNextHandler, evDbg, evDog>>, evNextId' \in Nat
        PROVE  NumbersBounded'
    BY <1>1, <1>2, <1>4 DEF NumbersBounded
  <1>5. ASSUME NEW t \in Publishers, Publish(t) PROVE NumbersBounded'
    BY <1>2, <1>4, <1>5 DEF Publish, MakeEvent
  <1>6. CASE EventsReset \/ EventsInit
    BY <1>2, <1>4, <1>6 DEF EventsReset, EventsInit
  <1>7. ASSUME UNCHANGED <<evNextHandler, evDbg>>, evNextId' <= EvMaxEvents + 3,
               evDog'.at \in {"top", "asleep", "warned", "timeout"} => evNextId' <= EvMaxEvents + 2,
               evDog'.at = "warning" => evNextId' <= EvMaxEvents + 1
        PROVE  NumbersBounded'
    BY <1>1, <1>7 DEF NumbersBounded
  <1>8. CASE TimePasses \/ KickWatchdog \/ (\E op \in {"Configure", "Shutdown"} : StopWatchdog(op))
    <2>1. evDog'.at = evDog.at /\ UNCHANGED <<evNextHandler, evDbg, evNextId>>
      BY <1>2, <1>8 DEF TimePasses, KickWatchdog, StopWatchdog, DogType
    <2> QED BY <1>1, <1>2, <1>7, <2>1 DEF NumbersBounded
  <1>9. CASE DogLoop \/ DogWakes
    <2>1. /\ evDog.at \in {"top", "asleep"} /\ UNCHANGED <<evNextHandler, evDbg, evNextId>>
          /\ evDog'.at = "warning" => evNextId <= EvMaxEvents
      BY <1>2, <1>9 DEF DogLoop, DogWakes, Verdict, DogType
    <2> QED BY <1>1, <1>2, <1>7, <2>1 DEF NumbersBounded
  <1>10. CASE DogPublishes
    <2>1. evDog.at \in {"warning", "timeout"} /\ evDog'.at = IF evDog.at = "warning" THEN "warned" ELSE "timedout"
      BY <1>2, <1>10 DEF DogPublishes, DogType
    <2>2. evNextId' = evNextId + 1 /\ UNCHANGED <<evNextHandler, evDbg>>
      BY <1>10 DEF DogPublishes, MakeEvent
    <2> QED BY <1>1, <1>2, <1>7, <2>1, <2>2 DEF NumbersBounded
  <1>11. CASE DogPublished
    <2>1. /\ (evDog.at = "warned" /\ evDog'.at = "top") \/ evDog'.at = "ended"
          /\ UNCHANGED <<evNextHandler, evDbg, evNextId>>
      BY <1>2, <1>11 DEF DogPublished, DogType
    <2> QED BY <1>1, <1>2, <1>7, <2>1 DEF NumbersBounded
  <1>12. CASE JoinWatchdog
    BY <1>1, <1>2, <1>7, <1>12 DEF NumbersBounded, JoinWatchdog, DogType
  <1>13. ASSUME NEW enabled \in BOOLEAN, ConfigureWatchdog(enabled) PROVE NumbersBounded'
    <2>1. CASE enabled
      BY <1>2, <1>7, <1>13, <2>1 DEF ConfigureWatchdog
    <2>2. CASE ~enabled
      BY <1>3, <1>13, <2>2 DEF ConfigureWatchdog
    <2> QED BY <2>1, <2>2
  <1>14. ASSUME NEW filter, Subscribe(filter) PROVE NumbersBounded'
    <2>1. /\ evNextHandler' \in Nat /\ evNextHandler' <= EvMaxHandlers + 1 /\ UNCHANGED <<evNextId, evDog, evDbg>>
      BY <1>2, <1>14 DEF Subscribe, AddHandler
    <2> QED BY <1>1, <1>2, <2>1 DEF NumbersBounded
  <1>15. CASE DebuggerInit
    BY <1>1, <1>2, <1>15 DEF NumbersBounded, DebuggerInit
  <1>16. CASE AttachEventBrowser
    BY <1>1, <1>2, <1>16 DEF NumbersBounded, AttachEventBrowser
  <1>17. CASE AttachSubscribe
    <2>1. ~evDbg'.held /\ evNextHandler' = evNextHandler + 1 /\ evDbg.held /\ UNCHANGED <<evNextId, evDog>>
      BY <1>2, <1>17 DEF AttachSubscribe, AddHandler
    <2> QED BY <1>1, <1>2, <2>1 DEF NumbersBounded
  <1> QED BY <1>3, <1>5, <1>6, <1>8, <1>9, <1>10, <1>11, <1>12, <1>13, <1>14, <1>15, <1>16, <1>17
             DEF EventsNext, PublishPush, Dispatch, HandlerReturns, DispatchEnd, Unsubscribe, EventsShutdown

-----------------------------------------------------------------------------
(* The numbers and the ring. *)
LEMMA MadeIs ==
    Made \subseteq Threads /\ IsFiniteSet(Made) /\ Cardinality(Made) \in Nat
  BY EventsConstants, FS_Subset, FS_CardinalityType DEF Made

\* An event takes its number.
LEMMA MadeOne ==
    ASSUME EvInv, NEW t \in Threads, NEW type \in Types, MakeEvent(t, type), UNCHANGED evRing
    PROVE  NumbersDiffer' /\ RingFilled'
  <1>1. EventsTypeOK /\ NumbersDiffer /\ RingFilled
    BY DEF EvInv
  <1>2. evPub \in [Threads -> PubType] /\ evTotal \in Nat /\ evNextId \in Nat
    BY <1>1 DEF EventsTypeOK, PubType
  <1>3. /\ \A u \in Threads \ {t} : evPub'[u] = evPub[u]
        /\ evPub'[t].at = "made" /\ evPub'[t].id = evNextId /\ evPub[t].at = "idle"
        /\ evTotal' = evTotal + 1 /\ evNextId' = evNextId + 1
    BY <1>2 DEF MakeEvent
  <1>4. Made' = Made \cup {t} /\ t \notin Made
    BY <1>3 DEF Made
  <1>5. Cardinality(Made') = Cardinality(Made) + 1
    BY <1>4, MadeIs, FS_AddElement
  <1>6. evNextId = evTotal + 1
    BY <1>1 DEF NumbersDiffer
  <1>7. \A u \in Made : evPub'[u].id = evPub[u].id
    BY <1>3, <1>4, MadeIs
  <1>8. NumbersDiffer'
    <2>1. /\ \A u \in Made : evPub[u].id \in 1 .. evTotal
          /\ \A u, v \in Made : u # v => evPub[u].id # evPub[v].id
          /\ \A i \in 1 .. Len(evRing) : evRing[i] \in 1 .. evTotal
          /\ \A i \in 1 .. Len(evRing), u \in Made : evRing[i] # evPub[u].id
          /\ \A i, j \in 1 .. Len(evRing) : i # j => evRing[i] # evRing[j]
      BY <1>1 DEF NumbersDiffer
    <2>2. \A n \in 1 .. evTotal : n \in 1 .. evTotal' /\ n # evPub'[t].id
      BY <1>2, <1>3, <1>6
    <2>3. evPub'[t].id \in 1 .. evTotal'
      BY <1>2, <1>3, <1>6
    <2>4. \A u \in Made' : evPub'[u].id \in 1 .. evTotal'
      BY <1>4, <1>7, <2>1, <2>2, <2>3
    <2>5. \A u, v \in Made' : u # v => evPub'[u].id # evPub'[v].id
      BY <1>4, <1>7, <2>1, <2>2
    <2>6. \A i \in 1 .. Len(evRing), u \in Made' : evRing[i] # evPub'[u].id
      BY <1>4, <1>7, <2>1, <2>2
    <2> QED BY <1>2, <1>3, <1>6, <2>1, <2>2, <2>4, <2>5, <2>6 DEF NumbersDiffer
  <1>9. RingFilled'
    BY <1>1, <1>2, <1>3, <1>5, MadeIs, EventsConstants DEF RingFilled
  <1> QED BY <1>8, <1>9

\* The event is put into the ring, which drops its oldest when it is full.
LEMMA PushedOne ==
    ASSUME EvInv, NEW t \in Threads, PublishPush(t)
    PROVE  NumbersDiffer' /\ RingFilled'
  <1>1. EventsTypeOK /\ NumbersDiffer /\ RingFilled
    BY DEF EvInv
  <1>2. /\ evPub \in [Threads -> PubType] /\ evTotal \in Nat /\ evNextId \in Nat
        /\ evRing \in Seq(Nat) /\ Len(evRing) \in Nat /\ Len(evRing) <= EvCapacity
    <2>1. 1 .. EvMaxEvents + 2 \subseteq Nat
      BY EventsConstants
    <2>2. evRing \in Seq(1 .. EvMaxEvents + 2) /\ Len(evRing) \in Nat
      BY <1>1 DEF EventsTypeOK
    <2>3. evRing \in Seq(Nat)
      BY <2>1, <2>2, SeqMonotonic
    <2> QED BY <1>1, <2>2, <2>3 DEF EventsTypeOK, PubType
  <1>3. /\ evPub[t].at = "made" /\ evPub[t].id \in Nat
        /\ UNCHANGED <<evTotal, evNextId>>
    BY <1>2 DEF PublishPush, PubType
  <1>4. \A u \in Threads : evPub'[u].id = evPub[u].id /\ evPub'[u].at = IF u = t THEN "pushed" ELSE evPub[u].at
    BY <1>2 DEF PublishPush, PubType
  <1>5. Made' = Made \ {t} /\ t \in Made
    BY <1>3, <1>4 DEF Made
  <1>6. Cardinality(Made') = Cardinality(Made) - 1
    BY <1>5, MadeIs, FS_RemoveElement
  <1>7. PICK old : /\ old \in Seq(Nat) /\ evRing' = Append(old, evPub[t].id)
                   /\ Len(old) = IF Len(evRing) >= EvCapacity THEN Len(evRing) - 1 ELSE Len(evRing)
                   /\ \E d \in {0, 1} : /\ \A i \in 1 .. Len(old) : i + d \in 1 .. Len(evRing) /\ old[i] = evRing[i + d]
    <2>1. evRing' = Append(IF Len(evRing) >= EvCapacity THEN Tail(evRing) ELSE evRing, evPub[t].id)
      BY DEF PublishPush
    <2>2. CASE Len(evRing) >= EvCapacity
      <3>1. Len(evRing) > 0 /\ evRing # <<>>
        BY <1>2, <2>2, EventsConstants
      <3>2. /\ Tail(evRing) \in Seq(Nat) /\ Len(Tail(evRing)) = Len(evRing) - 1
            /\ \A i \in 1 .. Len(Tail(evRing)) : Tail(evRing)[i] = evRing[i + 1]
        BY <1>2, <3>1
      <3>3. \A i \in 1 .. Len(Tail(evRing)) : i + 1 \in 1 .. Len(evRing) /\ Tail(evRing)[i] = evRing[i + 1]
        BY <1>2, <3>2
      <3> QED BY <2>1, <2>2, <3>2, <3>3
    <2>3. CASE ~(Len(evRing) >= EvCapacity)
      <3>1. \A i \in 1 .. Len(evRing) : i + 0 \in 1 .. Len(evRing) /\ evRing[i] = evRing[i + 0]
        BY <1>2
      <3> QED BY <1>2, <2>1, <2>3, <3>1
    <2> QED BY <2>2, <2>3
  <1>8. PICK d \in {0, 1} : \A i \in 1 .. Len(old) : i + d \in 1 .. Len(evRing) /\ old[i] = evRing[i + d]
    BY <1>7
  <1>9. /\ Len(evRing') = Len(old) + 1 /\ Len(old) \in Nat
        /\ \A i \in 1 .. Len(evRing') : \/ i \in 1 .. Len(old) /\ evRing'[i] = old[i]
                                        \/ i = Len(evRing') /\ evRing'[i] = evPub[t].id
    <2>1. Len(evRing') = Len(old) + 1 /\ Len(old) \in Nat
      BY <1>3, <1>7
    <2>2. \A i \in 1 .. Len(old) + 1 : evRing'[i] = IF i = Len(old) + 1 THEN evPub[t].id ELSE old[i]
      BY <1>3, <1>7
    <2>3. ASSUME NEW i \in 1 .. Len(old) + 1 PROVE i \in 1 .. Len(old) \/ i = Len(old) + 1
      BY <2>1, <2>3
    <2>4. ASSUME NEW i \in 1 .. Len(evRing')
          PROVE  \/ i \in 1 .. Len(old) /\ evRing'[i] = old[i]
                 \/ i = Len(evRing') /\ evRing'[i] = evPub[t].id
      <3>1. i \in 1 .. Len(old) + 1
        BY <2>1
      <3>2. CASE i = Len(old) + 1
        BY <2>1, <2>2, <3>1, <3>2
      <3>3. CASE i # Len(old) + 1
        <4>1. evRing'[i] = old[i]
          BY <2>2, <3>1, <3>3
        <4>2. i \in 1 .. Len(old)
          BY <2>3, <3>1, <3>3
        <4> QED BY <4>1, <4>2
      <3> QED BY <3>2, <3>3
    <2> QED BY <2>1, <2>4
  <1>10. NumbersDiffer'
    <2>1. /\ evNextId = evTotal + 1
          /\ \A u \in Made : evPub[u].id \in 1 .. evTotal
          /\ \A u, v \in Made : u # v => evPub[u].id # evPub[v].id
          /\ \A i \in 1 .. Len(evRing) : evRing[i] \in 1 .. evTotal
          /\ \A i \in 1 .. Len(evRing), u \in Made : evRing[i] # evPub[u].id
          /\ \A i, j \in 1 .. Len(evRing) : i # j => evRing[i] # evRing[j]
      BY <1>1 DEF NumbersDiffer
    <2>2. \A u \in Made' : u \in Made /\ u # t /\ evPub'[u].id = evPub[u].id
      BY <1>4, <1>5, MadeIs
    <2>3. /\ \A i \in 1 .. Len(old) : old[i] \in 1 .. evTotal /\ \A u \in Made : old[i] # evPub[u].id
      BY <1>8, <2>1
    <2>4. \A i, j \in 1 .. Len(old) : i # j => i + d # j + d
      BY <1>9
    <2>5. \A i, j \in 1 .. Len(old) : i # j => old[i] # old[j]
      BY <1>8, <2>1, <2>4
    <2>6. \A i \in 1 .. Len(evRing') : evRing'[i] \in 1 .. evTotal
      BY <1>5, <1>9, <2>1, <2>3
    <2>7. \A i \in 1 .. Len(evRing'), u \in Made' : evRing'[i] # evPub'[u].id
      BY <1>5, <1>9, <2>1, <2>2, <2>3
    <2>8. \A i, j \in 1 .. Len(evRing') : i # j => evRing'[i] # evRing'[j]
      BY <1>5, <1>9, <2>3, <2>5
    <2>9. \A u \in Made' : evPub'[u].id \in 1 .. evTotal
      BY <2>1, <2>2
    <2>10. \A u, v \in Made' : u # v => evPub'[u].id # evPub'[v].id
      BY <2>1, <2>2
    <2> QED BY <1>3, <2>1, <2>6, <2>7, <2>8, <2>9, <2>10 DEF NumbersDiffer
  <1>11. RingFilled'
    BY <1>1, <1>2, <1>3, <1>6, <1>7, <1>9, MadeIs, EventsConstants DEF RingFilled
  <1> QED BY <1>10, <1>11

LEMMA RingKept ==
    ASSUME EvInv, EventsNext PROVE NumbersDiffer' /\ RingFilled'
  <1>1. EventsTypeOK /\ NumbersDiffer /\ RingFilled
    BY DEF EvInv
  <1>2. evPub \in [Threads -> PubType]
    BY <1>1 DEF EventsTypeOK, PubType
  <1>3. ASSUME \A t \in Threads : evPub'[t].at = "made" <=> evPub[t].at = "made",
               \A t \in Threads : evPub'[t].at = "made" => evPub'[t].id = evPub[t].id,
               UNCHANGED <<evTotal, evNextId, evRing>>
        PROVE  NumbersDiffer' /\ RingFilled'
    <2>1. Made' = Made /\ \A t \in Made : evPub'[t].id = evPub[t].id
      BY <1>3 DEF Made
    <2> QED BY <1>1, <1>3, <2>1 DEF NumbersDiffer, RingFilled
  <1>4. CASE UNCHANGED <<evPub, evTotal, evNextId, evRing>>
    BY <1>3, <1>4
  <1>5. ASSUME NEW t \in Threads, Dispatch(t) \/ HandlerReturns(t) \/ DispatchEnd(t)
        PROVE  NumbersDiffer' /\ RingFilled'
    <2>1. UNCHANGED <<evTotal, evNextId, evRing>> /\ evPub[t].at \in {"pushed", "calling"}
      BY <1>5 DEF Dispatch, HandlerReturns, DispatchEnd
    <2>2. \A u \in Threads : IF u = t THEN evPub'[u].at \in {"calling", "idle"} ELSE evPub'[u] = evPub[u]
      BY <1>2, <1>5 DEF Dispatch, HandlerReturns, DispatchEnd, PubType, NotPublishing
    <2> QED BY <1>3, <2>1, <2>2
  <1>6. CASE EventsReset \/ EventsInit
    <2>1. evRing' = <<>> /\ evTotal' = 0 /\ evNextId' = 1 /\ evPub' = evPub
      BY <1>6 DEF EventsReset, EventsInit
    <2>2. Made' = {}
      BY <1>6, <2>1 DEF Made, EventsReset, EventsInit, NotPublishing
    <2>3. NumbersDiffer'
      BY <2>1, <2>2 DEF NumbersDiffer
    <2>4. RingFilled'
      BY <2>1, <2>2, FS_EmptySet, EventsConstants DEF RingFilled
    <2> QED BY <2>3, <2>4
  <1>7. CASE DogPublishes
    BY <1>7, MadeOne, EventsConstants DEF DogPublishes, Types
  <1>8. ASSUME NEW t \in Publishers, Publish(t) PROVE NumbersDiffer' /\ RingFilled'
    BY <1>8, MadeOne, EventsConstants DEF Publish, Types
  <1> QED BY <1>4, <1>5, <1>6, <1>7, <1>8, PushedOne
             DEF EventsNext, Subscribe, Unsubscribe, TimePasses, KickWatchdog, DogLoop, DogWakes, DogPublished,
                 StopWatchdog, JoinWatchdog, ConfigureWatchdog, EventsShutdown, DebuggerInit, AttachEventBrowser,
                 AttachSubscribe

-----------------------------------------------------------------------------
LEMMA EventsTyped ==
    ASSUME EvInv, EventsNext PROVE EventsTypeOK'
  <1>1. EventsTypeOK /\ BusLocked /\ NumbersDiffer /\ NumbersBounded
    BY DEF EvInv
  <1>2. NumbersDiffer' /\ NumbersBounded' /\ RingFilled'
    BY RingKept, NumbersBoundedKept
  <1>3. /\ evPub \in [Threads -> PubType] /\ evDog \in DogType /\ evTotal \in Nat /\ evNextId \in Nat /\ evNextHandler \in Nat
        /\ evDbg \in [held : BOOLEAN, attached : BOOLEAN] /\ evRing \in Seq(1 .. EvMaxEvents + 2)
        /\ evHandlers \subseteq Handlers
    BY <1>1, EventsConstants DEF EventsTypeOK, PubType, DogType
  \* The handlers.
  <1>4. /\ evHandlers' \subseteq Handlers /\ evNextHandler' \in 1 .. EvMaxHandlers + 2
    <2>1. ASSUME NEW filter \in Filters, AddHandler(filter), evNextHandler <= EvMaxHandlers + 1
          PROVE  evHandlers' \subseteq Handlers /\ evNextHandler' \in 1 .. EvMaxHandlers + 2
      <3>1. evNextHandler \in 1 .. EvMaxHandlers + 1
        BY <1>1, <2>1, EventsConstants DEF EventsTypeOK
      <3>2. [id |-> evNextHandler, filter |-> filter] \in Handlers
        BY <3>1 DEF Handlers
      <3> QED BY <1>3, <2>1, <3>1, <3>2, EventsConstants DEF AddHandler
    <2>2. CASE AttachSubscribe
      BY <1>1, <2>1, <2>2 DEF AttachSubscribe, NumbersBounded, Filters
    <2>3. ASSUME NEW filter \in Filters, Subscribe(filter)
          PROVE  evHandlers' \subseteq Handlers /\ evNextHandler' \in 1 .. EvMaxHandlers + 2
      BY <1>3, <2>1, <2>3, EventsConstants DEF Subscribe
    <2>4. CASE evHandlers' \subseteq evHandlers /\ evNextHandler' = evNextHandler
      BY <1>1, <1>3, <2>4 DEF EventsTypeOK
    <2> QED BY <2>2, <2>3, <2>4
               DEF EventsNext, Publish, PublishPush, Dispatch, HandlerReturns, DispatchEnd, Unsubscribe, EventsReset,
                   EventsInit, TimePasses, KickWatchdog, DogLoop, DogWakes, DogPublishes, DogPublished, StopWatchdog,
                   JoinWatchdog, ConfigureWatchdog, EventsShutdown, DebuggerInit, AttachEventBrowser
  \* The numbers and the ring.
  <1>5. /\ evNextId' \in Nat /\ evTotal' \in Nat
        /\ evRing' \in Seq(Nat)
    <2>1. evRing \in Seq(Nat)
      <3>1. 1 .. EvMaxEvents + 2 \subseteq Nat
        BY EventsConstants
      <3> QED BY <1>3, <3>1, SeqMonotonic
    <2>2. CASE UNCHANGED <<evNextId, evTotal, evRing>>
      BY <1>3, <2>1, <2>2
    <2>3. ASSUME NEW t, NEW type, MakeEvent(t, type), UNCHANGED evRing
          PROVE  evNextId' \in Nat /\ evTotal' \in Nat /\ evRing' \in Seq(Nat)
      BY <1>3, <2>1, <2>3 DEF MakeEvent
    <2>4. ASSUME NEW t \in Threads, PublishPush(t)
          PROVE  evNextId' \in Nat /\ evTotal' \in Nat /\ evRing' \in Seq(Nat)
      <3>1. evPub[t].id \in Nat /\ UNCHANGED <<evNextId, evTotal>>
        BY <1>3, <2>4, EventsConstants DEF PublishPush, PubType
      <3>2. CASE Len(evRing) >= EvCapacity
        <4>1. evRing # <<>>
          BY <2>1, <3>2, EventsConstants
        <4>2. Tail(evRing) \in Seq(Nat)
          BY <2>1, <4>1
        <4> QED BY <1>3, <2>4, <3>1, <3>2, <4>2 DEF PublishPush
      <3>3. CASE ~(Len(evRing) >= EvCapacity)
        BY <1>3, <2>1, <2>4, <3>1, <3>3 DEF PublishPush
      <3> QED BY <3>2, <3>3
    <2>5. CASE EventsReset \/ EventsInit
      <3>1. evNextId' = 1 /\ evTotal' = 0 /\ evRing' = <<>>
        BY <2>5 DEF EventsReset, EventsInit
      <3> QED BY <3>1, EmptySeq
    <2> QED BY <2>2, <2>3, <2>4, <2>5
               DEF EventsNext, Publish, Dispatch, HandlerReturns, DispatchEnd, Subscribe, Unsubscribe, TimePasses,
                   KickWatchdog, DogLoop, DogWakes, DogPublishes, DogPublished, StopWatchdog,
                   JoinWatchdog, ConfigureWatchdog, EventsShutdown, DebuggerInit, AttachEventBrowser, AttachSubscribe
  <1>6. evNextId' \in 1 .. EvMaxEvents + 3 /\ evTotal' \in 0 .. EvMaxEvents + 2
    <2>1. evNextId' = evTotal' + 1
      BY <1>2 DEF NumbersDiffer
    <2>2. evNextId' <= EvMaxEvents + 3
      BY <1>2 DEF NumbersBounded
    <2>3. EvMaxEvents \in Nat /\ evTotal' \in Nat /\ evNextId' \in Nat
      BY <1>5, EventsConstants
    <2>4. \A n, i, m \in Nat : i = n + 1 /\ i <= m + 3 => n \in 0 .. m + 2 /\ i \in 1 .. m + 3
      OBVIOUS
    <2> QED BY <2>1, <2>2, <2>3, <2>4
  <1>7. evRing' \in Seq(1 .. EvMaxEvents + 2) /\ Len(evRing') <= EvCapacity
    <2>1. \A i \in 1 .. Len(evRing') : evRing'[i] \in 1 .. EvMaxEvents + 2
      <3>1. \A i \in 1 .. Len(evRing') : evRing'[i] \in 1 .. evTotal'
        BY <1>2 DEF NumbersDiffer
      <3>2. 1 .. evTotal' \subseteq 1 .. EvMaxEvents + 2
        BY <1>6, EventsConstants
      <3> QED BY <3>1, <3>2
    <2>2. evRing' \in Seq(1 .. EvMaxEvents + 2)
      <3>1. Len(evRing') \in Nat /\ evRing' \in [1 .. Len(evRing') -> Nat]
        BY <1>5, LenProperties
      <3>2. evRing' \in [1 .. Len(evRing') -> 1 .. EvMaxEvents + 2]
        BY <2>1, <3>1
      <3> QED BY <3>1, <3>2, SeqDef
    <2>3. Len(evRing') <= EvCapacity
      <3>1. Cardinality(Made') \in Nat
        <4>1. Made' \subseteq Threads
          BY DEF Made
        <4> QED BY <4>1, EventsConstants, FS_Subset, FS_CardinalityType
      <3> QED BY <1>2, <1>5, <3>1, EventsConstants DEF RingFilled
    <2> QED BY <2>2, <2>3
  \* Publications.
  <1>8. evPub' \in [Threads -> PubType] /\ evMtx' \in Threads \cup {Nobody}
    <2>1. evMtx \in Threads \cup {Nobody}
      BY <1>1 DEF EventsTypeOK
    <2>2. ASSUME NEW t \in Threads, NEW type \in Types, MakeEvent(t, type) PROVE evPub' \in [Threads -> PubType]
      <3>1. evNextId \in 0 .. EvMaxEvents + 2
        <4>1. evNextId' = evNextId + 1
          BY <2>2 DEF MakeEvent
        <4> QED BY <1>3, <1>6, <4>1, EventsConstants
      <3>2. [at |-> "made", id |-> evNextId, type |-> type, todo |-> {}] \in PubType
        BY <3>1 DEF PubType
      <3> QED BY <1>3, <2>2, <3>2 DEF MakeEvent
    <2>3. ASSUME NEW t \in Threads, PublishPush(t) PROVE evPub' \in [Threads -> PubType]
      BY <1>3, <2>3 DEF PublishPush, PubType
    <2>4. ASSUME NEW t \in Threads, Dispatch(t) PROVE evPub' \in [Threads -> PubType]
      <3>1. PICK h : h = {g \in evHandlers : Receives(g, evPub[t].type)}
        OBVIOUS
      <3>2. evPub' = [evPub EXCEPT ![t].at = "calling", ![t].todo = h] /\ h \in SUBSET Handlers
        BY <1>3, <2>4, <3>1 DEF Dispatch
      <3> QED BY ZenonT(40), <1>3, <3>2 DEF PubType
    <2>5. ASSUME NEW t \in Threads, HandlerReturns(t) PROVE evPub' \in [Threads -> PubType]
      <3>1. PICK h : h = evPub[t].todo \ {Earliest(evPub[t].todo)}
        OBVIOUS
      <3>2. evPub' = [evPub EXCEPT ![t].todo = h] /\ h \in SUBSET Handlers
        BY <1>3, <2>5, <3>1 DEF HandlerReturns, PubType
      <3> QED BY <1>3, <3>2 DEF PubType
    <2>6. ASSUME NEW t \in Threads, DispatchEnd(t) PROVE evPub' \in [Threads -> PubType]
      <3>1. NotPublishing \in PubType
        BY EventsConstants DEF NotPublishing, PubType
      <3> QED BY <1>3, <2>6, <3>1 DEF DispatchEnd
    <2>7. CASE \E t \in Publishers : Publish(t)
      BY <2>1, <2>2, <2>7, EventsConstants DEF Publish, Types
    <2>8. CASE DogPublishes
      BY <2>1, <2>2, <2>8, EventsConstants DEF DogPublishes, Types
    <2>9. CASE \E t \in Threads : PublishPush(t) \/ Dispatch(t) \/ HandlerReturns(t) \/ DispatchEnd(t)
      BY <2>1, <2>3, <2>4, <2>5, <2>6, <2>9 DEF PublishPush, Dispatch, HandlerReturns, DispatchEnd
    <2>10. CASE UNCHANGED <<evPub, evMtx>>
      BY <1>3, <2>1, <2>10
    <2> QED BY <2>7, <2>8, <2>9, <2>10
               DEF EventsNext, Subscribe, Unsubscribe, EventsReset, EventsInit, TimePasses, KickWatchdog, DogLoop, DogWakes,
                   DogPublished, StopWatchdog, JoinWatchdog, ConfigureWatchdog, EventsShutdown, DebuggerInit,
                   AttachEventBrowser, AttachSubscribe
  \* The watchdog, the control thread and the debugger.
  <1>9. evDog' \in DogType
    <2>1. CASE TimePasses \/ KickWatchdog \/ (\E op \in {"Configure", "Shutdown"} : StopWatchdog(op))
      <3>1. evDog.age \in 0 .. 2 /\ (evDog.age < 2 => evDog.age + 1 \in 0 .. 2) /\ 0 \in 0 .. 2
        BY <1>3 DEF DogType
      <3>2. CASE TimePasses
        BY <1>3, <3>1, <3>2 DEF TimePasses, DogType
      <3>3. CASE KickWatchdog
        BY <1>3, <3>1, <3>3 DEF KickWatchdog, DogType
      <3>4. CASE \E op \in {"Configure", "Shutdown"} : StopWatchdog(op)
        BY <1>3, <3>4 DEF StopWatchdog, DogType
      <3> QED BY <2>1, <3>2, <3>3, <3>4
    <2>2. CASE DogLoop \/ DogPublishes \/ DogPublished \/ JoinWatchdog
      BY <1>3, <2>2 DEF DogLoop, DogPublishes, DogPublished, JoinWatchdog, DogType
    <2>3. CASE DogWakes
      <3>1. Verdict \in {"ended", "timeout", "warning", "top"}
        BY <1>3 DEF Verdict, DogType
      <3> QED BY <1>3, <2>3, <3>1 DEF DogWakes, DogType
    <2>4. CASE \E enabled \in BOOLEAN : ConfigureWatchdog(enabled)
      BY <1>3, <2>4 DEF ConfigureWatchdog, DogType
    <2>5. CASE UNCHANGED evDog
      BY <1>3, <2>5
    <2> QED BY <2>1, <2>2, <2>3, <2>4, <2>5
               DEF EventsNext, Publish, PublishPush, Dispatch, HandlerReturns, DispatchEnd, Subscribe, Unsubscribe,
                   EventsReset, EventsInit, EventsShutdown, DebuggerInit, AttachEventBrowser, AttachSubscribe
  <1>10. evCtl' \in [op : {"none", "Configure", "Shutdown"}, at : {"idle", "join", "finish"}]
    <2>1. evCtl \in [op : {"none", "Configure", "Shutdown"}, at : {"idle", "join", "finish"}]
      BY <1>1 DEF EventsTypeOK
    <2>2. CASE UNCHANGED evCtl
      BY <2>1, <2>2
    <2>3. CASE JoinWatchdog \/ EventsShutdown \/ \E enabled \in BOOLEAN : ConfigureWatchdog(enabled)
      BY <2>1, <2>3 DEF JoinWatchdog, EventsShutdown, ConfigureWatchdog
    <2>4. CASE \E op \in {"Configure", "Shutdown"} : StopWatchdog(op)
      BY <2>4 DEF StopWatchdog
    <2> QED BY <2>2, <2>3, <2>4
               DEF EventsNext, Publish, PublishPush, Dispatch, HandlerReturns, DispatchEnd, Subscribe, Unsubscribe,
                   EventsReset, EventsInit, TimePasses, KickWatchdog, DogLoop, DogWakes, DogPublishes,
                   DogPublished, DebuggerInit, AttachEventBrowser, AttachSubscribe
  <1>11. evDbg' \in [held : BOOLEAN, attached : BOOLEAN]
    <2>1. CASE AttachEventBrowser
      BY <2>1 DEF AttachEventBrowser
    <2>2. CASE UNCHANGED evDbg
      BY <1>3, <2>2
    <2>3. CASE DebuggerInit
      BY <1>3, <2>3 DEF DebuggerInit
    <2>4. CASE AttachSubscribe
      BY <1>3, <2>4 DEF AttachSubscribe
    <2> QED BY <2>1, <2>2, <2>3, <2>4
               DEF EventsNext, Publish, PublishPush, Dispatch, HandlerReturns, DispatchEnd, Subscribe, Unsubscribe,
                   EventsReset, EventsInit, TimePasses, KickWatchdog, DogLoop, DogWakes, DogPublishes,
                   DogPublished, StopWatchdog, JoinWatchdog, ConfigureWatchdog, EventsShutdown
  <1> QED BY <1>4, <1>6, <1>7, <1>8, <1>9, <1>10, <1>11 DEF EventsTypeOK, PubType, DogType

LEMMA EvInvInductive == EvInv /\ [EventsNext]_evVars => EvInv'
  <1>1. ASSUME EvInv, EventsNext PROVE EvInv'
    BY <1>1, EventsTyped, BusLockedKept, WatchdogStoppedKept, NumbersBoundedKept, RingKept DEF EvInv
  <1>2. ASSUME EvInv, UNCHANGED evVars PROVE EvInv'
    <2>1. Made' = Made
      BY <1>2 DEF evVars, Made
    <2> QED BY <1>2, <2>1 DEF EvInv, evVars, EventsTypeOK, BusLocked, WatchdogStopped, WatchdogQuiet, NumbersDiffer,
                              RingFilled, NumbersBounded
  <1> QED BY <1>1, <1>2

(***************************************************************************)
(* A handler is called while it is subscribed, the ring holds the events   *)
(* it should, a stopped watchdog is gone, and dispatch and the debugger's  *)
(* attachment do not wait for each other (Publish, Unsubscribe,            *)
(* ConfigureWatchdog, AttachEventBrowser).                                 *)
(***************************************************************************)
THEOREM EventsAlwaysSound == EvSpec => [](CalledIsRegistered /\ RingAgrees /\ WatchdogQuiet /\ NoLockCycle)
  <1>1. ASSUME EvInv PROVE CalledIsRegistered /\ RingAgrees /\ WatchdogQuiet /\ NoLockCycle
    <2>1. EventsTypeOK /\ BusLocked /\ WatchdogStopped /\ NumbersDiffer /\ RingFilled
      BY <1>1 DEF EvInv
    <2>2. ASSUME NEW t \in Threads, evPub[t].todo # {} PROVE Earliest(evPub[t].todo) \in evHandlers
      <3>1. evPub[t].todo \subseteq evHandlers /\ evHandlers \subseteq Handlers
        BY <2>1 DEF BusLocked, EventsTypeOK
      <3> QED BY <2>2, <3>1, EarliestIs
    <2>3. CalledIsRegistered
      BY <2>2 DEF CalledIsRegistered
    <2>4. NoLockCycle
      BY <2>1, <2>2 DEF NoLockCycle, BusLocked
    <2>5. ASSUME \A t \in Threads : evPub[t].at # "made"
          PROVE  /\ Len(evRing) = IF evTotal < EvCapacity THEN evTotal ELSE EvCapacity
                 /\ IsInjective(evRing)
      <3>1. Made = {}
        BY <2>5 DEF Made
      <3>2. Len(evRing) = IF evTotal < EvCapacity THEN evTotal ELSE EvCapacity
        BY <2>1, <3>1, FS_EmptySet, EventsConstants DEF RingFilled, EventsTypeOK
      <3>3. DOMAIN evRing = 1 .. Len(evRing)
        BY <2>1 DEF EventsTypeOK
      <3>4. IsInjective(evRing)
        BY <2>1, <3>3 DEF IsInjective, NumbersDiffer
      <3> QED BY <3>2, <3>4
    <2>6. RingAgrees
      BY <2>5 DEF RingAgrees
    <2> QED BY <2>1, <2>3, <2>4, <2>6 DEF WatchdogStopped
  <1> QED BY <1>1, EvInvInit, EvInvInductive, PTL DEF EvSpec

-----------------------------------------------------------------------------
(* The bounds of the histogram's counters. *)

\* The recorders that have yet to store their sum.
Summing == {t \in HgThreads : hgThread[t].at \in {"count", "load", "store"}}

\* The sum of k recorded values has been stored, if no store was lost.
SumOf(k) ==
    /\ k + Cardinality(Summing) = UpTo(hgRecorded, HgMaxValue)
    /\ hgSum <= k * HgMaxValue
    /\ \A t \in HgThreads : hgThread[t].at = "store" => hgThread[t].seen <= k * HgMaxValue

HgBounded == UpTo(hgRecorded, HgMaxValue) <= HgMaxRecords /\ \E k \in Nat : SumOf(k)

LEMMA SummingFinite == IsFiniteSet(Summing) /\ Cardinality(Summing) \in Nat
  BY HistogramAssumption, FS_Subset, FS_CardinalityType DEF HistogramAssumption, Summing

LEMMA RecordedNat == HgShape => UpTo(hgRecorded, HgMaxValue) \in Nat
  <1> SUFFICES ASSUME HgShape PROVE UpTo(hgRecorded, HgMaxValue) \in Nat
    OBVIOUS
  <1>1. PICK m \in Nat : m = HgMaxValue
    BY MaxNat
  <1>2. hgRecorded \in [1 .. m -> Nat]
    BY <1>1 DEF HgShape, HgValues
  <1>3. m \in 0 .. m
    OBVIOUS
  <1> QED BY <1>1, <1>2, <1>3, UpToNat

LEMMA HgBoundedInit == HgInit => HgBounded
  <1> SUFFICES ASSUME HgInit PROVE HgBounded
    OBVIOUS
  <1>1. PICK m \in Nat : m = HgMaxValue
    BY MaxNat
  <1>2. \A i \in 1 .. m : hgRecorded[i] = 0
    BY <1>1 DEF HgInit, HgValues
  <1>3. UpTo(hgRecorded, m) = 0
    BY <1>2, UpToZero
  <1>4. Summing = {} /\ \A t \in HgThreads : hgThread[t].at = "idle"
    BY DEF HgInit, HgOut, Summing
  <1>5. Cardinality(Summing) = 0
    BY <1>4, FS_EmptySet
  <1>6. hgSum = 0 /\ 0 * m = 0
    BY DEF HgInit
  <1>7. SumOf(0)
    BY <1>1, <1>3, <1>4, <1>5, <1>6 DEF SumOf
  <1>8. HgMaxRecords \in Nat
    BY HistogramAssumption DEF HistogramAssumption
  <1> QED BY <1>1, <1>3, <1>7, <1>8 DEF HgBounded

LEMMA RecordBucketBounded ==
    ASSUME HgInv, HgBounded, NEW t \in HgThreads, NEW v \in HgValues, RecordBucket(t, v)
    PROVE  HgBounded'
  <1>0. HgShape
    BY DEF HgInv
  <1>1. PICK m \in Nat : m = HgMaxValue
    BY MaxNat
  <1>2. hgRecorded \in [1 .. m -> Nat] /\ v \in 1 .. m
    BY <1>0, <1>1 DEF HgShape, HgValues
  <1>3. PICK new : new = hgRecorded'
    OBVIOUS
  <1>4. new = [hgRecorded EXCEPT ![v] = @ + 1]
    BY <1>3 DEF RecordBucket
  <1>5. OneMore(hgRecorded, new, v, m)
    BY <1>2, <1>4 DEF OneMore
  <1>6. SumsOneMore(hgRecorded, new, v, m)
    BY <1>2, <1>5, UpToCounts
  <1>7. UpTo(new, m) = UpTo(hgRecorded, m) + 1
    <2>1. m \in 0 .. m /\ v <= m
      BY <1>2
    <2> QED BY <1>6, <2>1 DEF SumsOneMore
  <1>8. UpTo(hgRecorded, m) \in Nat /\ UpTo(hgRecorded, m) < HgMaxRecords /\ HgMaxRecords \in Nat
    BY <1>0, <1>1, RecordedNat, HistogramAssumption DEF RecordBucket, HistogramAssumption
  <1>9. hgThread' = [hgThread EXCEPT ![t] = [at |-> "count", value |-> v, seen |-> 0]] /\ hgSum' = hgSum
        /\ hgThread[t].at = "idle"
    BY DEF RecordBucket
  <1>10. hgThread'[t].at = "count" /\ \A u \in HgThreads : u # t => hgThread'[u] = hgThread[u]
    BY <1>0, <1>9 DEF HgShape
  <1>11. Summing' = Summing \cup {t} /\ t \notin Summing
    BY <1>9, <1>10 DEF Summing
  <1>12. Cardinality(Summing') = Cardinality(Summing) + 1 /\ Cardinality(Summing) \in Nat
    BY <1>11, SummingFinite, FS_AddElement
  <1>13. PICK k \in Nat : SumOf(k)
    BY DEF HgBounded
  <1>14. k + Cardinality(Summing') = UpTo(new, m)
    BY <1>1, <1>7, <1>8, <1>12, <1>13 DEF SumOf
  <1>15. SumOf(k)'
    BY <1>1, <1>3, <1>9, <1>10, <1>13, <1>14 DEF SumOf
  <1>16. UpTo(new, m) <= HgMaxRecords
    BY <1>7, <1>8
  <1> QED BY <1>1, <1>3, <1>15, <1>16 DEF HgBounded

LEMMA SumStoreBounded ==
    ASSUME HgInv, HgBounded, NEW t \in HgThreads, SumStore(t)
    PROVE  HgBounded'
  <1>0. HgShape
    BY DEF HgInv
  <1>1. PICK m \in Nat : m = HgMaxValue
    BY MaxNat
  <1>2. /\ hgThread[t].at = "store" /\ hgSum' = hgThread[t].seen + hgThread[t].value /\ hgRecorded' = hgRecorded
        /\ hgThread' = [hgThread EXCEPT ![t].at = "min", ![t].seen = hgMin]
    BY DEF SumStore, RecorderAt
  <1>3. hgThread[t].seen \in Nat /\ hgThread[t].value \in 0 .. m
    BY <1>0, <1>1 DEF HgShape
  <1>4. hgThread'[t].at = "min" /\ \A u \in HgThreads : u # t => hgThread'[u] = hgThread[u]
    BY <1>0, <1>2 DEF HgShape
  <1>5. Summing' = Summing \ {t} /\ t \in Summing
    BY <1>2, <1>4 DEF Summing
  <1>6. Cardinality(Summing') = Cardinality(Summing) - 1 /\ Cardinality(Summing) \in Nat
    BY <1>5, SummingFinite, FS_RemoveElement
  <1>7. PICK k \in Nat : SumOf(k)
    BY DEF HgBounded
  <1>8. PICK sum \in Nat : sum = k * m
    OBVIOUS
  <1>9. (k + 1) * m = sum + m
    BY <1>8
  <1>10. k + Cardinality(Summing) = UpTo(hgRecorded, m) /\ \A u \in HgThreads : hgThread[u].at = "store" => hgThread[u].seen <= sum
    BY <1>1, <1>7, <1>8 DEF SumOf
  <1>11. hgSum' <= sum + m
    BY <1>2, <1>3, <1>10
  <1>12. \A u \in HgThreads : hgThread'[u].at = "store" => hgThread'[u].seen <= sum + m
    <2> SUFFICES ASSUME NEW u \in HgThreads, hgThread'[u].at = "store" PROVE hgThread'[u].seen <= sum + m
      OBVIOUS
    <2>1. u # t /\ hgThread'[u] = hgThread[u]
      BY <1>4
    <2>2. hgThread[u].seen <= sum /\ hgThread[u].seen \in Nat
      BY <1>0, <1>10, <2>1 DEF HgShape
    <2> QED BY <2>1, <2>2
  <1>13. (k + 1) + Cardinality(Summing') = UpTo(hgRecorded', m)
    BY <1>2, <1>6, <1>10
  <1>14. PICK n \in Nat : n = k + 1 /\ n * m = sum + m /\ n + Cardinality(Summing') = UpTo(hgRecorded', m)
    BY <1>9, <1>13
  <1>15. SumOf(n)'
    BY <1>1, <1>11, <1>12, <1>14 DEF SumOf
  <1> QED BY <1>2, <1>15 DEF HgBounded

\* A step that stores no sum.
LEMMA NoStoreBounded ==
    ASSUME HgInv, HgBounded, NEW t \in HgThreads, RecordCount(t) \/ SumLoad(t) \/ MinTry(t) \/ MaxTry(t)
    PROVE  HgBounded'
  <1>0. HgShape
    BY DEF HgInv
  <1>1. hgSum' = hgSum /\ hgRecorded' = hgRecorded
    BY DEF RecordCount, SumLoad, MinTry, MaxTry
  <1>2. /\ \A u \in HgThreads : u # t => hgThread'[u] = hgThread[u]
        /\ hgThread'[t].at \in {"count", "load", "store"} <=> hgThread[t].at \in {"count", "load", "store"}
        /\ hgThread'[t].at = "store" => hgThread'[t].seen = hgSum
    <2>1. CASE RecordCount(t)
      BY <1>0, <2>1 DEF HgShape, RecordCount, RecorderAt
    <2>2. CASE SumLoad(t)
      BY <1>0, <2>2 DEF HgShape, SumLoad, RecorderAt
    <2>3. CASE MinTry(t)
      BY <1>0, <2>3 DEF HgShape, MinTry, RecorderAt
    <2>4. CASE MaxTry(t)
      BY <1>0, <2>4 DEF HgShape, MaxTry, RecorderAt, HgOut
    <2> QED BY <2>1, <2>2, <2>3, <2>4
  <1>3. Summing' = Summing
    BY <1>2 DEF Summing
  <1>4. PICK k \in Nat : SumOf(k)
    BY DEF HgBounded
  <1>5. SumOf(k)'
    BY <1>1, <1>2, <1>3, <1>4 DEF SumOf
  <1> QED BY <1>1, <1>5 DEF HgBounded

LEMMA HgResetBounded ==
    ASSUME HgInv, HgBounded, HgReset
    PROVE  HgBounded'
  <1>1. PICK m \in Nat : m = HgMaxValue
    BY MaxNat
  <1>2. PICK new : new = hgRecorded' /\ \A i \in 1 .. m : new[i] = 0
    BY <1>1 DEF HgReset, Cleared, HgValues
  <1>3. UpTo(new, m) = 0
    <2>1. m \in 0 .. m
      OBVIOUS
    <2> QED BY <1>2, <2>1, UpToZero
  <1>4. Summing' = {} /\ \A t \in HgThreads : hgThread'[t].at = "idle"
    BY DEF HgReset, Summing
  <1>5. Cardinality(Summing') = 0
    BY <1>4, FS_EmptySet
  <1>6. hgSum' = 0 /\ 0 * m = 0
    BY DEF HgReset, Cleared
  <1>7. SumOf(0)'
    BY <1>1, <1>2, <1>3, <1>4, <1>5, <1>6 DEF SumOf
  <1>8. HgMaxRecords \in Nat
    BY HistogramAssumption DEF HistogramAssumption
  <1> QED BY <1>1, <1>2, <1>3, <1>7, <1>8 DEF HgBounded

LEMMA HgBoundedInductive == HgInv /\ HgBounded /\ [HgNext]_hgVars => HgBounded'
  <1> SUFFICES ASSUME HgInv, HgBounded, [HgNext]_hgVars PROVE HgBounded'
    OBVIOUS
  <1>1. CASE HgReset
    BY <1>1, HgResetBounded
  <1>2. ASSUME NEW t \in HgThreads, NEW v \in HgValues, RecordBucket(t, v) PROVE HgBounded'
    BY <1>2, RecordBucketBounded
  <1>3. ASSUME NEW t \in HgThreads, RecordCount(t) \/ SumLoad(t) \/ SumStore(t) \/ MinTry(t) \/ MaxTry(t)
        PROVE  HgBounded'
    BY <1>3, SumStoreBounded, NoStoreBounded
  <1>4. CASE UNCHANGED hgVars
    BY <1>4 DEF hgVars, HgBounded, SumOf, Summing
  <1> QED BY <1>1, <1>2, <1>3, <1>4 DEF HgNext

LEMMA HgTypesHold == HgInv /\ HgBounded => HgTypeOK
  <1> SUFFICES ASSUME HgInv, HgBounded PROVE HgTypeOK
    OBVIOUS
  <1>0. HgShape /\ CountsMatch /\ BucketsMatch
    BY DEF HgInv
  <1>1. PICK m \in Nat : m = HgMaxValue
    BY MaxNat
  <1>2. PICK n \in Nat : n = HgMaxRecords
    BY HistogramAssumption DEF HistogramAssumption
  <1>3. PICK all \in Nat : all = UpTo(hgRecorded, m) /\ all <= n
    BY <1>0, <1>1, <1>2, RecordedNat DEF HgBounded
  <1>4. hgRecorded \in [1 .. m -> 0 .. n]
    <2>1. hgRecorded \in [1 .. m -> Nat]
      BY <1>0, <1>1 DEF HgShape, HgValues
    <2>2. \A v \in 1 .. m : hgRecorded[v] <= all
      BY <1>3, <2>1, UpToHolds
    <2> QED BY <1>3, <2>1, <2>2
  <1>5. hgCount \in 0 .. n
    <2>1. hgCount + Cardinality(Counting) = all /\ Cardinality(Counting) \in Nat /\ hgCount \in Nat
      BY <1>0, <1>1, <1>3, CountingFinite DEF CountsMatch, HgShape
    <2> QED BY <1>3, <2>1
  <1>6. hgBuckets \in [1 .. Overflow -> 0 .. n]
    <2>1. PICK last \in Nat : last = Overflow /\ last > 1
      BY OverflowNat
    <2>2. hgBuckets \in [1 .. last -> Nat]
      BY <1>0, <2>1 DEF HgShape
    <2>3. UpTo(hgBuckets, last) = all
      BY <1>0, <1>1, <1>3, <2>1 DEF BucketsMatch, Reach
    <2>4. \A i \in 1 .. last : hgBuckets[i] <= all
      BY <2>2, <2>3, UpToHolds
    <2> QED BY <1>3, <2>1, <2>2, <2>4
  <1>7. hgSum \in 0 .. n * m
    <2>1. PICK k \in Nat : SumOf(k)
      BY DEF HgBounded
    <2>2. k <= n
      BY <1>1, <1>3, <2>1, SummingFinite DEF SumOf
    <2>3. \A a, b, c \in Nat : a <= b => a * c <= b * c /\ a * c \in Nat /\ b * c \in Nat
      OBVIOUS
    <2>4. k * m <= n * m /\ k * m \in Nat /\ n * m \in Nat
      BY <2>2, <2>3
    <2>5. PICK low, high \in Nat : low = k * m /\ high = n * m /\ low <= high
      BY <2>4
    <2>6. hgSum <= low /\ hgSum \in Nat
      BY <1>0, <1>1, <2>1, <2>5 DEF SumOf, HgShape
    <2> QED BY <2>5, <2>6
  <1> QED BY <1>0, <1>1, <1>2, <1>4, <1>5, <1>6, <1>7 DEF HgTypeOK, HgShape, HgValues

LEMMA RtTypesHold == RtInv => RuntimeTypeOK
  BY DEF RtInv, RtShape, RuntimeTypeOK, RtEntry, RtCallType

-----------------------------------------------------------------------------
(* The pad slots. *)
Holding(slots, d) == {i \in SlotIds : slots[i].active /\ slots[i].gc = d}

\* Slot 0 is the keyboard's and holds no device; another slot that is active holds the device it
\* was opened for, and one that is not holds none.
SlotsKept(slots, up) ==
    /\ slots \in [SlotIds -> SlotType]
    /\ slots[0].gc = NoPad /\ slots[0].jid = NoPad
    /\ \A i \in SlotIds : i # 0 /\ slots[i].active => slots[i].gc = slots[i].jid /\ slots[i].gc \in InPads
    /\ \A i \in SlotIds : ~slots[i].active => slots[i].gc = NoPad
    /\ slots[0].active = up
    /\ ~up => \A i \in SlotIds : ~slots[i].active

RefsCount(slots, refs) ==
    /\ refs \in [InPads -> Nat]
    /\ \A d \in InPads : refs[d] = Cardinality(Holding(slots, d))

PadsSound(s, up) == SlotsKept(s.slots, up) /\ RefsCount(s.slots, s.refs)

InShape ==
    /\ inInitialised \in BOOLEAN
    /\ inPlugged \subseteq InPads /\ inGone \subseteq InPads
    /\ inEvents \in Seq({"added", "removed"} \X InPads)
    /\ DOMAIN inSeen \subseteq SlotIds /\ \A i \in DOMAIN inSeen : inSeen[i] \in InPads \cup {NoPad}
    /\ inCalls \in 0 .. InMaxFrames
    /\ ~inInitialised => inEvents = <<>>

InInv == InShape /\ SlotsKept(inSlots, inInitialised) /\ RefsCount(inSlots, inRefs)

LEMMA SlotsFinite ==
    /\ InSlots \in Nat /\ 0 \in SlotIds /\ SlotIds \subseteq Nat
    /\ IsFiniteSet(SlotIds) /\ Cardinality(SlotIds) = InSlots
  <1>1. InSlots \in Nat /\ InSlots # 0
    BY InputAssumption
  <1>2. InSlots - 1 \in Int /\ SlotIds = 0 .. InSlots - 1
    BY <1>1 DEF SlotIds
  <1>3. IsFiniteSet(0 .. InSlots - 1) /\ Cardinality(0 .. InSlots - 1) = IF 0 > InSlots - 1 THEN 0 ELSE (InSlots - 1) - 0 + 1
    BY <1>2, FS_Interval
  <1> QED BY <1>1, <1>2, <1>3

LEMMA NoPadIsNone == NoPad \notin InPads
  BY InputAssumption DEF NoPad

LEMMA HoldingFinite ==
    ASSUME NEW slots, NEW d
    PROVE  IsFiniteSet(Holding(slots, d)) /\ Cardinality(Holding(slots, d)) \in 0 .. InSlots
  <1>1. PICK H : H = Holding(slots, d)
    OBVIOUS
  <1>2. H \subseteq SlotIds
    BY <1>1 DEF Holding
  <1>3. IsFiniteSet(H) /\ Cardinality(H) <= Cardinality(SlotIds)
    BY <1>2, SlotsFinite, FS_Subset
  <1>4. Cardinality(H) \in Nat
    BY <1>3, FS_CardinalityType
  <1> QED BY <1>1, <1>3, <1>4, SlotsFinite

LEMMA LowestIs ==
    ASSUME NEW S \in SUBSET SlotIds, S # {}
    PROVE  LowestOf(S) \in S
  <1>1. S \in SUBSET Nat
    BY SlotsFinite
  <1>2. \E i \in S : \A j \in S : i <= j
    BY <1>1, LeastOf
  <1> QED BY <1>2 DEF LowestOf

\* Opening takes a free slot, which is not the keyboard's, and one reference.
LEMMA OpenKeeps ==
    ASSUME NEW s, s = [slots |-> s.slots, refs |-> s.refs], PadsSound(s, TRUE), NEW d \in InPads
    PROVE  LET t == OpenController(s, d) IN t = [slots |-> t.slots, refs |-> t.refs] /\ PadsSound(t, TRUE)
  <1>1. CASE d \notin inPlugged \/ FreeSlots(s) = {}
    BY <1>1 DEF OpenController
  <1>2. CASE ~(d \notin inPlugged \/ FreeSlots(s) = {})
    <2>1. PICK i : i = LowestOf(FreeSlots(s))
      OBVIOUS
    <2>2. i \in SlotIds /\ ~s.slots[i].active
      <3>1. FreeSlots(s) \in SUBSET SlotIds /\ FreeSlots(s) # {}
        BY <1>2 DEF FreeSlots
      <3> QED BY <2>1, <3>1, LowestIs DEF FreeSlots
    <2>3. PICK new : new = [s.slots EXCEPT ![i] = [active |-> TRUE, mode |-> "Pad", gc |-> d, jid |-> d]]
      OBVIOUS
    <2>4. PICK refs : refs = [s.refs EXCEPT ![d] = @ + 1]
      OBVIOUS
    <2>5. OpenController(s, d) = [slots |-> new, refs |-> refs]
      BY <1>2, <2>1, <2>3, <2>4 DEF OpenController
    <2>6. i # 0
      BY <2>2 DEF PadsSound, SlotsKept
    <2>7. s.slots \in [SlotIds -> SlotType] /\ [active |-> TRUE, mode |-> "Pad", gc |-> d, jid |-> d] \in SlotType
      BY DEF PadsSound, SlotsKept, SlotType
    <2>8. new \in [SlotIds -> SlotType] /\ new[i] = [active |-> TRUE, mode |-> "Pad", gc |-> d, jid |-> d]
          /\ \A j \in SlotIds : j # i => new[j] = s.slots[j]
      BY <2>2, <2>3, <2>7
    <2>9. SlotsKept(new, TRUE)
      BY <2>2, <2>6, <2>8, SlotsFinite DEF PadsSound, SlotsKept
    <2>10. ASSUME NEW e \in InPads, e # d PROVE Holding(new, e) = Holding(s.slots, e)
      BY <2>2, <2>8, <2>10 DEF Holding
    <2>11. Holding(new, d) = Holding(s.slots, d) \cup {i} /\ i \notin Holding(s.slots, d)
      BY <2>2, <2>8 DEF Holding
    <2>12. Cardinality(Holding(new, d)) = Cardinality(Holding(s.slots, d)) + 1
      <3>1. PICK H : H = Holding(s.slots, d)
        OBVIOUS
      <3>2. IsFiniteSet(H)
        BY <3>1, HoldingFinite
      <3>3. Cardinality(H \cup {i}) = Cardinality(H) + 1
        BY <2>11, <3>1, <3>2, FS_AddElement
      <3> QED BY <2>11, <3>1, <3>3
    <2>13. s.refs \in [InPads -> Nat] /\ \A e \in InPads : s.refs[e] = Cardinality(Holding(s.slots, e))
      BY DEF PadsSound, RefsCount
    <2>14. refs \in [InPads -> Nat] /\ refs[d] = s.refs[d] + 1 /\ \A e \in InPads : e # d => refs[e] = s.refs[e]
      BY <2>4, <2>13
    <2>15. RefsCount(new, refs)
      BY <2>10, <2>12, <2>13, <2>14 DEF RefsCount
    <2>16. [slots |-> new, refs |-> refs].slots = new /\ [slots |-> new, refs |-> refs].refs = refs
      OBVIOUS
    <2>17. PICK t : t = OpenController(s, d)
      OBVIOUS
    <2>18. t = [slots |-> t.slots, refs |-> t.refs] /\ t.slots = new /\ t.refs = refs
      BY <2>5, <2>16, <2>17
    <2>19. PadsSound(t, TRUE)
      BY <2>9, <2>15, <2>18 DEF PadsSound
    <2> QED BY <2>17, <2>18, <2>19
  <1> QED BY <1>1, <1>2

\* Closing frees a slot that holds the device and drops one reference.
LEMMA CloseKeeps ==
    ASSUME NEW s, s = [slots |-> s.slots, refs |-> s.refs], PadsSound(s, TRUE), NEW d \in InPads
    PROVE  LET t == CloseController(s, d) IN t = [slots |-> t.slots, refs |-> t.refs] /\ PadsSound(t, TRUE)
  <1>0. PICK of : of = {i \in SlotIds : s.slots[i].active /\ s.slots[i].jid = d}
    OBVIOUS
  <1>1. CASE of = {}
    BY <1>0, <1>1 DEF CloseController
  <1>2. CASE of # {}
    <2>1. PICK i : i = LowestOf(of)
      OBVIOUS
    <2>2. i \in SlotIds /\ s.slots[i].active /\ s.slots[i].jid = d
      <3>1. of \in SUBSET SlotIds
        BY <1>0
      <3>2. i \in of
        BY <1>2, <2>1, <3>1, LowestIs
      <3> QED BY <1>0, <3>2
    <2>3. PICK new : new = [s.slots EXCEPT ![i].active = FALSE, ![i].gc = NoPad]
      OBVIOUS
    <2>4. PICK refs : refs = [s.refs EXCEPT ![d] = @ - 1]
      OBVIOUS
    <2>5. CloseController(s, d) = [slots |-> new, refs |-> refs]
      BY <1>0, <1>2, <2>1, <2>3, <2>4 DEF CloseController
    <2>6. i # 0 /\ s.slots[i].gc = d
      BY <2>2, NoPadIsNone DEF PadsSound, SlotsKept
    <2>7. s.slots \in [SlotIds -> SlotType]
      BY DEF PadsSound, SlotsKept
    <2>8. /\ new \in [SlotIds -> SlotType]
          /\ new[i] = [s.slots[i] EXCEPT !.active = FALSE, !.gc = NoPad]
          /\ \A j \in SlotIds : j # i => new[j] = s.slots[j]
      <3>1. s.slots[i] \in SlotType
        BY <2>2, <2>7
      <3>2. [s.slots[i] EXCEPT !.active = FALSE, !.gc = NoPad] \in SlotType
        BY <3>1 DEF SlotType
      <3>3. new = [s.slots EXCEPT ![i] = [s.slots[i] EXCEPT !.active = FALSE, !.gc = NoPad]]
        BY <2>2, <2>3, <2>7
      <3> QED BY <2>2, <2>7, <3>2, <3>3
    <2>9. ~new[i].active /\ new[i].gc = NoPad
      <3>1. s.slots[i] \in SlotType
        BY <2>2, <2>7
      <3> QED BY <2>8, <3>1 DEF SlotType
    <2>10. SlotsKept(new, TRUE)
      BY <2>2, <2>6, <2>8, <2>9, SlotsFinite DEF PadsSound, SlotsKept
    <2>11. ASSUME NEW e \in InPads, e # d PROVE Holding(new, e) = Holding(s.slots, e)
      BY <2>2, <2>6, <2>8, <2>9, <2>11 DEF Holding
    <2>12. Holding(new, d) = Holding(s.slots, d) \ {i} /\ i \in Holding(s.slots, d)
      BY <2>2, <2>6, <2>8, <2>9 DEF Holding
    <2>13. Cardinality(Holding(new, d)) = Cardinality(Holding(s.slots, d)) - 1
      <3>1. PICK H : H = Holding(s.slots, d)
        OBVIOUS
      <3>2. IsFiniteSet(H)
        BY <3>1, HoldingFinite
      <3>3. Cardinality(H \ {i}) = Cardinality(H) - 1
        BY <2>12, <3>1, <3>2, FS_RemoveElement
      <3> QED BY <2>12, <3>1, <3>3
    <2>14. s.refs \in [InPads -> Nat] /\ \A e \in InPads : s.refs[e] = Cardinality(Holding(s.slots, e))
      BY DEF PadsSound, RefsCount
    <2>15. Cardinality(Holding(new, d)) \in Nat
      BY HoldingFinite, SlotsFinite
    <2>16. refs \in [InPads -> Nat] /\ refs[d] = s.refs[d] - 1 /\ \A e \in InPads : e # d => refs[e] = s.refs[e]
      <3>1. s.refs[d] - 1 \in Nat
        BY <2>13, <2>14, <2>15
      <3> QED BY <2>4, <2>14, <3>1
    <2>17. RefsCount(new, refs)
      BY <2>11, <2>13, <2>14, <2>16 DEF RefsCount
    <2>18. [slots |-> new, refs |-> refs].slots = new /\ [slots |-> new, refs |-> refs].refs = refs
      OBVIOUS
    <2>19. PICK t : t = CloseController(s, d)
      OBVIOUS
    <2>20. t = [slots |-> t.slots, refs |-> t.refs] /\ t.slots = new /\ t.refs = refs
      BY <2>5, <2>18, <2>19
    <2>21. PadsSound(t, TRUE)
      BY <2>10, <2>17, <2>20 DEF PadsSound
    <2> QED BY <2>19, <2>20, <2>21
  <1> QED BY <1>1, <1>2

Pair(s) == s = [slots |-> s.slots, refs |-> s.refs] /\ PadsSound(s, TRUE)

LEMMA HandleKeeps ==
    ASSUME NEW s, Pair(s), NEW e \in {"added", "removed"} \X InPads
    PROVE  Pair(HandleEvent(s, e))
  <1>1. e[2] \in InPads
    OBVIOUS
  <1>2. Pair(OpenController(s, e[2]))
    BY <1>1, OpenKeeps DEF Pair
  <1>3. Pair(CloseController(s, e[2]))
    BY <1>1, CloseKeeps DEF Pair
  <1> QED BY <1>2, <1>3 DEF HandleEvent

\* The recursion of Drain up to a place, as a predicate.
Drained(s, events, n, f) ==
    f = [i \in 0 .. n |-> IF i = 0 THEN s ELSE HandleEvent(f[i - 1], events[i])]

LEMMA DrainedExist ==
    ASSUME NEW s, NEW events
    PROVE  \A n \in Nat : \E f : Drained(s, events, n, f)
  <1> DEFINE N == {n \in Nat : \E f : Drained(s, events, n, f)}
  <1>1. 0 \in N
    <2>1. PICK f : f = [i \in 0 .. 0 |-> s]
      OBVIOUS
    <2>2. Drained(s, events, 0, f)
      BY <2>1 DEF Drained
    <2> QED BY <2>2
  <1>2. ASSUME NEW n \in Nat, n \in N PROVE n + 1 \in N
    <2>1. PICK f : Drained(s, events, n, f)
      BY <1>2
    <2>2. PICK x : x = HandleEvent(f[n], events[n + 1])
      OBVIOUS
    <2>3. PICK g : g = [i \in 0 .. n + 1 |-> IF i = n + 1 THEN x ELSE f[i]]
      OBVIOUS
    <2>4. \A i \in 0 .. n : g[i] = f[i]
      BY <2>3
    <2>5. g[n + 1] = x /\ n + 1 # 0 /\ (n + 1) - 1 = n /\ n \in 0 .. n
      BY <2>3
    <2>6. \A i \in 0 .. n : f[i] = IF i = 0 THEN s ELSE HandleEvent(f[i - 1], events[i])
      BY <2>1 DEF Drained
    <2>7. \A i \in 0 .. n : i # 0 => i - 1 \in 0 .. n
      OBVIOUS
    <2>8. \A i \in 0 .. n : g[i] = IF i = 0 THEN s ELSE HandleEvent(g[i - 1], events[i])
      BY <2>4, <2>6, <2>7
    <2>9. g[n + 1] = IF n + 1 = 0 THEN s ELSE HandleEvent(g[(n + 1) - 1], events[n + 1])
      BY <2>2, <2>4, <2>5
    <2>10. \A i \in 0 .. n + 1 : i \in 0 .. n \/ i = n + 1
      OBVIOUS
    <2>11. \A i \in 0 .. n + 1 : g[i] = IF i = 0 THEN s ELSE HandleEvent(g[i - 1], events[i])
      BY <2>8, <2>9, <2>10
    <2>12. g = [i \in 0 .. n + 1 |-> g[i]]
      BY <2>3
    <2>13. Drained(s, events, n + 1, g)
      BY <2>11, <2>12 DEF Drained
    <2> QED BY <2>13
  <1>3. \A n \in Nat : n \in N
    <2> HIDE DEF N
    <2> QED BY <1>1, <1>2, CountingUp
  <1> QED BY <1>3

LEMMA DrainIs ==
    ASSUME NEW s, NEW events, Len(events) \in Nat
    PROVE  \E f : Drained(s, events, Len(events), f) /\ Drain(s, events) = f[Len(events)]
  <1> DEFINE f == CHOOSE g : g = [i \in 0 .. Len(events) |-> IF i = 0 THEN s ELSE HandleEvent(g[i - 1], events[i])]
  <1>1. Drained(s, events, Len(events), f)
    <2>1. \E g : Drained(s, events, Len(events), g)
      BY DrainedExist
    <2> QED BY <2>1 DEF Drained
  <1>2. Drain(s, events) = f[Len(events)]
    BY DEF Drain
  <1> QED BY <1>1, <1>2

LEMMA DrainKeeps ==
    ASSUME NEW s, Pair(s), NEW events \in Seq({"added", "removed"} \X InPads)
    PROVE  Pair(Drain(s, events))
  <1>1. PICK n \in Nat : n = Len(events) /\ \A i \in 1 .. n : events[i] \in {"added", "removed"} \X InPads
    BY LenProperties
  <1>2. PICK f : Drained(s, events, n, f) /\ Drain(s, events) = f[n]
    BY <1>1, DrainIs
  <1>3. \A i \in 0 .. n : f[i] = IF i = 0 THEN s ELSE HandleEvent(f[i - 1], events[i])
    BY <1>2 DEF Drained
  <1> DEFINE N == {i \in Nat : i <= n => Pair(f[i])}
  <1>4. 0 \in N
    BY <1>3
  <1>5. ASSUME NEW i \in Nat, i \in N PROVE i + 1 \in N
    <2> SUFFICES ASSUME i + 1 <= n PROVE Pair(f[i + 1])
      OBVIOUS
    <2>1. i + 1 \in 0 .. n /\ i + 1 \in 1 .. n /\ i + 1 # 0 /\ (i + 1) - 1 = i /\ i <= n
      OBVIOUS
    <2>2. f[i + 1] = HandleEvent(f[i], events[i + 1])
      BY <1>3, <2>1
    <2>3. Pair(f[i]) /\ events[i + 1] \in {"added", "removed"} \X InPads
      BY <1>1, <1>5, <2>1
    <2> QED BY <2>2, <2>3, HandleKeeps
  <1>6. \A i \in Nat : i \in N
    <2> HIDE DEF N
    <2> QED BY <1>4, <1>5, CountingUp
  <1>7. Pair(f[n])
    BY <1>6
  <1> QED BY <1>2, <1>7

LEMMA InInvInit == InInit => InInv
  <1> SUFFICES ASSUME InInit PROVE InInv
    OBVIOUS
  <1>1. InShape
    <2>1. <<>> \in Seq({"added", "removed"} \X InPads) /\ DOMAIN <<>> = {}
      BY EmptySeq
    <2>2. inSeen = <<>> /\ inEvents = <<>> /\ inInitialised = FALSE /\ inPlugged = {} /\ inGone = {} /\ inCalls = 0
      BY DEF InInit
    <2>3. DOMAIN inSeen \subseteq SlotIds /\ \A i \in DOMAIN inSeen : inSeen[i] \in InPads \cup {NoPad}
      BY <2>1, <2>2
    <2>4. 0 \in 0 .. InMaxFrames
      BY InputAssumption
    <2> QED BY <2>1, <2>2, <2>3, <2>4 DEF InShape
  <1>2. inSlots \in [SlotIds -> SlotType] /\ \A i \in SlotIds : ~inSlots[i].active /\ inSlots[i].gc = NoPad /\ inSlots[i].jid = NoPad
    BY DEF InInit, SlotType
  <1>3. SlotsKept(inSlots, inInitialised)
    BY <1>2, SlotsFinite DEF InInit, SlotsKept
  <1>4. \A d \in InPads : Holding(inSlots, d) = {}
    BY <1>2 DEF Holding
  <1>5. Cardinality({}) = 0
    BY FS_EmptySet
  <1>6. RefsCount(inSlots, inRefs)
    BY <1>4, <1>5 DEF InInit, RefsCount
  <1> QED BY <1>1, <1>3, <1>6 DEF InInv

LEMMA InitInputKeeps ==
    ASSUME InInv, NEW order \in [1 .. Cardinality(inPlugged) -> inPlugged], InitInput(order)
    PROVE  InInv'
  <1>1. IsFiniteSet(inPlugged) /\ Cardinality(inPlugged) \in Nat
    <2>1. inPlugged \subseteq InPads /\ IsFiniteSet(InPads)
      BY InputAssumption DEF InInv, InShape
    <2> QED BY <2>1, FS_Subset, FS_CardinalityType
  <1>2. PICK n \in Nat : n = Cardinality(inPlugged)
    BY <1>1
  <1>3. DOMAIN order = 1 .. n /\ \A i \in 1 .. n : order[i] \in InPads
    BY <1>2 DEF InInv, InShape
  <1>4. PICK ev : ev = Added(order)
    OBVIOUS
  <1>5. ev \in Seq({"added", "removed"} \X InPads)
    <2>1. ev = [i \in 1 .. n |-> <<"added", order[i]>>]
      BY <1>3, <1>4 DEF Added
    <2>2. ev \in [1 .. n -> {"added", "removed"} \X InPads]
      BY <1>3, <2>1
    <2> QED BY <2>2, SeqDef
  <1>6. PICK key : key = [SlotState EXCEPT !.slots[0].active = TRUE, !.slots[0].mode = "Keyboard"]
    OBVIOUS
  <1>7. ~inInitialised /\ inSlots \in [SlotIds -> SlotType] /\ 0 \in SlotIds
    BY SlotsFinite DEF InInv, SlotsKept, InitInput
  <1>8. PICK slots : slots = [inSlots EXCEPT ![0] = [inSlots[0] EXCEPT !.active = TRUE, !.mode = "Keyboard"]]
    OBVIOUS
  <1>9. key = [slots |-> slots, refs |-> inRefs]
    BY <1>6, <1>7, <1>8 DEF SlotState
  <1>10. inSlots[0] \in SlotType
    BY <1>7
  <1>11. [inSlots[0] EXCEPT !.active = TRUE, !.mode = "Keyboard"] \in SlotType
         /\ [inSlots[0] EXCEPT !.active = TRUE, !.mode = "Keyboard"].gc = inSlots[0].gc
         /\ [inSlots[0] EXCEPT !.active = TRUE, !.mode = "Keyboard"].jid = inSlots[0].jid
         /\ [inSlots[0] EXCEPT !.active = TRUE, !.mode = "Keyboard"].active
    BY <1>10 DEF SlotType
  <1>12. slots \in [SlotIds -> SlotType] /\ slots[0].gc = inSlots[0].gc /\ slots[0].jid = inSlots[0].jid
         /\ slots[0].active = TRUE /\ \A i \in SlotIds : i # 0 => slots[i] = inSlots[i]
    BY <1>7, <1>8, <1>11
  <1>13. SlotsKept(slots, TRUE)
    BY <1>7, <1>12 DEF InInv, SlotsKept
  <1>14. \A d \in InPads : Holding(slots, d) = Holding(inSlots, d)
    BY <1>7, <1>12, NoPadIsNone DEF InInv, SlotsKept, Holding
  <1>15. RefsCount(slots, inRefs)
    BY <1>14 DEF InInv, RefsCount
  <1>16. Pair(key)
    BY <1>9, <1>13, <1>15 DEF Pair, PadsSound
  <1>17. Pair(Drain(key, ev))
    BY <1>5, <1>16, DrainKeeps
  <1>18. inSlots' = Drain(key, ev).slots /\ inRefs' = Drain(key, ev).refs /\ inInitialised' = TRUE /\ inEvents' = ev
    BY <1>4, <1>6 DEF InitInput
  <1>19. SlotsKept(inSlots, inInitialised)' /\ RefsCount(inSlots, inRefs)'
    <2>1. SlotsKept(Drain(key, ev).slots, TRUE) /\ RefsCount(Drain(key, ev).slots, Drain(key, ev).refs)
      BY <1>17 DEF Pair, PadsSound
    <2> QED BY <1>18, <2>1 DEF SlotsKept, RefsCount, Holding
  <1>20. InShape'
    BY <1>5, <1>18, InputAssumption DEF InInv, InShape, InitInput
  <1> QED BY <1>19, <1>20 DEF InInv

LEMMA ShutdownInputKeeps == ASSUME InInv, ShutdownInput PROVE InInv'
  <1>1. PICK closed : closed = {i \in SlotIds : inSlots[i].active}
    OBVIOUS
  <1>2. inSlots \in [SlotIds -> SlotType] /\ \A i \in SlotIds : ~inSlots[i].active => inSlots[i].gc = NoPad
    BY DEF InInv, SlotsKept
  <1>3. inSlots' = [i \in SlotIds |-> IF i \in closed THEN [inSlots[i] EXCEPT !.active = FALSE, !.gc = NoPad] ELSE inSlots[i]]
    BY <1>1 DEF ShutdownInput
  <1>4. ASSUME NEW i \in SlotIds
        PROVE  inSlots'[i] \in SlotType /\ ~inSlots'[i].active /\ inSlots'[i].gc = NoPad /\ inSlots'[i].jid = inSlots[i].jid
    <2>1. inSlots[i] \in SlotType
      BY <1>2
    <2> QED BY <1>1, <1>2, <1>3, <2>1 DEF SlotType
  <1>5. inSlots' \in [SlotIds -> SlotType]
    BY <1>3, <1>4
  <1>6. SlotsKept(inSlots, inInitialised)'
    <2>1. PICK new : new = inSlots'
      OBVIOUS
    <2>2. inInitialised' = FALSE /\ inSlots[0].jid = NoPad /\ 0 \in SlotIds
      BY SlotsFinite DEF ShutdownInput, InInv, SlotsKept
    <2>3. new \in [SlotIds -> SlotType] /\ \A i \in SlotIds : ~new[i].active /\ new[i].gc = NoPad /\ new[i].jid = inSlots[i].jid
      BY <1>4, <1>5, <2>1
    <2>4. new[0].active = FALSE
      BY <2>2, <2>3 DEF SlotType
    <2>5. SlotsKept(new, FALSE)
      BY <2>2, <2>3, <2>4 DEF SlotsKept
    <2> QED BY <2>1, <2>2, <2>5 DEF SlotsKept
  <1>7. ASSUME NEW d \in InPads PROVE inRefs'[d] = 0
    <2>1. {i \in closed : inSlots[i].gc = d} = Holding(inSlots, d)
      BY <1>1 DEF Holding
    <2>2. inRefs'[d] = inRefs[d] - Cardinality(Holding(inSlots, d))
      BY <1>1, <2>1 DEF ShutdownInput
    <2>3. inRefs[d] = Cardinality(Holding(inSlots, d)) /\ inRefs[d] \in Nat
      BY DEF InInv, RefsCount
    <2> QED BY <2>2, <2>3
  <1>8. \A d \in InPads : Holding(inSlots, d)' = {}
    BY <1>4 DEF Holding
  <1>9. Cardinality({}) = 0
    BY FS_EmptySet
  <1>10. inRefs' \in [InPads -> Nat]
    <2>1. inRefs' = [d \in InPads |-> inRefs'[d]]
      BY DEF ShutdownInput
    <2> QED BY <1>7, <2>1
  <1>11. RefsCount(inSlots, inRefs)'
    BY <1>7, <1>8, <1>9, <1>10 DEF RefsCount
  <1>12. InShape'
    <2>1. <<>> \in Seq({"added", "removed"} \X InPads) /\ DOMAIN <<>> = {}
      BY EmptySeq
    <2>2. /\ inSeen' = <<>> /\ inEvents' = <<>> /\ inInitialised' = FALSE
          /\ UNCHANGED <<inPlugged, inGone, inCalls>>
      BY DEF ShutdownInput
    <2>3. DOMAIN inSeen' \subseteq SlotIds /\ \A i \in DOMAIN inSeen' : inSeen'[i] \in InPads \cup {NoPad}
      BY <2>1, <2>2
    <2> QED BY <2>1, <2>2, <2>3 DEF InInv, InShape
  <1> QED BY <1>6, <1>11, <1>12 DEF InInv

LEMMA PollKeeps == ASSUME InInv, Poll PROVE InInv'
  <1>1. PICK after : after = Drain(SlotState, inEvents)
    OBVIOUS
  <1>2. inSlots' = after.slots /\ inRefs' = after.refs /\ inEvents' = <<>>
        /\ inSeen' = [i \in {j \in SlotIds : after.slots[j].active} |-> after.slots[i].gc]
        /\ UNCHANGED <<inInitialised, inPlugged, inGone, inCalls>>
    BY <1>1 DEF Poll
  <1>3. SlotsKept(after.slots, inInitialised) /\ RefsCount(after.slots, after.refs)
    <2>1. CASE inInitialised
      <3>1. Pair(SlotState)
        BY <2>1 DEF Pair, PadsSound, SlotState, InInv
      <3>2. inEvents \in Seq({"added", "removed"} \X InPads)
        BY DEF InInv, InShape
      <3>3. Pair(after)
        BY <1>1, <3>1, <3>2, DrainKeeps
      <3>4. inInitialised = TRUE
        BY <2>1 DEF InInv, InShape
      <3> QED BY <3>3, <3>4 DEF Pair, PadsSound
    <2>2. CASE ~inInitialised
      <3>1. inEvents = <<>> /\ Len(<<>>) = 0
        BY <2>2 DEF InInv, InShape
      <3>2. PICK f : Drained(SlotState, <<>>, 0, f) /\ Drain(SlotState, <<>>) = f[0]
        BY <3>1, DrainIs
      <3>3. f[0] = SlotState
        BY <3>2 DEF Drained
      <3>4. after = SlotState
        BY <1>1, <3>1, <3>2, <3>3
      <3> QED BY <3>4 DEF InInv, SlotState
    <2> QED BY <2>1, <2>2
  <1>4. SlotsKept(inSlots, inInitialised)' /\ RefsCount(inSlots, inRefs)'
    BY <1>2, <1>3 DEF SlotsKept, RefsCount, Holding
  <1>5. InShape'
    <2>1. \A i \in SlotIds : after.slots[i].gc \in InPads \cup {NoPad}
      BY <1>3 DEF SlotsKept, SlotType
    <2>2. DOMAIN inSeen' \subseteq SlotIds /\ \A i \in DOMAIN inSeen' : inSeen'[i] \in InPads \cup {NoPad}
      BY <1>2, <2>1
    <2> QED BY <1>2, <2>2, EmptySeq DEF InInv, InShape
  <1> QED BY <1>4, <1>5 DEF InInv

LEMMA PlugKeeps ==
    ASSUME InInv, NEW d \in InPads, Plug(d) \/ Unplug(d)
    PROVE  InInv'
  <1>1. UNCHANGED <<inInitialised, inSlots, inRefs, inSeen, inCalls>>
    BY DEF Plug, Unplug
  <1>2. inPlugged' \subseteq InPads /\ inGone' \subseteq InPads
    BY DEF Plug, Unplug, InInv, InShape
  <1>3. inEvents' \in Seq({"added", "removed"} \X InPads) /\ (~inInitialised => inEvents' = inEvents)
    <2>1. PICK K : K = {"added", "removed"} \X InPads
      OBVIOUS
    <2>2. inEvents \in Seq(K) /\ <<"added", d>> \in K /\ <<"removed", d>> \in K
      BY <2>1 DEF InInv, InShape
    <2>3. Append(inEvents, <<"added", d>>) \in Seq(K) /\ Append(inEvents, <<"removed", d>>) \in Seq(K)
      BY <2>2, AppendProperties
    <2> QED BY <2>1, <2>2, <2>3 DEF Plug, Unplug
  <1>4. InShape'
    BY <1>1, <1>2, <1>3 DEF InInv, InShape
  <1>5. SlotsKept(inSlots, inInitialised)' /\ RefsCount(inSlots, inRefs)'
    BY <1>1 DEF InInv, SlotsKept, RefsCount, Holding
  <1> QED BY <1>4, <1>5 DEF InInv

LEMMA InInvInductive == InInv /\ [InNext]_inVars => InInv'
  <1> SUFFICES ASSUME InInv, [InNext]_inVars PROVE InInv'
    OBVIOUS
  <1>1. ASSUME NEW d \in InPads, Plug(d) \/ Unplug(d) PROVE InInv'
    BY <1>1, PlugKeeps
  <1>2. ASSUME NEW order \in {s \in UNION {[1 .. n -> inPlugged] : n \in {Cardinality(inPlugged)}} : IsInjective(s)},
               InitInput(order)
        PROVE  InInv'
    <2>1. order \in [1 .. Cardinality(inPlugged) -> inPlugged]
      OBVIOUS
    <2> QED BY <1>2, <2>1, InitInputKeeps
  <1>3. CASE ShutdownInput
    BY <1>3, ShutdownInputKeeps
  <1>4. CASE Poll
    BY <1>4, PollKeeps
  <1>5. CASE UNCHANGED inVars
    BY <1>5 DEF inVars, InInv, InShape, SlotsKept, RefsCount, Holding
  <1> QED BY <1>1, <1>2, <1>3, <1>4, <1>5 DEF InNext

LEMMA InInvHolds == InInv => InTypeOK /\ PadRefsExact
  <1> SUFFICES ASSUME InInv PROVE InTypeOK /\ PadRefsExact
    OBVIOUS
  <1>1. \A d \in InPads : inRefs[d] \in 0 .. InSlots
    BY HoldingFinite DEF InInv, RefsCount
  <1>2. inRefs \in [InPads -> 0 .. InSlots]
    BY <1>1 DEF InInv, RefsCount
  <1>3. InTypeOK
    BY <1>2 DEF InTypeOK, InInv, InShape, SlotsKept
  <1>4. \A d \in InPads : inRefs[d] = Cardinality({i \in SlotIds : inSlots[i].active /\ inSlots[i].gc = d})
    BY DEF InInv, RefsCount, Holding
  <1>5. \A i \in SlotIds : inSlots[i].gc # NoPad => inSlots[i].active
    BY DEF InInv, SlotsKept
  <1> QED BY <1>3, <1>4, <1>5 DEF PadRefsExact

-----------------------------------------------------------------------------
(* The profiles of input mappings. *)

\* A function whose values follow the rule of the loop is the one the loop builds.
LEMMA PicksWhen ==
    ASSUME NEW seq, NEW S, NEW n, NEW g, g = [i \in 0 .. n |-> g[i]],
           \A i \in 0 .. n : g[i] = IF i = 0 THEN <<>> ELSE IF seq[i] \in S THEN Append(g[i - 1], seq[i]) ELSE g[i - 1]
    PROVE  Picks(seq, S, n, g)
  <1>1. [i \in 0 .. n |-> g[i]] = [i \in 0 .. n |-> IF i = 0 THEN <<>>
                                               ELSE IF seq[i] \in S THEN Append(g[i - 1], seq[i]) ELSE g[i - 1]]
    BY Zenon
  <1> QED BY <1>1 DEF Picks

\* A recursion that is given in closed form is the one Among computes.
LEMMA AmongGiven ==
    ASSUME NEW seq, NEW S, NEW n \in Nat, Len(seq) = n, NEW g, Picks(seq, S, n, g)
    PROVE  Among(seq, S) = g[n]
  <1>1. PICK f : Picks(seq, S, n, f) /\ Among(seq, S) = f[n]
    BY AmongIs
  <1>2. n <= n /\ n \in 0 .. n /\ \A i \in 1 .. n : seq[i] = seq[i]
    OBVIOUS
  <1>3. \A i \in 0 .. n : f[i] = g[i]
    BY <1>1, <1>2, PicksAgree
  <1> QED BY <1>1, <1>2, <1>3

Prefix(m, i) == [j \in 1 .. i |-> m[j]]

LEMMA PrefixGrows ==
    ASSUME NEW m, NEW i \in Nat
    PROVE  Prefix(m, 0) = <<>> /\ Prefix(m, i + 1) = Append(Prefix(m, i), m[i + 1])
  <1>1. Prefix(m, 0) = <<>>
    <2>1. Prefix(m, 0) = [j \in 1 .. 0 |-> m[j]]
      BY DEF Prefix
    <2>2. \A j \in 1 .. 0 : m[j] \in {}
      OBVIOUS
    <2>3. Prefix(m, 0) \in [1 .. 0 -> {}]
      BY <2>1, <2>2
    <2>4. Prefix(m, 0) \in Seq({})
      BY <2>3, SeqDef
    <2>5. Len(Prefix(m, 0)) = 0
      BY <2>3, <2>4, LenProperties
    <2> QED BY <2>4, <2>5, EmptySeq
  <1>2. PICK p : p = Prefix(m, i)
    OBVIOUS
  <1>3. PICK K : K = {m[j] : j \in 1 .. i + 1}
    OBVIOUS
  <1>4. p \in Seq(K) /\ Len(p) = i /\ \A j \in 1 .. i : p[j] = m[j]
    BY <1>2, <1>3 DEF Prefix
  <1>5. m[i + 1] \in K
    BY <1>3
  <1>6. Append(p, m[i + 1]) = [j \in 1 .. i + 1 |-> IF j = i + 1 THEN m[i + 1] ELSE p[j]]
    BY <1>4, <1>5
  <1>7. \A j \in 1 .. i + 1 : (IF j = i + 1 THEN m[i + 1] ELSE p[j]) = m[j]
    BY <1>4
  <1>8. Append(p, m[i + 1]) = [j \in 1 .. i + 1 |-> m[j]]
    BY <1>6, <1>7
  <1> QED BY <1>1, <1>2, <1>8 DEF Prefix

LEMMA AmongAll ==
    ASSUME NEW m, NEW n \in Nat, NEW t, t = Prefix(m, n), Len(t) = n, NEW S, \A i \in 1 .. n : m[i] \in S
    PROVE  Among(t, S) = t
  <1>1. PICK g : g = [i \in 0 .. n |-> Prefix(m, i)]
    OBVIOUS
  <1>2. ASSUME NEW i \in 0 .. n
        PROVE  g[i] = IF i = 0 THEN <<>> ELSE IF t[i] \in S THEN Append(g[i - 1], t[i]) ELSE g[i - 1]
    <2>1. CASE i = 0
      BY <1>1, <2>1, PrefixGrows
    <2>2. CASE i # 0
      <3>1. PICK k \in Nat : k + 1 = i /\ i - 1 = k /\ k \in 0 .. n
        <4>1. i - 1 \in Nat /\ (i - 1) + 1 = i /\ i - 1 \in 0 .. n
          BY <2>2
        <4> QED BY <4>1
      <3>2. t[i] = m[i] /\ m[i] \in S
        BY <2>2 DEF Prefix
      <3>3. Prefix(m, k + 1) = Append(Prefix(m, k), m[k + 1])
        BY PrefixGrows
      <3> QED BY <1>1, <2>2, <3>1, <3>2, <3>3
    <2> QED BY <2>1, <2>2
  <1>3. g = [i \in 0 .. n |-> g[i]]
    BY <1>1
  <1>4. Picks(t, S, n, g)
    BY <1>2, <1>3, PicksWhen
  <1>5. g[n] = t
    BY <1>1
  <1> QED BY <1>4, <1>5, AmongGiven

\* A list behind a head: only the head is picked, or all but the head.
LEMMA AmongTail ==
    ASSUME NEW m, NEW n \in Nat, NEW h, NEW t, NEW k \in Nat, k = n + 1,
           t = [i \in 1 .. k |-> IF i = 1 THEN h ELSE m[i - 1]], Len(t) = k,
           NEW S, h \notin S, \A i \in 1 .. n : m[i] \in S
    PROVE  Among(t, S) = Prefix(m, n)
  <1>1. PICK g : g = [i \in 0 .. k |-> IF i = 0 THEN <<>> ELSE Prefix(m, i - 1)]
    OBVIOUS
  <1>2. ASSUME NEW i \in 0 .. k
        PROVE  g[i] = IF i = 0 THEN <<>> ELSE IF t[i] \in S THEN Append(g[i - 1], t[i]) ELSE g[i - 1]
    <2>1. CASE i = 0
      BY <1>1, <2>1
    <2>2. CASE i = 1
      <3>1. g[i] = Prefix(m, 0) /\ g[i - 1] = <<>> /\ t[i] = h
        BY <1>1, <2>2
      <3> QED BY <2>2, <3>1, PrefixGrows
    <2>3. CASE i # 0 /\ i # 1
      <3>1. PICK j \in Nat : j + 1 = i - 1 /\ i - 1 \in 0 .. k /\ i - 1 # 0 /\ (i - 1) - 1 = j /\ i - 1 \in 1 .. n
        <4>1. i - 2 \in Nat /\ (i - 2) + 1 = i - 1 /\ i - 1 \in 0 .. k /\ i - 1 # 0 /\ (i - 1) - 1 = i - 2 /\ i - 1 \in 1 .. n
          BY <2>3
        <4> QED BY <4>1
      <3>2. t[i] = m[i - 1] /\ m[i - 1] \in S
        BY <2>3, <3>1
      <3>3. Prefix(m, j + 1) = Append(Prefix(m, j), m[j + 1])
        BY PrefixGrows
      <3>4. g[i] = Prefix(m, i - 1) /\ g[i - 1] = Prefix(m, j)
        BY <1>1, <2>3, <3>1
      <3> QED BY <2>3, <3>1, <3>2, <3>3, <3>4
    <2> QED BY <2>1, <2>2, <2>3
  <1>3. g = [i \in 0 .. k |-> g[i]]
    BY <1>1
  <1>4. Picks(t, S, k, g)
    BY <1>2, <1>3, PicksWhen
  <1>5. g[k] = Prefix(m, n)
    BY <1>1
  <1> QED BY <1>4, <1>5, AmongGiven

LEMMA AmongHead ==
    ASSUME NEW m, NEW n \in Nat, NEW h, NEW t, NEW k \in Nat, k = n + 1,
           t = [i \in 1 .. k |-> IF i = 1 THEN h ELSE m[i - 1]], Len(t) = k,
           NEW S, h \in S, \A i \in 1 .. n : m[i] \notin S
    PROVE  Among(t, S) = <<h>>
  <1>1. PICK g : g = [i \in 0 .. k |-> IF i = 0 THEN <<>> ELSE <<h>>]
    OBVIOUS
  <1>2. ASSUME NEW i \in 0 .. k
        PROVE  g[i] = IF i = 0 THEN <<>> ELSE IF t[i] \in S THEN Append(g[i - 1], t[i]) ELSE g[i - 1]
    <2>1. CASE i = 0
      BY <1>1, <2>1
    <2>2. CASE i = 1
      <3>1. g[i] = <<h>> /\ g[i - 1] = <<>> /\ t[i] = h
        BY <1>1, <2>2
      <3>2. Append(<<>>, h) = <<h>>
        OBVIOUS
      <3> QED BY <2>2, <3>1, <3>2
    <2>3. CASE i # 0 /\ i # 1
      <3>1. i - 1 \in 0 .. k /\ i - 1 # 0 /\ i - 1 \in 1 .. n
        BY <2>3
      <3>2. t[i] = m[i - 1] /\ m[i - 1] \notin S
        BY <2>3, <3>1
      <3>3. g[i] = <<h>> /\ g[i - 1] = <<h>>
        BY <1>1, <2>3, <3>1
      <3> QED BY <2>3, <3>2, <3>3
    <2> QED BY <2>1, <2>2, <2>3
  <1>3. g = [i \in 0 .. k |-> g[i]]
    BY <1>1
  <1>4. Picks(t, S, k, g)
    BY <1>2, <1>3, PicksWhen
  <1>5. g[k] = <<h>>
    BY <1>1
  <1>6. Among(t, S) = g[k]
    BY <1>4, AmongGiven
  <1> QED BY <1>5, <1>6

LEMMA ReadMapping ==
    ASSUME NEW e, IsMapping(e)
    PROVE  ReadEntry([section |-> "mapping", kv |-> e]) = e /\ e.target # "Count"
  <1>1. PICK sec : sec = [section |-> "mapping", kv |-> e]
    OBVIOUS
  <1>2. sec.kv = e
    BY <1>1
  <1>3. DOMAIN e = {"target", "type", "id", "scale", "deadzone", "inverted"}
    BY DEF IsMapping
  <1>4. /\ GetKv(sec, "target", "") = e.target /\ GetKv(sec, "type", "Keyboard") = e.type
        /\ GetKv(sec, "id", 0) = e.id /\ GetKv(sec, "scale", ImOne) = e.scale
        /\ GetKv(sec, "deadzone", 0) = e.deadzone /\ GetKv(sec, "inverted", FALSE) = e.inverted
    BY <1>2, <1>3 DEF GetKv
  <1>5. Ps5ButtonFromName(e.target) = e.target /\ HostInputTypeFromName(e.type) = e.type
    BY DEF IsMapping, Ps5ButtonFromName, HostInputTypeFromName
  <1>6. ReadEntry(sec) = [target |-> e.target, type |-> e.type, id |-> e.id, scale |-> e.scale, deadzone |-> e.deadzone,
                          inverted |-> e.inverted]
    BY <1>4, <1>5 DEF ReadEntry
  <1>7. "Count" \notin ToSet(Ps5Button)
    BY DEF ToSet, Ps5Button
  <1> QED BY <1>1, <1>6, <1>7 DEF IsMapping

Section(e) == [section |-> "mapping", kv |-> e]
Header(name) == [section |-> "profile", kv |-> [name |-> name]]

LEMMA FileIs ==
    ASSUME NEW p, IsProfile(p), NEW n \in Nat, n = Len(p.entries), NEW k \in Nat, k = n + 1,
           NEW m, m = [i \in 1 .. n |-> Section(p.entries[i])], NEW t, t = WriteProfileIni(p)
    PROVE  t = [i \in 1 .. k |-> IF i = 1 THEN Header(p.name) ELSE m[i - 1]] /\ Len(t) = k
  <1>1. DOMAIN p.entries = 1 .. n
    BY DEF IsProfile
  <1>2. t = <<Header(p.name)>> \o m
    BY <1>1 DEF WriteProfileIni, Header, Section
  <1>3. PICK K : K = {Header(p.name)} \cup {m[i] : i \in 1 .. n}
    OBVIOUS
  <1>4. m \in Seq(K) /\ Len(m) = n /\ <<Header(p.name)>> \in Seq(K) /\ Len(<<Header(p.name)>>) = 1
    BY <1>3
  <1>5. <<Header(p.name)>> \o m \in Seq(K) /\ Len(<<Header(p.name)>> \o m) = k
        /\ \A i \in 1 .. k : (<<Header(p.name)>> \o m)[i] = IF i <= 1 THEN <<Header(p.name)>>[i] ELSE m[i - 1]
    BY <1>4, ConcatProperties
  <1>6. t = [i \in 1 .. k |-> t[i]]
    BY <1>2, <1>5
  <1>7. \A i \in 1 .. k : t[i] = IF i = 1 THEN Header(p.name) ELSE m[i - 1]
    BY <1>2, <1>5
  <1> QED BY <1>2, <1>5, <1>6, <1>7

\* What is written is read again, entry by entry.
LEMMA WrittenIsRead ==
    ASSUME NEW p, IsProfile(p)
    PROVE  ReadProfileIni(WriteProfileIni(p)) = p
  <1>1. PICK es : es = p.entries
    OBVIOUS
  <1>2. PICK n \in Nat : n = Len(es)
    BY <1>1 DEF IsProfile
  <1>3. PICK k \in Nat : k = n + 1
    OBVIOUS
  <1>4. PICK m : m = [i \in 1 .. n |-> Section(es[i])]
    OBVIOUS
  <1>5. PICK h : h = Header(p.name)
    OBVIOUS
  <1>6. PICK t : t = WriteProfileIni(p)
    OBVIOUS
  <1>7. t = [i \in 1 .. k |-> IF i = 1 THEN h ELSE m[i - 1]] /\ Len(t) = k
    BY <1>1, <1>2, <1>3, <1>4, <1>5, <1>6, FileIs
  <1>8. h.section = "profile" /\ h.kv = [name |-> p.name] /\ \A i \in 1 .. n : m[i].section = "mapping"
    BY <1>4, <1>5 DEF Header, Section
  <1>9. t[1] = h /\ \A i \in 1 .. n : t[i + 1] = m[i] /\ i + 1 \in 1 .. k
    <2>1. \A i \in 1 .. n : i + 1 \in 1 .. k /\ i + 1 # 1 /\ (i + 1) - 1 = i
      BY <1>3
    <2> QED BY <1>3, <1>7, <2>1
  <1>10. 1 \in 1 .. k /\ DOMAIN t = 1 .. k
    BY <1>3, <1>7
  <1>11. h \in ToSet(t) /\ \A i \in 1 .. n : m[i] \in ToSet(t)
    BY <1>9, <1>10 DEF ToSet
  <1>12. PICK M : M = {s \in ToSet(t) : s.section = "mapping"}
    OBVIOUS
  <1>13. PICK P : P = {s \in ToSet(t) : s.section = "profile"}
    OBVIOUS
  <1>14. h \notin M /\ h \in P /\ \A i \in 1 .. n : m[i] \in M /\ m[i] \notin P
    BY <1>8, <1>11, <1>12, <1>13
  <1>15. Among(t, M) = Prefix(m, n)
    BY <1>3, <1>7, <1>14, AmongTail
  <1>16. Among(t, P) = <<h>>
    BY <1>3, <1>7, <1>14, AmongHead
  <1>17. PICK read : read = [i \in DOMAIN Among(t, M) |-> ReadEntry(Among(t, M)[i])]
    OBVIOUS
  <1>18. es = [i \in 1 .. n |-> es[i]] /\ \A i \in 1 .. n : IsMapping(es[i])
    BY <1>1, <1>2 DEF IsProfile
  <1>19. read = es
    <2>1. \A i \in 1 .. n : Prefix(m, n)[i] = Section(es[i])
      BY <1>4 DEF Prefix
    <2>2. DOMAIN Prefix(m, n) = 1 .. n
      BY DEF Prefix
    <2>3. \A i \in 1 .. n : ReadEntry(Section(es[i])) = es[i]
      BY <1>18, ReadMapping DEF Section
    <2>4. read = [i \in 1 .. n |-> ReadEntry(Prefix(m, n)[i])]
      BY <1>15, <1>17, <2>2
    <2>5. read = [i \in 1 .. n |-> es[i]]
      BY <2>1, <2>3, <2>4
    <2> QED BY <1>18, <2>5
  <1>20. PICK E : E = {e \in ToSet(es) : e.target # "Count"}
    OBVIOUS
  <1>21. Among(es, E) = es
    <2>1. \A i \in 1 .. n : es[i].target # "Count"
      BY <1>18, ReadMapping
    <2>2. DOMAIN es = 1 .. n
      BY <1>18
    <2>3. \A i \in 1 .. n : es[i] \in ToSet(es)
      BY <2>2 DEF ToSet
    <2>4. \A i \in 1 .. n : es[i] \in E
      BY <1>20, <2>1, <2>3
    <2>5. es = Prefix(es, n)
      BY <1>18 DEF Prefix
    <2> QED BY <1>2, <2>4, <2>5, AmongAll
  <1>22. GetKv(<<h>>[Len(<<h>>)], "name", "Unknown") = p.name /\ <<h>> # <<>>
    <2>1. Len(<<h>>) = 1 /\ <<h>>[1] = h /\ <<h>> # <<>>
      OBVIOUS
    <2>2. "name" \in DOMAIN h.kv /\ h.kv["name"] = p.name
      BY <1>8
    <2> QED BY <2>1, <2>2 DEF GetKv
  <1>23. ReadProfileIni(t) = [name |-> p.name, entries |-> es]
    BY <1>12, <1>13, <1>16, <1>17, <1>19, <1>20, <1>21, <1>22 DEF ReadProfileIni
  <1> QED BY <1>1, <1>6, <1>23 DEF IsProfile

-----------------------------------------------------------------------------
LEMMA ButtonNames ==
    /\ "Triangle" \in ToSet(Ps5Button) /\ "Circle" \in ToSet(Ps5Button) /\ "Cross" \in ToSet(Ps5Button)
    /\ "Square" \in ToSet(Ps5Button) /\ "L1" \in ToSet(Ps5Button) /\ "R1" \in ToSet(Ps5Button)
    /\ "L2" \in ToSet(Ps5Button) /\ "R2" \in ToSet(Ps5Button) /\ "Create" \in ToSet(Ps5Button)
    /\ "Options" \in ToSet(Ps5Button) /\ "PS" \in ToSet(Ps5Button) /\ "TouchPad" \in ToSet(Ps5Button)
    /\ "L3" \in ToSet(Ps5Button) /\ "R3" \in ToSet(Ps5Button) /\ "DPadUp" \in ToSet(Ps5Button)
    /\ "DPadDown" \in ToSet(Ps5Button) /\ "DPadLeft" \in ToSet(Ps5Button) /\ "DPadRight" \in ToSet(Ps5Button)
    /\ "GyroX" \in ToSet(Ps5Button) /\ "GyroY" \in ToSet(Ps5Button) /\ "GyroZ" \in ToSet(Ps5Button)
  <1>1. DOMAIN Ps5Button = 1 .. 21
    BY DEF Ps5Button
  <1>2. \A i \in 1 .. 21 : Ps5Button[i] \in ToSet(Ps5Button)
    BY <1>1 DEF ToSet
  <1>3. /\ Ps5Button[1] = "Triangle" /\ Ps5Button[2] = "Circle" /\ Ps5Button[3] = "Cross" /\ Ps5Button[4] = "Square"
        /\ Ps5Button[5] = "L1" /\ Ps5Button[6] = "R1" /\ Ps5Button[7] = "L2" /\ Ps5Button[8] = "R2"
        /\ Ps5Button[9] = "Create" /\ Ps5Button[10] = "Options" /\ Ps5Button[11] = "PS" /\ Ps5Button[12] = "TouchPad"
        /\ Ps5Button[13] = "L3" /\ Ps5Button[14] = "R3" /\ Ps5Button[15] = "DPadUp" /\ Ps5Button[16] = "DPadDown"
        /\ Ps5Button[17] = "DPadLeft" /\ Ps5Button[18] = "DPadRight" /\ Ps5Button[19] = "GyroX"
        /\ Ps5Button[20] = "GyroY" /\ Ps5Button[21] = "GyroZ"
    BY DEF Ps5Button
  <1> QED BY <1>2, <1>3

\* A table of rows that name buttons is a profile.
LEMMA TableIsProfile ==
    ASSUME NEW n \in Nat, NEW rows, rows = [i \in 1 .. n |-> rows[i]],
           \A i \in 1 .. n : rows[i][1] \in ToSet(Ps5Button) /\ rows[i][3] \in Nat,
           NEW type \in HostInputType, NEW name
    PROVE  IsProfile([name |-> name, entries |-> Table(type, rows)])
  <1>1. PICK t : t = Table(type, rows)
    OBVIOUS
  <1>2. t = [i \in 1 .. n |-> Entry(rows[i][1], type, rows[i][2], rows[i][3])]
    BY <1>1 DEF Table
  <1>3. Len(t) = n /\ t = [i \in 1 .. n |-> t[i]]
    BY <1>2
  <1>4. ASSUME NEW i \in 1 .. n PROVE IsMapping(t[i])
    <2>1. t[i] = Entry(rows[i][1], type, rows[i][2], rows[i][3])
      BY <1>2
    <2>2. rows[i][1] \in ToSet(Ps5Button) /\ rows[i][3] \in Nat /\ ImOne \in Nat
      BY InputMappingAssumption
    <2> QED BY <2>1, <2>2 DEF Entry, IsMapping
  <1>5. PICK p : p = [name |-> name, entries |-> t]
    OBVIOUS
  <1>6. p.name = name /\ p.entries = t /\ p = [name |-> p.name, entries |-> p.entries]
    BY <1>5
  <1>7. IsProfile(p)
    BY <1>3, <1>4, <1>6 DEF IsProfile
  <1> QED BY <1>1, <1>5, <1>7

LEMMA KeyboardIsProfile == IsProfile(DefaultKeyboardProfile)
  <1>1. PICK rows : rows =
    << <<"Triangle", "J", 0>>, <<"Circle", "K", 0>>, <<"Cross", "L", 0>>, <<"Square", "I", 0>>,
       <<"DPadUp", "W", 0>>, <<"DPadDown", "S", 0>>, <<"DPadLeft", "A", 0>>, <<"DPadRight", "D", 0>>,
       <<"DPadUp", "Up", 0>>, <<"DPadDown", "Down", 0>>, <<"DPadLeft", "Left", 0>>, <<"DPadRight", "Right", 0>>,
       <<"L1", "Q", 0>>, <<"R1", "E", 0>>, <<"L2", "1", 0>>, <<"R2", "3", 0>>, <<"L3", "F", 0>>, <<"R3", "V", 0>>,
       <<"Options", "Enter", 0>>, <<"Create", "Escape", 0>>, <<"TouchPad", "Tab", 0>>, <<"PS", "F1", 0>> >>
    OBVIOUS
  <1>2. rows = [i \in 1 .. 22 |-> rows[i]]
    BY <1>1
  <1>3. \A i \in 1 .. 22 : rows[i][1] \in ToSet(Ps5Button) /\ rows[i][3] \in Nat
    BY <1>1, ButtonNames
  <1>4. IsProfile([name |-> "Keyboard", entries |-> Table("Keyboard", rows)])
    BY <1>2, <1>3, TableIsProfile DEF HostInputType
  <1> QED BY <1>1, <1>4 DEF DefaultKeyboardProfile

LEMMA XboxIsProfile == IsProfile(DefaultXboxProfile)
  <1>1. PICK rows : rows =
    << <<"Cross", 0, 0>>, <<"Circle", 1, 0>>, <<"Square", 2, 0>>, <<"Triangle", 3, 0>>,
       <<"L1", 4, 0>>, <<"R1", 5, 0>>, <<"L2", 4, ImSmall>>, <<"R2", 5, ImSmall>>,
       <<"Create", 6, 0>>, <<"Options", 7, 0>>, <<"L3", 8, 0>>, <<"R3", 9, 0>>,
       <<"DPadUp", 10, 0>>, <<"DPadDown", 11, 0>>, <<"DPadLeft", 12, 0>>, <<"DPadRight", 13, 0>>,
       <<"TouchPad", 6, 0>> >>
    OBVIOUS
  <1>2. rows = [i \in 1 .. 17 |-> rows[i]]
    BY <1>1
  <1>3. ImSmall \in Nat
    BY InputMappingAssumption
  <1>4. \A i \in 1 .. 17 : rows[i][1] \in ToSet(Ps5Button) /\ rows[i][3] \in Nat
    BY <1>1, <1>3, ButtonNames
  <1>5. IsProfile([name |-> "Xbox", entries |-> Table("Gamepad", rows)])
    BY <1>2, <1>4, TableIsProfile DEF HostInputType
  <1> QED BY <1>1, <1>5 DEF DefaultXboxProfile

LEMMA DualSenseIsProfile == IsProfile(DefaultDualSenseProfile)
  <1>1. PICK pads : pads = [i \in 1 .. 18 |-> <<Ps5Button[i], i - 1, IF Ps5Button[i] \in {"L2", "R2"} THEN ImSmall ELSE 0>>]
    OBVIOUS
  <1>2. PICK gyro : gyro = << <<"GyroX", 17, 1>>, <<"GyroY", 18, 1>>, <<"GyroZ", 19, 1>> >>
    OBVIOUS
  <1>3. ImSmall \in Nat
    BY InputMappingAssumption
  <1>4. DOMAIN Ps5Button = 1 .. 21
    BY DEF Ps5Button
  <1>5. \A i \in 1 .. 18 : Ps5Button[i] \in ToSet(Ps5Button)
    BY <1>4 DEF ToSet
  <1>6. \A i \in 1 .. 18 : pads[i][1] \in ToSet(Ps5Button) /\ pads[i][3] \in Nat
    BY <1>1, <1>3, <1>5
  <1>7. \A i \in 1 .. 3 : gyro[i][1] \in ToSet(Ps5Button) /\ gyro[i][3] \in Nat
    BY <1>2, ButtonNames
  <1>8. PICK K : K = {pads[i] : i \in 1 .. 18} \cup {gyro[i] : i \in 1 .. 3}
    OBVIOUS
  <1>9. pads \in Seq(K) /\ Len(pads) = 18
    <2>1. pads = [i \in 1 .. 18 |-> pads[i]] /\ \A i \in 1 .. 18 : pads[i] \in K
      BY <1>1, <1>8
    <2> QED BY <2>1
  <1>10. gyro \in Seq(K) /\ Len(gyro) = 3
    <2>1. gyro[1] \in K /\ gyro[2] \in K /\ gyro[3] \in K
      BY <1>8
    <2> QED BY <1>2, <2>1
  <1>11. PICK rows : rows = pads \o gyro
    OBVIOUS
  <1>12. rows \in Seq(K) /\ Len(rows) = 21 /\ \A i \in 1 .. 21 : rows[i] = IF i <= 18 THEN pads[i] ELSE gyro[i - 18]
    <2>1. rows \in Seq(K) /\ Len(rows) = Len(pads) + Len(gyro)
          /\ \A i \in 1 .. Len(pads) + Len(gyro) : rows[i] = IF i <= Len(pads) THEN pads[i] ELSE gyro[i - Len(pads)]
      BY <1>9, <1>10, <1>11, ConcatProperties
    <2>2. Len(pads) + Len(gyro) = 21
      BY <1>9, <1>10
    <2> QED BY <1>9, <2>1, <2>2
  <1>13. rows = [i \in 1 .. 21 |-> rows[i]]
    BY <1>12
  <1>14. \A i \in 1 .. 21 : IF i <= 18 THEN i \in 1 .. 18 ELSE i - 18 \in 1 .. 3
    OBVIOUS
  <1>15. \A i \in 1 .. 21 : rows[i][1] \in ToSet(Ps5Button) /\ rows[i][3] \in Nat
    BY <1>6, <1>7, <1>12, <1>14
  <1>16. IsProfile([name |-> "DualSense", entries |-> Table("Gamepad", rows)])
    BY <1>13, <1>15, TableIsProfile DEF HostInputType
  <1> QED BY <1>1, <1>2, <1>11, <1>16 DEF DefaultDualSenseProfile

LEMMA UnsetIsProfile == \A name : IsProfile([name |-> name, entries |-> <<>>])
  <1> TAKE name
  <1>1. PICK p : p = [name |-> name, entries |-> <<>>]
    OBVIOUS
  <1>2. p.name = name /\ p.entries = <<>> /\ p = [name |-> p.name, entries |-> p.entries]
    BY <1>1
  <1>3. Len(<<>>) = 0 /\ <<>> = [i \in 1 .. 0 |-> <<>>[i]]
    OBVIOUS
  <1>4. IsProfile(p)
    BY <1>2, <1>3 DEF IsProfile
  <1> QED BY <1>1, <1>4

LEMMA ProfilesAre == \A p \in Profiles : IsProfile(p)
  <1>1. IsProfile(Unset)
    BY UnsetIsProfile DEF Unset
  <1>2. \A p \in ImCustom : IsProfile(p)
    BY InputMappingAssumption
  <1> QED BY <1>1, <1>2, KeyboardIsProfile, XboxIsProfile, DualSenseIsProfile DEF Profiles, BuiltIn

FileSound(n) ==
    LET p == [name |-> n, entries |-> imSaved[n]]
    IN  imSaved[n] \in Bodies /\ IsProfile(p) /\ imFiles[n] = WriteProfileIni(p)

ImInv ==
    /\ ImTypeOK
    /\ IsProfile(imActive)
    /\ \A n \in DOMAIN imSaved : FileSound(n)
    /\ imLoaded # NotLoaded => imLoaded \in DOMAIN imSaved
    /\ SavedIsLoaded

LEMMA ProfileParts ==
    ASSUME NEW p \in Profiles
    PROVE  p.name \in {q.name : q \in Profiles} /\ p.entries \in Bodies
  BY DEF Bodies

LEMMA ImInvInit == ImInit => ImInv
  <1> SUFFICES ASSUME ImInit PROVE ImInv
    OBVIOUS
  <1>1. Unset \in Profiles /\ Unset.entries = <<>>
    BY DEF Profiles, Unset
  <1>2. <<>> \in Bodies
    BY <1>1, ProfileParts
  <1>3. imActive.name = "Default" /\ imActive.entries = <<>> /\ DOMAIN <<>> = {}
    BY DEF ImInit
  <1>4. IsProfile(imActive)
    BY UnsetIsProfile DEF ImInit
  <1>5. ImTypeOK
    BY <1>2, <1>3 DEF ImInit, ImTypeOK
  <1> QED BY <1>3, <1>4, <1>5 DEF ImInit, ImInv, SavedIsLoaded

\* Another profile becomes active: Init, Shutdown and SetActiveProfile.
LEMMA ActivateKeeps ==
    ASSUME ImInv, NEW p \in Profiles, imActive' = p, imLoaded' = NotLoaded, imInitialised' \in BOOLEAN,
           UNCHANGED <<imFiles, imSaved>>
    PROVE  ImInv'
  <1>1. IsProfile(p) /\ p.name \in {q.name : q \in Profiles} /\ p.entries \in Bodies
    BY ProfilesAre, ProfileParts
  <1>2. ImTypeOK'
    BY <1>1 DEF ImInv, ImTypeOK
  <1>3. IsProfile(imActive)'
    BY <1>1 DEF IsProfile
  <1>4. \A n \in DOMAIN imSaved' : FileSound(n)'
    BY DEF ImInv, FileSound
  <1> QED BY <1>2, <1>3, <1>4 DEF ImInv, SavedIsLoaded

LEMMA LoadProfileKeeps ==
    ASSUME ImInv, NEW n \in ImNames, LoadProfile(n)
    PROVE  ImInv'
  <1>1. n \in DOMAIN imSaved /\ n \in DOMAIN imFiles
    BY DEF LoadProfile, ImInv, ImTypeOK
  <1>2. PICK p : p = [name |-> n, entries |-> imSaved[n]]
    OBVIOUS
  <1>3. p.name = n /\ p.entries = imSaved[n] /\ imSaved[n] \in Bodies /\ IsProfile(p) /\ imFiles[n] = WriteProfileIni(p)
    <2>1. FileSound(n)
      BY <1>1 DEF ImInv
    <2> QED BY <1>2, <2>1 DEF FileSound
  <1>4. imActive' = p
    BY <1>3, WrittenIsRead DEF LoadProfile
  <1>5. imLoaded' = n /\ UNCHANGED <<imInitialised, imFiles, imSaved>>
    BY DEF LoadProfile
  <1>6. ImTypeOK'
    BY <1>3, <1>4, <1>5 DEF ImInv, ImTypeOK
  <1>7. IsProfile(imActive)'
    BY <1>3, <1>4 DEF IsProfile
  <1>8. \A m \in DOMAIN imSaved' : FileSound(m)'
    BY <1>5 DEF ImInv, FileSound
  <1> QED BY <1>1, <1>3, <1>4, <1>5, <1>6, <1>7, <1>8 DEF ImInv, SavedIsLoaded

LEMMA SaveProfileKeeps ==
    ASSUME ImInv, NEW n \in ImNames, SaveProfile(n)
    PROVE  ImInv'
  <1>1. PICK p : p = [name |-> n, entries |-> imActive.entries]
    OBVIOUS
  <1>2. IsProfile(p) /\ p = [imActive EXCEPT !.name = n] /\ p.name = n /\ p.entries = imActive.entries
    BY <1>1 DEF ImInv, IsProfile
  <1>3. imActive.entries \in Bodies /\ DOMAIN imFiles \subseteq ImNames /\ DOMAIN imSaved = DOMAIN imFiles
    BY DEF ImInv, ImTypeOK
  <1>4. /\ imFiles' = [m \in DOMAIN imFiles \cup {n} |-> IF m = n THEN WriteProfileIni(p) ELSE imFiles[m]]
        /\ imSaved' = [m \in DOMAIN imSaved \cup {n} |-> IF m = n THEN imActive.entries ELSE imSaved[m]]
        /\ imLoaded' = IF imLoaded = n THEN NotLoaded ELSE imLoaded
        /\ UNCHANGED <<imInitialised, imActive>>
    BY <1>2 DEF SaveProfile
  <1>5. DOMAIN imFiles' = DOMAIN imFiles \cup {n} /\ DOMAIN imSaved' = DOMAIN imSaved \cup {n}
    BY <1>4
  <1>6. ImTypeOK'
    BY <1>3, <1>4, <1>5 DEF ImInv, ImTypeOK
  <1>7. IsProfile(imActive)'
    BY <1>4 DEF ImInv, IsProfile
  <1>8. ASSUME NEW m \in DOMAIN imSaved' PROVE FileSound(m)'
    <2>1. CASE m = n
      <3>1. imSaved'[m] = imActive.entries /\ imFiles'[m] = WriteProfileIni(p)
        BY <1>3, <1>4, <2>1
      <3>2. [name |-> m, entries |-> imSaved'[m]] = p
        BY <1>1, <2>1, <3>1
      <3>3. FileSound(m)' <=> LET q == [name |-> m, entries |-> imSaved'[m]]
                              IN  imSaved'[m] \in Bodies /\ IsProfile(q) /\ imFiles'[m] = WriteProfileIni(q)
        BY DEF FileSound
      <3> QED BY <1>2, <1>3, <3>1, <3>2, <3>3
    <2>2. CASE m # n
      <3>1. m \in DOMAIN imSaved /\ imSaved'[m] = imSaved[m] /\ imFiles'[m] = imFiles[m]
        BY <1>3, <1>4, <1>5, <2>2
      <3>2. FileSound(m)
        BY <3>1 DEF ImInv
      <3> QED BY <3>1, <3>2 DEF FileSound
    <2> QED BY <2>1, <2>2
  <1>9. imLoaded' # NotLoaded => imLoaded' = imLoaded /\ imLoaded \in DOMAIN imSaved' /\ imSaved'[imLoaded] = imSaved[imLoaded]
    BY <1>4 DEF ImInv
  <1>10. SavedIsLoaded'
    BY <1>4, <1>9 DEF ImInv, SavedIsLoaded
  <1> QED BY <1>6, <1>7, <1>8, <1>9, <1>10 DEF ImInv

LEMMA DeleteProfileKeeps ==
    ASSUME ImInv, NEW n \in ImNames, DeleteProfile(n)
    PROVE  ImInv'
  <1>1. DOMAIN imFiles \subseteq ImNames /\ DOMAIN imSaved = DOMAIN imFiles
    BY DEF ImInv, ImTypeOK
  <1>2. /\ imFiles' = [m \in DOMAIN imFiles \ {n} |-> imFiles[m]]
        /\ imSaved' = [m \in DOMAIN imSaved \ {n} |-> imSaved[m]]
        /\ imLoaded' = IF imLoaded = n THEN NotLoaded ELSE imLoaded
        /\ UNCHANGED <<imInitialised, imActive>>
    BY DEF DeleteProfile
  <1>3. DOMAIN imFiles' = DOMAIN imFiles \ {n} /\ DOMAIN imSaved' = DOMAIN imSaved \ {n}
    BY <1>2
  <1>4. ImTypeOK'
    BY <1>1, <1>2, <1>3 DEF ImInv, ImTypeOK
  <1>5. IsProfile(imActive)'
    BY <1>2 DEF ImInv, IsProfile
  <1>6. ASSUME NEW m \in DOMAIN imSaved' PROVE FileSound(m)'
    <2>1. m \in DOMAIN imSaved /\ imSaved'[m] = imSaved[m] /\ imFiles'[m] = imFiles[m]
      BY <1>1, <1>2, <1>3
    <2>2. FileSound(m)
      BY <2>1 DEF ImInv
    <2> QED BY <2>1, <2>2 DEF FileSound
  <1>7. imLoaded' # NotLoaded => imLoaded' = imLoaded /\ imLoaded \in DOMAIN imSaved' /\ imSaved'[imLoaded] = imSaved[imLoaded]
    BY <1>2, <1>3 DEF ImInv
  <1>8. SavedIsLoaded'
    BY <1>2, <1>7 DEF ImInv, SavedIsLoaded
  <1> QED BY <1>4, <1>5, <1>6, <1>7, <1>8 DEF ImInv

LEMMA ImInvInductive == ImInv /\ [ImNext]_imVars => ImInv'
  <1> SUFFICES ASSUME ImInv, [ImNext]_imVars PROVE ImInv'
    OBVIOUS
  <1>1. imInitialised \in BOOLEAN
    BY DEF ImInv, ImTypeOK
  <1>2. CASE InitMapping
    BY <1>2, ActivateKeeps DEF InitMapping, Profiles, BuiltIn
  <1>3. CASE ShutdownMapping
    BY <1>3, ActivateKeeps DEF ShutdownMapping, Profiles
  <1>4. ASSUME NEW n \in ImNames, LoadProfile(n) \/ SaveProfile(n) \/ DeleteProfile(n) PROVE ImInv'
    BY <1>4, LoadProfileKeeps, SaveProfileKeeps, DeleteProfileKeeps
  <1>5. ASSUME NEW p \in BuiltIn \cup ImCustom, SetActiveProfile(p) PROVE ImInv'
    <2>1. p \in Profiles
      BY DEF Profiles
    <2> QED BY <1>1, <1>5, <2>1, ActivateKeeps DEF SetActiveProfile
  <1>6. CASE UNCHANGED imVars
    <2>1. ImTypeOK' /\ IsProfile(imActive)' /\ SavedIsLoaded'
      BY <1>6 DEF imVars, ImInv, ImTypeOK, IsProfile, SavedIsLoaded
    <2>2. \A n \in DOMAIN imSaved' : FileSound(n)'
      BY <1>6 DEF imVars, ImInv, FileSound
    <2> QED BY <1>6, <2>1, <2>2 DEF imVars, ImInv
  <1> QED BY <1>2, <1>3, <1>4, <1>5, <1>6 DEF ImNext

LEMMA FirstMatchIs ==
    ASSUME NEW es, NEW n \in Nat, DOMAIN es = 1 .. n, NEW i \in 1 .. n
    PROVE  LET j == FirstMatch(es, es[i].type, es[i].id)
           IN  j \in 1 .. n /\ es[j].type = es[i].type /\ es[j].id = es[i].id
  <1>1. PICK hits : hits = {k \in DOMAIN es : es[k].type = es[i].type /\ es[k].id = es[i].id}
    OBVIOUS
  <1>2. hits \in SUBSET Nat /\ hits # {} /\ i \in hits
    BY <1>1
  <1>3. \E k \in hits : \A j \in hits : k <= j
    BY <1>2, LeastOf
  <1>4. FirstMatch(es, es[i].type, es[i].id) = CHOOSE k \in hits : \A j \in hits : k <= j
    BY <1>1, <1>2 DEF FirstMatch
  <1>5. FirstMatch(es, es[i].type, es[i].id) \in hits
    BY <1>3, <1>4
  <1> QED BY <1>1, <1>5

LEMMA QuotientNat == \A n \in Nat, d \in Nat \ {0} : n \div d \in Nat
  OBVIOUS

LEMMA ProductPositive == \A m, n \in Nat : m > 0 /\ n > 0 => m * n > 0
  OBVIOUS

LEMMA ProductsSigned ==
    ASSUME NEW m \in Nat, NEW v \in Int, m > 0
    PROVE  /\ v > 0 => m * v > 0 /\ ~((-1 * m) * v > 0)
           /\ v < 0 => ~(m * v > 0) /\ (-1 * m) * v > 0
  OBVIOUS

\* Shaping keeps an axis value in range and its sign right.
LEMMA ShapedInRange ==
    ASSUME NEW e, IsMapping(e), NEW value \in -ImOne .. ImOne, ~Silenced(e, value),
           NEW out, out = Sign(e, value) * (IF Scaled(e, value) > ImOne THEN ImOne ELSE Scaled(e, value))
    PROVE  /\ out \in -ImOne .. ImOne
           /\ out # 0 => Magnitude(out) >= e.deadzone /\ (out * value > 0) = ~e.inverted
  <1>1. ImOne \in Nat /\ ImOne # 0
    BY InputMappingAssumption
  <1>2. PICK mag \in Nat : mag = Magnitude(value) /\ mag <= ImOne /\ (mag = 0 <=> value = 0)
    BY <1>1 DEF Magnitude
  <1>3. e.scale \in Nat /\ e.deadzone \in Nat /\ e.inverted \in BOOLEAN
    BY DEF IsMapping
  <1>4. mag * e.scale \in Nat
    BY <1>3
  <1>5. PICK sc \in Nat : sc = Scaled(e, value)
    <2>1. Scaled(e, value) = (mag * e.scale) \div ImOne
      BY <1>2 DEF Scaled
    <2>2. (mag * e.scale) \div ImOne \in Nat
      BY <1>1, <1>4, QuotientNat
    <2> QED BY <2>1, <2>2
  <1>6. PICK m \in Nat : m = IF sc > ImOne THEN ImOne ELSE sc
    BY <1>1
  <1>7. m <= ImOne /\ m >= e.deadzone
    BY <1>1, <1>2, <1>3, <1>5, <1>6 DEF Silenced
  <1>8. value = 0 => m = 0
    <2> SUFFICES ASSUME value = 0 PROVE m = 0
      OBVIOUS
    <2>1. mag * e.scale = 0
      BY <1>2, <1>3
    <2>2. 0 \div ImOne = 0
      BY <1>1
    <2>3. sc = 0
      BY <1>2, <1>5, <2>1, <2>2 DEF Scaled
    <2> QED BY <1>1, <1>6, <2>3
  <1>9. out = Sign(e, value) * m
    BY <1>5, <1>6
  <1>10. CASE Sign(e, value) = 1
    <2>1. out = m /\ Magnitude(out) = m
      BY <1>9, <1>10 DEF Magnitude
    <2>2. (value < 0) = e.inverted
      BY <1>10 DEF Sign
    <2>3. out # 0 => (out * value > 0) = ~e.inverted
      BY <1>3, <1>8, <2>1, <2>2, ProductsSigned
    <2> QED BY <1>1, <1>7, <2>1, <2>3
  <1>11. CASE Sign(e, value) # 1
    <2>1. Sign(e, value) = -1 /\ (value < 0) # e.inverted
      BY <1>11 DEF Sign
    <2>2. out = -1 * m /\ Magnitude(out) = m
      BY <1>9, <2>1 DEF Magnitude
    <2>3. out # 0 => (out * value > 0) = ~e.inverted
      BY <1>3, <1>8, <2>1, <2>2, ProductsSigned
    <2> QED BY <1>1, <1>7, <2>2, <2>3
  <1> QED BY <1>10, <1>11

LEMMA ImInvHolds == ImInv => ImTypeOK /\ ProfilesSound
  <1> SUFFICES ASSUME ImInv PROVE ProfilesSound
    BY DEF ImInv
  <1>1. PICK n \in Nat : n = Len(imActive.entries) /\ DOMAIN imActive.entries = 1 .. n
                         /\ \A i \in 1 .. n : IsMapping(imActive.entries[i])
    BY DEF ImInv, IsProfile
  <1>2. ASSUME imInitialised, NEW i \in 1 .. n, NEW value \in -ImOne .. ImOne
        PROVE  LET e   == imActive.entries[FirstMatch(imActive.entries, imActive.entries[i].type, imActive.entries[i].id)]
                   out == TranslateAxis(e.type, e.id, value)
               IN  /\ out \in -ImOne .. ImOne
                   /\ out # 0 => Magnitude(out) >= e.deadzone /\ (out * value > 0) = ~e.inverted
    <2>1. PICK j : j = FirstMatch(imActive.entries, imActive.entries[i].type, imActive.entries[i].id)
      OBVIOUS
    <2>2. PICK e : e = imActive.entries[j]
      OBVIOUS
    <2>3. j \in 1 .. n /\ e.type = imActive.entries[i].type /\ e.id = imActive.entries[i].id
      BY <1>1, <2>1, <2>2, FirstMatchIs
    <2>4. FirstMatch(imActive.entries, e.type, e.id) = j
      BY <2>1, <2>3
    <2>5. PICK out : out = TranslateAxis(e.type, e.id, value)
      OBVIOUS
    <2>6. j # 0
      BY <2>3
    <2>7. out = IF Silenced(e, value) THEN 0
                ELSE Sign(e, value) * (IF Scaled(e, value) > ImOne THEN ImOne ELSE Scaled(e, value))
      BY <1>2, <2>2, <2>4, <2>5, <2>6 DEF TranslateAxis
    <2>8. IsMapping(e) /\ 0 \in -ImOne .. ImOne
      BY <1>1, <2>2, <2>3, InputMappingAssumption
    <2>9. out \in -ImOne .. ImOne /\ (out # 0 => Magnitude(out) >= e.deadzone /\ (out * value > 0) = ~e.inverted)
      <3>1. CASE Silenced(e, value)
        BY <2>7, <2>8, <3>1
      <3>2. CASE ~Silenced(e, value)
        BY <2>7, <2>8, <3>2, ShapedInRange
      <3> QED BY <3>1, <3>2
    <2> QED BY <2>1, <2>2, <2>5, <2>9
  <1>3. AxisInRange
    BY <1>1, <1>2 DEF AxisInRange
  <1> QED BY <1>3 DEF ProfilesSound, ImInv

-----------------------------------------------------------------------------
(* The region table of the memory manager. *)
Region == [base : Addresses, size : Nat, prot : Prots, committed : BOOLEAN]

\* The pages of all regions, each with the place of its region in the table.
Rows(t) == {x \in (1 .. Len(t)) \X Nat : x[2] \in RegionPages(t[x[1]])}

MemTypeInv ==
    /\ memOs \in [Addresses -> Prots \cup {NotMapped}]
    /\ memTable \in Seq(Region)
    /\ memCall \in [MemThreads -> [op : {"none", "Reserve", "Map", "Commit", "Protect", "Unmap"},
                                   base : 0 .. MemPages, size : Nat, prot : Prots]]
    /\ \A t \in MemThreads : memCall[t].op # "none" => memCall[t].base \in Addresses /\ memCall[t].size \in MemSizes
    /\ memHeld \subseteq [base : Addresses, size : MemSizes]
    /\ memCount = Len(memTable)
    /\ IsFiniteSet(Rows(memTable)) /\ memReserved = Cardinality(Rows(memTable))

LEMMA MemConstants ==
    /\ MemPages \in Nat /\ MemUnit \in Nat /\ MemUnit # 0 /\ IsFiniteSet(MemThreads)
    /\ \A s \in MemSizes : s \in Nat /\ s # 0
    /\ Addresses \subseteq Nat
  BY MemoryAssumption DEF Addresses

\* Sets that a one-to-one map takes to each other have the same size.
LEMMA SameSize ==
    ASSUME NEW S, NEW T, IsFiniteSet(S), NEW f, f \in [S -> T],
           \A x, y \in S : f[x] = f[y] => x = y, \A y \in T : \E x \in S : f[x] = y
    PROVE  IsFiniteSet(T) /\ Cardinality(T) = Cardinality(S)
  <1>1. f \in Bijection(S, T)
    <2>1. IsInjective(f)
      BY DEF IsInjective
    <2> QED BY <2>1 DEF Bijection, Injection, Surjection
  <1>2. ExistsBijection(S, T)
    BY <1>1 DEF ExistsBijection
  <1> QED BY <1>2, FS_Bijection

\* s is t without its entry i, and sh tells where each entry of s was.
Shifted(t, s, n, i, sh) ==
    /\ Len(s) = n - 1
    /\ \A j \in 1 .. n - 1 : s[j] = t[sh[j]] /\ sh[j] \in 1 .. n /\ sh[j] # i
    /\ \A j, k \in 1 .. n - 1 : j < k <=> sh[j] < sh[k]
    /\ \A j, k \in 1 .. n - 1 : sh[j] = sh[k] => j = k
    /\ \A k \in 1 .. n : k # i => \E j \in 1 .. n - 1 : sh[j] = k

LEMMA RemoveAtIs ==
    ASSUME NEW K, NEW t \in Seq(K), NEW n \in Nat, n = Len(t), NEW i \in 1 .. n
    PROVE  RemoveAt(t, i) \in Seq(K) /\ \E sh : Shifted(t, RemoveAt(t, i), n, i, sh)
  <1>1. PICK a : a = SubSeq(t, 1, i - 1)
    OBVIOUS
  <1>2. PICK b : b = SubSeq(t, i + 1, n)
    OBVIOUS
  <1>3. a \in Seq(K) /\ Len(a) = i - 1 /\ \A j \in 1 .. i - 1 : a[j] = t[j]
    <2>1. PICK m \in Nat : m = i - 1 /\ m < n
      OBVIOUS
    <2>2. 1 \in Int /\ m \in Int /\ \A j \in 1 .. m : t[j] \in K
      BY <2>1
    <2>3. /\ SubSeq(t, 1, m) \in Seq(K) /\ Len(SubSeq(t, 1, m)) = IF 1 <= m THEN m - 1 + 1 ELSE 0
          /\ \A j \in 1 .. m - 1 + 1 : SubSeq(t, 1, m)[j] = t[1 + j - 1]
      BY <2>2, SubSeqProperties
    <2>4. Len(SubSeq(t, 1, m)) = m
      BY <2>3
    <2>5. \A j \in 1 .. m : j \in 1 .. m - 1 + 1 /\ 1 + j - 1 = j
      OBVIOUS
    <2>6. \A j \in 1 .. m : SubSeq(t, 1, m)[j] = t[j]
      BY <2>3, <2>5
    <2> QED BY <1>1, <2>1, <2>3, <2>4, <2>6
  <1>4. b \in Seq(K) /\ Len(b) = n - i /\ \A j \in 1 .. n - i : b[j] = t[i + j]
    <2>1. PICK m \in Nat : m = i + 1 /\ m > 1
      OBVIOUS
    <2>2. m \in Int /\ n \in Int /\ \A j \in m .. n : t[j] \in K
      BY <2>1
    <2>3. /\ SubSeq(t, m, n) \in Seq(K) /\ Len(SubSeq(t, m, n)) = IF m <= n THEN n - m + 1 ELSE 0
          /\ \A j \in 1 .. n - m + 1 : SubSeq(t, m, n)[j] = t[m + j - 1]
      BY <2>2, SubSeqProperties
    <2>4. Len(SubSeq(t, m, n)) = n - i
      BY <2>1, <2>3
    <2>5. \A j \in 1 .. n - i : j \in 1 .. n - m + 1 /\ m + j - 1 = i + j
      BY <2>1
    <2>6. \A j \in 1 .. n - i : SubSeq(t, m, n)[j] = t[i + j]
      BY <2>3, <2>5
    <2> QED BY <1>2, <2>1, <2>3, <2>4, <2>6
  <1>5. PICK r : r = a \o b
    OBVIOUS
  <1>6. r \in Seq(K) /\ Len(r) = Len(a) + Len(b)
        /\ \A j \in 1 .. Len(a) + Len(b) : r[j] = IF j <= Len(a) THEN a[j] ELSE b[j - Len(a)]
    BY <1>3, <1>4, <1>5, ConcatProperties
  <1>7. Len(a) + Len(b) = n - 1
    BY <1>3, <1>4
  <1>8. ASSUME NEW j \in 1 .. n - 1 PROVE r[j] = t[IF j < i THEN j ELSE j + 1]
    <2>1. CASE j < i
      <3>1. j <= Len(a) /\ j \in 1 .. i - 1
        BY <1>3, <2>1
      <3> QED BY <1>3, <1>6, <1>7, <2>1, <3>1
    <2>2. CASE ~(j < i)
      <3>1. ~(j <= Len(a)) /\ j - Len(a) = j - (i - 1) /\ j - (i - 1) \in 1 .. n - i /\ i + (j - (i - 1)) = j + 1
        BY <1>3, <2>2
      <3> QED BY <1>4, <1>6, <1>7, <2>2, <3>1
    <2> QED BY <2>1, <2>2
  <1>9. r = RemoveAt(t, i)
    BY <1>1, <1>2, <1>5 DEF RemoveAt
  <1>20. PICK sh : sh = [j \in 1 .. n - 1 |-> IF j < i THEN j ELSE j + 1]
    OBVIOUS
  <1>21. \A k \in 1 .. n : k # i => \E j \in 1 .. n - 1 : sh[j] = k
    <2> SUFFICES ASSUME NEW k \in 1 .. n, k # i PROVE \E j \in 1 .. n - 1 : sh[j] = k
      OBVIOUS
    <2>1. CASE k < i
      <3>1. k \in 1 .. n - 1 /\ sh[k] = k
        BY <1>20, <2>1
      <3> QED BY <3>1
    <2>2. CASE ~(k < i)
      <3>1. k - 1 \in 1 .. n - 1 /\ ~(k - 1 < i) /\ (k - 1) + 1 = k
        BY <2>2
      <3>2. sh[k - 1] = k
        BY <1>20, <3>1
      <3> QED BY <3>1, <3>2
    <2> QED BY <2>1, <2>2
  <1>22. \A j \in 1 .. n - 1 : sh[j] \in 1 .. n /\ sh[j] # i
    BY <1>20
  <1>23. \A j, k \in 1 .. n - 1 : j < k <=> sh[j] < sh[k]
    BY <1>20
  <1>24. \A j, k \in 1 .. n - 1 : sh[j] = sh[k] => j = k
    BY <1>20
  <1>25. \A j \in 1 .. n - 1 : r[j] = t[sh[j]]
    BY <1>8, <1>20
  <1>26. Len(r) = n - 1
    BY <1>6, <1>7
  <1>27. Shifted(t, r, n, i, sh)
    BY <1>21, <1>22, <1>23, <1>24, <1>25, <1>26 DEF Shifted
  <1> QED BY <1>6, <1>9, <1>27

LEMMA SpanSize ==
    ASSUME NEW b \in Nat, NEW s \in Nat
    PROVE  IsFiniteSet(Span(b, s)) /\ Cardinality(Span(b, s)) = s /\ Span(b, s) \subseteq Nat
  <1>1. b + s - 1 \in Int /\ Span(b, s) = b .. b + s - 1
    BY DEF Span
  <1>2. IsFiniteSet(b .. b + s - 1) /\ Cardinality(b .. b + s - 1) = IF b > b + s - 1 THEN 0 ELSE (b + s - 1) - b + 1
    BY <1>1, FS_Interval
  <1> QED BY <1>1, <1>2

\* One region's pages, with its place.
LEMMA RowSize ==
    ASSUME NEW r \in Region, NEW k
    PROVE  LET R == {k} \X RegionPages(r) IN IsFiniteSet(R) /\ Cardinality(R) = r.size
  <1>1. r.base \in Nat /\ r.size \in Nat
    BY MemConstants DEF Region
  <1>2. PICK P : P = RegionPages(r)
    OBVIOUS
  <1>3. IsFiniteSet(P) /\ Cardinality(P) = r.size
    BY <1>1, <1>2, SpanSize DEF RegionPages
  <1>4. PICK f : f = [p \in P |-> <<k, p>>]
    OBVIOUS
  <1>5. f \in [P -> {k} \X P]
    BY <1>4
  <1>6. \A p, q \in P : f[p] = f[q] => p = q
    BY <1>4
  <1>7. \A x \in {k} \X P : \E p \in P : f[p] = x
    BY <1>4
  <1> QED BY <1>2, <1>3, <1>5, <1>6, <1>7, SameSize

LEMMA RowsAppended ==
    ASSUME NEW t \in Seq(Region), IsFiniteSet(Rows(t)), NEW r \in Region
    PROVE  IsFiniteSet(Rows(Append(t, r))) /\ Cardinality(Rows(Append(t, r))) = Cardinality(Rows(t)) + r.size
  <1>1. PICK n \in Nat : n = Len(t)
    BY LenProperties
  <1>2. PICK s : s = Append(t, r)
    OBVIOUS
  <1>3. Len(s) = n + 1 /\ s[n + 1] = r /\ \A i \in 1 .. n : s[i] = t[i]
    BY <1>1, <1>2, AppendProperties
  <1>4. PICK R : R = {n + 1} \X RegionPages(r)
    OBVIOUS
  <1>5. IsFiniteSet(R) /\ Cardinality(R) = r.size
    BY <1>4, RowSize
  <1>6. RegionPages(r) \subseteq Nat
    BY MemConstants, SpanSize DEF RegionPages, Region
  <1>7. 1 .. n + 1 = (1 .. n) \cup {n + 1} /\ n + 1 \notin 1 .. n
    OBVIOUS
  <1>8. PICK T : T = Rows(t)
    OBVIOUS
  <1>9. Rows(s) = T \cup R
    <2>1. ASSUME NEW x \in Rows(s) PROVE x \in T \cup R
      <3>1. x \in (1 .. n + 1) \X Nat /\ x[2] \in RegionPages(s[x[1]])
        BY <1>3 DEF Rows
      <3>2. CASE x[1] = n + 1
        BY <1>3, <1>4, <3>1, <3>2
      <3>3. CASE x[1] \in 1 .. n
        <4>1. s[x[1]] = t[x[1]] /\ x \in (1 .. n) \X Nat
          BY <1>3, <3>1, <3>3
        <4> QED BY <1>1, <1>8, <3>1, <4>1 DEF Rows
      <3> QED BY <1>7, <3>1, <3>2, <3>3
    <2>2. ASSUME NEW x \in T PROVE x \in Rows(s)
      <3>1. x \in (1 .. n) \X Nat /\ x[2] \in RegionPages(t[x[1]])
        BY <1>1, <1>8 DEF Rows
      <3>2. x \in (1 .. n + 1) \X Nat /\ s[x[1]] = t[x[1]]
        BY <1>3, <1>7, <3>1
      <3> QED BY <1>3, <3>1, <3>2 DEF Rows
    <2>3. ASSUME NEW x \in R PROVE x \in Rows(s)
      <3>1. x \in (1 .. n + 1) \X Nat /\ x[1] = n + 1 /\ x[2] \in RegionPages(r)
        BY <1>4, <1>6, <1>7
      <3> QED BY <1>3, <3>1 DEF Rows
    <2> QED BY <2>1, <2>2, <2>3
  <1>10. T \cap R = {}
    <2>1. ASSUME NEW x \in T, x \in R PROVE FALSE
      <3>1. x[1] \in 1 .. n
        BY <1>1, <1>8 DEF Rows
      <3>2. x[1] = n + 1
        BY <1>4, <2>1
      <3> QED BY <1>7, <3>1, <3>2
    <2> QED BY <2>1
  <1>11. IsFiniteSet(T) /\ IsFiniteSet(T \cup R) /\ Cardinality(T \cup R) = Cardinality(T) + Cardinality(R) - Cardinality({})
    BY <1>5, <1>8, <1>10, FS_Union
  <1>12. Cardinality({}) = 0 /\ Cardinality(T) \in Nat /\ Cardinality(R) \in Nat
    BY <1>5, <1>11, FS_EmptySet, FS_CardinalityType
  <1> QED BY <1>2, <1>5, <1>8, <1>9, <1>11, <1>12

LEMMA RowsRemoved ==
    ASSUME NEW t \in Seq(Region), IsFiniteSet(Rows(t)), NEW i \in 1 .. Len(t)
    PROVE  IsFiniteSet(Rows(RemoveAt(t, i))) /\ Cardinality(Rows(RemoveAt(t, i))) = Cardinality(Rows(t)) - t[i].size
  <1>1. PICK n \in Nat : n = Len(t)
    BY LenProperties
  <1>2. PICK s : s = RemoveAt(t, i)
    OBVIOUS
  <1>3. i \in 1 .. n
    BY <1>1
  <1>4. i \in 1 .. n /\ t[i] \in Region
    BY <1>1
  <1>5. PICK sh : Shifted(t, s, n, i, sh)
    BY <1>1, <1>2, <1>3, RemoveAtIs
  <1>6. /\ Len(s) = n - 1 /\ \A j \in 1 .. n - 1 : s[j] = t[sh[j]]
        /\ \A j \in 1 .. n - 1 : sh[j] \in 1 .. n /\ sh[j] # i
        /\ \A j, k \in 1 .. n - 1 : sh[j] = sh[k] => j = k
        /\ \A k \in 1 .. n : k # i => \E j \in 1 .. n - 1 : sh[j] = k
    BY <1>5 DEF Shifted
  <1>7. PICK R : R = {i} \X RegionPages(t[i])
    OBVIOUS
  <1>8. IsFiniteSet(R) /\ Cardinality(R) = t[i].size
    BY <1>4, <1>7, RowSize
  <1>9. PICK T : T = Rows(t)
    OBVIOUS
  <1>10. T = {x \in (1 .. n) \X Nat : x[2] \in RegionPages(t[x[1]])}
    BY <1>1, <1>9 DEF Rows
  <1>11. R \subseteq T
    <2>1. RegionPages(t[i]) \subseteq Nat
      BY <1>4, MemConstants, SpanSize DEF RegionPages, Region
    <2> QED BY <1>4, <1>7, <1>10, <2>1
  <1>12. IsFiniteSet(T \ R) /\ Cardinality(T \ R) = Cardinality(T) - Cardinality(R)
    <2>1. IsFiniteSet(T \ R) /\ Cardinality(T \ R) = Cardinality(T) - Cardinality(T \cap R)
      BY <1>9, FS_Difference
    <2>2. T \cap R = R
      BY <1>11
    <2> QED BY <2>1, <2>2
  <1>13. PICK S : S = Rows(s)
    OBVIOUS
  <1>14. S = {x \in (1 .. n - 1) \X Nat : x[2] \in RegionPages(t[sh[x[1]]])}
    BY <1>6, <1>13 DEF Rows
  <1>15. \A y \in T \ R : y[1] # i /\ y[1] \in 1 .. n /\ y[2] \in Nat /\ y = <<y[1], y[2]>>
    <2> SUFFICES ASSUME NEW y \in T \ R PROVE y[1] # i /\ y[1] \in 1 .. n /\ y[2] \in Nat /\ y = <<y[1], y[2]>>
      OBVIOUS
    <2>1. y \in (1 .. n) \X Nat /\ y[2] \in RegionPages(t[y[1]])
      BY <1>10
    <2>2. y = <<y[1], y[2]>>
      BY <2>1
    <2>3. y[1] # i
      <3> SUFFICES ASSUME y[1] = i PROVE FALSE
        OBVIOUS
      <3>1. y \in R
        BY <1>7, <2>1, <2>2
      <3> QED BY <3>1
    <2> QED BY <2>1, <2>2, <2>3
  <1>16. PICK back : back = [y \in T \ R |-> <<CHOOSE j \in 1 .. n - 1 : sh[j] = y[1], y[2]>>]
    OBVIOUS
  <1>17. ASSUME NEW y \in T \ R
         PROVE  back[y] \in S /\ sh[back[y][1]] = y[1] /\ back[y][2] = y[2] /\ back[y][1] \in 1 .. n - 1
    <2>1. y[1] # i /\ y[1] \in 1 .. n /\ y[2] \in Nat /\ y[2] \in RegionPages(t[y[1]])
      BY <1>10, <1>15
    <2>2. PICK k : k = CHOOSE j \in 1 .. n - 1 : sh[j] = y[1]
      OBVIOUS
    <2>3. k \in 1 .. n - 1 /\ sh[k] = y[1]
      BY <1>6, <2>1, <2>2
    <2>4. back[y] = <<k, y[2]>>
      BY <1>16, <2>2
    <2> QED BY <1>14, <2>1, <2>3, <2>4
  <1>18. back \in [T \ R -> S]
    BY <1>16, <1>17
  <1>19. \A x, y \in T \ R : back[x] = back[y] => x = y
    BY <1>15, <1>17
  <1>20. ASSUME NEW z \in S PROVE \E y \in T \ R : back[y] = z
    <2>1. z[1] \in 1 .. n - 1 /\ z[2] \in Nat /\ z[2] \in RegionPages(t[sh[z[1]]]) /\ z = <<z[1], z[2]>>
      BY <1>14
    <2>2. PICK y : y = <<sh[z[1]], z[2]>>
      OBVIOUS
    <2>3. y[1] = sh[z[1]] /\ y[2] = z[2]
      BY <2>2
    <2>4. sh[z[1]] \in 1 .. n /\ sh[z[1]] # i
      BY <1>6, <2>1
    <2>5. y \in T
      BY <1>10, <2>1, <2>2, <2>3, <2>4
    <2>6. y \notin R
      BY <1>7, <2>3, <2>4
    <2>7. sh[back[y][1]] = sh[z[1]] /\ back[y][2] = z[2] /\ back[y][1] \in 1 .. n - 1 /\ back[y] \in S
      BY <1>17, <2>3, <2>5, <2>6
    <2>8. back[y][1] = z[1]
      BY <1>6, <2>1, <2>7
    <2>9. back[y] = <<back[y][1], back[y][2]>>
      BY <1>14, <2>7
    <2>10. back[y] = z
      BY <2>1, <2>7, <2>8, <2>9
    <2> QED BY <2>5, <2>6, <2>10
  <1>21. IsFiniteSet(S) /\ Cardinality(S) = Cardinality(T \ R)
    BY ZenonT(40), <1>12, <1>18, <1>19, <1>20, SameSize
  <1> QED BY <1>2, <1>8, <1>9, <1>12, <1>13, <1>21

LEMMA AlignNat == \A s \in Nat : AlignUp(s) \in Nat
  <1>1. \A n \in Nat, d \in Nat \ {0} : n \div d \in Nat
    OBVIOUS
  <1> SUFFICES ASSUME NEW s \in Nat PROVE AlignUp(s) \in Nat
    OBVIOUS
  <1>2. PICK u \in Nat \ {0} : u = MemUnit
    BY MemConstants
  <1>3. s + u - 1 \in Nat
    OBVIOUS
  <1>4. PICK q \in Nat : q = (s + u - 1) \div u
    BY <1>1, <1>3
  <1>5. q * u \in Nat
    OBVIOUS
  <1> QED BY <1>2, <1>4, <1>5 DEF AlignUp

LEMMA FindBaseIs ==
    ASSUME NEW n \in Nat, n = Len(memTable), DOMAIN memTable = 1 .. n, NEW b
    PROVE  \/ FindBase(b) = 0 /\ \A i \in 1 .. n : memTable[i].base # b
           \/ /\ FindBase(b) \in 1 .. n /\ FindBase(b) # 0 /\ memTable[FindBase(b)].base = b
              /\ \A j \in 1 .. n : memTable[j].base = b => FindBase(b) <= j
  <1>1. PICK hits : hits = {i \in DOMAIN memTable : memTable[i].base = b}
    OBVIOUS
  <1>2. CASE hits = {}
    BY <1>1, <1>2 DEF FindBase
  <1>3. CASE hits # {}
    <2>1. hits \in SUBSET Nat
      BY <1>1
    <2>2. \E i \in hits : \A j \in hits : i <= j
      BY <1>3, <2>1, LeastOf
    <2>3. FindBase(b) = CHOOSE i \in hits : \A j \in hits : i <= j
      BY <1>1, <1>3 DEF FindBase
    <2>4. FindBase(b) \in hits /\ \A j \in hits : FindBase(b) <= j
      BY <2>2, <2>3
    <2>5. FindBase(b) \in 1 .. n /\ memTable[FindBase(b)].base = b
      BY <1>1, <2>4
    <2>6. \A j \in 1 .. n : memTable[j].base = b => FindBase(b) <= j
      BY <1>1, <2>4
    <2> QED BY <2>5, <2>6
  <1> QED BY <1>2, <1>3

LEMMA RowsEmpty == IsFiniteSet(Rows(<<>>)) /\ Cardinality(Rows(<<>>)) = 0
  <1>1. Rows(<<>>) = {}
    BY DEF Rows
  <1> QED BY <1>1, FS_EmptySet

LEMMA MemTypeInvInit == MemoryInit => MemTypeInv
  <1> SUFFICES ASSUME MemoryInit PROVE MemTypeInv
    OBVIOUS
  <1>1. memTable = <<>> /\ <<>> \in Seq(Region) /\ Len(<<>>) = 0 /\ memCount = 0 /\ memReserved = 0
    BY EmptySeq DEF MemoryInit
  <1>2. memCall \in [MemThreads -> [op : {"none", "Reserve", "Map", "Commit", "Protect", "Unmap"},
                                    base : 0 .. MemPages, size : Nat, prot : Prots]]
    BY MemConstants DEF MemoryInit, NoCall, Prots
  <1>3. \A t \in MemThreads : memCall[t].op = "none"
    BY DEF MemoryInit, NoCall
  <1> QED BY <1>1, <1>2, <1>3, RowsEmpty DEF MemoryInit, MemTypeInv

Call(op, b, s, prot) == [op |-> op, base |-> b, size |-> s, prot |-> prot]

CallsTyped(calls) ==
    /\ calls \in [MemThreads -> [op : {"none", "Reserve", "Map", "Commit", "Protect", "Unmap"},
                                 base : 0 .. MemPages, size : Nat, prot : Prots]]
    /\ \A t \in MemThreads : calls[t].op # "none" => calls[t].base \in Addresses /\ calls[t].size \in MemSizes

LEMMA CallBegun ==
    ASSUME CallsTyped(memCall), NEW t \in MemThreads, NEW b \in Addresses, NEW s \in MemSizes, NEW prot \in Prots,
           NEW op \in {"Reserve", "Map", "Commit", "Protect", "Unmap"},
           memCall' = [memCall EXCEPT ![t] = Call(op, b, s, prot)]
    PROVE  CallsTyped(memCall')
  <1>1. b \in 0 .. MemPages /\ s \in Nat
    BY MemConstants DEF Addresses
  <1>2. PICK c : c = Call(op, b, s, prot)
    OBVIOUS
  <1>3. c \in [op : {"none", "Reserve", "Map", "Commit", "Protect", "Unmap"}, base : 0 .. MemPages, size : Nat, prot : Prots]
        /\ c.base = b /\ c.size = s
    BY <1>1, <1>2 DEF Call
  <1>4. memCall' = [memCall EXCEPT ![t] = c]
    BY <1>2
  <1> QED BY <1>3, <1>4 DEF CallsTyped

LEMMA CallEnded ==
    ASSUME CallsTyped(memCall), NEW t \in MemThreads, memCall' = [memCall EXCEPT ![t] = NoCall]
    PROVE  CallsTyped(memCall')
  <1>1. NoCall \in [op : {"none", "Reserve", "Map", "Commit", "Protect", "Unmap"}, base : 0 .. MemPages, size : Nat, prot : Prots]
        /\ NoCall.op = "none"
    BY MemConstants DEF NoCall, Prots
  <1> QED BY <1>1 DEF CallsTyped

LEMMA PagesSet ==
    ASSUME NEW pages, NEW prot \in Prots \cup {NotMapped}, memOs \in [Addresses -> Prots \cup {NotMapped}],
           SetPages(pages, prot)
    PROVE  memOs' \in [Addresses -> Prots \cup {NotMapped}]
  BY DEF SetPages

\* A call that has changed the address space and not yet the table.
LEMMA SystemCallKeepsTypes ==
    ASSUME MemTypeInv, NEW t \in MemThreads, NEW b \in Addresses, NEW s \in MemSizes, NEW prot \in Prots,
           NEW op \in {"Reserve", "Map", "Commit", "Protect", "Unmap"},
           memCall' = [memCall EXCEPT ![t] = Call(op, b, s, prot)],
           NEW pages, NEW q \in Prots \cup {NotMapped}, SetPages(pages, q),
           memHeld' \subseteq memHeld, UNCHANGED <<memTable, memReserved, memCount>>
    PROVE  MemTypeInv'
  <1>1. CallsTyped(memCall)
    BY DEF MemTypeInv, CallsTyped
  <1>2. CallsTyped(memCall')
    BY <1>1, CallBegun
  <1>3. memOs' \in [Addresses -> Prots \cup {NotMapped}]
    BY PagesSet DEF MemTypeInv
  <1> QED BY <1>2, <1>3 DEF MemTypeInv, CallsTyped, Rows

LEMMA TableAddTypes == ASSUME MemTypeInv, NEW t \in MemThreads, TableAdd(t) PROVE MemTypeInv'
  <1>1. PICK r : r = [base |-> memCall[t].base, size |-> AlignUp(memCall[t].size), prot |-> memCall[t].prot,
                      committed |-> memCall[t].op = "Map"]
    OBVIOUS
  <1>2. memCall[t].base \in Addresses /\ memCall[t].size \in MemSizes /\ memCall[t].prot \in Prots
    BY DEF MemTypeInv, TableAdd
  <1>3. AlignUp(memCall[t].size) \in Nat
    BY <1>2, MemConstants, AlignNat
  <1>4. r \in Region /\ r.size \in Nat
    BY <1>1, <1>2, <1>3 DEF Region
  <1>5. memTable' = Append(memTable, r) /\ memCount' = memCount + 1 /\ memReserved' = memReserved + r.size
    BY <1>1 DEF TableAdd, AddRegion
  <1>6. memTable \in Seq(Region) /\ IsFiniteSet(Rows(memTable)) /\ memReserved = Cardinality(Rows(memTable)) /\ memCount = Len(memTable)
    BY DEF MemTypeInv
  <1>7. memTable' \in Seq(Region) /\ Len(memTable') = Len(memTable) + 1
    BY <1>4, <1>5, <1>6, AppendProperties
  <1>8. IsFiniteSet(Rows(memTable')) /\ memReserved' = Cardinality(Rows(memTable'))
    BY <1>4, <1>5, <1>6, RowsAppended
  <1>9. CallsTyped(memCall')
    <2>1. CallsTyped(memCall)
      BY DEF MemTypeInv, CallsTyped
    <2> QED BY <2>1, CallEnded DEF TableAdd
  <1>10. memHeld' \subseteq [base : Addresses, size : MemSizes]
    BY <1>2 DEF MemTypeInv, TableAdd
  <1> QED BY <1>5, <1>6, <1>7, <1>8, <1>9, <1>10 DEF MemTypeInv, CallsTyped, TableAdd, Rows

LEMMA TableUpdateIs ==
    ASSUME MemTypeInv, NEW t \in MemThreads, TableUpdate(t), NEW n \in Nat, n = Len(memTable)
    PROVE  /\ memTable' \in Seq(Region) /\ Len(memTable') = n
           /\ \A i \in 1 .. n : memTable'[i].base = memTable[i].base /\ memTable'[i].size = memTable[i].size
  <1>1. memTable \in Seq(Region) /\ memCall[t].prot \in Prots /\ memCall[t].op \in {"Commit", "Protect"}
    BY DEF MemTypeInv, TableUpdate
  <1>2. DOMAIN memTable = 1 .. n
    BY <1>1
  <1>3. PICK i : i = FindBase(memCall[t].base)
    OBVIOUS
  <1>4. memTable' = IF i = 0 THEN memTable
                    ELSE [memTable EXCEPT ![i].prot = memCall[t].prot, ![i].committed = @ \/ memCall[t].op = "Commit"]
    BY <1>3 DEF TableUpdate
  <1>5. CASE i = 0
    BY <1>1, <1>4, <1>5
  <1>6. CASE i # 0
    <2>1. i \in 1 .. n
      BY <1>2, <1>3, <1>6, FindBaseIs
    <2>2. memTable[i] \in Region
      BY <1>1, <2>1
    <2>3. PICK r : r = [memTable[i] EXCEPT !.prot = memCall[t].prot, !.committed = @ \/ memCall[t].op = "Commit"]
      OBVIOUS
    <2>4. r \in Region /\ r.base = memTable[i].base /\ r.size = memTable[i].size
      BY <1>1, <2>2, <2>3 DEF Region
    <2>5. memTable' = [memTable EXCEPT ![i] = r]
      BY <1>1, <1>2, <1>4, <1>6, <2>1, <2>3
    <2>6. memTable' \in Seq(Region) /\ Len(memTable') = n
      BY <1>1, <2>1, <2>4, <2>5, ExceptSeq
    <2>7. \A j \in 1 .. n : memTable'[j] = IF j = i THEN r ELSE memTable[j]
      BY <1>2, <2>1, <2>5
    <2> QED BY <2>4, <2>6, <2>7
  <1> QED BY <1>5, <1>6

LEMMA SameRows ==
    ASSUME NEW n \in Nat, NEW t, NEW s, Len(t) = n, Len(s) = n,
           \A i \in 1 .. n : s[i].base = t[i].base /\ s[i].size = t[i].size
    PROVE  Rows(s) = Rows(t)
  <1>1. \A i \in 1 .. n : RegionPages(s[i]) = RegionPages(t[i])
    BY DEF RegionPages
  <1> QED BY <1>1 DEF Rows

LEMMA TableUpdateTypes == ASSUME MemTypeInv, NEW t \in MemThreads, TableUpdate(t) PROVE MemTypeInv'
  <1>1. PICK n \in Nat : n = Len(memTable)
    BY LenProperties DEF MemTypeInv
  <1>2. /\ memTable' \in Seq(Region) /\ Len(memTable') = n
        /\ \A i \in 1 .. n : memTable'[i].base = memTable[i].base /\ memTable'[i].size = memTable[i].size
    BY <1>1, TableUpdateIs
  <1>3. Rows(memTable') = Rows(memTable)
    BY <1>1, <1>2, SameRows
  <1>4. CallsTyped(memCall')
    <2>1. CallsTyped(memCall)
      BY DEF MemTypeInv, CallsTyped
    <2> QED BY <2>1, CallEnded DEF TableUpdate
  <1>5. UNCHANGED <<memOs, memReserved, memCount, memHeld>>
    BY DEF TableUpdate
  <1>6. Rows(memTable)' = Rows(memTable)
    BY <1>3 DEF Rows
  <1> QED BY <1>1, <1>2, <1>4, <1>5, <1>6 DEF MemTypeInv, CallsTyped

LEMMA TableRemoveTypes == ASSUME MemTypeInv, NEW t \in MemThreads, TableRemove(t) PROVE MemTypeInv'
  <1>1. memTable \in Seq(Region) /\ IsFiniteSet(Rows(memTable)) /\ memReserved = Cardinality(Rows(memTable)) /\ memCount = Len(memTable)
    BY DEF MemTypeInv
  <1>2. PICK n \in Nat : n = Len(memTable) /\ DOMAIN memTable = 1 .. n
    BY <1>1, LenProperties
  <1>3. PICK i : i = FindBase(memCall[t].base)
    OBVIOUS
  <1>4. /\ memTable' = IF i = 0 THEN memTable ELSE RemoveAt(memTable, i)
        /\ memCount' = IF i = 0 THEN memCount ELSE memCount - 1
        /\ memReserved' = IF i = 0 THEN memReserved ELSE memReserved - memTable[i].size
    BY <1>3 DEF TableRemove, RemoveRegion
  <1>5. memTable' \in Seq(Region) /\ memCount' = Len(memTable') /\ IsFiniteSet(Rows(memTable')) /\ memReserved' = Cardinality(Rows(memTable'))
    <2>1. CASE i = 0
      BY <1>1, <1>4, <2>1
    <2>2. CASE i # 0
      <3>1. i \in 1 .. n
        BY <1>2, <1>3, <2>2, FindBaseIs
      <3>2. PICK s : s = RemoveAt(memTable, i)
        OBVIOUS
      <3>3. s \in Seq(Region) /\ \E sh : Shifted(memTable, s, n, i, sh)
        BY <1>1, <1>2, <3>1, <3>2, RemoveAtIs
      <3>4. Len(s) = n - 1
        BY <3>3 DEF Shifted
      <3>5. IsFiniteSet(Rows(s)) /\ Cardinality(Rows(s)) = Cardinality(Rows(memTable)) - memTable[i].size
        BY <1>1, <1>2, <3>1, <3>2, RowsRemoved
      <3> QED BY <1>1, <1>2, <1>4, <2>2, <3>2, <3>3, <3>4, <3>5
    <2> QED BY <2>1, <2>2
  <1>6. CallsTyped(memCall')
    <2>1. CallsTyped(memCall)
      BY DEF MemTypeInv, CallsTyped
    <2> QED BY <2>1, CallEnded DEF TableRemove
  <1>7. Rows(memTable)' = Rows(memTable')
    BY DEF Rows
  <1> QED BY <1>5, <1>6, <1>7 DEF MemTypeInv, CallsTyped, TableRemove

LEMMA MemoryResetTypes == ASSUME MemTypeInv, MemoryReset PROVE MemTypeInv'
  <1>1. memOs' \in [Addresses -> Prots \cup {NotMapped}]
    BY DEF MemoryReset, SetPages, MemTypeInv
  <1>2. memTable' = <<>> /\ memReserved' = 0 /\ memCount' = 0 /\ memHeld' = {} /\ memCall' = memCall
    BY DEF MemoryReset
  <1>3. <<>> \in Seq(Region) /\ Len(<<>>) = 0
    BY EmptySeq
  <1>4. Rows(memTable)' = Rows(<<>>)
    BY <1>2 DEF Rows
  <1> QED BY <1>1, <1>2, <1>3, <1>4, RowsEmpty DEF MemTypeInv

LEMMA MemTypeInvInductive == MemTypeInv /\ [MemoryNext]_memVars => MemTypeInv'
  <1> SUFFICES ASSUME MemTypeInv, [MemoryNext]_memVars PROVE MemTypeInv'
    OBVIOUS
  <1>1. ASSUME NEW t \in MemThreads, NEW b \in Addresses, NEW s \in MemSizes, NEW prot \in Prots,
               NEW op \in {"Reserve", "Map"}, MapPages(t, op, b, s, prot)
        PROVE  MemTypeInv'
    <2>1. memCall' = [memCall EXCEPT ![t] = Call(op, b, s, prot)] /\ SetPages(Span(b, AlignUp(s)), prot)
          /\ UNCHANGED <<memTable, memReserved, memCount, memHeld>>
      BY <1>1 DEF MapPages, Call
    <2> QED BY <2>1, SystemCallKeepsTypes
  <1>2. "None" \in Prots
    BY DEF Prots
  <1>3. ASSUME NEW t \in MemThreads, NEW h \in Usable, Unmap(t, h) PROVE MemTypeInv'
    <2>1. h.base \in Addresses /\ h.size \in MemSizes
      BY DEF Usable, MemTypeInv
    <2>2. memCall' = [memCall EXCEPT ![t] = Call("Unmap", h.base, h.size, "None")] /\ SetPages(Span(h.base, h.size), NotMapped)
          /\ memHeld' \subseteq memHeld /\ UNCHANGED <<memTable, memReserved, memCount>>
      BY <1>3 DEF Unmap, Call
    <2> QED BY <1>2, <2>1, <2>2, SystemCallKeepsTypes
  <1>4. ASSUME NEW t \in MemThreads, NEW h \in Usable, NEW prot \in Prots, Commit(t, h, prot) \/ Protect(t, h, prot) PROVE MemTypeInv'
    <2>1. h.base \in Addresses /\ h.size \in MemSizes
      BY DEF Usable, MemTypeInv
    <2>2. PICK op, pages : /\ op \in {"Commit", "Protect"}
                           /\ memCall' = [memCall EXCEPT ![t] = Call(op, h.base, h.size, prot)]
                           /\ SetPages(pages, prot)
                           /\ memHeld' \subseteq memHeld /\ UNCHANGED <<memTable, memReserved, memCount>>
      BY <1>4 DEF Commit, Protect, Call
    <2> QED BY <2>1, <2>2, SystemCallKeepsTypes
  <1>5. ASSUME NEW t \in MemThreads, TableAdd(t) \/ TableUpdate(t) \/ TableRemove(t) PROVE MemTypeInv'
    BY <1>5, TableAddTypes, TableUpdateTypes, TableRemoveTypes
  <1>6. CASE MemoryReset
    BY <1>6, MemoryResetTypes
  <1>7. CASE UNCHANGED memVars
    BY <1>7 DEF memVars, MemTypeInv, Rows
  <1>8. ASSUME NEW t \in MemThreads, NEW b \in Addresses, NEW s \in MemSizes, Reserve(t, b, s) PROVE MemTypeInv'
    BY <1>1, <1>2, <1>8 DEF Reserve
  <1>9. ASSUME NEW t \in MemThreads, NEW b \in Addresses, NEW s \in MemSizes, NEW prot \in Prots, Map(t, b, s, prot) PROVE MemTypeInv'
    BY <1>1, <1>9 DEF Map
  <1> QED BY <1>3, <1>4, <1>5, <1>6, <1>7, <1>8, <1>9 DEF MemoryNext

-----------------------------------------------------------------------------
(* What the mapped pages belong to, while callers ask for whole pages: a    *)
(* region someone holds, or one that was mapped and is not in the table yet.*)
Arriving == {t \in MemThreads : memCall[t].op \in {"Reserve", "Map"}}

Claims == {<<{}, h.base, h.size>> : h \in memHeld}
          \cup {<<{t}, memCall[t].base, memCall[t].size>> : t \in Arriving}

ClaimPages(c) == Span(c[2], c[3])

\* The claims lie side by side and make up the pages.
Tiled(claims, pages) ==
    /\ \A c \in claims : ClaimPages(c) \subseteq pages
    /\ \A c, d \in claims : c # d => ClaimPages(c) \cap ClaimPages(d) = {}
    /\ \A p \in pages : \E c \in claims : p \in ClaimPages(c)

\* The table's entries with a base, and the threads that are still to remove one of them.
Hits(t, b) == {i \in 1 .. Len(t) : t[i].base = b}
Leaving(calls, b) == {t \in MemThreads : calls[t].op = "Unmap" /\ calls[t].base = b}

HeldBases == {h.base : h \in memHeld}

\* A base has one entry for its holder and one for each thread that has yet to remove one,
\* and the holder's is the last of them.
Counted == \A b \in Addresses :
    Cardinality(Hits(memTable, b)) = Cardinality(Leaving(memCall, b)) + (IF b \in HeldBases THEN 1 ELSE 0)

LiveLast == \A h \in memHeld : \E i \in 1 .. Len(memTable) :
    /\ memTable[i].base = h.base /\ memTable[i].size = h.size
    /\ \A j \in Hits(memTable, h.base) : j <= i

MemTables == Tiled(Claims, MappedPages) /\ Counted /\ LiveLast

LEMMA TiledAdd ==
    ASSUME NEW claims, NEW pages, Tiled(claims, pages), NEW c, ClaimPages(c) \cap pages = {}
    PROVE  Tiled(claims \cup {c}, pages \cup ClaimPages(c))
  BY DEF Tiled

LEMMA TiledDrop ==
    ASSUME NEW claims, NEW pages, Tiled(claims, pages), NEW c \in claims
    PROVE  Tiled(claims \ {c}, pages \ ClaimPages(c))
  <1>1. \A d \in claims \ {c} : ClaimPages(d) \subseteq pages \ ClaimPages(c)
    BY DEF Tiled
  <1>2. \A d, e \in claims \ {c} : d # e => ClaimPages(d) \cap ClaimPages(e) = {}
    BY DEF Tiled
  <1>3. \A p \in pages \ ClaimPages(c) : \E d \in claims \ {c} : p \in ClaimPages(d)
    BY DEF Tiled
  <1> QED BY <1>1, <1>2, <1>3 DEF Tiled

LEMMA TiledMove ==
    ASSUME NEW claims, NEW pages, Tiled(claims, pages), NEW c \in claims, NEW d, ClaimPages(d) = ClaimPages(c)
    PROVE  Tiled((claims \ {c}) \cup {d}, pages)
  <1>1. \A e \in (claims \ {c}) \cup {d} : ClaimPages(e) \subseteq pages
    BY DEF Tiled
  <1>2. \A e, f \in (claims \ {c}) \cup {d} : e # f => ClaimPages(e) \cap ClaimPages(f) = {}
    BY DEF Tiled
  <1>3. \A p \in pages : \E e \in (claims \ {c}) \cup {d} : p \in ClaimPages(e)
    <2> SUFFICES ASSUME NEW p \in pages PROVE \E e \in (claims \ {c}) \cup {d} : p \in ClaimPages(e)
      OBVIOUS
    <2>1. PICK e \in claims : p \in ClaimPages(e)
      BY DEF Tiled
    <2> QED BY <2>1
  <1> QED BY <1>1, <1>2, <1>3 DEF Tiled

\* Rounding keeps a whole number of pages.
LEMMA AlignWhole == ASSUME WholePages PROVE \A s \in MemSizes : AlignUp(s) = s
  <1> SUFFICES ASSUME NEW s \in MemSizes PROVE AlignUp(s) = s
    OBVIOUS
  <1>1. PICK u \in Nat \ {0} : u = MemUnit
    BY MemConstants
  <1>2. PICK n \in Nat : n = s
    BY MemConstants
  <1>3. (n % u) = 0
    BY <1>1, <1>2 DEF WholePages
  <1>4. \A k \in Nat, d \in Nat \ {0} : /\ k \div d \in Nat /\ (k % d) \in Nat /\ (k % d) < d
                                        /\ k = d * (k \div d) + (k % d)
    OBVIOUS
  <1>5. PICK q \in Nat : q = n \div u
    BY <1>4
  <1>6. n = u * q
    BY <1>3, <1>4, <1>5
  <1>7. n + u - 1 \in Nat
    OBVIOUS
  <1>8. PICK m \in Nat : m = n + u - 1
    BY <1>7
  <1>9. PICK r \in Nat : r = m \div u
    BY <1>4
  <1>10. PICK e \in Nat : e = (m % u) /\ e < u /\ m = u * r + e
    BY <1>4, <1>8, <1>9
  <1>11. r = q
    <2>1. u * r + e = u * q + u - 1
      BY <1>6, <1>8, <1>10
    <2>2. PICK d \in Int : d = r - q
      OBVIOUS
    <2>3. u * d = u - 1 - e
      <3>1. u * d = u * r - u * q
        BY <2>2
      <3>2. u * r \in Int /\ u * q \in Int
        OBVIOUS
      <3> QED BY <2>1, <3>1, <3>2
    <2>4. u * d >= 0 /\ u * d < u
      BY <1>10, <2>3
    <2>5. ~(d >= 1)
      <3> SUFFICES ASSUME d >= 1 PROVE FALSE
        OBVIOUS
      <3>1. u * d >= u
        OBVIOUS
      <3> QED BY <2>4, <3>1
    <2>6. ~(d <= -1)
      <3> SUFFICES ASSUME d <= -1 PROVE FALSE
        OBVIOUS
      <3>1. u * d <= -u
        OBVIOUS
      <3> QED BY <2>4, <3>1
    <2> QED BY <2>2, <2>5, <2>6
  <1>12. r * u = n
    BY <1>6, <1>11
  <1> QED BY <1>1, <1>2, <1>8, <1>9, <1>12 DEF AlignUp

\* A region of at least one page contains its first.
LEMMA BaseInPages == ASSUME NEW b \in Nat, NEW s \in MemSizes PROVE b \in Span(b, s) /\ Span(b, s) \subseteq Nat
  BY MemConstants DEF Span

LEMMA LeavingFinite == \A b : IsFiniteSet(Leaving(memCall, b)) /\ Cardinality(Leaving(memCall, b)) \in Nat
  <1> SUFFICES ASSUME NEW b PROVE IsFiniteSet(Leaving(memCall, b)) /\ Cardinality(Leaving(memCall, b)) \in Nat
    OBVIOUS
  <1>1. Leaving(memCall, b) \in SUBSET MemThreads
    BY DEF Leaving
  <1> QED BY <1>1, MemConstants, FS_Subset, FS_CardinalityType

LEMMA HitsFinite ==
    ASSUME NEW t, NEW n \in Nat, Len(t) = n, NEW b
    PROVE  IsFiniteSet(Hits(t, b)) /\ Cardinality(Hits(t, b)) \in Nat
  <1>1. Hits(t, b) \in SUBSET (1 .. n)
    BY DEF Hits
  <1>2. 1 \in Int /\ n \in Int
    OBVIOUS
  <1>3. IsFiniteSet(1 .. n)
    BY <1>2, FS_Interval
  <1> QED BY <1>1, <1>3, FS_Subset, FS_CardinalityType

-----------------------------------------------------------------------------
\* What a call under way says of its thread.
LEMMA CallsNow ==
    ASSUME MemTypeInv, NEW t \in MemThreads, NEW c, memCall' = [memCall EXCEPT ![t] = c]
    PROVE  memCall'[t] = c /\ \A u \in MemThreads : u # t => memCall'[u] = memCall[u]
  BY DEF MemTypeInv

LEMMA ArrivesTables ==
    ASSUME MemTypeInv, MemTables, WholePages, NEW t \in MemThreads, NEW b \in Addresses, NEW s \in MemSizes,
           NEW prot \in Prots, NEW op \in {"Reserve", "Map"}, MapPages(t, op, b, s, prot)
    PROVE  MemTables'
  <1>1. AlignUp(s) = s
    BY AlignWhole
  <1>2. /\ Span(b, s) \subseteq Addresses \ MappedPages /\ memCall[t] = NoCall
        /\ memOs' = [p \in Addresses |-> IF p \in Span(b, s) THEN prot ELSE memOs[p]]
        /\ memTable' = memTable /\ memHeld' = memHeld
    BY <1>1 DEF MapPages, SetPages
  <1>3. PICK c : c = [op |-> op, base |-> b, size |-> s, prot |-> prot]
    OBVIOUS
  <1>4. c.op = op /\ c.base = b /\ c.size = s
    BY <1>3
  <1>5. memCall' = [memCall EXCEPT ![t] = c]
    BY <1>3 DEF MapPages
  <1>6. memCall'[t] = c /\ \A u \in MemThreads : u # t => memCall'[u] = memCall[u]
    BY <1>5, CallsNow
  <1>7. Arriving' = Arriving \cup {t} /\ t \notin Arriving
    BY <1>2, <1>4, <1>6 DEF Arriving, NoCall
  <1>8. PICK k : k = <<{t}, b, s>>
    OBVIOUS
  <1>9. Claims' = Claims \cup {k}
    <2>1. \A u \in Arriving : <<{u}, memCall'[u].base, memCall'[u].size>> = <<{u}, memCall[u].base, memCall[u].size>>
      BY <1>6, <1>7 DEF Arriving
    <2>2. <<{t}, memCall'[t].base, memCall'[t].size>> = k
      BY <1>4, <1>6, <1>8
    <2>3. PICK old : old = {<<{u}, memCall[u].base, memCall[u].size>> : u \in Arriving}
      OBVIOUS
    <2>4. {<<{u}, memCall'[u].base, memCall'[u].size>> : u \in Arriving \cup {t}} = old \cup {k}
      BY <2>1, <2>2, <2>3
    <2>5. PICK held : held = {<<{}, h.base, h.size>> : h \in memHeld}
      OBVIOUS
    <2>6. Claims = held \cup old
      BY <2>3, <2>5 DEF Claims
    <2>7. Claims' = held \cup (old \cup {k})
      BY <1>2, <1>7, <2>4, <2>5 DEF Claims
    <2> QED BY <2>6, <2>7
  <1>10. ClaimPages(k) = Span(b, s)
    BY <1>8 DEF ClaimPages
  <1>11. MappedPages' = MappedPages \cup ClaimPages(k)
    BY <1>2, <1>10 DEF MappedPages, Prots, NotMapped
  <1>12. Tiled(Claims', MappedPages')
    BY <1>2, <1>9, <1>10, <1>11, TiledAdd DEF MemTables
  <1>13. \A x : Leaving(memCall', x) = Leaving(memCall, x)
    BY <1>2, <1>4, <1>6 DEF Leaving, NoCall
  <1>14. Counted'
    BY <1>2, <1>13 DEF Counted, MemTables, HeldBases
  <1>15. LiveLast'
    BY <1>2 DEF LiveLast, MemTables
  <1> QED BY <1>12, <1>14, <1>15 DEF MemTables

\* A region that is still on its way to the table has a base nobody holds.
LEMMA ArrivingNotHeld ==
    ASSUME MemTypeInv, MemTables, NEW t \in Arriving
    PROVE  memCall[t].base \notin HeldBases
  <1> SUFFICES ASSUME NEW h \in memHeld, h.base = memCall[t].base PROVE FALSE
    BY DEF HeldBases
  <1>1. h.base \in Nat /\ h.size \in MemSizes /\ memCall[t].size \in MemSizes
    BY MemConstants DEF MemTypeInv, Arriving
  <1>2. PICK c, d : c = <<{}, h.base, h.size>> /\ d = <<{t}, memCall[t].base, memCall[t].size>>
    OBVIOUS
  <1>3. c \in Claims /\ d \in Claims /\ c # d
    BY <1>2 DEF Claims
  <1>4. ClaimPages(c) \cap ClaimPages(d) = {}
    BY <1>3 DEF MemTables, Tiled
  <1>5. h.base \in ClaimPages(c) /\ h.base \in ClaimPages(d)
    BY <1>1, <1>2, BaseInPages DEF ClaimPages
  <1> QED BY <1>4, <1>5

\* Two held regions have different bases.
LEMMA HeldApart ==
    ASSUME MemTypeInv, MemTables, NEW h \in memHeld, NEW g \in memHeld, h.base = g.base
    PROVE  h = g
  <1>1. h \in [base : Addresses, size : MemSizes] /\ g \in [base : Addresses, size : MemSizes]
    BY DEF MemTypeInv
  <1>2. PICK c, d : c = <<{}, h.base, h.size>> /\ d = <<{}, g.base, g.size>>
    OBVIOUS
  <1>3. c \in Claims /\ d \in Claims
    BY <1>2 DEF Claims
  <1>4. h.base \in ClaimPages(c) /\ h.base \in ClaimPages(d)
    BY <1>1, <1>2, BaseInPages, MemConstants DEF ClaimPages
  <1>5. c = d
    BY <1>3, <1>4 DEF MemTables, Tiled
  <1>6. h.size = g.size
    BY <1>2, <1>5
  <1> QED BY <1>1, <1>6

LEMMA TableAddTables ==
    ASSUME MemTypeInv, MemTables, WholePages, NEW t \in MemThreads, TableAdd(t)
    PROVE  MemTables'
  <1>1. PICK b, s : b = memCall[t].base /\ s = memCall[t].size
    OBVIOUS
  <1>2. b \in Addresses /\ s \in MemSizes /\ t \in Arriving
    BY <1>1 DEF MemTypeInv, TableAdd, Arriving
  <1>3. AlignUp(s) = s
    BY <1>2, AlignWhole
  <1>4. PICK r : r = [base |-> b, size |-> s, prot |-> memCall[t].prot, committed |-> memCall[t].op = "Map"]
    OBVIOUS
  <1>5. r.base = b /\ r.size = s
    BY <1>4
  <1>6. PICK h : h = [base |-> b, size |-> s]
    OBVIOUS
  <1>7. memTable' = Append(memTable, r) /\ memHeld' = memHeld \cup {h} /\ memCall' = [memCall EXCEPT ![t] = NoCall]
        /\ memOs' = memOs
    BY <1>1, <1>3, <1>4, <1>6 DEF TableAdd, AddRegion
  <1>8. memCall'[t] = NoCall /\ \A u \in MemThreads : u # t => memCall'[u] = memCall[u]
    BY <1>7, CallsNow
  <1>9. Arriving' = Arriving \ {t}
    BY <1>8 DEF Arriving, NoCall
  <1>10. PICK c, d : c = <<{t}, b, s>> /\ d = <<{}, b, s>>
    OBVIOUS
  <1>11. Claims' = (Claims \ {c}) \cup {d}
    <2>1. PICK coming : coming = {<<{u}, memCall[u].base, memCall[u].size>> : u \in Arriving}
      OBVIOUS
    <2>2. PICK held : held = {<<{}, g.base, g.size>> : g \in memHeld}
      OBVIOUS
    <2>3. {<<{u}, memCall'[u].base, memCall'[u].size>> : u \in Arriving \ {t}}
            = {<<{u}, memCall[u].base, memCall[u].size>> : u \in Arriving \ {t}}
      BY <1>8 DEF Arriving
    <2>4. {<<{u}, memCall[u].base, memCall[u].size>> : u \in Arriving \ {t}} = coming \ {c}
      <3>1. \A u \in Arriving : <<{u}, memCall[u].base, memCall[u].size>> = c => u = t
        BY <1>10
      <3>2. <<{t}, memCall[t].base, memCall[t].size>> = c
        BY <1>1, <1>10
      <3> QED BY <2>1, <3>1, <3>2
    <2>5. {<<{}, g.base, g.size>> : g \in memHeld \cup {h}} = held \cup {d}
      BY <1>6, <1>10, <2>2
    <2>6. c \notin held
      BY <1>10, <2>2
    <2>7. Claims = held \cup coming
      BY <2>1, <2>2 DEF Claims
    <2>8. Claims' = (held \cup {d}) \cup (coming \ {c})
      BY <1>7, <1>9, <2>3, <2>4, <2>5 DEF Claims
    <2> QED BY <2>6, <2>7, <2>8
  <1>12. c \in Claims /\ ClaimPages(c) = ClaimPages(d)
    BY <1>1, <1>2, <1>10 DEF Claims, ClaimPages
  <1>13. Tiled(Claims', MappedPages')
    BY <1>7, <1>11, <1>12, TiledMove DEF MemTables, MappedPages
  <1>14. \A x : Leaving(memCall', x) = Leaving(memCall, x)
    BY <1>2, <1>8 DEF Leaving, NoCall, Arriving
  <1>15. b \notin HeldBases /\ HeldBases' = HeldBases \cup {b}
    <2>1. b \notin HeldBases
      BY <1>1, <1>2, ArrivingNotHeld
    <2>2. h.base = b
      BY <1>6
    <2> QED BY <1>7, <2>1, <2>2 DEF HeldBases
  <1>16. PICK n \in Nat : n = Len(memTable)
    BY LenProperties DEF MemTypeInv
  <1>17. Len(memTable') = n + 1 /\ memTable'[n + 1] = r /\ \A i \in 1 .. n : memTable'[i] = memTable[i]
    <2>1. r \in Region
      <3>1. memCall[t].prot \in Prots /\ s \in Nat
        BY <1>2, MemConstants DEF MemTypeInv
      <3> QED BY <1>2, <1>4, <3>1 DEF Region
    <2> QED BY <1>7, <1>16, <2>1, AppendProperties DEF MemTypeInv
  <1>18. 1 .. n + 1 = (1 .. n) \cup {n + 1} /\ n + 1 \notin 1 .. n
    OBVIOUS
  <1>19. \A x : Hits(memTable', x) = Hits(memTable, x) \cup (IF x = b THEN {n + 1} ELSE {}) /\ n + 1 \notin Hits(memTable, x)
    BY <1>5, <1>16, <1>17, <1>18 DEF Hits
  <1>20. Counted'
    <2> SUFFICES ASSUME NEW x \in Addresses
                 PROVE  Cardinality(Hits(memTable', x)) = Cardinality(Leaving(memCall', x)) + (IF x \in HeldBases' THEN 1 ELSE 0)
      BY DEF Counted
    <2>1. Cardinality(Hits(memTable, x)) = Cardinality(Leaving(memCall, x)) + (IF x \in HeldBases THEN 1 ELSE 0)
      BY DEF MemTables, Counted
    <2>2. CASE x # b
      <3>1. Hits(memTable', x) = Hits(memTable, x)
        BY <1>19, <2>2
      <3> QED BY <1>14, <1>15, <2>1, <2>2, <3>1
    <2>3. CASE x = b
      <3>1. IsFiniteSet(Hits(memTable, x)) /\ Cardinality(Hits(memTable, x)) \in Nat
        BY <1>16, HitsFinite
      <3>2. Hits(memTable', x) = Hits(memTable, x) \cup {n + 1} /\ n + 1 \notin Hits(memTable, x)
        BY <1>19, <2>3
      <3>3. Cardinality(Hits(memTable', x)) = Cardinality(Hits(memTable, x)) + 1
        BY <3>1, <3>2, FS_AddElement
      <3>4. Cardinality(Leaving(memCall, x)) \in Nat
        BY LeavingFinite
      <3> QED BY <1>14, <1>15, <2>1, <2>3, <3>1, <3>3, <3>4
    <2> QED BY <2>2, <2>3
  <1>21. LiveLast'
    <2> SUFFICES ASSUME NEW g \in memHeld'
                 PROVE  \E i \in 1 .. Len(memTable') : /\ memTable'[i].base = g.base /\ memTable'[i].size = g.size
                                                       /\ \A j \in Hits(memTable', g.base) : j <= i
      BY DEF LiveLast
    <2>1. CASE g = h
      <3>1. g.base = b /\ g.size = s
        BY <1>6, <2>1
      <3>2. \A j \in Hits(memTable', b) : j <= n + 1
        BY <1>17 DEF Hits
      <3>3. n + 1 \in 1 .. Len(memTable')
        BY <1>17
      <3> QED BY <1>5, <1>17, <3>1, <3>2, <3>3
    <2>2. CASE g \in memHeld
      <3>1. PICK i \in 1 .. n : /\ memTable[i].base = g.base /\ memTable[i].size = g.size
                                /\ \A j \in Hits(memTable, g.base) : j <= i
        BY <1>16, <2>2 DEF MemTables, LiveLast
      <3>2. g.base # b
        BY <1>15, <2>2 DEF HeldBases
      <3>3. Hits(memTable', g.base) = Hits(memTable, g.base)
        BY <1>19, <3>2
      <3>4. i \in 1 .. Len(memTable') /\ memTable'[i] = memTable[i]
        BY <1>17, <1>18
      <3> QED BY <3>1, <3>3, <3>4
    <2> QED BY <1>7, <2>1, <2>2
  <1> QED BY <1>13, <1>20, <1>21 DEF MemTables

-----------------------------------------------------------------------------
LEMMA HeldPagesMapped ==
    ASSUME MemTables, NEW h \in memHeld
    PROVE  Span(h.base, h.size) \subseteq MappedPages
  <1>1. PICK c : c = <<{}, h.base, h.size>>
    OBVIOUS
  <1>2. c \in Claims
    BY <1>1 DEF Claims
  <1>3. ClaimPages(c) = Span(h.base, h.size)
    BY <1>1 DEF ClaimPages
  <1> QED BY <1>2, <1>3 DEF MemTables, Tiled

\* Commit and Protect change the protection of pages that are mapped and stay so.
LEMMA ProtectionTables ==
    ASSUME MemTypeInv, MemTables, WholePages, NEW t \in MemThreads, NEW h \in Usable, NEW prot \in Prots,
           Commit(t, h, prot) \/ Protect(t, h, prot)
    PROVE  MemTables'
  <1>1. h \in memHeld /\ h.size \in MemSizes
    BY DEF Usable, MemTypeInv
  <1>2. AlignUp(h.size) = h.size
    BY <1>1, AlignWhole
  <1>3. PICK op \in {"Commit", "Protect"} :
           /\ memCall[t] = NoCall
           /\ memOs' = [p \in Addresses |-> IF p \in Span(h.base, h.size) THEN prot ELSE memOs[p]]
           /\ memCall' = [memCall EXCEPT ![t] = [op |-> op, base |-> h.base, size |-> h.size, prot |-> prot]]
           /\ memTable' = memTable /\ memHeld' = memHeld
    BY <1>2 DEF Commit, Protect, SetPages
  <1>4. Span(h.base, h.size) \subseteq MappedPages
    BY <1>1, HeldPagesMapped
  <1>5. MappedPages' = MappedPages
    BY <1>3, <1>4 DEF MappedPages, Prots, NotMapped
  <1>6. PICK c : c = [op |-> op, base |-> h.base, size |-> h.size, prot |-> prot]
    OBVIOUS
  <1>7. c.op = op
    BY <1>6
  <1>8. memCall'[t] = c /\ \A u \in MemThreads : u # t => memCall'[u] = memCall[u]
    BY <1>3, <1>6, CallsNow
  <1>9. Arriving' = Arriving /\ t \notin Arriving
    BY <1>3, <1>7, <1>8 DEF Arriving, NoCall
  <1>10. Claims' = Claims
    <2>1. \A u \in Arriving : <<{u}, memCall'[u].base, memCall'[u].size>> = <<{u}, memCall[u].base, memCall[u].size>>
      BY <1>8, <1>9 DEF Arriving
    <2> QED BY <1>3, <1>9, <2>1 DEF Claims
  <1>11. \A x : Leaving(memCall', x) = Leaving(memCall, x)
    BY <1>3, <1>7, <1>8 DEF Leaving, NoCall
  <1>12. Counted'
    BY <1>3, <1>11 DEF Counted, MemTables, HeldBases
  <1>13. LiveLast'
    BY <1>3 DEF LiveLast, MemTables
  <1> QED BY <1>5, <1>10, <1>12, <1>13 DEF MemTables

LEMMA TableUpdateTables ==
    ASSUME MemTypeInv, MemTables, NEW t \in MemThreads, TableUpdate(t)
    PROVE  MemTables'
  <1>1. PICK n \in Nat : n = Len(memTable)
    BY LenProperties DEF MemTypeInv
  <1>2. Len(memTable') = n
        /\ \A i \in 1 .. n : memTable'[i].base = memTable[i].base /\ memTable'[i].size = memTable[i].size
    BY <1>1, TableUpdateIs
  <1>3. \A x : Hits(memTable', x) = Hits(memTable, x)
    BY <1>1, <1>2 DEF Hits
  <1>4. memOs' = memOs /\ memHeld' = memHeld /\ memCall' = [memCall EXCEPT ![t] = NoCall]
        /\ memCall[t].op \in {"Commit", "Protect"}
    BY DEF TableUpdate
  <1>5. memCall'[t] = NoCall /\ \A u \in MemThreads : u # t => memCall'[u] = memCall[u]
    BY <1>4, CallsNow
  <1>6. Arriving' = Arriving /\ t \notin Arriving
    BY <1>4, <1>5 DEF Arriving, NoCall
  <1>7. Claims' = Claims
    <2>1. \A u \in Arriving : <<{u}, memCall'[u].base, memCall'[u].size>> = <<{u}, memCall[u].base, memCall[u].size>>
      BY <1>5, <1>6 DEF Arriving
    <2> QED BY <1>4, <1>6, <2>1 DEF Claims
  <1>8. Tiled(Claims', MappedPages')
    BY <1>4, <1>7 DEF MemTables, MappedPages
  <1>9. \A x : Leaving(memCall', x) = Leaving(memCall, x)
    BY <1>4, <1>5 DEF Leaving, NoCall
  <1>10. Counted'
    BY <1>3, <1>4, <1>9 DEF Counted, MemTables, HeldBases
  <1>11. LiveLast'
    <2> SUFFICES ASSUME NEW g \in memHeld
                 PROVE  \E i \in 1 .. Len(memTable') : /\ memTable'[i].base = g.base /\ memTable'[i].size = g.size
                                                       /\ \A j \in Hits(memTable', g.base) : j <= i
      BY <1>4 DEF LiveLast
    <2>1. PICK i \in 1 .. n : /\ memTable[i].base = g.base /\ memTable[i].size = g.size
                              /\ \A j \in Hits(memTable, g.base) : j <= i
      BY <1>1 DEF MemTables, LiveLast
    <2> QED BY <1>2, <1>3, <2>1
  <1> QED BY <1>8, <1>10, <1>11 DEF MemTables

LEMMA UnmapTables ==
    ASSUME MemTypeInv, MemTables, NEW t \in MemThreads, NEW h \in Usable, Unmap(t, h)
    PROVE  MemTables'
  <1>1. h \in memHeld /\ h.base \in Addresses /\ h.size \in MemSizes
    BY DEF Usable, MemTypeInv
  <1>2. /\ memCall[t] = NoCall
        /\ memOs' = [p \in Addresses |-> IF p \in Span(h.base, h.size) THEN NotMapped ELSE memOs[p]]
        /\ memHeld' = memHeld \ {h} /\ memTable' = memTable
    BY DEF Unmap, SetPages
  <1>3. PICK c : c = [op |-> "Unmap", base |-> h.base, size |-> h.size, prot |-> "None"]
    OBVIOUS
  <1>4. c.op = "Unmap" /\ c.base = h.base
    BY <1>3
  <1>5. memCall' = [memCall EXCEPT ![t] = c]
    BY <1>3 DEF Unmap
  <1>6. memCall'[t] = c /\ \A u \in MemThreads : u # t => memCall'[u] = memCall[u]
    BY <1>5, CallsNow
  <1>7. Arriving' = Arriving /\ t \notin Arriving
    BY <1>2, <1>4, <1>6 DEF Arriving, NoCall
  <1>8. PICK k : k = <<{}, h.base, h.size>>
    OBVIOUS
  <1>9. ClaimPages(k) = Span(h.base, h.size)
    BY <1>8 DEF ClaimPages
  <1>10. MappedPages' = MappedPages \ ClaimPages(k)
    BY <1>2, <1>9 DEF MappedPages
  <1>11. k \in Claims
    BY <1>1, <1>8 DEF Claims
  <1>12. Claims' = Claims \ {k}
    <2>1. PICK held : held = {<<{}, g.base, g.size>> : g \in memHeld}
      OBVIOUS
    <2>2. PICK coming : coming = {<<{u}, memCall[u].base, memCall[u].size>> : u \in Arriving}
      OBVIOUS
    <2>3. {<<{u}, memCall'[u].base, memCall'[u].size>> : u \in Arriving} = coming
      BY <1>6, <1>7, <2>2 DEF Arriving
    <2>4. \A g \in memHeld : <<{}, g.base, g.size>> = k => g = h
      <3> SUFFICES ASSUME NEW g \in memHeld, <<{}, g.base, g.size>> = k PROVE g = h
        OBVIOUS
      <3>1. g.base = h.base
        BY <1>8
      <3> QED BY <1>1, <3>1, HeldApart
    <2>5. {<<{}, g.base, g.size>> : g \in memHeld \ {h}} = held \ {k}
      BY <1>8, <2>1, <2>4
    <2>6. k \notin coming
      BY <1>8, <2>2
    <2>7. Claims = held \cup coming
      BY <2>1, <2>2 DEF Claims
    <2>8. Claims' = (held \ {k}) \cup coming
      BY <1>2, <1>7, <2>3, <2>5 DEF Claims
    <2> QED BY <2>6, <2>7, <2>8
  <1>13. Tiled(Claims', MappedPages')
    BY <1>10, <1>11, <1>12, TiledDrop DEF MemTables
  <1>14. HeldBases' = HeldBases \ {h.base} /\ h.base \in HeldBases
    <2>1. \A g \in memHeld : g.base = h.base => g = h
      BY <1>1, HeldApart
    <2> QED BY <1>1, <1>2, <2>1 DEF HeldBases
  <1>15. \A x : Leaving(memCall', x) = Leaving(memCall, x) \cup (IF x = h.base THEN {t} ELSE {}) /\ t \notin Leaving(memCall, x)
    BY <1>2, <1>4, <1>6 DEF Leaving, NoCall
  <1>16. Counted'
    <2> SUFFICES ASSUME NEW x \in Addresses
                 PROVE  Cardinality(Hits(memTable, x)) = Cardinality(Leaving(memCall', x)) + (IF x \in HeldBases' THEN 1 ELSE 0)
      BY <1>2 DEF Counted
    <2>1. Cardinality(Hits(memTable, x)) = Cardinality(Leaving(memCall, x)) + (IF x \in HeldBases THEN 1 ELSE 0)
      BY DEF MemTables, Counted
    <2>2. CASE x # h.base
      BY <1>14, <1>15, <2>1, <2>2
    <2>3. CASE x = h.base
      <3>1. IsFiniteSet(Leaving(memCall, x)) /\ Cardinality(Leaving(memCall, x)) \in Nat
        BY LeavingFinite
      <3>2. Leaving(memCall', x) = Leaving(memCall, x) \cup {t} /\ t \notin Leaving(memCall, x)
        BY <1>15, <2>3
      <3>3. Cardinality(Leaving(memCall', x)) = Cardinality(Leaving(memCall, x)) + 1
        BY <3>1, <3>2, FS_AddElement
      <3> QED BY <1>14, <2>1, <2>3, <3>1, <3>3
    <2> QED BY <2>2, <2>3
  <1>17. LiveLast'
    BY <1>2 DEF LiveLast, MemTables
  <1> QED BY <1>13, <1>16, <1>17 DEF MemTables

LEMMA TableRemoveTables ==
    ASSUME MemTypeInv, MemTables, NEW t \in MemThreads, TableRemove(t)
    PROVE  MemTables'
  <1>1. PICK b : b = memCall[t].base
    OBVIOUS
  <1>2. b \in Addresses /\ memCall[t].op = "Unmap"
    BY <1>1 DEF MemTypeInv, TableRemove
  <1>3. PICK i : i = FindBase(b)
    OBVIOUS
  <1>4. memTable' = IF i = 0 THEN memTable ELSE RemoveAt(memTable, i)
    BY <1>1, <1>3 DEF TableRemove, RemoveRegion
  <1>5. memOs' = memOs /\ memHeld' = memHeld /\ memCall' = [memCall EXCEPT ![t] = NoCall]
    BY DEF TableRemove
  <1>6. memCall'[t] = NoCall /\ \A u \in MemThreads : u # t => memCall'[u] = memCall[u]
    BY <1>5, CallsNow
  <1>7. Arriving' = Arriving /\ t \notin Arriving
    BY <1>2, <1>6 DEF Arriving, NoCall
  <1>8. Claims' = Claims
    <2>1. \A u \in Arriving : <<{u}, memCall'[u].base, memCall'[u].size>> = <<{u}, memCall[u].base, memCall[u].size>>
      BY <1>6, <1>7 DEF Arriving
    <2> QED BY <1>5, <1>7, <2>1 DEF Claims
  <1>9. Tiled(Claims', MappedPages')
    BY <1>5, <1>8 DEF MemTables, MappedPages
  <1>10. \A x : Leaving(memCall', x) = Leaving(memCall, x) \ (IF x = b THEN {t} ELSE {}) /\ t \in Leaving(memCall, b)
    BY <1>1, <1>2, <1>6 DEF Leaving, NoCall
  <1>11. PICK n \in Nat : n = Len(memTable) /\ DOMAIN memTable = 1 .. n
    BY LenProperties DEF MemTypeInv
  <1>12. Cardinality(Hits(memTable, b)) = Cardinality(Leaving(memCall, b)) + (IF b \in HeldBases THEN 1 ELSE 0)
    BY <1>2 DEF MemTables, Counted
  <1>13. Cardinality(Leaving(memCall, b)) \in Nat /\ Cardinality(Leaving(memCall, b)) # 0
    BY <1>10, LeavingFinite, FS_EmptySet
  <1>14. IsFiniteSet(Hits(memTable, b)) /\ Cardinality(Hits(memTable, b)) \in Nat
    BY <1>11, HitsFinite
  <1>15. Hits(memTable, b) # {}
    BY <1>12, <1>13, <1>14, FS_EmptySet
  <1>16. i \in 1 .. n /\ i # 0 /\ memTable[i].base = b /\ \A j \in 1 .. n : memTable[j].base = b => i <= j
    <2>1. \E j \in 1 .. n : memTable[j].base = b
      BY <1>11, <1>15 DEF Hits
    <2> QED BY <1>3, <1>11, <2>1, FindBaseIs
  <1>17. i \in Hits(memTable, b) /\ \A j \in Hits(memTable, b) : i <= j
    BY <1>11, <1>16 DEF Hits
  <1>18. PICK sh : Shifted(memTable, memTable', n, i, sh)
    BY <1>4, <1>11, <1>16, RemoveAtIs DEF MemTypeInv
  <1>19. /\ Len(memTable') = n - 1
         /\ \A j \in 1 .. n - 1 : memTable'[j] = memTable[sh[j]] /\ sh[j] \in 1 .. n /\ sh[j] # i
         /\ \A j, k \in 1 .. n - 1 : j < k <=> sh[j] < sh[k]
         /\ \A j, k \in 1 .. n - 1 : sh[j] = sh[k] => j = k
         /\ \A k \in 1 .. n : k # i => \E j \in 1 .. n - 1 : sh[j] = k
    BY <1>18 DEF Shifted
  \* The entries with a base, but for the one removed, move down together.
  <1>20. ASSUME NEW x
         PROVE  Cardinality(Hits(memTable', x)) = Cardinality(Hits(memTable, x) \ {i})
    <2>1. PICK H, G : H = Hits(memTable', x) /\ G = Hits(memTable, x) \ {i}
      OBVIOUS
    <2>2. H = {j \in 1 .. n - 1 : memTable[sh[j]].base = x}
      BY <1>19, <2>1 DEF Hits
    <2>3. G = {k \in 1 .. n : memTable[k].base = x /\ k # i}
      BY <1>11, <2>1 DEF Hits
    <2>4. PICK f : f = [j \in H |-> sh[j]]
      OBVIOUS
    <2>5. f \in [H -> G]
      BY <1>19, <2>2, <2>3, <2>4
    <2>6. \A j, k \in H : f[j] = f[k] => j = k
      BY <1>19, <2>2, <2>4
    <2>7. \A k \in G : \E j \in H : f[j] = k
      BY <1>19, <2>2, <2>3, <2>4
    <2>8. IsFiniteSet(H)
      <3>1. n - 1 \in Nat
        BY <1>16
      <3>2. PICK m \in Nat : m = n - 1 /\ Len(memTable') = m
        BY <1>19, <3>1
      <3> QED BY <2>1, <3>2, HitsFinite
    <2> QED BY <2>1, <2>5, <2>6, <2>7, <2>8, SameSize
  <1>21. Counted'
    <2> SUFFICES ASSUME NEW x \in Addresses
                 PROVE  Cardinality(Hits(memTable', x)) = Cardinality(Leaving(memCall', x)) + (IF x \in HeldBases THEN 1 ELSE 0)
      BY <1>5 DEF Counted, HeldBases
    <2>1. Cardinality(Hits(memTable, x)) = Cardinality(Leaving(memCall, x)) + (IF x \in HeldBases THEN 1 ELSE 0)
      BY DEF MemTables, Counted
    <2>2. CASE x # b
      <3>1. i \notin Hits(memTable, x)
        BY <1>16, <2>2 DEF Hits
      <3>2. Hits(memTable, x) \ {i} = Hits(memTable, x)
        BY <3>1
      <3> QED BY <1>10, <1>20, <2>1, <2>2, <3>2
    <2>3. CASE x = b
      <3>1. Cardinality(Hits(memTable, b) \ {i}) = Cardinality(Hits(memTable, b)) - 1
        BY <1>14, <1>17, FS_RemoveElement
      <3>2. IsFiniteSet(Leaving(memCall, b))
        BY LeavingFinite
      <3>3. Cardinality(Leaving(memCall, b) \ {t}) = Cardinality(Leaving(memCall, b)) - 1
        BY <1>10, <3>2, FS_RemoveElement
      <3>4. Leaving(memCall', b) = Leaving(memCall, b) \ {t}
        BY <1>10
      <3>5. Cardinality(Hits(memTable', b)) = Cardinality(Hits(memTable, b)) - 1
        BY <1>20, <3>1
      <3>6. Cardinality(Leaving(memCall', b)) = Cardinality(Leaving(memCall, b)) - 1
        BY <3>3, <3>4
      <3> QED BY <1>12, <1>13, <1>14, <2>3, <3>5, <3>6
    <2> QED BY <2>2, <2>3
  <1>22. LiveLast'
    <2> SUFFICES ASSUME NEW g \in memHeld
                 PROVE  \E k \in 1 .. Len(memTable') : /\ memTable'[k].base = g.base /\ memTable'[k].size = g.size
                                                       /\ \A j \in Hits(memTable', g.base) : j <= k
      BY <1>5 DEF LiveLast
    <2>1. PICK last \in 1 .. n : /\ memTable[last].base = g.base /\ memTable[last].size = g.size
                                 /\ \A j \in Hits(memTable, g.base) : j <= last
      BY <1>11 DEF MemTables, LiveLast
    <2>2. last # i
      <3> SUFFICES ASSUME last = i PROVE FALSE
        OBVIOUS
      <3>1. g.base = b
        BY <1>16, <2>1
      <3>2. b \in HeldBases
        BY <3>1 DEF HeldBases
      <3>3. \A j \in Hits(memTable, b) : j = i
        <4>1. Hits(memTable, b) \subseteq 1 .. n
          BY <1>11 DEF Hits
        <4> QED BY <1>16, <1>17, <2>1, <3>1, <4>1
      <3>4. Hits(memTable, b) = {i}
        BY <1>17, <3>3
      <3>5. Cardinality(Hits(memTable, b)) = 1
        BY <3>4, FS_Singleton
      <3> QED BY <1>12, <1>13, <3>2, <3>5
    <2>3. PICK k \in 1 .. n - 1 : sh[k] = last
      BY <1>19, <2>1, <2>2
    <2>4. memTable'[k] = memTable[last]
      BY <1>19, <2>3
    <2>5. \A j \in Hits(memTable', g.base) : j <= k
      <3> SUFFICES ASSUME NEW j \in Hits(memTable', g.base) PROVE j <= k
        OBVIOUS
      <3>1. j \in 1 .. n - 1 /\ memTable[sh[j]].base = g.base
        BY <1>19 DEF Hits
      <3>2. sh[j] \in Hits(memTable, g.base)
        BY <1>11, <1>19, <3>1 DEF Hits
      <3>3. sh[j] <= last /\ sh[j] \in 1 .. n
        BY <1>19, <2>1, <3>1, <3>2
      <3>4. ~(sh[k] < sh[j])
        BY <2>1, <2>3, <3>3
      <3>5. ~(k < j)
        BY <1>19, <2>3, <3>1, <3>4
      <3> QED BY <2>3, <3>1, <3>5
    <2>6. k \in 1 .. Len(memTable')
      BY <1>19, <2>3
    <2> QED BY <2>1, <2>4, <2>5, <2>6
  <1> QED BY <1>9, <1>21, <1>22 DEF MemTables

-----------------------------------------------------------------------------
\* With no call under way the entries of the table and the held regions are the same.
LEMMA EntriesHeld ==
    ASSUME MemTypeInv, MemTables, Calls = {}, NEW n \in Nat, n = Len(memTable)
    PROVE  /\ Claims = {<<{}, h.base, h.size>> : h \in memHeld}
           /\ \A i \in 1 .. n : \E h \in memHeld : h.base = memTable[i].base /\ h.size = memTable[i].size
           /\ \A h \in memHeld : \E i \in 1 .. n : h.base = memTable[i].base /\ h.size = memTable[i].size
           /\ \A i, j \in 1 .. n : i # j => memTable[i].base # memTable[j].base
  <1>1. \A t \in MemThreads : memCall[t].op = "none"
    BY DEF Calls
  <1>2. Arriving = {}
    BY <1>1 DEF Arriving
  <1>3. Claims = {<<{}, h.base, h.size>> : h \in memHeld}
    BY <1>2 DEF Claims
  <1>4. \A b : Leaving(memCall, b) = {}
    BY <1>1 DEF Leaving
  <1>5. \A i \in 1 .. n : memTable[i].base \in Addresses
    <2>1. \A i \in 1 .. n : memTable[i] \in Region
      BY DEF MemTypeInv
    <2> QED BY <2>1 DEF Region
  <1>6. ASSUME NEW b \in Addresses PROVE Cardinality(Hits(memTable, b)) = IF b \in HeldBases THEN 1 ELSE 0
    <2>1. Cardinality(Hits(memTable, b)) = Cardinality(Leaving(memCall, b)) + (IF b \in HeldBases THEN 1 ELSE 0)
      BY DEF MemTables, Counted
    <2>2. Cardinality(Leaving(memCall, b)) = 0
      BY <1>4, FS_EmptySet
    <2> QED BY <2>1, <2>2
  <1>7. ASSUME NEW i \in 1 .. n PROVE memTable[i].base \in HeldBases /\ Hits(memTable, memTable[i].base) = {i}
    <2>1. PICK H : H = Hits(memTable, memTable[i].base)
      OBVIOUS
    <2>2. IsFiniteSet(H) /\ i \in H
      BY <2>1, HitsFinite DEF Hits
    <2>3. Cardinality(H) # 0
      BY <2>2, FS_EmptySet
    <2>4. memTable[i].base \in HeldBases /\ Cardinality(H) = 1
      BY <1>5, <1>6, <2>1, <2>3
    <2>5. \E x : H = {x}
      BY <2>2, <2>4, FS_Singleton
    <2> QED BY <2>1, <2>2, <2>4, <2>5
  <1>8. ASSUME NEW h \in memHeld PROVE \E i \in 1 .. n : h.base = memTable[i].base /\ h.size = memTable[i].size
    BY DEF MemTables, LiveLast
  <1>9. ASSUME NEW i \in 1 .. n PROVE \E h \in memHeld : h.base = memTable[i].base /\ h.size = memTable[i].size
    <2>1. PICK h \in memHeld : h.base = memTable[i].base
      BY <1>7 DEF HeldBases
    <2>2. PICK j \in 1 .. n : h.base = memTable[j].base /\ h.size = memTable[j].size
      BY <1>8
    <2>3. j \in Hits(memTable, memTable[i].base)
      BY <2>1, <2>2 DEF Hits
    <2>4. j = i
      BY <1>7, <2>3
    <2> QED BY <2>1, <2>2, <2>4
  <1>10. ASSUME NEW i \in 1 .. n, NEW j \in 1 .. n, i # j, memTable[i].base = memTable[j].base PROVE FALSE
    <2>1. j \in Hits(memTable, memTable[i].base)
      BY <1>10 DEF Hits
    <2> QED BY <1>7, <1>10, <2>1
  <1> QED BY <1>3, <1>8, <1>9, <1>10

LEMMA TableAtRest ==
    ASSUME MemTypeInv, MemTables, Calls = {}, NEW n \in Nat, n = Len(memTable)
    PROVE  /\ MappedPages = UNION {RegionPages(memTable[i]) : i \in 1 .. n}
           /\ \A i, j \in 1 .. n : i # j => RegionPages(memTable[i]) \cap RegionPages(memTable[j]) = {}
  <1>1. /\ Claims = {<<{}, h.base, h.size>> : h \in memHeld}
        /\ \A i \in 1 .. n : \E h \in memHeld : h.base = memTable[i].base /\ h.size = memTable[i].size
        /\ \A h \in memHeld : \E i \in 1 .. n : h.base = memTable[i].base /\ h.size = memTable[i].size
        /\ \A i, j \in 1 .. n : i # j => memTable[i].base # memTable[j].base
    BY EntriesHeld
  <1>2. PICK claim : claim = [i \in 1 .. n |-> <<{}, memTable[i].base, memTable[i].size>>]
    OBVIOUS
  <1>3. \A i \in 1 .. n : claim[i] \in Claims /\ ClaimPages(claim[i]) = RegionPages(memTable[i])
    BY <1>1, <1>2 DEF ClaimPages, RegionPages
  <1>4. \A c \in Claims : \E i \in 1 .. n : claim[i] = c
    BY <1>1, <1>2
  <1>5. \A i, j \in 1 .. n : i # j => claim[i] # claim[j]
    <2> SUFFICES ASSUME NEW i \in 1 .. n, NEW j \in 1 .. n, i # j, claim[i] = claim[j] PROVE FALSE
      OBVIOUS
    <2>1. claim[i][2] = memTable[i].base /\ claim[j][2] = memTable[j].base
      BY <1>2
    <2> QED BY <1>1, <2>1
  <1>6. \A i, j \in 1 .. n : i # j => RegionPages(memTable[i]) \cap RegionPages(memTable[j]) = {}
    BY <1>3, <1>5 DEF MemTables, Tiled
  <1>7. \A i \in 1 .. n : RegionPages(memTable[i]) \subseteq MappedPages
    BY <1>3 DEF MemTables, Tiled
  <1>8. \A p \in MappedPages : \E i \in 1 .. n : p \in RegionPages(memTable[i])
    <2> SUFFICES ASSUME NEW p \in MappedPages PROVE \E i \in 1 .. n : p \in RegionPages(memTable[i])
      OBVIOUS
    <2>1. PICK c \in Claims : p \in ClaimPages(c)
      BY DEF MemTables, Tiled
    <2> QED BY <1>3, <1>4, <2>1
  <1>9. MappedPages = UNION {RegionPages(memTable[i]) : i \in 1 .. n}
    BY <1>7, <1>8
  <1> QED BY <1>6, <1>9

LEMMA MemTablesHold == MemTypeInv /\ MemTables => TableMatchesOs
  <1> SUFFICES ASSUME MemTypeInv, MemTables, Calls = {}
               PROVE  /\ MappedPages = UNION {RegionPages(memTable[i]) : i \in DOMAIN memTable}
                      /\ \A i, j \in DOMAIN memTable : i # j => RegionPages(memTable[i]) \cap RegionPages(memTable[j]) = {}
                      /\ memCount = Len(memTable)
                      /\ memReserved = Cardinality(MappedPages)
    BY DEF TableMatchesOs
  <1>1. PICK n \in Nat : n = Len(memTable) /\ DOMAIN memTable = 1 .. n
    BY LenProperties DEF MemTypeInv
  <1>2. PICK P : P = MappedPages
    OBVIOUS
  <1>3. P = UNION {RegionPages(memTable[i]) : i \in 1 .. n}
        /\ \A i, j \in 1 .. n : i # j => RegionPages(memTable[i]) \cap RegionPages(memTable[j]) = {}
    BY <1>1, <1>2, TableAtRest
  <1>4. PICK R : R = Rows(memTable)
    OBVIOUS
  <1>5. R = {x \in (1 .. n) \X Nat : x[2] \in RegionPages(memTable[x[1]])}
    BY <1>1, <1>4 DEF Rows
  <1>6. P \subseteq Nat
    BY <1>2, MemConstants DEF MappedPages
  <1>7. PICK f : f = [x \in R |-> x[2]]
    OBVIOUS
  <1>8. f \in [R -> P]
    BY <1>3, <1>5, <1>7
  <1>9. \A x, y \in R : f[x] = f[y] => x = y
    <2> SUFFICES ASSUME NEW x \in R, NEW y \in R, f[x] = f[y] PROVE x = y
      OBVIOUS
    <2>1. x = <<x[1], x[2]>> /\ y = <<y[1], y[2]>> /\ x[2] = y[2] /\ x[1] \in 1 .. n /\ y[1] \in 1 .. n
      BY <1>5, <1>7
    <2>2. x[2] \in RegionPages(memTable[x[1]]) /\ x[2] \in RegionPages(memTable[y[1]])
      BY <1>5, <2>1
    <2>3. x[1] = y[1]
      BY <1>3, <2>1, <2>2
    <2> QED BY <2>1, <2>3
  <1>10. \A p \in P : \E x \in R : f[x] = p
    <2> SUFFICES ASSUME NEW p \in P PROVE \E x \in R : f[x] = p
      OBVIOUS
    <2>1. PICK i \in 1 .. n : p \in RegionPages(memTable[i])
      BY <1>3
    <2>2. <<i, p>> \in R
      BY <1>5, <1>6, <2>1
    <2> QED BY <1>7, <2>2
  <1>11. IsFiniteSet(R) /\ memReserved = Cardinality(R) /\ memCount = Len(memTable)
    BY <1>4 DEF MemTypeInv
  <1>12. Cardinality(P) = Cardinality(R)
    BY <1>8, <1>9, <1>10, <1>11, SameSize
  <1> QED BY <1>1, <1>2, <1>3, <1>11, <1>12

LEMMA MemTablesInit == MemoryInit => MemTables
  <1> SUFFICES ASSUME MemoryInit PROVE MemTables
    OBVIOUS
  <1>1. memTable = <<>> /\ memHeld = {} /\ \A t \in MemThreads : memCall[t].op = "none"
    BY DEF MemoryInit, NoCall
  <1>2. Claims = {} /\ MappedPages = {} /\ HeldBases = {}
    BY <1>1 DEF Claims, Arriving, MappedPages, MemoryInit, HeldBases
  <1>3. \A b : Hits(memTable, b) = {} /\ Leaving(memCall, b) = {}
    BY <1>1 DEF Hits, Leaving
  <1>4. Counted
    BY <1>2, <1>3, FS_EmptySet DEF Counted
  <1> QED BY <1>1, <1>2, <1>4 DEF MemTables, Tiled, LiveLast

LEMMA MemoryResetTables ==
    ASSUME MemTypeInv, MemTables, MemoryReset
    PROVE  MemTables'
  <1>1. PICK n \in Nat : n = Len(memTable) /\ DOMAIN memTable = 1 .. n
    BY LenProperties DEF MemTypeInv
  <1>2. MappedPages = UNION {RegionPages(memTable[i]) : i \in 1 .. n}
    BY <1>1, TableAtRest DEF MemoryReset
  <1>3. \A i \in 1 .. n : memTable[i].committed /\ memTable[i] \in Range(memTable)
    BY <1>1 DEF MemoryReset, Range
  <1>4. PICK gone : gone = UNION {RegionPages(r) : r \in {q \in Range(memTable) : q.committed}}
    OBVIOUS
  <1>5. MappedPages \subseteq gone
    BY <1>2, <1>3, <1>4
  <1>6. memOs' = [p \in Addresses |-> IF p \in gone THEN NotMapped ELSE memOs[p]]
    BY <1>4 DEF MemoryReset, SetPages
  <1>7. MappedPages' = {}
    BY <1>5, <1>6 DEF MappedPages
  <1>8. memTable' = <<>> /\ memHeld' = {} /\ memCall' = memCall /\ \A t \in MemThreads : memCall[t].op = "none"
    BY DEF MemoryReset, Calls
  <1>9. Claims' = {} /\ HeldBases' = {}
    BY <1>8 DEF Claims, Arriving, HeldBases
  <1>10. \A b : Hits(memTable', b) = {} /\ Leaving(memCall', b) = {}
    BY <1>8 DEF Hits, Leaving
  <1>11. Counted'
    BY <1>9, <1>10, FS_EmptySet DEF Counted
  <1> QED BY <1>7, <1>8, <1>9, <1>11 DEF MemTables, Tiled, LiveLast

LEMMA MemTablesInductive == WholePages /\ MemTypeInv /\ MemTables /\ [MemoryNext]_memVars => MemTables'
  <1> SUFFICES ASSUME WholePages, MemTypeInv, MemTables, [MemoryNext]_memVars PROVE MemTables'
    OBVIOUS
  <1>1. "None" \in Prots
    BY DEF Prots
  <1>2. ASSUME NEW t \in MemThreads, NEW b \in Addresses, NEW s \in MemSizes, Reserve(t, b, s) PROVE MemTables'
    BY <1>1, <1>2, ArrivesTables DEF Reserve
  <1>3. ASSUME NEW t \in MemThreads, NEW b \in Addresses, NEW s \in MemSizes, NEW prot \in Prots, Map(t, b, s, prot) PROVE MemTables'
    BY <1>3, ArrivesTables DEF Map
  <1>4. ASSUME NEW t \in MemThreads, NEW h \in Usable, Unmap(t, h) PROVE MemTables'
    BY <1>4, UnmapTables
  <1>5. ASSUME NEW t \in MemThreads, NEW h \in Usable, NEW prot \in Prots, Commit(t, h, prot) \/ Protect(t, h, prot) PROVE MemTables'
    BY <1>5, ProtectionTables
  <1>6. ASSUME NEW t \in MemThreads, TableAdd(t) \/ TableUpdate(t) \/ TableRemove(t) PROVE MemTables'
    BY <1>6, TableAddTables, TableUpdateTables, TableRemoveTables
  <1>7. CASE MemoryReset
    BY <1>7, MemoryResetTables
  <1>8. CASE UNCHANGED memVars
    <2>1. memOs' = memOs /\ memTable' = memTable /\ memCall' = memCall /\ memHeld' = memHeld
      BY <1>8 DEF memVars
    <2>2. Claims' = Claims /\ MappedPages' = MappedPages /\ HeldBases' = HeldBases
      BY <2>1 DEF Claims, Arriving, MappedPages, HeldBases
    <2>3. Counted' /\ LiveLast'
      BY <2>1, <2>2 DEF Counted, LiveLast, MemTables
    <2> QED BY <2>2, <2>3 DEF MemTables
  <1> QED BY <1>2, <1>3, <1>4, <1>5, <1>6, <1>7, <1>8 DEF MemoryNext

LEMMA MemTypesHold == MemTypeInv => MemoryTypeOK
  <1> SUFFICES ASSUME MemTypeInv PROVE MemoryTypeOK
    OBVIOUS
  <1>1. memReserved \in Nat
    BY FS_CardinalityType DEF MemTypeInv
  <1>2. memCount \in Nat
    BY LenProperties DEF MemTypeInv
  <1> QED BY <1>1, <1>2 DEF MemTypeInv, MemoryTypeOK, Region

-----------------------------------------------------------------------------
(* Side by side.  A behaviour of the subsystems is one of each: the step   *)
(* of one is a step or a stutter of every other.                           *)

LEMMA InitOfEach == Init => RuntimeInit /\ EventsBusInit /\ HgInit /\ InInit /\ ImInit /\ MemoryInit
  BY DEF Init

LEMMA StepOfRuntime == [Next]_subsystemVars => [RuntimeNext]_rtVars
  BY DEF Next, subsystemVars, StepRuntime, StepEvents, StepMemory, StepInput, StepMapping, StepMetrics

LEMMA StepOfEvents == [Next]_subsystemVars => [EventsNext]_evVars
  BY DEF Next, subsystemVars, StepRuntime, StepEvents, StepMemory, StepInput, StepMapping, StepMetrics

LEMMA StepOfMetrics == [Next]_subsystemVars => [HgNext]_hgVars
  BY DEF Next, subsystemVars, StepRuntime, StepEvents, StepMemory, StepInput, StepMapping, StepMetrics

LEMMA StepOfInput == [Next]_subsystemVars => [InNext]_inVars
  BY DEF Next, subsystemVars, StepRuntime, StepEvents, StepMemory, StepInput, StepMapping, StepMetrics

LEMMA StepOfMapping == [Next]_subsystemVars => [ImNext]_imVars
  BY DEF Next, subsystemVars, StepRuntime, StepEvents, StepMemory, StepInput, StepMapping, StepMetrics

LEMMA StepOfMemory == [Next]_subsystemVars => [MemoryNext]_memVars
  BY DEF Next, subsystemVars, StepRuntime, StepEvents, StepMemory, StepInput, StepMapping, StepMetrics

LEMMA SubsystemsSideBySide == Spec => RtSpec /\ EvSpec /\ HgSpec /\ InSpec /\ ImSpec /\ MemSpec
  BY InitOfEach, StepOfRuntime, StepOfEvents, StepOfMetrics, StepOfInput, StepOfMapping, StepOfMemory,
     PTL DEF Spec, RtSpec, EvSpec, HgSpec, InSpec, ImSpec, MemSpec

(***************************************************************************)
(* The slots of the input system hold as many references to a controller   *)
(* as SDL counts, and only active slots hold one; a profile that was saved *)
(* is loaded as it was, and an axis stays in range, keeps its sign and is  *)
(* silent in the deadzone (Poll and OpenController, for any pads and slots;*)
(* WriteProfileIni, ReadProfileIni and TranslateAxis, for any profiles).   *)
(***************************************************************************)
THEOREM InputAlwaysSound == Spec => []InputSound
  <1>1. InSpec => []PadRefsExact
    BY InInvInit, InInvInductive, InInvHolds, PTL DEF InSpec
  <1>2. ImSpec => []ProfilesSound
    BY ImInvInit, ImInvInductive, ImInvHolds, PTL DEF ImSpec
  <1> QED BY <1>1, <1>2, SubsystemsSideBySide, PTL DEF InputSound

(***************************************************************************)
(* Whenever no call is under way the region table describes the address    *)
(* space: disjoint regions that make up what is mapped, with the counts of *)
(* both, for any threads whose calls interleave between the system call    *)
(* and the table (Reserve, Map, Commit, Protect, Unmap, Reset).  Callers   *)
(* ask for whole pages: with other sizes Unmap leaves pages mapped.        *)
(***************************************************************************)
THEOREM TableDescribesAddresses == WholePages /\ Spec => []TableMatchesOs
  <1> SUFFICES ASSUME WholePages PROVE Spec => []TableMatchesOs
    OBVIOUS
  <1>1. MemSpec => []MemTypeInv
    BY MemTypeInvInit, MemTypeInvInductive, PTL DEF MemSpec
  <1>2. MemTypeInv /\ MemTables /\ [MemoryNext]_memVars => MemTables'
    BY MemTablesInductive
  <1>3. MemSpec => []MemTables
    BY <1>1, <1>2, MemTablesInit, PTL DEF MemSpec
  <1> QED BY <1>1, <1>3, MemTablesHold, SubsystemsSideBySide, PTL

(***************************************************************************)
(* Every variable of the subsystems keeps its type, for any sizes of       *)
(* memory requests.  The counters of a histogram stay within what was      *)
(* recorded, though Record adds to the sum with a load and a store between *)
(* which another thread's value may be lost (RuntimeManager, RuntimeEvents,*)
(* Memory, Input, InputMapping and Metrics).                               *)
(***************************************************************************)
THEOREM SubsystemsTyped == Spec => []SubsystemsTypeOK
  <1>1. RtSpec => []RuntimeTypeOK
    BY RtInvInit, RtInvInductive, RtTypesHold, PTL DEF RtSpec
  <1>2. EvSpec => []EventsTypeOK
    <2>1. EvInv => EventsTypeOK
      BY DEF EvInv
    <2> QED BY <2>1, EvInvInit, EvInvInductive, PTL DEF EvSpec
  <1>3. HgSpec => []HgInv
    BY HgInvInit, HgInvInductive, PTL DEF HgSpec
  <1>4. HgSpec => []HgTypeOK
    BY <1>3, HgBoundedInit, HgBoundedInductive, HgTypesHold, PTL DEF HgSpec
  <1>5. InSpec => []InTypeOK
    BY InInvInit, InInvInductive, InInvHolds, PTL DEF InSpec
  <1>6. ImSpec => []ImTypeOK
    BY ImInvInit, ImInvInductive, ImInvHolds, PTL DEF ImSpec
  <1>7. MemSpec => []MemoryTypeOK
    BY MemTypeInvInit, MemTypeInvInductive, MemTypesHold, PTL DEF MemSpec
  <1>8. Spec => [](part \in Parts)
    <2>1. Init => part \in Parts
      BY DEF Init
    <2>2. part \in Parts /\ [Next]_subsystemVars => (part \in Parts)'
      BY DEF Next, subsystemVars, StepRuntime, StepEvents, StepMemory, StepInput, StepMapping, StepMetrics
    <2> QED BY <2>1, <2>2, PTL DEF Spec
  <1> QED BY <1>1, <1>2, <1>4, <1>5, <1>6, <1>7, <1>8, SubsystemsSideBySide, PTL DEF SubsystemsTypeOK

(***************************************************************************)
(* The event bus calls a handler only while it is registered, its ring and *)
(* its count agree, a watchdog that was turned off is gone, and a          *)
(* dispatcher and an attaching debugger never wait for each other, for any *)
(* publishers and handlers and beside the other subsystems                 *)
(* (RuntimeEvents).                                                        *)
(***************************************************************************)
THEOREM EventsStaySound == Spec => []EventsSound
  <1>1. EvSpec => []EventsSound
    BY EventsAlwaysSound, PTL DEF EventsSound
  <1> QED BY <1>1, SubsystemsSideBySide, PTL

(***************************************************************************)
(* The registry, the event bus and the metrics have their own mutexes and  *)
(* share no field: whatever they do side by side, each behaves as it does  *)
(* alone, and promises what it promises alone.                             *)
(***************************************************************************)
THEOREM SubsystemsKeepPromises == Spec => [](RegistryOrder /\ EventsSound /\ HistogramExact)
  <1>1. RtSpec => []RegistryOrder
    BY RegistryKeepsOrder, PTL DEF RegistryOrder
  <1> QED BY <1>1, EventsStaySound, HistogramsExact, SubsystemsSideBySide, PTL
=============================================================================
