------------------------- MODULE KernelServicesProofs -------------------------
(***************************************************************************)
(* The kernel services, for any threads, shared memories, messages and     *)
(* capacity: memory stays mapped while a thread has it open, no message    *)
(* and no free place waits for a sleeper nobody will wake, and the message *)
(* queue implements the priority mailbox.                                  *)
(***************************************************************************)
EXTENDS KernelServices, FiniteSetTheorems, SequenceTheorems, TLAPS

USE KernelServicesAssumption DEF KernelServicesAssumption

-----------------------------------------------------------------------------
(* Shared memory.  The reference count of a handle is the number of        *)
(* threads that have it open; a handle not yet given out has none.         *)

ShmTypeOK ==
    /\ ksShm \in [KsHandles -> [name : KsNames, refs : Nat]]
    /\ ksNextShm \in 1 .. KsMaxShm + 1
    /\ ksMem \subseteq KsHandles
    /\ ksHas \in [KsThreads -> [KsHandles -> {0, 1}]]

Openers(has, h) == {t \in KsThreads : has[t][h] > 0}

RefsCountOpeners == \A h \in KsHandles : ksShm[h].refs = Cardinality(Openers(ksHas, h))

CountedIsMapped == \A h \in KsHandles : ksShm[h].refs > 0 => h \in ksMem

FreshUnopened == \A t \in KsThreads, h \in KsHandles : h >= ksNextShm => ksHas[t][h] = 0

ShmInv == ShmTypeOK /\ RefsCountOpeners /\ CountedIsMapped /\ FreshUnopened

LEMMA OpenersFinite ==
    ASSUME NEW has, NEW h
    PROVE  /\ IsFiniteSet(Openers(has, h))
           /\ Cardinality(Openers(has, h)) \in Nat
           /\ Cardinality(Openers(has, h)) = 0 <=> \A t \in KsThreads : ~(has[t][h] > 0)
  <1>1. Openers(has, h) \in SUBSET KsThreads  BY DEF Openers
  <1>2. IsFiniteSet(Openers(has, h))  BY <1>1, FS_Subset
  <1>3. Cardinality(Openers(has, h)) = 0 <=> Openers(has, h) = {}  BY <1>2, FS_EmptySet
  <1> QED  BY <1>2, <1>3, FS_CardinalityType DEF Openers

\* One thread opens or closes one handle: its entry alone changes.
Only(has, new, t, h, n) ==
    \A u \in KsThreads, g \in KsHandles : new[u][g] = IF u = t /\ g = h THEN n ELSE has[u][g]

LEMMA OpenersOfOther ==
    ASSUME NEW has, NEW new,
           NEW t \in KsThreads, NEW h \in KsHandles, NEW n, Only(has, new, t, h, n),
           NEW g \in KsHandles, g # h
    PROVE  Openers(new, g) = Openers(has, g)
  BY DEF Openers, Only

LEMMA OpenersAdded ==
    ASSUME NEW has, NEW new,
           NEW t \in KsThreads, NEW h \in KsHandles, has[t][h] = 0, Only(has, new, t, h, 1)
    PROVE  Cardinality(Openers(new, h)) = Cardinality(Openers(has, h)) + 1
  <1>1. Openers(new, h) = Openers(has, h) \cup {t}
    BY DEF Openers, Only
  <1>2. t \notin Openers(has, h)  BY DEF Openers, Only
  <1>3. IsFiniteSet(Openers(has, h))  BY OpenersFinite
  <1> QED  BY <1>1, <1>2, <1>3, FS_AddElement

LEMMA OpenersRemoved ==
    ASSUME NEW has, NEW new,
           NEW t \in KsThreads, NEW h \in KsHandles, has[t][h] > 0, Only(has, new, t, h, 0)
    PROVE  Cardinality(Openers(new, h)) = Cardinality(Openers(has, h)) - 1
  <1>1. Openers(new, h) = Openers(has, h) \ {t}
    BY DEF Openers, Only
  <1>2. t \in Openers(has, h)  BY DEF Openers, Only
  <1>3. IsFiniteSet(Openers(has, h))  BY OpenersFinite
  <1> QED  BY ZenonT(40), <1>1, <1>2, <1>3, FS_RemoveElement

LEMMA ShmInvInit == KsInit => ShmInv
  <1> SUFFICES ASSUME KsInit PROVE ShmInv
    OBVIOUS
  <1>1. ShmTypeOK
    BY DEF KsInit, ShmTypeOK, KsHandles
  <1>2. RefsCountOpeners
    <2> SUFFICES ASSUME NEW h \in KsHandles PROVE Cardinality(Openers(ksHas, h)) = 0
      BY DEF KsInit, RefsCountOpeners
    <2>1. \A t \in KsThreads : ~(ksHas[t][h] > 0)
      BY DEF KsInit
    <2> QED  BY <2>1, OpenersFinite
  <1> QED  BY <1>1, <1>2 DEF KsInit, ShmInv, CountedIsMapped, FreshUnopened

LEMMA CreateShmKeeps ==
    ASSUME ShmInv, NEW t \in KsThreads, NEW n \in KsNames, CreateShm(t, n)
    PROVE  ShmInv'
  <1>0. ksHas \in [KsThreads -> [KsHandles -> {0, 1}]]
    BY DEF ShmInv, ShmTypeOK
  <1>1. ksNextShm \in KsHandles /\ ksHas[t][ksNextShm] = 0
    BY DEF ShmInv, ShmTypeOK, FreshUnopened, CreateShm, KsHandles
  <1>2. PICK new \in KsHandles : new = ksNextShm
    BY <1>1
  <1>3. /\ ksShm' = [ksShm EXCEPT ![new] = [name |-> n, refs |-> 1]]
        /\ ksHas' = [ksHas EXCEPT ![t][new] = 1] /\ Only(ksHas, ksHas', t, new, 1)
        /\ ksMem' = ksMem \cup {new}
        /\ ksNextShm' = new + 1
    BY <1>0, <1>2 DEF CreateShm, Only
  <1> USE DEF ShmTypeOK
  <1>4. ShmTypeOK'
    BY <1>3 DEF ShmInv, KsHandles
  <1>5. RefsCountOpeners'
    <2> SUFFICES ASSUME NEW g \in KsHandles
                 PROVE  ksShm'[g].refs = Cardinality(Openers(ksHas', g))
      BY DEF RefsCountOpeners
    <2>1. CASE g = new
      <3>1. \A u \in KsThreads : ~(ksHas[u][new] > 0)
        BY <1>2 DEF ShmInv, FreshUnopened, KsHandles
      <3>2. Cardinality(Openers(ksHas, new)) = 0
        BY <3>1, OpenersFinite
      <3>3. Cardinality(Openers(ksHas', new)) = 1
        <4>1. Cardinality(Openers(ksHas', new)) = Cardinality(Openers(ksHas, new)) + 1
          BY <1>0, <1>1, <1>2, <1>3, OpenersAdded
        <4> QED  BY <3>2, <4>1
      <3> QED  BY <2>1, <3>3, <1>3 DEF ShmInv
    <2>2. CASE g # new
      <3>1. Openers(ksHas', g) = Openers(ksHas, g)
        BY <1>0, <1>3, <2>2, OpenersOfOther
      <3> QED  BY <2>2, <3>1, <1>3 DEF ShmInv, RefsCountOpeners
    <2> QED  BY <2>1, <2>2
  <1>6. CountedIsMapped' /\ FreshUnopened'
    BY <1>2, <1>3 DEF ShmInv, CountedIsMapped, FreshUnopened, KsHandles
  <1> QED  BY <1>4, <1>5, <1>6 DEF ShmInv

LEMMA OpenShmKeeps ==
    ASSUME ShmInv, NEW t \in KsThreads, NEW h \in KsHandles, OpenShm(t, h)
    PROVE  ShmInv'
  <1> USE DEF ShmTypeOK
  <1>1. /\ ksShm' = [ksShm EXCEPT ![h].refs = @ + 1]
        /\ ksHas' = [ksHas EXCEPT ![t][h] = 1] /\ Only(ksHas, ksHas', t, h, 1)
        /\ ksHas[t][h] = 0 /\ ksShm[h].refs > 0
        /\ UNCHANGED <<ksNextShm, ksMem>>
    BY DEF OpenShm, ShmInv, Only
  <1>2. ShmTypeOK'
    BY <1>1 DEF ShmInv
  <1>3. RefsCountOpeners'
    <2> SUFFICES ASSUME NEW g \in KsHandles
                 PROVE  ksShm'[g].refs = Cardinality(Openers(ksHas', g))
      BY DEF RefsCountOpeners
    <2>1. ksShm[g].refs = Cardinality(Openers(ksHas, g))
      BY DEF ShmInv, RefsCountOpeners
    <2>2. CASE g = h
      BY <1>1, <2>1, <2>2, OpenersAdded DEF ShmInv
    <2>3. CASE g # h
      BY <1>1, <2>1, <2>3, OpenersOfOther DEF ShmInv
    <2> QED  BY <2>2, <2>3
  <1>4. FreshUnopened'
    <2>1. ~(h >= ksNextShm)
      <3>1. PICK u \in KsThreads : ksHas[u][h] > 0
        BY <1>1, OpenersFinite DEF ShmInv, RefsCountOpeners
      <3> QED  BY <3>1 DEF ShmInv, FreshUnopened
    <2> QED  BY <1>1, <2>1 DEF ShmInv, FreshUnopened
  <1>5. CountedIsMapped'
    BY <1>1 DEF ShmInv, CountedIsMapped
  <1> QED  BY <1>2, <1>3, <1>4, <1>5 DEF ShmInv

LEMMA CloseShmKeeps ==
    ASSUME ShmInv, NEW t \in KsThreads, NEW h \in KsHandles, CloseShm(t, h)
    PROVE  ShmInv'
  <1> USE DEF ShmTypeOK
  <1>1. ksHas[t][h] = 1
    BY DEF CloseShm, ShmInv
  <1>2. /\ ksShm' = [ksShm EXCEPT ![h].refs = @ - 1]
        /\ ksHas' = [ksHas EXCEPT ![t][h] = 0] /\ Only(ksHas, ksHas', t, h, 0)
        /\ ksMem' = IF ksShm[h].refs = 1 THEN ksMem \ {h} ELSE ksMem
        /\ UNCHANGED ksNextShm
    BY <1>1 DEF CloseShm, ShmInv, Only
  <1>3. RefsCountOpeners'
    <2> SUFFICES ASSUME NEW g \in KsHandles
                 PROVE  ksShm'[g].refs = Cardinality(Openers(ksHas', g))
      BY DEF RefsCountOpeners
    <2>1. ksShm[g].refs = Cardinality(Openers(ksHas, g))
      BY DEF ShmInv, RefsCountOpeners
    <2>2. CASE g = h
      BY <1>1, <1>2, <2>1, <2>2, OpenersRemoved DEF ShmInv
    <2>3. CASE g # h
      BY <1>2, <2>1, <2>3, OpenersOfOther DEF ShmInv
    <2> QED  BY <2>2, <2>3
  <1>4. ksShm[h].refs > 0
    <2>1. ksShm[h].refs = Cardinality(Openers(ksHas, h)) /\ ksShm[h].refs \in Nat
      BY DEF ShmInv, RefsCountOpeners
    <2> QED  BY <1>1, <2>1, OpenersFinite
  <1>5. ShmTypeOK'
    <2>1. ksShm[h].refs - 1 \in Nat
      BY <1>4 DEF ShmInv
    <2> QED  BY <1>2, <2>1 DEF ShmInv
  <1>6. FreshUnopened' /\ CountedIsMapped'
    BY <1>2, <1>4 DEF ShmInv, FreshUnopened, CountedIsMapped
  <1> QED  BY <1>3, <1>5, <1>6 DEF ShmInv

LEMMA ShutdownShmKeeps ==
    ASSUME ShmInv, ShutdownShm
    PROVE  ShmInv'
  <1> USE DEF ShmTypeOK
  <1>1. ShmTypeOK'
    BY DEF ShutdownShm, ShmInv
  <1>2. RefsCountOpeners'
    <2> SUFFICES ASSUME NEW g \in KsHandles
                 PROVE  ksShm'[g].refs = Cardinality(Openers(ksHas', g))
      BY DEF RefsCountOpeners
    <2>1. \A t \in KsThreads : ~(ksHas'[t][g] > 0)
      BY DEF ShutdownShm
    <2> QED  BY <2>1, OpenersFinite DEF ShutdownShm, ShmInv
  <1>3. FreshUnopened' /\ CountedIsMapped'
    BY DEF ShutdownShm, ShmInv, FreshUnopened, CountedIsMapped
  <1> QED  BY <1>1, <1>2, <1>3 DEF ShmInv

LEMMA ShmInvInductive == ShmInv /\ [KsNext]_ksVars => ShmInv'
  <1> SUFFICES ASSUME ShmInv, [KsNext]_ksVars PROVE ShmInv'
    OBVIOUS
  <1>1. CASE KsShmNext
    BY <1>1, CreateShmKeeps, OpenShmKeeps, CloseShmKeeps, ShutdownShmKeeps DEF KsShmNext
  <1>2. CASE UNCHANGED ksShmVars
    BY <1>2 DEF ksShmVars, ShmInv, ShmTypeOK, RefsCountOpeners, CountedIsMapped, FreshUnopened
  <1> QED  BY <1>1, <1>2 DEF KsNext, KsMqNext, KsLockNext, ksVars
-----------------------------------------------------------------------------
(* A sequence of messages in the order of the queue.                       *)

Ordered(s) == \A i, j \in 1 .. Len(s) : i < j => KsPriority[s[j]] <= KsPriority[s[i]] /\ s[i] # s[j]

Outranks(s, m) == {i \in DOMAIN s : KsPriority[s[i]] > KsPriority[m]}

LEMMA CountTo ==
    ASSUME NEW n \in Nat
    PROVE  IsFiniteSet(1 .. n) /\ Cardinality(1 .. n) = n
  BY FS_Interval

\* The messages that outrank m are the first ones: lower_bound's place is after them.
LEMMA OutranksFirst ==
    ASSUME NEW s \in Seq(KsMessages), Ordered(s), NEW m \in KsMessages
    PROVE  /\ Cardinality(Outranks(s, m)) \in 0 .. Len(s)
           /\ \A i \in 1 .. Len(s) : i \in Outranks(s, m) <=> i <= Cardinality(Outranks(s, m))
  <1> DEFINE H == Outranks(s, m)
  <1>1. Len(s) \in Nat /\ DOMAIN s = 1 .. Len(s) /\ \A i \in 1 .. Len(s) : KsPriority[s[i]] \in Nat
    BY LenProperties
  <1>2. H \in SUBSET (1 .. Len(s))
    BY <1>1 DEF Outranks
  <1>3. IsFiniteSet(1 .. Len(s)) /\ Cardinality(1 .. Len(s)) = Len(s)
    BY <1>1, CountTo
  <1>4. IsFiniteSet(H) /\ Cardinality(H) \in Nat /\ Cardinality(H) <= Len(s)
    BY <1>2, <1>3, FS_Subset, FS_CardinalityType
  <1>5. \A i, j \in 1 .. Len(s) : i < j /\ j \in H => i \in H
    <2> SUFFICES ASSUME NEW i \in 1 .. Len(s), NEW j \in 1 .. Len(s), i < j, j \in H PROVE i \in H
      OBVIOUS
    <2>1. KsPriority[s[j]] > KsPriority[m] /\ KsPriority[s[j]] <= KsPriority[s[i]]
      BY DEF Outranks, Ordered
    <2>2. KsPriority[m] \in Nat  OBVIOUS
    <2> QED  BY <1>1, <2>1, <2>2 DEF Outranks
  <1>6. ASSUME NEW i \in 1 .. Len(s), i \in H
        PROVE  i <= Cardinality(H)
    <2>1. 1 .. i \in SUBSET H
      BY <1>1, <1>5, <1>6
    <2>2. Cardinality(1 .. i) <= Cardinality(H)
      BY <1>4, <2>1, FS_Subset
    <2> QED  BY <2>2, CountTo
  <1>7. ASSUME NEW i \in 1 .. Len(s), i \notin H
        PROVE  i > Cardinality(H)
    <2>1. H \in SUBSET (1 .. (i - 1))
      BY <1>1, <1>2, <1>5, <1>7
    <2>2. i - 1 \in Nat
      OBVIOUS
    <2>3. IsFiniteSet(1 .. (i - 1)) /\ Cardinality(1 .. (i - 1)) = i - 1
      BY <2>2, CountTo
    <2>4. Cardinality(H) <= i - 1
      BY <2>1, <2>3, FS_Subset
    <2> QED  BY <1>4, <2>4
  <1>8. \A i \in 1 .. Len(s) : i \in H <=> i <= Cardinality(H)
    <2> SUFFICES ASSUME NEW i \in 1 .. Len(s) PROVE i \in H <=> i <= Cardinality(H)
      OBVIOUS
    <2>1. CASE i \in H  BY <1>6, <2>1
    <2>2. CASE i \notin H
      <3>1. i > Cardinality(H)  BY <1>7, <2>2
      <3> QED  BY <1>4, <2>2, <3>1
    <2> QED  BY <2>1, <2>2
  <1> QED  BY <1>1, <1>4, <1>8

\* What is where once m is inserted behind the first k messages.
IsInserted(new, s, k, m) ==
    /\ new \in Seq(KsMessages)
    /\ Len(new) = Len(s) + 1
    /\ \A i \in 1 .. k : new[i] = s[i]
    /\ new[k + 1] = m
    /\ \A i \in (k + 1) .. Len(s) : new[i + 1] = s[i]

LEMMA Inserted ==
    ASSUME NEW s \in Seq(KsMessages), NEW m \in KsMessages, NEW k \in Nat, k <= Len(s)
    PROVE  IsInserted(InsertAt(s, k + 1, m), s, k, m)
  <1> DEFINE a == SubSeq(s, 1, k)
             b == SubSeq(s, k + 1, Len(s))
  <1>1. Len(s) \in Nat /\ Len(s) \in Int /\ k \in Int /\ \A i \in 1 .. Len(s) : s[i] \in KsMessages
    BY LenProperties
  <1>2. a \in Seq(KsMessages) /\ Len(a) = k /\ \A i \in 1 .. k : a[i] = s[i]
    BY <1>1, SubSeqProperties
  <1>3. b \in Seq(KsMessages) /\ Len(b) = Len(s) - k /\ \A i \in 1 .. Len(s) - k : b[i] = s[k + i]
    BY <1>1, SubSeqProperties
  <1>4. <<m>> \in Seq(KsMessages) /\ Len(<<m>>) = 1 /\ <<m>>[1] = m
    OBVIOUS
  <1> HIDE DEF a, b
  <1>5. /\ a \o <<m>> \in Seq(KsMessages) /\ Len(a \o <<m>>) = k + 1
        /\ \A i \in 1 .. k : (a \o <<m>>)[i] = s[i]
        /\ (a \o <<m>>)[k + 1] = m
    <2>1. PICK o \in Seq(KsMessages) : o = <<m>> /\ Len(o) = 1 /\ o[1] = m
      BY <1>4
    <2>2. /\ a \o o \in Seq(KsMessages) /\ Len(a \o o) = k + 1
          /\ \A i \in 1 .. k + 1 : (a \o o)[i] = IF i <= k THEN a[i] ELSE o[i - k]
      <3>1. /\ a \o o \in Seq(KsMessages) /\ Len(a \o o) = Len(a) + Len(o)
            /\ \A i \in 1 .. Len(a) + Len(o) : (a \o o)[i] = IF i <= Len(a) THEN a[i] ELSE o[i - Len(a)]
        BY ZenonT(40), <1>2, <2>1, ConcatProperties
      <3>2. Len(a) = k /\ Len(a) + Len(o) = k + 1
        BY <1>2, <2>1
      <3> QED BY <3>1, <3>2
    <2>3. (a \o o)[k + 1] = o[1]
      <3>1. k + 1 \in 1 .. k + 1 /\ ~(k + 1 <= k) /\ (k + 1) - k = 1
        OBVIOUS
      <3> QED  BY <2>2, <3>1
    <2>4. ASSUME NEW i \in 1 .. k  PROVE (a \o o)[i] = s[i]
      <3>1. i \in 1 .. k + 1 /\ i <= k
        OBVIOUS
      <3> QED  BY <1>2, <2>2, <3>1
    <2> QED  BY <2>1, <2>2, <2>3, <2>4
  <1>6. PICK c : c = a \o <<m>>
    OBVIOUS
  <1>7. c \in Seq(KsMessages) /\ Len(c) = k + 1 /\ (\A i \in 1 .. k : c[i] = s[i]) /\ c[k + 1] = m
    BY <1>5, <1>6
  <1>8. /\ c \o b \in Seq(KsMessages) /\ Len(c \o b) = Len(c) + Len(b)
        /\ \A i \in 1 .. Len(c) + Len(b) : (c \o b)[i] = IF i <= Len(c) THEN c[i] ELSE b[i - Len(c)]
    BY <1>3, <1>7, ConcatProperties
  <1>9. Len(c) + Len(b) = Len(s) + 1
    BY <1>1, <1>3, <1>7
  <1>10. ASSUME NEW i \in 1 .. k  PROVE (c \o b)[i] = s[i]
    <2>1. i \in 1 .. Len(c) + Len(b) /\ i <= Len(c)
      BY <1>1, <1>7, <1>9
    <2> QED  BY <1>7, <1>8, <2>1
  <1>11. (c \o b)[k + 1] = m
    <2>1. k + 1 \in 1 .. Len(c) + Len(b) /\ k + 1 <= Len(c)
      BY <1>1, <1>7, <1>9
    <2> QED  BY <1>7, <1>8, <2>1
  <1>12. ASSUME NEW i \in (k + 1) .. Len(s)  PROVE (c \o b)[i + 1] = s[i]
    <2>1. i + 1 \in 1 .. Len(c) + Len(b) /\ ~(i + 1 <= Len(c)) /\ (i + 1) - Len(c) = i - k
      BY <1>1, <1>7, <1>9
    <2>2. i - k \in 1 .. Len(s) - k /\ k + (i - k) = i
      BY <1>1
    <2>3. (c \o b)[i + 1] = b[(i + 1) - Len(c)]
      BY <1>8, <2>1
    <2>4. b[i - k] = s[k + (i - k)]
      BY <1>3, <2>2
    <2> QED  BY <2>1, <2>2, <2>3, <2>4
  <1>13. InsertAt(s, k + 1, m) = c \o b
    <2>1. (k + 1) - 1 = k
      OBVIOUS
    <2> QED  BY <1>6, <2>1 DEF InsertAt, a, b
  <1> QED  BY <1>8, <1>9, <1>10, <1>11, <1>12, <1>13 DEF IsInserted

LEMMA InsertKeepsOrder ==
    ASSUME NEW s \in Seq(KsMessages), Ordered(s), NEW m \in KsMessages, m \notin ToSet(s),
           NEW new, new = InsertAt(s, Cardinality(Outranks(s, m)) + 1, m)
    PROVE  new \in Seq(KsMessages) /\ Len(new) = Len(s) + 1 /\ Ordered(new) /\ ToSet(new) = ToSet(s) \cup {m}
  <1>1. PICK n \in Nat : n = Len(s)
    BY LenProperties
  <1>2. PICK k \in 0 .. n : k = Cardinality(Outranks(s, m))
    BY <1>1, OutranksFirst
  <1>3. DOMAIN s = 1 .. n /\ \A i \in 1 .. n : s[i] \in KsMessages /\ KsPriority[s[i]] \in Nat
    BY <1>1, LenProperties
  <1>4. k \in Nat /\ k <= n
    OBVIOUS
  <1>5. /\ new \in Seq(KsMessages) /\ Len(new) = n + 1
        /\ \A i \in 1 .. k : new[i] = s[i]
        /\ new[k + 1] = m
        /\ \A i \in (k + 1) .. n : new[i + 1] = s[i]
    <2>1. k <= Len(s)
      BY <1>1
    <2>2. IsInserted(InsertAt(s, k + 1, m), s, k, m)
      BY <1>4, <2>1, Inserted
    <2> QED  BY <1>1, <1>2, <2>2 DEF IsInserted
  <1>6. \A i \in 1 .. n : s[i] # m /\ (KsPriority[s[i]] > KsPriority[m] <=> i <= k)
    BY <1>1, <1>2, <1>3, OutranksFirst DEF Outranks, ToSet
  <1>7. ASSUME NEW i \in (k + 2) .. (n + 1)  PROVE i - 1 \in (k + 1) .. n /\ i - 1 \in 1 .. n /\ new[i] = s[i - 1]
    <2>1. i - 1 \in (k + 1) .. n /\ i - 1 \in 1 .. n /\ (i - 1) + 1 = i
      OBVIOUS
    <2> QED  BY <1>5, <2>1
  <1>8. \A i \in 1 .. n + 1 : i \in 1 .. k \/ i = k + 1 \/ i \in (k + 2) .. (n + 1)
    OBVIOUS
  <1>9. KsPriority[m] \in Nat
    OBVIOUS
  <1>10. Ordered(new)
    <2> SUFFICES ASSUME NEW i \in 1 .. n + 1, NEW j \in 1 .. n + 1, i < j
                 PROVE  KsPriority[new[j]] <= KsPriority[new[i]] /\ new[i] # new[j]
      BY SMTT(40), <1>5 DEF Ordered
    <2>1. \A x, y \in 1 .. n : x < y => KsPriority[s[y]] <= KsPriority[s[x]] /\ s[x] # s[y]
      BY <1>1 DEF Ordered
    <2>2. CASE j \in 1 .. k
      <3>1. i \in 1 .. k /\ i \in 1 .. n /\ j \in 1 .. n
        BY <2>2
      <3> QED  BY ZenonT(40), <1>5, <2>1, <2>2, <3>1
    <2>3. CASE i \in 1 .. k /\ j = k + 1
      <3>1. i \in 1 .. n /\ new[i] = s[i] /\ new[j] = m /\ KsPriority[s[i]] > KsPriority[m]
        BY <1>5, <1>6, <2>3
      <3> QED  BY <1>3, <1>6, <1>9, <3>1
    <2>4. CASE i \in 1 .. k /\ j \in (k + 2) .. (n + 1)
      <3>1. j - 1 \in 1 .. n /\ new[j] = s[j - 1]
        BY <1>7, <2>4
      <3>2. i \in 1 .. n /\ i < j - 1
        BY <2>4
      <3>3. new[i] = s[i]
        BY <1>5, <2>4
      <3> QED  BY <2>1, <3>1, <3>2, <3>3
    <2>5. CASE i = k + 1 /\ j \in (k + 2) .. (n + 1)
      <3>1. j - 1 \in 1 .. n /\ ~(j - 1 <= k) /\ new[j] = s[j - 1] /\ new[i] = m
        BY <1>5, <1>7, <2>5
      <3> QED  BY <1>3, <1>6, <1>9, <3>1
    <2>6. CASE i \in (k + 2) .. (n + 1) /\ j \in (k + 2) .. (n + 1)
      <3>1. j - 1 \in 1 .. n /\ new[j] = s[j - 1] /\ i - 1 \in 1 .. n /\ new[i] = s[i - 1] /\ i - 1 < j - 1
        BY <1>7, <2>6
      <3> QED  BY <2>1, <3>1
    <2>7. /\ i \in 1 .. k \/ i = k + 1 \/ i \in (k + 2) .. (n + 1)
          /\ j \in 1 .. k \/ j = k + 1 \/ j \in (k + 2) .. (n + 1)
      BY <1>8
    <2>8. /\ ~(i \in (k + 2) .. (n + 1) /\ j \in 1 .. k + 1) /\ ~(i = k + 1 /\ j \in 1 .. k + 1)
      OBVIOUS
    <2>9. j \in 1 .. k \/ j = k + 1 => j \in 1 .. k + 1
      OBVIOUS
    <2> QED  BY <2>2, <2>3, <2>4, <2>5, <2>6, <2>7, <2>8, <2>9
  <1>11. DOMAIN new = 1 .. n + 1
    BY <1>5, LenProperties
  <1>12. \A x \in ToSet(s) \cup {m} : x \in ToSet(new)
    <2>1. ASSUME NEW i \in 1 .. n  PROVE s[i] \in ToSet(new)
      <3>1. CASE i \in 1 .. k
        <4>1. i \in 1 .. n + 1 /\ new[i] = s[i]
          BY SMTT(40), <1>5, <3>1
        <4> QED  BY <1>11, <4>1 DEF ToSet
      <3>2. CASE i \in (k + 1) .. n
        <4>1. i + 1 \in 1 .. n + 1
          OBVIOUS
        <4>2. new[i + 1] = s[i]
          BY <1>5, <3>2
        <4> QED  BY <1>11, <4>1, <4>2 DEF ToSet
      <3>3. i \in 1 .. k \/ i \in (k + 1) .. n
        OBVIOUS
      <3> QED  BY <3>1, <3>2, <3>3
    <2>2. m \in ToSet(new)
      <3>1. k + 1 \in 1 .. n + 1
        OBVIOUS
      <3> QED  BY <1>5, <1>11, <3>1 DEF ToSet
    <2>3. ToSet(s) = {s[i] : i \in 1 .. n}
      BY <1>3 DEF ToSet
    <2> QED  BY <2>1, <2>2, <2>3
  <1>13. \A x \in ToSet(new) : x \in ToSet(s) \cup {m}
    <2> SUFFICES ASSUME NEW i \in 1 .. n + 1 PROVE new[i] \in ToSet(s) \cup {m}
      BY <1>11 DEF ToSet
    <2>1. CASE i \in 1 .. k
      <3>1. i \in 1 .. n /\ new[i] = s[i]
        BY <1>5, <2>1
      <3> QED  BY <1>3, <3>1 DEF ToSet
    <2>2. CASE i \in (k + 2) .. (n + 1)
      BY <1>3, <1>7, <2>2 DEF ToSet
    <2> QED  BY <1>5, <1>8, <2>1, <2>2
  <1> QED  BY <1>1, <1>5, <1>10, <1>12, <1>13

\* The first message is one that none outranks, and leaves with Tail.
LEMMA TailKeepsOrder ==
    ASSUME NEW s \in Seq(KsMessages), Ordered(s), s # <<>>
    PROVE  /\ Tail(s) \in Seq(KsMessages) /\ Len(Tail(s)) = Len(s) - 1 /\ Len(s) > 0 /\ Ordered(Tail(s))
           /\ Head(s) \in ToSet(s)
           /\ \A x \in ToSet(s) : KsPriority[x] <= KsPriority[Head(s)]
           /\ ToSet(Tail(s)) = ToSet(s) \ {Head(s)}
  <1>1. /\ Len(s) \in Nat \ {0} /\ DOMAIN s = 1 .. Len(s)
        /\ \A i \in 1 .. Len(s) : s[i] \in KsMessages /\ KsPriority[s[i]] \in Nat
    BY LenProperties, EmptySeq
  <1>2. /\ Tail(s) \in Seq(KsMessages) /\ Len(Tail(s)) = Len(s) - 1 /\ Head(s) = s[1]
        /\ \A i \in 1 .. Len(Tail(s)) : Tail(s)[i] = s[i + 1]
    BY HeadTailProperties
  <1>3. DOMAIN Tail(s) = 1 .. Len(s) - 1
    BY <1>2, LenProperties
  <1>4. Ordered(Tail(s))
    BY <1>1, <1>2 DEF Ordered
  <1>5. \A x \in ToSet(s) : KsPriority[x] <= KsPriority[Head(s)]
    <2> SUFFICES ASSUME NEW i \in 1 .. Len(s) PROVE KsPriority[s[i]] <= KsPriority[s[1]]
      BY <1>1, <1>2 DEF ToSet
    <2>1. CASE i = 1  BY <1>1, <2>1
    <2>2. CASE i > 1  BY <1>1, <2>2 DEF Ordered
    <2> QED  BY <2>1, <2>2
  <1>6. ToSet(Tail(s)) = ToSet(s) \ {Head(s)}
    <2>1. ASSUME NEW i \in 1 .. Len(s) - 1  PROVE Tail(s)[i] \in ToSet(s) \ {Head(s)}
      <3>1. Tail(s)[i] = s[i + 1] /\ i + 1 \in 1 .. Len(s) /\ 1 \in 1 .. Len(s) /\ 1 < i + 1
        BY <1>1, <1>2
      <3> QED  BY <1>1, <1>2, <3>1 DEF ToSet, Ordered
    <2>2. ASSUME NEW i \in 1 .. Len(s), i # 1  PROVE s[i] \in ToSet(Tail(s))
      <3>1. i - 1 \in 1 .. Len(s) - 1 /\ Tail(s)[i - 1] = s[i]
        BY <1>1, <1>2, <2>2
      <3> QED  BY <1>3, <3>1 DEF ToSet
    <2>3. ToSet(Tail(s)) = {Tail(s)[i] : i \in 1 .. Len(s) - 1}
      BY <1>3 DEF ToSet
    <2>4. ToSet(s) = {s[i] : i \in 1 .. Len(s)}
      BY <1>1 DEF ToSet
    <2>5. \A x \in ToSet(Tail(s)) : x \in ToSet(s) \ {Head(s)}
      BY <2>1, <2>3
    <2>6. \A x \in ToSet(s) \ {Head(s)} : x \in ToSet(Tail(s))
      BY <1>2, <2>2, <2>4
    <2> QED  BY <2>5, <2>6
  <1>7. Head(s) \in ToSet(s)
    BY <1>1, <1>2 DEF ToSet
  <1> QED  BY <1>1, <1>2, <1>4, <1>5, <1>6, <1>7

\* The box holds no more messages than the queue.
LEMMA BoxBounded ==
    ASSUME NEW s \in Seq(KsMessages)
    PROVE  IsFiniteSet(ToSet(s)) /\ Cardinality(ToSet(s)) \in Nat /\ Cardinality(ToSet(s)) <= Len(s)
  <1>1. Len(s) \in Nat /\ DOMAIN s = 1 .. Len(s) /\ s \in [1 .. Len(s) -> KsMessages]
    BY LenProperties
  <1>2. s \in Surjection(1 .. Len(s), ToSet(s))
    BY <1>1 DEF Surjection, ToSet
  <1>3. IsFiniteSet(1 .. Len(s)) /\ Cardinality(1 .. Len(s)) = Len(s)
    BY <1>1, CountTo
  <1> QED  BY <1>2, <1>3, FS_Surjection, FS_CardinalityType
-----------------------------------------------------------------------------
(* The message queue.  Its messages are in order; those the senders carry  *)
(* are not in it; and as long as a thread sleeps on either side, enough of *)
(* its like are awake for the messages, or the places, that are there.     *)

AtRecords == [op : {"idle", "send", "recv", "sendAsleep", "recvAsleep", "rdLock",
                    "wrLock", "condAsleep", "condAwake"},
              msg : KsMessages \cup {KsNobody}]

MqTypeOK ==
    /\ ksMq \in [open : BOOLEAN, msgs : Seq(KsMessages)]
    /\ ksTaken \subseteq KsMessages
    /\ ksAt \in [KsThreads -> AtRecords]

Sends(r) == r.op \in {"send", "sendAsleep"}

InFlightApart ==
    \A t \in KsThreads : Sends(ksAt[t]) =>
        /\ ksAt[t].msg \in KsMessages
        /\ ksAt[t].msg \notin ToSet(ksMq.msgs) /\ ksAt[t].msg \notin ksTaken
        /\ \A u \in KsThreads : u # t /\ Sends(ksAt[u]) => ksAt[u].msg # ksAt[t].msg

\* The threads at one place of SendMsg or RecvMsg.
Those(at, op) == {t \in KsThreads : at[t].op = op}

EnoughAwake ==
    /\ Those(ksAt, "recvAsleep") # {} => Len(ksMq.msgs) <= Cardinality(Those(ksAt, "recv"))
    /\ Those(ksAt, "sendAsleep") # {} => KsCapacity <= Len(ksMq.msgs) + Cardinality(Those(ksAt, "send"))

MqInv ==
    /\ MqTypeOK
    /\ Ordered(ksMq.msgs)
    /\ InFlightApart
    /\ ksMq.open => EnoughAwake

LEMMA ThoseFinite ==
    ASSUME NEW at, NEW op
    PROVE  IsFiniteSet(Those(at, op)) /\ Cardinality(Those(at, op)) \in Nat
  <1>1. Those(at, op) \in SUBSET KsThreads  BY DEF Those
  <1> QED  BY <1>1, FS_Subset, FS_CardinalityType

LEMMA MoreOfThose ==
    ASSUME NEW at, NEW new, NEW op, Those(at, op) \subseteq Those(new, op)
    PROVE  Cardinality(Those(at, op)) <= Cardinality(Those(new, op))
  <1>1. IsFiniteSet(Those(new, op))  BY ThoseFinite
  <1> QED  BY <1>1, FS_Subset

\* One more thread is there, one thread less.
LEMMA OneMoreOfThose ==
    ASSUME NEW at, NEW new, NEW op, NEW t, t \notin Those(at, op), Those(new, op) = Those(at, op) \cup {t}
    PROVE  Cardinality(Those(new, op)) = Cardinality(Those(at, op)) + 1
  <1>1. IsFiniteSet(Those(at, op))  BY ThoseFinite
  <1> QED  BY <1>1, FS_AddElement

LEMMA OneLessOfThose ==
    ASSUME NEW at, NEW new, NEW op, NEW t, t \in Those(at, op), Those(new, op) = Those(at, op) \ {t}
    PROVE  Cardinality(Those(new, op)) = Cardinality(Those(at, op)) - 1
  <1>1. IsFiniteSet(Those(at, op))  BY ThoseFinite
  <1> QED  BY <1>1, FS_RemoveElement

LEMMA MqInvInit == KsInit => MqInv
  <1> SUFFICES ASSUME KsInit PROVE MqInv
    OBVIOUS
  <1>1. MqTypeOK
    BY EmptySeq DEF KsInit, MqTypeOK, AtRecords, KsIdle
  <1>2. Ordered(ksMq.msgs)
    BY EmptySeq DEF KsInit, Ordered
  <1>3. InFlightApart
    BY DEF KsInit, InFlightApart, Sends, KsIdle
  <1>4. Those(ksAt, "recvAsleep") = {} /\ Those(ksAt, "sendAsleep") = {}
    BY DEF KsInit, KsIdle, Those
  <1> QED  BY <1>1, <1>2, <1>3, <1>4 DEF MqInv, EnoughAwake

\* A thread that is not in the queue's business stays out of it.
LEMMA OutsideKeeps ==
    ASSUME MqInv, UNCHANGED <<ksMq, ksTaken>>, ksAt' \in [KsThreads -> AtRecords],
           \A t \in KsThreads : \/ ksAt'[t] = ksAt[t]
                                \/ /\ ksAt[t].op \notin {"send", "recv", "sendAsleep", "recvAsleep"}
                                   /\ ksAt'[t].op \notin {"send", "recv", "sendAsleep", "recvAsleep"}
    PROVE  MqInv'
  <1>1. \A op \in {"send", "recv", "sendAsleep", "recvAsleep"} : Those(ksAt', op) = Those(ksAt, op)
    BY DEF Those
  <1>2. MqTypeOK' /\ Ordered(ksMq.msgs)' /\ InFlightApart'
    BY DEF MqInv, MqTypeOK, InFlightApart, Sends, Ordered
  <1>3. ksMq'.open => EnoughAwake'
    BY <1>1 DEF MqInv, EnoughAwake
  <1> QED  BY <1>2, <1>3 DEF MqInv

LEMMA SendMsgKeeps ==
    ASSUME MqInv, NEW t \in KsThreads, NEW m \in KsMessages, SendMsg(t, m)
    PROVE  MqInv'
  <1> USE DEF MqTypeOK
  <1>1. ksMq' = ksMq /\ ksTaken' = ksTaken /\ ksMq.open /\ ksAt[t].op = "idle"
    BY DEF SendMsg, ksMqVars, KsFree, KsIdle
  <1>2. ksAt'[t] = [op |-> "send", msg |-> m] /\ \A u \in KsThreads : u # t => ksAt'[u] = ksAt[u]
    BY DEF SendMsg, MqInv
  <1>3. MqTypeOK'
    BY <1>1 DEF SendMsg, MqInv, AtRecords
  <1>4. InFlightApart'
    BY <1>1, <1>2 DEF SendMsg, MqInv, InFlightApart, Sends
  <1>5. EnoughAwake'
    <2>1. /\ Those(ksAt', "recvAsleep") = Those(ksAt, "recvAsleep")
          /\ Those(ksAt', "recv") = Those(ksAt, "recv")
          /\ Those(ksAt', "sendAsleep") = Those(ksAt, "sendAsleep")
          /\ Those(ksAt, "send") \subseteq Those(ksAt', "send")
      BY <1>1, <1>2 DEF Those
    <2>2. Cardinality(Those(ksAt, "send")) <= Cardinality(Those(ksAt', "send"))
      BY <2>1, MoreOfThose
    <2>3. Cardinality(Those(ksAt, "send")) \in Nat /\ Cardinality(Those(ksAt', "send")) \in Nat /\ Len(ksMq.msgs) \in Nat
      BY ThoseFinite, LenProperties DEF MqInv
    <2> QED  BY <1>1, <2>1, <2>2, <2>3 DEF MqInv, EnoughAwake
  <1> QED  BY <1>1, <1>3, <1>4, <1>5 DEF MqInv

LEMMA RecvMsgKeeps ==
    ASSUME MqInv, NEW t \in KsThreads, RecvMsg(t)
    PROVE  MqInv'
  <1> USE DEF MqTypeOK
  <1>1. ksMq' = ksMq /\ ksTaken' = ksTaken /\ ksMq.open /\ ksAt[t].op = "idle"
    BY DEF RecvMsg, ksMqVars, KsFree, KsIdle
  <1>2. ksAt'[t].op = "recv" /\ \A u \in KsThreads : u # t => ksAt'[u] = ksAt[u]
    BY DEF RecvMsg, KsTo, MqInv, AtRecords
  <1>3. MqTypeOK'
    BY <1>1 DEF RecvMsg, KsTo, MqInv, AtRecords
  <1>4. InFlightApart'
    BY <1>1, <1>2 DEF MqInv, InFlightApart, Sends
  <1>5. EnoughAwake'
    <2>1. /\ Those(ksAt', "recvAsleep") = Those(ksAt, "recvAsleep")
          /\ Those(ksAt, "recv") \subseteq Those(ksAt', "recv")
          /\ Those(ksAt', "sendAsleep") = Those(ksAt, "sendAsleep")
          /\ Those(ksAt', "send") = Those(ksAt, "send")
      BY <1>1, <1>2 DEF Those
    <2>2. Cardinality(Those(ksAt, "recv")) <= Cardinality(Those(ksAt', "recv"))
      BY <2>1, MoreOfThose
    <2>3. Cardinality(Those(ksAt, "recv")) \in Nat /\ Cardinality(Those(ksAt', "recv")) \in Nat /\ Len(ksMq.msgs) \in Nat
      BY ThoseFinite, LenProperties DEF MqInv
    <2> QED  BY <1>1, <2>1, <2>2, <2>3 DEF MqInv, EnoughAwake
  <1> QED  BY <1>1, <1>3, <1>4, <1>5 DEF MqInv

\* ReturnAndWake, thread by thread.
LEMMA Woken ==
    ASSUME MqInv, NEW t \in KsThreads, NEW asleep, NEW awake \in {"send", "recv"},
           asleep \in {"sendAsleep", "recvAsleep"}, ksAt[t].op # asleep, ReturnAndWake(t, asleep, awake)
    PROVE  /\ ksAt' \in [KsThreads -> AtRecords]
           /\ ksAt'[t] = KsIdle
           /\ \/ /\ Those(ksAt, asleep) = {}
                 /\ \A v \in KsThreads : v # t => ksAt'[v] = ksAt[v]
              \/ \E u \in KsThreads :
                   /\ u # t /\ ksAt[u].op = asleep
                   /\ ksAt'[u].op = awake /\ ksAt'[u].msg = ksAt[u].msg
                   /\ \A v \in KsThreads : v # t /\ v # u => ksAt'[v] = ksAt[v]
  <1> USE DEF MqTypeOK
  <1>1. KsIdle \in AtRecords
    BY DEF KsIdle, AtRecords
  <1>2. CASE /\ \A u \in KsThreads : ksAt[u].op # asleep
             /\ KsBack(t)
    BY <1>1, <1>2 DEF KsBack, MqInv, Those
  <1>3. CASE \E u \in KsThreads : /\ ksAt[u].op = asleep
                                  /\ ksAt' = [ksAt EXCEPT ![t] = KsIdle, ![u].op = awake]
    <2>1. PICK u \in KsThreads : /\ ksAt[u].op = asleep
                                 /\ ksAt' = [ksAt EXCEPT ![t] = KsIdle, ![u].op = awake]
      BY <1>3
    <2>2. u # t
      BY <2>1
    <2>3. /\ ksAt'[t] = KsIdle /\ ksAt'[u] = [ksAt[u] EXCEPT !.op = awake]
          /\ \A v \in KsThreads : v # t /\ v # u => ksAt'[v] = ksAt[v]
      BY <2>1, <2>2 DEF MqInv
    <2>4. /\ ksAt'[u] \in AtRecords /\ ksAt'[u].op = awake /\ ksAt'[u].msg = ksAt[u].msg
      <3>1. ksAt[u] \in AtRecords
        BY DEF MqInv
      <3> QED  BY <2>3, <3>1 DEF AtRecords
    <2>5. ksAt' \in [KsThreads -> AtRecords]
      BY <1>1, <2>1, <2>2, <2>3, <2>4 DEF MqInv
    <2> QED  BY <2>1, <2>2, <2>3, <2>4, <2>5
  <1> QED  BY <1>2, <1>3 DEF ReturnAndWake

\* The message leaves the sender's hands for its place in the queue.
LEMMA SendNowKeeps ==
    ASSUME MqInv, NEW t \in KsThreads, SendNow(t)
    PROVE  MqInv'
  <1> USE DEF MqTypeOK
  <1>1. PICK m \in KsMessages : m = ksAt[t].msg
    BY DEF SendNow, MqInv, InFlightApart, Sends
  <1>2. /\ ksAt[t].op = "send" /\ ksMq.open /\ Len(ksMq.msgs) < KsCapacity
        /\ ksMq' = [ksMq EXCEPT !.msgs = InsertAt(@, InsertionPoint(m), m)]
        /\ ReturnAndWake(t, "recvAsleep", "recv") /\ ksTaken' = ksTaken
    BY <1>1 DEF SendNow
  <1>3. /\ ksMq.msgs \in Seq(KsMessages) /\ Ordered(ksMq.msgs) /\ m \notin ToSet(ksMq.msgs) /\ m \notin ksTaken
        /\ Len(ksMq.msgs) \in Nat
    BY <1>1, <1>2, LenProperties DEF MqInv, InFlightApart, Sends
  <1>4. ksMq'.open = ksMq.open /\ ksMq'.msgs = InsertAt(ksMq.msgs, Cardinality(Outranks(ksMq.msgs, m)) + 1, m)
    BY <1>2 DEF MqInv, InsertionPoint, Outranks
  <1>5. /\ ksMq'.msgs \in Seq(KsMessages) /\ Len(ksMq'.msgs) = Len(ksMq.msgs) + 1
        /\ Ordered(ksMq'.msgs) /\ ToSet(ksMq'.msgs) = ToSet(ksMq.msgs) \cup {m}
    BY <1>3, <1>4, InsertKeepsOrder
  <1>6. /\ ksAt' \in [KsThreads -> AtRecords]
        /\ ksAt'[t] = KsIdle
        /\ \/ /\ Those(ksAt, "recvAsleep") = {}
              /\ \A v \in KsThreads : v # t => ksAt'[v] = ksAt[v]
           \/ \E u \in KsThreads :
                /\ u # t /\ ksAt[u].op = "recvAsleep"
                /\ ksAt'[u].op = "recv" /\ ksAt'[u].msg = ksAt[u].msg
                /\ \A v \in KsThreads : v # t /\ v # u => ksAt'[v] = ksAt[v]
    BY <1>2, Woken
  <1>7. MqTypeOK'
    BY <1>2, <1>5, <1>6 DEF MqInv
  <1>8. InFlightApart'
    <2> SUFFICES ASSUME NEW v \in KsThreads, Sends(ksAt'[v])
                 PROVE  /\ ksAt'[v].msg \in KsMessages
                        /\ ksAt'[v].msg \notin ToSet(ksMq'.msgs) /\ ksAt'[v].msg \notin ksTaken'
                        /\ \A u \in KsThreads : u # v /\ Sends(ksAt'[u]) => ksAt'[u].msg # ksAt'[v].msg
      BY DEF InFlightApart
    <2>1. \A u \in KsThreads : Sends(ksAt'[u]) => u # t /\ ksAt'[u] = ksAt[u]
      BY <1>6 DEF Sends, KsIdle
    <2>2. v # t /\ ksAt'[v] = ksAt[v] /\ Sends(ksAt[v]) /\ Sends(ksAt[t]) /\ ksAt[v].msg # m
      BY <1>1, <1>2, <2>1 DEF MqInv, InFlightApart, Sends
    <2> QED  BY <1>2, <1>5, <2>1, <2>2 DEF MqInv, InFlightApart
  <1>9. EnoughAwake'
    <2>1. Those(ksAt', "sendAsleep") = Those(ksAt, "sendAsleep") /\ Those(ksAt', "send") = Those(ksAt, "send") \ {t}
      BY <1>2, <1>6 DEF Those, KsIdle
    <2>2. Cardinality(Those(ksAt', "send")) = Cardinality(Those(ksAt, "send")) - 1
      <3>1. t \in Those(ksAt, "send")
        BY <1>2 DEF Those
      <3> QED  BY <2>1, <3>1, OneLessOfThose
    <2>3. /\ Cardinality(Those(ksAt, "send")) \in Nat /\ Cardinality(Those(ksAt, "recv")) \in Nat
          /\ Cardinality(Those(ksAt', "recv")) \in Nat
      BY ThoseFinite
    <2>4. CASE Those(ksAt, "recvAsleep") = {} /\ \A v \in KsThreads : v # t => ksAt'[v] = ksAt[v]
      <3>1. Those(ksAt', "recvAsleep") = {}
        BY <1>6, <2>4 DEF Those, KsIdle
      <3> QED  BY <1>2, <1>3, <1>5, <2>1, <2>2, <2>3, <3>1 DEF MqInv, EnoughAwake
    <2>5. ASSUME NEW u \in KsThreads, u # t, ksAt[u].op = "recvAsleep", ksAt'[u].op = "recv",
                 \A v \in KsThreads : v # t /\ v # u => ksAt'[v] = ksAt[v]
          PROVE  EnoughAwake'
      <3>1. u \notin Those(ksAt, "recv") /\ Those(ksAt', "recv") = Those(ksAt, "recv") \cup {u}
        BY <1>2, <1>6, <2>5 DEF Those, KsIdle
      <3>2. Cardinality(Those(ksAt', "recv")) = Cardinality(Those(ksAt, "recv")) + 1
        BY <3>1, OneMoreOfThose
      <3>3. Those(ksAt, "recvAsleep") # {}
        BY <2>5 DEF Those
      <3> QED  BY SMTT(40), <1>2, <1>3, <1>5, <2>1, <2>2, <2>3, <3>2, <3>3 DEF MqInv, EnoughAwake
    <2> QED  BY <1>6, <2>4, <2>5
  <1> QED  BY <1>5, <1>7, <1>8, <1>9 DEF MqInv

LEMMA RecvNowKeeps ==
    ASSUME MqInv, NEW t \in KsThreads, RecvNow(t)
    PROVE  MqInv'
  <1> USE DEF MqTypeOK
  <1>1. /\ ksAt[t].op = "recv" /\ ksMq.open /\ ksMq.msgs # <<>>
        /\ ksMq'.open = ksMq.open /\ ksMq'.msgs = Tail(ksMq.msgs) /\ ksMq' = [ksMq EXCEPT !.msgs = Tail(@)]
        /\ ReturnAndWake(t, "sendAsleep", "send") /\ ksTaken' = ksTaken \cup {Head(ksMq.msgs)}
    BY DEF RecvNow, MqInv
  <1>2. ksMq.msgs \in Seq(KsMessages) /\ Ordered(ksMq.msgs) /\ Len(ksMq.msgs) \in Nat
    BY LenProperties DEF MqInv
  <1>3. /\ ksMq'.msgs \in Seq(KsMessages) /\ Len(ksMq'.msgs) = Len(ksMq.msgs) - 1 /\ Len(ksMq.msgs) > 0
        /\ Ordered(ksMq'.msgs) /\ Head(ksMq.msgs) \in ToSet(ksMq.msgs)
        /\ ToSet(ksMq'.msgs) = ToSet(ksMq.msgs) \ {Head(ksMq.msgs)}
    BY <1>1, <1>2, TailKeepsOrder
  <1>4. /\ ksAt' \in [KsThreads -> AtRecords]
        /\ ksAt'[t] = KsIdle
        /\ \/ /\ Those(ksAt, "sendAsleep") = {}
              /\ \A v \in KsThreads : v # t => ksAt'[v] = ksAt[v]
           \/ \E u \in KsThreads :
                /\ u # t /\ ksAt[u].op = "sendAsleep"
                /\ ksAt'[u].op = "send" /\ ksAt'[u].msg = ksAt[u].msg
                /\ \A v \in KsThreads : v # t /\ v # u => ksAt'[v] = ksAt[v]
    BY <1>1, Woken
  <1>5. MqTypeOK'
    <2>1. Head(ksMq.msgs) \in KsMessages
      BY <1>1, <1>2, HeadTailProperties
    <2> QED  BY <1>1, <1>3, <1>4, <2>1 DEF MqInv
  <1>6. InFlightApart'
    <2>1. \A v \in KsThreads : Sends(ksAt'[v]) => Sends(ksAt[v]) /\ ksAt'[v].msg = ksAt[v].msg
      BY <1>4 DEF Sends, KsIdle
    <2> QED  BY <1>1, <1>3, <2>1 DEF MqInv, InFlightApart
  <1>7. EnoughAwake'
    <2>1. Those(ksAt', "recvAsleep") = Those(ksAt, "recvAsleep") /\ Those(ksAt', "recv") = Those(ksAt, "recv") \ {t}
      BY <1>1, <1>4 DEF Those, KsIdle
    <2>2. Cardinality(Those(ksAt', "recv")) = Cardinality(Those(ksAt, "recv")) - 1
      <3>1. t \in Those(ksAt, "recv")
        BY <1>1 DEF Those
      <3> QED  BY <2>1, <3>1, OneLessOfThose
    <2>3. /\ Cardinality(Those(ksAt, "send")) \in Nat /\ Cardinality(Those(ksAt, "recv")) \in Nat
          /\ Cardinality(Those(ksAt', "send")) \in Nat
      BY ThoseFinite
    <2>4. CASE Those(ksAt, "sendAsleep") = {} /\ \A v \in KsThreads : v # t => ksAt'[v] = ksAt[v]
      <3>1. Those(ksAt', "sendAsleep") = {}
        BY <1>4, <2>4 DEF Those, KsIdle
      <3> QED  BY <1>1, <1>2, <1>3, <2>1, <2>2, <2>3, <3>1 DEF MqInv, EnoughAwake
    <2>5. ASSUME NEW u \in KsThreads, u # t, ksAt[u].op = "sendAsleep", ksAt'[u].op = "send",
                 \A v \in KsThreads : v # t /\ v # u => ksAt'[v] = ksAt[v]
          PROVE  EnoughAwake'
      <3>1. u \notin Those(ksAt, "send") /\ Those(ksAt', "send") = Those(ksAt, "send") \cup {u}
        BY <1>1, <1>4, <2>5 DEF Those, KsIdle
      <3>2. Cardinality(Those(ksAt', "send")) = Cardinality(Those(ksAt, "send")) + 1
        BY <3>1, OneMoreOfThose
      <3>3. Those(ksAt, "sendAsleep") # {}
        BY <2>5 DEF Those
      <3> QED  BY <1>1, <1>2, <1>3, <2>1, <2>2, <2>3, <3>2, <3>3 DEF MqInv, EnoughAwake
    <2> QED  BY <1>4, <2>4, <2>5
  <1> QED  BY <1>3, <1>5, <1>6, <1>7 DEF MqInv

\* A thread goes to sleep when there is nothing for it, and a deadline takes one out.
LEMMA SleepersKeep ==
    ASSUME MqInv, NEW t \in KsThreads, MqSleep(t) \/ MqTimeout(t)
    PROVE  MqInv'
  <1> USE DEF MqTypeOK
  <1>1. ksMq' = ksMq /\ ksTaken' = ksTaken /\ ksMq.open
    BY DEF MqSleep, MqTimeout, ksMqVars
  <1>2. ksAt[t] \in AtRecords
    BY DEF MqInv
  <1>3. /\ ksAt' \in [KsThreads -> AtRecords]
        /\ \A u \in KsThreads : u # t => ksAt'[u] = ksAt[u]
        /\ ksAt'[t] = KsIdle \/ ksAt'[t].msg = ksAt[t].msg
        /\ \/ ksAt[t].op = "send" /\ ksAt'[t].op = "sendAsleep" /\ Len(ksMq.msgs) >= KsCapacity
           \/ ksAt[t].op = "recv" /\ ksAt'[t].op = "recvAsleep" /\ ksMq.msgs = <<>>
           \/ ksAt[t].op = "sendAsleep" /\ (ksAt'[t] = KsIdle \/ ksAt'[t].op = "send")
           \/ ksAt[t].op = "recvAsleep" /\ (ksAt'[t] = KsIdle \/ ksAt'[t].op = "recv")
    <2>1. KsIdle \in AtRecords
      BY DEF KsIdle, AtRecords
    <2>2. ASSUME KsBack(t)
          PROVE  /\ ksAt' \in [KsThreads -> AtRecords]
                 /\ \A u \in KsThreads : u # t => ksAt'[u] = ksAt[u]
                 /\ ksAt'[t] = KsIdle
      BY <2>1, <2>2 DEF KsBack, MqInv
    <2>3. ASSUME NEW op \in {"send", "sendAsleep", "recv", "recvAsleep"}, KsTo(t, op)
          PROVE  /\ ksAt' \in [KsThreads -> AtRecords]
                 /\ \A u \in KsThreads : u # t => ksAt'[u] = ksAt[u]
                 /\ ksAt'[t].msg = ksAt[t].msg /\ ksAt'[t].op = op
      BY <1>2, <2>3 DEF KsTo, AtRecords, MqInv
    <2> QED  BY <2>2, <2>3 DEF MqSleep, MqTimeout
  <1>4. MqTypeOK'
    BY <1>1, <1>3 DEF MqInv
  <1>5. InFlightApart'
    <2>1. \A v \in KsThreads : Sends(ksAt'[v]) => Sends(ksAt[v]) /\ ksAt'[v].msg = ksAt[v].msg
      BY <1>3 DEF Sends, KsIdle
    <2> QED  BY <1>1, <2>1 DEF MqInv, InFlightApart
  <1>6. EnoughAwake'
    <2>1. /\ Len(ksMq.msgs) \in Nat /\ (ksMq.msgs = <<>> => Len(ksMq.msgs) = 0)
      BY LenProperties DEF MqInv
    <2>2. \A op \in {"send", "recv"} : Cardinality(Those(ksAt, op)) \in Nat /\ Cardinality(Those(ksAt', op)) \in Nat
      BY ThoseFinite
    <2>3. CASE ksAt[t].op = "send" /\ ksAt'[t].op = "sendAsleep" /\ Len(ksMq.msgs) >= KsCapacity
      <3>1. Those(ksAt', "recv") = Those(ksAt, "recv") /\ Those(ksAt', "recvAsleep") = Those(ksAt, "recvAsleep")
        BY <1>3, <2>3 DEF Those
      <3> QED  BY <1>1, <2>1, <2>2, <2>3, <3>1 DEF MqInv, EnoughAwake
    <2>4. CASE ksAt[t].op = "recv" /\ ksAt'[t].op = "recvAsleep" /\ ksMq.msgs = <<>>
      <3>1. Those(ksAt', "send") = Those(ksAt, "send") /\ Those(ksAt', "sendAsleep") = Those(ksAt, "sendAsleep")
        BY <1>3, <2>4 DEF Those
      <3> QED  BY <1>1, <2>1, <2>2, <2>4, <3>1 DEF MqInv, EnoughAwake
    <2>5. CASE /\ ksAt[t].op \in {"sendAsleep", "recvAsleep"}
               /\ ksAt'[t].op \in {"idle", "send", "recv"}
      <3>1. /\ Those(ksAt', "sendAsleep") \subseteq Those(ksAt, "sendAsleep")
            /\ Those(ksAt', "recvAsleep") \subseteq Those(ksAt, "recvAsleep")
            /\ Those(ksAt, "send") \subseteq Those(ksAt', "send")
            /\ Those(ksAt, "recv") \subseteq Those(ksAt', "recv")
        BY <1>3, <2>5 DEF Those
      <3>2. /\ Cardinality(Those(ksAt, "send")) <= Cardinality(Those(ksAt', "send"))
            /\ Cardinality(Those(ksAt, "recv")) <= Cardinality(Those(ksAt', "recv"))
        BY <3>1, MoreOfThose
      <3> QED  BY <1>1, <2>1, <2>2, <3>1, <3>2 DEF MqInv, EnoughAwake
    <2> QED  BY <1>3, <2>3, <2>4, <2>5 DEF KsIdle
  <1> QED  BY <1>1, <1>4, <1>5, <1>6 DEF MqInv

LEMMA CloseMqKeeps ==
    ASSUME MqInv, CloseMq
    PROVE  MqInv'
  <1> USE DEF MqTypeOK
  <1>1. ksMq'.open = FALSE /\ ksMq'.msgs = <<>> /\ ksTaken' = ksTaken
    BY DEF CloseMq
  <1>2. \A t \in KsThreads : ksAt'[t] \in AtRecords /\ ksAt'[t].msg = ksAt[t].msg /\ (Sends(ksAt'[t]) <=> Sends(ksAt[t]))
    <2> SUFFICES ASSUME NEW t \in KsThreads
                 PROVE  /\ ksAt'[t] \in AtRecords /\ ksAt'[t].msg = ksAt[t].msg
                        /\ Sends(ksAt'[t]) <=> Sends(ksAt[t])
      OBVIOUS
    <2>1. ksAt[t] \in AtRecords
      BY DEF MqInv
    <2>2. CASE ksAt[t].op = "sendAsleep"
      BY <2>1, <2>2 DEF CloseMq, AtRecords, Sends
    <2>3. CASE ksAt[t].op = "recvAsleep"
      BY <2>1, <2>3 DEF CloseMq, AtRecords, Sends
    <2>4. CASE ksAt[t].op \notin {"sendAsleep", "recvAsleep"}
      BY <2>1, <2>4 DEF CloseMq, AtRecords, Sends
    <2> QED  BY <2>2, <2>3, <2>4
  <1>3. MqTypeOK'
    <2>1. ksAt' \in [KsThreads -> AtRecords]
      BY <1>2 DEF CloseMq
    <2>2. ksMq' \in [open : BOOLEAN, msgs : Seq(KsMessages)]
      BY EmptySeq DEF CloseMq
    <2> QED  BY <1>1, <2>1, <2>2 DEF MqInv
  <1>4. Ordered(ksMq'.msgs)
    BY <1>1, EmptySeq DEF Ordered
  <1>5. InFlightApart'
    <2>1. ToSet(ksMq'.msgs) = {}
      BY <1>1 DEF ToSet
    <2> QED  BY <1>1, <1>2, <2>1 DEF MqInv, InFlightApart
  <1> QED  BY <1>1, <1>3, <1>4, <1>5 DEF MqInv

-----------------------------------------------------------------------------
(* Locks and condition variables: their calls leave the queue alone.       *)

LockTypeOK ==
    /\ ksRw \in [open : BOOLEAN, writer : KsThreads \cup {KsNobody}, readers : SUBSET KsThreads]
    /\ ksCv \in BOOLEAN
    /\ ksMutex \in KsThreads \cup {KsNobody}

LEMMA LockStepKeeps ==
    ASSUME MqInv, LockTypeOK, KsLockNext
    PROVE  MqInv' /\ LockTypeOK'
  <1> USE DEF MqTypeOK
  <1>1. UNCHANGED <<ksMq, ksTaken>>
    BY DEF KsLockNext, ksMqVars
  <1> DEFINE Outside(at) ==
               /\ at \in [KsThreads -> AtRecords]
               /\ \A t \in KsThreads : \/ at[t] = ksAt[t]
                                       \/ /\ ksAt[t].op \notin {"send", "recv", "sendAsleep", "recvAsleep"}
                                          /\ at[t].op \notin {"send", "recv", "sendAsleep", "recvAsleep"}
  <1>2. ksAt \in [KsThreads -> AtRecords] /\ \A t \in KsThreads : ksAt[t] \in AtRecords
    BY DEF MqInv
  <1>3. ASSUME NEW t \in KsThreads, KsBack(t), ksAt[t].op \notin {"send", "recv", "sendAsleep", "recvAsleep"}
        PROVE  Outside(ksAt')
    BY <1>2, <1>3 DEF KsBack, KsIdle, AtRecords
  <1>4. ASSUME NEW t \in KsThreads, NEW op \in {"rdLock", "wrLock", "condAsleep"}, KsTo(t, op), KsFree(t)
        PROVE  Outside(ksAt')
    <2>1. ksAt[t].op = "idle"
      BY <1>4 DEF KsFree, KsIdle
    <2>2. ksAt'[t].op = op /\ ksAt'[t] \in AtRecords /\ \A u \in KsThreads : u # t => ksAt'[u] = ksAt[u]
      BY <1>2, <1>4 DEF KsTo, AtRecords
    <2> QED  BY <1>2, <1>4, <2>1, <2>2 DEF KsTo
  <1>5. ASSUME NEW W \in SUBSET KsThreads, CondWake(W), \A t \in W : ksAt[t].op = "condAsleep"
        PROVE  Outside(ksAt')
    <2>1. ASSUME NEW t \in KsThreads
          PROVE  /\ ksAt'[t] \in AtRecords
                 /\ \/ ksAt'[t] = ksAt[t]
                    \/ ksAt[t].op = "condAsleep" /\ ksAt'[t].op = "condAwake"
      <3>1. CASE t \in W
        BY <1>2, <1>5, <3>1 DEF CondWake, AtRecords
      <3>2. CASE t \notin W
        BY <1>2, <1>5, <3>2 DEF CondWake
      <3> QED  BY <3>1, <3>2
    <2>2. ksAt' \in [KsThreads -> AtRecords]
      BY <1>5, <2>1 DEF CondWake
    <2> QED  BY <2>1, <2>2
  <1>6. Outside(ksAt)
    BY <1>2
  <1>7. Outside(ksAt') /\ LockTypeOK'
    <2> HIDE DEF Outside
    <2>1. ASSUME NEW t \in KsThreads, RwLookup(t) \/ WaitCondVar(t)
          PROVE  Outside(ksAt') /\ LockTypeOK'
      BY <1>4, <2>1 DEF RwLookup, WaitCondVar, ksLockVars, LockTypeOK
    <2>2. ASSUME NEW t \in KsThreads, RdLock(t) \/ WrLock(t)
          PROVE  Outside(ksAt') /\ LockTypeOK'
      <3>1. Outside(ksAt')
        BY <1>3, <2>2 DEF RdLock, WrLock
      <3> QED  BY <2>2, <3>1 DEF RdLock, WrLock, LockTypeOK
    <2>3. ASSUME NEW t \in KsThreads, CondReturns(t) \/ CondTimeout(t)
          PROVE  Outside(ksAt') /\ LockTypeOK'
      BY <1>3, <2>3 DEF CondReturns, CondTimeout, ksLockVars, LockTypeOK
    <2>4. ASSUME NEW t \in KsThreads, RwUnlock(t) \/ GuestLock(t) \/ GuestUnlock(t)
          PROVE  Outside(ksAt') /\ LockTypeOK'
      <3>1. ksAt' = ksAt
        BY <2>4 DEF RwUnlock, GuestLock, GuestUnlock
      <3>2. CASE RwUnlock(t)
        BY <1>6, <3>1, <3>2 DEF RwUnlock, LockTypeOK
      <3>3. CASE GuestLock(t) \/ GuestUnlock(t)
        BY <1>6, <3>1, <3>3 DEF GuestLock, GuestUnlock, LockTypeOK
      <3> QED  BY <2>4, <3>2, <3>3
    <2>5. CASE SignalCondVar
      <3>1. PICK t \in CondSleepers : CondWake({t})
        BY <2>5 DEF SignalCondVar
      <3>2. {t} \in SUBSET KsThreads /\ ksAt[t].op = "condAsleep"
        BY <3>1 DEF CondSleepers
      <3>3. Outside(ksAt')
        BY <1>5, <3>1, <3>2
      <3> QED  BY <2>5, <3>3 DEF SignalCondVar, ksLockVars, LockTypeOK
    <2>6. CASE BroadcastCondVar
      <3>1. CondSleepers \in SUBSET KsThreads /\ \A t \in CondSleepers : ksAt[t].op = "condAsleep"
        BY DEF CondSleepers
      <3>2. Outside(ksAt')
        BY <1>5, <2>6, <3>1 DEF BroadcastCondVar
      <3> QED  BY <2>6, <3>2 DEF BroadcastCondVar, LockTypeOK
    <2>7. CASE DestroyRwLock
      BY <1>6, <2>7 DEF DestroyRwLock, LockTypeOK
    <2> QED  BY <2>1, <2>2, <2>3, <2>4, <2>5, <2>6, <2>7 DEF KsLockNext
  <1> QED  BY <1>1, <1>7, OutsideKeeps

LEMMA MqInvInductive == MqInv /\ LockTypeOK /\ [KsNext]_ksVars => MqInv' /\ LockTypeOK'
  <1> SUFFICES ASSUME MqInv, LockTypeOK, [KsNext]_ksVars PROVE MqInv' /\ LockTypeOK'
    OBVIOUS
  <1>1. CASE KsMqNext
    <2>1. MqInv'
      BY <1>1, SendMsgKeeps, RecvMsgKeeps, SendNowKeeps, RecvNowKeeps, SleepersKeep, CloseMqKeeps DEF KsMqNext
    <2> QED  BY <1>1, <2>1 DEF KsMqNext, ksLockVars, LockTypeOK
  <1>2. CASE KsLockNext
    BY <1>2, LockStepKeeps
  <1>3. CASE UNCHANGED <<ksMqVars, ksLockVars, ksAt>>
    <2>1. MqInv'
      BY <1>3, OutsideKeeps DEF ksMqVars, MqInv, MqTypeOK
    <2> QED  BY <1>3, <2>1 DEF ksLockVars, LockTypeOK
  <1> QED  BY <1>1, <1>2, <1>3 DEF KsNext, KsShmNext, ksVars

-----------------------------------------------------------------------------
KsInv == ShmInv /\ MqInv /\ LockTypeOK

LEMMA KsInvariant == KsSpec => []KsInv
  <1>1. KsInit => LockTypeOK
    BY DEF KsInit, LockTypeOK
  <1>2. KsInit => KsInv
    BY <1>1, ShmInvInit, MqInvInit DEF KsInv
  <1>3. KsInv /\ [KsNext]_ksVars => KsInv'
    BY ShmInvInductive, MqInvInductive DEF KsInv
  <1> QED  BY <1>2, <1>3, PTL DEF KsSpec

LEMMA KsInvTyped == KsInv => KsTypeOK
  <1> SUFFICES ASSUME KsInv PROVE KsTypeOK
    OBVIOUS
  <1>1. ksHas \in [KsThreads -> [KsHandles -> Nat]]
    BY DEF KsInv, ShmInv, ShmTypeOK
  <1> QED  BY <1>1 DEF KsInv, ShmInv, ShmTypeOK, MqInv, MqTypeOK, LockTypeOK, AtRecords, KsTypeOK

\* The four services keep their variables to their types.
THEOREM KernelServicesTyped == KsSpec => []KsTypeOK
  BY KsInvariant, KsInvTyped, PTL

\* Whatever the threads that share it do, memory somebody has open is mapped; and a
\* message or a free place is never left to a sleeper while nobody is awake for it.
LEMMA KsInvServes == KsInv => SharedObjectsServe
  <1> SUFFICES ASSUME KsInv PROVE SharedObjectsServe
    OBVIOUS
  <1>1. ShmAlive
    <2> SUFFICES ASSUME NEW t \in KsThreads, NEW h \in KsHandles, ksHas[t][h] > 0 PROVE h \in ksMem
      BY DEF ShmAlive
    <2>1. ksShm[h].refs = Cardinality(Openers(ksHas, h)) /\ ksShm[h].refs \in Nat
      BY DEF KsInv, ShmInv, ShmTypeOK, RefsCountOpeners
    <2>2. ksShm[h].refs > 0
      BY <2>1, OpenersFinite
    <2> QED  BY <2>2 DEF KsInv, ShmInv, CountedIsMapped
  <1>2. MqNobodyForgotten
    <2> SUFFICES ASSUME ksMq.open
                 PROVE  /\ Cardinality(Those(ksAt, "recvAsleep")) > 0 /\ ksMq.msgs # <<>>
                             => \E t \in KsThreads : ksAt[t].op = "recv"
                        /\ Cardinality(Those(ksAt, "sendAsleep")) > 0 /\ Len(ksMq.msgs) < KsCapacity
                             => \E t \in KsThreads : ksAt[t].op = "send"
      BY DEF MqNobodyForgotten, Those
    <2>1. ASSUME NEW op
          PROVE  /\ Cardinality(Those(ksAt, op)) \in Nat
                 /\ Cardinality(Those(ksAt, op)) > 0 <=> Those(ksAt, op) # {}
      <3>1. IsFiniteSet(Those(ksAt, op)) /\ Cardinality(Those(ksAt, op)) \in Nat
        BY ThoseFinite
      <3>2. Cardinality(Those(ksAt, op)) = 0 <=> Those(ksAt, op) = {}
        BY <3>1, FS_EmptySet
      <3> QED  BY <3>1, <3>2
    <2>2. Len(ksMq.msgs) \in Nat /\ (ksMq.msgs # <<>> => Len(ksMq.msgs) > 0)
      BY LenProperties, EmptySeq DEF KsInv, MqInv, MqTypeOK
    <2>3. ASSUME NEW op, Cardinality(Those(ksAt, op)) > 0
          PROVE  \E t \in KsThreads : ksAt[t].op = op
      BY <2>1, <2>3 DEF Those
    <2>4. ASSUME Cardinality(Those(ksAt, "recvAsleep")) > 0, ksMq.msgs # <<>>
          PROVE  \E t \in KsThreads : ksAt[t].op = "recv"
      <3>1. Len(ksMq.msgs) <= Cardinality(Those(ksAt, "recv"))
        BY <2>1, <2>4 DEF KsInv, MqInv, EnoughAwake
      <3>2. Cardinality(Those(ksAt, "recv")) > 0
        BY <2>1, <2>2, <2>4, <3>1
      <3> QED  BY <2>3, <3>2
    <2>5. ASSUME Cardinality(Those(ksAt, "sendAsleep")) > 0, Len(ksMq.msgs) < KsCapacity
          PROVE  \E t \in KsThreads : ksAt[t].op = "send"
      <3>1. KsCapacity <= Len(ksMq.msgs) + Cardinality(Those(ksAt, "send"))
        BY <2>1, <2>5 DEF KsInv, MqInv, EnoughAwake
      <3>2. Cardinality(Those(ksAt, "send")) > 0
        BY <2>1, <2>2, <2>5, <3>1
      <3> QED  BY <2>3, <3>2
    <2> QED  BY <2>4, <2>5
  <1> QED  BY <1>1, <1>2 DEF SharedObjectsServe

\* Shared memory stays mapped while anyone has it open, however many openers there
\* are, and notify_one strands neither a message nor a free place.
THEOREM SharedObjectsAlwaysServe == KsSpec => []SharedObjectsServe
  BY KsInvariant, KsInvServes, PTL

-----------------------------------------------------------------------------
(* The queue implements the mailbox: inserting is Put, receiving is Take,  *)
(* closing is Lose, and every other step a stutter.                        *)

LEMMA MailboxStep ==
    ASSUME KsInv, [KsNext]_ksVars
    PROVE  [Mailbox!Next]_<<ToSet(ksMq.msgs), ksTaken>>
  <1>1. ASSUME NEW t \in KsThreads, SendNow(t)
        PROVE  Mailbox!Next
    <2>1. PICK m \in KsMessages : m = ksAt[t].msg
      BY <1>1 DEF SendNow, KsInv, MqInv, InFlightApart, Sends
    <2>2. /\ ksMq.msgs \in Seq(KsMessages) /\ Ordered(ksMq.msgs) /\ m \notin ToSet(ksMq.msgs) /\ m \notin ksTaken
          /\ Len(ksMq.msgs) < KsCapacity /\ ksTaken' = ksTaken
          /\ ksMq'.msgs = InsertAt(ksMq.msgs, Cardinality(Outranks(ksMq.msgs, m)) + 1, m)
      BY <1>1, <2>1 DEF SendNow, KsInv, MqInv, MqTypeOK, InFlightApart, Sends, InsertionPoint, Outranks
    <2>3. ToSet(ksMq'.msgs) = ToSet(ksMq.msgs) \cup {m}
      BY <2>2, InsertKeepsOrder
    <2>4. Cardinality(ToSet(ksMq.msgs)) < KsCapacity
      <3>1. Cardinality(ToSet(ksMq.msgs)) <= Len(ksMq.msgs) /\ Cardinality(ToSet(ksMq.msgs)) \in Nat /\ Len(ksMq.msgs) \in Nat
        BY <2>2, BoxBounded, LenProperties
      <3> QED  BY <2>2, <3>1
    <2>5. Mailbox!Put(m)
      <3>1. m \notin ToSet(ksMq.msgs) \cup ksTaken
        BY <2>2
      <3>2. UNCHANGED ksTaken
        BY <2>2
      <3>3. ToSet(ksMq.msgs)' = ToSet(ksMq.msgs) \cup {m}
        BY <2>3
      <3> QED  BY <2>4, <3>1, <3>2, <3>3 DEF Mailbox!Put, Cardinality, Mailbox!Cardinality
    <2> QED  BY <2>5 DEF Mailbox!Next
  <1>2. ASSUME NEW t \in KsThreads, RecvNow(t)
        PROVE  Mailbox!Next
    <2>1. /\ ksMq.msgs \in Seq(KsMessages) /\ Ordered(ksMq.msgs) /\ ksMq.msgs # <<>>
          /\ ksMq'.msgs = Tail(ksMq.msgs) /\ ksTaken' = ksTaken \cup {Head(ksMq.msgs)}
      BY <1>2 DEF RecvNow, KsInv, MqInv, MqTypeOK
    <2>2. PICK m \in KsMessages : m = Head(ksMq.msgs)
      BY <2>1, HeadTailProperties
    <2>3. /\ m \in ToSet(ksMq.msgs) /\ ToSet(ksMq'.msgs) = ToSet(ksMq.msgs) \ {m}
          /\ \A x \in ToSet(ksMq.msgs) : KsPriority[x] <= KsPriority[m]
      BY <2>1, <2>2, TailKeepsOrder
    <2>4. Mailbox!Take(m)
      BY <2>1, <2>2, <2>3 DEF Mailbox!Take
    <2> QED  BY <2>4 DEF Mailbox!Next
  <1>3. CASE CloseMq
    <2>1. ToSet(ksMq'.msgs) = {} /\ ksTaken' = ksTaken
      BY <1>3 DEF CloseMq, ToSet
    <2> QED  BY <2>1 DEF Mailbox!Next, Mailbox!Lose
  <1>4. CASE UNCHANGED ksMqVars
    BY <1>4 DEF ksMqVars
  <1>5. \/ UNCHANGED ksMqVars \/ CloseMq
        \/ \E t \in KsThreads : SendNow(t) \/ RecvNow(t)
    BY DEF KsNext, KsShmNext, KsMqNext, KsLockNext, ksVars, SendMsg, RecvMsg, MqSleep, MqTimeout
  <1> QED  BY <1>1, <1>2, <1>3, <1>4, <1>5

\* The priority mailbox is what a message queue does: with any number of senders and
\* receivers, sleeping, woken or timed out, it never holds more than maxMessages and
\* hands out no message while one of higher priority waits.
THEOREM QueueIsMailbox == KsSpec => MqIsMailbox
  <1>1. KsInit => Mailbox!Init
    BY DEF KsInit, Mailbox!Init, ToSet
  <1>2. KsInv /\ [KsNext]_ksVars => [Mailbox!Next]_<<ToSet(ksMq.msgs), ksTaken>>
    BY MailboxStep
  <1> QED  BY <1>1, <1>2, KsInvariant, PTL DEF KsSpec, MqIsMailbox, Mailbox!Spec
=============================================================================
