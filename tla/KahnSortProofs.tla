--------------------------- MODULE KahnSortProofs ---------------------------
(***************************************************************************)
(* What Kahn's sort returns for every dependency relation and every order  *)
(* in which the nodes are walked: each node once, after its dependencies,  *)
(* and every node that can be ordered at all.                              *)
(***************************************************************************)
EXTENDS KahnSort, FiniteSetTheorems, SequenceTheorems, WellFoundedInduction, TLAPS

(* Induction over the naturals, by their least counterexample. *)
LEMMA LeastOf ==
    ASSUME NEW T, T \subseteq Nat, T # {}
    PROVE  \E m \in T : \A n \in T : m <= n
  <1> DEFINE R == OpToRel(<, Nat)
  <1>1. IsWellFoundedOn(R, Nat)
    BY NatLessThanWellFounded
  <1>2. PICK m \in T : \A n \in T : <<n, m>> \notin R
    <2> HIDE DEF R
    <2> QED BY <1>1, WFMin
  <1>3. \A n \in T : ~(n < m)
    BY <1>2 DEF OpToRel
  <1> HIDE DEF R
  <1> QED BY <1>2, <1>3

LEMMA CountingUp ==
    ASSUME NEW S, 0 \in S, \A n \in Nat : n \in S => n + 1 \in S
    PROVE  \A n \in Nat : n \in S
  <1> SUFFICES ASSUME NEW k \in Nat, k \notin S PROVE FALSE
    OBVIOUS
  <1> DEFINE Bad == {n \in Nat : n \notin S}
  <1>1. PICK m \in Bad : \A n \in Bad : m <= n
    <2>1. Bad \in SUBSET Nat /\ Bad # {}
      OBVIOUS
    <2> HIDE DEF Bad
    <2> QED BY <2>1, LeastOf
  <1>2. m # 0 /\ m \in Nat /\ m - 1 \in Nat
    BY <1>1
  <1>3. m - 1 \in S
    BY <1>1, <1>2
  <1>4. (m - 1) + 1 \in S
    BY <1>2, <1>3
  <1> QED BY <1>1, <1>2, <1>4

-----------------------------------------------------------------------------
(* Sequences without repetitions. *)

\* s has no element twice, and these are its elements.
Lists(s, K, S) ==
    /\ s \in Seq(K)
    /\ S = {s[i] : i \in 1 .. Len(s)}
    /\ \A i, j \in 1 .. Len(s) : s[i] = s[j] => i = j

LEMMA ListsRange ==
    ASSUME NEW s, NEW K, NEW S, Lists(s, K, S)
    PROVE  Range(s) = S /\ IsInjective(s) /\ S \subseteq K /\ Len(s) \in Nat /\ DOMAIN s = 1 .. Len(s)
  <1>1. DOMAIN s = 1 .. Len(s) /\ Len(s) \in Nat /\ \A i \in 1 .. Len(s) : s[i] \in K
    BY LenProperties DEF Lists
  <1> QED BY <1>1 DEF Lists, Range, IsInjective

\* A walk through a finite set meets all of it.
LEMMA SetToSeqsLists ==
    ASSUME NEW S, IsFiniteSet(S), NEW keys \in SetToSeqs(S)
    PROVE  Lists(keys, S, S)
  <1>1. PICK n \in Nat : n = Cardinality(S)
    BY FS_CardinalityType
  <1>2. keys \in [1 .. n -> S] /\ \A i, j \in 1 .. n : i # j => keys[i] # keys[j]
    BY <1>1 DEF SetToSeqs
  <1>3. IsFiniteSet(1 .. n) /\ Cardinality(1 .. n) = n
    BY FS_Interval
  <1>4. keys \in Injection(1 .. n, S)
    BY <1>2 DEF Injection, IsInjective
  <1>5. keys \in Surjection(1 .. n, S)
    BY <1>1, <1>3, <1>4, FS_Injection
  <1>6. keys \in Seq(S) /\ Len(keys) = n
    BY <1>2, SeqDef, LenProperties
  <1>7. S = {keys[i] : i \in 1 .. n}
    BY <1>2, <1>5 DEF Surjection
  <1> QED BY <1>2, <1>6, <1>7 DEF Lists

LEMMA ListsEmpty ==
    ASSUME NEW K PROVE Lists(<<>>, K, {})
  BY EmptySeq DEF Lists

\* As many as the sequence is long.
LEMMA ListsCount ==
    ASSUME NEW s, NEW K, NEW S, Lists(s, K, S)
    PROVE  IsFiniteSet(S) /\ Cardinality(S) = Len(s)
  <1>1. Len(s) \in Nat /\ s \in [1 .. Len(s) -> K]
    BY LenProperties DEF Lists
  <1>2. PICK n \in Nat : n = Len(s)
    BY <1>1
  <1>3. s \in [1 .. n -> S]
    BY <1>1, <1>2 DEF Lists
  <1>4. s \in Bijection(1 .. n, S)
    <2>1. s \in Injection(1 .. n, S)
      BY <1>2, <1>3 DEF Lists, Injection, IsInjective
    <2>2. s \in Surjection(1 .. n, S)
      BY <1>2, <1>3 DEF Lists, Surjection
    <2> QED BY <2>1, <2>2 DEF Bijection
  <1>5. ExistsBijection(1 .. n, S)
    BY <1>4 DEF ExistsBijection
  <1>6. IsFiniteSet(1 .. n)
    BY FS_Interval
  <1> QED BY <1>2, <1>5, <1>6, FS_CountingElements, FS_Bijection

LEMMA ListsAppend ==
    ASSUME NEW s, NEW K, NEW S, Lists(s, K, S), NEW x \in K, x \notin S
    PROVE  Lists(Append(s, x), K, S \cup {x})
  <1>1. s \in Seq(K) /\ Len(s) \in Nat
    BY LenProperties DEF Lists
  <1>2. PICK t : t = Append(s, x)
    OBVIOUS
  <1>3. /\ t \in Seq(K) /\ Len(t) = Len(s) + 1 /\ t[Len(s) + 1] = x
        /\ \A i \in 1 .. Len(s) : t[i] = s[i]
    BY <1>1, <1>2
  <1>4. 1 .. Len(t) = (1 .. Len(s)) \cup {Len(s) + 1}
    BY <1>1, <1>3
  <1>5. \A i \in 1 .. Len(s) : t[i] \in S
    BY <1>3 DEF Lists
  <1>6. S \cup {x} = {t[i] : i \in 1 .. Len(t)}
    BY <1>3, <1>4 DEF Lists
  <1>7. \A i, j \in 1 .. Len(t) : t[i] = t[j] => i = j
    BY <1>3, <1>4, <1>5 DEF Lists
  <1> QED BY <1>2, <1>3, <1>6, <1>7 DEF Lists

LEMMA ListsConcat ==
    ASSUME NEW s, NEW t, NEW K, NEW S, NEW T, Lists(s, K, S), Lists(t, K, T), S \cap T = {}
    PROVE  Lists(s \o t, K, S \cup T)
  <1>1. s \in Seq(K) /\ t \in Seq(K) /\ Len(s) \in Nat /\ Len(t) \in Nat
    BY LenProperties DEF Lists
  <1>2. PICK u : u = s \o t
    OBVIOUS
  <1>3. /\ u \in Seq(K) /\ Len(u) = Len(s) + Len(t)
        /\ \A i \in 1 .. Len(s) + Len(t) : u[i] = IF i <= Len(s) THEN s[i] ELSE t[i - Len(s)]
    BY <1>1, <1>2, ConcatProperties
  <1>4. \A i \in 1 .. Len(s) : i \in 1 .. Len(u) /\ u[i] = s[i] /\ s[i] \in S
    BY <1>1, <1>3 DEF Lists
  <1>5. \A i \in 1 .. Len(t) : i + Len(s) \in 1 .. Len(u) /\ u[i + Len(s)] = t[i] /\ t[i] \in T
    <2>1. \A i \in 1 .. Len(t) : i + Len(s) \in 1 .. Len(s) + Len(t) /\ ~(i + Len(s) <= Len(s)) /\ (i + Len(s)) - Len(s) = i
      BY <1>1
    <2>2. \A i \in 1 .. Len(t) : t[i] \in T
      BY DEF Lists
    <2> QED BY <1>3, <2>1, <2>2
  <1>6. \A i \in 1 .. Len(u) : \/ i \in 1 .. Len(s)
                               \/ \E j \in 1 .. Len(t) : i = j + Len(s)
    <2> SUFFICES ASSUME NEW i \in 1 .. Len(u), i \notin 1 .. Len(s)
                 PROVE  \E j \in 1 .. Len(t) : i = j + Len(s)
      OBVIOUS
    <2>1. i - Len(s) \in 1 .. Len(t) /\ i = (i - Len(s)) + Len(s)
      BY <1>1, <1>3
    <2> QED BY <2>1
  <1>7. S \cup T = {u[i] : i \in 1 .. Len(u)}
    <2>1. S = {s[i] : i \in 1 .. Len(s)} /\ T = {t[i] : i \in 1 .. Len(t)}
      BY DEF Lists
    <2>2. ASSUME NEW x \in S \cup T PROVE x \in {u[i] : i \in 1 .. Len(u)}
      BY <1>4, <1>5, <2>1
    <2>3. ASSUME NEW i \in 1 .. Len(u) PROVE u[i] \in S \cup T
      BY <1>4, <1>5, <1>6
    <2> QED BY <2>2, <2>3
  <1>8. ASSUME NEW i \in 1 .. Len(u), NEW j \in 1 .. Len(u), u[i] = u[j] PROVE i = j
    <2>1. CASE i \in 1 .. Len(s) /\ j \in 1 .. Len(s)
      BY <1>4, <1>8, <2>1 DEF Lists
    <2>2. ASSUME NEW a \in 1 .. Len(t), NEW b \in 1 .. Len(t), i = a + Len(s), j = b + Len(s) PROVE i = j
      <3>1. t[a] = t[b]
        BY <1>5, <1>8, <2>2
      <3> QED BY <2>2, <3>1 DEF Lists
    <2>3. ASSUME NEW a \in 1 .. Len(t),
                 \/ i \in 1 .. Len(s) /\ j = a + Len(s)
                 \/ j \in 1 .. Len(s) /\ i = a + Len(s)
          PROVE  FALSE
      BY <1>4, <1>5, <1>8, <2>3
    <2> QED BY <1>6, <2>1, <2>2, <2>3
  <1> QED BY <1>2, <1>3, <1>7, <1>8 DEF Lists

\* A sequence that is not empty is its front and its last element.
LEMMA ListsFront ==
    ASSUME NEW s, NEW K, NEW S, Lists(s, K, S), s # <<>>
    PROVE  /\ Last(s) \in S
           /\ Lists(Front(s), K, S \ {Last(s)})
  <1>1. s \in Seq(K) /\ Len(s) \in Nat /\ Len(s) > 0
    BY EmptySeq, LenProperties DEF Lists
  <1>2. PICK n \in Nat : n = Len(s) - 1
    BY <1>1
  <1>3. PICK t : t = SubSeq(s, 1, n)
    OBVIOUS
  <1>4. t \in Seq(K) /\ Len(t) = n /\ \A i \in 1 .. n : t[i] = s[i]
    <2>1. \A i \in 1 .. n : i \in 1 .. Len(s)
      BY <1>1, <1>2
    <2>2. Len(t) = n /\ t \in Seq(K)
      BY <1>1, <1>2, <1>3, <2>1, SubSeqProperties
    <2>3. \A i \in 1 .. n : t[i] = s[1 + i - 1]
      BY <1>1, <1>2, <1>3, <2>1, SubSeqProperties
    <2>4. \A i \in 1 .. n : 1 + i - 1 = i
      OBVIOUS
    <2> QED BY <2>2, <2>3, <2>4
  <1>5. 1 .. Len(s) = (1 .. n) \cup {Len(s)} /\ Len(s) \notin 1 .. n
    BY <1>1, <1>2
  <1>6. S = {s[i] : i \in 1 .. Len(s)} /\ \A i, j \in 1 .. Len(s) : s[i] = s[j] => i = j
    BY DEF Lists
  <1>7. \A i \in 1 .. n : s[i] # s[Len(s)]
    BY <1>5, <1>6
  <1>8. S \ {s[Len(s)]} = {t[i] : i \in 1 .. Len(t)}
    BY <1>4, <1>5, <1>6, <1>7
  <1>9. \A i, j \in 1 .. Len(t) : t[i] = t[j] => i = j
    BY <1>4, <1>5, <1>6
  <1>10. Lists(t, K, S \ {s[Len(s)]})
    BY <1>4, <1>8, <1>9 DEF Lists
  <1>11. s[Len(s)] \in S
    BY <1>5, <1>6
  <1> QED BY <1>2, <1>3, <1>10, <1>11 DEF Last, Front

-----------------------------------------------------------------------------
(* The elements picked from a sequence. *)

\* The recursion of Among up to a place, as a predicate.
Picks(seq, S, n, f) ==
    f = [i \in 0 .. n |-> IF i = 0 THEN <<>>
                          ELSE IF seq[i] \in S THEN Append(f[i - 1], seq[i]) ELSE f[i - 1]]

LEMMA PicksExist ==
    ASSUME NEW seq, NEW S
    PROVE  \A n \in Nat : \E f : Picks(seq, S, n, f)
  <1> DEFINE N == {n \in Nat : \E f : Picks(seq, S, n, f)}
  <1>1. 0 \in N
    <2>1. PICK f : f = [i \in 0 .. 0 |-> <<>>]
      OBVIOUS
    <2>2. Picks(seq, S, 0, f)
      BY <2>1 DEF Picks
    <2> QED BY <2>2
  <1>2. ASSUME NEW n \in Nat, n \in N PROVE n + 1 \in N
    <2>1. PICK f : Picks(seq, S, n, f)
      BY <1>2
    <2>2. PICK x : x = IF seq[n + 1] \in S THEN Append(f[n], seq[n + 1]) ELSE f[n]
      OBVIOUS
    <2>3. PICK g : g = [i \in 0 .. n + 1 |-> IF i = n + 1 THEN x ELSE f[i]]
      OBVIOUS
    <2>4. \A i \in 0 .. n : g[i] = f[i]
      BY <2>3
    <2>5. g[n + 1] = x /\ n + 1 # 0 /\ (n + 1) - 1 = n /\ n \in 0 .. n
      BY <2>3
    <2>6. \A i \in 0 .. n : f[i] = IF i = 0 THEN <<>> ELSE IF seq[i] \in S THEN Append(f[i - 1], seq[i]) ELSE f[i - 1]
      BY <2>1 DEF Picks
    <2>7. \A i \in 0 .. n : i # 0 => i - 1 \in 0 .. n
      OBVIOUS
    <2>8. \A i \in 0 .. n : g[i] = IF i = 0 THEN <<>> ELSE IF seq[i] \in S THEN Append(g[i - 1], seq[i]) ELSE g[i - 1]
      BY <2>4, <2>6, <2>7
    <2>9. g[n + 1] = IF n + 1 = 0 THEN <<>> ELSE IF seq[n + 1] \in S THEN Append(g[(n + 1) - 1], seq[n + 1]) ELSE g[(n + 1) - 1]
      BY <2>2, <2>4, <2>5
    <2>10. \A i \in 0 .. n + 1 : i \in 0 .. n \/ i = n + 1
      OBVIOUS
    <2>11. \A i \in 0 .. n + 1 : g[i] = IF i = 0 THEN <<>> ELSE IF seq[i] \in S THEN Append(g[i - 1], seq[i]) ELSE g[i - 1]
      BY <2>8, <2>9, <2>10
    <2>12. g = [i \in 0 .. n + 1 |-> g[i]]
      BY <2>3
    <2>13. Picks(seq, S, n + 1, g)
      BY <2>11, <2>12 DEF Picks
    <2> QED BY <2>13
  <1>3. \A n \in Nat : n \in N
    <2> HIDE DEF N
    <2> QED BY <1>1, <1>2, CountingUp
  <1> QED BY <1>3

LEMMA AmongIs ==
    ASSUME NEW seq, NEW S, Len(seq) \in Nat
    PROVE  \E f : Picks(seq, S, Len(seq), f) /\ Among(seq, S) = f[Len(seq)]
  <1> DEFINE f == CHOOSE g : g = [i \in 0 .. Len(seq) |->
                                    IF i = 0 THEN <<>>
                                    ELSE IF seq[i] \in S THEN Append(g[i - 1], seq[i]) ELSE g[i - 1]]
  <1>1. Picks(seq, S, Len(seq), f)
    <2>1. \E g : Picks(seq, S, Len(seq), g)
      BY PicksExist
    <2> QED BY <2>1 DEF Picks
  <1>2. Among(seq, S) = f[Len(seq)]
    BY DEF Among
  <1> QED BY <1>1, <1>2

\* Among picks from a sequence what is in S.
LEMMA AmongLists ==
    ASSUME NEW seq, NEW K, NEW R, Lists(seq, K, R), NEW S
    PROVE  Lists(Among(seq, S), K, R \cap S)
  <1>1. seq \in Seq(K) /\ Len(seq) \in Nat /\ \A i \in 1 .. Len(seq) : seq[i] \in K
    BY LenProperties DEF Lists
  <1>2. PICK f : Picks(seq, S, Len(seq), f) /\ Among(seq, S) = f[Len(seq)]
    BY <1>1, AmongIs
  <1>3. \A i \in 0 .. Len(seq) : f[i] = IF i = 0 THEN <<>>
                                       ELSE IF seq[i] \in S THEN Append(f[i - 1], seq[i]) ELSE f[i - 1]
    BY <1>2 DEF Picks
  <1> DEFINE Upto(n) == {seq[i] : i \in 1 .. n}
             N == {n \in Nat : n <= Len(seq) => Lists(f[n], K, Upto(n) \cap S)}
  <1>4. 0 \in N
    <2>1. f[0] = <<>> /\ Upto(0) \cap S = {}
      BY <1>1, <1>3
    <2>2. Lists(f[0], K, Upto(0) \cap S)
      BY <2>1, ListsEmpty
    <2> QED BY <2>2
  <1>5. ASSUME NEW n \in Nat, n \in N PROVE n + 1 \in N
    <2> SUFFICES ASSUME n + 1 <= Len(seq) PROVE Lists(f[n + 1], K, Upto(n + 1) \cap S)
      OBVIOUS
    <2>1. n + 1 \in 0 .. Len(seq) /\ n + 1 \in 1 .. Len(seq) /\ n + 1 # 0 /\ (n + 1) - 1 = n /\ n <= Len(seq)
      BY <1>1
    <2>2. Lists(f[n], K, Upto(n) \cap S)
      BY <1>5, <2>1
    <2>3. f[n + 1] = IF seq[n + 1] \in S THEN Append(f[n], seq[n + 1]) ELSE f[n]
      BY <1>3, <2>1
    <2>4. Upto(n + 1) = Upto(n) \cup {seq[n + 1]}
      <3>1. 1 .. n + 1 = (1 .. n) \cup {n + 1}
        OBVIOUS
      <3> QED BY <3>1
    <2>5. seq[n + 1] \notin Upto(n)
      <3>1. \A i \in 1 .. n : i \in 1 .. Len(seq) /\ i # n + 1
        BY <1>1, <2>1
      <3> QED BY <2>1, <3>1 DEF Lists
    <2>6. seq[n + 1] \in K
      BY <1>1, <2>1
    <2> HIDE DEF Upto
    <2>7. CASE seq[n + 1] \in S
      <3>1. Lists(Append(f[n], seq[n + 1]), K, (Upto(n) \cap S) \cup {seq[n + 1]})
        BY <2>2, <2>5, <2>6, ListsAppend
      <3>2. (Upto(n) \cap S) \cup {seq[n + 1]} = Upto(n + 1) \cap S
        BY <2>4, <2>7
      <3> QED BY <2>3, <2>7, <3>1, <3>2
    <2>8. CASE seq[n + 1] \notin S
      <3>1. Upto(n + 1) \cap S = Upto(n) \cap S
        BY <2>4, <2>8
      <3> QED BY <2>2, <2>3, <2>8, <3>1
    <2> QED BY <2>7, <2>8
  <1>6. \A n \in Nat : n \in N
    <2> HIDE DEF N
    <2> QED BY <1>4, <1>5, CountingUp
  <1>7. Lists(f[Len(seq)], K, Upto(Len(seq)) \cap S)
    <2>1. Len(seq) \in N
      <3> HIDE DEF N
      <3> QED BY <1>1, <1>6
    <2>2. Len(seq) <= Len(seq)
      BY <1>1
    <2> HIDE DEF Upto
    <2> QED BY <2>1, <2>2
  <1>8. Upto(Len(seq)) = R
    BY DEF Lists
  <1> QED BY <1>2, <1>7, <1>8

\* What Among picks from the front of a sequence does not depend on the rest.
LEMMA PicksAgree ==
    ASSUME NEW s, NEW t, NEW S, NEW m \in Nat, NEW n \in Nat, m <= n, NEW f, NEW g,
           Picks(s, S, m, f), Picks(t, S, n, g), \A i \in 1 .. m : s[i] = t[i]
    PROVE  \A i \in 0 .. m : f[i] = g[i]
  <1> DEFINE N == {i \in Nat : i <= m => f[i] = g[i]}
  <1>1. /\ \A i \in 0 .. m : f[i] = IF i = 0 THEN <<>> ELSE IF s[i] \in S THEN Append(f[i - 1], s[i]) ELSE f[i - 1]
        /\ \A i \in 0 .. n : g[i] = IF i = 0 THEN <<>> ELSE IF t[i] \in S THEN Append(g[i - 1], t[i]) ELSE g[i - 1]
    BY DEF Picks
  <1>2. 0 \in N
    BY <1>1
  <1>3. ASSUME NEW i \in Nat, i \in N PROVE i + 1 \in N
    <2> SUFFICES ASSUME i + 1 <= m PROVE f[i + 1] = g[i + 1]
      OBVIOUS
    <2>1. /\ i + 1 \in 0 .. m /\ i + 1 \in 0 .. n /\ i + 1 \in 1 .. m
          /\ i + 1 # 0 /\ (i + 1) - 1 = i /\ i <= m
      OBVIOUS
    <2>2. f[i + 1] = IF s[i + 1] \in S THEN Append(f[i], s[i + 1]) ELSE f[i]
      BY <1>1, <2>1
    <2>3. g[i + 1] = IF t[i + 1] \in S THEN Append(g[i], t[i + 1]) ELSE g[i]
      BY <1>1, <2>1
    <2>4. f[i] = g[i] /\ s[i + 1] = t[i + 1]
      BY <1>3, <2>1
    <2> QED BY <2>2, <2>3, <2>4
  <1>4. \A i \in Nat : i \in N
    <2> HIDE DEF N
    <2> QED BY <1>2, <1>3, CountingUp
  <1> QED BY <1>4

LEMMA AmongAppend ==
    ASSUME NEW K, NEW s \in Seq(K), NEW x \in K, NEW S
    PROVE  Among(Append(s, x), S) = IF x \in S THEN Append(Among(s, S), x) ELSE Among(s, S)
  <1>0. PICK n \in Nat : n = Len(s)
    BY LenProperties
  <1>1. PICK t : t = Append(s, x)
    OBVIOUS
  <1>2. t \in Seq(K) /\ Len(t) = n + 1 /\ t[n + 1] = x /\ \A i \in 1 .. n : s[i] = t[i]
    BY <1>0, <1>1
  <1>3. PICK f : Picks(s, S, n, f) /\ Among(s, S) = f[n]
    BY <1>0, AmongIs
  <1>4. PICK g : Picks(t, S, n + 1, g) /\ Among(t, S) = g[n + 1]
    <2>1. Len(t) \in Nat /\ Len(t) = n + 1
      BY <1>2
    <2> QED BY <2>1, AmongIs
  <1>5. n + 1 \in Nat /\ n <= n + 1 /\ n + 1 \in 0 .. n + 1 /\ n + 1 # 0 /\ (n + 1) - 1 = n /\ n \in 0 .. n
    OBVIOUS
  <1>6. \A i \in 0 .. n : f[i] = g[i]
    <2>1. \A i \in 1 .. n : s[i] = t[i]
      BY <1>2
    <2>2. PICK k \in Nat : k = n + 1
      OBVIOUS
    <2>3. Picks(s, S, n, f) /\ Picks(t, S, k, g)
      BY <1>3, <1>4, <2>2
    <2>4. n <= k
      BY <2>2
    <2> QED BY <2>1, <2>3, <2>4, PicksAgree
  <1>7. g[n + 1] = IF t[n + 1] \in S THEN Append(g[n], t[n + 1]) ELSE g[n]
    BY <1>4, <1>5 DEF Picks
  <1> QED BY <1>0, <1>1, <1>2, <1>3, <1>4, <1>5, <1>6, <1>7

LEMMA AmongSeq ==
    ASSUME NEW K, NEW s \in Seq(K), NEW S
    PROVE  Among(s, S) \in Seq(K \cap S)
  <1>1. PICK n \in Nat : n = Len(s) /\ \A i \in 1 .. n : s[i] \in K
    BY LenProperties
  <1>2. PICK f : Picks(s, S, n, f) /\ Among(s, S) = f[n]
    BY <1>1, AmongIs
  <1>3. \A i \in 0 .. n : f[i] = IF i = 0 THEN <<>> ELSE IF s[i] \in S THEN Append(f[i - 1], s[i]) ELSE f[i - 1]
    BY <1>2 DEF Picks
  <1> DEFINE N == {i \in Nat : i <= n => f[i] \in Seq(K \cap S)}
  <1>4. 0 \in N
    <2>1. 0 \in 0 .. n /\ <<>> \in Seq(K \cap S)
      BY EmptySeq
    <2>2. f[0] = <<>>
      BY <1>3, <2>1
    <2> QED BY <2>1, <2>2
  <1>5. ASSUME NEW i \in Nat, i \in N PROVE i + 1 \in N
    <2> SUFFICES ASSUME i + 1 <= n PROVE f[i + 1] \in Seq(K \cap S)
      OBVIOUS
    <2>1. i + 1 \in 0 .. n /\ i + 1 \in 1 .. n /\ i + 1 # 0 /\ (i + 1) - 1 = i /\ i <= n
      OBVIOUS
    <2>2. f[i + 1] = IF s[i + 1] \in S THEN Append(f[i], s[i + 1]) ELSE f[i]
      BY <1>3, <2>1
    <2>3. f[i] \in Seq(K \cap S) /\ s[i + 1] \in K
      BY <1>1, <1>5, <2>1
    <2>4. CASE s[i + 1] \in S
      <3>1. s[i + 1] \in K \cap S
        BY <2>3, <2>4
      <3>2. Append(f[i], s[i + 1]) \in Seq(K \cap S)
        BY <2>3, <3>1, AppendProperties
      <3> QED BY <2>2, <2>4, <3>2
    <2> QED BY <2>2, <2>3, <2>4
  <1>6. \A i \in Nat : i \in N
    <2> HIDE DEF N
    <2> QED BY <1>4, <1>5, CountingUp
  <1>7. f[n] \in Seq(K \cap S)
    BY <1>6
  <1> QED BY <1>2, <1>7

LEMMA AmongNone == ASSUME NEW S PROVE Among(<<>>, S) = <<>>
  <1>1. Len(<<>>) = 0
    OBVIOUS
  <1>2. PICK f : Picks(<<>>, S, 0, f) /\ Among(<<>>, S) = f[0]
    BY <1>1, AmongIs
  <1> QED BY <1>2 DEF Picks

-----------------------------------------------------------------------------
(* The sort. *)

\* The elements of order, and those before its n-th.
Before(order, n) == {order[m] : m \in 1 .. n - 1}

\* Between two turns: what is taken and what is on the stack is, each once, what has all its
\* dependencies taken; and each was taken after its dependencies.
Sorted(deps, K, acc) ==
    /\ \E T, W : /\ Lists(acc.order, K, T)
                 /\ Lists(acc.stack, K, W)
                 /\ T \cap W = {}
                 /\ T \cup W = {k \in K : deps[k] \subseteq T}
    /\ \A n \in 1 .. Len(acc.order) : deps[acc.order[n]] \subseteq Before(acc.order, n)

LEMMA WaitingLists ==
    ASSUME NEW deps, NEW K, NEW keys, Lists(keys, K, K), NEW taken, NEW for
    PROVE  Lists(Waiting(deps, keys, taken, for), K, {k \in K : deps[k] \ taken = for})
  <1>1. Range(keys) = K
    BY ListsRange
  <1>2. K \cap {k \in K : deps[k] \ taken = for} = {k \in K : deps[k] \ taken = for}
    OBVIOUS
  <1>3. Lists(Among(keys, {k \in K : deps[k] \ taken = for}), K, K \cap {k \in K : deps[k] \ taken = for})
    BY AmongLists
  <1> QED BY <1>1, <1>2, <1>3 DEF Waiting

LEMMA SortedAtFirst ==
    ASSUME NEW deps, NEW K, NEW table, Lists(table, K, K)
    PROVE  Sorted(deps, K, [order |-> <<>>, stack |-> Waiting(deps, table, {}, {})])
  <1>1. PICK acc : acc = [order |-> <<>>, stack |-> Waiting(deps, table, {}, {})]
    OBVIOUS
  <1>2. acc.order = <<>> /\ acc.stack = Waiting(deps, table, {}, {})
    BY <1>1
  <1>3. Lists(acc.stack, K, {k \in K : deps[k] \ {} = {}})
    BY <1>2, WaitingLists
  <1>4. {k \in K : deps[k] \ {} = {}} = {k \in K : deps[k] \subseteq {}}
    OBVIOUS
  <1>5. Lists(acc.order, K, {})
    BY <1>2, ListsEmpty
  <1>6. Len(acc.order) = 0
    BY <1>2
  <1>7. \A n \in 1 .. Len(acc.order) : deps[acc.order[n]] \subseteq Before(acc.order, n)
    BY <1>6
  <1>8. {} \cap {k \in K : deps[k] \subseteq {}} = {} /\ {} \cup {k \in K : deps[k] \subseteq {}} = {k \in K : deps[k] \subseteq {}}
    OBVIOUS
  <1>9. Lists(acc.stack, K, {k \in K : deps[k] \subseteq {}})
    BY <1>3, <1>4
  <1> HIDE <1>4
  <1>10. \E T, W : /\ Lists(acc.order, K, T) /\ Lists(acc.stack, K, W)
                   /\ T \cap W = {} /\ T \cup W = {k \in K : deps[k] \subseteq T}
    BY <1>5, <1>8, <1>9
  <1> QED BY <1>1, <1>7, <1>10 DEF Sorted

\* A turn that finds the stack empty changes nothing; any other takes one more.
LEMMA TakeSorts ==
    ASSUME NEW deps, NEW K, NEW keys, Lists(keys, K, K), NEW acc, Sorted(deps, K, acc)
    PROVE  /\ Sorted(deps, K, Take(deps, keys, acc))
           /\ acc.stack = <<>> => Take(deps, keys, acc) = acc
           /\ acc.stack # <<>> => Len(Take(deps, keys, acc).order) = Len(acc.order) + 1
  <1>1. CASE acc.stack = <<>>
    BY <1>1 DEF Take
  <1>2. CASE acc.stack # <<>>
    <2>1. PICK T, W : /\ Lists(acc.order, K, T) /\ Lists(acc.stack, K, W)
                      /\ T \cap W = {} /\ T \cup W = {k \in K : deps[k] \subseteq T}
      BY DEF Sorted
    <2>2. PICK cur : cur = Last(acc.stack)
      OBVIOUS
    <2>3. PICK new : new = Take(deps, keys, acc)
      OBVIOUS
    <2>4. Range(acc.order) = T
      BY <2>1, ListsRange
    <2>5. new = [order |-> Append(acc.order, cur), stack |-> Front(acc.stack) \o Waiting(deps, keys, T, {cur})]
      BY <1>2, <2>2, <2>3, <2>4 DEF Take
    <2>6. new.order = Append(acc.order, cur) /\ new.stack = Front(acc.stack) \o Waiting(deps, keys, T, {cur})
      BY <2>5
    <2>7. cur \in W /\ Lists(Front(acc.stack), K, W \ {cur})
      BY <1>2, <2>1, <2>2, ListsFront
    <2>8. cur \in K /\ cur \notin T /\ deps[cur] \subseteq T
      BY <2>1, <2>7
    <2>9. Lists(new.order, K, T \cup {cur})
      BY <2>1, <2>6, <2>8, ListsAppend
    <2>10. PICK Ready : Ready = {k \in K : deps[k] \ T = {cur}}
      OBVIOUS
    <2>11. Lists(Waiting(deps, keys, T, {cur}), K, Ready)
      BY <2>10, WaitingLists
    <2>12. ASSUME NEW k \in Ready PROVE k \in K /\ k \notin T \cup W /\ deps[k] \subseteq T \cup {cur}
      <3>1. k \in K /\ deps[k] \ T = {cur}
        BY <2>10, <2>12
      <3>2. ~(deps[k] \subseteq T)
        BY <3>1
      <3> QED BY <2>1, <3>1, <3>2
    <2>13. Lists(new.stack, K, (W \ {cur}) \cup Ready)
      <3>1. (W \ {cur}) \cap Ready = {}
        BY <2>12
      <3>2. Lists(Front(acc.stack) \o Waiting(deps, keys, T, {cur}), K, (W \ {cur}) \cup Ready)
        BY <2>7, <2>11, <3>1, ListsConcat
      <3> QED BY <2>6, <3>2
    <2>14. (T \cup {cur}) \cap ((W \ {cur}) \cup Ready) = {}
      BY <2>1, <2>7, <2>8, <2>12
    <2>15. ASSUME NEW k \in K, deps[k] \subseteq T \cup {cur} PROVE k \in (T \cup {cur}) \cup ((W \ {cur}) \cup Ready)
      <3>1. CASE deps[k] \subseteq T
        <4>1. k \in T \cup W
          BY <2>1, <3>1
        <4> QED BY <4>1
      <3>2. CASE ~(deps[k] \subseteq T)
        <4>1. deps[k] \ T = {cur}
          BY <2>15, <3>2
        <4> QED BY <2>10, <4>1
      <3> QED BY <3>1, <3>2
    <2>16. ASSUME NEW k \in (T \cup {cur}) \cup ((W \ {cur}) \cup Ready) PROVE k \in K /\ deps[k] \subseteq T \cup {cur}
      <3>1. CASE k \in T \cup W
        BY <2>1, <3>1
      <3>2. CASE k \in Ready
        BY <2>12, <3>2
      <3> QED BY <2>7, <3>1, <3>2
    <2>17. (T \cup {cur}) \cup ((W \ {cur}) \cup Ready) = {k \in K : deps[k] \subseteq T \cup {cur}}
      BY <2>15, <2>16
    <2>18. Len(new.order) = Len(acc.order) + 1 /\ Len(acc.order) \in Nat
      BY <2>1, <2>6, ListsRange DEF Lists
    <2>19. ASSUME NEW n \in 1 .. Len(new.order) PROVE deps[new.order[n]] \subseteq Before(new.order, n)
      <3>1. /\ \A m \in 1 .. Len(acc.order) : new.order[m] = acc.order[m]
            /\ new.order[Len(acc.order) + 1] = cur
        BY <2>1, <2>6 DEF Lists
      <3>2. CASE n \in 1 .. Len(acc.order)
        <4>1. \A m \in 1 .. n - 1 : m \in 1 .. Len(acc.order)
          BY <2>18, <3>2
        <4>2. Before(new.order, n) = Before(acc.order, n)
          BY <3>1, <4>1 DEF Before
        <4>3. deps[acc.order[n]] \subseteq Before(acc.order, n)
          BY <3>2 DEF Sorted
        <4> QED BY <3>1, <3>2, <4>2, <4>3
      <3>3. CASE n = Len(acc.order) + 1
        <4>1. n - 1 = Len(acc.order)
          BY <2>18, <3>3
        <4>2. Before(new.order, n) = {acc.order[m] : m \in 1 .. Len(acc.order)}
          BY <3>1, <4>1 DEF Before
        <4>3. Before(new.order, n) = T
          BY <2>1, <4>2 DEF Lists
        <4> QED BY <2>8, <3>1, <3>3, <4>3
      <3> QED BY <2>18, <3>2, <3>3
    <2>20. Sorted(deps, K, new)
      BY <2>9, <2>13, <2>14, <2>17, <2>19 DEF Sorted
    <2> QED BY <1>2, <2>3, <2>18, <2>20
  <1> QED BY <1>1, <1>2

\* The turns up to one, as a predicate.
Turns(deps, table, keys, n, f) ==
    f = [i \in 0 .. n |-> IF i = 0 THEN [order |-> <<>>, stack |-> Waiting(deps, table, {}, {})]
                          ELSE Take(deps, keys, f[i - 1])]

LEMMA TurnsExist ==
    ASSUME NEW deps, NEW table, NEW keys
    PROVE  \A n \in Nat : \E f : Turns(deps, table, keys, n, f)
  <1> DEFINE N == {n \in Nat : \E f : Turns(deps, table, keys, n, f)}
  <1>0. PICK first : first = [order |-> <<>>, stack |-> Waiting(deps, table, {}, {})]
    OBVIOUS
  <1>1. 0 \in N
    <2>1. PICK f : f = [i \in 0 .. 0 |-> first]
      OBVIOUS
    <2>2. Turns(deps, table, keys, 0, f)
      BY <1>0, <2>1 DEF Turns
    <2> QED BY <2>2
  <1>2. ASSUME NEW n \in Nat, n \in N PROVE n + 1 \in N
    <2>1. PICK f : Turns(deps, table, keys, n, f)
      BY <1>2
    <2>2. PICK x : x = Take(deps, keys, f[n])
      OBVIOUS
    <2>3. PICK g : g = [i \in 0 .. n + 1 |-> IF i = n + 1 THEN x ELSE f[i]]
      OBVIOUS
    <2>4. \A i \in 0 .. n : g[i] = f[i]
      BY <2>3
    <2>5. g[n + 1] = x /\ n + 1 # 0 /\ (n + 1) - 1 = n /\ n \in 0 .. n
      BY <2>3
    <2>6. \A i \in 0 .. n : f[i] = IF i = 0 THEN first ELSE Take(deps, keys, f[i - 1])
      BY <1>0, <2>1 DEF Turns
    <2>7. \A i \in 0 .. n : i # 0 => i - 1 \in 0 .. n
      OBVIOUS
    <2>8. \A i \in 0 .. n : g[i] = IF i = 0 THEN first ELSE Take(deps, keys, g[i - 1])
      BY <2>4, <2>6, <2>7
    <2>9. g[n + 1] = IF n + 1 = 0 THEN first ELSE Take(deps, keys, g[(n + 1) - 1])
      BY <2>2, <2>4, <2>5
    <2>10. \A i \in 0 .. n + 1 : i \in 0 .. n \/ i = n + 1
      OBVIOUS
    <2>11. \A i \in 0 .. n + 1 : g[i] = IF i = 0 THEN first ELSE Take(deps, keys, g[i - 1])
      BY <2>8, <2>9, <2>10
    <2>12. g = [i \in 0 .. n + 1 |-> g[i]]
      BY <2>3
    <2>13. Turns(deps, table, keys, n + 1, g)
      BY <1>0, <2>11, <2>12 DEF Turns
    <2> QED BY <2>13
  <1>3. \A n \in Nat : n \in N
    <2> HIDE DEF N
    <2> QED BY <1>1, <1>2, CountingUp
  <1> QED BY <1>3

LEMMA KahnIs ==
    ASSUME NEW deps, NEW table, NEW keys, Len(keys) \in Nat
    PROVE  \E f : Turns(deps, table, keys, Len(keys), f) /\ Kahn(deps, table, keys) = f[Len(keys)].order
  <1> DEFINE f == CHOOSE g : g = [i \in 0 .. Len(keys) |->
                                    IF i = 0 THEN [order |-> <<>>, stack |-> Waiting(deps, table, {}, {})]
                                    ELSE Take(deps, keys, g[i - 1])]
  <1>1. Turns(deps, table, keys, Len(keys), f)
    <2>1. \E g : Turns(deps, table, keys, Len(keys), g)
      BY TurnsExist
    <2> QED BY <2>1 DEF Turns
  <1>2. Kahn(deps, table, keys) = f[Len(keys)].order
    BY DEF Kahn
  <1> QED BY <1>1, <1>2

\* Every turn keeps what is sorted, and as many are taken as there were turns, unless
\* the stack was found empty.
LEMMA TurnsSort ==
    ASSUME NEW deps, NEW K, NEW table, Lists(table, K, K), NEW keys, Lists(keys, K, K),
           NEW f, Turns(deps, table, keys, Len(keys), f)
    PROVE  \A n \in 0 .. Len(keys) : Sorted(deps, K, f[n]) /\ (f[n].stack = <<>> \/ Len(f[n].order) = n)
  <1>1. Len(keys) \in Nat
    BY ListsRange
  <1>2. \A i \in 0 .. Len(keys) : f[i] = IF i = 0 THEN [order |-> <<>>, stack |-> Waiting(deps, table, {}, {})]
                                        ELSE Take(deps, keys, f[i - 1])
    BY DEF Turns
  <1> DEFINE Good(n) == Sorted(deps, K, f[n]) /\ (f[n].stack = <<>> \/ Len(f[n].order) = n)
             N == {n \in Nat : n <= Len(keys) => Good(n)}
  <1>3. 0 \in N
    <2>1. f[0] = [order |-> <<>>, stack |-> Waiting(deps, table, {}, {})]
      BY <1>1, <1>2
    <2>2. Len(f[0].order) = 0
      BY <2>1
    <2> QED BY <2>1, <2>2, SortedAtFirst
  <1>4. ASSUME NEW n \in Nat, n \in N PROVE n + 1 \in N
    <2> SUFFICES ASSUME n + 1 <= Len(keys) PROVE Good(n + 1)
      OBVIOUS
    <2>1. n + 1 \in 0 .. Len(keys) /\ n + 1 # 0 /\ (n + 1) - 1 = n /\ n <= Len(keys)
      BY <1>1
    <2>2. f[n + 1] = Take(deps, keys, f[n])
      BY <1>2, <2>1
    <2>3. Sorted(deps, K, f[n]) /\ (f[n].stack = <<>> \/ Len(f[n].order) = n)
      BY <1>4, <2>1
    <2>4. /\ Sorted(deps, K, f[n + 1])
          /\ f[n].stack = <<>> => f[n + 1] = f[n]
          /\ f[n].stack # <<>> => Len(f[n + 1].order) = Len(f[n].order) + 1
      BY <2>2, <2>3, TakeSorts
    <2> QED BY <2>3, <2>4
  <1>5. \A n \in Nat : n \in N
    <2> HIDE DEF N
    <2> QED BY <1>3, <1>4, CountingUp
  <1>6. ASSUME NEW n \in 0 .. Len(keys) PROVE Good(n)
    <2>1. n \in N /\ n <= Len(keys)
      <3> HIDE DEF N
      <3> QED BY <1>1, <1>5
    <2> HIDE DEF Good
    <2> QED BY <2>1
  <1> QED BY <1>6

(***************************************************************************)
(* The sort returns, each once and after its dependencies, exactly the     *)
(* nodes all of whose dependencies it returns (TopoSort).                  *)
(***************************************************************************)
LEMMA KahnSorts ==
    ASSUME NEW deps, NEW K, IsFiniteSet(K), NEW table, Lists(table, K, K), NEW keys, Lists(keys, K, K)
    PROVE  \E T : /\ Lists(Kahn(deps, table, keys), K, T)
                  /\ T = {k \in K : deps[k] \subseteq T}
                  /\ \A n \in 1 .. Len(Kahn(deps, table, keys)) :
                        deps[Kahn(deps, table, keys)[n]] \subseteq Before(Kahn(deps, table, keys), n)
  <1>1. Len(keys) \in Nat
    BY ListsRange
  <1>2. PICK f : Turns(deps, table, keys, Len(keys), f) /\ Kahn(deps, table, keys) = f[Len(keys)].order
    BY <1>1, KahnIs
  <1>3. PICK acc : acc = f[Len(keys)]
    OBVIOUS
  <1>4. Sorted(deps, K, acc) /\ (acc.stack = <<>> \/ Len(acc.order) = Len(keys)) /\ Kahn(deps, table, keys) = acc.order
    <2>1. Len(keys) \in 0 .. Len(keys)
      BY <1>1
    <2>2. \A n \in 0 .. Len(keys) : Sorted(deps, K, f[n]) /\ (f[n].stack = <<>> \/ Len(f[n].order) = n)
      BY <1>2, TurnsSort
    <2>3. Sorted(deps, K, f[Len(keys)]) /\ (f[Len(keys)].stack = <<>> \/ Len(f[Len(keys)].order) = Len(keys))
      BY <2>1, <2>2
    <2> QED BY <1>2, <1>3, <2>3
  <1>5. PICK T, W : /\ Lists(acc.order, K, T) /\ Lists(acc.stack, K, W)
                    /\ T \cap W = {} /\ T \cup W = {k \in K : deps[k] \subseteq T}
    BY <1>4 DEF Sorted
  <1>6. W = {}
    <2>1. CASE acc.stack = <<>>
      <3>1. 1 .. Len(acc.stack) = {}
        BY <2>1
      <3> QED BY <1>5, <3>1 DEF Lists
    <2>2. CASE Len(acc.order) = Len(keys)
      <3>1. Cardinality(T) = Len(keys) /\ Cardinality(K) = Len(keys)
        BY <1>5, <2>2, ListsCount
      <3>2. T \subseteq K
        BY <1>5, ListsRange
      <3>3. T = K
        BY <3>1, <3>2, FS_Subset
      <3>4. W \subseteq K
        BY <1>5, ListsRange
      <3> QED BY <1>5, <3>3, <3>4
    <2> QED BY <1>4, <2>1, <2>2
  <1>7. T = {k \in K : deps[k] \subseteq T}
    BY <1>5, <1>6
  <1>8. \A n \in 1 .. Len(acc.order) : deps[acc.order[n]] \subseteq Before(acc.order, n)
    BY <1>4 DEF Sorted
  <1> QED BY <1>4, <1>5, <1>7, <1>8

(***************************************************************************)
(* Nothing that can be ordered is left out, and nothing else is returned:  *)
(* the sort drops the nodes of a cycle, those that depend on one and those *)
(* that depend on what is missing, and no others (TopoSort).               *)
(***************************************************************************)
THEOREM KahnOrdersAllThatCanBe ==
    ASSUME NEW deps, NEW K, IsFiniteSet(K), NEW table, Lists(table, K, K), NEW keys, Lists(keys, K, K)
    PROVE  /\ Lists(Kahn(deps, table, keys), K, UNION {S \in SUBSET K : Grounded(deps, S)})
           /\ \A n \in 1 .. Len(Kahn(deps, table, keys)) :
                 deps[Kahn(deps, table, keys)[n]] \subseteq Before(Kahn(deps, table, keys), n)
  <1>1. PICK order : order = Kahn(deps, table, keys)
    OBVIOUS
  <1>2. PICK T : /\ Lists(order, K, T)
                 /\ T = {k \in K : deps[k] \subseteq T}
                 /\ \A n \in 1 .. Len(order) : deps[order[n]] \subseteq Before(order, n)
    BY SMTT(40), <1>1, KahnSorts
  <1>3. ASSUME NEW group \in (SUBSET T) \ {{}} PROVE \E k \in group : deps[k] \cap group = {}
    <2> DEFINE At == {n \in 1 .. Len(order) : order[n] \in group}
    <2>1. At \subseteq Nat /\ At # {}
      <3>1. PICK k \in group : k \in T
        BY <1>3
      <3>2. PICK n \in 1 .. Len(order) : order[n] = k
        <4>1. T = {order[i] : i \in 1 .. Len(order)}
          BY <1>2 DEF Lists
        <4> QED BY <3>1, <4>1
      <3>3. n \in At
        BY <3>1, <3>2
      <3>4. At \subseteq Nat
        BY DEF Lists
      <3> QED BY <3>3, <3>4
    <2>2. PICK n \in At : \A m \in At : n <= m
      <3> HIDE DEF At
      <3> QED BY <2>1, LeastOf
    <2>3. n \in 1 .. Len(order) /\ order[n] \in group /\ Len(order) \in Nat
      BY <1>2, <2>2, ListsRange
    <2>4. ASSUME NEW m \in 1 .. n - 1 PROVE order[m] \notin group
      <3>1. m \in 1 .. Len(order) /\ ~(n <= m)
        BY <2>3
      <3> QED BY <2>2, <3>1
    <2>5. deps[order[n]] \cap group = {}
      BY <1>2, <2>3, <2>4 DEF Before
    <2> QED BY <2>3, <2>5
  <1>4. T \in SUBSET K /\ Grounded(deps, T)
    BY <1>2, <1>3 DEF Grounded
  <1>5. ASSUME NEW S \in SUBSET K, Grounded(deps, S) PROVE S \subseteq T
    <2> SUFFICES ASSUME S \ T # {} PROVE FALSE
      OBVIOUS
    <2>1. PICK k \in S \ T : deps[k] \cap (S \ T) = {}
      BY <1>5 DEF Grounded
    <2>2. deps[k] \subseteq S
      BY <1>5, <2>1 DEF Grounded
    <2>3. deps[k] \subseteq T
      BY <2>1, <2>2
    <2> QED BY <1>2, <2>1, <2>3
  <1>6. T = UNION {S \in SUBSET K : Grounded(deps, S)}
    BY <1>4, <1>5
  <1> QED BY <1>1, <1>2, <1>6
=============================================================================
