--------------------------- MODULE MachineProofs ---------------------------
(***************************************************************************)
(* The machine that executes the guest and the emulator's own workers, for *)
(* words of any even width, any registers, addresses, breakpoints and      *)
(* stack, any keys, jobs and clients of the shader cache, and any workers, *)
(* clients and tasks of the pool.                                          *)
(*                                                                         *)
(*   1. arithmetic: powers of two, words, what CMP and IMUL leave, and that*)
(*      every instruction leaves words in the registers                    *)
(*   2. the CPU's two breakpoint tables                                    *)
(*   3. the tracked call stack                                             *)
(*   4. the shader cache and its pending jobs                              *)
(*   5. the worker pool                                                    *)
(*   6. the machine                                                        *)
(***************************************************************************)
EXTENDS GuestMachine, KahnSortProofs

-----------------------------------------------------------------------------
(* Words of any even width. *)

\* The recursion of Power up to a place, as a predicate.
Doubles(n, f) == f = [i \in 0 .. n |-> IF i = 0 THEN 1 ELSE 2 * f[i - 1]]

LEMMA DoublesExist == \A n \in Nat : \E f : Doubles(n, f)
  <1> DEFINE N == {n \in Nat : \E f : Doubles(n, f)}
  <1>1. 0 \in N
    <2>1. PICK f : f = [i \in 0 .. 0 |-> 1]
      OBVIOUS
    <2>2. Doubles(0, f)
      BY <2>1 DEF Doubles
    <2> QED BY <2>2
  <1>2. ASSUME NEW n \in Nat, n \in N PROVE n + 1 \in N
    <2>1. PICK f : Doubles(n, f)
      BY <1>2
    <2>2. PICK g : g = [i \in 0 .. n + 1 |-> IF i = n + 1 THEN 2 * f[n] ELSE f[i]]
      OBVIOUS
    <2>3. \A i \in 0 .. n : g[i] = f[i] /\ f[i] = IF i = 0 THEN 1 ELSE 2 * f[i - 1]
      BY <2>1, <2>2 DEF Doubles
    <2>4. g[n + 1] = 2 * f[n] /\ n + 1 # 0 /\ (n + 1) - 1 = n /\ n \in 0 .. n
      BY <2>2
    <2>5. \A i \in 0 .. n : i # 0 => i - 1 \in 0 .. n
      OBVIOUS
    <2>6. \A i \in 0 .. n : g[i] = IF i = 0 THEN 1 ELSE 2 * g[i - 1]
      BY <2>3, <2>5
    <2>7. g[n + 1] = IF n + 1 = 0 THEN 1 ELSE 2 * g[(n + 1) - 1]
      BY <2>3, <2>4
    <2>8. \A i \in 0 .. n + 1 : i \in 0 .. n \/ i = n + 1
      OBVIOUS
    <2>9. \A i \in 0 .. n + 1 : g[i] = IF i = 0 THEN 1 ELSE 2 * g[i - 1]
      BY <2>6, <2>7, <2>8
    <2>10. g = [i \in 0 .. n + 1 |-> g[i]]
      BY <2>2
    <2>11. Doubles(n + 1, g)
      BY <2>9, <2>10 DEF Doubles
    <2> QED BY <2>11
  <1>3. \A n \in Nat : n \in N
    <2> HIDE DEF N
    <2> QED BY <1>1, <1>2, CountingUp
  <1> QED BY <1>3

\* What the recursion yields at a place does not depend on how far it goes.
LEMMA DoublesAgree ==
    ASSUME NEW m \in Nat, NEW n \in Nat, NEW f, NEW g, Doubles(m, f), Doubles(n, g)
    PROVE  \A i \in Nat : i <= m /\ i <= n => f[i] = g[i]
  <1> DEFINE N == {i \in Nat : i <= m /\ i <= n => f[i] = g[i]}
  <1>1. /\ \A i \in 0 .. m : f[i] = IF i = 0 THEN 1 ELSE 2 * f[i - 1]
        /\ \A i \in 0 .. n : g[i] = IF i = 0 THEN 1 ELSE 2 * g[i - 1]
    BY DEF Doubles
  <1>2. 0 \in N
    BY <1>1
  <1>3. ASSUME NEW i \in Nat, i \in N PROVE i + 1 \in N
    <2> SUFFICES ASSUME i + 1 <= m, i + 1 <= n PROVE f[i + 1] = g[i + 1]
      OBVIOUS
    <2>1. i + 1 \in 0 .. m /\ i + 1 \in 0 .. n /\ i + 1 # 0 /\ (i + 1) - 1 = i /\ i <= m /\ i <= n
      OBVIOUS
    <2>2. f[i + 1] = 2 * f[i] /\ g[i + 1] = 2 * g[i]
      BY <1>1, <2>1
    <2> QED BY <1>3, <2>1, <2>2
  <1>4. \A i \in Nat : i \in N
    <2> HIDE DEF N
    <2> QED BY <1>2, <1>3, CountingUp
  <1> QED BY <1>4

\* Power is what its definition says of it.
LEMMA PowerIs == Power = [n \in Nat |-> IF n = 0 THEN 1 ELSE 2 * Power[n - 1]]
  <1> DEFINE p == [n \in Nat |-> (CHOOSE f : Doubles(n, f))[n]]
  <1>1. \A n \in Nat : Doubles(n, CHOOSE f : Doubles(n, f))
    BY DoublesExist
  <1>2. ASSUME NEW n \in Nat PROVE p[n] = IF n = 0 THEN 1 ELSE 2 * p[n - 1]
    <2>1. PICK f : f = CHOOSE g : Doubles(n, g)
      OBVIOUS
    <2>2. Doubles(n, f) /\ p[n] = f[n]
      BY <1>1, <2>1
    <2>3. f[n] = IF n = 0 THEN 1 ELSE 2 * f[n - 1]
      BY <2>2 DEF Doubles
    <2>4. CASE n # 0
      <3>1. n - 1 \in Nat /\ n - 1 <= n
        BY <2>4
      <3>2. PICK m \in Nat : m = n - 1
        BY <3>1
      <3>3. PICK h : h = CHOOSE g : Doubles(m, g)
        OBVIOUS
      <3>4. Doubles(m, h) /\ p[m] = h[m]
        BY <1>1, <3>3
      <3>5. f[m] = h[m]
        BY <2>2, <3>1, <3>2, <3>4, DoublesAgree
      <3> QED BY <2>2, <2>3, <2>4, <3>2, <3>4, <3>5
    <2> QED BY <2>2, <2>3, <2>4
  <1>3. p = [n \in Nat |-> p[n]]
    OBVIOUS
  <1>4. p = [n \in Nat |-> IF n = 0 THEN 1 ELSE 2 * p[n - 1]]
    <2> HIDE DEF p
    <2> QED BY <1>2, <1>3
  <1>5. \E q : q = [n \in Nat |-> IF n = 0 THEN 1 ELSE 2 * q[n - 1]]
    BY <1>4
  <1> QED BY <1>5 DEF Power

LEMMA PowerStep ==
    /\ Power[0] = 1
    /\ \A n \in Nat : Power[n + 1] = 2 * Power[n]
  <1>1. ASSUME NEW n \in Nat PROVE Power[n + 1] = 2 * Power[n]
    <2>1. n + 1 \in Nat /\ n + 1 # 0 /\ (n + 1) - 1 = n
      OBVIOUS
    <2> QED BY <2>1, PowerIs
  <1> QED BY <1>1, PowerIs

LEMMA PowerPositive == \A n \in Nat : Power[n] \in Nat \ {0}
  <1> DEFINE N == {n \in Nat : Power[n] \in Nat \ {0}}
  <1>1. 0 \in N
    BY PowerStep
  <1>2. \A n \in Nat : n \in N => n + 1 \in N
    BY PowerStep
  <1>3. \A n \in Nat : n \in N
    <2> HIDE DEF N
    <2> QED BY <1>1, <1>2, CountingUp
  <1> QED BY <1>3

LEMMA PowerSum == \A m, n \in Nat : Power[m + n] = Power[m] * Power[n]
  <1> SUFFICES ASSUME NEW m \in Nat PROVE \A n \in Nat : Power[m + n] = Power[m] * Power[n]
    OBVIOUS
  <1> DEFINE N == {n \in Nat : Power[m + n] = Power[m] * Power[n]}
  <1>1. Power[m] \in Nat
    BY PowerPositive
  <1>2. 0 \in N
    BY <1>1, PowerStep
  <1>3. ASSUME NEW n \in Nat, n \in N PROVE n + 1 \in N
    <2>1. m + (n + 1) = (m + n) + 1 /\ m + n \in Nat
      OBVIOUS
    <2>2. Power[m + (n + 1)] = 2 * Power[m + n] /\ Power[n + 1] = 2 * Power[n]
      BY <2>1, PowerStep
    <2>3. Power[n] \in Nat /\ Power[m + n] = Power[m] * Power[n]
      BY <1>3, PowerPositive
    <2>4. PICK x \in Nat, y \in Nat : x = Power[m] /\ y = Power[n]
      BY <1>1, <2>3
    <2>5. 2 * (x * y) = x * (2 * y)
      OBVIOUS
    <2> QED BY <2>2, <2>3, <2>4, <2>5
  <1>4. \A n \in Nat : n \in N
    <2> HIDE DEF N
    <2> QED BY <1>2, <1>3, CountingUp
  <1> QED BY <1>4

\* A word has an even number of bits: its range is the square of the half word's, and even.
LEMMA WordSize ==
    /\ Half \in Nat \ {0}
    /\ Modulus = Half * Half
    /\ Modulus \in Nat \ {0}
    /\ Modulus = 2 * (Modulus \div 2)
    /\ Modulus \div 2 \in Nat \ {0}
  <1>1. PICK h \in Nat \ {0} : h = CpWidth \div 2 /\ CpWidth = h + h
    BY CpWidthIsEven
  <1>2. Half \in Nat \ {0} /\ Modulus = Half * Half
    BY <1>1, PowerSum, PowerPositive DEF Half, Modulus
  <1>3. PICK w \in Nat : CpWidth = w + 1
    BY CpWidthIsEven
  <1>4. PICK x \in Nat \ {0} : x = Power[w] /\ Modulus = 2 * x
    BY <1>3, PowerStep, PowerPositive DEF Modulus
  <1>5. Modulus \div 2 = x
    BY <1>4
  <1> QED BY <1>2, <1>4, <1>5

LEMMA ModIs ==
    ASSUME NEW m \in Nat \ {0}, NEW q \in Int, NEW r \in 0 .. m - 1
    PROVE  (q * m + r) % m = r
  OBVIOUS

LEMMA WrapWord == \A v \in Int : Wrap(v) \in Word
  BY WordSize DEF Wrap, Word

LEMMA WrapIs ==
    ASSUME NEW q \in Int, NEW r \in Word
    PROVE  Wrap(q * Modulus + r) = r
  <1>1. PICK m \in Nat \ {0} : m = Modulus
    BY WordSize
  <1> QED BY <1>1, ModIs DEF Wrap, Word

LEMMA WrapSmall ==
    ASSUME NEW v \in Int
    PROVE  /\ v \in Word => Wrap(v) = v
           /\ 0 - Modulus <= v /\ v < 0 => Wrap(v) = v + Modulus
  <1>1. PICK m \in Nat \ {0} : m = Modulus
    BY WordSize
  <1>2. ASSUME v \in 0 .. m - 1 PROVE v % m = v
    BY <1>2
  <1>3. ASSUME 0 - m <= v, v < 0 PROVE v % m = v + m
    BY <1>3
  <1> QED BY <1>1, <1>2, <1>3 DEF Wrap, Word

\* The two readings of a word.
LEMMA SignedIs ==
    ASSUME NEW v \in Word
    PROVE  /\ Signed(v) \in Int /\ Negative(v) \in BOOLEAN
           /\ Negative(v) => Signed(v) = v - Modulus
           /\ ~Negative(v) => Signed(v) = v
           /\ 0 - (Modulus \div 2) <= Signed(v) /\ Signed(v) < Modulus \div 2
  BY WordSize DEF Word, Negative, Signed

\* A number in the range of a signed word is the signed reading of its wrapping.
LEMMA SignedWrap ==
    ASSUME NEW v \in Int, 0 - (Modulus \div 2) <= v, v < Modulus \div 2
    PROVE  Signed(Wrap(v)) = v
  <1>1. PICK m \in Nat, h \in Nat : m = Modulus /\ h = Modulus \div 2 /\ m = 2 * h
    BY WordSize
  <1>2. CASE v >= 0
    <2>1. v \in Word
      BY <1>1, <1>2 DEF Word
    <2>2. Wrap(v) = v
      BY <2>1, WrapSmall
    <2> QED BY <1>1, <2>1, <2>2 DEF Signed, Negative
  <1>3. CASE v < 0
    <2>1. Wrap(v) = v + Modulus
      BY <1>1, <1>3, WrapSmall
    <2>2. v + m >= h /\ (v + m) - m = v
      BY <1>1
    <2>3. Signed(v + m) = v
      BY <1>1, <2>2 DEF Signed, Negative
    <2> QED BY <1>1, <2>1, <2>3
  <1> QED BY <1>2, <1>3

LEMMA LowWord == ASSUME NEW v \in Word, NEW n \in Nat PROVE Low(v, n) \in Word /\ Power[n] \in Nat \ {0}
  <1>1. PICK p \in Nat \ {0} : p = Power[n]
    BY PowerPositive
  <1>2. v \in Nat /\ v % p \in Nat /\ v % p <= v
    BY DEF Word
  <1> QED BY <1>1, <1>2, WordSize DEF Low, Word

LEMMA WidenedWord == ASSUME NEW v \in Word, NEW n \in CpNarrow PROVE Widened(v, n) \in Word
  <1>1. n \in Nat
    BY CpNarrowFits, CpWidthIsEven
  <1>2. Low(v, n) \in Word /\ Power[n] \in Nat
    BY <1>1, LowWord
  <1>3. Low(v, n) - Power[n] \in Int
    BY <1>2 DEF Word
  <1> QED BY <1>2, <1>3, WrapWord DEF Widened

LEMMA ImmediatesAreWords == Immediates \subseteq Word
  BY WidenedWord DEF Immediates

\* The recursion of WordOf, as a predicate.
Adds(bits, n, f) ==
    f = [i \in 0 .. n |-> IF i = 0 THEN 0 ELSE f[i - 1] + (IF i - 1 \in bits THEN Power[i - 1] ELSE 0)]

LEMMA AddsExist == ASSUME NEW bits PROVE \A n \in Nat : \E f : Adds(bits, n, f)
  <1> DEFINE N == {n \in Nat : \E f : Adds(bits, n, f)}
  <1>1. 0 \in N
    <2>1. PICK f : f = [i \in 0 .. 0 |-> 0]
      OBVIOUS
    <2>2. Adds(bits, 0, f)
      BY <2>1 DEF Adds
    <2> QED BY <2>2
  <1>2. ASSUME NEW n \in Nat, n \in N PROVE n + 1 \in N
    <2>1. PICK f : Adds(bits, n, f)
      BY <1>2
    <2>2. PICK x : x = f[n] + (IF n \in bits THEN Power[n] ELSE 0)
      OBVIOUS
    <2>3. PICK g : g = [i \in 0 .. n + 1 |-> IF i = n + 1 THEN x ELSE f[i]]
      OBVIOUS
    <2>4. \A i \in 0 .. n :
            g[i] = f[i] /\ f[i] = IF i = 0 THEN 0 ELSE f[i - 1] + (IF i - 1 \in bits THEN Power[i - 1] ELSE 0)
      BY <2>1, <2>3 DEF Adds
    <2>5. g[n + 1] = x /\ n + 1 # 0 /\ (n + 1) - 1 = n /\ n \in 0 .. n
      BY <2>3
    <2>6. \A i \in 0 .. n : i # 0 => i - 1 \in 0 .. n
      OBVIOUS
    <2>7. \A i \in 0 .. n : g[i] = IF i = 0 THEN 0 ELSE g[i - 1] + (IF i - 1 \in bits THEN Power[i - 1] ELSE 0)
      BY <2>4, <2>6
    <2>8. g[n + 1] = IF n + 1 = 0 THEN 0
                     ELSE g[(n + 1) - 1] + (IF (n + 1) - 1 \in bits THEN Power[(n + 1) - 1] ELSE 0)
      BY <2>2, <2>4, <2>5
    <2>9. \A i \in 0 .. n + 1 : i \in 0 .. n \/ i = n + 1
      OBVIOUS
    <2>10. \A i \in 0 .. n + 1 : g[i] = IF i = 0 THEN 0 ELSE g[i - 1] + (IF i - 1 \in bits THEN Power[i - 1] ELSE 0)
      BY <2>7, <2>8, <2>9
    <2>11. g = [i \in 0 .. n + 1 |-> g[i]]
      BY <2>3
    <2>12. Adds(bits, n + 1, g)
      BY <2>10, <2>11 DEF Adds
    <2> QED BY <2>12
  <1>3. \A n \in Nat : n \in N
    <2> HIDE DEF N
    <2> QED BY <1>1, <1>2, CountingUp
  <1> QED BY <1>3

\* The bits below a place make less than its value.
LEMMA WordOfIsWord == ASSUME NEW bits PROVE WordOf(bits) \in Word
  <1> DEFINE f == CHOOSE g : g = [i \in 0 .. CpWidth |->
                 IF i = 0 THEN 0 ELSE g[i - 1] + (IF i - 1 \in bits THEN Power[i - 1] ELSE 0)]
  <1>1. CpWidth \in Nat
    BY CpWidthIsEven
  <1>2. Adds(bits, CpWidth, f)
    <2>1. \E g : Adds(bits, CpWidth, g)
      BY <1>1, AddsExist
    <2> QED BY <2>1 DEF Adds
  <1>3. WordOf(bits) = f[CpWidth]
    BY DEF WordOf
  <1> HIDE DEF f
  <1>4. \A i \in 0 .. CpWidth : f[i] = IF i = 0 THEN 0 ELSE f[i - 1] + (IF i - 1 \in bits THEN Power[i - 1] ELSE 0)
    BY <1>2 DEF Adds
  <1> DEFINE N == {n \in Nat : n <= CpWidth => f[n] \in 0 .. Power[n] - 1}
  <1>5. 0 \in N
    BY <1>1, <1>4, PowerStep
  <1>6. ASSUME NEW n \in Nat, n \in N PROVE n + 1 \in N
    <2> SUFFICES ASSUME n + 1 <= CpWidth PROVE f[n + 1] \in 0 .. Power[n + 1] - 1
      OBVIOUS
    <2>1. n + 1 \in 0 .. CpWidth /\ n + 1 # 0 /\ (n + 1) - 1 = n /\ n <= CpWidth
      BY <1>1
    <2>2. f[n + 1] = f[n] + (IF n \in bits THEN Power[n] ELSE 0)
      BY <1>4, <2>1
    <2>3. f[n] \in 0 .. Power[n] - 1 /\ Power[n] \in Nat /\ Power[n + 1] = 2 * Power[n]
      BY <1>6, <2>1, PowerStep, PowerPositive
    <2> QED BY <2>2, <2>3
  <1>7. \A n \in Nat : n \in N
    <2> HIDE DEF N
    <2> QED BY <1>5, <1>6, CountingUp
  <1> QED BY <1>1, <1>3, <1>7 DEF Word, Modulus

-----------------------------------------------------------------------------
(* A comparison orders its operands. *)

\* The flags f tell the order of a and b.
Tell(f, a, b) ==
    /\ ("CF" \in f) <=> (a < b)
    /\ ("ZF" \in f) <=> (a = b)
    /\ ~(("SF" \in f) <=> ("OF" \in f)) <=> (Signed(a) < Signed(b))

LEMMA FlagsAfterSub ==
    ASSUME NEW a \in Word, NEW b \in Word
    PROVE  Tell(UpdateFlagsArith(a, b, Wrap(a - b), TRUE), a, b)
  <1>1. PICK m \in Nat, h \in Nat : m = Modulus /\ h = Modulus \div 2 /\ m = 2 * h /\ a \in 0 .. m - 1 /\ b \in 0 .. m - 1
    BY WordSize DEF Word
  <1>2. PICK r, f : r = Wrap(a - b) /\ f = UpdateFlagsArith(a, b, r, TRUE)
    OBVIOUS
  <1>3. r = IF a >= b THEN a - b ELSE (a - b) + m
    <2>1. a - b \in Int /\ (a >= b => a - b \in Word) /\ (~(a >= b) => 0 - m <= a - b /\ a - b < 0)
      BY <1>1 DEF Word
    <2> QED BY <1>1, <1>2, <2>1, WrapSmall
  <1>4. /\ ("CF" \in f) <=> (a < b)
        /\ ("ZF" \in f) <=> (r = 0)
        /\ ("SF" \in f) <=> Negative(r)
        /\ ("OF" \in f) <=> (~(Negative(a) <=> Negative(b)) /\ ~(Negative(a) <=> Negative(r)))
    BY <1>2 DEF UpdateFlagsArith, ResultFlags, On, Negative
  <1>5. (r = 0) <=> (a = b)
    BY <1>1, <1>3
  <1>6. (Negative(a) <=> a >= h) /\ (Negative(b) <=> b >= h) /\ (Negative(r) <=> r >= h)
    BY <1>1 DEF Negative
  <1>7. Signed(a) = (IF a >= h THEN a - m ELSE a) /\ Signed(b) = (IF b >= h THEN b - m ELSE b)
    BY <1>1, <1>6 DEF Signed
  <1>8. /\ a >= h /\ b >= h => (Signed(a) < Signed(b) <=> r >= h)
        /\ a < h /\ b < h => (Signed(a) < Signed(b) <=> r >= h)
        /\ a >= h /\ b < h => Signed(a) < Signed(b)
        /\ a < h /\ b >= h => ~(Signed(a) < Signed(b))
    BY <1>1, <1>3, <1>7
  <1>9. a \in Int /\ b \in Int /\ r \in Int /\ h \in Int
    BY <1>1, <1>3
  <1>10. /\ a >= h \/ a < h
         /\ b >= h \/ b < h
         /\ ~(a >= h /\ a < h)
         /\ ~(b >= h /\ b < h)
    BY <1>9
  <1>11. ~(("SF" \in f) <=> ("OF" \in f)) <=> (Signed(a) < Signed(b))
    <2>1. CASE Negative(a) /\ Negative(b)
      BY <1>4, <1>6, <1>8, <2>1
    <2>2. CASE ~Negative(a) /\ ~Negative(b)
      BY <1>4, <1>6, <1>8, <1>10, <2>2
    <2>3. CASE Negative(a) /\ ~Negative(b)
      BY <1>4, <1>6, <1>8, <1>10, <2>3
    <2>4. CASE ~Negative(a) /\ Negative(b)
      BY <1>4, <1>6, <1>8, <1>10, <2>4
    <2> QED BY <2>1, <2>2, <2>3, <2>4
  <1>12. Tell(f, a, b)
    BY <1>4, <1>5, <1>11 DEF Tell
  <1> QED BY <1>2, <1>12

\* Each condition of Jcc and CMOV then decides as the order of the words.
LEMMA TakenIsOrdered ==
    ASSUME NEW a \in Word, NEW b \in Word, NEW cc \in Orderings
    PROVE  Taken(cc, UpdateFlagsArith(a, b, Wrap(a - b), TRUE)) <=> Ordered(cc, a, b)
  <1>1. PICK f : f = UpdateFlagsArith(a, b, Wrap(a - b), TRUE)
    OBVIOUS
  <1>2. Tell(f, a, b)
    BY <1>1, FlagsAfterSub
  <1>3. a \in Int /\ b \in Int /\ Signed(a) \in Int /\ Signed(b) \in Int
    BY SignedIs DEF Word
  <1>4. Signed(a) = Signed(b) <=> a = b
    BY <1>3, SignedIs, WordSize DEF Word
  <1>5. /\ a <= b <=> (a < b \/ a = b)
        /\ a >= b <=> ~(a < b)
        /\ a > b <=> ~(a < b \/ a = b)
        /\ Signed(a) <= Signed(b) <=> (Signed(a) < Signed(b) \/ a = b)
        /\ Signed(a) >= Signed(b) <=> ~(Signed(a) < Signed(b))
        /\ Signed(a) > Signed(b) <=> ~(Signed(a) < Signed(b) \/ a = b)
    BY <1>3, <1>4
  <1>6. CASE cc \in {"B", "AE", "BE", "A"}
    BY <1>1, <1>2, <1>5, <1>6 DEF Tell, Taken, Ordered
  <1>7. CASE cc \in {"E", "NE"}
    BY <1>1, <1>2, <1>7 DEF Tell, Taken, Ordered
  <1>10. /\ (("SF" \in f) # ("OF" \in f)) <=> Signed(a) < Signed(b)
         /\ (("SF" \in f) = ("OF" \in f)) <=> ~(Signed(a) < Signed(b))
    BY <1>2 DEF Tell
  <1>8. CASE cc \in {"L", "GE"}
    BY <1>1, <1>5, <1>8, <1>10 DEF Taken, Ordered
  <1>9. CASE cc \in {"LE", "G"}
    BY <1>1, <1>2, <1>5, <1>9, <1>10 DEF Tell, Taken, Ordered
  <1> QED BY <1>6, <1>7, <1>8, <1>9 DEF Orderings

LEMMA ComparisonsOrder ==
    CpTypeOK => \A d, s \in CpRegs : Compare(d, s) =>
                  \A cc \in Orderings : Taken(cc, cpFlags') <=> Ordered(cc, cpGpr[d], cpGpr[s])
  <1> SUFFICES ASSUME CpTypeOK, NEW d \in CpRegs, NEW s \in CpRegs, Compare(d, s), NEW cc \in Orderings
               PROVE  Taken(cc, cpFlags') <=> Ordered(cc, cpGpr[d], cpGpr[s])
    OBVIOUS
  <1>1. cpGpr[d] \in Word /\ cpGpr[s] \in Word
    BY DEF CpTypeOK
  <1>2. cpFlags' = AluResult("cmp", cpGpr[d], cpGpr[s])[2]
    BY DEF Compare, Alu, Retire
  <1>3. AluResult("cmp", cpGpr[d], cpGpr[s])[2]
          = UpdateFlagsArith(cpGpr[d], cpGpr[s], Wrap(cpGpr[d] - cpGpr[s]), TRUE)
    BY DEF AluResult
  <1> QED BY <1>1, <1>2, <1>3, TakenIsOrdered

-----------------------------------------------------------------------------
(* The products by halves are exact. *)

LEMMA ProductByHalves ==
    ASSUME NEW h \in Nat \ {0}, NEW aHi \in Nat, NEW aLo \in Nat, NEW bHi \in Nat, NEW bLo \in Nat,
           NEW q0 \in Nat, NEW r0 \in Nat, NEW q1 \in Nat, NEW r1 \in Nat, NEW q2 \in Nat, NEW r2 \in Nat,
           NEW qc \in Nat, NEW rc \in Nat,
           aLo * bLo = (q0 * h) + r0, aLo * bHi = (q1 * h) + r1, aHi * bLo = (q2 * h) + r2,
           q0 + r1 + r2 = (qc * h) + rc
    PROVE  ((aHi * bHi) + q1 + q2 + qc) * (h * h) + (r0 + rc * h)
             = ((aHi * h) + aLo) * ((bHi * h) + bLo)
  <1>1. ((aHi * h) + aLo) * ((bHi * h) + bLo)
          = (((aHi * bHi) * h) * h) + ((aLo * bHi) + (aHi * bLo)) * h + (aLo * bLo)
    OBVIOUS
  <1>2. ((aLo * bHi) + (aHi * bLo)) * h + (aLo * bLo)
          = (q1 * h) * h + (q2 * h) * h + (r1 + r2 + q0) * h + r0
    OBVIOUS
  <1>3. (r1 + r2 + q0) * h = (qc * h) * h + rc * h
    OBVIOUS
  <1>4. ((aHi * bHi) + q1 + q2 + qc) * (h * h)
          = (((aHi * bHi) * h) * h) + (q1 * h) * h + (q2 * h) * h + (qc * h) * h
    OBVIOUS
  <1> QED BY <1>1, <1>2, <1>3, <1>4

LEMMA QuotientAndRest ==
    ASSUME NEW h \in Nat \ {0}, NEW v \in Nat
    PROVE  \E q \in Nat, r \in 0 .. h - 1 : q = v \div h /\ r = v % h /\ v = (q * h) + r
  OBVIOUS

LEMMA UnsignedProduct ==
    ASSUME NEW a \in Word, NEW b \in Word
    PROVE  /\ Mul128U(a, b) = <<Mul128U(a, b)[1], Mul128U(a, b)[2]>>
           /\ Mul128U(a, b)[1] \in Word /\ Mul128U(a, b)[2] \in Word
           /\ Mul128U(a, b)[1] * Modulus + Mul128U(a, b)[2] = a * b
  <1>1. PICK h \in Nat \ {0}, m \in Nat \ {0} : h = Half /\ m = Modulus /\ m = h * h
    BY WordSize
  <1>2. a \in Nat /\ b \in Nat /\ a < m /\ b < m
    BY <1>1 DEF Word
  <1>3. PICK aHi \in Nat, aLo \in 0 .. h - 1 : aHi = a \div h /\ aLo = a % h /\ a = (aHi * h) + aLo
    BY <1>2, QuotientAndRest
  <1>4. PICK bHi \in Nat, bLo \in 0 .. h - 1 : bHi = b \div h /\ bLo = b % h /\ b = (bHi * h) + bLo
    BY <1>2, QuotientAndRest
  <1>5. PICK p0 \in Nat, p1 \in Nat, p2 \in Nat, p3 \in Nat :
          p0 = aLo * bLo /\ p1 = aLo * bHi /\ p2 = aHi * bLo /\ p3 = aHi * bHi
    BY <1>3, <1>4
  <1>6. PICK q0 \in Nat, r0 \in 0 .. h - 1 : q0 = p0 \div h /\ r0 = p0 % h /\ p0 = (q0 * h) + r0
    BY <1>5, QuotientAndRest
  <1>7. PICK q1 \in Nat, r1 \in 0 .. h - 1 : q1 = p1 \div h /\ r1 = p1 % h /\ p1 = (q1 * h) + r1
    BY <1>5, QuotientAndRest
  <1>8. PICK q2 \in Nat, r2 \in 0 .. h - 1 : q2 = p2 \div h /\ r2 = p2 % h /\ p2 = (q2 * h) + r2
    BY <1>5, QuotientAndRest
  <1>9. PICK cy \in Nat : cy = q0 + r1 + r2
    BY <1>6, <1>7, <1>8
  <1>10. PICK qc \in Nat, rc \in 0 .. h - 1 : qc = cy \div h /\ rc = cy % h /\ cy = (qc * h) + rc
    BY <1>9, QuotientAndRest
  <1>11. PICK hi \in Nat, lo \in Nat : hi = p3 + q1 + q2 + qc /\ lo = r0 + (rc * h)
    BY <1>5, <1>6, <1>7, <1>8, <1>10
  <1>12. Mul128U(a, b) = <<hi, lo>>
    BY <1>1, <1>3, <1>4, <1>5, <1>6, <1>7, <1>8, <1>9, <1>10, <1>11 DEF Mul128U
  <1>13. hi * m + lo = a * b
    <2>1. /\ r0 \in Nat /\ r1 \in Nat /\ r2 \in Nat /\ rc \in Nat /\ aLo \in Nat /\ bLo \in Nat
          /\ aLo * bLo = (q0 * h) + r0 /\ aLo * bHi = (q1 * h) + r1 /\ aHi * bLo = (q2 * h) + r2
          /\ q0 + r1 + r2 = (qc * h) + rc
      <3>1. r0 \in Nat /\ r1 \in Nat /\ r2 \in Nat /\ rc \in Nat /\ aLo \in Nat /\ bLo \in Nat
        BY <1>3, <1>4, <1>6, <1>7, <1>8, <1>10
      <3>2. aLo * bLo = (q0 * h) + r0 /\ aLo * bHi = (q1 * h) + r1 /\ aHi * bLo = (q2 * h) + r2
        BY <1>5, <1>6, <1>7, <1>8, Zenon
      <3>3. q0 + r1 + r2 = (qc * h) + rc
        BY <1>9, <1>10, Zenon
      <3> QED BY <3>1, <3>2, <3>3
    <2>2. ((aHi * bHi) + q1 + q2 + qc) * (h * h) + (r0 + rc * h) = ((aHi * h) + aLo) * ((bHi * h) + bLo)
      BY <2>1, ProductByHalves
    <2>3. hi = (aHi * bHi) + q1 + q2 + qc
      BY <1>5, <1>11
    <2> QED BY <1>1, <1>3, <1>4, <1>11, <2>2, <2>3
  <1>14. lo < m
    <2>1. rc * h <= (h - 1) * h
      BY <1>10
    <2>2. (h - 1) * h = m - h
      BY <1>1
    <2> QED BY <1>6, <1>11, <2>1, <2>2
  <1>15. hi < m
    <2>1. a * b <= (m - 1) * (m - 1)
      BY <1>2
    <2>2. (m - 1) * (m - 1) < m * m
      OBVIOUS
    <2>3. hi >= m => hi * m >= m * m
      OBVIOUS
    <2>4. a * b \in Nat /\ hi * m \in Nat /\ m * m \in Nat /\ (m - 1) * (m - 1) \in Nat
      BY <1>2
    <2> QED BY <1>13, <2>1, <2>2, <2>3, <2>4
  <1> QED BY <1>1, <1>12, <1>13, <1>14, <1>15 DEF Word

LEMMA WrapAround ==
    ASSUME NEW v \in Int
    PROVE  Wrap(v + Modulus) = Wrap(v)
  <1>1. PICK m \in Nat \ {0} : m = Modulus
    BY WordSize
  <1>2. PICK q \in Int, r \in 0 .. m - 1 : v = (q * m) + r
    <2>1. v = ((v \div m) * m) + (v % m) /\ v \div m \in Int /\ v % m \in 0 .. m - 1
      OBVIOUS
    <2> QED BY <2>1
  <1>3. v + m = ((q + 1) * m) + r
    BY <1>2
  <1>4. Wrap(v) = r
    BY <1>1, <1>2, WrapIs DEF Word
  <1>5. q + 1 \in Int /\ r \in Word
    BY <1>1, <1>2 DEF Word
  <1>6. Wrap(((q + 1) * m) + r) = r
    BY <1>1, <1>5, WrapIs
  <1> QED BY <1>1, <1>3, <1>4, <1>6

\* A number whose low word is lo fits one signed word just when its high one is lo's sign.
LEMMA HighWordRange ==
    ASSUME NEW k \in Nat \ {0}, NEW x \in Int, NEW y \in Int, NEW high \in Int, NEW lo \in 0 .. (2 * k) - 1,
           0 - k <= x, x <= k, 0 - k <= y, y <= k,
           x * y = (high * (2 * k)) + lo
    PROVE  0 - k <= high /\ high < k
  <1>1. 0 - (k * k) <= x * y /\ x * y <= k * k
    OBVIOUS
  <1>2. k * k >= k
    OBVIOUS
  <1>3. ASSUME high >= k PROVE FALSE
    <2>1. high * (2 * k) >= k * (2 * k)
      BY <1>3
    <2>2. k * (2 * k) = 2 * (k * k)
      OBVIOUS
    <2>3. k * k \in Int /\ x * y \in Int /\ high * (2 * k) \in Int
      OBVIOUS
    <2> QED BY <1>1, <1>2, <2>1, <2>2, <2>3
  <1>4. ASSUME high < 0 - k PROVE FALSE
    <2>1. high + 1 <= 0 - k
      BY <1>4
    <2>2. (high + 1) * (2 * k) <= (0 - k) * (2 * k)
      BY <2>1
    <2>3. (0 - k) * (2 * k) = 0 - (2 * (k * k))
      OBVIOUS
    <2>4. (high + 1) * (2 * k) = (high * (2 * k)) + (2 * k)
      OBVIOUS
    <2>5. k * k \in Int /\ x * y \in Int /\ high * (2 * k) \in Int
      OBVIOUS
    <2> QED BY <1>1, <1>2, <2>2, <2>3, <2>4, <2>5
  <1> QED BY <1>3, <1>4

LEMMA SignedProduct ==
    ASSUME NEW a \in Word, NEW b \in Word
    PROVE  \E hi \in Word, lo \in Word :
              /\ Mul128S(a, b) = <<hi, lo>>
              /\ (Signed(hi) * Modulus) + lo = Signed(a) * Signed(b)
              /\ SignedOverflow(<<hi, lo>>) <=> (Signed(a) * Signed(b) # Signed(Wrap(Signed(a) * Signed(b))))
  <1>1. PICK m \in Nat \ {0}, k \in Nat \ {0} : m = Modulus /\ k = Modulus \div 2 /\ m = 2 * k
    BY WordSize
  <1>2. PICK u, lo \in Word : Mul128U(a, b) = <<u, lo>> /\ u \in Word /\ (u * m) + lo = a * b
    BY <1>1, UnsignedProduct
  <1>3. PICK x \in Int, y \in Int : x = Signed(a) /\ y = Signed(b)
    BY SignedIs
  <1>4. /\ a \in Nat /\ b \in Nat /\ u \in Nat /\ lo \in 0 .. (2 * k) - 1
        /\ 0 - k <= x /\ x <= k /\ 0 - k <= y /\ y <= k
    BY <1>1, <1>2, <1>3, SignedIs DEF Word
  <1>5. PICK na \in {0, 1}, nb \in {0, 1} :
          /\ x = a - (na * m) /\ y = b - (nb * m)
          /\ Negative(a) <=> na = 1
          /\ Negative(b) <=> nb = 1
    <2>1. \E na \in {0, 1} : x = a - (na * m) /\ (Negative(a) <=> na = 1)
      <3>1. CASE Negative(a)
        <4>1. x = a - m
          BY <1>1, <1>3, <3>1 DEF Signed
        <4>2. x = a - (1 * m)
          BY <1>4, <4>1
        <4> QED BY <3>1, <4>2
      <3>2. CASE ~Negative(a)
        BY <1>1, <1>3, <1>4, <3>2 DEF Signed
      <3> QED BY <3>1, <3>2
    <2>2. \E nb \in {0, 1} : y = b - (nb * m) /\ (Negative(b) <=> nb = 1)
      <3>1. CASE Negative(b)
        <4>1. y = b - m
          BY <1>1, <1>3, <3>1 DEF Signed
        <4>2. y = b - (1 * m)
          BY <1>4, <4>1
        <4> QED BY <3>1, <4>2
      <3>2. CASE ~Negative(b)
        BY <1>1, <1>3, <1>4, <3>2 DEF Signed
      <3> QED BY <3>1, <3>2
    <2> QED BY <2>1, <2>2
  <1>6. PICK v \in Int : v = u - (na * b) - (nb * a)
    BY <1>4
  <1>7. Mul128S(a, b) = <<Wrap(v), lo>>
    <2>1. (IF Negative(a) THEN b ELSE 0) = na * b /\ (IF Negative(b) THEN a ELSE 0) = nb * a
      BY <1>4, <1>5
    <2> QED BY <1>2, <1>6, <2>1 DEF Mul128S
  <1>8. PICK high \in Int : high = v + ((na * nb) * m) /\ x * y = (high * m) + lo
    <2>1. PICK high \in Int : high = v + ((na * nb) * m)
      OBVIOUS
    <2>2. x * y = (a * b) - ((na * b) * m) - ((nb * a) * m) + (((na * nb) * m) * m)
      BY <1>4, <1>5
    <2>3. high * m = (u * m) - ((na * b) * m) - ((nb * a) * m) + (((na * nb) * m) * m)
      BY <1>4, <1>6, <2>1
    <2>4. lo \in Int /\ u * m \in Int /\ a * b \in Int
      BY <1>4
    <2> QED BY <1>2, <2>1, <2>2, <2>3, <2>4
  <1>9. 0 - k <= high /\ high < k
    BY <1>1, <1>4, <1>8, HighWordRange
  <1>10. PICK hi : hi = Wrap(v)
    OBVIOUS
  <1>11. hi = Wrap(high) /\ hi \in Word /\ Signed(hi) = high
    <2>1. CASE na = 1 /\ nb = 1
      BY <1>1, <1>8, <1>9, <1>10, <2>1, WrapAround, WrapWord, SignedWrap
    <2>2. CASE na = 0 \/ nb = 0
      <3>1. high = v
        BY <1>8, <2>2
      <3> QED BY <1>1, <1>9, <1>10, <3>1, WrapWord, SignedWrap
    <2> QED BY <2>1, <2>2
  <1>12. (Signed(hi) * Modulus) + lo = x * y
    BY <1>1, <1>8, <1>11
  <1>13. Wrap(x * y) = lo
    BY <1>1, <1>8, WrapIs
  <1>14. Signed(lo) = (IF Negative(lo) THEN lo - m ELSE lo)
    BY <1>1 DEF Signed
  <1>15. x * y # Signed(lo) <=> high # (IF Negative(lo) THEN 0 - 1 ELSE 0)
    <2>1. lo \in Int /\ high * m \in Int
      BY <1>4
    <2>2. CASE Negative(lo)
      <3>1. high * m = (0 - 1) * m <=> high = 0 - 1
        OBVIOUS
      <3>2. x * y = Signed(lo) <=> high * m = (0 - 1) * m
        BY <1>8, <1>14, <2>1, <2>2
      <3> QED BY <2>2, <3>1, <3>2
    <2>3. CASE ~Negative(lo)
      <3>1. high * m = 0 <=> high = 0
        OBVIOUS
      <3>2. x * y = Signed(lo) <=> high * m = 0
        BY <1>8, <1>14, <2>1, <2>3
      <3> QED BY <2>3, <3>1, <3>2
    <2> QED BY <2>2, <2>3
  <1>16. /\ hi = m - 1 <=> high = 0 - 1
         /\ hi = 0 <=> high = 0
    <2>1. hi = IF high >= 0 THEN high ELSE high + m
      <3>1. high >= 0 => high \in Word
        BY <1>1, <1>9 DEF Word
      <3>2. ~(high >= 0) => 0 - m <= high /\ high < 0
        BY <1>1, <1>9
      <3> QED BY <1>1, <1>11, <3>1, <3>2, WrapSmall
    <2> QED BY <1>1, <1>9, <2>1
  <1>17. SignedOverflow(<<hi, lo>>) <=> hi # (IF Negative(lo) THEN m - 1 ELSE 0)
    BY <1>1 DEF SignedOverflow
  <1>18. SignedOverflow(<<hi, lo>>) <=> x * y # Signed(Wrap(x * y))
    BY <1>13, <1>15, <1>16, <1>17
  <1> QED BY <1>3, <1>7, <1>10, <1>11, <1>12, <1>18

LEMMA SignedProductWords ==
    ASSUME NEW a \in Word, NEW b \in Word
    PROVE  \E hi \in Word, lo \in Word : Mul128S(a, b) = <<hi, lo>>
  <1>1. PICK hi \in Word, lo \in Word :
              /\ Mul128S(a, b) = <<hi, lo>>
              /\ (Signed(hi) * Modulus) + lo = Signed(a) * Signed(b)
              /\ SignedOverflow(<<hi, lo>>) <=> (Signed(a) * Signed(b) # Signed(Wrap(Signed(a) * Signed(b))))
    BY SignedProduct
  <1> QED BY <1>1

LEMMA SignedProductsExact ==
    CpTypeOK => \A s \in CpRegs : MultiplySigned(s) =>
         LET product == Signed(cpGpr["rax"]) * Signed(cpGpr[s])
         IN  /\ Signed(cpGpr'["rdx"]) * Modulus + cpGpr'["rax"] = product
             /\ ("OF" \in cpFlags') <=> (product # Signed(Wrap(product)))
  <1> SUFFICES ASSUME CpTypeOK, NEW s \in CpRegs, MultiplySigned(s)
               PROVE  /\ Signed(cpGpr'["rdx"]) * Modulus + cpGpr'["rax"] = Signed(cpGpr["rax"]) * Signed(cpGpr[s])
                      /\ ("OF" \in cpFlags') <=>
                           (Signed(cpGpr["rax"]) * Signed(cpGpr[s])
                              # Signed(Wrap(Signed(cpGpr["rax"]) * Signed(cpGpr[s]))))
    OBVIOUS
  <1>1. cpGpr["rax"] \in Word /\ cpGpr[s] \in Word /\ "rax" \in DOMAIN cpGpr /\ "rdx" \in DOMAIN cpGpr
    BY CpRegsNamed DEF CpTypeOK
  <1>2. PICK hi \in Word, lo \in Word :
          /\ Mul128S(cpGpr["rax"], cpGpr[s]) = <<hi, lo>>
          /\ (Signed(hi) * Modulus) + lo = Signed(cpGpr["rax"]) * Signed(cpGpr[s])
          /\ SignedOverflow(<<hi, lo>>) <=>
               (Signed(cpGpr["rax"]) * Signed(cpGpr[s]) # Signed(Wrap(Signed(cpGpr["rax"]) * Signed(cpGpr[s]))))
    BY <1>1, SignedProduct
  <1>3. /\ cpGpr' = [cpGpr EXCEPT !["rax"] = lo, !["rdx"] = hi]
        /\ cpFlags' = ProductFlags(SignedOverflow(<<hi, lo>>))
    BY <1>2 DEF MultiplySigned, Retire
  <1>4. cpGpr'["rdx"] = hi /\ cpGpr'["rax"] = lo
    BY <1>1, <1>3
  <1>5. ("OF" \in cpFlags') <=> SignedOverflow(<<hi, lo>>)
    BY <1>3 DEF ProductFlags, On
  <1> QED BY <1>2, <1>4, <1>5

-----------------------------------------------------------------------------
(* Every instruction leaves words in the registers. *)

LEMMA FlagsAreFlags ==
    /\ \A r : ResultFlags(r) \subseteq Flags /\ UpdateFlagsLogic(r) \subseteq Flags
    /\ \A a, b, r : \A sub \in BOOLEAN : UpdateFlagsArith(a, b, r, sub) \subseteq Flags
    /\ \A lost : cpFlags \subseteq Flags => ProductFlags(lost) \subseteq Flags
    /\ \A f \in Flags : \A cond : On(f, cond) \subseteq Flags
  <1>1. \A f \in Flags : \A cond : On(f, cond) \subseteq Flags
    BY DEF On
  <1>2. {"CF", "PF", "ZF", "SF", "OF"} \subseteq Flags
    BY DEF Flags
  <1>3. \A r : ResultFlags(r) \subseteq Flags
    BY <1>1, <1>2 DEF ResultFlags
  <1>4. \A a, b, r : \A sub \in BOOLEAN : UpdateFlagsArith(a, b, r, sub) \subseteq Flags
    BY <1>1, <1>2, <1>3 DEF UpdateFlagsArith
  <1>5. \A lost : cpFlags \subseteq Flags => ProductFlags(lost) \subseteq Flags
    BY <1>1, <1>2 DEF ProductFlags
  <1> QED BY <1>1, <1>3, <1>4, <1>5 DEF UpdateFlagsLogic

LEMMA RetireKeeps ==
    ASSUME NEW gpr \in [CpRegs -> Word], NEW flags \in SUBSET Flags, Retire(gpr, flags)
    PROVE  CpTypeOK'
  BY DEF Retire, CpTypeOK

LEMMA PutKeeps ==
    ASSUME CpTypeOK, NEW d \in CpRegs, NEW w \in Word, NEW flags \in SUBSET Flags,
           Retire([cpGpr EXCEPT ![d] = w], flags)
    PROVE  CpTypeOK'
  <1>1. [cpGpr EXCEPT ![d] = w] \in [CpRegs -> Word]
    BY DEF CpTypeOK
  <1> QED BY <1>1, RetireKeeps

LEMMA PutTwoKeeps ==
    ASSUME CpTypeOK, NEW d \in CpRegs, NEW w \in Word, NEW e \in CpRegs, NEW x \in Word,
           NEW flags \in SUBSET Flags, Retire([cpGpr EXCEPT ![d] = w, ![e] = x], flags)
    PROVE  CpTypeOK'
  <1>1. [cpGpr EXCEPT ![d] = w, ![e] = x] \in [CpRegs -> Word]
    BY DEF CpTypeOK
  <1> QED BY <1>1, RetireKeeps

LEMMA RefuseKeeps ==
    ASSUME CpTypeOK, NEW result \in {"Ok", "Fault", "HostTrap"}, Refuse(result)
    PROVE  CpTypeOK'
  BY DEF Refuse, CpTypeOK

LEMMA AluKeeps ==
    ASSUME CpTypeOK, NEW op \in {"add", "or", "and", "sub", "xor", "cmp", "test"},
           NEW d \in CpRegs, NEW b \in Word, Alu(op, d, b)
    PROVE  CpTypeOK'
  <1>1. PICK a \in Word : a = cpGpr[d]
    BY DEF CpTypeOK
  <1>2. a + b \in Int /\ a - b \in Int
    BY DEF Word
  <1>3. PICK w, f : <<w, f>> = AluResult(op, a, b) /\ w \in Word /\ f \in SUBSET Flags
    <2>1. CASE op = "add"
      BY <1>2, <2>1, WrapWord, FlagsAreFlags DEF AluResult
    <2>2. CASE op \in {"sub", "cmp"}
      BY <1>2, <2>2, WrapWord, FlagsAreFlags DEF AluResult
    <2>3. CASE op = "or"
      BY <2>3, WordOfIsWord, FlagsAreFlags DEF AluResult, Or
    <2>4. CASE op \in {"and", "test"}
      BY <2>4, WordOfIsWord, FlagsAreFlags DEF AluResult, And
    <2>5. CASE op = "xor"
      BY <2>5, WordOfIsWord, FlagsAreFlags DEF AluResult, Xor
    <2> QED BY <2>1, <2>2, <2>3, <2>4, <2>5
  <1>4. Retire(IF op \in {"cmp", "test"} THEN cpGpr ELSE [cpGpr EXCEPT ![d] = w], f)
    <2>1. PICK res : res = AluResult(op, cpGpr[d], b) /\ res = <<w, f>>
      BY <1>1, <1>3
    <2>2. res[1] = w /\ res[2] = f
      BY <2>1
    <2>3. Retire(IF op \in {"cmp", "test"} THEN cpGpr ELSE [cpGpr EXCEPT ![d] = res[1]], res[2])
      BY <2>1 DEF Alu
    <2> QED BY <2>2, <2>3, Zenon
  <1>5. cpGpr \in [CpRegs -> Word]
    BY DEF CpTypeOK
  <1>6. CASE op \in {"cmp", "test"}
    BY <1>3, <1>4, <1>5, <1>6, RetireKeeps
  <1>7. CASE op \notin {"cmp", "test"}
    BY <1>3, <1>4, <1>7, PutKeeps
  <1> QED BY <1>6, <1>7

LEMMA ArithmeticKeeps ==
    ASSUME CpTypeOK, NEW d \in CpRegs, NEW s \in CpRegs, Arithmetic(d, s)
    PROVE  CpTypeOK'
  <1>1. cpGpr[d] \in Word /\ cpGpr[s] \in Word /\ cpFlags \in SUBSET Flags /\ cpGpr \in [CpRegs -> Word]
    BY DEF CpTypeOK
  <1>2. CASE \E op \in {"add", "or", "and", "sub", "xor"} : AluRegister(op, d, s)
    BY <1>1, <1>2, AluKeeps DEF AluRegister
  <1>3. CASE Compare(d, s)
    BY <1>1, <1>3, AluKeeps DEF Compare
  <1>4. CASE TestRegister(d, s)
    BY <1>1, <1>4, AluKeeps DEF TestRegister
  <1>5. CASE \E n \in CpNarrow, sx \in BOOLEAN : MoveExtended(d, s, n, sx)
    <2>1. PICK n \in CpNarrow, sx \in BOOLEAN : MoveExtended(d, s, n, sx)
      BY <1>5
    <2>2. n \in Nat
      BY CpNarrowFits, CpWidthIsEven
    <2>3. Widened(cpGpr[s], n) \in Word /\ Low(cpGpr[s], n) \in Word
      BY <1>1, <2>2, WidenedWord, LowWord
    <2> QED BY <1>1, <2>1, <2>3, PutKeeps DEF MoveExtended
  <1>6. CASE Move(d, s)
    BY <1>1, <1>6, PutKeeps DEF Move
  <1>7. CASE \E cc \in Conditions : ConditionalMove(cc, d, s)
    BY <1>1, <1>7, PutKeeps, RetireKeeps DEF ConditionalMove
  <1>8. CASE MultiplyInto(d, cpGpr[d], cpGpr[s])
    <2>1. PICK hi \in Word, lo \in Word : Mul128S(cpGpr[d], cpGpr[s]) = <<hi, lo>>
      BY <1>1, SignedProductWords
    <2>2. Retire([cpGpr EXCEPT ![d] = lo], ProductFlags(SignedOverflow(<<hi, lo>>)))
      BY <1>8, <2>1 DEF MultiplyInto
    <2> QED BY <1>1, <2>2, PutKeeps, FlagsAreFlags
  <1> QED BY <1>2, <1>3, <1>4, <1>5, <1>6, <1>7, <1>8 DEF Arithmetic

LEMMA WithImmediateKeeps ==
    ASSUME CpTypeOK, NEW d \in CpRegs, NEW s \in CpRegs, NEW imm \in Immediates,
           Lea(d, s, imm) \/ MultiplyInto(d, cpGpr[s], imm)
    PROVE  CpTypeOK'
  <1>1. cpGpr[s] \in Word /\ imm \in Word /\ cpFlags \in SUBSET Flags
    BY ImmediatesAreWords DEF CpTypeOK
  <1>2. CASE Lea(d, s, imm)
    <2>1. cpGpr[s] + imm \in Int
      BY <1>1 DEF Word
    <2> QED BY <1>1, <1>2, <2>1, WrapWord, PutKeeps DEF Lea
  <1>3. CASE MultiplyInto(d, cpGpr[s], imm)
    <2>1. PICK hi \in Word, lo \in Word : Mul128S(cpGpr[s], imm) = <<hi, lo>>
      BY <1>1, SignedProductWords
    <2>2. Retire([cpGpr EXCEPT ![d] = lo], ProductFlags(SignedOverflow(<<hi, lo>>)))
      BY <1>3, <2>1 DEF MultiplyInto
    <2> QED BY <1>1, <2>2, PutKeeps, FlagsAreFlags
  <1> QED BY <1>2, <1>3

LEMMA AluImmediateKeeps ==
    ASSUME CpTypeOK, NEW d \in CpRegs, NEW imm \in Immediates, NEW ext \in 0 .. 7, AluImmediate(d, ext, imm)
    PROVE  CpTypeOK'
  <1>1. imm \in Word
    BY ImmediatesAreWords
  <1>2. CASE ext \in {2, 3}
    BY <1>2, RefuseKeeps DEF AluImmediate, Unimplemented
  <1>3. CASE ext \notin {2, 3}
    <2>1. \E op \in {"add", "or", "and", "sub", "xor", "cmp", "test"} : Alu(op, d, imm)
      BY <1>3 DEF AluImmediate
    <2> QED BY <1>1, <2>1, AluKeeps
  <1> QED BY <1>2, <1>3

LEMMA ShiftKeeps ==
    ASSUME CpTypeOK, NEW d \in CpRegs, NEW ext \in {0, 4, 5, 7}, NEW count \in 0 .. CpWidth - 1,
           Shift(d, ext, count)
    PROVE  CpTypeOK'
  <1>1. PICK v \in Word : v = cpGpr[d]
    BY DEF CpTypeOK
  <1>2. PICK p \in Nat \ {0} : p = Power[count]
    BY PowerPositive, CpWidthIsEven
  <1>3. v * p \in Int /\ Signed(v) \div p \in Int /\ v \div p \in 0 .. v
    BY SignedIs DEF Word
  <1>4. Wrap(v * p) \in Word /\ Wrap(Signed(v) \div p) \in Word /\ v \div p \in Word
    BY <1>3, WrapWord, WordSize DEF Word
  <1>5. CASE ext \in {4, 5, 7}
    <2>1. \E r \in Word : Retire([cpGpr EXCEPT ![d] = r], UpdateFlagsLogic(r))
      BY <1>1, <1>2, <1>4, <1>5 DEF Shift
    <2> QED BY <2>1, PutKeeps, FlagsAreFlags
  <1>6. CASE ext \notin {4, 5, 7}
    BY <1>6, RefuseKeeps DEF Shift, Unimplemented
  <1> QED BY <1>5, <1>6

\* Instructions with one operand.
LEMMA OneOperandKeeps ==
    ASSUME CpTypeOK, NEW d \in CpRegs,
           \/ AddMemory(d) \/ Load(d) \/ Exchange(d)
           \/ Increment(d) \/ Decrement(d) \/ Complement(d) \/ Negate(d)
    PROVE  CpTypeOK'
  <1>1. /\ cpGpr[d] \in Word /\ cpFlags \in SUBSET Flags /\ cpGpr["rax"] \in Word
        /\ "rax" \in CpRegs /\ {"CF", "PF", "ZF", "SF", "OF"} \subseteq Flags
    BY CpRegsNamed DEF CpTypeOK, Flags
  <1>2. Wrap(cpGpr[d] + 1) \in Word /\ Wrap(cpGpr[d] - 1) \in Word /\ Wrap(0 - cpGpr[d]) \in Word
    BY <1>1, WrapWord DEF Word
  <1>3. Modulus - 1 - cpGpr[d] \in Word
    BY <1>1, WordSize DEF Word
  <1>4. CASE AddMemory(d)
    BY <1>4, AluKeeps, RefuseKeeps DEF AddMemory
  <1>5. CASE Load(d)
    BY <1>1, <1>5, PutKeeps, RefuseKeeps DEF Load
  <1>6. CASE Exchange(d)
    BY <1>1, <1>6, PutTwoKeeps DEF Exchange
  <1>7. CASE Increment(d)
    <2>1. \E w \in Word, f \in SUBSET Flags : Retire([cpGpr EXCEPT ![d] = w], f)
      <3>1. PICK r \in Word : r = Wrap(cpGpr[d] + 1)
        BY <1>2
      <3>2. PICK f : f = (cpFlags \ {"ZF", "SF", "OF"}) \union On("ZF", r = 0) \union On("SF", Negative(r))
                           \union On("OF", cpGpr[d] = (Modulus - 1) \div 2)
        OBVIOUS
      <3>3. f \in SUBSET Flags
        BY <1>1, <3>2, FlagsAreFlags
      <3>4. Retire([cpGpr EXCEPT ![d] = r], f)
        BY <1>7, <3>1, <3>2 DEF Increment
      <3> QED BY <3>3, <3>4
    <2> QED BY <2>1, PutKeeps
  <1>8. CASE Decrement(d)
    <2>1. \E w \in Word, f \in SUBSET Flags : Retire([cpGpr EXCEPT ![d] = w], f)
      <3>1. PICK r \in Word : r = Wrap(cpGpr[d] - 1)
        BY <1>2
      <3>2. PICK f : f = (cpFlags \ {"ZF", "SF"}) \union On("ZF", r = 0) \union On("SF", Negative(r))
        OBVIOUS
      <3>3. f \in SUBSET Flags
        BY <1>1, <3>2, FlagsAreFlags
      <3>4. Retire([cpGpr EXCEPT ![d] = r], f)
        BY <1>8, <3>1, <3>2 DEF Decrement
      <3> QED BY <3>3, <3>4
    <2> QED BY <2>1, PutKeeps
  <1>9. CASE Complement(d)
    BY <1>1, <1>3, <1>9, PutKeeps DEF Complement
  <1>10. CASE Negate(d)
    <2>1. \E w \in Word, f \in SUBSET Flags : Retire([cpGpr EXCEPT ![d] = w], f)
      <3>1. PICK r \in Word : r = Wrap(0 - cpGpr[d])
        BY <1>2
      <3>2. PICK f : f = (cpFlags \ {"CF", "ZF", "SF"}) \union On("CF", cpGpr[d] # 0)
                           \union On("ZF", r = 0) \union On("SF", Negative(r))
        OBVIOUS
      <3>3. f \in SUBSET Flags
        BY <1>1, <3>2, FlagsAreFlags
      <3>4. Retire([cpGpr EXCEPT ![d] = r], f)
        BY <1>10, <3>1, <3>2 DEF Negate
      <3> QED BY <3>3, <3>4
    <2> QED BY <2>1, PutKeeps
  <1> QED BY <1>4, <1>5, <1>6, <1>7, <1>8, <1>9, <1>10

\* MUL, IMUL, DIV and IDIV.
LEMMA ProductOrQuotientKeeps ==
    ASSUME CpTypeOK, NEW s \in CpRegs,
           Multiply(s) \/ MultiplySigned(s) \/ Divide(s) \/ DivideSigned(s)
    PROVE  CpTypeOK'
  <1>1. /\ "rax" \in CpRegs /\ "rdx" \in CpRegs
        /\ cpFlags \in SUBSET Flags /\ cpGpr["rax"] \in Word /\ cpGpr[s] \in Word
    BY CpRegsNamed DEF CpTypeOK
  <1>2. CASE Multiply(s)
    <2>1. PICK p : p = Mul128U(cpGpr["rax"], cpGpr[s])
      OBVIOUS
    <2>2. p[1] \in Word /\ p[2] \in Word
      BY <1>1, <2>1, UnsignedProduct
    <2>3. Retire([cpGpr EXCEPT !["rax"] = p[2], !["rdx"] = p[1]], ProductFlags(p[1] # 0))
      BY <1>2, <2>1 DEF Multiply
    <2> QED BY <1>1, <2>2, <2>3, PutTwoKeeps, FlagsAreFlags
  <1>3. CASE MultiplySigned(s)
    <2>1. PICK hi \in Word, lo \in Word : Mul128S(cpGpr["rax"], cpGpr[s]) = <<hi, lo>>
      BY <1>1, SignedProductWords
    <2>2. Retire([cpGpr EXCEPT !["rax"] = lo, !["rdx"] = hi], ProductFlags(SignedOverflow(<<hi, lo>>)))
      BY <1>3, <2>1 DEF MultiplySigned
    <2> QED BY <1>1, <2>2, PutTwoKeeps, FlagsAreFlags
  <1>4. CASE Divide(s)
    <2>1. CASE cpGpr[s] = 0
      BY <1>4, <2>1, RefuseKeeps DEF Divide
    <2>2. CASE cpGpr[s] # 0
      <3>1. PICK a \in Word, b \in Word \ {0} : a = cpGpr["rax"] /\ b = cpGpr[s]
        BY <1>1, <2>2
      <3>2. a \in Nat /\ b \in Nat \ {0} /\ a < Modulus /\ b < Modulus
        BY WordSize DEF Word
      <3>3. a \div b \in 0 .. a /\ a % b \in 0 .. b - 1
        BY <3>2
      <3>4. a \div b \in Word /\ a % b \in Word
        BY <3>2, <3>3, WordSize DEF Word
      <3> QED BY <1>1, <1>4, <2>2, <3>1, <3>4, PutTwoKeeps DEF Divide
    <2> QED BY <2>1, <2>2
  <1>5. CASE DivideSigned(s)
    <2>1. PICK num \in Int, denom \in Int : num = Signed(cpGpr["rax"]) /\ denom = Signed(cpGpr[s])
      BY <1>1, SignedIs
    <2>2. CASE Refuse("Fault") \/ Refuse("HostTrap")
      BY <2>2, RefuseKeeps
    <2>3. CASE denom # 0 /\ \E w, x : /\ w = Wrap(Truncated(num, denom))
                                      /\ x = Wrap(num - Truncated(num, denom) * denom)
                                      /\ Retire([cpGpr EXCEPT !["rax"] = w, !["rdx"] = x], cpFlags)
      <3>1. Truncated(num, denom) \in Int
        <4>1. PICK a \in Nat : a = IF num < 0 THEN -num ELSE num
          OBVIOUS
        <4>2. PICK b \in Nat \ {0} : b = IF denom < 0 THEN -denom ELSE denom
          BY <2>3
        <4>3. a \div b \in Int
          OBVIOUS
        <4>4. Truncated(num, denom) = (IF (num < 0) = (denom < 0) THEN 1 ELSE -1) * (a \div b)
          BY <4>1, <4>2 DEF Truncated
        <4> QED BY <4>3, <4>4
      <3>2. num - Truncated(num, denom) * denom \in Int
        BY <3>1
      <3>3. Wrap(Truncated(num, denom)) \in Word /\ Wrap(num - Truncated(num, denom) * denom) \in Word
        BY <3>1, <3>2, WrapWord
      <3> QED BY <1>1, <2>3, <3>3, PutTwoKeeps
    <2> QED BY <1>5, <2>1, <2>2, <2>3 DEF DivideSigned
  <1> QED BY <1>2, <1>3, <1>4, <1>5

LEMMA CpTypeInductive == CpTypeOK /\ [CpNext]_cpVars => CpTypeOK'
  <1> SUFFICES ASSUME CpTypeOK, [CpNext]_cpVars PROVE CpTypeOK'
    OBVIOUS
  <1>1. ASSUME NEW d \in CpRegs, NEW s \in CpRegs, Arithmetic(d, s) PROVE CpTypeOK'
    BY <1>1, ArithmeticKeeps
  <1>2. ASSUME NEW d \in CpRegs, NEW s \in CpRegs, NEW imm \in Immediates,
               Lea(d, s, imm) \/ MultiplyInto(d, cpGpr[s], imm)
        PROVE  CpTypeOK'
    BY <1>2, WithImmediateKeeps
  <1>3. ASSUME NEW d \in CpRegs, NEW imm \in Immediates, NEW ext \in 0 .. 7, AluImmediate(d, ext, imm)
        PROVE  CpTypeOK'
    BY <1>3, AluImmediateKeeps
  <1>4. ASSUME NEW imm \in Immediates, NEW n \in CpNarrow \union {CpWidth}, TestImmediate(imm, n)
        PROVE  CpTypeOK'
    <2>1. PICK low : Retire(cpGpr, On("ZF", low = 0) \union On("SF", low >= Power[n - 1]) \union On("PF", Parity(low)))
      BY <1>4 DEF TestImmediate
    <2>2. On("ZF", low = 0) \union On("SF", low >= Power[n - 1]) \union On("PF", Parity(low)) \in SUBSET Flags
      BY FlagsAreFlags DEF Flags
    <2>3. cpGpr \in [CpRegs -> Word]
      BY DEF CpTypeOK
    <2> QED BY <2>1, <2>2, <2>3, RetireKeeps
  <1>5. ASSUME NEW d \in CpRegs, NEW ext \in {0, 4, 5, 7}, NEW count \in 0 .. CpWidth - 1, Shift(d, ext, count)
        PROVE  CpTypeOK'
    BY <1>5, ShiftKeeps
  <1>6. ASSUME NEW d \in CpRegs, NEW w \in Word, MoveImmediate(d, w) PROVE CpTypeOK'
    <2>1. cpFlags \in SUBSET Flags
      BY DEF CpTypeOK
    <2> QED BY <1>6, <2>1, PutKeeps DEF MoveImmediate
  <1>7. ASSUME NEW d \in CpRegs,
               \/ AddMemory(d) \/ Load(d) \/ Exchange(d)
               \/ Increment(d) \/ Decrement(d) \/ Complement(d) \/ Negate(d)
        PROVE  CpTypeOK'
    BY <1>7, OneOperandKeeps
  <1>8. ASSUME NEW d \in CpRegs, Multiply(d) \/ MultiplySigned(d) \/ Divide(d) \/ DivideSigned(d) PROVE CpTypeOK'
    BY <1>8, ProductOrQuotientKeeps
  <1>9. CASE UNCHANGED cpVars
    BY <1>9 DEF cpVars, CpTypeOK
  <1> QED BY <1>1, <1>2, <1>3, <1>4, <1>5, <1>6, <1>7, <1>8, <1>9, Zenon DEF CpNext

LEMMA CpTypeInit == CpInit => CpTypeOK
  <1>1. 0 \in Word
    BY WordSize DEF Word
  <1> QED BY <1>1 DEF CpInit, CpTypeOK

-----------------------------------------------------------------------------
(* The two breakpoint tables agree, whatever the debugger hands to         *)
(* RemoveBreakpoint.                                                       *)

\* The shape of the CPU's tables.
CpuTables == dbCpu \in [listed : SUBSET [id : Nat, addr : DbAddrs], armed : [DbAddrs -> Nat], next : Nat]

TablesInv == CpuTables /\ ArmedIsListed

\* Cpu::AddBreakpoint lists what it arms.
LEMMA AddKeepsTables ==
    ASSUME TablesInv, NEW a \in DbAddrs, dbCpu' = CpuAdd(a)
    PROVE  TablesInv'
  <1> USE DEF TablesInv, CpuTables, CpuAdd
  <1>1. CpuTables'
    OBVIOUS
  <1>2. ArmedIsListed'
    <2> SUFFICES ASSUME NEW b \in DbAddrs, dbCpu'.armed[b] # None
                 PROVE  [id |-> dbCpu'.armed[b], addr |-> b] \in dbCpu'.listed
      BY DEF ArmedIsListed
    <2>1. CASE b = a
      BY <2>1
    <2>2. CASE b # a
      <3>1. dbCpu'.armed[b] = dbCpu.armed[b]
        BY <2>2
      <3> QED BY <3>1 DEF ArmedIsListed
    <2> QED BY <2>1, <2>2
  <1> QED BY <1>1, <1>2

\* Cpu::RemoveBreakpoint disarms every address it takes off the list.
LEMMA RemoveKeepsTables ==
    ASSUME TablesInv, NEW i, dbCpu' = CpuRemove(i)
    PROVE  TablesInv'
  <1> DEFINE gone == {b \in dbCpu.listed : b.id = i}
  <1>1. /\ dbCpu'.listed = dbCpu.listed \ gone
        /\ dbCpu'.armed = [a \in DbAddrs |-> IF \E b \in gone : b.addr = a THEN None ELSE dbCpu.armed[a]]
        /\ dbCpu'.next = dbCpu.next
        /\ CpuTables'
    BY DEF TablesInv, CpuTables, CpuRemove, None
  <1>2. ArmedIsListed'
    <2> SUFFICES ASSUME NEW a \in DbAddrs, dbCpu'.armed[a] # None
                 PROVE  [id |-> dbCpu'.armed[a], addr |-> a] \in dbCpu'.listed
      BY DEF ArmedIsListed
    <2>1. /\ ~ \E b \in gone : b.addr = a
          /\ dbCpu'.armed[a] = dbCpu.armed[a]
      BY <1>1
    <2>2. [id |-> dbCpu.armed[a], addr |-> a] \in dbCpu.listed
      BY <2>1 DEF TablesInv, ArmedIsListed
    <2>3. [id |-> dbCpu.armed[a], addr |-> a] \notin gone
      BY <2>1
    <2> QED BY <1>1, <2>1, <2>2, <2>3
  <1> QED BY <1>1, <1>2 DEF TablesInv

\* ClearBreakpoints and Cpu::Init empty both.
LEMMA ClearKeepsTables ==
    ASSUME TablesInv, dbCpu' = CpuClear
    PROVE  TablesInv'
  BY DEF TablesInv, CpuTables, ArmedIsListed, CpuClear, None

LEMMA TablesInvStable ==
    ASSUME TablesInv, UNCHANGED dbCpu
    PROVE  TablesInv'
  BY DEF TablesInv, CpuTables, ArmedIsListed

LEMMA TablesInvInductive == TablesInv /\ [DbNext]_dbVars => TablesInv'
  <1> SUFFICES ASSUME TablesInv, [DbNext]_dbVars
               PROVE  TablesInv'
    OBVIOUS
  <1>1. CASE Runner
    BY <1>1, TablesInvStable DEF Runner, UNCHANGED_Tables
  <1>2. CASE RunCall /\ UNCHANGED_Tables
    BY <1>2, TablesInvStable DEF UNCHANGED_Tables
  <1>3. CASE Controls
    <2>1. CASE (CpuStop \/ CpuPaused(TRUE) \/ CpuPaused(FALSE)) /\ UNCHANGED_Tables
      BY <2>1, TablesInvStable DEF UNCHANGED_Tables
    <2>2. CASE \E a \in DbAddrs : SetBreakpoint(a) \/ AddConditionalBreakpoint(a)
      BY <2>2, AddKeepsTables DEF SetBreakpoint, AddConditionalBreakpoint
    <2>3. CASE \E b \in dbDbg.bps : RemoveBreakpoint(b.id)
      BY <2>3, RemoveKeepsTables DEF RemoveBreakpoint
    <2>4. CASE ClearAllBreakpoints
      BY <2>4, ClearKeepsTables DEF ClearAllBreakpoints
    <2>5. CASE DebuggerPause \/ DebuggerContinue \/ OnBreakpointHit \/ DebuggerInit
      BY <2>5, TablesInvStable DEF DebuggerPause, DebuggerContinue, OnBreakpointHit, DebuggerInit
    <2> QED BY <1>3, <2>1, <2>2, <2>3, <2>4, <2>5 DEF Controls
  <1>4. CASE CpuInit
    BY <1>4, ClearKeepsTables DEF CpuInit
  <1>5. CASE UNCHANGED dbVars
    BY <1>5, TablesInvStable DEF dbVars
  <1> QED BY <1>1, <1>2, <1>3, <1>4, <1>5 DEF DbNext

\* Every armed address belongs to a listed breakpoint, in every reachable state.
THEOREM ArmedBreakpointsListed == DbSpec => []ArmedIsListed
  <1>1. DbInit => TablesInv
    BY DEF DbInit, TablesInv, CpuTables, ArmedIsListed, None
  <1>2. TablesInv => ArmedIsListed
    BY DEF TablesInv
  <1> QED BY <1>1, <1>2, TablesInvInductive, PTL DEF DbSpec

-----------------------------------------------------------------------------
(* The tracked call stack is the return addresses on the guest stack.       *)

\* A sequence that is not empty is what is left after its last element, and that element.
LEMMA PopAndTop ==
    ASSUME NEW K, NEW s \in Seq(K), s # <<>>
    PROVE  /\ Pop(s) \in Seq(K) /\ Top(s) \in K /\ s = Append(Pop(s), Top(s))
           /\ Len(Pop(s)) = Len(s) - 1
           /\ \A i \in 1 .. Len(s) - 1 : Pop(s)[i] = s[i]
  <1>1. PICK n \in Nat : Len(s) = n + 1
    <2>1. Len(s) \in Nat /\ Len(s) # 0
      BY EmptySeq, LenProperties
    <2> QED BY <2>1
  <1>2. PICK t : t = SubSeq(s, 1, n)
    OBVIOUS
  <1>3. \A i \in 1 .. n : i \in 1 .. Len(s)
    BY <1>1
  <1>4. t \in Seq(K) /\ Len(t) = n
    BY <1>1, <1>2, <1>3, SubSeqProperties
  <1>5. \A i \in 1 .. n : t[i] = s[i]
    <2>1. \A i \in 1 .. n : t[i] = s[1 + i - 1]
      BY <1>1, <1>2, <1>3, SubSeqProperties
    <2>2. \A i \in 1 .. n : 1 + i - 1 = i
      OBVIOUS
    <2> QED BY <2>1, <2>2
  <1>6. n = Len(s) - 1 /\ n + 1 \in 1 .. Len(s)
    BY <1>1
  <1>7. s[n + 1] \in K
    BY <1>6, LenProperties
  <1>8. PICK u : u = Append(t, s[n + 1])
    OBVIOUS
  <1>9. u \in Seq(K) /\ Len(u) = n + 1 /\ u[n + 1] = s[n + 1] /\ \A i \in 1 .. n : u[i] = t[i]
    BY <1>4, <1>7, <1>8
  <1>10. \A i \in 1 .. n + 1 : u[i] = s[i]
    <2>1. \A i \in 1 .. n + 1 : i \in 1 .. n \/ i = n + 1
      OBVIOUS
    <2> QED BY <1>5, <1>9, <2>1
  <1>11. u = s
    BY <1>1, <1>9, <1>10, SeqEqual
  <1> QED BY <1>1, <1>2, <1>4, <1>5, <1>6, <1>7, <1>8, <1>11 DEF Pop, Top

ReturnCells == [ret : DbAddrs]
Cells == {Data} \union ReturnCells

Targets(q) == [i \in 1 .. Len(q) |-> q[i].ret]

\* The frames fr are the return addresses on the stack st.
Tracks(st, fr) == st \in Seq(Cells) /\ fr = Targets(Among(st, ReturnCells))

LEMMA TargetsAppend ==
    ASSUME NEW q \in Seq(ReturnCells), NEW x \in ReturnCells
    PROVE  /\ Targets(q) \in Seq(DbAddrs)
           /\ Targets(Append(q, x)) = Append(Targets(q), x.ret)
  <1>1. PICK n \in Nat : n = Len(q)
    BY LenProperties
  <1>2. x.ret \in DbAddrs /\ \A i \in 1 .. n : q[i].ret \in DbAddrs
    <2>1. \A c \in ReturnCells : c.ret \in DbAddrs
      BY DEF ReturnCells
    <2>2. \A i \in 1 .. n : q[i] \in ReturnCells
      BY <1>1
    <2> QED BY <2>1, <2>2
  <1>3. PICK t : t = Targets(q)
    OBVIOUS
  <1>4. t \in Seq(DbAddrs) /\ Len(t) = n /\ \A i \in 1 .. n : t[i] = q[i].ret
    BY <1>1, <1>2, <1>3 DEF Targets
  <1>5. PICK p : p = Append(q, x)
    OBVIOUS
  <1>6. Len(p) = n + 1 /\ p[n + 1] = x /\ \A i \in 1 .. n : p[i] = q[i]
    BY <1>1, <1>5
  <1>7. PICK u : u = Targets(p)
    OBVIOUS
  <1>8. \A i \in 1 .. n + 1 : i \in 1 .. n \/ i = n + 1
    OBVIOUS
  <1>9. \A i \in 1 .. n + 1 : p[i].ret \in DbAddrs
    BY <1>2, <1>6, <1>8
  <1>10. u \in Seq(DbAddrs) /\ Len(u) = n + 1 /\ \A i \in 1 .. n + 1 : u[i] = p[i].ret
    BY <1>6, <1>7, <1>9 DEF Targets
  <1>11. PICK v : v = Append(t, x.ret)
    OBVIOUS
  <1>12. v \in Seq(DbAddrs) /\ Len(v) = n + 1 /\ v[n + 1] = x.ret /\ \A i \in 1 .. n : v[i] = t[i]
    BY <1>2, <1>4, <1>11
  <1>13. \A i \in 1 .. n + 1 : u[i] = v[i]
    BY <1>4, <1>6, <1>8, <1>10, <1>12
  <1>14. u = v
    BY <1>10, <1>12, <1>13, SeqEqual
  <1> QED BY <1>3, <1>4, <1>5, <1>7, <1>11, <1>14

LEMMA CellKinds ==
    /\ Data \in Cells /\ Data \notin ReturnCells
    /\ \A c \in Cells : "ret" \in DOMAIN c => c \in ReturnCells
    /\ \A a \in DbAddrs : [ret |-> a] \in ReturnCells /\ [ret |-> a] \in Cells
    /\ \A c \in ReturnCells : c \in Cells /\ c.ret \in DbAddrs
  <1>1. DOMAIN Data = {"data"}
    BY DEF Data
  <1>2. \A c \in ReturnCells : DOMAIN c = {"ret"} /\ c.ret \in DbAddrs
    BY DEF ReturnCells
  <1>3. Data \notin ReturnCells
    BY <1>1, <1>2
  <1>4. "ret" \notin DOMAIN Data
    BY <1>1
  <1>5. \A a \in DbAddrs : [ret |-> a] \in ReturnCells
    BY DEF ReturnCells
  <1> QED BY <1>2, <1>3, <1>4, <1>5 DEF Cells

LEMMA TracksNothing == Tracks(<<>>, <<>>)
  <1>1. Targets(<<>>) = <<>>
    <2>1. PICK t : t = Targets(<<>>)
      OBVIOUS
    <2>2. t \in Seq({}) /\ Len(t) = 0
      BY <2>1 DEF Targets
    <2> QED BY <2>1, <2>2, EmptySeq
  <1> QED BY <1>1, AmongNone, EmptySeq DEF Tracks

\* A call, and anything else that is pushed.
LEMMA TracksPush ==
    ASSUME NEW st, NEW fr, Tracks(st, fr)
    PROVE  /\ fr \in Seq(DbAddrs)
           /\ \A c \in ReturnCells : Tracks(Append(st, c), Append(fr, c.ret))
           /\ \A c \in Cells : c \notin ReturnCells => Tracks(Append(st, c), fr)
  <1>1. st \in Seq(Cells) /\ fr = Targets(Among(st, ReturnCells))
    BY DEF Tracks
  <1>2. PICK q : q = Among(st, ReturnCells)
    OBVIOUS
  <1>3. q \in Seq(ReturnCells)
    <2>1. q \in Seq(Cells \cap ReturnCells)
      BY <1>1, <1>2, AmongSeq
    <2>2. Cells \cap ReturnCells = ReturnCells
      BY DEF Cells
    <2> QED BY <2>1, <2>2
  <1>4. fr \in Seq(DbAddrs)
    <2>1. CASE ReturnCells = {}
      <3>1. q = <<>>
        BY <1>3, <2>1, EmptySeq
      <3> QED BY <1>1, <1>2, <3>1, TracksNothing, AmongNone, EmptySeq DEF Tracks
    <2>2. CASE ReturnCells # {}
      BY <1>1, <1>2, <1>3, <2>2, TargetsAppend
    <2> QED BY <2>1, <2>2
  <1>5. ASSUME NEW c \in ReturnCells PROVE Tracks(Append(st, c), Append(fr, c.ret))
    <2>1. c \in Cells
      BY CellKinds
    <2>2. Among(Append(st, c), ReturnCells) = Append(q, c)
      BY <1>1, <1>2, <2>1, AmongAppend
    <2>3. Targets(Append(q, c)) = Append(fr, c.ret)
      BY <1>1, <1>2, <1>3, TargetsAppend
    <2>4. Append(st, c) \in Seq(Cells)
      BY <1>1, <2>1, AppendProperties
    <2> QED BY <2>2, <2>3, <2>4 DEF Tracks
  <1>6. ASSUME NEW c \in Cells, c \notin ReturnCells PROVE Tracks(Append(st, c), fr)
    <2>1. Among(Append(st, c), ReturnCells) = q
      BY <1>1, <1>2, <1>6, AmongAppend
    <2>2. Append(st, c) \in Seq(Cells)
      BY <1>1, AppendProperties
    <2> QED BY <1>1, <1>2, <2>1, <2>2 DEF Tracks
  <1> QED BY <1>4, <1>5, <1>6

LEMMA PopAppend ==
    ASSUME NEW K, NEW s \in Seq(K), NEW x \in K
    PROVE  Pop(Append(s, x)) = s /\ Append(s, x) # <<>>
  <1>1. PICK t : t = Append(s, x)
    OBVIOUS
  <1>2. t \in Seq(K) /\ Len(t) = Len(s) + 1 /\ t # <<>> /\ \A i \in 1 .. Len(s) : t[i] = s[i]
    BY <1>1
  <1>3. PICK p : p = Pop(t)
    OBVIOUS
  <1>4. p \in Seq(K) /\ Len(p) = Len(t) - 1 /\ \A i \in 1 .. Len(t) - 1 : p[i] = t[i]
    BY <1>2, <1>3, PopAndTop
  <1>5. Len(p) = Len(s) /\ \A i \in 1 .. Len(s) : p[i] = s[i]
    BY <1>2, <1>4
  <1>6. p = s
    BY <1>4, <1>5, SeqEqual
  <1> QED BY <1>1, <1>2, <1>3, <1>6

\* A return, and anything else that is popped.
LEMMA TracksPop ==
    ASSUME NEW st, NEW fr, Tracks(st, fr), st # <<>>
    PROVE  /\ Top(st) \in Cells
           /\ Top(st) \in ReturnCells => fr # <<>> /\ Tracks(Pop(st), Pop(fr))
           /\ Top(st) \notin ReturnCells => Tracks(Pop(st), fr)
  <1>1. PICK s, c : s = Pop(st) /\ c = Top(st)
    OBVIOUS
  <1>2. st \in Seq(Cells) /\ s \in Seq(Cells) /\ c \in Cells /\ st = Append(s, c)
    BY <1>1, PopAndTop DEF Tracks
  <1>3. PICK q : q = Among(s, ReturnCells)
    OBVIOUS
  <1>4. q \in Seq(ReturnCells)
    <2>1. q \in Seq(Cells \cap ReturnCells)
      BY <1>2, <1>3, AmongSeq
    <2>2. Cells \cap ReturnCells = ReturnCells
      BY DEF Cells
    <2> QED BY <2>1, <2>2
  <1>5. fr = Targets(Among(st, ReturnCells))
    BY DEF Tracks
  <1>6. ASSUME c \in ReturnCells PROVE fr # <<>> /\ Tracks(s, Pop(fr))
    <2>1. Among(st, ReturnCells) = Append(q, c)
      BY <1>2, <1>3, <1>6, AmongAppend
    <2>2. Targets(q) \in Seq(DbAddrs) /\ fr = Append(Targets(q), c.ret) /\ c.ret \in DbAddrs
      BY <1>4, <1>5, <1>6, <2>1, TargetsAppend, CellKinds
    <2>3. Pop(fr) = Targets(q) /\ fr # <<>>
      BY <2>2, PopAppend
    <2> QED BY <1>2, <1>3, <2>3 DEF Tracks
  <1>7. ASSUME c \notin ReturnCells PROVE Tracks(s, fr)
    <2>1. Among(st, ReturnCells) = q
      BY <1>2, <1>3, <1>7, AmongAppend
    <2> QED BY <1>2, <1>3, <1>5, <2>1 DEF Tracks
  <1> QED BY <1>1, <1>2, <1>6, <1>7

Pcs == {"idle", "enter", "unpause", "loop", "pause", "again", "execute", "leave"}
RunShape ==
    dbRun \in [running : BOOLEAN, paused : BOOLEAN, result : Results, count : 0 .. DbMaxRuns, pc : Pcs]
GuestTracked == dbRip \in DbAddrs /\ Len(dbStack) <= DbStackDepth /\ Tracks(dbStack, dbFrames)
Numbered == dbCpu.next # 0 /\ dbCpu.listed \subseteq [id : 1 .. dbCpu.next - 1, addr : DbAddrs]
Breakpoints == [id : Nat, addr : DbAddrs]
DebuggerShape == dbDbg \in [bps : SUBSET Breakpoints, next : Nat, cond : Nat, paused : BOOLEAN]

\* The state of the CPU's run loop, tables and stack, and of the debugger.
DbInv == RunShape /\ GuestTracked /\ TablesInv /\ Numbered /\ DebuggerShape

\* What ExecuteOne does to the stack it does to the frames.
LEMMA ExecuteKeeps ==
    ASSUME RunShape, GuestTracked, RunExecute
    PROVE  RunShape' /\ GuestTracked'
  <1>1. DbStackDepth \in Nat
    BY DbBounds
  <1>2. \A r \in Results : dbRun' = [dbRun EXCEPT !.result = r, !.pc = "leave"] => RunShape'
    BY DEF RunShape, Pcs
  <1>3. dbRun' = [dbRun EXCEPT !.pc = "loop"] => RunShape'
    BY DEF RunShape, Pcs
  <1>4. dbStack \in Seq(Cells) /\ Len(dbStack) \in Nat /\ Tracks(dbStack, dbFrames)
    BY LenProperties DEF GuestTracked, Tracks
  <1>5. UNCHANGED_Guest => GuestTracked'
    BY DEF UNCHANGED_Guest, GuestTracked
  <1>6. ASSUME NEW res \in Results, Stops(res) PROVE RunShape' /\ GuestTracked'
    BY <1>2, <1>5, <1>6 DEF Stops, Ends
  <1>7. "Fault" \in Results /\ "Breakpoint" \in Results
    BY DEF Results
  <1>8. ASSUME NEW t \in DbAddrs, Proceed(t) PROVE RunShape' /\ GuestTracked'
    BY <1>3, <1>8 DEF Proceed, Goto, GuestTracked
  <1>9. ASSUME NEW r \in DbAddrs, NEW t \in DbAddrs, Call(r, t) PROVE RunShape' /\ GuestTracked'
    <2>1. CASE Len(dbStack) = DbStackDepth
      BY <1>2, <1>5, <1>7, <1>9, <2>1 DEF Call, Ends
    <2>2. CASE Len(dbStack) # DbStackDepth
      <3>1. /\ dbRun' = [dbRun EXCEPT !.pc = "loop"] /\ dbRip' = t
            /\ dbStack' = Append(dbStack, [ret |-> r]) /\ dbFrames' = Append(dbFrames, r)
        BY <1>9, <2>2 DEF Call, Goto
      <3>2. [ret |-> r] \in ReturnCells /\ [ret |-> r] \in Cells /\ [ret |-> r].ret = r
        BY CellKinds
      <3>3. Tracks(dbStack', dbFrames')
        BY <1>4, <3>1, <3>2, TracksPush
      <3>4. Len(dbStack') <= DbStackDepth
        BY <1>1, <1>4, <2>2, <3>1, <3>2, AppendProperties DEF GuestTracked
      <3> QED BY <1>3, <3>1, <3>3, <3>4 DEF GuestTracked
    <2> QED BY <2>1, <2>2
  <1>10. ASSUME dbStack # <<>> PROVE Len(Pop(dbStack)) <= DbStackDepth
    BY <1>1, <1>4, <1>10, PopAndTop DEF GuestTracked
  <1>11. ASSUME Return PROVE RunShape' /\ GuestTracked'
    <2>1. CASE dbStack = <<>>
      BY <1>2, <1>5, <1>7, <1>11, <2>1 DEF Return, Ends
    <2>2. CASE dbStack # <<>>
      <3>1. /\ "ret" \in DOMAIN Top(dbStack) /\ dbRun' = [dbRun EXCEPT !.pc = "loop"]
            /\ dbRip' = Top(dbStack).ret /\ dbStack' = Pop(dbStack)
            /\ dbFrames' = IF dbFrames = <<>> THEN <<>> ELSE Pop(dbFrames)
        BY <1>11, <2>2 DEF Return, Goto
      <3>2. Top(dbStack) \in ReturnCells /\ Top(dbStack).ret \in DbAddrs
        BY <1>4, <2>2, <3>1, TracksPop, CellKinds
      <3>3. Tracks(dbStack', dbFrames')
        BY <1>4, <2>2, <3>1, <3>2, TracksPop
      <3> QED BY <1>3, <1>10, <2>2, <3>1, <3>2, <3>3 DEF GuestTracked
    <2> QED BY <2>1, <2>2
  <1>12. ASSUME ReturnPopping(1) PROVE RunShape' /\ GuestTracked'
    <2>1. /\ Len(dbStack) > 1 /\ "ret" \in DOMAIN Top(dbStack) /\ dbRun' = [dbRun EXCEPT !.pc = "loop"]
          /\ dbStack[Len(dbStack) - 1] = Data
          /\ dbRip' = Top(dbStack).ret /\ dbStack' = SubSeq(dbStack, 1, Len(dbStack) - 1 - 1)
          /\ dbFrames' = IF dbFrames = <<>> THEN <<>> ELSE Pop(dbFrames)
      BY <1>4, <1>12 DEF ReturnPopping, Goto
    <2>2. dbStack # <<>>
      BY <2>1, EmptySeq
    <2>3. Top(dbStack) \in ReturnCells /\ Top(dbStack).ret \in DbAddrs
      BY <1>4, <2>1, <2>2, TracksPop, CellKinds
    <2>4. PICK s : s = Pop(dbStack)
      OBVIOUS
    <2>5. /\ s \in Seq(Cells) /\ Len(s) = Len(dbStack) - 1
          /\ \A i \in 1 .. Len(dbStack) - 1 : s[i] = dbStack[i]
      BY <1>4, <2>2, <2>4, PopAndTop
    <2>6. Tracks(s, dbFrames')
      BY <1>4, <2>1, <2>2, <2>3, <2>4, TracksPop
    <2>7. s # <<>> /\ Top(s) = Data
      BY SMTT(40), <1>4, <2>1, <2>5, EmptySeq DEF Top
    <2>8. Tracks(Pop(s), dbFrames')
      BY <2>6, <2>7, TracksPop, CellKinds
    <2>9. PICK u : u = dbStack'
      OBVIOUS
    <2>10. PICK m \in Nat : Len(dbStack) = m + 2
      <3>1. Len(dbStack) - 2 \in Nat /\ Len(dbStack) = (Len(dbStack) - 2) + 2
        BY <1>4, <2>1
      <3> QED BY <3>1
    <2>11. u \in Seq(Cells) /\ Len(u) = m /\ \A i \in 1 .. m : u[i] = dbStack[i]
      <3>1. u = SubSeq(dbStack, 1, m)
        BY <2>1, <2>9, <2>10
      <3>2. \A i \in 1 .. m : i \in 1 .. Len(dbStack)
        BY <2>10
      <3>3. u \in Seq(Cells) /\ Len(u) = m
        BY <1>4, <2>10, <3>1, <3>2, SubSeqProperties
      <3>4. \A i \in 1 .. m : u[i] = dbStack[1 + i - 1]
        BY <1>4, <2>10, <3>1, <3>2, SubSeqProperties
      <3>5. \A i \in 1 .. m : 1 + i - 1 = i
        OBVIOUS
      <3> QED BY <3>3, <3>4, <3>5
    <2>12. PICK p : p = Pop(s)
      OBVIOUS
    <2>13. p \in Seq(Cells) /\ Len(p) = m /\ \A i \in 1 .. m : p[i] = dbStack[i]
      <3>1. p \in Seq(Cells) /\ Len(p) = Len(s) - 1 /\ \A i \in 1 .. Len(s) - 1 : p[i] = s[i]
        BY <2>5, <2>7, <2>12, PopAndTop
      <3> QED BY <2>5, <2>10, <3>1
    <2>14. p = u
      BY <2>11, <2>13, SeqEqual
    <2>15. Tracks(dbStack', dbFrames')
      BY <2>8, <2>9, <2>12, <2>14
    <2>16. Len(dbStack') <= DbStackDepth
      BY <1>1, <2>9, <2>10, <2>11 DEF GuestTracked
    <2> QED BY <1>3, <2>1, <2>3, <2>15, <2>16 DEF GuestTracked
  <1>13. ASSUME Push PROVE RunShape' /\ GuestTracked'
    <2>1. CASE Len(dbStack) = DbStackDepth
      BY <1>2, <1>5, <1>7, <1>13, <2>1 DEF Push, Ends
    <2>2. CASE Len(dbStack) # DbStackDepth
      <3>1. dbRun' = [dbRun EXCEPT !.pc = "loop"] /\ dbStack' = Append(dbStack, Data) /\ UNCHANGED <<dbRip, dbFrames>>
        BY <1>13, <2>2 DEF Push, Goto
      <3>2. Tracks(dbStack', dbFrames')
        BY <1>4, <3>1, TracksPush, CellKinds
      <3>3. Len(dbStack') <= DbStackDepth
        BY <1>1, <1>4, <2>2, <3>1, CellKinds, AppendProperties DEF GuestTracked
      <3> QED BY <1>3, <3>1, <3>2, <3>3 DEF GuestTracked
    <2> QED BY <2>1, <2>2
  <1>14. ASSUME PopData PROVE RunShape' /\ GuestTracked'
    <2>1. CASE dbStack = <<>>
      BY <1>2, <1>5, <1>7, <1>14, <2>1 DEF PopData, Ends
    <2>2. CASE dbStack # <<>>
      <3>1. /\ Top(dbStack) = Data /\ dbRun' = [dbRun EXCEPT !.pc = "loop"]
            /\ dbStack' = Pop(dbStack) /\ UNCHANGED <<dbRip, dbFrames>>
        BY <1>14, <2>2 DEF PopData, Goto
      <3>2. Tracks(dbStack', dbFrames')
        BY <1>4, <2>2, <3>1, TracksPop, CellKinds
      <3> QED BY <1>3, <1>10, <2>2, <3>1, <3>2 DEF GuestTracked
    <2> QED BY <2>1, <2>2
  <1>15. CASE dbCpu.armed[dbRip] # None
    BY <1>6, <1>7, <1>15 DEF RunExecute
  <1>16. CASE ~(dbCpu.armed[dbRip] # None)
    BY <1>6, <1>8, <1>9, <1>11, <1>12, <1>13, <1>14, <1>16 DEF RunExecute
  <1> QED BY <1>15, <1>16

LEMMA RunnerKeeps ==
    ASSUME RunShape, GuestTracked, Runner
    PROVE  RunShape' /\ GuestTracked'
  <1>1. CASE RunExecute
    BY <1>1, ExecuteKeeps
  <1>2. CASE RunEnter \/ RunUnpause \/ RunLoop \/ RunPause \/ RunAgain \/ RunLeave
    <2>1. GuestTracked'
      BY <1>2 DEF RunEnter, RunUnpause, RunLoop, RunPause, RunAgain, RunLeave, UNCHANGED_Guest, GuestTracked
    <2>2. "Ok" \in Results
      BY DEF Results
    <2>3. RunShape'
      BY <1>2, <2>2 DEF RunEnter, RunUnpause, RunLoop, RunPause, RunAgain, RunLeave, Goto, RunShape, Pcs
    <2> QED BY <2>1, <2>3
  <1> QED BY <1>1, <1>2 DEF Runner

LEMMA RunControls ==
    ASSUME RunShape, CpuStop \/ (\E b \in BOOLEAN : CpuPaused(b)) \/ UNCHANGED dbRun
    PROVE  RunShape'
  BY DEF RunShape, CpuStop, CpuPaused

\* AddBreakpoint numbers upwards.
LEMMA AddNumbers ==
    ASSUME CpuTables, Numbered, NEW a \in DbAddrs, dbCpu' = CpuAdd(a)
    PROVE  Numbered'
  <1>1. PICK n \in Nat : n = dbCpu.next
    BY DEF CpuTables
  <1>2. dbCpu'.next = n + 1 /\ dbCpu'.listed = dbCpu.listed \union {[id |-> n, addr |-> a]}
    BY <1>1 DEF CpuAdd
  <1>3. n # 0 /\ dbCpu.listed \subseteq [id : 1 .. n - 1, addr : DbAddrs]
    BY <1>1 DEF Numbered
  <1>4. n + 1 # 0 /\ (n + 1) - 1 = n /\ n \in 1 .. n /\ \A i \in 1 .. n - 1 : i \in 1 .. n
    BY <1>3
  <1>5. [id : 1 .. n - 1, addr : DbAddrs] \subseteq [id : 1 .. n, addr : DbAddrs]
    BY <1>4
  <1>6. [id |-> n, addr |-> a] \in [id : 1 .. n, addr : DbAddrs]
    BY <1>4
  <1> QED BY <1>2, <1>3, <1>4, <1>5, <1>6 DEF Numbered

LEMMA NumberedShrinks ==
    ASSUME Numbered, dbCpu'.next = dbCpu.next, dbCpu'.listed \subseteq dbCpu.listed
    PROVE  Numbered'
  BY DEF Numbered

LEMMA ControlsKeep ==
    ASSUME RunShape, CpuTables, Numbered, DebuggerShape, Controls
    PROVE  RunShape' /\ Numbered' /\ DebuggerShape'
  <1>1. CASE (CpuStop \/ CpuPaused(TRUE) \/ CpuPaused(FALSE)) /\ UNCHANGED_Tables
    <2>1. RunShape'
      BY <1>1, RunControls
    <2> QED BY <1>1, <2>1 DEF UNCHANGED_Tables, Numbered, DebuggerShape
  <1>2. ASSUME NEW a \in DbAddrs, SetBreakpoint(a) PROVE RunShape' /\ Numbered' /\ DebuggerShape'
    <2>0. [id |-> dbDbg.next, addr |-> a] \in Breakpoints
      BY DEF DebuggerShape, Breakpoints
    <2>1. NewBreakpoint(dbDbg.next, a) \in SUBSET Breakpoints /\ dbDbg.next + 1 \in Nat
      BY <2>0 DEF DebuggerShape, NewBreakpoint
    <2>2. DebuggerShape'
      BY <1>2, <2>1 DEF SetBreakpoint, DebuggerShape
    <2>3. RunShape' /\ Numbered'
      BY <1>2, AddNumbers, RunControls DEF SetBreakpoint
    <2> QED BY <2>2, <2>3
  <1>3. ASSUME NEW a \in DbAddrs, AddConditionalBreakpoint(a) PROVE RunShape' /\ Numbered' /\ DebuggerShape'
    <2>0. [id |-> dbDbg.cond, addr |-> a] \in Breakpoints
      BY DEF DebuggerShape, Breakpoints
    <2>1. NewBreakpoint(dbDbg.cond, a) \in SUBSET Breakpoints /\ dbDbg.cond + 1 \in Nat
      BY <2>0 DEF DebuggerShape, NewBreakpoint
    <2>2. DebuggerShape'
      BY <1>3, <2>1 DEF AddConditionalBreakpoint, DebuggerShape
    <2>3. RunShape' /\ Numbered'
      BY <1>3, AddNumbers, RunControls DEF AddConditionalBreakpoint
    <2> QED BY <2>2, <2>3
  <1>4. ASSUME NEW i, RemoveBreakpoint(i) PROVE RunShape' /\ Numbered' /\ DebuggerShape'
    <2>1. dbCpu'.next = dbCpu.next /\ dbCpu'.listed \subseteq dbCpu.listed
      BY <1>4 DEF RemoveBreakpoint, CpuRemove, CpuTables
    <2>2. DebuggerShape'
      BY <1>4 DEF RemoveBreakpoint, DebuggerShape
    <2>3. RunShape' /\ Numbered'
      BY <1>4, <2>1, NumberedShrinks, RunControls DEF RemoveBreakpoint
    <2> QED BY <2>2, <2>3
  <1>5. CASE ClearAllBreakpoints
    <2>1. dbCpu'.next = dbCpu.next /\ dbCpu'.listed \subseteq dbCpu.listed
      BY <1>5 DEF ClearAllBreakpoints, CpuClear, CpuTables
    <2>2. DebuggerShape'
      BY <1>5 DEF ClearAllBreakpoints, DebuggerShape
    <2>3. RunShape' /\ Numbered'
      BY <1>5, <2>1, NumberedShrinks, RunControls DEF ClearAllBreakpoints
    <2> QED BY <2>2, <2>3
  <1>6. CASE DebuggerPause \/ DebuggerContinue \/ OnBreakpointHit
    <2>1. RunShape'
      BY <1>6, RunControls DEF DebuggerPause, DebuggerContinue, OnBreakpointHit
    <2>2. Numbered' /\ DebuggerShape'
      BY <1>6 DEF DebuggerPause, DebuggerContinue, OnBreakpointHit, Numbered, DebuggerShape
    <2> QED BY <2>1, <2>2
  <1>7. CASE DebuggerInit
    <2>1. RunShape' /\ Numbered'
      BY <1>7, RunControls DEF DebuggerInit, Numbered
    <2>2. DebuggerShape'
      BY <1>7 DEF DebuggerInit, DebuggerShape, FirstConditional
    <2> QED BY <2>1, <2>2
  <1> QED BY <1>1, <1>2, <1>3, <1>4, <1>5, <1>6, <1>7 DEF Controls

LEMMA DbInvInductive == DbInv /\ [DbNext]_dbVars => DbInv'
  <1> SUFFICES ASSUME DbInv, [DbNext]_dbVars PROVE DbInv'
    OBVIOUS
  <1>1. TablesInv'
    BY TablesInvInductive DEF DbInv
  <1>2. RunShape /\ GuestTracked /\ Numbered /\ DebuggerShape /\ CpuTables
    BY DEF DbInv, TablesInv
  <1>3. CASE Runner
    <2>1. RunShape' /\ GuestTracked'
      BY <1>2, <1>3, RunnerKeeps
    <2>2. Numbered' /\ DebuggerShape'
      BY <1>2, <1>3 DEF Runner, UNCHANGED_Tables, Numbered, DebuggerShape
    <2> QED BY <1>1, <2>1, <2>2 DEF DbInv
  <1>4. CASE RunCall /\ UNCHANGED_Tables
    <2>1. RunShape'
      <3>1. dbRun.count + 1 \in 0 .. DbMaxRuns
        BY <1>2, <1>4, DbBounds DEF RunCall, RunShape
      <3>2. dbRun' = [dbRun EXCEPT !.pc = "enter", !.count = dbRun.count + 1]
        BY <1>4 DEF RunCall
      <3> QED BY <1>2, <3>1, <3>2 DEF RunShape, Pcs
    <2>2. GuestTracked' /\ Numbered' /\ DebuggerShape'
      BY <1>2, <1>4 DEF RunCall, UNCHANGED_Guest, UNCHANGED_Tables, GuestTracked, Numbered, DebuggerShape
    <2> QED BY <1>1, <2>1, <2>2 DEF DbInv
  <1>5. CASE Controls /\ UNCHANGED_Guest
    <2>1. GuestTracked'
      BY <1>2, <1>5 DEF UNCHANGED_Guest, GuestTracked
    <2> QED BY <1>1, <1>2, <1>5, <2>1, ControlsKeep DEF DbInv
  <1>6. CASE CpuInit
    <2>1. RunShape' /\ DebuggerShape'
      BY <1>2, <1>6 DEF CpuInit, RunShape, DebuggerShape
    <2>2. GuestTracked'
      <3>1. Len(<<>>) = 0 /\ DbStackDepth \in Nat
        BY DbBounds
      <3> QED BY <1>6, <3>1, TracksNothing DEF CpuInit, GuestTracked
    <2>3. dbCpu'.next = dbCpu.next /\ dbCpu'.listed \subseteq dbCpu.listed
      BY <1>2, <1>6 DEF CpuInit, CpuClear, CpuTables
    <2>4. Numbered'
      BY <1>2, <2>3, NumberedShrinks
    <2> QED BY <1>1, <2>1, <2>2, <2>4 DEF DbInv
  <1>7. CASE UNCHANGED dbVars
    BY <1>1, <1>2, <1>7 DEF dbVars, DbInv, RunShape, GuestTracked, Numbered, DebuggerShape
  <1> QED BY <1>3, <1>4, <1>5, <1>6, <1>7 DEF DbNext

LEMMA DbInvInit == DbInit => DbInv
  <1> SUFFICES ASSUME DbInit PROVE DbInv
    OBVIOUS
  <1>1. RunShape /\ DebuggerShape
    BY DbBounds DEF DbInit, RunShape, DebuggerShape, Pcs, Results, FirstConditional
  <1>2. TablesInv /\ Numbered
    BY DEF DbInit, TablesInv, CpuTables, ArmedIsListed, Numbered, None
  <1>3. GuestTracked
    <2>1. Len(<<>>) = 0 /\ DbStackDepth \in Nat
      BY DbBounds
    <2> QED BY <2>1, TracksNothing DEF DbInit, GuestTracked
  <1> QED BY <1>1, <1>2, <1>3 DEF DbInv

LEMMA DbInvShows == DbInv => DbTypeOK /\ CallStackTracks /\ ArmedIsListed
  <1> SUFFICES ASSUME DbInv PROVE DbTypeOK /\ CallStackTracks /\ ArmedIsListed
    OBVIOUS
  <1>1. CallStackTracks
    BY DEF DbInv, GuestTracked, Tracks, Targets, ReturnCells, CallStackTracks
  <1>2. dbFrames \in Seq(DbAddrs)
    BY TracksPush DEF DbInv, GuestTracked
  <1>3. ArmedIsListed /\ DOMAIN dbCpu.armed = DbAddrs
    BY DEF DbInv, TablesInv, CpuTables
  <1>4. (\A b \in dbDbg.bps : b.addr \in DbAddrs) /\ dbDbg.paused \in BOOLEAN
    BY DEF DbInv, DebuggerShape, Breakpoints
  <1>5. DbTypeOK
    BY <1>2, <1>3, <1>4 DEF DbInv, RunShape, Pcs, GuestTracked, Numbered, DbTypeOK
  <1> QED BY <1>1, <1>3, <1>5

-----------------------------------------------------------------------------
(* The shader cache: its keys are in it once, and its pending jobs are      *)
(* counted.                                                                *)

\* The cache's keys, each once.
KeyOrder(s) == s \in Seq(ShKeys) /\ IsInjective(s)

LEMMA KeyOrderLists ==
    ASSUME NEW s, KeyOrder(s)
    PROVE  Lists(s, ShKeys, ToSet(s))
  <1>1. s \in Seq(ShKeys) /\ DOMAIN s = 1 .. Len(s)
    BY LenProperties DEF KeyOrder
  <1>2. \A i, j \in 1 .. Len(s) : s[i] = s[j] => i = j
    BY <1>1 DEF KeyOrder, IsInjective
  <1>3. ToSet(s) = {s[i] : i \in 1 .. Len(s)}
    BY <1>1 DEF ToSet
  <1> QED BY <1>1, <1>2, <1>3 DEF Lists

LEMMA ListedKeyOrder ==
    ASSUME NEW s, NEW S, Lists(s, ShKeys, S)
    PROVE  KeyOrder(s)
  BY ListsRange DEF KeyOrder, Lists

LEMMA WithoutKeepsOrder ==
    ASSUME NEW s, KeyOrder(s), NEW k
    PROVE  /\ KeyOrder(Without(s, k))
           /\ Lists(Without(s, k), ShKeys, ToSet(s) \cap (ShKeys \ {k}))
  <1>1. Lists(Among(s, ShKeys \ {k}), ShKeys, ToSet(s) \cap (ShKeys \ {k}))
    BY KeyOrderLists, AmongLists
  <1> QED BY <1>1, ListedKeyOrder DEF Without

LEMMA UsedKeepsOrder ==
    ASSUME NEW s, KeyOrder(s), NEW k \in ShKeys
    PROVE  KeyOrder(Used(s, k))
  <1>1. PICK S : S = ToSet(s) \cap (ShKeys \ {k})
    OBVIOUS
  <1>2. Lists(Without(s, k), ShKeys, S) /\ k \notin S
    BY <1>1, WithoutKeepsOrder
  <1>3. Lists(Append(Without(s, k), k), ShKeys, S \cup {k})
    BY <1>2, ListsAppend
  <1> QED BY <1>3, ListedKeyOrder DEF Used

\* What is left when the keys used least recently go.
LEMMA SuffixKeepsOrder ==
    ASSUME NEW s, KeyOrder(s), NEW n \in Nat, n <= Len(s)
    PROVE  KeyOrder(SubSeq(s, n + 1, Len(s)))
  <1>1. PICK l \in Nat : l = Len(s)
    BY LenProperties DEF KeyOrder
  <1>2. \A i \in 1 .. l : s[i] \in ShKeys
    BY <1>1, LenProperties DEF KeyOrder
  <1>3. \A i, j \in 1 .. l : s[i] = s[j] => i = j
    BY <1>1, LenProperties DEF KeyOrder, IsInjective
  <1>4. PICK m \in Nat : l = n + m
    <2>1. l - n \in Nat /\ l = n + (l - n)
      BY <1>1
    <2> QED BY <2>1
  <1>5. PICK t : t = SubSeq(s, n + 1, l)
    OBVIOUS
  <1>6. t \in Seq(ShKeys) /\ Len(t) = m /\ \A i \in 1 .. m : t[i] = s[n + i]
    <2>1. \A i \in n + 1 .. l : s[i] \in ShKeys
      BY <1>2
    <2>2. /\ t \in Seq(ShKeys)
          /\ Len(t) = IF n + 1 <= l THEN l - (n + 1) + 1 ELSE 0
          /\ \A i \in 1 .. l - (n + 1) + 1 : t[i] = s[(n + 1) + i - 1]
      BY <1>5, <2>1, SubSeqProperties
    <2>3. l - (n + 1) + 1 = m /\ (n + 1 <= l <=> m # 0) /\ \A i \in 1 .. m : (n + 1) + i - 1 = n + i
      BY <1>4
    <2> QED BY <2>2, <2>3
  <1>7. \A i, j \in 1 .. m : t[i] = t[j] => i = j
    <2>1. \A i \in 1 .. m : n + i \in 1 .. l
      BY <1>4
    <2> SUFFICES ASSUME NEW i \in 1 .. m, NEW j \in 1 .. m, t[i] = t[j] PROVE i = j
      OBVIOUS
    <2>2. s[n + i] = s[n + j]
      BY <1>6
    <2>3. n + i = n + j
      BY <1>3, <2>1, <2>2
    <2> QED BY <2>3
  <1>8. DOMAIN t = 1 .. m
    BY <1>6, LenProperties
  <1> QED BY <1>1, <1>5, <1>6, <1>7, <1>8 DEF KeyOrder, IsInjective

LEMMA TailKeepsOrder ==
    ASSUME NEW s, KeyOrder(s), Len(s) >= 1
    PROVE  KeyOrder(Tail(s))
  <1>1. s \in Seq(ShKeys) /\ s # <<>>
    BY EmptySeq DEF KeyOrder
  <1>2. Tail(s) \in Seq(ShKeys) /\ Len(Tail(s)) = Len(s) - 1 /\ \A i \in 1 .. Len(Tail(s)) : Tail(s)[i] = s[i + 1]
    BY <1>1, HeadTailProperties
  <1>3. PICK t : t = Tail(s)
    OBVIOUS
  <1>4. PICK m \in Nat : m = Len(t)
    BY <1>2, <1>3, LenProperties
  <1>5. Len(s) \in Nat /\ DOMAIN s = 1 .. Len(s) /\ DOMAIN t = 1 .. m
    BY <1>1, <1>2, <1>3, <1>4, LenProperties
  <1>6. \A i, j \in 1 .. Len(s) : s[i] = s[j] => i = j
    BY <1>5 DEF KeyOrder, IsInjective
  <1>7. \A i \in 1 .. m : i + 1 \in 1 .. Len(s)
    BY <1>2, <1>3, <1>4, <1>5
  <1>8. \A i, j \in 1 .. m : t[i] = t[j] => i = j
    BY <1>2, <1>3, <1>4, <1>6, <1>7
  <1> QED BY <1>2, <1>3, <1>5, <1>8 DEF KeyOrder, IsInjective

LEMMA InsertKeepsOrder ==
    ASSUME NEW s, KeyOrder(s), NEW k \in ShKeys, shMax \in 1 .. ShMaxEntries
    PROVE  KeyOrder(Insert(s, k))
  <1>1. ASSUME Len(s) >= shMax PROVE KeyOrder(Tail(s))
    <2>1. Len(s) \in Nat
      BY LenProperties DEF KeyOrder
    <2> QED BY <1>1, <2>1, TailKeepsOrder, ShaderCacheAssumption
  <1> QED BY <1>1, UsedKeepsOrder DEF Insert

LEMMA LoadedOrder ==
    ASSUME NEW s \in Orders
    PROVE  KeyOrder(s)
  <1>1. PICK n \in 0 .. Cardinality(ShKeys) : s \in [1 .. n -> ShKeys]
    BY DEF Orders
  <1>2. n \in Nat
    BY <1>1
  <1>3. s \in Seq(ShKeys)
    BY <1>1, <1>2
  <1> QED BY <1>3 DEF Orders, KeyOrder

LEMMA NoKeysOrdered == KeyOrder(<<>>)
  BY EmptySeq DEF KeyOrder, IsInjective

Queueing == {c \in ShClients : shClient[c].at = "queueing"}
InHand   == IF shWorker.at = "compiling" THEN 1 ELSE 0

\* A client that is not idle, and a worker that compiles, has a key.
KeysKnown ==
    /\ \A c \in ShClients : shClient[c].at # "idle" => shClient[c].key \in ShKeys
    /\ shWorker.at = "compiling" => shWorker.key \in ShKeys

\* Nothing is pending once FlushQueue has let Shutdown go on, so that Init,
\* which sets the counter to nothing, is right to.
FlushedWhenDown == shCtl \in {"stop", "join", "save", "down"} => shPending = 0

ShInv ==
    /\ ShTypeOK
    /\ PendingExact
    /\ KeysKnown
    /\ FlushedWhenDown
    /\ shPending <= shCount.jobs

\* The parts of ShTypeOK, each of its variable.
ClientsOK == shClient \in [ShClients -> [at : {"idle", "compiling", "queueing"}, key : ShKeys \cup {NoKey}]]
WorkerOK  == shWorker \in [at : {"none", "top", "falling", "asleep", "compiling"}, key : ShKeys \cup {NoKey}]
CountsOK  == shCount \in [jobs : 0 .. ShMaxJobs, starts : 0 .. ShMaxStarts]
CtlOK     == shCtl \in {"down", "up", "flush", "stop", "join", "save", "flushOnly"}
RestOK    == /\ shDisk \subseteq ShKeys
             /\ shMax \in 1 .. ShMaxEntries
             /\ shQueue \in Seq(ShKeys)
             /\ shPending \in 0 .. ShMaxJobs
             /\ shRunning \in BOOLEAN

LEMMA TypeParts ==
    ShTypeOK <=> KeyOrder(shEntries) /\ RestOK /\ WorkerOK /\ ClientsOK /\ CtlOK /\ CountsOK
  BY DEF ShTypeOK, KeyOrder, RestOK, WorkerOK, ClientsOK, CtlOK, CountsOK

LEMMA TypePartsThen ==
    ShTypeOK' <=> KeyOrder(shEntries') /\ RestOK' /\ WorkerOK' /\ ClientsOK' /\ CtlOK' /\ CountsOK'
  BY DEF ShTypeOK, KeyOrder, RestOK, WorkerOK, ClientsOK, CtlOK, CountsOK

LEMMA QueueingFinite == IsFiniteSet(Queueing) /\ Cardinality(Queueing) \in Nat
  <1>1. Queueing \subseteq ShClients /\ IsFiniteSet(ShClients)
    BY ShaderCacheAssumption DEF Queueing
  <1>2. IsFiniteSet(Queueing)
    BY <1>1, FS_Subset
  <1> QED BY <1>2, FS_CardinalityType

LEMMA PendingIs ==
    /\ PendingExact <=> shPending = Len(shQueue) + Cardinality(Queueing) + InHand
    /\ PendingExact' <=> shPending' = Len(shQueue') + Cardinality(Queueing') + InHand'
  BY DEF PendingExact, Queueing, InHand

\* A step that touches only what is cached, and what is on disk.
LEMMA CachedStep ==
    ASSUME ShInv, KeyOrder(shEntries'), shDisk' \subseteq ShKeys, CtlOK', FlushedWhenDown',
           UNCHANGED <<shMax, shQueue, shPending, shCount, shRunning, shWorker, shClient>>
    PROVE  ShInv'
  <1>1. KeyOrder(shEntries) /\ RestOK /\ WorkerOK /\ ClientsOK /\ CtlOK /\ CountsOK
    BY TypeParts DEF ShInv
  <1>2. RestOK' /\ WorkerOK' /\ ClientsOK' /\ CountsOK'
    BY <1>1 DEF RestOK, WorkerOK, ClientsOK, CountsOK
  <1>3. ShTypeOK'
    BY <1>2, TypePartsThen
  <1>4. PendingExact' /\ KeysKnown' /\ shPending' <= shCount'.jobs
    BY DEF ShInv, PendingExact, KeysKnown
  <1> QED BY <1>3, <1>4 DEF ShInv

LEMMA LookupKeeps ==
    ASSUME ShInv, NEW c \in ShClients, NEW k \in ShKeys, Lookup(c, k) PROVE ShInv'
  <1>1. KeyOrder(shEntries') /\ shDisk' \subseteq ShKeys /\ CtlOK' /\ FlushedWhenDown'
    <2>1. KeyOrder(shEntries) /\ RestOK /\ CtlOK
      BY TypeParts DEF ShInv
    <2> QED BY <2>1, UsedKeepsOrder DEF Lookup, shJobs, RestOK, CtlOK, FlushedWhenDown, ShInv
  <1> QED BY <1>1, CachedStep DEF Lookup, shJobs

LEMMA DropKeeps == ASSUME ShInv, Drop PROVE ShInv'
  <1>1. KeyOrder(shEntries') /\ shDisk' \subseteq ShKeys /\ CtlOK' /\ FlushedWhenDown'
    <2>1. KeyOrder(shEntries) /\ RestOK /\ CtlOK
      BY TypeParts DEF ShInv
    <2>2. KeyOrder(shEntries')
      BY <2>1, WithoutKeepsOrder, NoKeysOrdered DEF Drop
    <2> QED BY <2>1, <2>2 DEF Drop, shJobs, RestOK, CtlOK, FlushedWhenDown, ShInv
  <1> QED BY <1>1, CachedStep DEF Drop, shJobs

LEMMA EvictKeeps == ASSUME ShInv, Evict PROVE ShInv'
  <1>1. KeyOrder(shEntries') /\ shDisk' \subseteq ShKeys /\ CtlOK' /\ FlushedWhenDown'
    <2>1. KeyOrder(shEntries) /\ RestOK /\ CtlOK
      BY TypeParts DEF ShInv
    <2>2. PICK n \in 1 .. Len(shEntries) : shEntries' = SubSeq(shEntries, n + 1, Len(shEntries))
      BY DEF Evict
    <2>3. n \in Nat /\ n <= Len(shEntries)
      BY <2>1, LenProperties DEF KeyOrder
    <2>4. KeyOrder(shEntries')
      BY <2>1, <2>2, <2>3, SuffixKeepsOrder
    <2> QED BY <2>1, <2>4 DEF Evict, shJobs, RestOK, CtlOK, FlushedWhenDown, ShInv
  <1> QED BY <1>1, CachedStep DEF Evict, shJobs

\* FlushQueue and Shutdown.
LEMMA ControlKeeps ==
    ASSUME ShInv, FlushBegin \/ FlushEnd \/ ShutdownJoin \/ ShutdownClear PROVE ShInv'
  <1>1. KeyOrder(shEntries) /\ RestOK /\ CtlOK
    BY TypeParts DEF ShInv
  <1>2. UNCHANGED <<shMax, shQueue, shPending, shCount, shRunning, shWorker, shClient>>
    BY DEF FlushBegin, FlushEnd, ShutdownJoin, ShutdownClear, shJobs
  <1>3. KeyOrder(shEntries')
    BY <1>1, NoKeysOrdered DEF FlushBegin, FlushEnd, ShutdownJoin, ShutdownClear
  <1>4. ToSet(shEntries) \subseteq ShKeys
    BY <1>1, KeyOrderLists, ListsRange
  <1>5. shDisk' \subseteq ShKeys
    BY <1>1, <1>4 DEF FlushBegin, FlushEnd, ShutdownJoin, ShutdownClear, SaveToDisk, RestOK
  <1>6. CtlOK'
    BY DEF FlushBegin, FlushEnd, ShutdownJoin, ShutdownClear, CtlOK
  <1>7. FlushedWhenDown'
    BY <1>2 DEF FlushBegin, FlushEnd, ShutdownJoin, ShutdownClear, FlushedWhenDown, ShInv
  <1> QED BY <1>2, <1>3, <1>5, <1>6, <1>7, CachedStep

LEMMA StopTellsWorker == ASSUME ShInv, ShutdownStop PROVE ShInv'
  <1>1. KeyOrder(shEntries) /\ RestOK /\ WorkerOK /\ ClientsOK /\ CtlOK /\ CountsOK
    BY TypeParts DEF ShInv
  <1>2. KeyOrder(shEntries') /\ RestOK' /\ ClientsOK' /\ CtlOK' /\ CountsOK'
    BY <1>1 DEF ShutdownStop, shJobs, RestOK, ClientsOK, CtlOK, CountsOK
  <1>3. WorkerOK'
    BY <1>1 DEF ShutdownStop, WorkerOK
  <1>4. ShTypeOK'
    BY <1>2, <1>3, TypePartsThen
  <1>5. shWorker'.at = "compiling" <=> shWorker.at = "compiling"
    BY <1>1 DEF ShutdownStop, WorkerOK
  <1>6. PendingExact'
    BY <1>5 DEF ShutdownStop, shJobs, ShInv, PendingExact
  <1>7. KeysKnown' /\ FlushedWhenDown' /\ shPending' <= shCount'.jobs
    BY <1>1, <1>5 DEF ShutdownStop, shJobs, ShInv, KeysKnown, FlushedWhenDown, WorkerOK
  <1> QED BY <1>4, <1>6, <1>7 DEF ShInv

LEMMA StartKeepsCache ==
    ASSUME ShInv, NEW max \in 1 .. ShMaxEntries, StartCache(max) PROVE ShInv'
  <1>1. KeyOrder(shEntries) /\ RestOK /\ WorkerOK /\ ClientsOK /\ CtlOK /\ CountsOK
    BY TypeParts DEF ShInv
  <1>2. KeyOrder(shEntries')
    BY LoadedOrder DEF StartCache, LoadFromDisk
  <1>3. 0 \in 0 .. ShMaxJobs
    BY ShaderCacheAssumption
  <1>4. RestOK' /\ ClientsOK' /\ CtlOK'
    BY <1>1, <1>3 DEF StartCache, RestOK, ClientsOK, CtlOK
  <1>5. WorkerOK'
    BY DEF StartCache, WorkerOK
  <1>6. CountsOK' /\ shCount'.jobs = shCount.jobs
    <2>1. shCount.starts + 1 \in 0 .. ShMaxStarts
      BY <1>1, ShaderCacheAssumption DEF StartCache, CountsOK
    <2>2. shCount' = [shCount EXCEPT !.starts = shCount.starts + 1]
      BY DEF StartCache
    <2> QED BY <1>1, <2>1, <2>2 DEF CountsOK
  <1>7. ShTypeOK'
    BY <1>2, <1>4, <1>5, <1>6, TypePartsThen
  <1>8. shPending = 0 /\ shPending = Len(shQueue) + Cardinality(Queueing) + InHand
    BY PendingIs DEF ShInv, FlushedWhenDown, StartCache
  <1>9. Len(shQueue) \in Nat /\ Cardinality(Queueing) \in Nat /\ InHand \in Nat
    BY <1>1, LenProperties, QueueingFinite DEF RestOK, InHand
  <1>10. Queueing' = Queueing /\ InHand' = 0 /\ shQueue' = shQueue /\ shPending' = 0
    BY DEF StartCache, Queueing, InHand
  <1>11. PendingExact'
    BY <1>8, <1>9, <1>10, PendingIs
  <1>12. KeysKnown' /\ FlushedWhenDown'
    BY DEF StartCache, KeysKnown, FlushedWhenDown, ShInv
  <1>13. shPending' <= shCount'.jobs
    BY <1>1, <1>6, <1>10 DEF CountsOK
  <1> QED BY <1>7, <1>11, <1>12, <1>13 DEF ShInv

LEMMA CompileKeeps ==
    ASSUME ShInv, NEW c \in ShClients, CompileStore(c) \/ \E k \in ShKeys : CompileMiss(c, k) PROVE ShInv'
  <1>1. KeyOrder(shEntries) /\ RestOK /\ WorkerOK /\ ClientsOK /\ CtlOK /\ CountsOK
    BY TypeParts DEF ShInv
  <1>2. KeyOrder(shEntries')
    <2>1. CASE CompileStore(c)
      <3>1. shClient[c].key \in ShKeys
        BY <2>1 DEF CompileStore, ShInv, KeysKnown
      <3>2. shMax \in 1 .. ShMaxEntries
        BY <1>1 DEF RestOK
      <3> QED BY <1>1, <2>1, <3>1, <3>2, InsertKeepsOrder DEF CompileStore
    <2>2. CASE \E k \in ShKeys : CompileMiss(c, k)
      BY <1>1, <2>2 DEF CompileMiss
    <2> QED BY <2>1, <2>2
  <1>3. RestOK' /\ WorkerOK' /\ CtlOK' /\ CountsOK' /\ FlushedWhenDown' /\ shPending' <= shCount'.jobs
    BY <1>1 DEF CompileStore, CompileMiss, shJobs, RestOK, WorkerOK, CtlOK, CountsOK, FlushedWhenDown, ShInv
  <1>4. PICK w \in [at : {"idle", "compiling"}, key : ShKeys \cup {NoKey}] :
            /\ shClient' = [shClient EXCEPT ![c] = w]
            /\ w.at # "idle" => w.key \in ShKeys
    <2>1. ShOut \in [at : {"idle", "compiling"}, key : ShKeys \cup {NoKey}] /\ ShOut.at = "idle"
      BY DEF ShOut
    <2>2. CASE CompileStore(c)
      BY <2>1, <2>2 DEF CompileStore
    <2>3. ASSUME NEW k \in ShKeys, CompileMiss(c, k)
          PROVE  \E w \in [at : {"idle", "compiling"}, key : ShKeys \cup {NoKey}] :
                    /\ shClient' = [shClient EXCEPT ![c] = w]
                    /\ w.at # "idle" => w.key \in ShKeys
      <3>1. [at |-> "compiling", key |-> k] \in [at : {"idle", "compiling"}, key : ShKeys \cup {NoKey}]
        OBVIOUS
      <3> QED BY <2>3, <3>1 DEF CompileMiss
    <2> QED BY <2>2, <2>3
  <1>5. shClient[c].at # "queueing"
    BY <1>1 DEF CompileStore, CompileMiss, ShOut
  <1>6. ClientsOK'
    BY <1>1, <1>4 DEF ClientsOK
  <1>7. /\ shClient'[c] = w
        /\ \A d \in ShClients : d # c => shClient'[d] = shClient[d]
    BY <1>1, <1>4 DEF ClientsOK
  <1>8. w.at # "queueing"
    BY <1>4
  <1>9. Queueing' = Queueing
    BY <1>5, <1>7, <1>8 DEF Queueing
  <1>10. UNCHANGED <<shQueue, shPending, shWorker>>
    BY DEF CompileStore, CompileMiss, shJobs
  <1>11. PendingExact'
    BY <1>9, <1>10, PendingIs DEF ShInv, InHand
  <1>12. KeysKnown'
    BY <1>4, <1>7, <1>10 DEF KeysKnown, ShInv
  <1>13. ShTypeOK'
    BY <1>2, <1>3, <1>6, TypePartsThen
  <1> QED BY <1>3, <1>11, <1>12, <1>13 DEF ShInv

\* QueueCompile counts the job before it is in the queue.
LEMMA QueueCompileKeeps ==
    ASSUME ShInv, NEW c \in ShClients, NEW k \in ShKeys, QueueCompile(c, k) PROVE ShInv'
  <1>1. KeyOrder(shEntries) /\ RestOK /\ WorkerOK /\ ClientsOK /\ CtlOK /\ CountsOK
    BY TypeParts DEF ShInv
  <1>2. PICK p \in Nat, j \in Nat : p = shPending /\ j = shCount.jobs
    <2>1. shPending \in Nat /\ shCount.jobs \in Nat
      BY <1>1 DEF RestOK, CountsOK
    <2> QED BY <2>1
  <1>3. p <= j /\ j + 1 <= ShMaxJobs
    BY <1>2, ShaderCacheAssumption DEF ShInv, QueueCompile
  <1>4. p + 1 \in 0 .. ShMaxJobs /\ j + 1 \in 0 .. ShMaxJobs /\ p + 1 <= j + 1
    BY <1>3, ShaderCacheAssumption
  <1>5. shPending' = p + 1 /\ shCount' = [shCount EXCEPT !.jobs = j + 1]
    BY <1>2 DEF QueueCompile
  <1>6. CountsOK' /\ shCount'.jobs = j + 1
    BY <1>1, <1>4, <1>5 DEF CountsOK
  <1>7. KeyOrder(shEntries') /\ RestOK' /\ WorkerOK' /\ CtlOK'
    BY <1>1, <1>4, <1>5 DEF QueueCompile, RestOK, WorkerOK, CtlOK
  <1>8. ClientsOK' /\ shClient'[c] = [at |-> "queueing", key |-> k]
        /\ \A d \in ShClients : d # c => shClient'[d] = shClient[d]
    BY <1>1 DEF QueueCompile, ClientsOK
  <1>9. c \notin Queueing /\ Queueing' = Queueing \cup {c}
    <2>1. c \notin Queueing
      BY DEF QueueCompile, ShOut, Queueing
    <2>2. \A d \in ShClients : shClient'[d].at = "queueing" <=> d = c \/ shClient[d].at = "queueing"
      BY <1>8
    <2> QED BY <2>1, <2>2 DEF Queueing
  <1>10. PICK q \in Nat : q = Cardinality(Queueing)
    BY QueueingFinite
  <1>11. Cardinality(Queueing') = q + 1
    <2>1. PICK Q : Q = Queueing
      OBVIOUS
    <2>2. Cardinality(Q \cup {c}) = Cardinality(Q) + 1
      BY <1>9, <2>1, QueueingFinite, FS_AddElement
    <2> QED BY <1>9, <1>10, <2>1, <2>2
  <1>12. PICK l \in Nat, h \in Nat : l = Len(shQueue) /\ h = InHand
    BY <1>1, LenProperties DEF RestOK, InHand
  <1>13. p = l + q + h
    BY <1>2, <1>10, <1>12, PendingIs DEF ShInv
  <1>14. Len(shQueue') = l /\ InHand' = h
    BY <1>12 DEF QueueCompile, InHand
  <1>15. PendingExact'
    BY <1>5, <1>11, <1>13, <1>14, PendingIs
  <1>16. KeysKnown'
    BY <1>8 DEF KeysKnown, QueueCompile, ShInv
  <1>17. FlushedWhenDown'
    BY DEF FlushedWhenDown, QueueCompile
  <1> QED BY <1>4, <1>5, <1>6, <1>7, <1>8, <1>15, <1>16, <1>17, TypePartsThen DEF ShInv

LEMMA QueuePushKeeps ==
    ASSUME ShInv, NEW c \in ShClients, QueuePush(c) PROVE ShInv'
  <1>1. KeyOrder(shEntries) /\ RestOK /\ WorkerOK /\ ClientsOK /\ CtlOK /\ CountsOK
    BY TypeParts DEF ShInv
  <1>2. shClient[c].key \in ShKeys
    BY DEF ShInv, KeysKnown, QueuePush
  <1>3. shQueue' \in Seq(ShKeys) /\ Len(shQueue') = Len(shQueue) + 1
    BY <1>1, <1>2, AppendProperties DEF QueuePush, RestOK
  <1>4. KeyOrder(shEntries') /\ RestOK' /\ CtlOK' /\ CountsOK' /\ FlushedWhenDown' /\ shPending' <= shCount'.jobs
    BY <1>1, <1>3 DEF QueuePush, RestOK, CtlOK, CountsOK, FlushedWhenDown, ShInv
  <1>5. WorkerOK' /\ (shWorker'.at = "compiling" <=> shWorker.at = "compiling")
        /\ (shWorker.at = "compiling" => shWorker' = shWorker)
    BY <1>1 DEF QueuePush, WorkerOK
  <1>6. ClientsOK' /\ shClient'[c] = ShOut
        /\ \A d \in ShClients : d # c => shClient'[d] = shClient[d]
    BY <1>1 DEF QueuePush, ClientsOK, ShOut
  <1>7. c \in Queueing /\ Queueing' = Queueing \ {c}
    <2>1. c \in Queueing
      BY DEF QueuePush, Queueing
    <2>2. \A d \in ShClients : shClient'[d].at = "queueing" <=> d # c /\ shClient[d].at = "queueing"
      BY <1>6 DEF ShOut
    <2> QED BY <2>1, <2>2 DEF Queueing
  <1>8. PICK q \in Nat : q = Cardinality(Queueing)
    BY QueueingFinite
  <1>9. Cardinality(Queueing') = q - 1
    <2>1. PICK Q : Q = Queueing
      OBVIOUS
    <2>2. Cardinality(Q \ {c}) = Cardinality(Q) - 1
      BY <1>7, <2>1, QueueingFinite, FS_RemoveElement
    <2> QED BY <1>7, <1>8, <2>1, <2>2
  <1>10. PICK l \in Nat, h \in Nat : l = Len(shQueue) /\ h = InHand
    BY <1>1, LenProperties DEF RestOK, InHand
  <1>11. shPending = l + q + h
    BY <1>8, <1>10, PendingIs DEF ShInv
  <1>12. InHand' = h /\ shPending' = shPending
    BY <1>5, <1>10 DEF InHand, QueuePush
  <1>13. PendingExact'
    BY <1>3, <1>9, <1>10, <1>11, <1>12, PendingIs
  <1>14. KeysKnown'
    <2>1. \A d \in ShClients : shClient'[d].at # "idle" => shClient'[d].key \in ShKeys
      BY <1>6 DEF KeysKnown, ShInv, ShOut
    <2>2. shWorker'.at = "compiling" => shWorker'.key \in ShKeys
      BY <1>5 DEF KeysKnown, ShInv
    <2> QED BY <2>1, <2>2 DEF KeysKnown
  <1> QED BY <1>4, <1>5, <1>6, <1>13, <1>14, TypePartsThen DEF ShInv

\* The worker.
LEMMA WorkerTopKeeps == ASSUME ShInv, WorkerTop PROVE ShInv'
  <1>1. KeyOrder(shEntries) /\ RestOK /\ WorkerOK /\ ClientsOK /\ CtlOK /\ CountsOK
    BY TypeParts DEF ShInv
  <1>2. /\ KeyOrder(shEntries') /\ ClientsOK' /\ CtlOK' /\ CountsOK' /\ FlushedWhenDown'
        /\ shPending' <= shCount'.jobs /\ Queueing' = Queueing
    BY <1>1 DEF WorkerTop, ClientsOK, CtlOK, CountsOK, FlushedWhenDown, ShInv, Queueing
  <1>3. CASE shRunning /\ shQueue # <<>>
    <2>1. shWorker' = [at |-> "compiling", key |-> Head(shQueue)] /\ shQueue' = Tail(shQueue)
      BY <1>3 DEF WorkerTop
    <2>2. /\ Head(shQueue) \in ShKeys /\ Tail(shQueue) \in Seq(ShKeys)
          /\ Len(Tail(shQueue)) = Len(shQueue) - 1 /\ Len(shQueue) \in Nat
      BY <1>1, <1>3, HeadTailProperties, LenProperties DEF RestOK
    <2>3. RestOK'
      BY <1>1, <2>1, <2>2 DEF WorkerTop, RestOK
    <2>4. WorkerOK'
      BY <2>1, <2>2 DEF WorkerOK
    <2>5. InHand = 0 /\ InHand' = 1
      BY <2>1 DEF InHand, WorkerTop
    <2>6. PendingExact'
      <3>1. PICK l \in Nat, q \in Nat : l = Len(shQueue) /\ q = Cardinality(Queueing)
        BY <2>2, QueueingFinite
      <3>2. shPending = l + q
        BY <2>5, <3>1, PendingIs DEF ShInv
      <3>3. shPending' = shPending
        BY DEF WorkerTop
      <3>4. Len(shQueue') = l - 1 /\ Cardinality(Queueing') = q
        BY <1>2, <2>1, <2>2, <3>1
      <3> QED BY <2>5, <3>2, <3>3, <3>4, PendingIs
    <2>7. KeysKnown'
      BY <2>1, <2>2 DEF KeysKnown, ShInv, WorkerTop
    <2> QED BY <1>2, <2>3, <2>4, <2>6, <2>7, TypePartsThen DEF ShInv
  <1>4. CASE ~(shRunning /\ shQueue # <<>>)
    <2>1. UNCHANGED shQueue /\ shWorker' \in {[at |-> "none", key |-> NoKey], [shWorker EXCEPT !.at = "falling"]}
      BY <1>4 DEF WorkerTop
    <2>2. WorkerOK' /\ shWorker'.at # "compiling"
      BY <1>1, <2>1 DEF WorkerOK
    <2>3. RestOK'
      BY <1>1, <2>1 DEF WorkerTop, RestOK
    <2>4. InHand = 0 /\ InHand' = 0
      BY <2>2 DEF InHand, WorkerTop
    <2>5. PendingExact'
      BY <1>2, <2>1, <2>4, PendingIs DEF ShInv, WorkerTop
    <2>6. KeysKnown'
      BY <2>2 DEF KeysKnown, ShInv, WorkerTop
    <2> QED BY <1>2, <2>2, <2>3, <2>5, <2>6, TypePartsThen DEF ShInv
  <1> QED BY <1>3, <1>4

LEMMA WorkerSleepsKeeps == ASSUME ShInv, WorkerSleeps PROVE ShInv'
  <1>1. KeyOrder(shEntries) /\ RestOK /\ WorkerOK /\ ClientsOK /\ CtlOK /\ CountsOK
    BY TypeParts DEF ShInv
  <1>2. /\ KeyOrder(shEntries') /\ RestOK' /\ ClientsOK' /\ CtlOK' /\ CountsOK' /\ FlushedWhenDown'
        /\ shPending' <= shCount'.jobs /\ Queueing' = Queueing
    BY <1>1 DEF WorkerSleeps, shJobs, RestOK, ClientsOK, CtlOK, CountsOK, FlushedWhenDown, ShInv, Queueing
  <1>3. WorkerOK' /\ shWorker'.at # "compiling" /\ shWorker.at # "compiling"
    BY <1>1 DEF WorkerSleeps, WorkerOK
  <1>4. PendingExact'
    BY <1>2, <1>3, PendingIs DEF ShInv, WorkerSleeps, shJobs, InHand
  <1>5. KeysKnown'
    BY <1>3 DEF KeysKnown, ShInv, WorkerSleeps
  <1> QED BY <1>2, <1>3, <1>4, <1>5, TypePartsThen DEF ShInv

LEMMA WorkerDoneKeeps == ASSUME ShInv, WorkerDone PROVE ShInv'
  <1>1. KeyOrder(shEntries) /\ RestOK /\ WorkerOK /\ ClientsOK /\ CtlOK /\ CountsOK
    BY TypeParts DEF ShInv
  <1>2. KeyOrder(shEntries')
    <2>1. shWorker.key \in ShKeys /\ shMax \in 1 .. ShMaxEntries
      BY <1>1 DEF ShInv, KeysKnown, WorkerDone, RestOK
    <2> QED BY <1>1, <2>1, InsertKeepsOrder DEF WorkerDone
  <1>3. PICK l \in Nat, q \in Nat : l = Len(shQueue) /\ q = Cardinality(Queueing)
    BY <1>1, LenProperties, QueueingFinite DEF RestOK
  <1>4. InHand = 1 /\ InHand' = 0
    BY DEF InHand, WorkerDone
  <1>5. shPending = l + q + 1 /\ shPending' = shPending - 1
    BY <1>3, <1>4, PendingIs DEF ShInv, WorkerDone
  <1>6. shPending' = l + q /\ shPending' \in 0 .. ShMaxJobs
    BY <1>1, <1>5, ShaderCacheAssumption DEF RestOK
  <1>7. Len(shQueue') = l /\ Queueing' = Queueing
    BY <1>3 DEF WorkerDone, Queueing
  <1>8. PendingExact'
    BY <1>3, <1>4, <1>6, <1>7, PendingIs
  <1>9. RestOK' /\ ClientsOK' /\ CtlOK' /\ CountsOK'
    BY <1>1, <1>6 DEF WorkerDone, RestOK, ClientsOK, CtlOK, CountsOK
  <1>10. WorkerOK'
    BY DEF WorkerDone, WorkerOK
  <1>11. FlushedWhenDown'
    BY <1>5 DEF FlushedWhenDown, WorkerDone, ShInv
  <1>12. shPending' <= shCount'.jobs
    <2>1. shCount' = shCount /\ shCount.jobs \in Nat /\ shPending <= shCount.jobs
      BY <1>1 DEF WorkerDone, ShInv, CountsOK
    <2> QED BY <1>5, <2>1
  <1>13. KeysKnown'
    BY DEF KeysKnown, ShInv, WorkerDone
  <1> QED BY <1>2, <1>8, <1>9, <1>10, <1>11, <1>12, <1>13, TypePartsThen DEF ShInv

LEMMA ShInvInit == ShInit => ShInv
  <1> SUFFICES ASSUME ShInit PROVE ShInv
    OBVIOUS
  <1>1. ShMaxEntries \in 1 .. ShMaxEntries /\ 0 \in 0 .. ShMaxJobs /\ 0 \in 0 .. ShMaxStarts
    BY ShaderCacheAssumption
  <1>2. shQueue \in Seq(ShKeys) /\ Len(shQueue) = 0
    BY EmptySeq DEF ShInit
  <1>3. KeyOrder(shEntries)
    BY NoKeysOrdered DEF ShInit
  <1>4. RestOK /\ CountsOK
    BY <1>1, <1>2 DEF ShInit, RestOK, CountsOK
  <1>5. WorkerOK /\ ClientsOK /\ CtlOK
    BY DEF ShInit, WorkerOK, ClientsOK, CtlOK, ShOut
  <1>6. Queueing = {} /\ InHand = 0
    BY DEF ShInit, Queueing, InHand, ShOut
  <1>7. PendingExact
    BY <1>2, <1>6, PendingIs, FS_EmptySet DEF ShInit
  <1>8. KeysKnown /\ FlushedWhenDown /\ shPending <= shCount.jobs
    BY DEF ShInit, KeysKnown, FlushedWhenDown, ShOut
  <1> QED BY <1>3, <1>4, <1>5, <1>7, <1>8, TypeParts DEF ShInv

LEMMA ShInvInductive == ShInv /\ [ShNext]_shVars => ShInv'
  <1> SUFFICES ASSUME ShInv, [ShNext]_shVars PROVE ShInv'
    OBVIOUS
  <1>1. CASE ShWorkerStep
    BY <1>1, WorkerTopKeeps, WorkerSleepsKeeps, WorkerDoneKeeps DEF ShWorkerStep
  <1>2. CASE ShCtlStep \/ FlushBegin
    BY <1>2, ControlKeeps, StopTellsWorker DEF ShCtlStep
  <1>3. CASE Drop \/ Evict
    BY <1>3, DropKeeps, EvictKeeps
  <1>4. CASE \E max \in 1 .. ShMaxEntries : StartCache(max)
    BY <1>4, StartKeepsCache
  <1>5. ASSUME NEW c \in ShClients,
               \/ CompileStore(c) \/ QueuePush(c)
               \/ \E k \in ShKeys : Lookup(c, k) \/ CompileMiss(c, k) \/ QueueCompile(c, k)
        PROVE  ShInv'
    BY <1>5, CompileKeeps, QueuePushKeeps, LookupKeeps, QueueCompileKeeps
  <1>6. CASE UNCHANGED shVars
    <2>1. KeyOrder(shEntries') /\ shDisk' \subseteq ShKeys /\ CtlOK' /\ FlushedWhenDown'
      <3>1. KeyOrder(shEntries) /\ RestOK /\ CtlOK
        BY TypeParts DEF ShInv
      <3> QED BY <1>6, <3>1 DEF shVars, RestOK, CtlOK, FlushedWhenDown, ShInv
    <2> QED BY <1>6, <2>1, CachedStep DEF shVars
  <1> QED BY <1>1, <1>2, <1>3, <1>4, <1>5, <1>6 DEF ShNext

-----------------------------------------------------------------------------
(* A WaitAll that returns leaves no task behind that was submitted before  *)
(* it.                                                                     *)

\* Every task submitted is queued, with a worker that runs it, or done.
TasksPlaced ==
    \A t \in tpSubmitted :
        \/ t \in tpDone
        \/ t \in TpQueued
        \/ \E w \in TpWorkers : t \in tpWorker[w].task

OnlyRunnersHold == \A w \in TpWorkers : tpWorker[w].task # {} => tpWorker[w].at = "running"

OwedSubmitted == \A c \in TpClients : tpClient[c].owed \subseteq tpSubmitted

\* A pool that is down has no workers, any other has one; a worker leaves an empty queue,
\* and none has left a pool that still takes tasks.
PoolShape ==
    /\ tpCtl = "up" => ~tpStop
    /\ tpCtl = "down" <=> \A w \in TpWorkers : tpWorker[w].at = "none"
    /\ \A w \in TpWorkers : tpWorker[w].at = "gone" =>
         tpQueue = <<>> /\ tpCtl \in {"stopped", "join"}

PoolInv ==
    /\ TpTypeOK
    /\ TasksPlaced
    /\ OnlyRunnersHold
    /\ OwedSubmitted
    /\ PoolShape
    /\ ActiveExact

USE TaskPoolAssumption DEF TaskPoolAssumption

LEMMA BusyFinite == IsFiniteSet(Busy)
  <1>1. Busy \subseteq TpWorkers  BY DEF Busy
  <1> QED  BY <1>1, FS_Subset

\* Steps that neither take a task nor end one.
LEMMA QuietStep ==
    ASSUME PoolInv, UNCHANGED tpTasks,
           TpTypeOK', OwedSubmitted', PoolShape',
           \A w \in TpWorkers :
             /\ tpWorker'[w].task = tpWorker[w].task
             /\ tpWorker[w].at = "running" <=> tpWorker'[w].at = "running"
             /\ tpWorker[w].at = "ran" <=> tpWorker'[w].at = "ran"
    PROVE  PoolInv'
  <1>1. Busy' = Busy  BY DEF Busy
  <1>2. ActiveExact'  BY <1>1 DEF PoolInv, ActiveExact, tpTasks
  <1>3. TpQueued' = TpQueued  BY DEF TpQueued, tpTasks
  <1>4. TasksPlaced'  BY <1>3 DEF PoolInv, TasksPlaced, tpTasks
  <1>5. OnlyRunnersHold'  BY DEF PoolInv, OnlyRunnersHold
  <1> QED  BY <1>2, <1>4, <1>5 DEF PoolInv

\* A client moves, and is owed nothing new or what has been submitted.
LEMMA ClientStep ==
    ASSUME PoolInv, NEW c \in TpClients,
           NEW place \in {"idle", "notify", "test", "falling", "asleep"},
           NEW tasks \in SUBSET tpSubmitted,
           ClientAt(c, place, tasks),
           UNCHANGED <<tpTasks, tpStop, tpWorker, tpCtl, tpStarts>>
    PROVE  PoolInv'
  <1> USE DEF PoolInv
  <1>1. tpClient \in [TpClients -> [at : {"idle", "notify", "test", "falling", "asleep"}, owed : SUBSET TpTasks]]
    BY DEF TpTypeOK
  <1>2. tasks \subseteq TpTasks  BY DEF TpTypeOK
  <1>3. TpTypeOK'  BY <1>1, <1>2 DEF TpTypeOK, ClientAt, tpTasks
  <1>4. OwedSubmitted'  BY <1>1 DEF OwedSubmitted, ClientAt, tpTasks
  <1>5. PoolShape'  BY DEF PoolShape, tpTasks
  <1> QED  BY <1>3, <1>4, <1>5, QuietStep

\* A worker that holds no task moves to another such place; it leaves an empty queue only.
LEMMA WorkerStep ==
    ASSUME PoolInv, NEW w \in TpWorkers,
           NEW place \in {"top", "falling", "asleep", "gone"},
           tpWorker[w].at \in {"top", "falling", "asleep", "notify"},
           place = "gone" => tpStop /\ tpQueue = <<>>,
           WorkerAt(w, place, {}),
           TpTypeOK', OwedSubmitted',
           UNCHANGED <<tpTasks, tpStop, tpCtl, tpStarts>>
    PROVE  PoolInv'
  <1> USE DEF PoolInv
  <1>1. tpWorker \in [TpWorkers ->
          [at : {"none", "top", "falling", "asleep", "running", "ran", "notify", "gone"}, task : SUBSET TpTasks]]
    BY DEF TpTypeOK
  <1>2. tpWorker[w].task = {}  BY DEF OnlyRunnersHold
  <1>3. tpCtl # "down"  BY DEF PoolShape
  <1>4. PoolShape'
    <2>1. tpWorker'[w].at # "none"  BY <1>1 DEF WorkerAt
    <2>2. place = "gone" => tpCtl \in {"stopped", "join"}  BY <1>3 DEF PoolShape, TpTypeOK
    <2> QED  BY <1>1, <1>3, <2>1, <2>2 DEF PoolShape, WorkerAt, tpTasks
  <1> QED  BY <1>1, <1>2, <1>4, QuietStep DEF WorkerAt

LEMMA PoolInvInit == TpInit => PoolInv
  <1> SUFFICES ASSUME TpInit PROVE PoolInv  OBVIOUS
  <1>1. Busy = {}  BY DEF TpInit, Busy
  <1>2. ActiveExact  BY <1>1, FS_EmptySet DEF ActiveExact, TpInit
  <1>3. TpTypeOK
    <2>1. tpQueue \in Seq(TpTasks)  BY DEF TpInit
    <2>2. tpWorker \in [TpWorkers ->
            [at : {"none", "top", "falling", "asleep", "running", "ran", "notify", "gone"}, task : SUBSET TpTasks]]
      BY DEF TpInit
    <2>3. tpClient \in [TpClients -> [at : {"idle", "notify", "test", "falling", "asleep"}, owed : SUBSET TpTasks]]
      BY DEF TpInit
    <2>4. tpStarts \in 0 .. TpMaxStarts /\ tpActive \in Nat  BY DEF TpInit
    <2>5. tpSubmitted \subseteq TpTasks /\ tpDone \subseteq TpTasks  BY DEF TpInit
    <2>6. tpStop \in BOOLEAN /\ tpCtl \in {"down", "up", "stopped", "join"}  BY DEF TpInit
    <2> QED  BY <2>1, <2>2, <2>3, <2>4, <2>5, <2>6, Zenon DEF TpTypeOK
  <1> QED  BY <1>2, <1>3 DEF TpInit, PoolInv, TasksPlaced, OnlyRunnersHold, OwedSubmitted, PoolShape

LEMMA StartKeeps == PoolInv /\ StartPool => PoolInv'
  <1> SUFFICES ASSUME PoolInv, StartPool PROVE PoolInv'  OBVIOUS
  <1> USE DEF PoolInv
  <1>1. PICK W \in SUBSET {w \in TpWorkers : tpWorker[w].at = "none"} :
          /\ W # {}
          /\ tpWorker' = [w \in TpWorkers |->
                IF w \in W THEN [at |-> "top", task |-> {}] ELSE tpWorker[w]]
    BY DEF StartPool
  <1>2. \A w \in W : tpWorker[w].at = "none" /\ tpWorker[w].task = {}
    BY DEF OnlyRunnersHold
  <1>3. TpTypeOK'
    <2>1. tpWorker' \in [TpWorkers ->
            [at : {"none", "top", "falling", "asleep", "running", "ran", "notify", "gone"}, task : SUBSET TpTasks]]
      BY <1>1 DEF TpTypeOK
    <2>2. tpStarts' \in 0 .. TpMaxStarts  BY DEF StartPool, TpTypeOK
    <2> QED  BY <2>1, <2>2 DEF StartPool, TpTypeOK, tpTasks
  <1>4. PoolShape'  BY <1>1 DEF StartPool, PoolShape, tpTasks
  <1>5. OwedSubmitted'  BY DEF StartPool, OwedSubmitted, tpTasks
  <1> QED  BY <1>1, <1>2, <1>3, <1>4, <1>5, QuietStep DEF StartPool

\* cv.notify_all, by Submit or by Stop, moves sleepers only.
LEMMA WokenWorkers ==
    ASSUME PoolInv
    PROVE  /\ WorkersWoken \in [TpWorkers ->
                [at : {"none", "top", "falling", "asleep", "running", "ran", "notify", "gone"}, task : SUBSET TpTasks]]
           /\ \A w \in TpWorkers :
                /\ WorkersWoken[w].task = tpWorker[w].task
                /\ \A place \in {"none", "running", "ran", "gone"} :
                     tpWorker[w].at = place <=> WorkersWoken[w].at = place
  BY DEF PoolInv, TpTypeOK, OnlyRunnersHold, WorkersWoken

LEMMA StopKeeps == PoolInv /\ (StopStore \/ StopNotify) => PoolInv'
  <1> SUFFICES ASSUME PoolInv, StopStore \/ StopNotify PROVE PoolInv'  OBVIOUS
  <1> USE DEF PoolInv
  <1>1. UNCHANGED <<tpTasks, tpClient, tpStarts>>  BY DEF StopStore, StopNotify
  <1>2. OwedSubmitted'  BY <1>1 DEF OwedSubmitted, tpTasks
  <1>3. CASE StopStore
    <2>1. TpTypeOK'  BY <1>1, <1>3 DEF StopStore, TpTypeOK, tpTasks
    <2>2. PoolShape'  BY <1>1, <1>3 DEF StopStore, PoolShape, tpTasks
    <2> QED  BY <1>1, <1>2, <1>3, <2>1, <2>2, QuietStep DEF StopStore
  <1>4. CASE StopNotify
    <2>1. TpTypeOK'  BY <1>1, <1>4, WokenWorkers DEF StopNotify, TpTypeOK, tpTasks
    <2>2. PoolShape'  BY <1>1, <1>4, WokenWorkers DEF StopNotify, PoolShape, tpTasks
    <2> QED  BY <1>1, <1>2, <1>4, <2>1, <2>2, WokenWorkers, QuietStep DEF StopNotify
  <1> QED  BY <1>3, <1>4

\* Somebody has left, so the queue is empty and clearing it drops nothing.
LEMMA JoinKeeps == PoolInv /\ StopJoin => PoolInv'
  <1> SUFFICES ASSUME PoolInv, StopJoin PROVE PoolInv'  OBVIOUS
  <1> USE DEF PoolInv
  <1>1. PICK w \in TpWorkers : tpWorker[w].at = "gone"  BY DEF PoolShape, StopJoin
  <1>2. tpQueue = <<>>  BY <1>1 DEF PoolShape
  <1>3. UNCHANGED tpTasks  BY <1>2 DEF StopJoin, tpTasks
  <1>4. \A x \in TpWorkers : tpWorker[x].task = {}  BY DEF OnlyRunnersHold, StopJoin
  <1>5. tpWorker' \in [TpWorkers -> [at : {"none"}, task : {{}}]]  BY DEF StopJoin
  <1>6. TpTypeOK'  BY <1>3, <1>5 DEF StopJoin, TpTypeOK, tpTasks
  <1>7. OwedSubmitted'  BY DEF StopJoin, OwedSubmitted
  <1>8. PoolShape'  BY DEF StopJoin, PoolShape
  <1> QED  BY <1>3, <1>4, <1>6, <1>7, <1>8, QuietStep DEF StopJoin

LEMMA PushKeeps ==
    ASSUME PoolInv, NEW c \in TpClients, NEW t \in TpTasks, SubmitPush(c, t)
    PROVE  PoolInv'
  <1> USE DEF PoolInv, SubmitPush
  <1>1. tpQueue' \in Seq(TpTasks)  BY DEF TpTypeOK
  <1>2. TpQueued' = TpQueued \cup {t}
    <2>1. tpQueue \in Seq(TpTasks)  BY DEF TpTypeOK
    <2>2. DOMAIN tpQueue' = DOMAIN tpQueue \cup {Len(tpQueue) + 1}  BY <2>1
    <2>3. /\ tpQueue'[Len(tpQueue) + 1] = t
          /\ \A i \in DOMAIN tpQueue : tpQueue'[i] = tpQueue[i]
      BY <2>1
    <2> QED  BY <2>2, <2>3 DEF TpQueued
  <1>3. TpTypeOK'  BY <1>1 DEF TpTypeOK, ClientAt
  <1>4. TasksPlaced'  BY <1>2 DEF TasksPlaced
  <1>5. OnlyRunnersHold'  BY DEF OnlyRunnersHold
  <1>6. OwedSubmitted'  BY DEF OwedSubmitted, ClientAt, TpTypeOK
  <1>7. PoolShape'  BY DEF PoolShape
  <1>8. ActiveExact'  BY DEF ActiveExact, Busy
  <1> QED  BY <1>3, <1>4, <1>5, <1>6, <1>7, <1>8

LEMMA NotifyKeeps ==
    ASSUME PoolInv, NEW c \in TpClients, SubmitNotify(c)
    PROVE  PoolInv'
  <1> USE DEF PoolInv, SubmitNotify
  <1>1. TpTypeOK'  BY WokenWorkers DEF TpTypeOK, ClientAt, tpTasks
  <1>2. OwedSubmitted'  BY DEF OwedSubmitted, ClientAt, TpTypeOK, tpTasks
  <1>3. PoolShape'  BY WokenWorkers DEF PoolShape, tpTasks
  <1> QED  BY <1>1, <1>2, <1>3, WokenWorkers, QuietStep

\* The task leaves the queue and is with the worker, who is counted in the same step.
LEMMA TakeKeeps ==
    ASSUME PoolInv, NEW w \in TpWorkers, WorkerTakes(w)
    PROVE  PoolInv'
  <1> USE DEF PoolInv, WorkerTakes
  <1>1. tpQueue \in Seq(TpTasks) /\ tpQueue # <<>>  BY DEF TpTypeOK
  <1>2. Head(tpQueue) \in TpTasks /\ tpQueue' \in Seq(TpTasks)  BY <1>1
  <1>3. TpQueued \subseteq TpQueued' \cup {Head(tpQueue)}
    <2> SUFFICES ASSUME NEW i \in DOMAIN tpQueue, i # 1 PROVE tpQueue[i] \in TpQueued'
      BY <1>1 DEF TpQueued
    <2>1. i - 1 \in DOMAIN tpQueue' /\ tpQueue'[i - 1] = tpQueue[i]  BY <1>1
    <2> QED  BY <2>1 DEF TpQueued
  <1>4. TpTypeOK'  BY <1>2 DEF TpTypeOK, WorkerAt
  <1>5. tpWorker' = [tpWorker EXCEPT ![w] = [at |-> "running", task |-> {Head(tpQueue)}]]
    BY DEF WorkerAt
  <1>6. TasksPlaced'
    <2>1. \A x \in TpWorkers \ {w} : tpWorker'[x].task = tpWorker[x].task  BY <1>5 DEF TpTypeOK
    <2>2. tpWorker[w].task = {} /\ tpWorker'[w].task = {Head(tpQueue)}
      BY <1>5 DEF TpTypeOK, OnlyRunnersHold
    <2> QED  BY <1>3, <2>1, <2>2 DEF TasksPlaced
  <1>7. OnlyRunnersHold'  BY <1>5 DEF OnlyRunnersHold, TpTypeOK
  <1>8. OwedSubmitted'  BY DEF OwedSubmitted
  <1>9. PoolShape'
    <2>1. \A x \in TpWorkers : tpWorker[x].at # "gone"  BY <1>1 DEF PoolShape
    <2>2. tpWorker'[w].at = "running"  BY <1>5 DEF TpTypeOK
    <2>3. \A x \in TpWorkers : tpWorker'[x].at # "gone"  BY <1>5, <2>1 DEF TpTypeOK
    <2>4. tpCtl # "down"  BY DEF PoolShape
    <2> QED  BY <2>2, <2>3, <2>4 DEF PoolShape
  <1>10. ActiveExact'
    <2>1. Busy' = Busy \cup {w} /\ w \notin Busy  BY <1>5 DEF Busy, TpTypeOK
    <2>2. Cardinality(Busy') = Cardinality(Busy) + 1  BY <2>1, BusyFinite, FS_AddElement
    <2> QED  BY <2>2 DEF ActiveExact
  <1> QED  BY <1>4, <1>6, <1>7, <1>8, <1>9, <1>10

LEMMA ReturnKeeps ==
    ASSUME PoolInv, NEW w \in TpWorkers, TaskReturns(w)
    PROVE  PoolInv'
  <1> USE DEF PoolInv, TaskReturns
  <1>1. tpWorker' = [tpWorker EXCEPT ![w] = [at |-> "ran", task |-> {}]]  BY DEF WorkerAt
  <1>2. TpTypeOK'  BY <1>1 DEF TpTypeOK
  <1>3. TasksPlaced'
    <2>1. \A x \in TpWorkers \ {w} : tpWorker'[x].task = tpWorker[x].task  BY <1>1 DEF TpTypeOK
    <2> QED  BY <2>1 DEF TasksPlaced, TpQueued
  <1>4. OnlyRunnersHold'  BY <1>1 DEF OnlyRunnersHold, TpTypeOK
  <1>5. OwedSubmitted'  BY DEF OwedSubmitted
  <1>6. PoolShape'  BY <1>1 DEF PoolShape, TpTypeOK
  <1>7. Busy' = Busy  BY <1>1 DEF Busy, TpTypeOK
  <1>8. ActiveExact'  BY <1>7 DEF ActiveExact
  <1> QED  BY <1>2, <1>3, <1>4, <1>5, <1>6, <1>8

LEMMA CountDownKeeps ==
    ASSUME PoolInv, NEW w \in TpWorkers, WorkerCountsDown(w)
    PROVE  PoolInv'
  <1> USE DEF PoolInv, WorkerCountsDown
  <1>1. tpWorker' = [tpWorker EXCEPT ![w] = [at |-> "notify", task |-> {}]]  BY DEF WorkerAt
  <1>2. tpWorker[w].task = {}  BY DEF OnlyRunnersHold
  <1>3. Busy' = Busy \ {w} /\ w \in Busy  BY <1>1 DEF Busy, TpTypeOK
  <1>4. Cardinality(Busy') = Cardinality(Busy) - 1 /\ Cardinality(Busy') \in Nat
    BY <1>3, BusyFinite, FS_RemoveElement, FS_CardinalityType
  <1>5. ActiveExact' /\ tpActive' \in Nat  BY <1>4 DEF ActiveExact
  <1>6. TpTypeOK'  BY <1>1, <1>5 DEF TpTypeOK
  <1>7. TasksPlaced'
    <2>1. \A x \in TpWorkers : tpWorker'[x].task = tpWorker[x].task  BY <1>1, <1>2 DEF TpTypeOK
    <2> QED  BY <2>1 DEF TasksPlaced, TpQueued
  <1>8. OnlyRunnersHold'  BY <1>1 DEF OnlyRunnersHold, TpTypeOK
  <1>9. OwedSubmitted'  BY DEF OwedSubmitted
  <1>10. PoolShape'  BY <1>1 DEF PoolShape, TpTypeOK
  <1> QED  BY <1>5, <1>6, <1>7, <1>8, <1>9, <1>10

LEMMA WorkerNotifyKeeps ==
    ASSUME PoolInv, NEW w \in TpWorkers, WorkerNotifies(w)
    PROVE  PoolInv'
  <1> USE DEF PoolInv, WorkerNotifies
  <1>1. tpClient' \in [TpClients -> [at : {"idle", "notify", "test", "falling", "asleep"}, owed : SUBSET TpTasks]]
    BY DEF WaitersWoken, TpTypeOK
  <1>2. TpTypeOK'  BY <1>1 DEF TpTypeOK, WorkerAt, tpTasks
  <1>3. OwedSubmitted'  BY DEF OwedSubmitted, WaitersWoken, tpTasks
  <1> QED  BY <1>2, <1>3, WorkerStep

LEMMA PoolWorkerKeeps ==
    ASSUME PoolInv, NEW w \in TpWorkers, PoolWorkerStep(w)
    PROVE  PoolInv'
  <1>1. CASE WorkerTakes(w)  BY <1>1, TakeKeeps
  <1>2. CASE TaskReturns(w)  BY <1>2, ReturnKeeps
  <1>3. CASE WorkerCountsDown(w)  BY <1>3, CountDownKeeps
  <1>4. CASE WorkerNotifies(w)  BY <1>4, WorkerNotifyKeeps
  <1>5. ASSUME NEW place \in {"top", "falling", "asleep", "gone"},
               tpWorker[w].at \in {"top", "falling", "asleep"},
               place = "gone" => tpStop /\ tpQueue = <<>>,
               WorkerAt(w, place, {}),
               UNCHANGED <<tpTasks, tpStop, tpClient, tpCtl, tpStarts>>
        PROVE  PoolInv'
    <2>1. TpTypeOK'  BY <1>5 DEF PoolInv, TpTypeOK, WorkerAt, tpTasks
    <2>2. OwedSubmitted'  BY <1>5 DEF PoolInv, OwedSubmitted, tpTasks
    <2> QED  BY <1>5, <2>1, <2>2, WorkerStep
  <1>6. CASE WorkerLeaves(w)  BY <1>6, <1>5 DEF WorkerLeaves
  <1>7. CASE WorkerFalls(w)  BY <1>7, <1>5 DEF WorkerFalls
  <1>8. CASE PoolWorkerSleeps(w)  BY <1>8, <1>5 DEF PoolWorkerSleeps
  <1>9. CASE PoolWorkerSpurious(w)  BY <1>9, <1>5 DEF PoolWorkerSpurious
  <1> QED  BY <1>1, <1>2, <1>3, <1>4, <1>6, <1>7, <1>8, <1>9 DEF PoolWorkerStep

LEMMA PoolClientKeeps ==
    ASSUME PoolInv, NEW c \in TpClients, PoolClientStep(c)
    PROVE  PoolInv'
  <1>1. tpClient[c].owed \in SUBSET tpSubmitted  BY DEF PoolInv, OwedSubmitted
  <1>2. CASE \E t \in TpTasks : SubmitPush(c, t)  BY <1>2, PushKeeps
  <1>3. CASE SubmitNotify(c)  BY <1>3, NotifyKeeps
  <1>4. CASE WaitAll(c)  BY <1>4, ClientStep DEF WaitAll
  <1>5. CASE WaitTest(c)
    <2>1. CASE ClientAt(c, "idle", {})  BY <1>5, <2>1, ClientStep DEF WaitTest
    <2>2. CASE ClientAt(c, "falling", tpClient[c].owed)  BY <1>1, <1>5, <2>2, ClientStep DEF WaitTest
    <2> QED  BY <1>5, <2>1, <2>2 DEF WaitTest
  <1>6. CASE PoolWaiterSleeps(c)  BY <1>1, <1>6, ClientStep DEF PoolWaiterSleeps
  <1>7. CASE PoolWaiterSpurious(c)  BY <1>1, <1>7, ClientStep DEF PoolWaiterSpurious
  <1> QED  BY <1>2, <1>3, <1>4, <1>5, <1>6, <1>7 DEF PoolClientStep

LEMMA PoolInvInductive == PoolInv /\ [TpNext]_tpVars => PoolInv'
  <1> SUFFICES ASSUME PoolInv, [TpNext]_tpVars PROVE PoolInv'  OBVIOUS
  <1>1. CASE StartPool  BY <1>1, StartKeeps
  <1>2. CASE StopStore \/ StopNotify  BY <1>2, StopKeeps
  <1>3. CASE StopJoin  BY <1>3, JoinKeeps
  <1>4. ASSUME NEW w \in TpWorkers, PoolWorkerStep(w) PROVE PoolInv'  BY <1>4, PoolWorkerKeeps
  <1>5. ASSUME NEW c \in TpClients, PoolClientStep(c) PROVE PoolInv'  BY <1>5, PoolClientKeeps
  <1>6. CASE UNCHANGED tpVars
    BY <1>6 DEF tpVars, PoolInv, TpTypeOK, TasksPlaced, TpQueued, OnlyRunnersHold, OwedSubmitted,
                PoolShape, ActiveExact, Busy
  <1> QED  BY <1>1, <1>2, <1>3, <1>4, <1>5, <1>6 DEF TpNext

\* PoolInv is an invariant of the pool (Start, Stop, Submit, WaitAll and the worker loop).
LEMMA PoolInvariant == TpSpec => []PoolInv
  BY PoolInvInit, PoolInvInductive, PTL DEF TpSpec

\* A step that ends a WaitAll finds the queue empty and nobody counted, so nobody holds a
\* task and every task submitted is done.
LEMMA WaitReturnsClean ==
    ASSUME PoolInv, [TpNext]_tpVars, NEW c \in TpClients,
           tpClient[c].at = "test", tpClient'[c].at = "idle"
    PROVE  tpClient[c].owed \subseteq tpDone
  <1> USE DEF PoolInv
  <1>1. tpClient \in [TpClients -> [at : {"idle", "notify", "test", "falling", "asleep"}, owed : SUBSET TpTasks]]
    BY DEF TpTypeOK
  <1>2. tpClient' # tpClient  OBVIOUS
  <1>3. ASSUME NEW d \in TpClients, PoolClientStep(d) PROVE WaitTest(c)
    <2>1. d = c
      BY <1>1, <1>3 DEF PoolClientStep, SubmitPush, SubmitNotify, WaitAll, WaitTest,
                        PoolWaiterSleeps, PoolWaiterSpurious, ClientAt
    <2> QED
      BY <1>1, <1>3, <2>1 DEF PoolClientStep, SubmitPush, SubmitNotify, WaitAll,
                              PoolWaiterSleeps, PoolWaiterSpurious, ClientAt
  <1>4. \A w \in TpWorkers : ~PoolWorkerStep(w)
    <2> SUFFICES ASSUME NEW w \in TpWorkers, PoolWorkerStep(w) PROVE FALSE  OBVIOUS
    <2>1. tpClient' = tpClient \/ tpClient' = WaitersWoken
      BY DEF PoolWorkerStep, WorkerLeaves, WorkerTakes, WorkerFalls, PoolWorkerSleeps,
             PoolWorkerSpurious, TaskReturns, WorkerCountsDown, WorkerNotifies
    <2> QED  BY <1>2, <2>1 DEF WaitersWoken
  <1>5. WaitTest(c)
    BY <1>2, <1>3, <1>4 DEF TpNext, tpVars, StartPool, StopStore, StopNotify, StopJoin
  <1>6. tpQueue = <<>> /\ tpActive = 0  BY <1>1, <1>5 DEF WaitTest, ClientAt
  <1>7. Busy = {}  BY <1>6, BusyFinite, FS_EmptySet DEF ActiveExact
  <1>8. \A w \in TpWorkers : tpWorker[w].task = {}  BY <1>7 DEF Busy, OnlyRunnersHold
  <1>9. TpQueued = {}  BY <1>6 DEF TpQueued
  <1>10. tpSubmitted \subseteq tpDone  BY <1>8, <1>9 DEF TasksPlaced
  <1> QED  BY <1>10 DEF OwedSubmitted

\* A WaitAll that returns leaves no task behind that was submitted before it (WaitAll, Submit
\* and the worker loop, for any number of workers, clients and tasks).
THEOREM WaitAllCorrect == TpSpec => WaitAllSound
  <1>1. PoolInv /\ [TpNext]_tpVars =>
          [\A c \in TpClients :
             tpClient[c].at = "test" /\ tpClient'[c].at = "idle" => tpClient[c].owed \subseteq tpDone]_tpVars
    BY WaitReturnsClean
  <1> QED  BY <1>1, PoolInvariant, PTL DEF TpSpec, WaitAllSound

\* Shutdown's tasks.clear() drops nothing (Stop and the workers' way out).
THEOREM NothingDropped == TpSpec => []PoolDrains
  <1>1. PoolInv => PoolDrains  BY DEF PoolInv, PoolShape, PoolDrains
  <1> QED  BY <1>1, PoolInvariant, PTL

-----------------------------------------------------------------------------
(* The machine.                                                            *)

\* The four units' invariants.
MachineInv == unit \in Units /\ CpTypeOK /\ DbInv /\ ShInv /\ PoolInv

LEMMA MachineInvInit == Init => MachineInv
  <1> SUFFICES ASSUME Init PROVE MachineInv
    OBVIOUS
  <1>1. CpInit /\ DbInit /\ ShInit /\ TpInit /\ unit \in Units
    BY DEF Init
  <1> QED BY <1>1, CpTypeInit, DbInvInit, ShInvInit, PoolInvInit DEF MachineInv

\* A step of the machine is a step of one unit, and leaves the others alone.
LEMMA UnitSteps ==
    [Next]_machineVars => /\ [CpNext]_cpVars /\ [DbNext]_dbVars /\ [ShNext]_shVars /\ [TpNext]_tpVars
                          /\ unit' = unit
  BY DEF Next, StepAlu, StepRun, StepShaders, StepPool, machineVars

LEMMA MachineInvariant == Spec => []MachineInv
  <1>1. MachineInv /\ [Next]_machineVars => MachineInv'
    <2> SUFFICES ASSUME MachineInv, [Next]_machineVars PROVE MachineInv'
      OBVIOUS
    <2>1. [CpNext]_cpVars /\ [DbNext]_dbVars /\ [ShNext]_shVars /\ [TpNext]_tpVars /\ unit' = unit
      BY UnitSteps
    <2>2. CpTypeOK' /\ DbInv'
      BY <2>1, CpTypeInductive, DbInvInductive DEF MachineInv
    <2>3. ShInv' /\ PoolInv'
      BY <2>1, ShInvInductive, PoolInvInductive DEF MachineInv
    <2> QED BY <2>1, <2>2, <2>3 DEF MachineInv
  <1> QED BY <1>1, MachineInvInit, PTL DEF Spec

\* Every variable of the machine keeps its type: words stay words, no key is in the cache
\* twice, no counter leaves its range (every handler of the four units).
THEOREM MachineTypes == Spec => []MachineTypeOK
  <1>1. MachineInv => MachineTypeOK
    BY DbInvShows DEF MachineInv, ShInv, PoolInv, MachineTypeOK
  <1> QED BY <1>1, MachineInvariant, PTL

\* The tracked frames follow the guest's stack whatever faults, the pending jobs the shader
\* queue and its worker, activeTasks the pool's workers, and Shutdown leaves no task behind
\* (CALL, RET and RET imm16; QueueCompile, the shader worker, FlushQueue, Init; ThreadPool).
THEOREM WorkIsTracked == Spec => []WorkTracked
  <1>1. MachineInv => WorkTracked
    BY DbInvShows DEF MachineInv, ShInv, PoolInv, PoolShape, PoolDrains, WorkTracked
  <1> QED BY <1>1, MachineInvariant, PTL

\* On words of every even width, the flags a comparison leaves order its operands for every
\* conditional jump, and a signed product is exact to its last bit (UpdateFlagsArith, the Jcc
\* table, Mul128S).
THEOREM InterpreterIsExact == Spec => ArithmeticExact
  <1>1. CpTypeOK =>
          [\A d, s \in CpRegs : Compare(d, s) =>
             \A cc \in Orderings : Taken(cc, cpFlags') <=> Ordered(cc, cpGpr[d], cpGpr[s])]_cpVars
    BY ComparisonsOrder
  <1>2. CpTypeOK =>
          [\A s \in CpRegs : MultiplySigned(s) =>
             LET product == Signed(cpGpr["rax"]) * Signed(cpGpr[s])
             IN  /\ Signed(cpGpr'["rdx"]) * Modulus + cpGpr'["rax"] = product
                 /\ ("OF" \in cpFlags') <=> (product # Signed(Wrap(product)))]_cpVars
    BY SignedProductsExact
  <1>3. MachineInv => CpTypeOK
    BY DEF MachineInv
  <1> QED BY <1>1, <1>2, <1>3, MachineInvariant, PTL DEF Spec, ArithmeticExact, ComparesOrder, SignedProductExact
=============================================================================
