--------------------------- MODULE CpuInterpreter ---------------------------
(***************************************************************************)
(* The arithmetic of the guest CPU, src/.../Cpu/Cpu.cpp: what each         *)
(* implemented instruction does to the general registers and to RFLAGS.    *)
(*                                                                         *)
(* The 64-bit word of the code is a word of CpWidth bits, kept modulo      *)
(* 2^CpWidth everywhere, so wrap-around, sign and carry happen as they do  *)
(* in uint64_t; an operand width of the code (8, 16 or 32 of 64 bits) is a *)
(* member of CpNarrow.  Registers are "rax", "rdx" (MUL and DIV name them) *)
(* and whatever else CpRegs holds.  RFLAGS is the set of the flags that    *)
(* are 1.  Prefix and ModRM decoding only choose the operands and are      *)
(* existential here; a value read from guest memory is any word, or a      *)
(* fault.  LAHF and SAHF move the flags' byte of RAX, which a narrow word  *)
(* does not have, and are left out.                                        *)
(***************************************************************************)
EXTENDS Integers, FiniteSets

CONSTANTS CpWidth,    \* bits in a word, even
          CpRegs,     \* the registers, "rax" and "rdx" among them
          CpNarrow    \* the narrow operand widths

ASSUME CpWidthIsEven == CpWidth \in Nat \ {0} /\ CpWidth % 2 = 0
ASSUME CpRegsNamed == {"rax", "rdx"} \subseteq CpRegs
ASSUME CpNarrowFits == CpNarrow \subseteq 1 .. CpWidth - 1

VARIABLES cpGpr,      \* ctx.gpr: register -> word
          cpFlags,    \* ctx.rflags, as the set of flags that are 1
          cpStep      \* result of the run so far: the run loop goes on at "Ok",
                      \* past an unimplemented instruction, and ends otherwise

cpVars == <<cpGpr, cpFlags, cpStep>>

\* 1 << n.
Power[n \in Nat] == IF n = 0 THEN 1 ELSE 2 * Power[n - 1]

Modulus == Power[CpWidth]
Word == 0 .. Modulus - 1
Flags == {"CF", "PF", "ZF", "SF", "OF"}

CpTypeOK ==
    /\ cpGpr \in [CpRegs -> Word]
    /\ cpFlags \subseteq Flags
    /\ cpStep \in {"Ok", "Fault", "HostTrap"}

Wrap(v) == v % Modulus
Negative(v) == v >= Modulus \div 2
Signed(v) == IF Negative(v) THEN v - Modulus ELSE v
Low(v, n) == v % Power[n]
Widened(v, n) == IF Low(v, n) >= Power[n - 1] THEN Wrap(Low(v, n) - Power[n]) ELSE Low(v, n)

\* The sign-extended immediates an instruction can carry.
Immediates == {Widened(v, n) : v \in Word, n \in CpNarrow}

On(flag, cond) == IF cond THEN {flag} ELSE {}

\* A word as the places of its bits that are 1, and back.
Bits(v) == {i \in 0 .. CpWidth - 1 : (v \div Power[i]) % 2 = 1}

WordOf(bits) ==
    LET below[n \in 0 .. CpWidth] ==
            IF n = 0 THEN 0 ELSE below[n - 1] + (IF n - 1 \in bits THEN Power[n - 1] ELSE 0)
    IN  below[CpWidth]

And(a, b) == WordOf(Bits(a) \cap Bits(b))
Or(a, b)  == WordOf(Bits(a) \cup Bits(b))
Xor(a, b) == WordOf((Bits(a) \cup Bits(b)) \ (Bits(a) \cap Bits(b)))

Parity(v) == Cardinality(Bits(v)) % 2 = 0

-----------------------------------------------------------------------------
(* The flag helpers.                                                       *)

ResultFlags(r) == On("ZF", r = 0) \union On("SF", Negative(r)) \union On("PF", Parity(r))

\* CF and OF cleared, the others from the result: nothing of the old flags
\* survives, a carry the caller has just set included.
UpdateFlagsLogic(r) == ResultFlags(r)

\* Mutant: the overflow of a subtraction taken from the addition's rule.
UpdateFlagsArithOneRule(a, b, r, isSub) ==
    ResultFlags(r)
      \union On("CF", isSub /\ a < b)
      \union On("OF", Negative(a) = Negative(b) /\ Negative(a) # Negative(r))

\* `result` is already a 64-bit word, so "result > mask" is false whatever
\* the operands: an addition never carries.
UpdateFlagsArith(a, b, r, isSub) ==
    ResultFlags(r)
      \union On("CF", IF isSub THEN a < b ELSE r > Modulus - 1)
      \union On("OF", /\ (Negative(a) = Negative(b)) = ~isSub
                      /\ Negative(a) # Negative(r))

\* The sixteen conditions of Jcc, SF and OF compared as booleans.
Taken(cc, flags) ==
    LET cf == "CF" \in flags   zf == "ZF" \in flags   sf == "SF" \in flags
        of == "OF" \in flags   pf == "PF" \in flags
    IN  CASE cc = "O"  -> of          [] cc = "NO" -> ~of
          [] cc = "B"  -> cf          [] cc = "AE" -> ~cf
          [] cc = "E"  -> zf          [] cc = "NE" -> ~zf
          [] cc = "BE" -> cf \/ zf    [] cc = "A"  -> ~cf /\ ~zf
          [] cc = "S"  -> sf          [] cc = "NS" -> ~sf
          [] cc = "P"  -> pf          [] cc = "NP" -> ~pf
          [] cc = "L"  -> sf # of     [] cc = "GE" -> sf = of
          [] cc = "LE" -> zf \/ sf # of
          [] cc = "G"  -> ~zf /\ sf = of

Conditions == {"O", "NO", "B", "AE", "E", "NE", "BE", "A",
               "S", "NS", "P", "NP", "L", "GE", "LE", "G"}

-----------------------------------------------------------------------------
(* Double-word products, by halves as the portable branch computes them.   *)

Half == Power[CpWidth \div 2]

\* The pair <<hi, lo>> of the unsigned product.
Mul128U(a, b) ==
    LET aLo == a % Half   aHi == a \div Half
        bLo == b % Half   bHi == b \div Half
        p0 == aLo * bLo   p1 == aLo * bHi   p2 == aHi * bLo   p3 == aHi * bHi
        cy == (p0 \div Half) + (p1 % Half) + (p2 % Half)
    IN  <<p3 + (p1 \div Half) + (p2 \div Half) + (cy \div Half),
          (p0 % Half) + (cy % Half) * Half>>

\* The same of the signed product: the high half corrected for each negative factor.
Mul128S(a, b) ==
    LET u == Mul128U(a, b)
    IN  <<Wrap(u[1] - (IF Negative(a) THEN b ELSE 0) - (IF Negative(b) THEN a ELSE 0)), u[2]>>

\* hi # lo >> 63, the arithmetic shift of lo's sign over the word.
SignedOverflow(p) == p[1] # (IF Negative(p[2]) THEN Modulus - 1 ELSE 0)

-----------------------------------------------------------------------------
(* ExecuteOne, one action per group of opcodes.                            *)

Retire(gpr, flags) == cpGpr' = gpr /\ cpFlags' = flags /\ cpStep' = "Ok"
Refuse(result) == UNCHANGED <<cpGpr, cpFlags>> /\ cpStep' = result
Unimplemented == Refuse("Ok")

\* What an ALU operation makes of a and b: the word and the flags.
AluResult(op, a, b) ==
    CASE op = "add" -> <<Wrap(a + b), UpdateFlagsArith(a, b, Wrap(a + b), FALSE)>>
      [] op \in {"sub", "cmp"} -> <<Wrap(a - b), UpdateFlagsArith(a, b, Wrap(a - b), TRUE)>>
      [] op = "or"  -> <<Or(a, b), UpdateFlagsLogic(Or(a, b))>>
      [] op \in {"and", "test"} -> <<And(a, b), UpdateFlagsLogic(And(a, b))>>
      [] op = "xor" -> <<Xor(a, b), UpdateFlagsLogic(Xor(a, b))>>

\* cmp and test write the flags only.
Alu(op, d, b) ==
    LET res == AluResult(op, cpGpr[d], b)
    IN  Retire(IF op \in {"cmp", "test"} THEN cpGpr ELSE [cpGpr EXCEPT ![d] = res[1]], res[2])

\* 0x83 and 0x81: the register form works on 64 bits whatever REX.W says;
\* /2 and /3 (ADC, SBB) are not implemented.
AluImmediate(d, ext, imm) ==
    IF ext \in {2, 3} THEN Unimplemented
    ELSE Alu(CASE ext = 0 -> "add" [] ext = 1 -> "or"  [] ext = 4 -> "and"
               [] ext = 5 -> "sub" [] ext = 6 -> "xor" [] ext = 7 -> "cmp", d, imm)

\* 0x03, 0x0B, 0x23, 0x2B, 0x33 between registers.
AluRegister(op, d, s) == op \in {"add", "or", "and", "sub", "xor"} /\ Alu(op, d, cpGpr[s])

\* 0x03 with a memory operand: any word, or a fault.
AddMemory(d) == \/ \E w \in Word : Alu("add", d, w)
                \/ Refuse("Fault")

\* 0x39 and 0x3B.
Compare(d, s) == Alu("cmp", d, cpGpr[s])

\* 0x85, and 0xA9 with an immediate (flags on the low 32 bits without REX.W).
TestRegister(d, s) == Alu("test", d, cpGpr[s])
TestImmediate(imm, n) ==
    LET r == And(cpGpr["rax"], imm)
        low == Low(r, n)
    IN  Retire(cpGpr, On("ZF", low = 0) \union On("SF", low >= Power[n - 1]) \union On("PF", Parity(low)))

\* 0x89 and 0x8B: register to register, or a load of any word (a narrow one is
\* zero-extended into one) that may fault.
Move(d, s) == Retire([cpGpr EXCEPT ![d] = cpGpr[s]], cpFlags)
Load(d) == \/ \E w \in Word : Retire([cpGpr EXCEPT ![d] = w], cpFlags)
           \/ Refuse("Fault")

\* 0xB8+r and 0xC7: an immediate, zero-extended without REX.W.
MoveImmediate(d, w) == Retire([cpGpr EXCEPT ![d] = w], cpFlags)

\* 0x8D: base plus a signed displacement.
Lea(d, s, disp) == Retire([cpGpr EXCEPT ![d] = Wrap(cpGpr[s] + disp)], cpFlags)

\* 0x91-0x97.
Exchange(s) == Retire([cpGpr EXCEPT !["rax"] = cpGpr[s], ![s] = cpGpr["rax"]], cpFlags)

\* 0F B6/B7 and 0F BE/BF.
MoveExtended(d, s, n, signed) ==
    Retire([cpGpr EXCEPT ![d] = IF signed THEN Widened(cpGpr[s], n) ELSE Low(cpGpr[s], n)], cpFlags)

\* 0F 40-4F: the parity conditions are missing and never move.
ConditionalMove(cc, d, s) ==
    Retire(IF cc \notin {"P", "NP"} /\ Taken(cc, cpFlags) THEN [cpGpr EXCEPT ![d] = cpGpr[s]] ELSE cpGpr,
           cpFlags)

\* 0xC1 and 0xD3, the count masked to the width: the carry each shift
\* computes is cleared again by UpdateFlagsLogic.
Shift(d, ext, count) ==
    LET v == cpGpr[d]
        r == CASE ext = 4 -> Wrap(v * Power[count])
               [] ext = 5 -> v \div Power[count]
               [] ext = 7 -> Wrap(Signed(v) \div Power[count])
               [] OTHER -> v
    IN  IF ext \in {4, 5, 7} THEN Retire([cpGpr EXCEPT ![d] = r], UpdateFlagsLogic(r))
        ELSE Unimplemented

\* 0xFF /0 sets ZF, SF and OF; /1 leaves OF as it was.
Increment(d) ==
    LET r == Wrap(cpGpr[d] + 1)
    IN  Retire([cpGpr EXCEPT ![d] = r],
               (cpFlags \ {"ZF", "SF", "OF"}) \union On("ZF", r = 0) \union On("SF", Negative(r))
                 \union On("OF", cpGpr[d] = (Modulus - 1) \div 2))
Decrement(d) ==
    LET r == Wrap(cpGpr[d] - 1)
    IN  Retire([cpGpr EXCEPT ![d] = r],
               (cpFlags \ {"ZF", "SF"}) \union On("ZF", r = 0) \union On("SF", Negative(r)))

\* 0xF7 /2 and /3.
Complement(d) == Retire([cpGpr EXCEPT ![d] = Modulus - 1 - cpGpr[d]], cpFlags)
Negate(d) ==
    LET r == Wrap(0 - cpGpr[d])
    IN  Retire([cpGpr EXCEPT ![d] = r],
               (cpFlags \ {"CF", "ZF", "SF"}) \union On("CF", cpGpr[d] # 0)
                 \union On("ZF", r = 0) \union On("SF", Negative(r)))

ProductFlags(lost) == (cpFlags \ {"CF", "OF"}) \union On("CF", lost) \union On("OF", lost)

\* 0xF7 /4 and /5: RDX:RAX from RAX and the operand.
Multiply(s) ==
    LET p == Mul128U(cpGpr["rax"], cpGpr[s])
    IN  Retire([cpGpr EXCEPT !["rax"] = p[2], !["rdx"] = p[1]], ProductFlags(p[1] # 0))
MultiplySigned(s) ==
    LET p == Mul128S(cpGpr["rax"], cpGpr[s])
    IN  Retire([cpGpr EXCEPT !["rax"] = p[2], !["rdx"] = p[1]], ProductFlags(SignedOverflow(p)))

\* 0F AF and 0x69: the low word only.
MultiplyInto(d, a, b) ==
    LET p == Mul128S(a, b)
    IN  Retire([cpGpr EXCEPT ![d] = p[2]], ProductFlags(SignedOverflow(p)))

\* 0xF7 /6: RAX alone is the dividend.
Divide(s) ==
    IF cpGpr[s] = 0 THEN Refuse("Fault")
    ELSE Retire([cpGpr EXCEPT !["rax"] = cpGpr["rax"] \div cpGpr[s], !["rdx"] = cpGpr["rax"] % cpGpr[s]],
                cpFlags)

\* Division that truncates toward zero, as the host's does.
Truncated(a, b) == (IF (a < 0) = (b < 0) THEN 1 ELSE -1)
                     * ((IF a < 0 THEN -a ELSE a) \div (IF b < 0 THEN -b ELSE b))

\* 0xF7 /7: the most negative word by -1 is undefined in C++ and traps on the
\* hosts the build targets.
DivideSigned(s) ==
    LET num == Signed(cpGpr["rax"])   denom == Signed(cpGpr[s])
        q == Truncated(num, denom)
    IN  IF denom = 0 THEN Refuse("Fault")
        ELSE IF denom = -1 /\ num = -(Modulus \div 2) THEN Refuse("HostTrap")
        ELSE Retire([cpGpr EXCEPT !["rax"] = Wrap(q), !["rdx"] = Wrap(num - q * denom)], cpFlags)

-----------------------------------------------------------------------------
CpInit == cpGpr = [r \in CpRegs |-> 0] /\ cpFlags = {} /\ cpStep = "Ok"

Arithmetic(d, s) ==
    \/ \E op \in {"add", "or", "and", "sub", "xor"} : AluRegister(op, d, s)
    \/ Compare(d, s)
    \/ TestRegister(d, s)
    \/ \E n \in CpNarrow, sx \in BOOLEAN : MoveExtended(d, s, n, sx)
    \/ Move(d, s)
    \/ \E cc \in Conditions : ConditionalMove(cc, d, s)
    \/ MultiplyInto(d, cpGpr[d], cpGpr[s])

CpNext ==
    /\ cpStep = "Ok"
    /\ \/ \E d, s \in CpRegs : Arithmetic(d, s)
       \/ \E d, s \in CpRegs, imm \in Immediates : Lea(d, s, imm) \/ MultiplyInto(d, cpGpr[s], imm)
       \/ \E d \in CpRegs, imm \in Immediates, ext \in 0 .. 7 : AluImmediate(d, ext, imm)
       \/ \E imm \in Immediates, n \in CpNarrow \union {CpWidth} : TestImmediate(imm, n)
       \/ \E d \in CpRegs, ext \in {0, 4, 5, 7}, count \in 0 .. CpWidth - 1 : Shift(d, ext, count)
       \/ \E d \in CpRegs, w \in Word : MoveImmediate(d, w)
       \/ \E d \in CpRegs : \/ AddMemory(d) \/ Load(d) \/ Exchange(d)
                            \/ Increment(d) \/ Decrement(d) \/ Complement(d) \/ Negate(d)
                            \/ Multiply(d) \/ MultiplySigned(d) \/ Divide(d) \/ DivideSigned(d)

-----------------------------------------------------------------------------
(* What a condition says of the two words compared.                        *)
Ordered(cc, a, b) ==
    CASE cc = "B"  -> a < b       [] cc = "AE" -> a >= b
      [] cc = "BE" -> a <= b      [] cc = "A"  -> a > b
      [] cc = "E"  -> a = b       [] cc = "NE" -> a # b
      [] cc = "L"  -> Signed(a) < Signed(b)   [] cc = "GE" -> Signed(a) >= Signed(b)
      [] cc = "LE" -> Signed(a) <= Signed(b)  [] cc = "G"  -> Signed(a) > Signed(b)

Orderings == {"B", "AE", "BE", "A", "E", "NE", "L", "GE", "LE", "G"}

\* After a comparison of any two words every conditional jump or move decides
\* as the order of the words, signed or unsigned, does (UpdateFlagsArith and
\* the Jcc table).
ComparesOrder ==
    [][\A d, s \in CpRegs : Compare(d, s) =>
         \A cc \in Orderings : Taken(cc, cpFlags') <=> Ordered(cc, cpGpr[d], cpGpr[s])]_cpVars

\* IMUL leaves the double-word product of its signed factors in RDX:RAX, and
\* raises CF and OF exactly when one word does not hold it (Mul128S).
SignedProductExact ==
    [][\A s \in CpRegs : MultiplySigned(s) =>
         LET product == Signed(cpGpr["rax"]) * Signed(cpGpr[s])
         IN  /\ Signed(cpGpr'["rdx"]) * Modulus + cpGpr'["rax"] = product
             /\ ("OF" \in cpFlags') <=> (product # Signed(Wrap(product)))]_cpVars

\* CF is the carry (Cpu.h): after an addition it tells whether the sum left
\* the word.
AddCarries ==
    [][\A d, s \in CpRegs : AluRegister("add", d, s) =>
         (("CF" \in cpFlags') <=> (cpGpr[d] + cpGpr[s] >= Modulus))]_cpVars
=============================================================================
