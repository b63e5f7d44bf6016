--------------------------- MODULE MultiPrecision ---------------------------
(***************************************************************************)
(* Programs of arithmetic instructions (opfunc.c).  A program computes on  *)
(* numbers of several bytes a byte at a time: the carry between two bytes  *)
(* has to get past the instructions that fetch, store and count in         *)
(* between; a branch relies on flags set some instructions earlier.  Two   *)
(* history variables hold what the digits computed so far and the flags    *)
(* stand for, in unbounded integers.                                       *)
(*                                                                         *)
(* An operand that an instruction takes from memory, or from an index      *)
(* register, is any number.  X of the 6805, a byte, is in B's place.       *)
(***************************************************************************)
EXTENDS Alu

CONSTANT MaxDigits  \* bound of the model: the bytes of the longest number computed

ASSUME DigitsAssumption == MaxDigits \in Nat

VARIABLES
  build,  \* the chip the simulator was built for: "6811", which has the 6800's and 6801's, or "6805"
  acc,    \* accumulators A and B
  ccr,    \* without H, which only DAA looks at (module Decimal)
  chain,  \* history: the computation that C is the carry of
  test    \* history: the difference that N, Z and V, and perhaps C, tell the sign of

arithmetic_vars == <<build, acc, ccr, chain, test>>

Acc == {"A", "B"}
\* Where an instruction that modifies its operand finds it: v is one of Operands(t).
Target == Acc \cup {"memory"}
Operands(t) == IF t \in Acc THEN {acc[t]} ELSE Byte
accd == acc["A"] * 2^BITS + acc["B"]

-----------------------------------------------------------------------------
(* History.  A chain has computed r from x and y, numbers of n digits, in  *)
(* C the carry, the borrow or the bit shifted out; or the quotient of x    *)
(* and y, r, of n words, of which all but the first are after the point.   *)
(* The weight is that of the digit that comes next, and of C; of a         *)
(* quotient, how many of its last place make one.                          *)

Chain(kind, n, weight, x, y, r) ==
  [kind |-> kind, n |-> n, weight |-> weight, x |-> x, y |-> y, r |-> r]

NoChain == Chain("none", 0, 1, 0, 0, 0)
ByteChain(kind, x, y, r) == Chain(kind, 1, 2^BITS, x, y, r)
WordChain(kind, x, y, r) == Chain(kind, 2, 2^WORD, x, y, r)

Continues(kind) == chain.kind = kind /\ chain.n < MaxDigits

\* One more digit at the top, by an instruction that takes the carry in.
Extended(kind, x, y, r) ==
  IF Continues(kind)
  THEN Chain(kind, chain.n + 1, chain.weight * 2^BITS, chain.x + x * chain.weight,
             chain.y + y * chain.weight, chain.r + r * chain.weight)
  ELSE NoChain

\* One more digit at the bottom, for the shifts to the right.
ExtendedBelow(kind, x, r) ==
  IF Continues(kind)
  THEN Chain(kind, chain.n + 1, chain.weight * 2^BITS, chain.x * 2^BITS + x, 0,
             chain.r * 2^BITS + r)
  ELSE NoChain

\* What is left of the chain after an instruction that does not touch C, and what after one
\* that does not touch D either; a chain of MaxDigits is followed no further.
KeptWithD == IF chain.n < MaxDigits THEN chain ELSE NoChain
Kept == IF chain.kind = "quotient" THEN NoChain ELSE KeptWithD

\* Flags that tell the sign of a signed difference, and of an unsigned one too ("both").
NoTest == [kind |-> "none", signed |-> 0, unsigned |-> 0]
Both(w, x, y) == [kind |-> "both", signed |-> Signed(w, x) - Signed(w, y), unsigned |-> x - y]
OnlySigned(s) == [kind |-> "signed", signed |-> s, unsigned |-> 0]

-----------------------------------------------------------------------------
(* The instructions.  t is the accumulator, v an operand in memory, or the *)
(* value of the target t that is modified.                                 *)

sets(t, op) ==
  /\ acc' = IF t \in Acc THEN [acc EXCEPT ![t] = op.r] ELSE acc
  /\ ccr' = [op.ccr EXCEPT !.H = 0]

sets_d(op) ==
  /\ acc' = [A |-> (op.r \div 2^BITS) % 2^BITS, B |-> op.r % 2^BITS]
  /\ ccr' = op.ccr

\* ADDA, ADDB and, when v is accumulator B, ABA.
add(t, v) ==
  LET op == addbyte(ccr, acc[t], v, 0)
  IN  sets(t, op) /\ chain' = ByteChain("sum", acc[t], v, op.r) /\ test' = NoTest

\* ADCA and ADCB; "ADCA #0" rounds a product to its high byte.
adc(t, v) ==
  LET op == addbyte(ccr, acc[t], v, ccr.C)
  IN  /\ sets(t, op)
      /\ chain' = IF chain.kind = "product" /\ t = "A" /\ v = 0 /\ accd = chain.r
                  THEN Chain("rounded", MaxDigits, 2^BITS, chain.x, chain.y, op.r)
                  ELSE Extended("sum", acc[t], v, op.r)
      /\ test' = NoTest

\* SUBA, SUBB and SBA; SBCA and SBCB with an operand addressed by Y take no carry in either.
sub_acc(t, v) ==
  LET op == subbyte(ccr, acc[t], v, 0)
  IN  /\ sets(t, op)
      /\ chain' = ByteChain("difference", acc[t], v, op.r)
      /\ test' = Both(BITS, acc[t], v)

\* SBCA and SBCB.
sbc(t, v) ==
  LET op == subbyte(ccr, acc[t], v, ccr.C)
  IN  sets(t, op) /\ chain' = Extended("difference", acc[t], v, op.r) /\ test' = NoTest

\* CMPA, CMPB and CBA.
cmp(t, v) ==
  /\ ccr' = subbyte(ccr, acc[t], v, 0).ccr
  /\ chain' = NoChain /\ test' = Both(BITS, acc[t], v)
  /\ UNCHANGED acc

\* NEGA, NEGB and NEG of memory; the others alike.
neg(t, v) ==
  LET op == negbyte(ccr, v)
  IN  /\ sets(t, op)
      /\ chain' = ByteChain("difference", 0, v, op.r)
      /\ test' = Both(BITS, 0, v)

tst(v) ==
  /\ ccr' = testbyte(ccr, v)
  /\ chain' = NoChain /\ test' = Both(BITS, v, 0)
  /\ UNCHANGED acc

\* LDAA, LDAB, TAB, TBA, AND, ORA and EOR: accumulator t becomes some v.
load(t, v) ==
  /\ sets(t, [r |-> v, ccr |-> bittest(ccr, BITS, v)])
  /\ chain' = Kept /\ test' = OnlySigned(Signed(BITS, v))

\* STAA, STAB, BIT, AIM, OIM, EIM and TIM, and BSET and BCLR: v is stored, or only looked at.
store(v) ==
  /\ ccr' = bittest(ccr, BITS, v)
  /\ chain' = KeptWithD /\ test' = OnlySigned(Signed(BITS, v))
  /\ UNCHANGED acc

\* PULA, PULB, and TAX and TXA of the 6805, which set no flags.
pul(t, v) ==
  /\ acc' = [acc EXCEPT ![t] = v]
  /\ chain' = Kept
  /\ UNCHANGED <<ccr, test>>

com(t, v) ==
  LET op == combyte(ccr, v)
  IN  sets(t, op) /\ chain' = NoChain /\ test' = OnlySigned(Signed(BITS, op.r))

clr(t) ==
  /\ sets(t, [r |-> 0, ccr |-> clrbyte(ccr)])
  /\ chain' = NoChain /\ test' = Both(BITS, 0, 0)

dec(t, v) ==
  /\ sets(t, decbyte(ccr, v))
  /\ chain' = Kept /\ test' = OnlySigned(Signed(BITS, v) - 1)

inc(t, v) ==
  /\ sets(t, incbyte(ccr, v))
  /\ chain' = Kept /\ test' = OnlySigned(Signed(BITS, v) + 1)

\* INX and DEX, INY and DEY.
inx(x, d) ==
  /\ ccr' = incword(ccr, x, d)
  /\ chain' = KeptWithD /\ test' = NoTest
  /\ UNCHANGED acc

\* LSL, and ROL of the next byte of a number.
lsl(t, v) ==
  LET op == shl(ccr, BITS, v, 0)
  IN  sets(t, op) /\ chain' = ByteChain("sum", v, v, op.r) /\ test' = NoTest

rol(t, v) ==
  LET op == shl(ccr, BITS, v, ccr.C)
  IN  sets(t, op) /\ chain' = Extended("sum", v, v, op.r) /\ test' = NoTest

\* LSR and ASR, and ROR of the byte below.
lsr(t, v) ==
  LET op == shr(ccr, BITS, v, 0)
  IN  sets(t, op) /\ chain' = ByteChain("half", v, 0, op.r) /\ test' = NoTest

asr(t, v) ==
  LET op == shr(ccr, BITS, v, Bit(v, BITS - 1))
  IN  /\ sets(t, op)
      /\ chain' = ByteChain("half", Signed(BITS, v), 0, Signed(BITS, op.r))
      /\ test' = NoTest

ror(t, v) ==
  LET op == shr(ccr, BITS, v, ccr.C)
  IN  sets(t, op) /\ chain' = ExtendedBelow("half", v, op.r) /\ test' = NoTest

-----------------------------------------------------------------------------
(* The word instructions of the 6801.                                      *)

addd(v) ==
  LET op == addword(ccr, accd, v, 0)
  IN  sets_d(op) /\ chain' = WordChain("sum", accd, v, op.r) /\ test' = NoTest

subd(v) ==
  LET op == subword(ccr, accd, v, 0)
  IN  /\ sets_d(op)
      /\ chain' = WordChain("difference", accd, v, op.r)
      /\ test' = Both(WORD, accd, v)

\* CPX, when X holds the number that D holds.
cpx(v) ==
  /\ ccr' = cmpword(ccr, accd, v)
  /\ chain' = KeptWithD /\ test' = OnlySigned(Signed(WORD, accd) - Signed(WORD, v))
  /\ UNCHANGED acc

lsld ==
  LET op == shl(ccr, WORD, accd, 0)
  IN  sets_d(op) /\ chain' = WordChain("sum", accd, accd, op.r) /\ test' = NoTest

lsrd ==
  LET op == shr(ccr, WORD, accd, 0)
  IN  sets_d(op) /\ chain' = WordChain("half", accd, 0, op.r) /\ test' = NoTest

\* LDD and STD.
ldd(v) ==
  /\ sets_d([r |-> v, ccr |-> bittest(ccr, WORD, v)])
  /\ chain' = Kept /\ test' = OnlySigned(Signed(WORD, v))

mul_inh ==
  LET op == mul(ccr, acc["A"], acc["B"])
  IN  /\ sets_d(op)
      /\ chain' = ByteChain("product", acc["A"], acc["B"], op.r)
      /\ test' = NoTest

-----------------------------------------------------------------------------
(* What the 6811 adds, beside operands addressed by Y.                     *)

\* CPD; CPY, and CPX with an operand addressed by Y, when the register holds what D holds.
cpd(v) ==
  /\ ccr' = subword(ccr, accd, v, 0).ccr
  /\ chain' = NoChain /\ test' = Both(WORD, accd, v)
  /\ UNCHANGED acc

\* The remainder of a division goes to D, the quotient to X.
divided(numerator, x, flags) == sets_d([r |-> numerator % x, ccr |-> flags])

\* IDIV, with x in X.
idiv_inh(x) ==
  /\ test' = NoTest
  /\ IF x = 0
     THEN /\ sets_d([r |-> 0, ccr |-> [ccr EXCEPT !.V = 0, !.C = 1]])
          /\ chain' = NoChain
     ELSE /\ divided(accd, x, [ccr EXCEPT !.V = 0, !.Z = flag(accd % x = 0), !.C = 0])
          /\ chain' = Chain("quotient", 1, 1, accd, x, accd \div x)

\* What FDIV leaves in X.
fdiv_quotient(x) == ((accd * 2^WORD) \div x) % 2^WORD

\* FDIV: the next word of the quotient, if D is the remainder and X has been loaded with the
\* divisor again.  A D as large as X gives 0, of which nothing is said.
fdiv_inh(x) ==
  /\ ~(x = 0 /\ accd = 0)
  /\ test' = NoTest
  /\ IF accd > x
     THEN ccr' = [ccr EXCEPT !.V = 1] /\ chain' = NoChain /\ UNCHANGED acc
     ELSE LET rest == (accd * 2^WORD) % x
              sign(n) == Bit(n, WORD - 1)
              overflowed == sign(accd) = sign(x) /\ sign(x) # sign(rest)
          IN  /\ divided(accd * 2^WORD, x,
                         [ccr EXCEPT !.Z = flag(rest = 0), !.V = flag(overflowed), !.C = 0])
              /\ chain' = IF accd = x THEN NoChain
                          ELSE IF Continues("quotient") /\ chain.y = x
                          THEN [chain EXCEPT !.n = @ + 1, !.weight = @ * 2^WORD,
                                            !.r = @ * 2^WORD + fdiv_quotient(x)]
                          ELSE WordChain("quotient", accd, x, fdiv_quotient(x))

-----------------------------------------------------------------------------
(* What the 6805 does otherwise.                                           *)

\* SBC with an operand addressed by X: flags only, nothing is stored.
sbc_ix(v) ==
  /\ ccr' = subbyte(ccr, acc["A"], v, ccr.C).ccr
  /\ chain' = NoChain /\ test' = NoTest
  /\ UNCHANGED acc

\* MUL, without flags.
mul_inh_6805 ==
  LET product == acc["A"] * acc["B"]
  IN  /\ acc' = [A |-> product % 2^BITS, B |-> product \div 2^BITS]
      /\ chain' = Kept
      /\ UNCHANGED <<ccr, test>>

-----------------------------------------------------------------------------
ArithmeticInit ==
  /\ build \in {"6811", "6805"}
  /\ acc \in [Acc -> Byte]
  /\ ccr = [H |-> 0, N |-> 0, Z |-> 0, V |-> 0, C |-> 0]
  /\ chain = NoChain /\ test = NoTest

\* Bound of the model: what an index register holds when it is counted.
Counted == {0, 1, 2^WORD - 1}

Modifying ==
  \E t \in Target : \E v \in Operands(t) :
    \/ neg(t, v) \/ com(t, v) \/ lsl(t, v) \/ rol(t, v) \/ lsr(t, v) \/ asr(t, v) \/ ror(t, v)
    \/ dec(t, v) \/ inc(t, v) \/ tst(v) \/ clr(t)

ByteInstruction ==
  \/ \E t \in Acc, v \in Byte :
       \/ add(t, v) \/ adc(t, v) \/ sub_acc(t, v) \/ sbc(t, v) \/ cmp(t, v)
       \/ load(t, v) \/ pul(t, v)
  \/ \E v \in Byte : store(v)
  \/ Modifying

WordInstruction ==
  \/ \E v \in Word : addd(v) \/ subd(v) \/ cpx(v) \/ ldd(v)
  \/ \E x \in Counted, d \in {-1, 1} : inx(x, d)
  \/ lsld \/ lsrd \/ mul_inh

\* The 6811, which has all the instructions of the 6800 and the 6801.
Instruction6811 ==
  \/ ByteInstruction \/ WordInstruction
  \/ \E x \in Word : cpd(x) \/ idiv_inh(x) \/ fdiv_inh(x)

\* The 6805, which has no word instructions: the ones on A, those on X, and those that modify A, X
\* or memory.
OnA_6805(v) ==
  add("A", v) \/ adc("A", v) \/ sub_acc("A", v) \/ sbc("A", v) \/ cmp("A", v) \/ load("A", v)

OnX_6805(v) == cmp("B", v) \/ load("B", v) \/ pul("B", acc["A"]) \/ pul("A", acc["B"])

Instruction6805 ==
  \/ \E v \in Byte : OnA_6805(v) \/ sbc_ix(v) \/ OnX_6805(v) \/ store(v)
  \/ Modifying \/ mul_inh_6805

ArithmeticNext ==
  /\ \/ build = "6811" /\ Instruction6811
     \/ build = "6805" /\ Instruction6805
  /\ UNCHANGED build

ArithmeticSpec == ArithmeticInit /\ [][ArithmeticNext]_arithmetic_vars

-----------------------------------------------------------------------------
(* Properties.                                                             *)

\* The digits computed so far, with C as the next one, are the exact sum, difference or half of
\* the numbers the digits were taken from: whatever instructions that leave C alone were
\* executed between the digits, whether a byte or a word was computed at a time, and whether
\* in an accumulator or in memory.  IDIV and the FDIVs of its remainder give a quotient to the
\* last place.
DigitsExact ==
  LET carry == ccr.C * chain.weight
  IN  /\ chain.kind = "sum" => chain.r + carry = chain.x + chain.y
      /\ chain.kind = "difference" => chain.r - carry = chain.x - chain.y
      /\ chain.kind = "half" => 2 * chain.r + ccr.C = chain.x
      /\ chain.kind = "quotient" =>
           chain.x * chain.weight - chain.y * chain.r \in 0 .. chain.y - 1

\* "MUL, ADCA #0" leaves in A the product rounded to its high byte.
ProductRounds ==
  chain.kind = "rounded" => chain.r = (chain.x * chain.y + 2^(BITS - 1)) \div 2^BITS

\* A branch decides by the sign of what was compared, loaded, stored, tested, counted or
\* negated last: the signed branches always, also when the difference overflowed; the unsigned
\* ones after the instructions that set C to the borrow.
BranchesDecide ==
  /\ test.kind # "none" =>
       /\ beq(ccr) <=> test.signed = 0
       /\ blt(ccr) <=> test.signed < 0
       /\ ble(ccr) <=> test.signed <= 0
  /\ test.kind = "both" =>
       /\ bcs(ccr) <=> test.unsigned < 0
       /\ bls(ccr) <=> test.unsigned <= 0
=============================================================================
