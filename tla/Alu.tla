--------------------------------- MODULE Alu ---------------------------------
(***************************************************************************)
(* The arithmetic of the 68xx (alu.c): an operation returns its result and *)
(* the condition code register it leaves, ccr, a record of the flags H, N, *)
(* Z, V and C, each 0 or 1.  What alu.c writes twice, for bytes and for    *)
(* words, is written once, for operands of w bits.  The width of a byte is *)
(* a parameter, so that what takes several bytes can be checked in full.   *)
(***************************************************************************)
EXTENDS Integers

CONSTANTS
  BITS,  \* the bits of a byte: 8, or fewer
  HALF   \* the bits of its low nibble: 4

ASSUME WidthAssumption == BITS \in 2 .. 8 /\ HALF \in 1 .. BITS - 1

WORD == 2 * BITS
Number(w) == 0 .. 2^w - 1
Byte == Number(BITS)
Word == Number(WORD)
Ccr == [H : {0, 1}, N : {0, 1}, Z : {0, 1}, V : {0, 1}, C : {0, 1}]

\* Bit k of n, and what n is as a number of w bits in two's complement.
Bit(n, k) == (n \div 2^k) % 2
Signed(w, n) == IF Bit(n, w - 1) = 1 THEN n - 2^w ELSE n

flag(expr) == IF expr THEN 1 ELSE 0

-----------------------------------------------------------------------------
(* The flags many operations set alike.                                    *)

setnz(ccr, w, result) ==
  [ccr EXCEPT !.N = Bit(result, w - 1), !.Z = flag(result % 2^w = 0)]

\* Bit k of the exclusive or of the operands and the result: the carry into bit k.
carry_into(k, val1, val2, result) == (Bit(val1, k) + Bit(val2, k) + Bit(result, k)) % 2

\* For the mutants: V without the carry out of the sign.
overflow_without_carry(w, val1, val2, result) == carry_into(w - 1, val1, val2, result)

\* V, when bit w of the result is the carry or the borrow.
overflow(w, val1, val2, result) ==
  (carry_into(w - 1, val1, val2, result) + Bit(result, w)) % 2

\* The result of w bits, and NZVC, from the w + 1 bits of the exact one.
arithmetic(ccr, w, val1, val2, result) ==
  [r   |-> result % 2^w,
   ccr |-> [setnz(ccr, w, result) EXCEPT !.V = overflow(w, val1, val2, result),
                                         !.C = Bit(result, w)]]

-----------------------------------------------------------------------------
(* Sums and differences.                                                   *)

addword(ccr, val1, val2, carry) == arithmetic(ccr, WORD, val1, val2, val1 + val2 + carry)

\* A sum of bytes sets H too, from the carry into the high nibble.
addbyte(ccr, val1, val2, carry) ==
  LET result == val1 + val2 + carry
  IN  arithmetic([ccr EXCEPT !.H = carry_into(HALF, val1, val2, result)],
                 BITS, val1, val2, result)

\* The code's unsigned difference, of which only the low w + 1 bits are used.
sub(ccr, w, val1, val2, carry) ==
  arithmetic(ccr, w, val1, val2, (val1 - val2 - carry) % 2^(w + 1))

subbyte(ccr, val1, val2, carry) == sub(ccr, BITS, val1, val2, carry)
subword(ccr, val1, val2, carry) == sub(ccr, WORD, val1, val2, carry)

\* CPX: "set flags except cf".
cmpword(ccr, val1, val2) == [sub(ccr, WORD, val1, val2, 0).ccr EXCEPT !.C = ccr.C]

negbyte(ccr, value) == subbyte(ccr, 0, value, 0)

\* TST: the difference with zero, then V and C cleared.
testbyte(ccr, operand) == [subbyte(ccr, operand, 0, 0).ccr EXCEPT !.V = 0, !.C = 0]

-----------------------------------------------------------------------------
(* Loads, stores, transfers and the bitwise operations; increments.        *)

\* The flags of a value that is loaded, stored or the result of a bitwise operation.
bittest(ccr, w, value) == [setnz(ccr, w, value) EXCEPT !.V = 0]

combyte(ccr, value) ==
  LET result == 2^BITS - 1 - value
  IN  [r |-> result, ccr |-> [bittest(ccr, BITS, result) EXCEPT !.C = 1]]

clrbyte(ccr) == [ccr EXCEPT !.N = 0, !.Z = 1, !.V = 0, !.C = 0]

decbyte(ccr, value) ==
  LET result == (value - 1) % 2^BITS
  IN  [r   |-> result,
       ccr |-> [setnz(ccr, BITS, result) EXCEPT !.V = flag(value = 2^(BITS - 1))]]

\* For the mutants: an increment as a sum with one.
incbyte_as_sum(ccr, value) == arithmetic(ccr, BITS, value, 1, value + 1)

incbyte(ccr, value) ==
  LET result == (value + 1) % 2^BITS
  IN  [r   |-> result,
       ccr |-> [setnz(ccr, BITS, result) EXCEPT !.V = flag(value = 2^(BITS - 1) - 1)]]

\* INX and DEX by d, of which only Z is set.
incword(ccr, value, d) == [ccr EXCEPT !.Z = flag((value + d) % 2^WORD = 0)]

-----------------------------------------------------------------------------
(* Shifts.  V is whether the new sign differs from C.                      *)

shifted(ccr, w, result, cflag) ==
  [r   |-> result,
   ccr |-> [setnz(ccr, w, result) EXCEPT !.V = (Bit(result, w - 1) + cflag) % 2,
                                         !.C = cflag]]

shl(ccr, w, operand, lsbit) ==
  shifted(ccr, w, ((operand * 2) % 2^w) + lsbit, Bit(operand, w - 1))

shr(ccr, w, operand, msbit) ==
  shifted(ccr, w, operand \div 2 + msbit * 2^(w - 1), Bit(operand, 0))

-----------------------------------------------------------------------------
(* MUL and DAA (opfunc.c).                                                 *)

\* For the mutants: C from the sign of the product.
mul_sign(ccr, a, b) == [r |-> a * b, ccr |-> [ccr EXCEPT !.C = Bit(a * b, WORD - 1)]]

\* MUL: C is bit 7 of the low byte of the product.
mul(ccr, a, b) == [r |-> a * b, ccr |-> [ccr EXCEPT !.C = Bit(a * b, BITS - 1)]]

low_adjusted(ccr, a) ==
  LET result == IF ccr.H = 1 THEN a + 6 ELSE a
  IN  IF result % 16 > 9 THEN result + 6 ELSE result

high_adjusted(ccr, a) ==
  LET result == IF ccr.C = 1 THEN a + 16 * 6 ELSE a
  IN  IF (result \div 16) % 16 > 9 THEN result + 16 * 6 ELSE result

\* DAA, for bytes of 8 bits: C is never cleared.
daa(ccr, acca) ==
  LET result == high_adjusted(ccr, low_adjusted(ccr, acca))
  IN  [r |-> result % 256, ccr |-> [bittest(ccr, BITS, result % 256) EXCEPT
                                      !.C = IF Bit(result, 8) = 1 THEN 1 ELSE @]]

-----------------------------------------------------------------------------
(* The conditions of the branches.                                         *)

bcs(ccr) == ccr.C = 1
beq(ccr) == ccr.Z = 1
bls(ccr) == ccr.C = 1 \/ ccr.Z = 1
blt(ccr) == ccr.N # ccr.V
ble(ccr) == ccr.Z = 1 \/ ccr.N # ccr.V
=============================================================================
