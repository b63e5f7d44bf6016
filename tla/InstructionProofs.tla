------------------------- MODULE InstructionProofs -------------------------
(***************************************************************************)
(* What the instructions compute, and how they are listed.                 *)
(*                                                                         *)
(* The operations of alu.c are exact: what an operation leaves in its      *)
(* result and in C makes the unbounded sum, difference or shift.  An       *)
(* instruction adds a digit to that, or keeps it, so a program of any      *)
(* length is exact too, and the branches decide by numbers.  A byte has    *)
(* any number of bits the module Alu allows.                               *)
(*                                                                         *)
(* A listing and the execution agree on every program of any length, but   *)
(* for the entries of the tables that OnlyKnownMisprints names; and no     *)
(* loop stands still in time.  First what the five tables say of every     *)
(* opcode, then the walk over the bytes, which uses no more of them.       *)
(***************************************************************************)
EXTENDS Listing, MultiPrecision, TLAPS

-----------------------------------------------------------------------------
(* Numbers of w bits.                                                      *)

\* What the sign of a number of w bits weighs.
Half(w) == 2^(w - 1)
Widths == {BITS, WORD}

LEMMA Powers ==
  /\ \A w \in Widths : /\ Half(w) \in Nat \ {0} /\ Half(w) > 1
                       /\ 2^w = 2 * Half(w) /\ 2^(w + 1) = 4 * Half(w)
  /\ 2^WORD = 2^BITS * 2^BITS
<1> DEFINE P(b) == /\ 2^(b - 1) \in Nat \ {0} /\ 2^(b - 1) > 1
                  /\ 2^b = 2 * 2^(b - 1) /\ 2^(b + 1) = 4 * 2^(b - 1)
<1>1. BITS \in {2, 3, 4, 5, 6, 7, 8}
  BY WidthAssumption
<1>2. P(BITS) /\ P(2 * BITS) /\ 2^(2 * BITS) = 2^BITS * 2^BITS
  <2>2. CASE BITS = 2 BY <2>2
  <2>3. CASE BITS = 3 BY <2>3
  <2>4. CASE BITS = 4 BY <2>4
  <2>5. CASE BITS = 5 BY <2>5
  <2>6. CASE BITS = 6 BY <2>6
  <2>7. CASE BITS = 7 BY <2>7
  <2>8. CASE BITS = 8 BY <2>8
  <2> QED BY <1>1, <2>2, <2>3, <2>4, <2>5, <2>6, <2>7, <2>8
<1> QED BY <1>2, Zenon DEF Half, Widths, WORD

\* The bits at the sign and above it, of a number of two bits more than a half has.
LEMMA Quotients ==
  ASSUME NEW h \in Nat \ {0}, NEW n \in 0 .. 4 * h - 1
  PROVE  /\ (n \div h) % 2 = IF n < h \/ (2 * h <= n /\ n < 3 * h) THEN 0 ELSE 1
         /\ (n \div (2 * h)) % 2 = IF n < 2 * h THEN 0 ELSE 1
         /\ n % (2 * h) = IF n < 2 * h THEN n ELSE n - 2 * h
<1>1. CASE n < h
  <2>1. n \div h = 0 BY <1>1
  <2>2. n \div (2 * h) = 0 /\ n % (2 * h) = n BY <1>1
  <2> QED BY <1>1, <2>1, <2>2
<1>2. CASE h <= n /\ n < 2 * h
  <2>1. n \div h = 1 BY <1>2
  <2>2. n \div (2 * h) = 0 /\ n % (2 * h) = n BY <1>2
  <2> QED BY <1>2, <2>1, <2>2
<1>3. CASE 2 * h <= n /\ n < 3 * h
  <2>1. n \div h = 2 BY <1>3
  <2>2. n \div (2 * h) = 1 /\ n % (2 * h) = n - 2 * h BY <1>3
  <2> QED BY <1>3, <2>1, <2>2
<1>4. CASE 3 * h <= n
  <2>1. n \div h = 3 BY <1>4
  <2>2. n \div (2 * h) = 1 /\ n % (2 * h) = n - 2 * h BY <1>4
  <2> QED BY <1>4, <2>1, <2>2
<1> QED BY <1>1, <1>2, <1>3, <1>4

LEMMA SignBits ==
  ASSUME NEW w \in Widths, NEW n \in 0 .. 4 * Half(w) - 1
  PROVE  /\ Bit(n, w - 1) = IF n < Half(w) \/ (2 * Half(w) <= n /\ n < 3 * Half(w)) THEN 0 ELSE 1
         /\ Bit(n, w) = IF n < 2 * Half(w) THEN 0 ELSE 1
         /\ n % 2^w = IF n < 2 * Half(w) THEN n ELSE n - 2 * Half(w)
<1> DEFINE h == Half(w)
<1>1. h \in Nat \ {0} /\ 2^w = 2 * h /\ n \in 0 .. 4 * h - 1
  BY Powers
<1>2. Bit(n, w - 1) = (n \div h) % 2 /\ Bit(n, w) = (n \div 2^w) % 2
  BY Zenon DEF Bit, Half
<1> HIDE DEF h
<1>3. QED BY <1>1, <1>2, Quotients DEF h

LEMMA Numbers ==
  ASSUME NEW w \in Widths
  PROVE  /\ Number(w) = 0 .. 2 * Half(w) - 1
         /\ \A n \in Number(w) :
              /\ Signed(w, n) = IF n < Half(w) THEN n ELSE n - 2 * Half(w)
              /\ Bit(n, w - 1) = (IF n < Half(w) THEN 0 ELSE 1) /\ n % 2^w = n /\ Bit(n, w) = 0
              /\ n \in Nat
<1>1. Half(w) \in Nat \ {0} /\ 2^w = 2 * Half(w)
  BY Powers
<1>2. Number(w) = 0 .. 2 * Half(w) - 1
  BY <1>1 DEF Number
<1>3. ASSUME NEW n \in Number(w)
      PROVE  /\ Bit(n, w - 1) = (IF n < Half(w) THEN 0 ELSE 1) /\ n % 2^w = n /\ Bit(n, w) = 0
             /\ n \in Nat
  <2> DEFINE h == Half(w)
  <2>1. h \in Nat \ {0} /\ n \in 0 .. 2 * h - 1 /\ n \in 0 .. 4 * h - 1
    BY <1>1, <1>2
  <2>2. /\ Bit(n, w - 1) = IF n < h \/ (2 * h <= n /\ n < 3 * h) THEN 0 ELSE 1
        /\ Bit(n, w) = IF n < 2 * h THEN 0 ELSE 1
        /\ n % 2^w = IF n < 2 * h THEN n ELSE n - 2 * h
    BY <2>1, SignBits, Zenon DEF h
  <2> HIDE DEF h
  <2>3. QED BY <2>1, <2>2 DEF h
<1> QED BY <1>1, <1>2, <1>3 DEF Signed

-----------------------------------------------------------------------------
(* The operations of alu.c.                                                *)

LEMMA FlagFields ==
  ASSUME NEW flags \in Ccr
  PROVE  /\ flags.H \in {0, 1} /\ flags.N \in {0, 1} /\ flags.Z \in {0, 1}
         /\ flags.V \in {0, 1} /\ flags.C \in {0, 1}
  BY DEF Ccr

LEMMA NzFlags ==
  ASSUME NEW flags \in Ccr, NEW w \in Widths, NEW n \in 0 .. 4 * Half(w) - 1
  PROVE  LET f == setnz(flags, w, n)
         IN  /\ f \in Ccr
             /\ f.H = flags.H /\ f.V = flags.V /\ f.C = flags.C
             /\ f.N = Bit(n, w - 1) /\ f.Z = flag(n % 2^w = 0)
<1>1. Bit(n, w - 1) \in {0, 1}
  BY SignBits
<1>2. flag(n % 2^w = 0) \in {0, 1}
  BY DEF flag
<1> QED BY <1>1, <1>2 DEF setnz, Ccr

LEMMA ArithmeticFields ==
  ASSUME NEW flags \in Ccr, NEW w \in Widths, NEW a \in Number(w), NEW b \in Number(w),
         NEW n \in 0 .. 4 * Half(w) - 1
  PROVE  LET op == arithmetic(flags, w, a, b, n)
         IN  /\ op.ccr \in Ccr
             /\ op.r = n % 2^w
             /\ op.ccr.N = Bit(n, w - 1) /\ op.ccr.Z = flag(n % 2^w = 0)
             /\ op.ccr.C = Bit(n, w) /\ op.ccr.V = overflow(w, a, b, n)
<1>1. Bit(n, w) \in {0, 1} /\ Bit(n, w - 1) \in {0, 1}
  BY SignBits
<1>2. Bit(a, w - 1) \in {0, 1} /\ Bit(b, w - 1) \in {0, 1}
  BY Numbers
<1>3. overflow(w, a, b, n) \in {0, 1}
  BY <1>1, <1>2 DEF overflow, carry_into
<1>4. setnz(flags, w, n) \in Ccr
  BY NzFlags, Zenon
<1>5. /\ setnz(flags, w, n).N = Bit(n, w - 1) /\ setnz(flags, w, n).Z = flag(n % 2^w = 0)
  BY NzFlags, Zenon
<1> DEFINE f == setnz(flags, w, n)  v == overflow(w, a, b, n)  c == Bit(n, w)
<1>6. f \in Ccr /\ v \in {0, 1} /\ c \in {0, 1}
  BY <1>1, <1>3, <1>4
<1>7. arithmetic(flags, w, a, b, n) = [r |-> n % 2^w, ccr |-> [f EXCEPT !.V = v, !.C = c]]
  BY Zenon DEF arithmetic
<1> HIDE DEF f, v, c
<1>8. LET g == [f EXCEPT !.V = v, !.C = c]
      IN  g \in Ccr /\ g.N = f.N /\ g.Z = f.Z /\ g.C = c /\ g.V = v
  BY <1>6 DEF Ccr
<1>9. LET op == arithmetic(flags, w, a, b, n)
      IN  op.r = n % 2^w /\ op.ccr = [f EXCEPT !.V = v, !.C = c]
  BY <1>7
<1>10. v = overflow(w, a, b, n) /\ c = Bit(n, w)
  BY DEF v, c
<1>11. f.N = Bit(n, w - 1) /\ f.Z = flag(n % 2^w = 0)
  BY <1>5, Zenon DEF f
<1> QED BY <1>8, <1>9, <1>10, <1>11, Zenon

\* A sum: with the carry it is exact.
LEMMA SumExact ==
  ASSUME NEW flags \in Ccr, NEW w \in Widths, NEW a \in Number(w), NEW b \in Number(w),
         NEW c \in {0, 1}
  PROVE  LET op == arithmetic(flags, w, a, b, a + b + c)
         IN  op.ccr \in Ccr /\ op.r \in Number(w) /\ op.r + op.ccr.C * 2^w = a + b + c
<1> DEFINE h == Half(w)  n == a + b + c
<1>1. h \in Nat \ {0} /\ 2^w = 2 * h /\ Number(w) = 0 .. 2 * h - 1
  BY Powers, Numbers
<1>2. n \in 0 .. 4 * h - 1
  BY <1>1
<1>3. Bit(n, w) = (IF n < 2 * h THEN 0 ELSE 1) /\ n % 2^w = IF n < 2 * h THEN n ELSE n - 2 * h
  BY <1>2, SignBits, Zenon
<1> DEFINE op == arithmetic(flags, w, a, b, n)
<1>4. op.ccr \in Ccr /\ op.r = n % 2^w /\ op.ccr.C = Bit(n, w)
  BY <1>2, ArithmeticFields, Zenon
<1> HIDE DEF h, n, op
<1>5. op.r \in Number(w) /\ op.r + op.ccr.C * 2^w = n
  <2>1. CASE n < 2 * h
    <3>1. op.r = n /\ op.ccr.C = 0
      BY <1>3, <1>4, <2>1
    <3> QED BY <1>1, <1>2, <2>1, <3>1
  <2>2. CASE ~(n < 2 * h)
    <3>1. op.r = n - 2 * h /\ op.ccr.C = 1
      BY <1>3, <1>4, <2>2
    <3> QED BY <1>1, <1>2, <2>2, <3>1
  <2> QED BY <2>1, <2>2
<1> QED BY <1>4, <1>5 DEF op, n

\* What the conditions of the branches say of the signs of a signed and an unsigned difference.
DecidesSigned(flags, s) ==
  (beq(flags) <=> s = 0) /\ (blt(flags) <=> s < 0) /\ (ble(flags) <=> s <= 0)
DecidesUnsigned(flags, u) == (bcs(flags) <=> u < 0) /\ (bls(flags) <=> u <= 0)

\* A difference: with the borrow it is exact; without one going in, the branches see its sign.
LEMMA DifferenceExact ==
  ASSUME NEW flags \in Ccr, NEW w \in Widths, NEW a \in Number(w), NEW b \in Number(w),
         NEW c \in {0, 1}
  PROVE  LET op == sub(flags, w, a, b, c)
         IN  /\ op.ccr \in Ccr /\ op.r \in Number(w)
             /\ op.r - op.ccr.C * 2^w = a - b - c
             /\ c = 0 => /\ DecidesSigned(op.ccr, Signed(w, a) - Signed(w, b))
                         /\ DecidesUnsigned(op.ccr, a - b)
<1> DEFINE h == Half(w)  d == a - b - c  n == d % 2^(w + 1)
<1>1. /\ h \in Nat \ {0} /\ 2^w = 2 * h /\ 2^(w + 1) = 4 * h /\ Number(w) = 0 .. 2 * h - 1
  BY Powers, Numbers
<1>2. d \in Int /\ -2 * h <= d /\ d < 2 * h
  BY <1>1
<1>3. n = IF d < 0 THEN d + 4 * h ELSE d
  <2> HIDE DEF d, h
  <2>1. CASE d < 0 BY <1>1, <1>2, <2>1
  <2>2. CASE d >= 0 BY <1>1, <1>2, <2>2
  <2> QED BY <1>2, <2>1, <2>2
<1>4. n \in 0 .. 4 * h - 1
  <2> HIDE DEF d, h, n
  <2> QED BY <1>1, <1>2, <1>3
<1>5. /\ Bit(n, w - 1) = IF n < h \/ (2 * h <= n /\ n < 3 * h) THEN 0 ELSE 1
      /\ Bit(n, w) = IF n < 2 * h THEN 0 ELSE 1
      /\ n % 2^w = IF n < 2 * h THEN n ELSE n - 2 * h
  BY <1>4, SignBits, Zenon
<1>6. LET op == sub(flags, w, a, b, c)
      IN  /\ op.ccr \in Ccr /\ op.r = n % 2^w
          /\ op.ccr.N = Bit(n, w - 1) /\ op.ccr.Z = flag(n % 2^w = 0)
          /\ op.ccr.C = Bit(n, w) /\ op.ccr.V = overflow(w, a, b, n)
  <2>1. sub(flags, w, a, b, c) = arithmetic(flags, w, a, b, n)
    BY Zenon DEF sub
  <2> HIDE DEF n
  <2>2. LET op == arithmetic(flags, w, a, b, n)
        IN  /\ op.ccr \in Ccr /\ op.r = n % 2^w
            /\ op.ccr.N = Bit(n, w - 1) /\ op.ccr.Z = flag(n % 2^w = 0)
            /\ op.ccr.C = Bit(n, w) /\ op.ccr.V = overflow(w, a, b, n)
    BY <1>4, ArithmeticFields, Zenon
  <2> QED BY <2>1, <2>2, Zenon
<1>7. /\ Signed(w, a) = IF a < h THEN a ELSE a - 2 * h
      /\ Signed(w, b) = IF b < h THEN b ELSE b - 2 * h
      /\ Bit(a, w - 1) = IF a < h THEN 0 ELSE 1
      /\ Bit(b, w - 1) = IF b < h THEN 0 ELSE 1
  BY Numbers, Zenon
<1>8. c = 0 => d = a - b
  BY <1>1
<1> DEFINE f == sub(flags, w, a, b, c).ccr  r == sub(flags, w, a, b, c).r
<1> HIDE DEF h, d, n, f, r
<1>9. /\ f.N = (IF n < h \/ (2 * h <= n /\ n < 3 * h) THEN 0 ELSE 1)
      /\ f.Z = (IF n = 0 \/ n = 2 * h THEN 1 ELSE 0)
      /\ f.C = (IF n < 2 * h THEN 0 ELSE 1)
      /\ r = (IF n < 2 * h THEN n ELSE n - 2 * h)
      /\ f \in Ccr
  BY <1>1, <1>4, <1>5, <1>6 DEF f, r, flag
<1>10. f.V = (((Bit(a, w - 1) + Bit(b, w - 1) + Bit(n, w - 1)) % 2) + Bit(n, w)) % 2
  BY <1>6, Zenon DEF f, overflow, carry_into
<1>11. r \in Number(w) /\ r - f.C * 2^w = d
  BY <1>1, <1>2, <1>3, <1>4, <1>9
<1>12. ASSUME c = 0
       PROVE  DecidesUnsigned(f, a - b)
  BY <1>1, <1>2, <1>3, <1>8, <1>9, <1>12 DEF DecidesUnsigned, bcs, bls
<1>13. ASSUME c = 0
       PROVE  DecidesSigned(f, Signed(w, a) - Signed(w, b))
  <2>1. a \in Int /\ b \in Int /\ 0 <= a /\ a < 2 * h /\ 0 <= b /\ b < 2 * h
    BY <1>1
  <2>2. f.Z = 1 <=> Signed(w, a) - Signed(w, b) = 0
    BY <1>1, <1>2, <1>3, <1>7, <1>8, <1>9, <1>13, <2>1
  <2>3. f.N # f.V <=> Signed(w, a) - Signed(w, b) < 0
    <3>1. CASE a < h /\ b < h
      BY <1>1, <1>2, <1>3, <1>5, <1>7, <1>8, <1>9, <1>10, <1>13, <2>1, <3>1
    <3>2. CASE a < h /\ ~(b < h)
      BY <1>1, <1>2, <1>3, <1>5, <1>7, <1>8, <1>9, <1>10, <1>13, <2>1, <3>2
    <3>3. CASE ~(a < h) /\ b < h
      BY <1>1, <1>2, <1>3, <1>5, <1>7, <1>8, <1>9, <1>10, <1>13, <2>1, <3>3
    <3>4. CASE ~(a < h) /\ ~(b < h)
      BY <1>1, <1>2, <1>3, <1>5, <1>7, <1>8, <1>9, <1>10, <1>13, <2>1, <3>4
    <3> QED BY <3>1, <3>2, <3>3, <3>4
  <2>4. Signed(w, a) - Signed(w, b) \in Int
    BY <1>1, <1>7, <2>1
  <2> QED BY <2>2, <2>3, <2>4 DEF DecidesSigned, beq, blt, ble
<1> QED BY <1>9, <1>11, <1>12, <1>13 DEF f, r, d

\* CPX: a difference but for C.
LEMMA CompareKeepsC ==
  ASSUME NEW flags \in Ccr, NEW a \in Number(WORD), NEW b \in Number(WORD)
  PROVE  LET f == cmpword(flags, a, b)
         IN  f \in Ccr /\ f.C = flags.C /\ DecidesSigned(f, Signed(WORD, a) - Signed(WORD, b))
<1> DEFINE g == sub(flags, WORD, a, b, 0).ccr
<1>1. g \in Ccr /\ DecidesSigned(g, Signed(WORD, a) - Signed(WORD, b))
  BY DifferenceExact DEF Widths
<1>2. cmpword(flags, a, b) = [g EXCEPT !.C = flags.C] /\ flags.C \in {0, 1}
  BY FlagFields, Zenon DEF cmpword
<1> HIDE DEF g
<1>3. LET f == [g EXCEPT !.C = flags.C]
      IN  f \in Ccr /\ f.C = flags.C /\ f.N = g.N /\ f.Z = g.Z /\ f.V = g.V
  BY <1>1, <1>2 DEF Ccr
<1> QED BY <1>1, <1>2, <1>3, Zenon DEF DecidesSigned, beq, blt, ble

\* TST: the difference with zero, with V and C cleared.
LEMMA TestDecides ==
  ASSUME NEW flags \in Ccr, NEW v \in Byte
  PROVE  LET f == testbyte(flags, v)
         IN  f \in Ccr /\ DecidesSigned(f, Signed(BITS, v) - Signed(BITS, 0)) /\ DecidesUnsigned(f, v)
<1> DEFINE n == v % 2^(BITS + 1)  h == Half(BITS)
<1>1. h \in Nat \ {0} /\ 2^(BITS + 1) = 4 * h /\ Number(BITS) = 0 .. 2 * h - 1
  BY Powers, Numbers DEF Widths
<1>2. n = v /\ v \in 0 .. 4 * h - 1 /\ 0 \in Number(BITS) /\ v \in Number(BITS) /\ v \in 0 .. 2 * h - 1
  <2>1. v \in 0 .. 2 * h - 1
    BY <1>1 DEF Byte
  <2> HIDE DEF h
  <2> QED BY <1>1, <2>1 DEF Byte
<1>3. sub(flags, BITS, v, 0, 0) = arithmetic(flags, BITS, v, 0, v)
  <2>1. v - 0 - 0 = v
    BY <1>2
  <2> QED BY <1>2, <2>1, Zenon DEF sub
<1> DEFINE g == arithmetic(flags, BITS, v, 0, v).ccr
<1>4. g \in Ccr /\ g.N = Bit(v, BITS - 1) /\ g.Z = flag(v % 2^BITS = 0)
  BY <1>2, ArithmeticFields, Zenon DEF Widths
<1>5. /\ Bit(v, BITS - 1) = IF v < h THEN 0 ELSE 1
      /\ v % 2^BITS = v
      /\ Signed(BITS, v) = IF v < h THEN v ELSE v - 2 * h
      /\ Signed(BITS, 0) = IF 0 < h THEN 0 ELSE 0 - 2 * h
  BY <1>2, Numbers, Zenon DEF Widths
<1>6. testbyte(flags, v) = [g EXCEPT !.V = 0, !.C = 0]
  BY <1>3, Zenon DEF testbyte, subbyte
<1> HIDE DEF g, h, n
<1>7. LET f == [g EXCEPT !.V = 0, !.C = 0]
      IN  f \in Ccr /\ f.N = g.N /\ f.Z = g.Z /\ f.V = 0 /\ f.C = 0
  BY <1>4 DEF Ccr
<1>8. Signed(BITS, 0) = 0
  BY <1>1, <1>5
<1>9. g.N = (IF v < h THEN 0 ELSE 1) /\ g.Z = IF v = 0 THEN 1 ELSE 0
  BY <1>4, <1>5 DEF flag
<1>10. LET f == [g EXCEPT !.V = 0, !.C = 0]
       IN  f \in Ccr /\ DecidesSigned(f, Signed(BITS, v) - Signed(BITS, 0)) /\ DecidesUnsigned(f, v)
  BY <1>1, <1>2, <1>5, <1>7, <1>8, <1>9
     DEF DecidesSigned, DecidesUnsigned, beq, blt, ble, bcs, bls
<1> QED BY <1>6, <1>10

\* Loads, stores and the bitwise operations: the sign of the value, and C as it was.
LEMMA LoadDecides ==
  ASSUME NEW flags \in Ccr, NEW w \in Widths, NEW v \in Number(w)
  PROVE  LET f == bittest(flags, w, v)
         IN  f \in Ccr /\ f.C = flags.C /\ DecidesSigned(f, Signed(w, v))
<1> DEFINE h == Half(w)  g == setnz(flags, w, v)
<1>1. h \in Nat \ {0} /\ Number(w) = 0 .. 2 * h - 1
  BY Powers, Numbers
<1>2. v \in 0 .. 2 * h - 1 /\ v \in 0 .. 4 * h - 1
  <2> HIDE DEF h
  <2> QED BY <1>1
<1>3. /\ Bit(v, w - 1) = IF v < h THEN 0 ELSE 1
      /\ v % 2^w = v
      /\ Signed(w, v) = IF v < h THEN v ELSE v - 2 * h
  BY Numbers, Zenon
<1>4. g \in Ccr /\ g.C = flags.C /\ g.N = Bit(v, w - 1) /\ g.Z = flag(v % 2^w = 0)
  BY <1>2, NzFlags, Zenon
<1>5. bittest(flags, w, v) = [g EXCEPT !.V = 0]
  BY Zenon DEF bittest
<1> HIDE DEF g, h
<1>6. LET f == [g EXCEPT !.V = 0]
      IN  f \in Ccr /\ f.N = g.N /\ f.Z = g.Z /\ f.V = 0 /\ f.C = g.C
  BY <1>4 DEF Ccr
<1>7. g.N = (IF v < h THEN 0 ELSE 1) /\ g.Z = IF v = 0 THEN 1 ELSE 0
  BY <1>3, <1>4 DEF flag
<1>8. LET f == [g EXCEPT !.V = 0]
      IN  f \in Ccr /\ f.C = flags.C /\ DecidesSigned(f, Signed(w, v))
  BY <1>1, <1>2, <1>3, <1>4, <1>6, <1>7 DEF DecidesSigned, beq, blt, ble
<1> QED BY <1>5, <1>8

\* INC and DEC: the sign of the exact result, and C as it was.
LEMMA CountDecides ==
  ASSUME NEW flags \in Ccr, NEW v \in Byte
  PROVE  /\ LET op == incbyte(flags, v)
            IN  /\ op.r \in Byte /\ op.ccr \in Ccr /\ op.ccr.C = flags.C
                /\ DecidesSigned(op.ccr, Signed(BITS, v) + 1)
         /\ LET op == decbyte(flags, v)
            IN  /\ op.r \in Byte /\ op.ccr \in Ccr /\ op.ccr.C = flags.C
                /\ DecidesSigned(op.ccr, Signed(BITS, v) - 1)
<1> DEFINE h == Half(BITS)
           up == (v + 1) % 2^BITS
           down == (v - 1) % 2^BITS
<1>1. /\ h \in Nat \ {0} /\ h > 1 /\ 2^BITS = 2 * h
      /\ Number(BITS) = 0 .. 2 * h - 1 /\ v \in Number(BITS)
  BY Powers, Numbers DEF Widths, Byte
<1>2. /\ up = IF v = 2 * h - 1 THEN 0 ELSE v + 1
      /\ down = IF v = 0 THEN 2 * h - 1 ELSE v - 1
  <2> HIDE DEF h, up, down
  <2>1. CASE v = 0
    BY <1>1, <2>1 DEF up, down
  <2>2. CASE v = 2 * h - 1
    <3>1. v + 1 = 2 * h /\ (2 * h) % (2 * h) = 0
      BY <1>1, <2>2
    <3>2. up = 0
      BY <1>1, <3>1, Zenon DEF up
    <3>3. v - 1 \in 0 .. 2 * h - 1 /\ v # 0
      BY <1>1, <2>2
    <3>4. down = v - 1
      BY <1>1, <3>3 DEF down
    <3> QED BY <2>2, <3>2, <3>3, <3>4, Zenon
  <2>3. CASE v # 0 /\ v # 2 * h - 1
    <3>1. v + 1 \in 0 .. 2 * h - 1 /\ v - 1 \in 0 .. 2 * h - 1
      BY <1>1, <2>3
    <3>2. up = v + 1
      BY <1>1, <3>1 DEF up
    <3>3. down = v - 1
      BY <1>1, <3>1 DEF down
    <3> QED BY <2>3, <3>2, <3>3, Zenon
  <2> QED BY <2>1, <2>2, <2>3
<1>3. up \in Number(BITS) /\ down \in Number(BITS)
  <2> HIDE DEF h, up, down
  <2> QED BY <1>1, <1>2
<1>4. Signed(BITS, v) = IF v < h THEN v ELSE v - 2 * h
  BY <1>1, Numbers, Zenon DEF Widths
<1>5. 2^(BITS - 1) = h
  BY Zenon DEF Half
<1> HIDE DEF h, up, down
<1>6. ASSUME NEW n \in Number(BITS), NEW o \in BOOLEAN
      PROVE  LET f == [setnz(flags, BITS, n) EXCEPT !.V = flag(o)]
             IN  /\ f \in Ccr /\ f.C = flags.C /\ f.N = (IF n < h THEN 0 ELSE 1)
                 /\ f.Z = (IF n = 0 THEN 1 ELSE 0) /\ f.V = IF o THEN 1 ELSE 0
  <2>1. n \in 0 .. 4 * Half(BITS) - 1 /\ BITS \in Widths
    BY <1>1 DEF Widths, h
  <2>2. Bit(n, BITS - 1) = (IF n < h THEN 0 ELSE 1) /\ n % 2^BITS = n
    BY <2>1, Numbers, Zenon DEF h
  <2> DEFINE g == setnz(flags, BITS, n)
  <2>3. g \in Ccr /\ g.C = flags.C /\ g.N = Bit(n, BITS - 1) /\ g.Z = flag(n % 2^BITS = 0)
    BY <2>1, NzFlags, Zenon
  <2>4. flag(o) = (IF o THEN 1 ELSE 0) /\ flag(n = 0) = IF n = 0 THEN 1 ELSE 0
    BY DEF flag
  <2> HIDE DEF g
  <2>5. LET f == [g EXCEPT !.V = flag(o)]
        IN  f \in Ccr /\ f.N = g.N /\ f.Z = g.Z /\ f.V = flag(o) /\ f.C = g.C
    BY <2>3, <2>4 DEF Ccr
  <2> QED BY <2>2, <2>3, <2>4, <2>5 DEF g
<1>7. /\ incbyte(flags, v).r = up
      /\ incbyte(flags, v).ccr = [setnz(flags, BITS, up) EXCEPT !.V = flag(v = 2^(BITS - 1) - 1)]
      /\ decbyte(flags, v).r = down
      /\ decbyte(flags, v).ccr = [setnz(flags, BITS, down) EXCEPT !.V = flag(v = 2^(BITS - 1))]
  BY DEF incbyte, decbyte, up, down
<1>8. LET f == incbyte(flags, v).ccr
      IN  /\ f \in Ccr /\ f.C = flags.C /\ f.N = (IF up < h THEN 0 ELSE 1)
          /\ f.Z = (IF up = 0 THEN 1 ELSE 0) /\ f.V = IF v = h - 1 THEN 1 ELSE 0
  <2> DEFINE o == v = h - 1  f == [setnz(flags, BITS, up) EXCEPT !.V = flag(o)]
  <2>1. o \in BOOLEAN
    OBVIOUS
  <2>2. incbyte(flags, v).ccr = f
    BY <1>5, <1>7
  <2> HIDE DEF o
  <2>3. /\ f \in Ccr /\ f.C = flags.C /\ f.N = (IF up < h THEN 0 ELSE 1)
        /\ f.Z = (IF up = 0 THEN 1 ELSE 0) /\ f.V = IF o THEN 1 ELSE 0
    BY <1>3, <1>6, <2>1
  <2> HIDE DEF f
  <2> QED BY <2>2, <2>3 DEF o
<1>9. LET f == decbyte(flags, v).ccr
      IN  /\ f \in Ccr /\ f.C = flags.C /\ f.N = (IF down < h THEN 0 ELSE 1)
          /\ f.Z = (IF down = 0 THEN 1 ELSE 0) /\ f.V = IF v = h THEN 1 ELSE 0
  <2> DEFINE o == v = h  f == [setnz(flags, BITS, down) EXCEPT !.V = flag(o)]
  <2>1. o \in BOOLEAN
    OBVIOUS
  <2>2. decbyte(flags, v).ccr = f
    BY <1>5, <1>7
  <2> HIDE DEF o
  <2>3. /\ f \in Ccr /\ f.C = flags.C /\ f.N = (IF down < h THEN 0 ELSE 1)
        /\ f.Z = (IF down = 0 THEN 1 ELSE 0) /\ f.V = IF o THEN 1 ELSE 0
    BY <1>3, <1>6, <2>1
  <2> HIDE DEF f
  <2> QED BY <2>2, <2>3 DEF o
<1>10. DecidesSigned(incbyte(flags, v).ccr, Signed(BITS, v) + 1)
  BY <1>1, <1>2, <1>4, <1>8 DEF DecidesSigned, beq, blt, ble
<1>11. DecidesSigned(decbyte(flags, v).ccr, Signed(BITS, v) - 1)
  <2>1. CASE v = 0
    BY <1>1, <1>2, <1>4, <1>9, <2>1 DEF DecidesSigned, beq, blt, ble
  <2>2. CASE v # 0 /\ v < h
    BY <1>1, <1>2, <1>4, <1>9, <2>2 DEF DecidesSigned, beq, blt, ble
  <2>3. CASE v >= h
    BY <1>1, <1>2, <1>4, <1>9, <2>3 DEF DecidesSigned, beq, blt, ble
  <2> QED BY <1>1, <2>1, <2>2, <2>3
<1> QED BY <1>3, <1>7, <1>8, <1>9, <1>10, <1>11 DEF Byte

\* COM: the sign of the complement.  CLR: zero equals zero.
LEMMA ComplementDecides ==
  ASSUME NEW flags \in Ccr, NEW v \in Byte
  PROVE  /\ LET op == combyte(flags, v)
            IN  op.r \in Byte /\ op.ccr \in Ccr /\ DecidesSigned(op.ccr, Signed(BITS, op.r))
         /\ 0 \in Byte /\ clrbyte(flags) \in Ccr
         /\ DecidesSigned(clrbyte(flags), 0) /\ DecidesUnsigned(clrbyte(flags), 0)
<1> DEFINE r == 2^BITS - 1 - v  g == bittest(flags, BITS, r)
<1>1. BITS \in Widths /\ Number(BITS) = 0 .. 2 * Half(BITS) - 1 /\ 2^BITS = 2 * Half(BITS)
      /\ Half(BITS) \in Nat \ {0}
  BY Powers, Numbers DEF Widths
<1>2. r \in Number(BITS) /\ 0 \in Number(BITS)
  BY <1>1 DEF Byte
<1>3. g \in Ccr /\ DecidesSigned(g, Signed(BITS, r))
  BY <1>1, <1>2, LoadDecides, Zenon
<1>4. combyte(flags, v).r = r /\ combyte(flags, v).ccr = [g EXCEPT !.C = 1]
  BY DEF combyte
<1> HIDE DEF g, r
<1>5. LET f == [g EXCEPT !.C = 1]
      IN  f \in Ccr /\ f.N = g.N /\ f.Z = g.Z /\ f.V = g.V
  BY <1>3 DEF Ccr
<1>6. DecidesSigned([g EXCEPT !.C = 1], Signed(BITS, r))
  BY <1>3, <1>5, Zenon DEF DecidesSigned, beq, blt, ble
<1>7. /\ clrbyte(flags) \in Ccr /\ clrbyte(flags).N = 0 /\ clrbyte(flags).Z = 1
      /\ clrbyte(flags).V = 0 /\ clrbyte(flags).C = 0
  BY DEF clrbyte, Ccr
<1>8. DecidesSigned(clrbyte(flags), 0) /\ DecidesUnsigned(clrbyte(flags), 0)
  BY <1>7 DEF DecidesSigned, DecidesUnsigned, beq, blt, ble, bcs, bls
<1> QED BY <1>2, <1>4, <1>5, <1>6, <1>7, <1>8, Zenon DEF Byte

LEMMA ShiftedFields ==
  ASSUME NEW flags \in Ccr, NEW w \in Widths, NEW n \in Number(w), NEW c \in {0, 1}
  PROVE  LET op == shifted(flags, w, n, c)
         IN  op.r = n /\ op.ccr \in Ccr /\ op.ccr.C = c
<1> DEFINE g == setnz(flags, w, n)  v == (Bit(n, w - 1) + c) % 2
<1>1. n \in 0 .. 4 * Half(w) - 1
  BY Numbers, Powers
<1>2. g \in Ccr
  BY <1>1, NzFlags, Zenon
<1>3. v \in {0, 1}
  <2>1. Bit(n, w - 1) \in {0, 1}
    BY Numbers
  <2> QED BY <2>1
<1>4. shifted(flags, w, n, c) = [r |-> n, ccr |-> [g EXCEPT !.V = v, !.C = c]]
  BY Zenon DEF shifted
<1> HIDE DEF g, v
<1>5. LET f == [g EXCEPT !.V = v, !.C = c]
      IN  f \in Ccr /\ f.C = c
  BY <1>2, <1>3 DEF Ccr
<1>6. LET op == shifted(flags, w, n, c)
      IN  op.r = n /\ op.ccr = [g EXCEPT !.V = v, !.C = c]
  BY <1>4
<1> QED BY <1>5, <1>6, Zenon

\* A shift to the left doubles: with the bit shifted out it is exact.
LEMMA LeftExact ==
  ASSUME NEW flags \in Ccr, NEW w \in Widths, NEW v \in Number(w), NEW b \in {0, 1}
  PROVE  LET op == shl(flags, w, v, b)
         IN  op.ccr \in Ccr /\ op.r \in Number(w) /\ op.r + op.ccr.C * 2^w = v + v + b
<1> DEFINE h == Half(w)  r == ((v * 2) % 2^w) + b  c == Bit(v, w - 1)
<1>1. h \in Nat \ {0} /\ 2^w = 2 * h /\ Number(w) = 0 .. 2 * h - 1
  BY Powers, Numbers
<1>2. c = IF v < h THEN 0 ELSE 1
  BY Numbers, Zenon
<1>3. (v * 2) % 2^w = IF v < h THEN v * 2 ELSE v * 2 - 2 * h
  <2>1. v * 2 \in 0 .. 4 * h - 1
    <3> HIDE DEF h
    <3> QED BY <1>1
  <2>2. (v * 2) % 2^w = IF v * 2 < 2 * h THEN v * 2 ELSE v * 2 - 2 * h
    BY <2>1, SignBits, Zenon
  <2> HIDE DEF h
  <2> QED BY <1>1, <2>2
<1>4. shl(flags, w, v, b) = shifted(flags, w, r, c)
  BY Zenon DEF shl
<1> HIDE DEF h, c
<1>5. r \in Number(w) /\ r + c * 2^w = v + v + b /\ c \in {0, 1}
  <2> DEFINE shiftedout == c * 2^w  kept == (v * 2) % 2^w
  <2>1. /\ shiftedout = IF v < h THEN 0 ELSE 2 * h
        /\ kept = IF v < h THEN v * 2 ELSE v * 2 - 2 * h
    <3>1. 0 * 2^w = 0 /\ 1 * 2^w = 2 * h
      BY <1>1
    <3>2. CASE v < h
      BY <1>2, <1>3, <3>1, <3>2, Zenon
    <3>3. CASE ~(v < h)
      BY <1>2, <1>3, <3>1, <3>3, Zenon
    <3> QED BY <3>2, <3>3, Zenon
  <2> HIDE DEF shiftedout, kept
  <2>2. kept + b \in Number(w) /\ kept + b + shiftedout = v + v + b /\ c \in {0, 1}
    BY <1>1, <1>2, <2>1
  <2> QED BY <2>2 DEF shiftedout, kept
<1> HIDE DEF r
<1> QED BY <1>4, <1>5, ShiftedFields

\* A shift to the right halves: with the bit shifted out it is exact, also of a signed number.
LEMMA RightExact ==
  ASSUME NEW flags \in Ccr, NEW w \in Widths, NEW v \in Number(w), NEW b \in {0, 1}
  PROVE  LET op == shr(flags, w, v, b)
         IN  /\ op.ccr \in Ccr /\ op.r \in Number(w)
             /\ 2 * op.r + op.ccr.C = v + b * 2^w
             /\ b = Bit(v, w - 1) => 2 * Signed(w, op.r) + op.ccr.C = Signed(w, v)
<1> DEFINE h == Half(w)  r == v \div 2 + b * 2^(w - 1)  c == Bit(v, 0)
<1>1. h \in Nat \ {0} /\ 2^w = 2 * h /\ 2^(w - 1) = h /\ Number(w) = 0 .. 2 * h - 1
  BY Powers, Numbers DEF Half
<1>2. c = v % 2
  <2>1. 2^0 = 1 /\ v \in Nat
    BY Numbers
  <2> QED BY <2>1 DEF Bit
<1>3. shr(flags, w, v, b) = shifted(flags, w, r, c)
  BY Zenon DEF shr
<1>4. /\ Bit(v, w - 1) = IF v < h THEN 0 ELSE 1
      /\ Signed(w, v) = IF v < h THEN v ELSE v - 2 * h
  BY Numbers, Zenon
<1> HIDE DEF h, c
<1>5. r \in Number(w) /\ 2 * r + c = v + b * 2^w /\ c \in {0, 1} /\ r \in Int
  <2> DEFINE bit == b * 2^w  top == b * 2^(w - 1)  half == v \div 2
  <2>1. v = 2 * half + (v % 2) /\ v % 2 \in {0, 1} /\ half \in Nat
    BY <1>1
  <2>2. top \in {0, h} /\ bit = 2 * top
    BY <1>1
  <2> HIDE DEF bit, top, half
  <2>3. v = 2 * half + c /\ c \in {0, 1} /\ c \in Int
    BY <1>2, <2>1
  <2>4. half \in 0 .. h - 1
    BY <1>1, <2>1, <2>3
  <2>5. half + top \in Number(w) /\ half + top \in Int
    BY <1>1, <2>2, <2>4
  <2>6. 2 * (half + top) + c = v + bit
    BY <1>1, <2>2, <2>3, <2>4
  <2> QED BY <2>3, <2>5, <2>6 DEF bit, top, half
<1> HIDE DEF r
<1>6. Signed(w, r) = IF r < h THEN r ELSE r - 2 * h
  BY <1>5, Numbers, Zenon DEF h
<1>7. b = Bit(v, w - 1) => 2 * Signed(w, r) + c = Signed(w, v)
  <2>1. CASE v < h
    <3>1. b = Bit(v, w - 1) => b * 2^w = 0
      BY <1>1, <1>4, <2>1
    <3> QED BY <1>1, <1>4, <1>5, <1>6, <2>1, <3>1
  <2>2. CASE ~(v < h)
    <3>1. b = Bit(v, w - 1) => b * 2^w = 2 * h
      BY <1>1, <1>4, <2>2
    <3> QED BY <1>1, <1>4, <1>5, <1>6, <2>2, <3>1
  <2> QED BY <2>1, <2>2
<1>8. LET op == shifted(flags, w, r, c)
      IN  op.r = r /\ op.ccr \in Ccr /\ op.ccr.C = c
  BY <1>5, ShiftedFields, Zenon
<1> QED BY <1>3, <1>5, <1>7, <1>8

\* Bytes are numbers below 2^BITS.
LEMMA Bytes ==
  /\ BITS \in Widths /\ WORD \in Widths /\ 2^BITS \in Nat /\ 2^WORD \in Nat
  /\ \A n \in Byte : n \in Nat /\ n \in Int
  /\ \A n \in Word : n \in Nat /\ n \in Int
  /\ 0 \in Byte /\ 0 \in Word
<1>1. BITS \in Widths /\ WORD \in Widths
  BY DEF Widths
<1>2. \A w \in Widths : /\ 2^w \in Nat /\ 0 \in Number(w)
                          /\ \A n \in Number(w) : n \in Nat /\ n \in Int
  BY Powers, Numbers
<1> QED BY <1>1, <1>2, Zenon DEF Byte, Word

-----------------------------------------------------------------------------
(* Products and quotients.                                                 *)

LEMMA ProductsOrdered ==
  ASSUME NEW a \in Nat, NEW b \in Int, NEW c \in Int, b <= c
  PROVE  a * b <= a * c
  OBVIOUS

\* What A and B hold together, and a number of two bytes in them.
LEMMA TwoBytes ==
  /\ \A high, low \in Byte : high * 2^BITS + low \in Word
  /\ \A n \in Word : /\ (n \div 2^BITS) % 2^BITS = n \div 2^BITS
                     /\ n \div 2^BITS \in Byte /\ n % 2^BITS \in Byte
                     /\ (n \div 2^BITS) * 2^BITS + (n % 2^BITS) = n
<1> DEFINE B == 2^BITS
<1>1. B \in Nat \ {0} /\ 2^WORD = B * B
  BY Powers DEF Widths
<1>2. Byte = 0 .. B - 1 /\ Word = 0 .. B * B - 1
  BY <1>1 DEF Byte, Word, Number
<1> HIDE DEF B
<1>3. ASSUME NEW high \in Byte, NEW low \in Byte
      PROVE  high * B + low \in Word
  <2>1. high * B <= (B - 1) * B /\ 0 <= high * B
    BY <1>1, <1>2
  <2> QED BY <1>1, <1>2, <2>1
<1>4. ASSUME NEW n \in Word
      PROVE  /\ (n \div B) % B = n \div B
             /\ n \div B \in Byte /\ n % B \in Byte
             /\ (n \div B) * B + (n % B) = n
  <2>1. n \in Nat /\ n < B * B
    BY <1>1, <1>2
  <2>2. n = B * (n \div B) + (n % B) /\ n % B \in 0 .. B - 1 /\ n \div B \in Nat
    BY <1>1, <2>1
  <2> DEFINE q == n \div B
  <2>3. q < B
    <3>1. SUFFICES ASSUME q >= B PROVE FALSE
      BY <1>1, <2>2
    <3>2. q \in Nat
      BY <2>2
    <3> HIDE DEF q
    <3>3. B * B <= B * q
      BY <1>1, <3>1, <3>2, ProductsOrdered
    <3>4. n = B * q + (n % B)
      BY <2>2, Zenon DEF q
    <3> QED BY <1>1, <2>1, <2>2, <3>2, <3>3, <3>4
  <2>4. q % B = q
    <3>1. q \in Nat
      BY <2>2
    <3> HIDE DEF q
    <3> QED BY <1>1, <2>3, <3>1
  <2> QED BY <1>1, <1>2, <2>2, <2>3, <2>4
<1> QED BY <1>3, <1>4 DEF B

\* MUL: C is the bit below the high byte of the product, and there is room above it.
LEMMA ProductHalves ==
  ASSUME NEW a \in Byte, NEW b \in Byte
  PROVE  /\ a * b \in Word /\ (a * b) \div 2^BITS < 2^BITS - 1
         /\ Bit(a * b, BITS - 1) \in {0, 1}
         /\ (a * b) \div 2^BITS + Bit(a * b, BITS - 1) = (a * b + 2^(BITS - 1)) \div 2^BITS
<1> DEFINE h == 2^(BITS - 1)  B == 2^BITS  p == a * b
<1>1. h \in Nat \ {0} /\ h > 1 /\ B = 2 * h /\ Byte = 0 .. B - 1 /\ Word = 0 .. B * B - 1
  <2>1. h \in Nat \ {0} /\ h > 1 /\ B = 2 * h
    BY Powers DEF Widths, Half
  <2>2. 2^WORD = B * B
    BY Powers
  <2> QED BY <2>1, <2>2 DEF Byte, Word, Number
<1> HIDE DEF h, B
<1>2. p \in 0 .. (B - 1) * (B - 1)
  BY <1>1
<1>3. Bit(p, BITS - 1) = (p \div h) % 2
  BY Zenon DEF Bit, h
<1> HIDE DEF p
<1> DEFINE q == p \div B  l == p % B
<1>4. p = B * q + l /\ l \in 0 .. B - 1 /\ q \in Nat
  BY <1>1, <1>2
<1>5. p \in 0 .. B * B - 1
  BY <1>1, <1>2
<1>6. q < B - 1
  <2> HIDE DEF q, l
  <2>1. SUFFICES ASSUME q >= B - 1 PROVE FALSE
    BY <1>1, <1>4
  <2>2. B * (B - 1) <= B * q
    BY <1>1, <1>4, <2>1, ProductsOrdered
  <2>3. B * (B - 1) > (B - 1) * (B - 1)
    BY <1>1
  <2> QED BY <1>1, <1>2, <1>4, <2>2, <2>3
<1> HIDE DEF q, l
<1>7. ASSUME NEW c \in {0, 1}, p \div h = 2 * q + c, (p + h) \div B = q + c
      PROVE  /\ p \in Word /\ q < B - 1
             /\ Bit(p, BITS - 1) \in {0, 1}
             /\ q + Bit(p, BITS - 1) = (p + h) \div B
  BY <1>1, <1>3, <1>4, <1>5, <1>6, <1>7
<1>8. CASE l < h
  <2>1. p = h * (2 * q) + l
    BY <1>1, <1>4
  <2>2. p \div h = 2 * q
    BY <1>1, <1>4, <1>8, <2>1
  <2>3. p + h = B * q + (l + h) /\ l + h \in 0 .. B - 1
    BY <1>1, <1>4, <1>8
  <2>4. (p + h) \div B = q
    BY <1>1, <1>4, <2>3
  <2>5. 2 * q = 2 * q + 0 /\ q = q + 0
    BY <1>4
  <2> QED BY <1>7, <2>2, <2>4, <2>5 DEF q, h, B, p
<1>9. CASE ~(l < h)
  <2>1. p = h * (2 * q + 1) + (l - h) /\ l - h \in 0 .. h - 1
    BY <1>1, <1>4, <1>9
  <2>2. p \div h = 2 * q + 1
    BY <1>1, <1>4, <2>1
  <2>3. p + h = B * (q + 1) + (l - h) /\ l - h \in 0 .. B - 1
    BY <1>1, <1>4, <1>9
  <2>4. (p + h) \div B = q + 1
    BY <1>1, <1>4, <2>3
  <2> QED BY <1>7, <2>2, <2>4 DEF q, h, B, p
<1> QED BY <1>8, <1>9

-----------------------------------------------------------------------------
(* The inductive invariant.  A product is followed so far as ADCA #0 needs *)
(* it, and a quotient with its remainder, which is in D as long as the     *)
(* chain lasts.                                                            *)

\* What holds of a chain k, with the flags and with D.
ChainHolds(k, flags, d) ==
  /\ k.kind = "sum" => k.r + flags.C * k.weight = k.x + k.y
  /\ k.kind = "difference" => k.r - flags.C * k.weight = k.x - k.y
  /\ k.kind = "half" => 2 * k.r + flags.C = k.x
  /\ k.kind = "quotient" => k.x * k.weight - k.y * k.r = d /\ d < k.y
  /\ k.kind = "product" => /\ k.x \in Byte /\ k.y \in Byte /\ k.r = k.x * k.y
                           /\ flags.C = Bit(k.r, BITS - 1)
  /\ k.kind = "rounded" => k.r = (k.x * k.y + 2^(BITS - 1)) \div 2^BITS

\* What holds of a test t with the flags.
TestHolds(t, flags) ==
  /\ t.kind # "none" => DecidesSigned(flags, t.signed)
  /\ t.kind = "both" => DecidesUnsigned(flags, t.unsigned)

Chains == [kind : {"none", "sum", "difference", "half", "product", "rounded", "quotient"},
           n : Nat, weight : Nat, x : Int, y : Int, r : Int]

ArithmeticTypeOK ==
  /\ build \in {"6811", "6805"}
  /\ acc \in [Acc -> Byte]
  /\ ccr \in Ccr
  /\ chain \in Chains

ArithmeticInv ==
  /\ ArithmeticTypeOK
  /\ ChainHolds(chain, ccr, accd)
  /\ TestHolds(test, ccr)

\* D as a number of two bytes.
LEMMA AccdTyped ==
  ASSUME ArithmeticTypeOK
  PROVE  /\ acc["A"] \in Byte /\ acc["B"] \in Byte /\ accd \in Word /\ Word = Number(WORD)
         /\ Byte = Number(BITS) /\ accd \in Nat
<1>1. acc["A"] \in Byte /\ acc["B"] \in Byte
  BY DEF ArithmeticTypeOK, Acc
<1>2. accd \in Word
  BY <1>1, TwoBytes, Zenon DEF accd
<1>3. accd \in Nat
  BY <1>2, Numbers, Zenon DEF Word, Widths
<1> QED BY <1>1, <1>2, <1>3 DEF Byte, Word

\* Flags but for H are what chains and tests hold of.
LEMMA FlagsAlike ==
  ASSUME NEW k, NEW t, NEW f, NEW g, NEW d,
         g.N = f.N, g.Z = f.Z, g.V = f.V, g.C = f.C
  PROVE  /\ ChainHolds(k, f, d) => ChainHolds(k, g, d)
         /\ TestHolds(t, f) => TestHolds(t, g)
  BY Zenon DEF ChainHolds, TestHolds, DecidesSigned, DecidesUnsigned, beq, blt, ble, bcs, bls

\* Only a quotient has anything to do with D.
LEMMA AnyD ==
  ASSUME NEW k, NEW f, NEW c, NEW d, k.kind # "quotient", ChainHolds(k, f, c)
  PROVE  ChainHolds(k, f, d)
  BY Zenon DEF ChainHolds

\* An instruction that sets an accumulator, or memory, and flags.
LEMMA SetsStep ==
  ASSUME ArithmeticInv, UNCHANGED build, NEW t \in Target, NEW op, sets(t, op),
         op.r \in Byte, op.ccr \in Ccr,
         chain' \in Chains, chain'.kind # "quotient", ChainHolds(chain', op.ccr, 0),
         TestHolds(test', op.ccr)
  PROVE  ArithmeticInv'
<1> DEFINE f == op.ccr
<1>1. ccr' = [f EXCEPT !.H = 0] /\ f \in Ccr
  BY DEF sets
<1> HIDE DEF f
<1>2. ccr' \in Ccr /\ ccr'.N = f.N /\ ccr'.Z = f.Z /\ ccr'.V = f.V /\ ccr'.C = f.C
  BY <1>1 DEF Ccr
<1>3. acc' \in [Acc -> Byte]
  BY DEF sets, ArithmeticInv, ArithmeticTypeOK
<1>4. ChainHolds(chain', ccr', 0) /\ TestHolds(test', ccr')
  BY <1>2, FlagsAlike, Zenon DEF f
<1>5. ChainHolds(chain', ccr', accd')
  BY <1>4, AnyD, Zenon
<1>6. build' \in {"6811", "6805"}
  BY DEF ArithmeticInv, ArithmeticTypeOK
<1> QED BY <1>2, <1>3, <1>4, <1>5, <1>6, Zenon DEF ArithmeticInv, ArithmeticTypeOK

\* One that sets D.
LEMMA SetsDStep ==
  ASSUME ArithmeticInv, UNCHANGED build, NEW op, sets_d(op),
         op.r \in Word, op.ccr \in Ccr,
         chain' \in Chains, ChainHolds(chain', op.ccr, op.r), TestHolds(test', op.ccr)
  PROVE  ArithmeticInv'
<1>1. /\ acc' = [A |-> (op.r \div 2^BITS) % 2^BITS, B |-> op.r % 2^BITS]
      /\ ccr' = op.ccr
  BY DEF sets_d
<1> DEFINE n == op.r  high == (n \div 2^BITS) % 2^BITS  low == n % 2^BITS
<1>2. high \in Byte /\ low \in Byte /\ high * 2^BITS + low = n
  BY TwoBytes
<1> HIDE DEF n, high, low
<1>3. acc' = [A |-> high, B |-> low]
  BY <1>1 DEF n, high, low
<1>4. acc' \in [Acc -> Byte] /\ acc'["A"] = high /\ acc'["B"] = low
  BY <1>2, <1>3 DEF Acc
<1>5. accd' = op.r
  BY <1>2, <1>4 DEF accd, n
<1>6. build' \in {"6811", "6805"}
  BY DEF ArithmeticInv, ArithmeticTypeOK
<1> QED BY <1>1, <1>4, <1>5, <1>6, Zenon DEF ArithmeticInv, ArithmeticTypeOK

\* One that sets flags only.
LEMMA FlagsStep ==
  ASSUME ArithmeticInv, UNCHANGED <<build, acc>>,
         ccr' \in Ccr, chain' \in Chains, ChainHolds(chain', ccr', accd), TestHolds(test', ccr')
  PROVE  ArithmeticInv'
<1>1. accd' = accd
  BY DEF accd
<1> QED BY <1>1 DEF ArithmeticInv, ArithmeticTypeOK

-----------------------------------------------------------------------------
(* Chains begun, extended and kept; tests.                                 *)

LEMMA NoChainHolds ==
  ASSUME NEW f, NEW d
  PROVE  NoChain \in Chains /\ NoChain.kind = "none" /\ ChainHolds(NoChain, f, d)
<1>1. NoChain \in Chains /\ NoChain.kind = "none"
  BY DEF NoChain, Chain, Chains
<1> QED BY <1>1 DEF ChainHolds

LEMMA NewChainHolds ==
  ASSUME NEW kind \in {"sum", "difference", "half"}, NEW n \in Nat, NEW weight \in Nat,
         NEW x \in Int, NEW y \in Int, NEW r \in Int, NEW f, NEW d,
         kind = "sum" => r + f.C * weight = x + y,
         kind = "difference" => r - f.C * weight = x - y,
         kind = "half" => 2 * r + f.C = x
  PROVE  LET k == Chain(kind, n, weight, x, y, r)
         IN  k \in Chains /\ k.kind # "quotient" /\ ChainHolds(k, f, d)
<1> DEFINE k == Chain(kind, n, weight, x, y, r)
<1>1. /\ k \in Chains /\ k.kind = kind /\ k.weight = weight
      /\ k.x = x /\ k.y = y /\ k.r = r
  BY DEF Chain, Chains
<1> HIDE DEF k
<1>2. k \in Chains /\ k.kind # "quotient"
  BY <1>1
<1>3. ChainHolds(k, f, d)
  BY <1>1 DEF ChainHolds
<1> QED BY <1>2, <1>3 DEF k

LEMMA ExtendedHolds ==
  ASSUME ArithmeticInv, NEW kind \in {"sum", "difference"},
         NEW x \in Byte, NEW y \in Byte, NEW r \in Byte, NEW f \in Ccr, NEW d,
         kind = "sum" => r + f.C * 2^BITS = x + y + ccr.C,
         kind = "difference" => r - f.C * 2^BITS = x - y - ccr.C
  PROVE  LET k == Extended(kind, x, y, r)
         IN  k \in Chains /\ k.kind # "quotient" /\ ChainHolds(k, f, d)
<1>1. CASE ~Continues(kind)
  <2>1. Extended(kind, x, y, r) = NoChain
    BY <1>1 DEF Extended
  <2> QED BY <2>1, NoChainHolds
<1>2. CASE Continues(kind)
  <2> DEFINE w == chain.weight  B == 2^BITS  weight == w * B
             x2 == chain.x + x * w  y2 == chain.y + y * w  r2 == chain.r + r * w
  <2>1. /\ w \in Nat /\ chain.n \in Nat
        /\ chain.x \in Int /\ chain.y \in Int /\ chain.r \in Int
    BY DEF ArithmeticInv, ArithmeticTypeOK, Chains
  <2>2. B \in Nat /\ x \in Nat /\ y \in Nat /\ r \in Nat
    BY Bytes
  <2>3. f.C \in {0, 1} /\ ccr.C \in {0, 1}
    BY FlagFields DEF ArithmeticInv, ArithmeticTypeOK
  <2>4. chain.kind = kind
    BY <1>2 DEF Continues
  <2>5. /\ kind = "sum" => chain.r + ccr.C * w = chain.x + chain.y
        /\ kind = "difference" => chain.r - ccr.C * w = chain.x - chain.y
    BY <2>4 DEF ArithmeticInv, ChainHolds
  <2> HIDE DEF w, B
  <2>6. /\ weight \in Nat /\ chain.n + 1 \in Nat /\ x2 \in Int /\ y2 \in Int /\ r2 \in Int
    BY <2>1, <2>2
  <2>7. ASSUME kind = "sum"
        PROVE  r2 + f.C * weight = x2 + y2
    <3>1. r + f.C * B = x + y + ccr.C
      BY <2>7 DEF B
    <3>2. (r + f.C * B) * w = (x + y + ccr.C) * w
      BY <3>1
    <3>3. (r + f.C * B) * w = r * w + f.C * weight
      BY <2>1, <2>2, <2>3
    <3>4. (x + y + ccr.C) * w = x * w + y * w + ccr.C * w
      BY <2>1, <2>2, <2>3
    <3> DEFINE rw == r * w  xw == x * w  yw == y * w  cw == ccr.C * w  carry == f.C * weight
    <3>5. /\ rw \in Int /\ xw \in Int /\ yw \in Int /\ cw \in Int /\ carry \in Int
          /\ r2 = chain.r + rw /\ x2 = chain.x + xw /\ y2 = chain.y + yw
      BY <2>1, <2>2, <2>3
    <3>6. rw + carry = xw + yw + cw
      BY <3>2, <3>3, <3>4
    <3>7. chain.r + cw = chain.x + chain.y
      BY <2>5, <2>7
    <3> HIDE DEF rw, xw, yw, cw, carry, x2, y2, r2
    <3>8. r2 + carry = x2 + y2
      BY <2>1, <3>5, <3>6, <3>7
    <3> QED BY <3>8 DEF carry
  <2>8. ASSUME kind = "difference"
        PROVE  r2 - f.C * weight = x2 - y2
    <3>1. r - f.C * B = x - y - ccr.C
      BY <2>8 DEF B
    <3>2. (r - f.C * B) * w = (x - y - ccr.C) * w
      BY <3>1
    <3>3. (r - f.C * B) * w = r * w - f.C * weight
      BY <2>1, <2>2, <2>3
    <3>4. (x - y - ccr.C) * w = x * w - y * w - ccr.C * w
      BY <2>1, <2>2, <2>3
    <3> DEFINE rw == r * w  xw == x * w  yw == y * w  cw == ccr.C * w  carry == f.C * weight
    <3>5. /\ rw \in Int /\ xw \in Int /\ yw \in Int /\ cw \in Int /\ carry \in Int
          /\ r2 = chain.r + rw /\ x2 = chain.x + xw /\ y2 = chain.y + yw
      BY <2>1, <2>2, <2>3
    <3>6. rw - carry = xw - yw - cw
      BY <3>2, <3>3, <3>4
    <3>7. chain.r - cw = chain.x - chain.y
      BY <2>5, <2>8
    <3> HIDE DEF rw, xw, yw, cw, carry, x2, y2, r2
    <3>8. r2 - carry = x2 - y2
      <4>1. chain.x \in Int /\ chain.y \in Int /\ chain.r \in Int
        BY <2>1
      <4>2. r2 - carry = chain.r + (xw - yw - cw)
        BY <4>1, <3>5, <3>6
      <4> QED BY <4>1, <4>2, <3>5, <3>7
    <3> QED BY <3>8 DEF carry
  <2>9. Extended(kind, x, y, r) = Chain(kind, chain.n + 1, weight, x2, y2, r2)
    BY <1>2, Zenon DEF Extended, w, B
  <2> HIDE DEF x2, y2, r2, weight
  <2>10. kind = "half" => 2 * r2 + f.C = x2
    OBVIOUS
  <2> DEFINE k == Chain(kind, chain.n + 1, weight, x2, y2, r2)
  <2>11. /\ k \in Chains /\ k.kind = kind /\ k.weight = weight
         /\ k.x = x2 /\ k.y = y2 /\ k.r = r2
    BY <2>6 DEF Chain, Chains
  <2> HIDE DEF k
  <2>12. ChainHolds(k, f, d)
    BY <2>7, <2>8, <2>10, <2>11 DEF ChainHolds
  <2> QED BY <2>9, <2>11, <2>12 DEF k
<1> QED BY <1>1, <1>2

\* ROR goes on below.
LEMMA ExtendedBelowHolds ==
  ASSUME ArithmeticInv, NEW x \in Byte, NEW r \in Byte, NEW f \in Ccr, NEW d,
         2 * r + f.C = x + ccr.C * 2^BITS
  PROVE  LET k == ExtendedBelow("half", x, r)
         IN  k \in Chains /\ k.kind # "quotient" /\ ChainHolds(k, f, d)
<1>1. CASE ~Continues("half")
  <2>1. ExtendedBelow("half", x, r) = NoChain
    BY <1>1 DEF ExtendedBelow
  <2> QED BY <2>1, NoChainHolds
<1>2. CASE Continues("half")
  <2> DEFINE B == 2^BITS
             weight == chain.weight * B  x2 == chain.x * B + x  r2 == chain.r * B + r
  <2>1. /\ chain.weight \in Nat /\ chain.n \in Nat /\ chain.x \in Int /\ chain.r \in Int
    BY DEF ArithmeticInv, ArithmeticTypeOK, Chains
  <2>2. B \in Nat /\ x \in Nat /\ r \in Nat
    BY Bytes
  <2>3. f.C \in {0, 1} /\ ccr.C \in {0, 1}
    BY FlagFields DEF ArithmeticInv, ArithmeticTypeOK
  <2>4. 2 * chain.r + ccr.C = chain.x
    BY <1>2 DEF Continues, ArithmeticInv, ChainHolds
  <2> HIDE DEF B
  <2>5. weight \in Nat /\ chain.n + 1 \in Nat /\ x2 \in Int /\ r2 \in Int
    BY <2>1, <2>2
  <2>6. 2 * r2 + f.C = x2
    <3> DEFINE rb == chain.r * B  xb == chain.x * B  cb == ccr.C * B
    <3>1. chain.x * B = (2 * chain.r + ccr.C) * B
      BY <2>4
    <3>2. (2 * chain.r + ccr.C) * B = 2 * (chain.r * B) + ccr.C * B
      BY <2>1, <2>2, <2>3
    <3>3. rb \in Int /\ xb \in Int /\ cb \in Int
      BY <2>1, <2>2, <2>3
    <3>4. xb = 2 * rb + cb /\ x2 = xb + x /\ r2 = rb + r
      BY <3>1, <3>2
    <3>5. 2 * r + f.C = x + cb
      BY DEF B
    <3> HIDE DEF rb, xb, cb, x2, r2
    <3> QED BY <2>2, <2>3, <3>3, <3>4, <3>5
  <2>7. ExtendedBelow("half", x, r) = Chain("half", chain.n + 1, weight, x2, 0, r2)
    BY <1>2, Zenon DEF ExtendedBelow, B
  <2> HIDE DEF x2, r2, weight
  <2> DEFINE k == Chain("half", chain.n + 1, weight, x2, 0, r2)
  <2>8. /\ k \in Chains /\ k.kind = "half" /\ k.weight = weight
        /\ k.x = x2 /\ k.y = 0 /\ k.r = r2
    BY <2>5 DEF Chain, Chains
  <2> HIDE DEF k
  <2>9. ChainHolds(k, f, d)
    BY <2>6, <2>8 DEF ChainHolds
  <2> QED BY <2>7, <2>8, <2>9 DEF k
<1> QED BY <1>1, <1>2

\* What leaves C alone keeps the chain; a quotient if it leaves D alone too.
LEMMA KeptHolds ==
  ASSUME ArithmeticInv, NEW f, f.C = ccr.C, NEW d
  PROVE  /\ KeptWithD \in Chains /\ ChainHolds(KeptWithD, f, accd)
         /\ Kept \in Chains /\ Kept.kind # "quotient" /\ ChainHolds(Kept, f, d)
<1>1. chain \in Chains /\ ChainHolds(chain, f, accd)
  BY Zenon DEF ArithmeticInv, ArithmeticTypeOK, ChainHolds
<1>2. KeptWithD \in {chain, NoChain}
  BY DEF KeptWithD
<1>3. Kept = NoChain \/ (Kept = chain /\ chain.kind # "quotient")
  BY <1>2 DEF Kept
<1>4. NoChain \in Chains /\ NoChain.kind = "none" /\ ChainHolds(NoChain, f, accd)
      /\ ChainHolds(NoChain, f, d)
  BY NoChainHolds, Zenon
<1>5. chain.kind # "quotient" => ChainHolds(chain, f, d)
  BY <1>1, AnyD, Zenon
<1> QED BY <1>1, <1>2, <1>3, <1>4, <1>5

LEMMA TestsHold ==
  ASSUME NEW f, NEW w, NEW x, NEW y, NEW s
  PROVE  /\ TestHolds(NoTest, f)
         /\ DecidesSigned(f, Signed(w, x) - Signed(w, y)) /\ DecidesUnsigned(f, x - y)
              => TestHolds(Both(w, x, y), f)
         /\ DecidesSigned(f, s) => TestHolds(OnlySigned(s), f)
<1>1. NoTest.kind = "none"
  BY DEF NoTest
<1>2. /\ Both(w, x, y).kind = "both" /\ Both(w, x, y).unsigned = x - y
      /\ Both(w, x, y).signed = Signed(w, x) - Signed(w, y)
  BY DEF Both
<1>3. OnlySigned(s).kind = "signed" /\ OnlySigned(s).signed = s
  BY DEF OnlySigned
<1> QED BY <1>1, <1>2, <1>3 DEF TestHolds

-----------------------------------------------------------------------------
(* The instructions.                                                       *)

\* A sum of bytes also sets H.
LEMMA ByteSumExact ==
  ASSUME NEW flags \in Ccr, NEW a \in Byte, NEW b \in Byte, NEW c \in {0, 1}
  PROVE  LET op == addbyte(flags, a, b, c)
         IN  op.ccr \in Ccr /\ op.r \in Byte /\ op.r + op.ccr.C * 2^BITS = a + b + c
<1> DEFINE n == a + b + c  x == carry_into(HALF, a, b, n)  f == [flags EXCEPT !.H = x]
<1>1. 2^HALF \in Nat \ {0}
  <2>1. HALF \in {1, 2, 3, 4, 5, 6, 7}
    BY WidthAssumption
  <2>2. \A k \in {1, 2, 3, 4, 5, 6, 7} : 2^k \in Nat \ {0}
    <3>1. 2^1 = 2 /\ 2^2 = 4 /\ 2^3 = 8 /\ 2^4 = 16 /\ 2^5 = 32 /\ 2^6 = 64 /\ 2^7 = 128
      OBVIOUS
    <3>2. /\ 2^1 \in Nat \ {0} /\ 2^2 \in Nat \ {0} /\ 2^3 \in Nat \ {0} /\ 2^4 \in Nat \ {0}
          /\ 2^5 \in Nat \ {0} /\ 2^6 \in Nat \ {0} /\ 2^7 \in Nat \ {0}
      BY <3>1
    <3> QED BY <3>2, Zenon
  <2> QED BY <2>1, <2>2, Zenon
<1>2. a \in Nat /\ b \in Nat /\ n \in Nat
  BY Bytes
<1>3. \A m \in Nat : Bit(m, HALF) \in {0, 1}
  BY <1>1 DEF Bit
<1>4. x \in {0, 1}
  <2> HIDE DEF n
  <2> QED BY <1>2, <1>3 DEF carry_into
<1>5. f \in Ccr
  <2> HIDE DEF x
  <2> QED BY <1>4 DEF Ccr
<1>6. addbyte(flags, a, b, c) = arithmetic(f, BITS, a, b, a + b + c)
  BY Zenon DEF addbyte
<1> HIDE DEF f
<1> QED BY <1>5, <1>6, SumExact, Bytes DEF Byte

\* A difference is exact, and without a borrow going in it is a test.
LEMMA DifferenceTests ==
  ASSUME NEW flags \in Ccr, NEW w \in Widths, NEW x \in Number(w), NEW y \in Number(w),
         NEW c \in {0, 1}
  PROVE  LET op == sub(flags, w, x, y, c)
         IN  /\ op.ccr \in Ccr /\ op.r \in Number(w)
             /\ op.r - op.ccr.C * 2^w = x - y - c
             /\ c = 0 => TestHolds(Both(w, x, y), op.ccr)
             /\ TestHolds(NoTest, op.ccr)
<1> DEFINE op == sub(flags, w, x, y, c)
<1>1. /\ op.ccr \in Ccr /\ op.r \in Number(w)
      /\ op.r - op.ccr.C * 2^w = x - y - c
  BY DifferenceExact, Zenon
<1>2. ASSUME c = 0
      PROVE  /\ DecidesSigned(op.ccr, Signed(w, x) - Signed(w, y))
             /\ DecidesUnsigned(op.ccr, x - y)
  BY <1>2, DifferenceExact, Zenon
<1> HIDE DEF op
<1>3. c = 0 => TestHolds(Both(w, x, y), op.ccr)
  BY <1>2, TestsHold, Zenon
<1>4. TestHolds(NoTest, op.ccr)
  BY TestsHold, Zenon
<1> QED BY <1>1, <1>3, <1>4, Zenon DEF op

\* What the steps have in common.
LEMMA State ==
  ASSUME ArithmeticInv
  PROVE  /\ ccr \in Ccr /\ ccr.C \in {0, 1} /\ \A t \in Acc : acc[t] \in Byte /\ t \in Target
         /\ accd \in Word
  BY AccdTyped, FlagFields DEF ArithmeticInv, ArithmeticTypeOK, Target

\* ADD and ADC: MUL, ADCA #0 rounds.
LEMMA SumSteps ==
  ASSUME ArithmeticInv, UNCHANGED build, NEW t \in Acc, NEW v \in Byte,
         add(t, v) \/ adc(t, v)
  PROVE  ArithmeticInv'
<1> DEFINE a == acc[t]
<1>1. a \in Byte /\ ccr \in Ccr /\ ccr.C \in {0, 1} /\ t \in Target
  BY State
<1>2. test' = NoTest /\ \A f : TestHolds(NoTest, f)
  BY TestsHold DEF add, adc
<1>3. a \in Int /\ v \in Int /\ 2^BITS \in Nat /\ a \in Nat /\ v \in Nat
  BY <1>1, Bytes
<1> HIDE DEF a
<1>4. CASE add(t, v)
  <2> DEFINE op == addbyte(ccr, a, v, 0)
  <2>1. sets(t, op) /\ chain' = ByteChain("sum", a, v, op.r)
    BY <1>4 DEF add, a
  <2>2. op.ccr \in Ccr /\ op.r \in Byte /\ op.r + op.ccr.C * 2^BITS = a + v + 0
    BY <1>1, ByteSumExact
  <2> HIDE DEF op
  <2>3. op.r \in Int /\ op.r + op.ccr.C * 2^BITS = a + v
    <3>1. a + v + 0 = a + v
      BY <1>3
    <3> QED BY <2>2, <3>1, Bytes, Zenon
  <2>4. chain' \in Chains /\ chain'.kind # "quotient" /\ ChainHolds(chain', op.ccr, 0)
    BY <1>3, <2>1, <2>3, NewChainHolds DEF ByteChain
  <2> QED BY <1>1, <1>2, <2>1, <2>2, <2>4, SetsStep
<1>5. CASE adc(t, v)
  <2> DEFINE op == addbyte(ccr, a, v, ccr.C)
             rounds == chain.kind = "product" /\ t = "A" /\ v = 0 /\ accd = chain.r
  <2>1. /\ sets(t, op)
        /\ chain' = IF rounds THEN Chain("rounded", MaxDigits, 2^BITS, chain.x, chain.y, op.r)
                    ELSE Extended("sum", a, v, op.r)
    BY <1>5 DEF adc, a
  <2>2. op.ccr \in Ccr /\ op.r \in Byte /\ op.r + op.ccr.C * 2^BITS = a + v + ccr.C
    BY <1>1, ByteSumExact
  <2> HIDE DEF op
  <2>3. CASE ~rounds
    <3>1. LET k == Extended("sum", a, v, op.r)
          IN  k \in Chains /\ k.kind # "quotient" /\ ChainHolds(k, op.ccr, 0)
      BY <1>1, <2>2, ExtendedHolds
    <3>2. chain' \in Chains /\ chain'.kind # "quotient" /\ ChainHolds(chain', op.ccr, 0)
      BY <2>1, <2>3, <3>1
    <3> QED BY <1>1, <1>2, <2>1, <2>2, <3>2, SetsStep
  <2>4. CASE rounds
    <3> DEFINE p == chain.x * chain.y  q == p \div 2^BITS  c == Bit(p, BITS - 1)
    <3>1. /\ chain.x \in Byte /\ chain.y \in Byte /\ chain.r = p
          /\ ccr.C = Bit(chain.r, BITS - 1)
      BY <2>4 DEF ArithmeticInv, ChainHolds
    <3>2. p \in Word /\ q < 2^BITS - 1 /\ c \in {0, 1} /\ q + c = (p + 2^(BITS - 1)) \div 2^BITS
      BY <3>1, ProductHalves
    <3>3. acc["A"] \in Byte /\ acc["B"] \in Byte /\ acc["A"] * 2^BITS + acc["B"] = p
      BY <2>4, <3>1, State DEF accd, Acc
    <3>4. a = q
      <4>1. 2^BITS \in Nat \ {0} /\ Byte = 0 .. 2^BITS - 1
        BY Powers, Bytes DEF Byte, Number
      <4>2. a \in Byte /\ a * 2^BITS + acc["B"] = p
        BY <2>4, <3>3 DEF a
      <4> DEFINE B == 2^BITS  low == acc["B"]
      <4>3. B \in Nat \ {0} /\ low \in 0 .. B - 1 /\ a \in Nat /\ p = B * a + low
        BY <4>1, <4>2, <3>3
      <4> HIDE DEF B, low, p
      <4>4. p \div B = a
        BY <4>3
      <4> QED BY <4>4 DEF B
    <3>5. ccr.C = c
      BY <3>1
    <3> HIDE DEF p, c, q
    <3>6. op.r = q + c
      <4>1. op.r + op.ccr.C * 2^BITS = q + c
        BY <2>2, <2>4, <3>2, <3>4, <3>5, <1>3
      <4>2. op.ccr.C \in {0, 1} /\ op.r \in Nat
        BY <2>2, FlagFields, Bytes
      <4>3. q \in Nat /\ q + c < 2^BITS
        BY <1>3, <3>2, <3>4
      <4>4. op.ccr.C = 1 => op.ccr.C * 2^BITS = 2^BITS
        BY <1>3
      <4>5. op.ccr.C = 0 => op.ccr.C * 2^BITS = 0
        BY <1>3
      <4> QED BY <1>3, <3>2, <4>1, <4>2, <4>3, <4>4, <4>5
    <3> DEFINE k == Chain("rounded", MaxDigits, 2^BITS, chain.x, chain.y, op.r)
    <3>7. /\ k.kind = "rounded" /\ k.x = chain.x /\ k.y = chain.y /\ k.r = op.r
          /\ k \in Chains
      <4>1. chain.x \in Int /\ chain.y \in Int /\ op.r \in Int /\ MaxDigits \in Nat
        BY <2>2, <3>1, Bytes, DigitsAssumption
      <4> QED BY <1>3, <4>1 DEF Chain, Chains
    <3> HIDE DEF k
    <3>8. k.r = (k.x * k.y + 2^(BITS - 1)) \div 2^BITS
      BY <3>2, <3>6, <3>7 DEF p
    <3>9. chain' = k
      BY <2>1, <2>4 DEF k
    <3>10. chain' \in Chains /\ chain'.kind # "quotient" /\ ChainHolds(chain', op.ccr, 0)
      BY <3>7, <3>8, <3>9 DEF ChainHolds
    <3> QED BY <1>1, <1>2, <2>1, <2>2, <3>10, SetsStep
  <2> QED BY <2>3, <2>4
<1> QED BY <1>4, <1>5

\* SUB, SBC and NEG, of an accumulator or of memory.
LEMMA DifferenceSteps ==
  ASSUME ArithmeticInv, UNCHANGED build, NEW t \in Target, NEW v \in Byte,
         \/ t \in Acc /\ (sub_acc(t, v) \/ sbc(t, v))
         \/ neg(t, v)
  PROVE  ArithmeticInv'
<1> DEFINE difference(x, c) == sub(ccr, BITS, x, v, c)
<1>1. ccr \in Ccr /\ ccr.C \in {0, 1} /\ 0 \in Byte /\ (t \in Acc => acc[t] \in Byte)
  BY State, Bytes
<1>2. ASSUME NEW x \in Byte, NEW c \in {0, 1}
      PROVE  /\ difference(x, c).ccr \in Ccr /\ difference(x, c).r \in Byte
             /\ difference(x, c).r - difference(x, c).ccr.C * 2^BITS = x - v - c
             /\ c = 0 => TestHolds(Both(BITS, x, v), difference(x, c).ccr)
             /\ TestHolds(NoTest, difference(x, c).ccr)
  <2>1. BITS \in Widths /\ x \in Number(BITS) /\ v \in Number(BITS) /\ Byte = Number(BITS)
    BY Bytes DEF Byte
  <2> QED BY <1>1, <2>1, DifferenceTests
<1> HIDE DEF difference
<1>3. ASSUME NEW x \in Byte, sets(t, difference(x, 0)), test' = Both(BITS, x, v),
             chain' = ByteChain("difference", x, v, difference(x, 0).r)
      PROVE  ArithmeticInv'
  <2> DEFINE op == difference(x, 0)
  <2>1. /\ op.ccr \in Ccr /\ op.r \in Byte /\ op.r - op.ccr.C * 2^BITS = x - v - 0
        /\ TestHolds(test', op.ccr)
    BY <1>2, <1>3
  <2> HIDE DEF op
  <2>2. x \in Int /\ v \in Int /\ 2^BITS \in Nat /\ op.r \in Int
        /\ op.r - op.ccr.C * 2^BITS = x - v
    BY <2>1, Bytes
  <2>3. chain' \in Chains /\ chain'.kind # "quotient" /\ ChainHolds(chain', op.ccr, 0)
    BY <1>3, <2>2, NewChainHolds DEF ByteChain, op
  <2>4. sets(t, op)
    BY <1>3 DEF op
  <2> QED BY <2>1, <2>3, <2>4, SetsStep
<1>4. CASE t \in Acc /\ sub_acc(t, v)
  BY <1>1, <1>3, <1>4 DEF sub_acc, subbyte, difference
<1>5. CASE neg(t, v)
  BY <1>1, <1>3, <1>5 DEF neg, negbyte, subbyte, difference
<1>6. CASE t \in Acc /\ sbc(t, v)
  <2> DEFINE op == difference(acc[t], ccr.C)
  <2>1. sets(t, op) /\ chain' = Extended("difference", acc[t], v, op.r) /\ test' = NoTest
    BY <1>6 DEF sbc, subbyte, difference
  <2>2. /\ op.ccr \in Ccr /\ op.r \in Byte /\ op.r - op.ccr.C * 2^BITS = acc[t] - v - ccr.C
        /\ TestHolds(test', op.ccr)
    BY <1>1, <1>2, <1>6, <2>1
  <2> HIDE DEF op
  <2>3. LET k == Extended("difference", acc[t], v, op.r)
        IN  k \in Chains /\ k.kind # "quotient" /\ ChainHolds(k, op.ccr, 0)
    BY <1>1, <1>6, <2>2, ExtendedHolds
  <2> QED BY <2>1, <2>2, <2>3, SetsStep
<1> QED BY <1>4, <1>5, <1>6

\* CMP, TST, CPD and the SBC of the 6805 set flags only, and end the chain.
LEMMA CompareSteps ==
  ASSUME ArithmeticInv, UNCHANGED build,
         \/ \E t \in Acc, v \in Byte : cmp(t, v)
         \/ \E v \in Byte : tst(v) \/ sbc_ix(v)
         \/ \E v \in Word : cpd(v)
  PROVE  ArithmeticInv'
<1>1. ASSUME UNCHANGED acc, chain' = NoChain, ccr' \in Ccr, TestHolds(test', ccr')
      PROVE  ArithmeticInv'
  BY <1>1, NoChainHolds, FlagsStep
<1>2. /\ ccr \in Ccr /\ ccr.C \in {0, 1} /\ acc["A"] \in Byte /\ (\A t \in Acc : acc[t] \in Byte)
      /\ accd \in Number(WORD)
      /\ BITS \in Widths /\ WORD \in Widths /\ Byte = Number(BITS) /\ Word = Number(WORD)
  BY State, Bytes DEF Byte, Word, Acc
<1>3. ASSUME NEW t \in Acc, NEW v \in Byte, cmp(t, v)
      PROVE  ArithmeticInv'
  <2>1. acc[t] \in Number(BITS) /\ v \in Number(BITS)
    BY <1>2
  <2> DEFINE op == sub(ccr, BITS, acc[t], v, 0)
  <2>2. op.ccr \in Ccr /\ TestHolds(Both(BITS, acc[t], v), op.ccr)
    BY <1>2, <2>1, DifferenceTests
  <2>3. /\ ccr' = op.ccr /\ test' = Both(BITS, acc[t], v)
        /\ chain' = NoChain /\ UNCHANGED acc
    BY <1>3 DEF cmp, subbyte
  <2> HIDE DEF op
  <2> QED BY <1>1, <2>2, <2>3
<1>4. ASSUME NEW v \in Word, cpd(v)
      PROVE  ArithmeticInv'
  <2> DEFINE op == sub(ccr, WORD, accd, v, 0)
  <2>1. op.ccr \in Ccr /\ TestHolds(Both(WORD, accd, v), op.ccr)
    BY <1>2, DifferenceTests
  <2>2. /\ ccr' = op.ccr /\ test' = Both(WORD, accd, v)
        /\ chain' = NoChain /\ UNCHANGED acc
    BY <1>4 DEF cpd, subword
  <2> HIDE DEF op
  <2> QED BY <1>1, <2>1, <2>2
<1>5. ASSUME NEW v \in Byte, sbc_ix(v)
      PROVE  ArithmeticInv'
  <2> DEFINE op == sub(ccr, BITS, acc["A"], v, ccr.C)
  <2>1. op.ccr \in Ccr /\ TestHolds(NoTest, op.ccr)
    BY <1>2, DifferenceTests
  <2>2. ccr' = op.ccr /\ test' = NoTest /\ chain' = NoChain /\ UNCHANGED acc
    BY <1>5 DEF sbc_ix, subbyte
  <2> HIDE DEF op
  <2> QED BY <1>1, <2>1, <2>2
<1>6. ASSUME NEW v \in Byte, tst(v)
      PROVE  ArithmeticInv'
  <2> DEFINE f == testbyte(ccr, v)
  <2>1. /\ f \in Ccr /\ DecidesUnsigned(f, v)
        /\ DecidesSigned(f, Signed(BITS, v) - Signed(BITS, 0))
    BY <1>2, TestDecides, Zenon
  <2>2. v - 0 = v
    BY Bytes
  <2>3. /\ ccr' = f /\ test' = Both(BITS, v, 0) /\ chain' = NoChain /\ UNCHANGED acc
    BY <1>6 DEF tst
  <2> HIDE DEF f
  <2>4. TestHolds(Both(BITS, v, 0), f)
    BY <2>1, <2>2, TestsHold
  <2> QED BY <1>1, <2>1, <2>3, <2>4
<1> QED BY <1>3, <1>4, <1>5, <1>6

\* Loads, stores and pulls leave C alone.
LEMMA LoadSteps ==
  ASSUME ArithmeticInv, UNCHANGED build,
         \/ \E t \in Acc, v \in Byte : load(t, v) \/ pul(t, v)
         \/ \E v \in Byte : store(v)
         \/ \E v \in Word : ldd(v)
  PROVE  ArithmeticInv'
<1>1. /\ ccr \in Ccr /\ BITS \in Widths /\ WORD \in Widths
      /\ Byte = Number(BITS) /\ Word = Number(WORD)
  BY State, Bytes DEF Byte, Word
<1>2. ASSUME NEW w \in Widths, NEW v \in Number(w)
      PROVE  LET f == bittest(ccr, w, v)
             IN  f \in Ccr /\ f.C = ccr.C /\ TestHolds(OnlySigned(Signed(w, v)), f)
  BY <1>1, LoadDecides, TestsHold
<1>3. ASSUME NEW t \in Acc, NEW v \in Byte, load(t, v)
      PROVE  ArithmeticInv'
  <2> DEFINE f == bittest(ccr, BITS, v)  op == [r |-> v, ccr |-> f]
  <2>1. f \in Ccr /\ f.C = ccr.C /\ TestHolds(OnlySigned(Signed(BITS, v)), f)
    BY <1>1, <1>2
  <2>2. sets(t, op) /\ chain' = Kept /\ test' = OnlySigned(Signed(BITS, v))
    BY <1>3 DEF load
  <2> HIDE DEF f
  <2>3. op.r = v /\ op.ccr = f
    OBVIOUS
  <2>4. Kept \in Chains /\ Kept.kind # "quotient" /\ ChainHolds(Kept, f, 0)
    BY <2>1, KeptHolds, Zenon
  <2> HIDE DEF op
  <2>5. t \in Target
    BY DEF Target
  <2> QED BY <2>1, <2>2, <2>3, <2>4, <2>5, SetsStep
<1>4. ASSUME NEW v \in Word, ldd(v)
      PROVE  ArithmeticInv'
  <2> DEFINE f == bittest(ccr, WORD, v)  op == [r |-> v, ccr |-> f]
  <2>1. f \in Ccr /\ f.C = ccr.C /\ TestHolds(OnlySigned(Signed(WORD, v)), f)
    BY <1>1, <1>2
  <2>2. sets_d(op) /\ chain' = Kept /\ test' = OnlySigned(Signed(WORD, v))
    BY <1>4 DEF ldd
  <2> HIDE DEF f
  <2>3. op.r = v /\ op.ccr = f
    OBVIOUS
  <2>4. Kept \in Chains /\ ChainHolds(Kept, f, v)
    BY <2>1, KeptHolds, Zenon
  <2> HIDE DEF op
  <2> QED BY <2>1, <2>2, <2>3, <2>4, SetsDStep
<1>5. ASSUME NEW v \in Byte, store(v)
      PROVE  ArithmeticInv'
  <2> DEFINE f == bittest(ccr, BITS, v)
  <2>1. f \in Ccr /\ f.C = ccr.C /\ TestHolds(OnlySigned(Signed(BITS, v)), f)
    BY <1>1, <1>2
  <2>2. ccr' = f /\ chain' = KeptWithD /\ test' = OnlySigned(Signed(BITS, v)) /\ UNCHANGED acc
    BY <1>5 DEF store
  <2> HIDE DEF f
  <2>3. KeptWithD \in Chains /\ ChainHolds(KeptWithD, f, accd)
    BY <2>1, KeptHolds, Zenon
  <2> QED BY <2>1, <2>2, <2>3, FlagsStep
<1>6. ASSUME NEW t \in Acc, NEW v \in Byte, pul(t, v)
      PROVE  ArithmeticInv'
  <2>1. acc' = [acc EXCEPT ![t] = v] /\ chain' = Kept /\ UNCHANGED <<ccr, test>>
    BY <1>6 DEF pul
  <2>2. acc' \in [Acc -> Byte]
    BY <2>1 DEF ArithmeticInv, ArithmeticTypeOK
  <2>3. chain' \in Chains /\ ChainHolds(chain', ccr', accd')
    BY <2>1, KeptHolds
  <2> QED BY <2>1, <2>2, <2>3 DEF ArithmeticInv, ArithmeticTypeOK
<1> QED BY <1>3, <1>4, <1>5, <1>6

\* COM and CLR end the chain.
LEMMA ComplementSteps ==
  ASSUME ArithmeticInv, UNCHANGED build, NEW t \in Target, NEW v \in Byte,
         com(t, v) \/ clr(t)
  PROVE  ArithmeticInv'
<1>1. ccr \in Ccr
  BY State
<1>2. NoChain \in Chains /\ NoChain.kind # "quotient" /\ \A f : ChainHolds(NoChain, f, 0)
  BY NoChainHolds
<1>3. CASE com(t, v)
  <2> DEFINE op == combyte(ccr, v)
  <2>1. op.r \in Byte /\ op.ccr \in Ccr /\ DecidesSigned(op.ccr, Signed(BITS, op.r))
    BY <1>1, ComplementDecides, Zenon
  <2>2. sets(t, op) /\ chain' = NoChain /\ test' = OnlySigned(Signed(BITS, op.r))
    BY <1>3 DEF com
  <2> HIDE DEF op
  <2>3. TestHolds(test', op.ccr)
    BY <2>1, <2>2, TestsHold
  <2> QED BY <1>2, <2>1, <2>2, <2>3, SetsStep
<1>4. CASE clr(t)
  <2> DEFINE f == clrbyte(ccr)  op == [r |-> 0, ccr |-> f]
  <2>1. 0 \in Byte /\ f \in Ccr /\ DecidesSigned(f, 0) /\ DecidesUnsigned(f, 0)
    BY <1>1, ComplementDecides, Zenon
  <2>2. sets(t, op) /\ chain' = NoChain /\ test' = Both(BITS, 0, 0)
    BY <1>4 DEF clr
  <2> HIDE DEF f
  <2>3. op.r = 0 /\ op.ccr = f
    OBVIOUS
  <2>4. Signed(BITS, 0) - Signed(BITS, 0) = 0 /\ 0 - 0 = 0
    <3>1. Signed(BITS, 0) \in Int
      BY Numbers, Powers, Bytes DEF Byte
    <3> QED BY <3>1
  <2>5. TestHolds(test', f)
    BY <2>1, <2>2, <2>4, TestsHold
  <2> HIDE DEF op
  <2> QED BY <1>2, <2>1, <2>2, <2>3, <2>5, SetsStep
<1> QED BY <1>3, <1>4

\* INC, DEC and the counting of an index register leave C alone.
LEMMA CountSteps ==
  ASSUME ArithmeticInv, UNCHANGED build, NEW t \in Target, NEW v \in Byte,
         inc(t, v) \/ dec(t, v)
  PROVE  ArithmeticInv'
<1>1. ASSUME NEW op, NEW s, op.r \in Byte, op.ccr \in Ccr, op.ccr.C = ccr.C,
             DecidesSigned(op.ccr, s),
             sets(t, op), chain' = Kept, test' = OnlySigned(s)
      PROVE  ArithmeticInv'
  <2>1. Kept \in Chains /\ Kept.kind # "quotient" /\ ChainHolds(Kept, op.ccr, 0)
    BY <1>1, KeptHolds, Zenon
  <2>2. TestHolds(test', op.ccr)
    BY <1>1, TestsHold
  <2> QED BY <1>1, <2>1, <2>2, SetsStep
<1>2. ccr \in Ccr
  BY State
<1>3. CASE inc(t, v)
  BY <1>1, <1>2, <1>3, CountDecides DEF inc
<1>4. CASE dec(t, v)
  BY <1>1, <1>2, <1>4, CountDecides DEF dec
<1> QED BY <1>3, <1>4

LEMMA IndexSteps ==
  ASSUME ArithmeticInv, UNCHANGED build,
         \/ \E x, d : inx(x, d)
         \/ \E v \in Word : cpx(v)
  PROVE  ArithmeticInv'
<1>1. ccr \in Ccr /\ accd \in Number(WORD) /\ Word = Number(WORD)
  BY State DEF Word
<1>2. ASSUME NEW f \in Ccr, f.C = ccr.C, ccr' = f, TestHolds(test', f),
             chain' = KeptWithD, UNCHANGED acc
      PROVE  ArithmeticInv'
  <2>1. KeptWithD \in Chains /\ ChainHolds(KeptWithD, f, accd)
    BY <1>2, KeptHolds, Zenon
  <2> QED BY <1>2, <2>1, FlagsStep
<1>3. ASSUME NEW x, NEW d, inx(x, d)
      PROVE  ArithmeticInv'
  <2> DEFINE z == flag((x + d) % 2^WORD = 0)  f == [ccr EXCEPT !.Z = z]
  <2>1. z \in {0, 1}
    BY DEF flag
  <2>2. ccr' = f /\ chain' = KeptWithD /\ test' = NoTest /\ UNCHANGED acc
    BY <1>3 DEF inx, incword
  <2> HIDE DEF z
  <2>3. f \in Ccr /\ f.C = ccr.C
    BY <1>1, <2>1 DEF Ccr
  <2> HIDE DEF f
  <2>4. TestHolds(test', f)
    BY <2>2, TestsHold
  <2> QED BY <1>2, <2>2, <2>3, <2>4
<1>4. ASSUME NEW v \in Word, cpx(v)
      PROVE  ArithmeticInv'
  <2> DEFINE f == cmpword(ccr, accd, v)
  <2>1. f \in Ccr /\ f.C = ccr.C /\ DecidesSigned(f, Signed(WORD, accd) - Signed(WORD, v))
    BY <1>1, CompareKeepsC
  <2>2. /\ ccr' = f /\ chain' = KeptWithD /\ UNCHANGED acc
        /\ test' = OnlySigned(Signed(WORD, accd) - Signed(WORD, v))
    BY <1>4 DEF cpx
  <2> HIDE DEF f
  <2>3. TestHolds(test', f)
    BY <2>1, <2>2, TestsHold
  <2> QED BY <1>2, <2>1, <2>2, <2>3
<1> QED BY <1>3, <1>4

\* LSL, ROL, LSR, ASR and ROR: a chain is begun, or goes on with C.
LEMMA ShiftSteps ==
  ASSUME ArithmeticInv, UNCHANGED build, NEW t \in Target, NEW v \in Byte,
         lsl(t, v) \/ rol(t, v) \/ lsr(t, v) \/ asr(t, v) \/ ror(t, v)
  PROVE  ArithmeticInv'
<1>1. /\ ccr \in Ccr /\ ccr.C \in {0, 1} /\ BITS \in Widths /\ Byte = Number(BITS)
      /\ v \in Int /\ 2^BITS \in Nat /\ \A n \in Byte : n \in Int
  BY State, Bytes DEF Byte
<1>2. ASSUME NEW op, op.r \in Byte, op.ccr \in Ccr, sets(t, op), test' = NoTest,
             chain' \in Chains, chain'.kind # "quotient", ChainHolds(chain', op.ccr, 0)
      PROVE  ArithmeticInv'
  BY <1>2, TestsHold, SetsStep
<1>3. CASE lsl(t, v)
  <2> DEFINE op == shl(ccr, BITS, v, 0)
  <2>1. op.ccr \in Ccr /\ op.r \in Byte /\ op.r + op.ccr.C * 2^BITS = v + v + 0
    BY <1>1, LeftExact
  <2>2. sets(t, op) /\ chain' = ByteChain("sum", v, v, op.r) /\ test' = NoTest
    BY <1>3 DEF lsl
  <2> HIDE DEF op
  <2>3. op.r + op.ccr.C * 2^BITS = v + v
    <3>1. v + v + 0 = v + v
      BY <1>1
    <3> QED BY <2>1, <3>1
  <2>4. chain' \in Chains /\ chain'.kind # "quotient" /\ ChainHolds(chain', op.ccr, 0)
    <3> DEFINE k == Chain("sum", 1, 2^BITS, v, v, op.r)
    <3>1. /\ k \in Chains /\ k.kind = "sum" /\ k.weight = 2^BITS
          /\ k.x = v /\ k.y = v /\ k.r = op.r
      BY <1>1, <2>1 DEF Chain, Chains
    <3>2. chain' = k
      BY <2>2, Zenon DEF ByteChain
    <3> HIDE DEF k
    <3> QED BY <2>3, <3>1, <3>2 DEF ChainHolds
  <2> QED BY <1>2, <2>1, <2>2, <2>4
<1>4. CASE rol(t, v)
  <2> DEFINE op == shl(ccr, BITS, v, ccr.C)
  <2>1. op.ccr \in Ccr /\ op.r \in Byte /\ op.r + op.ccr.C * 2^BITS = v + v + ccr.C
    BY <1>1, LeftExact
  <2>2. sets(t, op) /\ chain' = Extended("sum", v, v, op.r) /\ test' = NoTest
    BY <1>4 DEF rol
  <2> HIDE DEF op
  <2>3. LET k == Extended("sum", v, v, op.r)
        IN  k \in Chains /\ k.kind # "quotient" /\ ChainHolds(k, op.ccr, 0)
    BY <2>1, ExtendedHolds
  <2> QED BY <1>2, <2>1, <2>2, <2>3
<1>5. CASE lsr(t, v)
  <2> DEFINE op == shr(ccr, BITS, v, 0)
  <2>1. op.ccr \in Ccr /\ op.r \in Byte /\ 2 * op.r + op.ccr.C = v + 0 * 2^BITS
    BY <1>1, RightExact, Zenon
  <2>2. sets(t, op) /\ chain' = ByteChain("half", v, 0, op.r) /\ test' = NoTest
    BY <1>5 DEF lsr
  <2> HIDE DEF op
  <2>3. op.r \in Int /\ 2 * op.r + op.ccr.C = v
    <3>1. v + 0 * 2^BITS = v
      BY <1>1
    <3> QED BY <1>1, <2>1, <3>1
  <2>4. chain' \in Chains /\ chain'.kind # "quotient" /\ ChainHolds(chain', op.ccr, 0)
    <3> DEFINE k == Chain("half", 1, 2^BITS, v, 0, op.r)
    <3>1. /\ k \in Chains /\ k.kind = "half" /\ k.weight = 2^BITS
          /\ k.x = v /\ k.y = 0 /\ k.r = op.r
      BY <1>1, <2>3 DEF Chain, Chains
    <3>2. chain' = k
      BY <2>2, Zenon DEF ByteChain
    <3> HIDE DEF k
    <3> QED BY <2>3, <3>1, <3>2 DEF ChainHolds
  <2> QED BY <1>2, <2>1, <2>2, <2>4
<1>6. CASE asr(t, v)
  <2> DEFINE b == Bit(v, BITS - 1)  op == shr(ccr, BITS, v, b)
  <2>1. b \in {0, 1}
    BY <1>1, Numbers
  <2>2. /\ op.ccr \in Ccr /\ op.r \in Byte
        /\ 2 * Signed(BITS, op.r) + op.ccr.C = Signed(BITS, v)
    BY <1>1, <2>1, RightExact, Zenon
  <2>3. /\ sets(t, op) /\ test' = NoTest
        /\ chain' = ByteChain("half", Signed(BITS, v), 0, Signed(BITS, op.r))
    BY <1>6 DEF asr
  <2> HIDE DEF op
  <2>4. \A n \in Byte : Signed(BITS, n) \in Int
    <3>1. Half(BITS) \in Int
      BY <1>1, Powers
    <3> QED BY <1>1, <3>1, Numbers
  <2> DEFINE sv == Signed(BITS, v)  sr == Signed(BITS, op.r)
  <2>5. sv \in Int /\ sr \in Int /\ 2 * sr + op.ccr.C = sv
    BY <2>2, <2>4
  <2>6. chain' = ByteChain("half", sv, 0, sr)
    BY <2>3
  <2> HIDE DEF sv, sr
  <2>7. chain' \in Chains /\ chain'.kind # "quotient" /\ ChainHolds(chain', op.ccr, 0)
    <3> DEFINE k == Chain("half", 1, 2^BITS, sv, 0, sr)
    <3>1. /\ k \in Chains /\ k.kind = "half" /\ k.weight = 2^BITS
          /\ k.x = sv /\ k.y = 0 /\ k.r = sr
      BY <1>1, <2>5 DEF Chain, Chains
    <3>2. chain' = k
      BY <2>6, Zenon DEF ByteChain
    <3> HIDE DEF k
    <3> QED BY <2>5, <3>1, <3>2 DEF ChainHolds
  <2> QED BY <1>2, <2>2, <2>3, <2>7
<1>7. CASE ror(t, v)
  <2> DEFINE op == shr(ccr, BITS, v, ccr.C)
  <2>1. op.ccr \in Ccr /\ op.r \in Byte /\ 2 * op.r + op.ccr.C = v + ccr.C * 2^BITS
    BY <1>1, RightExact, Zenon
  <2>2. sets(t, op) /\ chain' = ExtendedBelow("half", v, op.r) /\ test' = NoTest
    BY <1>7 DEF ror
  <2> HIDE DEF op
  <2>3. LET k == ExtendedBelow("half", v, op.r)
        IN  k \in Chains /\ k.kind # "quotient" /\ ChainHolds(k, op.ccr, 0)
    BY <2>1, ExtendedBelowHolds
  <2> QED BY <1>2, <2>1, <2>2, <2>3
<1> QED BY <1>3, <1>4, <1>5, <1>6, <1>7

\* The word instructions of the 6801 on D.
LEMMA WordSteps ==
  ASSUME ArithmeticInv, UNCHANGED build,
         \/ \E v \in Word : addd(v) \/ subd(v)
         \/ lsld \/ lsrd
  PROVE  ArithmeticInv'
<1>1. /\ ccr \in Ccr /\ WORD \in Widths /\ Word = Number(WORD) /\ accd \in Word
      /\ 2^WORD \in Nat /\ \A n \in Word : n \in Int
  BY State, Bytes DEF Word
<1>2. \A f : TestHolds(NoTest, f)
  BY TestsHold
<1> DEFINE d == accd
<1>3. d \in Word /\ d \in Int
  BY <1>1
<1> HIDE DEF d
<1>4. ASSUME NEW v \in Word, addd(v)
      PROVE  ArithmeticInv'
  <2> DEFINE op == addword(ccr, d, v, 0)
  <2>1. op.ccr \in Ccr /\ op.r \in Word /\ op.r + op.ccr.C * 2^WORD = d + v + 0
    BY <1>1, <1>3, SumExact DEF addword
  <2>2. sets_d(op) /\ chain' = WordChain("sum", d, v, op.r) /\ test' = NoTest
    BY <1>4 DEF addd, d
  <2> HIDE DEF op
  <2>3. v \in Int /\ op.r \in Int /\ op.r + op.ccr.C * 2^WORD = d + v
    <3>1. d + v + 0 = d + v
      BY <1>1, <1>3
    <3> QED BY <1>1, <2>1, <3>1
  <2>4. chain' \in Chains /\ ChainHolds(chain', op.ccr, op.r)
    BY <1>1, <1>3, <2>2, <2>3, NewChainHolds DEF WordChain
  <2> QED BY <1>2, <2>1, <2>2, <2>4, SetsDStep
<1>5. ASSUME NEW v \in Word, subd(v)
      PROVE  ArithmeticInv'
  <2> DEFINE op == sub(ccr, WORD, d, v, 0)
  <2>1. /\ op.ccr \in Ccr /\ op.r \in Word /\ op.r - op.ccr.C * 2^WORD = d - v - 0
        /\ TestHolds(Both(WORD, d, v), op.ccr)
    BY <1>1, <1>3, DifferenceTests
  <2>2. sets_d(op) /\ chain' = WordChain("difference", d, v, op.r) /\ test' = Both(WORD, d, v)
    BY <1>5 DEF subd, subword, d
  <2> HIDE DEF op
  <2>3. v \in Int /\ op.r \in Int /\ op.r - op.ccr.C * 2^WORD = d - v
    <3>1. d - v - 0 = d - v
      BY <1>1, <1>3
    <3> QED BY <1>1, <2>1, <3>1
  <2>4. chain' \in Chains /\ ChainHolds(chain', op.ccr, op.r)
    BY <1>1, <1>3, <2>2, <2>3, NewChainHolds DEF WordChain
  <2> QED BY <2>1, <2>2, <2>4, SetsDStep
<1>6. CASE lsld
  <2> DEFINE op == shl(ccr, WORD, d, 0)
  <2>1. op.ccr \in Ccr /\ op.r \in Word /\ op.r + op.ccr.C * 2^WORD = d + d + 0
    BY <1>1, <1>3, LeftExact
  <2>2. sets_d(op) /\ chain' = WordChain("sum", d, d, op.r) /\ test' = NoTest
    BY <1>6 DEF lsld, d
  <2> HIDE DEF op
  <2>3. op.r \in Int /\ op.r + op.ccr.C * 2^WORD = d + d
    <3>1. d + d + 0 = d + d
      BY <1>1, <1>3
    <3> QED BY <1>1, <2>1, <3>1
  <2>4. chain' \in Chains /\ ChainHolds(chain', op.ccr, op.r)
    BY <1>1, <1>3, <2>2, <2>3, NewChainHolds DEF WordChain
  <2> QED BY <1>2, <2>1, <2>2, <2>4, SetsDStep
<1>7. CASE lsrd
  <2> DEFINE op == shr(ccr, WORD, d, 0)
  <2>1. op.ccr \in Ccr /\ op.r \in Word /\ 2 * op.r + op.ccr.C = d + 0 * 2^WORD
    BY <1>1, <1>3, RightExact, Zenon
  <2>2. sets_d(op) /\ chain' = WordChain("half", d, 0, op.r) /\ test' = NoTest
    BY <1>7 DEF lsrd, d
  <2> HIDE DEF op
  <2>3. op.r \in Int /\ 2 * op.r + op.ccr.C = d
    <3>1. d + 0 * 2^WORD = d
      BY <1>1, <1>3
    <3> QED BY <1>1, <2>1, <3>1
  <2>4. chain' \in Chains /\ ChainHolds(chain', op.ccr, op.r)
    BY <1>1, <1>3, <2>2, <2>3, NewChainHolds DEF WordChain
  <2> QED BY <1>2, <2>1, <2>2, <2>4, SetsDStep
<1> QED BY <1>4, <1>5, <1>6, <1>7

\* MUL, which sets C for the rounding, and that of the 6805, which sets no flags.
LEMMA ProductSteps ==
  ASSUME ArithmeticInv, UNCHANGED build, mul_inh \/ mul_inh_6805
  PROVE  ArithmeticInv'
<1> DEFINE a == acc["A"]  b == acc["B"]
<1>1. ccr \in Ccr /\ a \in Byte /\ b \in Byte
  BY State DEF Acc
<1> HIDE DEF a, b
<1> DEFINE p == a * b  c == Bit(p, BITS - 1)
<1>2. p \in Word /\ c \in {0, 1}
  BY <1>1, ProductHalves
<1>3. a \in Int /\ b \in Int /\ p \in Int /\ 2^BITS \in Nat
  BY <1>1, <1>2, Bytes
<1>4. CASE mul_inh
  <2> DEFINE f == [ccr EXCEPT !.C = c]  op == [r |-> p, ccr |-> f]
             k == ByteChain("product", a, b, p)
  <2>1. sets_d(op) /\ chain' = k /\ test' = NoTest
    BY <1>4 DEF mul_inh, mul, a, b
  <2> HIDE DEF c
  <2>2. f \in Ccr /\ f.C = c
    BY <1>1, <1>2 DEF Ccr
  <2> HIDE DEF f
  <2>3. op.r = p /\ op.ccr = f
    OBVIOUS
  <2> HIDE DEF op, p
  <2>4. k.kind = "product" /\ k.x = a /\ k.y = b /\ k.r = p /\ k \in Chains
    BY <1>3 DEF ByteChain, Chain, Chains
  <2> HIDE DEF k
  <2>5. f.C = Bit(p, BITS - 1) /\ p = a * b
    BY <2>2 DEF c, p
  <2>6. ChainHolds(k, f, p)
    BY <1>1, <2>4, <2>5 DEF ChainHolds
  <2>7. TestHolds(test', f)
    BY <2>1, TestsHold
  <2> QED BY <1>2, <2>1, <2>2, <2>3, <2>4, <2>6, <2>7, SetsDStep
<1>5. CASE mul_inh_6805
  <2>1. /\ acc' = [A |-> p % 2^BITS, B |-> p \div 2^BITS]
        /\ chain' = Kept /\ UNCHANGED <<ccr, test>>
    BY <1>5 DEF mul_inh_6805, a, b
  <2> HIDE DEF p
  <2>2. p % 2^BITS \in Byte /\ p \div 2^BITS \in Byte
    BY <1>2, TwoBytes
  <2>3. acc' \in [Acc -> Byte]
    BY <2>1, <2>2 DEF Acc
  <2>4. chain' \in Chains /\ ChainHolds(chain', ccr', accd')
    BY <2>1, KeptHolds
  <2> QED BY <2>1, <2>3, <2>4 DEF ArithmeticInv, ArithmeticTypeOK
<1> QED BY <1>4, <1>5

\* A division, with the remainder.
LEMMA Division ==
  ASSUME NEW n \in Nat, NEW x \in Nat \ {0}
  PROVE  /\ n \div x \in Nat /\ n % x \in Nat /\ n % x < x
         /\ n = x * (n \div x) + (n % x)
  OBVIOUS

\* A fraction: the next word of the quotient is one.
LEMMA FractionIsWord ==
  ASSUME NEW w \in Nat \ {0}, NEW x \in Nat \ {0}, NEW d \in 0 .. x - 1
  PROVE  ((d * w) \div x) % w = (d * w) \div x
<1> DEFINE q == (d * w) \div x
<1>1. q \in 0 .. w - 1
  OBVIOUS
<1> HIDE DEF q
<1>2. q % w = q
  BY <1>1
<1> QED BY <1>2 DEF q

\* What IDIV and FDIV do to D.
LEMMA RemainderInD ==
  ASSUME NEW n \in Nat, NEW x \in Word, x # 0, NEW f \in Ccr
  PROVE  LET op == [r |-> n % x, ccr |-> f]
         IN  op.r = n % x /\ op.ccr = f /\ op.r \in Word /\ op.r < x
<1>1. n % x \in Nat /\ n % x < x /\ x \in Nat
  BY Division, Bytes
<1>2. n % x \in Word
  <2>1. Word = 0 .. 2^WORD - 1
    BY DEF Word, Number
  <2> QED BY <1>1, <2>1, Bytes
<1> QED BY <1>1, <1>2

\* IDIV: the remainder, with the quotient in X.
LEMMA IntegerDivision ==
  ASSUME ArithmeticInv, UNCHANGED build, NEW x \in Word, idiv_inh(x)
  PROVE  ArithmeticInv'
<1>1. ccr \in Ccr /\ accd \in Nat /\ x \in Nat /\ 0 \in Word
  <2>1. 0 \in Word
    BY Bytes DEF Word, Number
  <2> QED BY <2>1, State, Bytes
<1>2. TestHolds(test', ccr) /\ \A f : TestHolds(test', f)
  BY TestsHold DEF idiv_inh
<1>3. CASE x = 0
  <2> DEFINE f == [ccr EXCEPT !.V = 0, !.C = 1]  op == [r |-> 0, ccr |-> f]
  <2>1. sets_d(op) /\ chain' = NoChain
    BY <1>3 DEF idiv_inh
  <2>2. f \in Ccr
    BY <1>1 DEF Ccr
  <2> HIDE DEF f
  <2>3. op.r = 0 /\ op.ccr = f
    OBVIOUS
  <2> HIDE DEF op
  <2>4. chain' \in Chains /\ ChainHolds(chain', f, 0)
    BY <2>1, NoChainHolds
  <2> QED BY <1>1, <1>2, <2>1, <2>2, <2>3, <2>4, SetsDStep
<1>4. CASE x # 0
  <2> DEFINE d == accd  z == flag(d % x = 0)  q == d \div x
             f == [ccr EXCEPT !.V = 0, !.Z = z, !.C = 0]  op == [r |-> d % x, ccr |-> f]
             k == Chain("quotient", 1, 1, d, x, q)
  <2>1. sets_d(op) /\ chain' = k
    BY <1>4 DEF idiv_inh, divided
  <2>2. z \in {0, 1}
    BY DEF flag
  <2>3. d \in Nat
    BY <1>1
  <2> HIDE DEF z, d
  <2>4. f \in Ccr
    BY <1>1, <2>2 DEF Ccr
  <2> HIDE DEF f
  <2>5. op.r = d % x /\ op.ccr = f /\ op.r \in Word /\ op.r < x
    BY <1>4, <2>3, <2>4, RemainderInD
  <2> HIDE DEF op
  <2>6. q \in Nat /\ d % x \in Nat /\ d = x * q + (d % x)
    BY <1>1, <1>4, <2>3, Division
  <2> HIDE DEF q
  <2>7. /\ k \in Chains /\ k.kind = "quotient"
        /\ k.weight = 1 /\ k.x = d /\ k.y = x /\ k.r = q
    BY <1>1, <2>3, <2>6 DEF Chain, Chains
  <2> HIDE DEF k
  <2>8. d * 1 - x * q = d % x
    <3> DEFINE p == x * q  m == d % x
    <3>1. p \in Int /\ m \in Int /\ d = p + m
      BY <1>1, <2>6
    <3> HIDE DEF p, m
    <3>2. d * 1 - p = m
      BY <2>3, <3>1
    <3> QED BY <3>2 DEF p, m
  <2>9. ChainHolds(k, f, op.r)
    BY <2>5, <2>7, <2>8 DEF ChainHolds
  <2> QED BY <1>2, <2>1, <2>4, <2>5, <2>7, <2>9, SetsDStep
<1> QED BY <1>3, <1>4

\* FDIV: the next word of the quotient of a remainder, which was in D.
LEMMA FractionalDivision ==
  ASSUME ArithmeticInv, UNCHANGED build, NEW x \in Word, fdiv_inh(x)
  PROVE  ArithmeticInv'
<1> DEFINE d == accd  W == 2^WORD
<1>1. ccr \in Ccr /\ d \in Nat /\ x \in Nat /\ W \in Nat \ {0}
  BY State, Bytes, Powers DEF Widths
<1>2. \A f : TestHolds(test', f)
  BY TestsHold DEF fdiv_inh
<1>3. CASE d > x
  <2>1. ccr' = [ccr EXCEPT !.V = 1] /\ chain' = NoChain /\ UNCHANGED acc
    BY <1>3 DEF fdiv_inh
  <2>2. ccr' \in Ccr
    BY <1>1, <2>1 DEF Ccr
  <2>3. chain' \in Chains /\ ChainHolds(chain', ccr', d)
    BY <2>1, NoChainHolds
  <2> QED BY <1>2, <2>1, <2>2, <2>3, FlagsStep
<1>4. CASE ~(d > x)
  <2> DEFINE rest == (d * W) % x  q == fdiv_quotient(x)
             z == flag(rest = 0)
             v == flag(Bit(d, WORD - 1) = Bit(x, WORD - 1) /\ Bit(x, WORD - 1) # Bit(rest, WORD - 1))
             f == [ccr EXCEPT !.Z = z, !.V = v, !.C = 0]
             op == [r |-> rest, ccr |-> f]
             further == [chain EXCEPT !.n = @ + 1, !.weight = @ * W, !.r = @ * W + q]
  <2>1. x # 0
    BY <1>1, <1>4 DEF fdiv_inh
  <2>2. /\ sets_d(op)
        /\ chain' = IF d = x THEN NoChain
                    ELSE IF Continues("quotient") /\ chain.y = x THEN further
                    ELSE WordChain("quotient", d, x, q)
    BY <1>4 DEF fdiv_inh, divided
  <2>3. z \in {0, 1} /\ v \in {0, 1}
    BY DEF flag
  <2>4. d < x => q = (d * W) \div x
    BY <1>1, <2>1, FractionIsWord DEF fdiv_quotient
  <2> HIDE DEF z, v, d, W
  <2>5. f \in Ccr
    BY <1>1, <2>3 DEF Ccr
  <2> HIDE DEF f
  <2>6. d * W \in Nat
    BY <1>1
  <2>7. op.r = rest /\ op.ccr = f /\ op.r \in Word /\ op.r < x
    BY <2>1, <2>5, <2>6, RemainderInD
  <2> HIDE DEF op
  <2>8. ASSUME d < x
        PROVE  q \in Nat /\ rest \in Nat /\ d * W = x * q + rest
    BY <1>1, <2>1, <2>4, <2>6, <2>8, Division
  <2> HIDE DEF q, rest
  <2>9. chain' \in Chains /\ ChainHolds(chain', f, rest)
    <3>1. CASE d = x
      BY <2>2, <3>1, NoChainHolds
    <3>2. CASE d < x /\ Continues("quotient") /\ chain.y = x
      <4> DEFINE cx == chain.x  cw == chain.weight  cr == chain.r
      <4>1. /\ chain \in Chains /\ cx \in Int /\ cw \in Nat /\ cr \in Int
            /\ chain.n \in Nat
        BY State DEF Chains, ArithmeticInv, ArithmeticTypeOK
      <4>2. cx * cw - x * cr = d
        BY <3>2 DEF Continues, ArithmeticInv, ChainHolds, d
      <4>3. d # x
        BY <1>1, <3>2
      <4> DEFINE n2 == chain.n + 1  w2 == cw * W  r2 == cr * W + q
      <4>4. n2 \in Nat /\ w2 \in Nat /\ r2 \in Int
        BY <1>1, <2>8, <3>2, <4>1
      <4>5. chain' = [chain EXCEPT !.n = n2, !.weight = w2, !.r = r2]
        <5>1. chain' = further
          BY <2>2, <3>2, <4>3, Zenon
        <5> QED BY <5>1
      <4> HIDE DEF n2, w2, r2
      <4>6. /\ chain' \in Chains /\ chain'.kind = chain.kind /\ chain'.weight = w2
            /\ chain'.x = cx /\ chain'.y = chain.y /\ chain'.r = r2
        BY <4>1, <4>4, <4>5 DEF Chains
      <4> HIDE DEF cx, cw, cr
      <4>7. cx * (cw * W) - x * (cr * W + q) = rest
        <5>1. (cx * cw - x * cr) * W = d * W
          BY <4>2
        <5>2. (cx * cw - x * cr) * W = cx * (cw * W) - x * (cr * W)
          BY <1>1, <4>1
        <5>3. x * (cr * W + q) = x * (cr * W) + x * q
          BY <1>1, <2>8, <3>2, <4>1
        <5> DEFINE a == cx * (cw * W)  b == x * (cr * W)  c == x * q
        <5>4. a \in Int /\ b \in Int /\ c \in Int /\ rest \in Int
          BY <1>1, <2>8, <3>2, <4>1
        <5>5. a - b = c + rest
          BY <2>8, <3>2, <5>1, <5>2
        <5> HIDE DEF a, b, c
        <5>6. a - (b + c) = rest
          BY <5>4, <5>5
        <5> QED BY <5>3, <5>6 DEF a, b, c
      <4> QED BY <2>7, <3>2, <4>7, <4>6 DEF ChainHolds, Continues, w2, r2
    <3>3. CASE d < x /\ ~(Continues("quotient") /\ chain.y = x)
      <4> DEFINE k == WordChain("quotient", d, x, q)
      <4>1. chain' = k
        BY <1>1, <2>2, <3>3
      <4>2. /\ k \in Chains /\ k.kind = "quotient"
            /\ k.weight = W /\ k.x = d /\ k.y = x /\ k.r = q
        BY <1>1, <2>8, <3>3 DEF WordChain, Chain, Chains, W
      <4> HIDE DEF k
      <4>3. d * W - x * q = rest
        <5> DEFINE p == x * q  m == d * W
        <5>1. p \in Int /\ m \in Int /\ rest \in Int /\ m = p + rest
          BY <1>1, <2>8, <3>3
        <5> HIDE DEF p, m
        <5>2. m - p = rest
          BY <5>1
        <5> QED BY <5>2 DEF p, m
      <4> QED BY <2>7, <4>1, <4>2, <4>3 DEF ChainHolds
    <3> QED BY <1>1, <1>4, <3>1, <3>2, <3>3
  <2> QED BY <1>2, <2>2, <2>5, <2>7, <2>9, SetsDStep
<1> QED BY <1>3, <1>4

-----------------------------------------------------------------------------
(* The invariant is inductive, and what it says of programs.               *)

\* The simulator starts with the flags clear and nothing computed.
LEMMA ArithmeticInvInit ==
  ASSUME ArithmeticInit
  PROVE  ArithmeticInv
<1>1. ccr \in Ccr
  BY DEF ArithmeticInit, Ccr
<1>2. chain \in Chains /\ ChainHolds(chain, ccr, accd)
  BY NoChainHolds DEF ArithmeticInit
<1>3. TestHolds(test, ccr)
  BY TestsHold DEF ArithmeticInit
<1> QED BY <1>1, <1>2, <1>3 DEF ArithmeticInit, ArithmeticInv, ArithmeticTypeOK

\* The instructions that modify A, B, X or memory.
LEMMA ModifyingStep ==
  ASSUME ArithmeticInv, UNCHANGED build, Modifying
  PROVE  ArithmeticInv'
<1>1. PICK t \in Target : \E v \in Operands(t) :
        \/ neg(t, v) \/ com(t, v) \/ lsl(t, v) \/ rol(t, v) \/ lsr(t, v) \/ asr(t, v)
        \/ ror(t, v) \/ dec(t, v) \/ inc(t, v) \/ tst(v) \/ clr(t)
  BY DEF Modifying
<1>2. Operands(t) \subseteq Byte
  BY State DEF Operands
<1>3. PICK v \in Byte :
        \/ neg(t, v) \/ com(t, v) \/ lsl(t, v) \/ rol(t, v) \/ lsr(t, v) \/ asr(t, v)
        \/ ror(t, v) \/ dec(t, v) \/ inc(t, v) \/ tst(v) \/ clr(t)
  BY <1>1, <1>2
<1>4. CASE neg(t, v)
  BY <1>4, DifferenceSteps
<1>5. CASE com(t, v) \/ clr(t)
  BY <1>5, ComplementSteps
<1>6. CASE lsl(t, v) \/ rol(t, v) \/ lsr(t, v) \/ asr(t, v) \/ ror(t, v)
  BY <1>6, ShiftSteps
<1>7. CASE dec(t, v) \/ inc(t, v)
  BY <1>7, CountSteps
<1>8. CASE tst(v)
  BY <1>8, CompareSteps
<1> QED BY <1>3, <1>4, <1>5, <1>6, <1>7, <1>8

\* Those that take one operand, a byte, to an accumulator.
LEMMA OperandStep ==
  ASSUME ArithmeticInv, UNCHANGED build, NEW t \in Acc, NEW v \in Byte,
         \/ add(t, v) \/ adc(t, v) \/ sub_acc(t, v) \/ sbc(t, v) \/ cmp(t, v)
         \/ load(t, v) \/ pul(t, v)
  PROVE  ArithmeticInv'
<1>1. t \in Target
  BY DEF Target
<1>2. CASE add(t, v) \/ adc(t, v)
  BY <1>2, SumSteps
<1>3. CASE sub_acc(t, v) \/ sbc(t, v)
  BY <1>1, <1>3, DifferenceSteps
<1>4. CASE cmp(t, v)
  BY <1>4, CompareSteps
<1>5. CASE load(t, v) \/ pul(t, v)
  BY <1>5, LoadSteps
<1> QED BY <1>2, <1>3, <1>4, <1>5

\* The instructions of the 6800, the 6801 and the 6811.
LEMMA Instruction6811Step ==
  ASSUME ArithmeticInv, UNCHANGED build, Instruction6811
  PROVE  ArithmeticInv'
<1>1. CASE ByteInstruction
  <2>1. CASE \E v \in Byte : store(v)
    BY <2>1, LoadSteps
  <2> QED BY <1>1, <2>1, OperandStep, ModifyingStep DEF ByteInstruction
<1>2. CASE WordInstruction
  <2>1. CASE \/ \E v \in Word : addd(v) \/ subd(v)
             \/ lsld \/ lsrd
    BY <2>1, WordSteps
  <2>2. CASE \/ \E x \in Counted, e \in {-1, 1} : inx(x, e)
             \/ \E v \in Word : cpx(v)
    BY <2>2, IndexSteps
  <2>3. CASE \E v \in Word : ldd(v)
    BY <2>3, LoadSteps
  <2>4. CASE mul_inh
    BY <2>4, ProductSteps
  <2> QED BY <1>2, <2>1, <2>2, <2>3, <2>4 DEF WordInstruction
<1>3. ASSUME NEW x \in Word, cpd(x) \/ idiv_inh(x) \/ fdiv_inh(x)
      PROVE  ArithmeticInv'
  BY <1>3, CompareSteps, IntegerDivision, FractionalDivision
<1> QED BY <1>1, <1>2, <1>3 DEF Instruction6811

\* The instructions of the 6805.
LEMMA Instruction6805Step ==
  ASSUME ArithmeticInv, UNCHANGED build, Instruction6805
  PROVE  ArithmeticInv'
<1>1. "A" \in Acc /\ "B" \in Acc /\ acc["A"] \in Byte /\ acc["B"] \in Byte
  BY State DEF Acc
<1>2. ASSUME NEW v \in Byte, OnA_6805(v)
      PROVE  ArithmeticInv'
  BY <1>1, <1>2, OperandStep DEF OnA_6805
<1>3. ASSUME NEW v \in Byte, OnX_6805(v)
      PROVE  ArithmeticInv'
  BY <1>1, <1>3, OperandStep DEF OnX_6805
<1>4. ASSUME NEW v \in Byte, sbc_ix(v)
      PROVE  ArithmeticInv'
  BY <1>4, CompareSteps
<1>5. ASSUME NEW v \in Byte, store(v)
      PROVE  ArithmeticInv'
  BY <1>5, LoadSteps
<1>6. CASE mul_inh_6805
  BY <1>6, ProductSteps
<1> QED BY <1>2, <1>3, <1>4, <1>5, <1>6, ModifyingStep DEF Instruction6805

\* Every instruction of either build keeps the invariant.
LEMMA ArithmeticInvStep ==
  ASSUME ArithmeticInv, [ArithmeticNext]_arithmetic_vars
  PROVE  ArithmeticInv'
<1>1. CASE ArithmeticNext
  BY <1>1, Instruction6811Step, Instruction6805Step DEF ArithmeticNext
<1>2. CASE UNCHANGED arithmetic_vars
  <2>1. UNCHANGED <<build, acc, ccr, chain, test>>
    BY <1>2 DEF arithmetic_vars
  <2>2. UNCHANGED accd
    BY <2>1 DEF accd
  <2> QED BY <2>1, <2>2 DEF ArithmeticInv, ArithmeticTypeOK
<1> QED BY <1>1, <1>2

LEMMA ArithmeticInvAlways == ArithmeticSpec => []ArithmeticInv
BY ArithmeticInvInit, ArithmeticInvStep, PTL DEF ArithmeticSpec

\* The accumulators stay bytes, the flags bits and what is followed numbers, whatever an
\* instruction takes from memory (opfunc.c, alu.c).
THEOREM ArithmeticTypes == ArithmeticSpec => []ArithmeticTypeOK
<1>1. ArithmeticInv => ArithmeticTypeOK
  BY DEF ArithmeticInv
<1> QED BY <1>1, ArithmeticInvAlways, PTL

\* A program that adds, subtracts, shifts or divides a number a digit at a time is exact, for
\* numbers of any length and for bytes of any width up to eight (opfunc.c, alu.c).
THEOREM SpecDigitsExact == ArithmeticSpec => []DigitsExact
<1>1. ASSUME ArithmeticInv
      PROVE  DigitsExact
  <2>1. chain \in Chains /\ ChainHolds(chain, ccr, accd) /\ accd \in Nat
    BY <1>1, AccdTyped DEF ArithmeticInv, ArithmeticTypeOK
  <2>2. ASSUME chain.kind = "quotient"
        PROVE  chain.x * chain.weight - chain.y * chain.r \in 0 .. chain.y - 1
    <3> DEFINE y == chain.y  d == accd
    <3>1. y \in Int /\ d \in Nat /\ d < y /\ chain.x * chain.weight - chain.y * chain.r = d
      BY <2>1, <2>2 DEF Chains, ChainHolds
    <3> HIDE DEF y, d
    <3>2. d \in 0 .. y - 1
      BY <3>1
    <3> QED BY <3>1, <3>2 DEF y
  <2> QED BY <2>1, <2>2 DEF DigitsExact, ChainHolds
<1> QED BY <1>1, ArithmeticInvAlways, PTL

\* ADCA #0 after MUL rounds the product to its high byte (opfunc.c, mul_inh and adca_imm).
THEOREM SpecProductRounds == ArithmeticSpec => []ProductRounds
<1>1. ArithmeticInv => ProductRounds
  BY DEF ArithmeticInv, ChainHolds, ProductRounds
<1> QED BY <1>1, ArithmeticInvAlways, PTL

\* The conditional branches decide by the sign of the difference the flags were set from
\* (opfunc.c, alu.c).
THEOREM SpecBranchesDecide == ArithmeticSpec => []BranchesDecide
<1>1. ArithmeticInv => BranchesDecide
  BY Zenon DEF ArithmeticInv, TestHolds, DecidesSigned, DecidesUnsigned, BranchesDecide
<1> QED BY <1>1, ArithmeticInvAlways, PTL

-----------------------------------------------------------------------------
(* Listing: the tables.                                                    *)

KnownMisprint(c, op, next) ==
  \/ c = "h6301" /\ op \in MemoryImmediate
  \/ c = "m6811" /\ op = \h18 /\ next = \h9c
  \/ c = "m6805" /\ op \in {\h61, \h62, \h65, \h6b, \h6e, \ha7}

\* What the walk needs of an entry: it has a length, and one that jumps takes time.
Sound(e) ==
  /\ n_taken(e.mode) \in 0 .. 3 /\ e.n_operands \in 0 .. 3
  /\ e.takes_time \in BOOLEAN
  /\ e.flow \in {"branch", "jump"} => e.takes_time

\* The same count in the table and in the function, where execution goes on.
CountsRight(e) == e.flow # "trap" => e.n_operands = n_taken(e.mode)

Good(e) == Sound(e) /\ CountsRight(e)

\* opfunc.c: the bytes taken in each mode.
LEMMA BytesTaken ==
  /\ n_taken("inh") = 0 /\ n_taken("ix0") = 0
  /\ n_taken("rel") = 1 /\ n_taken("imm") = 1 /\ n_taken("dir") = 1 /\ n_taken("ind") = 1
  /\ n_taken("ix1") = 1 /\ n_taken("bsc") = 1
  /\ n_taken("word") = 2 /\ n_taken("ext") = 2 /\ n_taken("memory_imm") = 2
  /\ n_taken("bits") = 2 /\ n_taken("ix2") = 2 /\ n_taken("btb") = 2
  /\ n_taken("bits_rel") = 3
  BY DEF n_taken, TakesOperand, TakesMemoryImmediate, TakesBits, TakesBitsBranch, Takes6805

\* The entries that trap count what they like: execution does not go on behind them.
LEMMA TrapEntry ==
  Good(Trap(0)) /\ Good(Trap(1)) /\ Good(Trap(2))
  BY BytesTaken DEF Good, Sound, CountsRight, Trap, Entry

\* The rows the 6800 family shares.
LEMMA RegularEntry ==
  ASSUME NEW op \in CodeByte
  PROVE  Good(Regular(op))
  BY Z3 DEF CodeByte, Good, Sound, CountsRight, Regular, RegularMode, RegularOperands, RegularFlow, Row,
     ImmediateWords, Entry, n_taken, TakesOperand

\* 6303: every entry is good.
LEMMA Table6303 ==
  ASSUME NEW op \in CodeByte
  PROVE  Good(FirstPage("h6303", op))
<1>1. Low6303(op) \in {Trap(0), Entry("memory_imm", 2, "next", TRUE), Regular(op)}
  BY DEF Low6303
<1>2. High6303(op) \in {Trap(0), Trap(1), Regular(op)}
  BY DEF High6303
<1>3. Good(Entry("memory_imm", 2, "next", TRUE))
  BY BytesTaken DEF Good, Sound, CountsRight, Entry
<1>4. FirstPage("h6303", op) \in {Low6303(op), High6303(op)}
  BY DEF FirstPage
<1> QED BY <1>1, <1>2, <1>3, <1>4, RegularEntry, TrapEntry

\* 6301: all but the immediate-memory instructions.
LEMMA Table6301 ==
  ASSUME NEW op \in CodeByte
  PROVE  /\ Sound(FirstPage("h6301", op))
         /\ op \notin MemoryImmediate => Good(FirstPage("h6301", op))
<1>1. /\ op \notin MemoryImmediate => Low6301(op) \in {Trap(0), Regular(op)}
      /\ Low6301(op) \in {Trap(0), Entry("memory_imm", 1, "next", TRUE),
                          Entry("memory_imm", 0, "next", TRUE), Regular(op)}
  BY DEF Low6301
<1>2. High6301(op) \in {Trap(0), Trap(1), Regular(op)}
  BY DEF High6301
<1>3. Sound(Entry("memory_imm", 0, "next", TRUE)) /\ Sound(Entry("memory_imm", 1, "next", TRUE))
  BY BytesTaken DEF Sound, Entry
<1>4. FirstPage("h6301", op) \in {Low6301(op), High6301(op)}
  BY DEF FirstPage
<1> QED BY <1>1, <1>2, <1>3, <1>4, RegularEntry, TrapEntry DEF Good

\* 6800: every entry.
LEMMA Table6800 ==
  ASSUME NEW op \in CodeByte
  PROVE  Good(FirstPage("m6800", op))
<1>1. Low6800(op) \in {Trap(0), Trap(1), Regular(op)}
  BY DEF Low6800
<1>2. High6800(op) \in {Trap(0), Trap(1), Trap(2), Entry("ind", 1, "next", FALSE), Regular(op)}
  BY DEF High6800
<1>3. Good(Entry("ind", 1, "next", FALSE))
  BY BytesTaken DEF Good, Sound, CountsRight, Entry
<1>4. FirstPage("m6800", op) \in {Low6800(op), High6800(op)}
  BY DEF FirstPage
<1> QED BY <1>1, <1>2, <1>3, <1>4, RegularEntry, TrapEntry

\* 6811: every entry of the first table, and of the three behind the prefixes.
LEMMA Table6811 ==
  ASSUME NEW op \in CodeByte
  PROVE  Good(FirstPage("m6811", op))
<1>1. Low6811(op) \in {Trap(0), Entry("inh", 0, "stay", FALSE), Entry("bits_rel", 3, "branch", TRUE),
                       Entry("bits", 2, "next", TRUE), Regular(op)}
  BY DEF Low6811
<1>2. High6811(op) \in {Trap(0), Trap(1), Entry("inh", 0, "next", TRUE),
                        Entry("inh", 0, "stay", TRUE), Regular(op)}
  BY DEF High6811
<1>3. /\ \A time \in BOOLEAN : Good(Entry("inh", 0, "stay", time))
      /\ Good(Entry("inh", 0, "next", TRUE))
      /\ Good(Entry("bits_rel", 3, "branch", TRUE))
      /\ Good(Entry("bits", 2, "next", TRUE))
  BY BytesTaken DEF Good, Sound, CountsRight, Entry
<1>4. FirstPage("m6811", op) \in {Low6811(op), High6811(op)}
  BY DEF FirstPage
<1> QED BY <1>1, <1>2, <1>3, <1>4, RegularEntry, TrapEntry

\* But for CPY of a direct operand, which counts none.
LEMMA LaterTables6811 ==
  ASSUME NEW prefix \in Prefixes, NEW op \in CodeByte
  PROVE  /\ Sound(LaterPage(prefix, op))
         /\ ~(prefix = \h18 /\ op = \h9c) => Good(LaterPage(prefix, op))
<1>1. Low6811Page2(op) \in {Trap(0), Entry("inh", 0, "next", TRUE), Entry("bits_rel", 3, "branch", TRUE),
                            Entry("bits", 2, "next", TRUE), Regular(op)}
  BY DEF Low6811Page2
<1>2. op # \h9c => High6811Page2(op) \in {Trap(0), Trap(1), Entry("inh", 0, "next", TRUE),
                                         Entry("dir", 1, "next", FALSE), Regular(op)}
  BY DEF High6811Page2
<1>3. op = \h9c => High6811Page2(op) = Entry("dir", 0, "next", TRUE)
  BY DEF High6811Page2, Row
<1>4. /\ Good(Entry("inh", 0, "next", TRUE))
      /\ Good(Entry("dir", 1, "next", FALSE))
      /\ Good(Entry("bits_rel", 3, "branch", TRUE))
      /\ Good(Entry("bits", 2, "next", TRUE))
  BY BytesTaken DEF Good, Sound, CountsRight, Entry
<1>5. Sound(Entry("dir", 0, "next", TRUE))
  BY BytesTaken DEF Sound, Entry
<1>6. CASE prefix = \h18
  <2>1. LaterPage(prefix, op) \in {Low6811Page2(op), High6811Page2(op)}
    BY <1>6 DEF LaterPage
  <2>2. op = \h9c => LaterPage(prefix, op) = High6811Page2(op)
    BY <1>6 DEF LaterPage
  <2> QED
    BY <1>1, <1>2, <1>3, <1>4, <1>5, <1>6, <2>1, <2>2, RegularEntry, TrapEntry, ZenonT(30) DEF Good
<1>7. CASE prefix # \h18
  <2>1. Page3(op) \in {Trap(0), Regular(op)} /\ Page4(op) \in {Trap(0), Regular(op)}
    BY DEF Page3, Page4
  <2>2. LaterPage(prefix, op) \in {Page3(op), Page4(op)}
    BY <1>7 DEF LaterPage, Prefixes
  <2> QED BY <1>7, <2>1, <2>2, RegularEntry, TrapEntry DEF Good
<1> QED BY <1>6, <1>7

\* 6805: all but six entries that only print a warning.
LEMMA Table6805 ==
  ASSUME NEW op \in CodeByte
  PROVE  /\ Sound(FirstPage("m6805", op))
         /\ op \notin {\h61, \h62, \h65, \h6b, \h6e, \ha7} => Good(FirstPage("m6805", op))
<1> DEFINE Low == {Entry("btb", 2, "branch", TRUE), Entry("rel", 1, RegularFlow(op), TRUE),
                   Entry("bsc", 1, "next", TRUE), Entry("dir", 1, "next", TRUE),
                   Entry("ix1", 1, "next", TRUE), Entry("ix0", 0, "next", TRUE),
                   Entry("inh", 0, "next", TRUE), Entry("inh", 0, "next", FALSE)}
           Warnings == {Entry("inh", 1, "next", TRUE), Entry("inh", 1, "next", FALSE)}
<1>1. Row(op) \in 0 .. 15 /\ Column(op) \in 0 .. 15 /\ op = 16 * Row(op) + Column(op)
  BY DEF Row, Column, CodeByte
<1>2. Low6805(op) \in Low \cup Warnings
  BY DEF Low6805
<1>3. op < 128 /\ op \notin {\h61, \h62, \h65, \h6b, \h6e} => Low6805(op) \in Low
  <2>1. op \notin {\h61, \h62, \h65, \h6b, \h6e} => ~(Row(op) = 6 /\ Column(op) \in EmptyColumns)
    BY <1>1 DEF EmptyColumns
  <2>2. ~(Row(op) = 6 /\ Column(op) \in EmptyColumns) => Low6805(op) \in Low
    BY DEF Low6805
  <2> QED BY <2>1, <2>2
<1>4. Row(op) < 10 => Good(High6805(op))
  <2>1. /\ TakesTime6805(op) \in BOOLEAN /\ Flow6805(op) \in {"next", "jump"}
        /\ Row(op) < 10 /\ ~TakesTime6805(op) => Flow6805(op) = "next"
    BY <1>1 DEF Flow6805, TakesTime6805
  <2>2. Row(op) < 10 => Good(Entry("inh", 0, Flow6805(op), TakesTime6805(op)))
    BY <2>1, BytesTaken DEF Good, Sound, CountsRight, Entry
  <2> QED BY <2>2 DEF High6805
<1>5. Row(op) > 10 => Good(High6805(op))
  <2>1. Row(op) > 10 => n_taken(MemoryMode6805(op)) = MemoryOperands6805(op)
    BY <1>1, BytesTaken DEF MemoryMode6805, MemoryOperands6805
  <2>2. MemoryOperands6805(op) \in 0 .. 3
    BY DEF MemoryOperands6805
  <2>3. Row(op) > 10 => Good(Entry(MemoryMode6805(op), MemoryOperands6805(op), Flow6805(op), TRUE))
    BY <2>1, <2>2 DEF Good, Sound, CountsRight, Entry
  <2>4. Row(op) > 10 => ~(Row(op) < 10) /\ Row(op) # 10
    BY <1>1
  <2> QED BY <2>3, <2>4, Zenon DEF High6805
<1>6. /\ Sound(Immediate6805(op))
      /\ op # \ha7 => Good(Immediate6805(op))
  <2>1. Immediate6805(op) \in {Entry("inh", 1, "next", FALSE), Entry("inh", 0, "next", FALSE),
                               Entry("rel", 1, "jump", TRUE), Entry("imm", 1, "next", TRUE)}
    BY DEF Immediate6805
  <2>2. op # \ha7 => Immediate6805(op) # Entry("inh", 1, "next", FALSE)
    BY DEF Immediate6805, Entry
  <2>3. Sound(Entry("inh", 1, "next", FALSE)) /\ Good(Entry("inh", 0, "next", FALSE))
    BY BytesTaken DEF Good, Sound, CountsRight, Entry
  <2>4. Good(Entry("rel", 1, "jump", TRUE)) /\ Good(Entry("imm", 1, "next", TRUE))
    BY BytesTaken DEF Good, Sound, CountsRight, Entry
  <2> QED BY <2>1, <2>2, <2>3, <2>4 DEF Good
<1>7. FirstPage("m6805", op) = IF op < 128 THEN Low6805(op) ELSE High6805(op)
  BY DEF FirstPage
<1>8. \A e \in Low : Good(e)
  <2>1. \A flow : Good(Entry("rel", 1, flow, TRUE))
    BY BytesTaken DEF Good, Sound, CountsRight, Entry
  <2>2. /\ Good(Entry("btb", 2, "branch", TRUE)) /\ Good(Entry("bsc", 1, "next", TRUE))
        /\ Good(Entry("dir", 1, "next", TRUE)) /\ Good(Entry("ix1", 1, "next", TRUE))
        /\ Good(Entry("ix0", 0, "next", TRUE)) /\ Good(Entry("inh", 0, "next", TRUE))
        /\ Good(Entry("inh", 0, "next", FALSE))
    BY BytesTaken DEF Good, Sound, CountsRight, Entry
  <2> QED BY <2>1, <2>2
<1>9. \A e \in Warnings : Sound(e)
  <2>1. Sound(Entry("inh", 1, "next", TRUE)) /\ Sound(Entry("inh", 1, "next", FALSE))
    BY BytesTaken DEF Sound, Entry
  <2> QED BY <2>1
<1> HIDE DEF Low, Warnings
<1>10. CASE op < 128
  BY <1>2, <1>3, <1>7, <1>8, <1>9, <1>10 DEF Good
<1>11. CASE ~(op < 128)
  <2>1. Row(op) = 10 => High6805(op) = Immediate6805(op)
    BY DEF High6805
  <2> QED BY <1>1, <1>4, <1>5, <1>7, <1>6, <1>11, <2>1 DEF Good
<1> QED BY <1>10, <1>11

\* What the walk uses: the entry of any chip, for an opcode and the byte behind it.
LEMMA Tables ==
  ASSUME NEW c \in Chips, NEW op \in CodeByte, NEW next \in CodeByte
  PROVE  /\ Sound(opcode_getentry(c, op, next))
         /\ ~KnownMisprint(c, op, next) => Good(opcode_getentry(c, op, next))
<1>1. CASE HasNextTable(c, op)
  <2>1. op \in Prefixes /\ c = "m6811"
    BY <1>1 DEF HasNextTable
  <2> QED BY <1>1, <2>1, LaterTables6811 DEF opcode_getentry, KnownMisprint
<1>2. CASE ~HasNextTable(c, op)
  BY <1>2, Table6303, Table6301, Table6800, Table6811, Table6805
     DEF opcode_getentry, KnownMisprint, Good, Chips
<1> QED BY <1>1, <1>2

\* An entry without time behind which execution goes on.
Still(e) == ~e.takes_time /\ e.flow \notin {"trap", "stay"}

KnownTimeless(c, op, next) ==
  \/ c = "m6811" /\ op = \h18 /\ next \in {\hde, \hdf}
  \/ c = "m6800" /\ op = \he7
  \/ c = "m6805" /\ op \in Timeless6805

LEMMA RegularTakesTime ==
  ASSUME NEW op
  PROVE  ~Still(Regular(op)) /\ \A n : ~Still(Trap(n))
  BY DEF Still, Regular, Trap, Entry

\* The 6800 family: an STAB of the 6800 and two entries of the second table of the 6811.
LEMMA TimelessFamily ==
  ASSUME NEW c \in {"m6800", "h6301", "h6303", "m6811"}, NEW op \in CodeByte,
         Still(FirstPage(c, op))
  PROVE  c = "m6800" /\ op = \he7
<1>1. \A mode, n, flow : ~Still(Entry(mode, n, flow, TRUE)) /\ ~Still(Entry(mode, n, "stay", FALSE))
  BY DEF Still, Entry
<1>2. op # \he7 => ~Still(High6800(op))
  <2>1. op # \he7 => High6800(op) \in {Trap(0), Trap(1), Trap(2), Regular(op)}
    BY DEF High6800
  <2> QED BY <2>1, RegularTakesTime
<1>3. ~Still(Low6800(op))
  <2>1. Low6800(op) \in {Trap(0), Trap(1), Regular(op)}
    BY DEF Low6800
  <2> QED BY <2>1, RegularTakesTime
<1>4. ~Still(Low6301(op)) /\ ~Still(High6301(op))
  <2>1. Low6301(op) \in {Trap(0), Entry("memory_imm", 1, "next", TRUE),
                         Entry("memory_imm", 0, "next", TRUE), Regular(op)}
    BY DEF Low6301
  <2>2. High6301(op) \in {Trap(0), Trap(1), Regular(op)}
    BY DEF High6301
  <2> QED BY <1>1, <2>1, <2>2, RegularTakesTime
<1>5. ~Still(Low6303(op)) /\ ~Still(High6303(op))
  <2>1. Low6303(op) \in {Trap(0), Entry("memory_imm", 2, "next", TRUE), Regular(op)}
    BY DEF Low6303
  <2>2. High6303(op) \in {Trap(0), Trap(1), Regular(op)}
    BY DEF High6303
  <2> QED BY <1>1, <2>1, <2>2, RegularTakesTime
<1>6. ~Still(Low6811(op)) /\ ~Still(High6811(op))
  <2>1. Low6811(op) \in {Trap(0), Entry("inh", 0, "stay", FALSE),
                         Entry("bits_rel", 3, "branch", TRUE), Entry("bits", 2, "next", TRUE),
                         Regular(op)}
    BY DEF Low6811
  <2>2. High6811(op) \in {Trap(0), Trap(1), Entry("inh", 0, "next", TRUE),
                          Entry("inh", 0, "stay", TRUE), Regular(op)}
    BY DEF High6811
  <2> QED BY <1>1, <2>1, <2>2, RegularTakesTime
<1>7. /\ c = "m6800" => FirstPage(c, op) \in {Low6800(op), High6800(op)}
      /\ c # "m6800" => FirstPage(c, op) \in {Low6301(op), High6301(op), Low6303(op), High6303(op),
                                            Low6811(op), High6811(op)}
  BY DEF FirstPage
<1> QED BY <1>2, <1>3, <1>4, <1>5, <1>6, <1>7

LEMMA TimelessPages ==
  ASSUME NEW prefix \in Prefixes, NEW op \in CodeByte, Still(LaterPage(prefix, op))
  PROVE  prefix = \h18 /\ op \in {\hde, \hdf}
<1>1. \A mode, n, flow : ~Still(Entry(mode, n, flow, TRUE))
  BY DEF Still, Entry
<1>2. Low6811Page2(op) \in {Trap(0), Entry("inh", 0, "next", TRUE), Entry("bits_rel", 3, "branch", TRUE),
                            Entry("bits", 2, "next", TRUE), Regular(op)}
  BY DEF Low6811Page2
<1>3. op \notin {\hde, \hdf} =>
        High6811Page2(op) \in {Trap(0), Trap(1), Entry("inh", 0, "next", TRUE),
                              Entry("dir", 0, "next", TRUE), Regular(op)}
  BY DEF High6811Page2
<1>4. Page3(op) \in {Trap(0), Regular(op)} /\ Page4(op) \in {Trap(0), Regular(op)}
  BY DEF Page3, Page4
<1>5. /\ prefix = \h18 /\ op \in {\hde, \hdf} => LaterPage(prefix, op) = High6811Page2(op)
      /\ prefix = \h18 => LaterPage(prefix, op) \in {Low6811Page2(op), High6811Page2(op)}
      /\ prefix # \h18 => LaterPage(prefix, op) \in {Page3(op), Page4(op)}
  BY DEF LaterPage, Prefixes
<1>6. ~Still(Low6811Page2(op)) /\ ~Still(Page3(op)) /\ ~Still(Page4(op))
  BY <1>1, <1>2, <1>4, RegularTakesTime
<1>7. op \notin {\hde, \hdf} => ~Still(High6811Page2(op))
  BY <1>1, <1>3, RegularTakesTime, ZenonT(30)
<1>8. CASE prefix = \h18
  <2>1. Still(High6811Page2(op))
    BY <1>5, <1>6, <1>8
  <2> QED BY <1>7, <1>8, <2>1
<1>9. CASE prefix # \h18
  BY <1>5, <1>6, <1>9
<1> QED BY <1>8, <1>9

\* The 6805: MUL and entries that are empty.
LEMMA Timeless05 ==
  ASSUME NEW op \in CodeByte, Still(FirstPage("m6805", op))
  PROVE  op \in Timeless6805
<1>1. Row(op) \in 0 .. 15 /\ Column(op) \in 0 .. 15 /\ op = 16 * Row(op) + Column(op)
  BY DEF Row, Column, CodeByte
<1>2. \A mode, n, flow : ~Still(Entry(mode, n, flow, TRUE))
  BY DEF Still, Entry
<1>3. ~(Row(op) \in {4, 5} /\ Column(op) \in EmptyColumns) =>
        Low6805(op) \in {Entry("btb", 2, "branch", TRUE), Entry("bsc", 1, "next", TRUE),
                        Entry("rel", 1, RegularFlow(op), TRUE), Entry("dir", 1, "next", TRUE),
                        Entry("ix1", 1, "next", TRUE), Entry("ix0", 0, "next", TRUE),
                        Entry("inh", 0, "next", TRUE), Entry("inh", 1, "next", TRUE)}
  BY DEF Low6805
<1>4. Row(op) \in {4, 5} /\ Column(op) \in EmptyColumns => op \in Timeless6805
  BY <1>1 DEF EmptyColumns, Timeless6805, EmptyInAll
<1>5. Still(Low6805(op)) => op \in Timeless6805
  BY <1>2, <1>3, <1>4
<1>6. Row(op) > 10 => ~Still(High6805(op))
  <2>1. Row(op) > 10 => ~(Row(op) < 10) /\ Row(op) # 10
    BY <1>1
  <2>2. Row(op) > 10 => High6805(op) = Entry(MemoryMode6805(op), MemoryOperands6805(op), Flow6805(op), TRUE)
    BY <2>1, Zenon DEF High6805
  <2> QED BY <1>2, <2>2
<1>7. Row(op) = 10 /\ Still(High6805(op)) => op \in Timeless6805
  <2>1. op \notin {\ha7, \hac, \haf} => ~Still(Immediate6805(op))
    <3>1. op \notin {\ha7, \hac, \haf} =>
            Immediate6805(op) \in {Entry("rel", 1, "jump", TRUE), Entry("imm", 1, "next", TRUE)}
      BY DEF Immediate6805
    <3> QED BY <1>2, <3>1, ZenonT(30)
  <2>2. Row(op) = 10 => High6805(op) = Immediate6805(op)
    BY DEF High6805
  <2>3. {\ha7, \hac, \haf} \subseteq Timeless6805
    BY DEF Timeless6805
  <2> QED BY <2>1, <2>2, <2>3
<1>8. Row(op) \in 8 .. 9 /\ Still(High6805(op)) => op \in Timeless6805
  <2>1. Row(op) < 10 => High6805(op) = Entry("inh", 0, Flow6805(op), TakesTime6805(op))
    BY DEF High6805
  <2>2. Row(op) < 10 /\ Still(High6805(op)) => ~TakesTime6805(op)
    BY <2>1 DEF Still, Entry
  <2>3. Row(op) \in 8 .. 9 /\ ~TakesTime6805(op) => op \in Timeless6805
    BY <1>1 DEF TakesTime6805, Timeless6805
  <2> QED BY <1>1, <2>2, <2>3
<1>9. FirstPage("m6805", op) = IF op < 128 THEN Low6805(op) ELSE High6805(op)
  BY DEF FirstPage
<1> QED BY <1>1, <1>5, <1>6, <1>7, <1>8, <1>9

LEMMA TimelessKnown ==
  ASSUME NEW c \in Chips, NEW op \in CodeByte, NEW next \in CodeByte,
         Still(opcode_getentry(c, op, next))
  PROVE  KnownTimeless(c, op, next)
<1>1. CASE HasNextTable(c, op)
  <2>1. op \in Prefixes /\ c = "m6811"
    BY <1>1 DEF HasNextTable
  <2> QED BY <1>1, <2>1, TimelessPages DEF opcode_getentry, KnownTimeless
<1>2. CASE ~HasNextTable(c, op)
  BY <1>2, TimelessFamily, Timeless05 DEF opcode_getentry, KnownTimeless, Chips
<1> QED BY <1>1, <1>2

\* The time of SWI, which an interrupt takes, is not nothing.
LEMMA SwiTakesTime ==
  ASSUME NEW c \in Chips
  PROVE  FirstPage(c, IF c = "m6805" THEN \h83 ELSE \h3f).takes_time
<1>1. CASE c = "m6805"
  <2>1. FirstPage(c, \h83) = High6805(\h83)
    BY <1>1 DEF FirstPage
  <2>2. High6805(\h83) = Entry("inh", 0, Flow6805(\h83), TakesTime6805(\h83))
    BY DEF High6805, Row
  <2>3. TakesTime6805(\h83)
    BY DEF TakesTime6805
  <2> QED BY <1>1, <2>1, <2>2, <2>3 DEF Entry
<1>2. CASE c # "m6805"
  <2>1. FirstPage(c, \h3f) \in {Low6800(\h3f), Low6301(\h3f), Low6303(\h3f), Low6811(\h3f)}
    BY <1>2 DEF FirstPage, Chips
  <2>2. /\ Low6800(\h3f) = Regular(\h3f) /\ Low6301(\h3f) = Regular(\h3f)
        /\ Low6303(\h3f) = Regular(\h3f) /\ Low6811(\h3f) = Regular(\h3f)
    BY DEF Low6800, Low6301, Low6303, Low6811, EmptyInAll, EmptyInherent, MemoryImmediate
  <2> QED BY <1>2, <2>1, <2>2 DEF Regular, Entry
<1> QED BY <1>1, <1>2

-----------------------------------------------------------------------------
(* The walk.                                                               *)

\* Both go forward, by one byte at least.
LEMMA Forward ==
  ASSUME TypeOK, NEW a \in Address
  PROVE  /\ NextExecuted(a) \in Int /\ NextExecuted(a) > a
         /\ NextListed(a) \in Int /\ NextListed(a) > a
         /\ Sound(EntryAt(a))
<1>1. mem[a] \in CodeByte /\ (IF a < Last THEN mem[a + 1] ELSE 0) \in CodeByte
  BY LastAssumption, SMTT(30) DEF TypeOK, Address, CodeByte
<1>2. chip \in Chips
  BY ChipsAssumption DEF TypeOK
<1>3. Sound(EntryAt(a))
  BY <1>1, <1>2, Tables DEF EntryAt
<1>4. n_opcodes(chip, mem[a]) \in 1 .. 2
  BY DEF n_opcodes
<1> QED BY <1>3, <1>4 DEF NextExecuted, NextListed, Sound, Address

\* An entry that is misprinted is one of the known ones.
LEMMA MisprintsKnown ==
  ASSUME TypeOK, NEW a \in Address, Misprinted(a)
  PROVE  KnownMisprint(chip, mem[a], IF a < Last THEN mem[a + 1] ELSE 0)
<1>1. mem[a] \in CodeByte /\ (IF a < Last THEN mem[a + 1] ELSE 0) \in CodeByte
  BY LastAssumption DEF TypeOK, Address, CodeByte
<1>2. chip \in Chips
  BY ChipsAssumption DEF TypeOK
<1>3. ~Good(EntryAt(a))
  BY DEF Misprinted, NextExecuted, NextListed, Good, CountsRight
<1> QED BY <1>1, <1>2, <1>3, Tables DEF EntryAt

\* TypeOK is kept by every step.
THEOREM SpecTypeOK == Spec => []TypeOK
<1>1. Init => TypeOK
  <2>1. 0 \in 0 .. Last + 1
    BY LastAssumption
  <2> QED BY <2>1, ProgramsAssumption DEF Init, TypeOK
<1>2. ASSUME TypeOK, [Next]_vars
      PROVE  TypeOK'
  <2> DEFINE Counters == pc \in 0 .. Last + 1 /\ unasm_addr \in 0 .. Last + 1
             History == /\ executed \subseteq Address /\ listed \subseteq Address
                        /\ timeless \subseteq Address
             Flags == followed \in BOOLEAN /\ misprinted \in BOOLEAN
  <2>1. CASE Execute
    <3>1. Counters'
      BY <1>2, <2>1, Forward, LastAssumption, SMTT(30) DEF Execute, Whole, Address, TypeOK
    <3>2. History'
      BY <1>2, <2>1 DEF Execute, Whole, Advance, TypeOK
    <3>3. Flags'
      BY <1>2, <2>1 DEF Execute, TypeOK, Misprinted
    <3> QED BY <1>2, <2>1, <3>1, <3>2, <3>3 DEF Execute, TypeOK
  <2>2. CASE ExecuteJump
    <3>1. Counters'
      BY <1>2, <2>2, LastAssumption DEF ExecuteJump, Address, TypeOK
    <3>2. History'
      BY <1>2, <2>2 DEF ExecuteJump, StopFollowing, Whole, Advance, TypeOK
    <3> QED BY <1>2, <2>2, <3>1, <3>2 DEF ExecuteJump, StopFollowing, TypeOK
  <2>3. CASE ExecuteStay
    <3>1. History'
      BY <1>2, <2>3 DEF ExecuteStay, Whole, Advance, TypeOK
    <3> QED BY <1>2, <2>3, <3>1 DEF ExecuteStay, TypeOK
  <2>4. CASE Interrupt
    <3>1. Counters'
      BY <1>2, <2>4, LastAssumption DEF Interrupt, Address, TypeOK
    <3>2. History'
      BY <1>2, <2>4 DEF Interrupt, StopFollowing, TypeOK
    <3> QED BY <1>2, <2>4, <3>1, <3>2 DEF Interrupt, StopFollowing, TypeOK
  <2>5. CASE Unassemble
    <3>1. Counters'
      BY <1>2, <2>5, Forward, LastAssumption, SMTT(30) DEF Unassemble, Whole, Address, TypeOK
    <3>2. History'
      BY <1>2, <2>5 DEF Unassemble, Whole, TypeOK
    <3>3. Flags'
      BY <1>2, <2>5 DEF Unassemble, TypeOK, Misprinted
    <3> QED BY <1>2, <2>5, <3>1, <3>2, <3>3 DEF Unassemble, TypeOK
  <2>6. ASSUME NEW a \in Address, UnassembleFrom(a)
        PROVE  TypeOK'
    <3>1. Counters'
      BY <1>2, <2>6, LastAssumption DEF UnassembleFrom, TypeOK, Address
    <3>2. Flags'
      BY <1>2, <2>6 DEF UnassembleFrom
    <3> QED BY <1>2, <2>6, <3>1, <3>2 DEF UnassembleFrom, TypeOK
  <2>7. CASE UNCHANGED vars
    BY <1>2, <2>7 DEF vars, TypeOK
  <2> QED BY <1>2, <2>1, <2>2, <2>3, <2>4, <2>5, <2>6, <2>7 DEF Next
<1> QED BY <1>1, <1>2, PTL DEF Spec

\* The addresses without time lie before the program counter: only a jump leads back.  And
\* they hold an entry without time.
Behind ==
  \A a \in timeless :
    a < pc /\ KnownTimeless(chip, mem[a], IF a < Last THEN mem[a + 1] ELSE 0)

\* Whatever takes the program counter on from an address without time, it is of the entries named.
LEMMA AdvanceKeepsBehind ==
  ASSUME TypeOK, TypeOK', Behind, Whole(pc), Advance(pc, EntryAt(pc)), UNCHANGED <<chip, mem>>,
         \/ pc' > pc
         \/ ~Still(EntryAt(pc))
  PROVE  Behind'
<1>1. /\ pc \in Int
      /\ mem[pc] \in CodeByte /\ (IF pc < Last THEN mem[pc + 1] ELSE 0) \in CodeByte /\ chip \in Chips
  BY LastAssumption, ChipsAssumption DEF TypeOK, Whole, Address, CodeByte
<1>2. CASE ~Still(EntryAt(pc))
  BY <1>2 DEF Advance, Still, Behind
<1>3. CASE Still(EntryAt(pc)) /\ pc' > pc
  <2>1. KnownTimeless(chip, mem[pc], IF pc < Last THEN mem[pc + 1] ELSE 0)
    BY <1>1, <1>3, TimelessKnown DEF EntryAt
  <2>2. timeless' = timeless \cup {pc}
    BY <1>3 DEF Advance, Still
  <2>3. ASSUME NEW a \in timeless'
        PROVE  a < pc' /\ KnownTimeless(chip, mem[a], IF a < Last THEN mem[a + 1] ELSE 0)
    <3>1. a \in Int /\ pc' \in Int
      BY <2>3, LastAssumption DEF TypeOK, Address
    <3> QED BY <1>1, <1>3, <2>1, <2>2, <2>3, <3>1 DEF Behind
  <2>4. chip' = chip /\ mem' = mem
    OBVIOUS
  <2> QED BY <2>3, <2>4 DEF Behind, KnownTimeless
<1> QED BY <1>2, <1>3

\* A program that goes round in a loop takes time, at any length of the program.
THEOREM SpecTimePasses == Spec => []TimePasses
<1>1. Init => Behind
  BY DEF Init, Behind
<1>2. ASSUME TypeOK, TypeOK', Behind, [Next]_vars
      PROVE  Behind'
  <2>1. CASE Execute
    <3>1. pc' > pc
      BY <1>2, <2>1, Forward DEF Execute, Whole
    <3> QED BY <1>2, <2>1, <3>1, AdvanceKeepsBehind DEF Execute
  <2>2. CASE ExecuteJump
    <3>1. ~Still(EntryAt(pc))
      BY <1>2, <2>2, Forward DEF ExecuteJump, Whole, Sound, Still
    <3> QED BY <1>2, <2>2, <3>1, AdvanceKeepsBehind DEF ExecuteJump
  <2>3. CASE ExecuteStay
    <3>1. ~Still(EntryAt(pc))
      BY <2>3 DEF ExecuteStay, Still
    <3> QED BY <1>2, <2>3, <3>1, AdvanceKeepsBehind DEF ExecuteStay
  <2>4. CASE Interrupt
    <3>1. SwiEntry.takes_time
      BY <1>2, SwiTakesTime, ChipsAssumption DEF SwiEntry, TypeOK
    <3> QED BY <2>4, <3>1 DEF Interrupt, Behind
  <2>5. CASE Unassemble
    BY <1>2, <2>5 DEF Unassemble, Behind, KnownTimeless
  <2>6. ASSUME NEW a \in Address, UnassembleFrom(a)
        PROVE  Behind'
    BY <1>2, <2>6 DEF UnassembleFrom, Behind, KnownTimeless
  <2>7. CASE UNCHANGED vars
    BY <1>2, <2>7 DEF vars, Behind, KnownTimeless
  <2> QED BY <1>2, <2>1, <2>2, <2>3, <2>4, <2>5, <2>6, <2>7 DEF Next
<1>3. TypeOK /\ Behind => TimePasses
  BY LastAssumption DEF TypeOK, Behind, KnownTimeless, TimePasses, Address
<1> QED BY <1>1, <1>2, <1>3, SpecTypeOK, PTL DEF Spec

-----------------------------------------------------------------------------
(* Listing and execution in step.                                          *)

\* The addresses executed are a chain that ends at the program counter; none of them jumped.
ExecutedChain ==
  /\ \A a \in executed : a < pc /\ EntryAt(a).flow # "trap"
  /\ \A a \in executed : NextExecuted(a) = pc \/ NextExecuted(a) \in executed
  /\ \A a, b \in executed : a < b => NextExecuted(a) <= b

\* The addresses listed are one that ends where the listing goes on.
ListedChain ==
  /\ \A a \in listed : a < unasm_addr
  /\ \A a \in listed : NextListed(a) = unasm_addr \/ NextListed(a) \in listed
  /\ \A a, b \in listed : a < b => NextListed(a) <= b

\* With no misprint met, the one that is behind stands on the chain of the other.
OnTheOther ==
  /\ pc < unasm_addr => pc \in listed
  /\ unasm_addr < pc => unasm_addr \in executed
  /\ \A a \in executed \cup listed : ~Misprinted(a)

WalkInv ==
  /\ ExecutedChain
  /\ ListedChain
  /\ ~followed => executed = {} /\ listed = {}
  /\ followed /\ ~misprinted => OnTheOther /\ InStep

\* The program and the chip do not change, so neither does what they say of an address.
LEMMA SameProgram ==
  ASSUME UNCHANGED <<chip, mem>>
  PROVE  \A a : /\ EntryAt(a)' = EntryAt(a)
                /\ NextExecuted(a)' = NextExecuted(a) /\ NextListed(a)' = NextListed(a)
                /\ Misprinted(a)' = Misprinted(a)
  BY DEF EntryAt, NextExecuted, NextListed, Misprinted

\* The step of the execution: the next address is on the chain of what is listed.
LEMMA ExecuteKeepsInv ==
  ASSUME TypeOK, TypeOK', WalkInv, Execute
  PROVE  WalkInv'
<1> USE DEF Execute
<1>1. /\ pc \in Address /\ pc' = NextExecuted(pc) /\ pc' \in Int /\ pc' > pc
      /\ pc \in Int /\ unasm_addr \in Int
      /\ \A a \in Address : NextExecuted(a) \in Int /\ NextExecuted(a) > a
      /\ \A a \in executed \cup listed : a \in Int
  BY Forward, LastAssumption DEF Whole, TypeOK, Address
<1>2. \A a : /\ EntryAt(a)' = EntryAt(a)
             /\ NextExecuted(a)' = NextExecuted(a) /\ NextListed(a)' = NextListed(a)
             /\ Misprinted(a)' = Misprinted(a)
  BY SameProgram
<1>3. ListedChain'
  BY <1>2 DEF WalkInv, ListedChain
<1>4. CASE ~followed
  <2>1. executed' = {} /\ listed' = {} /\ ~followed'
    BY <1>4 DEF WalkInv
  <2> QED BY <1>3, <2>1 DEF WalkInv, ExecutedChain
<1>5. CASE followed
  <2>1. executed' = executed \cup {pc} /\ listed' = listed /\ unasm_addr' = unasm_addr
    BY <1>5
  <2>2. ExecutedChain'
    <3>1. \A a \in executed' : a < pc' /\ EntryAt(a)'.flow # "trap"
      <4>1. \A a \in executed : a < pc /\ EntryAt(a)'.flow # "trap"
        BY <1>2 DEF WalkInv, ExecutedChain
      <4>2. \A a : a = pc => EntryAt(a)'.flow # "trap"
        BY <1>2
      <4>3. \A a \in executed : a < pc'
        BY <1>1, <4>1 DEF TypeOK
      <4> QED BY <1>1, <2>1, <4>1, <4>2, <4>3
    <3>2. \A a \in executed' : NextExecuted(a)' = pc' \/ NextExecuted(a)' \in executed'
      BY <1>1, <1>2, <2>1 DEF WalkInv, ExecutedChain
    <3>3. \A a, b \in executed' : a < b => NextExecuted(a)' <= b
      BY <1>1, <1>2, <2>1 DEF WalkInv, ExecutedChain, TypeOK, Address
    <3> QED BY <3>1, <3>2, <3>3 DEF ExecutedChain
  <2>3. ASSUME ~misprinted'
        PROVE  (OnTheOther /\ InStep)'
    <3>1. ~misprinted /\ ~Misprinted(pc) /\ OnTheOther /\ InStep
      BY <1>5, <2>3 DEF WalkInv
    <3>2. pc < unasm_addr => pc \in listed /\ NextListed(pc) = pc'
      BY <1>1, <3>1 DEF OnTheOther, Misprinted
    <3>3. pc < unasm_addr => pc' = unasm_addr \/ pc' \in listed
      BY <3>2 DEF WalkInv, ListedChain
    <3>4. /\ pc' < unasm_addr => pc' \in listed
          /\ unasm_addr < pc' => unasm_addr \in executed'
      <4>1. \A a \in listed : a < unasm_addr
        BY DEF WalkInv, ListedChain
      <4>2. CASE pc < unasm_addr
        BY <1>1, <3>3, <4>1, <4>2
      <4>3. CASE unasm_addr < pc
        BY <1>1, <2>1, <3>1, <4>3 DEF OnTheOther
      <4>4. CASE unasm_addr = pc
        BY <1>1, <2>1, <4>4
      <4> QED BY <1>1, <4>2, <4>3, <4>4
    <3>5. \A a \in executed' : a < unasm_addr => a \in listed
      BY <2>1, <3>1, <3>2 DEF InStep
    <3>6. \A a \in listed : a < pc' => a \in executed'
      <4> TAKE a \in listed
      <4> HAVE a < pc'
      <4> a \in Int /\ pc \in Int /\ a < unasm_addr
        BY <1>1 DEF WalkInv, ListedChain, Address
      <4>1. CASE a < pc
        BY <2>1, <3>1, <4>1 DEF InStep
      <4>2. CASE a > pc
        <5>1. pc < unasm_addr
          BY <1>1, <4>2
        <5>2. NextListed(pc) <= a
          BY <3>2, <4>2, <5>1 DEF WalkInv, ListedChain
        <5> QED BY <1>1, <3>2, <5>1, <5>2
      <4> QED BY <1>1, <2>1, <4>1, <4>2
    <3> QED BY <1>2, <2>1, <3>1, <3>4, <3>5, <3>6 DEF OnTheOther, InStep
  <2> QED BY <1>3, <1>5, <2>2, <2>3 DEF WalkInv
<1> QED BY <1>4, <1>5

\* The step of the listing: the next address is on the chain of what is executed.
LEMMA UnassembleKeepsInv ==
  ASSUME TypeOK, TypeOK', WalkInv, Unassemble
  PROVE  WalkInv'
<1> USE DEF Unassemble
<1>1. /\ unasm_addr \in Address /\ unasm_addr' = NextListed(unasm_addr)
      /\ unasm_addr' \in Int /\ unasm_addr' > unasm_addr
      /\ unasm_addr \in Int /\ pc \in Int
      /\ \A a \in Address : NextListed(a) \in Int /\ NextListed(a) > a
      /\ \A a \in executed \cup listed : a \in Int
  BY Forward, LastAssumption, SMTT(30) DEF Whole, TypeOK, Address
<1>2. \A a : /\ EntryAt(a)' = EntryAt(a)
             /\ NextExecuted(a)' = NextExecuted(a) /\ NextListed(a)' = NextListed(a)
             /\ Misprinted(a)' = Misprinted(a)
  BY SameProgram
<1>3. ExecutedChain'
  BY <1>2 DEF WalkInv, ExecutedChain
<1>4. CASE ~followed
  <2>1. executed' = {} /\ listed' = {} /\ ~followed'
    BY <1>4 DEF WalkInv
  <2> QED BY <1>3, <2>1 DEF WalkInv, ListedChain
<1>5. CASE followed
  <2>1. listed' = listed \cup {unasm_addr} /\ executed' = executed /\ pc' = pc
    BY <1>5
  <2>2. ListedChain'
    <3>1. \A a \in listed' : a < unasm_addr'
      BY <1>1, <2>1 DEF WalkInv, ListedChain
    <3>2. \A a \in listed' : NextListed(a)' = unasm_addr' \/ NextListed(a)' \in listed'
      BY <1>1, <1>2, <2>1 DEF WalkInv, ListedChain
    <3>3. \A a, b \in listed' : a < b => NextListed(a)' <= b
      BY <1>1, <1>2, <2>1 DEF WalkInv, ListedChain, TypeOK, Address
    <3> QED BY <3>1, <3>2, <3>3 DEF ListedChain
  <2>3. ASSUME ~misprinted'
        PROVE  (OnTheOther /\ InStep)'
    <3>1. ~misprinted /\ ~Misprinted(unasm_addr) /\ OnTheOther /\ InStep
      BY <1>5, <2>3 DEF WalkInv
    <3>2. unasm_addr < pc => unasm_addr \in executed /\ NextExecuted(unasm_addr) = unasm_addr'
      BY <1>1, <3>1 DEF OnTheOther, Misprinted, WalkInv, ExecutedChain
    <3>3. unasm_addr < pc => unasm_addr' = pc \/ unasm_addr' \in executed
      BY <3>2 DEF WalkInv, ExecutedChain
    <3>4. /\ unasm_addr' < pc => unasm_addr' \in executed
          /\ pc < unasm_addr' => pc \in listed'
      <4>1. \A a \in executed : a < pc
        BY DEF WalkInv, ExecutedChain
      <4>2. CASE unasm_addr < pc
        BY <1>1, <3>3, <4>1, <4>2
      <4>3. CASE pc < unasm_addr
        BY <1>1, <2>1, <3>1, <4>3 DEF OnTheOther
      <4>4. CASE unasm_addr = pc
        BY <1>1, <2>1, <4>4
      <4> QED BY <1>1, <4>2, <4>3, <4>4
    <3>5. \A a \in listed' : a < pc => a \in executed
      BY <2>1, <3>1, <3>2 DEF InStep
    <3>6. \A a \in executed : a < unasm_addr' => a \in listed'
      <4> TAKE a \in executed
      <4> HAVE a < unasm_addr'
      <4> a \in Int /\ unasm_addr \in Int /\ a < pc
        BY <1>1 DEF WalkInv, ExecutedChain, Address
      <4>1. CASE a < unasm_addr
        BY <2>1, <3>1, <4>1 DEF InStep
      <4>2. CASE a > unasm_addr
        <5>1. unasm_addr < pc
          BY <1>1, <4>2
        <5>2. NextExecuted(unasm_addr) <= a
          BY <3>2, <4>2, <5>1 DEF WalkInv, ExecutedChain
        <5> QED BY <1>1, <3>2, <5>1, <5>2
      <4> QED BY <1>1, <2>1, <4>1, <4>2
    <3> QED BY <1>2, <2>1, <3>1, <3>4, <3>5, <3>6 DEF OnTheOther, InStep
  <2> QED BY <1>3, <1>5, <2>2, <2>3 DEF WalkInv
<1> QED BY <1>4, <1>5

\* The strengthening of OnlyKnownMisprints: every step keeps it.
THEOREM SpecWalkInv == Spec => []WalkInv
<1>1. Init => WalkInv
  BY DEF Init, WalkInv, ExecutedChain, ListedChain, OnTheOther, InStep
<1>2. ASSUME TypeOK, TypeOK', WalkInv, [Next]_vars
      PROVE  WalkInv'
  <2>1. CASE Execute
    BY <1>2, <2>1, ExecuteKeepsInv
  <2>2. CASE ExecuteJump
    BY <2>2 DEF ExecuteJump, StopFollowing, WalkInv, ExecutedChain, ListedChain
  <2>3. CASE ExecuteStay
    <3>1. UNCHANGED <<chip, mem, pc, unasm_addr, executed, listed, followed, misprinted>>
      BY <2>3 DEF ExecuteStay
    <3> QED BY <1>2, <3>1, SameProgram
            DEF WalkInv, ExecutedChain, ListedChain, OnTheOther, InStep
  <2>4. CASE Interrupt
    BY <2>4 DEF Interrupt, StopFollowing, WalkInv, ExecutedChain, ListedChain
  <2>5. CASE Unassemble
    BY <1>2, <2>5, UnassembleKeepsInv
  <2>6. ASSUME NEW a \in Address, UnassembleFrom(a)
        PROVE  WalkInv'
    <3>1. executed' = {} /\ listed' = {} /\ (followed' => pc' = unasm_addr') /\ pc' \in Int
      BY <1>2, <2>6, LastAssumption DEF UnassembleFrom, TypeOK
    <3> QED BY <3>1 DEF WalkInv, ExecutedChain, ListedChain, OnTheOther, InStep
  <2>7. CASE UNCHANGED vars
    <3>1. UNCHANGED <<chip, mem, pc, unasm_addr, executed, listed, followed, misprinted>>
      BY <2>7 DEF vars
    <3> QED BY <1>2, <3>1, SameProgram
            DEF WalkInv, ExecutedChain, ListedChain, OnTheOther, InStep
  <2> QED BY <1>2, <2>1, <2>2, <2>3, <2>4, <2>5, <2>6, <2>7 DEF Next
<1> QED BY <1>1, <1>2, SpecTypeOK, PTL DEF Spec

\* A listing that starts at the program counter shows what is executed up to the first jump,
\* on every program of the five chips that avoids the entries named.
THEOREM SpecOnlyKnownMisprints == Spec => []OnlyKnownMisprints
<1>1. TypeOK /\ WalkInv => OnlyKnownMisprints
  <2> SUFFICES ASSUME TypeOK, WalkInv
               PROVE  OnlyKnownMisprints
    OBVIOUS
  <2>1. followed /\ ~misprinted => InStep
    BY DEF WalkInv
  <2>2. ASSUME NEW a \in executed \cup listed, Misprinted(a)
        PROVE  \/ chip = "h6301" /\ mem[a] \in MemoryImmediate
               \/ chip = "m6811" /\ mem[a] = \h18 /\ mem[a + 1] = \h9c
               \/ chip = "m6805" /\ mem[a] \in {\h61, \h62, \h65, \h6b, \h6e, \ha7}
    <3>1. KnownMisprint(chip, mem[a], IF a < Last THEN mem[a + 1] ELSE 0)
      BY <2>2, MisprintsKnown DEF TypeOK
    <3> QED BY <3>1 DEF KnownMisprint
  <2> QED BY <2>1, <2>2 DEF OnlyKnownMisprints
<1> QED BY <1>1, SpecTypeOK, SpecWalkInv, PTL
=============================================================================
