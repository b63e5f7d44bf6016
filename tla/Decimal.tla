------------------------------- MODULE Decimal -------------------------------
(***************************************************************************)
(* Decimal programs: packed numbers, two digits in a byte, added with      *)
(* ADDA, ABA or ADCA and adjusted with DAA (opfunc.c), which relies on the *)
(* H and the C that the addition left, and leaves in C the carry into the  *)
(* next byte.  BITS is 8 and HALF is 4 here: DAA knows the width.          *)
(***************************************************************************)
EXTENDS Alu

VARIABLES
  acca,
  ccr,
  sum    \* history: the decimal sum that A and C stand for, before and after DAA

vars == <<acca, ccr, sum>>

Digits == 0 .. 9
Packed == {16 * h + l : h \in Digits, l \in Digits}
decimal(byte) == 10 * (byte \div 16) + (byte % 16)

NoSum == [kind |-> "none", value |-> 0]

add(v, carry) ==
  LET op == addbyte(ccr, acca, v, carry)
  IN  /\ acca' = op.r /\ ccr' = op.ccr
      /\ sum' = IF acca \in Packed /\ v \in Packed
                THEN [kind |-> "binary", value |-> decimal(acca) + decimal(v) + carry]
                ELSE NoSum

\* ADDA or ABA, and ADCA of the next byte, of packed numbers.
adda(v) == add(v, 0)
adca(v) == add(v, ccr.C)

daa_inh ==
  LET op == daa(ccr, acca)
  IN  /\ acca' = op.r /\ ccr' = op.ccr
      /\ sum' = IF sum.kind = "binary" THEN [sum EXCEPT !.kind = "decimal"] ELSE NoSum

\* LDAA of the next byte: C stays, for ADCA.
ldaa(v) ==
  /\ acca' = v /\ ccr' = bittest(ccr, BITS, v) /\ sum' = NoSum

\* STAA, which leaves H and C.
staa == ccr' = bittest(ccr, BITS, acca) /\ UNCHANGED <<acca, sum>>

\* INC and DEC of a byte in memory, a counter of the loop.
inc_mem(v) == ccr' = incbyte(ccr, v).ccr /\ UNCHANGED <<acca, sum>>
dec_mem(v) == ccr' = decbyte(ccr, v).ccr /\ UNCHANGED <<acca, sum>>

\* INCA, the wrong way to add one to a decimal number.
inca ==
  LET op == incbyte(ccr, acca)
  IN  acca' = op.r /\ ccr' = op.ccr /\ sum' = NoSum

\* CLC and SEC.
setc(c) == ccr' = [ccr EXCEPT !.C = c] /\ sum' = NoSum /\ UNCHANGED acca

Init == acca = 0 /\ ccr = [H |-> 0, N |-> 0, Z |-> 0, V |-> 0, C |-> 0] /\ sum = NoSum

Next ==
  \/ \E v \in Packed : adda(v) \/ adca(v) \/ ldaa(v)
  \/ daa_inh \/ staa \/ inca
  \/ \E v \in Byte : inc_mem(v) \/ dec_mem(v)
  \/ \E c \in {0, 1} : setc(c)

Spec == Init /\ [][Next]_vars

-----------------------------------------------------------------------------
\* "Decimal adjust sum of 2 BCD digits in A to two BCD nibbles in A" (opfunc.c): DAA makes the
\* sum of packed bytes, with a carry in or without, a packed byte again, with the hundreds in
\* C; stores and loop counters may be executed before DAA and after it.
DecimalSum ==
  sum.kind = "decimal" => acca \in Packed /\ decimal(acca) + 100 * ccr.C = sum.value
=============================================================================
