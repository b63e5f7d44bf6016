-------------------------- MODULE Timer6303Registers --------------------------
(* The sizes and the bits of the HD6303's timer registers (chip.h), and the *)
(* bounds set to what a program does with them.                            *)
EXTENDS Integers

CONSTANTS
  ByteSize,     \* number of values of a byte of the counter and compare registers
  MaxCycles,    \* the most cycles an instruction takes
  WrittenBits,  \* bound of the model: the bits a program sets in TCSR1 and TCSR2
  WrittenBytes, \* bound of the model: the bytes a program writes to OCR1 and OCR2
  WrittenT2,    \* bound of the model: the bytes it writes to timer 2's registers
  T2Counting,   \* the bytes that have bit TE2 set
  Prescaler     \* what each byte, by its bits CKS1 and CKS0, divides the clock of timer 2 by

Byte == 0 .. ByteSize - 1
MaxWord == ByteSize * ByteSize - 1
Word(w) == w.hi * ByteSize + w.lo

\* Bit numbers in TCSR1 and TCSR2.  Bit 5 is TOF in the one and OCF2 in the other.
ETOI == 2
EOCI1 == 3
EICI == 4
TOF == 5
OCF1 == 6
ICF == 7
EOCI2 == 3
OCF2 == 5
TcsrBit == 2 .. 7

ASSUME ByteAssumption == ByteSize \in Nat /\ ByteSize >= 2
ASSUME CyclesAssumption == MaxCycles \in 1 .. MaxWord
ASSUME WrittenAssumption ==
  WrittenBits \subseteq TcsrBit /\ WrittenBytes \subseteq Byte /\ WrittenT2 \subseteq Byte
ASSUME T2Assumption == T2Counting \subseteq Byte /\ Prescaler \in [Byte -> Nat \ {0}]

=============================================================================
