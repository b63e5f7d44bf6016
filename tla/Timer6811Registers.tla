-------------------------- MODULE Timer6811Registers --------------------------
(* The sizes and the bits of the MC68HC11's timer registers (chip.h), and  *)
(* the bounds set to what a program does with them.                        *)
EXTENDS Integers

CONSTANTS
  ByteSize,        \* number of values of a byte of the counter and compare registers
  MaxCycles,       \* the most cycles an instruction takes
  LongExceedsInt,  \* the build: long is wider than u_int
  IntSize,         \* number of values of u_int
  Compare,         \* bound of the model: the compare registers there are, of 1 .. 5
  WrittenCompare,  \* bound of the model: those a program writes to
  WrittenBytes,    \* bound of the model: the bytes a program writes to TOC1 .. TOC5
  WrittenFlags,    \* bound of the model: the bits a program writes to TFLG1
  WrittenMasks     \* bound of the model: the bits a program writes to TMSK1

Byte == 0 .. ByteSize - 1
MaxWord == ByteSize * ByteSize - 1
Word(w) == w.hi * ByteSize + w.lo

\* The flags of TFLG1 and their enable bits in TMSK1: OC1F .. OC5F, and one for the three
\* input captures.
IC == 6
Flag == Compare \cup {IC}

ASSUME ByteAssumption == ByteSize \in Nat /\ ByteSize >= 2
ASSUME CyclesAssumption == MaxCycles \in 1 .. MaxWord
ASSUME IntAssumption ==
  LongExceedsInt \in BOOLEAN /\ IntSize \in Nat \ {0} /\ IntSize % (MaxWord + 1) = 0
ASSUME CompareAssumption == 1 \in Compare /\ Compare \subseteq 1 .. 5
ASSUME WrittenAssumption ==
  /\ WrittenCompare \subseteq Compare /\ WrittenBytes \subseteq Byte
  /\ WrittenFlags \cup WrittenMasks \subseteq Flag

=============================================================================
