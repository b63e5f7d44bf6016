------------------------------- MODULE Opcodes -------------------------------
(***************************************************************************)
(* The opcode tables (optab.c of each chip): which kind of function        *)
(* executes an opcode, how many operand bytes the table says it has, and   *)
(* whether it takes any cycles; and how many bytes the functions of        *)
(* opfunc.c really take at the program counter.  The two counts are        *)
(* written by hand in different files.                                     *)
(*                                                                         *)
(* Of a function the model keeps its addressing mode, the end of its name, *)
(* and where it leaves the program counter:                                *)
(*   "next"    behind the operands                                         *)
(*   "branch"  behind the operands or elsewhere                            *)
(*   "jump"    elsewhere                                                   *)
(*   "trap"    where the trap vector says                                  *)
(*   "stay"    at the instruction itself                                   *)
(*                                                                         *)
(* Each table is in two halves.  The tables of the 6800 family have the    *)
(* same addressing mode in most of a row of 16 opcodes.                    *)
(***************************************************************************)
EXTENDS Integers

CodeByte == 0 .. 255

Chips == {"m6800", "h6301", "h6303", "m6811", "m6805"}

Entry(mode, n_operands, flow, takes_time) ==
  [mode |-> mode, n_operands |-> n_operands, flow |-> flow, takes_time |-> takes_time]

\* The cycles of an entry whose function goes to the trap vector are left out.
Trap(n_operands) == Entry("inh", n_operands, "trap", TRUE)

-----------------------------------------------------------------------------
(* The bytes the functions take from the program (opfunc.c).               *)

\* getaddr_*, getbyte_*, getword_* of the 6800 family: "word" is an immediate word.
TakesOperand(mode) ==
  CASE mode = "inh" -> 0
    [] mode \in {"rel", "imm", "dir", "ind"} -> 1
    [] mode \in {"word", "ext"} -> 2

\* aim, eim, oim and tim: the immediate byte and an address or offset.
TakesMemoryImmediate == 2

\* bset and bclr: address or offset, then the mask; brset and brclr: the branch offset too.
TakesBits == 2
TakesBitsBranch == 3

\* Modes of the 6805: no offset, one, two; a bit in the opcode and an address, and a branch.
Takes6805(mode) ==
  CASE mode = "ix0" -> 0
    [] mode \in {"ix1", "bsc"} -> 1
    [] mode \in {"ix2", "btb"} -> 2

n_taken(mode) ==
  CASE mode = "memory_imm" -> TakesMemoryImmediate
    [] mode = "bits" -> TakesBits
    [] mode = "bits_rel" -> TakesBitsBranch
    [] mode \in {"ix0", "ix1", "bsc", "ix2", "btb"} -> Takes6805(mode)
    [] OTHER -> TakesOperand(mode)

-----------------------------------------------------------------------------
(* What the tables of the 6800 family share.                               *)

Row(op) == op \div 16

ImmediateWords == {\h83, \h8c, \h8e, \hc3, \hcc, \hce}

RegularMode(op) ==
  CASE Row(op) \in {0, 1, 3, 4, 5} -> "inh"
    [] Row(op) = 2 \/ op = \h8d -> "rel"
    [] Row(op) \in {6, 10, 14} -> "ind"
    [] Row(op) \in {9, 13} -> "dir"
    [] Row(op) \in {7, 11, 15} -> "ext"
    [] op \in ImmediateWords -> "word"
    [] OTHER -> "imm"

\* Mutant: the words loaded and compared at once are counted as bytes.
RegularOperands_byte_immediates(op) ==
  CASE Row(op) \in {0, 1, 3, 4, 5} -> 0
    [] Row(op) \in {7, 11, 15} -> 2
    [] OTHER -> 1

RegularOperands(op) ==
  CASE Row(op) \in {0, 1, 3, 4, 5} -> 0
    [] Row(op) \in {7, 11, 15} \/ op \in ImmediateWords -> 2
    [] OTHER -> 1

\* BRA and BSR, RTS, RTI, SWI, JMP, JSR; the branches but BRA and BRN.
RegularFlow(op) ==
  CASE op \in {\h20, \h8d, \h39, \h3b, \h3f, \h6e, \h7e, \h9d, \had, \hbd} -> "jump"
    [] Row(op) = 2 /\ op \notin {\h20, \h21} -> "branch"
    [] OTHER -> "next"

\* Mutant: a row of the table without cycles, as ldy_dir of the 6811 is.
Regular_untimed_branches(op) ==
  Entry(RegularMode(op), RegularOperands(op), RegularFlow(op), Row(op) # 2)

Regular(op) == Entry(RegularMode(op), RegularOperands(op), RegularFlow(op), TRUE)

\* Empty in every table of the family: the rows of A and B and of the operands in memory.
EmptyInAll == {\h41, \h42, \h45, \h4b, \h4e, \h51, \h52, \h55, \h5b, \h5e}
MemoryImmediate == {\h61, \h62, \h65, \h6b, \h71, \h72, \h75, \h7b}
\* Empty in rows 0 and 1 of the 6301 and 6303.
EmptyInherent == {\h00, \h02, \h03, \h12, \h13, \h14, \h15, \h1c, \h1d, \h1e, \h1f}

-----------------------------------------------------------------------------
(* 6303                                                                    *)

Low6303(op) ==
  CASE op \in EmptyInAll \cup EmptyInherent -> Trap(0)
    [] op \in MemoryImmediate -> Entry("memory_imm", 2, "next", TRUE)
    [] OTHER -> Regular(op)

High6303(op) ==
  CASE op = \h87 -> Trap(1)
    [] op \in {\h8f, \hc7, \hcd, \hcf} -> Trap(0)
    [] OTHER -> Regular(op)

-----------------------------------------------------------------------------
(* 6301                                                                    *)

Low6301(op) ==
  CASE op \in EmptyInAll \cup EmptyInherent -> Trap(0)
    [] op \in MemoryImmediate -> Entry("memory_imm", IF Row(op) = 6 THEN 1 ELSE 0, "next", TRUE)
    [] OTHER -> Regular(op)

High6301(op) ==
  CASE op = \h87 -> Trap(1)
    [] op \in {\h8f, \hc7, \hcd, \hcf} -> Trap(0)
    [] OTHER -> Regular(op)

-----------------------------------------------------------------------------
(* 6800: without what the 6801 added; some entries keep its operand count. *)

Low6800(op) ==
  CASE op \in EmptyInAll \cup EmptyInherent \cup MemoryImmediate
              \cup {\h04, \h05, \h18, \h1a, \h38, \h3a, \h3c, \h3d} -> Trap(0)
    [] op = \h21 -> Trap(1)
    [] OTHER -> Regular(op)

High6800(op) ==
  CASE op \in {\h83, \h8f, \hc7, \hcd, \hcf, \hdd, \hed, \hfd} -> Trap(0)
    [] op \in {\h87, \h93, \h9d, \ha3, \hb3, \hd3, \hdc, \he3, \hec} -> Trap(1)
    [] op \in {\hc3, \hcc, \hf3, \hfc} -> Trap(2)
    [] op = \he7 -> Entry("ind", 1, "next", FALSE)
    [] OTHER -> Regular(op)

-----------------------------------------------------------------------------
(* 6811: three prefixes lead to further tables.                            *)

Prefixes == {\h18, \h1a, \hcd}

Low6811(op) ==
  CASE op \in EmptyInAll \cup MemoryImmediate -> Trap(0)
    [] op = \h00 -> Entry("inh", 0, "stay", FALSE)
    [] op \in {\h12, \h13, \h1e, \h1f} -> Entry("bits_rel", 3, "branch", TRUE)
    [] op \in {\h14, \h15, \h1c, \h1d} -> Entry("bits", 2, "next", TRUE)
    [] OTHER -> Regular(op)

High6811(op) ==
  CASE op = \h87 -> Trap(1)
    [] op = \hc7 -> Trap(0)
    [] op = \h8f -> Entry("inh", 0, "next", TRUE)
    [] op = \hcf -> Entry("inh", 0, "stay", TRUE)
    [] OTHER -> Regular(op)

\* Page 2: the instructions of page 1 on Y instead of X.
Low6811Page2(op) ==
  CASE op \in {\h08, \h09, \h30, \h35, \h38, \h3a, \h3c} -> Entry("inh", 0, "next", TRUE)
    [] op \in {\h1e, \h1f} -> Entry("bits_rel", 3, "branch", TRUE)
    [] op \in {\h1c, \h1d} -> Entry("bits", 2, "next", TRUE)
    [] Row(op) = 6 /\ op \notin MemoryImmediate -> Regular(op)
    [] OTHER -> Trap(0)

High6811Page2(op) ==
  CASE op \in {\h92, \hb3} -> Trap(1)
    [] op = \h8f -> Entry("inh", 0, "next", TRUE)
    [] op = \h9c -> Entry("dir", 0, "next", TRUE)
    [] op \in {\hde, \hdf} -> Entry("dir", 1, "next", FALSE)
    [] op \in {\h8c, \hbc, \hce, \hfe, \hff} \/ Row(op) \in {10, 14} -> Regular(op)
    [] OTHER -> Trap(0)

\* Page 3: CPD, and CPY, LDY and STY on X.
Page3(op) ==
  IF op \in {\h83, \h93, \ha3, \hac, \hb3, \hee, \hef} THEN Regular(op) ELSE Trap(0)

\* Page 4: CPD, CPX, LDX and STX on Y.
Page4(op) ==
  IF op \in {\ha3, \hac, \hee, \hef} THEN Regular(op) ELSE Trap(0)

-----------------------------------------------------------------------------
(* 6805: trap_6805 only prints, and the program runs on behind the opcode. *)

Column(op) == op % 16
EmptyColumns == {1, 2, 5, 11, 14}  \* in rows 3 to 7, but for MUL, which counts no cycles either

Low6805(op) ==
  CASE Row(op) = 0 -> Entry("btb", 2, "branch", TRUE)
    [] Row(op) = 1 -> Entry("bsc", 1, "next", TRUE)
    [] Row(op) = 2 -> Entry("rel", 1, RegularFlow(op), TRUE)
    [] Row(op) \in {4, 5} /\ Column(op) \in EmptyColumns -> Entry("inh", 0, "next", FALSE)
    [] Row(op) \in {3, 6, 7} /\ Column(op) \in EmptyColumns ->
         Entry("inh", IF Row(op) = 6 THEN 1 ELSE 0, "next", TRUE)
    [] Row(op) = 3 /\ Column(op) \notin EmptyColumns -> Entry("dir", 1, "next", TRUE)
    [] Row(op) = 6 /\ Column(op) \notin EmptyColumns -> Entry("ix1", 1, "next", TRUE)
    [] Row(op) = 7 /\ Column(op) \notin EmptyColumns -> Entry("ix0", 0, "next", TRUE)
    [] OTHER -> Entry("inh", 0, "next", TRUE)

\* RTI, RTS and SWI; JMP and JSR in the last two columns but three.
Flow6805(op) ==
  IF op \in {\h80, \h81, \h83} \/ (Row(op) > 10 /\ Column(op) \in {12, 13})
  THEN "jump" ELSE "next"

\* Of the rows without operands.
TakesTime6805(op) ==
  op \in {\h80, \h81, \h83, \h8e, \h8f, \h9f} \/ op \in \h97 .. \h9d

Immediate6805(op) ==
  CASE op \in {\ha7, \hac, \haf} -> Entry("inh", IF op = \ha7 THEN 1 ELSE 0, "next", FALSE)
    [] op = \had -> Entry("rel", 1, "jump", TRUE)
    [] OTHER -> Entry("imm", 1, "next", TRUE)

MemoryMode6805(op) ==
  CASE Row(op) = 11 -> "dir"
    [] Row(op) = 12 -> "ext"
    [] Row(op) = 13 -> "ix2"
    [] Row(op) = 14 -> "ix1"
    [] OTHER -> "ix0"

MemoryOperands6805(op) ==
  CASE Row(op) \in {12, 13} -> 2
    [] Row(op) = 15 -> 0
    [] OTHER -> 1

High6805(op) ==
  IF Row(op) < 10 THEN Entry("inh", 0, Flow6805(op), TakesTime6805(op))
  ELSE IF Row(op) = 10 THEN Immediate6805(op)
  ELSE Entry(MemoryMode6805(op), MemoryOperands6805(op), Flow6805(op), TRUE)

-----------------------------------------------------------------------------
(* opcode_getentry: the entry for an opcode and the byte behind it.        *)

FirstPage(chip, op) ==
  CASE chip = "m6800" -> IF op < 128 THEN Low6800(op) ELSE High6800(op)
    [] chip = "h6301" -> IF op < 128 THEN Low6301(op) ELSE High6301(op)
    [] chip = "h6303" -> IF op < 128 THEN Low6303(op) ELSE High6303(op)
    [] chip = "m6811" -> IF op < 128 THEN Low6811(op) ELSE High6811(op)
    [] chip = "m6805" -> IF op < 128 THEN Low6805(op) ELSE High6805(op)

LaterPage(prefix, op) ==
  CASE prefix = \h18 -> IF op < 128 THEN Low6811Page2(op) ELSE High6811Page2(op)
    [] prefix = \h1a -> Page3(op)
    [] prefix = \hcd -> Page4(op)

HasNextTable(chip, op) == chip = "m6811" /\ op \in Prefixes

opcode_getentry(chip, op, next) ==
  IF HasNextTable(chip, op) THEN LaterPage(op, next) ELSE FirstPage(chip, op)

n_opcodes(chip, op) == IF HasNextTable(chip, op) THEN 2 ELSE 1

=============================================================================
