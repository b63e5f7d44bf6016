------------------------------- MODULE Listing -------------------------------
(***************************************************************************)
(* A program is executed (instr_exec of each chip) and listed (command "u" *)
(* and instr_print).  Both walk over the same bytes, but the listing goes  *)
(* by the operand counts of the opcode tables and the execution by what    *)
(* the functions take; and instr_exec adds the cycles of the entry to the  *)
(* time, which drives the timers.                                          *)
(*                                                                         *)
(* The program does not change itself.  What the instructions compute, and *)
(* so which way a branch goes and where a jump leads, is left open.  A     *)
(* listing of n instructions is n listings of one, as "u" goes on where    *)
(* the last one ended.                                                     *)
(***************************************************************************)
EXTENDS Opcodes

CONSTANTS
  ChipsListed,   \* the chips looked at
  Last,          \* the last address of the program
  Programs       \* the programs looked at

Address == 0 .. Last

ASSUME ChipsAssumption == ChipsListed \subseteq Chips
ASSUME LastAssumption == Last \in Nat
ASSUME ProgramsAssumption == Programs \subseteq [Address -> CodeByte]

VARIABLES
  chip,        \* the chip the simulator was built for
  mem,         \* the program
  pc,          \* may stand behind the program
  unasm_addr,  \* where "u" goes on
  executed,    \* history: addresses executed one after the other since both stood at one place
  listed,      \* history: addresses listed since then
  followed,    \* history: whether they did, and no jump has been made since
  misprinted,  \* history: whether an entry with a wrong operand count was met since
  timeless     \* history: addresses executed since the time last went on

vars == <<chip, mem, pc, unasm_addr, executed, listed, followed, misprinted, timeless>>

-----------------------------------------------------------------------------
(* One instruction.                                                        *)

\* The prefixes are looked up with the byte behind them, wherever it is.
EntryAt(a) == opcode_getentry(chip, mem[a], IF a < Last THEN mem[a + 1] ELSE 0)

\* Where instr_exec leaves the program counter if nothing jumps, and instr_print the listing.
NextExecuted(a) == a + n_opcodes(chip, mem[a]) + n_taken(EntryAt(a).mode)
NextListed(a) == a + n_opcodes(chip, mem[a]) + EntryAt(a).n_operands

\* An instruction within the program.
Whole(a) == a \in Address /\ NextExecuted(a) <= Last + 1 /\ NextListed(a) <= Last + 1

\* The operand count is not what the function takes, and execution runs on into the operands.
Misprinted(a) == EntryAt(a).flow # "trap" /\ NextListed(a) # NextExecuted(a)

Advance(address, entry) ==
  timeless' = IF entry.takes_time \/ entry.flow \in {"trap", "stay"}
              THEN {} ELSE timeless \cup {address}

StopFollowing ==
  /\ executed' = {} /\ listed' = {}
  /\ followed' = FALSE /\ misprinted' = FALSE

Execute ==
  /\ Whole(pc)
  /\ EntryAt(pc).flow \in {"next", "branch"}
  /\ pc' = NextExecuted(pc)
  /\ IF followed
     THEN /\ executed' = executed \cup {pc}
          /\ misprinted' = (misprinted \/ Misprinted(pc))
     ELSE UNCHANGED <<executed, misprinted>>
  /\ Advance(pc, EntryAt(pc))
  /\ UNCHANGED <<chip, mem, unasm_addr, listed, followed>>

\* Branches taken, calls, returns, traps: where to is the program's affair.
ExecuteJump ==
  /\ Whole(pc)
  /\ EntryAt(pc).flow \in {"branch", "jump", "trap"}
  /\ pc' \in Address
  /\ StopFollowing
  /\ Advance(pc, EntryAt(pc))
  /\ UNCHANGED <<chip, mem, unasm_addr>>

\* STOP and TEST of the 6811 take the program counter back to themselves.
ExecuteStay ==
  /\ Whole(pc)
  /\ EntryAt(pc).flow = "stay"
  /\ pc' = pc
  /\ Advance(pc, EntryAt(pc))
  /\ UNCHANGED <<chip, mem, unasm_addr, executed, listed, followed, misprinted>>

\* An interrupt takes the time of SWI.
SwiEntry == FirstPage(chip, IF chip = "m6805" THEN \h83 ELSE \h3f)

Interrupt ==
  /\ chip # "m6800"
  /\ pc' \in Address
  /\ StopFollowing
  /\ timeless' = IF SwiEntry.takes_time THEN {} ELSE timeless
  /\ UNCHANGED <<chip, mem, unasm_addr>>

-----------------------------------------------------------------------------
(* Command "u".                                                            *)

\* "u" without an address.
Unassemble ==
  /\ Whole(unasm_addr)
  /\ unasm_addr' = NextListed(unasm_addr)
  /\ IF followed
     THEN /\ listed' = listed \cup {unasm_addr}
          /\ misprinted' = (misprinted \/ Misprinted(unasm_addr))
     ELSE UNCHANGED <<listed, misprinted>>
  /\ UNCHANGED <<chip, mem, pc, executed, followed, timeless>>

\* The address of "u": at the program counter, the listing shows what comes.
UnassembleFrom(a) ==
  /\ unasm_addr' = a
  /\ executed' = {} /\ listed' = {}
  /\ followed' = (a = pc)
  /\ misprinted' = FALSE
  /\ UNCHANGED <<chip, mem, pc, timeless>>

-----------------------------------------------------------------------------
\* commandinit: the listing starts at the program counter.
Init ==
  /\ chip \in ChipsListed
  /\ mem \in Programs
  /\ pc = 0 /\ unasm_addr = 0
  /\ executed = {} /\ listed = {}
  /\ followed = TRUE /\ misprinted = FALSE
  /\ timeless = {}

Next ==
  \/ Execute
  \/ ExecuteJump
  \/ ExecuteStay
  \/ Interrupt
  \/ Unassemble
  \/ \E a \in Address : UnassembleFrom(a)

Spec == Init /\ [][Next]_vars

-----------------------------------------------------------------------------
(* Properties.                                                             *)

TypeOK ==
  /\ chip \in ChipsListed
  /\ mem \in [Address -> CodeByte]
  /\ pc \in 0 .. Last + 1
  /\ unasm_addr \in 0 .. Last + 1
  /\ executed \subseteq Address /\ listed \subseteq Address
  /\ followed \in BOOLEAN /\ misprinted \in BOOLEAN
  /\ timeless \subseteq Address

\* As far as both have come, the same addresses were listed and executed.
InStep ==
  /\ \A a \in executed : a < unasm_addr => a \in listed
  /\ \A a \in listed : a < pc => a \in executed

\* optab.h:13 calls the count "No. of bytes in operand": a listing that starts at the program
\* counter shows the instructions that are then executed, up to the first jump.  It does as long
\* as it meets no entry whose count is not what its function takes, and these are the
\* immediate-memory instructions of the 6301, CPY of a direct operand on the 6811, and six
\* entries of the 6805 that only print a warning (optab.c, opfunc.c, instr_print).
OnlyKnownMisprints ==
  /\ followed /\ ~misprinted => InStep
  /\ \A a \in executed \cup listed :
       Misprinted(a) =>
         \/ chip = "h6301" /\ mem[a] \in MemoryImmediate
         \/ chip = "m6811" /\ mem[a] = \h18 /\ mem[a + 1] = \h9c
         \/ chip = "m6805" /\ mem[a] \in {\h61, \h62, \h65, \h6b, \h6e, \ha7}

\* MUL is \h42; the others only print a warning.
Timeless6805 ==
  EmptyInAll \cup {\h82, \h9e, \ha7, \hac, \haf} \cup \h84 .. \h8d \cup \h90 .. \h96

\* instr_exec advances the timers by the cycles of the entry (optab.h:15, "No. of clock
\* cycles"), and some entries have none: a program that goes round in a loop takes time all the
\* same, unless it goes through the trap vector or stays at TEST of the 6811.  The entries
\* without time are LDY and STY of a direct operand on the 6811, an STAB of the 6800, MUL of the
\* 6805 and those that only print there.
TimePasses ==
  /\ pc \notin timeless
  /\ \A a \in timeless :
       \/ chip = "m6811" /\ mem[a] = \h18 /\ mem[a + 1] \in {\hde, \hdf}
       \/ chip = "m6800" /\ mem[a] = \he7
       \/ chip = "m6805" /\ mem[a] \in Timeless6805

=============================================================================
