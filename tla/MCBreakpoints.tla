---------------------------- MODULE MCBreakpoints ----------------------------
(* Build "run", the commands that run the program: three addresses, one to   *)
(* execute, two to access in one instruction, each a breakpoint or not; the  *)
(* addresses are interchangeable.  Build "session", the lines of a session:  *)
(* two addresses; a number, a name, and a name that is a number as well,     *)
(* in a symbol table of two.                                                 *)
EXTENDS Breakpoints, Integers, Sequences, TLC

CONSTANTS MaxAddr, Vector, Word, Name, Number, Hex, MaxSyms, Row   \* as in Monitor

ASSUME SessionAssumption ==
  /\ MaxAddr \in Nat /\ Vector \in 0 .. MaxAddr
  /\ Hex \in [Number -> 0 .. MaxAddr]
  /\ MaxSyms \in Nat

VARIABLES build, phase, errcode, ram, symtab, reader, addr, dump_addr, buf2, named

session_vars == <<phase, errcode, ram, symtab, reader, addr, dump_addr, buf2, named>>

Session == INSTANCE Monitor

MCHex == [word \in {"0", "add"} |-> IF word = "0" THEN 0 ELSE 1]

Interchangeable == Permutations(Addr)

RunInit ==
  /\ build = "run" /\ Init
  /\ phase = "ended" /\ errcode = 0 /\ ram = <<>> /\ symtab = <<>> /\ reader = "none"
  /\ addr = 0 /\ dump_addr = 0 /\ buf2 = Session!NoLine /\ named = {}

SessionInit ==
  /\ build = "session" /\ Session!Init
  /\ break_flag = FALSE /\ break_addr = 0 /\ break_on_err = FALSE /\ nerrors = FALSE
  /\ usr_int = FALSE /\ running = FALSE /\ first = FALSE /\ data = {} /\ failed = FALSE

step_of_run == build = "run" /\ Next /\ UNCHANGED <<build, session_vars>>
step_of_session ==
  /\ build = "session" /\ Session!Next
  /\ UNCHANGED <<build, break_flag, break_addr, break_on_err, nerrors, usr_int, running, first,
                 data, failed>>

BothNext == step_of_run \/ step_of_session

BothSpec == (RunInit \/ SessionInit) /\ [][BothNext]_<<build, vars, session_vars>>

\* The type invariants of Breakpoints and of Monitor.
BothTypeOK ==
  /\ build = "run" => TypeOK
  /\ build = "session" => Session!TypeOK

\* BreaksAskedFor of Monitor: a breakpoint stands only where a line asked for it (or at the
\* address 0, where the variable of the commands starts).
BreaksAskedFor == build = "session" => Session!BreaksAskedFor
=============================================================================
