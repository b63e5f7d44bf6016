----------------------------- MODULE Breakpoints -----------------------------
(***************************************************************************)
(* The monitor's "g" (command.c) and the breakpoints it stops at.  A       *)
(* breakpoint is an address: "g" is to stop before it executes the         *)
(* instruction there and after an instruction that accesses the byte       *)
(* there.  The accesses are noticed in mem_getb and mem_putb (memory.c),   *)
(* by the monitor's own dumps and the other run commands as well, and are  *)
(* left in two globals, an error in a counter and Ctrl-C in a flag.        *)
(*                                                                         *)
(* The program is any program: an instruction accesses any bytes, may      *)
(* cause an error, and goes on anywhere.                                   *)
(***************************************************************************)
EXTENDS Naturals, FiniteSets

CONSTANTS
  Addr,       \* the addresses
  MaxAccess   \* bound of the model: bytes an instruction accesses beside its opcode

ASSUME AccessAssumption == MaxAccess \in Nat

VARIABLES
  pc,
  breaks,        \* memory.c: the addresses with breaks[addr] # 0
  break_flag,    \* memory.c: a breakpoint was accessed
  break_addr,    \* memory.c: the last breakpoint accessed
  break_on_err,  \* command: "B E" and "B e"
  nerrors,       \* error.c: whether errors were counted
  usr_int,       \* command.c: set by sig_int_handler
  running,       \* "g" is in progress
  first,         \* "g" has not executed an instruction yet
  data,          \* history: what the last instruction accessed beside its opcode
  failed         \* history: an instruction of this run caused an error

breakpoint_vars == <<breaks, break_on_err>>
vars == <<pc, breakpoint_vars, break_flag, break_addr, nerrors, usr_int, running, first,
          data, failed>>

-----------------------------------------------------------------------------
(* mem_getb and mem_putb, for an opcode (a set of one address, or of none  *)
(* when an interrupt is entered) and then the bytes of d in some order.    *)

break_flag_after(opcode, d) == break_flag \/ (opcode \cup d) \cap breaks # {}

break_addrs_after(opcode, d) ==
  IF d \cap breaks # {} THEN d \cap breaks
  ELSE IF opcode \cap breaks # {} THEN opcode
  ELSE {break_addr}

Data == {d \in SUBSET Addr : Cardinality(d) <= MaxAccess}

\* instr_exec: an instruction at pc, or the entry of an interrupt, that accesses opcode and d
\* and causes an error or not.
instr_exec(opcode, d, error) ==
  /\ break_addr' \in break_addrs_after(opcode, d)
  /\ nerrors' = (nerrors \/ error)
  /\ pc' \in Addr

-----------------------------------------------------------------------------
(* Between two runs.                                                       *)

\* "b", "B s", "B c" and "B C".
set_break ==
  /\ ~running
  /\ \/ \E a \in Addr : breaks' \in {breaks \cup {a}, breaks \ {a}}
     \/ breaks' = {}
  /\ UNCHANGED <<pc, break_on_err, break_flag, break_addr, nerrors, usr_int, running, first,
                 data, failed>>

\* "B E" and "B e".
set_break_on_err ==
  /\ ~running
  /\ break_on_err' \in BOOLEAN
  /\ UNCHANGED <<pc, breaks, break_flag, break_addr, nerrors, usr_int, running, first,
                 data, failed>>

\* "md" and "u" read memory, "mm" and "mf" write it, perhaps where there is none; what "g"
\* prints when it stops reads it too.
dump ==
  /\ ~running
  /\ \E d \in Data \ {{}} :
       break_flag' = break_flag_after({}, d) /\ break_addr' \in break_addrs_after({}, d)
  /\ nerrors' \in {nerrors, TRUE}
  /\ UNCHANGED <<pc, breakpoint_vars, usr_int, running, first, data, failed>>

\* An instruction of "s", "e" or "t", which look at no breakpoint; "s" and "e" clear usr_int.
step ==
  /\ ~running
  /\ \E opcode \in {{pc}, {}}, d \in Data, error \in BOOLEAN :
       instr_exec(opcode, d, error) /\ break_flag' = break_flag_after(opcode, d)
  /\ usr_int' \in {usr_int, FALSE}
  /\ UNCHANGED <<breakpoint_vars, running, first, data, failed>>

sig_int_handler ==
  /\ usr_int' = TRUE
  /\ UNCHANGED <<pc, breakpoint_vars, break_flag, break_addr, nerrors, running, first,
                 data, failed>>

-----------------------------------------------------------------------------
(* "g".                                                                    *)

\* For the mutants: what was left behind by earlier commands is not cleared.
starts_clean_of_errors == nerrors' = FALSE /\ UNCHANGED break_flag

starts_clean == nerrors' = FALSE /\ break_flag' = FALSE

\* "g [addr]".
go ==
  /\ ~running /\ running' = TRUE /\ first' = TRUE
  /\ pc' \in Addr
  /\ starts_clean
  /\ data' = {} /\ failed' = FALSE
  /\ UNCHANGED <<breakpoint_vars, break_addr, usr_int>>

\* For the mutants: the breakpoint where "g" started counts; and whatever the first instruction
\* accesses is forgotten, if it was at a breakpoint itself.
break_flag_of_run_any(opcode, d) == break_flag_after(opcode, d)
break_flag_of_run_forgets(opcode, d) ==
  break_flag_after(opcode, d) /\ ~(first /\ pc \in breaks)

\* break_flag when the loop's condition is met: a breakpoint where "g" started, if it was the
\* last one accessed by the first instruction, does not count.
break_flag_of_run(opcode, d) ==
  break_flag_after(opcode, d) /\ ~(first /\ break_addr' = pc)

\* The condition of the while loop.
go_goes_on ==
  ~usr_int /\ pc' \notin breaks /\ ~break_flag' /\ ~(break_on_err /\ nerrors')

\* An instruction of "g", then the loop's condition, and usr_int = 0 at the end of the run.
run ==
  /\ running
  /\ \E opcode \in {{pc}, {}}, d \in Data, error \in BOOLEAN :
       /\ instr_exec(opcode, d, error)
       /\ break_flag' = break_flag_of_run(opcode, d)
       /\ data' = d /\ failed' = (failed \/ error)
  /\ first' = FALSE
  /\ running' = go_goes_on
  /\ usr_int' = (usr_int /\ running')
  /\ UNCHANGED breakpoint_vars

Init ==
  /\ pc \in Addr
  /\ breaks = {} /\ break_on_err = FALSE
  /\ break_flag = FALSE /\ break_addr = pc
  /\ nerrors = FALSE /\ usr_int = FALSE
  /\ running = FALSE /\ first = FALSE
  /\ data = {} /\ failed = FALSE

Next ==
  \/ set_break \/ set_break_on_err \/ dump \/ step \/ sig_int_handler
  \/ go \/ run

Spec == Init /\ [][Next]_vars

-----------------------------------------------------------------------------
(* Properties.                                                             *)

\* The flags are flags, "first" is one of a run in progress only, and a run goes on only with
\* break_flag down.
TypeOK ==
  /\ pc \in Addr /\ breaks \subseteq Addr /\ break_addr \in Addr
  /\ {break_flag, break_on_err, nerrors, usr_int, running, first, failed} \subseteq BOOLEAN
  /\ data \in Data
  /\ first => running
  /\ running => ~break_flag

\* "g" stops for a cause of its own and for every one: a Ctrl-C, a breakpoint at the next
\* instruction, a breakpoint that the last instruction accessed as data, or an error of this run
\* when the user asked for that.  What earlier commands accessed or did wrong is not one; and
\* not even the first instruction, which may stand at a breakpoint, hides the access to another
\* one (unless it accesses its own opcode as data).
StopsExactlyForCause ==
  [][LET cause == usr_int \/ pc' \in breaks \/ (break_on_err /\ failed')
         accessed == data' \cap breaks # {}
     IN  run =>
           /\ ~running' => cause \/ accessed
           /\ running' => ~cause /\ (accessed => first /\ pc \in data')]_vars

\* "Breakpoint after data access, address ...": the address reported is a breakpoint that the
\* last instruction did access.
ReportedAddressAccessed ==
  [][run /\ ~running' /\ break_flag' => break_addr' \in data' \cap breaks]_vars

=============================================================================
