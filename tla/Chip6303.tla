------------------------------ MODULE Chip6303 ------------------------------
(***************************************************************************)
(* The HD6303: the interrupt part of instr_exec (instr.c) over the timer   *)
(* of module Timer6303 and the control side of the serial interface        *)
(* (sci.c; what becomes of the bytes is module Sci's).                     *)
(*                                                                         *)
(* The program is any program whose handlers return with RTI; interrupts   *)
(* come between any two instructions that leave the I bit clear, bytes are *)
(* received and the monitor dumps the registers between any two.           *)
(***************************************************************************)
EXTENDS Timer6303Registers, Sequences

CONSTANTS
  MaxRx,      \* bound of the model: bytes waiting in the receive buffer
  MaxNest     \* bound of the model: interrupt handlers active at a time

ASSUME NestAssumption == MaxRx \in Nat /\ MaxNest \in Nat

VARIABLES
  timer,         \* as in Timer6303
  trcsr,         \* iram[TRCSR]: its two interrupt enable bits
  rxinterrupts,  \* sci.c: number of bytes waiting
  txinterrupts,  \* sci.c: a transmit interrupt is outstanding
  iflag,         \* the I bit of the condition codes
  handlers       \* the handlers active: vector, and the I bit stacked at the entry

serial_vars == <<trcsr, rxinterrupts, txinterrupts>>
cpu_vars == <<iflag, handlers>>
vars == <<timer, serial_vars, cpu_vars>>

T == INSTANCE Timer6303

TIE == "TIE"
RIE == "RIE"

-----------------------------------------------------------------------------
(* The interrupts.                                                         *)

serial_int ==
  \/ rxinterrupts > 0 /\ RIE \in trcsr
  \/ txinterrupts /\ TIE \in trcsr

\* For the mutants: the serial interface before the timer, and a flag that is not looked at.
vector_serial_first ==
  IF serial_int THEN "SCIVECTOR"
  ELSE IF {T!OCF1, T!EOCI1} \subseteq timer.tcsr1 THEN "OCFVECTOR"
  ELSE "none"

vector_enable_only ==
  IF T!EOCI1 \in timer.tcsr1 THEN "OCFVECTOR" ELSE IF serial_int THEN "SCIVECTOR" ELSE "none"

\* The interrupt that instr_exec takes when the I bit is clear, by priority.
vector ==
  LET tcsr_reg == timer.tcsr1
      tcsr2_reg == timer.tcsr2
  IN  IF {T!ICF, T!EICI} \subseteq tcsr_reg THEN "ICFVECTOR"
      ELSE IF \/ {T!OCF1, T!EOCI1} \subseteq tcsr_reg
              \/ {T!OCF2, T!EOCI2} \subseteq tcsr2_reg
           THEN "OCFVECTOR"
      ELSE IF {T!TOF, T!ETOI} \subseteq tcsr_reg THEN "TOFVECTOR"
      ELSE IF serial_int THEN "SCIVECTOR"
      ELSE "none"

Vector == {"ICFVECTOR", "OCFVECTOR", "TOFVECTOR", "SCIVECTOR"}
Handler == [vector : Vector, iflag : BOOLEAN]

Interrupted == ~iflag /\ vector # "none"

\* For the mutants: the I bit is not set.
interrupt_leaves_iflag ==
  /\ Interrupted
  /\ handlers' = Append(handlers, [vector |-> vector, iflag |-> iflag])
  /\ T!tick
  /\ UNCHANGED <<iflag, serial_vars>>

\* int_addr; the interrupt takes the cycles of a SWI.
interrupt ==
  /\ Interrupted
  /\ handlers' = Append(handlers, [vector |-> vector, iflag |-> iflag])
  /\ iflag' = TRUE
  /\ T!tick
  /\ UNCHANGED serial_vars

-----------------------------------------------------------------------------
(* The instructions, when no interrupt comes first.                        *)

timer_access == ~Interrupted /\ T!access /\ UNCHANGED <<serial_vars, cpu_vars>>

\* For the mutants: disabling the transmit interrupt leaves one outstanding.
trcsr_putb_sets_only(v) ==
  trcsr' = v /\ txinterrupts' = (txinterrupts \/ TIE \in v)

\* The transmitter is always empty: enabling its interrupt requests one.
trcsr_putb(v) == trcsr' = v /\ txinterrupts' = (TIE \in v)

tdr_putb == txinterrupts' = (txinterrupts \/ TIE \in trcsr) /\ UNCHANGED trcsr

write_trcsr(v) ==
  ~Interrupted /\ trcsr_putb(v) /\ T!tick /\ UNCHANGED <<rxinterrupts, cpu_vars>>

write_tdr ==
  ~Interrupted /\ tdr_putb /\ T!tick /\ UNCHANGED <<rxinterrupts, cpu_vars>>

read_rdr ==
  /\ ~Interrupted /\ T!tick
  /\ rxinterrupts' = IF rxinterrupts > 0 THEN rxinterrupts - 1 ELSE 0
  /\ UNCHANGED <<trcsr, txinterrupts, cpu_vars>>

\* CLI, SEI, TAP (the innermost handler the bound allows leaves I set), and every instruction
\* that concerns nothing here.
set_iflag(b) ==
  /\ b \/ Len(handlers) < MaxNest
  /\ ~Interrupted /\ T!tick
  /\ iflag' = b /\ UNCHANGED <<serial_vars, handlers>>

rti ==
  /\ ~Interrupted /\ handlers # <<>> /\ T!tick
  /\ iflag' = handlers[Len(handlers)].iflag
  /\ handlers' = SubSeq(handlers, 1, Len(handlers) - 1)
  /\ UNCHANGED serial_vars

instr_exec ==
  \/ interrupt
  \/ timer_access
  \/ \E v \in SUBSET {TIE, RIE} : write_trcsr(v)
  \/ write_tdr \/ read_rdr
  \/ \E b \in BOOLEAN : set_iflag(b)
  \/ rti

-----------------------------------------------------------------------------
(* Outside the CPU.                                                        *)

dump == T!dump /\ UNCHANGED <<serial_vars, cpu_vars>>

sci_in ==
  /\ rxinterrupts < MaxRx /\ rxinterrupts' = rxinterrupts + 1
  /\ UNCHANGED <<timer, trcsr, txinterrupts, cpu_vars>>

Init ==
  /\ T!Init
  /\ trcsr = {} /\ rxinterrupts = 0 /\ txinterrupts = FALSE
  /\ iflag = TRUE /\ handlers = <<>>

Next == instr_exec \/ dump \/ sci_in

Spec == Init /\ [][Next]_vars

\* The CPU runs on; nothing is promised of the monitor or of what is received.
FairSpec == Spec /\ WF_vars(instr_exec)

-----------------------------------------------------------------------------
(* Properties.                                                             *)

\* Ocf1Exact of Timer6303: in the chip too, whatever interrupts the program, OCF1 is set exactly
\* from a match to its acknowledgement.
Ocf1Exact == T!Ocf1Exact

\* An instruction in which the counter goes past the value of OCR1, or comes to it, without
\* wrapping leaves OCF1 set, and no other step of the chip sets it; and no step clears OCF2.
MatchUnlessWrap == [][T!MatchUnlessWrapAction]_timer
Ocf2NeverFalls == [][T!Ocf2NeverFallsAction]_timer

\* The registers hold what they are for, and a handler at the depth bound keeps the I bit set.
TypeOK ==
  /\ T!TypeOK
  /\ trcsr \subseteq {TIE, RIE} /\ rxinterrupts \in 0 .. MaxRx /\ txinterrupts \in BOOLEAN
  /\ iflag \in BOOLEAN
  /\ handlers \in Seq(Handler) /\ Len(handlers) <= MaxNest
  /\ Len(handlers) = MaxNest => iflag

\* A transmit interrupt is outstanding exactly while the program enables it, whichever way it
\* wrote TRCSR and TDR.
TxFollowsTie == txinterrupts <=> TIE \in trcsr

\* A compare interrupt is taken only for a match of OCR1 that has not been acknowledged.
CompareInterruptHasMatch ==
  [][Len(handlers') > Len(handlers) /\ handlers'[Len(handlers')].vector = "OCFVECTOR"
       => timer.match1 # "none"]_vars

\* A compare interrupt that stays enabled is taken, or its match acknowledged, if the program
\* lets interrupts in again and again: the serial interface cannot hold it off.
CompareServed ==
  []<>~iflag /\ <>[](T!EOCI1 \in timer.tcsr1) =>
    (timer.match1 # "none" ~>
       \/ timer.match1 = "none"
       \/ \E i \in 1 .. Len(handlers) : handlers[i].vector = "OCFVECTOR")

=============================================================================
