-------------------------------- MODULE Nc24r --------------------------------
(***************************************************************************)
(* The NC24R board (nc24r.c): 24 relays that a write of PORTB toggles, and *)
(* their status, a column of which a write of PORTE stores there, selected *)
(* by PORTC.                                                               *)
(***************************************************************************)
EXTENDS Integers

CONSTANTS
  WrittenPortb  \* bound of the model: what a program writes to PORTB, board and outputno;
                \* not 12 .. 15 to the slave, for which C defines no shift

VARIABLE relays   \* what nc24r.c keeps, a Relays

\* input_status: of each select, the bits that are set.  porte: the bits of PORTE.
\* toggled: history, the outputs that were toggled an odd number of times.
Bitno == 0 .. 7
Select == 0 .. 3
Relays ==
  [input_status : [Select -> SUBSET Bitno], porte : SUBSET Bitno, toggled : SUBSET (0 .. 23)]

\* The PCB swaps inputs 5 and 7.
correct_b57(bitno) == CASE bitno = 5 -> 7 [] bitno = 7 -> 5 [] OTHER -> bitno

\* The bit of an output.
bit_of(output) == correct_b57(output \div 4 + 2)

\* The number of the output that a value of PORTB enables.
slave_rtab == <<20, 21, 22, 23, 16, 17, 18, 19, 12, 13, 14, 15>>
output_of(pcb, outputno) == IF pcb = "slave" THEN slave_rtab[outputno + 1] ELSE outputno

\* get_input, and set_input with its inverse.  For the mutants: the swap is undone in one of
\* them only.
toggle_input_uncorrected(r, output) ==
  LET bit == output \div 4 + 2
  IN  [r EXCEPT !.input_status[output % 4] = IF bit \in @ THEN @ \ {bit} ELSE @ \cup {bit}]

toggle_input(r, output) ==
  LET bit == bit_of(output)
  IN  [r EXCEPT !.input_status[output % 4] = IF bit \in @ THEN @ \ {bit} ELSE @ \cup {bit}]

portb_write(pcb, outputno) ==
  LET output == output_of(pcb, outputno)
  IN  relays' = IF pcb = "off" THEN relays
                ELSE [toggle_input(relays, output) EXCEPT
                        !.toggled = IF output \in @ THEN @ \ {output} ELSE @ \cup {output}]

\* porte_read, which is called when PORTE is written: the value written is lost.
porte_read(select) == relays' = [relays EXCEPT !.porte = relays.input_status[select]]

Init ==
  relays = [input_status |-> [s \in Select |-> {}], porte |-> {}, toggled |-> {}]

Next ==
  \/ \E w \in WrittenPortb : portb_write(w[1], w[2])
  \/ \E s \in Select : porte_read(s)

Spec == Init /\ [][Next]_relays

-----------------------------------------------------------------------------
(* Properties.                                                             *)

\* The status of select s and bit b is that of output 4(b - 2) + s, where bits 5 and 7 stand
\* for each other: no two outputs share a bit.
StatusShowsOutputs ==
  /\ relays \in Relays
  /\ \A s \in Select, b \in 2 .. 7 :
       b \in relays.input_status[s] <=> 4 * (correct_b57(b) - 2) + s \in relays.toggled

=============================================================================
