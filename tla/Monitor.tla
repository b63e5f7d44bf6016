------------------------------- MODULE Monitor -------------------------------
(***************************************************************************)
(* The simulator from its start to its end (main.c): the program and its   *)
(* symbols are read (fileio.c, symtab.c), then the lines of an init file   *)
(* and of the terminal are executed (command.c).  A line names addresses   *)
(* with symbols or hexadecimal numbers, and several commands go on where   *)
(* an earlier line left off: "addr" is shared by b, B and g, "dump_addr"   *)
(* by the memory commands, and an empty line repeats the last one.         *)
(*                                                                         *)
(* A byte of ram is abstracted to an address: ram[Vector] is where a reset *)
(* goes.  What "g" does about breakpoints is in Breakpoints.               *)
(***************************************************************************)
EXTENDS Integers, Sequences

CONSTANTS
  MaxAddr,   \* the addresses are 0 .. MaxAddr
  Vector,    \* the address of the reset vector
  Word,      \* the words a line is split into
  Name,      \* those that may be symbols
  Number,    \* those that sscanf can read as a hexadecimal number
  Hex,       \* the number it reads: an address for every Number
  MaxSyms,   \* MAXSYMS
  Row        \* bytes in a line of "md"

Address == 0 .. MaxAddr
NoWord == "none"

VARIABLES
  phase,      \* main: "load", "symbols", "init" and "stdin" (commandloop), "ended"
  errcode,    \* load_file: what it will return
  ram,
  symtab,     \* symtab.c: the symbols in the order of the file
  reader,     \* sym_readfile: the function chosen for the file
  pc,
  breaks,     \* the addresses with breaks[addr] # 0
  addr,       \* command: static
  dump_addr,  \* command.c
  buf2,       \* commandloop: the last line
  named       \* history: the addresses that lines named for b, B and g

program_vars == <<errcode, ram, symtab, reader>>
command_vars == <<pc, breaks, addr, dump_addr, named>>
vars == <<phase, program_vars, command_vars, buf2>>

Line(cmd, how, words) == [cmd : {cmd}, how : how, word : words, byte : {0}]

NoLine == [cmd |-> "", how |-> "", word |-> NoWord, byte |-> 0]

\* The lines: "how" is the sign of b, the letter after B, or nothing.
Lines ==
  Line("b", {"toggle", "-", "+"}, Word \cup {NoWord})
    \cup Line("B", {"C"}, {NoWord}) \cup Line("B", {"c", "s"}, Word)
    \cup Line("g", {""}, Word \cup {NoWord}) \cup Line("R", {""}, {NoWord})
    \cup Line("r", {"p"}, Number) \cup Line("md", {""}, Word \cup {NoWord})
    \cup [cmd : {"mm"}, how : {""}, word : Word, byte : Address]
    \cup [cmd : {"mf"}, how : {""}, word : Number, byte : Address]

-----------------------------------------------------------------------------
(* The program and its symbols.                                            *)

\* load_line_s19: the bytes of a line are stored before its checksum is compared.
load_line_s19(type, start, bytes, sum_is_right) ==
  CASE type = "S1" ->
         /\ ram' = [a \in Address |->
                      IF a - start \in 0 .. Len(bytes) - 1 THEN bytes[a - start + 1] ELSE ram[a]]
         /\ errcode' = IF sum_is_right THEN 0 ELSE -1
    [] type \in {"S0", "S9", "other"} -> errcode' = 0 /\ UNCHANGED ram
    [] OTHER -> errcode' = -1 /\ UNCHANGED ram

\* load_file, a line: an error ends the reading and the simulator.
load_file ==
  /\ phase = "load"
  /\ \E type \in {"S1", "S0", "S9", "S2", "other"}, start \in Address, sum_is_right \in BOOLEAN :
       \E bytes \in {<<b>> : b \in Address} \cup {<<>>} :
         load_line_s19(type, start, bytes, sum_is_right)
  /\ phase' = IF errcode' = 0 THEN "load" ELSE "ended"
  /\ UNCHANGED <<symtab, reader, command_vars, buf2>>

\* The end of the file; errcode was never assigned when the file is empty.  sym_readfile takes
\* the first of ".map" and ".sym" that there is.
sym_readfile ==
  /\ phase = "load"
  /\ \/ errcode = 0 /\ phase' = "symbols" /\ reader' \in {"map", "sym", "none"}
     \/ errcode # 0 /\ phase' = "ended" /\ UNCHANGED reader
  /\ UNCHANGED <<errcode, ram, symtab, command_vars, buf2>>

sym_add(value, name) ==
  symtab' = IF Len(symtab) < MaxSyms THEN Append(symtab, [value |-> value, name |-> name])
            ELSE symtab

\* A line of a ".map" file: white space, the value and the name; others are skipped.
read_aslink_file(indented, first, second) ==
  IF indented /\ first \in Number /\ second \in Name THEN sym_add(Hex[first], second)
  ELSE UNCHANGED symtab

\* A line of a ".sym" file: the name and the value.
read_asm68xx_file(indented, first, second) ==
  IF ~indented /\ first \in Name /\ second \in Number THEN sym_add(Hex[second], first)
  ELSE UNCHANGED symtab

read_symbol ==
  /\ phase = "symbols"
  /\ \E indented \in BOOLEAN, first \in Word, second \in Word :
       \/ reader = "map" /\ read_aslink_file(indented, first, second)
       \/ reader = "sym" /\ read_asm68xx_file(indented, first, second)
  /\ UNCHANGED <<phase, errcode, ram, reader, command_vars, buf2>>

\* The first call: cpu_reset, and memory is displayed from the program counter.
commandinit == pc' = ram[Vector] /\ dump_addr' = ram[Vector]

\* The first commandloop reads the init file, if there is one.
start ==
  /\ phase = "symbols" /\ phase' \in {"init", "stdin"}
  /\ commandinit
  /\ UNCHANGED <<program_vars, breaks, addr, buf2, named>>

-----------------------------------------------------------------------------
(* Addresses in a line.                                                    *)

Defined(word) == {i \in DOMAIN symtab : symtab[i].name = word}

\* What a word means: the first symbol of that name, or else the number.
Meaning(word) ==
  IF Defined(word) # {}
  THEN {symtab[i].value : i \in {i \in Defined(word) : \A j \in Defined(word) : i <= j}}
  ELSE IF word \in Number THEN {Hex[word]} ELSE {}

\* For the mutants: numbers before symbols.
find_number_first(word, old) ==
  IF word \in Number THEN {Hex[word]}
  ELSE IF Meaning(word) # {} THEN Meaning(word) ELSE {old}

\* sym_find_value, or else sscanf: the variable keeps its value when neither knows the word.
find(word, old) == IF Meaning(word) # {} THEN Meaning(word) ELSE {old}

set_break(a, count) == breaks' = IF count THEN breaks \cup {a} ELSE breaks \ {a}

-----------------------------------------------------------------------------
(* The commands.                                                           *)

\* "b" alone lists the breakpoints; without an address known, the last one is meant.
b(line) ==
  /\ line.cmd = "b"
  /\ IF line.how = "toggle" /\ line.word = NoWord THEN UNCHANGED <<breaks, addr, named>>
     ELSE /\ addr' \in find(line.word, addr)
          /\ named' = named \cup Meaning(line.word)
          /\ set_break(addr', line.how = "+" \/ (line.how = "toggle" /\ addr' \notin breaks))
  /\ UNCHANGED <<ram, pc, dump_addr>>

\* Without an address known, the program counter is meant.
B(line) ==
  /\ line.cmd = "B"
  /\ IF line.how = "C" THEN breaks' = {} /\ UNCHANGED <<addr, named>>
     ELSE /\ addr' \in find(line.word, pc)
          /\ named' = named \cup (IF Meaning(line.word) = {} THEN {pc} ELSE Meaning(line.word))
          /\ set_break(addr', line.how = "s")
  /\ UNCHANGED <<ram, pc, dump_addr>>

\* The program goes anywhere and writes a byte, or more.  "s", "e" and "t" are a "g" without
\* an address.
g(line) ==
  /\ line.cmd = "g"
  /\ addr' \in find(line.word, addr)
  /\ named' = named \cup Meaning(line.word)
  /\ pc' \in Address /\ ram' \in [Address -> Address]
  /\ UNCHANGED <<breaks, dump_addr>>

\* cpu_reset; the second commandinit of a session changes nothing.
R(line) ==
  /\ line.cmd = "R"
  /\ pc' = ram[Vector]
  /\ UNCHANGED <<ram, breaks, addr, dump_addr, named>>

\* reg_cmd: "r p", which takes a number but no symbol.
reg_cmd(line) ==
  /\ line.cmd = "r"
  /\ pc' = Hex[line.word]
  /\ UNCHANGED <<ram, breaks, addr, dump_addr, named>>

\* "m": all three commands leave dump_addr at the word, md behind the last row and mm behind
\* the byte.  Bound of the model: dump_addr stays an address.
m(line) ==
  /\ line.cmd \in {"md", "mm", "mf"}
  /\ \E a \in find(line.word, dump_addr) :
       /\ dump_addr' = a + (CASE line.cmd = "md" -> Row [] line.cmd = "mm" -> 1 [] OTHER -> 0)
       /\ ram' = IF line.cmd = "md" THEN ram
                 ELSE [ram EXCEPT ![IF line.cmd = "mm" THEN a ELSE Hex[line.word]] = line.byte]
  /\ dump_addr' \in Address
  /\ UNCHANGED <<pc, breaks, addr, named>>

\* The dispatch on the first letter.
command(line) ==
  b(line) \/ B(line) \/ g(line) \/ R(line) \/ reg_cmd(line) \/ m(line)

-----------------------------------------------------------------------------
(* commandloop.                                                            *)

typed ==
  /\ phase \in {"init", "stdin"}
  /\ \E line \in Lines : command(line) /\ buf2' = line
  /\ UNCHANGED <<phase, errcode, symtab, reader>>

\* An empty line.
repeated ==
  /\ phase \in {"init", "stdin"}
  /\ command(buf2)
  /\ UNCHANGED <<phase, errcode, symtab, reader, buf2>>

\* The end of the input or "q": the init file is followed by the terminal, with a buf2 and a
\* commandinit of its own, which resets nothing.
leave ==
  /\ phase \in {"init", "stdin"}
  /\ phase' = IF phase = "init" THEN "stdin" ELSE "ended"
  /\ buf2' = NoLine
  /\ UNCHANGED <<program_vars, command_vars>>

\* mem_init, and the variables of the commands as the program starts; errcode is not assigned.
Init ==
  /\ phase = "load" /\ errcode \in {0, -1}
  /\ ram = [a \in Address |-> MaxAddr]
  /\ symtab = <<>> /\ reader = "none"
  /\ pc = 0 /\ breaks = {} /\ addr = 0 /\ dump_addr = 0
  /\ buf2 = NoLine
  /\ named = {0}

Next ==
  \/ load_file \/ sym_readfile \/ read_symbol \/ start
  \/ typed \/ repeated \/ leave

Spec == Init /\ [][Next]_vars

-----------------------------------------------------------------------------
(* Properties.                                                             *)

TypeOK ==
  /\ phase \in {"load", "symbols", "init", "stdin", "ended"}
  /\ errcode \in {0, -1} /\ reader \in {"map", "sym", "none"}
  /\ ram \in [Address -> Address]
  /\ symtab \in Seq([value : Address, name : Name]) /\ Len(symtab) <= MaxSyms
  /\ {pc, addr, dump_addr} \cup breaks \cup named \subseteq Address
  /\ buf2 \in Lines \cup {NoLine}

\* A breakpoint stands only where a line asked for it: at an address that a b, B or g line
\* named, by its first definition in the symbol file or by its number, at the program counter
\* of a "B s", or at the address 0 where "addr" starts.
BreaksAskedFor == breaks \subseteq named

=============================================================================
