-------------------------- MODULE BreakpointsProofs --------------------------
(***************************************************************************)
(* The monitor's run and its session, for every set of addresses, every    *)
(* number of bytes an instruction accesses, and every set of words and     *)
(* length of the symbol table.                                             *)
(*                                                                         *)
(* That "g" stops exactly for a cause is no invariant of one state: it     *)
(* rests on what the loop has left behind, that no error of an earlier     *)
(* command is counted, and that a run which has gone on does not stand at  *)
(* a breakpoint.  That breakpoints stand where a line asked for them rests *)
(* on the address that the commands share having been asked for too.       *)
(***************************************************************************)
EXTENDS MCBreakpoints, FiniteSetTheorems, TLAPS

-----------------------------------------------------------------------------
(* "g".                                                                    *)

\* A run in progress has counted the errors of its own, and only the first instruction may
\* stand at a breakpoint.
RunInv ==
  /\ running => (nerrors <=> failed)
  /\ running /\ ~first => pc \notin breaks

Inv == TypeOK /\ RunInv

\* No access is an access; and the address reported is one of the addresses given.
LEMMA AccessTyped ==
  /\ {} \in Data
  /\ TypeOK =>
       \A opcode \in SUBSET Addr, d \in Data : break_addrs_after(opcode, d) \subseteq Addr
<1>1. {} \in Data
  BY AccessAssumption, FS_EmptySet DEF Data
<1>2. ASSUME TypeOK, NEW opcode \in SUBSET Addr, NEW d \in Data
      PROVE  break_addrs_after(opcode, d) \subseteq Addr
  BY <1>2 DEF TypeOK, Data, break_addrs_after
<1> QED BY <1>1, <1>2

LEMMA InitInv == Init => Inv
BY AccessTyped DEF Init, Inv, TypeOK, RunInv

\* An instruction of a run: what it is, spelled out.
LEMMA RunStep ==
  ASSUME Inv, run
  PROVE  \E opcode \in {{pc}, {}}, d \in Data, error \in BOOLEAN :
           /\ opcode \subseteq Addr /\ data' = d
           /\ break_addr' \in break_addrs_after(opcode, d)
           /\ break_flag' = break_flag_of_run(opcode, d)
           /\ nerrors' = (nerrors \/ error) /\ failed' = (failed \/ error)
           /\ pc' \in Addr /\ first' = FALSE
           /\ running' = go_goes_on
           /\ usr_int' = (usr_int /\ running')
           /\ breaks' = breaks /\ break_on_err' = break_on_err
BY DEF Inv, TypeOK, run, instr_exec, breakpoint_vars

LEMMA NextInv == Inv /\ [Next]_vars => Inv'
<1> SUFFICES ASSUME Inv, [Next]_vars PROVE Inv'
  OBVIOUS
<1>1. CASE set_break
  BY <1>1 DEF set_break, Inv, TypeOK, RunInv
<1>2. CASE set_break_on_err
  BY <1>2 DEF set_break_on_err, Inv, TypeOK, RunInv, breakpoint_vars
<1>3. CASE dump
  <2>1. break_addr' \in Addr
    BY <1>3, AccessTyped DEF dump, Inv
  <2>2. break_flag' \in BOOLEAN /\ nerrors' \in BOOLEAN
    BY <1>3 DEF dump, break_flag_after, Inv, TypeOK
  <2> QED BY <1>3, <2>1, <2>2 DEF dump, Inv, TypeOK, RunInv, breakpoint_vars
<1>4. CASE step
  <2>1. PICK opcode \in {{pc}, {}}, d \in Data, error \in BOOLEAN :
          instr_exec(opcode, d, error) /\ break_flag' = break_flag_after(opcode, d)
    BY <1>4 DEF step
  <2>2. break_addr' \in Addr
    <3>1. opcode \in SUBSET Addr
      BY DEF Inv, TypeOK
    <3> QED BY <2>1, <3>1, AccessTyped DEF instr_exec, Inv
  <2>3. break_flag' \in BOOLEAN /\ nerrors' \in BOOLEAN /\ pc' \in Addr
    BY <2>1 DEF instr_exec, break_flag_after, Inv, TypeOK
  <2> QED BY <1>4, <2>2, <2>3 DEF step, Inv, TypeOK, RunInv, breakpoint_vars
<1>5. CASE sig_int_handler
  BY <1>5 DEF sig_int_handler, Inv, TypeOK, RunInv, breakpoint_vars
<1>6. CASE go
  BY <1>6, AccessTyped DEF go, starts_clean, Inv, TypeOK, RunInv, breakpoint_vars
<1>7. CASE run
  <2>1. PICK opcode \in {{pc}, {}}, d \in Data, error \in BOOLEAN :
          /\ opcode \subseteq Addr /\ data' = d
          /\ break_addr' \in break_addrs_after(opcode, d)
          /\ break_flag' = break_flag_of_run(opcode, d)
          /\ nerrors' = (nerrors \/ error) /\ failed' = (failed \/ error)
          /\ pc' \in Addr /\ first' = FALSE
          /\ running' = go_goes_on
          /\ usr_int' = (usr_int /\ running')
          /\ breaks' = breaks /\ break_on_err' = break_on_err
    BY <1>7, RunStep
  <2>2. break_addr' \in Addr
    BY <2>1, AccessTyped DEF Inv
  <2>3. break_flag' \in BOOLEAN /\ running' \in BOOLEAN /\ usr_int' \in BOOLEAN
    BY <2>1, Zenon DEF break_flag_of_run, go_goes_on
  <2>4. running' => pc' \notin breaks /\ ~break_flag'
    BY <2>1 DEF go_goes_on
  <2>5. nerrors' \in BOOLEAN /\ failed' \in BOOLEAN /\ (nerrors' <=> failed')
    BY <1>7, <2>1 DEF run, Inv, RunInv, TypeOK
  <2> QED BY <2>1, <2>2, <2>3, <2>4, <2>5 DEF Inv, TypeOK, RunInv
<1>8. CASE UNCHANGED vars
  BY <1>8 DEF vars, breakpoint_vars, Inv, TypeOK, RunInv
<1> QED BY <1>1, <1>2, <1>3, <1>4, <1>5, <1>6, <1>7, <1>8 DEF Next

\* A run counts no error but its own, and one that has gone on does not stand at a breakpoint.
THEOREM SpecInv == Spec => []Inv
BY InitInv, NextInv, PTL DEF Spec

\* break_flag is down while "g" runs, and the address reported is always one of the memory's.
THEOREM SpecTypeOK == Spec => []TypeOK
<1>1. Inv => TypeOK
  BY DEF Inv
<1> QED BY <1>1, SpecInv, PTL

\* When break_flag is up after an instruction of a run, the instruction accessed a breakpoint as
\* data: the opcode's own breakpoint raises it at the first instruction alone, where it does not
\* count.
LEMMA FlagMeansData ==
  ASSUME Inv, run, break_flag'
  PROVE  break_addr' \in data' \cap breaks
<1>1. PICK opcode \in {{pc}, {}}, d \in Data :
        /\ data' = d /\ break_addr' \in break_addrs_after(opcode, d)
        /\ break_flag' = break_flag_of_run(opcode, d)
  BY RunStep
<1>2. ~break_flag
  BY DEF run, Inv, TypeOK
<1>3. (opcode \cup d) \cap breaks # {} /\ ~(first /\ break_addr' = pc)
  BY <1>1, <1>2 DEF break_flag_of_run, break_flag_after
<1>4. CASE d \cap breaks # {}
  BY <1>1, <1>4 DEF break_addrs_after
<1>5. CASE d \cap breaks = {}
  <2>1. opcode = {pc} /\ pc \in breaks
    BY <1>3, <1>5
  <2>2. break_addr' = pc
    BY <1>1, <1>5, <2>1 DEF break_addrs_after
  <2>3. first
    BY <2>1 DEF run, Inv, RunInv
  <2> QED BY <1>3, <2>2, <2>3
<1> QED BY <1>4, <1>5

\* A run stops for a Ctrl-C, a breakpoint at the next instruction or accessed by the last one,
\* or an error of its own that is to stop it, and for nothing that earlier commands left behind;
\* and it stops for each of these, but for an access by the first instruction to its own opcode.
THEOREM SpecStopsExactlyForCause == Spec => StopsExactlyForCause
<1> DEFINE cause == usr_int \/ pc' \in breaks \/ (break_on_err /\ failed')
           accessed == data' \cap breaks # {}
           A == run => /\ ~running' => cause \/ accessed
                       /\ running' => ~cause /\ (accessed => first /\ pc \in data')
<1>1. ASSUME Inv, run PROVE A
  <2>1. PICK opcode \in {{pc}, {}}, d \in Data :
          /\ data' = d /\ break_addr' \in break_addrs_after(opcode, d)
          /\ break_flag' = break_flag_of_run(opcode, d)
          /\ running' = go_goes_on
    BY <1>1, RunStep
  <2>2. nerrors' <=> failed'
    BY <1>1, RunStep DEF run, Inv, RunInv
  <2>3. running' <=> ~cause /\ ~break_flag'
    BY <2>1, <2>2 DEF go_goes_on
  <2>4. ASSUME running', accessed PROVE first /\ pc \in data'
    <3>1. break_addr' \in d \cap breaks
      BY <2>1, <2>4 DEF break_addrs_after
    <3>2. first /\ break_addr' = pc
      BY <2>1, <2>3, <2>4 DEF break_flag_of_run, break_flag_after
    <3> QED BY <2>1, <3>1, <3>2
  <2>5. break_flag' => accessed
    BY <1>1, FlagMeansData
  <2> QED BY <2>3, <2>4, <2>5
<1>2. Inv /\ [Next]_vars => [A]_vars
  BY <1>1
<1> QED BY <1>2, SpecInv, PTL DEF Spec, StopsExactlyForCause

\* The address reported with a stop is a breakpoint, and the last instruction accessed it as data.
THEOREM SpecReportedAddressAccessed == Spec => ReportedAddressAccessed
<1> DEFINE A == run /\ ~running' /\ break_flag' => break_addr' \in data' \cap breaks
<1>1. Inv /\ [Next]_vars => [A]_vars
  BY FlagMeansData
<1> QED BY <1>1, SpecInv, PTL DEF Spec, ReportedAddressAccessed

-----------------------------------------------------------------------------
(* The lines of a session.                                                 *)

SessionInv ==
  /\ Session!TypeOK
  /\ breaks \subseteq named
  /\ addr \in named

\* What a word means is an address, and what a command takes for it is that or the address it
\* had before.
LEMMA FindTyped ==
  ASSUME Session!TypeOK, NEW word, NEW old
  PROVE  /\ Session!Meaning(word) \subseteq Session!Address
         /\ Session!find(word, old) \subseteq Session!Meaning(word) \cup {old}
         /\ Session!Meaning(word) # {} => Session!find(word, old) \subseteq Session!Meaning(word)
<1>1. \A i \in DOMAIN symtab : symtab[i].value \in Session!Address
  <2> DEFINE S == [value : Session!Address, name : Name]
  <2>1. symtab \in Seq(S)
    BY DEF Session!TypeOK
  <2> HIDE DEF S
  <2>2. \A i \in DOMAIN symtab : symtab[i] \in S
    BY <2>1
  <2> QED BY <2>2 DEF S
<1>2. word \in Number => Hex[word] \in Session!Address
  BY SessionAssumption DEF Session!Address
<1>3. Session!Meaning(word) \subseteq Session!Address
  BY <1>1, <1>2 DEF Session!Meaning, Session!Defined
<1> QED BY <1>3 DEF Session!find

\* "r p" takes a number, and the byte of "mm" and "mf" is one.
LEMMA LineTyped ==
  ASSUME NEW line \in Session!Lines \cup {Session!NoLine}
  PROVE  /\ line.cmd = "r" => line.word \in Number
         /\ line.byte \in Session!Address
<1>1. 0 \in Session!Address
  BY SessionAssumption DEF Session!Address
<1>2. ASSUME NEW cmd, NEW how, NEW words, line \in Session!Line(cmd, how, words)
      PROVE  line.cmd = cmd /\ line.word \in words /\ line.byte \in Session!Address
  BY <1>1, <1>2 DEF Session!Line
<1>3. CASE line = Session!NoLine
  BY <1>1, <1>3 DEF Session!NoLine
<1>4. CASE line \in Session!Line("r", {"p"}, Number)
  BY <1>2, <1>4
<1>5. CASE \/ line \in [cmd : {"mm"}, how : {""}, word : Word, byte : Session!Address]
           \/ line \in [cmd : {"mf"}, how : {""}, word : Number, byte : Session!Address]
  BY <1>5
<1>6. CASE \/ line \in Session!Line("b", {"toggle", "-", "+"}, Word \cup {Session!NoWord})
           \/ line \in Session!Line("B", {"C"}, {Session!NoWord})
           \/ line \in Session!Line("B", {"c", "s"}, Word)
           \/ line \in Session!Line("g", {""}, Word \cup {Session!NoWord})
           \/ line \in Session!Line("R", {""}, {Session!NoWord})
           \/ line \in Session!Line("md", {""}, Word \cup {Session!NoWord})
  <2>1. line.cmd \in {"b", "B", "g", "R", "md"} /\ line.byte \in Session!Address
    BY <1>2, <1>6
  <2> QED BY <2>1
<1> QED BY <1>3, <1>4, <1>5, <1>6 DEF Session!Lines

LEMMA SessionInitInv == Session!Init => SessionInv
<1> SUFFICES ASSUME Session!Init PROVE SessionInv
  OBVIOUS
<1>1. 0 \in Session!Address /\ MaxAddr \in Session!Address
  BY SessionAssumption DEF Session!Address
<1>2. symtab \in Seq([value : Session!Address, name : Name]) /\ Len(symtab) <= MaxSyms
  BY SessionAssumption DEF Session!Init
<1> QED BY <1>1, <1>2 DEF Session!Init, SessionInv, Session!TypeOK, Session!NoLine

\* A line of the symbol file adds a symbol of the table's type, as long as there is room.
LEMMA SymbolTyped ==
  ASSUME Session!TypeOK, NEW value \in Session!Address, NEW name \in Name,
         Session!sym_add(value, name)
  PROVE  symtab' \in Seq([value : Session!Address, name : Name]) /\ Len(symtab') <= MaxSyms
<1> DEFINE S == [value : Session!Address, name : Name]
           s == [value |-> value, name |-> name]
<1>1. symtab \in Seq(S) /\ Len(symtab) <= MaxSyms /\ s \in S /\ MaxSyms \in Nat
  BY SessionAssumption DEF Session!TypeOK
<1>2. symtab' = IF Len(symtab) < MaxSyms THEN Append(symtab, s) ELSE symtab
  BY DEF Session!sym_add
<1> HIDE DEF S, s
<1>3. CASE Len(symtab) < MaxSyms
  <2>1. symtab' \in Seq(S) /\ Len(symtab') = Len(symtab) + 1
    BY <1>1, <1>2, <1>3
  <2> QED BY <1>1, <1>3, <2>1 DEF S
<1>4. CASE ~(Len(symtab) < MaxSyms)
  BY <1>1, <1>2, <1>4 DEF S
<1> QED BY <1>3, <1>4

\* The bytes of an S1 line are addresses, as every byte is here.
LEMMA LoadTyped ==
  ASSUME Session!TypeOK, NEW type, NEW start \in Session!Address, NEW sum_is_right,
         NEW bytes \in {<<b>> : b \in Session!Address} \cup {<<>>},
         Session!load_line_s19(type, start, bytes, sum_is_right)
  PROVE  ram' \in [Session!Address -> Session!Address] /\ errcode' \in {0, -1}
<1>1. CASE type = "S1"
  <2>1. ASSUME NEW a \in Session!Address, a - start \in 0 .. Len(bytes) - 1
        PROVE  bytes[a - start + 1] \in Session!Address
    <3>1. PICK b \in Session!Address : bytes = <<b>>
      BY <2>1
    <3>2. a - start = 0
      BY <2>1, <3>1, SessionAssumption DEF Session!Address
    <3> QED BY <3>1, <3>2
  <2>2. ram' = [a \in Session!Address |->
                  IF a - start \in 0 .. Len(bytes) - 1 THEN bytes[a - start + 1] ELSE ram[a]]
    BY <1>1 DEF Session!load_line_s19
  <2>3. errcode' \in {0, -1}
    BY <1>1 DEF Session!load_line_s19
  <2> QED BY <2>1, <2>2, <2>3 DEF Session!TypeOK
<1>2. CASE type # "S1"
  BY <1>2 DEF Session!load_line_s19, Session!TypeOK
<1> QED BY <1>1, <1>2

\* A line that is one of those modelled, as the last line typed is.
LEMMA CommandKeeps ==
  ASSUME SessionInv, NEW line \in Session!Lines \cup {Session!NoLine}, Session!command(line)
  PROVE  /\ ram' \in [Session!Address -> Session!Address]
         /\ {pc', addr', dump_addr'} \cup breaks' \cup named' \subseteq Session!Address
         /\ breaks' \subseteq named' /\ addr' \in named'
<1> USE DEF SessionInv
<1>1. Session!TypeOK /\ Vector \in Session!Address
  BY SessionAssumption DEF Session!Address
<1>2. CASE Session!b(line)
  <2>1. CASE UNCHANGED <<breaks, addr, named>>
    BY <1>2, <2>1 DEF Session!b, Session!TypeOK
  <2>2. CASE /\ addr' \in Session!find(line.word, addr)
             /\ named' = named \cup Session!Meaning(line.word)
             /\ breaks' \in {breaks \cup {addr'}, breaks \ {addr'}}
    <3>1. Session!Meaning(line.word) \subseteq Session!Address /\ addr' \in named'
      BY <1>1, <2>2, FindTyped
    <3> QED BY <1>2, <2>2, <3>1 DEF Session!b, Session!TypeOK
  <2> QED BY <1>2, <2>1, <2>2 DEF Session!b, Session!set_break
<1>3. CASE Session!B(line)
  <2>1. CASE breaks' = {} /\ UNCHANGED <<addr, named>>
    BY <1>3, <2>1 DEF Session!B, Session!TypeOK
  <2>2. CASE /\ addr' \in Session!find(line.word, pc)
             /\ named' = named \cup (IF Session!Meaning(line.word) = {} THEN {pc}
                                     ELSE Session!Meaning(line.word))
             /\ breaks' \in {breaks \cup {addr'}, breaks \ {addr'}}
    <3>1. /\ Session!Meaning(line.word) \subseteq Session!Address /\ pc \in Session!Address
          /\ addr' \in named'
      BY <1>1, <2>2, FindTyped DEF Session!TypeOK
    <3> QED BY <1>3, <2>2, <3>1 DEF Session!B, Session!TypeOK
  <2> QED BY <1>3, <2>1, <2>2 DEF Session!B, Session!set_break
<1>4. CASE Session!g(line)
  <2>1. Session!Meaning(line.word) \subseteq Session!Address /\ addr' \in named'
    BY <1>1, <1>4, FindTyped DEF Session!g
  <2> QED BY <1>4, <2>1 DEF Session!g, Session!TypeOK
<1>5. CASE Session!R(line)
  BY <1>1, <1>5 DEF Session!R, Session!TypeOK
<1>6. CASE Session!reg_cmd(line)
  <2>1. line.word \in Number
    BY <1>6, LineTyped DEF Session!reg_cmd
  <2>2. Hex[line.word] \in Session!Address
    BY <2>1, SessionAssumption DEF Session!Address
  <2> QED BY <1>6, <2>2 DEF Session!reg_cmd, Session!TypeOK
<1>7. CASE Session!m(line)
  <2>1. line.byte \in Session!Address
    BY LineTyped
  <2>2. ram' \in [Session!Address -> Session!Address]
    <3>1. PICK a : ram' = IF line.cmd = "md" THEN ram
                          ELSE [ram EXCEPT ![IF line.cmd = "mm" THEN a ELSE Hex[line.word]]
                                  = line.byte]
      BY <1>7 DEF Session!m
    <3> QED BY <2>1, <3>1 DEF Session!TypeOK
  <2> QED BY <1>7, <2>2 DEF Session!m, Session!TypeOK
<1> QED BY <1>2, <1>3, <1>4, <1>5, <1>6, <1>7 DEF Session!command

LEMMA SessionNextInv == SessionInv /\ [Session!Next]_Session!vars => SessionInv'
<1> SUFFICES ASSUME SessionInv, Session!Next \/ UNCHANGED Session!vars PROVE SessionInv'
  OBVIOUS
<1> USE DEF Session!program_vars, Session!command_vars
<1>1. CASE Session!load_file
  <2>1. ram' \in [Session!Address -> Session!Address] /\ errcode' \in {0, -1}
    BY <1>1, LoadTyped DEF Session!load_file, SessionInv
  <2> QED BY <1>1, <2>1 DEF Session!load_file, SessionInv, Session!TypeOK
<1>2. CASE Session!sym_readfile
  BY <1>2 DEF Session!sym_readfile, SessionInv, Session!TypeOK
<1>3. CASE Session!read_symbol
  <2>1. symtab' \in Seq([value : Session!Address, name : Name]) /\ Len(symtab') <= MaxSyms
    <3>1. \A number \in Number : Hex[number] \in Session!Address
      BY SessionAssumption DEF Session!Address
    <3>2. \/ UNCHANGED symtab
          \/ \E number \in Number, name \in Name : Session!sym_add(Hex[number], name)
      BY <1>3 DEF Session!read_symbol, Session!read_aslink_file, Session!read_asm68xx_file
    <3> QED BY <3>1, <3>2, SymbolTyped DEF SessionInv, Session!TypeOK
  <2> QED BY <1>3, <2>1 DEF Session!read_symbol, SessionInv, Session!TypeOK
<1>4. CASE Session!start
  <2>1. Vector \in Session!Address
    BY SessionAssumption DEF Session!Address
  <2> QED BY <1>4, <2>1 DEF Session!start, Session!commandinit, SessionInv, Session!TypeOK
<1>5. CASE Session!typed
  <2>1. PICK line \in Session!Lines : Session!command(line) /\ buf2' = line
    BY <1>5 DEF Session!typed
  <2> QED BY <1>5, <2>1, CommandKeeps DEF Session!typed, SessionInv, Session!TypeOK
<1>6. CASE Session!repeated
  <2>1. Session!command(buf2) /\ buf2 \in Session!Lines \cup {Session!NoLine}
    BY <1>6 DEF Session!repeated, SessionInv, Session!TypeOK
  <2> QED BY <1>6, <2>1, CommandKeeps DEF Session!repeated, SessionInv, Session!TypeOK
<1>7. CASE Session!leave
  BY <1>7 DEF Session!leave, SessionInv, Session!TypeOK
<1>8. CASE UNCHANGED Session!vars
  BY <1>8 DEF Session!vars, SessionInv, Session!TypeOK
<1> QED BY <1>1, <1>2, <1>3, <1>4, <1>5, <1>6, <1>7, <1>8 DEF Session!Next

\* In every session a breakpoint stands only where a line asked for it, or at the address 0; and
\* every address is one, however symbols and numbers are mixed.
THEOREM SessionSpecInv == Session!Spec => [](Session!TypeOK /\ Session!BreaksAskedFor)
<1>1. SessionInv => Session!TypeOK /\ Session!BreaksAskedFor
  BY DEF SessionInv, Session!BreaksAskedFor
<1> QED BY <1>1, SessionInitInv, SessionNextInv, PTL DEF Session!Spec

-----------------------------------------------------------------------------
(* Both, as they are checked.                                              *)

BothInv ==
  /\ build \in {"run", "session"}
  /\ build = "run" => Inv
  /\ build = "session" => SessionInv

LEMMA BothSpecInv == BothSpec => []BothInv
<1>1. RunInit \/ SessionInit => BothInv
  BY InitInv, SessionInitInv DEF RunInit, SessionInit, BothInv
<1>2. BothInv /\ [BothNext]_<<build, vars, session_vars>> => BothInv'
  <2> SUFFICES ASSUME BothInv, [BothNext]_<<build, vars, session_vars>> PROVE BothInv'
    OBVIOUS
  <2>1. CASE step_of_run
    BY <2>1, NextInv DEF step_of_run, BothInv
  <2>2. CASE step_of_session
    BY <2>2, SessionNextInv DEF step_of_session, BothInv
  <2>3. CASE UNCHANGED <<build, vars, session_vars>>
    <3>1. UNCHANGED vars /\ UNCHANGED Session!vars
      BY <2>3 DEF vars, session_vars, breakpoint_vars, Session!vars, Session!program_vars,
         Session!command_vars
    <3> QED BY <2>3, <3>1, NextInv, SessionNextInv DEF BothInv
  <2> QED BY <2>1, <2>2, <2>3 DEF BothNext
<1> QED BY <1>1, <1>2, PTL DEF BothSpec

\* A breakpoint stands only where a line asked for it.
THEOREM BothSpecBreaksAskedFor == BothSpec => []BreaksAskedFor
<1>1. BothInv => BreaksAskedFor
  BY DEF BothInv, SessionInv, BreaksAskedFor, Session!BreaksAskedFor
<1> QED BY <1>1, BothSpecInv, PTL

\* The types of both.
THEOREM BothSpecTypeOK == BothSpec => []BothTypeOK
<1>1. BothInv => BothTypeOK
  BY DEF BothInv, Inv, SessionInv, BothTypeOK
<1> QED BY <1>1, BothSpecInv, PTL

=============================================================================
