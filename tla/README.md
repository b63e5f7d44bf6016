# A verification project for sim68xx

`sim68xx` simulates the 8-bit processors of the 6800 family (6800, 6301, 6303,
6805, 6811) with their timers and serial interfaces, under a line-oriented
monitor with breakpoints and stepping, and some boards built around them. This
directory holds TLA+ models of it, the TLC configurations that check them, and
proofs that TLAPS checks. Everything is translated from the C code; `PROJECT.json`
maps each definition to its lines.

## 1. Inventory

The simulator is one thread and one signal handler. What makes it hard is not
threads but *ordering*: an instruction, the advance of the timers, an interrupt,
a poll of the keyboard, a command of the user, a memory dump and Ctrl-C follow
each other in any order, and most of the state is kept in globals that several
of them read and write.

| Part | Code (under `src/`) | State | Operations | What makes it correct |
|---|---|---|---|---|
| Stack, call stack | `base/callstac.c`, `arch/m68xx/reg.c` | `regs.sp`, `callstack`, `call_level` | push, pull, call, interrupt, return, load of SP | The call stack lists the calls that have not returned, the oldest ones when it is full |
| Step commands | `base/command.c` (`s`, `e`, `t`, `R`), SIGINT | `usr_int`, start values of SP and `call_level` | one turn of each loop | They stop where the calls say, however interrupts and Ctrl-C come |
| Go and breakpoints | `base/command.c` (`g`, `b`, `B`), `arch/m68xx/memory.c` | `breaks`, `break_flag`, `break_addr`, `nerrors`, `usr_int` | accesses, dumps, a turn of `g` | Every cause stops a run; nothing else does |
| Keyboard and serial input | `arch/m68xx/io.c`, `arch/*/sci.c` | `recvbuf`, `rxindex`, `rxinterrupts`, the key held by `io_poll` | `sci_in`, `io_poll`, `i sci`, `rdr_getb` | What was taken in is read once, in order; keys are never dropped |
| 6303 timers | `arch/h6303/timer.c`, `ireg.c` | FRC, OCR1/2, TCSR1/2, timer 2, "status is read" flags | register accesses, `timer_inc` | Flags tell exactly of unacknowledged matches |
| 6303 interrupts | `arch/h6303/instr.c`, `sci.c` | I bit, request and enable bits | `instr_exec` | An interrupt has a cause; none is held off |
| Arithmetic | `arch/m68xx/alu.c`, `opfunc.c` | A, B, condition codes | instructions | Carries and flags mean what programs take them for |
| 6301 chip | `arch/h6301/` | FRC, OCR, TCSR, SCI requests | as the 6303 | OCF and its acknowledgement; the SCI is served |
| 6800 with ACIA | `arch/m6800/` | ACIA | as the 6303's SCI; takes no interrupts | A byte that was announced waits |
| 6811 chip | `arch/m6811/` | TCNT, TOC1-5 and the ticks to each match, TFLG1, SCI, SPI | register accesses, `timer_inc`, arbitration | A match when the counter comes to TOC; requests are served; one of the SPI is withdrawn only when its status was read |
| 6805 chip | `arch/m6805/` | FRC, OCR, TSR, prescaler | as above; checks PC after entering an interrupt | A match when the ticks written have passed |
| I2C, X9241 | `boards/i2c_sim.c` | last lines, frame, bits both ways, wipers | edges of clock and data | Frames set and read wipers, however they are broken off |
| NCCPU board | `boards/nccpu.c` | input and output rings, latches, buttons | writes of SPDR and PORTA, `nc` commands | What is latched is clocked in, what was clocked out is latched |
| NCPAN, NC24R boards | `boards/ncpan.c`, `nc24r.c` | keys, dip switch; relay status | port writes, `nc` commands | The switch read is the one set; the status is that of the relays |
| Monitor: start and lines | `base/main.c`, `command.c`, `fileio.c`, `symtab.c` | memory, symbol table, `addr`, `dump_addr`, `buf2` | load, lines, repetition by an empty line | Addresses mean what the line says |
| Terminal, printing | `base/tty.c`, `fprinthe.c` | - | - | not modelled: input and output |
| Opcode tables, listing | `arch/*/optab.c`, `opfunc.c`, `instr_print`, `u` | `unasm_addr`, PC | `instr_exec`, `unassemble` | What is listed is what is executed; time goes on |
| `net/`, `x9241_sim.c`, `memsetl.c`, `gui/` | | | | not modelled: in no program the makefiles build, or a separate prototype |

How they interact. `command()` calls `instr_exec()` in a loop; that may enter an
interrupt (reading the chip's registers) or execute an instruction, which reads
and writes memory through `mem_getb`/`mem_putb`; these notice breakpoints and
dispatch register addresses to the functions in the tables of `ireg.c`. At its end
`instr_exec` advances the timers. Every 500 instructions the loop calls
`io_poll`, which feeds `sci_in`. A dump (`md`) uses the same `mem_getb` as the
program does. The signal handler sets `usr_int` only. The boards replace entries of
the tables of register functions: a write of SPDR, PORTA, PORTB, PORTD or PORTE runs
the board's function, which queues bytes for the SPI (`spi_in`) or tells `i2c_sim`
of the lines.

The behaviours that are hard to test are listed, each at its line, under
`hazards` in `PROJECT.json`, with the properties that cover it or the reason why
none does.

## 2. Modules

| Module | Models | Used by |
|---|---|---|
| `CallStack` | `regs.sp`, `callstack`, `call_level` and every instruction that moves the stack pointer | `Stepping`, `MCCallStack`, `CallStackProofs` |
| `Stepping` | `s`, `e`, `t`, `R`, Ctrl-C and a disciplined program with interrupts, over an instance of `CallStack` | `MCStepping`, `SteppingProofs` |
| `Breakpoints` | `g`, breakpoints, accesses, dumps, errors | `MCBreakpoints`, `BreakpointsProofs` |
| `Monitor` | from `main` to the end of a session: S-records, symbol files, the lines b, B, g, R, r p, md, mm, mf, init file and terminal | `MCBreakpoints`, `BreakpointsProofs` |
| `SerialFifo` | abstract: what a receiver promises | `Sci` |
| `Sci` | receive buffer, keyboard poll, `i sci` command, reading program | `MCSci`, `SciProofs` |
| `Timer6303Registers` | sizes, bits and bounds of the 6303's timers | `Timer6303`, `Chip6303` |
| `Timer6303` | FRC, OCR1, OCR2, TCSR1, TCSR2, timer 2 | `Chip6303` |
| `Chip6303` | interrupt arbitration and serial requests over an instance of `Timer6303` | `MCChip6303`, `Chip6303Proofs` |
| `SciRequests` | the requests of a serial interface, as functions of a record | `Chip6301`, `Chip6805`, `Chip6811`, `Acia6800` |
| `Spi6811` | the SPI, as functions of a record | `Chip6805`, `Chip6811`, `Nccpu`, `Ncpan` |
| `Timer6811Registers`, `Timer6811` | TCNT, TOC1 to TOC5, the ticks to a match, TFLG1 and TMSK1 | `Chip6811`, `MCChips`, `ChipsProofs` |
| `Chip6811` | arbitration and instructions over instances of `Timer6811`, `Spi6811`, `SciRequests` | `MCChips`, `ChipsProofs` |
| `Chip6301`, `Chip6805`, `Acia6800` | the smaller chips, with their timers | `MCChips`, `ChipsProofs` |
| `Potentiometers` | abstract: what X9241 potentiometers promise, byte by byte | `I2cBus` |
| `I2cBus` | the two wires, `i2c_sim`, the Xicor frame and the X9241, bit by bit | `MCBoards`, `BoardsProofs` |
| `Nccpu`, `Ncpan`, `Nc24r` | the boards, the first two over an instance of `Spi6811` | `MCBoards`, `BoardsProofs` |
| `Alu` | `alu.c`, MUL, DAA, conditions of the branches: operators only | `MultiPrecision`, `Decimal` |
| `MultiPrecision` | instruction sequences on numbers of several bytes: 6801, 6811, 6805 | `MCMultiPrecision`, `InstructionProofs` |
| `Decimal` | decimal additions with DAA | `MCDecimal` |
| `Opcodes` | every entry of the opcode tables of the five chips, and the bytes the functions take: operators only | `Listing` |
| `Listing` | `instr_exec` and `u` walking over the same program | `MCListing`, `InstructionProofs` |
| `CallStackProofs`, `SteppingProofs`, `SciProofs`, `Chip6303Proofs`, `ChipsProofs`, `BreakpointsProofs`, `BoardsProofs`, `InstructionProofs` | theorems, each over the modules whose "used by" names it; `SteppingProofs` uses two instances of `CallStackProofs` | |

State and actions. Variables have the names of the C variables, actions the names
of functions or commands. Where a C function computes on a struct that several
instructions share (`reg_setsp`, `callstack_push`, the functions of `timer.c`),
it is an operator from record to record and the instruction composes several
calls in the order of the code. Variables marked "history" are not in the code:
they record what happened (the calls whose return address is still stacked; the
bytes accepted and read; whether a match was read and acknowledged; the numbers
a chain of digits stands for) so that properties can say what the code's own
state is meant to represent.

Points of translation worth knowing:

- `reg_setsp` takes a `u_int`: 0 - 1 arrives as the largest `u_int` and is cut to
  the width of `regs.sp` only when stored. `CallStack` keeps both sizes as constants.
- `CallStack` lets a program do anything, including loading SP with any value.
  `Stepping` restricts it to programs that leave a routine with the stack they
  entered it with, since `s` and `e` can mean nothing otherwise.
- A push that wraps the stack pointer past 0 leaves no call on the history's stack,
  as the code drops all frames there.
- In `Timer6303` and `Chip6303` an instruction accesses any register in any of
  the ways the instruction set has (byte, word, read-modify-write), then
  `timer_inc` runs with any number of cycles up to `MaxCycles`. A word is two adjacent registers, the
  high byte first. Dumps may come
  between any two. Programs that write FRC itself are left out. What enables
  timer 2 and selects its clock is read from TCONR, as `ireg_getw(TCSR3) & TE2` does.
- In `Spi6811` the program writes SPSR as it writes memory, since no function is installed for it:
  SPIF falls or rises with no status read, and `spi_interrupt`, a flag of its own, stays. What the code
  does keep to is stated as `SpiAcknowledged`: the request falls only after a reading of SPSR that followed the
  transfer (history `seen`), and an SPIF that falls without one takes nothing else with it.
- In `Breakpoints` an opcode fetch and a set of data accesses in any order stand
  for an instruction. `Monitor` has the addresses instead: where a word of a line
  comes from, and which address stays behind for the next line.
- In `Monitor` a byte of memory is an address, since only the reset vector matters;
  `errcode` of an empty file is either value, as it is not assigned.
- In `Timer6811` the compare registers and the ticks to their match are separate, as in
  `struct toc`: only a write of TOC1's low byte recounts, from the low byte that stood
  there before. `LongExceedsInt` says whether the difference of two `u_int` becomes
  negative in a `long`. The history `settled` says that the last recount used the
  value the register now holds.
- In `Chip6805` the match is a count relative to a counter that is not cut to 16 bits,
  and cycles are counted in a `u_int` that wraps; instructions access registers after
  their cycles are counted, as `instr_exec` of the 6805 does, other chips before.
- In `I2cBus` the program is any program on three port bits, and may break a frame off
  anywhere. `i2c_input` changes the data line without telling `i2c_sim`. A byte is the
  sequence of its bits, the highest first, in `I2cBus` and in `Potentiometers`; a frame has less than 32
  bytes, as its bits are counted in a `u_char`.
- In `Nccpu` a write of SPDR is one action: output ring, `spi_in`, `spdr_putb`. The command `i spi` queues
  a byte in front of those of the board; from then on, as after an inhibited write, the history `skewed` is
  set and inputs and transfers are out of step.
- `Opcodes` keeps of a function its addressing mode and where it leaves the program counter. The
  operand counts of the tables and the bytes the functions take are separate operators, from
  `optab.c` and `opfunc.c`. In `Listing` what instructions compute is left open, so a branch goes
  either way and a jump anywhere; the program does not change itself. The histories `executed` and
  `listed` begin where both stand at one address and end at the first jump.
- In `Alu` the width of a byte is a constant, 8 or fewer; `MultiPrecision` runs with bytes of
  two bits so that all operands of two bytes are covered, `Decimal` with the real 8. `build` says
  which of the two instruction sets is compiled in.

## 3. Runs

| Run | Properties | Shows |
|---|---|---|
| `callstack` | `TypeOK`, `FramesNested`, `OldestCallsRecorded` | The frames recorded are exactly the oldest `MAXCALLSTACK` live calls, through wraps, overflow and loads of SP. |
| `sci` | `TypeOK`, `NoByteLost`, `ImplementsFifo`, `HeldKeyAccepted` | The index-based buffer with the held key implements `SerialFifo`; a refused key gets in. |
| `stepping` | `BothTypeOK`, `BothStepOverStopsOutside`, `BothStepOutStopsAtReturn`, `CtrlCStops` | `s` stops outside any routine called since; `e` stops exactly at the return of its subroutine, on the 6303 until the first RTI, on the 6811, whose RTI does not count, always; Ctrl-C ends both. |
| `chip6303` | `TypeOK`, `Ocf1Exact`, `MatchUnlessWrap`, `Ocf2NeverFalls`, `TxFollowsTie`, `CompareInterruptHasMatch`, `CompareServed` | OCF1 is set exactly from a match to its acknowledgement, and a match comes at its count unless the counter wraps; OCF2 stays set; interrupts have a cause; the compare interrupt cannot be held off by the serial interface. |
| `chips` | `AllTypeOK`, `OcfWhilePast`, `Oc1MatchesToc1`, `UnlatchedTogether`, `SpiAcknowledgedAfterStatus`, `AckNeedsCounterBehind`, `MatchWhenDue`, `LowestServed` | 6811: TOC1 matches at its count when the ticks were counted from it, and TOC2 to TOC5 only all at once; a request of the SPI is withdrawn only after the status of its own transfer was read, whatever is written to SPCR and SPSR. 6301: OCF is up wherever the counter is past OCR and falls only before it. 6805: it matches when its ticks have passed, but also at once when the count of cycles wraps. The interrupt of the lowest priority is served on all three; input captures do not hold off the SPI of the 6811. |
| `boards` | `TypeOK`, `UnseenOnlyAfterAck`, `InputsInStep`, `RelaysShowWritten`, `KeepsPromise` | What is latched is clocked in, unless a write was inhibited or a byte queued with `i spi`; STROBE shows the last bytes written; relay status has a bit of its own per relay; the bus implements `Potentiometers`, and only an acknowledge changes the data line unseen. |
| `breakpoints` | `BothTypeOK`, `BreaksAskedFor`, `StopsExactlyForCause`, `ReportedAddressAccessed` | `g` stops exactly for its causes, whatever earlier commands left behind; in a session of lines a breakpoint stands only where a line asked for it, or at address 0, where `addr` starts. |
| `multiprecision` | `DigitsExact`, `ProductRounds`, `BranchesDecide` | Carry survives what comes between two digits, FDIV continues IDIV's and its own remainder; flags decide branches rightly at every boundary. |
| `listing` | `OnlyKnownMisprints`, `TimePasses` | From the program counter to the first jump, the listing shows exactly the instructions executed, unless it meets one of the entries whose operand count is wrong, all of which the property names; every loop takes time, and the entries that take none are the ones named. |

Three runs check what a comment or the help text of the repository says, and find
it violated by the code:

| Run | Statement | What happens |
|---|---|---|
| `step_out_doc` | `e`: "return from subroutine - execute until next rti/rts" | On the 6811 neither the entry of a handler nor its RTI changes `call_level`: `e` typed in a handler at level 0 goes on after the RTI, since 0 >= 0 holds. |
| `timer6303_wrap` | "Output Compare Flag: FRC matched OCR" | A counter that wraps in an instruction misses a compare value behind the wrap; OCR1 = 0 never matches. |
| `daa_doc` | "Decimal adjust sum of 2 BCD digits in A to two BCD nibbles in A" | 61 + 99: the low adjustment carries out of the byte before the high nibble is tested; the result is 00 with carry, not 60. |

Passing runs show more such disagreements, listed under `findings`: `Ocf2NeverFalls`
(a comment describes how OCF2 is cleared, no function is installed for writes of OCR2),
`Oc1MatchesToc1` (the "value to write to TOCi" is the one before its low byte is written;
without the premise `settled` the property fails, and so it does without the part about
`long`), `UnlatchedTogether` and `OcfWhilePast`; `OnlyKnownMisprints` (the "No. of bytes in operand"
of AIM, OIM, EIM and TIM on the 6301 is not what they take, and the listing shows operands as
instructions) and `TimePasses` (the "No. of clock cycles" of LDY and STY with a direct operand
is 0 on the 6811), which name the entries and show that there are no others.

### Bounds, and why they are enough

- `callstack`: 12 bytes of stack, `u_int` twice as large, 2 frames, 4 calls. An
  interrupt (7 bytes) fits inside two calls; the call stack overflows by two; every
  wrap occurs. The theorems of section 5 remove the bounds.
- `sci`: buffer of 3, four keys, four command bytes in commands of one or two. The
  window reaches the end of the buffer without being full, more than once.
- `stepping`: interrupts and calls three deep, one reset, one RTI: enough for an
  interrupt inside a call, and a step typed at each level. `call_level` going below 0
  and wrapping occurs. Both CPUs run in one state space. `step_out_doc` has the 6811 alone.
- `chip6303`: bytes of two values, so that counts of 16 bits are counts
  of 4; instructions of one or two cycles. Every relation of counter and compare
  value occurs, with and without a wrap. The build "timer" has every byte written to
  the compare registers; the build "chip" keeps one handler and one waiting byte, and
  writes only the high value: arbitration sees bits, not amounts.
- `chips`: seven builds side by side. 6811: the same counter of 4, a `u_int` of 8 values, a `long` as wide and a wider
  one. TOC1 and TOC2 are written with every byte in the builds "int" and "long"; TOC3
  stands for TOC4 and TOC5, whose code is the same. In "6811" one byte waits for the SPI and
  one for the SCI, and two of the enable bits, TOC1's and an input capture's, are written.
  The others: counters of 4; the 6805's `u_int` of 24 values, so that the count of cycles
  wraps by less and by more than a round of the counter, with instructions of 1, 3 and 5
  cycles (the prescaler divides by 4); in "6805" all instructions take 8 cycles, two ticks.
- `boards`: two input bytes or two relay boards (the inputs beside which stay as they start), an SPI
  buffer of 2; bytes of 4 bits on
  the I2C bus, which leaves a bit or two for each field of address and command; six
  frames: writes to two wipers, reads, one byte too many, an unknown command and an
  unknown address. Four keys of the panel, on three rows and four columns; eight of the values of
  PORTB, which reach all three board settings and the swapped bits.
- `breakpoints`: three addresses, two data accesses: an opcode and two bytes, each
  a breakpoint or not, symmetric, and no liveness is checked. In "session" two addresses and
  three words: a number, a name, and a name that reads as a number; a symbol table of two,
  so that the same name comes twice and the table overflows.
- `multiprecision`: bytes of two bits, numbers of two bytes. A carry or a flag of
  `alu.c` depends on the top bits and on zero only, which bytes of two bits have. The theorems
  are for every width up to the real 8, and for numbers of any length.
- `listing`: programs of six bytes, more than the longest
  instruction. Every entry of every table stands first in one, followed by NOPs (branches on the
  6805) or by loads of an immediate byte (empty entries on the 6805), so that operands read as instructions of one byte and of two.
- `daa_doc`: no reduction.

### Fairness

- `Sci`: weak fairness of `io_poll` (the loop of `g` calls it every 500 instructions)
  and of `rdr_getb`, under the premise that the CPU stays running: a program that
  serves its receiver. Nothing is assumed of the user.
- `Stepping`: weak fairness of a turn of the loop, which the code executes without
  waiting for anything.
- `Chip6303`: weak fairness of `instr_exec`, as the loop of `g` gives it. That the program lets
  interrupts in again and again is a premise of `CompareServed`, not an assumption.
- `Chip6811`, `Chip6301`, `Chip6805`: none. That the CPU again and again runs with interrupts let in and
  nothing of higher priority requested is the premise of `LowestServed`, which holds without any promise of
  the monitor or of what comes in.

`CHECK_DEADLOCK` is on everywhere but in `breakpoints`: a session ends with its
last line, and nothing can follow.

## 4. Abstract specifications

`SerialFifo` says what a receiver promises without a buffer: typed keys are taken
in or held, never dropped, and held only while something is waiting; a command's
bytes are taken in up to some point; reads come in order. `Sci` is shown to
implement it with `queue` mapped to the window of `recvbuf` between `rxindex` and
`rxindex + rxinterrupts`, and `held` to the static `c` of `io_poll`. The second
promise, that nothing is refused while no byte waits, is the one a window that is not
moved back to the start would break.

`Potentiometers` says what the X9241 promise byte by byte: a START forgets everything, a
third byte after an address and a write command sets a wiper, a read command is answered by
the bits of the wiper, the highest first. `I2cBus` implements it (`KeepsPromise`) with
`frame` mapped to the whole bytes of `out_buf`, `reply` to the bits of `in_buf` not yet sent.
All that happens between bytes, bits, directions and broken-off frames, is a stutter.

## 5. Proofs

Constants are arbitrary up to their named assumptions: positive sizes; programs that are bytes at addresses; `u_int` no smaller
than SP and a multiple of its size; for the timers a byte of at least two values, instructions
no longer than a turn of the counter, and any divisor of timer 2's clock. Three say more. `LevelAssumption`
of `Stepping`: the calls that resets cut off, which stay in `call_level`, are not so many that this
`u_int` wraps upwards. `PrescalerAssumption` of `Chip6805`: a `u_int` counts more cycles than a round of the counter
takes (2^16 ticks of 4 cycles; a `u_int` has 2^32 values). `SizesAssumption` of the boards:
a byte on the I2C bus has a multiple of 4 bits, as its address and command are cut into halves and quarters.
A byte of `Alu` has 2 to 8 bits (`WidthAssumption`): with one bit, the sign would be the number. TLC evaluates every assumption for
the values of the runs.

A property of one step (`[][A]_vars`) is proved from the inductive invariant of the states it starts in;
where a property of states is meant, the invariant is what makes it inductive.

### The call stack, and the commands that go by it

`CallStackProofs` proves, for every family, stack size, call stack size and program,
`SpecTypeOK`, `SpecFramesNested`, `SpecOldestCallsRecorded`.
None is inductive alone. The invariant `IInv` joins: the type invariant; that the
*history* of live calls is ordered and lies at or above SP; and that `elements` is its
prefix of length at most `MAXCALLSTACK`. From the prefix relation follow both other
properties. The argument has three steps: `PopAboveCuts` and `OutliveCuts` show that
both the pop loop and the history cut an ordered sequence at the same place;
`SetspAgrees` and `PushAgrees` that one move of the stack pointer or one push preserves the
prefix relation, `OutliveTwice` that two moves compose; then one step per action. The case
that needs care is the wrap: 0 - 1 arrives as the largest `u_int`, which is above every
frame, so that both sides are emptied. `UIntMax % SPSize = SPSize - 1` is what makes
the stored value right.

`SteppingProofs` proves `SpecBothTypeOK`, `SpecStepOverStopsOutside` and `SpecStepOutStopsAtReturn`,
on any CPU the constants describe and on the 6811 beside it. The stack in `Stepping` is that of two instances of `CallStackProofs`,
whose `IInv` holds. On top of it the program keeps a `Shape`: each call stacked the bytes it returns
with below the calls around it. From that, `ReturnCuts`: a return cuts off the call in progress
and no other, so that an instruction leaves the calls alone, adds one or removes one (`InstructionOf`,
once per CPU). The command's variables then follow the calls. For `s`, `OverOK`: `ret_sp` lies at or below the
entry of the routine it was typed in and above the entry of whatever was called since. For `e`, `LevelOK` and
`OutOK`: until an RTI is counted, `call_level` moves with the number of active routines that return
with RTS, of which resets leave some behind. `OverDecides` and `OutDecides` conclude that what the
loops test says where the program is. `LevelOK` is needed for two wraps: call_level - 1 must not be
below 0 when a subroutine returns, nor call_level + 1 above a `u_int`.

`SpecCtrlCStops` needs no invariant: whatever the reason of a loop to go on, it asks for `usr_int` as well, and
until the loop has looked at it nothing clears it. It supposes that turns keep coming (see "What must
eventually happen" below).

### Run and breakpoints, the monitor's lines

`BreakpointsProofs` proves all that the run `breakpoints` checks. `StopsExactlyForCause` is no invariant of one state: it
rests on `RunInv`, that a run in progress has counted its own errors only (not what an earlier
command left in `nerrors`), and that a run which has gone on does not stand at a breakpoint, since the
fetch of that instruction would have stopped it. For the lines, `SessionInv`: all breakpoints were asked
for, *and* so was the address that the commands share, which `b` without a word takes; a line may have set
it long before.

### The serial receiver

`SciProofs` proves, for every BUFSIZE and any number of bytes, `SpecTypeOK` (no index past
`recvbuf`), `SpecNoByteLost` and `SpecImplementsFifo`. The invariant joins the bounds of the
window, that the window holds bytes only, and that what was accepted is what was read
followed by the window. `SciInAppends` follows `sci_in`: its bytes are appended to the
window; `RdrTakesFirst` the read of RDR. For the refinement, `RefusedWhileWaiting` uses that an
empty window is back at index 0: only a window that reaches the end of the buffer refuses
a byte, and that one is not empty. Then a poll maps to `Type`, `Accept` or a stutter, a
command to `Feed`, a read to `Read` or a stutter. `SpecHeldKeyAdvances` is the step of
`HeldKeyAccepted`: while a key is held the number of bytes before it does not grow, every read of one takes it
down, and at none the poll takes the key in.

### The 6303

`Chip6303Proofs` first takes the timer by itself (`T` of `Chip6303`), for every width of the
counter, every length of instructions and every program: `TimerSpecTypeOK` and `TimerSpecOcf1Exact`.
`Ocf1Exact` is strengthened by
the fact that `tcsr_is_read` holds exactly when the outstanding match was read: only then is
the write that clears OCF1 the one that acknowledges it. Each function of `timer.c` is shown to
preserve the pair (`ReadGood`, `WriteGood`, `CompareGood`, `IncGood`), and each instruction
is a composition of them. Of single steps: a match comes in just the instructions that take the
counter to OCR1 or past it without a wrap (`TimerSpecMatchUnlessWrap`), and nothing clears OCF2
(`TimerSpecOcf2NeverFalls`).

Then the chip. `SpecImplementsTimer`: every step of it is a step of
`Timer6303` or leaves the timer alone, so that what holds of the timer holds in the
chip (`SpecOcf1Exact`, `SpecMatchUnlessWrap`, `SpecOcf2NeverFalls`). From the invariant follows
`SpecCompareInterruptHasMatch`: the interrupt is entered on
OCF1, hence with a match outstanding, or on OCF2 and its enable bit, which no
write reaches. `SpecTxFollowsTie` and `SpecTypeOK` have an invariant of their own. `SpecCompareServed`: with I
clear and OCF1 and its enable bit set, no instruction runs but the step into the handler (`CompareTaken`,
by `Ocf1Exact`, and because no input capture is flagged); dumps and received bytes leave I as it is.

### The 6811, 6301, 6805 and 6800

`ChipsProofs` proves every property of the run `chips`, each chip with an inductive
invariant of its own, joined in `AllInv` according to the build.

- 6811 (`IInv11`): the ticks kept for TOC1 are the distance from TCNT to it whenever the last recount
  used the value it now holds (`settled`); those of TOC2 to TOC5 are equal, as no write recounts
  them; and `spsr_is_read` is set only if SPSR was read since the last transfer. From the first follows
  `SpecOc1MatchesToc1`, from the second `SpecUnlatchedTogether`, from the third
  `SpecSpiAcknowledgedAfterStatus`.
- 6301 (`IInv01`): from the first instruction on, OCF is up wherever the counter is at or past OCR, and there
  its status is not marked as read, unless by a dump since the last instruction: hence a program that clears OCF
  does so with the counter before OCR. `AllSpecOcfWhilePast`, `AllSpecAckNeedsCounterBehind`.
- 6805 (`IInv05`): the match lies within a round of the counter, and the ticks still to come are
  its distance. `AllSpecMatchWhenDue`, which includes the instruction in which the count of
  cycles wraps.
- 6800: a byte that was announced waits; part of `AllSpecTypeOK`.
- 6811, 6301 and 6805 (`Lowest11`, `Lowest01`, `Lowest05`): with the source of the lowest priority requested and
  nothing before it, the only instruction is the step into its handler. For the 6811 that needs the
  invariant: an enabled input capture would hold the SPI off if its flag could be set. `AllSpecLowestServed` follows.

### The boards

`BoardsProofs` proves all properties of the run `boards`, for any number of input bytes, relay boards and
buttons, and any such width of a byte on the bus. `GoodBus` is the invariant of the I2C bus: no bit of an answer counts as sent when there is no answer,
and an answer is under way only in a frame of at least two bytes. With it each function of `i2c_sim.c`
is shown to be a step of `Potentiometers` or a stutter, and so are the edges that call them
(`SpecKeepsPromise`); a bus of bits against one of bytes needs the lemmas on how bits group (`SameBits` and those around it).
`SpecUnseenOnlyAfterAck` uses the same invariant. For the shift registers, `CpuInv`: the
ring of output bytes holds the bytes written last, in the order STROBE takes them, and no byte is
left in the SPI unless a write was inhibited or `i spi` queued one; `PanInv` says the latter of the panel. The lemmas are about an
instance of `Nccpu` with parameters, as the board is built with two sizes.

### The arithmetic

`InstructionProofs` proves all that the run `multiprecision` checks, for both instruction sets, bytes of 2 to 8
bits and any `MaxDigits`: `SpecDigitsExact`, `SpecProductRounds`, `SpecBranchesDecide`. Its lemmas are of three kinds.

- Operators of `Alu`. With the half h = 2^(w - 1), a result has four quarters of length h: the bit at the
  sign and the carry above it are the number of the quarter (`Quotients`, `SignBits`). From that,
  `SumExact`, `DifferenceExact`, `LeftExact` and `RightExact`: result and C together are the unbounded
  result, and for differences without a borrow in, N, Z, V and C tell the sign of the signed and of the
  unsigned one. V is proved by cases on the signs. `ProductHalves`: rounding the product needs just bit 7 of
  its low byte, and never carries out of the high one.
- The invariant `ArithmeticInv`. `DigitsExact` alone does not survive a step: `Extended` needs it of the chain
  as it stands before the digit, `ADCA #0` needs C to be the rounding bit as long as a product is
  followed, and `FDIV` needs the remainder of the quotient to be what is *in D*. So the invariant says of a
  quotient that D is x * weight - y * r and less than y, and a chain of quotients ends with the
  first instruction that changes D. That the next word of the quotient is not cut off, `FractionIsWord`, is where D < y is used.
- One lemma per kind of instruction (`SumSteps`, `DifferenceSteps`, ..., `FractionalDivision`), each by the
  shape of what it sets: `SetsStep` (a register or memory), `SetsDStep`, `FlagsStep`; what keeps C keeps the chain (`KeptHolds`).

`Powers` is where the width has to be at most 8: 2^(w + 1) = 2 * 2^w for an arbitrary w is an induction, so
it is proved by cases. Nothing after it looks at the width again.

### The listing

`InstructionProofs` first proves `Tables`, what the walk needs of every entry: it has a length, one that
jumps takes time, and its operand count is that of its function unless it is one of those
named. Each table is a lemma, a case split over the few kinds of entries it has. Then, for programs of
any length and content, `SpecTimePasses`: addresses executed without time lie before the program
counter, and only what takes time leads back; that they hold one of the entries named comes from
`TimelessKnown`, which goes over the tables once more. And `SpecOnlyKnownMisprints`, from `WalkInv`: what was
executed is a chain of addresses that ends at the program counter, what was listed one that ends at
`unasm_addr`, and the one that is behind stands on the chain of the other. Without the last part
a step could land between two addresses of the other; it is kept because a step of the one that is
behind follows the other's, the counts being equal.

### What must eventually happen

The prover knows no ENABLED, so that nothing follows from a WF. Three properties are proved from
a recurrence instead:

- `LowestServed` has one as its premise: the CPU again and again runs on with nothing before the source. So
  `AllSpecLowestServed` has no hypothesis but the specification.
- `SpecCompareServed` supposes `[]<><<instr_exec>>_vars`, `SpecCtrlCStops` that a turn of the loop always
  comes while a command runs. The runs check both properties under WF of these actions, which gives the recurrence as long
  as the action is enabled; that it always is (where no interrupt is taken, an
  instruction that concerns nothing can run) no theorem says.

Each rests on two facts of a single step: a request is not lost until it is served, and the recurring
action serves it.

### Only model-checked

- `HeldKeyAccepted`. The key has as many reads to wait for as bytes are waiting before it, and
  an induction over that number is out of the prover's reach; its step is `SpecHeldKeyAdvances`.
- `CompareServed` and `CtrlCStops` from WF instead of the recurrences named above.
- The three statements the code violates, with them `Decimal`: its module is there for DAA, of which one is.
- That a byte may have more than 8 bits in `Alu`: the widths are proved one by one, as said above.

The modules use no RECURSIVE operators.

## 6. Not modelled

- Numbers of cycles (any number stands for them in the timers), mnemonics, printing, terminal modes, the graphical prototype and the files no
  program is built from (see the inventory).
- Parallel ports without a board, the port devices of `i port`, the stack limits of `w`.
- The interrupt a button of the NCCPU causes; the LEDs of the NCPAN; acknowledges of the
  I2C bus that wait for a clock, and devices that are not Xicor, both switched off in the
  code; frames of 256 bits and more, whose count wraps in a byte.
- In the monitor: `B s` without an address, where a null pointer is read; a symbol file
  given on the command line, whose kind is not initialised; names as long as the symbol table's
  entries; `!`, and lines that only display.
- `mm` and `mf` on registers of timers and serial interfaces, which write as an instruction does but without its
  cycles (on those of the SPI they are modelled). Interrupts of the SPI on the boards: SPIE stays clear there, since
  no board looks at it.
- Programs that write the free-running counters. The code computes matches from the counter's
  old and new count, so a written counter would be one more initial state of a step.

## 7. Plan

1. *Done:* every part of the inventory but those of section 6; the proofs of section 5, which state every
   property of the passing runs but `HeldKeyAccepted`.
2. Next: the interrupt of the NCCPU's buttons.
