----------------------------- MODULE ChipsProofs -----------------------------
(***************************************************************************)
(* The 6811, the 6301, the 6805 and the 6800 with its ACIA, for every      *)
(* width of a byte, length of instructions, set of compare registers and   *)
(* program: the types of their registers, and the properties of their      *)
(* timers and of the SPI, of which none is inductive by itself.  The       *)
(* invariants say what the simulator's own counts stand for: the ticks to  *)
(* a match are the distance of a register from the counter, and the SPI's  *)
(* status is marked as read only since the last transfer.                  *)
(***************************************************************************)
EXTENDS MCChips, SequenceTheorems, TLAPS

-----------------------------------------------------------------------------
(* The requests of a serial interface.                                     *)

\* Every function of sci.c keeps the transmitter's request with its enable bit.
LEMMA SciKeeps ==
  ASSUME NEW s, C!SciOK(s)
  PROVE  /\ \A v \in SUBSET C!SciBit : C!SciOK(C!sccr2_putb(s, v))
         /\ C!SciOK(C!scdr_putb(s)) /\ C!SciOK(C!scdr_getb(s)) /\ C!SciOK(C!sci_in(s))
<1> USE DEF C!SciOK, C!SciRecord
<1>1. /\ s \in C!SciRecord /\ s.enabled \in SUBSET C!SciBit /\ s.sci_tx_ints \in BOOLEAN
      /\ s.sci_rx_ints \in 0 .. MaxRx
  OBVIOUS
<1>2. ASSUME NEW v \in SUBSET C!SciBit PROVE C!SciOK(C!sccr2_putb(s, v))
  <2>1. ("TIE" \in v) \in BOOLEAN
    OBVIOUS
  <2> QED BY <1>1, <2>1, Zenon DEF C!sccr2_putb
<1>3. C!SciOK(C!scdr_putb(s))
  <2>1. (s.sci_tx_ints \/ "TIE" \in s.enabled) = s.sci_tx_ints
    BY <1>1
  <2>2. C!scdr_putb(s) = [s EXCEPT !.sci_tx_ints = s.sci_tx_ints]
    BY <2>1, Zenon DEF C!scdr_putb
  <2> QED BY <2>2
<1>4. C!SciOK(C!scdr_getb(s))
  BY ChipAssumption DEF C!scdr_getb
<1>5. C!SciOK(C!sci_in(s))
  BY ChipAssumption DEF C!sci_in
<1> QED BY <1>2, <1>3, <1>4, <1>5

\* Nothing is enabled and nothing received.
LEMMA SciStarts == C!SciOK(C!SciReset)
BY ChipAssumption DEF C!SciOK, C!SciReset, C!SciRecord

-----------------------------------------------------------------------------
(* The SPI.                                                                *)

\* The status counts as read only if it was read since the last transfer.
SpiInv(s) == P!SpiOK(s) /\ (s.spsr_is_read => s.seen)

LEMMA SpiStarts == SpiInv(P!SpiReset)
<1>1. <<>> \in Seq(SpiByte) /\ Len(<<>>) = 0
  OBVIOUS
<1> QED BY <1>1, ChipAssumption DEF SpiInv, P!SpiOK, P!SpiReset, P!Spi, P!spi_nbytes

\* With the queue of bytes as it is, only the flags matter.
LEMMA SpiFlags ==
  ASSUME NEW s, SpiInv(s), NEW t \in P!Spi, t.waiting = s.waiting, t.taken = s.taken,
         t.spsr_is_read => t.seen
  PROVE  SpiInv(t)
BY DEF SpiInv, P!SpiOK, P!spi_nbytes

\* Every function but the end of a transfer: what it makes of the SPI, and what withdraws a
\* request.
LEMMA SpiKeeps ==
  ASSUME NEW s, SpiInv(s)
  PROVE  /\ SpiInv(P!spsr_getb(s)) /\ P!SpiAcknowledged(s, P!spsr_getb(s))
         /\ SpiInv(P!acknowledged(s)) /\ P!SpiAcknowledged(s, P!acknowledged(s))
         /\ \A spie \in BOOLEAN :
              SpiInv(P!write_spcr(s, spie)) /\ P!SpiAcknowledged(s, P!write_spcr(s, spie))
<1> USE DEF P!SpiAcknowledged
<1>1. /\ s \in P!Spi /\ s.spif \in BOOLEAN /\ s.spsr_is_read \in BOOLEAN /\ s.seen \in BOOLEAN
      /\ s.spsr_is_read => s.seen
  BY DEF SpiInv, P!SpiOK, P!Spi
<1>2. SpiInv(P!spsr_getb(s)) /\ P!SpiAcknowledged(s, P!spsr_getb(s))
  <2> DEFINE t == P!spsr_getb(s)
  <2>1. t \in P!Spi
    BY <1>1, ZenonT(60) DEF P!Spi, P!spsr_getb
  <2>2. t.seen = TRUE /\ t.waiting = s.waiting /\ t.taken = s.taken
    BY <1>1, ZenonT(60) DEF P!Spi, P!spsr_getb
  <2> HIDE DEF t
  <2>3. SpiInv(t)
    BY <1>1, <2>1, <2>2, SpiFlags
  <2> QED BY <2>2, <2>3 DEF t
<1>3. SpiInv(P!acknowledged(s)) /\ P!SpiAcknowledged(s, P!acknowledged(s))
  <2>1. CASE ~s.spsr_is_read
    BY <2>1 DEF P!acknowledged
  <2>2. CASE s.spsr_is_read
    <3> DEFINE t == [s EXCEPT !.spif = FALSE, !.spi_interrupt = FALSE]
    <3>1. P!acknowledged(s) = t
      BY <2>2 DEF P!acknowledged
    <3>2. t \in P!Spi
      BY <1>1, ZenonT(60) DEF P!Spi
    <3>3. t.seen = s.seen /\ t.waiting = s.waiting /\ t.taken = s.taken
      BY <1>1 DEF P!Spi
    <3> HIDE DEF t
    <3>4. SpiInv(t)
      BY <1>1, <2>2, <3>2, <3>3, SpiFlags
    <3> QED BY <1>1, <2>2, <3>1, <3>4
  <2> QED BY <2>1, <2>2
<1>4. ASSUME NEW spie \in BOOLEAN
      PROVE  SpiInv(P!write_spcr(s, spie)) /\ P!SpiAcknowledged(s, P!write_spcr(s, spie))
  <2> DEFINE t == P!write_spcr(s, spie)
  <2>1. t \in P!Spi
    BY <1>1, ZenonT(60) DEF P!Spi, P!write_spcr
  <2>2. /\ t.spsr_is_read = s.spsr_is_read /\ t.spif = s.spif /\ t.seen = s.seen
        /\ t.spi_interrupt = s.spi_interrupt /\ t.waiting = s.waiting /\ t.taken = s.taken
    BY <1>1 DEF P!Spi, P!write_spcr
  <2> HIDE DEF t
  <2>3. SpiInv(t)
    BY <1>1, <2>1, <2>2, SpiFlags
  <2> QED BY <2>2, <2>3 DEF t
<1> QED BY <1>2, <1>3, <1>4

\* A write of SPSR sets or clears SPIF and leaves the rest, the request among it.
LEMMA SpsrPutKeeps ==
  ASSUME NEW s, SpiInv(s), NEW spif \in BOOLEAN
  PROVE  /\ SpiInv(P!write_spsr(s, spif)) /\ P!SpiAcknowledged(s, P!write_spsr(s, spif))
         /\ P!write_spsr(s, spif).seen = s.seen
         /\ P!write_spsr(s, spif).spi_interrupt = s.spi_interrupt
         /\ \A spie \in BOOLEAN : P!SpiAcknowledged(s, P!write_spsr(P!write_spcr(s, spie), spif))
<1> DEFINE t == P!write_spsr(s, spif)
<1>1. s \in P!Spi /\ (s.spsr_is_read => s.seen)
  BY DEF SpiInv, P!SpiOK
<1>2. t \in P!Spi
  BY <1>1, ZenonT(60) DEF P!Spi, P!write_spsr
<1>3. /\ t.seen = s.seen /\ t.spsr_is_read = s.spsr_is_read /\ t.spi_interrupt = s.spi_interrupt
      /\ t.waiting = s.waiting /\ t.taken = s.taken /\ t.spie = s.spie /\ t.spif = spif
  BY <1>1 DEF P!Spi, P!write_spsr
<1>4. ~spif => t = [s EXCEPT !.spif = FALSE, !.spie = s.spie]
  BY <1>1 DEF P!Spi, P!write_spsr
<1>5. ASSUME NEW spie \in BOOLEAN
      PROVE  P!SpiAcknowledged(s, P!write_spsr(P!write_spcr(s, spie), spif))
  <2> DEFINE u == P!write_spsr(P!write_spcr(s, spie), spif)
  <2>1. u = [s EXCEPT !.spie = spie, !.spif = spif]
    BY DEF P!write_spsr, P!write_spcr
  <2>2. u.spi_interrupt = s.spi_interrupt /\ u.spie = spie /\ u.spif = spif
    BY <1>1, <2>1 DEF P!Spi
  <2>3. ~spif => u = [s EXCEPT !.spif = FALSE, !.spie = spie]
    BY <1>1, <2>1 DEF P!Spi
  <2> HIDE DEF u
  <2>4. ~u.spif => u = [s EXCEPT !.spif = FALSE, !.spie = u.spie]
    BY <2>2, <2>3
  <2>5. P!SpiAcknowledged(s, u)
    BY <2>2, <2>4 DEF P!SpiAcknowledged
  <2> QED BY <2>5 DEF u
<1> HIDE DEF t
<1>6. SpiInv(t)
  BY <1>1, <1>2, <1>3, SpiFlags
<1>7. ~t.spif => t = [s EXCEPT !.spif = FALSE, !.spie = t.spie]
  BY <1>3, <1>4
<1>8. P!SpiAcknowledged(s, t)
  BY <1>3, <1>7 DEF P!SpiAcknowledged
<1> QED BY <1>3, <1>5, <1>6, <1>8 DEF t

\* The end of a transfer takes the oldest byte, if there is one, and gives the buffer back with
\* the last.
LEMMA TransferKeeps ==
  ASSUME NEW s, SpiInv(s), ~s.spif
  PROVE  LET t == [P!transfer(s) EXCEPT !.spsr_is_read = FALSE]
         IN  SpiInv(t) /\ t.spif /\ (s.spi_interrupt => t.spi_interrupt)
<1> DEFINE left == s.waiting # <<>>
           rest == IF left THEN Tail(s.waiting) ELSE <<>>
           taken == IF rest = <<>> THEN 0 ELSE s.taken + 1
           byte == IF left THEN Head(s.waiting) ELSE "own"
           t == [P!transfer(s) EXCEPT !.spsr_is_read = FALSE]
<1>1. /\ s \in P!Spi /\ s.waiting \in Seq(SpiByte) /\ s.taken \in 0 .. SpiSize
      /\ s.taken + Len(s.waiting) <= SpiSize /\ (s.waiting = <<>> => s.taken = 0)
      /\ s.spie \in BOOLEAN /\ s.spi_interrupt \in BOOLEAN /\ SpiSize \in Nat
      /\ s.seen \in BOOLEAN
  BY ChipAssumption DEF SpiInv, P!SpiOK, P!Spi, P!spi_nbytes
<1>2. /\ rest \in Seq(SpiByte) /\ byte \in SpiByte \cup {"own"}
      /\ left => Len(rest) = Len(s.waiting) - 1
      /\ rest = <<>> <=> Len(rest) = 0
  <2>1. CASE left
    <3>1. Tail(s.waiting) \in Seq(SpiByte) /\ Head(s.waiting) \in SpiByte
      BY <1>1, <2>1, HeadTailProperties
    <3>2. Len(Tail(s.waiting)) = Len(s.waiting) - 1
      BY <1>1, <2>1, HeadTailProperties
    <3>3. Tail(s.waiting) = <<>> <=> Len(Tail(s.waiting)) = 0
      BY <3>1, EmptySeq
    <3> QED BY <2>1, <3>1, <3>2, <3>3
  <2>2. CASE ~left
    <3>1. rest = <<>> /\ byte = "own"
      BY <2>2
    <3>2. <<>> \in Seq(SpiByte) /\ Len(<<>>) = 0
      BY EmptySeq
    <3> HIDE DEF rest, byte
    <3> QED BY <2>2, <3>1, <3>2
  <2> QED BY <2>1, <2>2
<1>3. taken \in 0 .. SpiSize /\ taken + Len(rest) <= SpiSize /\ (rest = <<>> => taken = 0)
  <2>1. Len(s.waiting) \in Nat /\ Len(rest) \in Nat
    BY <1>1, <1>2
  <2>2. CASE rest = <<>>
    <3>1. taken = 0 /\ Len(rest) = 0
      BY <1>2, <2>2
    <3> HIDE DEF taken, rest
    <3> QED BY <1>1, <3>1
  <2>3. CASE rest # <<>>
    <3>1. taken = s.taken + 1 /\ left
      BY <2>3
    <3>2. Len(rest) = Len(s.waiting) - 1 /\ Len(rest) # 0
      BY <1>2, <2>3, <3>1
    <3>3. /\ s.taken \in Nat /\ SpiSize \in Nat
          /\ s.taken + Len(s.waiting) <= SpiSize
      BY <1>1
    <3> HIDE DEF taken, rest, left
    <3>4. taken \in 0 .. SpiSize /\ taken + Len(rest) <= SpiSize
      BY <2>1, <3>1, <3>2, <3>3
    <3> QED BY <2>3, <3>4
  <2> QED BY <2>2, <2>3
<1>4. t = [s EXCEPT !.spif = TRUE, !.spi_interrupt = @ \/ s.spie, !.spdr = byte,
                    !.waiting = rest, !.taken = taken, !.seen = FALSE,
                    !.spsr_is_read = FALSE]
  BY <1>1, Zenon DEF P!transfer
<1> HIDE DEF rest, taken, byte
<1>5. t \in P!Spi
  <2>1. (s.spi_interrupt \/ s.spie) \in BOOLEAN
    OBVIOUS
  <2> HIDE DEF t
  <2> QED BY <1>1, <1>2, <1>3, <1>4, <2>1, ZenonT(60) DEF P!Spi
<1>6. /\ t.spif = TRUE /\ t.spsr_is_read = FALSE /\ (s.spi_interrupt => t.spi_interrupt)
      /\ t.waiting = rest /\ t.taken = taken
  <2> HIDE DEF t
  <2> QED BY <1>1, <1>4 DEF P!Spi
<1> HIDE DEF t
<1>7. SpiInv(t)
  BY <1>1, <1>3, <1>5, <1>6 DEF SpiInv, P!SpiOK, P!spi_nbytes
<1> QED BY <1>6, <1>7 DEF t

\* A write of SPDR: a transfer, if the last one has been acknowledged.  SPIF is up in any case.
LEMMA SpdrPutKeeps ==
  ASSUME NEW s, SpiInv(s)
  PROVE  /\ SpiInv(P!spdr_putb(s)) /\ P!SpiAcknowledged(s, P!spdr_putb(s))
         /\ P!spdr_putb(s).spif = TRUE
<1> DEFINE a == P!acknowledged(s)
<1>1. SpiInv(a)
  BY SpiKeeps
<1>2. P!spdr_putb(s) = IF a.spif THEN [a EXCEPT !.spsr_is_read = FALSE]
                       ELSE [P!transfer(a) EXCEPT !.spsr_is_read = FALSE]
  BY DEF P!spdr_putb
<1>3. ~s.seen => a = s
  BY DEF P!acknowledged, SpiInv
<1> HIDE DEF a
<1>4. CASE a.spif
  <2> DEFINE t == [a EXCEPT !.spsr_is_read = FALSE]
  <2>1. a \in P!Spi /\ (a.spsr_is_read => a.seen)
    BY <1>1 DEF SpiInv, P!SpiOK
  <2>2. t \in P!Spi
    BY <2>1, ZenonT(60) DEF P!Spi
  <2>3. /\ t.spsr_is_read = FALSE /\ t.spif = TRUE /\ t.spi_interrupt = a.spi_interrupt
        /\ t.waiting = a.waiting /\ t.taken = a.taken
    BY <1>4, <2>1 DEF P!Spi
  <2> HIDE DEF t
  <2>4. SpiInv(t)
    BY <1>1, <2>2, <2>3, SpiFlags
  <2> QED BY <1>2, <1>3, <1>4, <2>3, <2>4 DEF t, P!SpiAcknowledged
<1>5. CASE ~a.spif
  <2> DEFINE t == [P!transfer(a) EXCEPT !.spsr_is_read = FALSE]
  <2>1. SpiInv(t) /\ t.spif = TRUE /\ (a.spi_interrupt => t.spi_interrupt)
    <3>1. SpiInv(t) /\ t.spif /\ (a.spi_interrupt => t.spi_interrupt)
      BY <1>1, <1>5, TransferKeeps
    <3> HIDE DEF t
    <3> QED BY <3>1 DEF SpiInv, P!SpiOK, P!Spi
  <2>2. P!spdr_putb(s) = t
    BY <1>2, <1>5
  <2> HIDE DEF t
  <2> QED BY <1>3, <2>1, <2>2 DEF P!SpiAcknowledged
<1> QED BY <1>4, <1>5

\* What one instruction does to the SPI, whichever of its registers it accesses and how.
LEMMA SpiAccessKeeps ==
  ASSUME NEW s, SpiInv(s),
         NEW t \in P!accesses(s) \cup P!modifies(s) \cup P!accesses_words(s)
  PROVE  SpiInv(t) /\ P!SpiAcknowledged(s, t)
<1>1. CASE t \in P!accesses(s)
  BY <1>1, SpiKeeps, SpsrPutKeeps, SpdrPutKeeps DEF P!accesses, P!spdr_getb
<1>2. CASE t \in {P!write_spsr(P!spsr_getb(s), b) : b \in BOOLEAN}
  <2>1. PICK b \in BOOLEAN : t = P!write_spsr(P!spsr_getb(s), b)
    BY <1>2
  <2>2. SpiInv(P!spsr_getb(s)) /\ P!spsr_getb(s).seen = TRUE
    BY SpiKeeps DEF SpiInv, P!SpiOK, P!Spi, P!spsr_getb
  <2>3. SpiInv(t) /\ t.seen = TRUE
    BY <2>1, <2>2, SpsrPutKeeps
  <2> QED BY <2>3 DEF P!SpiAcknowledged
<1>3. CASE t = P!spdr_putb(P!spdr_getb(s))
  <2> DEFINE a == P!acknowledged(s)
  <2>1. SpiInv(a) /\ (~s.seen => a = s) /\ t = P!spdr_putb(a)
    BY <1>3, SpiKeeps DEF P!acknowledged, SpiInv, P!spdr_getb
  <2> HIDE DEF a
  <2>2. SpiInv(t) /\ P!SpiAcknowledged(a, t)
    BY <2>1, SpdrPutKeeps
  <2> QED BY <2>1, <2>2 DEF P!SpiAcknowledged
<1>4. CASE t = P!spdr_getb(P!spsr_getb(s))
  <2> DEFINE r == P!spsr_getb(s)
  <2>1. SpiInv(r) /\ r.seen = TRUE /\ r \in P!Spi
    BY SpiKeeps DEF SpiInv, P!SpiOK, P!Spi, P!spsr_getb
  <2>2. t = P!acknowledged(r)
    BY <1>4 DEF P!spdr_getb
  <2> HIDE DEF r
  <2>3. SpiInv(t) /\ t.seen = TRUE
    BY <2>1, <2>2, SpiKeeps DEF P!acknowledged, P!Spi
  <2> QED BY <2>3 DEF P!SpiAcknowledged
<1>5. CASE t \in {P!write_spsr(P!write_spcr(s, c), b) : c, b \in BOOLEAN}
  <2>1. PICK c \in BOOLEAN, b \in BOOLEAN : t = P!write_spsr(P!write_spcr(s, c), b)
    BY <1>5
  <2>2. SpiInv(P!write_spcr(s, c))
    BY SpiKeeps
  <2>3. SpiInv(t)
    BY <2>1, <2>2, SpsrPutKeeps
  <2>4. P!SpiAcknowledged(s, t)
    BY <2>1, SpsrPutKeeps
  <2> QED BY <2>3, <2>4
<1>6. CASE t \in {P!spdr_putb(P!write_spsr(s, b)) : b \in BOOLEAN}
  <2>1. PICK b \in BOOLEAN : t = P!spdr_putb(P!write_spsr(s, b))
    BY <1>6
  <2> DEFINE w == P!write_spsr(s, b)
  <2>2. SpiInv(w) /\ w.seen = s.seen /\ w.spi_interrupt = s.spi_interrupt
    BY SpsrPutKeeps
  <2> HIDE DEF w
  <2>3. SpiInv(t) /\ P!SpiAcknowledged(w, t) /\ t.spif = TRUE
    BY <2>1, <2>2, SpdrPutKeeps DEF w
  <2> QED BY <2>2, <2>3 DEF P!SpiAcknowledged
<1> QED BY <1>1, <1>2, <1>3, <1>4, <1>5, <1>6 DEF P!modifies, P!accesses_words

\* A byte comes in, if there is room.
LEMMA SpiInKeeps ==
  ASSUME NEW s, SpiInv(s), NEW byte \in SpiByte
  PROVE  SpiInv(P!spi_in(s, byte)) /\ P!SpiAcknowledged(s, P!spi_in(s, byte))
<1>1. CASE ~(P!spi_nbytes(s) < SpiSize)
  BY <1>1 DEF P!spi_in, P!SpiAcknowledged
<1>2. CASE P!spi_nbytes(s) < SpiSize
  <2> DEFINE w == Append(s.waiting, byte)
             t == [s EXCEPT !.waiting = w]
  <2>1. /\ s \in P!Spi /\ s.waiting \in Seq(SpiByte) /\ s.taken \in 0 .. SpiSize /\ SpiSize \in Nat
        /\ s.taken + Len(s.waiting) < SpiSize
        /\ (s.spsr_is_read => s.seen)
    BY <1>2, ChipAssumption DEF SpiInv, P!SpiOK, P!Spi, P!spi_nbytes
  <2>2. w \in Seq(SpiByte) /\ Len(w) = Len(s.waiting) + 1 /\ w # <<>> /\ Len(s.waiting) \in Nat
    BY <2>1, EmptySeq
  <2> HIDE DEF w
  <2>3. t \in P!Spi
    BY <2>1, <2>2, ZenonT(60) DEF P!Spi
  <2>4. /\ t.waiting = w /\ t.taken = s.taken /\ t.spif = s.spif /\ t.seen = s.seen
        /\ t.spi_interrupt = s.spi_interrupt /\ t.spsr_is_read = s.spsr_is_read
    BY <2>1 DEF P!Spi
  <2>5. P!spi_in(s, byte) = t
    BY <1>2 DEF P!spi_in, w
  <2> HIDE DEF t
  <2>6. SpiInv(t)
    BY <2>1, <2>2, <2>3, <2>4 DEF SpiInv, P!SpiOK, P!spi_nbytes
  <2> QED BY <2>4, <2>5, <2>6 DEF P!SpiAcknowledged
<1> QED BY <1>1, <1>2

-----------------------------------------------------------------------------
(* The timer of the 6811.                                                  *)

\* The sizes.
LEMMA Sizes ==
  /\ ByteSize \in Nat /\ ByteSize >= 2 /\ MaxWord \in Nat /\ MaxCycles \in 1 .. MaxWord
  /\ MaxWord >= 3 /\ T!MaxWord = MaxWord /\ T!Byte = Byte
  /\ \A w : T!Word(w) = Word(w)
  /\ \A w \in [hi : Byte, lo : Byte] : Word(w) \in 0 .. MaxWord
<1>1. ByteSize \in Nat /\ ByteSize >= 2 /\ ByteSize * ByteSize \in Nat /\ ByteSize * ByteSize >= 4
  BY ByteAssumption, SMT
<1>2. ASSUME NEW w \in [hi : Byte, lo : Byte] PROVE Word(w) \in 0 .. MaxWord
  <2>1. /\ w.hi \in Nat /\ w.lo \in Nat /\ w.hi <= ByteSize - 1 /\ w.lo <= ByteSize - 1
    BY <1>1 DEF Byte
  <2>2. w.hi * ByteSize \in Nat /\ w.hi * ByteSize <= (ByteSize - 1) * ByteSize
    BY <1>1, <2>1, SMT
  <2>3. (ByteSize - 1) * ByteSize = ByteSize * ByteSize - ByteSize
    BY <1>1, SMT
  <2> QED BY <1>1, <2>1, <2>2, <2>3 DEF Word, MaxWord
<1> QED BY <1>1, <1>2, CyclesAssumption DEF MaxWord, T!MaxWord, T!Byte, Byte, T!Word, Word

\* Round the wrap there is one subtraction or addition to make.
LEMMA Wraps ==
  ASSUME NEW m \in Nat, NEW x \in Int, -m <= x, x <= 2 * m
  PROVE  x % (m + 1) = IF x < 0 THEN x + m + 1 ELSE IF x <= m THEN x ELSE x - (m + 1)
<1>1. CASE x < 0
  <2>1. x = -1 * (m + 1) + (x + m + 1) /\ x + m + 1 \in 0 .. m
    BY <1>1
  <2> QED BY <1>1, <2>1
<1>2. CASE x >= 0 /\ x <= m
  BY <1>2
<1>3. CASE x > m
  BY <1>3
<1> QED BY <1>1, <1>2, <1>3

\* From the counter at c to the value w.
Distance(w, c) == IF w >= c THEN w - c ELSE w - c + MaxWord + 1

\* The ticks to the match of TOC1 are its distance from the counter, or a round if it was met.
TicksOf1(t) ==
  LET away == Distance(Word(t.toc[1]), t.tcnt)
  IN  t.settled => t.ticks[1] = away \/ (t.ticks[1] = MaxWord + 1 /\ away = 0)

Together(t) == \A i, j \in Compare \ {1} : t.ticks[i] = t.ticks[j]

Good11(t) ==
  /\ t \in T!Timer /\ IC \notin t.tflg1
  /\ TicksOf1(t) /\ Together(t)

\* What no register access changes: the counter; and none sets a flag.
Keeps11(t, u) == u.tcnt = t.tcnt /\ u.tflg1 \subseteq t.tflg1

\* A good timer's registers.
LEMMA Fields11 ==
  ASSUME NEW t \in T!Timer
  PROVE  /\ t.tcnt \in 0 .. MaxWord /\ t.toc \in [Compare -> [hi : Byte, lo : Byte]]
         /\ t.ticks \in [Compare -> 0 .. IntSize + MaxWord + 1]
         /\ t.tflg1 \in SUBSET Flag /\ t.tmsk1 \in SUBSET Flag /\ t.settled \in BOOLEAN
BY Sizes DEF T!Timer, T!MaxTicks, T!Flag, Flag, T!IC, IC

\* TFLG1 and TMSK1.
LEMMA FlagsKeep ==
  ASSUME NEW t, Good11(t), NEW v \in SUBSET Flag
  PROVE  /\ Good11(T!tflg_putb(t, v)) /\ Keeps11(t, T!tflg_putb(t, v))
         /\ Good11([t EXCEPT !.tmsk1 = v]) /\ Keeps11(t, [t EXCEPT !.tmsk1 = v])
<1>1. t \in T!Timer /\ T!Flag = Flag
  BY DEF Good11, T!Flag, Flag, T!IC, IC
<1>2. T!tflg_putb(t, v) \in T!Timer /\ [t EXCEPT !.tmsk1 = v] \in T!Timer
  BY <1>1 DEF T!tflg_putb, T!Timer
<1>3. \A u : /\ u = T!tflg_putb(t, v) => u.tflg1 = t.tflg1 \ v /\ u.tcnt = t.tcnt
             /\ u = [t EXCEPT !.tmsk1 = v] => u.tflg1 = t.tflg1 /\ u.tcnt = t.tcnt
             /\ u = T!tflg_putb(t, v) \/ u = [t EXCEPT !.tmsk1 = v] =>
                  u.toc = t.toc /\ u.ticks = t.ticks /\ u.settled = t.settled
  BY <1>1 DEF T!tflg_putb, T!Timer
<1> QED BY <1>2, <1>3 DEF Good11, Keeps11, TicksOf1, Together

\* The ticks counted when the low byte of TOC1 is written are no more than the counters hold, and
\* the distance, if long holds no more than u_int or the register is ahead.
LEMMA LatchedIsDistance ==
  ASSUME NEW w \in 0 .. MaxWord, NEW c \in 0 .. MaxWord
  PROVE  /\ T!latched(w, c) \in 0 .. IntSize + MaxWord + 1
         /\ ~(LongExceedsInt /\ w < c) => T!latched(w, c) = Distance(w, c)
<1>1. IntSize \in Nat /\ IntSize >= MaxWord + 1
  <2>1. \A a, m \in Nat : a # 0 /\ a <= m => a % (m + 1) = a
    OBVIOUS
  <2> QED BY <2>1, Sizes, IntAssumption
<1>2. (w - c) % (MaxWord + 1) = Distance(w, c)
  <2> DEFINE x == w - c
  <2>1. x \in Int /\ -MaxWord <= x /\ x <= MaxWord /\ MaxWord \in Nat
    BY Sizes
  <2>2. Distance(w, c) = IF x < 0 THEN x + MaxWord + 1 ELSE x
    BY Sizes DEF Distance
  <2> HIDE DEF x
  <2>3. x % (MaxWord + 1) = IF x < 0 THEN x + MaxWord + 1 ELSE x
    BY <2>1, Wraps
  <2> QED BY <2>2, <2>3 DEF x
<1>3. CASE ~LongExceedsInt
  BY <1>1, <1>2, <1>3, Sizes DEF T!latched, Distance
<1>4. CASE LongExceedsInt
  <2>1. T!latched(w, c) = (w - c) % IntSize
    BY <1>4 DEF T!latched
  <2>2. \A x \in Int, m \in Nat \ {0} : x % m \in 0 .. m - 1
    OBVIOUS
  <2>3. w - c \in Int
    BY Sizes
  <2>4. (w - c) % IntSize \in 0 .. IntSize - 1
    BY <1>1, <2>2, <2>3, Sizes
  <2>5. w >= c => (w - c) % IntSize = w - c
    <3>1. \A x, m \in Nat : x < m => x % m = x
      OBVIOUS
    <3>2. w >= c => w - c \in Nat /\ w - c < IntSize
      BY <1>1, Sizes
    <3> QED BY <1>1, <3>1, <3>2
  <2> QED BY <1>1, <1>4, <2>1, <2>4, <2>5, Sizes DEF Distance
<1> QED BY <1>3, <1>4
\* A byte of a compare register is stored, and the low byte of TOC1 latches the ticks.
LEMMA TocKeeps ==
  ASSUME NEW t, Good11(t), NEW i \in Compare, NEW half \in {"hi", "lo"}, NEW b \in Byte
  PROVE  Good11(T!toc_putb(t, i, half, b)) /\ Keeps11(t, T!toc_putb(t, i, half, b))
<1> DEFINE u == T!toc_putb(t, i, half, b)
           latch == half = "lo" /\ i = 1
           ticks == T!latched(T!Word(t.toc[i]), t.tcnt)
           settled == IF i # 1 THEN t.settled
                      ELSE IF latch THEN
                        b = t.toc[1].lo /\ ~(LongExceedsInt /\ T!Word(t.toc[1]) < t.tcnt)
                      ELSE t.settled /\ b = t.toc[1][half]
<1>1. t \in T!Timer
  BY DEF Good11
<1>2. /\ t.tcnt \in 0 .. MaxWord /\ t.toc \in [Compare -> [hi : Byte, lo : Byte]]
      /\ t.ticks \in [Compare -> 0 .. IntSize + MaxWord + 1] /\ t.settled \in BOOLEAN
  BY <1>1, Fields11
<1>3. 1 \in Compare /\ T!Latching = {1}
  BY CompareAssumption DEF T!Latching
<1>4. ticks \in 0 .. IntSize + MaxWord + 1
  BY <1>2, Sizes, LatchedIsDistance
<1>5. settled \in BOOLEAN
  BY <1>2, Zenon
<1>6. u = [t EXCEPT !.toc[i][half] = b,
                    !.ticks[i] = IF latch THEN ticks ELSE @,
                    !.settled = settled]
  BY <1>3, Zenon DEF T!toc_putb
<1> HIDE DEF u, ticks, settled, latch
<1>7. u \in T!Timer
  <2>1. [t.toc EXCEPT ![i][half] = b] \in [Compare -> [hi : Byte, lo : Byte]]
    BY <1>2
  <2>2. [t.ticks EXCEPT ![i] = IF latch THEN ticks ELSE @]
          \in [Compare -> 0 .. IntSize + MaxWord + 1]
    BY <1>2, <1>4
  <2>3. u = [t EXCEPT !.toc = [t.toc EXCEPT ![i][half] = b],
                      !.ticks = [t.ticks EXCEPT ![i] = IF latch THEN ticks ELSE @],
                      !.settled = settled]
    BY <1>6, Zenon
  <2> DEFINE toc2 == [t.toc EXCEPT ![i][half] = b]
             ticks2 == [t.ticks EXCEPT ![i] = IF latch THEN ticks ELSE @]
  <2> HIDE DEF toc2, ticks2
  <2>4. /\ toc2 \in [Compare -> [hi : T!Byte, lo : T!Byte]]
        /\ ticks2 \in [Compare -> 0 .. T!MaxTicks]
    BY <2>1, <2>2, Sizes DEF toc2, ticks2, T!MaxTicks
  <2>5. u = [t EXCEPT !.toc = toc2, !.ticks = ticks2, !.settled = settled]
    BY <2>3 DEF toc2, ticks2
  <2> QED BY <1>1, <1>5, <2>4, <2>5, ZenonT(60) DEF T!Timer
<1>8. /\ u.tcnt = t.tcnt /\ u.tflg1 = t.tflg1 /\ (u.settled <=> settled)
      /\ u.toc = [t.toc EXCEPT ![i][half] = b]
      /\ u.ticks = [t.ticks EXCEPT ![i] = IF latch THEN ticks ELSE @]
  BY <1>1, <1>6 DEF T!Timer
<1>9. Together(u)
  BY <1>2, <1>8 DEF Good11, Together, latch
<1>10. TicksOf1(u)
  <2> SUFFICES ASSUME settled
               PROVE  LET away == Distance(Word(u.toc[1]), u.tcnt)
                      IN  u.ticks[1] = away \/ (u.ticks[1] = MaxWord + 1 /\ away = 0)
    BY <1>8 DEF TicksOf1
  <2>1. u.toc[1] = t.toc[1]
    <3>1. CASE i # 1
      BY <1>2, <1>3, <1>8, <3>1
    <3>2. CASE i = 1
      <4>1. b = t.toc[1][half]
        BY <3>2 DEF settled, latch
      <4>2. [t.toc[1] EXCEPT ![half] = b] = t.toc[1]
        BY <1>2, <1>3, <4>1
      <4> QED BY <1>2, <1>3, <1>8, <3>2, <4>2
    <3> QED BY <3>1, <3>2
  <2>2. CASE latch
    <3>1. u.ticks[1] = T!latched(Word(t.toc[1]), t.tcnt)
      BY <1>2, <1>3, <1>8, <2>2, Sizes DEF latch, ticks
    <3>2. ~(LongExceedsInt /\ Word(t.toc[1]) < t.tcnt) /\ Word(t.toc[1]) \in 0 .. MaxWord
      BY <1>2, <1>3, <2>2, Sizes DEF settled, latch
    <3> QED BY <1>2, <1>8, <2>1, <3>1, <3>2, LatchedIsDistance
  <2>3. CASE ~latch
    <3>1. u.ticks[1] = t.ticks[1]
      BY <1>2, <1>3, <1>8, <2>3
    <3>2. t.settled
      BY <2>3 DEF settled, latch
    <3> QED BY <1>8, <2>1, <3>1, <3>2 DEF Good11, TicksOf1
  <2> QED BY <2>2, <2>3
<1> QED BY <1>7, <1>8, <1>9, <1>10 DEF Good11, Keeps11, u

\* A reset leaves the ticks, and TOC1 is not settled before it is written again.
LEMMA ResetKeeps ==
  ASSUME NEW t \in T!Timer, Together(t)
  PROVE  Good11(T!timer_reset(t))
<1> DEFINE u == T!timer_reset(t)
           toc == [i \in Compare |-> [hi |-> ByteSize - 1, lo |-> ByteSize - 1]]
<1>1. toc \in [Compare -> [hi : T!Byte, lo : T!Byte]] /\ 0 \in 0 .. T!MaxWord
  BY Sizes DEF Byte
<1>2. u = [t EXCEPT !.tcnt = 0, !.tmsk1 = {}, !.tflg1 = {}, !.settled = FALSE, !.toc = toc]
  BY DEF T!timer_reset
<1> HIDE DEF u, toc
<1>3. u \in T!Timer
  BY <1>1, <1>2, ZenonT(60) DEF T!Timer
<1>4. u.ticks = t.ticks /\ u.tflg1 = {} /\ ~u.settled
  BY <1>2 DEF T!Timer
<1> QED BY <1>3, <1>4 DEF Good11, TicksOf1, Together, u
\* The two properties, of the registers before and after timer_inc; Moved is n there.
Oc1MatchesIn(t, u, n) ==
  u.settled =>
    LET away == Distance(Word(u.toc[1]), t.tcnt)
    IN  /\ away \in 1 .. n => 1 \in u.tflg1
        /\ 1 \in u.tflg1 \ t.tflg1 => away <= n

TogetherIn(t, u) == \A i, j \in Compare \ {1} : i \in u.tflg1 \ t.tflg1 => j \in u.tflg1

\* What timer_inc does: the counter and the ticks go the same way.
LEMMA IncKeeps ==
  ASSUME NEW t, Good11(t), NEW n \in 1 .. MaxCycles
  PROVE  LET u == T!timer_inc(t, n)
         IN  /\ Good11(u) /\ (u.tcnt - t.tcnt) % (MaxWord + 1) = n
             /\ Oc1MatchesIn(t, u, n) /\ TogetherIn(t, u)
<1> DEFINE u == T!timer_inc(t, n)
           left == [i \in Compare |-> t.ticks[i] - n]
           matching == {i \in Compare : left[i] <= 0}
           ticks == [i \in Compare |-> left[i] + IF i \in matching THEN MaxWord + 1 ELSE 0]
           tcnt == (t.tcnt + n) % (MaxWord + 1)
<1>1. t \in T!Timer /\ n \in 1 .. MaxWord /\ MaxWord \in Nat
  BY Sizes DEF Good11
<1>2. /\ t.tcnt \in 0 .. MaxWord /\ t.toc \in [Compare -> [hi : Byte, lo : Byte]]
      /\ t.ticks \in [Compare -> 0 .. IntSize + MaxWord + 1] /\ IntSize \in Nat
  BY <1>1, Fields11, IntAssumption
<1>3. 1 \in Compare /\ IC \notin Compare
  BY CompareAssumption DEF IC
<1>4. u = [t EXCEPT !.tcnt = tcnt, !.ticks = ticks, !.tflg1 = @ \cup matching]
  BY Sizes, Zenon DEF T!timer_inc
<1>5. tcnt = IF t.tcnt + n <= MaxWord THEN t.tcnt + n ELSE t.tcnt + n - (MaxWord + 1)
  <2> DEFINE x == t.tcnt + n
  <2>1. x \in Int /\ -MaxWord <= x /\ 0 <= x /\ x <= 2 * MaxWord /\ MaxWord \in Nat
    BY <1>1, <1>2
  <2> HIDE DEF x
  <2>2. x % (MaxWord + 1) = IF x < 0 THEN x + MaxWord + 1
                           ELSE IF x <= MaxWord THEN x ELSE x - (MaxWord + 1)
    BY <2>1, Wraps
  <2>3. tcnt = x % (MaxWord + 1)
    BY DEF x
  <2>4. tcnt = IF x <= MaxWord THEN x ELSE x - (MaxWord + 1)
    <3> HIDE DEF tcnt
    <3> QED BY <2>1, <2>2, <2>3
  <2> HIDE DEF tcnt
  <2> QED BY <1>1, <1>2, <2>1, <2>4 DEF x
<1> HIDE DEF tcnt
<1>6. tcnt \in 0 .. MaxWord /\ (tcnt - t.tcnt) % (MaxWord + 1) = n
  <2> DEFINE x == tcnt - t.tcnt
  <2>1. x = IF t.tcnt + n <= MaxWord THEN n ELSE n - (MaxWord + 1)
    BY <1>1, <1>2, <1>5
  <2>2. /\ x \in Int /\ -MaxWord <= x /\ x <= MaxWord /\ x <= 2 * MaxWord /\ MaxWord \in Nat
        /\ x < 0 <=> t.tcnt + n > MaxWord
    BY <1>1, <1>2, <2>1
  <2>3. tcnt \in 0 .. MaxWord
    BY <1>1, <1>2, <1>5
  <2> HIDE DEF x
  <2>4. x % (MaxWord + 1) = IF x < 0 THEN x + MaxWord + 1 ELSE x
    BY <2>2, Wraps
  <2>5. x % (MaxWord + 1) = n
    BY <1>1, <1>2, <2>1, <2>2, <2>4
  <2> QED BY <2>3, <2>5 DEF x
<1>7. ASSUME NEW i \in Compare
      PROVE  /\ i \in matching <=> t.ticks[i] <= n
             /\ ticks[i] = IF t.ticks[i] <= n THEN t.ticks[i] - n + MaxWord + 1
                           ELSE t.ticks[i] - n
             /\ t.ticks[i] \in 0 .. IntSize + MaxWord + 1
  BY <1>1, <1>2
<1>8. ticks \in [Compare -> 0 .. IntSize + MaxWord + 1] /\ matching \subseteq Compare
  <2>1. ASSUME NEW i \in Compare PROVE ticks[i] \in 0 .. IntSize + MaxWord + 1
    <3> HIDE DEF ticks, matching
    <3> QED BY <1>1, <1>2, <1>7
  <2> QED BY <2>1
<1> HIDE DEF tcnt, ticks, left, matching, u
<1>9. u \in T!Timer
  <2>1. tcnt \in 0 .. T!MaxWord /\ ticks \in [Compare -> 0 .. T!MaxTicks]
    BY <1>6, <1>8, Sizes DEF T!MaxTicks
  <2>2. t.tflg1 \cup matching \in SUBSET T!Flag
    BY <1>1, <1>8 DEF T!Timer, T!Flag
  <2> QED BY <1>1, <1>4, <2>1, <2>2, ZenonT(60) DEF T!Timer
<1>10. /\ u.tcnt = tcnt /\ u.ticks = ticks /\ u.tflg1 = t.tflg1 \cup matching
       /\ u.toc = t.toc /\ u.settled = t.settled
  BY <1>1, <1>4 DEF T!Timer
<1>11. IC \notin u.tflg1
  BY <1>3, <1>8, <1>10 DEF Good11
<1>12. Together(u)
  BY <1>7, <1>10 DEF Good11, Together
<1>13. TogetherIn(t, u)
  BY <1>7, <1>10 DEF Good11, Together, TogetherIn
<1>14. TicksOf1(u) /\ Oc1MatchesIn(t, u, n)
  <2> DEFINE w == Word(t.toc[1])
             k == t.ticks[1]
  <2>1. w \in 0 .. MaxWord /\ u.toc[1] = t.toc[1]
    BY <1>2, <1>3, <1>10, Sizes
  <2>2. CASE ~t.settled
    BY <1>10, <2>2 DEF TicksOf1, Oc1MatchesIn
  <2>3. CASE t.settled
    <3>1. k = Distance(w, t.tcnt) \/ (k = MaxWord + 1 /\ Distance(w, t.tcnt) = 0)
      BY <2>3 DEF Good11, TicksOf1
    <3>2. /\ 1 \in matching <=> k <= n
          /\ ticks[1] = IF k <= n THEN k - n + MaxWord + 1 ELSE k - n
          /\ k \in Nat
      BY <1>2, <1>3, <1>7
    <3> HIDE DEF w, k
    <3>3. \/ ticks[1] = Distance(w, tcnt)
          \/ ticks[1] = MaxWord + 1 /\ Distance(w, tcnt) = 0
      BY <1>1, <1>2, <1>5, <2>1, <3>1, <3>2 DEF Distance
    <3>4. /\ Distance(w, t.tcnt) \in 1 .. n => k <= n
          /\ k <= n => Distance(w, t.tcnt) <= n
      BY <1>1, <1>2, <2>1, <3>1, <3>2 DEF Distance
    <3>5. TicksOf1(u)
      BY <1>10, <2>1, <3>3 DEF TicksOf1, w
    <3>6. /\ Distance(w, t.tcnt) \in 1 .. n => 1 \in u.tflg1
          /\ 1 \in u.tflg1 \ t.tflg1 => Distance(w, t.tcnt) <= n
      BY <1>10, <3>2, <3>4
    <3>7. Oc1MatchesIn(t, u, n)
      BY <2>1, <3>6 DEF Oc1MatchesIn, w
    <3> QED BY <3>5, <3>7
  <2> QED BY <2>2, <2>3
<1> QED BY <1>6, <1>9, <1>10, <1>11, <1>12, <1>13, <1>14 DEF Good11, u

\* An instruction leaves a good timer to timer_inc, with the counter as it was and no flag set.
LEMMA AccessEnds11 ==
  ASSUME Good11(timer), T!access \/ T!tick
  PROVE  \E t : Good11(t) /\ Keeps11(timer, t) /\ T!ends_with(t)
<1>1. \A v : v \subseteq WrittenFlags => v \in SUBSET Flag
  BY WrittenAssumption
<1>2. CASE T!tick
  BY <1>2 DEF T!tick, Keeps11
<1>3. ASSUME NEW v \in SUBSET WrittenMasks, T!write_tmsk1(v)
      PROVE  \E t : Good11(t) /\ Keeps11(timer, t) /\ T!ends_with(t)
  BY <1>3, WrittenAssumption, FlagsKeep DEF T!write_tmsk1
<1>4. ASSUME NEW v \in SUBSET WrittenFlags,
             T!write_tflg1(v) \/ T!bset_tflg1(v) \/ T!bclr_tflg1(v)
      PROVE  \E t : Good11(t) /\ Keeps11(timer, t) /\ T!ends_with(t)
  <2>1. timer.tflg1 \in SUBSET Flag
    BY Fields11 DEF Good11
  <2>2. v \in SUBSET Flag /\ timer.tflg1 \cup v \in SUBSET Flag /\ timer.tflg1 \ v \in SUBSET Flag
    BY <1>1, <2>1
  <2> QED BY <1>4, <2>2, FlagsKeep DEF T!write_tflg1, T!bset_tflg1, T!bclr_tflg1
<1>5. ASSUME NEW i \in WrittenCompare, NEW half \in {"hi", "lo"}, NEW b \in WrittenBytes,
             T!write_toc(i, half, b)
      PROVE  \E t : Good11(t) /\ Keeps11(timer, t) /\ T!ends_with(t)
  BY <1>5, WrittenAssumption, TocKeeps DEF T!write_toc
<1>6. ASSUME NEW i \in WrittenCompare, NEW hi \in WrittenBytes, NEW lo \in WrittenBytes,
             T!write_toc_word(i, hi, lo)
      PROVE  \E t : Good11(t) /\ Keeps11(timer, t) /\ T!ends_with(t)
  <2> DEFINE h == T!toc_putb(timer, i, "hi", hi)
             t == T!toc_putb(h, i, "lo", lo)
  <2>1. Good11(h) /\ Keeps11(timer, h)
    BY WrittenAssumption, TocKeeps
  <2>2. Good11(t) /\ Keeps11(h, t)
    <3> HIDE DEF h
    <3> QED BY <2>1, WrittenAssumption, TocKeeps
  <2>3. T!ends_with(t)
    BY <1>6 DEF T!write_toc_word
  <2>4. Keeps11(timer, t)
    BY <2>1, <2>2 DEF Keeps11
  <2> QED BY <2>2, <2>3, <2>4
<1> QED BY <1>2, <1>3, <1>4, <1>5, <1>6 DEF T!access

\* An instruction, as the timer sees it.
LEMMA TimerStep11 ==
  ASSUME Good11(timer), T!access \/ T!tick
  PROVE  Good11(timer') /\ T!Oc1MatchesToc1Action /\ T!UnlatchedTogetherAction
<1>0. PICK t : Good11(t) /\ Keeps11(timer, t) /\ T!ends_with(t)
  BY AccessEnds11
<1>1. PICK n \in 1 .. MaxCycles : timer' = T!timer_inc(t, n)
  BY <1>0 DEF T!ends_with
<1>2. /\ Good11(timer') /\ (timer'.tcnt - t.tcnt) % (MaxWord + 1) = n
      /\ Oc1MatchesIn(t, timer', n) /\ TogetherIn(t, timer')
  BY <1>0, <1>1, IncKeeps
<1>3. t.tcnt = timer.tcnt /\ t.tflg1 \subseteq timer.tflg1
  BY <1>0 DEF Keeps11
<1>4. T!UnlatchedTogetherAction
  BY <1>2, <1>3 DEF TogetherIn, T!UnlatchedTogetherAction
<1>5. T!Oc1MatchesToc1Action
  <2> SUFFICES ASSUME timer'.settled
               PROVE  LET ahead == T!Ahead(T!Word(timer'.toc[1]))
                      IN  /\ ahead \in 1 .. T!Moved => 1 \in timer'.tflg1
                          /\ 1 \in timer'.tflg1 \ timer.tflg1 => ahead <= T!Moved
    BY DEF T!Oc1MatchesToc1Action
  <2>1. T!Moved = n
    BY <1>2, <1>3, Sizes DEF T!Moved
  <2>2. T!Ahead(T!Word(timer'.toc[1])) = Distance(Word(timer'.toc[1]), timer.tcnt)
    <3> DEFINE w == Word(timer'.toc[1])
               x == w - timer.tcnt
    <3>1. w \in 0 .. MaxWord
      BY <1>2, Fields11, Sizes, CompareAssumption DEF Good11
    <3>2. timer.tcnt \in 0 .. MaxWord
      BY Fields11 DEF Good11
    <3>3. x \in Int /\ -MaxWord <= x /\ x <= MaxWord /\ MaxWord \in Nat
      <4> HIDE DEF w
      <4> QED BY <3>1, <3>2, Sizes
    <3>4. Distance(w, timer.tcnt) = IF x < 0 THEN x + MaxWord + 1 ELSE x
      <4> HIDE DEF w
      <4> QED BY <3>1, <3>2, Sizes DEF Distance
    <3>5. T!Ahead(T!Word(timer'.toc[1])) = x % (MaxWord + 1)
      BY Sizes DEF T!Ahead
    <3> HIDE DEF x
    <3>6. x % (MaxWord + 1) = IF x < 0 THEN x + MaxWord + 1 ELSE x
      BY <3>3, Wraps
    <3> QED BY <3>4, <3>5, <3>6
  <2> QED BY <1>2, <1>3, <2>1, <2>2 DEF Oc1MatchesIn
<1> QED BY <1>2, <1>4, <1>5

-----------------------------------------------------------------------------
(* The 6811.                                                               *)

IInv11 ==
  /\ Good11(timer) /\ SpiInv(spi) /\ C!SciOK(sci)
  /\ iflag \in BOOLEAN /\ entered \in Vector \cup {"none"}

\* What a step of the chip may not do.
Kept11 == T!Oc1MatchesToc1Action /\ T!UnlatchedTogetherAction /\ P!SpiAcknowledged(spi, spi')

\* An interrupt has a vector: of the compare registers, that of the lowest.
LEMMA VectorTyped == vector \in Vector \cup {"none"}
<1> DEFINE tflags == timer.tflg1 \cap timer.tmsk1
           matched == {i \in Compare : i \in tflags}
           lowest == CHOOSE i \in matched : \A j \in matched : i <= j
<1>1. matched \subseteq 1 .. 5
  BY CompareAssumption
<1>2. \A i \in 1 .. 5 : TOCVECTOR[i] \in Vector
  BY DEF Vector
<1>3. {"SCIVECTOR", "SPIVECTOR"} \subseteq Vector
  BY DEF Vector
<1>4. matched # {} => lowest \in 1 .. 5
  <2> HIDE DEF matched
  <2> SUFFICES ASSUME matched # {} PROVE \E i \in matched : \A j \in matched : i <= j
    BY <1>1
  <2>1. PICK i \in matched : TRUE
    OBVIOUS
  <2>2. i = 1 \/ i = 2 \/ i = 3 \/ i = 4 \/ i = 5
    BY <1>1
  <2>3. 1 \in matched \/ 2 \in matched \/ 3 \in matched \/ 4 \in matched \/ 5 \in matched
    BY <2>2
  <2> QED BY <1>1, <2>3
<1>5. vector = IF tflags # {} THEN (IF matched = {} THEN "none" ELSE TOCVECTOR[lowest])
               ELSE IF sci_int THEN "SCIVECTOR"
               ELSE IF spi_int THEN "SPIVECTOR"
               ELSE "none"
  BY DEF vector
<1> HIDE DEF tflags, matched, lowest
<1> QED BY <1>2, <1>3, <1>4, <1>5

LEMMA Starts11 == T!Init => Good11(timer)
<1> DEFINE t == [tcnt |-> 0, toc |-> [i \in Compare |-> [hi |-> 0, lo |-> 0]],
                 ticks |-> [i \in Compare |-> 0], tflg1 |-> {}, tmsk1 |-> {},
                 settled |-> FALSE]
<1>1. t \in T!Timer
  <2>1. 0 \in T!Byte /\ 0 \in 0 .. T!MaxWord /\ 0 \in 0 .. T!MaxTicks
    BY Sizes, IntAssumption DEF Byte, T!MaxTicks
  <2> QED BY <2>1, ZenonT(60) DEF T!Timer
<1>2. Together(t)
  BY DEF Together
<1> HIDE DEF t
<1> QED BY <1>1, <1>2, ResetKeeps DEF T!Init, t

\* A reset clears the flags, and unsettles TOC1.
LEMMA ResetQuiet ==
  ASSUME Good11(timer), T!reset
  PROVE  Good11(timer') /\ T!Oc1MatchesToc1Action /\ T!UnlatchedTogetherAction
<1>1. timer \in T!Timer
  BY DEF Good11
<1>2. timer'.tflg1 = {} /\ ~timer'.settled
  BY <1>1 DEF T!reset, T!timer_reset, T!Timer
<1>3. Good11(timer')
  BY ResetKeeps DEF T!reset, Good11
<1> QED BY <1>2, <1>3 DEF T!UnlatchedTogetherAction, T!Oc1MatchesToc1Action

\* A step that leaves the timer alone: the counter does not move.
LEMMA TimerStays ==
  ASSUME Good11(timer), timer' = timer
  PROVE  T!Oc1MatchesToc1Action /\ T!UnlatchedTogetherAction
<1>1. timer.tcnt \in 0 .. MaxWord /\ MaxWord \in Nat
  BY Fields11, Sizes DEF Good11
<1>2. T!Moved = 0
  <2>1. (timer.tcnt - timer.tcnt) = 0 /\ 0 % (MaxWord + 1) = 0
    BY <1>1
  <2> QED BY <2>1, Sizes DEF T!Moved
<1>3. \A x : x \notin 1 .. T!Moved
  BY <1>2
<1>4. timer'.tflg1 \ timer.tflg1 = {}
  OBVIOUS
<1> QED BY <1>3, <1>4 DEF T!UnlatchedTogetherAction, T!Oc1MatchesToc1Action

\* What the I bit lets in, what an instruction accesses and what comes from outside, by action.
LEMMA Step11 ==
  ASSUME IInv11, [Next]_vars
  PROVE  IInv11' /\ Kept11
<1> USE DEF IInv11, Kept11
<1>1. ASSUME T!access \/ T!tick
      PROVE  Good11(timer)' /\ T!Oc1MatchesToc1Action /\ T!UnlatchedTogetherAction
  BY <1>1, TimerStep11
<1>2. ASSUME UNCHANGED timer
      PROVE  Good11(timer)' /\ T!Oc1MatchesToc1Action /\ T!UnlatchedTogetherAction
  BY <1>2, TimerStays
<1>3. ASSUME UNCHANGED spi PROVE SpiInv(spi)' /\ P!SpiAcknowledged(spi, spi')
  BY <1>3 DEF P!SpiAcknowledged
<1>4. CASE interrupt
  BY <1>1, <1>3, <1>4, VectorTyped DEF interrupt
<1>5. CASE timer_access
  BY <1>1, <1>3, <1>5 DEF timer_access, instruction
<1>6. CASE spi_access
  <2>1. SpiInv(spi)' /\ P!SpiAcknowledged(spi, spi')
    BY <1>6, SpiAccessKeeps DEF spi_access
  <2> QED BY <1>1, <1>6, <2>1 DEF spi_access, instruction
<1>7. CASE sci_access
  <2>1. C!SciOK(sci)'
    BY <1>7, SciKeeps DEF sci_access
  <2> QED BY <1>1, <1>3, <1>7, <2>1 DEF sci_access, instruction
<1>8. ASSUME NEW b \in BOOLEAN, set_iflag(b) PROVE IInv11' /\ Kept11
  BY <1>1, <1>3, <1>8 DEF set_iflag, instruction
<1>9. CASE memory_cmd
  <2>1. SpiInv(spi)' /\ P!SpiAcknowledged(spi, spi')
    BY <1>9, SpiAccessKeeps DEF memory_cmd
  <2> QED BY <1>2, <1>9, <2>1 DEF memory_cmd
<1>10. CASE reset
  <2>1. Good11(timer)' /\ T!Oc1MatchesToc1Action /\ T!UnlatchedTogetherAction
    BY <1>10, ResetQuiet DEF reset
  <2> QED BY <1>3, <1>10, <2>1 DEF reset
<1>11. CASE sci_in
  <2>1. C!SciOK(sci)'
    BY <1>11, SciKeeps DEF sci_in
  <2> QED BY <1>2, <1>3, <1>11, <2>1 DEF sci_in
<1>12. CASE spi_in
  <2>1. SpiInv(spi)' /\ P!SpiAcknowledged(spi, spi')
    BY <1>12, SpiInKeeps DEF spi_in
  <2> QED BY <1>2, <1>12, <2>1 DEF spi_in
<1>13. CASE UNCHANGED vars
  BY <1>2, <1>3, <1>13 DEF vars
<1> QED
  BY <1>4, <1>5, <1>6, <1>7, <1>8, <1>9, <1>10, <1>11, <1>12, <1>13 DEF Next, instr_exec

\* The ticks of TOC1 stand for its distance from the counter whenever it is written as the
\* hardware's manual has it, those of the others run together, and the SPI's status counts as read
\* only since the last transfer, whatever a program writes to it.
THEOREM Spec11Inv == Spec => []IInv11
<1>1. Init => IInv11
  BY Starts11, SpiStarts, SciStarts DEF Init, IInv11
<1>2. IInv11 /\ [Next]_vars => IInv11'
  BY Step11
<1> QED BY <1>1, <1>2, PTL DEF Spec

\* The registers of the 6811 keep their widths; no count of ticks runs below 0 or past what u_int
\* holds and a round; no input capture is ever flagged; the SPI's buffer is not overrun; and a
\* transmit interrupt of the SCI is requested exactly while one is enabled.
THEOREM Spec11TypeOK == Spec => []TypeOK
<1>1. IInv11 => TypeOK
  BY DEF IInv11, TypeOK, T!TypeOK, Good11, SpiInv, IC, T!IC
<1> QED BY <1>1, Spec11Inv, PTL

\* OC1F follows TOC1 through the counter's wrap, through the interrupts and through resets, for
\* all instruction lengths and widths of long; and TOC2 to TOC5 only match together.
THEOREM SpecOc1MatchesToc1 == Spec => Oc1MatchesToc1
<1>1. IInv11 /\ [Next]_vars => [T!Oc1MatchesToc1Action]_timer
  BY Step11 DEF Kept11
<1> QED BY <1>1, Spec11Inv, PTL DEF Spec, Oc1MatchesToc1

\* As written registers do not matter to them, TOC2 to TOC5 are matched in the same instruction.
THEOREM SpecUnlatchedTogether == Spec => UnlatchedTogether
<1>1. IInv11 /\ [Next]_vars => [T!UnlatchedTogetherAction]_timer
  BY Step11 DEF Kept11
<1> QED BY <1>1, Spec11Inv, PTL DEF Spec, UnlatchedTogether

\* The request a transfer made stands until the program, or the monitor, has read the status of
\* that transfer: clearing SPIE does not withdraw it, and a write of SPSR, though it clears SPIF,
\* neither.
THEOREM SpecSpiAcknowledgedAfterStatus == Spec => SpiAcknowledgedAfterStatus
<1>1. IInv11 /\ [Next]_vars => [P!SpiAcknowledged(spi, spi')]_vars
  BY Step11 DEF Kept11
<1> QED BY <1>1, Spec11Inv, PTL DEF Spec, SpiAcknowledgedAfterStatus

-----------------------------------------------------------------------------
(* The 6301.                                                               *)

Past01(t) == t.frc >= H6301!Word(t.ocr)

\* OCF stands for a counter past OCR from the first instruction on; and there its status is not
\* marked as read, but by the monitor since the last instruction.
Good01(t) ==
  /\ t \in H6301!Timer
  /\ t.ocf => t.ran
  /\ t.ran /\ Past01(t) => t.ocf /\ (t.tcsr_is_read => t.dumped)

\* What timer_inc leaves, whatever it finds.
LEMMA IncGood01 ==
  ASSUME NEW t \in H6301!Timer, NEW n \in 1 .. MaxCycles6301
  PROVE  LET u == H6301!timer_inc(t, n) IN Good01(u) /\ (t.ocf => u.ocf)
<1> DEFINE past == t.frc + n >= H6301!Word(t.ocr)
           frc == (t.frc + n) % (MaxWord + 1)
           u == H6301!timer_inc(t, n)
<1>1. /\ H6301!MaxWord = MaxWord /\ H6301!Byte = Byte
      /\ t.frc \in 0 .. MaxWord /\ MaxWord \in Nat /\ n \in 1 .. MaxWord
      /\ t.ocr \in [hi : Byte, lo : Byte]
      /\ H6301!Word(t.ocr) = Word(t.ocr)
  BY Sizes, Assumption6301 DEF H6301!Timer, H6301!MaxWord, MaxWord, H6301!Byte, Byte, H6301!Word, Word
<1>2. Word(t.ocr) \in 0 .. MaxWord
  BY <1>1, Sizes
<1>3. frc \in 0 .. MaxWord /\ frc <= t.frc + n
  <2> DEFINE x == t.frc + n
  <2>1. x \in Nat /\ MaxWord + 1 \in Nat \ {0}
    BY <1>1
  <2>2. \A a \in Nat, m \in Nat \ {0} : a % m \in 0 .. m - 1 /\ a % m <= a
    OBVIOUS
  <2> HIDE DEF x
  <2>3. x % (MaxWord + 1) \in 0 .. (MaxWord + 1) - 1 /\ x % (MaxWord + 1) <= x
    BY <2>1, <2>2
  <2> QED BY <1>1, <2>3 DEF x
<1>4. u = [t EXCEPT !.frc = frc, !.ocf = @ \/ past, !.tcsr_is_read = @ /\ ~past,
                    !.ran = TRUE, !.dumped = FALSE]
  BY <1>1, Zenon DEF H6301!timer_inc
<1> HIDE DEF frc, u
<1>5. u \in H6301!Timer
  <2>1. frc \in 0 .. H6301!MaxWord
    BY <1>1, <1>3
  <2> QED BY <1>4, <2>1, ZenonT(60) DEF H6301!Timer
<1>6. /\ u.frc = frc /\ u.ocr = t.ocr /\ u.ran = TRUE /\ u.dumped = FALSE
      /\ u.ocf <=> t.ocf \/ past
      /\ u.tcsr_is_read <=> t.tcsr_is_read /\ ~past
  BY <1>4 DEF H6301!Timer
<1>7. Past01(u) => past
  BY <1>1, <1>2, <1>3, <1>6 DEF Past01
<1> QED BY <1>5, <1>6, <1>7 DEF Good01, u

\* What an access makes of the timer before timer_inc: OCF is only given up by a write to OCR
\* after a read of TCSR in an instruction before.
Accessed01(t) ==
  /\ t \in H6301!Timer /\ H6301!ends_with(t)
  /\ timer01.ocf /\ ~t.ocf => timer01.tcsr_is_read

LEMMA FunctionsType01 ==
  ASSUME NEW t \in H6301!Timer
  PROVE  /\ H6301!tcsr_getb(t) \in H6301!Timer /\ H6301!tcsr_getb(t).ocf = t.ocf
         /\ \A eoci \in BOOLEAN :
              /\ H6301!tcsr_putb(t, eoci) \in H6301!Timer
              /\ H6301!tcsr_putb(t, eoci).ocf = t.ocf
         /\ \A half \in {"hi", "lo"}, b \in WrittenBytes6301 :
              LET u == H6301!ocr_putb(t, half, b)
              IN  /\ u \in H6301!Timer /\ ~u.tcsr_is_read
                  /\ u.ocf <=> t.ocf /\ ~t.tcsr_is_read
<1>1. H6301!tcsr_getb(t) \in H6301!Timer /\ H6301!tcsr_getb(t).ocf = t.ocf
  BY ZenonT(60) DEF H6301!tcsr_getb, H6301!Timer
<1>2. ASSUME NEW eoci \in BOOLEAN
      PROVE  H6301!tcsr_putb(t, eoci) \in H6301!Timer /\ H6301!tcsr_putb(t, eoci).ocf = t.ocf
  BY ZenonT(60) DEF H6301!tcsr_putb, H6301!Timer
<1>3. ASSUME NEW half \in {"hi", "lo"}, NEW b \in WrittenBytes6301
      PROVE  LET u == H6301!ocr_putb(t, half, b)
             IN  /\ u \in H6301!Timer /\ ~u.tcsr_is_read
                 /\ u.ocf <=> t.ocf /\ ~t.tcsr_is_read
  <2> DEFINE ocr == [t.ocr EXCEPT ![half] = b]
             u == H6301!ocr_putb(t, half, b)
  <2>1. ocr \in [hi : H6301!Byte, lo : H6301!Byte]
    BY Assumption6301 DEF H6301!Timer, H6301!Byte, Byte
  <2>2. u = [t EXCEPT !.ocr = ocr, !.ocf = @ /\ ~t.tcsr_is_read, !.tcsr_is_read = FALSE]
    BY Zenon DEF H6301!ocr_putb
  <2> HIDE DEF ocr, u
  <2>3. u \in H6301!Timer
    BY <2>1, <2>2, ZenonT(60) DEF H6301!Timer
  <2>4. u.tcsr_is_read = FALSE /\ (u.ocf <=> t.ocf /\ ~t.tcsr_is_read)
    BY <2>2 DEF H6301!Timer
  <2> QED BY <2>3, <2>4 DEF u
<1> QED BY <1>1, <1>2, <1>3

LEMMA AccessEnds01 ==
  ASSUME timer01 \in H6301!Timer, H6301!timer_access
  PROVE  \E t : Accessed01(t)
<1> USE DEF Accessed01
<1>1. CASE H6301!ends_with(H6301!tcsr_getb(timer01))
  BY <1>1, FunctionsType01
<1>2. ASSUME NEW eoci \in BOOLEAN, H6301!ends_with(H6301!tcsr_putb(timer01, eoci))
      PROVE  \E t : Accessed01(t)
  BY <1>2, FunctionsType01
<1>3. ASSUME NEW eoci \in BOOLEAN,
             H6301!ends_with(H6301!tcsr_putb(H6301!tcsr_getb(timer01), eoci))
      PROVE  \E t : Accessed01(t)
  <2> DEFINE r == H6301!tcsr_getb(timer01)
  <2>1. r \in H6301!Timer /\ r.ocf = timer01.ocf
    BY FunctionsType01
  <2>2. H6301!tcsr_putb(r, eoci) \in H6301!Timer /\ H6301!tcsr_putb(r, eoci).ocf = r.ocf
    <3> HIDE DEF r
    <3> QED BY <2>1, FunctionsType01
  <2> QED BY <1>3, <2>1, <2>2
<1>4. ASSUME NEW half \in {"hi", "lo"}, NEW b \in WrittenBytes6301,
             H6301!ends_with(H6301!ocr_putb(timer01, half, b))
      PROVE  \E t : Accessed01(t)
  BY <1>4, FunctionsType01
<1>5. ASSUME NEW hi \in WrittenBytes6301, NEW lo \in WrittenBytes6301,
             H6301!ends_with(H6301!ocr_putb(H6301!ocr_putb(timer01, "hi", hi), "lo", lo))
      PROVE  \E t : Accessed01(t)
  <2> DEFINE h == H6301!ocr_putb(timer01, "hi", hi)
             u == H6301!ocr_putb(h, "lo", lo)
  <2>1. h \in H6301!Timer /\ ~h.tcsr_is_read /\ (h.ocf <=> timer01.ocf /\ ~timer01.tcsr_is_read)
    BY FunctionsType01
  <2>2. u \in H6301!Timer /\ (u.ocf <=> h.ocf /\ ~h.tcsr_is_read)
    <3> HIDE DEF h
    <3> QED BY <2>1, FunctionsType01
  <2> QED BY <1>5, <2>1, <2>2
<1> QED BY <1>1, <1>2, <1>3, <1>4, <1>5 DEF H6301!timer_access

\* Its serial interface is that of SciRequests too.
LEMMA SciSame01 ==
  /\ H6301!C!SciBit = C!SciBit /\ H6301!C!SciReset = C!SciReset
  /\ \A s : /\ \A v : H6301!C!sccr2_putb(s, v) = C!sccr2_putb(s, v)
           /\ H6301!C!scdr_putb(s) = C!scdr_putb(s) /\ H6301!C!scdr_getb(s) = C!scdr_getb(s)
           /\ H6301!C!sci_in(s) = C!sci_in(s) /\ (H6301!C!SciOK(s) <=> C!SciOK(s))
BY DEF H6301!C!SciBit, C!SciBit, H6301!C!SciReset, C!SciReset,
       H6301!C!sccr2_putb, C!sccr2_putb, H6301!C!scdr_putb, C!scdr_putb,
       H6301!C!scdr_getb, C!scdr_getb, H6301!C!sci_in, C!sci_in,
       H6301!C!SciOK, C!SciOK, H6301!C!SciRecord, C!SciRecord

IInv01 ==
  /\ Good01(timer01) /\ C!SciOK(sci)
  /\ iflag \in BOOLEAN /\ entered \in {"none", "OCFVECTOR", "SCIVECTOR"}

\* An instruction that ends with t, and one that does not concern the timer.
LEMMA Ends01 ==
  ASSUME Good01(timer01), NEW t, Accessed01(t)
  PROVE  Good01(timer01') /\ H6301!AckNeedsCounterBehindAction
<1>1. PICK n \in 1 .. MaxCycles6301 : timer01' = H6301!timer_inc(t, n)
  BY DEF Accessed01, H6301!ends_with
<1>2. Good01(timer01') /\ (t.ocf => timer01'.ocf)
  BY <1>1, IncGood01 DEF Accessed01
<1>3. /\ timer01.frc \in Int /\ H6301!Word(timer01.ocr) \in Int
  <2>1. timer01.ocr \in [hi : Byte, lo : Byte] /\ timer01.frc \in Int
    BY Sizes DEF Good01, H6301!Timer, H6301!Byte, Byte
  <2> QED BY <2>1, Sizes DEF H6301!Word, Word
<1>4. H6301!AckNeedsCounterBehindAction
  BY <1>2, <1>3 DEF H6301!AckNeedsCounterBehindAction, Accessed01, Good01, Past01
<1> QED BY <1>2, <1>4

LEMMA Step01 ==
  ASSUME IInv01, H6301!Next \/ UNCHANGED H6301!vars
  PROVE  IInv01' /\ H6301!AckNeedsCounterBehindAction
<1> USE DEF IInv01
<1>1. timer01 \in H6301!Timer
  BY DEF Good01
<1>2. ASSUME H6301!ends_with(timer01)
      PROVE  Good01(timer01)' /\ H6301!AckNeedsCounterBehindAction
  BY <1>1, <1>2, Ends01 DEF Accessed01
<1>3. ASSUME UNCHANGED timer01
      PROVE  Good01(timer01)' /\ H6301!AckNeedsCounterBehindAction
  BY <1>3 DEF H6301!AckNeedsCounterBehindAction
<1>4. CASE H6301!interrupt
  BY <1>2, <1>4 DEF H6301!interrupt, H6301!Interrupted, H6301!vector
<1>5. CASE H6301!timer_access
  <2>1. Good01(timer01)' /\ H6301!AckNeedsCounterBehindAction
    BY <1>1, <1>5, AccessEnds01, Ends01
  <2> QED BY <1>5, <2>1 DEF H6301!timer_access, H6301!instruction
<1>6. CASE H6301!sci_access
  <2>1. C!SciOK(sci)'
    BY <1>6, SciKeeps, SciSame01
    DEF H6301!sci_access, H6301!trcsr_putb, H6301!tdr_putb, H6301!rdr_getb
  <2> QED BY <1>2, <1>6, <2>1 DEF H6301!sci_access, H6301!instruction
<1>7. ASSUME NEW b \in BOOLEAN, H6301!set_iflag(b)
      PROVE  IInv01' /\ H6301!AckNeedsCounterBehindAction
  BY <1>2, <1>7 DEF H6301!set_iflag, H6301!instruction
<1>8. CASE H6301!dump
  <2> DEFINE r == H6301!tcsr_getb(timer01)
             t == [r EXCEPT !.dumped = TRUE]
  <2>1. r \in H6301!Timer /\ r.ocf = timer01.ocf
    BY <1>1, FunctionsType01
  <2>2. r.frc = timer01.frc /\ r.ocr = timer01.ocr /\ r.ran = timer01.ran
    BY <1>1 DEF H6301!tcsr_getb, H6301!Timer
  <2> HIDE DEF r
  <2>3. t \in H6301!Timer
    BY <2>1, ZenonT(60) DEF H6301!Timer
  <2>4. /\ t.frc = r.frc /\ t.ocr = r.ocr /\ t.ran = r.ran /\ t.ocf = r.ocf /\ t.dumped = TRUE
    BY <2>1 DEF H6301!Timer
  <2> HIDE DEF t
  <2>5. timer01' = t
    BY <1>8 DEF H6301!dump, t, r
  <2>6. Good01(timer01)'
    BY <2>1, <2>2, <2>3, <2>4, <2>5 DEF Good01, Past01
  <2>7. H6301!AckNeedsCounterBehindAction
    BY <2>1, <2>4, <2>5 DEF H6301!AckNeedsCounterBehindAction
  <2> QED BY <1>8, <2>6, <2>7 DEF H6301!dump
<1>9. CASE H6301!sci_in
  <2>1. C!SciOK(sci)'
    BY <1>9, SciKeeps, SciSame01 DEF H6301!sci_in
  <2> QED BY <1>3, <1>9, <2>1 DEF H6301!sci_in
<1>10. CASE H6301!reset
  BY <1>3, <1>10 DEF H6301!reset
<1>11. CASE UNCHANGED H6301!vars
  BY <1>3, <1>11 DEF H6301!vars
<1> QED
  BY <1>4, <1>5, <1>6, <1>7, <1>8, <1>9, <1>10, <1>11 DEF H6301!Next, H6301!instr_exec

LEMMA Starts01 ==
  ASSUME timer01 = [frc |-> 0, ocr |-> [hi |-> 0, lo |-> 0], ocf |-> FALSE, eoci |-> FALSE,
                    tcsr_is_read |-> FALSE, ran |-> FALSE, dumped |-> FALSE]
  PROVE  Good01(timer01)
<1>1. 0 \in H6301!Byte /\ 0 \in 0 .. H6301!MaxWord
  BY Sizes DEF H6301!Byte, Byte, H6301!MaxWord, MaxWord
<1>2. timer01 \in H6301!Timer
  BY <1>1, ZenonT(60) DEF H6301!Timer
<1> QED BY <1>2 DEF Good01

-----------------------------------------------------------------------------
(* The 6805.                                                               *)

\* The cycles an instruction may take: when the count of cycles wraps, more than a round of ticks
\* comes out of the prescaler.
GoodCycles(n) ==
  n \in Nat \ {0} /\ IntSize6805 \div 4 - 1 - (n - 1) \div 4 >= ByteSize * ByteSize

\* The next match is no more than a round ahead, and due in as many ticks as the counts are apart.
Good05(t) ==
  /\ t \in M6805!Timer
  /\ t.frc <= t.ocr /\ t.ocr <= t.frc + MaxWord + 1
  /\ t.due = t.ocr - t.frc

\* A timer record's counts.
LEMMA Fields05 ==
  ASSUME NEW t \in M6805!Timer
  PROVE  /\ t.frc \in 0 .. MaxOcr + MaxWord /\ t.ocr \in 0 .. MaxOcr + MaxWord + 1
         /\ t.presc_in \in 0 .. IntSize6805 - 1 /\ t.due \in 0 .. MaxWord + 1
         /\ t.OCR \in [hi : Byte, lo : Byte] /\ t.matched \in BOOLEAN
         /\ MaxWord \in Nat /\ MaxOcr \in Nat /\ MaxOcr >= MaxWord
         /\ IntSize6805 \in Nat /\ IntSize6805 % 4 = 0 /\ ByteSize * ByteSize = MaxWord + 1
         /\ M6805!MaxWord = MaxWord /\ M6805!Byte = Byte
<1>1. M6805!MaxWord = MaxWord /\ M6805!Byte = Byte /\ ByteSize * ByteSize = MaxWord + 1
  BY Sizes DEF M6805!MaxWord, MaxWord, M6805!Byte, Byte
<1> QED BY <1>1, Sizes, PrescalerAssumption, Assumption6805 DEF M6805!Timer

\* The prescaler: n cycles are n cycles unless the count of them wraps; then the ticks come out
\* the wrong way round.
LEMMA Prescaler ==
  ASSUME NEW t \in M6805!Timer, NEW n, GoodCycles(n)
  PROVE  LET p == t.presc_in
             q == (p + n) % IntSize6805
         IN  /\ q \in 0 .. IntSize6805 - 1 /\ q # p /\ (q - p) % IntSize6805 = n
             /\ M6805!ticks(t, n) \in Nat
             /\ q >= p => M6805!ticks(t, n) = ((p % 4) + n) \div 4
             /\ q < p => M6805!ticks(t, n) >= MaxWord + 1
<1> DEFINE p == t.presc_in
           q == (p + n) % IntSize6805
           m == IntSize6805 - 1
<1>1. /\ p \in 0 .. m /\ n \in Nat \ {0} /\ IntSize6805 \in Nat /\ IntSize6805 % 4 = 0
      /\ MaxWord \in Nat /\ IntSize6805 \div 4 - 1 - (n - 1) \div 4 >= MaxWord + 1
  BY Fields05 DEF GoodCycles
<1> HIDE DEF p
<1>2. n <= m /\ m \in Nat /\ IntSize6805 = m + 1
  <2>1. \A k, l \in Int : k \div 4 - 1 - (l - 1) \div 4 >= 1 => l <= k - 1
    BY SMT
  <2> QED BY <1>1, <2>1
<1>3. q = IF p + n <= m THEN p + n ELSE p + n - IntSize6805
  <2> DEFINE x == p + n
  <2>1. x \in Int /\ -m <= x /\ 0 <= x /\ x <= 2 * m /\ m \in Nat
    BY <1>1, <1>2
  <2> HIDE DEF x, m
  <2>2. x % (m + 1) = IF x < 0 THEN x + m + 1 ELSE IF x <= m THEN x ELSE x - (m + 1)
    BY <2>1, Wraps
  <2>3. q = x % (m + 1)
    BY <1>2 DEF x
  <2> HIDE DEF q
  <2> QED BY <1>1, <1>2, <2>1, <2>2, <2>3 DEF x
<1> HIDE DEF q
<1>4. q \in 0 .. m /\ q # p
  BY <1>1, <1>2, <1>3
<1>5. (q - p) % IntSize6805 = n
  <2> DEFINE x == q - p
  <2>1. x \in Int /\ -m <= x /\ x <= m /\ x <= 2 * m /\ m \in Nat
    BY <1>1, <1>2, <1>4
  <2>2. x = IF p + n <= m THEN n ELSE n - IntSize6805
    BY <1>1, <1>2, <1>3
  <2> HIDE DEF x, m
  <2>3. x % (m + 1) = IF x < 0 THEN x + m + 1 ELSE IF x <= m THEN x ELSE x - (m + 1)
    BY <2>1, Wraps
  <2>4. x % (m + 1) = n
    BY <1>1, <1>2, <2>1, <2>2, <2>3
  <2> QED BY <1>2, <2>4 DEF x
<1> DEFINE last == p \div 4
           out == q \div 4
<1>6. M6805!ticks(t, n) = IF out >= last THEN out - last ELSE last - out
  BY DEF M6805!ticks, p, q
<1>7. last \in Int /\ out \in Int
  BY <1>1, <1>4
<1>8. q >= p => out - last = ((p % 4) + n) \div 4 /\ out >= last
  <2>1. \A a, b \in Nat : (a + b) \div 4 - a \div 4 = ((a % 4) + b) \div 4 /\ (a + b) \div 4 >= a \div 4
    BY SMT
  <2>2. q >= p => q = p + n
    BY <1>1, <1>2, <1>3
  <2> QED BY <1>1, <2>1, <2>2
<1>9. q < p => last - out >= MaxWord + 1
  <2>1. \A a, b, k \in Int :
          k % 4 = 0 => (a + k - b) \div 4 - a \div 4 >= k \div 4 - 1 - (b - 1) \div 4
    BY SMT
  <2>2. q < p => p = q + IntSize6805 - n
    BY <1>1, <1>2, <1>3
  <2>3. q < p => last - out >= IntSize6805 \div 4 - 1 - (n - 1) \div 4
    BY <1>1, <1>4, <2>1, <2>2
  <2>4. (n - 1) \div 4 \in Int /\ IntSize6805 \div 4 \in Int
    BY <1>1
  <2> HIDE DEF last, out
  <2> QED BY <1>1, <1>7, <2>3, <2>4
<1> HIDE DEF last, out
<1>10. M6805!ticks(t, n) \in Nat
  BY <1>6, <1>7
<1>11. q >= p => M6805!ticks(t, n) = ((p % 4) + n) \div 4
  BY <1>6, <1>8
<1>12. q < p => M6805!ticks(t, n) >= MaxWord + 1
  BY <1>1, <1>6, <1>7, <1>9
<1> QED BY <1>2, <1>4, <1>5, <1>10, <1>11, <1>12 DEF p, q

\* What timer_inc leaves: a match comes when it is due, or when the count of cycles wraps.
LEMMA IncGood05 ==
  ASSUME NEW t, Good05(t), NEW n, GoodCycles(n)
  PROVE  LET u == M6805!timer_inc(t, n)
         IN  /\ Good05(u) /\ u.presc_in = (t.presc_in + n) % IntSize6805
             /\ u.matched <=> \/ u.presc_in < t.presc_in
                              \/ t.due <= ((t.presc_in % 4) + n) \div 4
<1> DEFINE frc == t.frc + M6805!ticks(t, n)
           cut == frc % (MaxWord + 1)
           hit == frc >= t.ocr
           passed == ((t.presc_in % 4) + n) \div 4
           u == M6805!timer_inc(t, n)
           frc2 == IF hit THEN cut ELSE frc
           ocr2 == IF hit THEN cut + MaxWord + 1 ELSE t.ocr
           due2 == IF hit THEN MaxWord + 1 ELSE t.due - passed
           q == (t.presc_in + n) % IntSize6805
           read == IF hit THEN t.tsr_is_read /\ t.ocf ELSE t.tsr_is_read
<1>1. t \in M6805!Timer /\ M6805!MaxWord = MaxWord /\ MaxWord \in Nat
  BY Fields05 DEF Good05
<1>2. /\ t.frc \in 0 .. MaxOcr + MaxWord /\ t.ocr \in 0 .. MaxOcr + MaxWord + 1
      /\ t.presc_in \in 0 .. IntSize6805 - 1 /\ t.due \in 0 .. MaxWord + 1
      /\ MaxOcr \in Nat /\ MaxOcr >= MaxWord /\ n \in Nat
      /\ t.frc <= t.ocr /\ t.ocr <= t.frc + MaxWord + 1 /\ t.due = t.ocr - t.frc
      /\ passed \in Nat
  <2>1. t.presc_in \in Nat /\ n \in Nat
    BY <1>1, Fields05 DEF GoodCycles
  <2>2. passed \in Nat
    BY <2>1
  <2> HIDE DEF passed
  <2> QED BY <1>1, <2>1, <2>2, Fields05 DEF Good05
<1>3. /\ q \in 0 .. IntSize6805 - 1 /\ M6805!ticks(t, n) \in Nat
      /\ q >= t.presc_in => M6805!ticks(t, n) = passed
      /\ q < t.presc_in => M6805!ticks(t, n) >= MaxWord + 1
  BY <1>1, Prescaler
<1>4. u = [t EXCEPT !.presc_in = q, !.frc = frc2, !.ocr = ocr2, !.ocf = @ \/ hit,
                    !.tsr_is_read = read, !.due = due2, !.matched = hit]
  <2>1. hit = TRUE \/ hit = FALSE
    OBVIOUS
  <2>2. u = IF hit THEN M6805!advanced(t, n, TRUE, cut, cut + MaxWord + 1, t.tsr_is_read /\ t.ocf)
            ELSE M6805!advanced(t, n, FALSE, frc, t.ocr, t.tsr_is_read)
    BY <1>1, Zenon DEF M6805!timer_inc
  <2> HIDE DEF u, hit, cut, frc
  <2>3. u = M6805!advanced(t, n, hit, frc2, ocr2, read)
    BY <2>1, <2>2, Zenon
  <2> HIDE DEF frc2, ocr2, read
  <2> QED BY <1>1, <2>3, Zenon DEF M6805!advanced
<1> HIDE DEF q, passed, u
<1>5. frc \in Nat /\ (hit <=> q < t.presc_in \/ t.due <= passed)
  BY <1>1, <1>2, <1>3
<1>6. hit <=> frc >= t.ocr
  OBVIOUS
<1>7. cut \in 0 .. MaxWord
  <2>1. \A a \in Nat, m \in Nat : a % (m + 1) \in 0 .. m
    OBVIOUS
  <2> HIDE DEF frc
  <2> QED BY <1>1, <1>5, <2>1
<1>8. ~hit => frc = t.frc + passed
  BY <1>2, <1>3, <1>5
<1> HIDE DEF hit, frc, cut
<1>9. /\ frc2 \in 0 .. MaxOcr + MaxWord /\ ocr2 \in 0 .. MaxOcr + MaxWord + 1
      /\ due2 \in 0 .. MaxWord + 1 /\ due2 = ocr2 - frc2
      /\ frc2 <= ocr2 /\ ocr2 <= frc2 + MaxWord + 1
  <2>1. CASE hit
    BY <1>1, <1>2, <1>7, <2>1
  <2>2. CASE ~hit
    BY <1>1, <1>2, <1>5, <1>6, <1>8, <2>2
  <2> QED BY <2>1, <2>2
<1>10. hit \in BOOLEAN /\ read \in BOOLEAN
  BY <1>1 DEF hit, M6805!Timer
<1> HIDE DEF frc2, ocr2, due2, read
<1>11. u \in M6805!Timer
  <2>1. /\ frc2 \in 0 .. MaxOcr + M6805!MaxWord /\ ocr2 \in 0 .. MaxOcr + M6805!MaxWord + 1
        /\ due2 \in 0 .. M6805!MaxWord + 1
    BY <1>1, <1>9
  <2> QED BY <1>1, <1>3, <1>4, <1>10, <2>1, ZenonT(60) DEF M6805!Timer
<1>12. u.presc_in = q /\ u.frc = frc2 /\ u.ocr = ocr2 /\ u.due = due2 /\ (u.matched <=> hit)
  BY <1>1, <1>4 DEF M6805!Timer
<1> QED BY <1>5, <1>9, <1>11, <1>12 DEF Good05, u, q, passed

\* What no access changes: the prescaler, and the history of the match.
Keeps05(t, u) == u.presc_in = t.presc_in /\ u.matched = t.matched

\* An acknowledgement touches flags only.
LEMMA AcknowledgedGood05 ==
  ASSUME NEW t, Good05(t)
  PROVE  /\ Good05(M6805!acknowledged(t)) /\ Keeps05(t, M6805!acknowledged(t))
         /\ M6805!acknowledged(t).frc = t.frc /\ M6805!acknowledged(t).OCR = t.OCR
         /\ Good05(M6805!tsr_getb(t)) /\ Keeps05(t, M6805!tsr_getb(t))
<1>1. t \in M6805!Timer
  BY DEF Good05
<1>2. M6805!acknowledged(t) \in M6805!Timer /\ M6805!tsr_getb(t) \in M6805!Timer
  BY <1>1, ZenonT(60) DEF M6805!acknowledged, M6805!tsr_getb, M6805!Timer
<1>3. \A u : u = M6805!acknowledged(t) \/ u = M6805!tsr_getb(t) =>
        /\ u.frc = t.frc /\ u.ocr = t.ocr /\ u.due = t.due /\ u.OCR = t.OCR
        /\ u.presc_in = t.presc_in /\ u.matched = t.matched
  BY <1>1 DEF M6805!acknowledged, M6805!tsr_getb, M6805!Timer
<1> QED BY <1>2, <1>3 DEF Good05, Keeps05

\* A write to OCR sets the match relative to the counter.
LEMMA OcrGood05 ==
  ASSUME NEW t, Good05(t), NEW b \in Byte, M6805!Word([t.OCR EXCEPT !.lo = b]) + t.frc <= MaxOcr
  PROVE  Good05(M6805!ocr_putb(t, b)) /\ Keeps05(t, M6805!ocr_putb(t, b))
<1> DEFINE a == M6805!acknowledged(t)
           OCR == [t.OCR EXCEPT !.lo = b]
           value == M6805!Word(OCR)
           u == M6805!ocr_putb(t, b)
<1>1. Good05(a) /\ Keeps05(t, a) /\ a.frc = t.frc /\ a.OCR = t.OCR
  BY AcknowledgedGood05
<1>2. /\ t.frc \in 0 .. MaxOcr + MaxWord /\ MaxWord \in Nat /\ MaxOcr \in Nat
      /\ M6805!MaxWord = MaxWord /\ M6805!Byte = Byte /\ t.OCR \in [hi : Byte, lo : Byte]
  BY Fields05 DEF Good05
<1>3. OCR \in [hi : Byte, lo : Byte]
  BY <1>2
<1>4. value \in 0 .. MaxWord /\ value + t.frc <= MaxOcr
  BY <1>3, Sizes DEF M6805!Word, Word
<1> DEFINE ocr == value + t.frc
<1>5. u = [a EXCEPT !.OCR = [a.OCR EXCEPT !.lo = b], !.ocr = ocr, !.due = value]
  BY Zenon DEF M6805!ocr_putb
<1>6. [a.OCR EXCEPT !.lo = b] = OCR
  BY <1>1
<1>7. ocr \in 0 .. MaxOcr + MaxWord + 1 /\ t.frc <= ocr /\ ocr <= t.frc + MaxWord + 1
      /\ value = ocr - t.frc /\ value \in 0 .. MaxWord + 1
  <2> HIDE DEF value
  <2> QED BY <1>2, <1>4
<1> HIDE DEF a, OCR, value, ocr, u
<1>8. u = [a EXCEPT !.OCR = OCR, !.ocr = ocr, !.due = value]
  BY <1>5, <1>6
<1>9. a \in M6805!Timer /\ u \in M6805!Timer
  <2>1. /\ ocr \in 0 .. MaxOcr + M6805!MaxWord + 1 /\ value \in 0 .. M6805!MaxWord + 1
        /\ OCR \in [hi : M6805!Byte, lo : M6805!Byte]
    BY <1>2, <1>3, <1>7
  <2>2. a \in M6805!Timer
    BY <1>1 DEF Good05
  <2> QED BY <1>8, <2>1, <2>2, ZenonT(60) DEF M6805!Timer
<1>10. /\ u.frc = a.frc /\ u.ocr = ocr /\ u.due = value
       /\ u.presc_in = a.presc_in /\ u.matched = a.matched
  BY <1>8, <1>9 DEF M6805!Timer
<1> QED BY <1>1, <1>7, <1>9, <1>10 DEF Good05, Keeps05, u

\* Any access of the timer alone, which has the chip's among them.
LEMMA AccessGood05 ==
  ASSUME NEW t, Good05(t), NEW u \in Timer05!accesses(t)
  PROVE  Good05(u) /\ Keeps05(t, u)
<1>1. t \in M6805!Timer
  BY DEF Good05
<1>2. CASE u = t
  BY <1>2 DEF Keeps05
<1>3. CASE u \in {Timer05!tsr_getb(t), Timer05!ocr_getb(t)}
  BY <1>3, AcknowledgedGood05
  DEF Timer05!tsr_getb, Timer05!ocr_getb, Timer05!acknowledged, M6805!tsr_getb, M6805!acknowledged
<1>4. ASSUME NEW b \in BOOLEAN, u = [t EXCEPT !.ocie = b] PROVE Good05(u) /\ Keeps05(t, u)
  <2>1. u \in M6805!Timer
    BY <1>1, <1>4, ZenonT(60) DEF M6805!Timer
  <2>2. /\ u.frc = t.frc /\ u.ocr = t.ocr /\ u.due = t.due
        /\ u.presc_in = t.presc_in /\ u.matched = t.matched
    BY <1>1, <1>4 DEF M6805!Timer
  <2> QED BY <2>1, <2>2 DEF Good05, Keeps05
<1>5. ASSUME NEW b \in WrittenBytes6805, u = Timer05!put_high(t, b)
      PROVE  Good05(u) /\ Keeps05(t, u)
  <2> DEFINE OCR == [t.OCR EXCEPT !.hi = b]
  <2>1. OCR \in [hi : M6805!Byte, lo : M6805!Byte]
    BY <1>1, Fields05, Assumption6805
  <2>2. u = [t EXCEPT !.OCR = OCR]
    BY <1>5, Zenon DEF Timer05!put_high
  <2> HIDE DEF OCR
  <2>3. u \in M6805!Timer
    BY <1>1, <2>1, <2>2, ZenonT(60) DEF M6805!Timer
  <2>4. /\ u.frc = t.frc /\ u.ocr = t.ocr /\ u.due = t.due
        /\ u.presc_in = t.presc_in /\ u.matched = t.matched
    BY <1>1, <2>2 DEF M6805!Timer
  <2> QED BY <2>3, <2>4 DEF Good05, Keeps05
<1>6. ASSUME NEW b \in WrittenBytes6805, Timer05!Word([t.OCR EXCEPT !.lo = b]) + t.frc <= MaxOcr,
             u = Timer05!ocr_putb(t, b)
      PROVE  Good05(u) /\ Keeps05(t, u)
  <2>1. u = M6805!ocr_putb(t, b) /\ M6805!Word([t.OCR EXCEPT !.lo = b]) + t.frc <= MaxOcr
    BY <1>6, Zenon
    DEF Timer05!ocr_putb, M6805!ocr_putb, Timer05!acknowledged, M6805!acknowledged,
        Timer05!Word, M6805!Word
  <2> QED BY <2>1, Assumption6805, OcrGood05
<1> QED BY <1>2, <1>3, <1>4, <1>5, <1>6 DEF Timer05!accesses

\* The chip and its timer alone have the same functions, and the chip's accesses are among those
\* of the timer alone.
LEMMA Same05 ==
  ASSUME NEW t
  PROVE  /\ t \in Timer05!accesses(t) /\ M6805!accesses(t) \subseteq Timer05!accesses(t)
         /\ \A n : Timer05!timer_inc(t, n) = M6805!timer_inc(t, n)
         /\ {M6805!tsr_getb(t), M6805!ocr_getb(t)} \subseteq Timer05!accesses(t)
         /\ {Timer05!tsr_getb(t), Timer05!ocr_getb(t)} \subseteq Timer05!accesses(t)
<1>1. /\ Timer05!tsr_getb(t) = M6805!tsr_getb(t) /\ Timer05!ocr_getb(t) = M6805!ocr_getb(t)
  BY DEF Timer05!tsr_getb, M6805!tsr_getb, Timer05!ocr_getb, M6805!ocr_getb,
         Timer05!acknowledged, M6805!acknowledged
<1>2. \A n : Timer05!timer_inc(t, n) = M6805!timer_inc(t, n)
  BY DEF Timer05!timer_inc, M6805!timer_inc, Timer05!advanced, M6805!advanced,
         Timer05!ticks, M6805!ticks, Timer05!MaxWord, M6805!MaxWord
<1>3. M6805!accesses(t) \subseteq {t, M6805!tsr_getb(t), M6805!ocr_getb(t)}
                                  \cup {[t EXCEPT !.ocie = b] : b \in BOOLEAN}
  BY Zenon DEF M6805!accesses
<1> QED BY <1>1, <1>2, <1>3, Zenon DEF Timer05!accesses

\* The cycles are counted first, then the registers accessed.
LEMMA Ticked05 ==
  ASSUME Good05(timer05), NEW n \in TimerCycles \cup ChipCycles,
         timer05' \in Timer05!accesses(M6805!timer_inc(timer05, n))
  PROVE  Good05(timer05') /\ Timer05!MatchWhenDueAction
<1> DEFINE t == M6805!timer_inc(timer05, n)
<1>1. GoodCycles(n) /\ timer05 \in M6805!Timer
  BY PrescalerAssumption DEF GoodCycles, Good05
<1>2. /\ Good05(t) /\ t.presc_in = (timer05.presc_in + n) % IntSize6805
      /\ t.matched <=> \/ t.presc_in < timer05.presc_in
                       \/ timer05.due <= ((timer05.presc_in % 4) + n) \div 4
  BY <1>1, IncGood05
<1>3. /\ t.presc_in # timer05.presc_in
      /\ (t.presc_in - timer05.presc_in) % IntSize6805 = n
  BY <1>1, <1>2, Prescaler
<1>4. timer05' \in Timer05!accesses(t)
  OBVIOUS
<1> HIDE DEF t
<1>5. Good05(timer05') /\ Keeps05(t, timer05')
  BY <1>2, <1>4, AccessGood05
<1> QED BY <1>2, <1>3, <1>5 DEF Timer05!MatchWhenDueAction, Keeps05

\* An access without cycles is the monitor's.
LEMMA Unticked05 ==
  ASSUME Good05(timer05), timer05' \in Timer05!accesses(timer05)
  PROVE  Good05(timer05') /\ Timer05!MatchWhenDueAction
<1>1. Good05(timer05') /\ Keeps05(timer05, timer05')
  BY AccessGood05
<1> QED BY <1>1 DEF Timer05!MatchWhenDueAction, Keeps05

\* The serial interface and the SPI are those of SciRequests and of Spi6811.
LEMMA SciSame05 ==
  /\ M6805!C!SciBit = C!SciBit /\ M6805!C!SciReset = C!SciReset
  /\ \A s : /\ \A v : M6805!C!sccr2_putb(s, v) = C!sccr2_putb(s, v)
            /\ M6805!C!scdr_putb(s) = C!scdr_putb(s) /\ M6805!C!scdr_getb(s) = C!scdr_getb(s)
            /\ M6805!C!sci_in(s) = C!sci_in(s)
            /\ M6805!C!SciOK(s) <=> C!SciOK(s)
            /\ Timer05!C!SciOK(s) <=> C!SciOK(s)
BY DEF M6805!C!SciBit, C!SciBit, M6805!C!SciReset, C!SciReset,
       M6805!C!sccr2_putb, C!sccr2_putb, M6805!C!scdr_putb, C!scdr_putb,
       M6805!C!scdr_getb, C!scdr_getb, M6805!C!sci_in, C!sci_in,
       M6805!C!SciOK, Timer05!C!SciOK, C!SciOK,
       M6805!C!SciRecord, Timer05!C!SciRecord, C!SciRecord, Timer05!C!SciBit

LEMMA SpiSame05 ==
  /\ M6805!P!SpiReset = P!SpiReset
  /\ \A s : /\ M6805!P!accesses(s) = P!accesses(s)
            /\ M6805!P!modifies(s) = P!modifies(s)
            /\ \A byte : M6805!P!spi_in(s, byte) = P!spi_in(s, byte)
            /\ M6805!P!SpiOK(s) <=> P!SpiOK(s)
            /\ Timer05!P!SpiOK(s) <=> P!SpiOK(s)
<1>1. /\ \A s : /\ M6805!P!spsr_getb(s) = P!spsr_getb(s)
                 /\ M6805!P!spdr_getb(s) = P!spdr_getb(s)
                 /\ M6805!P!spdr_putb(s) = P!spdr_putb(s)
      /\ \A s, b : /\ M6805!P!write_spcr(s, b) = P!write_spcr(s, b)
                    /\ M6805!P!write_spsr(s, b) = P!write_spsr(s, b)
  BY DEF M6805!P!spsr_getb, P!spsr_getb, M6805!P!spdr_getb, P!spdr_getb, M6805!P!acknowledged,
         P!acknowledged, M6805!P!write_spcr, P!write_spcr, M6805!P!write_spsr, P!write_spsr,
         M6805!P!spdr_putb, P!spdr_putb, M6805!P!transfer, P!transfer
<1>2. \A s : M6805!P!accesses(s) = P!accesses(s) /\ M6805!P!modifies(s) = P!modifies(s)
  BY <1>1 DEF M6805!P!accesses, P!accesses, M6805!P!modifies, P!modifies
<1> QED
BY <1>2 DEF M6805!P!SpiReset, P!SpiReset, M6805!P!spi_in, P!spi_in,
       M6805!P!spi_nbytes, Timer05!P!spi_nbytes, P!spi_nbytes,
       M6805!P!SpiOK, Timer05!P!SpiOK, P!SpiOK, M6805!P!Spi, Timer05!P!Spi, P!Spi

IInv05 ==
  /\ Good05(timer05) /\ SpiInv(spi) /\ C!SciOK(sci)
  /\ iflag \in BOOLEAN /\ pc \in {"memory", "outside"}
  /\ entered \in {"none", "TIOVEC", "SCIVEC", "SPIVEC"}

\* The timer by itself.
LEMMA StepTimer05 ==
  ASSUME Good05(timer05), Timer05!TimerNext
  PROVE  Good05(timer05') /\ Timer05!MatchWhenDueAction
<1>1. CASE Timer05!dump_timer
  BY <1>1, Unticked05, Same05 DEF Timer05!dump_timer
<1>2. ASSUME NEW t \in Timer05!Ticked, timer05' \in Timer05!accesses(t)
      PROVE  Good05(timer05') /\ Timer05!MatchWhenDueAction
  BY <1>2, Same05, Ticked05 DEF Timer05!Ticked
<1> QED BY <1>1, <1>2 DEF Timer05!TimerNext

LEMMA Step05 ==
  ASSUME IInv05, M6805!Next
  PROVE  IInv05' /\ Timer05!MatchWhenDueAction
<1> USE DEF IInv05
<1>1. ASSUME NEW t \in M6805!Ticked, timer05' \in M6805!accesses(t) \cup {t}
      PROVE  Good05(timer05)' /\ Timer05!MatchWhenDueAction
  BY <1>1, Same05, Ticked05 DEF M6805!Ticked
<1>2. ASSUME UNCHANGED timer05
      PROVE  Good05(timer05)' /\ Timer05!MatchWhenDueAction
  BY <1>2, Same05, Unticked05
<1>3. CASE M6805!interrupt
  <2>1. Good05(timer05)' /\ Timer05!MatchWhenDueAction
    BY <1>1, <1>2, <1>3 DEF M6805!interrupt
  <2> QED BY <1>3, <2>1 DEF M6805!interrupt, M6805!Place, M6805!Interrupted, M6805!vector
<1>4. CASE M6805!invalid_pc
  BY <1>2, <1>4 DEF M6805!invalid_pc
<1>5. CASE M6805!timer_access
  BY <1>1, <1>5 DEF M6805!timer_access, M6805!instruction, M6805!Place
<1>6. CASE M6805!spi_access
  <2>1. SpiInv(spi)'
    BY <1>6, SpiAccessKeeps, SpiSame05 DEF M6805!spi_access
  <2> QED BY <1>1, <1>6, <2>1 DEF M6805!spi_access, M6805!instruction, M6805!Place
<1>7. CASE M6805!sci_access
  <2>1. C!SciOK(sci)'
    BY <1>7, SciKeeps, SciSame05 DEF M6805!sci_access
  <2> QED BY <1>1, <1>7, <2>1 DEF M6805!sci_access, M6805!instruction, M6805!Place
<1>8. ASSUME NEW b \in BOOLEAN, M6805!set_iflag(b)
      PROVE  IInv05' /\ Timer05!MatchWhenDueAction
  BY <1>1, <1>8 DEF M6805!set_iflag, M6805!instruction, M6805!Place
<1>9. CASE M6805!memory_cmd
  <2>1. SpiInv(spi)'
    BY <1>9, SpiAccessKeeps, SpiSame05 DEF M6805!memory_cmd
  <2>2. Good05(timer05)' /\ Timer05!MatchWhenDueAction
    BY <1>2, <1>9, Same05, Unticked05 DEF M6805!memory_cmd, M6805!dump_timer
  <2> QED BY <1>9, <2>1, <2>2 DEF M6805!memory_cmd
<1>10. CASE M6805!input
  <2>1. SpiInv(spi)' /\ C!SciOK(sci)'
    BY <1>10, SpiInKeeps, SpiSame05, SciKeeps, SciSame05 DEF M6805!input
  <2> QED BY <1>2, <1>10, <2>1 DEF M6805!input
<1>11. CASE M6805!reset
  BY <1>2, <1>11 DEF M6805!reset
<1> QED
  BY <1>3, <1>4, <1>5, <1>6, <1>7, <1>8, <1>9, <1>10, <1>11 DEF M6805!Next, M6805!instr_exec

LEMMA Starts05 == M6805!TimerInit => Good05(timer05)
<1> SUFFICES ASSUME M6805!TimerInit PROVE Good05(timer05)
  OBVIOUS
<1>1. /\ M6805!MaxWord = MaxWord /\ MaxWord \in Nat /\ MaxOcr \in Nat /\ MaxOcr >= MaxWord
      /\ 0 \in M6805!Byte /\ IntSize6805 \in Nat
  BY Sizes, PrescalerAssumption, Assumption6805 DEF M6805!MaxWord, MaxWord, M6805!Byte, Byte
<1>2. 0 \in 0 .. IntSize6805 - 1
  BY PrescalerAssumption
<1>3. timer05 \in M6805!Timer
  <2>1. /\ 0 \in 0 .. MaxOcr + M6805!MaxWord /\ M6805!MaxWord + 1 \in 0 .. MaxOcr + M6805!MaxWord + 1
        /\ M6805!MaxWord + 1 \in 0 .. M6805!MaxWord + 1
    BY <1>1
  <2> QED BY <1>1, <1>2, <2>1, ZenonT(60) DEF M6805!TimerInit, M6805!Timer
<1>4. timer05.frc = 0 /\ timer05.ocr = MaxWord + 1 /\ timer05.due = MaxWord + 1
  BY <1>1 DEF M6805!TimerInit
<1> QED BY <1>1, <1>3, <1>4 DEF Good05

LEMMA TypeOK05 == IInv05 => M6805!TypeOK /\ Timer05!TypeOK
<1> SUFFICES ASSUME IInv05 PROVE M6805!TypeOK /\ Timer05!TypeOK
  OBVIOUS
<1>1. timer05 \in M6805!Timer /\ M6805!MaxWord = MaxWord
  BY Fields05 DEF IInv05, Good05
<1>2. M6805!Timer = Timer05!Timer /\ Timer05!MaxWord = M6805!MaxWord
  BY DEF M6805!Timer, Timer05!Timer, M6805!MaxWord, Timer05!MaxWord, M6805!Byte, Timer05!Byte
<1>3. P!SpiOK(spi)
  BY DEF IInv05, SpiInv
<1>4. M6805!P!SpiOK(spi) /\ Timer05!P!SpiOK(spi) /\ M6805!C!SciOK(sci) /\ Timer05!C!SciOK(sci)
  BY <1>3, SpiSame05, SciSame05 DEF IInv05
<1> QED BY <1>1, <1>2, <1>4
  DEF IInv05, Good05, M6805!TypeOK, Timer05!TypeOK, M6805!Place, Timer05!Place

-----------------------------------------------------------------------------
(* The ACIA of the 6800.                                                   *)

LEMMA SciSame00 ==
  /\ Acia!C!SciBit = C!SciBit /\ Acia!C!SciReset = C!SciReset
  /\ \A s : /\ \A v : Acia!C!sccr2_putb(s, v) = C!sccr2_putb(s, v)
            /\ Acia!C!scdr_putb(s) = C!scdr_putb(s) /\ Acia!C!scdr_getb(s) = C!scdr_getb(s)
            /\ Acia!C!sci_in(s) = C!sci_in(s)
            /\ Acia!C!SciOK(s) <=> C!SciOK(s)
BY DEF Acia!C!SciBit, C!SciBit, Acia!C!SciReset, C!SciReset,
       Acia!C!sccr2_putb, C!sccr2_putb, Acia!C!scdr_putb, C!scdr_putb,
       Acia!C!scdr_getb, C!scdr_getb, Acia!C!sci_in, C!sci_in,
       Acia!C!SciOK, C!SciOK, Acia!C!SciRecord, C!SciRecord

\* Only a read of RDR takes a byte away, and it forgets the poll.
LEMMA Waits00 ==
  ASSUME NEW s, C!SciOK(s)
  PROVE  /\ \A v : C!sccr2_putb(s, v).sci_rx_ints = s.sci_rx_ints
         /\ C!scdr_putb(s).sci_rx_ints = s.sci_rx_ints
         /\ C!sci_in(s).sci_rx_ints >= s.sci_rx_ints /\ s.sci_rx_ints \in Nat
<1>1. s \in C!SciRecord /\ MaxRx \in Nat
  BY ChipAssumption DEF C!SciOK
<1> QED BY <1>1 DEF C!SciRecord, C!sccr2_putb, C!scdr_putb, C!sci_in

LEMMA Step00 ==
  ASSUME Acia!TypeOK, Acia!Next
  PROVE  Acia!TypeOK'
<1>1. C!SciOK(sci) /\ sr \subseteq {"TDRE", "RDRF", "IRQ"} /\ ("RDRF" \in sr => sci.sci_rx_ints > 0)
  BY SciSame00 DEF Acia!TypeOK
<1>2. SUFFICES /\ C!SciOK(sci') /\ sr' \subseteq {"TDRE", "RDRF", "IRQ"}
               /\ "RDRF" \in sr' => sci'.sci_rx_ints > 0
  BY SciSame00 DEF Acia!TypeOK
<1>3. CASE Acia!sr_getb
  BY <1>1, <1>3 DEF Acia!sr_getb
<1>4. ASSUME NEW v \in SUBSET C!SciBit, Acia!cr_putb(v)
      PROVE  C!SciOK(sci') /\ sr' = sr /\ sci'.sci_rx_ints = sci.sci_rx_ints
  BY <1>1, <1>4, SciSame00, SciKeeps, Waits00 DEF Acia!cr_putb
<1>5. CASE Acia!tdr_putb
  BY <1>1, <1>5, SciSame00, SciKeeps, Waits00 DEF Acia!tdr_putb
<1>6. CASE Acia!rdr_getb
  BY <1>1, <1>6, SciSame00, SciKeeps DEF Acia!rdr_getb
<1>7. CASE Acia!sci_in
  <2>1. C!SciOK(sci') /\ sr' = sr /\ sci'.sci_rx_ints >= sci.sci_rx_ints
    BY <1>1, <1>7, SciSame00, SciKeeps, Waits00 DEF Acia!sci_in
  <2>2. sci.sci_rx_ints \in Nat /\ sci'.sci_rx_ints \in Nat
    BY <1>1, <2>1, Waits00
  <2> QED BY <1>1, <2>1, <2>2
<1> QED BY <1>1, <1>3, <1>4, <1>5, <1>6, <1>7, SciSame00 DEF Acia!Next

-----------------------------------------------------------------------------
(* The chips side by side.                                                 *)

\* The invariant of the chip that runs.
AllInv ==
  /\ build = "6811" => IInv11
  /\ build = "6301" => IInv01
  /\ build \in {"timer05", "6805"} => IInv05
  /\ build = "6800" => Acia!TypeOK

LEMMA AllStarts == AllInit => AllInv
<1> SUFFICES ASSUME AllInit PROVE AllInv
  OBVIOUS
<1>1. SpiInv(spi) /\ C!SciOK(sci) /\ Acia!TypeOK /\ iflag \in BOOLEAN
  <2>1. C!SciOK(sci) /\ Acia!C!SciOK(sci)
    BY SciStarts, SciSame00 DEF AllInit, Acia!Init
  <2> QED BY <2>1, SpiStarts DEF AllInit, Acia!Init, Acia!TypeOK
<1>2. build = "6811" => Good11(timer)
  BY Starts11 DEF AllInit
<1>3. Good01(timer01) /\ Good05(timer05)
  BY Starts01, Starts05 DEF AllInit
<1> QED BY <1>1, <1>2, <1>3 DEF AllInit, AllInv, IInv11, IInv01, IInv05

\* A step of one chip leaves the other's registers, and what it may not do, alone.
LEMMA AllStep ==
  ASSUME AllInv, AllNext
  PROVE  /\ AllInv'
         /\ [build = "6301" => H6301!AckNeedsCounterBehindAction]_timer01
         /\ [Timer05!MatchWhenDueAction]_timer05
<1> USE DEF AllInv
<1>1. CASE step_of_6811
  <2>1. IInv11' /\ build' = build
    BY <1>1, Step11 DEF step_of_6811
  <2> QED BY <1>1, <2>1 DEF step_of_6811
<1>2. CASE step_of_timer11
  BY <1>2 DEF step_of_timer11
<1>3. CASE step_of_6301
  <2>1. IInv01' /\ H6301!AckNeedsCounterBehindAction
    BY <1>3, Step01 DEF step_of_6301
  <2> QED BY <1>3, <2>1 DEF step_of_6301
<1>4. CASE step_of_timer05
  <2>1. Good05(timer05') /\ Timer05!MatchWhenDueAction
    BY <1>4, StepTimer05 DEF step_of_timer05, IInv05
  <2> QED BY <1>4, <2>1 DEF step_of_timer05, IInv05
<1>5. CASE step_of_6805
  <2>1. IInv05' /\ Timer05!MatchWhenDueAction
    BY <1>5, Step05 DEF step_of_6805
  <2> QED BY <1>5, <2>1 DEF step_of_6805
<1>6. CASE step_of_6800
  <2>1. Acia!TypeOK'
    BY <1>6, Step00 DEF step_of_6800
  <2> QED BY <1>6, <2>1 DEF step_of_6800
<1> QED BY <1>1, <1>2, <1>3, <1>4, <1>5, <1>6 DEF AllNext

LEMMA AllStutters == AllInv /\ UNCHANGED all_vars => AllInv'
<1> SUFFICES ASSUME AllInv, UNCHANGED all_vars PROVE AllInv'
  OBVIOUS
<1>1. /\ build' = build /\ timer' = timer /\ timer01' = timer01 /\ timer05' = timer05
      /\ spi' = spi /\ sci' = sci /\ iflag' = iflag /\ pc' = pc /\ entered' = entered /\ sr' = sr
  BY DEF all_vars
<1>2. (IInv11 => IInv11') /\ (IInv01 => IInv01') /\ (IInv05 => IInv05')
  BY <1>1 DEF IInv11, IInv01, IInv05
<1>3. Acia!TypeOK => Acia!TypeOK'
  BY <1>1, SciSame00 DEF Acia!TypeOK
<1> QED BY <1>1, <1>2, <1>3 DEF AllInv

\* Whichever chip runs, its counts stand for what they are for.
THEOREM AllSpecInv == AllSpec => []AllInv
<1>1. AllInit => AllInv
  BY AllStarts
<1>2. AllInv /\ [AllNext]_all_vars => AllInv'
  BY AllStep, AllStutters
<1> QED BY <1>1, <1>2, PTL DEF AllSpec

\* The registers of the four chips keep their widths; the next match of the 6805 is never behind
\* its counter nor more than a round ahead; a byte the ACIA has announced waits until it is read.
THEOREM AllSpecTypeOK == AllSpec => []AllTypeOK
<1>1. IInv11 => TypeOK
  BY DEF IInv11, TypeOK, T!TypeOK, Good11, SpiInv, IC, T!IC
<1>2. IInv01 => H6301!TypeOK
  BY SciSame01 DEF IInv01, Good01, H6301!TypeOK
<1>3. AllInv => AllTypeOK
  BY <1>1, <1>2, TypeOK05 DEF AllInv, AllTypeOK
<1> QED BY <1>3, AllSpecInv, PTL

\* The 6301's OCF is set as long as the counter stands at or past OCR.
THEOREM AllSpecOcfWhilePast == AllSpec => []OcfWhilePast
<1>1. AllInv => OcfWhilePast
  BY DEF AllInv, OcfWhilePast, H6301!OcfWhilePast, IInv01, Good01, Past01
<1> QED BY <1>1, AllSpecInv, PTL

\* The 6301's program gets rid of OCF only with the counter before OCR, unless the monitor has
\* read TCSR for it.
THEOREM AllSpecAckNeedsCounterBehind == AllSpec => AckNeedsCounterBehind
<1>1. AllInv /\ [AllNext]_all_vars => [build = "6301" => H6301!AckNeedsCounterBehindAction]_timer01
  BY AllStep DEF all_vars
<1> QED BY <1>1, AllSpecInv, PTL DEF AllSpec, AckNeedsCounterBehind

\* The 6805 matches in just the instruction that is due, for every mixture of instruction lengths
\* the assumption on the prescaler admits, and in those in which the count of cycles wraps.
THEOREM AllSpecMatchWhenDue == AllSpec => MatchWhenDue
<1>1. AllInv /\ [AllNext]_all_vars => [Timer05!MatchWhenDueAction]_timer05
  BY AllStep DEF all_vars
<1> QED BY <1>1, AllSpecInv, PTL DEF AllSpec, MatchWhenDue

-----------------------------------------------------------------------------
(* The source of the lowest priority.                                      *)

\* With nothing before the SPI the 6811 takes its interrupt: no input capture is flagged, enabled
\* or not, so that none holds it off.
LEMMA Lowest11 ==
  ASSUME IInv11, spi_int, runs_for_spi
  PROVE  entered' = "SPIVECTOR"
<1>1. timer.tflg1 \cap timer.tmsk1 = {}
  <2>1. timer.tflg1 \in SUBSET Flag /\ IC \notin timer.tflg1
    BY Fields11 DEF IInv11, Good11
  <2> QED BY <2>1 DEF runs_for_spi, Flag
<1>2. vector = "SPIVECTOR" /\ Interrupted
  BY <1>1 DEF runs_for_spi, vector, Interrupted
<1> QED
  BY <1>2 DEF runs_for_spi, instr_exec, interrupt, timer_access, spi_access, sci_access,
              set_iflag, instruction

\* With no match to serve the 6301 takes that of its serial interface.
LEMMA Lowest01 ==
  ASSUME H6301!SciRequested, H6301!runs_for_sci
  PROVE  entered' = "SCIVECTOR"
<1>1. H6301!vector = "SCIVECTOR" /\ H6301!Interrupted
  BY DEF H6301!runs_for_sci, H6301!SciRequested, H6301!vector, H6301!Interrupted
<1> QED
  BY <1>1 DEF H6301!runs_for_sci, H6301!instr_exec, H6301!interrupt, H6301!timer_access,
              H6301!sci_access, H6301!set_iflag, H6301!instruction

\* With nothing before the SPI the 6805 takes its interrupt, wherever the program counter points:
\* that is looked at only once the handler's address is in it.
LEMMA Lowest05 ==
  ASSUME spi.spi_interrupt, M6805!runs_for_spi
  PROVE  entered' = "SPIVEC"
<1>1. M6805!vector = "SPIVEC" /\ M6805!Interrupted
  BY DEF M6805!runs_for_spi, M6805!vector, M6805!Interrupted
<1> QED
  BY <1>1 DEF M6805!runs_for_spi, M6805!instr_exec, M6805!interrupt, M6805!invalid_pc,
              M6805!timer_access, M6805!spi_access, M6805!sci_access, M6805!set_iflag,
              M6805!instruction

\* On all three chips, for all instruction lengths and register values: the source of the lowest
\* priority does not wait longer than until the CPU first runs on with nothing before it.  The
\* property supposes that it does so again and again; no fairness is needed.
THEOREM AllSpecLowestServed == AllSpec => LowestServed
<1>1. ASSUME AllInv, LowestRequested, runs_for_lowest, AllNext
      PROVE  lowest_entered'
  <2>1. build' = build
    BY <1>1 DEF AllNext, step_of_6811, step_of_timer11, step_of_6301, step_of_timer05,
                step_of_6805, step_of_6800
  <2>2. CASE build = "6811"
    BY <1>1, <2>1, <2>2, Lowest11 DEF AllInv, LowestRequested, runs_for_lowest, lowest_entered
  <2>3. CASE build = "6301"
    BY <1>1, <2>1, <2>3, Lowest01 DEF LowestRequested, runs_for_lowest, lowest_entered
  <2>4. CASE build = "6805"
    BY <1>1, <2>1, <2>4, Lowest05 DEF LowestRequested, runs_for_lowest, lowest_entered
  <2> QED BY <1>1, <2>2, <2>3, <2>4 DEF runs_for_lowest
<1>2. AllInv /\ LowestRequested /\ [AllNext]_all_vars /\ <<runs_for_lowest>>_all_vars
        => lowest_entered'
  BY <1>1
<1> QED BY <1>2, AllSpecInv, PTL DEF AllSpec, LowestServed
=============================================================================
