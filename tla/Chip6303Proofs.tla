--------------------------- MODULE Chip6303Proofs ---------------------------
(***************************************************************************)
(* For every width of the counter, length of instructions, number of bytes *)
(* received and depth of interrupts.                                       *)
(*                                                                         *)
(* First the timer by itself, T of Chip6303, under any program.  Ocf1Exact *)
(* is not inductive: that a write of OCR1 clears OCF1 exactly when the     *)
(* status was read since the match rests on tcsr_is_read telling exactly   *)
(* that, which is the second half of the invariant.  Then the chip: every  *)
(* step of it is one of the timer or leaves it alone, so that what holds   *)
(* of the timer holds in the chip; no compare interrupt is taken for a     *)
(* match that was acknowledged; and a transmit interrupt is outstanding    *)
(* exactly while it is enabled.                                            *)
(***************************************************************************)
EXTENDS Chip6303, SequenceTheorems, TLAPS

-----------------------------------------------------------------------------
(* The timer.                                                              *)

\* What is assumed of the registers, in the timer's own names.
LEMMA TimerBytes ==
  /\ ByteSize \in Nat /\ ByteSize >= 2 /\ MaxCycles \in 1 .. T!MaxWord
  /\ WrittenBits \subseteq T!TcsrBit /\ WrittenBytes \subseteq T!Byte /\ WrittenT2 \subseteq T!Byte
  /\ T2Counting \subseteq T!Byte /\ Prescaler \in [T!Byte -> Nat \ {0}]
BY ByteAssumption, CyclesAssumption, WrittenAssumption, T2Assumption
   DEF T!MaxWord, MaxWord, T!Byte, Byte, T!TcsrBit, TcsrBit

USE DEF T!ETOI, T!EOCI1, T!EICI, T!TOF, T!OCF1, T!ICF, T!EOCI2, T!OCF2, T!TcsrBit

\* What the code keeps track of is what has happened to the match.
Exact(t) ==
  /\ T!OCF1 \in t.tcsr1 <=> t.match1 # "none"
  /\ t.tcsr_is_read <=> t.match1 = "read"

Typed(t) ==
  /\ t \in T!Timer
  /\ {T!ICF, T!TOF} \cap t.tcsr1 = {} /\ t.tcsr2 \subseteq {T!OCF2}

Good(t) == Typed(t) /\ Exact(t)

-----------------------------------------------------------------------------
(* Every function of timer.c keeps a good timer good.                      *)

\* tcsr1_getb and tcsr2_getb: what an instruction or a dump reads.
LEMMA ReadGood ==
  ASSUME NEW t, Good(t)
  PROVE  Good(T!tcsr1_getb(t)) /\ Good(T!tcsr2_getb(t))
<1> USE DEF Good, Typed, Exact, T!Timer, T!Match, T!AfterRead
<1>1. Good(T!tcsr1_getb(t))
  BY DEF T!tcsr1_getb
<1>2. Good(T!tcsr2_getb(t))
  BY ZenonT(60) DEF T!tcsr2_getb
<1> QED BY <1>1, <1>2

\* tcsr1_putb and tcsr2_putb: OCF1 and ICF are read only in both, and so is bit 5, which is TOF
\* in the one and OCF2 in the other.
LEMMA WriteGood ==
  ASSUME NEW t, Good(t), NEW v \in SUBSET T!TcsrBit
  PROVE  Good(T!tcsr1_putb(t, v)) /\ Good(T!tcsr2_putb(t, v))
<1> USE DEF Good, Typed, Exact, T!Timer
<1>1. Good(T!tcsr1_putb(t, v))
  BY SMTT(40) DEF T!tcsr1_putb
<1>2. Good(T!tcsr2_putb(t, v))
  BY SMTT(40) DEF T!tcsr2_putb
<1> QED BY <1>1, <1>2

\* ocr1_putb and iram_ocr2: the write that clears OCF1 is the one that follows a reading.
LEMMA CompareGood ==
  ASSUME NEW t, Good(t), NEW half \in {"hi", "lo"}, NEW b \in T!Byte
  PROVE  Good(T!ocr1_putb(t, half, b)) /\ Good(T!iram_ocr2(t, half, b))
<1> USE DEF Good, Typed, Exact, T!Timer
<1>1. Good(T!ocr1_putb(t, half, b))
  <2>1. Typed(T!ocr1_putb(t, half, b))
    BY ZenonT(60) DEF T!ocr1_putb, T!Match, T!AfterWrite
  <2>2. Exact(T!ocr1_putb(t, half, b))
    BY SMTT(40) DEF T!ocr1_putb, T!Match, T!AfterWrite
  <2> QED BY <2>1, <2>2
<1>2. Good(T!iram_ocr2(t, half, b))
  BY ZenonT(60) DEF T!iram_ocr2, T!Match, T!AfterWrite
<1> QED BY <1>1, <1>2

\* What no register access changes: the counter and TCSR2; and none sets OCF1.
Keeps(t, u) ==
  /\ u.frc = t.frc /\ u.tcsr2 = t.tcsr2
  /\ T!OCF1 \in u.tcsr1 => T!OCF1 \in t.tcsr1

\* One access after another.
LEMMA KeepsTransitive ==
  ASSUME NEW t, NEW u, NEW w, Keeps(t, u), Keeps(u, w)
  PROVE  Keeps(t, w)
BY DEF Keeps

\* The functions installed for the registers, and the plain memory of the others.
LEMMA AccessKeeps ==
  ASSUME NEW t \in T!Timer
  PROVE  /\ Keeps(t, t)
         /\ Keeps(t, T!tcsr1_getb(t)) /\ Keeps(t, T!tcsr2_getb(t))
         /\ \A v : Keeps(t, T!tcsr1_putb(t, v)) /\ Keeps(t, T!tcsr2_putb(t, v))
         /\ \A half, b : Keeps(t, T!ocr1_putb(t, half, b)) /\ Keeps(t, T!iram_ocr2(t, half, b))
         /\ \A b : Keeps(t, [t EXCEPT !.tconr = b]) /\ Keeps(t, [t EXCEPT !.t2cnt = b])
         /\ \A b : Keeps(t, [t EXCEPT !.cmf = b])
         /\ \A b, c : /\ Keeps(t, [t EXCEPT !.cmf = b, !.tconr = c])
                     /\ Keeps(t, [t EXCEPT !.tconr = b, !.t2cnt = c])
<1> USE DEF Keeps, T!Timer
<1>1. Keeps(t, T!tcsr1_getb(t)) /\ Keeps(t, T!tcsr2_getb(t))
  BY DEF T!tcsr1_getb, T!tcsr2_getb
<1>2. \A v : Keeps(t, T!tcsr1_putb(t, v)) /\ Keeps(t, T!tcsr2_putb(t, v))
  BY DEF T!tcsr1_putb, T!tcsr2_putb
<1>3. \A half, b : Keeps(t, T!ocr1_putb(t, half, b)) /\ Keeps(t, T!iram_ocr2(t, half, b))
  BY DEF T!ocr1_putb, T!iram_ocr2
<1> QED BY <1>1, <1>2, <1>3

\* Timer 2's count is a byte again, whatever the clock's divisor.
LEMMA T2Typed ==
  ASSUME NEW t \in T!Timer, NEW new \in Nat
  PROVE  T!t2_inc(t, new).t2cnt \in T!Byte /\ T!t2_inc(t, new).passed \in BOOLEAN
<1> DEFINE clock == Prescaler[t.tconr]
           a == new \div clock
           b == t.frc \div clock
           count == t.t2cnt + a - b
           passed == t.tconr \in T2Counting /\ count >= t.tconr /\ t.t2cnt < t.tconr
           left == IF passed THEN count - t.tconr ELSE count
<1>1. t.t2cnt \in T!Byte /\ t.tconr \in T!Byte /\ T!Byte \subseteq Int /\ ByteSize \in Nat \ {0}
  BY TimerBytes DEF T!Timer, T!Byte
<1>2. T!MaxWord \in Nat
  <2>1. ByteSize * ByteSize \in Nat /\ ByteSize * ByteSize >= 1
    BY TimerBytes, SMT
  <2> QED BY <2>1, SMT DEF T!MaxWord
<1>3. t.frc \in Nat
  BY <1>2 DEF T!Timer
<1>4. clock \in Nat \ {0}
  BY <1>1, TimerBytes
<1>5. \A x \in Nat, y \in Nat \ {0} : x \div y \in Int
  OBVIOUS
<1>6. count \in Int
  <2>1. a \in Int /\ b \in Int
    BY <1>3, <1>4, <1>5
  <2>2. t.t2cnt \in Int
    BY <1>1
  <2> HIDE DEF a, b
  <2> QED BY <2>1, <2>2
<1>7. left \in Int
  <2>1. t.tconr \in Int
    BY <1>1
  <2> HIDE DEF count, passed
  <2>2. count - t.tconr \in Int
    BY <1>6, <2>1
  <2>3. CASE passed
    BY <2>2, <2>3
  <2>4. CASE ~passed
    BY <1>6, <2>4
  <2> QED BY <2>3, <2>4
<1>8. left % ByteSize \in T!Byte
  <2>1. \A x \in Int, y \in Nat \ {0} : x % y \in 0 .. y - 1
    OBVIOUS
  <2> HIDE DEF left
  <2> QED BY <1>1, <1>7, <2>1 DEF T!Byte
<1>9. T!t2_inc(t, new) = [t2cnt |-> IF t.tconr \notin T2Counting THEN t.t2cnt
                                  ELSE left % ByteSize,
                        passed |-> passed]
  BY DEF T!t2_inc
<1>10. passed \in BOOLEAN
  BY Zenon
<1> HIDE DEF left, passed
<1> QED BY <1>1, <1>8, <1>9, <1>10

\* timer_inc: a match sets OCF1 and forgets the reading together.
LEMMA IncGood ==
  ASSUME NEW t, Good(t), NEW n \in 1 .. MaxCycles
  PROVE  Good(T!timer_inc(t, n))
<1> DEFINE m1 == t.frc + n >= T!Word(t.ocr1) /\ t.frc < T!Word(t.ocr1)
           m2 == t.frc + n >= T!Word(t.ocr2) /\ t.frc < T!Word(t.ocr2)
           frc == (t.frc + n) % (T!MaxWord + 1)
           t2 == T!t2_inc(t, t.frc + n)
           u == T!timer_inc(t, n)
<1>1. T!MaxWord \in Nat
  <2>1. ByteSize * ByteSize \in Nat /\ ByteSize * ByteSize >= 1
    BY TimerBytes, SMT
  <2> QED BY <2>1, SMT DEF T!MaxWord
<1>2. t.frc + n \in Nat
  <2>1. t.frc \in Nat
    BY <1>1 DEF Good, Typed, T!Timer
  <2> QED BY <1>1, <2>1, TimerBytes
<1>3. frc \in 0 .. T!MaxWord
  <2>1. \A a, m \in Nat : a % (m + 1) \in 0 .. m
    OBVIOUS
  <2> QED BY <1>1, <1>2, <2>1
<1>4. u = [t EXCEPT !.frc = frc,
                    !.tcsr1 = IF m1 THEN @ \cup {T!OCF1} ELSE @,
                    !.tcsr_is_read = @ /\ ~m1,
                    !.match1 = IF m1 THEN "unread" ELSE @,
                    !.tcsr2 = IF m2 THEN @ \cup {T!OCF2} ELSE @,
                    !.tcsr2_is_read = @ /\ ~m2 /\ ~t2.passed,
                    !.match2 = IF m2 THEN "unread" ELSE @,
                    !.t2cnt = t2.t2cnt,
                    !.cmf = @ \/ t2.passed]
  BY DEF T!timer_inc
<1>5. /\ t.tcsr_is_read \in BOOLEAN /\ t.tcsr2_is_read \in BOOLEAN /\ t.cmf \in BOOLEAN
      /\ t2.t2cnt \in T!Byte /\ t2.passed \in BOOLEAN
  BY <1>2, T2Typed DEF Good, Typed, T!Timer
<1> DEFINE is_read2 == IF m2 \/ t2.passed THEN FALSE ELSE t.tcsr2_is_read
           cmf == IF t2.passed THEN TRUE ELSE t.cmf
<1>6. /\ (t.tcsr_is_read /\ ~m1) = IF m1 THEN FALSE ELSE t.tcsr_is_read
      /\ (t.tcsr2_is_read /\ ~m2 /\ ~t2.passed) = is_read2
      /\ (t.cmf \/ t2.passed) = cmf
      /\ is_read2 \in BOOLEAN /\ cmf \in BOOLEAN
  BY <1>5, Zenon
<1> HIDE DEF m1, m2, frc, u, t2, is_read2, cmf
<1>7. u = [t EXCEPT !.frc = frc,
                    !.tcsr1 = IF m1 THEN @ \cup {T!OCF1} ELSE @,
                    !.tcsr_is_read = IF m1 THEN FALSE ELSE @,
                    !.match1 = IF m1 THEN "unread" ELSE @,
                    !.tcsr2 = IF m2 THEN @ \cup {T!OCF2} ELSE @,
                    !.tcsr2_is_read = is_read2,
                    !.match2 = IF m2 THEN "unread" ELSE @,
                    !.t2cnt = t2.t2cnt,
                    !.cmf = cmf]
  BY <1>4, <1>6, Zenon
<1>8. Typed(u)
  <2>1. t \in T!Timer /\ {T!ICF, T!TOF} \cap t.tcsr1 = {} /\ t.tcsr2 \subseteq {T!OCF2}
    BY DEF Good, Typed
  <2>2. /\ u.frc = frc /\ u.ocr1 = t.ocr1 /\ u.ocr2 = t.ocr2
        /\ u.tcsr1 = IF m1 THEN t.tcsr1 \cup {T!OCF1} ELSE t.tcsr1
        /\ u.tcsr2 = IF m2 THEN t.tcsr2 \cup {T!OCF2} ELSE t.tcsr2
    BY <1>7, <2>1 DEF T!Timer
  <2>3. u.tcsr1 \in SUBSET T!TcsrBit /\ u.tcsr2 \in SUBSET T!TcsrBit
    BY <2>1, <2>2 DEF T!Timer
  <2>4. /\ u.tcsr_is_read \in BOOLEAN /\ u.tcsr2_is_read \in BOOLEAN
        /\ u.match1 \in T!Match /\ u.match2 \in T!Match
        /\ u.t2cnt \in T!Byte /\ u.tconr \in T!Byte /\ u.cmf \in BOOLEAN
    BY <1>5, <1>6, <1>7, <2>1 DEF T!Timer, T!Match
  <2>5. u.ocr1 \in [hi : T!Byte, lo : T!Byte] /\ u.ocr2 \in [hi : T!Byte, lo : T!Byte]
    BY <2>1, <2>2 DEF T!Timer
  <2>6. u = [tcsr1 |-> u.tcsr1, tcsr2 |-> u.tcsr2,
             tcsr_is_read |-> u.tcsr_is_read, tcsr2_is_read |-> u.tcsr2_is_read,
             frc |-> u.frc, ocr1 |-> u.ocr1, ocr2 |-> u.ocr2,
             match1 |-> u.match1, match2 |-> u.match2,
             t2cnt |-> u.t2cnt, tconr |-> u.tconr, cmf |-> u.cmf]
    BY <1>7, <2>1 DEF T!Timer
  <2>7. u \in T!Timer
    BY <1>3, <2>2, <2>3, <2>4, <2>5, <2>6 DEF T!Timer
  <2>8. {T!ICF, T!TOF} \cap u.tcsr1 = {} /\ u.tcsr2 \subseteq {T!OCF2}
    BY <2>1, <2>2
  <2> QED BY <2>7, <2>8 DEF Typed
<1>9. Exact(u)
  BY <1>7 DEF Good, Typed, Exact, T!Timer, T!Match
<1> QED BY <1>8, <1>9 DEF Good, u

-----------------------------------------------------------------------------
(* The steps of the timer.                                                 *)

TimerInv == Good(timer)

LEMMA TimerInit == T!Init => TimerInv
<1> SUFFICES ASSUME T!Init PROVE TimerInv
  OBVIOUS
<1>1. 0 \in T!Byte /\ 0 \in 0 .. T!MaxWord
  <2>1. ByteSize * ByteSize >= 1
    BY TimerBytes, SMT
  <2> QED BY <2>1, TimerBytes, SMT DEF T!Byte, T!MaxWord
<1> QED BY <1>1 DEF T!Init, TimerInv, Good, Typed, Exact, T!Timer, T!Match

\* Every instruction that accesses the timer leaves good registers to timer_inc, with the counter,
\* TCSR2 and OCF1 as it keeps them.
LEMMA AccessEnds ==
  ASSUME TimerInv, T!access
  PROVE  \E t : Good(t) /\ Keeps(timer, t) /\ T!ends_with(t)
<1>1. Good(timer) /\ \A t : Good(t) => t \in T!Timer
  BY DEF TimerInv, Good, Typed
<1>2. CASE T!read_tcsr1
  BY <1>1, <1>2, ReadGood, AccessKeeps DEF T!read_tcsr1
<1>3. CASE T!read_tcsr2
  BY <1>1, <1>3, ReadGood, AccessKeeps DEF T!read_tcsr2
<1>4. ASSUME NEW v \in SUBSET WrittenBits,
             T!write_tcsr1(v) \/ T!write_tcsr2(v) \/ T!modify_tcsr1(v) \/ T!modify_tcsr2(v)
      PROVE  \E t : Good(t) /\ Keeps(timer, t) /\ T!ends_with(t)
  <2>1. v \in SUBSET T!TcsrBit
    BY TimerBytes
  <2>2. CASE T!write_tcsr1(v) \/ T!write_tcsr2(v)
    <3>1. Good(T!tcsr1_putb(timer, v)) /\ Good(T!tcsr2_putb(timer, v))
      BY <1>1, <2>1, WriteGood
    <3>2. Keeps(timer, T!tcsr1_putb(timer, v)) /\ Keeps(timer, T!tcsr2_putb(timer, v))
      BY <1>1, AccessKeeps
    <3> QED BY <2>2, <3>1, <3>2 DEF T!write_tcsr1, T!write_tcsr2
  <2>3. CASE T!modify_tcsr1(v)
    <3> DEFINE r == T!tcsr1_getb(timer)
    <3>1. Good(r) /\ Keeps(timer, r)
      BY <1>1, ReadGood, AccessKeeps
    <3>2. Good(T!tcsr1_putb(r, v)) /\ Keeps(r, T!tcsr1_putb(r, v))
      BY <1>1, <2>1, <3>1, WriteGood, AccessKeeps
    <3>3. T!ends_with(T!tcsr1_putb(r, v))
      BY <2>3 DEF T!modify_tcsr1
    <3> QED BY <3>1, <3>2, <3>3, KeepsTransitive
  <2>4. CASE T!modify_tcsr2(v)
    <3> DEFINE r == T!tcsr2_getb(timer)
    <3>1. Good(r) /\ Keeps(timer, r)
      BY <1>1, ReadGood, AccessKeeps
    <3>2. Good(T!tcsr2_putb(r, v)) /\ Keeps(r, T!tcsr2_putb(r, v))
      BY <1>1, <2>1, <3>1, WriteGood, AccessKeeps
    <3>3. T!ends_with(T!tcsr2_putb(r, v))
      BY <2>4 DEF T!modify_tcsr2
    <3> QED BY <3>1, <3>2, <3>3, KeepsTransitive
  <2> QED BY <1>4, <2>2, <2>3, <2>4
<1>5. ASSUME NEW half \in {"hi", "lo"}, NEW b \in WrittenBytes,
             T!write_ocr1(half, b) \/ T!write_ocr2(half, b)
      PROVE  \E t : Good(t) /\ Keeps(timer, t) /\ T!ends_with(t)
  <2>1. Good(T!ocr1_putb(timer, half, b)) /\ Good(T!iram_ocr2(timer, half, b))
    BY <1>1, TimerBytes, CompareGood
  <2>2. Keeps(timer, T!ocr1_putb(timer, half, b)) /\ Keeps(timer, T!iram_ocr2(timer, half, b))
    BY <1>1, AccessKeeps
  <2> QED BY <1>5, <2>1, <2>2 DEF T!write_ocr1, T!write_ocr2
<1>6. ASSUME NEW hi \in WrittenBytes, NEW lo \in WrittenBytes, T!write_ocr1_word(hi, lo)
      PROVE  \E t : Good(t) /\ Keeps(timer, t) /\ T!ends_with(t)
  <2> DEFINE h == T!ocr1_putb(timer, "hi", hi)
  <2>1. Good(h) /\ Keeps(timer, h)
    BY <1>1, TimerBytes, CompareGood, AccessKeeps
  <2>2. Good(T!ocr1_putb(h, "lo", lo)) /\ Keeps(h, T!ocr1_putb(h, "lo", lo))
    BY <1>1, <2>1, TimerBytes, CompareGood, AccessKeeps
  <2>3. T!ends_with(T!ocr1_putb(h, "lo", lo))
    BY <1>6 DEF T!write_ocr1_word
  <2> QED BY <2>1, <2>2, <2>3, KeepsTransitive
<1>7. ASSUME NEW hi \in WrittenBytes, NEW lo \in WrittenBytes, T!write_ocr2_word(hi, lo)
      PROVE  \E t : Good(t) /\ Keeps(timer, t) /\ T!ends_with(t)
  <2> DEFINE h == T!iram_ocr2(timer, "hi", hi)
  <2>1. Good(h) /\ Keeps(timer, h)
    BY <1>1, TimerBytes, CompareGood, AccessKeeps
  <2>2. Good(T!iram_ocr2(h, "lo", lo)) /\ Keeps(h, T!iram_ocr2(h, "lo", lo))
    BY <1>1, <2>1, TimerBytes, CompareGood, AccessKeeps
  <2>3. T!ends_with(T!iram_ocr2(h, "lo", lo))
    BY <1>7 DEF T!write_ocr2_word
  <2> QED BY <2>1, <2>2, <2>3, KeepsTransitive
<1>8. ASSUME NEW b \in WrittenT2, T!write_tconr(b) \/ T!write_t2cnt(b) \/ T!write_tcsr3(b)
      PROVE  \E t : Good(t) /\ Keeps(timer, t) /\ T!ends_with(t)
  <2>1. /\ Good([timer EXCEPT !.tconr = b])
        /\ Good([timer EXCEPT !.t2cnt = b])
        /\ Good([timer EXCEPT !.cmf = 2 * b >= ByteSize])
    <3>1. b \in T!Byte
      BY TimerBytes
    <3>2. (2 * b >= ByteSize) \in BOOLEAN
      BY <3>1, TimerBytes, SMT DEF T!Byte
    <3> QED BY <1>1, <3>1, <3>2 DEF Good, Typed, Exact, T!Timer
  <2>2. /\ Keeps(timer, [timer EXCEPT !.tconr = b])
        /\ Keeps(timer, [timer EXCEPT !.t2cnt = b])
        /\ Keeps(timer, [timer EXCEPT !.cmf = 2 * b >= ByteSize])
    BY <1>1, AccessKeeps
  <2> QED BY <1>8, <2>1, <2>2 DEF T!write_tconr, T!write_t2cnt, T!write_tcsr3
<1>9. ASSUME NEW lo \in WrittenBytes, NEW b \in WrittenT2, T!write_ocr2_tcsr3(lo, b)
      PROVE  \E t : Good(t) /\ Keeps(timer, t) /\ T!ends_with(t)
  <2> DEFINE l == T!iram_ocr2(timer, "lo", lo)
             u == [l EXCEPT !.cmf = 2 * b >= ByteSize]
  <2>1. Good(l) /\ Keeps(timer, l)
    BY <1>1, TimerBytes, CompareGood, AccessKeeps
  <2>2. T!ends_with(u)
    BY <1>9 DEF T!write_ocr2_tcsr3
  <2> HIDE DEF l
  <2>3. (2 * b >= ByteSize) \in BOOLEAN
    BY TimerBytes, SMT DEF T!Byte
  <2>4. Good(u)
    BY <2>1, <2>3 DEF Good, Typed, Exact, T!Timer
  <2>5. Keeps(l, u)
    BY <1>1, <2>1, AccessKeeps
  <2> HIDE DEF u
  <2> QED BY <2>1, <2>2, <2>4, <2>5, KeepsTransitive
<1>10. ASSUME NEW b \in WrittenT2, NEW c \in WrittenT2,
              T!write_tcsr3_tconr(b, c) \/ T!write_tconr_t2cnt(b, c)
       PROVE  \E t : Good(t) /\ Keeps(timer, t) /\ T!ends_with(t)
  <2>1. /\ Good([timer EXCEPT !.cmf = 2 * b >= ByteSize, !.tconr = c])
        /\ Good([timer EXCEPT !.tconr = b, !.t2cnt = c])
    <3>1. b \in T!Byte /\ c \in T!Byte
      BY TimerBytes
    <3>2. (2 * b >= ByteSize) \in BOOLEAN
      BY <3>1, TimerBytes, SMT DEF T!Byte
    <3> QED BY <1>1, <3>1, <3>2 DEF Good, Typed, Exact, T!Timer
  <2>2. /\ Keeps(timer, [timer EXCEPT !.cmf = 2 * b >= ByteSize, !.tconr = c])
        /\ Keeps(timer, [timer EXCEPT !.tconr = b, !.t2cnt = c])
    BY <1>1, AccessKeeps
  <2> QED BY <1>10, <2>1, <2>2 DEF T!write_tcsr3_tconr, T!write_tconr_t2cnt
<1> QED
  BY <1>2, <1>3, <1>4, <1>5, <1>6, <1>7, <1>8, <1>9, <1>10 DEF T!access

\* A step is an instruction, which ends with timer_inc, or leaves the counter and the flags alone.
LEMMA TimerStepEnds ==
  ASSUME TimerInv, [T!Next]_timer
  PROVE  \/ \E t : Good(t) /\ Keeps(timer, t) /\ T!ends_with(t)
         \/ Good(timer') /\ Keeps(timer, timer')
<1>1. Good(timer) /\ \A t : Good(t) => t \in T!Timer
  BY DEF TimerInv, Good, Typed
<1>2. CASE T!access
  BY <1>2, AccessEnds
<1>3. CASE T!tick
  BY <1>1, <1>3, AccessKeeps DEF T!tick
<1>4. CASE T!dump
  <2>1. Good(T!tcsr1_getb(timer)) /\ Good(T!tcsr2_getb(timer))
    BY <1>1, ReadGood
  <2>2. Good(T!tcsr2_getb(T!tcsr1_getb(timer)))
    BY <2>1, ReadGood
  <2>3. /\ Keeps(timer, T!tcsr1_getb(timer)) /\ Keeps(timer, T!tcsr2_getb(timer))
        /\ Keeps(T!tcsr1_getb(timer), T!tcsr2_getb(T!tcsr1_getb(timer)))
    BY <1>1, <2>1, AccessKeeps
  <2>4. Keeps(timer, T!tcsr2_getb(T!tcsr1_getb(timer)))
    BY <2>3, KeepsTransitive
  <2> QED BY <1>4, <2>1, <2>2, <2>3, <2>4 DEF T!dump
<1>5. CASE UNCHANGED timer
  BY <1>1, <1>5 DEF Keeps
<1> QED BY <1>2, <1>3, <1>4, <1>5 DEF T!Next

LEMMA TimerNext == TimerInv /\ [T!Next]_timer => TimerInv'
BY TimerStepEnds, IncGood DEF T!ends_with, TimerInv

\* The invariant that the two theorems below are parts of.
THEOREM TimerSpecInv == T!Spec => []TimerInv
<1>1. T!Init => TimerInv
  BY TimerInit
<1>2. TimerInv /\ [T!Next]_timer => TimerInv'
  BY TimerNext
<1> QED BY <1>1, <1>2, PTL DEF T!Spec

\* The registers keep their widths, no instruction or dump sets ICF or TOF, and TCSR2 holds
\* OCF2 at most: its enable bit is never set, so that OCF2 interrupts nobody.
THEOREM TimerSpecTypeOK == T!Spec => []T!TypeOK
<1>1. TimerInv => T!TypeOK
  BY DEF TimerInv, Good, Typed, T!TypeOK
<1> QED BY <1>1, TimerSpecInv, PTL

\* OCF1 is set exactly while a match is not acknowledged.
THEOREM TimerSpecOcf1Exact == T!Spec => []T!Ocf1Exact
<1>1. TimerInv => T!Ocf1Exact
  BY DEF TimerInv, Good, Exact, T!Ocf1Exact
<1> QED BY <1>1, TimerSpecInv, PTL

-----------------------------------------------------------------------------
(* What a step may do to OCF1 and OCF2.                                    *)

\* The two properties, of the registers before and after timer_inc.
MatchUnlessWrapIn(t, u) ==
  LET matched == u.frc > t.frc /\ T!Word(u.ocr1) \in t.frc + 1 .. u.frc
  IN  /\ matched => T!OCF1 \in u.tcsr1
      /\ T!OCF1 \in u.tcsr1 \ t.tcsr1 => matched \/ (u.frc < t.frc /\ T!Word(u.ocr1) > t.frc)

Ocf2StaysIn(t, u) == T!OCF2 \in t.tcsr2 => T!OCF2 \in u.tcsr2

\* What timer_inc does to the counter and to OCF1: the counter comes out above where it was
\* exactly when it does not wrap.
LEMMA IncMatches ==
  ASSUME NEW t, Good(t), NEW n \in 1 .. MaxCycles
  PROVE  MatchUnlessWrapIn(t, T!timer_inc(t, n)) /\ Ocf2StaysIn(t, T!timer_inc(t, n))
<1> DEFINE u == T!timer_inc(t, n)
           w == T!Word(t.ocr1)
           m1 == t.frc + n >= w /\ t.frc < w
<1>1. /\ u.frc = (t.frc + n) % (T!MaxWord + 1) /\ u.ocr1 = t.ocr1
      /\ u.tcsr1 = IF m1 THEN t.tcsr1 \cup {T!OCF1} ELSE t.tcsr1
      /\ T!OCF2 \in t.tcsr2 => T!OCF2 \in u.tcsr2
  BY DEF T!timer_inc, Good, Typed, T!Timer
<1>2. T!MaxWord \in Nat
  <2>1. ByteSize * ByteSize \in Nat /\ ByteSize * ByteSize >= 1
    BY TimerBytes, SMT
  <2> QED BY <2>1, SMT DEF T!MaxWord
<1>3. t.frc \in 0 .. T!MaxWord /\ n \in 1 .. T!MaxWord
  BY <1>2, TimerBytes DEF Good, Typed, T!Timer
<1>4. w \in Nat
  <2>1. t.ocr1.hi \in Nat /\ t.ocr1.lo \in Nat /\ ByteSize \in Nat
    BY TimerBytes DEF Good, Typed, T!Timer, T!Byte
  <2>2. t.ocr1.hi * ByteSize \in Nat
    BY <2>1, SMT
  <2> QED BY <2>1, <2>2 DEF T!Word
<1>5. /\ t.frc + n <= T!MaxWord => u.frc = t.frc + n
      /\ t.frc + n > T!MaxWord => u.frc = t.frc + n - (T!MaxWord + 1)
  <2>1. \A a, m \in Nat : a <= m => a % (m + 1) = a
    OBVIOUS
  <2>2. \A a, m \in Nat : a > m /\ a <= 2 * m => a % (m + 1) = a - (m + 1)
    OBVIOUS
  <2>3. t.frc + n \in Nat /\ t.frc + n <= 2 * T!MaxWord
    BY <1>2, <1>3
  <2> HIDE DEF u
  <2> DEFINE a == t.frc + n
  <2>4. a \in Nat /\ a <= 2 * T!MaxWord /\ u.frc = a % (T!MaxWord + 1)
    BY <1>1, <2>3
  <2> HIDE DEF a
  <2>5. a <= T!MaxWord => u.frc = a
    BY <1>2, <2>1, <2>4
  <2>6. a > T!MaxWord => u.frc = a - (T!MaxWord + 1)
    BY <1>2, <2>2, <2>4
  <2> QED BY <1>2, <1>3, <2>3, <2>5, <2>6 DEF a
<1>6. w = T!Word(u.ocr1)
  BY <1>1
<1> HIDE DEF u, w
<1>7. ASSUME t.frc + n <= T!MaxWord PROVE MatchUnlessWrapIn(t, u)
  BY <1>1, <1>2, <1>3, <1>4, <1>5, <1>6, <1>7 DEF MatchUnlessWrapIn
<1>8. ASSUME t.frc + n > T!MaxWord PROVE MatchUnlessWrapIn(t, u)
  BY <1>1, <1>2, <1>3, <1>4, <1>5, <1>6, <1>8 DEF MatchUnlessWrapIn
<1>9. Ocf2StaysIn(t, u)
  BY <1>1 DEF Ocf2StaysIn
<1> QED BY <1>2, <1>3, <1>7, <1>8, <1>9 DEF u

\* Both action properties, of a step from a good timer.
LEMMA TimerStepMatches ==
  TimerInv /\ [T!Next]_timer => T!MatchUnlessWrapAction /\ T!Ocf2NeverFallsAction
<1> SUFFICES ASSUME TimerInv, [T!Next]_timer
             PROVE  T!MatchUnlessWrapAction /\ T!Ocf2NeverFallsAction
  OBVIOUS
<1>1. ASSUME NEW t, Good(t), Keeps(timer, t), T!ends_with(t)
      PROVE  T!MatchUnlessWrapAction /\ T!Ocf2NeverFallsAction
  <2>1. PICK n \in 1 .. MaxCycles : timer' = T!timer_inc(t, n)
    BY <1>1 DEF T!ends_with
  <2>2. /\ t.frc = timer.frc /\ t.tcsr2 = timer.tcsr2
        /\ T!OCF1 \in t.tcsr1 => T!OCF1 \in timer.tcsr1
    BY <1>1 DEF Keeps
  <2> QED BY <1>1, <2>1, <2>2, IncMatches
         DEF MatchUnlessWrapIn, Ocf2StaysIn, T!MatchUnlessWrapAction, T!Ocf2NeverFallsAction
<1>2. CASE Good(timer') /\ Keeps(timer, timer')
  <2>1. ~(timer'.frc > timer.frc)
    <3>1. timer.frc \in Int
      BY DEF TimerInv, Good, Typed, T!Timer
    <3> QED BY <1>2, <3>1 DEF Keeps
  <2> QED BY <1>2, <2>1 DEF Keeps, T!MatchUnlessWrapAction, T!Ocf2NeverFallsAction
<1> QED BY <1>1, <1>2, TimerStepEnds

\* An instruction that takes the counter to the value of OCR1 or past it, without a wrap, sets
\* OCF1, and no other instruction does; no reading or writing of registers sets it.
THEOREM TimerSpecMatchUnlessWrap == T!Spec => [][T!MatchUnlessWrapAction]_timer
<1> QED BY TimerStepMatches, TimerSpecInv, PTL DEF T!Spec

\* OCF2 stays set once it is, whatever the program reads and writes.
THEOREM TimerSpecOcf2NeverFalls == T!Spec => [][T!Ocf2NeverFallsAction]_timer
<1> QED BY TimerStepMatches, TimerSpecInv, PTL DEF T!Spec
-----------------------------------------------------------------------------
(* The chip's steps, as the timer sees them.                               *)

\* An instruction or an interrupt is an access or a tick, a dump is a dump, and what is received
\* leaves the timer alone.
LEMMA StepIsTimers == [Next]_vars => [T!Next]_timer
<1> SUFFICES ASSUME [Next]_vars PROVE T!Next \/ UNCHANGED timer
  OBVIOUS
<1>1. CASE instr_exec
  <2>1. T!tick \/ T!access
    BY <1>1 DEF instr_exec, interrupt, timer_access, write_trcsr, write_tdr, read_rdr,
       set_iflag, rti
  <2> QED BY <2>1 DEF T!Next
<1>2. CASE dump
  BY <1>2 DEF dump, T!Next
<1>3. CASE sci_in
  BY <1>3 DEF sci_in
<1>4. CASE UNCHANGED vars
  BY <1>4 DEF vars
<1> QED BY <1>1, <1>2, <1>3, <1>4 DEF Next

\* Whatever the program, the interrupts, the serial interface and the monitor do, the chip's
\* timer behaves as module Timer6303 says.
THEOREM SpecImplementsTimer == Spec => T!Spec
<1>1. Init => T!Init
  BY DEF Init
<1> QED BY <1>1, StepIsTimers, PTL DEF Spec, T!Spec

\* What holds of the timer holds of the chip's.
LEMMA SpecTimerOK == Spec => [](T!Ocf1Exact /\ T!TypeOK)
BY TimerSpecOcf1Exact, TimerSpecTypeOK, SpecImplementsTimer, PTL

\* In the chip, whatever interrupts it and whatever the monitor dumps, OCF1 is set exactly while
\* a match of OCR1 is not acknowledged.
THEOREM SpecOcf1Exact == Spec => []Ocf1Exact
<1> QED BY SpecTimerOK, PTL DEF Ocf1Exact

\* In the chip, whatever interrupts it, an instruction that takes the counter to OCR1 or past it
\* without a wrap sets OCF1, and no other step does.
THEOREM SpecMatchUnlessWrap == Spec => MatchUnlessWrap
BY TimerSpecMatchUnlessWrap, SpecImplementsTimer, PTL DEF MatchUnlessWrap

\* No step of the chip clears OCF2.
THEOREM SpecOcf2NeverFalls == Spec => Ocf2NeverFalls
BY TimerSpecOcf2NeverFalls, SpecImplementsTimer, PTL DEF Ocf2NeverFalls

-----------------------------------------------------------------------------
(* The serial interface and the interrupts.                                *)

\* TypeOK without the timer's.
ChipTyped ==
  /\ trcsr \subseteq {TIE, RIE} /\ rxinterrupts \in 0 .. MaxRx /\ txinterrupts \in BOOLEAN
  /\ iflag \in BOOLEAN
  /\ handlers \in Seq(Handler) /\ Len(handlers) <= MaxNest
  /\ Len(handlers) = MaxNest => iflag

IInv == ChipTyped /\ TxFollowsTie

\* Nothing received, no handler active.
LEMMA InitInv == Init => IInv
<1> SUFFICES ASSUME Init PROVE IInv
  OBVIOUS
<1>1. handlers \in Seq(Handler) /\ Len(handlers) = 0
  BY DEF Init
<1>2. 0 \in 0 .. MaxRx /\ 0 <= MaxNest
  BY NestAssumption
<1> QED BY <1>1, <1>2 DEF Init, IInv, ChipTyped, TxFollowsTie

\* The entry of an interrupt stacks one handler, with the I bit set.
LEMMA InterruptKeeps == IInv /\ interrupt => IInv'
<1> SUFFICES ASSUME IInv, interrupt PROVE IInv'
  OBVIOUS
<1> DEFINE h == [vector |-> vector, iflag |-> iflag]
<1>1. h \in Handler
  BY DEF IInv, ChipTyped, interrupt, Interrupted, vector, Vector, Handler
<1>2. handlers' = Append(handlers, h) /\ iflag' = TRUE /\ UNCHANGED serial_vars
  BY DEF interrupt
<1>3. Len(handlers) < MaxNest
  <2>1. Len(handlers) \in Nat /\ Len(handlers) <= MaxNest /\ Len(handlers) # MaxNest
    BY DEF IInv, ChipTyped, interrupt, Interrupted
  <2> QED BY <2>1, NestAssumption
<1> HIDE DEF h
<1>4. handlers' \in Seq(Handler) /\ Len(handlers') <= MaxNest
  <2>1. handlers \in Seq(Handler) /\ Len(handlers) \in Nat
    BY DEF IInv, ChipTyped
  <2>2. handlers' \in Seq(Handler) /\ Len(handlers') = Len(handlers) + 1
    BY <1>1, <1>2, <2>1
  <2> QED BY <1>3, <2>1, <2>2, NestAssumption
<1> QED BY <1>2, <1>4 DEF IInv, ChipTyped, TxFollowsTie, serial_vars

\* RTI takes the handler away.
LEMMA RtiKeeps == IInv /\ rti => IInv'
<1> SUFFICES ASSUME IInv, rti PROVE IInv'
  OBVIOUS
<1> DEFINE n == Len(handlers)
<1>1. handlers \in Seq(Handler) /\ n \in Nat /\ n <= MaxNest /\ handlers # <<>>
  BY DEF IInv, ChipTyped, rti
<1>2. n >= 1
  BY <1>1
<1>3. handlers[n] \in Handler
  BY <1>1, <1>2
<1>4. iflag' = handlers[n].iflag /\ handlers' = SubSeq(handlers, 1, n - 1) /\ UNCHANGED serial_vars
  BY DEF rti
<1>5. iflag' \in BOOLEAN
  BY <1>3, <1>4 DEF Handler
<1>6. handlers' \in Seq(Handler) /\ Len(handlers') = n - 1
  <2> HIDE DEF n
  <2>1. n = Len(handlers)
    BY DEF n
  <2> QED BY <1>1, <1>2, <1>4, <2>1
<1>7. Len(handlers') <= MaxNest /\ Len(handlers') # MaxNest
  BY <1>1, <1>6, NestAssumption
<1> QED BY <1>4, <1>5, <1>6, <1>7 DEF IInv, ChipTyped, TxFollowsTie, serial_vars

\* Every action, and a stutter.
LEMMA StepInv == IInv /\ [Next]_vars => IInv'
<1> SUFFICES ASSUME IInv, [Next]_vars PROVE IInv'
  OBVIOUS
<1> USE DEF IInv, ChipTyped, TxFollowsTie
<1>1. CASE interrupt
  BY <1>1, InterruptKeeps
<1>2. CASE rti
  BY <1>2, RtiKeeps
<1>3. CASE timer_access \/ dump
  <2> HIDE DEF IInv, ChipTyped, TxFollowsTie
  <2>1. UNCHANGED <<trcsr, rxinterrupts, txinterrupts, iflag, handlers>>
    BY <1>3 DEF timer_access, dump, serial_vars, cpu_vars
  <2> QED BY <2>1 DEF IInv, ChipTyped, TxFollowsTie
<1>4. ASSUME NEW v \in SUBSET {TIE, RIE}, write_trcsr(v) PROVE IInv'
  <2>1. trcsr' = v /\ txinterrupts' = (TIE \in v) /\ UNCHANGED <<rxinterrupts, iflag, handlers>>
    BY <1>4 DEF write_trcsr, trcsr_putb, cpu_vars
  <2>2. txinterrupts' <=> TIE \in v
    BY <2>1
  <2>3. txinterrupts' \in BOOLEAN
    <3>1. (TIE \in v) \in BOOLEAN
      OBVIOUS
    <3> QED BY <2>1, <3>1
  <2> QED BY <2>1, <2>2, <2>3
<1>5. CASE write_tdr
  BY <1>5 DEF write_tdr, tdr_putb, cpu_vars
<1>6. CASE read_rdr
  <2>1. rxinterrupts' \in 0 .. MaxRx
    BY <1>6, NestAssumption DEF read_rdr
  <2> QED BY <1>6, <2>1 DEF read_rdr, cpu_vars
<1>7. ASSUME NEW b \in BOOLEAN, set_iflag(b) PROVE IInv'
  <2>1. iflag' = b /\ UNCHANGED <<serial_vars, handlers>> /\ (b \/ Len(handlers) # MaxNest)
    <3>1. Len(handlers) < MaxNest => Len(handlers) # MaxNest
      BY NestAssumption
    <3> QED BY <1>7, <3>1 DEF set_iflag
  <2> QED BY <2>1 DEF serial_vars
<1>8. CASE sci_in
  <2>1. rxinterrupts' \in 0 .. MaxRx
    BY <1>8, NestAssumption DEF sci_in
  <2> QED BY <1>8, <2>1 DEF sci_in, cpu_vars
<1>9. CASE UNCHANGED vars
  BY <1>9 DEF vars, serial_vars, cpu_vars
<1> QED BY <1>1, <1>2, <1>3, <1>4, <1>5, <1>6, <1>7, <1>8, <1>9 DEF Next, instr_exec

\* The chip's state keeps its type: no more handlers and bytes than its bounds.
THEOREM SpecTypeOK == Spec => []TypeOK
<1>1. IInv /\ T!TypeOK => TypeOK
  BY DEF IInv, ChipTyped, TypeOK
<1> QED BY <1>1, InitInv, StepInv, SpecTimerOK, PTL DEF Spec

\* A transmit interrupt is outstanding exactly while TIE is set, whichever way the program
\* writes TRCSR and TDR and whatever interrupts it.
THEOREM SpecTxFollowsTie == Spec => []TxFollowsTie
<1>1. IInv => TxFollowsTie
  BY DEF IInv
<1> QED BY <1>1, InitInv, StepInv, PTL DEF Spec

\* A compare interrupt is entered only for a match of OCR1 that is not acknowledged: OCF2 never
\* interrupts, for no write reaches its enable bit.
THEOREM SpecCompareInterruptHasMatch == Spec => CompareInterruptHasMatch
<1> DEFINE A == Len(handlers') > Len(handlers)
                  /\ handlers'[Len(handlers')].vector = "OCFVECTOR" => timer.match1 # "none"
<1>1. ASSUME ChipTyped, T!Ocf1Exact, T!TypeOK, Next PROVE A
  <2>1. handlers \in Seq(Handler) /\ Len(handlers) \in Nat
    BY <1>1 DEF ChipTyped
  <2>2. CASE interrupt
    <3>1. handlers' = Append(handlers, [vector |-> vector, iflag |-> iflag])
      BY <2>2 DEF interrupt
    <3>2. handlers'[Len(handlers')].vector = vector
      BY <2>1, <3>1
    <3>3. vector = "OCFVECTOR" => timer.match1 # "none"
      BY <1>1 DEF vector, T!TypeOK, T!Ocf1Exact, T!OCF1, T!OCF2, T!EOCI2
    <3> QED BY <3>2, <3>3
  <2>3. CASE rti
    <3>1. handlers # <<>> /\ handlers' = SubSeq(handlers, 1, Len(handlers) - 1)
      BY <2>3 DEF rti
    <3>2. Len(handlers) - 1 \in 0 .. Len(handlers)
      BY <2>1, <3>1, EmptySeq
    <3>3. Len(handlers') = Len(handlers) - 1
      <4> DEFINE m == Len(handlers) - 1
      <4>1. m \in 0 .. Len(handlers)
        BY <3>2
      <4> HIDE DEF m
      <4>2. Len(SubSeq(handlers, 1, m)) = m
        BY <2>1, <4>1, SubSeqProperties
      <4> QED BY <3>1, <4>2 DEF m
    <3> QED BY <2>1, <3>3
  <2>4. CASE UNCHANGED handlers
    BY <2>1, <2>4
  <2>5. interrupt \/ rti \/ UNCHANGED handlers
    BY <1>1 DEF Next, instr_exec, timer_access, write_trcsr, write_tdr, read_rdr, set_iflag,
       dump, sci_in, cpu_vars
  <2> QED BY <2>2, <2>3, <2>4, <2>5
<1>2. IInv => ChipTyped
  BY DEF IInv
<1>3. ChipTyped /\ T!Ocf1Exact /\ T!TypeOK /\ [Next]_vars => [A]_vars
  BY <1>1
<1> QED BY <1>2, <1>3, InitInv, StepInv, SpecTimerOK, PTL DEF Spec, CompareInterruptHasMatch

\* With the I bit clear and a match that interrupts, an instruction is the step into its handler.
LEMMA CompareTaken ==
  ASSUME IInv, T!Ocf1Exact, T!TypeOK,
         ~iflag, T!EOCI1 \in timer.tcsr1, timer.match1 # "none", instr_exec
  PROVE  \E i \in 1 .. Len(handlers') : handlers'[i].vector = "OCFVECTOR"
<1>1. vector = "OCFVECTOR" /\ Interrupted
  <2>1. {T!OCF1, T!EOCI1} \subseteq timer.tcsr1 /\ ~({T!ICF, T!EICI} \subseteq timer.tcsr1)
    BY DEF T!Ocf1Exact, T!TypeOK
  <2> QED BY <2>1 DEF vector, Interrupted
<1>2. interrupt
  BY <1>1 DEF instr_exec, timer_access, write_trcsr, write_tdr, read_rdr, set_iflag, rti
<1>3. handlers' = Append(handlers, [vector |-> "OCFVECTOR", iflag |-> iflag])
  BY <1>1, <1>2 DEF interrupt
<1>4. handlers \in Seq(Handler) /\ Len(handlers) \in Nat
  BY DEF IInv, ChipTyped
<1>5. Len(handlers') = Len(handlers) + 1 /\ handlers'[Len(handlers')].vector = "OCFVECTOR"
  BY <1>3, <1>4
<1> QED BY <1>4, <1>5

\* A compare interrupt that stays enabled is served, or acknowledged, on every chip whose program
\* lets interrupts in again and again and whose CPU again and again runs an instruction: the
\* latter is what the fairness of FairSpec gives, for some instruction can always run.
THEOREM SpecCompareServed == Spec /\ []<><<instr_exec>>_vars => CompareServed
<1> DEFINE Inv == IInv /\ T!Ocf1Exact /\ T!TypeOK
           Enabled == T!EOCI1 \in timer.tcsr1
           Matched == timer.match1 # "none"
           Served == \/ timer.match1 = "none"
                     \/ \E i \in 1 .. Len(handlers) : handlers[i].vector = "OCFVECTOR"
<1>1. Inv /\ Enabled /\ Matched /\ ~iflag /\ <<instr_exec>>_vars => Served'
  BY CompareTaken
<1>2. Inv /\ Enabled /\ Matched /\ ~iflag /\ [Next]_vars => (Matched' /\ ~iflag') \/ Served'
  <2> SUFFICES ASSUME Inv, Enabled, Matched, ~iflag, [Next]_vars, ~Served'
               PROVE  Matched' /\ ~iflag'
    OBVIOUS
  <2>1. ~instr_exec
    BY CompareTaken
  <2>2. UNCHANGED iflag
    BY <2>1 DEF Next, dump, sci_in, cpu_vars, vars
  <2> QED BY <2>2
<1>3. Inv /\ Matched /\ [Next]_vars => Matched' \/ Served'
  OBVIOUS
<1>4. Spec => []Inv
  BY InitInv, StepInv, SpecTimerOK, PTL DEF Spec
<1> HIDE DEF Inv, Enabled, Matched, Served
<1>5. Spec /\ []<><<instr_exec>>_vars => ([]<>~iflag /\ <>[]Enabled => (Matched ~> Served))
  BY <1>1, <1>2, <1>3, <1>4, PTL DEF Spec
<1> QED BY <1>5 DEF CompareServed, Enabled, Matched, Served
=============================================================================
