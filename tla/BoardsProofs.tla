----------------------------- MODULE BoardsProofs -----------------------------
(***************************************************************************)
(* The boards, for every number of input bytes, relay boards, width of a   *)
(* byte and program: the I2C bus implements the promise of the             *)
(* potentiometers, and the shift registers of the NCCPU and the NCPAN      *)
(* neither lose nor delay a byte.                                          *)
(***************************************************************************)
EXTENDS MCBoards, SequenceTheorems, TLAPS

-----------------------------------------------------------------------------
(* Bits and bytes.                                                         *)

Bit == {0, 1}
OneByte == [1 .. ByteBits -> Bit]

\* Strings of as many bits are the same when their bits are.
LEMMA SameBits ==
  ASSUME NEW n, NEW a \in [1 .. n -> Bit], NEW b \in [1 .. n -> Bit],
         \A j \in 1 .. n : a[j] = b[j]
  PROVE  a = b
<1>1. a = [j \in 1 .. n |-> a[j]] /\ b = [j \in 1 .. n |-> b[j]]
  OBVIOUS
<1>2. [j \in 1 .. n |-> a[j]] = [j \in 1 .. n |-> b[j]]
  OBVIOUS
<1> QED BY <1>1, <1>2

\* How many bytes l bits are, and how many one more makes.
LEMMA Division ==
  ASSUME NEW l \in Nat
  PROVE  /\ l \div ByteBits \in Nat /\ (l \div ByteBits) * ByteBits <= l
         /\ (l + 1) % ByteBits # 0 => (l + 1) \div ByteBits = l \div ByteBits
         /\ (l + 1) % ByteBits = 0 => /\ (l + 1) \div ByteBits = l \div ByteBits + 1
                                      /\ l + 1 = (l \div ByteBits + 1) * ByteBits
<1> DEFINE B == ByteBits
           q == l \div B
           r == l % B
<1>1. B \in Nat \ {0}
  BY SizesAssumption
<1> HIDE DEF B
<1>2. q \in Nat /\ r \in 0 .. B - 1 /\ l = B * q + r
  BY <1>1, SMT
<1>3. CASE r = B - 1
  <2>1. l + 1 = B * (q + 1)
    BY <1>1, <1>2, <1>3, SMT
  <2>2. \A k \in Nat : (B * k) % B = 0 /\ (B * k) \div B = k
    BY <1>1, SMT
  <2>3. (l + 1) % B = 0 /\ (l + 1) \div B = q + 1
    BY <1>2, <2>1, <2>2
  <2> QED BY <1>1, <1>2, <2>1, <2>3, SMT DEF B
<1>4. CASE r # B - 1
  <2>1. l + 1 = B * q + (r + 1) /\ r + 1 \in 1 .. B - 1
    BY <1>1, <1>2, <1>4, SMT
  <2>2. \A k \in Nat, s \in 0 .. B - 1 : (B * k + s) % B = s /\ (B * k + s) \div B = k
    BY <1>1, SMT
  <2>3. (l + 1) % B = r + 1 /\ (l + 1) \div B = q
    <3> DEFINE s == r + 1
    <3>1. q \in Nat /\ s \in 0 .. B - 1 /\ l + 1 = B * q + s
      BY <1>1, <1>2, <2>1
    <3> HIDE DEF q, s
    <3>2. (l + 1) % B = s /\ (l + 1) \div B = q
      BY <2>2, <3>1
    <3> QED BY <3>2 DEF s
  <2> QED BY <1>1, <1>2, <2>1, <2>3, SMT DEF B
<1> QED BY <1>3, <1>4

\* The bits of the bytes of l bits are among them.
LEMMA Index ==
  ASSUME NEW l \in Nat, NEW i \in 1 .. l \div ByteBits, NEW j \in 1 .. ByteBits
  PROVE  (i - 1) * ByteBits + j \in 1 .. l
<1> DEFINE B == ByteBits
           q == l \div B
<1>1. B \in Nat \ {0} /\ q \in Nat /\ q * B <= l
  BY Division, SizesAssumption
<1>2. i \in 1 .. q /\ j \in 1 .. B
  OBVIOUS
<1> HIDE DEF B, q
<1>3. (i - 1) * B >= 0 /\ (i - 1) * B <= (q - 1) * B /\ (q - 1) * B = q * B - B
  BY <1>1, <1>2, SMT
<1>4. (i - 1) * B \in Int /\ q * B \in Int
  BY <1>1, <1>2, SMT
<1> QED BY <1>1, <1>2, <1>3, <1>4 DEF B

\* The bytes of a sequence of bits.
LEMMA BytesTyped ==
  ASSUME NEW out \in Seq(Bit)
  PROVE  /\ I2c!Bytes(out) \in Seq(OneByte) /\ Len(I2c!Bytes(out)) = Len(out) \div ByteBits
         /\ \A i \in 1 .. Len(out) \div ByteBits, j \in 1 .. ByteBits :
              I2c!Bytes(out)[i][j] = out[(i - 1) * ByteBits + j]
<1> DEFINE n == Len(out) \div ByteBits
           byte(i) == [j \in 1 .. ByteBits |-> out[(i - 1) * ByteBits + j]]
<1>1. n \in Nat
  BY Division
<1>2. I2c!Bytes(out) = [i \in 1 .. n |-> byte(i)]
  BY Zenon DEF I2c!Bytes
<1>3. ASSUME NEW i \in 1 .. n PROVE byte(i) \in OneByte
  BY <1>3, Index DEF OneByte
<1>4. \A i \in 1 .. n, j \in 1 .. ByteBits : I2c!Bytes(out)[i][j] = out[(i - 1) * ByteBits + j]
  BY <1>2
<1> HIDE DEF n, byte
<1>5. I2c!Bytes(out) \in [1 .. n -> OneByte]
  BY <1>2, <1>3
<1>6. I2c!Bytes(out) \in Seq(OneByte) /\ Len(I2c!Bytes(out)) = n
  BY <1>1, <1>5
<1> QED BY <1>4, <1>6 DEF n

\* One more bit makes one more byte, or none.
LEMMA BytesAppend ==
  ASSUME NEW out \in Seq(Bit), NEW bit \in Bit
  PROVE  LET more == Append(out, bit)
         IN  /\ Len(more) % ByteBits # 0 => I2c!Bytes(more) = I2c!Bytes(out)
             /\ Len(more) % ByteBits = 0 =>
                  /\ Len(more) = Len(I2c!Bytes(more)) * ByteBits
                  /\ I2c!Bytes(more) # <<>>
                  /\ I2c!Bytes(more) =
                       Append(I2c!Bytes(out), I2c!Bytes(more)[Len(I2c!Bytes(more))])
<1> DEFINE more == Append(out, bit)
           l == Len(out)
           f == I2c!Bytes(out)
           g == I2c!Bytes(more)
           n == l \div ByteBits
<1>1. more \in Seq(Bit) /\ l \in Nat /\ Len(more) = l + 1 /\ \A i \in 1 .. l : more[i] = out[i]
  OBVIOUS
<1>2. /\ f \in Seq(OneByte) /\ Len(f) = n
      /\ \A i \in 1 .. n, j \in 1 .. ByteBits : f[i][j] = out[(i - 1) * ByteBits + j]
  BY BytesTyped
<1> HIDE DEF more
<1>3. /\ g \in Seq(OneByte) /\ Len(g) = (l + 1) \div ByteBits
      /\ \A i \in 1 .. (l + 1) \div ByteBits, j \in 1 .. ByteBits :
           g[i][j] = more[(i - 1) * ByteBits + j]
  BY <1>1, BytesTyped
<1>4. n \in Nat
  BY <1>1, Division
<1>5. (l + 1) \div ByteBits >= n => \A i \in 1 .. n : g[i] = f[i]
  <2> SUFFICES ASSUME (l + 1) \div ByteBits >= n, NEW i \in 1 .. n PROVE g[i] = f[i]
    OBVIOUS
  <2>1. f[i] \in OneByte /\ g[i] \in OneByte
    <3>1. (l + 1) \div ByteBits \in Nat
      BY <1>1, Division
    <3>2. i \in 1 .. Len(f) /\ i \in 1 .. Len(g)
      BY <1>2, <1>3, <1>4, <3>1
    <3> HIDE DEF f, g
    <3> QED BY <1>2, <1>3, <3>2
  <2>2. ASSUME NEW j \in 1 .. ByteBits PROVE g[i][j] = f[i][j]
    <3>1. (i - 1) * ByteBits + j \in 1 .. l
      BY <1>1, Index
    <3>2. i \in 1 .. (l + 1) \div ByteBits
      <4>1. (l + 1) \div ByteBits \in Nat
        BY <1>1, Division
      <4> QED BY <1>4, <4>1
    <3> HIDE DEF f, g, n
    <3> QED BY <1>1, <1>2, <1>3, <3>1, <3>2
  <2>3. \A a, b \in OneByte : (\A j \in 1 .. ByteBits : a[j] = b[j]) => a = b
    BY SameBits DEF OneByte
  <2> HIDE DEF f, g
  <2> QED BY <2>1, <2>2, <2>3
<1>6. CASE (l + 1) % ByteBits # 0
  <2>1. (l + 1) \div ByteBits = n
    BY <1>1, <1>6, Division
  <2>2. Len(g) = Len(f) /\ \A i \in 1 .. Len(f) : g[i] = f[i]
    BY <1>2, <1>3, <1>4, <1>5, <2>1
  <2>3. g = f
    <3> HIDE DEF f, g
    <3> QED BY <1>2, <1>3, <2>2, SeqEqual
  <2> QED BY <1>1, <1>6, <2>3 DEF more
<1>7. CASE (l + 1) % ByteBits = 0
  <2>1. (l + 1) \div ByteBits = n + 1 /\ l + 1 = (n + 1) * ByteBits
    BY <1>1, <1>7, Division
  <2>2. Len(g) = n + 1 /\ g # <<>>
    <3>1. Len(g) = n + 1
      BY <1>3, <2>1
    <3> HIDE DEF g, n
    <3> QED BY <1>4, <3>1, EmptySeq
  <2> DEFINE h == Append(f, g[n + 1])
  <2>3. g[n + 1] \in OneByte
    <3> HIDE DEF g, n
    <3> QED BY <1>3, <1>4, <2>2
  <2>4. h \in Seq(OneByte) /\ Len(h) = n + 1 /\ h[n + 1] = g[n + 1] /\ \A i \in 1 .. n : h[i] = f[i]
    <3> HIDE DEF f, g, n
    <3> QED BY <1>2, <1>4, <2>3
  <2>5. g = h
    <3>1. \A i \in 1 .. n : g[i] = f[i]
      <4>1. (l + 1) \div ByteBits >= n
        <5> HIDE DEF n
        <5> QED BY <1>4, <2>1
      <4> QED BY <1>5, <4>1
    <3>2. \A i \in 1 .. n + 1 : g[i] = h[i]
      <4> HIDE DEF f, g, h, n
      <4> QED BY <1>4, <2>4, <3>1
    <3> HIDE DEF f, g, h, n
    <3> QED BY <1>3, <2>2, <2>4, <3>2, SeqEqual
  <2> QED BY <1>1, <1>7, <2>1, <2>2, <2>5 DEF more
<1> QED BY <1>6, <1>7

\* The fields of an address and a command byte select one of the wipers.
LEMMA SelectedTyped ==
  ASSUME NEW f \in Seq(OneByte), Len(f) >= 2
  PROVE  I2c!Promised!Selected(f)
           \in [1 .. ByteBits \div 2 -> Bit] \X [1 .. ByteBits \div 4 -> Bit]
<1> DEFINE B == ByteBits
           Half == B \div 2
           Quarter == B \div 4
<1>1. B \in Nat /\ B % 4 = 0 /\ B # 0
  BY SizesAssumption
<1>2. Half \in Nat /\ Quarter \in Nat /\ B - Half = Half /\ Half + Quarter <= B /\ Half >= 1
  <2>1. \A b \in Nat : b % 4 = 0 /\ b # 0 =>
          b \div 2 \in Nat /\ b \div 4 \in Nat /\ b - b \div 2 = b \div 2 /\ b \div 2 + b \div 4 <= b
          /\ b \div 2 >= 1
    BY SMT
  <2> QED BY <1>1, <2>1
<1>3. f[1] \in Seq(Bit) /\ Len(f[1]) = B /\ f[2] \in Seq(Bit) /\ Len(f[2]) = B
  <2>1. f[1] \in OneByte /\ f[2] \in OneByte
    OBVIOUS
  <2> QED BY <1>1, <2>1 DEF OneByte
<1> HIDE DEF B, Half, Quarter
<1>4. ASSUME NEW s \in Seq(Bit), Len(s) = B, NEW n \in Nat, NEW m, m = Half + n, m <= B
      PROVE  SubSeq(s, Half + 1, m) \in [1 .. n -> Bit]
  <2>1. SubSeq(s, Half + 1, m) = [i \in 1 .. n |-> s[i + Half]]
    BY <1>1, <1>2, <1>4
  <2>2. \A i \in 1 .. n : s[i + Half] \in Bit
    BY <1>1, <1>2, <1>4
  <2> QED BY <2>1, <2>2
<1>5. SubSeq(f[1], Half + 1, B) \in [1 .. Half -> Bit]
  <2>1. B = Half + Half /\ B <= B
    BY <1>1, <1>2
  <2> QED BY <1>2, <1>3, <1>4, <2>1
<1>6. SubSeq(f[2], Half + 1, Half + Quarter) \in [1 .. Quarter -> Bit]
  BY <1>2, <1>3, <1>4
<1> QED BY <1>5, <1>6
  DEF B, Half, Quarter, I2c!Promised!Selected, I2c!Promised!Instance, I2c!Promised!Pot,
      I2c!Promised!Half, I2c!Promised!Quarter

-----------------------------------------------------------------------------
(* The X9241 on the I2C bus.                                               *)

\* What the bus shows of the promise's variables.
Frame(b) == I2c!Bytes(b.out)
Reply(b) ==
  [i \in 1 .. b.in_bits - b.in_bits_sent |-> b.in_buf[ByteBits - 1 - (b.in_bits_sent + i - 1)]]

\* An answer is under way only in a frame of two bytes or more; so a byte that asks for one finds
\* the buffer empty.
GoodBus(b) ==
  /\ b \in I2c!Bus
  /\ b.in_bits = 0 => b.in_bits_sent = 0
  /\ b.in_bits # 0 => Len(b.out) >= 2 * ByteBits

LEMMA BusFields ==
  ASSUME NEW b \in I2c!Bus
  PROVE  /\ b.sda \in Bit /\ b.clock_last \in Bit /\ b.data_last \in Bit /\ b.inside_frame \in BOOLEAN
         /\ b.out \in Seq(Bit) /\ b.in_buf \in [0 .. ByteBits - 1 -> Bit]
         /\ b.in_bits \in {0, ByteBits} /\ b.in_bits_sent \in 0 .. ByteBits - 1
         /\ b.wiper \in [[1 .. ByteBits \div 2 -> Bit] \X [1 .. ByteBits \div 4 -> Bit] -> OneByte]
         /\ b.heard \in Seq(Bit) /\ ByteBits \in Nat \ {0} /\ I2c!Bit = Bit
BY SizesAssumption DEF I2c!Bus, I2c!Bit, Bit, OneByte

\* The device listens to whole bytes.
LEMMA Received ==
  ASSUME NEW n \in Nat, NEW k \in Nat
  PROVE  n * ByteBits = k * ByteBits <=> n = k
<1> DEFINE B == ByteBits
<1>1. B \in Nat \ {0}
  BY SizesAssumption
<1> HIDE DEF B
<1>2. n * B = k * B <=> n = k
  BY <1>1, SMT
<1> QED BY <1>2 DEF B

\* Between bytes it does nothing.
LEMMA DeviceWaits ==
  ASSUME NEW b \in I2c!Bus, Len(b.out) % ByteBits # 0
  PROVE  I2c!x9241_read_write(b) = b
<1>1. \A n \in Nat : Len(b.out) # n * ByteBits
  <2> DEFINE B == ByteBits
  <2>1. B \in Nat \ {0}
    BY SizesAssumption
  <2> HIDE DEF B
  <2>2. \A n \in Nat : (n * B) % B = 0
    BY <2>1, SMT
  <2> QED BY <2>2 DEF B
<1>2. Len(b.out) # 1 * ByteBits /\ Len(b.out) # 2 * ByteBits /\ Len(b.out) # 3 * ByteBits
  BY <1>1
<1> QED BY <1>2, Zenon DEF I2c!x9241_read_write

\* What it makes of a byte, by the number of bytes there are.
LEMMA DeviceActs ==
  ASSUME NEW b \in I2c!Bus, NEW n \in Nat, Len(b.out) = n * ByteBits, Len(Frame(b)) = n
  PROVE  LET u == I2c!x9241_read_write(b)
             f == Frame(b)
             asked == n = 2 /\ I2c!Promised!IsCommand(f, READ_WIPER)
             set == n = 3 /\ I2c!Promised!IsCommand(f, WRITE_WIPER)
             pot == I2c!Promised!Selected(f)
         IN  /\ u \in I2c!Bus
             /\ u.out = b.out /\ u.heard = b.heard /\ u.in_bits_sent = b.in_bits_sent
             /\ u.sda = b.sda \/ u.sda = 0
             /\ u.wiper = IF set THEN [b.wiper EXCEPT ![pot] = f[3]] ELSE b.wiper
             /\ u.in_bits = IF asked THEN ByteBits ELSE b.in_bits
             /\ u.in_buf = IF asked THEN [p \in 0 .. ByteBits - 1 |-> b.wiper[pot][ByteBits - p]]
                           ELSE b.in_buf
<1> DEFINE u == I2c!x9241_read_write(b)
           f == Frame(b)
           addressed == n = 1 /\ I2c!Promised!Type(f[1]) = X9241_ID
           asked == n = 2 /\ I2c!Promised!IsCommand(f, READ_WIPER)
           told == n = 2 /\ I2c!Promised!IsCommand(f, WRITE_WIPER)
           set == n = 3 /\ I2c!Promised!IsCommand(f, WRITE_WIPER)
           pot == I2c!Promised!Selected(f)
           ack == [b EXCEPT !.sda = 0]
           buf == [p \in 0 .. ByteBits - 1 |-> b.wiper[pot][ByteBits - p]]
<1> SUFFICES /\ u \in I2c!Bus
             /\ u.out = b.out /\ u.heard = b.heard /\ u.in_bits_sent = b.in_bits_sent
             /\ u.sda = b.sda \/ u.sda = 0
             /\ u.wiper = IF set THEN [b.wiper EXCEPT ![pot] = f[3]] ELSE b.wiper
             /\ u.in_bits = IF asked THEN ByteBits ELSE b.in_bits
             /\ u.in_buf = IF asked THEN buf ELSE b.in_buf
  BY Zenon
<1>1. u = IF addressed THEN ack
          ELSE IF asked THEN [ack EXCEPT !.in_buf = [p \in DOMAIN @ |-> b.wiper[pot][ByteBits - p]],
                                         !.in_bits = ByteBits]
          ELSE IF told THEN ack
          ELSE IF set THEN [ack EXCEPT !.wiper[pot] = f[3]]
          ELSE b
  <2>1. /\ Len(b.out) = 1 * ByteBits <=> n = 1
        /\ Len(b.out) = 2 * ByteBits <=> n = 2
        /\ Len(b.out) = 3 * ByteBits <=> n = 3
    BY Received
  <2> QED BY <2>1, Zenon DEF I2c!x9241_read_write, I2c!add_ack, I2c!add_byte, Frame
<1>2. /\ f \in Seq(OneByte) /\ b.in_buf \in [0 .. ByteBits - 1 -> Bit] /\ ByteBits \in Nat \ {0}
      /\ b.wiper \in [[1 .. ByteBits \div 2 -> Bit] \X [1 .. ByteBits \div 4 -> Bit] -> OneByte]
  BY BusFields, BytesTyped DEF Frame
<1>3. asked \/ set => pot \in [1 .. ByteBits \div 2 -> Bit] \X [1 .. ByteBits \div 4 -> Bit]
  BY <1>2, SelectedTyped
<1>4. asked => buf \in [0 .. ByteBits - 1 -> Bit]
  <2> SUFFICES ASSUME asked PROVE buf \in [0 .. ByteBits - 1 -> Bit]
    OBVIOUS
  <2> DEFINE value == b.wiper[pot]
  <2>1. value \in [1 .. ByteBits -> Bit]
    BY <1>2, <1>3 DEF OneByte
  <2>2. buf = [p \in 0 .. ByteBits - 1 |-> value[ByteBits - p]]
    OBVIOUS
  <2> HIDE DEF value, buf
  <2>3. \A p \in 0 .. ByteBits - 1 : value[ByteBits - p] \in Bit
    BY <1>2, <2>1
  <2> QED BY <2>2, <2>3
<1>5. set => f[3] \in OneByte
  <2> SUFFICES ASSUME set PROVE f[3] \in OneByte
    OBVIOUS
  <2>1. Len(f) = 3
    OBVIOUS
  <2> HIDE DEF f, set
  <2>2. f \in Seq(OneByte) /\ 3 \in 1 .. Len(f)
    BY <1>2, <2>1
  <2> QED BY <2>2, ElementOfSeq, Zenon
<1>6. ack \in I2c!Bus
  BY ZenonT(60) DEF I2c!Bus, I2c!Bit
<1>7. /\ ack.out = b.out /\ ack.heard = b.heard /\ ack.in_bits_sent = b.in_bits_sent
      /\ ack.sda = 0 /\ ack.wiper = b.wiper /\ ack.in_bits = b.in_bits /\ ack.in_buf = b.in_buf
  BY DEF I2c!Bus
<1> HIDE DEF u, addressed, asked, told, set, pot, ack, buf, f
<1>8. CASE asked /\ ~addressed
  <2>1. u = [ack EXCEPT !.in_buf = buf, !.in_bits = ByteBits]
    BY <1>1, <1>2, <1>7, <1>8 DEF buf
  <2>2. u \in I2c!Bus
    BY <1>4, <1>6, <1>8, <2>1, ZenonT(60) DEF I2c!Bus, I2c!Bit, Bit
  <2>3. /\ u.in_buf = buf /\ u.in_bits = ByteBits /\ u.out = ack.out /\ u.heard = ack.heard
        /\ u.in_bits_sent = ack.in_bits_sent /\ u.sda = ack.sda /\ u.wiper = ack.wiper
    BY <1>6, <2>1 DEF I2c!Bus
  <2>4. ~set
    BY <1>8 DEF asked, set
  <2> QED BY <1>7, <1>8, <2>2, <2>3, <2>4
<1>9. CASE set /\ ~addressed /\ ~asked /\ ~told
  <2>1. u = [ack EXCEPT !.wiper = [b.wiper EXCEPT ![pot] = f[3]]]
    BY <1>1, <1>7, <1>9
  <2>2. [b.wiper EXCEPT ![pot] = f[3]]
          \in [[1 .. ByteBits \div 2 -> Bit] \X [1 .. ByteBits \div 4 -> Bit] -> OneByte]
    BY <1>2, <1>3, <1>5, <1>9
  <2> DEFINE wiper == [b.wiper EXCEPT ![pot] = f[3]]
  <2> HIDE DEF wiper
  <2>3. u = [ack EXCEPT !.wiper = wiper]
    BY <2>1 DEF wiper
  <2>4. wiper \in [[1 .. ByteBits \div 2 -> I2c!Bit] \X [1 .. ByteBits \div 4 -> I2c!Bit]
                    -> [1 .. ByteBits -> I2c!Bit]]
    BY <2>2 DEF wiper, OneByte, Bit, I2c!Bit
  <2>5. u \in I2c!Bus
    BY <1>6, <2>3, <2>4, ZenonT(60) DEF I2c!Bus
  <2>6. /\ u.in_buf = ack.in_buf /\ u.in_bits = ack.in_bits /\ u.out = ack.out /\ u.heard = ack.heard
        /\ u.in_bits_sent = ack.in_bits_sent /\ u.sda = ack.sda /\ u.wiper = wiper
    BY <1>6, <2>3 DEF I2c!Bus
  <2> QED BY <1>7, <1>9, <2>5, <2>6 DEF wiper
<1>10. CASE addressed \/ (told /\ ~asked)
  <2>1. u = ack /\ ~asked /\ ~set
    BY <1>1, <1>10 DEF addressed, told, asked, set
  <2> QED BY <1>6, <1>7, <2>1
<1>11. CASE ~addressed /\ ~asked /\ ~told /\ ~set
  <2>1. u = b
    BY <1>1, <1>11
  <2> QED BY <1>11, <2>1
<1>12. (set => ~told /\ ~asked /\ ~addressed) /\ (asked => ~addressed)
  BY DEF set, told, asked, addressed
<1> QED BY <1>8, <1>9, <1>10, <1>11, <1>12, Zenon

\* What the potentiometers' user sees of the bus, and the steps that are promised.
Shown(b) == <<b.wiper, Frame(b), Reply(b), b.heard>>

StartStep(b, u) == Shown(u) = <<b.wiper, <<>>, <<>>, <<>>>>
ReceiveStep(b, u) ==
  \E byte \in OneByte :
    LET f == Append(Frame(b), byte)
        set == Len(f) = 3 /\ I2c!Promised!IsCommand(f, WRITE_WIPER)
        asked == Len(f) = 2 /\ I2c!Promised!IsCommand(f, READ_WIPER)
        pot == I2c!Promised!Selected(f)
    IN  /\ Frame(u) = f
        /\ u.wiper = IF set THEN [b.wiper EXCEPT ![pot] = byte] ELSE b.wiper
        /\ Reply(u) = IF asked THEN b.wiper[pot] ELSE Reply(b)
        /\ u.heard = b.heard
AnswerStep(b, u) ==
  /\ Reply(b) # <<>>
  /\ Frame(u) = Frame(b) /\ u.wiper = b.wiper
  /\ u.heard = Append(b.heard, Head(Reply(b))) /\ Reply(u) = Tail(Reply(b))
PromisedStep(b, u) ==
  StartStep(b, u) \/ ReceiveStep(b, u) \/ AnswerStep(b, u) \/ Shown(u) = Shown(b)

\* The lines, and what i2c_sim keeps of them, do not show.
SameBuffers(b, u) ==
  /\ u.out = b.out /\ u.in_buf = b.in_buf /\ u.in_bits = b.in_bits
  /\ u.in_bits_sent = b.in_bits_sent /\ u.wiper = b.wiper /\ u.heard = b.heard

LEMMA LinesDoNotShow ==
  ASSUME NEW b, NEW u, SameBuffers(b, u)
  PROVE  /\ Shown(u) = Shown(b) /\ Frame(u) = Frame(b) /\ Reply(u) = Reply(b)
         /\ GoodBus(b) /\ u \in I2c!Bus => GoodBus(u)
<1>1. Frame(u) = Frame(b) /\ Reply(u) = Reply(b)
  BY DEF SameBuffers, Frame, Reply
<1> QED BY <1>1 DEF SameBuffers, Shown, GoodBus

\* A START drops the frame, and the rest of an answer with it.
LEMMA StartShown ==
  ASSUME NEW b, GoodBus(b)
  PROVE  LET u == I2c!start(b)
         IN  GoodBus(u) /\ StartStep(b, u) /\ u.sda = b.sda
<1> DEFINE u == I2c!start(b)
<1>1. b \in I2c!Bus /\ ByteBits \in Nat \ {0}
  BY BusFields DEF GoodBus
<1>2. u \in I2c!Bus
  <2>1. 0 \in {0, ByteBits} /\ 0 \in 0 .. ByteBits - 1 /\ <<>> \in Seq(I2c!Bit)
    BY <1>1
  <2> QED BY <1>1, <2>1, ZenonT(60) DEF I2c!start, I2c!Bus
<1>3. /\ u.out = <<>> /\ u.in_bits = 0 /\ u.in_bits_sent = 0 /\ u.heard = <<>>
      /\ u.wiper = b.wiper /\ u.sda = b.sda
  BY <1>1 DEF I2c!start, I2c!Bus
<1> HIDE DEF u
<1>4. Frame(u) = <<>>
  <2> DEFINE B == ByteBits
             n == 0 \div B
  <2>1. n = 0
    <3>1. B \in Nat \ {0}
      BY <1>1
    <3> HIDE DEF B
    <3> QED BY <3>1, SMT
  <2>2. Frame(u) = [i \in 1 .. n |-> [j \in 1 .. ByteBits |-> u.out[(i - 1) * ByteBits + j]]]
    BY <1>3 DEF Frame, I2c!Bytes
  <2> QED BY <2>1, <2>2
<1>5. Reply(u) = <<>>
  BY <1>3 DEF Reply
<1>6. GoodBus(u)
  BY <1>2, <1>3 DEF GoodBus
<1>7. StartStep(b, u)
  BY <1>3, <1>4, <1>5 DEF StartStep, Shown
<1> QED BY <1>3, <1>6, <1>7 DEF u

\* A bit that is received completes a byte, which the device takes as promised, or does not
\* show.
LEMMA LatchShown ==
  ASSUME NEW b, GoodBus(b), NEW bit \in Bit
  PROVE  LET u == I2c!latch_bit(b, bit)
         IN  /\ GoodBus(u) /\ PromisedStep(b, u)
             /\ u.sda # b.sda => u.sda = 0 /\ u.out # <<>> /\ Len(u.out) % ByteBits = 0
<1> DEFINE c == [b EXCEPT !.out = Append(@, bit)]
           u == I2c!x9241_read_write(c)
<1> SUFFICES /\ GoodBus(u) /\ PromisedStep(b, u)
             /\ u.sda # b.sda => u.sda = 0 /\ u.out # <<>> /\ Len(u.out) % ByteBits = 0
  BY Zenon DEF I2c!latch_bit
<1>1. b \in I2c!Bus /\ ByteBits \in Nat \ {0} /\ b.out \in Seq(Bit) /\ I2c!Bit = Bit
      /\ Len(b.out) \in Nat /\ b.in_bits_sent \in Nat /\ b.in_bits \in {0, ByteBits}
  BY BusFields DEF GoodBus
<1>2. c \in I2c!Bus
  <2>1. Append(b.out, bit) \in Seq(I2c!Bit)
    BY <1>1
  <2> QED BY <1>1, <2>1, ZenonT(60) DEF I2c!Bus
<1>3. /\ c.out = Append(b.out, bit) /\ c.in_buf = b.in_buf /\ c.in_bits = b.in_bits
      /\ c.in_bits_sent = b.in_bits_sent /\ c.wiper = b.wiper /\ c.heard = b.heard /\ c.sda = b.sda
  BY <1>1 DEF I2c!Bus
<1>4. Len(c.out) = Len(b.out) + 1 /\ c.out # <<>> /\ c.out \in Seq(Bit)
  BY <1>1, <1>3
<1> HIDE DEF c
<1>5. GoodBus(c)
  BY <1>1, <1>2, <1>3, <1>4 DEF GoodBus
<1>6. CASE Len(c.out) % ByteBits # 0
  <2>1. u = c
    BY <1>2, <1>6, DeviceWaits
  <2>2. Frame(c) = Frame(b)
    BY <1>1, <1>3, <1>6, BytesAppend DEF Frame
  <2>3. Shown(u) = Shown(b)
    BY <1>3, <2>1, <2>2 DEF Shown, Reply
  <2> QED BY <1>3, <1>5, <2>1, <2>3 DEF PromisedStep
<1>7. CASE Len(c.out) % ByteBits = 0
  <2> DEFINE f == Frame(c)
             n == Len(f)
             byte == f[n]
             asked == n = 2 /\ I2c!Promised!IsCommand(f, READ_WIPER)
             set == n = 3 /\ I2c!Promised!IsCommand(f, WRITE_WIPER)
             pot == I2c!Promised!Selected(f)
  <2>1. Len(c.out) = n * ByteBits /\ f # <<>> /\ f = Append(Frame(b), byte)
    BY <1>1, <1>3, <1>7, BytesAppend, Zenon DEF Frame
  <2>2. f \in Seq(OneByte)
    BY <1>4, BytesTyped DEF Frame
  <2>3. n \in Nat /\ byte \in OneByte
    <3> HIDE DEF f
    <3> QED BY <2>1, <2>2
  <2>4. /\ u \in I2c!Bus
        /\ u.out = c.out /\ u.heard = c.heard /\ u.in_bits_sent = c.in_bits_sent
        /\ u.sda = c.sda \/ u.sda = 0
        /\ u.wiper = IF set THEN [c.wiper EXCEPT ![pot] = f[3]] ELSE c.wiper
        /\ u.in_bits = IF asked THEN ByteBits ELSE c.in_bits
        /\ u.in_buf = IF asked THEN [p \in 0 .. ByteBits - 1 |-> c.wiper[pot][ByteBits - p]]
                      ELSE c.in_buf
    BY <1>2, <2>1, <2>3, DeviceActs, Zenon
  <2>7. asked => n = 2
    OBVIOUS
  <2>5. asked => pot \in [1 .. ByteBits \div 2 -> Bit] \X [1 .. ByteBits \div 4 -> Bit]
    <3>1. asked => Len(f) >= 2
      BY <2>7
    <3> HIDE DEF f, asked
    <3>2. Len(f) >= 2 => pot \in [1 .. ByteBits \div 2 -> Bit] \X [1 .. ByteBits \div 4 -> Bit]
      BY <2>2, SelectedTyped, Zenon
    <3> QED BY <3>1, <3>2
  <2>6. set => n = 3
    OBVIOUS
  <2>8. Frame(u) = f
    BY <2>4 DEF Frame
  <2>9. ReceiveStep(b, u) <=>
          \E x \in OneByte :
            /\ f = Append(Frame(b), x)
            /\ u.wiper = IF set THEN [b.wiper EXCEPT ![pot] = x] ELSE b.wiper
            /\ Reply(u) = IF asked THEN b.wiper[pot] ELSE Reply(b)
            /\ u.heard = b.heard
    <3> HIDE DEF u
    <3> QED BY <2>8, Zenon DEF ReceiveStep
  <2> HIDE DEF u, f, n, byte, asked, set, pot
  <2>10. asked => b.in_bits_sent = 0 /\ Len(u.out) >= 2 * ByteBits
    BY <1>1, <1>4, <2>1, <2>4, <2>7 DEF GoodBus
  <2>11. GoodBus(u)
    <3>1. CASE asked
      BY <1>1, <2>4, <2>10, <3>1 DEF GoodBus
    <3>2. CASE ~asked
      BY <1>5, <2>4, <3>2 DEF GoodBus
    <3> QED BY <3>1, <3>2
  <2>12. Reply(u) = IF asked THEN b.wiper[pot] ELSE Reply(b)
    <3>1. CASE asked
      <4> DEFINE value == b.wiper[pot]
      <4>1. value \in [1 .. ByteBits -> Bit]
        BY <1>1, <2>5, <3>1, BusFields DEF OneByte
      <4>2. u.in_buf = [p \in 0 .. ByteBits - 1 |-> value[ByteBits - p]]
        BY <1>3, <2>4, <3>1
      <4>3. Reply(u) = [i \in 1 .. ByteBits |-> u.in_buf[ByteBits - 1 - (0 + i - 1)]]
        <5>1. u.in_bits_sent = 0 /\ u.in_bits = ByteBits /\ ByteBits - 0 = ByteBits
          BY <1>1, <1>3, <2>4, <2>10, <3>1
        <5>2. Reply(u) = [i \in 1 .. ByteBits - 0 |-> u.in_buf[ByteBits - 1 - (0 + i - 1)]]
          BY <5>1, Zenon DEF Reply
        <5> QED BY <5>1, <5>2, Zenon
      <4> HIDE DEF value
      <4>4. \A i \in 1 .. ByteBits : u.in_buf[ByteBits - 1 - (0 + i - 1)] = value[i]
        <5> SUFFICES ASSUME NEW i \in 1 .. ByteBits
                     PROVE  u.in_buf[ByteBits - 1 - (0 + i - 1)] = value[i]
          OBVIOUS
        <5> DEFINE p == ByteBits - 1 - (0 + i - 1)
        <5>1. p \in 0 .. ByteBits - 1 /\ ByteBits - p = i
          BY <1>1
        <5> HIDE DEF p
        <5>2. u.in_buf[p] = value[i]
          BY <4>2, <5>1
        <5> QED BY <5>2 DEF p
      <4>5. Reply(u) = [i \in 1 .. ByteBits |-> value[i]]
        BY <4>3, <4>4
      <4> QED BY <3>1, <4>1, <4>5 DEF value
    <3>2. CASE ~asked
      BY <1>3, <2>4, <3>2 DEF Reply
    <3> QED BY <3>1, <3>2
  <2>13. u.wiper = IF set THEN [b.wiper EXCEPT ![pot] = byte] ELSE b.wiper
    BY <1>3, <2>4, <2>6 DEF byte
  <2>14. ReceiveStep(b, u)
    BY <1>3, <2>1, <2>3, <2>4, <2>9, <2>12, <2>13
  <2>15. u.sda # b.sda => u.sda = 0 /\ u.out # <<>> /\ Len(u.out) % ByteBits = 0
    BY <1>3, <1>4, <1>7, <2>4
  <2> QED BY <2>11, <2>14, <2>15 DEF PromisedStep, u
<1> QED BY <1>6, <1>7

\* The next bit of an answer is the first that is still to come.
LEMMA SendShown ==
  ASSUME NEW b, GoodBus(b)
  PROVE  LET u == I2c!send_bit(b)
         IN  GoodBus(u) /\ PromisedStep(b, u)
<1> DEFINE u == I2c!send_bit(b)
           s == b.in_bits_sent
           bit == b.in_buf[ByteBits - 1 - s]
           done == s + 1 >= b.in_bits
           sent == IF done THEN 0 ELSE s + 1
           left == IF done THEN 0 ELSE b.in_bits
<1>1. b \in I2c!Bus /\ ByteBits \in Nat \ {0} /\ I2c!Bit = Bit /\ b.in_bits \in {0, ByteBits}
      /\ s \in 0 .. ByteBits - 1 /\ b.in_buf \in [0 .. ByteBits - 1 -> Bit] /\ b.heard \in Seq(Bit)
  BY BusFields DEF GoodBus
<1>2. CASE ~(s < b.in_bits)
  <2>1. u = b
    BY <1>2, Zenon DEF I2c!send_bit
  <2> QED BY <2>1 DEF PromisedStep
<1>3. CASE s < b.in_bits
  <2>1. u = [b EXCEPT !.sda = bit, !.heard = Append(@, bit), !.in_bits_sent = sent,
                      !.in_bits = left]
    BY <1>1, <1>3 DEF I2c!send_bit, I2c!i2c_get_bit
  <2>2. b.in_bits = ByteBits /\ ByteBits - 1 - s \in 0 .. ByteBits - 1
    BY <1>1, <1>3
  <2>3. bit \in Bit
    BY <1>1, <2>2
  <2>4. sent \in 0 .. ByteBits - 1 /\ left \in {0, ByteBits} /\ (left = 0 => sent = 0)
        /\ left - sent = ByteBits - s - 1 /\ (left # 0 => sent = s + 1)
    BY <1>1, <2>2
  <2> HIDE DEF u, bit, sent, left
  <2>5. u \in I2c!Bus
    <3>1. Append(b.heard, bit) \in Seq(I2c!Bit) /\ bit \in I2c!Bit
      BY <1>1, <2>3
    <3> QED BY <1>1, <2>1, <2>4, <3>1, ZenonT(60) DEF I2c!Bus
  <2>6. /\ u.out = b.out /\ u.in_buf = b.in_buf /\ u.in_bits = left /\ u.in_bits_sent = sent
        /\ u.wiper = b.wiper /\ u.heard = Append(b.heard, bit)
    BY <1>1, <2>1 DEF I2c!Bus
  <2>7. GoodBus(u)
    BY <2>2, <2>4, <2>5, <2>6, <1>1 DEF GoodBus
  <2> DEFINE m == ByteBits - s
             r == [i \in 1 .. m |-> b.in_buf[ByteBits - 1 - (s + i - 1)]]
  <2>8. Reply(b) = r
    BY <2>2, Zenon DEF Reply
  <2>9. m \in Nat \ {0} /\ \A i \in 1 .. m : ByteBits - 1 - (s + i - 1) \in 0 .. ByteBits - 1
    BY <1>1
  <2>10. r \in Seq(Bit) /\ Len(r) = m
    <3> HIDE DEF s
    <3>1. r \in [1 .. m -> Bit]
      BY <1>1, <2>9
    <3> QED BY <2>9, <3>1
  <2>11. r[1] = bit
    <3>1. ByteBits - 1 - (s + 1 - 1) = ByteBits - 1 - s
      BY <1>1
    <3> QED BY <2>9, <3>1 DEF bit
  <2>12. Reply(u) = [i \in 1 .. m - 1 |-> r[i + 1]]
    <3>1. Reply(u) = [i \in 1 .. m - 1 |-> b.in_buf[ByteBits - 1 - (sent + i - 1)]]
      <4>1. left - sent = m - 1
        BY <2>4
      <4> QED BY <2>6, <4>1, Zenon DEF Reply
    <3>2. ASSUME NEW i \in 1 .. m - 1
          PROVE  b.in_buf[ByteBits - 1 - (sent + i - 1)] = r[i + 1]
      <4>1. i + 1 \in 1 .. m /\ left # 0
        BY <1>1, <2>4, <2>9
      <4>2. sent = s + 1 /\ s \in Int /\ i \in Int
        BY <1>1, <2>4, <4>1
      <4>3. ByteBits - 1 - (sent + i - 1) = ByteBits - 1 - (s + (i + 1) - 1)
        <5> HIDE DEF s, m, r
        <5> QED BY <1>1, <4>2
      <4> QED BY <4>1, <4>3
    <3> HIDE DEF r, m
    <3> QED BY <3>1, <3>2
  <2> HIDE DEF r, m
  <2>13. r # <<>> /\ Head(r) = bit /\ Tail(r) = [i \in 1 .. m - 1 |-> r[i + 1]]
    <3> DEFINE t == [i \in 1 .. m - 1 |-> r[i + 1]]
    <3>1. r # <<>> /\ Head(r) = r[1] /\ Tail(r) \in Seq(Bit) /\ Len(Tail(r)) = m - 1
      BY <2>9, <2>10
    <3>2. \A i \in 1 .. m - 1 : Tail(r)[i] = r[i + 1] /\ r[i + 1] \in Bit
      BY <2>9, <2>10
    <3>3. t \in Seq(Bit) /\ Len(t) = m - 1 /\ \A i \in 1 .. m - 1 : t[i] = r[i + 1]
      BY <2>9, <3>2
    <3> HIDE DEF t
    <3>4. Tail(r) = t
      BY <3>1, <3>2, <3>3, SeqEqual
    <3> QED BY <2>11, <3>1, <3>4 DEF t
  <2>14. AnswerStep(b, u)
    BY <2>6, <2>8, <2>12, <2>13 DEF AnswerStep, Frame
  <2> QED BY <2>7, <2>14 DEF u, PromisedStep
<1> QED BY <1>2, <1>3

\* What a change of the lines does: at most one promised step, and a data line that only an
\* acknowledge changes while the clock is high.
LEMMA SimShown ==
  ASSUME NEW b, GoodBus(b), NEW c \in Bit, NEW d \in Bit, b.sda = d, NEW drive \in BOOLEAN
  PROVE  LET u == I2c!i2c_sim(b, c, d, drive)
         IN  /\ GoodBus(u) /\ PromisedStep(b, u)
             /\ u.clock_last = 1 /\ u.sda # u.data_last =>
                  u.sda = 0 /\ u.out # <<>> /\ Len(u.out) % ByteBits = 0
<1> DEFINE high == b.clock_last = 1 /\ c = 1
           latched == b.inside_frame /\ c = 1 /\ drive
           sending == b.inside_frame /\ b.clock_last = 1 /\ ~drive
           after == IF high
                    THEN (IF b.data_last = 1 /\ d = 0 THEN I2c!start(b)
                          ELSE IF b.data_last = 0 /\ d = 1 THEN I2c!stop(b) ELSE b)
                    ELSE IF latched THEN I2c!latch_bit(b, d)
                    ELSE IF sending THEN I2c!send_bit(b) ELSE b
           u == [after EXCEPT !.clock_last = c, !.data_last = d]
           Acked(a) == a.sda = 0 /\ a.out # <<>> /\ Len(a.out) % ByteBits = 0
           Fine(a) == GoodBus(a) /\ PromisedStep(b, a) /\ (a.sda = d \/ Acked(a) \/ c = 0)
<1>1. I2c!i2c_sim(b, c, d, drive) = u
  BY Zenon DEF I2c!i2c_sim
<1>2. Fine(I2c!start(b))
  BY StartShown, Zenon DEF PromisedStep
<1>3. Fine(I2c!stop(b))
  <2> DEFINE a == I2c!stop(b)
  <2>1. b \in I2c!Bus
    BY DEF GoodBus
  <2>2. a \in I2c!Bus
    BY <2>1, ZenonT(60) DEF I2c!stop, I2c!Bus
  <2>3. SameBuffers(b, a) /\ a.sda = b.sda
    BY <2>1 DEF I2c!stop, I2c!Bus, SameBuffers
  <2> HIDE DEF a
  <2>4. GoodBus(a) /\ Shown(a) = Shown(b)
    BY <2>2, <2>3, LinesDoNotShow
  <2> QED BY <2>3, <2>4 DEF a, PromisedStep
<1>4. Fine(I2c!latch_bit(b, d))
  BY LatchShown, Zenon
<1>5. c = 0 => Fine(I2c!send_bit(b))
  BY SendShown, Zenon
<1>6. Fine(b)
  BY Zenon DEF PromisedStep
<1>7. Fine(after)
  <2>1. ~high /\ ~latched /\ sending => c = 0
    BY DEF Bit
  <2> HIDE DEF Fine, latched
  <2> QED BY <1>2, <1>3, <1>4, <1>5, <1>6, <2>1
<1> DEFINE w == after
<1> HIDE DEF w
<1>8. Fine(w) /\ u = [w EXCEPT !.clock_last = c, !.data_last = d]
  BY <1>7 DEF w
<1> HIDE DEF u
<1>9. w \in I2c!Bus /\ I2c!Bit = Bit
  BY <1>8, BusFields DEF GoodBus
<1>10. u \in I2c!Bus
  BY <1>8, <1>9, ZenonT(60) DEF I2c!Bus
<1>11. SameBuffers(w, u) /\ u.sda = w.sda /\ u.clock_last = c /\ u.data_last = d
  BY <1>8, <1>9 DEF I2c!Bus, SameBuffers
<1>12. GoodBus(u) /\ Shown(u) = Shown(w) /\ Frame(u) = Frame(w) /\ Reply(u) = Reply(w)
       /\ u.wiper = w.wiper /\ u.heard = w.heard
  BY <1>8, <1>10, <1>11, LinesDoNotShow DEF SameBuffers
<1>13. PromisedStep(b, u)
  BY <1>8, <1>12, Zenon DEF PromisedStep, StartStep, ReceiveStep, AnswerStep
<1>14. u.clock_last = 1 /\ u.sda # u.data_last => Acked(u)
  BY <1>8, <1>11 DEF SameBuffers
<1> QED BY <1>1, <1>12, <1>13, <1>14

-----------------------------------------------------------------------------
(* The I2C bus within the boards.                                          *)

BusInv ==
  /\ clock \in Bit /\ output \in BOOLEAN /\ GoodBus(bus) /\ UnseenOnlyAfterAck

LEMMA BusInit ==
  ASSUME I2c!Init
  PROVE  BusInv /\ I2c!Promised!Init
<1>1. ByteBits \in Nat \ {0}
  BY SizesAssumption
<1> DEFINE Wipers == [1 .. ByteBits \div 2 -> Bit] \X [1 .. ByteBits \div 4 -> Bit]
           zero == [i \in 1 .. ByteBits |-> 0]
           wiper0 == [w \in Wipers |-> zero]
           buf0 == [p \in 0 .. ByteBits - 1 |-> 0]
<1>2. zero \in [1 .. ByteBits -> Bit] /\ buf0 \in [0 .. ByteBits - 1 -> Bit]
      /\ 0 \in 0 .. ByteBits - 1 /\ <<>> \in Seq(Bit) /\ 0 \in Bit /\ 0 \in {0, ByteBits}
  BY <1>1 DEF Bit
<1> HIDE DEF zero, Wipers
<1>3. wiper0 \in [Wipers -> [1 .. ByteBits -> Bit]]
  BY <1>2
<1>4. bus = [sda |-> 0, clock_last |-> 0, data_last |-> 0, inside_frame |-> FALSE,
             out |-> <<>>, in_buf |-> buf0, in_bits |-> 0, in_bits_sent |-> 0,
             wiper |-> wiper0, heard |-> <<>>]
  BY Zenon DEF I2c!Init, I2c!Bit, Bit, Wipers, zero
<1> HIDE DEF wiper0, buf0
<1>5. bus \in I2c!Bus
  BY <1>2, <1>3, <1>4, ZenonT(60) DEF I2c!Bus, I2c!Bit, Bit, Wipers
<1>6. /\ bus.sda = 0 /\ bus.data_last = 0 /\ bus.out = <<>> /\ bus.in_bits = 0
      /\ bus.in_bits_sent = 0 /\ bus.wiper = wiper0 /\ bus.heard = <<>>
  BY <1>4
<1>7. BusInv
  BY <1>5, <1>6 DEF I2c!Init, BusInv, GoodBus, Bit, UnseenOnlyAfterAck, I2c!UnseenOnlyAfterAck
<1>8. Frame(bus) = <<>> /\ Reply(bus) = <<>>
  <2>1. I2c!start(bus).out = <<>> /\ I2c!start(bus).in_bits = 0 /\ I2c!start(bus).in_bits_sent = 0
    BY <1>5 DEF I2c!start, I2c!Bus
  <2>2. Frame(I2c!start(bus)) = <<>> /\ Reply(I2c!start(bus)) = <<>>
    BY <1>7, StartShown DEF BusInv, StartStep, Shown
  <2>3. Frame(bus) = Frame(I2c!start(bus)) /\ Reply(bus) = Reply(I2c!start(bus))
    BY <1>6, <2>1 DEF Frame, Reply
  <2> QED BY <2>2, <2>3
<1>9. I2c!Promised!Init
  BY <1>6, <1>8
  DEF I2c!Promised!Init, I2c!Promised!BitString, I2c!Promised!Half, I2c!Promised!Quarter, wiper0,
      Wipers, zero, Bit, Frame, Reply, I2c!i2c_get_bit
<1> QED BY <1>7, <1>9

\* The steps above are those of the promise.
LEMMA StepIsPromised ==
  ASSUME PromisedStep(bus, bus')
  PROVE  I2c!Promised!Next \/ Shown(bus') = Shown(bus)
<1>1. CASE StartStep(bus, bus')
  <2>1. I2c!Promised!Start
    BY <1>1 DEF StartStep, Shown, Frame, Reply, I2c!Promised!Start, I2c!i2c_get_bit
  <2> QED BY <2>1 DEF I2c!Promised!Next
<1>2. CASE ReceiveStep(bus, bus')
  <2>1. PICK byte \in OneByte : ReceiveStep(bus, bus')!(byte)
    BY <1>2 DEF ReceiveStep
  <2>2. byte \in I2c!Promised!Byte
    BY DEF OneByte, Bit, I2c!Promised!Byte, I2c!Promised!BitString
  <2>3. I2c!Promised!Receive
    BY <2>1, <2>2, Zenon DEF I2c!Promised!Receive, Frame, Reply, I2c!i2c_get_bit
  <2> QED BY <2>3 DEF I2c!Promised!Next
<1>3. CASE AnswerStep(bus, bus')
  <2>1. I2c!Promised!Answer
    BY <1>3, Zenon DEF AnswerStep, Frame, Reply, I2c!Promised!Answer, I2c!i2c_get_bit
  <2> QED BY <2>1 DEF I2c!Promised!Next
<1> QED BY <1>1, <1>2, <1>3 DEF PromisedStep

LEMMA BusNext ==
  ASSUME BusInv, I2c!Next
  PROVE  BusInv' /\ (I2c!Promised!Next \/ Shown(bus') = Shown(bus))
<1>1. /\ clock \in Bit /\ output \in BOOLEAN /\ GoodBus(bus) /\ bus \in I2c!Bus /\ I2c!Bit = Bit
      /\ bus.sda \in Bit
  BY BusFields DEF BusInv, GoodBus
<1>2. ASSUME NEW b, GoodBus(b), SameBuffers(bus, b), NEW c \in Bit, NEW d \in Bit, b.sda = d,
             bus' = I2c!i2c_sim(b, c, d, output), clock' \in Bit, output' \in BOOLEAN
      PROVE  BusInv' /\ (I2c!Promised!Next \/ Shown(bus') = Shown(bus))
  <2>1. /\ GoodBus(bus') /\ PromisedStep(b, bus')
        /\ bus'.clock_last = 1 /\ bus'.sda # bus'.data_last =>
             bus'.sda = 0 /\ bus'.out # <<>> /\ Len(bus'.out) % ByteBits = 0
    <3> DEFINE u == I2c!i2c_sim(b, c, d, output)
    <3>1. /\ GoodBus(u) /\ PromisedStep(b, u)
          /\ u.clock_last = 1 /\ u.sda # u.data_last =>
               u.sda = 0 /\ u.out # <<>> /\ Len(u.out) % ByteBits = 0
      BY <1>1, <1>2, SimShown
    <3>2. bus' = u
      BY <1>2
    <3> HIDE DEF u
    <3> QED BY <3>1, <3>2
  <2>2. PromisedStep(bus, bus')
    <3>1. Shown(b) = Shown(bus) /\ Frame(b) = Frame(bus) /\ Reply(b) = Reply(bus)
          /\ b.wiper = bus.wiper /\ b.heard = bus.heard
      BY <1>2, LinesDoNotShow DEF SameBuffers
    <3> QED BY <2>1, <3>1, Zenon DEF PromisedStep, StartStep, ReceiveStep, AnswerStep
  <2>3. BusInv'
    BY <1>2, <2>1 DEF BusInv, UnseenOnlyAfterAck, I2c!UnseenOnlyAfterAck
  <2> QED BY <2>2, <2>3, StepIsPromised
<1>3. ASSUME NEW d \in Bit, I2c!nccpu_porta_putb(d)
      PROVE  BusInv' /\ (I2c!Promised!Next \/ Shown(bus') = Shown(bus))
  <2> DEFINE b == [bus EXCEPT !.sda = d]
  <2>1. b \in I2c!Bus
    BY <1>1, ZenonT(60) DEF I2c!Bus
  <2>2. SameBuffers(bus, b) /\ b.sda = d
    BY <1>1 DEF I2c!Bus, SameBuffers
  <2>3. bus' = I2c!i2c_sim(b, clock, d, output) /\ clock' = clock /\ output' = output
    BY <1>3 DEF I2c!nccpu_porta_putb
  <2> HIDE DEF b
  <2>4. GoodBus(b)
    BY <1>1, <2>1, <2>2, LinesDoNotShow
  <2> QED BY <1>1, <1>2, <2>2, <2>3, <2>4
<1>4. ASSUME NEW c \in Bit, I2c!nccpu_portd_putb(c)
      PROVE  BusInv' /\ (I2c!Promised!Next \/ Shown(bus') = Shown(bus))
  <2>1. bus' = I2c!i2c_sim(bus, c, bus.sda, output) /\ clock' = c /\ output' = output
    BY <1>4 DEF I2c!nccpu_portd_putb
  <2>2. SameBuffers(bus, bus)
    BY DEF SameBuffers
  <2> QED BY <1>1, <1>2, <2>1, <2>2
<1>5. ASSUME NEW drive \in BOOLEAN, I2c!write_direction(drive)
      PROVE  BusInv' /\ (I2c!Promised!Next \/ Shown(bus') = Shown(bus))
  BY <1>5 DEF I2c!write_direction, BusInv, UnseenOnlyAfterAck, I2c!UnseenOnlyAfterAck
<1> QED BY <1>1, <1>3, <1>4, <1>5 DEF I2c!Next, I2c!write_data, I2c!rewrite_data

LEMMA BusStep ==
  ASSUME BusInv, [Next]_<<build, spi, board, panel, relays, clock, output, bus>>
  PROVE  BusInv' /\ (I2c!Promised!Next \/ Shown(bus') = Shown(bus))
<1>1. CASE step_of_i2c
  BY <1>1, BusNext DEF step_of_i2c
<1>2. CASE UNCHANGED <<clock, output, bus>>
  BY <1>2 DEF BusInv, UnseenOnlyAfterAck, I2c!UnseenOnlyAfterAck
<1> QED BY <1>1, <1>2 DEF Next, step_of_inputs, step_of_outputs, step_of_ncpan, step_of_nc24r

\* The I2C bus keeps its buffers, and an answer is under way only in a frame that has asked for it.
THEOREM SpecBusInv == Spec => []BusInv
<1>1. Init => BusInv
  BY BusInit DEF Init
<1>2. BusInv /\ [Next]_<<build, spi, board, panel, relays, clock, output, bus>> => BusInv'
  BY BusStep
<1> QED BY <1>1, <1>2, PTL DEF Spec

\* Only an acknowledge leaves the data line other than i2c_sim saw it while the clock is high
\* (i2c_ack writes PORTA, and i2c_sim is not called).
THEOREM SpecUnseenOnlyAfterAck == Spec => []UnseenOnlyAfterAck
<1>1. BusInv => UnseenOnlyAfterAck
  BY DEF BusInv
<1> QED BY <1>1, SpecBusInv, PTL

\* For every width of a byte, address, command and program: the bus, with its lines, edges and
\* bits, implements the potentiometers, which know only bytes and the bits of answers.
THEOREM SpecKeepsPromise == Spec => KeepsPromise
<1>1. Init => BusInv /\ I2c!Promised!Init
  BY BusInit DEF Init
<1>2. BusInv /\ [Next]_<<build, spi, board, panel, relays, clock, output, bus>> =>
        BusInv' /\ [I2c!Promised!Next]_<<bus.wiper, I2c!Bytes(bus.out),
                     [i \in 1 .. bus.in_bits - bus.in_bits_sent |->
                        I2c!i2c_get_bit(bus.in_buf, bus.in_bits_sent + i - 1)], bus.heard>>
  BY BusStep, Zenon DEF Shown, Frame, Reply, I2c!i2c_get_bit
<1> QED BY <1>1, <1>2, PTL DEF Spec, KeepsPromise, I2c!KeepsPromise, I2c!Promised!Spec

-----------------------------------------------------------------------------
(* The SPI with the bytes of a dip switch queued, as the NCPAN and the NCCPU *)
(* have it.                                                                  *)

LEMMA SpiStarts ==
  /\ Pan!P!SpiOK(Pan!P!SpiReset)
  /\ Pan!P!SpiReset.waiting = <<>> /\ Pan!P!SpiReset.spdr = "own"
<1>1. <<>> \in Seq(Dip) /\ Len(<<>>) = 0
  OBVIOUS
<1> QED BY <1>1, SizesAssumption DEF Pan!P!SpiOK, Pan!P!SpiReset, Pan!P!Spi, Pan!P!spi_nbytes

LEMMA SpiFields ==
  ASSUME NEW s, Pan!P!SpiOK(s)
  PROVE  /\ s \in Pan!P!Spi /\ s.spif \in BOOLEAN /\ s.spsr_is_read \in BOOLEAN
         /\ s.seen \in BOOLEAN /\ s.spie \in BOOLEAN /\ s.spi_interrupt \in BOOLEAN
         /\ s.waiting \in Seq(Dip) /\ Len(s.waiting) \in Nat /\ s.taken \in 0 .. SpiSize
         /\ s.taken + Len(s.waiting) <= SpiSize /\ SpiSize \in Nat \ {0}
         /\ s.waiting = <<>> => s.taken = 0
         /\ s.spdr \in Dip \cup {"own"}
<1>1. s.waiting \in Seq(Dip) => Len(s.waiting) \in Nat
  OBVIOUS
<1> QED BY <1>1, SizesAssumption DEF Pan!P!SpiOK, Pan!P!Spi, Pan!P!spi_nbytes

\* With the queue of bytes as it is, only the flags matter.
LEMMA SpiFlags ==
  ASSUME NEW s, Pan!P!SpiOK(s), NEW t \in Pan!P!Spi, t.waiting = s.waiting, t.taken = s.taken
  PROVE  Pan!P!SpiOK(t)
BY DEF Pan!P!SpiOK, Pan!P!spi_nbytes

\* Reading the status or the data, or writing the status, leaves the queue and the data alone.
LEMMA SpiAccess ==
  ASSUME NEW s, Pan!P!SpiOK(s),
         NEW t \in {Pan!P!spsr_getb(s), Pan!P!spdr_getb(s)}
                     \cup {Pan!P!write_spsr(s, b) : b \in BOOLEAN}
  PROVE  Pan!P!SpiOK(t) /\ t.waiting = s.waiting /\ t.spdr = s.spdr
<1>1. s \in Pan!P!Spi /\ s.spif \in BOOLEAN /\ s.seen \in BOOLEAN
  BY SpiFields
<1>2. CASE t = Pan!P!spsr_getb(s)
  <2>1. t \in Pan!P!Spi
    BY <1>1, <1>2, ZenonT(60) DEF Pan!P!Spi, Pan!P!spsr_getb
  <2>2. t.waiting = s.waiting /\ t.taken = s.taken /\ t.spdr = s.spdr
    BY <1>1, <1>2 DEF Pan!P!Spi, Pan!P!spsr_getb
  <2> QED BY <2>1, <2>2, SpiFlags
<1>3. CASE t = Pan!P!spdr_getb(s)
  <2>1. CASE ~s.spsr_is_read
    BY <1>3, <2>1 DEF Pan!P!spdr_getb, Pan!P!acknowledged
  <2>2. CASE s.spsr_is_read
    <3>1. t = [s EXCEPT !.spif = FALSE, !.spi_interrupt = FALSE]
      BY <1>3, <2>2 DEF Pan!P!spdr_getb, Pan!P!acknowledged
    <3>2. t \in Pan!P!Spi
      BY <1>1, <3>1, ZenonT(60) DEF Pan!P!Spi
    <3>3. t.waiting = s.waiting /\ t.taken = s.taken /\ t.spdr = s.spdr
      BY <1>1, <3>1 DEF Pan!P!Spi
    <3> QED BY <3>2, <3>3, SpiFlags
  <2> QED BY <2>1, <2>2
<1>4. ASSUME NEW b \in BOOLEAN, t = Pan!P!write_spsr(s, b)
      PROVE  Pan!P!SpiOK(t) /\ t.waiting = s.waiting /\ t.spdr = s.spdr
  <2>1. t \in Pan!P!Spi
    BY <1>1, <1>4, ZenonT(60) DEF Pan!P!Spi, Pan!P!write_spsr
  <2>2. t.waiting = s.waiting /\ t.taken = s.taken /\ t.spdr = s.spdr
    BY <1>1, <1>4 DEF Pan!P!Spi, Pan!P!write_spsr
  <2> QED BY <2>1, <2>2, SpiFlags
<1> QED BY <1>2, <1>3, <1>4

\* The end of a transfer takes the oldest byte, if there is one, and gives the buffer back with
\* the last.
LEMMA SpiTransfer ==
  ASSUME NEW s, Pan!P!SpiOK(s)
  PROVE  LET t == [Pan!P!transfer(s) EXCEPT !.spsr_is_read = FALSE]
         IN  /\ Pan!P!SpiOK(t) /\ t.spif
             /\ Len(s.waiting) = 1 => t.waiting = <<>> /\ t.spdr = s.waiting[1]
<1> DEFINE left == s.waiting # <<>>
           rest == IF left THEN Tail(s.waiting) ELSE <<>>
           taken == IF rest = <<>> THEN 0 ELSE s.taken + 1
           byte == IF left THEN Head(s.waiting) ELSE "own"
           t == [Pan!P!transfer(s) EXCEPT !.spsr_is_read = FALSE]
<1>1. /\ s \in Pan!P!Spi /\ s.waiting \in Seq(Dip) /\ s.taken \in 0 .. SpiSize
      /\ s.taken + Len(s.waiting) <= SpiSize /\ (s.waiting = <<>> => s.taken = 0)
      /\ s.spie \in BOOLEAN /\ s.spi_interrupt \in BOOLEAN /\ SpiSize \in Nat
      /\ s.seen \in BOOLEAN /\ Len(s.waiting) \in Nat
  BY SpiFields
<1>2. /\ rest \in Seq(Dip) /\ byte \in Dip \cup {"own"}
      /\ left => Len(rest) = Len(s.waiting) - 1
      /\ rest = <<>> <=> Len(rest) = 0
      /\ Len(s.waiting) = 1 => rest = <<>> /\ byte = s.waiting[1]
  <2>1. CASE left
    <3>1. /\ Tail(s.waiting) \in Seq(Dip) /\ Head(s.waiting) \in Dip
          /\ Head(s.waiting) = s.waiting[1]
      BY <1>1, <2>1, HeadTailProperties
    <3>2. Len(Tail(s.waiting)) = Len(s.waiting) - 1
      BY <1>1, <2>1, HeadTailProperties
    <3>3. Tail(s.waiting) = <<>> <=> Len(Tail(s.waiting)) = 0
      BY <3>1, EmptySeq
    <3> QED BY <2>1, <3>1, <3>2, <3>3
  <2>2. CASE ~left
    <3>1. rest = <<>> /\ byte = "own"
      BY <2>2
    <3>2. <<>> \in Seq(Dip) /\ Len(<<>>) = 0
      BY EmptySeq
    <3> HIDE DEF rest, byte
    <3> QED BY <2>2, <3>1, <3>2
  <2> QED BY <2>1, <2>2
<1>3. taken \in 0 .. SpiSize /\ taken + Len(rest) <= SpiSize /\ (rest = <<>> => taken = 0)
  <2>1. CASE rest = <<>>
    <3>1. taken = 0 /\ Len(rest) = 0
      BY <1>2, <2>1
    <3> HIDE DEF taken, rest
    <3> QED BY <1>1, <3>1
  <2>2. CASE rest # <<>>
    <3>1. taken = s.taken + 1 /\ left /\ Len(rest) \in Nat
      BY <1>2, <2>2
    <3>2. Len(rest) = Len(s.waiting) - 1 /\ Len(rest) # 0
      BY <1>2, <2>2, <3>1
    <3> HIDE DEF taken, rest, left
    <3>3. taken \in 0 .. SpiSize /\ taken + Len(rest) <= SpiSize
      BY <1>1, <3>1, <3>2
    <3> QED BY <2>2, <3>3
  <2> QED BY <2>1, <2>2
<1>4. t = [s EXCEPT !.spif = TRUE, !.spi_interrupt = @ \/ s.spie, !.spdr = byte,
                    !.waiting = rest, !.taken = taken, !.seen = FALSE,
                    !.spsr_is_read = FALSE]
  BY <1>1, Zenon DEF Pan!P!transfer
<1> HIDE DEF rest, taken, byte
<1>5. t \in Pan!P!Spi
  <2>1. (s.spi_interrupt \/ s.spie) \in BOOLEAN
    OBVIOUS
  <2> HIDE DEF t
  <2> QED BY <1>1, <1>2, <1>3, <1>4, <2>1, ZenonT(60) DEF Pan!P!Spi
<1>6. t.spif = TRUE /\ t.waiting = rest /\ t.taken = taken /\ t.spdr = byte
  <2> HIDE DEF t
  <2> QED BY <1>1, <1>4 DEF Pan!P!Spi
<1> HIDE DEF t
<1>7. Pan!P!SpiOK(t)
  BY <1>1, <1>3, <1>5, <1>6 DEF Pan!P!SpiOK, Pan!P!spi_nbytes
<1> QED BY <1>2, <1>6, <1>7 DEF t

\* A byte is queued behind those that wait, if there is room.
LEMMA SpiIn ==
  ASSUME NEW s, Pan!P!SpiOK(s), NEW v \in Dip
  PROVE  LET queued == Pan!P!spi_in(s, v)
         IN  /\ Pan!P!SpiOK(queued)
             /\ queued.spif = s.spif /\ queued.spsr_is_read = s.spsr_is_read
             /\ s.waiting = <<>> => Len(queued.waiting) = 1 /\ queued.waiting[1] = v
<1> DEFINE queued == Pan!P!spi_in(s, v)
<1>1. /\ s \in Pan!P!Spi /\ s.waiting \in Seq(Dip) /\ Len(s.waiting) \in Nat
      /\ s.taken \in 0 .. SpiSize /\ s.taken + Len(s.waiting) <= SpiSize
      /\ SpiSize \in Nat \ {0} /\ (s.waiting = <<>> => s.taken = 0)
  BY SpiFields
<1>2. CASE s.taken + Len(s.waiting) < SpiSize
  <2> DEFINE w == Append(s.waiting, v)
  <2>1. /\ w \in Seq(Dip) /\ Len(w) = Len(s.waiting) + 1 /\ w # <<>>
        /\ s.waiting = <<>> => Len(w) = 1 /\ w[1] = v
    BY <1>1
  <2> HIDE DEF w
  <2>2. queued = [s EXCEPT !.waiting = w]
    BY <1>2 DEF Pan!P!spi_in, Pan!P!spi_nbytes, w
  <2> HIDE DEF queued
  <2>3. queued \in Pan!P!Spi
    BY <1>1, <2>1, <2>2, ZenonT(60) DEF Pan!P!Spi
  <2>4. /\ queued.waiting = w /\ queued.taken = s.taken /\ queued.spif = s.spif
        /\ queued.spsr_is_read = s.spsr_is_read
    BY <1>1, <2>2 DEF Pan!P!Spi
  <2>5. Len(w) <= SpiSize - s.taken
    BY <1>1, <1>2, <2>1
  <2>6. Pan!P!SpiOK(queued)
    BY <1>1, <2>1, <2>3, <2>4, <2>5 DEF Pan!P!SpiOK, Pan!P!spi_nbytes
  <2> QED BY <2>1, <2>4, <2>6 DEF queued
<1>3. CASE ~(s.taken + Len(s.waiting) < SpiSize)
  <2>1. queued = s
    BY <1>3 DEF Pan!P!spi_in, Pan!P!spi_nbytes
  <2>2. s.waiting # <<>>
    BY <1>1, <1>3
  <2> QED BY <2>1, <2>2
<1> QED BY <1>2, <1>3

\* A write of SPDR with a byte queued first: a write that is not inhibited clocks in that very
\* byte when none waited before.
LEMMA SpiPut ==
  ASSUME NEW s, Pan!P!SpiOK(s), NEW v \in Dip
  PROVE  LET t == Pan!P!spdr_putb(Pan!P!spi_in(s, v))
         IN  /\ Pan!P!SpiOK(t)
             /\ ~Pan!P!acknowledged(s).spif /\ s.waiting = <<>> => t.waiting = <<>> /\ t.spdr = v
<1> DEFINE queued == Pan!P!spi_in(s, v)
           a == Pan!P!acknowledged(queued)
           t == Pan!P!spdr_putb(queued)
<1>1. s \in Pan!P!Spi
  BY SpiFields
<1>2. /\ Pan!P!SpiOK(queued) /\ queued.spif = s.spif /\ queued.spsr_is_read = s.spsr_is_read
      /\ s.waiting = <<>> => Len(queued.waiting) = 1 /\ queued.waiting[1] = v
  BY SpiIn
<1>3. /\ Pan!P!SpiOK(a) /\ a.waiting = queued.waiting
      /\ a.spif = Pan!P!acknowledged(s).spif
  <2>1. Pan!P!SpiOK(a) /\ a.waiting = queued.waiting
    BY <1>2, SpiAccess DEF Pan!P!spdr_getb
  <2>2. queued \in Pan!P!Spi
    BY <1>2, SpiFields
  <2> HIDE DEF queued
  <2>3. a.spif = Pan!P!acknowledged(s).spif
    BY <1>1, <1>2, <2>2 DEF Pan!P!acknowledged, Pan!P!Spi
  <2> QED BY <2>1, <2>3
<1>4. t = [(IF a.spif THEN a ELSE Pan!P!transfer(a)) EXCEPT !.spsr_is_read = FALSE]
  BY Zenon DEF Pan!P!spdr_putb
<1> HIDE DEF t, a, queued
<1>5. CASE a.spif
  <2>1. a \in Pan!P!Spi
    BY <1>3, SpiFields
  <2>2. t = [a EXCEPT !.spsr_is_read = FALSE]
    BY <1>4, <1>5
  <2>3. t \in Pan!P!Spi
    BY <2>1, <2>2, ZenonT(60) DEF Pan!P!Spi
  <2>4. t.waiting = a.waiting /\ t.taken = a.taken
    BY <2>1, <2>2 DEF Pan!P!Spi
  <2>5. Pan!P!SpiOK(t)
    BY <1>3, <2>1, <2>3, <2>4, SpiFlags
  <2> QED BY <1>3, <1>5, <2>5 DEF t, queued
<1>6. CASE ~a.spif
  <2>1. t = [Pan!P!transfer(a) EXCEPT !.spsr_is_read = FALSE]
    BY <1>4, <1>6
  <2>2. Pan!P!SpiOK(t) /\ (Len(a.waiting) = 1 => t.waiting = <<>> /\ t.spdr = a.waiting[1])
    BY <1>3, <1>6, <2>1, SpiTransfer
  <2>3. s.waiting = <<>> => t.waiting = <<>> /\ t.spdr = v
    BY <1>2, <1>3, <2>2
  <2> QED BY <2>2, <2>3 DEF t, queued
<1> QED BY <1>5, <1>6

-----------------------------------------------------------------------------
(* The NCPAN.                                                              *)

\* While no write of SPDR was inhibited and no byte queued by hand, no byte waits: so the one that
\* is queued next is the one the transfer takes, and SPDR holds it until the next.
PanInv ==
  /\ Pan!P!SpiOK(spi) /\ panel \in Pan!Panel
  /\ ~panel.skewed => spi.waiting = <<>> /\ spi.spdr = panel.sampled

LEMMA PanNext ==
  ASSUME PanInv, Pan!Next
  PROVE  PanInv' /\ Pan!DipIsCurrentAction
<1>1. /\ Pan!P!SpiOK(spi) /\ panel \in Pan!Panel
      /\ ~panel.skewed => spi.waiting = <<>> /\ spi.spdr = panel.sampled
      /\ panel.dipsw \in Dip /\ panel.buttons \in SUBSET Button /\ panel.skewed \in BOOLEAN
      /\ spi \in Pan!P!Spi
  BY SpiFields DEF PanInv, Pan!Panel
<1>2. ASSUME NEW driven \in SUBSET Pan!Column, Pan!ncpan_porta_putb(driven)
      PROVE  PanInv' /\ Pan!DipIsCurrentAction
  <2> DEFINE on == Pan!scanned(panel.buttons, driven)
  <2>1. on \in SUBSET Pan!Row
    BY DEF Pan!scanned
  <2> HIDE DEF on
  <2>2. panel' = [panel EXCEPT !.driven = driven, !.on = on] /\ spi' = spi
    BY <1>2 DEF Pan!ncpan_porta_putb, on
  <2>3. panel' \in Pan!Panel
    BY <1>1, <2>1, <2>2, ZenonT(60) DEF Pan!Panel
  <2>4. panel'.skewed = panel.skewed /\ panel'.sampled = panel.sampled
    BY <1>1, <2>2 DEF Pan!Panel
  <2> QED BY <1>1, <2>2, <2>3, <2>4 DEF PanInv, Pan!DipIsCurrentAction
<1>3. CASE Pan!ncpan_spi_putb
  <2> DEFINE inhibited == Pan!P!acknowledged(spi).spif
             v == panel.dipsw
             skewed == panel.skewed \/ inhibited
  <2>1. /\ spi' = Pan!P!spdr_putb(Pan!P!spi_in(spi, v))
        /\ panel' = [panel EXCEPT !.skewed = skewed, !.sampled = v]
    BY <1>1, <1>3 DEF Pan!ncpan_spi_putb
  <2>2. /\ Pan!P!SpiOK(spi')
        /\ ~inhibited /\ spi.waiting = <<>> => spi'.waiting = <<>> /\ spi'.spdr = v
    BY <1>1, <2>1, SpiPut
  <2>3. ~spi.spif => ~inhibited
    BY <1>1 DEF Pan!P!acknowledged, Pan!P!Spi
  <2>4. skewed \in BOOLEAN
    OBVIOUS
  <2> HIDE DEF skewed
  <2>5. panel' \in Pan!Panel
    BY <1>1, <2>1, <2>4, ZenonT(60) DEF Pan!Panel
  <2>6. panel'.skewed = skewed /\ panel'.sampled = v
    BY <1>1, <2>1 DEF Pan!Panel
  <2>7. ~panel'.skewed => ~inhibited /\ ~panel.skewed
    BY <2>6 DEF skewed
  <2> HIDE DEF inhibited
  <2> QED BY <1>1, <2>2, <2>5, <2>6, <2>7 DEF PanInv, Pan!DipIsCurrentAction
<1>4. CASE Pan!spi_access
  <2>1. Pan!P!SpiOK(spi') /\ spi'.waiting = spi.waiting /\ spi'.spdr = spi.spdr
    BY <1>1, <1>4, SpiAccess DEF Pan!spi_access
  <2> QED BY <1>1, <1>4, <2>1 DEF Pan!spi_access, PanInv, Pan!DipIsCurrentAction
<1>5. CASE Pan!ncpan_cmd
  <2>1. spi' = spi
    BY <1>5 DEF Pan!ncpan_cmd
  <2>2. CASE \E v \in Dip : panel' = [panel EXCEPT !.dipsw = v]
    <3>1. PICK v \in Dip : panel' = [panel EXCEPT !.dipsw = v]
      BY <2>2
    <3>2. panel' \in Pan!Panel
      BY <1>1, <3>1, ZenonT(60) DEF Pan!Panel
    <3>3. panel'.skewed = panel.skewed /\ panel'.sampled = panel.sampled
      BY <1>1, <3>1 DEF Pan!Panel
    <3> QED BY <1>1, <2>1, <3>2, <3>3 DEF PanInv, Pan!DipIsCurrentAction
  <2>3. CASE \E n \in Button :
               panel' = [panel EXCEPT !.buttons = IF n \in @ THEN @ \ {n} ELSE @ \cup {n}]
    <3>1. PICK n \in Button :
            panel' = [panel EXCEPT !.buttons = IF n \in @ THEN @ \ {n} ELSE @ \cup {n}]
      BY <2>3
    <3> DEFINE pushed == IF n \in panel.buttons THEN panel.buttons \ {n} ELSE panel.buttons \cup {n}
    <3>2. pushed \in SUBSET Button /\ panel' = [panel EXCEPT !.buttons = pushed]
      BY <1>1, <3>1
    <3> HIDE DEF pushed
    <3>3. panel' \in Pan!Panel
      BY <1>1, <3>2, ZenonT(60) DEF Pan!Panel
    <3>4. panel'.skewed = panel.skewed /\ panel'.sampled = panel.sampled
      BY <1>1, <3>2 DEF Pan!Panel
    <3> QED BY <1>1, <2>1, <3>3, <3>4 DEF PanInv, Pan!DipIsCurrentAction
  <2> QED BY <1>5, <2>2, <2>3 DEF Pan!ncpan_cmd
<1>6. CASE Pan!io_cmd
  <2>1. panel' = [panel EXCEPT !.skewed = TRUE] /\ Pan!P!SpiOK(spi')
    BY <1>1, <1>6, SpiIn DEF Pan!io_cmd
  <2>2. panel' \in Pan!Panel
    BY <1>1, <2>1, ZenonT(60) DEF Pan!Panel
  <2>3. panel'.skewed
    BY <1>1, <2>1 DEF Pan!Panel
  <2> QED BY <2>1, <2>2, <2>3 DEF PanInv, Pan!DipIsCurrentAction
<1> QED BY <1>2, <1>3, <1>4, <1>5, <1>6 DEF Pan!Next

-----------------------------------------------------------------------------
(* The NC24R.                                                              *)

\* Toggling an output toggles its bit and no other.
LEMMA ToggleShows ==
  ASSUME Relays24!StatusShowsOutputs, NEW output1 \in 0 .. 23,
         NEW r, r = [Relays24!toggle_input(relays, output1) EXCEPT
                       !.toggled = IF output1 \in @ THEN @ \ {output1} ELSE @ \cup {output1}],
         relays' = r
  PROVE  Relays24!StatusShowsOutputs'
<1> DEFINE s1 == output1 % 4
           b1 == Relays24!bit_of(output1)
           status == relays.input_status
           row == IF b1 \in status[s1] THEN status[s1] \ {b1} ELSE status[s1] \cup {b1}
           more == [status EXCEPT ![s1] = row]
           tog == relays.toggled
           others == IF output1 \in tog THEN tog \ {output1} ELSE tog \cup {output1}
<1>1. /\ relays \in Relays24!Relays /\ tog \in SUBSET (0 .. 23)
      /\ status \in [Relays24!Select -> SUBSET Relays24!Bitno]
      /\ \A s \in Relays24!Select, b \in 2 .. 7 :
           b \in status[s] <=> 4 * (Relays24!correct_b57(b) - 2) + s \in tog
  BY DEF Relays24!StatusShowsOutputs, Relays24!Relays
<1>2. s1 \in 0 .. 3 /\ b1 \in 2 .. 7
      /\ \A s \in 0 .. 3, b \in 2 .. 7 :
           4 * (Relays24!correct_b57(b) - 2) + s = output1 <=> s = s1 /\ b = b1
  BY DEF Relays24!bit_of, Relays24!correct_b57
<1> HIDE DEF s1, b1
<1>3. r = [relays EXCEPT !.input_status = more, !.toggled = others]
  BY <1>1 DEF Relays24!toggle_input, Relays24!Relays, s1, b1
<1>4. row \in SUBSET Relays24!Bitno /\ others \in SUBSET (0 .. 23)
  BY <1>1, <1>2 DEF Relays24!Bitno, Relays24!Select
<1>5. /\ \A s \in 0 .. 3 : more[s] = IF s = s1 THEN row ELSE status[s]
      /\ more \in [Relays24!Select -> SUBSET Relays24!Bitno]
  <2> HIDE DEF row
  <2> QED BY <1>1, <1>2, <1>4 DEF Relays24!Select
<1>6. \A b \in 2 .. 7 : b \in row <=> (b \in status[s1] <=> b # b1)
  OBVIOUS
<1>7. \A x : x \in others <=> (x \in tog <=> x # output1)
  OBVIOUS
<1> HIDE DEF more, others, row, status, tog
<1>8. r.input_status = more /\ r.toggled = others /\ r \in Relays24!Relays
  <2>1. r \in Relays24!Relays
    BY <1>1, <1>3, <1>4, <1>5, ZenonT(60) DEF Relays24!Relays
  <2> QED BY <1>1, <1>3, <2>1 DEF Relays24!Relays
<1>9. ASSUME NEW s \in 0 .. 3, NEW b \in 2 .. 7
      PROVE  b \in more[s] <=> 4 * (Relays24!correct_b57(b) - 2) + s \in others
  <2> DEFINE x == 4 * (Relays24!correct_b57(b) - 2) + s
  <2>1. x = output1 <=> s = s1 /\ b = b1
    BY <1>2
  <2>2. b \in status[s] <=> x \in tog
    BY <1>1 DEF Relays24!Select
  <2> HIDE DEF x
  <2>3. b \in more[s] <=> x \in others
    BY <1>2, <1>5, <1>6, <1>7, <2>1, <2>2, Zenon
  <2> QED BY <2>3 DEF x
<1> QED BY <1>8, <1>9 DEF Relays24!StatusShowsOutputs, Relays24!Select

LEMMA RelaysNext ==
  ASSUME Relays24!StatusShowsOutputs, Relays24!Next
  PROVE  Relays24!StatusShowsOutputs'
<1>1. ASSUME NEW w \in WrittenPortb, Relays24!portb_write(w[1], w[2])
      PROVE  Relays24!StatusShowsOutputs'
  <2> DEFINE output1 == Relays24!output_of(w[1], w[2])
  <2>1. output1 \in 0 .. 23
    <3>1. CASE w[1] = "slave" /\ w[2] \in 0 .. 11
      <4>1. w[2] + 1 \in 1 .. 12
        BY <3>1
      <4>2. \A i \in 1 .. 12 : Relays24!slave_rtab[i] \in 0 .. 23
        BY DEF Relays24!slave_rtab
      <4>3. output1 = Relays24!slave_rtab[w[2] + 1]
        BY <3>1 DEF Relays24!output_of
      <4> QED BY <4>1, <4>2, <4>3
    <3>2. CASE w[1] \in {"master", "off"} /\ w[2] \in 0 .. 15
      BY <3>2 DEF Relays24!output_of
    <3>3. \/ w[1] = "slave" /\ w[2] \in 0 .. 11
          \/ w[1] \in {"master", "off"} /\ w[2] \in 0 .. 15
      BY InputAssumption
    <3> HIDE DEF output1
    <3> QED BY <3>1, <3>2, <3>3
  <2>2. CASE w[1] = "off"
    BY <1>1, <2>2 DEF Relays24!portb_write, Relays24!StatusShowsOutputs
  <2>3. CASE w[1] # "off"
    BY <1>1, <2>1, <2>3, ToggleShows DEF Relays24!portb_write
  <2> QED BY <2>2, <2>3
<1>2. ASSUME NEW s \in Relays24!Select, Relays24!porte_read(s)
      PROVE  Relays24!StatusShowsOutputs'
  <2>1. /\ relays \in Relays24!Relays
        /\ relays' = [relays EXCEPT !.porte = relays.input_status[s]]
    BY <1>2 DEF Relays24!porte_read, Relays24!StatusShowsOutputs
  <2>2. relays.input_status[s] \in SUBSET Relays24!Bitno
    BY <2>1 DEF Relays24!Relays
  <2>3. relays' \in Relays24!Relays
    BY <2>1, <2>2, ZenonT(60) DEF Relays24!Relays
  <2>4. relays'.input_status = relays.input_status /\ relays'.toggled = relays.toggled
    BY <2>1 DEF Relays24!Relays
  <2> QED BY <2>3, <2>4 DEF Relays24!StatusShowsOutputs
<1> QED BY <1>1, <1>2 DEF Relays24!Next

-----------------------------------------------------------------------------
(* The NCCPU, with n input bytes and m relay boards, whatever its inputs.  *)

Cpu(n, m) == INSTANCE Nccpu WITH
  ButtonsSize <- n, Boards <- m, Value <- Dip, Off <- DipStart, Given <- Dip

LEMMA SameSpi ==
  ASSUME NEW n, NEW m, NEW s, NEW v
  PROVE  /\ Cpu(n, m)!P!spi_in(s, v) = Pan!P!spi_in(s, v)
         /\ Cpu(n, m)!P!acknowledged(s) = Pan!P!acknowledged(s)
         /\ Cpu(n, m)!P!spsr_getb(s) = Pan!P!spsr_getb(s)
         /\ Cpu(n, m)!P!spdr_getb(s) = Pan!P!spdr_getb(s)
         /\ Cpu(n, m)!P!spdr_putb(s) = Pan!P!spdr_putb(s)
         /\ Cpu(n, m)!P!write_spsr(s, v) = Pan!P!write_spsr(s, v)
         /\ Cpu(n, m)!P!SpiOK(s) <=> Pan!P!SpiOK(s)
         /\ Cpu(n, m)!P!SpiReset = Pan!P!SpiReset
BY Zenon
   DEF Cpu!P!spi_in, Pan!P!spi_in, Cpu!P!acknowledged, Pan!P!acknowledged, Cpu!P!spsr_getb,
       Pan!P!spsr_getb, Cpu!P!spdr_getb, Pan!P!spdr_getb, Cpu!P!spdr_putb, Pan!P!spdr_putb,
       Cpu!P!transfer, Pan!P!transfer, Cpu!P!SpiOK, Pan!P!SpiOK, Cpu!P!Spi, Pan!P!Spi,
       Cpu!P!spi_nbytes, Pan!P!spi_nbytes, Cpu!P!SpiReset, Pan!P!SpiReset,
       Cpu!P!write_spsr, Pan!P!write_spsr

\* The ring of output bytes holds the bytes written last, the oldest at the index.
Ring(w, buf, k, q) == Len(w) = q /\ \A j \in 0 .. q - 1 : w[j + 1] = buf[(k + j) % q]
Ringed(b, m) == Ring(b.written, b.spi_putb_buf, b.spi_putb_index, 2 * m)

BoardInv(b, n, m) == b \in Cpu(n, m)!Board /\ Ringed(b, m)

LEMMA BoardFields ==
  ASSUME NEW n, NEW m, NEW b \in Cpu(n, m)!Board
  PROVE  /\ b.buttons \in [0 .. n - 1 -> Dip] /\ b.spi_getb_buf \in [0 .. n - 1 -> Dip]
         /\ b.spi_getb_index \in 0 .. n - 1
         /\ b.spi_putb_buf \in [0 .. 2 * m - 1 -> Dip] /\ b.spi_putb_index \in 0 .. 2 * m - 1
         /\ b.triac_buf \in [0 .. m - 1 -> Dip] /\ b.relay_buf \in [0 .. m - 1 -> Dip]
         /\ b.strobe \in BOOLEAN /\ b.written \in Seq(Dip) /\ b.skewed \in BOOLEAN
BY DEF Cpu!Board, Cpu!Input, Cpu!Output, Cpu!PutSize

\* Around a ring of q places.
LEMMA Around ==
  ASSUME NEW q \in Nat \ {0}, NEW x \in 0 .. 2 * q - 1
  PROVE  x % q = IF x < q THEN x ELSE x - q
BY SMT

\* A byte put into the ring takes the place of the oldest.
LEMMA RingTurns ==
  ASSUME NEW q \in Nat \ {0}, NEW k \in 0 .. q - 1, NEW buf \in [0 .. q - 1 -> Dip],
         NEW w \in Seq(Dip), Ring(w, buf, k, q), NEW v \in Dip
  PROVE  /\ Append(Tail(w), v) \in Seq(Dip) /\ (k + 1) % q \in 0 .. q - 1
         /\ Ring(Append(Tail(w), v), [buf EXCEPT ![k] = v], (k + 1) % q, q)
<1> USE DEF Ring
<1> DEFINE t == Tail(w)
           x == Append(t, v)
           turned == [buf EXCEPT ![k] = v]
           k1 == (k + 1) % q
<1> SUFFICES x \in Seq(Dip) /\ k1 \in 0 .. q - 1 /\ Ring(x, turned, k1, q)
  BY Zenon
<1>a. \A y \in 0 .. 2 * q - 1 : y % q = IF y < q THEN y ELSE y - q
  BY Around
<1>1. t \in Seq(Dip) /\ Len(t) = q - 1 /\ \A j \in 1 .. q - 1 : t[j] = w[j + 1]
  <2>1. w # <<>>
    BY EmptySeq
  <2> QED BY <2>1, HeadTailProperties
<1> HIDE DEF t
<1>2. x \in Seq(Dip) /\ Len(x) = q /\ x[q] = v /\ \A j \in 1 .. q - 1 : x[j] = w[j + 1]
  BY <1>1
<1>3. k1 = (IF k + 1 < q THEN k + 1 ELSE 0) /\ k1 \in 0 .. q - 1
  <2> DEFINE y == k + 1
  <2>1. y \in 0 .. 2 * q - 1 /\ y <= q
    OBVIOUS
  <2> HIDE DEF y
  <2>2. y % q = IF y < q THEN y ELSE y - q
    BY <1>a, <2>1
  <2>3. k1 = y % q /\ y = k + 1
    BY DEF y
  <2> QED BY <2>1, <2>2, <2>3
<1>4. \A i \in 0 .. q - 1 : turned[i] = IF i = k THEN v ELSE buf[i]
  OBVIOUS
<1> HIDE DEF x, turned, k1
<1>5. ASSUME NEW j \in 0 .. q - 1 PROVE x[j + 1] = turned[(k1 + j) % q]
  <2> DEFINE y == (k1 + j) % q
  <2>1. y = (IF k1 + j < q THEN k1 + j ELSE k1 + j - q) /\ y \in 0 .. q - 1
    <3> DEFINE z == k1 + j
    <3>1. z \in 0 .. 2 * q - 1 /\ z <= 2 * q - 2
      BY <1>3
    <3> HIDE DEF z
    <3>2. z % q = IF z < q THEN z ELSE z - q
      BY <1>a, <3>1
    <3>3. y = z % q /\ z = k1 + j
      BY DEF z
    <3> HIDE DEF y
    <3>4. y = (IF z < q THEN z ELSE z - q) /\ y \in 0 .. q - 1
      <4>1. y = IF z < q THEN z ELSE z - q
        BY <3>2, <3>3
      <4> QED BY <3>1, <4>1
    <3> QED BY <1>3, <3>1, <3>3, <3>4
  <2> HIDE DEF y
  <2>2. CASE j = q - 1
    <3>1. y = k
      BY <1>3, <2>1, <2>2
    <3>2. turned[y] = v
      BY <1>4, <3>1
    <3> QED BY <1>2, <2>2, <3>2 DEF y
  <2>3. CASE j # q - 1
    <3> DEFINE z == (k + (j + 1)) % q
    <3>1. j + 1 \in 1 .. q - 1 /\ j + 1 \in 0 .. q - 1
      BY <2>3
    <3>2. z = IF k + j + 1 < q THEN k + j + 1 ELSE k + j + 1 - q
      <4> DEFINE p == k + (j + 1)
      <4>1. p \in 0 .. 2 * q - 1 /\ p = k + j + 1
        BY <3>1
      <4> HIDE DEF p
      <4>2. p % q = IF p < q THEN p ELSE p - q
        BY <1>a, <4>1
      <4> QED BY <4>1, <4>2 DEF p
    <3>3. x[j + 1] = w[(j + 1) + 1] /\ w[(j + 1) + 1] = buf[z]
      BY <1>2, <3>1
    <3> HIDE DEF z
    <3>4. y = z /\ y # k
      BY <1>3, <2>1, <2>3, <3>2
    <3> QED BY <1>4, <2>1, <3>3, <3>4 DEF y
  <2> QED BY <2>2, <2>3
<1> QED BY <1>2, <1>3, <1>5

\* A write of SPDR puts its byte into the ring and takes the next input byte.
PutByte(b, n, m, v, skewed) ==
  [b EXCEPT !.spi_putb_buf[b.spi_putb_index] = v,
            !.spi_putb_index = (@ + 1) % (2 * m),
            !.spi_getb_index = (b.spi_getb_index + 1) % n,
            !.written = Append(Tail(@), v),
            !.skewed = skewed]

LEMMA BytePut ==
  ASSUME NEW n \in Nat \ {0}, NEW m \in Nat \ {0}, NEW b, BoardInv(b, n, m), NEW v \in Dip,
         NEW skewed \in BOOLEAN
  PROVE  /\ BoardInv(PutByte(b, n, m, v, skewed), n, m)
         /\ PutByte(b, n, m, v, skewed).skewed = skewed
         /\ PutByte(b, n, m, v, skewed).strobe = b.strobe
<1> DEFINE u == PutByte(b, n, m, v, skewed)
           q == 2 * m
           k == b.spi_putb_index
           buf == [b.spi_putb_buf EXCEPT ![k] = v]
           k1 == (k + 1) % q
           g1 == (b.spi_getb_index + 1) % n
           w == Append(Tail(b.written), v)
<1>1. /\ b \in Cpu(n, m)!Board /\ q \in Nat \ {0} /\ k \in 0 .. q - 1
      /\ b.spi_putb_buf \in [0 .. q - 1 -> Dip] /\ b.written \in Seq(Dip)
      /\ b.spi_getb_index \in 0 .. n - 1 /\ Ring(b.written, b.spi_putb_buf, k, q)
  <2>1. /\ b \in Cpu(n, m)!Board /\ Ringed(b, m) /\ 2 * m \in Nat \ {0}
    BY DEF BoardInv
  <2>2. /\ b.spi_getb_index \in 0 .. n - 1 /\ b.spi_putb_buf \in [0 .. 2 * m - 1 -> Dip]
        /\ b.spi_putb_index \in 0 .. 2 * m - 1 /\ b.written \in Seq(Dip)
    BY <2>1, BoardFields
  <2> QED BY <2>1, <2>2, Zenon DEF Ringed
<1>2. u = [b EXCEPT !.spi_putb_buf = buf, !.spi_putb_index = k1, !.spi_getb_index = g1,
                    !.written = w, !.skewed = skewed]
  BY <1>1 DEF Cpu!Board, PutByte
<1>3. g1 \in 0 .. n - 1
  <2> DEFINE x == b.spi_getb_index + 1
  <2>1. x \in Nat
    BY <1>1
  <2> HIDE DEF x
  <2>2. x % n \in 0 .. n - 1
    BY <2>1, SMT
  <2> QED BY <2>2 DEF x
<1> HIDE DEF q, k
<1>a. buf \in [0 .. q - 1 -> Dip]
  BY <1>1
<1>4. w \in Seq(Dip) /\ k1 \in 0 .. q - 1 /\ Ring(w, buf, k1, q)
  <2> DEFINE old == b.spi_putb_buf
             before == b.written
  <2>1. /\ q \in Nat \ {0} /\ k \in 0 .. q - 1 /\ old \in [0 .. q - 1 -> Dip]
        /\ before \in Seq(Dip) /\ Ring(before, old, k, q)
    BY <1>1
  <2> HIDE DEF old, before
  <2>2. /\ Append(Tail(before), v) \in Seq(Dip) /\ (k + 1) % q \in 0 .. q - 1
        /\ Ring(Append(Tail(before), v), [old EXCEPT ![k] = v], (k + 1) % q, q)
    BY <2>1, RingTurns, Zenon
  <2> QED BY <2>2, Zenon DEF old, before
<1> HIDE DEF u, buf, k1, g1, w
<1>5. u \in Cpu(n, m)!Board
  <2>1. buf \in [0 .. 2 * m - 1 -> Dip] /\ k1 \in 0 .. 2 * m - 1
    BY <1>a, <1>4 DEF q
  <2> QED BY <1>1, <1>2, <1>3, <1>4, <2>1, ZenonT(60)
          DEF Cpu!Board, Cpu!Input, Cpu!Output, Cpu!PutSize
<1>6. /\ u.spi_putb_buf = buf /\ u.spi_putb_index = k1 /\ u.written = w /\ u.skewed = skewed
      /\ u.strobe = b.strobe
  BY <1>1, <1>2 DEF Cpu!Board
<1> QED BY <1>4, <1>5, <1>6 DEF BoardInv, Ringed, q, u

\* PARALLEL_LOAD latches the inputs, and the ring of outputs stays.
LEMMA InputLatched ==
  ASSUME NEW n \in Nat \ {0}, NEW m \in Nat \ {0}, NEW b, BoardInv(b, n, m)
  PROVE  LET u == Cpu(n, m)!latch_input(b)
         IN  /\ BoardInv(u, n, m) /\ u.written = b.written /\ u.skewed = b.skewed
             /\ u.strobe = b.strobe /\ u.spi_getb_index = b.spi_getb_index
<1> DEFINE u == Cpu(n, m)!latch_input(b)
<1>1. b \in Cpu(n, m)!Board /\ Ringed(b, m) /\ b.buttons \in [0 .. n - 1 -> Dip]
  BY BoardFields DEF BoardInv
<1>2. u = [b EXCEPT !.spi_getb_buf = b.buttons]
  BY DEF Cpu!latch_input
<1> HIDE DEF u
<1>3. u \in Cpu(n, m)!Board
  BY <1>1, <1>2, ZenonT(60) DEF Cpu!Board, Cpu!Input
<1>4. /\ u.written = b.written /\ u.skewed = b.skewed /\ u.strobe = b.strobe
      /\ u.spi_getb_index = b.spi_getb_index
      /\ u.spi_putb_buf = b.spi_putb_buf /\ u.spi_putb_index = b.spi_putb_index
  BY <1>1, <1>2 DEF Cpu!Board
<1>5. Ringed(u, m)
  BY <1>1, <1>4 DEF Ringed
<1> QED BY <1>3, <1>4, <1>5 DEF BoardInv, u

\* STROBE latches the bytes written last, those of the last board first.
LEMMA OutputLatched ==
  ASSUME NEW n \in Nat \ {0}, NEW m \in Nat \ {0}, NEW b, BoardInv(b, n, m)
  PROVE  LET u == Cpu(n, m)!latch_output(b)
         IN  /\ BoardInv(u, n, m) /\ u.skewed = b.skewed /\ u.spi_getb_index = b.spi_getb_index
             /\ \A i \in 0 .. m - 1 :
                  LET j == 2 * (m - 1 - i)
                  IN  u.triac_buf[i] = b.written[j + 1] /\ u.relay_buf[i] = b.written[j + 2]
<1> DEFINE u == Cpu(n, m)!latch_output(b)
           w == b.written
           put(j) == b.spi_putb_buf[(b.spi_putb_index + j) % (2 * m)]
           triac == [i \in 0 .. m - 1 |-> put(2 * (m - 1 - i))]
           relay == [i \in 0 .. m - 1 |-> put(2 * (m - 1 - i) + 1)]
<1>1. /\ b \in Cpu(n, m)!Board /\ Ringed(b, m) /\ w \in Seq(Dip)
      /\ Len(w) = 2 * m /\ \A j \in 0 .. 2 * m - 1 : put(j) = w[j + 1]
  BY BoardFields DEF BoardInv, Ringed, Ring
<1>2. u = [b EXCEPT !.triac_buf = triac, !.relay_buf = relay]
  BY Zenon DEF Cpu!latch_output, Cpu!Output, Cpu!PutSize
<1> HIDE DEF w, put
<1>3. ASSUME NEW i \in 0 .. m - 1
      PROVE  LET j == 2 * (m - 1 - i)
             IN  /\ put(j) = w[j + 1] /\ put(j + 1) = w[j + 2]
                 /\ put(j) \in Dip /\ put(j + 1) \in Dip
  <2> DEFINE j == 2 * (m - 1 - i)
  <2>1. j \in 0 .. 2 * m - 2 /\ j \in Int
    OBVIOUS
  <2> HIDE DEF j
  <2>2. j \in 0 .. 2 * m - 1 /\ j + 1 \in 0 .. 2 * m - 1 /\ (j + 1) + 1 = j + 2
    BY <2>1
  <2>3. put(j) = w[j + 1] /\ put(j + 1) = w[j + 2]
    BY <1>1, <2>2
  <2>4. j + 1 \in 1 .. Len(w) /\ j + 2 \in 1 .. Len(w)
    BY <1>1, <2>1
  <2>5. w[j + 1] \in Dip /\ w[j + 2] \in Dip
    BY <1>1, <2>4, ElementOfSeq
  <2>6. put(j) \in Dip /\ put(j + 1) \in Dip
    BY <2>3, <2>5
  <2> QED BY <2>3, <2>6, Zenon DEF j
<1>4. triac \in [0 .. m - 1 -> Dip] /\ relay \in [0 .. m - 1 -> Dip]
  BY <1>3
<1>5. \A i \in 0 .. m - 1 :
        LET j == 2 * (m - 1 - i) IN triac[i] = w[j + 1] /\ relay[i] = w[j + 2]
  BY <1>3
<1> HIDE DEF u, triac, relay
<1>6. u \in Cpu(n, m)!Board
  BY <1>1, <1>2, <1>4, ZenonT(60) DEF Cpu!Board, Cpu!Output
<1>7. /\ u.written = b.written /\ u.skewed = b.skewed /\ u.spi_getb_index = b.spi_getb_index
      /\ u.triac_buf = triac /\ u.relay_buf = relay
      /\ u.spi_putb_buf = b.spi_putb_buf /\ u.spi_putb_index = b.spi_putb_index
  BY <1>1, <1>2 DEF Cpu!Board
<1>8. BoardInv(u, n, m)
  BY <1>1, <1>6, <1>7 DEF BoardInv, Ringed
<1>9. \A i \in 0 .. m - 1 :
        LET j == 2 * (m - 1 - i)
        IN  u.triac_buf[i] = b.written[j + 1] /\ u.relay_buf[i] = b.written[j + 2]
  BY <1>5, <1>7, Zenon DEF w
<1> QED BY <1>7, <1>8, <1>9, Zenon DEF u

\* While no write of SPDR was inhibited and no byte queued by hand, none waits in the SPI; and
\* the ring holds the bytes written last, whether or not their transfer was inhibited.
CpuInv(n, m) ==
  Pan!P!SpiOK(spi) /\ BoardInv(board, n, m) /\ (~board.skewed => spi.waiting = <<>>)

LEMMA CpuInit ==
  ASSUME NEW n \in Nat \ {0}, NEW m \in Nat \ {0}, Cpu(n, m)!Init
  PROVE  CpuInv(n, m)
<1> DEFINE put0 == [i \in 0 .. 2 * m - 1 |-> DipStart]
           w0 == [i \in 1 .. 2 * m |-> DipStart]
           in0 == [i \in 0 .. n - 1 |-> DipStart]
           out0 == [i \in 0 .. m - 1 |-> DipStart]
<1>1. /\ put0 \in [0 .. 2 * m - 1 -> Dip] /\ w0 \in Seq(Dip) /\ Len(w0) = 2 * m
      /\ in0 \in [0 .. n - 1 -> Dip] /\ out0 \in [0 .. m - 1 -> Dip]
      /\ 0 \in 0 .. n - 1 /\ 0 \in 0 .. 2 * m - 1
  BY InputAssumption
<1>2. Ring(w0, put0, 0, 2 * m)
  <2> SUFFICES ASSUME NEW j \in 0 .. 2 * m - 1 PROVE w0[j + 1] = put0[(0 + j) % (2 * m)]
    BY <1>1 DEF Ring
  <2> DEFINE q == 2 * m
             x == 0 + j
  <2>1. q \in Nat \ {0} /\ x = j /\ x \in 0 .. 2 * q - 1 /\ x < q
    OBVIOUS
  <2>2. x % q = j
    <3> HIDE DEF q, x
    <3> QED BY <2>1, Around
  <2>3. w0[j + 1] = DipStart
    OBVIOUS
  <2>4. put0[j] = DipStart
    OBVIOUS
  <2> QED BY <2>2, <2>3, <2>4, Zenon
<1>3. board = [buttons |-> in0, spi_getb_buf |-> in0, spi_getb_index |-> 0,
               spi_putb_buf |-> put0, spi_putb_index |-> 0, triac_buf |-> out0,
               relay_buf |-> out0, strobe |-> FALSE, written |-> w0, skewed |-> FALSE]
  BY Zenon DEF Cpu!Init, Cpu!Input, Cpu!Output, Cpu!PutSize
<1> HIDE DEF put0, w0, in0, out0
<1>4. board \in Cpu(n, m)!Board
  BY <1>1, <1>3, ZenonT(60) DEF Cpu!Board, Cpu!Input, Cpu!Output, Cpu!PutSize
<1>5. Ringed(board, m)
  BY <1>2, <1>3 DEF Ringed
<1>6. spi = Pan!P!SpiReset
  BY SameSpi DEF Cpu!Init
<1> QED BY <1>4, <1>5, <1>6, SpiStarts DEF CpuInv, BoardInv

LEMMA CpuNext ==
  ASSUME NEW n \in Nat \ {0}, NEW m \in Nat \ {0}, CpuInv(n, m), Cpu(n, m)!Next
  PROVE  /\ CpuInv(n, m)' /\ Cpu(n, m)!InputsInStepAction /\ Cpu(n, m)!RelaysShowWrittenAction
<1>1. /\ Pan!P!SpiOK(spi) /\ BoardInv(board, n, m) /\ (~board.skewed => spi.waiting = <<>>)
      /\ board \in Cpu(n, m)!Board /\ Ringed(board, m) /\ board.skewed \in BOOLEAN
      /\ board.spi_getb_buf \in [0 .. n - 1 -> Dip] /\ board.spi_getb_index \in 0 .. n - 1
      /\ board.buttons \in [0 .. n - 1 -> Dip] /\ board.strobe \in BOOLEAN
  BY BoardFields DEF CpuInv, BoardInv
<1>2. ASSUME NEW v \in Dip, Cpu(n, m)!nccpu_spi_putb(v)
      PROVE  /\ CpuInv(n, m)'
             /\ Cpu(n, m)!InputsInStepAction /\ Cpu(n, m)!RelaysShowWrittenAction
  <2> DEFINE byte == board.spi_getb_buf[board.spi_getb_index]
             inhibited == Pan!P!acknowledged(spi).spif
             skewed == board.skewed \/ inhibited
  <2>1. /\ spi' = Pan!P!spdr_putb(Pan!P!spi_in(spi, byte))
        /\ board' = PutByte(board, n, m, v, skewed)
    <3>0. \A s, w : /\ Cpu(n, m)!P!spi_in(s, w) = Pan!P!spi_in(s, w)
                    /\ Cpu(n, m)!P!acknowledged(s) = Pan!P!acknowledged(s)
                    /\ Cpu(n, m)!P!spdr_putb(s) = Pan!P!spdr_putb(s)
      BY SameSpi, Zenon
    <3>1. /\ Cpu(n, m)!P!spdr_putb(Cpu(n, m)!P!spi_in(spi, byte))
               = Pan!P!spdr_putb(Pan!P!spi_in(spi, byte))
          /\ Cpu(n, m)!P!acknowledged(spi) = Pan!P!acknowledged(spi)
      BY <3>0, Zenon
    <3>2. spi' = Cpu(n, m)!P!spdr_putb(Cpu(n, m)!P!spi_in(spi, byte))
      BY <1>2 DEF Cpu!nccpu_spi_putb
    <3>3. board' = [board EXCEPT !.spi_putb_buf[board.spi_putb_index] = v,
                                 !.spi_putb_index = (@ + 1) % (2 * m),
                                 !.spi_getb_index = (board.spi_getb_index + 1) % n,
                                 !.written = Append(Tail(@), v),
                                 !.skewed = @ \/ Cpu(n, m)!P!acknowledged(spi).spif]
      BY <1>2, Zenon DEF Cpu!nccpu_spi_putb, Cpu!PutSize
    <3> QED BY <1>1, <3>1, <3>2, <3>3, Zenon DEF PutByte
  <2>2. byte \in Dip /\ skewed \in BOOLEAN
    BY <1>1
  <2>3. /\ Pan!P!SpiOK(spi')
        /\ ~inhibited /\ spi.waiting = <<>> => spi'.waiting = <<>> /\ spi'.spdr = byte
    <3> HIDE DEF byte
    <3> QED BY <1>1, <2>1, <2>2, SpiPut
  <2>4. BoardInv(board', n, m) /\ board'.skewed = skewed /\ board'.strobe = board.strobe
    <3>1. ASSUME NEW x \in BOOLEAN
          PROVE  LET u == PutByte(board, n, m, v, x)
                 IN  BoardInv(u, n, m) /\ u.skewed = x /\ u.strobe = board.strobe
      BY <1>1, <3>1, BytePut
    <3> HIDE DEF skewed
    <3> QED BY <2>1, <2>2, <3>1
  <2>5. ~board'.skewed => spi'.waiting = <<>> /\ spi'.spdr = byte
    BY <1>1, <2>3, <2>4
  <2>6. CpuInv(n, m)'
    BY <2>3, <2>4, <2>5, Zenon DEF CpuInv
  <2> QED BY <2>4, <2>5, <2>6, Zenon DEF Cpu!InputsInStepAction, Cpu!RelaysShowWrittenAction
<1>3. ASSUME NEW load \in BOOLEAN, NEW strobe \in BOOLEAN, Cpu(n, m)!nccpu_porta_putb(load, strobe)
      PROVE  /\ CpuInv(n, m)'
             /\ Cpu(n, m)!InputsInStepAction /\ Cpu(n, m)!RelaysShowWrittenAction
  <2> DEFINE b == IF load THEN board ELSE Cpu(n, m)!latch_input(board)
             c == IF strobe /\ ~board.strobe THEN Cpu(n, m)!latch_output(b) ELSE b
  <2>1. spi' = spi /\ board' = [c EXCEPT !.strobe = strobe]
    BY <1>3, Zenon DEF Cpu!nccpu_porta_putb
  <2>2. /\ BoardInv(b, n, m) /\ b.written = board.written /\ b.skewed = board.skewed
        /\ b.strobe = board.strobe /\ b.spi_getb_index = board.spi_getb_index
    BY <1>1, InputLatched
  <2> HIDE DEF b
  <2>3. /\ BoardInv(c, n, m) /\ c.skewed = b.skewed /\ c.spi_getb_index = b.spi_getb_index
        /\ strobe /\ ~board.strobe =>
             \A i \in 0 .. m - 1 :
               LET j == 2 * (m - 1 - i)
               IN  c.triac_buf[i] = b.written[j + 1] /\ c.relay_buf[i] = b.written[j + 2]
    <3>1. CASE strobe /\ ~board.strobe
      <4> DEFINE u == Cpu(n, m)!latch_output(b)
      <4>1. /\ BoardInv(u, n, m) /\ u.skewed = b.skewed /\ u.spi_getb_index = b.spi_getb_index
            /\ \A i \in 0 .. m - 1 :
                 LET j == 2 * (m - 1 - i)
                 IN  u.triac_buf[i] = b.written[j + 1] /\ u.relay_buf[i] = b.written[j + 2]
        BY <2>2, OutputLatched
      <4>2. c = u
        BY <3>1
      <4> HIDE DEF u, c
      <4> QED BY <4>1, <4>2
    <3>2. CASE ~(strobe /\ ~board.strobe)
      BY <2>2, <3>2
    <3> QED BY <3>1, <3>2
  <2> HIDE DEF c
  <2>4. c \in Cpu(n, m)!Board /\ Ringed(c, m)
    BY <2>3 DEF BoardInv
  <2>5. board' \in Cpu(n, m)!Board
    BY <2>1, <2>4, ZenonT(60) DEF Cpu!Board
  <2>6. /\ board'.strobe = strobe /\ board'.skewed = c.skewed /\ board'.written = c.written
        /\ board'.spi_getb_index = c.spi_getb_index /\ board'.spi_putb_buf = c.spi_putb_buf
        /\ board'.spi_putb_index = c.spi_putb_index
        /\ board'.triac_buf = c.triac_buf /\ board'.relay_buf = c.relay_buf
    BY <2>1, <2>4 DEF Cpu!Board
  <2>7. BoardInv(board', n, m)
    BY <2>4, <2>5, <2>6 DEF BoardInv, Ringed
  <2>8. CpuInv(n, m)'
    BY <1>1, <2>1, <2>2, <2>3, <2>6, <2>7, Zenon DEF CpuInv
  <2>9. Cpu(n, m)!InputsInStepAction
    BY <1>1, <2>1, <2>2, <2>3, <2>6, Zenon DEF Cpu!InputsInStepAction
  <2>10. Cpu(n, m)!RelaysShowWrittenAction
    BY <2>2, <2>3, <2>6, Zenon DEF Cpu!RelaysShowWrittenAction, Cpu!Output
  <2> QED BY <2>8, <2>9, <2>10
<1>4. CASE Cpu(n, m)!nccpu_cmd
  <2>1. PICK i \in 0 .. n - 1 : \E v \in Dip : board' = [board EXCEPT !.buttons[i] = v]
    BY <1>4 DEF Cpu!nccpu_cmd, Cpu!Input
  <2>2. PICK v \in Dip : board' = [board EXCEPT !.buttons[i] = v]
    BY <2>1
  <2> DEFINE buttons == [board.buttons EXCEPT ![i] = v]
  <2>3. buttons \in [0 .. n - 1 -> Dip] /\ board' = [board EXCEPT !.buttons = buttons]
    BY <1>1, <2>2
  <2> HIDE DEF buttons
  <2>4. board' \in Cpu(n, m)!Board
    BY <1>1, <2>3, ZenonT(60) DEF Cpu!Board, Cpu!Input
  <2>5. /\ board'.strobe = board.strobe /\ board'.skewed = board.skewed
        /\ board'.written = board.written /\ board'.spi_getb_index = board.spi_getb_index
        /\ board'.spi_putb_buf = board.spi_putb_buf /\ board'.spi_putb_index = board.spi_putb_index
    BY <1>1, <2>3 DEF Cpu!Board
  <2>6. BoardInv(board', n, m)
    BY <1>1, <2>4, <2>5 DEF BoardInv, Ringed
  <2>7. spi' = spi
    BY <1>4 DEF Cpu!nccpu_cmd
  <2> QED BY <1>1, <2>5, <2>6, <2>7, Zenon
          DEF CpuInv, Cpu!InputsInStepAction, Cpu!RelaysShowWrittenAction
<1>5. CASE Cpu(n, m)!spi_access
  <2>1. /\ spi' \in {Pan!P!spsr_getb(spi), Pan!P!spdr_getb(spi)}
                     \cup {Pan!P!write_spsr(spi, b) : b \in BOOLEAN}
        /\ board' = board
    BY <1>5, SameSpi DEF Cpu!spi_access
  <2>2. Pan!P!SpiOK(spi') /\ spi'.waiting = spi.waiting
    BY <1>1, <2>1, SpiAccess
  <2> QED BY <1>1, <2>1, <2>2, Zenon
          DEF CpuInv, Cpu!InputsInStepAction, Cpu!RelaysShowWrittenAction
<1>6. CASE Cpu(n, m)!io_cmd
  <2>1. PICK v \in Dip : spi' = Pan!P!spi_in(spi, v)
    BY <1>6, SameSpi DEF Cpu!io_cmd
  <2>2. board' = [board EXCEPT !.skewed = TRUE] /\ Pan!P!SpiOK(spi')
    BY <1>1, <1>6, <2>1, SpiIn DEF Cpu!io_cmd
  <2>3. board' \in Cpu(n, m)!Board
    BY <1>1, <2>2, ZenonT(60) DEF Cpu!Board
  <2>4. /\ board'.strobe = board.strobe /\ board'.skewed
        /\ board'.written = board.written /\ board'.spi_putb_buf = board.spi_putb_buf
        /\ board'.spi_putb_index = board.spi_putb_index
    BY <1>1, <2>2 DEF Cpu!Board
  <2>5. BoardInv(board', n, m)
    BY <1>1, <2>3, <2>4 DEF BoardInv, Ringed
  <2> QED BY <1>1, <2>2, <2>4, <2>5, Zenon
          DEF CpuInv, Cpu!InputsInStepAction, Cpu!RelaysShowWrittenAction
<1> QED BY <1>2, <1>3, <1>4, <1>5, <1>6 DEF Cpu!Next

\* The two NCCPUs of MCBoards are such boards, the second with fewer inputs.
LEMMA SameCpu ==
  /\ Inputs!Init <=> Cpu(ButtonsSize, 1)!Init
  /\ Inputs!Next <=> Cpu(ButtonsSize, 1)!Next
  /\ Inputs!TypeOK <=> Cpu(ButtonsSize, 1)!TypeOK
  /\ Inputs!InputsInStepAction <=> Cpu(ButtonsSize, 1)!InputsInStepAction
  /\ Outputs!Init <=> Cpu(1, Boards)!Init
  /\ Outputs!Next => Cpu(1, Boards)!Next
  /\ Outputs!TypeOK <=> Cpu(1, Boards)!TypeOK
  /\ Outputs!RelaysShowWrittenAction <=> Cpu(1, Boards)!RelaysShowWrittenAction
<1> USE DEF Cpu!Input, Cpu!Output, Cpu!PutSize, Cpu!nccpu_cmd, Cpu!nccpu_spi_putb,
            Cpu!nccpu_porta_putb, Cpu!spi_access, Cpu!io_cmd, Cpu!P!write_spsr,
            Cpu!latch_input, Cpu!latch_output,
            Cpu!P!spi_in, Cpu!P!spi_nbytes, Cpu!P!acknowledged, Cpu!P!transfer,
            Cpu!P!spdr_putb, Cpu!P!spdr_getb, Cpu!P!spsr_getb, Cpu!P!SpiReset, Cpu!P!SpiOK,
            Cpu!P!Spi, Cpu!Board
<1> USE DEF Inputs!Input, Inputs!Output, Inputs!PutSize, Inputs!nccpu_cmd,
            Inputs!nccpu_spi_putb, Inputs!nccpu_porta_putb, Inputs!spi_access, Inputs!io_cmd,
            Inputs!P!write_spsr,
            Inputs!latch_input, Inputs!latch_output, Inputs!P!spi_in, Inputs!P!spi_nbytes,
            Inputs!P!acknowledged, Inputs!P!transfer, Inputs!P!spdr_putb, Inputs!P!spdr_getb,
            Inputs!P!spsr_getb, Inputs!P!SpiReset, Inputs!P!SpiOK, Inputs!P!Spi, Inputs!Board
<1>1. Inputs!Init <=> Cpu(ButtonsSize, 1)!Init
  BY Zenon DEF Inputs!Init, Cpu!Init
<1>2. Inputs!Next <=> Cpu(ButtonsSize, 1)!Next
  BY Zenon DEF Inputs!Next, Cpu!Next
<1>3. Inputs!TypeOK <=> Cpu(ButtonsSize, 1)!TypeOK
  BY Zenon DEF Inputs!TypeOK, Cpu!TypeOK
<1>4. Inputs!InputsInStepAction <=> Cpu(ButtonsSize, 1)!InputsInStepAction
  BY Zenon DEF Inputs!InputsInStepAction, Cpu!InputsInStepAction
<1> USE DEF Outputs!Input, Outputs!Output, Outputs!PutSize, Outputs!nccpu_cmd,
            Outputs!nccpu_spi_putb, Outputs!nccpu_porta_putb, Outputs!spi_access, Outputs!io_cmd,
            Outputs!P!write_spsr,
            Outputs!latch_input, Outputs!latch_output, Outputs!P!spi_in, Outputs!P!spi_nbytes,
            Outputs!P!acknowledged, Outputs!P!transfer, Outputs!P!spdr_putb,
            Outputs!P!spdr_getb, Outputs!P!spsr_getb, Outputs!P!SpiReset, Outputs!P!SpiOK,
            Outputs!P!Spi, Outputs!Board
<1>5. Outputs!Init <=> Cpu(1, Boards)!Init
  BY Zenon DEF Outputs!Init, Cpu!Init
<1>6. Outputs!Next => Cpu(1, Boards)!Next
  <2>1. \A v : v \in GivenBeside => v \in Dip
    BY InputAssumption
  <2> QED BY <2>1, Zenon DEF Outputs!Next, Cpu!Next
<1>7. Outputs!TypeOK <=> Cpu(1, Boards)!TypeOK
  BY Zenon DEF Outputs!TypeOK, Cpu!TypeOK
<1>8. Outputs!RelaysShowWrittenAction <=> Cpu(1, Boards)!RelaysShowWrittenAction
  BY Zenon DEF Outputs!RelaysShowWrittenAction, Cpu!RelaysShowWrittenAction
<1> QED BY <1>1, <1>2, <1>3, <1>4, <1>5, <1>6, <1>7, <1>8

-----------------------------------------------------------------------------
(* All the boards.                                                         *)

BoardsInv ==
  /\ build \in {"inputs", "outputs", "ncpan", "nc24r", "i2c"}
  /\ build = "inputs" => CpuInv(ButtonsSize, 1)
  /\ build = "outputs" => CpuInv(1, Boards)
  /\ build = "ncpan" => PanInv
  /\ build = "nc24r" => Relays24!StatusShowsOutputs
  /\ BusInv

Sizes == ButtonsSize \in Nat \ {0} /\ Boards \in Nat \ {0} /\ 1 \in Nat \ {0}

LEMMA BoardsInit == Init => BoardsInv
<1> SUFFICES ASSUME Init PROVE BoardsInv
  OBVIOUS
<1>1. Sizes
  BY SizesAssumption DEF Sizes
<1>2. CASE build = "outputs"
  <2>1. CpuInv(1, Boards)
    BY <1>1, <1>2, CpuInit, SameCpu DEF Init, Sizes
  <2> QED BY <1>2, <2>1, BusInit DEF Init, BoardsInv
<1>3. CASE build # "outputs"
  <2>1. CpuInv(ButtonsSize, 1)
    BY <1>1, <1>3, CpuInit, SameCpu DEF Init, Sizes
  <2>2. panel = [dipsw |-> DipStart, buttons |-> {}, driven |-> Pan!Column, on |-> Pan!Row,
                 sampled |-> "own", skewed |-> FALSE]
    BY DEF Init
  <2>3. panel \in Pan!Panel /\ ~panel.skewed /\ panel.sampled = "own"
    BY <2>2, InputAssumption DEF Pan!Panel
  <2>4. Pan!P!SpiOK(spi) /\ spi.waiting = <<>> /\ spi.spdr = "own"
    <3>1. spi = Cpu(ButtonsSize, 1)!P!SpiReset
      BY <1>3, SameCpu DEF Init, Cpu!Init
    <3> QED BY <3>1, SameSpi, SpiStarts
  <2>5. Relays24!StatusShowsOutputs
    BY DEF Init, Relays24!Init, Relays24!StatusShowsOutputs, Relays24!Relays, Relays24!Select
  <2> QED BY <1>3, <2>1, <2>3, <2>4, <2>5, BusInit DEF Init, BoardsInv, PanInv
<1> QED BY <1>2, <1>3

\* A step of one board leaves what moves in the others alone.
LEMMA BoardsStep ==
  ASSUME BoardsInv, [Next]_<<build, spi, board, panel, relays, clock, output, bus>>
  PROVE  /\ BoardsInv'
         /\ build = "inputs" =>
              Cpu(ButtonsSize, 1)!InputsInStepAction \/ UNCHANGED <<spi, board, panel>>
         /\ build = "ncpan" => Pan!DipIsCurrentAction \/ UNCHANGED <<spi, board, panel>>
         /\ build = "outputs" =>
              Cpu(1, Boards)!RelaysShowWrittenAction \/ UNCHANGED <<spi, board>>
<1>1. Sizes
  BY SizesAssumption DEF Sizes
<1>2. BusInv' /\ build' = build
  BY BusStep
  DEF BoardsInv, Next, step_of_inputs, step_of_outputs, step_of_ncpan, step_of_nc24r, step_of_i2c
<1>3. CASE step_of_inputs
  <2>1. CpuInv(ButtonsSize, 1)' /\ Cpu(ButtonsSize, 1)!InputsInStepAction
    BY <1>1, <1>3, CpuNext, SameCpu DEF step_of_inputs, BoardsInv, Sizes
  <2> QED BY <1>2, <1>3, <2>1, Zenon DEF step_of_inputs, BoardsInv
<1>4. CASE step_of_outputs
  <2>1. CpuInv(1, Boards)' /\ Cpu(1, Boards)!RelaysShowWrittenAction
    BY <1>1, <1>4, CpuNext, SameCpu DEF step_of_outputs, BoardsInv, Sizes
  <2> QED BY <1>2, <1>4, <2>1 DEF step_of_outputs, BoardsInv
<1>5. CASE step_of_ncpan
  <2>1. PanInv' /\ Pan!DipIsCurrentAction
    BY <1>5, PanNext DEF step_of_ncpan, BoardsInv
  <2> QED BY <1>2, <1>5, <2>1 DEF step_of_ncpan, BoardsInv
<1>6. CASE step_of_nc24r
  <2>1. Relays24!StatusShowsOutputs'
    BY <1>6, RelaysNext DEF step_of_nc24r, BoardsInv
  <2> QED BY <1>2, <1>6, <2>1 DEF step_of_nc24r, BoardsInv
<1>7. CASE UNCHANGED <<build, spi, board, panel, relays>>
  BY <1>2, <1>7
  DEF BoardsInv, CpuInv, PanInv, Relays24!StatusShowsOutputs
<1> QED BY <1>3, <1>4, <1>5, <1>6, <1>7 DEF Next, step_of_i2c

\* What the buffers of each board stand for: the NCCPU's and the NCPAN's hold no byte in the SPI
\* while no write was inhibited and "i spi" queued none, the ring of output bytes those written
\* last, and the bus as above.
THEOREM SpecInv == Spec => []BoardsInv
<1>1. BoardsInv /\ [Next]_<<build, spi, board, panel, relays, clock, output, bus>> => BoardsInv'
  BY BoardsStep
<1> QED BY <1>1, BoardsInit, PTL DEF Spec

\* The buffers of every board hold what they are for, the SPI's buffer keeps within its size,
\* and every bit of the NC24R's status is that of its relay (toggle_input corrects the swapped
\* bits both when it reads and when it sets).
THEOREM SpecTypeOK == Spec => []TypeOK
<1>1. BoardsInv => TypeOK
  BY SameCpu, SameSpi
  DEF BoardsInv, TypeOK, CpuInv, BoardInv, PanInv, BusInv, GoodBus, Cpu!TypeOK, Pan!TypeOK,
      I2c!TypeOK, I2c!Bit, Bit
<1> QED BY <1>1, SpecInv, PTL

\* For every number of input bytes: as long as no write of SPDR was inhibited and "i spi" queued no
\* byte, a transfer clocks in the next byte that PARALLEL_LOAD latched (nccpu_spi_putb queues it
\* before the SPI takes the oldest), and the NCPAN's SPDR holds the dip switch as it was at the
\* last write, whatever else was done with SPSR and SPDR.
THEOREM SpecInputsInStep == Spec => InputsInStep
<1>1. BoardsInv /\ [Next]_<<build, spi, board, panel, relays, clock, output, bus>> =>
        [/\ build = "inputs" => Inputs!InputsInStepAction
         /\ build = "ncpan" => Pan!DipIsCurrentAction]_<<spi, board, panel>>
  BY BoardsStep, SameCpu
<1> QED BY <1>1, SpecInv, PTL DEF Spec, InputsInStep

\* For every number of relay boards: STROBE shows the last bytes written to SPDR, those of the
\* last board first (the ring of output bytes turns with every write, inhibited or not).
THEOREM SpecRelaysShowWritten == Spec => RelaysShowWritten
<1>1. BoardsInv /\ [Next]_<<build, spi, board, panel, relays, clock, output, bus>> =>
        [build = "outputs" => Outputs!RelaysShowWrittenAction]_<<spi, board>>
  BY BoardsStep, SameCpu
<1> QED BY <1>1, SpecInv, PTL DEF Spec, RelaysShowWritten
=============================================================================
