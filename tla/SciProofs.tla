------------------------------ MODULE SciProofs ------------------------------
(***************************************************************************)
(* For every buffer size and every number of bytes: the receiver of Sci    *)
(* keeps inside its buffer and loses, doubles and reorders nothing that it *)
(* took in.                                                                *)
(*                                                                         *)
(* Three facts are inductive together: the window lies inside the buffer,  *)
(* which makes a byte stored behind it one that a later read finds; it     *)
(* holds bytes only (Filled); and with the bytes read it makes up what was *)
(* accepted.  One lemma follows sci_in, which the keyboard and the monitor *)
(* share, one the read of RDR.                                             *)
(***************************************************************************)
EXTENDS Sci, SequenceTheorems, TLAPS

\* The bytes of buffer b in a window of r bytes that starts at x, and that all of them are bytes.
Slice(b, x, r) == [i \in 1 .. r |-> b[x + i - 1]]
Full(b, x, r) == \A i \in 1 .. r : b[x + i - 1] \in Byte

Filled == Full(recvbuf, rxindex, rxinterrupts)

IInv == TypeOK /\ Filled /\ NoByteLost

\* A full window is a sequence of its length.
LEMMA SliceIsSeq ==
  ASSUME NEW b, NEW x, NEW r \in Nat, Full(b, x, r)
  PROVE  Slice(b, x, r) \in Seq(Byte) /\ Len(Slice(b, x, r)) = r
BY DEF Slice, Full

\* The window of Sci is a slice.
LEMMA WindowIsSlice == Window = Slice(recvbuf, rxindex, rxinterrupts)
BY DEF Window, Slice

-----------------------------------------------------------------------------
(* sci_in.                                                                 *)

\* It accepts a first part of what it is offered, and no more than fits.
LEMMA AcceptsFits ==
  ASSUME TypeOK, NEW s \in Seq(Byte)
  PROVE  /\ sci_in_accepts(Len(s)) \in 0 .. Len(s)
         /\ rxindex + rxinterrupts + sci_in_accepts(Len(s)) <= BufSize
<1>1. Len(s) \in Nat
  OBVIOUS
<1>2. /\ rxindex \in Nat /\ rxinterrupts \in Nat /\ BufSize \in Nat
      /\ rxindex + rxinterrupts <= BufSize
  BY BufSizeAssumption DEF TypeOK
<1> DEFINE room == BufSize - rxindex - rxinterrupts
<1>3. room \in Nat /\ rxindex + rxinterrupts + room = BufSize
  BY <1>2
<1>4. sci_in_accepts(Len(s)) = IF Len(s) <= room THEN Len(s) ELSE room
  BY DEF sci_in_accepts
<1> HIDE DEF room
<1>5. CASE Len(s) <= room
  BY <1>1, <1>2, <1>3, <1>4, <1>5
<1>6. CASE ~(Len(s) <= room)
  <2>1. sci_in_accepts(Len(s)) = room /\ room \in 0 .. Len(s)
    BY <1>1, <1>3, <1>4, <1>6
  <2> QED BY <1>2, <1>3, <2>1
<1> QED BY <1>5, <1>6

\* What it accepts is appended to the window, and the buffer stays one of its type.
LEMMA SciInAppends ==
  ASSUME TypeOK, Filled, NEW s \in Seq(Byte), sci_in(s), rxindex' = rxindex
  PROVE  \E taken \in Seq(Byte) :
           /\ Len(taken) = sci_in_accepts(Len(s))
           /\ taken = SubSeq(s, 1, sci_in_accepts(Len(s)))
           /\ recvbuf' \in [Index -> Byte \cup {None}]
           /\ rxinterrupts' = rxinterrupts + Len(taken)
           /\ rxindex + rxinterrupts' <= BufSize
           /\ accepted' = accepted \o taken
           /\ Filled'
           /\ Window' = Window \o taken
<1> DEFINE k == sci_in_accepts(Len(s))
           taken == SubSeq(s, 1, k)
           from == rxindex + rxinterrupts
<1>1. k \in 0 .. Len(s) /\ from + k <= BufSize /\ Len(s) \in Nat
  BY AcceptsFits
<1>2. taken \in Seq(Byte) /\ Len(taken) = k
  BY <1>1, SubSeqProperties
<1>3. /\ recvbuf' = [i \in Index |-> IF i >= from /\ i < from + k
                                     THEN taken[i - from + 1] ELSE recvbuf[i]]
      /\ rxinterrupts' = rxinterrupts + k
      /\ accepted' = accepted \o taken
  BY <1>2 DEF sci_in, sci_in_stores
<1> HIDE DEF k, taken
<1>4. rxindex \in Nat /\ rxinterrupts \in Nat /\ BufSize \in Nat /\ from <= BufSize
  BY BufSizeAssumption DEF TypeOK
<1>5. \A i \in 1 .. k : taken[i] \in Byte
  BY <1>2
<1>6. recvbuf' \in [Index -> Byte \cup {None}]
  <2> SUFFICES ASSUME NEW i \in Index
               PROVE (IF i >= from /\ i < from + k THEN taken[i - from + 1] ELSE recvbuf[i])
                       \in Byte \cup {None}
    BY <1>3
  <2>1. i \in Int
    BY <1>4 DEF Index
  <2>2. CASE i >= from /\ i < from + k
    <3>1. i - from + 1 \in 1 .. k
      BY <2>1, <2>2, <1>1, <1>4
    <3> QED BY <2>2, <3>1, <1>5
  <2>3. CASE ~(i >= from /\ i < from + k)
    BY <2>3 DEF TypeOK
  <2> QED BY <2>2, <2>3
<1>7. \A i \in 1 .. rxinterrupts + k :
        recvbuf'[rxindex + i - 1] = IF i <= rxinterrupts THEN recvbuf[rxindex + i - 1]
                                    ELSE taken[i - rxinterrupts]
  <2> TAKE i \in 1 .. rxinterrupts + k
  <2>1. i \in Nat /\ rxindex + i - 1 \in Index
    BY <1>1, <1>4 DEF Index
  <2>2. CASE i <= rxinterrupts
    BY <2>1, <2>2, <1>3, <1>4
  <2>3. CASE ~(i <= rxinterrupts)
    <3>1. rxindex + i - 1 >= from /\ rxindex + i - 1 < from + k
      BY <2>1, <2>3, <1>1, <1>4
    <3>2. (rxindex + i - 1) - from + 1 = i - rxinterrupts
      BY <2>1, <1>4
    <3> QED BY <2>1, <2>3, <3>1, <3>2, <1>3
  <2> QED BY <2>2, <2>3
<1>8. Full(recvbuf', rxindex, rxinterrupts + k)
  <2> SUFFICES ASSUME NEW i \in 1 .. rxinterrupts + k
               PROVE  recvbuf'[rxindex + i - 1] \in Byte
    BY DEF Full
  <2>1. CASE i <= rxinterrupts
    <3>1. i \in 1 .. rxinterrupts
      BY <2>1, <1>1, <1>4
    <3> QED BY <2>1, <3>1, <1>7 DEF Filled, Full
  <2>2. CASE ~(i <= rxinterrupts)
    <3>1. i - rxinterrupts \in 1 .. k
      BY <2>2, <1>1, <1>4
    <3> QED BY <2>2, <3>1, <1>5, <1>7
  <2> QED BY <2>1, <2>2
<1>9. Slice(recvbuf', rxindex, rxinterrupts + k) = Window \o taken
  <2> DEFINE w == Window
             new == Slice(recvbuf', rxindex, rxinterrupts + k)
  <2>1. w \in Seq(Byte) /\ Len(w) = rxinterrupts
    BY <1>4, SliceIsSeq, WindowIsSlice DEF Filled
  <2>2. new \in Seq(Byte) /\ Len(new) = rxinterrupts + k
    BY <1>1, <1>4, <1>8, SliceIsSeq
  <2>3. /\ w \o taken \in Seq(Byte) /\ Len(w \o taken) = rxinterrupts + k
        /\ \A i \in 1 .. rxinterrupts + k :
             (w \o taken)[i] = IF i <= rxinterrupts THEN w[i] ELSE taken[i - rxinterrupts]
    <3> HIDE DEF w
    <3> QED BY <1>2, <2>1, ConcatProperties
  <2>4. \A i \in 1 .. rxinterrupts + k : new[i] = (w \o taken)[i]
    <3> TAKE i \in 1 .. rxinterrupts + k
    <3>1. new[i] = recvbuf'[rxindex + i - 1]
      BY DEF Slice
    <3>2. i <= rxinterrupts => w[i] = recvbuf[rxindex + i - 1]
      BY <1>1, <1>4 DEF Window
    <3> HIDE DEF w, new
    <3> QED BY <3>1, <3>2, <2>3, <1>7
  <2> HIDE DEF w, new
  <2>5. new = w \o taken
    BY <2>2, <2>3, <2>4, SeqEqual
  <2> QED BY <2>5 DEF w, new
<1>10. Filled' /\ Window' = Window \o taken
  <2>1. Window' = Slice(recvbuf', rxindex, rxinterrupts + k)
    BY <1>3 DEF Window, Slice
  <2>2. Filled'
    BY <1>3, <1>8 DEF Filled
  <2> QED BY <1>9, <2>1, <2>2
<1>11. rxindex + rxinterrupts' <= BufSize /\ rxinterrupts' = rxinterrupts + Len(taken)
  BY <1>1, <1>2, <1>3, <1>4
<1>12. taken = SubSeq(s, 1, k)
  BY DEF taken
<1> QED BY <1>2, <1>3, <1>6, <1>10, <1>11, <1>12 DEF k

-----------------------------------------------------------------------------
(* The invariant.                                                          *)

\* sci_in, whoever offers the bytes, when the rest of the receiver stays.
LEMMA SciInKeeps ==
  ASSUME IInv, NEW s \in Seq(Byte), sci_in(s), UNCHANGED <<rxindex, rdr, running, eaten>>,
         c' \in Byte \cup {None}, arrived' \in [Source -> 0 .. MaxInput]
  PROVE  IInv'
<1>1. PICK taken \in Seq(Byte) :
         /\ Len(taken) = sci_in_accepts(Len(s))
         /\ recvbuf' \in [Index -> Byte \cup {None}]
         /\ rxinterrupts' = rxinterrupts + Len(taken)
         /\ rxindex + rxinterrupts' <= BufSize
         /\ accepted' = accepted \o taken
         /\ Filled'
         /\ Window' = Window \o taken
  BY SciInAppends DEF IInv
<1>2. rxindex \in Nat /\ rxinterrupts \in Nat /\ Len(taken) \in Nat
  BY DEF IInv, TypeOK
<1>3. Window \in Seq(Byte)
  BY <1>2, SliceIsSeq, WindowIsSlice DEF IInv, Filled
<1>4. accepted' \in Seq(Byte)
  BY <1>1, ConcatProperties DEF IInv, TypeOK
<1>5. NoByteLost'
  <2>1. eaten \in Seq(Byte) /\ accepted = eaten \o Window
    BY DEF IInv, TypeOK, NoByteLost
  <2>2. accepted' = (eaten \o Window) \o taken
    BY <1>1, <2>1
  <2>3. (eaten \o Window) \o taken = eaten \o (Window \o taken)
    <3>1. \A e, w, u \in Seq(Byte) : (e \o w) \o u = e \o (w \o u)
      BY ConcatAssociative, SMTT(40)
    <3> QED BY <1>3, <2>1, <3>1
  <2>4. accepted' = eaten' \o Window'
    BY <1>1, <2>2, <2>3
  <2> QED BY <2>4 DEF NoByteLost
<1>6. /\ rxindex' \in Nat /\ rxinterrupts' \in Nat
      /\ rxindex' + rxinterrupts' <= BufSize
      /\ (rxinterrupts' = 0 => rxindex' = 0)
  BY <1>1, <1>2 DEF IInv, TypeOK
<1> QED BY <1>1, <1>4, <1>5, <1>6 DEF IInv, TypeOK

\* A read of RDR when a byte waits: the first byte of the window goes, the rest stay.
LEMMA RdrTakesFirst ==
  ASSUME IInv, rdr_getb, rxinterrupts > 0
  PROVE  /\ rdr' \in Byte /\ rdr' = Window[1]
         /\ Window \in Seq(Byte) /\ Len(Window) = rxinterrupts
         /\ Filled'
         /\ Window' \in Seq(Byte) /\ Len(Window') = rxinterrupts - 1
         /\ \A i \in 1 .. rxinterrupts - 1 : Window'[i] = Window[i + 1]
<1>1. rxindex \in Nat /\ rxinterrupts \in Nat /\ rxindex + rxinterrupts <= BufSize
  BY DEF IInv, TypeOK
<1>2. /\ rdr' = recvbuf[rxindex] /\ rxinterrupts' = rxinterrupts - 1
      /\ eaten' = Append(eaten, rdr')
      /\ rxindex' = IF rxinterrupts <= 1 THEN 0 ELSE rxindex + 1
      /\ UNCHANGED <<recvbuf, c, running, arrived, accepted>>
  BY DEF rdr_getb, rdr_getb_index
<1>3. rdr' \in Byte /\ rdr' = Window[1]
  <2>1. 1 \in 1 .. rxinterrupts /\ rxindex + 1 - 1 = rxindex
    BY <1>1
  <2> QED BY <1>2, <2>1 DEF IInv, Filled, Full, Window
<1>4. \A i \in 1 .. rxinterrupts - 1 : recvbuf'[rxindex' + i - 1] = Window[i + 1]
  <2> TAKE i \in 1 .. rxinterrupts - 1
  <2>1. rxindex' = rxindex + 1 /\ i + 1 \in 1 .. rxinterrupts
    BY <1>1, <1>2
  <2>2. (rxindex + 1) + i - 1 = rxindex + (i + 1) - 1
    BY <1>1
  <2> QED BY <1>2, <2>1, <2>2 DEF Window
<1>5. \A i \in 1 .. rxinterrupts : Window[i] \in Byte
  BY DEF IInv, Filled, Full, Window
<1>6. Filled'
  <2>1. \A i \in 1 .. rxinterrupts - 1 : i + 1 \in 1 .. rxinterrupts
    BY <1>1
  <2>2. \A i \in 1 .. rxinterrupts - 1 : recvbuf'[rxindex' + i - 1] \in Byte
    BY <1>4, <1>5, <2>1
  <2> QED BY <1>2, <2>2 DEF Filled, Full
<1>7. Window \in Seq(Byte) /\ Len(Window) = rxinterrupts
  BY <1>1, SliceIsSeq, WindowIsSlice DEF IInv, Filled
<1>8. Window' \in Seq(Byte) /\ Len(Window') = rxinterrupts - 1
  <2>1. Window' = Slice(recvbuf', rxindex', rxinterrupts - 1)
    BY <1>2 DEF Window, Slice
  <2>2. Full(recvbuf', rxindex', rxinterrupts - 1)
    BY <1>2, <1>6 DEF Filled
  <2>3. rxinterrupts - 1 \in Nat
    BY <1>1
  <2> QED BY <2>1, <2>2, <2>3, SliceIsSeq
<1>9. \A i \in 1 .. rxinterrupts - 1 : Window'[i] = Window[i + 1]
  BY <1>2, <1>4 DEF Window
<1> QED BY <1>3, <1>6, <1>7, <1>8, <1>9

\* The read of RDR moves the first byte of the window to what was read, or changes nothing.
LEMMA RdrKeeps ==
  ASSUME IInv, rdr_getb
  PROVE  IInv'
<1>1. rxindex \in Nat /\ rxinterrupts \in Nat /\ rxindex + rxinterrupts <= BufSize
  BY DEF IInv, TypeOK
<1>2. CASE rxinterrupts = 0
  <2>1. rxindex' = rxindex
    BY <1>1, <1>2 DEF IInv, TypeOK, rdr_getb, rdr_getb_index
  <2>2. UNCHANGED vars
    BY <1>1, <1>2, <2>1 DEF rdr_getb, vars
  <2> QED BY <2>2 DEF IInv, TypeOK, Filled, NoByteLost, Window, vars
<1>3. CASE rxinterrupts > 0
  <2>1. /\ rxinterrupts' = rxinterrupts - 1 /\ eaten' = Append(eaten, rdr')
        /\ rxindex' = IF rxinterrupts <= 1 THEN 0 ELSE rxindex + 1
        /\ UNCHANGED <<recvbuf, c, running, arrived, accepted>>
    BY <1>3 DEF rdr_getb, rdr_getb_index
  <2>2. /\ rdr' \in Byte /\ rdr' = Window[1]
        /\ Window \in Seq(Byte) /\ Len(Window) = rxinterrupts
        /\ Filled'
        /\ Window' \in Seq(Byte) /\ Len(Window') = rxinterrupts - 1
        /\ \A i \in 1 .. rxinterrupts - 1 : Window'[i] = Window[i + 1]
    BY <1>3, RdrTakesFirst
  <2>3. eaten \in Seq(Byte) /\ accepted = eaten \o Window
    BY DEF IInv, TypeOK, NoByteLost
  <2>4. Append(eaten, rdr') \o Window' = eaten \o Window
    <3> DEFINE w == Window
               v == Window'
               e == Append(eaten, rdr')
               n == Len(eaten)
    <3> HIDE DEF w, v
    <3>1. w \in Seq(Byte) /\ Len(w) = rxinterrupts /\ v \in Seq(Byte)
          /\ Len(v) = rxinterrupts - 1
          /\ \A i \in 1 .. rxinterrupts - 1 : v[i] = w[i + 1]
      BY <2>2 DEF w, v
    <3>2. /\ e \in Seq(Byte) /\ Len(e) = n + 1 /\ e[n + 1] = w[1]
          /\ \A i \in 1 .. n : e[i] = eaten[i]
      BY <2>2, <2>3, AppendProperties DEF w
    <3>3. n \in Nat
      BY <2>3
    <3> HIDE DEF e, n
    <3>4. /\ e \o v \in Seq(Byte) /\ Len(e \o v) = (n + 1) + (rxinterrupts - 1)
          /\ \A i \in 1 .. (n + 1) + (rxinterrupts - 1) :
               (e \o v)[i] = IF i <= n + 1 THEN e[i] ELSE v[i - (n + 1)]
      <4>1. /\ e \o v \in Seq(Byte) /\ Len(e \o v) = Len(e) + Len(v)
            /\ \A i \in 1 .. Len(e) + Len(v) :
                 (e \o v)[i] = IF i <= Len(e) THEN e[i] ELSE v[i - Len(e)]
        BY <3>1, <3>2, ConcatProperties
      <4> QED BY <3>1, <3>2, <4>1
    <3>5. /\ eaten \o w \in Seq(Byte) /\ Len(eaten \o w) = n + rxinterrupts
          /\ \A i \in 1 .. n + rxinterrupts :
               (eaten \o w)[i] = IF i <= n THEN eaten[i] ELSE w[i - n]
      BY <3>1, <2>3, ConcatProperties DEF n
    <3>6. (n + 1) + (rxinterrupts - 1) = n + rxinterrupts
      BY <3>3, <1>1
    <3>7. \A i \in 1 .. n + rxinterrupts : (e \o v)[i] = (eaten \o w)[i]
      <4> TAKE i \in 1 .. n + rxinterrupts
      <4>1. CASE i <= n
        BY <4>1, <3>2, <3>3, <3>4, <3>5, <3>6
      <4>2. CASE i = n + 1
        <5>1. i - n = 1 /\ ~(i <= n) /\ i <= n + 1
          BY <4>2, <3>3
        <5>2. (e \o v)[i] = e[n + 1]
          BY <4>2, <5>1, <3>4, <3>6
        <5>3. (eaten \o w)[i] = w[1]
          BY <5>1, <3>5
        <5> QED BY <5>2, <5>3, <3>2
      <4>3. CASE i > n + 1
        <5>1. /\ i - (n + 1) \in 1 .. rxinterrupts - 1 /\ i - (n + 1) + 1 = i - n
              /\ ~(i <= n) /\ ~(i <= n + 1)
          BY <4>3, <3>3, <1>1
        <5>2. v[i - (n + 1)] = w[i - n]
          BY <5>1, <3>1
        <5>3. (e \o v)[i] = v[i - (n + 1)]
          BY <5>1, <3>4, <3>6
        <5>4. (eaten \o w)[i] = w[i - n]
          BY <5>1, <3>5
        <5> QED BY <5>2, <5>3, <5>4
      <4>4. i \in Int
        BY <3>3, <1>1
      <4>5. i <= n \/ i = n + 1 \/ i > n + 1
        BY <3>3, <4>4
      <4> QED BY <4>1, <4>2, <4>3, <4>5
    <3>8. e \o v = eaten \o w
      BY <3>4, <3>5, <3>6, <3>7, SeqEqual
    <3> QED BY <3>8 DEF e, v, w
  <2>5. NoByteLost'
    BY <2>1, <2>3, <2>4 DEF NoByteLost
  <2>6. eaten' \in Seq(Byte)
    BY <2>1, <2>2, <2>3, AppendProperties
  <2>7. /\ rxindex' \in Nat /\ rxinterrupts' \in Nat
         /\ rxindex' + rxinterrupts' <= BufSize
         /\ (rxinterrupts' = 0 => rxindex' = 0)
    BY <2>1, <1>1, <1>3, BufSizeAssumption
  <2> QED BY <2>1, <2>2, <2>5, <2>6, <2>7 DEF IInv, TypeOK
<1> QED BY <1>1, <1>2, <1>3

\* A poll offers one byte, numbered after the keys before it, and a command a few.
LEMMA OffersKeep ==
  ASSUME IInv
  PROVE  /\ io_poll => IInv'
         /\ \A n \in 1 .. MaxFeed : io_cmd(n) => IInv'
<1>1. c \in Byte \cup {None} /\ arrived \in [Source -> 0 .. MaxInput]
  BY DEF IInv, TypeOK
<1>2. ASSUME NEW key \in Byte, io_poll_offers(key), UNCHANGED <<rxindex, rdr, running, eaten>>,
             arrived' \in [Source -> 0 .. MaxInput]
      PROVE  IInv'
  <2>1. <<key>> \in Seq(Byte) /\ sci_in(<<key>>) /\ c' \in Byte \cup {None}
    BY <1>2 DEF io_poll_offers
  <2> QED BY <1>2, <2>1, SciInKeeps
<1>3. ASSUME io_poll PROVE IInv'
  <2>1. UNCHANGED <<rxindex, rdr, running, eaten>>
    BY <1>3 DEF io_poll
  <2>2. CASE c # None /\ io_poll_offers(c) /\ UNCHANGED arrived
    BY <1>1, <1>2, <2>1, <2>2
  <2>3. CASE /\ c = None /\ arrived["key"] < MaxInput
             /\ arrived' = [arrived EXCEPT !["key"] = @ + 1]
             /\ io_poll_offers([from |-> "key", nr |-> arrived["key"] + 1])
    <3>1. arrived["key"] + 1 \in 1 .. MaxInput
      BY <1>1, <2>3, BoundAssumption DEF Source
    <3>2. [from |-> "key", nr |-> arrived["key"] + 1] \in Byte
      BY <3>1 DEF Byte, Source
    <3>3. arrived' \in [Source -> 0 .. MaxInput]
      <4>1. arrived["key"] + 1 \in 0 .. MaxInput
        BY <3>1, BoundAssumption
      <4> QED BY <1>1, <2>3, <4>1
    <3> QED BY <1>2, <2>1, <2>3, <3>2, <3>3
  <2> QED BY <1>3, <2>2, <2>3 DEF io_poll
<1>4. ASSUME NEW n \in 1 .. MaxFeed, io_cmd(n) PROVE IInv'
  <2> DEFINE s == [i \in 1 .. n |-> [from |-> "command", nr |-> arrived["command"] + i]]
  <2>1. /\ UNCHANGED <<rxindex, rdr, c, running, eaten>> /\ sci_in(s)
        /\ arrived["command"] + n <= MaxInput
        /\ arrived' = [arrived EXCEPT !["command"] = @ + n]
    BY <1>4 DEF io_cmd
  <2>2. arrived["command"] \in Nat /\ n \in Nat
    BY <1>1, BoundAssumption DEF Source
  <2>3. arrived' \in [Source -> 0 .. MaxInput]
    <3>1. arrived["command"] + n \in 0 .. MaxInput
      BY <2>1, <2>2, BoundAssumption
    <3> QED BY <1>1, <2>1, <3>1
  <2>4. s \in Seq(Byte)
    <3>1. \A i \in 1 .. n : arrived["command"] + i \in 1 .. MaxInput
      BY <2>1, <2>2, BoundAssumption
    <3>2. \A i \in 1 .. n : [from |-> "command", nr |-> arrived["command"] + i] \in Byte
      BY <3>1 DEF Byte, Source
    <3> QED BY <2>2, <3>2
  <2> HIDE DEF s
  <2> QED BY <1>1, <2>1, <2>3, <2>4, SciInKeeps
<1> QED BY <1>3, <1>4

\* The empty receiver.
LEMMA InitInv == Init => IInv
<1> SUFFICES ASSUME Init PROVE IInv
  OBVIOUS
<1>1. TypeOK
  <2>1. arrived \in [Source -> 0 .. MaxInput]
    BY BoundAssumption DEF Init
  <2>2. /\ rxindex \in Nat /\ rxinterrupts \in Nat
        /\ rxindex + rxinterrupts <= BufSize /\ (rxinterrupts = 0 => rxindex = 0)
    BY BufSizeAssumption DEF Init
  <2>3. accepted \in Seq(Byte) /\ eaten \in Seq(Byte)
    BY EmptySeq DEF Init
  <2>4. recvbuf \in [Index -> Byte \cup {None}]
    BY DEF Init
  <2> QED BY <2>1, <2>2, <2>3, <2>4 DEF Init, TypeOK
<1>2. Filled
  BY DEF Init, Filled, Full
<1>3. Window = <<>>
  BY DEF Init, Window
<1>4. NoByteLost
  BY <1>3 DEF Init, NoByteLost
<1> QED BY <1>1, <1>2, <1>4 DEF IInv

\* Every action, and a stutter.
LEMMA StepInv == IInv /\ [Next]_vars => IInv'
<1> SUFFICES ASSUME IInv, [Next]_vars PROVE IInv'
  OBVIOUS
<1>1. CASE cpu_start
  BY <1>1 DEF cpu_start, IInv, TypeOK, Filled, Full, NoByteLost, Window
<1>2. CASE cpu_stop
  BY <1>2 DEF cpu_stop, IInv, TypeOK, Filled, Full, NoByteLost, Window
<1>3. CASE io_poll
  BY <1>3, OffersKeep
<1>4. CASE \E n \in 1 .. MaxFeed : io_cmd(n)
  BY <1>4, OffersKeep
<1>5. CASE rdr_getb
  BY <1>5, RdrKeeps
<1>6. CASE UNCHANGED vars
  BY <1>6 DEF vars, IInv, TypeOK, Filled, Full, NoByteLost, Window
<1> QED BY <1>1, <1>2, <1>3, <1>4, <1>5, <1>6 DEF Next

-----------------------------------------------------------------------------

\* The window stays inside recvbuf and goes back to its start whenever it is empty, for every
\* BUFSIZE: neither rdr_getb nor sci_in indexes past the array.
THEOREM SpecTypeOK == Spec => []TypeOK
<1>1. IInv => TypeOK
  BY DEF IInv
<1> QED BY InitInv, StepInv, <1>1, PTL DEF Spec

\* Every byte the receiver took in has been read, once and in order, or waits in the window:
\* however the reads of the program, the polls of the keyboard and the commands of the user
\* interleave, for every BUFSIZE and every number of bytes.
THEOREM SpecNoByteLost == Spec => []NoByteLost
<1>1. IInv => NoByteLost
  BY DEF IInv
<1> QED BY InitInv, StepInv, <1>1, PTL DEF Spec
-----------------------------------------------------------------------------
(* The refinement of SerialFifo.                                           *)

\* sci_in refuses a byte only while the window is not empty.
LEMMA RefusedWhileWaiting ==
  ASSUME IInv, NEW n \in Nat \ {0}, sci_in_accepts(n) = 0
  PROVE  Window # <<>>
<1>1. /\ rxindex \in Nat /\ rxinterrupts \in Nat /\ BufSize \in Nat /\ BufSize > 0
      /\ rxindex + rxinterrupts <= BufSize /\ (rxinterrupts = 0 => rxindex = 0)
  BY BufSizeAssumption DEF IInv, TypeOK
<1>2. rxinterrupts # 0
  BY <1>1 DEF sci_in_accepts
<1>3. Window \in Seq(Byte) /\ Len(Window) = rxinterrupts
  BY <1>1, SliceIsSeq, WindowIsSlice DEF IInv, Filled
<1> QED BY <1>2, <1>3, EmptySeq

\* A key offered is taken in, or kept while the window is not empty.
LEMMA KeyOffered ==
  ASSUME IInv, NEW key \in Byte, io_poll_offers(key), rxindex' = rxindex
  PROVE  \/ c' = None /\ Window' = Append(Window, key)
         \/ c' = key /\ Window' = Window /\ Window # <<>>
<1> DEFINE s == <<key>>
<1>1. s \in Seq(Byte) /\ Len(s) = 1 /\ s[1] = key
  OBVIOUS
<1>2. /\ sci_in(s)
      /\ c' = IF sci_in_accepts(Len(s)) = 1 THEN None ELSE key
  BY <1>1 DEF io_poll_offers
<1>3. sci_in_accepts(Len(s)) \in 0 .. 1
  BY <1>1, AcceptsFits DEF IInv
<1>4. Window \in Seq(Byte)
  BY SliceIsSeq, WindowIsSlice DEF IInv, Filled, TypeOK
<1>5. PICK taken \in Seq(Byte) :
        /\ Len(taken) = sci_in_accepts(Len(s))
        /\ taken = SubSeq(s, 1, sci_in_accepts(Len(s)))
        /\ Window' = Window \o taken
  BY <1>1, <1>2, SciInAppends DEF IInv
<1>6. CASE sci_in_accepts(Len(s)) = 1
  <2>1. taken = s
    <3> HIDE DEF s
    <3>1. Len(taken) = 1 /\ taken[1] = s[1]
      BY <1>1, <1>5, <1>6
    <3> QED BY <1>1, <3>1, SeqEqual
  <2>2. Window \o s = Append(Window, key)
    BY <1>4, AppendIsConcat
  <2> QED BY <1>2, <1>5, <1>6, <2>1, <2>2
<1>7. CASE sci_in_accepts(Len(s)) = 0
  <2>1. taken = <<>>
    BY <1>5, <1>7, EmptySeq
  <2>2. Window \o <<>> = Window
    BY <1>4, ConcatEmptySeq
  <2>3. Window # <<>>
    BY <1>1, <1>7, RefusedWhileWaiting
  <2>4. c' = key
    BY <1>2, <1>7
  <2>5. Window' = Window
    BY <1>5, <2>1, <2>2, Zenon
  <2> QED BY <2>3, <2>4, <2>5
<1> QED BY <1>3, <1>6, <1>7

\* A poll types a key, accepts the one held, or finds it still refused.
LEMMA PollRefines ==
  ASSUME IInv, io_poll
  PROVE  Fifo!Type \/ Fifo!Accept \/ UNCHANGED Fifo!vars
<1>1. rxindex' = rxindex /\ rdr' = rdr
  BY DEF io_poll
<1>2. CASE c # None /\ io_poll_offers(c) /\ UNCHANGED arrived
  <2>1. c \in Byte
    BY <1>2 DEF IInv, TypeOK
  <2>2. \/ c' = None /\ Window' = Append(Window, c)
        \/ c' = c /\ Window' = Window
    BY <1>1, <1>2, <2>1, KeyOffered
  <2> QED BY <1>1, <1>2, <2>2 DEF Fifo!Accept, Fifo!vars
<1>3. CASE /\ c = None /\ arrived["key"] < MaxInput
           /\ arrived' = [arrived EXCEPT !["key"] = @ + 1]
           /\ io_poll_offers([from |-> "key", nr |-> arrived["key"] + 1])
  <2> DEFINE key == [from |-> "key", nr |-> arrived["key"] + 1]
  <2>1. key \in Byte
    <3>1. arrived["key"] + 1 \in 1 .. MaxInput
      BY <1>3, BoundAssumption DEF IInv, TypeOK, Source
    <3> QED BY <3>1 DEF Byte, Source
  <2>2. \/ c' = None /\ Window' = Append(Window, key)
        \/ c' = key /\ Window' = Window /\ Window # <<>>
    BY <1>1, <1>3, <2>1, KeyOffered
  <2>3. key = Fifo!Arrival("key", arrived["key"] + 1)
    BY DEF Fifo!Arrival
  <2> HIDE DEF key
  <2> QED BY <1>1, <1>3, <2>2, <2>3 DEF Fifo!Type
<1> QED BY <1>2, <1>3 DEF io_poll

\* A command gives its bytes, of which a first part is taken in.
LEMMA CommandRefines ==
  ASSUME IInv, NEW n \in 1 .. MaxFeed, io_cmd(n)
  PROVE  Fifo!Feed(n)
<1> DEFINE s == [i \in 1 .. n |-> [from |-> "command", nr |-> arrived["command"] + i]]
<1>1. /\ UNCHANGED <<rxindex, rdr, c>> /\ sci_in(s)
      /\ arrived["command"] + n <= MaxInput
      /\ arrived' = [arrived EXCEPT !["command"] = @ + n]
  BY DEF io_cmd
<1>2. arrived["command"] \in Nat /\ n \in Nat \ {0}
  BY BoundAssumption DEF IInv, TypeOK, Source
<1>3. s \in Seq(Byte) /\ Len(s) = n
  <2>1. \A i \in 1 .. n : arrived["command"] + i \in 1 .. MaxInput
    BY <1>1, <1>2, BoundAssumption
  <2>2. \A i \in 1 .. n : [from |-> "command", nr |-> arrived["command"] + i] \in Byte
    BY <2>1 DEF Byte, Source
  <2> QED BY <1>2, <2>2
<1> DEFINE k == sci_in_accepts(Len(s))
<1>4. k \in 0 .. n
  BY <1>3, AcceptsFits DEF IInv
<1>5. Window' = Window \o SubSeq(s, 1, k)
  <2> HIDE DEF s
  <2> QED BY <1>1, <1>3, SciInAppends DEF IInv
<1>6. SubSeq(s, 1, k) = [i \in 1 .. k |-> Fifo!Arrival("command", arrived["command"] + i)]
  <2> HIDE DEF k
  <2>1. SubSeq(s, 1, k) = [i \in 1 .. k |-> s[i]]
    BY <1>2, <1>3, <1>4
  <2>2. \A i \in 1 .. k : s[i] = Fifo!Arrival("command", arrived["command"] + i)
    BY <1>2, <1>4 DEF Fifo!Arrival
  <2> QED BY <2>1, <2>2
<1>7. k = 0 => Window # <<>>
  <2> HIDE DEF s
  <2> QED BY <1>2, <1>3, RefusedWhileWaiting
<1> HIDE DEF k
<1> QED BY <1>1, <1>4, <1>5, <1>6, <1>7 DEF Fifo!Feed

\* A read takes the head of the window; one that finds nothing is no step.
LEMMA ReadRefines ==
  ASSUME IInv, rdr_getb
  PROVE  Fifo!Read \/ UNCHANGED Fifo!vars
<1>1. rxinterrupts \in Nat /\ UNCHANGED <<arrived, c>>
  BY DEF IInv, TypeOK, rdr_getb
<1>2. CASE rxinterrupts = 0
  <2>1. rxindex' = rxindex /\ UNCHANGED <<recvbuf, rxinterrupts, rdr>>
    BY <1>2 DEF IInv, TypeOK, rdr_getb, rdr_getb_index
  <2> QED BY <1>1, <2>1 DEF Fifo!vars, Window
<1>3. CASE rxinterrupts > 0
  <2> DEFINE w == Window
             v == Window'
  <2>1. /\ rdr' = w[1] /\ w \in Seq(Byte) /\ Len(w) = rxinterrupts
        /\ v \in Seq(Byte) /\ Len(v) = rxinterrupts - 1
        /\ \A i \in 1 .. rxinterrupts - 1 : v[i] = w[i + 1]
    BY <1>3, RdrTakesFirst
  <2> HIDE DEF w, v
  <2>2. w # <<>>
    BY <1>3, <2>1, EmptySeq
  <2>3. rdr' = Head(w)
    BY <2>1, <2>2
  <2>4. v = Tail(w)
    <3>1. /\ Tail(w) \in Seq(Byte) /\ Len(Tail(w)) = rxinterrupts - 1
          /\ \A i \in 1 .. rxinterrupts - 1 : Tail(w)[i] = w[i + 1]
      BY <2>1, <2>2, HeadTailProperties
    <3> QED BY <2>1, <3>1, SeqEqual
  <2> QED BY <1>1, <2>2, <2>3, <2>4 DEF Fifo!Read, w, v
<1> QED BY <1>1, <1>2, <1>3

\* The receiver with the keyboard and the commands implements SerialFifo, for every BUFSIZE: what
\* the program reads is what arrived, in order, no key is dropped, and nothing is refused while
\* no byte waits.
THEOREM SpecImplementsFifo == Spec => ImplementsFifo
<1>1. Init => Fifo!Init
  <2>1. Init => Window = <<>>
    BY DEF Init, Window
  <2> QED BY <2>1 DEF Init, Fifo!Init, Source
<1>2. IInv /\ [Next]_vars => [Fifo!Next]_Fifo!vars
  <2> SUFFICES ASSUME IInv, [Next]_vars PROVE Fifo!Next \/ UNCHANGED Fifo!vars
    OBVIOUS
  <2>1. CASE cpu_start \/ cpu_stop \/ UNCHANGED vars
    BY <2>1 DEF cpu_start, cpu_stop, vars, Fifo!vars, Window
  <2>2. CASE io_poll
    BY <2>2, PollRefines DEF Fifo!Next
  <2>3. CASE \E n \in 1 .. MaxFeed : io_cmd(n)
    BY <2>3, CommandRefines DEF Fifo!Next
  <2>4. CASE rdr_getb
    BY <2>4, ReadRefines DEF Fifo!Next
  <2> QED BY <2>1, <2>2, <2>3, <2>4 DEF Next
<1> QED BY InitInv, StepInv, <1>1, <1>2, PTL DEF Spec, ImplementsFifo, Fifo!Spec

-----------------------------------------------------------------------------
(* The way of a key that is held back to its acceptance.                   *)

\* What a step does to a key held back while the program runs: it stays the same key or is taken
\* in, the window does not grow meanwhile, each read of a waiting byte shrinks it, and once it is
\* empty the poll takes the key in.
HeldKeyAdvances ==
  [][c # None /\ running =>
       /\ c' = c \/ (c' = None /\ accepted' = Append(accepted, c))
       /\ c' = c => rxinterrupts' <= rxinterrupts
       /\ rdr_getb => rxinterrupts = 0 \/ rxinterrupts' < rxinterrupts
       /\ io_poll /\ rxinterrupts = 0 => c' = None]_vars

\* For every BUFSIZE a held key has no more reads of RDR to wait for than bytes are waiting: its
\* place does not get worse, every read brings it nearer, and no poll finds an empty window full.
\* This is the step of HeldKeyAccepted, whose induction over the window is beyond the provers.
THEOREM SpecHeldKeyAdvances == Spec => HeldKeyAdvances
<1> DEFINE Held == c # None /\ running
           Advances == /\ c' = c \/ (c' = None /\ accepted' = Append(accepted, c))
                       /\ c' = c => rxinterrupts' <= rxinterrupts
                       /\ rdr_getb => rxinterrupts = 0 \/ rxinterrupts' < rxinterrupts
                       /\ io_poll /\ rxinterrupts = 0 => c' = None
<1>1. ASSUME IInv, Held, Next PROVE Advances
  <2>1. /\ rxindex \in Nat /\ rxinterrupts \in Nat /\ BufSize \in Nat \ {0}
        /\ rxindex + rxinterrupts <= BufSize /\ (rxinterrupts = 0 => rxindex = 0)
        /\ accepted \in Seq(Byte) /\ c \in Byte
    BY <1>1, BufSizeAssumption DEF IInv, TypeOK
  <2>2. ASSUME io_poll
        PROVE  /\ \/ c' = c /\ rxinterrupts' = rxinterrupts
                  \/ c' = None /\ accepted' = Append(accepted, c)
               /\ rxinterrupts = 0 => c' = None
    <3> DEFINE n == sci_in_accepts(1)
               taken == SubSeq(<<c>>, 1, n)
    <3>1. /\ rxinterrupts' = rxinterrupts + Len(taken) /\ accepted' = accepted \o taken
          /\ c' = IF n = 1 THEN None ELSE c
      BY <1>1, <2>2 DEF io_poll, io_poll_offers, sci_in
    <3>2. n \in 0 .. 1 /\ (rxinterrupts = 0 => n = 1)
      BY <2>1 DEF sci_in_accepts
    <3>3. CASE n = 1
      <4>1. taken = <<c>>
        <5> DEFINE s == <<c>>
        <5>1. s \in Seq(Byte) /\ Len(s) = 1
          BY <2>1
        <5> HIDE DEF s
        <5>2. SubSeq(s, 1, Len(s)) = s
          BY <5>1, SubSeqFull
        <5> QED BY <3>3, <5>1, <5>2 DEF s
      <4>2. accepted \o <<c>> = Append(accepted, c)
        BY <2>1, AppendIsConcat
      <4> HIDE DEF taken
      <4> QED BY <3>1, <3>3, <4>1, <4>2
    <3>4. CASE n = 0
      <4>1. Len(taken) = 0
        BY <3>4
      <4> HIDE DEF n, taken
      <4> QED BY <2>1, <3>1, <3>2, <3>4, <4>1
    <3> QED BY <3>2, <3>3, <3>4
  <2>3. ASSUME rdr_getb
        PROVE  c' = c /\ IF rxinterrupts = 0 THEN rxinterrupts' = 0
                         ELSE rxinterrupts' = rxinterrupts - 1
    BY <2>1, <2>3 DEF rdr_getb
  <2>4. cpu_stop => c' = c /\ rxinterrupts' = rxinterrupts
    BY DEF cpu_stop
  <2>5. io_poll \/ rdr_getb \/ cpu_stop
    BY <1>1 DEF Next, cpu_start, io_cmd
  <2>6. c' = c \/ (c' = None /\ accepted' = Append(accepted, c))
    BY <2>2, <2>3, <2>4, <2>5
  <2>7. c' = c => rxinterrupts' <= rxinterrupts
    BY <1>1, <2>1, <2>2, <2>3, <2>4, <2>5
  <2>8. rdr_getb => rxinterrupts = 0 \/ rxinterrupts' < rxinterrupts
    BY <2>1, <2>3
  <2> QED BY <2>2, <2>6, <2>7, <2>8
<1> QED BY <1>1, InitInv, StepInv, PTL DEF Spec, HeldKeyAdvances
=============================================================================
