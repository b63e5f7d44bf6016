--------------------------- MODULE CallStackProofs ---------------------------
(***************************************************************************)
(* For every stack size, every MAXCALLSTACK and every family: the call     *)
(* stack of CallStack is nested and holds the oldest calls that have not   *)
(* returned.                                                               *)
(*                                                                         *)
(* The invariants are about one instruction, which moves the stack pointer *)
(* up to nine times, a byte at a time.  The inductive invariant is         *)
(* therefore stated of a pair: the record s that reg_setsp works on, and   *)
(* the calls cs that have not returned (Agree).  One lemma shows that a    *)
(* call of reg_setsp preserves it, two more follow it through n pushed and *)
(* n pulled bytes, and each instruction chains them.                       *)
(***************************************************************************)
EXTENDS CallStack, SequenceTheorems, FiniteSetTheorems, TLAPS

Least(m, n) == IF m < n THEN m ELSE n

\* Frames in the order of nesting: the outer ones were entered with a higher stack.
Ordered(fs) ==
  \A i, j \in 1 .. Len(fs) : i <= j => fs[i].stack_on_entry >= fs[j].stack_on_entry

\* Survive(cs, value, n): the first n frames of cs are those entered at or above value.
Survive(cs, value, n) ==
  /\ n \in 0 .. Len(cs)
  /\ \A i \in 1 .. Len(cs) : i <= n <=> cs[i].stack_on_entry >= value

\* The inductive invariant, of a stack record s and the calls cs that have not returned.
Agree(s, cs) ==
  /\ s.sp \in SP
  /\ s = [sp |-> s.sp, elements |-> s.elements]
  /\ cs \in Seq(Frame)
  /\ Ordered(cs)
  /\ \A i \in 1 .. Len(cs) : cs[i].stack_on_entry >= s.sp
  /\ s.elements = SubSeq(cs, 1, Least(Len(cs), MaxCallStack))

IInv ==
  /\ Agree(Stack, calls)
  /\ call_level \in UInt

-----------------------------------------------------------------------------
(* Frames that survive a move of the stack pointer.                        *)

LEMMA FrameTyped ==
  ASSUME NEW cs \in Seq(Frame)
  PROVE  /\ Len(cs) \in Nat
         /\ \A i \in 1 .. Len(cs) : cs[i] \in Frame
         /\ \A i \in 1 .. Len(cs) : cs[i].stack_on_entry \in Nat /\ cs[i].stack_on_entry < SPSize
<1>1. Len(cs) \in Nat /\ \A i \in 1 .. Len(cs) : cs[i] \in Frame
  OBVIOUS
<1>2. \A f \in Frame : f.stack_on_entry \in Nat /\ f.stack_on_entry < SPSize
  BY SizeAssumption DEF Frame, SP
<1> QED BY <1>1, <1>2

\* The library's fact about intervals, for those of Nat that start at 1.
LEMMA IntervalSize ==
  ASSUME NEW k \in Nat
  PROVE  IsFiniteSet(1 .. k) /\ Cardinality(1 .. k) = k
<1>1. /\ IsFiniteSet(1 .. k)
      /\ Cardinality(1 .. k) = IF 1 > k THEN 0 ELSE k - 1 + 1
  <2>1. 1 \in Int /\ k \in Int
    OBVIOUS
  <2> QED BY <2>1, FS_Interval, Zenon
<1>2. (IF 1 > k THEN 0 ELSE k - 1 + 1) = k
  OBVIOUS
<1> QED BY <1>1, <1>2

\* In nested frames, those at or above a value come first: there is a place to cut.
LEMMA CutExists ==
  ASSUME NEW cs \in Seq(Frame), Ordered(cs), NEW value \in Nat
  PROVE  \E n \in 0 .. Len(cs) : Survive(cs, value, n)
<1> DEFINE D == {i \in 1 .. Len(cs) : cs[i].stack_on_entry >= value}
           n == Cardinality(D)
<1>1. Len(cs) \in Nat /\ \A i \in 1 .. Len(cs) : cs[i].stack_on_entry \in Nat
  BY FrameTyped
<1>2. IsFiniteSet(D) /\ n \in 0 .. Len(cs)
  <2>1. IsFiniteSet(1 .. Len(cs)) /\ Cardinality(1 .. Len(cs)) = Len(cs)
    BY <1>1, IntervalSize, Zenon
  <2>2. D \in SUBSET (1 .. Len(cs))
    OBVIOUS
  <2> HIDE DEF D
  <2>3. IsFiniteSet(D) /\ Cardinality(D) <= Len(cs)
    BY <2>1, <2>2, FS_Subset
  <2>4. Cardinality(D) \in Nat
    BY <2>3, FS_CardinalityType
  <2> QED BY <1>1, <2>3, <2>4
<1>3. D \subseteq 1 .. n
  <2> SUFFICES ASSUME NEW i \in D PROVE i <= n
    BY <1>1, <1>2
  <2>1. 1 .. i \subseteq D
    BY <1>1 DEF Ordered
  <2>2. Cardinality(1 .. i) = i
    BY <1>1, IntervalSize
  <2> HIDE DEF D
  <2> QED BY <1>2, <2>1, <2>2, FS_Subset
<1>4. D = 1 .. n
  <2>1. IsFiniteSet(1 .. n) /\ Cardinality(1 .. n) = n
    BY <1>2, IntervalSize
  <2> HIDE DEF D
  <2> QED BY <1>3, <2>1, FS_Subset
<1>5. \A i \in 1 .. Len(cs) : i <= n <=> cs[i].stack_on_entry >= value
  <2> SUFFICES ASSUME NEW i \in 1 .. Len(cs) PROVE i \in 1 .. n <=> i \in D
    BY <1>1, <1>2
  <2> QED BY <1>4
<1> HIDE DEF n
<1> QED BY <1>2, <1>5 DEF Survive

\* Outlive cuts there.
LEMMA OutliveCuts ==
  ASSUME NEW cs \in Seq(Frame), Ordered(cs), NEW value \in Nat
  PROVE  \E n \in 0 .. Len(cs) : Survive(cs, value, n) /\ Outlive(cs, value) = SubSeq(cs, 1, n)
<1> DEFINE n == CHOOSE k \in 0 .. Len(cs) :
                  \A i \in 1 .. Len(cs) : i <= k <=> cs[i].stack_on_entry >= value
<1>1. n \in 0 .. Len(cs) /\ \A i \in 1 .. Len(cs) : i <= n <=> cs[i].stack_on_entry >= value
  BY CutExists DEF Survive
<1> QED BY <1>1 DEF Survive, Outlive

\* The pop loop, run on the first m frames, cuts there too, or does not reach the cut.
LEMMA PopAboveCuts ==
  ASSUME NEW cs \in Seq(Frame), Ordered(cs), NEW value \in Nat,
         NEW n \in 0 .. Len(cs), Survive(cs, value, n), NEW m \in 0 .. Len(cs)
  PROVE  PopAbove(SubSeq(cs, 1, m), value) = SubSeq(cs, 1, Least(n, m))
<1> DEFINE fs == SubSeq(cs, 1, m)
           Stops(k) == /\ k = 0 \/ fs[k].stack_on_entry >= value
                       /\ \A i \in k + 1 .. Len(fs) : fs[i].stack_on_entry < value
           k0 == CHOOSE k \in 0 .. Len(fs) : Stops(k)
<1>1. Len(cs) \in Nat /\ \A i \in 1 .. Len(cs) : cs[i] \in Frame /\ cs[i].stack_on_entry \in Nat
  BY FrameTyped
<1>2. fs \in Seq(Frame) /\ Len(fs) = m /\ \A i \in 1 .. m : fs[i] = cs[i]
  BY <1>1, SubSeqProperties
<1>3. \A k \in 0 .. Len(fs) : Stops(k) <=> k = Least(n, m)
  BY <1>1, <1>2 DEF Survive, Least
<1>4. Least(n, m) \in 0 .. Len(fs)
  BY <1>1, <1>2 DEF Least
<1>5. k0 = Least(n, m)
  <2> HIDE DEF Stops
  <2> QED BY <1>3, <1>4
<1>6. PopAbove(fs, value) = SubSeq(fs, 1, Least(n, m))
  BY <1>5 DEF PopAbove
<1>7. SubSeq(fs, 1, Least(n, m)) = SubSeq(cs, 1, Least(n, m))
  <2> DEFINE p == Least(n, m)
  <2>1. p \in 0 .. m /\ p \in Int
    BY <1>1, <1>2 DEF Least
  <2>2. \A i \in 1 .. p : fs[i] = cs[i] /\ fs[i] \in Frame /\ cs[i] \in Frame
    BY <1>1, <1>2, <2>1
  <2> HIDE DEF p, fs
  <2>3. /\ SubSeq(fs, 1, p) \in Seq(Frame) /\ SubSeq(cs, 1, p) \in Seq(Frame)
        /\ Len(SubSeq(fs, 1, p)) = p /\ Len(SubSeq(cs, 1, p)) = p
        /\ \A i \in 1 .. p : SubSeq(fs, 1, p)[i] = fs[i] /\ SubSeq(cs, 1, p)[i] = cs[i]
    BY <2>1, <2>2, SubSeqProperties
  <2>4. SubSeq(fs, 1, p) = SubSeq(cs, 1, p)
    BY <2>2, <2>3, SeqEqual
  <2> QED BY <2>4 DEF p
<1> QED BY <1>6, <1>7

-----------------------------------------------------------------------------
(* One call of reg_setsp, and one call of callstack_push.                  *)

CallsAfterSetsp(s, cs, value) == IF value > s.sp THEN Outlive(cs, value) ELSE cs

\* The first n of nested calls are nested, and their first m frames are the first Least(n, m).
LEMMA PrefixAgrees ==
  ASSUME NEW s, NEW cs, Agree(s, cs), NEW value \in UInt,
         NEW n \in 0 .. Len(cs), Survive(cs, value, n), NEW p \in SP,
         n = 0 \/ p <= value
  PROVE  Agree([sp |-> p, elements |-> PopAbove(s.elements, value)], SubSeq(cs, 1, n))
<1> DEFINE ds == SubSeq(cs, 1, n)
           m == Least(Len(cs), MaxCallStack)
<1>1. /\ cs \in Seq(Frame) /\ Ordered(cs) /\ Len(cs) \in Nat
      /\ \A i \in 1 .. Len(cs) : cs[i] \in Frame
      /\ \A i \in 1 .. Len(cs) : cs[i].stack_on_entry \in Nat
      /\ value \in Nat /\ p \in Nat
  BY FrameTyped, SizeAssumption DEF Agree, UInt, SP
<1>2. ds \in Seq(Frame) /\ Len(ds) = n /\ \A i \in 1 .. n : ds[i] = cs[i]
  BY <1>1, SubSeqProperties
<1>3. m \in 0 .. Len(cs) /\ s.elements = SubSeq(cs, 1, m)
  BY <1>1, CallStackAssumption DEF Agree, Least
<1>4. PopAbove(s.elements, value) = SubSeq(cs, 1, Least(n, m))
  BY <1>1, <1>3, PopAboveCuts
<1>5. Least(n, m) = Least(Len(ds), MaxCallStack)
  BY <1>1, <1>2, CallStackAssumption DEF Least
<1>6. SubSeq(cs, 1, Least(n, m)) = SubSeq(ds, 1, Least(n, m))
  <2> DEFINE q == Least(n, m)
  <2>1. q \in 0 .. n
    BY <1>1, <1>3 DEF Least
  <2>2. \A i \in 1 .. q : ds[i] = cs[i] /\ ds[i] \in Frame /\ cs[i] \in Frame
    BY <1>1, <1>2, <2>1
  <2> HIDE DEF q, ds
  <2>3. /\ SubSeq(ds, 1, q) \in Seq(Frame) /\ SubSeq(cs, 1, q) \in Seq(Frame)
        /\ Len(SubSeq(ds, 1, q)) = q /\ Len(SubSeq(cs, 1, q)) = q
        /\ \A i \in 1 .. q : SubSeq(ds, 1, q)[i] = ds[i] /\ SubSeq(cs, 1, q)[i] = cs[i]
    BY <2>1, <2>2, SubSeqProperties
  <2>4. SubSeq(cs, 1, q) = SubSeq(ds, 1, q)
    BY <2>2, <2>3, SeqEqual
  <2> QED BY <2>4 DEF q
<1> HIDE DEF ds, m
<1>7. Ordered(ds)
  BY <1>1, <1>2 DEF Ordered
<1>8. \A i \in 1 .. Len(ds) : ds[i].stack_on_entry >= p
  BY <1>1, <1>2 DEF Survive
<1>9. Agree([sp |-> p, elements |-> SubSeq(ds, 1, Least(Len(ds), MaxCallStack))], ds)
  BY <1>2, <1>7, <1>8 DEF Agree
<1> QED BY <1>4, <1>5, <1>6, <1>9 DEF ds

\* reg_setsp keeps the call stack and the calls that have not returned in agreement.
LEMMA SetspAgrees ==
  ASSUME NEW s, NEW cs, Agree(s, cs), NEW value \in UInt
  PROVE  /\ Agree(reg_setsp(s, value), CallsAfterSetsp(s, cs, value))
         /\ reg_setsp(s, value).sp = value % SPSize
<1> DEFINE p == value % SPSize
<1>1. p \in SP /\ (value < SPSize => p = value) /\ value \in Nat
  BY SizeAssumption DEF UInt, SP
<1>2. /\ cs \in Seq(Frame) /\ Ordered(cs) /\ s.sp \in SP
      /\ \A i \in 1 .. Len(cs) : cs[i].stack_on_entry \in Nat /\ cs[i].stack_on_entry < SPSize
  BY FrameTyped DEF Agree
<1> HIDE DEF p
<1>3. CASE value > s.sp
  <2>1. PICK n \in 0 .. Len(cs) : Survive(cs, value, n) /\ Outlive(cs, value) = SubSeq(cs, 1, n)
    BY <1>1, <1>2, OutliveCuts
  <2>2. n = 0 \/ p <= value
    <3> SUFFICES ASSUME n # 0 PROVE value < SPSize
      BY <1>1
    <3>1. n \in 1 .. Len(cs) /\ cs[n].stack_on_entry >= value
      BY <2>1, <1>2, FrameTyped DEF Survive
    <3> QED BY <1>1, <1>2, <3>1, SizeAssumption
  <2>3. Agree([sp |-> p, elements |-> PopAbove(s.elements, value)], SubSeq(cs, 1, n))
    BY <1>1, <2>1, <2>2, PrefixAgrees
  <2> QED BY <1>3, <2>1, <2>3 DEF reg_setsp, CallsAfterSetsp, p
<1>4. CASE ~ (value > s.sp)
  <2>1. p = value /\ value <= s.sp
    BY <1>1, <1>2, <1>4, SizeAssumption DEF SP
  <2>2. \A i \in 1 .. Len(cs) : cs[i].stack_on_entry >= p
    BY <1>1, <1>2, <2>1, SizeAssumption DEF Agree, SP
  <2>3. Agree([sp |-> p, elements |-> s.elements], cs)
    BY <1>1, <1>2, <2>2 DEF Agree
  <2> QED BY <1>4, <2>3 DEF reg_setsp, CallsAfterSetsp, p
<1> QED BY <1>3, <1>4

\* callstack_push records the call, or refuses it when the call stack is full.
LEMMA PushAgrees ==
  ASSUME NEW s, NEW cs, Agree(s, cs), NEW a \in Addr
  PROVE  Agree(callstack_push(s, a), Append(cs, [entry_point |-> a, stack_on_entry |-> s.sp]))
<1> DEFINE f == [entry_point |-> a, stack_on_entry |-> s.sp]
           ds == Append(cs, f)
           m == Least(Len(cs), MaxCallStack)
<1>0. cs \in Seq(Frame) /\ Ordered(cs) /\ s.sp \in SP
  BY DEF Agree
<1>1. /\ cs \in Seq(Frame) /\ Ordered(cs) /\ Len(cs) \in Nat /\ s.sp \in SP /\ s.sp \in Nat
      /\ \A i \in 1 .. Len(cs) : cs[i] \in Frame
      /\ \A i \in 1 .. Len(cs) : cs[i].stack_on_entry \in Nat /\ cs[i].stack_on_entry >= s.sp
      /\ f \in Frame
  <2>1. s.sp \in Nat
    BY <1>0, SizeAssumption DEF SP
  <2>2. f \in Frame
    BY <1>0 DEF Frame
  <2>3. \A i \in 1 .. Len(cs) : cs[i].stack_on_entry >= s.sp
    BY DEF Agree
  <2> HIDE DEF f
  <2> QED BY <1>0, <2>1, <2>2, <2>3, FrameTyped
<1>2. /\ ds \in Seq(Frame) /\ Len(ds) = Len(cs) + 1
      /\ \A i \in 1 .. Len(cs) : ds[i] = cs[i]
      /\ ds[Len(cs) + 1] = f
  BY <1>1, AppendProperties
<1>3. /\ m \in 0 .. Len(cs) /\ s.elements = SubSeq(cs, 1, m)
  BY <1>1, CallStackAssumption DEF Agree, Least
<1>4. /\ s.elements \in Seq(Frame) /\ Len(s.elements) = m
      /\ \A i \in 1 .. m : s.elements[i] = cs[i]
  BY <1>1, <1>3, SubSeqProperties
<1>5. Ordered(ds) /\ \A i \in 1 .. Len(ds) : ds[i].stack_on_entry >= s.sp
  BY <1>1, <1>2 DEF Ordered
<1> DEFINE q == Least(Len(ds), MaxCallStack)
           e == callstack_push(s, a).elements
<1>6. /\ callstack_push(s, a) = [sp |-> s.sp, elements |-> e]
      /\ e = IF m < MaxCallStack THEN Append(s.elements, f) ELSE s.elements
  BY <1>4 DEF callstack_push, Agree
<1>7. e \in Seq(Frame) /\ Len(e) = q /\ \A i \in 1 .. q : e[i] = ds[i]
  <2>1. CASE Len(cs) < MaxCallStack
    <3>1. m = Len(cs) /\ q = Len(cs) + 1
      BY <1>1, <1>2, <2>1, CallStackAssumption DEF Least
    <3> QED BY <1>1, <1>2, <1>4, <1>6, <2>1, <3>1, AppendProperties
  <2>2. CASE ~ (Len(cs) < MaxCallStack)
    <3>1. m = MaxCallStack /\ q = m
      BY <1>1, <1>2, <2>2, CallStackAssumption DEF Least
    <3> QED BY <1>2, <1>3, <1>4, <1>6, <3>1
  <2> QED BY <2>1, <2>2
<1>8. e = SubSeq(ds, 1, q)
  <2>1. q \in 0 .. Len(ds) /\ \A i \in 1 .. q : ds[i] \in Frame
    BY <1>1, <1>2, CallStackAssumption, FrameTyped DEF Least
  <2> HIDE DEF q, e, ds
  <2>2. /\ SubSeq(ds, 1, q) \in Seq(Frame) /\ Len(SubSeq(ds, 1, q)) = q
        /\ \A i \in 1 .. q : SubSeq(ds, 1, q)[i] = ds[i]
    BY <2>1, SubSeqProperties
  <2> QED BY <1>7, <2>2, SeqEqual
<1> HIDE DEF e, ds
<1>9. Agree([sp |-> s.sp, elements |-> e], ds)
  BY <1>1, <1>2, <1>5, <1>8 DEF Agree, q
<1> QED BY <1>6, <1>9 DEF ds

-----------------------------------------------------------------------------
(* n bytes pushed, and n bytes pulled, from a stack at p with calls cs.    *)

Pushed(s, p, cs, n) ==
  /\ Agree(s, IF n <= p THEN cs ELSE <<>>)
  /\ n <= p => s.sp = p - n

Pulled(s, p, cs, n) ==
  /\ Agree(s, IF p + n < SPSize THEN Outlive(cs, p + n) ELSE <<>>)
  /\ p + n < SPSize => s.sp = p + n

\* Nested calls that all survive, or all return.
LEMMA OutliveAll ==
  ASSUME NEW cs \in Seq(Frame), Ordered(cs), NEW value \in Nat,
         \A i \in 1 .. Len(cs) : cs[i].stack_on_entry >= value
  PROVE  Outlive(cs, value) = cs
<1>1. PICK n \in 0 .. Len(cs) : Survive(cs, value, n) /\ Outlive(cs, value) = SubSeq(cs, 1, n)
  BY OutliveCuts
<1>2. n = Len(cs)
  BY <1>1, FrameTyped DEF Survive
<1>3. SubSeq(cs, 1, Len(cs)) = cs
  BY SubSeqFull
<1> QED BY <1>1, <1>2, <1>3

LEMMA OutliveNone ==
  ASSUME NEW cs \in Seq(Frame), Ordered(cs), NEW value \in Nat, value >= SPSize
  PROVE  Outlive(cs, value) = <<>>
<1>1. PICK n \in 0 .. Len(cs) : Survive(cs, value, n) /\ Outlive(cs, value) = SubSeq(cs, 1, n)
  BY OutliveCuts
<1>2. n = 0
  BY <1>1, FrameTyped, SizeAssumption DEF Survive
<1> QED BY <1>1, <1>2, SubSeqEmpty

\* A call that survives the higher of two moves survives the lower.
LEMMA OutliveTwice ==
  ASSUME NEW cs \in Seq(Frame), Ordered(cs), NEW v \in Nat, NEW w \in Nat, v <= w
  PROVE  Outlive(Outlive(cs, v), w) = Outlive(cs, w)
<1>0. /\ Len(cs) \in Nat /\ \A i \in 1 .. Len(cs) : cs[i] \in Frame
      /\ \A i \in 1 .. Len(cs) : cs[i].stack_on_entry \in Nat
  BY FrameTyped
<1>1. PICK n \in 0 .. Len(cs) : Survive(cs, v, n) /\ Outlive(cs, v) = SubSeq(cs, 1, n)
  BY OutliveCuts
<1>2. PICK m \in 0 .. Len(cs) : Survive(cs, w, m) /\ Outlive(cs, w) = SubSeq(cs, 1, m)
  BY OutliveCuts
<1> DEFINE ds == SubSeq(cs, 1, n)
<1>3. ds \in Seq(Frame) /\ Len(ds) = n /\ \A i \in 1 .. n : ds[i] = cs[i]
  BY <1>0, SubSeqProperties
<1>4. m <= n
  <2> SUFFICES ASSUME m # 0 PROVE m <= n
    BY <1>0
  <2> QED BY <1>0, <1>1, <1>2, SMTT(40) DEF Survive
<1> HIDE DEF ds
<1>5. Ordered(ds)
  BY <1>0, <1>3 DEF Ordered
<1>6. PICK k \in 0 .. Len(ds) : Survive(ds, w, k) /\ Outlive(ds, w) = SubSeq(ds, 1, k)
  BY <1>3, <1>5, OutliveCuts
<1>7. k = m
  <2>1. \A i \in 1 .. n : i <= k <=> i <= m
    <3> TAKE i \in 1 .. n
    <3>1. i \in 1 .. Len(cs) /\ i \in 1 .. Len(ds) /\ ds[i] = cs[i]
      BY <1>0, <1>3
    <3>2. i <= k <=> ds[i].stack_on_entry >= w
      BY <1>6, <3>1 DEF Survive
    <3>3. i <= m <=> cs[i].stack_on_entry >= w
      BY <1>2, <3>1 DEF Survive
    <3> QED BY <3>1, <3>2, <3>3
  <2>2. k \in 0 .. n /\ m \in 0 .. n /\ k \in Nat /\ m \in Nat
    BY <1>0, <1>3, <1>4
  <2>3. k <= m
    <3>1. CASE k \in 1 .. n
      BY <2>1, <2>2, <3>1
    <3> QED BY <2>2, <3>1
  <2>4. m <= k
    <3>1. CASE m \in 1 .. n
      BY <2>1, <2>2, <3>1
    <3> QED BY <2>2, <3>1
  <2> QED BY <2>2, <2>3, <2>4
<1>8. SubSeq(ds, 1, m) = SubSeq(cs, 1, m)
  <2>1. \A i \in 1 .. m : ds[i] = cs[i] /\ ds[i] \in Frame /\ cs[i] \in Frame
    BY <1>0, <1>3, <1>4
  <2>2. /\ SubSeq(ds, 1, m) \in Seq(Frame) /\ SubSeq(cs, 1, m) \in Seq(Frame)
        /\ Len(SubSeq(ds, 1, m)) = m /\ Len(SubSeq(cs, 1, m)) = m
        /\ \A i \in 1 .. m : SubSeq(ds, 1, m)[i] = ds[i] /\ SubSeq(cs, 1, m)[i] = cs[i]
    BY <1>0, <2>1, SubSeqProperties
  <2> QED BY <2>1, <2>2, SeqEqual
<1> QED BY <1>1, <1>2, <1>6, <1>7, <1>8 DEF ds

LEMMA EmptyCalls == <<>> \in Seq(Frame) /\ Ordered(<<>>) /\ Len(<<>>) = 0
BY DEF Ordered

LEMMA OutliveEmpty ==
  ASSUME NEW value \in Nat
  PROVE  Outlive(<<>>, value) = <<>>
<1>1. \A i \in 1 .. Len(<<>>) : <<>>[i].stack_on_entry >= value
  BY EmptyCalls
<1> QED BY <1>1, EmptyCalls, OutliveAll

LEMMA PushOne ==
  ASSUME NEW s, NEW p \in SP, NEW cs, NEW n \in Nat, Pushed(s, p, cs, n)
  PROVE  Pushed(pushbyte(s), p, cs, n + 1)
<1> DEFINE ds == IF n <= p THEN cs ELSE <<>>
           value == IF s.sp = 0 THEN UIntMax ELSE s.sp - 1
<1>1. Agree(s, ds) /\ s.sp \in SP /\ ds \in Seq(Frame) /\ Ordered(ds)
  BY DEF Pushed, Agree
<1>2. p \in Nat /\ s.sp \in Nat /\ s.sp < SPSize /\ p < SPSize
  BY <1>1, SizeAssumption DEF SP
<1>3. value \in UInt /\ value \in Nat
  BY <1>2, SizeAssumption DEF UInt
<1>4. pushbyte(s) = reg_setsp(s, value)
  BY DEF pushbyte
<1> HIDE DEF ds, value
<1>5. Agree(pushbyte(s), CallsAfterSetsp(s, ds, value)) /\ pushbyte(s).sp = value % SPSize
  BY <1>1, <1>3, <1>4, SetspAgrees
<1>6. CASE n + 1 <= p
  <2>1. s.sp = p - n /\ value = p - (n + 1) /\ value < s.sp /\ ds = cs
    BY <1>2, <1>6 DEF Pushed, ds, value
  <2>2. value % SPSize = value /\ CallsAfterSetsp(s, ds, value) = cs
    BY <1>2, <1>3, <2>1, SizeAssumption DEF CallsAfterSetsp
  <2> QED BY <1>5, <1>6, <2>1, <2>2 DEF Pushed
<1>7. CASE ~ (n + 1 <= p)
  <2>1. CallsAfterSetsp(s, ds, value) = <<>>
    <3>1. CASE n <= p
      <4>1. s.sp = 0 /\ value = UIntMax
        BY <1>2, <1>7, <3>1 DEF Pushed, value
      <4>2. value >= SPSize /\ value > s.sp
        BY <1>2, <4>1, SizeAssumption
      <4> QED BY <1>1, <1>3, <4>2, OutliveNone DEF CallsAfterSetsp
    <3>2. CASE ~ (n <= p)
      <4>1. ds = <<>>
        BY <3>2 DEF ds
      <4>2. Outlive(<<>>, value) = <<>>
        BY <1>3, OutliveEmpty
      <4> QED BY <4>1, <4>2 DEF CallsAfterSetsp
    <3> QED BY <3>1, <3>2
  <2> QED BY <1>5, <1>7, <2>1 DEF Pushed
<1> QED BY <1>6, <1>7

LEMMA PullOne ==
  ASSUME NEW s, NEW p \in SP, NEW cs \in Seq(Frame), Ordered(cs), NEW n \in Nat,
         Pulled(s, p, cs, n)
  PROVE  Pulled(popbyte(s), p, cs, n + 1)
<1> DEFINE ds == IF p + n < SPSize THEN Outlive(cs, p + n) ELSE <<>>
           value == s.sp + 1
<1>1. Agree(s, ds) /\ s.sp \in SP /\ ds \in Seq(Frame) /\ Ordered(ds)
  BY DEF Pulled, Agree
<1>2. p \in Nat /\ s.sp \in Nat /\ s.sp < SPSize /\ p < SPSize /\ SPSize \in Nat
  BY <1>1, SizeAssumption DEF SP
<1>3. value \in UInt /\ value \in Nat /\ value > s.sp
  BY <1>2, SizeAssumption DEF UInt
<1>4. popbyte(s) = reg_setsp(s, value)
  BY DEF popbyte
<1> HIDE DEF ds, value
<1>5. Agree(popbyte(s), Outlive(ds, value)) /\ popbyte(s).sp = value % SPSize
  BY <1>1, <1>3, <1>4, SetspAgrees DEF CallsAfterSetsp
<1>6. CASE p + (n + 1) < SPSize
  <2>1. s.sp = p + n /\ value = p + (n + 1) /\ ds = Outlive(cs, p + n)
    BY <1>2, <1>6 DEF Pulled, ds, value
  <2>2. value % SPSize = value
    BY <1>2, <1>6, <2>1
  <2>3. Outlive(ds, value) = Outlive(cs, p + (n + 1))
    BY <1>2, <2>1, OutliveTwice
  <2> QED BY <1>5, <1>6, <2>1, <2>2, <2>3 DEF Pulled
<1>7. CASE ~ (p + (n + 1) < SPSize)
  <2>1. Outlive(ds, value) = <<>>
    <3>1. CASE p + n < SPSize
      <4>1. s.sp = p + n
        BY <3>1 DEF Pulled
      <4>2. value >= SPSize
        BY <1>2, <1>7, <4>1 DEF value
      <4> QED BY <1>1, <1>3, <4>2, OutliveNone
    <3>2. CASE ~ (p + n < SPSize)
      <4>1. ds = <<>>
        BY <3>2 DEF ds
      <4> QED BY <1>3, <4>1, OutliveEmpty
    <3> QED BY <3>1, <3>2
  <2> QED BY <1>5, <1>7, <2>1 DEF Pulled
<1> QED BY <1>6, <1>7

-----------------------------------------------------------------------------
(* Words, and the registers stacked by an interrupt.                       *)

LEMMA PushTwo ==
  ASSUME NEW s, NEW p \in SP, NEW cs, NEW n \in Nat, Pushed(s, p, cs, n)
  PROVE  Pushed(pushword(s), p, cs, n + 2)
<1>1. Pushed(pushbyte(s), p, cs, n + 1)
  BY PushOne
<1>2. Pushed(pushbyte(pushbyte(s)), p, cs, (n + 1) + 1)
  BY <1>1, PushOne
<1>3. (n + 1) + 1 = n + 2
  OBVIOUS
<1> QED BY <1>2, <1>3 DEF pushword

LEMMA PullTwo ==
  ASSUME NEW s, NEW p \in SP, NEW cs \in Seq(Frame), Ordered(cs), NEW n \in Nat,
         Pulled(s, p, cs, n)
  PROVE  Pulled(popword(s), p, cs, n + 2)
<1>1. Pulled(popbyte(s), p, cs, n + 1)
  BY PullOne
<1>2. Pulled(popbyte(popbyte(s)), p, cs, (n + 1) + 1)
  BY <1>1, PullOne
<1>3. (n + 1) + 1 = n + 2
  OBVIOUS
<1> QED BY <1>2, <1>3 DEF popword

LEMMA PushContext ==
  ASSUME NEW s, NEW p \in SP, NEW cs, Pushed(s, p, cs, 0)
  PROVE  Pushed(push_context(s), p, cs, ContextBytes)
<1> DEFINE pc == pushword(s)
           c3 == pushbyte(pushbyte(pushbyte(pc)))
<1>1. Pushed(pc, p, cs, 2)
  BY PushTwo
<1> HIDE DEF pc
<1>2. Pushed(pushbyte(pc), p, cs, 3)
  BY <1>1, PushOne
<1>3. Pushed(pushbyte(pushbyte(pc)), p, cs, 4)
  BY <1>2, PushOne
<1>4. Pushed(c3, p, cs, 5)
  BY <1>3, PushOne
<1> HIDE DEF c3
<1>5. Pushed(pushword(c3), p, cs, 7)
  BY <1>4, PushTwo
<1>6. Pushed(pushword(pushword(c3)), p, cs, 9)
  BY <1>5, PushTwo
<1> QED BY <1>4, <1>5, <1>6, FamilyAssumption DEF push_context, ContextBytes, c3, pc

LEMMA PullContext ==
  ASSUME NEW s, NEW p \in SP, NEW cs \in Seq(Frame), Ordered(cs), Pulled(s, p, cs, 0)
  PROVE  Pulled(pop_context(s), p, cs, ContextBytes)
<1> DEFINE c3 == popbyte(popbyte(popbyte(s)))
<1>1. Pulled(popbyte(s), p, cs, 1)
  BY PullOne
<1>2. Pulled(popbyte(popbyte(s)), p, cs, 2)
  BY <1>1, PullOne
<1>3. Pulled(c3, p, cs, 3)
  BY <1>2, PullOne
<1> HIDE DEF c3
<1>4. Pulled(popword(c3), p, cs, 5)
  BY <1>3, PullTwo
<1>5. Pulled(popword(popword(c3)), p, cs, 7)
  BY <1>4, PullTwo
<1>6. Pulled(popword(popword(popword(c3))), p, cs, 9)
  BY <1>5, PullTwo
<1> QED BY <1>4, <1>5, <1>6, FamilyAssumption DEF pop_context, ContextBytes, c3

-----------------------------------------------------------------------------
(* The inductive invariant.                                                *)

\* What a step has to show: the new stack, and the new history, agree.
LEMMA StepAgrees ==
  ASSUME NEW s, NEW cs, Agree(s, cs), SetStack(s), calls' = cs
  PROVE  Agree(Stack, calls)'
BY DEF Agree, SetStack, Stack

\* IInv holds initially and every instruction preserves it.
LEMMA InitIInv == Init => IInv
<1> SUFFICES ASSUME Init PROVE IInv
  OBVIOUS
<1>1. 0 \in SP /\ 0 \in UInt
  BY SizeAssumption DEF SP, UInt
<1>2. SubSeq(<<>>, 1, Least(Len(<<>>), MaxCallStack)) = <<>>
  <2>1. Least(Len(<<>>), MaxCallStack) = 0
    BY EmptyCalls, CallStackAssumption DEF Least
  <2> QED BY <2>1, SubSeqEmpty
<1>3. \A i \in 1 .. Len(<<>>) : <<>>[i].stack_on_entry >= 0
  BY EmptyCalls
<1>4. Agree([sp |-> 0, elements |-> <<>>], <<>>)
  <2> DEFINE e == SubSeq(<<>>, 1, Least(Len(<<>>), MaxCallStack))
  <2>1. e = <<>>
    BY <1>2
  <2> HIDE DEF e
  <2>2. Agree([sp |-> 0, elements |-> e], <<>>)
    <3>1. <<>> \in Seq(Frame) /\ Ordered(<<>>)
      BY EmptyCalls
    <3> QED BY <1>1, <1>3, <3>1 DEF Agree, e
  <2> QED BY <2>1, <2>2
<1> QED BY <1>1, <1>4 DEF Init, IInv, Stack

LEMMA NextIInv == IInv /\ [Next]_vars => IInv'
<1> SUFFICES ASSUME IInv, [Next]_vars PROVE IInv'
  OBVIOUS
<1>1. /\ sp \in SP /\ sp \in Nat /\ sp < SPSize
      /\ calls \in Seq(Frame) /\ Ordered(calls)
      /\ call_level \in UInt /\ Agree(Stack, calls)
  BY SizeAssumption DEF IInv, Agree, Stack, SP
<1>2. Pushed(Stack, sp, calls, 0)
  BY <1>1 DEF Pushed, Stack
<1>3. Pulled(Stack, sp, calls, 0)
  <2>1. Outlive(calls, sp + 0) = calls
    BY <1>1, OutliveAll DEF Agree, Stack
  <2> QED BY <1>1, <2>1 DEF Pulled, Stack
<1>4. (call_level + 1) % (UIntMax + 1) \in UInt /\ Decremented(call_level) \in UInt
  BY <1>1, SizeAssumption DEF UInt, Decremented
<1>5. \A n \in Nat : \A s : Pushed(s, sp, calls, n) => Agree(s, AfterPush(n))
  BY DEF Pushed, AfterPush
<1>6. \A n \in Nat : \A s : Pulled(s, sp, calls, n) => Agree(s, AfterPull(n))
  BY DEF Pulled, AfterPull
<1>7. ContextBytes \in Nat
  BY FamilyAssumption DEF ContextBytes
<1>8. CASE Push1
  <2>1. Agree(pushbyte(Stack), AfterPush(1))
    BY <1>1, <1>2, <1>5, PushOne
  <2> QED BY <1>1, <1>8, <2>1, StepAgrees DEF Push1, IInv
<1>9. CASE Push2
  <2>1. Agree(pushword(Stack), AfterPush(2))
    BY <1>1, <1>2, <1>5, PushTwo
  <2> QED BY <1>1, <1>9, <2>1, StepAgrees DEF Push2, IInv
<1>10. CASE Pull1
  <2>1. Agree(popbyte(Stack), AfterPull(1))
    BY <1>1, <1>3, <1>6, PullOne
  <2> QED BY <1>1, <1>10, <2>1, StepAgrees DEF Pull1, IInv
<1>11. CASE Pull2
  <2>1. Agree(popword(Stack), AfterPull(2))
    BY <1>1, <1>3, <1>6, PullTwo
  <2> QED BY <1>1, <1>11, <2>1, StepAgrees DEF Pull2, IInv
<1>12. ASSUME NEW a \in Addr, jsr_addr(a) PROVE IInv'
  <2> DEFINE s == pushword(Stack)
             f == [entry_point |-> a, stack_on_entry |-> s.sp]
  <2>1. Agree(s, AfterPush(2))
    BY <1>1, <1>2, <1>5, PushTwo
  <2>2. Agree(callstack_push(s, a), Append(AfterPush(2), f))
    BY <2>1, PushAgrees
  <2>3. SetStack(callstack_push(s, a)) /\ calls' = Append(AfterPush(2), f)
    BY <1>12 DEF jsr_addr
  <2>4. Agree(Stack, calls)'
    BY <2>2, <2>3, StepAgrees
  <2> QED BY <1>4, <1>12, <2>4 DEF jsr_addr, IInv
<1>13. ASSUME NEW a \in Addr, int_addr(a) PROVE IInv'
  <2> DEFINE s == push_context(Stack)
             f == [entry_point |-> a, stack_on_entry |-> s.sp]
  <2>1. Agree(s, AfterPush(ContextBytes))
    BY <1>1, <1>2, <1>5, <1>7, PushContext
  <2>2. Agree(callstack_push(s, a), Append(AfterPush(ContextBytes), f))
    BY <2>1, PushAgrees
  <2>3. SetStack(callstack_push(s, a)) /\ calls' = Append(AfterPush(ContextBytes), f)
    BY <1>13 DEF int_addr
  <2>4. Agree(Stack, calls)'
    BY <2>2, <2>3, StepAgrees
  <2> QED BY <1>1, <1>13, <2>4 DEF int_addr, IInv
<1>14. CASE rts_inh
  <2>1. Agree(popword(Stack), AfterPull(2))
    BY <1>1, <1>3, <1>6, PullTwo
  <2> QED BY <1>4, <1>14, <2>1, StepAgrees DEF rts_inh, IInv
<1>15. CASE rti
  <2>1. Agree(pop_context(Stack), AfterPull(ContextBytes))
    BY <1>1, <1>3, <1>6, <1>7, PullContext
  <2> QED BY <1>1, <1>4, <1>15, <2>1, StepAgrees DEF rti, IInv
<1>16. ASSUME NEW v \in UInt, SetSP(v) PROVE IInv'
  <2>1. Agree(reg_setsp(Stack, v), CallsAfterSetsp(Stack, calls, v))
    BY <1>1, SetspAgrees
  <2>2. AfterMove(v) = CallsAfterSetsp(Stack, calls, v)
    BY DEF AfterMove, CallsAfterSetsp, Stack
  <2> QED BY <1>1, <1>16, <2>1, <2>2, StepAgrees DEF SetSP, IInv
<1>17. CASE UNCHANGED vars
  BY <1>17 DEF vars, IInv, Agree, Stack
<1> QED BY <1>8, <1>9, <1>10, <1>11, <1>12, <1>13, <1>14, <1>15, <1>16, <1>17 DEF Next

-----------------------------------------------------------------------------
(* What the instructions do to a stack that does not wrap.                 *)

LEMMA Ready ==
  ASSUME IInv
  PROVE  /\ sp \in SP /\ calls \in Seq(Frame) /\ Ordered(calls)
         /\ Pushed(Stack, sp, calls, 0) /\ Pulled(Stack, sp, calls, 0)
         /\ Stack.sp = sp /\ Agree(Stack, calls)
<1>1. sp \in SP /\ sp \in Nat /\ sp < SPSize /\ calls \in Seq(Frame) /\ Ordered(calls)
  BY SizeAssumption DEF IInv, Agree, Stack, SP
<1>2. Outlive(calls, sp + 0) = calls
  BY <1>1, OutliveAll DEF IInv, Agree, Stack
<1> QED BY <1>1, <1>2 DEF IInv, Pushed, Pulled, Stack

\* A routine is entered, or an interrupt: the bytes it stacks, and the call with them.
LEMMA Entering ==
  ASSUME IInv, NEW a \in Addr
  PROVE  /\ jsr_addr(a) /\ 2 <= sp =>
              /\ sp' = sp - 2
              /\ calls' = Append(calls, [entry_point |-> a, stack_on_entry |-> sp - 2])
         /\ int_addr(a) /\ ContextBytes <= sp =>
              /\ sp' = sp - ContextBytes
              /\ calls' = Append(calls, [entry_point |-> a, stack_on_entry |-> sp - ContextBytes])
<1>1. 2 <= sp => pushword(Stack).sp = sp - 2
  <2>1. Pushed(pushword(Stack), sp, calls, 0 + 2)
    BY Ready, PushTwo
  <2> QED BY <2>1 DEF Pushed
<1>2. ContextBytes <= sp => push_context(Stack).sp = sp - ContextBytes
  BY Ready, PushContext DEF Pushed
<1>3. \A s : callstack_push(s, a).sp = s.sp
  BY DEF callstack_push
<1> QED BY <1>1, <1>2, <1>3 DEF jsr_addr, int_addr, SetStack, AfterPush

\* It is left: the calls that were entered deeper are over.
LEMMA Leaving ==
  ASSUME IInv
  PROVE  /\ rts_inh /\ sp + 2 < SPSize => sp' = sp + 2 /\ calls' = Outlive(calls, sp + 2)
         /\ rti /\ sp + ContextBytes < SPSize =>
              sp' = sp + ContextBytes /\ calls' = Outlive(calls, sp + ContextBytes)
<1>1. sp + 2 < SPSize => popword(Stack).sp = sp + 2
  <2>1. Pulled(popword(Stack), sp, calls, 0 + 2)
    BY Ready, PullTwo
  <2> QED BY <2>1 DEF Pulled
<1>2. sp + ContextBytes < SPSize => pop_context(Stack).sp = sp + ContextBytes
  BY Ready, PullContext DEF Pulled
<1> QED BY <1>1, <1>2 DEF rts_inh, rti, SetStack, AfterPull

\* The stack pointer is loaded.
LEMMA Loading ==
  ASSUME IInv, NEW v \in SP, SetSP(v)
  PROVE  sp' = v /\ calls' = IF v > sp THEN Outlive(calls, v) ELSE calls
<1>1. v % SPSize = v
  BY SizeAssumption DEF SP
<1> QED BY <1>1 DEF SetSP, SetStack, reg_setsp, AfterMove

-----------------------------------------------------------------------------
(* The theorems.                                                           *)

LEMMA IInvImplies == IInv => TypeOK /\ FramesNested /\ OldestCallsRecorded
<1> SUFFICES ASSUME IInv PROVE TypeOK /\ FramesNested /\ OldestCallsRecorded
  OBVIOUS
<1> DEFINE m == Least(Len(calls), MaxCallStack)
<1>1. /\ sp \in SP /\ calls \in Seq(Frame) /\ Ordered(calls) /\ call_level \in UInt
      /\ \A i \in 1 .. Len(calls) : calls[i].stack_on_entry >= sp
      /\ elements = SubSeq(calls, 1, m)
  BY DEF IInv, Agree, Stack
<1>2. m \in 0 .. Len(calls) /\ m <= MaxCallStack /\ m \in Nat
  BY <1>1, FrameTyped, CallStackAssumption DEF Least
<1>3. /\ elements \in Seq(Frame) /\ Len(elements) = m
      /\ \A i \in 1 .. m : elements[i] = calls[i]
  BY <1>1, <1>2, FrameTyped, SubSeqProperties
<1>4. TypeOK
  BY <1>1, <1>2, <1>3 DEF TypeOK
<1>5. OldestCallsRecorded
  BY <1>1 DEF OldestCallsRecorded, Least
<1> HIDE DEF m
<1>6. FramesNested
  BY <1>1, <1>2, <1>3 DEF FramesNested, Nested, Ordered
<1> QED BY <1>4, <1>5, <1>6

LEMMA SpecIInv == Spec => []IInv
BY InitIInv, NextIInv, PTL DEF Spec

\* Type correctness: in particular the call stack never holds more than MAXCALLSTACK frames.
THEOREM SpecTypeOK == Spec => []TypeOK
BY SpecIInv, IInvImplies, PTL

\* The frames of callstac.c are nested, whatever the program does with its stack pointer: the
\* loop of reg_setsp, which looks at the topmost frame only, drops every routine that returned.
THEOREM SpecFramesNested == Spec => []FramesNested
BY SpecIInv, IInvImplies, PTL

\* The frames of callstac.c are the oldest MAXCALLSTACK calls that have not returned.
THEOREM SpecOldestCallsRecorded == Spec => []OldestCallsRecorded
BY SpecIInv, IInvImplies, PTL

=============================================================================
