-------------------------- MODULE ReadStreamProofs --------------------------
(***************************************************************************)
(* A read is safe for every packet and every declaration: failure is       *)
(* terminal, no assertion trips, nothing hides in padding, an accepted end *)
(* has consumed the packet, and only values that the declaration admits    *)
(* are delivered, in the one encoding of each.  Every method is shown once *)
(* to keep the contract Keeps, and to read what it declares (Reads), as    *)
(* methods calling methods that do; the steps of the stream follow.  At    *)
(* the end, the methods of the negative controls, one rule deleted from    *)
(* each: they stay inside the packet and trip nothing (Inside), and a      *)
(* length they deliver is a length that was sent.                          *)
(***************************************************************************)
EXTENDS Controls, NatFacts, SequenceTheorems

Fields == {"at", "failed", "ret", "value", "dest", "dirty", "trapped"}

\* a stream that a method may be called on
Ready(r) ==
  /\ DOMAIN r = Fields
  /\ num_bits \in Nat /\ r.at \in 0..num_bits
  /\ r.failed \in Reasons \cup {Ok} /\ r.ret = Ok
  /\ r.dirty \in BOOLEAN /\ r.trapped = FALSE

\* what a method does to the stream r it is called on: it answers with the latch, goes forward in
\* the packet, leaves a failed stream as it is, and trips nothing
Keeps(r, q) ==
  /\ DOMAIN q = Fields
  /\ q.at \in r.at .. num_bits
  /\ q.failed \in Reasons \cup {Ok} /\ q.ret = q.failed
  /\ r.failed # Ok => q.failed = r.failed /\ q.at = r.at /\ q.dirty = r.dirty
  /\ q.dirty \in BOOLEAN /\ (q.failed = Ok => q.dirty = r.dirty)
  /\ q.trapped = FALSE /\ q.dest = r.dest

\* The widths, for every step below.
LEMMA WidthFacts == ByteBits \in Nat \ {0} /\ MaxBits \in Nat /\ ByteBits <= MaxBits
BY FormatAssumption

USE WidthFacts

\* Methods compose: what a method leaves without an error another may be called on.
LEMMA Composes ==
  ASSUME NEW r, NEW q, Ready(r), Keeps(r, q), q.ret = Ok
  PROVE  /\ Ready(q) /\ r.failed = Ok
         /\ \A s : Keeps(q, s) => Keeps(r, s)
<1>1. Ok \notin Reasons
  BY DEF Reasons, Ok
<1>2. Ready(q) /\ r.failed = Ok
  BY <1>1 DEF Ready, Keeps
<1>3. ASSUME NEW s, Keeps(q, s) PROVE Keeps(r, s)
  BY <1>1, <1>2, <1>3 DEF Ready, Keeps
<1> QED BY <1>2, <1>3

\* A refusal is an outcome: it is kept, and it is the answer.
LEMMA LatchKeeps ==
  ASSUME NEW r, Ready(r), NEW error \in Reasons
  PROVE  Keeps(r, Latch(r, error)) /\ Latch(r, error).ret # Ok
<1>1. Ok \notin Reasons
  BY DEF Reasons, Ok
<1> QED BY <1>1 DEF Latch, Ready, Keeps, Fields

\* A refusal after the method has read something, while the stream had not failed.
LEMMA LatchLater ==
  ASSUME NEW r, NEW q, Ready(r), Keeps(r, q), q.ret = Ok, NEW error \in Reasons
  PROVE  Keeps(r, Latch(q, error)) /\ Latch(q, error).ret # Ok
BY Composes, LatchKeeps

\* The gate answers with the latch and changes nothing.
LEMMA GateKeeps ==
  ASSUME NEW r, Ready(r)
  PROVE  Keeps(r, Gate(r))
BY DEF Gate, Ready, Keeps, Fields

-----------------------------------------------------------------------------
(* The values of bits *)

\* the function that Value defines, up to m
Spelled(f, at, n, m) == f = [k \in 0..m |-> IF k = 0 THEN 0 ELSE 2 * f[k-1] + Bit(at + n - k)]

\* The recursion of Value has a solution, with values in Nat: by its least counterexample.
LEMMA SpelledExists ==
  ASSUME NEW at \in Nat, NEW n \in Nat
  PROVE  \A m \in 0..n : \E f \in [0..m -> Nat] : Spelled(f, at, n, m)
<1> DEFINE P(m) == \E f \in [0..m -> Nat] : Spelled(f, at, n, m)
           Bad == {m \in 0..n : ~P(m)}
<1> SUFFICES ASSUME Bad # {} PROVE FALSE
  OBVIOUS
<1>1. PICK m \in Bad : \A y \in Bad : m <= y
  <2>1. Bad \subseteq Nat
    OBVIOUS
  <2> HIDE DEF Bad
  <2> QED BY <2>1, LeastNat
<1>2. m \in 0..n /\ ~P(m)
  OBVIOUS
<1>3. CASE m = 0
  <2> DEFINE f == [k \in 0..0 |-> 0]
  <2>1. f \in [0..0 -> Nat] /\ Spelled(f, at, n, 0)
    BY DEF Spelled
  <2> QED BY <2>1, <1>2, <1>3
<1>4. CASE m # 0
  <2>1. m - 1 \in 0..n /\ m - 1 \notin Bad /\ m \in 1..n
    <3>1. m - 1 \in 0..n /\ m \in 1..n
      BY <1>2, <1>4
    <3>2. ~(m <= m - 1)
      BY <3>1
    <3> HIDE DEF Bad
    <3> QED BY <1>1, <3>1, <3>2
  <2>2. PICK f \in [0..m-1 -> Nat] : Spelled(f, at, n, m-1)
    BY <2>1
  <2> DEFINE g == [k \in 0..m |-> IF k = m THEN 2 * f[m-1] + Bit(at + n - m) ELSE f[k]]
  <2>3. g \in [0..m -> Nat]
    <3>1. f[m-1] \in Nat /\ \A k \in 0..m : k # m => f[k] \in Nat
      BY <2>1
    <3>2. Bit(at + n - m) \in Nat
      BY DEF Bit
    <3>3. 2 * f[m-1] + Bit(at + n - m) \in Nat
      BY <3>1, <3>2
    <3> QED BY <3>1, <3>3
  <2>4. \A k \in 0..m : g[k] = IF k = 0 THEN 0 ELSE 2 * g[k-1] + Bit(at + n - k)
    <3> TAKE k \in 0..m
    <3>1. CASE k = m
      BY <2>1, <3>1
    <3>2. CASE k # m
      <4>1. f[k] = IF k = 0 THEN 0 ELSE 2 * f[k-1] + Bit(at + n - k)
        BY <2>2, <3>2, <2>1 DEF Spelled
      <4> QED BY <4>1, <2>1, <3>2
    <3> QED BY <3>1, <3>2
  <2>5. Spelled(g, at, n, m)
    BY <2>4 DEF Spelled
  <2> HIDE DEF g
  <2> QED BY <2>3, <2>5, <1>2
<1> QED BY <1>3, <1>4

\* The bits of a packet spell a number of so many bits.
LEMMA ValueFits ==
  ASSUME NEW at \in Nat, NEW n \in Nat
  PROVE  Value(at, n) \in Nat /\ Value(at, n) < 2^n
<1> DEFINE f == CHOOSE f : Spelled(f, at, n, n)
<1>1. n \in 0..n
  OBVIOUS
<1>2. Spelled(f, at, n, n)
  BY <1>1, SpelledExists
<1>3. Value(at, n) = f[n]
  BY DEF Value, Spelled
<1> HIDE DEF f
<1>4. \A m \in 0..n : f[m] \in Nat /\ f[m] < 2^m
  <2> DEFINE Bad == {m \in 0..n : ~(f[m] \in Nat /\ f[m] < 2^m)}
  <2> SUFFICES ASSUME Bad # {} PROVE FALSE
    OBVIOUS
  <2>1. PICK m \in Bad : \A y \in Bad : m <= y
    <3>1. Bad \subseteq Nat
      OBVIOUS
    <3> HIDE DEF Bad
    <3> QED BY <3>1, LeastNat
  <2>2. m \in 0..n /\ f[m] = IF m = 0 THEN 0 ELSE 2 * f[m-1] + Bit(at + n - m)
    BY <1>2 DEF Spelled
  <2>3. CASE m = 0
    <3>1. f[m] = 0 /\ 0 < 2^m
      BY <2>2, <2>3, PowerZero
    <3> QED BY <3>1
  <2>4. CASE m # 0
    <3> DEFINE x == 2^(m-1)
               y == 2^m
               g == f[m-1]
               h == f[m]
    <3>1. m - 1 \in 0..n /\ m - 1 \in Nat /\ (m - 1) + 1 = m /\ ~(m <= m - 1)
      BY <2>2, <2>4
    <3>2. m - 1 \notin Bad
      <4> HIDE DEF Bad
      <4> QED BY <2>1, <3>1
    <3>3. g \in Nat /\ g < x
      BY <3>1, <3>2
    <3>4. x \in Nat /\ y = 2 * x
      BY <3>1, PowerAbove, PowerStep
    <3>5. h = 2 * g + Bit(at + n - m) /\ Bit(at + n - m) \in 0..1
      BY <2>2, <2>4 DEF Bit
    <3>6. ~(h \in Nat /\ h < y)
      OBVIOUS
    <3> HIDE DEF x, y, g, h
    <3>7. h \in Nat /\ h < y
      BY <3>3, <3>4, <3>5
    <3> QED BY <3>6, <3>7
  <2> QED BY <2>3, <2>4
<1>5. n \in 0..n
  OBVIOUS
<1> QED BY <1>3, <1>4, <1>5

-----------------------------------------------------------------------------
(* The primitives *)

\* The bit reader's assertions hold of a width in range and room for it.
LEMMA ReadBitsReads ==
  ASSUME NEW r, Ready(r), NEW n \in 1..MaxBits, r.at + n <= num_bits
  PROVE  LET q == ReadBits(r, n) IN
         /\ DOMAIN q = Fields /\ q.at = r.at + n /\ q.failed = r.failed /\ q.ret = Ok
         /\ q.dirty = r.dirty /\ q.trapped = FALSE /\ q.dest = r.dest /\ q.value \in Nat
<1> DEFINE q == ReadBits(r, n)
<1>1. /\ DOMAIN q = Fields /\ q.at = r.at + n /\ q.failed = r.failed /\ q.ret = r.ret
      /\ q.dirty = r.dirty /\ q.dest = r.dest /\ q.value = Value(r.at, n)
  BY DEF ReadBits, Ready, Fields
<1>2. q.trapped = (r.trapped \/ n \notin 1..MaxBits \/ r.at + n > num_bits)
  BY DEF ReadBits, Ready, Fields
<1>3. ~(r.at + n > num_bits) /\ r.at \in Nat /\ n \in Nat
  BY DEF Ready
<1>4. q.trapped = FALSE
  BY <1>2, <1>3 DEF Ready
<1>5. Value(r.at, n) \in Nat
  BY <1>3, ValueFits
<1> QED BY <1>1, <1>4, <1>5 DEF Ready

\* serialize_bits refuses every bit count its bit reader would assert on.
LEMMA SerializeBitsKeeps ==
  ASSUME NEW r, Ready(r), NEW n
  PROVE  LET q == SerializeBits(r, n) IN Keeps(r, q) /\ (q.ret = Ok => q.value \in Nat)
<1> DEFINE error == IF r.failed = Ok /\ n \notin 1..MaxBits THEN "value_out_of_range" ELSE Refusal(r)
           q == SerializeBits(r, n)
<1>1. CASE Refuses(r, n) \/ n \notin 1..MaxBits
  <2>1. CASE r.failed = Ok
    <3>1. error \in Reasons
      BY <2>1 DEF Refusal, Reasons
    <3>2. q = Latch(r, error)
      BY <1>1 DEF SerializeBits
    <3> QED BY <3>1, <3>2, LatchKeeps
  <2>2. CASE r.failed # Ok
    <3>1. error = r.failed /\ q = Latch(r, error) /\ error \in Reasons
      BY <1>1, <2>2 DEF SerializeBits, Refusal, Ready
    <3> QED BY <3>1, LatchKeeps
  <2> QED BY <2>1, <2>2
<1>2. CASE ~(Refuses(r, n) \/ n \notin 1..MaxBits)
  <2>1. n \in 1..MaxBits /\ r.failed = Ok /\ r.at + n <= num_bits
    BY <1>2 DEF Refuses, Ready
  <2>2. q = ReadBits(r, n)
    BY <1>2 DEF SerializeBits
  <2> HIDE DEF q
  <2>3. /\ DOMAIN q = Fields /\ q.at = r.at + n /\ q.failed = r.failed /\ q.ret = Ok
        /\ q.dirty = r.dirty /\ q.trapped = FALSE /\ q.dest = r.dest /\ q.value \in Nat
    BY <2>1, <2>2, ReadBitsReads
  <2>4. Keeps(r, q)
    BY <2>1, <2>3 DEF Ready, Keeps
  <2> QED BY <2>3, <2>4 DEF q
<1> QED BY <1>1, <1>2

\* Padding that fits is consumed, and refused unless it is zero.
LEMMA SkipZerosKeeps ==
  ASSUME NEW r, Ready(r), r.failed = Ok, NEW n \in 1..MaxBits, r.at + n <= num_bits
  PROVE  LET q == SkipZeros(r, n) IN Keeps(r, q) /\ q.at = r.at + n
<1> DEFINE ones == packet \cap r.at .. r.at + n - 1
           b == ReadBits(r, n)
           q == [b EXCEPT !.dirty = r.dirty \/ ones # {}]
<1>0. /\ DOMAIN b = Fields /\ b.at = r.at + n /\ b.failed = r.failed /\ b.ret = Ok
      /\ b.trapped = FALSE /\ b.dest = r.dest
  BY ReadBitsReads
<1> HIDE DEF b, ones
<1>1. /\ DOMAIN q = Fields /\ q.at = r.at + n /\ q.failed = Ok /\ q.ret = Ok
      /\ q.dirty = (r.dirty \/ ones # {}) /\ q.trapped = FALSE /\ q.dest = r.dest
  BY <1>0 DEF Ready, Fields
<1> HIDE DEF q
<1>2. CASE ones # {}
  <2>1. SkipZeros(r, n) = Latch(q, "nonzero_padding")
    BY <1>2 DEF SkipZeros, q, b, ones
  <2>2. "nonzero_padding" \in Reasons /\ "nonzero_padding" # Ok
    BY DEF Reasons, Ok
  <2> DEFINE s == Latch(q, "nonzero_padding")
  <2>3. /\ DOMAIN s = Fields /\ s.at = q.at /\ s.failed = "nonzero_padding" /\ s.ret = s.failed
        /\ s.dirty = q.dirty /\ s.trapped = q.trapped /\ s.dest = q.dest
    BY <1>1 DEF Latch, Fields
  <2> HIDE DEF s
  <2>4. s.dirty \in BOOLEAN /\ s.trapped = FALSE
    BY <1>1, <2>3
  <2>5. Keeps(r, s)
    BY <1>1, <2>2, <2>3, <2>4 DEF Ready, Keeps
  <2> QED BY <1>1, <2>1, <2>3, <2>5 DEF s
<1>3. CASE ones = {}
  <2>1. SkipZeros(r, n) = q
    BY <1>3 DEF SkipZeros, q, b, ones
  <2>2. q.dirty = r.dirty
    BY <1>1, <1>3 DEF Ready
  <2>3. Keeps(r, q)
    BY <1>1, <2>2 DEF Ready, Keeps
  <2> QED BY <1>1, <2>1, <2>3
<1> QED BY <1>2, <1>3

\* Whole bytes of a number of bits, and what is left of less than one.
LEMMA WholeBytes ==
  ASSUME NEW a \in Nat
  PROVE  /\ a \div ByteBits \in Nat /\ (a \div ByteBits) * ByteBits <= a
         /\ ~(a >= ByteBits) => a \in 0 .. ByteBits - 1 /\ a % ByteBits = a
<1>1. ByteBits \in Nat \ {0}
  OBVIOUS
<1> DEFINE q == a \div ByteBits
<1>2. q \in Nat /\ a = q * ByteBits + (a % ByteBits) /\ a % ByteBits \in Nat
  BY <1>1
<1>3. ~(a >= ByteBits) => a \in 0 .. ByteBits - 1 /\ a % ByteBits = a
  BY <1>1
<1> QED BY <1>1, <1>2, <1>3

\* serialize_align, when it does not refuse, leaves the stream on a byte boundary.
LEMMA SerializeAlignKeeps ==
  ASSUME NEW r, Ready(r)
  PROVE  LET q == SerializeAlign(r) IN Keeps(r, q) /\ (q.ret = Ok => AlignBits(q) = 0)
<1> DEFINE n == AlignBits(r)
           q == SerializeAlign(r)
<1>1. n \in 0 .. ByteBits - 1 /\ (r.at + n) % ByteBits = 0
  <2>1. r.at \in Nat
    BY DEF Ready
  <2> QED BY <2>1, Aligned DEF AlignBits
<1> HIDE DEF n
<1>2. CASE Refuses(r, n)
  <2>1. q = Latch(r, Refusal(r)) /\ Refusal(r) \in Reasons
    BY <1>2 DEF SerializeAlign, n, Refusal, Ready, Reasons
  <2> QED BY <2>1, LatchKeeps
<1>3. CASE ~Refuses(r, n) /\ n = 0
  <2>1. q = r /\ r.failed = Ok
    BY <1>3 DEF SerializeAlign, n, Refuses
  <2> QED BY <1>3, <2>1 DEF Keeps, Ready, n
<1>4. CASE ~Refuses(r, n) /\ n # 0
  <2>1. q = SkipZeros(r, n) /\ r.failed = Ok /\ n \in 1..MaxBits /\ r.at + n <= num_bits
    BY <1>1, <1>4 DEF SerializeAlign, n, Refuses, Ready
  <2>2. Keeps(r, q) /\ q.at = r.at + n
    BY <2>1, SkipZerosKeeps
  <2>3. AlignBits(q) = 0
    BY <1>1, <2>2 DEF AlignBits
  <2> QED BY <2>2, <2>3
<1> QED BY <1>2, <1>3, <1>4

\* A byte boundary and room for k bytes: what read_byte_slice asserts, and leaves again.
LEMMA ReadByteSliceKeeps ==
  ASSUME NEW r, Ready(r), r.failed = Ok, AlignBits(r) = 0,
         NEW k \in Nat, ~(k > Remaining(r) \div ByteBits)
  PROVE  Keeps(r, ReadByteSlice(r, k))
<1> DEFINE q == ReadByteSlice(r, k)
           bits == k * ByteBits
<1>1. bits \in Nat /\ r.at + bits <= num_bits
  <2> DEFINE left == Remaining(r)
             m == left \div ByteBits
  <2>1. left \in Nat /\ left = num_bits - r.at /\ r.at \in Nat /\ num_bits \in Nat
    BY DEF Ready, Remaining
  <2> HIDE DEF left
  <2>2. m \in Nat /\ m * ByteBits <= left
    BY <2>1, WholeBytes
  <2>3. k <= m
    BY <2>2 DEF left
  <2> HIDE DEF m
  <2>4. k * ByteBits <= m * ByteBits /\ bits \in Nat /\ m * ByteBits \in Nat
    BY <2>2, <2>3
  <2> QED BY <2>1, <2>2, <2>4
<1>2. /\ DOMAIN q = Fields /\ q.at = r.at + bits /\ q.failed = r.failed /\ q.ret = r.ret
      /\ q.dirty = r.dirty /\ q.dest = r.dest
  BY DEF ReadByteSlice, Ready, Fields, bits
<1>3. q.trapped = (r.trapped \/ AlignBits(r) # 0 \/ r.at + bits > num_bits)
  BY DEF ReadByteSlice, Ready, Fields, bits
<1>4. q.trapped = FALSE
  <2>1. ~(r.at + bits > num_bits)
    BY <1>1 DEF Ready
  <2> QED BY <1>3, <2>1 DEF Ready
<1> HIDE DEF q
<1>5. Keeps(r, q)
  BY <1>1, <1>2, <1>4 DEF Keeps, Ready
<1> QED BY <1>5 DEF q

\* serialize_end accepts only when nothing is left.
LEMMA SerializeEndKeeps ==
  ASSUME NEW r, Ready(r)
  PROVE  LET q == SerializeEnd(r) IN Keeps(r, q) /\ (q.ret = Ok => q.at = num_bits)
<1> DEFINE left == Remaining(r)
           q == SerializeEnd(r)
<1>1. left \in Nat /\ left = num_bits - r.at /\ r.at \in Nat
  BY DEF Remaining, Ready
<1>2. CASE r.failed # Ok
  <2>1. q = Gate(r) /\ q.ret # Ok
    BY <1>2 DEF SerializeEnd, Gate, Ready, Fields
  <2> QED BY <2>1, GateKeeps
<1>3. CASE r.failed = Ok /\ left >= ByteBits
  <2>1. q = Latch(r, "trailing_data") /\ "trailing_data" \in Reasons
    BY <1>3 DEF SerializeEnd, Reasons
  <2> QED BY <2>1, LatchKeeps
<1>4. CASE r.failed = Ok /\ ~(left >= ByteBits)
  <2>1. left % ByteBits = left /\ left \in 0 .. ByteBits - 1
    <3> HIDE DEF left
    <3> QED BY <1>1, <1>4, WholeBytes
  <2>2. CASE left = 0
    <3>1. q = r
      BY <1>4, <2>1, <2>2 DEF SerializeEnd
    <3> QED BY <1>1, <1>4, <2>2, <3>1 DEF Ready, Keeps
  <2>3. CASE left # 0
    <3>1. q = SkipZeros(r, left)
      BY <1>4, <2>1, <2>3 DEF SerializeEnd
    <3>2. left \in 1..MaxBits /\ r.at + left = num_bits /\ num_bits \in Nat
      <4>1. num_bits \in Nat
        BY DEF Ready
      <4> HIDE DEF left, q
      <4>2. left \in 1..MaxBits
        BY <2>1, <2>3
      <4> QED BY <1>1, <4>1, <4>2
    <3>3. Keeps(r, q) /\ q.at = r.at + left
      <4> HIDE DEF left, q
      <4>1. r.at + left <= num_bits
        BY <3>2
      <4> QED BY <1>4, <3>1, <3>2, <4>1, SkipZerosKeeps
    <3> QED BY <3>2, <3>3
  <2> QED BY <2>2, <2>3
<1> QED BY <1>2, <1>3, <1>4

-----------------------------------------------------------------------------
(* The methods *)

\* Storing what was read touches the destination, and only when nothing was refused.
Delivers(r, q) == /\ Keeps(r, [q EXCEPT !.dest = r.dest])
                  /\ DOMAIN q = Fields /\ (q.ret # Ok => q.dest = r.dest)

\* Every outcome of a method may be delivered.
LEMMA DeliverDelivers ==
  ASSUME NEW r, NEW q, Keeps(r, q)
  PROVE  Delivers(r, Deliver(q))
<1> DEFINE d == Deliver(q)
           s == [d EXCEPT !.dest = r.dest]
<1>1. /\ DOMAIN d = Fields /\ d.at = q.at /\ d.failed = q.failed /\ d.ret = q.ret
      /\ d.dirty = q.dirty /\ d.trapped = q.trapped /\ (d.ret # Ok => d.dest = q.dest)
  BY DEF Deliver, Keeps, Fields
<1> HIDE DEF d
<1>2. /\ DOMAIN s = Fields /\ s.at = q.at /\ s.failed = q.failed /\ s.ret = q.ret
      /\ s.dirty = q.dirty /\ s.trapped = q.trapped /\ s.dest = q.dest
  BY <1>1 DEF Fields, Keeps
<1> HIDE DEF s
<1>3. Keeps(r, s)
  BY <1>2 DEF Keeps
<1>4. Delivers(r, d)
  BY <1>1, <1>3 DEF Delivers, Keeps, s
<1> QED BY <1>4 DEF d

\* The value and the assertion flag of a stream may change without breaking the contract.
LEMMA NewValue ==
  ASSUME NEW r, NEW q, Keeps(r, q), NEW v
  PROVE  Keeps(r, [q EXCEPT !.value = v])
BY DEF Keeps, Fields

\* The next group of a value.
LEMMA ThenKeeps ==
  ASSUME NEW r, NEW q, Ready(r), Keeps(r, q), NEW n, NEW low
  PROVE  Keeps(r, Then(q, n, low))
<1> DEFINE s == SerializeBits(q, n)
           t == [s EXCEPT !.value = q.value + s.value * 2^low]
<1>1. CASE q.ret # Ok
  BY <1>1 DEF Then
<1>2. CASE q.ret = Ok
  <2>1. Ready(q) /\ \A u : Keeps(q, u) => Keeps(r, u)
    BY <1>2, Composes
  <2>2. Keeps(q, s)
    BY <2>1, SerializeBitsKeeps
  <2>3. Keeps(q, t)
    BY <2>2, NewValue
  <2>4. Then(q, n, low) = IF s.ret # Ok THEN s ELSE t
    BY <1>2 DEF Then
  <2> HIDE DEF s, t
  <2> QED BY <2>1, <2>2, <2>3, <2>4
<1> QED BY <1>1, <1>2

\* Up to four groups.
LEMMA SerializeOffsetKeeps ==
  ASSUME NEW r, Ready(r), NEW n \in 1 .. 4*MaxBits
  PROVE  LET q == SerializeOffset(r, n) IN
         Keeps(r, q) /\ (n <= MaxBits /\ q.ret = Ok => q.value \in Nat)
<1> DEFINE one == SerializeBits(r, n)
           two == Then(Low(r), n - MaxBits, MaxBits)
           three == Then(Then(Low(r), MaxBits, MaxBits), n - 2*MaxBits, 2*MaxBits)
           four == Then(Then(Then(Low(r), MaxBits, MaxBits), MaxBits, 2*MaxBits),
                        n - 3*MaxBits, 3*MaxBits)
           q == CASE n <= MaxBits -> one
                  [] n > MaxBits /\ n <= 2*MaxBits -> two
                  [] n > 2*MaxBits /\ n <= 3*MaxBits -> three
                  [] OTHER -> four
           s == [q EXCEPT !.trapped = q.trapped \/ n \notin 1 .. 4*MaxBits]
<1>1. Keeps(r, one) /\ (one.ret = Ok => one.value \in Nat)
  BY SerializeBitsKeeps
<1>2. Keeps(r, Low(r))
  BY SerializeBitsKeeps DEF Low
<1>3. Keeps(r, two) /\ Keeps(r, Then(Low(r), MaxBits, MaxBits))
  BY <1>2, ThenKeeps
<1>4. Keeps(r, three) /\ Keeps(r, Then(Then(Low(r), MaxBits, MaxBits), MaxBits, 2*MaxBits))
  BY <1>3, ThenKeeps
<1>5. Keeps(r, four)
  BY <1>4, ThenKeeps
<1>6. SerializeOffset(r, n) = s
  BY DEF SerializeOffset
<1> HIDE DEF one, two, three, four
<1>7. Keeps(r, q) /\ (n <= MaxBits => q = one)
  BY <1>1, <1>3, <1>4, <1>5
<1> HIDE DEF q
<1>8. /\ DOMAIN s = Fields /\ s.at = q.at /\ s.failed = q.failed /\ s.ret = q.ret
      /\ s.dirty = q.dirty /\ s.dest = q.dest /\ s.value = q.value
  BY <1>7 DEF Keeps, Fields
<1>9. s.trapped = FALSE
  BY <1>7 DEF Keeps, Fields
<1> HIDE DEF s
<1>10. Keeps(r, s)
  BY <1>7, <1>8, <1>9 DEF Keeps
<1> QED BY <1>1, <1>6, <1>7, <1>8, <1>10

\* Ranged integers: the declaration is refused, needs no bits, or fits the widest type.
LEMMA SerializeIntKeeps ==
  ASSUME NEW r, Ready(r), NEW min, NEW max,
         ~(min > max) /\ min # max => BitsRequired(max - min) \in 1 .. 4*MaxBits
  PROVE  LET q == SerializeInt(r, min, max) IN
         /\ Keeps(r, q)
         /\ min \in Nat /\ (min # max => BitsRequired(max - min) <= MaxBits) /\ q.ret = Ok
              => q.value \in Nat
<1> DEFINE n == BitsRequired(max - min)
           q == SerializeOffset(r, n)
           s == SerializeInt(r, min, max)
<1>1. CASE min > max
  <2>1. s = Latch(r, "value_out_of_range") /\ "value_out_of_range" \in Reasons
    BY <1>1 DEF SerializeInt, Reasons
  <2> QED BY <2>1, LatchKeeps
<1>2. CASE ~(min > max) /\ min = max
  <2>1. Keeps(r, Gate(r)) /\ s = [Gate(r) EXCEPT !.value = min]
    BY <1>2, GateKeeps DEF SerializeInt
  <2>2. Keeps(r, s)
    BY <2>1, NewValue
  <2>3. s.value = min
    BY <2>1 DEF Keeps, Fields
  <2> QED BY <2>2, <2>3
<1>3. CASE ~(min > max) /\ min # max
  <2>1. Keeps(r, q) /\ (n <= MaxBits /\ q.ret = Ok => q.value \in Nat)
    BY <1>3, SerializeOffsetKeeps
  <2>2. s = IF q.ret # Ok THEN q
            ELSE IF q.value > max - min THEN Latch(q, "value_out_of_range")
            ELSE [q EXCEPT !.value = min + q.value]
    BY <1>3 DEF SerializeInt, Offset
  <2>3. Keeps(r, [q EXCEPT !.value = min + q.value])
    BY <2>1, NewValue
  <2>4. q.ret = Ok => Keeps(r, Latch(q, "value_out_of_range"))
    BY <2>1, LatchLater DEF Reasons
  <2>5. q.ret = Ok => Latch(q, "value_out_of_range").ret # Ok
    BY <2>1, LatchLater DEF Reasons
  <2> HIDE DEF q, s
  <2>6. Keeps(r, s)
    BY <2>1, <2>2, <2>3, <2>4
  <2>7. ASSUME min \in Nat, n <= MaxBits, s.ret = Ok PROVE s.value \in Nat
    <3>1. q.ret = Ok /\ s = [q EXCEPT !.value = min + q.value]
      BY <2>2, <2>5, <2>7
    <3>2. s.value = min + q.value
      BY <2>1, <3>1 DEF Keeps, Fields
    <3> QED BY <2>1, <2>7, <3>1, <3>2
  <2> QED BY <1>3, <2>6, <2>7 DEF s
<1> QED BY <1>1, <1>2, <1>3

\* A method's own check of what it has read.
LEMMA Checks ==
  ASSUME NEW r, NEW q, Ready(r), Keeps(r, q), NEW error \in Reasons, NEW bad \in BOOLEAN
  PROVE  Keeps(r, IF q.ret = Ok /\ bad THEN Latch(q, error) ELSE q)
BY LatchLater

\* Raw fields of up to two groups.
LEMMA SerializeBits64Keeps ==
  ASSUME NEW r, Ready(r), NEW n
  PROVE  Keeps(r, SerializeBits64(r, n))
<1>1. CASE n \notin 1 .. 2*MaxBits
  <2>1. "value_out_of_range" \in Reasons
    BY DEF Reasons
  <2> QED BY <1>1, <2>1, LatchKeeps DEF SerializeBits64
<1>2. CASE n \in 1 .. 2*MaxBits
  <2>1. n \in 1 .. 4*MaxBits
    BY <1>2
  <2> QED BY <1>2, <2>1, SerializeOffsetKeeps DEF SerializeBits64
<1> QED BY <1>1, <1>2

\* Two halves.
LEMMA SerializeU128Keeps ==
  ASSUME NEW r, Ready(r)
  PROVE  Keeps(r, SerializeU128(r))
<1> DEFINE lo == SerializeBits64(r, 2*MaxBits)
           hi == SerializeBits64(lo, 2*MaxBits)
           q == [hi EXCEPT !.value = lo.value + hi.value * 2^(2*MaxBits)]
<1>1. Keeps(r, lo)
  BY SerializeBits64Keeps
<1>2. lo.ret = Ok => Keeps(r, hi)
  BY <1>1, Composes, SerializeBits64Keeps
<1>3. lo.ret = Ok => Keeps(r, q)
  BY <1>2, NewValue
<1>4. SerializeU128(r) = IF lo.ret # Ok THEN lo ELSE IF hi.ret # Ok THEN hi ELSE q
  BY DEF SerializeU128
<1> HIDE DEF lo, hi, q
<1> QED BY <1>1, <1>2, <1>3, <1>4

\* Floats of either width.
LEMMA SerializeFloatKeeps ==
  ASSUME NEW r, Ready(r), NEW n, NEW fraction
  PROVE  Keeps(r, SerializeFloat(r, n, fraction))
<1> DEFINE q == SerializeBits64(r, n)
           bad == ~Finite(q.value, n, fraction)
<1>1. Keeps(r, q) /\ "non_finite_float" \in Reasons /\ bad \in BOOLEAN
  BY SerializeBits64Keeps DEF Reasons
<1>2. SerializeFloat(r, n, fraction) = IF q.ret = Ok /\ bad THEN Latch(q, "non_finite_float") ELSE q
  BY DEF SerializeFloat
<1> HIDE DEF q, bad
<1> QED BY <1>1, <1>2, Checks

\* Compressed floats, whatever was declared of them.
LEMMA SerializeCompressedFloatKeeps ==
  ASSUME NEW r, Ready(r), NEW f
  PROVE  Keeps(r, SerializeCompressedFloat(r, f))
<1> DEFINE q == SerializeBits(r, BitsRequired(f.max))
<1>1. Keeps(r, q)
  BY SerializeBitsKeeps
<1>2. SerializeCompressedFloat(r, f) =
        IF ~f.declared THEN Latch(r, "value_out_of_range")
        ELSE IF q.ret # Ok THEN q
        ELSE IF q.value > f.max THEN Latch(q, "value_out_of_range")
        ELSE IF q.value > f.top THEN Latch(q, "non_finite_float") ELSE q
  BY DEF SerializeCompressedFloat
<1>3. "value_out_of_range" \in Reasons /\ "non_finite_float" \in Reasons
  BY DEF Reasons
<1> HIDE DEF q
<1>4. Keeps(r, Latch(r, "value_out_of_range"))
  BY <1>3, LatchKeeps
<1>5. q.ret = Ok => Keeps(r, Latch(q, "value_out_of_range")) /\ Keeps(r, Latch(q, "non_finite_float"))
  BY <1>1, <1>3, LatchLater
<1> QED BY <1>1, <1>2, <1>4, <1>5

\* Fixed point: a declaration that passes fits the widest storage.
LEMMA SerializeFixedKeeps ==
  ASSUME NEW r, Ready(r), NEW f \in Formats
  PROVE  Keeps(r, SerializeFixed(r, f))
<1> DEFINE min == f.min * 2^f.fraction
           max == f.max * 2^f.fraction
           q == SerializeInt(r, min, max)
           s == [q EXCEPT !.value = Wrap(q.value, f.storage, f.signed)]
<1>1. SerializeFixed(r, f) = IF ~FixedDeclared(f) THEN Latch(r, "value_out_of_range")
                             ELSE IF q.ret # Ok THEN q ELSE s
  BY DEF SerializeFixed
<1>2. FixedDeclared(f) /\ min # max => BitsRequired(max - min) \in 1 .. 4*MaxBits
  BY DeclarationAssumption
<1> HIDE DEF min, max
<1>3. FixedDeclared(f) => Keeps(r, q)
  BY <1>2, SerializeIntKeeps
<1>4. FixedDeclared(f) => Keeps(r, s)
  BY <1>3, NewValue
<1>5. Keeps(r, Latch(r, "value_out_of_range"))
  BY LatchKeeps DEF Reasons
<1> HIDE DEF q, s
<1> QED BY <1>1, <1>3, <1>4, <1>5

\* A reader stops on some rung of the ladder, and everything below it was read and is zero.
LEMMA RungIsReached ==
  ASSUME NEW r, Ready(r)
  PROVE  /\ Rung(r) \in 0 .. Len(Tiers) + 1
         /\ r.at + Rung(r) <= num_bits
         /\ r.failed # Ok => Rung(r) = 0
<1> DEFINE Top == {n \in Nat : n \notin Climbed(r)}
<1>1. Len(Tiers) \in Nat /\ r.at \in Nat /\ num_bits \in Nat
  BY FormatAssumption DEF Ready
<1>2. 0 \in Climbed(r)
  BY <1>1 DEF Climbed, Rungs
<1>3. \E n \in Climbed(r) : n + 1 \notin Climbed(r)
  <2>1. Len(Tiers) + 2 \in Top /\ Top \subseteq Nat
    BY <1>1 DEF Climbed, Rungs
  <2>2. PICK n \in Top : \A y \in Top : n <= y
    <3> HIDE DEF Top
    <3> QED BY <2>1, LeastNat
  <2>3. n # 0 /\ n \in Nat
    BY <1>2
  <2>4. n - 1 \in Nat /\ n - 1 \notin Top
    <3>1. ~(n <= n - 1) /\ n - 1 \in Nat
      BY <2>3
    <3> HIDE DEF Top
    <3> QED BY <2>2, <3>1
  <2>5. n - 1 \in Climbed(r) /\ (n - 1) + 1 = n /\ n \notin Climbed(r)
    BY <2>3, <2>4
  <2> QED BY <2>5
<1>4. Rung(r) \in Climbed(r)
  BY <1>3 DEF Rung
<1> DEFINE n == Rung(r)
<1>5. n \in 0 .. Len(Tiers) + 1 /\ \A i \in 0 .. n-1 : ~Refuses(r, i+1)
  BY <1>4 DEF Climbed, Rungs
<1> HIDE DEF n
<1>6. CASE n = 0
  BY <1>1, <1>5, <1>6 DEF n, Ready
<1>7. CASE n # 0
  <2>1. n - 1 \in 0 .. n-1 /\ (n - 1) + 1 = n
    BY <1>1, <1>5, <1>7
  <2>2. ~Refuses(r, n)
    BY <1>5, <2>1
  <2> QED BY <1>1, <1>5, <2>2 DEF n, Refuses
<1> QED BY <1>6, <1>7

\* The domain rule of int_relative.
LEMMA AcceptKeeps ==
  ASSUME NEW r, NEW q, Ready(r), Keeps(r, q), q.ret = Ok, NEW previous, NEW v
  PROVE  Keeps(r, Accept(q, previous, v))
<1>1. Keeps(r, [q EXCEPT !.value = v])
  BY NewValue
<1>2. Keeps(r, Latch(q, "value_out_of_range"))
  BY LatchLater DEF Reasons
<1> QED BY <1>1, <1>2 DEF Accept

\* A bounded tier: the answer yes, then the difference.
LEMMA BoundedTierKeeps ==
  ASSUME NEW r, Ready(r), NEW t \in 0 .. Len(Tiers), NEW previous
  PROVE  Keeps(r, BoundedTier(r, t, previous))
<1> DEFINE yes == SerializeBits(r, 1)
           q == SerializeInt(yes, TierFirst(t), Tiers[t])
<1>1. Keeps(r, yes)
  BY SerializeBitsKeeps
<1>2. ASSUME yes.ret = Ok, t # 0 PROVE Keeps(r, q)
  <2>1. Len(Tiers) \in Nat /\ t \in 1 .. Len(Tiers)
    BY <1>2, FormatAssumption
  <2>2. Tiers[t] \in Int /\ TierFirst(t) \in Int
    BY <2>1, FormatAssumption DEF TierFirst
  <2>3. ~(TierFirst(t) > Tiers[t]) /\ TierFirst(t) # Tiers[t]
          => BitsRequired(Tiers[t] - TierFirst(t)) \in 1 .. 4*MaxBits
    BY <2>1, <2>2, FormatWidths
  <2>4. Ready(yes) /\ \A s : Keeps(yes, s) => Keeps(r, s)
    BY <1>1, <1>2, Composes
  <2> HIDE DEF yes
  <2> QED BY <2>3, <2>4, SerializeIntKeeps
<1>3. BoundedTier(r, t, previous) =
        IF yes.ret # Ok THEN yes
        ELSE IF t = 0 THEN Accept(yes, previous, previous + 1)
        ELSE IF q.ret # Ok THEN q ELSE Accept(q, previous, previous + q.value)
  BY DEF BoundedTier
<1> HIDE DEF yes, q
<1>4. yes.ret = Ok => Keeps(r, Accept(yes, previous, previous + 1))
  BY <1>1, AcceptKeeps
<1>5. yes.ret = Ok /\ t # 0 /\ q.ret = Ok => Keeps(r, Accept(q, previous, previous + q.value))
  BY <1>2, AcceptKeeps
<1> QED BY <1>1, <1>2, <1>3, <1>4, <1>5

\* The absolute tier.
LEMMA AbsoluteTierKeeps ==
  ASSUME NEW r, Ready(r), NEW previous
  PROVE  Keeps(r, AbsoluteTier(r, previous))
<1> DEFINE q == Low(r)
           last == Tiers[Len(Tiers)]
<1>1. Keeps(r, q)
  BY SerializeBitsKeeps DEF Low
<1>2. q.ret = Ok => Keeps(r, Latch(q, "value_out_of_range")) /\ Keeps(r, Latch(q, "non_canonical"))
  BY <1>1, LatchLater DEF Reasons
<1>3. AbsoluteTier(r, previous) =
        IF q.ret # Ok THEN q
        ELSE IF ~InDomain(previous, q.value) THEN Latch(q, "value_out_of_range")
        ELSE IF q.value - previous <= last THEN Latch(q, "non_canonical") ELSE q
  BY DEF AbsoluteTier
<1> HIDE DEF q, last
<1> QED BY <1>1, <1>2, <1>3

\* The whole ladder.
LEMMA SerializeIntRelativeKeeps ==
  ASSUME NEW r, Ready(r), NEW previous
  PROVE  Keeps(r, SerializeIntRelative(r, previous))
<1> DEFINE t == Rung(r)
           s == [r EXCEPT !.at = r.at + t]
<1>1. Len(Tiers) \in Nat /\ t \in 0 .. Len(Tiers) + 1 /\ r.at + t <= num_bits /\ (r.failed # Ok => t = 0)
  BY RungIsReached, FormatAssumption
<1> HIDE DEF t
<1>2. /\ DOMAIN s = Fields /\ s.at = r.at + t /\ s.failed = r.failed /\ s.ret = Ok
      /\ s.dirty = r.dirty /\ s.trapped = FALSE /\ s.dest = r.dest
  BY DEF Ready, Fields
<1> HIDE DEF s
<1>3. Ready(s) /\ s.at \in r.at .. num_bits
  BY <1>1, <1>2 DEF Ready
<1>4. ASSUME NEW q, Keeps(s, q) PROVE Keeps(r, q)
  <2>1. q.at \in r.at .. num_bits
    BY <1>3, <1>4 DEF Keeps, Ready
  <2>2. r.failed # Ok => s.at = r.at
    BY <1>1, <1>2 DEF Ready
  <2> QED BY <1>2, <1>4, <2>1, <2>2 DEF Keeps
<1>5. CASE previous < 0
  <2>1. SerializeIntRelative(r, previous) = Latch(r, "value_out_of_range")
    BY <1>5 DEF SerializeIntRelative
  <2> QED BY <2>1, LatchKeeps DEF Reasons
<1>6. CASE ~(previous < 0) /\ t > Len(Tiers)
  <2>1. SerializeIntRelative(r, previous) = AbsoluteTier(s, previous)
    BY <1>6 DEF SerializeIntRelative, s, t
  <2> QED BY <1>3, <1>4, <2>1, AbsoluteTierKeeps
<1>7. CASE ~(previous < 0) /\ ~(t > Len(Tiers))
  <2>1. SerializeIntRelative(r, previous) = BoundedTier(s, t, previous)
    BY <1>7 DEF SerializeIntRelative, s, t
  <2>2. t \in 0 .. Len(Tiers)
    BY <1>1, <1>7
  <2> QED BY <1>3, <1>4, <2>1, <2>2, BoundedTierKeeps
<1> QED BY <1>5, <1>6, <1>7

\* The payload of a string: its bytes are there, on a byte boundary, and then validated.
LEMMA TextKeeps ==
  ASSUME NEW r, Ready(r), r.failed = Ok, AlignBits(r) = 0,
         NEW k \in Nat, ~(k > Remaining(r) \div ByteBits)
  PROVE  Keeps(r, Text(r, k))
<1> DEFINE q == ReadByteSlice(r, k)
<1>1. Keeps(r, q)
  BY ReadByteSliceKeeps
<1>2. q.ret = Ok
  <2>1. q.ret = r.ret
    BY DEF ReadByteSlice, Ready, Fields
  <2> QED BY <2>1 DEF Ready
<1>3. Keeps(r, Latch(q, "embedded_nul")) /\ Keeps(r, Latch(q, "invalid_utf8"))
  BY <1>1, <1>2, LatchLater DEF Reasons
<1>4. Text(r, k) = IF HasNul(q.value) THEN Latch(q, "embedded_nul")
                   ELSE IF ~WellFormed(q.value) THEN Latch(q, "invalid_utf8") ELSE q
  BY DEF Text
<1> HIDE DEF q
<1> QED BY <1>1, <1>3, <1>4

\* Strings: a length, the alignment, and the payload.
LEMMA SerializeStringKeeps ==
  ASSUME NEW r, Ready(r), NEW size
  PROVE  Keeps(r, SerializeString(r, size))
<1> DEFINE n == SerializeInt(r, 0, size - 1)
           q == SerializeAlign(n)
<1>1. CASE size \notin 1..MaxSize
  <2>1. SerializeString(r, size) = Latch(r, "value_out_of_range")
    BY <1>1 DEF SerializeString
  <2> QED BY <2>1, LatchKeeps DEF Reasons
<1>2. CASE size \in 1..MaxSize
  <2>1. MaxSize \in Nat /\ size - 1 \in 0 .. MaxSize - 1 /\ (size - 1) - 0 = size - 1
    BY <1>2, FormatAssumption
  <2>2. 0 # size - 1 => BitsRequired((size - 1) - 0) \in 1..MaxBits
    <3>1. 0 # size - 1 => size - 1 \in 1 .. MaxSize - 1
      BY <1>2, <2>1
    <3> QED BY <2>1, <3>1, FormatWidths
  <2>3. 0 # size - 1 => /\ BitsRequired((size - 1) - 0) \in 1 .. 4*MaxBits
                        /\ BitsRequired((size - 1) - 0) <= MaxBits
    BY <2>2
  <2>4. Keeps(r, n) /\ (n.ret = Ok => n.value \in Nat)
    BY <2>3, SerializeIntKeeps
  <2> HIDE DEF n
  <2>5. ASSUME n.ret = Ok PROVE Keeps(r, q) /\ (q.ret = Ok => AlignBits(q) = 0)
    BY <2>4, <2>5, Composes, SerializeAlignKeeps
  <2>6. SerializeString(r, size) =
          IF n.ret # Ok THEN n ELSE IF q.ret # Ok THEN q
          ELSE IF n.value > Remaining(q) \div ByteBits THEN Latch(q, "past_end") ELSE Text(q, n.value)
    BY <1>2 DEF SerializeString, n
  <2> HIDE DEF q
  <2>7. ASSUME n.ret = Ok, q.ret = Ok PROVE Ready(q) /\ q.failed = Ok /\ \A s : Keeps(q, s) => Keeps(r, s)
    <3>1. Keeps(r, q)
      BY <2>5, <2>7
    <3>2. q.failed = Ok
      BY <2>7, <3>1 DEF Keeps
    <3> QED BY <2>7, <3>1, <3>2, Composes
  <2>8. ASSUME n.ret = Ok, q.ret = Ok PROVE Keeps(r, Latch(q, "past_end"))
    BY <2>5, <2>8, LatchLater DEF Reasons
  <2>9. ASSUME n.ret = Ok, q.ret = Ok, ~(n.value > Remaining(q) \div ByteBits)
        PROVE  Keeps(r, Text(q, n.value))
    BY <2>4, <2>5, <2>7, <2>9, TextKeeps
  <2> QED BY <2>4, <2>5, <2>6, <2>8, <2>9
<1> QED BY <1>1, <1>2

\* Byte arrays are delivered whole or not at all.
LEMMA SerializeBytesDelivers ==
  ASSUME NEW r, Ready(r), NEW k \in Nat
  PROVE  Delivers(r, SerializeBytes(r, k))
<1> DEFINE q == SerializeAlign(r)
           b == ReadByteSlice(q, k)
           p == Latch(q, "past_end")
<1>1. Keeps(r, q) /\ (q.ret = Ok => AlignBits(q) = 0)
  BY SerializeAlignKeeps
<1>2. SerializeBytes(r, k) =
        IF q.ret # Ok THEN q ELSE IF k > Remaining(q) \div ByteBits THEN p ELSE Deliver(b)
  BY DEF SerializeBytes
<1> HIDE DEF q
<1>3. ASSUME q.ret # Ok PROVE Delivers(r, q)
  <2>1. Deliver(q) = q
    BY <1>3 DEF Deliver
  <2> QED BY <1>1, <2>1, DeliverDelivers
<1>4. ASSUME q.ret = Ok PROVE Delivers(r, p)
  <2>1. Keeps(r, p) /\ p.ret # Ok
    BY <1>1, <1>4, LatchLater DEF Reasons
  <2>2. Deliver(p) = p
    BY <2>1 DEF Deliver
  <2> QED BY <2>1, <2>2, DeliverDelivers
<1>5. ASSUME q.ret = Ok, ~(k > Remaining(q) \div ByteBits) PROVE Delivers(r, Deliver(b))
  <2>1. Ready(q) /\ q.failed = Ok /\ \A s : Keeps(q, s) => Keeps(r, s)
    BY <1>1, <1>5, Composes DEF Keeps
  <2>2. Keeps(r, b)
    BY <1>1, <1>5, <2>1, ReadByteSliceKeeps
  <2> QED BY <2>2, DeliverDelivers
<1> HIDE DEF b, p
<1> QED BY <1>2, <1>3, <1>4, <1>5

-----------------------------------------------------------------------------
(* What is read *)

\* a method that succeeds has read a value of just n bits
Reads(r, q, n) == q.ret = Ok => q.at = r.at + n /\ q.value \in Nat /\ q.value < 2^n

\* A refusal is no success.
LEMMA LatchRefuses ==
  ASSUME NEW r, NEW q, Ready(r), Keeps(r, q), NEW error \in Reasons
  PROVE  Latch(q, error).ret # Ok
<1>1. Ok \notin Reasons
  BY DEF Reasons, Ok
<1> QED BY <1>1 DEF Latch, Keeps, Fields

\* serialize_bits reads what a width in range says.
LEMMA SerializeBitsReads ==
  ASSUME NEW r, Ready(r), NEW n
  PROVE  LET q == SerializeBits(r, n) IN Reads(r, q, n) /\ (q.ret = Ok => n \in 1..MaxBits)
<1> DEFINE error == IF r.failed = Ok /\ n \notin 1..MaxBits THEN "value_out_of_range" ELSE Refusal(r)
           q == SerializeBits(r, n)
<1>1. CASE Refuses(r, n) \/ n \notin 1..MaxBits
  <2>1. q = Latch(r, error) /\ error \in Reasons
    BY <1>1 DEF SerializeBits, Refusal, Ready, Reasons
  <2>2. Latch(r, error).ret # Ok
    BY <2>1, LatchKeeps
  <2> QED BY <2>1, <2>2 DEF Reads
<1>2. CASE ~(Refuses(r, n) \/ n \notin 1..MaxBits)
  <2>1. n \in 1..MaxBits /\ q = ReadBits(r, n) /\ r.at \in Nat /\ n \in Nat
    BY <1>2 DEF SerializeBits, Ready
  <2>2. q.at = r.at + n /\ q.value = Value(r.at, n)
    BY <2>1 DEF ReadBits, Ready, Fields
  <2> HIDE DEF q
  <2>3. q.value \in Nat /\ q.value < 2^n
    BY <2>1, <2>2, ValueFits
  <2> QED BY <2>1, <2>2, <2>3 DEF Reads, q
<1> QED BY <1>1, <1>2

\* The next group of a value goes above those that were read.
LEMMA ThenReads ==
  ASSUME NEW r, NEW q, Ready(r), Keeps(r, q), NEW low \in Nat, Reads(r, q, low), NEW n
  PROVE  Reads(r, Then(q, n, low), low + n)
<1> DEFINE s == SerializeBits(q, n)
           t == [s EXCEPT !.value = q.value + s.value * 2^low]
<1>1. CASE q.ret # Ok
  BY <1>1 DEF Then, Reads
<1>2. CASE q.ret = Ok
  <2>1. Ready(q)
    BY <1>2, Composes
  <2>2. Then(q, n, low) = IF s.ret # Ok THEN s ELSE t
    BY <1>2 DEF Then
  <2>3. CASE s.ret # Ok
    BY <2>2, <2>3 DEF Reads
  <2>4. CASE s.ret = Ok
    <3>1. Reads(q, s, n) /\ n \in 1..MaxBits /\ Keeps(q, s)
      BY <2>1, <2>4, SerializeBitsReads, SerializeBitsKeeps
    <3>2. /\ n \in Nat /\ s.at = q.at + n /\ s.value \in Nat /\ s.value < 2^n
          /\ q.at = r.at + low /\ q.value \in Nat /\ q.value < 2^low /\ r.at \in Nat
      BY <1>2, <2>4, <3>1 DEF Reads, Ready
    <3>3. t.at = s.at /\ t.value = q.value + s.value * 2^low
      BY <3>1 DEF Keeps, Fields
    <3> HIDE DEF s, t
    <3>4. t.value \in Nat /\ t.value < 2^(low + n)
      <4> DEFINE a == q.value
                 b == s.value
      <4>1. a \in Nat /\ a < 2^low /\ b \in Nat /\ b < 2^n /\ t.value = a + b * 2^low
        BY <3>2, <3>3
      <4> HIDE DEF a, b
      <4>2. a + b * 2^low \in Nat /\ a + b * 2^low < 2^(low + n)
        BY <3>2, <4>1, PowerJoin
      <4> QED BY <4>1, <4>2
    <3>5. t.at = r.at + (low + n)
      BY <3>2, <3>3
    <3> QED BY <2>2, <2>4, <3>4, <3>5 DEF Reads
  <2> QED BY <2>3, <2>4
<1> QED BY <1>1, <1>2

\* Up to four groups.
LEMMA SerializeOffsetReads ==
  ASSUME NEW r, Ready(r), NEW n \in 1 .. 4*MaxBits
  PROVE  Reads(r, SerializeOffset(r, n), n)
<1> DEFINE low == Low(r)
           low2 == Then(low, MaxBits, MaxBits)
           low3 == Then(low2, MaxBits, 2*MaxBits)
           q == CASE n <= MaxBits -> SerializeBits(r, n)
                  [] n > MaxBits /\ n <= 2*MaxBits -> Then(low, n - MaxBits, MaxBits)
                  [] n > 2*MaxBits /\ n <= 3*MaxBits -> Then(low2, n - 2*MaxBits, 2*MaxBits)
                  [] OTHER -> Then(low3, n - 3*MaxBits, 3*MaxBits)
           s == [q EXCEPT !.trapped = q.trapped \/ n \notin 1 .. 4*MaxBits]
<1>1. SerializeOffset(r, n) = s
  BY DEF SerializeOffset
<1>2. Keeps(r, low) /\ Reads(r, low, MaxBits)
  BY SerializeBitsKeeps, SerializeBitsReads DEF Low
<1> HIDE DEF low
<1>3. Keeps(r, low2) /\ Reads(r, low2, MaxBits + MaxBits) /\ MaxBits + MaxBits = 2*MaxBits
  BY <1>2, ThenKeeps, ThenReads
<1> HIDE DEF low2
<1>4. Keeps(r, low3) /\ Reads(r, low3, 2*MaxBits + MaxBits) /\ 2*MaxBits + MaxBits = 3*MaxBits
  <2>1. 2*MaxBits \in Nat /\ 2*MaxBits + MaxBits = 3*MaxBits
    OBVIOUS
  <2> QED BY <1>3, <2>1, ThenKeeps, ThenReads
<1> HIDE DEF low3
<1>5. Keeps(r, q) /\ Reads(r, q, n)
  <2>1. CASE n <= MaxBits
    <3>1. q = SerializeBits(r, n)
      BY <2>1
    <3> HIDE DEF q
    <3> QED BY <3>1, SerializeBitsKeeps, SerializeBitsReads
  <2>2. CASE n > MaxBits /\ n <= 2*MaxBits
    <3>1. q = Then(low, n - MaxBits, MaxBits) /\ MaxBits + (n - MaxBits) = n
      BY <2>2
    <3> HIDE DEF q
    <3>2. Keeps(r, q) /\ Reads(r, q, MaxBits + (n - MaxBits))
      BY <1>2, <3>1, ThenKeeps, ThenReads
    <3> QED BY <3>1, <3>2
  <2>3. CASE n > 2*MaxBits /\ n <= 3*MaxBits
    <3>1. q = Then(low2, n - 2*MaxBits, 2*MaxBits) /\ 2*MaxBits + (n - 2*MaxBits) = n /\ 2*MaxBits \in Nat
      BY <2>3
    <3> HIDE DEF q
    <3>2. Keeps(r, q) /\ Reads(r, q, 2*MaxBits + (n - 2*MaxBits))
      BY <1>3, <3>1, ThenKeeps, ThenReads
    <3> QED BY <3>1, <3>2
  <2>4. CASE n > 3*MaxBits
    <3>1. q = Then(low3, n - 3*MaxBits, 3*MaxBits) /\ 3*MaxBits + (n - 3*MaxBits) = n /\ 3*MaxBits \in Nat
      BY <2>4
    <3> HIDE DEF q
    <3>2. Keeps(r, q) /\ Reads(r, q, 3*MaxBits + (n - 3*MaxBits))
      BY <1>4, <3>1, ThenKeeps, ThenReads
    <3> QED BY <3>1, <3>2
  <2> QED BY <2>1, <2>2, <2>3, <2>4
<1> HIDE DEF q
<1>6. s.at = q.at /\ s.ret = q.ret /\ s.value = q.value
  BY <1>5 DEF Keeps, Fields
<1> QED BY <1>1, <1>5, <1>6 DEF Reads

\* Raw fields.
LEMMA SerializeBits64Reads ==
  ASSUME NEW r, Ready(r), NEW n
  PROVE  LET q == SerializeBits64(r, n) IN Reads(r, q, n) /\ (q.ret = Ok => n \in 1 .. 2*MaxBits)
<1>1. CASE n \notin 1 .. 2*MaxBits
  <2>1. SerializeBits64(r, n) = Latch(r, "value_out_of_range") /\ "value_out_of_range" \in Reasons
    BY <1>1 DEF SerializeBits64, Reasons
  <2>2. SerializeBits64(r, n).ret # Ok
    BY <2>1, LatchKeeps
  <2> QED BY <2>2 DEF Reads
<1>2. CASE n \in 1 .. 2*MaxBits
  <2>1. n \in 1 .. 4*MaxBits
    BY <1>2
  <2> QED BY <1>2, <2>1, SerializeOffsetReads DEF SerializeBits64
<1> QED BY <1>1, <1>2

\* Two halves.
LEMMA SerializeU128Reads ==
  ASSUME NEW r, Ready(r)
  PROVE  Reads(r, SerializeU128(r), 4*MaxBits)
<1> DEFINE n == 2*MaxBits
           lo == SerializeBits64(r, n)
           hi == SerializeBits64(lo, n)
           q == [hi EXCEPT !.value = lo.value + hi.value * 2^n]
<1>1. SerializeU128(r) = IF lo.ret # Ok THEN lo ELSE IF hi.ret # Ok THEN hi ELSE q
  BY DEF SerializeU128
<1>2. Keeps(r, lo) /\ Reads(r, lo, n) /\ n \in Nat /\ n + n = 4*MaxBits
  BY SerializeBits64Keeps, SerializeBits64Reads
<1> HIDE DEF lo, n
<1>3. CASE lo.ret = Ok /\ hi.ret = Ok
  <2>1. Keeps(lo, hi) /\ Reads(lo, hi, n)
    BY <1>2, <1>3, Composes, SerializeBits64Keeps, SerializeBits64Reads
  <2>2. q.at = hi.at /\ q.value = lo.value + hi.value * 2^n
    BY <2>1 DEF Keeps, Fields
  <2> HIDE DEF hi, q
  <2>3. /\ hi.at = lo.at + n /\ hi.value \in Nat /\ hi.value < 2^n
        /\ lo.at = r.at + n /\ lo.value \in Nat /\ lo.value < 2^n /\ r.at \in Nat
    BY <1>2, <1>3, <2>1 DEF Reads, Ready
  <2>4. q.value \in Nat /\ q.value < 2^(n + n)
    <3> DEFINE a == lo.value
               b == hi.value
    <3>1. a \in Nat /\ a < 2^n /\ b \in Nat /\ b < 2^n /\ q.value = a + b * 2^n
      BY <2>2, <2>3
    <3> HIDE DEF a, b
    <3>2. a + b * 2^n \in Nat /\ a + b * 2^n < 2^(n + n)
      BY <1>2, <3>1, PowerJoin
    <3> QED BY <3>1, <3>2
  <2>5. q.at = r.at + (n + n)
    BY <1>2, <2>2, <2>3
  <2> QED BY <1>1, <1>2, <1>3, <2>4, <2>5 DEF Reads
<1>4. CASE ~(lo.ret = Ok /\ hi.ret = Ok)
  <2> HIDE DEF hi, q
  <2> QED BY <1>1, <1>4 DEF Reads
<1> QED BY <1>3, <1>4

\* A ranged integer is in its range, and costs what its range takes: the headroom is refused.
LEMMA SerializeIntReads ==
  ASSUME NEW r, Ready(r), NEW min \in Int, NEW max \in Int,
         min < max => BitsRequired(max - min) \in 1 .. 4*MaxBits
  PROVE  LET q == SerializeInt(r, min, max) IN
         q.ret = Ok => /\ q.value \in min..max
                       /\ q.at = r.at + (IF min = max THEN 0 ELSE BitsRequired(max - min))
<1> DEFINE n == BitsRequired(max - min)
           q == SerializeOffset(r, n)
           s == SerializeInt(r, min, max)
           t == [q EXCEPT !.value = min + q.value]
<1> SUFFICES ASSUME s.ret = Ok PROVE s.value \in min..max /\ s.at = r.at + (IF min = max THEN 0 ELSE n)
  OBVIOUS
<1>1. CASE min > max
  <2>1. s = Latch(r, "value_out_of_range") /\ "value_out_of_range" \in Reasons
    BY <1>1 DEF SerializeInt, Reasons
  <2>2. s.ret # Ok
    BY <2>1, LatchKeeps
  <2> QED BY <2>2
<1>2. CASE min = max
  <2>1. s = [Gate(r) EXCEPT !.value = min]
    BY <1>2 DEF SerializeInt
  <2>2. s.value = min /\ s.at = r.at
    BY <2>1 DEF Gate, Ready, Fields
  <2>3. r.at \in Nat
    BY DEF Ready
  <2> QED BY <1>2, <2>2, <2>3
<1>3. CASE min < max
  <2>1. n \in 1 .. 4*MaxBits
    BY <1>3
  <2>2. s = IF q.ret # Ok THEN q
            ELSE IF q.value > max - min THEN Latch(q, "value_out_of_range") ELSE t
    BY <1>3 DEF SerializeInt, Offset
  <2> HIDE DEF n
  <2>3. Keeps(r, q) /\ Reads(r, q, n)
    BY <2>1, SerializeOffsetKeeps, SerializeOffsetReads
  <2>4. t.value = min + q.value /\ t.at = q.at
    BY <2>3 DEF Keeps, Fields
  <2>5. "value_out_of_range" \in Reasons
    BY DEF Reasons
  <2>6. Latch(q, "value_out_of_range").ret # Ok
    BY <2>3, <2>5, LatchRefuses
  <2> HIDE DEF q, t, s
  <2>7. q.ret = Ok /\ ~(q.value > max - min) /\ s = t
    BY <2>2, <2>6
  <2>8. q.value \in Nat /\ q.at = r.at + n
    BY <2>3, <2>7 DEF Reads
  <2> QED BY <1>3, <2>4, <2>7, <2>8
<1> QED BY <1>1, <1>2, <1>3

\* Floats are finite.
LEMMA SerializeFloatReads ==
  ASSUME NEW r, Ready(r), NEW n, NEW fraction
  PROVE  LET q == SerializeFloat(r, n, fraction) IN Reads(r, q, n) /\ (q.ret = Ok => Finite(q.value, n, fraction))
<1> DEFINE q == SerializeBits64(r, n)
           bad == ~Finite(q.value, n, fraction)
<1>1. Keeps(r, q) /\ Reads(r, q, n) /\ "non_finite_float" \in Reasons
  BY SerializeBits64Keeps, SerializeBits64Reads DEF Reasons
<1>2. SerializeFloat(r, n, fraction) = IF q.ret = Ok /\ bad THEN Latch(q, "non_finite_float") ELSE q
  BY DEF SerializeFloat
<1>3. Latch(q, "non_finite_float").ret # Ok
  BY <1>1, LatchRefuses
<1> HIDE DEF q
<1> QED BY <1>1, <1>2, <1>3 DEF Reads

\* The codes of a compressed float decode to finite values.
LEMMA SerializeCompressedFloatReads ==
  ASSUME NEW r, Ready(r), NEW f, f.top \in Nat
  PROVE  LET q == SerializeCompressedFloat(r, f) IN q.ret = Ok => q.value \in 0 .. f.top
<1> DEFINE q == SerializeBits(r, BitsRequired(f.max))
           s == SerializeCompressedFloat(r, f)
<1>1. Keeps(r, q) /\ Reads(r, q, BitsRequired(f.max))
  BY SerializeBitsKeeps, SerializeBitsReads
<1>2. s = IF ~f.declared THEN Latch(r, "value_out_of_range")
          ELSE IF q.ret # Ok THEN q
          ELSE IF q.value > f.max THEN Latch(q, "value_out_of_range")
          ELSE IF q.value > f.top THEN Latch(q, "non_finite_float") ELSE q
  BY DEF SerializeCompressedFloat
<1>3. "value_out_of_range" \in Reasons /\ "non_finite_float" \in Reasons
  BY DEF Reasons
<1> HIDE DEF q, s
<1>4. Latch(r, "value_out_of_range").ret # Ok
  BY <1>3, LatchKeeps
<1>5. Latch(q, "value_out_of_range").ret # Ok /\ Latch(q, "non_finite_float").ret # Ok
  BY <1>1, <1>3, LatchRefuses
<1>6. s.ret = Ok => s = q /\ q.ret = Ok /\ ~(q.value > f.top)
  BY <1>2, <1>4, <1>5
<1> QED BY <1>1, <1>6 DEF Reads, s

\* A value that its storage holds is stored as itself: the wrapping of fixed point is exact.
LEMMA WrapIsExact ==
  ASSUME NEW f \in Formats, FixedDeclared(f),
         NEW v \in f.min * 2^f.fraction .. f.max * 2^f.fraction
  PROVE  Wrap(v, f.storage, f.signed) = v
<1> DEFINE I == f.integer
           F == f.fraction
           S == f.storage
           p == 2^F
           min == f.min
           max == f.max
<1>1. I \in Nat /\ F \in Nat /\ I >= 1 /\ S = I + F /\ min \in Int /\ max \in Int /\ p \in Nat /\ p > 0
  <2>1. f.integer \in Nat /\ f.fraction \in Nat /\ f.min \in Int /\ f.max \in Int
    <3> DEFINE h == 2^(2*MaxBits-1)
    <3>1. h \in Nat
      BY PowerAbove
    <3>2. /\ f.integer \in Nat /\ f.fraction \in Nat
          /\ f.min \in -h .. h - 1 /\ f.max \in -h .. h - 1
      BY DeclarationAssumption
    <3> HIDE DEF h
    <3> QED BY <3>1, <3>2
  <2>2. f.integer >= 1 /\ f.storage = f.integer + f.fraction
    BY DEF FixedDeclared
  <2> QED BY <2>1, <2>2, PowerAbove
<1>2. v \in min * p .. max * p
  OBVIOUS
<1>3. CASE f.signed
  <2> DEFINE d == 2^(I-1)
             h == 2^(S-1)
             w == 2^S
  <2>1. I - 1 \in Nat /\ (I - 1) + F = S - 1 /\ S - 1 \in Nat /\ (S - 1) + 1 = S
    BY <1>1
  <2>2. d \in Nat /\ d > 0 /\ h = d * p /\ w = 2 * h /\ h \in Nat /\ h > 0
    <3>1. 2^(I-1) \in Nat /\ 2^(I-1) > 0 /\ 2^(S-1) \in Nat /\ 2^(S-1) > 0
      BY <2>1, PowerAbove
    <3>2. 2^((I-1)+F) = 2^(I-1) * 2^F
      BY <1>1, <2>1, PowerSum
    <3>3. 2^((S-1)+1) = 2 * 2^(S-1)
      BY <2>1, PowerStep
    <3> QED BY <2>1, <3>1, <3>2, <3>3
  <2>3. min >= -d /\ max <= d - 1
    BY <1>3 DEF FixedDeclared
  <2>4. Wrap(v, S, f.signed) = LET u == v % w IN IF u >= h THEN u - w ELSE u
    BY <1>3 DEF Wrap
  <2> HIDE DEF I, F, S, p, min, max, d, h, w
  <2>5. min * p >= -h /\ max * p <= h - p
    <3>1. (min + d) * p >= 0 /\ (d - 1 - max) * p >= 0
      BY <1>1, <2>2, <2>3
    <3>2. (min + d) * p = min * p + d * p /\ (d - 1 - max) * p = d * p - p - max * p
      BY <1>1, <2>2
    <3>3. min * p \in Int /\ max * p \in Int /\ d * p \in Int
      BY <1>1, <2>2
    <3> QED BY <1>1, <2>2, <3>1, <3>2, <3>3
  <2>6. v \in -h .. h - 1
    <3>1. min * p \in Int /\ max * p \in Int
      BY <1>1
    <3> QED BY <1>1, <1>2, <2>2, <2>5, <3>1
  <2>7. CASE v >= 0
    <3>1. v % w = v
      BY <2>2, <2>6, <2>7
    <3> QED BY <2>2, <2>4, <2>6, <3>1 DEF S
  <2>8. CASE v < 0
    <3>1. v \in -w .. -1 /\ w \in Nat \ {0}
      BY <2>2, <2>6, <2>8
    <3>2. v % w = v + w
      BY <3>1, ModNegative
    <3>3. v + w >= h
      BY <2>2, <2>6
    <3> QED BY <2>2, <2>4, <2>6, <3>2, <3>3 DEF S
  <2> QED BY <2>6, <2>7, <2>8
<1>4. CASE ~f.signed
  <2> DEFINE d == 2^I
             w == 2^S
  <2>1. d \in Nat /\ w = d * p /\ w \in Nat /\ w > 0
    <3>1. 2^I \in Nat
      BY <1>1, PowerAbove
    <3>2. S \in Nat
      BY <1>1
    <3>3. 2^S \in Nat /\ 2^S > 0
      BY <3>2, PowerAbove
    <3>4. 2^(I+F) = 2^I * 2^F
      BY <1>1, PowerSum
    <3> QED BY <1>1, <3>1, <3>3, <3>4
  <2>2. min >= 0 /\ max < d
    <3>1. min >= 0 /\ (I >= 2*MaxBits \/ max < d)
      BY <1>4 DEF FixedDeclared
    <3>2. CASE I >= 2*MaxBits
      <4> DEFINE e == 2^(2*MaxBits-1)
      <4>1. 2*MaxBits - 1 \in Nat /\ 2*MaxBits - 1 <= I
        BY <1>1, <3>2
      <4>2. e <= d /\ e \in Nat
        BY <1>1, <4>1, PowerOrdered, PowerAbove
      <4>3. max \in -e .. e - 1
        BY DeclarationAssumption
      <4> HIDE DEF e, d, max
      <4>4. max < d
        BY <2>1, <4>2, <4>3
      <4> QED BY <3>1, <4>4
    <3> QED BY <3>1, <3>2
  <2>3. Wrap(v, S, f.signed) = v % w
    BY <1>4 DEF Wrap
  <2> HIDE DEF I, F, S, p, min, max, d, w
  <2>4. min * p >= 0 /\ max * p <= d * p - p
    <3>1. min * p >= 0 /\ (d - 1 - max) * p >= 0
      BY <1>1, <2>1, <2>2
    <3>2. (d - 1 - max) * p = d * p - p - max * p
      BY <1>1, <2>1
    <3>3. max * p \in Int /\ d * p \in Int
      BY <1>1, <2>1
    <3> QED BY <1>1, <3>1, <3>2, <3>3
  <2>5. v \in 0 .. w - 1
    <3>1. min * p \in Int /\ max * p \in Int
      BY <1>1
    <3> QED BY <1>1, <1>2, <2>1, <2>4, <3>1
  <2>6. v % w = v
    BY <2>1, <2>5
  <2> QED BY <2>3, <2>6 DEF S
<1> QED BY <1>3, <1>4

\* A fixed point value is in range, in its own storage.
LEMMA SerializeFixedReads ==
  ASSUME NEW r, Ready(r), NEW f \in Formats
  PROVE  LET q == SerializeFixed(r, f) IN
         q.ret = Ok => q.value \in f.min * 2^f.fraction .. f.max * 2^f.fraction
<1> DEFINE min == f.min * 2^f.fraction
           max == f.max * 2^f.fraction
           q == SerializeInt(r, min, max)
           s == [q EXCEPT !.value = Wrap(q.value, f.storage, f.signed)]
           z == SerializeFixed(r, f)
<1> SUFFICES ASSUME z.ret = Ok PROVE z.value \in min..max
  OBVIOUS
<1>1. z = IF ~FixedDeclared(f) THEN Latch(r, "value_out_of_range") ELSE IF q.ret # Ok THEN q ELSE s
  BY DEF SerializeFixed
<1>2. min \in Int /\ max \in Int
  <2> DEFINE p == 2^f.fraction
             h == 2^(2*MaxBits-1)
  <2>1. p \in Nat /\ h \in Nat
    BY DeclarationAssumption, PowerAbove
  <2>2. f.min \in -h .. h - 1 /\ f.max \in -h .. h - 1
    BY DeclarationAssumption
  <2> HIDE DEF p, h
  <2>3. f.min * p \in Int /\ f.max * p \in Int
    BY <2>1, <2>2
  <2> QED BY <2>3 DEF p
<1>3. FixedDeclared(f) /\ min # max => BitsRequired(max - min) \in 1 .. 4*MaxBits
  BY DeclarationAssumption
<1>4. \A v \in min..max : FixedDeclared(f) => Wrap(v, f.storage, f.signed) = v
  BY WrapIsExact
<1> HIDE DEF min, max
<1>5. FixedDeclared(f)
  <2>1. "value_out_of_range" \in Reasons
    BY DEF Reasons
  <2>2. Latch(r, "value_out_of_range").ret # Ok
    BY <2>1, LatchKeeps
  <2> HIDE DEF z
  <2> QED BY <1>1, <2>2
<1>6. min < max => BitsRequired(max - min) \in 1 .. 4*MaxBits
  BY <1>2, <1>3, <1>5
<1>7. Keeps(r, q) /\ (q.ret = Ok => q.value \in min..max)
  <2>1. ~(min > max) /\ min # max => BitsRequired(max - min) \in 1 .. 4*MaxBits
    BY <1>2, <1>6
  <2> QED BY <1>2, <1>6, <2>1, SerializeIntKeeps, SerializeIntReads
<1>8. s.value = Wrap(q.value, f.storage, f.signed) /\ s.ret = q.ret
  BY <1>7 DEF Keeps, Fields
<1> HIDE DEF q, s, z
<1>9. q.ret = Ok /\ z = s
  BY <1>1, <1>5, <1>8
<1> QED BY <1>4, <1>5, <1>7, <1>8, <1>9 DEF z

\* The domain rule, when it accepts.
LEMMA AcceptReads ==
  ASSUME NEW r, NEW q, Ready(r), Keeps(r, q), NEW previous \in Int, NEW v, Accept(q, previous, v).ret = Ok
  PROVE  /\ Accept(q, previous, v).value = v /\ Accept(q, previous, v).at = q.at
         /\ v \in previous + 1 .. MaxInt
<1>1. "value_out_of_range" \in Reasons
  BY DEF Reasons
<1>2. Latch(q, "value_out_of_range").ret # Ok
  BY <1>1, LatchRefuses
<1>3. InDomain(previous, v)
  BY <1>2 DEF Accept
<1>4. Accept(q, previous, v) = [q EXCEPT !.value = v]
  BY <1>3 DEF Accept
<1>5. MaxInt \in Int
  <2> DEFINE h == 2^(MaxBits-1)
  <2>1. MaxBits - 1 \in Nat
    OBVIOUS
  <2>2. h \in Nat
    BY <2>1, PowerAbove
  <2> HIDE DEF h
  <2>3. h - 1 \in Int
    BY <2>2
  <2> QED BY <2>3 DEF MaxInt, h
<1>6. v \in previous + 1 .. MaxInt
  BY <1>3, <1>5 DEF InDomain
<1>7. Accept(q, previous, v).value = v /\ Accept(q, previous, v).at = q.at
  BY <1>4 DEF Keeps, Fields
<1> QED BY <1>6, <1>7

\* The tiers rise, so a difference in the range of one is in the range of no earlier one.
LEMMA TierIsTheFirst ==
  ASSUME NEW t \in 1 .. Len(Tiers), NEW gap \in TierFirst(t) .. Tiers[t], NEW previous \in Int
  PROVE  /\ gap \in Nat /\ gap > 1
         /\ RelativeCost(previous, previous + gap) = t + 1 + BitsRequired(Tiers[t] - TierFirst(t))
<1>1. Tiers \in Seq(Nat \ {0, 1})
  BY FormatAssumption
<1>2. /\ Len(Tiers) \in Nat /\ DOMAIN Tiers = 1 .. Len(Tiers)
      /\ \A u \in 1 .. Len(Tiers) : Tiers[u] \in Nat /\ Tiers[u] > 1
  BY <1>1
<1>3. \A u, v \in 1 .. Len(Tiers) : u < v => Tiers[u] < Tiers[v]
  BY FormatAssumption
<1>4. gap \in Nat /\ gap > 1 /\ gap <= Tiers[t] /\ TierFirst(t) <= gap
  <2>1. TierFirst(t) \in Nat /\ TierFirst(t) > 1
    <3>1. CASE t = 1
      BY <3>1 DEF TierFirst
    <3>2. CASE t # 1
      <4>1. t - 1 \in 1 .. Len(Tiers)
        BY <1>2, <3>2
      <4>2. Tiers[t-1] \in Nat /\ Tiers[t-1] > 1
        BY <1>2, <4>1
      <4> QED BY <3>2, <4>2 DEF TierFirst
    <3> QED BY <3>1, <3>2
  <2> QED BY <1>2, <2>1
<1>5. ASSUME NEW u \in 1 .. Len(Tiers), gap <= Tiers[u] PROVE t <= u
  <2>1. SUFFICES ASSUME u < t PROVE FALSE
    BY <1>2
  <2>2. t # 1 /\ t - 1 \in 1 .. Len(Tiers) /\ (u = t - 1 \/ u < t - 1)
    BY <1>2, <2>1
  <2>3. TierFirst(t) = Tiers[t-1] + 1 /\ Tiers[t-1] \in Nat /\ Tiers[u] \in Nat
    BY <1>2, <2>2 DEF TierFirst
  <2>4. Tiers[u] <= Tiers[t-1]
    BY <1>3, <2>2, <2>3
  <2> QED BY <1>4, <1>5, <2>3, <2>4
<1> DEFINE tiers == {u \in DOMAIN Tiers : gap <= Tiers[u]}
           first == CHOOSE x \in tiers : \A u \in tiers : x <= u
<1>6. t \in tiers /\ \A u \in tiers : t <= u
  BY <1>2, <1>4, <1>5
<1>7. first = t
  <2>1. first \in tiers /\ \A u \in tiers : first <= u
    BY <1>6
  <2>2. tiers \subseteq Nat
    BY <1>2
  <2> HIDE DEF tiers, first
  <2>3. first <= t /\ t <= first /\ first \in Nat /\ t \in Nat
    BY <1>6, <2>1, <2>2
  <2> QED BY <2>3
<1>8. (previous + gap) - previous = gap
  BY <1>4
<1>9. RelativeCost(previous, previous + gap) =
        IF gap = 1 THEN 1
        ELSE IF tiers = {} THEN Len(Tiers) + 1 + MaxBits
        ELSE first + 1 + BitsRequired(Tiers[first] - TierFirst(first))
  BY <1>8 DEF RelativeCost
<1> HIDE DEF tiers, first
<1> QED BY <1>4, <1>6, <1>7, <1>9

\* No tier takes a difference beyond the last one.
LEMMA BeyondTheTiers ==
  ASSUME NEW gap \in Int, ~(gap <= Tiers[Len(Tiers)]), NEW previous \in Int
  PROVE  RelativeCost(previous, previous + gap) = Len(Tiers) + 1 + MaxBits
<1>1. Tiers \in Seq(Nat \ {0, 1}) /\ Tiers # <<>>
  BY FormatAssumption
<1>2. /\ Len(Tiers) \in Nat \ {0} /\ DOMAIN Tiers = 1 .. Len(Tiers)
      /\ \A u \in 1 .. Len(Tiers) : Tiers[u] \in Nat /\ Tiers[u] > 1
  BY <1>1
<1> DEFINE tiers == {u \in DOMAIN Tiers : gap <= Tiers[u]}
<1>3. tiers = {}
  <2> SUFFICES ASSUME NEW u \in 1 .. Len(Tiers), gap <= Tiers[u] PROVE FALSE
    BY <1>2
  <2>1. u = Len(Tiers) \/ u < Len(Tiers)
    <3> DEFINE n == Len(Tiers)
    <3>1. n \in Nat /\ u \in 1 .. n
      BY <1>2
    <3> HIDE DEF n
    <3>2. u = n \/ u < n
      BY <3>1
    <3> QED BY <3>2 DEF n
  <2>2. Len(Tiers) \in 1 .. Len(Tiers) /\ Tiers[u] \in Nat /\ Tiers[Len(Tiers)] \in Nat
    BY <1>2
  <2>3. u < Len(Tiers) => Tiers[u] < Tiers[Len(Tiers)]
    BY <2>2, FormatAssumption
  <2> QED BY <2>1, <2>2, <2>3
<1>4. gap # 1
  <2>1. Tiers[Len(Tiers)] \in Nat /\ Tiers[Len(Tiers)] > 1
    BY <1>2
  <2> QED BY <2>1
<1>5. (previous + gap) - previous = gap
  OBVIOUS
<1> QED BY <1>3, <1>4, <1>5 DEF RelativeCost

\* A bounded tier takes just the differences the writer sends in it.
LEMMA BoundedTierReads ==
  ASSUME NEW r, Ready(r), NEW t \in 0 .. Len(Tiers), NEW previous \in Int
  PROVE  LET q == BoundedTier(r, t, previous) IN
         q.ret = Ok => /\ q.value \in previous + 1 .. MaxInt
                       /\ RelativeCost(previous, q.value) \in Nat
                       /\ q.at + t = r.at + RelativeCost(previous, q.value)
<1> DEFINE yes == SerializeBits(r, 1)
           q == SerializeInt(yes, TierFirst(t), Tiers[t])
           z == BoundedTier(r, t, previous)
<1> SUFFICES ASSUME z.ret = Ok
             PROVE  /\ z.value \in previous + 1 .. MaxInt
                    /\ RelativeCost(previous, z.value) \in Nat
                    /\ z.at + t = r.at + RelativeCost(previous, z.value)
  OBVIOUS
<1>1. z = IF yes.ret # Ok THEN yes
          ELSE IF t = 0 THEN Accept(yes, previous, previous + 1)
          ELSE IF q.ret # Ok THEN q ELSE Accept(q, previous, previous + q.value)
  BY DEF BoundedTier
<1> HIDE DEF z
<1>2. Keeps(r, yes) /\ Reads(r, yes, 1)
  BY SerializeBitsKeeps, SerializeBitsReads
<1> HIDE DEF yes
<1>3. yes.ret = Ok /\ yes.at = r.at + 1 /\ r.at \in Nat
  BY <1>1, <1>2 DEF Reads, Ready
<1>4. CASE t = 0
  <2>1. z = Accept(yes, previous, previous + 1)
    BY <1>1, <1>3, <1>4
  <2>2. z.value = previous + 1 /\ z.at = yes.at /\ z.value \in previous + 1 .. MaxInt
    BY <1>2, <2>1, AcceptReads
  <2>3. RelativeCost(previous, z.value) = 1
    <3>1. z.value - previous = 1
      BY <2>2
    <3> QED BY <3>1 DEF RelativeCost
  <2> QED BY <1>3, <1>4, <2>2, <2>3
<1>5. CASE t # 0
  <2>1. Len(Tiers) \in Nat /\ t \in 1 .. Len(Tiers)
    BY <1>5, FormatAssumption
  <2>2. Tiers[t] \in Int /\ TierFirst(t) \in Int
    BY <2>1, FormatAssumption DEF TierFirst
  <2>3. TierFirst(t) < Tiers[t] => BitsRequired(Tiers[t] - TierFirst(t)) \in 1 .. 4*MaxBits
    BY <2>1, FormatWidths
  <2>4. Ready(yes) /\ \A s : Keeps(yes, s) => Keeps(r, s)
    BY <1>2, <1>3, Composes
  <2>5. Keeps(r, q)
    <3>1. ~(TierFirst(t) > Tiers[t]) /\ TierFirst(t) # Tiers[t]
            => BitsRequired(Tiers[t] - TierFirst(t)) \in 1 .. 4*MaxBits
      BY <2>2, <2>3
    <3> QED BY <2>4, <3>1, SerializeIntKeeps
  <2>6. q.ret = Ok => /\ q.value \in TierFirst(t) .. Tiers[t]
                      /\ q.at = yes.at + (IF TierFirst(t) = Tiers[t] THEN 0
                                          ELSE BitsRequired(Tiers[t] - TierFirst(t)))
    BY <2>2, <2>3, <2>4, SerializeIntReads
  <2> HIDE DEF q
  <2>7. q.ret = Ok /\ z = Accept(q, previous, previous + q.value)
    BY <1>1, <1>3, <1>5
  <2>8. z.value = previous + q.value /\ z.at = q.at /\ z.value \in previous + 1 .. MaxInt
    BY <2>5, <2>7, AcceptReads
  <2>9. RelativeCost(previous, z.value) = t + 1 + BitsRequired(Tiers[t] - TierFirst(t))
    BY <2>1, <2>6, <2>7, <2>8, TierIsTheFirst
  <2> DEFINE n == BitsRequired(Tiers[t] - TierFirst(t))
  <2>10. n \in Nat /\ q.at = yes.at + n
    <3>1. CASE TierFirst(t) = Tiers[t]
      <4>1. Tiers[t] - TierFirst(t) = 0
        BY <2>2, <3>1
      <4>2. 0 \in Nat /\ 0 < 2^0
        BY PowerZero
      <4>3. n \in Nat /\ n <= 0
        BY <4>1, <4>2, BitsRequiredHolds
      <4>4. q.at = yes.at + 0
        BY <2>6, <2>7, <3>1
      <4> HIDE DEF n
      <4> QED BY <4>3, <4>4
    <3>2. CASE TierFirst(t) # Tiers[t]
      <4>1. TierFirst(t) < Tiers[t]
        BY <2>2, <2>6, <2>7, <3>2
      <4> QED BY <2>3, <2>6, <2>7, <3>2, <4>1
    <3> QED BY <3>1, <3>2
  <2> HIDE DEF n
  <2>11. z.at + t = r.at + (t + 1 + n) /\ t + 1 + n \in Nat
    BY <1>3, <2>1, <2>8, <2>10
  <2> QED BY <2>8, <2>9, <2>11 DEF n
<1> QED BY <1>4, <1>5

\* The absolute tier takes just the differences that no other tier takes.
LEMMA AbsoluteTierReads ==
  ASSUME NEW r, Ready(r), NEW previous \in Int
  PROVE  LET q == AbsoluteTier(r, previous) IN
         q.ret = Ok => /\ q.value \in previous + 1 .. MaxInt
                       /\ RelativeCost(previous, q.value) \in Nat
                       /\ q.at + (Len(Tiers) + 1) = r.at + RelativeCost(previous, q.value)
<1> DEFINE q == Low(r)
           last == Tiers[Len(Tiers)]
           z == AbsoluteTier(r, previous)
<1> SUFFICES ASSUME z.ret = Ok
             PROVE  /\ z.value \in previous + 1 .. MaxInt
                    /\ RelativeCost(previous, z.value) \in Nat
                    /\ z.at + (Len(Tiers) + 1) = r.at + RelativeCost(previous, z.value)
  OBVIOUS
<1>1. z = IF q.ret # Ok THEN q
          ELSE IF ~InDomain(previous, q.value) THEN Latch(q, "value_out_of_range")
          ELSE IF q.value - previous <= last THEN Latch(q, "non_canonical") ELSE q
  BY DEF AbsoluteTier
<1>2. Keeps(r, q) /\ Reads(r, q, MaxBits)
  BY SerializeBitsKeeps, SerializeBitsReads DEF Low
<1> HIDE DEF z, q
<1>3. Latch(q, "value_out_of_range").ret # Ok /\ Latch(q, "non_canonical").ret # Ok
  <2>1. "value_out_of_range" \in Reasons /\ "non_canonical" \in Reasons
    BY DEF Reasons
  <2> QED BY <1>2, <2>1, LatchRefuses
<1>4. z = q /\ q.ret = Ok /\ InDomain(previous, q.value) /\ ~(q.value - previous <= last)
  BY <1>1, <1>3
<1>5. q.at = r.at + MaxBits /\ r.at \in Nat /\ q.value \in Nat /\ Len(Tiers) \in Nat
  BY <1>2, <1>4, FormatAssumption DEF Reads, Ready
<1>6. q.value \in previous + 1 .. MaxInt
  <2> DEFINE h == 2^(MaxBits-1)
  <2>1. MaxBits - 1 \in Nat
    OBVIOUS
  <2>2. h \in Nat /\ q.value \in 0 .. h - 1 /\ q.value > previous
    BY <1>4, <2>1, PowerAbove DEF InDomain, MaxInt
  <2> HIDE DEF h
  <2>3. q.value \in previous + 1 .. h - 1
    BY <2>2
  <2> QED BY <2>3 DEF h, MaxInt
<1> DEFINE gap == q.value - previous
<1>7. gap \in Int /\ previous + gap = q.value
  BY <1>5
<1> HIDE DEF gap
<1>8. ~(gap <= Tiers[Len(Tiers)])
  BY <1>4 DEF gap
<1>9. RelativeCost(previous, q.value) = Len(Tiers) + 1 + MaxBits
  BY <1>7, <1>8, BeyondTheTiers
<1> DEFINE n == Len(Tiers)
<1>10. n \in Nat /\ RelativeCost(previous, z.value) = n + 1 + MaxBits
  BY <1>4, <1>5, <1>9
<1>11. z.at = r.at + MaxBits /\ z.value \in previous + 1 .. MaxInt
  BY <1>4, <1>5, <1>6
<1> HIDE DEF n
<1>12. z.at + (n + 1) = r.at + (n + 1 + MaxBits) /\ n + 1 + MaxBits \in Nat
  BY <1>5, <1>10, <1>11
<1> QED BY <1>10, <1>11, <1>12 DEF n

\* The whole ladder: one value, one encoding.
LEMMA SerializeIntRelativeReads ==
  ASSUME NEW r, Ready(r), NEW previous \in Int
  PROVE  LET q == SerializeIntRelative(r, previous) IN
         q.ret = Ok => /\ q.value \in previous + 1 .. MaxInt
                       /\ RelativeCost(previous, q.value) \in Nat
                       /\ q.at = r.at + RelativeCost(previous, q.value)
<1> DEFINE t == Rung(r)
           s == [r EXCEPT !.at = r.at + t]
           q == SerializeIntRelative(r, previous)
<1> SUFFICES ASSUME q.ret = Ok
             PROVE  /\ q.value \in previous + 1 .. MaxInt
                    /\ RelativeCost(previous, q.value) \in Nat
                    /\ q.at = r.at + RelativeCost(previous, q.value)
  OBVIOUS
<1>1. Len(Tiers) \in Nat /\ t \in 0 .. Len(Tiers) + 1 /\ r.at + t <= num_bits
  BY RungIsReached, FormatAssumption
<1>2. q = IF previous < 0 THEN Latch(r, "value_out_of_range")
          ELSE IF t > Len(Tiers) THEN AbsoluteTier(s, previous) ELSE BoundedTier(s, t, previous)
  BY DEF SerializeIntRelative
<1>3. Latch(r, "value_out_of_range").ret # Ok
  BY LatchKeeps DEF Reasons
<1> HIDE DEF t, q
<1>4. /\ DOMAIN s = Fields /\ s.at = r.at + t /\ s.failed = r.failed /\ s.ret = Ok
      /\ s.dirty = r.dirty /\ s.trapped = FALSE /\ s.dest = r.dest
  BY DEF Ready, Fields
<1> HIDE DEF s
<1>5. Ready(s) /\ r.at \in Nat
  BY <1>1, <1>4 DEF Ready
<1> DEFINE k == RelativeCost(previous, q.value)
<1>6. q.value \in previous + 1 .. MaxInt /\ q.at + t = s.at + k /\ k \in Nat
  <2>1. CASE t > Len(Tiers)
    <3>1. q = AbsoluteTier(s, previous) /\ t = Len(Tiers) + 1
      BY <1>1, <1>2, <1>3, <2>1
    <3>2. k \in Nat
      BY <1>5, <3>1, AbsoluteTierReads
    <3> QED BY <1>5, <3>1, <3>2, AbsoluteTierReads
  <2>2. CASE ~(t > Len(Tiers))
    <3>1. q = BoundedTier(s, t, previous) /\ t \in 0 .. Len(Tiers)
      BY <1>1, <1>2, <1>3, <2>2
    <3>2. k \in Nat
      BY <1>5, <3>1, BoundedTierReads
    <3> QED BY <1>5, <3>1, <3>2, BoundedTierReads
  <2> QED BY <2>1, <2>2
<1>7. q.at \in Int
  <2>1. CASE t > Len(Tiers)
    <3>1. q = AbsoluteTier(s, previous)
      BY <1>2, <1>3, <2>1
    <3>2. Keeps(s, q)
      BY <1>5, <3>1, AbsoluteTierKeeps
    <3> QED BY <1>5, <3>2 DEF Keeps, Ready
  <2>2. CASE ~(t > Len(Tiers))
    <3>1. q = BoundedTier(s, t, previous) /\ t \in 0 .. Len(Tiers)
      BY <1>1, <1>2, <1>3, <2>2
    <3>2. Keeps(s, q)
      BY <1>5, <3>1, BoundedTierKeeps
    <3> QED BY <1>5, <3>2 DEF Keeps, Ready
  <2> QED BY <2>1, <2>2
<1>8. t \in Nat
  BY <1>1
<1>9. k \in Nat
  BY <1>6
<1> HIDE DEF k
<1>10. q.at = r.at + k
  <2> DEFINE a == r.at
             b == q.at
  <2>1. a \in Nat /\ b \in Int /\ k \in Nat /\ t \in Nat /\ b + t = (a + t) + k
    BY <1>4, <1>5, <1>6, <1>7, <1>8
  <2> HIDE DEF a, b
  <2>2. b = a + k
    BY <2>1
  <2> QED BY <2>2 DEF a, b
<1> QED BY <1>6, <1>9, <1>10 DEF k

\* A slice has the length that was asked for.
LEMMA SliceReads ==
  ASSUME NEW r, Ready(r), NEW k \in Nat
  PROVE  LET q == ReadByteSlice(r, k) IN Len(q.value) = k /\ q.ret = Ok
<1> DEFINE v == [i \in 1..k |-> Value(r.at + (i-1) * ByteBits, ByteBits)]
           q == ReadByteSlice(r, k)
<1>1. q.value = v /\ q.ret = Ok
  BY DEF ReadByteSlice, Ready, Fields
<1>2. \A i \in 1..k : v[i] \in Nat
  <2> SUFFICES ASSUME NEW i \in 1..k PROVE Value(r.at + (i-1) * ByteBits, ByteBits) \in Nat
    OBVIOUS
  <2>1. r.at + (i-1) * ByteBits \in Nat /\ ByteBits \in Nat
    <3>1. r.at \in Nat /\ i - 1 \in Nat /\ ByteBits \in Nat
      BY DEF Ready
    <3> DEFINE a == r.at
               j == i - 1
    <3> HIDE DEF a, j
    <3>2. j * ByteBits \in Nat
      BY <3>1 DEF j
    <3> QED BY <3>1, <3>2 DEF a, j
  <2> QED BY <2>1, ValueFits
<1>3. v \in [1..k -> Nat]
  BY <1>2
<1> HIDE DEF v, q
<1>4. v \in Seq(Nat) /\ Len(v) = k
  <2>1. DOMAIN v = 1..k /\ v \in Seq(Nat)
    BY <1>3, SeqDef
  <2> QED BY <2>1, LenProperties
<1> QED BY <1>1, <1>4 DEF q

\* Byte arrays are whole.
LEMMA SerializeBytesReads ==
  ASSUME NEW r, Ready(r), NEW k \in Nat
  PROVE  LET q == SerializeBytes(r, k) IN q.dest # r.dest => Len(q.dest) = k
<1> DEFINE q == SerializeAlign(r)
           b == ReadByteSlice(q, k)
           p == Latch(q, "past_end")
           z == SerializeBytes(r, k)
<1>1. Keeps(r, q)
  BY SerializeAlignKeeps
<1>2. z = IF q.ret # Ok THEN q ELSE IF k > Remaining(q) \div ByteBits THEN p ELSE Deliver(b)
  BY DEF SerializeBytes
<1> HIDE DEF q
<1>3. p.dest = r.dest /\ q.dest = r.dest
  BY <1>1 DEF Latch, Keeps, Fields
<1>4. ASSUME q.ret = Ok PROVE Deliver(b).dest = b.value /\ Len(b.value) = k
  <2>1. Ready(q)
    BY <1>1, <1>4, Composes
  <2>2. b.ret = Ok /\ Len(b.value) = k
    BY <2>1, SliceReads
  <2>3. DOMAIN b = Fields
    BY <2>1 DEF ReadByteSlice, Ready, Fields
  <2> HIDE DEF b
  <2> QED BY <2>2, <2>3 DEF Deliver, Fields
<1> HIDE DEF b, p, z
<1> QED BY <1>2, <1>3, <1>4 DEF z

\* A string fits its buffer and is valid text.
LEMMA SerializeStringReads ==
  ASSUME NEW r, Ready(r), NEW size \in Nat
  PROVE  LET z == SerializeString(r, size) IN
         z.ret = Ok => Len(z.value) < size /\ ~HasNul(z.value) /\ WellFormed(z.value)
<1> DEFINE n == SerializeInt(r, 0, size - 1)
           q == SerializeAlign(n)
           z == SerializeString(r, size)
<1> SUFFICES ASSUME z.ret = Ok PROVE Len(z.value) < size /\ ~HasNul(z.value) /\ WellFormed(z.value)
  OBVIOUS
<1>1. {"value_out_of_range", "past_end", "embedded_nul", "invalid_utf8"} \subseteq Reasons
  BY DEF Reasons
<1>2. z = IF size \notin 1..MaxSize THEN Latch(r, "value_out_of_range")
          ELSE IF n.ret # Ok THEN n ELSE IF q.ret # Ok THEN q
          ELSE IF n.value > Remaining(q) \div ByteBits THEN Latch(q, "past_end") ELSE Text(q, n.value)
  BY DEF SerializeString
<1> HIDE DEF n, q, z
<1>3. size \in 1..MaxSize
  <2>1. Latch(r, "value_out_of_range").ret # Ok
    BY <1>1, LatchKeeps
  <2> QED BY <1>2, <2>1
<1>4. Keeps(r, n) /\ (n.ret = Ok => n.value \in 0 .. size - 1)
  <2>1. MaxSize \in Nat /\ size - 1 \in 0 .. MaxSize - 1 /\ (size - 1) - 0 = size - 1 /\ size - 1 \in Int
    BY <1>3, FormatAssumption
  <2>2. 0 # size - 1 => BitsRequired((size - 1) - 0) \in 1 .. 4*MaxBits
    <3>1. 0 # size - 1 => size - 1 \in 1 .. MaxSize - 1
      BY <1>3, <2>1
    <3>2. 0 # size - 1 => BitsRequired((size - 1) - 0) \in 1..MaxBits
      BY <2>1, <3>1, FormatWidths
    <3> QED BY <3>2
  <2>3. /\ 0 < size - 1 => BitsRequired((size - 1) - 0) \in 1 .. 4*MaxBits
        /\ ~(0 > size - 1) /\ 0 # size - 1 => BitsRequired((size - 1) - 0) \in 1 .. 4*MaxBits
    BY <2>1, <2>2
  <2> QED BY <2>1, <2>3, SerializeIntKeeps, SerializeIntReads DEF n
<1>5. n.ret = Ok
  BY <1>2, <1>3
<1>6. Ready(n) /\ Keeps(n, q)
  BY <1>4, <1>5, Composes, SerializeAlignKeeps DEF q
<1>7. q.ret = Ok /\ z = Text(q, n.value)
  <2>1. Latch(q, "past_end").ret # Ok
    BY <1>1, <1>6, LatchRefuses
  <2> QED BY <1>2, <1>3, <1>5, <2>1
<1>8. Ready(q)
  BY <1>6, <1>7, Composes
<1> DEFINE b == ReadByteSlice(q, n.value)
<1>9. Len(b.value) = n.value /\ DOMAIN b = Fields /\ b.failed = q.failed /\ n.value \in 0 .. size - 1
  BY <1>4, <1>5, <1>8, SliceReads DEF ReadByteSlice, Ready, Fields
<1>10. z = IF HasNul(b.value) THEN Latch(b, "embedded_nul")
           ELSE IF ~WellFormed(b.value) THEN Latch(b, "invalid_utf8") ELSE b
  BY <1>7 DEF Text
<1> HIDE DEF b
<1>11. Latch(b, "embedded_nul").ret # Ok /\ Latch(b, "invalid_utf8").ret # Ok
  <2>1. Ok \notin Reasons
    BY DEF Reasons, Ok
  <2> QED BY <1>1, <1>8, <1>9, <2>1 DEF Latch, Fields, Ready
<1>12. z = b /\ ~HasNul(b.value) /\ WellFormed(b.value)
  BY <1>10, <1>11
<1> QED BY <1>9, <1>12

-----------------------------------------------------------------------------
(* The stream *)

\* The inductive invariant: the position, the latch that is every answer, and the history.
Sound ==
  /\ num_bits \in Nat /\ bits_read \in 0..num_bits
  /\ failed \in Reasons \cup {Ok} /\ result = failed
  /\ depth \in 0..MaxDepth
  /\ dirty \in BOOLEAN /\ (failed = Ok => ~dirty)
  /\ ended \in BOOLEAN /\ (ended => bits_read = num_bits)
  /\ trapped = FALSE

\* A caller finds a stream that a method may be called on.
LEMMA StreamIsReady == Sound => Ready(Stream)
BY DEF Sound, Stream, Ready, Fields

\* What any call that keeps the contract does to the stream: sound but for the caller's own
\* bookkeeping, and a step of the latch.
Answered ==
  /\ num_bits' = num_bits /\ bits_read' \in bits_read .. num_bits
  /\ failed' \in Reasons \cup {Ok} /\ result' = failed'
  /\ failed # Ok => failed' = failed /\ bits_read' = bits_read
  /\ dirty' \in BOOLEAN /\ (failed' = Ok => ~dirty')
  /\ trapped' = FALSE
  /\ failed' # Ok => dest' = Old

\* One call.
LEMMA CallAnswers ==
  ASSUME Sound, NEW c, NEW q, Delivers(Stream, q), Return(c, q)
  PROVE  Answered
<1> DEFINE r == Stream
           s == [q EXCEPT !.dest = r.dest]
<1>1. /\ r.at = bits_read /\ r.failed = failed /\ r.dirty = dirty /\ r.dest = Old
  BY DEF Stream
<1> HIDE DEF r
<1>2. /\ s.at = q.at /\ s.failed = q.failed /\ s.ret = q.ret /\ s.dirty = q.dirty
      /\ s.trapped = q.trapped
  BY DEF Delivers, Fields, r
<1>3. Keeps(r, s) /\ (q.ret # Ok => q.dest = Old)
  BY <1>1 DEF Delivers, r
<1> HIDE DEF s
<1>4. /\ bits_read' = q.at /\ failed' = q.failed /\ result' = q.ret /\ dest' = q.dest
      /\ dirty' = q.dirty /\ trapped' = q.trapped /\ num_bits' = num_bits
  BY DEF Return
<1>5. failed' = Ok => ~dirty'
  <2>1. Ok \notin Reasons
    BY DEF Reasons, Ok
  <2> QED BY <1>1, <1>2, <1>3, <1>4 DEF Keeps, Sound
<1>6. trapped' = FALSE
  <2>1. q.trapped = FALSE
    BY <1>2, <1>3 DEF Keeps
  <2> QED BY <1>4, <2>1
<1>7. /\ bits_read' \in bits_read .. num_bits /\ failed' \in Reasons \cup {Ok} /\ result' = failed'
      /\ (failed # Ok => failed' = failed /\ bits_read' = bits_read) /\ dirty' \in BOOLEAN
  BY <1>1, <1>2, <1>3, <1>4 DEF Keeps
<1> QED BY <1>3, <1>4, <1>5, <1>6, <1>7 DEF Answered

\* A call that leaves the caller's bookkeeping alone.
LEMMA DoesSound ==
  ASSUME Sound, NEW c, NEW q, Delivers(Stream, q), Does(c, q)
  PROVE  Answered /\ Sound'
<1>1. Answered /\ UNCHANGED <<depth, ended>>
  BY CallAnswers DEF Does
<1>2. ended => bits_read' = num_bits
  BY <1>1 DEF Answered, Sound
<1> QED BY <1>1, <1>2 DEF Answered, Sound

\* A method whose outcome stores nothing delivers it as well.
LEMMA KeepsDelivers ==
  ASSUME NEW r, NEW q, Keeps(r, q)
  PROVE  Delivers(r, q)
<1> DEFINE s == [q EXCEPT !.dest = r.dest]
<1>1. /\ DOMAIN s = Fields /\ s.at = q.at /\ s.failed = q.failed /\ s.ret = q.ret
      /\ s.dirty = q.dirty /\ s.trapped = q.trapped /\ s.dest = r.dest
  BY DEF Keeps, Fields
<1> HIDE DEF s
<1>2. Keeps(r, s)
  BY <1>1 DEF Keeps
<1> QED BY <1>2 DEF Delivers, Keeps, s

\* The invariant holds of a new stream, refused from birth or not.
LEMMA InitSound == Init => Sound
<1> SUFFICES ASSUME Init PROVE Sound
  OBVIOUS
<1>1. PICK p \in Packets :
        /\ num_bits = (IF p.fits THEN p.bits ELSE 0)
        /\ failed = (IF p.fits THEN Ok ELSE "value_out_of_range")
  BY DEF Init
<1>2. num_bits \in Nat /\ MaxDepth \in Nat
  BY <1>1, StreamAssumption
<1>3. failed \in Reasons \cup {Ok}
  BY <1>1 DEF Reasons
<1>4. bits_read = 0 /\ result = failed /\ depth = 0 /\ dirty = FALSE /\ ended = FALSE /\ trapped = FALSE
  BY DEF Init
<1>5. bits_read \in 0..num_bits /\ depth \in 0..MaxDepth
  BY <1>2, <1>4
<1>6. dirty \in BOOLEAN /\ ended \in BOOLEAN /\ ~dirty /\ ~ended
  BY <1>4
<1> QED BY <1>2, <1>3, <1>4, <1>5, <1>6 DEF Sound

\* Every call keeps the invariant and answers with the latch: one step per action.
LEMMA NextSound == Sound /\ Next => Answered /\ Sound'
<1> SUFFICES ASSUME Sound, Next PROVE Answered /\ Sound'
  OBVIOUS
<1> DEFINE r == Stream
<1>0. Ready(r)
  BY StreamIsReady
<1>1. CASE Bits
  <2>1. PICK n \in Widths : Does([op |-> "bits", bits |-> n], Deliver(SerializeBits(r, n)))
    BY <1>1 DEF Bits
  <2> QED BY <1>0, <2>1, SerializeBitsKeeps, DeliverDelivers, DoesSound
<1>2. CASE Bits64
  <2>1. PICK n \in WideWidths : Does([op |-> "bits", bits |-> n], Deliver(SerializeBits64(r, n)))
    BY <1>2 DEF Bits64
  <2> QED BY <1>0, <2>1, SerializeBits64Keeps, DeliverDelivers, DoesSound
<1>3. CASE U128
  BY <1>0, <1>3, SerializeU128Keeps, DeliverDelivers, DoesSound DEF U128
<1>4. CASE RangedInt
  <2>1. PICK m \in Ranges : Does([op |-> "int", min |-> m[1], max |-> m[2]],
                                 Deliver(SerializeInt(r, m[1], m[2])))
    BY <1>4 DEF RangedInt
  <2>2. /\ m[1] \in Int /\ m[2] \in Int
        /\ m[1] < m[2] => BitsRequired(m[2] - m[1]) \in 1 .. 4*MaxBits
    BY DeclarationAssumption
  <2>3. ~(m[1] > m[2]) /\ m[1] # m[2] => BitsRequired(m[2] - m[1]) \in 1 .. 4*MaxBits
    BY <2>2
  <2>4. Keeps(r, SerializeInt(r, m[1], m[2]))
    BY <1>0, <2>3, SerializeIntKeeps
  <2> QED BY <2>1, <2>4, DeliverDelivers, DoesSound
<1>5. CASE Float
  BY <1>0, <1>5, SerializeFloatKeeps, DeliverDelivers, DoesSound DEF Float
<1>6. CASE Double
  BY <1>0, <1>6, SerializeFloatKeeps, DeliverDelivers, DoesSound DEF Double
<1>7. CASE CompressedFloat
  <2>1. PICK f \in Quanta : Does([op |-> "compressed", quanta |-> f],
                                 Deliver(SerializeCompressedFloat(r, f)))
    BY <1>7 DEF CompressedFloat
  <2> QED BY <1>0, <2>1, SerializeCompressedFloatKeeps, DeliverDelivers, DoesSound
<1>8. CASE Fixed
  <2>1. PICK f \in Formats :
          Does([op |-> "fixed", format |-> f], Deliver(SerializeFixed(r, f)))
    BY <1>8 DEF Fixed
  <2> QED BY <1>0, <2>1, SerializeFixedKeeps, DeliverDelivers, DoesSound
<1>9. CASE IntRelative
  <2>1. PICK previous \in Previous : Does([op |-> "relative", previous |-> previous],
                                          Deliver(SerializeIntRelative(r, previous)))
    BY <1>9 DEF IntRelative
  <2> QED BY <1>0, <2>1, SerializeIntRelativeKeeps, DeliverDelivers, DoesSound
<1>10. CASE String
  <2>1. PICK size \in Sizes : Does([op |-> "text", size |-> size], Deliver(SerializeString(r, size)))
    BY <1>10 DEF String
  <2> QED BY <1>0, <2>1, SerializeStringKeeps, DeliverDelivers, DoesSound
<1>11. CASE Bytes
  <2>1. PICK k \in Lengths : Does([op |-> "bytes", length |-> k], SerializeBytes(r, k))
    BY <1>11 DEF Bytes
  <2>2. k \in Nat
    BY StreamAssumption
  <2> QED BY <1>0, <2>1, <2>2, SerializeBytesDelivers, DoesSound
<1>12. CASE Align
  BY <1>0, <1>12, SerializeAlignKeeps, KeepsDelivers, DoesSound DEF Align
<1>13. CASE End
  <2> DEFINE q == SerializeEnd(r)
  <2>1. /\ Return([op |-> "end"], q) /\ ended' = (ended \/ q.ret = Ok) /\ UNCHANGED depth
    BY <1>13 DEF End
  <2>2. Keeps(r, q) /\ (q.ret = Ok => q.at = num_bits)
    BY <1>0, SerializeEndKeeps
  <2>3. bits_read' = q.at
    BY <2>1 DEF Return
  <2> HIDE DEF q
  <2>4. Answered
    BY <2>1, <2>2, KeepsDelivers, CallAnswers
  <2>5. ended' \in BOOLEAN /\ (ended' => bits_read' = num_bits)
    BY <2>1, <2>2, <2>3, <2>4 DEF Answered, Sound
  <2> QED BY <2>1, <2>4, <2>5 DEF Answered, Sound
<1>14. CASE Fail
  <2>1. PICK error \in CallerReasons : Does([op |-> "fail", error |-> error], Latch(r, error))
    BY <1>14 DEF Fail
  <2>2. error \in Reasons
    BY StreamAssumption
  <2> QED BY <1>0, <2>1, <2>2, LatchKeeps, KeepsDelivers, DoesSound
<1>15. CASE OpenObject
  <2>1. Return([op |-> "open"], Gate(r)) /\ UNCHANGED ended /\ depth' \in {depth, depth + 1} /\ depth < MaxDepth
    BY <1>15 DEF OpenObject
  <2>2. Answered
    BY <1>0, <2>1, GateKeeps, KeepsDelivers, CallAnswers
  <2>3. depth' \in 0..MaxDepth
    <3>1. MaxDepth \in Nat
      BY StreamAssumption
    <3> QED BY <2>1, <3>1 DEF Sound
  <2>4. ended => bits_read' = num_bits
    BY <2>2 DEF Answered, Sound
  <2> QED BY <2>1, <2>2, <2>3, <2>4 DEF Answered, Sound
<1>16. CASE CloseObject
  <2>1. PICK answer \in CallerReasons \cup {Ok, failed} :
          LET q == IF answer = Ok THEN r ELSE Latch(r, answer) IN
          /\ depth > 0 /\ depth' = depth - 1
          /\ Return([op |-> "close", answer |-> answer], Gate(q)) /\ UNCHANGED ended
    BY <1>16 DEF CloseObject
  <2> DEFINE q == IF answer = Ok THEN r ELSE Latch(r, answer)
  <2>2. Keeps(r, Gate(q))
    <3>1. CASE answer = Ok
      BY <1>0, <3>1, GateKeeps
    <3>2. CASE answer # Ok
      <4> DEFINE s == Latch(r, answer)
      <4>1. answer \in Reasons
        BY <2>1, <3>2, StreamAssumption DEF Sound
      <4>2. Keeps(r, s)
        BY <1>0, <4>1, LatchKeeps
      <4>3. q = s
        BY <3>2
      <4> HIDE DEF s, q
      <4>4. Keeps(r, Gate(s))
        BY <4>2 DEF Gate, Keeps, Fields
      <4> QED BY <4>3, <4>4
    <3> QED BY <3>1, <3>2
  <2>3. Answered
    BY <2>1, <2>2, KeepsDelivers, CallAnswers
  <2>4. depth' \in 0..MaxDepth /\ UNCHANGED ended
    <3>1. MaxDepth \in Nat
      BY StreamAssumption
    <3> QED BY <2>1, <3>1 DEF Sound
  <2>5. ended => bits_read' = num_bits
    BY <2>3 DEF Answered, Sound
  <2> QED BY <2>3, <2>4, <2>5 DEF Answered, Sound
<1> QED BY <1>1, <1>2, <1>3, <1>4, <1>5, <1>6, <1>7, <1>8, <1>9, <1>10, <1>11, <1>12, <1>13,
           <1>14, <1>15, <1>16 DEF Next

\* What a call that succeeds may deliver, and at what cost.
Offers(c, q) ==
  q.ret = Ok => /\ Admits(c, q.value)
                /\ c.op = "relative" => q.at - bits_read = RelativeCost(c.previous, q.value)

\* The caller's destination holds, after a step, only what the declaration admits.
Delivered ==
  dest' # Old => /\ Admits(call', dest')
                 /\ call'.op = "relative" => bits_read' - bits_read = RelativeCost(call'.previous, dest')

\* Storing what is offered.
LEMMA DeliverOffers ==
  ASSUME NEW c, NEW q, Keeps(Stream, q), Offers(c, q), Does(c, Deliver(q))
  PROVE  Delivered
<1> DEFINE d == Deliver(q)
<1>1. bits_read' = d.at /\ dest' = d.dest /\ call' = c
  BY DEF Does, Return
<1>2. q.dest = Old /\ DOMAIN q = Fields
  BY DEF Keeps, Stream
<1>3. CASE q.ret = Ok
  <2>1. d.at = q.at /\ d.dest = q.value
    BY <1>2, <1>3 DEF Deliver, Fields
  <2> QED BY <1>1, <1>3, <2>1 DEF Offers, Delivered
<1>4. CASE q.ret # Ok
  <2>1. dest' = Old
    BY <1>1, <1>2, <1>4 DEF Deliver
  <2> QED BY <2>1 DEF Delivered
<1> QED BY <1>3, <1>4

\* A method that stores nothing.
LEMMA NothingDelivered ==
  ASSUME NEW c, NEW q, Keeps(Stream, q), Return(c, q)
  PROVE  Delivered
<1>1. dest' = Old
  BY DEF Return, Keeps, Stream
<1> QED BY <1>1 DEF Delivered

\* The numbers of n bits.
LEMMA ReadsFits ==
  ASSUME NEW r, NEW q, NEW n \in Nat, Reads(r, q, n), q.ret = Ok
  PROVE  q.value \in 0 .. 2^n - 1
<1> DEFINE w == 2^n
<1>1. q.value \in Nat /\ q.value < w /\ w \in Nat
  BY PowerAbove DEF Reads
<1> HIDE DEF w
<1>2. q.value \in 0 .. w - 1
  BY <1>1
<1> QED BY <1>2 DEF w

\* Every call delivers only what its declaration admits: one step per action.
LEMMA NextDelivers == Sound /\ Next => Delivered
<1> SUFFICES ASSUME Sound, Next PROVE Delivered
  OBVIOUS
<1> DEFINE r == Stream
<1>0. Ready(r) /\ r.at = bits_read /\ r.dest = Old
  BY StreamIsReady DEF Stream
<1>1. CASE Bits
  <2>1. PICK n \in Widths : Does([op |-> "bits", bits |-> n], Deliver(SerializeBits(r, n)))
    BY <1>1 DEF Bits
  <2> DEFINE q == SerializeBits(r, n)
             c == [op |-> "bits", bits |-> n]
  <2>2. Keeps(r, q) /\ Reads(r, q, n) /\ (q.ret = Ok => n \in 1..MaxBits)
    BY <1>0, SerializeBitsKeeps, SerializeBitsReads
  <2> HIDE DEF q
  <2>3. q.ret = Ok => n \in Nat /\ q.value \in 0 .. 2^n - 1
    BY <2>2, ReadsFits
  <2>4. Offers(c, q)
    BY <2>3 DEF Offers, Admits
  <2> QED BY <2>1, <2>2, <2>4, DeliverOffers DEF q
<1>2. CASE Bits64
  <2>1. PICK n \in WideWidths : Does([op |-> "bits", bits |-> n], Deliver(SerializeBits64(r, n)))
    BY <1>2 DEF Bits64
  <2> DEFINE q == SerializeBits64(r, n)
             c == [op |-> "bits", bits |-> n]
  <2>2. Keeps(r, q) /\ Reads(r, q, n) /\ (q.ret = Ok => n \in 1 .. 2*MaxBits)
    BY <1>0, SerializeBits64Keeps, SerializeBits64Reads
  <2> HIDE DEF q
  <2>3. q.ret = Ok => n \in Nat /\ q.value \in 0 .. 2^n - 1
    BY <2>2, ReadsFits
  <2>4. Offers(c, q)
    BY <2>3 DEF Offers, Admits
  <2> QED BY <2>1, <2>2, <2>4, DeliverOffers DEF q
<1>3. CASE U128
  <2> DEFINE n == 4*MaxBits
             q == SerializeU128(r)
             c == [op |-> "bits", bits |-> n]
  <2>1. Does(c, Deliver(q))
    BY <1>3 DEF U128
  <2>2. Keeps(r, q) /\ Reads(r, q, n) /\ n \in Nat
    BY <1>0, SerializeU128Keeps, SerializeU128Reads
  <2> HIDE DEF q, n
  <2>3. q.ret = Ok => q.value \in 0 .. 2^n - 1
    BY <2>2, ReadsFits
  <2>4. Offers(c, q)
    BY <2>3 DEF Offers, Admits
  <2> QED BY <2>1, <2>2, <2>4, DeliverOffers
<1>4. CASE RangedInt
  <2>1. PICK m \in Ranges : Does([op |-> "int", min |-> m[1], max |-> m[2]],
                                 Deliver(SerializeInt(r, m[1], m[2])))
    BY <1>4 DEF RangedInt
  <2> DEFINE q == SerializeInt(r, m[1], m[2])
             c == [op |-> "int", min |-> m[1], max |-> m[2]]
  <2>2. /\ m[1] \in Int /\ m[2] \in Int
        /\ m[1] < m[2] => BitsRequired(m[2] - m[1]) \in 1 .. 4*MaxBits
    BY DeclarationAssumption
  <2>3. ~(m[1] > m[2]) /\ m[1] # m[2] => BitsRequired(m[2] - m[1]) \in 1 .. 4*MaxBits
    BY <2>2
  <2>4. Keeps(r, q) /\ (q.ret = Ok => q.value \in m[1] .. m[2])
    BY <1>0, <2>2, <2>3, SerializeIntKeeps, SerializeIntReads
  <2> HIDE DEF q
  <2>5. Offers(c, q)
    BY <2>4 DEF Offers, Admits
  <2> QED BY <2>1, <2>4, <2>5, DeliverOffers DEF q
<1>5. CASE Float
  <2> DEFINE n == MaxBits
             q == SerializeFloat(r, n, FractionBits)
             c == [op |-> "float", bits |-> n, fraction |-> FractionBits]
  <2>1. Does(c, Deliver(q))
    BY <1>5 DEF Float
  <2>2. Keeps(r, q) /\ Reads(r, q, n) /\ n \in Nat /\ (q.ret = Ok => Finite(q.value, n, FractionBits))
    BY <1>0, SerializeFloatKeeps, SerializeFloatReads
  <2> HIDE DEF q, n
  <2>3. q.ret = Ok => q.value \in 0 .. 2^n - 1
    BY <2>2, ReadsFits
  <2>4. Offers(c, q)
    BY <2>2, <2>3 DEF Offers, Admits
  <2> QED BY <2>1, <2>2, <2>4, DeliverOffers
<1>6. CASE Double
  <2> DEFINE n == 2*MaxBits
             q == SerializeFloat(r, n, DoubleFractionBits)
             c == [op |-> "float", bits |-> n, fraction |-> DoubleFractionBits]
  <2>1. Does(c, Deliver(q))
    BY <1>6 DEF Double
  <2>2. Keeps(r, q) /\ Reads(r, q, n) /\ n \in Nat /\ (q.ret = Ok => Finite(q.value, n, DoubleFractionBits))
    BY <1>0, SerializeFloatKeeps, SerializeFloatReads
  <2> HIDE DEF q, n
  <2>3. q.ret = Ok => q.value \in 0 .. 2^n - 1
    BY <2>2, ReadsFits
  <2>4. Offers(c, q)
    BY <2>2, <2>3 DEF Offers, Admits
  <2> QED BY <2>1, <2>2, <2>4, DeliverOffers
<1>7. CASE CompressedFloat
  <2>1. PICK f \in Quanta : Does([op |-> "compressed", quanta |-> f],
                                 Deliver(SerializeCompressedFloat(r, f)))
    BY <1>7 DEF CompressedFloat
  <2> DEFINE q == SerializeCompressedFloat(r, f)
             c == [op |-> "compressed", quanta |-> f]
  <2>2. f.top \in Nat
    BY StreamAssumption
  <2>3. Keeps(r, q) /\ (q.ret = Ok => q.value \in 0 .. f.top)
    BY <1>0, <2>2, SerializeCompressedFloatKeeps, SerializeCompressedFloatReads
  <2> HIDE DEF q
  <2>4. Offers(c, q)
    BY <2>3 DEF Offers, Admits
  <2> QED BY <2>1, <2>3, <2>4, DeliverOffers DEF q
<1>8. CASE Fixed
  <2>1. PICK f \in Formats : Does([op |-> "fixed", format |-> f], Deliver(SerializeFixed(r, f)))
    BY <1>8 DEF Fixed
  <2> DEFINE q == SerializeFixed(r, f)
             c == [op |-> "fixed", format |-> f]
  <2>2. Keeps(r, q) /\ (q.ret = Ok => q.value \in f.min * 2^f.fraction .. f.max * 2^f.fraction)
    BY <1>0, SerializeFixedKeeps, SerializeFixedReads
  <2> HIDE DEF q
  <2>3. Offers(c, q)
    BY <2>2 DEF Offers, Admits
  <2> QED BY <2>1, <2>2, <2>3, DeliverOffers DEF q
<1>9. CASE IntRelative
  <2>1. PICK previous \in Previous : Does([op |-> "relative", previous |-> previous],
                                          Deliver(SerializeIntRelative(r, previous)))
    BY <1>9 DEF IntRelative
  <2> DEFINE q == SerializeIntRelative(r, previous)
             c == [op |-> "relative", previous |-> previous]
  <2>2. previous \in Int
    BY StreamAssumption
  <2>3. /\ Keeps(r, q)
        /\ q.ret = Ok => /\ q.value \in previous + 1 .. MaxInt
                         /\ RelativeCost(previous, q.value) \in Nat
                         /\ q.at = bits_read + RelativeCost(previous, q.value)
    BY <1>0, <2>2, SerializeIntRelativeKeeps, SerializeIntRelativeReads
  <2> HIDE DEF q
  <2>4. q.ret = Ok => q.at - bits_read = RelativeCost(previous, q.value)
    BY <2>3 DEF Sound
  <2>5. Offers(c, q)
    BY <2>3, <2>4 DEF Offers, Admits
  <2> QED BY <2>1, <2>3, <2>5, DeliverOffers DEF q
<1>10. CASE String
  <2>1. PICK size \in Sizes : Does([op |-> "text", size |-> size], Deliver(SerializeString(r, size)))
    BY <1>10 DEF String
  <2> DEFINE q == SerializeString(r, size)
             c == [op |-> "text", size |-> size]
  <2>2. size \in Nat
    BY StreamAssumption
  <2>3. /\ Keeps(r, q)
        /\ q.ret = Ok => Len(q.value) < size /\ ~HasNul(q.value) /\ WellFormed(q.value)
    BY <1>0, <2>2, SerializeStringKeeps, SerializeStringReads
  <2> HIDE DEF q
  <2>4. Offers(c, q)
    BY <2>3 DEF Offers, Admits
  <2> QED BY <2>1, <2>3, <2>4, DeliverOffers DEF q
<1>11. CASE Bytes
  <2>1. PICK k \in Lengths : Does([op |-> "bytes", length |-> k], SerializeBytes(r, k))
    BY <1>11 DEF Bytes
  <2> DEFINE q == SerializeBytes(r, k)
             c == [op |-> "bytes", length |-> k]
  <2>2. k \in Nat
    BY StreamAssumption
  <2>3. q.dest # Old => Len(q.dest) = k
    BY <1>0, <2>2, SerializeBytesReads
  <2>4. dest' = q.dest /\ call' = c
    BY <2>1 DEF Does, Return
  <2> HIDE DEF q
  <2> QED BY <2>3, <2>4 DEF Delivered, Admits
<1>12. CASE Align
  BY <1>0, <1>12, SerializeAlignKeeps, NothingDelivered DEF Align, Does
<1>13. CASE End
  BY <1>0, <1>13, SerializeEndKeeps, NothingDelivered DEF End
<1>14. CASE Fail
  <2>1. PICK error \in CallerReasons : Does([op |-> "fail", error |-> error], Latch(r, error))
    BY <1>14 DEF Fail
  <2>2. error \in Reasons
    BY StreamAssumption
  <2> QED BY <1>0, <2>1, <2>2, LatchKeeps, NothingDelivered DEF Does
<1>15. CASE OpenObject
  BY <1>0, <1>15, GateKeeps, NothingDelivered DEF OpenObject
<1>16. CASE CloseObject
  <2>1. PICK answer \in CallerReasons \cup {Ok, failed} :
          LET q == IF answer = Ok THEN r ELSE Latch(r, answer) IN
          Return([op |-> "close", answer |-> answer], Gate(q))
    BY <1>16 DEF CloseObject
  <2> DEFINE q == IF answer = Ok THEN r ELSE Latch(r, answer)
  <2>2. q.dest = Old /\ DOMAIN q = Fields
    <3>1. DOMAIN r = Fields
      BY <1>0 DEF Ready
    <3> HIDE DEF r
    <3> QED BY <1>0, <3>1 DEF Latch, Fields
  <2>3. dest' = Old
    <3>1. dest' = Gate(q).dest
      BY <2>1 DEF Return
    <3> HIDE DEF q
    <3> QED BY <2>2, <3>1 DEF Gate, Fields
  <2> QED BY <2>3 DEF Delivered
<1> QED BY <1>1, <1>2, <1>3, <1>4, <1>5, <1>6, <1>7, <1>8, <1>9, <1>10, <1>11, <1>12, <1>13,
           <1>14, <1>15, <1>16 DEF Next

\* The invariant survives a step that changes nothing.
LEMMA StutterSound == Sound /\ UNCHANGED vars => Sound'
BY DEF Sound, vars

\* The invariant holds of every behaviour.
LEMMA AlwaysSound == Spec => []Sound
<1>1. Sound /\ [Next]_vars => Sound'
  BY NextSound, StutterSound
<1> QED BY <1>1, InitSound, PTL DEF Spec

\* Whatever arrives and whatever is declared, the reader stays in the packet and trips no assertion.
THEOREM ReaderIsSafe == Spec => [](TypeOK /\ NeverTraps)
<1>1. Sound => TypeOK /\ NeverTraps
  BY DEF Sound, TypeOK, NeverTraps
<1> QED BY <1>1, AlwaysSound, PTL

\* Nothing hides in the padding of a packet that is not refused, whichever calls skip it.
THEOREM NothingHides == Spec => []NoHiddenBits
<1>1. Sound => NoHiddenBits
  BY DEF Sound, NoHiddenBits
<1> QED BY <1>1, AlwaysSound, PTL

\* An end is accepted only where the packet ends, and later calls do not move past it.
THEOREM TheEndIsTheEnd == Spec => []EndConsumesAll
<1>1. Sound => EndConsumesAll
  BY DEF Sound, EndConsumesAll
<1> QED BY <1>1, AlwaysSound, PTL

\* Whatever a packet holds, only a value its declaration admits reaches the destination of a call,
\* and only of one that succeeded on a stream that has not refused.
THEOREM OnlyTheAdmittedIsRead == Spec => []OnlyAdmittedValues
<1>1. Init => OnlyAdmittedValues
  BY DEF Init, OnlyAdmittedValues
<1>2. Sound /\ OnlyAdmittedValues /\ [Next]_vars => OnlyAdmittedValues'
  <2> SUFFICES ASSUME Sound, OnlyAdmittedValues, [Next]_vars PROVE OnlyAdmittedValues'
    OBVIOUS
  <2>1. CASE Next
    <3>1. Answered /\ Delivered
      BY <2>1, NextSound, NextDelivers
    <3>2. dest' # Old => result' = Ok /\ failed' = Ok /\ Admits(call', dest')
      BY <3>1 DEF Answered, Delivered
    <3> QED BY <3>2 DEF OnlyAdmittedValues, Admits
  <2>2. CASE UNCHANGED vars
    BY <2>2 DEF OnlyAdmittedValues, Admits, vars
  <2> QED BY <2>1, <2>2
<1> QED BY <1>1, <1>2, AlwaysSound, PTL DEF Spec

\* One value, one encoding: an int_relative value is accepted only in the tier that its writer
\* would have chosen.
THEOREM OneValueOneEncoding == Spec => OneEncoding
<1>1. Sound /\ [Next]_vars
        => [call'.op = "relative" /\ dest' # Old
              => bits_read' - bits_read = RelativeCost(call'.previous, dest')]_vars
  BY NextDelivers DEF Delivered
<1> QED BY <1>1, AlwaysSound, PTL DEF Spec, OneEncoding

\* Failure is terminal, for every sequence of calls: the reader implements the latch.
THEOREM ReaderIsALatch == Spec => ImplementsReader
<1>1. Init => Reader!LatchInit
  <2> SUFFICES ASSUME Init PROVE Reader!LatchInit
    OBVIOUS
  <2>1. Sound /\ bits_read = 0 /\ dest = Old /\ result = failed
    BY InitSound DEF Init
  <2> QED BY <2>1 DEF Reader!LatchInit, Sound
<1>2. Sound /\ [Next]_vars
        => [Reader!Accept \/ Reader!Refuse \/ Reader!Echo]_Reader!latchVars
  <2> SUFFICES ASSUME Sound, [Next]_vars
               PROVE  [Reader!Accept \/ Reader!Refuse \/ Reader!Echo]_Reader!latchVars
    OBVIOUS
  <2>1. CASE UNCHANGED vars
    BY <2>1 DEF vars, Reader!latchVars
  <2>2. CASE Next
    <3>1. Answered
      BY <2>2, NextSound
    <3>2. CASE failed # Ok
      BY <3>1, <3>2 DEF Answered, Reader!Echo, Sound
    <3>3. CASE failed = Ok /\ failed' # Ok
      BY <3>1, <3>3 DEF Answered, Reader!Refuse, Reader!Forward, Sound
    <3>4. CASE failed = Ok /\ failed' = Ok
      BY <3>1, <3>4 DEF Answered, Reader!Accept, Reader!Forward, Sound
    <3> QED BY <3>2, <3>3, <3>4
  <2> QED BY <2>1, <2>2
<1> QED BY <1>1, <1>2, AlwaysSound, PTL DEF Spec, ImplementsReader, Reader!LatchSpec
-----------------------------------------------------------------------------
(* The negative controls *)

\* what a method with a rule deleted still leaves: a stream that answers with its latch, inside the
\* packet, with nothing tripped.  It may have skipped ones, and refused later than the real one.
Lives(q) ==
  /\ DOMAIN q = Fields /\ num_bits \in Nat /\ q.at \in 0..num_bits
  /\ q.failed \in Reasons \cup {Ok} /\ q.ret = q.failed
  /\ q.dirty \in BOOLEAN /\ q.trapped = FALSE

\* what is asked of every control
Inside(q) == q.at <= num_bits /\ q.trapped = FALSE

\* Methods with no rule deleted.
LEMMA KeepsLives ==
  ASSUME NEW r, NEW q, Ready(r), Keeps(r, q)
  PROVE  Lives(q)
BY DEF Ready, Keeps, Lives

\* A stream that goes on may be read from, by the real methods too.
LEMMA LivesOn ==
  ASSUME NEW q, Lives(q), q.ret = Ok
  PROVE  Ready(q) /\ q.failed = Ok
BY DEF Lives, Ready

\* A refusal, of a stream that has failed or not.
LEMMA LatchLives ==
  ASSUME NEW q, Lives(q) \/ Ready(q), NEW error \in Reasons
  PROVE  Lives(Latch(q, error))
BY DEF Lives, Ready, Latch, Fields, Reasons, Ok

\* A value.
LEMMA ValueLives ==
  ASSUME NEW q, Lives(q), NEW v
  PROVE  Lives([q EXCEPT !.value = v])
BY DEF Lives, Fields

\* A refusal taken back.
LEMMA SpareLives ==
  ASSUME NEW r, NEW q, Lives(q), NEW error
  PROVE  Lives(Spare(r, q, error))
BY DEF Lives, Spare, Fields

\* What lives is inside, and so is what it delivers.
LEMMA LivesInside ==
  ASSUME NEW q, Lives(q)
  PROVE  Inside(q) /\ Inside(Deliver(q))
BY DEF Lives, Inside, Deliver, Fields

\* align-padding: the padding is skipped, zeros or not.
LEMMA CutAlignLives ==
  ASSUME NEW k, NEW r, Ready(r)
  PROVE  LET q == CutAlign(k, r) IN Lives(q) /\ (q.ret = Ok => AlignBits(q) = 0)
<1> DEFINE q == SerializeAlign(r)
           s == Spare(r, q, "nonzero_padding")
           n == AlignBits(r)
<1>1. Keeps(r, q) /\ (q.ret = Ok => AlignBits(q) = 0)
  BY SerializeAlignKeeps
<1>2. Lives(q) /\ Lives(s)
  BY <1>1, KeepsLives, SpareLives
<1>3. ASSUME Fresh(r, q, "nonzero_padding") PROVE AlignBits(s) = 0
  <2>1. r.failed = Ok /\ q.failed = "nonzero_padding" /\ q.failed # Ok /\ q.failed # "past_end"
    BY <1>3 DEF Fresh, Ok
  <2>2. ~Refuses(r, n)
    <3>1. ASSUME Refuses(r, n) PROVE q.failed = "past_end"
      <4>1. q = Latch(r, "past_end")
        BY <2>1, <3>1 DEF SerializeAlign, Refusal
      <4> QED BY <2>1, <4>1 DEF Latch, Ready, Fields
    <3> QED BY <2>1, <3>1
  <2>3. n # 0
    BY <2>1, <2>2 DEF SerializeAlign
  <2>4. n \in 0 .. ByteBits - 1 /\ (r.at + n) % ByteBits = 0 /\ r.at \in Nat /\ num_bits \in Nat
    BY Aligned DEF AlignBits, Ready
  <2>5. n \in 1..MaxBits /\ r.at + n <= num_bits
    <3> HIDE DEF n
    <3> QED BY <2>1, <2>2, <2>3, <2>4 DEF Refuses
  <2>6. q = SkipZeros(r, n)
    BY <2>2, <2>3 DEF SerializeAlign
  <2>7. q.at = r.at + n
    BY <2>1, <2>5, <2>6, SkipZerosKeeps
  <2>8. s.at = q.at
    BY <1>2 DEF Spare, Lives, Fields
  <2> QED BY <2>4, <2>7, <2>8 DEF AlignBits
<1>4. ASSUME ~Fresh(r, q, "nonzero_padding") PROVE s = q
  BY <1>4 DEF Spare
<1>5. CutAlign(k, r) = IF k = "align-padding" THEN s ELSE q
  BY DEF CutAlign
<1> HIDE DEF q, s
<1> QED BY <1>1, <1>2, <1>3, <1>4, <1>5

\* Bytes.
LEMMA CutBytesInside ==
  ASSUME NEW k, NEW r, Ready(r), NEW n \in Nat
  PROVE  Inside(CutBytes(k, r, n))
<1> DEFINE q == CutAlign(k, r)
           s == ReadByteSlice(q, n)
<1>1. Lives(q) /\ (q.ret = Ok => AlignBits(q) = 0)
  BY CutAlignLives
<1>2. CutBytes(k, r, n) = IF q.ret # Ok THEN q
                          ELSE IF n > Remaining(q) \div ByteBits THEN Latch(q, "past_end")
                          ELSE Deliver(s)
  BY DEF CutBytes
<1> HIDE DEF q
<1>3. Lives(Latch(q, "past_end"))
  BY <1>1, LatchLives DEF Reasons
<1>4. ASSUME q.ret = Ok, ~(n > Remaining(q) \div ByteBits) PROVE Lives(s)
  <2>1. Ready(q) /\ q.failed = Ok
    BY <1>1, <1>4, LivesOn
  <2> QED BY <1>1, <1>4, <2>1, ReadByteSliceKeeps, KeepsLives
<1> HIDE DEF s
<1> QED BY <1>1, <1>2, <1>3, <1>4, LivesInside

\* The end, with either of its rules deleted.
LEMMA CutEndInside ==
  ASSUME NEW k \in Deleted["end"], NEW r, Ready(r)
  PROVE  Inside(CutEnd(k, r))
<1> DEFINE n == Remaining(r) % ByteBits
<1>1. CASE k = "end-padding"
  <2>1. Lives(SerializeEnd(r))
    BY SerializeEndKeeps, KeepsLives
  <2>2. CutEnd(k, r) = Spare(r, SerializeEnd(r), "nonzero_padding")
    BY <1>1 DEF CutEnd
  <2> QED BY <2>1, <2>2, SpareLives, LivesInside
<1>2. CASE k = "end-trailing-data"
  <2>1. CutEnd(k, r) = IF r.failed # Ok THEN Gate(r) ELSE IF n = 0 THEN r ELSE SkipZeros(r, n)
    BY <1>2 DEF CutEnd
  <2>2. Inside(Gate(r)) /\ Inside(r)
    <3>1. Inside(Gate(r))
      <4>1. Keeps(r, Gate(r))
        BY GateKeeps
      <4>2. Lives(Gate(r))
        BY <4>1, KeepsLives
      <4> QED BY <4>2, LivesInside
    <3>2. r.at \in 0 .. num_bits /\ num_bits \in Nat
      BY DEF Ready
    <3>3. r.at <= num_bits
      BY <3>2
    <3>4. r.trapped = FALSE
      BY DEF Ready
    <3> QED BY <3>1, <3>3, <3>4 DEF Inside
  <2>3. Remaining(r) \in Nat /\ Remaining(r) = num_bits - r.at /\ r.at \in Nat /\ num_bits \in Nat
    BY DEF Ready, Remaining
  <2>4. n \in 0 .. ByteBits - 1 /\ n <= Remaining(r)
    <3> DEFINE left == Remaining(r)
    <3>1. left \in Nat
      BY <2>3
    <3> HIDE DEF left
    <3>2. left \div ByteBits \in Nat /\ left % ByteBits \in 0 .. ByteBits - 1
          /\ left = (left \div ByteBits) * ByteBits + (left % ByteBits)
      BY <3>1, DivMod
    <3>3. (left \div ByteBits) * ByteBits \in Nat
      BY <3>2
    <3>4. left % ByteBits <= left
      BY <3>2, <3>3
    <3> QED BY <3>2, <3>4 DEF left
  <2> HIDE DEF n
  <2>5. ASSUME r.failed = Ok, n # 0 PROVE Inside(SkipZeros(r, n))
    <3>1. n \in 1..MaxBits /\ r.at + n <= num_bits
      BY <2>3, <2>4, <2>5
    <3> QED BY <2>5, <3>1, SkipZerosKeeps, KeepsLives, LivesInside
  <2> QED BY <2>1, <2>2, <2>5
<1> QED BY <1>1, <1>2 DEF Deleted

\* Ranged integers of the narrow type.
LEMMA CutNarrowLives ==
  ASSUME NEW k, NEW r, Ready(r), NEW min, NEW max, BitsRequired(max - min) \in 1 .. 4*MaxBits
  PROVE  Lives(CutNarrow(k, r, min, max))
<1> DEFINE q == SerializeOffset(r, BitsRequired(max - min))
           v == Wrap(q.value + IF k = "ranged-reconstruction" THEN 0 ELSE min, MaxBits, TRUE)
<1>1. Lives(q)
  BY SerializeOffsetKeeps, KeepsLives
<1>2. CutNarrow(k, r, min, max) =
        IF q.ret # Ok THEN q
        ELSE IF q.value > max - min /\ k # "ranged-range" THEN Latch(q, "value_out_of_range")
        ELSE [q EXCEPT !.value = v]
  BY DEF CutNarrow
<1> HIDE DEF q, v
<1>3. Lives([q EXCEPT !.value = v])
  BY <1>1, ValueLives
<1>4. Lives(Latch(q, "value_out_of_range"))
  BY <1>1, LatchLives DEF Reasons
<1> QED BY <1>1, <1>2, <1>3, <1>4

\* Ranged integers.
LEMMA CutIntLives ==
  ASSUME NEW k, NEW r, Ready(r), NEW min \in Int, NEW max \in Int,
         min < max => BitsRequired(max - min) \in 1 .. 4*MaxBits
  PROVE  Lives(CutInt(k, r, min, max))
<1> DEFINE q == SerializeInt(r, min, max)
           v == ThroughDouble(q.value)
<1>1. Lives(q)
  <2>1. ~(min > max) /\ min # max => BitsRequired(max - min) \in 1 .. 4*MaxBits
    OBVIOUS
  <2>2. Keeps(r, q)
    BY <2>1, SerializeIntKeeps
  <2> QED BY <2>2, KeepsLives
<1>2. Narrow(min, max) => Lives(CutNarrow(k, r, min, max))
  BY CutNarrowLives DEF Narrow
<1>3. CutInt(k, r, min, max) =
        IF Narrow(min, max) THEN CutNarrow(k, r, min, max)
        ELSE IF Wide(min, max) /\ k = "int64-through-double" /\ q.ret = Ok
             THEN [q EXCEPT !.value = v] ELSE q
  BY DEF CutInt
<1> HIDE DEF q, v
<1>4. Lives([q EXCEPT !.value = v])
  BY <1>1, ValueLives
<1> QED BY <1>1, <1>2, <1>3, <1>4

\* A bounded tier of int_relative.
LEMMA CutTierLives ==
  ASSUME NEW k, NEW r, Ready(r), NEW t \in 0 .. Len(Tiers), NEW previous
  PROVE  Lives(CutTier(k, r, t, previous))
<1> DEFINE yes == SerializeBits(r, 1)
           q == CutInt(k, yes, TierFirst(t), Tiers[t])
<1>1. Lives(yes) /\ Lives(BoundedTier(r, t, previous))
  BY SerializeBitsKeeps, BoundedTierKeeps, KeepsLives
<1>2. ASSUME yes.ret = Ok, t # 0 PROVE Lives(q)
  <2>1. Len(Tiers) \in Nat /\ t \in 1 .. Len(Tiers)
    BY <1>2, FormatAssumption
  <2>2. Tiers[t] \in Int /\ TierFirst(t) \in Int
    BY <2>1, FormatAssumption DEF TierFirst
  <2>3. TierFirst(t) < Tiers[t] => BitsRequired(Tiers[t] - TierFirst(t)) \in 1 .. 4*MaxBits
    BY <2>1, FormatWidths
  <2>4. Ready(yes)
    BY <1>1, <1>2, LivesOn
  <2> HIDE DEF yes
  <2> QED BY <2>2, <2>3, <2>4, CutIntLives
<1>3. CutTier(k, r, t, previous) =
        IF yes.ret # Ok \/ t = 0 THEN BoundedTier(r, t, previous)
        ELSE IF q.ret # Ok THEN q ELSE Accept(q, previous, previous + q.value)
  BY DEF CutTier
<1> HIDE DEF yes, q
<1>4. ASSUME Lives(q) PROVE Lives(Accept(q, previous, previous + q.value))
  BY <1>4, ValueLives, LatchLives DEF Accept, Reasons
<1> QED BY <1>1, <1>2, <1>3, <1>4

\* The whole ladder.
LEMMA CutRelativeLives ==
  ASSUME NEW k, NEW r, Ready(r), NEW previous
  PROVE  Lives(CutRelative(k, r, previous))
<1> DEFINE t == Rung(r)
           s == [r EXCEPT !.at = r.at + t]
           q == SerializeIntRelative(r, previous)
<1>1. Len(Tiers) \in Nat /\ t \in 0 .. Len(Tiers) + 1 /\ r.at + t <= num_bits
  BY RungIsReached, FormatAssumption
<1>2. Lives(q) /\ Lives(Spare(r, q, "non_canonical"))
  BY SerializeIntRelativeKeeps, KeepsLives, SpareLives
<1>3. CutRelative(k, r, previous) =
        IF k = "int-relative-canonical" THEN Spare(r, q, "non_canonical")
        ELSE IF previous < 0 \/ t > Len(Tiers) THEN q ELSE CutTier(k, s, t, previous)
  BY DEF CutRelative
<1> HIDE DEF t, q
<1>4. Ready(s)
  <2>1. /\ DOMAIN s = Fields /\ s.at = r.at + t /\ s.failed = r.failed /\ s.ret = Ok
        /\ s.dirty = r.dirty /\ s.trapped = FALSE
    BY DEF Ready, Fields
  <2> HIDE DEF s
  <2> QED BY <1>1, <2>1 DEF Ready
<1>5. ~(t > Len(Tiers)) => Lives(CutTier(k, s, t, previous))
  BY <1>1, <1>4, CutTierLives
<1> HIDE DEF s
<1> QED BY <1>2, <1>3, <1>5

\* The length of a string is a length, even one that no declaration admits: the narrow type that
\* carries it has no room for a sign.
LEMMA CutLengthIsALength ==
  ASSUME NEW k, k \notin {"int64-through-double", "ranged-reconstruction"}, NEW r, Ready(r),
         NEW size \in 1..MaxSize
  PROVE  LET n == CutInt(k, r, 0, size - 1) IN Lives(n) /\ (n.ret = Ok => n.value \in Nat)
<1> DEFINE max == size - 1
           n == CutInt(k, r, 0, max)
           b == BitsRequired(max - 0)
<1>1. max \in Nat /\ max - 0 = max
  BY FormatAssumption
<1>2. 0 # max => b \in 1..MaxBits
  <2>1. 0 # max => max \in 1 .. MaxSize - 1
    BY FormatAssumption
  <2> HIDE DEF max
  <2> QED BY <1>1, <2>1, FormatWidths
<1> HIDE DEF max
<1>3. Lives(n)
  <2>1. 0 < max => b \in 1 .. 4*MaxBits
    BY <1>1, <1>2
  <2> QED BY <1>1, <2>1, CutIntLives
<1>4. ASSUME ~Narrow(0, max), n.ret = Ok PROVE n.value \in Nat
  <2>1. n = SerializeInt(r, 0, max)
    BY <1>4 DEF CutInt
  <2>2. 0 # max => b \in 1 .. 4*MaxBits /\ b <= MaxBits
    BY <1>2
  <2> QED BY <1>4, <2>1, <2>2, SerializeIntKeeps
<1>5. ASSUME Narrow(0, max), n.ret = Ok PROVE n.value \in Nat
  <2> DEFINE q == SerializeOffset(r, b)
             v == Wrap(q.value + 0, MaxBits, TRUE)
             half == 2^(MaxBits-1)
             whole == 2^MaxBits
  <2>1. b \in 1..MaxBits /\ max < half
    BY <1>1, <1>2, <1>5 DEF Narrow, MaxInt
  <2>2. MaxBits - 1 \in Nat /\ (MaxBits - 1) + 1 = MaxBits
    OBVIOUS
  <2>3. b <= MaxBits - 1
    BY <1>1, <2>1, <2>2, BitsRequiredHolds
  <2>4. half \in Nat /\ whole = 2 * half /\ 2^b <= half /\ 2^b \in Nat
    BY <2>1, <2>2, <2>3, PowerAbove, PowerStep, PowerOrdered
  <2>5. Keeps(r, q) /\ Reads(r, q, b)
    BY <2>1, SerializeOffsetKeeps, SerializeOffsetReads
  <2>6. n = IF q.ret # Ok THEN q
            ELSE IF q.value > max - 0 /\ k # "ranged-range" THEN Latch(q, "value_out_of_range")
            ELSE [q EXCEPT !.value = v]
    BY <1>5 DEF CutInt, CutNarrow
  <2>7. v = LET u == (q.value + 0) % whole IN IF u >= half THEN u - whole ELSE u
    BY DEF Wrap
  <2> HIDE DEF half, whole, v
  <2>8. ASSUME q.ret = Ok PROVE v \in Nat
    <3>1. q.value \in Nat /\ q.value < 2^b
      BY <2>5, <2>8 DEF Reads
    <3>2. q.value < half /\ (q.value + 0) % whole = q.value
      <4> DEFINE x == q.value
                 y == 2^b
      <4>1. x \in Nat /\ x < y /\ y <= half /\ y \in Nat
        BY <2>4, <3>1
      <4> HIDE DEF x, y, q
      <4>2. x < half /\ (x + 0) % whole = x
        BY <2>4, <4>1
      <4> QED BY <4>2 DEF x
    <3>3. ~(q.value >= half)
      <4> DEFINE x == q.value
      <4>1. x \in Nat /\ x < half
        BY <3>1, <3>2
      <4> HIDE DEF x, q
      <4>2. ~(x >= half)
        BY <2>4, <4>1
      <4> QED BY <4>2 DEF x
    <3>4. v = q.value
      BY <2>7, <3>2, <3>3
    <3> QED BY <3>1, <3>4
  <2> HIDE DEF q, n
  <2>9. q.ret = Ok
    BY <1>5, <2>6
  <2>10. Latch(q, "value_out_of_range").ret # Ok
    BY <2>5, <2>9, LatchLater DEF Reasons
  <2>11. n = [q EXCEPT !.value = v]
    BY <1>5, <2>6, <2>9, <2>10
  <2> QED BY <2>5, <2>8, <2>9, <2>11 DEF Keeps, Fields
<1> QED BY <1>3, <1>4, <1>5 DEF max

\* Text: bytes that are there, whatever is made of them.
LEMMA CutTextLives ==
  ASSUME NEW k, NEW r, Ready(r), r.failed = Ok, AlignBits(r) = 0,
         NEW length \in Nat, ~(length > Remaining(r) \div ByteBits)
  PROVE  Lives(CutText(k, r, length))
<1> DEFINE q == ReadByteSlice(r, length)
           e == CutEncoding(k, q)
           lossy == Rendered(q.value)
           patched == Patched(q.value)
<1>1. Lives(q)
  BY ReadByteSliceKeeps, KeepsLives
<1>2. CutText(k, r, length) =
        IF HasNul(q.value) /\ k # "string-embedded-nul"
        THEN Latch(q, IF k = "wrong-reason" THEN "invalid_utf8" ELSE "embedded_nul")
        ELSE IF ~WellFormed(q.value) THEN e ELSE q
  BY DEF CutText
<1>3. e = IF k = "string-utf8" THEN [q EXCEPT !.value = lossy]
          ELSE IF k = "string-utf8-surrogate" /\ WellFormed(patched)
               THEN [q EXCEPT !.value = patched] ELSE Latch(q, "invalid_utf8")
  BY DEF CutEncoding
<1> HIDE DEF q, lossy, patched
<1>4. /\ Lives([q EXCEPT !.value = lossy]) /\ Lives([q EXCEPT !.value = patched])
      /\ Lives(Latch(q, "invalid_utf8")) /\ Lives(Latch(q, "embedded_nul"))
  BY <1>1, ValueLives, LatchLives DEF Reasons
<1> HIDE DEF e
<1> QED BY <1>1, <1>2, <1>3, <1>4

\* Strings.
LEMMA CutStringLives ==
  ASSUME NEW k \in Deleted["text"], NEW r, Ready(r), NEW size
  PROVE  Lives(CutString(k, r, size))
<1> DEFINE n == CutInt(k, r, 0, size - 1)
           q == CutAlign(k, n)
<1>1. CASE size \notin 1..MaxSize
  <2>1. CutString(k, r, size) = Latch(r, "value_out_of_range")
    BY <1>1 DEF CutString
  <2> QED BY <2>1, LatchLives DEF Reasons
<1>2. CASE size \in 1..MaxSize
  <2>1. k \notin {"int64-through-double", "ranged-reconstruction"}
    BY DEF Deleted
  <2>2. Lives(n) /\ (n.ret = Ok => n.value \in Nat)
    BY <1>2, <2>1, CutLengthIsALength
  <2>3. CutString(k, r, size) =
          IF n.ret # Ok THEN n ELSE IF q.ret # Ok THEN q
          ELSE IF n.value > Remaining(q) \div ByteBits THEN Latch(q, "past_end")
          ELSE CutText(k, q, n.value)
    BY <1>2 DEF CutString
  <2> HIDE DEF n
  <2>4. ASSUME n.ret = Ok PROVE Lives(q) /\ (q.ret = Ok => AlignBits(q) = 0)
    BY <2>2, <2>4, LivesOn, CutAlignLives
  <2> HIDE DEF q
  <2>5. ASSUME n.ret = Ok, q.ret = Ok PROVE Lives(Latch(q, "past_end"))
    BY <2>4, <2>5, LatchLives DEF Reasons
  <2>6. ASSUME n.ret = Ok, q.ret = Ok, ~(n.value > Remaining(q) \div ByteBits)
        PROVE  Lives(CutText(k, q, n.value))
    <3>1. Ready(q) /\ q.failed = Ok
      BY <2>4, <2>6, LivesOn
    <3> QED BY <2>2, <2>4, <2>6, <3>1, CutTextLives
  <2> QED BY <2>2, <2>3, <2>4, <2>5, <2>6
<1> QED BY <1>1, <1>2

\* what is asked of every control of a call c
Harmless(c) == \A k \in Sabotages(c) : Inside(Sabotaged(k, c, Stream))

\* Every call of the read stream: one step per action.
LEMMA NextIsHarmless == Sound /\ Next => Harmless(call')
<1> SUFFICES ASSUME Sound, Next PROVE Harmless(call')
  OBVIOUS
<1> DEFINE r == Stream
<1>0. Ready(r)
  BY StreamIsReady
<1>1. CASE Bits \/ Bits64 \/ U128
  <2>1. call'.op = "bits"
    BY <1>1 DEF Bits, Bits64, U128, Does, Return
  <2> QED BY <2>1 DEF Harmless, Sabotages, Deleted
<1>2. CASE RangedInt
  <2>1. PICK m \in Ranges : call' = [op |-> "int", min |-> m[1], max |-> m[2]]
    BY <1>2 DEF RangedInt, Does, Return
  <2>2. /\ m[1] \in Int /\ m[2] \in Int
        /\ m[1] < m[2] => BitsRequired(m[2] - m[1]) \in 1 .. 4*MaxBits
    BY DeclarationAssumption
  <2>3. \A k : Inside(Deliver(CutInt(k, r, m[1], m[2])))
    BY <1>0, <2>2, CutIntLives, LivesInside
  <2> HIDE DEF r
  <2> QED BY <2>1, <2>3 DEF Harmless, Sabotaged, r
<1>3. CASE Float \/ Double
  <2>1. PICK n, fraction : call' = [op |-> "float", bits |-> n, fraction |-> fraction]
    BY <1>3 DEF Float, Double, Does, Return
  <2> DEFINE q == SerializeFloat(r, n, fraction)
  <2>2. Lives(q) /\ Lives(Spare(r, q, "non_finite_float"))
    BY <1>0, SerializeFloatKeeps, KeepsLives, SpareLives
  <2>3. \A k : CutFloat(k, r, n, fraction) \in {q, Spare(r, q, "non_finite_float")}
    BY DEF CutFloat
  <2> HIDE DEF r, q
  <2>4. \A k : Inside(Deliver(CutFloat(k, r, n, fraction)))
    BY <2>2, <2>3, LivesInside
  <2> QED BY <2>1, <2>4 DEF Harmless, Sabotaged, r
<1>4. CASE CompressedFloat
  <2>1. PICK f \in Quanta : call' = [op |-> "compressed", quanta |-> f]
    BY <1>4 DEF CompressedFloat, Does, Return
  <2>2. Inside(Deliver(CutCompressed(r, f)))
    BY <1>0, SerializeCompressedFloatKeeps, KeepsLives, SpareLives, LivesInside DEF CutCompressed
  <2> HIDE DEF r
  <2> QED BY <2>1, <2>2 DEF Harmless, Sabotaged, r
<1>5. CASE Fixed
  <2>1. PICK f \in Formats : call' = [op |-> "fixed", format |-> f]
    BY <1>5 DEF Fixed, Does, Return
  <2> DEFINE q == SerializeFixed(r, f)
             s == [q EXCEPT !.ret = Ok]
  <2>2. Lives(q)
    BY <1>0, SerializeFixedKeeps, KeepsLives
  <2>3. CutFixed(r, f) \in {q, s}
    BY DEF CutFixed
  <2> HIDE DEF r, q
  <2>4. Inside(Deliver(q)) /\ Inside(Deliver(s))
    BY <2>2, LivesInside DEF Lives, Inside, Deliver, Fields
  <2>5. Inside(Deliver(CutFixed(r, f)))
    BY <2>3, <2>4
  <2> QED BY <2>1, <2>5 DEF Harmless, Sabotaged, r
<1>6. CASE IntRelative
  <2>1. PICK previous \in Previous : call' = [op |-> "relative", previous |-> previous]
    BY <1>6 DEF IntRelative, Does, Return
  <2>2. \A k : Inside(Deliver(CutRelative(k, r, previous)))
    BY <1>0, CutRelativeLives, LivesInside
  <2> HIDE DEF r
  <2> QED BY <2>1, <2>2 DEF Harmless, Sabotaged, r
<1>7. CASE String
  <2>1. PICK size \in Sizes : call' = [op |-> "text", size |-> size]
    BY <1>7 DEF String, Does, Return
  <2>2. \A k \in Deleted["text"] : Inside(Deliver(CutString(k, r, size)))
    BY <1>0, CutStringLives, LivesInside
  <2>3. Sabotages(call') = Deleted["text"]
    BY <2>1 DEF Sabotages, Deleted
  <2> HIDE DEF r
  <2> QED BY <2>1, <2>2, <2>3 DEF Harmless, Sabotaged, r
<1>8. CASE Bytes
  <2>1. PICK n \in Lengths : call' = [op |-> "bytes", length |-> n]
    BY <1>8 DEF Bytes, Does, Return
  <2>2. \A k : Inside(CutBytes(k, r, n))
    BY <1>0, StreamAssumption, CutBytesInside
  <2> HIDE DEF r
  <2> QED BY <2>1, <2>2 DEF Harmless, Sabotaged, r
<1>9. CASE Align
  <2>1. call' = [op |-> "align"]
    BY <1>9 DEF Align, Does, Return
  <2>2. \A k : Inside(CutAlign(k, r))
    BY <1>0, CutAlignLives, LivesInside
  <2> HIDE DEF r
  <2> QED BY <2>1, <2>2 DEF Harmless, Sabotaged, r
<1>10. CASE End
  <2>1. call' = [op |-> "end"]
    BY <1>10 DEF End, Return
  <2>2. \A k \in Deleted["end"] : Inside(CutEnd(k, r))
    BY <1>0, CutEndInside
  <2>3. Sabotages(call') = Deleted["end"]
    BY <2>1 DEF Sabotages, Deleted
  <2> HIDE DEF r
  <2> QED BY <2>1, <2>2, <2>3 DEF Harmless, Sabotaged, r
<1>11. CASE Fail
  <2>1. PICK error \in CallerReasons : call' = [op |-> "fail", error |-> error]
    BY <1>11 DEF Fail, Does, Return
  <2>2. (IF error = "rejected" THEN "value_out_of_range" ELSE error) \in Reasons
    BY StreamAssumption DEF Reasons
  <2>3. Inside(Latch(r, IF error = "rejected" THEN "value_out_of_range" ELSE error))
    BY <1>0, <2>2, LatchLives, LivesInside
  <2> HIDE DEF r
  <2> QED BY <2>1, <2>3 DEF Harmless, Sabotaged, r
<1>12. CASE OpenObject
  <2>1. call' = [op |-> "open"]
    BY <1>12 DEF OpenObject, Return
  <2>2. Inside(r)
    BY <1>0 DEF Inside, Ready
  <2> HIDE DEF r
  <2> QED BY <2>1, <2>2 DEF Harmless, Sabotaged, r
<1>13. CASE CloseObject
  <2>1. PICK answer : call' = [op |-> "close", answer |-> answer]
    BY <1>13 DEF CloseObject, Return
  <2>2. ASSUME NEW k PROVE Inside(CutClose(k, r, answer))
    BY <1>0 DEF CutClose, Gate, Latch, Inside, Ready, Fields
  <2> HIDE DEF r
  <2> QED BY <2>1, <2>2 DEF Harmless, Sabotaged, r
<1> QED BY <1>1, <1>2, <1>3, <1>4, <1>5, <1>6, <1>7, <1>8, <1>9, <1>10, <1>11, <1>12, <1>13 DEF Next

\* No control makes the reader leave its packet or trip an assertion, whichever call of whichever
\* packet it is set for: what each deletes is a rule on what a packet may hold, and no more.
THEOREM ControlsStayInside == Spec => SafeWithoutIt
<1>1. Sound /\ [Next]_vars
        => [\A k \in Sabotages(call') :
              LET q == Sabotaged(k, call', Stream) IN q.at <= num_bits /\ q.trapped = trapped]_vars
  <2> SUFFICES ASSUME Sound, Next
               PROVE  \A k \in Sabotages(call') :
                        LET q == Sabotaged(k, call', Stream) IN q.at <= num_bits /\ q.trapped = trapped
    OBVIOUS
  <2>1. trapped = FALSE
    BY DEF Sound
  <2>2. Harmless(call')
    BY NextIsHarmless
  <2> QED BY <2>1, <2>2 DEF Harmless, Inside
<1> QED BY <1>1, AlwaysSound, PTL DEF Spec, SafeWithoutIt
=============================================================================
