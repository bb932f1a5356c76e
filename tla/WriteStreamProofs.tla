-------------------------- MODULE WriteStreamProofs --------------------------
(***************************************************************************)
(* What a measure promises of a write, for every buffer and every call: it *)
(* counts at least what is written, and traps on the same misuse, on       *)
(* nothing else, and before anything is written.                           *)
(*                                                                         *)
(* Every method is shown once, on a stream of either kind, to emit a       *)
(* number of bits that the call and the alignment alone decide, or else to *)
(* trap for want of room (Emits); methods that call methods add up.  On    *)
(* misuse it traps at once.  The two streams are compared only at the end. *)
(***************************************************************************)
EXTENDS WriteStream, NatFacts

\* The widths, for every step below.
LEMMA WidthFacts == ByteBits \in Nat \ {0} /\ MaxBits \in Nat \ {0} /\ Capacity \in Nat
BY FormatAssumption, WriteAssumption

USE WidthFacts

\* a stream between two methods
Stream(w) ==
  /\ w \in [measure : BOOLEAN, at : Nat, ones : SUBSET Int, trapped : BOOLEAN]
  /\ w.measure \/ w.at <= Capacity

\* a method takes the stream w to q by emitting n bits, when there is room for them
Emits(w, q, n) ==
  /\ Stream(q) /\ q.measure = w.measure
  /\ w.trapped => q = w
  /\ ~w.trapped /\ Fits(w, n) => ~q.trapped /\ q.at = w.at + n
  /\ ~w.trapped /\ ~Fits(w, n) => q.trapped /\ q.at >= w.at

-----------------------------------------------------------------------------
(* Methods that call methods *)

\* Emissions add up.
LEMMA EmitsAdd ==
  ASSUME NEW w, Stream(w), NEW n \in Nat, NEW q, Emits(w, q, n), NEW k \in Nat
  PROVE  \A r : Emits(q, r, k) => Emits(w, r, n + k)
<1> SUFFICES ASSUME NEW r, Emits(q, r, k) PROVE Emits(w, r, n + k)
  OBVIOUS
<1>1. w.at \in Nat /\ q.at \in Nat /\ r.at \in Nat
  BY DEF Emits, Stream
<1>2. CASE w.trapped
  BY <1>2 DEF Emits
<1>3. CASE ~w.trapped /\ ~Fits(w, n)
  <2>1. q.trapped /\ r = q /\ q.at >= w.at
    BY <1>3 DEF Emits
  <2>2. ~Fits(w, n + k)
    BY <1>1, <1>3 DEF Fits
  <2> QED BY <1>3, <2>1, <2>2 DEF Emits
<1>4. CASE ~w.trapped /\ Fits(w, n)
  <2>1. ~q.trapped /\ q.at = w.at + n /\ q.measure = w.measure
    BY <1>4 DEF Emits
  <2>2. Fits(q, k) <=> Fits(w, n + k)
    BY <1>1, <1>4, <2>1 DEF Fits
  <2> QED BY <1>1, <1>4, <2>1, <2>2 DEF Emits
<1> QED BY <1>2, <1>3, <1>4

\* A method that does nothing emits nothing.
LEMMA EmitsNothing ==
  ASSUME NEW w, Stream(w)
  PROVE  Emits(w, w, 0)
BY DEF Emits, Stream, Fits

\* An assertion that holds does nothing, and one that fails is a trap.
LEMMA Asserts ==
  ASSUME NEW w, Stream(w), NEW condition \in BOOLEAN
  PROVE  /\ Stream(Assert(w, condition)) /\ Stream(Trap(w)) /\ Trap(w).trapped
         /\ w.trapped \/ condition => Assert(w, condition) = w
         /\ ~w.trapped /\ ~condition => Assert(w, condition) = Trap(w)
BY DEF Assert, Trap, Stream

\* Bits are emitted where there is room for them.
LEMMA EmitEmits ==
  ASSUME NEW w, Stream(w), ~w.trapped, NEW bits \in SUBSET Int, NEW n \in Nat, Fits(w, n)
  PROVE  LET q == Emit(w, bits, n) IN
         Stream(q) /\ q.measure = w.measure /\ ~q.trapped /\ q.at = w.at + n
<1>1. {w.at + i : i \in bits} \in SUBSET Int
  BY DEF Stream
<1> DEFINE s == {w.at + i : i \in bits}
<1> HIDE DEF s
<1>2. (IF w.measure THEN {} ELSE w.ones \cup s) \in SUBSET Int
  BY <1>1 DEF Stream, s
<1> DEFINE o == IF w.measure THEN {} ELSE w.ones \cup s
<1> HIDE DEF o
<1>3. Emit(w, bits, n) = [w EXCEPT !.at = w.at + n, !.ones = o]
  BY DEF Emit, s, o
<1>4. w.at + n \in Nat /\ (w.measure \/ w.at + n <= Capacity)
  BY DEF Stream, Fits
<1> QED BY <1>2, <1>3, <1>4 DEF Stream, o

\* A method that asserts that there is room, then emits.
LEMMA AssertEmits ==
  ASSUME NEW w, Stream(w), NEW bits \in SUBSET Int, NEW n \in Nat, NEW condition \in BOOLEAN,
         condition <=> Fits(w, n)
  PROVE  Emits(w, Emit(Assert(w, condition), bits, n), n)
<1>1. CASE w.trapped
  <2>1. Emit(Assert(w, condition), bits, n) = w
    BY <1>1, Asserts DEF Emit
  <2> QED BY <1>1, <2>1 DEF Emits
<1>2. CASE ~w.trapped /\ condition
  <2>1. Assert(w, condition) = w /\ Fits(w, n)
    BY <1>2, Asserts
  <2> DEFINE q == Emit(w, bits, n)
  <2>2. Stream(q) /\ q.measure = w.measure /\ ~q.trapped /\ q.at = w.at + n
    BY <1>2, <2>1, EmitEmits
  <2> HIDE DEF q
  <2>3. Emits(w, q, n)
    BY <1>2, <2>1, <2>2 DEF Emits
  <2> QED BY <2>1, <2>3 DEF q
<1>3. CASE ~w.trapped /\ ~condition
  <2>1. Assert(w, condition) = Trap(w) /\ Stream(Trap(w))
    BY <1>3, Asserts
  <2>2. Trap(w).trapped /\ Trap(w).at = w.at /\ Trap(w).measure = w.measure
    BY DEF Trap, Stream
  <2>3. Emit(Trap(w), bits, n) = Trap(w)
    BY <2>2 DEF Emit
  <2>4. w.at \in Nat
    BY DEF Stream
  <2> QED BY <1>3, <2>1, <2>2, <2>3, <2>4 DEF Emits
<1> QED BY <1>1, <1>2, <1>3

-----------------------------------------------------------------------------
(* The primitives *)

\* serialize_bits of a value that its bits hold.
LEMMA BitsEmit ==
  ASSUME NEW w, Stream(w), NEW n \in 1..MaxBits, NEW v, v < 2^n
  PROVE  Emits(w, SerializeBits(w, v, n), n)
<1>1. BitsOf(v, n) \in SUBSET Int
  BY DEF BitsOf
<1>2. (n \in 1..MaxBits /\ v < 2^n /\ Fits(w, n)) <=> Fits(w, n)
  OBVIOUS
<1>3. (n \in 1..MaxBits /\ v < 2^n /\ Fits(w, n)) \in BOOLEAN
  OBVIOUS
<1>4. n \in Nat
  OBVIOUS
<1> QED BY <1>1, <1>2, <1>3, <1>4, AssertEmits DEF SerializeBits

\* A width out of range, and a value that has more bits, are misuse.
LEMMA BitsTrap ==
  ASSUME NEW w, Stream(w), ~w.trapped, NEW n, NEW v, ~(n \in 1..MaxBits /\ v < 2^n)
  PROVE  SerializeBits(w, v, n) = Trap(w)
<1>1. Assert(w, n \in 1..MaxBits /\ v < 2^n /\ Fits(w, n)) = Trap(w)
  BY DEF Assert
<1>2. Trap(w).trapped
  BY Asserts
<1> QED BY <1>1, <1>2 DEF SerializeBits, Emit

\* serialize_align, and the byte boundary it leaves a write on.
LEMMA AlignEmits ==
  ASSUME NEW w, Stream(w)
  PROVE  LET q == SerializeAlign(w) IN
         /\ AlignBits(w) \in 0 .. ByteBits - 1
         /\ Emits(w, q, AlignBits(w))
         /\ q.trapped \/ q.measure \/ q.at % ByteBits = 0
<1> DEFINE n == AlignBits(w)
           q == SerializeAlign(w)
<1>1. w.at \in Nat
  BY DEF Stream
<1>2. n \in 0 .. ByteBits - 1 /\ (w.measure \/ (w.at + n) % ByteBits = 0)
  BY <1>1, Aligned DEF AlignBits
<1> HIDE DEF n
<1>3. Emits(w, q, n)
  <2>1. Fits(w, n) \in BOOLEAN
    BY DEF Fits, Stream
  <2>2. n \in Nat
    BY <1>2
  <2> QED BY <2>1, <2>2, AssertEmits DEF SerializeAlign, n
<1>4. q.trapped \/ q.measure \/ q.at % ByteBits = 0
  <2>1. SUFFICES ASSUME ~q.trapped, ~q.measure PROVE q.at % ByteBits = 0
    OBVIOUS
  <2> HIDE DEF q
  <2>2. ~w.trapped /\ Fits(w, n) /\ q.at = w.at + n
    BY <1>3, <2>1 DEF Emits
  <2> QED BY <1>2, <1>3, <2>1, <2>2 DEF Emits
<1> QED BY <1>2, <1>3, <1>4 DEF n

\* write_bytes, on a byte boundary.
LEMMA BytesEmit ==
  ASSUME NEW w, Stream(w), w.trapped \/ w.measure \/ w.at % ByteBits = 0, NEW s, Len(s) \in Nat,
         DOMAIN s = 1 .. Len(s)
  PROVE  Emits(w, WriteBytes(w, s), Len(s) * ByteBits)
<1> DEFINE n == Len(s) * ByteBits
           ok == w.at % ByteBits = 0 /\ w.at + n <= Capacity
           all == {(k-1) * ByteBits + i : k \in DOMAIN s, i \in 0 .. ByteBits - 1}
           bits == {b \in all : b % ByteBits \in BitsOf(s[b \div ByteBits + 1], ByteBits)}
<1>1. n \in Nat
  OBVIOUS
<1>2. bits \in SUBSET Int
  <2>1. all \in SUBSET Int
    OBVIOUS
  <2> QED BY <2>1
<1>3. WriteBytes(w, s) = Emit(Assert(w, w.measure \/ ok), bits, n)
  BY DEF WriteBytes
<1>4. CASE w.trapped
  <2>1. WriteBytes(w, s) = w
    BY <1>3, <1>4 DEF Emit, Assert
  <2> QED BY <1>4, <2>1 DEF Emits
<1>5. CASE ~w.trapped
  <2>1. (w.measure \/ ok) \in BOOLEAN /\ ((w.measure \/ ok) <=> Fits(w, n))
    BY <1>5 DEF Fits, Stream
  <2> HIDE DEF bits, ok, n
  <2> QED BY <1>1, <1>2, <1>3, <2>1, AssertEmits DEF n
<1> QED BY <1>4, <1>5

-----------------------------------------------------------------------------
(* Values of many groups *)

\* bits that the range of an integer takes
IntCost(min, max) == IF min = max THEN 0 ELSE BitsRequired(max - min)

\* A group below the top one always fits its bits.
LEMMA LowGroups ==
  ASSUME NEW w, Stream(w), NEW v \in Nat, NEW g \in Nat
  PROVE  Emits(w, Group(w, v, g, MaxBits), MaxBits)
<1> DEFINE d == 2^(g * MaxBits)
           p == 2^MaxBits
<1>1. d \in Nat /\ d > 0 /\ p \in Nat /\ p > 0
  <2>1. g * MaxBits \in Nat
    OBVIOUS
  <2> QED BY <2>1, PowerAbove
<1> HIDE DEF d, p
<1>2. v \div d \in Nat
  BY <1>1
<1>3. (v \div d) % p < p
  BY <1>1, <1>2
<1> QED BY <1>3, BitsEmit DEF Group, d, p

\* The top group of a value fits the bits that are left for it.
LEMMA TopGroup ==
  ASSUME NEW w, Stream(w), NEW g \in Nat, NEW n \in 1..MaxBits, NEW v \in Nat,
         v < 2^(g * MaxBits + n)
  PROVE  Emits(w, Group(w, v, g, n), n)
<1> DEFINE d == 2^(g * MaxBits)
           p == 2^MaxBits
           t == 2^n
<1>1. d \in Nat /\ d > 0 /\ p \in Nat /\ p > 0 /\ t \in Nat /\ t > 0
  <2>1. g * MaxBits \in Nat /\ n \in Nat
    OBVIOUS
  <2> QED BY <2>1, PowerAbove
<1>2. v < d * t
  <2>1. g * MaxBits \in Nat /\ n \in Nat
    OBVIOUS
  <2> QED BY <2>1, PowerSum
<1>3. t <= p
  BY PowerOrdered
<1> HIDE DEF d, p, t
<1>4. v \div d \in Nat /\ v \div d < t
  <2> DEFINE q == v \div d
             r == v % d
  <2>1. q \in Nat /\ r \in Nat /\ v = q * d + r
    BY <1>1
  <2> HIDE DEF q, r
  <2>2. q >= t => (q - t) * d >= 0
    BY <1>1, <2>1
  <2>3. (q - t) * d = q * d - d * t
    BY <1>1, <2>1
  <2>4. q < t
    BY <1>1, <1>2, <2>1, <2>2, <2>3
  <2> QED BY <2>1, <2>4 DEF q
<1>5. (v \div d) % p < t
  <2> DEFINE q == v \div d
  <2> HIDE DEF q
  <2>1. q \in Nat /\ q < t
    BY <1>4 DEF q
  <2>2. q % p = q
    BY <1>1, <1>3, <2>1
  <2> QED BY <2>1, <2>2 DEF q
<1> QED BY <1>5, BitsEmit DEF Group, d, p, t

\* serialize_offset128, and the groups of the wide integers, emit the bits they are asked for.
LEMMA OffsetEmits ==
  ASSUME NEW w, Stream(w), NEW n \in 1 .. 4*MaxBits, NEW v \in Nat, v < 2^n
  PROVE  Emits(w, SerializeOffset(w, v, n), n)
<1>1. /\ Emits(w, Low(w, v), MaxBits) /\ Stream(Low(w, v))
      /\ Emits(w, Low2(w, v), MaxBits + MaxBits) /\ Stream(Low2(w, v))
      /\ Emits(w, Low3(w, v), MaxBits + MaxBits + MaxBits) /\ Stream(Low3(w, v))
  <2>1. Emits(w, Low(w, v), MaxBits) /\ Stream(Low(w, v))
    BY LowGroups DEF Low, Emits
  <2>2. Emits(w, Low2(w, v), MaxBits + MaxBits) /\ Stream(Low2(w, v))
    <3>1. Emits(Low(w, v), Low2(w, v), MaxBits)
      BY <2>1, LowGroups DEF Low2
    <3>2. Emits(w, Low2(w, v), MaxBits + MaxBits)
      BY <2>1, <3>1, EmitsAdd
    <3> QED BY <3>2 DEF Emits
  <2>3. Emits(w, Low3(w, v), MaxBits + MaxBits + MaxBits) /\ Stream(Low3(w, v))
    <3>1. Emits(Low2(w, v), Low3(w, v), MaxBits)
      BY <2>2, LowGroups DEF Low3
    <3>2. MaxBits + MaxBits \in Nat
      OBVIOUS
    <3>3. Emits(w, Low3(w, v), (MaxBits + MaxBits) + MaxBits)
      BY <2>2, <3>1, <3>2, EmitsAdd
    <3> QED BY <3>3 DEF Emits
  <2> QED BY <2>1, <2>2, <2>3
<1>2. CASE n <= MaxBits
  <2>1. n \in 1..MaxBits /\ 0 * MaxBits + n = n
    BY <1>2
  <2>2. Emits(w, Group(w, v, 0, n), n)
    BY <2>1, TopGroup
  <2> QED BY <1>2, <2>2 DEF SerializeOffset
<1>3. CASE n > MaxBits /\ n <= 2*MaxBits
  <2> DEFINE k == n - MaxBits
  <2>1. k \in 1..MaxBits /\ 1 * MaxBits + k = n /\ MaxBits + k = n
    BY <1>3
  <2> HIDE DEF k
  <2>2. Emits(Low(w, v), Group(Low(w, v), v, 1, k), k)
    BY <1>1, <2>1, TopGroup
  <2>3. Emits(w, Group(Low(w, v), v, 1, k), n)
    BY <1>1, <2>1, <2>2, EmitsAdd
  <2>4. SerializeOffset(w, v, n) = Group(Low(w, v), v, 1, k)
    BY <1>3 DEF SerializeOffset, k
  <2> QED BY <2>3, <2>4
<1>4. CASE n > 2*MaxBits /\ n <= 3*MaxBits
  <2> DEFINE k == n - 2*MaxBits
  <2>1. /\ k \in 1..MaxBits /\ 2 * MaxBits + k = n /\ (MaxBits + MaxBits) + k = n
        /\ MaxBits + MaxBits \in Nat
    BY <1>4
  <2> HIDE DEF k
  <2>2. Emits(Low2(w, v), Group(Low2(w, v), v, 2, k), k)
    BY <1>1, <2>1, TopGroup
  <2>3. Emits(w, Group(Low2(w, v), v, 2, k), n)
    BY <1>1, <2>1, <2>2, EmitsAdd
  <2>4. SerializeOffset(w, v, n) = Group(Low2(w, v), v, 2, k)
    BY <1>4 DEF SerializeOffset, k
  <2> QED BY <2>3, <2>4
<1>5. CASE n > 3*MaxBits
  <2> DEFINE k == n - 3*MaxBits
  <2>1. /\ k \in 1..MaxBits /\ 3 * MaxBits + k = n /\ (MaxBits + MaxBits + MaxBits) + k = n
        /\ MaxBits + MaxBits + MaxBits \in Nat
    BY <1>5
  <2> HIDE DEF k
  <2>2. Emits(Low3(w, v), Group(Low3(w, v), v, 3, k), k)
    BY <1>1, <2>1, TopGroup
  <2>3. Emits(w, Group(Low3(w, v), v, 3, k), n)
    BY <1>1, <2>1, <2>2, EmitsAdd
  <2>4. SerializeOffset(w, v, n) = Group(Low3(w, v), v, 3, k)
    BY <1>5 DEF SerializeOffset, k
  <2> QED BY <2>3, <2>4
<1> QED BY <1>2, <1>3, <1>4, <1>5

\* serialize_int and its wider kinds, of a value in range.
LEMMA IntEmits ==
  ASSUME NEW w, Stream(w), NEW min \in Int, NEW max \in Int, NEW v \in min..max,
         min < max => BitsRequired(max - min) \in 1 .. 4*MaxBits
  PROVE  IntCost(min, max) \in Nat /\ Emits(w, SerializeInt(w, v, min, max), IntCost(min, max))
<1>1. CASE min = max
  <2>1. SerializeInt(w, v, min, max) = w /\ IntCost(min, max) = 0
    BY <1>1 DEF SerializeInt, IntCost
  <2> QED BY <2>1, EmitsNothing
<1>2. CASE min # max
  <2> DEFINE n == BitsRequired(max - min)
  <2>1. min < max /\ max - min \in Nat /\ v - min \in Nat /\ v - min <= max - min
    BY <1>2
  <2>2. n \in 1 .. 4*MaxBits /\ IntCost(min, max) = n
    BY <1>2, <2>1 DEF IntCost
  <2>3. v - min < 2^n
    <3> DEFINE p == 2^n
    <3>1. max - min < p
      BY <2>1, BitsRequiredHolds
    <3>2. p \in Nat
      <4>1. n \in Nat
        BY <2>2
      <4> QED BY <4>1, PowerAbove
    <3> HIDE DEF p
    <3>3. v - min < p
      BY <2>1, <3>1, <3>2
    <3> QED BY <3>3 DEF p
  <2>4. Assert(Assert(w, min <= max), v \in min..max) = w
    BY <2>1 DEF Assert
  <2>5. SerializeInt(w, v, min, max) = IF w.trapped THEN w ELSE SerializeOffset(w, v - min, n)
    BY <1>2, <2>4 DEF SerializeInt
  <2> HIDE DEF n
  <2>6. Emits(w, SerializeOffset(w, v - min, n), n)
    BY <2>1, <2>2, <2>3, OffsetEmits
  <2>7. CASE w.trapped
    <3>1. Emits(w, w, n)
      BY <2>7 DEF Emits
    <3> QED BY <2>2, <2>5, <2>7, <3>1
  <2>8. CASE ~w.trapped
    BY <2>2, <2>5, <2>6, <2>8
  <2> QED BY <2>7, <2>8
<1> QED BY <1>1, <1>2

\* An assertion that fails first of all traps.
LEMMA TrapsFirst ==
  ASSUME NEW w, Stream(w), ~w.trapped
  PROVE  /\ Trap(w).trapped /\ \A condition : Assert(Trap(w), condition) = Trap(w)
         /\ \A condition : ~condition => Assert(w, condition) = Trap(w)
         /\ \A v, n : SerializeBits(Trap(w), v, n) = Trap(w)
<1>1. Trap(w).trapped
  BY Asserts
<1> QED BY <1>1 DEF Assert, SerializeBits, Emit

\* Reversed bounds, and a value outside of a range, are misuse.
LEMMA IntTraps ==
  ASSUME NEW w, Stream(w), ~w.trapped, NEW min \in Int, NEW max \in Int, NEW v \in Int,
         min # max, ~(min <= max /\ v \in min..max)
  PROVE  SerializeInt(w, v, min, max) = Trap(w)
<1>1. Assert(Assert(w, min <= max), v \in min..max) = Trap(w)
  <2>1. CASE min <= max
    <3>1. Assert(w, min <= max) = w
      BY <2>1 DEF Assert
    <3> QED BY <2>1, <3>1, TrapsFirst
  <2>2. CASE ~(min <= max)
    BY <2>2, TrapsFirst
  <2> QED BY <2>1, <2>2
<1> QED BY <1>1, TrapsFirst DEF SerializeInt

\* serialize_bits64 of a value that its bits hold, and of any other.
LEMMA Bits64Emits ==
  ASSUME NEW w, Stream(w), NEW n, NEW v \in Nat
  PROVE  /\ n \in 1 .. 2*MaxBits /\ v < 2^n => Emits(w, SerializeBits64(w, v, n), n)
         /\ ~w.trapped /\ ~(n \in 1 .. 2*MaxBits /\ v < 2^n) => SerializeBits64(w, v, n) = Trap(w)
<1>1. ASSUME n \in 1 .. 2*MaxBits /\ v < 2^n PROVE Emits(w, SerializeBits64(w, v, n), n)
  <2>1. n \in 1 .. 4*MaxBits
    BY <1>1
  <2>2. Emits(w, SerializeOffset(w, v, n), n)
    BY <1>1, <2>1, OffsetEmits
  <2>3. Assert(w, n \in 1 .. 2*MaxBits /\ v < 2^n) = w
    BY <1>1 DEF Assert
  <2>4. SerializeBits64(w, v, n) = IF w.trapped THEN w ELSE SerializeOffset(w, v, n)
    BY <2>3 DEF SerializeBits64
  <2>5. w.trapped => Emits(w, w, n)
    BY DEF Emits
  <2> QED BY <2>2, <2>4, <2>5
<1>2. ASSUME ~w.trapped, ~(n \in 1 .. 2*MaxBits /\ v < 2^n) PROVE SerializeBits64(w, v, n) = Trap(w)
  BY <1>2, TrapsFirst DEF SerializeBits64
<1> QED BY <1>1, <1>2

\* serialize_uint128: two halves.
LEMMA U128Emits ==
  ASSUME NEW w, Stream(w), NEW v \in 0 .. 2^(4*MaxBits) - 1
  PROVE  Emits(w, SerializeU128(w, v), 4*MaxBits)
<1> DEFINE p == 2^(2*MaxBits)
           n == 2*MaxBits
<1>1. p \in Nat /\ p > 0 /\ n \in Nat /\ n \in 1 .. 2*MaxBits
  BY PowerAbove
<1>2. v \in Nat /\ v < p * p
  <2>1. n + n = 4*MaxBits
    OBVIOUS
  <2>2. 2^(n+n) = p * p
    BY <1>1, PowerSum
  <2> DEFINE u == 2^(4*MaxBits)
  <2>3. u = p * p /\ v \in 0 .. u - 1
    BY <2>1, <2>2
  <2> HIDE DEF u, p
  <2>4. u \in Nat
    BY <1>1, <2>3
  <2> QED BY <2>3, <2>4
<1> HIDE DEF p
<1>3. v % p \in Nat /\ v % p < p /\ v \div p \in Nat /\ v \div p < p
  <2> DEFINE q == v \div p
             r == v % p
  <2>1. q \in Nat /\ r \in Nat /\ r < p /\ v = q * p + r
    BY <1>1, <1>2
  <2> HIDE DEF q, r
  <2>2. q >= p => (q - p) * p >= 0
    BY <1>1, <2>1
  <2>3. (q - p) * p = q * p - p * p
    BY <1>1, <2>1
  <2>4. q < p
    BY <1>1, <1>2, <2>1, <2>2, <2>3
  <2> QED BY <2>1, <2>4 DEF q, r
<1> DEFINE lo == SerializeBits64(w, v % p, n)
           hi == SerializeBits64(lo, v \div p, n)
<1>4. Emits(w, lo, n)
  BY <1>1, <1>3, Bits64Emits DEF p
<1>5. Stream(lo)
  BY <1>4 DEF Emits
<1> HIDE DEF lo
<1>6. Emits(lo, hi, n)
  BY <1>1, <1>3, <1>5, Bits64Emits DEF p
<1>7. Emits(w, hi, n + n)
  BY <1>1, <1>4, <1>6, EmitsAdd
<1>8. n + n = 4*MaxBits
  OBVIOUS
<1>9. SerializeU128(w, v) = hi
  BY DEF SerializeU128, lo, p
<1> QED BY <1>7, <1>8, <1>9

\* A float: finite, or misuse.
LEMMA FloatEmits ==
  ASSUME NEW w, Stream(w), NEW n \in 1 .. 2*MaxBits, NEW v \in 0 .. 2^n - 1, NEW fraction
  PROVE  /\ Finite(v, n, fraction) => Emits(w, SerializeFloat(w, v, n, fraction), n)
         /\ ~w.trapped /\ ~Finite(v, n, fraction) => SerializeFloat(w, v, n, fraction) = Trap(w)
<1>1. v \in Nat /\ v < 2^n
  <2> DEFINE p == 2^n
  <2>1. p \in Nat /\ v \in 0 .. p - 1
    BY PowerAbove
  <2> HIDE DEF p
  <2>2. v \in Nat /\ v < p
    BY <2>1
  <2> QED BY <2>2 DEF p
<1>2. ASSUME Finite(v, n, fraction) PROVE Emits(w, SerializeFloat(w, v, n, fraction), n)
  <2>1. Assert(w, Finite(v, n, fraction)) = w
    BY <1>2 DEF Assert
  <2> QED BY <1>1, <2>1, Bits64Emits DEF SerializeFloat
<1>3. ASSUME ~w.trapped, ~Finite(v, n, fraction) PROVE SerializeFloat(w, v, n, fraction) = Trap(w)
  BY <1>3, TrapsFirst DEF SerializeFloat, SerializeBits64
<1> QED BY <1>2, <1>3

\* A compressed float of declared quanta is rounded and clamped to a code that its bits hold;
\* anything else is misuse.
LEMMA CompressedEmits ==
  ASSUME NEW w, Stream(w), NEW f, f.max \in Nat, f.declared => BitsRequired(f.max) \in 1..MaxBits,
         NEW finite, NEW halves \in Int
  PROVE  LET fine == f.declared /\ finite /\ f.top = f.max
             q == SerializeCompressedFloat(w, f, finite, halves)
         IN  /\ fine => BitsRequired(f.max) \in Nat /\ Emits(w, q, BitsRequired(f.max))
             /\ ~w.trapped /\ ~fine => q = Trap(w)
<1> DEFINE fine == f.declared /\ finite /\ f.top = f.max
           n == BitsRequired(f.max)
           code == Quantum(halves, f.max)
<1>1. code \in Nat /\ code <= f.max
  <2>1. halves >= 0 => (halves + 1) \div 2 \in Nat
    OBVIOUS
  <2> QED BY <2>1 DEF Quantum
<1>2. code < 2^n
  <2> DEFINE p == 2^n
  <2>1. f.max < p /\ p \in Nat
    BY BitsRequiredHolds, PowerAbove
  <2> HIDE DEF p, code
  <2>2. code < p
    BY <1>1, <2>1
  <2> QED BY <2>2 DEF p
<1> HIDE DEF code, n
<1>3. ASSUME fine PROVE n \in Nat /\ Emits(w, SerializeCompressedFloat(w, f, finite, halves), n)
  <2>1. n \in 1..MaxBits
    BY <1>3 DEF n
  <2>2. Assert(w, fine) = w
    BY <1>3 DEF Assert
  <2>3. Emits(w, SerializeBits(w, code, n), n)
    BY <1>2, <2>1, BitsEmit
  <2> QED BY <2>1, <2>2, <2>3 DEF SerializeCompressedFloat, code, n
<1>4. ASSUME ~w.trapped, ~fine PROVE SerializeCompressedFloat(w, f, finite, halves) = Trap(w)
  BY <1>4, TrapsFirst DEF SerializeCompressedFloat
<1> QED BY <1>3, <1>4 DEF n

\* A fixed point value: in range of a declared format, or misuse.
LEMMA FixedEmits ==
  ASSUME NEW w, Stream(w), NEW f, NEW v \in Int,
         f.min \in Int, f.max \in Int, f.fraction \in Nat,
         LET min == f.min * 2^f.fraction
             max == f.max * 2^f.fraction
         IN  FixedDeclared(f) /\ min < max => BitsRequired(max - min) \in 1 .. 4*MaxBits
  PROVE  LET min == f.min * 2^f.fraction
             max == f.max * 2^f.fraction
             fine == FixedDeclared(f) /\ v \in min..max
             q == SerializeFixed(w, v, f)
         IN  /\ fine => IntCost(min, max) \in Nat /\ Emits(w, q, IntCost(min, max))
             /\ ~w.trapped /\ ~fine => q = Trap(w)
<1> DEFINE min == f.min * 2^f.fraction
           max == f.max * 2^f.fraction
           fine == FixedDeclared(f) /\ v \in min..max
<1>1. min \in Int /\ max \in Int
  <2> DEFINE p == 2^f.fraction
  <2>1. p \in Nat
    BY PowerAbove
  <2> HIDE DEF p
  <2>2. f.min * p \in Int /\ f.max * p \in Int
    BY <2>1
  <2> QED BY <2>2 DEF p
<1>2. FixedDeclared(f) /\ min < max => BitsRequired(max - min) \in 1 .. 4*MaxBits
  OBVIOUS
<1>3. SerializeFixed(w, v, f) = LET q == Assert(w, FixedDeclared(f) /\ v \in min..max)
                                IN  IF q.trapped THEN q ELSE SerializeInt(q, v, min, max)
  BY DEF SerializeFixed
<1> HIDE DEF min, max
<1>4. ASSUME fine
      PROVE  IntCost(min, max) \in Nat /\ Emits(w, SerializeFixed(w, v, f), IntCost(min, max))
  <2>1. Assert(w, FixedDeclared(f) /\ v \in min..max) = w
    BY <1>4 DEF Assert
  <2>2. IntCost(min, max) \in Nat /\ Emits(w, SerializeInt(w, v, min, max), IntCost(min, max))
    BY <1>1, <1>2, <1>4, IntEmits
  <2>3. w.trapped => Emits(w, w, IntCost(min, max))
    BY DEF Emits
  <2> QED BY <1>3, <2>1, <2>2, <2>3
<1>5. ASSUME ~w.trapped, ~fine PROVE SerializeFixed(w, v, f) = Trap(w)
  BY <1>3, <1>5, TrapsFirst
<1> QED BY <1>4, <1>5 DEF min, max

-----------------------------------------------------------------------------
(* Relative integers *)

\* the tiers that take a difference, and the one its value is sent in
TiersOf(gap) == {t \in 1 .. Len(Tiers) : gap <= Tiers[t]}
TierOf(gap) == CHOOSE t \in TiersOf(gap) : \A u \in TiersOf(gap) : t <= u

\* bits that the difference takes
RelativeSends(gap) ==
  IF gap = 1 THEN 1
  ELSE IF TiersOf(gap) # {} THEN TierOf(gap) + 1 + IntCost(TierFirst(TierOf(gap)), Tiers[TierOf(gap)])
  ELSE Len(Tiers) + 1 + MaxBits

\* The rungs of the ladder that answer no, until the room ends.
LEMMA RungsEmit ==
  ASSUME NEW w, Stream(w), NEW n \in Nat
  PROVE  Emits(w, Rungs(w, n), n)
<1>1. w.at \in Nat /\ w.measure \in BOOLEAN /\ w.trapped \in BOOLEAN
  BY DEF Stream
<1>2. CASE w.trapped
  <2>1. Rungs(w, n) = w
    BY <1>2 DEF Rungs, Emit, Assert
  <2> QED BY <1>2, <2>1 DEF Emits
<1>3. CASE ~w.trapped /\ Fits(w, n)
  <2> DEFINE q == Emit(w, {}, n)
  <2>1. Stream(q) /\ q.measure = w.measure /\ ~q.trapped /\ q.at = w.at + n
    BY <1>3, EmitEmits
  <2>2. Rungs(w, n) = q
    BY <1>3 DEF Rungs, Assert
  <2> HIDE DEF q
  <2> QED BY <1>3, <2>1, <2>2 DEF Emits
<1>4. CASE ~w.trapped /\ ~Fits(w, n)
  <2> DEFINE room == Capacity - w.at
             q == Emit(w, {}, room)
  <2>1. room \in Nat /\ room # n /\ Fits(w, room)
    BY <1>1, <1>4 DEF Fits, Stream
  <2>2. Rungs(w, n) = Assert(q, FALSE)
    BY <1>4, <2>1 DEF Rungs
  <2> HIDE DEF room
  <2>3. Stream(q) /\ q.measure = w.measure /\ ~q.trapped /\ q.at = w.at + room
    BY <1>4, <2>1, EmitEmits
  <2> HIDE DEF q
  <2>4. Assert(q, FALSE) = Trap(q) /\ Stream(Trap(q)) /\ Trap(q).trapped
    BY <2>3, Asserts
  <2>5. Trap(q).at = q.at /\ Trap(q).measure = q.measure
    BY <2>3 DEF Trap, Stream
  <2>6. Trap(q).at >= w.at
    BY <1>1, <2>1, <2>3, <2>5
  <2> QED BY <1>4, <2>2, <2>3, <2>4, <2>5, <2>6 DEF Emits
<1> QED BY <1>1, <1>2, <1>3, <1>4

\* One yes after n rungs of no.
LEMMA YesEmits ==
  ASSUME NEW w, Stream(w), NEW n \in Nat
  PROVE  LET q == SerializeBits(Rungs(w, n), 1, 1) IN Stream(q) /\ Emits(w, q, n + 1)
<1> DEFINE r == Rungs(w, n)
<1>1. Emits(w, r, n) /\ Stream(r)
  BY RungsEmit DEF Emits
<1> HIDE DEF r
<1>2. 1 < 2^1 /\ 1 \in 1..MaxBits
  BY PowerAbove
<1>3. Emits(r, SerializeBits(r, 1, 1), 1)
  BY <1>1, <1>2, BitsEmit
<1>4. Emits(w, SerializeBits(r, 1, 1), n + 1)
  BY <1>1, <1>3, EmitsAdd
<1> QED BY <1>4 DEF r, Emits

\* The first tier that takes a difference takes it above its own first difference.
LEMMA FirstTier ==
  ASSUME NEW gap \in Nat, gap > 1, TiersOf(gap) # {}
  PROVE  LET first == TierOf(gap) IN
         /\ first \in 1 .. Len(Tiers) /\ TierFirst(first) \in Nat /\ Tiers[first] \in Nat
         /\ gap \in TierFirst(first) .. Tiers[first]
<1> DEFINE tiers == TiersOf(gap)
           first == TierOf(gap)
<1>1. Len(Tiers) \in Nat /\ \A t \in 1 .. Len(Tiers) : Tiers[t] \in Nat
  <2>1. Tiers \in Seq(Nat)
    BY FormatAssumption
  <2> QED BY <2>1
<1>2. tiers \subseteq Nat
  BY <1>1 DEF TiersOf
<1>3. \E t \in tiers : \A u \in tiers : t <= u
  BY <1>2, LeastNat
<1>4. first \in tiers /\ \A u \in tiers : first <= u
  BY <1>3 DEF TierOf
<1> HIDE DEF first
<1>5. first \in 1 .. Len(Tiers) /\ gap <= Tiers[first]
  BY <1>4 DEF TiersOf
<1>6. TierFirst(first) \in Nat /\ TierFirst(first) <= gap
  <2>1. CASE first = 1
    BY <2>1 DEF TierFirst
  <2>2. CASE first # 1
    <3>1. first - 1 \in 1 .. Len(Tiers) /\ ~(first <= first - 1)
      BY <1>5, <2>2
    <3>2. Tiers[first-1] \in Nat /\ ~(gap <= Tiers[first-1])
      BY <1>1, <1>4, <3>1 DEF TiersOf
    <3> QED BY <2>2, <3>2 DEF TierFirst
  <2> QED BY <2>1, <2>2
<1>7. Tiers[first] \in Nat
  BY <1>1, <1>5
<1> QED BY <1>5, <1>6, <1>7 DEF first

\* serialize_int_relative of an increasing value that is not negative, and of any other.
LEMMA RelativeEmits ==
  ASSUME NEW w, Stream(w), NEW previous \in Int, NEW current \in -(2^(MaxBits-1)) .. MaxInt
  PROVE  LET gap == current - previous
             fine == 0 <= previous /\ previous < current
             q == SerializeIntRelative(w, previous, current)
         IN  /\ fine => RelativeSends(gap) \in Nat /\ Emits(w, q, RelativeSends(gap))
             /\ ~w.trapped /\ ~fine => q = Trap(w)
<1> DEFINE gap == current - previous
           tiers == TiersOf(gap)
           first == TierOf(gap)
           fine == 0 <= previous /\ previous < current
           s == Assert(w, previous >= 0 /\ previous < current)
           q == SerializeIntRelative(w, previous, current)
<1>1. current \in Int /\ current < 2^MaxBits
  <2> DEFINE h == 2^(MaxBits-1)
  <2>1. MaxBits - 1 \in Nat /\ (MaxBits - 1) + 1 = MaxBits
    OBVIOUS
  <2>2. h \in Nat /\ 2^MaxBits = 2 * h
    BY <2>1, PowerAbove, PowerStep
  <2>3. current \in -h .. h - 1
    BY DEF MaxInt
  <2> HIDE DEF h
  <2>4. current \in Int /\ current < 2 * h
    BY <2>2, <2>3
  <2> QED BY <2>2, <2>4
<1>2. /\ s.trapped => q = s
      /\ ~s.trapped /\ gap = 1 => q = SerializeBits(s, 1, 1)
      /\ ~s.trapped /\ gap > 1 /\ tiers # {} =>
           q = SerializeInt(SerializeBits(Rungs(s, first), 1, 1), gap, TierFirst(first), Tiers[first])
      /\ ~s.trapped /\ gap # 1 /\ ~(gap > 1 /\ tiers # {}) =>
           q = SerializeBits(Rungs(s, Len(Tiers) + 1), current, MaxBits)
  BY DEF SerializeIntRelative, TiersOf, TierOf
<1>3. RelativeSends(gap) = IF gap = 1 THEN 1
                           ELSE IF tiers # {} THEN first + 1 + IntCost(TierFirst(first), Tiers[first])
                           ELSE Len(Tiers) + 1 + MaxBits
  BY DEF RelativeSends
<1>4. Len(Tiers) \in Nat
  BY FormatAssumption
<1>5. ASSUME gap \in Nat, gap > 1, tiers # {}
      PROVE  /\ first \in 1 .. Len(Tiers) /\ TierFirst(first) \in Nat /\ Tiers[first] \in Nat
             /\ gap \in TierFirst(first) .. Tiers[first]
             /\ TierFirst(first) < Tiers[first] =>
                  BitsRequired(Tiers[first] - TierFirst(first)) \in 1 .. 4*MaxBits
  BY <1>5, FirstTier, FormatWidths
<1> HIDE DEF q, tiers, first
<1>6. ASSUME fine PROVE RelativeSends(gap) \in Nat /\ Emits(w, q, RelativeSends(gap))
  <2>1. gap \in Nat /\ gap >= 1
    BY <1>1, <1>6
  <2>2. s = w
    BY <1>6 DEF Assert
  <2> HIDE DEF s, gap
  <2>3. CASE w.trapped
    <3>1. q = w /\ Emits(w, w, RelativeSends(gap))
      BY <1>2, <2>2, <2>3 DEF Emits
    <3>2. tiers # {} /\ gap # 1 => first \in Nat /\ IntCost(TierFirst(first), Tiers[first]) \in Nat
      <4> SUFFICES ASSUME tiers # {}, gap # 1
                   PROVE  first \in Nat /\ IntCost(TierFirst(first), Tiers[first]) \in Nat
        OBVIOUS
      <4>1. /\ first \in 1 .. Len(Tiers) /\ TierFirst(first) \in Nat /\ Tiers[first] \in Nat
            /\ gap \in TierFirst(first) .. Tiers[first]
            /\ TierFirst(first) < Tiers[first] =>
                 BitsRequired(Tiers[first] - TierFirst(first)) \in 1 .. 4*MaxBits
        BY <1>5, <2>1
      <4> QED BY <1>4, <4>1 DEF IntCost
    <3> QED BY <1>3, <1>4, <3>1, <3>2
  <2>4. CASE ~w.trapped /\ gap = 1
    <3>1. 1 < 2^1 /\ 1 \in 1..MaxBits
      BY PowerAbove
    <3>2. Emits(w, SerializeBits(w, 1, 1), 1)
      BY <3>1, BitsEmit
    <3> QED BY <1>2, <1>3, <2>2, <2>4, <3>2
  <2>5. CASE ~w.trapped /\ gap > 1 /\ tiers # {}
    <3>1. /\ first \in 1 .. Len(Tiers) /\ TierFirst(first) \in Nat /\ Tiers[first] \in Nat
          /\ gap \in TierFirst(first) .. Tiers[first]
          /\ TierFirst(first) < Tiers[first] =>
               BitsRequired(Tiers[first] - TierFirst(first)) \in 1 .. 4*MaxBits
      BY <1>5, <2>1, <2>5
    <3> DEFINE yes == SerializeBits(Rungs(w, first), 1, 1)
               n == IntCost(TierFirst(first), Tiers[first])
    <3>2. first \in Nat /\ first + 1 \in Nat
      BY <3>1
    <3>3. Stream(yes) /\ Emits(w, yes, first + 1)
      BY <3>2, YesEmits
    <3> HIDE DEF yes
    <3>4. n \in Nat /\ Emits(yes, SerializeInt(yes, gap, TierFirst(first), Tiers[first]), n)
      BY <3>1, <3>3, IntEmits
    <3>5. q = SerializeInt(yes, gap, TierFirst(first), Tiers[first])
      BY <1>2, <2>2, <2>5 DEF yes
    <3> HIDE DEF n
    <3>6. Emits(w, q, (first + 1) + n) /\ (first + 1) + n \in Nat
      BY <3>2, <3>3, <3>4, <3>5, EmitsAdd
    <3> QED BY <1>3, <2>1, <2>5, <3>6 DEF n
  <2>6. CASE ~w.trapped /\ gap > 1 /\ tiers = {}
    <3> DEFINE r == Rungs(w, Len(Tiers) + 1)
    <3>1. Len(Tiers) + 1 \in Nat /\ MaxBits \in 1..MaxBits
      BY <1>4
    <3>2. Emits(w, r, Len(Tiers) + 1) /\ Stream(r)
      BY <3>1, RungsEmit DEF Emits
    <3> HIDE DEF r
    <3>3. Emits(r, SerializeBits(r, current, MaxBits), MaxBits)
      BY <1>1, <3>1, <3>2, BitsEmit
    <3>4. q = SerializeBits(r, current, MaxBits)
      BY <1>2, <2>1, <2>2, <2>6 DEF r
    <3>5. Emits(w, q, Len(Tiers) + 1 + MaxBits)
      BY <3>1, <3>2, <3>3, <3>4, EmitsAdd
    <3> QED BY <1>3, <1>4, <2>1, <2>6, <3>5
  <2> QED BY <2>1, <2>3, <2>4, <2>5, <2>6
<1>7. ASSUME ~w.trapped, ~fine PROVE q = Trap(w)
  <2>1. s = Trap(w)
    BY <1>7, TrapsFirst
  <2> HIDE DEF s
  <2>2. s.trapped
    BY <1>7, <2>1, TrapsFirst
  <2> QED BY <1>2, <2>1, <2>2
<1> QED BY <1>6, <1>7 DEF q

-----------------------------------------------------------------------------
(* Strings and byte arrays *)

\* the padding that follows n more bits
PaddingAfter(w, n) ==
  IF w.measure THEN ByteBits - 1 ELSE (ByteBits - ((w.at + n) % ByteBits)) % ByteBits

\* bits that a field of so many bits takes, with the padding after it and k bytes
PayloadSends(w, field, k) == field + PaddingAfter(w, field) + k * ByteBits

LEMMA PayloadIsNat ==
  ASSUME NEW w, Stream(w), NEW field \in Nat, NEW k \in Nat
  PROVE  PaddingAfter(w, field) \in 0 .. ByteBits - 1 /\ PayloadSends(w, field, k) \in Nat
<1> DEFINE n == PaddingAfter(w, field)
<1>1. n \in 0 .. ByteBits - 1
  <2>1. w.at + field \in Nat
    BY DEF Stream
  <2> QED BY <2>1, Aligned DEF PaddingAfter
<1> HIDE DEF n
<1>2. field + n + k * ByteBits \in Nat
  <2>1. k * ByteBits \in Nat
    OBVIOUS
  <2> QED BY <1>1, <2>1
<1> QED BY <1>1, <1>2 DEF n, PayloadSends

\* debug_assert_room asks for just the room that the field, the padding and the bytes will take.
LEMMA RoomAsks ==
  ASSUME NEW w, Stream(w), NEW field \in Nat, NEW k \in Nat
  PROVE  /\ w.trapped \/ Fits(w, PayloadSends(w, field, k)) => Room(w, field, k) = w
         /\ ~w.trapped /\ ~Fits(w, PayloadSends(w, field, k)) => Room(w, field, k) = Trap(w)
<1> DEFINE align == (ByteBits - ((w.at + field) % ByteBits)) % ByteBits
           bytes == k * ByteBits
           room == w.measure \/ field + align + bytes <= Capacity - w.at
<1>1. w.at \in Nat /\ bytes \in Nat /\ align \in Nat
  <2>1. w.at \in Nat
    BY DEF Stream
  <2>2. align \in Nat
    BY <2>1, Aligned
  <2> QED BY <2>1, <2>2
<1>2. Room(w, field, k) = Assert(w, room)
  BY DEF Room
<1>3. room <=> Fits(w, PayloadSends(w, field, k))
  <2>1. ~w.measure => PayloadSends(w, field, k) = field + align + bytes
    BY DEF PayloadSends, PaddingAfter
  <2> HIDE DEF align, bytes
  <2>2. field + align + bytes <= Capacity - w.at <=> w.at + (field + align + bytes) <= Capacity
    BY <1>1
  <2> QED BY <2>1, <2>2 DEF Fits
<1> HIDE DEF room
<1> QED BY <1>2, <1>3 DEF Assert

\* Padding, then bytes.
LEMMA TailEmits ==
  ASSUME NEW w, Stream(w), NEW s, Len(s) \in Nat, DOMAIN s = 1 .. Len(s)
  PROVE  Emits(w, WriteBytes(SerializeAlign(w), s), PaddingAfter(w, 0) + Len(s) * ByteBits)
<1> DEFINE q == SerializeAlign(w)
           n == AlignBits(w)
           k == Len(s) * ByteBits
<1>1. n \in Nat /\ k \in Nat /\ n = PaddingAfter(w, 0)
  <2>1. n \in Nat
    BY AlignEmits
  <2>2. w.at + 0 = w.at
    BY DEF Stream
  <2> QED BY <2>1, <2>2 DEF AlignBits, PaddingAfter
<1>2. Emits(w, q, n) /\ Stream(q) /\ (q.trapped \/ q.measure \/ q.at % ByteBits = 0)
  BY AlignEmits DEF Emits
<1> HIDE DEF q, n
<1>3. Emits(q, WriteBytes(q, s), k)
  BY <1>2, BytesEmit
<1> HIDE DEF k
<1>4. Emits(w, WriteBytes(q, s), n + k)
  BY <1>1, <1>2, <1>3, EmitsAdd
<1> QED BY <1>1, <1>4 DEF q, k

\* A byte array is written whole or traps before its padding.
LEMMA ByteArrayEmits ==
  ASSUME NEW w, Stream(w), NEW s, Len(s) \in Nat, DOMAIN s = 1 .. Len(s)
  PROVE  LET q == SerializeBytes(w, s)
             n == PayloadSends(w, 0, Len(s))
         IN  /\ n \in Nat /\ Emits(w, q, n)
             /\ ~w.trapped /\ ~Fits(w, n) => q = Trap(w)
<1> DEFINE q == SerializeBytes(w, s)
           n == PayloadSends(w, 0, Len(s))
           r == Room(w, 0, Len(s))
<1>1. n \in Nat /\ n = PaddingAfter(w, 0) + Len(s) * ByteBits
  <2>1. n \in Nat /\ PaddingAfter(w, 0) \in Nat
    BY PayloadIsNat
  <2> QED BY <2>1 DEF PayloadSends
<1>2. q = WriteBytes(SerializeAlign(r), s)
  BY DEF SerializeBytes
<1> HIDE DEF q, n
<1>3. CASE w.trapped \/ Fits(w, n)
  <2>1. r = w
    BY <1>3, RoomAsks DEF n
  <2> HIDE DEF r
  <2>2. Emits(w, q, n)
    BY <1>1, <1>2, <2>1, TailEmits
  <2> QED BY <1>1, <1>3, <2>2 DEF q, n
<1>4. CASE ~w.trapped /\ ~Fits(w, n)
  <2>1. r = Trap(w)
    BY <1>4, RoomAsks DEF n
  <2> HIDE DEF r
  <2>2. Stream(Trap(w)) /\ Trap(w).trapped
    BY Asserts
  <2>3. Emits(Trap(w), q, PaddingAfter(Trap(w), 0) + Len(s) * ByteBits)
    BY <1>2, <2>1, <2>2, TailEmits
  <2>4. q = Trap(w)
    BY <2>2, <2>3 DEF Emits
  <2>5. Trap(w).at = w.at /\ Trap(w).measure = w.measure /\ w.at \in Nat
    BY DEF Trap, Stream
  <2>6. Emits(w, q, n)
    BY <1>4, <2>2, <2>4, <2>5 DEF Emits
  <2> QED BY <1>1, <1>4, <2>4, <2>6 DEF q, n
<1> QED BY <1>3, <1>4

\* A string with no NUL that its buffer holds is written whole, or traps before its length; any
\* other is misuse.
LEMMA StringEmits ==
  ASSUME NEW w, Stream(w), NEW s, Len(s) \in Nat, DOMAIN s = 1 .. Len(s), NEW size \in Nat
  PROVE  LET fine == size \in 1..MaxSize /\ Len(s) < size /\ ~HasNul(s)
             q == SerializeString(w, s, size)
             n == PayloadSends(w, IntCost(0, size - 1), Len(s))
         IN  /\ fine => /\ n \in Nat /\ Emits(w, q, n)
                        /\ ~w.trapped /\ ~Fits(w, n) => q = Trap(w)
             /\ ~w.trapped /\ ~fine => q = Trap(w)
<1> DEFINE fine == size \in 1..MaxSize /\ Len(s) < size /\ ~HasNul(s)
           q == SerializeString(w, s, size)
           field == IntCost(0, size - 1)
           n == PayloadSends(w, field, Len(s))
           l == StringLength(w, s, size)
           r == Room(l, BitsRequired(size - 1), Len(s))
           p == SerializeInt(r, Len(s), 0, size - 1)
<1>1. q = IF l.trapped THEN l ELSE WriteBytes(SerializeAlign(p), s)
  BY DEF SerializeString
<1> HIDE DEF q, n
<1>2. ASSUME fine PROVE n \in Nat /\ Emits(w, q, n) /\ (~w.trapped /\ ~Fits(w, n) => q = Trap(w))
  <2>1. l = w
    BY <1>2 DEF StringLength, Assert
  <2> HIDE DEF l
  <2>2. /\ 0 \in Int /\ size - 1 \in Int /\ Len(s) \in 0 .. size - 1 /\ size - 1 \in Nat
        /\ 0 < size - 1 => BitsRequired(size - 1 - 0) \in 1 .. 4*MaxBits
    <3>1. Len(s) \in 0 .. size - 1 /\ size - 1 - 0 = size - 1 /\ size - 1 \in Nat
      BY <1>2
    <3>2. 0 < size - 1 => size - 1 \in 1 .. MaxSize - 1
      BY <1>2, FormatAssumption
    <3>3. 0 < size - 1 => BitsRequired(size - 1) \in 1..MaxBits
      BY <3>2, FormatWidths
    <3> QED BY <3>1, <3>3
  <2>3. field \in Nat /\ field = BitsRequired(size - 1)
    <3>1. CASE size - 1 = 0
      <4>1. 0 < 2^0 /\ BitsRequired(0) \in Nat /\ BitsRequired(0) <= 0
        <5>1. 0 \in Nat /\ 0 < 2^0
          BY PowerZero
        <5> QED BY <5>1, BitsRequiredHolds
      <4> QED BY <3>1, <4>1 DEF IntCost
    <3>2. CASE size - 1 # 0
      BY <2>2, <3>2 DEF IntCost
    <3> QED BY <3>1, <3>2
  <2> HIDE DEF field
  <2>4. n \in Nat
    BY <2>3, PayloadIsNat DEF n
  <2>5. CASE w.trapped \/ Fits(w, n)
    <3>1. r = w
      BY <2>1, <2>3, <2>5, RoomAsks DEF n
    <3> HIDE DEF r
    <3>2. Emits(w, p, field)
      BY <2>2, <3>1, IntEmits DEF field
    <3>3. Stream(p)
      BY <3>2 DEF Emits
    <3> HIDE DEF p
    <3> DEFINE z == WriteBytes(SerializeAlign(p), s)
               k == Len(s) * ByteBits
    <3>4. Emits(p, z, PaddingAfter(p, 0) + k) /\ PaddingAfter(p, 0) \in Nat /\ k \in Nat
      <4>1. PaddingAfter(p, 0) \in 0 .. ByteBits - 1
        BY <3>3, PayloadIsNat
      <4> QED BY <3>3, <4>1, TailEmits
    <3>5. CASE w.trapped
      <4>1. q = w
        BY <1>1, <2>1, <3>5
      <4>2. Emits(w, q, n)
        BY <3>5, <4>1 DEF Emits
      <4> QED BY <2>4, <3>5, <4>2
    <3>6. CASE ~w.trapped /\ Fits(w, n)
      <4>1. q = z
        BY <1>1, <2>1, <3>6
      <4>2. w.at \in Nat /\ n = field + PaddingAfter(w, field) + k /\ PaddingAfter(w, field) \in Nat
        <5>1. PaddingAfter(w, field) \in 0 .. ByteBits - 1
          BY <2>3, PayloadIsNat
        <5> QED BY <5>1 DEF n, PayloadSends, Stream
      <4> HIDE DEF z, k
      <4>3. Fits(w, field)
        BY <2>3, <3>4, <3>6, <4>2 DEF Fits
      <4>4. ~p.trapped /\ p.at = w.at + field /\ p.measure = w.measure
        BY <3>2, <3>6, <4>3 DEF Emits
      <4>5. PaddingAfter(p, 0) = PaddingAfter(w, field)
        <5>1. p.at + 0 = w.at + field
          BY <2>3, <4>2, <4>4
        <5> QED BY <4>4, <5>1 DEF PaddingAfter
      <4>6. Emits(w, z, field + (PaddingAfter(w, field) + k))
        BY <2>3, <3>2, <3>4, <4>2, <4>5, EmitsAdd
      <4>7. n = field + (PaddingAfter(w, field) + k)
        BY <2>3, <3>4, <4>2
      <4> QED BY <2>4, <3>6, <4>1, <4>6, <4>7
    <3> QED BY <2>5, <3>5, <3>6
  <2>6. CASE ~w.trapped /\ ~Fits(w, n)
    <3>1. r = Trap(w)
      BY <2>1, <2>3, <2>6, RoomAsks DEF n
    <3> HIDE DEF r
    <3>2. Stream(Trap(w)) /\ Trap(w).trapped
      BY Asserts
    <3>3. p = Trap(w)
      <4>1. Emits(Trap(w), p, field)
        BY <2>2, <3>1, <3>2, IntEmits DEF field
      <4> QED BY <3>2, <4>1 DEF Emits
    <3> HIDE DEF p
    <3>4. q = Trap(w)
      <4>1. q = WriteBytes(SerializeAlign(Trap(w)), s)
        BY <1>1, <2>1, <2>6, <3>3
      <4>2. Emits(Trap(w), q, PaddingAfter(Trap(w), 0) + Len(s) * ByteBits)
        BY <3>2, <4>1, TailEmits
      <4> QED BY <3>2, <4>2 DEF Emits
    <3>5. Trap(w).at = w.at /\ Trap(w).measure = w.measure /\ w.at \in Nat
      BY DEF Trap, Stream
    <3>6. Emits(w, q, n)
      BY <2>6, <3>2, <3>4, <3>5 DEF Emits
    <3> QED BY <2>4, <3>4, <3>6
  <2> QED BY <2>5, <2>6
<1>3. ASSUME ~w.trapped, ~fine PROVE q = Trap(w)
  <2>1. l = Trap(w)
    BY <1>3, TrapsFirst DEF StringLength
  <2> HIDE DEF l
  <2>2. l.trapped
    BY <1>3, <2>1, TrapsFirst
  <2> QED BY <1>1, <2>1, <2>2
<1> QED BY <1>2, <1>3 DEF q, n

-----------------------------------------------------------------------------
(* Every call, and the steps of the streams *)

Ops == {"bits", "bits64", "u128", "int", "float", "double", "compressed", "fixed", "relative",
        "string", "bytes", "align"}

\* bits that a call takes of a stream
CallBits(w, c) ==
  CASE c.op = "bits"       -> c.bits
    [] c.op = "bits64"     -> c.bits
    [] c.op = "u128"       -> 4*MaxBits
    [] c.op = "int"        -> IntCost(c.min, c.max)
    [] c.op = "float"      -> MaxBits
    [] c.op = "double"     -> 2*MaxBits
    [] c.op = "compressed" -> BitsRequired(c.quanta.max)
    [] c.op = "fixed"      -> IntCost(c.format.min * 2^c.format.fraction,
                                      c.format.max * 2^c.format.fraction)
    [] c.op = "relative"   -> RelativeSends(c.value - c.previous)
    [] c.op = "string"     -> PayloadSends(w, IntCost(0, c.size - 1), Len(c.value))
    [] c.op = "bytes"      -> PayloadSends(w, 0, Len(c.value))
    [] c.op = "align"      -> AlignBits(w)

\* an integer of a degenerate range, whose value nothing looks at
Degenerate(c) == c.op = "int" /\ c.min = c.max

\* what a call makes of the stream w: it is misuse and traps, or emits its bits
Answers(w, c, q) ==
  /\ Conforms(c) \/ Degenerate(c) =>
       /\ CallBits(w, c) \in Nat /\ Emits(w, q, CallBits(w, c))
       /\ c.op \in {"string", "bytes"} /\ ~Fits(w, CallBits(w, c)) => q = Trap(w)
  /\ ~Conforms(c) /\ ~Degenerate(c) => q = Trap(w)

LEMMA CallAnswers ==
  ASSUME NEW w, Stream(w), ~w.trapped, NEW c \in Calls, c.op \in Ops
  PROVE  Answers(w, c, Serialize(w, c))
<1> DEFINE q == Serialize(w, c)
<1>1. CASE c.op = "bits"
  <2>1. /\ q = SerializeBits(w, c.value, c.bits) /\ CallBits(w, c) = c.bits /\ ~Degenerate(c)
        /\ Conforms(c) <=> c.bits \in 1..MaxBits /\ c.value \in 0 .. 2^c.bits - 1
    BY <1>1 DEF Serialize, CallBits, Degenerate, Conforms
  <2>2. c.value \in Nat
    BY <1>1, CallAssumption DEF Typed
  <2>3. c.bits \in 1..MaxBits => (c.value \in 0 .. 2^c.bits - 1 <=> c.value < 2^c.bits)
    <3> SUFFICES ASSUME c.bits \in 1..MaxBits
                 PROVE  c.value \in 0 .. 2^c.bits - 1 <=> c.value < 2^c.bits
      OBVIOUS
    <3> DEFINE p == 2^c.bits
    <3>1. p \in Nat
      BY PowerAbove
    <3> HIDE DEF p
    <3>2. c.value \in 0 .. p - 1 <=> c.value < p
      BY <2>2, <3>1
    <3> QED BY <3>2 DEF p
  <2> HIDE DEF q
  <2>4. Conforms(c) => Emits(w, q, c.bits) /\ c.bits \in Nat
    BY <2>1, <2>2, <2>3, BitsEmit
  <2>5. ~Conforms(c) => q = Trap(w)
    BY <2>1, <2>2, <2>3, BitsTrap
  <2> QED BY <1>1, <2>1, <2>4, <2>5 DEF Answers, q
<1>2. CASE c.op = "bits64"
  <2>1. /\ q = SerializeBits64(w, c.value, c.bits) /\ CallBits(w, c) = c.bits /\ ~Degenerate(c)
        /\ Conforms(c) <=> c.bits \in 1 .. 2*MaxBits /\ c.value \in 0 .. 2^c.bits - 1
    BY <1>2 DEF Serialize, CallBits, Degenerate, Conforms
  <2>2. c.value \in Nat
    BY <1>2, CallAssumption DEF Typed
  <2>3. c.bits \in 1 .. 2*MaxBits => (c.value \in 0 .. 2^c.bits - 1 <=> c.value < 2^c.bits)
    <3> SUFFICES ASSUME c.bits \in 1 .. 2*MaxBits
                 PROVE  c.value \in 0 .. 2^c.bits - 1 <=> c.value < 2^c.bits
      OBVIOUS
    <3> DEFINE p == 2^c.bits
    <3>1. p \in Nat
      BY PowerAbove
    <3> HIDE DEF p
    <3>2. c.value \in 0 .. p - 1 <=> c.value < p
      BY <2>2, <3>1
    <3> QED BY <3>2 DEF p
  <2> HIDE DEF q
  <2>4. Conforms(c) => Emits(w, q, c.bits) /\ c.bits \in Nat
    BY <2>1, <2>2, <2>3, Bits64Emits
  <2>5. ~Conforms(c) => q = Trap(w)
    BY <2>1, <2>2, <2>3, Bits64Emits
  <2> QED BY <1>2, <2>1, <2>4, <2>5 DEF Answers, q
<1>3. CASE c.op = "u128"
  <2>1. /\ q = SerializeU128(w, c.value) /\ CallBits(w, c) = 4*MaxBits
        /\ ~Degenerate(c) /\ Conforms(c)
    BY <1>3 DEF Serialize, CallBits, Degenerate, Conforms
  <2>2. c.value \in 0 .. 2^(4*MaxBits) - 1
    BY <1>3, CallAssumption DEF Typed
  <2> HIDE DEF q
  <2>3. Emits(w, q, 4*MaxBits) /\ 4*MaxBits \in Nat
    BY <2>1, <2>2, U128Emits
  <2> QED BY <1>3, <2>1, <2>3 DEF Answers, q
<1>4. CASE c.op = "int"
  <2>1. /\ q = SerializeInt(w, c.value, c.min, c.max) /\ CallBits(w, c) = IntCost(c.min, c.max)
        /\ Degenerate(c) <=> c.min = c.max
        /\ Conforms(c) <=> c.min <= c.max /\ c.value \in c.min .. c.max
    BY <1>4 DEF Serialize, CallBits, Degenerate, Conforms
  <2>2. /\ c.value \in Int /\ c.min \in Int /\ c.max \in Int
        /\ c.min < c.max => BitsRequired(c.max - c.min) \in 1 .. 4*MaxBits
    BY <1>4, CallAssumption DEF Typed
  <2>3. Degenerate(c) => Emits(w, q, IntCost(c.min, c.max)) /\ IntCost(c.min, c.max) \in Nat
    <3> SUFFICES ASSUME c.min = c.max
                 PROVE  Emits(w, q, IntCost(c.min, c.max)) /\ IntCost(c.min, c.max) \in Nat
      BY <2>1
    <3>1. q = w /\ IntCost(c.min, c.max) = 0
      BY <2>1 DEF SerializeInt, IntCost
    <3> QED BY <3>1, EmitsNothing
  <2> HIDE DEF q
  <2>4. Conforms(c) => Emits(w, q, IntCost(c.min, c.max)) /\ IntCost(c.min, c.max) \in Nat
    BY <2>1, <2>2, IntEmits
  <2>5. ~Conforms(c) /\ ~Degenerate(c) => q = Trap(w)
    BY <2>1, <2>2, IntTraps
  <2> QED BY <1>4, <2>1, <2>3, <2>4, <2>5 DEF Answers, q
<1>5. CASE c.op \in {"float", "double"}
  <2> DEFINE n == IF c.op = "float" THEN MaxBits ELSE 2*MaxBits
             fraction == IF c.op = "float" THEN FractionBits ELSE DoubleFractionBits
  <2>1. /\ q = SerializeFloat(w, c.value, n, fraction) /\ CallBits(w, c) = n
        /\ ~Degenerate(c) /\ (Conforms(c) <=> Finite(c.value, n, fraction))
    BY <1>5 DEF Serialize, CallBits, Degenerate, Conforms
  <2>2. n \in 1 .. 2*MaxBits /\ c.value \in 0 .. 2^n - 1
    BY <1>5, CallAssumption DEF Typed
  <2> HIDE DEF q, n, fraction
  <2>3. Conforms(c) => Emits(w, q, n) /\ n \in Nat
    BY <2>1, <2>2, FloatEmits
  <2>4. ~Conforms(c) => q = Trap(w)
    BY <2>1, <2>2, FloatEmits
  <2> QED BY <1>5, <2>1, <2>3, <2>4 DEF Answers, q
<1>6. CASE c.op = "compressed"
  <2> DEFINE f == c.quanta
             fine == f.declared /\ c.finite /\ f.top = f.max
  <2>1. /\ q = SerializeCompressedFloat(w, f, c.finite, c.halves)
        /\ CallBits(w, c) = BitsRequired(f.max) /\ ~Degenerate(c) /\ (Conforms(c) <=> fine)
    BY <1>6 DEF Serialize, CallBits, Degenerate, Conforms
  <2>2. c.halves \in Int /\ f.max \in Nat /\ (f.declared => BitsRequired(f.max) \in 1..MaxBits)
    BY <1>6, CallAssumption DEF Typed
  <2> HIDE DEF q, f
  <2>3. Conforms(c) => Emits(w, q, BitsRequired(f.max)) /\ BitsRequired(f.max) \in Nat
    BY <2>1, <2>2, CompressedEmits
  <2>4. ~Conforms(c) => q = Trap(w)
    BY <2>1, <2>2, CompressedEmits
  <2> QED BY <1>6, <2>1, <2>3, <2>4 DEF Answers, q
<1>7. CASE c.op = "fixed"
  <2> DEFINE f == c.format
             min == f.min * 2^f.fraction
             max == f.max * 2^f.fraction
             fine == FixedDeclared(f) /\ c.value \in min..max
  <2>1. /\ q = SerializeFixed(w, c.value, f) /\ CallBits(w, c) = IntCost(min, max)
        /\ ~Degenerate(c) /\ (Conforms(c) <=> fine)
    BY <1>7 DEF Serialize, CallBits, Degenerate, Conforms
  <2>2. /\ c.value \in Int /\ f.min \in Int /\ f.max \in Int /\ f.fraction \in Nat
        /\ FixedDeclared(f) /\ min < max => BitsRequired(max - min) \in 1 .. 4*MaxBits
    BY <1>7, CallAssumption DEF Typed
  <2>3. /\ fine => IntCost(min, max) \in Nat /\ Emits(w, q, IntCost(min, max))
        /\ ~fine => q = Trap(w)
    BY <2>1, <2>2, FixedEmits
  <2> HIDE DEF q, min, max, f
  <2> QED BY <1>7, <2>1, <2>3 DEF Answers, q
<1>8. CASE c.op = "relative"
  <2> DEFINE gap == c.value - c.previous
             fine == 0 <= c.previous /\ c.previous < c.value
  <2>1. /\ q = SerializeIntRelative(w, c.previous, c.value) /\ CallBits(w, c) = RelativeSends(gap)
        /\ ~Degenerate(c) /\ (Conforms(c) <=> fine)
    BY <1>8 DEF Serialize, CallBits, Degenerate, Conforms
  <2>2. c.previous \in Int /\ c.value \in -(2^(MaxBits-1)) .. MaxInt
    BY <1>8, CallAssumption DEF Typed
  <2>3. /\ fine => RelativeSends(gap) \in Nat /\ Emits(w, q, RelativeSends(gap))
        /\ ~fine => q = Trap(w)
    BY <2>1, <2>2, RelativeEmits
  <2> HIDE DEF q, gap
  <2> QED BY <1>8, <2>1, <2>3 DEF Answers, q
<1>9. CASE c.op = "string"
  <2> DEFINE n == PayloadSends(w, IntCost(0, c.size - 1), Len(c.value))
             fine == c.size \in 1..MaxSize /\ Len(c.value) < c.size /\ ~HasNul(c.value)
  <2>1. /\ q = SerializeString(w, c.value, c.size) /\ CallBits(w, c) = n
        /\ ~Degenerate(c) /\ (Conforms(c) <=> fine)
    BY <1>9 DEF Serialize, CallBits, Degenerate, Conforms
  <2>2. c.value \in Seq(0 .. 2^ByteBits - 1) /\ c.size \in Nat
    BY <1>9, CallAssumption DEF Typed
  <2>3. Len(c.value) \in Nat /\ DOMAIN c.value = 1 .. Len(c.value)
    BY <2>2
  <2>4. /\ fine => n \in Nat /\ Emits(w, q, n) /\ (~Fits(w, n) => q = Trap(w))
        /\ ~fine => q = Trap(w)
    BY <2>1, <2>2, <2>3, StringEmits
  <2> HIDE DEF q, n
  <2> QED BY <2>1, <2>4 DEF Answers, q
<1>10. CASE c.op = "bytes"
  <2> DEFINE n == PayloadSends(w, 0, Len(c.value))
  <2>1. /\ q = SerializeBytes(w, c.value) /\ CallBits(w, c) = n /\ ~Degenerate(c) /\ Conforms(c)
    BY <1>10 DEF Serialize, CallBits, Degenerate, Conforms
  <2>2. c.value \in Seq(0 .. 2^ByteBits - 1)
    BY <1>10, CallAssumption DEF Typed
  <2>3. Len(c.value) \in Nat /\ DOMAIN c.value = 1 .. Len(c.value)
    BY <2>2
  <2>4. n \in Nat /\ Emits(w, q, n) /\ (~Fits(w, n) => q = Trap(w))
    BY <2>1, <2>3, ByteArrayEmits
  <2> HIDE DEF q, n
  <2> QED BY <2>1, <2>4 DEF Answers, q
<1>11. CASE c.op = "align"
  <2>1. /\ q = SerializeAlign(w) /\ CallBits(w, c) = AlignBits(w) /\ ~Degenerate(c) /\ Conforms(c)
    BY <1>11 DEF Serialize, CallBits, Degenerate, Conforms
  <2>2. AlignBits(w) \in Nat /\ Emits(w, q, AlignBits(w))
    BY <2>1, AlignEmits
  <2> HIDE DEF q
  <2> QED BY <1>11, <2>1, <2>2 DEF Answers, q
<1> QED BY <1>1, <1>2, <1>3, <1>4, <1>5, <1>6, <1>7, <1>8, <1>9, <1>10, <1>11 DEF Ops

\* A measure counts a call for as many bits as a write emits for it, or more: its padding is the
\* worst there is.
LEMMA MeasureCounts ==
  ASSUME NEW w, Stream(w), NEW m, Stream(m), m.measure, NEW c, c.op \in Ops,
         CallBits(w, c) \in Nat, CallBits(m, c) \in Nat,
         c.op = "string" => IntCost(0, c.size - 1) \in Nat /\ Len(c.value) \in Nat,
         c.op = "bytes" => Len(c.value) \in Nat
  PROVE  CallBits(w, c) <= CallBits(m, c)
<1>1. CASE c.op \notin {"string", "bytes", "align"}
  <2>1. CallBits(w, c) = CallBits(m, c)
    BY <1>1 DEF CallBits, Ops
  <2> QED BY <2>1
<1>2. CASE c.op = "align"
  <2>1. CallBits(w, c) = AlignBits(w) /\ CallBits(m, c) = AlignBits(m)
    BY <1>2 DEF CallBits
  <2>2. AlignBits(w) \in 0 .. ByteBits - 1
    BY AlignEmits
  <2>3. AlignBits(m) = ByteBits - 1
    BY DEF AlignBits
  <2> QED BY <2>1, <2>2, <2>3
<1>3. ASSUME NEW field \in Nat, NEW k \in Nat PROVE PayloadSends(w, field, k) <= PayloadSends(m, field, k)
  <2>1. PaddingAfter(w, field) \in 0 .. ByteBits - 1
    BY PayloadIsNat
  <2>2. PaddingAfter(m, field) = ByteBits - 1
    BY DEF PaddingAfter
  <2>3. k * ByteBits \in Nat
    OBVIOUS
  <2> QED BY <2>1, <2>2, <2>3 DEF PayloadSends
<1>4. CASE c.op = "string"
  BY <1>3, <1>4 DEF CallBits
<1>5. CASE c.op = "bytes"
  BY <1>3, <1>5 DEF CallBits
<1> QED BY <1>1, <1>2, <1>4, <1>5

\* the invariant of the streams
Counts == /\ ones \in SUBSET Int /\ bits_written \in 0..Capacity
          /\ measured \in Nat /\ bits_written <= measured

\* what a step makes of its outcomes, in the words of the properties
Alike == /\ counted' = "trap" => wrote' = "trap"
         /\ wrote' = "trap" /\ counted' # "trap"
              => bits_written + (measured' - measured) > Capacity
Ahead == /\ counted' = "trap" => UNCHANGED <<ones, bits_written, measured>>
         /\ wrote' = "trap" /\ call'.op \in {"string", "bytes"} => UNCHANGED <<ones, bits_written>>
Trapped == wrote' = "ok" \/ counted' = "ok" => Conforms(call') \/ Degenerate(call')
OnMisuse == counted' = "trap" => call'.op = "reject" \/ ~Conforms(call')
ByDeclared == call'.op = "int" => call' \in Calls

Promised == Alike /\ Ahead /\ Trapped /\ OnMisuse /\ ByDeclared

\* The streams a call finds.
LEMMA Found ==
  ASSUME Counts
  PROVE  Stream(Writing) /\ Stream(Measuring)
BY DEF Counts, Stream, Writing, Measuring

\* Both streams answer a call alike.
LEMMA CallKeeps ==
  ASSUME Counts, NEW c \in Calls, c.op \in Ops,
         Return(c, Serialize(Writing, c), Serialize(Measuring, c))
  PROVE  Counts' /\ Promised
<1> DEFINE w == Writing
           m == Measuring
           q == Serialize(w, c)
           p == Serialize(m, c)
<1>1. /\ Stream(w) /\ w.measure = FALSE /\ ~w.trapped /\ w.at = bits_written /\ w.ones = ones
      /\ Stream(m) /\ m.measure = TRUE /\ ~m.trapped /\ m.at = measured
  BY Found DEF Writing, Measuring
<1>2. /\ call' = c /\ ones' = q.ones /\ bits_written' = q.at /\ wrote' = Outcome(q)
      /\ measured' = p.at /\ counted' = Outcome(p)
  BY DEF Return
<1> HIDE DEF w, m
<1>3. Answers(w, c, q) /\ Answers(m, c, p)
  BY <1>1, CallAnswers
<1> HIDE DEF q, p
<1>4. CASE Conforms(c) \/ Degenerate(c)
  <2> DEFINE n == CallBits(w, c)
             k == CallBits(m, c)
  <2>1. /\ n \in Nat /\ Emits(w, q, n) /\ k \in Nat /\ Emits(m, p, k)
        /\ c.op \in {"string", "bytes"} /\ ~Fits(w, n) => q = Trap(w)
    BY <1>3, <1>4 DEF Answers
  <2>2. n <= k
    <3>1. c.op = "string" => IntCost(0, c.size - 1) \in Nat /\ Len(c.value) \in Nat
      <4> SUFFICES ASSUME c.op = "string"
                   PROVE  IntCost(0, c.size - 1) \in Nat /\ Len(c.value) \in Nat
        OBVIOUS
      <4>1. c.size \in 1..MaxSize /\ c.size \in Nat /\ c.value \in Seq(0 .. 2^ByteBits - 1)
        BY <1>4, CallAssumption DEF Typed, Conforms, Degenerate
      <4>2. c.size - 1 = 0 \/ c.size - 1 \in 1 .. MaxSize - 1
        BY <4>1, FormatAssumption
      <4>3. c.size - 1 # 0 => BitsRequired(c.size - 1) \in 1..MaxBits
        BY <4>2, FormatWidths
      <4>4. IntCost(0, c.size - 1) \in Nat
        <5> DEFINE x == c.size - 1
        <5>1. x \in Nat /\ x - 0 = x /\ (x # 0 => BitsRequired(x) \in 1..MaxBits)
          BY <4>1, <4>3
        <5> HIDE DEF x
        <5>2. IntCost(0, x) \in Nat
          BY <5>1 DEF IntCost
        <5> QED BY <5>2 DEF x
      <4>5. Len(c.value) \in Nat
        BY <4>1
      <4> QED BY <4>4, <4>5
    <3>2. c.op = "bytes" => Len(c.value) \in Nat
      <4>1. c.op = "bytes" => c.value \in Seq(0 .. 2^ByteBits - 1)
        BY CallAssumption DEF Typed
      <4> QED BY <4>1
    <3> QED BY <1>1, <2>1, <3>1, <3>2, MeasureCounts
  <2> HIDE DEF n, k
  <2>3. Fits(m, k) /\ ~p.trapped /\ p.at = measured + k
    BY <1>1, <2>1 DEF Emits, Fits
  <2>4. Stream(q) /\ q.measure = FALSE /\ q.at \in Nat /\ q.at <= Capacity /\ q.ones \in SUBSET Int
    BY <1>1, <2>1 DEF Emits, Stream
  <2>5. bits_written \in Nat /\ bits_written <= Capacity /\ measured \in Nat /\ bits_written <= measured
    BY DEF Counts
  <2>6. Fits(w, n) <=> bits_written + n <= Capacity
    BY <1>1 DEF Fits
  <2>7. CASE Fits(w, n)
    <3>1. ~q.trapped /\ q.at = bits_written + n
      BY <1>1, <2>1, <2>7 DEF Emits
    <3>2. wrote' = "ok" /\ counted' = "ok"
      BY <1>2, <2>3, <3>1 DEF Outcome
    <3>3. bits_written' \in 0..Capacity /\ measured' \in Nat /\ bits_written' <= measured'
      BY <1>2, <2>1, <2>2, <2>3, <2>4, <2>5, <3>1
    <3>4. ones' \in SUBSET Int
      BY <1>2, <2>4
    <3> QED BY <1>2, <1>4, <3>2, <3>3, <3>4
            DEF Counts, Promised, Alike, Ahead, Trapped, OnMisuse, ByDeclared
  <2>8. CASE ~Fits(w, n)
    <3>1. q.trapped
      BY <1>1, <2>1, <2>8 DEF Emits
    <3>2. wrote' = "trap" /\ counted' = "ok"
      BY <1>2, <2>3, <3>1 DEF Outcome
    <3>3. bits_written + (measured' - measured) > Capacity
      BY <1>2, <2>1, <2>2, <2>3, <2>5, <2>6, <2>8
    <3>4. bits_written' \in 0..Capacity /\ measured' \in Nat /\ bits_written' <= measured'
      BY <1>2, <2>1, <2>2, <2>3, <2>4, <2>5, <2>6, <2>8
    <3>5. ones' \in SUBSET Int
      BY <1>2, <2>4
    <3>6. c.op \in {"string", "bytes"} => ones' = ones /\ bits_written' = bits_written
      <4>1. Trap(w).at = bits_written /\ Trap(w).ones = ones
        BY <1>1 DEF Trap, Stream
      <4> QED BY <1>2, <2>1, <2>8, <4>1
    <3> QED BY <1>2, <1>4, <3>2, <3>3, <3>4, <3>5, <3>6
            DEF Counts, Promised, Alike, Ahead, Trapped, OnMisuse, ByDeclared
  <2> QED BY <2>7, <2>8
<1>5. CASE ~Conforms(c) /\ ~Degenerate(c)
  <2>1. q = Trap(w) /\ p = Trap(m)
    BY <1>3, <1>5 DEF Answers
  <2>2. /\ q.trapped /\ q.at = bits_written /\ q.ones = ones
        /\ p.trapped /\ p.at = measured
    BY <1>1, <2>1 DEF Trap, Stream
  <2>3. wrote' = "trap" /\ counted' = "trap" /\ UNCHANGED <<ones, bits_written, measured>>
    BY <1>2, <2>2 DEF Outcome
  <2> QED BY <1>2, <1>5, <2>3 DEF Counts, Promised, Alike, Ahead, Trapped, OnMisuse, ByDeclared
<1> QED BY <1>4, <1>5

\* A by-value twin does what the method does.
LEMMA TwinsAgree ==
  ASSUME NEW c, c.op \in {"bits", "bits64", "int", "float", "double", "bytes"}
  PROVE  \A w : Twin(w, c) = Serialize(w, c)
BY DEF Twin, Serialize, SerializeBytes

\* An answer that reaches no stream.
LEMMA AnswerKeeps ==
  ASSUME Counts, NEW op \in {"fail", "reject", "end"}, NEW outcome, Answer(op, outcome),
         outcome = "trap" <=> op = "reject"
  PROVE  Counts' /\ Promised
<1>1. /\ call' = [op |-> op] /\ wrote' = outcome /\ counted' = outcome
      /\ UNCHANGED <<ones, bits_written, measured>>
  BY DEF Answer
<1>2. call'.op = op /\ Conforms(call')
  BY <1>1 DEF Conforms
<1> QED BY <1>1, <1>2 DEF Counts, Promised, Alike, Ahead, Trapped, OnMisuse, ByDeclared

LEMMA NextKeeps ==
  ASSUME Counts, Next
  PROVE  Counts' /\ Promised
<1>1. ASSUME NEW op \in Ops, Sends(op) PROVE Counts' /\ Promised
  BY <1>1, CallKeeps DEF Sends
<1>2. ASSUME ByValue PROVE Counts' /\ Promised
  <2>1. PICK c \in Calls : /\ c.op \in {"bits", "bits64", "int", "float", "double", "bytes"}
                           /\ Return(c, Twin(Writing, c), Serialize(Measuring, c))
    BY <1>2 DEF ByValue
  <2>2. Return(c, Serialize(Writing, c), Serialize(Measuring, c)) /\ c.op \in Ops
    <3>1. Twin(Writing, c) = Serialize(Writing, c)
      BY <2>1, TwinsAgree
    <3> QED BY <2>1, <3>1 DEF Ops
  <2> QED BY <2>2, CallKeeps
<1>3. ASSUME Fail \/ Reject \/ End PROVE Counts' /\ Promised
  BY <1>3, AnswerKeeps DEF Fail, Reject, End
<1> QED BY <1>1, <1>2, <1>3
        DEF Next, Bits, Bits64, U128, RangedInt, Float, Double, CompressedFloat, Fixed,
            IntRelative, String, Bytes, Align, Ops

LEMMA AlwaysCounts == Spec => []Counts
<1>1. Init => Counts
  BY DEF Init, Counts
<1>2. Counts /\ [Next]_vars => Counts'
  <2>1. Counts /\ UNCHANGED vars => Counts'
    BY DEF Counts, vars
  <2> QED BY <2>1, NextKeeps
<1> QED BY <1>1, <1>2, PTL DEF Spec

\* The theorems follow: a measurement covers the write, whatever is serialized.
THEOREM MeasurementCovers == Spec => []MeasureCovers
<1>1. Counts => MeasureCovers
  BY DEF Counts, MeasureCovers
<1> QED BY <1>1, AlwaysCounts, PTL

\* The measure never traps alone, and the write traps alone only for want of room for what the
\* measure counted.
THEOREM StreamsTrapAlike == Spec => MeasureTrapsAlike
<1>1. Counts /\ [Next]_vars => [Alike]_vars
  BY NextKeeps DEF Promised
<1> QED BY <1>1, AlwaysCounts, PTL DEF Spec, MeasureTrapsAlike, Alike

\* Misuse traps before anything is written or counted, and a payload without room before its
\* length and its padding.
THEOREM NothingGoesAhead == Spec => NothingAhead
<1>1. Counts /\ [Next]_vars => [Ahead]_vars
  BY NextKeeps DEF Promised
<1> QED BY <1>1, AlwaysCounts, PTL DEF Spec, NothingAhead, Ahead

\* All that conforms goes through a measure.
THEOREM ConformingIsMeasured == Spec => OnlyMisuseTraps
<1>1. Counts /\ [Next]_vars => [OnMisuse]_vars
  BY NextKeeps DEF Promised
<1> QED BY <1>1, AlwaysCounts, PTL DEF Spec, OnlyMisuseTraps, OnMisuse

\* All misuse traps, but for a value outside of a range that holds only one: the exception that
\* the run WriteStream_degenerate shows is real.
THEOREM AllOtherMisuseTraps ==
  (\A c \in Calls : Degenerate(c) => c.value = c.min) => (Spec => MisuseTraps)
<1> SUFFICES ASSUME \A c \in Calls : Degenerate(c) => c.value = c.min
             PROVE  Spec => MisuseTraps
  OBVIOUS
<1> DEFINE Misused == wrote' = "ok" \/ counted' = "ok" => Conforms(call')
<1>1. Counts /\ Next => Misused
  <2> SUFFICES ASSUME Counts, Next, wrote' = "ok" \/ counted' = "ok" PROVE Conforms(call')
    OBVIOUS
  <2>1. Conforms(call') \/ Degenerate(call')
    BY NextKeeps DEF Promised, Trapped
  <2>2. ASSUME Degenerate(call') PROVE Conforms(call')
    <3>1. call' \in Calls /\ call'.op = "int" /\ call'.min = call'.max
      BY <2>2, NextKeeps DEF Promised, ByDeclared, Degenerate
    <3>2. call'.value = call'.min /\ call'.min \in Int
      BY <2>2, <3>1, CallAssumption DEF Typed
    <3> QED BY <3>1, <3>2 DEF Conforms
  <2> QED BY <2>1, <2>2
<1>2. Counts /\ [Next]_vars => [Misused]_vars
  BY <1>1
<1> QED BY <1>2, AlwaysCounts, PTL DEF Spec, MisuseTraps, Misused

=============================================================================
