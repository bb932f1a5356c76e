-------------------------- MODULE RoundTripProofs --------------------------
(***************************************************************************)
(* What was written is what is read, for every format and every message.   *)
(*                                                                         *)
(* Of every method of a write stream it is shown that it changes nothing   *)
(* that was written before (Extends), and of the method of a read stream   *)
(* of the same name that over the bits of the former it arrives where the  *)
(* writer did, with the value that was written; or, if the packet ends     *)
(* before, that it refuses (Arrives).  Methods compose on both sides at    *)
(* once.  What a message was made of is then known of every prefix of it.  *)
(***************************************************************************)
EXTENDS RoundTrip, NatFacts, SequenceTheorems

\* The widths, for every step below.
LEMMA WidthFacts == ByteBits \in Nat \ {0} /\ MaxBits \in Nat \ {0}
BY FormatAssumption

USE WidthFacts

\* Both sides and the message reckon with one format.
LEMMA SameFormat ==
  /\ \A n : W!BitsRequired(n) = BitsRequired(n) /\ R!BitsRequired(n) = BitsRequired(n)
  /\ \A v, n, f : W!Finite(v, n, f) = Finite(v, n, f) /\ R!Finite(v, n, f) = Finite(v, n, f)
  /\ \A f : W!FixedDeclared(f) = FixedDeclared(f) /\ R!FixedDeclared(f) = FixedDeclared(f)
  /\ \A p, v : R!InDomain(p, v) = InDomain(p, v)
  /\ \A t : W!TierFirst(t) = TierFirst(t) /\ R!TierFirst(t) = TierFirst(t)
  /\ \A t : R!WellFormed(t) = WellFormed(t)
  /\ \A t : W!HasNul(t) = HasNul(t) /\ R!HasNul(t) = HasNul(t)
<1>1. \A n : W!BitsRequired(n) = BitsRequired(n) /\ R!BitsRequired(n) = BitsRequired(n)
  BY DEF W!BitsRequired, R!BitsRequired, BitsRequired
<1>2. \A v, n, f : W!Finite(v, n, f) = Finite(v, n, f) /\ R!Finite(v, n, f) = Finite(v, n, f)
  BY DEF W!Finite, R!Finite, Finite
<1>3. \A f : W!FixedDeclared(f) = FixedDeclared(f) /\ R!FixedDeclared(f) = FixedDeclared(f)
  BY DEF W!FixedDeclared, R!FixedDeclared, FixedDeclared
<1>4. \A p, v : R!InDomain(p, v) = InDomain(p, v)
  BY DEF R!InDomain, InDomain, R!MaxInt, MaxInt
<1>5. \A t : W!TierFirst(t) = TierFirst(t) /\ R!TierFirst(t) = TierFirst(t)
  BY DEF W!TierFirst, R!TierFirst, TierFirst
<1>6. \A t : R!WellFormed(t) = WellFormed(t)
  BY DEF R!WellFormed, WellFormed
<1>7. \A t : W!HasNul(t) = HasNul(t) /\ R!HasNul(t) = HasNul(t)
  BY DEF W!HasNul, R!HasNul, HasNul
<1> QED BY <1>1, <1>2, <1>3, <1>4, <1>5, <1>6, <1>7

\* a write stream
Writer(w) ==
  /\ w \in [measure : {FALSE}, at : Nat, ones : SUBSET Nat, trapped : BOOLEAN]
  /\ w.at <= Capacity /\ \A i \in w.ones : i < w.at

\* q is w with more written, or it trapped
Extends(w, q) ==
  /\ Writer(q) /\ (w.trapped => q.trapped)
  /\ ~q.trapped => /\ w.at <= q.at
                   /\ \A i \in 0 .. w.at - 1 : i \in q.ones <=> i \in w.ones

Fields == {"at", "failed", "ret", "value", "dest", "dirty", "trapped"}

\* a read stream that has refused nothing
Open(s) == DOMAIN s = Fields /\ s.at \in 0..num_bits /\ s.failed = Ok /\ s.ret = Ok

\* the packet holds these bits from a up to b, as far as it goes
Agrees(o, a, b) == \A i \in a .. b-1 : i < num_bits => (i \in packet <=> i \in o)

\* t is s gone on to b, unless the packet ends before
Goes(s, t, b) ==
  /\ DOMAIN t = Fields /\ t.dest = s.dest
  /\ b <= num_bits => t.at = b /\ t.failed = Ok /\ t.ret = Ok
  /\ b > num_bits => t.ret # Ok /\ t.failed # Ok

\* and has read v there
Arrives(s, t, b, v) == Goes(s, t, b) /\ (b <= num_bits => t.value = v)

\* the reader s is where the writer w was, over what it wrote up to q
Over(w, q, s) == Open(s) /\ s.at = w.at /\ Agrees(q.ones, w.at, q.at) /\ num_bits \in Nat

-----------------------------------------------------------------------------
(* Methods that call methods *)

\* What is extended twice is extended, and what is untrapped after was so between.
LEMMA ExtendsTwice ==
  ASSUME NEW w, Writer(w), NEW p, Extends(w, p), NEW q, Extends(p, q)
  PROVE  Extends(w, q) /\ (~q.trapped => ~p.trapped)
<1>1. ASSUME ~q.trapped
      PROVE  w.at <= q.at /\ \A i \in 0 .. w.at - 1 : i \in q.ones <=> i \in w.ones
  <2>1. /\ w.at \in Nat /\ p.at \in Nat /\ q.at \in Nat /\ w.at <= p.at /\ p.at <= q.at
        /\ \A i \in 0 .. w.at - 1 : i \in p.ones <=> i \in w.ones
        /\ \A i \in 0 .. p.at - 1 : i \in q.ones <=> i \in p.ones
    BY <1>1 DEF Extends, Writer
  <2>2. \A i \in 0 .. w.at - 1 : i \in 0 .. p.at - 1
    BY <2>1
  <2> QED BY <2>1, <2>2
<1> QED BY <1>1 DEF Extends

\* Nothing written is an extension.
LEMMA ExtendsItself ==
  ASSUME NEW w, Writer(w)
  PROVE  Extends(w, w)
<1>1. w.at \in Nat
  BY DEF Writer
<1>2. w.at <= w.at
  BY <1>1
<1> QED BY <1>2 DEF Extends

\* A reader over both of two parts is over the first, and if it arrives is over the second.
LEMMA OverParts ==
  ASSUME NEW w, Writer(w), NEW p, Extends(w, p), NEW q, Extends(p, q), ~q.trapped,
         NEW s, Over(w, q, s)
  PROVE  /\ Over(w, p, s)
         /\ \A t : Goes(s, t, p.at) /\ p.at <= num_bits => Over(p, q, t)
<1>1. ~p.trapped
  BY DEF Extends
<1>2. /\ w.at \in Nat /\ p.at \in Nat /\ q.at \in Nat /\ w.at <= p.at /\ p.at <= q.at
      /\ \A i \in 0 .. p.at - 1 : i \in q.ones <=> i \in p.ones
  BY <1>1 DEF Extends, Writer
<1>3. \A i \in w.at .. p.at - 1 : i \in 0 .. p.at - 1 /\ i \in w.at .. q.at - 1
  BY <1>2
<1>4. Over(w, p, s)
  BY <1>2, <1>3 DEF Over, Agrees
<1>5. ASSUME NEW t, Goes(s, t, p.at), p.at <= num_bits PROVE Over(p, q, t)
  <2>1. \A i \in p.at .. q.at - 1 : i \in w.at .. q.at - 1
    BY <1>2
  <2>2. num_bits \in Nat /\ p.at \in 0..num_bits
    BY <1>2, <1>5 DEF Over
  <2> QED BY <1>5, <2>1, <2>2 DEF Over, Agrees, Goes, Open
<1> QED BY <1>4, <1>5

\* The end of the packet before the end of the first part is before the end of both.
LEMMA ShortOfBoth ==
  ASSUME NEW w, Writer(w), NEW p, Extends(w, p), NEW q, Extends(p, q), ~q.trapped,
         num_bits \in Nat, p.at > num_bits
  PROVE  q.at > num_bits
<1>1. p.at \in Nat /\ q.at \in Nat /\ p.at <= q.at
  BY DEF Extends, Writer
<1> QED BY <1>1

\* From one arrival on to the next.
LEMMA GoesOn ==
  ASSUME NEW s, NEW t, NEW u, NEW a, NEW b, Goes(s, t, a), a <= num_bits, Goes(t, u, b)
  PROVE  Goes(s, u, b)
BY DEF Goes

-----------------------------------------------------------------------------
(* The primitives of the write stream *)

\* An assertion that holds does nothing, and one that fails is a trap.
LEMMA Asserts ==
  ASSUME NEW w, Writer(w), NEW condition \in BOOLEAN
  PROVE  LET q == W!Assert(w, condition) IN
         Extends(w, q) /\ (~q.trapped => q = w /\ condition /\ ~w.trapped)
<1>1. CASE w.trapped \/ condition
  <2>1. W!Assert(w, condition) = w
    BY <1>1 DEF W!Assert
  <2> QED BY <1>1, <2>1, ExtendsItself
<1>2. CASE ~(w.trapped \/ condition)
  <2>1. W!Assert(w, condition) = [w EXCEPT !.trapped = TRUE]
    BY <1>2 DEF W!Assert, W!Trap
  <2>2. Writer([w EXCEPT !.trapped = TRUE]) /\ [w EXCEPT !.trapped = TRUE].trapped
    BY DEF Writer
  <2> QED BY <2>1, <2>2 DEF Extends
<1> QED BY <1>1, <1>2

\* Bits are emitted after those before.
LEMMA EmitIs ==
  ASSUME NEW w, Writer(w), NEW n \in Nat, w.at + n <= Capacity, NEW bits \in SUBSET (0 .. n-1)
  PROVE  LET q == W!Emit(w, bits, n) IN
         /\ Extends(w, q) /\ q.trapped = w.trapped
         /\ ~q.trapped => /\ q.at = w.at + n
                          /\ \A i \in 0 .. n-1 : w.at + i \in q.ones <=> i \in bits
<1>1. CASE w.trapped
  <2>1. W!Emit(w, bits, n) = w
    BY <1>1 DEF W!Emit
  <2> QED BY <1>1, <2>1, ExtendsItself
<1>2. CASE ~w.trapped
  <2> DEFINE new == {w.at + i : i \in bits}
             o == w.ones \cup new
             q == [w EXCEPT !.at = w.at + n, !.ones = o]
  <2>1. W!Emit(w, bits, n) = q
    BY <1>2 DEF W!Emit, Writer
  <2>2. w.at \in Nat /\ w.ones \in SUBSET Nat /\ \A i \in w.ones : i < w.at
    BY DEF Writer
  <2>3. \A j \in new : j \in Nat /\ j >= w.at /\ j < w.at + n
    BY <2>2
  <2>4. \A i \in 0 .. n-1 : w.at + i \in new <=> i \in bits
    <3> SUFFICES ASSUME NEW i \in 0 .. n-1, w.at + i \in new PROVE i \in bits
      OBVIOUS
    <3>1. PICK j \in bits : w.at + i = w.at + j
      OBVIOUS
    <3>2. i = j
      BY <2>2, <3>1
    <3> QED BY <3>2
  <2> HIDE DEF new
  <2>5. /\ o \in SUBSET Nat /\ \A i \in o : i < w.at + n
        /\ \A i \in 0 .. w.at - 1 : i \in o <=> i \in w.ones
        /\ \A i \in 0 .. n-1 : w.at + i \in o <=> i \in bits
    <3>1. \A i \in 0 .. w.at - 1 : i \notin new
      BY <2>2, <2>3
    <3>2. \A i \in 0 .. n-1 : w.at + i \notin w.ones
      BY <2>2
    <3>3. \A i \in w.ones : i < w.at + n
      BY <2>2
    <3> QED BY <2>2, <2>3, <2>4, <3>1, <3>2, <3>3
  <2> HIDE DEF o
  <2>6. Writer(q) /\ q.at = w.at + n /\ q.ones = o /\ q.trapped = w.trapped
    <3>1. w \in [measure : {FALSE}, at : Nat, ones : SUBSET Nat, trapped : BOOLEAN]
      BY DEF Writer
    <3>2. w.at + n \in Nat
      BY <2>2
    <3>3. /\ q \in [measure : {FALSE}, at : Nat, ones : SUBSET Nat, trapped : BOOLEAN]
          /\ q.at = w.at + n /\ q.ones = o /\ q.trapped = w.trapped
      BY <2>5, <3>1, <3>2
    <3> HIDE DEF q
    <3> QED BY <2>5, <3>3 DEF Writer
  <2>7. w.at <= w.at + n
    BY <2>2
  <2> HIDE DEF q
  <2>8. Extends(w, q)
    BY <2>5, <2>6, <2>7 DEF Extends
  <2> QED BY <2>1, <2>5, <2>6, <2>8
<1> QED BY <1>1, <1>2


-----------------------------------------------------------------------------
(* The bits of a number *)

\* the function that Value defines, up to n
Spells(f, at, n) == f = [k \in 0..n |-> IF k = 0 THEN 0 ELSE 2 * f[k-1] + R!Bit(at + n - k)]

\* What the bits of v spell is v: from the top bit down, the number that the bits above spell.
LEMMA ValueOfBits ==
  ASSUME NEW v \in Nat, NEW n \in Nat, v < 2^n, NEW at \in Nat,
         \A i \in 0 .. n-1 : at + i \in packet <=> (v \div 2^i) % 2 = 1
  PROVE  R!Value(at, n) = v
<1> DEFINE g == [k \in 0..n |-> v \div 2^(n-k)]
           f == CHOOSE x : Spells(x, at, n)
           Bad == {k \in 0..n : f[k] # g[k]}
<1>1. \A k \in 1..n : g[k] = 2 * g[k-1] + R!Bit(at + n - k)
  <2> SUFFICES ASSUME NEW k \in 1..n PROVE g[k] = 2 * g[k-1] + R!Bit(at + n - k)
    OBVIOUS
  <2> DEFINE i == n - k
  <2>1. i \in 0 .. n-1 /\ i \in Nat /\ i + 1 = n - (k-1) /\ at + i = at + n - k
        /\ k \in 0..n /\ k - 1 \in 0..n
    OBVIOUS
  <2>2. g[k] = v \div 2^i /\ g[k-1] = v \div 2^(i+1)
    BY <2>1
  <2> HIDE DEF i, g
  <2>3. (v \div 2^i) % 2 \in 0..1 /\ v \div 2^i = 2 * (v \div 2^(i+1)) + ((v \div 2^i) % 2)
    BY <2>1, BitStep
  <2>4. R!Bit(at + i) = (v \div 2^i) % 2
    <3>1. at + i \in packet <=> (v \div 2^i) % 2 = 1
      BY <2>1
    <3> QED BY <2>3, <3>1 DEF R!Bit
  <2> QED BY <2>1, <2>2, <2>3, <2>4
<1>2. g[0] = 0 /\ g[n] = v
  <2>1. 0 \in 0..n /\ n \in 0..n /\ n - 0 = n /\ n - n = 0
    OBVIOUS
  <2>2. v \div 2^0 = v /\ v \div 2^n = 0
    BY BitsEnd
  <2> QED BY <2>1, <2>2
<1>3. g = [k \in 0..n |-> g[k]]
  OBVIOUS
<1> HIDE DEF g
<1>4. Spells(g, at, n)
  <2>1. \A k \in 0..n : g[k] = IF k = 0 THEN 0 ELSE 2 * g[k-1] + R!Bit(at + n - k)
    BY <1>1, <1>2
  <2> QED BY <1>3, <2>1 DEF Spells
<1>5. Spells(f, at, n)
  BY <1>4
<1>6. R!Value(at, n) = f[n]
  BY DEF R!Value, Spells
<1> HIDE DEF f
<1>7. Bad = {}
  <2> SUFFICES ASSUME Bad # {} PROVE FALSE
    OBVIOUS
  <2>1. PICK k \in Bad : \A y \in Bad : k <= y
    <3>1. Bad \subseteq Nat
      OBVIOUS
    <3> HIDE DEF Bad
    <3> QED BY <3>1, LeastNat
  <2>2. k \in 0..n /\ f[k] # g[k]
    OBVIOUS
  <2>3. f[k] = IF k = 0 THEN 0 ELSE 2 * f[k-1] + R!Bit(at + n - k)
    BY <1>5, <2>2 DEF Spells
  <2>4. CASE k = 0
    BY <1>2, <2>2, <2>3, <2>4
  <2>5. CASE k # 0
    <3>1. k \in 1..n /\ k - 1 \in 0..n /\ ~(k <= k - 1)
      BY <2>2, <2>5
    <3>2. k - 1 \notin Bad
      <4> HIDE DEF Bad
      <4> QED BY <2>1, <3>1
    <3>3. f[k-1] = g[k-1]
      BY <3>1, <3>2
    <3>4. g[k] = 2 * g[k-1] + R!Bit(at + n - k)
      BY <1>1, <3>1
    <3> QED BY <2>2, <2>3, <2>5, <3>3, <3>4
  <2> QED BY <2>4, <2>5
<1>8. f[n] = g[n]
  <2>1. n \in 0..n /\ n \notin Bad
    BY <1>7
  <2> QED BY <2>1
<1> QED BY <1>2, <1>6, <1>8

-----------------------------------------------------------------------------
(* A group of bits *)

\* serialize_bits writes the bits of a value that its group holds, or traps.
LEMMA BitsExtend ==
  ASSUME NEW w, Writer(w), NEW v \in Nat, NEW n
  PROVE  LET q == W!SerializeBits(w, v, n) IN
         /\ Extends(w, q)
         /\ ~q.trapped => /\ n \in 1..MaxBits /\ v < 2^n /\ q.at = w.at + n
                          /\ \A i \in 0 .. n-1 : w.at + i \in q.ones <=> (v \div 2^i) % 2 = 1
<1> DEFINE condition == n \in 1..MaxBits /\ v < 2^n /\ W!Fits(w, n)
           p == W!Assert(w, condition)
           bits == W!BitsOf(v, n)
           q == W!Emit(p, bits, n)
<1>1. W!SerializeBits(w, v, n) = q
  BY DEF W!SerializeBits
<1>2. Extends(w, p) /\ (~p.trapped => p = w /\ condition /\ ~w.trapped)
  <2>1. condition \in BOOLEAN
    OBVIOUS
  <2> HIDE DEF condition
  <2> QED BY <2>1, Asserts
<1>3. Writer(p)
  BY <1>2 DEF Extends
<1>4. CASE p.trapped
  <2> HIDE DEF p, bits
  <2>1. q = p
    BY <1>4 DEF W!Emit
  <2> QED BY <1>1, <1>2, <1>4, <2>1
<1>5. CASE ~p.trapped
  <2>0. n \in 1..MaxBits /\ v < 2^n /\ p = w /\ W!Fits(w, n) /\ n \in Nat
    BY <1>2, <1>5
  <2>1. p.at + n <= Capacity
    <3> HIDE DEF p
    <3> QED BY <2>0 DEF W!Fits, Writer
  <2>2. bits \in SUBSET (0 .. n-1) /\ \A i \in 0 .. n-1 : i \in bits <=> (v \div 2^i) % 2 = 1
    BY DEF W!BitsOf
  <2> HIDE DEF p, bits
  <2>3. /\ Extends(p, q) /\ q.trapped = p.trapped
        /\ ~q.trapped => /\ q.at = p.at + n
                         /\ \A i \in 0 .. n-1 : p.at + i \in q.ones <=> i \in bits
    BY <1>3, <2>0, <2>1, <2>2, EmitIs
  <2> QED BY <1>1, <2>0, <2>2, <2>3
<1> QED BY <1>4, <1>5

\* A refusal of an open stream goes nowhere.
LEMMA LatchShort ==
  ASSUME NEW s, Open(s), NEW error, error # Ok, NEW b \in Nat, num_bits \in Nat, b > num_bits
  PROVE  Goes(s, R!Latch(s, error), b)
<1> DEFINE t == R!Latch(s, error)
<1>1. R!Ok = Ok
  BY DEF R!Ok, Ok
<1>2. t = [s EXCEPT !.failed = error, !.ret = error]
  BY <1>1 DEF R!Latch, Open
<1>3. DOMAIN t = Fields /\ t.dest = s.dest /\ t.failed = error /\ t.ret = error
  BY <1>2 DEF Open, Fields
<1> HIDE DEF t
<1>4. ~(b <= num_bits)
  OBVIOUS
<1> QED BY <1>3, <1>4 DEF Goes, t

\* The reason of a read that runs out of packet.
LEMMA PastEnd == R!Ok = Ok /\ "past_end" # Ok /\ "value_out_of_range" # Ok
BY DEF R!Ok, Ok

\* serialize_bits reads back what it wrote.
LEMMA BitsArrive ==
  ASSUME NEW w, Writer(w), NEW v \in Nat, NEW n, ~W!SerializeBits(w, v, n).trapped,
         NEW s, Over(w, W!SerializeBits(w, v, n), s)
  PROVE  Arrives(s, R!SerializeBits(s, n), W!SerializeBits(w, v, n).at, v)
<1> DEFINE q == W!SerializeBits(w, v, n)
           t == R!SerializeBits(s, n)
<1>1. /\ Extends(w, q) /\ n \in 1..MaxBits /\ v < 2^n /\ q.at = w.at + n
      /\ \A i \in 0 .. n-1 : w.at + i \in q.ones <=> (v \div 2^i) % 2 = 1
  BY BitsExtend
<1>2. Open(s) /\ s.at = w.at /\ Agrees(q.ones, w.at, q.at) /\ num_bits \in Nat
  BY DEF Over
<1> HIDE DEF q
<1>3. w.at \in Nat /\ n \in Nat /\ q.at \in Nat
  BY <1>1 DEF Writer
<1>4. CASE q.at > num_bits
  <2>1. R!Refuses(s, n) /\ s.failed = Ok
    BY <1>1, <1>2, <1>4 DEF R!Refuses, Open
  <2>2. t = R!Latch(s, "past_end")
    BY <1>1, <2>1, PastEnd DEF R!SerializeBits, R!Refusal
  <2>3. Goes(s, t, q.at)
    BY <1>2, <1>3, <1>4, <2>2, LatchShort, PastEnd
  <2>4. ~(q.at <= num_bits)
    BY <1>2, <1>3, <1>4
  <2> HIDE DEF t
  <2> QED BY <2>3, <2>4 DEF Arrives, q, t
<1>5. CASE q.at <= num_bits
  <2>1. ~R!Refuses(s, n)
    BY <1>1, <1>2, <1>3, <1>5, PastEnd DEF R!Refuses, Open
  <2>2. t = R!ReadBits(s, n)
    BY <1>1, <2>1 DEF R!SerializeBits
  <2>3. R!Value(s.at, n) = v
    <3>1. \A i \in 0 .. n-1 : s.at + i \in packet <=> (v \div 2^i) % 2 = 1
      <4> SUFFICES ASSUME NEW i \in 0 .. n-1
                   PROVE  s.at + i \in packet <=> (v \div 2^i) % 2 = 1
        OBVIOUS
      <4>1. w.at + i \in w.at .. q.at - 1 /\ w.at + i < num_bits
        BY <1>1, <1>2, <1>3, <1>5
      <4>2. w.at + i \in packet <=> w.at + i \in q.ones
        BY <1>2, <4>1 DEF Agrees
      <4> QED BY <1>1, <1>2, <4>2
    <3> QED BY <1>1, <1>2, <1>3, <3>1, ValueOfBits
  <2>4. DOMAIN t = Fields /\ t.dest = s.dest /\ t.at = s.at + n /\ t.failed = s.failed
        /\ t.ret = s.ret /\ t.value = R!Value(s.at, n)
    BY <1>2, <2>2 DEF R!ReadBits, Open, Fields
  <2> HIDE DEF t
  <2>5. ~(q.at > num_bits)
    BY <1>2, <1>3, <1>5
  <2> QED BY <1>1, <1>2, <2>3, <2>4, <2>5 DEF Arrives, Goes, Open, q, t
<1> QED BY <1>2, <1>3, <1>4, <1>5

-----------------------------------------------------------------------------
(* Several groups *)

\* group g of a number, and the groups below g
Digit(v, g) == (v \div 2^(g * MaxBits)) % 2^MaxBits
Below(v, g) == v % 2^(g * MaxBits)

\* One group more.
LEMMA NextDigit ==
  ASSUME NEW v \in Nat, NEW g \in Nat
  PROVE  /\ Digit(v, g) \in Nat /\ Below(v, g) \in Nat
         /\ Below(v, g+1) = Below(v, g) + Digit(v, g) * 2^(g * MaxBits)
<1> DEFINE m == g * MaxBits
<1>1. m \in Nat /\ (g+1) * MaxBits = m + MaxBits
  OBVIOUS
<1> HIDE DEF m
<1>2. v % 2^(m + MaxBits) = (v % 2^m) + ((v \div 2^m) % 2^MaxBits) * 2^m
  BY <1>1, LowDigits
<1>3. v \div 2^m \in Nat /\ v % 2^m \in Nat
  BY <1>1, HighDigits
<1>4. (v \div 2^m) % 2^MaxBits \in Nat
  BY <1>3, HighDigits
<1> QED BY <1>1, <1>2, <1>3, <1>4 DEF Digit, Below, m

\* The group at the top, of n bits, and those below make the number.
LEMMA TopDigit ==
  ASSUME NEW v \in Nat, NEW g \in Nat, NEW n \in 1..MaxBits, v < 2^(g * MaxBits + n)
  PROVE  Digit(v, g) < 2^n /\ v = Below(v, g) + Digit(v, g) * 2^(g * MaxBits)
<1> DEFINE m == g * MaxBits
           d == v \div 2^m
<1>1. m \in Nat /\ n \in Nat /\ n <= MaxBits
  OBVIOUS
<1> HIDE DEF m
<1>2. d \in Nat /\ d < 2^n /\ v = (v % 2^m) + d * 2^m
  BY <1>1, HighDigits DEF m
<1> HIDE DEF d
<1>3. d < 2^MaxBits
  <2> DEFINE x == 2^n
             y == 2^MaxBits
  <2>1. x \in Nat /\ y \in Nat /\ x <= y
    BY <1>1, PowerAbove, PowerOrdered
  <2> HIDE DEF x, y
  <2>2. d < x => d < y
    BY <1>2, <2>1
  <2> QED BY <1>2, <2>2 DEF x, y
<1>4. d % 2^MaxBits = d
  BY <1>2, <1>3, BitsEnd
<1> QED BY <1>2, <1>4 DEF Digit, Below, m, d

\* The lowest group is all there is below the second.
LEMMA FirstDigit ==
  ASSUME NEW v \in Nat
  PROVE  Digit(v, 0) = Below(v, 1) /\ Digit(v, 0) \in Nat
<1>1. 0 * MaxBits = 0 /\ 1 * MaxBits = MaxBits /\ v \div 2^0 = v
  BY PowerZero
<1>2. v % 2^MaxBits \in Nat
  BY HighDigits
<1> QED BY <1>1, <1>2 DEF Digit, Below

\* A group of a number above those that were read.
LEMMA ThenArrives ==
  ASSUME NEW w, Writer(w), NEW p, Extends(w, p), NEW v \in Nat, NEW g \in Nat, NEW n,
         NEW q, q = W!SerializeBits(p, Digit(v, g), n), ~q.trapped,
         NEW s, Over(w, q, s), NEW t, Arrives(s, t, p.at, Below(v, g))
  PROVE  Arrives(s, R!Then(t, n, g * MaxBits), q.at, Below(v, g) + Digit(v, g) * 2^(g * MaxBits))
<1> DEFINE u == R!SerializeBits(t, n)
           d == Digit(v, g)
           b == Below(v, g)
           low == g * MaxBits
           a == [u EXCEPT !.value = t.value + u.value * 2^low]
           then == R!Then(t, n, low)
<1>1. Writer(p) /\ d \in Nat /\ Extends(p, q)
  BY NextDigit, BitsExtend DEF Extends
<1> HIDE DEF d, b, low
<1>2. num_bits \in Nat /\ p.at \in Nat /\ q.at \in Nat /\ p.at <= q.at
  BY <1>1 DEF Over, Extends, Writer
<1>3. then = IF t.ret # Ok THEN t ELSE IF u.ret # Ok THEN u ELSE a
  BY PastEnd DEF R!Then
<1>4. CASE p.at > num_bits
  <2>1. t.ret # Ok /\ q.at > num_bits /\ ~(q.at <= num_bits)
    BY <1>2, <1>4 DEF Arrives, Goes
  <2>2. then = t
    BY <1>3, <2>1
  <2> HIDE DEF then
  <2>3. Arrives(s, then, q.at, b + d * 2^low)
    BY <1>4, <2>1, <2>2 DEF Arrives, Goes
  <2> QED BY <2>3 DEF then, b, d, low
<1>5. CASE p.at <= num_bits
  <2>1. t.ret = Ok /\ t.value = b /\ Goes(s, t, p.at)
    BY <1>5 DEF Arrives, Goes, b
  <2>2. Over(p, q, t)
    BY <1>1, <1>5, <2>1, OverParts
  <2>3. Arrives(t, u, q.at, d)
    BY <1>1, <2>2, BitsArrive DEF d
  <2> HIDE DEF u
  <2>4. CASE q.at > num_bits
    <3>1. then = u
      BY <1>3, <2>1, <2>3, <2>4 DEF Arrives, Goes
    <3>2. ~(q.at <= num_bits) /\ Goes(s, u, q.at)
      BY <1>2, <1>5, <2>1, <2>3, <2>4, GoesOn DEF Arrives
    <3> HIDE DEF then
    <3>3. Arrives(s, then, q.at, b + d * 2^low)
      BY <3>1, <3>2 DEF Arrives
    <3> QED BY <3>3 DEF then, b, d, low
  <2>5. CASE q.at <= num_bits
    <3>1. u.value = d /\ u.ret = Ok /\ Goes(s, u, q.at)
      BY <1>5, <2>1, <2>3, <2>5, GoesOn DEF Arrives, Goes
    <3>2. then = a
      BY <1>3, <2>1, <3>1
    <3>3. /\ DOMAIN a = DOMAIN u /\ a.value = t.value + u.value * 2^low
          /\ a.at = u.at /\ a.failed = u.failed /\ a.ret = u.ret /\ a.dest = u.dest
      BY <3>1 DEF Goes, Fields
    <3> HIDE DEF a, then
    <3>4. Arrives(s, then, q.at, b + d * 2^low)
      BY <2>1, <3>1, <3>2, <3>3 DEF Arrives, Goes
    <3> QED BY <3>4 DEF then, b, d, low
  <2> QED BY <1>2, <2>4, <2>5
<1> QED BY <1>2, <1>4, <1>5

\* The lower groups of a number, one to three of them: written,
LEMMA LowsExtend ==
  ASSUME NEW w, Writer(w), NEW v \in Nat
  PROVE  /\ Extends(w, W!Low(w, v)) /\ Extends(w, W!Low2(w, v)) /\ Extends(w, W!Low3(w, v))
         /\ W!Low(w, v) = W!SerializeBits(w, Digit(v, 0), MaxBits)
         /\ W!Low2(w, v) = W!SerializeBits(W!Low(w, v), Digit(v, 1), MaxBits)
         /\ W!Low3(w, v) = W!SerializeBits(W!Low2(w, v), Digit(v, 2), MaxBits)
         /\ ~W!Low2(w, v).trapped => ~W!Low(w, v).trapped
         /\ ~W!Low3(w, v).trapped => ~W!Low2(w, v).trapped
<1> DEFINE a == W!Low(w, v)
           b == W!Low2(w, v)
           c == W!Low3(w, v)
<1>1. /\ a = W!SerializeBits(w, Digit(v, 0), MaxBits)
      /\ b = W!SerializeBits(a, Digit(v, 1), MaxBits)
      /\ c = W!SerializeBits(b, Digit(v, 2), MaxBits)
  BY DEF W!Low, W!Low2, W!Low3, W!Group, Digit
<1>2. Digit(v, 0) \in Nat /\ Digit(v, 1) \in Nat /\ Digit(v, 2) \in Nat
  BY NextDigit
<1> HIDE DEF a, b, c
<1>3. Extends(w, a) /\ Writer(a)
  BY <1>1, <1>2, BitsExtend DEF Extends
<1>4. Extends(a, b) /\ Writer(b)
  BY <1>1, <1>2, <1>3, BitsExtend DEF Extends
<1>5. Extends(b, c)
  BY <1>1, <1>2, <1>4, BitsExtend
<1>6. Extends(w, b) /\ (~b.trapped => ~a.trapped)
  BY <1>3, <1>4, ExtendsTwice
<1>7. Extends(w, c) /\ (~c.trapped => ~b.trapped)
  BY <1>5, <1>6, ExtendsTwice
<1> QED BY <1>1, <1>3, <1>6, <1>7 DEF a, b, c

\* and read.
LEMMA LowsArrive ==
  ASSUME NEW w, Writer(w), NEW v \in Nat, NEW s
  PROVE  LET r1 == R!Low(s)
             r2 == R!Then(r1, MaxBits, MaxBits)
             r3 == R!Then(r2, MaxBits, 2*MaxBits)
         IN  /\ ~W!Low(w, v).trapped /\ Over(w, W!Low(w, v), s)
                  => Arrives(s, r1, W!Low(w, v).at, Below(v, 1))
             /\ ~W!Low2(w, v).trapped /\ Over(w, W!Low2(w, v), s)
                  => Arrives(s, r2, W!Low2(w, v).at, Below(v, 2))
             /\ ~W!Low3(w, v).trapped /\ Over(w, W!Low3(w, v), s)
                  => Arrives(s, r3, W!Low3(w, v).at, Below(v, 3))
<1> DEFINE a == W!Low(w, v)
           b == W!Low2(w, v)
           c == W!Low3(w, v)
           r1 == R!Low(s)
           r2 == R!Then(r1, MaxBits, MaxBits)
           r3 == R!Then(r2, MaxBits, 2*MaxBits)
<1>1. /\ Extends(w, a) /\ Extends(w, b) /\ Extends(w, c)
      /\ a = W!SerializeBits(w, Digit(v, 0), MaxBits)
      /\ b = W!SerializeBits(a, Digit(v, 1), MaxBits)
      /\ c = W!SerializeBits(b, Digit(v, 2), MaxBits)
      /\ (~b.trapped => ~a.trapped) /\ (~c.trapped => ~b.trapped)
  BY LowsExtend
<1>2. /\ Digit(v, 0) = Below(v, 1) /\ Digit(v, 0) \in Nat /\ Digit(v, 1) \in Nat /\ Digit(v, 2) \in Nat
      /\ Below(v, 2) = Below(v, 1) + Digit(v, 1) * 2^(1 * MaxBits)
      /\ Below(v, 3) = Below(v, 2) + Digit(v, 2) * 2^(2 * MaxBits)
  <2>1. /\ Below(v, 1+1) = Below(v, 1) + Digit(v, 1) * 2^(1 * MaxBits)
        /\ Below(v, 2+1) = Below(v, 2) + Digit(v, 2) * 2^(2 * MaxBits)
        /\ Digit(v, 1) \in Nat /\ Digit(v, 2) \in Nat
    BY NextDigit
  <2>2. 1+1 = 2 /\ 2+1 = 3
    OBVIOUS
  <2> QED BY <2>1, <2>2, FirstDigit
<1>3. Writer(a) /\ Writer(b)
  BY <1>1 DEF Extends
<1>4. Extends(a, b) /\ Extends(b, c)
  <2> HIDE DEF a, b, c
  <2> QED BY <1>1, <1>2, <1>3, BitsExtend
<1>5. r1 = R!SerializeBits(s, MaxBits) /\ 1 * MaxBits = MaxBits
  BY DEF R!Low
<1> HIDE DEF a, b, c, r1
<1>6. ~a.trapped /\ Over(w, a, s) => Arrives(s, r1, a.at, Below(v, 1))
  BY <1>1, <1>2, <1>5, BitsArrive
<1>7. ASSUME ~b.trapped, Over(w, b, s) PROVE Arrives(s, r2, b.at, Below(v, 2))
  <2>1. Over(w, a, s) /\ ~a.trapped
    BY <1>1, <1>4, <1>7, OverParts
  <2>2. Arrives(s, r1, a.at, Below(v, 1))
    BY <1>6, <2>1
  <2>3. Arrives(s, R!Then(r1, MaxBits, 1 * MaxBits), b.at, Below(v, 1) + Digit(v, 1) * 2^(1 * MaxBits))
    BY <1>1, <1>7, <2>2, ThenArrives
  <2> QED BY <1>2, <1>5, <2>3
<1> HIDE DEF r2
<1>8. ASSUME ~c.trapped, Over(w, c, s) PROVE Arrives(s, r3, c.at, Below(v, 3))
  <2>1. Over(w, b, s) /\ ~b.trapped
    BY <1>1, <1>4, <1>8, OverParts
  <2>2. Arrives(s, r2, b.at, Below(v, 2))
    BY <1>7, <2>1
  <2>3. Arrives(s, R!Then(r2, MaxBits, 2 * MaxBits), c.at, Below(v, 2) + Digit(v, 2) * 2^(2 * MaxBits))
    BY <1>1, <1>8, <2>2, ThenArrives
  <2> QED BY <1>2, <2>3
<1> QED BY <1>6, <1>7, <1>8 DEF a, b, c, r1, r2

\* A top group above lower ones that are an extension already.
LEMMA TopExtends ==
  ASSUME NEW w, Writer(w), NEW p, Extends(w, p), NEW v \in Nat, NEW g \in Nat, NEW n
  PROVE  Extends(w, W!SerializeBits(p, Digit(v, g), n))
<1>1. Writer(p) /\ Digit(v, g) \in Nat
  BY NextDigit DEF Extends
<1>2. Extends(p, W!SerializeBits(p, Digit(v, g), n))
  BY <1>1, BitsExtend
<1> QED BY <1>2, ExtendsTwice

\* What the four cases of serialize_offset128 are.
LEMMA OffsetCases ==
  ASSUME NEW w, NEW v, NEW n \in Nat
  PROVE  LET q == W!SerializeOffset(w, v, n) IN
         /\ n <= MaxBits => q = W!SerializeBits(w, Digit(v, 0), n)
         /\ n > MaxBits /\ n <= 2*MaxBits
              => q = W!SerializeBits(W!Low(w, v), Digit(v, 1), n - MaxBits)
         /\ n > 2*MaxBits /\ n <= 3*MaxBits
              => q = W!SerializeBits(W!Low2(w, v), Digit(v, 2), n - 2*MaxBits)
         /\ n > 3*MaxBits
              => q = W!SerializeBits(W!Low3(w, v), Digit(v, 3), n - 3*MaxBits)
<1>1. /\ n <= MaxBits => ~(n > MaxBits /\ n <= 2*MaxBits) /\ ~(n > 2*MaxBits /\ n <= 3*MaxBits)
      /\ n > MaxBits /\ n <= 2*MaxBits => ~(n <= MaxBits) /\ ~(n > 2*MaxBits /\ n <= 3*MaxBits)
      /\ n > 2*MaxBits /\ n <= 3*MaxBits => ~(n <= MaxBits) /\ ~(n > MaxBits /\ n <= 2*MaxBits)
      /\ n > 3*MaxBits => /\ ~(n <= MaxBits) /\ ~(n > MaxBits /\ n <= 2*MaxBits)
                          /\ ~(n > 2*MaxBits /\ n <= 3*MaxBits)
  OBVIOUS
<1>2. W!SerializeOffset(w, v, n) =
        CASE n <= MaxBits                     -> W!SerializeBits(w, Digit(v, 0), n)
          [] n > MaxBits /\ n <= 2*MaxBits    -> W!SerializeBits(W!Low(w, v), Digit(v, 1), n - MaxBits)
          [] n > 2*MaxBits /\ n <= 3*MaxBits  -> W!SerializeBits(W!Low2(w, v), Digit(v, 2), n - 2*MaxBits)
          [] OTHER                            -> W!SerializeBits(W!Low3(w, v), Digit(v, 3), n - 3*MaxBits)
  BY DEF W!SerializeOffset, W!Group, Digit
<1> QED BY <1>1, <1>2

\* Up to four groups: written,
LEMMA OffsetExtends ==
  ASSUME NEW w, Writer(w), NEW v \in Nat, NEW n \in Nat
  PROVE  Extends(w, W!SerializeOffset(w, v, n))
<1>1. /\ Extends(w, W!Low(w, v)) /\ Extends(w, W!Low2(w, v)) /\ Extends(w, W!Low3(w, v))
  BY LowsExtend
<1>2. CASE n <= MaxBits
  <2>1. W!SerializeOffset(w, v, n) = W!SerializeBits(w, Digit(v, 0), n)
    BY <1>2, OffsetCases
  <2> QED BY <2>1, ExtendsItself, TopExtends
<1>3. CASE n > MaxBits /\ n <= 2*MaxBits
  <2>1. W!SerializeOffset(w, v, n) = W!SerializeBits(W!Low(w, v), Digit(v, 1), n - MaxBits)
    BY <1>3, OffsetCases
  <2> QED BY <1>1, <2>1, TopExtends
<1>4. CASE n > 2*MaxBits /\ n <= 3*MaxBits
  <2>1. W!SerializeOffset(w, v, n) = W!SerializeBits(W!Low2(w, v), Digit(v, 2), n - 2*MaxBits)
    BY <1>4, OffsetCases
  <2> QED BY <1>1, <2>1, TopExtends
<1>5. CASE n > 3*MaxBits
  <2>1. W!SerializeOffset(w, v, n) = W!SerializeBits(W!Low3(w, v), Digit(v, 3), n - 3*MaxBits)
    BY <1>5, OffsetCases
  <2> QED BY <1>1, <2>1, TopExtends
<1> QED BY <1>2, <1>3, <1>4, <1>5

\* and read.
LEMMA OffsetArrives ==
  ASSUME NEW w, Writer(w), NEW v \in Nat, NEW n \in 1 .. 4*MaxBits, v < 2^n,
         NEW q, q = W!SerializeOffset(w, v, n), ~q.trapped, NEW s, Over(w, q, s)
  PROVE  Arrives(s, R!SerializeOffset(s, n), q.at, v)
<1> DEFINE r1 == R!Low(s)
           r2 == R!Then(r1, MaxBits, MaxBits)
           r3 == R!Then(r2, MaxBits, 2*MaxBits)
           t == CASE n <= MaxBits -> R!SerializeBits(s, n)
                  [] n > MaxBits /\ n <= 2*MaxBits -> R!Then(r1, n - MaxBits, MaxBits)
                  [] n > 2*MaxBits /\ n <= 3*MaxBits -> R!Then(r2, n - 2*MaxBits, 2*MaxBits)
                  [] OTHER -> R!Then(r3, n - 3*MaxBits, 3*MaxBits)
           u == [t EXCEPT !.trapped = t.trapped \/ n \notin 1 .. 4*MaxBits]
<1>1. R!SerializeOffset(s, n) = u
  BY DEF R!SerializeOffset
<1>2. /\ Extends(w, W!Low(w, v)) /\ Extends(w, W!Low2(w, v)) /\ Extends(w, W!Low3(w, v))
  BY LowsExtend
<1>3. /\ ~W!Low(w, v).trapped /\ Over(w, W!Low(w, v), s) => Arrives(s, r1, W!Low(w, v).at, Below(v, 1))
      /\ ~W!Low2(w, v).trapped /\ Over(w, W!Low2(w, v), s) => Arrives(s, r2, W!Low2(w, v).at, Below(v, 2))
      /\ ~W!Low3(w, v).trapped /\ Over(w, W!Low3(w, v), s) => Arrives(s, r3, W!Low3(w, v).at, Below(v, 3))
  BY LowsArrive
<1>4. n \in Nat /\ MaxBits \in Nat
  OBVIOUS
\* the top group, whichever it is
<1>5. ASSUME NEW p, Extends(w, p), NEW g \in Nat, NEW m \in 1..MaxBits, g * MaxBits + m = n,
             q = W!SerializeBits(p, Digit(v, g), m), NEW r,
             ~p.trapped /\ Over(w, p, s) => Arrives(s, r, p.at, Below(v, g))
      PROVE  Arrives(s, R!Then(r, m, g * MaxBits), q.at, v)
  <2>1. Writer(p) /\ Digit(v, g) \in Nat
    BY <1>5, NextDigit DEF Extends
  <2>2. Extends(p, q)
    BY <1>5, <2>1, BitsExtend
  <2>3. ~p.trapped /\ Over(w, p, s)
    BY <1>5, <2>2, OverParts, ExtendsTwice
  <2>4. Arrives(s, R!Then(r, m, g * MaxBits), q.at, Below(v, g) + Digit(v, g) * 2^(g * MaxBits))
    BY <1>5, <2>3, ThenArrives
  <2>5. v = Below(v, g) + Digit(v, g) * 2^(g * MaxBits)
    BY <1>5, TopDigit
  <2> QED BY <2>4, <2>5
<1> HIDE DEF r1, r2, r3
<1>6. Arrives(s, t, q.at, v)
  <2>1. CASE n <= MaxBits
    <3>1. t = R!SerializeBits(s, n) /\ n \in 1..MaxBits
      BY <2>1
    <3>2. q = W!SerializeBits(w, Digit(v, 0), n)
      BY <2>1, OffsetCases
    <3>3. 0 * MaxBits = 0 /\ 0 * MaxBits + n = n
      BY <1>4
    <3>4. Digit(v, 0) = v
      <4>1. v = Below(v, 0) + Digit(v, 0) * 2^(0 * MaxBits) /\ Digit(v, 0) \in Nat
        BY <3>1, <3>3, TopDigit, FirstDigit
      <4>2. Below(v, 0) = 0
        <5>1. v % 2^0 = 0
          BY PowerZero
        <5> QED BY <3>3, <5>1 DEF Below
      <4>3. 2^(0 * MaxBits) = 1
        BY <3>3, PowerZero
      <4> QED BY <4>1, <4>2, <4>3
    <3> HIDE DEF t
    <3> QED BY <3>1, <3>2, <3>4, BitsArrive
  <2>2. CASE n > MaxBits /\ n <= 2*MaxBits
    <3>1. t = R!Then(r1, n - MaxBits, MaxBits)
      BY <2>2
    <3>2. q = W!SerializeBits(W!Low(w, v), Digit(v, 1), n - MaxBits)
      BY <2>2, OffsetCases
    <3>3. n - MaxBits \in 1..MaxBits /\ 1 * MaxBits = MaxBits /\ MaxBits + (n - MaxBits) = n /\ 1 \in Nat
      BY <1>4, <2>2
    <3> HIDE DEF t
    <3>4. Arrives(s, R!Then(r1, n - MaxBits, 1 * MaxBits), q.at, v)
      BY <1>2, <1>3, <1>5, <3>2, <3>3
    <3> QED BY <3>1, <3>3, <3>4
  <2>3. CASE n > 2*MaxBits /\ n <= 3*MaxBits
    <3>1. t = R!Then(r2, n - 2*MaxBits, 2*MaxBits)
      BY <2>3
    <3>2. q = W!SerializeBits(W!Low2(w, v), Digit(v, 2), n - 2*MaxBits)
      BY <2>3, OffsetCases
    <3>3. n - 2*MaxBits \in 1..MaxBits /\ 2*MaxBits + (n - 2*MaxBits) = n /\ 2 \in Nat
      BY <1>4, <2>3
    <3> HIDE DEF t
    <3>4. Arrives(s, R!Then(r2, n - 2*MaxBits, 2 * MaxBits), q.at, v)
      BY <1>2, <1>3, <1>5, <3>2, <3>3
    <3> QED BY <3>1, <3>4
  <2>4. CASE n > 3*MaxBits
    <3>1. t = R!Then(r3, n - 3*MaxBits, 3*MaxBits)
      BY <2>4
    <3>2. q = W!SerializeBits(W!Low3(w, v), Digit(v, 3), n - 3*MaxBits)
      BY <2>4, OffsetCases
    <3>3. n - 3*MaxBits \in 1..MaxBits /\ 3*MaxBits + (n - 3*MaxBits) = n /\ 3 \in Nat
      BY <1>4, <2>4
    <3> HIDE DEF t
    <3>4. Arrives(s, R!Then(r3, n - 3*MaxBits, 3 * MaxBits), q.at, v)
      BY <1>2, <1>3, <1>5, <3>2, <3>3
    <3> QED BY <3>1, <3>4
  <2> QED BY <1>4, <2>1, <2>2, <2>3, <2>4
<1>7. DOMAIN u = DOMAIN t /\ (DOMAIN t = Fields =>
        u.at = t.at /\ u.failed = t.failed /\ u.ret = t.ret /\ u.dest = t.dest /\ u.value = t.value)
  BY DEF Fields
<1> HIDE DEF t, u
<1> QED BY <1>1, <1>6, <1>7 DEF Arrives, Goes

\* A method that, where another arrived with a value, goes on with one made of it, and otherwise
\* leaves its refusal.
LEMMA Revalued ==
  ASSUME NEW s, NEW t, NEW b \in Nat, num_bits \in Nat, NEW v, Arrives(s, t, b, v), NEW u, NEW x,
         t.ret # Ok => u = t,
         t.ret = Ok /\ t.value = v => u = [t EXCEPT !.value = x]
  PROVE  Arrives(s, u, b, x)
<1>1. CASE b > num_bits
  <2>1. u = t /\ ~(b <= num_bits)
    BY <1>1 DEF Arrives, Goes
  <2> QED BY <2>1 DEF Arrives
<1>2. CASE b <= num_bits
  <2>1. u = [t EXCEPT !.value = x] /\ DOMAIN t = Fields /\ ~(b > num_bits)
    BY <1>2 DEF Arrives, Goes
  <2>2. /\ DOMAIN u = Fields /\ u.value = x /\ u.at = t.at /\ u.failed = t.failed
        /\ u.ret = t.ret /\ u.dest = t.dest
    BY <2>1 DEF Fields
  <2> QED BY <1>2, <2>1, <2>2 DEF Arrives, Goes
<1> QED BY <1>1, <1>2

\* A method that only checks the value that another arrived with.
LEMMA Checked ==
  ASSUME NEW s, NEW t, NEW b \in Nat, num_bits \in Nat, NEW v, Arrives(s, t, b, v), NEW u,
         t.ret # Ok => u = t,
         t.ret = Ok /\ t.value = v => u = t
  PROVE  Arrives(s, u, b, v)
<1>1. u = t
  BY DEF Arrives, Goes
<1> QED BY <1>1

-----------------------------------------------------------------------------
(* Numbers *)

\* Ranged integers: written,
LEMMA IntExtends ==
  ASSUME NEW w, Writer(w), NEW v \in Int, NEW min \in Int, NEW max \in Int,
         min < max => BitsRequired(max - min) \in 1 .. 4*MaxBits
  PROVE  LET q == W!SerializeInt(w, v, min, max) IN
         /\ Extends(w, q)
         /\ ~q.trapped /\ min # max => /\ min < max /\ v \in min..max
                                       /\ q = W!SerializeOffset(w, v - min, BitsRequired(max - min))
<1> DEFINE c == min <= max
           d == v \in min..max
           p == W!Assert(w, c)
           r == W!Assert(p, d)
           n == BitsRequired(max - min)
           q == W!SerializeInt(w, v, min, max)
<1>1. q = IF min = max THEN w ELSE IF r.trapped THEN r ELSE W!SerializeOffset(r, v - min, n)
  BY SameFormat DEF W!SerializeInt
<1>2. Extends(w, p) /\ (~p.trapped => p = w /\ c)
  <2>1. c \in BOOLEAN
    OBVIOUS
  <2> HIDE DEF c
  <2> QED BY <2>1, Asserts
<1>3. Extends(p, r) /\ (~r.trapped => r = p /\ d /\ ~p.trapped)
  <2>1. d \in BOOLEAN /\ Writer(p)
    BY <1>2 DEF Extends
  <2> HIDE DEF d, p
  <2> QED BY <2>1, Asserts
<1> HIDE DEF p, r, n, q
<1>4. Extends(w, r)
  BY <1>2, <1>3, ExtendsTwice
<1>5. CASE min = max
  BY <1>1, <1>5, ExtendsItself DEF q
<1>6. CASE min # max /\ r.trapped
  BY <1>1, <1>4, <1>6 DEF q
<1>7. CASE min # max /\ ~r.trapped
  <2>1. r = w /\ min < max /\ v \in min..max
    BY <1>2, <1>3, <1>7
  <2>2. v - min \in Nat /\ n \in Nat
    BY <2>1 DEF n
  <2>3. q = W!SerializeOffset(w, v - min, n)
    BY <1>1, <1>7, <2>1
  <2> QED BY <2>1, <2>2, <2>3, OffsetExtends DEF n, q
<1> QED BY <1>5, <1>6, <1>7

\* and read.
LEMMA IntArrives ==
  ASSUME NEW w, Writer(w), NEW v \in Int, NEW min \in Int, NEW max \in Int,
         min < max => BitsRequired(max - min) \in 1 .. 4*MaxBits, min = max => v = min,
         NEW q, q = W!SerializeInt(w, v, min, max), ~q.trapped, NEW s, Over(w, q, s)
  PROVE  Arrives(s, R!SerializeInt(s, min, max), q.at, v)
<1> DEFINE t == R!SerializeInt(s, min, max)
<1>1. Extends(w, q) /\ q.at \in Nat /\ num_bits \in Nat
  BY IntExtends DEF Over, Extends, Writer
<1>2. CASE min = max
  <2>1. q = w
    BY <1>2 DEF W!SerializeInt
  <2>2. t = [[s EXCEPT !.ret = s.failed] EXCEPT !.value = min]
    BY <1>2 DEF R!SerializeInt, R!Gate
  <2>3. Open(s) /\ s.at = w.at /\ s.at <= num_bits /\ ~(s.at > num_bits)
    BY <1>1 DEF Over, Open
  <2>4. /\ DOMAIN t = Fields /\ t.at = s.at /\ t.failed = Ok /\ t.ret = Ok /\ t.dest = s.dest
        /\ t.value = min
    BY <2>2, <2>3 DEF Open, Fields
  <2> HIDE DEF t
  <2>5. Arrives(s, t, q.at, v)
    BY <1>2, <2>1, <2>3, <2>4 DEF Arrives, Goes
  <2> QED BY <2>5 DEF t
<1>3. CASE min # max
  <2> DEFINE n == BitsRequired(max - min)
             o == R!SerializeOffset(s, n)
  <2>1. min < max /\ v \in min..max /\ q = W!SerializeOffset(w, v - min, n)
    BY <1>3, IntExtends
  <2>2. n \in 1 .. 4*MaxBits /\ v - min \in Nat /\ v - min <= max - min /\ max - min \in Nat
    BY <2>1
  <2>3. v - min < 2^n
    <3>1. max - min < 2^n /\ 2^n \in Nat
      BY <2>2, BitsRequiredHolds, PowerAbove
    <3> DEFINE x == 2^n
               y == v - min
               z == max - min
    <3> HIDE DEF n, x, y, z
    <3>2. y \in Nat /\ z \in Nat /\ y <= z /\ z < x /\ x \in Nat
      BY <2>2, <3>1 DEF x, y, z
    <3>3. y < x
      BY <3>2
    <3> QED BY <3>3 DEF x, y
  <2> HIDE DEF n
  <2>4. Arrives(s, o, q.at, v - min)
    BY <2>1, <2>2, <2>3, OffsetArrives
  <2>5. t = IF o.ret # Ok THEN o
            ELSE IF o.value > max - min THEN R!Latch(o, "value_out_of_range")
            ELSE [o EXCEPT !.value = min + o.value]
    BY <1>3, <2>1, PastEnd, SameFormat DEF R!SerializeInt, R!Offset, n
  <2>6. ~(v - min > max - min) /\ min + (v - min) = v
    BY <2>1
  <2> HIDE DEF o, t
  <2>7. o.ret = Ok /\ o.value = v - min => t = [o EXCEPT !.value = v]
    BY <2>5, <2>6
  <2>8. Arrives(s, t, q.at, v)
    BY <1>1, <2>4, <2>5, <2>7, Revalued
  <2> QED BY <2>8 DEF t
<1> QED BY <1>2, <1>3

\* serialize_bits64: written,
LEMMA Bits64Extends ==
  ASSUME NEW w, Writer(w), NEW v \in Nat, NEW n
  PROVE  LET q == W!SerializeBits64(w, v, n) IN
         /\ Extends(w, q)
         /\ ~q.trapped => n \in 1 .. 2*MaxBits /\ v < 2^n /\ q = W!SerializeOffset(w, v, n)
<1> DEFINE c == n \in 1 .. 2*MaxBits /\ v < 2^n
           p == W!Assert(w, c)
           q == W!SerializeBits64(w, v, n)
<1>1. q = IF p.trapped THEN p ELSE W!SerializeOffset(p, v, n)
  BY DEF W!SerializeBits64
<1>2. Extends(w, p) /\ (~p.trapped => p = w /\ c)
  <2>1. c \in BOOLEAN
    OBVIOUS
  <2> HIDE DEF c
  <2> QED BY <2>1, Asserts
<1> HIDE DEF p, q
<1>3. CASE p.trapped
  BY <1>1, <1>2, <1>3 DEF q
<1>4. CASE ~p.trapped
  <2>1. p = w /\ n \in Nat /\ q = W!SerializeOffset(w, v, n)
    BY <1>1, <1>2, <1>4
  <2> QED BY <1>2, <1>4, <2>1, OffsetExtends DEF q
<1> QED BY <1>3, <1>4

\* and read.
LEMMA Bits64Arrives ==
  ASSUME NEW w, Writer(w), NEW v \in Nat, NEW n,
         NEW q, q = W!SerializeBits64(w, v, n), ~q.trapped, NEW s, Over(w, q, s)
  PROVE  Arrives(s, R!SerializeBits64(s, n), q.at, v)
<1>1. n \in 1 .. 2*MaxBits /\ v < 2^n /\ q = W!SerializeOffset(w, v, n)
  BY Bits64Extends
<1>2. n \in 1 .. 4*MaxBits
  BY <1>1
<1>3. R!SerializeBits64(s, n) = R!SerializeOffset(s, n)
  BY <1>1 DEF R!SerializeBits64
<1> QED BY <1>1, <1>2, <1>3, OffsetArrives

\* A writer w wrote p and then q; a reader s reads a where p ends and from there b where q ends.
Parts(w, p, q, s, t, a, u, b) ==
  /\ Writer(w) /\ Extends(w, p) /\ Extends(p, q) /\ ~q.trapped /\ Over(w, q, s)
  /\ Over(w, p, s) /\ ~p.trapped => Arrives(s, t, p.at, a)
  /\ Over(p, q, t) /\ t.value = a => Arrives(t, u, q.at, b)

\* r is the first refusal of t and u, or x made of both values
Joins(t, a, u, b, r, x) ==
  /\ t.ret # Ok => r = t
  /\ t.ret = Ok /\ t.value = a /\ u.ret # Ok => r = u
  /\ t.ret = Ok /\ t.value = a /\ u.ret = Ok /\ u.value = b
       => r = [u EXCEPT !.value = x] \/ (r = u /\ x = b)

\* Two methods one after the other arrive when each does.
LEMMA InTurn ==
  ASSUME NEW w, NEW p, NEW q, NEW s, NEW t, NEW a, NEW u, NEW b, NEW r, NEW x,
         Parts(w, p, q, s, t, a, u, b), Joins(t, a, u, b, r, x)
  PROVE  Arrives(s, r, q.at, x)
<1> USE DEF Parts, Joins
<1>1. num_bits \in Nat /\ p.at \in Nat /\ q.at \in Nat /\ p.at <= q.at
  BY DEF Over, Extends, Writer
<1>2. Arrives(s, t, p.at, a)
  BY OverParts, ExtendsTwice
<1>3. CASE p.at > num_bits
  <2>1. r = t /\ q.at > num_bits /\ ~(q.at <= num_bits)
    BY <1>1, <1>2, <1>3 DEF Arrives, Goes
  <2> QED BY <1>2, <1>3, <2>1 DEF Arrives, Goes
<1>4. CASE p.at <= num_bits
  <2>1. t.ret = Ok /\ t.value = a /\ Goes(s, t, p.at)
    BY <1>2, <1>4 DEF Arrives, Goes
  <2>2. Arrives(t, u, q.at, b)
    BY <1>4, <2>1, OverParts
  <2>3. Arrives(s, u, q.at, b)
    BY <1>4, <2>1, <2>2, GoesOn DEF Arrives
  <2>4. u.ret # Ok => r = u
    BY <2>1
  <2>5. CASE q.at > num_bits
    <3>1. r = u /\ ~(q.at <= num_bits)
      BY <1>1, <2>3, <2>4, <2>5 DEF Arrives, Goes
    <3> QED BY <2>3, <3>1 DEF Arrives
  <2>6. CASE q.at <= num_bits
    <3>1. u.ret = Ok /\ u.value = b
      BY <2>3, <2>6 DEF Arrives, Goes
    <3>2. CASE r = u /\ x = b
      BY <2>3, <3>2
    <3>3. CASE r = [u EXCEPT !.value = x]
      BY <1>1, <2>3, <2>4, <3>1, <3>3, Revalued
    <3> QED BY <2>1, <3>1, <3>2, <3>3
  <2> QED BY <1>1, <2>5, <2>6
<1> QED BY <1>1, <1>3, <1>4

\* serialize_u128: written,
LEMMA U128Extends ==
  ASSUME NEW w, Writer(w), NEW v \in Nat
  PROVE  LET p == W!SerializeBits64(w, v % 2^(2*MaxBits), 2*MaxBits)
             q == W!SerializeU128(w, v)
         IN  Extends(w, p) /\ Extends(p, q) /\ Extends(w, q)
<1> DEFINE m == 2*MaxBits
           p == W!SerializeBits64(w, v % 2^m, m)
           q == W!SerializeU128(w, v)
<1>1. q = W!SerializeBits64(p, v \div 2^m, m)
  BY DEF W!SerializeU128
<1>2. m \in Nat
  OBVIOUS
<1>3. v % 2^m \in Nat /\ v \div 2^m \in Nat
  BY <1>2, HighDigits
<1>4. Extends(w, p)
  BY <1>3, Bits64Extends
<1>5. Extends(p, q)
  <2>1. Writer(p)
    BY <1>4 DEF Extends
  <2> HIDE DEF p, m, q
  <2> QED BY <1>1, <1>3, <2>1, Bits64Extends
<1> HIDE DEF p, q
<1> QED BY <1>4, <1>5, ExtendsTwice DEF p, q

\* and read.
LEMMA U128Arrives ==
  ASSUME NEW w, Writer(w), NEW v \in Nat,
         NEW q, q = W!SerializeU128(w, v), ~q.trapped, NEW s, Over(w, q, s)
  PROVE  Arrives(s, R!SerializeU128(s), q.at, v)
<1> DEFINE m == 2*MaxBits
           a == v % 2^m
           b == v \div 2^m
           p == W!SerializeBits64(w, a, m)
           t == R!SerializeBits64(s, m)
           u == R!SerializeBits64(t, m)
           r == R!SerializeU128(s)
<1>1. Extends(w, p) /\ Extends(p, q)
  BY U128Extends
<1>2. q = W!SerializeBits64(p, b, m)
  BY DEF W!SerializeU128
<1>3. r = IF t.ret # Ok THEN t ELSE IF u.ret # Ok THEN u
          ELSE [u EXCEPT !.value = t.value + u.value * 2^m]
  BY PastEnd DEF R!SerializeU128
<1>4. a \in Nat /\ b \in Nat /\ v = a + b * 2^m
  <2>1. m \in Nat
    OBVIOUS
  <2> HIDE DEF m
  <2> QED BY <2>1, HighDigits
<1>5. Over(w, p, s) /\ ~p.trapped => Arrives(s, t, p.at, a)
  BY <1>4, Bits64Arrives
<1>6. Writer(p)
  BY <1>1 DEF Extends
<1> HIDE DEF m, a, b, p
<1>7. Over(p, q, t) /\ t.value = a => Arrives(t, u, q.at, b)
  BY <1>2, <1>4, <1>6, Bits64Arrives
<1> HIDE DEF t, u, r
<1>8. Joins(t, a, u, b, r, v)
  BY <1>3, <1>4 DEF Joins
<1>9. Parts(w, p, q, s, t, a, u, b)
  BY <1>1, <1>5, <1>7 DEF Parts
<1>10. Arrives(s, r, q.at, v)
  BY <1>8, <1>9, InTurn
<1> QED BY <1>10 DEF r

\* serialize_float and serialize_double: written,
LEMMA FloatExtends ==
  ASSUME NEW w, Writer(w), NEW v \in Nat, NEW n, NEW fraction
  PROVE  LET q == W!SerializeFloat(w, v, n, fraction) IN
         /\ Extends(w, q)
         /\ ~q.trapped => Finite(v, n, fraction) /\ q = W!SerializeBits64(w, v, n)
<1> DEFINE c == W!Finite(v, n, fraction)
           p == W!Assert(w, c)
           q == W!SerializeFloat(w, v, n, fraction)
<1>1. q = W!SerializeBits64(p, v, n)
  BY DEF W!SerializeFloat
<1>2. c = Finite(v, n, fraction) /\ c \in BOOLEAN
  <2>1. c \in BOOLEAN
    BY DEF W!Finite
  <2> QED BY <2>1, SameFormat
<1>3. Extends(w, p) /\ (~p.trapped => p = w /\ c)
  <2> HIDE DEF c
  <2> QED BY <1>2, Asserts
<1> HIDE DEF c, p, q
<1>4. Writer(p)
  BY <1>3 DEF Extends
<1>5. Extends(p, q)
  BY <1>1, <1>4, Bits64Extends
<1>6. Extends(w, q) /\ (~q.trapped => ~p.trapped)
  BY <1>3, <1>5, ExtendsTwice
<1> QED BY <1>1, <1>2, <1>3, <1>6 DEF q

\* and read.
LEMMA FloatArrives ==
  ASSUME NEW w, Writer(w), NEW v \in Nat, NEW n, NEW fraction,
         NEW q, q = W!SerializeFloat(w, v, n, fraction), ~q.trapped, NEW s, Over(w, q, s)
  PROVE  Arrives(s, R!SerializeFloat(s, n, fraction), q.at, v)
<1> DEFINE t == R!SerializeBits64(s, n)
           u == R!SerializeFloat(s, n, fraction)
<1>1. Finite(v, n, fraction) /\ q = W!SerializeBits64(w, v, n) /\ Extends(w, q)
  BY FloatExtends
<1>2. Arrives(s, t, q.at, v)
  BY <1>1, Bits64Arrives
<1>3. u = IF t.ret = Ok /\ ~Finite(t.value, n, fraction) THEN R!Latch(t, "non_finite_float") ELSE t
  BY PastEnd, SameFormat DEF R!SerializeFloat
<1>4. q.at \in Nat /\ num_bits \in Nat
  BY <1>1 DEF Extends, Writer, Over
<1> HIDE DEF t, u
<1>5. (t.ret # Ok => u = t) /\ (t.ret = Ok /\ t.value = v => u = t)
  BY <1>1, <1>3
<1>6. Arrives(s, u, q.at, v)
  BY <1>2, <1>4, <1>5, Checked
<1> QED BY <1>6 DEF u

\* A code of a compressed float is one that its declaration counts.
LEMMA QuantumFits ==
  ASSUME NEW halves \in Int, NEW max \in Nat
  PROVE  W!Quantum(halves, max) \in 0..max
<1> DEFINE code == (halves + 1) \div 2
<1>1. W!Quantum(halves, max) = IF halves < 0 THEN 0 ELSE IF code > max THEN max ELSE code
  BY DEF W!Quantum
<1>2. code \in Int /\ (halves >= 0 => code >= 0)
  OBVIOUS
<1> HIDE DEF code
<1> QED BY <1>1, <1>2

\* Compressed floats: written,
LEMMA CompressedExtends ==
  ASSUME NEW w, Writer(w), NEW f, f.max \in Nat, NEW finite, NEW halves \in Int
  PROVE  LET q == W!SerializeCompressedFloat(w, f, finite, halves) IN
         /\ Extends(w, q)
         /\ ~q.trapped => /\ f.declared /\ f.top = f.max
                          /\ q = W!SerializeBits(w, W!Quantum(halves, f.max), BitsRequired(f.max))
<1> DEFINE c == f.declared /\ finite /\ f.top = f.max
           p == W!Assert(w, c)
           v == W!Quantum(halves, f.max)
           n == BitsRequired(f.max)
           q == W!SerializeCompressedFloat(w, f, finite, halves)
<1>1. q = W!SerializeBits(p, v, n)
  BY SameFormat DEF W!SerializeCompressedFloat
<1>2. Extends(w, p) /\ (~p.trapped => p = w /\ c)
  <2>1. c \in BOOLEAN
    OBVIOUS
  <2> HIDE DEF c
  <2> QED BY <2>1, Asserts
<1>3. v \in Nat
  <2>1. v \in 0 .. f.max
    BY QuantumFits
  <2> HIDE DEF v
  <2> QED BY <2>1
<1> HIDE DEF p, v, n, q
<1>4. Writer(p)
  BY <1>2 DEF Extends
<1>5. Extends(p, q)
  BY <1>1, <1>3, <1>4, BitsExtend
<1>6. Extends(w, q) /\ (~q.trapped => ~p.trapped)
  BY <1>2, <1>5, ExtendsTwice
<1> QED BY <1>1, <1>2, <1>6 DEF q, v, n

\* and read.
LEMMA CompressedArrives ==
  ASSUME NEW w, Writer(w), NEW f, f.max \in Nat, NEW finite, NEW halves \in Int,
         NEW q, q = W!SerializeCompressedFloat(w, f, finite, halves), ~q.trapped,
         NEW s, Over(w, q, s)
  PROVE  Arrives(s, R!SerializeCompressedFloat(s, f), q.at, W!Quantum(halves, f.max))
<1> DEFINE n == BitsRequired(f.max)
           v == W!Quantum(halves, f.max)
           t == R!SerializeBits(s, n)
           u == R!SerializeCompressedFloat(s, f)
<1>1. f.declared /\ f.top = f.max /\ q = W!SerializeBits(w, v, n) /\ Extends(w, q)
  BY CompressedExtends
<1>2. v \in Nat /\ v <= f.max /\ ~(v > f.max)
  <2>1. v \in 0 .. f.max
    BY QuantumFits
  <2> HIDE DEF v
  <2> QED BY <2>1
<1>3. u = IF t.ret # Ok THEN t
          ELSE IF t.value > f.max THEN R!Latch(t, "value_out_of_range")
          ELSE IF t.value > f.top THEN R!Latch(t, "non_finite_float") ELSE t
  BY <1>1, PastEnd, SameFormat DEF R!SerializeCompressedFloat
<1> HIDE DEF v, n
<1>4. Arrives(s, t, q.at, v)
  BY <1>1, <1>2, BitsArrive
<1>5. q.at \in Nat /\ num_bits \in Nat
  BY <1>1 DEF Extends, Writer, Over
<1> HIDE DEF t, u
<1>6. (t.ret # Ok => u = t) /\ (t.ret = Ok /\ t.value = v => u = t)
  BY <1>1, <1>2, <1>3
<1>7. Arrives(s, u, q.at, v)
  BY <1>4, <1>5, <1>6, Checked
<1> QED BY <1>7 DEF u, v

\* The types of a fixed point declaration.
Fixable(f) ==
  /\ f.integer \in Nat /\ f.fraction \in Nat /\ f.storage \in Nat
  /\ f.min \in Signed64 /\ f.max \in Signed64
  /\ LET min == f.min * 2^f.fraction
         max == f.max * 2^f.fraction
     IN  FixedDeclared(f) /\ min < max => BitsRequired(max - min) \in 1 .. 4*MaxBits

\* A value that its storage holds is stored as itself: the wrapping of fixed point is exact.
LEMMA WrapIsExact ==
  ASSUME NEW f, Fixable(f), FixedDeclared(f),
         NEW v \in f.min * 2^f.fraction .. f.max * 2^f.fraction
  PROVE  R!Wrap(v, f.storage, f.signed) = v
<1> DEFINE I == f.integer
           F == f.fraction
           S == f.storage
           p == 2^F
           min == f.min
           max == f.max
<1>1. I \in Nat /\ F \in Nat /\ I >= 1 /\ S = I + F /\ min \in Int /\ max \in Int /\ p \in Nat /\ p > 0
  <2>1. f.integer \in Nat /\ f.fraction \in Nat /\ f.min \in Int /\ f.max \in Int
    <3> DEFINE h == 2^(2*MaxBits-1)
    <3>1. h \in Nat
      BY PowerAbove
    <3>2. /\ f.integer \in Nat /\ f.fraction \in Nat
          /\ f.min \in -h .. h - 1 /\ f.max \in -h .. h - 1
      BY DEF Fixable, Signed64
    <3> HIDE DEF h
    <3> QED BY <3>1, <3>2
  <2>2. f.integer >= 1 /\ f.storage = f.integer + f.fraction
    BY DEF FixedDeclared
  <2> QED BY <2>1, <2>2, PowerAbove
<1>2. v \in min * p .. max * p
  OBVIOUS
<1>3. CASE f.signed
  <2> DEFINE d == 2^(I-1)
             h == 2^(S-1)
             w == 2^S
  <2>1. I - 1 \in Nat /\ (I - 1) + F = S - 1 /\ S - 1 \in Nat /\ (S - 1) + 1 = S
    BY <1>1
  <2>2. d \in Nat /\ d > 0 /\ h = d * p /\ w = 2 * h /\ h \in Nat /\ h > 0
    <3>1. 2^(I-1) \in Nat /\ 2^(I-1) > 0 /\ 2^(S-1) \in Nat /\ 2^(S-1) > 0
      BY <2>1, PowerAbove
    <3>2. 2^((I-1)+F) = 2^(I-1) * 2^F
      BY <1>1, <2>1, PowerSum
    <3>3. 2^((S-1)+1) = 2 * 2^(S-1)
      BY <2>1, PowerStep
    <3> QED BY <2>1, <3>1, <3>2, <3>3
  <2>3. min >= -d /\ max <= d - 1
    BY <1>3 DEF FixedDeclared
  <2>4. R!Wrap(v, S, f.signed) = LET u == v % w IN IF u >= h THEN u - w ELSE u
    BY <1>3 DEF R!Wrap
  <2> HIDE DEF I, F, S, p, min, max, d, h, w
  <2>5. min * p >= -h /\ max * p <= h - p
    <3>1. (min + d) * p >= 0 /\ (d - 1 - max) * p >= 0
      BY <1>1, <2>2, <2>3
    <3>2. (min + d) * p = min * p + d * p /\ (d - 1 - max) * p = d * p - p - max * p
      BY <1>1, <2>2
    <3>3. min * p \in Int /\ max * p \in Int /\ d * p \in Int
      BY <1>1, <2>2
    <3> QED BY <1>1, <2>2, <3>1, <3>2, <3>3
  <2>6. v \in -h .. h - 1
    <3>1. min * p \in Int /\ max * p \in Int
      BY <1>1
    <3> QED BY <1>1, <1>2, <2>2, <2>5, <3>1
  <2>7. CASE v >= 0
    <3>1. v % w = v
      BY <2>2, <2>6, <2>7
    <3> QED BY <2>2, <2>4, <2>6, <3>1 DEF S
  <2>8. CASE v < 0
    <3>1. v \in -w .. -1 /\ w \in Nat \ {0}
      BY <2>2, <2>6, <2>8
    <3>2. v % w = v + w
      BY <3>1, ModNegative
    <3>3. v + w >= h
      BY <2>2, <2>6
    <3> QED BY <2>2, <2>4, <2>6, <3>2, <3>3 DEF S
  <2> QED BY <2>6, <2>7, <2>8
<1>4. CASE ~f.signed
  <2> DEFINE d == 2^I
             w == 2^S
  <2>1. d \in Nat /\ w = d * p /\ w \in Nat /\ w > 0
    <3>1. 2^I \in Nat
      BY <1>1, PowerAbove
    <3>2. S \in Nat
      BY <1>1
    <3>3. 2^S \in Nat /\ 2^S > 0
      BY <3>2, PowerAbove
    <3>4. 2^(I+F) = 2^I * 2^F
      BY <1>1, PowerSum
    <3> QED BY <1>1, <3>1, <3>3, <3>4
  <2>2. min >= 0 /\ max < d
    <3>1. min >= 0 /\ (I >= 2*MaxBits \/ max < d)
      BY <1>4 DEF FixedDeclared
    <3>2. CASE I >= 2*MaxBits
      <4> DEFINE e == 2^(2*MaxBits-1)
      <4>1. 2*MaxBits - 1 \in Nat /\ 2*MaxBits - 1 <= I
        BY <1>1, <3>2
      <4>2. e <= d /\ e \in Nat
        BY <1>1, <4>1, PowerOrdered, PowerAbove
      <4>3. max \in -e .. e - 1
        BY DEF Fixable, Signed64
      <4> HIDE DEF e, d, max
      <4>4. max < d
        BY <2>1, <4>2, <4>3
      <4> QED BY <3>1, <4>4
    <3> QED BY <3>1, <3>2
  <2>3. R!Wrap(v, S, f.signed) = v % w
    BY <1>4 DEF R!Wrap
  <2> HIDE DEF I, F, S, p, min, max, d, w
  <2>4. min * p >= 0 /\ max * p <= d * p - p
    <3>1. min * p >= 0 /\ (d - 1 - max) * p >= 0
      BY <1>1, <2>1, <2>2
    <3>2. (d - 1 - max) * p = d * p - p - max * p
      BY <1>1, <2>1
    <3>3. max * p \in Int /\ d * p \in Int
      BY <1>1, <2>1
    <3> QED BY <1>1, <3>1, <3>2, <3>3
  <2>5. v \in 0 .. w - 1
    <3>1. min * p \in Int /\ max * p \in Int
      BY <1>1
    <3> QED BY <1>1, <1>2, <2>1, <2>4, <3>1
  <2>6. v % w = v
    BY <2>1, <2>5
  <2> QED BY <2>3, <2>6 DEF S
<1> QED BY <1>3, <1>4

\* Fixed point: written,
LEMMA FixedExtends ==
  ASSUME NEW w, Writer(w), NEW v \in Int, NEW f, Fixable(f)
  PROVE  LET q == W!SerializeFixed(w, v, f)
             min == f.min * 2^f.fraction
             max == f.max * 2^f.fraction
         IN  /\ Extends(w, q) /\ min \in Int /\ max \in Int
             /\ ~q.trapped => /\ FixedDeclared(f) /\ v \in min..max
                              /\ q = W!SerializeInt(w, v, min, max)
                              /\ (min < max => BitsRequired(max - min) \in 1 .. 4*MaxBits)
<1> DEFINE min == f.min * 2^f.fraction
           max == f.max * 2^f.fraction
           c == FixedDeclared(f) /\ v \in min..max
           p == W!Assert(w, c)
           q == W!SerializeFixed(w, v, f)
<1>1. min \in Int /\ max \in Int
  <2> DEFINE h == 2^(2*MaxBits-1)
  <2>1. 2*MaxBits - 1 \in Nat
    OBVIOUS
  <2>2. h \in Nat /\ 2^f.fraction \in Nat
    BY <2>1, PowerAbove DEF Fixable
  <2>3. f.min \in -h .. h-1 /\ f.max \in -h .. h-1
    BY DEF Fixable, Signed64
  <2> HIDE DEF h
  <2>4. f.min \in Int /\ f.max \in Int
    BY <2>2, <2>3
  <2> QED BY <2>2, <2>4
<1>2. q = IF p.trapped THEN p ELSE W!SerializeInt(p, v, min, max)
  BY SameFormat DEF W!SerializeFixed
<1>3. Extends(w, p) /\ (~p.trapped => p = w /\ c)
  <2>1. c \in BOOLEAN
    OBVIOUS
  <2> HIDE DEF c
  <2> QED BY <2>1, Asserts
<1>4. c /\ min < max => BitsRequired(max - min) \in 1 .. 4*MaxBits
  BY DEF Fixable
<1> HIDE DEF p, q, min, max
<1>5. CASE p.trapped
  BY <1>1, <1>2, <1>3, <1>5 DEF q, min, max
<1>6. CASE ~p.trapped
  <2>1. q = W!SerializeInt(w, v, min, max) /\ c
    BY <1>2, <1>3, <1>6
  <2>2. Extends(w, q)
    BY <1>1, <1>4, <2>1, IntExtends
  <2> QED BY <1>1, <1>4, <2>1, <2>2 DEF q, min, max
<1> QED BY <1>5, <1>6

\* and read.
LEMMA FixedArrives ==
  ASSUME NEW w, Writer(w), NEW v \in Int, NEW f, Fixable(f),
         NEW q, q = W!SerializeFixed(w, v, f), ~q.trapped, NEW s, Over(w, q, s)
  PROVE  Arrives(s, R!SerializeFixed(s, f), q.at, v)
<1> DEFINE min == f.min * 2^f.fraction
           max == f.max * 2^f.fraction
           t == R!SerializeInt(s, min, max)
           u == R!SerializeFixed(s, f)
<1>1. /\ Extends(w, q) /\ min \in Int /\ max \in Int /\ FixedDeclared(f) /\ v \in min..max
      /\ q = W!SerializeInt(w, v, min, max)
      /\ (min < max => BitsRequired(max - min) \in 1 .. 4*MaxBits)
  BY FixedExtends
<1>2. R!Wrap(v, f.storage, f.signed) = v
  BY <1>1, WrapIsExact
<1>3. u = IF t.ret # Ok THEN t ELSE [t EXCEPT !.value = R!Wrap(t.value, f.storage, f.signed)]
  BY <1>1, PastEnd, SameFormat DEF R!SerializeFixed
<1> HIDE DEF min, max
<1>4. min = max => v = min
  BY <1>1
<1>5. Arrives(s, t, q.at, v)
  BY <1>1, <1>4, IntArrives
<1>6. q.at \in Nat /\ num_bits \in Nat
  BY <1>1 DEF Extends, Writer, Over
<1> HIDE DEF t, u
<1>7. (t.ret # Ok => u = t) /\ (t.ret = Ok /\ t.value = v => u = [t EXCEPT !.value = v])
  BY <1>2, <1>3
<1>8. Arrives(s, u, q.at, v)
  BY <1>5, <1>6, <1>7, Revalued
<1> QED BY <1>8 DEF u

-----------------------------------------------------------------------------
(* Padding and bytes *)

\* serialize_align: written,
LEMMA AlignExtends ==
  ASSUME NEW w, Writer(w)
  PROVE  LET q == W!SerializeAlign(w)
             n == (ByteBits - (w.at % ByteBits)) % ByteBits
         IN  /\ Extends(w, q) /\ n \in 0 .. ByteBits - 1 /\ (w.at + n) % ByteBits = 0
             /\ ~q.trapped => /\ q.at = w.at + n
                              /\ \A i \in 0 .. n-1 : w.at + i \notin q.ones
<1> DEFINE n == (ByteBits - (w.at % ByteBits)) % ByteBits
           c == W!Fits(w, W!AlignBits(w))
           p == W!Assert(w, c)
           q == W!Emit(p, {}, n)
<1>1. w.at \in Nat /\ w.measure = FALSE
  BY DEF Writer
<1>2. W!AlignBits(w) = n
  BY <1>1 DEF W!AlignBits
<1>3. W!SerializeAlign(w) = q
  BY <1>2 DEF W!SerializeAlign
<1>4. n \in 0 .. ByteBits - 1 /\ (w.at + n) % ByteBits = 0
  BY <1>1, Aligned
<1>5. c = (w.at + n <= Capacity)
  BY <1>1, <1>2 DEF W!Fits
<1>6. Extends(w, p) /\ (~p.trapped => p = w /\ w.at + n <= Capacity)
  <2>1. c \in BOOLEAN
    BY <1>5
  <2>2. c => w.at + n <= Capacity
    BY <1>5
  <2> HIDE DEF c
  <2> QED BY <2>1, <2>2, Asserts
<1> HIDE DEF n, c, p
<1>7. CASE p.trapped
  <2>1. q = p
    BY <1>7 DEF W!Emit
  <2> HIDE DEF q
  <2> QED BY <1>3, <1>4, <1>6, <1>7, <2>1 DEF n
<1>8. CASE ~p.trapped
  <2>1. p = w /\ w.at + n <= Capacity /\ n \in Nat
    BY <1>4, <1>6, <1>8
  <2>2. {} \in SUBSET (0 .. n-1)
    OBVIOUS
  <2>3. /\ Extends(w, q)
        /\ ~q.trapped => q.at = w.at + n /\ \A i \in 0 .. n-1 : w.at + i \in q.ones <=> i \in {}
    BY <2>1, <2>2, EmitIs
  <2> HIDE DEF q
  <2> QED BY <1>3, <1>4, <2>3 DEF n
<1> QED BY <1>7, <1>8

\* and read.
LEMMA AlignArrives ==
  ASSUME NEW w, Writer(w), NEW q, q = W!SerializeAlign(w), ~q.trapped, NEW s, Over(w, q, s)
  PROVE  Goes(s, R!SerializeAlign(s), q.at)
<1> DEFINE n == (ByteBits - (w.at % ByteBits)) % ByteBits
           t == R!SerializeAlign(s)
<1>1. /\ Extends(w, q) /\ n \in Nat /\ q.at = w.at + n
      /\ \A i \in 0 .. n-1 : w.at + i \notin q.ones
  <2>1. n \in 0 .. ByteBits - 1
    BY AlignExtends
  <2>2. n \in Nat
    <3> HIDE DEF n
    <3> QED BY <2>1
  <2> QED BY <2>2, AlignExtends
<1>2. R!AlignBits(s) = n
  BY DEF R!AlignBits, Over
<1> HIDE DEF n
<1>3. Open(s) /\ s.at = w.at /\ Agrees(q.ones, w.at, q.at) /\ num_bits \in Nat /\ w.at \in Nat
      /\ s.failed = Ok /\ q.at \in Nat
  BY <1>1 DEF Over, Open, Writer, Extends
<1>4. (q.at > num_bits => R!Refuses(s, n)) /\ (q.at <= num_bits => ~R!Refuses(s, n))
  BY <1>1, <1>3, PastEnd DEF R!Refuses
<1>5. t = IF R!Refuses(s, n) THEN R!Latch(s, R!Refusal(s)) ELSE IF n = 0 THEN s ELSE R!SkipZeros(s, n)
  BY <1>2 DEF R!SerializeAlign
<1> HIDE DEF t
<1>6. CASE q.at > num_bits
  <2>1. t = R!Latch(s, "past_end")
    BY <1>3, <1>4, <1>5, <1>6, PastEnd DEF R!Refusal
  <2>2. Goes(s, t, q.at)
    BY <1>3, <1>6, <2>1, LatchShort, PastEnd
  <2> QED BY <2>2 DEF t
<1>7. CASE q.at <= num_bits /\ n = 0
  <2>1. ~R!Refuses(s, n) /\ ~(q.at > num_bits)
    BY <1>3, <1>4, <1>7
  <2>2. t = s /\ q.at = w.at
    BY <1>1, <1>3, <1>5, <1>7, <2>1
  <2>3. Goes(s, t, q.at)
    BY <1>3, <1>7, <2>1, <2>2 DEF Goes, Open
  <2> QED BY <2>3 DEF t
<1>8. CASE q.at <= num_bits /\ n # 0
  <2>1. ~R!Refuses(s, n) /\ ~(q.at > num_bits)
    BY <1>3, <1>4, <1>8
  <2>2. t = R!SkipZeros(s, n)
    BY <1>5, <1>8, <2>1
  <2> DEFINE padding == packet \cap s.at .. s.at + n - 1
             u == R!ReadBits(s, n)
             x == [u EXCEPT !.dirty = s.dirty \/ padding # {}]
  <2>3. padding = {}
    <3> SUFFICES ASSUME NEW i \in padding PROVE FALSE
      OBVIOUS
    <3>1. i \in w.at .. q.at - 1 /\ i < num_bits /\ i \in packet
      BY <1>1, <1>3, <1>8
    <3>2. i \in q.ones
      BY <1>3, <3>1 DEF Agrees
    <3>3. i - w.at \in 0 .. n-1 /\ w.at + (i - w.at) = i
      BY <1>1, <1>3, <3>1
    <3> QED BY <1>1, <3>2, <3>3
  <2>4. R!SkipZeros(s, n) = IF padding # {} THEN R!Latch(x, "nonzero_padding") ELSE x
    BY DEF R!SkipZeros
  <2>5. t = x
    BY <2>2, <2>3, <2>4
  <2>6. DOMAIN u = Fields /\ u.at = s.at + n /\ u.failed = s.failed /\ u.ret = s.ret /\ u.dest = s.dest
    BY <1>3 DEF R!ReadBits, Open, Fields
  <2> HIDE DEF padding, u
  <2>7. DOMAIN x = Fields /\ x.at = u.at /\ x.failed = u.failed /\ x.ret = u.ret /\ x.dest = u.dest
    BY <2>6 DEF Fields
  <2> HIDE DEF x
  <2>8. Goes(s, t, q.at)
    BY <1>1, <1>3, <2>1, <2>5, <2>6, <2>7 DEF Goes, Open
  <2> QED BY <2>8 DEF t
<1> QED BY <1>3, <1>6, <1>7, <1>8

\* The bytes of a payload: written,
LEMMA SliceExtends ==
  ASSUME NEW w, Writer(w), NEW text \in Seq(Unsigned8)
  PROVE  LET q == W!WriteBytes(w, text) IN
         /\ Extends(w, q)
         /\ ~q.trapped => /\ w.at % ByteBits = 0 /\ q.at = w.at + Len(text) * ByteBits
                          /\ \A k \in 1 .. Len(text) : \A i \in 0 .. ByteBits - 1 :
                               w.at + ((k-1) * ByteBits + i) \in q.ones
                                 <=> (text[k] \div 2^i) % 2 = 1
<1> DEFINE L == Len(text)
           n == L * ByteBits
           ok == w.at % ByteBits = 0 /\ w.at + n <= Capacity
           c == w.measure \/ ok
           p == W!Assert(w, c)
           bits == {(k-1) * ByteBits + i : k \in DOMAIN text, i \in 0 .. ByteBits - 1}
           set == {b \in bits : b % ByteBits \in W!BitsOf(text[b \div ByteBits + 1], ByteBits)}
           q == W!WriteBytes(w, text)
<1>1. q = W!Emit(p, set, n)
  BY DEF W!WriteBytes
<1>2. L \in Nat /\ DOMAIN text = 1..L /\ w.at \in Nat /\ w.measure = FALSE
  <2>1. w.at \in Nat /\ w.measure = FALSE
    BY DEF Writer
  <2>2. L \in Nat /\ DOMAIN text = 1..L
    OBVIOUS
  <2> QED BY <2>1, <2>2
<1>3. Extends(w, p) /\ (~p.trapped => p = w /\ ok)
  <2>1. c \in BOOLEAN /\ (c => ok)
    BY <1>2
  <2> HIDE DEF c, ok
  <2> QED BY <2>1, Asserts
<1>4. n \in Nat
  BY <1>2
<1>5. \A k \in 1..L : \A i \in 0 .. ByteBits - 1 :
        /\ (k-1) * ByteBits + i \in 0 .. n-1
        /\ ((k-1) * ByteBits + i) % ByteBits = i /\ ((k-1) * ByteBits + i) \div ByteBits = k - 1
  <2> SUFFICES ASSUME NEW k \in 1..L, NEW i \in 0 .. ByteBits - 1
               PROVE  /\ (k-1) * ByteBits + i \in 0 .. n-1
                      /\ ((k-1) * ByteBits + i) % ByteBits = i
                      /\ ((k-1) * ByteBits + i) \div ByteBits = k - 1
    OBVIOUS
  <2>1. k - 1 \in Nat /\ k - 1 < L
    BY <1>2
  <2>2. (k-1) * ByteBits + ByteBits <= n
    BY <1>2, <2>1, MultiplesOrdered
  <2>3. (k-1) * ByteBits \in Nat
    BY <2>1
  <2>4. ((k-1) * ByteBits + i) % ByteBits = i /\ ((k-1) * ByteBits + i) \div ByteBits = k - 1
    BY <2>1, ModUnique, DivUnique
  <2> HIDE DEF n
  <2>5. (k-1) * ByteBits + i \in 0 .. n-1
    BY <1>4, <2>2, <2>3
  <2> QED BY <2>4, <2>5 DEF n
<1>6. set \in SUBSET (0 .. n-1)
  <2> SUFFICES ASSUME NEW b \in bits PROVE b \in 0 .. n-1
    OBVIOUS
  <2>1. PICK k \in DOMAIN text, i \in 0 .. ByteBits - 1 : b = (k-1) * ByteBits + i
    OBVIOUS
  <2>2. k \in 1..L
    BY <1>2
  <2> HIDE DEF n, L, bits, set, ok, c, p, q
  <2>3. (k-1) * ByteBits + i \in 0 .. n-1
    BY <1>5, <2>2, Zenon
  <2> QED BY <2>1, <2>3
<1>7. \A k \in 1..L : \A i \in 0 .. ByteBits - 1 :
        (k-1) * ByteBits + i \in set <=> (text[k] \div 2^i) % 2 = 1
  <2> SUFFICES ASSUME NEW k \in 1..L, NEW i \in 0 .. ByteBits - 1
               PROVE  (k-1) * ByteBits + i \in set <=> (text[k] \div 2^i) % 2 = 1
    OBVIOUS
  <2> DEFINE b == (k-1) * ByteBits + i
  <2>1. b \in bits
    <3>1. k \in DOMAIN text
      BY <1>2
    <3>2. \E x \in DOMAIN text, y \in 0 .. ByteBits - 1 : b = (x-1) * ByteBits + y
      BY <3>1
    <3> HIDE DEF b
    <3> QED BY <3>2
  <2>2. b % ByteBits = i /\ b \div ByteBits + 1 = k
    <3>1. (k - 1) + 1 = k
      BY <1>2
    <3> QED BY <1>5, <3>1
  <2> HIDE DEF b, bits
  <2>3. b \in set <=> i \in W!BitsOf(text[k], ByteBits)
    BY <2>1, <2>2
  <2>4. i \in W!BitsOf(text[k], ByteBits) <=> (text[k] \div 2^i) % 2 = 1
    BY DEF W!BitsOf
  <2> QED BY <2>3, <2>4 DEF b
<1> HIDE DEF set
<1>8. CASE p.trapped
  <2>1. q = p
    BY <1>1, <1>8 DEF W!Emit
  <2> HIDE DEF p, q
  <2> QED BY <1>3, <1>8, <2>1 DEF q
<1>9. CASE ~p.trapped
  <2>1. p = w /\ w.at % ByteBits = 0 /\ w.at + n <= Capacity
    BY <1>3, <1>9
  <2> HIDE DEF p, n
  <2>2. /\ Extends(w, q)
        /\ ~q.trapped => q.at = w.at + n /\ \A j \in 0 .. n-1 : w.at + j \in q.ones <=> j \in set
    BY <1>1, <1>4, <1>6, <2>1, EmitIs
  <2>3. ASSUME ~q.trapped, NEW k \in 1..L, NEW i \in 0 .. ByteBits - 1
        PROVE  w.at + ((k-1) * ByteBits + i) \in q.ones <=> (text[k] \div 2^i) % 2 = 1
    <3>1. (k-1) * ByteBits + i \in 0 .. n-1
      BY <1>5
    <3>2. w.at + ((k-1) * ByteBits + i) \in q.ones <=> (k-1) * ByteBits + i \in set
      BY <2>2, <2>3, <3>1
    <3> QED BY <1>7, <3>2
  <2> HIDE DEF q
  <2> QED BY <2>1, <2>2, <2>3 DEF q, n
<1> QED BY <1>8, <1>9

\* A bit of a byte inside a slice of z bits at a is in the packet as it was written.
LEMMA ByteInside ==
  ASSUME NEW a \in Nat, NEW y \in Nat, NEW z \in Nat, y + ByteBits <= z, NEW o,
         num_bits \in Nat, a + z <= num_bits, Agrees(o, a, a + z), NEW i \in 0 .. ByteBits - 1
  PROVE  (a + y) + i \in packet <=> a + (y + i) \in o
<1>1. i \in Nat /\ i < ByteBits /\ ByteBits \in Nat
  BY WidthFacts
<1>2. /\ (a + y) + i = a + (y + i) /\ (a + y) + i < num_bits
      /\ (a + y) + i \in a .. (a + z) - 1
  BY <1>1
<1>3. (a + y) + i \in packet <=> (a + y) + i \in o
  BY <1>2 DEF Agrees
<1> QED BY <1>2, <1>3

\* and read, when there is room.
Slice(t, k) == IF k > R!Remaining(t) \div ByteBits THEN R!Latch(t, "past_end")
               ELSE R!ReadByteSlice(t, k)

LEMMA SliceArrives ==
  ASSUME NEW w, Writer(w), NEW text \in Seq(Unsigned8),
         NEW q, q = W!WriteBytes(w, text), ~q.trapped, NEW s, Over(w, q, s)
  PROVE  Arrives(s, Slice(s, Len(text)), q.at, text)
<1> DEFINE L == Len(text)
           t == Slice(s, L)
           room == R!Remaining(s)
<1>1. /\ Extends(w, q) /\ q.at = w.at + L * ByteBits
      /\ \A k \in 1..L : \A i \in 0 .. ByteBits - 1 :
           w.at + ((k-1) * ByteBits + i) \in q.ones <=> (text[k] \div 2^i) % 2 = 1
  BY SliceExtends
<1>2. /\ Open(s) /\ s.at = w.at /\ s.at <= num_bits /\ Agrees(q.ones, w.at, q.at)
      /\ num_bits \in Nat /\ w.at \in Nat /\ q.at \in Nat /\ L \in Nat /\ L * ByteBits \in Nat
  BY <1>1 DEF Over, Open, Writer, Extends
<1>3. room \in Nat /\ room = num_bits - w.at
  BY <1>2 DEF R!Remaining
<1>4. L > room \div ByteBits <=> q.at > num_bits
  <2> DEFINE d == room \div ByteBits
             m == room % ByteBits
  <2>1. d \in Nat /\ m \in 0 .. ByteBits - 1 /\ room = d * ByteBits + m
    <3> HIDE DEF room
    <3> QED BY <1>3, DivMod
  <2> HIDE DEF d, m, room
  <2>2. /\ L <= d => L * ByteBits <= d * ByteBits
        /\ d < L => d * ByteBits + ByteBits <= L * ByteBits
    BY <1>2, <2>1, MultiplesOrdered
  <2>3. d * ByteBits \in Nat
    BY <2>1
  <2>4. L * ByteBits > room <=> q.at > num_bits
    BY <1>1, <1>2, <1>3
  <2> HIDE DEF L
  <2>5. L > d <=> L * ByteBits > room
    BY <1>2, <2>1, <2>2, <2>3
  <2> QED BY <2>4, <2>5 DEF d
<1>5. t = IF L > room \div ByteBits THEN R!Latch(s, "past_end") ELSE R!ReadByteSlice(s, L)
  BY DEF Slice
<1> HIDE DEF t, room
<1>6. CASE q.at > num_bits
  <2>1. t = R!Latch(s, "past_end") /\ ~(q.at <= num_bits)
    BY <1>2, <1>4, <1>5, <1>6
  <2>2. Goes(s, t, q.at)
    BY <1>2, <1>6, <2>1, LatchShort, PastEnd
  <2> QED BY <2>1, <2>2 DEF Arrives, t
<1>7. CASE q.at <= num_bits
  <2>1. ~(q.at > num_bits)
    BY <1>2, <1>7
  <2>2. t = R!ReadByteSlice(s, L)
    BY <1>4, <1>5, <2>1
  <2> DEFINE read == [k \in 1..L |-> R!Value(s.at + (k-1) * ByteBits, ByteBits)]
  <2>3. \A k \in 1..L : R!Value(s.at + (k-1) * ByteBits, ByteBits) = text[k]
    <3> SUFFICES ASSUME NEW k \in 1..L
                 PROVE  R!Value(s.at + (k-1) * ByteBits, ByteBits) = text[k]
      OBVIOUS
    <3> DEFINE at == s.at + (k-1) * ByteBits
               v == text[k]
    <3>1. k - 1 \in Nat /\ (k-1) * ByteBits \in Nat /\ k - 1 < L
      BY <1>2
    <3>2. at \in Nat
      <4> DEFINE y == (k-1) * ByteBits
      <4>1. y \in Nat
        BY <3>1
      <4> HIDE DEF y
      <4>2. s.at + y \in Nat
        BY <1>2, <4>1
      <4> QED BY <4>2 DEF y
    <3>3. v \in Nat /\ v < 2^ByteBits
      <4>1. v \in Unsigned8
        OBVIOUS
      <4>2. 2^ByteBits \in Nat
        BY PowerAbove
      <4> HIDE DEF v
      <4> DEFINE x == 2^ByteBits
      <4>3. v \in 0 .. x-1 /\ x \in Nat
        BY <4>1, <4>2 DEF Unsigned8
      <4> HIDE DEF x
      <4>4. v \in Nat /\ v < x
        BY <4>3
      <4> QED BY <4>4 DEF x
    <3>4. (k-1) * ByteBits + ByteBits <= L * ByteBits
      BY <1>2, <3>1, MultiplesOrdered
    <3>5. \A i \in 0 .. ByteBits - 1 : at + i \in packet <=> (v \div 2^i) % 2 = 1
      <4> DEFINE y == (k-1) * ByteBits
                 z == L * ByteBits
      <4>1. at = w.at + y /\ q.at = w.at + z /\ y \in Nat /\ z \in Nat /\ y + ByteBits <= z
        BY <1>1, <1>2, <3>1, <3>4
      <4>2. \A i \in 0 .. ByteBits - 1 : w.at + (y + i) \in q.ones <=> (v \div 2^i) % 2 = 1
        BY <1>1
      <4>3. Agrees(q.ones, w.at, w.at + z) /\ w.at + z <= num_bits /\ num_bits \in Nat /\ w.at \in Nat
        BY <1>2, <1>7, <4>1
      <4> HIDE DEF at, v, y, z
      <4>4. v \in Nat /\ y \in Nat /\ z \in Nat /\ y + ByteBits <= z
        BY <3>3, <4>1
      <4> DEFINE a == w.at
                 o == q.ones
      <4>5. a \in Nat /\ a + z <= num_bits /\ num_bits \in Nat /\ Agrees(o, a, a + z)
        BY <4>3
      <4> SUFFICES ASSUME NEW i \in 0 .. ByteBits - 1
                   PROVE  at + i \in packet <=> (v \div 2^i) % 2 = 1
        OBVIOUS
      <4>6. a + (y + i) \in o <=> (v \div 2^i) % 2 = 1
        BY <4>2
      <4>7. at = a + y
        BY <4>1
      <4> HIDE DEF a, o
      <4>8. (a + y) + i \in packet <=> a + (y + i) \in o
        BY <4>4, <4>5, ByteInside
      <4> QED BY <4>6, <4>7, <4>8
    <3> HIDE DEF at, v
    <3>6. R!Value(at, ByteBits) = v
      BY <3>2, <3>3, <3>5, ValueOfBits
    <3> QED BY <3>6 DEF at, v
  <2>4. read = text
    <3>1. text = [k \in 1..L |-> text[k]]
      OBVIOUS
    <3> QED BY <2>3, <3>1
  <2>5. /\ DOMAIN t = Fields /\ t.at = s.at + L * ByteBits /\ t.failed = s.failed /\ t.ret = s.ret
        /\ t.dest = s.dest /\ t.value = read
    BY <1>2, <2>2 DEF R!ReadByteSlice, Open, Fields
  <2> HIDE DEF read
  <2>6. Arrives(s, t, q.at, text)
    BY <1>1, <1>2, <2>1, <2>4, <2>5 DEF Arrives, Goes, Open
  <2> QED BY <2>6 DEF t
<1> QED BY <1>2, <1>6, <1>7

\* serialize_bytes: written,
LEMMA BytesExtend ==
  ASSUME NEW w, Writer(w), NEW text \in Seq(Unsigned8)
  PROVE  LET a == W!SerializeAlign(w)
             q == W!SerializeBytes(w, text)
         IN  /\ Extends(w, q)
             /\ ~q.trapped => q = W!WriteBytes(a, text) /\ Extends(w, a) /\ Extends(a, q)
<1> DEFINE align == (ByteBits - ((w.at + 0) % ByteBits)) % ByteBits
           c == w.measure \/ 0 + align + Len(text) * ByteBits <= Capacity - w.at
           r == W!Room(w, 0, Len(text))
           b == W!SerializeAlign(r)
           q == W!SerializeBytes(w, text)
<1>1. q = W!WriteBytes(b, text)
  BY DEF W!SerializeBytes
<1>2. Extends(w, r) /\ (~r.trapped => r = w)
  <2>1. c \in BOOLEAN
    <3> HIDE DEF align
    <3>1. w.measure = FALSE
      BY DEF Writer
    <3> QED BY <3>1
  <2>2. r = W!Assert(w, c)
    BY DEF W!Room
  <2> HIDE DEF c, r
  <2> QED BY <2>1, <2>2, Asserts
<1> HIDE DEF r, q
<1>3. Extends(r, b)
  BY <1>2, AlignExtends DEF Extends
<1>4. Writer(b)
  BY <1>3 DEF Extends
<1>5. Extends(b, q)
  <2> HIDE DEF b
  <2> QED BY <1>1, <1>4, SliceExtends
<1>6. Extends(w, b) /\ (~b.trapped => ~r.trapped)
  <2> HIDE DEF b
  <2> QED BY <1>2, <1>3, ExtendsTwice
<1>7. Extends(w, q) /\ (~q.trapped => ~b.trapped)
  <2> HIDE DEF b
  <2> QED BY <1>5, <1>6, ExtendsTwice
<1>8. ~q.trapped => r = w
  BY <1>2, <1>6, <1>7
<1>9. ~q.trapped => q = W!WriteBytes(W!SerializeAlign(w), text)
  BY <1>1, <1>8
<1> QED BY <1>5, <1>6, <1>7, <1>8, <1>9 DEF q

\* Padding and then a payload.
LEMMA PaddedArrives ==
  ASSUME NEW w, Writer(w), NEW a, a = W!SerializeAlign(w), NEW text \in Seq(Unsigned8),
         NEW q, q = W!WriteBytes(a, text), ~q.trapped, NEW s, Over(w, q, s),
         NEW t, t = R!SerializeAlign(s), NEW u, u = Slice(t, Len(text)),
         NEW r, r = IF t.ret # Ok THEN t ELSE u
  PROVE  Arrives(s, r, q.at, text)
<1>1. Extends(w, a) /\ Writer(a)
  BY AlignExtends DEF Extends
<1>2. Extends(a, q)
  BY <1>1, SliceExtends
<1>3. Over(w, a, s) /\ ~a.trapped => Arrives(s, t, a.at, t.value)
  BY AlignArrives DEF Arrives
<1>4. Over(a, q, t) => Arrives(t, u, q.at, text)
  BY <1>1, SliceArrives
<1>5. Parts(w, a, q, s, t, t.value, u, text)
  BY <1>1, <1>2, <1>3, <1>4 DEF Parts
<1>6. Joins(t, t.value, u, text, r, text)
  BY DEF Joins
<1> QED BY <1>5, <1>6, InTurn

\* and read: the bytes that serialize_bytes then delivers.
LEMMA BytesArrive ==
  ASSUME NEW w, Writer(w), NEW text \in Seq(Unsigned8),
         NEW q, q = W!SerializeBytes(w, text), ~q.trapped, NEW s, Over(w, q, s)
  PROVE  \E r : Arrives(s, r, q.at, text) /\ R!SerializeBytes(s, Len(text)) = R!Deliver(r)
<1> DEFINE t == R!SerializeAlign(s)
           u == Slice(t, Len(text))
           r == IF t.ret # Ok THEN t ELSE u
           L == Len(text)
           d == R!SerializeBytes(s, L)
<1>1. q = W!WriteBytes(W!SerializeAlign(w), text)
  BY BytesExtend
<1>2. Arrives(s, r, q.at, text)
  BY <1>1, PaddedArrives
<1>3. d = IF t.ret # Ok THEN t
          ELSE IF L > R!Remaining(t) \div ByteBits THEN R!Latch(t, "past_end")
          ELSE R!Deliver(R!ReadByteSlice(t, L))
  BY PastEnd DEF R!SerializeBytes
<1>4. u = IF L > R!Remaining(t) \div ByteBits THEN R!Latch(t, "past_end") ELSE R!ReadByteSlice(t, L)
  BY DEF Slice
<1>5. Open(s) /\ num_bits \in Nat /\ w.at \in Nat
  BY DEF Over, Writer
<1>6. R!Latch(t, "past_end").ret # Ok
  <2> DEFINE x == W!SerializeAlign(w)
  <2>1. Extends(w, x) /\ Extends(x, q) /\ Over(w, q, s)
    BY BytesExtend
  <2>2. Goes(s, t, x.at)
    <3> HIDE DEF x, t
    <3>1. ~x.trapped /\ Over(w, x, s)
      BY <2>1, OverParts, ExtendsTwice
    <3> QED BY <3>1, AlignArrives DEF x, t
  <2> HIDE DEF t
  <2>3. DOMAIN t = Fields
    BY <2>2 DEF Goes
  <2>4. x.at \in Nat
    BY <2>1 DEF Extends, Writer
  <2>5. t.failed = Ok \/ t.failed # Ok
    OBVIOUS
  <2> QED BY <2>3, PastEnd DEF R!Latch, Fields
<1>7. R!Deliver(r) = IF r.ret = Ok THEN [r EXCEPT !.dest = r.value] ELSE r
  BY PastEnd DEF R!Deliver
<1>8. d = R!Deliver(r)
  <2> HIDE DEF t
  <2>1. CASE t.ret # Ok
    BY <1>3, <1>7, <2>1
  <2>2. CASE t.ret = Ok /\ L > R!Remaining(t) \div ByteBits
    BY <1>3, <1>4, <1>6, <1>7, <2>2
  <2>3. CASE t.ret = Ok /\ ~(L > R!Remaining(t) \div ByteBits)
    BY <1>3, <1>4, <2>3
  <2> QED BY <2>1, <2>2, <2>3
<1> HIDE DEF r, d
<1> QED BY <1>2, <1>8 DEF d

\* serialize_string: written,
LEMMA StringExtends ==
  ASSUME NEW w, Writer(w), NEW text \in Seq(Unsigned8), NEW size \in Nat
  PROVE  LET i == W!SerializeInt(w, Len(text), 0, size - 1)
             a == W!SerializeAlign(i)
             q == W!SerializeString(w, text, size)
         IN  /\ Extends(w, q)
             /\ ~q.trapped => /\ Extends(w, i) /\ Extends(i, a) /\ Extends(a, q)
                              /\ size \in 1..MaxSize /\ Len(text) < size /\ ~HasNul(text)
                              /\ q = W!WriteBytes(a, text)
<1> DEFINE L == Len(text)
           c == size \in 1..MaxSize /\ L < size /\ ~HasNul(text)
           p == W!StringLength(w, text, size)
           field == BitsRequired(size - 1)
           d == p.measure \/ field + ((ByteBits - ((p.at + field) % ByteBits)) % ByteBits)
                                + L * ByteBits <= Capacity - p.at
           r == W!Room(p, field, L)
           i == W!SerializeInt(r, L, 0, size - 1)
           a == W!SerializeAlign(i)
           q == W!SerializeString(w, text, size)
<1>1. q = IF p.trapped THEN p ELSE W!WriteBytes(a, text)
  BY SameFormat DEF W!SerializeString
<1>2. Extends(w, p) /\ (~p.trapped => p = w /\ c)
  <2>1. c \in BOOLEAN
    <3> HIDE DEF L
    <3>1. HasNul(text) \in BOOLEAN
      BY DEF HasNul
    <3> QED BY <3>1
  <2>2. p = W!Assert(w, c)
    BY SameFormat DEF W!StringLength
  <2> HIDE DEF c, p
  <2> QED BY <2>1, <2>2, Asserts
<1> HIDE DEF p
<1>3. CASE p.trapped
  <2> HIDE DEF q, a, i, r, d, c
  <2>1. q = p
    BY <1>1, <1>3
  <2> QED BY <1>2, <1>3, <2>1 DEF q
<1>4. CASE ~p.trapped
  <2>1. p = w /\ c /\ q = W!WriteBytes(a, text)
    BY <1>1, <1>2, <1>4
  <2>2. Extends(w, r) /\ (~r.trapped => r = w)
    <3>1. d \in BOOLEAN
      <4>1. p.measure = FALSE
        BY <2>1 DEF Writer
      <4> DEFINE x == field + ((ByteBits - ((p.at + field) % ByteBits)) % ByteBits)
                      + L * ByteBits <= Capacity - p.at
      <4>2. x \in BOOLEAN
        OBVIOUS
      <4> HIDE DEF x
      <4> QED BY <4>1, <4>2 DEF x
    <3>2. r = W!Assert(p, d)
      BY DEF W!Room
    <3> HIDE DEF d, r
    <3> QED BY <2>1, <3>1, <3>2, Asserts
  <2>3. Writer(r)
    BY <2>2 DEF Extends
  <2>4. Extends(r, i)
    <3> DEFINE z == size - 1
    <3>1. L \in Int /\ 0 \in Int /\ z \in Int /\ z - 0 = z
      OBVIOUS
    <3>2. 0 < z => BitsRequired(z) \in 1 .. 4*MaxBits
      <4> SUFFICES ASSUME 0 < z PROVE BitsRequired(z) \in 1 .. 4*MaxBits
        OBVIOUS
      <4>1. z \in 1 .. MaxSize - 1
        <5>1. size \in 1..MaxSize /\ MaxSize \in Nat /\ size - 1 > 0
          BY <2>1, FormatAssumption
        <5> QED BY <5>1
      <4>2. BitsRequired(z) \in 1..MaxBits
        BY <4>1, FormatWidths
      <4> QED BY <4>2
    <3> HIDE DEF z, r, L
    <3>3. 0 < z => BitsRequired(z - 0) \in 1 .. 4*MaxBits
      BY <3>1, <3>2
    <3>4. Extends(r, W!SerializeInt(r, L, 0, z))
      BY <2>3, <3>1, <3>3, IntExtends
    <3> QED BY <3>4 DEF z
  <2>5. Writer(i)
    BY <2>4 DEF Extends
  <2>6. Extends(i, a)
    <3> HIDE DEF i
    <3> QED BY <2>5, AlignExtends
  <2>7. Writer(a)
    BY <2>6 DEF Extends
  <2>8. Extends(a, q)
    <3> HIDE DEF a, q
    <3> QED BY <2>1, <2>7, SliceExtends
  <2> HIDE DEF a, q, r
  <2>9. Extends(w, i) /\ (~i.trapped => ~r.trapped)
    <3> HIDE DEF i
    <3> QED BY <2>2, <2>4, ExtendsTwice
  <2> HIDE DEF i
  <2>10. Extends(w, a) /\ (~a.trapped => ~i.trapped)
    BY <2>6, <2>9, ExtendsTwice
  <2>11. Extends(w, q) /\ (~q.trapped => ~a.trapped)
    BY <2>8, <2>10, ExtendsTwice
  <2>12. CASE q.trapped
    BY <2>11, <2>12 DEF q
  <2>13. CASE ~q.trapped
    <3>1. r = w
      BY <2>2, <2>9, <2>10, <2>11, <2>13
    <3>2. i = W!SerializeInt(w, Len(text), 0, size - 1) /\ a = W!SerializeAlign(i)
      BY <3>1 DEF i, a
    <3> HIDE DEF c
    <3>3. /\ Extends(w, q) /\ Extends(w, i) /\ Extends(i, a) /\ Extends(a, q) /\ c
          /\ q = W!WriteBytes(a, text)
      BY <2>1, <2>6, <2>8, <2>9, <2>11
    <3> QED BY <3>2, <3>3 DEF q, c
  <2> QED BY <2>12, <2>13
<1> QED BY <1>3, <1>4

\* and read: a Rust string is well-formed, and has passed for one without a NUL.
LEMMA StringArrives ==
  ASSUME NEW w, Writer(w), NEW text \in Seq(Unsigned8), WellFormed(text), NEW size \in Nat,
         NEW q, q = W!SerializeString(w, text, size), ~q.trapped, NEW s, Over(w, q, s)
  PROVE  Arrives(s, R!SerializeString(s, size), q.at, text)
<1> DEFINE L == Len(text)
           z == size - 1
           i == W!SerializeInt(w, L, 0, z)
           a == W!SerializeAlign(i)
           n == R!SerializeInt(s, 0, z)
           t == R!SerializeAlign(n)
           u == Slice(t, L)
           b == IF t.ret # Ok THEN t ELSE u
           r == R!SerializeString(s, size)
<1>1. /\ Extends(w, i) /\ Extends(i, a) /\ Extends(a, q)
      /\ size \in 1..MaxSize /\ L < size /\ ~HasNul(text) /\ q = W!WriteBytes(a, text)
  BY StringExtends
<1>2. Writer(i) /\ L \in Nat
  BY <1>1 DEF Extends
<1>3. Extends(i, q) /\ (~q.trapped => ~a.trapped)
  <2> HIDE DEF i, a
  <2> QED BY <1>1, <1>2, ExtendsTwice
<1>4. Over(w, i, s) /\ ~i.trapped => Arrives(s, n, i.at, L)
  <2>1. L \in Int /\ 0 \in Int /\ z \in Int /\ z - 0 = z /\ (0 = z => L = 0)
    <3> HIDE DEF L
    <3> QED BY <1>1, <1>2
  <2>2. 0 < z => BitsRequired(z) \in 1 .. 4*MaxBits
    <3> SUFFICES ASSUME 0 < z PROVE BitsRequired(z) \in 1 .. 4*MaxBits
      OBVIOUS
    <3>1. z \in 1 .. MaxSize - 1
      <4>1. size \in 1..MaxSize /\ MaxSize \in Nat /\ size - 1 > 0
        BY <1>1, FormatAssumption
      <4> QED BY <4>1
    <3>2. BitsRequired(z) \in 1..MaxBits
      BY <3>1, FormatWidths
    <3> QED BY <3>2
  <2> HIDE DEF z, L
  <2>3. 0 < z => BitsRequired(z - 0) \in 1 .. 4*MaxBits
    BY <2>1, <2>2
  <2> QED BY <2>1, <2>3, IntArrives
<1>5. Over(i, q, n) => Arrives(n, b, q.at, text)
  <2> HIDE DEF i, n
  <2> QED BY <1>1, <1>2, PaddedArrives
<1> HIDE DEF i, n
<1>6. Parts(w, i, q, s, n, L, b, text)
  BY <1>1, <1>3, <1>4, <1>5 DEF Parts
<1>7. r = IF n.ret # Ok THEN n ELSE IF t.ret # Ok THEN t
          ELSE IF n.value > R!Remaining(t) \div ByteBits THEN R!Latch(t, "past_end")
          ELSE R!Text(t, n.value)
  BY <1>1, PastEnd DEF R!SerializeString, n
<1>8. u = IF L > R!Remaining(t) \div ByteBits THEN R!Latch(t, "past_end") ELSE R!ReadByteSlice(t, L)
  BY DEF Slice
<1>9. LET x == R!ReadByteSlice(t, L) IN
      R!Text(t, L) = IF HasNul(x.value) THEN R!Latch(x, "embedded_nul")
                     ELSE IF ~WellFormed(x.value) THEN R!Latch(x, "invalid_utf8") ELSE x
  BY SameFormat DEF R!Text
<1>10. n.ret = Ok => DOMAIN t = Fields
  <2> SUFFICES ASSUME n.ret = Ok PROVE DOMAIN t = Fields
    OBVIOUS
  <2>1. Over(w, i, s) /\ ~i.trapped
    BY <1>1, <1>3, OverParts DEF Extends
  <2>2. Arrives(s, n, i.at, L) /\ i.at \in Nat /\ num_bits \in Nat
    BY <1>2, <1>4, <2>1 DEF Writer, Over
  <2>3. i.at <= num_bits /\ Goes(s, n, i.at)
    BY <2>2 DEF Arrives, Goes
  <2>4. Over(i, q, n)
    BY <1>1, <1>3, <2>3, OverParts
  <2>5. Over(i, a, n) /\ ~a.trapped
    <3> HIDE DEF a
    <3> QED BY <1>1, <1>2, <1>3, <2>4, OverParts
  <2>6. Goes(n, t, a.at)
    BY <1>2, <2>5, AlignArrives
  <2> QED BY <2>6 DEF Goes
<1> DEFINE x == R!ReadByteSlice(t, L)
<1>11. DOMAIN t = Fields => x.ret = t.ret
  BY DEF R!ReadByteSlice, Fields
<1> HIDE DEF a, t, u, r, z, x, L
<1>12. Joins(n, L, b, text, r, text)
  <2>1. CASE n.ret # Ok
    BY <1>7, <2>1 DEF Joins
  <2>2. CASE n.ret = Ok /\ t.ret # Ok
    BY <1>7, <2>2 DEF Joins
  <2>3. CASE n.ret = Ok /\ t.ret = Ok /\ L > R!Remaining(t) \div ByteBits
    BY <1>7, <1>8, <2>3 DEF Joins
  <2>4. CASE n.ret = Ok /\ t.ret = Ok /\ ~(L > R!Remaining(t) \div ByteBits)
    <3>1. b = x /\ x.ret = Ok
      BY <1>8, <1>10, <1>11, <2>4 DEF x
    <3>2. n.value = L /\ x.value = text => r = x
      BY <1>1, <1>7, <1>9, <2>4 DEF x
    <3> HIDE DEF b
    <3> QED BY <2>4, <3>1, <3>2 DEF Joins
  <2> QED BY <2>1, <2>2, <2>3, <2>4
<1> HIDE DEF b
<1>13. Arrives(s, r, q.at, text)
  BY <1>6, <1>12, InTurn
<1> QED BY <1>13 DEF r, z

-----------------------------------------------------------------------------
(* The ladder of int_relative *)

\* The tiers that it has.
LEMMA TierFacts ==
  /\ Len(Tiers) \in Nat \ {0} /\ DOMAIN Tiers = 1 .. Len(Tiers)
  /\ \A t \in 1 .. Len(Tiers) : Tiers[t] \in Nat /\ Tiers[t] > 1
  /\ \A t \in 1 .. Len(Tiers) : TierFirst(t) \in Nat
<1>1. Tiers \in Seq(Nat \ {0, 1}) /\ Tiers # <<>>
  BY FormatAssumption
<1>2. /\ Len(Tiers) \in Nat \ {0} /\ DOMAIN Tiers = 1 .. Len(Tiers)
      /\ \A t \in 1 .. Len(Tiers) : Tiers[t] \in Nat /\ Tiers[t] > 1
  BY <1>1
<1>3. ASSUME NEW t \in 1 .. Len(Tiers) PROVE TierFirst(t) \in Nat
  <2>1. CASE t = 1
    BY <2>1 DEF TierFirst
  <2>2. CASE t # 1
    <3>1. t - 1 \in 1 .. Len(Tiers)
      BY <1>2, <2>2
    <3>2. Tiers[t-1] \in Nat
      BY <1>2, <3>1
    <3> QED BY <2>2, <3>2 DEF TierFirst
  <2> QED BY <2>1, <2>2
<1> QED BY <1>2, <1>3

\* The noes: written, if there is room for them all,
LEMMA RungsExtend ==
  ASSUME NEW w, Writer(w), NEW n \in Nat
  PROVE  LET q == W!Rungs(w, n) IN
         /\ Extends(w, q)
         /\ ~q.trapped => q.at = w.at + n /\ \A i \in 0 .. n-1 : w.at + i \notin q.ones
<1> DEFINE room == IF W!Fits(w, n) THEN n ELSE Capacity - w.at
           p == W!Emit(w, {}, room)
           c == room = n
           q == W!Rungs(w, n)
<1>1. q = W!Assert(p, c)
  BY DEF W!Rungs
<1>2. room \in Nat /\ w.at + room <= Capacity
  <2>1. w.at \in Nat /\ w.at <= Capacity /\ w.measure = FALSE /\ Capacity \in Nat
    BY MessageAssumption DEF Writer
  <2>2. CASE W!Fits(w, n)
    BY <2>1, <2>2 DEF W!Fits
  <2>3. CASE ~W!Fits(w, n)
    BY <2>1, <2>3
  <2> QED BY <2>2, <2>3
<1>3. {} \in SUBSET (0 .. room - 1)
  OBVIOUS
<1> HIDE DEF room
<1>4. /\ Extends(w, p)
      /\ ~p.trapped => p.at = w.at + room /\ \A i \in 0 .. room - 1 : w.at + i \in p.ones <=> i \in {}
  BY <1>2, <1>3, EmitIs
<1>5. Writer(p)
  BY <1>4 DEF Extends
<1> HIDE DEF p, q
<1>6. Extends(p, q) /\ (~q.trapped => q = p /\ room = n)
  <2>1. c \in BOOLEAN /\ (c => room = n)
    OBVIOUS
  <2> HIDE DEF c
  <2> QED BY <1>1, <1>5, <2>1, Asserts
<1>7. Extends(w, q)
  BY <1>4, <1>6, ExtendsTwice
<1> QED BY <1>4, <1>6, <1>7 DEF q

\* A reader of e noes stands at the rung e, when there is no other no.
LEMMA RungIs ==
  ASSUME NEW s, Open(s), num_bits \in Nat, NEW e \in R!Rungs, s.at + e <= num_bits,
         \A i \in 0 .. e-1 : s.at + i \notin packet,
         e = Len(Tiers) + 1 \/ s.at + e = num_bits \/ s.at + e \in packet
  PROVE  R!Rung(s) = e
<1> DEFINE N == Len(Tiers)
           C == R!Climbed(s)
<1>1. N \in Nat /\ R!Rungs = 0 .. N + 1 /\ s.at \in Nat /\ s.failed = R!Ok
  <2>1. N \in Nat
    BY TierFacts
  <2> QED BY <2>1, PastEnd DEF R!Rungs, Open
<1>2. C = {n \in 0 .. N+1 : \A i \in 0 .. n-1 : ~R!Refuses(s, i+1) /\ R!Bit(s.at + i) = 0}
  BY <1>1 DEF R!Climbed
<1> HIDE DEF N, C
<1>3. e \in 0 .. N+1
  BY <1>1
<1>4. \A i \in 0 .. e-1 : ~R!Refuses(s, i+1) /\ R!Bit(s.at + i) = 0
  BY <1>1, <1>3 DEF R!Refuses, R!Bit
<1>5. e \in C /\ \A n \in C : n <= e
  <2>1. e \in C
    BY <1>2, <1>3, <1>4
  <2>2. ASSUME NEW n \in C, n > e PROVE FALSE
    <3>1. n \in 0 .. N+1 /\ e \in 0 .. n-1
      BY <1>2, <1>3, <2>2
    <3>2. ~R!Refuses(s, e+1) /\ R!Bit(s.at + e) = 0
      BY <1>2, <3>1
    <3>3. ~(s.at + e = num_bits)
      BY <1>1, <1>3, <3>2 DEF R!Refuses
    <3>4. s.at + e \notin packet
      BY <3>2 DEF R!Bit
    <3>5. e # N + 1
      BY <1>1, <3>1
    <3> QED BY <3>3, <3>4, <3>5 DEF N
  <2>3. \A n \in C : n \in Nat
    BY <1>2
  <2> QED BY <1>3, <2>1, <2>2, <2>3
<1>6. e + 1 \notin C
  BY <1>3, <1>5
<1>7. \A n \in C : n + 1 \notin C => n = e
  <2> SUFFICES ASSUME NEW n \in C, n + 1 \notin C, n # e PROVE FALSE
    OBVIOUS
  <2>1. n \in Nat /\ n < e
    BY <1>2, <1>3, <1>5
  <2>2. n + 1 \in 0 .. N+1 /\ \A i \in 0 .. (n+1) - 1 : i \in 0 .. e-1
    BY <1>1, <1>3, <2>1
  <2>3. n + 1 \in C
    BY <1>2, <1>4, <2>2
  <2> QED BY <2>3
<1>8. R!Rung(s) = CHOOSE n \in C : n + 1 \notin C
  BY DEF R!Rung, C
<1> QED BY <1>5, <1>6, <1>7, <1>8

\* A writer w wrote k noes up to p, an answer and the rest up to q, and s reads them.
Noes(w, k, p, q, s) ==
  /\ Writer(w) /\ k \in 0 .. Len(Tiers) + 1
  /\ Extends(w, p) /\ p.at = w.at + k /\ \A i \in 0 .. k-1 : w.at + i \notin p.ones
  /\ Extends(p, q) /\ ~q.trapped /\ p.at < q.at /\ Over(w, q, s)
  /\ k <= Len(Tiers) => p.at \in q.ones

\* Such a reader stands at k, or at the end of the packet before.
LEMMA Climbs ==
  ASSUME NEW w, NEW k, NEW p, NEW q, NEW s, Noes(w, k, p, q, s)
  PROVE  /\ p.at < num_bits \/ (p.at = num_bits /\ k = Len(Tiers) + 1) => R!Rung(s) = k
         /\ p.at > num_bits \/ (p.at = num_bits /\ k <= Len(Tiers))
              => R!Rung(s) \in 0 .. Len(Tiers) /\ s.at + R!Rung(s) = num_bits
<1> USE DEF Noes
<1> DEFINE N == Len(Tiers)
<1>1. N \in Nat /\ R!Rungs = 0 .. N + 1
  <2>1. N \in Nat
    BY TierFacts
  <2> QED BY <2>1 DEF R!Rungs
<1>2. /\ Open(s) /\ s.at = w.at /\ s.at \in Nat /\ s.at <= num_bits /\ num_bits \in Nat
      /\ p.at \in Nat /\ q.at \in Nat /\ Agrees(q.ones, w.at, q.at)
      /\ \A i \in 0 .. p.at - 1 : i \in q.ones <=> i \in p.ones
  BY DEF Over, Open, Extends, Writer
<1> HIDE DEF N
<1>3. \A i \in 0 .. k-1 : s.at + i < num_bits => s.at + i \notin packet
  <2> SUFFICES ASSUME NEW i \in 0 .. k-1, s.at + i < num_bits PROVE s.at + i \notin packet
    OBVIOUS
  <2>1. s.at + i \in w.at .. q.at - 1 /\ s.at + i \in 0 .. p.at - 1
    BY <1>2
  <2> QED BY <1>2, <2>1 DEF Agrees
<1>4. k <= N /\ p.at < num_bits => s.at + k \in packet
  <2> SUFFICES ASSUME k <= N, p.at < num_bits PROVE s.at + k \in packet
    OBVIOUS
  <2>1. p.at \in q.ones /\ p.at \in w.at .. q.at - 1 /\ p.at = s.at + k
    BY <1>2 DEF N
  <2> QED BY <1>2, <2>1 DEF Agrees
<1>5. k \in 0 .. N+1 /\ k \in R!Rungs
  BY <1>1 DEF N
<1>6. ASSUME p.at < num_bits \/ (p.at = num_bits /\ k = N + 1) PROVE R!Rung(s) = k
  <2>1. s.at + k <= num_bits /\ \A i \in 0 .. k-1 : s.at + i < num_bits
    BY <1>2, <1>5, <1>6
  <2>2. k = N + 1 \/ s.at + k \in packet
    BY <1>1, <1>4, <1>5, <1>6
  <2> QED BY <1>2, <1>3, <1>5, <2>1, <2>2, RungIs DEF N
<1>7. ASSUME p.at > num_bits \/ (p.at = num_bits /\ k <= N)
      PROVE  R!Rung(s) \in 0..N /\ s.at + R!Rung(s) = num_bits
  <2> DEFINE e == num_bits - s.at
  <2>1. e \in 0..N /\ e <= k /\ s.at + e = num_bits
    BY <1>1, <1>2, <1>5, <1>7
  <2> HIDE DEF e
  <2>2. e \in R!Rungs /\ s.at + e <= num_bits /\ \A i \in 0 .. e-1 : s.at + i < num_bits /\ i \in 0 .. k-1
    BY <1>1, <1>2, <1>5, <2>1
  <2>3. R!Rung(s) = e
    BY <1>2, <1>3, <2>1, <2>2, RungIs
  <2> QED BY <2>1, <2>3
<1> QED BY <1>6, <1>7 DEF N

\* What a writer of int_relative writes: a yes, a yes at the tier of the difference, or a value.
WroteOne(w, q, gap) == gap = 1 /\ q = W!SerializeBits(w, 1, 1)
WroteTier(w, q, gap, t) ==
  /\ gap \in TierFirst(t) .. Tiers[t] /\ gap > 1
  /\ q = W!SerializeInt(W!SerializeBits(W!Rungs(w, t), 1, 1), gap, TierFirst(t), Tiers[t])
WroteValue(w, q, gap, v) ==
  gap > Tiers[Len(Tiers)] /\ q = W!SerializeBits(W!Rungs(w, Len(Tiers) + 1), v, MaxBits)

\* The parts of a difference sent in a tier.
LEMMA TierExtends ==
  ASSUME NEW w, Writer(w), NEW gap \in Int, NEW t \in 1 .. Len(Tiers)
  PROVE  LET p == W!Rungs(w, t)
             e == W!SerializeBits(p, 1, 1)
             q == W!SerializeInt(e, gap, TierFirst(t), Tiers[t])
         IN  /\ Extends(w, p) /\ Extends(p, e) /\ Extends(e, q) /\ Extends(p, q) /\ Extends(w, q)
             /\ ~q.trapped => ~e.trapped /\ ~p.trapped
             /\ TierFirst(t) \in Int /\ Tiers[t] \in Int
             /\ (TierFirst(t) < Tiers[t] => BitsRequired(Tiers[t] - TierFirst(t)) \in 1 .. 4*MaxBits)
<1> DEFINE p == W!Rungs(w, t)
           e == W!SerializeBits(p, 1, 1)
           q == W!SerializeInt(e, gap, TierFirst(t), Tiers[t])
<1>1. TierFirst(t) \in Int /\ Tiers[t] \in Int /\ t \in Nat
  BY TierFacts
<1>2. TierFirst(t) < Tiers[t] => BitsRequired(Tiers[t] - TierFirst(t)) \in 1 .. 4*MaxBits
  BY FormatWidths
<1>3. Extends(w, p) /\ Writer(p)
  BY <1>1, RungsExtend DEF Extends
<1> HIDE DEF p
<1>4. Extends(p, e) /\ Writer(e)
  BY <1>3, BitsExtend DEF Extends
<1> HIDE DEF e
<1>5. Extends(e, q)
  BY <1>1, <1>2, <1>4, IntExtends
<1> HIDE DEF q
<1>6. Extends(p, q) /\ (~q.trapped => ~e.trapped)
  BY <1>3, <1>4, <1>5, ExtendsTwice
<1>7. Extends(w, q) /\ (~q.trapped => ~p.trapped)
  BY <1>3, <1>6, ExtendsTwice
<1> QED BY <1>1, <1>2, <1>3, <1>4, <1>5, <1>6, <1>7 DEF p, e, q

\* int_relative: written,
LEMMA RelativeExtends ==
  ASSUME NEW w, Writer(w), NEW previous \in Int, NEW v \in Int
  PROVE  LET q == W!SerializeIntRelative(w, previous, v) IN
         /\ Extends(w, q)
         /\ ~q.trapped => /\ previous >= 0 /\ previous < v
                          /\ \/ WroteOne(w, q, v - previous)
                             \/ \E t \in 1 .. Len(Tiers) : WroteTier(w, q, v - previous, t)
                             \/ WroteValue(w, q, v - previous, v)
<1> DEFINE N == Len(Tiers)
           gap == v - previous
           tiers == {t \in 1..N : gap <= Tiers[t]}
           first == CHOOSE t \in tiers : \A u \in tiers : t <= u
           c == previous >= 0 /\ previous < v
           p == W!Assert(w, c)
           q == W!SerializeIntRelative(w, previous, v)
<1>1. q = CASE p.trapped -> p
            [] ~p.trapped /\ gap = 1 -> W!SerializeBits(p, 1, 1)
            [] ~p.trapped /\ gap > 1 /\ tiers # {} ->
                 W!SerializeInt(W!SerializeBits(W!Rungs(p, first), 1, 1), gap,
                                TierFirst(first), Tiers[first])
            [] OTHER -> W!SerializeBits(W!Rungs(p, N + 1), v, MaxBits)
  BY SameFormat DEF W!SerializeIntRelative
<1>2. Extends(w, p) /\ (~p.trapped => p = w /\ c)
  <2>1. c \in BOOLEAN
    OBVIOUS
  <2> HIDE DEF c
  <2> QED BY <2>1, Asserts
<1>3. gap \in Int /\ (c => gap >= 1)
  OBVIOUS
<1>4. /\ N \in Nat \ {0} /\ \A t \in 1..N : Tiers[t] \in Nat /\ Tiers[t] > 1
  BY TierFacts
<1>5. tiers # {} => first \in tiers /\ \A u \in tiers : first <= u
  <2> SUFFICES ASSUME tiers # {} PROVE \E t \in tiers : \A u \in tiers : t <= u
    OBVIOUS
  <2>1. tiers \subseteq Nat
    BY <1>4
  <2> HIDE DEF tiers
  <2> QED BY <2>1, LeastNat
<1>6. \A t : t \in tiers <=> t \in 1..N /\ gap <= Tiers[t]
  OBVIOUS
<1> HIDE DEF p, q, first, tiers, gap
<1>7. CASE p.trapped
  <2>1. q = p
    BY <1>1, <1>7
  <2> QED BY <1>2, <1>7, <2>1 DEF q
<1>8. CASE ~p.trapped /\ gap = 1
  <2>1. q = W!SerializeBits(p, 1, 1)
    BY <1>1, <1>8
  <2>2. p = w /\ c
    BY <1>2, <1>8
  <2>3. Extends(w, q)
    BY <2>1, <2>2, BitsExtend
  <2> QED BY <1>8, <2>1, <2>2, <2>3 DEF WroteOne, q, gap
<1>9. CASE ~p.trapped /\ gap > 1 /\ tiers # {}
  <2>1. q = W!SerializeInt(W!SerializeBits(W!Rungs(p, first), 1, 1), gap,
                           TierFirst(first), Tiers[first])
    BY <1>1, <1>9
  <2>2. p = w /\ c
    BY <1>2, <1>9
  <2>3. first \in 1..N /\ gap <= Tiers[first]
    BY <1>5, <1>6, <1>9
  <2>4. TierFirst(first) <= gap /\ TierFirst(first) \in Nat
    <3>1. CASE first = 1
      BY <1>3, <1>9, <3>1 DEF TierFirst
    <3>2. CASE first # 1
      <4>1. first - 1 \in 1..N /\ ~(first <= first - 1)
        BY <1>4, <2>3, <3>2
      <4>2. first - 1 \notin tiers
        BY <1>5, <1>9, <4>1
      <4>3. ~(gap <= Tiers[first-1]) /\ Tiers[first-1] \in Nat
        BY <1>4, <1>6, <4>1, <4>2
      <4> QED BY <1>3, <3>2, <4>3 DEF TierFirst
    <3> QED BY <3>1, <3>2
  <2>5. gap \in TierFirst(first) .. Tiers[first]
    BY <1>3, <2>3, <2>4
  <2>6. Extends(w, q)
    BY <1>3, <2>1, <2>2, <2>3, TierExtends
  <2>7. WroteTier(w, q, gap, first)
    BY <1>9, <2>1, <2>2, <2>5 DEF WroteTier
  <2> QED BY <2>2, <2>3, <2>6, <2>7 DEF q, gap
<1>10. CASE ~p.trapped /\ gap # 1 /\ ~(gap > 1 /\ tiers # {})
  <2>1. q = W!SerializeBits(W!Rungs(p, N + 1), v, MaxBits)
    BY <1>1, <1>10
  <2>2. p = w /\ c
    BY <1>2, <1>10
  <2>3. tiers = {} /\ v \in Nat /\ N + 1 \in Nat
    BY <1>3, <1>4, <1>10, <2>2
  <2>4. gap > Tiers[N]
    <3>1. N \in 1..N /\ Tiers[N] \in Nat
      BY <1>4
    <3>2. ~(gap <= Tiers[N])
      BY <1>6, <2>3, <3>1
    <3> QED BY <1>3, <3>1, <3>2
  <2> DEFINE r == W!Rungs(w, N + 1)
  <2>5. Extends(w, r) /\ Writer(r)
    <3> HIDE DEF N
    <3> QED BY <2>3, RungsExtend DEF Extends
  <2> HIDE DEF r
  <2>6. Extends(r, q)
    BY <2>1, <2>2, <2>3, <2>5, BitsExtend DEF r
  <2>7. Extends(w, q)
    BY <2>5, <2>6, ExtendsTwice
  <2>8. WroteValue(w, q, gap, v)
    BY <2>1, <2>2, <2>4 DEF WroteValue
  <2> QED BY <2>2, <2>7, <2>8 DEF q, gap
<1> QED BY <1>7, <1>8, <1>9, <1>10

\* A reader at the end of the packet has no answer.
LEMMA EndOfLadder ==
  ASSUME NEW s, Open(s), num_bits \in Nat, R!Rung(s) \in 0 .. Len(Tiers),
         s.at + R!Rung(s) = num_bits, NEW previous \in Int, previous >= 0,
         NEW b \in Nat, b > num_bits
  PROVE  Goes(s, R!SerializeIntRelative(s, previous), b)
<1> DEFINE t == R!Rung(s)
           x == [s EXCEPT !.at = s.at + t]
           yes == R!SerializeBits(x, 1)
           r == R!SerializeIntRelative(s, previous)
<1>1. Len(Tiers) \in Nat /\ ~(t > Len(Tiers)) /\ ~(previous < 0)
  BY TierFacts
<1>2. r = R!BoundedTier(x, t, previous)
  BY <1>1 DEF R!SerializeIntRelative
<1> HIDE DEF t
<1>3. Open(x) /\ x.at = num_bits /\ x.dest = s.dest /\ x.failed = Ok
  BY DEF Open, Fields, t
<1> HIDE DEF x
<1>4. R!Refuses(x, 1)
  BY <1>3 DEF R!Refuses
<1>5. yes = R!Latch(x, "past_end")
  <2>1. 1 \in 1..MaxBits
    OBVIOUS
  <2> QED BY <1>3, <1>4, <2>1, PastEnd DEF R!SerializeBits, R!Refusal
<1>6. Goes(x, yes, b)
  BY <1>3, <1>5, LatchShort, PastEnd
<1>7. yes.ret # Ok
  BY <1>6 DEF Goes
<1>8. r = yes
  <2> HIDE DEF yes
  <2> QED BY <1>2, <1>7, PastEnd DEF R!BoundedTier, yes
<1> HIDE DEF yes, r
<1>9. Goes(s, r, b)
  BY <1>3, <1>6, <1>8 DEF Goes
<1> QED BY <1>9 DEF r

\* A reader at a rung is where the writer was.
LEMMA AtRung ==
  ASSUME NEW s, Open(s), NEW k \in Nat, NEW b, b = s.at + k, b <= num_bits, num_bits \in Nat
  PROVE  Goes(s, [s EXCEPT !.at = s.at + k], b)
<1> DEFINE x == [s EXCEPT !.at = s.at + k]
<1>1. s.at \in Nat /\ ~(b > num_bits)
  BY DEF Open
<1>2. DOMAIN x = Fields /\ x.at = b /\ x.failed = s.failed /\ x.ret = s.ret /\ x.dest = s.dest
  BY DEF Open, Fields
<1> HIDE DEF x
<1>3. Goes(s, x, b)
  BY <1>1, <1>2 DEF Goes, Open
<1> QED BY <1>3 DEF x

\* A value that the domain of int_relative has is accepted.
LEMMA Accepts ==
  ASSUME NEW previous \in Int, previous >= 0, NEW v \in Int, previous < v, v <= MaxInt, NEW r
  PROVE  InDomain(previous, v) /\ R!Accept(r, previous, v) = [r EXCEPT !.value = v]
<1>1. MaxInt \in Int
  <2>1. MaxBits - 1 \in Nat
    OBVIOUS
  <2>2. 2^(MaxBits-1) \in Nat
    BY <2>1, PowerAbove
  <2> QED BY <2>2 DEF MaxInt
<1>2. InDomain(previous, v)
  BY <1>1 DEF InDomain
<1> QED BY <1>2, SameFormat DEF R!Accept

\* A yes is a one.
LEMMA YesExtends ==
  ASSUME NEW w, Writer(w), NEW q, q = W!SerializeBits(w, 1, 1), ~q.trapped
  PROVE  Extends(w, q) /\ q.at = w.at + 1 /\ w.at \in q.ones
<1> DEFINE one == 1
           x == W!SerializeBits(w, one, one)
<1>1. one \in Nat /\ 0 \in 0 .. one - 1 /\ (one \div 2^0) % 2 = 1
  BY PowerZero
<1>2. one = 1 /\ q = x
  OBVIOUS
<1> HIDE DEF one
<1>3. /\ Extends(w, x)
      /\ ~x.trapped => /\ x.at = w.at + one
                       /\ \A i \in 0 .. one - 1 : w.at + i \in x.ones <=> (one \div 2^i) % 2 = 1
  BY <1>1, BitsExtend
<1> HIDE DEF x
<1>4. w.at + 0 \in q.ones
  BY <1>1, <1>2, <1>3
<1>5. w.at + 0 = w.at
  BY DEF Writer
<1> QED BY <1>2, <1>3, <1>4, <1>5

\* The next value, in one bit.
LEMMA OneArrives ==
  ASSUME NEW w, Writer(w), NEW previous \in Int, previous >= 0, NEW v \in Int, previous < v,
         v <= MaxInt, NEW q, WroteOne(w, q, v - previous), ~q.trapped, NEW s, Over(w, q, s)
  PROVE  Arrives(s, R!SerializeIntRelative(s, previous), q.at, v)
<1> DEFINE r == R!SerializeIntRelative(s, previous)
           x == [s EXCEPT !.at = s.at + 0]
           yes == R!SerializeBits(x, 1)
<1>1. q = W!SerializeBits(w, 1, 1) /\ v = previous + 1
  BY DEF WroteOne
<1>2. Extends(w, q) /\ q.at = w.at + 1 /\ w.at \in q.ones
  BY <1>1, YesExtends
<1>3. /\ Extends(w, w) /\ w.at \in Nat /\ w.at = w.at + 0 /\ w.at <= num_bits /\ num_bits \in Nat
      /\ Open(s) /\ s.at = w.at /\ w.at < q.at /\ q.at \in Nat
  <2>1. w.at \in Nat /\ s.at \in 0..num_bits /\ num_bits \in Nat /\ Open(s) /\ s.at = w.at
    BY DEF Over, Open, Writer
  <2>2. Extends(w, w)
    BY ExtendsItself
  <2> QED BY <1>2, <2>1, <2>2
<1>4. Len(Tiers) \in Nat /\ 0 \in 0 .. Len(Tiers) + 1 /\ ~(previous < 0)
  BY TierFacts
<1>5. /\ w.at < num_bits => R!Rung(s) = 0
      /\ w.at = num_bits => R!Rung(s) \in 0 .. Len(Tiers) /\ s.at + R!Rung(s) = num_bits
  <2>1. \A i \in 0 .. 0-1 : w.at + i \notin w.ones
    OBVIOUS
  <2>3. /\ w.at < num_bits \/ (w.at = num_bits /\ 0 = Len(Tiers) + 1) => R!Rung(s) = 0
        /\ w.at > num_bits \/ (w.at = num_bits /\ 0 <= Len(Tiers))
             => R!Rung(s) \in 0 .. Len(Tiers) /\ s.at + R!Rung(s) = num_bits
    <3>1. Noes(w, 0, w, q, s)
      BY <1>2, <1>3, <1>4, <2>1 DEF Noes
    <3> QED BY <3>1, Climbs
  <2> QED BY <1>4, <2>3
<1>6. CASE w.at = num_bits
  <2>1. q.at > num_bits /\ ~(q.at <= num_bits)
    BY <1>3, <1>6
  <2>2. Goes(s, r, q.at)
    BY <1>3, <1>5, <1>6, <2>1, EndOfLadder
  <2> HIDE DEF r
  <2> QED BY <2>1, <2>2 DEF Arrives, r
<1>7. CASE w.at < num_bits
  <2>1. r = R!BoundedTier(x, 0, previous)
    BY <1>4, <1>5, <1>7 DEF R!SerializeIntRelative
  <2>2. Goes(s, x, w.at)
    BY <1>3, AtRung
  <2>3. Over(w, q, x)
    <3> HIDE DEF x
    <3> QED BY <1>2, <1>3, <2>2, OverParts
  <2> HIDE DEF x
  <2>4. Arrives(x, yes, q.at, 1)
    BY <1>1, <2>3, BitsArrive
  <2>5. R!Accept(yes, previous, previous + 1) = [yes EXCEPT !.value = v]
    BY <1>1, Accepts
  <2> HIDE DEF yes
  <2>6. r = IF yes.ret # Ok THEN yes ELSE [yes EXCEPT !.value = v]
    BY <2>1, <2>5, PastEnd DEF R!BoundedTier, yes
  <2> HIDE DEF r
  <2>7. Arrives(x, r, q.at, v)
    BY <1>3, <2>4, <2>6, Revalued
  <2>8. Arrives(s, r, q.at, v)
    BY <1>3, <2>2, <2>7, GoesOn DEF Arrives
  <2> QED BY <2>8 DEF r
<1> QED BY <1>3, <1>6, <1>7

\* A difference of a bounded tier.
LEMMA TierArrives ==
  ASSUME NEW w, Writer(w), NEW previous \in Int, previous >= 0, NEW v \in Int, previous < v,
         v <= MaxInt, NEW t \in 1 .. Len(Tiers), NEW q, WroteTier(w, q, v - previous, t),
         ~q.trapped, NEW s, Over(w, q, s)
  PROVE  Arrives(s, R!SerializeIntRelative(s, previous), q.at, v)
<1> DEFINE gap == v - previous
           p == W!Rungs(w, t)
           e == W!SerializeBits(p, 1, 1)
           min == TierFirst(t)
           max == Tiers[t]
           r == R!SerializeIntRelative(s, previous)
           x == [s EXCEPT !.at = s.at + t]
           yes == R!SerializeBits(x, 1)
           u == R!SerializeInt(yes, min, max)
<1>1. gap \in min .. max /\ q = W!SerializeInt(e, gap, min, max) /\ gap \in Int
  BY DEF WroteTier
<1>2. /\ Extends(w, p) /\ Extends(p, e) /\ Extends(e, q) /\ Extends(p, q) /\ Extends(w, q)
      /\ ~e.trapped /\ ~p.trapped /\ min \in Int /\ max \in Int
      /\ (min < max => BitsRequired(max - min) \in 1 .. 4*MaxBits)
  <2> HIDE DEF gap
  <2> QED BY <1>1, TierExtends
<1>3. Len(Tiers) \in Nat /\ t \in Nat /\ t <= Len(Tiers) /\ t \in 0 .. Len(Tiers) + 1 /\ ~(t > Len(Tiers))
      /\ t # 0 /\ ~(previous < 0) /\ previous + gap = v
  BY TierFacts
<1> HIDE DEF gap, min, max
<1>4. p.at = w.at + t /\ \A i \in 0 .. t-1 : w.at + i \notin p.ones
  BY <1>2, <1>3, RungsExtend
<1>5. Writer(p) /\ Writer(e)
  BY <1>2 DEF Extends
<1> HIDE DEF p
<1>6. e.at = p.at + 1 /\ p.at \in e.ones
  BY <1>2, <1>5, YesExtends
<1>7. /\ w.at \in Nat /\ p.at \in Nat /\ e.at \in Nat /\ q.at \in Nat /\ num_bits \in Nat
      /\ p.at < q.at /\ e.at <= q.at /\ Open(s) /\ s.at = w.at
  <2>1. /\ w.at \in Nat /\ p.at \in Nat /\ e.at \in Nat /\ q.at \in Nat /\ num_bits \in Nat
        /\ e.at <= q.at /\ Open(s) /\ s.at = w.at
    BY <1>2 DEF Over, Extends, Writer
  <2> QED BY <1>6, <2>1
<1>8. p.at \in q.ones
  <2>1. p.at \in e.ones /\ p.at \in 0 .. e.at - 1
    BY <1>6, <1>7
  <2> QED BY <1>2, <2>1 DEF Extends
<1> HIDE DEF e
<1>9. /\ p.at < num_bits => R!Rung(s) = t
      /\ p.at >= num_bits => R!Rung(s) \in 0 .. Len(Tiers) /\ s.at + R!Rung(s) = num_bits
  <2>1. Noes(w, t, p, q, s)
    BY <1>2, <1>3, <1>4, <1>7, <1>8 DEF Noes
  <2>2. /\ p.at < num_bits \/ (p.at = num_bits /\ t = Len(Tiers) + 1) => R!Rung(s) = t
        /\ p.at > num_bits \/ (p.at = num_bits /\ t <= Len(Tiers))
             => R!Rung(s) \in 0 .. Len(Tiers) /\ s.at + R!Rung(s) = num_bits
    BY <2>1, Climbs
  <2> QED BY <1>3, <1>7, <2>2
<1>10. CASE p.at >= num_bits
  <2>1. q.at > num_bits /\ ~(q.at <= num_bits)
    BY <1>7, <1>10
  <2>2. Goes(s, r, q.at)
    BY <1>7, <1>9, <1>10, <2>1, EndOfLadder
  <2> HIDE DEF r
  <2> QED BY <2>1, <2>2 DEF Arrives, r
<1>11. CASE p.at < num_bits
  <2>1. r = R!BoundedTier(x, t, previous)
    BY <1>3, <1>9, <1>11 DEF R!SerializeIntRelative
  <2>2. Goes(s, x, p.at) /\ p.at <= num_bits
    <3>1. p.at = s.at + t /\ p.at <= num_bits
      BY <1>4, <1>7, <1>11
    <3> QED BY <1>3, <1>7, <3>1, AtRung
  <2> HIDE DEF x
  <2>3. Over(p, q, x)
    BY <1>2, <2>2, OverParts
  <2>4. Over(p, e, x) /\ ~e.trapped => Arrives(x, yes, e.at, 1)
    BY <1>5, BitsArrive DEF e
  <2> HIDE DEF yes
  <2>5. Over(e, q, yes) => Arrives(yes, u, q.at, gap)
    <3>1. min = max => gap = min
      BY <1>1, <1>2
    <3> QED BY <1>1, <1>2, <1>5, <3>1, IntArrives
  <2>6. Parts(p, e, q, x, yes, 1, u, gap)
    BY <1>2, <1>5, <2>3, <2>4, <2>5 DEF Parts
  <2>7. R!Accept(u, previous, v) = [u EXCEPT !.value = v]
    BY Accepts
  <2>8. r = IF yes.ret # Ok THEN yes ELSE IF u.ret # Ok THEN u ELSE R!Accept(u, previous, previous + u.value)
    BY <1>3, <2>1, PastEnd, SameFormat DEF R!BoundedTier, yes, min, max
  <2> HIDE DEF u, r
  <2>9. Joins(yes, 1, u, gap, r, v)
    BY <1>3, <2>7, <2>8 DEF Joins
  <2>10. Arrives(x, r, q.at, v)
    BY <2>6, <2>9, InTurn
  <2>11. Arrives(s, r, q.at, v)
    BY <2>2, <2>10, GoesOn DEF Arrives
  <2> QED BY <2>11 DEF r
<1> QED BY <1>7, <1>10, <1>11

\* A value that no tier reaches.
LEMMA ValueArrives ==
  ASSUME NEW w, Writer(w), NEW previous \in Int, previous >= 0, NEW v \in Int, previous < v,
         v <= MaxInt, NEW q, WroteValue(w, q, v - previous, v), ~q.trapped, NEW s, Over(w, q, s)
  PROVE  Arrives(s, R!SerializeIntRelative(s, previous), q.at, v)
<1> DEFINE N == Len(Tiers)
           k == N + 1
           p == W!Rungs(w, k)
           r == R!SerializeIntRelative(s, previous)
           x == [s EXCEPT !.at = s.at + k]
           u == R!SerializeBits(x, MaxBits)
<1>1. v - previous > Tiers[N] /\ q = W!SerializeBits(p, v, MaxBits)
  BY DEF WroteValue
<1>2. N \in Nat /\ k \in Nat /\ k \in 0 .. N+1 /\ ~(k <= N) /\ k > N /\ Tiers[N] \in Nat /\ ~(previous < 0) /\ v \in Nat
  <2>1. N \in Nat \ {0} /\ \A t \in 1..N : Tiers[t] \in Nat
    BY TierFacts
  <2> HIDE DEF N
  <2> QED BY <2>1
<1>3. ~(v - previous <= Tiers[N])
  BY <1>1, <1>2
<1>4. Extends(w, p) /\ (~p.trapped => p.at = w.at + k /\ \A i \in 0 .. k-1 : w.at + i \notin p.ones)
  <2> HIDE DEF k
  <2> QED BY <1>2, RungsExtend
<1>5. Writer(p)
  BY <1>4 DEF Extends
<1> HIDE DEF p
<1>6. Extends(p, q) /\ q.at = p.at + MaxBits
  BY <1>1, <1>2, <1>5, BitsExtend
<1>7. ~p.trapped
  BY <1>6 DEF Extends
<1>8. /\ w.at \in Nat /\ p.at \in Nat /\ q.at \in Nat /\ num_bits \in Nat
      /\ p.at < q.at /\ Open(s) /\ s.at = w.at
  <2>1. /\ w.at \in Nat /\ p.at \in Nat /\ q.at \in Nat /\ num_bits \in Nat
        /\ Open(s) /\ s.at = w.at
    BY <1>5, <1>6 DEF Over, Extends, Writer
  <2> QED BY <1>6, <2>1
<1>9. /\ p.at <= num_bits => R!Rung(s) = k
      /\ p.at > num_bits => R!Rung(s) \in 0..N /\ s.at + R!Rung(s) = num_bits
  <2>1. /\ k <= Len(Tiers) => p.at \in q.ones
        /\ k \in 0 .. Len(Tiers) + 1 /\ k = Len(Tiers) + 1 /\ ~(k <= Len(Tiers))
        /\ p.at = w.at + k /\ \A i \in 0 .. k-1 : w.at + i \notin p.ones
    BY <1>2, <1>4, <1>7
  <2> HIDE DEF k, N
  <2>2. Noes(w, k, p, q, s)
    BY <1>4, <1>6, <1>8, <2>1 DEF Noes
  <2>3. /\ p.at < num_bits \/ (p.at = num_bits /\ k = Len(Tiers) + 1) => R!Rung(s) = k
        /\ p.at > num_bits \/ (p.at = num_bits /\ k <= Len(Tiers))
             => R!Rung(s) \in 0 .. Len(Tiers) /\ s.at + R!Rung(s) = num_bits
    BY <2>2, Climbs
  <2> QED BY <1>8, <2>1, <2>3 DEF N
<1> HIDE DEF k
<1>10. CASE p.at > num_bits
  <2>1. q.at > num_bits /\ ~(q.at <= num_bits)
    BY <1>8, <1>10
  <2>2. Goes(s, r, q.at)
    BY <1>8, <1>9, <1>10, <2>1, EndOfLadder
  <2> HIDE DEF r
  <2> QED BY <2>1, <2>2 DEF Arrives, r
<1>11. CASE p.at <= num_bits
  <2>1. r = R!AbsoluteTier(x, previous)
    BY <1>2, <1>9, <1>11 DEF R!SerializeIntRelative
  <2>2. Goes(s, x, p.at)
    BY <1>2, <1>4, <1>7, <1>8, <1>11, AtRung
  <2> HIDE DEF x
  <2>3. Over(p, q, x)
    BY <1>4, <1>6, <1>11, <2>2, OverParts
  <2>4. Arrives(x, u, q.at, v)
    BY <1>1, <1>2, <1>5, <2>3, BitsArrive
  <2>5. InDomain(previous, v)
    BY Accepts
  <2>6. r = IF u.ret # Ok THEN u
            ELSE IF ~InDomain(previous, u.value) THEN R!Latch(u, "value_out_of_range")
            ELSE IF u.value - previous <= Tiers[N] THEN R!Latch(u, "non_canonical") ELSE u
    BY <2>1, PastEnd, SameFormat DEF R!AbsoluteTier, R!Low
  <2> HIDE DEF u, r
  <2>7. (u.ret # Ok => r = u) /\ (u.ret = Ok /\ u.value = v => r = u)
    BY <1>3, <2>5, <2>6
  <2>8. Arrives(x, r, q.at, v)
    BY <1>8, <2>4, <2>7, Checked
  <2>9. Arrives(s, r, q.at, v)
    BY <1>11, <2>2, <2>8, GoesOn DEF Arrives
  <2> QED BY <2>9 DEF r
<1> QED BY <1>8, <1>10, <1>11

\* and read.
LEMMA RelativeArrives ==
  ASSUME NEW w, Writer(w), NEW previous \in Int, NEW v \in Int, v <= MaxInt,
         NEW q, q = W!SerializeIntRelative(w, previous, v), ~q.trapped, NEW s, Over(w, q, s)
  PROVE  Arrives(s, R!SerializeIntRelative(s, previous), q.at, v)
<1>1. /\ previous >= 0 /\ previous < v
      /\ \/ WroteOne(w, q, v - previous)
         \/ \E t \in 1 .. Len(Tiers) : WroteTier(w, q, v - previous, t)
         \/ WroteValue(w, q, v - previous, v)
  BY RelativeExtends
<1> QED BY <1>1, OneArrives, TierArrives, ValueArrives

-----------------------------------------------------------------------------
(* A packet of nested objects *)

\* The types of a packet, as MessageAssumption has them.
Packetable(c) ==
  /\ c.value \in [sequence : Nat, players : Seq([id : Int, x : Int, alive : Nat]),
                  name : Seq(Unsigned8)]
  /\ WellFormed(c.value.name) /\ c.size \in Nat
  /\ c.max_id \in Nat /\ BitsRequired(c.max_id) <= MaxBits
  /\ c.max_players \in Nat /\ BitsRequired(c.max_players) <= MaxBits
  /\ c.max_id = 0 => \A i \in DOMAIN c.value.players : c.value.players[i].id = 0
  /\ c.max_players = 0 => c.value.players = <<>>
  /\ c.quanta.max \in Nat

\* what the reader of a player should get
Player(c, p) == [p EXCEPT !.x = 2 * W!Quantum(p.x, c.quanta.max)]

Players == [id : Int, x : Int, alive : Nat]

\* A range from nothing up takes a group.
LEMMA FromNothing ==
  ASSUME NEW n \in Nat, BitsRequired(n) <= MaxBits
  PROVE  0 < n => BitsRequired(n - 0) \in 1 .. 4*MaxBits
<1> SUFFICES ASSUME 0 < n PROVE BitsRequired(n - 0) \in 1 .. 4*MaxBits
  OBVIOUS
<1> DEFINE b == BitsRequired(n)
<1>1. b \in Nat /\ n < 2^b /\ n - 0 = n
  BY BitsRequiredHolds
<1>2. b # 0
  <2> SUFFICES ASSUME b = 0 PROVE FALSE
    OBVIOUS
  <2>1. n < 2^0
    BY <1>1
  <2> QED BY <2>1, PowerZero
<1>3. b <= MaxBits
  OBVIOUS
<1> HIDE DEF b
<1>4. b \in 1 .. 4*MaxBits
  BY <1>1, <1>2, <1>3
<1> QED BY <1>1, <1>4 DEF b

\* A player: written,
LEMMA PlayerExtends ==
  ASSUME NEW w, Writer(w), NEW c, Packetable(c), NEW p \in Players
  PROVE  LET i == W!SerializeInt(w, p.id, 0, c.max_id)
             x == W!SerializeCompressedFloat(i, c.quanta, TRUE, p.x)
             q == WritePlayer(w, c, p)
         IN  /\ Extends(w, i) /\ Extends(i, x) /\ Extends(x, q) /\ Extends(i, q) /\ Extends(w, q)
             /\ q = W!SerializeBits(x, p.alive, 1)
<1> DEFINE i == W!SerializeInt(w, p.id, 0, c.max_id)
           x == W!SerializeCompressedFloat(i, c.quanta, TRUE, p.x)
           q == WritePlayer(w, c, p)
<1>1. q = W!SerializeBits(x, p.alive, 1)
  BY DEF WritePlayer
<1>2. /\ p.id \in Int /\ p.x \in Int /\ p.alive \in Nat /\ 0 \in Int /\ c.max_id \in Int /\ c.quanta.max \in Nat
      /\ 0 < c.max_id => BitsRequired(c.max_id - 0) \in 1 .. 4*MaxBits
  <2>1. c.quanta.max \in Nat /\ c.max_id \in Nat /\ BitsRequired(c.max_id) <= MaxBits
    BY DEF Packetable
  <2>2. 0 < c.max_id => BitsRequired(c.max_id - 0) \in 1 .. 4*MaxBits
    BY <2>1, FromNothing
  <2> QED BY <2>1, <2>2 DEF Players
<1>3. Extends(w, i) /\ Writer(i)
  BY <1>2, IntExtends DEF Extends
<1> HIDE DEF i
<1>4. Extends(i, x) /\ Writer(x)
  BY <1>2, <1>3, CompressedExtends DEF Extends
<1> HIDE DEF x, q
<1>5. Extends(x, q)
  BY <1>1, <1>2, <1>4, BitsExtend
<1>6. Extends(i, q)
  BY <1>3, <1>4, <1>5, ExtendsTwice
<1>7. Extends(w, q)
  BY <1>3, <1>6, ExtendsTwice
<1> QED BY <1>1, <1>3, <1>4, <1>5, <1>6, <1>7 DEF q, x, i

\* and read.
LEMMA PlayerArrives ==
  ASSUME NEW w, Writer(w), NEW c, Packetable(c), NEW p \in Players, c.max_id = 0 => p.id = 0,
         NEW q, q = WritePlayer(w, c, p), ~q.trapped, NEW s, Over(w, q, s)
  PROVE  Arrives(s, ReadPlayer(s, c), q.at, Player(c, p))
<1> DEFINE i == W!SerializeInt(w, p.id, 0, c.max_id)
           x == W!SerializeCompressedFloat(i, c.quanta, TRUE, p.x)
           code == W!Quantum(p.x, c.quanta.max)
           m == Player(c, p)
           t == R!SerializeInt(s, 0, c.max_id)
           u == R!SerializeCompressedFloat(t, c.quanta)
           v == R!SerializeBits(u, 1)
           y == [v EXCEPT !.value = [id |-> t.value, x |-> 2 * u.value, alive |-> v.value]]
           b == IF u.ret # Ok THEN u ELSE IF v.ret # Ok THEN v ELSE y
           r == ReadPlayer(s, c)
<1>1. r = IF t.ret # Ok THEN t ELSE b
  BY DEF ReadPlayer, Try
<1>2. /\ p.id \in Int /\ p.x \in Int /\ p.alive \in Nat /\ 0 \in Int /\ c.max_id \in Int /\ c.quanta.max \in Nat
      /\ 0 < c.max_id => BitsRequired(c.max_id - 0) \in 1 .. 4*MaxBits
      /\ 0 = c.max_id => p.id = 0
  <2>1. c.quanta.max \in Nat /\ c.max_id \in Nat /\ BitsRequired(c.max_id) <= MaxBits
    BY DEF Packetable
  <2>2. 0 < c.max_id => BitsRequired(c.max_id - 0) \in 1 .. 4*MaxBits
    BY <2>1, FromNothing
  <2> QED BY <2>1, <2>2 DEF Players
<1>3. m = [id |-> p.id, x |-> 2 * code, alive |-> p.alive]
  BY DEF Player, Players
<1>4. /\ Extends(w, i) /\ Extends(i, x) /\ Extends(x, q) /\ Extends(i, q)
      /\ q = W!SerializeBits(x, p.alive, 1)
  BY PlayerExtends
<1>5. Writer(i) /\ Writer(x)
  BY <1>4 DEF Extends
<1>6. Over(w, i, s) /\ ~i.trapped => Arrives(s, t, i.at, p.id)
  BY <1>2, IntArrives
<1> HIDE DEF i, t, m
<1>7. Over(i, x, t) /\ ~x.trapped => Arrives(t, u, x.at, code)
  BY <1>2, <1>5, CompressedArrives
<1> HIDE DEF x, u, code
<1>8. Over(x, q, u) => Arrives(u, v, q.at, p.alive)
  BY <1>2, <1>4, <1>5, BitsArrive
<1> HIDE DEF v
<1>9. Over(i, q, t) /\ t.value = p.id => Arrives(t, b, q.at, m)
  <2> SUFFICES ASSUME Over(i, q, t), t.value = p.id PROVE Arrives(t, b, q.at, m)
    OBVIOUS
  <2>1. Parts(i, x, q, t, u, code, v, p.alive)
    BY <1>4, <1>5, <1>7, <1>8 DEF Parts
  <2>2. Joins(u, code, v, p.alive, b, m)
    BY <1>3 DEF Joins
  <2> HIDE DEF b
  <2> QED BY <2>1, <2>2, InTurn
<1> HIDE DEF b, r
<1>10. Parts(w, i, q, s, t, p.id, b, m)
  BY <1>4, <1>6, <1>9 DEF Parts
<1>11. Joins(t, p.id, b, m, r, m)
  BY <1>1 DEF Joins
<1>12. Arrives(s, r, q.at, m)
  BY <1>10, <1>11, InTurn
<1> QED BY <1>12 DEF r, m

\* The loops over the players, up to m.
WritesPlayers(f, first, c, players, m) ==
  f = [k \in 0..m |-> IF k = 0 THEN first ELSE WritePlayer(f[k-1], c, players[k])]

NextPlayer(t, c) == LET q == ReadPlayer(t, c) IN
  IF t.ret # Ok THEN t ELSE IF q.ret # Ok THEN q
  ELSE [q EXCEPT !.value = Append(t.value, q.value)]

ReadsPlayers(f, s, c, m) ==
  f = [k \in 0..m |-> IF k = 0 THEN [s EXCEPT !.value = <<>>] ELSE NextPlayer(f[k-1], c)]

\* Both loops end.
LEMMA PlayersWritten ==
  ASSUME NEW first, NEW c, NEW players
  PROVE  \A m \in Nat : \E f : WritesPlayers(f, first, c, players, m)
<1> DEFINE P(m) == \E f : WritesPlayers(f, first, c, players, m)
           Bad == {m \in Nat : ~P(m)}
<1> SUFFICES ASSUME Bad # {} PROVE FALSE
  OBVIOUS
<1>1. PICK m \in Bad : \A y \in Bad : m <= y
  <2>1. Bad \subseteq Nat
    OBVIOUS
  <2> HIDE DEF Bad
  <2> QED BY <2>1, LeastNat
<1>2. m \in Nat /\ ~P(m)
  OBVIOUS
<1>3. CASE m = 0
  <2> DEFINE f == [k \in 0..0 |-> first]
  <2>1. WritesPlayers(f, first, c, players, 0)
    BY DEF WritesPlayers
  <2> QED BY <2>1, <1>2, <1>3
<1>4. CASE m # 0
  <2>1. m - 1 \in Nat /\ m - 1 \notin Bad /\ m \in 0..m /\ m - 1 \in 0 .. m-1
    <3>1. m - 1 \in Nat /\ ~(m <= m - 1) /\ m \in 0..m /\ m - 1 \in 0 .. m-1
      BY <1>2, <1>4
    <3> HIDE DEF Bad
    <3> QED BY <1>1, <3>1
  <2>2. PICK f : WritesPlayers(f, first, c, players, m-1)
    BY <2>1
  <2> DEFINE g == [k \in 0..m |-> IF k = m THEN WritePlayer(f[m-1], c, players[m]) ELSE f[k]]
  <2>3. \A k \in 0..m : g[k] = IF k = 0 THEN first ELSE WritePlayer(g[k-1], c, players[k])
    <3> TAKE k \in 0..m
    <3>1. CASE k = m
      <4>1. g[k] = WritePlayer(f[m-1], c, players[m]) /\ m - 1 \in 0..m /\ m - 1 # m
        BY <1>2, <2>1, <3>1
      <4>2. g[m-1] = f[m-1]
        BY <4>1
      <4> QED BY <1>4, <3>1, <4>1, <4>2
    <3>2. CASE k # m
      <4>1. k \in 0 .. m-1
        BY <1>2, <3>2
      <4>2. f[k] = IF k = 0 THEN first ELSE WritePlayer(f[k-1], c, players[k])
        BY <2>2, <4>1 DEF WritesPlayers
      <4>3. g[k] = f[k] /\ (k # 0 => g[k-1] = f[k-1])
        <5>1. k # 0 => k - 1 \in 0..m /\ k - 1 # m
          BY <4>1
        <5> QED BY <3>2, <5>1
      <4> HIDE DEF g
      <4> QED BY <4>2, <4>3
    <3> QED BY <3>1, <3>2
  <2>4. g = [k \in 0..m |-> g[k]]
    OBVIOUS
  <2> HIDE DEF g
  <2>5. WritesPlayers(g, first, c, players, m)
    BY <2>3, <2>4 DEF WritesPlayers
  <2> QED BY <2>5, <1>2
<1> QED BY <1>3, <1>4

\* The same of the reader's.
LEMMA PlayersRead ==
  ASSUME NEW s, NEW c
  PROVE  \A m \in Nat : \E f : ReadsPlayers(f, s, c, m)
<1> DEFINE P(m) == \E f : ReadsPlayers(f, s, c, m)
           Bad == {m \in Nat : ~P(m)}
           none == [s EXCEPT !.value = <<>>]
<1> SUFFICES ASSUME Bad # {} PROVE FALSE
  OBVIOUS
<1>1. PICK m \in Bad : \A y \in Bad : m <= y
  <2>1. Bad \subseteq Nat
    OBVIOUS
  <2> HIDE DEF Bad
  <2> QED BY <2>1, LeastNat
<1>2. m \in Nat /\ ~P(m)
  OBVIOUS
<1>3. CASE m = 0
  <2> DEFINE f == [k \in 0..0 |-> none]
  <2>1. ReadsPlayers(f, s, c, 0)
    BY DEF ReadsPlayers
  <2> QED BY <2>1, <1>2, <1>3
<1>4. CASE m # 0
  <2>1. m - 1 \in Nat /\ m - 1 \notin Bad /\ m \in 0..m /\ m - 1 \in 0 .. m-1
    <3>1. m - 1 \in Nat /\ ~(m <= m - 1) /\ m \in 0..m /\ m - 1 \in 0 .. m-1
      BY <1>2, <1>4
    <3> HIDE DEF Bad
    <3> QED BY <1>1, <3>1
  <2>2. PICK f : ReadsPlayers(f, s, c, m-1)
    BY <2>1
  <2> DEFINE g == [k \in 0..m |-> IF k = m THEN NextPlayer(f[m-1], c) ELSE f[k]]
  <2>3. \A k \in 0..m : g[k] = IF k = 0 THEN none ELSE NextPlayer(g[k-1], c)
    <3> TAKE k \in 0..m
    <3>1. CASE k = m
      <4>1. g[k] = NextPlayer(f[m-1], c) /\ m - 1 \in 0..m /\ m - 1 # m
        BY <1>2, <2>1, <3>1
      <4>2. g[m-1] = f[m-1]
        BY <4>1
      <4> QED BY <1>4, <3>1, <4>1, <4>2
    <3>2. CASE k # m
      <4>1. k \in 0 .. m-1
        BY <1>2, <3>2
      <4>2. f[k] = IF k = 0 THEN none ELSE NextPlayer(f[k-1], c)
        BY <2>2, <4>1 DEF ReadsPlayers
      <4>3. g[k] = f[k] /\ (k # 0 => g[k-1] = f[k-1])
        <5>1. k # 0 => k - 1 \in 0..m /\ k - 1 # m
          BY <4>1
        <5> QED BY <3>2, <5>1
      <4> HIDE DEF g
      <4> QED BY <4>2, <4>3
    <3> QED BY <3>1, <3>2
  <2>4. g = [k \in 0..m |-> g[k]]
    OBVIOUS
  <2> HIDE DEF g
  <2>5. ReadsPlayers(g, s, c, m)
    BY <2>3, <2>4 DEF ReadsPlayers
  <2> QED BY <2>5, <1>2
<1> QED BY <1>3, <1>4

\* What the players are to be read as, up to the k-th.
Crowd(c, players, k) == [j \in 1..k |-> Player(c, players[j])]

\* One player more.
LEMMA OneMore ==
  ASSUME NEW c, Packetable(c), NEW players \in Seq(Players), NEW k \in 1 .. Len(players)
  PROVE  Append(Crowd(c, players, k-1), Player(c, players[k])) = Crowd(c, players, k)
<1> DEFINE a == Crowd(c, players, k-1)
           b == Crowd(c, players, k)
           e == Player(c, players[k])
<1>1. \A j \in 1 .. Len(players) : Player(c, players[j]) \in Players
  <2> SUFFICES ASSUME NEW j \in 1 .. Len(players) PROVE Player(c, players[j]) \in Players
    OBVIOUS
  <2> DEFINE p == players[j]
             code == W!Quantum(p.x, c.quanta.max)
  <2>1. p \in Players
    OBVIOUS
  <2> HIDE DEF p
  <2>2. p.x \in Int /\ c.quanta.max \in Nat
    BY <2>1 DEF Players, Packetable
  <2>3. code \in 0 .. c.quanta.max
    BY <2>2, QuantumFits
  <2> HIDE DEF code
  <2>4. 2 * code \in Int
    BY <2>3
  <2>5. Player(c, p) \in Players
    BY <2>1, <2>4 DEF Player, Players, code
  <2> QED BY <2>5 DEF p
<1>2. k \in Nat /\ k - 1 \in Nat /\ k = (k-1) + 1 /\ k <= Len(players) /\ Len(players) \in Nat
  OBVIOUS
<1>3. a \in Seq(Players) /\ Len(a) = k - 1 /\ \A j \in 1 .. k-1 : a[j] = Player(c, players[j])
  <2>1. \A j \in 1 .. k-1 : Player(c, players[j]) \in Players
    BY <1>1, <1>2
  <2> QED BY <1>2, <2>1 DEF Crowd
<1>4. b \in Seq(Players) /\ Len(b) = k /\ \A j \in 1..k : b[j] = Player(c, players[j])
  <2>1. \A j \in 1..k : Player(c, players[j]) \in Players
    BY <1>1, <1>2
  <2> QED BY <1>2, <2>1 DEF Crowd
<1>5. e \in Players
  BY <1>1
<1> HIDE DEF a, b, e
<1>6. /\ Append(a, e) \in Seq(Players) /\ Len(Append(a, e)) = Len(a) + 1
      /\ \A j \in 1 .. Len(a) : Append(a, e)[j] = a[j]
      /\ Append(a, e)[Len(a) + 1] = e
  BY <1>3, <1>5, AppendProperties
<1>7. Len(Append(a, e)) = Len(b)
  BY <1>2, <1>3, <1>4, <1>6
<1>8. ASSUME NEW j \in 1 .. Len(b) PROVE Append(a, e)[j] = b[j]
  <2>1. j \in 1..k
    BY <1>4
  <2>2. CASE j = k
    BY <1>2, <1>3, <1>4, <1>6, <2>1, <2>2 DEF e
  <2>3. CASE j # k
    <3>1. j \in 1 .. k-1
      BY <1>2, <2>1, <2>3
    <3> QED BY <1>3, <1>4, <1>6, <2>1, <3>1
  <2> QED BY <2>2, <2>3
<1> QED BY <1>4, <1>6, <1>7, <1>8, SeqEqual DEF a, b, e

\* The loop of the writer extends what was before it, player by player,
LEMMA LoopExtends ==
  ASSUME NEW first, Writer(first), NEW c, Packetable(c), NEW players \in Seq(Players),
         NEW f, WritesPlayers(f, first, c, players, Len(players))
  PROVE  /\ \A k \in 0 .. Len(players) : Extends(first, f[k])
         /\ \A k \in 1 .. Len(players) : /\ Extends(f[k-1], f[k])
                                         /\ f[k] = WritePlayer(f[k-1], c, players[k])
<1> DEFINE m == Len(players)
           Bad == {k \in 0..m : ~Extends(first, f[k])}
<1>1. /\ m \in Nat /\ f[0] = first
      /\ \A k \in 1..m : k - 1 \in 0..m /\ k \in 0..m /\ f[k] = WritePlayer(f[k-1], c, players[k])
  BY DEF WritesPlayers
<1>2. ASSUME NEW k \in 1..m, Extends(first, f[k-1])
      PROVE  Extends(f[k-1], f[k]) /\ Extends(first, f[k])
  <2> DEFINE w == f[k-1]
             p == players[k]
  <2>1. Writer(w) /\ p \in Players /\ f[k] = WritePlayer(w, c, p)
    BY <1>1, <1>2 DEF Extends
  <2> HIDE DEF w, p
  <2>2. Extends(w, f[k])
    BY <2>1, PlayerExtends
  <2>3. Extends(first, w)
    BY <1>2 DEF w
  <2>4. Extends(first, f[k])
    BY <2>1, <2>2, <2>3, ExtendsTwice
  <2> QED BY <2>2, <2>4 DEF w
<1>3. Bad = {}
  <2> SUFFICES ASSUME Bad # {} PROVE FALSE
    OBVIOUS
  <2>1. PICK k \in Bad : \A y \in Bad : k <= y
    <3>1. Bad \subseteq Nat
      BY <1>1
    <3> HIDE DEF Bad
    <3> QED BY <3>1, LeastNat
  <2>2. k \in 0..m /\ ~Extends(first, f[k])
    OBVIOUS
  <2>3. k # 0
    BY <1>1, <2>2, ExtendsItself
  <2>4. k \in 1..m /\ k - 1 \in 0..m /\ ~(k <= k - 1)
    BY <1>1, <2>2, <2>3
  <2>5. k - 1 \notin Bad
    <3> HIDE DEF Bad
    <3> QED BY <2>1, <2>4
  <2>6. Extends(first, f[k-1])
    BY <2>4, <2>5
  <2> QED BY <1>2, <2>2, <2>4, <2>6
<1>4. \A k \in 0..m : Extends(first, f[k])
  BY <1>3
<1> HIDE DEF Bad
<1> QED BY <1>1, <1>2, <1>4

\* and that of the reader arrives at as many of the players.
LEMMA LoopArrives ==
  ASSUME NEW first, Writer(first), NEW c, Packetable(c), NEW players \in Seq(Players),
         c.max_id = 0 => \A i \in 1 .. Len(players) : players[i].id = 0,
         NEW f, WritesPlayers(f, first, c, players, Len(players)),
         NEW s, NEW g, ReadsPlayers(g, s, c, Len(players)),
         ~f[Len(players)].trapped, Over(first, f[Len(players)], s)
  PROVE  Arrives(s, g[Len(players)], f[Len(players)].at, Crowd(c, players, Len(players)))
<1> DEFINE m == Len(players)
           P(k) == ~f[k].trapped /\ Over(first, f[k], s)
                     => Arrives(s, g[k], f[k].at, Crowd(c, players, k))
           Bad == {k \in 0..m : ~P(k)}
<1>1. /\ m \in Nat /\ f[0] = first /\ g[0] = [s EXCEPT !.value = <<>>]
      /\ \A k \in 1..m : k - 1 \in 0..m /\ k \in 0..m /\ g[k] = NextPlayer(g[k-1], c)
  <2>1. m \in Nat /\ 0 \in 0..m /\ \A k \in 1..m : k - 1 \in 0..m /\ k \in 0..m /\ k # 0
    OBVIOUS
  <2>2. f[0] = first
    BY <2>1 DEF WritesPlayers
  <2>3. \A k \in 0..m : g[k] = IF k = 0 THEN [s EXCEPT !.value = <<>>] ELSE NextPlayer(g[k-1], c)
    BY DEF ReadsPlayers
  <2> HIDE DEF m
  <2> QED BY <2>1, <2>2, <2>3
<1>2. /\ \A k \in 0..m : Extends(first, f[k])
      /\ \A k \in 1..m : Extends(f[k-1], f[k]) /\ f[k] = WritePlayer(f[k-1], c, players[k])
  BY LoopExtends
<1>3. P(0)
  <2> SUFFICES ASSUME Over(first, f[0], s) PROVE Arrives(s, g[0], f[0].at, Crowd(c, players, 0))
    OBVIOUS
  <2>1. Crowd(c, players, 0) = <<>>
    BY DEF Crowd
  <2> QED BY <1>1, <2>1 DEF Over, Open, Arrives, Goes, Fields
<1>4. ASSUME NEW k \in 1..m, P(k-1) PROVE P(k)
  <2> SUFFICES ASSUME ~f[k].trapped, Over(first, f[k], s)
               PROVE  Arrives(s, g[k], f[k].at, Crowd(c, players, k))
    OBVIOUS
  <2> DEFINE w == f[k-1]
             q == f[k]
             t == g[k-1]
             r == g[k]
             pl == players[k]
             a == Crowd(c, players, k-1)
             b == Player(c, pl)
             x == Crowd(c, players, k)
             u == ReadPlayer(t, c)
  <2>1. /\ Extends(first, w) /\ Extends(w, q) /\ q = WritePlayer(w, c, pl)
        /\ pl \in Players /\ (c.max_id = 0 => pl.id = 0) /\ r = NextPlayer(t, c)
    BY <1>1, <1>2
  <2>2. Append(a, b) = x
    BY OneMore
  <2>3. Over(first, w, s) /\ ~w.trapped => Arrives(s, t, w.at, a)
    BY <1>4
  <2>4. ~q.trapped /\ Over(first, q, s)
    OBVIOUS
  <2> HIDE DEF w, q, t, r, pl, a, x, P, Bad, m
  <2>5. Writer(w)
    BY <2>1 DEF Extends
  <2>6. Over(w, q, t) => Arrives(t, u, q.at, b)
    BY <2>1, <2>4, <2>5, PlayerArrives
  <2> HIDE DEF u, b
  <2>7. Parts(first, w, q, s, t, a, u, b)
    BY <2>1, <2>3, <2>4, <2>6 DEF Parts
  <2>8. r = IF t.ret # Ok THEN t ELSE IF u.ret # Ok THEN u
            ELSE [u EXCEPT !.value = Append(t.value, u.value)]
    BY <2>1 DEF NextPlayer, u
  <2>9. Joins(t, a, u, b, r, x)
    BY <2>2, <2>8 DEF Joins
  <2>10. Arrives(s, r, q.at, x)
    BY <2>7, <2>9, InTurn
  <2> QED BY <2>10 DEF r, q, x
<1> HIDE DEF P
<1>5. Bad = {}
  <2> SUFFICES ASSUME Bad # {} PROVE FALSE
    OBVIOUS
  <2>1. PICK k \in Bad : \A y \in Bad : k <= y
    <3>1. Bad \subseteq Nat
      BY <1>1
    <3> HIDE DEF Bad
    <3> QED BY <3>1, LeastNat
  <2>2. k \in 0..m /\ ~P(k)
    OBVIOUS
  <2>3. k # 0
    BY <1>3, <2>2
  <2>4. k \in 1..m /\ k - 1 \in 0..m /\ ~(k <= k - 1)
    BY <1>1, <2>2, <2>3
  <2>5. k - 1 \notin Bad
    <3> HIDE DEF Bad
    <3> QED BY <2>1, <2>4
  <2>6. P(k-1)
    BY <2>4, <2>5
  <2> QED BY <1>4, <2>2, <2>4, <2>6
<1>6. m \in 0..m
  BY <1>1
<1>7. P(m)
  BY <1>5, <1>6
<1> QED BY <1>7 DEF P

\* A packet: written,
LEMMA PacketExtends ==
  ASSUME NEW w, Writer(w), NEW c, Packetable(c)
  PROVE  LET v == c.value
             m == Len(v.players)
             a == W!SerializeBits(w, v.sequence, c.bits)
             b == W!SerializeInt(a, m, 0, c.max_players)
             q == WritePacket(w, c)
         IN  \E f : /\ WritesPlayers(f, b, c, v.players, m) /\ q = W!SerializeString(f[m], v.name, c.size)
                    /\ Extends(w, a) /\ Extends(a, b) /\ Extends(b, f[m]) /\ Extends(f[m], q)
                    /\ Extends(b, q) /\ Extends(a, q) /\ Extends(w, q)
<1> DEFINE v == c.value
           m == Len(v.players)
           a == W!SerializeBits(w, v.sequence, c.bits)
           b == W!SerializeInt(a, m, 0, c.max_players)
           q == WritePacket(w, c)
           f == CHOOSE h : WritesPlayers(h, b, c, v.players, m)
           e == f[m]
<1>1. /\ v.sequence \in Nat /\ v.players \in Seq(Players) /\ v.name \in Seq(Unsigned8)
      /\ c.size \in Nat /\ m \in Nat /\ m \in Int /\ 0 \in Int /\ c.max_players \in Int
      /\ 0 < c.max_players => BitsRequired(c.max_players - 0) \in 1 .. 4*MaxBits
  <2>1. v.sequence \in Nat /\ v.players \in Seq(Players) /\ v.name \in Seq(Unsigned8)
    BY DEF Packetable, Players
  <2>2. c.size \in Nat /\ c.max_players \in Nat /\ BitsRequired(c.max_players) <= MaxBits
    BY DEF Packetable
  <2>3. 0 < c.max_players => BitsRequired(c.max_players - 0) \in 1 .. 4*MaxBits
    BY <2>2, FromNothing
  <2>4. m \in Nat
    BY <2>1
  <2> QED BY <2>1, <2>2, <2>3, <2>4
<1>2. WritesPlayers(f, b, c, v.players, m)
  BY <1>1, PlayersWritten
<1>3. q = W!SerializeString(e, v.name, c.size)
  BY DEF WritePacket, WritesPlayers
<1> HIDE DEF f
<1>4. Extends(w, a) /\ Writer(a)
  BY <1>1, BitsExtend DEF Extends
<1> HIDE DEF a
<1>5. Extends(a, b) /\ Writer(b)
  BY <1>1, <1>4, IntExtends DEF Extends
<1> HIDE DEF b, q, v
<1>6. Extends(b, e) /\ Writer(e)
  <2>1. m \in 0..m
    BY <1>1
  <2>2. Extends(b, e)
    BY <1>1, <1>2, <1>5, <2>1, LoopExtends
  <2> QED BY <2>2 DEF Extends
<1> HIDE DEF e
<1>7. Extends(e, q)
  BY <1>1, <1>3, <1>6, StringExtends
<1>8. Extends(b, q)
  BY <1>5, <1>6, <1>7, ExtendsTwice
<1>9. Extends(a, q)
  BY <1>4, <1>5, <1>8, ExtendsTwice
<1>10. Extends(w, q)
  BY <1>4, <1>9, ExtendsTwice
<1> QED BY <1>2, <1>3, <1>4, <1>5, <1>6, <1>7, <1>8, <1>9, <1>10 DEF e, q, b, a, v

\* The players of a packet are read by a loop that ends.
LEMMA LoopReads ==
  ASSUME NEW s, NEW c, NEW n \in Nat
  PROVE  \E g : ReadsPlayers(g, s, c, n) /\ ReadPlayers(s, c, n) = g[n]
<1> DEFINE g == CHOOSE h : ReadsPlayers(h, s, c, n)
<1>1. ReadsPlayers(g, s, c, n)
  BY PlayersRead
<1>2. ReadPlayers(s, c, n) = g[n]
  BY DEF ReadPlayers, Try, NextPlayer, ReadsPlayers
<1> QED BY <1>1, <1>2

\* and read.
LEMMA PacketArrives ==
  ASSUME NEW w, Writer(w), NEW c, Packetable(c), c.op = "packet",
         NEW q, q = WritePacket(w, c), ~q.trapped, NEW s, Over(w, q, s)
  PROVE  Arrives(s, ReadPacket(s, c), q.at, Meant(c))
<1> DEFINE v == c.value
           m == Len(v.players)
           crowd == Crowd(c, v.players, m)
           a == W!SerializeBits(w, v.sequence, c.bits)
           b == W!SerializeInt(a, m, 0, c.max_players)
           t1 == R!SerializeBits(s, c.bits)
           t2 == R!SerializeInt(t1, 0, c.max_players)
           t3 == ReadPlayers(t2, c, t2.value)
           t4 == R!SerializeString(t3, c.size)
           y == [t4 EXCEPT !.value = [sequence |-> t1.value, players |-> t3.value, name |-> t4.value]]
           r3 == IF t3.ret # Ok THEN t3 ELSE IF t4.ret # Ok THEN t4 ELSE y
           r2 == IF t2.ret # Ok THEN t2 ELSE r3
           r1 == ReadPacket(s, c)
           x == Meant(c)
<1>1. /\ v.sequence \in Nat /\ v.players \in Seq(Players) /\ v.name \in Seq(Unsigned8)
      /\ WellFormed(v.name) /\ c.size \in Nat /\ m \in Nat /\ m \in Int /\ 0 \in Int
      /\ c.max_players \in Int
      /\ 0 < c.max_players => BitsRequired(c.max_players - 0) \in 1 .. 4*MaxBits
      /\ 0 = c.max_players => m = 0
      /\ c.max_id = 0 => \A i \in 1..m : v.players[i].id = 0
  <2>1. v.sequence \in Nat /\ v.players \in Seq(Players) /\ v.name \in Seq(Unsigned8)
    BY DEF Packetable, Players
  <2>2. /\ WellFormed(v.name) /\ c.size \in Nat
        /\ c.max_players \in Nat /\ BitsRequired(c.max_players) <= MaxBits
        /\ c.max_players = 0 => v.players = <<>>
        /\ c.max_id = 0 => \A i \in DOMAIN v.players : v.players[i].id = 0
    BY DEF Packetable
  <2>3. 0 < c.max_players => BitsRequired(c.max_players - 0) \in 1 .. 4*MaxBits
    BY <2>2, FromNothing
  <2>4. m \in Nat /\ DOMAIN v.players = 1..m
    BY <2>1
  <2>5. 0 = c.max_players => m = 0
    BY <2>2
  <2> QED BY <2>1, <2>2, <2>3, <2>4, <2>5
<1>2. r1 = IF t1.ret # Ok THEN t1 ELSE r2
  BY DEF ReadPacket, Try
<1>3. x = [sequence |-> v.sequence, players |-> crowd, name |-> v.name]
  <2>1. DOMAIN v.players = 1..m
    BY <1>1
  <2>2. x = [v EXCEPT !.players = [k \in DOMAIN v.players |-> Player(c, v.players[k])]]
    BY DEF Meant, Player
  <2>3. v \in [sequence : Nat, players : Seq([id : Int, x : Int, alive : Nat]), name : Seq(Unsigned8)]
    BY DEF Packetable
  <2> HIDE DEF v, x, m
  <2> QED BY <2>1, <2>2, <2>3 DEF Crowd
<1>4. PICK f : /\ WritesPlayers(f, b, c, v.players, m) /\ q = W!SerializeString(f[m], v.name, c.size)
               /\ Extends(w, a) /\ Extends(a, b) /\ Extends(b, f[m]) /\ Extends(f[m], q)
               /\ Extends(b, q) /\ Extends(a, q)
  BY PacketExtends
<1> DEFINE e == f[m]
<1>5. Writer(a) /\ Writer(b) /\ Writer(e)
  BY <1>4 DEF Extends
<1>6. Over(w, a, s) /\ ~a.trapped => Arrives(s, t1, a.at, v.sequence)
  BY <1>1, BitsArrive
<1> HIDE DEF a, t1
<1>7. Over(a, b, t1) /\ ~b.trapped => Arrives(t1, t2, b.at, m)
  BY <1>1, <1>5, IntArrives
<1> HIDE DEF b, t2, v, m, x
<1>8. ASSUME t2.value = m, Over(b, e, t2), ~e.trapped PROVE Arrives(t2, t3, e.at, crowd)
  <2>1. PICK g : ReadsPlayers(g, t2, c, m) /\ ReadPlayers(t2, c, m) = g[m]
    <3>1. m \in Nat
      BY <1>1
    <3> QED BY <3>1, LoopReads, Zenon
  <2>2. Arrives(t2, g[m], e.at, crowd)
    BY <1>1, <1>4, <1>5, <1>8, <2>1, LoopArrives DEF m
  <2> QED BY <1>8, <2>1, <2>2
<1> HIDE DEF t3, e, crowd
<1>9. Over(e, q, t3) => Arrives(t3, t4, q.at, v.name)
  BY <1>1, <1>4, <1>5, StringArrives DEF e
<1> HIDE DEF t4
<1>10. /\ Extends(w, a) /\ Extends(a, b) /\ Extends(b, e) /\ Extends(e, q) /\ Extends(b, q)
       /\ Extends(a, q) /\ ~q.trapped
  BY <1>4 DEF e
<1>11. ASSUME Over(b, q, t2), t2.value = m, t1.value = v.sequence
       PROVE  Arrives(t2, r3, q.at, x)
  <2>1. Parts(b, e, q, t2, t3, crowd, t4, v.name)
    BY <1>5, <1>8, <1>9, <1>10, <1>11 DEF Parts
  <2>2. Joins(t3, crowd, t4, v.name, r3, x)
    BY <1>3, <1>11 DEF Joins
  <2> HIDE DEF r3
  <2> QED BY <2>1, <2>2, InTurn
<1> HIDE DEF r3
<1>12. ASSUME Over(a, q, t1), t1.value = v.sequence
       PROVE  Arrives(t1, r2, q.at, x)
  <2>1. Parts(a, b, q, t1, t2, m, r3, x)
    BY <1>5, <1>7, <1>10, <1>11, <1>12 DEF Parts
  <2>2. Joins(t2, m, r3, x, r2, x)
    BY DEF Joins
  <2> HIDE DEF r2
  <2> QED BY <2>1, <2>2, InTurn
<1> HIDE DEF r2
<1>13. Parts(w, a, q, s, t1, v.sequence, r2, x)
  BY <1>6, <1>10, <1>12 DEF Parts
<1>14. Joins(t1, v.sequence, r2, x, r1, x)
  BY <1>2 DEF Joins
<1> HIDE DEF r1
<1>15. Arrives(s, r1, q.at, x)
  BY <1>13, <1>14, InTurn
<1> QED BY <1>15 DEF r1, x

-----------------------------------------------------------------------------
(* One call *)

\* What the reader of a call is left with: the value in its destination, or a refusal.
Delivered(d, b, v) ==
  /\ b <= num_bits => d.at = b /\ d.failed = Ok /\ d.ret = Ok /\ d.dest = v
  /\ b > num_bits => d.ret # Ok /\ d.failed # Ok

\* What arrived is delivered.
LEMMA Delivers ==
  ASSUME NEW s, NEW t, NEW b, NEW v, Arrives(s, t, b, v), b \in Nat, num_bits \in Nat
  PROVE  Delivered(R!Deliver(t), b, v)
<1>1. CASE b > num_bits
  <2>1. R!Deliver(t) = t /\ ~(b <= num_bits)
    BY <1>1, PastEnd DEF R!Deliver, Arrives, Goes
  <2> QED BY <2>1, <1>1 DEF Delivered, Arrives, Goes
<1>2. CASE b <= num_bits
  <2>1. DOMAIN t = Fields /\ t.ret = Ok /\ t.at = b /\ t.failed = Ok /\ t.value = v /\ ~(b > num_bits)
    BY <1>2 DEF Arrives, Goes
  <2>2. R!Deliver(t) = [t EXCEPT !.dest = v]
    BY <2>1, PastEnd DEF R!Deliver
  <2> QED BY <2>1, <2>2 DEF Delivered, Fields
<1> QED BY <1>1, <1>2

\* There are thirteen calls.
LEMMA KnownCalls ==
  ASSUME NEW c \in Calls
  PROVE  c.op \in {"bits", "bits64", "u128", "int", "float", "double", "compressed", "fixed",
                   "relative", "string", "bytes", "align", "packet"}
BY MessageAssumption

\* The types of the arguments of integers,
LEMMA IntegerCalls ==
  ASSUME NEW c \in Calls
  PROVE  /\ c.op \in {"bits", "bits64", "u128"} => c.value \in Nat
         /\ c.op = "relative" => c.previous \in Int /\ c.value \in Int /\ c.value <= MaxInt
<1>1. W!MaxInt = MaxInt
  BY DEF W!MaxInt, MaxInt
<1>2. c.op = "relative" => c.previous \in Int /\ c.value \in Int /\ c.value <= MaxInt
  <2>1. c.op = "relative" => c.previous \in Int /\ c.value \in -(2^(MaxBits-1)) .. MaxInt
    BY <1>1, MessageAssumption DEF W!Typed
  <2>2. 2^(MaxBits-1) \in Nat
    <3>1. MaxBits - 1 \in Nat
      OBVIOUS
    <3> QED BY <3>1, PowerAbove
  <2>3. MaxInt \in Int
    BY <2>2 DEF MaxInt
  <2> QED BY <2>1, <2>2, <2>3
<1>3. c.op \in {"bits", "bits64", "u128"} => c.value \in Nat
  BY MessageAssumption DEF W!Typed
<1> QED BY <1>2, <1>3

\* of ranged ones,
LEMMA RangedCalls ==
  ASSUME NEW c \in Calls, c.op = "int"
  PROVE  /\ c.value \in Int /\ c.min \in Int /\ c.max \in Int
         /\ c.min < c.max => BitsRequired(c.max - c.min) \in 1 .. 4*MaxBits
         /\ c.min = c.max => c.value = c.min
BY MessageAssumption, SameFormat DEF W!Typed

\* of the other numbers,
LEMMA NumberCalls ==
  ASSUME NEW c \in Calls
  PROVE  /\ c.op \in {"float", "double"} => c.value \in Nat
         /\ c.op = "compressed" => c.halves \in Int /\ c.quanta.max \in Nat
         /\ c.op = "fixed" => c.value \in Int /\ Fixable(c.format)
<1>1. c.op \in {"float", "double"} => c.value \in Nat
  BY MessageAssumption DEF W!Typed
<1>2. c.op = "compressed" => c.halves \in Int /\ c.quanta.max \in Nat
  BY MessageAssumption DEF W!Typed
<1>3. c.op = "fixed" => c.value \in Int /\ Fixable(c.format)
  BY MessageAssumption, SameFormat DEF W!Typed, Fixable
<1> QED BY <1>1, <1>2, <1>3

\* and of text, bytes and packets.
LEMMA TextCalls ==
  ASSUME NEW c \in Calls
  PROVE  /\ c.op \in {"string", "bytes"} => c.value \in Seq(Unsigned8)
         /\ c.op = "string" => c.size \in Nat /\ WellFormed(c.value)
         /\ c.op = "packet" => Packetable(c)
<1>1. c.op \in {"string", "bytes"} => c.value \in Seq(Unsigned8)
  BY MessageAssumption DEF W!Typed, Unsigned8
<1>2. c.op = "string" => c.size \in Nat /\ WellFormed(c.value)
  BY MessageAssumption DEF W!Typed
<1>3. c.op = "packet" => Packetable(c)
  BY MessageAssumption DEF Packetable
<1> QED BY <1>1, <1>2, <1>3

\* What each call is on either side.
LEMMA Dispatch ==
  ASSUME NEW w, NEW c
  PROVE  /\ c.op = "packet" => Send(w, c) = WritePacket(w, c) /\ Read(c) = R!Deliver(ReadPacket(R!Stream, c))
         /\ c.op = "bits" => /\ Send(w, c) = W!SerializeBits(w, c.value, c.bits)
                           /\ Read(c) = R!Deliver(R!SerializeBits(R!Stream, c.bits))
                           /\ Meant(c) = c.value
         /\ c.op = "bits64" => /\ Send(w, c) = W!SerializeBits64(w, c.value, c.bits)
                             /\ Read(c) = R!Deliver(R!SerializeBits64(R!Stream, c.bits))
                             /\ Meant(c) = c.value
         /\ c.op = "u128" => /\ Send(w, c) = W!SerializeU128(w, c.value)
                           /\ Read(c) = R!Deliver(R!SerializeU128(R!Stream))
                           /\ Meant(c) = c.value
         /\ c.op = "int" => /\ Send(w, c) = W!SerializeInt(w, c.value, c.min, c.max)
                          /\ Read(c) = R!Deliver(R!SerializeInt(R!Stream, c.min, c.max))
                          /\ Meant(c) = c.value
         /\ c.op = "float" => /\ Send(w, c) = W!SerializeFloat(w, c.value, MaxBits, FractionBits)
                            /\ Read(c) = R!Deliver(R!SerializeFloat(R!Stream, MaxBits, FractionBits))
                            /\ Meant(c) = c.value
         /\ c.op = "double" => /\ Send(w, c) = W!SerializeFloat(w, c.value, 2*MaxBits, DoubleFractionBits)
                             /\ Read(c) = R!Deliver(R!SerializeFloat(R!Stream, 2*MaxBits, DoubleFractionBits))
                             /\ Meant(c) = c.value
         /\ c.op = "compressed" => /\ Send(w, c) = W!SerializeCompressedFloat(w, c.quanta, c.finite, c.halves)
                                 /\ Read(c) = R!Deliver(R!SerializeCompressedFloat(R!Stream, c.quanta))
                                 /\ Meant(c) = W!Quantum(c.halves, c.quanta.max)
         /\ c.op = "fixed" => /\ Send(w, c) = W!SerializeFixed(w, c.value, c.format)
                            /\ Read(c) = R!Deliver(R!SerializeFixed(R!Stream, c.format))
                            /\ Meant(c) = c.value
         /\ c.op = "relative" => /\ Send(w, c) = W!SerializeIntRelative(w, c.previous, c.value)
                               /\ Read(c) = R!Deliver(R!SerializeIntRelative(R!Stream, c.previous))
                               /\ Meant(c) = c.value
         /\ c.op = "string" => /\ Send(w, c) = W!SerializeString(w, c.value, c.size)
                             /\ Read(c) = R!Deliver(R!SerializeString(R!Stream, c.size))
                             /\ Meant(c) = c.value
         /\ c.op = "bytes" => /\ Send(w, c) = W!SerializeBytes(w, c.value)
                            /\ Read(c) = R!SerializeBytes(R!Stream, Len(c.value))
                            /\ Meant(c) = c.value
         /\ c.op = "align" => /\ Send(w, c) = W!SerializeAlign(w)
                            /\ Read(c) = R!SerializeAlign(R!Stream)
                            /\ Meant(c) = Old
<1>1. c.op = "bits" => /\ Send(w, c) = W!SerializeBits(w, c.value, c.bits)
                       /\ Read(c) = R!Deliver(R!SerializeBits(R!Stream, c.bits))
                       /\ Meant(c) = c.value
  BY DEF Send, W!Serialize, Read, ReadValue, Meant
<1>2. c.op = "bits64" => /\ Send(w, c) = W!SerializeBits64(w, c.value, c.bits)
                         /\ Read(c) = R!Deliver(R!SerializeBits64(R!Stream, c.bits))
                         /\ Meant(c) = c.value
  BY DEF Send, W!Serialize, Read, ReadValue, Meant
<1>3. c.op = "u128" => /\ Send(w, c) = W!SerializeU128(w, c.value)
                       /\ Read(c) = R!Deliver(R!SerializeU128(R!Stream))
                       /\ Meant(c) = c.value
  BY DEF Send, W!Serialize, Read, ReadValue, Meant
<1>4. c.op = "int" => /\ Send(w, c) = W!SerializeInt(w, c.value, c.min, c.max)
                      /\ Read(c) = R!Deliver(R!SerializeInt(R!Stream, c.min, c.max))
                      /\ Meant(c) = c.value
  BY DEF Send, W!Serialize, Read, ReadValue, Meant
<1>5. c.op = "float" => /\ Send(w, c) = W!SerializeFloat(w, c.value, MaxBits, FractionBits)
                        /\ Read(c) = R!Deliver(R!SerializeFloat(R!Stream, MaxBits, FractionBits))
                        /\ Meant(c) = c.value
  BY DEF Send, W!Serialize, Read, ReadValue, Meant
<1>6. c.op = "double" => /\ Send(w, c) = W!SerializeFloat(w, c.value, 2*MaxBits, DoubleFractionBits)
                         /\ Read(c) = R!Deliver(R!SerializeFloat(R!Stream, 2*MaxBits, DoubleFractionBits))
                         /\ Meant(c) = c.value
  BY DEF Send, W!Serialize, Read, ReadValue, Meant
<1>7. c.op = "compressed" => /\ Send(w, c) = W!SerializeCompressedFloat(w, c.quanta, c.finite, c.halves)
                             /\ Read(c) = R!Deliver(R!SerializeCompressedFloat(R!Stream, c.quanta))
                             /\ Meant(c) = W!Quantum(c.halves, c.quanta.max)
  BY DEF Send, W!Serialize, Read, ReadValue, Meant
<1>8. c.op = "fixed" => /\ Send(w, c) = W!SerializeFixed(w, c.value, c.format)
                        /\ Read(c) = R!Deliver(R!SerializeFixed(R!Stream, c.format))
                        /\ Meant(c) = c.value
  BY DEF Send, W!Serialize, Read, ReadValue, Meant
<1>9. c.op = "relative" => /\ Send(w, c) = W!SerializeIntRelative(w, c.previous, c.value)
                           /\ Read(c) = R!Deliver(R!SerializeIntRelative(R!Stream, c.previous))
                           /\ Meant(c) = c.value
  BY DEF Send, W!Serialize, Read, ReadValue, Meant
<1>10. c.op = "string" => /\ Send(w, c) = W!SerializeString(w, c.value, c.size)
                          /\ Read(c) = R!Deliver(R!SerializeString(R!Stream, c.size))
                          /\ Meant(c) = c.value
  BY DEF Send, W!Serialize, Read, ReadValue, Meant
<1>11. c.op = "bytes" => /\ Send(w, c) = W!SerializeBytes(w, c.value)
                         /\ Read(c) = R!SerializeBytes(R!Stream, Len(c.value))
                         /\ Meant(c) = c.value
  BY DEF Send, W!Serialize, Read, ReadValue, Meant
<1>12. c.op = "align" => /\ Send(w, c) = W!SerializeAlign(w)
                         /\ Read(c) = R!SerializeAlign(R!Stream)
                         /\ Meant(c) = Old
  BY DEF Send, W!Serialize, Read, ReadValue, Meant
<1>13. c.op = "packet" => Send(w, c) = WritePacket(w, c) /\ Read(c) = R!Deliver(ReadPacket(R!Stream, c))
  BY DEF Send, Read
<1> QED BY <1>1, <1>2, <1>3, <1>4, <1>5, <1>6, <1>7, <1>8, <1>9, <1>10, <1>11, <1>12, <1>13

\* Any call only extends what was written.
LEMMA SendExtends ==
  ASSUME NEW c \in Calls, NEW w, Writer(w)
  PROVE  Extends(w, Send(w, c))
<1>1. CASE c.op = "bits"
  BY <1>1, IntegerCalls, Dispatch, BitsExtend
<1>2. CASE c.op = "bits64"
  BY <1>2, IntegerCalls, Dispatch, Bits64Extends
<1>3. CASE c.op = "u128"
  BY <1>3, IntegerCalls, Dispatch, U128Extends
<1>4. CASE c.op = "int"
  BY <1>4, RangedCalls, Dispatch, IntExtends
<1>5. CASE c.op = "float"
  BY <1>5, NumberCalls, Dispatch, FloatExtends
<1>6. CASE c.op = "double"
  BY <1>6, NumberCalls, Dispatch, FloatExtends
<1>7. CASE c.op = "compressed"
  BY <1>7, NumberCalls, Dispatch, CompressedExtends
<1>8. CASE c.op = "fixed"
  BY <1>8, NumberCalls, Dispatch, FixedExtends
<1>9. CASE c.op = "relative"
  BY <1>9, IntegerCalls, Dispatch, RelativeExtends
<1>10. CASE c.op = "string"
  BY <1>10, TextCalls, Dispatch, StringExtends
<1>11. CASE c.op = "bytes"
  BY <1>11, TextCalls, Dispatch, BytesExtend
<1>12. CASE c.op = "align"
  BY <1>12, Dispatch, AlignExtends
<1>13. CASE c.op = "packet"
  BY <1>13, TextCalls, Dispatch, PacketExtends
<1> QED BY <1>1, <1>2, <1>3, <1>4, <1>5, <1>6, <1>7, <1>8, <1>9, <1>10, <1>11, <1>12, <1>13, KnownCalls

\* Its reader delivers what was meant, and stops where the writer did, or refuses.
LEMMA ReadDelivers ==
  ASSUME NEW c \in Calls, NEW w, Writer(w), NEW q, q = Send(w, c), ~q.trapped,
         Over(w, q, R!Stream)
  PROVE  Delivered(Read(c), q.at, Meant(c))
<1> DEFINE s == R!Stream
           v == Meant(c)
           d == Read(c)
<1>1. q.at \in Nat /\ num_bits \in Nat /\ s.dest = Old
  <2>1. Writer(q)
    BY SendExtends DEF Extends
  <2> QED BY <2>1 DEF Writer, Over, R!Stream
<1>2. d = Read(c) /\ v = Meant(c) /\ s = R!Stream
  OBVIOUS
<1> HIDE DEF s, v, d
<1>3. Over(w, q, s)
  BY DEF s
<1>4. ASSUME NEW t, Arrives(s, t, q.at, v), d = R!Deliver(t) PROVE Delivered(d, q.at, v)
  BY <1>1, <1>4, Delivers
<1>5. CASE c.op = "bits"
  <2>1. Arrives(s, R!SerializeBits(s, c.bits), q.at, v)
    BY <1>2, <1>3, <1>5, IntegerCalls, Dispatch, BitsArrive
  <2>2. d = R!Deliver(R!SerializeBits(s, c.bits))
    BY <1>2, <1>5, Dispatch
  <2> QED BY <1>2, <1>4, <2>1, <2>2
<1>6. CASE c.op = "bits64"
  <2>1. Arrives(s, R!SerializeBits64(s, c.bits), q.at, v)
    BY <1>2, <1>3, <1>6, IntegerCalls, Dispatch, Bits64Arrives
  <2>2. d = R!Deliver(R!SerializeBits64(s, c.bits))
    BY <1>2, <1>6, Dispatch
  <2> QED BY <1>2, <1>4, <2>1, <2>2
<1>7. CASE c.op = "u128"
  <2>1. Arrives(s, R!SerializeU128(s), q.at, v)
    BY <1>2, <1>3, <1>7, IntegerCalls, Dispatch, U128Arrives
  <2>2. d = R!Deliver(R!SerializeU128(s))
    BY <1>2, <1>7, Dispatch
  <2> QED BY <1>2, <1>4, <2>1, <2>2
<1>8. CASE c.op = "int"
  <2>1. Arrives(s, R!SerializeInt(s, c.min, c.max), q.at, v)
    BY <1>2, <1>3, <1>8, RangedCalls, Dispatch, IntArrives
  <2>2. d = R!Deliver(R!SerializeInt(s, c.min, c.max))
    BY <1>2, <1>8, Dispatch
  <2> QED BY <1>2, <1>4, <2>1, <2>2
<1>9. CASE c.op = "float"
  <2>1. Arrives(s, R!SerializeFloat(s, MaxBits, FractionBits), q.at, v)
    BY <1>2, <1>3, <1>9, NumberCalls, Dispatch, FloatArrives
  <2>2. d = R!Deliver(R!SerializeFloat(s, MaxBits, FractionBits))
    BY <1>2, <1>9, Dispatch
  <2> QED BY <1>2, <1>4, <2>1, <2>2
<1>10. CASE c.op = "double"
  <2>1. Arrives(s, R!SerializeFloat(s, 2*MaxBits, DoubleFractionBits), q.at, v)
    BY <1>2, <1>3, <1>10, NumberCalls, Dispatch, FloatArrives
  <2>2. d = R!Deliver(R!SerializeFloat(s, 2*MaxBits, DoubleFractionBits))
    BY <1>2, <1>10, Dispatch
  <2> QED BY <1>2, <1>4, <2>1, <2>2
<1>11. CASE c.op = "compressed"
  <2>1. Arrives(s, R!SerializeCompressedFloat(s, c.quanta), q.at, v)
    BY <1>2, <1>3, <1>11, NumberCalls, Dispatch, CompressedArrives
  <2>2. d = R!Deliver(R!SerializeCompressedFloat(s, c.quanta))
    BY <1>2, <1>11, Dispatch
  <2> QED BY <1>2, <1>4, <2>1, <2>2
<1>12. CASE c.op = "fixed"
  <2>1. Arrives(s, R!SerializeFixed(s, c.format), q.at, v)
    BY <1>2, <1>3, <1>12, NumberCalls, Dispatch, FixedArrives
  <2>2. d = R!Deliver(R!SerializeFixed(s, c.format))
    BY <1>2, <1>12, Dispatch
  <2> QED BY <1>2, <1>4, <2>1, <2>2
<1>13. CASE c.op = "relative"
  <2>1. Arrives(s, R!SerializeIntRelative(s, c.previous), q.at, v)
    BY <1>2, <1>3, <1>13, IntegerCalls, Dispatch, RelativeArrives
  <2>2. d = R!Deliver(R!SerializeIntRelative(s, c.previous))
    BY <1>2, <1>13, Dispatch
  <2> QED BY <1>2, <1>4, <2>1, <2>2
<1>14. CASE c.op = "string"
  <2>1. Arrives(s, R!SerializeString(s, c.size), q.at, v)
    BY <1>2, <1>3, <1>14, TextCalls, Dispatch, StringArrives
  <2>2. d = R!Deliver(R!SerializeString(s, c.size))
    BY <1>2, <1>14, Dispatch
  <2> QED BY <1>2, <1>4, <2>1, <2>2
<1>15. CASE c.op = "bytes"
  <2>1. q = W!SerializeBytes(w, c.value) /\ d = R!SerializeBytes(s, Len(c.value)) /\ v = c.value
    BY <1>2, <1>15, Dispatch
  <2>2. \E t : Arrives(s, t, q.at, v) /\ d = R!Deliver(t)
    BY <1>3, <1>15, <2>1, TextCalls, BytesArrive
  <2> QED BY <1>2, <1>4, <2>2
<1>16. CASE c.op = "align"
  <2>1. q = W!SerializeAlign(w) /\ d = R!SerializeAlign(s) /\ v = Old
    BY <1>2, <1>16, Dispatch
  <2>2. Goes(s, d, q.at)
    BY <1>3, <2>1, AlignArrives
  <2> QED BY <1>1, <1>2, <2>1, <2>2 DEF Goes, Delivered
<1>17. CASE c.op = "packet"
  <2>1. Arrives(s, ReadPacket(s, c), q.at, v)
    BY <1>2, <1>3, <1>17, TextCalls, Dispatch, PacketArrives
  <2>2. d = R!Deliver(ReadPacket(s, c))
    BY <1>2, <1>17, Dispatch
  <2> QED BY <1>2, <1>4, <2>1, <2>2
<1>18. c.op \in {"bits", "bits64", "u128", "int", "float", "double", "compressed", "fixed",
                 "relative", "string", "bytes", "align", "packet"}
  BY KnownCalls
<1> QED BY <1>5, <1>6, <1>7, <1>8, <1>9, <1>10, <1>11, <1>12, <1>13, <1>14, <1>15, <1>16, <1>17, <1>18

-----------------------------------------------------------------------------
(* The message *)

\* where the i-th call ended
Start(i) == IF i = 0 THEN 0 ELSE marks[i]

\* the write stream as it was after i calls
Prefix(i) == [measure |-> FALSE, at |-> Start(i), ones |-> {j \in ones : j < Start(i)},
              trapped |-> FALSE]

Values == {Meant(c) : c \in Calls}

\* What is known of the messages that are written,
Composed ==
  /\ sent \in Seq(Calls) /\ marks \in Seq(0..Capacity) /\ Len(marks) = Len(sent)
  /\ bits_written = Start(Len(sent)) /\ ones \in SUBSET Nat /\ \A j \in ones : j < bits_written
  /\ \A i \in 1 .. Len(sent) : /\ Start(i-1) <= Start(i) /\ Start(i) <= bits_written
                               /\ Send(Prefix(i-1), sent[i]) = Prefix(i)

\* of those that are on the way or have arrived,
Arrived ==
  /\ num_bits \in Nat
  /\ \A j \in 0 .. bits_written - 1 : j < num_bits => (j \in packet <=> j \in ones)
  /\ harm = "none" => packet = ones /\ num_bits = Bytes(bits_written) * ByteBits
  /\ harm = "cut" => num_bits < bits_written
  /\ harm = "extended" => num_bits = Bytes(bits_written) * ByteBits + ByteBits

\* and of the reader.
Consumed ==
  /\ received \in Seq(Values) /\ Len(received) <= Len(sent)
  /\ \A i \in 1 .. Len(received) : received[i] = Meant(sent[i])
  /\ phase = "read" => failed = Ok /\ bits_read = Start(Len(received)) /\ bits_read <= num_bits
  /\ phase = "done" => (failed = Ok <=> harm = "none")

Inv ==
  /\ phase \in {"write", "read", "done"} /\ harm \in {"none", "cut", "extended", "changed"}
  /\ Composed
  /\ phase = "write" => harm = "none" /\ received = <<>> /\ failed = Ok /\ bits_read = 0
  /\ phase # "write" /\ harm # "changed" => Arrived /\ Consumed

\* A prefix is a write stream.
LEMMA PrefixWrites ==
  ASSUME Composed, NEW k \in 0 .. Len(sent)
  PROVE  Start(k) \in Nat /\ Start(k) <= bits_written /\ Writer(Prefix(k))
<1>1. Start(k) \in 0..Capacity /\ Start(k) <= bits_written
  <2>1. CASE k = 0
    <3>1. Start(k) = 0 /\ Capacity \in Nat
      BY <2>1, MessageAssumption DEF Start
    <3>2. CASE Len(sent) = 0
      BY <3>1, <3>2 DEF Composed, Start
    <3>3. CASE Len(sent) # 0
      <4>1. Len(sent) \in 1 .. Len(marks)
        BY <3>3 DEF Composed
      <4>2. marks \in Seq(0..Capacity)
        BY DEF Composed
      <4>3. marks[Len(sent)] \in 0..Capacity
        BY <4>1, <4>2, ElementOfSeq
      <4> QED BY <3>1, <3>3, <4>3 DEF Composed, Start
    <3> QED BY <3>2, <3>3
  <2>2. CASE k # 0
    <3>1. k \in 1 .. Len(sent) /\ Start(k) = marks[k]
      BY <2>2 DEF Composed, Start
    <3>2. k \in 1 .. Len(marks) /\ marks \in Seq(0..Capacity) /\ Start(k) <= bits_written
      BY <3>1 DEF Composed
    <3> QED BY <3>1, <3>2, ElementOfSeq
  <2> QED BY <2>1, <2>2
<1>2. Start(k) \in Nat /\ Start(k) <= Capacity
  BY <1>1, MessageAssumption
<1> QED BY <1>1, <1>2 DEF Composed, Prefix, Writer

\* The bytes of so many bits: enough, and less than a byte more.
LEMMA ByteCount ==
  ASSUME NEW n \in Nat
  PROVE  /\ Bytes(n) \in Nat /\ Bytes(n) * ByteBits \in Nat
         /\ n <= Bytes(n) * ByteBits /\ Bytes(n) * ByteBits < n + ByteBits
         /\ \A b \in 0 .. Bytes(n) - 1 : b * ByteBits \in Nat /\ b * ByteBits < n
<1> DEFINE m == n + ByteBits - 1
           q == m \div ByteBits
           r == m % ByteBits
<1>1. m \in Nat /\ Bytes(n) = q
  BY DEF Bytes
<1> HIDE DEF m
<1>2. q \in Nat /\ r \in 0 .. ByteBits - 1 /\ m = q * ByteBits + r
  BY <1>1, DivMod
<1> HIDE DEF q, r
<1> DEFINE x == q * ByteBits
<1>3. x \in Nat
  BY <1>2
<1>4. ASSUME NEW b \in 0 .. q-1 PROVE b * ByteBits \in Nat /\ b * ByteBits < n
  <2> DEFINE y == b * ByteBits
  <2>1. b \in Nat /\ b < q /\ y \in Nat
    BY <1>2
  <2>2. y + ByteBits <= x
    BY <1>2, <2>1, MultiplesOrdered
  <2>3. m = x + r
    BY <1>2
  <2> HIDE DEF x, y
  <2>4. y < n
    BY <1>2, <1>3, <2>1, <2>2, <2>3 DEF m
  <2> QED BY <2>1, <2>4 DEF y
<1>5. m = x + r
  BY <1>2
<1> HIDE DEF x
<1>6. n <= x /\ x < n + ByteBits
  BY <1>2, <1>3, <1>5 DEF m
<1> QED BY <1>1, <1>2, <1>3, <1>4, <1>6 DEF x

\* One call more is one prefix more, and the others stay.
LEMMA WriteComposes ==
  ASSUME Composed, NEW c \in Calls, Wrote(c, Send(W!Writing, c))
  PROVE  Composed'
<1>0. PICK n : n = Len(sent)
  OBVIOUS
<1> DEFINE w == Prefix(n)
           q == Send(w, c)
<1>1. n \in Nat /\ Len(marks) = n /\ n \in 0 .. Len(sent) /\ Len(sent) = n
  BY <1>0 DEF Composed
<1>2. Start(n) = bits_written /\ Start(n) \in Nat /\ Writer(w)
  <2>1. Start(n) = bits_written
    BY <1>1 DEF Composed
  <2> QED BY <1>1, <2>1, PrefixWrites
<1>3. W!Writing = w
  BY <1>2 DEF W!Writing, Prefix, Composed
<1>4. /\ ~q.trapped /\ ones' = q.ones /\ bits_written' = q.at
      /\ sent' = Append(sent, c) /\ marks' = Append(marks, q.at)
  BY <1>3 DEF Wrote
<1>5. Extends(w, q) /\ Writer(q) /\ bits_written <= q.at /\ q.at \in 0..Capacity
      /\ \A j \in 0 .. bits_written - 1 : j \in q.ones <=> j \in ones
  <2>1. Extends(w, q)
    BY <1>2, SendExtends
  <2>2. w.at = bits_written /\ w.ones = {j \in ones : j < bits_written}
    BY <1>2 DEF Prefix
  <2> HIDE DEF w, q
  <2>3. Writer(q) /\ bits_written <= q.at
        /\ \A j \in 0 .. bits_written - 1 : j \in q.ones <=> j \in w.ones
    BY <1>4, <2>1, <2>2 DEF Extends
  <2>4. q.at \in 0..Capacity
    BY <2>3 DEF Writer
  <2> QED BY <1>2, <2>1, <2>2, <2>3, <2>4
<1>6. /\ sent' \in Seq(Calls) /\ marks' \in Seq(0..Capacity)
      /\ Len(sent') = n + 1 /\ Len(marks') = n + 1
      /\ sent'[n+1] = c /\ marks'[n+1] = q.at
      /\ \A i \in 1..n : sent'[i] = sent[i] /\ marks'[i] = marks[i]
  <2> HIDE DEF q
  <2> QED BY <1>1, <1>4, <1>5, AppendProperties DEF Composed
<1>7. /\ \A i \in 0..n : Start(i)' = Start(i)
      /\ Start(n+1)' = q.at
  <2> HIDE DEF q
  <2> QED BY <1>1, <1>6 DEF Start
<1>8. Prefix(n+1)' = q
  <2>1. Prefix(n+1)' = [measure |-> FALSE, at |-> q.at, ones |-> {j \in q.ones : j < q.at},
                        trapped |-> FALSE]
    BY <1>4, <1>7 DEF Prefix
  <2> HIDE DEF q
  <2>2. q \in [measure : {FALSE}, at : Nat, ones : SUBSET Nat, trapped : BOOLEAN]
        /\ \A j \in q.ones : j < q.at
    BY <1>5 DEF Writer
  <2>3. {j \in q.ones : j < q.at} = q.ones
    BY <2>2
  <2> QED BY <1>4, <2>1, <2>2, <2>3
<1>9. ASSUME NEW i \in 0..n PROVE Prefix(i)' = Prefix(i)
  <2>1. Start(i) \in Nat /\ Start(i) <= bits_written /\ Start(i)' = Start(i)
    BY <1>1, <1>7, PrefixWrites
  <2>2. ones \in SUBSET Nat /\ ones' \in SUBSET Nat
    BY <1>4, <1>5 DEF Composed, Writer
  <2>3. \A j \in Nat : j < Start(i) => j \in 0 .. bits_written - 1
    BY <1>2, <2>1
  <2>4. {j \in ones' : j < Start(i)} = {j \in ones : j < Start(i)}
    <3> HIDE DEF q
    <3> QED BY <1>4, <1>5, <2>2, <2>3
  <2> QED BY <2>1, <2>4 DEF Prefix
<1>10. ASSUME NEW i \in 1 .. Len(sent')
       PROVE  /\ Start(i-1)' <= Start(i)' /\ Start(i)' <= bits_written'
              /\ (Send(Prefix(i-1), sent[i]) = Prefix(i))'
  <2>1. i \in 1 .. n+1
    BY <1>6
  <2>2. CASE i = n + 1
    <3>1. i - 1 = n
      BY <1>1, <2>2
    <3>2. /\ Start(i-1)' = bits_written /\ Start(i)' = q.at /\ q.at \in Nat
          /\ Prefix(i-1)' = w /\ Prefix(i)' = q /\ sent'[i] = c
      <4>1. q.at \in Nat
        BY <1>5 DEF Writer
      <4> HIDE DEF q, w
      <4> QED BY <1>1, <1>2, <1>6, <1>7, <1>8, <1>9, <2>2, <3>1, <4>1 DEF w
    <3>3. Send(Prefix(i-1), sent[i])' = q
      <4>1. Send(Prefix(i-1), sent[i])' = Send(Prefix(i-1)', sent'[i])
        BY DEF Send, W!Serialize
      <4> QED BY <3>2, <4>1
    <3> HIDE DEF q, w
    <3> QED BY <1>4, <1>5, <3>2, <3>3
  <2>3. CASE i # n + 1
    <3>1. i \in 1..n /\ i \in 0..n /\ i - 1 \in 0..n
      BY <1>1, <2>1, <2>3
    <3>2. /\ Start(i-1)' = Start(i-1) /\ Start(i)' = Start(i) /\ sent'[i] = sent[i]
          /\ Prefix(i-1)' = Prefix(i-1) /\ Prefix(i)' = Prefix(i)
      BY <1>6, <1>7, <1>9, <3>1
    <3>3. Start(i-1) <= Start(i) /\ Start(i) <= bits_written
          /\ Send(Prefix(i-1), sent[i]) = Prefix(i) /\ Start(i) \in Nat
      BY <1>1, <3>1, PrefixWrites DEF Composed
    <3>4. Start(i) <= q.at
      <4> HIDE DEF q
      <4> QED BY <1>2, <1>5, <3>3
    <3>5. Send(Prefix(i-1), sent[i])' = Send(Prefix(i-1)', sent'[i])
      BY DEF Send, W!Serialize
    <3> QED BY <1>4, <3>2, <3>3, <3>4, <3>5
  <2> QED BY <2>2, <2>3
<1>11. /\ ones' \in SUBSET Nat /\ \A j \in ones' : j < bits_written'
  BY <1>4, <1>5 DEF Writer
<1>12. Len(marks') = Len(sent') /\ bits_written' = Start(Len(sent))'
  <2>1. Start(Len(sent))' = q.at
    <3> HIDE DEF q
    <3> QED BY <1>1, <1>6, <1>7 DEF Start
  <2> QED BY <1>4, <1>6, <2>1
<1> HIDE DEF w, q
<1> QED BY <1>6, <1>10, <1>11, <1>12 DEF Composed

\* What was written stays while it travels and is read.
LEMMA StaysComposed ==
  ASSUME Composed, UNCHANGED writing
  PROVE  Composed' /\ \A i : Start(i)' = Start(i)
<1>1. \A i : Start(i)' = Start(i) /\ Prefix(i)' = Prefix(i)
  BY DEF writing, Start, Prefix
<1>2. ASSUME NEW i PROVE Send(Prefix(i-1), sent[i])' = Send(Prefix(i-1), sent[i])
  <2>1. Send(Prefix(i-1), sent[i])' = Send(Prefix(i-1)', sent[i]')
    BY DEF Send, W!Serialize
  <2>2. sent[i]' = sent[i]
    BY DEF writing
  <2> QED BY <1>1, <2>1, <2>2
<1> QED BY <1>1, <1>2 DEF Composed, writing

\* A packet arrives whole, short of the last bit, or with a byte too many.
LEMMA PacketIsThere ==
  ASSUME Inv, Whole \/ Cut \/ Extended
  PROVE  Arrived' /\ Consumed'
<1> DEFINE B == Bytes(bits_written)
<1>1. /\ phase = "write" /\ phase' = "read" /\ UNCHANGED writing /\ UNCHANGED reading
      /\ Composed /\ received = <<>> /\ failed = Ok /\ bits_read = 0
  BY DEF Inv, Whole, Cut, Extended, Arrive
<1>2. bits_written \in Nat /\ Bytes(bits_written)' = B
  <2>1. Len(sent) \in 0 .. Len(sent) /\ Start(Len(sent)) = bits_written
    BY <1>1 DEF Composed
  <2> QED BY <1>1, <2>1, PrefixWrites DEF writing, Bytes
<1>3. /\ B \in Nat /\ B * ByteBits \in Nat /\ bits_written <= B * ByteBits
      /\ \A b \in 0 .. B-1 : b * ByteBits \in Nat /\ b * ByteBits < bits_written
      /\ (B + 1) * ByteBits = B * ByteBits + ByteBits
  <2>1. /\ B \in Nat /\ B * ByteBits \in Nat /\ bits_written <= B * ByteBits
        /\ \A b \in 0 .. B-1 : b * ByteBits \in Nat /\ b * ByteBits < bits_written
    BY <1>2, ByteCount
  <2> HIDE DEF B
  <2>2. (B + 1) * ByteBits = B * ByteBits + ByteBits
    BY <2>1
  <2> QED BY <2>1, <2>2
<1>4. Consumed'
  <2>1. received' = <<>> /\ sent' = sent /\ failed' = Ok /\ bits_read' = 0 /\ Start(0)' = 0
    BY <1>1 DEF reading, writing, Start
  <2>2. num_bits' \in Nat
    BY <1>3 DEF Whole, Cut, Extended, Arrive
  <2>3. Len(sent) \in Nat
    BY <1>1 DEF Composed
  <2> QED BY <1>1, <2>1, <2>2, <2>3 DEF Consumed
<1>5. CASE Whole
  <2>1. harm' = "none" /\ packet' = ones /\ num_bits' = B * ByteBits
    BY <1>5 DEF Whole, Arrive
  <2> HIDE DEF B
  <2> QED BY <1>1, <1>2, <1>3, <1>4, <2>1 DEF Arrived, writing
<1>6. CASE Cut
  <2>1. PICK b \in 0 .. B-1 : /\ harm' = "cut" /\ num_bits' = b * ByteBits
                             /\ packet' = {i \in ones : i < b * ByteBits}
    BY <1>6 DEF Cut, Arrive
  <2> HIDE DEF B
  <2>2. \A j \in 0 .. bits_written - 1 : j < num_bits' => (j \in packet' <=> j \in ones)
    BY <2>1
  <2> QED BY <1>1, <1>2, <1>3, <1>4, <2>1, <2>2 DEF Arrived, writing
<1>7. CASE Extended
  <2>1. PICK more \in SUBSET (0 .. ByteBits - 1) :
          /\ harm' = "extended" /\ num_bits' = (B + 1) * ByteBits
          /\ packet' = ones \cup {B * ByteBits + i : i \in more}
    BY <1>7 DEF Extended, Arrive
  <2> DEFINE z == B * ByteBits
  <2>2. z \in Nat /\ bits_written <= z /\ num_bits' = z + ByteBits
    BY <1>3, <2>1
  <2>3. packet' = ones \cup {z + i : i \in more}
    BY <2>1
  <2> HIDE DEF z
  <2>4. \A j \in 0 .. bits_written - 1 : j \in packet' <=> j \in ones
    BY <1>2, <2>2, <2>3
  <2>5. Bytes(bits_written)' * ByteBits = z
    BY <1>2 DEF z
  <2>6. (Bytes(bits_written) * ByteBits)' = z
    BY <2>5
  <2>7. num_bits' \in Nat
    BY <2>2
  <2> QED BY <1>1, <1>4, <2>1, <2>2, <2>4, <2>6, <2>7 DEF Arrived, writing
<1> QED BY <1>5, <1>6, <1>7

\* The next call is read over what it wrote.
LEMMA NextIsMeant ==
  ASSUME Inv, phase = "read", harm # "changed", Len(received) < Len(sent)
  PROVE  LET k == Len(received) + 1 IN
         /\ k \in 1 .. Len(sent) /\ sent[k] \in Calls /\ Start(k) \in Nat /\ Start(k) <= bits_written
         /\ num_bits \in Nat /\ Delivered(Read(sent[k]), Start(k), Meant(sent[k]))
<1> DEFINE k == Len(received) + 1
           c == sent[k]
           w == Prefix(k-1)
           q == Prefix(k)
<1>1. /\ Composed /\ Arrived /\ Consumed
  BY DEF Inv
<1>2. /\ k \in 1 .. Len(sent) /\ k \in 0 .. Len(sent) /\ k - 1 \in 0 .. Len(sent)
      /\ k - 1 = Len(received) /\ c \in Calls
  <2>1. Len(received) \in Nat /\ Len(sent) \in Nat /\ sent \in Seq(Calls)
    BY <1>1 DEF Composed, Consumed
  <2> QED BY <2>1
<1>3. /\ Start(k-1) \in Nat /\ Writer(w) /\ Start(k) \in Nat /\ Start(k) <= bits_written
      /\ bits_written \in Nat
  <2>1. Len(sent) \in 0 .. Len(sent) /\ bits_written = Start(Len(sent))
    BY <1>1, <1>2 DEF Composed
  <2>2. bits_written \in Nat
    BY <1>1, <2>1, PrefixWrites
  <2> QED BY <1>1, <1>2, <2>2, PrefixWrites
<1>4. q = Send(w, c) /\ ~q.trapped /\ q.at = Start(k) /\ w.at = Start(k-1)
      /\ q.ones = {j \in ones : j < Start(k)}
  BY <1>1, <1>2 DEF Composed, Prefix
<1>5. failed = Ok /\ bits_read = Start(k-1) /\ bits_read <= num_bits /\ num_bits \in Nat
  BY <1>1, <1>2 DEF Consumed, Arrived
<1>6. Open(R!Stream) /\ R!Stream.at = w.at
  BY <1>3, <1>4, <1>5, PastEnd DEF R!Stream, Open, Fields
<1>7. Agrees(q.ones, w.at, q.at)
  <2>1. \A j \in Start(k-1) .. Start(k) - 1 : j \in 0 .. bits_written - 1 /\ j < Start(k)
    BY <1>3
  <2>2. \A j \in 0 .. bits_written - 1 : j < num_bits => (j \in packet <=> j \in ones)
    BY <1>1 DEF Arrived
  <2> HIDE DEF w, q, k
  <2> QED BY <1>4, <2>1, <2>2 DEF Agrees
<1>8. Over(w, q, R!Stream)
  BY <1>5, <1>6, <1>7 DEF Over
<1> HIDE DEF w, q, c
<1>9. Delivered(Read(c), q.at, Meant(c))
  BY <1>2, <1>3, <1>4, <1>8, ReadDelivers
<1> QED BY <1>2, <1>3, <1>4, <1>5, <1>9 DEF c

\* A call is delivered as it was meant, or it is the one that refuses.
LEMMA NextIsConsumed ==
  ASSUME Inv, ReadNext, harm # "changed"
  PROVE  Arrived' /\ Consumed'
<1>0. PICK k, c : k = Len(received) + 1 /\ c = sent[k]
  OBVIOUS
<1> DEFINE d == Read(c)
<1>1. /\ phase = "read" /\ Len(received) < Len(sent) /\ Receives(d) /\ UNCHANGED <<writing, arrival>>
  BY <1>0 DEF ReadNext, Receives, Reads
<1>2. /\ k \in 1 .. Len(sent) /\ c \in Calls /\ Start(k) \in Nat /\ Start(k) <= bits_written
      /\ num_bits \in Nat /\ Delivered(d, Start(k), Meant(c))
  BY <1>0, <1>1, NextIsMeant
<1>3. Composed /\ Arrived /\ Consumed
  BY <1>1 DEF Inv
<1>4. Arrived' /\ sent' = sent /\ num_bits' = num_bits /\ harm' = harm
  <2>1. Bytes(bits_written)' = Bytes(bits_written)
    BY <1>1 DEF writing, Bytes
  <2>2. /\ num_bits' = num_bits /\ harm' = harm /\ packet' = packet /\ ones' = ones
        /\ sent' = sent /\ bits_written' = bits_written
    BY <1>1 DEF writing, arrival
  <2> QED BY <1>3, <2>1, <2>2 DEF Arrived
<1>5. \A i : Start(i)' = Start(i)
  BY <1>1, <1>3, StaysComposed
<1>6. bits_read' = d.at /\ failed' = d.failed
  BY <1>1 DEF Receives, Reads
<1>7. CASE Start(k) <= num_bits
  <2>1. d.at = Start(k) /\ d.failed = Ok /\ d.ret = Ok /\ d.dest = Meant(c)
    BY <1>2, <1>7 DEF Delivered
  <2>2. received' = Append(received, Meant(c)) /\ phase' = "read"
    BY <1>1, <2>1 DEF Receives
  <2>3. received \in Seq(Values) /\ Meant(c) \in Values
    BY <1>2, <1>3 DEF Consumed, Values
  <2> HIDE DEF d
  <2>4. /\ received' \in Seq(Values) /\ Len(received') = k /\ received'[k] = Meant(c)
        /\ \A i \in 1 .. Len(received) : received'[i] = received[i]
    BY <1>0, <2>2, <2>3, AppendProperties
  <2>5. \A i \in 1 .. Len(received') : received'[i] = Meant(sent'[i])
    <3> SUFFICES ASSUME NEW i \in 1 .. Len(received') PROVE received'[i] = Meant(sent'[i])
      OBVIOUS
    <3>1. Len(received) \in Nat /\ i \in 1..k
      BY <2>3, <2>4
    <3>2. CASE i = k
      BY <1>0, <1>4, <2>4, <3>2
    <3>3. CASE i # k
      <4>1. i \in 1 .. Len(received)
        BY <1>0, <3>1, <3>3
      <4> QED BY <1>3, <1>4, <2>4, <4>1 DEF Consumed
    <3> QED BY <3>2, <3>3
  <2>6. (\A i \in 1 .. Len(received) : received[i] = Meant(sent[i]))'
    <3>1. \A i : Meant(sent[i])' = Meant(sent'[i])
      BY DEF Meant
    <3> QED BY <2>5, <3>1
  <2>7. Len(received') <= Len(sent')
    BY <1>2, <1>4, <2>4
  <2>8. /\ bits_read' = Start(Len(received))' /\ bits_read' <= num_bits' /\ failed' = Ok
    <3>1. Start(Len(received))' = Start(k)'
      BY <2>4 DEF Start
    <3> QED BY <1>4, <1>5, <1>6, <1>7, <2>1, <3>1
  <2> QED BY <1>4, <2>2, <2>4, <2>6, <2>7, <2>8 DEF Consumed
<1>8. CASE Start(k) > num_bits
  <2>1. d.ret # Ok /\ d.failed # Ok
    BY <1>2, <1>8 DEF Delivered
  <2>2. received' = received /\ phase' = "done"
    BY <1>1, <2>1 DEF Receives
  <2>3. harm # "none"
    <3> SUFFICES ASSUME harm = "none" PROVE FALSE
      OBVIOUS
    <3>1. bits_written \in Nat
      <4>1. Len(sent) \in 0 .. Len(sent) /\ bits_written = Start(Len(sent))
        BY <1>2, <1>3 DEF Composed
      <4> QED BY <1>3, <4>1, PrefixWrites
    <3>2. num_bits = Bytes(bits_written) * ByteBits
      BY <1>3 DEF Arrived
    <3>3. bits_written <= num_bits
      BY <3>1, <3>2, ByteCount
    <3> HIDE DEF d
    <3> QED BY <1>2, <1>8, <3>1, <3>3
  <2>4. (\A i \in 1 .. Len(received) : received[i] = Meant(sent[i]))'
    <3>1. \A i : Meant(sent[i])' = Meant(sent'[i])
      BY DEF Meant
    <3> QED BY <1>3, <1>4, <2>2, <3>1 DEF Consumed
  <2> HIDE DEF d
  <2> QED BY <1>3, <1>4, <1>6, <2>1, <2>2, <2>3, <2>4 DEF Consumed
<1> QED BY <1>2, <1>7, <1>8

\* The end accepts the padding of the last byte, and nothing else.
LEMMA EndIsExact ==
  ASSUME Inv, ReadEnd, harm # "changed"
  PROVE  Arrived' /\ Consumed'
<1> DEFINE s == R!Stream
           d == R!SerializeEnd(s)
           n == R!Remaining(s)
<1>1. /\ phase = "read" /\ phase' = "done" /\ Len(received) = Len(sent)
      /\ received' = received /\ failed' = d.failed /\ UNCHANGED <<writing, arrival>>
  BY DEF ReadEnd, Reads
<1>2. Composed /\ Arrived /\ Consumed
  BY <1>1 DEF Inv
<1>3. Arrived' /\ sent' = sent /\ harm' = harm
  <2>1. Bytes(bits_written)' = Bytes(bits_written)
    BY <1>1 DEF writing, Bytes
  <2>2. /\ num_bits' = num_bits /\ harm' = harm /\ packet' = packet /\ ones' = ones
        /\ sent' = sent /\ bits_written' = bits_written
    BY <1>1 DEF writing, arrival
  <2> QED BY <1>2, <2>1, <2>2 DEF Arrived
<1>4. /\ bits_read = bits_written /\ bits_written \in Nat /\ failed = Ok /\ bits_read <= num_bits
      /\ num_bits \in Nat
  <2>1. Len(sent) \in 0 .. Len(sent) /\ bits_written = Start(Len(sent))
    BY <1>2 DEF Composed
  <2> QED BY <1>1, <1>2, <2>1, PrefixWrites DEF Consumed, Arrived
<1>5. /\ n = num_bits - bits_written /\ s.failed = Ok /\ s.at = bits_written /\ s.ret = Ok
      /\ DOMAIN s = Fields
  BY <1>4, PastEnd DEF R!Remaining, R!Stream, Fields
<1>6. harm # "cut"
  BY <1>2, <1>4 DEF Arrived
<1>7. d = IF n >= ByteBits THEN R!Latch(s, "trailing_data")
          ELSE IF n % ByteBits = 0 THEN s ELSE R!SkipZeros(s, n % ByteBits)
  BY <1>5, PastEnd DEF R!SerializeEnd
<1>8. CASE harm = "extended"
  <2>1. num_bits = Bytes(bits_written) * ByteBits + ByteBits
    BY <1>2, <1>8 DEF Arrived
  <2>2. Bytes(bits_written) * ByteBits \in Nat /\ bits_written <= Bytes(bits_written) * ByteBits
    BY <1>4, ByteCount
  <2>3. n >= ByteBits
    <3> DEFINE z == Bytes(bits_written) * ByteBits
    <3>1. z \in Nat /\ bits_written <= z /\ num_bits = z + ByteBits
      BY <2>1, <2>2
    <3> HIDE DEF z, n
    <3> QED BY <1>4, <1>5, <3>1
  <2>4. d.failed = "trailing_data"
    <3> HIDE DEF s, n
    <3> QED BY <1>5, <1>7, <2>3, PastEnd DEF R!Latch, Fields
  <2>5. "trailing_data" # Ok
    BY DEF Ok
  <2>6. failed' # Ok /\ harm' # "none"
    BY <1>1, <1>3, <1>8, <2>4, <2>5
  <2>7. (\A i \in 1 .. Len(received) : received[i] = Meant(sent[i]))'
    <3>1. \A i : Meant(sent[i])' = Meant(sent'[i])
      BY DEF Meant
    <3> QED BY <1>1, <1>2, <1>3, <3>1 DEF Consumed
  <2> HIDE DEF s, d, n
  <2> QED BY <1>1, <1>2, <1>3, <2>6, <2>7 DEF Consumed
<1>9. CASE harm = "none"
  <2>1. packet = ones /\ num_bits = Bytes(bits_written) * ByteBits
    BY <1>2, <1>9 DEF Arrived
  <2>2. num_bits < bits_written + ByteBits
    BY <1>4, <2>1, ByteCount
  <2>3. ~(n >= ByteBits) /\ n \in Nat
    <3> HIDE DEF n
    <3> QED BY <1>4, <1>5, <2>2
  <2>4. \A j \in packet : ~(j >= bits_written)
    <3>1. \A j \in packet : j \in Nat /\ j < bits_written
      BY <1>2, <2>1 DEF Composed
    <3> QED BY <1>4, <3>1
  <2>5. ASSUME n % ByteBits # 0 PROVE R!SkipZeros(s, n % ByteBits).failed = Ok
    <3> DEFINE m == n % ByteBits
               z == packet \cap s.at .. s.at + m - 1
    <3>1. z = {}
      <4> HIDE DEF s, n, m
      <4>1. \A j \in s.at .. s.at + m - 1 : j >= bits_written
        BY <1>4, <1>5
      <4> QED BY <2>4, <4>1 DEF z
    <3>2. R!SkipZeros(s, m) = [R!ReadBits(s, m) EXCEPT !.dirty = s.dirty \/ z # {}]
      BY <3>1 DEF R!SkipZeros
    <3> HIDE DEF s, n, m, z
    <3>3. R!SkipZeros(s, m).failed = s.failed
      BY <1>5, <3>2 DEF R!ReadBits, Fields
    <3> QED BY <1>5, <3>3 DEF m
  <2>6. d.failed = Ok
    <3> HIDE DEF s, n
    <3> QED BY <1>5, <1>7, <2>3, <2>5
  <2>7. failed' = Ok /\ harm' = "none"
    BY <1>1, <1>3, <1>9, <2>6
  <2>8. (\A i \in 1 .. Len(received) : received[i] = Meant(sent[i]))'
    <3>1. \A i : Meant(sent[i])' = Meant(sent'[i])
      BY DEF Meant
    <3> QED BY <1>1, <1>2, <1>3, <3>1 DEF Consumed
  <2> HIDE DEF s, d, n
  <2> QED BY <1>1, <1>2, <1>3, <2>7, <2>8 DEF Consumed
<1> QED BY <1>6, <1>8, <1>9 DEF Inv

\* The invariant holds of the empty message, and every step keeps it.
LEMMA Inductive ==
  /\ Init => Inv
  /\ Inv /\ [Next]_vars => Inv'
<1>1. ASSUME Init PROVE Inv
  <2>1. /\ phase = "write" /\ ones = {} /\ bits_written = 0 /\ sent = <<>> /\ marks = <<>>
        /\ harm = "none" /\ bits_read = 0 /\ failed = Ok /\ received = <<>>
    BY <1>1 DEF Init
  <2>2. Composed
    BY <2>1 DEF Composed, Start
  <2> QED BY <2>1, <2>2 DEF Inv
<1>2. ASSUME Inv, [Next]_vars PROVE Inv'
  <2>1. CASE Write
    <3>1. PICK c \in Calls : phase = "write" /\ Wrote(c, Send(W!Writing, c))
      BY <2>1 DEF Write
    <3>2. Composed'
      BY <1>2, <3>1, WriteComposes DEF Inv
    <3>3. UNCHANGED <<phase, arrival, reading>>
      BY <3>1 DEF Wrote
    <3> QED BY <1>2, <3>1, <3>2, <3>3 DEF Inv, arrival, reading
  <2>2. CASE Whole \/ Cut \/ Extended
    <3>1. Arrived' /\ Consumed'
      BY <1>2, <2>2, PacketIsThere
    <3>2. UNCHANGED writing /\ phase' = "read" /\ harm' \in {"none", "cut", "extended"}
      BY <2>2 DEF Whole, Cut, Extended, Arrive
    <3>3. Composed'
      BY <1>2, <3>2, StaysComposed DEF Inv
    <3> QED BY <3>1, <3>2, <3>3 DEF Inv
  <2>3. CASE Changed
    <3>1. UNCHANGED writing /\ phase' = "read" /\ harm' = "changed"
      BY <2>3 DEF Changed, Arrive
    <3>2. Composed'
      BY <1>2, <3>1, StaysComposed DEF Inv
    <3> QED BY <3>1, <3>2 DEF Inv
  <2>4. CASE ReadNext
    <3>1. UNCHANGED <<writing, arrival>> /\ phase' \in {"read", "done"} /\ phase = "read"
      BY <2>4 DEF ReadNext, Receives, Reads
    <3>2. Composed'
      BY <1>2, <3>1, StaysComposed DEF Inv
    <3>3. harm # "changed" => Arrived' /\ Consumed'
      BY <1>2, <2>4, NextIsConsumed
    <3>4. harm' = harm
      BY <3>1 DEF arrival
    <3> QED BY <1>2, <3>1, <3>2, <3>3, <3>4 DEF Inv
  <2>5. CASE ReadEnd
    <3>1. UNCHANGED <<writing, arrival>> /\ phase' = "done" /\ phase = "read"
      BY <2>5 DEF ReadEnd, Reads
    <3>2. Composed'
      BY <1>2, <3>1, StaysComposed DEF Inv
    <3>3. harm # "changed" => Arrived' /\ Consumed'
      BY <1>2, <2>5, EndIsExact
    <3>4. harm' = harm
      BY <3>1 DEF arrival
    <3> QED BY <1>2, <3>1, <3>2, <3>3, <3>4 DEF Inv
  <2>6. CASE UNCHANGED vars
    <3>1. UNCHANGED writing /\ UNCHANGED <<phase, arrival, reading>>
      BY <2>6 DEF vars
    <3>2. Composed' /\ \A i : Start(i)' = Start(i)
      BY <1>2, <3>1, StaysComposed DEF Inv
    <3>3. /\ phase' = phase /\ sent' = sent /\ ones' = ones /\ bits_written' = bits_written
          /\ harm' = harm /\ packet' = packet /\ num_bits' = num_bits
          /\ bits_read' = bits_read /\ failed' = failed /\ received' = received
          /\ Bytes(bits_written)' = Bytes(bits_written)
      BY <3>1 DEF writing, arrival, reading, Bytes
    <3>4. \A i : Meant(sent[i])' = Meant(sent'[i])
      BY DEF Meant
    <3>5. Arrived => Arrived'
      BY <3>3 DEF Arrived
    <3>6. Consumed => Consumed'
      <4>1. (\A i \in 1 .. Len(received) : received[i] = Meant(sent[i]))
              => (\A i \in 1 .. Len(received) : received[i] = Meant(sent[i]))'
        BY <3>3, <3>4
      <4>2. Start(Len(received))' = Start(Len(received))
        BY <3>1, <3>3 DEF Start, writing
      <4> QED BY <3>3, <4>1, <4>2 DEF Consumed
    <3> QED BY <1>2, <3>2, <3>3, <3>5, <3>6 DEF Inv
  <2> QED BY <1>2, <2>1, <2>2, <2>3, <2>4, <2>5, <2>6 DEF Next
<1> QED BY <1>1, <1>2

\* It holds of every message: each call wrote, after those before it, exactly what its reader is
\* over, and the reader has made of it what was meant.
THEOREM MessagesCompose == Spec => []Inv
BY Inductive, PTL DEF Spec

\* What was written is what is read: over a message that arrives whole every call succeeds and
\* delivers the value that was written, in the writer's step, and the end accepts.
THEOREM ReadAsWritten == Spec => []WhatWasWritten
<1>1. Inv => WhatWasWritten
  <2> SUFFICES ASSUME Inv, harm = "none"
               PROVE  /\ failed = Ok
                      /\ \A i \in DOMAIN received : received[i] = Meant(sent[i])
                      /\ phase = "read" => bits_read = IF received = <<>> THEN 0 ELSE marks[Len(received)]
    BY DEF WhatWasWritten
  <2>1. CASE phase = "write"
    BY <2>1 DEF Inv
  <2>2. CASE phase # "write"
    <3>1. Consumed /\ phase \in {"read", "done"}
      BY <2>2 DEF Inv
    <3>2. failed = Ok
      BY <3>1 DEF Consumed
    <3>3. \A i \in DOMAIN received : received[i] = Meant(sent[i])
      BY <3>1 DEF Consumed
    <3>4. phase = "read" => bits_read = IF received = <<>> THEN 0 ELSE marks[Len(received)]
      <4>1. received = <<>> <=> Len(received) = 0
        BY <3>1, EmptySeq DEF Consumed
      <4> QED BY <3>1, <4>1 DEF Consumed, Start
    <3> QED BY <3>2, <3>3, <3>4
  <2> QED BY <2>1, <2>2
<1> QED BY <1>1, MessagesCompose, PTL

\* A packet cut short by any number of bytes, or a byte longer whatever that byte holds, is refused
\* at the latest by the end, and what was delivered before is what was written.
THEOREM HarmIsRefused == Spec => []CutOrExtendedRefused
<1>1. Inv => CutOrExtendedRefused
  <2> SUFFICES ASSUME Inv, harm \in {"cut", "extended"}
               PROVE  ~Accepted /\ \A i \in DOMAIN received : received[i] = Meant(sent[i])
    BY DEF CutOrExtendedRefused
  <2>1. phase # "write" /\ Consumed
    BY DEF Inv
  <2> QED BY <2>1 DEF Consumed, Accepted
<1> QED BY <1>1, MessagesCompose, PTL
=============================================================================
