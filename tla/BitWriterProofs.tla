-------------------------- MODULE BitWriterProofs --------------------------
(***************************************************************************)
(* The bit writer is correct for every word, byte and value width and for  *)
(* every buffer: IInv is inductive, it implies the invariants, and the     *)
(* writer implements the append-only sink.                                 *)
(*                                                                         *)
(* Then callers that break every rule, over any buffer that a release      *)
(* build takes.  They never reach back into a stored word; and until a     *)
(* width above that of a word is passed they get no flush to return over   *)
(* bits that memory does not hold, nor change, but by the straight copy of *)
(* write_bytes, a bit that was written.  The invariant is what is left of  *)
(* the counters when nothing is respected: bits_written never runs ahead   *)
(* of memory and scratch together.  A flushed partial word leaves it       *)
(* behind, and it stays behind; the wide width ends it, for write_bits     *)
(* then counts more than it stores.                                        *)
(***************************************************************************)
EXTENDS WriterMisuse, NatFacts

\* What << and >> do to each position.
LEMMA Shifted ==
  ASSUME NEW v \in SUBSET Int, NEW k \in Int
  PROVE  /\ Shl(v, k) \subseteq Int /\ Shr(v, k) \subseteq Nat
         /\ \A x \in Int : x \in Shl(v, k) <=> x - k \in v
         /\ \A x \in Int : x \in Shr(v, k) <=> x >= 0 /\ x + k \in v
<1>1. Shl(v, k) \subseteq Int /\ Shr(v, k) \subseteq Nat
  BY DEF Shl, Shr
<1>2. ASSUME NEW x \in Int PROVE x \in Shl(v, k) <=> x - k \in v
  <2>1. x - k \in v => x = k + (x - k)
    OBVIOUS
  <2> QED BY <2>1 DEF Shl
<1>3. ASSUME NEW x \in Int PROVE x \in Shr(v, k) <=> x >= 0 /\ x + k \in v
  <2>1. x + k \in v => x = (x + k) - k
    OBVIOUS
  <2> QED BY <2>1 DEF Shr
<1> QED BY <1>1, <1>2, <1>3

\* Bits that go in two parts, the low k and the rest after them, land where they
\* would in one.
LEMMA SplitShift ==
  ASSUME NEW v \in SUBSET Nat, NEW k \in Nat, NEW b \in Nat
  PROVE  Shl({i \in v : i < k}, b) \cup Shl(Shr(v, k), b + k) = Shl(v, b)
<1> DEFINE low == {i \in v : i < k}
           high == Shr(v, k)
<1>1. low \in SUBSET Int /\ high \in SUBSET Int /\ \A x \in Int : x \in high <=> x >= 0 /\ x + k \in v
  <2>1. v \in SUBSET Int /\ k \in Int
    OBVIOUS
  <2>2. high \subseteq Nat /\ \A x \in Int : x \in high <=> x >= 0 /\ x + k \in v
    BY <2>1, Shifted
  <2>3. low \in SUBSET Int
    BY <2>1
  <2> HIDE DEF low, high
  <2>4. high \in SUBSET Int
    BY <2>2
  <2> QED BY <2>2, <2>3, <2>4
<1>2. \A x \in Int : x \in low <=> x \in v /\ x < k
  OBVIOUS
<1> HIDE DEF low, high
<1>3. Shl(low, b) \subseteq Int /\ \A x \in Int : x \in Shl(low, b) <=> x - b \in low
  BY <1>1, Shifted
<1>4. Shl(high, b + k) \subseteq Int /\ \A x \in Int : x \in Shl(high, b + k) <=> x - (b + k) \in high
  BY <1>1, Shifted
<1>5. Shl(v, b) \subseteq Int /\ \A x \in Int : x \in Shl(v, b) <=> x - b \in v
  BY Shifted
<1>6. ASSUME NEW x \in Int
      PROVE  x \in Shl(low, b) \cup Shl(high, b + k) <=> x \in Shl(v, b)
  <2>1. x - b \in low <=> x - b \in v /\ x - b < k
    BY <1>2
  <2>2. x - (b + k) \in high <=> x - b >= k /\ x - b \in v
    <3>1. (x - (b + k)) + k = x - b
      OBVIOUS
    <3> QED BY <3>1, <1>1
  <2> QED BY <2>1, <2>2, <1>3, <1>4, <1>5
<1>7. Shl(low, b) \cup Shl(high, b + k) = Shl(v, b)
  BY <1>3, <1>4, <1>5, <1>6
<1> QED BY <1>7 DEF low, high

\* Nothing is pending when nothing is left to write.
LEMMA NonePending ==
  ASSUME todo = {}
  PROVE  Pending = {}
BY DEF Pending, Shl

-----------------------------------------------------------------------------
(* write_bits *)

\* The part of the invariant that write_bits relies on and restores, whatever
\* write_bytes is doing.
Core == /\ data \subseteq 0 .. num_bits-1 /\ scratch \subseteq Word
        /\ scratch_bits \in 0 .. WordBits-1
        /\ word_index \in Nat /\ bits_written \in Nat /\ Contents \subseteq Nat
        /\ bits_written = word_index * WordBits + scratch_bits
        /\ ScratchClear /\ Room /\ PastTheEnd

\* Of a width up to that of a word the count does not wrap, and the shifts are by
\* what they say: >> by the whole word, which would be by nothing, needs a width
\* that no value has.
LEMMA PlainCounts ==
  ASSUME scratch_bits \in 0 .. WordBits-1, NEW n \in 0 .. WordBits
  PROVE  /\ Filled(n) = scratch_bits + n
         /\ scratch_bits % WordBits = scratch_bits
         /\ scratch_bits > 0 => (WordBits - scratch_bits) % WordBits = WordBits - scratch_bits
<1> USE WidthsAssumption, CountAssumption
<1>1. ASSUME NEW w \in Nat \ {0}, NEW k \in 0 .. w-1
      PROVE  k % w = k
  <2>1. (0 * w + k) % w = k
    BY <1>1, ModUnique
  <2> QED BY <1>1, <2>1
<1>2. CountLimit \in Nat \ {0} /\ scratch_bits + n \in 0 .. CountLimit-1
  OBVIOUS
<1>3. Filled(n) = scratch_bits + n
  BY <1>1, <1>2 DEF Filled
<1>4. WordBits \in Nat \ {0}
  OBVIOUS
<1>5. scratch_bits % WordBits = scratch_bits
  BY <1>1, <1>4
<1>6. scratch_bits > 0 => WordBits - scratch_bits \in 0 .. WordBits-1
  OBVIOUS
<1>7. scratch_bits > 0 => (WordBits - scratch_bits) % WordBits = WordBits - scratch_bits
  BY <1>1, <1>4, <1>6
<1> QED BY <1>3, <1>5, <1>7

\* The word that is stored then, and what is left of the value.
LEMMA PlainSpill ==
  ASSUME scratch_bits \in Int, NEW n \in Int, NEW v, Spill(v, n), Filled(n) = scratch_bits + n,
         (WordBits - scratch_bits) % WordBits = WordBits - scratch_bits
  PROVE  /\ scratch' = Shr(v, WordBits - scratch_bits)
         /\ scratch_bits' = scratch_bits + n - WordBits
         /\ data' = Store(word_index, 1, Merged(v))
         /\ word_index' = word_index + 1 /\ scratch_bits + n >= WordBits
BY WidthsAssumption DEF Spill

\* Membership in Contents, position by position, for b bits stored: stated of
\* constants, so that it serves before and after a step.
LEMMA InContents ==
  ASSUME NEW d \in SUBSET (0 .. num_bits-1), NEW s \in SUBSET Word, NEW b \in Nat
  PROVE  /\ Held(d, s, b) \subseteq Nat
         /\ \A x \in Int : x \in Held(d, s, b) <=> (x \in d /\ x < b) \/ x - b \in s
<1>1. s \in SUBSET Int
  BY WidthsAssumption DEF Word
<1>2. \A x \in Int : x \in Shl(s, b) <=> x - b \in s
  BY <1>1, Shifted
<1>3. Shl(s, b) \subseteq Nat
  BY WidthsAssumption DEF Shl, Word
<1>4. d \subseteq Nat
  BY BufferAssumption
<1>5. \A x \in Int : x \in {i \in d : i < b} <=> x \in d /\ x < b
  OBVIOUS
<1>6. {i \in d : i < b} \cup Shl(s, b) \subseteq Nat
  BY <1>3, <1>4
<1> QED BY <1>2, <1>5, <1>6 DEF Held

\* A value that fits, and for which there is room, goes in: no slice bound is
\* reached, the spilled bits land in the next scratch, and Core holds again.
LEMMA PutKeepsCore ==
  ASSUME WholeWords, Core, NEW n \in 1 .. MaxBits, NEW v \in SUBSET (0 .. n-1),
         bits_written + n <= num_bits,
         Put(v, n) \/ PutPanics(v, n)
  PROVE  /\ Core' /\ Contents' = Contents \cup Shl(v, bits_written) /\ Put(v, n) /\ outcome' = "ok"
         /\ bits_written' = bits_written + n
         /\ scratch_bits + n < WordBits => scratch_bits' = scratch_bits + n
         /\ scratch_bits + n = WordBits => scratch_bits' = 0
<1> USE WidthsAssumption, BufferAssumption DEF WholeWords
<1> DEFINE b == word_index * WordBits
<1>b. b \in Nat /\ bits_written = b + scratch_bits /\ (word_index + 1) * WordBits = b + WordBits
  BY DEF Core
<1> HIDE DEF b
<1>p. /\ Filled(n) = scratch_bits + n /\ scratch_bits % WordBits = scratch_bits
      /\ scratch_bits + n >= WordBits => (WordBits - scratch_bits) % WordBits = WordBits - scratch_bits
  <2>1. n \in 0 .. WordBits /\ n < WordBits /\ scratch_bits \in 0 .. WordBits-1
    BY DEF Core
  <2>2. scratch_bits + n >= WordBits => scratch_bits > 0
    BY <2>1
  <2> QED BY <2>1, <2>2, PlainCounts
<1>1. scratch_bits + n >= WordBits => InBounds(word_index, 1)
  BY <1>b DEF InBounds, Core
<1>2. Put(v, n) /\ outcome' = "ok" /\ bits_written' = bits_written + n
  BY <1>1, <1>p DEF PutPanics, Put
<1>3. /\ Contents \subseteq Int
      /\ \A x \in Int : x \in Contents <=> (x \in data /\ x < b) \/ x - b \in scratch
  <2>1. Contents = Held(data, scratch, b)
    BY DEF Contents, b
  <2>2. data \in SUBSET (0 .. num_bits-1) /\ scratch \in SUBSET Word
    BY DEF Core
  <2> QED BY <2>1, <2>2, <1>b, InContents
<1>4. /\ Merged(v) \subseteq Word
      /\ \A x \in Word : x \in Merged(v) <=> x \in scratch \/ x - scratch_bits \in v
  <2>1. scratch_bits \in Int /\ v \in SUBSET Int /\ scratch \in SUBSET Word
    BY DEF Core
  <2>2. \A x \in Int : x \in Shl(v, scratch_bits) <=> x - scratch_bits \in v
    BY <2>1, Shifted
  <2>3. Word \subseteq Int
    BY DEF Word
  <2>4. \A x \in Word : x \in Merged(v) <=> x \in scratch \/ x - scratch_bits \in v
    BY <2>2, <2>3, <1>p DEF Merged
  <2> QED BY <2>1, <2>4 DEF Merged
<1> DEFINE grown == Contents \cup Shl(v, bits_written)
<1>5. /\ grown \subseteq Nat
      /\ \A x \in Int : x \in grown <=> x \in Contents \/ x - bits_written \in v
  <2>2. \A x \in Int : x \in Shl(v, bits_written) <=> x - bits_written \in v
    BY Shifted DEF Core
  <2>3. Shl(v, bits_written) \subseteq Nat
    BY DEF Shl, Core
  <2> HIDE DEF Contents
  <2> QED BY <2>2, <2>3 DEF Core
<1> HIDE DEF grown
<1>6. CASE Gather(v, n)
  <2>1. /\ scratch' = Merged(v) /\ scratch_bits' = scratch_bits + n
        /\ data' = data /\ word_index' = word_index /\ scratch_bits + n < WordBits
    BY <1>6, <1>p DEF Gather
  <2>2. /\ data' \subseteq 0 .. num_bits-1 /\ scratch' \subseteq Word
        /\ scratch_bits' \in 0 .. WordBits-1 /\ word_index' \in Nat
        /\ bits_written' \in Nat /\ Room'
        /\ bits_written' = word_index' * WordBits + scratch_bits'
    BY <2>1, <1>2, <1>4, <1>b DEF Core, Room, b
  <2>3. ScratchClear'
    BY <2>1, <1>4 DEF Core, ScratchClear, Word
  <2>4. Contents' = Held(data', scratch', b)
    BY <2>1 DEF Contents, b
  <2>5. /\ Contents' \subseteq Int
        /\ \A x \in Int : x \in Contents' <=> (x \in data' /\ x < b) \/ x - b \in scratch'
    BY <2>2, <2>4, <1>b, InContents
  <2>6. ASSUME NEW x \in Int PROVE x \in Contents' <=> x \in grown
    <3>1. x - b \in scratch' <=> x - b \in scratch \/ x - bits_written \in v
      <4>1. x - b \in Word \/ x - b - scratch_bits \notin v
        BY <2>1, <1>b DEF Word, Core
      <4>2. x - bits_written = (x - b) - scratch_bits
        BY <1>b DEF Core
      <4> QED BY <4>1, <4>2, <1>4, <2>1 DEF Core
    <3> HIDE DEF Contents
    <3> QED BY <3>1, <2>5, <2>1, <1>3, <1>5
  <2>7. Contents' = grown
    <3>1. Contents' \subseteq Int /\ grown \subseteq Int
      BY <2>5, <1>5
    <3>2. \A x \in Int : x \in Contents' <=> x \in grown
      BY <2>6
    <3> HIDE DEF Contents
    <3> QED BY <3>1, <3>2
  <2>8. PastTheEnd'
    BY <2>1, <2>5, <2>3, <1>2, <1>b DEF PastTheEnd, Core, ScratchClear, b
  <2> QED BY <2>1, <2>2, <2>3, <2>7, <2>8, <1>2, <1>5 DEF Core, grown
<1>7. CASE Spill(v, n)
  <2>1. /\ scratch' = Shr(v, WordBits - scratch_bits)
        /\ scratch_bits' = scratch_bits + n - WordBits
        /\ data' = Store(word_index, 1, Merged(v))
        /\ word_index' = word_index + 1 /\ scratch_bits + n >= WordBits
    <3>1. scratch_bits + n >= WordBits
      BY <1>7, <1>p DEF Spill
    <3>2. scratch_bits \in Int /\ n \in Int
      BY DEF Core
    <3> QED BY <1>7, <1>p, <3>1, <3>2, PlainSpill
  <2>2. /\ scratch' \subseteq Nat
        /\ \A x \in Int : x \in scratch' <=> x >= 0 /\ x + (WordBits - scratch_bits) \in v
    <3>1. WordBits - scratch_bits \in Int /\ v \in SUBSET Int
      BY DEF Core
    <3> QED BY <3>1, <2>1, Shifted
  <2>3. /\ data' \subseteq 0 .. num_bits-1
        /\ \A x \in Int : x \in data' <=> \/ x \in data /\ (x < b \/ x >= b + WordBits)
                                         \/ x - b \in Merged(v)
    <3>1. b + WordBits <= num_bits
      BY <1>1, <2>1, <1>b DEF InBounds
    <3>2. Merged(v) \in SUBSET Int
      BY <1>4 DEF Word
    <3>3. \A x \in Int : x \in Shl(Merged(v), b) <=> x - b \in Merged(v)
      BY <3>2, <1>b, Shifted
    <3>4. Shl(Merged(v), b) \subseteq b .. b + WordBits-1
      BY <1>4, <1>b DEF Shl, Word
    <3>5. data' = {i \in data : i < b \/ i >= b + WordBits} \cup Shl(Merged(v), b)
      BY <2>1, <1>b DEF Store, b
    <3>6. {i \in data : i < b \/ i >= b + WordBits} \subseteq 0 .. num_bits-1
      BY DEF Core
    <3>7. data' \subseteq 0 .. num_bits-1
      BY <3>1, <3>4, <3>5, <3>6, <1>b
    <3>8. \A x \in Int : x \in {i \in data : i < b \/ i >= b + WordBits}
                           <=> x \in data /\ (x < b \/ x >= b + WordBits)
      OBVIOUS
    <3> QED BY <3>3, <3>5, <3>7, <3>8
  <2>4. /\ scratch_bits' \in 0 .. WordBits-1 /\ word_index' \in Nat
        /\ bits_written' \in Nat /\ Room'
        /\ word_index' * WordBits = b + WordBits
        /\ bits_written' = word_index' * WordBits + scratch_bits'
    BY <2>1, <1>1, <1>2, <1>b DEF Core, Room, InBounds
  <2>5. scratch' \subseteq Word /\ ScratchClear'
    BY <2>1, <2>2 DEF Core, ScratchClear, Word
  <2> DEFINE c == word_index' * WordBits
  <2>c. c \in Nat /\ c = b + WordBits
    <3>1. word_index' * WordBits = (word_index + 1) * WordBits
      BY <2>1
    <3>2. b + WordBits \in Nat
      BY <1>b
    <3> QED BY <3>1, <3>2, <1>b
  <2> HIDE DEF c
  <2>6. Contents' = Held(data', scratch', c)
    BY DEF Contents, c
  <2>7. /\ Contents' \subseteq Int
        /\ \A x \in Int : x \in Contents' <=> (x \in data' /\ x < c) \/ x - c \in scratch'
    <3>1. data' \in SUBSET (0 .. num_bits-1) /\ scratch' \in SUBSET Word
      BY <2>3, <2>5
    <3> QED BY <3>1, <2>c, <2>6, InContents
  <2>8. ASSUME NEW x \in Int PROVE x \in Contents' <=> x \in grown
    <3> DEFINE inV == x - bits_written \in v
    <3>1. x - c \in scratch' <=> x >= c /\ inV
      <4>1. (x - c) + (WordBits - scratch_bits) = x - bits_written
        BY <1>b, <2>c DEF Core
      <4> QED BY <4>1, <2>2, <2>c
    <3>2. x - b \in Merged(v) <=> x - b \in Word /\ (x - b \in scratch \/ inV)
      <4>1. (x - b) - scratch_bits = x - bits_written
        BY <1>b DEF Core
      <4> QED BY <4>1, <1>4
    <3>3. inV => x >= b
      BY <1>b DEF Core
    <3>4. x - b \in scratch => x - b \in Word
      BY DEF Core
    <3>5. x - b \in Word <=> b <= x /\ x < b + WordBits
      BY <1>b DEF Word
    <3> HIDE DEF Contents
    <3> QED BY <3>1, <3>2, <3>3, <3>4, <3>5, <2>3, <2>7, <2>c, <1>3, <1>5, <1>b
  <2>9. Contents' = grown
    <3>1. Contents' \subseteq Int /\ grown \subseteq Int
      BY <2>7, <1>5
    <3>2. \A x \in Int : x \in Contents' <=> x \in grown
      BY <2>8
    <3> HIDE DEF Contents
    <3> QED BY <3>1, <3>2
  <2>10. PastTheEnd'
    <3>1. ASSUME NEW i \in 0 .. num_bits-1, i >= word_index' * WordBits
          PROVE  i \in data' <=> i \in Initial
      <4>1. i \in Int /\ i >= b + WordBits
        BY <3>1, <2>c DEF c
      <4>2. i - b \notin Word
        BY <4>1, <1>b DEF Word
      <4>3. i \in data' <=> i \in data
        BY <4>1, <4>2, <1>4, <1>b, <2>3
      <4>4. i >= b => (i \in data <=> i \in Initial)
        BY DEF Core, PastTheEnd, b
      <4> QED BY <4>1, <4>3, <4>4, <1>b
    <3>2. ASSUME NEW i \in Contents' PROVE i < bits_written'
      <4>1. i \in Int /\ i \in grown
        BY <3>2, <2>7, <2>9
      <4>2. i \in Contents => i < bits_written
        BY DEF Core, PastTheEnd
      <4>3. i - bits_written \in v => i < bits_written + n
        BY <4>1 DEF Core
      <4> QED BY <4>1, <4>2, <4>3, <1>2, <1>5 DEF Core
    <3> QED BY <3>1, <3>2 DEF PastTheEnd
  <2> QED BY <2>1, <2>3, <2>4, <2>5, <2>9, <2>10, <1>2, <1>5 DEF Core, grown
<1> QED BY <1>2, <1>6, <1>7 DEF Put

-----------------------------------------------------------------------------
(* flush_bits *)

\* The invariant of a writer that is not sealed contains Core.
LEMMA CoreHolds ==
  ASSUME WholeWords, IInv, ~Sealed
  PROVE  Core
<1> USE WidthsAssumption, BufferAssumption DEF WholeWords
<1>1. bits_written = word_index * WordBits + scratch_bits
  BY DEF IInv, Counters
<1>2. Contents \subseteq Nat
  BY DEF IInv, TypeOK, HoldsWhatWasAsked
<1> QED BY <1>1, <1>2 DEF IInv, TypeOK, Core

\* flush_bits finds room for the word it stores, and stores zeros after the
\* last bit.
LEMMA FlushKeeps ==
  ASSUME WholeWords, IInv, FlushBits
  PROVE  IInv' /\ outcome' = "ok" /\ Contents' = Contents
<1> USE WidthsAssumption, BufferAssumption DEF WholeWords
<1> DEFINE b == word_index * WordBits
<1>1. CASE scratch_bits = 0
  <2>1. outcome' = "ok" /\ UNCHANGED <<writer, copying>>
    BY <1>1 DEF FlushBits
  <2> QED BY <2>1 DEF writer, stored, copying, Pending, IInv, TypeOK, Counters, Sealed, ScratchClear, Room, Loop,
                      HoldsWhatWasAsked, PastTheEnd, Contents
<1>2. CASE scratch_bits # 0
  <2>1. Core /\ ~Sealed
    <3>1. ~Sealed
      BY <1>2 DEF IInv, Counters, Sealed, TypeOK
    <3> QED BY <3>1, CoreHolds
  <2>b. b \in Nat /\ bits_written = b + scratch_bits /\ (word_index + 1) * WordBits = b + WordBits
    BY <2>1 DEF Core
  <2> HIDE DEF b
  <2>2. InBounds(word_index, 1)
    <3> DEFINE m == num_bits \div WordBits
    <3>1. m \in Int /\ num_bits = m * WordBits
      OBVIOUS
    <3> HIDE DEF m
    <3>2. word_index < m
      <4>1. SUFFICES ASSUME word_index >= m PROVE FALSE
        BY <3>1 DEF IInv, TypeOK
      <4>2. (word_index - m) * WordBits >= 0
        BY <3>1, <4>1 DEF IInv, TypeOK
      <4>3. b - num_bits >= 0
        BY <3>1, <4>2, <2>b DEF b, IInv, TypeOK
      <4> QED BY <4>3, <2>b, <1>2 DEF IInv, Room, TypeOK
    <3>3. (m - (word_index + 1)) * WordBits >= 0
      BY <3>1, <3>2 DEF IInv, TypeOK
    <3> QED BY <3>1, <3>3 DEF InBounds, IInv, TypeOK
  <2>3. /\ data' = Store(word_index, 1, scratch) /\ scratch' = {} /\ scratch_bits' = 0
        /\ word_index' = word_index + 1 /\ outcome' = "ok"
        /\ bits_written' = bits_written /\ asked' = asked
    BY <1>2, <2>2 DEF FlushBits
  <2>4. /\ data' \subseteq 0 .. num_bits-1
        /\ \A x \in Int : x \in data' <=> \/ x \in data /\ (x < b \/ x >= b + WordBits)
                                         \/ x - b \in scratch
    <3>1. b + WordBits <= num_bits
      BY <2>2, <2>b DEF InBounds
    <3>2. scratch \in SUBSET Int
      BY <2>1 DEF Word, Core
    <3>3. \A x \in Int : x \in Shl(scratch, b) <=> x - b \in scratch
      BY <3>2, <2>b, Shifted
    <3>4. Shl(scratch, b) \subseteq b .. b + WordBits-1
      BY <2>1, <2>b DEF Shl, Word, Core
    <3>5. data' = {i \in data : i < b \/ i >= b + WordBits} \cup Shl(scratch, b)
      BY <2>3, <2>b DEF Store, b
    <3>6. {i \in data : i < b \/ i >= b + WordBits} \subseteq 0 .. num_bits-1
      BY DEF IInv, TypeOK
    <3>7. data' \subseteq 0 .. num_bits-1
      BY <3>1, <3>4, <3>5, <3>6, <2>b
    <3>8. \A x \in Int : x \in {i \in data : i < b \/ i >= b + WordBits}
                           <=> x \in data /\ (x < b \/ x >= b + WordBits)
      OBVIOUS
    <3> QED BY <3>3, <3>5, <3>7, <3>8
  <2> DEFINE c == word_index' * WordBits
  <2>c. c \in Nat /\ c = b + WordBits
    <3>1. word_index' * WordBits = (word_index + 1) * WordBits
      BY <2>3
    <3>2. b + WordBits \in Nat
      BY <2>b
    <3> QED BY <3>1, <3>2, <2>b
  <2> HIDE DEF c
  <2>5. /\ Contents' \subseteq Int
        /\ \A x \in Int : x \in Contents' <=> (x \in data' /\ x < c) \/ x - c \in scratch'
    <3>1. Contents' = Held(data', scratch', c)
      BY DEF Contents, c
    <3>2. data' \in SUBSET (0 .. num_bits-1) /\ scratch' \in SUBSET Word
      BY <2>3, <2>4
    <3> QED BY <3>1, <3>2, <2>c, InContents
  <2>6. /\ Contents \subseteq Int
        /\ \A x \in Int : x \in Contents <=> (x \in data /\ x < b) \/ x - b \in scratch
    <3>1. Contents = Held(data, scratch, b)
      BY DEF Contents, b
    <3>2. data \in SUBSET (0 .. num_bits-1) /\ scratch \in SUBSET Word
      BY <2>1 DEF Core
    <3>3. b \in Nat
      BY <2>b
    <3>4. /\ Held(data, scratch, b) \subseteq Nat
          /\ \A x \in Int : x \in Held(data, scratch, b) <=> (x \in data /\ x < b) \/ x - b \in scratch
      BY <3>2, <3>3, InContents
    <3> HIDE DEF Contents
    <3> QED BY <3>1, <3>4
  <2>7. Contents' = Contents
    <3>1. ASSUME NEW x \in Int PROVE x \in Contents' <=> x \in Contents
      <4>1. x - b \in scratch => x < c
        BY <2>1, <2>b, <2>c DEF Core, Word
      <4> QED BY <4>1, <2>3, <2>4, <2>5, <2>6, <2>b, <2>c
    <3> HIDE DEF Contents
    <3> QED BY <3>1, <2>5, <2>6
  <2>8. PastTheEnd'
    <3>1. ASSUME NEW i \in 0 .. num_bits-1, i >= word_index' * WordBits
          PROVE  i \in data' <=> i \in Initial
      <4>1. i \in Int /\ i >= b + WordBits
        BY <3>1, <2>c DEF c
      <4>2. i - b \notin scratch
        BY <4>1, <2>1, <2>b DEF Word, Core
      <4>3. i >= b => (i \in data <=> i \in Initial)
        BY DEF IInv, PastTheEnd, b
      <4> QED BY <4>1, <4>2, <4>3, <2>4, <2>b
    <3> QED BY <3>1, <2>3, <2>7 DEF PastTheEnd, IInv
  <2>9. TypeOK' /\ ScratchClear'
    <3>1. UNCHANGED copying
      BY DEF FlushBits
    <3> QED BY <3>1, <2>3, <2>4, <2>1 DEF TypeOK, IInv, ScratchClear, copying, Word
  <2>10. Room'
    BY <2>2, <2>3, <2>b DEF Room, IInv, InBounds
  <2>11. Counters' /\ Loop' /\ HoldsWhatWasAsked'
    <3>1. phase' = "idle"
      BY DEF FlushBits, copying
    <3>2. bits_written' < c
      BY <2>3, <2>b, <2>c, <2>1 DEF Core
    <3>3. Sealed'
      BY <3>2 DEF Sealed, c
    <3>4. Pending' = Pending /\ todo' = todo
      BY <2>3 DEF FlushBits, copying, Pending
    <3> HIDE DEF Contents, Pending
    <3> QED BY <3>1, <3>3, <3>4, <2>3, <2>7 DEF FlushBits, Counters, Loop, HoldsWhatWasAsked, IInv
  <2> HIDE DEF Contents
  <2> QED BY <2>3, <2>7, <2>8, <2>9, <2>10, <2>11 DEF IInv
<1> QED BY <1>1, <1>2
-----------------------------------------------------------------------------
(* write_bits and write_align between operations *)

\* A write_bits that meets its assertions keeps the invariant and succeeds.
LEMMA WriteBitsKeeps ==
  ASSUME WholeWords, IInv, ~Sealed, NEW n \in 1 .. MaxBits, NEW v \in SUBSET (0 .. n-1),
         bits_written + n <= num_bits, WriteBits(v, n)
  PROVE  IInv' /\ outcome' = "ok"
<1> USE WidthsAssumption, BufferAssumption DEF WholeWords
<1>1. Core
  BY CoreHolds
<1>2. Put(v, n) \/ PutPanics(v, n)
  BY DEF WriteBits, Refused, BitsAsserted
<1>3. /\ Core' /\ outcome' = "ok" /\ Put(v, n)
      /\ Contents' = Contents \cup Shl(v, bits_written)
  BY <1>1, <1>2, PutKeepsCore
<1>4. phase = "idle" /\ phase' = "idle" /\ UNCHANGED copying
  BY DEF WriteBits, copying
<1>a. asked' = asked \cup Shl(v, bits_written)
  BY <1>3 DEF WriteBits, Refused, BitsAsserted, PutPanics, Panic
<1>h. HoldsWhatWasAsked' /\ asked' \subseteq Nat
  <2>1. todo = {} /\ todo' = {}
    BY <1>4 DEF IInv, Loop, copying
  <2>2. Pending = {} /\ Pending' = {}
    BY <2>1 DEF Pending, Shl
  <2>3. Contents = asked /\ Contents' = asked'
    <3> HIDE DEF Contents
    <3> QED BY <2>2, <1>3, <1>a DEF IInv, HoldsWhatWasAsked
  <2> HIDE DEF Contents
  <2> QED BY <2>2, <2>3, <1>3 DEF Core, HoldsWhatWasAsked
<1>5. TypeOK'
  BY <1>3, <1>4, <1>h DEF Core, TypeOK, IInv, copying
<1>6. Counters' /\ Loop'
  BY <1>3, <1>4 DEF Core, Counters, Loop, IInv, copying
<1> QED BY <1>3, <1>5, <1>6, <1>h DEF Core, IInv

\* align_bits is the distance to the next byte, and there is room for it.
LEMMA AlignBitsFit ==
  ASSUME WholeWords, TypeOK, Room
  PROVE  /\ AlignBits = 0 <=> bits_written % ByteBits = 0
         /\ AlignBits # 0 => /\ AlignBits \in 1 .. MaxBits
                             /\ bits_written + AlignBits <= num_bits
<1> USE WidthsAssumption, BufferAssumption DEF WholeWords
<1> DEFINE r == bits_written % ByteBits
<1>1. r \in 0 .. ByteBits-1
  BY DEF TypeOK
<1>2. num_bits % ByteBits = 0
  <2> DEFINE m == num_bits \div WordBits
  <2>1. m \in Nat /\ num_bits = m * WordBits
    OBVIOUS
  <2> HIDE DEF m
  <2>2. num_bits = (m * WordBytes) * ByteBits + 0 /\ m * WordBytes \in Nat
    BY <2>1
  <2> DEFINE k == m * WordBytes
  <2>k. k \in Nat /\ num_bits = k * ByteBits + 0
    BY <2>2
  <2> HIDE DEF k
  <2>3. (k * ByteBits + 0) % ByteBits = 0
    BY <2>k, ModUnique
  <2> QED BY <2>k, <2>3
<1>3. CASE r = 0
  <2>1. ByteBits % ByteBits = 0
    BY ModUnique, 1 * ByteBits + 0 = ByteBits
  <2> QED BY <1>3, <2>1 DEF AlignBits
<1>4. CASE r # 0
  <2>1. bits_written + (ByteBits - r) <= num_bits /\ (ByteBits - r) \in 1 .. ByteBits-1
    <3>1. bits_written \in Nat /\ bits_written <= num_bits
      BY DEF TypeOK, Room
    <3> QED BY <3>1, <1>1, <1>2, <1>4, NextMultiple
  <2>2. (ByteBits - r) % ByteBits = ByteBits - r
    BY <2>1, ModUnique, 0 * ByteBits + (ByteBits - r) = ByteBits - r
  <2> QED BY <1>4, <2>1, <2>2 DEF AlignBits
<1> QED BY <1>3, <1>4

\* write_align keeps the inductive invariant: its zeros are asked for like any other bits.
LEMMA WriteAlignKeeps ==
  ASSUME WholeWords, IInv, ~Sealed, WriteAlign
  PROVE  IInv' /\ outcome' = "ok"
<1>1. CASE AlignBits # 0
  <2>1. /\ AlignBits \in 1 .. MaxBits /\ bits_written + AlignBits <= num_bits
        /\ WriteBits({}, AlignBits)
    BY <1>1, AlignBitsFit DEF IInv, WriteAlign
  <2> QED BY <2>1, WriteBitsKeeps
<1>2. CASE AlignBits = 0
  <2>1. outcome' = "ok" /\ UNCHANGED <<writer, copying>>
    BY <1>2 DEF WriteAlign
  <2> QED BY <2>1 DEF writer, stored, copying, IInv, TypeOK, Counters, Sealed, ScratchClear, Room, Loop,
                      HoldsWhatWasAsked, Pending, PastTheEnd, Contents
<1> QED BY <1>1, <1>2

-----------------------------------------------------------------------------
(* write_bytes *)

\* The head ends at the word boundary.
LEMMA HeadReachesBoundary ==
  ASSUME WholeWords, Core, bits_written % ByteBits = 0
  PROVE  /\ HeadBytes \in Nat
         /\ \/ scratch_bits + HeadBytes * ByteBits = WordBits
            \/ scratch_bits = 0 /\ HeadBytes = 0
<1> USE WidthsAssumption, BufferAssumption DEF WholeWords
<1>1. bits_written % WordBits = scratch_bits
  BY ModUnique DEF Core
<1> DEFINE q == bits_written \div ByteBits
           d == q - word_index * WordBytes
<1>2. q \in Nat /\ bits_written = q * ByteBits
  BY DEF Core
<1> HIDE DEF q
<1>3. d \in Int /\ scratch_bits = d * ByteBits
  <2>1. word_index * WordBits = (word_index * WordBytes) * ByteBits
    BY DEF Core
  <2>2. word_index * WordBytes \in Int
    BY DEF Core
  <2> HIDE DEF WordBytes
  <2> QED BY <1>2, <2>1, <2>2 DEF Core
<1> HIDE DEF d
<1> HIDE DEF WordBytes
<1>4. d >= 0 /\ d < WordBytes
  <2>1. ASSUME d < 0 PROVE FALSE
    <3>1. (0 - d) * ByteBits >= ByteBits
      BY <1>3, <2>1
    <3> QED BY <3>1, <1>3 DEF Core
  <2>2. ASSUME d >= WordBytes PROVE FALSE
    <3>1. (d - WordBytes) * ByteBits >= 0
      BY <1>3, <2>2
    <3> QED BY <3>1, <1>3 DEF Core
  <2> QED BY <2>1, <2>2, <1>3
<1>5. scratch_bits \div ByteBits = d
  <2>1. scratch_bits % ByteBits = 0
    BY <1>3, <1>4, ModUnique, d * ByteBits + 0 = scratch_bits
  <2> DEFINE e == scratch_bits \div ByteBits
  <2>2. e \in Int /\ scratch_bits = e * ByteBits
    BY <2>1 DEF Core
  <2> HIDE DEF e
  <2>3. (e - d) * ByteBits = 0
    BY <2>2, <1>3
  <2>4. e = d
    BY <2>2, <2>3, <1>3
  <2> QED BY <2>4 DEF e
<1>6. HeadBytes = (WordBytes - d) % WordBytes
  BY <1>1, <1>5 DEF HeadBytes
<1>7. CASE d = 0
  <2>1. WordBytes % WordBytes = 0
    BY ModUnique, 1 * WordBytes + 0 = WordBytes, <1>4
  <2> QED BY <2>1, <1>3, <1>6, <1>7
<1>8. CASE d # 0
  <2> DEFINE f == WordBytes - d
  <2>0. f \in 0 .. WordBytes-1 /\ WordBytes \in Nat \ {0}
    BY <1>3, <1>4, <1>8
  <2> HIDE DEF f
  <2>1. f % WordBytes = f
    BY <2>0, ModUnique, 0 * WordBytes + f = f
  <2> USE DEF f
  <2> QED BY <2>1, <1>3, <1>4, <1>6
<1> QED BY <1>7, <1>8

\* write_bytes of a contract-keeping call starts its head loop.
LEMMA WriteBytesKeeps ==
  ASSUME WholeWords, IInv, ~Sealed, NEW k \in Nat, NEW p \in Payloads,
         BytesAsserted(k), WriteBytes(Payload(p, k), k)
  PROVE  IInv' /\ outcome' = "ok"
<1> USE WidthsAssumption, BufferAssumption DEF WholeWords
<1>1. Core
  BY CoreHolds
<1>2. bits_written % ByteBits = 0 /\ bits_written + k * ByteBits <= num_bits
  BY AlignBitsFit DEF IInv, BytesAsserted
<1>3. /\ HeadBytes \in Nat
      /\ \/ scratch_bits + HeadBytes * ByteBits = WordBits
         \/ scratch_bits = 0 /\ HeadBytes = 0
  BY <1>1, <1>2, HeadReachesBoundary
<1>4. /\ phase' = "head" /\ todo' = Payload(p, k) /\ left' = k
      /\ head' = IF HeadBytes > k THEN k ELSE HeadBytes
      /\ outcome' = "ok" /\ UNCHANGED stored
      /\ asked' = asked \cup Shl(Payload(p, k), bits_written) /\ phase = "idle"
  BY DEF WriteBytes, Refused
<1>5. todo' \subseteq Nat /\ \A i \in todo' : i < left' * ByteBits
  BY <1>4 DEF Payload
<1>6. head' \in Nat /\ head' <= left'
  BY <1>3, <1>4
<1>7. /\ head' > 0 => scratch_bits + head' * ByteBits <= WordBits
      /\ head' < left' => \/ scratch_bits + head' * ByteBits = WordBits
                          \/ scratch_bits = 0 /\ head' = 0
  <2>1. CASE HeadBytes > k
    <3>1. (HeadBytes - k) * ByteBits >= 0
      BY <2>1, <1>3
    <3>2. HeadBytes * ByteBits = k * ByteBits + (HeadBytes - k) * ByteBits
      BY <1>3
    <3>3. k * ByteBits \in Nat
      OBVIOUS
    <3>4. scratch_bits + HeadBytes * ByteBits = WordBits
      BY <1>3, <2>1
    <3>5. head' = k /\ left' = k
      BY <2>1, <1>4
    <3>6. scratch_bits + k * ByteBits <= WordBits
      <4> DEFINE x == k * ByteBits
                 y == (HeadBytes - k) * ByteBits
      <4>1. x \in Int /\ y \in Int /\ y >= 0 /\ scratch_bits \in Int
        BY <3>1, <3>3, <1>1, <1>3 DEF Core
      <4>2. scratch_bits + (x + y) = WordBits
        BY <3>2, <3>4
      <4> HIDE DEF x, y
      <4>3. scratch_bits + x <= WordBits
        BY <4>1, <4>2
      <4> QED BY <4>3 DEF x
    <3> QED BY <3>5, <3>6
  <2>2. CASE ~(HeadBytes > k)
    <3>1. head' = HeadBytes
      BY <2>2, <1>4
    <3> HIDE DEF HeadBytes
    <3> QED BY <3>1, <1>3
  <2> QED BY <2>1, <2>2
<1>8. Loop'
  <2>1. bits_written' = bits_written /\ scratch_bits' = scratch_bits
    BY <1>4 DEF stored
  <2> QED BY <2>1, <1>2, <1>4, <1>5, <1>6, <1>7 DEF Loop
<1>9. asked' \subseteq Nat /\ HoldsWhatWasAsked'
  <2>1. todo = {}
    BY <1>4 DEF IInv, Loop
  <2>2. Pending = {} /\ Pending' = Shl(Payload(p, k), bits_written)
    BY <2>1, <1>4 DEF Pending, Shl, stored
  <2>3. Contents' = Contents
    BY <1>4 DEF Contents, stored
  <2>4. Shl(Payload(p, k), bits_written) \subseteq Nat
    BY <1>1 DEF Shl, Payload, Core
  <2> HIDE DEF Contents
  <2> QED BY <2>2, <2>3, <2>4, <1>4 DEF IInv, TypeOK, HoldsWhatWasAsked
<1>10. TypeOK' /\ Counters'
  BY <1>1, <1>4, <1>5, <1>6, <1>9 DEF TypeOK, Counters, Core, stored
<1>11. ScratchClear' /\ Room' /\ PastTheEnd'
  BY <1>4 DEF stored, IInv, ScratchClear, Room, PastTheEnd, Contents
<1> QED BY <1>4, <1>8, <1>9, <1>10, <1>11 DEF IInv

\* One iteration of the head or the tail loop: the byte fits, so write_bits
\* neither traps nor panics, and there is still room for the bytes left.
LEMMA PutByteKeeps ==
  ASSUME WholeWords, IInv, phase # "idle", left > 0, NEW h, PutByte(h)
  PROVE  /\ Core /\ Core' /\ outcome' = "ok"
         /\ Contents' = Contents \cup Shl(Byte, bits_written)
         /\ HoldsWhatWasAsked' /\ asked' = asked
         /\ phase' = phase /\ left' = left - 1 /\ head' = h
         /\ todo' \subseteq Nat /\ \A i \in todo' : i < left' * ByteBits
         /\ bits_written' % ByteBits = 0
         /\ bits_written' + left' * ByteBits <= num_bits
         /\ scratch_bits + ByteBits < WordBits => scratch_bits' = scratch_bits + ByteBits
         /\ scratch_bits + ByteBits = WordBits => scratch_bits' = 0
<1> USE WidthsAssumption, BufferAssumption DEF WholeWords
<1>1. Core
  <2>1. ~Sealed
    BY DEF IInv, Counters, Sealed, TypeOK
  <2> QED BY <2>1, CoreHolds
<1>2. left \in Nat /\ left * ByteBits = (left - 1) * ByteBits + ByteBits /\ (left - 1) * ByteBits \in Nat
  BY DEF IInv, TypeOK
<1>3. /\ bits_written % ByteBits = 0
      /\ bits_written + ByteBits <= num_bits
      /\ bits_written + ByteBits + (left - 1) * ByteBits <= num_bits
      /\ \A i \in todo : i < (left - 1) * ByteBits + ByteBits
  BY <1>2 DEF IInv, Loop, TypeOK
<1>4. ByteBits \in 1 .. MaxBits /\ Byte \in SUBSET (0 .. ByteBits-1)
  <2>1. todo \subseteq Nat
    BY DEF IInv, TypeOK
  <2>2. Byte \subseteq 0 .. ByteBits-1
    <3>1. ByteBits \in Int
      OBVIOUS
    <3>2. ASSUME NEW i \in Byte PROVE i \in Nat /\ i < ByteBits
      BY <2>1 DEF Byte
    <3>3. \A i \in Byte : i \in 0 .. ByteBits-1
      BY <3>1, <3>2
    <3> QED BY <3>3
  <2> QED BY <2>2
<1>5. BitsAsserted(Byte, ByteBits)
  BY <1>3, <1>4 DEF BitsAsserted
<1>6. Put(Byte, ByteBits) \/ PutPanics(Byte, ByteBits)
  BY <1>5 DEF PutByte, Refused
<1>7. /\ Core' /\ Put(Byte, ByteBits) /\ outcome' = "ok"
      /\ Contents' = Contents \cup Shl(Byte, bits_written)
      /\ bits_written' = bits_written + ByteBits
      /\ scratch_bits + ByteBits < WordBits => scratch_bits' = scratch_bits + ByteBits
      /\ scratch_bits + ByteBits = WordBits => scratch_bits' = 0
  BY <1>1, <1>3, <1>4, <1>6, PutKeepsCore
<1>8. /\ phase' = phase /\ left' = left - 1 /\ head' = h
      /\ todo' = Shr(todo, ByteBits) /\ asked' = asked
  BY <1>5, <1>7 DEF PutByte, Refused, PutPanics, Panic
<1>9. todo' \subseteq Nat /\ \A i \in todo' : i < left' * ByteBits
  <2>1. todo \in SUBSET Int
    BY DEF IInv, TypeOK
  <2>2. Shr(todo, ByteBits) \subseteq Nat /\ \A x \in Int : x \in Shr(todo, ByteBits) => x + ByteBits \in todo
    BY <2>1, Shifted
  <2> QED BY <2>2, <1>2, <1>3, <1>8
<1>10. bits_written' % ByteBits = 0
  <2>1. (bits_written + 1 * ByteBits) % ByteBits = 0
    BY <1>1, <1>3, AddMultiple DEF Core
  <2> QED BY <2>1, <1>7
<1>11. HoldsWhatWasAsked'
  <2>1. Shl(Byte, bits_written) \cup Shl(Shr(todo, ByteBits), bits_written + ByteBits) = Pending
    BY SplitShift DEF Byte, Pending, IInv, TypeOK
  <2>2. Pending' = Shl(Shr(todo, ByteBits), bits_written + ByteBits)
    BY <1>7, <1>8 DEF Pending
  <2> HIDE DEF Contents, Pending
  <2> QED BY <2>1, <2>2, <1>7, <1>8 DEF IInv, HoldsWhatWasAsked
<1> QED BY <1>1, <1>3, <1>7, <1>8, <1>9, <1>10, <1>11

\* Core and the loop variables' types amount to the types and the counters.
LEMMA BusyCore ==
  ASSUME Core', phase' \in {"head", "tail"}, todo' \subseteq Nat, left' \in Nat,
         head' \in Nat, outcome' = "ok", asked' \subseteq Nat
  PROVE  TypeOK' /\ Counters'
BY DEF Core, TypeOK, Counters

\* One iteration of the head loop.
LEMMA HeadByteKeeps ==
  ASSUME WholeWords, IInv, HeadByte
  PROVE  IInv' /\ outcome' = "ok"
<1> USE WidthsAssumption, BufferAssumption DEF WholeWords
<1>1. /\ phase = "head" /\ head \in Nat /\ head > 0 /\ left \in Nat /\ head <= left
      /\ scratch_bits + head * ByteBits <= WordBits
      /\ head < left => scratch_bits + head * ByteBits = WordBits
      /\ PutByte(head - 1)
  BY DEF HeadByte, IInv, Loop, TypeOK
<1>2. /\ Core /\ Core' /\ outcome' = "ok" /\ HoldsWhatWasAsked' /\ asked' = asked
      /\ phase' = "head" /\ left' = left - 1 /\ head' = head - 1
      /\ todo' \subseteq Nat /\ \A i \in todo' : i < left' * ByteBits
      /\ bits_written' % ByteBits = 0
      /\ bits_written' + left' * ByteBits <= num_bits
      /\ scratch_bits + ByteBits < WordBits => scratch_bits' = scratch_bits + ByteBits
      /\ scratch_bits + ByteBits = WordBits => scratch_bits' = 0
  BY <1>1, PutByteKeeps
<1>3. /\ head' > 0 => scratch_bits' + head' * ByteBits <= WordBits
      /\ head' < left' => \/ scratch_bits' + head' * ByteBits = WordBits
                          \/ scratch_bits' = 0 /\ head' = 0
  <2>1. CASE head = 1
    <3>1. head' = 0 /\ left' = left - 1
      BY <1>2, <2>1
    <3>2. head * ByteBits = ByteBits
      BY <2>1
    <3>3. head < left => scratch_bits' = 0
      BY <3>2, <1>1, <1>2
    <3>4. head' < left' => head < left
      BY <3>1, <1>1, <2>1
    <3> QED BY <3>1, <3>3, <3>4
  <2>2. CASE head > 1
    <3> DEFINE x == (head - 1) * ByteBits
    <3>1. x \in Int /\ x >= ByteBits /\ head * ByteBits = x + ByteBits
      BY <1>1, <2>2
    <3> HIDE DEF x
    <3>2. scratch_bits + ByteBits < WordBits
      BY <3>1, <1>1, <1>2 DEF Core
    <3>3. scratch_bits' + x = scratch_bits + head * ByteBits
      BY <3>1, <3>2, <1>2 DEF Core
    <3>4. head' * ByteBits = x
      BY <1>2 DEF x
    <3> QED BY <3>3, <3>4, <1>1, <1>2
  <2>3. head = 1 \/ head > 1
    BY DEF HeadByte, IInv, TypeOK
  <2> QED BY <2>1, <2>2, <2>3
<1>4. Loop'
  BY <1>1, <1>2, <1>3 DEF Loop
<1>5. head' \in Nat /\ left' \in Nat /\ asked' \subseteq Nat
  BY <1>1, <1>2 DEF IInv, TypeOK
<1>6. TypeOK' /\ Counters'
  BY <1>2, <1>5, BusyCore
<1> QED BY <1>2, <1>4, <1>6 DEF IInv, Core

\* One iteration of the tail loop.
LEMMA TailByteKeeps ==
  ASSUME WholeWords, IInv, TailByte
  PROVE  IInv' /\ outcome' = "ok"
<1> USE WidthsAssumption, BufferAssumption DEF WholeWords
<1>1. phase = "tail" /\ left \in Nat /\ left > 0 /\ head \in Nat /\ PutByte(head)
  BY DEF TailByte, IInv, TypeOK
<1>2. /\ Core' /\ outcome' = "ok" /\ HoldsWhatWasAsked' /\ asked' = asked
      /\ phase' = "tail" /\ left' = left - 1 /\ head' = head
      /\ todo' \subseteq Nat /\ \A i \in todo' : i < left' * ByteBits
      /\ bits_written' % ByteBits = 0
      /\ bits_written' + left' * ByteBits <= num_bits
  BY <1>1, PutByteKeeps
<1>3. Loop'
  BY <1>2 DEF Loop
<1>4. head' \in Nat /\ left' \in Nat /\ asked' \subseteq Nat
  BY <1>1, <1>2 DEF IInv, TypeOK
<1>5. TypeOK' /\ Counters'
  BY <1>2, <1>4, BusyCore
<1> QED BY <1>2, <1>3, <1>5 DEF IInv, Core

\* The early return after the head and the end of the tail.
LEMMA BytesDoneKeeps ==
  ASSUME WholeWords, IInv, BytesDone
  PROVE  IInv' /\ outcome' = "ok"
<1>1. AlignBits = 0
  BY AlignBitsFit DEF BytesDone, IInv, Loop
<1>2. /\ outcome' = "ok" /\ UNCHANGED writer
      /\ phase' = "idle" /\ todo' = {} /\ left' = 0 /\ head' = 0
  BY <1>1 DEF BytesDone, Refused, Return
<1>3. phase # "idle" /\ bits_written = word_index * WordBits + scratch_bits
  BY DEF BytesDone, IInv, Counters
<1>4. TypeOK' /\ Counters' /\ Loop'
  BY <1>2, <1>3 DEF TypeOK, Counters, Loop, IInv, writer, stored
<1>5. Pending = {} /\ Pending' = {}
  <2>1. todo = {}
    <3>1. left * ByteBits = 0
      BY WidthsAssumption DEF BytesDone
    <3>2. \A i \in todo : i \in Nat /\ i < 0
      BY <3>1, <1>3 DEF IInv, TypeOK, Loop
    <3> QED BY <3>2
  <2> QED BY <2>1, <1>2 DEF Pending, Shl
<1>6. HoldsWhatWasAsked'
  <2>1. Contents' = Contents /\ asked' = asked
    BY <1>2 DEF Contents, writer, stored
  <2> HIDE DEF Contents
  <2> QED BY <2>1, <1>5 DEF IInv, HoldsWhatWasAsked
<1>7. ScratchClear' /\ Room' /\ PastTheEnd'
  BY <1>2 DEF writer, stored, IInv, ScratchClear, Room, PastTheEnd, Contents
<1> QED BY <1>2, <1>4, <1>6, <1>7 DEF IInv

\* The straight copy of m words at a word boundary extends the string of bits
\* by just those words.
LEMMA CopyKeepsCore ==
  ASSUME WholeWords, Core, scratch_bits = 0,
         NEW m \in Nat \ {0}, NEW p \in SUBSET (0 .. m * WordBits - 1),
         bits_written + m * WordBits <= num_bits,
         data' = Store(word_index, m, p),
         bits_written' = bits_written + m * WordBits, word_index' = word_index + m,
         scratch' = {}, scratch_bits' = scratch_bits
  PROVE  Core' /\ Contents' = Contents \cup Shl(p, bits_written)
<1> USE WidthsAssumption, BufferAssumption DEF WholeWords
<1> DEFINE b == word_index * WordBits
           w == m * WordBits
           c == word_index' * WordBits
           grown == Contents \cup Shl(p, bits_written)
<1>1. b \in Nat /\ bits_written = b
  BY DEF Core
<1>2. w \in Nat /\ w > 0
  OBVIOUS
<1>3. (word_index + m) * WordBits = b + w
  BY DEF Core
<1>4. c = b + w /\ c \in Nat
  BY <1>1, <1>2, <1>3
<1>5. data' = {i \in data : i < b \/ i >= b + w} \cup Shl(p, b)
  BY <1>3 DEF Store
<1>6. p \in SUBSET (0 .. w-1) /\ b + w <= num_bits /\ bits_written' = b + w
  BY <1>1
<1>7. grown = Contents \cup Shl(p, b)
  BY <1>1
<1>8. scratch = {}
  BY DEF Core, ScratchClear, Word
<1>9. Contents = Held(data, scratch, b) /\ Contents' = Held(data', scratch', c)
  BY DEF Contents
<1> HIDE DEF b, c, w, grown
<1>10. /\ Shl(p, b) \subseteq b .. b + w - 1
       /\ \A x \in Int : x \in Shl(p, b) <=> x - b \in p
  <2>1. b \in Int /\ p \in SUBSET Int
    BY <1>1, <1>6
  <2>2. \A x \in Int : x \in Shl(p, b) <=> x - b \in p
    BY <2>1, Shifted
  <2>3. Shl(p, b) \subseteq b .. b + w - 1
    BY <1>1, <1>2, <1>6 DEF Shl
  <2> QED BY <2>2, <2>3
<1>11. /\ data' \subseteq 0 .. num_bits-1
       /\ \A x \in Int : x \in data' <=> \/ x \in data /\ (x < b \/ x >= b + w)
                                        \/ x \in Shl(p, b)
  <2>1. {i \in data : i < b \/ i >= b + w} \subseteq 0 .. num_bits-1
    BY DEF Core
  <2>2. data' \subseteq 0 .. num_bits-1
    BY <2>1, <1>1, <1>2, <1>5, <1>6, <1>10
  <2>3. \A x \in Int : x \in {i \in data : i < b \/ i >= b + w}
                        <=> x \in data /\ (x < b \/ x >= b + w)
    OBVIOUS
  <2> QED BY <2>2, <2>3, <1>5
<1>12. /\ Contents \subseteq Nat
       /\ \A x \in Int : x \in Contents <=> x \in data /\ x < b
  <2>1. data \in SUBSET (0 .. num_bits-1) /\ scratch \in SUBSET Word
    BY DEF Core
  <2>2. /\ Held(data, scratch, b) \subseteq Nat
        /\ \A x \in Int : x \in Held(data, scratch, b) <=> (x \in data /\ x < b) \/ x - b \in scratch
    BY <2>1, <1>1, InContents
  <2> HIDE DEF Contents
  <2> QED BY <2>2, <1>8, <1>9
<1>13. /\ Contents' \subseteq Int
       /\ \A x \in Int : x \in Contents' <=> x \in data' /\ x < c
  <2>1. data' \in SUBSET (0 .. num_bits-1) /\ scratch' \in SUBSET Word
    BY <1>11
  <2>2. /\ Held(data', scratch', c) \subseteq Nat
        /\ \A x \in Int : x \in Held(data', scratch', c) <=> (x \in data' /\ x < c) \/ x - c \in scratch'
    BY <2>1, <1>4, InContents
  <2> QED BY <2>2, <1>9
<1>14. grown \subseteq Nat
  <2>1. Shl(p, b) \subseteq Nat
    BY <1>1, <1>2, <1>10
  <2> HIDE DEF Contents
  <2> QED BY <2>1, <1>7, <1>12
<1>15. Contents' = grown
  <2>1. ASSUME NEW x \in Int PROVE x \in Contents' <=> x \in grown
    <3>1. x \in Shl(p, b) => b <= x /\ x < c
      BY <1>1, <1>2, <1>4, <1>10
    <3> HIDE DEF Contents
    <3> QED BY <3>1, <1>1, <1>2, <1>4, <1>7, <1>11, <1>12, <1>13
  <2>2. Contents' \subseteq Int /\ grown \subseteq Int
    BY <1>13, <1>14
  <2> HIDE DEF Contents
  <2> QED BY <2>1, <2>2
<1>16. PastTheEnd'
  <2>1. ASSUME NEW i \in 0 .. num_bits-1, i >= word_index' * WordBits
        PROVE  i \in data' <=> i \in Initial
    <3>1. i \in Int /\ i >= b + w
      BY <2>1, <1>4 DEF c
    <3>2. i \notin Shl(p, b)
      BY <3>1, <1>1, <1>2, <1>10
    <3>3. i >= b => (i \in data <=> i \in Initial)
      BY DEF Core, PastTheEnd, b
    <3> QED BY <3>1, <3>2, <3>3, <1>1, <1>2, <1>11
  <2>2. ASSUME NEW i \in Contents' PROVE i < bits_written'
    BY <2>2, <1>4, <1>6, <1>13
  <2> QED BY <2>1, <2>2 DEF PastTheEnd
<1>17. word_index' * WordBits = b + w
  BY <1>4 DEF c
<1>18. Room' /\ bits_written' = word_index' * WordBits + scratch_bits' /\ bits_written' \in Nat
  BY <1>17, <1>6, <1>1, <1>2 DEF Room
<1>19. scratch' \subseteq Word /\ scratch_bits' \in 0 .. WordBits-1 /\ ScratchClear' /\ word_index' \in Nat
  BY DEF Core, ScratchClear
<1> QED BY <1>11, <1>14, <1>15, <1>16, <1>18, <1>19 DEF Core, grown

\* The step between the loops: the head stopped at a word boundary, the whole
\* words are in bounds, and what is left after them still fits.
LEMMA CopyWordsKeeps ==
  ASSUME WholeWords, IInv, CopyWords
  PROVE  /\ IInv' /\ outcome' = "ok"
         /\ NumWords > 0 => Contents' = Contents \cup Shl({i \in todo : i < CopyBits}, bits_written)
<1> USE WidthsAssumption, BufferAssumption DEF WholeWords
<1>1. Core
  <2>1. ~Sealed
    BY DEF CopyWords, IInv, Counters, Sealed, TypeOK
  <2> QED BY <2>1, CoreHolds
<1>2. /\ phase = "head" /\ head = 0 /\ left \in Nat /\ left > 0 /\ todo \subseteq Nat
      /\ bits_written \in Nat /\ bits_written % ByteBits = 0
      /\ bits_written + left * ByteBits <= num_bits
      /\ \A i \in todo : i < left * ByteBits
  BY DEF CopyWords, IInv, Loop, TypeOK
<1>3. scratch_bits = 0
  <2>1. 0 * ByteBits = 0
    OBVIOUS
  <2> QED BY <2>1, <1>2 DEF IInv, Loop, TypeOK
<1>4. AtBoundary
  <2>1. (word_index * WordBits + 0) % WordBits = 0
    BY ModUnique DEF Core, IInv, TypeOK
  <2> QED BY <2>1, <1>1, <1>3 DEF AtBoundary, Core
<1> DEFINE m == NumWords
           j == m * WordBytes
           w == m * WordBits
<1>5. WordBytes \in Nat \ {0}
  BY 0 * ByteBits = 0
<1>6. m \in Nat /\ j \in Nat /\ j <= left
  <2> HIDE DEF WordBytes
  <2> QED BY <1>2, <1>5 DEF NumWords
<1>7. w = j * ByteBits /\ w \in Nat
  <2>1. WordBits = WordBytes * ByteBits
    OBVIOUS
  <2> HIDE DEF WordBytes
  <2> HIDE DEF m
  <2> QED BY <2>1, <1>5, <1>6
<1>w. w = CopyBits
  BY DEF CopyBits
<1> HIDE DEF m, j, w
<1>8. left - j \in Nat /\ left * ByteBits = (left - j) * ByteBits + w
      /\ (left - j) * ByteBits \in Nat
  BY <1>2, <1>6, <1>7
<1>9. bits_written + w <= num_bits /\ bits_written + w + (left - j) * ByteBits <= num_bits
  BY <1>2, <1>7, <1>8
<1>10. ~CopyFails
  <2>1. (word_index + m) * WordBits = bits_written + w
    BY <1>1, <1>3, <1>6 DEF Core, w
  <2> QED BY <2>1, <1>9 DEF CopyFails, InBounds, m
<1>11. /\ phase' = "tail" /\ head' = head /\ outcome' = "ok"
       /\ \/ NumWords = 0 /\ UNCHANGED <<writer, todo, left>>
          \/ /\ NumWords > 0
             /\ data' = Store(word_index, NumWords, {i \in todo : i < CopyBits})
             /\ todo' = Shr(todo, CopyBits)
             /\ left' = left - NumWords * WordBytes
             /\ bits_written' = bits_written + CopyBits
             /\ word_index' = word_index + NumWords
             /\ scratch' = {} /\ UNCHANGED <<scratch_bits, asked>>
  BY <1>4, <1>10 DEF CopyWords, Refused
<1>12. CASE NumWords = 0
  <2>1. UNCHANGED <<writer, todo, left>>
    BY <1>11, <1>12
  <2>2. TypeOK' /\ Counters' /\ Loop'
    BY <2>1, <1>1, <1>2, <1>11 DEF TypeOK, Counters, Loop, IInv, Core, writer, stored
  <2>3. ScratchClear' /\ Room' /\ HoldsWhatWasAsked' /\ PastTheEnd'
    BY <2>1 DEF writer, stored, IInv, ScratchClear, Room, HoldsWhatWasAsked, Pending, PastTheEnd, Contents
  <2> QED BY <2>2, <2>3, <1>11, <1>12 DEF IInv
<1>13. CASE NumWords > 0
  <2> DEFINE p == {i \in todo : i < w}
  <2>1. /\ data' = Store(word_index, m, p) /\ asked' = asked
        /\ todo' = Shr(todo, w) /\ left' = left - j
        /\ bits_written' = bits_written + w /\ word_index' = word_index + m
        /\ scratch' = {} /\ scratch_bits' = scratch_bits
    BY <1>11, <1>13, <1>w DEF m, j
  <2>2. m \in Nat \ {0}
    BY <1>6, <1>13 DEF m
  <2>3. p \in SUBSET (0 .. w - 1)
    <3>1. w \in Int /\ todo \subseteq Nat
      BY <1>2, <1>7
    <3>2. \A i \in p : i \in 0 .. w-1
      BY <3>1
    <3> QED BY <3>2
  <2> HIDE DEF p
  <2>4. Core' /\ Contents' = Contents \cup Shl(p, bits_written)
    BY <2>1, <2>2, <2>3, <1>1, <1>3, <1>9, CopyKeepsCore DEF w
  <2>5. todo' \subseteq Nat /\ \A i \in todo' : i < left' * ByteBits
    <3>1. todo \in SUBSET Int /\ w \in Int
      BY <1>2, <1>7
    <3>2. Shr(todo, w) \subseteq Nat /\ \A x \in Int : x \in Shr(todo, w) => x + w \in todo
      BY <3>1, Shifted
    <3>3. ASSUME NEW i \in todo' PROVE i < (left - j) * ByteBits
      <4>1. i \in Nat /\ i + w \in todo
        BY <3>2, <2>1
      <4>2. i + w < left * ByteBits
        BY <4>1, <1>2
      <4> QED BY <4>1, <4>2, <1>7, <1>8
    <3> QED BY <3>2, <3>3, <2>1
  <2>6. bits_written' % ByteBits = 0
    <3>1. (bits_written + j * ByteBits) % ByteBits = 0
      BY <1>2, <1>6, AddMultiple
    <3> QED BY <3>1, <2>1, <1>7
  <2>7. Loop'
    BY <2>1, <2>5, <2>6, <1>9, <1>11 DEF Loop
  <2>8. head' \in Nat /\ left' \in Nat /\ asked' \subseteq Nat
    BY <2>1, <1>2, <1>8, <1>11 DEF IInv, TypeOK
  <2>9. TypeOK' /\ Counters'
    BY <2>4, <2>5, <2>8, <1>11, BusyCore
  <2>10. HoldsWhatWasAsked'
    <3>1. Shl(p, bits_written) \cup Shl(Shr(todo, w), bits_written + w) = Pending
      <4>1. todo \in SUBSET Nat /\ w \in Nat /\ bits_written \in Nat
        BY <1>2, <1>7
      <4> QED BY <4>1, SplitShift DEF p, Pending
    <3>2. Pending' = Shl(Shr(todo, w), bits_written + w)
      BY <2>1 DEF Pending
    <3> HIDE DEF Contents, Pending
    <3> QED BY <3>1, <3>2, <2>1, <2>4 DEF IInv, HoldsWhatWasAsked
  <2>11. Contents' = Contents \cup Shl({i \in todo : i < CopyBits}, bits_written)
    BY <2>4, <1>w DEF p
  <2> HIDE DEF Contents
  <2> QED BY <2>4, <2>7, <2>9, <2>10, <2>11, <1>11 DEF IInv, Core
<1> QED BY <1>6, <1>12, <1>13 DEF m

-----------------------------------------------------------------------------
(* The theorems *)

\* BitWriter::new establishes the inductive invariant, whatever the buffer held.
LEMMA InitIInv ==
  ASSUME WholeWords, Init
  PROVE  IInv /\ outcome = "ok"
<1> USE WidthsAssumption, BufferAssumption DEF WholeWords
<1>1. Contents = {}
  <2>1. {i \in Initial : i < 0} = {} /\ Shl({}, 0) = {}
    <3>1. \A i \in Initial : ~(i < 0)
      OBVIOUS
    <3>2. {i \in Initial : i < 0} = {}
      BY <3>1
    <3> QED BY <3>2 DEF Shl
  <2>2. Contents = Held(Initial, {}, 0)
    BY DEF Init, Contents
  <2> QED BY <2>1, <2>2 DEF Held
<1>2. 0 * WordBits = 0
  OBVIOUS
<1>3. TypeOK /\ Counters /\ ScratchClear /\ Room /\ Loop
  BY <1>2 DEF Init, TypeOK, Counters, ScratchClear, Room, Loop
<1>4. HoldsWhatWasAsked /\ PastTheEnd
  <2>1. Pending = {}
    BY DEF Init, Pending, Shl
  <2> QED BY <2>1, <1>1, <1>2 DEF Init, HoldsWhatWasAsked, PastTheEnd
<1> QED BY <1>3, <1>4 DEF Init, IInv

\* a step that changes nothing of the writer keeps the inductive invariant
LEMMA StutterIInv ==
  ASSUME IInv, UNCHANGED <<writer, copying>>, outcome' \in {"ok", "trap"}
  PROVE  IInv'
BY DEF writer, stored, copying, IInv, TypeOK, Counters, Sealed, ScratchClear, Room, Loop,
       HoldsWhatWasAsked, Pending, PastTheEnd, Contents

\* Every step of a contract-keeping caller keeps the invariant and succeeds.
LEMMA NextIInv ==
  ASSUME WholeWords, IInv, Next
  PROVE  IInv' /\ outcome' = "ok"
<1>1. CASE WriteByContract
  <2>1. ~Sealed
    BY <1>1 DEF WriteByContract
  <2>2. ASSUME NEW n \in 1 .. MaxBits, NEW v \in SUBSET (0 .. n-1),
               BitsAsserted(v, n), WriteBits(v, n)
        PROVE  IInv' /\ outcome' = "ok"
    BY <2>1, <2>2, WriteBitsKeeps DEF BitsAsserted
  <2>3. ASSUME NEW k \in 0 .. num_bits \div ByteBits, NEW p \in Payloads,
               BytesAsserted(k), WriteBytes(Payload(p, k), k)
        PROVE  IInv' /\ outcome' = "ok"
    BY <2>1, <2>3, WriteBytesKeeps
  <2> QED BY <1>1, <2>1, <2>2, <2>3, WriteAlignKeeps DEF WriteByContract
<1>2. CASE FlushBits
  BY <1>2, FlushKeeps
<1>3. CASE Copying
  BY <1>3, HeadByteKeeps, TailByteKeeps, CopyWordsKeeps, BytesDoneKeeps DEF Copying
<1> QED BY <1>1, <1>2, <1>3 DEF Next

\* With the assertions in, a careless call either keeps the contract or traps
\* before it changes anything.
LEMMA CarelessIInv ==
  ASSUME IInv, Checked, CarelessNext
  PROVE  IInv' /\ outcome' \in {"ok", "trap"}
<1> USE WidthsAssumption, BufferAssumption DEF WholeWords
<1>0. WholeWords
  BY BufferAssumption
<1>1. CASE WriteCarelessly
  <2>1. ~Sealed
    BY <1>1 DEF WriteCarelessly
  <2>2. ASSUME NEW n \in 0 .. MaxBits+1, NEW v \in SUBSET (0 .. MaxBits-1), WriteBits(v, n)
        PROVE  IInv' /\ outcome' \in {"ok", "trap"}
    <3>1. CASE BitsAsserted(v, n)
      BY <2>1, <2>2, <3>1, WriteBitsKeeps DEF BitsAsserted
    <3>2. CASE ~BitsAsserted(v, n)
      <4>1. UNCHANGED <<writer, copying>> /\ outcome' = "trap"
        BY <2>2, <3>2 DEF WriteBits, Refused, Trap
      <4> QED BY <4>1, StutterIInv
    <3> QED BY <3>1, <3>2
  <2>3. ASSUME NEW k \in 0 .. (num_bits \div ByteBits) + 1, NEW p \in Payloads,
               WriteBytes(Payload(p, k), k)
        PROVE  IInv' /\ outcome' \in {"ok", "trap"}
    <3>1. CASE BytesAsserted(k)
      BY <2>1, <2>3, <3>1, WriteBytesKeeps
    <3>2. CASE ~BytesAsserted(k)
      <4>1. UNCHANGED <<writer, copying>> /\ outcome' = "trap"
        BY <2>3, <3>2 DEF WriteBytes, Refused, Trap
      <4> QED BY <4>1, StutterIInv
    <3> QED BY <3>1, <3>2
  <2> QED BY <1>1, <2>1, <2>2, <2>3, WriteAlignKeeps DEF WriteCarelessly
<1>2. CASE FlushBits \/ Copying
  BY <1>2, NextIInv DEF Next
<1> QED BY <1>1, <1>2 DEF CarelessNext

\* What the callers wrote is what memory and scratch hold, nothing past the end
\* is disturbed, and no call fails, in either build, whatever the widths: over a
\* buffer of whole words, which is what BitWriter::new asks for.
THEOREM WriterCorrect ==
  WholeWords => (Spec => [](IInv /\ TypeOK /\ HoldsWhatWasAsked /\ PastTheEnd /\ NeverFails))
<1> SUFFICES ASSUME WholeWords
             PROVE  Spec => [](IInv /\ TypeOK /\ HoldsWhatWasAsked /\ PastTheEnd /\ NeverFails)
  OBVIOUS
<1>1. Init => IInv /\ NeverFails
  BY InitIInv DEF NeverFails
<1>2. IInv /\ NeverFails /\ [Next]_vars => (IInv /\ NeverFails)'
  <2>1. ASSUME IInv, NeverFails, UNCHANGED vars PROVE (IInv /\ NeverFails)'
    <3>1. UNCHANGED <<writer, copying>> /\ outcome' = "ok"
      BY <2>1 DEF vars, NeverFails
    <3> QED BY <2>1, <3>1, StutterIInv DEF NeverFails
  <2> QED BY <2>1, NextIInv DEF NeverFails
<1>3. IInv => TypeOK /\ HoldsWhatWasAsked /\ PastTheEnd
  BY DEF IInv
<1> QED BY <1>1, <1>2, <1>3, PTL DEF Spec

\* With the debug assertions in, the inductive invariant holds whatever the callers do.
LEMMA CheckedIInv == Checked => (CarelessSpec => [](IInv /\ NeverPanics))
<1> SUFFICES ASSUME Checked PROVE CarelessSpec => [](IInv /\ NeverPanics)
  OBVIOUS
<1>0. WholeWords
  BY BufferAssumption
<1> DEFINE J == IInv /\ outcome \in {"ok", "trap"}
<1>1. Init => J
  BY <1>0, InitIInv
<1>2. J /\ [CarelessNext]_vars => J'
  <2>1. ASSUME J, UNCHANGED vars PROVE J'
    <3>1. UNCHANGED <<writer, copying>> /\ outcome' \in {"ok", "trap"}
      BY <2>1 DEF vars
    <3> QED BY <2>1, <3>1, StutterIInv
  <2>2. ASSUME J, CarelessNext PROVE J'
    BY <2>2, CarelessIInv
  <2> QED BY <2>1, <2>2
<1>3. J => IInv /\ NeverPanics
  BY DEF NeverPanics
<1> QED BY <1>1, <1>2, <1>3, PTL DEF CarelessSpec

\* With the debug assertions in, no careless caller can make the writer hit a slice bound, nor
\* make bits_available underflow.
THEOREM CheckedWriterNeverPanics == Checked => (CarelessSpec => [](NeverPanics /\ NoUnderflow))
<1> SUFFICES ASSUME Checked PROVE CarelessSpec => [](NeverPanics /\ NoUnderflow)
  OBVIOUS
<1>1. IInv => NoUnderflow
  BY DEF IInv, NoUnderflow, Room
<1> QED BY <1>1, CheckedIInv, PTL

\* Nor can it make the writer lose, move or invent a bit.
THEOREM CheckedWriterHolds == Checked => (CarelessSpec => []HoldsWhatWasAsked)
<1> SUFFICES ASSUME Checked PROVE CarelessSpec => []HoldsWhatWasAsked
  OBVIOUS
<1>1. IInv => HoldsWhatWasAsked
  BY DEF IInv
<1> QED BY <1>1, CheckedIInv, PTL

\* Nor can it make the writer disturb what lies past its last bit.
THEOREM CheckedWriterEnds == Checked => (CarelessSpec => []PastTheEnd)
<1> SUFFICES ASSUME Checked PROVE CarelessSpec => []PastTheEnd
  OBVIOUS
<1>1. IInv => PastTheEnd
  BY DEF IInv
<1> QED BY <1>1, CheckedIInv, PTL

-----------------------------------------------------------------------------
(* The writer implements the append-only sink *)

\* Bits that land at bits_written and after are an append to the sink.
LEMMA SinkAppends ==
  ASSUME WholeWords, IInv, IInv', ~Sealed, ~Sealed', bits_written' > bits_written,
         NEW v \in SUBSET Nat, Contents' = Contents \cup Shl(v, bits_written)
  PROVE  Sink!Append
<1> USE WidthsAssumption, BufferAssumption DEF WholeWords
<1>1. /\ Contents \subseteq Nat /\ Contents' \subseteq Nat
      /\ bits_written \in Nat /\ bits_written' \in Nat /\ bits_written' <= num_bits
  BY DEF IInv, HoldsWhatWasAsked, TypeOK, Room
<1>2. (\A i \in Contents : i < bits_written) /\ \A i \in Contents' : i < bits_written'
  BY DEF IInv, PastTheEnd
<1>3. \A i \in Shl(v, bits_written) : i >= bits_written
  BY <1>1 DEF Shl
<1> HIDE DEF Contents
<1>4. Contents' \subseteq 0 .. bits_written' - 1
  BY <1>1, <1>2
<1>5. {i \in Contents' : i < bits_written} = Contents
  <2>1. \A i \in Contents' : i < bits_written <=> i \in Contents
    BY <1>1, <1>2, <1>3
  <2> QED BY <2>1
<1>6. bits_written' \in bits_written+1 .. num_bits
  BY <1>1
<1>9. Sealed' = Sealed
  <2>1. Sealed \in BOOLEAN /\ Sealed' \in BOOLEAN
    BY DEF Sealed
  <2> QED BY <2>1
<1> QED BY <1>4, <1>5, <1>6, <1>9 DEF Sink!Append

\* A step that neither appends nor seals leaves the sink alone.
LEMMA SinkStutters ==
  ASSUME UNCHANGED stored
  PROVE  UNCHANGED Sink!sinkVars
BY DEF stored, Sink!sinkVars, Contents, Sealed

\* Counters that agree are those of a writer that is not sealed: stated of
\* constants, so that it serves before and after a step.
LEMMA Agree ==
  ASSUME NEW i \in Nat, NEW s \in 0 .. WordBits-1, NEW b, b = i * WordBits + s
  PROVE  ~(b < i * WordBits)
<1>1. i * WordBits \in Nat
  BY WidthsAssumption
<1> QED BY <1>1

\* write_bits appends n bits; write_align, when it pads, does the same.
LEMMA WriteBitsAppends ==
  ASSUME WholeWords, IInv, IInv', ~Sealed, NEW n \in 1 .. MaxBits, NEW v \in SUBSET (0 .. n-1),
         bits_written + n <= num_bits, WriteBits(v, n)
  PROVE  Sink!Append
<1> USE WidthsAssumption, BufferAssumption DEF WholeWords
<1>1. Core
  BY CoreHolds
<1>2. Put(v, n) \/ PutPanics(v, n)
  BY DEF WriteBits, Refused, BitsAsserted
<1>3. /\ Core' /\ Put(v, n) /\ bits_written' = bits_written + n
      /\ Contents' = Contents \cup Shl(v, bits_written)
  BY <1>1, <1>2, PutKeepsCore
<1>4. ~Sealed'
  <2>1. /\ word_index' \in Nat /\ scratch_bits' \in 0 .. WordBits-1
        /\ bits_written' = word_index' * WordBits + scratch_bits'
    BY <1>3 DEF Core
  <2> QED BY <2>1, Agree DEF Sealed
<1>5. bits_written' > bits_written
  BY <1>3 DEF IInv, TypeOK
<1>6. v \in SUBSET Nat
  OBVIOUS
<1> QED BY <1>3, <1>4, <1>5, <1>6, SinkAppends

\* One iteration of a loop of write_bytes appends one byte.
LEMMA PutByteAppends ==
  ASSUME WholeWords, IInv, IInv', phase # "idle", left > 0, NEW h, PutByte(h)
  PROVE  Sink!Append
<1> USE WidthsAssumption, BufferAssumption DEF WholeWords
<1>1. /\ Core /\ Core' /\ outcome' = "ok" /\ phase' = phase
  BY PutByteKeeps
<1>2. Put(Byte, ByteBits)
  <2>1. left' = left - 1
    BY PutByteKeeps
  <2>2. left \in Nat
    BY DEF IInv, TypeOK
  <2> QED BY <2>1, <2>2, <1>1 DEF PutByte, Trap, PutPanics, Panic
<1>3. ~Sealed /\ ~Sealed'
  <2>1. /\ word_index \in Nat /\ scratch_bits \in 0 .. WordBits-1
        /\ bits_written = word_index * WordBits + scratch_bits
    BY <1>1 DEF Core
  <2>2. /\ word_index' \in Nat /\ scratch_bits' \in 0 .. WordBits-1
        /\ bits_written' = word_index' * WordBits + scratch_bits'
    BY <1>1 DEF Core
  <2> QED BY <2>1, <2>2, Agree DEF Sealed
<1>4. bits_written' > bits_written /\ Contents' = Contents \cup Shl(Byte, bits_written)
  <2>1. bits_written' > bits_written
    BY <1>2 DEF Put, IInv, TypeOK
  <2> QED BY <2>1, PutByteKeeps
<1>5. Byte \in SUBSET Nat
  BY DEF Byte, IInv, TypeOK
<1> QED BY <1>3, <1>4, <1>5, SinkAppends

\* The straight copy appends whole words, or nothing.
LEMMA CopyWordsAppends ==
  ASSUME WholeWords, IInv, IInv', CopyWords
  PROVE  Sink!Append \/ UNCHANGED Sink!sinkVars
<1> USE WidthsAssumption, BufferAssumption DEF WholeWords
<1>1. outcome' = "ok"
  BY CopyWordsKeeps
<1>2. CASE UNCHANGED writer
  BY <1>2, SinkStutters DEF writer
<1>3. CASE /\ NumWords > 0 /\ phase' = "tail"
           /\ bits_written' = bits_written + CopyBits
  <2>1. ~Sealed /\ ~Sealed'
    BY <1>3 DEF CopyWords, IInv, Counters, Sealed, TypeOK
  <2>2. CopyBits \in Int /\ CopyBits > 0
    <3>1. left \in Nat /\ WordBytes \in Nat \ {0}
      BY 0 * ByteBits = 0 DEF IInv, TypeOK
    <3>2. NumWords \in Nat
      <4> HIDE DEF WordBytes
      <4> QED BY <3>1 DEF NumWords
    <3> HIDE DEF NumWords
    <3> QED BY <3>2, <1>3 DEF CopyBits
  <2>3. {i \in todo : i < CopyBits} \in SUBSET Nat
    BY DEF IInv, TypeOK
  <2>4. bits_written' > bits_written
    BY <2>2, <1>3 DEF IInv, TypeOK
  <2>5. Contents' = Contents \cup Shl({i \in todo : i < CopyBits}, bits_written)
    BY <1>3, CopyWordsKeeps
  <2> QED BY <2>1, <2>3, <2>4, <2>5, SinkAppends
<1> QED BY <1>1, <1>2, <1>3 DEF CopyWords, Trap, Panic

\* flush_bits seals the sink if a partial word was pending.
LEMMA FlushSeals ==
  ASSUME WholeWords, IInv, IInv', FlushBits
  PROVE  Sink!Seal \/ UNCHANGED Sink!sinkVars
<1> USE WidthsAssumption, BufferAssumption DEF WholeWords
<1>1. outcome' = "ok"
  BY FlushKeeps
<1>2. CASE UNCHANGED writer
  BY <1>2, SinkStutters DEF writer
<1>3. CASE /\ scratch_bits # 0 /\ word_index' = word_index + 1
           /\ bits_written' = bits_written /\ asked' = asked
  <2>1. Core
    <3>1. ~Sealed
      BY <1>3 DEF IInv, Counters, Sealed, TypeOK
    <3> QED BY <3>1, CoreHolds
  <2>2. Sealed'
    BY <2>1, <1>3 DEF Core, Sealed
  <2>3. Contents' = Contents
    BY FlushKeeps
  <2> QED BY <2>2, <2>3, <1>3 DEF Sink!Seal
<1> QED BY <1>1, <1>2, <1>3 DEF FlushBits, Panic

\* The sink starts empty.
LEMMA InitSinks ==
  ASSUME WholeWords
  PROVE  Init => Sink!SinkInit
<1>1. ASSUME Init PROVE Contents = {} /\ bits_written = 0 /\ ~Sealed
  <2>1. IInv /\ asked = {} /\ bits_written = 0 /\ word_index = 0
    BY <1>1, InitIInv DEF Init
  <2> QED BY <2>1, WidthsAssumption DEF IInv, HoldsWhatWasAsked, Sealed
<1> HIDE DEF Contents
<1> QED BY <1>1 DEF Sink!SinkInit

\* write_align appends zeros, or is aligned already.
LEMMA WriteAlignAppends ==
  ASSUME WholeWords, IInv, IInv', ~Sealed, WriteAlign
  PROVE  Sink!Append \/ UNCHANGED Sink!sinkVars
<1>1. CASE AlignBits # 0
  <2>1. /\ AlignBits \in 1 .. MaxBits /\ bits_written + AlignBits <= num_bits
        /\ WriteBits({}, AlignBits)
    BY <1>1, AlignBitsFit DEF IInv, WriteAlign
  <2> QED BY <2>1, WriteBitsAppends
<1>2. CASE AlignBits = 0
  BY <1>2, SinkStutters DEF WriteAlign, writer
<1> QED BY <1>1, <1>2

\* A flush seals, an iteration of write_bytes appends, and a step that changes nothing is a stutter.
LEMMA OthersSink ==
  ASSUME WholeWords, IInv, IInv', FlushBits \/ Copying \/ UNCHANGED vars
  PROVE  Sink!Append \/ Sink!Seal \/ UNCHANGED Sink!sinkVars
<1>1. CASE FlushBits
  BY <1>1, FlushSeals
<1>2. CASE HeadByte
  <2>1. phase # "idle" /\ left > 0
    BY <1>2 DEF HeadByte, IInv, Loop, TypeOK
  <2> QED BY <2>1, <1>2, PutByteAppends DEF HeadByte
<1>3. CASE TailByte
  BY <1>3, PutByteAppends DEF TailByte
<1>4. CASE CopyWords
  BY <1>4, CopyWordsAppends
<1>5. CASE BytesDone
  BY <1>5, SinkStutters DEF BytesDone, writer
<1>6. CASE UNCHANGED vars
  BY <1>6, SinkStutters DEF vars, writer
<1> QED BY <1>1, <1>2, <1>3, <1>4, <1>5, <1>6 DEF Copying

\* A call by the contract appends, and write_bytes before its first iteration has stored nothing.
LEMMA ContractSinks ==
  ASSUME WholeWords, IInv, IInv', [Next]_vars
  PROVE  Sink!Append \/ Sink!Seal \/ UNCHANGED Sink!sinkVars
<1>1. CASE WriteByContract
  <2>1. ~Sealed
    BY <1>1 DEF WriteByContract
  <2>2. ASSUME NEW n \in 1 .. MaxBits, NEW v \in SUBSET (0 .. n-1),
               BitsAsserted(v, n), WriteBits(v, n)
        PROVE  Sink!Append
    BY <2>1, <2>2, WriteBitsAppends DEF BitsAsserted
  <2>3. ASSUME NEW k \in 0 .. num_bits \div ByteBits, NEW p \in Payloads,
               WriteBytes(Payload(p, k), k)
        PROVE  UNCHANGED Sink!sinkVars
    BY <2>3, SinkStutters DEF WriteBytes, Trap, writer
  <2> QED BY <1>1, <2>1, <2>2, <2>3, WriteAlignAppends DEF WriteByContract
<1>2. CASE FlushBits \/ Copying \/ UNCHANGED vars
  BY <1>2, OthersSink
<1> QED BY <1>1, <1>2 DEF Next

\* A careless call that the assertions stop is a stutter of the sink.
LEMMA CarelessSinks ==
  ASSUME Checked, IInv, IInv', [CarelessNext]_vars
  PROVE  Sink!Append \/ Sink!Seal \/ UNCHANGED Sink!sinkVars
<1>0. WholeWords
  BY BufferAssumption
<1>1. CASE WriteCarelessly
  <2>1. ~Sealed
    BY <1>1 DEF WriteCarelessly
  <2>2. ASSUME NEW n \in 0 .. MaxBits+1, NEW v \in SUBSET (0 .. MaxBits-1), WriteBits(v, n)
        PROVE  Sink!Append \/ UNCHANGED Sink!sinkVars
    <3>1. CASE BitsAsserted(v, n)
      BY <1>0, <2>1, <2>2, <3>1, WriteBitsAppends DEF BitsAsserted
    <3>2. CASE ~BitsAsserted(v, n)
      BY <2>2, <3>2, SinkStutters DEF WriteBits, Refused, Trap, writer
    <3> QED BY <3>1, <3>2
  <2>3. ASSUME NEW k \in 0 .. (num_bits \div ByteBits) + 1, NEW p \in Payloads,
               WriteBytes(Payload(p, k), k)
        PROVE  UNCHANGED Sink!sinkVars
    BY <2>3, SinkStutters DEF WriteBytes, Trap, writer
  <2> QED BY <1>0, <1>1, <2>1, <2>2, <2>3, WriteAlignAppends DEF WriteCarelessly
<1>2. CASE FlushBits \/ Copying \/ UNCHANGED vars
  BY <1>0, <1>2, OthersSink
<1> QED BY <1>1, <1>2 DEF CarelessNext

\* The writer of bitpacker.rs implements the append-only sink: every operation
\* and every iteration of write_bytes appends after the last bit, seals, or
\* changes nothing the sink can see.
THEOREM WriterImplementsSink == WholeWords => (Spec => ImplementsSink)
<1> SUFFICES ASSUME WholeWords PROVE Spec => ImplementsSink
  OBVIOUS
<1>1. IInv /\ IInv' /\ [Next]_vars => [Sink!SinkNext]_(Sink!sinkVars)
  BY ContractSinks DEF Sink!SinkNext
<1>2. Spec => []IInv
  BY WriterCorrect, PTL
<1> QED BY <1>1, <1>2, InitSinks, PTL DEF Spec, ImplementsSink, Sink!SinkSpec

\* With the debug assertions in, so does the writer of a careless caller.
THEOREM CheckedWriterImplementsSink == Checked => (CarelessSpec => ImplementsSink)
<1> SUFFICES ASSUME Checked PROVE CarelessSpec => ImplementsSink
  OBVIOUS
<1>0. WholeWords
  BY BufferAssumption
<1>1. IInv /\ IInv' /\ [CarelessNext]_vars => [Sink!SinkNext]_(Sink!sinkVars)
  BY CarelessSinks DEF Sink!SinkNext
<1>2. CarelessSpec => []IInv
  BY CheckedIInv
<1>3. Init => Sink!SinkInit
  BY <1>0, InitSinks
<1> QED BY <1>1, <1>2, <1>3, PTL DEF CarelessSpec, ImplementsSink, Sink!SinkSpec

-----------------------------------------------------------------------------
(* Under callers that break every rule *)

\* the word and the counters, whatever widths are passed and whatever write_bytes is doing
Ranges ==
  /\ scratch \subseteq Word /\ scratch_bits \in Nat
  /\ word_index \in Nat /\ bits_written \in Nat
  /\ word_index * WordBits <= num_bits

\* what is counted is held, until a width above that of a word is passed
Counted ==
  /\ scratch_bits <= WordBits-1
  /\ bits_written <= word_index * WordBits + scratch_bits

\* write_bytes: its head loop ends before its bytes do
Looping ==
  /\ todo \subseteq Nat /\ left \in Nat /\ head \in Nat
  /\ phase = "head" => head <= left

Bounded == Ranges /\ Looping

Promised == Bounded /\ (~wide => Counted)

\* what a step leaves of memory, of the bits already written, and of those among them that were
\* stored
Final == \A i \in 0 .. num_bits-1 : \/ word_index * WordBits <= i /\ i < word_index' * WordBits
                                    \/ i \in data <=> i \in data'
Kept == \A i \in 0 .. bits_written-1 : i \in Contents <=> i \in Contents'
KeptInMemory == \A i \in 0 .. word_index * WordBits - 1 : i \in Contents <=> i \in Contents'

\* What << does to each position.
LEMMA ShiftedLeft ==
  ASSUME NEW v \in SUBSET Int, NEW k \in Int
  PROVE  \A x \in Int : x \in Shl(v, k) <=> x - k \in v
<1> TAKE x \in Int
<1>1. x - k \in v => x = k + (x - k)
  OBVIOUS
<1> QED BY <1>1 DEF Shl

\* The bits of a value that go to the next word.
LEMMA ShiftedRight ==
  ASSUME NEW v \in SUBSET (0 .. MaxBits-1), NEW k \in Nat
  PROVE  Shr(v, k) \subseteq Word
BY WidthsAssumption, BufferAssumption DEF Shr, Word

\* Words that are stored: those positions and no others.
LEMMA Stored ==
  ASSUME NEW w \in Nat, NEW n \in Nat, NEW v \in SUBSET (0 .. n * WordBits - 1), NEW x \in Int
  PROVE  x \in Store(w, n, v)
           <=> IF w * WordBits <= x /\ x < (w + n) * WordBits THEN x - w * WordBits \in v ELSE x \in data
<1> USE WidthsAssumption, BufferAssumption
<1> DEFINE b == w * WordBits
           c == n * WordBits
           e == (w + n) * WordBits
<1>1. b \in Nat /\ c \in Nat /\ e = b + c
  OBVIOUS
<1>2. v \in SUBSET Int
  BY <1>1
<1>3. x \in Shl(v, b) <=> x - b \in v
  BY <1>1, <1>2, ShiftedLeft
<1>4. Store(w, n, v) = {i \in data : i < b \/ i >= e} \cup Shl(v, b)
  BY DEF Store
<1>5. v \subseteq 0 .. c - 1
  OBVIOUS
<1> HIDE DEF b, c, e
<1>6. x - b \in v => b <= x /\ x < e
  BY <1>1, <1>5
<1>7. x \in Store(w, n, v) <=> (x \in data /\ (x < b \/ x >= e)) \/ x - b \in v
  BY <1>3, <1>4
<1>8. x \in Store(w, n, v) <=> IF b <= x /\ x < e THEN x - b \in v ELSE x \in data
  BY <1>1, <1>6, <1>7
<1> QED BY <1>8 DEF b, e

\* A store past the words that are stored reaches back to none of them.
LEMMA StoreIsFinal ==
  ASSUME word_index \in Nat, NEW n \in Nat, NEW v \in SUBSET (0 .. n * WordBits - 1),
         data' = Store(word_index, n, v), word_index' = word_index + n
  PROVE  Final
<1> SUFFICES ASSUME NEW i \in 0 .. num_bits-1
             PROVE  \/ word_index * WordBits <= i /\ i < word_index' * WordBits
                    \/ i \in data <=> i \in data'
  BY DEF Final
<1>1. i \in Int
  BY WidthsAssumption, BufferAssumption
<1> QED BY <1>1, Stored

\* Membership in Contents, position by position, for b bits stored: stated of constants, so that
\* it serves before and after a step.
LEMMA InHeld ==
  ASSUME NEW d, NEW s \in SUBSET Word, NEW b \in Nat, NEW x \in Int
  PROVE  x \in Held(d, s, b) <=> (x \in d /\ x < b) \/ x - b \in s
<1>1. s \in SUBSET Int
  BY WidthsAssumption, BufferAssumption DEF Word
<1>2. x \in Shl(s, b) <=> x - b \in s
  BY <1>1, ShiftedLeft
<1> QED BY <1>2 DEF Held

\* Merging a value changes no bit below it.
LEMMA MergedAbove ==
  ASSUME Ranges, Counted, NEW v \in SUBSET Nat
  PROVE  \A x \in Int : x < scratch_bits => (x \in Merged(v) <=> x \in scratch)
<1>1. scratch_bits \in 0 .. WordBits-1 /\ 0 \in 0 .. WordBits /\ scratch_bits \in Int /\ v \in SUBSET Int
  BY WidthsAssumption, BufferAssumption DEF Ranges, Counted
<1>2. scratch_bits % WordBits = scratch_bits
  BY <1>1, PlainCounts
<1>3. \A x \in Int : x \in Shl(v, scratch_bits) <=> x - scratch_bits \in v
  BY <1>1, ShiftedLeft
<1>4. \A x \in Int : x < scratch_bits => x - scratch_bits \notin v
  BY <1>1
<1>5. \A x \in Int : x < scratch_bits => x \notin Shl(v, scratch_bits)
  BY <1>3, <1>4
<1> QED BY <1>2, <1>5 DEF Merged

\* A step that leaves memory alone and the scratch below scratch_bits.
LEMMA ScratchKept ==
  ASSUME Ranges, Counted, data' = data, word_index' = word_index, scratch' \subseteq Word,
         \A x \in Int : x < scratch_bits => (x \in scratch' <=> x \in scratch)
  PROVE  Kept
<1> USE WidthsAssumption, BufferAssumption
<1> DEFINE b == word_index * WordBits
<1>1. b \in Nat /\ bits_written <= b + scratch_bits /\ scratch_bits \in Nat /\ bits_written \in Nat
  BY DEF Ranges, Counted
<1>2. Contents = Held(data, scratch, b) /\ Contents' = Held(data, scratch', b)
  BY DEF Contents
<1> HIDE DEF b
<1> SUFFICES ASSUME NEW i \in 0 .. bits_written-1 PROVE i \in Contents <=> i \in Contents'
  BY DEF Kept
<1>3. i \in Int /\ i - b \in Int /\ i - b < scratch_bits
  BY <1>1
<1>4. i - b \in scratch' <=> i - b \in scratch
  BY <1>3
<1>5. i \in Held(data, scratch, b) <=> (i \in data /\ i < b) \/ i - b \in scratch
  BY <1>1, <1>3, InHeld DEF Ranges
<1>6. i \in Held(data, scratch', b) <=> (i \in data /\ i < b) \/ i - b \in scratch'
  BY <1>1, <1>3, InHeld
<1> QED BY <1>2, <1>4, <1>5, <1>6

\* A step that stores a word which agrees with the scratch below scratch_bits.
LEMMA WordKept ==
  ASSUME Ranges, Counted, NEW w \in SUBSET Word,
         \A x \in Int : x < scratch_bits => (x \in w <=> x \in scratch),
         data' = Store(word_index, 1, w), word_index' = word_index + 1, scratch' \subseteq Word
  PROVE  Kept
<1> USE WidthsAssumption, BufferAssumption
<1> DEFINE b == word_index * WordBits
           e == (word_index + 1) * WordBits
<1>1. /\ b \in Nat /\ e \in Nat /\ e = b + WordBits /\ bits_written <= b + scratch_bits
      /\ scratch_bits \in 0 .. WordBits-1 /\ bits_written \in Nat /\ word_index \in Nat
  BY DEF Ranges, Counted
<1>2. Contents = Held(data, scratch, b) /\ Contents' = Held(data', scratch', e)
  BY DEF Contents
<1>3. 1 * WordBits = WordBits /\ w \in SUBSET (0 .. 1 * WordBits - 1) /\ 1 \in Nat
  BY DEF Word
<1>5. ASSUME NEW x \in Int
      PROVE  x \in data' <=> IF b <= x /\ x < e THEN x - b \in w ELSE x \in data
  BY <1>1, <1>3, Stored
<1> HIDE DEF b, e
<1>6. ASSUME NEW i \in 0 .. bits_written-1 PROVE i \in Contents <=> i \in Contents'
  <2>1. i \in Int /\ i - b \in Int /\ i - b < scratch_bits /\ i < e /\ i - e < 0
    BY <1>1
  <2>2. i \in Held(data, scratch, b) <=> (i \in data /\ i < b) \/ i - b \in scratch
    BY <1>1, <2>1, InHeld DEF Ranges
  <2>3. i \in Held(data', scratch', e) <=> (i \in data' /\ i < e) \/ i - e \in scratch'
    BY <1>1, <2>1, InHeld
  <2>4. i - e \notin scratch'
    <3>1. \A x \in Word : x >= 0
      BY DEF Word
    <3>2. ~(i - e >= 0)
      BY <1>1, <2>1
    <3> QED BY <3>1, <3>2
  <2>5. i - b \in w <=> i - b \in scratch
    BY <2>1
  <2>6. i - b \in scratch => b <= i
    BY <1>1, <2>1 DEF Ranges, Word
  <2>7. i \in data' <=> IF b <= i THEN i - b \in w ELSE i \in data
    BY <1>5, <2>1
  <2> QED BY <1>1, <1>2, <2>1, <2>2, <2>3, <2>4, <2>5, <2>6, <2>7
<1> QED BY <1>6 DEF Kept

\* Whatever is written goes after the words that are stored.
LEMMA PutBounded ==
  ASSUME Ranges, NEW v \in SUBSET (0 .. MaxBits-1), NEW n \in Nat,
         Put(v, n) \/ PutPanics(v, n)
  PROVE  Ranges' /\ Final
<1> USE WidthsAssumption, BufferAssumption
<1>1. /\ scratch_bits \in Nat /\ bits_written \in Nat /\ word_index \in Nat
      /\ word_index * WordBits <= num_bits /\ WordBits \in Nat \ {0} /\ CountLimit \in Nat \ {0}
  BY CountAssumption DEF Ranges
<1>2. Merged(v) \subseteq Word
  BY DEF Merged, Ranges
<1>3. Filled(n) \in Nat
  BY <1>1 DEF Filled
<1>4. CASE PutPanics(v, n)
  <2>1. scratch' = Merged(v) /\ UNCHANGED <<data, scratch_bits, word_index, bits_written>>
    BY <1>4 DEF PutPanics
  <2> QED BY <1>2, <2>1 DEF Ranges, Final
<1>5. CASE Put(v, n) /\ Gather(v, n)
  <2>1. /\ scratch' = Merged(v) /\ scratch_bits' = Filled(n)
        /\ data' = data /\ word_index' = word_index /\ bits_written' = bits_written + n
    BY <1>5 DEF Put, Gather
  <2> QED BY <1>1, <1>2, <1>3, <2>1 DEF Ranges, Final
<1>6. CASE Put(v, n) /\ Spill(v, n)
  <2>1. /\ scratch' = Shr(v, (WordBits - scratch_bits) % WordBits)
        /\ scratch_bits' = Filled(n) - WordBits /\ Filled(n) >= WordBits
        /\ data' = Store(word_index, 1, Merged(v))
        /\ word_index' = word_index + 1 /\ bits_written' = bits_written + n
    BY <1>6 DEF Put, Spill
  <2>2. word_index' * WordBits <= num_bits
    <3>1. ~(Filled(n) < WordBits)
      BY <1>1, <1>3, <2>1
    <3>2. (word_index + 1) * WordBits <= num_bits
      BY <1>6, <3>1 DEF Put, InBounds
    <3> QED BY <2>1, <3>2
  <2>3. scratch' \subseteq Word
    <3>1. (WordBits - scratch_bits) % WordBits \in Nat
      BY <1>1
    <3> QED BY <2>1, <3>1, ShiftedRight
  <2>4. Final
    <3>1. 1 * WordBits = WordBits
      BY <1>1
    <3>2. Merged(v) \in SUBSET (0 .. 1 * WordBits - 1) /\ 1 \in Nat
      BY <1>2, <3>1 DEF Word
    <3> QED BY <1>1, <2>1, <3>2, StoreIsFinal
  <2>5. scratch_bits' \in Nat /\ bits_written' \in Nat /\ word_index' \in Nat
    BY <1>1, <1>3, <2>1
  <2> QED BY <2>2, <2>3, <2>4, <2>5 DEF Ranges
<1> QED BY <1>4, <1>5, <1>6 DEF Put

\* It goes after what is counted too; and the count is kept, of a width up to that of a word.
LEMMA PutCounts ==
  ASSUME Ranges, Counted, NEW v \in SUBSET (0 .. MaxBits-1), NEW n \in Nat,
         Put(v, n) \/ PutPanics(v, n)
  PROVE  Kept /\ (n <= WordBits => Counted')
<1> USE WidthsAssumption, BufferAssumption
<1> DEFINE b == word_index * WordBits
           e == (word_index + 1) * WordBits
<1>1. /\ b \in Nat /\ e \in Nat /\ e = b + WordBits /\ bits_written <= b + scratch_bits
      /\ scratch_bits \in 0 .. WordBits-1 /\ bits_written \in Nat /\ word_index \in Nat
  BY DEF Ranges, Counted
<1>2. Merged(v) \subseteq Word /\ v \in SUBSET Nat
  BY DEF Merged, Ranges
<1>3. \A x \in Int : x < scratch_bits => (x \in Merged(v) <=> x \in scratch)
  BY <1>2, MergedAbove
<1>4. n <= WordBits => Filled(n) = scratch_bits + n
  BY <1>1, PlainCounts
<1>5. scratch' \subseteq Word
  BY PutBounded DEF Ranges
<1>6. CASE PutPanics(v, n)
  <2>1. scratch' = Merged(v) /\ UNCHANGED <<data, scratch_bits, word_index, bits_written>>
    BY <1>6 DEF PutPanics
  <2>2. Kept
    BY <1>3, <1>5, <2>1, ScratchKept
  <2>3. Counted'
    BY <2>1 DEF Counted
  <2> QED BY <2>2, <2>3
<1>7. CASE Put(v, n) /\ Gather(v, n)
  <2>1. /\ scratch' = Merged(v) /\ scratch_bits' = Filled(n) /\ Filled(n) < WordBits
        /\ data' = data /\ word_index' = word_index /\ bits_written' = bits_written + n
    BY <1>7 DEF Put, Gather
  <2>2. Kept
    BY <1>3, <1>5, <2>1, ScratchKept
  <2>3. word_index' * WordBits = b
    BY <2>1
  <2> HIDE DEF b
  <2>4. ASSUME n <= WordBits
        PROVE  scratch_bits' <= WordBits-1 /\ bits_written' <= word_index' * WordBits + scratch_bits'
    BY <1>1, <1>4, <2>1, <2>3, <2>4
  <2> QED BY <2>2, <2>4 DEF Counted
<1>8. CASE Put(v, n) /\ Spill(v, n)
  <2>1. /\ scratch_bits' = Filled(n) - WordBits /\ data' = Store(word_index, 1, Merged(v))
        /\ word_index' = word_index + 1 /\ bits_written' = bits_written + n
    BY <1>8 DEF Put, Spill
  <2>2. Kept
    BY <1>2, <1>3, <1>5, <2>1, WordKept
  <2>3. word_index' * WordBits = e
    BY <2>1
  <2> HIDE DEF b, e
  <2>4. ASSUME n <= WordBits
        PROVE  scratch_bits' <= WordBits-1 /\ bits_written' <= word_index' * WordBits + scratch_bits'
    BY <1>1, <1>4, <2>1, <2>3, <2>4
  <2> QED BY <2>2, <2>4 DEF Counted
<1> QED BY <1>6, <1>7, <1>8 DEF Put

\* A step that leaves what is stored alone.
LEMMA NothingStored ==
  ASSUME UNCHANGED stored
  PROVE  Final /\ Kept /\ (Ranges => Ranges') /\ (Counted => Counted')
BY DEF stored, Final, Kept, Contents, Ranges, Counted

\* write_bits with any value and width.
LEMMA WriteBitsBounded ==
  ASSUME Bounded, NEW v \in SUBSET (0 .. MaxBits-1), NEW n \in Nat, WriteBits(v, n)
  PROVE  Bounded' /\ Final /\ (Counted => Kept /\ (n <= WordBits => Counted'))
<1>1. Looping'
  BY DEF WriteBits, copying, Bounded, Looping
<1>2. CASE Trap
  <2>1. UNCHANGED stored
    BY <1>2 DEF Trap, writer
  <2> QED BY <1>1, <2>1, NothingStored DEF Bounded
<1>3. CASE Put(v, n) \/ PutPanics(v, n)
  BY <1>1, <1>3, PutBounded, PutCounts DEF Bounded
<1> QED BY <1>2, <1>3 DEF WriteBits

\* write_align writes less than a byte of zeros.
LEMMA WriteAlignBounded ==
  ASSUME Bounded, WriteAlign
  PROVE  Bounded' /\ Final /\ (Counted => Kept /\ Counted')
<1>1. CASE AlignBits # 0 /\ WriteBits({}, AlignBits)
  <2>1. AlignBits \in 0 .. ByteBits - 1
    BY WidthsAssumption, BufferAssumption, Aligned DEF Bounded, Ranges, AlignBits
  <2>2. AlignBits \in Nat /\ AlignBits <= WordBits
    BY <2>1, WidthsAssumption, BufferAssumption
  <2> QED BY <1>1, <2>2, WriteBitsBounded
<1>2. CASE UNCHANGED <<writer, copying>>
  <2>1. UNCHANGED stored
    BY <1>2 DEF writer
  <2> QED BY <1>2, <2>1, NothingStored DEF copying, Bounded, Looping
<1> QED BY <1>1, <1>2 DEF WriteAlign

\* write_bytes is called with any number of bytes.
LEMMA WriteBytesBounded ==
  ASSUME Bounded, NEW v \in SUBSET Nat, NEW k \in Nat, WriteBytes(v, k)
  PROVE  Bounded' /\ Final /\ (Counted => Kept /\ Counted')
<1> USE WidthsAssumption, BufferAssumption
<1>1. CASE Trap /\ UNCHANGED copying
  <2>1. UNCHANGED stored
    BY <1>1 DEF Trap, writer
  <2> QED BY <1>1, <2>1, NothingStored DEF copying, Bounded, Looping
<1>2. CASE /\ phase' = "head" /\ todo' = v /\ left' = k
           /\ head' = (IF HeadBytes > k THEN k ELSE HeadBytes) /\ UNCHANGED stored
  <2>1. HeadBytes \in Nat
    <3>1. WordBytes \in Nat \ {0}
      <4>1. WordBytes # 0
        <5>1. WordBits > 0 /\ 0 * ByteBits = 0
          OBVIOUS
        <5> QED BY <5>1
      <4> QED BY <4>1
    <3> DEFINE r == bits_written % WordBits
    <3>2. r \in Nat
      BY DEF Bounded, Ranges
    <3> HIDE DEF r
    <3>3. r \div ByteBits \in Nat
      BY <3>2, DivMod
    <3> DEFINE a == WordBytes - (r \div ByteBits)
    <3>4. a \in Int
      BY <3>1, <3>3
    <3> HIDE DEF a
    <3>5. a % WordBytes \in Nat
      BY <3>1, <3>4
    <3> QED BY <3>5 DEF HeadBytes, a, r
  <2>2. Looping'
    BY <1>2, <2>1 DEF Looping
  <2> QED BY <1>2, <2>2, NothingStored DEF Bounded
<1> QED BY <1>1, <1>2 DEF WriteBytes

\* One byte of write_bytes.
LEMMA PutByteBounded ==
  ASSUME Bounded, NEW h \in Nat, left > 0, phase = "head" => h <= left - 1, PutByte(h)
  PROVE  Bounded' /\ Final /\ (Counted => Kept /\ Counted')
<1> USE WidthsAssumption, BufferAssumption
<1>1. Byte \in SUBSET (0 .. MaxBits-1) /\ ByteBits \in Nat /\ ByteBits <= WordBits
  <2>1. todo \subseteq Nat
    BY DEF Bounded, Looping
  <2>2. \A i \in Nat : i < ByteBits => i \in 0 .. MaxBits-1
    OBVIOUS
  <2>3. Byte \subseteq 0 .. MaxBits-1
    BY <2>1, <2>2 DEF Byte
  <2>4. ByteBits \in Nat /\ ByteBits <= WordBits
    OBVIOUS
  <2> QED BY <2>3, <2>4
<1>2. CASE Trap /\ Return
  <2>1. UNCHANGED stored
    BY <1>2 DEF Trap, writer
  <2> QED BY <1>2, <2>1, NothingStored DEF Return, Bounded, Looping
<1>3. ASSUME Put(Byte, ByteBits) \/ PutPanics(Byte, ByteBits)
      PROVE  Ranges' /\ Final /\ (Counted => Kept /\ Counted')
  BY <1>1, <1>3, PutBounded, PutCounts DEF Bounded
<1>4. CASE PutPanics(Byte, ByteBits) /\ Abandon
  BY <1>3, <1>4 DEF Abandon, Return, Bounded, Looping
<1>5. CASE /\ Put(Byte, ByteBits) /\ todo' = Shr(todo, ByteBits) /\ left' = left - 1 /\ head' = h
           /\ UNCHANGED phase
  <2>1. todo' \subseteq Nat
    <3>1. todo \in SUBSET Int /\ ByteBits \in Int
      BY DEF Bounded, Looping
    <3> QED BY <1>5, <3>1, Shifted
  <2> QED BY <1>3, <1>5, <2>1 DEF Bounded, Looping
<1> QED BY <1>2, <1>4, <1>5 DEF PutByte

\* The straight copy of whole words.  What the scratch holds is all that it can lose.
LEMMA CopyWordsBounded ==
  ASSUME Bounded, CopyWords
  PROVE  /\ Bounded' /\ Final
         /\ Counted => Counted' /\ (Kept \/ (scratch_bits # 0 /\ KeptInMemory))
<1> USE WidthsAssumption, BufferAssumption
<1>1. CASE (Trap \/ UNCHANGED stored) /\ Return
  <2>1. UNCHANGED stored
    BY <1>1 DEF Trap, writer
  <2> QED BY <1>1, <2>1, NothingStored DEF Return, Bounded, Looping
<1>2. CASE NumWords = 0 /\ UNCHANGED <<writer, todo, left>> /\ UNCHANGED head /\ phase' = "tail"
  <2>1. UNCHANGED stored
    BY <1>2 DEF writer
  <2> QED BY <1>2, <2>1, NothingStored DEF Bounded, Looping
<1>3. CASE /\ NumWords > 0 /\ ~CopyFails /\ UNCHANGED head /\ phase' = "tail"
           /\ data' = Store(word_index, NumWords, {i \in todo : i < CopyBits})
           /\ todo' = Shr(todo, CopyBits) /\ left' = left - NumWords * WordBytes
           /\ bits_written' = bits_written + CopyBits
           /\ word_index' = word_index + NumWords
           /\ scratch' = {} /\ UNCHANGED scratch_bits
  <2> DEFINE n == NumWords
             b == word_index * WordBits
             c == n * WordBits
             e == (word_index + n) * WordBits
  <2>1. n \in Nat /\ n * WordBytes <= left
    <3>1. WordBytes \in Nat \ {0}
      <4>1. WordBytes # 0
        <5>1. WordBits > 0 /\ 0 * ByteBits = 0
          OBVIOUS
        <5> QED BY <5>1
      <4> QED BY <4>1
    <3>2. left \in Nat
      BY DEF Bounded, Looping
    <3> HIDE DEF n
    <3>3. left \div WordBytes \in Nat /\ left % WordBytes \in 0 .. WordBytes - 1
          /\ left = (left \div WordBytes) * WordBytes + (left % WordBytes)
      BY <3>1, <3>2, DivMod
    <3> DEFINE m == left \div WordBytes
    <3>4. n = m
      BY DEF n, NumWords
    <3> HIDE DEF m
    <3>5. m * WordBytes \in Nat /\ m \in Nat
      BY <3>1, <3>3 DEF m
    <3> QED BY <3>2, <3>3, <3>4, <3>5 DEF m
  <2>2. CopyBits = c
    BY DEF CopyBits
  <2>3. e <= num_bits
    BY <1>3 DEF CopyFails, InBounds
  <2> HIDE DEF n
  <2>4. word_index \in Nat /\ b \in Nat /\ c \in Nat /\ e \in Nat /\ e = b + c
    BY <2>1 DEF Bounded, Ranges
  <2>5. {i \in todo : i < c} \in SUBSET (0 .. n * WordBits - 1)
    <3>1. todo \subseteq Nat
      BY DEF Bounded, Looping
    <3>2. c \in Nat
      BY <2>4
    <3> HIDE DEF c
    <3>3. \A i \in Nat : i < c => i \in 0 .. c - 1
      BY <3>2
    <3>4. {i \in todo : i < c} \subseteq 0 .. c - 1
      BY <3>1, <3>3
    <3> QED BY <3>4 DEF c
  <2>6. Final
    BY <1>3, <2>1, <2>2, <2>4, <2>5, StoreIsFinal DEF n
  <2>7. word_index' = word_index + n /\ word_index' * WordBits = e
    BY <1>3 DEF n
  <2>8. bits_written \in Nat /\ scratch_bits \in Nat /\ scratch \subseteq Word
    BY DEF Bounded, Ranges
  <2>k. KeptInMemory
    <3>1. scratch' \subseteq Word
      BY <1>3
    <3>2. Contents = Held(data, scratch, b) /\ Contents' = Held(data', scratch', e)
      BY <2>7 DEF Contents
    <3>3. ASSUME NEW x \in Int
          PROVE  x \in data' <=> IF b <= x /\ x < e THEN x - b \in {i \in todo : i < c} ELSE x \in data
      BY <1>3, <2>1, <2>2, <2>4, <2>5, Stored DEF n
    <3>4. \A x \in Word : x >= 0
      BY DEF Word
    <3> HIDE DEF b, c, e
    <3>5. ASSUME NEW i \in 0 .. b - 1 PROVE i \in Contents <=> i \in Contents'
      <4>1. i \in Int /\ i < b /\ i < e /\ ~(i - b >= 0) /\ ~(i - e >= 0)
        BY <2>4
      <4>2. i - b \notin scratch /\ i - e \notin scratch'
        BY <2>8, <3>1, <3>4, <4>1
      <4>3. i \in Held(data, scratch, b) <=> (i \in data /\ i < b) \/ i - b \in scratch
        BY <2>4, <2>8, <4>1, InHeld
      <4>4. i \in Held(data', scratch', e) <=> (i \in data' /\ i < e) \/ i - e \in scratch'
        BY <2>4, <3>1, <4>1, InHeld
      <4>5. i \in data' <=> i \in data
        BY <2>4, <3>3, <4>1
      <4> QED BY <3>2, <4>1, <4>2, <4>3, <4>4, <4>5
    <3> QED BY <3>5 DEF KeptInMemory, b
  <2>a. Counted /\ scratch_bits = 0 => Kept
    <3>1. b \in Nat /\ (Counted /\ scratch_bits = 0 => bits_written <= b)
      BY <2>4 DEF Counted
    <3>2. \A i \in 0 .. b - 1 : i \in Contents <=> i \in Contents'
      BY <2>k DEF KeptInMemory
    <3> HIDE DEF b
    <3>3. Counted /\ scratch_bits = 0 => 0 .. bits_written-1 \subseteq 0 .. b - 1
      BY <2>8, <3>1
    <3> HIDE DEF Contents
    <3> QED BY <3>2, <3>3 DEF Kept
  <2>9. Ranges' /\ (Counted => Counted')
    <3>0. bits_written' = bits_written + c /\ scratch_bits' = scratch_bits /\ word_index' \in Nat
      BY <1>3, <2>1, <2>2, <2>4, <2>7
    <3>1. Counted => scratch_bits <= WordBits-1 /\ bits_written <= b + scratch_bits
      BY DEF Counted
    <3> HIDE DEF b, c, e
    <3>2. bits_written' \in Nat /\ word_index' * WordBits <= num_bits
      BY <2>3, <2>4, <2>7, <2>8, <3>0
    <3>3. Counted => /\ scratch_bits' <= WordBits-1
                     /\ bits_written' <= word_index' * WordBits + scratch_bits'
      BY <2>4, <2>7, <2>8, <3>0, <3>1
    <3>4. scratch' \subseteq Word /\ scratch_bits' \in Nat
      BY <1>3, <2>8
    <3>5. Ranges'
      BY <3>0, <3>2, <3>4 DEF Ranges
    <3> QED BY <3>3, <3>5 DEF Counted
  <2>10. todo' \subseteq Nat
    <3>1. todo \in SUBSET Int /\ c \in Int
      BY <2>4 DEF Bounded, Looping
    <3>2. todo' = Shr(todo, c)
      BY <1>3, <2>2
    <3> QED BY <3>1, <3>2, Shifted
  <2>11. left' \in Nat
    <3>1. left' = left - n * WordBytes /\ left \in Nat
      BY <1>3 DEF n, Bounded, Looping
    <3> DEFINE k == n * WordBytes
    <3>2. k \in Nat /\ k <= left
      BY <2>1
    <3>3. left' = left - k
      BY <3>1
    <3> HIDE DEF k
    <3> QED BY <3>1, <3>2, <3>3
  <2> QED BY <1>3, <2>6, <2>k, <2>a, <2>9, <2>10, <2>11 DEF Bounded, Looping
<1> QED BY <1>1, <1>2, <1>3 DEF CopyWords, Abandon

\* A flush stores the scratch whole, or panics with nothing changed.
LEMMA FlushBitsBounded ==
  ASSUME Bounded, FlushBits
  PROVE  /\ Bounded' /\ Final
         /\ Counted => /\ Kept /\ Counted'
                       /\ outcome' = "ok" => /\ bits_written' <= word_index' * WordBits
                                             /\ word_index' * WordBits <= num_bits
<1> USE WidthsAssumption, BufferAssumption
<1> DEFINE b == word_index * WordBits
           e == (word_index + 1) * WordBits
<1>1. /\ b \in Nat /\ e \in Nat /\ e = b + WordBits /\ b <= num_bits
      /\ scratch_bits \in Nat /\ bits_written \in Nat /\ word_index \in Nat
      /\ scratch \subseteq Word
  BY DEF Bounded, Ranges
<1>c. Counted => scratch_bits <= WordBits-1 /\ bits_written <= b + scratch_bits
  BY DEF Counted
<1>2. Looping'
  BY DEF FlushBits, copying, Bounded, Looping
<1>3. CASE /\ InBounds(word_index, 1) /\ data' = Store(word_index, 1, scratch)
           /\ scratch' = {} /\ scratch_bits' = 0 /\ word_index' = word_index + 1
           /\ UNCHANGED bits_written
  <2>1. scratch' \subseteq Word /\ scratch \in SUBSET Word
    BY <1>1, <1>3
  <2>2. Counted => Kept
    BY <1>1, <1>3, <2>1, WordKept DEF Bounded
  <2>3. Final
    <3>1. 1 * WordBits = WordBits
      OBVIOUS
    <3>2. scratch \in SUBSET (0 .. 1 * WordBits - 1) /\ 1 \in Nat
      BY <2>1, <3>1 DEF Word
    <3> QED BY <1>1, <1>3, <3>2, StoreIsFinal
  <2>4. word_index' * WordBits = e /\ e <= num_bits
    BY <1>3 DEF InBounds
  <2> HIDE DEF b, e
  <2>5. word_index' \in Nat /\ bits_written' \in Nat /\ scratch_bits' \in Nat
    BY <1>1, <1>3
  <2>6. Counted => /\ bits_written' <= word_index' * WordBits /\ word_index' * WordBits <= num_bits
                   /\ bits_written' <= word_index' * WordBits + scratch_bits'
                   /\ scratch_bits' <= WordBits-1
    BY <1>1, <1>c, <1>3, <2>4
  <2>7. Ranges'
    BY <2>1, <2>4, <2>5 DEF Ranges
  <2> QED BY <1>2, <2>2, <2>3, <2>6, <2>7 DEF Bounded, Counted
<1>4. CASE UNCHANGED writer /\ (outcome' = "ok" => scratch_bits = 0)
  <2>1. UNCHANGED stored
    BY <1>4 DEF writer
  <2>2. Counted /\ outcome' = "ok"
          => bits_written' <= word_index' * WordBits /\ word_index' * WordBits <= num_bits
    <3>1. word_index' * WordBits = b /\ bits_written' = bits_written
      BY <2>1 DEF stored
    <3> HIDE DEF b
    <3> QED BY <1>1, <1>c, <1>4, <3>1
  <2> QED BY <1>2, <2>1, <2>2, NothingStored DEF Bounded
<1>5. outcome' = "panic" => outcome' # "ok"
  OBVIOUS
<1> QED BY <1>3, <1>4, <1>5 DEF FlushBits, Panic

\* Every step keeps the invariant and reaches back into no stored word; until a width above that
\* of a word is passed, it changes no bit that was written, but for the straight copy.
LEMMA NextBounded ==
  ASSUME Promised, MisuseNext
  PROVE  Promised' /\ Final /\ (~wide => Kept \/ (CopyWords /\ scratch_bits # 0 /\ KeptInMemory))
<1> USE WidthsAssumption, BufferAssumption
<1>0. Bounded
  BY DEF Promised
<1>1. SUFFICES /\ Bounded' /\ Final
               /\ Counted => Kept \/ (CopyWords /\ scratch_bits # 0 /\ KeptInMemory)
               /\ Counted /\ ~wide' => Counted'
  <2>1. ~wide' => ~wide
    BY DEF MisuseNext, WriteAnyhow
  <2> QED BY <2>1 DEF Promised
<1>2. ASSUME NEW n \in AskedWidths, NEW v \in SUBSET (0 .. MaxBits-1), WriteBits(v, n),
             wide' = (wide \/ n > WordBits)
      PROVE  Bounded' /\ Final /\ (Counted => Kept) /\ (Counted /\ ~wide' => Counted')
  <2>1. n \in Nat
    BY AskedAssumption, CountAssumption
  <2>2. ~wide' => n <= WordBits
    <3>1. ~wide' => ~(n > WordBits)
      BY <1>2, Zenon
    <3> QED BY <2>1, <3>1
  <2> QED BY <1>0, <1>2, <2>1, <2>2, WriteBitsBounded
<1>3. CASE WriteAlign
  BY <1>0, <1>3, WriteAlignBounded
<1>4. CASE \E k \in 0 .. (num_bits \div ByteBits) + 1 : \E p \in Payloads : WriteBytes(Payload(p, k), k)
  <2>1. PICK k \in 0 .. (num_bits \div ByteBits) + 1, p \in Payloads : WriteBytes(Payload(p, k), k)
    BY <1>4
  <2>2. k \in Nat
    <3> DEFINE m == num_bits \div ByteBits
    <3>1. m \in Nat
      BY DivMod
    <3>2. k \in 0 .. m + 1
      OBVIOUS
    <3> HIDE DEF m
    <3> QED BY <3>1, <3>2
  <2>3. Payload(p, k) \in SUBSET Nat
    <3>1. p \subseteq Nat
      BY <2>1
    <3> QED BY <3>1 DEF Payload
  <2> QED BY <1>0, <2>1, <2>2, <2>3, WriteBytesBounded
<1>5. CASE FlushBits
  BY <1>0, <1>5, FlushBitsBounded
<1>6. CASE HeadByte
  <2>1. phase = "head" /\ head > 0 /\ PutByte(head - 1)
    BY <1>6 DEF HeadByte
  <2>2. head - 1 \in Nat /\ left > 0 /\ head - 1 <= left - 1
    BY <1>0, <2>1 DEF Bounded, Looping
  <2> QED BY <1>0, <2>1, <2>2, PutByteBounded
<1>7. CASE CopyWords
  BY <1>0, <1>7, CopyWordsBounded
<1>8. CASE TailByte
  <2>1. phase = "tail" /\ left > 0 /\ PutByte(head) /\ head \in Nat
    BY <1>0, <1>8 DEF TailByte, Bounded, Looping
  <2> QED BY <1>0, <2>1, PutByteBounded
<1>9. CASE BytesDone
  <2>1. UNCHANGED stored /\ Return
    BY <1>9 DEF BytesDone, writer
  <2> QED BY <1>0, <2>1, NothingStored DEF Return, Bounded, Looping
<1> QED BY <1>2, <1>3, <1>4, <1>5, <1>6, <1>7, <1>8, <1>9 DEF MisuseNext, WriteAnyhow, Copying

\* The invariant holds of a new writer.
LEMMA InitBounded == MisuseInit => Promised
<1>1. WordBits > 0 /\ 0 * WordBits = 0 /\ num_bits \in Nat
  BY WidthsAssumption, BufferAssumption
<1> QED BY <1>1, WidthsAssumption, BufferAssumption
        DEF MisuseInit, Init, Promised, Bounded, Ranges, Counted, Looping

\* It holds whatever the callers do.
LEMMA AlwaysBounded == MisuseSpec => []Promised
<1>1. Promised /\ [MisuseNext]_<<vars, wide>> => Promised'
  <2>1. Promised /\ UNCHANGED <<vars, wide>> => Promised'
    BY DEF vars, writer, stored, copying, Promised, Bounded, Ranges, Counted, Looping
  <2> QED BY <2>1, NextBounded
<1> QED BY <1>1, InitBounded, PTL DEF MisuseSpec

\* No sequence of calls, however careless and of any widths, stores a word twice or touches memory
\* past those stored.
THEOREM StoredWordsAreFinal == MisuseSpec => StoredIsFinal
<1>1. Promised /\ [MisuseNext]_<<vars, wide>>
        => [\A i \in 0 .. num_bits-1 : \/ word_index * WordBits <= i /\ i < word_index' * WordBits
                                       \/ i \in data <=> i \in data']_vars
  BY NextBounded DEF Final
<1> QED BY <1>1, AlwaysBounded, PTL DEF MisuseSpec, StoredIsFinal

\* Until a width above that of a word is passed, a flush that returns has in memory every bit that
\* was counted, of any buffer: what did not fit is never sent.
THEOREM FlushedBitsAreInMemory == MisuseSpec => FlushedIsInMemory
<1>1. Promised /\ [MisuseNext]_<<vars, wide>>
        => [~wide /\ FlushBits /\ outcome' = "ok"
              => bits_written' <= word_index' * WordBits /\ word_index' * WordBits <= num_bits]_vars
  BY FlushBitsBounded DEF Promised
<1> QED BY <1>1, AlwaysBounded, PTL DEF MisuseSpec, FlushedIsInMemory

\* Until then no call changes a bit that was counted, but for a straight copy that begins with bits
\* in the scratch; and that changes none that was stored.
THEOREM WrittenBitsStay == MisuseSpec => OnlyLaterBitsChange
<1>1. Promised /\ [MisuseNext]_<<vars, wide>>
        => [~wide => \/ \A i \in 0 .. bits_written-1 : i \in Contents <=> i \in Contents'
                     \/ /\ CopyWords /\ scratch_bits # 0
                        /\ \A i \in 0 .. word_index * WordBits - 1 :
                             i \in Contents <=> i \in Contents']_vars
  BY NextBounded DEF Kept, KeptInMemory
<1> QED BY <1>1, AlwaysBounded, PTL DEF MisuseSpec, OnlyLaterBitsChange
=============================================================================
