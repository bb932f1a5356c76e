----------------------------- MODULE ReadStream -----------------------------
(***************************************************************************)
(* The read stream of src/read_stream.rs with the serialize methods of     *)
(* src/stream.rs it shares: the trust boundary.  A packet is the set of    *)
(* positions of its one bits, and a value is the number its bits spell,    *)
(* least significant first (read_bits of the bit reader).                  *)
(*                                                                         *)
(* A method is an operator from the stream before a call to the stream     *)
(* after it, so that methods call methods as they do in the code.  Such a  *)
(* stream is a record: at (bits read), failed (the latch, Ok for None),    *)
(* ret (what the call returned), value (what it read into a local), dest   *)
(* (the caller's destination), dirty (a one was skipped as padding),       *)
(* trapped (an assertion on the read path failed).                         *)
(***************************************************************************)
EXTENDS Format

CONSTANTS Old,                  \* what a destination holds before the call
          MaxDepth              \* bound: nested objects

CONSTANTS Packets,              \* [bits, ones, fits]: what may arrive, and whether the buffer holds it
          Widths, WideWidths,   \* bit counts of serialize_bits and serialize_bits64, bad ones included
          Ranges,               \* <<min, max>> of ranged integers, bad ones included
          Formats,              \* [integer, fraction, storage, signed, min, max] of fixed point
          Quanta,               \* [declared, max, top] of compressed floats: a code above top overflows
          Sizes,                \* buffer sizes of strings
          Lengths,              \* lengths of byte arrays
          Previous,             \* previous values of int_relative
          CallerReasons         \* the reasons a caller refuses with

Ok == "ok"
Reasons == {"past_end", "value_out_of_range", "nonzero_padding", "trailing_data", "embedded_nul",
            "invalid_utf8", "non_finite_float", "non_canonical", "rejected"}

ASSUME StreamAssumption ==
  /\ MaxDepth \in Nat /\ CallerReasons \subseteq Reasons
  /\ Sizes \subseteq Nat /\ Lengths \subseteq Nat /\ Previous \subseteq Int
  /\ \A f \in Quanta : f.max \in Nat /\ f.top \in Nat
  /\ \A p \in Packets : p.bits \in Nat /\ p.bits % ByteBits = 0 /\ p.fits \in BOOLEAN

VARIABLES packet, num_bits,     \* what arrived, and how many bits of it there are
          bits_read, failed,    \* the state of the stream
          call, result, dest,   \* of the last call: what it was, returned, and left in the destination
          depth,                \* objects being serialized
          dirty, ended,         \* history: a one was skipped as padding; an end was accepted
          trapped               \* history: an assertion on the read path failed

vars == <<packet, num_bits, bits_read, failed, call, result, dest, depth, dirty, ended, trapped>>

Bit(i) == IF i \in packet THEN 1 ELSE 0

\* the number that the n bits from at spell, from the top bit down
Value(at, n) == LET top[k \in 0..n] == IF k = 0 THEN 0 ELSE 2 * top[k-1] + Bit(at + n - k)
                IN  top[n]

-----------------------------------------------------------------------------
(* The latch *)

\* mutant: the last reason is kept
LatchLast(r, error) == [r EXCEPT !.failed = error, !.ret = error]

Latch(r, error) == LET first == IF r.failed = Ok THEN error ELSE r.failed
                   IN  [r EXCEPT !.failed = first, !.ret = first]

Refusal(r) == IF r.failed # Ok THEN r.failed ELSE "past_end"

\* the gate of a read that reaches no bits, and of an object
Gate(r) == [r EXCEPT !.ret = r.failed]

\* a call that succeeded stores what it read, and one that refused stores nothing
Deliver(r) == IF r.ret = Ok THEN [r EXCEPT !.dest = r.value] ELSE r

-----------------------------------------------------------------------------
(* The bit reader, and the primitives of the read stream *)

ReadBits(r, n) == [r EXCEPT !.value = Value(r.at, n), !.at = r.at + n,
                            !.trapped = r.trapped \/ n \notin 1..MaxBits \/ r.at + n > num_bits]

AlignBits(r) == (ByteBits - (r.at % ByteBits)) % ByteBits
Remaining(r) == num_bits - r.at

Refuses(r, n) == r.failed # Ok \/ r.at + n > num_bits

\* mutant: any width is read
SerializeBitsAnyWidth(r, n) == IF Refuses(r, n) THEN Latch(r, Refusal(r)) ELSE ReadBits(r, n)

SerializeBits(r, n) ==
  IF Refuses(r, n) \/ n \notin 1..MaxBits
  THEN Latch(r, IF r.failed = Ok /\ n \notin 1..MaxBits THEN "value_out_of_range" ELSE Refusal(r))
  ELSE ReadBits(r, n)

\* mutant: the padding is skipped unseen
SkipZerosUnseen(r, n) ==
  [ReadBits(r, n) EXCEPT !.dirty = r.dirty \/ packet \cap r.at .. r.at + n - 1 # {}]

\* padding is read and refused unless it is all zeros
SkipZeros(r, n) ==
  LET ones == packet \cap r.at .. r.at + n - 1
      q == [ReadBits(r, n) EXCEPT !.dirty = r.dirty \/ ones # {}]
  IN  IF ones # {} THEN Latch(q, "nonzero_padding") ELSE q

SerializeAlign(r) ==
  IF Refuses(r, AlignBits(r)) THEN Latch(r, Refusal(r))
  ELSE IF AlignBits(r) = 0 THEN r ELSE SkipZeros(r, AlignBits(r))

\* read_byte_slice asserts alignment and room
ReadByteSlice(r, k) ==
  [r EXCEPT !.value = [i \in 1..k |-> Value(r.at + (i-1) * ByteBits, ByteBits)],
            !.at = r.at + k * ByteBits,
            !.trapped = r.trapped \/ AlignBits(r) # 0 \/ r.at + k * ByteBits > num_bits]

SerializeBytes(r, k) ==
  LET q == SerializeAlign(r) IN
  IF q.ret # Ok THEN q
  ELSE IF k > Remaining(q) \div ByteBits THEN Latch(q, "past_end")
  ELSE Deliver(ReadByteSlice(q, k))

\* mutant: a whole byte may remain
SerializeEndEarly(r) ==
  IF r.failed # Ok THEN Gate(r)
  ELSE IF Remaining(r) > ByteBits THEN Latch(r, "trailing_data")
  ELSE IF Remaining(r) % ByteBits = 0 THEN r ELSE SkipZeros(r, Remaining(r) % ByteBits)

SerializeEnd(r) ==
  IF r.failed # Ok THEN Gate(r)
  ELSE IF Remaining(r) >= ByteBits THEN Latch(r, "trailing_data")
  ELSE IF Remaining(r) % ByteBits = 0 THEN r ELSE SkipZeros(r, Remaining(r) % ByteBits)

-----------------------------------------------------------------------------
(* The serialize methods shared by the streams, as a read stream runs them *)

\* mutant: the groups change places
ThenLow(r, n, low) == LET q == SerializeBits(r, n) IN
  IF r.ret # Ok THEN r ELSE IF q.ret # Ok THEN q ELSE [q EXCEPT !.value = q.value + r.value * 2^n]

\* the next group of a value, above the low bits that r has read
Then(r, n, low) == LET q == SerializeBits(r, n) IN
  IF r.ret # Ok THEN r ELSE IF q.ret # Ok THEN q ELSE [q EXCEPT !.value = r.value + @ * 2^low]

Low(r) == SerializeBits(r, MaxBits)

\* serialize_offset128, and the groups of serialize_int64 and serialize_bits64
SerializeOffset(r, n) ==
  LET q == CASE n <= MaxBits -> SerializeBits(r, n)
             [] n > MaxBits /\ n <= 2*MaxBits -> Then(Low(r), n - MaxBits, MaxBits)
             [] n > 2*MaxBits /\ n <= 3*MaxBits ->
                  Then(Then(Low(r), MaxBits, MaxBits), n - 2*MaxBits, 2*MaxBits)
             [] OTHER -> Then(Then(Then(Low(r), MaxBits, MaxBits), MaxBits, 2*MaxBits),
                              n - 3*MaxBits, 3*MaxBits)
  IN  [q EXCEPT !.trapped = @ \/ n \notin 1 .. 4*MaxBits]

\* mutant: values ride in the headroom
OffsetUnchecked(r, min, range) == LET q == SerializeOffset(r, BitsRequired(range)) IN
  IF q.ret # Ok THEN q ELSE [q EXCEPT !.value = min + @]

\* an offset in 0..range above min: nothing rides in the headroom of its bits
Offset(r, min, range) == LET q == SerializeOffset(r, BitsRequired(range)) IN
  IF q.ret # Ok THEN q
  ELSE IF q.value > range THEN Latch(q, "value_out_of_range")
  ELSE [q EXCEPT !.value = min + @]

\* serialize_int, serialize_int64 and serialize_int128
SerializeInt(r, min, max) ==
  IF min > max THEN Latch(r, "value_out_of_range")
  ELSE IF min = max THEN [Gate(r) EXCEPT !.value = min]
  ELSE Offset(r, min, max - min)

SerializeBits64(r, n) ==
  IF n \notin 1 .. 2*MaxBits THEN Latch(r, "value_out_of_range") ELSE SerializeOffset(r, n)

SerializeU128(r) ==
  LET lo == SerializeBits64(r, 2*MaxBits)
      hi == SerializeBits64(lo, 2*MaxBits)
  IN  IF lo.ret # Ok THEN lo ELSE IF hi.ret # Ok THEN hi
      ELSE [hi EXCEPT !.value = lo.value + @ * 2^(2*MaxBits)]

SerializeFloat(r, n, fraction) == LET q == SerializeBits64(r, n) IN
  IF q.ret = Ok /\ ~Finite(q.value, n, fraction) THEN Latch(q, "non_finite_float") ELSE q

SerializeCompressedFloat(r, f) ==
  LET q == SerializeBits(r, BitsRequired(f.max)) IN
  IF ~f.declared THEN Latch(r, "value_out_of_range")
  ELSE IF q.ret # Ok THEN q
  ELSE IF q.value > f.max THEN Latch(q, "value_out_of_range")
  ELSE IF q.value > f.top THEN Latch(q, "non_finite_float") ELSE q

\* an unsigned value stored in an integer of so many bits
Wrap(v, bits, signed) == LET u == v % 2^bits IN IF signed /\ u >= 2^(bits-1) THEN u - 2^bits ELSE u

SerializeFixed(r, f) ==
  LET q == SerializeInt(r, f.min * 2^f.fraction, f.max * 2^f.fraction) IN
  IF ~FixedDeclared(f) THEN Latch(r, "value_out_of_range")
  ELSE IF q.ret # Ok THEN q ELSE [q EXCEPT !.value = Wrap(@, f.storage, f.signed)]

Accept(r, previous, v) ==
  IF InDomain(previous, v) THEN [r EXCEPT !.value = v] ELSE Latch(r, "value_out_of_range")

\* the ladder of int_relative asks one question a rung, the one bit tier first, until the answer
\* is yes (1) or the read refuses; a reader past the last rung has read only zeros
Rungs == 0 .. Len(Tiers) + 1
Climbed(r) == {n \in Rungs : \A i \in 0 .. n-1 : ~Refuses(r, i+1) /\ Bit(r.at + i) = 0}
Rung(r) == CHOOSE n \in Climbed(r) : n + 1 \notin Climbed(r)

BoundedTier(r, t, previous) ==
  LET yes == SerializeBits(r, 1)
      q == SerializeInt(yes, TierFirst(t), Tiers[t])
  IN  IF yes.ret # Ok THEN yes
      ELSE IF t = 0 THEN Accept(yes, previous, previous + 1)
      ELSE IF q.ret # Ok THEN q ELSE Accept(q, previous, previous + q.value)

\* mutant: any difference
AbsoluteTierAny(r, previous) == LET q == Low(r) IN
  IF q.ret # Ok THEN q
  ELSE IF ~InDomain(previous, q.value) THEN Latch(q, "value_out_of_range") ELSE q

\* the absolute tier is for differences no other tier takes
AbsoluteTier(r, previous) == LET q == Low(r) IN
  IF q.ret # Ok THEN q
  ELSE IF ~InDomain(previous, q.value) THEN Latch(q, "value_out_of_range")
  ELSE IF q.value - previous <= Tiers[Len(Tiers)] THEN Latch(q, "non_canonical") ELSE q

SerializeIntRelative(r, previous) ==
  LET t == Rung(r)
      s == [r EXCEPT !.at = r.at + t]
  IN  IF previous < 0 THEN Latch(r, "value_out_of_range")
      ELSE IF t > Len(Tiers) THEN AbsoluteTier(s, previous) ELSE BoundedTier(s, t, previous)

Text(r, length) == LET q == ReadByteSlice(r, length) IN
  IF HasNul(q.value) THEN Latch(q, "embedded_nul")
  ELSE IF ~WellFormed(q.value) THEN Latch(q, "invalid_utf8") ELSE q

SerializeString(r, size) ==
  LET n == SerializeInt(r, 0, size - 1)
      q == SerializeAlign(n)
  IN  IF size \notin 1..MaxSize THEN Latch(r, "value_out_of_range")
      ELSE IF n.ret # Ok THEN n
      ELSE IF q.ret # Ok THEN q
      ELSE IF n.value > Remaining(q) \div ByteBits THEN Latch(q, "past_end")
      ELSE Text(q, n.value)

-----------------------------------------------------------------------------
(* The reader and its caller *)

\* the types of the bounds: i128 for integers, i64 for the units of fixed point, whose range is
\* an i128, i32 for the length of a string
ASSUME DeclarationAssumption ==
  /\ \A f \in Formats : /\ f.integer \in Nat /\ f.fraction \in Nat /\ f.storage \in Nat
                        /\ f.min \in -(2^(2*MaxBits-1)) .. 2^(2*MaxBits-1) - 1
                        /\ f.max \in -(2^(2*MaxBits-1)) .. 2^(2*MaxBits-1) - 1
  /\ \A m \in Ranges : m \in Int \X Int /\ (m[1] < m[2] => BitsRequired(m[2] - m[1]) \in 1 .. 4*MaxBits)
  /\ \A f \in Formats : FixedDeclared(f) /\ f.min # f.max
       => BitsRequired(f.max * 2^f.fraction - f.min * 2^f.fraction) \in 1 .. 4*MaxBits

\* ReadStream::new: a byte count past the buffer is refused from birth
Init == \E p \in Packets :
  /\ packet = p.ones /\ num_bits = (IF p.fits THEN p.bits ELSE 0)
  /\ failed = (IF p.fits THEN Ok ELSE "value_out_of_range")
  /\ bits_read = 0 /\ call = [op |-> "new"] /\ result = failed /\ dest = Old
  /\ depth = 0 /\ dirty = FALSE /\ ended = FALSE /\ trapped = FALSE

\* the stream a call finds
Stream == [at |-> bits_read, failed |-> failed, ret |-> Ok, value |-> 0, dest |-> Old,
           dirty |-> dirty, trapped |-> trapped]

Return(c, q) ==
  /\ bits_read' = q.at /\ failed' = q.failed /\ result' = q.ret /\ dest' = q.dest
  /\ dirty' = q.dirty /\ trapped' = q.trapped
  /\ call' = c /\ UNCHANGED <<packet, num_bits>>

Does(c, q) == Return(c, q) /\ UNCHANGED <<depth, ended>>

Bits == \E n \in Widths : Does([op |-> "bits", bits |-> n], Deliver(SerializeBits(Stream, n)))

Bits64 == \E n \in WideWidths :
  Does([op |-> "bits", bits |-> n], Deliver(SerializeBits64(Stream, n)))

U128 == Does([op |-> "bits", bits |-> 4*MaxBits], Deliver(SerializeU128(Stream)))

RangedInt == \E m \in Ranges :
  Does([op |-> "int", min |-> m[1], max |-> m[2]], Deliver(SerializeInt(Stream, m[1], m[2])))

Float == Does([op |-> "float", bits |-> MaxBits, fraction |-> FractionBits],
              Deliver(SerializeFloat(Stream, MaxBits, FractionBits)))

Double == Does([op |-> "float", bits |-> 2*MaxBits, fraction |-> DoubleFractionBits],
               Deliver(SerializeFloat(Stream, 2*MaxBits, DoubleFractionBits)))

CompressedFloat == \E f \in Quanta :
  Does([op |-> "compressed", quanta |-> f], Deliver(SerializeCompressedFloat(Stream, f)))

Fixed == \E f \in Formats :
  Does([op |-> "fixed", format |-> f], Deliver(SerializeFixed(Stream, f)))

IntRelative == \E previous \in Previous :
  Does([op |-> "relative", previous |-> previous], Deliver(SerializeIntRelative(Stream, previous)))

String == \E size \in Sizes :
  Does([op |-> "text", size |-> size], Deliver(SerializeString(Stream, size)))

Bytes == \E k \in Lengths : Does([op |-> "bytes", length |-> k], SerializeBytes(Stream, k))

Align == Does([op |-> "align"], SerializeAlign(Stream))

End == LET q == SerializeEnd(Stream) IN
  /\ Return([op |-> "end"], q) /\ ended' = (ended \/ q.ret = Ok) /\ UNCHANGED depth

\* fail, and reject: the caller refuses
Fail == \E error \in CallerReasons : Does([op |-> "fail", error |-> error], Latch(Stream, error))

\* serialize_object: the object is serialized, by any of these calls, only when the gate lets it
OpenObject == LET q == Gate(Stream) IN
  /\ depth < MaxDepth
  /\ Return([op |-> "open"], q) /\ UNCHANGED ended
  /\ depth' = IF q.ret = Ok THEN depth + 1 ELSE depth

\* the object returns what it likes: what its reads refused with, success over a refusal that it
\* swallowed, or an error of its own
CloseObject == \E answer \in CallerReasons \cup {Ok, failed} :
  LET q == IF answer = Ok THEN Stream ELSE Latch(Stream, answer) IN
  /\ depth > 0 /\ depth' = depth - 1
  /\ Return([op |-> "close", answer |-> answer], Gate(q)) /\ UNCHANGED ended

Next == \/ Bits \/ Bits64 \/ U128 \/ RangedInt \/ Float \/ Double \/ CompressedFloat \/ Fixed
        \/ IntRelative \/ String \/ Bytes \/ Align \/ End \/ Fail \/ OpenObject \/ CloseObject

Spec == Init /\ [][Next]_vars

-----------------------------------------------------------------------------
(* Properties *)

\* The type invariant: the position stays in the packet, and the failure is one of the documented
\* reasons.
TypeOK ==
  /\ num_bits \in Nat /\ bits_read \in 0..num_bits
  /\ failed \in Reasons \cup {Ok} /\ result \in Reasons \cup {Ok}
  /\ depth \in 0..MaxDepth
  /\ dirty \in BOOLEAN /\ ended \in BOOLEAN /\ trapped \in BOOLEAN

\* No packet and no declaration, however bad, makes a read trip an assertion: neither the bit
\* reader's width, room and alignment assertions nor that of serialize_offset128 (U7: a reader
\* never traps).
NeverTraps == ~trapped

\* While the stream has not refused, every bit it skipped as padding, by align, bytes, string or
\* end, was zero: nothing rides in the padding of a packet that is accepted.
NoHiddenBits == failed = Ok => ~dirty

\* An accepted end has consumed the whole packet, whatever the caller goes on to read after it.
EndConsumesAll == ended => bits_read = num_bits

\* What a declaration admits: c is the call, v the value it delivered.
Admits(c, v) ==
  CASE c.op = "bits"       -> v \in 0 .. 2^c.bits - 1
    [] c.op = "int"        -> v \in c.min .. c.max
    [] c.op = "float"      -> v \in 0 .. 2^c.bits - 1 /\ Finite(v, c.bits, c.fraction)
    [] c.op = "compressed" -> v \in 0 .. c.quanta.top
    [] c.op = "fixed"      -> v \in c.format.min * 2^c.format.fraction .. c.format.max * 2^c.format.fraction
    [] c.op = "relative"   -> v \in c.previous + 1 .. MaxInt
    [] c.op = "text"       -> Len(v) < c.size /\ ~HasNul(v) /\ WellFormed(v)
    [] c.op = "bytes"      -> Len(v) = c.length

\* Whatever a packet holds, a value reaches the caller's destination only if the declaration of
\* the call admits it, and only from a call that succeeded on a stream that never refused.
OnlyAdmittedValues == dest # Old => result = Ok /\ failed = Ok /\ Admits(call, dest)

\* bits that the writer of an int_relative value spends on it
RelativeCost(previous, v) ==
  LET gap == v - previous
      tiers == {t \in DOMAIN Tiers : gap <= Tiers[t]}
      t == CHOOSE t \in tiers : \A u \in tiers : t <= u
  IN  IF gap = 1 THEN 1
      ELSE IF tiers = {} THEN Len(Tiers) + 1 + MaxBits
      ELSE t + 1 + BitsRequired(Tiers[t] - TierFirst(t))

\* An int_relative value is accepted only in the tier the writer would have chosen for it: one
\* value, one encoding (format 2.0).
OneEncoding ==
  [][call'.op = "relative" /\ dest' # Old
       => bits_read' - bits_read = RelativeCost(call'.previous, dest')]_vars

\* Failure is terminal: whatever mix of primitives, multi-group reads, zero-bit reads, ends and
\* nested objects the caller makes of it, the stream is a latch of its first refusal that
\* consumes and writes nothing more.
Reader == INSTANCE RefusalLatch WITH size <- num_bits, position <- bits_read, refusal <- failed,
                                     answer <- result, written <- dest # Old
ImplementsReader == Reader!LatchSpec
=============================================================================
