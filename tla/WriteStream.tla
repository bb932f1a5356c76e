---------------------------- MODULE WriteStream ----------------------------
(***************************************************************************)
(* The write stream of src/write_stream.rs and the measure stream of       *)
(* src/measure_stream.rs, in a checked build, with the serialize methods   *)
(* of src/stream.rs they share.  A caller serializes the same objects on   *)
(* both, as one does to size a buffer.  Below the write stream is the bit  *)
(* writer as BitWriter shows it to be: a string of bits that grows.        *)
(*                                                                         *)
(* A method is an operator on a stream: a record of at (bits so far), ones *)
(* (the positions of the one bits written), trapped (an assertion failed,  *)
(* and nothing after it ran) and measure (which of the two it is).         *)
(***************************************************************************)
EXTENDS Format

CONSTANTS Capacity,     \* bits of the write buffer
          Calls,        \* what callers serialize, misuse included: records with an op
          MaxCalls      \* bound: calls made

ASSUME WriteAssumption == Capacity \in Nat /\ Capacity % ByteBits = 0 /\ MaxCalls \in Nat

\* the types of the arguments: unsigned bits of the width of a group, of two and of four, i128 for
\* integers and fixed point, i32 for int_relative, bytes; and the codes of declared quanta fit a group
Typed(c) ==
  /\ c.op \in {"bits", "bits64"} => c.value \in Nat
  /\ c.op = "u128" => c.value \in 0 .. 2^(4*MaxBits) - 1
  /\ c.op = "int" => /\ c.value \in Int /\ c.min \in Int /\ c.max \in Int
                     /\ c.min < c.max => BitsRequired(c.max - c.min) \in 1 .. 4*MaxBits
  /\ c.op = "float" => c.value \in 0 .. 2^MaxBits - 1
  /\ c.op = "double" => c.value \in 0 .. 2^(2*MaxBits) - 1
  /\ c.op = "compressed" => /\ c.halves \in Int /\ c.quanta.max \in Nat
                            /\ c.quanta.declared => BitsRequired(c.quanta.max) \in 1..MaxBits
  /\ c.op = "fixed" =>
       LET f == c.format
           min == f.min * 2^f.fraction
           max == f.max * 2^f.fraction
       IN  /\ c.value \in Int /\ f.min \in Int /\ f.max \in Int /\ f.fraction \in Nat
           /\ FixedDeclared(f) /\ min < max => BitsRequired(max - min) \in 1 .. 4*MaxBits
  /\ c.op = "relative" => c.previous \in Int /\ c.value \in -(2^(MaxBits-1)) .. MaxInt
  /\ c.op \in {"string", "bytes"} => c.value \in Seq(0 .. 2^ByteBits - 1)
  /\ c.op = "string" => c.size \in Nat

ASSUME CallAssumption == \A c \in Calls : Typed(c)

VARIABLES ones, bits_written,   \* what the write stream wrote
          measured,             \* bits_written of the measure stream
          call, wrote, counted, \* the last call, and its outcome on each: ok, err or trap
          calls                 \* how many there were

vars == <<ones, bits_written, measured, call, wrote, counted, calls>>

Trap(w) == [w EXCEPT !.trapped = TRUE]
Assert(w, condition) == IF w.trapped \/ condition THEN w ELSE Trap(w)

-----------------------------------------------------------------------------
(* The primitives of both streams *)

Fits(w, n) == w.measure \/ w.at + n <= Capacity

\* the next n bits; a measure only counts them
Emit(w, bits, n) == IF w.trapped THEN w
  ELSE [w EXCEPT !.at = w.at + n, !.ones = IF w.measure THEN {} ELSE w.ones \cup {w.at + i : i \in bits}]

BitsOf(v, n) == {i \in 0 .. n-1 : (v \div 2^i) % 2 = 1}

\* mutant: no value check in a measure
SerializeBitsCounting(w, v, n) ==
  Emit(Assert(w, n \in 1..MaxBits /\ (w.measure \/ v < 2^n) /\ Fits(w, n)), BitsOf(v, n), n)

SerializeBits(w, v, n) ==
  Emit(Assert(w, n \in 1..MaxBits /\ v < 2^n /\ Fits(w, n)), BitsOf(v, n), n)

\* mutant: a measure counts no padding
AlignBitsFree(w) == IF w.measure THEN 0 ELSE (ByteBits - (w.at % ByteBits)) % ByteBits

\* a measure cannot know where the object lands: the worst case
AlignBits(w) == IF w.measure THEN ByteBits - 1 ELSE (ByteBits - (w.at % ByteBits)) % ByteBits

SerializeAlign(w) == Emit(Assert(w, Fits(w, AlignBits(w))), {}, AlignBits(w))

\* mutant: the field is forgotten
RoomFieldless(w, field, k) == Assert(w, w.measure \/ w.at + AlignBits(w) + k * ByteBits <= Capacity)

\* debug_assert_room: a field, the padding after it and k bytes
Room(w, field, k) ==
  LET align == (ByteBits - ((w.at + field) % ByteBits)) % ByteBits
  IN  Assert(w, w.measure \/ field + align + k * ByteBits <= Capacity - w.at)

\* write_bytes of the bit writer, and its alignment and room assertions
WriteBytes(w, s) ==
  LET ok == w.at % ByteBits = 0 /\ w.at + Len(s) * ByteBits <= Capacity
      bits == {(k-1) * ByteBits + i : k \in DOMAIN s, i \in 0 .. ByteBits - 1}
  IN  Emit(Assert(w, w.measure \/ ok),
             {b \in bits : b % ByteBits \in BitsOf(s[b \div ByteBits + 1], ByteBits)},
             Len(s) * ByteBits)

SerializeBytes(w, s) == WriteBytes(SerializeAlign(Room(w, 0, Len(s))), s)

-----------------------------------------------------------------------------
(* The shared methods, as a write or a measure runs them *)

\* group g of a value, n bits of it
Group(w, v, g, n) == SerializeBits(w, (v \div 2^(g * MaxBits)) % 2^MaxBits, n)

Low(w, v) == Group(w, v, 0, MaxBits)
Low2(w, v) == Group(Low(w, v), v, 1, MaxBits)
Low3(w, v) == Group(Low2(w, v), v, 2, MaxBits)

\* serialize_offset128, and the groups of serialize_int64 and serialize_bits64
SerializeOffset(w, v, n) ==
  CASE n <= MaxBits                     -> Group(w, v, 0, n)
    [] n > MaxBits /\ n <= 2*MaxBits    -> Group(Low(w, v), v, 1, n - MaxBits)
    [] n > 2*MaxBits /\ n <= 3*MaxBits  -> Group(Low2(w, v), v, 2, n - 2*MaxBits)
    [] OTHER                            -> Group(Low3(w, v), v, 3, n - 3*MaxBits)

\* serialize_int, serialize_int64 and serialize_int128: a degenerate range is sent, in no bits,
\* before the value is looked at
SerializeInt(w, v, min, max) ==
  LET q == Assert(Assert(w, min <= max), v \in min..max) IN
  IF min = max THEN w
  ELSE IF q.trapped THEN q ELSE SerializeOffset(q, v - min, BitsRequired(max - min))

SerializeBits64(w, v, n) ==
  LET q == Assert(w, n \in 1 .. 2*MaxBits /\ v < 2^n)
  IN  IF q.trapped THEN q ELSE SerializeOffset(q, v, n)

SerializeU128(w, v) ==
  SerializeBits64(SerializeBits64(w, v % 2^(2*MaxBits), 2*MaxBits), v \div 2^(2*MaxBits), 2*MaxBits)

SerializeFloat(w, v, n, fraction) == SerializeBits64(Assert(w, Finite(v, n, fraction)), v, n)

\* The value is counted in half quanta above min.  It is rounded, and clamped into 0..max; the
\* top of the range must decode to a finite value too.
Quantum(halves, max) == LET code == (halves + 1) \div 2
                        IN  IF halves < 0 THEN 0 ELSE IF code > max THEN max ELSE code
SerializeCompressedFloat(w, f, finite, halves) ==
  SerializeBits(Assert(w, f.declared /\ finite /\ f.top = f.max),
                Quantum(halves, f.max), BitsRequired(f.max))

SerializeFixed(w, v, f) ==
  LET min == f.min * 2^f.fraction
      max == f.max * 2^f.fraction
      q == Assert(w, FixedDeclared(f) /\ v \in min..max)
  IN  IF q.trapped THEN q ELSE SerializeInt(q, v, min, max)

\* n rungs of the int_relative ladder answered no, a bit each, until the room ends
Rungs(w, n) == LET room == IF Fits(w, n) THEN n ELSE Capacity - w.at
               IN  Assert(Emit(w, {}, room), room = n)

SerializeIntRelative(w, previous, current) ==
  LET gap == current - previous
      tiers == {t \in 1 .. Len(Tiers) : gap <= Tiers[t]}
      first == CHOOSE t \in tiers : \A u \in tiers : t <= u
      q == Assert(w, previous >= 0 /\ previous < current)
  IN  CASE q.trapped -> q
        [] ~q.trapped /\ gap = 1 -> SerializeBits(q, 1, 1)
        [] ~q.trapped /\ gap > 1 /\ tiers # {} ->
             SerializeInt(SerializeBits(Rungs(q, first), 1, 1), gap, TierFirst(first), Tiers[first])
        [] OTHER -> SerializeBits(Rungs(q, Len(Tiers) + 1), current, MaxBits)

\* mutants: a NUL goes through; a byte is kept for one
StringLengthAny(w, s, size) == Assert(w, size \in 1..MaxSize /\ Len(s) < size)
StringLengthTerminated(w, s, size) == Assert(w, size \in 1..MaxSize /\ Len(s) + 1 < size /\ ~HasNul(s))

\* string_length: a Rust string is well-formed UTF-8 already
StringLength(w, s, size) == Assert(w, size \in 1..MaxSize /\ Len(s) < size /\ ~HasNul(s))

SerializeString(w, s, size) ==
  LET q == StringLength(w, s, size)
      r == Room(q, BitsRequired(size - 1), Len(s))
  IN  IF q.trapped THEN q
      ELSE WriteBytes(SerializeAlign(SerializeInt(r, Len(s), 0, size - 1)), s)

Serialize(w, c) ==
  CASE c.op = "bits"       -> SerializeBits(w, c.value, c.bits)
    [] c.op = "bits64"     -> SerializeBits64(w, c.value, c.bits)
    [] c.op = "u128"       -> SerializeU128(w, c.value)
    [] c.op = "int"        -> SerializeInt(w, c.value, c.min, c.max)
    [] c.op = "float"      -> SerializeFloat(w, c.value, MaxBits, FractionBits)
    [] c.op = "double"     -> SerializeFloat(w, c.value, 2*MaxBits, DoubleFractionBits)
    [] c.op = "compressed" -> SerializeCompressedFloat(w, c.quanta, c.finite, c.halves)
    [] c.op = "fixed"      -> SerializeFixed(w, c.value, c.format)
    [] c.op = "relative"   -> SerializeIntRelative(w, c.previous, c.value)
    [] c.op = "string"     -> SerializeString(w, c.value, c.size)
    [] c.op = "bytes"      -> SerializeBytes(w, c.value)
    [] c.op = "align"      -> SerializeAlign(w)

\* write_bits, write_bytes and the other by-value twins: to the bit writer, or through the method
Twin(w, c) ==
  CASE c.op = "bits"  -> SerializeBits(w, c.value, c.bits)
    [] c.op = "bytes" -> WriteBytes(SerializeAlign(Room(w, 0, Len(c.value))), c.value)
    [] OTHER          -> Serialize(w, c)

-----------------------------------------------------------------------------
(* The streams and their caller *)

Init == /\ ones = {} /\ bits_written = 0 /\ measured = 0
        /\ call = [op |-> "new"] /\ wrote = "ok" /\ counted = "ok" /\ calls = 0

Writing == [measure |-> FALSE, at |-> bits_written, ones |-> ones, trapped |-> FALSE]
Measuring == [measure |-> TRUE, at |-> measured, ones |-> {}, trapped |-> FALSE]

Outcome(w) == IF w.trapped THEN "trap" ELSE "ok"

\* the call c leaves the streams as w and m
Return(c, w, m) ==
  /\ calls < MaxCalls /\ calls' = calls + 1 /\ call' = c
  /\ ones' = w.ones /\ bits_written' = w.at /\ wrote' = Outcome(w)
  /\ measured' = m.at /\ counted' = Outcome(m)

\* one call, on both streams
Sends(op) == \E c \in {d \in Calls : d.op = op} :
  Return(c, Serialize(Writing, c), Serialize(Measuring, c))

Bits == Sends("bits")
Bits64 == Sends("bits64")
U128 == Sends("u128")
RangedInt == Sends("int")
Float == Sends("float")
Double == Sends("double")
CompressedFloat == Sends("compressed")
Fixed == Sends("fixed")
IntRelative == Sends("relative")
String == Sends("string")
Bytes == Sends("bytes")
Align == Sends("align")

\* a writer of its own, by value; it is measured with the methods
ByValue == \E c \in {d \in Calls : d.op \in {"bits", "bits64", "int", "float", "double", "bytes"}} :
  Return(c, Twin(Writing, c), Serialize(Measuring, c))

\* fail, and an object that fails, return the error and record nothing; reject traps; end is
\* accepted
Answer(op, outcome) ==
  /\ calls < MaxCalls /\ calls' = calls + 1 /\ call' = [op |-> op]
  /\ wrote' = outcome /\ counted' = outcome /\ UNCHANGED <<ones, bits_written, measured>>

Fail == Answer("fail", "err")
Reject == Answer("reject", "trap")
End == Answer("end", "ok")

Next == \/ Bits \/ Bits64 \/ U128 \/ RangedInt \/ Float \/ Double \/ CompressedFloat \/ Fixed
        \/ IntRelative \/ String \/ Bytes \/ Align \/ ByValue \/ Fail \/ Reject \/ End

Spec == Init /\ [][Next]_vars

-----------------------------------------------------------------------------
(* Properties *)

\* "A buffer sized from a measurement always fits the real write": whatever the objects and
\* wherever their alignments land, a measure has counted at least what was written.
MeasureCovers == bits_written <= measured

\* "A measure traps on every misuse a write does, room aside" (U6): the measure never traps alone,
\* and a write traps alone only when the buffer cannot take what the call measured.
MeasureTrapsAlike ==
  [][/\ counted' = "trap" => wrote' = "trap"
     /\ wrote' = "trap" /\ counted' # "trap"
          => bits_written + (measured' - measured) > Capacity]_vars

\* U10 and U16: misuse of a value or a declaration traps before any bit of the call is written or
\* counted, and so does a string or a byte array that has no room: no length and no padding goes
\* ahead of a payload that does not fit.
NothingAhead ==
  [][/\ counted' = "trap" => UNCHANGED <<ones, bits_written, measured>>
     /\ wrote' = "trap" /\ call'.op \in {"string", "bytes"} => UNCHANGED <<ones, bits_written>>]_vars

\* what the documents call misuse of a call, room aside
Conforms(c) ==
  CASE c.op = "bits"       -> c.bits \in 1..MaxBits /\ c.value \in 0 .. 2^c.bits - 1
    [] c.op = "bits64"     -> c.bits \in 1 .. 2*MaxBits /\ c.value \in 0 .. 2^c.bits - 1
    [] c.op = "int"        -> c.min <= c.max /\ c.value \in c.min .. c.max
    [] c.op = "float"      -> Finite(c.value, MaxBits, FractionBits)
    [] c.op = "double"     -> Finite(c.value, 2*MaxBits, DoubleFractionBits)
    [] c.op = "compressed" -> c.quanta.declared /\ c.quanta.top = c.quanta.max /\ c.finite
    [] c.op = "fixed"      -> /\ FixedDeclared(c.format)
                              /\ c.value \in c.format.min * 2^c.format.fraction
                                               .. c.format.max * 2^c.format.fraction
    [] c.op = "relative"   -> 0 <= c.previous /\ c.previous < c.value
    [] c.op = "string"     -> c.size \in 1..MaxSize /\ Len(c.value) < c.size /\ ~HasNul(c.value)
    [] OTHER               -> TRUE

\* "Write misuse has one mechanism, the trap" (U9): a call that succeeds on either stream conforms.
MisuseTraps == [][wrote' = "ok" \/ counted' = "ok" => Conforms(call')]_vars

\* Nothing but misuse traps in a measure, so nothing but misuse and a full buffer traps in a write:
\* what the documents allow at the edges of every declaration goes through.
OnlyMisuseTraps == [][counted' = "trap" => call'.op = "reject" \/ ~Conforms(call')]_vars

\* "In a checked build it panics at the call, before any bit of the operation is written", for an
\* operation without room for all of it too (README.md).
TrapsBeforeAnyBit == [][wrote' = "trap" => UNCHANGED bits_written]_vars
=============================================================================
