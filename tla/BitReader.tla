----------------------------- MODULE BitReader -----------------------------
(***************************************************************************)
(* The bit reader of src/bitpacker.rs.  The buffer, a window and a value   *)
(* are sets of the positions of their one bits, as in BitWriter.  The      *)
(* buffer is an allocation of some bytes, the packet is its first num_bits *)
(* bits, and the bytes between (the slack) hold whatever they hold: reads  *)
(* load them, and must never let them show.                                *)
(***************************************************************************)
EXTENDS Integers, Sequences

CONSTANTS ByteBits,     \* bits of a byte: 8
          WindowBytes,  \* bytes of a window: 8
          MaxBits,      \* widest value read_bits returns: 32
          GroupBits,    \* most bits a group reads from one span: 248
          SpanBytes,    \* bytes of the span: 40
          OffsetBytes,  \* offsets into the span are masked below this: 32
          Buffers,      \* [ones, bytes, packet]: allocations, and the packet's byte count
          Groups,       \* the tuples of widths that callers read as a group
          Checked       \* the build keeps its debug assertions

WindowBits == WindowBytes * ByteBits

\* The "40 byte span math" of read_bits_group, that a window holds a value at any bit offset,
\* and that a value holds a byte.
ASSUME ReaderAssumption ==
  /\ ByteBits \in Nat \ {0} /\ WindowBytes \in Nat /\ MaxBits \in Nat
  /\ ByteBits <= MaxBits /\ MaxBits + ByteBits - 1 <= WindowBits
  /\ GroupBits \in Nat /\ SpanBytes \in Nat /\ OffsetBytes \in Nat
  /\ GroupBits + ByteBits - 1 < OffsetBytes * ByteBits
  /\ OffsetBytes - 1 + WindowBytes <= SpanBytes
  /\ \A g \in Groups : g \in Seq(Nat)
  /\ \A b \in Buffers : /\ b.bytes \in Nat /\ b.packet \in Nat
                        /\ b.ones \subseteq 0 .. b.bytes * ByteBits - 1
  /\ Checked \in BOOLEAN

VARIABLES data, bytes,          \* the allocation
          num_bits, bits_read,  \* the packet, and how much of it was read
          seen,                 \* history: the one bits returned to callers, by their position
          outcome               \* of the last operation: ok, false, trap or panic

buffer == <<data, bytes, num_bits>>
vars == <<buffer, bits_read, seen, outcome>>

Init == /\ \E b \in Buffers : data = b.ones /\ bytes = b.bytes /\ num_bits = b.packet * ByteBits
        /\ bits_read = 0 /\ seen = {} /\ outcome = "ok"

At(v, k) == {k + i : i \in v}
Slice(v, at, n) == {i \in 0 .. n-1 : at + i \in v}

Refused(assertion) == Checked /\ ~assertion
Trap == outcome' = "trap" /\ UNCHANGED <<buffer, bits_read, seen>>

-----------------------------------------------------------------------------
(* Windows *)

\* whatever bytes remain, zero padded
LoadWindowSlow(b) ==
  LET start == IF b < bytes THEN b ELSE bytes
      n == IF bytes - start < WindowBytes THEN bytes - start ELSE WindowBytes
  IN  Slice(data, start * ByteBits, n * ByteBits)

LoadWindow(b) == IF b + WindowBytes <= bytes THEN Slice(data, b * ByteBits, WindowBits)
                                             ELSE LoadWindowSlow(b)

\* mutant: a mask one bit too wide
ExtractMore(window, s, n) == Slice(window, s, n + 1) \cap 0 .. MaxBits-1

\* n bits of a window from bit s on; the value is as wide as a value gets
Extract(window, s, n) == Slice(window, s, n) \cap 0 .. MaxBits-1

\* what read_bits returns when it starts at a position
ValueAt(at, n) == Extract(LoadWindow(at \div ByteBits), at % ByteBits, n)

-----------------------------------------------------------------------------
(* Operations *)

BitsAsserted(n) == n \in 1..MaxBits /\ bits_read + n <= num_bits

ReadBits(n) ==
  \/ Refused(BitsAsserted(n)) /\ Trap
  \/ /\ ~Refused(BitsAsserted(n)) /\ UNCHANGED buffer
     /\ bits_read' = bits_read + n /\ outcome' = "ok"
     /\ seen' = seen \cup At(ValueAt(bits_read, n), bits_read)

\* bits of the first i widths of a group
Before(widths, i) ==
  LET sum[k \in 0 .. Len(widths)] == IF k = 0 THEN 0 ELSE sum[k-1] + widths[k] IN sum[i]
Total(widths) == Before(widths, Len(widths))

GroupAsserted(widths) == /\ \A i \in DOMAIN widths : widths[i] \in 1..MaxBits
                         /\ bits_read + Total(widths) <= num_bits

\* one bounds check for the span; then a window at each offset into it
Base == bits_read \div ByteBits
\* mutant: a group of any size takes the span
HasSpanAnySize(widths) == Base + SpanBytes <= bytes

HasSpan(widths) == Total(widths) <= GroupBits /\ Base + SpanBytes <= bytes
\* mutant: the bits of the first byte already read are not skipped
LocalUnshifted(widths, i) == Before(widths, i-1)

Local(widths, i) == (bits_read % ByteBits) + Before(widths, i-1)
Offset(widths, i) == (Local(widths, i) \div ByteBits) % OffsetBytes
SpanValue(widths, i) ==
  LET span == Slice(data, Base * ByteBits, SpanBytes * ByteBits)
      window == Slice(span, Offset(widths, i) * ByteBits, WindowBits)
  IN  Extract(window, Local(widths, i) % ByteBits, widths[i])

\* the per-call path starts each read where the one before it ended
SingleValue(widths, i) == ValueAt(bits_read + Before(widths, i-1), widths[i])

GroupValue(widths, i) == IF HasSpan(widths) THEN SpanValue(widths, i) ELSE SingleValue(widths, i)

ReadBitsGroup(widths) ==
  \/ Refused(GroupAsserted(widths)) /\ Trap
  \/ /\ ~Refused(GroupAsserted(widths))
     /\ bits_read' = bits_read + Total(widths) /\ outcome' = "ok" /\ UNCHANGED buffer
     /\ seen' = seen \cup UNION {At(GroupValue(widths, i), bits_read + Before(widths, i-1)) :
                                   i \in DOMAIN widths}

\* read_align answers false when the padding is not zero, having consumed it.  The assertions of
\* its read_bits cannot fail: a checked reader is inside its packet, which is whole bytes.
ReadAlign ==
  LET n == ByteBits - (bits_read % ByteBits) IN
  \/ bits_read % ByteBits = 0 /\ outcome' = "ok" /\ UNCHANGED <<buffer, bits_read, seen>>
  \/ /\ bits_read % ByteBits # 0 /\ UNCHANGED buffer
     /\ bits_read' = bits_read + n
     /\ seen' = seen \cup At(ValueAt(bits_read, n), bits_read)
     /\ outcome' = IF ValueAt(bits_read, n) = {} THEN "ok" ELSE "false"

\* mutant: room counted in bits
BytesAssertedInBits(k) == bits_read % ByteBits = 0 /\ bits_read + k <= num_bits

BytesAsserted(k) == bits_read % ByteBits = 0 /\ bits_read + k * ByteBits <= num_bits

\* read_byte_slice, and read_bytes that copies it: the slice of the allocation panics past its end
ReadByteSlice(k) ==
  \/ Refused(BytesAsserted(k)) /\ Trap
  \/ /\ ~Refused(BytesAsserted(k)) /\ UNCHANGED buffer
     /\ bits_read' = bits_read + k * ByteBits
     /\ \/ /\ Base + k > bytes /\ outcome' = "panic" /\ UNCHANGED seen
        \/ /\ Base + k <= bytes /\ outcome' = "ok"
           /\ seen' = seen \cup At(Slice(data, Base * ByteBits, k * ByteBits), bits_read)

-----------------------------------------------------------------------------
(* Callers: by the contract, or careless about widths and room, and about  *)
(* alignment too where an assertion would stop them.                       *)

Lengths == 0 .. bytes + 1

ReadByContract ==
  \/ \E n \in 1..MaxBits : BitsAsserted(n) /\ ReadBits(n)
  \/ \E g \in Groups : GroupAsserted(g) /\ ReadBitsGroup(g)
  \/ \E k \in Lengths : BytesAsserted(k) /\ ReadByteSlice(k)
  \/ ReadAlign

\* Bound: a careless caller stops two windows past its packet.
ReadCarelessly ==
  /\ bits_read <= num_bits + 2 * WindowBits
  /\ \/ \E n \in 0 .. MaxBits + 1 : ReadBits(n)
     \/ \E g \in Groups : ReadBitsGroup(g)
     \/ \E k \in Lengths : (Checked \/ bits_read % ByteBits = 0) /\ ReadByteSlice(k)
     \/ ReadAlign

Spec == Init /\ [][ReadByContract]_vars
CarelessSpec == Init /\ [][ReadCarelessly]_vars

\* the caller passes the size of data it received, so the buffer holds the packet
Truthful == \A b \in Buffers : b.packet <= b.bytes

-----------------------------------------------------------------------------
(* Properties *)

\* The type invariant of a reader of a truthful buffer: it stays in its packet, and the packet in
\* the allocation.
TypeOK == /\ bytes \in Nat /\ data \subseteq 0 .. bytes * ByteBits - 1
          /\ num_bits \in 0 .. bytes * ByteBits /\ bits_read \in 0..num_bits
          /\ outcome \in {"ok", "false", "trap", "panic"}

\* What the reader returned, over any mix of single, grouped, aligning and byte reads and with any
\* slack, is exactly the packet up to where it stands: nothing is skipped, repeated or moved, and
\* "bytes past the packet data are loaded but never interpreted".
ReadsThePacket == seen = {i \in data : i < bits_read}

\* By the contract no assertion and no slice bound is reached.
NeverFails == outcome \in {"ok", "false"}

\* With its debug assertions the reader stops every careless call before a slice bound does.
NeverPanics == outcome # "panic"

\* "Semantically identical to calling read_bits once per width": every group that takes the span,
\* bad widths included, indexes inside it and returns what single reads would have.
SpanReadsLikeSingles ==
  \A g \in Groups : HasSpan(g) =>
    \A i \in DOMAIN g : /\ Offset(g, i) + WindowBytes <= SpanBytes
                        /\ SpanValue(g, i) = SingleValue(g, i)

\* A reader told of more bytes than its buffer holds reads zeros past the real data, and what it
\* reads in the slack is what the slack holds: no read invents a bit.
NothingInvented == seen \subseteq data
=============================================================================
