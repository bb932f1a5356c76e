----------------------------- MODULE BitWriter -----------------------------
(***************************************************************************)
(* The bit writer of src/bitpacker.rs.  A word, a byte or a value is the   *)
(* set of the positions of its one bits, so | is union and << adds to      *)
(* every position; memory is little endian, which makes bit i of byte b    *)
(* position b * ByteBits + i of the buffer, and bit i of word w position   *)
(* w * WordBits + i.  The widths are parameters: 8, 64 and 32 in the code. *)
(*                                                                         *)
(* write_bytes is a loop, a copy and a loop: it is split at its iterations *)
(* (variable phase) and excludes every other operation while it runs.      *)
(***************************************************************************)
EXTENDS Integers

CONSTANTS ByteBits,     \* bits of a byte
          WordBits,     \* bits of the scratch word
          MaxBits,      \* widest value write_bits takes
          CountLimit,   \* values scratch_bits can have: it is a u32
          num_bits,     \* bits of the buffer
          Payloads,     \* the byte strings callers write, as sets of positions
          Initial,      \* what the caller's buffer holds before the first write
          Checked       \* the build keeps its debug assertions

WordBytes == WordBits \div ByteBits

\* MaxBits is positive, a byte fits a value, and a word holds a value at any
\* offset within a byte.  A u32 counts the bits of two words, and that it wraps
\* does not show in a shift, which is by the count modulo WordBits.
\* BitWriter::new asserts the size of the buffer: a
\* release build takes any.
WholeWords == num_bits % WordBits = 0
ASSUME WidthsAssumption == /\ ByteBits \in Nat \ {0}
                           /\ MaxBits \in Nat /\ ByteBits <= MaxBits
                           /\ WordBits \in Nat /\ 2 * MaxBits <= WordBits
                           /\ WordBytes \in Nat /\ WordBytes * ByteBits = WordBits
ASSUME CountAssumption == /\ CountLimit \in Nat /\ 2 * WordBits <= CountLimit
                          /\ CountLimit % WordBits = 0
ASSUME BufferAssumption == /\ num_bits \in Nat /\ (Checked => WholeWords)
                           /\ Initial \subseteq 0 .. num_bits-1
                           /\ Payloads \subseteq SUBSET Nat
                           /\ Checked \in BOOLEAN

VARIABLES data,         \* the buffer
          scratch, scratch_bits, word_index, bits_written,
          phase,        \* where write_bytes stands: idle, head, tail
          todo, left,   \* the bytes write_bytes has yet to write: bits, count
          head,         \* iterations the head loop has yet to make
          outcome,      \* of the last operation: ok, trap (an assertion), panic (a slice bound)
          asked         \* history: what the callers asked to be written

stored == <<data, scratch, scratch_bits, word_index, bits_written>>
writer == <<stored, asked>>
copying == <<phase, todo, left, head>>
vars == <<writer, copying, outcome>>

Word == 0 .. WordBits-1
Shl(v, k) == {k + i : i \in v}
Shr(v, k) == {i \in {j - k : j \in v} : i >= 0}

Init == /\ data = Initial
        /\ scratch = {} /\ scratch_bits = 0 /\ word_index = 0 /\ bits_written = 0
        /\ phase = "idle" /\ todo = {} /\ left = 0 /\ head = 0
        /\ outcome = "ok"
        /\ asked = {}

\* data[w*8 .. w*8 + 8*n].copy_from_slice: what it needs and what it leaves
InBounds(w, n) == (w + n) * WordBits <= num_bits
Store(w, n, v) == {i \in data : i < w * WordBits \/ i >= (w + n) * WordBits}
                     \cup Shl(v, w * WordBits)

Trap == outcome' = "trap" /\ UNCHANGED writer
Panic == outcome' = "panic"

-----------------------------------------------------------------------------
(* write_bits, which write_align and write_bytes call too *)

\* mutant: any value
BitsAssertedAnyValue(v, n) == n \in 1..MaxBits /\ bits_written + n <= num_bits

BitsAsserted(v, n) == /\ n \in 1..MaxBits
                      /\ bits_written + n <= num_bits
                      /\ v \subseteq 0 .. n-1

\* new_scratch_bits.  A release build takes any width: the count wraps, and a
\* shift is by the count modulo the width of the word.
Filled(n) == (scratch_bits + n) % CountLimit

\* mutant: = for |=
MergedOver(v) == Shl(v, scratch_bits % WordBits) \cap Word

Merged(v) == scratch \cup (Shl(v, scratch_bits % WordBits) \cap Word)

Gather(v, n) == /\ Filled(n) < WordBits
                /\ scratch' = Merged(v)
                /\ scratch_bits' = Filled(n)
                /\ UNCHANGED <<data, word_index>>

\* One word is stored, however many bits the width says
Spill(v, n) == /\ Filled(n) >= WordBits
               /\ data' = Store(word_index, 1, Merged(v))
               /\ word_index' = word_index + 1
               /\ scratch' = Shr(v, (WordBits - scratch_bits) % WordBits)
               /\ scratch_bits' = Filled(n) - WordBits

\* in bounds, the value goes in; otherwise the store panics after the merge
Put(v, n) == /\ Filled(n) < WordBits \/ InBounds(word_index, 1)
             /\ Gather(v, n) \/ Spill(v, n)
             /\ bits_written' = bits_written + n
             /\ outcome' = "ok"
PutPanics(v, n) == /\ Filled(n) >= WordBits /\ ~InBounds(word_index, 1)
                   /\ scratch' = Merged(v)
                   /\ UNCHANGED <<data, scratch_bits, word_index, bits_written>>
                   /\ Panic

Refused(assertion) == Checked /\ ~assertion

WriteBits(v, n) == /\ phase = "idle" /\ UNCHANGED copying
                   /\ \/ Refused(BitsAsserted(v, n)) /\ Trap
                      \/ /\ ~Refused(BitsAsserted(v, n))
                         /\ \/ Put(v, n) /\ asked' = asked \cup Shl(v, bits_written)
                            \/ PutPanics(v, n) /\ UNCHANGED asked

AlignBits == (ByteBits - (bits_written % ByteBits)) % ByteBits

WriteAlign == \/ AlignBits # 0 /\ WriteBits({}, AlignBits)
              \/ /\ phase = "idle" /\ AlignBits = 0
                 /\ outcome' = "ok" /\ UNCHANGED <<writer, copying>>

\* mutants: the word index stays, the scratch stays
FlushBitsInPlace == /\ phase = "idle" /\ UNCHANGED copying
                    /\ scratch_bits # 0 /\ InBounds(word_index, 1)
                    /\ data' = Store(word_index, 1, scratch)
                    /\ scratch' = {} /\ scratch_bits' = 0
                    /\ outcome' = "ok" /\ UNCHANGED <<word_index, bits_written, asked>>
FlushBitsTwice == /\ phase = "idle" /\ UNCHANGED copying
                  /\ scratch_bits # 0 /\ InBounds(word_index, 1)
                  /\ data' = Store(word_index, 1, scratch)
                  /\ word_index' = word_index + 1
                  /\ outcome' = "ok" /\ UNCHANGED <<scratch, scratch_bits, bits_written, asked>>

\* mutant: a word past the end is dropped and the flush returns
FlushBitsSilent == /\ phase = "idle" /\ UNCHANGED copying
                   /\ IF scratch_bits # 0 /\ InBounds(word_index, 1)
                      THEN data' = Store(word_index, 1, scratch) ELSE UNCHANGED data
                   /\ scratch' = {} /\ scratch_bits' = 0
                   /\ word_index' = IF scratch_bits # 0 THEN word_index + 1 ELSE word_index
                   /\ outcome' = "ok" /\ UNCHANGED <<bits_written, asked>>

\* A partial word goes to memory whole; word_index then runs ahead of
\* bits_written, so nothing can be written after it.
FlushBits == /\ phase = "idle" /\ UNCHANGED copying
             /\ \/ /\ scratch_bits # 0 /\ InBounds(word_index, 1)
                   /\ data' = Store(word_index, 1, scratch)
                   /\ scratch' = {} /\ scratch_bits' = 0
                   /\ word_index' = word_index + 1
                   /\ outcome' = "ok" /\ UNCHANGED <<bits_written, asked>>
                \/ /\ scratch_bits # 0 /\ ~InBounds(word_index, 1)
                   /\ Panic /\ UNCHANGED writer
                \/ /\ scratch_bits = 0
                   /\ outcome' = "ok" /\ UNCHANGED writer

-----------------------------------------------------------------------------
(* write_bytes *)

\* mutant: room counted in bits
BytesAssertedInBits(k) == AlignBits = 0 /\ bits_written + k <= num_bits

BytesAsserted(k) == /\ AlignBits = 0
                    /\ bits_written + k * ByteBits <= num_bits

\* bytes to the next word boundary
HeadBytes == (WordBytes - ((bits_written % WordBits) \div ByteBits)) % WordBytes

Return == phase' = "idle" /\ todo' = {} /\ left' = 0 /\ head' = 0

\* a slice bound ends the call: what is yet to be written is no longer asked for
Abandon == Return /\ asked' = {i \in asked : i < bits_written}

WriteBytes(v, k) ==
  /\ phase = "idle"
  /\ \/ Refused(BytesAsserted(k)) /\ Trap /\ UNCHANGED copying
     \/ /\ ~Refused(BytesAsserted(k))
        /\ phase' = "head" /\ todo' = v /\ left' = k
        /\ head' = IF HeadBytes > k THEN k ELSE HeadBytes
        /\ outcome' = "ok" /\ UNCHANGED stored
        /\ asked' = asked \cup Shl(v, bits_written)

\* self.write_bits(u32::from(byte), 8) on the first byte of todo
Byte == {i \in todo : i < ByteBits}
PutByte(h) ==
  \/ Refused(BitsAsserted(Byte, ByteBits)) /\ Trap /\ Return
  \/ ~Refused(BitsAsserted(Byte, ByteBits)) /\ PutPanics(Byte, ByteBits) /\ Abandon
  \/ /\ ~Refused(BitsAsserted(Byte, ByteBits)) /\ Put(Byte, ByteBits)
     /\ todo' = Shr(todo, ByteBits) /\ left' = left - 1 /\ head' = h
     /\ UNCHANGED <<phase, asked>>

HeadByte == phase = "head" /\ head > 0 /\ PutByte(head - 1)

\* the head reached the boundary: whole words are copied
NumWords == left \div WordBytes
CopyBits == NumWords * WordBits
AtBoundary == bits_written % WordBits = 0 /\ scratch_bits = 0
CopyFails == NumWords > 0 /\ ~InBounds(word_index, NumWords)
\* mutant: the tail starts over
CopyWordsAgain ==
  /\ phase = "head" /\ head = 0 /\ left > 0
  /\ phase' = "tail" /\ UNCHANGED <<head, todo>> /\ outcome' = "ok"
  /\ data' = Store(word_index, NumWords, {i \in todo : i < CopyBits})
  /\ left' = left - NumWords * WordBytes
  /\ bits_written' = bits_written + CopyBits
  /\ word_index' = word_index + NumWords
  /\ scratch' = {} /\ UNCHANGED <<scratch_bits, asked>>

CopyWords ==
  /\ phase = "head" /\ head = 0 /\ left > 0
  /\ \/ Refused(AtBoundary) /\ Trap /\ Return
     \/ ~Refused(AtBoundary) /\ CopyFails /\ Panic /\ Abandon /\ UNCHANGED stored
     \/ /\ ~Refused(AtBoundary) /\ ~CopyFails
        /\ phase' = "tail" /\ UNCHANGED head /\ outcome' = "ok"
        /\ \/ NumWords = 0 /\ UNCHANGED <<writer, todo, left>>
           \/ /\ NumWords > 0
              /\ data' = Store(word_index, NumWords, {i \in todo : i < CopyBits})
              /\ todo' = Shr(todo, CopyBits)
              /\ left' = left - NumWords * WordBytes
              /\ bits_written' = bits_written + CopyBits
              /\ word_index' = word_index + NumWords
              /\ scratch' = {} /\ UNCHANGED <<scratch_bits, asked>>

TailByte == phase = "tail" /\ left > 0 /\ PutByte(head)

\* the early return after the head, and the assertion after the tail
BytesDone == /\ phase # "idle" /\ left = 0 /\ Return /\ UNCHANGED writer
             /\ \/ phase = "tail" /\ Refused(AlignBits = 0) /\ outcome' = "trap"
                \/ ~(phase = "tail" /\ Refused(AlignBits = 0)) /\ outcome' = "ok"

Copying == HeadByte \/ CopyWords \/ TailByte \/ BytesDone

-----------------------------------------------------------------------------
(* Callers.  The documented contract: valid arguments, room, alignment     *)
(* before bytes, and no write after the flush of a partial word.  Careless *)
(* callers break all of it but the last; the flush is the stream's own.    *)
(* WriterMisuse has those of a release build, to which any width goes: a   *)
(* checked one traps all above MaxBits alike.                              *)

Sealed == bits_written < word_index * WordBits
Payload(p, k) == {i \in p : i < k * ByteBits}

WriteByContract ==
  /\ ~Sealed
  /\ \/ \E n \in 1..MaxBits : \E v \in SUBSET (0 .. n-1) :
           BitsAsserted(v, n) /\ WriteBits(v, n)
     \/ WriteAlign
     \/ \E k \in 0 .. num_bits \div ByteBits : \E p \in Payloads :
           BytesAsserted(k) /\ WriteBytes(Payload(p, k), k)

WriteCarelessly ==
  /\ ~Sealed
  /\ \/ \E n \in 0 .. MaxBits+1 : \E v \in SUBSET (0 .. MaxBits-1) : WriteBits(v, n)
     \/ WriteAlign
     \/ \E k \in 0 .. (num_bits \div ByteBits) + 1 : \E p \in Payloads :
           WriteBytes(Payload(p, k), k)

Next == WriteByContract \/ FlushBits \/ Copying
CarelessNext == WriteCarelessly \/ FlushBits \/ Copying

Spec == Init /\ [][Next]_vars
CarelessSpec == Init /\ [][CarelessNext]_vars

-----------------------------------------------------------------------------
(* Properties *)

\* Type invariant.  The buffer, the scratch word and the counters stay in range.
TypeOK == /\ data \subseteq 0 .. num_bits-1
          /\ scratch \subseteq Word
          /\ scratch_bits \in 0 .. WordBits-1
          /\ word_index \in Nat /\ bits_written \in Nat
          /\ phase \in {"idle", "head", "tail"}
          /\ todo \subseteq Nat /\ left \in Nat /\ head \in Nat
          /\ outcome \in {"ok", "trap", "panic"}
          /\ asked \subseteq Nat

\* The string of bits the writer holds: stored words, then the scratch.
Held(d, s, b) == {i \in d : i < b} \cup Shl(s, b)
Contents == Held(data, scratch, word_index * WordBits)

\* The bits write_bytes was asked for and has yet to write.
Pending == Shl(todo, bits_written)

\* At every point memory and scratch together hold exactly the bits the callers
\* asked for, in order, but for those that a running write_bytes has yet to
\* write: the spill, the head and tail loops, the straight copy and the flush
\* lose, move and invent nothing.
HoldsWhatWasAsked == Contents \cup Pending = asked

\* write_bits, write_bytes and flush_bits of callers that keep the contract
\* never reach a failing assertion nor a slice bound, in either build.
NeverFails == outcome = "ok"

\* With its debug assertions the writer stops every careless call before a
\* slice bound does.
NeverPanics == outcome # "panic"

\* "Bytes past the end of the written data are only ever written as zeros":
\* what lies past the stored words is untouched, and what flush_bits stored
\* past the last bit is zero.
PastTheEnd == /\ \A i \in 0 .. num_bits-1 :
                   i >= word_index * WordBits => (i \in data <=> i \in Initial)
              /\ \A i \in Contents : i < bits_written

\* bits_available is num_bits - bits_written on unsigned integers.
NoUnderflow == bits_written <= num_bits

\* The inductive invariant.  The counters agree until a partial word is
\* flushed; scratch is clear above scratch_bits; and while write_bytes runs, and
\* only then, bytes are left, it is byte aligned with room for them, and its head
\* loop ends at a word boundary or with the last byte.
Counters == \/ bits_written = word_index * WordBits + scratch_bits
            \/ Sealed /\ phase = "idle" /\ scratch = {} /\ scratch_bits = 0
ScratchClear == \A i \in scratch : i < scratch_bits
Room == word_index * WordBits <= num_bits /\ bits_written <= num_bits
Loop == /\ phase = "idle" => todo = {}
        /\ phase # "idle" =>
             /\ bits_written % ByteBits = 0
             /\ \A i \in todo : i < left * ByteBits
             /\ bits_written + left * ByteBits <= num_bits
        /\ phase = "head" =>
             /\ head <= left
             /\ head > 0 => scratch_bits + head * ByteBits <= WordBits
             /\ head < left => \/ scratch_bits + head * ByteBits = WordBits
                               \/ scratch_bits = 0 /\ head = 0
IInv == /\ TypeOK /\ Counters /\ ScratchClear /\ Room /\ Loop
        /\ HoldsWhatWasAsked /\ PastTheEnd

\* The writer implements the append-only sink.
Sink == INSTANCE BitSink WITH Capacity <- num_bits, bits <- Contents,
                              len <- bits_written, sealed <- Sealed
ImplementsSink == Sink!SinkSpec
=============================================================================
