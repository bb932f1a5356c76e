# serialize.rs in TLA+

A verification project for `serialize`, the Rust library for reading and writing bit packed
binary streams: TLA+ models of the code under `src/src/` and of its two protocol examples, TLC
configurations that check them on small instances, and theorems about them that TLAPS checks for
every value of the constants.

## 1. The system

The library is sequential: no threads, no I/O, no persistence, no time. What is hard about it is
arithmetic at boundaries, long sequences of legal and illegal calls on a small state, and packets
that anybody may have written.

| part | source | state | operations |
|---|---|---|---|
| bit writer | `bitpacker.rs` `BitWriter` | buffer, 64 bit scratch, `scratch_bits`, `word_index`, `bits_written` | `new`, `write_bits`, `write_align`, `write_bytes`, `flush_bits` |
| bit reader | `bitpacker.rs` `BitReader` | buffer and its slack, `num_bits`, `bits_read` | `new`, `read_bits`, `read_bits_group`, `read_align`, `read_bytes`, `read_byte_slice` |
| shared methods | `stream.rs` `Stream` | none | ranged integers, bits, floats, compressed floats, fixed point, `int_relative` |
| compressed floats | `stream.rs` | constants derived from a declaration, or computed before | derive, quantize, decode |
| read stream | `read_stream.rs` | a bit reader and the latch `failed` | all of these, bytes, string, align, end, object, `fail`, `reject` |
| write stream | `write_stream.rs` | a bit writer | the same, without a latch; and twins that take values |
| measure stream | `measure_stream.rs` | `bits_written` | the same, counting only |
| helpers | `lib.rs` | none | `bits_required`, zig-zag, `serialize_copy_string`, error names |
| negative controls | `control.rs` | a test-only switch | deletes one refusal rule of the reader |
| example packet | `examples/packet.rs` | none | a caller: a count that drives a loop of objects, and a string |
| wire interop | `examples/wire_interop.rs` | none | writes and reads a file of two packets, of this or another implementation |

How they interact: a caller writes one `serialize` function and runs it on a measure stream to
size a buffer, on a write stream to fill it, and, on another machine, on a read stream over what
arrived. The shared methods call the primitives of the stream they run on (`serialize_bits`,
`serialize_align`, `serialize_bytes`, `serialize_string`, `serialize_end`), which call the bit
writer or the bit reader. The write side is trusted: misuse is a debug assertion, and nothing is
promised after it in release. The read side is the trust boundary: it refuses, with a reason, and
never panics; its first refusal is final.

What makes each part correct:

- *bit writer*: memory and scratch together hold exactly the bits asked for, in order, through
  spills, byte copies and flushes; bytes past the end are zeros or untouched; assertions come
  before slice bounds. Whatever a caller does, a word once stored is final; and until a width above
  that of a word is passed, a flush that returns has put in memory every bit it counts;
- *bit reader*: what was read is exactly the packet up to the position, whichever of the single,
  span, align and byte paths read it, and never the slack;
- *read stream*: no trap whatever the packet and the declarations; a latch of its first refusal;
  a value reaches the caller only if the declaration admits it; no bit hides in padding; an
  accepted end consumed everything; one encoding for each `int_relative` value;
- *write and measure streams*: every misuse traps, on both alike, room aside, and nothing else
  does; nothing goes ahead of a payload that does not fit; a measure covers the write;
- *compressed floats*: a code fits its field whatever is written in whatever build; a declaration
  that conforms derives constants that conform; decoded values lie in the declared range, near what
  was written, and encode to the code they came from;
- *helpers*: wrapped arithmetic loses nothing up to the ends of a type; widths agree; zig-zag is
  the order it says; a copied string is the longest prefix that its field carries;
- *negative controls*: each breaks the rule it names, no more and no less, and none makes the
  reader leave its packet;
- *together*: what is read is what was written; a packet of another length is refused; whatever is
  accepted is the only encoding of what was read; a file of a conforming implementation is read,
  and no other is.

`PROJECT.json` lists the hazards at their lines, each with the properties that would catch it.

## 2. The modules

| module | models | correspondence |
|---|---|---|
| `BitSink` | what a bit writer promises | an append-only bounded string of bits, sealed once |
| `BitWriter` | `BitWriter` | one action per method; `write_bytes` is split at the iterations of its two loops and its copy, with its locals in `phase`, `todo`, `left`, `head` |
| `WriterMisuse` | the same writer under callers that break every rule | `BitWriter` with any `u32` for a width, writes after the flush of a partial word, and buffers that are not whole words; `wide` remembers that a width above a word's was passed |
| `BitReader` | `BitReader` | one action per method; both loads of a window, both paths of a group |
| `Widths` | integers of so many bits | wrapping, leading zeros, exclusive or, `BitsRequired` |
| `IntegerHelpers` | `bits_required`, zig-zag and the wrapped arithmetic of a ranged integer, at several widths | one field that is packed, arrives, and is unpacked |
| `CopyString` | `serialize_copy_string` | one action per iteration of its loop |
| `Helpers` | both, in the hands of one caller | |
| `Floats` | the f32 arithmetic of compressed floats | IEEE 754 with rounding at every step, a float being the integer that counts the smallest subnormal in it |
| `CompressedFloat` | `serialize_compressed_float` by both entry points, and its constants | one field: written, or its code arrives; then read |
| `RefusalLatch` | what a reader of untrusted packets promises | position, first refusal, answer, whether the destination was stored into |
| `Format` | what the streams share | widths, bit counts, declarations of fixed point, domain and tiers of `int_relative`, text |
| `ReadStream` | `read_stream.rs` with `stream.rs` as a read runs it | a method is an operator from the stream before to the stream after, so that methods call methods as in the code; one action per method |
| `Controls` | `control.rs` and its guards in `read_stream.rs` and `stream.rs` | the guarded methods with a rule deleted, compared with the real one on every step of `ReadStream` |
| `WriteStream` | `write_stream.rs` and `measure_stream.rs` with `stream.rs` as they run it, in a checked build | the same form; one call runs on both streams, and a trap stops it where the assertion is; a call by value runs the twin |
| `RoundTrip` | both streams and what is between them, driven by one `serialize` function as in `fuzz_targets/round_trip.rs` | `W` and `R` are `WriteStream` and `ReadStream` over its variables: the methods are theirs, the actions are the caller's (write a value, flush and send, read a value, read the end) and the carrier's (whole, cut, extended, changed); `WritePacket` and `ReadPacket` are the packet of `examples/packet.rs` |
| `Interop` | `examples/wire_interop.rs` | the file as it arrives (whole, drifted, cut, grown, changed), its two streams, its two ends, its comparison of values and of bytes; `M` is `RoundTrip`, whose methods read and write it |
| `MC*` | instances for TLC | |
| `NatFacts` | lemmas on division, remainder, multiples, powers of two and `BitsRequired`, and least counterexamples | used by the proofs |
| `BitWriterProofs` | the theorems of `BitWriter` and of `WriterMisuse` | |
| `BitReaderProofs`, `WriteStreamProofs`, `HelpersProofs`, `CompressedFloatProofs` | the theorems of a module | |
| `ReadStreamProofs` | the theorems of `ReadStream` and of `Controls` | |
| `RoundTripProofs` | the theorems of `RoundTrip` | two lemmas for every method of the streams: what its write leaves, and what its read makes of that |

**Data.** A word, a value of the bit level and the buffer are sets of the positions of their one
bits, so that `|` is union and a shift adds to every position; the streams see values as numbers.
Widths (8, 32, 64, the 40 byte span, 248 bits, the tiers of `int_relative`) are constants with the
assumptions the code relies on: a word holds a value at any offset in a byte, the span holds a
group at any offset. The proofs show nothing more of them is needed.

**Builds.** `Checked` (a variable in `CompressedFloat` and `CopyString`) says whether debug
assertions are kept. In the bit modules an assertion that fails is the outcome `trap`, a slice
bound the outcome `panic`; the caller may go on after either, as one that catches the panic would.

**Callers.** `Spec` of a bit module has callers that keep the documented contract, `CarelessSpec`
callers that do not, `MisuseSpec` callers that also pass any `u32` for a width and go on after the
flush of a partial word. `write_bits` is modelled as a release build runs it at any width: its count
of scratch bits wraps as a `u32` does (`CountLimit`, 2^32 in the code), its shifts are by the count
modulo the word, and one word is stored whatever the width (`Filled`, `Merged`, `Spill`); for the
widths of the contract, `PlainCounts` proves these the plain sum and shifts. `bits_written`, a
`u64`, is not wrapped. The streams' callers make every mistake that the constants list.

**Order of evaluation.** The multi-group methods stop at the first group that is refused or traps,
with the groups before it consumed or written; so does the ladder of `int_relative`.

## 3. The runs

| run | shows |
|---|---|
| `writer_checked` | careless callers of a checked build: every misuse is stopped before it reaches a slice bound or corrupts anything; memory and scratch hold what was asked; refinement of `BitSink` |
| `writer_misuse` | callers that break every rule in a release build: a stored word is final whatever they do; until a width above a word's is passed, a flush that returns is in memory, and no counted bit is corrupted but by one step, which drops the scratch |
| `reader_careless` | span and single reads agree on bad widths too; a lying byte count invents no bit |
| `reader_checked` | assertions come before every slice bound, and what was read is the packet |
| `compressed_float` | every declaration and every code in floats of 7 bits, both builds: codes fit, values are read near where they were written and encode alike |
| `helpers` | wrapped integers and zig-zag to the ends of three widths, against the integers they stand for; copied strings |
| `read_stream` | the trust boundary: all properties of section 1, refinement of `RefusalLatch`, and what each negative control does in place of every step |
| `write_and_measure` | write and measure in lockstep, with misuse, until the buffer is full |
| `round_trip` | messages of two calls of any kind, sent whole or harmed: values and positions survive, a packet of another length is refused, an accepted packet is canonical |
| `interop` | the file of two packets: the correct one passes, and none that differs by more than the tolerance of the comparison does |
| `write_degenerate` | *violation*: a degenerate range does not check its value on write (finding 1) |
| `write_room` | *violation*: a value of several groups is written in part before its trap (finding 2) |

**Bounds, and why they are enough.**

- *Bit writer*: `writer_checked` has bytes of 2 bits, words of 3 bytes, values up to 2 bits and a
  buffer of three words; three words are the least that let one byte string have head bytes, a
  copied word and tail bytes, and values reach every offset in a word, so every shift and every
  straddling occurs. The buffer starts full of ones, to show that padding is really zeroed, and a
  payload repeats in no number of whole words, so that bytes copied to the wrong place show.
  `writer_misuse` has words of 2 bytes of 2 bits and a buffer of two words and a half, so that the
  last word meets the slice bound. Its widths are nothing, one past the widest value, a word, and 7,
  which is above a word: counts reach 7 bits of scratch, so shifts wrap, and with `CountLimit` = 12 a
  7 on top of 5 or more wraps the count (from less than a word no width does, so each wrap follows a
  stored word, and the run is finite). Its `VIEW` leaves out the history `asked`, on which none of its steps and
  properties depends.
- *Bit reader*: bytes of 2 bits, windows of 2 bytes, spans of 6; packets of 3 bytes with every
  content, with and without slack, and longer buffers in which the span is available first and lost
  as the reader advances; groups of every three widths, good and bad. `ReadCarelessly` stops two
  windows past the packet (the position has no bound in a release build).
- *Compressed floats*: significands of 7 bits, exponents from subnormals to overflow, codes of 8
  bits, so that counts of quanta fall below, into and above the binade where a product is as coarse
  as a code: that is where rounding up leaves the field. Bounds and resolutions include zeros, NaN
  and the infinities, in every combination.
- *Helpers*: every integer of 4 bits; of 8 and 16 those within two of a power of two. Strings of up
  to four characters of one to three bytes and NULs, for fields from none to too large.
- *Read stream*: bytes of 2 bits and groups of 4, so that integers and floats take one to four
  groups; every packet of up to 3 bytes, some of 4, 7 and 8 bytes so that the widest reads succeed,
  and one larger than its buffer; `MaxDepth` nests one object. Its `VIEW` leaves out the last call
  where it delivered no value: no step depends on it, and no invariant does there.
- *Write and measure*: a buffer of 24 bits and `MaxCalls` = 3 calls, enough for each kind of call to
  be the one that meets the end of the buffer.
- *Round trip*: messages of up to two calls, so that each kind of call follows each other kind at
  the offset that one leaves; values at both ends of each declaration, of one to four groups;
  packets of no, one and two players; packets cut to every shorter length, extended by every byte,
  and changed in any bits within `Burst` = 6 of each other. A packet of any content is what
  `read_stream` already reads; here it is near one that was written, so that acceptance is common.
- *Interop*: packets of twelve and seven calls, one of every kind the example has; the file cut at
  every byte, grown by every byte, changed in any bits within `Burst` = 6 of each other, and with
  any of its floats between quanta sent as the quantum below.

**Deadlock** is checked where the model always has a move (`reader_checked`, `read_stream`,
`compressed_float`). The writer really stops when it is sealed, a message and a file when they are
read, a copy when it is made, and the others stop at a bound.

**Liveness.** Nothing in the code waits, so the only thing that must eventually happen is that a
call returns, and of one call that is not plain from the shape of its loops: `serialize_copy_string`
walks back to a character boundary in a `while` that has no bound of its own, and a walk past the
start would not end (`CopyReturns`). The fairness is weak, on the iterations of that call alone
(`WF_vars(pc = "walk" /\ String)`): a call once made runs, and nothing else runs in between. Callers
owe nothing: no call is ever obliged.

**Mutants.** Each property of each passing run has a mutant in its module or one that module uses: a
plausible bug (the operator with a comment `mutant: ...`) that breaks the property in that run.

## 4. The proofs

All are checked by TLAPS with SMT, Zenon and PTL.

| theorem | statement |
|---|---|
| `CheckedWriterHolds`, `CheckedWriterEnds`, `CheckedWriterNeverPanics` | careless callers of a checked build: `HoldsWhatWasAsked`; `PastTheEnd`; `NeverPanics` and `NoUnderflow` |
| `CheckedWriterImplementsSink` | for them, `Sink!SinkSpec` |
| `WriterCorrect`, `WriterImplementsSink` | the same for careful callers of either build, who meet no failure at all, over a buffer of whole words |
| `ReaderReadsThePacket` | careful callers of a truthful reader: `TypeOK`, `ReadsThePacket`, `NeverFails` |
| `CheckedReaderReadsThePacket`, `CheckedReaderNeverPanics` | careless callers of a checked, truthful reader: `TypeOK` and `ReadsThePacket`; `NeverPanics` |
| `SpanIsSingleReads`, `ReaderInventsNothing` | any caller, any build, any byte count: `SpanReadsLikeSingles`; `NothingInvented` |
| `ReaderIsSafe`, `NothingHides`, `TheEndIsTheEnd` | read stream: `TypeOK` and `NeverTraps`; `NoHiddenBits`; `EndConsumesAll` |
| `OnlyTheAdmittedIsRead`, `OneValueOneEncoding` | read stream: `OnlyAdmittedValues`; `OneEncoding` |
| `ReaderIsALatch` | `Spec => Reader!LatchSpec` |
| `ControlsStayInside` | read stream, with any one rule deleted: `SafeWithoutIt` |
| `MeasurementCovers`, `StreamsTrapAlike`, `NothingGoesAhead`, `ConformingIsMeasured` | write and measure streams, misuse included: `MeasureCovers`; `MeasureTrapsAlike`; `NothingAhead`; `OnlyMisuseTraps` |
| `AllOtherMisuseTraps` | `MisuseTraps`, where no call gives a range of one value another value: finding 1 is its only exception |
| `StoredWordsAreFinal`, `FlushedBitsAreInMemory`, `WrittenBitsStay` | any caller of a writer in any build over any buffer: `StoredIsFinal` whatever it does; `FlushedIsInMemory` and `OnlyLaterBitsChange`, which hold until a width above a word's is passed, the second but for the copy that it names |
| `WrappingLosesNothing`, `WidthsDoNotMatter`, `ZigZagOrders` | integers of every width: `WrappingIsExact`; `WidthsAgree`; `ZigZagIsTheOrder` |
| `CopiesTheLongest` | every string, every field: `LongestThatFits` |
| `CodesAlwaysFit`, `DerivedConstantsConform`, `WrittenValuesAreRead` | floats of every precision and range, every declaration: `CodesFit`; `DerivedConform`; `WrittenIsRead` |
| `MessagesCompose`, `ReadAsWritten`, `HarmIsRefused` | every message of any length, in every buffer: the inductive invariant; `WhatWasWritten`; `CutOrExtendedRefused` |

**Assumptions** are the named `ASSUME`s of the modules (TLC evaluates them in the runs), each a fact
of the code's constants or types:

- positive widths, a byte fits a value and a value at any byte offset fits a window or half a word,
  the span arithmetic, and in a checked build a buffer of whole words, which `BitWriter::new` asserts
  there. A release build takes any: `WholeWords` is then a premise of the theorems about callers
  that keep the contract, and not of those about callers that break it;
- `CountAssumption`, `AskedAssumption`: a `u32` counts the bits of two words and its values are a
  multiple of the word's width; the widths a caller passes are `u32`s;
- `FormatAssumption`, `FormatWidths`: `MaxSize` is a natural, the tiers of `int_relative` ascend
  from above 1, and a group takes the offset of a tier and of a length. The code's widths are
  literals;
- `CallAssumption`, `StreamAssumption`, `DeclarationAssumption`: the types of the arguments. A value
  of `serialize_u128` is below 2^128, floats and doubles are bit patterns of their width,
  `int_relative` takes `i32`s, text is bytes, the bounds of an integer are an `i128`, whose range
  takes at most four groups, and a derived count of quanta fits one (`CodesFit`
  shows the code relies on no more). Whether a declaration is good or a value is
  in range is not assumed;
- `MessageAssumption`: the same types for the calls of a message and for the example packet, whose
  bounds fit a group; a Rust string is well-formed UTF-8; and a caller gives a range of one value
  that value. The last is no type but the misuse of finding 1, which writes nothing and so cannot be
  read back: `ReadAsWritten` is false without it. Every other misuse is still among the calls, and
  traps;
- `FieldAssumption`: integers of w bits, w at least 1, are those of two's complement;
  `CopyAssumption`: UTF-8 takes one to four bytes for a character;
- `FloatAssumption`, `CompressedAssumption`: an f32 has 1.0 as a power of two above the subnormals and
  reaches beyond the codes, whose bits are no fewer than those of a significand; the bounds, the
  resolution, the constants and the values are floats, NaN and the infinities among them.

`Truthful` and `Checked` are hypotheses of the theorems that need them.

**The writer's invariant.** `HoldsWhatWasAsked` is not inductive: a spill keeps it only if scratch
is clear above `scratch_bits` (`ScratchClear`) and the three counters agree (`Counters`), which a
flush of a partial word breaks on purpose (`Sealed`); the straight copy of `write_bytes` keeps it
only if the head loop ended at a word boundary with an empty scratch (`Loop`), and room for all of
it is known only because the entry check counted it (`Loop`, `Room`). `asked` grows by the whole
payload when `write_bytes` is called, so in the middle of it the property counts what is still to
be written (`Pending`), and each iteration moves its bits from there to `Contents` (`SplitShift`).
`IInv` is the conjunction; no run lists it any more, because the theorems say of every instance
what a run would say of one. The proof has a lemma for the spill, for `Put`, and for each action,
once for contract callers and once for careless ones; refinement follows from what `Put` does to
`Contents`, a call that traps being a stutter.

**The reader.** The window lemma says that a value extracted from a window, whichever load filled
it, is the slice of the buffer at the position; the span lemma that a masked offset into the span
is the offset, because the last read of a group of at most `GroupBits` starts inside it. Each
operation then appends the next slice to `seen`.

**The read stream.** A method is an operator, so the proof goes by the same structure as the code:
a predicate on streams (well formed, latched or inside the packet, nothing trapped) and a relation
between the stream before and after (moved forward, kept its first refusal, stored nothing if it
refused) are shown for each primitive, then for each method that calls them, and the actions
follow. `LeastNat` stands in for induction where the ladder of `int_relative` climbs.

A second contract (`Reads`) says what a method that succeeds delivers: a number of just n bits, so
one below 2^n. `OnlyAdmittedValues` follows method by method, from what each
checks after its last group; what it needs of numbers is that the sum of n bits is below 2^n and
that `BitsRequired(n)` bits hold n. `2^n` and `BitsRequired` have no induction behind them:
`NatFacts` takes a power as the count of the subsets of 1..n and derives the rest from that.
`OneEncoding` is the same contract for the ladder: a gap accepted in a bounded tier is above the
tier before it, and one accepted at the top is above the last tier.

**The negative controls.** A method with a rule deleted no longer keeps the contract of the read
stream (it may deliver a value out of range, or answer without its latch), so the proof has a weaker
one, `Lives`: well formed, inside the packet, nothing trapped. Each guarded method is shown to keep
it with each of its rules deleted. Where a deleted rule leaves a number that is used again, as the
length of a string, it is shown that the next check (`past_end`) still bounds it, because the
wrapped addition of a length does not leave the naturals.

**The streams that write.** `Counts` (types, and `bits_written <= measured`) is inductive only
together with what each method does to a stream, `Emits(w, q, n)`: where n more bits fit it goes n
bits on, and otherwise it traps, going back on nothing. Each method is shown to emit, on both streams, numbers of bits of which the
measure's is the larger, and to trap a measure before any of them; the theorems on steps come from
the same lemmas. A payload is checked for room with its padding before either is written, which is
why `NothingAhead` has a part for strings and bytes alone.

**The misused writer.** Without contract or assertions little is left of the writer's invariant.
What any width leaves is that the stored words are inside the buffer, that scratch is a word, and
that the head loop of `write_bytes` ends before its bytes do (`Bounded`): a store is then always past
what is stored, which is `StoredIsFinal`. While no width above a word's was passed, one store makes
room for every `write_bits`, so `scratch_bits` stays below a word and no more bits are counted than
are stored or in scratch (`Counted`); the second is no equation, for `bits_written` may lag behind
what scratch holds after a partial flush. A merge is then above what is in scratch, and a flush that
returns has stored all that was counted. `Promised` is the two together. A width above a word's ends
`Counted` for good: 200 on an empty scratch is counted in full, stores one word and leaves 136 in
`scratch_bits`, of which the flush stores one word more ("a width outside `[1,32]` corrupts the
stream"). The other exception is in `OnlyLaterBitsChange` itself: after 3 bits, a release
`write_bytes` of 16 bytes takes itself to be at a word boundary, packs no head bytes, and clears the
3 bits in scratch as it copies the words. `CopyWordsBounded` shows that it touches nothing stored,
and that with an empty scratch it loses nothing.

**The helpers.** Wrapping is a remainder, so a value that fits its type survives any number of
turns; `Pack` is shown equal to the offset in unbounded integers at every width that has the
bounds, and the properties are then arithmetic. For `CopyString`, `StringLaidOut` says where the
characters are in the bytes of a string (by least counterexample, from what one more character
adds), so that the first byte left out is no continuation exactly where a prefix ends. `CopyInv` says
that the walk has passed no boundary: a longer prefix that fits would be one.

**Compressed floats.** Rounding is monotone (`NearestOrdered`, across exponents and across signs) and
leaves a float alone (`NearestExact`), whatever the precision: the whole argument rests on these two,
and needs no bound of an error. A quotient of a code by the largest is at most 1.0, a product by it at
most the range, and a sum with that lies between the sums with the ends, so a decoded value lies in
the range and the end codes decode to the ends. What is at or above the maximum is normalized to 1.0
exactly, times the largest code is that code if it is a float, and one half more never rounds below it;
the clamp does the rest. A derived code is a float (`CeilIs`): floats below `One * 2^Precision` round up
to whole numbers that are floats, and floats above it are whole. That the constants come from the
declaration and the code from the value, whichever actions came between, is the inductive invariant
`FInv`, which TLC checked on the instance first.

**The round trip.** Two predicates, one for each side, are shown of every method and compose as
methods call methods. `Extends(w, q)`: `q` is the write stream `w` with more bits after those it had,
or it trapped. `Arrives(s, t, b, v)`: `t` is the read stream `s` gone on to `b` with the value `v`,
or, if the packet ends before `b`, it refused. The lemma of a method says that a reader at the
position of `w`, over a packet that agrees with what the method of the same name wrote (`Over`),
arrives where the writer did with what was written. `InTurn` puts two such methods together, so a
value of four groups, a string behind its length and its padding, or a packet of a loop of players is
as long a proof as its code. At the bottom are three facts of numbers: the number spelled by the bits
of a number is that number (`ValueOfBits`), its groups put together are it (`FirstDigit`,
`NextDigit`, `TopDigit`), and fixed point wraps to itself (`WrapIsExact`). For `int_relative` it has to be shown that
the reader stops on the rung on which the writer did, where a packet may end on any rung.

Of a message the invariant says that the bits below each mark are the write stream as it was then
(`Prefix`), so that sending the next value from there gives the next of them; reading the i-th value
is then reading over what the i-th call wrote, whatever was written after it. An end is exact because
a cut packet ends before the last bit that was written (`ByteCount`), and an extended one leaves a
whole byte. TLC checked this invariant on the instance of `round_trip` before it was proved.

**Only model-checked**, and why:

- `Canonical` of `RoundTrip`: it needs the converse of `Arrives`, that what any packet was accepted as
  is written as those very bits, for each method again. `ConformingIsRead` and `NothingElseIsRead` of
  `Interop` are about a fixed file and two tolerances, and gain nothing from other constants;
- `WithinTwoQuanta` and `ReencodesAlike` of `CompressedFloat`: order is not enough for them, they bound
  the sum of seven rounding errors, relative or absolute by the exponent of each, in products of
  rounded quantities. How coarse a range must be (`Coarse`) was found with TLC, over every range of up
  to 140 subnormals in significands of 6 and 7 bits: with half of its factor of 16 there are codes that
  encode to another code, and in 8 bits with quanta of less than two subnormals;
- `BreaksItsRule`: that a control differs from the real method where its rule decides needs a
  difference to be exhibited for each of eighteen deletions, a comparison of outcomes that TLC makes
  and no general argument shortens;
- `CopyReturns`: liveness is out of the provers' reach.

## 5. Findings

1. *A degenerate range does not check the value it writes* (`stream.rs:275`, `332`, `415`). A
   ranged integer with `min == max` returns before the assertions on the value, so writing 4 in
   `[3,3]` succeeds and reads back as 3. The documentation of the method, README.md and U9 of
   IMPLEMENTING.md say that a value out of range traps; `serialize_fixed` does check it.
2. *A value of several groups without room is written in part before it traps* (`stream.rs:481`
   and the methods like it). README.md says that a checked build panics "before any bit of the
   operation is written". U9 of IMPLEMENTING.md limits that to operations for which U10 makes room
   a whole-operation check, which the code makes for strings and bytes (`NothingAhead` holds).

Two observations that are no findings. The comment on the control `string-utf8-surrogate`
(`read_stream.rs:332-333`) says that the patched text validates exactly when the surrogate clause
was its only fault; it patches every byte from A0 up after an ED, so a lead byte there becomes a
continuation and passes as well. `BreaksItsRule` therefore asks of that control, and of a bounded
tier of `int_relative`, only that nothing else changes. And a compressed float need not go to the
nearest quantum, as STANDARD.md (476) has it, where that is all but a tie: over `[0,10]` at 0.01 the
f32 nearest 0.005 is just below half a quantum, and the addition of one half rounds it up to code 1.
`WithinTwoQuanta` is the tolerance that the round trip fuzzer uses.

## 6. Not modelled, and why

- **Context**: `set_context` and `context` pass a reference through; no operation reads it.
- **Tests, the conformance corpus and the fuzz targets** are clients, and were read for what they
  assert. `round_trip.rs` gives `RoundTrip` its shape; what `hostile_read.rs` asserts of random
  calls on random packets is `OnlyAdmittedValues` and `ImplementsReader`, over all calls on all
  packets of the bounds.
- **Error names, `Debug` and `Display`** are wording; the closed list of reasons is modelled.
- **The write and measure streams in a release build**: without its assertions the write stream
  passes misuse on to the bit writer, whose release build is `WriterMisuse`, and a measure only
  counts; what either makes of misuse is unspecified by the library.
- **Compressed floats inside the streams**: `ReadStream`, `WriteStream` and `RoundTrip` take the
  derived constants as parameters of the call, count values in half quanta, and know which codes
  decode to a finite value. The arithmetic, and that a decoded value encodes to its code again, is
  `CompressedFloat`, for coarse declarations as `Coarse` says: over a range not much coarser than a
  float at its ends neither `WithinTwoQuanta` nor `ReencodesAlike` holds, nor does the library say so.
- **Text** is a sequence of bytes of which some begin and continue a character; `from_utf8` is
  external and modelled for one and two byte characters and surrogates.
- **File I/O, arguments and messages** of the interop example, and the other implementation
  (`interop/golden.cpp`), which is the environment: it writes any file.
- **The switch of the controls** is a thread local that tests set; the model has every control at
  once, each beside the real step.

## 7. Plan

Done, in this order: bit writer and sink (modelled, checked, proved for both kinds of callers); bit
reader (the same); read stream and latch (modelled, checked, every property and the refinement
proved); write and measure streams (the same) and round trip (modelled, checked, proved but for
`Canonical`); misuse of the writer (proved), at every width; helpers
(modelled, checked, proved); compressed floats (proved but for the two tolerances); negative controls
(their safety proved); the packet and interop examples. What the model leaves out is in section 6.

What is left is to prove `Canonical` of `RoundTrip`: for each method, that a read which succeeds
delivers a value whose write goes through and spells the bits that were read, composed as `InTurn`
composes.
