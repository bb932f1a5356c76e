---------------------------- MODULE WriterMisuse ----------------------------
(***************************************************************************)
(* The bit writer of src/bitpacker.rs in the hands of callers that break   *)
(* every rule of it: they pass any u32 for a width, any value, write bytes *)
(* off a byte boundary, run past the end, write on after the flush of a    *)
(* partial word, and in a release build may have given it a buffer that is *)
(* not a whole number of words.                                            *)
(*                                                                         *)
(* Nothing is promised of the bits such callers write.  What is checked is *)
(* what they still cannot do, and where each promise ends: memory that was *)
(* stored is final whatever they do; that the bits counted are held, and   *)
(* are in memory once flush_bits returns, ends with the first width above  *)
(* that of a word, of which write_bits stores one word however much it     *)
(* counts.                                                                 *)
(***************************************************************************)
EXTENDS BitWriter

CONSTANT AskedWidths    \* the widths callers pass

ASSUME AskedAssumption == AskedWidths \subseteq 0 .. CountLimit-1

VARIABLE wide           \* history: a width above that of a word was passed

MisuseInit == Init /\ wide = FALSE

\* No room, alignment or width is respected, nor is a flush the end
WriteAnyhow ==
  \/ \E n \in AskedWidths : \E v \in SUBSET (0 .. MaxBits-1) :
        WriteBits(v, n) /\ wide' = (wide \/ n > WordBits)
  \/ WriteAlign /\ UNCHANGED wide
  \/ \E k \in 0 .. (num_bits \div ByteBits) + 1 : \E p \in Payloads :
        WriteBytes(Payload(p, k), k) /\ UNCHANGED wide

MisuseNext == \/ WriteAnyhow
              \/ (FlushBits \/ Copying) /\ UNCHANGED wide

MisuseSpec == MisuseInit /\ [][MisuseNext]_<<vars, wide>>

-----------------------------------------------------------------------------
(* Properties *)

\* Careless values, widths up to that of a word, flushes and panics corrupt only bits yet to come
\* ("the extra high bits corrupt neighboring values"), never one that was counted; and the first
\* width above a word's does no more.  The one step that does is the straight copy of a write_bytes
\* that began off a byte boundary or after the flush of a partial word: "the head bytes flushed the
\* scratch" is an assertion, and a release build, which has none, drops what the scratch still
\* holds.  What it drops is short of memory: the words that were stored stay.
OnlyLaterBitsChange ==
  [][~wide => \/ \A i \in 0 .. bits_written-1 : i \in Contents <=> i \in Contents'
              \/ /\ CopyWords /\ scratch_bits # 0
                 /\ \A i \in 0 .. word_index * WordBits - 1 : i \in Contents <=> i \in Contents']_vars

\* "In release the final word flush surfaces it as the language's own slice bounds panic"
\* (BitWriter::new, of a buffer that is not whole words), and so it does an overflow: a flush that
\* returns has every bit that was counted in memory, so what overran the buffer is never sent.  A
\* width above a word's ends that ("a width outside [1,32] corrupts the stream"): it counts more
\* bits than are stored.
FlushedIsInMemory ==
  [][~wide /\ FlushBits /\ outcome' = "ok"
       => bits_written' <= word_index' * WordBits /\ word_index' * WordBits <= num_bits]_vars

\* A word that was stored is never stored again, whatever is written after it, of any width, past
\* the end or after the flush of a partial word; and memory past the stored words is as it was.
StoredIsFinal ==
  [][\A i \in 0 .. num_bits-1 : \/ word_index * WordBits <= i /\ i < word_index' * WordBits
                                \/ i \in data <=> i \in data']_vars
=============================================================================
