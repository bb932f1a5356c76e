-------------------------- MODULE MCWriterMisuse ---------------------------
(* Bytes of 2 bits, words of 2 bytes, and a buffer of two words and a byte. *)
EXTENDS WriterMisuse

AllOnes == 0 .. num_bits-1
OnePayload == {{i \in 0 .. 30 : i % 5 = 0}}

\* a view: no step and no property depends on what was asked
WithoutHistory == <<stored, copying, outcome, wide>>
=============================================================================
