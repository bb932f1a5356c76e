----------------------------- MODULE MCInterop -----------------------------
(* A golden packet that aligns three times and ends in values of several groups, and an extended one
   of floats between quanta around a zero-bit integer, in bytes of two bits. *)
EXTENDS Interop

IntCall(v, min, max) == [op |-> "int", value |-> v, min |-> min, max |-> max]
Float(halves) ==
  [op |-> "compressed", quanta |-> [declared |-> TRUE, max |-> 5, top |-> 5], finite |-> TRUE, halves |-> halves]
FixedCall(v, i, f, s, min, max) ==
  [op |-> "fixed", value |-> v,
   format |-> [integer |-> i, fraction |-> f, storage |-> s, signed |-> TRUE, min |-> min, max |-> max]]
Align == [op |-> "align"]

MCGolden == <<[op |-> "bits", value |-> 5, bits |-> 3], IntCall(-3, -4, 4), [op |-> "float", value |-> 3],
              Float(4), [op |-> "relative", previous |-> 2, value |-> 3],
              [op |-> "relative", previous |-> 0, value |-> 5], Align, [op |-> "bytes", value |-> <<2, 1>>],
              [op |-> "string", value |-> <<1, 2, 3>>, size |-> 4], Align,
              FixedCall(-7, 3, 1, 4, -4, 3), FixedCall(300, 6, 6, 12, -8, 7)>>

MCExtended == <<Align, [op |-> "bits", value |-> 6, bits |-> 3], Float(1), IntCall(2, 2, 2), Float(5),
                Float(10), IntCall(-3, -3, 3)>>

MCTiers == <<3, 5>>
=============================================================================
