----------------------------- MODULE MCHelpers -----------------------------
(* Every integer of 4 bits, and of 8 and 16 those within two of a power of two or its negative.
   Strings of up to four characters of one to three bytes, and NULs; fields from none to too large. *)
EXTENDS Helpers

MCWidths == {4, 8, 16}

Near(w) == UNION {{2^k + d, -2^k + d} : k \in {0, 3, w \div 2, w - 2, w - 1}, d \in -2..2}

MCNumbers(w) == IF w = 4 THEN -8..7 ELSE Near(w) \cap -(2^(w-1)) .. 2^(w-1) - 1

MCStrings == BoundedSeq(0..3, 4)
MCBefore == {<<>>, <<1, 1>>}
=============================================================================
