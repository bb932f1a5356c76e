------------------------------- MODULE Widths -------------------------------
(***************************************************************************)
(* Integers of w bits as src/lib.rs and the ranged integers of             *)
(* src/stream.rs use them: converted, wrapped and counted, never           *)
(* overflowing.  An unsigned one is in 0 .. 2^w - 1, a signed one in       *)
(* -2^(w-1) .. 2^(w-1) - 1.                                                *)
(***************************************************************************)
EXTENDS Integers

Unsigned(v, w) == v % 2^w
Signed(u, w) == IF u >= 2^(w-1) THEN u - 2^w ELSE u

WrappingSub(a, b, w) == Unsigned(a - b, w)
WrappingAdd(a, b, w) == Unsigned(a + b, w)

LeadingZeros(u, w) == CHOOSE n \in 0..w : u < 2^(w-n) /\ (n = w \/ u >= 2^(w-n-1))

Xor(a, b, w) ==
  LET low[k \in 0..w] == IF k = 0 THEN 0 ELSE
        low[k-1] + (((a \div 2^(k-1)) + (b \div 2^(k-1))) % 2) * 2^(k-1)
  IN  low[w]

\* the number of bits that 0..range takes: what bits_required is for
BitsRequired(range) == CHOOSE n \in 0..range : 2^n > range /\ \A m \in 0 .. n-1 : 2^m <= range
=============================================================================
