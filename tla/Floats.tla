------------------------------- MODULE Floats -------------------------------
(***************************************************************************)
(* The f32 arithmetic that src/stream.rs computes a compressed float with: *)
(* IEEE 754 binary, rounding to the nearest and ties to even at every      *)
(* step, with gradual underflow, infinities and NaN.                       *)
(*                                                                         *)
(* A finite float is the integer that counts the smallest subnormal in it. *)
(* Zero has no sign: nothing in the code tells the two zeros apart.        *)
(***************************************************************************)
EXTENDS Integers

CONSTANTS Precision,    \* bits of a significand: 24 in an f32
          MaxExponent,  \* the largest finite float has so many zeros after its significand
          One           \* how 1.0 is counted: 2^149 in an f32

\* 1.0 is a power of two, with subnormals below it; integers of Precision bits are floats
ASSUME FloatAssumption ==
  /\ Precision \in Nat \ {0, 1} /\ MaxExponent \in Nat
  /\ One \in {2^k : k \in 1..MaxExponent}

Inf == 2^(Precision + MaxExponent)
NaN == 2 * Inf

IsFinite(x) == -Inf < x /\ x < Inf

\* comparisons with NaN are false
Less(x, y) == x # NaN /\ y # NaN /\ x < y

Magnitude(x) == IF x < 0 THEN -x ELSE x
Sign(x) == IF x < 0 THEN -1 ELSE 1

\* n / d to the nearest integer
HalfEven(n, d) ==
  LET q == n \div d
      twice == 2 * (n % d)
  IN  IF twice > d \/ (twice = d /\ q % 2 = 1) THEN q + 1 ELSE q

\* the zeros after the significand of n / d
Exponent(n, d) ==
  CHOOSE e \in 0..MaxExponent : /\ n \div d < 2^(Precision + e)
                                /\ e = 0 \/ n \div d >= 2^(Precision + e - 1)

\* the float nearest to n / d
Nearest(n, d) == IF n \div d >= Inf THEN Inf
                 ELSE LET ulp == 2^Exponent(n, d) IN HalfEven(n, d * ulp) * ulp

Rounded(n, d) == Sign(n) * Nearest(Magnitude(n), d)

\* what a variable of the type holds
IsFloat(x) == x = NaN \/ (x \in -Inf .. Inf /\ Rounded(x, 1) = x)

Add(x, y) ==
  CASE x = NaN \/ y = NaN -> NaN
    [] IsFinite(x) /\ IsFinite(y) -> Rounded(x + y, 1)
    [] x # NaN /\ y # NaN /\ ~IsFinite(x) /\ y = -x -> NaN
    [] OTHER -> IF IsFinite(x) THEN y ELSE x

Sub(x, y) == Add(x, IF y = NaN THEN NaN ELSE -y)

Mul(x, y) ==
  CASE x = NaN \/ y = NaN -> NaN
    [] IsFinite(x) /\ IsFinite(y) -> Rounded(x * y, One)
    [] (x = 0 /\ ~IsFinite(y)) \/ (y = 0 /\ ~IsFinite(x)) -> NaN
    [] OTHER -> Sign(x) * Sign(y) * Inf

Div(x, y) ==
  CASE x = NaN \/ y = NaN \/ (x = 0 /\ y = 0) \/ ~(IsFinite(x) \/ IsFinite(y)) -> NaN
    [] IsFinite(x) /\ IsFinite(y) /\ y # 0 -> Rounded(Sign(y) * x * One, Magnitude(y))
    [] IsFinite(x) /\ ~IsFinite(y) /\ y # NaN -> 0
    [] OTHER -> Sign(x) * Sign(y) * Inf

\* conversions: from an unsigned integer, and to one of n bits, which truncates, saturates and takes
\* NaN to 0
FromInt(i) == Nearest(i * One, 1)
ToInt(x, n) == IF x = NaN \/ x < 0 THEN 0
               ELSE IF x \div One >= 2^n THEN 2^n - 1 ELSE x \div One
Floor(x) == IF IsFinite(x) THEN (x \div One) * One ELSE x
Ceil(x) == IF IsFinite(x) THEN -((-x) \div One) * One ELSE x
=============================================================================
