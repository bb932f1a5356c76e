------------------------------- MODULE Format -------------------------------
(***************************************************************************)
(* What the write, measure and read sides of src/stream.rs share: the      *)
(* widths of the format, and its arithmetic on declarations and values.    *)
(***************************************************************************)
EXTENDS Widths, Sequences

CONSTANTS ByteBits,             \* 8 in the code
          MaxBits,              \* width of a group and of an int: 32
          MaxSize,              \* largest buffer_size of a string: i32::MAX
          FractionBits,         \* of a float of MaxBits bits
          DoubleFractionBits,   \* of a double of 2 * MaxBits bits
          Tiers,                \* last difference of each bounded int_relative tier
          Lead, Continuation,   \* the byte values that begin and end a two byte character
          Surrogate             \* a byte that would end one, but for the rule on surrogates

ASSUME FormatAssumption ==
  /\ ByteBits \in Nat \ {0} /\ MaxBits \in Nat /\ ByteBits <= MaxBits
  /\ MaxSize \in Nat /\ Tiers \in Seq(Nat \ {0, 1}) /\ Tiers # <<>>
  /\ \A t, u \in 1 .. Len(Tiers) : t < u => Tiers[t] < Tiers[u]

\* neither NaN nor an infinity: the exponent, between the fraction and the sign, is not all ones
Finite(v, n, fraction) ==
  LET exponent == n - 1 - fraction IN (v \div 2^fraction) % 2^exponent # 2^exponent - 1

FixedDeclared(f) ==
  /\ f.integer >= 1 /\ f.integer + f.fraction = f.storage /\ f.min <= f.max
  /\ IF f.signed THEN f.min >= -(2^(f.integer-1)) /\ f.max <= 2^(f.integer-1) - 1
                 ELSE f.min >= 0 /\ (f.integer >= 2*MaxBits \/ f.max < 2^f.integer)

MaxInt == 2^(MaxBits-1) - 1
InDomain(previous, v) == v \in 0..MaxInt /\ v > previous

TierFirst(t) == IF t = 1 THEN 2 ELSE Tiers[t-1] + 1

\* core::str::from_utf8, of one and two byte characters
WellFormed(s) == \A i \in DOMAIN s :
  /\ s[i] = Lead => i < Len(s) /\ s[i+1] = Continuation
  /\ s[i] = Continuation => i > 1 /\ s[i-1] = Lead
  /\ s[i] # Surrogate

HasNul(s) == \E i \in DOMAIN s : s[i] = 0

\* the tiers and the lengths of strings fit the types that carry them
ASSUME FormatWidths ==
  /\ \A t \in 1 .. Len(Tiers) :
       TierFirst(t) < Tiers[t] => BitsRequired(Tiers[t] - TierFirst(t)) \in 1 .. 4*MaxBits
  /\ \A n \in 1 .. MaxSize - 1 : BitsRequired(n) \in 1..MaxBits
=============================================================================
