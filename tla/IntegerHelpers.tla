--------------------------- MODULE IntegerHelpers ---------------------------
(***************************************************************************)
(* The integer helpers of src/lib.rs and the arithmetic of a ranged        *)
(* integer of src/stream.rs, in the wrapped unsigned domain that the code  *)
(* works in and at several widths, as a writer and a reader of one field   *)
(* use them.  The streams of this project compute on unbounded integers;   *)
(* what is checked here is that nothing is lost by that.                   *)
(***************************************************************************)
EXTENDS Widths

CONSTANTS WidthsOfInts,         \* 32, 64 and 128 in the code
          Numbers(_),           \* signed integers of so many bits
          Nothing, Refused      \* what is unpacked before a read, and by one that refuses

ASSUME FieldAssumption ==
  /\ WidthsOfInts \subseteq Nat \ {0} /\ WidthsOfInts # {}
  /\ \A w \in WidthsOfInts : Numbers(w) \subseteq -(2^(w-1)) .. 2^(w-1) - 1

VARIABLES width, min, max,      \* the declaration of the field
          sent, code,           \* what was packed (nothing when the code came from elsewhere)
          got                   \* what was unpacked, or that it was refused

fieldVars == <<width, min, max, sent, code, got>>

-----------------------------------------------------------------------------
(* The helpers at width w *)

\* mutant: subtracted as signed integers, a wide range saturates
RangeSaturated(lo, hi, w) == IF hi - lo >= 2^(w-1) THEN 2^(w-1) - 1 ELSE hi - lo

RangeOf(lo, hi, w) == WrappingSub(Unsigned(hi, w), Unsigned(lo, w), w)

\* mutant: the bits of the largest value, not of how many there are
bits_required_of_max(lo, hi, w) == w - LeadingZeros(hi, w)

bits_required(lo, hi, w) == IF lo = hi THEN 0 ELSE w - LeadingZeros(WrappingSub(hi, lo, w), w)

\* all ones when the bit is set
Mask(bit, w) == WrappingSub(0, bit, w)

\* mutant: the sign is shifted out unseen
SignedToUnsignedPlain(n, w) == Unsigned(2 * Unsigned(n, w), w)

signed_to_unsigned(n, w) ==
  LET u == Unsigned(n, w) IN Xor(Unsigned(2 * u, w), Mask(u \div 2^(w-1), w), w)

unsigned_to_signed(n, w) == Signed(Xor(n \div 2, Mask(n % 2, w), w), w)

\* the offset of a ranged value, and the value at an offset
Pack(v, lo, w) == WrappingSub(Unsigned(v, w), Unsigned(lo, w), w)
Unpack(u, lo, w) == Signed(WrappingAdd(u, Unsigned(lo, w), w), w)

Bits(w, lo, hi) == bits_required(0, RangeOf(lo, hi, w), w)

-----------------------------------------------------------------------------
(* A field *)

FieldInit == /\ width \in WidthsOfInts /\ min \in Numbers(width) /\ max \in Numbers(width)
             /\ min < max
             /\ sent = Nothing /\ code = 0 /\ got = Nothing

Write == \E v \in Numbers(width) \cap min..max :
  /\ sent' = v /\ code' = Pack(v, min, width) /\ got' = Nothing
  /\ UNCHANGED <<width, min, max>>

\* a field of so many bits holds any code
Arrive == \E u \in {Unsigned(n, width) : n \in Numbers(width)} :
  /\ u < 2^Bits(width, min, max)
  /\ sent' = Nothing /\ code' = u /\ got' = Nothing
  /\ UNCHANGED <<width, min, max>>

Read ==
  /\ got' = IF code > RangeOf(min, max, width) THEN Refused ELSE Unpack(code, min, width)
  /\ UNCHANGED <<width, min, max, sent, code>>

FieldNext == Write \/ Arrive \/ Read

-----------------------------------------------------------------------------
(* Properties *)

\* "Arithmetic is done in the unsigned domain: max - min overflows signed arithmetic when the range
\* is wider than 2^31": wrapping loses nothing.  The offset is the difference, it fits its bits, the
\* value comes back, and what is refused is exactly what lies past the range.
WrappingIsExact ==
  /\ RangeOf(min, max, width) = max - min
  /\ sent # Nothing => /\ code = sent - min /\ code < 2^Bits(width, min, max)
                       /\ got \in {Nothing, sent}
  /\ got # Nothing => IF code > max - min THEN got = Refused ELSE got = min + code

\* "The guarantee that lets a field widen from 64 to 128 bits without changing the wire": at every
\* width that holds the bounds, a range takes the same bits, as few as hold its last offset, whether
\* they are asked of the range or of its two bounds; and a value has the same code.
WidthsAgree ==
  \A w \in {w \in WidthsOfInts : w >= width} :
    /\ Bits(w, min, max) = BitsRequired(max - min)
    /\ bits_required(Unsigned(min, w), Unsigned(max, w), w) = BitsRequired(max - min)
    /\ sent # Nothing => Pack(sent, min, w) = code

\* "0, -1, +1, -2, +2... becomes 0, 1, 2, 3, 4...": zig-zag is that order, to both ends of the type,
\* and each direction undoes the other.
ZigZagIsTheOrder ==
  \A n \in {min, max} :
    /\ signed_to_unsigned(n, width) = (IF n < 0 THEN -2*n - 1 ELSE 2*n)
    /\ unsigned_to_signed(signed_to_unsigned(n, width), width) = n
    /\ signed_to_unsigned(unsigned_to_signed(Unsigned(n, width), width), width) = Unsigned(n, width)
=============================================================================
