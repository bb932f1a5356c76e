--------------------------- MODULE CompressedFloat ---------------------------
(***************************************************************************)
(* The compressed float of src/stream.rs: a float is quantized over a      *)
(* declared range, sent as an integer, and decoded, every step of it in    *)
(* f32.  One field is written and read, through either entry point: with a *)
(* declaration, from which the constants of the wire are derived on every  *)
(* call, or with constants that were computed before.                      *)
(***************************************************************************)
EXTENDS Floats, Widths

CONSTANTS CodeBits,             \* of an unsigned integer: 32
          Declarations,         \* [min, max, resolution], bad ones included
          Constants,            \* [max, bits, delta, min] computed before, bad ones included
          Values,               \* what is written, NaN and infinities included
          None                  \* no value

\* the types of the arguments; and the floats reach beyond the codes
ASSUME CompressedAssumption ==
  /\ CodeBits \in Nat /\ Precision <= CodeBits /\ One * 2^CodeBits <= Inf
  /\ \A d \in Declarations : IsFloat(d.min) /\ IsFloat(d.max) /\ IsFloat(d.resolution)
  /\ \A p \in Constants : /\ p.max \in 0 .. 2^CodeBits - 1 /\ p.bits \in Nat
                           /\ IsFloat(p.delta) /\ IsFloat(p.min)
  /\ \A v \in Values : IsFloat(v)

VARIABLES checked,              \* whether debug assertions are kept
          declaration,          \* of the field, None when its constants were computed before
          params,               \* its constants
          value,                \* the last value written, None when the code came from elsewhere
          code,                 \* the integer in the packet
          decoded,              \* what was read from it
          outcome               \* of the last call: ok, trap, or the reason of a refusal

vars == <<checked, declaration, params, value, code, decoded, outcome>>

\* the largest float below 2^CodeBits: 4294967040
LargestCode == (2^Precision - 1) * 2^(CodeBits - Precision)

-----------------------------------------------------------------------------
(* Declarations, and the constants derived from them *)

DeclarationConforms(d) ==
  /\ Less(d.min, d.max) /\ Less(0, d.resolution)
  /\ IsFinite(Sub(d.max, d.min)) /\ IsFinite(Div(Sub(d.max, d.min), d.resolution))

\* mutant: no low clamp
ValuesFrom0(delta, resolution) ==
  LET v == Div(delta, resolution) IN
  IF v = NaN THEN One ELSE IF v > LargestCode * One THEN LargestCode * One ELSE v

\* clamped, so that the conversion is defined; NaN lands in the low clamp
Quanta(delta, resolution) ==
  LET v == Div(delta, resolution) IN
  IF v = NaN \/ v < One THEN One ELSE IF v > LargestCode * One THEN LargestCode * One ELSE v

\* serialize_compressed_float_params
Params(d) ==
  LET delta == Sub(d.max, d.min)
      max == ToInt(Ceil(Quanta(delta, d.resolution)), CodeBits)
  IN  [max |-> max, bits |-> BitsRequired(max), delta |-> delta, min |-> d.min]

\* what can be checked without the declaration
ConstantsConform(p) ==
  /\ p.max \in 1..LargestCode /\ p.bits = BitsRequired(p.max)
  /\ Less(0, p.delta) /\ IsFinite(p.delta)

Declared == (declaration # None => DeclarationConforms(declaration)) /\ ConstantsConform(params)

-----------------------------------------------------------------------------
(* Quantization *)

\* the largest value of the range, as it is decoded
Top(p) == Add(p.min, p.delta)

\* what a checked build asserts of a written value
Writable(p, v) == IsFinite(v) /\ IsFinite(Top(p))

\* mutant: min is forgotten
NormalizedFromZero(p, v) ==
  LET n == Div(v, p.delta) IN
  IF n = NaN \/ n < 0 THEN 0 ELSE IF n > One THEN One ELSE n

Normalized(p, v) ==
  LET n == Div(Sub(v, p.min), p.delta) IN
  IF n = NaN \/ n < 0 THEN 0 ELSE IF n > One THEN One ELSE n

\* mutants: no integer clamp; truncated, not rounded
QuantizeUnclamped(p, v) ==
  ToInt(Floor(Add(Mul(Normalized(p, v), FromInt(p.max)), One \div 2)), CodeBits)
QuantizeTruncated(p, v) == ToInt(Floor(Mul(Normalized(p, v), FromInt(p.max))), CodeBits)

Quantize(p, v) ==
  LET c == ToInt(Floor(Add(Mul(Normalized(p, v), FromInt(p.max)), One \div 2)), CodeBits)
  IN  IF c > p.max THEN p.max ELSE c

Decode(p, c) == Add(Mul(Div(FromInt(c), FromInt(p.max)), p.delta), p.min)

-----------------------------------------------------------------------------
(* The field *)

Init == /\ checked \in BOOLEAN
        /\ \/ declaration \in Declarations /\ params = Params(declaration)
           \/ declaration = None /\ params \in Constants
        /\ value = None /\ code = None /\ decoded = None /\ outcome = "ok"

Write == \E v \in Values :
  /\ value' = v
  /\ LET traps == checked /\ ~(Declared /\ Writable(params, v))
     IN  /\ outcome' = IF traps THEN "trap" ELSE "ok"
         /\ code' = IF traps THEN None ELSE Quantize(params, v)
  /\ decoded' = None /\ UNCHANGED <<checked, declaration, params>>

\* the field of a packet holds any code of its bits
Arrive == \E c \in 0 .. 2^params.bits - 1 :
  /\ value = None /\ code = None /\ value' = None /\ code' = c
  /\ decoded' = None /\ outcome' = "ok" /\ UNCHANGED <<checked, declaration, params>>

Read ==
  /\ code # None
  /\ outcome' = (CASE ~Declared \/ code > params.max -> "value_out_of_range"
                   [] Declared /\ code <= params.max /\ ~IsFinite(Decode(params, code)) -> "non_finite_float"
                   [] OTHER -> "ok")
  /\ decoded' = (IF outcome' = "ok" THEN Decode(params, code) ELSE None)
  /\ UNCHANGED <<checked, declaration, params, value, code>>

Next == Write \/ Arrive \/ Read

Spec == Init /\ [][Next]_vars

-----------------------------------------------------------------------------
(* Properties *)

\* Whatever is written in whatever build, NaN and infinities and bad declarations included, the
\* code is one that the field holds and its reader takes: neither above the largest code nor a bit
\* too wide ("clamping after the floor closes both"), and NaN "writes as min rather than corrupting
\* the stream".
CodesFit ==
  value # None /\ code # None => /\ code \in 0..params.max
                                 /\ declaration # None => code < 2^params.bits
                                 /\ value = NaN => code = 0

\* "What can be checked without that declaration" never refuses what was derived from a conforming
\* one, however small or large the count of quanta: the two entry points agree on declarations.
DerivedConform == declaration # None /\ DeclarationConforms(declaration) => ConstantsConform(params)

\* What a checked writer wrote is read, and lies in the declared range as it is decoded: "in
\* [min, min + delta], not in [min, max]" (STANDARD.md).  The ends of the range decode to the ends.
WrittenIsRead ==
  checked /\ value # None /\ code # None =>
    /\ outcome = "ok"
    /\ decoded # None => /\ decoded \in params.min .. Top(params)
                         /\ value <= params.min => decoded = params.min
                         /\ declaration # None /\ value >= declaration.max => decoded = Top(params)

\* a quantum that the roundings of its range cannot fill, nor the smallest subnormal; an offset within
\* the range
Coarse(p) == p.max * 16 <= 2^Precision /\ p.max * 2 <= p.delta /\ Magnitude(p.min) <= p.delta

\* what is written is clamped into the declared range
Clamped(v, d) == IF v < d.min THEN d.min ELSE IF v > d.max THEN d.max ELSE v

\* The tolerance of fuzz_targets/round_trip.rs: over a coarse declaration a value is read within two
\* quanta of what was written.
WithinTwoQuanta ==
  checked /\ declaration # None /\ Coarse(params) /\ value # None /\ decoded # None
    => Magnitude(decoded - Clamped(value, declaration)) <= 2 * declaration.resolution

\* Over a coarse declaration the quantized integer is the encoding: what was decoded from a code is
\* written as that code again, whoever wrote it first.
ReencodesAlike == Declared /\ Coarse(params) /\ decoded # None => Quantize(params, decoded) = code
=============================================================================
