------------------------------ MODULE Controls ------------------------------
(***************************************************************************)
(* The negative controls of src/control.rs: the read stream with ONE       *)
(* refusal rule deleted, which the conformance suite runs to see its       *)
(* vectors fail.  Every step of the read stream is compared with what each *)
(* control that guards the call makes of the same stream.                  *)
(***************************************************************************)
EXTENDS ReadStream

\* the controls that guard each call
Deleted == [int        |-> {"ranged-reconstruction", "ranged-range", "int64-through-double"},
            fixed      |-> {"fixed-degenerate-terminal"},
            float      |-> {"float-finite", "double-finite"},
            compressed |-> {"compressed-float-finite"},
            relative   |-> {"ranged-reconstruction", "ranged-range", "int-relative-canonical"},
            text       |-> {"ranged-range", "align-padding", "string-embedded-nul", "wrong-reason",
                            "string-utf8", "string-utf8-surrogate"},
            bytes      |-> {"align-padding"},
            align      |-> {"align-padding"},
            end        |-> {"end-trailing-data", "end-padding"},
            fail       |-> {"reject-reason"},
            open       |-> {"object-terminal"},
            close      |-> {"object-terminal", "object-latch-rejected"}]

-----------------------------------------------------------------------------
(* The methods with the rule k deleted *)

\* q refused r for error
Fresh(r, q, error) == r.failed = Ok /\ q.failed = error

\* a rule that only refuses: what it refused goes on
Spare(r, q, error) == IF Fresh(r, q, error) THEN [q EXCEPT !.failed = Ok, !.ret = Ok] ELSE q

CutAlign(k, r) == LET q == SerializeAlign(r) IN
  IF k = "align-padding" THEN Spare(r, q, "nonzero_padding") ELSE q

CutBytes(k, r, n) == LET q == CutAlign(k, r) IN
  IF q.ret # Ok THEN q
  ELSE IF n > Remaining(q) \div ByteBits THEN Latch(q, "past_end")
  ELSE Deliver(ReadByteSlice(q, n))

\* mutant: all that remains is read as padding
CutEndWhole(k, r) ==
  CASE k = "end-padding" -> Spare(r, SerializeEnd(r), "nonzero_padding")
    [] k = "end-trailing-data" ->
         IF r.failed # Ok THEN Gate(r) ELSE IF Remaining(r) = 0 THEN r ELSE SkipZeros(r, Remaining(r))

\* without the rule on trailing data, the last bits of all that remains are taken for the padding
CutEnd(k, r) ==
  CASE k = "end-padding" -> Spare(r, SerializeEnd(r), "nonzero_padding")
    [] k = "end-trailing-data" ->
         IF r.failed # Ok THEN Gate(r)
         ELSE IF Remaining(r) % ByteBits = 0 THEN r ELSE SkipZeros(r, Remaining(r) % ByteBits)

\* an i64 that went through a double, and back by a cast that saturates
Doubles == INSTANCE Floats WITH Precision <- DoubleFractionBits + 1, MaxExponent <- 2*MaxBits, One <- 2
MaxWide == 2^(2*MaxBits - 1) - 1
ThroughDouble(v) == LET d == Doubles!Rounded(v, 1) IN IF d > MaxWide THEN MaxWide ELSE d

\* the bounds of a serialize_int, and of a serialize_int64
Narrow(min, max) == -MaxInt - 1 <= min /\ min < max /\ max <= MaxInt
Wide(min, max) == ~Narrow(min, max) /\ -MaxWide - 1 <= min /\ min < max /\ max <= MaxWide

CutNarrow(k, r, min, max) == LET q == SerializeOffset(r, BitsRequired(max - min)) IN
  IF q.ret # Ok THEN q
  ELSE IF q.value > max - min /\ k # "ranged-range" THEN Latch(q, "value_out_of_range")
  ELSE [q EXCEPT !.value = Wrap(q.value + IF k = "ranged-reconstruction" THEN 0 ELSE min, MaxBits, TRUE)]

CutInt(k, r, min, max) == LET q == SerializeInt(r, min, max) IN
  IF Narrow(min, max) THEN CutNarrow(k, r, min, max)
  ELSE IF Wide(min, max) /\ k = "int64-through-double" /\ q.ret = Ok
       THEN [q EXCEPT !.value = ThroughDouble(q.value)] ELSE q

CutFixed(r, f) == LET q == SerializeFixed(r, f) IN
  IF FixedDeclared(f) /\ f.min = f.max THEN [q EXCEPT !.ret = Ok] ELSE q

\* NaN and the infinities of one width
CutFloat(k, r, n, fraction) == LET q == SerializeFloat(r, n, fraction) IN
  IF k = (IF n = MaxBits THEN "float-finite" ELSE "double-finite")
  THEN Spare(r, q, "non_finite_float") ELSE q

CutCompressed(r, f) == Spare(r, SerializeCompressedFloat(r, f), "non_finite_float")

CutTier(k, r, t, previous) ==
  LET yes == SerializeBits(r, 1)
      q == CutInt(k, yes, TierFirst(t), Tiers[t])
  IN  IF yes.ret # Ok \/ t = 0 THEN BoundedTier(r, t, previous)
      ELSE IF q.ret # Ok THEN q ELSE Accept(q, previous, previous + q.value)

CutRelative(k, r, previous) ==
  LET t == Rung(r) IN
  IF k = "int-relative-canonical"
  THEN Spare(r, SerializeIntRelative(r, previous), "non_canonical")
  ELSE IF previous < 0 \/ t > Len(Tiers) THEN SerializeIntRelative(r, previous)
  ELSE CutTier(k, [r EXCEPT !.at = r.at + t], t, previous)

\* utf8_rule_deleted: what follows the lead byte of a surrogate is taken for a continuation, in
\* place, so that a lead byte that was is no lead byte any more
Patched(s) ==
  LET p[i \in 0..Len(s)] ==
        IF i = 0 THEN <<>>
        ELSE Append(p[i-1], IF i > 1 /\ p[i-1][i-1] = Lead /\ s[i] \in {Lead, Surrogate}
                            THEN Continuation ELSE s[i])
  IN  p[Len(s)]

Rendered(s) == [lossy |-> s]

\* mutant: bytes that are no text pass for the rule on NUL
CutEncodingBlind(k, q) ==
  IF k \in {"string-utf8", "wrong-reason"} THEN [q EXCEPT !.value = Rendered(q.value)]
  ELSE IF k = "string-utf8-surrogate" /\ WellFormed(Patched(q.value))
       THEN [q EXCEPT !.value = Patched(q.value)] ELSE Latch(q, "invalid_utf8")

CutEncoding(k, q) ==
  IF k = "string-utf8" THEN [q EXCEPT !.value = Rendered(q.value)]
  ELSE IF k = "string-utf8-surrogate" /\ WellFormed(Patched(q.value))
       THEN [q EXCEPT !.value = Patched(q.value)] ELSE Latch(q, "invalid_utf8")

CutText(k, r, length) == LET q == ReadByteSlice(r, length) IN
  IF HasNul(q.value) /\ k # "string-embedded-nul"
  THEN Latch(q, IF k = "wrong-reason" THEN "invalid_utf8" ELSE "embedded_nul")
  ELSE IF ~WellFormed(q.value) THEN CutEncoding(k, q) ELSE q

CutString(k, r, size) ==
  LET n == CutInt(k, r, 0, size - 1)
      q == CutAlign(k, n)
  IN  IF size \notin 1..MaxSize THEN Latch(r, "value_out_of_range")
      ELSE IF n.ret # Ok THEN n
      ELSE IF q.ret # Ok THEN q
      ELSE IF n.value > Remaining(q) \div ByteBits THEN Latch(q, "past_end")
      ELSE CutText(k, q, n.value)

\* an object between no gates, and one whose own refusal latches nothing
CutClose(k, r, answer) ==
  IF k = "object-terminal" \/ (answer # Ok /\ r.failed = Ok) THEN [r EXCEPT !.ret = answer]
  ELSE Gate(IF answer = Ok THEN r ELSE Latch(r, answer))

Sabotaged(k, c, r) ==
  CASE c.op = "int"        -> Deliver(CutInt(k, r, c.min, c.max))
    [] c.op = "fixed"      -> Deliver(CutFixed(r, c.format))
    [] c.op = "float"      -> Deliver(CutFloat(k, r, c.bits, c.fraction))
    [] c.op = "compressed" -> Deliver(CutCompressed(r, c.quanta))
    [] c.op = "relative"   -> Deliver(CutRelative(k, r, c.previous))
    [] c.op = "text"       -> Deliver(CutString(k, r, c.size))
    [] c.op = "bytes"      -> CutBytes(k, r, c.length)
    [] c.op = "align"      -> CutAlign(k, r)
    [] c.op = "end"        -> CutEnd(k, r)
    [] c.op = "fail"       -> Latch(r, IF c.error = "rejected" THEN "value_out_of_range" ELSE c.error)
    [] c.op = "open"       -> r
    [] c.op = "close"      -> CutClose(k, r, c.answer)

-----------------------------------------------------------------------------
(* Properties *)

\* the reason that the deleted rule refuses for
ReasonOf(k) ==
  CASE k \in {"align-padding", "end-padding"} -> "nonzero_padding"
    [] k \in {"float-finite", "double-finite", "compressed-float-finite"} -> "non_finite_float"
    [] k \in {"string-embedded-nul", "wrong-reason"} -> "embedded_nul"
    [] k \in {"string-utf8", "string-utf8-surrogate"} -> "invalid_utf8"
    [] k = "end-trailing-data" -> "trailing_data"
    [] k = "int-relative-canonical" -> "non_canonical"
    [] k = "ranged-range" -> "value_out_of_range"
    [] k = "reject-reason" -> "rejected"

Exact(v) == \E e \in 0 .. 2*MaxBits : v % 2^e = 0 /\ Doubles!Magnitude(v) <= 2^(e + DoubleFractionBits + 1)

\* the rule k decides call c of stream r, which has the given outcome; every other rule is as it was
Decides(k, c, r, outcome) ==
  CASE k = "ranged-reconstruction"    -> /\ outcome.ret = Ok \/ (c.op = "relative" /\ Fresh(r, outcome, "value_out_of_range"))
                                         /\ c.op = "int" => Narrow(c.min, c.max) /\ c.min # 0
    [] k = "int64-through-double"     -> /\ outcome.ret = Ok /\ Wide(c.min, c.max)
                                         /\ ~Exact(outcome.dest) /\ outcome.dest # MaxWide
    [] k = "fixed-degenerate-terminal" -> r.failed # Ok /\ FixedDeclared(c.format) /\ c.format.min = c.format.max
    [] k = "object-terminal"          -> r.failed # IF c.op = "open" THEN Ok ELSE c.answer
    [] k = "object-latch-rejected"    -> r.failed = Ok /\ c.answer # Ok
    [] OTHER -> /\ Fresh(r, outcome, ReasonOf(k))
                /\ k = "ranged-range" /\ c.op = "int" => Narrow(c.min, c.max)
                /\ k = "ranged-range" /\ c.op = "text" => c.size \in 1..MaxSize
                /\ k = "float-finite" => c.bits = MaxBits
                /\ k = "double-finite" => c.bits = 2*MaxBits

Outcome(q) == [at |-> q.at, failed |-> q.failed, ret |-> q.ret, dest |-> q.dest]
Real == [at |-> bits_read, failed |-> failed, ret |-> result, dest |-> dest]

\* a broken value of a bounded tier is often refused for the same reason, and a byte that is no
\* surrogate may be taken for one
OtherRulesHide(k, c) == c.op = "relative" \/ k = "string-utf8-surrogate"

Sabotages(c) == IF c.op \in DOMAIN Deleted THEN Deleted[c.op] ELSE {}

\* "A sabotage that breaks more than its rule, or less, is a control that measures something other
\* than what it claims" (tests/conformance.rs): on every stream, a reader with one rule deleted does
\* otherwise than the real one, in what it consumes, latches, returns or delivers, exactly where that
\* rule decides the call; so two runs first part there.
BreaksItsRule ==
  [][\A k \in Sabotages(call') :
       LET differs == Outcome(Sabotaged(k, call', Stream)) # Real'
           decides == Decides(k, call', Stream, Real')
       IN  (differs => decides) /\ (decides => differs \/ OtherRulesHide(k, call'))]_vars

\* No rule on what a packet may hold is what keeps a reader inside it: with any one deleted, a call
\* on any stream still reads no bit past the end and trips no assertion ("a panicking vector counts
\* as a failing one", so a control that trapped would break vectors that are not its own).
SafeWithoutIt ==
  [][\A k \in Sabotages(call') :
       LET q == Sabotaged(k, call', Stream) IN q.at <= num_bits /\ q.trapped = trapped]_vars
=============================================================================
