---------------------------- MODULE HelpersProofs ----------------------------
(***************************************************************************)
(* The helpers a caller with a field uses.  The integer helpers compute    *)
(* what they are named for, at every width: wrapping loses nothing, the    *)
(* width of a field does not depend on the type its bounds are kept in,    *)
(* and zig-zag is the order of the magnitudes.  Each is first shown to be  *)
(* the arithmetic on unbounded integers that the streams are modelled      *)
(* with; the field follows.  A copied string is the longest prefix that    *)
(* its field carries: the bytes of a string are laid out character after   *)
(* character, so the boundaries that the walk back passes are the ends of  *)
(* its prefixes and nothing else.                                          *)
(***************************************************************************)
EXTENDS Helpers, NatFacts, SequenceTheorems

\* the signed integers of w bits
SignedInts(w) == -(2^(w-1)) .. 2^(w-1) - 1

\* The size of a type is twice that of its positive half.
LEMMA Halves ==
  ASSUME NEW w \in Nat \ {0}
  PROVE  2^(w-1) \in Nat \ {0} /\ 2^w \in Nat \ {0} /\ 2^w = 2 * 2^(w-1)
<1>1. w - 1 \in Nat /\ (w - 1) + 1 = w
  OBVIOUS
<1> QED BY <1>1, PowerAbove, PowerStep

-----------------------------------------------------------------------------
(* Wrapping *)

\* Whole turns around the type are lost, and nothing else is.
LEMMA Wrapped ==
  ASSUME NEW W \in Nat \ {0}, NEW t \in 0 .. W-1
  PROVE  t % W = t /\ (t + W) % W = t /\ (t - W) % W = t
<1>1. t % W = t
  OBVIOUS
<1>2. (t + W) % W = t
  <2>1. 1 * W + t = t + W
    OBVIOUS
  <2> QED BY <2>1, ModUnique
<1>3. (t - W) % W = t
  <2>1. t - W \in -W .. -1 /\ (t - W) + W = t
    OBVIOUS
  <2> QED BY <2>1, ModNegative
<1> QED BY <1>1, <1>2, <1>3

\* A signed integer as an unsigned one: a negative one goes above the positive half.
LEMMA UnsignedIs ==
  ASSUME NEW w \in Nat \ {0}, NEW v \in SignedInts(w)
  PROVE  /\ Unsigned(v, w) = IF v < 0 THEN v + 2^w ELSE v
         /\ Unsigned(v, w) \in 0 .. 2^w - 1
<1> DEFINE H == 2^(w-1)
           W == 2^w
<1>1. H \in Nat \ {0} /\ W \in Nat \ {0} /\ W = 2 * H /\ v \in -H .. H - 1
  BY Halves DEF SignedInts
<1>2. Unsigned(v, w) = v % W
  BY DEF Unsigned
<1> HIDE DEF H, W
<1>3. CASE v < 0
  <2>1. v \in -W .. -1
    BY <1>1, <1>3
  <2>2. v % W = v + W
    BY <1>1, <2>1, ModNegative
  <2> QED BY <1>1, <1>2, <1>3, <2>1, <2>2 DEF W
<1>4. CASE v >= 0
  <2>1. v \in 0 .. W - 1
    BY <1>1, <1>4
  <2>2. v % W = v
    BY <1>1, <2>1, Wrapped
  <2> QED BY <1>1, <1>2, <1>4, <2>1, <2>2 DEF W
<1> QED BY <1>1, <1>3, <1>4

\* The difference of two integers, in the order that it is taken, is exact in the unsigned domain.
LEMMA DifferenceIsExact ==
  ASSUME NEW w \in Nat \ {0}, NEW a \in SignedInts(w), NEW b \in SignedInts(w), b <= a
  PROVE  /\ WrappingSub(Unsigned(a, w), Unsigned(b, w), w) = a - b
         /\ a - b \in 0 .. 2^w - 1
<1> DEFINE H == 2^(w-1)
           W == 2^w
           x == Unsigned(a, w)
           y == Unsigned(b, w)
<1>1. /\ H \in Nat \ {0} /\ W \in Nat \ {0} /\ W = 2 * H
      /\ a \in -H .. H - 1 /\ b \in -H .. H - 1
  BY Halves DEF SignedInts
<1>2. x = (IF a < 0 THEN a + W ELSE a) /\ y = IF b < 0 THEN b + W ELSE b
  BY UnsignedIs
<1>3. WrappingSub(x, y, w) = (x - y) % W
  BY DEF WrappingSub, Unsigned
<1> HIDE DEF H, W, x, y
<1> DEFINE t == a - b
<1>4. t \in 0 .. W - 1
  BY <1>1
<1>5. x - y = t \/ x - y = t - W
  BY <1>1, <1>2
<1> HIDE DEF t
<1>6. (x - y) % W = t
  BY <1>1, <1>4, <1>5, Wrapped
<1> QED BY <1>3, <1>4, <1>6 DEF t, W, x, y

\* A signed integer comes back from the unsigned domain.
LEMMA SignedIs ==
  ASSUME NEW w \in Nat \ {0}, NEW v \in SignedInts(w)
  PROVE  Signed(IF v < 0 THEN v + 2^w ELSE v, w) = v
<1> DEFINE H == 2^(w-1)
           W == 2^w
           u == IF v < 0 THEN v + W ELSE v
<1>1. H \in Nat \ {0} /\ W \in Nat \ {0} /\ W = 2 * H /\ v \in -H .. H - 1
  BY Halves DEF SignedInts
<1>2. Signed(u, w) = IF u >= H THEN u - W ELSE u
  BY DEF Signed
<1> HIDE DEF H, W
<1>3. (IF u >= H THEN u - W ELSE u) = v
  BY <1>1
<1> QED BY <1>2, <1>3 DEF W

\* The sum of a bound and an offset that stays in the type is exact.
LEMMA SumIsExact ==
  ASSUME NEW w \in Nat \ {0}, NEW lo \in SignedInts(w), NEW u \in Nat, lo + u \in SignedInts(w)
  PROVE  Unpack(u, lo, w) = lo + u
<1> DEFINE H == 2^(w-1)
           W == 2^w
           y == Unsigned(lo, w)
           v == lo + u
           t == IF v < 0 THEN v + W ELSE v
<1>1. /\ H \in Nat \ {0} /\ W \in Nat \ {0} /\ W = 2 * H
      /\ lo \in -H .. H - 1 /\ v \in -H .. H - 1
  BY Halves DEF SignedInts
<1>2. y = IF lo < 0 THEN lo + W ELSE lo
  BY UnsignedIs
<1>3. Unpack(u, lo, w) = Signed((u + y) % W, w)
  BY DEF Unpack, WrappingAdd, Unsigned
<1>4. Signed(t, w) = v
  BY SignedIs
<1> HIDE DEF H, W, y
<1>5. t \in 0 .. W - 1 /\ (u + y = t \/ u + y = t + W)
  BY <1>1, <1>2
<1> HIDE DEF t, v
<1>6. (u + y) % W = t
  BY <1>1, <1>5, Wrapped
<1> QED BY <1>3, <1>4, <1>6 DEF v

-----------------------------------------------------------------------------
(* Counting bits *)

\* Counting the leading zeros of an unsigned integer counts the bits that it takes.
LEMMA LeadingZerosHolds ==
  ASSUME NEW w \in Nat, NEW u \in Nat, u < 2^w
  PROVE  w - LeadingZeros(u, w) = BitsRequired(u)
<1> DEFINE m == BitsRequired(u)
           P(n) == u < 2^(w-n) /\ (n = w \/ u >= 2^(w-n-1))
           z == CHOOSE n \in 0..w : P(n)
<1>1. m \in Nat /\ u < 2^m /\ m <= w /\ \A k \in Nat : u < 2^k => m <= k
  BY BitsRequiredHolds
<1> HIDE DEF m
<1>2. w - m \in 0..w /\ P(w - m)
  <2>1. w - m \in 0..w /\ w - (w - m) = m /\ w - (w - m) - 1 = m - 1
    BY <1>1
  <2>2. m # 0 => u >= 2^(m-1)
    <3>1. SUFFICES ASSUME m # 0 PROVE u >= 2^(m-1)
      OBVIOUS
    <3>2. m - 1 \in Nat /\ ~(m <= m - 1)
      BY <1>1, <3>1
    <3>3. ~(u < 2^(m-1)) /\ 2^(m-1) \in Nat
      BY <1>1, <3>2, PowerAbove
    <3> QED BY <3>3
  <2>3. m = 0 => w - m = w
    BY <1>1
  <2> QED BY <1>1, <2>1, <2>2, <2>3
<1>3. z \in 0..w /\ P(z)
  BY <1>2
<1>4. LeadingZeros(u, w) = z
  BY DEF LeadingZeros
<1> HIDE DEF z
<1>5. w - z \in Nat /\ u < 2^(w-z) /\ m <= w - z
  BY <1>1, <1>3
<1>6. w - z <= m
  <2>1. CASE z = w
    BY <1>1, <2>1
  <2>2. CASE z # w
    <3> DEFINE k == w - z - 1
    <3>1. k \in Nat /\ u >= 2^k /\ w - z = k + 1
      BY <1>3, <2>2
    <3> HIDE DEF k
    <3>2. SUFFICES ASSUME m <= k PROVE FALSE
      BY <1>1, <3>1
    <3>3. 2^m <= 2^k /\ 2^m \in Nat /\ 2^k \in Nat
      BY <1>1, <3>1, <3>2, PowerOrdered, PowerAbove
    <3> QED BY <1>1, <3>1, <3>3
  <2> QED BY <2>1, <2>2
<1>7. w - z = m
  BY <1>1, <1>5, <1>6
<1> QED BY <1>4, <1>7 DEF m

\* The width of a field, asked of its two bounds.
LEMMA RequiredOfBounds ==
  ASSUME NEW w \in Nat \ {0}, NEW lo \in SignedInts(w), NEW hi \in SignedInts(w), lo < hi
  PROVE  bits_required(Unsigned(lo, w), Unsigned(hi, w), w) = BitsRequired(hi - lo)
<1>1. lo \in Int /\ hi \in Int /\ lo <= hi /\ hi - lo # 0
  <2>1. 2^(w-1) \in Nat
    BY Halves
  <2> QED BY <2>1 DEF SignedInts
<1> DEFINE a == Unsigned(lo, w)
           b == Unsigned(hi, w)
           r == hi - lo
<1>2. WrappingSub(b, a, w) = r /\ r \in 0 .. 2^w - 1
  BY <1>1, DifferenceIsExact
<1>3. a # b
  <2>1. SUFFICES ASSUME a = b PROVE FALSE
    OBVIOUS
  <2>2. WrappingSub(a, a, w) = 0
    <3> DEFINE W == 2^w
    <3>1. W \in Nat \ {0} /\ a \in 0 .. W - 1
      BY Halves, UnsignedIs
    <3>2. WrappingSub(a, a, w) = (a - a) % W
      BY DEF WrappingSub, Unsigned
    <3> HIDE DEF W, a
    <3>3. a - a = 0 /\ 0 \in 0 .. W - 1
      BY <3>1
    <3>4. 0 % W = 0
      BY <3>1, <3>3, Wrapped
    <3> QED BY <3>2, <3>3, <3>4
  <2> QED BY <1>1, <1>2, <2>1, <2>2
<1>4. r \in Nat /\ r < 2^w
  <2>1. 2^w \in Nat
    BY Halves
  <2> QED BY <1>2, <2>1
<1>5. bits_required(a, b, w) = w - LeadingZeros(WrappingSub(b, a, w), w)
  BY <1>3 DEF bits_required
<1> HIDE DEF a, b, r
<1>6. bits_required(a, b, w) = BitsRequired(r)
  BY <1>2, <1>4, <1>5, LeadingZerosHolds
<1> QED BY <1>6 DEF a, b, r

\* The width of a field, asked of its range.
LEMMA RequiredOfRange ==
  ASSUME NEW w \in Nat \ {0}, NEW lo \in SignedInts(w), NEW hi \in SignedInts(w), lo < hi
  PROVE  RangeOf(lo, hi, w) = hi - lo /\ Bits(w, lo, hi) = BitsRequired(hi - lo)
<1>1. lo \in Int /\ hi \in Int /\ lo <= hi /\ hi - lo # 0
  <2>1. 2^(w-1) \in Nat
    BY Halves
  <2> QED BY <2>1 DEF SignedInts
<1> DEFINE r == hi - lo
           W == 2^w
<1>2. RangeOf(lo, hi, w) = r /\ r \in 0 .. W - 1 /\ W \in Nat \ {0}
  BY <1>1, DifferenceIsExact, Halves DEF RangeOf
<1>3. WrappingSub(r, 0, w) = (r - 0) % W
  BY DEF WrappingSub, Unsigned
<1>4. Bits(w, lo, hi) = IF 0 = r THEN 0 ELSE w - LeadingZeros(WrappingSub(r, 0, w), w)
  BY <1>2 DEF Bits, bits_required
<1>5. r # 0
  BY <1>1
<1> HIDE DEF r
<1>6. r \in Nat /\ r < W /\ r - 0 = r /\ r % W = r
  <2> HIDE DEF W
  <2> QED BY <1>2, Wrapped
<1>7. Bits(w, lo, hi) = BitsRequired(r)
  BY <1>3, <1>4, <1>5, <1>6, LeadingZerosHolds
<1> QED BY <1>2, <1>7 DEF r

-----------------------------------------------------------------------------
(* Exclusive or *)

\* what bit k-1 adds
Digit(a, b, k) == (((a \div 2^(k-1)) + (b \div 2^(k-1))) % 2) * 2^(k-1)

\* the function that Xor defines, up to w
Summed(f, a, b, w) == f = [k \in 0..w |-> IF k = 0 THEN 0 ELSE f[k-1] + Digit(a, b, k)]

\* A function that starts at zero and adds each bit in turn ends at the exclusive or: the
\* definition has no other solution, by its least counterexample.
LEMMA XorIs ==
  ASSUME NEW w \in Nat, NEW a \in Nat, NEW b \in Nat, NEW c \in [0..w -> Int], c[0] = 0,
         \A k \in 1..w : c[k] = c[k-1] + Digit(a, b, k)
  PROVE  Xor(a, b, w) = c[w]
<1> DEFINE f == CHOOSE f : Summed(f, a, b, w)
           d(k) == Digit(a, b, k)
<1>1. Summed(c, a, b, w)
  <2>1. \A k \in 0..w : c[k] = IF k = 0 THEN 0 ELSE c[k-1] + d(k)
    <3> TAKE k \in 0..w
    <3>1. CASE k = 0
      BY <3>1
    <3>2. CASE k # 0
      <4>1. k \in 1..w
        BY <3>2
      <4> QED BY <3>2, <4>1
    <3> QED BY <3>1, <3>2
  <2> HIDE DEF d
  <2>2. c = [k \in 0..w |-> IF k = 0 THEN 0 ELSE c[k-1] + d(k)]
    <3> DEFINE g == [k \in 0..w |-> IF k = 0 THEN 0 ELSE c[k-1] + d(k)]
    <3>1. \A k \in 0..w : g[k] = c[k]
      BY <2>1
    <3>2. g = [k \in 0..w |-> g[k]]
      OBVIOUS
    <3> HIDE DEF g
    <3>3. g = [k \in 0..w |-> c[k]]
      BY <3>1, <3>2
    <3> QED BY <3>3 DEF g
  <2> QED BY <2>2 DEF Summed, d
<1>2. Summed(f, a, b, w)
  BY <1>1
<1>3. Xor(a, b, w) = f[w]
  BY DEF Xor, Summed, Digit
<1> HIDE DEF f
<1>4. \A k \in 0..w : f[k] = c[k]
  <2> DEFINE Bad == {k \in 0..w : f[k] # c[k]}
  <2> SUFFICES ASSUME Bad # {} PROVE FALSE
    OBVIOUS
  <2>1. PICK k \in Bad : \A y \in Bad : k <= y
    <3>1. Bad \subseteq Nat
      OBVIOUS
    <3> HIDE DEF Bad
    <3> QED BY <3>1, LeastNat
  <2>2. k \in 0..w /\ f[k] = IF k = 0 THEN 0 ELSE f[k-1] + d(k)
    BY <1>2 DEF Summed
  <2>3. k # 0
    BY <2>2
  <2>4. k \in 1..w /\ k - 1 \in 0..w /\ ~(k <= k - 1)
    BY <2>2, <2>3
  <2>5. k - 1 \notin Bad
    <3> HIDE DEF Bad
    <3> QED BY <2>1, <2>4
  <2>6. f[k-1] = c[k-1]
    BY <2>4, <2>5
  <2>7. c[k] = c[k-1] + d(k)
    BY <2>4
  <2> HIDE DEF d
  <2> QED BY <2>2, <2>3, <2>6, <2>7
<1>5. w \in 0..w
  OBVIOUS
<1> QED BY <1>3, <1>4, <1>5

\* One more bit of a number, above the k low ones.
LEMMA NextDigit ==
  ASSUME NEW a \in Nat, NEW k \in Nat
  PROVE  /\ a \div 2^k \in Nat /\ a % 2^k \in 0 .. 2^k - 1
         /\ a % 2^(k+1) = (a % 2^k) + ((a \div 2^k) % 2) * 2^k
<1> DEFINE p == 2^k
           q == a \div p
           s == a % p
           h == q \div 2
           e == q % 2
<1>1. p \in Nat \ {0} /\ 2^(k+1) = 2 * p
  BY PowerAbove, PowerStep
<1>2. q \in Nat /\ s \in 0 .. p - 1 /\ a = q * p + s
  BY <1>1, DivMod
<1> HIDE DEF p
<1> HIDE DEF q, s
<1>3. h \in Nat /\ e \in 0..1 /\ q = h * 2 + e
  BY <1>2, DivMod
<1> HIDE DEF h, e
<1> DEFINE r == s + e * p
<1>4. r \in 0 .. 2 * p - 1
  <2>1. e = 0 \/ e = 1
    BY <1>3
  <2> QED BY <1>1, <1>2, <2>1
<1>5. a = h * (2 * p) + r
  <2>1. q * p = h * (2 * p) + e * p
    <3>1. (h * 2 + e) * p = h * (2 * p) + e * p
      BY <1>1, <1>3
    <3> QED BY <1>3, <3>1
  <2> QED BY <1>1, <1>2, <1>3, <2>1
<1> HIDE DEF r
<1>6. a % (2 * p) = r
  <2> DEFINE W == 2 * p
  <2>1. W \in Nat \ {0} /\ r \in 0 .. W - 1 /\ a = h * W + r
    BY <1>1, <1>4, <1>5
  <2> HIDE DEF W
  <2>2. (h * W + r) % W = r
    BY <1>3, <2>1, ModUnique
  <2> QED BY <2>1, <2>2 DEF W
<1> QED BY <1>1, <1>2, <1>6 DEF r, e, q, s, p

\* Exclusive or with no ones changes nothing.
LEMMA XorNone ==
  ASSUME NEW w \in Nat, NEW a \in 0 .. 2^w - 1
  PROVE  Xor(a, 0, w) = a
<1> DEFINE c == [k \in 0..w |-> a % 2^k]
<1>0. 2^w \in Nat \ {0}
  BY PowerAbove
<1>1. a \in Nat
  BY <1>0
<1>2. c[0] = 0
  <2>1. a % 1 = 0
    BY <1>1
  <2> QED BY <2>1, PowerZero
<1>3. ASSUME NEW k \in 1..w
      PROVE  c[k] = c[k-1] + Digit(a, 0, k)
  <2> DEFINE j == k - 1
             p == 2^j
             q == a \div p
             z == 0 \div p
  <2>1. j \in Nat /\ j + 1 = k /\ j \in 0..w /\ k \in 0..w
    OBVIOUS
  <2>2. q \in Nat /\ a % 2^(j+1) = (a % p) + (q % 2) * p
    BY <1>1, <2>1, NextDigit
  <2>3. p \in Nat \ {0}
    BY <2>1, PowerAbove
  <2> HIDE DEF p
  <2>4. z = 0
    <3>1. 0 * p + 0 = 0 /\ 0 \in 0 .. p - 1
      BY <2>3
    <3>2. (0 * p + 0) \div p = 0
      BY <2>3, <3>1, DivUnique
    <3> QED BY <3>1, <3>2
  <2> HIDE DEF z, q
  <2>5. q + z = q
    BY <2>2, <2>4
  <2>6. c[k] = a % 2^k /\ c[j] = a % p
    BY <2>1 DEF p
  <2>7. c[k] = c[j] + ((q + z) % 2) * p
    BY <2>1, <2>2, <2>5, <2>6
  <2> HIDE DEF c
  <2> QED BY <2>7 DEF q, z, p, Digit
<1>4. c \in [0..w -> Int] /\ c[w] = a
  <2>1. c[w] = a % 2^w
    OBVIOUS
  <2>2. a % 2^w = a
    BY <1>0, Wrapped
  <2>3. ASSUME NEW k \in 0..w PROVE a % 2^k \in Int
    <3> DEFINE p == 2^k
    <3>1. p \in Nat /\ a % p \in 0 .. p - 1
      BY <1>1, NextDigit, PowerAbove
    <3> HIDE DEF p
    <3>2. a % p \in Int
      BY <3>1
    <3> QED BY <3>2 DEF p
  <2> QED BY <2>1, <2>2, <2>3
<1> HIDE DEF c
<1>5. Xor(a, 0, w) = c[w]
  <2>1. 0 \in Nat
    OBVIOUS
  <2> QED BY <1>1, <1>2, <1>3, <1>4, <2>1, XorIs
<1> QED BY <1>4, <1>5

\* Exclusive or with all ones counts down from the largest.
LEMMA XorAll ==
  ASSUME NEW w \in Nat, NEW a \in 0 .. 2^w - 1
  PROVE  Xor(a, 2^w - 1, w) = 2^w - 1 - a
<1> DEFINE W == 2^w
           b == W - 1
           c == [k \in 0..w |-> 2^k - 1 - (a % 2^k)]
<1>0. W \in Nat \ {0}
  BY PowerAbove
<1>1. a \in Nat /\ b \in Nat
  BY <1>0
<1>2. c[0] = 0
  <2>1. a % 1 = 0
    BY <1>1
  <2> QED BY <2>1, PowerZero
<1>3. ASSUME NEW k \in 1..w
      PROVE  c[k] = c[k-1] + Digit(a, b, k)
  <2> DEFINE j == k - 1
             p == 2^j
             q == a \div p
             z == b \div p
             s == a % p
             n == 2^(w-k)
             e == q % 2
  <2>1. j \in Nat /\ j + 1 = k /\ j \in 0..w /\ k \in 0..w /\ w - k \in Nat /\ j + (w - j) = w
        /\ w - j \in Nat /\ (w - k) + 1 = w - j
    OBVIOUS
  <2>2. q \in Nat /\ s \in 0 .. p - 1 /\ a % 2^(j+1) = s + e * p
    BY <1>1, <2>1, NextDigit
  <2>3. p \in Nat \ {0} /\ n \in Nat \ {0} /\ 2^k = 2 * p
    BY <2>1, PowerAbove, PowerStep
  <2>4. W = p * (2 * n)
    <3>1. 2^(j + (w - j)) = 2^j * 2^(w-j)
      BY <2>1, PowerSum
    <3>2. 2^((w-k) + 1) = 2 * 2^(w-k)
      BY <2>1, PowerStep
    <3> QED BY <2>1, <3>1, <3>2
  <2>5. c[k] = 2^k - 1 - (a % 2^k) /\ c[j] = p - 1 - s
    BY <2>1
  <2> HIDE DEF c
  <2> HIDE DEF s
  <2> HIDE DEF e
  <2> HIDE DEF q
  <2> HIDE DEF n
  <2>6. z = 2 * n - 1
    <3> DEFINE m == 2 * n - 1
    <3>1. m \in Nat /\ p - 1 \in 0 .. p - 1
      BY <2>3
    <3>2. m * p + (p - 1) = b
      <4>1. m * p = (2 * n) * p - p
        <5> HIDE DEF p
        <5> QED BY <2>3
      <4>2. (2 * n) * p = W
        <5>1. (2 * n) * p = p * (2 * n)
          <6> HIDE DEF p
          <6> QED BY <2>3
        <5> QED BY <2>4, <5>1
      <4> HIDE DEF p, m, W
      <4>3. m * p \in Int
        BY <2>3, <3>1
      <4> QED BY <1>0, <2>3, <4>1, <4>2, <4>3
    <3> HIDE DEF p, m
    <3>3. (m * p + (p - 1)) \div p = m
      BY <2>3, <3>1, DivUnique
    <3> QED BY <3>2, <3>3 DEF m
  <2> HIDE DEF z
  <2>7. (q + z) % 2 = 1 - e
    <3> DEFINE h == q \div 2
    <3>1. h \in Nat /\ e \in 0..1 /\ q = h * 2 + e
      BY <2>2, DivMod DEF e
    <3> HIDE DEF h
    <3> DEFINE x == h + n - 1 + e
    <3>2. x \in Nat /\ q + z = x * 2 + (1 - e) /\ 1 - e \in 0 .. 2 - 1
      BY <2>3, <2>6, <3>1
    <3> HIDE DEF x
    <3>3. (x * 2 + (1 - e)) % 2 = 1 - e
      BY <3>2, ModUnique
    <3> QED BY <3>2, <3>3
  <2>8. e \in 0..1
    BY <2>2 DEF e
  <2>9. c[k] = c[j] + ((q + z) % 2) * p
    <3>1. c[k] = 2 * p - 1 - (s + e * p)
      BY <2>1, <2>2, <2>3, <2>5
    <3> HIDE DEF p
    <3>2. 2 * p - 1 - (s + e * p) = (p - 1 - s) + (1 - e) * p
      <4>1. e = 0 \/ e = 1
        BY <2>8
      <4> QED BY <2>2, <2>3, <4>1
    <3> QED BY <2>5, <2>7, <3>1, <3>2
  <2> QED BY <2>9 DEF q, z, p, Digit
<1>4. c \in [0..w -> Int] /\ c[w] = b - a
  <2>1. c[w] = W - 1 - (a % W)
    OBVIOUS
  <2>2. a % W = a
    BY <1>0, Wrapped
  <2>3. ASSUME NEW k \in 0..w PROVE 2^k - 1 - (a % 2^k) \in Int
    <3> DEFINE p == 2^k
    <3>1. p \in Nat /\ a % p \in 0 .. p - 1
      BY <1>1, NextDigit, PowerAbove
    <3> HIDE DEF p
    <3>2. p - 1 - (a % p) \in Int
      BY <3>1
    <3> QED BY <3>2 DEF p
  <2> QED BY <2>1, <2>2, <2>3
<1> HIDE DEF c, b
<1>5. Xor(a, b, w) = c[w]
  BY <1>1, <1>2, <1>3, <1>4, XorIs
<1> QED BY <1>4, <1>5 DEF b

-----------------------------------------------------------------------------
(* Zig-zag *)

\* All ones when the bit is set.
LEMMA MaskIs ==
  ASSUME NEW w \in Nat
  PROVE  Mask(0, w) = 0 /\ Mask(1, w) = 2^w - 1
<1> DEFINE W == 2^w
<1>1. W \in Nat \ {0}
  BY PowerAbove
<1>2. Mask(0, w) = (0 - 0) % W /\ Mask(1, w) = (0 - 1) % W
  BY DEF Mask, WrappingSub, Unsigned
<1> HIDE DEF W
<1>3. 0 - 0 \in 0 .. W - 1 /\ 0 - 0 = 0 /\ W - 1 \in 0 .. W - 1 /\ (W - 1) - W = 0 - 1
  BY <1>1
<1>4. (0 - 0) % W = 0 /\ ((W - 1) - W) % W = W - 1
  BY <1>1, <1>3, Wrapped
<1> QED BY <1>2, <1>3, <1>4 DEF W

\* Zig-zag is the order of the magnitudes, a negative number before its opposite.
LEMMA SignedToUnsignedIs ==
  ASSUME NEW w \in Nat \ {0}, NEW n \in SignedInts(w)
  PROVE  /\ signed_to_unsigned(n, w) = IF n < 0 THEN -2*n - 1 ELSE 2*n
         /\ signed_to_unsigned(n, w) \in 0 .. 2^w - 1
<1> DEFINE H == 2^(w-1)
           W == 2^w
           u == Unsigned(n, w)
           d == u \div H
           t == Unsigned(2 * u, w)
<1>1. H \in Nat \ {0} /\ W \in Nat \ {0} /\ W = 2 * H /\ n \in -H .. H - 1
  BY Halves DEF SignedInts
<1>2. u = IF n < 0 THEN n + W ELSE n
  BY UnsignedIs
<1>3. signed_to_unsigned(n, w) = Xor(t, Mask(d, w), w) /\ t = (2 * u) % W
  BY DEF signed_to_unsigned, Unsigned
<1>4. \A a \in 0 .. W - 1 : Xor(a, 0, w) = a /\ Xor(a, W - 1, w) = W - 1 - a
  BY XorNone, XorAll
<1>5. Mask(0, w) = 0 /\ Mask(1, w) = W - 1
  BY MaskIs
<1> HIDE DEF H, W, u, d, t
<1>6. CASE n >= 0
  <2>1. u = n /\ u \in 0 .. H - 1 /\ 0 * H + u = u /\ 2 * u \in 0 .. W - 1
    BY <1>1, <1>2, <1>6
  <2>2. d = 0
    BY <1>1, <2>1, DivUnique DEF d
  <2>3. t = 2 * u
    BY <1>1, <1>3, <2>1, Wrapped
  <2>4. signed_to_unsigned(n, w) = 2 * n /\ 2 * n \in 0 .. W - 1
    BY <1>3, <1>4, <1>5, <2>1, <2>2, <2>3
  <2> QED BY <1>1, <1>6, <2>4 DEF W
<1>7. CASE n < 0
  <2> DEFINE s == n + H
             r == 2*n + W
  <2>1. /\ u = n + W /\ s \in 0 .. H - 1 /\ 1 * H + s = u /\ r \in 0 .. W - 1 /\ r + W = 2 * u
    BY <1>1, <1>2, <1>7
  <2> HIDE DEF s
  <2>2. d = 1
    BY <1>1, <2>1, DivUnique DEF d
  <2>3. t = r
    <3> HIDE DEF r
    <3> QED BY <1>1, <1>3, <2>1, Wrapped
  <2>4. signed_to_unsigned(n, w) = W - 1 - r
    BY <1>3, <1>4, <1>5, <2>1, <2>2, <2>3
  <2>5. W - 1 - r = -2*n - 1 /\ -2*n - 1 \in 0 .. W - 1
    BY <1>1, <1>7
  <2> QED BY <1>7, <2>4, <2>5 DEF W
<1> QED BY <1>1, <1>6, <1>7

\* The way back: the half of an even code, and below zero by as much of an odd one.
LEMMA UnsignedToSignedIs ==
  ASSUME NEW w \in Nat \ {0}, NEW h \in Nat, NEW e \in 0..1, h * 2 + e \in 0 .. 2^w - 1
  PROVE  LET v == IF e = 0 THEN h ELSE -1 - h IN
         v \in SignedInts(w) /\ unsigned_to_signed(h * 2 + e, w) = v
<1> DEFINE H == 2^(w-1)
           W == 2^w
           m == h * 2 + e
           v == IF e = 0 THEN h ELSE -1 - h
           x == Xor(m \div 2, Mask(m % 2, w), w)
<1>1. H \in Nat \ {0} /\ W \in Nat \ {0} /\ W = 2 * H /\ m \in 0 .. W - 1
  BY Halves
<1>2. m \div 2 = h /\ m % 2 = e
  BY DivUnique, ModUnique
<1>3. unsigned_to_signed(m, w) = Signed(x, w)
  BY DEF unsigned_to_signed
<1>4. v \in -H .. H - 1 /\ h \in 0 .. W - 1
  <2> HIDE DEF H, W
  <2> QED BY <1>1
<1>5. v \in SignedInts(w)
  BY <1>4 DEF SignedInts
<1>6. Xor(h, 0, w) = h /\ Xor(h, W - 1, w) = W - 1 - h
  BY <1>4, XorNone, XorAll
<1>7. Mask(0, w) = 0 /\ Mask(1, w) = W - 1
  BY MaskIs
<1>8. Signed(IF v < 0 THEN v + W ELSE v, w) = v
  BY <1>5, SignedIs
<1> HIDE DEF H, W
<1>9. x = IF v < 0 THEN v + W ELSE v
  <2>1. CASE e = 0
    <3>1. x = h
      BY <1>2, <1>6, <1>7, <2>1
    <3> QED BY <2>1, <3>1
  <2>2. CASE e = 1
    <3>1. x = W - 1 - h
      BY <1>2, <1>6, <1>7, <2>2
    <3> HIDE DEF x
    <3> QED BY <1>1, <2>2, <3>1
  <2> QED BY <2>1, <2>2
<1> HIDE DEF x
<1> QED BY <1>3, <1>5, <1>8, <1>9

\* Every integer has a zig-zag code and every code an integer: each direction undoes the other.
LEMMA ZigZagUndone ==
  ASSUME NEW w \in Nat \ {0}, NEW n \in SignedInts(w)
  PROVE  /\ unsigned_to_signed(signed_to_unsigned(n, w), w) = n
         /\ signed_to_unsigned(unsigned_to_signed(Unsigned(n, w), w), w) = Unsigned(n, w)
<1> DEFINE H == 2^(w-1)
           W == 2^w
<1>1. H \in Nat \ {0} /\ W \in Nat \ {0} /\ W = 2 * H /\ n \in -H .. H - 1
  BY Halves DEF SignedInts
<1>2. unsigned_to_signed(signed_to_unsigned(n, w), w) = n
  <2> DEFINE h == IF n < 0 THEN -n - 1 ELSE n
             e == IF n < 0 THEN 1 ELSE 0
  <2>1. h \in Nat /\ e \in 0..1 /\ n = IF e = 0 THEN h ELSE -1 - h
    BY <1>1
  <2>2. signed_to_unsigned(n, w) = h * 2 + e /\ signed_to_unsigned(n, w) \in 0 .. W - 1
    BY <1>1, SignedToUnsignedIs
  <2> HIDE DEF h, e
  <2>3. h * 2 + e \in 0 .. 2^w - 1
    BY <2>2
  <2>4. unsigned_to_signed(h * 2 + e, w) = IF e = 0 THEN h ELSE -1 - h
    BY <2>1, <2>3, UnsignedToSignedIs
  <2> QED BY <2>1, <2>2, <2>4
<1>3. signed_to_unsigned(unsigned_to_signed(Unsigned(n, w), w), w) = Unsigned(n, w)
  <2> DEFINE u == Unsigned(n, w)
             h == u \div 2
             e == u % 2
             v == IF e = 0 THEN h ELSE -1 - h
  <2>1. u \in 0 .. W - 1
    BY UnsignedIs
  <2> HIDE DEF u
  <2>2. u \in Nat
    BY <1>1, <2>1
  <2>3. h \in Nat /\ e \in 0..1 /\ u = h * 2 + e
    BY <2>2, DivMod
  <2> HIDE DEF h, e
  <2>4. v \in SignedInts(w) /\ unsigned_to_signed(u, w) = v
    BY <2>1, <2>3, UnsignedToSignedIs
  <2>5. signed_to_unsigned(v, w) = IF v < 0 THEN -2*v - 1 ELSE 2*v
    BY <2>4, SignedToUnsignedIs
  <2>6. (IF v < 0 THEN -2*v - 1 ELSE 2*v) = u
    BY <2>3
  <2> QED BY <2>4, <2>5, <2>6 DEF u
<1> QED BY <1>2, <1>3

-----------------------------------------------------------------------------
(* The field *)

\* What is packed is the offset of what was sent, and what is unpacked the value at it.
FieldInv ==
  /\ width \in WidthsOfInts /\ min \in SignedInts(width) /\ max \in SignedInts(width) /\ min < max
  /\ code \in Nat
  /\ sent # Nothing => sent \in min..max /\ code = sent - min
  /\ got # Nothing => got = IF code > max - min THEN Refused ELSE min + code

\* The bounds are integers, of a type that has a sign bit.
LEMMA FieldTypes ==
  ASSUME FieldInv
  PROVE  width \in Nat \ {0} /\ min \in Int /\ max \in Int /\ max - min \in Nat
<1>1. width \in Nat \ {0}
  BY FieldAssumption DEF FieldInv
<1>2. 2^(width-1) \in Nat
  BY <1>1, Halves
<1> QED BY <1>1, <1>2 DEF FieldInv, SignedInts

\* The invariant holds at the start, of a caller with an integer or with a string.
LEMMA InitField == Init => FieldInv
<1> SUFFICES ASSUME Init PROVE FieldInv
  OBVIOUS
<1>1. CASE FieldInit
  BY <1>1, FieldAssumption DEF FieldInit, FieldInv, SignedInts
<1>2. CASE NoInteger
  <2>1. width \in WidthsOfInts
    BY <1>2, FieldAssumption DEF NoInteger
  <2>2. 2^(width-1) \in Nat \ {0}
    BY <2>1, FieldAssumption, Halves
  <2>3. -1 \in SignedInts(width) /\ 0 \in SignedInts(width)
    BY <2>2 DEF SignedInts
  <2> QED BY <1>2, <2>1, <2>3 DEF NoInteger, FieldInv
<1> QED BY <1>1, <1>2 DEF Init

\* Every step keeps it.
LEMMA NextField == FieldInv /\ [Next]_vars => FieldInv'
<1> SUFFICES ASSUME FieldInv, [Next]_vars PROVE FieldInv'
  OBVIOUS
<1>1. width \in Nat \ {0} /\ min \in Int /\ max \in Int /\ max - min \in Nat
  BY FieldTypes
<1>2. CASE Write
  <2>1. PICK v \in Numbers(width) \cap min..max :
          /\ sent' = v /\ code' = Pack(v, min, width) /\ got' = Nothing
          /\ UNCHANGED <<width, min, max>>
    BY <1>2 DEF Write
  <2>2. v \in SignedInts(width) /\ v \in min..max /\ min <= v
    BY <1>1, FieldAssumption DEF FieldInv, SignedInts
  <2>3. code' = v - min
    BY <1>1, <2>1, <2>2, DifferenceIsExact DEF Pack, FieldInv
  <2>4. v - min \in Nat
    BY <1>1, <2>2
  <2> QED BY <2>1, <2>2, <2>3, <2>4 DEF FieldInv
<1>3. CASE Arrive
  <2>1. PICK n \in Numbers(width) :
          /\ sent' = Nothing /\ code' = Unsigned(n, width) /\ got' = Nothing
          /\ UNCHANGED <<width, min, max>>
    BY <1>3 DEF Arrive
  <2>2. n \in SignedInts(width)
    BY FieldAssumption DEF FieldInv, SignedInts
  <2>3. code' \in Nat
    <3> DEFINE W == 2^width
    <3>1. W \in Nat /\ code' \in 0 .. W - 1
      BY <1>1, <2>1, <2>2, UnsignedIs, Halves
    <3> HIDE DEF W
    <3> QED BY <3>1
  <2> QED BY <2>1, <2>3 DEF FieldInv
<1>4. CASE Read
  <2>1. /\ got' = IF code > RangeOf(min, max, width) THEN Refused ELSE Unpack(code, min, width)
        /\ UNCHANGED <<width, min, max, sent, code>>
    BY <1>4 DEF Read
  <2>2. RangeOf(min, max, width) = max - min
    BY <1>1, RequiredOfRange DEF FieldInv
  <2>3. ASSUME ~(code > max - min) PROVE Unpack(code, min, width) = min + code
    <3>1. code \in Nat
      BY DEF FieldInv
    <3>2. min + code \in SignedInts(width)
      <4> DEFINE H == 2^(width-1)
      <4>1. H \in Nat /\ min \in -H .. H - 1 /\ max \in -H .. H - 1
        BY <1>1, Halves DEF FieldInv, SignedInts
      <4> HIDE DEF H
      <4>2. min + code \in -H .. H - 1
        BY <1>1, <2>3, <3>1, <4>1
      <4> QED BY <4>2 DEF H, SignedInts
    <3> QED BY <1>1, <3>1, <3>2, SumIsExact DEF FieldInv
  <2> QED BY <2>1, <2>2, <2>3 DEF FieldInv
<1>5. CASE UNCHANGED fieldVars
  BY <1>5 DEF fieldVars, FieldInv
<1> QED BY <1>2, <1>3, <1>4, <1>5 DEF Next, Integer, String, FieldNext, vars

\* It holds of every behaviour.
LEMMA AlwaysField == Spec => []FieldInv
BY InitField, NextField, PTL DEF Spec

\* Wrapping loses nothing: the offset is the difference, fits the bits of the range and comes back
\* as the value, and what is refused is what lies past the range, at every width of an integer.
THEOREM WrappingLosesNothing == Spec => []WrappingIsExact
<1>1. FieldInv => WrappingIsExact
  <2> SUFFICES ASSUME FieldInv PROVE WrappingIsExact
    OBVIOUS
  <2>1. width \in Nat \ {0} /\ min \in Int /\ max \in Int /\ max - min \in Nat
    BY FieldTypes
  <2>2. RangeOf(min, max, width) = max - min /\ Bits(width, min, max) = BitsRequired(max - min)
    BY <2>1, RequiredOfRange DEF FieldInv
  <2>3. ASSUME sent # Nothing PROVE code < 2^Bits(width, min, max)
    <3> DEFINE W == 2^Bits(width, min, max)
    <3>1. W \in Nat /\ max - min < W
      BY <2>1, <2>2, BitsRequiredHolds, PowerAbove
    <3> HIDE DEF W
    <3>2. code \in Nat /\ code <= max - min
      BY <2>1, <2>3 DEF FieldInv
    <3> QED BY <2>1, <3>1, <3>2 DEF W
  <2>4. ASSUME sent # Nothing PROVE got \in {Nothing, sent}
    <3>1. ~(code > max - min) /\ min + code = sent
      BY <2>1, <2>4 DEF FieldInv
    <3> QED BY <3>1 DEF FieldInv
  <2>5. sent # Nothing => code = sent - min
    BY DEF FieldInv
  <2>6. got # Nothing => IF code > max - min THEN got = Refused ELSE got = min + code
    BY DEF FieldInv
  <2> QED BY <2>2, <2>3, <2>4, <2>5, <2>6 DEF WrappingIsExact
<1> QED BY <1>1, AlwaysField, PTL

\* A field takes the same bits and a value has the same code in every type that holds the bounds.
THEOREM WidthsDoNotMatter == Spec => []WidthsAgree
<1>1. FieldInv => WidthsAgree
  <2> SUFFICES ASSUME FieldInv, NEW w \in WidthsOfInts, w >= width
               PROVE  /\ Bits(w, min, max) = BitsRequired(max - min)
                      /\ bits_required(Unsigned(min, w), Unsigned(max, w), w) = BitsRequired(max - min)
                      /\ sent # Nothing => Pack(sent, min, w) = code
    BY DEF WidthsAgree
  <2>1. width \in Nat \ {0} /\ w \in Nat \ {0} /\ min \in Int /\ max \in Int
    BY FieldTypes, FieldAssumption
  <2>2. ASSUME NEW v \in SignedInts(width) PROVE v \in SignedInts(w)
    <3> DEFINE G == 2^(width-1)
               H == 2^(w-1)
    <3>1. width - 1 \in Nat /\ w - 1 \in Nat /\ width - 1 <= w - 1
      BY <2>1
    <3>2. G \in Nat /\ H \in Nat /\ G <= H /\ v \in -G .. G - 1
      BY <2>2, <3>1, PowerAbove, PowerOrdered DEF SignedInts
    <3> HIDE DEF G, H
    <3>3. v \in -H .. H - 1
      BY <3>2
    <3> QED BY <3>3 DEF H, SignedInts
  <2>3. min \in SignedInts(w) /\ max \in SignedInts(w) /\ min < max
    BY <2>2 DEF FieldInv
  <2>4. ASSUME sent # Nothing PROVE Pack(sent, min, w) = code
    <3>1. sent \in min..max /\ code = sent - min /\ min <= sent
      BY <2>1, <2>4 DEF FieldInv
    <3>2. sent \in SignedInts(w)
      BY <2>1, <2>3, <3>1 DEF SignedInts
    <3> QED BY <2>1, <2>3, <3>1, <3>2, DifferenceIsExact DEF Pack
  <2> QED BY <2>1, <2>3, <2>4, RequiredOfRange, RequiredOfBounds
<1> QED BY <1>1, AlwaysField, PTL

\* Zig-zag orders the integers by magnitude up to both ends of their type, and loses none.
THEOREM ZigZagOrders == Spec => []ZigZagIsTheOrder
<1>1. FieldInv => ZigZagIsTheOrder
  <2> SUFFICES ASSUME FieldInv, NEW n \in {min, max}
               PROVE  /\ signed_to_unsigned(n, width) = (IF n < 0 THEN -2*n - 1 ELSE 2*n)
                      /\ unsigned_to_signed(signed_to_unsigned(n, width), width) = n
                      /\ signed_to_unsigned(unsigned_to_signed(Unsigned(n, width), width), width)
                           = Unsigned(n, width)
    BY DEF ZigZagIsTheOrder
  <2>1. width \in Nat \ {0} /\ n \in SignedInts(width)
    BY FieldTypes DEF FieldInv
  <2> QED BY <2>1, SignedToUnsignedIs, ZigZagUndone
<1> QED BY <1>1, AlwaysField, PTL

-----------------------------------------------------------------------------
(* The bytes of a string *)

\* the function that FlattenSeq defines, up to m
Glued(f, seqs, m) == f = [i \in 1..m |-> IF i = 1 THEN seqs[i] ELSE f[i-1] \o seqs[i]]

\* The recursion of FlattenSeq has a solution: by its least counterexample.
LEMMA GluedExists ==
  ASSUME NEW S, NEW seqs \in Seq(Seq(S))
  PROVE  \A m \in 1 .. Len(seqs) : \E f \in [1..m -> Seq(S)] : Glued(f, seqs, m)
<1> DEFINE P(m) == \E f \in [1..m -> Seq(S)] : Glued(f, seqs, m)
           Bad == {m \in 1 .. Len(seqs) : ~P(m)}
<1> SUFFICES ASSUME Bad # {} PROVE FALSE
  OBVIOUS
<1>1. PICK m \in Bad : \A y \in Bad : m <= y
  <2>1. Bad \subseteq Nat
    OBVIOUS
  <2> HIDE DEF Bad
  <2> QED BY <2>1, LeastNat
<1>2. m \in 1 .. Len(seqs) /\ ~P(m) /\ seqs[m] \in Seq(S)
  OBVIOUS
<1>3. CASE m = 1
  <2> DEFINE f == [i \in 1..1 |-> seqs[i]]
  <2>1. f \in [1..1 -> Seq(S)] /\ Glued(f, seqs, 1)
    BY <1>2, <1>3 DEF Glued
  <2> QED BY <2>1, <1>2, <1>3
<1>4. CASE m # 1
  <2>1. m - 1 \in 1 .. Len(seqs) /\ m - 1 \notin Bad /\ m \in Nat
    <3>1. m - 1 \in 1 .. Len(seqs) /\ ~(m <= m - 1)
      BY <1>2, <1>4
    <3> HIDE DEF Bad
    <3> QED BY <1>1, <1>2, <3>1
  <2>2. PICK f \in [1..m-1 -> Seq(S)] : Glued(f, seqs, m-1)
    BY <2>1
  <2> HIDE DEF Bad
  <2> DEFINE g == [i \in 1..m |-> IF i = m THEN f[m-1] \o seqs[m] ELSE f[i]]
  <2>3. g \in [1..m -> Seq(S)]
    <3>1. f[m-1] \o seqs[m] \in Seq(S)
      <4>1. f[m-1] \in Seq(S)
        BY <2>1
      <4> QED BY <1>2, <4>1, ConcatProperties
    <3>2. \A i \in 1..m : i # m => f[i] \in Seq(S)
      BY <2>1
    <3> QED BY <3>1, <3>2
  <2>4. \A i \in 1..m : g[i] = IF i = 1 THEN seqs[i] ELSE g[i-1] \o seqs[i]
    <3> SUFFICES ASSUME NEW i \in 1..m
                 PROVE  g[i] = IF i = 1 THEN seqs[i] ELSE g[i-1] \o seqs[i]
      OBVIOUS
    <3>1. CASE i = m
      <4>1. m - 1 \in 1..m /\ m - 1 # m
        BY <2>1
      <4>2. m \in 1..m
        BY <2>1, <1>2
      <4>3. g[m] = f[m-1] \o seqs[m]
        BY <4>2
      <4>4. g[m-1] = f[m-1]
        BY <4>1
      <4> HIDE DEF g
      <4> QED BY <1>4, <3>1, <4>3, <4>4
    <3>2. CASE i # m
      <4>1. i \in 1 .. m-1
        BY <2>1, <3>2
      <4>2. f[i] = IF i = 1 THEN seqs[i] ELSE f[i-1] \o seqs[i]
        <5> HIDE DEF P, Bad
        <5> QED BY <2>2, <4>1 DEF Glued
      <4>3. i # 1 => i - 1 \in 1..m /\ i - 1 # m
        BY <2>1, <4>1
      <4>4. g[i] = f[i] /\ (i # 1 => g[i-1] = f[i-1])
        BY <3>2, <4>3
      <4> HIDE DEF g
      <4> QED BY <4>2, <4>4
    <3> QED BY <3>1, <3>2
  <2>5. Glued(g, seqs, m)
    BY <2>4 DEF Glued
  <2> HIDE DEF g
  <2> QED BY <1>2, <2>3, <2>5
<1> QED BY <1>3, <1>4

\* Solutions agree as far as what they flatten does.
LEMMA GluedAgree ==
  ASSUME NEW m \in Nat, NEW k \in Nat, m <= k, NEW f, NEW g, NEW s, NEW t,
         Glued(f, s, m), Glued(g, t, k), \A i \in 1..m : s[i] = t[i]
  PROVE  \A i \in 1..m : f[i] = g[i]
<1> DEFINE Bad == {i \in 1..m : f[i] # g[i]}
<1> SUFFICES ASSUME Bad # {} PROVE FALSE
  OBVIOUS
<1>1. PICK i \in Bad : \A y \in Bad : i <= y
  <2>1. Bad \subseteq Nat
    OBVIOUS
  <2> HIDE DEF Bad
  <2> QED BY <2>1, LeastNat
<1>2. i \in 1..m /\ i \in 1..k /\ f[i] # g[i] /\ s[i] = t[i]
  OBVIOUS
<1>3. f[i] = (IF i = 1 THEN s[i] ELSE f[i-1] \o s[i])
  BY <1>2 DEF Glued
<1>4. g[i] = (IF i = 1 THEN t[i] ELSE g[i-1] \o t[i])
  BY <1>2 DEF Glued
<1>5. i # 1 => f[i-1] = g[i-1]
  <2>1. i # 1 => i - 1 \in 1..m /\ ~(i <= i - 1)
    BY <1>2
  <2>2. i # 1 => i - 1 \notin Bad
    <3> HIDE DEF Bad
    <3> QED BY <1>1, <2>1
  <2> QED BY <2>1, <2>2
<1> QED BY <1>2, <1>3, <1>4, <1>5

\* A sequence of sequences is flattened one at a time.
LEMMA FlattenStep ==
  ASSUME NEW S, NEW seqs \in Seq(Seq(S)), NEW e \in Seq(S)
  PROVE  /\ FlattenSeq(seqs) \in Seq(S)
         /\ FlattenSeq(Append(seqs, e)) = FlattenSeq(seqs) \o e
<1> DEFINE n == Len(seqs)
           more == Append(seqs, e)
           f == CHOOSE x : Glued(x, seqs, n)
           g == CHOOSE x : Glued(x, more, n+1)
<1>1. /\ n \in Nat /\ more \in Seq(Seq(S)) /\ Len(more) = n + 1
      /\ \A i \in 1..n : more[i] = seqs[i]
      /\ more[n+1] = e
  BY AppendProperties
<1>2. g \in [1..n+1 -> Seq(S)] /\ Glued(g, more, n+1)
  <2>1. n + 1 \in 1 .. Len(more)
    BY <1>1
  <2>2. PICK h \in [1..n+1 -> Seq(S)] : Glued(h, more, n+1)
    BY <1>1, <2>1, GluedExists
  <2>3. Glued(g, more, n+1)
    BY <2>2
  <2> HIDE DEF g
  <2>4. g = h
    <3>1. \A i \in 1..n+1 : g[i] = h[i]
      BY <1>1, <2>2, <2>3, GluedAgree
    <3>2. g = [i \in 1..n+1 |-> g[i]] /\ h = [i \in 1..n+1 |-> h[i]]
      BY <2>2, <2>3 DEF Glued
    <3> QED BY <3>1, <3>2
  <2> QED BY <2>2, <2>3, <2>4
<1>3. FlattenSeq(more) = g[n+1]
  <2>1. n + 1 # 0 /\ Len(more) # 0
    BY <1>1
  <2> QED BY <1>1, <2>1 DEF FlattenSeq, Glued
<1>4. CASE n = 0
  <2>1. seqs = <<>> /\ FlattenSeq(seqs) = <<>>
    BY <1>4 DEF FlattenSeq
  <2>2. g[1] = e
    BY <1>1, <1>2, <1>4 DEF Glued
  <2>3. <<>> \o e = e /\ <<>> \in Seq(S)
    BY ConcatEmptySeq, EmptySeq
  <2>4. n + 1 = 1
    BY <1>4
  <2> HIDE DEF g, n, more
  <2>5. FlattenSeq(more) = e
    BY <1>3, <2>2, <2>4
  <2> QED BY <2>1, <2>3, <2>5 DEF more
<1>5. CASE n # 0
  <2>1. \E x \in [1..n -> Seq(S)] : Glued(x, seqs, n)
    <3>1. n \in 1 .. Len(seqs)
      BY <1>1, <1>5
    <3> QED BY <3>1, GluedExists
  <2>2. Glued(f, seqs, n)
    BY <2>1
  <2>3. FlattenSeq(seqs) = f[n]
    BY <1>5 DEF FlattenSeq, Glued
  <2> HIDE DEF f, g
  <2>4. f[n] = g[n]
    <3>1. n <= n + 1 /\ n \in 1..n /\ n + 1 \in Nat
      BY <1>1, <1>5
    <3>2. /\ Glued(f, seqs, n) /\ Glued(g, more, n+1)
          /\ \A i \in 1..n : seqs[i] = more[i]
      BY <1>1, <1>2, <2>2
    <3> HIDE DEF more, n
    <3>3. \A i \in 1..n : f[i] = g[i]
      BY <1>1, <3>1, <3>2, GluedAgree
    <3> QED BY <3>1, <3>3
  <2>5. g[n+1] = g[n] \o e /\ g[n] \in Seq(S)
    <3>1. n + 1 \in 1..n+1 /\ n + 1 # 1 /\ (n + 1) - 1 = n /\ n \in 1..n+1
      BY <1>1, <1>5
    <3>2. g[n+1] = g[(n+1)-1] \o more[n+1]
      BY <1>2, <3>1 DEF Glued
    <3> QED BY <1>1, <1>2, <3>1, <3>2
  <2> QED BY <1>3, <2>3, <2>4, <2>5
<1> QED BY <1>4, <1>5

\* the bytes of one character, and of the first k of cs
One(c) == <<c>> \o SubSeq(Continuations, 1, c - 1)
First(cs, k) == BytesOf(SubSeq(cs, 1, k))

\* A character begins with itself and goes on with continuation bytes.
LEMMA OneCharacter ==
  ASSUME NEW c \in 0..4
  PROVE  /\ One(c) \in Seq(Nat) /\ Len(One(c)) \in Nat \ {0} /\ One(c)[1] = c
         /\ \A i \in 2 .. Len(One(c)) : One(c)[i] = Continuation
<1> DEFINE tail == SubSeq(Continuations, 1, c - 1)
<1>1. /\ c - 1 \in Int /\ Continuation \in Nat
      /\ \A i \in 1 .. c - 1 : Continuations[i] = Continuation
  BY DEF Continuations, Continuation
<1>2. /\ tail \in Seq(Nat) /\ Len(tail) \in Nat
      /\ \A i \in 1 .. Len(tail) : tail[i] = Continuation
  <2>1. \A i \in 1 .. c - 1 : Continuations[i] \in Nat
    BY <1>1
  <2>2. /\ tail \in Seq(Nat) /\ Len(tail) = IF 1 <= c - 1 THEN c - 1 - 1 + 1 ELSE 0
        /\ \A i \in 1 .. c - 1 - 1 + 1 : tail[i] = Continuations[1 + i - 1]
    BY <1>1, <2>1, SubSeqProperties
  <2> HIDE DEF tail
  <2>3. \A i \in 1 .. Len(tail) : i \in 1 .. c - 1 - 1 + 1 /\ 1 + i - 1 = i /\ i \in 1 .. c - 1
    BY <2>2
  <2> QED BY <1>1, <2>2, <2>3
<1> HIDE DEF tail
<1>3. <<c>> \in Seq(Nat) /\ Len(<<c>>) = 1 /\ <<c>>[1] = c
  OBVIOUS
<1>4. /\ <<c>> \o tail \in Seq(Nat) /\ Len(<<c>> \o tail) = 1 + Len(tail)
      /\ \A i \in 1 .. 1 + Len(tail) : (<<c>> \o tail)[i] = IF i <= 1 THEN <<c>>[i] ELSE tail[i-1]
  BY <1>2, <1>3, ConcatProperties
<1>5. One(c) = <<c>> \o tail
  BY DEF One, tail
<1>6. \A i \in 2 .. 1 + Len(tail) : i \in 1 .. 1 + Len(tail) /\ ~(i <= 1) /\ i - 1 \in 1 .. Len(tail)
  BY <1>2
<1>7. 1 \in 1 .. 1 + Len(tail) /\ 1 + Len(tail) \in Nat \ {0}
  BY <1>2
<1> QED BY <1>2, <1>3, <1>4, <1>5, <1>6, <1>7

\* One more character.
LEMMA BytesStep ==
  ASSUME NEW cs \in Seq(0..4), NEW c \in 0..4
  PROVE  BytesOf(cs) \in Seq(Nat) /\ BytesOf(Append(cs, c)) = BytesOf(cs) \o One(c)
<1> DEFINE each == [i \in DOMAIN cs |-> One(cs[i])]
           more == Append(cs, c)
           eachMore == [i \in DOMAIN more |-> One(more[i])]
<1>1. Len(cs) \in Nat /\ DOMAIN cs = 1 .. Len(cs) /\ \A i \in 1 .. Len(cs) : cs[i] \in 0..4
  OBVIOUS
<1>2. /\ more \in Seq(0..4) /\ Len(more) = Len(cs) + 1
      /\ \A i \in 1 .. Len(cs) : more[i] = cs[i]
      /\ more[Len(cs)+1] = c
  BY AppendProperties
<1>3. DOMAIN more = 1 .. Len(cs) + 1 /\ \A i \in 1 .. Len(cs) + 1 : more[i] \in 0..4
  BY <1>2
<1>4. each \in Seq(Seq(Nat)) /\ Len(each) = Len(cs) /\ \A i \in 1 .. Len(cs) : each[i] = One(cs[i])
  <2>1. each \in [1 .. Len(cs) -> Seq(Nat)]
    BY <1>1, OneCharacter
  <2> QED BY <1>1, <2>1
<1> HIDE DEF more
<1>5. /\ eachMore \in Seq(Seq(Nat)) /\ Len(eachMore) = Len(cs) + 1
      /\ \A i \in 1 .. Len(cs) + 1 : eachMore[i] = One(more[i])
  <2>1. eachMore \in [1 .. Len(cs) + 1 -> Seq(Nat)]
    BY <1>3, OneCharacter
  <2> QED BY <1>1, <1>3, <2>1
<1>6. BytesOf(cs) = FlattenSeq(each) /\ BytesOf(more) = FlattenSeq(eachMore)
  BY DEF BytesOf, One
<1> HIDE DEF each, eachMore
<1>7. eachMore = Append(each, One(c))
  <2> DEFINE a == Append(each, One(c))
  <2>1. One(c) \in Seq(Nat)
    BY OneCharacter
  <2>2. /\ a \in Seq(Seq(Nat)) /\ Len(a) = Len(cs) + 1
        /\ \A i \in 1 .. Len(cs) : a[i] = each[i]
        /\ a[Len(cs)+1] = One(c)
    BY <1>4, <2>1, AppendProperties
  <2> HIDE DEF a
  <2>3. \A i \in 1 .. Len(cs) + 1 : eachMore[i] = a[i]
    <3> SUFFICES ASSUME NEW i \in 1 .. Len(cs) + 1 PROVE eachMore[i] = a[i]
      OBVIOUS
    <3>1. CASE i = Len(cs) + 1
      BY <1>2, <1>5, <2>2, <3>1
    <3>2. CASE i # Len(cs) + 1
      <4>1. i \in 1 .. Len(cs)
        BY <1>1, <3>2
      <4> QED BY <1>2, <1>4, <1>5, <2>2, <4>1
    <3> QED BY <3>1, <3>2
  <2>4. eachMore = a
    BY <1>5, <2>2, <2>3, SeqEqual
  <2> QED BY <2>4 DEF a
<1>8. One(c) \in Seq(Nat)
  BY OneCharacter
<1> QED BY <1>4, <1>6, <1>7, <1>8, FlattenStep DEF more

\* No characters.
LEMMA NoBytes ==
  ASSUME NEW cs
  PROVE  SubSeq(cs, 1, 0) = <<>> /\ First(cs, 0) = <<>> /\ Len(First(cs, 0)) = 0
<1>1. SubSeq(cs, 1, 0) = <<>>
  BY SubSeqEmpty
<1>2. BytesOf(<<>>) = <<>>
  <2>1. [i \in DOMAIN <<>> |-> <<(<<>>)[i]>> \o SubSeq(Continuations, 1, (<<>>)[i] - 1)] = <<>>
    OBVIOUS
  <2>2. FlattenSeq(<<>>) = <<>>
    BY DEF FlattenSeq
  <2> QED BY <2>1, <2>2 DEF BytesOf
<1>3. First(cs, 0) = <<>>
  BY <1>1, <1>2 DEF First
<1>4. Len(<<>>) = 0
  OBVIOUS
<1> QED BY <1>1, <1>3, <1>4

\* The first k + 1 characters are the first k and one more.
LEMMA FirstStep ==
  ASSUME NEW cs \in Seq(0..4), NEW k \in 0 .. Len(cs) - 1
  PROVE  /\ cs[k+1] \in 0..4
         /\ First(cs, k) \in Seq(Nat) /\ First(cs, k+1) = First(cs, k) \o One(cs[k+1])
<1> DEFINE a == SubSeq(cs, 1, k)
           b == SubSeq(cs, 1, k+1)
<1>1. Len(cs) \in Nat /\ k + 1 \in 1 .. Len(cs) /\ k \in 0 .. Len(cs) /\ (k + 1) - 1 = k /\ k \in Int
  OBVIOUS
<1>2. cs[k+1] \in 0..4
  BY <1>1
<1>3. a \in Seq(0..4)
  <2>1. \A i \in 1..k : cs[i] \in 0..4
    BY <1>1
  <2> QED BY <1>1, <2>1, SubSeqProperties
<1>4. b = Append(a, cs[k+1])
  <2>1. b = SubSeq(cs, 1, (k+1) - 1) \o <<cs[k+1]>>
    <3>1. 1 \in 1 .. Len(cs) /\ k + 1 \in 1 .. Len(cs)
      BY <1>1
    <3> QED BY <3>1, SubSeqRecursiveSecond
  <2> HIDE DEF b
  <2>2. b = a \o <<cs[k+1]>>
    BY <1>1, <2>1
  <2> HIDE DEF a
  <2> QED BY <1>2, <1>3, <2>2, AppendIsConcat
<1>5. First(cs, k) = BytesOf(a) /\ First(cs, k+1) = BytesOf(b)
  BY DEF First
<1> HIDE DEF a, b
<1> QED BY <1>2, <1>3, <1>4, <1>5, BytesStep

\* where the characters of cs are in the bytes of the first k of them
LaidOut(cs, k) ==
  LET b == First(cs, k) IN
  /\ b \in Seq(Nat)
  /\ \A j \in 0 .. k-1 : LET a == First(cs, j) IN
       Len(a) \in 0 .. Len(b) - 1 /\ b[Len(a)+1] = cs[j+1] /\ \A i \in 1 .. Len(a) : b[i] = a[i]
  /\ \A i \in 1 .. Len(b) : b[i] = Continuation \/ \E j \in 0 .. k-1 : i = Len(First(cs, j)) + 1

\* One more character goes after those before it.
LEMMA LaidOutStep ==
  ASSUME NEW cs \in Seq(0..4), NEW k \in 0 .. Len(cs) - 1, LaidOut(cs, k)
  PROVE  LaidOut(cs, k+1)
<1> DEFINE b == First(cs, k)
           o == One(cs[k+1])
           c == First(cs, k+1)
<1>1. k \in Nat /\ cs[k+1] \in 0..4 /\ b \in Seq(Nat) /\ c = b \o o /\ Len(b) \in Nat
  <2>1. k \in Nat
    OBVIOUS
  <2> QED BY <2>1, FirstStep
<1>2. /\ o \in Seq(Nat) /\ Len(o) \in Nat \ {0} /\ o[1] = cs[k+1]
      /\ \A i \in 2 .. Len(o) : o[i] = Continuation
  BY <1>1, OneCharacter
<1> HIDE DEF o
<1>3. /\ c \in Seq(Nat) /\ Len(c) = Len(b) + Len(o)
      /\ \A i \in 1 .. Len(b) + Len(o) : c[i] = IF i <= Len(b) THEN b[i] ELSE o[i - Len(b)]
  <2> HIDE DEF b, c
  <2>1. /\ b \o o \in Seq(Nat) /\ Len(b \o o) = Len(b) + Len(o)
        /\ \A i \in 1 .. Len(b) + Len(o) : (b \o o)[i] = IF i <= Len(b) THEN b[i] ELSE o[i - Len(b)]
    BY <1>1, <1>2, ConcatProperties
  <2>2. c = b \o o
    BY <1>1
  <2> QED BY <2>1, <2>2
<1>4. /\ \A j \in 0 .. k-1 : LET a == First(cs, j) IN
           Len(a) \in 0 .. Len(b) - 1 /\ b[Len(a)+1] = cs[j+1] /\ \A i \in 1 .. Len(a) : b[i] = a[i]
      /\ \A i \in 1 .. Len(b) : b[i] = Continuation \/ \E j \in 0 .. k-1 : i = Len(First(cs, j)) + 1
  BY DEF LaidOut
<1>5. ASSUME NEW j \in 0 .. k
      PROVE  LET a == First(cs, j) IN
             /\ Len(a) \in 0 .. Len(c) - 1 /\ c[Len(a)+1] = cs[j+1]
             /\ \A i \in 1 .. Len(a) : c[i] = a[i]
  <2> DEFINE a == First(cs, j)
  <2>1. CASE j = k
    <3>1. a = b
      BY <2>1
    <3> HIDE DEF a, b, c
    <3>2. Len(b) \in 0 .. Len(c) - 1 /\ Len(b) + 1 \in 1 .. Len(b) + Len(o)
          /\ ~(Len(b) + 1 <= Len(b)) /\ (Len(b) + 1) - Len(b) = 1
      BY <1>1, <1>2, <1>3
    <3>3. c[Len(b)+1] = cs[j+1]
      BY <1>2, <1>3, <2>1, <3>2
    <3>4. \A i \in 1 .. Len(b) : c[i] = b[i]
      BY <1>1, <1>2, <1>3
    <3> QED BY <3>1, <3>2, <3>3, <3>4 DEF a
  <2>2. CASE j # k
    <3>1. j \in 0 .. k-1
      BY <1>1, <2>2
    <3>2. Len(a) \in 0 .. Len(b) - 1 /\ b[Len(a)+1] = cs[j+1] /\ \A i \in 1 .. Len(a) : b[i] = a[i]
      BY <1>4, <3>1
    <3> HIDE DEF a, b, c
    <3>3. \A i \in 1 .. Len(a) + 1 : i \in 1 .. Len(b) + Len(o) /\ i <= Len(b)
      <4> DEFINE n == Len(a)
                 m == Len(b)
                 r == Len(o)
      <4>1. n \in 0 .. m-1 /\ m \in Nat /\ r \in Nat
        BY <1>1, <1>2, <3>2
      <4> HIDE DEF n, m, r
      <4>2. \A i \in 1 .. n+1 : i \in 1 .. m+r /\ i <= m
        BY <4>1
      <4> QED BY <4>2 DEF n, m, r
    <3>4. \A i \in 1 .. Len(a) + 1 : c[i] = b[i]
      BY <1>3, <3>3
    <3>5. Len(a) + 1 \in 1 .. Len(a) + 1 /\ \A i \in 1 .. Len(a) : i \in 1 .. Len(a) + 1
      BY <1>1, <3>2
    <3>6. Len(a) \in 0 .. Len(c) - 1
      BY <1>1, <1>2, <1>3, <3>2
    <3> QED BY <3>2, <3>4, <3>5, <3>6 DEF a
  <2> QED BY <2>1, <2>2
<1>6. ASSUME NEW i \in 1 .. Len(c)
      PROVE  c[i] = Continuation \/ \E j \in 0 .. k : i = Len(First(cs, j)) + 1
  <2>1. CASE i <= Len(b)
    <3>1. i \in 1 .. Len(b) /\ c[i] = b[i]
      BY <1>1, <1>2, <1>3, <2>1
    <3>2. b[i] = Continuation \/ \E j \in 0 .. k-1 : i = Len(First(cs, j)) + 1
      BY <1>4, <3>1
    <3>3. \A j \in 0 .. k-1 : j \in 0 .. k
      BY <1>1
    <3> QED BY <3>1, <3>2, <3>3
  <2>2. CASE i = Len(b) + 1
    BY <1>1, <2>2
  <2>3. CASE i > Len(b) + 1
    <3> DEFINE m == Len(b)
               n == Len(o)
    <3>1. m \in Nat /\ n \in Nat /\ i \in 1 .. m + n /\ i > m + 1
      BY <1>1, <1>2, <1>3, <2>3
    <3>2. c[i] = IF i <= m THEN b[i] ELSE o[i - m]
      BY <1>3, <3>1
    <3> HIDE DEF m, n
    <3>3. i - m \in 2 .. n /\ ~(i <= m)
      BY <3>1
    <3>4. i - Len(b) \in 2 .. Len(o) /\ c[i] = o[i - Len(b)]
      BY <3>2, <3>3 DEF m, n
    <3> QED BY <1>2, <3>4
  <2> QED BY <1>1, <2>1, <2>2, <2>3
<1>7. (k+1) - 1 = k
  BY <1>1
<1> QED BY <1>3, <1>5, <1>6, <1>7 DEF LaidOut

\* The bytes of a string hold its characters in order, and between them continuation bytes alone.
LEMMA StringLaidOut ==
  ASSUME NEW cs \in Seq(0..4)
  PROVE  \A k \in 0 .. Len(cs) : LaidOut(cs, k)
<1> DEFINE Bad == {k \in 0 .. Len(cs) : ~LaidOut(cs, k)}
<1> SUFFICES ASSUME Bad # {} PROVE FALSE
  OBVIOUS
<1>1. PICK k \in Bad : \A y \in Bad : k <= y
  <2>1. Bad \subseteq Nat
    OBVIOUS
  <2> HIDE DEF Bad
  <2> QED BY <2>1, LeastNat
<1>2. k \in 0 .. Len(cs) /\ ~LaidOut(cs, k)
  OBVIOUS
<1>3. CASE k = 0
  <2>1. LaidOut(cs, 0)
    <3> DEFINE b == First(cs, 0)
    <3>1. b = <<>> /\ Len(b) = 0 /\ <<>> \in Seq(Nat)
      BY NoBytes, EmptySeq
    <3> HIDE DEF b
    <3>2. b \in Seq(Nat) /\ \A i \in 1 .. Len(b) : FALSE
      BY <3>1
    <3>3. \A j \in 0 .. 0-1 : FALSE
      OBVIOUS
    <3> QED BY <3>2, <3>3 DEF LaidOut, b
  <2> QED BY <1>2, <1>3, <2>1
<1>4. CASE k # 0
  <2>1. k - 1 \in 0 .. Len(cs) - 1 /\ k - 1 \in 0 .. Len(cs) /\ (k - 1) + 1 = k /\ ~(k <= k - 1)
    BY <1>2, <1>4
  <2>2. k - 1 \notin Bad
    <3> HIDE DEF Bad
    <3> QED BY <1>1, <2>1
  <2>3. LaidOut(cs, k - 1)
    BY <2>1, <2>2
  <2>4. LaidOut(cs, (k - 1) + 1)
    BY <2>1, <2>3, LaidOutStep
  <2> QED BY <1>2, <2>1, <2>4
<1> QED BY <1>3, <1>4

\* All of a string, and the order of its prefixes.
LEMMA PrefixesOrdered ==
  ASSUME NEW cs \in Seq(0..4)
  PROVE  /\ First(cs, Len(cs)) = BytesOf(cs)
         /\ \A k \in 0 .. Len(cs) : First(cs, k) \in Seq(Nat) /\ Len(First(cs, k)) \in Nat
         /\ \A k \in 0 .. Len(cs) : \A j \in 0 .. k-1 : Len(First(cs, j)) < Len(First(cs, k))
<1>1. SubSeq(cs, 1, Len(cs)) = cs
  BY SubSeqFull
<1>2. \A k \in 0 .. Len(cs) : First(cs, k) \in Seq(Nat) /\ Len(First(cs, k)) \in Nat
  BY StringLaidOut DEF LaidOut
<1>3. ASSUME NEW k \in 0 .. Len(cs), NEW j \in 0 .. k-1 PROVE Len(First(cs, j)) < Len(First(cs, k))
  <2>1. Len(First(cs, j)) \in 0 .. Len(First(cs, k)) - 1 /\ Len(First(cs, k)) \in Nat
    BY <1>2, StringLaidOut DEF LaidOut
  <2> QED BY <2>1
<1> QED BY <1>1, <1>2, <1>3 DEF First

\* A sequence that another begins with.
LEMMA PrefixIs ==
  ASSUME NEW b \in Seq(Nat), NEW a \in Seq(Nat), Len(a) <= Len(b),
         \A i \in 1 .. Len(a) : b[i] = a[i]
  PROVE  SubSeq(b, 1, Len(a)) = a
<1> DEFINE n == Len(a)
           s == SubSeq(b, 1, n)
<1>1. n \in Nat /\ n \in Int /\ \A i \in 1..n : b[i] \in Nat
  OBVIOUS
<1>2. /\ s \in Seq(Nat) /\ Len(s) = IF 1 <= n THEN n - 1 + 1 ELSE 0
      /\ \A i \in 1 .. n - 1 + 1 : s[i] = b[1 + i - 1]
  <2> HIDE DEF n
  <2> QED BY <1>1, SubSeqProperties
<1> HIDE DEF s
<1>3. Len(s) = n /\ \A i \in 1..n : i \in 1 .. n - 1 + 1 /\ 1 + i - 1 = i
  BY <1>1, <1>2
<1>4. \A i \in 1 .. Len(s) : s[i] = a[i]
  BY <1>2, <1>3
<1> QED BY <1>2, <1>3, <1>4, SeqEqual DEF s

\* split finds the first NUL character: its byte is one that no other character has.
LEMMA BeforeNulIs ==
  ASSUME NEW cs \in Seq(0..4)
  PROVE  \E z \in 0 .. Len(cs) : /\ BeforeNul(BytesOf(cs)) = First(cs, z)
                                 /\ \A i \in 1..z : cs[i] # NUL
                                 /\ z = Len(cs) \/ cs[z+1] = NUL
<1> DEFINE n == Len(cs)
           b == BytesOf(cs)
           I == {i \in 1 .. Len(b) : b[i] = NUL}
<1>1. b = First(cs, n) /\ LaidOut(cs, n) /\ b \in Seq(Nat) /\ Len(b) \in Nat /\ n \in Nat
  <2>1. n \in Nat /\ n \in 0..n
    OBVIOUS
  <2> QED BY <2>1, PrefixesOrdered, StringLaidOut
<1>2. /\ \A j \in 0 .. n-1 : LET a == First(cs, j) IN
           /\ a \in Seq(Nat) /\ Len(a) \in 0 .. Len(b) - 1 /\ b[Len(a)+1] = cs[j+1]
           /\ \A i \in 1 .. Len(a) : b[i] = a[i]
      /\ \A i \in 1 .. Len(b) : b[i] = Continuation \/ \E j \in 0 .. n-1 : i = Len(First(cs, j)) + 1
  <2>1. \A j \in 0 .. n-1 : j \in 0 .. Len(cs)
    BY <1>1
  <2>2. \A j \in 0 .. n-1 : First(cs, j) \in Seq(Nat)
    BY <2>1, PrefixesOrdered
  <2> HIDE DEF b, n
  <2> QED BY <1>1, <2>2 DEF LaidOut
<1>3. BeforeNul(b) = LET nul == IF I # {} THEN Min(I) ELSE 0
                     IN  IF nul = 0 THEN b ELSE SubSeq(b, 1, nul - 1)
  BY DEF BeforeNul, SelectInSeq
<1>4. NUL # Continuation
  BY DEF NUL, Continuation
<1> HIDE DEF b, n
<1>5. CASE I = {}
  <2>1. BeforeNul(b) = First(cs, n)
    BY <1>1, <1>3, <1>5
  <2>2. ASSUME NEW i \in 1..n PROVE cs[i] # NUL
    <3>1. i - 1 \in 0 .. n-1 /\ (i - 1) + 1 = i
      BY <1>1
    <3> DEFINE m == Len(First(cs, i - 1))
    <3>2. m \in 0 .. Len(b) - 1 /\ b[m+1] = cs[(i - 1) + 1]
      BY <1>2, <3>1
    <3> HIDE DEF m
    <3>3. m + 1 \in 1 .. Len(b)
      BY <1>1, <3>2
    <3> QED BY <1>5, <3>1, <3>2, <3>3
  <2>3. n \in 0 .. Len(cs)
    BY <1>1 DEF n
  <2> QED BY <2>1, <2>2, <2>3 DEF n, b
<1>6. CASE I # {}
  <2> DEFINE m == Min(I)
  <2>1. m \in I /\ \A i \in I : m <= i
    <3>1. I \subseteq Nat
      BY <1>1
    <3> HIDE DEF I
    <3>2. \E x \in I : \A y \in I : x <= y
      BY <1>6, <3>1, LeastNat
    <3> QED BY <3>2 DEF Min
  <2>2. m \in 1 .. Len(b) /\ b[m] = NUL
    BY <2>1
  <2>3. BeforeNul(b) = SubSeq(b, 1, m - 1)
    <3>1. m # 0
      BY <1>1, <2>2
    <3> HIDE DEF I, m
    <3> QED BY <1>3, <1>6, <3>1 DEF m
  <2> HIDE DEF m
  <2>4. PICK z \in 0 .. n-1 : m = Len(First(cs, z)) + 1
    BY <1>2, <1>4, <2>2
  <2> DEFINE a == First(cs, z)
  <2>5. /\ a \in Seq(Nat) /\ Len(a) \in 0 .. Len(b) - 1 /\ b[Len(a)+1] = cs[z+1]
        /\ \A i \in 1 .. Len(a) : b[i] = a[i]
    BY <1>2
  <2>6. cs[z+1] = NUL
    BY <2>2, <2>4, <2>5
  <2>7. SubSeq(b, 1, m - 1) = a
    <3>1. m - 1 = Len(a) /\ Len(a) <= Len(b)
      BY <1>1, <2>4, <2>5
    <3> HIDE DEF a
    <3> QED BY <1>1, <2>5, <3>1, PrefixIs
  <2>8. ASSUME NEW i \in 1..z PROVE cs[i] # NUL
    <3>1. i - 1 \in 0 .. n-1 /\ (i - 1) + 1 = i /\ i - 1 \in 0 .. z-1 /\ z \in 0 .. Len(cs)
      BY <1>1 DEF n
    <3> DEFINE l == Len(First(cs, i - 1))
    <3>2. l \in 0 .. Len(b) - 1 /\ b[l+1] = cs[(i - 1) + 1]
      BY <1>2, <3>1
    <3>3. l < Len(a)
      BY <3>1, PrefixesOrdered
    <3>4. l + 1 \in 1 .. Len(b) /\ ~(m <= l + 1)
      <4> DEFINE u == Len(a)
                 v == Len(b)
      <4>1. u \in 0 .. v-1 /\ m = u + 1 /\ l \in 0 .. v-1 /\ l < u /\ v \in Nat
        BY <1>1, <2>4, <2>5, <3>2, <3>3
      <4> HIDE DEF u, v, l
      <4>2. l + 1 \in 1 .. v /\ ~(m <= l + 1)
        BY <4>1
      <4> QED BY <4>2 DEF v
    <3> HIDE DEF l, a
    <3>5. l + 1 \notin I
      <4> HIDE DEF I
      <4> QED BY <2>1, <3>4
    <3> QED BY <3>1, <3>2, <3>4, <3>5
  <2>9. z \in 0 .. Len(cs)
    BY <1>1 DEF n
  <2> QED BY <2>3, <2>6, <2>7, <2>8, <2>9 DEF b
<1> QED BY <1>5, <1>6

-----------------------------------------------------------------------------
(* The copy *)

\* the bytes there is room for
Room == IF buffer_size = 0 THEN 0
        ELSE IF Len(source) < buffer_size THEN Len(source) ELSE buffer_size - 1

\* the walk back has passed no boundary
Walked == /\ source = BeforeNul(BytesOf(chars)) /\ end \in 0..Room
          /\ \A m \in end + 1 .. Room : ~IsCharBoundary(m)

\* An inductive invariant of the copy.
CopyInv ==
  /\ chars \in Seq(0..4) /\ buffer_size \in Nat
  /\ pc = "walk" => dest = <<>> /\ Walked
  /\ LongestThatFits

\* A walk that stops at a boundary has found the longest prefix that fits: a longer one would end at
\* a boundary that the walk has passed.
LEMMA WalkFindsIt ==
  ASSUME chars \in Seq(0..4), buffer_size \in Nat, Walked, IsCharBoundary(end)
  PROVE  \E p \in Carried : SubSeq(source, 1, end) = BytesOf(p) /\ \A q \in Carried : Len(q) <= Len(p)
<1>1. PICK z \in 0 .. Len(chars) : /\ source = First(chars, z)
                                   /\ \A i \in 1..z : chars[i] # NUL
                                   /\ z = Len(chars) \/ chars[z+1] = NUL
  BY BeforeNulIs DEF Walked
<1>2. Len(chars) \in Nat /\ z \in Nat /\ \A i \in 1 .. Len(chars) : chars[i] \in 0..4
  OBVIOUS
<1>3. /\ \A k \in 0 .. Len(chars) : First(chars, k) \in Seq(Nat) /\ Len(First(chars, k)) \in Nat
      /\ \A k \in 0 .. Len(chars) : \A j \in 0 .. k-1 : Len(First(chars, j)) < Len(First(chars, k))
  BY PrefixesOrdered
<1>4. /\ source \in Seq(Nat) /\ Len(source) \in Nat
      /\ \A j \in 0 .. z-1 : LET a == First(chars, j) IN
           /\ Len(a) \in 0 .. Len(source) - 1 /\ source[Len(a)+1] = chars[j+1]
           /\ \A i \in 1 .. Len(a) : source[i] = a[i]
      /\ \A i \in 1 .. Len(source) :
           source[i] = Continuation \/ \E j \in 0 .. z-1 : i = Len(First(chars, j)) + 1
  BY <1>1, <1>3, StringLaidOut DEF LaidOut
<1>5. /\ Room \in 0 .. Len(source) /\ (buffer_size # 0 => Room < buffer_size)
      /\ buffer_size = 0 => Room = 0
      /\ \A m \in Nat : m < buffer_size /\ m <= Len(source) => m <= Room
  BY <1>4 DEF Room
<1>6. /\ end \in 0..Room /\ end \in Nat /\ Room \in Nat
      /\ \A m \in end + 1 .. Room : ~IsCharBoundary(m)
  BY <1>5 DEF Walked
<1>7. PICK j \in 0..z : end = Len(First(chars, j))
  <2>1. CASE end = 0
    BY <1>2, <2>1, NoBytes
  <2>2. CASE end = Len(source)
    BY <1>1, <1>2, <2>2
  <2>3. CASE end \in 1 .. Len(source) - 1
    <3>1. source[end+1] # Continuation /\ end + 1 \in 1 .. Len(source)
      BY <1>4, <2>3 DEF IsCharBoundary
    <3>2. PICK j \in 0 .. z-1 : end + 1 = Len(First(chars, j)) + 1
      BY <1>4, <3>1
    <3>3. j \in 0 .. Len(chars) /\ j \in 0..z
      BY <1>2
    <3>4. Len(First(chars, j)) \in Nat
      BY <1>3, <3>3
    <3> QED BY <1>6, <3>2, <3>3, <3>4
  <2> QED BY <1>4, <1>5, <1>6, <2>1, <2>2, <2>3
<1> DEFINE a == First(chars, j)
           p == SubSeq(chars, 1, j)
<1>8. SubSeq(source, 1, end) = a
  <2>1. j \in 0 .. Len(chars)
    BY <1>2
  <2>2. a \in Seq(Nat) /\ Len(a) = end
    BY <1>3, <1>7, <2>1
  <2>3. \A i \in 1 .. Len(a) : source[i] = a[i]
    <3>1. CASE j = z
      BY <1>1, <3>1
    <3>2. CASE j # z
      <4>1. j \in 0 .. z-1
        BY <1>2, <3>2
      <4> QED BY <1>4, <4>1
    <3> QED BY <3>1, <3>2
  <2>4. Len(a) <= Len(source)
    BY <1>5, <1>6, <2>2
  <2> HIDE DEF a
  <2> QED BY <1>4, <2>2, <2>3, <2>4, PrefixIs
<1>9. ASSUME NEW l \in 0 .. Len(chars)
      PROVE  /\ Len(SubSeq(chars, 1, l)) = l
             /\ \A i \in 1..l : SubSeq(chars, 1, l)[i] = chars[i]
  <2> DEFINE s == SubSeq(chars, 1, l)
  <2>1. l \in Int /\ \A i \in 1..l : chars[i] \in 0..4
    BY <1>2
  <2>2. /\ Len(s) = IF 1 <= l THEN l - 1 + 1 ELSE 0
        /\ \A i \in 1 .. l - 1 + 1 : s[i] = chars[1 + i - 1]
    BY <2>1, SubSeqProperties
  <2> HIDE DEF s
  <2>3. \A i \in 1..l : i \in 1 .. l - 1 + 1 /\ 1 + i - 1 = i
    OBVIOUS
  <2> QED BY <1>2, <2>2, <2>3 DEF s
<1>10. j \in 0 .. Len(chars) /\ Len(p) = j /\ BytesOf(p) = a
  <2>1. j \in 0 .. Len(chars)
    BY <1>2
  <2> QED BY <1>9, <2>1 DEF First
<1>11. p \in Carried
  <2>1. CASE j = 0
    BY <2>1, NoBytes DEF Carried
  <2>2. CASE j # 0
    <3>1. p \in Prefixes(chars)
      BY <1>10 DEF Prefixes
    <3>2. ~Contains(p, NUL)
      <4>1. \A i \in 1..j : p[i] # NUL
        <5>1. \A i \in 1..j : i \in 1..z
          BY <1>2
        <5>2. \A i \in 1..j : p[i] = chars[i]
          BY <1>9, <1>10
        <5> QED BY <1>1, <5>1, <5>2
      <4> QED BY <1>10, <4>1 DEF Contains
    <3>3. Len(BytesOf(p)) < buffer_size
      <4>1. 0 \in 0 .. j-1
        BY <1>10, <2>2
      <4>2. Len(First(chars, 0)) < end
        BY <1>3, <1>7, <1>10, <4>1
      <4>3. end > 0
        BY <1>6, <4>2, NoBytes
      <4> QED BY <1>5, <1>6, <1>7, <1>10, <4>3
    <3> QED BY <3>1, <3>2, <3>3 DEF Carried
  <2> QED BY <2>1, <2>2
<1>12. ASSUME NEW q \in Carried PROVE Len(q) <= Len(p)
  <2>1. CASE q = <<>>
    BY <1>10, <2>1
  <2>2. CASE q \in Prefixes(chars) /\ ~Contains(q, NUL) /\ Len(BytesOf(q)) < buffer_size
    <3>1. PICK l \in 0 .. Len(chars) : q = SubSeq(chars, 1, l)
      BY <2>2 DEF Prefixes
    <3>2. Len(q) = l /\ \A i \in 1..l : q[i] = chars[i]
      BY <1>9, <3>1
    <3> DEFINE m == Len(First(chars, l))
    <3>3. m \in Nat /\ m < buffer_size /\ l \in Nat
      BY <1>3, <2>2, <3>1 DEF First
    <3>4. l <= z
      <4>1. SUFFICES ASSUME l > z PROVE FALSE
        BY <1>2, <3>3
      <4>2. z + 1 \in 1..l /\ z # Len(chars)
        BY <1>2, <4>1
      <4>3. q[z+1] = NUL
        BY <1>1, <3>2, <4>2
      <4> QED BY <2>2, <3>2, <4>2, <4>3 DEF Contains
    <3>5. l <= j
      <4>1. SUFFICES ASSUME l > j PROVE FALSE
        BY <1>10, <3>3
      <4>2. end < m
        <5>1. j \in 0 .. l-1
          BY <1>10, <4>1
        <5> QED BY <1>3, <1>7, <5>1
      <4>3. l = z => m = Len(source)
        BY <1>1
      <4>4. l # z => m \in 0 .. Len(source) - 1 /\ source[m+1] = chars[l+1] /\ chars[l+1] \in 0..4
        <5>1. l # z => l \in 0 .. z-1 /\ l + 1 \in 1 .. Len(chars)
          BY <1>2, <3>3, <3>4
        <5> QED BY <1>2, <1>4, <5>1
      <4> HIDE DEF m
      <4>5. m <= Len(source) /\ m \in end + 1 .. Room
        BY <1>4, <1>5, <1>6, <3>3, <4>2, <4>3, <4>4
      <4>6. m \in 1 .. Len(source) - 1 /\ source[m+1] = Continuation
        BY <1>6, <4>5 DEF IsCharBoundary
      <4>7. l # z
        BY <1>4, <4>3, <4>6
      <4> QED BY <4>4, <4>6, <4>7 DEF Continuation
    <3> QED BY <1>10, <3>2, <3>5
  <2> QED BY <2>1, <2>2 DEF Carried
<1> HIDE DEF p, a
<1> QED BY <1>8, <1>10, <1>11, <1>12

\* The copy keeps its invariant: one step per action.
LEMMA CopyKeeps == CopyInv /\ CopyNext => CopyInv'
<1> SUFFICES ASSUME CopyInv, CopyNext PROVE CopyInv'
  OBVIOUS
<1> USE DEF CopyInv
<1>1. CASE Call
  <2>1. chars' \in Seq(0..4) /\ buffer_size' \in Nat
    BY <1>1, CopyAssumption DEF Call
  <2>2. CASE Trap
    <3>1. pc' = "idle" /\ outcome' = "trap"
      BY <1>1, <2>2 DEF Call, Trap
    <3>2. LongestThatFits'
      BY <3>1 DEF LongestThatFits
    <3> QED BY <2>1, <3>1, <3>2
  <2>3. CASE Start
    <3>1. /\ dest' = <<>> /\ pc' = "walk" /\ source' = BeforeNul(BytesOf(chars'))
          /\ end' = (IF buffer_size' = 0 THEN 0
                     ELSE IF Len(source') < buffer_size' THEN Len(source') ELSE buffer_size' - 1)
      BY <2>3 DEF Start
    <3>2. end' = Room'
      BY <3>1 DEF Room
    <3>3. Room' \in Nat
      <4>1. PICK z \in 0 .. Len(chars') : source' = First(chars', z)
        BY <2>1, <3>1, BeforeNulIs
      <4>2. Len(source') \in Nat
        BY <2>1, <4>1, PrefixesOrdered
      <4>3. \A n, b \in Nat : (IF b = 0 THEN 0 ELSE IF n < b THEN n ELSE b - 1) \in Nat
        OBVIOUS
      <4>4. (IF buffer_size' = 0 THEN 0 ELSE IF Len(source') < buffer_size' THEN Len(source')
             ELSE buffer_size' - 1) \in Nat
        BY <2>1, <4>2, <4>3
      <4> QED BY <4>4 DEF Room
    <3>4. end' \in 0 .. Room' /\ \A m \in end' + 1 .. Room' : FALSE
      <4> DEFINE room == Room'
      <4>1. room \in Nat /\ end' = room
        BY <3>2, <3>3
      <4> HIDE DEF room
      <4>2. end' \in 0 .. room /\ \A m \in end' + 1 .. room : FALSE
        BY <4>1
      <4> QED BY <4>2 DEF room
    <3>5. Walked'
      BY <3>1, <3>4 DEF Walked
    <3>6. LongestThatFits'
      BY <3>1 DEF LongestThatFits
    <3> QED BY <2>1, <3>1, <3>5, <3>6
  <2> QED BY <1>1, <2>2, <2>3 DEF Call
<1>2. CASE WalkBack
  <2>1. /\ pc = "walk" /\ ~IsCharBoundary(end) /\ end' = end - 1
        /\ UNCHANGED <<checked, chars, buffer_size, source, pc, dest, outcome>>
    BY <1>2 DEF WalkBack
  <2>2. Room' = Room
    BY <2>1 DEF Room
  <2>3. \A m : IsCharBoundary(m)' = IsCharBoundary(m)
    BY <2>1 DEF IsCharBoundary
  <2>4. end \in 1 .. Len(source) - 1 /\ end \in 0..Room /\ Room \in Nat
    <3>1. end \in 1 .. Len(source) - 1 /\ end \in 0..Room /\ source = BeforeNul(BytesOf(chars))
      BY <2>1 DEF IsCharBoundary, Walked
    <3>2. PICK z \in 0 .. Len(chars) : source = First(chars, z)
      BY <3>1, BeforeNulIs
    <3>3. Len(source) \in Nat
      BY <3>2, PrefixesOrdered
    <3> QED BY <3>1, <3>3 DEF Room
  <2>5. end' \in 0..Room /\ \A m \in end' + 1 .. Room : m = end \/ m \in end + 1 .. Room
    BY <2>1, <2>4
  <2>6. \A m \in end' + 1 .. Room : ~IsCharBoundary(m)
    BY <2>1, <2>5 DEF Walked
  <2>7. Walked'
    BY <2>1, <2>2, <2>3, <2>5, <2>6 DEF Walked
  <2>8. LongestThatFits'
    BY <2>1 DEF LongestThatFits
  <2> QED BY <2>1, <2>7, <2>8
<1>3. CASE Copy
  <2>1. /\ pc = "walk" /\ IsCharBoundary(end) /\ dest' = dest \o SubSeq(source, 1, end)
        /\ pc' = "idle" /\ UNCHANGED <<checked, chars, buffer_size, source, end>>
    BY <1>3 DEF Copy
  <2>2. PICK p \in Carried : /\ SubSeq(source, 1, end) = BytesOf(p)
                             /\ \A q \in Carried : Len(q) <= Len(p)
    BY <2>1, WalkFindsIt
  <2>3. BytesOf(p) \in Seq(Nat)
    <3>1. p = <<>> \/ \E l \in 0 .. Len(chars) : p = SubSeq(chars, 1, l)
      BY DEF Carried, Prefixes
    <3>2. p = <<>> => p = SubSeq(chars, 1, 0) /\ 0 \in 0 .. Len(chars)
      BY NoBytes
    <3> QED BY <3>1, <3>2, PrefixesOrdered DEF First
  <2>4. dest' = BytesOf(p)
    BY <2>1, <2>2, <2>3, ConcatEmptySeq
  <2>5. Carried' = Carried
    BY <2>1 DEF Carried
  <2>6. LongestThatFits'
    BY <2>2, <2>4, <2>5 DEF LongestThatFits
  <2> QED BY <2>1, <2>6
<1> QED BY <1>1, <1>2, <1>3 DEF CopyNext

\* The invariant of the copy holds of every behaviour of a caller with a field.
LEMMA AlwaysCopy == Spec => []CopyInv
<1>1. Init => CopyInv
  <2>1. CopyInit => CopyInv
    <3> SUFFICES ASSUME CopyInit PROVE CopyInv
      OBVIOUS
    <3>1. chars = <<>> /\ buffer_size = 0 /\ pc = "idle" /\ outcome = "none" /\ <<>> \in Seq(0..4)
      BY EmptySeq DEF CopyInit
    <3> QED BY <3>1 DEF CopyInv, LongestThatFits
  <2> QED BY <2>1 DEF Init
<1>2. CopyInv /\ [Next]_vars => CopyInv'
  <2> SUFFICES ASSUME CopyInv, [Next]_vars PROVE CopyInv'
    OBVIOUS
  <2>1. CASE UNCHANGED copyVars
    <3>1. UNCHANGED <<chars, buffer_size, source, end, pc, dest, outcome>>
      BY <2>1 DEF copyVars
    <3>2. LongestThatFits'
      BY <3>1 DEF CopyInv, LongestThatFits, Carried
    <3>3. pc' = "walk" => Walked'
      BY <3>1 DEF CopyInv, Walked, Room, IsCharBoundary
    <3> QED BY <3>1, <3>2, <3>3 DEF CopyInv
  <2>2. CASE CopyNext
    BY <2>2, CopyKeeps
  <2> QED BY <2>1, <2>2 DEF Next, Integer, String, vars
<1> QED BY <1>1, <1>2, PTL DEF Spec

\* A copied string is the longest prefix that its field carries, for every string, every field and
\* whatever the destination held before.
THEOREM CopiesTheLongest == Spec => []LongestThatFits
<1>1. CopyInv => LongestThatFits
  BY DEF CopyInv
<1> QED BY <1>1, AlwaysCopy, PTL
=============================================================================
