------------------------ MODULE CompressedFloatProofs ------------------------
(***************************************************************************)
(* A compressed float fits its field, is read when a checked writer wrote  *)
(* it, and lies in the declared range, for floats of every precision and   *)
(* exponent, every declaration and every value.                            *)
(*                                                                         *)
(* All of it follows from two facts about rounding, at whatever step: it   *)
(* is monotone, and a float rounds to itself.  So a quotient of two        *)
(* ordered floats is at most 1.0, a product by it at most the other        *)
(* factor, and a sum with that between the sums with the ends.             *)
(***************************************************************************)
EXTENDS CompressedFloat, NatFacts

\* How 1.0 and infinity are counted.
LEMMA Units ==
  /\ Precision \in Nat /\ Precision >= 2 /\ MaxExponent \in Nat
  /\ \E k \in 1..MaxExponent : One = 2^k /\ One \div 2 = 2^(k-1)
  /\ One \in Nat /\ One >= 2 /\ One \div 2 \in 1 .. One - 1 /\ One = 2 * (One \div 2)
  /\ Inf \in Nat /\ One < Inf /\ NaN \in Nat /\ Inf < NaN
<1>1. PICK k \in 1..MaxExponent : One = 2^k
  BY FloatAssumption
<1>2. Precision \in Nat /\ Precision >= 2 /\ MaxExponent \in Nat
  BY FloatAssumption
<1>3. k - 1 \in Nat /\ k \in Nat /\ (k-1) + 1 = k /\ Precision + MaxExponent \in Nat /\ k < Precision + MaxExponent
  BY <1>2
<1> DEFINE h == 2^(k-1)
           i == 2^(Precision + MaxExponent)
<1>4. h \in Nat /\ h > 0 /\ One = 2 * h /\ One \in Nat
  <2>1. 2^((k-1) + 1) = 2 * h
    BY <1>3, PowerStep
  <2>2. h \in Nat /\ k - 1 < h
    BY <1>3, PowerAbove
  <2>3. One = 2 * h
    BY <1>1, <1>3, <2>1
  <2> HIDE DEF h
  <2> QED BY <1>3, <2>2, <2>3
<1>5. i \in Nat /\ 2 * One <= i
  <2>1. i \in Nat /\ 2 * 2^k <= i
    BY <1>3, PowerAbove, PowerOrdered
  <2> HIDE DEF i
  <2> QED BY <1>1, <2>1
<1>6. Inf = i /\ NaN = 2 * Inf
  BY DEF Inf, NaN
<1> HIDE DEF i
<1>7. One \div 2 = h /\ One >= 2 /\ h < One
  <2> HIDE DEF h
  <2> QED BY <1>4
<1>8. \E j \in 1..MaxExponent : One = 2^j /\ One \div 2 = 2^(j-1)
  BY <1>1, <1>7
<1> HIDE DEF h
<1> QED BY <1>2, <1>4, <1>5, <1>6, <1>7, <1>8

-----------------------------------------------------------------------------
(* Rounding *)

\* Quotients are ordered as their fractions are.
LEMMA DivOrdered ==
  ASSUME NEW m \in Nat, NEW c \in Nat \ {0}, NEW n \in Nat, NEW d \in Nat \ {0}, m * d <= n * c
  PROVE  /\ m \div c <= n \div d
         /\ m \div c = n \div d => (m % c) * d <= (n % d) * c
<1> DEFINE p == m \div c
           r == m % c
           q == n \div d
           s == n % d
           z == c * d
           a == p * z
           b == q * z
           x == r * d
           y == s * c
<1>1. p \in Nat /\ r \in 0 .. c-1 /\ m = p * c + r /\ q \in Nat /\ s \in 0 .. d-1 /\ n = q * d + s
  BY DivMod
<1> HIDE DEF p, q, r, s
<1>2. m * d = a + x /\ n * c = b + y
  BY <1>1
<1>3. z \in Nat \ {0} /\ a \in Nat /\ b \in Nat /\ x \in Nat /\ y \in Nat
  <2>1. z \in Nat \ {0}
    BY <1>1
  <2> HIDE DEF z
  <2> QED BY <1>1, <2>1
<1>4. y < z
  <2>1. s * c + c <= d * c
    BY <1>1, MultiplesOrdered
  <2>2. d * c = z
    BY <1>1
  <2> QED BY <1>1, <1>3, <2>1, <2>2
<1>5. q < p => b + z <= a
  <2> HIDE DEF z
  <2> QED BY <1>1, <1>3, MultiplesOrdered DEF a, b
<1>6. a + x <= b + y
  BY <1>2
<1>7. p = q => a = b
  OBVIOUS
<1> HIDE DEF a, b, x, y, z
<1>8. p <= q /\ (p = q => x <= y)
  BY <1>1, <1>3, <1>4, <1>5, <1>6, <1>7
<1> QED BY <1>8 DEF p, q, r, s, x, y

\* Rounding to an integer is monotone,
LEMMA HalfEvenOrdered ==
  ASSUME NEW m \in Nat, NEW c \in Nat \ {0}, NEW n \in Nat, NEW d \in Nat \ {0}, m * d <= n * c
  PROVE  HalfEven(m, c) <= HalfEven(n, d) /\ HalfEven(m, c) \in Nat /\ HalfEven(n, d) \in Nat
<1> DEFINE p == m \div c
           r == m % c
           q == n \div d
           s == n % d
           x == r * d
           y == s * c
           z == c * d
<1>1. p \in Nat /\ r \in 0 .. c-1 /\ q \in Nat /\ s \in 0 .. d-1
  BY DivMod
<1>2. p <= q /\ (p = q => x <= y)
  BY DivOrdered
<1>3. /\ HalfEven(m, c) = IF 2 * r > c \/ (2 * r = c /\ p % 2 = 1) THEN p + 1 ELSE p
      /\ HalfEven(n, d) = IF 2 * s > d \/ (2 * s = d /\ q % 2 = 1) THEN q + 1 ELSE q
  BY DEF HalfEven
<1> HIDE DEF p, q, r, s
<1>4. x \in Nat /\ y \in Nat /\ z \in Nat
  BY <1>1
<1>5. (2 * r > c => 2 * x > z) /\ (2 * r = c => 2 * x = z)
  <2>1. c < 2 * r => c * d + d <= (2 * r) * d
    BY <1>1, MultiplesOrdered
  <2>2. (2 * r) * d = 2 * x
    BY <1>1
  <2> QED BY <1>1, <1>4, <2>1, <2>2
<1>6. (2 * s <= d => 2 * y <= z) /\ (2 * s < d => 2 * y < z)
  <2>1. /\ 2 * s <= d => (2 * s) * c <= d * c
        /\ 2 * s < d => (2 * s) * c + c <= d * c
    BY <1>1, MultiplesOrdered
  <2>2. (2 * s) * c = 2 * y /\ d * c = z
    BY <1>1
  <2> QED BY <1>1, <1>4, <2>1, <2>2
<1> HIDE DEF x, y, z
<1>7. CASE p < q
  BY <1>1, <1>2, <1>3, <1>7
<1>8. CASE p = q
  <2>1. 2 * r > c => 2 * s > d
    BY <1>1, <1>2, <1>4, <1>5, <1>6, <1>8
  <2>2. 2 * r = c => 2 * s >= d
    BY <1>1, <1>2, <1>4, <1>5, <1>6, <1>8
  <2> QED BY <1>1, <1>3, <1>8, <2>1, <2>2
<1> QED BY <1>1, <1>2, <1>7, <1>8

\* and exact for a multiple.
LEMMA HalfEvenExact ==
  ASSUME NEW k \in Nat, NEW d \in Nat \ {0}
  PROVE  HalfEven(k * d, d) = k
<1>1. (k * d + 0) \div d = k /\ (k * d + 0) % d = 0
  BY DivUnique, ModUnique
<1>2. k * d + 0 = k * d
  OBVIOUS
<1>3. (k * d) \div d = k /\ (k * d) % d = 0
  BY <1>1, <1>2
<1> QED BY <1>3 DEF HalfEven

\* So what is rounded stays between integers.
LEMMA HalfEvenBetween ==
  ASSUME NEW n \in Nat, NEW d \in Nat \ {0}, NEW k \in Nat
  PROVE  /\ HalfEven(n, d) \in Nat
         /\ n <= k * d => HalfEven(n, d) <= k
         /\ k * d <= n => k <= HalfEven(n, d)
<1>1. HalfEven(k * 1, 1) = k
  BY HalfEvenExact
<1>2. k * 1 = k /\ n * 1 = n
  OBVIOUS
<1>3. n <= k * d => HalfEven(n, d) <= HalfEven(k, 1)
  BY <1>2, HalfEvenOrdered
<1>4. k * d <= n => HalfEven(k, 1) <= HalfEven(n, d)
  BY <1>2, HalfEvenOrdered
<1>5. HalfEven(n, d) \in Nat
  BY HalfEvenOrdered
<1> QED BY <1>1, <1>2, <1>3, <1>4, <1>5

-----------------------------------------------------------------------------
(* The nearest float *)

\* Every quotient below infinity has an exponent.
LEMMA ExponentIs ==
  ASSUME NEW n \in Nat, NEW d \in Nat \ {0}, n \div d < Inf
  PROVE  /\ n \div d \in Nat /\ Exponent(n, d) \in 0..MaxExponent
         /\ n \div d < 2^(Precision + Exponent(n, d))
         /\ Exponent(n, d) # 0 => 2^(Precision + Exponent(n, d) - 1) <= n \div d
<1> DEFINE q == n \div d
           T == {e \in Nat : q < 2^(Precision + e)}
           Fits(e) == q < 2^(Precision + e) /\ (e = 0 \/ q >= 2^(Precision + e - 1))
<1>1. q \in Nat
  BY DivMod
<1> HIDE DEF q
<1>2. MaxExponent \in T /\ Precision \in Nat /\ MaxExponent \in Nat
  BY Units DEF Inf, q
<1>3. PICK e \in T : \A y \in T : e <= y
  <2>1. T \subseteq Nat /\ T # {}
    BY <1>2
  <2> HIDE DEF T
  <2> QED BY <2>1, LeastNat
<1>4. e \in 0..MaxExponent
  BY <1>2, <1>3
<1>5. e # 0 => q >= 2^(Precision + e - 1)
  <2> SUFFICES ASSUME e # 0 PROVE q >= 2^(Precision + e - 1)
    OBVIOUS
  <2>1. e - 1 \in Nat /\ ~(e <= e - 1) /\ Precision + (e - 1) = Precision + e - 1
    BY <1>2, <1>4
  <2>2. e - 1 \notin T
    <3> HIDE DEF T
    <3> QED BY <1>3, <2>1
  <2>3. ~(q < 2^(Precision + (e - 1)))
    BY <2>1, <2>2
  <2>4. 2^(Precision + (e - 1)) \in Nat
    BY <1>2, <2>1, PowerAbove
  <2> DEFINE x == 2^(Precision + (e - 1))
  <2>5. x <= q
    <3> HIDE DEF x
    <3>1. x \in Nat /\ ~(q < x)
      BY <2>3, <2>4 DEF x
    <3> QED BY <1>1, <3>1
  <2> QED BY <2>1, <2>5
<1>6. Fits(e)
  BY <1>3, <1>5
<1>7. Exponent(n, d) = CHOOSE x \in 0..MaxExponent : Fits(x)
  BY DEF Exponent, q
<1> HIDE DEF Fits
<1>8. Exponent(n, d) \in 0..MaxExponent /\ Fits(Exponent(n, d))
  BY <1>4, <1>6, <1>7
<1> QED BY <1>1, <1>8 DEF Fits, q

\* The nearest float is a significand, normal above the lowest exponent, of some units.
LEMMA Significand ==
  ASSUME NEW n \in Nat, NEW d \in Nat \ {0}, n \div d < Inf
  PROVE  LET e == Exponent(n, d)
             m == HalfEven(n, d * 2^e)
         IN  /\ e \in 0..MaxExponent /\ m \in 0 .. 2^Precision
             /\ Nearest(n, d) = m * 2^e
             /\ e # 0 => 2^(Precision - 1) <= m
<1> DEFINE e == Exponent(n, d)
           u == 2^e
           g == d * u
           m == HalfEven(n, g)
           q == n \div d
           t == 2^Precision
           h == 2^(Precision - 1)
<1>1. q \in Nat /\ e \in 0..MaxExponent /\ e \in Nat
  <2> HIDE DEF q, e
  <2>1. q \in Nat /\ e \in 0..MaxExponent
    BY ExponentIs DEF q, e
  <2> QED BY <2>1, Units
<1>2. Precision \in Nat /\ Precision - 1 \in Nat
  BY Units
<1>3. q < t * u
  <2>1. q < 2^(Precision + e)
    BY ExponentIs
  <2>2. 2^(Precision + e) = t * u
    BY <1>1, <1>2, PowerSum
  <2> QED BY <2>1, <2>2
<1>4. e # 0 => h * u <= q
  <2> SUFFICES ASSUME e # 0 PROVE h * u <= q
    OBVIOUS
  <2>1. 2^(Precision + e - 1) <= q
    BY ExponentIs
  <2>2. Precision + e - 1 = (Precision - 1) + e
    BY <1>1, <1>2
  <2>3. 2^((Precision - 1) + e) = h * u
    BY <1>1, <1>2, PowerSum
  <2> QED BY <2>1, <2>2, <2>3
<1>5. u \in Nat \ {0} /\ t \in Nat /\ h \in Nat
  <2>1. u \in Nat /\ e < u /\ t \in Nat /\ h \in Nat
    BY <1>1, <1>2, PowerAbove
  <2> HIDE DEF u, t, h, e
  <2> QED BY <1>1, <2>1
<1>6. ~(q >= Inf)
  <2>1. q < Inf /\ Inf \in Nat
    BY Units
  <2> HIDE DEF q
  <2> QED BY <1>1, <2>1
<1>7. Nearest(n, d) = m * u
  BY <1>6 DEF Nearest
<1> DEFINE r == n % d
<1>8. n = q * d + r /\ r \in 0 .. d-1
  BY DivMod
<1> HIDE DEF q, r, u, t, h, e
<1>9. g \in Nat \ {0}
  BY <1>5
<1>10. n <= t * g
  <2> DEFINE z == t * u
  <2>1. z \in Nat
    BY <1>5
  <2> HIDE DEF z
  <2>2. q * d + d <= z * d
    BY <1>1, <1>3, <2>1, MultiplesOrdered DEF z
  <2>3. z * d \in Nat /\ q * d \in Nat
    BY <1>1, <2>1
  <2>4. n <= z * d
    BY <1>8, <2>2, <2>3
  <2>5. z * d = t * g
    BY <1>5 DEF z
  <2> QED BY <2>4, <2>5
<1>11. e # 0 => h * g <= n
  <2> SUFFICES ASSUME e # 0 PROVE h * g <= n
    OBVIOUS
  <2> DEFINE z == h * u
  <2>1. z \in Nat
    BY <1>5
  <2> HIDE DEF z
  <2>2. z * d <= q * d
    BY <1>1, <1>4, <2>1, MultiplesOrdered DEF z
  <2>3. z * d \in Nat /\ q * d \in Nat
    BY <1>1, <2>1
  <2>4. z * d <= n
    BY <1>8, <2>2, <2>3
  <2>5. z * d = h * g
    BY <1>5 DEF z
  <2> QED BY <2>4, <2>5
<1> HIDE DEF g
<1>12. m \in Nat /\ m <= t /\ (e # 0 => h <= m)
  BY <1>5, <1>9, <1>10, <1>11, HalfEvenBetween
<1>13. m \in 0..t
  BY <1>5, <1>12
<1> QED BY <1>1, <1>7, <1>12, <1>13 DEF e, u, g, t, h

\* the magnitudes of floats
Representable(x) == x = Inf \/ \E m \in 0 .. 2^Precision - 1, e \in 0..MaxExponent : x = m * 2^e

\* Infinity is the binade after the last.
LEMMA Binades ==
  ASSUME NEW e \in 0..MaxExponent
  PROVE  /\ 2^e \in Nat \ {0} /\ 2^Precision \in Nat /\ 2^(Precision - 1) \in Nat
         /\ 2^Precision = 2 * 2^(Precision - 1) /\ 2^(Precision - 1) > 0
         /\ 2^Precision * 2^e \in Nat /\ 2^Precision * 2^e = 2^(Precision + e)
         /\ 2^Precision * 2^e <= Inf
         /\ e = MaxExponent => 2^Precision * 2^e = Inf
         /\ 2^(e+1) = 2 * 2^e
<1> DEFINE u == 2^e
           t == 2^Precision
           h == 2^(Precision - 1)
           v == 2^(e+1)
           i == 2^(Precision + e)
<1>1. Precision \in Nat /\ Precision - 1 \in Nat /\ MaxExponent \in Nat /\ e \in Nat
      /\ Precision + e \in Nat /\ Precision + MaxExponent \in Nat /\ (Precision - 1) + 1 = Precision
  BY Units
<1>2. u \in Nat /\ e < u /\ t \in Nat /\ h \in Nat /\ Precision - 1 < h
  BY <1>1, PowerAbove
<1>3. v = 2 * u
  BY <1>1, PowerStep
<1>4. t = 2 * h
  <2>1. 2^((Precision - 1) + 1) = 2 * h
    BY <1>1, PowerStep
  <2> QED BY <1>1, <2>1
<1>5. i = t * u
  BY <1>1, PowerSum
<1>6. i <= Inf
  BY <1>1, PowerOrdered DEF Inf
<1>7. e = MaxExponent => i = Inf
  BY DEF Inf
<1> HIDE DEF u, t, h, v, i
<1>8. u \in Nat \ {0} /\ h > 0 /\ t * u \in Nat
  BY <1>1, <1>2
<1> QED BY <1>2, <1>3, <1>4, <1>5, <1>6, <1>7, <1>8 DEF u, t, h, v, i

\* What is nearest is a float,
LEMMA NearestIsFloat ==
  ASSUME NEW n \in Nat, NEW d \in Nat \ {0}
  PROVE  Nearest(n, d) \in 0..Inf /\ Representable(Nearest(n, d))
<1>1. CASE n \div d >= Inf
  <2>1. Nearest(n, d) = Inf
    BY <1>1 DEF Nearest
  <2> QED BY <2>1, Units DEF Representable
<1>2. CASE ~(n \div d >= Inf)
  <2> DEFINE e == Exponent(n, d)
             m == HalfEven(n, d * 2^e)
             u == 2^e
             t == 2^Precision
             h == 2^(Precision - 1)
             x == Nearest(n, d)
  <2>1. n \div d < Inf
    <3>1. n \div d \in Nat /\ Inf \in Nat
      BY DivMod, Units
    <3> QED BY <1>2, <3>1
  <2>2. e \in 0..MaxExponent /\ m \in 0..t /\ x = m * u
    BY <2>1, Significand
  <2> HIDE DEF e, m, x
  <2>3. /\ u \in Nat \ {0} /\ t \in Nat /\ h \in Nat /\ t = 2 * h /\ h > 0
        /\ t * u \in Nat /\ t * u <= Inf /\ (e = MaxExponent => t * u = Inf) /\ 2^(e+1) = 2 * u
    BY <2>2, Binades
  <2>4. Inf \in Nat /\ MaxExponent \in Nat
    BY Units
  <2> DEFINE v == 2^(e+1)
  <2>5. h * v = t * u
    <3>1. v = 2 * u
      BY <2>3
    <3> HIDE DEF v, u, h, t
    <3> QED BY <2>3, <3>1
  <2>6. x \in 0..Inf
    <3> HIDE DEF u, t, h
    <3>1. m * u <= t * u /\ m * u \in Nat
      BY <2>2, <2>3, MultiplesOrdered
    <3> QED BY <2>2, <2>3, <2>4, <3>1
  <2>7. CASE m # t
    <3>1. m \in 0 .. t - 1
      <4> HIDE DEF t
      <4> QED BY <2>2, <2>3, <2>7
    <3>2. Representable(x)
      BY <2>2, <3>1 DEF Representable
    <3> QED BY <2>6, <3>2 DEF x
  <2>8. CASE m = t /\ e = MaxExponent
    <3>1. x = Inf
      BY <2>2, <2>3, <2>8
    <3> QED BY <2>6, <3>1 DEF x, Representable
  <2>9. CASE m = t /\ e # MaxExponent
    <3>1. e + 1 \in 0..MaxExponent
      BY <2>2, <2>4, <2>9
    <3>2. h \in 0 .. t - 1
      <4> HIDE DEF t, h
      <4> QED BY <2>3
    <3>3. x = h * v
      BY <2>2, <2>5, <2>9
    <3>4. Representable(x)
      BY <3>1, <3>2, <3>3 DEF Representable
    <3> QED BY <2>6, <3>4 DEF x
  <2> QED BY <2>7, <2>8, <2>9
<1> QED BY <1>1, <1>2

\* and a float is nearest to itself.
LEMMA NearestExact ==
  ASSUME NEW x \in Nat, Representable(x), NEW d \in Nat \ {0}
  PROVE  Nearest(x * d, d) = x
<1> DEFINE n == x * d
<1>1. n \in Nat /\ n \div d = x
  <2>1. (x * d + 0) \div d = x
    BY DivUnique
  <2>2. x * d + 0 = x * d /\ x * d \in Nat
    OBVIOUS
  <2> QED BY <2>1, <2>2
<1>2. CASE x >= Inf
  <2>1. Nearest(n, d) = Inf
    BY <1>1, <1>2 DEF Nearest
  <2>2. x = Inf
    <3> SUFFICES ASSUME NEW m \in 0 .. 2^Precision - 1, NEW e \in 0..MaxExponent, x = m * 2^e
                 PROVE  x < Inf
      BY <1>2, Units DEF Representable
    <3> DEFINE u == 2^e
               t == 2^Precision
    <3>1. u \in Nat \ {0} /\ t \in Nat /\ t * u \in Nat /\ t * u <= Inf /\ x = m * u
      BY Binades
    <3>2. m \in Nat /\ m < t
      <4> HIDE DEF t
      <4>1. m \in 0 .. t - 1
        BY DEF t
      <4> QED BY <3>1, <4>1
    <3> HIDE DEF u, t
    <3>3. m * u + u <= t * u /\ m * u \in Nat
      BY <3>1, <3>2, MultiplesOrdered
    <3> QED BY <3>1, <3>3, Units
  <2> QED BY <2>1, <2>2
<1>3. CASE x < Inf
  <2>1. PICK m \in 0 .. 2^Precision - 1, e \in 0..MaxExponent : x = m * 2^e
    BY <1>3, Units DEF Representable
  <2> DEFINE g == Exponent(n, d)
             v == 2^g
             u == 2^e
             w == 2^(e - g)
             t == 2^Precision
             c == HalfEven(n, d * v)
  <2>2. g \in 0..MaxExponent /\ Nearest(n, d) = c * v
    BY <1>1, <1>3, Significand
  <2>3. g # 0 => 2^(Precision + g - 1) <= x
    BY <1>1, <1>3, ExponentIs
  <2> HIDE DEF g
  <2>4. u \in Nat \ {0} /\ v \in Nat \ {0} /\ t \in Nat /\ t * u \in Nat /\ t * u = 2^(Precision + e)
    BY <2>1, <2>2, Binades
  <2>5. Precision \in Nat /\ MaxExponent \in Nat
    BY Units
  <2>6. m \in Nat /\ m * u < t * u /\ x = m * u
    <3>1. m \in 0 .. t - 1 /\ x = m * u
      BY <2>1
    <3> HIDE DEF u, t
    <3>2. m \in Nat /\ m < t
      BY <2>4, <3>1
    <3>3. m * u + u <= t * u /\ m * u \in Nat
      BY <2>4, <3>2, MultiplesOrdered
    <3> QED BY <2>4, <3>1, <3>2, <3>3
  <2>7. g <= e
    <3> SUFFICES ASSUME e < g PROVE FALSE
      BY <2>1, <2>2, <2>5
    <3>1. g # 0 /\ Precision + e \in Nat /\ Precision + g - 1 \in Nat /\ Precision + e <= Precision + g - 1
      BY <2>1, <2>2, <2>5
    <3>2. 2^(Precision + e) <= 2^(Precision + g - 1)
      BY <3>1, PowerOrdered
    <3>3. 2^(Precision + g - 1) \in Nat /\ 2^(Precision + g - 1) <= x
      BY <2>3, <3>1, PowerAbove
    <3> DEFINE y == 2^(Precision + g - 1)
    <3>4. t * u <= y /\ y <= x /\ y \in Nat
      BY <2>4, <3>2, <3>3
    <3> HIDE DEF y, t, u
    <3> QED BY <2>4, <2>6, <3>4
  <2>8. e - g \in Nat /\ w \in Nat /\ u = w * v
    <3>1. e - g \in Nat /\ g \in Nat /\ (e - g) + g = e
      BY <2>1, <2>2, <2>5, <2>7
    <3>2. 2^((e - g) + g) = w * v
      BY <3>1, PowerSum
    <3> QED BY <3>1, <3>2, PowerAbove
  <2> HIDE DEF u, v, w, t, c
  <2> DEFINE k == m * w
  <2>9. k \in Nat /\ d * v \in Nat \ {0} /\ n = k * (d * v) /\ x = k * v
    <3>1. x = m * (w * v)
      BY <2>6, <2>8
    <3>2. m * (w * v) = k * v /\ k \in Nat /\ d * v \in Nat \ {0}
      BY <2>4, <2>6, <2>8
    <3> HIDE DEF k
    <3>3. (k * v) * d = k * (d * v)
      BY <2>4, <3>2
    <3> QED BY <3>1, <3>2, <3>3
  <2> HIDE DEF k, n
  <2>10. c = k
    BY <2>9, HalfEvenExact DEF c
  <2> QED BY <2>2, <2>9, <2>10 DEF n
<1> QED BY <1>2, <1>3, Units

\* Rounding to a float is monotone, whatever the two fractions.
LEMMA NearestOrdered ==
  ASSUME NEW m \in Nat, NEW c \in Nat \ {0}, NEW n \in Nat, NEW d \in Nat \ {0}, m * d <= n * c
  PROVE  Nearest(m, c) <= Nearest(n, d)
<1> DEFINE p == m \div c
           q == n \div d
           x == Nearest(m, c)
           y == Nearest(n, d)
<1>1. p \in Nat /\ q \in Nat /\ p <= q /\ Inf \in Nat
  BY DivMod, DivOrdered, Units
<1>2. x \in 0..Inf /\ y \in 0..Inf
  BY NearestIsFloat
<1>3. CASE q >= Inf
  <2>1. y = Inf
    BY <1>3 DEF Nearest
  <2> HIDE DEF x, y
  <2> QED BY <1>1, <1>2, <2>1 DEF x, y
<1>4. CASE q < Inf
  <2> DEFINE e == Exponent(m, c)
             f == Exponent(n, d)
             a == HalfEven(m, c * 2^e)
             b == HalfEven(n, d * 2^f)
             t == 2^Precision
             h == 2^(Precision - 1)
             u == 2^e
             v == 2^f
  <2>1. p < Inf
    <3> HIDE DEF p, q
    <3> QED BY <1>1, <1>4
  <2>2. e \in 0..MaxExponent /\ a \in 0..t /\ x = a * u /\ p < 2^(Precision + e)
        /\ (e # 0 => 2^(Precision + e - 1) <= p)
    BY <2>1, Significand, ExponentIs
  <2>3. f \in 0..MaxExponent /\ b \in 0..t /\ y = b * v /\ q < 2^(Precision + f) /\ (f # 0 => h <= b)
    BY <1>4, Significand, ExponentIs
  <2>4. Precision \in Nat /\ MaxExponent \in Nat
    BY Units
  <2> HIDE DEF e, f, p, q
  <2>5. e <= f
    <3> SUFFICES ASSUME f < e PROVE FALSE
      BY <2>2, <2>3, <2>4
    <3>1. e # 0 /\ Precision + f \in Nat /\ Precision + e - 1 \in Nat /\ Precision + f <= Precision + e - 1
      BY <2>2, <2>3, <2>4
    <3> DEFINE i == 2^(Precision + f)
               j == 2^(Precision + e - 1)
    <3>2. i <= j /\ i \in Nat /\ j \in Nat /\ j <= p /\ q < i
      BY <2>2, <2>3, <3>1, PowerAbove, PowerOrdered
    <3> HIDE DEF i, j
    <3> QED BY <1>1, <3>2
  <2>6. u \in Nat \ {0} /\ v \in Nat \ {0} /\ t \in Nat /\ h \in Nat /\ h > 0 /\ t = 2 * h
    BY <2>2, <2>3, Binades
  <2>7. CASE e = f
    <3>1. u = v
      BY <2>7
    <3> HIDE DEF u, v, t, h
    <3>2. c * u \in Nat \ {0} /\ d * u \in Nat \ {0}
      BY <2>6
    <3>3. m * (d * u) <= n * (c * u)
      <4> DEFINE z == m * d
                 w == n * c
      <4>1. z \in Nat /\ w \in Nat /\ z <= w
        OBVIOUS
      <4> HIDE DEF z, w
      <4>2. z * u <= w * u
        BY <2>6, <4>1, MultiplesOrdered
      <4> QED BY <2>6, <4>2 DEF z, w
    <3>4. a <= b /\ a \in Nat /\ b \in Nat
      BY <3>1, <3>2, <3>3, HalfEvenOrdered DEF u, v
    <3> HIDE DEF a, b
    <3>5. a * u <= b * u
      BY <2>6, <3>4, MultiplesOrdered
    <3> QED BY <2>2, <2>3, <3>1, <3>5
  <2>8. CASE e # f
    <3>1. e + 1 \in Nat /\ f \in Nat /\ e + 1 <= f /\ f # 0
      BY <2>2, <2>3, <2>4, <2>5, <2>8
    <3>2. 2 * u <= v
      <4>1. 2^(e+1) <= v
        BY <3>1, PowerOrdered
      <4> QED BY <2>2, <4>1, Binades
    <3> HIDE DEF u, v, t, h, a, b
    <3>3. a \in Nat /\ b \in Nat /\ a <= t /\ h <= b
      BY <2>2, <2>3, <2>6, <3>1
    <3>4. a * u <= t * u /\ h * v <= b * v /\ h * (2 * u) <= h * v
      <4>1. a * u <= t * u /\ h * v <= b * v
        BY <2>6, <3>3, MultiplesOrdered
      <4>2. (2 * u) * h <= v * h
        <5> DEFINE w == 2 * u
        <5>1. w \in Nat /\ w <= v /\ h \in Nat \ {0}
          BY <2>6, <3>2
        <5> HIDE DEF w
        <5>2. w * h <= v * h
          BY <2>6, <5>1, MultiplesOrdered
        <5> QED BY <5>2 DEF w
      <4>3. (2 * u) * h = h * (2 * u) /\ v * h = h * v
        BY <2>6
      <4> QED BY <4>1, <4>2, <4>3
    <3>5. t * u = h * (2 * u)
      BY <2>6
    <3>6. a * u \in Nat /\ b * v \in Nat /\ h * v \in Nat /\ h * (2 * u) \in Nat
      BY <2>6, <3>3
    <3> QED BY <2>2, <2>3, <3>4, <3>5, <3>6
  <2> QED BY <2>7, <2>8
<1> QED BY <1>1, <1>3, <1>4

-----------------------------------------------------------------------------
(* Signs *)

\* Rounding is odd.
LEMMA RoundedIs ==
  ASSUME NEW n \in Int, NEW d \in Nat \ {0}
  PROVE  /\ Rounded(n, d) \in -Inf .. Inf
         /\ n >= 0 => Rounded(n, d) = Nearest(n, d) /\ Rounded(n, d) \in 0..Inf
         /\ n < 0 => Rounded(n, d) = -Nearest(-n, d) /\ Rounded(n, d) \in -Inf .. 0
<1>1. CASE n >= 0
  <2>1. Rounded(n, d) = 1 * Nearest(n, d)
    BY <1>1 DEF Rounded, Sign, Magnitude
  <2>2. Nearest(n, d) \in 0..Inf
    BY <1>1, NearestIsFloat
  <2> QED BY <1>1, <2>1, <2>2, Units
<1>2. CASE n < 0
  <2>1. Rounded(n, d) = (-1) * Nearest(-n, d)
    BY <1>2 DEF Rounded, Sign, Magnitude
  <2>2. Nearest(-n, d) \in 0..Inf
    BY <1>2, NearestIsFloat
  <2> QED BY <1>2, <2>1, <2>2, Units
<1> QED BY <1>1, <1>2

\* Rounding is monotone on either side of zero and across it.
LEMMA RoundedOrdered ==
  ASSUME NEW m \in Int, NEW n \in Int, m <= n, NEW d \in Nat \ {0}
  PROVE  Rounded(m, d) <= Rounded(n, d)
<1>1. CASE m >= 0
  <2>1. m * d <= n * d
    BY <1>1, MultiplesOrdered
  <2>2. Nearest(m, d) <= Nearest(n, d)
    BY <1>1, <2>1, NearestOrdered
  <2> QED BY <1>1, <2>2, RoundedIs
<1>2. CASE n < 0
  <2>1. -n \in Nat /\ -m \in Nat /\ -n <= -m
    BY <1>2
  <2>2. (-n) * d <= (-m) * d
    BY <2>1, MultiplesOrdered
  <2>3. Nearest(-n, d) <= Nearest(-m, d)
    BY <2>1, <2>2, NearestOrdered
  <2>4. Nearest(-n, d) \in 0..Inf /\ Nearest(-m, d) \in 0..Inf
    BY <2>1, NearestIsFloat
  <2>5. Rounded(m, d) = -Nearest(-m, d) /\ Rounded(n, d) = -Nearest(-n, d)
    BY <1>2, RoundedIs
  <2> QED BY <2>3, <2>4, <2>5, Units
<1>3. CASE m < 0 /\ n >= 0
  <2>1. Rounded(m, d) \in -Inf .. 0 /\ Rounded(n, d) \in 0..Inf
    BY <1>3, RoundedIs
  <2> QED BY <2>1, Units
<1> QED BY <1>1, <1>2, <1>3

\* A float is what rounding leaves alone.
LEMMA RoundedExact ==
  ASSUME NEW x, IsFloat(x), x # NaN, NEW d \in Nat \ {0}
  PROVE  x \in -Inf .. Inf /\ x \in Int /\ Rounded(x * d, d) = x
<1>1. x \in -Inf .. Inf /\ x \in Int /\ Rounded(x, 1) = x
  BY Units DEF IsFloat
<1> DEFINE a == IF x < 0 THEN -x ELSE x
<1>2. a \in Nat
  BY <1>1
<1>3. a = Nearest(a, 1)
  <2>1. CASE x < 0
    <3>1. x = -Nearest(-x, 1)
      BY <1>1, <2>1, RoundedIs
    <3>2. -x \in Nat /\ a = -x
      BY <1>1, <2>1
    <3>3. Nearest(a, 1) \in 0..Inf
      BY <3>2, NearestIsFloat
    <3> HIDE DEF a
    <3>4. x = -Nearest(a, 1)
      BY <3>1, <3>2
    <3> QED BY <1>1, <3>2, <3>3, <3>4, Units
  <2>2. CASE ~(x < 0)
    BY <1>1, <2>2, RoundedIs
  <2> QED BY <2>1, <2>2
<1>4. Representable(a)
  <2> HIDE DEF a
  <2> QED BY <1>2, <1>3, NearestIsFloat
<1>5. Nearest(a * d, d) = a
  <2> HIDE DEF a
  <2> QED BY <1>2, <1>4, NearestExact
<1>6. CASE x < 0
  <2>1. a = -x /\ x * d < 0 /\ -(x * d) = a * d /\ x * d \in Int
    <3>1. (-x) * d \in Nat /\ (-x) * d # 0 /\ (-x) * d = -(x * d)
      BY <1>1, <1>6
    <3> QED BY <1>1, <1>6, <3>1
  <2> HIDE DEF a
  <2>2. Rounded(x * d, d) = -Nearest(a * d, d)
    BY <2>1, RoundedIs
  <2> QED BY <1>1, <1>5, <2>1, <2>2
<1>7. CASE ~(x < 0)
  <2>1. a = x /\ x * d >= 0 /\ x * d \in Int
    BY <1>1, <1>7
  <2> HIDE DEF a
  <2> QED BY <1>5, <2>1, RoundedIs
<1> QED BY <1>1, <1>6, <1>7

\* What is rounded is a float.
LEMMA RoundedIsFloat ==
  ASSUME NEW n \in Int, NEW d \in Nat \ {0}
  PROVE  IsFloat(Rounded(n, d)) /\ Rounded(n, d) # NaN
<1> DEFINE r == Rounded(n, d)
<1>1. r \in -Inf .. Inf /\ r # NaN /\ r \in Int
  BY RoundedIs, Units
<1>2. Rounded(r, 1) = r
  <2>1. CASE n >= 0
    <3>1. r = Nearest(n, d) /\ r \in Nat /\ Representable(r)
      BY <2>1, RoundedIs, NearestIsFloat, Units
    <3> HIDE DEF r
    <3>2. Nearest(r * 1, 1) = r
      BY <3>1, NearestExact
    <3> QED BY <3>1, <3>2, RoundedIs
  <2>2. CASE n < 0
    <3> DEFINE a == Nearest(-n, d)
    <3>1. r = -a /\ a \in Nat /\ Representable(a)
      BY <2>2, RoundedIs, NearestIsFloat, Units
    <3> HIDE DEF r, a
    <3>2. Nearest(a * 1, 1) = a
      BY <3>1, NearestExact
    <3>3. CASE a = 0
      <4>1. r = 0
        <5>1. r \in Int /\ r <= 0 /\ 0 <= r
          <6>1. r \in Int /\ r = -a /\ a \in Nat /\ a <= 0
            BY <1>1, <3>1, <3>3 DEF r
          <6> QED BY <6>1
        <5> QED BY <5>1
      <4> QED BY <3>2, <3>3, <4>1, RoundedIs
    <3>4. CASE a # 0
      <4>1. r < 0 /\ -r = a * 1 /\ r \in Int
        BY <3>1, <3>4
      <4>2. Rounded(r, 1) = -Nearest(-r, 1)
        BY <4>1, RoundedIs
      <4> QED BY <3>1, <3>2, <4>1, <4>2
    <3> QED BY <3>3, <3>4
  <2> QED BY <2>1, <2>2
<1> QED BY <1>1, <1>2 DEF IsFloat

\* What the type holds is an integer, and finite but for three values.
LEMMA FloatIs ==
  ASSUME NEW x, IsFloat(x)
  PROVE  /\ x \in Int /\ (x # NaN => x \in -Inf .. Inf)
         /\ ~IsFinite(x) => x = NaN \/ x = Inf \/ x = -Inf
         /\ ~IsFinite(NaN) /\ ~IsFinite(Inf) /\ ~IsFinite(-Inf)
BY Units DEF IsFloat, IsFinite

\* A magnitude of a float is a float, of either sign.
LEMMA RepresentableIsFloat ==
  ASSUME NEW x \in Nat, Representable(x)
  PROVE  IsFloat(x) /\ x <= Inf
<1>1. Nearest(x * 1, 1) = x /\ x * 1 = x
  BY NearestExact
<1>2. Rounded(x, 1) = x /\ x \in -Inf .. Inf
  BY <1>1, RoundedIs
<1> QED BY <1>2, Units DEF IsFloat

\* The other sign.
LEMMA NegatedIsFloat ==
  ASSUME NEW x, IsFloat(x), x # NaN
  PROVE  IsFloat(-x) /\ -x # NaN /\ -x \in -Inf .. Inf
<1>1. x \in Int /\ x \in -Inf .. Inf /\ Rounded(x * 1, 1) = x /\ x * 1 = x
  BY RoundedExact
<1>2. -x \in -Inf .. Inf /\ -x \in Int /\ -x # NaN
  BY <1>1, Units
<1>3. CASE x > 0
  <2>1. -x < 0 /\ -(-x) = x
    BY <1>1, <1>3
  <2>2. Rounded(-x, 1) = -Nearest(x, 1)
    BY <1>2, <2>1, RoundedIs
  <2>3. Rounded(x, 1) = Nearest(x, 1)
    BY <1>1, <1>3, RoundedIs
  <2> QED BY <1>1, <1>2, <2>2, <2>3 DEF IsFloat
<1>4. CASE x = 0
  <2> DEFINE y == -x
  <2>1. y \in Int /\ y <= 0 /\ 0 <= y
    BY <1>1, <1>4
  <2> HIDE DEF y
  <2>2. y = x
    BY <1>4, <2>1
  <2> QED BY <1>2, <2>2 DEF y
<1>5. CASE x < 0
  <2>1. -x \in Nat /\ Rounded(-x, 1) = Nearest(-x, 1)
    BY <1>1, <1>2, <1>5, RoundedIs
  <2>2. x = -Nearest(-x, 1)
    BY <1>1, <1>5, RoundedIs
  <2>3. Nearest(-x, 1) \in 0..Inf
    BY <2>1, NearestIsFloat
  <2>4. Nearest(-x, 1) = -x
    <3> DEFINE y == Nearest(-x, 1)
    <3> HIDE DEF y
    <3>1. y \in 0..Inf /\ x = -y
      BY <2>2, <2>3 DEF y
    <3> QED BY <3>1, Units DEF y
  <2> QED BY <1>2, <2>1, <2>4 DEF IsFloat
<1> QED BY <1>1, <1>3, <1>4, <1>5

\* Zero, the units of the counts, and what is not finite.
LEMMA SpecialFloats ==
  /\ IsFloat(0) /\ IsFloat(1) /\ IsFloat(One) /\ IsFloat(One \div 2)
  /\ IsFloat(Inf) /\ IsFloat(-Inf) /\ IsFloat(NaN)
  /\ IsFinite(0) /\ IsFinite(One) /\ IsFinite(One \div 2)
  /\ 0 # NaN /\ 1 # NaN /\ One # NaN /\ One \in Nat \ {0}
<1>1. PICK k \in 1..MaxExponent : One = 2^k /\ One \div 2 = 2^(k-1)
  BY Units
<1>2. k \in 0..MaxExponent /\ k-1 \in 0..MaxExponent /\ 0 \in 0..MaxExponent
  BY Units
<1>3. 0 \in 0 .. 2^Precision - 1 /\ 1 \in 0 .. 2^Precision - 1
  <2> DEFINE t == 2^Precision
  <2>1. t \in Nat /\ 2 <= t
    <3>1. t \in Nat /\ Precision < t /\ Precision \in Nat /\ Precision >= 2
      BY Units, PowerAbove
    <3> HIDE DEF t
    <3> QED BY <3>1
  <2> HIDE DEF t
  <2>2. 0 \in 0 .. t-1 /\ 1 \in 0 .. t-1
    BY <2>1
  <2> QED BY <2>2 DEF t
<1>4. ASSUME NEW e \in 0..MaxExponent PROVE 2^e = 1 * 2^e /\ 0 = 0 * 2^e
  BY Binades
<1>5. Representable(0) /\ Representable(One) /\ Representable(One \div 2) /\ Representable(Inf)
  BY <1>1, <1>2, <1>3, <1>4 DEF Representable
<1>6. Representable(1)
  <2>1. 1 = 1 * 2^0
    BY PowerZero
  <2> QED BY <1>2, <1>3, <2>1 DEF Representable
<1>7. IsFloat(0) /\ IsFloat(1) /\ IsFloat(One) /\ IsFloat(One \div 2) /\ IsFloat(Inf)
  BY <1>5, <1>6, RepresentableIsFloat, Units
<1>8. IsFloat(-Inf) /\ IsFloat(NaN)
  <2>1. Inf # NaN
    BY Units
  <2> QED BY <1>7, <2>1, NegatedIsFloat DEF IsFloat
<1>9. IsFinite(0) /\ IsFinite(One) /\ IsFinite(One \div 2)
  BY Units DEF IsFinite
<1>10. 0 # NaN /\ 1 # NaN /\ One # NaN /\ One \in Nat \ {0}
  BY Units
<1> QED BY <1>7, <1>8, <1>9, <1>10

\* Zero stays zero, and the sign of what is rounded stays.
LEMMA RoundedZero ==
  ASSUME NEW d \in Nat \ {0}
  PROVE  /\ Rounded(0, d) = 0
         /\ \A n \in Int : (n <= 0 => Rounded(n, d) <= 0) /\ (n >= 0 => Rounded(n, d) >= 0)
<1>1. Rounded(0 * d, d) = 0 /\ 0 * d = 0
  BY SpecialFloats, RoundedExact
<1> QED BY <1>1, RoundedOrdered

-----------------------------------------------------------------------------
(* Arithmetic *)

\* A sum is a float, rounded when both are finite, and never finite when one is not.
LEMMA AddIs ==
  ASSUME NEW x, IsFloat(x), NEW y, IsFloat(y)
  PROVE  /\ IsFloat(Add(x, y))
         /\ IsFinite(x) /\ IsFinite(y) => Add(x, y) = Rounded(x + y, 1) /\ Add(x, y) # NaN
         /\ IsFinite(Add(x, y)) => IsFinite(x) /\ IsFinite(y)
         /\ x = NaN \/ y = NaN => Add(x, y) = NaN
<1>1. x \in Int /\ y \in Int
  BY FloatIs
<1>2. CASE x = NaN \/ y = NaN
  <2>1. Add(x, y) = NaN
    BY <1>2, SpecialFloats, FloatIs DEF Add
  <2> QED BY <1>2, <2>1, SpecialFloats, FloatIs
<1>3. CASE x # NaN /\ y # NaN /\ IsFinite(x) /\ IsFinite(y)
  <2>1. Add(x, y) = Rounded(x + y, 1)
    BY <1>3 DEF Add
  <2>2. IsFloat(Rounded(x + y, 1)) /\ Rounded(x + y, 1) # NaN
    BY <1>1, RoundedIsFloat
  <2> QED BY <1>3, <2>1, <2>2
<1>4. CASE x # NaN /\ y # NaN /\ ~(IsFinite(x) /\ IsFinite(y))
  <2>1. Add(x, y) = NaN \/ Add(x, y) = IF IsFinite(x) THEN y ELSE x
    BY <1>4 DEF Add
  <2>2. ~IsFinite(Add(x, y))
    BY <1>4, <2>1, SpecialFloats, FloatIs
  <2>3. IsFloat(Add(x, y))
    BY <2>1, SpecialFloats
  <2> QED BY <1>4, <2>2, <2>3
<1> QED BY <1>2, <1>3, <1>4

\* So is a difference, which is nothing but finite between finite floats alone.
LEMMA SubIs ==
  ASSUME NEW x, IsFloat(x), NEW y, IsFloat(y)
  PROVE  /\ IsFloat(Sub(x, y))
         /\ IsFinite(x) /\ IsFinite(y) => Sub(x, y) = Rounded(x - y, 1) /\ Sub(x, y) # NaN
         /\ IsFinite(Sub(x, y)) => IsFinite(x) /\ IsFinite(y)
         /\ x = NaN \/ y = NaN => Sub(x, y) = NaN
<1> DEFINE z == IF y = NaN THEN NaN ELSE -y
<1>1. x \in Int /\ y \in Int /\ IsFloat(z) /\ Sub(x, y) = Add(x, z)
  BY FloatIs, SpecialFloats, NegatedIsFloat DEF Sub
<1>2. (IsFinite(z) <=> IsFinite(y)) /\ (IsFinite(y) => z = -y) /\ (y = NaN => z = NaN)
  BY <1>1, Units DEF IsFinite
<1>3. x + (-y) = x - y
  BY <1>1
<1> HIDE DEF z
<1> QED BY <1>1, <1>2, <1>3, AddIs

\* A product is a float, rounded when both are finite; zero times anything is zero or NaN.
LEMMA MulIs ==
  ASSUME NEW x, IsFloat(x), NEW y, IsFloat(y)
  PROVE  /\ IsFloat(Mul(x, y))
         /\ IsFinite(x) /\ IsFinite(y) => Mul(x, y) = Rounded(x * y, One) /\ Mul(x, y) # NaN
         /\ x = 0 => Mul(x, y) = 0 \/ Mul(x, y) = NaN
<1>1. x \in Int /\ y \in Int /\ One \in Nat \ {0}
  BY FloatIs, Units
<1>2. CASE x # NaN /\ y # NaN /\ IsFinite(x) /\ IsFinite(y)
  <2>1. Mul(x, y) = Rounded(x * y, One)
    BY <1>2 DEF Mul, IsFinite
  <2>2. x * y \in Int
    BY <1>1
  <2>3. IsFloat(Rounded(x * y, One)) /\ Rounded(x * y, One) # NaN
    BY <1>1, <2>2, RoundedIsFloat
  <2>4. x = 0 => x * y = 0
    BY <1>1
  <2>5. x = 0 => Rounded(x * y, One) = 0
    BY <1>1, <2>4, RoundedZero
  <2> QED BY <2>1, <2>3, <2>5
<1>3. CASE x = NaN \/ y = NaN
  <2>1. ~(IsFinite(x) /\ IsFinite(y))
    BY <1>3, SpecialFloats, FloatIs
  <2>2. Mul(x, y) = NaN
    BY <1>3, <2>1 DEF Mul
  <2> QED BY <2>1, <2>2, SpecialFloats
<1>4. CASE x # NaN /\ y # NaN /\ ~(IsFinite(x) /\ IsFinite(y)) /\ (x = 0 \/ y = 0)
  <2>1. Mul(x, y) = NaN
    BY <1>4, SpecialFloats DEF Mul
  <2> QED BY <1>4, <2>1, SpecialFloats
<1>5. CASE x # NaN /\ y # NaN /\ ~(IsFinite(x) /\ IsFinite(y)) /\ ~(x = 0 \/ y = 0)
  <2>1. Mul(x, y) = Sign(x) * Sign(y) * Inf
    BY <1>5 DEF Mul
  <2>2. Sign(x) * Sign(y) * Inf \in {Inf, -Inf}
    BY Units DEF Sign
  <2>3. IsFloat(Mul(x, y))
    BY <2>1, <2>2, SpecialFloats
  <2> QED BY <1>5, <2>3
<1> QED BY <1>2, <1>3, <1>4, <1>5

\* A quotient is a float, rounded when both are finite and the divisor positive, and infinite when
\* only the dividend is.
LEMMA DivIs ==
  ASSUME NEW x, IsFloat(x), NEW y, IsFloat(y)
  PROVE  /\ IsFloat(Div(x, y))
         /\ IsFinite(x) /\ IsFinite(y) /\ 0 < y => Div(x, y) = Rounded(x * One, y) /\ Div(x, y) # NaN
         /\ IsFinite(y) /\ 0 < y => /\ x = Inf => Div(x, y) = Inf
                                    /\ x = -Inf => Div(x, y) = -Inf
         /\ x = NaN => Div(x, y) = NaN
<1>1. x \in Int /\ y \in Int /\ One \in Nat /\ Inf \in Nat /\ Inf > 0
  BY FloatIs, Units
<1>2. CASE x = NaN \/ y = NaN \/ (x = 0 /\ y = 0) \/ ~(IsFinite(x) \/ IsFinite(y))
  <2>1. Div(x, y) = NaN
    BY <1>2, SpecialFloats, FloatIs DEF Div
  <2>2. ~(IsFinite(x) /\ IsFinite(y) /\ 0 < y) /\ (IsFinite(y) /\ 0 < y => x = NaN)
    BY <1>1, <1>2, FloatIs
  <2>3. NaN # Inf /\ NaN # -Inf
    BY Units
  <2> QED BY <2>1, <2>2, <2>3, SpecialFloats
<1>3. CASE /\ ~(x = NaN \/ y = NaN \/ (x = 0 /\ y = 0) \/ ~(IsFinite(x) \/ IsFinite(y)))
           /\ IsFinite(x) /\ IsFinite(y) /\ y # 0
  <2>1. Div(x, y) = Rounded(Sign(y) * x * One, Magnitude(y))
    BY <1>3 DEF Div
  <2>2. Magnitude(y) \in Nat \ {0} /\ Sign(y) * x * One \in Int
    BY <1>1, <1>3 DEF Magnitude, Sign
  <2>3. IsFloat(Div(x, y)) /\ Div(x, y) # NaN
    BY <2>1, <2>2, RoundedIsFloat
  <2>4. 0 < y => Sign(y) * x * One = x * One /\ Magnitude(y) = y
    BY <1>1 DEF Sign, Magnitude
  <2>5. x # Inf /\ x # -Inf
    BY <1>3, FloatIs
  <2> QED BY <1>3, <2>1, <2>3, <2>4, <2>5
<1>4. CASE /\ ~(x = NaN \/ y = NaN \/ (x = 0 /\ y = 0) \/ ~(IsFinite(x) \/ IsFinite(y)))
           /\ ~(IsFinite(x) /\ IsFinite(y) /\ y # 0)
           /\ IsFinite(x) /\ ~IsFinite(y) /\ y # NaN
  <2>1. Div(x, y) = 0
    BY <1>4 DEF Div
  <2> QED BY <1>4, <2>1, SpecialFloats
<1>5. CASE /\ ~(x = NaN \/ y = NaN \/ (x = 0 /\ y = 0) \/ ~(IsFinite(x) \/ IsFinite(y)))
           /\ ~(IsFinite(x) /\ IsFinite(y) /\ y # 0)
           /\ ~(IsFinite(x) /\ ~IsFinite(y) /\ y # NaN)
  <2>1. Div(x, y) = Sign(x) * Sign(y) * Inf
    BY <1>5 DEF Div
  <2>2. Sign(x) * Sign(y) * Inf \in {Inf, -Inf}
    BY <1>1 DEF Sign
  <2>3. IsFloat(Div(x, y))
    BY <2>1, <2>2, SpecialFloats
  <2>4. 0 < y => /\ x = Inf => Sign(x) * Sign(y) * Inf = Inf
                 /\ x = -Inf => Sign(x) * Sign(y) * Inf = -Inf
    BY <1>1 DEF Sign
  <2>5. IsFinite(x) /\ IsFinite(y) => ~(0 < y)
    BY <1>1, <1>5
  <2> QED BY <1>5, <2>1, <2>3, <2>4, <2>5
<1> QED BY <1>2, <1>3, <1>4, <1>5

-----------------------------------------------------------------------------
(* Conversions *)

\* An unsigned integer is converted to a float.
LEMMA FromIntIs ==
  ASSUME NEW i \in Nat
  PROVE  /\ IsFloat(FromInt(i)) /\ FromInt(i) \in 0..Inf /\ FromInt(i) \in Nat
         /\ Representable(i * One) => FromInt(i) = i * One
         /\ \A j \in Nat : i <= j => FromInt(i) <= FromInt(j)
<1>1. i * One \in Nat /\ One \in Nat \ {0} /\ Inf \in Nat
  BY Units
<1>2. FromInt(i) \in 0..Inf /\ FromInt(i) \in Nat /\ Representable(FromInt(i))
  BY <1>1, NearestIsFloat DEF FromInt
<1>3. IsFloat(FromInt(i))
  BY <1>2, RepresentableIsFloat
<1>4. Representable(i * One) => FromInt(i) = i * One
  <2> DEFINE n == i * One
  <2> HIDE DEF n
  <2>1. Representable(n) => Nearest(n * 1, 1) = n
    BY <1>1, NearestExact DEF n
  <2>2. n * 1 = n
    BY <1>1 DEF n
  <2> QED BY <2>1, <2>2 DEF n, FromInt
<1>5. ASSUME NEW j \in Nat, i <= j PROVE FromInt(i) <= FromInt(j)
  <2>1. i * One <= j * One /\ j * One \in Nat
    BY <1>1, <1>5, MultiplesOrdered
  <2>2. (i * One) * 1 <= (j * One) * 1
    BY <1>1, <2>1
  <2> QED BY <1>1, <2>1, <2>2, NearestOrdered DEF FromInt
<1> QED BY <1>2, <1>3, <1>4, <1>5

\* The floor of a value never falls below the whole numbers the value has reached.
LEMMA WholeIs ==
  ASSUME NEW x \in Int, NEW n \in Nat
  PROVE  /\ Floor(x) \in Int /\ Ceil(x) \in Int /\ ToInt(x, n) \in 0 .. 2^n - 1
         /\ \A j \in Nat : j < 2^n /\ x # NaN /\ j * One <= x => j <= ToInt(Floor(x), n)
         /\ \A j \in Nat : j < 2^n => ToInt(j * One, n) = j \/ j * One = NaN
         /\ x \in 0 .. One - 1 => ToInt(Floor(x), n) = 0
<1> DEFINE q == x \div One
           t == 2^n
<1>1. One \in Nat \ {0} /\ NaN \in Nat /\ Inf < NaN /\ Inf \in Nat
  BY Units
<1>2. q \in Int /\ x = q * One + (x % One) /\ x % One \in 0 .. One - 1 /\ (-x) \div One \in Int
  BY <1>1
<1>3. t \in Nat /\ t >= 1
  <2>1. t \in Nat /\ n < t
    BY PowerAbove
  <2> HIDE DEF t
  <2> QED BY <2>1
<1>4. Floor(x) \in Int /\ Ceil(x) \in Int
  BY <1>1, <1>2 DEF Floor, Ceil
<1>5. ASSUME NEW y \in Int PROVE ToInt(y, n) \in 0 .. t - 1
  <2>1. ~(y < 0) => y \div One \in Nat
    BY <1>1, DivMod
  <2>2. ToInt(y, n) = IF y = NaN \/ y < 0 THEN 0 ELSE IF y \div One >= t THEN t - 1 ELSE y \div One
    BY DEF ToInt
  <2> HIDE DEF t
  <2> QED BY <1>3, <2>1, <2>2
<1>6. ASSUME NEW j \in Nat, j < t PROVE ToInt(j * One, n) = j \/ j * One = NaN
  <2>1. j * One \in Nat /\ (j * One + 0) \div One = j /\ j * One + 0 = j * One
    BY <1>1, DivUnique
  <2>2. ToInt(j * One, n) = IF j * One = NaN \/ j * One < 0 THEN 0
                            ELSE IF (j * One) \div One >= t THEN t - 1 ELSE (j * One) \div One
    BY DEF ToInt
  <2>3. (j * One) \div One = j
    BY <2>1
  <2> HIDE DEF t
  <2> QED BY <1>3, <1>6, <2>1, <2>2, <2>3
<1>7. ASSUME NEW j \in Nat, j < t, x # NaN, j * One <= x PROVE j <= ToInt(Floor(x), n)
  <2>1. j * One \in Nat /\ 0 <= x
    BY <1>1, <1>7
  <2>2. j <= q /\ q \in Nat
    <3> HIDE DEF q
    <3>1. ASSUME q + 1 <= j PROVE FALSE
      <4>1. (j - (q + 1)) * One >= 0
        BY <1>1, <1>2, <3>1
      <4>2. (j - (q + 1)) * One = j * One - q * One - One
        BY <1>1, <1>2
      <4> QED BY <1>1, <1>2, <1>7, <4>1, <4>2
    <3> QED BY <1>2, <3>1
  <2>3. CASE IsFinite(x)
    <3>1. Floor(x) = q * One
      BY <2>3 DEF Floor
    <3>2. q * One \in Nat /\ q * One <= x /\ x < Inf
      <4> HIDE DEF q
      <4> QED BY <1>1, <1>2, <2>2, <2>3 DEF IsFinite
    <3>3. q * One # NaN
      BY <1>1, <3>2
    <3>4. (q * One + 0) \div One = q /\ q * One + 0 = q * One
      BY <1>1, <2>2, DivUnique
    <3>5. (q * One) \div One = q
      BY <3>4
    <3> HIDE DEF q
    <3>6. ToInt(q * One, n) = IF q >= t THEN t - 1 ELSE q
      BY <3>2, <3>3, <3>5 DEF ToInt
    <3> HIDE DEF t
    <3> QED BY <1>3, <1>7, <2>2, <3>1, <3>6
  <2>4. CASE ~IsFinite(x)
    <3>1. Floor(x) = x
      BY <2>4 DEF Floor
    <3>2. ToInt(x, n) = IF q >= t THEN t - 1 ELSE q
      BY <1>7, <2>1 DEF ToInt
    <3> HIDE DEF t, q
    <3> QED BY <1>3, <1>7, <2>2, <3>1, <3>2
  <2> QED BY <2>3, <2>4
<1>8. ASSUME x \in 0 .. One - 1 PROVE ToInt(Floor(x), n) = 0
  <2>1. (0 * One + x) \div One = 0 /\ 0 * One + x = x
    BY <1>1, <1>8, DivUnique
  <2>2. q = 0
    BY <2>1
  <2>3. IsFinite(x)
    BY <1>8, Units DEF IsFinite
  <2>4. Floor(x) = 0
    <3>1. Floor(x) = q * One
      BY <2>3 DEF Floor
    <3>2. 0 * One = 0
      BY <1>1
    <3> HIDE DEF q
    <3> QED BY <2>2, <3>1, <3>2
  <2>5. ToInt(0 * One, n) = 0 \/ 0 * One = NaN
    <3> HIDE DEF t
    <3>1. 0 \in Nat /\ 0 < t
      BY <1>3
    <3> QED BY <1>6, <3>1
  <2>6. 0 * One = 0 /\ NaN # 0
    BY <1>1
  <2> QED BY <2>4, <2>5, <2>6
<1> QED BY <1>4, <1>5, <1>6, <1>7, <1>8

-----------------------------------------------------------------------------
(* Codes *)

\* The largest code is a float, as are all the powers of two below it.
LEMMA LargestCodeIs ==
  /\ LargestCode \in Nat /\ LargestCode >= 1 /\ LargestCode < 2^CodeBits /\ CodeBits \in Nat
  /\ LargestCode * One < Inf /\ Representable(LargestCode * One) /\ LargestCode * One \in Nat
<1> DEFINE a == 2^Precision
           b == 2^(CodeBits - Precision)
           c == 2^CodeBits
           i == Precision + MaxExponent
<1>1. PICK k \in 1..MaxExponent : One = 2^k
  BY Units
<1>2. /\ CodeBits \in Nat /\ Precision \in Nat /\ MaxExponent \in Nat /\ k \in Nat /\ CodeBits - Precision \in Nat
      /\ Precision + (CodeBits - Precision) = CodeBits /\ Precision <= CodeBits
  BY Units, CompressedAssumption
<1>3. a \in Nat /\ a > 1 /\ b \in Nat /\ b > 0 /\ c \in Nat /\ c = a * b
  <2>1. a \in Nat /\ Precision < a /\ b \in Nat /\ CodeBits - Precision < b /\ c \in Nat
    BY <1>2, PowerAbove
  <2>2. c = a * b
    BY <1>2, PowerSum
  <2>3. Precision >= 2
    BY Units
  <2> HIDE DEF a, b, c
  <2> QED BY <1>2, <2>1, <2>2, <2>3
<1>4. c * One <= Inf /\ One \in Nat \ {0} /\ Inf \in Nat
  <2>1. One * c <= Inf /\ One \in Nat \ {0} /\ Inf \in Nat
    BY Units, CompressedAssumption
  <2> HIDE DEF c
  <2> QED BY <1>3, <2>1
<1>5. LargestCode = (a - 1) * b
  BY DEF LargestCode
<1>6. CodeBits + k <= i
  <2> SUFFICES ASSUME i < CodeBits + k PROVE FALSE
    BY <1>2
  <2>1. CodeBits + k \in Nat /\ i \in Nat
    BY <1>2
  <2>2. 2 * 2^i <= 2^(CodeBits + k)
    <3> HIDE DEF i
    <3> QED BY <2>1, PowerOrdered
  <2>3. 2^(CodeBits + k) = c * One
    BY <1>1, <1>2, PowerSum
  <2>4. 2 * Inf <= Inf
    <3>1. 2^i = Inf
      BY DEF Inf
    <3> HIDE DEF c, i
    <3>2. c * One \in Nat
      BY <1>3, <1>4
    <3> QED BY <1>4, <2>2, <2>3, <3>1, <3>2
  <2> QED BY <2>4, Units
<1> DEFINE e == (CodeBits - Precision) + k
<1>7. e \in 0..MaxExponent /\ 2^e = b * One
  BY <1>1, <1>2, <1>6, PowerSum
<1>8. (a - 1) * b \in Nat /\ (a - 1) * b = c - b /\ ((a - 1) * b) * One = (a - 1) * 2^e
  <2> HIDE DEF a, b, c, e
  <2> QED BY <1>3, <1>4, <1>7
<1>9. a - 1 \in 0 .. 2^Precision - 1
  <2>1. a - 1 \in 0 .. a - 1
    <3> HIDE DEF a
    <3> QED BY <1>3
  <2> QED BY <2>1
<1>10. Representable(LargestCode * One)
  BY <1>5, <1>7, <1>8, <1>9 DEF Representable
<1> DEFINE l == LargestCode
<1>11. l \in Nat /\ l < c /\ l >= 1
  <2>1. l = c - b /\ l \in Nat
    BY <1>5, <1>8
  <2>2. 1 * b + b <= a * b
    <3> HIDE DEF a, b
    <3> QED BY <1>3, MultiplesOrdered
  <2> HIDE DEF a, b, c, l
  <2> QED BY <1>3, <2>1, <2>2
<1>12. l * One < Inf /\ l * One \in Nat
  <2> HIDE DEF l, c
  <2>1. l * One + One <= c * One /\ l * One \in Nat /\ c * One \in Nat
    BY <1>3, <1>4, <1>11, MultiplesOrdered
  <2> QED BY <1>4, <2>1
<1> QED BY <1>2, <1>10, <1>11, <1>12 DEF l

\* A float between 1.0 and the largest code is rounded up to a whole number that is a float too:
\* at or above One * 2^Precision floats are whole, and below the whole numbers are floats.
LEMMA CeilIs ==
  ASSUME NEW q, IsFloat(q), One <= q, q <= LargestCode * One
  PROVE  \E j \in 1..LargestCode : Ceil(q) = j * One /\ Representable(j * One)
<1> DEFINE t == 2^Precision
           i == (-q) \div One
           j == -i
<1>1. /\ One \in Nat \ {0} /\ LargestCode \in Nat /\ LargestCode * One < Inf /\ LargestCode * One \in Nat
      /\ Inf \in Nat /\ NaN \in Nat /\ Inf < NaN
  BY Units, LargestCodeIs
<1>2. q \in Int /\ q >= 1 /\ q < Inf /\ q \in Nat
  BY <1>1, FloatIs
<1>3. i \in Int /\ -q = i * One + ((-q) % One) /\ (-q) % One \in 0 .. One - 1
  BY <1>1, <1>2
<1>4. j \in Int /\ q <= j * One /\ j * One < q + One
  <2> DEFINE r == (-q) % One
  <2>1. r \in 0 .. One - 1 /\ -q = i * One + r
    BY <1>3
  <2> HIDE DEF i, r
  <2>2. j \in Int /\ j * One = -(i * One)
    BY <1>1, <1>3
  <2>3. i * One \in Int
    BY <1>1, <1>3
  <2> HIDE DEF j
  <2> QED BY <1>1, <1>2, <2>1, <2>2, <2>3
<1>5. Ceil(q) = j * One
  <2>1. IsFinite(q)
    BY <1>1, <1>2 DEF IsFinite
  <2>2. Ceil(q) = -i * One
    BY <2>1 DEF Ceil
  <2> HIDE DEF i
  <2> QED BY <1>1, <1>3, <2>2
<1> HIDE DEF i, j
<1>6. j >= 1
  <2> SUFFICES ASSUME j <= 0 PROVE FALSE
    BY <1>4
  <2>1. (-j) * One \in Nat /\ (-j) * One = -(j * One)
    BY <1>1, <1>4
  <2> QED BY <1>1, <1>2, <1>4, <2>1
<1>7. j <= LargestCode
  <2> DEFINE l == LargestCode
  <2>1. l \in Nat /\ q <= l * One
    BY <1>1
  <2> HIDE DEF l
  <2>2. l < j => l * One + One <= j * One
    BY <1>1, <1>4, <1>6, <2>1, MultiplesOrdered
  <2>3. j * One \in Nat /\ l * One \in Nat
    BY <1>1, <1>4, <1>6, <2>1
  <2> QED BY <1>1, <1>2, <1>4, <2>1, <2>2, <2>3 DEF l
<1>8. Representable(j * One)
  <2>1. Rounded(q, 1) = q /\ Nearest(q, 1) = q
    <3>1. Rounded(q * 1, 1) = q /\ q * 1 = q
      BY <1>1, <1>2, RoundedExact
    <3> QED BY <1>2, <3>1, RoundedIs
  <2>2. PICK m \in 0 .. t - 1, e \in 0..MaxExponent : q = m * 2^e
    <3>1. Representable(q)
      BY <1>2, <2>1, NearestIsFloat
    <3> QED BY <1>1, <1>2, <3>1 DEF Representable
  <2>3. PICK k \in 1..MaxExponent : One = 2^k
    BY Units
  <2>4. t \in Nat /\ 2^e \in Nat \ {0} /\ MaxExponent \in Nat
    BY Binades, Units
  <2>5. m \in Nat /\ m < t
    <3> HIDE DEF t
    <3> QED BY <2>2, <2>4
  <2>6. CASE k <= e
    <3> DEFINE w == 2^(e - k)
               s == m * w
    <3>1. e - k \in Nat /\ k \in Nat /\ (e - k) + k = e
      BY <2>2, <2>3, <2>4, <2>6
    <3>2. w \in Nat /\ 2^((e - k) + k) = w * 2^k
      BY <3>1, PowerAbove, PowerSum
    <3>3. q = m * (w * One)
      BY <2>2, <2>3, <3>1, <3>2
    <3> HIDE DEF w
    <3>4. s \in Nat /\ q = s * One
      BY <1>1, <2>5, <3>2, <3>3
    <3> HIDE DEF s
    <3>5. s < j => s * One + One <= j * One
      BY <1>1, <1>4, <1>6, <3>4, MultiplesOrdered
    <3>6. j < s => j * One + One <= s * One
      BY <1>1, <1>4, <1>6, <3>4, MultiplesOrdered
    <3>7. j * One \in Nat
      BY <1>1, <1>4, <1>6
    <3>8. j = s
      BY <1>1, <1>2, <1>4, <3>4, <3>5, <3>6, <3>7
    <3>9. j * One = m * 2^e
      BY <2>2, <3>4, <3>8
    <3> QED BY <2>2, <3>9 DEF Representable
  <2>7. CASE e < k
    <3> DEFINE u == 2^e
    <3>1. 2 * u <= One
      BY <2>2, <2>3, <2>4, <2>7, PowerOrdered
    <3> HIDE DEF u
    <3>2. u \in Nat \ {0} /\ q = m * u
      BY <2>2, <2>4 DEF u
    <3>3. q + q <= m * One
      <4> DEFINE x == 2 * u
      <4>1. x \in Nat /\ x <= One /\ x * m = q + q
        BY <2>5, <3>1, <3>2
      <4> HIDE DEF x
      <4>2. (One - x) * m >= 0
        BY <1>1, <2>5, <4>1
      <4>3. (One - x) * m = m * One - x * m
        BY <1>1, <2>5, <4>1
      <4>4. m * One \in Nat /\ x * m \in Nat
        BY <1>1, <2>5, <4>1
      <4> QED BY <1>2, <4>1, <4>2, <4>3, <4>4
    <3>4. j + j < m + 2
      <4> SUFFICES ASSUME m + 2 <= j + j PROVE FALSE
        BY <1>4, <2>5
      <4>1. (m + 2) * One <= (j + j) * One
        BY <1>1, <1>4, <1>6, <2>5, MultiplesOrdered
      <4>2. (m + 2) * One = m * One + One + One /\ (j + j) * One = j * One + j * One
        BY <1>1, <1>4, <2>5
      <4>3. m * One \in Nat /\ j * One \in Nat
        BY <1>1, <1>4, <1>6, <2>5
      <4> QED BY <1>1, <1>2, <1>4, <3>3, <4>1, <4>2, <4>3
    <3>5. j < t
      <4> HIDE DEF t
      <4> QED BY <1>4, <1>6, <2>4, <2>5, <3>4
    <3>6. j \in 0 .. t - 1
      <4> HIDE DEF t
      <4> QED BY <1>4, <1>6, <2>4, <3>5
    <3>7. k \in 0..MaxExponent /\ j * One = j * 2^k
      BY <2>3
    <3> QED BY <3>6, <3>7 DEF Representable
  <2> QED BY <2>2, <2>3, <2>4, <2>6, <2>7
<1>9. j \in 1..LargestCode
  BY <1>1, <1>4, <1>6, <1>7
<1> QED BY <1>5, <1>8, <1>9

\* the constants of a field, derived or not
Typed(p) == p.max \in 0 .. 2^CodeBits - 1 /\ p.bits \in Nat /\ IsFloat(p.delta) /\ IsFloat(p.min)

\* Every declaration, a bad one too, derives constants of those types.
LEMMA ParamsTyped ==
  ASSUME NEW d \in Declarations
  PROVE  /\ Typed(Params(d)) /\ Params(d).bits = BitsRequired(Params(d).max) /\ Params(d).min = d.min
         /\ Params(d).max < 2^Params(d).bits
         /\ Params(d).delta = Sub(d.max, d.min)
         /\ Params(d).max = ToInt(Ceil(Quanta(Sub(d.max, d.min), d.resolution)), CodeBits)
<1> DEFINE delta == Sub(d.max, d.min)
           v == Div(delta, d.resolution)
           q == Quanta(delta, d.resolution)
           max == ToInt(Ceil(q), CodeBits)
<1>1. IsFloat(d.min) /\ IsFloat(d.max) /\ IsFloat(d.resolution)
  BY CompressedAssumption
<1>2. IsFloat(delta)
  BY <1>1, SubIs
<1>3. v \in Int
  BY <1>1, <1>2, DivIs, FloatIs
<1>4. q \in Int
  <2>1. q = v \/ q = One \/ q = LargestCode * One
    BY DEF Quanta
  <2> HIDE DEF q
  <2> QED BY <1>3, <2>1, Units, LargestCodeIs
<1> HIDE DEF q
<1>5. max \in 0 .. 2^CodeBits - 1
  <2>1. Ceil(q) \in Int /\ CodeBits \in Nat
    BY <1>4, LargestCodeIs, WholeIs
  <2> QED BY <2>1, WholeIs
<1>6. max \in Nat
  BY <1>5, LargestCodeIs, PowerAbove
<1> HIDE DEF max
<1>7. BitsRequired(max) \in Nat /\ max < 2^BitsRequired(max)
  BY <1>6, BitsRequiredHolds
<1>8. Params(d) = [max |-> max, bits |-> BitsRequired(max), delta |-> delta, min |-> d.min]
  BY DEF Params, max, q
<1> QED BY <1>1, <1>2, <1>5, <1>7, <1>8 DEF Typed, max, q

\* What is quantized is a code of the field, and the bottom of the range is code 0.
LEMMA QuantizeIs ==
  ASSUME NEW p, Typed(p), NEW v, IsFloat(v)
  PROVE  /\ IsFloat(Normalized(p, v)) /\ Normalized(p, v) \in 0..One
         /\ Quantize(p, v) \in 0..p.max
         /\ Normalized(p, v) = 0 => Quantize(p, v) = 0
         /\ v = NaN => Normalized(p, v) = 0
<1> DEFINE n == Div(Sub(v, p.min), p.delta)
           z == Normalized(p, v)
           h == One \div 2
           f == FromInt(p.max)
           s == Mul(z, f)
           x == Add(s, h)
           c == ToInt(Floor(x), CodeBits)
           m == p.max
<1>1. IsFloat(n) /\ (v = NaN => n = NaN)
  BY SubIs, DivIs DEF Typed
<1>2. z = IF n = NaN \/ n < 0 THEN 0 ELSE IF n > One THEN One ELSE n
  BY DEF Normalized
<1>3. n \in Int /\ One \in Nat /\ CodeBits \in Nat
  BY <1>1, FloatIs, Units, LargestCodeIs
<1> HIDE DEF n
<1>4. IsFloat(z) /\ z \in 0..One /\ (v = NaN => z = 0)
  <2> HIDE DEF z
  <2> QED BY <1>1, <1>2, <1>3, SpecialFloats
<1>5. m \in Nat /\ m \in 0 .. 2^CodeBits - 1
  BY <1>3, PowerAbove DEF Typed
<1> HIDE DEF m, z
<1>6. IsFloat(f)
  BY <1>5, FromIntIs DEF m
<1> HIDE DEF f
<1>7. IsFloat(s) /\ (z = 0 => s = 0 \/ s = NaN)
  BY <1>4, <1>6, MulIs
<1> HIDE DEF s
<1>8. IsFloat(x) /\ x \in Int /\ (s = NaN => x = NaN) /\ (s = 0 => x = h)
  <2>1. IsFloat(h) /\ IsFinite(h) /\ IsFinite(0) /\ h \in Int
    BY SpecialFloats, FloatIs
  <2>2. IsFloat(x) /\ (s = NaN => x = NaN)
    BY <1>7, <2>1, AddIs
  <2>3. s = 0 => x = h
    <3> HIDE DEF h
    <3>1. s = 0 => x = Rounded(0 + h, 1)
      BY <1>7, <2>1, AddIs
    <3>2. Rounded(h * 1, 1) = h /\ h * 1 = h /\ 0 + h = h
      BY <2>1, RoundedExact, FloatIs
    <3> QED BY <3>1, <3>2
  <2> QED BY <2>2, <2>3, FloatIs
<1>9. h \in 0 .. One - 1
  BY Units
<1> HIDE DEF h
<1> HIDE DEF x
<1>10. c \in 0 .. 2^CodeBits - 1
  BY <1>3, <1>8, WholeIs
<1>11. c \in Nat
  BY <1>3, <1>10, PowerAbove
<1>12. s = 0 => c = 0
  BY <1>3, <1>8, <1>9, WholeIs
<1>13. x = NaN => c = 0
  <2>1. ~IsFinite(NaN)
    BY <1>1, FloatIs
  <2> QED BY <2>1 DEF Floor, ToInt
<1> HIDE DEF c
<1>14. Quantize(p, v) = IF c > m THEN m ELSE c
  BY DEF Quantize, c, x, s, z, f, h, m
<1>15. Quantize(p, v) \in 0..m
  BY <1>5, <1>11, <1>14
<1>16. z = 0 => Quantize(p, v) = 0
  BY <1>5, <1>7, <1>8, <1>12, <1>13, <1>14
<1> QED BY <1>4, <1>15, <1>16 DEF m, z

\* A conforming declaration derives conforming constants, of which the largest code is a float.
LEMMA DerivedIs ==
  ASSUME NEW d \in Declarations, DeclarationConforms(d)
  PROVE  /\ ConstantsConform(Params(d)) /\ Representable(Params(d).max * One)
         /\ IsFinite(d.min) /\ IsFinite(d.max) /\ Params(d).delta = Rounded(d.max - d.min, 1)
<1> DEFINE p == Params(d)
           delta == Sub(d.max, d.min)
           v == Div(delta, d.resolution)
           q == Quanta(delta, d.resolution)
           l == LargestCode * One
<1>1. IsFloat(d.min) /\ IsFloat(d.max) /\ IsFloat(d.resolution)
  BY CompressedAssumption
<1>2. d.min \in Int /\ d.max \in Int
  BY <1>1, FloatIs
<1>3. d.min < d.max /\ IsFinite(delta) /\ IsFinite(v)
  BY DEF DeclarationConforms, Less
<1>4. IsFinite(d.min) /\ IsFinite(d.max) /\ delta = Rounded(d.max - d.min, 1) /\ IsFloat(delta)
  BY <1>1, <1>3, SubIs
<1>5. 0 < delta /\ delta # NaN
  <2> DEFINE n == d.max - d.min
  <2>1. n \in Int /\ 1 <= n
    BY <1>2, <1>3
  <2> HIDE DEF n
  <2>2. Rounded(1, 1) <= Rounded(n, 1)
    BY <2>1, RoundedOrdered
  <2>3. Rounded(1 * 1, 1) = 1 /\ 1 * 1 = 1
    BY SpecialFloats, RoundedExact
  <2>4. Rounded(n, 1) \in -Inf .. Inf
    BY <2>1, RoundedIs
  <2>5. delta = Rounded(n, 1)
    BY <1>4 DEF n
  <2> HIDE DEF delta
  <2> QED BY <2>2, <2>3, <2>4, <2>5, Units
<1>6. IsFloat(v) /\ v # NaN /\ v \in Int
  <2>1. IsFloat(v)
    BY <1>1, <1>4, DivIs
  <2> HIDE DEF v
  <2> QED BY <1>3, <2>1, FloatIs
<1>7. One <= l /\ IsFloat(l) /\ IsFloat(One) /\ l \in Nat /\ One \in Nat
  <2>1. IsFloat(l) /\ IsFloat(One) /\ l \in Nat /\ One \in Nat \ {0}
    BY LargestCodeIs, RepresentableIsFloat, SpecialFloats, Units
  <2>2. 1 * One <= LargestCode * One /\ 1 * One = One
    BY <2>1, LargestCodeIs, MultiplesOrdered
  <2> QED BY <2>1, <2>2
<1>8. q = IF v = NaN \/ v < One THEN One ELSE IF v > l THEN l ELSE v
  BY DEF Quanta
<1> HIDE DEF v, l, delta
<1>9. IsFloat(q) /\ One <= q /\ q <= l
  <2> HIDE DEF q
  <2> QED BY <1>6, <1>7, <1>8
<1>10. PICK j \in 1..LargestCode : Ceil(q) = j * One /\ Representable(j * One)
  <2> HIDE DEF q
  <2> QED BY <1>9, CeilIs DEF l
<1>11. p.max = ToInt(Ceil(q), CodeBits) /\ p.delta = delta /\ p.bits = BitsRequired(p.max)
  BY ParamsTyped DEF delta
<1> HIDE DEF q
<1>12. ToInt(j * One, CodeBits) = j
  <2>1. j \in Nat /\ j < 2^CodeBits /\ CodeBits \in Nat
    <3> DEFINE c == 2^CodeBits
    <3>1. LargestCode \in Nat /\ LargestCode < c /\ CodeBits \in Nat /\ c \in Nat
      BY LargestCodeIs, PowerAbove
    <3> HIDE DEF c
    <3>2. j \in Nat /\ j < c
      BY <3>1
    <3> QED BY <3>1, <3>2 DEF c
  <2>2. ToInt(j * One, CodeBits) = j \/ j * One = NaN
    BY <2>1, WholeIs
  <2>3. j * One # NaN
    <3>1. j * One <= LargestCode * One /\ j * One \in Nat
      BY <2>1, LargestCodeIs, MultiplesOrdered, Units
    <3> QED BY <3>1, LargestCodeIs, Units
  <2> QED BY <2>2, <2>3
<1>13. p.max = j
  BY <1>10, <1>11, <1>12
<1> HIDE DEF p
<1>14. ConstantsConform(p)
  <2>1. Less(0, p.delta) /\ IsFinite(p.delta)
    BY <1>3, <1>5, <1>11, Units DEF Less
  <2> QED BY <1>11, <1>13, <2>1 DEF ConstantsConform
<1>15. Representable(p.max * One)
  BY <1>10, <1>13
<1> QED BY <1>4, <1>11, <1>14, <1>15 DEF p, delta

\* Constants that conform have a positive number of codes, each a finite float.
LEMMA CodesAre ==
  ASSUME NEW p, Typed(p), ConstantsConform(p), NEW c \in 0..p.max
  PROVE  /\ p.max \in Nat /\ c \in Nat /\ p.delta \in Nat \ {0} /\ IsFinite(p.delta)
         /\ IsFloat(FromInt(c)) /\ IsFinite(FromInt(c)) /\ FromInt(c) \in Nat
         /\ IsFloat(FromInt(p.max)) /\ IsFinite(FromInt(p.max)) /\ FromInt(p.max) \in Nat \ {0}
         /\ FromInt(c) <= FromInt(p.max) /\ (c = 0 => FromInt(c) = 0)
<1> DEFINE m == p.max
           l == LargestCode
<1>1. m \in 1..l /\ l \in Nat /\ Less(0, p.delta) /\ IsFinite(p.delta) /\ IsFloat(p.delta) /\ c \in 0..m
  BY LargestCodeIs DEF ConstantsConform, Typed
<1>2. p.delta \in Nat \ {0}
  BY <1>1, FloatIs DEF Less
<1> HIDE DEF m, l
<1>3. m \in Nat /\ c \in Nat /\ 1 <= m /\ c <= m /\ m <= l
  BY <1>1
<1>4. FromInt(c) <= FromInt(m) /\ FromInt(m) <= FromInt(l) /\ FromInt(1) <= FromInt(m)
  BY <1>1, <1>3, FromIntIs
<1>5. FromInt(c) \in Nat /\ FromInt(m) \in Nat /\ FromInt(l) \in Nat
      /\ IsFloat(FromInt(c)) /\ IsFloat(FromInt(m))
  BY <1>1, <1>3, FromIntIs
<1>6. FromInt(l) = l * One /\ l * One < Inf
  BY <1>1, LargestCodeIs, FromIntIs DEF l
<1>7. FromInt(1) >= 1
  <2>1. FromInt(1) = Nearest(1 * One, 1) /\ 1 * One = One /\ One * 1 = One /\ One \in Nat \ {0}
    BY Units DEF FromInt
  <2>2. Rounded(One * 1, 1) = One
    BY SpecialFloats, RoundedExact
  <2>3. Rounded(One, 1) = Nearest(One, 1)
    BY <2>1, RoundedIs
  <2> QED BY <2>1, <2>2, <2>3
<1>8. c = 0 => FromInt(c) = 0
  <2>1. 0 * One = 0
    BY Units
  <2>2. Rounded(0, 1) = Nearest(0, 1) /\ Rounded(0, 1) = 0
    BY RoundedIs, RoundedZero
  <2> QED BY <2>1, <2>2 DEF FromInt
<1>9. FromInt(1) \in Nat /\ l * One \in Nat /\ Inf \in Nat
  BY LargestCodeIs, FromIntIs, Units DEF l
<1>10. IsFinite(FromInt(c)) /\ IsFinite(FromInt(m)) /\ FromInt(m) # 0
  BY <1>4, <1>5, <1>6, <1>7, <1>9 DEF IsFinite
<1> QED BY <1>1, <1>2, <1>3, <1>4, <1>5, <1>8, <1>10 DEF m

\* A code decodes between the ends of the range, the first and the last to the ends themselves.
LEMMA DecodeIs ==
  ASSUME NEW p, Typed(p), ConstantsConform(p), IsFinite(Top(p)), NEW c \in 0..p.max
  PROVE  /\ IsFinite(p.min) /\ IsFinite(Decode(p, c)) /\ Decode(p, c) \in p.min .. Top(p)
         /\ c = 0 => Decode(p, c) = p.min
         /\ c = p.max => Decode(p, c) = Top(p)
<1> DEFINE a == FromInt(c)
           b == FromInt(p.max)
           n == Div(a, b)
           delta == p.delta
           s == Mul(n, delta)
           min == p.min
           top == Top(p)
<1>1. /\ delta \in Nat \ {0} /\ IsFinite(delta) /\ IsFloat(delta) /\ IsFloat(min)
      /\ IsFloat(a) /\ IsFinite(a) /\ a \in Nat /\ IsFloat(b) /\ IsFinite(b) /\ b \in Nat \ {0}
      /\ a <= b /\ (c = 0 => a = 0) /\ (c = p.max => a = b)
  BY CodesAre DEF Typed
<1>2. IsFinite(min) /\ IsFinite(top) /\ top = Rounded(min + delta, 1) /\ min \in Int /\ top \in Int
  <2>1. IsFinite(min) /\ IsFinite(top) /\ top = Rounded(min + delta, 1) /\ IsFloat(top)
    BY <1>1, AddIs DEF Top
  <2> QED BY <1>1, <2>1, FloatIs
<1>3. One \in Nat \ {0} /\ Inf \in Nat
  BY Units
<1> HIDE DEF a, b, delta, min, top
<1>4. IsFloat(n) /\ n = Rounded(a * One, b)
  BY <1>1, DivIs
<1>5. n \in 0..One /\ (a = 0 => n = 0) /\ (a = b => n = One)
  <2>1. 0 <= a * One /\ a * One <= One * b /\ a * One \in Int /\ One * b \in Int
    <3>1. a * One <= b * One /\ a * One \in Nat /\ b * One \in Nat /\ b * One = One * b
      BY <1>1, <1>3, MultiplesOrdered
    <3> QED BY <3>1
  <2>2. Rounded(One * b, b) = One
    BY <1>1, SpecialFloats, RoundedExact
  <2>3. Rounded(a * One, b) <= Rounded(One * b, b) /\ Rounded(a * One, b) >= 0
    BY <1>1, <2>1, RoundedOrdered, RoundedZero
  <2>4. n \in Int
    BY <1>4, FloatIs
  <2>5. a = 0 => n = 0
    <3>1. a = 0 => a * One = 0
      BY <1>3
    <3> QED BY <1>1, <1>4, <3>1, RoundedZero
  <2>6. a = b => n = One
    <3>1. a = b => a * One = One * b
      BY <1>1, <1>3
    <3> QED BY <1>4, <2>2, <3>1
  <2> HIDE DEF n
  <2> QED BY <1>3, <1>4, <2>2, <2>3, <2>4, <2>5, <2>6
<1> HIDE DEF n
<1>6. IsFinite(n)
  BY <1>3, <1>5, Units DEF IsFinite
<1>7. IsFloat(s) /\ s = Rounded(n * delta, One)
  BY <1>1, <1>4, <1>6, MulIs
<1>8. s \in 0..delta /\ (n = 0 => s = 0) /\ (n = One => s = delta)
  <2>1. 0 <= n * delta /\ n * delta <= delta * One /\ n * delta \in Int /\ delta * One \in Int
    <3>1. n * delta <= One * delta /\ n * delta \in Nat /\ One * delta \in Nat /\ One * delta = delta * One
      BY <1>1, <1>3, <1>5, MultiplesOrdered
    <3> QED BY <3>1
  <2>2. Rounded(delta * One, One) = delta
    BY <1>1, <1>3, RoundedExact, FloatIs
  <2>3. Rounded(n * delta, One) <= Rounded(delta * One, One) /\ Rounded(n * delta, One) >= 0
    BY <1>3, <2>1, RoundedOrdered, RoundedZero
  <2>4. s \in Int
    BY <1>7, FloatIs
  <2>5. n = 0 => s = 0
    <3>1. n = 0 => n * delta = 0
      BY <1>1
    <3> QED BY <1>3, <1>7, <3>1, RoundedZero
  <2>6. n = One => s = delta
    <3>1. n = One => n * delta = delta * One
      BY <1>1, <1>3
    <3> QED BY <1>7, <2>2, <3>1
  <2> HIDE DEF s
  <2> QED BY <1>1, <1>7, <2>2, <2>3, <2>4, <2>5, <2>6
<1> HIDE DEF s
<1>9. IsFinite(s)
  BY <1>1, <1>3, <1>8 DEF IsFinite
<1> DEFINE x == Add(s, min)
<1>10. IsFloat(x) /\ x = Rounded(s + min, 1) /\ x \in Int
  BY <1>1, <1>2, <1>7, <1>9, AddIs, FloatIs
<1>11. Rounded(min, 1) = min
  <2>1. Rounded(min * 1, 1) = min /\ min * 1 = min
    BY <1>1, <1>2, RoundedExact, FloatIs
  <2> QED BY <2>1
<1>12. min <= s + min /\ s + min <= min + delta /\ s + min \in Int /\ min + delta \in Int
  BY <1>1, <1>2, <1>8
<1>13. min <= x /\ x <= top
  BY <1>2, <1>10, <1>11, <1>12, RoundedOrdered
<1>14. s = 0 => x = min
  <2>1. s = 0 => s + min = min
    BY <1>2
  <2> QED BY <1>10, <1>11, <2>1
<1>15. s = delta => x = top
  <2>1. s = delta => s + min = min + delta
    BY <1>1, <1>2
  <2> QED BY <1>2, <1>10, <2>1
<1>16. Decode(p, c) = x
  BY DEF Decode, x, s, n, a, b, delta, min
<1> HIDE DEF x
<1>17. IsFinite(x) /\ x \in min .. top
  BY <1>2, <1>3, <1>10, <1>13 DEF IsFinite
<1> QED BY <1>1, <1>2, <1>5, <1>8, <1>14, <1>15, <1>16, <1>17 DEF min, top

\* The top of a declared range, and all above it, is the largest code.
LEMMA TopIs ==
  ASSUME NEW d \in Declarations, DeclarationConforms(d), NEW v, IsFloat(v), IsFinite(v), v >= d.max
  PROVE  Quantize(Params(d), v) = Params(d).max
<1> DEFINE p == Params(d)
           m == p.max
           delta == p.delta
           s == Sub(v, p.min)
           n == Div(s, delta)
           f == FromInt(m)
           h == One \div 2
           y == Mul(One, f)
           x == Add(y, h)
           c == ToInt(Floor(x), CodeBits)
<1>1. /\ Typed(p) /\ ConstantsConform(p) /\ Representable(m * One) /\ p.min = d.min
      /\ IsFinite(d.min) /\ IsFinite(d.max) /\ delta = Rounded(d.max - d.min, 1)
      /\ IsFloat(d.min) /\ IsFloat(d.max)
  BY ParamsTyped, DerivedIs, CompressedAssumption
<1>2. m \in Nat /\ m \in 0..m /\ CodeBits \in Nat /\ m < 2^CodeBits
  <2>1. m \in 1..LargestCode /\ LargestCode \in Nat /\ LargestCode < 2^CodeBits /\ CodeBits \in Nat
    BY <1>1, LargestCodeIs DEF ConstantsConform
  <2> DEFINE t == 2^CodeBits
  <2>2. t \in Nat
    BY <2>1, PowerAbove
  <2> HIDE DEF m, t
  <2>3. m \in Nat /\ m < t
    BY <2>1, <2>2 DEF t
  <2> QED BY <2>1, <2>3 DEF t
<1>3. delta \in Nat \ {0} /\ IsFinite(delta) /\ IsFloat(delta) /\ IsFloat(f) /\ IsFinite(f) /\ f \in Nat
  BY <1>1, <1>2, CodesAre DEF Typed
<1>4. f = m * One
  BY <1>1, <1>2, FromIntIs
<1>5. IsFloat(s) /\ s = Rounded(v - d.min, 1) /\ s # NaN /\ s \in Int /\ delta <= s
  <2>1. IsFloat(s) /\ s = Rounded(v - d.min, 1) /\ s # NaN /\ s \in Int
    BY <1>1, SubIs, FloatIs
  <2>2. d.max - d.min <= v - d.min /\ d.max - d.min \in Int /\ v - d.min \in Int
    BY <1>1, FloatIs
  <2>3. Rounded(d.max - d.min, 1) <= Rounded(v - d.min, 1)
    BY <2>2, RoundedOrdered
  <2> QED BY <1>1, <2>1, <2>3
<1>6. Normalized(p, v) = IF n = NaN \/ n < 0 THEN 0 ELSE IF n > One THEN One ELSE n
  BY DEF Normalized
<1>7. One \in Nat \ {0} /\ Inf \in Nat /\ One < Inf /\ NaN \in Nat /\ Inf < NaN
  BY Units
<1> HIDE DEF p, m, delta, s, f, h
<1>8. n # NaN /\ n >= One /\ n \in Int
  <2>1. CASE IsFinite(s)
    <3>1. n = Rounded(s * One, delta) /\ n # NaN /\ IsFloat(n)
      BY <1>3, <1>5, <2>1, DivIs
    <3>2. One * delta <= s * One /\ One * delta \in Int /\ s * One \in Int
      <4>1. s \in Nat
        BY <1>3, <1>5
      <4>2. delta * One <= s * One
        BY <1>3, <1>5, <1>7, <4>1, MultiplesOrdered
      <4> QED BY <1>3, <1>7, <4>1, <4>2
    <3>3. Rounded(One * delta, delta) = One
      BY <1>3, SpecialFloats, RoundedExact
    <3>4. Rounded(One * delta, delta) <= Rounded(s * One, delta)
      BY <1>3, <3>2, RoundedOrdered
    <3>5. n \in Int
      BY <3>1, FloatIs
    <3> QED BY <1>7, <3>1, <3>3, <3>4, <3>5
  <2>2. CASE ~IsFinite(s)
    <3>1. s = Inf
      <4>1. s = NaN \/ s = Inf \/ s = -Inf
        BY <1>5, <2>2, FloatIs
      <4> QED BY <1>3, <1>5, <1>7, <4>1
    <3>2. n = Inf
      BY <1>3, <1>5, <3>1, DivIs
    <3> QED BY <1>7, <3>2
  <2> QED BY <2>1, <2>2
<1> HIDE DEF n
<1>9. Normalized(p, v) = One
  BY <1>6, <1>7, <1>8
<1>10. IsFloat(y) /\ y = f /\ IsFinite(y)
  <2>1. y = Rounded(One * f, One)
    BY <1>3, SpecialFloats, MulIs
  <2>2. Rounded(f * One, One) = f /\ f * One = One * f
    BY <1>3, <1>7, FloatIs, RoundedExact
  <2> QED BY <1>3, <2>1, <2>2
<1> HIDE DEF y
<1>11. IsFloat(x) /\ x # NaN /\ x \in Int /\ m * One <= x
  <2>1. IsFloat(h) /\ IsFinite(h) /\ h \in Nat
    BY SpecialFloats, Units DEF h
  <2>2. IsFloat(x) /\ x = Rounded(y + h, 1) /\ x # NaN /\ x \in Int
    BY <1>10, <2>1, AddIs, FloatIs
  <2>3. f <= y + h /\ f \in Int /\ y + h \in Int
    BY <1>3, <1>10, <2>1
  <2>4. Rounded(f * 1, 1) = f /\ f * 1 = f
    BY <1>3, FloatIs, RoundedExact
  <2>5. Rounded(f, 1) <= Rounded(y + h, 1)
    BY <2>3, RoundedOrdered
  <2> QED BY <1>4, <2>2, <2>4, <2>5
<1> HIDE DEF x
<1>12. m <= c /\ c \in Int
  <2>1. m <= c
    BY <1>2, <1>11, WholeIs
  <2>2. c \in 0 .. 2^CodeBits - 1
    <3>1. Floor(x) \in Int
      BY <1>2, <1>11, WholeIs
    <3> QED BY <1>2, <3>1, WholeIs
  <2>3. 2^CodeBits \in Nat
    BY <1>2, PowerAbove
  <2> QED BY <2>1, <2>2, <2>3
<1>13. Quantize(p, v) = IF c > m THEN m ELSE c
  BY <1>9 DEF Quantize, c, x, y, f, h, m
<1> HIDE DEF c
<1> QED BY <1>2, <1>12, <1>13 DEF m, p

\* The bottom of a range, and all below it, is code 0.
LEMMA BottomIs ==
  ASSUME NEW p, Typed(p), ConstantsConform(p), IsFinite(p.min),
         NEW v, IsFloat(v), IsFinite(v), v <= p.min
  PROVE  Quantize(p, v) = 0
<1> DEFINE s == Sub(v, p.min)
           n == Div(s, p.delta)
           min == p.min
           delta == p.delta
<1>1. IsFloat(min) /\ IsFloat(delta) /\ IsFinite(delta) /\ delta \in Nat \ {0}
  <2>1. IsFloat(delta) /\ Less(0, delta) /\ IsFinite(delta) /\ IsFloat(min)
    BY DEF Typed, ConstantsConform
  <2> HIDE DEF delta
  <2> QED BY <2>1, FloatIs DEF Less
<1>2. IsFloat(s) /\ s = Rounded(v - min, 1) /\ s # NaN /\ s \in Int /\ s <= 0
  <2>1. IsFloat(s) /\ s = Rounded(v - min, 1) /\ s # NaN /\ s \in Int
    BY <1>1, SubIs, FloatIs
  <2>2. v - min <= 0 /\ v - min \in Int
    BY <1>1, FloatIs
  <2> QED BY <2>1, <2>2, RoundedZero
<1>3. One \in Nat \ {0} /\ Inf \in Nat /\ One < Inf /\ NaN \in Nat /\ Inf < NaN
  BY Units
<1>4. Normalized(p, v) = IF n = NaN \/ n < 0 THEN 0 ELSE IF n > One THEN One ELSE n
  BY DEF Normalized
<1> HIDE DEF s, min
<1>5. n \in Int /\ n <= 0
  <2>1. CASE IsFinite(s)
    <3>1. n = Rounded(s * One, delta) /\ IsFloat(n)
      BY <1>1, <1>2, <2>1, DivIs
    <3>2. s * One <= 0 /\ s * One \in Int
      <4>1. (-s) * One \in Nat /\ (-s) * One = -(s * One)
        BY <1>2, <1>3
      <4> QED BY <1>2, <1>3, <4>1
    <3>3. Rounded(s * One, delta) <= 0
      BY <1>1, <3>2, RoundedZero
    <3> QED BY <3>1, <3>3, FloatIs
  <2>2. CASE ~IsFinite(s)
    <3>1. s = -Inf
      <4>1. s = NaN \/ s = Inf \/ s = -Inf
        BY <1>2, <2>2, FloatIs
      <4> QED BY <1>2, <1>3, <4>1
    <3>2. n = -Inf
      BY <1>1, <1>2, <3>1, DivIs
    <3> QED BY <1>3, <3>2
  <2> QED BY <2>1, <2>2
<1> HIDE DEF n
<1>6. Normalized(p, v) = 0
  BY <1>3, <1>4, <1>5
<1> QED BY <1>6, QuantizeIs

-----------------------------------------------------------------------------
(* The field *)

\* What the field holds is what the handlers computed from its constants, whichever way they came.
Came == \/ declaration \in Declarations /\ params = Params(declaration)
        \/ declaration = None /\ params \in Constants
Sent == value # None => /\ value \in Values
                        /\ code # None => code = Quantize(params, value)
Answered == /\ decoded # None => code # None /\ decoded = Decode(params, code)
            /\ checked /\ value # None /\ code # None =>
                 Declared /\ Writable(params, value) /\ outcome = "ok"

FInv == Came /\ Sent /\ Answered

\* Constants that came so are typed, and conform where their declaration does.
LEMMA CameTyped ==
  ASSUME Came
  PROVE  Typed(params) /\ (declaration # None => params.max < 2^params.bits)
<1>1. CASE declaration \in Declarations /\ params = Params(declaration)
  BY <1>1, ParamsTyped
<1>2. CASE declaration = None /\ params \in Constants
  BY <1>2, CompressedAssumption DEF Typed
<1> QED BY <1>1, <1>2 DEF Came

\* What a checked build wrote fits the field and decodes to a finite float.
LEMMA SentIs ==
  ASSUME Came, Sent, value # None, code # None
  PROVE  /\ IsFloat(value) /\ code = Quantize(params, value) /\ code \in 0..params.max
         /\ Declared /\ Writable(params, value) => IsFinite(Decode(params, code))
<1>1. IsFloat(value) /\ code = Quantize(params, value) /\ Typed(params)
  BY CameTyped, CompressedAssumption DEF Sent
<1>2. code \in 0..params.max
  BY <1>1, QuantizeIs
<1>3. Declared /\ Writable(params, value) => IsFinite(Decode(params, code))
  BY <1>1, <1>2, DecodeIs DEF Declared, Writable
<1> QED BY <1>1, <1>2, <1>3

\* An empty field is as it came.
LEMMA InitField == Init => FInv
BY DEF Init, FInv, Came, Sent, Answered

\* Writing, arriving and reading keep it so.
LEMMA NextField == FInv /\ [Next]_vars => FInv'
<1> SUFFICES ASSUME FInv, [Next]_vars PROVE FInv'
  OBVIOUS
<1> USE DEF FInv
<1>1. CASE Write
  <2>1. PICK v \in Values :
          /\ value' = v
          /\ LET traps == checked /\ ~(Declared /\ Writable(params, v))
             IN  /\ outcome' = IF traps THEN "trap" ELSE "ok"
                 /\ code' = IF traps THEN None ELSE Quantize(params, v)
          /\ decoded' = None /\ UNCHANGED <<checked, declaration, params>>
    BY <1>1 DEF Write
  <2>2. Came'
    BY <2>1 DEF Came
  <2>3. Sent'
    BY <2>1 DEF Sent
  <2>4. checked' /\ code' # None => (Declared /\ Writable(params, v)) /\ outcome' = "ok"
    BY <2>1
  <2>5. (Declared' <=> Declared) /\ (Writable(params, value)' <=> Writable(params, v))
    BY <2>1 DEF Declared, Writable
  <2>6. Answered'
    BY <2>1, <2>4, <2>5 DEF Answered
  <2> QED BY <2>2, <2>3, <2>6
<1>2. CASE Arrive
  <2>1. value' = None /\ decoded' = None /\ UNCHANGED <<checked, declaration, params>>
    BY <1>2 DEF Arrive
  <2> QED BY <2>1 DEF Came, Sent, Answered
<1>3. CASE Read
  <2>1. /\ UNCHANGED <<checked, declaration, params, value, code>> /\ code # None
        /\ decoded' = IF outcome' = "ok" THEN Decode(params, code) ELSE None
    BY <1>3 DEF Read
  <2>2. Came'
    BY <2>1 DEF Came
  <2>3. Sent'
    BY <2>1 DEF Sent
  <2>4. decoded' # None => code' # None /\ decoded' = Decode(params', code')
    BY <2>1
  <2>5. ASSUME checked, value # None
        PROVE  Declared /\ Writable(params, value) /\ outcome' = "ok"
    <3>1. Declared /\ Writable(params, value)
      BY <2>1, <2>5 DEF Answered
    <3>2. code \in 0..params.max /\ IsFinite(Decode(params, code)) /\ params.max \in Int
      <4>1. code \in 0..params.max /\ IsFinite(Decode(params, code))
        BY <2>1, <2>5, <3>1, SentIs
      <4>2. params.max \in 1..LargestCode /\ LargestCode \in Nat
        BY <3>1, LargestCodeIs DEF Declared, ConstantsConform
      <4> QED BY <4>1, <4>2
    <3>3. ~(code > params.max)
      BY <3>2
    <3>4. outcome' = "ok"
      BY <1>3, <3>1, <3>2, <3>3 DEF Read
    <3> QED BY <3>1, <3>4
  <2>6. (Declared' <=> Declared) /\ (Writable(params, value)' <=> Writable(params, value))
    BY <2>1 DEF Declared, Writable
  <2>7. Answered'
    BY <2>1, <2>4, <2>5, <2>6 DEF Answered
  <2> QED BY <2>2, <2>3, <2>7
<1>4. CASE UNCHANGED vars
  BY <1>4 DEF vars, Came, Sent, Answered, Declared, Writable
<1> QED BY <1>1, <1>2, <1>3, <1>4 DEF Next

\* The inductive invariant holds throughout.
LEMMA AlwaysField == Spec => []FInv
BY InitField, NextField, PTL DEF Spec

\* Whatever is written in whatever build, with whatever constants, serialize_compressed_float makes
\* a code its reader takes, within the bits derived from a declaration, and NaN is code 0.
THEOREM CodesAlwaysFit == Spec => []CodesFit
<1>1. FInv => CodesFit
  <2> SUFFICES ASSUME FInv, value # None, code # None
               PROVE  /\ code \in 0..params.max
                      /\ declaration # None => code < 2^params.bits
                      /\ value = NaN => code = 0
    BY DEF CodesFit
  <2>1. IsFloat(value) /\ code = Quantize(params, value) /\ code \in 0..params.max /\ Typed(params)
        /\ (declaration # None => params.max < 2^params.bits)
    BY SentIs, CameTyped DEF FInv
  <2>2. value = NaN => code = 0
    BY <2>1, QuantizeIs
  <2>3. declaration # None => code < 2^params.bits
    <3> DEFINE m == params.max
               t == 2^params.bits
    <3>1. m \in Nat /\ t \in Nat /\ code \in 0..m /\ (declaration # None => m < t)
      BY <2>1, LargestCodeIs, PowerAbove DEF Typed
    <3> HIDE DEF m, t
    <3>2. declaration # None => code < t
      BY <3>1
    <3> QED BY <3>2 DEF t
  <2> QED BY <2>1, <2>2, <2>3
<1> QED BY <1>1, AlwaysField, PTL

\* The constants that serialize_compressed_float_params derives from a conforming declaration pass
\* the checks that are made of constants alone, for every count of quanta.
THEOREM DerivedConstantsConform == Spec => []DerivedConform
<1>1. FInv => DerivedConform
  BY DerivedIs DEF FInv, Came, DerivedConform
<1> QED BY <1>1, AlwaysField, PTL

\* What a checked build wrote is read, within the range as it is decoded; the ends of a declared
\* range, and what lies beyond them, are read as the ends.
THEOREM WrittenValuesAreRead == Spec => []WrittenIsRead
<1>1. FInv => WrittenIsRead
  <2> SUFFICES ASSUME FInv, checked, value # None, code # None
               PROVE  /\ outcome = "ok"
                      /\ decoded # None => /\ decoded \in params.min .. Top(params)
                                           /\ value <= params.min => decoded = params.min
                                           /\ declaration # None /\ value >= declaration.max => decoded = Top(params)
    BY DEF WrittenIsRead
  <2>1. outcome = "ok" /\ Declared /\ Writable(params, value)
    BY DEF FInv, Answered
  <2>2. IsFloat(value) /\ code = Quantize(params, value) /\ code \in 0..params.max /\ Typed(params)
    BY SentIs, CameTyped DEF FInv
  <2>3. ConstantsConform(params) /\ IsFinite(Top(params)) /\ IsFinite(value)
    BY <2>1 DEF Declared, Writable
  <2>4. ASSUME decoded # None
        PROVE  /\ decoded \in params.min .. Top(params)
               /\ value <= params.min => decoded = params.min
               /\ declaration # None /\ value >= declaration.max => decoded = Top(params)
    <3>1. decoded = Decode(params, code)
      BY <2>4 DEF FInv, Answered
    <3>2. /\ IsFinite(params.min) /\ decoded \in params.min .. Top(params)
          /\ code = 0 => decoded = params.min
          /\ code = params.max => decoded = Top(params)
      BY <2>2, <2>3, <3>1, DecodeIs
    <3>3. value <= params.min => code = 0
      BY <2>2, <2>3, <3>2, BottomIs
    <3>4. declaration # None /\ value >= declaration.max => code = params.max
      BY <2>1, <2>2, <2>3, TopIs DEF FInv, Came, Declared
    <3> QED BY <3>2, <3>3, <3>4
  <2> QED BY <2>1, <2>4
<1> QED BY <1>1, AlwaysField, PTL
=============================================================================
