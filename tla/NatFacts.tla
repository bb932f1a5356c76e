------------------------------ MODULE NatFacts ------------------------------
(***************************************************************************)
(* Arithmetic that the proofs share: whole multiples and remainders, least *)
(* elements, by which they do induction, and powers of two, of which the   *)
(* provers know only what the subsets of a finite set tell.                *)
(***************************************************************************)
EXTENDS Widths, FiniteSetTheorems, WellFoundedInduction, TLAPS

\* A multiple of w plus less than w leaves just that remainder: what the
\* counters' use of % amounts to.
LEMMA ModUnique ==
  ASSUME NEW w \in Nat \ {0}, NEW k \in Nat, NEW s \in 0 .. w-1
  PROVE  (k * w + s) % w = s
<1> DEFINE a == k * w + s
           q == a \div w
           r == a % w
<1>1. a \in Nat
  OBVIOUS
<1>2. q \in Int /\ r \in 0 .. w-1 /\ a = q * w + r
  BY <1>1
<1> HIDE DEF q, r
<1>3. (k - q) * w = r - s
  BY <1>2
<1>4. CASE k - q >= 1
  <2>1. (k - q) * w >= w
    BY <1>2, <1>4
  <2> QED BY <2>1, <1>2, <1>3
<1>5. CASE k - q <= -1
  <2>1. (k - q) * w <= -w
    BY <1>2, <1>5
  <2> QED BY <2>1, <1>2, <1>3
<1>6. CASE k = q
  BY <1>2, <1>3, <1>6 DEF r
<1> QED BY <1>2, <1>4, <1>5, <1>6

\* The quotient of that sum.
LEMMA DivUnique ==
  ASSUME NEW w \in Nat \ {0}, NEW k \in Nat, NEW s \in 0 .. w-1
  PROVE  (k * w + s) \div w = k
<1> DEFINE a == k * w + s
           q == a \div w
<1>1. a \in Nat
  OBVIOUS
<1>2. q \in Int /\ a % w \in 0 .. w-1 /\ a = q * w + (a % w)
  BY <1>1
<1>3. a % w = s
  BY ModUnique
<1> HIDE DEF q
<1>4. (k - q) * w = 0
  BY <1>2, <1>3
<1>5. k - q >= 1 => (k - q) * w >= w
  BY <1>2
<1>6. k - q <= -1 => (k - q) * w <= -w
  BY <1>2
<1> QED BY <1>2, <1>4, <1>5, <1>6 DEF q

\* The remainder of a number just below zero.
LEMMA ModNegative ==
  ASSUME NEW w \in Nat \ {0}, NEW a \in -w .. -1
  PROVE  a % w = a + w
<1> DEFINE q == a \div w
           r == a % w
<1>1. q \in Int /\ r \in 0 .. w-1 /\ a = q * w + r
  OBVIOUS
<1> HIDE DEF q, r
<1>2. q >= 0 => q * w >= 0
  BY <1>1
<1>3. q <= -2 => q * w <= -2 * w
  <2>1. (q + 2) * w = q * w + 2 * w
    BY <1>1
  <2>2. q <= -2 => (q + 2) * w <= 0
    BY <1>1
  <2> QED BY <1>1, <2>1, <2>2
<1>4. q = -1
  BY <1>1, <1>2, <1>3
<1> QED BY <1>1, <1>4 DEF r

\* Quotient and remainder of a number.
LEMMA DivMod ==
  ASSUME NEW w \in Nat \ {0}, NEW a \in Nat
  PROVE  a \div w \in Nat /\ a % w \in 0 .. w-1 /\ a = (a \div w) * w + (a % w)
OBVIOUS

\* Multiples are ordered as their factors are.
LEMMA MultiplesOrdered ==
  ASSUME NEW w \in Nat \ {0}, NEW a \in Nat, NEW b \in Nat
  PROVE  /\ a <= b => a * w <= b * w
         /\ a < b => a * w + w <= b * w
<1>1. a <= b => (b - a) * w >= 0
  OBVIOUS
<1>2. a < b => (b - a) * w >= w
  OBVIOUS
<1> QED BY <1>1, <1>2

\* Whole steps of size w: one more multiple below a bound that is a multiple
\* too leaves room for the whole step.
LEMMA NextMultiple ==
  ASSUME NEW w \in Nat \ {0}, NEW a \in Nat, NEW n \in Nat,
         n % w = 0, a <= n, a % w # 0
  PROVE  a + (w - (a % w)) <= n /\ (w - (a % w)) \in 1 .. w
<1> DEFINE q == a \div w
           r == a % w
           m == n \div w
<1>1. q \in Int /\ r \in 1 .. w-1 /\ a = q * w + r
  OBVIOUS
<1>2. m \in Int /\ n = m * w
  OBVIOUS
<1> HIDE DEF q, r, m
<1>3. q < m
  <2>1. SUFFICES ASSUME q >= m PROVE FALSE
    BY <1>1, <1>2
  <2>2. (q - m) * w >= 0
    BY <1>1, <1>2, <2>1
  <2> QED BY <1>1, <1>2, <2>2
<1>4. (m - q) * w >= w
  BY <1>1, <1>2, <1>3
<1>5. a + (w - r) <= n /\ (w - r) \in 1 .. w
  BY <1>1, <1>2, <1>4
<1> QED BY <1>5 DEF r

\* The bits to the next multiple of w, and where they lead.
LEMMA Aligned ==
  ASSUME NEW w \in Nat \ {0}, NEW a \in Nat
  PROVE  LET n == (w - (a % w)) % w IN
         n \in 0 .. w - 1 /\ (a + n) % w = 0
<1> DEFINE q == a \div w
           s == a % w
<1>1. q \in Nat /\ s \in 0 .. w - 1 /\ a = q * w + s
  OBVIOUS
<1>2. CASE s = 0
  BY <1>1, <1>2
<1>3. CASE s # 0
  <2> HIDE DEF q, s
  <2>1. (w - s) \in 1 .. w - 1
    BY <1>1, <1>3
  <2>2. (w - s) % w = w - s
    BY <2>1
  <2>3. a + (w - s) = (q + 1) * w
    BY <1>1
  <2>4. ((q + 1) * w) % w = 0
    BY <1>1
  <2> QED BY <2>1, <2>2, <2>3, <2>4 DEF s
<1> QED BY <1>2, <1>3

\* A whole number of steps keeps a count a multiple of the step.
LEMMA AddMultiple ==
  ASSUME NEW w \in Nat \ {0}, NEW a \in Nat, NEW k \in Nat, a % w = 0
  PROVE  (a + k * w) % w = 0
<1> DEFINE q == a \div w
<1>1. q \in Nat /\ a = q * w
  OBVIOUS
<1> HIDE DEF q
<1>2. a + k * w = (q + k) * w + 0
  BY <1>1
<1> QED BY <1>1, <1>2, ModUnique

\* Every set of numbers has a least one: what the inductions below rest on.
LEMMA LeastNat ==
  ASSUME NEW T, T \subseteq Nat, T # {}
  PROVE  \E x \in T : \A y \in T : x <= y
<1> DEFINE R == OpToRel(<, Nat)
<1>1. IsWellFoundedOn(R, Nat)
  BY NatLessThanWellFounded
<1>2. \A x, y \in Nat : x < y => <<x, y>> \in R
  BY DEF OpToRel
<1> HIDE DEF R
<1>3. \E x \in T : \A y \in T : ~ (<<y, x>> \in R)
  BY <1>1, WFMin
<1>4. PICK x \in T : \A y \in T : ~ (<<y, x>> \in R)
  BY <1>3
<1>5. \A y \in T : ~(y < x)
  BY <1>2, <1>4
<1>6. \A y \in T : x <= y
  BY <1>5
<1> QED BY <1>6

-----------------------------------------------------------------------------
(* Powers of two *)

\* There are 2^n sets of numbers up to n.
LEMMA PowerCounts ==
  ASSUME NEW n \in Nat
  PROVE  IsFiniteSet(SUBSET (1..n)) /\ Cardinality(SUBSET (1..n)) = 2^n
<1>1. IsFiniteSet(1..n) /\ Cardinality(1..n) = n
  BY FS_Interval
<1> QED BY <1>1, FS_SUBSET

\* The empty set has one subset.
LEMMA PowerZero == 2^0 = 1
<1>1. SUBSET (1..0) = {{}}
  OBVIOUS
<1>2. Cardinality({{}}) = 1
  BY FS_Singleton
<1> QED BY <1>1, <1>2, PowerCounts

\* One more number doubles the subsets: each with it and without.
LEMMA PowerStep ==
  ASSUME NEW n \in Nat
  PROVE  2^(n+1) = 2 * 2^n
<1> DEFINE S == SUBSET (1..n)
           T == {s \cup {n+1} : s \in S}
           f == [s \in S |-> s \cup {n+1}]
<1>1. IsFiniteSet(S) /\ Cardinality(S) = 2^n
  BY PowerCounts
<1>2. f \in Bijection(S, T)
  <2>1. \A s \in S : n+1 \notin s
    OBVIOUS
  <2>2. \A s, t \in S : s \cup {n+1} = t \cup {n+1} => s = t
    BY <2>1
  <2>3. f \in [S -> T]
    OBVIOUS
  <2>4. \A t \in T : \E s \in S : f[s] = t
    OBVIOUS
  <2>5. \A s, t \in S : f[s] = f[t] => s = t
    BY <2>2
  <2> HIDE DEF f, S, T
  <2> QED BY <2>3, <2>4, <2>5 DEF Bijection, Injection, Surjection, IsInjective
<1>3. IsFiniteSet(T) /\ Cardinality(T) = 2^n
  <2>1. ExistsBijection(S, T)
    BY <1>2 DEF ExistsBijection
  <2> QED BY <2>1, <1>1, FS_Bijection
<1>4. S \cap T = {}
  OBVIOUS
<1>5. S \cup T = SUBSET (1 .. n+1)
  <2>1. ASSUME NEW u \in SUBSET (1 .. n+1), n+1 \in u PROVE u \in T
    <3>1. u \ {n+1} \in S /\ u = (u \ {n+1}) \cup {n+1}
      BY <2>1
    <3> QED BY <3>1
  <2>2. ASSUME NEW u \in SUBSET (1 .. n+1), n+1 \notin u PROVE u \in S
    BY <2>2
  <2>3. ASSUME NEW u \in S \cup T PROVE u \in SUBSET (1 .. n+1)
    OBVIOUS
  <2> HIDE DEF S, T
  <2> QED BY <2>1, <2>2, <2>3
<1>6. Cardinality(SUBSET (1 .. n+1)) = 2^n + 2^n - 0
  <2> HIDE DEF S, T
  <2>1. Cardinality(S \cup T) = 2^n + 2^n - Cardinality(S \cap T)
    BY <1>1, <1>3, FS_Union
  <2> QED BY <2>1, <1>4, <1>5, FS_EmptySet
<1>7. Cardinality(SUBSET (1 .. n+1)) = 2^(n+1)
  BY PowerCounts
<1>8. 2^n \in Nat
  BY <1>1, FS_CardinalityType
<1> QED BY <1>6, <1>7, <1>8

\* A power of two is a number, and exceeds its exponent.
LEMMA PowerAbove == \A n \in Nat : 2^n \in Nat /\ n < 2^n
<1> DEFINE Bad == {n \in Nat : ~(2^n \in Nat /\ n < 2^n)}
<1> SUFFICES ASSUME Bad # {} PROVE FALSE
  OBVIOUS
<1>1. PICK n \in Bad : \A y \in Bad : n <= y
  <2>1. Bad \subseteq Nat
    OBVIOUS
  <2> HIDE DEF Bad
  <2> QED BY <2>1, LeastNat
<1>2. n \in Nat /\ ~(2^n \in Nat /\ n < 2^n)
  OBVIOUS
<1>3. n # 0
  <2>1. SUFFICES ASSUME n = 0 PROVE FALSE
    OBVIOUS
  <2>2. 2^n = 1
    BY <2>1, PowerZero
  <2>3. 2^n \in Nat /\ n < 2^n
    <3> DEFINE x == 2^n
    <3>1. x = 1
      BY <2>2
    <3> HIDE DEF x
    <3>2. x \in Nat /\ n < x
      BY <3>1, <2>1
    <3> QED BY <3>2 DEF x
  <2> QED BY <1>2, <2>3
<1>4. n - 1 \in Nat /\ n - 1 \notin Bad
  <2>1. n - 1 \in Nat /\ ~(n <= n - 1)
    BY <1>2, <1>3
  <2> HIDE DEF Bad
  <2> QED BY <2>1, <1>1
<1>5. 2^(n-1) \in Nat /\ n - 1 < 2^(n-1)
  BY <1>4
<1>6. 2^((n-1)+1) = 2 * 2^(n-1)
  BY <1>4, PowerStep
<1> DEFINE x == 2^n
           y == 2^(n-1)
<1>7. (n-1) + 1 = n
  BY <1>2
<1>8. x = 2 * y
  BY <1>6, <1>7
<1>9. y \in Nat /\ n - 1 < y
  BY <1>5
<1>10. n \in Nat
  OBVIOUS
<1> HIDE DEF x, y, Bad
<1>11. x \in Nat /\ n < x
  BY <1>3, <1>8, <1>9, <1>10
<1> QED BY <1>2, <1>11 DEF x

\* Powers multiply as exponents add.
LEMMA PowerSum ==
  ASSUME NEW a \in Nat
  PROVE  \A b \in Nat : 2^(a+b) = 2^a * 2^b
<1> DEFINE Bad == {b \in Nat : 2^(a+b) # 2^a * 2^b}
<1> SUFFICES ASSUME Bad # {} PROVE FALSE
  OBVIOUS
<1>1. PICK b \in Bad : \A y \in Bad : b <= y
  <2>1. Bad \subseteq Nat
    OBVIOUS
  <2> HIDE DEF Bad
  <2> QED BY <2>1, LeastNat
<1>2. b \in Nat /\ 2^(a+b) # 2^a * 2^b
  OBVIOUS
<1>3. b # 0
  <2>1. b = 0 => a + b = a /\ 2^b = 1
    BY PowerZero
  <2>2. 2^a \in Nat
    BY PowerAbove
  <2> QED BY <2>1, <2>2, <1>2
<1>4. b - 1 \in Nat /\ b - 1 \notin Bad
  <2>1. b - 1 \in Nat /\ ~(b <= b - 1)
    BY <1>2, <1>3
  <2> HIDE DEF Bad
  <2> QED BY <2>1, <1>1
<1>5. 2^(a+(b-1)) = 2^a * 2^(b-1)
  BY <1>4
<1>6. 2^((b-1)+1) = 2 * 2^(b-1) /\ (b-1) + 1 = b
  BY <1>4, <1>2, PowerStep
<1>7. 2^((a+(b-1))+1) = 2 * 2^(a+(b-1)) /\ (a+(b-1)) + 1 = a + b
  BY <1>4, <1>2, PowerStep
<1> DEFINE x == 2^a
           y == 2^(b-1)
<1>8. x \in Nat /\ y \in Nat
  BY <1>4, PowerAbove
<1>9. 2^b = 2 * y /\ 2^(a+b) = 2 * (x * y)
  BY <1>5, <1>6, <1>7
<1> HIDE DEF x, y
<1>10. 2 * (x * y) = x * (2 * y)
  BY <1>8
<1> QED BY <1>2, <1>9, <1>10 DEF x

\* They grow with their exponents, by a factor of two at least.
LEMMA PowerOrdered ==
  ASSUME NEW a \in Nat, NEW b \in Nat
  PROVE  /\ a <= b => 2^a <= 2^b
         /\ a < b => 2 * 2^a <= 2^b
<1>1. ASSUME NEW c \in Nat, NEW d \in Nat, c <= d PROVE 2^c <= 2^d
  <2> DEFINE x == 2^c
             y == 2^(d-c)
  <2>1. d - c \in Nat /\ c + (d - c) = d
    BY <1>1
  <2>2. x \in Nat /\ y \in Nat /\ y >= 1
    BY <2>1, PowerAbove
  <2>3. 2^d = x * y
    BY <2>1, PowerSum
  <2> HIDE DEF x, y
  <2>4. x <= x * y
    <3>1. x * (y - 1) >= 0
      BY <2>2
    <3>2. x * (y - 1) = x * y - x
      BY <2>2
    <3> QED BY <3>1, <3>2, <2>2
  <2> QED BY <2>3, <2>4 DEF x
<1>2. a < b => a + 1 <= b /\ a + 1 \in Nat
  OBVIOUS
<1> QED BY <1>1, <1>2, PowerStep

-----------------------------------------------------------------------------
(* The digits of a number *)

\* Dividing twice is dividing by the product.
LEMMA DivDiv ==
  ASSUME NEW x \in Nat \ {0}, NEW b \in Nat \ {0}, NEW v \in Nat
  PROVE  v \div (x * b) = (v \div x) \div b
<1> DEFINE q == v \div x
           r == v % x
           p == q \div b
           s == q % b
           w == x * b
           t == s * x + r
<1>1. q \in Nat /\ r \in 0 .. x-1 /\ v = q * x + r
  BY DivMod
<1> HIDE DEF q, r
<1>2. p \in Nat /\ s \in 0 .. b-1 /\ q = p * b + s
  BY <1>1, DivMod
<1> HIDE DEF p, s
<1>3. w \in Nat \ {0}
  OBVIOUS
<1>4. s * x + x <= b * x /\ s * x \in Nat
  BY <1>2, MultiplesOrdered
<1>5. b * x = w
  OBVIOUS
<1> HIDE DEF w
<1>6. t \in 0 .. w-1
  <2> DEFINE sx == s * x
             bx == b * x
  <2>1. sx \in Nat /\ sx + x <= bx /\ bx = w
    BY <1>4, <1>5
  <2> HIDE DEF sx, bx
  <2>2. sx + r \in 0 .. w-1
    BY <1>1, <1>3, <2>1
  <2> QED BY <2>2 DEF sx
<1>7. v = p * w + t
  <2>1. (p * b + s) * x = p * (x * b) + s * x
    BY <1>2
  <2>2. q * x = p * w + s * x
    BY <1>2, <2>1 DEF w
  <2> QED BY <1>1, <1>2, <1>3, <1>4, <2>2
<1> HIDE DEF t
<1>8. (p * w + t) \div w = p
  BY <1>2, <1>3, <1>6, DivUnique
<1> QED BY <1>7, <1>8 DEF w, p, q

\* The number that the bits of v from k up spell: twice the one from k + 1 up, and bit k.
LEMMA BitStep ==
  ASSUME NEW v \in Nat, NEW k \in Nat
  PROVE  /\ v \div 2^k \in Nat /\ (v \div 2^k) % 2 \in 0..1
         /\ v \div 2^k = 2 * (v \div 2^(k+1)) + ((v \div 2^k) % 2)
<1> DEFINE x == 2^k
           d == v \div x
<1>1. x \in Nat \ {0} /\ 2^(k+1) = 2 * x
  BY PowerAbove, PowerStep
<1> HIDE DEF x
<1>2. 2 * x = x * 2
  BY <1>1
<1>3. v \div (x * 2) = d \div 2
  BY <1>1, DivDiv
<1>4. d \in Nat
  BY <1>1, DivMod
<1> HIDE DEF d
<1>5. d \div 2 \in Nat /\ d % 2 \in 0 .. 2-1 /\ d = (d \div 2) * 2 + (d % 2)
  BY <1>4, DivMod
<1>6. d = 2 * (d \div 2) + (d % 2) /\ d % 2 \in 0..1
  BY <1>5
<1> QED BY <1>1, <1>2, <1>3, <1>4, <1>6 DEF x, d

\* From 0 up they spell v, and past its width nothing.
LEMMA BitsEnd ==
  ASSUME NEW v \in Nat, NEW n \in Nat, v < 2^n
  PROVE  v \div 2^0 = v /\ v \div 2^n = 0 /\ v % 2^n = v
<1> DEFINE x == 2^n
<1>1. x \in Nat \ {0} /\ v \in 0 .. x-1
  BY PowerAbove
<1>2. v \div 2^0 = v
  BY PowerZero
<1> HIDE DEF x
<1>3. 0 * x + v = v
  BY <1>1
<1>4. v \div x = 0 /\ v % x = v
  BY <1>1, <1>3, DivUnique, ModUnique
<1> QED BY <1>2, <1>4 DEF x

\* The digits above m of a number of m + k bits: a number of k bits.
LEMMA HighDigits ==
  ASSUME NEW v \in Nat, NEW m \in Nat, NEW k \in Nat
  PROVE  /\ v \div 2^m \in Nat /\ v % 2^m \in Nat /\ v % 2^m < 2^m
         /\ v = (v % 2^m) + (v \div 2^m) * 2^m
         /\ v \div 2^(m+k) = (v \div 2^m) \div 2^k
         /\ v < 2^(m+k) => v \div 2^m < 2^k
<1> DEFINE x == 2^m
           y == 2^k
           d == v \div x
           r == v % x
<1>1. x \in Nat \ {0} /\ y \in Nat \ {0} /\ 2^(m+k) = x * y
  <2>1. x \in Nat /\ m < x /\ y \in Nat /\ k < y
    BY PowerAbove
  <2>2. 2^(m+k) = x * y
    BY PowerSum
  <2> HIDE DEF x, y
  <2> QED BY <2>1, <2>2
<1> HIDE DEF x, y
<1>2. d \in Nat /\ r \in 0 .. x-1 /\ v = d * x + r /\ v \div (x * y) = d \div y
  BY <1>1, DivMod, DivDiv
<1> HIDE DEF d, r
<1>3. r \in Nat /\ r < x /\ v = r + d * x
  <2> DEFINE dx == d * x
  <2>1. dx \in Nat /\ v = dx + r
    BY <1>1, <1>2
  <2> HIDE DEF dx
  <2>2. r \in Nat /\ r < x /\ v = r + dx
    BY <1>1, <1>2, <2>1
  <2> QED BY <2>2 DEF dx
<1>4. ASSUME v < x * y PROVE d < y
  <2>1. y <= d => y * x <= d * x
    BY <1>1, <1>2, MultiplesOrdered
  <2>2. y * x = x * y /\ y * x \in Nat /\ d * x \in Nat
    BY <1>1, <1>2
  <2>3. y <= d => x * y <= v
    BY <1>2, <1>3, <2>1, <2>2
  <2> QED BY <1>1, <1>2, <1>4, <2>2, <2>3
<1> QED BY <1>1, <1>2, <1>3, <1>4 DEF x, y, d, r

\* The lowest m + k digits: the lowest m, and above them the k after.
LEMMA LowDigits ==
  ASSUME NEW v \in Nat, NEW m \in Nat, NEW k \in Nat
  PROVE  v % 2^(m+k) = (v % 2^m) + ((v \div 2^m) % 2^k) * 2^m
<1> DEFINE x == 2^m
           y == 2^k
           w == x * y
           d == v \div x
           r == v % x
           p == d \div y
           e == d % y
           t == r + e * x
<1>1. x \in Nat \ {0} /\ y \in Nat \ {0} /\ 2^(m+k) = w
  <2>1. x \in Nat /\ m < x /\ y \in Nat /\ k < y
    BY PowerAbove
  <2>2. 2^(m+k) = w
    BY PowerSum
  <2> HIDE DEF x, y, w
  <2> QED BY <2>1, <2>2
<1> HIDE DEF x, y
<1>2. d \in Nat /\ r \in 0 .. x-1 /\ v = d * x + r
  BY <1>1, DivMod
<1> HIDE DEF d, r
<1>3. p \in Nat /\ e \in 0 .. y-1 /\ d = p * y + e
  BY <1>1, <1>2, DivMod
<1> HIDE DEF p, e
<1>4. e * x + x <= y * x /\ e * x \in Nat /\ y * x = w /\ w \in Nat \ {0}
  BY <1>1, <1>3, MultiplesOrdered
<1>5. d * x = p * w + e * x /\ p * w \in Nat
  BY <1>1, <1>3
<1> HIDE DEF w
<1>6. t \in 0 .. w-1 /\ v = p * w + t
  <2> DEFINE ex == e * x
             pw == p * w
             yx == y * x
             dx == d * x
  <2>1. /\ ex \in Nat /\ ex + x <= yx /\ yx = w /\ pw \in Nat
        /\ dx = pw + ex /\ v = dx + r
    BY <1>2, <1>4, <1>5
  <2> HIDE DEF ex, pw, yx, dx
  <2>2. r + ex \in 0 .. w-1 /\ v = pw + (r + ex)
    BY <1>1, <1>2, <1>4, <2>1
  <2> QED BY <2>2 DEF ex, pw
<1> HIDE DEF t
<1>7. (p * w + t) % w = t
  BY <1>3, <1>4, <1>6, ModUnique
<1> QED BY <1>1, <1>6, <1>7 DEF t, x, y, d, r, e

\* A number above the bits of another: what groups, halves and bytes put together.
LEMMA PowerJoin ==
  ASSUME NEW i \in Nat, NEW j \in Nat, NEW a \in Nat, a < 2^i, NEW b \in Nat, b < 2^j
  PROVE  a + b * 2^i \in Nat /\ a + b * 2^i < 2^(i+j)
<1> DEFINE x == 2^i
           y == 2^j
<1>1. x \in Nat /\ y \in Nat /\ 2^(i+j) = x * y
  BY PowerAbove, PowerSum
<1> HIDE DEF x, y
<1>2. a < x /\ b < y
  BY DEF x, y
<1>3. (y - 1 - b) * x >= 0
  BY <1>1, <1>2
<1>4. (y - 1 - b) * x = x * y - x - b * x
  BY <1>1
<1>5. b * x \in Nat /\ x * y \in Nat
  BY <1>1
<1>6. a + b * x \in Nat /\ a + b * x < x * y
  BY <1>1, <1>2, <1>3, <1>4, <1>5
<1> QED BY <1>1, <1>6 DEF x

\* The bits a range takes: the least width that holds it.
LEMMA BitsRequiredHolds ==
  ASSUME NEW range \in Nat
  PROVE  /\ BitsRequired(range) \in Nat
         /\ range < 2^BitsRequired(range)
         /\ \A m \in Nat : range < 2^m => BitsRequired(range) <= m
<1> DEFINE T == {n \in Nat : range < 2^n}
           P(n) == 2^n > range /\ \A m \in 0 .. n-1 : 2^m <= range
<1>1. range \in T
  BY PowerAbove
<1>2. PICK n \in T : \A y \in T : n <= y
  <2>1. T \subseteq Nat /\ T # {}
    BY <1>1
  <2> HIDE DEF T
  <2> QED BY <2>1, LeastNat
<1>3. n \in 0..range /\ P(n)
  <2>1. n \in Nat /\ range < 2^n /\ n <= range /\ 2^n \in Nat
    BY <1>1, <1>2, PowerAbove
  <2>2. ASSUME NEW m \in 0 .. n-1 PROVE 2^m <= range
    <3>1. m \in Nat /\ ~(n <= m) /\ 2^m \in Nat
      BY <2>1, PowerAbove
    <3>2. m \notin T
      <4> HIDE DEF T
      <4> QED BY <3>1, <1>2
    <3> QED BY <3>1, <3>2
  <2> QED BY <2>1, <2>2
<1>4. BitsRequired(range) \in 0..range /\ P(BitsRequired(range))
  BY <1>3 DEF BitsRequired
<1> DEFINE k == BitsRequired(range)
<1>5. k \in Nat /\ 2^k \in Nat /\ range < 2^k
  BY <1>4, PowerAbove
<1>6. ASSUME NEW m \in Nat, range < 2^m PROVE k <= m
  <2>1. SUFFICES ASSUME m < k PROVE FALSE
    BY <1>5
  <2>2. m \in 0 .. k-1 /\ 2^m \in Nat
    BY <1>5, <2>1, PowerAbove
  <2>3. 2^m <= range
    BY <2>2, <1>4
  <2> QED BY <2>2, <2>3, <1>6
<1> QED BY <1>5, <1>6
=============================================================================
