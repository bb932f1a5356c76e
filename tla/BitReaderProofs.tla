-------------------------- MODULE BitReaderProofs --------------------------
(***************************************************************************)
(* The bit reader returns exactly the packet, whatever lies behind it and  *)
(* whichever path a read takes: the fast and the slow window, and the span *)
(* of a group, are all the same slice of the buffer.                       *)
(***************************************************************************)
EXTENDS BitReader, NatFacts

\* The widths, for every step below.
LEMMA WidthFacts ==
  /\ ByteBits \in Nat \ {0} /\ WindowBytes \in Nat /\ MaxBits \in Nat /\ WindowBits \in Nat
  /\ WindowBits = WindowBytes * ByteBits
  /\ ByteBits <= MaxBits /\ MaxBits + ByteBits - 1 <= WindowBits
BY ReaderAssumption DEF WindowBits

\* What every reader keeps, lied to or not: the buffer is an allocation of whole bytes, and the
\* position a number.
Buffered == /\ bytes \in Nat /\ data \subseteq 0 .. bytes * ByteBits - 1
            /\ bits_read \in Nat

-----------------------------------------------------------------------------
(* Windows *)

\* The bits of a slice, position by position.
LEMMA InSlice ==
  ASSUME NEW v, NEW at, NEW n, NEW i
  PROVE  i \in Slice(v, at, n) <=> i \in 0 .. n-1 /\ at + i \in v
BY DEF Slice

\* Either window is the buffer from byte b on, zeros past its end.
LEMMA WindowIsSlice ==
  ASSUME Buffered, NEW b \in Nat
  PROVE  LoadWindow(b) = Slice(data, b * ByteBits, WindowBits)
<1> USE WidthFacts
<1>1. CASE b + WindowBytes <= bytes
  BY <1>1 DEF LoadWindow
<1>2. CASE ~(b + WindowBytes <= bytes) /\ b < bytes
  <2> DEFINE n == bytes - b
  <2>1. n \in Nat /\ n <= WindowBytes /\ n * ByteBits = bytes * ByteBits - b * ByteBits
    BY <1>2 DEF Buffered
  <2>2. LoadWindow(b) = Slice(data, b * ByteBits, n * ByteBits)
    BY <1>2 DEF LoadWindow, LoadWindowSlow, Buffered
  <2>3. n * ByteBits <= WindowBits
    BY <2>1, MultiplesOrdered
  <2>4. ASSUME NEW i \in 0 .. WindowBits - 1, b * ByteBits + i \in data
        PROVE  i \in 0 .. n * ByteBits - 1
    BY <2>1, <2>4 DEF Buffered
  <2> HIDE DEF n
  <2>5. n * ByteBits \in Nat /\ b * ByteBits \in Nat
    BY <2>1
  <2> QED BY <2>2, <2>3, <2>4, <2>5 DEF Slice
<1>3. CASE ~(b < bytes)
  <2>1. LoadWindow(b) = Slice(data, bytes * ByteBits, 0)
    <3>1. ~(b + WindowBytes <= bytes) \/ WindowBytes = 0
      BY <1>3 DEF Buffered
    <3>2. WindowBytes # 0
      OBVIOUS
    <3>3. (bytes - bytes) * ByteBits = 0
      BY DEF Buffered
    <3> QED BY <1>3, <3>1, <3>2, <3>3 DEF LoadWindow, LoadWindowSlow, Buffered
  <2>2. Slice(data, bytes * ByteBits, 0) = {}
    BY DEF Slice
  <2>3. bytes * ByteBits <= b * ByteBits /\ bytes * ByteBits \in Nat /\ b * ByteBits \in Nat
    BY <1>3, MultiplesOrdered DEF Buffered
  <2>4. ASSUME NEW i \in 0 .. WindowBits - 1, b * ByteBits + i \in data
        PROVE  FALSE
    BY <2>3, <2>4 DEF Buffered
  <2> QED BY <2>1, <2>2, <2>4 DEF Slice
<1> QED BY <1>1, <1>2, <1>3

\* So what a read returns is the bits from its position on; all of them, for a width in range.
LEMMA ValueIsSlice ==
  ASSUME Buffered, NEW at \in Nat, NEW n \in Nat
  PROVE  /\ ValueAt(at, n) \subseteq Slice(data, at, n)
         /\ n <= MaxBits => ValueAt(at, n) = Slice(data, at, n)
<1> USE WidthFacts
<1> DEFINE b == at \div ByteBits
           s == at % ByteBits
<1>0. b \in Nat /\ s \in 0 .. ByteBits - 1 /\ at = b * ByteBits + s
  BY DivMod
<1>2. ValueAt(at, n) = Extract(Slice(data, b * ByteBits, WindowBits), s, n)
  BY <1>0, WindowIsSlice DEF ValueAt
<1> HIDE DEF b, s
<1>1. b \in Nat /\ s \in 0 .. ByteBits - 1 /\ at = b * ByteBits + s /\ b * ByteBits \in Nat
  BY <1>0
<1>3. ASSUME NEW i \in Nat
      PROVE  i \in ValueAt(at, n) <=> /\ i \in 0 .. n-1 /\ i \in 0 .. MaxBits - 1
                                      /\ s + i \in 0 .. WindowBits - 1 /\ at + i \in data
  <2>1. b * ByteBits + (s + i) = at + i
    BY <1>1
  <2> QED BY <1>2, <2>1 DEF Extract, Slice
<1>4. ValueAt(at, n) \subseteq Nat
  BY <1>2 DEF Extract, Slice
<1>5. ValueAt(at, n) \subseteq Slice(data, at, n)
  BY <1>3, <1>4 DEF Slice
<1>6. ASSUME n <= MaxBits, NEW i \in Slice(data, at, n) PROVE i \in ValueAt(at, n)
  <2>1. i \in 0 .. n-1 /\ at + i \in data
    BY <1>6 DEF Slice
  <2>2. i \in Nat /\ i \in 0 .. MaxBits - 1 /\ s + i \in 0 .. WindowBits - 1
    BY <2>1, <1>6, <1>1
  <2> QED BY <2>1, <2>2, <1>3
<1> QED BY <1>5, <1>6

-----------------------------------------------------------------------------
(* Groups *)

\* the function that Before defines
Summed(f, widths, m) == f = [k \in 0..m |-> IF k = 0 THEN 0 ELSE f[k-1] + widths[k]]

\* The recursion of Before has a solution in Nat: by its least counterexample.
LEMMA SummedExists ==
  ASSUME NEW widths \in Seq(Nat)
  PROVE  \A m \in 0 .. Len(widths) : \E f \in [0..m -> Nat] : Summed(f, widths, m)
<1> DEFINE P(m) == \E f \in [0..m -> Nat] : Summed(f, widths, m)
           Bad == {m \in 0 .. Len(widths) : ~P(m)}
<1> SUFFICES ASSUME Bad # {} PROVE FALSE
  OBVIOUS
<1>1. PICK m \in Bad : \A y \in Bad : m <= y
  <2>1. Bad \subseteq Nat
    OBVIOUS
  <2> HIDE DEF Bad
  <2> QED BY <2>1, LeastNat
<1>2. m \in 0 .. Len(widths) /\ ~P(m)
  OBVIOUS
<1>3. CASE m = 0
  <2> DEFINE f == [k \in 0..0 |-> 0]
  <2>1. f \in [0..0 -> Nat] /\ Summed(f, widths, 0)
    BY DEF Summed
  <2> QED BY <2>1, <1>2, <1>3
<1>4. CASE m # 0
  <2>1. m - 1 \in 0 .. Len(widths) /\ m - 1 \notin Bad /\ m \in 1 .. Len(widths)
    <3>1. m - 1 \in 0 .. Len(widths) /\ m \in 1 .. Len(widths)
      BY <1>2, <1>4
    <3>2. ~(m <= m - 1)
      BY <3>1
    <3> HIDE DEF Bad
    <3> QED BY <1>1, <3>1, <3>2
  <2>2. PICK f \in [0..m-1 -> Nat] : Summed(f, widths, m-1)
    BY <2>1
  <2> DEFINE g == [k \in 0..m |-> IF k = m THEN f[m-1] + widths[m] ELSE f[k]]
  <2>3. g \in [0..m -> Nat]
    <3>1. f[m-1] \in Nat /\ \A k \in 0..m : k # m => f[k] \in Nat
      BY <2>1
    <3>2. widths[m] \in Nat
      BY <2>1
    <3> QED BY <3>1, <3>2
  <2>4. \A k \in 0..m : g[k] = IF k = 0 THEN 0 ELSE g[k-1] + widths[k]
    <3> TAKE k \in 0..m
    <3>1. CASE k = m
      BY <2>1, <3>1
    <3>2. CASE k # m
      <4>1. f[k] = IF k = 0 THEN 0 ELSE f[k-1] + widths[k]
        <5>1. k \in 0 .. m-1
          BY <3>2, <2>1
        <5>2. f = [j \in 0 .. m-1 |-> IF j = 0 THEN 0 ELSE f[j-1] + widths[j]]
          BY <2>2 DEF Summed
        <5> HIDE DEF g
        <5> QED BY <5>1, <5>2
      <4> QED BY <4>1, <2>1, <3>2
    <3> QED BY <3>1, <3>2
  <2>5. Summed(g, widths, m)
    BY <2>4 DEF Summed
  <2> HIDE DEF g
  <2> QED BY <2>3, <2>5, <1>2
<1> QED BY <1>3, <1>4

\* Before counts the bits of the widths one after another.
LEMMA BeforeSteps ==
  ASSUME NEW widths \in Seq(Nat)
  PROVE  /\ Before(widths, 0) = 0
         /\ \A i \in 1 .. Len(widths) : Before(widths, i) = Before(widths, i-1) + widths[i]
<1> DEFINE n == Len(widths)
           f == CHOOSE f : Summed(f, widths, n)
<1>1. n \in 0..n
  OBVIOUS
<1>2. Summed(f, widths, n)
  BY <1>1, SummedExists
<1>3. \A i : Before(widths, i) = f[i]
  BY DEF Before, Summed
<1> HIDE DEF f
<1>4. \A k \in 0..n : f[k] = IF k = 0 THEN 0 ELSE f[k-1] + widths[k]
  <2>1. f = [k \in 0..n |-> IF k = 0 THEN 0 ELSE f[k-1] + widths[k]]
    BY <1>2 DEF Summed
  <2> HIDE DEF n
  <2> QED BY <2>1
<1>5. n \in Nat
  OBVIOUS
<1> HIDE DEF n
<1>6. Before(widths, 0) = 0
  <2>1. 0 \in 0..n
    BY <1>5
  <2> QED BY <2>1, <1>3, <1>4
<1>7. ASSUME NEW i \in 1..n PROVE Before(widths, i) = Before(widths, i-1) + widths[i]
  <2>1. i \in 0..n /\ i # 0
    BY <1>5
  <2>2. f[i] = f[i-1] + widths[i]
    BY <2>1, <1>4
  <2>3. Before(widths, i) = f[i] /\ Before(widths, i-1) = f[i-1]
    BY <1>3
  <2> QED BY <2>2, <2>3
<1> QED BY <1>6, <1>7 DEF n

\* It is a number, and it grows up to the total.
LEMMA BeforeGrows ==
  ASSUME NEW widths \in Seq(Nat)
  PROVE  \A i \in 0 .. Len(widths) : /\ Before(widths, i) \in Nat
                                     /\ Before(widths, i) <= Total(widths)
<1> DEFINE n == Len(widths)
<1>0. n \in Nat /\ \A i \in 1..n : widths[i] \in Nat
  OBVIOUS
<1>1. \A i \in 0..n : Before(widths, i) \in Nat
  <2> DEFINE Bad == {i \in 0..n : Before(widths, i) \notin Nat}
  <2> SUFFICES ASSUME Bad # {} PROVE FALSE
    OBVIOUS
  <2>1. PICK m \in Bad : \A y \in Bad : m <= y
    <3>1. Bad \subseteq Nat
      OBVIOUS
    <3> HIDE DEF Bad
    <3> QED BY <3>1, LeastNat
  <2>2. m \in 0..n /\ Before(widths, m) \notin Nat
    OBVIOUS
  <2>3. m # 0
    BY <2>2, BeforeSteps
  <2>4. m - 1 \in 0..n /\ m \in 1..n
    BY <2>2, <2>3
  <2>5. Before(widths, m-1) \in Nat
    BY <2>1, <2>4
  <2> QED BY <2>2, <2>4, <2>5, <1>0, BeforeSteps
<1>2. \A i \in 0..n : Before(widths, i) <= Total(widths)
  <2> DEFINE Bad == {d \in 0..n : ~(Before(widths, n-d) <= Total(widths))}
  <2>1. SUFFICES ASSUME Bad # {} PROVE FALSE
    <3>1. \A i \in 0..n : n - i \in 0..n /\ n - (n - i) = i
      BY <1>0
    <3> QED BY <3>1
  <2>2. PICK d \in Bad : \A y \in Bad : d <= y
    <3>1. Bad \subseteq Nat
      OBVIOUS
    <3> HIDE DEF Bad
    <3> QED BY <3>1, <2>1, LeastNat
  <2>3. d \in 0..n /\ ~(Before(widths, n-d) <= Total(widths))
    OBVIOUS
  <2>4. d # 0
    BY <2>3, <1>0, <1>1 DEF Total
  <2>5. d - 1 \in 0..n /\ n - d \in 0..n /\ n - (d-1) \in 1..n /\ n - (d-1) - 1 = n - d
    BY <2>3, <2>4, <1>0
  <2>6. Before(widths, n - (d-1)) <= Total(widths)
    BY <2>2, <2>5
  <2>7. Before(widths, n - (d-1)) = Before(widths, n-d) + widths[n - (d-1)]
    BY <2>5, BeforeSteps
  <2>8. Before(widths, n-d) \in Nat /\ widths[n - (d-1)] \in Nat /\ Total(widths) \in Nat
    BY <2>5, <1>0, <1>1 DEF Total
  <2> HIDE DEF Bad
  <2> QED BY <2>3, <2>6, <2>7, <2>8
<1> QED BY <1>1, <1>2

\* A number below the total falls into one of the widths.
LEMMA FallsIntoAWidth ==
  ASSUME NEW widths \in Seq(Nat), NEW j \in Nat, j < Total(widths)
  PROVE  \E i \in DOMAIN widths : /\ Before(widths, i-1) <= j
                                  /\ j < Before(widths, i-1) + widths[i]
<1> DEFINE n == Len(widths)
           T == {i \in 0..n : j < Before(widths, i)}
<1>1. n \in Nat /\ n \in T /\ T \subseteq Nat
  BY DEF Total
<1>2. PICK i \in T : \A y \in T : i <= y
  <2> HIDE DEF T
  <2> QED BY <1>1, LeastNat
<1>3. i # 0
  BY BeforeSteps
<1>4. i \in 1..n /\ i - 1 \in 0..n /\ ~(i <= i - 1)
  BY <1>1, <1>3
<1>5. ~(j < Before(widths, i-1))
  BY <1>2, <1>4
<1>6. Before(widths, i-1) \in Nat /\ Before(widths, i) = Before(widths, i-1) + widths[i]
  BY <1>4, BeforeGrows, BeforeSteps
<1>7. i \in DOMAIN widths /\ j < Before(widths, i)
  BY <1>4
<1> QED BY <1>5, <1>6, <1>7

\* The span is indexed in bounds and every window of it is the one a single read would load, for
\* any widths: a group reads what single reads do.
LEMMA SpanIsSingle ==
  ASSUME Buffered, NEW g \in Seq(Nat), HasSpan(g), NEW i \in DOMAIN g
  PROVE  /\ Offset(g, i) + WindowBytes <= SpanBytes
         /\ SpanValue(g, i) = SingleValue(g, i)
<1> USE WidthFacts
<1> DEFINE c == Before(g, i-1)
           base == Base
           bit == bits_read % ByteBits
           loc == bit + c
           off == loc \div ByteBits
           s == loc % ByteBits
<1>1. c \in Nat /\ c <= GroupBits
  <2>1. i - 1 \in 0 .. Len(g)
    OBVIOUS
  <2>2. Before(g, i-1) \in Nat /\ Before(g, i-1) <= Total(g) /\ Total(g) \in Nat
    BY <2>1, BeforeGrows DEF Total
  <2> QED BY <2>2, ReaderAssumption DEF HasSpan
<1>2. base \in Nat /\ bit \in 0 .. ByteBits - 1 /\ bits_read = base * ByteBits + bit
  BY DivMod DEF Base, Buffered
<1> HIDE DEF c, base, bit
<1>3. loc \in Nat /\ loc < OffsetBytes * ByteBits
  BY <1>1, <1>2, ReaderAssumption
<1>4. off \in Nat /\ s \in 0 .. ByteBits - 1 /\ loc = off * ByteBits + s
  BY <1>3, DivMod
<1> HIDE DEF loc, off, s
<1>5. off < OffsetBytes
  <2>1. OffsetBytes \in Nat
    BY ReaderAssumption
  <2>2. OffsetBytes <= off => OffsetBytes * ByteBits <= off * ByteBits
    BY <2>1, <1>4, MultiplesOrdered
  <2> QED BY <2>1, <2>2, <1>3, <1>4
<1>6. Offset(g, i) = off
  <2>1. Local(g, i) = loc
    BY DEF Local, loc, c, bit
  <2>2. off % OffsetBytes = off
    <3>1. OffsetBytes \in Nat \ {0} /\ off \in 0 .. OffsetBytes - 1
      BY <1>4, <1>5, ReaderAssumption
    <3>2. (0 * OffsetBytes + off) % OffsetBytes = off
      BY <3>1, ModUnique
    <3> QED BY <3>1, <3>2
  <2> QED BY <2>1, <2>2 DEF Offset, off
<1>7. off + WindowBytes <= SpanBytes
  BY <1>4, <1>5, ReaderAssumption
<1>8. (bits_read + c) \div ByteBits = base + off /\ (bits_read + c) % ByteBits = s
  <2>1. bits_read + c = (base + off) * ByteBits + s
    BY <1>1, <1>2, <1>4 DEF loc
  <2>2. base + off \in Nat
    BY <1>2, <1>4
  <2>3. ((base + off) * ByteBits + s) \div ByteBits = base + off
    BY <2>2, <1>4, DivUnique
  <2>4. ((base + off) * ByteBits + s) % ByteBits = s
    BY <2>2, <1>4, ModUnique
  <2> QED BY <2>1, <2>3, <2>4
<1>9. LoadWindow(base + off) = Slice(data, (base + off) * ByteBits, WindowBits)
  BY <1>2, <1>4, WindowIsSlice
<1>10. Slice(Slice(data, base * ByteBits, SpanBytes * ByteBits), off * ByteBits, WindowBits)
         = Slice(data, (base + off) * ByteBits, WindowBits)
  <2>1. SpanBytes \in Nat
    BY ReaderAssumption
  <2>2. (off + WindowBytes) * ByteBits <= SpanBytes * ByteBits
    BY <2>1, <1>4, <1>7, MultiplesOrdered
  <2>3. off * ByteBits \in Nat /\ off * ByteBits + WindowBits <= SpanBytes * ByteBits
    BY <2>1, <2>2, <1>4
  <2>4. base * ByteBits \in Nat /\ SpanBytes * ByteBits \in Nat
    BY <2>1, <1>2
  <2>5. (base + off) * ByteBits = base * ByteBits + off * ByteBits
    BY <1>2, <1>4
  <2>6. \A j \in 0 .. WindowBits - 1 :
          /\ off * ByteBits + j \in 0 .. SpanBytes * ByteBits - 1
          /\ base * ByteBits + (off * ByteBits + j) = (base + off) * ByteBits + j
    BY <2>3, <2>4, <2>5
  <2> QED BY <2>6 DEF Slice
<1>11. SpanValue(g, i) = Extract(LoadWindow(base + off), s, g[i])
  BY <1>6, <1>9, <1>10 DEF SpanValue, Local, loc, s, c, bit, base
<1>12. SingleValue(g, i) = Extract(LoadWindow(base + off), s, g[i])
  BY <1>8 DEF SingleValue, ValueAt, c
<1> QED BY <1>6, <1>7, <1>11, <1>12

\* What a group returns for one width is the bits from where that width starts.
LEMMA GroupValueIsSlice ==
  ASSUME Buffered, NEW g \in Seq(Nat), NEW i \in DOMAIN g
  PROVE  LET at == bits_read + Before(g, i-1) IN
         /\ at \in Nat
         /\ GroupValue(g, i) \subseteq Slice(data, at, g[i])
         /\ g[i] <= MaxBits => GroupValue(g, i) = Slice(data, at, g[i])
<1>1. GroupValue(g, i) = SingleValue(g, i)
  BY SpanIsSingle DEF GroupValue
<1>2. bits_read + Before(g, i-1) \in Nat /\ g[i] \in Nat
  <2>1. i - 1 \in 0 .. Len(g)
    OBVIOUS
  <2> QED BY <2>1, BeforeGrows DEF Buffered
<1> QED BY <1>1, <1>2, ValueIsSlice DEF SingleValue

-----------------------------------------------------------------------------
(* The steps of a reader *)

\* The inductive invariant of a reader that was told the truth: the packet is whole bytes, the
\* buffer holds it, and what was seen is the packet so far.
IInv == /\ TypeOK /\ ReadsThePacket /\ NeverPanics
        /\ num_bits % ByteBits = 0

\* Bits that a reader sees next, after all those before.
LEMMA SeesNext ==
  ASSUME Buffered, seen = {i \in data : i < bits_read}, NEW n \in Nat
  PROVE  seen \cup At(Slice(data, bits_read, n), bits_read) = {i \in data : i < bits_read + n}
<1> USE DEF Buffered
<1>0. ByteBits \in Nat /\ bytes * ByteBits \in Nat
  BY WidthFacts
<1>1. data \subseteq Nat
  BY <1>0
<1>2. ASSUME NEW j \in data, bits_read <= j, j < bits_read + n
      PROVE  j \in At(Slice(data, bits_read, n), bits_read)
  <2>1. j - bits_read \in 0 .. n-1 /\ bits_read + (j - bits_read) = j
    BY <1>1, <1>2
  <2> QED BY <2>1, <1>2 DEF At, Slice
<1>3. ASSUME NEW j \in At(Slice(data, bits_read, n), bits_read)
      PROVE  j \in data /\ j < bits_read + n
  BY <1>3 DEF At, Slice
<1> DEFINE more == At(Slice(data, bits_read, n), bits_read)
<1> HIDE DEF more
<1>4. \A j \in data : /\ j < bits_read => j < bits_read + n
                     /\ ~(j < bits_read) => bits_read <= j
  BY <1>1
<1>5. \A j \in more : j \in data /\ j < bits_read + n
  BY <1>3 DEF more
<1>6. \A j \in data : bits_read <= j /\ j < bits_read + n => j \in more
  BY <1>2 DEF more
<1>7. seen \cup more = {i \in data : i < bits_read + n}
  <2>1. ASSUME NEW j \in seen PROVE j \in data /\ j < bits_read + n
    BY <1>4, <2>1
  <2>2. ASSUME NEW j \in data, j < bits_read + n PROVE j \in seen \cup more
    <3>1. CASE j < bits_read
      BY <3>1
    <3>2. CASE ~(j < bits_read)
      BY <2>2, <3>2, <1>4, <1>6
    <3> QED BY <3>1, <3>2
  <2> QED BY <2>1, <2>2, <1>5
<1> QED BY <1>7 DEF more

\* A group sees as much as a single read of all its bits.
LEMMA GroupSeesNext ==
  ASSUME Buffered, NEW g \in Seq(Nat), \A i \in DOMAIN g : g[i] <= MaxBits
  PROVE  UNION {At(GroupValue(g, i), bits_read + Before(g, i-1)) : i \in DOMAIN g}
           = At(Slice(data, bits_read, Total(g)), bits_read)
<1> DEFINE at(i) == bits_read + Before(g, i-1)
           Seen(i) == At(GroupValue(g, i), at(i))
           All == At(Slice(data, bits_read, Total(g)), bits_read)
<1>0. bits_read \in Nat /\ Total(g) \in Nat
  BY BeforeGrows DEF Total, Buffered
<1>1. ASSUME NEW i \in DOMAIN g
      PROVE  /\ Before(g, i-1) \in Nat /\ g[i] \in Nat /\ Before(g, i-1) + g[i] <= Total(g)
             /\ Seen(i) = {at(i) + j : j \in {k \in 0 .. g[i]-1 : at(i) + k \in data}}
  <2>1. i - 1 \in 0 .. Len(g) /\ i \in 0 .. Len(g) /\ i \in 1 .. Len(g) /\ g[i] \in Nat
    OBVIOUS
  <2>2. GroupValue(g, i) = Slice(data, at(i), g[i])
    BY GroupValueIsSlice
  <2>3. Before(g, i-1) \in Nat /\ Before(g, i-1) + g[i] <= Total(g)
    BY <2>1, BeforeGrows, BeforeSteps
  <2> QED BY <2>1, <2>2, <2>3 DEF At, Slice
<1> HIDE DEF Seen
<1>2. ASSUME NEW i \in DOMAIN g, NEW x \in Seen(i) PROVE x \in All
  <2>1. PICK k \in 0 .. g[i]-1 : at(i) + k \in data /\ x = at(i) + k
    BY <1>1, <1>2
  <2>2. Before(g, i-1) + k \in 0 .. Total(g) - 1
    <3> DEFINE b == Before(g, i-1)
               t == Total(g)
    <3>1. b \in Nat /\ g[i] \in Nat /\ b + g[i] <= t
      BY <1>1
    <3>2. t \in Nat /\ k \in 0 .. g[i]-1
      BY <1>0
    <3> HIDE DEF b, t
    <3>3. b + k \in 0 .. t - 1
      BY <3>1, <3>2
    <3> QED BY <3>3 DEF b, t
  <2>3. x = bits_read + (Before(g, i-1) + k)
    <3>1. Before(g, i-1) \in Nat /\ k \in Nat
      BY <1>1, <2>1
    <3> QED BY <3>1, <1>0, <2>1
  <2> QED BY <2>1, <2>2, <2>3 DEF At, Slice
<1>3. ASSUME NEW x \in All PROVE \E i \in DOMAIN g : x \in Seen(i)
  <2>1. PICK j \in 0 .. Total(g) - 1 : bits_read + j \in data /\ x = bits_read + j
    BY DEF At, Slice
  <2>2. PICK i \in DOMAIN g : Before(g, i-1) <= j /\ j < Before(g, i-1) + g[i]
    <3>1. j \in Nat /\ j < Total(g)
      BY <1>0
    <3> QED BY <3>1, FallsIntoAWidth
  <2>3. j - Before(g, i-1) \in 0 .. g[i]-1 /\ at(i) + (j - Before(g, i-1)) = x
    BY <1>0, <1>1, <2>1, <2>2
  <2>4. x \in Seen(i)
    BY <1>1, <2>1, <2>3
  <2> QED BY <2>4
<1> HIDE DEF All
<1>4. UNION {Seen(i) : i \in DOMAIN g} = All
  BY <1>2, <1>3
<1> QED BY <1>4 DEF Seen, All

\* The invariant gives every step a buffer to read, and the room that is left in it.
LEMMA IInvBuffered ==
  ASSUME IInv
  PROVE  /\ Buffered /\ seen = {i \in data : i < bits_read}
         /\ num_bits \in Nat /\ bits_read <= num_bits /\ num_bits <= bytes * ByteBits
<1>1. bytes * ByteBits \in Nat
  BY WidthFacts DEF IInv, TypeOK
<1> QED BY <1>1 DEF IInv, TypeOK, ReadsThePacket, Buffered

\* A read of n bits that there is room for.
LEMMA Advances ==
  ASSUME IInv, NEW n \in Nat, bits_read + n <= num_bits,
         UNCHANGED buffer, bits_read' = bits_read + n,
         seen' = seen \cup At(Slice(data, bits_read, n), bits_read),
         outcome' \in {"ok", "false"}
  PROVE  IInv' /\ NeverFails'
<1>1. seen' = {i \in data : i < bits_read + n}
  BY SeesNext, IInvBuffered
<1>2. bits_read + n \in 0..num_bits
  BY IInvBuffered DEF Buffered
<1>3. data' = data /\ bytes' = bytes /\ num_bits' = num_bits
  BY DEF buffer
<1>4. TypeOK'
  BY <1>2, <1>3 DEF IInv, TypeOK
<1>5. ReadsThePacket' /\ NeverPanics' /\ NeverFails' /\ (num_bits % ByteBits = 0)'
  BY <1>1, <1>3 DEF IInv, ReadsThePacket, NeverPanics, NeverFails
<1> QED BY <1>4, <1>5 DEF IInv

\* An operation that leaves the reader as it was.
LEMMA Stays ==
  ASSUME IInv, UNCHANGED <<buffer, bits_read, seen>>, outcome' \in {"ok", "false", "trap"}
  PROVE  IInv'
<1>1. data' = data /\ bytes' = bytes /\ num_bits' = num_bits /\ bits_read' = bits_read /\ seen' = seen
  BY DEF buffer
<1>2. TypeOK' /\ (num_bits % ByteBits = 0)'
  BY <1>1 DEF IInv, TypeOK
<1>3. ReadsThePacket' /\ NeverPanics'
  BY <1>1 DEF IInv, ReadsThePacket, NeverPanics
<1> QED BY <1>2, <1>3 DEF IInv

\* read_bits with a width and room.
LEMMA ReadBitsAdvances ==
  ASSUME IInv, NEW n \in Nat, BitsAsserted(n), ReadBits(n)
  PROVE  IInv' /\ NeverFails'
<1>1. ~Refused(BitsAsserted(n))
  BY DEF Refused
<1>2. ValueAt(bits_read, n) = Slice(data, bits_read, n)
  BY IInvBuffered, ValueIsSlice DEF BitsAsserted, Buffered
<1> QED BY <1>1, <1>2, Advances DEF ReadBits, BitsAsserted

\* read_bits_group with good widths and room.
LEMMA GroupAdvances ==
  ASSUME IInv, NEW g \in Seq(Nat), GroupAsserted(g), ReadBitsGroup(g)
  PROVE  IInv' /\ NeverFails'
<1>1. ~Refused(GroupAsserted(g))
  BY DEF Refused
<1>2. \A i \in DOMAIN g : g[i] <= MaxBits
  BY WidthFacts DEF GroupAsserted
<1>3. seen' = seen \cup At(Slice(data, bits_read, Total(g)), bits_read)
  BY <1>1, <1>2, GroupSeesNext, IInvBuffered DEF ReadBitsGroup
<1>4. Total(g) \in Nat
  BY BeforeGrows DEF Total
<1> QED BY <1>1, <1>3, <1>4, Advances DEF ReadBitsGroup, GroupAsserted

\* The padding that read_align reads is always there, for the packet is whole bytes: the assertions
\* of its read_bits hold, and the model of read_align has no trap.
LEMMA AlignIsAsserted ==
  ASSUME IInv, bits_read % ByteBits # 0
  PROVE  BitsAsserted(ByteBits - (bits_read % ByteBits))
<1> DEFINE n == ByteBits - (bits_read % ByteBits)
<1>1. n \in 1..ByteBits /\ bits_read + n <= num_bits
  BY IInvBuffered, WidthFacts, NextMultiple DEF IInv, Buffered
<1> HIDE DEF n
<1>2. BitsAsserted(n)
  BY <1>1, WidthFacts DEF BitsAsserted
<1> QED BY <1>2 DEF n

\* read_align sees the padding and nothing else of the packet.
LEMMA AlignAdvances ==
  ASSUME IInv, ReadAlign
  PROVE  IInv' /\ NeverFails'
<1>1. CASE bits_read % ByteBits = 0
  <2>1. outcome' = "ok" /\ UNCHANGED <<buffer, bits_read, seen>>
    BY <1>1 DEF ReadAlign
  <2> QED BY <2>1, Stays DEF NeverFails
<1>2. CASE bits_read % ByteBits # 0
  <2> DEFINE n == ByteBits - (bits_read % ByteBits)
  <2>1. n \in 1..ByteBits /\ bits_read + n <= num_bits
    BY <1>2, IInvBuffered, WidthFacts, NextMultiple DEF IInv, Buffered
  <2> HIDE DEF n
  <2>2. n \in Nat /\ n \in 1..MaxBits
    BY <2>1, WidthFacts
  <2>4. ValueAt(bits_read, n) = Slice(data, bits_read, n)
    BY <2>2, IInvBuffered, ValueIsSlice DEF Buffered
  <2>5. /\ UNCHANGED buffer /\ bits_read' = bits_read + n
        /\ seen' = seen \cup At(ValueAt(bits_read, n), bits_read)
        /\ outcome' \in {"ok", "false"}
    BY <1>2 DEF ReadAlign, n
  <2> QED BY <2>1, <2>2, <2>4, <2>5, Advances
<1> QED BY <1>1, <1>2

\* read_byte_slice on a byte boundary with room: the slice is in the buffer.
LEMMA BytesAdvance ==
  ASSUME IInv, NEW k \in Nat, BytesAsserted(k), ReadByteSlice(k)
  PROVE  IInv' /\ NeverFails'
<1> DEFINE base == Base
<1>0. base \in Nat /\ bits_read = base * ByteBits + (bits_read % ByteBits) /\ bits_read % ByteBits = 0
  BY IInvBuffered, WidthFacts, DivMod DEF Base, BytesAsserted, Buffered
<1> HIDE DEF base
<1>1. base \in Nat /\ bits_read = base * ByteBits
  BY <1>0, WidthFacts
<1>2. ~(base + k > bytes)
  <2>1. (base + k) * ByteBits = base * ByteBits + k * ByteBits
    BY <1>1, WidthFacts
  <2>2. bytes \in Nat /\ (base + k) * ByteBits <= bytes * ByteBits
    <3>1. bits_read + k * ByteBits <= num_bits
      BY DEF BytesAsserted
    <3>2. bytes * ByteBits \in Nat /\ k * ByteBits \in Nat
      BY IInvBuffered, WidthFacts DEF Buffered
    <3> QED BY <2>1, <3>1, <3>2, <1>1, IInvBuffered DEF Buffered
  <2>3. bytes < base + k => bytes * ByteBits + ByteBits <= (base + k) * ByteBits
    BY <1>1, <2>2, WidthFacts, MultiplesOrdered
  <2>4. bytes * ByteBits \in Nat /\ (base + k) * ByteBits \in Nat
    BY <1>1, <2>2, WidthFacts
  <2> QED BY <2>2, <2>3, <2>4, WidthFacts, <1>1
<1>3. /\ UNCHANGED buffer /\ bits_read' = bits_read + k * ByteBits /\ outcome' = "ok"
      /\ seen' = seen \cup At(Slice(data, bits_read, k * ByteBits), bits_read)
  BY <1>1, <1>2 DEF ReadByteSlice, Refused, base
<1>4. k * ByteBits \in Nat /\ bits_read + k * ByteBits <= num_bits
  BY WidthFacts DEF BytesAsserted
<1> QED BY <1>3, <1>4, Advances

\* A new reader that was told the truth.
LEMMA InitIInv ==
  ASSUME Truthful, Init
  PROVE  IInv /\ NeverFails
<1>1. PICK b \in Buffers : data = b.ones /\ bytes = b.bytes /\ num_bits = b.packet * ByteBits
  BY DEF Init
<1>2. /\ b.bytes \in Nat /\ b.packet \in Nat /\ b.packet <= b.bytes
      /\ data \subseteq 0 .. b.bytes * ByteBits - 1
  BY <1>1, ReaderAssumption DEF Truthful
<1>3. (b.packet * ByteBits + 0) % ByteBits = 0
  BY <1>2, WidthFacts, ModUnique
<1>4. b.packet * ByteBits \in Nat /\ b.packet * ByteBits <= b.bytes * ByteBits
  BY <1>2, WidthFacts, MultiplesOrdered
<1>5. num_bits % ByteBits = 0 /\ num_bits \in 0 .. bytes * ByteBits
  <2>1. b.packet * ByteBits + 0 = b.packet * ByteBits /\ b.bytes * ByteBits \in Nat
    BY <1>2, WidthFacts
  <2> QED BY <1>1, <1>3, <1>4, <2>1
<1>6. TypeOK
  BY <1>1, <1>2, <1>5 DEF Init, TypeOK
<1>7. ReadsThePacket
  <2>1. \A i \in data : ~(i < 0)
    BY <1>1, <1>2, WidthFacts
  <2> QED BY <2>1 DEF Init, ReadsThePacket
<1> QED BY <1>5, <1>6, <1>7 DEF Init, IInv, NeverPanics, NeverFails

\* Every call by the contract keeps the invariant and reaches no assertion and no slice bound.
LEMMA ContractKeeps ==
  ASSUME IInv, NeverFails, [ReadByContract]_vars
  PROVE  IInv' /\ NeverFails'
<1>1. CASE \E n \in 1..MaxBits : BitsAsserted(n) /\ ReadBits(n)
  <2>1. PICK n \in 1..MaxBits : BitsAsserted(n) /\ ReadBits(n)
    BY <1>1
  <2>2. n \in Nat
    BY WidthFacts
  <2> QED BY <2>1, <2>2, ReadBitsAdvances
<1>2. CASE \E g \in Groups : GroupAsserted(g) /\ ReadBitsGroup(g)
  BY <1>2, GroupAdvances, ReaderAssumption
<1>3. CASE \E k \in Lengths : BytesAsserted(k) /\ ReadByteSlice(k)
  <2>1. PICK k \in Lengths : BytesAsserted(k) /\ ReadByteSlice(k)
    BY <1>3
  <2>2. k \in Nat
    BY IInvBuffered DEF Lengths, Buffered
  <2> QED BY <2>1, <2>2, BytesAdvance
<1>4. CASE ReadAlign
  BY <1>4, AlignAdvances
<1>5. CASE UNCHANGED vars
  <2>1. outcome' \in {"ok", "false"}
    BY <1>5 DEF vars, NeverFails
  <2> QED BY <1>5, <2>1, Stays DEF vars, NeverFails
<1> QED BY <1>1, <1>2, <1>3, <1>4, <1>5 DEF ReadByContract

\* With its assertions the reader keeps the invariant whatever the caller asks: a call that the
\* assertions let through is a call by the contract.
LEMMA CheckedKeeps ==
  ASSUME Checked, IInv, [ReadCarelessly]_vars
  PROVE  IInv'
<1>1. CASE \E n \in 0 .. MaxBits + 1 : ReadBits(n)
  <2>1. PICK n \in 0 .. MaxBits + 1 : ReadBits(n)
    BY <1>1
  <2>2. n \in Nat
    BY WidthFacts
  <2>3. CASE BitsAsserted(n)
    BY <2>1, <2>2, <2>3, ReadBitsAdvances
  <2>4. CASE ~BitsAsserted(n)
    BY <2>1, <2>4, Stays DEF ReadBits, Refused, Trap
  <2> QED BY <2>3, <2>4
<1>2. CASE \E g \in Groups : ReadBitsGroup(g)
  <2>1. PICK g \in Groups : ReadBitsGroup(g)
    BY <1>2
  <2>2. CASE GroupAsserted(g)
    BY <2>1, <2>2, GroupAdvances, ReaderAssumption
  <2>3. CASE ~GroupAsserted(g)
    BY <2>1, <2>3, Stays DEF ReadBitsGroup, Refused, Trap
  <2> QED BY <2>2, <2>3
<1>3. CASE \E k \in Lengths : ReadByteSlice(k)
  <2>1. PICK k \in Lengths : ReadByteSlice(k)
    BY <1>3
  <2>2. k \in Nat
    BY IInvBuffered DEF Lengths, Buffered
  <2>3. CASE BytesAsserted(k)
    BY <2>1, <2>2, <2>3, BytesAdvance
  <2>4. CASE ~BytesAsserted(k)
    BY <2>1, <2>4, Stays DEF ReadByteSlice, Refused, Trap
  <2> QED BY <2>3, <2>4
<1>4. CASE ReadAlign
  BY <1>4, AlignAdvances
<1>5. CASE UNCHANGED vars
  <2>1. outcome' \in {"ok", "false", "trap"}
    BY <1>5 DEF vars, IInv, TypeOK, NeverPanics
  <2> QED BY <1>5, <2>1, Stays DEF vars
<1> QED BY <1>1, <1>2, <1>3, <1>4, <1>5 DEF ReadCarelessly

\* By the contract, a reader of a truthful buffer returns exactly the packet and reaches no
\* assertion and no slice bound: for every buffer, slack, byte and window width, and every group.
THEOREM ReaderReadsThePacket ==
  ASSUME Truthful
  PROVE  Spec => [](TypeOK /\ ReadsThePacket /\ NeverFails)
<1>1. Init => IInv /\ NeverFails
  BY InitIInv
<1>2. IInv /\ NeverFails /\ [ReadByContract]_vars => IInv' /\ NeverFails'
  BY ContractKeeps
<1>3. IInv => TypeOK /\ ReadsThePacket
  BY DEF IInv
<1> QED BY <1>1, <1>2, <1>3, PTL DEF Spec

\* With its assertions the reader keeps the invariant whoever calls it.
LEMMA CheckedAlways ==
  ASSUME Truthful, Checked
  PROVE  CarelessSpec => []IInv
<1>1. Init => IInv
  BY InitIInv
<1>2. IInv /\ [ReadCarelessly]_vars => IInv'
  BY CheckedKeeps
<1> QED BY <1>1, <1>2, PTL DEF CarelessSpec

\* With its debug assertions careless callers too read exactly the packet.
THEOREM CheckedReaderReadsThePacket ==
  ASSUME Truthful, Checked
  PROVE  CarelessSpec => []ReadsThePacket
<1>1. IInv => ReadsThePacket
  BY DEF IInv
<1> QED BY <1>1, CheckedAlways, PTL

\* They meet an assertion before any slice bound.
THEOREM CheckedReaderNeverPanics ==
  ASSUME Truthful, Checked
  PROVE  CarelessSpec => []NeverPanics
<1>1. IInv => NeverPanics
  BY DEF IInv
<1> QED BY <1>1, CheckedAlways, PTL

-----------------------------------------------------------------------------
(* Careless callers of a release build, and readers that were lied to *)

\* What they keep.
CarelessInv == Buffered /\ NothingInvented

\* A read of at most so many bits sees only bits of the buffer.
LEMMA SeesOnlyData ==
  ASSUME NEW v, NEW at, NEW n, v \subseteq Slice(data, at, n)
  PROVE  At(v, at) \subseteq data
BY DEF At, Slice

\* A step that reads forward and sees only bits of the buffer.
LEMMA InventsNothing ==
  ASSUME CarelessInv, UNCHANGED buffer, bits_read' \in Nat,
         NEW s \in SUBSET data, seen' = seen \cup s
  PROVE  CarelessInv'
<1>1. data' = data /\ bytes' = bytes
  BY DEF buffer
<1>2. Buffered'
  BY <1>1 DEF CarelessInv, Buffered
<1>3. NothingInvented'
  BY <1>1 DEF CarelessInv, NothingInvented
<1> QED BY <1>2, <1>3 DEF CarelessInv

\* No call invents a bit, whatever was asserted or compiled out.
LEMMA CarelessKeeps ==
  ASSUME CarelessInv, [ReadCarelessly]_vars
  PROVE  CarelessInv'
<1>0. Buffered /\ bits_read \in Nat /\ {} \in SUBSET data
  BY DEF CarelessInv, Buffered
<1>1. ASSUME UNCHANGED <<buffer, bits_read, seen>> PROVE CarelessInv'
  <2>1. seen' = seen \cup {} /\ bits_read' \in Nat /\ UNCHANGED buffer
    BY <1>0, <1>1
  <2> QED BY <2>1, <1>0, InventsNothing
<1>2. ASSUME NEW n \in 0 .. MaxBits + 1, ReadBits(n) PROVE CarelessInv'
  <2>1. n \in Nat
    BY WidthFacts
  <2>2. At(ValueAt(bits_read, n), bits_read) \in SUBSET data
    BY <1>0, <2>1, ValueIsSlice, SeesOnlyData
  <2>3. CASE Refused(BitsAsserted(n)) /\ Trap
    BY <2>3, <1>1 DEF Trap
  <2>4. CASE ~Refused(BitsAsserted(n))
    <3>1. bits_read' \in Nat
      BY <1>2, <2>4, <1>0, <2>1 DEF ReadBits
    <3> QED BY <1>2, <2>2, <2>4, <3>1, InventsNothing DEF ReadBits
  <2> QED BY <1>2, <2>3, <2>4 DEF ReadBits
<1>3. ASSUME NEW g \in Groups, ReadBitsGroup(g) PROVE CarelessInv'
  <2>1. g \in Seq(Nat)
    BY ReaderAssumption
  <2> DEFINE s == UNION {At(GroupValue(g, i), bits_read + Before(g, i-1)) : i \in DOMAIN g}
  <2>2. s \in SUBSET data
    <3>1. ASSUME NEW i \in DOMAIN g PROVE At(GroupValue(g, i), bits_read + Before(g, i-1)) \subseteq data
      BY <1>0, <2>1, GroupValueIsSlice, SeesOnlyData
    <3> QED BY <3>1
  <2>3. CASE Refused(GroupAsserted(g)) /\ Trap
    BY <2>3, <1>1 DEF Trap
  <2>4. CASE ~Refused(GroupAsserted(g))
    <3>1. UNCHANGED buffer /\ seen' = seen \cup s /\ bits_read' = bits_read + Total(g)
      BY <1>3, <2>4 DEF ReadBitsGroup
    <3>2. bits_read' \in Nat
      BY <3>1, <1>0, <2>1, BeforeGrows DEF Total
    <3> HIDE DEF s
    <3> QED BY <2>2, <3>1, <3>2, InventsNothing
  <2> QED BY <1>3, <2>3, <2>4 DEF ReadBitsGroup
<1>4. ASSUME NEW k \in Lengths, Checked \/ bits_read % ByteBits = 0, ReadByteSlice(k)
      PROVE  CarelessInv'
  <2>1. k \in Nat /\ k * ByteBits \in Nat
    <3>1. k \in Nat
      BY <1>0 DEF Lengths, Buffered
    <3> QED BY <3>1, WidthFacts
  <2>2. CASE Refused(BytesAsserted(k)) /\ Trap
    BY <2>2, <1>1 DEF Trap
  <2>3. CASE ~Refused(BytesAsserted(k))
    <3>1. bits_read % ByteBits = 0
      BY <1>4, <2>3 DEF Refused, BytesAsserted
    <3> DEFINE base == Base
    <3>2. base \in Nat /\ bits_read = base * ByteBits + (bits_read % ByteBits)
      BY <1>0, WidthFacts, DivMod DEF Base
    <3> HIDE DEF base
    <3>3. bits_read = base * ByteBits
      BY <3>1, <3>2, WidthFacts
    <3>4. At(Slice(data, Base * ByteBits, k * ByteBits), bits_read) \in SUBSET data
      BY <3>3, SeesOnlyData DEF base
    <3>5. bits_read' \in Nat /\ UNCHANGED buffer
      BY <1>4, <2>1, <2>3, <1>0 DEF ReadByteSlice
    <3>6. CASE UNCHANGED seen
      BY <3>5, <3>6, <1>0, InventsNothing, seen' = seen \cup {}
    <3>7. CASE seen' = seen \cup At(Slice(data, Base * ByteBits, k * ByteBits), bits_read)
      BY <3>4, <3>5, <3>7, InventsNothing
    <3> QED BY <1>4, <2>3, <3>6, <3>7 DEF ReadByteSlice
  <2> QED BY <1>4, <2>2, <2>3 DEF ReadByteSlice
<1>5. ASSUME ReadAlign PROVE CarelessInv'
  <2> DEFINE n == ByteBits - (bits_read % ByteBits)
  <2>1. n \in Nat
    BY <1>0, WidthFacts, DivMod
  <2> HIDE DEF n
  <2>2. At(ValueAt(bits_read, n), bits_read) \in SUBSET data
    BY <1>0, <2>1, ValueIsSlice, SeesOnlyData
  <2>3. CASE UNCHANGED <<buffer, bits_read, seen>>
    BY <2>3, <1>1
  <2>4. CASE /\ UNCHANGED buffer /\ bits_read' = bits_read + n
             /\ seen' = seen \cup At(ValueAt(bits_read, n), bits_read)
    <3>1. bits_read' \in Nat
      BY <1>0, <2>1, <2>4
    <3> QED BY <2>2, <2>4, <3>1, InventsNothing
  <2> QED BY <1>5, <2>3, <2>4 DEF ReadAlign, n
<1>6. CASE UNCHANGED vars
  BY <1>6, <1>1 DEF vars
<1> QED BY <1>2, <1>3, <1>4, <1>5, <1>6 DEF ReadCarelessly

\* The buffer stays what it is, and what was seen is in it, whatever the build and the caller.
LEMMA AlwaysBuffered == CarelessSpec => []CarelessInv
<1>1. Init => CarelessInv
  <2>1. ASSUME Init PROVE Buffered
    <3>1. PICK b \in Buffers : data = b.ones /\ bytes = b.bytes
      BY <2>1 DEF Init
    <3> QED BY <2>1, <3>1, ReaderAssumption DEF Init, Buffered
  <2> QED BY <2>1 DEF Init, CarelessInv, NothingInvented
<1>2. CarelessInv /\ [ReadCarelessly]_vars => CarelessInv'
  BY CarelessKeeps
<1> QED BY <1>1, <1>2, PTL DEF CarelessSpec

\* Whatever the build, the caller and the byte count: every group that takes the span stays in it and
\* reads what single reads would.
THEOREM SpanIsSingleReads == CarelessSpec => []SpanReadsLikeSingles
<1>1. CarelessInv => SpanReadsLikeSingles
  BY SpanIsSingle, ReaderAssumption DEF CarelessInv, SpanReadsLikeSingles
<1> QED BY <1>1, AlwaysBuffered, PTL

\* Nor does any read return a bit that the buffer does not hold where it was read.
THEOREM ReaderInventsNothing == CarelessSpec => []NothingInvented
<1>1. CarelessInv => NothingInvented
  BY DEF CarelessInv
<1> QED BY <1>1, AlwaysBuffered, PTL
=============================================================================
