--------------------------- MODULE TileGeometryProofs ---------------------------
(***************************************************************************)
(* What the operators of TileGeometry give for every size, offset, factor  *)
(* and level: quotients of sums, powers of two, the loop that counts the   *)
(* downsample levels and the optimal tile size.                            *)
(***************************************************************************)
EXTENDS TileGeometry, ListLemmas

\* Dividing offset and extent apart loses at most one sample.
LEMMA FloorsApart ==
  ASSUME NEW x \in Nat, NEW w \in Nat, NEW f \in Nat \ {0}
  PROVE  /\ (x \div f) + (w \div f) <= (x + w) \div f
         /\ (x + w) \div f <= (x \div f) + (w \div f) + 1
OBVIOUS

LEMMA FloorsAligned ==
  ASSUME NEW x \in Nat, NEW w \in Nat, NEW f \in Nat \ {0}, x % f = 0, (x + w) % f = 0
  PROVE  (x \div f) + (w \div f) = (x + w) \div f
<1>1. x = f * (x \div f) /\ x + w = f * ((x + w) \div f)
  OBVIOUS
<1>2. w = f * (((x + w) \div f) - (x \div f))
  BY <1>1
<1> QED BY <1>2

LEMMA FloorMonotone ==
  ASSUME NEW m \in Nat, NEW n \in Nat, NEW f \in Nat \ {0}, m <= n
  PROVE  m \div f <= n \div f
OBVIOUS

-----------------------------------------------------------------------------
(* Powers of two and the number of levels *)

LEMMA BitFacts ==
  /\ \A n \in Nat : Bit[n] \in Nat \ {0}
  /\ Bit[0] = 1
  /\ \A n \in Nat : Bit[n+1] = 2 * Bit[n]
<1> DEFINE P == Nat \ {0}
           d == [n \in Nat |-> IF n = 0 THEN 0 ELSE n-1]
           s == [x \in P |-> 2 * x]
           IsBit(f) == f = [n \in Nat |-> IF n = 0 THEN 1 ELSE 2 * f[n-1]]
<1>1. d \in [Nat -> Nat] /\ s \in [P -> P] /\ 1 \in P /\ {0} \in SUBSET Nat
  OBVIOUS
<1>2. \A n \in Nat \ {0} : d[n] < n
  OBVIOUS
<1>3. PICK f \in [Nat -> P] : IsDescent(f, {0}, 1, d, s)
  <2> HIDE DEF P, d, s
  <2> QED BY <1>1, <1>2, DescentExists, Zenon
<1>4. ASSUME NEW n \in Nat
      PROVE  f[n] = IF n = 0 THEN 1 ELSE 2 * f[n-1]
  <2>1. f[n] = IF n \in {0} THEN 1 ELSE s[f[d[n]]]
    <3> HIDE DEF d, s
    <3> QED BY <1>3 DEF IsDescent
  <2>2. CASE n # 0
    <3>1. d[n] = n-1 /\ n-1 \in Nat
      BY <2>2
    <3>2. f[n-1] \in P
      BY <1>3, <3>1
    <3>3. s[f[n-1]] = 2 * f[n-1]
      BY <3>2
    <3> HIDE DEF d, s
    <3> QED BY <2>1, <2>2, <3>1, <3>3
  <2> QED BY <2>1, <2>2
<1>5. IsBit(f)
  BY <1>3, <1>4
<1>6. Bit = CHOOSE g : IsBit(g)
  BY DEF Bit
<1>7. IsBit(Bit)
  <2> HIDE DEF IsBit
  <2> QED BY <1>5, <1>6
<1>8. \A n \in Nat : Bit[n] = IF n = 0 THEN 1 ELSE 2 * Bit[n-1]
  BY <1>7
<1>9. Bit[0] = 1 /\ \A n \in Nat : Bit[n+1] = 2 * Bit[n]
  BY <1>8
<1>10. \A n \in Nat : Bit[n] \in P
  <2> DEFINE T == {n \in Nat : Bit[n] \in P}
  <2>1. ASSUME NEW n \in Nat, \A m \in Nat : m < n => m \in T
        PROVE  n \in T
    <3>1. CASE n = 0
      BY <1>9, <3>1
    <3>2. CASE n # 0
      <4>1. n-1 \in Nat /\ n-1 < n
        BY <3>2
      <4>2. Bit[n-1] \in P
        BY <2>1, <4>1
      <4> QED BY <1>8, <3>2, <4>2
    <3> QED BY <3>1, <3>2
  <2>2. T = Nat
    <3>1. T \in SUBSET Nat
      OBVIOUS
    <3> HIDE DEF T
    <3> QED BY <2>1, <3>1, AllNaturals
  <2> QED BY <2>2
<1> QED BY <1>9, <1>10

\* Shifts add up.
LEMMA BitSum ==
  ASSUME NEW m \in Nat, NEW n \in Nat
  PROVE  Bit[m + n] = Bit[m] * Bit[n]
<1> DEFINE T == {k \in Nat : Bit[m + k] = Bit[m] * Bit[k]}
<1>1. ASSUME NEW k \in Nat, \A j \in Nat : j < k => j \in T
      PROVE  k \in T
  <2>1. CASE k = 0
    BY <2>1, BitFacts
  <2>2. CASE k # 0
    <3>1. k-1 \in Nat /\ k-1 < k /\ (k-1) + 1 = k /\ (m + (k-1)) + 1 = m + k /\ m + (k-1) \in Nat
      BY <2>2
    <3>2. Bit[m + (k-1)] = Bit[m] * Bit[k-1]
      BY <1>1, <3>1
    <3>3. Bit[k] = 2 * Bit[k-1] /\ Bit[m + k] = 2 * Bit[m + (k-1)]
      BY <3>1, BitFacts
    <3>4. Bit[m] \in Nat /\ Bit[k-1] \in Nat
      BY <3>1, BitFacts
    <3>5. 2 * (Bit[m] * Bit[k-1]) = Bit[m] * (2 * Bit[k-1])
      BY <3>4
    <3> QED BY <3>2, <3>3, <3>5
  <2> QED BY <2>1, <2>2
<1>2. T = Nat
  <2>1. T \in SUBSET Nat
    OBVIOUS
  <2> HIDE DEF T
  <2> QED BY <1>1, <2>1, AllNaturals
<1> QED BY <1>2

LEMMA SomeBits == Bit[3] = 8 /\ Bit[6] = 64
<1>1. Bit[1] = 2
  <2>1. Bit[0 + 1] = 2 * Bit[0]
    BY BitFacts
  <2> QED BY <2>1, BitFacts
<1>2. Bit[1 + 1] = 2 * 2 /\ Bit[1 + 2] = Bit[1] * Bit[2]
  BY <1>1, BitSum
<1>3. Bit[3] = 8
  BY <1>1, <1>2
<1>4. Bit[3 + 3] = Bit[3] * Bit[3]
  BY <1>3, BitSum
<1> QED BY <1>3, <1>4

LEMMA LargestBit == Bit[27] = 134217728
<1>1. Bit[6 + 6] = Bit[6] * Bit[6]
  BY BitSum
<1>2. Bit[12] = 64 * 64
  BY <1>1, SomeBits
<1>3. Bit[12 + 12] = Bit[12] * Bit[12]
  BY BitSum
<1>4. Bit[24] = (64 * 64) * (64 * 64)
  BY <1>2, <1>3, SMT
<1>5. Bit[24 + 3] = Bit[24] * Bit[3]
  BY BitSum
<1> QED BY <1>4, <1>5, SomeBits, SMT

LEMMA SignBit == Bit[31] = 2147483648
<1>1. Bit[28 + 3] = Bit[28] * Bit[3]
  BY BitSum
<1>2. Bit[27 + 1] = 2 * Bit[27]
  BY BitFacts
<1> QED BY <1>1, <1>2, SomeBits, LargestBit, SMT

\* A larger shift is by a larger power.
LEMMA BitMonotone ==
  ASSUME NEW m \in Nat, NEW n \in Nat, m <= n
  PROVE  Bit[m] <= Bit[n]
<1>1. n - m \in Nat /\ m + (n - m) = n
  OBVIOUS
<1>2. Bit[n] = Bit[m] * Bit[n - m]
  BY <1>1, BitSum
<1>3. Bit[m] \in Nat \ {0} /\ Bit[n - m] \in Nat \ {0}
  BY <1>1, BitFacts
<1>4. \A x, y \in Nat \ {0} : x <= x * y
  OBVIOUS
<1> QED BY <1>2, <1>3, <1>4

\* The function that counts the rounds of the loop is defined for every size.
LEMMA HalvingsFacts ==
  \A n \in Nat :
    /\ Halvings[n] \in Nat
    /\ Halvings[n] = IF n > 32 THEN 1 + Halvings[n \div 2] ELSE 0
<1> DEFINE B == 0..32
           d == [n \in Nat |-> n \div 2]
           s == [x \in Nat |-> 1 + x]
           IsHalvings(f) == f = [n \in Nat |-> IF n > 32 THEN 1 + f[n \div 2] ELSE 0]
<1>1. d \in [Nat -> Nat] /\ s \in [Nat -> Nat] /\ B \in SUBSET Nat
  OBVIOUS
<1>2. \A n \in Nat \ B : d[n] < n
  OBVIOUS
<1>3. PICK f \in [Nat -> Nat] : IsDescent(f, B, 0, d, s)
  <2> HIDE DEF B, d, s
  <2> QED BY <1>1, <1>2, DescentExists, Zenon
<1>4. ASSUME NEW n \in Nat
      PROVE  f[n] = IF n > 32 THEN 1 + f[n \div 2] ELSE 0
  <2>1. f[n] = IF n \in B THEN 0 ELSE s[f[d[n]]]
    <3> HIDE DEF B, d, s
    <3> QED BY <1>3 DEF IsDescent
  <2>2. CASE n > 32
    <3>1. d[n] = n \div 2 /\ n \div 2 \in Nat
      BY <2>2
    <3>2. f[n \div 2] \in Nat
      BY <1>3, <3>1
    <3>3. s[f[n \div 2]] = 1 + f[n \div 2]
      BY <3>2
    <3> HIDE DEF d, s
    <3> QED BY <2>1, <2>2, <3>1, <3>3
  <2> QED BY <2>1, <2>2
<1>5. IsHalvings(f)
  BY <1>3, <1>4
<1>6. Halvings = CHOOSE g : IsHalvings(g)
  BY DEF Halvings, MIN_SIZE_AT_MAX_LEVEL
<1>7. IsHalvings(Halvings)
  <2> HIDE DEF IsHalvings
  <2> QED BY <1>5, <1>6
<1>8. \A n \in Nat : Halvings[n] = IF n > 32 THEN 1 + Halvings[n \div 2] ELSE 0
  BY <1>7
<1> DEFINE T == {n \in Nat : Halvings[n] \in Nat}
<1>9. ASSUME NEW n \in Nat, \A m \in Nat : m < n => m \in T
      PROVE  n \in T
  <2>1. CASE n > 32
    <3>1. n \div 2 \in Nat /\ n \div 2 < n
      BY <2>1
    <3>2. Halvings[n \div 2] \in Nat
      BY <1>9, <3>1
    <3> QED BY <1>8, <2>1, <3>2
  <2>2. CASE ~ (n > 32)
    BY <1>8, <2>2
  <2> QED BY <2>1, <2>2
<1>10. T = Nat
  <2>1. T \in SUBSET Nat
    OBVIOUS
  <2> HIDE DEF T
  <2> QED BY <1>9, <2>1, AllNaturals
<1> QED BY <1>8, <1>10

\* One halving more is one bit more.
LEMMA HalvedThenShifted ==
  ASSUME NEW n \in Nat, NEW b \in Nat \ {0}
  PROVE  (n \div 2) \div b = n \div (2 * b)
<1> DEFINE h == n \div 2
           q == h \div b
           r == h % b
           e == n % 2
<1>1. h \in Nat /\ e \in {0, 1} /\ n = 2 * h + e
  OBVIOUS
<1>2. q \in Nat /\ r \in 0..(b-1) /\ h = b * q + r
  BY <1>1
<1> HIDE DEF h, q, r, e
<1>3. n = (2 * b) * q + (2 * r + e) /\ 2 * r + e \in 0..(2 * b - 1)
  BY <1>1, <1>2
<1> DEFINE c == 2 * b
           x == 2 * r + e
<1>4. c \in Nat \ {0} /\ n = c * q + x /\ x \in 0..(c - 1)
  BY <1>3
<1> HIDE DEF c, x
<1>5. n \div c = q
  BY <1>2, <1>4
<1> QED BY <1>5 DEF q, h, c

\* A size is above the minimum at every level before its last one, where it is at
\* the minimum or below, but never below half of it.
LEMMA LevelsOfSize ==
  ASSUME NEW n \in Nat
  PROVE  /\ \A j \in 0..(Halvings[n] - 1) : n \div Bit[j] > 32
         /\ n \div Bit[Halvings[n]] <= 32
         /\ Halvings[n] > 0 => n \div Bit[Halvings[n]] >= 16
<1> DEFINE Good(m) == /\ \A j \in 0..(Halvings[m] - 1) : m \div Bit[j] > 32
                      /\ m \div Bit[Halvings[m]] <= 32
                      /\ Halvings[m] > 0 => m \div Bit[Halvings[m]] >= 16
           T == {m \in Nat : Good(m)}
<1>1. ASSUME NEW m \in Nat, \A k \in Nat : k < m => k \in T
      PROVE  m \in T
  <2>1. CASE m <= 32
    <3>1. Halvings[m] = 0 /\ Bit[0] = 1
      BY <2>1, HalvingsFacts, BitFacts
    <3>2. m \div 1 = m
      OBVIOUS
    <3> QED BY <2>1, <3>1, <3>2
  <2>2. CASE m > 32
    <3> DEFINE h == m \div 2
               k == Halvings[h]
    <3>1. h \in Nat /\ h < m /\ h >= 16
      BY <2>2
    <3>2. Good(h)
      <4> HIDE DEF Good, h
      <4> QED BY <1>1, <3>1
    <3> HIDE DEF h
    <3>3. k \in Nat /\ Halvings[m] = k + 1
      <4>1. Halvings[m] = 1 + Halvings[m \div 2]
        BY <2>2, HalvingsFacts
      <4> QED BY <3>1, <4>1, HalvingsFacts DEF h
    <3>4. ASSUME NEW j \in Nat PROVE m \div Bit[j+1] = h \div Bit[j]
      <4>1. Bit[j] \in Nat \ {0} /\ Bit[j+1] = 2 * Bit[j]
        BY BitFacts
      <4>2. (m \div 2) \div Bit[j] = m \div (2 * Bit[j])
        BY <4>1, HalvedThenShifted
      <4> QED BY <4>1, <4>2 DEF h
    <3>5. k = 0 => h \div Bit[k] = h
      BY <3>1, BitFacts
    <3> HIDE DEF k
    <3>6. m \div Bit[k+1] = h \div Bit[k]
      BY <3>3, <3>4
    <3>7. h \div Bit[k] <= 32 /\ h \div Bit[k] >= 16
      BY <3>1, <3>2, <3>3, <3>5 DEF k
    <3>8. ASSUME NEW j \in 0..k PROVE m \div Bit[j] > 32
      <4>1. CASE j = 0
        BY <2>2, <4>1, BitFacts
      <4>2. CASE j # 0
        <5>1. j-1 \in 0..(k-1) /\ j-1 \in Nat /\ (j-1)+1 = j
          BY <3>3, <4>2
        <5>2. h \div Bit[j-1] > 32
          BY <3>2, <5>1 DEF k
        <5>3. m \div Bit[(j-1)+1] = h \div Bit[j-1]
          BY <3>4, <5>1
        <5> QED BY <5>1, <5>2, <5>3
      <4> QED BY <4>1, <4>2
    <3>9. Good(m)
      BY <3>3, <3>6, <3>7, <3>8
    <3> QED BY <3>9
  <2> QED BY <2>1, <2>2
<1>2. T = Nat
  <2>1. T \in SUBSET Nat
    OBVIOUS
  <2> HIDE DEF T
  <2> QED BY <1>1, <2>1, AllNaturals
<1> QED BY <1>2

\* What a size below 33 * 2^k says about the number of its levels.
LEMMA LevelsBound ==
  ASSUME NEW n \in Nat, NEW k \in Nat, n < 33 * Bit[k]
  PROVE  Halvings[n] <= k
<1> SUFFICES ASSUME Halvings[n] > k PROVE FALSE
  BY HalvingsFacts
<1>1. k \in 0..(Halvings[n] - 1)
  BY HalvingsFacts
<1>2. n \div Bit[k] > 32
  BY <1>1, LevelsOfSize
<1>3. Bit[k] \in Nat \ {0}
  BY BitFacts
<1>4. ASSUME NEW b \in Nat \ {0}, n \div b >= 33, n < 33 * b
      PROVE  FALSE
  <2>1. n = b * (n \div b) + (n % b) /\ n % b >= 0 /\ n \div b \in Nat
    OBVIOUS
  <2>2. b * (n \div b) >= b * 33
    BY <1>4, <2>1
  <2> QED BY <1>4, <2>1, <2>2
<1>5. n \div Bit[k] >= 33
  BY <1>2, <1>3
<1> QED BY <1>3, <1>4, <1>5

\* The scale on which get_optimal_tile_size rounds covers every size below 2^31.
LEMMA OptimalSizeBounds ==
  ASSUME NEW n \in Nat \ {0}, n < Bit[31]
  PROVE  GetOptimalTileSize(n) \in 64..1024
<1> DEFINE x == 2 * (n * n)
           top(p) == Bit[2 * (p + 1)]
           IsPower(p) == Bit[2 * p] <= x /\ x < top(p)
           T == {p \in 0..31 : x < top(p)}
<1>1. x \in Nat /\ 1 <= x
  <2>1. \A a, b \in Nat \ {0} : a * b \in Nat /\ a * b >= 1
    OBVIOUS
  <2>2. n * n \in Nat /\ n * n >= 1
    BY <2>1
  <2>3. \A y \in Nat : y >= 1 => 2 * y \in Nat /\ 1 <= 2 * y
    OBVIOUS
  <2> QED BY <2>2, <2>3
<1>2. x < Bit[64]
  <2>1. \A a, b \in Nat : a < b => a * a < b * b
    OBVIOUS
  <2>2. Bit[31] \in Nat \ {0} /\ Bit[31 + 31] = Bit[31] * Bit[31]
    BY BitFacts, BitSum
  <2>3. n * n < Bit[62]
    BY <2>1, <2>2
  <2>4. Bit[62] \in Nat /\ Bit[62 + 1] = 2 * Bit[62] /\ n * n \in Nat
    BY BitFacts
  <2>5. \A a, b \in Nat : a < b => 2 * a < 2 * b
    OBVIOUS
  <2>6. x < Bit[63]
    BY <2>3, <2>4, <2>5
  <2>7. Bit[63] <= Bit[64] /\ Bit[63] \in Nat /\ Bit[64] \in Nat
    BY BitMonotone, BitFacts
  <2> QED BY <1>1, <2>6, <2>7
<1>3. \A p \in Nat : Bit[p] \in Nat
  BY BitFacts
<1> HIDE DEF x
<1>4. T \in SUBSET Nat /\ 31 \in T
  <2>1. 2 * (31 + 1) = 64 /\ 31 \in 0..31 /\ T \in SUBSET Nat
    OBVIOUS
  <2> QED BY <1>2, <2>1
<1>5. PICK p \in T : \A q \in T : p <= q
  BY <1>4, LeastNat
<1>6. Bit[2 * p] <= x
  <2>1. CASE p = 0
    BY <1>1, <2>1, BitFacts
  <2>2. CASE p # 0
    <3>1. p-1 \in 0..31 /\ p-1 \notin T /\ 2 * ((p-1) + 1) = 2 * p /\ 2 * p \in Nat
      BY <1>5, <2>2
    <3> QED BY <1>1, <1>3, <3>1
  <2> QED BY <2>1, <2>2
<1>7. \E q \in 0..31 : IsPower(q)
  BY <1>5, <1>6
<1> DEFINE power == CHOOSE q \in 0..31 : IsPower(q)
<1>8. power \in 0..31
  <2> HIDE DEF IsPower
  <2> QED BY <1>7
<1>9. GetOptimalTileSize(n) = Clamp(Bit[power], 64, 1024)
  BY DEF GetOptimalTileSize, x
<1> HIDE DEF power
<1>10. Bit[power] \in Nat
  BY <1>3, <1>8
<1> QED BY <1>9, <1>10 DEF Clamp
=============================================================================
