----------------------------- MODULE ListLemmas -----------------------------
(***************************************************************************)
(* Facts about naturals and sequences: induction by the least-number       *)
(* principle (the first number at which a claim fails), functions defined  *)
(* by recursion, running totals, and what prepending to a list, erasing    *)
(* from it and cutting off its last element return.                        *)
(***************************************************************************)
EXTENDS Sums, SequencesExt, SequenceTheorems, FiniteSetTheorems, WellFoundedInduction, TLAPS

\* Every non-empty set of naturals has a least element: the intervals below its
\* members are finite sets, and strict inclusion is well-founded on those.
LEMMA LeastNat ==
  ASSUME NEW T \in SUBSET Nat, T # {}
  PROVE  \E x \in T : \A y \in T : x <= y
<1> DEFINE below(t) == 0 .. (t - 1)
           W == {below(t) : t \in T}
<1>1. W \subseteq FiniteSubsetsOf(Nat)
  <2> SUFFICES ASSUME NEW t \in T PROVE below(t) \in FiniteSubsetsOf(Nat)
    OBVIOUS
  <2>1. IsFiniteSet(0 .. (t - 1))
    BY FS_Interval
  <2> QED BY <2>1 DEF FiniteSubsetsOf
<1>2. W # {}
  OBVIOUS
<1>3. IsWellFoundedOn(StrictSubsetOrdering(Nat), FiniteSubsetsOf(Nat))
  BY FS_StrictSubsetOrderingWellFounded
<1>4. \E w \in W : \A v \in W : <<v, w>> \notin StrictSubsetOrdering(Nat)
  <2> HIDE DEF W
  <2> QED BY <1>1, <1>2, <1>3, WFMin
<1>5. PICK x \in T : \A y \in T : <<below(y), below(x)>> \notin StrictSubsetOrdering(Nat)
  BY <1>4
<1>6. ASSUME NEW y \in T, y < x
      PROVE  FALSE
  <2>1. y \in below(x) /\ y \notin below(y)
    BY <1>6
  <2>2. below(y) \subseteq below(x) /\ below(y) # below(x)
    BY <2>1, <1>6
  <2>3. below(y) \in SUBSET Nat /\ below(x) \in SUBSET Nat
    OBVIOUS
  <2>4. <<below(y), below(x)>> \in StrictSubsetOrdering(Nat)
    <3> HIDE DEF below
    <3> QED BY <2>2, <2>3 DEF StrictSubsetOrdering
  <2> QED BY <2>4, <1>5
<1> QED BY <1>6

\* Induction over a set of naturals that holds a number when it holds all below.
LEMMA AllNaturals ==
  ASSUME NEW T \in SUBSET Nat,
         \A n \in Nat : (\A m \in Nat : m < n => m \in T) => n \in T
  PROVE  T = Nat
<1> SUFFICES ASSUME Nat \ T # {} PROVE FALSE
  OBVIOUS
<1>1. PICK x \in Nat \ T : \A y \in Nat \ T : x <= y
  <2>1. Nat \ T \in SUBSET Nat
    OBVIOUS
  <2> QED BY <2>1, LeastNat
<1>2. \A m \in Nat : m < x => m \in T
  BY <1>1
<1> QED BY <1>1, <1>2

\* A function defined by a step from a smaller argument exists: b on the arguments
\* in B, and elsewhere what s makes of the value at the smaller argument d[n].
IsDescent(f, B, b, d, s) == \A n \in Nat : f[n] = IF n \in B THEN b ELSE s[f[d[n]]]

LEMMA DescentExists ==
  ASSUME NEW S, NEW B \in SUBSET Nat, NEW b \in S, NEW d \in [Nat -> Nat], NEW s \in [S -> S],
         \A n \in Nat \ B : d[n] < n
  PROVE  \E f \in [Nat -> S] : IsDescent(f, B, b, d, s)
<1> DEFINE Upto(f, n) ==
             /\ f \in [0..n -> S]
             /\ \A i \in 0..n : f[i] = IF i \in B THEN b ELSE s[f[d[i]]]
<1>1. ASSUME NEW m \in Nat, NEW n \in Nat, NEW f, NEW g, Upto(f, m), Upto(g, n)
      PROVE  \A i \in 0..m : i \in 0..n => f[i] = g[i]
  <2> DEFINE T == {i \in Nat : i <= m /\ i <= n => f[i] = g[i]}
  <2>1. ASSUME NEW i \in Nat, \A j \in Nat : j < i => j \in T
        PROVE  i \in T
    <3> SUFFICES ASSUME i <= m, i <= n PROVE f[i] = g[i]
      OBVIOUS
    <3>1. CASE i \in B
      BY <1>1, <3>1
    <3>2. CASE i \notin B
      <4>1. d[i] \in T /\ d[i] <= m /\ d[i] <= n
        BY <2>1, <3>2
      <4> QED BY <1>1, <3>2, <4>1
    <3> QED BY <3>1, <3>2
  <2>2. T = Nat
    <3>1. T \in SUBSET Nat
      OBVIOUS
    <3> HIDE DEF T
    <3> QED BY <2>1, <3>1, AllNaturals
  <2> QED BY <2>2
<1>2. \A n \in Nat : \E f : Upto(f, n)
  <2> DEFINE T == {n \in Nat : \E f : Upto(f, n)}
  <2>1. ASSUME NEW n \in Nat, \A m \in Nat : m < n => m \in T
        PROVE  n \in T
    <3>1. CASE n = 0
      <4> DEFINE f == [i \in 0..0 |-> b]
      <4>1. 0 \in B
        <5>1. ~ (d[0] < 0)
          OBVIOUS
        <5> QED BY <5>1
      <4>2. Upto(f, 0)
        BY <4>1
      <4> QED BY <3>1, <4>2
    <3>2. CASE n # 0
      <4>1. n-1 \in Nat /\ n-1 \in T
        <5>1. n-1 \in Nat /\ n-1 < n
          BY <3>2
        <5> HIDE DEF T
        <5> QED BY <2>1, <5>1
      <4>2. PICK g : Upto(g, n-1)
        BY <4>1
      <4> DEFINE f == [i \in 0..n |-> IF i < n THEN g[i] ELSE IF n \in B THEN b ELSE s[g[d[n]]]]
      <4>3. \A i \in 0..(n-1) : g[i] \in S /\ f[i] = g[i]
        BY <4>1, <4>2
      <4>4. n \notin B => d[n] \in 0..(n-1)
        BY <3>2
      <4>5. ASSUME NEW i \in 0..n
            PROVE  f[i] \in S /\ f[i] = IF i \in B THEN b ELSE s[f[d[i]]]
        <5>1. CASE i = n
          <6>1. f[n] = IF n \in B THEN b ELSE s[g[d[n]]]
            OBVIOUS
          <6>2. n \notin B => g[d[n]] \in S /\ f[d[n]] = g[d[n]]
            BY <4>3, <4>4
          <6> HIDE DEF f
          <6> QED BY <5>1, <6>1, <6>2
        <5>2. CASE i # n
          <6>1. i \in 0..(n-1) /\ (i \notin B => d[i] \in 0..(n-1))
            BY <5>2
          <6>2. g[i] = IF i \in B THEN b ELSE s[g[d[i]]]
            BY <4>2, <6>1
          <6> HIDE DEF f
          <6> QED BY <4>3, <6>1, <6>2
        <5> QED BY <5>1, <5>2
      <4>6. f \in [0..n -> S]
        <5>1. f = [i \in 0..n |-> f[i]]
          OBVIOUS
        <5> HIDE DEF f
        <5> QED BY <4>5, <5>1
      <4>7. Upto(f, n)
        <5> HIDE DEF f
        <5> QED BY <4>5, <4>6
      <4> QED BY <4>7
    <3> QED BY <3>1, <3>2
  <2>2. T = Nat
    <3>1. T \in SUBSET Nat
      OBVIOUS
    <3> HIDE DEF T
    <3> QED BY <2>1, <3>1, AllNaturals
  <2> QED BY <2>2
<1> DEFINE F(n) == CHOOSE f : Upto(f, n)
           h == [n \in Nat |-> F(n)[n]]
<1>3. \A n \in Nat : Upto(F(n), n)
  <2> HIDE DEF Upto
  <2> QED BY <1>2
<1> HIDE DEF F
<1>4. ASSUME NEW n \in Nat
      PROVE  h[n] \in S /\ h[n] = IF n \in B THEN b ELSE s[h[d[n]]]
  <2>1. Upto(F(n), n) /\ n \in 0..n
    BY <1>3
  <2>2. CASE n \in B
    BY <2>1, <2>2
  <2>3. CASE n \notin B
    <3>1. d[n] \in Nat /\ d[n] \in 0..n /\ d[n] \in 0..d[n]
      BY <2>3
    <3>2. Upto(F(d[n]), d[n])
      BY <1>3, <3>1
    <3>3. F(n)[d[n]] = F(d[n])[d[n]]
      <4> HIDE DEF Upto
      <4> QED BY <1>1, <2>1, <3>1, <3>2
    <3>4. h[n] = F(n)[n] /\ h[d[n]] = F(d[n])[d[n]]
      BY <3>1
    <3>5. F(n)[n] \in S /\ F(n)[n] = s[F(n)[d[n]]]
      BY <2>1, <2>3
    <3> QED BY <2>3, <3>3, <3>4, <3>5
  <2> QED BY <2>2, <2>3
<1>5. h \in [Nat -> S]
  <2>1. h = [n \in Nat |-> h[n]]
    OBVIOUS
  <2> HIDE DEF h
  <2> QED BY <1>4, <2>1
<1> QED
  <2> HIDE DEF h
  <2> QED BY <1>4, <1>5 DEF IsDescent

-----------------------------------------------------------------------------
(* Running totals *)

\* f lists the running totals of s up to position n.
IsRun(f, s, n) == f = [i \in 0..n |-> IF i = 0 THEN 0 ELSE f[i-1] + s[i]]

\* The running totals up to a position are determined.
LEMMA RunUnique ==
  ASSUME NEW n \in Nat, NEW s, NEW f, NEW g, IsRun(f, s, n), IsRun(g, s, n)
  PROVE  f = g
<1> DEFINE T == {i \in 0..n : f[i] # g[i]}
<1>1. T = {}
  <2> SUFFICES ASSUME T # {} PROVE FALSE
    OBVIOUS
  <2>1. PICK x \in T : \A y \in T : x <= y
    <3> T \in SUBSET Nat
      OBVIOUS
    <3> HIDE DEF T
    <3> QED BY LeastNat
  <2>2. CASE x = 0
    BY <2>2 DEF IsRun
  <2>3. CASE x # 0
    <3>1. x - 1 \in 0..n /\ x - 1 \notin T
      BY <2>3, <2>1
    <3>2. f[x] = f[x-1] + s[x] /\ g[x] = g[x-1] + s[x]
      BY <2>3 DEF IsRun
    <3> QED BY <3>1, <3>2
  <2> QED BY <2>2, <2>3
<1>2. f = [i \in 0..n |-> f[i]] /\ g = [i \in 0..n |-> g[i]]
  BY DEF IsRun
<1> QED BY <1>1, <1>2

\* The running totals exist up to every position, and are naturals.
LEMMA RunExists ==
  ASSUME NEW s \in Seq(Nat), NEW n \in 0..Len(s)
  PROVE  \E f \in [0..n -> Nat] : IsRun(f, s, n)
<1> DEFINE Good(k) == \E f \in [0..k -> Nat] : IsRun(f, s, k)
           T == {k \in 0..Len(s) : ~ Good(k)}
<1>1. T = {}
  <2> SUFFICES ASSUME T # {} PROVE FALSE
    OBVIOUS
  <2>1. PICK x \in T : \A y \in T : x <= y
    <3> T \in SUBSET Nat
      OBVIOUS
    <3> HIDE DEF T
    <3> QED BY LeastNat
  <2>2. CASE x = 0
    <3> DEFINE f == [i \in 0..0 |-> 0]
    <3>1. f \in [0..0 -> Nat] /\ IsRun(f, s, 0)
      BY DEF IsRun
    <3> QED BY <3>1, <2>2
  <2>3. CASE x # 0
    <3>1. x \in 1..Len(s) /\ x - 1 \in 0..Len(s) /\ x - 1 \notin T
      <4> HIDE DEF Good
      <4>1. x \in 0..Len(s)
        OBVIOUS
      <4>2. x \in Nat /\ \A y \in T : y \in Nat /\ x <= y
        BY <2>1
      <4> QED BY <4>1, <4>2, <2>3
    <3>2. PICK g \in [0..(x-1) -> Nat] : IsRun(g, s, x - 1)
      BY <3>1
    <3> DEFINE f == [i \in 0..x |-> IF i < x THEN g[i] ELSE g[x-1] + s[x]]
    <3>3. s[x] \in Nat
      BY <3>1
    <3>4. f \in [0..x -> Nat]
      BY <3>1, <3>2, <3>3
    <3>5. ASSUME NEW i \in 0..x
          PROVE  f[i] = IF i = 0 THEN 0 ELSE f[i-1] + s[i]
      <4>1. CASE i = x
        BY <4>1, <3>1
      <4>2. CASE i < x
        <5>1. i \in 0..(x-1)
          BY <4>2, <3>1
        <5>2. g = [j \in 0..(x-1) |-> IF j = 0 THEN 0 ELSE g[j-1] + s[j]]
          BY <3>2 DEF IsRun
        <5>3. g[i] = IF i = 0 THEN 0 ELSE g[i-1] + s[i]
          <6> HIDE DEF T, f
          <6> QED BY <5>1, <5>2
        <5> QED BY <5>3, <4>2, <3>1
      <4> QED BY <4>1, <4>2
    <3>6. IsRun(f, s, x)
      BY <3>5 DEF IsRun
    <3> QED BY <3>4, <3>6
  <2> QED BY <2>2, <2>3
<1> QED BY <1>1

\* PrefixSums computes them.
LEMMA PrefixSumsDef ==
  ASSUME NEW s \in Seq(Nat)
  PROVE  /\ IsRun(PrefixSums(s), s, Len(s))
         /\ PrefixSums(s) \in [0..Len(s) -> Nat]
         /\ SumSeq(s) \in Nat
<1>1. Len(s) \in 0..Len(s)
  OBVIOUS
<1>2. PICK f \in [0..Len(s) -> Nat] : IsRun(f, s, Len(s))
  BY <1>1, RunExists
<1>3. PrefixSums(s) = CHOOSE r : IsRun(r, s, Len(s))
  BY DEF PrefixSums, IsRun
<1>4. IsRun(PrefixSums(s), s, Len(s))
  BY <1>2, <1>3
<1>5. PrefixSums(s) = f
  BY <1>2, <1>4, RunUnique
<1> QED BY <1>4, <1>5, <1>2 DEF SumSeq

\* A function that satisfies the recurrence is PrefixSums.
LEMMA PrefixSumsIntro ==
  ASSUME NEW s \in Seq(Nat), NEW f, IsRun(f, s, Len(s))
  PROVE  PrefixSums(s) = f /\ SumSeq(s) = f[Len(s)]
<1>1. IsRun(PrefixSums(s), s, Len(s))
  BY PrefixSumsDef
<1>2. PrefixSums(s) = f
  BY <1>1, RunUnique
<1> QED BY <1>2 DEF SumSeq
-----------------------------------------------------------------------------
\* One step of the recurrence.
LEMMA PrefixSumsStep ==
  ASSUME NEW s \in Seq(Nat)
  PROVE  /\ PrefixSums(s)[0] = 0
         /\ \A j \in 1..Len(s) :
              /\ PrefixSums(s)[j] = PrefixSums(s)[j-1] + s[j]
              /\ PrefixSums(s)[j] \in Nat
              /\ PrefixSums(s)[j-1] \in Nat
              /\ s[j] \in Nat
<1> DEFINE r == PrefixSums(s)
<1>1. IsRun(r, s, Len(s)) /\ r \in [0..Len(s) -> Nat]
  BY PrefixSumsDef
<1> HIDE DEF r
<1>2. r = [k \in 0..Len(s) |-> IF k = 0 THEN 0 ELSE r[k-1] + s[k]]
  BY <1>1 DEF IsRun
<1>3. Len(s) \in Nat
  OBVIOUS
<1>4. r[0] = 0
  BY <1>2, <1>3
<1>5. ASSUME NEW j \in 1..Len(s)
      PROVE  r[j] = r[j-1] + s[j] /\ r[j] \in Nat /\ r[j-1] \in Nat /\ s[j] \in Nat
  <2>1. j \in 0..Len(s) /\ j-1 \in 0..Len(s) /\ j # 0
    BY <1>3
  <2>2. r[j] \in Nat /\ r[j-1] \in Nat
    BY <2>1, <1>1
  <2>3. r[j] = r[j-1] + s[j]
    BY <2>1, <1>2
  <2> QED BY <2>2, <2>3
<1> QED BY <1>4, <1>5 DEF r

\* The sum of a sequence with a new head.
LEMMA SumCons ==
  ASSUME NEW s \in Seq(Nat), NEW t \in Seq(Nat),
         Len(t) = Len(s) + 1,
         \A i \in 1..Len(s) : t[i+1] = s[i]
  PROVE  SumSeq(t) = SumSeq(s) + t[1]
<1> DEFINE r == PrefixSums(s)
           f == [i \in 0..Len(t) |-> IF i = 0 THEN 0 ELSE r[i-1] + t[1]]
<1>1. IsRun(r, s, Len(s)) /\ r \in [0..Len(s) -> Nat]
  BY PrefixSumsDef
<1>2. Len(s) \in Nat /\ Len(t) \in Nat /\ t[1] \in Nat
  OBVIOUS
<1>3. ASSUME NEW i \in 0..Len(t)
      PROVE  f[i] = IF i = 0 THEN 0 ELSE f[i-1] + t[i]
  <2>1. CASE i = 0
    BY <2>1
  <2>2. CASE i = 1
    <3>1. r[0] = 0
      BY <1>1, <1>2 DEF IsRun
    <3>2. f[0] = 0 /\ f[1] = r[0] + t[1]
      BY <2>2, <1>2
    <3> HIDE DEF f, r
    <3> QED BY <3>1, <3>2, <2>2, <1>2
  <2>3. CASE i > 1
    <3>1. i-1 \in 1..Len(s) /\ i-1 \in 0..Len(t) /\ (i-1)+1 = i
      BY <2>3, <1>2
    <3>2. r[i-1] = r[(i-1)-1] + s[i-1] /\ r[(i-1)-1] \in Nat /\ s[i-1] \in Nat
      BY <3>1, PrefixSumsStep
    <3>3. t[(i-1)+1] = s[i-1]
      BY <3>1
    <3>4. f[i] = r[i-1] + t[1] /\ f[i-1] = r[(i-1)-1] + t[1]
      BY <3>1, <1>2, <2>3
    <3>5. i # 0
      BY <2>3
    <3>6. t[i] = s[i-1]
      BY <3>1, <3>3
    <3> HIDE DEF f, r
    <3> QED BY <3>2, <3>4, <3>5, <3>6, <1>2
  <2> QED BY <2>1, <2>2, <2>3
<1>4. IsRun(f, t, Len(t))
  BY <1>3 DEF IsRun
<1>5. SumSeq(t) = f[Len(t)]
  <2> HIDE DEF f
  <2> QED BY <1>4, PrefixSumsIntro
<1>6. f[Len(t)] = r[Len(s)] + t[1]
  BY <1>2
<1> QED BY <1>5, <1>6 DEF SumSeq

\* The sum of a sequence without its element at p.
LEMMA SumRemove ==
  ASSUME NEW s \in Seq(Nat), NEW t \in Seq(Nat), NEW p \in 1..Len(s),
         Len(t) = Len(s) - 1,
         \A i \in 1..Len(t) : t[i] = IF i < p THEN s[i] ELSE s[i+1]
  PROVE  SumSeq(s) = SumSeq(t) + s[p]
<1> DEFINE r == PrefixSums(t)
           f == [i \in 0..Len(s) |-> IF i < p THEN r[i] ELSE r[i-1] + s[p]]
<1>1. IsRun(r, t, Len(t)) /\ r \in [0..Len(t) -> Nat]
  BY PrefixSumsDef
<1>2. Len(s) \in Nat /\ Len(t) \in Nat /\ s[p] \in Nat /\ p \in Nat
  OBVIOUS
<1>7. ASSUME NEW j \in 1..Len(t)
      PROVE  r[j] = r[j-1] + t[j] /\ r[j] \in Nat /\ r[j-1] \in Nat /\ t[j] \in Nat
  BY PrefixSumsStep
<1>3. ASSUME NEW i \in 0..Len(s)
      PROVE  f[i] = IF i = 0 THEN 0 ELSE f[i-1] + s[i]
  <2>1. CASE i = 0
    <3>1. r[0] = 0
      BY <1>1, <1>2 DEF IsRun
    <3> QED BY <3>1, <2>1, <1>2
  <2>2. CASE i # 0 /\ i < p
    <3>1. i \in 1..Len(t) /\ i-1 < p /\ i-1 \in 0..Len(s)
      BY <2>2, <1>2
    <3>2. f[i] = r[i] /\ f[i-1] = r[i-1]
      BY <3>1, <2>2
    <3>3. t[i] = s[i]
      BY <3>1, <2>2
    <3> HIDE DEF f, r
    <3> QED BY <3>1, <3>2, <3>3, <1>7, <2>2
  <2>3. CASE i = p
    <3>1. f[i] = r[i-1] + s[p]
      BY <2>3
    <3>2. f[i-1] = r[i-1]
      BY <2>3, <1>2
    <3> HIDE DEF f, r
    <3> QED BY <3>1, <3>2, <2>3, <1>2
  <2>4. CASE i > p
    <3>1. i-1 \in 1..Len(t) /\ i-1 \in 0..Len(s) /\ ~(i < p) /\ ~(i-1 < p)
      BY <2>4, <1>2
    <3>2. f[i] = r[i-1] + s[p] /\ f[i-1] = r[(i-1)-1] + s[p]
      BY <3>1
    <3>3. t[i-1] = s[i]
      BY <3>1, <1>2
    <3>4. r[i-1] = r[(i-1)-1] + t[i-1] /\ r[i-1] \in Nat /\ r[(i-1)-1] \in Nat /\ t[i-1] \in Nat
      BY <3>1, <1>7
    <3>5. i # 0
      BY <2>4, <1>2
    <3> HIDE DEF f, r
    <3> QED BY <3>2, <3>3, <3>4, <3>5, <1>2
  <2> QED BY <2>1, <2>2, <2>3, <2>4, <1>2
<1>4. IsRun(f, s, Len(s))
  BY <1>3 DEF IsRun
<1>5. SumSeq(s) = f[Len(s)]
  <2> HIDE DEF f
  <2> QED BY <1>4, PrefixSumsIntro
<1>6. f[Len(s)] = r[Len(t)] + s[p]
  BY <1>2
<1> QED BY <1>5, <1>6 DEF SumSeq

\* No element exceeds the sum.
LEMMA SumBoundsElement ==
  ASSUME NEW s \in Seq(Nat), NEW p \in 1..Len(s)
  PROVE  s[p] <= SumSeq(s)
<1> DEFINE t == [i \in 1..(Len(s)-1) |-> IF i < p THEN s[i] ELSE s[i+1]]
<1>1. Len(s) \in Nat /\ Len(s) - 1 \in Nat /\ s[p] \in Nat
  OBVIOUS
<1>2. \A i \in 1..(Len(s)-1) : t[i] \in Nat
  BY <1>1
<1>3. t \in Seq(Nat) /\ Len(t) = Len(s) - 1
  BY <1>1, <1>2
<1>4. SumSeq(s) = SumSeq(t) + s[p]
  <2>1. \A i \in 1..Len(t) : t[i] = IF i < p THEN s[i] ELSE s[i+1]
    BY <1>3
  <2> HIDE DEF t
  <2> QED BY <1>3, <2>1, SumRemove
<1>5. SumSeq(t) \in Nat
  <2> HIDE DEF t
  <2> QED BY <1>3, PrefixSumsDef
<1> QED BY <1>1, <1>4, <1>5

\* An empty sequence sums to 0.
LEMMA SumEmpty == SumSeq(<< >>) = 0
<1>1. << >> \in Seq(Nat) /\ Len(<< >>) = 0
  OBVIOUS
<1> DEFINE f == [i \in 0..0 |-> 0]
<1>2. IsRun(f, << >>, 0)
  BY DEF IsRun
<1>3. SumSeq(<< >>) = f[0]
  <2> HIDE DEF f
  <2> QED BY <1>1, <1>2, PrefixSumsIntro
<1> QED BY <1>3

\* The sum of a sequence whose element at p moved to the front and was given a
\* new value there.
LEMMA SumMove ==
  ASSUME NEW s \in Seq(Nat), NEW t \in Seq(Nat), NEW p \in 1..Len(s),
         Len(t) = Len(s),
         \A i \in 2..Len(t) : t[i] = IF i <= p THEN s[i-1] ELSE s[i]
  PROVE  SumSeq(t) = SumSeq(s) - s[p] + t[1]
<1> DEFINE u == [i \in 1..(Len(s)-1) |-> IF i < p THEN s[i] ELSE s[i+1]]
<1>1. Len(s) \in Nat /\ Len(s) - 1 \in Nat /\ s[p] \in Nat /\ t[1] \in Nat
  OBVIOUS
<1>2. \A i \in 1..(Len(s)-1) : u[i] \in Nat
  BY <1>1
<1>3. u \in Seq(Nat) /\ Len(u) = Len(s) - 1
  BY <1>1, <1>2
<1>4. \A i \in 1..Len(u) : u[i] = IF i < p THEN s[i] ELSE s[i+1]
  BY <1>3
<1>5. ASSUME NEW i \in 1..Len(u)
      PROVE  t[i+1] = u[i]
  <2>1. i+1 \in 2..Len(t) /\ (i+1)-1 = i
    BY <1>3, <1>1
  <2>2. t[i+1] = IF i+1 <= p THEN s[(i+1)-1] ELSE s[i+1]
    BY <2>1
  <2>3. u[i] = IF i < p THEN s[i] ELSE s[i+1]
    BY <1>4
  <2>4. i + 1 <= p <=> i < p
    BY <1>1, <1>3
  <2> HIDE DEF u
  <2> QED BY <2>1, <2>2, <2>3, <2>4
<1> HIDE DEF u
<1>6. SumSeq(s) = SumSeq(u) + s[p]
  BY <1>3, <1>4, SumRemove
<1>7. SumSeq(t) = SumSeq(u) + t[1]
  <2>1. Len(t) = Len(u) + 1
    BY <1>1, <1>3
  <2> QED BY <2>1, <1>3, <1>5, SumCons
<1>8. SumSeq(u) \in Nat
  BY <1>3, PrefixSumsDef
<1> QED BY <1>1, <1>6, <1>7, <1>8

\* The sum of a one-element sequence.
LEMMA SumSingle ==
  ASSUME NEW s \in Seq(Nat), Len(s) = 1
  PROVE  SumSeq(s) = s[1]
<1> DEFINE z == << >>
<1>1. 1 \in 1..Len(s)
  OBVIOUS
<1>2. s[1] \in Nat
  BY <1>1, ElementOfSeq
<1>3. z \in Seq(Nat) /\ Len(s) = Len(z) + 1 /\ \A i \in 1..Len(z) : s[i+1] = z[i]
  OBVIOUS
<1>4. SumSeq(z) = 0
  BY SumEmpty
<1> HIDE DEF z
<1>5. SumSeq(s) = SumSeq(z) + s[1]
  BY <1>3, SumCons
<1> QED BY <1>2, <1>4, <1>5
-----------------------------------------------------------------------------
LEMMA ConsFacts ==
  ASSUME NEW S, NEW s \in Seq(S), NEW x \in S
  PROVE  /\ Cons(x, s) \in Seq(S)
         /\ Len(Cons(x, s)) = Len(s) + 1
         /\ Cons(x, s)[1] = x
         /\ \A i \in 1..Len(s) : Cons(x, s)[i+1] = s[i]
<1>1. <<x>> \in Seq(S) /\ Len(<<x>>) = 1 /\ <<x>>[1] = x
  OBVIOUS
<1>2. Cons(x, s) = <<x>> \o s
  BY DEF Cons
<1>3. Len(s) \in Nat
  OBVIOUS
<1>4. /\ <<x>> \o s \in Seq(S)
      /\ Len(<<x>> \o s) = 1 + Len(s)
      /\ \A i \in 1..(1 + Len(s)) :
           (<<x>> \o s)[i] = IF i <= 1 THEN <<x>>[i] ELSE s[i-1]
  BY <1>1, ConcatProperties
<1>5. ASSUME NEW i \in 1..Len(s)
      PROVE  (<<x>> \o s)[i+1] = s[i]
  <2>1. i+1 \in 1..(1 + Len(s)) /\ ~(i+1 <= 1) /\ (i+1)-1 = i
    BY <1>3
  <2> QED BY <2>1, <1>4
<1>6. (<<x>> \o s)[1] = x
  BY <1>1, <1>3, <1>4
<1> QED BY <1>2, <1>3, <1>4, <1>5, <1>6

LEMMA RemoveAtFacts ==
  ASSUME NEW S, NEW s \in Seq(S), NEW p \in 1..Len(s)
  PROVE  /\ RemoveAt(s, p) \in Seq(S)
         /\ Len(RemoveAt(s, p)) = Len(s) - 1
         /\ \A i \in 1..(Len(s)-1) :
              RemoveAt(s, p)[i] = IF i < p THEN s[i] ELSE s[i+1]
<1> DEFINE a == SubSeq(s, 1, p-1)
           b == SubSeq(s, p+1, Len(s))
<1>0. Len(s) \in Nat /\ p \in Nat /\ p >= 1 /\ p <= Len(s)
  OBVIOUS
<1>1. a \in Seq(S) /\ Len(a) = p-1 /\ \A i \in 1..(p-1) : a[i] = s[i]
  <2>1. \A i \in 1..(p-1) : s[i] \in S
    BY <1>0
  <2>2. /\ a \in Seq(S)
        /\ Len(a) = IF 1 <= p-1 THEN (p-1)-1+1 ELSE 0
        /\ \A i \in 1..((p-1)-1+1) : a[i] = s[1+i-1]
    BY <2>1, <1>0, SubSeqProperties
  <2> HIDE DEF a
  <2> QED BY <2>2, <1>0
<1>2. b \in Seq(S) /\ Len(b) = Len(s)-p /\ \A i \in 1..(Len(s)-p) : b[i] = s[p+i]
  <2>1. \A i \in (p+1)..Len(s) : s[i] \in S
    BY <1>0
  <2>2. /\ b \in Seq(S)
        /\ Len(b) = IF p+1 <= Len(s) THEN Len(s)-(p+1)+1 ELSE 0
        /\ \A i \in 1..(Len(s)-(p+1)+1) : b[i] = s[(p+1)+i-1]
    BY <2>1, <1>0, SubSeqProperties
  <2>3. ASSUME NEW i \in 1..(Len(s)-p)
        PROVE  b[i] = s[p+i]
    <3>1. i \in 1..(Len(s)-(p+1)+1) /\ (p+1)+i-1 = p+i
      BY <1>0
    <3> QED BY <3>1, <2>2
  <2> HIDE DEF b
  <2> QED BY <2>2, <2>3, <1>0
<1>3. RemoveAt(s, p) = a \o b
  BY DEF RemoveAt
<1> HIDE DEF a, b
<1>4. /\ a \o b \in Seq(S)
      /\ Len(a \o b) = Len(a) + Len(b)
      /\ \A i \in 1..(Len(a) + Len(b)) :
           (a \o b)[i] = IF i <= Len(a) THEN a[i] ELSE b[i - Len(a)]
  BY <1>1, <1>2, ConcatProperties
<1>5. ASSUME NEW i \in 1..(Len(s)-1)
      PROVE  (a \o b)[i] = IF i < p THEN s[i] ELSE s[i+1]
  <2>1. i \in 1..(Len(a) + Len(b)) /\ (i <= Len(a) <=> i < p)
    BY <1>0, <1>1, <1>2
  <2>2. CASE i < p
    BY <2>1, <2>2, <1>0, <1>1, <1>4
  <2>3. CASE ~(i < p)
    <3>1. (a \o b)[i] = b[i - Len(a)]
      BY <2>1, <2>3, <1>4
    <3>2. i - Len(a) \in 1..(Len(s)-p) /\ p + (i - Len(a)) = i+1
      BY <2>3, <1>0, <1>1
    <3> QED BY <3>1, <3>2, <1>2, <2>3
  <2> QED BY <2>2, <2>3
<1> QED BY <1>0, <1>1, <1>2, <1>3, <1>4, <1>5

LEMMA FrontFacts ==
  ASSUME NEW S, NEW s \in Seq(S), s # << >>
  PROVE  /\ Front(s) \in Seq(S)
         /\ Len(s) \in 1..Len(s)
         /\ Last(s) = s[Len(s)]
         /\ Len(Front(s)) = Len(s) - 1
         /\ \A i \in 1..(Len(s)-1) : Front(s)[i] = s[i]
<1>1. Len(s) \in Nat /\ Len(s) >= 1
  OBVIOUS
<1> DEFINE a == SubSeq(s, 1, Len(s)-1)
<1>2. \A i \in 1..(Len(s)-1) : s[i] \in S
  BY <1>1
<1>3. /\ a \in Seq(S)
      /\ Len(a) = IF 1 <= Len(s)-1 THEN (Len(s)-1)-1+1 ELSE 0
      /\ \A i \in 1..((Len(s)-1)-1+1) : a[i] = s[1+i-1]
  BY <1>1, <1>2, SubSeqProperties
<1>4. Front(s) = a /\ Last(s) = s[Len(s)]
  BY DEF Front, Last
<1> HIDE DEF a
<1> QED BY <1>1, <1>3, <1>4
-----------------------------------------------------------------------------
(***************************************************************************)
(* The same operations on a list without repetitions, as a set of nodes.   *)
(***************************************************************************)
LEMMA ConsSet ==
  ASSUME NEW S, NEW s \in Seq(S), NEW x \in S, x \notin ToSet(s), IsInjective(s)
  PROVE  ToSet(Cons(x, s)) = ToSet(s) \cup {x} /\ IsInjective(Cons(x, s))
<1> DEFINE t == Cons(x, s)
<1>1. t \in Seq(S) /\ Len(t) = Len(s) + 1 /\ t[1] = x
  BY ConsFacts
<1>2. \A i \in 1..Len(s) : t[i+1] = s[i]
  BY ConsFacts
<1> HIDE DEF t
<1>3. DOMAIN s = 1..Len(s) /\ DOMAIN t = 1..Len(t) /\ Len(s) \in Nat
  BY <1>1
<1>4. ASSUME NEW i \in DOMAIN t
      PROVE  i = 1 \/ (i-1 \in DOMAIN s /\ t[i] = s[i-1])
  <2>1. CASE i = 1
    BY <2>1
  <2>2. CASE i # 1
    <3>1. i-1 \in 1..Len(s) /\ (i-1)+1 = i
      BY <2>2, <1>1, <1>3
    <3>2. t[(i-1)+1] = s[i-1]
      BY <3>1, <1>2
    <3> QED BY <3>1, <3>2, <1>3
  <2> QED BY <2>1, <2>2
<1>5. 1 \in DOMAIN t /\ \A i \in DOMAIN s : i+1 \in DOMAIN t /\ t[i+1] = s[i]
  BY <1>1, <1>2, <1>3
<1>6. ToSet(t) = ToSet(s) \cup {x}
  <2>1. \A i \in DOMAIN t : t[i] = x \/ \E j \in DOMAIN s : t[i] = s[j]
    BY <1>1, <1>4
  <2>2. \A j \in DOMAIN s : \E i \in DOMAIN t : t[i] = s[j]
    BY <1>5
  <2>3. \E i \in DOMAIN t : t[i] = x
    BY <1>1, <1>5
  <2> QED BY <2>1, <2>2, <2>3 DEF ToSet
<1>7. ASSUME NEW i \in DOMAIN t, NEW j \in DOMAIN t, t[i] = t[j]
      PROVE  i = j
  <2>1. \A h \in DOMAIN t : h \in Nat /\ (h # 1 => t[h] # x)
    BY <1>3, <1>4 DEF ToSet
  <2>2. CASE i # 1 /\ j # 1
    BY <2>1, <2>2, <1>4, <1>7 DEF IsInjective
  <2> QED BY <2>1, <2>2, <1>1, <1>7
<1> QED BY <1>6, <1>7 DEF t, IsInjective

LEMMA RemoveAtSet ==
  ASSUME NEW S, NEW s \in Seq(S), NEW p \in 1..Len(s), IsInjective(s)
  PROVE  /\ ToSet(RemoveAt(s, p)) = ToSet(s) \ {s[p]}
         /\ IsInjective(RemoveAt(s, p))
<1> DEFINE t == RemoveAt(s, p)
           from(i) == IF i < p THEN i ELSE i+1
<1>1. t \in Seq(S) /\ Len(t) = Len(s) - 1
  BY RemoveAtFacts
<1>2. \A i \in 1..(Len(s)-1) : t[i] = IF i < p THEN s[i] ELSE s[i+1]
  BY RemoveAtFacts
<1> HIDE DEF t
<1>3. /\ DOMAIN s = 1..Len(s) /\ DOMAIN t = 1..(Len(s)-1)
      /\ Len(s) \in Nat /\ p \in Nat /\ p <= Len(s) /\ 1 <= p
  BY <1>1
<1>4. ASSUME NEW i \in DOMAIN t
      PROVE  from(i) \in DOMAIN s /\ from(i) # p /\ t[i] = s[from(i)]
  <2>1. t[i] = IF i < p THEN s[i] ELSE s[i+1]
    BY <1>2, <1>3
  <2> QED BY <2>1, <1>3
<1>5. ASSUME NEW i \in DOMAIN t, NEW j \in DOMAIN t, from(i) = from(j)
      PROVE  i = j
  BY <1>3, <1>5
<1>6. ASSUME NEW j \in DOMAIN s, j # p
      PROVE  \E i \in DOMAIN t : from(i) = j
  <2>1. CASE j < p
    BY <2>1, <1>3
  <2>2. CASE j > p
    <3>1. j-1 \in DOMAIN t /\ from(j-1) = j
      BY <2>2, <1>3
    <3> QED BY <3>1
  <2> QED BY <2>1, <2>2, <1>3, <1>6
<1>7. p \in DOMAIN s
  BY <1>3
<1> HIDE DEF from
<1>8. ToSet(t) = ToSet(s) \ {s[p]}
  <2>1. \A i \in DOMAIN t : t[i] \in ToSet(s) \ {s[p]}
    BY <1>4, <1>7 DEF ToSet, IsInjective
  <2>2. ASSUME NEW j \in DOMAIN s, s[j] # s[p]
        PROVE  \E i \in DOMAIN t : t[i] = s[j]
    BY <2>2, <1>4, <1>6
  <2> QED BY <2>1, <2>2 DEF ToSet
<1>9. IsInjective(t)
  BY <1>4, <1>5 DEF IsInjective
<1> QED BY <1>8, <1>9 DEF t

LEMMA FrontSet ==
  ASSUME NEW S, NEW s \in Seq(S), s # << >>, IsInjective(s)
  PROVE  ToSet(Front(s)) = ToSet(s) \ {Last(s)} /\ IsInjective(Front(s))
<1> DEFINE t == Front(s)
           m == Len(s)
<1>1. t \in Seq(S) /\ Len(t) = m - 1 /\ m \in 1..m /\ Last(s) = s[m]
  BY FrontFacts
<1>2. \A i \in 1..(m-1) : t[i] = s[i]
  BY FrontFacts
<1> HIDE DEF t
<1>3. DOMAIN s = 1..m /\ DOMAIN t = 1..(m-1) /\ m \in Nat
  BY <1>1
<1> HIDE DEF m
<1>4. \A i \in DOMAIN t : i \in DOMAIN s /\ i # m /\ t[i] = s[i]
  BY <1>2, <1>3
<1>5. \A j \in DOMAIN s : j # m => j \in DOMAIN t
  BY <1>3
<1>6. m \in DOMAIN s
  BY <1>1, <1>3
<1> QED BY <1>1, <1>4, <1>5, <1>6 DEF t, ToSet, IsInjective
=============================================================================
