-------------------------- MODULE TileCacheRefinement --------------------------
(***************************************************************************)
(* TileCache implements LRUCache, for every set of keys, payloads and      *)
(* nodes and all limits.  What the abstract cache sees is what remains     *)
(* when the put in progress has returned; the eviction loop leaves that    *)
(* alone, because the longest prefix that fits is settled when the tile is *)
(* inserted.                                                                *)
(***************************************************************************)
EXTENDS TileCacheProofs

\* The running totals of a list are those of any longer one.
LEMMA SumsOfPrefix ==
  ASSUME NEW s \in Seq(Nat), NEW t \in Seq(Nat), Len(t) <= Len(s),
         \A i \in 1..Len(t) : t[i] = s[i]
  PROVE  \A i \in 0..Len(t) : PrefixSums(t)[i] = PrefixSums(s)[i]
<1> DEFINE r == PrefixSums(s)
           f == [i \in 0..Len(t) |-> r[i]]
<1>1. /\ Len(s) \in Nat /\ Len(t) \in Nat
      /\ r[0] = 0 /\ \A j \in 1..Len(s) : r[j] = r[j-1] + s[j]
  BY PrefixSumsStep
<1> HIDE DEF r
<1>2. ASSUME NEW i \in 0..Len(t)
      PROVE  f[i] = IF i = 0 THEN 0 ELSE f[i-1] + t[i]
  <2>1. CASE i = 0
    BY <1>1, <2>1
  <2>2. CASE i # 0
    <3>1. i \in 1..Len(t) /\ i \in 1..Len(s) /\ i-1 \in 0..Len(t)
      BY <1>1, <2>2
    <3>2. f[i] = r[i] /\ f[i-1] = r[i-1] /\ r[i] = r[i-1] + s[i] /\ t[i] = s[i]
      BY <1>1, <3>1
    <3> QED BY <2>2, <3>2
  <2> QED BY <2>1, <2>2
<1>3. IsRun(f, t, Len(t))
  BY <1>2 DEF IsRun
<1>4. PrefixSums(t) = f
  BY <1>3, PrefixSumsIntro
<1> QED BY <1>4 DEF r
-----------------------------------------------------------------------------
(* The longest prefix that fits *)

\* How many elements of a list of sizes s, of len elements, may be kept.
Fits(s, len) == {n \in 0..len : n <= MaxEntries /\ PrefixSums(s)[n] <= MaxBytes}

Longest(s, len) == LET fits == Fits(s, len) IN CHOOSE n \in fits : \A m \in fits : m <= n

LEMMA LongestFits ==
  ASSUME NEW s \in Seq(Nat)
  PROVE  /\ Longest(s, Len(s)) \in Fits(s, Len(s))
         /\ Longest(s, Len(s)) \in 0..Len(s)
         /\ \A m \in Fits(s, Len(s)) : m <= Longest(s, Len(s))
<1> DEFINE F == Fits(s, Len(s))
           T == {Len(s) - n : n \in F}
<1>1. Len(s) \in Nat /\ F \subseteq 0..Len(s)
  BY DEF Fits
<1>2. 0 \in F
  <2>1. PrefixSums(s)[0] = 0
    BY PrefixSumsStep
  <2>2. 0 \in 0..Len(s) /\ 0 <= MaxEntries /\ 0 <= MaxBytes
    BY <1>1, CacheAssumption
  <2> QED BY <2>1, <2>2 DEF Fits
<1> HIDE DEF F
<1>3. T \in SUBSET Nat /\ T # {}
  BY <1>1, <1>2
<1>4. PICK x \in T : \A y \in T : x <= y
  <2> HIDE DEF T
  <2> QED BY <1>3, LeastNat
<1>5. PICK n \in F : x = Len(s) - n
  BY <1>4
<1>6. \A m \in F : m <= n
  <2> SUFFICES ASSUME NEW m \in F PROVE m <= n
    OBVIOUS
  <2>1. Len(s) - n <= Len(s) - m
    BY <1>4, <1>5
  <2> QED BY <1>1, <2>1
<1>7. Longest(s, Len(s)) \in F /\ \A m \in F : m <= Longest(s, Len(s))
  BY <1>6 DEF Longest, F
<1> QED BY <1>1, <1>7 DEF F

LEMMA LongestUnique ==
  ASSUME NEW s \in Seq(Nat), NEW n \in Fits(s, Len(s)), \A m \in Fits(s, Len(s)) : m <= n
  PROVE  Longest(s, Len(s)) = n
<1>1. /\ Longest(s, Len(s)) \in Fits(s, Len(s))
      /\ n <= Longest(s, Len(s)) /\ Longest(s, Len(s)) <= n
  BY LongestFits
<1>2. \A m \in Fits(s, Len(s)) : m \in Int
  BY DEF Fits
<1> QED BY <1>1, <1>2

\* A prefix that holds all that fits has the same longest fitting prefix.
LEMMA LongestOfPrefix ==
  ASSUME NEW s \in Seq(Nat), NEW t \in Seq(Nat), Len(t) <= Len(s),
         \A i \in 1..Len(t) : t[i] = s[i],
         Longest(s, Len(s)) <= Len(t)
  PROVE  Longest(t, Len(t)) = Longest(s, Len(s))
<1> DEFINE n == Longest(s, Len(s))
<1>1. n \in Fits(s, Len(s)) /\ \A m \in Fits(s, Len(s)) : m <= n
  BY LongestFits
<1>2. Len(s) \in Nat /\ Len(t) \in Nat
  OBVIOUS
<1>3. \A i \in 0..Len(t) : PrefixSums(t)[i] = PrefixSums(s)[i]
  BY SumsOfPrefix
<1> HIDE DEF n
<1>4. \A m \in Fits(t, Len(t)) : m \in Fits(s, Len(s))
  BY <1>2, <1>3 DEF Fits
<1>5. n \in Fits(t, Len(t))
  <2>1. n \in 0..Len(t)
    BY <1>1, <1>2 DEF Fits, n
  <2> QED BY <1>1, <1>3, <2>1 DEF Fits
<1> QED BY <1>1, <1>4, <1>5, LongestUnique DEF n
-----------------------------------------------------------------------------
(* What the cache settles to *)

Keys(l, e, n) == [i \in 1..n |-> e[l[i]].key]

Store(l, m, e, n) ==
  [k \in Key |-> IF \E i \in 1..n : l[i] = m[k] THEN e[m[k]].data ELSE NoData]

\* The map and the list of a cache, and what is true of them.
LEMMA Shape ==
  ASSUME IInv
  PROVE  /\ Wf(cache_list, cache_map, entry)
         /\ Len(cache_list) \in Nat
         /\ Sizes(cache_list, entry) \in Seq(Nat)
         /\ Len(Sizes(cache_list, entry)) = Len(cache_list)
         /\ current_size_bytes = PrefixSums(Sizes(cache_list, entry))[Len(cache_list)]
         /\ current_size_bytes \in Nat
<1>1. Wf(cache_list, cache_map, entry) /\ current_size_bytes = SumSeq(Sizes(cache_list, entry))
  BY IInvAsWf
<1>2. /\ Sizes(cache_list, entry) \in Seq(Nat)
      /\ Len(Sizes(cache_list, entry)) = Len(cache_list)
  BY <1>1, SizesFacts DEF Wf
<1>3. cache_list \in Seq(Node)
  BY <1>1 DEF Wf
<1> QED BY <1>1, <1>2, <1>3, IInvAsWf DEF SumSeq

LEMMA ShapeNext ==
  ASSUME IInv, [Next]_vars
  PROVE  /\ Wf(cache_list', cache_map', entry')
         /\ Len(cache_list') \in Nat
         /\ Sizes(cache_list', entry') \in Seq(Nat)
         /\ Len(Sizes(cache_list', entry')) = Len(cache_list')
<1>1. IInv'
  BY StepIInv
<1>2. Wf(cache_list', cache_map', entry')
  BY <1>1 DEF IInv, TypeOK, MapMatchesList, Accounting, Wf, Found
<1> QED BY <1>2, SizesFacts DEF Wf

LEMMA Settled ==
  /\ SettledLen = IF inserting = Idle THEN Len(cache_list)
                  ELSE Longest(Sizes(cache_list, entry), Len(cache_list))
  /\ SettledOrder = Keys(cache_list, entry, SettledLen)
  /\ SettledStore = Store(cache_list, cache_map, entry, SettledLen)
<1>1. ListSizes = Sizes(cache_list, entry)
  BY DEF ListSizes, Sizes
<1> QED BY <1>1 DEF SettledLen, SettledOrder, SettledStore, Longest, Fits, Keys, Store

LEMMA SettledNext ==
  /\ SettledLen' = IF inserting' = Idle THEN Len(cache_list')
                   ELSE Longest(Sizes(cache_list', entry'), Len(cache_list'))
  /\ SettledOrder' = Keys(cache_list', entry', SettledLen')
  /\ SettledStore' = Store(cache_list', cache_map', entry', SettledLen')
<1>1. ListSizes' = Sizes(cache_list', entry')
  BY DEF ListSizes, Sizes
<1> QED BY <1>1 DEF SettledLen, SettledOrder, SettledStore, Longest, Fits, Keys, Store
-----------------------------------------------------------------------------
(* The eviction loop *)

\* A round removes a node beyond the longest prefix that fits.
LEMMA EvictLruKeeps ==
  ASSUME IInv, EvictLru
  PROVE  /\ SettledLen' = SettledLen
         /\ SettledLen \in 0..(Len(cache_list) - 1)
         /\ Len(cache_list') = Len(cache_list) - 1
         /\ UNCHANGED <<SettledOrder, SettledStore>>
<1> DEFINE l == cache_list
           n == Last(l)
           s == Sizes(l, entry)
           t == Sizes(cache_list', entry')
           len == Len(l)
<1>1. /\ Wf(l, cache_map, entry) /\ len \in Nat /\ s \in Seq(Nat) /\ Len(s) = len
      /\ current_size_bytes = PrefixSums(s)[len]
  BY Shape
<1>2. /\ inserting # Idle /\ inserting' = inserting
      /\ ShouldEvict /\ l # << >>
      /\ cache_map' = [cache_map EXCEPT ![entry[n].key] = NoNode]
      /\ cache_list' = Front(l)
      /\ entry' = [entry EXCEPT ![n] = Freed]
  BY DEF EvictLru
<1>3. /\ len \in 1..len /\ n = l[len]
      /\ cache_list' \in Seq(Node) /\ Len(cache_list') = len - 1
      /\ \A i \in 1..(len - 1) : cache_list'[i] = l[i]
  BY <1>1, <1>2, FrontFacts DEF Wf
<1>4. ASSUME NEW i \in 1..(len - 1)
      PROVE  l[i] \in Node /\ l[i] # n /\ entry'[cache_list'[i]] = entry[l[i]]
  <2>1. i \in DOMAIN l /\ len \in DOMAIN l /\ i # len
    BY <1>1, <1>3 DEF Wf
  <2>2. l[i] \in Node /\ l[i] # n
    BY <1>1, <1>3, <2>1 DEF Wf, IsInjective
  <2> QED BY <1>1, <1>2, <1>3, <2>2 DEF Wf
<1>5. /\ t \in Seq(Nat) /\ Len(t) = len - 1
      /\ \A i \in 1..(len - 1) : t[i] = s[i]
  <2>1. t \in Seq(Nat) /\ Len(t) = len - 1
    BY <1>3, ShapeNext DEF Next
  <2>2. ASSUME NEW i \in 1..(len - 1)
        PROVE  t[i] = s[i]
    <3>1. i \in DOMAIN l /\ i \in DOMAIN cache_list'
      BY <1>1, <1>3
    <3> QED BY <1>4, <3>1 DEF Sizes
  <2> QED BY <2>1, <2>2
<1> DEFINE k == Longest(s, len)
<1> HIDE DEF n, s, t, len, k
<1>6. k \in Fits(s, len) /\ k \in 0..(len - 1)
  <2>1. k \in Fits(s, len) /\ k \in 0..len
    BY <1>1, LongestFits DEF k
  <2>2. k # len
    <3>1. len > MaxEntries \/ PrefixSums(s)[len] > MaxBytes
      BY <1>1, <1>2 DEF ShouldEvict, len, l
    <3>2. PrefixSums(s)[len] \in Nat
      BY <1>1, Shape
    <3> QED BY <1>1, <2>1, <3>1, <3>2, CacheAssumption DEF Fits
  <2> QED BY <1>1, <2>1, <2>2
<1>7. Longest(t, Len(t)) = k
  BY <1>1, <1>5, <1>6, LongestOfPrefix DEF k
<1>8. SettledLen = k /\ SettledLen' = k
  BY <1>2, <1>3, <1>5, <1>7, Settled, SettledNext DEF k, s, len, t, l
<1>9. \A i \in 1..k : i \in 1..(len - 1)
  BY <1>1, <1>6
<1>10. SettledOrder' = SettledOrder
  <2>1. \A i \in 1..k : entry'[cache_list'[i]].key = entry[l[i]].key
    BY <1>4, <1>9
  <2> QED BY <1>8, <2>1, Settled, SettledNext DEF Keys
<1>11. SettledStore' = SettledStore
  <2>1. ASSUME NEW x \in Key
        PROVE  Store(cache_list', cache_map', entry', k)[x] = Store(l, cache_map, entry, k)[x]
    <3>1. /\ n \in ToSet(l) /\ n \in Node /\ entry[n].key \in Key /\ cache_map[entry[n].key] = n
          /\ cache_map \in [Key -> Node \cup {NoNode}]
          /\ cache_map[x] = n => x = entry[n].key
      <4>1. n \in ToSet(l) /\ n \in Node
        BY <1>1, <1>3 DEF Wf, ToSet, len
      <4>2. entry[n] \in TileEntry
        BY <1>1, <4>1 DEF Wf
      <4> QED BY <1>1, <4>1, <4>2, CacheAssumption DEF Wf, TileEntry
    <3>2. \A i \in 1..k : l[i] \in Node /\ l[i] # n /\ cache_list'[i] = l[i]
                          /\ entry'[l[i]] = entry[l[i]]
      BY <1>3, <1>4, <1>9
    <3>3. CASE x = entry[n].key
      <4>1. cache_map[x] = n /\ cache_map'[x] = NoNode
        BY <1>2, <3>1, <3>3
      <4> QED BY <3>2, <4>1, CacheAssumption DEF Store
    <3>4. CASE x # entry[n].key
      <4>1. cache_map'[x] = cache_map[x]
        BY <1>2, <3>1, <3>4
      <4> QED BY <3>2, <4>1 DEF Store
    <3> QED BY <3>3, <3>4
  <2> QED BY <1>8, <2>1, Settled, SettledNext DEF Store
<1> QED BY <1>1, <1>3, <1>6, <1>8, <1>10, <1>11 DEF len

\* A put returns when all that is left fits.
LEMMA PutReturnKeeps ==
  ASSUME IInv, PutReturn
  PROVE  /\ SettledLen = Len(cache_list) /\ SettledLen' = Len(cache_list)
         /\ UNCHANGED <<SettledOrder, SettledStore>>
<1> DEFINE s == Sizes(cache_list, entry)
           len == Len(cache_list)
<1>1. /\ len \in Nat /\ s \in Seq(Nat) /\ Len(s) = len
      /\ current_size_bytes = PrefixSums(s)[len] /\ current_size_bytes \in Nat
  BY Shape
<1>2. /\ inserting # Idle /\ inserting' = Idle /\ ~ ShouldEvict
      /\ cache_list' = cache_list /\ cache_map' = cache_map /\ entry' = entry
  BY DEF PutReturn, lru
<1> HIDE DEF s, len
<1>3. len \in Fits(s, len) /\ \A m \in Fits(s, len) : m <= len
  BY <1>1, <1>2, CacheAssumption DEF ShouldEvict, Fits, len
<1>4. Longest(s, len) = len
  BY <1>1, <1>3, LongestUnique
<1>5. SettledLen = len /\ SettledLen' = len
  BY <1>2, <1>4, Settled, SettledNext DEF s, len
<1> QED BY <1>2, <1>5, Settled, SettledNext DEF len

\* The tiles that a put will have left are settled when it begins its loop: no
\* round takes one of them, in any cache (cache.cpp:217-219, 260-276).
THEOREM LoopAlwaysKeepsLongestPrefix == Spec => LoopKeepsLongestPrefix
<1>1. IInv /\ [Next]_vars => [inserting # Idle => UNCHANGED <<SettledOrder, SettledStore>>]_vars
  <2> SUFFICES ASSUME IInv, Next, inserting # Idle
               PROVE  UNCHANGED <<SettledOrder, SettledStore>>
    OBVIOUS
  <2>1. CASE EvictLru
    BY <2>1, EvictLruKeeps
  <2>2. CASE PutReturn
    BY <2>2, PutReturnKeeps
  <2> QED BY <2>1, <2>2 DEF Next, GetMiss, GetHit, Evict, PutUpdate, PutInsert, Clear, ResetStats,
                            Locked
<1>2. Spec => [][Next]_vars
  BY DEF Spec
<1> QED BY <1>1, <1>2, Invariance, PTL DEF LoopKeepsLongestPrefix
-----------------------------------------------------------------------------
(* The operations *)

LEMMA NoneLeft ==
  ASSUME NEW a \in 0..(CounterMod - 1), NEW n \in Nat
  PROVE  (a + n - n) % CounterMod = a
<1>1. a + n - n = a
  OBVIOUS
<1>2. a % CounterMod = a
  BY CacheAssumption
<1> QED BY <1>1, <1>2

\* Outside put nothing is left to evict.
LEMMA Outside ==
  ASSUME IInv, inserting = Idle
  PROVE  /\ SettledLen = Len(cache_list)
         /\ SettledOrder = Keys(cache_list, entry, Len(cache_list))
         /\ SettledStore = Store(cache_list, cache_map, entry, Len(cache_list))
         /\ (evictions + Len(cache_list) - SettledLen) % CounterMod = evictions
<1>1. evictions \in 0..(CounterMod - 1) /\ Len(cache_list) \in Nat
  BY Shape DEF IInv, TypeOK
<1>2. (evictions + Len(cache_list) - Len(cache_list)) % CounterMod = evictions
  BY <1>1, NoneLeft
<1> QED BY <1>2, Settled

LEMMA OutsideNext ==
  ASSUME IInv, [Next]_vars, inserting' = Idle
  PROVE  /\ SettledLen' = Len(cache_list')
         /\ SettledOrder' = Keys(cache_list', entry', Len(cache_list'))
         /\ SettledStore' = Store(cache_list', cache_map', entry', Len(cache_list'))
         /\ (evictions' + Len(cache_list') - SettledLen') % CounterMod = evictions'
<1>1. evictions' \in 0..(CounterMod - 1) /\ Len(cache_list') \in Nat
  BY StepIInv, ShapeNext DEF IInv, TypeOK
<1>2. (evictions' + Len(cache_list') - Len(cache_list')) % CounterMod = evictions'
  BY <1>1, NoneLeft
<1> QED BY <1>2, SettledNext

\* What a well formed list says of the node at one place.
LEMMA NodeFacts ==
  ASSUME NEW l, NEW m, NEW e, Wf(l, m, e), NEW i \in 1..Len(l)
  PROVE  l[i] \in Node /\ e[l[i]] \in TileEntry /\ m[e[l[i]].key] = l[i]
<1>1. l \in Seq(Node) /\ DOMAIN l = 1..Len(l)
  BY DEF Wf
<1>2. l[i] \in Node /\ l[i] \in ToSet(l)
  BY <1>1 DEF ToSet
<1> QED BY <1>2 DEF Wf

\* The keys in order, and what is stored under each.
LEMMA KeysFacts ==
  ASSUME NEW l, NEW m, NEW e, Wf(l, m, e)
  PROVE  LET len == Len(l)
             order == Keys(l, e, len)
         IN  /\ len \in Nat
             /\ order \in Seq(Key) /\ Len(order) = len
             /\ \A i \in 1..len : /\ order[i] = e[l[i]].key
                                  /\ l[i] \in Node /\ e[l[i]] \in TileEntry
                                  /\ m[order[i]] = l[i]
             /\ \A i, j \in 1..len : order[i] = order[j] => i = j
<1> DEFINE len == Len(l)
           order == Keys(l, e, len)
<1>1. len \in Nat /\ DOMAIN l = 1..len /\ l \in Seq(Node)
  BY DEF Wf
<1>2. ASSUME NEW i \in 1..len
      PROVE  /\ order[i] = e[l[i]].key /\ order[i] \in Key
             /\ l[i] \in Node /\ e[l[i]] \in TileEntry
             /\ m[order[i]] = l[i]
  <2>1. l[i] \in Node /\ e[l[i]] \in TileEntry /\ m[e[l[i]].key] = l[i]
    BY NodeFacts
  <2> QED BY <2>1 DEF Keys, TileEntry
<1>3. order \in Seq(Key) /\ Len(order) = len
  BY <1>1, <1>2 DEF Keys
<1>4. \A i, j \in 1..len : order[i] = order[j] => i = j
  BY <1>1, <1>2 DEF Wf, IsInjective
<1> QED BY <1>1, <1>2, <1>3, <1>4

LEMMA StoreFacts ==
  ASSUME NEW l, NEW m, NEW e, Wf(l, m, e), NEW k \in Key
  PROVE  /\ m[k] = NoNode => Store(l, m, e, Len(l))[k] = NoData
         /\ m[k] # NoNode => Store(l, m, e, Len(l))[k] = e[m[k]].data
         /\ Store(l, m, e, Len(l))[k] # NoData <=> m[k] # NoNode
<1>1. DOMAIN l = 1..Len(l) /\ l \in Seq(Node)
  BY DEF Wf
<1>2. CASE m[k] = NoNode
  <2>1. \A i \in 1..Len(l) : l[i] # NoNode
    BY <1>1, CacheAssumption
  <2> QED BY <1>2, <2>1 DEF Store
<1>3. CASE m[k] # NoNode
  <2>1. m[k] \in ToSet(l) /\ m[k] \in Node
    BY <1>3 DEF Wf
  <2>2. \E i \in 1..Len(l) : l[i] = m[k]
    BY <1>1, <2>1 DEF ToSet
  <2>3. e[m[k]] \in TileEntry
    BY <2>1 DEF Wf
  <2> QED BY <1>3, <2>2, <2>3, CacheAssumption DEF Store, TileEntry
<1> QED BY <1>2, <1>3

LEMMA CachedIsFound ==
  ASSUME IInv, inserting = Idle, NEW k \in Key
  PROVE  /\ LRU!Cached(k) <=> Found(k)
         /\ Found(k) => SettledStore[k] = entry[cache_map[k]].data
BY Outside, Shape, StoreFacts DEF LRU!Cached, Found

\* The operators of LRUCache are those of this module.
LEMMA SameSums == \A s : LRU!PrefixSums(s) = PrefixSums(s)
BY DEF PrefixSums, LRU!PrefixSums

LEMMA SameRemove == \A s, i : LRU!RemoveAt(s, i) = RemoveAt(s, i)
BY DEF RemoveAt, LRU!RemoveAt

\* The place of a cached key in the order is that of its node in the list.
LEMMA DroppedIs ==
  ASSUME IInv, inserting = Idle, NEW k \in Key, Found(k)
  PROVE  LRU!Dropped(k) = RemoveAt(SettledOrder, PositionOf(cache_map[k]))
<1> DEFINE p == PositionOf(cache_map[k])
<1>1. p \in 1..Len(cache_list) /\ cache_list[p] = cache_map[k] /\ entry[cache_map[k]].key = k
  BY FoundFacts DEF IInv
<1> HIDE DEF p
<1>2. /\ DOMAIN SettledOrder = 1..Len(cache_list)
      /\ \A i \in 1..Len(cache_list) : SettledOrder[i] = entry[cache_list[i]].key
      /\ \A i, j \in 1..Len(cache_list) : SettledOrder[i] = SettledOrder[j] => i = j
  BY Outside, Shape, KeysFacts DEF Keys
<1>3. (CHOOSE i \in DOMAIN SettledOrder : SettledOrder[i] = k) = p
  BY <1>1, <1>2
<1> QED BY <1>3, SameRemove DEF LRU!Dropped, p

LEMMA ConsKey ==
  ASSUME NEW k \in Key, NEW r \in Seq(Key)
  PROVE  /\ Cons(k, r) \in Seq(Key) /\ Len(Cons(k, r)) = Len(r) + 1 /\ Cons(k, r)[1] = k
         /\ \A i \in 1..Len(r) : Cons(k, r)[i+1] = r[i]
<1>1. Cons(k, r) \in Seq(Key) /\ Len(Cons(k, r)) = Len(r) + 1 /\ Cons(k, r)[1] = k
  BY ConsFacts
<1>2. \A i \in 1..Len(r) : Cons(k, r)[i+1] = r[i]
  BY ConsFacts
<1> QED BY <1>1, <1>2

\* A look-up or an update takes its node to the front and its payload to d.
LEMMA Touched ==
  ASSUME IInv, [Next]_vars, inserting = Idle, inserting' = Idle,
         NEW k \in Key, Found(k), NEW d,
         cache_list' = MoveToFront(cache_map[k]), cache_map' = cache_map,
         \A x \in Node : x # cache_map[k] => entry'[x] = entry[x],
         entry'[cache_map[k]].key = k, entry'[cache_map[k]].data = d
  PROVE  /\ LRU!Cached(k)
         /\ SettledOrder' = LRU!Refreshed(k)
         /\ SettledStore' = [SettledStore EXCEPT ![k] = d]
<1> DEFINE n == cache_map[k]
           p == PositionOf(n)
           l == cache_list
           t == cache_list'
           len == Len(l)
           order == SettledOrder
           r == RemoveAt(order, p)
<1>1. /\ n \in Node /\ p \in 1..len /\ l[p] = n /\ entry[n].key = k
  BY FoundFacts DEF IInv
<1>2. /\ Len(t) = len /\ t[1] = n
      /\ \A i \in 2..len : t[i] = IF i <= p THEN l[i-1] ELSE l[i]
  BY MoveToFrontFacts DEF IInv
<1>3. /\ Wf(l, cache_map, entry) /\ Wf(t, cache_map', entry') /\ len \in Nat
  BY Shape, ShapeNext
<1>4. /\ order \in Seq(Key) /\ Len(order) = len
      /\ \A i \in 1..len : order[i] = entry[l[i]].key /\ l[i] \in Node
  BY <1>3, Outside, KeysFacts
<1>5. /\ SettledOrder' = Keys(t, entry', len)
      /\ SettledStore' = Store(t, cache_map', entry', Len(t))
      /\ SettledStore = Store(l, cache_map, entry, Len(l))
  BY <1>2, Outside, OutsideNext
<1> HIDE DEF n, p, l, t, len, order
<1>6. /\ r \in Seq(Key) /\ Len(r) = len - 1
      /\ \A i \in 1..(len - 1) : r[i] = IF i < p THEN order[i] ELSE order[i+1]
  BY <1>1, <1>4, RemoveAtFacts
<1> HIDE DEF r
<1>7. LRU!Refreshed(k) = Cons(k, r)
  BY DroppedIs DEF LRU!Refreshed, Cons, r, p, n, order
<1>8. /\ Cons(k, r) \in Seq(Key) /\ Len(Cons(k, r)) = len /\ Cons(k, r)[1] = k
      /\ \A i \in 1..(len - 1) : Cons(k, r)[i+1] = r[i]
  <2>1. r \in Seq(Key) /\ Len(r) = len - 1
    BY <1>6
  <2>2. Cons(k, r) \in Seq(Key) /\ Len(Cons(k, r)) = Len(r) + 1 /\ Cons(k, r)[1] = k
    BY ONLY <2>1, ConsKey
  <2>3. \A i \in 1..Len(r) : Cons(k, r)[i+1] = r[i]
    BY ONLY <2>1, ConsKey
  <2>4. (len - 1) + 1 = len
    BY <1>3
  <2> QED BY <2>1, <2>2, <2>3, <2>4
<1>9. \A x \in Node : entry'[x].key = entry[x].key
  BY <1>1 DEF n
<1>10. ASSUME NEW i \in 1..len
       PROVE  Keys(t, entry', len)[i] = Cons(k, r)[i]
  <2>1. CASE i = 1
    BY <1>1, <1>2, <1>8, <2>1 DEF Keys, n
  <2>2. CASE i # 1
    <3>1. i \in 2..len /\ i-1 \in 1..(len - 1) /\ i-1 \in 1..len /\ (i-1)+1 = i
          /\ (i <= p <=> i-1 < p)
      BY <1>1, <1>3, <2>2
    <3>2. Cons(k, r)[i] = IF i <= p THEN order[i-1] ELSE order[i]
      BY <1>6, <1>8, <3>1
    <3>3. Keys(t, entry', len)[i] = entry'[IF i <= p THEN l[i-1] ELSE l[i]].key
      BY <1>2, <3>1 DEF Keys
    <3> QED BY <1>4, <1>9, <3>1, <3>2, <3>3
  <2> QED BY <2>1, <2>2
<1>11. Keys(t, entry', len) = Cons(k, r)
  <2>1. Keys(t, entry', len) = [i \in 1..len |-> Keys(t, entry', len)[i]]
    BY DEF Keys
  <2>2. Cons(k, r) = [i \in 1..len |-> Cons(k, r)[i]]
    BY <1>8
  <2> QED BY <1>10, <2>1, <2>2
<1>12. ASSUME NEW x \in Key
       PROVE  SettledStore'[x] = IF x = k THEN d ELSE SettledStore[x]
  <2>1. /\ cache_map[x] = NoNode => SettledStore[x] = NoData /\ SettledStore'[x] = NoData
        /\ cache_map[x] # NoNode => /\ SettledStore[x] = entry[cache_map[x]].data
                                    /\ SettledStore'[x] = entry'[cache_map[x]].data
    BY <1>3, <1>5, StoreFacts
  <2>2. cache_map[k] # NoNode
    BY DEF Found
  <2>3. CASE x = k
    BY <2>1, <2>2, <2>3
  <2>4. CASE x # k /\ cache_map[x] # NoNode
    <3>1. cache_map[x] \in Node /\ entry[cache_map[x]].key = x
      BY <1>3, <2>4 DEF Wf
    <3>2. cache_map[x] # n
      BY <1>1, <2>4, <3>1
    <3> QED BY <2>1, <2>4, <3>1, <3>2 DEF n
  <2> QED BY <2>1, <2>3, <2>4
<1>13. SettledStore' = [SettledStore EXCEPT ![k] = d]
  <2>1. /\ SettledStore = [x \in Key |-> SettledStore[x]]
        /\ SettledStore' = [x \in Key |-> SettledStore'[x]]
    BY <1>5 DEF Store
  <2> QED BY <1>12, <2>1
<1> QED BY <1>5, <1>7, <1>11, <1>13, CachedIsFound

LEMMA GetHitImplements ==
  ASSUME IInv, NEW k \in Key, GetHit(k)
  PROVE  LRU!Hit(k)
<1> DEFINE n == cache_map[k]
           d == entry[n].data
<1>1. /\ inserting = Idle /\ inserting' = Idle /\ Found(k) /\ [Next]_vars
      /\ cache_list' = MoveToFront(n) /\ cache_map' = cache_map
      /\ entry' = [entry EXCEPT ![n].last_access = now']
      /\ hits' = Counted(hits) /\ result' = d
      /\ UNCHANGED <<misses, evictions>>
  BY DEF GetHit, Locked, Next
<1>2. n \in Node /\ entry[n] \in TileEntry /\ entry[n].key = k
  BY <1>1, FoundFacts DEF IInv
<1>3. /\ \A x \in Node : x # n => entry'[x] = entry[x]
      /\ entry'[n].key = k /\ entry'[n].data = d
  BY <1>1, <1>2 DEF IInv, TypeOK, TileEntry
<1>4. /\ LRU!Cached(k) /\ SettledOrder' = LRU!Refreshed(k)
      /\ SettledStore' = [SettledStore EXCEPT ![k] = d]
  BY <1>1, <1>3, Touched
<1>5. SettledStore[k] = d
  BY <1>1, CachedIsFound
<1>6. SettledStore' = SettledStore
  BY <1>1, <1>4, <1>5, Outside DEF Store
<1> QED BY <1>1, <1>4, <1>5, <1>6, Outside, OutsideNext DEF LRU!Hit, Counted

LEMMA PutUpdateImplements ==
  ASSUME IInv, NEW k \in Key, NEW d \in Data \cup {NoData}, PutUpdate(k, d)
  PROVE  LRU!Next
<1> DEFINE n == cache_map[k]
<1>1. /\ inserting = Idle /\ inserting' = Idle /\ Found(k) /\ d \in Data
      /\ cache_list' = MoveToFront(n) /\ cache_map' = cache_map
      /\ entry' = [entry EXCEPT ![n].data = d, ![n].size_bytes = SizeOf[d],
                                ![n].last_access = now']
      /\ UNCHANGED <<hits, misses, evictions, result>>
  BY DEF PutUpdate, Locked, stats
<1>2. n \in Node /\ entry[n] \in TileEntry /\ entry[n].key = k
  BY <1>1, FoundFacts DEF IInv
<1>3. /\ \A x \in Node : x # n => entry'[x] = entry[x]
      /\ entry'[n].key = k /\ entry'[n].data = d
  BY <1>1, <1>2 DEF IInv, TypeOK, TileEntry
<1>4. [Next]_vars
  BY DEF Next
<1>5. /\ LRU!Cached(k) /\ SettledOrder' = LRU!Refreshed(k)
      /\ SettledStore' = [SettledStore EXCEPT ![k] = d]
  BY <1>1, <1>3, <1>4, Touched
<1>6. LRU!Update(k, d)
  BY <1>1, <1>4, <1>5, Outside, OutsideNext DEF LRU!Update
<1> QED BY <1>1, <1>6 DEF LRU!Next

LEMMA GetMissImplements ==
  ASSUME IInv, NEW k \in Key, GetMiss(k)
  PROVE  LRU!Miss(k)
<1>1. /\ inserting = Idle /\ inserting' = Idle /\ ~ Found(k) /\ [Next]_vars
      /\ misses' = Counted(misses) /\ result' = NoData
      /\ cache_list' = cache_list /\ cache_map' = cache_map /\ entry' = entry
      /\ UNCHANGED <<hits, evictions>>
  BY DEF GetMiss, Locked, Next, lru
<1>2. ~ LRU!Cached(k)
  BY <1>1, CachedIsFound
<1>3. SettledOrder' = SettledOrder /\ SettledStore' = SettledStore
  BY <1>1, Outside, OutsideNext
<1> QED BY <1>1, <1>2, <1>3, Outside, OutsideNext DEF LRU!Miss, Counted

LEMMA ClearImplements ==
  ASSUME IInv, Clear
  PROVE  LRU!Empty
<1>1. /\ inserting = Idle /\ inserting' = Idle /\ [Next]_vars
      /\ cache_list' = << >> /\ cache_map' = [k \in Key |-> NoNode]
      /\ UNCHANGED <<hits, misses, evictions, result>>
  BY DEF Clear, Locked, Next, stats
<1>2. SettledOrder' = << >> /\ SettledStore' = [k \in Key |-> NoData]
  BY <1>1, OutsideNext DEF Keys, Store
<1> QED BY <1>1, <1>2, Outside, OutsideNext DEF LRU!Empty

LEMMA ResetStatsImplements ==
  ASSUME IInv, ResetStats
  PROVE  LRU!ResetStats
<1>1. /\ inserting = Idle /\ inserting' = Idle /\ [Next]_vars
      /\ hits' = 0 /\ misses' = 0 /\ evictions' = 0
      /\ cache_list' = cache_list /\ cache_map' = cache_map /\ entry' = entry
      /\ UNCHANGED result
  BY DEF ResetStats, Locked, Next, lru
<1>2. SettledOrder' = SettledOrder /\ SettledStore' = SettledStore
  BY <1>1, Outside, OutsideNext
<1> QED BY <1>1, <1>2, OutsideNext DEF LRU!ResetStats

LEMMA EvictImplements ==
  ASSUME IInv, NEW k \in Key, Evict(k)
  PROVE  LRU!Evict(k)
<1> DEFINE n == cache_map[k]
           p == PositionOf(n)
           l == cache_list
           t == cache_list'
           len == Len(l)
           order == SettledOrder
           r == RemoveAt(order, p)
<1>1. /\ inserting = Idle /\ inserting' = Idle /\ Found(k) /\ [Next]_vars
      /\ t = Erased(n) /\ cache_map' = [cache_map EXCEPT ![k] = NoNode]
      /\ entry' = [entry EXCEPT ![n] = Freed]
      /\ evictions' = Counted(evictions)
      /\ UNCHANGED <<hits, misses, result>>
  BY DEF Evict, Locked, Next
<1>2. n \in Node /\ p \in 1..len /\ l[p] = n /\ entry[n].key = k
  BY <1>1, FoundFacts DEF IInv
<1>3. /\ Len(t) = len - 1 /\ IsInjective(l) /\ l \in Seq(Node)
      /\ \A i \in 1..(len - 1) : t[i] = IF i < p THEN l[i] ELSE l[i+1]
  BY <1>1, ErasedFacts DEF IInv, MapMatchesList, TypeOK
<1>4. Wf(l, cache_map, entry) /\ Wf(t, cache_map', entry') /\ len \in Nat
  BY <1>1, Shape, ShapeNext
<1>5. /\ order \in Seq(Key) /\ Len(order) = len
      /\ \A i \in 1..len : order[i] = entry[l[i]].key /\ l[i] \in Node
  BY <1>1, <1>4, Outside, KeysFacts
<1>6. /\ SettledOrder' = Keys(t, entry', len - 1)
      /\ SettledStore' = Store(t, cache_map', entry', Len(t))
      /\ SettledStore = Store(l, cache_map, entry, Len(l))
  BY <1>1, <1>3, Outside, OutsideNext
<1>7. LRU!Dropped(k) = r
  BY <1>1, DroppedIs
<1> HIDE DEF n, p, l, t, len, order
<1>8. /\ r \in Seq(Key) /\ Len(r) = len - 1
      /\ \A i \in 1..(len - 1) : r[i] = IF i < p THEN order[i] ELSE order[i+1]
  BY <1>2, <1>5, RemoveAtFacts
<1> HIDE DEF r
<1>9. ASSUME NEW i \in 1..(len - 1)
      PROVE  Keys(t, entry', len - 1)[i] = r[i]
  <2> DEFINE j == IF i < p THEN i ELSE i+1
  <2>1. j \in 1..len /\ j # p /\ p \in 1..len
    BY <1>2, <1>4
  <2>2. t[i] = l[j] /\ r[i] = order[j]
    BY <1>3, <1>8
  <2> HIDE DEF j
  <2>3. l[j] \in Node /\ l[j] # n
    <3>1. DOMAIN l = 1..len
      BY <1>3 DEF len
    <3>2. l[j] # l[p]
      BY <1>3, <2>1, <3>1 DEF IsInjective
    <3> QED BY <1>2, <1>5, <2>1, <3>2
  <2>4. entry'[l[j]] = entry[l[j]]
    BY <1>1, <1>4, <2>3 DEF Wf
  <2> QED BY <1>5, <2>1, <2>2, <2>4 DEF Keys
<1>10. Keys(t, entry', len - 1) = r
  <2>1. Keys(t, entry', len - 1) = [i \in 1..(len - 1) |-> Keys(t, entry', len - 1)[i]]
    BY DEF Keys
  <2>2. r = [i \in 1..(len - 1) |-> r[i]]
    BY <1>8
  <2> QED BY <1>9, <2>1, <2>2
<1>11. ASSUME NEW x \in Key
       PROVE  SettledStore'[x] = IF x = k THEN NoData ELSE SettledStore[x]
  <2>1. /\ cache_map[x] = NoNode => SettledStore[x] = NoData
        /\ cache_map'[x] = NoNode => SettledStore'[x] = NoData
        /\ cache_map[x] # NoNode => SettledStore[x] = entry[cache_map[x]].data
        /\ cache_map'[x] # NoNode => SettledStore'[x] = entry'[cache_map'[x]].data
    BY <1>4, <1>6, StoreFacts
  <2>2. cache_map'[x] = IF x = k THEN NoNode ELSE cache_map[x]
    BY <1>1, <1>4 DEF Wf
  <2>3. CASE x # k /\ cache_map[x] # NoNode
    <3>1. cache_map[x] \in Node /\ entry[cache_map[x]].key = x
      BY <1>4, <2>3 DEF Wf
    <3>2. cache_map[x] # n
      BY <1>2, <2>3, <3>1
    <3>3. entry'[cache_map[x]] = entry[cache_map[x]]
      BY <1>1, <1>4, <3>1, <3>2 DEF Wf
    <3> QED BY <2>1, <2>2, <2>3, <3>3
  <2> QED BY <2>1, <2>2, <2>3
<1>12. SettledStore' = [SettledStore EXCEPT ![k] = NoData]
  <2>1. /\ SettledStore = [x \in Key |-> SettledStore[x]]
        /\ SettledStore' = [x \in Key |-> SettledStore'[x]]
    BY <1>6 DEF Store
  <2> QED BY <1>11, <2>1
<1> QED BY <1>1, <1>6, <1>7, <1>10, <1>12, CachedIsFound, Outside, OutsideNext
        DEF LRU!Evict, Counted

\* A put of a new key takes effect at once, with the tiles it will have evicted
\* when it returns.
LEMMA PutInsertImplements ==
  ASSUME IInv, NEW k \in Key, NEW d \in Data \cup {NoData}, PutInsert(k, d)
  PROVE  LRU!Next
<1> DEFINE l == cache_list
           t == cache_list'
           w == cache_map'
           f == entry'
           len == Len(l)
           order == SettledOrder
           all == [SettledStore EXCEPT ![k] = d]
           ks == <<k>> \o order
<1>1. /\ inserting = Idle /\ ~ Found(k) /\ d \in Data /\ [Next]_vars
      /\ UNCHANGED <<hits, misses, evictions, result>>
  BY DEF PutInsert, Locked, Next, stats
<1>2. inserting' # Idle
  <2>1. inserting' \in PutFrame
    BY <1>1, CacheAssumption DEF PutInsert, PutFrame, Footprint
  <2> QED BY <2>1, MarkerAssumption
<1>3. PICK n \in Node : /\ l \in Seq(Node) /\ entry[n] = Freed
                        /\ t = Cons(n, l)
                        /\ w = [cache_map EXCEPT ![k] = n]
                        /\ f[n].key = k /\ f[n].data = d
                        /\ \A x \in Node : x # n => f[x] = entry[x]
  <2> DEFINE v == [key |-> k, data |-> d, size_bytes |-> Footprint(d), last_access |-> now']
  <2>1. PICK n \in Node : /\ entry[n] = Freed
                          /\ f = [entry EXCEPT ![n] = v]
                          /\ t = Cons(n, l)
                          /\ w = [cache_map EXCEPT ![k] = n]
    BY DEF PutInsert
  <2>2. v.key = k /\ v.data = d
    OBVIOUS
  <2> HIDE DEF v
  <2>3. l \in Seq(Node) /\ entry \in [Node -> TileEntry \cup {Freed}]
    BY DEF IInv, TypeOK
  <2> QED BY <2>1, <2>2, <2>3
<1>4. Wf(l, cache_map, entry) /\ Wf(t, w, f) /\ len \in Nat
  BY <1>1, Shape, ShapeNext
<1>5. /\ Len(t) = len + 1 /\ t[1] = n
      /\ \A i \in 1..len : t[i+1] = l[i]
  BY <1>3, ConsNode, ConsNodeShift
<1>6. /\ order \in Seq(Key) /\ Len(order) = len
      /\ \A i \in 1..len : order[i] = entry[l[i]].key /\ l[i] \in Node
                           /\ entry[l[i]] \in TileEntry
      /\ SettledStore = Store(l, cache_map, entry, Len(l))
      /\ (evictions + len - SettledLen) % CounterMod = evictions
  BY <1>1, <1>4, Outside, KeysFacts
<1>7. /\ Sizes(t, f) \in Seq(Nat) /\ Len(Sizes(t, f)) = len + 1
      /\ SettledLen' = Longest(Sizes(t, f), len + 1)
      /\ SettledOrder' = Keys(t, f, SettledLen')
      /\ SettledStore' = Store(t, w, f, SettledLen')
  BY <1>1, <1>2, <1>5, ShapeNext, SettledNext
<1> HIDE DEF l, t, w, f, len, order
<1>8. /\ ks \in Seq(Key) /\ Len(ks) = len + 1 /\ ks[1] = k
      /\ \A i \in 1..len : ks[i+1] = order[i]
  <2>1. ks = Cons(k, order)
    BY DEF Cons
  <2>2. ks \in Seq(Key) /\ Len(ks) = Len(order) + 1 /\ ks[1] = k
    BY <1>6, <2>1, ConsKey
  <2>3. \A i \in 1..Len(order) : ks[i+1] = order[i]
    BY <1>6, <2>1, ConsKey
  <2> QED BY <1>6, <2>2, <2>3
<1> HIDE DEF ks, all
<1>9. ASSUME NEW i \in 1..(len + 1)
      PROVE  /\ ks[i] = f[t[i]].key /\ ks[i] \in Key /\ t[i] \in Node
             /\ w[ks[i]] = t[i] /\ f[t[i]] \in TileEntry
  <2>1. w[f[t[i]].key] = t[i] /\ t[i] \in Node /\ f[t[i]] \in TileEntry
    <3>1. i \in 1..Len(t)
      BY <1>5
    <3> QED BY <1>4, <3>1, NodeFacts
  <2>2. ks[i] = f[t[i]].key
    <3>1. CASE i = 1
      BY <1>3, <1>5, <1>8, <3>1
    <3>2. CASE i # 1
      <4>1. i-1 \in 1..len /\ (i-1)+1 = i
        BY <1>4, <3>2
      <4>2. ks[i] = entry[l[i-1]].key /\ t[i] = l[i-1]
        BY <1>5, <1>6, <1>8, <4>1
      <4>3. l[i-1] \in Node /\ l[i-1] # n
        BY <1>3, <1>6, <4>1, MarkerAssumption
      <4> QED BY <1>3, <4>2, <4>3
    <3> QED BY <3>1, <3>2
  <2> QED BY <2>1, <2>2 DEF TileEntry
<1>10. ASSUME NEW x \in Key
       PROVE  /\ w[x] = NoNode => all[x] = NoData
              /\ w[x] # NoNode => /\ all[x] = f[w[x]].data
                                  /\ w[x] \in Node /\ f[w[x]].key = x
  <2>1. /\ cache_map[x] = NoNode => SettledStore[x] = NoData
        /\ cache_map[x] # NoNode => SettledStore[x] = entry[cache_map[x]].data
    BY <1>4, <1>6, StoreFacts
  <2>2. w[x] = IF x = k THEN n ELSE cache_map[x]
    BY <1>3, <1>4 DEF Wf
  <2>3. all[x] = IF x = k THEN d ELSE SettledStore[x]
    BY <1>6 DEF all, Store
  <2>4. CASE x = k
    BY <1>3, <2>2, <2>3, <2>4, CacheAssumption
  <2>5. CASE x # k /\ cache_map[x] # NoNode
    <3>1. cache_map[x] \in Node /\ cache_map[x] # n /\ entry[cache_map[x]].key = x
      BY <1>3, <1>4, <2>5 DEF Wf
    <3> QED BY <1>3, <2>1, <2>2, <2>3, <2>5, <3>1
  <2>6. CASE x # k /\ cache_map[x] = NoNode
    BY <2>1, <2>2, <2>3, <2>6
  <2> QED BY <2>4, <2>5, <2>6
<1>11. [i \in DOMAIN ks |-> SizeOf[all[ks[i]]]] = Sizes(t, f)
  <2>1. DOMAIN ks = 1..(len + 1) /\ DOMAIN t = 1..(len + 1)
    BY <1>4, <1>5, <1>8 DEF Wf
  <2>2. ASSUME NEW i \in 1..(len + 1)
        PROVE  SizeOf[all[ks[i]]] = f[t[i]].size_bytes
    <3>1. all[ks[i]] = f[t[i]].data
      BY <1>9, <1>10, CacheAssumption
    <3>2. f[t[i]] # Freed /\ t[i] \in Node
      BY <1>9, MarkerAssumption
    <3>3. f[t[i]].size_bytes = SizeOf[f[t[i]].data]
      BY <1>4, <3>2 DEF Wf
    <3> QED BY <3>1, <3>3
  <2> QED BY <2>1, <2>2 DEF Sizes
<1> DEFINE kept == LRU!Fitting(ks, all)
           m == SettledLen'
<1>12. m \in 0..(len + 1) /\ kept = SubSeq(ks, 1, m)
  <2>1. m \in 0..(len + 1)
    BY <1>7, LongestFits
  <2>2. LRU!PrefixSums([i \in DOMAIN ks |-> SizeOf[all[ks[i]]]]) = PrefixSums(Sizes(t, f))
    BY <1>11, SameSums
  <2>3. kept = SubSeq(ks, 1, Longest(Sizes(t, f), Len(ks)))
    BY <2>2 DEF LRU!Fitting, Longest, Fits
  <2> QED BY <1>7, <1>8, <2>1, <2>3
<1> HIDE DEF kept, m
<1>13. /\ Len(kept) = m /\ DOMAIN kept = 1..m
       /\ \A i \in 1..m : i \in 1..(len + 1) /\ kept[i] = ks[i]
       /\ kept = [i \in 1..m |-> kept[i]]
  BY <1>4, <1>8, <1>12
<1>14. SettledOrder' = kept
  <2>1. \A i \in 1..m : f[t[i]].key = kept[i]
    BY <1>9, <1>13
  <2> QED BY <1>7, <1>13, <2>1 DEF Keys, m
<1>15. SettledStore' = [x \in Key |-> IF x \in ToSet(kept) THEN all[x] ELSE NoData]
  <2>1. ASSUME NEW x \in Key
        PROVE  x \in ToSet(kept) <=> \E i \in 1..m : t[i] = w[x]
    <3>1. x \in ToSet(kept) <=> \E i \in 1..m : kept[i] = x
      BY <1>13 DEF ToSet
    <3>2. ASSUME NEW i \in 1..m
          PROVE  kept[i] = x <=> t[i] = w[x]
      BY <1>9, <1>10, <1>13, CacheAssumption
    <3> QED BY <3>1, <3>2
  <2>2. ASSUME NEW x \in Key, NEW i \in 1..m, t[i] = w[x]
        PROVE  f[w[x]].data = all[x]
    BY <1>9, <1>10, <1>13, <2>2, CacheAssumption
  <2> QED BY <1>7, <2>1, <2>2 DEF Store, m
<1>16. (evictions' + Len(t) - SettledLen') % CounterMod =
         (((evictions + len - SettledLen) % CounterMod) + Len(order) + 1 - Len(kept)) % CounterMod
  <2>1. evictions \in Nat
    BY CacheAssumption DEF IInv, TypeOK
  <2>2. evictions + (len + 1) - m = evictions + len + 1 - m
    BY <1>4, <1>12, <2>1
  <2> QED BY <1>1, <1>5, <1>6, <1>13, <2>2 DEF m
<1>17. ~ LRU!Cached(k)
  BY <1>1, CachedIsFound
<1>18. SettledStore' = [x \in Key |-> IF x \in LRU!ToSet(kept) THEN all[x] ELSE NoData]
  BY <1>15 DEF LRU!ToSet, ToSet
<1>19. LRU!Insert(k, d)
  BY <1>1, <1>14, <1>16, <1>17, <1>18 DEF LRU!Insert, kept, ks, all, t, len, order, l
<1> QED BY <1>1, <1>19 DEF LRU!Next
-----------------------------------------------------------------------------
(* The loop is invisible *)

\* A remainder is the only one.
LEMMA Remainder ==
  ASSUME NEW q \in Int, NEW r \in 0..(CounterMod - 1)
  PROVE  (CounterMod * q + r) % CounterMod = r
<1> DEFINE M == CounterMod
           x == M * q + r
           p == x \div M
           s == x % M
           d == q - p
<1>1. M \in Nat /\ M > 0
  BY CacheAssumption
<1>2. M * q \in Int
  BY <1>1
<1>3. x \in Int
  BY <1>2
<1> HIDE DEF x
<1>4. p \in Int /\ s \in 0..(M - 1) /\ x = M * p + s
  BY <1>1, <1>3
<1> HIDE DEF p, s
<1>5. d \in Int /\ M * d = M * q - M * p
  BY <1>1, <1>4
<1>6. M * d = s - r /\ M * d < M /\ M * d > 0 - M
  BY <1>1, <1>2, <1>4, <1>5 DEF x
<1> HIDE DEF d
<1>7. d = 0
  <2>1. d >= 1 => M * d >= M
    BY <1>1, <1>5
  <2>2. d <= 0 - 1 => M * d <= 0 - M
    BY <1>1, <1>5
  <2> QED BY <1>1, <1>5, <1>6, <2>1, <2>2
<1>8. M * d = 0
  BY <1>1, <1>7
<1>9. s = r
  BY <1>1, <1>4, <1>6, <1>8
<1> QED BY <1>9 DEF s, x

LEMMA OneMoreEvicted ==
  ASSUME NEW a \in 0..(CounterMod - 1), NEW n \in Int
  PROVE  (((a + 1) % CounterMod) + n) % CounterMod = (a + 1 + n) % CounterMod
<1> DEFINE M == CounterMod
           p == n \div M
           r == n % M
<1>1. M \in Nat /\ M > 0
  BY CacheAssumption
<1>2. CASE a + 1 < M
  <2>1. (a + 1) % M = a + 1
    BY <1>1, <1>2
  <2> QED BY <2>1
<1>3. CASE a + 1 = M
  <2>1. (a + 1) % M = 0
    BY <1>1, <1>3
  <2>2. p \in Int /\ r \in 0..(M - 1) /\ n = M * p + r
    BY <1>1
  <2> HIDE DEF p, r
  <2>3. M * (p + 1) + r = a + 1 + n /\ p + 1 \in Int
    BY <1>1, <1>3, <2>2
  <2>4. (a + 1 + n) % M = r
    BY <2>2, <2>3, Remainder
  <2> QED BY <2>1, <2>4 DEF r
<1> QED BY <1>1, <1>2, <1>3

LEMMA EvictLruStutters ==
  ASSUME IInv, EvictLru
  PROVE  UNCHANGED LRU!vars
<1> DEFINE len == Len(cache_list)
           m == SettledLen
<1>1. /\ SettledLen' = m /\ m \in 0..(len - 1) /\ len \in Nat
      /\ Len(cache_list') = len - 1
      /\ UNCHANGED <<SettledOrder, SettledStore>>
  BY EvictLruKeeps, Shape
<1>2. /\ evictions' = (evictions + 1) % CounterMod
      /\ UNCHANGED <<hits, misses, result>>
  BY DEF EvictLru, Counted
<1> HIDE DEF len, m
<1>3. evictions \in 0..(CounterMod - 1)
  BY DEF IInv, TypeOK
<1>4. (((evictions + 1) % CounterMod) + ((len - 1) - m)) % CounterMod
        = (evictions + 1 + ((len - 1) - m)) % CounterMod
  BY <1>1, <1>3, OneMoreEvicted
<1>5. evictions' \in Int /\ m \in Int /\ len \in Int
  BY <1>1, <1>2, <1>3, CacheAssumption
<1>6. /\ evictions' + (len - 1) - m = evictions' + ((len - 1) - m)
      /\ evictions + 1 + ((len - 1) - m) = evictions + len - m
  BY <1>3, <1>5
<1>7. (evictions' + (len - 1) - m) % CounterMod = (evictions + len - m) % CounterMod
  BY <1>2, <1>4, <1>6
<1>8. UNCHANGED ((evictions + Len(cache_list) - SettledLen) % CounterMod)
  BY <1>1, <1>7 DEF len, m
<1> QED BY <1>1, <1>2, <1>8 DEF LRU!vars

LEMMA PutReturnStutters ==
  ASSUME IInv, PutReturn
  PROVE  UNCHANGED LRU!vars
<1>1. /\ SettledLen' = SettledLen
      /\ UNCHANGED <<SettledOrder, SettledStore>>
  BY PutReturnKeeps
<1>2. UNCHANGED <<cache_list, hits, misses, evictions, result>>
  BY DEF PutReturn, lru, stats
<1> QED BY <1>1, <1>2 DEF LRU!vars

\* Every behaviour of the cache, with its nodes, its iterators and its eviction
\* loop, is one of the abstract LRU cache (cache.cpp:142-242).
THEOREM ImplementsLRU == Spec => RefinesLRU
<1>1. Init => LRU!Init
  <2> SUFFICES ASSUME Init PROVE LRU!Init
    OBVIOUS
  <2>1. IInv /\ inserting = Idle /\ cache_list = << >> /\ Len(cache_list) = 0
    BY InitIInv DEF Init
  <2>2. SettledOrder = << >> /\ SettledStore = [k \in Key |-> NoData]
    BY <2>1, Outside DEF Keys, Store
  <2> QED BY <2>1, <2>2, Outside DEF Init, LRU!Init
<1>2. IInv /\ [Next]_vars => [LRU!Next]_LRU!vars
  <2> SUFFICES ASSUME IInv, [Next]_vars PROVE LRU!Next \/ UNCHANGED LRU!vars
    OBVIOUS
  <2>1. ASSUME NEW k \in Key, GetMiss(k) \/ GetHit(k) \/ Evict(k)
        PROVE  LRU!Next
    BY <2>1, GetMissImplements, GetHitImplements, EvictImplements DEF LRU!Next
  <2>2. ASSUME NEW k \in Key, NEW d \in Data \cup {NoData}, PutUpdate(k, d) \/ PutInsert(k, d)
        PROVE  LRU!Next
    BY <2>2, PutUpdateImplements, PutInsertImplements
  <2>3. ASSUME EvictLru \/ PutReturn
        PROVE  UNCHANGED LRU!vars
    BY <2>3, EvictLruStutters, PutReturnStutters
  <2>4. ASSUME Clear \/ ResetStats
        PROVE  LRU!Next
    BY <2>4, ClearImplements, ResetStatsImplements DEF LRU!Next
  <2>5. ASSUME UNCHANGED vars
        PROVE  UNCHANGED LRU!vars
    BY <2>5, Settled, SettledNext DEF vars, lru, stats, LRU!vars
  <2> QED BY <2>1, <2>2, <2>3, <2>4, <2>5 DEF Next
<1>3. Spec => Init /\ [][Next]_vars
  BY DEF Spec
<1> QED BY <1>1, <1>2, <1>3, Invariance, PTL DEF RefinesLRU, LRU!Spec
=============================================================================
