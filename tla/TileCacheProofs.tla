--------------------------- MODULE TileCacheProofs ---------------------------
(***************************************************************************)
(* Safety of TileCache for every set of keys, payloads and nodes and all   *)
(* limits.  The inductive invariant joins the types, the agreement of map  *)
(* and list, and the byte total: none of the three is preserved without    *)
(* the other two.                                                          *)
(***************************************************************************)
EXTENDS TileCache, ListLemmas, TLAPS

USE CacheAssumption

IInv == TypeOK /\ MapMatchesList /\ Accounting

\* The list operations of the cache.
LEMMA FoundFacts ==
  ASSUME TypeOK, MapMatchesList, NEW k \in Key, Found(k)
  PROVE  /\ cache_map[k] \in Node
         /\ PositionOf(cache_map[k]) \in 1..Len(cache_list)
         /\ cache_list[PositionOf(cache_map[k])] = cache_map[k]
         /\ entry[cache_map[k]] \in TileEntry
         /\ entry[cache_map[k]].key = k
<1>1. cache_map[k] \in Node /\ cache_map[k] \in ToSet(cache_list)
  BY DEF TypeOK, MapMatchesList, Found
<1>2. \E i \in DOMAIN cache_list : cache_list[i] = cache_map[k]
  BY <1>1 DEF ToSet
<1>3. /\ PositionOf(cache_map[k]) \in DOMAIN cache_list
      /\ cache_list[PositionOf(cache_map[k])] = cache_map[k]
  BY <1>2 DEF PositionOf
<1>4. DOMAIN cache_list = 1..Len(cache_list)
  BY DEF TypeOK
<1>5. entry[cache_map[k]] # Freed /\ entry[cache_map[k]].key = k
  BY <1>1 DEF MapMatchesList
<1>6. entry[cache_map[k]] \in TileEntry
  BY <1>1, <1>5 DEF TypeOK
<1> QED BY <1>1, <1>3, <1>4, <1>5, <1>6

LEMMA ErasedFacts ==
  ASSUME TypeOK, MapMatchesList, NEW k \in Key, Found(k)
  PROVE  LET n == cache_map[k]
             p == PositionOf(n)
         IN  /\ Erased(n) \in Seq(Node)
             /\ Len(Erased(n)) = Len(cache_list) - 1
             /\ \A i \in 1..(Len(cache_list)-1) :
                  Erased(n)[i] = IF i < p THEN cache_list[i] ELSE cache_list[i+1]
             /\ ToSet(Erased(n)) = ToSet(cache_list) \ {n}
             /\ IsInjective(Erased(n))
<1> DEFINE n == cache_map[k]
           p == PositionOf(n)
<1>1. p \in 1..Len(cache_list) /\ cache_list[p] = n
  BY FoundFacts
<1>2. cache_list \in Seq(Node) /\ IsInjective(cache_list)
  BY DEF TypeOK, MapMatchesList
<1>3. Erased(n) = RemoveAt(cache_list, p)
  BY DEF Erased
<1> HIDE DEF n, p
<1>4. /\ RemoveAt(cache_list, p) \in Seq(Node)
      /\ Len(RemoveAt(cache_list, p)) = Len(cache_list) - 1
      /\ \A i \in 1..(Len(cache_list)-1) :
           RemoveAt(cache_list, p)[i] = IF i < p THEN cache_list[i] ELSE cache_list[i+1]
  BY <1>1, <1>2, RemoveAtFacts
<1>5. /\ ToSet(RemoveAt(cache_list, p)) = ToSet(cache_list) \ {n}
      /\ IsInjective(RemoveAt(cache_list, p))
  BY <1>1, <1>2, RemoveAtSet
<1> QED BY <1>3, <1>4, <1>5 DEF n, p

LEMMA MoveToFrontFacts ==
  ASSUME TypeOK, MapMatchesList, NEW k \in Key, Found(k)
  PROVE  LET n == cache_map[k]
             p == PositionOf(n)
         IN  /\ MoveToFront(n) \in Seq(Node)
             /\ Len(MoveToFront(n)) = Len(cache_list)
             /\ MoveToFront(n)[1] = n
             /\ \A i \in 2..Len(cache_list) :
                  MoveToFront(n)[i] = IF i <= p THEN cache_list[i-1] ELSE cache_list[i]
             /\ ToSet(MoveToFront(n)) = ToSet(cache_list)
             /\ IsInjective(MoveToFront(n))
<1> DEFINE n == cache_map[k]
           p == PositionOf(n)
<1>1. p \in 1..Len(cache_list) /\ cache_list[p] = n /\ n \in Node
  BY FoundFacts
<1>2. /\ cache_list \in Seq(Node) /\ IsInjective(cache_list)
      /\ Len(cache_list) \in Nat /\ DOMAIN cache_list = 1..Len(cache_list)
  BY DEF TypeOK, MapMatchesList
<1>3. /\ Erased(n) \in Seq(Node)
      /\ Len(Erased(n)) = Len(cache_list) - 1
      /\ \A i \in 1..(Len(cache_list)-1) :
           Erased(n)[i] = IF i < p THEN cache_list[i] ELSE cache_list[i+1]
      /\ ToSet(Erased(n)) = ToSet(cache_list) \ {n}
      /\ IsInjective(Erased(n))
  BY ErasedFacts
<1>4. MoveToFront(n) = IF n = cache_list[1] THEN cache_list ELSE Cons(n, Erased(n))
  BY DEF MoveToFront
<1> HIDE DEF n, p
<1>5. CASE n = cache_list[1]
  <2>1. p = 1
    BY <1>1, <1>2, <1>5 DEF IsInjective
  <2> QED BY <1>1, <1>2, <1>4, <1>5, <2>1 DEF n, p
<1>6. CASE n # cache_list[1]
  <2> DEFINE c == Cons(n, Erased(n))
  <2>1. c \in Seq(Node) /\ Len(c) = Len(Erased(n)) + 1 /\ c[1] = n
    BY <1>1, <1>3, ConsFacts
  <2>8. \A i \in 1..Len(Erased(n)) : c[i+1] = Erased(n)[i]
    BY <1>1, <1>3, ConsFacts
  <2>2. ToSet(c) = ToSet(Erased(n)) \cup {n} /\ IsInjective(c)
    BY <1>1, <1>3, ConsSet
  <2>3. n \in ToSet(cache_list)
    BY <1>1, <1>2 DEF ToSet
  <2> HIDE DEF c
  <2>4. ASSUME NEW i \in 2..Len(cache_list)
        PROVE  c[i] = IF i <= p THEN cache_list[i-1] ELSE cache_list[i]
    <3>1. i-1 \in 1..(Len(cache_list)-1) /\ (i-1)+1 = i /\ (i-1 < p <=> i <= p)
      BY <1>1, <1>2
    <3>2. c[(i-1)+1] = Erased(n)[i-1]
      BY <3>1, <2>8, <1>3
    <3>3. Erased(n)[i-1] = IF i-1 < p THEN cache_list[i-1] ELSE cache_list[(i-1)+1]
      BY <3>1, <1>3
    <3> QED BY <3>1, <3>2, <3>3
  <2>5. Len(c) = Len(cache_list)
    BY <2>1, <1>2, <1>3
  <2>6. ToSet(c) = ToSet(cache_list)
    BY <2>2, <2>3, <1>3
  <2>7. MoveToFront(n) = c
    BY <1>4, <1>6 DEF c
  <2> QED BY <2>1, <2>2, <2>4, <2>5, <2>6, <2>7 DEF n, p
<1> QED BY <1>5, <1>6
-----------------------------------------------------------------------------
(***************************************************************************)
(* The part of the invariant that speaks of list, map and nodes, with the  *)
(* three as parameters, so that it can be stated of the next state too.    *)
(***************************************************************************)
Wf(l, m, e) ==
  /\ l \in Seq(Node)
  /\ m \in [Key -> Node \cup {NoNode}]
  /\ e \in [Node -> TileEntry \cup {Freed}]
  /\ IsInjective(l)
  /\ \A n \in ToSet(l) : e[n] # Freed /\ m[e[n].key] = n
  /\ \A k \in Key : m[k] # NoNode => m[k] \in ToSet(l) /\ e[m[k]].key = k
  /\ \A n \in Node : e[n] # Freed => n \in ToSet(l)
  /\ \A n \in Node : e[n] # Freed => e[n].size_bytes = SizeOf[e[n].data]

Sizes(l, e) == [i \in DOMAIN l |-> e[l[i]].size_bytes]

LEMMA SizesFacts ==
  ASSUME NEW l \in Seq(Node), NEW e \in [Node -> TileEntry \cup {Freed}],
         \A n \in ToSet(l) : e[n] # Freed
  PROVE  /\ Sizes(l, e) \in Seq(Nat)
         /\ Len(Sizes(l, e)) = Len(l)
         /\ \A i \in 1..Len(l) : Sizes(l, e)[i] = e[l[i]].size_bytes
         /\ SumSeq(Sizes(l, e)) \in Nat
<1>1. DOMAIN l = 1..Len(l) /\ Len(l) \in Nat
  OBVIOUS
<1>2. ASSUME NEW i \in 1..Len(l)
      PROVE  e[l[i]].size_bytes \in Nat
  <2>1. l[i] \in Node /\ l[i] \in ToSet(l)
    BY <1>1 DEF ToSet
  <2>2. e[l[i]] \in TileEntry
    BY <2>1
  <2> QED BY <2>2 DEF TileEntry
<1>3. Sizes(l, e) = [i \in 1..Len(l) |-> e[l[i]].size_bytes]
  BY <1>1 DEF Sizes
<1>4. Sizes(l, e) \in [1..Len(l) -> Nat]
  BY <1>2, <1>3
<1>5. Sizes(l, e) \in Seq(Nat) /\ Len(Sizes(l, e)) = Len(l)
  BY <1>1, <1>4
<1> QED BY <1>3, <1>5, PrefixSumsDef

\* Touching a node: it moves from p to the front and its entry becomes v, a new
\* payload or only a new access time.
Touches(l, e, n, p, t, v) ==
  /\ n \in Node /\ p \in 1..Len(l) /\ l[p] = n
  /\ t \in Seq(Node) /\ Len(t) = Len(l) /\ t[1] = n
  /\ \A i \in 2..Len(l) : t[i] = IF i <= p THEN l[i-1] ELSE l[i]
  /\ ToSet(t) = ToSet(l) /\ IsInjective(t)
  /\ v \in TileEntry /\ v.key = e[n].key /\ v.size_bytes = SizeOf[v.data]

LEMMA Touch ==
  ASSUME NEW l, NEW m, NEW e, Wf(l, m, e),
         NEW n, NEW p, NEW t, NEW v, Touches(l, e, n, p, t, v)
  PROVE  /\ Wf(t, m, [e EXCEPT ![n] = v])
         /\ SumSeq(Sizes(t, [e EXCEPT ![n] = v])) =
              SumSeq(Sizes(l, e)) - e[n].size_bytes + v.size_bytes
<1>0. /\ n \in Node /\ p \in 1..Len(l) /\ l[p] = n
      /\ t \in Seq(Node) /\ Len(t) = Len(l) /\ t[1] = n
      /\ \A i \in 2..Len(l) : t[i] = IF i <= p THEN l[i-1] ELSE l[i]
      /\ ToSet(t) = ToSet(l) /\ IsInjective(t)
      /\ v \in TileEntry /\ v.key = e[n].key /\ v.size_bytes = SizeOf[v.data]
  BY DEF Touches
<1> DEFINE f == [e EXCEPT ![n] = v]
           y == Sizes(l, e)
           z == Sizes(t, f)
<1>1. /\ l \in Seq(Node) /\ e \in [Node -> TileEntry \cup {Freed}]
      /\ \A x \in ToSet(l) : e[x] # Freed
      /\ Len(l) \in Nat /\ DOMAIN l = 1..Len(l) /\ DOMAIN t = 1..Len(l)
  BY <1>0 DEF Wf
<1>2. n \in ToSet(l)
  BY <1>0, <1>1 DEF ToSet
<1>3. f \in [Node -> TileEntry \cup {Freed}] /\ f[n] = v /\ v # Freed
  BY <1>0, <1>1, MarkerAssumption
<1>4. \A x \in Node : x # n => f[x] = e[x]
  BY <1>0, <1>1
<1>5. \A x \in ToSet(l) : x \in Node
  BY <1>0, <1>1 DEF ToSet
<1> HIDE DEF f
<1>6. Wf(t, m, f)
  <2>1. \A x \in ToSet(t) : f[x] # Freed /\ m[f[x].key] = x
    BY <1>0, <1>2, <1>3, <1>4, <1>5 DEF Wf
  <2>2. \A k \in Key : m[k] # NoNode => m[k] \in ToSet(t) /\ f[m[k]].key = k
    BY <1>0, <1>3, <1>4, <1>5 DEF Wf
  <2>3. \A x \in Node : f[x] # Freed => x \in ToSet(t)
    BY <1>0, <1>2, <1>4 DEF Wf
  <2>4. \A x \in Node : f[x] # Freed => f[x].size_bytes = SizeOf[f[x].data]
    BY <1>0, <1>3, <1>4 DEF Wf
  <2>5. m \in [Key -> Node \cup {NoNode}]
    BY <1>0 DEF Wf
  <2> QED BY <1>0, <1>3, <2>1, <2>2, <2>3, <2>4, <2>5 DEF Wf
<1>7. y \in Seq(Nat) /\ Len(y) = Len(l)
  BY <1>0, <1>1, SizesFacts
<1>8. \A i \in 1..Len(l) : y[i] = e[l[i]].size_bytes
  BY <1>0, <1>1, SizesFacts
<1>9. \A x \in ToSet(t) : f[x] # Freed
  BY <1>0, <1>6 DEF Wf
<1>10. z \in Seq(Nat) /\ Len(z) = Len(t)
  BY <1>0, <1>3, <1>9, SizesFacts
<1>11. \A i \in 1..Len(t) : z[i] = f[t[i]].size_bytes
  BY <1>0, <1>3, <1>9, SizesFacts
<1> HIDE DEF y, z
<1>12. ASSUME NEW i \in 2..Len(z)
       PROVE  z[i] = IF i <= p THEN y[i-1] ELSE y[i]
  <2>1. i \in 1..Len(t) /\ 1 \in DOMAIN t /\ i \in DOMAIN t /\ i # 1
    BY <1>0, <1>1, <1>10
  <2>2. t[i] # n /\ t[i] \in Node
    BY <1>0, <2>1 DEF IsInjective
  <2>3. z[i] = e[t[i]].size_bytes
    BY <1>0, <2>1, <2>2, <1>4, <1>11
  <2>4. t[i] = IF i <= p THEN l[i-1] ELSE l[i]
    BY <1>0, <1>10
  <2>5. i-1 \in 1..Len(l) /\ i \in 1..Len(l)
    BY <1>0, <1>1, <1>10
  <2> QED BY <1>0, <2>3, <2>4, <2>5, <1>8
<1>13. SumSeq(z) = SumSeq(y) - y[p] + z[1]
  <2>1. p \in 1..Len(y) /\ Len(z) = Len(y)
    BY <1>0, <1>7, <1>10
  <2> QED BY <1>0, <2>1, <1>7, <1>10, <1>12, SumMove
<1>14. y[p] = e[n].size_bytes
  BY <1>0, <1>8
<1>15. z[1] = v.size_bytes
  BY <1>0, <1>1, <1>3, <1>11
<1> QED BY <1>0, <1>6, <1>13, <1>14, <1>15 DEF f, y, z

\* Erasing the node at p and the map entry of its key.
Drops(l, n, p, t) ==
  /\ n \in Node /\ p \in 1..Len(l) /\ l[p] = n
  /\ t \in Seq(Node) /\ Len(t) = Len(l) - 1
  /\ \A i \in 1..(Len(l)-1) : t[i] = IF i < p THEN l[i] ELSE l[i+1]
  /\ ToSet(t) = ToSet(l) \ {n} /\ IsInjective(t)

LEMMA Drop ==
  ASSUME NEW l, NEW m, NEW e, Wf(l, m, e),
         NEW n, NEW p, NEW t, Drops(l, n, p, t)
  PROVE  /\ Wf(t, [m EXCEPT ![e[n].key] = NoNode], [e EXCEPT ![n] = Freed])
         /\ SumSeq(Sizes(t, [e EXCEPT ![n] = Freed])) =
              SumSeq(Sizes(l, e)) - e[n].size_bytes
<1>0. /\ n \in Node /\ p \in 1..Len(l) /\ l[p] = n
      /\ t \in Seq(Node) /\ Len(t) = Len(l) - 1
      /\ \A i \in 1..(Len(l)-1) : t[i] = IF i < p THEN l[i] ELSE l[i+1]
      /\ ToSet(t) = ToSet(l) \ {n} /\ IsInjective(t)
  BY DEF Drops
<1> DEFINE f == [e EXCEPT ![n] = Freed]
           w == [m EXCEPT ![e[n].key] = NoNode]
           y == Sizes(l, e)
           z == Sizes(t, f)
<1>1. /\ l \in Seq(Node) /\ e \in [Node -> TileEntry \cup {Freed}]
      /\ m \in [Key -> Node \cup {NoNode}]
      /\ \A x \in ToSet(l) : e[x] # Freed
      /\ Len(l) \in Nat /\ DOMAIN l = 1..Len(l)
  BY <1>0 DEF Wf
<1>2. n \in ToSet(l) /\ e[n] \in TileEntry /\ e[n].key \in Key /\ e[n].size_bytes \in Nat
  <2>1. n \in ToSet(l)
    BY <1>0, <1>1 DEF ToSet
  <2>2. e[n] \in TileEntry
    BY <1>0, <2>1, <1>1
  <2> QED BY <1>0, <2>1, <2>2 DEF TileEntry
<1>3. f \in [Node -> TileEntry \cup {Freed}] /\ f[n] = Freed
  BY <1>0, <1>1
<1>4. \A x \in Node : x # n => f[x] = e[x]
  BY <1>0, <1>1
<1>5. \A x \in ToSet(l) : x \in Node
  BY <1>0, <1>1 DEF ToSet
<1>6. /\ w \in [Key -> Node \cup {NoNode}] /\ w[e[n].key] = NoNode
      /\ \A k \in Key : k # e[n].key => w[k] = m[k]
  BY <1>0, <1>1, <1>2
<1> HIDE DEF f, w
<1>7. Wf(t, w, f)
  <2>1. ASSUME NEW x \in ToSet(t)
        PROVE  f[x] # Freed /\ w[f[x].key] = x
    <3>1. x \in ToSet(l) /\ x # n /\ x \in Node
      BY <1>0, <1>5
    <3>2. f[x] = e[x] /\ e[x] # Freed /\ m[e[x].key] = x
      BY <1>0, <3>1, <1>4 DEF Wf
    <3>3. m[e[n].key] = n
      BY <1>0, <1>2 DEF Wf
    <3>4. e[x].key \in Key /\ e[x].key # e[n].key
      BY <1>0, <3>1, <3>2, <3>3, <1>1 DEF TileEntry
    <3> QED BY <1>0, <3>2, <3>4, <1>6
  <2>2. ASSUME NEW k \in Key, w[k] # NoNode
        PROVE  w[k] \in ToSet(t) /\ f[w[k]].key = k
    <3>1. k # e[n].key /\ w[k] = m[k]
      BY <1>0, <2>2, <1>6
    <3>2. m[k] \in ToSet(l) /\ e[m[k]].key = k
      BY <1>0, <3>1, <2>2 DEF Wf
    <3> QED BY <1>0, <3>1, <3>2, <1>4, <1>5
  <2>3. \A x \in Node : f[x] # Freed => x \in ToSet(t)
    BY <1>0, <1>3, <1>4 DEF Wf
  <2>4. \A x \in Node : f[x] # Freed => f[x].size_bytes = SizeOf[f[x].data]
    BY <1>0, <1>3, <1>4 DEF Wf
  <2> QED BY <1>0, <1>3, <1>6, <2>1, <2>2, <2>3, <2>4 DEF Wf
<1>8. y \in Seq(Nat) /\ Len(y) = Len(l) /\ SumSeq(y) \in Nat
  BY <1>0, <1>1, SizesFacts
<1>9. \A i \in 1..Len(l) : y[i] = e[l[i]].size_bytes
  BY <1>0, <1>1, SizesFacts
<1>10. \A x \in ToSet(t) : f[x] # Freed
  BY <1>0, <1>7 DEF Wf
<1>11. z \in Seq(Nat) /\ Len(z) = Len(t) /\ SumSeq(z) \in Nat
  BY <1>0, <1>3, <1>10, SizesFacts
<1>12. \A i \in 1..Len(t) : z[i] = f[t[i]].size_bytes
  BY <1>0, <1>3, <1>10, SizesFacts
<1> HIDE DEF y, z
<1>13. ASSUME NEW i \in 1..Len(z)
       PROVE  z[i] = IF i < p THEN y[i] ELSE y[i+1]
  <2>1. i \in 1..Len(t) /\ i \in 1..(Len(l)-1) /\ i \in 1..Len(l) /\ i+1 \in 1..Len(l)
    BY <1>0, <1>1, <1>11
  <2>2. t[i] \in ToSet(t) /\ t[i] \in Node
    BY <1>0, <2>1 DEF ToSet
  <2>3. z[i] = e[t[i]].size_bytes
    BY <1>0, <2>1, <2>2, <1>4, <1>12
  <2>4. t[i] = IF i < p THEN l[i] ELSE l[i+1]
    BY <1>0, <2>1
  <2> QED BY <1>0, <2>1, <2>3, <2>4, <1>9
<1>14. SumSeq(y) = SumSeq(z) + y[p]
  <2>1. p \in 1..Len(y) /\ Len(z) = Len(y) - 1
    BY <1>0, <1>8, <1>11
  <2> QED BY <1>0, <2>1, <1>8, <1>11, <1>13, SumRemove
<1>15. y[p] = e[n].size_bytes
  BY <1>0, <1>9
<1>16. SumSeq(z) = SumSeq(y) - e[n].size_bytes
  BY <1>0, <1>2, <1>8, <1>11, <1>14, <1>15
<1> QED BY <1>0, <1>7, <1>16 DEF f, w, y, z

\* Pushing a fresh node to the front for a key without a map entry.
Pushes(l, m, e, k, n, v, t, w, f) ==
  /\ k \in Key /\ m[k] = NoNode /\ n \in Node /\ e[n] = Freed
  /\ v \in TileEntry /\ v.key = k /\ v.size_bytes = SizeOf[v.data]
  /\ t = Cons(n, l) /\ w = [m EXCEPT ![k] = n] /\ f = [e EXCEPT ![n] = v]

LEMMA ConsNode ==
  ASSUME NEW l \in Seq(Node), NEW n \in Node
  PROVE  Cons(n, l) \in Seq(Node) /\ Len(Cons(n, l)) = Len(l) + 1 /\ Cons(n, l)[1] = n
BY ConsFacts

LEMMA ConsNodeShift ==
  ASSUME NEW l \in Seq(Node), NEW n \in Node
  PROVE  \A i \in 1..Len(l) : Cons(n, l)[i+1] = l[i]
BY ConsFacts

LEMMA Push ==
  ASSUME NEW l, NEW m, NEW e, Wf(l, m, e),
         NEW k, NEW n, NEW v, NEW t, NEW w, NEW f, Pushes(l, m, e, k, n, v, t, w, f)
  PROVE  /\ Wf(t, w, f)
         /\ SumSeq(Sizes(t, f)) = SumSeq(Sizes(l, e)) + v.size_bytes
<1> DEFINE y == Sizes(l, e)
           z == Sizes(t, f)
<1>0. /\ k \in Key /\ m[k] = NoNode /\ n \in Node /\ e[n] = Freed
      /\ v \in TileEntry /\ v.key = k /\ v.size_bytes = SizeOf[v.data]
      /\ t = Cons(n, l) /\ w = [m EXCEPT ![k] = n] /\ f = [e EXCEPT ![n] = v]
  BY DEF Pushes
<1>1. /\ l \in Seq(Node) /\ e \in [Node -> TileEntry \cup {Freed}]
      /\ m \in [Key -> Node \cup {NoNode}] /\ IsInjective(l)
      /\ \A x \in ToSet(l) : e[x] # Freed
      /\ Len(l) \in Nat /\ DOMAIN l = 1..Len(l)
  BY <1>0 DEF Wf
<1>2. n \notin ToSet(l)
  BY <1>0, <1>1
<1>3. t \in Seq(Node) /\ Len(t) = Len(l) + 1 /\ t[1] = n
  BY <1>0, <1>1, ConsNode
<1>4. ASSUME NEW i \in 1..Len(l)
      PROVE  t[i+1] = l[i]
  <2>1. l \in Seq(Node) /\ n \in Node
    BY <1>0, <1>1
  <2>2. \A j \in 1..Len(l) : Cons(n, l)[j+1] = l[j]
    BY ONLY <2>1, ConsNodeShift
  <2> QED BY <1>0, <2>2
<1>5. ToSet(t) = ToSet(l) \cup {n} /\ IsInjective(t)
  BY <1>0, <1>1, <1>2, ConsSet
<1>6. f \in [Node -> TileEntry \cup {Freed}] /\ f[n] = v /\ v # Freed
  BY <1>0, <1>1, MarkerAssumption
<1>7. \A x \in Node : x # n => f[x] = e[x]
  BY <1>0, <1>1
<1>8. /\ w \in [Key -> Node \cup {NoNode}] /\ w[k] = n
      /\ \A j \in Key : j # k => w[j] = m[j]
  BY <1>0, <1>1
<1>9. \A x \in ToSet(l) : x \in Node /\ x # n
  BY <1>0, <1>1, <1>2 DEF ToSet
<1>10. Wf(t, w, f)
  <2>1. ASSUME NEW x \in ToSet(t)
        PROVE  f[x] # Freed /\ w[f[x].key] = x
    <3>1. CASE x = n
      BY <1>0, <3>1, <1>6, <1>8
    <3>2. CASE x \in ToSet(l)
      <4>1. x \in Node /\ x # n /\ f[x] = e[x] /\ e[x] # Freed /\ m[e[x].key] = x
        BY <1>0, <3>2, <1>7, <1>9 DEF Wf
      <4>2. e[x] \in TileEntry
        BY <1>0, <4>1, <1>1
      <4>3. e[x].key \in Key
        BY <1>0, <4>2 DEF TileEntry
      <4>4. x # NoNode
        BY <1>0, <4>1
      <4>5. e[x].key # k
        BY <1>0, <4>1, <4>4
      <4> QED BY <1>0, <4>1, <4>3, <4>5, <1>8
    <3> QED BY <1>0, <3>1, <3>2, <1>5
  <2>2. ASSUME NEW j \in Key, w[j] # NoNode
        PROVE  w[j] \in ToSet(t) /\ f[w[j]].key = j
    <3>1. CASE j = k
      BY <1>0, <3>1, <1>5, <1>6, <1>8
    <3>2. CASE j # k
      <4>1. w[j] = m[j] /\ m[j] \in ToSet(l) /\ e[m[j]].key = j
        BY <1>0, <3>2, <2>2, <1>8 DEF Wf
      <4> QED BY <1>0, <4>1, <1>5, <1>7, <1>9
    <3> QED BY <1>0, <3>1, <3>2
  <2>3. \A x \in Node : f[x] # Freed => x \in ToSet(t)
    BY <1>0, <1>5, <1>7 DEF Wf
  <2>4. \A x \in Node : f[x] # Freed => f[x].size_bytes = SizeOf[f[x].data]
    BY <1>0, <1>6, <1>7 DEF Wf
  <2> QED BY <1>0, <1>3, <1>5, <1>6, <1>8, <2>1, <2>2, <2>3, <2>4 DEF Wf
<1>11. y \in Seq(Nat) /\ Len(y) = Len(l)
  BY <1>0, <1>1, SizesFacts
<1>12. \A i \in 1..Len(l) : y[i] = e[l[i]].size_bytes
  BY <1>0, <1>1, SizesFacts
<1>13. \A x \in ToSet(t) : f[x] # Freed
  BY <1>0, <1>10 DEF Wf
<1>14. z \in Seq(Nat) /\ Len(z) = Len(t)
  BY <1>0, <1>3, <1>6, <1>13, SizesFacts
<1>15. \A i \in 1..Len(t) : z[i] = f[t[i]].size_bytes
  BY <1>0, <1>3, <1>6, <1>13, SizesFacts
<1> HIDE DEF y, z
<1>16. ASSUME NEW i \in 1..Len(y)
       PROVE  z[i+1] = y[i]
  <2>1. i \in 1..Len(l) /\ i+1 \in 1..Len(t)
    BY <1>0, <1>1, <1>3, <1>11
  <2>2. t[i+1] = l[i] /\ l[i] \in ToSet(l)
    BY <1>0, <2>1, <1>1, <1>4 DEF ToSet
  <2>3. f[l[i]] = e[l[i]]
    BY <1>0, <2>2, <1>7, <1>9
  <2> QED BY <1>0, <2>1, <2>2, <2>3, <1>12, <1>15
<1>17. SumSeq(z) = SumSeq(y) + z[1]
  <2>1. Len(z) = Len(y) + 1
    BY <1>0, <1>3, <1>11, <1>14
  <2> QED BY <1>0, <2>1, <1>11, <1>14, <1>16, SumCons
<1>18. z[1] = v.size_bytes
  BY <1>0, <1>1, <1>3, <1>6, <1>15
<1> QED BY <1>0, <1>10, <1>17, <1>18 DEF y, z
-----------------------------------------------------------------------------
\* The invariant in terms of Wf.
LEMMA IInvAsWf ==
  IInv <=> /\ Wf(cache_list, cache_map, entry)
           /\ current_size_bytes = SumSeq(Sizes(cache_list, entry))
           /\ current_size_bytes \in Nat
           /\ hits \in 0..(CounterMod-1)
           /\ misses \in 0..(CounterMod-1)
           /\ evictions \in 0..(CounterMod-1)
           /\ inserting \in PutFrame \cup {Idle}
           /\ result \in Data \cup {NoData}
           /\ now \in 0..MaxNow
BY DEF IInv, TypeOK, MapMatchesList, Accounting, Wf, Sizes, ListSizes, Found

LEMMA CountedType == \A c \in 0..(CounterMod-1) : Counted(c) \in 0..(CounterMod-1)
BY DEF Counted

LEMMA ClockType == ASSUME now \in 0..MaxNow, ReadClock
                   PROVE  now' \in 0..MaxNow
BY DEF ReadClock

\* The invariant holds initially.
LEMMA InitIInv == Init => IInv
<1> SUFFICES ASSUME Init PROVE IInv
  OBVIOUS
<1>1. cache_list = << >> /\ \A n \in Node : entry[n] = Freed
  BY DEF Init
<1>2. ToSet(cache_list) = {} /\ IsInjective(cache_list) /\ cache_list \in Seq(Node)
  BY <1>1 DEF ToSet, IsInjective
<1>3. entry \in [Node -> TileEntry \cup {Freed}] /\ cache_map \in [Key -> Node \cup {NoNode}]
  BY DEF Init
<1>4. \A k \in Key : cache_map[k] = NoNode
  BY DEF Init
<1>5. Wf(cache_list, cache_map, entry)
  BY <1>1, <1>2, <1>3, <1>4 DEF Wf
<1>6. Sizes(cache_list, entry) = << >>
  BY <1>1 DEF Sizes
<1>7. current_size_bytes = SumSeq(Sizes(cache_list, entry)) /\ current_size_bytes \in Nat
  BY <1>6, SumEmpty DEF Init
<1>8. /\ hits \in 0..(CounterMod-1) /\ misses \in 0..(CounterMod-1)
      /\ evictions \in 0..(CounterMod-1) /\ inserting \in PutFrame \cup {Idle}
      /\ result \in Data \cup {NoData} /\ now \in 0..MaxNow
  BY DEF Init
<1> QED BY <1>5, <1>7, <1>8, IInvAsWf

LEMMA IInvNext ==
  ASSUME Wf(cache_list', cache_map', entry'),
         current_size_bytes' = SumSeq(Sizes(cache_list', entry')),
         hits' \in 0..(CounterMod-1),
         misses' \in 0..(CounterMod-1),
         evictions' \in 0..(CounterMod-1),
         inserting' \in PutFrame \cup {Idle},
         result' \in Data \cup {NoData},
         now' \in 0..MaxNow
  PROVE  IInv'
<1>1. SumSeq(Sizes(cache_list', entry')) \in Nat
  <2>1. /\ cache_list' \in Seq(Node) /\ entry' \in [Node -> TileEntry \cup {Freed}]
        /\ \A n \in ToSet(cache_list') : entry'[n] # Freed
    BY DEF Wf
  <2> QED BY <2>1, SizesFacts
<1> QED BY <1>1 DEF IInv, TypeOK, MapMatchesList, Accounting, Wf, Sizes, ListSizes, Found

\* One step of the cache preserves the invariant.
LEMMA StepIInv == IInv /\ [Next]_vars => IInv'
<1> SUFFICES ASSUME IInv, [Next]_vars PROVE IInv'
  OBVIOUS
<1> DEFINE l == cache_list
           m == cache_map
           e == entry
<1>1. /\ Wf(l, m, e)
      /\ current_size_bytes = SumSeq(Sizes(l, e)) /\ current_size_bytes \in Nat
      /\ hits \in 0..(CounterMod-1) /\ misses \in 0..(CounterMod-1)
      /\ evictions \in 0..(CounterMod-1) /\ inserting \in PutFrame \cup {Idle}
      /\ result \in Data \cup {NoData} /\ now \in 0..MaxNow
  BY IInvAsWf
<1>2. TypeOK /\ MapMatchesList
  BY DEF IInv
<1>3. /\ l \in Seq(Node) /\ m \in [Key -> Node \cup {NoNode}]
      /\ e \in [Node -> TileEntry \cup {Freed}] /\ IsInjective(l)
  BY <1>1 DEF Wf
<1> HIDE DEF l, m, e
<1>4. ASSUME NEW k \in Key, GetMiss(k)
      PROVE  IInv'
  <2>1. UNCHANGED <<lru, hits, evictions, inserting, now>>
    BY <1>4 DEF GetMiss
  <2>2. misses' \in 0..(CounterMod-1) /\ result' \in Data \cup {NoData}
    BY <1>1, <1>4, CountedType DEF GetMiss
  <2> QED BY <1>1, <2>1, <2>2, IInvNext DEF lru, l, m, e
<1>5. ASSUME NEW k \in Key, GetHit(k)
      PROVE  IInv'
  <2> DEFINE n == cache_map[k]
             v == [entry[n] EXCEPT !.last_access = now']
  <2>1. Found(k)
    BY <1>5 DEF GetHit
  <2>2. /\ n \in Node /\ entry[n] \in TileEntry /\ entry[n].key = k
        /\ PositionOf(n) \in 1..Len(cache_list) /\ cache_list[PositionOf(n)] = n
    BY <1>2, <2>1, FoundFacts
  <2>3. now' \in 0..MaxNow
    BY <1>1, <1>5, ClockType DEF GetHit
  <2>4. /\ v \in TileEntry /\ v.key = entry[n].key /\ v.data = entry[n].data
        /\ v.size_bytes = entry[n].size_bytes
    BY <2>2, <2>3 DEF TileEntry
  <2>5. entry' = [entry EXCEPT ![n] = v] /\ cache_list' = MoveToFront(n)
    BY <1>5 DEF GetHit
  <2>6. entry[n].size_bytes = SizeOf[entry[n].data] /\ entry[n].size_bytes \in Nat
    BY <1>1, <2>2, MarkerAssumption DEF Wf, TileEntry, e
  <2>7. /\ cache_list' \in Seq(Node) /\ Len(cache_list') = Len(cache_list)
        /\ cache_list'[1] = n
        /\ ToSet(cache_list') = ToSet(cache_list) /\ IsInjective(cache_list')
    BY <1>2, <2>1, <2>5, MoveToFrontFacts
  <2>8. \A i \in 2..Len(cache_list) :
          cache_list'[i] = IF i <= PositionOf(n) THEN cache_list[i-1] ELSE cache_list[i]
    BY <1>2, <2>1, <2>5, MoveToFrontFacts
  <2> HIDE DEF n, v
  <2>9. /\ Wf(cache_list', cache_map, entry')
        /\ SumSeq(Sizes(cache_list', entry')) =
             SumSeq(Sizes(cache_list, entry)) - entry[n].size_bytes + v.size_bytes
    <3>1. Touches(l, e, n, PositionOf(n), cache_list', v)
      BY <2>2, <2>4, <2>6, <2>7, <2>8 DEF Touches, l, e
    <3>2. /\ Wf(cache_list', m, [e EXCEPT ![n] = v])
          /\ SumSeq(Sizes(cache_list', [e EXCEPT ![n] = v])) =
               SumSeq(Sizes(l, e)) - e[n].size_bytes + v.size_bytes
      <4>1. Wf(l, m, e)
        BY <1>1
      <4> QED BY ONLY <4>1, <3>1, Touch
    <3> QED BY <2>5, <3>2 DEF l, m, e
  <2>10. /\ UNCHANGED <<cache_map, current_size_bytes, misses, evictions, inserting>>
         /\ hits' \in 0..(CounterMod-1)
    BY <1>1, <1>5, CountedType DEF GetHit
  <2>11. result' \in Data \cup {NoData}
    BY <1>5, <2>2 DEF GetHit, TileEntry, n
  <2>12. current_size_bytes' = SumSeq(Sizes(cache_list', entry'))
    BY <1>1, <2>4, <2>6, <2>9, <2>10 DEF l, e
  <2> QED BY <1>1, <2>3, <2>9, <2>10, <2>11, <2>12, IInvNext
<1>6. ASSUME NEW k \in Key, NEW d \in Data \cup {NoData}, PutUpdate(k, d)
      PROVE  IInv'
  <2> DEFINE n == cache_map[k]
             v == [entry[n] EXCEPT !.data = d, !.size_bytes = SizeOf[d], !.last_access = now']
  <2>1. Found(k) /\ d \in Data /\ SizeOf[d] \in Nat
    BY <1>6 DEF PutUpdate
  <2>2. /\ n \in Node /\ entry[n] \in TileEntry /\ entry[n].key = k
        /\ PositionOf(n) \in 1..Len(cache_list) /\ cache_list[PositionOf(n)] = n
    BY <1>2, <2>1, FoundFacts
  <2>3. now' \in 0..MaxNow
    BY <1>1, <1>6, ClockType DEF PutUpdate
  <2>4. v \in TileEntry /\ v.key = entry[n].key /\ v.size_bytes = SizeOf[v.data]
        /\ v.size_bytes = SizeOf[d]
    BY <2>1, <2>2, <2>3 DEF TileEntry
  <2>5. entry' = [entry EXCEPT ![n] = v] /\ cache_list' = MoveToFront(n)
    BY <1>6 DEF PutUpdate
  <2>7. /\ cache_list' \in Seq(Node) /\ Len(cache_list') = Len(cache_list)
        /\ cache_list'[1] = n
        /\ ToSet(cache_list') = ToSet(cache_list) /\ IsInjective(cache_list')
    BY <1>2, <2>1, <2>5, MoveToFrontFacts
  <2>8. \A i \in 2..Len(cache_list) :
          cache_list'[i] = IF i <= PositionOf(n) THEN cache_list[i-1] ELSE cache_list[i]
    BY <1>2, <2>1, <2>5, MoveToFrontFacts
  <2>10. /\ UNCHANGED <<cache_map, stats, inserting, result>>
         /\ current_size_bytes' = current_size_bytes - entry[n].size_bytes + SizeOf[d]
    BY <1>6 DEF PutUpdate
  <2> HIDE DEF n, v
  <2>9. /\ Wf(cache_list', cache_map, entry')
        /\ SumSeq(Sizes(cache_list', entry')) =
             SumSeq(Sizes(cache_list, entry)) - entry[n].size_bytes + v.size_bytes
    <3>1. Touches(l, e, n, PositionOf(n), cache_list', v)
      BY <2>2, <2>4, <2>7, <2>8 DEF Touches, l, e
    <3>2. /\ Wf(cache_list', m, [e EXCEPT ![n] = v])
          /\ SumSeq(Sizes(cache_list', [e EXCEPT ![n] = v])) =
               SumSeq(Sizes(l, e)) - e[n].size_bytes + v.size_bytes
      <4>1. Wf(l, m, e)
        BY <1>1
      <4> QED BY ONLY <4>1, <3>1, Touch
    <3> QED BY <2>5, <3>2 DEF l, m, e
  <2>12. current_size_bytes' = SumSeq(Sizes(cache_list', entry'))
    BY <1>1, <2>4, <2>9, <2>10 DEF l, e
  <2> QED BY <1>1, <2>3, <2>9, <2>10, <2>12, IInvNext DEF stats
<1>7. ASSUME NEW k \in Key, NEW d \in Data \cup {NoData}, PutInsert(k, d)
      PROVE  IInv'
  <2>1. ~ Found(k) /\ d \in Data /\ Footprint(d) = SizeOf[d] /\ SizeOf[d] \in Nat
    BY <1>7 DEF PutInsert, Footprint
  <2> DEFINE v == [key |-> k, data |-> d, size_bytes |-> SizeOf[d], last_access |-> now']
  <2>2. PICK n \in Node : /\ entry[n] = Freed
                          /\ entry' = [entry EXCEPT ![n] = v]
                          /\ cache_list' = Cons(n, cache_list)
                          /\ cache_map' = [cache_map EXCEPT ![k] = n]
    BY <1>7, <2>1 DEF PutInsert
  <2>3. now' \in 0..MaxNow
    BY <1>1, <1>7, ClockType DEF PutInsert
  <2>4. v \in TileEntry /\ v.key = k /\ v.size_bytes = SizeOf[v.data] /\ v.size_bytes = SizeOf[d]
    BY <2>1, <2>3 DEF TileEntry
  <2>5. /\ current_size_bytes' = current_size_bytes + SizeOf[d]
        /\ inserting' \in PutFrame
        /\ UNCHANGED <<stats, result>>
    BY <1>7, <2>1 DEF PutInsert, PutFrame
  <2> HIDE DEF v
  <2>6. cache_map[k] = NoNode
    BY <2>1 DEF Found
  <2>7. /\ Wf(cache_list', cache_map', entry')
        /\ SumSeq(Sizes(cache_list', entry')) =
             SumSeq(Sizes(cache_list, entry)) + v.size_bytes
    <3>1. Pushes(l, m, e, k, n, v, cache_list', cache_map', entry')
      BY <2>2, <2>4, <2>6 DEF Pushes, l, m, e
    <3>2. /\ Wf(cache_list', cache_map', entry')
          /\ SumSeq(Sizes(cache_list', entry')) = SumSeq(Sizes(l, e)) + v.size_bytes
      <4>1. Wf(l, m, e)
        BY <1>1
      <4> QED BY ONLY <4>1, <3>1, Push
    <3> QED BY <2>2, <3>2 DEF l, m, e
  <2>8. current_size_bytes' = SumSeq(Sizes(cache_list', entry'))
    BY <1>1, <2>4, <2>5, <2>7 DEF l, e
  <2> QED BY <1>1, <2>3, <2>5, <2>7, <2>8, IInvNext DEF stats
<1>8. ASSUME EvictLru
      PROVE  IInv'
  <2> DEFINE n == Last(cache_list)
             p == Len(cache_list)
  <2>1. cache_list # << >> /\ cache_list \in Seq(Node) /\ IsInjective(cache_list)
    BY <1>3, <1>8 DEF EvictLru, l
  <2>2. /\ Front(cache_list) \in Seq(Node) /\ p \in 1..p /\ n = cache_list[p]
        /\ Len(Front(cache_list)) = p - 1
    BY <2>1, FrontFacts
  <2>3. \A i \in 1..(p-1) : Front(cache_list)[i] = cache_list[i]
    BY <2>1, FrontFacts
  <2>4. ToSet(Front(cache_list)) = ToSet(cache_list) \ {n} /\ IsInjective(Front(cache_list))
    BY <2>1, FrontSet
  <2>5. n \in Node
    BY <2>1, <2>2
  <2>6. /\ current_size_bytes' = current_size_bytes - entry[n].size_bytes
        /\ cache_map' = [cache_map EXCEPT ![entry[n].key] = NoNode]
        /\ cache_list' = Front(cache_list)
        /\ entry' = [entry EXCEPT ![n] = Freed]
        /\ evictions' \in 0..(CounterMod-1)
        /\ UNCHANGED <<hits, misses, inserting, result, now>>
    BY <1>1, <1>8, CountedType DEF EvictLru
  <2>7. \A i \in 1..(p-1) :
          Front(cache_list)[i] = IF i < p THEN cache_list[i] ELSE cache_list[i+1]
    BY <2>2, <2>3
  <2> HIDE DEF n, p
  <2>8. /\ Wf(cache_list', cache_map', entry')
        /\ SumSeq(Sizes(cache_list', entry')) =
             SumSeq(Sizes(cache_list, entry)) - entry[n].size_bytes
    <3>1. Drops(l, n, p, cache_list')
      BY <2>2, <2>4, <2>5, <2>6, <2>7 DEF Drops, l, p
    <3>2. /\ Wf(cache_list', [m EXCEPT ![e[n].key] = NoNode], [e EXCEPT ![n] = Freed])
          /\ SumSeq(Sizes(cache_list', [e EXCEPT ![n] = Freed])) =
               SumSeq(Sizes(l, e)) - e[n].size_bytes
      <4>1. Wf(l, m, e)
        BY <1>1
      <4> QED BY ONLY <4>1, <3>1, Drop
    <3> QED BY <2>6, <3>2 DEF l, m, e
  <2>9. current_size_bytes' = SumSeq(Sizes(cache_list', entry'))
    BY <1>1, <2>6, <2>8 DEF l, e
  <2> QED BY <1>1, <2>6, <2>8, <2>9, IInvNext
<1>9. ASSUME PutReturn
      PROVE  IInv'
  <2>1. UNCHANGED <<lru, stats, result, now>> /\ inserting' = Idle
    BY <1>9 DEF PutReturn
  <2> QED BY <1>1, <2>1, IInvNext DEF lru, stats, l, m, e
<1>10. ASSUME NEW k \in Key, Evict(k)
       PROVE  IInv'
  <2> DEFINE n == cache_map[k]
             p == PositionOf(n)
  <2>1. Found(k)
    BY <1>10 DEF Evict
  <2>2. n \in Node /\ p \in 1..Len(cache_list) /\ cache_list[p] = n /\ entry[n].key = k
    BY <1>2, <2>1, FoundFacts
  <2>3. /\ Erased(n) \in Seq(Node) /\ Len(Erased(n)) = Len(cache_list) - 1
        /\ ToSet(Erased(n)) = ToSet(cache_list) \ {n} /\ IsInjective(Erased(n))
    BY <1>2, <2>1, ErasedFacts
  <2>4. \A i \in 1..(Len(cache_list)-1) :
          Erased(n)[i] = IF i < p THEN cache_list[i] ELSE cache_list[i+1]
    BY <1>2, <2>1, ErasedFacts
  <2>5. /\ current_size_bytes' = current_size_bytes - entry[n].size_bytes
        /\ cache_list' = Erased(n)
        /\ entry' = [entry EXCEPT ![n] = Freed]
        /\ cache_map' = [cache_map EXCEPT ![entry[n].key] = NoNode]
        /\ evictions' \in 0..(CounterMod-1)
        /\ UNCHANGED <<hits, misses, inserting, result, now>>
    BY <1>1, <1>10, <2>2, CountedType DEF Evict
  <2> HIDE DEF n, p
  <2>6. /\ Wf(cache_list', cache_map', entry')
        /\ SumSeq(Sizes(cache_list', entry')) =
             SumSeq(Sizes(cache_list, entry)) - entry[n].size_bytes
    <3>1. Drops(l, n, p, cache_list')
      BY <2>2, <2>3, <2>4, <2>5 DEF Drops, l
    <3>2. /\ Wf(cache_list', [m EXCEPT ![e[n].key] = NoNode], [e EXCEPT ![n] = Freed])
          /\ SumSeq(Sizes(cache_list', [e EXCEPT ![n] = Freed])) =
               SumSeq(Sizes(l, e)) - e[n].size_bytes
      <4>1. Wf(l, m, e)
        BY <1>1
      <4> QED BY ONLY <4>1, <3>1, Drop
    <3> QED BY <2>5, <3>2 DEF l, m, e
  <2>7. current_size_bytes' = SumSeq(Sizes(cache_list', entry'))
    BY <1>1, <2>5, <2>6 DEF l, e
  <2> QED BY <1>1, <2>5, <2>6, <2>7, IInvNext
<1>11. ASSUME Clear
       PROVE  IInv'
  <2>1. /\ cache_map' = [k \in Key |-> NoNode] /\ cache_list' = << >>
        /\ entry' = [n \in Node |-> Freed] /\ current_size_bytes' = 0
        /\ UNCHANGED <<stats, inserting, result, now>>
    BY <1>11 DEF Clear
  <2>2. ToSet(cache_list') = {} /\ IsInjective(cache_list') /\ cache_list' \in Seq(Node)
    BY <2>1 DEF ToSet, IsInjective
  <2>3. /\ cache_map' \in [Key -> Node \cup {NoNode}] /\ \A k \in Key : cache_map'[k] = NoNode
        /\ entry' \in [Node -> TileEntry \cup {Freed}] /\ \A n \in Node : entry'[n] = Freed
    BY <2>1
  <2>4. Wf(cache_list', cache_map', entry')
    BY <2>2, <2>3 DEF Wf
  <2>5. Sizes(cache_list', entry') = << >>
    BY <2>1 DEF Sizes
  <2>6. current_size_bytes' = SumSeq(Sizes(cache_list', entry'))
    BY <2>1, <2>5, SumEmpty
  <2> QED BY <1>1, <2>1, <2>4, <2>6, IInvNext DEF stats
<1>12. ASSUME ResetStats
       PROVE  IInv'
  <2>1. /\ hits' = 0 /\ misses' = 0 /\ evictions' = 0
        /\ UNCHANGED <<lru, inserting, result, now>>
    BY <1>12 DEF ResetStats
  <2>2. 0 \in 0..(CounterMod-1)
    OBVIOUS
  <2> QED BY <1>1, <2>1, <2>2, IInvNext DEF lru, l, m, e
<1>13. ASSUME UNCHANGED vars
       PROVE  IInv'
  BY <1>1, <1>13, IInvNext DEF vars, lru, stats, l, m, e
<1> QED BY <1>4, <1>5, <1>6, <1>7, <1>8, <1>9, <1>10, <1>11, <1>12, <1>13 DEF Next
-----------------------------------------------------------------------------
\* The invariant holds throughout every execution.
LEMMA Invariance == Spec => []IInv
<1>1. Spec => Init /\ [][Next]_vars
  BY DEF Spec
<1> QED BY <1>1, InitIInv, StepIInv, PTL

\* Type correctness of every variable, for all constants.
THEOREM TypeCorrect == Spec => []TypeOK
<1>1. IInv => TypeOK
  BY DEF IInv
<1> QED BY <1>1, Invariance, PTL

\* No iterator in the map dangles and no allocated node is unreachable.
THEOREM MapAlwaysMatchesList == Spec => []MapMatchesList
<1>1. IInv => MapMatchesList
  BY DEF IInv
<1> QED BY <1>1, Invariance, PTL

\* The byte total always equals what the list holds.
THEOREM AccountingNeverDrifts == Spec => []Accounting
<1>1. IInv => Accounting
  BY DEF IInv
<1> QED BY <1>1, Invariance, PTL
-----------------------------------------------------------------------------
(***************************************************************************)
(* Limits and recency.                                                     *)
(***************************************************************************)
\* What the operations do to the length of the list.
LEMMA LengthStep ==
  ASSUME IInv, Next
  PROVE  \/ inserting' = inserting /\ Len(cache_list') <= Len(cache_list)
         \/ inserting = Idle /\ inserting' # Idle /\ Len(cache_list') = Len(cache_list) + 1
         \/ inserting' = Idle /\ ~ ShouldEvict /\ cache_list' = cache_list
<1>1. TypeOK /\ MapMatchesList
  BY DEF IInv
<1>2. cache_list \in Seq(Node) /\ Len(cache_list) \in Nat
  BY <1>1 DEF TypeOK
<1>3. ASSUME NEW k \in Key, GetMiss(k)
      PROVE  inserting' = inserting /\ Len(cache_list') <= Len(cache_list)
  BY <1>2, <1>3 DEF GetMiss, lru
<1>4. ASSUME NEW k \in Key, GetHit(k)
      PROVE  inserting' = inserting /\ Len(cache_list') <= Len(cache_list)
  <2>1. Found(k) /\ inserting' = inserting /\ cache_list' = MoveToFront(cache_map[k])
    BY <1>4 DEF GetHit
  <2>2. Len(MoveToFront(cache_map[k])) = Len(cache_list)
    BY <1>1, <2>1, MoveToFrontFacts
  <2> QED BY <1>2, <2>1, <2>2
<1>5. ASSUME NEW k \in Key, NEW d \in Data \cup {NoData}, PutUpdate(k, d)
      PROVE  inserting' = inserting /\ Len(cache_list') <= Len(cache_list)
  <2>1. Found(k) /\ inserting' = inserting /\ cache_list' = MoveToFront(cache_map[k])
    BY <1>5 DEF PutUpdate
  <2>2. Len(MoveToFront(cache_map[k])) = Len(cache_list)
    BY <1>1, <2>1, MoveToFrontFacts
  <2> QED BY <1>2, <2>1, <2>2
<1>6. ASSUME NEW k \in Key, NEW d \in Data \cup {NoData}, PutInsert(k, d)
      PROVE  inserting = Idle /\ inserting' # Idle /\ Len(cache_list') = Len(cache_list) + 1
  <2>4. d \in Data /\ Footprint(d) = SizeOf[d]
    BY <1>6 DEF PutInsert, Footprint
  <2>5. inserting' \in PutFrame
    BY <1>6, <2>4 DEF PutInsert, PutFrame
  <2>1. inserting = Idle /\ inserting' # Idle
    BY <1>6, <2>5, MarkerAssumption DEF PutInsert, Locked
  <2>2. PICK n \in Node : cache_list' = Cons(n, cache_list)
    BY <1>6 DEF PutInsert
  <2>3. Len(Cons(n, cache_list)) = Len(cache_list) + 1
    BY <1>2, ConsNode
  <2> QED BY <2>1, <2>2, <2>3
<1>7. ASSUME EvictLru
      PROVE  inserting' = inserting /\ Len(cache_list') <= Len(cache_list)
  <2>1. cache_list # << >> /\ inserting' = inserting /\ cache_list' = Front(cache_list)
    BY <1>7 DEF EvictLru
  <2>2. Len(Front(cache_list)) = Len(cache_list) - 1
    BY <1>2, <2>1, FrontFacts
  <2> QED BY <1>2, <2>1, <2>2
<1>8. ASSUME PutReturn
      PROVE  inserting' = Idle /\ ~ ShouldEvict /\ cache_list' = cache_list
  BY <1>8 DEF PutReturn, lru
<1>9. ASSUME NEW k \in Key, Evict(k)
      PROVE  inserting' = inserting /\ Len(cache_list') <= Len(cache_list)
  <2>1. Found(k) /\ inserting' = inserting /\ cache_list' = Erased(cache_map[k])
    BY <1>9 DEF Evict
  <2>2. Len(Erased(cache_map[k])) = Len(cache_list) - 1
    BY <1>1, <2>1, ErasedFacts
  <2> QED BY <1>2, <2>1, <2>2
<1>10. ASSUME Clear
       PROVE  inserting' = inserting /\ Len(cache_list') <= Len(cache_list)
  BY <1>2, <1>10 DEF Clear
<1>11. ASSUME ResetStats
       PROVE  inserting' = inserting /\ Len(cache_list') <= Len(cache_list)
  BY <1>2, <1>11 DEF ResetStats, lru
<1> QED BY <1>3, <1>4, <1>5, <1>6, <1>7, <1>8, <1>9, <1>10, <1>11 DEF Next

\* Inside put the loop has a tile to evict as long as a limit is exceeded, and each
\* round leaves one less: evict_lru, which returns at once on an empty list, is never
\* called on one, and a put takes no more rounds than there are tiles (cache.cpp:217).
LoopAdvances == inserting # Idle /\ ShouldEvict => cache_list # << >>

THEOREM LoopAlwaysAdvances ==
  Spec => /\ []LoopAdvances
          /\ [][inserting # Idle => Len(cache_list') < Len(cache_list) \/ UNCHANGED cache_list]_vars
<1>1. IInv => LoopAdvances
  <2> SUFFICES ASSUME IInv, cache_list = << >> PROVE ~ ShouldEvict
    BY DEF LoopAdvances
  <2>1. ListSizes = << >> /\ Len(cache_list) = 0
    BY DEF ListSizes
  <2>2. current_size_bytes = 0
    BY <2>1, SumEmpty DEF IInv, Accounting
  <2> QED BY <2>1, <2>2 DEF ShouldEvict
<1>2. IInv /\ [Next]_vars =>
        [inserting # Idle => Len(cache_list') < Len(cache_list) \/ UNCHANGED cache_list]_vars
  <2> SUFFICES ASSUME IInv, [Next]_vars, inserting # Idle
               PROVE  Len(cache_list') < Len(cache_list) \/ UNCHANGED cache_list
    OBVIOUS
  <2>1. CASE EvictLru
    <3>1. cache_list \in Seq(Node) /\ cache_list # << >> /\ cache_list' = Front(cache_list)
      BY <2>1 DEF EvictLru, IInv, TypeOK
    <3> QED BY <3>1, FrontFacts
  <2>2. CASE PutReturn \/ UNCHANGED vars
    BY <2>2 DEF PutReturn, vars, lru
  <2> QED BY <2>1, <2>2
          DEF Next, GetMiss, GetHit, PutUpdate, PutInsert, Evict, Clear, ResetStats, Locked
<1> QED BY <1>1, <1>2, Invariance, PTL DEF Spec

\* max_entries_ is never exceeded outside put, and by one tile inside it.
THEOREM EntriesNeverExceedLimit == Spec => []EntriesWithinLimit
<1>1. Init => EntriesWithinLimit
  BY DEF Init, EntriesWithinLimit
<1>2. IInv /\ EntriesWithinLimit /\ [Next]_vars => EntriesWithinLimit'
  <2> SUFFICES ASSUME IInv, EntriesWithinLimit, [Next]_vars
               PROVE  EntriesWithinLimit'
    OBVIOUS
  <2>1. Len(cache_list) \in Nat
    BY DEF IInv, TypeOK
  <2>2. IInv'
    BY StepIInv
  <2>3. Len(cache_list') \in Nat
    BY <2>2 DEF IInv, TypeOK
  <2>4. CASE UNCHANGED vars
    BY <2>4 DEF vars, lru, EntriesWithinLimit
  <2>5. CASE Next
    <3>1. CASE inserting' = inserting /\ Len(cache_list') <= Len(cache_list)
      BY <2>1, <2>3, <3>1 DEF EntriesWithinLimit
    <3>2. CASE /\ inserting = Idle /\ inserting' # Idle
               /\ Len(cache_list') = Len(cache_list) + 1
      BY <2>1, <3>2 DEF EntriesWithinLimit
    <3>3. CASE inserting' = Idle /\ ~ ShouldEvict /\ cache_list' = cache_list
      BY <2>1, <3>3 DEF EntriesWithinLimit, ShouldEvict
    <3> QED BY <2>5, <3>1, <3>2, <3>3, LengthStep
  <2> QED BY <2>4, <2>5
<1>3. Spec => Init /\ [][Next]_vars
  BY DEF Spec
<1> QED BY <1>1, <1>2, <1>3, Invariance, PTL

\* A put never evicts its own tile if that tile fits: the front node is evicted
\* only when it is alone, and alone it is within both limits.
THEOREM NewestAlwaysSurvives == Spec => []NewestSurvives
<1>1. Init => NewestSurvives
  BY DEF Init, NewestSurvives
<1>2. IInv /\ NewestSurvives /\ [Next]_vars => NewestSurvives'
  <2> SUFFICES ASSUME IInv, NewestSurvives, [Next]_vars, inserting' # Idle,
                      inserting'.entry_size <= MaxBytes
               PROVE  /\ cache_list' # << >>
                      /\ entry'[cache_list'[1]].key = inserting'.key
                      /\ entry'[cache_list'[1]].size_bytes = inserting'.entry_size
    BY DEF NewestSurvives
  <2>1. TypeOK /\ MapMatchesList /\ Accounting
    BY DEF IInv
  <2>2. /\ cache_list \in Seq(Node) /\ Len(cache_list) \in Nat
        /\ DOMAIN cache_list = 1..Len(cache_list)
        /\ entry \in [Node -> TileEntry \cup {Freed}]
    BY <2>1 DEF TypeOK
  <2>3. ASSUME NEW k \in Key, NEW d \in Data \cup {NoData}, PutInsert(k, d)
        PROVE  /\ cache_list' # << >>
               /\ entry'[cache_list'[1]].key = inserting'.key
               /\ entry'[cache_list'[1]].size_bytes = inserting'.entry_size
    <3> DEFINE v == [key |-> k, data |-> d, size_bytes |-> Footprint(d), last_access |-> now']
    <3>1. PICK n \in Node : entry' = [entry EXCEPT ![n] = v] /\ cache_list' = Cons(n, cache_list)
      BY <2>3 DEF PutInsert
    <3>2. inserting' = [key |-> k, entry_size |-> Footprint(d)]
      BY <2>3 DEF PutInsert
    <3>3. Cons(n, cache_list)[1] = n /\ Len(Cons(n, cache_list)) = Len(cache_list) + 1
      BY <2>2, ConsNode
    <3>4. Cons(n, cache_list) \in Seq(Node)
      BY <2>2, ConsNode
    <3>5. cache_list' # << >>
      BY <2>2, <3>1, <3>3, <3>4
    <3>6. entry'[n] = v
      BY <2>2, <3>1
    <3> QED BY <3>1, <3>2, <3>3, <3>5, <3>6
  <2>4. ASSUME EvictLru
        PROVE  /\ cache_list' # << >>
               /\ entry'[cache_list'[1]].key = inserting'.key
               /\ entry'[cache_list'[1]].size_bytes = inserting'.entry_size
    <3> DEFINE n == Last(cache_list)
               p == Len(cache_list)
    <3>1. /\ inserting' = inserting /\ ShouldEvict /\ cache_list # << >>
          /\ cache_list' = Front(cache_list)
          /\ entry' = [entry EXCEPT ![n] = Freed]
      BY <2>4 DEF EvictLru
    <3>2. /\ entry[cache_list[1]].key = inserting.key
          /\ entry[cache_list[1]].size_bytes = inserting.entry_size
          /\ inserting.entry_size <= MaxBytes
      BY <3>1 DEF NewestSurvives
    <3>3. /\ Front(cache_list) \in Seq(Node) /\ p \in 1..p /\ n = cache_list[p]
          /\ Len(Front(cache_list)) = p - 1
      BY <2>2, <3>1, FrontFacts
    <3>4. \A i \in 1..(p-1) : Front(cache_list)[i] = cache_list[i]
      BY <2>2, <3>1, FrontFacts
    <3>5. p # 1
      <4> SUFFICES ASSUME p = 1 PROVE FALSE
        OBVIOUS
      <4>1. /\ ListSizes \in Seq(Nat) /\ Len(ListSizes) = 1
            /\ ListSizes[1] = entry[cache_list[1]].size_bytes
        <5>1. \A x \in ToSet(cache_list) : entry[x] # Freed
          BY <2>1 DEF MapMatchesList
        <5>2. /\ Sizes(cache_list, entry) \in Seq(Nat)
              /\ Len(Sizes(cache_list, entry)) = Len(cache_list)
          BY <2>2, <5>1, SizesFacts
        <5>3. \A i \in 1..Len(cache_list) :
                Sizes(cache_list, entry)[i] = entry[cache_list[i]].size_bytes
          BY <2>2, <5>1, SizesFacts
        <5> QED BY <5>2, <5>3 DEF Sizes, ListSizes
      <4>2. SumSeq(ListSizes) = ListSizes[1]
        BY <4>1, SumSingle
      <4>3. current_size_bytes = inserting.entry_size
        BY <2>1, <3>2, <4>1, <4>2 DEF Accounting
      <4>4. ~ (1 > MaxEntries)
        OBVIOUS
      <4> QED BY <2>1, <3>1, <3>2, <4>3, <4>4 DEF ShouldEvict, TypeOK
    <3>6. 1 \in 1..(p-1) /\ 1 \in DOMAIN cache_list /\ p \in DOMAIN cache_list
      BY <2>2, <3>3, <3>5
    <3>7. cache_list'[1] = cache_list[1] /\ cache_list' # << >>
      BY <3>1, <3>3, <3>4, <3>6
    <3>8. cache_list[1] # n /\ cache_list[1] \in Node
      <4>1. IsInjective(cache_list)
        BY <2>1 DEF MapMatchesList
      <4>2. cache_list[1] # cache_list[p]
        BY <3>5, <3>6, <4>1 DEF IsInjective
      <4> QED BY <2>2, <3>3, <3>6, <4>2
    <3>9. entry'[cache_list[1]] = entry[cache_list[1]]
      <4> HIDE DEF n
      <4> QED BY <2>2, <3>1, <3>8
    <3> QED BY <3>1, <3>2, <3>7, <3>9
  <2>5. ASSUME NEW k \in Key, GetMiss(k) \/ GetHit(k) \/ Evict(k)
        PROVE  FALSE
    BY <2>5 DEF GetMiss, GetHit, Evict, Locked
  <2>6. ASSUME NEW k \in Key, NEW d \in Data \cup {NoData}, PutUpdate(k, d)
        PROVE  FALSE
    BY <2>6 DEF PutUpdate, Locked, stats
  <2>7. ASSUME PutReturn \/ Clear \/ ResetStats
        PROVE  FALSE
    BY <2>7 DEF PutReturn, Clear, ResetStats, Locked
  <2>8. CASE UNCHANGED vars
    BY <2>8 DEF vars, lru, NewestSurvives
  <2> QED BY <2>3, <2>4, <2>5, <2>6, <2>7, <2>8 DEF Next
<1>3. Spec => Init /\ [][Next]_vars
  BY DEF Spec
<1> QED BY <1>1, <1>2, <1>3, Invariance, PTL

\* The access times of a list, the most recent first, none later than t.
Recency(a, len, t) ==
  /\ a \in [1..len -> Nat]
  /\ \A i, j \in 1..len : i < j => a[j] <= a[i]
  /\ \A i \in 1..len : a[i] <= t

\* Position p is moved to the front, and its access time becomes u.
TimesTouched(a, b, len, p, u) ==
  /\ p \in 1..len
  /\ b \in [1..len -> Nat]
  /\ b[1] = u
  /\ \A i \in 2..len : b[i] = IF i <= p THEN a[i-1] ELSE a[i]

LEMMA RecencyTouch ==
  ASSUME NEW len, NEW p, NEW t, NEW u, NEW a, NEW b,
         len \in Nat, t \in Nat, u \in Nat, t <= u,
         Recency(a, len, t), TimesTouched(a, b, len, p, u)
  PROVE  Recency(b, len, u)
<1> USE DEF TimesTouched
<1>1. ASSUME NEW i \in 1..len
      PROVE  b[i] <= u
  <2>1. CASE i = 1
    BY <2>1
  <2>2. CASE i # 1
    <3>1. i \in 2..len /\ i-1 \in 1..len
      BY <2>2
    <3>2. a[i-1] <= t /\ a[i] <= t /\ a[i-1] \in Nat /\ a[i] \in Nat
      BY <3>1 DEF Recency
    <3>3. b[i] = IF i <= p THEN a[i-1] ELSE a[i]
      BY <3>1
    <3> QED BY <3>2, <3>3
  <2> QED BY <2>1, <2>2
<1>2. ASSUME NEW i \in 1..len, NEW j \in 1..len, i < j
      PROVE  b[j] <= b[i]
  <2>1. CASE i = 1
    BY <2>1, <1>1
  <2>2. CASE i # 1
    <3>1. i \in 2..len /\ j \in 2..len /\ i-1 \in 1..len /\ j-1 \in 1..len
      BY <1>2, <2>2
    <3>2. b[i] = (IF i <= p THEN a[i-1] ELSE a[i]) /\ b[j] = IF j <= p THEN a[j-1] ELSE a[j]
      BY <3>1
    <3>3. a[j-1] <= a[i-1] /\ a[j] <= a[i] /\ a[j] <= a[i-1]
      BY <1>2, <3>1 DEF Recency
    <3> QED BY <1>2, <3>1, <3>2, <3>3
  <2> QED BY <2>1, <2>2
<1> QED BY <1>1, <1>2 DEF Recency

\* An access time u is put in front of the others.
TimesPushed(a, b, len, u) ==
  /\ b \in [1..(len+1) -> Nat]
  /\ b[1] = u
  /\ \A i \in 1..len : b[i+1] = a[i]

LEMMA RecencyPush ==
  ASSUME NEW len, NEW t, NEW u, NEW a, NEW b,
         len \in Nat, t \in Nat, u \in Nat, t <= u,
         Recency(a, len, t), TimesPushed(a, b, len, u)
  PROVE  Recency(b, len+1, u)
<1> USE DEF TimesPushed
<1>1. ASSUME NEW i \in 2..(len+1)
      PROVE  i-1 \in 1..len /\ b[i] = a[i-1] /\ a[i-1] <= t /\ a[i-1] \in Nat
  <2>1. i-1 \in 1..len /\ (i-1)+1 = i
    OBVIOUS
  <2>2. b[(i-1)+1] = a[i-1]
    BY <2>1
  <2> QED BY <2>1, <2>2 DEF Recency
<1>2. ASSUME NEW i \in 1..(len+1)
      PROVE  b[i] <= u
  <2>1. CASE i = 1
    BY <2>1
  <2>2. CASE i # 1
    <3>1. i \in 2..(len+1)
      BY <2>2
    <3>2. b[i] = a[i-1] /\ a[i-1] <= t /\ a[i-1] \in Nat
      BY <3>1, <1>1
    <3> QED BY <3>2
  <2> QED BY <2>1, <2>2
<1>3. ASSUME NEW i \in 1..(len+1), NEW j \in 1..(len+1), i < j
      PROVE  b[j] <= b[i]
  <2>1. CASE i = 1
    BY <2>1, <1>2
  <2>2. CASE i # 1
    <3>1. i \in 2..(len+1) /\ j \in 2..(len+1) /\ i-1 < j-1
      BY <2>2, <1>3
    <3>2. b[i] = a[i-1] /\ b[j] = a[j-1] /\ i-1 \in 1..len /\ j-1 \in 1..len
      BY <3>1, <1>1
    <3>3. a[j-1] <= a[i-1]
      BY <3>1, <3>2 DEF Recency
    <3> QED BY <3>2, <3>3
  <2> QED BY <2>1, <2>2
<1> QED BY <1>2, <1>3 DEF Recency

LEMMA RecencyDrop ==
  ASSUME NEW len \in Nat, NEW p \in 1..len, NEW t,
         NEW a, Recency(a, len, t),
         NEW b, b \in [1..(len-1) -> Nat],
         \A i \in 1..(len-1) : b[i] = IF i < p THEN a[i] ELSE a[i+1]
  PROVE  Recency(b, len-1, t)
<1>1. ASSUME NEW i \in 1..(len-1)
      PROVE  /\ i \in 1..len /\ i+1 \in 1..len
             /\ b[i] = IF i < p THEN a[i] ELSE a[i+1]
  OBVIOUS
<1>2. ASSUME NEW i \in 1..(len-1)
      PROVE  b[i] <= t
  BY <1>1 DEF Recency
<1>3. ASSUME NEW i \in 1..(len-1), NEW j \in 1..(len-1), i < j
      PROVE  b[j] <= b[i]
  <2>1. a[j] <= a[i] /\ a[j+1] <= a[i+1] /\ a[j+1] <= a[i]
    BY <1>1, <1>3 DEF Recency
  <2> QED BY <1>1, <1>3, <2>1
<1> QED BY <1>2, <1>3 DEF Recency

Times(l, e) == [i \in 1..Len(l) |-> e[l[i]].last_access]

LEMMA TimesType ==
  ASSUME NEW l, NEW m, NEW e, Wf(l, m, e)
  PROVE  Times(l, e) \in [1..Len(l) -> Nat]
<1>1. ASSUME NEW i \in 1..Len(l)
      PROVE  e[l[i]].last_access \in Nat
  <2>1. l \in Seq(Node) /\ l[i] \in Node /\ l[i] \in ToSet(l)
    BY DEF Wf, ToSet
  <2>2. e[l[i]] \in TileEntry
    BY <2>1 DEF Wf
  <2> QED BY <2>2 DEF TileEntry
<1> QED BY <1>1 DEF Times

RecencyInv == Recency(Times(cache_list, entry), Len(cache_list), now)

\* The list stays sorted by access time, newest first, and no access time lies
\* in the future of the clock.
LEMMA RecencyStep == IInv /\ RecencyInv /\ [Next]_vars => RecencyInv'
<1> SUFFICES ASSUME IInv, RecencyInv, [Next]_vars PROVE RecencyInv'
  OBVIOUS
<1> DEFINE len == Len(cache_list)
           a == Times(cache_list, entry)
           b == Times(cache_list', entry')
<1>1. TypeOK /\ MapMatchesList /\ TypeOK'
  BY StepIInv DEF IInv
<1>2. Wf(cache_list, cache_map, entry) /\ Wf(cache_list', cache_map', entry')
  BY StepIInv, IInvAsWf DEF IInv, TypeOK, MapMatchesList, Accounting, Wf, Found
<1>3. a \in [1..len -> Nat] /\ b \in [1..Len(cache_list') -> Nat]
  BY <1>2, TimesType
<1>4. /\ len \in Nat /\ Len(cache_list') \in Nat /\ now \in Nat /\ now' \in Nat
      /\ cache_list \in Seq(Node) /\ entry \in [Node -> TileEntry \cup {Freed}]
      /\ IsInjective(cache_list) /\ DOMAIN cache_list = 1..len
  BY <1>1 DEF TypeOK, MapMatchesList
<1>5. Recency(a, len, now)
  BY DEF RecencyInv
<1>6. \A i \in 1..len : a[i] = entry[cache_list[i]].last_access
  BY DEF Times
<1>7. \A i \in 1..Len(cache_list') : b[i] = entry'[cache_list'[i]].last_access
  BY DEF Times
<1>8. SUFFICES Recency(b, Len(cache_list'), now')
  BY DEF RecencyInv
<1> HIDE DEF a, b, len
<1>9. ASSUME cache_list' = cache_list, entry' = entry, now' = now
      PROVE  Recency(b, Len(cache_list'), now')
  BY <1>5, <1>9 DEF a, b, len
<1>10. ASSUME NEW k \in Key, GetHit(k) \/ \E d \in Data \cup {NoData} : PutUpdate(k, d)
       PROVE  Recency(b, Len(cache_list'), now')
  <2> DEFINE n == cache_map[k]
             p == PositionOf(n)
  <2>1. Found(k) /\ cache_list' = MoveToFront(n) /\ now' \in now..MaxNow
    BY <1>10 DEF GetHit, PutUpdate, ReadClock
  <2>2. /\ n \in Node /\ p \in 1..Len(cache_list) /\ cache_list[p] = n
        /\ entry[n] \in TileEntry
    BY <1>1, <2>1, FoundFacts
  <2>3. /\ \A x \in Node : x # n => entry'[x] = entry[x]
        /\ entry'[n].last_access = now'
    <3>1. CASE GetHit(k)
      <4>1. entry' = [entry EXCEPT ![n] = [entry[n] EXCEPT !.last_access = now']]
        BY <3>1 DEF GetHit
      <4> HIDE DEF n
      <4> QED BY <4>1, <2>2, <1>4 DEF TileEntry
    <3>2. ASSUME NEW d \in Data \cup {NoData}, PutUpdate(k, d)
          PROVE  /\ \A x \in Node : x # n => entry'[x] = entry[x]
                 /\ entry'[n].last_access = now'
      <4>1. entry' = [entry EXCEPT ![n] = [entry[n] EXCEPT !.data = d,
                                           !.size_bytes = SizeOf[d], !.last_access = now']]
        BY <3>2 DEF PutUpdate
      <4> HIDE DEF n
      <4> QED BY <4>1, <2>2, <1>4 DEF TileEntry
    <3> QED BY <1>10, <3>1, <3>2
  <2>4. /\ Len(cache_list') = len /\ cache_list'[1] = n
        /\ IsInjective(cache_list') /\ cache_list' \in Seq(Node)
    BY <1>1, <2>1, MoveToFrontFacts DEF len
  <2>5. \A i \in 2..len :
          cache_list'[i] = IF i <= p THEN cache_list[i-1] ELSE cache_list[i]
    BY <1>1, <2>1, MoveToFrontFacts DEF len
  <2> HIDE DEF n, p
  <2>6. 1 \in 1..len /\ DOMAIN cache_list' = 1..len
    BY <1>4, <2>2, <2>4 DEF len
  <2>7. b[1] = now'
    BY <1>7, <2>3, <2>4, <2>6
  <2>8. ASSUME NEW i \in 2..len
        PROVE  b[i] = IF i <= p THEN a[i-1] ELSE a[i]
    <3>1. i \in 1..len /\ i-1 \in 1..len /\ i # 1
      BY <1>4
    <3>2. cache_list'[i] # n /\ cache_list'[i] \in Node
      BY <2>4, <2>6, <3>1 DEF IsInjective
    <3>3. b[i] = entry[cache_list'[i]].last_access
      BY <1>7, <2>3, <2>4, <3>1, <3>2
    <3> QED BY <1>6, <2>5, <3>1, <3>3
  <2>9. p \in 1..len /\ b \in [1..len -> Nat]
    BY <1>3, <2>2, <2>4 DEF len
  <2>10. TimesTouched(a, b, len, p, now')
    BY <2>7, <2>8, <2>9 DEF TimesTouched
  <2>11. len \in Nat /\ now \in Nat /\ now' \in Nat /\ now <= now'
    BY <1>4, <2>1
  <2>12. Recency(b, len, now')
    BY ONLY <1>5, <2>10, <2>11, RecencyTouch
  <2> QED BY <2>4, <2>12
<1>11. ASSUME NEW k \in Key, NEW d \in Data \cup {NoData}, PutInsert(k, d)
       PROVE  Recency(b, Len(cache_list'), now')
  <2> DEFINE v == [key |-> k, data |-> d, size_bytes |-> Footprint(d), last_access |-> now']
  <2>1. PICK n \in Node : /\ entry[n] = Freed
                          /\ entry' = [entry EXCEPT ![n] = v]
                          /\ cache_list' = Cons(n, cache_list)
    BY <1>11 DEF PutInsert
  <2>2. Len(cache_list') = len + 1 /\ cache_list'[1] = n
    BY <1>4, <2>1, ConsNode DEF len
  <2>3. \A i \in 1..Len(cache_list) : Cons(n, cache_list)[i+1] = cache_list[i]
    BY <1>4, ConsNodeShift
  <2>4. now' \in now..MaxNow
    BY <1>11 DEF PutInsert, ReadClock
  <2>5. v.last_access = now'
    OBVIOUS
  <2> HIDE DEF v
  <2>6. entry'[n] = v /\ \A x \in Node : x # n => entry'[x] = entry[x]
    BY <1>4, <2>1
  <2>7. b[1] = now'
    BY <1>4, <1>7, <2>2, <2>5, <2>6
  <2>8. ASSUME NEW i \in 1..len
        PROVE  b[i+1] = a[i]
    <3>1. i+1 \in 1..Len(cache_list') /\ cache_list'[i+1] = cache_list[i]
      BY <1>4, <2>1, <2>2, <2>3 DEF len
    <3>2. cache_list[i] \in Node /\ cache_list[i] \in ToSet(cache_list)
      BY <1>4 DEF ToSet
    <3>3. entry[cache_list[i]] # Freed
      BY <1>1, <3>2 DEF MapMatchesList
    <3>4. cache_list[i] # n
      BY <2>1, <3>3
    <3> QED BY <1>6, <1>7, <2>6, <3>1, <3>2, <3>4
  <2>9. b \in [1..(len+1) -> Nat]
    BY <1>3, <2>2
  <2>10. TimesPushed(a, b, len, now')
    BY <2>7, <2>8, <2>9 DEF TimesPushed
  <2>11. len \in Nat /\ now \in Nat /\ now' \in Nat /\ now <= now'
    BY <1>4, <2>4
  <2>12. Recency(b, len+1, now')
    BY ONLY <1>5, <2>10, <2>11, RecencyPush
  <2> QED BY <2>2, <2>12
<1>12. ASSUME EvictLru \/ \E k \in Key : Evict(k)
       PROVE  Recency(b, Len(cache_list'), now')
  <2> DEFINE Freeing(n, p) ==
               /\ cache_list[p] = n
               /\ Len(cache_list') = len - 1
               /\ \A i \in 1..(len-1) :
                    cache_list'[i] = IF i < p THEN cache_list[i] ELSE cache_list[i+1]
               /\ entry' = [entry EXCEPT ![n] = Freed]
               /\ now' = now
  <2>1. \E n \in Node, p \in 1..len : Freeing(n, p)
    <3>1. CASE EvictLru
      <4>1. /\ cache_list # << >> /\ cache_list' = Front(cache_list) /\ now' = now
            /\ entry' = [entry EXCEPT ![Last(cache_list)] = Freed]
        BY <3>1 DEF EvictLru
      <4>2. /\ len \in 1..len /\ Last(cache_list) = cache_list[len]
            /\ Len(cache_list') = len - 1
        BY <1>4, <4>1, FrontFacts DEF len
      <4>3. \A i \in 1..(len-1) : cache_list'[i] = cache_list[i]
        BY <1>4, <4>1, FrontFacts DEF len
      <4>4. Last(cache_list) \in Node
        BY <1>4, <4>2 DEF len
      <4>5. \A i \in 1..(len-1) :
              cache_list'[i] = IF i < len THEN cache_list[i] ELSE cache_list[i+1]
        BY <1>4, <4>3
      <4>6. Freeing(Last(cache_list), len)
        BY <4>1, <4>2, <4>5
      <4> QED BY <4>2, <4>4, <4>6
    <3>2. ASSUME NEW k \in Key, Evict(k)
          PROVE  \E n \in Node, p \in 1..len : Freeing(n, p)
      <4> DEFINE m == cache_map[k]
                 q == PositionOf(m)
      <4>1. /\ Found(k) /\ cache_list' = Erased(m) /\ now' = now
            /\ entry' = [entry EXCEPT ![m] = Freed]
        BY <3>2 DEF Evict
      <4>2. m \in Node /\ q \in 1..len /\ cache_list[q] = m
        BY <1>1, <4>1, FoundFacts DEF len
      <4>3. Len(Erased(m)) = len - 1
        BY <1>1, <4>1, ErasedFacts DEF len
      <4>4. \A i \in 1..(len-1) :
              Erased(m)[i] = IF i < q THEN cache_list[i] ELSE cache_list[i+1]
        BY <1>1, <4>1, ErasedFacts DEF len
      <4> HIDE DEF m, q
      <4>5. Freeing(m, q)
        BY <4>1, <4>2, <4>3, <4>4
      <4> QED BY <4>2, <4>5
    <3> QED BY <1>12, <3>1, <3>2
  <2>2. PICK n \in Node, p \in 1..len : Freeing(n, p)
    BY <2>1
  <2>3. ASSUME NEW i \in 1..(len-1)
        PROVE  b[i] = IF i < p THEN a[i] ELSE a[i+1]
    <3>1. i \in 1..Len(cache_list') /\ i \in 1..len /\ i+1 \in 1..len /\ p \in 1..len
      BY <1>4, <2>2
    <3>2. cache_list'[i] = IF i < p THEN cache_list[i] ELSE cache_list[i+1]
      BY <2>2
    <3>3. cache_list'[i] # n /\ cache_list'[i] \in Node
      <4>1. cache_list[p] = n
        BY <2>2
      <4>2. CASE i < p
        <5>1. i # p /\ cache_list'[i] = cache_list[i]
          BY <3>1, <3>2, <4>2
        <5> QED BY <1>4, <3>1, <4>1, <5>1 DEF IsInjective
      <4>3. CASE ~ (i < p)
        <5>1. i+1 # p /\ cache_list'[i] = cache_list[i+1]
          BY <3>1, <3>2, <4>3
        <5> QED BY <1>4, <3>1, <4>1, <5>1 DEF IsInjective
      <4> QED BY <4>2, <4>3
    <3>4. entry'[cache_list'[i]] = entry[cache_list'[i]]
      BY <1>4, <2>2, <3>3
    <3> QED BY <1>6, <1>7, <3>1, <3>2, <3>4
  <2>4. b \in [1..(len-1) -> Nat]
    BY <1>3, <2>2
  <2>5. Recency(b, len-1, now)
    BY <1>4, <1>5, <2>3, <2>4, RecencyDrop
  <2> QED BY <2>2, <2>5
<1>13. ASSUME Clear
       PROVE  Recency(b, Len(cache_list'), now')
  <2>1. Len(cache_list') = 0
    BY <1>13 DEF Clear
  <2> QED BY <1>3, <2>1 DEF Recency
<1>14. ASSUME NEW k \in Key, GetMiss(k)
       PROVE  Recency(b, Len(cache_list'), now')
  BY <1>9, <1>14 DEF GetMiss, lru
<1>15. ASSUME PutReturn \/ ResetStats \/ UNCHANGED vars
       PROVE  Recency(b, Len(cache_list'), now')
  BY <1>9, <1>15 DEF PutReturn, ResetStats, vars, lru
<1> QED BY <1>10, <1>11, <1>12, <1>13, <1>14, <1>15 DEF Next

\* Evicting the back of the list evicts the tile that was used least recently.
THEOREM ListIsInLruOrder == Spec => []LruOrder
<1>1. Init => RecencyInv
  BY DEF Init, RecencyInv, Recency, Times
<1>2. IInv /\ RecencyInv => LruOrder
  <2> SUFFICES ASSUME IInv, RecencyInv PROVE LruOrder
    OBVIOUS
  <2>1. DOMAIN cache_list = 1..Len(cache_list)
    BY DEF IInv, TypeOK
  <2> QED BY <2>1 DEF LruOrder, RecencyInv, Recency, Times
<1>3. Spec => Init /\ [][Next]_vars
  BY DEF Spec
<1> QED BY <1>1, <1>2, <1>3, RecencyStep, Invariance, PTL
=============================================================================
