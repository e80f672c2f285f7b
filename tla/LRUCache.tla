------------------------------ MODULE LRUCache ------------------------------
(***************************************************************************)
(* An LRU cache with the operations of TileCache: a map from keys to       *)
(* payloads with a recency order, in which a look-up refreshes the key it  *)
(* finds, and an insertion that makes the cache too large drops the least  *)
(* recent keys, and only those, down to the limits.  Every operation is    *)
(* one atomic step: there is no mutex, no list node and no eviction loop.  *)
(*                                                                         *)
(* The statistics count what the code counts.  That is not what cache.hpp  *)
(* says of them: there clear resets them (line 133; ClearResetsStats in    *)
(* module TileCache states it, and the code breaks it), and evictions are  *)
(* those due to limits (line 145), where here evict(key) counts as well.   *)
(***************************************************************************)
EXTENDS Integers, Sequences, SequencesExt, Sums

CONSTANTS Key,         \* tile keys
          Data,        \* tile payloads
          NoData,      \* the null pointer
          SizeOf,      \* payload -> bytes
          MaxEntries,  \* entry limit
          MaxBytes,    \* byte limit
          CounterMod   \* the counters count modulo this

VARIABLES order,      \* cached keys, most recently used first
          store,      \* Key -> payload, NoData where nothing is cached
          reply,      \* what the last look-up returned
          hits, misses, evictions

vars == <<order, store, reply, hits, misses, evictions>>

Cached(k) == store[k] # NoData

Init == /\ order = << >>
        /\ store = [k \in Key |-> NoData]
        /\ reply = NoData
        /\ hits = 0 /\ misses = 0 /\ evictions = 0

\* The order without a cached key, and with it at the front.
Dropped(k)   == RemoveAt(order, CHOOSE i \in DOMAIN order : order[i] = k)
Refreshed(k) == <<k>> \o Dropped(k)

\* The longest prefix of a key order that both limits allow.
Fitting(ks, contents) ==
  LET total == PrefixSums([i \in DOMAIN ks |-> SizeOf[contents[ks[i]]]])
      fits  == {n \in 0..Len(ks) : n <= MaxEntries /\ total[n] <= MaxBytes}
  IN  SubSeq(ks, 1, CHOOSE n \in fits : \A m \in fits : m <= n)

Hit(k) == /\ Cached(k)
          /\ order' = Refreshed(k)
          /\ reply' = store[k]
          /\ hits' = (hits + 1) % CounterMod
          /\ UNCHANGED <<store, misses, evictions>>

Miss(k) == /\ ~ Cached(k)
           /\ reply' = NoData
           /\ misses' = (misses + 1) % CounterMod
           /\ UNCHANGED <<order, store, hits, evictions>>

\* A put over a cached key replaces the payload and never drops another key,
\* however large the new payload is.
Update(k, d) == /\ Cached(k)
                /\ order' = Refreshed(k)
                /\ store' = [store EXCEPT ![k] = d]
                /\ UNCHANGED <<reply, hits, misses, evictions>>

\* A put of a new key keeps the longest recent prefix that fits.
Insert(k, d) ==
  LET all  == [store EXCEPT ![k] = d]
      kept == Fitting(<<k>> \o order, all)
  IN  /\ ~ Cached(k)
      /\ order' = kept
      /\ store' = [x \in Key |-> IF x \in ToSet(kept) THEN all[x] ELSE NoData]
      /\ evictions' = (evictions + Len(order) + 1 - Len(kept)) % CounterMod
      /\ UNCHANGED <<reply, hits, misses>>

\* An explicit eviction is counted with the others.
Evict(k) == /\ Cached(k)
            /\ order' = Dropped(k)
            /\ store' = [store EXCEPT ![k] = NoData]
            /\ evictions' = (evictions + 1) % CounterMod
            /\ UNCHANGED <<reply, hits, misses>>

\* clear and shutdown: the statistics stay as they are.
Empty == /\ order' = << >>
         /\ store' = [k \in Key |-> NoData]
         /\ UNCHANGED <<reply, hits, misses, evictions>>

ResetStats == /\ hits' = 0 /\ misses' = 0 /\ evictions' = 0
              /\ UNCHANGED <<order, store, reply>>

Next == \/ \E k \in Key : Hit(k) \/ Miss(k) \/ Evict(k)
        \/ \E k \in Key, d \in Data : Update(k, d) \/ Insert(k, d)
        \/ Empty
        \/ ResetStats

Spec == Init /\ [][Next]_vars
=============================================================================
