------------------------------ MODULE TileCache ------------------------------
(***************************************************************************)
(* remoteview::TileCache (src/tile_cache): a hash map from tile keys to    *)
(* the nodes of a doubly linked list kept in recency order, with a running *)
(* byte total and statistics.                                              *)
(*                                                                         *)
(* List nodes are explicit, because the map stores iterators: a splice     *)
(* keeps a node, an erase frees it, and an iterator to a freed node would  *)
(* dangle.  Every public operation holds cache_mutex_ to its end, so it is *)
(* one action, except that a put of a new key runs a loop: `inserting` is  *)
(* the frame of a put that is inside its eviction loop, with the mutex     *)
(* held, and the other operations wait until it is Idle again.             *)
(***************************************************************************)
EXTENDS Integers, Sequences, SequencesExt, Sums

CONSTANTS Key,         \* TileKey values
          Data,        \* TileData payloads
          NoData,      \* a null unique_ptr<TileData>
          SizeOf,      \* [Data -> Nat]: data->data.size()
          Node,        \* list nodes the allocator can hand out
          NoNode,      \* end(): the key has no map entry
          Freed,       \* contents of a node that is not allocated
          Idle,        \* no put is in progress
          MaxEntries,  \* max_entries_
          MaxBytes,    \* max_size_bytes_
          CounterMod,  \* the statistics wrap here (2^64 for size_t)
          MaxNow       \* bound on the steady clock

ASSUME CacheAssumption ==
  /\ NoData \notin Data
  /\ NoNode \notin Node
  /\ SizeOf \in [Data -> Nat]
  /\ MaxEntries \in Nat \ {0}
  /\ MaxBytes \in Nat
  /\ CounterMod \in Nat \ {0}
  /\ MaxNow \in Nat

TileEntry == [key : Key, data : Data, size_bytes : Nat, last_access : 0..MaxNow]
PutFrame  == [key : Key, entry_size : Nat]

ASSUME MarkerAssumption == Freed \notin TileEntry /\ Idle \notin PutFrame

VARIABLES cache_list,           \* nodes, most recently used first
          cache_map,            \* Key -> node, or NoNode
          entry,                \* Node -> TileEntry, or Freed
          current_size_bytes,
          hits, misses, evictions,
          inserting,            \* Idle, or the put that holds cache_mutex_
          result,               \* what the last get returned
          now                   \* steady_clock

lru   == <<cache_list, cache_map, entry, current_size_bytes>>
stats == <<hits, misses, evictions>>
vars  == <<lru, stats, inserting, result, now>>

Init == /\ cache_list = << >>
        /\ cache_map = [k \in Key |-> NoNode]
        /\ entry = [n \in Node |-> Freed]
        /\ current_size_bytes = 0
        /\ hits = 0 /\ misses = 0 /\ evictions = 0
        /\ inserting = Idle
        /\ result = NoData
        /\ now = 0
-----------------------------------------------------------------------------
PositionOf(n) == CHOOSE i \in DOMAIN cache_list : cache_list[i] = n

\* cache_list_.erase(it)
Erased(n) == RemoveAt(cache_list, PositionOf(n))

\* Mutant: a look-up that does not refresh its tile.
MoveNowhere(n) == cache_list

\* splice(begin(), cache_list_, it): the node itself moves.
MoveToFront(n) == IF n = cache_list[1] THEN cache_list ELSE Cons(n, Erased(n))

\* Mutant: an off-by-one at the byte limit.
ShouldEvictAtLimit == Len(cache_list) > MaxEntries \/ current_size_bytes >= MaxBytes

ShouldEvict == Len(cache_list) > MaxEntries \/ current_size_bytes > MaxBytes

Counted(counter) == (counter + 1) % CounterMod

\* steady_clock::now() never goes back.
ReadClock == now' \in now..MaxNow

\* TileEntry's constructor: a null payload counts no bytes.
Footprint(d) == IF d = NoData THEN 0 ELSE SizeOf[d]

\* lock_guard lock(cache_mutex_) succeeds.
Locked == inserting = Idle

\* find(key) != end()
Found(k) == cache_map[k] # NoNode

GetMiss(k) == /\ Locked
              /\ ~ Found(k)
              /\ misses' = Counted(misses)
              /\ result' = NoData
              /\ UNCHANGED <<lru, hits, evictions, inserting, now>>

GetHit(k) ==
  LET n == cache_map[k]
  IN  /\ Locked
      /\ Found(k)
      /\ cache_list' = MoveToFront(n)
      /\ ReadClock
      /\ entry' = [entry EXCEPT ![n].last_access = now']
      /\ hits' = Counted(hits)
      /\ result' = entry[n].data
      /\ UNCHANGED <<cache_map, current_size_bytes, misses, evictions, inserting>>

\* Mutant: the bytes of the replaced payload stay in the total.
PutUpdateKeepsOld(k, d) ==
  LET n == cache_map[k]
  IN  /\ d # NoData /\ Locked /\ Found(k) /\ ReadClock
      /\ entry' = [entry EXCEPT ![n] = [key |-> k, data |-> d, size_bytes |-> SizeOf[d],
                                        last_access |-> now']]
      /\ current_size_bytes' = current_size_bytes + SizeOf[d]
      /\ cache_list' = MoveToFront(n)
      /\ UNCHANGED <<cache_map, stats, inserting, result>>

\* put over an existing key: no eviction follows.
PutUpdate(k, d) ==
  LET n == cache_map[k]
  IN  /\ d # NoData
      /\ Locked
      /\ Found(k)
      /\ ReadClock
      /\ entry' = [entry EXCEPT ![n].data = d,
                                ![n].size_bytes = SizeOf[d],
                                ![n].last_access = now']
      /\ current_size_bytes' = current_size_bytes - entry[n].size_bytes + SizeOf[d]
      /\ cache_list' = MoveToFront(n)
      /\ UNCHANGED <<cache_map, stats, inserting, result>>

\* Mutant: the early return for a null payload is gone.
PutInsertNull(k, d) ==
  /\ Locked
  /\ ~ Found(k)
  /\ ReadClock
  /\ \E n \in Node :
       /\ entry[n] = Freed
       /\ entry' = [entry EXCEPT ![n] = [key |-> k, data |-> d,
                                         size_bytes |-> Footprint(d),
                                         last_access |-> now']]
       /\ cache_list' = Cons(n, cache_list)
       /\ cache_map' = [cache_map EXCEPT ![k] = n]
  /\ current_size_bytes' = current_size_bytes + Footprint(d)
  /\ inserting' = [key |-> k, entry_size |-> Footprint(d)]
  /\ UNCHANGED <<stats, result>>

\* put of a new key, up to the eviction loop.
PutInsert(k, d) ==
  /\ d # NoData
  /\ Locked
  /\ ~ Found(k)
  /\ ReadClock
  /\ \E n \in Node :
       /\ entry[n] = Freed
       /\ entry' = [entry EXCEPT ![n] = [key |-> k, data |-> d,
                                         size_bytes |-> Footprint(d),
                                         last_access |-> now']]
       /\ cache_list' = Cons(n, cache_list)
       /\ cache_map' = [cache_map EXCEPT ![k] = n]
  /\ current_size_bytes' = current_size_bytes + Footprint(d)
  /\ inserting' = [key |-> k, entry_size |-> Footprint(d)]
  /\ UNCHANGED <<stats, result>>

\* Mutant: the map keeps the iterator of the erased node.
EvictLruKeepsMap ==
  LET n == Last(cache_list)
  IN  /\ inserting # Idle
      /\ ShouldEvict
      /\ cache_list # << >>
      /\ current_size_bytes' = current_size_bytes - entry[n].size_bytes
      /\ cache_list' = Front(cache_list)
      /\ entry' = [entry EXCEPT ![n] = Freed]
      /\ evictions' = Counted(evictions)
      /\ UNCHANGED <<hits, misses, cache_map, inserting, result, now>>

\* Mutant: the most recently used end of the list is evicted.
EvictMru ==
  LET n == Head(cache_list)
  IN  /\ inserting # Idle
      /\ ShouldEvict
      /\ cache_list # << >>
      /\ current_size_bytes' = current_size_bytes - entry[n].size_bytes
      /\ cache_map' = [cache_map EXCEPT ![entry[n].key] = NoNode]
      /\ cache_list' = Tail(cache_list)
      /\ entry' = [entry EXCEPT ![n] = Freed]
      /\ evictions' = Counted(evictions)
      /\ UNCHANGED <<hits, misses, inserting, result, now>>

\* One round of the loop; evict_lru() returns at once on an empty list.
EvictLru ==
  LET n == Last(cache_list)
  IN  /\ inserting # Idle
      /\ ShouldEvict
      /\ cache_list # << >>
      /\ current_size_bytes' = current_size_bytes - entry[n].size_bytes
      /\ cache_map' = [cache_map EXCEPT ![entry[n].key] = NoNode]
      /\ cache_list' = Front(cache_list)
      /\ entry' = [entry EXCEPT ![n] = Freed]
      /\ evictions' = Counted(evictions)
      /\ UNCHANGED <<hits, misses, inserting, result, now>>

PutReturn == /\ inserting # Idle
             /\ ~ ShouldEvict
             /\ inserting' = Idle
             /\ UNCHANGED <<lru, stats, result, now>>

Evict(k) ==
  LET n == cache_map[k]
  IN  /\ Locked
      /\ Found(k)
      /\ current_size_bytes' = current_size_bytes - entry[n].size_bytes
      /\ cache_list' = Erased(n)
      /\ entry' = [entry EXCEPT ![n] = Freed]
      /\ cache_map' = [cache_map EXCEPT ![k] = NoNode]
      /\ evictions' = Counted(evictions)
      /\ UNCHANGED <<hits, misses, inserting, result, now>>

\* Mutant: clear() forgets the byte total.
ClearKeepsTotal == /\ Locked
                   /\ cache_map' = [k \in Key |-> NoNode]
                   /\ cache_list' = << >>
                   /\ entry' = [n \in Node |-> Freed]
                   /\ UNCHANGED <<current_size_bytes, stats, inserting, result, now>>

\* clear() and shutdown(): the statistics stay as they are.
Clear == /\ Locked
         /\ cache_map' = [k \in Key |-> NoNode]
         /\ cache_list' = << >>
         /\ entry' = [n \in Node |-> Freed]
         /\ current_size_bytes' = 0
         /\ UNCHANGED <<stats, inserting, result, now>>

ResetStats == /\ Locked
              /\ hits' = 0 /\ misses' = 0 /\ evictions' = 0
              /\ UNCHANGED <<lru, inserting, result, now>>

Next == \/ \E k \in Key : GetMiss(k) \/ GetHit(k) \/ Evict(k)
        \/ \E k \in Key, d \in Data \cup {NoData} : PutUpdate(k, d) \/ PutInsert(k, d)
        \/ EvictLru
        \/ PutReturn
        \/ Clear
        \/ ResetStats

\* The thread inside put keeps running: nothing in the loop waits.
Fairness == WF_vars(EvictLru) /\ WF_vars(PutReturn)

Spec == Init /\ [][Next]_vars /\ Fairness
-----------------------------------------------------------------------------
TypeOK == /\ cache_list \in Seq(Node)
          /\ cache_map \in [Key -> Node \cup {NoNode}]
          /\ entry \in [Node -> TileEntry \cup {Freed}]
          /\ current_size_bytes \in Nat
          /\ hits \in 0..(CounterMod-1)
          /\ misses \in 0..(CounterMod-1)
          /\ evictions \in 0..(CounterMod-1)
          /\ inserting \in PutFrame \cup {Idle}
          /\ result \in Data \cup {NoData}
          /\ now \in 0..MaxNow

\* The map and the list describe the same set of tiles: a node of the list is
\* allocated, is there once, and is the one its key maps to; an iterator in the
\* map points to a node of the list holding that key.  No get or evict can
\* follow an iterator to freed memory, and no allocated node is unreachable.
MapMatchesList ==
  /\ IsInjective(cache_list)
  /\ \A n \in ToSet(cache_list) : entry[n] # Freed /\ cache_map[entry[n].key] = n
  /\ \A k \in Key : Found(k) =>
       cache_map[k] \in ToSet(cache_list) /\ entry[cache_map[k]].key = k
  /\ \A n \in Node : entry[n] # Freed => n \in ToSet(cache_list)

ListSizes == [i \in DOMAIN cache_list |-> entry[cache_list[i]].size_bytes]

\* The byte total never drifts from what the list holds, through updates in
\* place, evictions and clears; an empty list therefore counts 0 bytes, so the
\* eviction loop, which evict_lru() cannot advance on an empty list, ends.
Accounting ==
  /\ current_size_bytes = SumSeq(ListSizes)
  /\ \A n \in Node : entry[n] # Freed => entry[n].size_bytes = SizeOf[entry[n].data]

\* The order of the list and the access times agree: evicting the back evicts
\* the tile whose last access is oldest.
LruOrder ==
  \A i, j \in DOMAIN cache_list :
     i < j => entry[cache_list[j]].last_access <= entry[cache_list[i]].last_access

\* A put whose tile fits in the cache by itself never evicts that tile: it is at
\* the front of the list when put returns.  Only an oversize tile leaves with
\* everything else.
NewestSurvives ==
  inserting # Idle /\ inserting.entry_size <= MaxBytes =>
    /\ cache_list # << >>
    /\ entry[cache_list[1]].key = inserting.key
    /\ entry[cache_list[1]].size_bytes = inserting.entry_size

\* Outside put, the number of tiles is within max_entries_; inside, it is over by
\* at most the tile being put.
EntriesWithinLimit ==
  Len(cache_list) <= IF inserting = Idle THEN MaxEntries ELSE MaxEntries + 1

\* cache.hpp:129 promises that put evicts when limits are exceeded.  Updating a
\* cached key with a larger payload does not.
BytesWithinLimit == inserting = Idle => current_size_bytes <= MaxBytes

\* cache.hpp:133 says of clear "Remove all cached tiles, reset statistics", and
\* tests/test_tile_cache.cpp:106 "Stats should be reset".  The code keeps hits,
\* misses and evictions.
ClearResetsStats == [][Clear => stats' = <<0, 0, 0>>]_vars

\* Every put that starts evicting returns and releases cache_mutex_.
PutTerminates == inserting # Idle ~> inserting = Idle
-----------------------------------------------------------------------------
\* How many tiles of the list remain when the put in progress has returned.
SettledLen ==
  IF inserting = Idle
  THEN Len(cache_list)
  ELSE LET total == PrefixSums(ListSizes)
           fits  == {n \in 0..Len(cache_list) : n <= MaxEntries /\ total[n] <= MaxBytes}
       IN  CHOOSE n \in fits : \A m \in fits : m <= n

SettledOrder == [i \in 1..SettledLen |-> entry[cache_list[i]].key]

SettledStore ==
  [k \in Key |->
     IF \E i \in 1..SettledLen : cache_list[i] = cache_map[k]
     THEN entry[cache_map[k]].data
     ELSE NoData]

\* The eviction loop removes exactly the tiles beyond the longest recent prefix
\* that both limits allow: no round takes a tile that could have stayed.
LoopKeepsLongestPrefix ==
  [][inserting # Idle => UNCHANGED <<SettledOrder, SettledStore>>]_vars

LRU == INSTANCE LRUCache WITH
         order <- SettledOrder,
         store <- SettledStore,
         reply <- result,
         evictions <- (evictions + Len(cache_list) - SettledLen) % CounterMod

\* The list, the map and the eviction loop implement the abstract LRU cache: a
\* put takes effect at its insertion, the rounds of the loop are invisible, each
\* get returns the last payload put, and no round or reset makes the statistics
\* disagree with the operations that were called.
RefinesLRU == LRU!Spec
=============================================================================
