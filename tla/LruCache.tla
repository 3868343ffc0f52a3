------------------------------ MODULE LruCache ------------------------------
(***************************************************************************)
(* The two caches of the tool registry (core/src/discovery.rs,             *)
(* CatalogCache and PreparedCatalogCache have the same code): entries      *)
(* found by key under a read lock, evicted least recently used first under *)
(* a write lock.  Operators on the value of a cache; Discovery.tla says    *)
(* which steps hold which lock.                                            *)
(***************************************************************************)
EXTENDS Integers, SequencesExt, FiniteSetsExt

NewCache == [entries |-> <<>>, bytes |-> 0, clock |-> 0]

Holds(cache, key) == \E i \in DOMAIN cache.entries : cache.entries[i].key = key

Position(cache, key) ==
  CHOOSE i \in DOMAIN cache.entries : cache.entries[i].key = key

Content(cache, key) == cache.entries[Position(cache, key)].content

(* next_recency: a fresh tick of the cache's clock. *)
Ticked(cache) == [cache EXCEPT !.clock = @ + 1]

(* last_used.fetch_max(tick): a reader that drew an older tick than        *)
(* another reader of the entry does not set it back.                       *)
StoreUsed(cache, key, tick) ==
  [cache EXCEPT !.entries[Position(cache, key)].used = tick]

Used(cache, key, tick) ==
  [cache EXCEPT !.entries[Position(cache, key)].used = Max({@, tick})]

(* least_recently_used_position: the oldest use, the first of them. *)
LeastRecent(cache) ==
  CHOOSE i \in DOMAIN cache.entries :
    \A j \in DOMAIN cache.entries :
      \/ cache.entries[i].used < cache.entries[j].used
      \/ cache.entries[i].used = cache.entries[j].used /\ i <= j

Evict(cache) ==
  [cache EXCEPT !.entries = RemoveAt(@, LeastRecent(cache)),
                !.bytes   = @ - cache.entries[LeastRecent(cache)].size]

(* The eviction loop of insert: until the entry has its place and its      *)
(* bytes.                                                                  *)
MakeRoom(cache, size, maxEntries, maxBytes) ==
  LET room[n \in 0..Len(cache.entries)] ==
        IF n = 0 THEN cache
        ELSE LET left == room[n - 1]
             IN IF \/ Len(left.entries) >= maxEntries
                   \/ left.bytes + size > maxBytes
                THEN Evict(left) ELSE left
  IN room[Len(cache.entries)]

(* insert: an entry too large for the whole cache is not kept. *)
Insert(cache, key, content, size, maxEntries, maxBytes) ==
  LET room == MakeRoom(cache, size, maxEntries, maxBytes)
  IN IF size > maxBytes THEN cache
     ELSE [entries |-> Append(room.entries,
                              [key |-> key, content |-> content, size |-> size,
                               used |-> room.clock + 1]),
           bytes   |-> room.bytes + size,
           clock   |-> room.clock + 1]
=============================================================================
