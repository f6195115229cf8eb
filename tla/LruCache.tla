------------------------------ MODULE LruCache ------------------------------
(***************************************************************************)
(* engine/index/cache.rs: the cache of file metadata.  A cache is a record *)
(* of a map, from some keys to entries, and an order, the keys from the    *)
(* most to the least recently used.  Each operation runs under the cache's *)
(* lock and is one step of whoever calls it.                               *)
(***************************************************************************)
EXTENDS Naturals, Sequences, SequencesExt, Functions

EmptyCache == [map |-> <<>>, order |-> <<>>]

Cached(cache, k) == k \in DOMAIN cache.map

\* The key's first position in the order is moved to the front.
MoveToFront(order, k) ==
    IF k \in ToSet(order) THEN <<k>> \o RemoveFirst(order, k) ELSE order

\* Faulty variant of Get: a hit leaves the order alone.
GetKeepsOrder(cache, k) == cache

\* get: a hit is a use.
Get(cache, k) ==
    IF Cached(cache, k) THEN [cache EXCEPT !.order = MoveToFront(@, k)] ELSE cache

Bind(map, k, v) == [x \in DOMAIN map \cup {k} |-> IF x = k THEN v ELSE map[x]]

\* Faulty variant of Evict: the key at the front goes.
EvictFront(cache, capacity) ==
    IF Cardinality(DOMAIN cache.map) < capacity \/ cache.order = <<>> THEN cache
    ELSE [map |-> Restrict(cache.map, DOMAIN cache.map \ {Head(cache.order)}),
          order |-> Tail(cache.order)]

\* A full cache gives up the key at the back of the order.
Evict(cache, capacity) ==
    IF Cardinality(DOMAIN cache.map) < capacity \/ cache.order = <<>> THEN cache
    ELSE [map |-> Restrict(cache.map, DOMAIN cache.map \ {Last(cache.order)}),
          order |-> Front(cache.order)]

\* put: a key that is there is used and rebound, a new one may evict another.
Put(cache, k, v, capacity) ==
    IF Cached(cache, k)
    THEN [map |-> Bind(cache.map, k, v), order |-> MoveToFront(cache.order, k)]
    ELSE LET room == Evict(cache, capacity)
         IN  [map |-> Bind(room.map, k, v), order |-> <<k>> \o room.order]
-----------------------------------------------------------------------------
\* In this list, x comes before y.
Before(order, x, y) == \E i, j \in DOMAIN order : i < j /\ order[i] = x /\ order[j] = y

\* What a use of key k may make of a cache: k is in front, the others keep their
\* places among each other, and the one at the back may make room for k.
IsUse(cache, new, k, capacity) ==
    /\ new.order[1] = k
    /\ \A x, y \in DOMAIN new.map \ {k} :
          Before(cache.order, x, y) => Before(new.order, x, y)
    /\ \A x \in DOMAIN cache.map \ DOMAIN new.map :
          /\ x = Last(cache.order) /\ k \notin DOMAIN cache.map
          /\ Cardinality(DOMAIN cache.map) = capacity
=============================================================================
