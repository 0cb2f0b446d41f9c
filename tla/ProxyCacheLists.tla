--------------------------- MODULE ProxyCacheLists ---------------------------
(***************************************************************************)
(* What the two linked lists of the proxy's cache say, and that the cache  *)
(* as a whole is the LRU cache of LruCache.                                *)
(***************************************************************************)
EXTENDS ProxyCache, FiniteSetsExt, SequencesExt

CONSTANTS Missed, NoKey

\* The node a reader has unlinked from the LRU list and not appended yet.
BeingTouched == {current[t] : t \in {u \in Threads : pc[u] = "touch_append"}}

\* The stored nodes, newest first and least recently used first.
AgeOrder == Walk(list.head, list.next)
UseOrder == Walk(lru.head, lru.next) \o SetToSeq(BeingTouched)

Members(seq) == {seq[i] : i \in DOMAIN seq}
Allocated == Nodes \ free

Contents(order) == [i \in DOMAIN order |-> store[order[i]]]

\* A lookup takes effect when its entry is unlinked from the LRU list, or when
\* its scan reaches the end of the item list.
AnswerOf(t) ==
    IF pc[t] \in {"touch_append", "touch_unlock", "copy"} THEN store[current[t]]
    ELSE IF answer[t] # NoEntry THEN answer[t]
    ELSE IF \/ serving[t] = NoRequest
            \/ pc[t] \in {"get_wait", "enter_count", "enter_first",
                         "enter_unlock", "scan_head", "scan", "touch_wait",
                         "touch_remove"}
         THEN NoEntry ELSE Missed

Adding == {t \in Threads : pc[t] = "add_room"}

Cache == INSTANCE LruCache WITH
    byAge    <- Contents(AgeOrder),
    byUse    <- Contents(UseOrder),
    incoming <- IF Adding = {} THEN NoEntry
                ELSE body[CHOOSE t \in Adding : TRUE],
    asked    <- [t \in Threads |->
                    IF serving[t] = NoRequest THEN NoKey ELSE serving[t].key],
    answer   <- [t \in Threads |-> AnswerOf(t)]

\* The prev pointers of a list undo its next pointers.
BackLinked(order, prev) ==
    \A i \in DOMAIN order :
        prev[order[i]] = IF i = 1 THEN Null ELSE order[i - 1]

\* cache.c: every stored entry is in both lists exactly once, the lists can be
\* walked both ways, the tail of the LRU list is its last node, and the sizes
\* of the entries add up to total_size, which stays within MAX_CACHE_SIZE; so
\* an addition that finds the cache too full finds an entry to evict.
ListsAgree ==
    /\ Members(AgeOrder) = Allocated
    /\ Members(UseOrder) = Allocated
    /\ Len(AgeOrder) = Cardinality(Allocated)
    /\ Len(UseOrder) = Cardinality(Allocated)
    /\ BackLinked(AgeOrder, list.prev)
    /\ LET order == Walk(lru.head, lru.next) IN
        /\ BackLinked(order, lru.prev)
        /\ lru.tail = IF order = <<>> THEN Null ELSE order[Len(order)]
    /\ total_size <= MaxCacheSize
    /\ total_size = Cache!SizeOf(Contents(AgeOrder))
    /\ \A t \in Threads : pc[t] = "add_room" /\ Overfull(t) => lru.head # Null

\* cache.c: two threads that miss a key together both add it.  The older
\* entry can no longer be found, and it is evicted before the newer one, so
\* that a lookup never returns an older response than an earlier lookup did.
OlderDuplicateGoesFirst ==
    \A i, j \in DOMAIN AgeOrder :
        (i < j /\ store[AgeOrder[i]].key = store[AgeOrder[j]].key) =>
            \E k, l \in DOMAIN UseOrder :
                k < l /\ UseOrder[k] = AgeOrder[j] /\ UseOrder[l] = AgeOrder[i]
-----------------------------------------------------------------------------
\* cache.c, cache_get and cache_add: with any number of concurrent lookups and
\* additions, a lookup hits exactly if its key is stored and returns the newest
\* entry for it, each use moves the entry to the end of the eviction order,
\* and an addition evicts just the least recently used entries it must.
RefinesLruCache == Cache!LruSpec
=============================================================================
