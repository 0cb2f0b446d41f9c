----------------------------- MODULE ProxyCache -----------------------------
(***************************************************************************)
(* The response cache of the proxy (proxylab/cache.c) and the way its      *)
(* worker threads use it (forward in proxylab/proxy.c): look the key up,   *)
(* and on a miss fetch the response and add it.                            *)
(*                                                                         *)
(* Lookups share a readers-writer lock made of two semaphores; the readers *)
(* also move the entry they hit to the end of the LRU list, under          *)
(* readers_lock.  Both lists are kept as the pointers of the C structs.  A *)
(* node stands for a CacheNode together with its LruNode: the two are      *)
(* allocated, linked and freed together.                                   *)
(*                                                                         *)
(* pc[t] names the statement thread t executes next.                       *)
(***************************************************************************)
EXTENDS Integers, Sequences, FiniteSets

CONSTANTS
    Threads,        \* the worker threads
    Keys,           \* cache keys
    Nodes,          \* memory for cache nodes
    Null,           \* the null pointer
    Sizes,          \* lengths of responses
    MaxObjectSize,  \* MAX_OBJECT_SIZE
    MaxCacheSize,   \* MAX_CACHE_SIZE
    MaxRequests,    \* bound on the number of requests served
    NoEntry,        \* contents of an unused node, answer of a missed lookup
    NoRequest       \* what a thread serves before its first request

ASSUME ThreadsFinite == IsFiniteSet(Threads)

ASSUME SizesAssumption ==
    /\ Sizes \subseteq Nat
    /\ MaxObjectSize \in Nat
    /\ MaxCacheSize \in Nat
    /\ MaxObjectSize <= MaxCacheSize

ASSUME NullAssumption == Null \notin Nodes

ASSUME MaxRequestsAssumption == MaxRequests \in Nat

ASSUME NodesFinite == IsFiniteSet(Nodes)

VARIABLES
    store,          \* contents of each node: key, size and payload
    free,           \* the nodes malloc may return
    list,           \* item list: head, next, prev
    lru,            \* LRU list: head, tail, next, prev
    total_size,
    readers_count,
    readers_lock, writers_lock,
    pc,
    serving,        \* the request a thread serves: its key and its number
    current,        \* the node its lookup has reached
    answer,         \* the copy its lookup returns
    body,           \* the response it fetched
    requests        \* requests so far

dataVars == <<store, free, list, lru, total_size>>
lockVars == <<readers_count, readers_lock, writers_lock>>
callVars == <<serving, current, answer, body, requests>>
vars == <<dataVars, lockVars, callVars, pc>>

\* A response is told from every other by the number of its request.
Entries == [key : Keys, size : Sizes, stamp : 1 .. MaxRequests]

Requests == [key : Keys, number : 1 .. MaxRequests]

ASSUME NoneAssumption == NoEntry \notin Entries /\ NoRequest \notin Requests

Goto(t, from, to) ==
    /\ pc[t] = from
    /\ pc' = [pc EXCEPT ![t] = to]

SemWait(s) == s > 0 /\ s' = s - 1
SemPost(s) == s' = s + 1
-----------------------------------------------------------------------------
\* The four list operations of cache.c.

append_lru(l, n) ==
    LET linked == [l EXCEPT !.next[n] = Null, !.prev[n] = l.tail, !.tail = n]
    IN  IF l.tail # Null THEN [linked EXCEPT !.next[l.tail] = n]
                         ELSE [linked EXCEPT !.head = n]

\* A faulty variant: unlinking the last node leaves the tail where it was.
remove_lru_keeps_tail(l, n) ==
    LET prev == l.prev[n]
        next == l.next[n]
        ahead == IF prev # Null THEN [l EXCEPT !.next[prev] = next]
                                ELSE [l EXCEPT !.head = next]
    IN  IF next # Null THEN [ahead EXCEPT !.prev[next] = prev] ELSE ahead

remove_lru(l, n) ==
    LET prev == l.prev[n]
        next == l.next[n]
        ahead == IF prev # Null THEN [l EXCEPT !.next[prev] = next]
                                ELSE [l EXCEPT !.head = next]
    IN  IF next # Null THEN [ahead EXCEPT !.prev[next] = prev]
                       ELSE [ahead EXCEPT !.tail = prev]

\* A faulty variant: a new item goes behind the first one.
prepend_item_second(l, n) ==
    LET second == IF l.head = Null THEN Null ELSE l.next[l.head]
        linked == [l EXCEPT !.next[n] = second, !.prev[n] = l.head]
        ahead  == IF l.head # Null THEN [linked EXCEPT !.next[l.head] = n]
                                   ELSE [linked EXCEPT !.head = n]
    IN  IF second # Null THEN [ahead EXCEPT !.prev[second] = n] ELSE ahead

prepend_item(l, n) ==
    LET linked == [l EXCEPT !.next[n] = l.head, !.prev[n] = Null, !.head = n]
    IN  IF l.head # Null THEN [linked EXCEPT !.prev[l.head] = n] ELSE linked

remove_item(l, n) ==
    LET prev == l.prev[n]
        next == l.next[n]
        ahead == IF prev # Null THEN [l EXCEPT !.next[prev] = next]
                                ELSE [l EXCEPT !.head = next]
    IN  IF next # Null THEN [ahead EXCEPT !.prev[next] = prev] ELSE ahead

\* The nodes met from head along the next pointers, in order (the first
\* Cardinality(Nodes) of them, should the pointers form a cycle).
Steps(head, next) ==
    LET at[i \in 1 .. Cardinality(Nodes)] ==
            IF i = 1 THEN head
            ELSE IF at[i - 1] = Null THEN Null ELSE next[at[i - 1]]
    IN  at

Walk(head, next) ==
    LET at == Steps(head, next)
    IN  [i \in 1 .. Cardinality({j \in DOMAIN at : at[j] # Null}) |-> at[i]]
-----------------------------------------------------------------------------
Init ==
    /\ store = [n \in Nodes |-> NoEntry]
    /\ free = Nodes
    /\ list = [head |-> Null,
               next |-> [n \in Nodes |-> Null], prev |-> [n \in Nodes |-> Null]]
    /\ lru = [head |-> Null, tail |-> Null,
              next |-> [n \in Nodes |-> Null], prev |-> [n \in Nodes |-> Null]]
    /\ total_size = 0
    /\ readers_count = 0
    /\ readers_lock = 1
    /\ writers_lock = 1
    /\ pc = [t \in Threads |-> "idle"]
    /\ serving = [t \in Threads |-> NoRequest]
    /\ current = [t \in Threads |-> Null]
    /\ answer = [t \in Threads |-> NoEntry]
    /\ body = [t \in Threads |-> NoEntry]
    /\ requests = 0

-----------------------------------------------------------------------------
\* Faulty variants of actions defined below, used to show that the properties
\* can tell a wrong cache from this one.

\* Every reader that leaves releases writers_lock, not only the last one.
LeaveCountAlwaysReleases(t) ==
    /\ Goto(t, "leave_count", "leave_last")
    /\ readers_count' = readers_count - 1
    /\ UNCHANGED <<dataVars, readers_lock, writers_lock, callVars>>

\* No reader releases writers_lock.
LeaveCountNeverReleases(t) ==
    /\ Goto(t, "leave_count", "leave_unlock")
    /\ readers_count' = readers_count - 1
    /\ UNCHANGED <<dataVars, readers_lock, writers_lock, callVars>>

\* A hit relinks the LRU list without taking readers_lock.
TouchWaitNotTaken(t) ==
    /\ Goto(t, "touch_wait", "touch_remove")
    /\ readers_lock > 0
    /\ UNCHANGED <<dataVars, lockVars, callVars>>

\* A hit leaves the LRU list as it is, so that entries go in the order in which
\* they came.
TouchForgotten(t) ==
    /\ Goto(t, "touch_wait", "copy")
    /\ UNCHANGED <<dataVars, lockVars, callVars>>

\* An addition does not wait for the readers.
AddWaitNotTaken(t) ==
    /\ Goto(t, "add_wait", "add_room")
    /\ UNCHANGED <<dataVars, lockVars, callVars>>

-----------------------------------------------------------------------------
\* The request pipeline around the cache (forward).

\* A worker turns to a new request, for key k.
Request(t) ==
    /\ Goto(t, "idle", "get_wait")
    /\ requests < MaxRequests
    /\ requests' = requests + 1
    /\ \E k \in Keys :
        serving' = [serving EXCEPT ![t] = [key |-> k, number |-> requests + 1]]
    /\ answer' = [answer EXCEPT ![t] = NoEntry]
    /\ UNCHANGED <<dataVars, lockVars, current, body>>

\* The request was missed: the response is fetched, and added to the cache
\* unless it is too long to be cached.
Fetch(t) ==
    /\ pc[t] = "fetch"
    /\ \E s \in Sizes :
        /\ body' = [body EXCEPT ![t] = [key |-> serving[t].key, size |-> s,
                                       stamp |-> serving[t].number]]
        /\ pc' = [pc EXCEPT ![t] =
                    IF s > MaxObjectSize THEN "idle" ELSE "add_wait"]
    /\ UNCHANGED <<dataVars, lockVars, serving, current, answer, requests>>

\* The server cannot be reached, or the client goes away before the whole
\* response has been sent to it: nothing is added.
FetchFails(t) ==
    /\ Goto(t, "fetch", "idle")
    /\ UNCHANGED <<dataVars, lockVars, callVars>>
-----------------------------------------------------------------------------
\* cache_get

EnterWait(t) ==
    /\ Goto(t, "get_wait", "enter_count")
    /\ SemWait(readers_lock)
    /\ UNCHANGED <<dataVars, readers_count, writers_lock, callVars>>

EnterCount(t) ==
    /\ pc[t] = "enter_count"
    /\ readers_count' = readers_count + 1
    /\ pc' = [pc EXCEPT ![t] =
                IF readers_count' = 1 THEN "enter_first" ELSE "enter_unlock"]
    /\ UNCHANGED <<dataVars, readers_lock, writers_lock, callVars>>

\* The first reader takes writers_lock, still holding readers_lock.
EnterFirst(t) ==
    /\ Goto(t, "enter_first", "enter_unlock")
    /\ SemWait(writers_lock)
    /\ UNCHANGED <<dataVars, readers_count, readers_lock, callVars>>

EnterUnlock(t) ==
    /\ Goto(t, "enter_unlock", "scan_head")
    /\ SemPost(readers_lock)
    /\ UNCHANGED <<dataVars, readers_count, writers_lock, callVars>>

ScanHead(t) ==
    /\ Goto(t, "scan_head", "scan")
    /\ current' = [current EXCEPT ![t] = list.head]
    /\ UNCHANGED <<dataVars, lockVars, serving, answer, body, requests>>

Matches(t) == store[current[t]].key = serving[t].key

ScanNext(t) ==
    /\ pc[t] = "scan"
    /\ current[t] # Null
    /\ ~Matches(t)
    /\ current' = [current EXCEPT ![t] = list.next[current[t]]]
    /\ UNCHANGED <<dataVars, lockVars, serving, answer, body, requests, pc>>

ScanEnd(t) ==
    /\ Goto(t, "scan", "leave_wait")
    /\ current[t] = Null
    /\ UNCHANGED <<dataVars, lockVars, callVars>>

ScanHit(t) ==
    /\ Goto(t, "scan", "touch_wait")
    /\ current[t] # Null
    /\ Matches(t)
    /\ UNCHANGED <<dataVars, lockVars, callVars>>

TouchWait(t) ==
    /\ Goto(t, "touch_wait", "touch_remove")
    /\ SemWait(readers_lock)
    /\ UNCHANGED <<dataVars, readers_count, writers_lock, callVars>>

TouchRemove(t) ==
    /\ Goto(t, "touch_remove", "touch_append")
    /\ lru' = remove_lru(lru, current[t])
    /\ UNCHANGED <<store, free, list, total_size, lockVars, callVars>>

TouchAppend(t) ==
    /\ Goto(t, "touch_append", "touch_unlock")
    /\ lru' = append_lru(lru, current[t])
    /\ UNCHANGED <<store, free, list, total_size, lockVars, callVars>>

TouchUnlock(t) ==
    /\ Goto(t, "touch_unlock", "copy")
    /\ SemPost(readers_lock)
    /\ UNCHANGED <<dataVars, readers_count, writers_lock, callVars>>

\* The copy is made under the shared lock only.
Copy(t) ==
    /\ Goto(t, "copy", "leave_wait")
    /\ answer' = [answer EXCEPT ![t] = store[current[t]]]
    /\ UNCHANGED <<dataVars, lockVars, serving, current, body, requests>>

LeaveWait(t) ==
    /\ Goto(t, "leave_wait", "leave_count")
    /\ SemWait(readers_lock)
    /\ UNCHANGED <<dataVars, readers_count, writers_lock, callVars>>

LeaveCount(t) ==
    /\ pc[t] = "leave_count"
    /\ readers_count' = readers_count - 1
    /\ pc' = [pc EXCEPT ![t] =
                IF readers_count' = 0 THEN "leave_last" ELSE "leave_unlock"]
    /\ UNCHANGED <<dataVars, readers_lock, writers_lock, callVars>>

\* The last reader releases writers_lock, whoever took it.
LeaveLast(t) ==
    /\ Goto(t, "leave_last", "leave_unlock")
    /\ SemPost(writers_lock)
    /\ UNCHANGED <<dataVars, readers_count, readers_lock, callVars>>

\* cache_get returns; forward serves a hit from the copy.
LeaveUnlock(t) ==
    /\ Goto(t, "leave_unlock", IF answer[t] # NoEntry THEN "idle" ELSE "fetch")
    /\ SemPost(readers_lock)
    /\ UNCHANGED <<dataVars, readers_count, writers_lock, callVars>>
-----------------------------------------------------------------------------
\* cache_add

AddWait(t) ==
    /\ Goto(t, "add_wait", "add_room")
    /\ SemWait(writers_lock)
    /\ UNCHANGED <<dataVars, readers_count, readers_lock, callVars>>

Overfull(t) == total_size + body[t].size > MaxCacheSize

\* One turn of the eviction loop.
Evict(t) ==
    /\ pc[t] = "add_room"
    /\ Overfull(t)
    /\ lru.head # Null
    /\ LET victim == lru.head IN
        /\ total_size' = total_size - store[victim].size
        /\ list' = remove_item(list, victim)
        /\ lru' = remove_lru(lru, victim)
        /\ free' = free \cup {victim}
    /\ UNCHANGED <<store, lockVars, callVars, pc>>

Insert(t) ==
    /\ Goto(t, "add_room", "add_unlock")
    /\ ~Overfull(t)
    /\ \E n \in free :
        /\ free' = free \ {n}
        /\ store' = [store EXCEPT ![n] = body[t]]
        /\ list' = prepend_item(list, n)
        /\ lru' = append_lru(lru, n)
    /\ total_size' = total_size + body[t].size
    /\ UNCHANGED <<lockVars, callVars>>

AddUnlock(t) ==
    /\ Goto(t, "add_unlock", "idle")
    /\ SemPost(writers_lock)
    /\ UNCHANGED <<dataVars, readers_count, readers_lock, callVars>>
-----------------------------------------------------------------------------
CacheGet(t) ==
    \/ EnterWait(t) \/ EnterCount(t) \/ EnterFirst(t) \/ EnterUnlock(t)
    \/ ScanHead(t) \/ ScanNext(t) \/ ScanEnd(t) \/ ScanHit(t)
    \/ TouchWait(t) \/ TouchRemove(t) \/ TouchAppend(t) \/ TouchUnlock(t)
    \/ Copy(t)
    \/ LeaveWait(t) \/ LeaveCount(t) \/ LeaveLast(t) \/ LeaveUnlock(t)

CacheAdd(t) == AddWait(t) \/ Evict(t) \/ Insert(t) \/ AddUnlock(t)

Serve(t) == CacheGet(t) \/ Fetch(t) \/ FetchFails(t) \/ CacheAdd(t)

Next == \E t \in Threads : Request(t) \/ Serve(t)

Spec == Init /\ [][Next]_vars

\* Every thread that can go on does so in the end.
FairSpec == Spec /\ \A t \in Threads : WF_vars(Serve(t))
-----------------------------------------------------------------------------
Labels ==
    {"idle", "get_wait", "enter_count", "enter_first", "enter_unlock",
     "scan_head", "scan", "touch_wait", "touch_remove", "touch_append",
     "touch_unlock", "copy", "leave_wait", "leave_count", "leave_last",
     "leave_unlock", "fetch", "add_wait", "add_room", "add_unlock"}

Pointers == Nodes \cup {Null}

TypeOK ==
    /\ store \in [Nodes -> Entries \cup {NoEntry}]
    /\ free \subseteq Nodes
    /\ list \in [head : Pointers,
                 next : [Nodes -> Pointers], prev : [Nodes -> Pointers]]
    /\ lru \in [head : Pointers, tail : Pointers,
                next : [Nodes -> Pointers], prev : [Nodes -> Pointers]]
    /\ total_size \in Int
    /\ readers_count \in 0 .. Cardinality(Threads)
    /\ readers_lock \in {0, 1}
    /\ writers_lock \in {0, 1}
    /\ pc \in [Threads -> Labels]
    /\ serving \in [Threads -> Requests \cup {NoRequest}]
    /\ current \in [Threads -> Pointers]
    /\ answer \in [Threads -> Entries \cup {NoEntry}]
    /\ body \in [Threads -> Entries \cup {NoEntry}]
    /\ requests \in 0 .. MaxRequests

\* Where a thread holds readers_lock; where it is counted as a reader; where
\* the readers, it among them, hold writers_lock; where it holds writers_lock
\* to add an entry.
HoldingReadersLock ==
    {"enter_count", "enter_first", "enter_unlock", "touch_remove",
     "touch_append", "touch_unlock", "leave_count", "leave_last",
     "leave_unlock"}
Counted ==
    {"enter_first", "enter_unlock", "scan_head", "scan", "touch_wait",
     "touch_remove", "touch_append", "touch_unlock", "copy", "leave_wait",
     "leave_count"}
Reading == (Counted \ {"enter_first"}) \cup {"leave_last"}
Writing == {"add_room", "add_unlock"}

\* cache.c, "Holding writers lock": while a thread evicts and inserts, no
\* other thread adds, and no thread is inside the scan, touch and copy of a
\* lookup.
WritersAreAlone ==
    \A t, u \in Threads :
        (pc[t] \in Writing /\ pc[u] \in Writing \cup Reading) => t = u

\* cache.c, cache_get: readers share the lists, but only one of them at a time
\* counts itself or relinks the LRU list.
ReadersTakeTurns ==
    \A t, u \in Threads :
        (pc[t] \in HoldingReadersLock /\ pc[u] \in HoldingReadersLock) => t = u

\* cache.c, cache_get: the node a lookup stands on, matches, relinks and
\* copies is never one that an eviction has freed meanwhile.
NoUseAfterFree ==
    \A t \in Threads :
        pc[t] \in {"scan", "touch_wait", "touch_remove", "touch_append",
                  "touch_unlock", "copy"} => current[t] \notin free

\* proxy.c, thread: every request a worker takes on, it finishes; no lookup
\* and no addition waits for ever for the two semaphores.
RequestsFinish == \A t \in Threads : pc[t] # "idle" ~> pc[t] = "idle"
=============================================================================
