------------------------------ MODULE LruCache ------------------------------
(***************************************************************************)
(* What the response cache of the proxy promises to the worker threads: a  *)
(* store of bounded size that one thread at a time adds to and that evicts *)
(* in the order of last use.  A key may be stored more than once, because  *)
(* two threads may miss it together; a lookup finds the newest entry.      *)
(* ProxyCache implements this specification.                               *)
(***************************************************************************)
EXTENDS Integers, Sequences, SequencesExt

CONSTANTS Threads, Keys, Entries, NoEntry, Missed, NoKey, MaxCacheSize

VARIABLES
    byAge,      \* the stored entries, newest first
    byUse,      \* the stored entries, least recently used first
    incoming,   \* the entry being added, or NoEntry
    asked,      \* the key each thread's last lookup is for
    answer      \* and what it found, NoEntry while it is under way

lruVars == <<byAge, byUse, incoming, asked, answer>>

SizeOf(entries) ==
    LET first[n \in 0 .. Len(entries)] ==
            IF n = 0 THEN 0 ELSE first[n - 1] + entries[n].size
    IN  first[Len(entries)]

LruInit ==
    /\ byAge = <<>>
    /\ byUse = <<>>
    /\ incoming = NoEntry
    /\ asked = [t \in Threads |-> NoKey]
    /\ answer = [t \in Threads |-> NoEntry]

Holds(k) == \E i \in DOMAIN byAge : byAge[i].key = k

Newest(k) ==
    LET Is(i) == byAge[i].key = k /\ \A j \in 1 .. i - 1 : byAge[j].key # k
    IN  byAge[CHOOSE i \in DOMAIN byAge : Is(i)]

Ask(t, k) ==
    /\ asked' = [asked EXCEPT ![t] = k]
    /\ answer' = [answer EXCEPT ![t] = NoEntry]
    /\ UNCHANGED <<byAge, byUse, incoming>>

\* A lookup is answered at a moment when nothing is being added.
Hit(t) ==
    /\ incoming = NoEntry
    /\ answer[t] = NoEntry
    /\ Holds(asked[t])
    /\ LET e == Newest(asked[t]) IN
        /\ byUse' = Append(RemoveFirst(byUse, e), e)
        /\ answer' = [answer EXCEPT ![t] = e]
    /\ UNCHANGED <<byAge, incoming, asked>>

Miss(t) ==
    /\ incoming = NoEntry
    /\ answer[t] = NoEntry
    /\ ~Holds(asked[t])
    /\ answer' = [answer EXCEPT ![t] = Missed]
    /\ UNCHANGED <<byAge, byUse, incoming, asked>>

BeginAdd(e) ==
    /\ incoming = NoEntry
    /\ incoming' = e
    /\ UNCHANGED <<byAge, byUse, asked, answer>>

Overfull == SizeOf(byAge) + incoming.size > MaxCacheSize

EvictLeastRecentlyUsed ==
    /\ incoming # NoEntry
    /\ Overfull
    /\ byAge' = RemoveFirst(byAge, Head(byUse))
    /\ byUse' = Tail(byUse)
    /\ UNCHANGED <<incoming, asked, answer>>

FinishAdd ==
    /\ incoming # NoEntry
    /\ ~Overfull
    /\ byAge' = <<incoming>> \o byAge
    /\ byUse' = Append(byUse, incoming)
    /\ incoming' = NoEntry
    /\ UNCHANGED <<asked, answer>>

LruNext ==
    \/ \E t \in Threads, k \in Keys : Ask(t, k)
    \/ \E t \in Threads : Hit(t) \/ Miss(t)
    \/ \E e \in Entries : BeginAdd(e)
    \/ EvictLeastRecentlyUsed
    \/ FinishAdd

LruSpec == LruInit /\ [][LruNext]_lruVars
=============================================================================
