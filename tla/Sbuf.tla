-------------------------------- MODULE Sbuf --------------------------------
(***************************************************************************)
(* The bounded buffer through which the proxy's accepting thread hands     *)
(* connections to its worker threads (proxylab/sbuf.c).  Every thread runs *)
(* the statements of sbuf_insert or sbuf_remove one at a time; the three   *)
(* semaphores are counters.  The update of rear (front) and the access to  *)
(* the slot are separate steps, so that nothing but the mutex keeps other  *)
(* threads out from between them.                                          *)
(*                                                                         *)
(* pc[t] names the statement thread t executes next.                       *)
(***************************************************************************)
EXTENDS Integers, Sequences, FiniteSets

CONSTANTS
    Producers,   \* threads that call sbuf_insert: the proxy has one
    Consumers,   \* threads that call sbuf_remove: the proxy has NTHREADS
    Items,       \* connection descriptors
    NoItem,      \* what an unused slot and an unset descriptor hold
    N,           \* number of slots, SBUFSIZE in the proxy
    MaxInserts   \* bound on the number of calls of sbuf_insert

ASSUME NAssumption == N \in Nat \ {0}

\* front and rear are C ints that only grow: past 2^31 - 1 insertions the
\* increment is undefined.  The model is that of a buffer which has not got
\* there: read MaxInserts as at most 2^31 - 1.
ASSUME MaxInsertsAssumption == MaxInserts \in Nat

ASSUME ThreadsAssumption ==
    /\ IsFiniteSet(Producers)
    /\ IsFiniteSet(Consumers)
    /\ Producers \cap Consumers = {}

ASSUME ItemsAssumption == NoItem \notin Items

VARIABLES
    buf, front, rear,       \* the ring and its two counters
    mutex, slots, items,    \* the semaphores
    pc,                     \* next statement of each thread
    item,                   \* argument of insert, result of remove
    inserts                 \* number of calls of sbuf_insert so far

vars == <<buf, front, rear, mutex, slots, items, pc, item, inserts>>

Threads == Producers \cup Consumers

InsertLabels ==
    {"idle", "wait_slots", "wait_mutex", "bump", "store", "post_mutex",
     "post_items"}
RemoveLabels ==
    {"wait_items", "wait_mutex", "bump", "fetch", "post_mutex", "post_slots",
     "serve"}

SlotOf(counter) == counter % N

\* A faulty variant: the ring starts with one slot more than it has.
InitSlotsOffByOne ==
    /\ buf = [i \in 0 .. N - 1 |-> NoItem]
    /\ front = 0 /\ rear = 0
    /\ mutex = 1
    /\ slots = N + 1
    /\ items = 0
    /\ pc = [t \in Threads |-> IF t \in Producers THEN "idle" ELSE "wait_items"]
    /\ item = [t \in Threads |-> NoItem]
    /\ inserts = 0

Init ==
    /\ buf = [i \in 0 .. N - 1 |-> NoItem]
    /\ front = 0
    /\ rear = 0
    /\ mutex = 1
    /\ slots = N
    /\ items = 0
    /\ pc = [t \in Threads |-> IF t \in Producers THEN "idle" ELSE "wait_items"]
    /\ item = [t \in Threads |-> NoItem]
    /\ inserts = 0

Goto(t, from, to) ==
    /\ pc[t] = from
    /\ pc' = [pc EXCEPT ![t] = to]

SemWait(s) == s > 0 /\ s' = s - 1
SemPost(s) == s' = s + 1

-----------------------------------------------------------------------------
\* Faulty variants of the definitions below, used to show that the
\* properties can tell a wrong buffer from this one.

\* The critical section is entered without taking the mutex.
WaitMutexNotTaken(t) ==
    /\ Goto(t, "wait_mutex", "bump")
    /\ mutex > 0
    /\ UNCHANGED <<buf, front, rear, mutex, slots, items, item, inserts>>

\* sp->buf[sp->front++ % sp->n]: the counter is read before it is increased.
FetchPostIncrement(c) ==
    /\ Goto(c, "fetch", "post_mutex")
    /\ item' = [item EXCEPT ![c] = buf[SlotOf(front - 1)]]
    /\ UNCHANGED <<buf, front, rear, mutex, slots, items, inserts>>

\* A finished removal announces an item instead of a free slot.
PostSlotsWrongSemaphore(c) ==
    /\ Goto(c, "post_slots", "serve")
    /\ SemPost(items)
    /\ UNCHANGED <<buf, front, rear, mutex, slots, item, inserts>>

\* A finished insertion announces nothing.
PostItemsForgotten(p) ==
    /\ Goto(p, "post_items", "idle")
    /\ UNCHANGED <<buf, front, rear, mutex, slots, items, item, inserts>>

-----------------------------------------------------------------------------
\* sbuf_insert

\* main has accepted connection v and calls sbuf_insert.
CallInsert(p) ==
    /\ Goto(p, "idle", "wait_slots")
    /\ inserts < MaxInserts
    /\ inserts' = inserts + 1
    /\ \E v \in Items : item' = [item EXCEPT ![p] = v]
    /\ UNCHANGED <<buf, front, rear, mutex, slots, items>>

WaitSlots(p) ==
    /\ Goto(p, "wait_slots", "wait_mutex")
    /\ SemWait(slots)
    /\ UNCHANGED <<buf, front, rear, mutex, items, item, inserts>>

BumpRear(p) ==
    /\ Goto(p, "bump", "store")
    /\ rear' = rear + 1
    /\ UNCHANGED <<buf, front, mutex, slots, items, item, inserts>>

StoreItem(p) ==
    /\ Goto(p, "store", "post_mutex")
    /\ buf' = [buf EXCEPT ![SlotOf(rear)] = item[p]]
    /\ UNCHANGED <<front, rear, mutex, slots, items, item, inserts>>

PostItems(p) ==
    /\ Goto(p, "post_items", "idle")
    /\ SemPost(items)
    /\ UNCHANGED <<buf, front, rear, mutex, slots, item, inserts>>

\* sbuf_remove

WaitItems(c) ==
    /\ Goto(c, "wait_items", "wait_mutex")
    /\ SemWait(items)
    /\ UNCHANGED <<buf, front, rear, mutex, slots, item, inserts>>

BumpFront(c) ==
    /\ Goto(c, "bump", "fetch")
    /\ front' = front + 1
    /\ UNCHANGED <<buf, rear, mutex, slots, items, item, inserts>>

FetchItem(c) ==
    /\ Goto(c, "fetch", "post_mutex")
    /\ item' = [item EXCEPT ![c] = buf[SlotOf(front)]]
    /\ UNCHANGED <<buf, front, rear, mutex, slots, items, inserts>>

PostSlots(c) ==
    /\ Goto(c, "post_slots", "serve")
    /\ SemPost(slots)
    /\ UNCHANGED <<buf, front, rear, mutex, items, item, inserts>>

\* The worker has served the connection and asks for the next one.
Serve(c) ==
    /\ Goto(c, "serve", "wait_items")
    /\ UNCHANGED <<buf, front, rear, mutex, slots, items, item, inserts>>

\* Both functions

WaitMutex(t) ==
    /\ Goto(t, "wait_mutex", "bump")
    /\ SemWait(mutex)
    /\ UNCHANGED <<buf, front, rear, slots, items, item, inserts>>

PostMutex(t) ==
    /\ Goto(t, "post_mutex",
            IF t \in Producers THEN "post_items" ELSE "post_slots")
    /\ SemPost(mutex)
    /\ UNCHANGED <<buf, front, rear, slots, items, item, inserts>>
-----------------------------------------------------------------------------

\* The steps of a call of sbuf_insert that is under way.
InsertStep(p) ==
    WaitSlots(p) \/ WaitMutex(p) \/ BumpRear(p) \/ StoreItem(p)
    \/ PostMutex(p) \/ PostItems(p)

\* The loop of a worker thread.
WorkerStep(c) ==
    WaitItems(c) \/ WaitMutex(c) \/ BumpFront(c) \/ FetchItem(c)
    \/ PostMutex(c) \/ PostSlots(c) \/ Serve(c)

Next ==
    \/ \E p \in Producers : CallInsert(p) \/ InsertStep(p)
    \/ \E c \in Consumers : WorkerStep(c)

Spec == Init /\ [][Next]_vars

\* The scheduler runs every thread that can run; connections need not come.
Fairness ==
    /\ \A p \in Producers : WF_vars(InsertStep(p))
    /\ \A c \in Consumers : WF_vars(WorkerStep(c))

FairSpec == Spec /\ Fairness
-----------------------------------------------------------------------------

TypeOK ==
    /\ buf \in [0 .. N - 1 -> Items \cup {NoItem}]
    /\ front \in Nat
    /\ rear \in Nat
    /\ mutex \in Nat
    /\ slots \in Nat
    /\ items \in Nat
    /\ pc \in [Threads -> InsertLabels \cup RemoveLabels]
    /\ \A p \in Producers : pc[p] \in InsertLabels
    /\ \A c \in Consumers : pc[c] \in RemoveLabels
    /\ item \in [Threads -> Items \cup {NoItem}]
    /\ inserts \in 0 .. MaxInserts

CriticalLabels == {"bump", "store", "fetch", "post_mutex"}

\* sbuf.c, the region between Sem_wait and Sem_post on the mutex: at no time
\* are two threads of the proxy between them, whichever function they run.
MutualExclusion ==
    \A t, u \in Threads :
        (pc[t] \in CriticalLabels /\ pc[u] \in CriticalLabels) => t = u

\* The number of threads of T whose next statement is one of S.
Count(T, S) == Cardinality({t \in T : pc[t] \in S})

\* A call that has its slot or item and has not moved its counter yet; an
\* insertion that has moved rear and not posted items yet; a removal that has
\* moved front and not posted slots yet.
Claiming   == {"wait_mutex", "bump"}
Announcing == {"store", "post_mutex", "post_items"}
Releasing  == {"fetch", "post_mutex", "post_slots"}

\* Every slot of the ring is free (counted by the semaphore slots), occupied,
\* claimed by an insertion, or about to be released by a removal: sbuf.c
\* never loses a slot and never hands one out twice.
SlotsAccounted ==
    slots + (rear - front) + Count(Producers, Claiming)
          + Count(Consumers, Releasing) = N

\* Every occupied slot has been announced (counted by the semaphore items),
\* is claimed by a removal, or is about to be announced by the insertion that
\* filled it: sbuf.c wakes exactly one removal for each insertion.
ItemsAccounted ==
    items + Count(Producers, Announcing) + Count(Consumers, Claiming)
        = rear - front

\* The mutex is free only while no thread is in the critical region.
MutexHeld ==
    /\ mutex <= 1
    /\ mutex = 1 => \A t \in Threads : pc[t] \notin CriticalLabels

\* sbuf.c: the occupied part of the ring never exceeds it, so an insertion
\* cannot overwrite an item nobody has removed, and a removal never passes
\* the last insertion.
NeverOverrun == 0 <= rear - front /\ rear - front <= N
-----------------------------------------------------------------------------

\* An item enters the queue when it is stored and leaves it when it is
\* fetched: between the bump and the access the counter is one ahead.
Stored  == rear - Count(Producers, {"store"})
Fetched == front - Count(Consumers, {"fetch"})

Fifo == INSTANCE BoundedFifo WITH
    queue <- [i \in 1 .. Stored - Fetched |-> buf[SlotOf(Fetched + i)]],
    got   <- [c \in Consumers |-> item[c]]

\* proxy.c's "Thread safe buffer": whatever the interleaving, the buffer is a
\* bounded queue that loses, duplicates and reorders nothing.
RefinesFifo == Fifo!FifoSpec

\* proxy.c, the loops of main and thread: a connection that main has put into
\* the buffer is taken out by a worker, as long as the workers go on.
AcceptedIsRemoved ==
    \A i \in 1 .. MaxInserts : rear >= i ~> front >= i
=============================================================================
