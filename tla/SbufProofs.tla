----------------------------- MODULE SbufProofs -----------------------------
(***************************************************************************)
(* Safety of the bounded buffer for any number of producers, consumers,    *)
(* slots and insertions.  The inductive invariant joins the type invariant *)
(* with the state of the mutex and the accounts of the two counting        *)
(* semaphores.  From it follows that the buffer implements the queue of    *)
(* BoundedFifo.                                                            *)
(***************************************************************************)
EXTENDS Sbuf, FiniteSetTheorems, SequenceTheorems, TLAPS

-----------------------------------------------------------------------------
(* How many threads are at given places, and how a step changes that.        *)

\* The threads of T that f places in S.
At(f, T, S) == {t \in T : f[t] \in S}

\* The number of threads at a set of places is a natural number.
LEMMA CountIsNat ==
    ASSUME NEW T, IsFiniteSet(T), NEW f, NEW S
    PROVE  /\ IsFiniteSet(At(f, T, S))
           /\ Cardinality(At(f, T, S)) \in Nat
<1>1. At(f, T, S) \subseteq T
  BY DEF At
<1>2. QED
  BY <1>1, FS_Subset, FS_CardinalityType

\* With no thread at one of the places, the count is zero.
LEMMA CountZero ==
    ASSUME NEW T, NEW f, NEW S, \A t \in T : f[t] \notin S
    PROVE  Cardinality(At(f, T, S)) = 0
<1>1. At(f, T, S) = {}
  BY DEF At
<1>2. QED
  BY <1>1, FS_EmptySet

\* A thread of another group moves: the count stays.
LEMMA CountOther ==
    ASSUME NEW T, NEW f, NEW g, NEW S, \A t \in T : g[t] = f[t]
    PROVE  Cardinality(At(g, T, S)) = Cardinality(At(f, T, S))
<1>1. At(g, T, S) = At(f, T, S)
  BY DEF At
<1>2. QED
  BY <1>1

\* A thread moves from one place to another: it is counted less if it was
\* at one of the places and counted more if it now is.
LEMMA CountMove ==
    ASSUME NEW T, IsFiniteSet(T), NEW f, NEW g, NEW S, NEW u \in T,
           \A t \in T \ {u} : g[t] = f[t]
    PROVE  Cardinality(At(g, T, S)) =
             Cardinality(At(f, T, S)) + (IF g[u] \in S THEN 1 ELSE 0)
                                      - (IF f[u] \in S THEN 1 ELSE 0)
<1>1. /\ IsFiniteSet(At(f, T, S))
      /\ Cardinality(At(f, T, S)) \in Nat
  BY CountIsNat
<1>2. CASE g[u] \in S /\ f[u] \in S
  <2>1. At(g, T, S) = At(f, T, S)
    BY <1>2 DEF At
  <2>2. QED
    BY <1>1, <1>2, <2>1
<1>3. CASE g[u] \in S /\ f[u] \notin S
  <2>1. /\ At(g, T, S) = At(f, T, S) \cup {u}
        /\ u \notin At(f, T, S)
    BY <1>3 DEF At
  <2>2. Cardinality(At(g, T, S)) = Cardinality(At(f, T, S)) + 1
    BY <1>1, <2>1, FS_AddElement
  <2>3. QED
    BY <1>1, <1>3, <2>2
<1>4. CASE g[u] \notin S /\ f[u] \in S
  <2>1. /\ At(g, T, S) = At(f, T, S) \ {u}
        /\ u \in At(f, T, S)
    BY <1>4 DEF At
  <2>2. Cardinality(At(g, T, S)) = Cardinality(At(f, T, S)) - 1
    BY <1>1, <2>1, FS_RemoveElement
  <2>3. QED
    BY <1>1, <1>4, <2>2
<1>5. CASE g[u] \notin S /\ f[u] \notin S
  <2>1. At(g, T, S) = At(f, T, S)
    BY <1>5 DEF At
  <2>2. QED
    BY <1>1, <1>5, <2>1
<1>6. QED
  BY <1>2, <1>3, <1>4, <1>5
SbufInv ==
    /\ TypeOK
    /\ MutexHeld
    /\ MutualExclusion
    /\ SlotsAccounted
    /\ ItemsAccounted

-----------------------------------------------------------------------------
\* What a step of a producer does to the counts.
LEMMA ProducerMoves ==
    ASSUME TypeOK, NEW p \in Producers, NEW from, NEW to, Goto(p, from, to),
           NEW S
    PROVE  /\ Count(Producers, S)' = Count(Producers, S)
                 + (IF to \in S THEN 1 ELSE 0) - (IF from \in S THEN 1 ELSE 0)
           /\ Count(Consumers, S)' = Count(Consumers, S)
<1>1. /\ pc \in [Threads -> InsertLabels \cup RemoveLabels]
      /\ p \in Threads
      /\ pc[p] = from
      /\ pc' = [pc EXCEPT ![p] = to]
      /\ Producers \subseteq Threads
      /\ Consumers \subseteq Threads
  BY DEF TypeOK, Goto, Threads
<1>2. p \notin Consumers
  BY ThreadsAssumption
<1>3. /\ pc'[p] = to
      /\ \A t \in Producers \ {p} : pc'[t] = pc[t]
      /\ \A t \in Consumers : pc'[t] = pc[t]
  BY <1>1, <1>2
<1>4. Cardinality(At(pc', Producers, S)) =
        Cardinality(At(pc, Producers, S))
          + (IF pc'[p] \in S THEN 1 ELSE 0) - (IF pc[p] \in S THEN 1 ELSE 0)
  <2>1. IsFiniteSet(Producers)
    BY ThreadsAssumption
  <2>2. QED
    BY <1>3, <2>1, CountMove
<1>5. Cardinality(At(pc', Consumers, S)) = Cardinality(At(pc, Consumers, S))
  BY <1>3, CountOther
<1>6. QED
  BY <1>1, <1>3, <1>4, <1>5 DEF Count, At

\* What a step of a consumer does to the counts.
LEMMA ConsumerMoves ==
    ASSUME TypeOK, NEW c \in Consumers, NEW from, NEW to, Goto(c, from, to),
           NEW S
    PROVE  /\ Count(Consumers, S)' = Count(Consumers, S)
                 + (IF to \in S THEN 1 ELSE 0) - (IF from \in S THEN 1 ELSE 0)
           /\ Count(Producers, S)' = Count(Producers, S)
<1>1. /\ pc \in [Threads -> InsertLabels \cup RemoveLabels]
      /\ c \in Threads
      /\ pc[c] = from
      /\ pc' = [pc EXCEPT ![c] = to]
      /\ Producers \subseteq Threads
      /\ Consumers \subseteq Threads
  BY DEF TypeOK, Goto, Threads
<1>2. c \notin Producers
  BY ThreadsAssumption
<1>3. /\ pc'[c] = to
      /\ \A t \in Consumers \ {c} : pc'[t] = pc[t]
      /\ \A t \in Producers : pc'[t] = pc[t]
  BY <1>1, <1>2
<1>4. Cardinality(At(pc', Consumers, S)) =
        Cardinality(At(pc, Consumers, S))
          + (IF pc'[c] \in S THEN 1 ELSE 0) - (IF pc[c] \in S THEN 1 ELSE 0)
  <2>1. IsFiniteSet(Consumers)
    BY ThreadsAssumption
  <2>2. QED
    BY <1>3, <2>1, CountMove
<1>5. Cardinality(At(pc', Producers, S)) = Cardinality(At(pc, Producers, S))
  BY <1>3, CountOther
<1>6. QED
  BY <1>1, <1>3, <1>4, <1>5 DEF Count, At

\* The counts are natural numbers.
LEMMA CountType ==
    ASSUME NEW S
    PROVE  Count(Producers, S) \in Nat /\ Count(Consumers, S) \in Nat
<1>1. /\ Count(Producers, S) = Cardinality(At(pc, Producers, S))
      /\ Count(Consumers, S) = Cardinality(At(pc, Consumers, S))
  BY DEF Count, At
<1>2. QED
  BY <1>1, CountIsNat, ThreadsAssumption
-----------------------------------------------------------------------------
\* Type correctness.  Every step of sbuf_insert and sbuf_remove keeps the
\* counters natural numbers and the ring a ring of N slots.
LEMMA TypeOKInit == Init => TypeOK
<1> SUFFICES ASSUME Init PROVE TypeOK
  OBVIOUS
<1>1. /\ pc \in [Threads -> InsertLabels \cup RemoveLabels]
      /\ \A p \in Producers : pc[p] \in InsertLabels
      /\ \A c \in Consumers : pc[c] \in RemoveLabels
  BY ThreadsAssumption DEF Init, Threads, InsertLabels, RemoveLabels
<1>2. QED
  BY <1>1, NAssumption, MaxInsertsAssumption DEF Init, TypeOK

\* A counter, taken modulo n, is the index of a slot.
LEMMA SlotInRing == ASSUME NEW i \in Nat PROVE SlotOf(i) \in 0 .. N - 1
BY NAssumption DEF SlotOf

\* Every statement keeps the types.
LEMMA TypeOKNext == TypeOK /\ [Next]_vars => TypeOK'
<1> SUFFICES ASSUME TypeOK, [Next]_vars PROVE TypeOK'
  OBVIOUS
<1> USE DEF TypeOK, Goto, Threads, InsertLabels, RemoveLabels
<1>1. ASSUME NEW p \in Producers, CallInsert(p) PROVE TypeOK'
  <2>1. inserts' \in 0 .. MaxInserts
    BY <1>1, MaxInsertsAssumption DEF CallInsert
  <2>2. QED
    BY <1>1, <2>1, ThreadsAssumption DEF CallInsert
<1>2. ASSUME NEW p \in Producers, WaitSlots(p) PROVE TypeOK'
  BY <1>2, ThreadsAssumption DEF WaitSlots, SemWait
<1>3. ASSUME NEW t \in Threads, WaitMutex(t) PROVE TypeOK'
  BY <1>3, ThreadsAssumption DEF WaitMutex, SemWait
<1>4. ASSUME NEW p \in Producers, BumpRear(p) PROVE TypeOK'
  BY <1>4, ThreadsAssumption DEF BumpRear
<1>5. ASSUME NEW p \in Producers, StoreItem(p) PROVE TypeOK'
  BY <1>5, ThreadsAssumption, SlotInRing DEF StoreItem
<1>6. ASSUME NEW t \in Threads, PostMutex(t) PROVE TypeOK'
  BY <1>6, ThreadsAssumption DEF PostMutex, SemPost
<1>7. ASSUME NEW p \in Producers, PostItems(p) PROVE TypeOK'
  BY <1>7, ThreadsAssumption DEF PostItems, SemPost
<1>8. ASSUME NEW c \in Consumers, WaitItems(c) PROVE TypeOK'
  BY <1>8, ThreadsAssumption DEF WaitItems, SemWait
<1>9. ASSUME NEW c \in Consumers, BumpFront(c) PROVE TypeOK'
  BY <1>9, ThreadsAssumption DEF BumpFront
<1>10. ASSUME NEW c \in Consumers, FetchItem(c) PROVE TypeOK'
  BY <1>10, ThreadsAssumption, SlotInRing DEF FetchItem
<1>11. ASSUME NEW c \in Consumers, PostSlots(c) PROVE TypeOK'
  BY <1>11, ThreadsAssumption DEF PostSlots, SemPost
<1>12. ASSUME NEW c \in Consumers, Serve(c) PROVE TypeOK'
  BY <1>12, ThreadsAssumption DEF Serve
<1>13. CASE UNCHANGED vars
  BY <1>13 DEF vars
<1>14. QED
  BY <1>1, <1>2, <1>3, <1>4, <1>5, <1>6, <1>7, <1>8, <1>9, <1>10, <1>11,
     <1>12, <1>13 DEF Next, InsertStep, WorkerStep

\* The type invariant of the buffer holds in every reachable state.
THEOREM TypeCorrect == Spec => []TypeOK
<1>1. Init => TypeOK
  BY TypeOKInit
<1>2. TypeOK /\ [Next]_vars => TypeOK'
  BY TypeOKNext
<1>3. QED
  BY <1>1, <1>2, PTL DEF Spec
-----------------------------------------------------------------------------
\* The whole invariant holds before the first call: nobody is in sbuf.c.
LEMMA SbufInvInit == Init => SbufInv
<1> SUFFICES ASSUME Init PROVE SbufInv
  OBVIOUS
<1>1. \A t \in Threads : pc[t] \in {"idle", "wait_items"}
  BY DEF Init
<1>2. /\ Count(Producers, Claiming) = 0
      /\ Count(Producers, Announcing) = 0
      /\ Count(Consumers, Claiming) = 0
      /\ Count(Consumers, Releasing) = 0
  <2>1. \A t \in Producers \cup Consumers :
            /\ pc[t] \notin Claiming
            /\ pc[t] \notin Announcing
            /\ pc[t] \notin Releasing
    BY <1>1 DEF Threads, Claiming, Announcing, Releasing
  <2>2. /\ Cardinality(At(pc, Producers, Claiming)) = 0
        /\ Cardinality(At(pc, Producers, Announcing)) = 0
        /\ Cardinality(At(pc, Consumers, Claiming)) = 0
        /\ Cardinality(At(pc, Consumers, Releasing)) = 0
    BY <2>1, CountZero
  <2>3. QED
    BY <2>2 DEF Count, At
<1>3. SlotsAccounted /\ ItemsAccounted
  BY <1>2, NAssumption DEF Init, SlotsAccounted, ItemsAccounted
<1>4. MutexHeld /\ MutualExclusion
  BY <1>1 DEF Init, MutexHeld, MutualExclusion, CriticalLabels
<1>5. QED
  BY <1>3, <1>4, TypeOKInit DEF SbufInv

\* Every statement of sbuf_insert and sbuf_remove keeps the whole invariant,
\* because of what it does to the counts of threads (first part of each step)
\* and to the mutex (second part).
LEMMA SbufInvNext == SbufInv /\ [Next]_vars => SbufInv'
<1> SUFFICES ASSUME SbufInv, [Next]_vars PROVE SbufInv'
  OBVIOUS
<1>1. TypeOK /\ TypeOK'
  BY TypeOKNext DEF SbufInv
<1>2. /\ Count(Producers, Claiming) \in Nat
      /\ Count(Producers, Announcing) \in Nat
      /\ Count(Consumers, Claiming) \in Nat
      /\ Count(Consumers, Releasing) \in Nat
  BY CountType
<1>3. Producers \subseteq Threads /\ Consumers \subseteq Threads
  BY DEF Threads
<1> USE DEF SbufInv
<1>4. ASSUME NEW p \in Producers, CallInsert(p) PROVE SbufInv'
  <2>1. /\ Count(Producers, Claiming)' = Count(Producers, Claiming)
        /\ Count(Producers, Announcing)' = Count(Producers, Announcing)
        /\ Count(Consumers, Releasing)' = Count(Consumers, Releasing)
        /\ Count(Consumers, Claiming)' = Count(Consumers, Claiming)
    BY <1>4, <1>1, <1>2, ProducerMoves, ThreadsAssumption
       DEF CallInsert, Claiming, Announcing, Releasing
  <2>2. SlotsAccounted' /\ ItemsAccounted'
    BY <1>4, <1>1, <1>2, <2>1, NAssumption
       DEF CallInsert, SlotsAccounted, ItemsAccounted, TypeOK
  <2>3. MutexHeld' /\ MutualExclusion'
    BY <1>4, <1>1, <1>3
       DEF CallInsert, Goto, MutexHeld, MutualExclusion, CriticalLabels, TypeOK
  <2>4. QED
    BY <1>1, <2>2, <2>3
<1>5. ASSUME NEW p \in Producers, WaitSlots(p) PROVE SbufInv'
  <2>1. /\ Count(Producers, Claiming)' = Count(Producers, Claiming) + 1
        /\ Count(Producers, Announcing)' = Count(Producers, Announcing)
        /\ Count(Consumers, Releasing)' = Count(Consumers, Releasing)
        /\ Count(Consumers, Claiming)' = Count(Consumers, Claiming)
    BY <1>5, <1>1, <1>2, ProducerMoves, ThreadsAssumption
       DEF WaitSlots, Claiming, Announcing, Releasing
  <2>2. SlotsAccounted' /\ ItemsAccounted'
    BY <1>5, <1>1, <1>2, <2>1, NAssumption
       DEF WaitSlots, SemWait, SlotsAccounted, ItemsAccounted, TypeOK
  <2>3. MutexHeld' /\ MutualExclusion'
    BY <1>5, <1>1, <1>3
       DEF WaitSlots, Goto, SemWait, MutexHeld, MutualExclusion,
           CriticalLabels, TypeOK
  <2>4. QED
    BY <1>1, <2>2, <2>3
<1>6. ASSUME NEW p \in Producers, WaitMutex(p) PROVE SbufInv'
  <2>1. /\ Count(Producers, Claiming)' = Count(Producers, Claiming)
        /\ Count(Producers, Announcing)' = Count(Producers, Announcing)
        /\ Count(Consumers, Releasing)' = Count(Consumers, Releasing)
        /\ Count(Consumers, Claiming)' = Count(Consumers, Claiming)
    BY <1>6, <1>1, <1>2, ProducerMoves, ThreadsAssumption
       DEF WaitMutex, Claiming, Announcing, Releasing
  <2>2. SlotsAccounted' /\ ItemsAccounted'
    BY <1>6, <1>1, <1>2, <2>1, NAssumption
       DEF WaitMutex, SemWait, SlotsAccounted, ItemsAccounted, TypeOK
  <2>3. MutexHeld' /\ MutualExclusion'
    BY <1>6, <1>1, <1>3
       DEF WaitMutex, Goto, SemWait, MutexHeld, MutualExclusion,
           CriticalLabels, TypeOK
  <2>4. QED
    BY <1>1, <2>2, <2>3
<1>7. ASSUME NEW p \in Producers, BumpRear(p) PROVE SbufInv'
  <2>1. /\ Count(Producers, Claiming)' = Count(Producers, Claiming) - 1
        /\ Count(Producers, Announcing)' = Count(Producers, Announcing) + 1
        /\ Count(Consumers, Releasing)' = Count(Consumers, Releasing)
        /\ Count(Consumers, Claiming)' = Count(Consumers, Claiming)
    BY <1>7, <1>1, <1>2, ProducerMoves, ThreadsAssumption
       DEF BumpRear, Claiming, Announcing, Releasing
  <2>2. SlotsAccounted' /\ ItemsAccounted'
    <3>1. /\ rear' = rear + 1 /\ front' = front
          /\ slots' = slots /\ items' = items
          /\ rear \in Nat /\ front \in Nat /\ slots \in Nat /\ items \in Nat
      BY <1>7, <1>1 DEF BumpRear, TypeOK
    <3>2. SlotsAccounted'
      BY <1>2, <2>1, <3>1, NAssumption DEF SlotsAccounted
    <3>3. ItemsAccounted'
      BY <1>2, <2>1, <3>1, NAssumption DEF ItemsAccounted
    <3>4. QED
      BY <3>2, <3>3
  <2>3. MutexHeld' /\ MutualExclusion'
    BY <1>7, <1>1, <1>3
       DEF BumpRear, Goto, MutexHeld, MutualExclusion, CriticalLabels, TypeOK
  <2>4. QED
    BY <1>1, <2>2, <2>3
<1>8. ASSUME NEW p \in Producers, StoreItem(p) PROVE SbufInv'
  <2>1. /\ Count(Producers, Claiming)' = Count(Producers, Claiming)
        /\ Count(Producers, Announcing)' = Count(Producers, Announcing)
        /\ Count(Consumers, Releasing)' = Count(Consumers, Releasing)
        /\ Count(Consumers, Claiming)' = Count(Consumers, Claiming)
    BY <1>8, <1>1, <1>2, ProducerMoves, ThreadsAssumption
       DEF StoreItem, Claiming, Announcing, Releasing
  <2>2. SlotsAccounted' /\ ItemsAccounted'
    BY <1>8, <1>1, <1>2, <2>1, NAssumption
       DEF StoreItem, SlotsAccounted, ItemsAccounted, TypeOK
  <2>3. MutexHeld' /\ MutualExclusion'
    BY <1>8, <1>1, <1>3
       DEF StoreItem, Goto, MutexHeld, MutualExclusion, CriticalLabels, TypeOK
  <2>4. QED
    BY <1>1, <2>2, <2>3
<1>9. ASSUME NEW p \in Producers, PostMutex(p) PROVE SbufInv'
  <2>1. /\ Count(Producers, Claiming)' = Count(Producers, Claiming)
        /\ Count(Producers, Announcing)' = Count(Producers, Announcing)
        /\ Count(Consumers, Releasing)' = Count(Consumers, Releasing)
        /\ Count(Consumers, Claiming)' = Count(Consumers, Claiming)
    BY <1>9, <1>1, <1>2, ProducerMoves, ThreadsAssumption
       DEF PostMutex, Claiming, Announcing, Releasing
  <2>2. SlotsAccounted' /\ ItemsAccounted'
    BY <1>9, <1>1, <1>2, <2>1, NAssumption
       DEF PostMutex, SemPost, SlotsAccounted, ItemsAccounted, TypeOK
  <2>3. MutexHeld' /\ MutualExclusion'
    BY <1>9, <1>1, <1>3
       DEF PostMutex, Goto, SemPost, MutexHeld, MutualExclusion,
           CriticalLabels, TypeOK
  <2>4. QED
    BY <1>1, <2>2, <2>3
<1>10. ASSUME NEW p \in Producers, PostItems(p) PROVE SbufInv'
  <2>1. /\ Count(Producers, Claiming)' = Count(Producers, Claiming)
        /\ Count(Producers, Announcing)' = Count(Producers, Announcing) - 1
        /\ Count(Consumers, Releasing)' = Count(Consumers, Releasing)
        /\ Count(Consumers, Claiming)' = Count(Consumers, Claiming)
    BY <1>10, <1>1, <1>2, ProducerMoves, ThreadsAssumption
       DEF PostItems, Claiming, Announcing, Releasing
  <2>2. SlotsAccounted' /\ ItemsAccounted'
    BY <1>10, <1>1, <1>2, <2>1, NAssumption
       DEF PostItems, SemPost, SlotsAccounted, ItemsAccounted, TypeOK
  <2>3. MutexHeld' /\ MutualExclusion'
    BY <1>10, <1>1, <1>3
       DEF PostItems, Goto, SemPost, MutexHeld, MutualExclusion,
           CriticalLabels, TypeOK
  <2>4. QED
    BY <1>1, <2>2, <2>3
<1>11. ASSUME NEW c \in Consumers, WaitItems(c) PROVE SbufInv'
  <2>1. /\ Count(Producers, Claiming)' = Count(Producers, Claiming)
        /\ Count(Producers, Announcing)' = Count(Producers, Announcing)
        /\ Count(Consumers, Releasing)' = Count(Consumers, Releasing)
        /\ Count(Consumers, Claiming)' = Count(Consumers, Claiming) + 1
    BY <1>11, <1>1, <1>2, ConsumerMoves, ThreadsAssumption
       DEF WaitItems, Claiming, Announcing, Releasing
  <2>2. SlotsAccounted' /\ ItemsAccounted'
    BY <1>11, <1>1, <1>2, <2>1, NAssumption
       DEF WaitItems, SemWait, SlotsAccounted, ItemsAccounted, TypeOK
  <2>3. MutexHeld' /\ MutualExclusion'
    BY <1>11, <1>1, <1>3
       DEF WaitItems, Goto, SemWait, MutexHeld, MutualExclusion,
           CriticalLabels, TypeOK
  <2>4. QED
    BY <1>1, <2>2, <2>3
<1>12. ASSUME NEW c \in Consumers, WaitMutex(c) PROVE SbufInv'
  <2>1. /\ Count(Producers, Claiming)' = Count(Producers, Claiming)
        /\ Count(Producers, Announcing)' = Count(Producers, Announcing)
        /\ Count(Consumers, Releasing)' = Count(Consumers, Releasing)
        /\ Count(Consumers, Claiming)' = Count(Consumers, Claiming)
    BY <1>12, <1>1, <1>2, ConsumerMoves, ThreadsAssumption
       DEF WaitMutex, Claiming, Announcing, Releasing
  <2>2. SlotsAccounted' /\ ItemsAccounted'
    BY <1>12, <1>1, <1>2, <2>1, NAssumption
       DEF WaitMutex, SemWait, SlotsAccounted, ItemsAccounted, TypeOK
  <2>3. MutexHeld' /\ MutualExclusion'
    BY <1>12, <1>1, <1>3
       DEF WaitMutex, Goto, SemWait, MutexHeld, MutualExclusion,
           CriticalLabels, TypeOK
  <2>4. QED
    BY <1>1, <2>2, <2>3
<1>13. ASSUME NEW c \in Consumers, BumpFront(c) PROVE SbufInv'
  <2>1. /\ Count(Producers, Claiming)' = Count(Producers, Claiming)
        /\ Count(Producers, Announcing)' = Count(Producers, Announcing)
        /\ Count(Consumers, Releasing)' = Count(Consumers, Releasing) + 1
        /\ Count(Consumers, Claiming)' = Count(Consumers, Claiming) - 1
    BY <1>13, <1>1, <1>2, ConsumerMoves, ThreadsAssumption
       DEF BumpFront, Claiming, Announcing, Releasing
  <2>2. SlotsAccounted' /\ ItemsAccounted'
    <3>1. /\ front' = front + 1 /\ rear' = rear
          /\ slots' = slots /\ items' = items
          /\ rear \in Nat /\ front \in Nat /\ slots \in Nat /\ items \in Nat
      BY <1>13, <1>1 DEF BumpFront, TypeOK
    <3>2. SlotsAccounted'
      BY <1>2, <2>1, <3>1, NAssumption DEF SlotsAccounted
    <3>3. ItemsAccounted'
      <4>1. rear' - front' = (rear - front) - 1
        BY <3>1
      <4>2. items' + Count(Producers, Announcing)' + Count(Consumers, Claiming)'
              = (items + Count(Producers, Announcing)
                       + Count(Consumers, Claiming)) - 1
        BY <1>2, <2>1, <3>1
      <4>3. QED
        BY <4>1, <4>2 DEF ItemsAccounted
    <3>4. QED
      BY <3>2, <3>3
  <2>3. MutexHeld' /\ MutualExclusion'
    BY <1>13, <1>1, <1>3
       DEF BumpFront, Goto, MutexHeld, MutualExclusion, CriticalLabels, TypeOK
  <2>4. QED
    BY <1>1, <2>2, <2>3
<1>14. ASSUME NEW c \in Consumers, FetchItem(c) PROVE SbufInv'
  <2>1. /\ Count(Producers, Claiming)' = Count(Producers, Claiming)
        /\ Count(Producers, Announcing)' = Count(Producers, Announcing)
        /\ Count(Consumers, Releasing)' = Count(Consumers, Releasing)
        /\ Count(Consumers, Claiming)' = Count(Consumers, Claiming)
    BY <1>14, <1>1, <1>2, ConsumerMoves, ThreadsAssumption
       DEF FetchItem, Claiming, Announcing, Releasing
  <2>2. SlotsAccounted' /\ ItemsAccounted'
    BY <1>14, <1>1, <1>2, <2>1, NAssumption
       DEF FetchItem, SlotsAccounted, ItemsAccounted, TypeOK
  <2>3. MutexHeld' /\ MutualExclusion'
    BY <1>14, <1>1, <1>3
       DEF FetchItem, Goto, MutexHeld, MutualExclusion, CriticalLabels, TypeOK
  <2>4. QED
    BY <1>1, <2>2, <2>3
<1>15. ASSUME NEW c \in Consumers, PostMutex(c) PROVE SbufInv'
  <2>1. /\ Count(Producers, Claiming)' = Count(Producers, Claiming)
        /\ Count(Producers, Announcing)' = Count(Producers, Announcing)
        /\ Count(Consumers, Releasing)' = Count(Consumers, Releasing)
        /\ Count(Consumers, Claiming)' = Count(Consumers, Claiming)
    BY <1>15, <1>1, <1>2, ConsumerMoves, ThreadsAssumption
       DEF PostMutex, Claiming, Announcing, Releasing
  <2>2. SlotsAccounted' /\ ItemsAccounted'
    BY <1>15, <1>1, <1>2, <2>1, NAssumption
       DEF PostMutex, SemPost, SlotsAccounted, ItemsAccounted, TypeOK
  <2>3. MutexHeld' /\ MutualExclusion'
    BY <1>15, <1>1, <1>3
       DEF PostMutex, Goto, SemPost, MutexHeld, MutualExclusion,
           CriticalLabels, TypeOK
  <2>4. QED
    BY <1>1, <2>2, <2>3
<1>16. ASSUME NEW c \in Consumers, PostSlots(c) PROVE SbufInv'
  <2>1. /\ Count(Producers, Claiming)' = Count(Producers, Claiming)
        /\ Count(Producers, Announcing)' = Count(Producers, Announcing)
        /\ Count(Consumers, Releasing)' = Count(Consumers, Releasing) - 1
        /\ Count(Consumers, Claiming)' = Count(Consumers, Claiming)
    BY <1>16, <1>1, <1>2, ConsumerMoves, ThreadsAssumption
       DEF PostSlots, Claiming, Announcing, Releasing
  <2>2. SlotsAccounted' /\ ItemsAccounted'
    BY <1>16, <1>1, <1>2, <2>1, NAssumption
       DEF PostSlots, SemPost, SlotsAccounted, ItemsAccounted, TypeOK
  <2>3. MutexHeld' /\ MutualExclusion'
    BY <1>16, <1>1, <1>3
       DEF PostSlots, Goto, SemPost, MutexHeld, MutualExclusion,
           CriticalLabels, TypeOK
  <2>4. QED
    BY <1>1, <2>2, <2>3
<1>17. ASSUME NEW c \in Consumers, Serve(c) PROVE SbufInv'
  <2>1. /\ Count(Producers, Claiming)' = Count(Producers, Claiming)
        /\ Count(Producers, Announcing)' = Count(Producers, Announcing)
        /\ Count(Consumers, Releasing)' = Count(Consumers, Releasing)
        /\ Count(Consumers, Claiming)' = Count(Consumers, Claiming)
    BY <1>17, <1>1, <1>2, ConsumerMoves, ThreadsAssumption
       DEF Serve, Claiming, Announcing, Releasing
  <2>2. SlotsAccounted' /\ ItemsAccounted'
    BY <1>17, <1>1, <1>2, <2>1, NAssumption
       DEF Serve, SlotsAccounted, ItemsAccounted, TypeOK
  <2>3. MutexHeld' /\ MutualExclusion'
    BY <1>17, <1>1, <1>3
       DEF Serve, Goto, MutexHeld, MutualExclusion, CriticalLabels, TypeOK
  <2>4. QED
    BY <1>1, <2>2, <2>3
<1>18. CASE UNCHANGED vars
  <2>1. SlotsAccounted' /\ ItemsAccounted'
    BY <1>18 DEF vars, SlotsAccounted, ItemsAccounted, Count
  <2>2. MutexHeld' /\ MutualExclusion'
    BY <1>18 DEF vars, MutexHeld, MutualExclusion
  <2>3. QED
    BY <1>1, <2>1, <2>2
<1>19. QED
  BY <1>4, <1>5, <1>6, <1>7, <1>8, <1>9, <1>10,
     <1>11, <1>12, <1>13, <1>14, <1>15, <1>16, <1>17, <1>18
  DEF Next, InsertStep, WorkerStep

\* The invariant holds in every reachable state.
THEOREM SbufInvariant == Spec => []SbufInv
<1>1. Init => SbufInv
  BY SbufInvInit
<1>2. SbufInv /\ [Next]_vars => SbufInv'
  BY SbufInvNext
<1>3. QED
  BY <1>1, <1>2, PTL DEF Spec

\* At most one thread at a time is inside the region sbuf.c guards with its
\* mutex, however many threads share the buffer.
THEOREM MutexIsExclusive == Spec => []MutualExclusion
<1>1. SbufInv => MutualExclusion
  BY DEF SbufInv
<1>2. QED
  BY <1>1, SbufInvariant, PTL

\* No slot and no announcement is ever lost or counted twice, however the
\* calls interleave.
THEOREM SlotsAndItemsAccounted == Spec => [](SlotsAccounted /\ ItemsAccounted)
<1>1. SbufInv => SlotsAccounted /\ ItemsAccounted
  BY DEF SbufInv
<1>2. QED
  BY <1>1, SbufInvariant, PTL

\* Whatever the number of threads and slots, an insertion never overwrites
\* an item nobody has removed and a removal never overtakes the insertions.
THEOREM NoOverrun == Spec => []NeverOverrun
<1>1. SbufInv => NeverOverrun
  <2> SUFFICES ASSUME SbufInv PROVE NeverOverrun
    OBVIOUS
  <2>1. /\ Count(Producers, Claiming) \in Nat
        /\ Count(Producers, Announcing) \in Nat
        /\ Count(Consumers, Claiming) \in Nat
        /\ Count(Consumers, Releasing) \in Nat
    BY CountType
  <2>2. QED
    BY <2>1, NAssumption
       DEF SbufInv, TypeOK, SlotsAccounted, ItemsAccounted, NeverOverrun
<1>2. QED
  BY <1>1, SbufInvariant, PTL

-----------------------------------------------------------------------------
(* The queue is the part of the ring between Fetched and Stored.  A store  *)
(* appends to it and a fetch takes its head; every other statement leaves  *)
(* it alone.  That a store does not touch the queue itself needs two facts:*)
(* the queue is then shorter than the ring, which follows from the account *)
(* of the slots, and counters less than N apart have different slots.      *)

\* A thread that is inside sbuf_insert carries a connection.
Called == \A p \in Producers : pc[p] # "idle" => item[p] \in Items

QueueInv == SbufInv /\ Called

LEMMA QueueInvInit == Init => QueueInv
BY SbufInvInit, ThreadsAssumption DEF QueueInv, Called, Init, Threads

\* An argument is set by the call and kept until it returns.
LEMMA QueueInvNext == QueueInv /\ [Next]_vars => QueueInv'
<1> SUFFICES ASSUME QueueInv, [Next]_vars PROVE QueueInv'
  OBVIOUS
<1>1. SbufInv /\ SbufInv' /\ TypeOK
  BY SbufInvNext DEF QueueInv, SbufInv
<1>2. ASSUME NEW p \in Producers, pc'[p] # "idle" PROVE item'[p] \in Items
  <2>1. p \notin Consumers /\ p \in Threads
    BY ThreadsAssumption DEF Threads
  <2>2. CASE CallInsert(p)
    BY <1>1, <2>1, <2>2 DEF CallInsert, TypeOK
  <2>3. CASE ~ CallInsert(p)
    <3>1. pc[p] # "idle" /\ item'[p] = item[p]
      BY <1>1, <1>2, <2>1, <2>3, ThreadsAssumption
      DEF Next, InsertStep, WorkerStep, CallInsert, WaitSlots, WaitMutex,
          BumpRear, StoreItem, PostMutex, PostItems, WaitItems, BumpFront,
          FetchItem, PostSlots, Serve, Goto, TypeOK, Threads, vars
    <3>2. QED
      BY <3>1 DEF QueueInv, Called
  <2>4. QED
    BY <2>2, <2>3
<1>3. QED
  BY <1>1, <1>2 DEF QueueInv, Called

\* The buffer's invariant with the arguments of the calls.
LEMMA QueueInvariant == Spec => []QueueInv
BY QueueInvInit, QueueInvNext, PTL DEF Spec
-----------------------------------------------------------------------------
\* Counters less than N apart have the same slot only if they are equal.
LEMMA CounterDivided ==
    ASSUME NEW k \in Int
    PROVE  k \div N \in Int /\ k = N * (k \div N) + (k % N)
BY NAssumption

LEMMA NoSmallMultiple ==
    ASSUME NEW q \in Int, NEW d \in Int, d = N * q, -N < d, d < N
    PROVE  d = 0
<1>1. CASE q >= 1
  BY <1>1, NAssumption
<1>2. CASE q <= -1
  BY <1>2, NAssumption
<1>3. CASE q = 0
  BY <1>3, NAssumption
<1>4. QED
  BY <1>1, <1>2, <1>3

LEMMA SlotsDiffer ==
    ASSUME NEW k \in Int, NEW l \in Int, k - l < N, l - k < N,
           SlotOf(k) = SlotOf(l)
    PROVE  k = l
<1>1. k - l = N * ((k \div N) - (l \div N))
  BY CounterDivided, NAssumption DEF SlotOf
<1>2. k - l = 0
  BY <1>1, NoSmallMultiple, CounterDivided, NAssumption
<1>3. QED
  BY <1>2
-----------------------------------------------------------------------------
\* A thread that is about to access a slot is the only one that is: no other
\* thread is about to store or to fetch.
LEMMA StoreAlone ==
    ASSUME SbufInv, NEW p \in Producers, pc[p] = "store"
    PROVE  /\ Count(Producers, {"store"}) = 1
           /\ Count(Consumers, {"fetch"}) = 0
<1>1. \A t \in Threads : pc[t] \in {"store", "fetch"} => t = p
  BY DEF SbufInv, MutualExclusion, CriticalLabels, Threads
<1>2. {t \in Producers : pc[t] \in {"store"}} = {p}
  BY <1>1 DEF Threads
<1>3. {t \in Consumers : pc[t] \in {"fetch"}} = {}
  BY <1>1 DEF Threads
<1>4. QED
  BY <1>2, <1>3, FS_Singleton, FS_EmptySet DEF Count

LEMMA FetchAlone ==
    ASSUME SbufInv, NEW c \in Consumers, pc[c] = "fetch"
    PROVE  /\ Count(Producers, {"store"}) = 0
           /\ Count(Consumers, {"fetch"}) = 1
<1>1. \A t \in Threads : pc[t] \in {"store", "fetch"} => t = c
  BY DEF SbufInv, MutualExclusion, CriticalLabels, Threads
<1>2. {t \in Consumers : pc[t] \in {"fetch"}} = {c}
  BY <1>1 DEF Threads
<1>3. {t \in Producers : pc[t] \in {"store"}} = {}
  BY <1>1 DEF Threads
<1>4. QED
  BY <1>2, <1>3, FS_Singleton, FS_EmptySet DEF Count

\* The part of a group at some labels is no larger than at more labels.
LEMMA CountMonotone ==
    ASSUME NEW T, IsFiniteSet(T), NEW R, NEW S, R \subseteq S
    PROVE  Count(T, R) <= Count(T, S)
<1>1. {t \in T : pc[t] \in R} \subseteq {t \in T : pc[t] \in S}
  OBVIOUS
<1>2. IsFiniteSet({t \in T : pc[t] \in S})
  BY FS_Subset
<1>3. QED
  BY <1>1, <1>2, FS_Subset DEF Count

\* The queue has no negative length and fits into the ring.
LEMMA QueueFits ==
    ASSUME SbufInv
    PROVE  /\ Stored \in Int /\ Fetched \in Int
           /\ 0 <= Stored - Fetched /\ Stored - Fetched <= N
<1>1. /\ Count(Producers, {"store"}) <= Count(Producers, Announcing)
      /\ Count(Consumers, {"fetch"}) <= Count(Consumers, Releasing)
  BY CountMonotone, ThreadsAssumption DEF Announcing, Releasing
<1>2. /\ Count(Producers, {"store"}) \in Nat
      /\ Count(Consumers, {"fetch"}) \in Nat
      /\ Count(Producers, Claiming) \in Nat
      /\ Count(Producers, Announcing) \in Nat
      /\ Count(Consumers, Claiming) \in Nat
      /\ Count(Consumers, Releasing) \in Nat
  BY CountType
<1>3. front \in Nat /\ rear \in Nat /\ slots \in Nat /\ items \in Nat
  BY DEF SbufInv, TypeOK
<1>4. Stored \in Int /\ Fetched \in Int
  BY <1>2, <1>3 DEF Stored, Fetched
<1>5. 0 <= Stored - Fetched
  BY <1>1, <1>2, <1>3 DEF SbufInv, ItemsAccounted, Stored, Fetched
<1>6. Stored - Fetched <= N
  BY <1>1, <1>2, <1>3, NAssumption DEF SbufInv, SlotsAccounted, Stored, Fetched
<1>7. QED
  BY <1>4, <1>5, <1>6
-----------------------------------------------------------------------------
\* The queue, element by element.
Entry(i) == buf[SlotOf(Fetched + i)]
Queue == [i \in 1 .. Stored - Fetched |-> Entry(i)]
Got == [c \in Consumers |-> item[c]]

\* A store appends the argument of the call to the queue.
LEMMA StorePuts ==
    ASSUME QueueInv, NEW p \in Producers, StoreItem(p)
    PROVE  /\ item[p] \in Items /\ Len(Queue) < N
           /\ Queue' = Append(Queue, item[p]) /\ Got' = Got
<1>1. /\ pc[p] = "store" /\ item[p] \in Items
      /\ Goto(p, "store", "post_mutex")
      /\ buf' = [buf EXCEPT ![SlotOf(rear)] = item[p]]
      /\ UNCHANGED <<front, rear, item>>
      /\ TypeOK /\ SbufInv
  BY DEF StoreItem, Goto, QueueInv, Called, SbufInv
<1>2. /\ Count(Producers, {"store"}) = 1 /\ Count(Consumers, {"fetch"}) = 0
      /\ Count(Producers, {"store"})' = 0 /\ Count(Consumers, {"fetch"})' = 0
  <2>1. /\ Count(Producers, {"store"}) = 1 /\ Count(Consumers, {"fetch"}) = 0
    BY <1>1, StoreAlone
  <2>2. /\ Count(Producers, {"store"})' = Count(Producers, {"store"}) - 1
        /\ Count(Consumers, {"fetch"})' = Count(Consumers, {"fetch"})
    BY <1>1, <2>1, ProducerMoves
  <2>3. QED
    BY <2>1, <2>2
<1>3. /\ rear \in Nat /\ front \in Nat /\ slots \in Nat
      /\ rear = Stored + 1 /\ Stored \in Int
      /\ Stored' = Stored + 1 /\ Fetched' = Fetched /\ Fetched = front
  BY <1>1, <1>2 DEF TypeOK, Stored, Fetched
<1>4. 0 <= Stored - Fetched /\ Stored - Fetched < N
  <2>1. /\ Count(Producers, Claiming) \in Nat
        /\ Count(Consumers, Releasing) \in Nat
    BY CountType
  <2>2. QED
    BY <1>1, <1>3, <2>1, QueueFits, NAssumption DEF SbufInv, SlotsAccounted
<1>5. PICK n \in Nat : /\ n = Stored - Fetched /\ n < N
                       /\ Stored' - Fetched' = n + 1
  BY <1>3, <1>4
<1>6. ASSUME NEW i \in 1 .. n PROVE Entry(i)' = Entry(i)
  <2>1. SlotOf(Fetched + i) # SlotOf(rear)
    BY <1>3, <1>5, SlotsDiffer, NAssumption
  <2>2. QED
    BY <1>1, <1>3, <2>1 DEF Entry, TypeOK, SlotOf
<1>7. Entry(n + 1)' = item[p]
  <2>1. SlotOf(rear) \in 0 .. N - 1
    BY <1>3, SlotInRing
  <2>2. Fetched' + (n + 1) = rear
    BY <1>3, <1>5
  <2>3. QED
    BY <1>1, <1>3, <2>1, <2>2 DEF Entry, TypeOK, SlotOf
<1>8. Queue' = [i \in 1 .. n + 1 |-> IF i = n + 1 THEN item[p] ELSE Queue[i]]
  BY <1>5, <1>6, <1>7 DEF Queue
<1>9. Len(Queue) = n
  BY <1>5 DEF Queue
<1>10. Queue' = Append(Queue, item[p])
  BY <1>8, <1>9
<1>11. QED
  BY <1>1, <1>5, <1>9, <1>10 DEF Got

\* A fetch hands the head of the queue to the consumer.
LEMMA FetchTakes ==
    ASSUME QueueInv, NEW c \in Consumers, FetchItem(c)
    PROVE  /\ Queue # <<>> /\ Queue' = Tail(Queue)
           /\ Got' = [Got EXCEPT ![c] = Head(Queue)]
<1>1. /\ pc[c] = "fetch" /\ Goto(c, "fetch", "post_mutex")
      /\ item' = [item EXCEPT ![c] = buf[SlotOf(front)]]
      /\ UNCHANGED <<front, rear, buf>>
      /\ TypeOK /\ SbufInv
  BY DEF FetchItem, Goto, QueueInv, SbufInv
<1>2. /\ Count(Producers, {"store"}) = 0 /\ Count(Consumers, {"fetch"}) = 1
      /\ Count(Producers, {"store"})' = 0 /\ Count(Consumers, {"fetch"})' = 0
  <2>1. /\ Count(Producers, {"store"}) = 0 /\ Count(Consumers, {"fetch"}) = 1
    BY <1>1, FetchAlone
  <2>2. /\ Count(Consumers, {"fetch"})' = Count(Consumers, {"fetch"}) - 1
        /\ Count(Producers, {"store"})' = Count(Producers, {"store"})
    BY <1>1, <2>1, ConsumerMoves
  <2>3. QED
    BY <2>1, <2>2
<1>3. /\ front \in Nat /\ rear \in Nat
      /\ front = Fetched + 1 /\ Fetched \in Int /\ Stored \in Int
      /\ Stored' = Stored /\ Fetched' = Fetched + 1 /\ Stored = rear
  BY <1>1, <1>2 DEF TypeOK, Stored, Fetched
<1>4. 0 <= rear - front
  <2>1. /\ Count(Producers, Announcing) \in Nat
        /\ Count(Consumers, Claiming) \in Nat
    BY CountType
  <2>2. QED
    BY <1>1, <1>3, <2>1 DEF SbufInv, ItemsAccounted, TypeOK
<1>5. PICK n \in Nat : /\ n >= 1 /\ n = Stored - Fetched
                       /\ Stored' - Fetched' = n - 1
  BY <1>3, <1>4
<1>6. Len(Queue) = n /\ Queue # <<>>
  BY <1>5 DEF Queue
<1>7. Queue' = [i \in 1 .. n - 1 |-> Queue[i + 1]]
  <2>1. ASSUME NEW i \in 1 .. n - 1 PROVE Entry(i)' = Queue[i + 1]
    <3>1. Entry(i)' = buf[SlotOf((Fetched + 1) + i)]
      BY <1>1, <1>3 DEF Entry, SlotOf
    <3>2. (Fetched + 1) + i = Fetched + (i + 1) /\ i + 1 \in 1 .. n
      BY <1>3, <1>5
    <3>3. QED
      BY <1>5, <3>1, <3>2 DEF Queue, Entry
  <2>2. QED
    BY <1>5, <2>1 DEF Queue
<1>8. Queue' = Tail(Queue)
  <2> DEFINE Entries == {Entry(i) : i \in 1 .. n}
  <2>1. Queue \in Seq(Entries)
    BY <1>5 DEF Queue
  <2>2. /\ Tail(Queue) \in Seq(Entries) /\ Len(Tail(Queue)) = n - 1
        /\ \A i \in 1 .. n - 1 : Tail(Queue)[i] = Queue[i + 1]
    BY <1>5, <1>6, <2>1
  <2>3. Tail(Queue) = [i \in 1 .. n - 1 |-> Queue[i + 1]]
    <3>1. Tail(Queue) \in [1 .. n - 1 -> Entries]
      BY <2>2, LenProperties
    <3>2. QED
      BY <2>2, <3>1
  <2>4. QED
    BY <1>7, <2>3
<1>9. Head(Queue) = buf[SlotOf(front)]
  BY <1>3, <1>5 DEF Queue, Entry
<1>10. Got' = [Got EXCEPT ![c] = Head(Queue)]
  BY <1>1, <1>9 DEF Got, TypeOK, Threads
<1>11. QED
  BY <1>6, <1>8, <1>10

\* Every other statement leaves the queue and what was handed out as they are.
LEMMA OthersStutter ==
    ASSUME QueueInv, [Next]_vars,
           \A p \in Producers : ~ StoreItem(p),
           \A c \in Consumers : ~ FetchItem(c)
    PROVE  Queue' = Queue /\ Got' = Got
<1>1. TypeOK
  BY DEF QueueInv, SbufInv
<1>2. /\ Count(Producers, {"store"}) \in Nat
      /\ Count(Consumers, {"fetch"}) \in Nat
      /\ front \in Nat /\ rear \in Nat
  BY <1>1, CountType DEF TypeOK
<1>3. buf' = buf /\ Stored' = Stored /\ Fetched' = Fetched
  <2>1. CASE UNCHANGED vars
    BY <2>1 DEF vars, Stored, Fetched, Count
  <2>2. ASSUME NEW p \in Producers, BumpRear(p)
        PROVE  buf' = buf /\ Stored' = Stored /\ Fetched' = Fetched
    <3>1. /\ Count(Producers, {"store"})' = Count(Producers, {"store"}) + 1
          /\ Count(Consumers, {"fetch"})' = Count(Consumers, {"fetch"})
      BY <1>1, <1>2, <2>2, ProducerMoves DEF BumpRear
    <3>2. QED
      BY <1>2, <2>2, <3>1 DEF BumpRear, Stored, Fetched
  <2>3. ASSUME NEW c \in Consumers, BumpFront(c)
        PROVE  buf' = buf /\ Stored' = Stored /\ Fetched' = Fetched
    <3>1. /\ Count(Producers, {"store"})' = Count(Producers, {"store"})
          /\ Count(Consumers, {"fetch"})' = Count(Consumers, {"fetch"}) + 1
      BY <1>1, <1>2, <2>3, ConsumerMoves DEF BumpFront
    <3>2. QED
      BY <1>2, <2>3, <3>1 DEF BumpFront, Stored, Fetched
  <2>4. ASSUME NEW p \in Producers,
               CallInsert(p) \/ WaitSlots(p) \/ WaitMutex(p) \/ PostMutex(p)
                 \/ PostItems(p)
        PROVE  buf' = buf /\ Stored' = Stored /\ Fetched' = Fetched
    <3>1. PICK from, to : /\ Goto(p, from, to) /\ from # "store"
                          /\ to # "store" /\ UNCHANGED <<buf, front, rear>>
      BY <2>4
      DEF CallInsert, WaitSlots, WaitMutex, PostMutex, PostItems
    <3>2. /\ Count(Producers, {"store"})' = Count(Producers, {"store"})
          /\ Count(Consumers, {"fetch"})' = Count(Consumers, {"fetch"})
      BY <1>1, <1>2, <3>1, ProducerMoves
    <3>3. QED
      BY <3>1, <3>2 DEF Stored, Fetched
  <2>5. ASSUME NEW c \in Consumers,
               WaitItems(c) \/ WaitMutex(c) \/ PostMutex(c) \/ PostSlots(c)
                 \/ Serve(c)
        PROVE  buf' = buf /\ Stored' = Stored /\ Fetched' = Fetched
    <3>1. PICK from, to : /\ Goto(c, from, to) /\ from # "fetch"
                          /\ to # "fetch" /\ UNCHANGED <<buf, front, rear>>
      BY <2>5 DEF WaitItems, WaitMutex, PostMutex, PostSlots, Serve
    <3>2. /\ Count(Producers, {"store"})' = Count(Producers, {"store"})
          /\ Count(Consumers, {"fetch"})' = Count(Consumers, {"fetch"})
      BY <1>1, <1>2, <3>1, ConsumerMoves
    <3>3. QED
      BY <3>1, <3>2 DEF Stored, Fetched
  <2>6. QED
    BY <2>1, <2>2, <2>3, <2>4, <2>5 DEF Next, InsertStep, WorkerStep
<1>4. \A c \in Consumers : item'[c] = item[c]
  BY <1>1, ThreadsAssumption
  DEF Next, InsertStep, WorkerStep, CallInsert, WaitSlots, WaitMutex, BumpRear,
      PostMutex, PostItems, WaitItems, BumpFront, PostSlots, Serve, TypeOK,
      Threads, vars
<1>5. QED
  BY <1>3, <1>4 DEF Queue, Got, Entry, SlotOf
-----------------------------------------------------------------------------
\* The abstract variables are the queue above and the items handed out.
LEMMA AbstractVariables ==
    /\ [i \in 1 .. Stored - Fetched |-> buf[SlotOf(Fetched + i)]] = Queue
    /\ [c \in Consumers |-> item[c]] = Got
BY DEF Queue, Got, Entry

LEMMA FifoStarts == Init => Fifo!FifoInit
<1> SUFFICES ASSUME Init PROVE Fifo!FifoInit
  OBVIOUS
<1>1. /\ Count(Producers, {"store"}) = 0
      /\ Count(Consumers, {"fetch"}) = 0
  <2>1. \A t \in Threads : pc[t] \in {"idle", "wait_items"}
    BY DEF Init
  <2>2. /\ {t \in Producers : pc[t] \in {"store"}} = {}
        /\ {t \in Consumers : pc[t] \in {"fetch"}} = {}
    BY <2>1 DEF Threads
  <2>3. QED
    BY <2>2, FS_EmptySet DEF Count
<1>2. Stored - Fetched = 0
  BY <1>1 DEF Init, Stored, Fetched
<1>3. Queue = <<>>
  BY <1>2 DEF Queue
<1>4. Got = [c \in Consumers |-> NoItem]
  BY DEF Init, Got, Threads
<1>5. QED
  BY <1>3, <1>4, AbstractVariables DEF Fifo!FifoInit

LEMMA FifoSteps ==
    QueueInv /\ [Next]_vars => [Fifo!FifoNext]_(Fifo!fifoVars)
<1> SUFFICES ASSUME QueueInv, [Next]_vars
             PROVE  [Fifo!FifoNext]_(Fifo!fifoVars)
  OBVIOUS
<1>1. /\ [i \in 1 .. Stored - Fetched |-> buf[SlotOf(Fetched + i)]] = Queue
      /\ [c \in Consumers |-> item[c]] = Got
      /\ [i \in 1 .. Stored - Fetched |-> buf[SlotOf(Fetched + i)]]' = Queue'
      /\ [c \in Consumers |-> item[c]]' = Got'
  BY DEF Queue, Got, Entry
<1>2. ASSUME NEW p \in Producers, StoreItem(p) PROVE Fifo!FifoNext
  BY <1>1, <1>2, StorePuts DEF Fifo!FifoNext, Fifo!Put
<1>3. ASSUME NEW c \in Consumers, FetchItem(c) PROVE Fifo!FifoNext
  BY <1>1, <1>3, FetchTakes DEF Fifo!FifoNext, Fifo!Take
<1>4. CASE /\ \A p \in Producers : ~ StoreItem(p)
           /\ \A c \in Consumers : ~ FetchItem(c)
  BY <1>1, <1>4, OthersStutter DEF Fifo!fifoVars
<1>5. QED
  BY <1>2, <1>3, <1>4

\* However many threads share the buffer and however their statements
\* interleave, it is a first-in first-out queue: every store appends to it and
\* every fetch takes its oldest item.
THEOREM BufferIsFifo == Spec => RefinesFifo
<1>1. Init => Fifo!FifoInit
  BY FifoStarts
<1>2. QueueInv /\ [Next]_vars => [Fifo!FifoNext]_(Fifo!fifoVars)
  BY FifoSteps
<1>3. QED
  BY <1>1, <1>2, QueueInvariant, PTL DEF Spec, RefinesFifo, Fifo!FifoSpec
=============================================================================
