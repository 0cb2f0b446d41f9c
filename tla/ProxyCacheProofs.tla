-------------------------- MODULE ProxyCacheProofs --------------------------
(***************************************************************************)
(* The readers-writer lock of the proxy's cache, for any number of threads *)
(* and whatever the threads do to the lists: readers_count is the number   *)
(* of threads between the two counting steps, readers_lock and             *)
(* writers_lock each admit one holder, and writers_lock is held by a       *)
(* single writer or on behalf of all the readers.                          *)
(*                                                                         *)
(* Then its two linked lists: the pointers that are followed stay within   *)
(* the nodes that are allocated, and no lookup stands on a node that was   *)
(* freed.  A list is well linked when its pointers agree two by two: the   *)
(* node behind n has n in front of it, and the nodes at the ends are the   *)
(* ones without a neighbour.  Each operation keeps that for the set of     *)
(* nodes it leaves on the list, and needs to look no further than one node *)
(* away.                                                                   *)
(*                                                                         *)
(* Last each list as a whole: it is a sequence that has every stored node  *)
(* once, their sizes add up to total_size, of two entries for one key the  *)
(* older is evicted first, and lookups and additions are those of the LRU  *)
(* cache in LruCache.  An order is tied to the pointers by Chain: next and *)
(* prev lead from each node of the sequence to the one behind and in front *)
(* of it.  Then Walk is that sequence, and what an operation does to the   *)
(* pointers is to put a node at one end or to take one out.                *)
(***************************************************************************)
EXTENDS ProxyCacheLists, FiniteSetTheorems, TLAPS

-----------------------------------------------------------------------------
(* How many threads are at given places, and how a step changes that.        *)

\* The threads of T that f places in S.
At(f, T, S) == {t \in T : f[t] \in S}

\* The number of threads at a set of places is a natural number.
LEMMA CountIsNat ==
    ASSUME NEW T, IsFiniteSet(T), NEW f, NEW S
    PROVE  /\ IsFiniteSet(At(f, T, S))
           /\ Cardinality(At(f, T, S)) \in Nat
<1>1. At(f, T, S) \subseteq T
  BY DEF At
<1>2. QED
  BY <1>1, FS_Subset, FS_CardinalityType

\* A thread at one of the places is counted.
LEMMA CountPositive ==
    ASSUME NEW T, IsFiniteSet(T), NEW f, NEW S, NEW t \in T, f[t] \in S
    PROVE  Cardinality(At(f, T, S)) >= 1
<1>1. /\ IsFiniteSet(At(f, T, S))
      /\ Cardinality(At(f, T, S)) \in Nat
  BY CountIsNat
<1>2. t \in At(f, T, S)
  BY DEF At
<1>3. Cardinality(At(f, T, S)) # 0
  BY <1>1, <1>2, FS_EmptySet
<1>4. QED
  BY <1>1, <1>3

\* With no thread at one of the places, the count is zero.
LEMMA CountZero ==
    ASSUME NEW T, NEW f, NEW S, \A t \in T : f[t] \notin S
    PROVE  Cardinality(At(f, T, S)) = 0
<1>1. At(f, T, S) = {}
  BY DEF At
<1>2. QED
  BY <1>1, FS_EmptySet

\* If the count is not zero, some thread is at one of the places.
LEMMA CountWitness ==
    ASSUME NEW T, NEW f, NEW S, Cardinality(At(f, T, S)) # 0
    PROVE  \E t \in T : f[t] \in S
<1>1. At(f, T, S) # {}
  BY FS_EmptySet
<1>2. QED
  BY <1>1 DEF At

\* A thread moves from one place to another: it is counted less if it was
\* at one of the places and counted more if it now is.
LEMMA CountMove ==
    ASSUME NEW T, IsFiniteSet(T), NEW f, NEW g, NEW S, NEW u \in T,
           \A t \in T \ {u} : g[t] = f[t]
    PROVE  Cardinality(At(g, T, S)) =
             Cardinality(At(f, T, S)) + (IF g[u] \in S THEN 1 ELSE 0)
                                      - (IF f[u] \in S THEN 1 ELSE 0)
<1>1. /\ IsFiniteSet(At(f, T, S))
      /\ Cardinality(At(f, T, S)) \in Nat
  BY CountIsNat
<1>2. CASE g[u] \in S /\ f[u] \in S
  <2>1. At(g, T, S) = At(f, T, S)
    BY <1>2 DEF At
  <2>2. QED
    BY <1>1, <1>2, <2>1
<1>3. CASE g[u] \in S /\ f[u] \notin S
  <2>1. /\ At(g, T, S) = At(f, T, S) \cup {u}
        /\ u \notin At(f, T, S)
    BY <1>3 DEF At
  <2>2. Cardinality(At(g, T, S)) = Cardinality(At(f, T, S)) + 1
    BY <1>1, <2>1, FS_AddElement
  <2>3. QED
    BY <1>1, <1>3, <2>2
<1>4. CASE g[u] \notin S /\ f[u] \in S
  <2>1. /\ At(g, T, S) = At(f, T, S) \ {u}
        /\ u \in At(f, T, S)
    BY <1>4 DEF At
  <2>2. Cardinality(At(g, T, S)) = Cardinality(At(f, T, S)) - 1
    BY <1>1, <2>1, FS_RemoveElement
  <2>3. QED
    BY <1>1, <1>4, <2>2
<1>5. CASE g[u] \notin S /\ f[u] \notin S
  <2>1. At(g, T, S) = At(f, T, S)
    BY <1>5 DEF At
  <2>2. QED
    BY <1>1, <1>5, <2>1
<1>6. QED
  BY <1>2, <1>3, <1>4, <1>5

\* Of the numbers in a set there is a least, which stands for an induction.
LEMMA LeastExists ==
    ASSUME NEW T \in SUBSET Nat, T # {}
    PROVE  \E x \in T : \A y \in T : x <= y
<1>1. IsWellFoundedOn(OpToRel(<, Nat), Nat)
  BY NatLessThanWellFounded
<1>2. PICK x \in T : \A y \in T : ~(<<y, x>> \in OpToRel(<, Nat))
  BY <1>1, WFMin
<1>3. ASSUME NEW y \in T PROVE x <= y
  <2>1. ~(<<y, x>> \in OpToRel(<, Nat))
    BY <1>2
  <2>2. QED
    BY <2>1 DEF OpToRel
<1>4. QED
  BY <1>3
LockTypes ==
    /\ readers_count \in Int
    /\ readers_lock \in {0, 1}
    /\ writers_lock \in {0, 1}
    /\ pc \in [Threads -> Labels]

\* Thread t goes to a label.
GoesTo(t, to) == pc' = [pc EXCEPT ![t] = to]

\* readers_count counts the readers; the last one has counted itself out.
ReadersCounted ==
    /\ readers_count = Cardinality(At(pc, Threads, Counted))
    /\ \A t \in Threads : pc[t] = "leave_last" => readers_count = 0

\* A free semaphore has no holder.
FreeMeansNotHeld ==
    /\ readers_lock = 1 => \A t \in Threads : pc[t] \notin HoldingReadersLock
    /\ writers_lock = 1 => \A t \in Threads : pc[t] \notin Writing \cup Reading

LockInv ==
    /\ LockTypes
    /\ ReadersCounted
    /\ FreeMeansNotHeld
    /\ ReadersTakeTurns
    /\ WritersAreAlone
-----------------------------------------------------------------------------
\* Initially no thread is anywhere near the locks.
LEMMA LockInvInit == Init => LockInv
<1> SUFFICES ASSUME Init PROVE LockInv
  OBVIOUS
<1>1. \A t \in Threads : pc[t] = "idle"
  BY DEF Init
<1>2. Cardinality(At(pc, Threads, Counted)) = 0
  <2>1. \A t \in Threads : pc[t] \notin Counted
    BY <1>1 DEF Counted
  <2>2. QED
    BY <2>1, CountZero
<1>3. LockTypes
  BY DEF Init, LockTypes, Labels
<1>4. ReadersCounted /\ FreeMeansNotHeld
  BY <1>1, <1>2
     DEF Init, ReadersCounted, FreeMeansNotHeld, HoldingReadersLock, Writing,
         Reading, Counted
<1>5. ReadersTakeTurns /\ WritersAreAlone
  BY <1>1 DEF ReadersTakeTurns, WritersAreAlone, HoldingReadersLock, Writing
<1>6. QED
  BY <1>3, <1>4, <1>5 DEF LockInv

\* How the number of readers changes when thread t goes from one label to
\* another.
LEMMA CountedMoves ==
    ASSUME LockInv, NEW t \in Threads, NEW to, GoesTo(t, to)
    PROVE  /\ (to \in Counted <=> pc[t] \in Counted) =>
                 Cardinality(At(pc', Threads, Counted)) =
                     Cardinality(At(pc, Threads, Counted))
           /\ to \in Counted /\ pc[t] \notin Counted =>
                 Cardinality(At(pc', Threads, Counted)) =
                     Cardinality(At(pc, Threads, Counted)) + 1
           /\ to \notin Counted /\ pc[t] \in Counted =>
                 Cardinality(At(pc', Threads, Counted)) =
                     Cardinality(At(pc, Threads, Counted)) - 1
<1>1. \A u \in Threads \ {t} : pc'[u] = pc[u]
  BY DEF LockInv, LockTypes, GoesTo
<1>2. IsFiniteSet(Threads)
  BY ThreadsFinite
<1>3. Cardinality(At(pc', Threads, Counted)) =
        Cardinality(At(pc, Threads, Counted))
          + (IF pc'[t] \in Counted THEN 1 ELSE 0)
          - (IF pc[t] \in Counted THEN 1 ELSE 0)
  BY <1>1, <1>2, CountMove
<1>4. Cardinality(At(pc, Threads, Counted)) \in Nat
  BY <1>2, CountIsNat
<1>5. pc'[t] = to
  BY DEF LockInv, LockTypes, GoesTo
<1>6. QED
  BY <1>3, <1>4, <1>5

\* A step that leaves the locks alone and keeps its thread on the same side
\* of each of them keeps the invariant.
LEMMA SameSide ==
    ASSUME LockInv, NEW t \in Threads, NEW to \in Labels,
           GoesTo(t, to), UNCHANGED lockVars,
           to \in HoldingReadersLock <=> pc[t] \in HoldingReadersLock,
           to \in Counted <=> pc[t] \in Counted,
           to \in Reading <=> pc[t] \in Reading,
           to \in Writing <=> pc[t] \in Writing,
           to # "leave_last"
    PROVE  LockInv'
<1>1. LockTypes'
  BY DEF LockInv, LockTypes, lockVars, GoesTo
<1>2. ReadersCounted'
  <2>1. Cardinality(At(pc', Threads, Counted)) =
          Cardinality(At(pc, Threads, Counted))
    BY CountedMoves
  <2>2. QED
    BY <2>1 DEF LockInv, LockTypes, ReadersCounted, lockVars, GoesTo
<1>3. FreeMeansNotHeld' /\ ReadersTakeTurns' /\ WritersAreAlone'
  BY DEF LockInv, LockTypes, FreeMeansNotHeld, ReadersTakeTurns,
         WritersAreAlone, lockVars, GoesTo
<1>4. QED
  BY <1>1, <1>2, <1>3 DEF LockInv
-----------------------------------------------------------------------------
\* Every step keeps the invariant.  The steps that leave both semaphores and
\* the count alone come first, the others take or release a semaphore, and the
\* two counting steps need to know whether there is another reader.
LEMMA LockInvNext == LockInv /\ [Next]_vars => LockInv'
<1> SUFFICES ASSUME LockInv, [Next]_vars PROVE LockInv'
  OBVIOUS
<1>0. Cardinality(At(pc, Threads, Counted)) \in Nat
  BY CountIsNat, ThreadsFinite
<1>1. ASSUME NEW t \in Threads, Request(t) PROVE LockInv'
  <2>1. GoesTo(t, "get_wait") /\ UNCHANGED lockVars
    BY <1>1 DEF Request, Goto, GoesTo
  <2>2. QED
    BY <1>1, <2>1, SameSide
       DEF Request, Goto, HoldingReadersLock, Counted, Reading, Writing, Labels
<1>2. ASSUME NEW t \in Threads, ScanHead(t) PROVE LockInv'
  <2>1. GoesTo(t, "scan") /\ UNCHANGED lockVars
    BY <1>2 DEF ScanHead, Goto, GoesTo
  <2>2. QED
    BY <1>2, <2>1, SameSide
       DEF ScanHead, Goto, HoldingReadersLock, Counted, Reading, Writing,
           Labels
<1>3. ASSUME NEW t \in Threads, ScanEnd(t) PROVE LockInv'
  <2>1. GoesTo(t, "leave_wait") /\ UNCHANGED lockVars
    BY <1>3 DEF ScanEnd, Goto, GoesTo
  <2>2. QED
    BY <1>3, <2>1, SameSide
       DEF ScanEnd, Goto, HoldingReadersLock, Counted, Reading, Writing, Labels
<1>4. ASSUME NEW t \in Threads, ScanHit(t) PROVE LockInv'
  <2>1. GoesTo(t, "touch_wait") /\ UNCHANGED lockVars
    BY <1>4 DEF ScanHit, Goto, GoesTo
  <2>2. QED
    BY <1>4, <2>1, SameSide
       DEF ScanHit, Goto, HoldingReadersLock, Counted, Reading, Writing, Labels
<1>5. ASSUME NEW t \in Threads, TouchRemove(t) PROVE LockInv'
  <2>1. GoesTo(t, "touch_append") /\ UNCHANGED lockVars
    BY <1>5 DEF TouchRemove, Goto, GoesTo
  <2>2. QED
    BY <1>5, <2>1, SameSide
       DEF TouchRemove, Goto, HoldingReadersLock, Counted, Reading, Writing,
           Labels
<1>6. ASSUME NEW t \in Threads, TouchAppend(t) PROVE LockInv'
  <2>1. GoesTo(t, "touch_unlock") /\ UNCHANGED lockVars
    BY <1>6 DEF TouchAppend, Goto, GoesTo
  <2>2. QED
    BY <1>6, <2>1, SameSide
       DEF TouchAppend, Goto, HoldingReadersLock, Counted, Reading, Writing,
           Labels
<1>7. ASSUME NEW t \in Threads, Copy(t) PROVE LockInv'
  <2>1. GoesTo(t, "leave_wait") /\ UNCHANGED lockVars
    BY <1>7 DEF Copy, Goto, GoesTo
  <2>2. QED
    BY <1>7, <2>1, SameSide
       DEF Copy, Goto, HoldingReadersLock, Counted, Reading, Writing, Labels
<1>8. ASSUME NEW t \in Threads, Insert(t) PROVE LockInv'
  <2>1. GoesTo(t, "add_unlock") /\ UNCHANGED lockVars
    BY <1>8 DEF Insert, Goto, GoesTo
  <2>2. QED
    BY <1>8, <2>1, SameSide
       DEF Insert, Goto, HoldingReadersLock, Counted, Reading, Writing, Labels
<1>9. ASSUME NEW t \in Threads, Fetch(t) PROVE LockInv'
  <2>1. PICK s \in Sizes :
            GoesTo(t, IF s > MaxObjectSize THEN "idle" ELSE "add_wait")
    BY <1>9 DEF Fetch, GoesTo
  <2>2. QED
    BY <1>9, <2>1, SameSide
       DEF Fetch, Goto, HoldingReadersLock, Counted, Reading, Writing, Labels
<1>10. ASSUME NEW t \in Threads, ScanNext(t) PROVE LockInv'
  <2>1. UNCHANGED <<pc, lockVars>>
    BY <1>10 DEF ScanNext
  <2>2. QED
    BY <2>1
       DEF LockInv, LockTypes, ReadersCounted, FreeMeansNotHeld,
           ReadersTakeTurns, WritersAreAlone, lockVars
<1>11. ASSUME NEW t \in Threads, Evict(t) PROVE LockInv'
  <2>1. UNCHANGED <<pc, lockVars>>
    BY <1>11 DEF Evict
  <2>2. QED
    BY <2>1
       DEF LockInv, LockTypes, ReadersCounted, FreeMeansNotHeld,
           ReadersTakeTurns, WritersAreAlone, lockVars
<1>12. ASSUME NEW t \in Threads, EnterWait(t) PROVE LockInv'
  <2>1. Cardinality(At(pc', Threads, Counted)) =
          Cardinality(At(pc, Threads, Counted))
    <3>1. GoesTo(t, "enter_count")
      BY <1>12 DEF EnterWait, Goto, GoesTo
    <3>2. "enter_count" \in Counted <=> pc[t] \in Counted
      BY <1>12 DEF EnterWait, Goto, Counted
    <3>3. QED
      BY <3>1, <3>2, CountedMoves
  <2>2. LockTypes' /\ ReadersCounted'
    BY <1>12, <1>0, <2>1
       DEF EnterWait, Goto, SemWait, LockInv, LockTypes, ReadersCounted,
           FreeMeansNotHeld, ReadersTakeTurns, HoldingReadersLock, Counted,
           Reading, Labels
  <2>3. FreeMeansNotHeld' /\ ReadersTakeTurns' /\ WritersAreAlone'
    BY <1>12, <1>0
       DEF EnterWait, Goto, SemWait, LockInv, LockTypes, ReadersCounted,
           FreeMeansNotHeld, ReadersTakeTurns, WritersAreAlone,
           HoldingReadersLock, Counted, Reading, Writing
  <2>4. QED
    BY <2>2, <2>3 DEF LockInv
<1>13. ASSUME NEW t \in Threads, EnterFirst(t) PROVE LockInv'
  <2>1. Cardinality(At(pc', Threads, Counted)) =
          Cardinality(At(pc, Threads, Counted))
    <3>1. GoesTo(t, "enter_unlock")
      BY <1>13 DEF EnterFirst, Goto, GoesTo
    <3>2. "enter_unlock" \in Counted <=> pc[t] \in Counted
      BY <1>13 DEF EnterFirst, Goto, Counted
    <3>3. QED
      BY <3>1, <3>2, CountedMoves
  <2>2. LockTypes' /\ ReadersCounted'
    BY <1>13, <1>0, <2>1
       DEF EnterFirst, Goto, SemWait, LockInv, LockTypes, ReadersCounted,
           FreeMeansNotHeld, ReadersTakeTurns, HoldingReadersLock, Counted,
           Reading, Labels
  <2>3. FreeMeansNotHeld' /\ ReadersTakeTurns' /\ WritersAreAlone'
    BY <1>13, <1>0
       DEF EnterFirst, Goto, SemWait, LockInv, LockTypes, ReadersCounted,
           FreeMeansNotHeld, ReadersTakeTurns, WritersAreAlone,
           HoldingReadersLock, Counted, Reading, Writing
  <2>4. QED
    BY <2>2, <2>3 DEF LockInv
<1>14. ASSUME NEW t \in Threads, EnterUnlock(t) PROVE LockInv'
  <2>1. Cardinality(At(pc', Threads, Counted)) =
          Cardinality(At(pc, Threads, Counted))
    <3>1. GoesTo(t, "scan_head")
      BY <1>14 DEF EnterUnlock, Goto, GoesTo
    <3>2. "scan_head" \in Counted <=> pc[t] \in Counted
      BY <1>14 DEF EnterUnlock, Goto, Counted
    <3>3. QED
      BY <3>1, <3>2, CountedMoves
  <2>2. LockTypes' /\ ReadersCounted'
    BY <1>14, <1>0, <2>1
       DEF EnterUnlock, Goto, SemPost, LockInv, LockTypes, ReadersCounted,
           FreeMeansNotHeld, ReadersTakeTurns, HoldingReadersLock, Counted,
           Reading, Labels
  <2>3. FreeMeansNotHeld' /\ ReadersTakeTurns' /\ WritersAreAlone'
    BY <1>14, <1>0
       DEF EnterUnlock, Goto, SemPost, LockInv, LockTypes, ReadersCounted,
           FreeMeansNotHeld, ReadersTakeTurns, WritersAreAlone,
           HoldingReadersLock, Counted, Reading, Writing
  <2>4. QED
    BY <2>2, <2>3 DEF LockInv
<1>15. ASSUME NEW t \in Threads, TouchWait(t) PROVE LockInv'
  <2>1. Cardinality(At(pc', Threads, Counted)) =
          Cardinality(At(pc, Threads, Counted))
    <3>1. GoesTo(t, "touch_remove")
      BY <1>15 DEF TouchWait, Goto, GoesTo
    <3>2. "touch_remove" \in Counted <=> pc[t] \in Counted
      BY <1>15 DEF TouchWait, Goto, Counted
    <3>3. QED
      BY <3>1, <3>2, CountedMoves
  <2>2. LockTypes' /\ ReadersCounted'
    BY <1>15, <1>0, <2>1
       DEF TouchWait, Goto, SemWait, LockInv, LockTypes, ReadersCounted,
           FreeMeansNotHeld, ReadersTakeTurns, HoldingReadersLock, Counted,
           Reading, Labels
  <2>3. FreeMeansNotHeld' /\ ReadersTakeTurns' /\ WritersAreAlone'
    BY <1>15, <1>0
       DEF TouchWait, Goto, SemWait, LockInv, LockTypes, ReadersCounted,
           FreeMeansNotHeld, ReadersTakeTurns, WritersAreAlone,
           HoldingReadersLock, Counted, Reading, Writing
  <2>4. QED
    BY <2>2, <2>3 DEF LockInv
<1>16. ASSUME NEW t \in Threads, TouchUnlock(t) PROVE LockInv'
  <2>1. Cardinality(At(pc', Threads, Counted)) =
          Cardinality(At(pc, Threads, Counted))
    <3>1. GoesTo(t, "copy")
      BY <1>16 DEF TouchUnlock, Goto, GoesTo
    <3>2. "copy" \in Counted <=> pc[t] \in Counted
      BY <1>16 DEF TouchUnlock, Goto, Counted
    <3>3. QED
      BY <3>1, <3>2, CountedMoves
  <2>2. LockTypes' /\ ReadersCounted'
    BY <1>16, <1>0, <2>1
       DEF TouchUnlock, Goto, SemPost, LockInv, LockTypes, ReadersCounted,
           FreeMeansNotHeld, ReadersTakeTurns, HoldingReadersLock, Counted,
           Reading, Labels
  <2>3. FreeMeansNotHeld' /\ ReadersTakeTurns' /\ WritersAreAlone'
    BY <1>16, <1>0
       DEF TouchUnlock, Goto, SemPost, LockInv, LockTypes, ReadersCounted,
           FreeMeansNotHeld, ReadersTakeTurns, WritersAreAlone,
           HoldingReadersLock, Counted, Reading, Writing
  <2>4. QED
    BY <2>2, <2>3 DEF LockInv
<1>17. ASSUME NEW t \in Threads, LeaveWait(t) PROVE LockInv'
  <2>1. Cardinality(At(pc', Threads, Counted)) =
          Cardinality(At(pc, Threads, Counted))
    <3>1. GoesTo(t, "leave_count")
      BY <1>17 DEF LeaveWait, Goto, GoesTo
    <3>2. "leave_count" \in Counted <=> pc[t] \in Counted
      BY <1>17 DEF LeaveWait, Goto, Counted
    <3>3. QED
      BY <3>1, <3>2, CountedMoves
  <2>2. LockTypes' /\ ReadersCounted'
    BY <1>17, <1>0, <2>1
       DEF LeaveWait, Goto, SemWait, LockInv, LockTypes, ReadersCounted,
           FreeMeansNotHeld, ReadersTakeTurns, HoldingReadersLock, Counted,
           Reading, Labels
  <2>3. FreeMeansNotHeld' /\ ReadersTakeTurns' /\ WritersAreAlone'
    BY <1>17, <1>0
       DEF LeaveWait, Goto, SemWait, LockInv, LockTypes, ReadersCounted,
           FreeMeansNotHeld, ReadersTakeTurns, WritersAreAlone,
           HoldingReadersLock, Counted, Reading, Writing
  <2>4. QED
    BY <2>2, <2>3 DEF LockInv
<1>18. ASSUME NEW t \in Threads, LeaveUnlock(t) PROVE LockInv'
  <2>1. Cardinality(At(pc', Threads, Counted)) =
          Cardinality(At(pc, Threads, Counted))
    <3>1. GoesTo(t, IF answer[t] # NoEntry THEN "idle" ELSE "fetch")
      BY <1>18 DEF LeaveUnlock, Goto, GoesTo
    <3>2. (IF answer[t] # NoEntry THEN "idle" ELSE "fetch") \in Counted
            <=> pc[t] \in Counted
      BY <1>18 DEF LeaveUnlock, Goto, Counted
    <3>3. QED
      BY <3>1, <3>2, CountedMoves
  <2>2. LockTypes' /\ ReadersCounted'
    BY <1>18, <1>0, <2>1
       DEF LeaveUnlock, Goto, SemPost, LockInv, LockTypes, ReadersCounted,
           FreeMeansNotHeld, ReadersTakeTurns, HoldingReadersLock, Counted,
           Reading, Labels
  <2>3. FreeMeansNotHeld' /\ ReadersTakeTurns' /\ WritersAreAlone'
    BY <1>18, <1>0
       DEF LeaveUnlock, Goto, SemPost, LockInv, LockTypes, ReadersCounted,
           FreeMeansNotHeld, ReadersTakeTurns, WritersAreAlone,
           HoldingReadersLock, Counted, Reading, Writing
  <2>4. QED
    BY <2>2, <2>3 DEF LockInv
<1>19. ASSUME NEW t \in Threads, AddWait(t) PROVE LockInv'
  <2>1. Cardinality(At(pc', Threads, Counted)) =
          Cardinality(At(pc, Threads, Counted))
    <3>1. GoesTo(t, "add_room")
      BY <1>19 DEF AddWait, Goto, GoesTo
    <3>2. "add_room" \in Counted <=> pc[t] \in Counted
      BY <1>19 DEF AddWait, Goto, Counted
    <3>3. QED
      BY <3>1, <3>2, CountedMoves
  <2>2. LockTypes' /\ ReadersCounted'
    BY <1>19, <1>0, <2>1
       DEF AddWait, Goto, SemWait, LockInv, LockTypes, ReadersCounted,
           FreeMeansNotHeld, ReadersTakeTurns, HoldingReadersLock, Counted,
           Reading, Labels
  <2>3. FreeMeansNotHeld' /\ ReadersTakeTurns' /\ WritersAreAlone'
    BY <1>19, <1>0
       DEF AddWait, Goto, SemWait, LockInv, LockTypes, ReadersCounted,
           FreeMeansNotHeld, ReadersTakeTurns, WritersAreAlone,
           HoldingReadersLock, Counted, Reading, Writing
  <2>4. QED
    BY <2>2, <2>3 DEF LockInv
<1>20. ASSUME NEW t \in Threads, AddUnlock(t) PROVE LockInv'
  <2>1. Cardinality(At(pc', Threads, Counted)) =
          Cardinality(At(pc, Threads, Counted))
    <3>1. GoesTo(t, "idle")
      BY <1>20 DEF AddUnlock, Goto, GoesTo
    <3>2. "idle" \in Counted <=> pc[t] \in Counted
      BY <1>20 DEF AddUnlock, Goto, Counted
    <3>3. QED
      BY <3>1, <3>2, CountedMoves
  <2>2. LockTypes' /\ ReadersCounted'
    BY <1>20, <1>0, <2>1
       DEF AddUnlock, Goto, SemPost, LockInv, LockTypes, ReadersCounted,
           FreeMeansNotHeld, Writing, Labels
  <2>3. FreeMeansNotHeld' /\ ReadersTakeTurns' /\ WritersAreAlone'
    BY <1>20, <1>0
       DEF AddUnlock, Goto, SemPost, LockInv, LockTypes, ReadersCounted,
           FreeMeansNotHeld, ReadersTakeTurns, WritersAreAlone,
           HoldingReadersLock, Counted, Reading, Writing
  <2>4. QED
    BY <2>2, <2>3 DEF LockInv
<1>21. ASSUME NEW t \in Threads, EnterCount(t) PROVE LockInv'
  <2>1. Cardinality(At(pc', Threads, Counted)) =
          Cardinality(At(pc, Threads, Counted)) + 1
    <3>1. GoesTo(t, IF readers_count' = 1
                    THEN "enter_first" ELSE "enter_unlock")
      BY <1>21 DEF EnterCount, Goto, GoesTo
    <3>2. /\ (IF readers_count' = 1 THEN "enter_first" ELSE "enter_unlock")
                \in Counted
          /\ pc[t] \notin Counted
      BY <1>21 DEF EnterCount, Goto, Counted
    <3>3. QED
      BY <3>1, <3>2, CountedMoves
  <2>2. LockTypes' /\ ReadersCounted'
    BY <1>21, <1>0, <2>1
       DEF EnterCount, Goto, LockInv, LockTypes, ReadersCounted,
           FreeMeansNotHeld, ReadersTakeTurns, HoldingReadersLock, Counted,
           Reading, Labels
  <2>3. CASE readers_count' = 1
    <3>1. FreeMeansNotHeld' /\ ReadersTakeTurns' /\ WritersAreAlone'
      BY <1>21, <2>3
       DEF EnterCount, LockInv, LockTypes, FreeMeansNotHeld, ReadersTakeTurns,
           WritersAreAlone, HoldingReadersLock, Counted, Reading, Writing
    <3>2. QED
      BY <2>2, <3>1 DEF LockInv
  <2>4. CASE readers_count' # 1
    <3>1. PICK u \in Threads : pc[u] \in Counted
      <4>1. Cardinality(At(pc, Threads, Counted)) # 0
        BY <1>21, <2>4 DEF EnterCount, LockInv, ReadersCounted
      <4>2. QED
        BY <4>1, CountWitness
    <3>2. pc[u] \in Reading
      BY <1>21, <3>1
         DEF EnterCount, LockInv, ReadersTakeTurns, HoldingReadersLock,
             Counted, Reading
    <3>3. /\ writers_lock = 0
          /\ \A v \in Threads : pc[v] \notin Writing
      BY <3>2
         DEF LockInv, LockTypes, FreeMeansNotHeld, WritersAreAlone, Reading,
             Writing, Counted
    <3>4. FreeMeansNotHeld' /\ ReadersTakeTurns' /\ WritersAreAlone'
      BY <1>21, <2>4, <3>3
       DEF EnterCount, LockInv, LockTypes, FreeMeansNotHeld, ReadersTakeTurns,
           WritersAreAlone, HoldingReadersLock, Counted, Reading, Writing
    <3>5. QED
      BY <2>2, <3>4 DEF LockInv
  <2>5. QED
    BY <2>3, <2>4
<1>22. ASSUME NEW t \in Threads, LeaveCount(t) PROVE LockInv'
  <2>1. Cardinality(At(pc', Threads, Counted)) =
          Cardinality(At(pc, Threads, Counted)) - 1
    <3>1. GoesTo(t, IF readers_count' = 0 THEN "leave_last" ELSE "leave_unlock")
      BY <1>22 DEF LeaveCount, Goto, GoesTo
    <3>2. /\ (IF readers_count' = 0 THEN "leave_last" ELSE "leave_unlock")
                \notin Counted
          /\ pc[t] \in Counted
      BY <1>22 DEF LeaveCount, Goto, Counted
    <3>3. QED
      BY <3>1, <3>2, CountedMoves
  <2>2. LockTypes' /\ ReadersCounted'
    BY <1>22, <1>0, <2>1
       DEF LeaveCount, Goto, LockInv, LockTypes, ReadersCounted,
           FreeMeansNotHeld, ReadersTakeTurns, HoldingReadersLock, Counted,
           Reading, Labels
  <2>3. FreeMeansNotHeld' /\ ReadersTakeTurns' /\ WritersAreAlone'
    BY <1>22, <1>0
       DEF LeaveCount, Goto, LockInv, LockTypes, ReadersCounted,
           FreeMeansNotHeld, ReadersTakeTurns, WritersAreAlone,
           HoldingReadersLock, Counted, Reading, Writing
  <2>4. QED
    BY <2>2, <2>3 DEF LockInv
<1>23. ASSUME NEW t \in Threads, LeaveLast(t) PROVE LockInv'
  <2>1. Cardinality(At(pc', Threads, Counted)) =
          Cardinality(At(pc, Threads, Counted))
    <3>1. GoesTo(t, "leave_unlock")
      BY <1>23 DEF LeaveLast, Goto, GoesTo
    <3>2. "leave_unlock" \in Counted <=> pc[t] \in Counted
      BY <1>23 DEF LeaveLast, Goto, Counted
    <3>3. QED
      BY <3>1, <3>2, CountedMoves
  <2>2. LockTypes' /\ ReadersCounted'
    BY <1>23, <1>0, <2>1
       DEF LeaveLast, Goto, SemPost, LockInv, LockTypes, ReadersCounted,
           FreeMeansNotHeld, ReadersTakeTurns, HoldingReadersLock, Counted,
           Reading, Labels
  <2>3. \A u \in Threads : pc[u] \notin Counted
    <3>1. Cardinality(At(pc, Threads, Counted)) = 0
      BY <1>23 DEF LeaveLast, Goto, LockInv, ReadersCounted
    <3>2. QED
      BY <3>1, CountPositive, ThreadsFinite
  <2>4. FreeMeansNotHeld' /\ ReadersTakeTurns' /\ WritersAreAlone'
    BY <1>23, <2>3
       DEF LeaveLast, Goto, SemPost, LockInv, LockTypes, FreeMeansNotHeld,
           ReadersTakeTurns, WritersAreAlone, HoldingReadersLock, Counted,
           Reading, Writing
  <2>5. QED
    BY <2>2, <2>4 DEF LockInv
<1>24. ASSUME NEW t \in Threads, FetchFails(t) PROVE LockInv'
  <2>1. GoesTo(t, "idle") /\ UNCHANGED lockVars
    BY <1>24 DEF FetchFails, Goto, GoesTo
  <2>2. QED
    BY <1>24, <2>1, SameSide
       DEF FetchFails, Goto, HoldingReadersLock, Counted, Reading, Writing,
           Labels
<1>25. CASE UNCHANGED vars
  BY <1>25
     DEF vars, lockVars, LockInv, LockTypes, ReadersCounted, FreeMeansNotHeld,
         ReadersTakeTurns, WritersAreAlone
<1>26. QED
  BY <1>1, <1>2, <1>3, <1>4, <1>5, <1>6, <1>7, <1>8, <1>9, <1>10,
     <1>11, <1>12, <1>13, <1>14, <1>15, <1>16, <1>17, <1>18, <1>19,
     <1>20, <1>21, <1>22, <1>23, <1>24, <1>25
  DEF Next, Serve, CacheGet, CacheAdd

\* For any number of threads, readers_count is the number of threads counted
\* as readers, and a semaphore that is free has no holder.
THEOREM LockInvariant == Spec => []LockInv
<1>1. Init => LockInv
  BY LockInvInit
<1>2. LockInv /\ [Next]_vars => LockInv'
  BY LockInvNext
<1>3. QED
  BY <1>1, <1>2, PTL DEF Spec

\* However many threads use the cache, a thread that adds an entry is alone:
\* no other adds, and none is in the middle of a lookup.
THEOREM AddIsExclusive == Spec => []WritersAreAlone
<1>1. LockInv => WritersAreAlone
  BY DEF LockInv
<1>2. QED
  BY <1>1, LockInvariant, PTL

\* However many lookups run together, one at a time relinks the LRU list.
THEOREM TouchIsExclusive == Spec => []ReadersTakeTurns
<1>1. LockInv => ReadersTakeTurns
  BY DEF LockInv
<1>2. QED
  BY <1>1, LockInvariant, PTL

-----------------------------------------------------------------------------
(* The links of the two lists.                                               *)

ListType ==
    [head : Pointers, next : [Nodes -> Pointers], prev : [Nodes -> Pointers]]
LruType ==
    [head : Pointers, tail : Pointers,
     next : [Nodes -> Pointers], prev : [Nodes -> Pointers]]

\* The pointers of the nodes of S agree with each other and stay in S.
Linked(head, next, prev, S) ==
    /\ head \in S \cup {Null}
    /\ \A n \in S :
        /\ next[n] \in S \cup {Null} /\ prev[n] \in S \cup {Null}
        /\ next[n] # Null => prev[next[n]] = n
        /\ prev[n] # Null => next[prev[n]] = n
        /\ prev[n] = Null <=> head = n

\* The tail is the node that has none behind it.
Tailed(head, tail, next, S) ==
    /\ tail \in S \cup {Null}
    /\ tail = Null <=> head = Null
    /\ \A n \in S : next[n] = Null <=> tail = n

OnAMatch == {"touch_wait", "touch_remove", "touch_append", "touch_unlock",
             "copy"}

MemoryTypes ==
    /\ free \subseteq Nodes
    /\ list \in ListType
    /\ lru \in LruType
    /\ current \in [Threads -> Pointers]

ListsLinked ==
    /\ Linked(list.head, list.next, list.prev, Allocated)
    /\ Linked(lru.head, lru.next, lru.prev, Allocated \ BeingTouched)
    /\ Tailed(lru.head, lru.tail, lru.next, Allocated \ BeingTouched)

\* Where lookups stand: on a node of the list or behind its end, and on a node
\* once it has matched.
Standing ==
    \A t \in Threads :
        /\ pc[t] = "scan" => current[t] \in Allocated \cup {Null}
        /\ pc[t] \in OnAMatch => current[t] \in Allocated

NodeInv == MemoryTypes /\ ListsLinked /\ Standing
-----------------------------------------------------------------------------
\* What unlinking a node makes of the three fields both lists have.
LEMMA Unlinked ==
    ASSUME NEW S \in SUBSET Nodes, NEW n \in S, NEW head \in Pointers,
           NEW next \in [Nodes -> Pointers], NEW prev \in [Nodes -> Pointers],
           Linked(head, next, prev, S),
           NEW head2, NEW next2, NEW prev2,
           head2 = (IF prev[n] # Null THEN head ELSE next[n]),
           next2 = (IF prev[n] # Null
                    THEN [next EXCEPT ![prev[n]] = next[n]] ELSE next),
           prev2 = (IF next[n] # Null
                    THEN [prev EXCEPT ![next[n]] = prev[n]] ELSE prev)
    PROVE  /\ head2 \in Pointers
           /\ next2 \in [Nodes -> Pointers] /\ prev2 \in [Nodes -> Pointers]
           /\ Linked(head2, next2, prev2, S \ {n})
<1>1. /\ next[n] \in Pointers /\ prev[n] \in Pointers
      /\ next[n] \in S \cup {Null} /\ prev[n] \in S \cup {Null}
  BY DEF Linked, Pointers
<1>2. /\ head2 \in Pointers
      /\ next2 \in [Nodes -> Pointers] /\ prev2 \in [Nodes -> Pointers]
  BY <1>1
<1>3. head2 \in (S \ {n}) \cup {Null}
  BY <1>1, NullAssumption DEF Linked
<1>4. ASSUME NEW m \in S \ {n}
      PROVE  /\ next2[m] = IF prev[n] = m THEN next[n] ELSE next[m]
             /\ prev2[m] = IF next[n] = m THEN prev[n] ELSE prev[m]
  BY <1>1, <1>4, NullAssumption
<1>5. ASSUME NEW m \in S \ {n}
      PROVE  /\ next2[m] \in (S \ {n}) \cup {Null}
             /\ prev2[m] \in (S \ {n}) \cup {Null}
  <2>1. next2[m] \in (S \ {n}) \cup {Null}
    BY <1>1, <1>4, <1>5, NullAssumption DEF Linked
  <2>2. prev2[m] \in (S \ {n}) \cup {Null}
    BY <1>1, <1>4, <1>5, NullAssumption DEF Linked
  <2>3. QED
    BY <2>1, <2>2
<1>6. ASSUME NEW m \in S \ {n}, next2[m] # Null PROVE prev2[next2[m]] = m
  BY <1>1, <1>4, <1>5, <1>6, NullAssumption DEF Linked
<1>7. ASSUME NEW m \in S \ {n}, prev2[m] # Null PROVE next2[prev2[m]] = m
  BY <1>1, <1>4, <1>5, <1>7, NullAssumption DEF Linked
<1>8. ASSUME NEW m \in S \ {n} PROVE prev2[m] = Null <=> head2 = m
  BY <1>1, <1>4, <1>8, NullAssumption DEF Linked
<1>9. QED
  BY <1>2, <1>3, <1>5, <1>6, <1>7, <1>8 DEF Linked

\* remove_item leaves the item list well linked without the node.
LEMMA RemoveItem ==
    ASSUME NEW S \in SUBSET Nodes, NEW n \in S, NEW l \in ListType,
           Linked(l.head, l.next, l.prev, S)
    PROVE  LET r == remove_item(l, n)
           IN  r \in ListType /\ Linked(r.head, r.next, r.prev, S \ {n})
<1> DEFINE r == remove_item(l, n)
<1>1. /\ r = [head |-> r.head, next |-> r.next, prev |-> r.prev]
      /\ r.head = (IF l.prev[n] # Null THEN l.head ELSE l.next[n])
      /\ r.next = (IF l.prev[n] # Null
                   THEN [l.next EXCEPT ![l.prev[n]] = l.next[n]] ELSE l.next)
      /\ r.prev = (IF l.next[n] # Null
                   THEN [l.prev EXCEPT ![l.next[n]] = l.prev[n]] ELSE l.prev)
  BY DEF remove_item, ListType
<1>2. /\ l.head \in Pointers
      /\ l.next \in [Nodes -> Pointers] /\ l.prev \in [Nodes -> Pointers]
  BY DEF ListType
<1> HIDE DEF r
<1>3. /\ r.head \in Pointers
      /\ r.next \in [Nodes -> Pointers] /\ r.prev \in [Nodes -> Pointers]
      /\ Linked(r.head, r.next, r.prev, S \ {n})
  BY <1>1, <1>2, Unlinked
<1>4. r \in ListType
  BY <1>1, <1>3 DEF ListType
<1>5. QED
  BY <1>3, <1>4 DEF r

\* remove_lru does so for the LRU list, and keeps its tail.
LEMMA RemoveLru ==
    ASSUME NEW S \in SUBSET Nodes, NEW n \in S, NEW l \in LruType,
           Linked(l.head, l.next, l.prev, S),
           Tailed(l.head, l.tail, l.next, S)
    PROVE  LET r == remove_lru(l, n)
           IN  /\ r \in LruType
               /\ Linked(r.head, r.next, r.prev, S \ {n})
               /\ Tailed(r.head, r.tail, r.next, S \ {n})
<1> DEFINE r == remove_lru(l, n)
<1>1. /\ r = [head |-> r.head, tail |-> r.tail, next |-> r.next,
              prev |-> r.prev]
      /\ r.tail = (IF l.next[n] # Null THEN l.tail ELSE l.prev[n])
      /\ r.next = (IF l.prev[n] # Null
                   THEN [l.next EXCEPT ![l.prev[n]] = l.next[n]] ELSE l.next)
  BY DEF remove_lru, LruType
<1>2. /\ l.head \in Pointers /\ l.tail \in Pointers
      /\ l.next \in [Nodes -> Pointers] /\ l.prev \in [Nodes -> Pointers]
  BY DEF LruType
<1>3. /\ r.head \in Pointers
      /\ r.next \in [Nodes -> Pointers] /\ r.prev \in [Nodes -> Pointers]
      /\ Linked(r.head, r.next, r.prev, S \ {n})
      /\ r.head = (IF l.prev[n] # Null THEN l.head ELSE l.next[n])
  <2> DEFINE k == [head |-> l.head, next |-> l.next, prev |-> l.prev]
             q == remove_item(k, n)
  <2>1. q.head = r.head /\ q.next = r.next /\ q.prev = r.prev
    BY DEF remove_lru, remove_item, LruType
  <2>2. r.head = (IF l.prev[n] # Null THEN l.head ELSE l.next[n])
    BY DEF remove_lru, LruType
  <2>3. k \in ListType /\ Linked(k.head, k.next, k.prev, S)
    BY <1>2 DEF ListType
  <2> HIDE DEF k, r
  <2>4. q \in ListType /\ Linked(q.head, q.next, q.prev, S \ {n})
    BY <2>3, RemoveItem
  <2>5. /\ q.head \in Pointers
        /\ q.next \in [Nodes -> Pointers] /\ q.prev \in [Nodes -> Pointers]
    BY <2>4 DEF ListType
  <2> HIDE DEF q
  <2>6. QED
    BY <2>1, <2>2, <2>4, <2>5
<1> HIDE DEF r
<1>4. r.tail \in (S \ {n}) \cup {Null}
  BY <1>1, NullAssumption DEF Linked, Tailed
<1>5. r.tail = Null <=> r.head = Null
  BY <1>1, <1>3, NullAssumption DEF Linked, Tailed
<1>6. ASSUME NEW m \in S \ {n} PROVE r.next[m] = Null <=> r.tail = m
  <2>1. r.next[m] = IF l.prev[n] = m THEN l.next[n] ELSE l.next[m]
    BY <1>1, <1>2, <1>6, NullAssumption DEF Linked
  <2>2. QED
    BY <1>1, <1>6, <2>1, NullAssumption DEF Linked, Tailed
<1>7. r \in LruType
  BY <1>1, <1>3, <1>4 DEF LruType, Pointers
<1>8. QED
  BY <1>3, <1>4, <1>5, <1>6, <1>7 DEF r, Tailed

\* append_lru links a node behind the last one.
LEMMA AppendLru ==
    ASSUME NEW S \in SUBSET Nodes, NEW n \in Nodes \ S, NEW l \in LruType,
           Linked(l.head, l.next, l.prev, S),
           Tailed(l.head, l.tail, l.next, S)
    PROVE  LET r == append_lru(l, n)
           IN  /\ r \in LruType
               /\ Linked(r.head, r.next, r.prev, S \cup {n})
               /\ Tailed(r.head, r.tail, r.next, S \cup {n})
<1> DEFINE r == append_lru(l, n)
<1>1. /\ l.head \in Pointers /\ l.tail \in Pointers
      /\ l.next \in [Nodes -> Pointers] /\ l.prev \in [Nodes -> Pointers]
  BY DEF LruType
<1>2. /\ l.tail \in S \cup {Null} /\ l.head \in S \cup {Null}
      /\ l.tail = Null <=> l.head = Null
      /\ l.tail # Null => l.next[l.tail] = Null
      /\ n # Null
  BY NullAssumption DEF Linked, Tailed
<1>3. /\ r = [head |-> r.head, tail |-> r.tail, next |-> r.next,
              prev |-> r.prev]
      /\ r.head = (IF l.tail # Null THEN l.head ELSE n)
      /\ r.tail = n
      /\ r.prev = [l.prev EXCEPT ![n] = l.tail]
      /\ r.next = (IF l.tail # Null
                   THEN [[l.next EXCEPT ![n] = Null] EXCEPT ![l.tail] = n]
                   ELSE [l.next EXCEPT ![n] = Null])
  BY <1>1 DEF append_lru, LruType
<1> HIDE DEF r
<1>4. /\ r.head \in Pointers /\ r.tail \in Pointers
      /\ r.next \in [Nodes -> Pointers] /\ r.prev \in [Nodes -> Pointers]
  BY <1>1, <1>2, <1>3 DEF Pointers
<1>5. /\ r.next[n] = Null
      /\ r.prev[n] = l.tail
  BY <1>1, <1>2, <1>3
<1>6. ASSUME NEW m \in S
      PROVE  /\ r.next[m] = IF l.tail = m THEN n ELSE l.next[m]
             /\ r.prev[m] = l.prev[m]
  BY <1>1, <1>2, <1>3, <1>6, NullAssumption
<1>7. ASSUME NEW m \in S \cup {n}
      PROVE  /\ r.next[m] \in S \cup {n, Null}
             /\ r.prev[m] \in S \cup {n, Null}
  BY <1>2, <1>5, <1>6, <1>7 DEF Linked
<1>8. ASSUME NEW m \in S \cup {n}, r.next[m] # Null
      PROVE  r.prev[r.next[m]] = m
  BY <1>2, <1>5, <1>6, <1>8 DEF Linked
<1>9. ASSUME NEW m \in S \cup {n}, r.prev[m] # Null
      PROVE  r.next[r.prev[m]] = m
  BY <1>2, <1>5, <1>6, <1>9, NullAssumption DEF Linked, Tailed
<1>10. ASSUME NEW m \in S \cup {n} PROVE r.prev[m] = Null <=> r.head = m
  BY <1>2, <1>3, <1>5, <1>6, <1>10 DEF Linked
<1>11. r.head \in S \cup {n, Null}
  BY <1>2, <1>3
<1>12. Linked(r.head, r.next, r.prev, S \cup {n})
  BY <1>7, <1>8, <1>9, <1>10, <1>11 DEF Linked
<1>13. ASSUME NEW m \in S \cup {n} PROVE r.next[m] = Null <=> r.tail = m
  BY <1>2, <1>3, <1>5, <1>6, <1>13 DEF Tailed
<1>14. Tailed(r.head, r.tail, r.next, S \cup {n})
  BY <1>2, <1>3, <1>13 DEF Tailed
<1>15. r \in LruType
  BY <1>3, <1>4 DEF LruType
<1>16. QED
  BY <1>12, <1>14, <1>15 DEF r

\* prepend_item links a node in front of the first one.
LEMMA PrependItem ==
    ASSUME NEW S \in SUBSET Nodes, NEW n \in Nodes \ S, NEW l \in ListType,
           Linked(l.head, l.next, l.prev, S)
    PROVE  LET r == prepend_item(l, n)
           IN  r \in ListType /\ Linked(r.head, r.next, r.prev, S \cup {n})
<1> DEFINE r == prepend_item(l, n)
<1>1. /\ l.head \in Pointers
      /\ l.next \in [Nodes -> Pointers] /\ l.prev \in [Nodes -> Pointers]
  BY DEF ListType
<1>2. l.head \in S \cup {Null} /\ n # Null /\ l.head # n
  BY NullAssumption DEF Linked
<1>3. /\ r = [head |-> r.head, next |-> r.next, prev |-> r.prev]
      /\ r.head = n
      /\ r.next = [l.next EXCEPT ![n] = l.head]
      /\ r.prev = (IF l.head # Null
                   THEN [[l.prev EXCEPT ![n] = Null] EXCEPT ![l.head] = n]
                   ELSE [l.prev EXCEPT ![n] = Null])
  BY <1>1 DEF prepend_item, ListType
<1> HIDE DEF r
<1>4. /\ r.head \in Pointers
      /\ r.next \in [Nodes -> Pointers] /\ r.prev \in [Nodes -> Pointers]
  BY <1>1, <1>2, <1>3 DEF Pointers
<1>5. r.next[n] = l.head /\ r.prev[n] = Null
  BY <1>1, <1>2, <1>3
<1>6. ASSUME NEW m \in S
      PROVE  /\ r.next[m] = l.next[m]
             /\ r.prev[m] = IF l.head = m THEN n ELSE l.prev[m]
  BY <1>1, <1>2, <1>3, <1>6, NullAssumption
<1>7. ASSUME NEW m \in S \cup {n}
      PROVE  /\ r.next[m] \in S \cup {n, Null}
             /\ r.prev[m] \in S \cup {n, Null}
  BY <1>2, <1>5, <1>6, <1>7 DEF Linked
<1>8. ASSUME NEW m \in S \cup {n}, r.next[m] # Null
      PROVE  r.prev[r.next[m]] = m
  BY <1>2, <1>5, <1>6, <1>8, NullAssumption DEF Linked
<1>9. ASSUME NEW m \in S \cup {n}, r.prev[m] # Null
      PROVE  r.next[r.prev[m]] = m
  BY <1>2, <1>5, <1>6, <1>9, NullAssumption DEF Linked
<1>10. ASSUME NEW m \in S \cup {n} PROVE r.prev[m] = Null <=> r.head = m
  BY <1>2, <1>3, <1>5, <1>6, <1>10 DEF Linked
<1>11. Linked(r.head, r.next, r.prev, S \cup {n})
  BY <1>3, <1>7, <1>8, <1>9, <1>10 DEF Linked
<1>12. r \in ListType
  BY <1>3, <1>4 DEF ListType
<1>13. QED
  BY <1>11, <1>12 DEF r
-----------------------------------------------------------------------------
\* Initially nothing is stored and both lists are empty.
LEMMA NodeInvInit == Init => NodeInv
<1> SUFFICES ASSUME Init PROVE NodeInv
  OBVIOUS
<1>1. MemoryTypes
  BY DEF Init, MemoryTypes, ListType, LruType, Pointers
<1>2. Allocated = {}
  BY DEF Init, Allocated
<1>3. ListsLinked
  BY <1>2 DEF Init, ListsLinked, Linked, Tailed
<1>4. Standing
  BY DEF Init, Standing, OnAMatch
<1>5. QED
  BY <1>1, <1>3, <1>4 DEF NodeInv

\* A step that leaves the lists and the standing of every thread alone, and
\* takes no thread to a node it does not stand on, keeps the invariant.
LEMMA DataKept ==
    ASSUME LockInv, NodeInv, NEW t \in Threads, NEW to \in Labels,
           GoesTo(t, to), UNCHANGED <<dataVars, current>>,
           to # "touch_append", pc[t] # "touch_append",
           to = "scan" => current[t] \in Allocated \cup {Null},
           to \in OnAMatch => current[t] \in Allocated
    PROVE  NodeInv'
<1>1. \A u \in Threads : pc'[u] = IF u = t THEN to ELSE pc[u]
  BY DEF GoesTo, LockInv, LockTypes
<1>2. BeingTouched' = BeingTouched
  BY <1>1 DEF BeingTouched, dataVars
<1>3. Allocated' = Allocated
  BY DEF Allocated, dataVars
<1>4. MemoryTypes' /\ ListsLinked'
  BY <1>2, <1>3 DEF NodeInv, MemoryTypes, ListsLinked, dataVars
<1>5. Standing'
  BY <1>1, <1>3 DEF NodeInv, Standing
<1>6. QED
  BY <1>4, <1>5 DEF NodeInv

\* A thread that holds readers_lock and one that adds an entry know that no
\* lookup is between its unlinking and its appending.
LEMMA NoneTouched ==
    ASSUME LockInv, NEW t \in Threads,
           pc[t] \in (HoldingReadersLock \ {"touch_append"}) \cup Writing
    PROVE  BeingTouched = {}
<1>1. ASSUME NEW u \in Threads, pc[u] = "touch_append" PROVE FALSE
  BY <1>1
     DEF LockInv, ReadersTakeTurns, WritersAreAlone, HoldingReadersLock,
         Writing, Reading, Counted
<1>2. QED
  BY <1>1 DEF BeingTouched

\* No lookup stands on a node while a thread adds an entry.
LEMMA NoneStanding ==
    ASSUME LockInv, NEW t \in Threads, pc[t] \in Writing, NEW u \in Threads
    PROVE  pc[u] \notin OnAMatch \cup {"scan"}
BY DEF LockInv, WritersAreAlone, Writing, Reading, Counted, OnAMatch

\* A hit unlinks the node it stands on from the LRU list.
LEMMA TouchRemoveKeeps ==
    ASSUME LockInv, NodeInv, NEW t \in Threads, TouchRemove(t) PROVE NodeInv'
<1>1. /\ \A u \in Threads : pc'[u] = IF u = t THEN "touch_append" ELSE pc[u]
      /\ pc[t] = "touch_remove"
  BY DEF TouchRemove, Goto, LockInv, LockTypes
<1>2. current' = current /\ list' = list /\ free' = free
  BY DEF TouchRemove, callVars
<1>3. current[t] \in Allocated
  BY <1>1 DEF NodeInv, Standing, OnAMatch
<1>4. BeingTouched = {}
  BY <1>1, NoneTouched DEF HoldingReadersLock
<1>5. BeingTouched' = {current[t]}
  BY <1>1, <1>2, <1>4 DEF BeingTouched
<1>6. Allocated' = Allocated /\ Allocated \subseteq Nodes
  BY <1>2 DEF Allocated
<1>7. /\ lru' \in LruType
      /\ Linked(lru'.head, lru'.next, lru'.prev, Allocated \ {current[t]})
      /\ Tailed(lru'.head, lru'.tail, lru'.next, Allocated \ {current[t]})
  <2>1. /\ lru \in LruType
        /\ Linked(lru.head, lru.next, lru.prev, Allocated)
        /\ Tailed(lru.head, lru.tail, lru.next, Allocated)
    BY <1>4 DEF NodeInv, MemoryTypes, ListsLinked
  <2>2. lru' = remove_lru(lru, current[t])
    BY DEF TouchRemove
  <2>3. QED
    BY <1>3, <1>6, <2>1, <2>2, RemoveLru
<1>8. MemoryTypes'
  BY <1>2, <1>7 DEF NodeInv, MemoryTypes
<1>9. ListsLinked'
  BY <1>2, <1>5, <1>6, <1>7 DEF NodeInv, ListsLinked
<1>10. Standing'
  BY <1>1, <1>2, <1>3, <1>6 DEF NodeInv, Standing, OnAMatch
<1>11. QED
  BY <1>8, <1>9, <1>10 DEF NodeInv

\* And appends it again behind all the others.
LEMMA TouchAppendKeeps ==
    ASSUME LockInv, NodeInv, NEW t \in Threads, TouchAppend(t) PROVE NodeInv'
<1>1. /\ \A u \in Threads : pc'[u] = IF u = t THEN "touch_unlock" ELSE pc[u]
      /\ pc[t] = "touch_append"
  BY DEF TouchAppend, Goto, LockInv, LockTypes
<1>2. current' = current /\ list' = list /\ free' = free
  BY DEF TouchAppend, callVars
<1>3. current[t] \in Allocated
  BY <1>1 DEF NodeInv, Standing, OnAMatch
<1>4. \A u \in Threads : pc[u] = "touch_append" => u = t
  BY <1>1 DEF LockInv, ReadersTakeTurns, HoldingReadersLock
<1>5. BeingTouched = {current[t]} /\ BeingTouched' = {}
  BY <1>1, <1>2, <1>4 DEF BeingTouched
<1>6. Allocated' = Allocated /\ Allocated \subseteq Nodes
  BY <1>2 DEF Allocated
<1>7. /\ lru' \in LruType
      /\ Linked(lru'.head, lru'.next, lru'.prev, Allocated)
      /\ Tailed(lru'.head, lru'.tail, lru'.next, Allocated)
  <2> DEFINE S == Allocated \ {current[t]}
  <2>1. /\ lru \in LruType
        /\ Linked(lru.head, lru.next, lru.prev, S)
        /\ Tailed(lru.head, lru.tail, lru.next, S)
    BY <1>5 DEF NodeInv, MemoryTypes, ListsLinked
  <2>2. lru' = append_lru(lru, current[t])
    BY DEF TouchAppend
  <2>3. /\ S \in SUBSET Nodes /\ current[t] \in Nodes \ S
        /\ S \cup {current[t]} = Allocated
    BY <1>3, <1>6
  <2> HIDE DEF S
  <2>4. QED
    BY <2>1, <2>2, <2>3, AppendLru
<1>8. MemoryTypes'
  BY <1>2, <1>7 DEF NodeInv, MemoryTypes
<1>9. ListsLinked'
  BY <1>2, <1>5, <1>6, <1>7 DEF NodeInv, ListsLinked
<1>10. Standing'
  BY <1>1, <1>2, <1>3, <1>6 DEF NodeInv, Standing, OnAMatch
<1>11. QED
  BY <1>8, <1>9, <1>10 DEF NodeInv

\* An eviction unlinks the first node of the LRU list from both lists.
LEMMA EvictKeeps ==
    ASSUME LockInv, NodeInv, NEW t \in Threads, Evict(t) PROVE NodeInv'
<1> DEFINE victim == lru.head
<1>1. /\ pc' = pc /\ current' = current /\ pc[t] \in Writing
      /\ list' = remove_item(list, victim)
      /\ lru' = remove_lru(lru, victim)
      /\ free' = free \cup {victim}
      /\ victim # Null
  BY DEF Evict, callVars, Writing
<1>2. BeingTouched = {}
  BY <1>1, NoneTouched
<1>3. BeingTouched' = {}
  BY <1>1, <1>2 DEF BeingTouched
<1>4. /\ list \in ListType /\ lru \in LruType
      /\ Linked(list.head, list.next, list.prev, Allocated)
      /\ Linked(lru.head, lru.next, lru.prev, Allocated)
      /\ Tailed(lru.head, lru.tail, lru.next, Allocated)
  BY <1>2 DEF NodeInv, MemoryTypes, ListsLinked
<1>5. victim \in Allocated /\ Allocated \in SUBSET Nodes
  BY <1>1, <1>4 DEF Linked, Allocated
<1>6. Allocated' = Allocated \ {victim} /\ free' \subseteq Nodes
  BY <1>1, <1>5 DEF Allocated, NodeInv, MemoryTypes
<1> HIDE DEF victim
<1>7. /\ list' \in ListType
      /\ Linked(list'.head, list'.next, list'.prev, Allocated \ {victim})
  BY <1>1, <1>4, <1>5, RemoveItem
<1>8. /\ lru' \in LruType
      /\ Linked(lru'.head, lru'.next, lru'.prev, Allocated \ {victim})
      /\ Tailed(lru'.head, lru'.tail, lru'.next, Allocated \ {victim})
  BY <1>1, <1>4, <1>5, RemoveLru
<1>9. MemoryTypes'
  BY <1>1, <1>6, <1>7, <1>8 DEF NodeInv, MemoryTypes
<1>10. ListsLinked'
  BY <1>3, <1>6, <1>7, <1>8 DEF ListsLinked
<1>11. Standing'
  BY <1>1, NoneStanding DEF Standing
<1>12. QED
  BY <1>9, <1>10, <1>11 DEF NodeInv

\* An addition links a node that no list had.
LEMMA InsertKeeps ==
    ASSUME LockInv, NodeInv, NEW t \in Threads, Insert(t) PROVE NodeInv'
<1>1. PICK n \in free : /\ free' = free \ {n}
                        /\ list' = prepend_item(list, n)
                        /\ lru' = append_lru(lru, n)
  BY DEF Insert
<1>2. /\ \A u \in Threads : pc'[u] = IF u = t THEN "add_unlock" ELSE pc[u]
      /\ pc[t] \in Writing
      /\ current' = current
  BY DEF Insert, Goto, LockInv, LockTypes, Writing, callVars
<1>3. BeingTouched = {}
  BY <1>2, NoneTouched
<1>4. BeingTouched' = {}
  BY <1>2, <1>3 DEF BeingTouched
<1>5. /\ list \in ListType /\ lru \in LruType
      /\ Linked(list.head, list.next, list.prev, Allocated)
      /\ Linked(lru.head, lru.next, lru.prev, Allocated)
      /\ Tailed(lru.head, lru.tail, lru.next, Allocated)
  BY <1>3 DEF NodeInv, MemoryTypes, ListsLinked
<1>6. n \in Nodes \ Allocated /\ Allocated \in SUBSET Nodes
  BY <1>1 DEF Allocated, NodeInv, MemoryTypes
<1>7. Allocated' = Allocated \cup {n} /\ free' \subseteq Nodes
  BY <1>1, <1>6 DEF Allocated, NodeInv, MemoryTypes
<1>8. /\ list' \in ListType
      /\ Linked(list'.head, list'.next, list'.prev, Allocated \cup {n})
  BY <1>1, <1>5, <1>6, PrependItem
<1>9. /\ lru' \in LruType
      /\ Linked(lru'.head, lru'.next, lru'.prev, Allocated \cup {n})
      /\ Tailed(lru'.head, lru'.tail, lru'.next, Allocated \cup {n})
  BY <1>1, <1>5, <1>6, AppendLru
<1>10. MemoryTypes'
  BY <1>2, <1>7, <1>8, <1>9 DEF NodeInv, MemoryTypes
<1>11. ListsLinked'
  BY <1>4, <1>7, <1>8, <1>9 DEF ListsLinked
<1>12. Standing'
  BY <1>2, <1>7 DEF NodeInv, Standing, OnAMatch
<1>13. QED
  BY <1>10, <1>11, <1>12 DEF NodeInv

\* A lookup starts at the head of the item list.
LEMMA ScanHeadKeeps ==
    ASSUME LockInv, NodeInv, NEW t \in Threads, ScanHead(t) PROVE NodeInv'
<1>1. /\ \A u \in Threads : pc'[u] = IF u = t THEN "scan" ELSE pc[u]
      /\ pc[t] = "scan_head"
      /\ UNCHANGED dataVars
  BY DEF ScanHead, Goto, LockInv, LockTypes
<1>2. list.head \in Allocated \cup {Null}
  BY DEF NodeInv, ListsLinked, Linked
<1>3. /\ current' \in [Threads -> Pointers]
      /\ \A u \in Threads : current'[u] = IF u = t THEN list.head
                                                   ELSE current[u]
  BY <1>2 DEF ScanHead, NodeInv, MemoryTypes, ListType
<1>4. BeingTouched' = BeingTouched
  BY <1>1, <1>3 DEF BeingTouched
<1>5. Allocated' = Allocated
  BY <1>1 DEF Allocated, dataVars
<1>6. MemoryTypes' /\ ListsLinked'
  BY <1>1, <1>3, <1>4, <1>5 DEF NodeInv, MemoryTypes, ListsLinked, dataVars
<1>7. Standing'
  BY <1>1, <1>2, <1>3, <1>5 DEF NodeInv, Standing, OnAMatch
<1>8. QED
  BY <1>6, <1>7 DEF NodeInv

\* And goes from one node of the list to the next.
LEMMA ScanNextKeeps ==
    ASSUME LockInv, NodeInv, NEW t \in Threads, ScanNext(t) PROVE NodeInv'
<1>1. /\ pc' = pc /\ pc[t] = "scan"
      /\ current[t] # Null
      /\ UNCHANGED dataVars
  BY DEF ScanNext
<1>2. current[t] \in Allocated
  BY <1>1 DEF NodeInv, Standing
<1>3. list.next[current[t]] \in Allocated \cup {Null}
  BY <1>2 DEF NodeInv, ListsLinked, Linked
<1>4. /\ current' \in [Threads -> Pointers]
      /\ \A u \in Threads : current'[u] = IF u = t THEN list.next[current[t]]
                                                   ELSE current[u]
  <2>1. list.next[current[t]] \in Pointers
    BY <1>3 DEF Allocated, Pointers
  <2>2. QED
    BY <2>1 DEF ScanNext, NodeInv, MemoryTypes
<1>5. BeingTouched' = BeingTouched
  BY <1>1, <1>4 DEF BeingTouched
<1>6. Allocated' = Allocated
  BY <1>1 DEF Allocated, dataVars
<1>7. MemoryTypes' /\ ListsLinked'
  BY <1>1, <1>4, <1>5, <1>6 DEF NodeInv, MemoryTypes, ListsLinked, dataVars
<1>8. Standing'
  BY <1>1, <1>3, <1>4, <1>6 DEF NodeInv, Standing, OnAMatch
<1>9. QED
  BY <1>7, <1>8 DEF NodeInv

\* Every other step leaves the lists alone.
LEMMA NodeInvNext == LockInv /\ NodeInv /\ [Next]_vars => NodeInv'
<1> SUFFICES ASSUME LockInv, NodeInv, [Next]_vars PROVE NodeInv'
  OBVIOUS
<1> USE DEF Goto, GoesTo, Labels, OnAMatch
<1>1. ASSUME NEW t \in Threads, Request(t) PROVE NodeInv'
  BY <1>1, DataKept DEF Request, callVars
<1>2. ASSUME NEW t \in Threads, FetchFails(t) PROVE NodeInv'
  BY <1>2, DataKept DEF FetchFails, callVars
<1>3. ASSUME NEW t \in Threads, EnterWait(t) PROVE NodeInv'
  BY <1>3, DataKept DEF EnterWait, callVars
<1>4. ASSUME NEW t \in Threads, EnterFirst(t) PROVE NodeInv'
  BY <1>4, DataKept DEF EnterFirst, callVars
<1>5. ASSUME NEW t \in Threads, EnterUnlock(t) PROVE NodeInv'
  BY <1>5, DataKept DEF EnterUnlock, callVars
<1>6. ASSUME NEW t \in Threads, ScanEnd(t) PROVE NodeInv'
  BY <1>6, DataKept DEF ScanEnd, callVars
<1>7. ASSUME NEW t \in Threads, ScanHit(t) PROVE NodeInv'
  <2>1. current[t] \in Allocated
    BY <1>7 DEF ScanHit, NodeInv, Standing
  <2>2. QED
    BY <1>7, <2>1, DataKept DEF ScanHit, callVars
<1>8. ASSUME NEW t \in Threads, TouchWait(t) PROVE NodeInv'
  <2>1. current[t] \in Allocated
    BY <1>8 DEF TouchWait, NodeInv, Standing
  <2>2. QED
    BY <1>8, <2>1, DataKept DEF TouchWait, callVars
<1>9. ASSUME NEW t \in Threads, TouchUnlock(t) PROVE NodeInv'
  <2>1. current[t] \in Allocated
    BY <1>9 DEF TouchUnlock, NodeInv, Standing
  <2>2. QED
    BY <1>9, <2>1, DataKept DEF TouchUnlock, callVars
<1>10. ASSUME NEW t \in Threads, Copy(t) PROVE NodeInv'
  BY <1>10, DataKept DEF Copy, callVars
<1>11. ASSUME NEW t \in Threads, LeaveWait(t) PROVE NodeInv'
  BY <1>11, DataKept DEF LeaveWait, callVars
<1>12. ASSUME NEW t \in Threads, LeaveLast(t) PROVE NodeInv'
  BY <1>12, DataKept DEF LeaveLast, callVars
<1>13. ASSUME NEW t \in Threads, AddWait(t) PROVE NodeInv'
  BY <1>13, DataKept DEF AddWait, callVars
<1>14. ASSUME NEW t \in Threads, AddUnlock(t) PROVE NodeInv'
  BY <1>14, DataKept DEF AddUnlock, callVars
<1>15. ASSUME NEW t \in Threads, Fetch(t) PROVE NodeInv'
  <2>1. PICK to \in {"idle", "add_wait"} : GoesTo(t, to)
    BY <1>15 DEF Fetch
  <2>2. QED
    BY <1>15, <2>1, DataKept DEF Fetch
<1>16. ASSUME NEW t \in Threads, EnterCount(t) PROVE NodeInv'
  <2> DEFINE to == IF readers_count' = 1 THEN "enter_first" ELSE "enter_unlock"
  <2>1. GoesTo(t, to)
    BY <1>16 DEF EnterCount
  <2>2. QED
    BY <1>16, <2>1, DataKept DEF EnterCount, callVars
<1>17. ASSUME NEW t \in Threads, LeaveCount(t) PROVE NodeInv'
  <2> DEFINE to == IF readers_count' = 0 THEN "leave_last" ELSE "leave_unlock"
  <2>1. GoesTo(t, to)
    BY <1>17 DEF LeaveCount
  <2>2. QED
    BY <1>17, <2>1, DataKept DEF LeaveCount, callVars
<1>18. ASSUME NEW t \in Threads, LeaveUnlock(t) PROVE NodeInv'
  <2> DEFINE to == IF answer[t] # NoEntry THEN "idle" ELSE "fetch"
  <2>1. GoesTo(t, to)
    BY <1>18 DEF LeaveUnlock
  <2>2. QED
    BY <1>18, <2>1, DataKept DEF LeaveUnlock, callVars
<1>19. CASE UNCHANGED vars
  BY <1>19
     DEF vars, dataVars, callVars, NodeInv, MemoryTypes, ListsLinked, Standing,
         BeingTouched, Allocated
<1>20. QED
  BY <1>1, <1>2, <1>3, <1>4, <1>5, <1>6, <1>7, <1>8, <1>9, <1>10, <1>11,
     <1>12, <1>13, <1>14, <1>15, <1>16, <1>17, <1>18, <1>19, TouchRemoveKeeps,
     TouchAppendKeeps, EvictKeeps, InsertKeeps, ScanHeadKeeps, ScanNextKeeps
  DEF Next, Serve, CacheGet, CacheAdd

\* For any number of threads and entries, the pointers of both lists agree
\* with each other and reach no node that is not allocated.
THEOREM ListsStayLinked == Spec => []NodeInv
<1>1. Init => LockInv /\ NodeInv
  BY LockInvInit, NodeInvInit
<1>2. (LockInv /\ NodeInv) /\ [Next]_vars => (LockInv /\ NodeInv)'
  BY LockInvNext, NodeInvNext
<1>3. QED
  BY <1>1, <1>2, PTL DEF Spec

\* For any number of threads and entries, the node a lookup stands on, matches,
\* relinks or copies is not one an eviction has freed.
THEOREM NoLookupOnFreedNode == Spec => []NoUseAfterFree
<1>1. NodeInv => NoUseAfterFree
  <2> SUFFICES ASSUME NodeInv PROVE NoUseAfterFree
    OBVIOUS
  <2>1. \A t \in Threads : pc[t] = "scan" => current[t] \notin free
    BY NullAssumption DEF NodeInv, Standing, Allocated, MemoryTypes
  <2>2. \A t \in Threads : pc[t] \in OnAMatch => current[t] \notin free
    BY DEF NodeInv, Standing, Allocated
  <2>3. QED
    BY <2>1, <2>2 DEF NoUseAfterFree, OnAMatch
<1>2. QED
  BY <1>1, ListsStayLinked, PTL
-----------------------------------------------------------------------------
(* The orders of the two lists.  Walk is recursive and the provers know      *)
(* nothing of it, but where the pointers lead from node to node of a         *)
(* sequence without repetition, they can be told that it is this sequence.   *)

\* The pointers of a list lead through the nodes of a sequence, and back.
Chain(head, next, prev, order) ==
    /\ order \in Seq(Nodes)
    /\ \A i, j \in DOMAIN order : order[i] = order[j] => i = j
    /\ head = IF order = <<>> THEN Null ELSE order[1]
    /\ \A i \in DOMAIN order :
        next[order[i]] = IF i = Len(order) THEN Null ELSE order[i + 1]
    /\ BackLinked(order, prev)

\* A sequence without repetition is not longer than there are nodes.
LEMMA OrderFits ==
    ASSUME NEW order \in Seq(Nodes),
           \A i, j \in DOMAIN order : order[i] = order[j] => i = j
    PROVE  /\ Cardinality(Nodes) \in Nat /\ Len(order) <= Cardinality(Nodes)
           /\ Cardinality(Members(order)) = Len(order)
<1>1. order \in Injection(1 .. Len(order), Nodes)
  BY DEF Injection, IsInjective
<1>2. /\ IsFiniteSet(1 .. Len(order))
      /\ Cardinality(1 .. Len(order)) = Len(order)
  <2>1. Len(order) \in Nat
    OBVIOUS
  <2>2. QED
    BY <2>1, FS_Interval
<1>3. Len(order) <= Cardinality(Nodes)
  BY <1>1, <1>2, NodesFinite, FS_Injection
<1>4. order \in Bijection(1 .. Len(order), Members(order))
  BY DEF Members, Bijection, Injection, Surjection, IsInjective
<1>5. Cardinality(Members(order)) = Len(order)
  BY <1>2, <1>4, FS_Bijection DEF ExistsBijection
<1>6. QED
  BY <1>3, <1>5, NodesFinite, FS_CardinalityType

\* The equation that defines Steps.
Follows(at, head, next) ==
    at = [i \in 1 .. Cardinality(Nodes) |->
            IF i = 1 THEN head
            ELSE IF at[i - 1] = Null THEN Null ELSE next[at[i - 1]]]

LEMMA StepsFollow ==
    ASSUME NEW head, NEW next, \E at : Follows(at, head, next)
    PROVE  Follows(Steps(head, next), head, next)
<1>1. Steps(head, next) = CHOOSE at : Follows(at, head, next)
  BY Zenon DEF Steps, Follows
<1>2. QED
  BY <1>1, Zenon

\* What a walk meets is the sequence the pointers lead through.
LEMMA WalkIs ==
    ASSUME NEW head, NEW next, NEW prev, NEW order,
           Chain(head, next, prev, order)
    PROVE  Walk(head, next) = order
<1> DEFINE N == Cardinality(Nodes)
           n == Len(order)
           w == [i \in 1 .. N |-> IF i <= n THEN order[i] ELSE Null]
           at == Steps(head, next)
<1>1. N \in Nat /\ n \in Nat /\ n <= N
  BY OrderFits DEF Chain
<1>2. /\ order \in Seq(Nodes)
      /\ \A i \in 1 .. n : order[i] \in Nodes /\ order[i] # Null
      /\ head = IF n = 0 THEN Null ELSE order[1]
      /\ \A i \in 1 .. n :
            next[order[i]] = IF i = n THEN Null ELSE order[i + 1]
  BY NullAssumption DEF Chain
<1> HIDE DEF N, n
<1>3. \A i \in 1 .. N : w[i] = IF i = 1 THEN head
        ELSE IF w[i - 1] = Null THEN Null ELSE next[w[i - 1]]
  BY <1>1, <1>2
<1>4. Follows(w, head, next)
  BY <1>3 DEF Follows, N
<1>5. Follows(at, head, next)
  BY <1>4, StepsFollow
<1> HIDE DEF w, at
<1>6. at = w
  <2>1. /\ at = [i \in 1 .. N |-> at[i]] /\ w = [i \in 1 .. N |-> w[i]]
        /\ \A i \in 1 .. N : at[i] = IF i = 1 THEN head
            ELSE IF at[i - 1] = Null THEN Null ELSE next[at[i - 1]]
    BY <1>5 DEF Follows, N, w
  <2> DEFINE T == {i \in 1 .. N : at[i] # w[i]}
  <2>2. CASE T = {}
    BY <2>1, <2>2
  <2>3. CASE T # {}
    <3>1. PICK i \in T : \A j \in T : i <= j
      <4>1. T \in SUBSET Nat
        BY <1>1
      <4> HIDE DEF T
      <4>2. QED
        BY <2>3, <4>1, LeastExists
    <3>2. i # 1 => i - 1 \in 1 .. N /\ at[i - 1] = w[i - 1]
      BY <1>1, <3>1
    <3>3. at[i] = w[i]
      BY <1>1, <1>3, <2>1, <3>1, <3>2
    <3>4. QED
      BY <3>1, <3>3
  <2>4. QED
    BY <2>2, <2>3
<1>7. {j \in DOMAIN at : at[j] # Null} = 1 .. n
  BY <1>1, <1>2, <1>6 DEF w
<1>8. Cardinality(1 .. n) = n
  BY <1>1, FS_Interval
<1>9. Walk(head, next) = [i \in 1 .. n |-> w[i]]
  BY <1>6, <1>7, <1>8 DEF Walk, at
<1>10. order = [i \in 1 .. n |-> order[i]]
  BY <1>2 DEF n
<1>11. QED
  BY <1>1, <1>9, <1>10 DEF w

\* A sequence without its k-th element.
Without(order, k) ==
    [i \in 1 .. Len(order) - 1 |-> IF i < k THEN order[i] ELSE order[i + 1]]

\* SetToSeq, where it is used for no or one node.
LEMMA SetToSeqOfNone == SetToSeq({}) = <<>>
<1>1. Cardinality({}) = 0
  BY FS_EmptySet
<1>2. [1 .. 0 -> {}] = {<<>>}
  <2>1. 1 .. 0 = {} /\ <<>> = [i \in {} |-> i]
    OBVIOUS
  <2>2. \A f \in [{} -> {}] : f = [i \in {} |-> i]
    OBVIOUS
  <2>3. [i \in {} |-> i] \in [{} -> {}]
    OBVIOUS
  <2>4. QED
    BY <2>1, <2>2, <2>3
<1>3. IsInjective(<<>>)
  BY DEF IsInjective
<1>4. QED
  BY <1>1, <1>2, <1>3 DEF SetToSeq

LEMMA SetToSeqOfOne == ASSUME NEW n PROVE SetToSeq({n}) = <<n>>
<1>1. Cardinality({n}) = 1
  BY FS_Singleton
<1>2. /\ [1 .. 1 -> {n}] = {<<n>>}
      /\ IsInjective(<<n>>)
  BY DEF IsInjective
<1>3. QED
  BY <1>1, <1>2 DEF SetToSeq
-----------------------------------------------------------------------------
\* The list operations, as operations on the sequence.

\* b is a without its k-th element, and in the same order.
Shortens(b, a, k) ==
    /\ Len(b) = Len(a) - 1 /\ Len(a) \in Nat
    /\ DOMAIN a = 1 .. Len(a) /\ DOMAIN b = 1 .. Len(a) - 1
    /\ \A i \in DOMAIN b : b[i] = IF i < k THEN a[i] ELSE a[i + 1]
    /\ \A i \in DOMAIN a : i < k => i \in DOMAIN b /\ b[i] = a[i]
    /\ \A i \in DOMAIN a : i > k => i - 1 \in DOMAIN b /\ b[i - 1] = a[i]

LEMMA WithoutKeeps ==
    ASSUME NEW S, NEW a \in Seq(S), NEW k \in DOMAIN a
    PROVE  Without(a, k) \in Seq(S) /\ Shortens(Without(a, k), a, k)
<1> DEFINE b == Without(a, k)
<1>1. /\ Len(a) \in Nat /\ DOMAIN a = 1 .. Len(a) /\ k \in 1 .. Len(a)
      /\ \A i \in 1 .. Len(a) : a[i] \in S
  OBVIOUS
<1>2. \A i \in 1 .. Len(a) - 1 : i \in 1 .. Len(a) /\ i + 1 \in 1 .. Len(a)
  BY <1>1
<1>3. b \in [1 .. Len(a) - 1 -> S]
  BY <1>1, <1>2 DEF Without
<1>4. Len(a) - 1 \in Nat
  BY <1>1
<1>5. b \in Seq(S) /\ Len(b) = Len(a) - 1
  BY <1>3, <1>4
<1>6. \A i \in DOMAIN b : b[i] = IF i < k THEN a[i] ELSE a[i + 1]
  BY DEF Without
<1>7. DOMAIN b = 1 .. Len(a) - 1
  BY <1>3
<1>8. \A i \in DOMAIN a : i < k => i \in DOMAIN b /\ b[i] = a[i]
  BY <1>1, <1>6, <1>7
<1>9. \A i \in DOMAIN a : i > k => i - 1 \in DOMAIN b /\ b[i - 1] = a[i]
  BY <1>1, <1>6, <1>7
<1>10. QED
  BY <1>1, <1>5, <1>6, <1>7, <1>8, <1>9 DEF Shortens

LEMMA WithoutMembers ==
    ASSUME NEW S, NEW a \in Seq(S), NEW k \in DOMAIN a,
           \A i, j \in DOMAIN a : a[i] = a[j] => i = j
    PROVE  /\ Members(Without(a, k)) = Members(a) \ {a[k]}
           /\ \A i, j \in DOMAIN Without(a, k) :
                Without(a, k)[i] = Without(a, k)[j] => i = j
<1> DEFINE b == Without(a, k)
<1>1. /\ Len(a) \in Nat /\ DOMAIN a = 1 .. Len(a) /\ DOMAIN b = 1 .. Len(a) - 1
      /\ \A i \in DOMAIN b : b[i] = IF i < k THEN a[i] ELSE a[i + 1]
      /\ \A i \in DOMAIN a : i < k => i \in DOMAIN b /\ b[i] = a[i]
      /\ \A i \in DOMAIN a : i > k => i - 1 \in DOMAIN b /\ b[i - 1] = a[i]
  BY WithoutKeeps DEF Shortens
<1> HIDE DEF b
<1>2. \A i \in DOMAIN b : \E j \in DOMAIN a : j # k /\ b[i] = a[j]
  <2> SUFFICES ASSUME NEW i \in DOMAIN b
               PROVE  \E j \in DOMAIN a : j # k /\ b[i] = a[j]
    OBVIOUS
  <2>1. CASE i < k
    BY <1>1, <2>1
  <2>2. CASE i >= k
    BY <1>1, <2>2
  <2>3. QED
    BY <1>1, <2>1, <2>2
<1>3. \A j \in DOMAIN a : j # k => \E i \in DOMAIN b : b[i] = a[j]
  BY <1>1
<1>4. Members(b) = Members(a) \ {a[k]}
  BY <1>2, <1>3 DEF Members
<1>5. ASSUME NEW i \in DOMAIN b, NEW j \in DOMAIN b, b[i] = b[j] PROVE i = j
  <2>1. i \in Nat /\ j \in Nat /\ i + 1 \in DOMAIN a /\ j + 1 \in DOMAIN a
        /\ i \in DOMAIN a /\ j \in DOMAIN a /\ k \in Nat
    BY <1>1
  <2>2. /\ b[i] = IF i < k THEN a[i] ELSE a[i + 1]
        /\ b[j] = IF j < k THEN a[j] ELSE a[j + 1]
    BY <1>1
  <2>3. (IF i < k THEN i ELSE i + 1) = (IF j < k THEN j ELSE j + 1)
    BY <1>5, <2>1, <2>2
  <2>4. QED
    BY <2>1, <2>3
<1>6. QED
  BY <1>4, <1>5 DEF b

\* What unlinking n makes of the three fields both lists have.
Unlinks(l, n, r) ==
    /\ r.head = IF l.prev[n] # Null THEN l.head ELSE l.next[n]
    /\ r.next = IF l.prev[n] # Null
                THEN [l.next EXCEPT ![l.prev[n]] = l.next[n]] ELSE l.next
    /\ r.prev = IF l.next[n] # Null
                THEN [l.prev EXCEPT ![l.next[n]] = l.prev[n]] ELSE l.prev

\* Unlinking a node takes it out of the sequence.
LEMMA ChainUnlinked ==
    ASSUME NEW l, NEW a, NEW k \in DOMAIN a, NEW n, n = a[k],
           l.head \in Pointers,
           l.next \in [Nodes -> Pointers], l.prev \in [Nodes -> Pointers],
           Chain(l.head, l.next, l.prev, a), NEW r, Unlinks(l, n, r)
    PROVE  Chain(r.head, r.next, r.prev, Without(a, k))
<1> DEFINE b == Without(a, k)
           len == Len(a)
<1>1. /\ a \in Seq(Nodes) /\ len \in Nat
      /\ DOMAIN a = 1 .. len /\ k \in 1 .. len
      /\ \A i \in 1 .. len : a[i] \in Nodes /\ a[i] # Null
      /\ \A i, j \in 1 .. len : a[i] = a[j] => i = j
      /\ l.head = a[1]
      /\ \A i \in 1 .. len : l.next[a[i]] = IF i = len THEN Null ELSE a[i + 1]
      /\ \A i \in 1 .. len : l.prev[a[i]] = IF i = 1 THEN Null ELSE a[i - 1]
  <2>1. a \in Seq(Nodes)
    BY DEF Chain
  <2>2. /\ len \in Nat /\ DOMAIN a = 1 .. len /\ k \in 1 .. len
        /\ a # <<>> /\ \A i \in 1 .. len : a[i] \in Nodes
    BY <2>1
  <2> HIDE DEF len
  <2>3. \A i \in 1 .. len : l.next[a[i]] = IF i = len THEN Null ELSE a[i + 1]
    BY <2>2 DEF Chain, len
  <2>4. \A i \in 1 .. len : l.prev[a[i]] = IF i = 1 THEN Null ELSE a[i - 1]
    BY <2>2 DEF Chain, BackLinked
  <2>5. /\ l.head = a[1]
        /\ \A i, j \in 1 .. len : a[i] = a[j] => i = j
    BY <2>2 DEF Chain
  <2>6. QED
    BY <2>1, <2>2, <2>3, <2>4, <2>5, NullAssumption
<1>2. /\ b \in Seq(Nodes) /\ Len(b) = len - 1 /\ DOMAIN b = 1 .. len - 1
      /\ \A i \in 1 .. len - 1 : b[i] = IF i < k THEN a[i] ELSE a[i + 1]
  <2>1. a \in Seq(Nodes)
    BY <1>1
  <2>2. b \in Seq(Nodes) /\ Shortens(b, a, k)
    BY <2>1, WithoutKeeps
  <2>3. QED
    BY <2>2 DEF Shortens
<1>3. \A i, j \in DOMAIN b : b[i] = b[j] => i = j
  <2>1. \A i, j \in DOMAIN a : a[i] = a[j] => i = j
    BY DEF Chain
  <2>2. a \in Seq(Nodes)
    BY <1>1
  <2>3. QED
    BY <2>1, <2>2, WithoutMembers, Zenon
<1> HIDE DEF b, len
<1>4. /\ l.prev[a[k]] # Null <=> k # 1
      /\ l.next[a[k]] # Null <=> k # len
      /\ k # 1 => l.prev[a[k]] = a[k - 1] /\ k - 1 \in 1 .. len
      /\ k # len => l.next[a[k]] = a[k + 1] /\ k + 1 \in 1 .. len
  BY <1>1
<1>5. r.head = IF b = <<>> THEN Null ELSE b[1]
  <2>1. b = <<>> <=> len = 1
    BY <1>1, <1>2
  <2>2. CASE len = 1
    BY <1>1, <1>4, <2>1, <2>2 DEF Unlinks
  <2>3. CASE len # 1
    <3>1. b[1] = IF k = 1 THEN a[2] ELSE a[1]
      BY <1>1, <1>2, <2>3
    <3>2. r.head = IF k = 1 THEN a[2] ELSE a[1]
      BY <1>1, <1>4, <2>3 DEF Unlinks
    <3>3. QED
      BY <2>1, <2>3, <3>1, <3>2
  <2>4. QED
    BY <2>2, <2>3
<1>6. ASSUME NEW i \in 1 .. len, i # k
      PROVE  /\ r.next[a[i]] = IF i = k - 1 THEN l.next[a[k]] ELSE l.next[a[i]]
             /\ r.prev[a[i]] = IF i = k + 1 THEN l.prev[a[k]] ELSE l.prev[a[i]]
  <2>1. k # 1 => (a[i] = a[k - 1] <=> i = k - 1)
    BY <1>1, <1>4
  <2>2. k # len => (a[i] = a[k + 1] <=> i = k + 1)
    BY <1>1, <1>4
  <2>3. r.next[a[i]] =
            IF k # 1 /\ a[i] = a[k - 1] THEN l.next[a[k]] ELSE l.next[a[i]]
    BY <1>1, <1>4 DEF Unlinks
  <2>4. r.prev[a[i]] =
            IF k # len /\ a[i] = a[k + 1] THEN l.prev[a[k]] ELSE l.prev[a[i]]
    BY <1>1, <1>4 DEF Unlinks
  <2>5. QED
    BY <1>1, <2>1, <2>2, <2>3, <2>4
<1>7. ASSUME NEW i \in 1 .. len - 1
      PROVE  /\ r.next[b[i]] = IF i = len - 1 THEN Null ELSE b[i + 1]
             /\ r.prev[b[i]] = IF i = 1 THEN Null ELSE b[i - 1]
  <2>0. /\ i \in Nat /\ len \in Nat /\ k \in Nat
        /\ 1 <= k /\ k <= len /\ 1 <= i /\ i <= len - 1
    BY <1>1
  <2>1. /\ i \in 1 .. len /\ i + 1 \in 1 .. len
        /\ i \in Nat /\ len \in Nat /\ k \in Nat
        /\ i # len - 1 => i + 1 \in 1 .. len - 1
        /\ i # 1 => i - 1 \in 1 .. len - 1
    BY <2>0
  <2>2. CASE i < k
    <3>1. /\ b[i] = a[i] /\ i # k
          /\ i # len - 1 => b[i + 1] = IF i + 1 < k THEN a[i + 1] ELSE a[i + 2]
          /\ i # 1 => b[i - 1] = a[i - 1]
      <4>1. i # len - 1 => i + 1 + 1 = i + 2
        BY <2>1
      <4>2. (i # 1 => i - 1 < k) /\ i # k
        BY <2>0, <2>2
      <4>3. /\ b[i] = a[i]
            /\ i # len - 1 => b[i + 1] = IF i + 1 < k THEN a[i + 1]
                                                    ELSE a[i + 1 + 1]
            /\ i # 1 => b[i - 1] = a[i - 1]
        BY <1>2, <2>1, <2>2, <4>2
      <4>4. QED
        BY <4>1, <4>2, <4>3
    <3>2. r.next[a[i]] = IF i = k - 1 THEN l.next[a[k]] ELSE l.next[a[i]]
      BY <1>6, <2>1, <3>1
    <3>3. r.prev[a[i]] = l.prev[a[i]]
      BY <1>6, <2>1, <2>2, <3>1
    <3>4. CASE i = k - 1
      <4>1. k = i + 1 /\ (k = len <=> i = len - 1) /\ k + 1 = i + 2
        BY <2>0, <3>4
      <4>2. QED
        BY <1>1, <2>1, <3>1, <3>2, <3>3, <3>4, <4>1
    <3>5. CASE i # k - 1
      <4>1. i + 1 < k /\ i # len - 1 /\ i # len
        BY <2>0, <2>2, <3>5
      <4>2. QED
        BY <1>1, <2>1, <3>1, <3>2, <3>3, <3>5, <4>1
    <3>6. QED
      BY <3>4, <3>5
  <2>3. CASE i >= k
    <3>1. /\ b[i] = a[i + 1] /\ i + 1 # k /\ i + 1 # k - 1
          /\ i # len - 1 => b[i + 1] = a[i + 2]
          /\ i # 1 => b[i - 1] = IF i - 1 < k THEN a[i - 1] ELSE a[i]
      <4>1. i # len - 1 => i + 1 + 1 = i + 2 /\ ~(i + 1 < k)
        BY <2>1, <2>3
      <4>2. i # 1 => i - 1 + 1 = i
        BY <2>1
      <4>3. i + 1 # k /\ i + 1 # k - 1 /\ ~(i < k)
        BY <2>1, <2>3
      <4>4. QED
        BY <1>2, <2>1, <4>1, <4>2, <4>3
    <3>2. r.next[a[i + 1]] = l.next[a[i + 1]]
      BY <1>6, <2>1, <3>1
    <3>3. r.prev[a[i + 1]] =
            IF i + 1 = k + 1 THEN l.prev[a[k]] ELSE l.prev[a[i + 1]]
      BY <1>6, <2>1, <3>1
    <3>4. l.next[a[i + 1]] = IF i = len - 1 THEN Null ELSE a[i + 2]
      <4>1. (i + 1 = len <=> i = len - 1) /\ i + 1 + 1 = i + 2
        BY <2>1
      <4>2. QED
        BY <1>1, <2>1, <4>1
    <3>5. CASE i = k
      <4>1. i + 1 = k + 1 /\ (i # 1 => i - 1 < k)
        BY <2>1, <3>5
      <4>2. QED
        BY <1>1, <2>1, <3>1, <3>2, <3>3, <3>4, <3>5, <4>1
    <3>6. CASE i # k
      <4>1. i + 1 # k + 1 /\ i # 1 /\ ~(i - 1 < k) /\ i + 1 # 1
            /\ i + 1 - 1 = i
        BY <2>0, <2>3, <3>6
      <4>2. l.prev[a[i + 1]] = a[i]
        BY <1>1, <2>1, <4>1
      <4>3. QED
        BY <3>1, <3>2, <3>3, <3>4, <4>1, <4>2
    <3>7. QED
      BY <3>5, <3>6
  <2>4. QED
    BY <1>1, <2>1, <2>2, <2>3
<1>8. BackLinked(b, r.prev)
  BY <1>2, <1>7 DEF BackLinked
<1>9. QED
  BY <1>2, <1>3, <1>5, <1>7, <1>8 DEF Chain, b

LEMMA ChainRemoveItem ==
    ASSUME NEW l \in ListType, NEW a, NEW k \in DOMAIN a,
           Chain(l.head, l.next, l.prev, a), NEW r, r = remove_item(l, a[k])
    PROVE  Chain(r.head, r.next, r.prev, Without(a, k))
<1>1. PICK n : n = a[k]
  OBVIOUS
<1>2. Unlinks(l, n, r)
  BY <1>1 DEF Unlinks, remove_item, ListType
<1>3. /\ l.head \in Pointers
      /\ l.next \in [Nodes -> Pointers] /\ l.prev \in [Nodes -> Pointers]
  BY DEF ListType
<1>4. QED
  BY <1>1, <1>2, <1>3, ChainUnlinked

\* The last node of a sequence.
LastNode(order) == IF order = <<>> THEN Null ELSE order[Len(order)]

LEMMA ChainRemoveLru ==
    ASSUME NEW l \in LruType, NEW a, NEW k \in DOMAIN a,
           Chain(l.head, l.next, l.prev, a), l.tail = LastNode(a),
           NEW r, r = remove_lru(l, a[k])
    PROVE  /\ Chain(r.head, r.next, r.prev, Without(a, k))
           /\ r.tail = LastNode(Without(a, k))
<1>1. /\ l.head \in Pointers
      /\ l.next \in [Nodes -> Pointers] /\ l.prev \in [Nodes -> Pointers]
      /\ r.tail = (IF l.next[a[k]] # Null THEN l.tail ELSE l.prev[a[k]])
  BY DEF remove_lru, LruType
<1>2. PICK n : n = a[k] /\ Unlinks(l, n, r)
  BY DEF Unlinks, remove_lru, LruType
<1>3. Chain(r.head, r.next, r.prev, Without(a, k))
  BY <1>1, <1>2, ChainUnlinked
<1>4. r.tail = LastNode(Without(a, k))
  <2> DEFINE b == Without(a, k)
             len == Len(a)
  <2>1. a \in Seq(Nodes)
    BY DEF Chain
  <2>2. b \in Seq(Nodes) /\ Shortens(b, a, k)
    BY <2>1, WithoutKeeps
  <2>3. len \in Nat /\ k \in 1 .. len /\ a # <<>> /\ DOMAIN a = 1 .. len
    BY <2>1
  <2>4. /\ a[k] \in Nodes
        /\ l.next[a[k]] # Null => l.next[a[k]] = a[k + 1] /\ k # len
        /\ l.next[a[k]] = Null => k = len
        /\ l.prev[a[k]] = IF k = 1 THEN Null ELSE a[k - 1]
        /\ l.tail = a[len]
    <3> HIDE DEF len
    <3>1. /\ l.next[a[k]] = IF k = len THEN Null ELSE a[k + 1]
          /\ l.prev[a[k]] = IF k = 1 THEN Null ELSE a[k - 1]
          /\ l.tail = a[len]
      BY <2>3 DEF Chain, BackLinked, LastNode, len
    <3>2. /\ a[k] \in Nodes /\ k + 1 \in Nat
          /\ k # len => k + 1 \in 1 .. len
      BY <2>1, <2>3
    <3>3. k # len => a[k + 1] \in Nodes
      BY <2>1, <2>3, <3>2
    <3>4. QED
      BY <3>1, <3>2, <3>3, NullAssumption
  <2>5. /\ Len(b) = len - 1 /\ (b = <<>> <=> len = 1)
        /\ \A i \in 1 .. len - 1 : b[i] = IF i < k THEN a[i] ELSE a[i + 1]
    <3> HIDE DEF b
    <3>1. Len(b) = len - 1 /\ DOMAIN b = 1 .. len - 1
      BY <2>2 DEF Shortens
    <3>2. b = <<>> <=> Len(b) = 0
      BY <2>2
    <3>3. \A i \in 1 .. len - 1 : b[i] = IF i < k THEN a[i] ELSE a[i + 1]
      BY <2>2, <3>1 DEF Shortens
    <3>4. QED
      BY <2>3, <3>1, <3>2, <3>3
  <2> HIDE DEF b, len
  <2>6. CASE len = 1
    BY <1>1, <2>3, <2>4, <2>5, <2>6 DEF LastNode, b
  <2>7. CASE len # 1
    <3>1. /\ len - 1 \in 1 .. len - 1 /\ len - 1 + 1 = len
          /\ (len - 1 < k <=> k = len)
      BY <2>3, <2>7
    <3>2. b[len - 1] = IF k = len THEN a[len - 1] ELSE a[len]
      BY <2>5, <3>1
    <3>3. r.tail = IF k = len THEN a[len - 1] ELSE a[len]
      BY <1>1, <2>4, <2>7
    <3>4. QED
      BY <2>5, <2>7, <3>2, <3>3 DEF LastNode, b
  <2>8. QED
    BY <2>6, <2>7
<1>5. QED
  BY <1>3, <1>4

\* A node that is linked in comes first, or last.
LEMMA ChainPrependItem ==
    ASSUME NEW l \in ListType, NEW a, NEW m \in Nodes \ Members(a),
           Chain(l.head, l.next, l.prev, a), NEW r, r = prepend_item(l, m)
    PROVE  Chain(r.head, r.next, r.prev, <<m>> \o a)
<1> DEFINE n == Len(a)
           b == <<m>> \o a
<1>1. /\ l.head \in Pointers
      /\ l.next \in [Nodes -> Pointers] /\ l.prev \in [Nodes -> Pointers]
  BY DEF ListType
<1>2. /\ r.head = m
      /\ r.next = [l.next EXCEPT ![m] = l.head]
      /\ r.prev = (IF l.head # Null
                   THEN [[l.prev EXCEPT ![m] = Null] EXCEPT ![l.head] = m]
                   ELSE [l.prev EXCEPT ![m] = Null])
  BY <1>1 DEF prepend_item, ListType
<1>3. /\ a \in Seq(Nodes) /\ n \in Nat /\ DOMAIN a = 1 .. n
      /\ \A i \in 1 .. n : a[i] \in Nodes /\ a[i] # m /\ a[i] # Null
      /\ m # Null
  <2>1. a \in Seq(Nodes)
    BY DEF Chain
  <2>2. QED
    BY <2>1, NullAssumption DEF Members
<1>4. /\ b \in Seq(Nodes) /\ Len(b) = n + 1 /\ DOMAIN b = 1 .. n + 1
      /\ b[1] = m /\ b # <<>>
      /\ \A i \in 1 .. n : b[i + 1] = a[i]
      /\ \A i \in 1 .. n + 1 : i # 1 => i - 1 \in 1 .. n /\ b[i] = a[i - 1]
  <2>1. b \in Seq(Nodes) /\ Len(b) = n + 1
    BY <1>3
  <2>2. \A i \in 1 .. n + 1 : b[i] = IF i = 1 THEN m ELSE a[i - 1]
    BY <1>3
  <2>3. \A i \in 1 .. n : i + 1 \in 1 .. n + 1 /\ i + 1 # 1 /\ i + 1 - 1 = i
    BY <1>3
  <2> HIDE DEF b
  <2>4. QED
    BY <1>3, <2>1, <2>2, <2>3
<1> HIDE DEF b, n
<1>5. /\ l.head = IF n = 0 THEN Null ELSE a[1]
      /\ \A i, j \in 1 .. n : a[i] = a[j] => i = j
      /\ \A i \in 1 .. n : l.next[a[i]] = IF i = n THEN Null ELSE a[i + 1]
      /\ \A i \in 1 .. n : l.prev[a[i]] = IF i = 1 THEN Null ELSE a[i - 1]
  <2>1. a = <<>> <=> n = 0
    BY <1>3 DEF n
  <2>2. QED
    BY <1>3, <2>1 DEF Chain, BackLinked, n
<1>6. /\ r.next[m] = IF n = 0 THEN Null ELSE a[1]
      /\ r.prev[m] = Null
      /\ \A i \in 1 .. n : r.next[a[i]] = l.next[a[i]]
      /\ \A i \in 1 .. n : r.prev[a[i]] = IF i = 1 THEN m ELSE l.prev[a[i]]
  <2>1. r.next[m] = l.head /\ \A i \in 1 .. n : r.next[a[i]] = l.next[a[i]]
    BY <1>1, <1>2, <1>3
  <2>2. CASE n = 0
    BY <1>1, <1>2, <1>3, <1>5, <2>1, <2>2
  <2>3. CASE n # 0
    <3>1. 1 \in 1 .. n /\ l.head = a[1] /\ l.head # Null /\ l.head # m
      BY <1>3, <1>5, <2>3
    <3>2. \A i \in 1 .. n : a[i] = l.head <=> i = 1
      BY <1>5, <3>1
    <3>3. r.prev[m] = Null
      BY <1>1, <1>2, <3>1
    <3>4. \A i \in 1 .. n : r.prev[a[i]] = IF i = 1 THEN m ELSE l.prev[a[i]]
      BY <1>1, <1>2, <1>3, <3>1, <3>2
    <3>5. QED
      BY <2>1, <2>3, <3>1, <3>3, <3>4
  <2>4. QED
    BY <2>2, <2>3
<1>7. \A i, j \in DOMAIN b : b[i] = b[j] => i = j
  BY <1>3, <1>4, <1>5
<1>8. ASSUME NEW i \in 1 .. n + 1
      PROVE  /\ r.next[b[i]] = IF i = n + 1 THEN Null ELSE b[i + 1]
             /\ r.prev[b[i]] = IF i = 1 THEN Null ELSE b[i - 1]
  <2>1. CASE i = 1
    <3>1. (i = n + 1 <=> n = 0) /\ (n # 0 => 1 \in 1 .. n)
      BY <1>3, <2>1
    <3>2. QED
      BY <1>4, <1>6, <2>1, <3>1
  <2>2. CASE i # 1
    <3>1. PICK j \in 1 .. n : j = i - 1 /\ b[i] = a[j]
      BY <1>4, <2>2
    <3>2. /\ (i = n + 1 <=> j = n) /\ i = j + 1
          /\ (j # n => j + 1 \in 1 .. n)
          /\ (i - 1 = 1 <=> j = 1)
      BY <1>3, <3>1
    <3>3. r.next[b[i]] = IF i = n + 1 THEN Null ELSE b[i + 1]
      BY <1>4, <1>5, <1>6, <3>1, <3>2
    <3>4. r.prev[b[i]] = IF j = 1 THEN m ELSE a[j - 1]
      BY <1>5, <1>6, <3>1
    <3>5. b[i - 1] = IF j = 1 THEN m ELSE a[j - 1]
      <4>1. j # 1 => j \in 1 .. n + 1
        BY <1>3
      <4>2. QED
        BY <1>4, <3>1, <3>2, <4>1
    <3>6. QED
      BY <2>2, <3>3, <3>4, <3>5
  <2>3. QED
    BY <2>1, <2>2
<1>9. BackLinked(b, r.prev)
  BY <1>4, <1>8 DEF BackLinked
<1>10. Chain(r.head, r.next, r.prev, b)
  BY <1>2, <1>4, <1>7, <1>8, <1>9 DEF Chain
<1>11. QED
  BY <1>10 DEF b

LEMMA ChainAppendLru ==
    ASSUME NEW l \in LruType, NEW a, NEW m \in Nodes \ Members(a),
           Chain(l.head, l.next, l.prev, a), l.tail = LastNode(a),
           NEW r, r = append_lru(l, m)
    PROVE  /\ Chain(r.head, r.next, r.prev, Append(a, m))
           /\ r.tail = LastNode(Append(a, m))
<1> DEFINE n == Len(a)
           b == Append(a, m)
<1>1. /\ l.head \in Pointers
      /\ l.next \in [Nodes -> Pointers] /\ l.prev \in [Nodes -> Pointers]
  BY DEF LruType
<1>2. /\ r.head = (IF l.tail # Null THEN l.head ELSE m)
      /\ r.tail = m
      /\ r.prev = [l.prev EXCEPT ![m] = l.tail]
      /\ r.next = (IF l.tail # Null
                   THEN [[l.next EXCEPT ![m] = Null] EXCEPT ![l.tail] = m]
                   ELSE [l.next EXCEPT ![m] = Null])
  BY <1>1 DEF append_lru, LruType
<1>3. /\ a \in Seq(Nodes) /\ n \in Nat /\ DOMAIN a = 1 .. n
      /\ \A i \in 1 .. n : a[i] \in Nodes /\ a[i] # m /\ a[i] # Null
      /\ m # Null
  <2>1. a \in Seq(Nodes)
    BY DEF Chain
  <2>2. QED
    BY <2>1, NullAssumption DEF Members
<1>4. /\ b \in Seq(Nodes) /\ Len(b) = n + 1 /\ DOMAIN b = 1 .. n + 1
      /\ b[n + 1] = m /\ b # <<>>
      /\ \A i \in 1 .. n : b[i] = a[i]
      /\ \A i \in 1 .. n + 1 : i # n + 1 => i \in 1 .. n
  BY <1>3
<1> HIDE DEF b, n
<1>5. /\ l.head = IF n = 0 THEN Null ELSE a[1]
      /\ l.tail = IF n = 0 THEN Null ELSE a[n]
      /\ \A i, j \in 1 .. n : a[i] = a[j] => i = j
      /\ \A i \in 1 .. n : l.next[a[i]] = IF i = n THEN Null ELSE a[i + 1]
      /\ \A i \in 1 .. n : l.prev[a[i]] = IF i = 1 THEN Null ELSE a[i - 1]
  <2>1. a = <<>> <=> n = 0
    BY <1>3 DEF n
  <2>2. QED
    BY <1>3, <2>1 DEF Chain, BackLinked, LastNode, n
<1>6. /\ r.next[m] = Null
      /\ r.prev[m] = IF n = 0 THEN Null ELSE a[n]
      /\ \A i \in 1 .. n : r.next[a[i]] = IF i = n THEN m ELSE l.next[a[i]]
      /\ \A i \in 1 .. n : r.prev[a[i]] = l.prev[a[i]]
  <2>1. r.prev[m] = l.tail /\ \A i \in 1 .. n : r.prev[a[i]] = l.prev[a[i]]
    BY <1>1, <1>2, <1>3
  <2>2. CASE n = 0
    BY <1>1, <1>2, <1>3, <1>5, <2>1, <2>2
  <2>3. CASE n # 0
    <3>1. n \in 1 .. n /\ l.tail = a[n] /\ l.tail # Null /\ l.tail # m
      BY <1>3, <1>5, <2>3
    <3>2. \A i \in 1 .. n : a[i] = l.tail <=> i = n
      BY <1>5, <3>1
    <3>3. r.next[m] = Null
      BY <1>1, <1>2, <3>1
    <3>4. \A i \in 1 .. n : r.next[a[i]] = IF i = n THEN m ELSE l.next[a[i]]
      BY <1>1, <1>2, <1>3, <3>1, <3>2
    <3>5. QED
      BY <2>1, <2>3, <3>1, <3>3, <3>4
  <2>4. QED
    BY <2>2, <2>3
<1>7. \A i, j \in DOMAIN b : b[i] = b[j] => i = j
  BY <1>3, <1>4, <1>5
<1>8. ASSUME NEW i \in 1 .. n + 1
      PROVE  /\ r.next[b[i]] = IF i = n + 1 THEN Null ELSE b[i + 1]
             /\ r.prev[b[i]] = IF i = 1 THEN Null ELSE b[i - 1]
  <2>1. CASE i = n + 1
    <3>1. (i = 1 <=> n = 0) /\ (n # 0 => n \in 1 .. n) /\ i - 1 = n
      BY <1>3, <2>1
    <3>2. QED
      BY <1>4, <1>6, <2>1, <3>1
  <2>2. CASE i # n + 1
    <3>1. /\ i \in 1 .. n /\ b[i] = a[i] /\ i + 1 \in 1 .. n + 1
          /\ i # n => i + 1 \in 1 .. n
          /\ i # 1 => i - 1 \in 1 .. n
      BY <1>3, <1>4, <2>2
    <3>2. b[i + 1] = IF i = n THEN m ELSE a[i + 1]
      BY <1>4, <3>1
    <3>3. r.next[b[i]] = b[i + 1]
      BY <1>5, <1>6, <3>1, <3>2
    <3>4. r.prev[b[i]] = IF i = 1 THEN Null ELSE b[i - 1]
      BY <1>4, <1>5, <1>6, <3>1
    <3>5. QED
      BY <2>2, <3>3, <3>4
  <2>3. QED
    BY <2>1, <2>2
<1>9. BackLinked(b, r.prev)
  BY <1>4, <1>8 DEF BackLinked
<1>10. r.head = b[1]
  <2>1. CASE n = 0
    BY <1>2, <1>4, <1>5, <2>1
  <2>2. CASE n # 0
    <3>1. 1 \in 1 .. n /\ n \in 1 .. n
      BY <1>3, <2>2
    <3>2. QED
      BY <1>2, <1>3, <1>4, <1>5, <2>2, <3>1
  <2>3. QED
    BY <2>1, <2>2
<1>11. Chain(r.head, r.next, r.prev, b)
  BY <1>4, <1>7, <1>8, <1>9, <1>10 DEF Chain
<1>12. QED
  BY <1>2, <1>4, <1>11 DEF LastNode, b

-----------------------------------------------------------------------------
(* The two orders, and what each operation of the cache does to them.        *)

\* The stored nodes in the LRU list, without the one being touched.
TouchOrder == Walk(lru.head, lru.next)

OrderInv ==
    /\ Chain(list.head, list.next, list.prev, AgeOrder)
    /\ Members(AgeOrder) = Allocated
    /\ Chain(lru.head, lru.next, lru.prev, TouchOrder)
    /\ Members(TouchOrder) = Allocated \ BeingTouched
    /\ lru.tail = LastNode(TouchOrder)

\* A sequence has each node of a set once.
Orders(order, S) ==
    /\ order \in Seq(Nodes)
    /\ \A i, j \in DOMAIN order : order[i] = order[j] => i = j
    /\ Members(order) = S

NothingMoves ==
    /\ AgeOrder' = AgeOrder /\ UseOrder' = UseOrder
    /\ UNCHANGED <<store, free, total_size>>

\* Node n is used: it goes to the end of the order of use.
Uses(n) ==
    /\ \E k \in DOMAIN UseOrder :
        UseOrder[k] = n /\ UseOrder' = Append(Without(UseOrder, k), n)
    /\ AgeOrder' = AgeOrder
    /\ UNCHANGED <<store, free, total_size>>

\* The least recently used node goes.
Evicts ==
    /\ UseOrder # <<>> /\ UseOrder' = Without(UseOrder, 1)
    /\ \E k \in DOMAIN AgeOrder :
        AgeOrder[k] = UseOrder[1] /\ AgeOrder' = Without(AgeOrder, k)
    /\ free' = free \cup {UseOrder[1]}
    /\ total_size' = total_size - store[UseOrder[1]].size
    /\ store' = store

\* Entry e is stored in node n, the newest and most recently used.
Inserts(n, e) ==
    /\ n \in free /\ free' = free \ {n}
    /\ store' = [store EXCEPT ![n] = e]
    /\ AgeOrder' = <<n>> \o AgeOrder
    /\ UseOrder' = Append(UseOrder, n)
    /\ total_size' = total_size + e.size

\* At most one node is being touched.
LEMMA OneTouched ==
    ASSUME LockInv, NodeInv
    PROVE  \/ BeingTouched = {}
           \/ \E n \in Allocated : BeingTouched = {n}
<1>1. CASE \A t \in Threads : pc[t] # "touch_append"
  BY <1>1 DEF BeingTouched
<1>2. CASE \E t \in Threads : pc[t] = "touch_append"
  <2>1. PICK t \in Threads : pc[t] = "touch_append"
    BY <1>2
  <2>2. \A u \in Threads : pc[u] = "touch_append" => u = t
    BY <2>1 DEF LockInv, ReadersTakeTurns, HoldingReadersLock
  <2>3. BeingTouched = {current[t]}
    BY <2>1, <2>2 DEF BeingTouched
  <2>4. current[t] \in Allocated
    BY <2>1 DEF NodeInv, Standing, OnAMatch
  <2>5. QED
    BY <2>3, <2>4
<1>3. QED
  BY <1>1, <1>2

\* The order of use, when nothing and when a node is being touched.
LEMMA UseOrderIs ==
    /\ BeingTouched = {} /\ TouchOrder \in Seq(Nodes) => UseOrder = TouchOrder
    /\ \A n \in Nodes : BeingTouched = {n} /\ TouchOrder \in Seq(Nodes) =>
            UseOrder = Append(TouchOrder, n)
<1>1. UseOrder = TouchOrder \o SetToSeq(BeingTouched)
  BY DEF UseOrder, TouchOrder
<1> DEFINE a == TouchOrder
<1> HIDE DEF a
<1>2. a \in Seq(Nodes) => a \o <<>> = a
  OBVIOUS
<1>3. \A n \in Nodes : a \in Seq(Nodes) => a \o <<n>> = Append(a, n)
  OBVIOUS
<1>4. QED
  BY <1>1, <1>2, <1>3, SetToSeqOfNone, SetToSeqOfOne DEF a

LEMMA BothOrders ==
    ASSUME LockInv, NodeInv, OrderInv
    PROVE  Orders(AgeOrder, Allocated) /\ Orders(UseOrder, Allocated)
<1>1. Orders(AgeOrder, Allocated)
  BY DEF OrderInv, Chain, Orders
<1>2. Orders(TouchOrder, Allocated \ BeingTouched) /\ TouchOrder \in Seq(Nodes)
  BY DEF OrderInv, Chain, Orders
<1>3. CASE BeingTouched = {}
  BY <1>1, <1>2, <1>3, UseOrderIs
<1>4. CASE \E n \in Allocated : BeingTouched = {n}
  <2>1. PICK n \in Allocated : BeingTouched = {n}
    BY <1>4
  <2>2. n \in Nodes
    BY DEF Allocated
  <2> DEFINE a == TouchOrder
             b == Append(a, n)
  <2>3. a \in Seq(Nodes) /\ Members(a) = Allocated \ {n}
        /\ \A i, j \in DOMAIN a : a[i] = a[j] => i = j
    BY <1>2, <2>1 DEF Orders
  <2> HIDE DEF a
  <2>4. /\ b \in Seq(Nodes) /\ Len(a) \in Nat /\ DOMAIN a = 1 .. Len(a)
        /\ DOMAIN b = 1 .. Len(a) + 1
        /\ \A i \in 1 .. Len(a) : b[i] = a[i] /\ a[i] # n
        /\ b[Len(a) + 1] = n
    BY <2>2, <2>3 DEF Members
  <2> HIDE DEF b
  <2>5. \A i, j \in DOMAIN b : b[i] = b[j] => i = j
    BY <2>3, <2>4
  <2>6. Members(b) = Members(a) \cup {n}
    <3>1. Members(b) \subseteq Members(a) \cup {n}
      BY <2>4 DEF Members
    <3>2. Members(a) \subseteq Members(b)
      BY <2>4 DEF Members
    <3>3. n \in Members(b)
      <4>1. Len(a) + 1 \in DOMAIN b
        BY <2>4
      <4>2. QED
        BY <2>4, <4>1 DEF Members
    <3>4. QED
      BY <3>1, <3>2, <3>3
  <2>7. Orders(b, Allocated)
    BY <2>3, <2>4, <2>5, <2>6 DEF Orders
  <2>8. UseOrder = b
    BY <1>2, <2>1, <2>2, UseOrderIs DEF a, b
  <2>9. QED
    BY <1>1, <2>7, <2>8
<1>5. QED
  BY <1>3, <1>4, OneTouched

\* Where the pointers stay and no touch begins or ends, nothing moves.
LEMMA OrderKept ==
    ASSUME OrderInv, UNCHANGED dataVars, BeingTouched' = BeingTouched
    PROVE  OrderInv' /\ NothingMoves
<1>1. AgeOrder' = AgeOrder /\ TouchOrder' = TouchOrder /\ Allocated' = Allocated
  BY DEF dataVars, AgeOrder, TouchOrder, Allocated
<1>2. UseOrder' = UseOrder
  BY DEF dataVars, UseOrder
<1>3. OrderInv'
  BY <1>1 DEF OrderInv, dataVars
<1>4. QED
  BY <1>1, <1>2, <1>3 DEF NothingMoves, dataVars

-----------------------------------------------------------------------------
\* A hit unlinks the node it has matched, which counts as its use.
LEMMA TouchRemoveMoves ==
    ASSUME LockInv, NodeInv, OrderInv, NEW t \in Threads, TouchRemove(t)
    PROVE  OrderInv' /\ Uses(current[t])
<1>1. /\ \A u \in Threads : pc'[u] = IF u = t THEN "touch_append" ELSE pc[u]
      /\ pc[t] = "touch_remove"
  BY DEF TouchRemove, Goto, LockInv, LockTypes
<1>2. /\ UNCHANGED <<current, list, free, store, total_size>>
      /\ lru' = remove_lru(lru, current[t])
  BY DEF TouchRemove, callVars
<1>3. BeingTouched = {} /\ BeingTouched' = {current[t]}
  <2>1. BeingTouched = {}
    BY <1>1, NoneTouched DEF HoldingReadersLock
  <2>2. QED
    BY <1>1, <1>2, <2>1 DEF BeingTouched
<1>4. PICK n : n = current[t]
  OBVIOUS
<1>5. n \in Allocated /\ n \in Nodes
  BY <1>1, <1>4 DEF NodeInv, Standing, OnAMatch, Allocated
<1>6. PICK a : a = TouchOrder
  OBVIOUS
<1>7. /\ Chain(lru.head, lru.next, lru.prev, a) /\ lru.tail = LastNode(a)
      /\ Members(a) = Allocated /\ a \in Seq(Nodes)
      /\ \A i, j \in DOMAIN a : a[i] = a[j] => i = j
  BY <1>3, <1>6 DEF OrderInv, Chain
<1>8. PICK k \in DOMAIN a : a[k] = n
  BY <1>5, <1>7 DEF Members
<1>9. PICK r : r = remove_lru(lru, n)
  OBVIOUS
<1>10. lru \in LruType
  BY DEF NodeInv, MemoryTypes
<1>11. PICK b : b = Without(a, k)
  OBVIOUS
<1>12. Chain(r.head, r.next, r.prev, b) /\ r.tail = LastNode(b)
  BY <1>7, <1>8, <1>9, <1>10, <1>11, ChainRemoveLru
<1>13. r = lru'
  BY <1>2, <1>4, <1>9
<1>14. TouchOrder' = b
  <2>1. Walk(r.head, r.next) = b
    BY <1>12, WalkIs
  <2>2. QED
    BY <1>13, <2>1 DEF TouchOrder
<1>15. Members(b) = Allocated \ {n} /\ b \in Seq(Nodes)
  BY <1>7, <1>8, <1>11, WithoutMembers, WithoutKeeps
<1>16. AgeOrder' = AgeOrder /\ Allocated' = Allocated
  BY <1>2 DEF AgeOrder, Allocated
<1>17. OrderInv'
  <2>1. Chain(list'.head, list'.next, list'.prev, AgeOrder')
        /\ Members(AgeOrder') = Allocated'
    BY <1>2, <1>16 DEF OrderInv
  <2>2. /\ Chain(lru'.head, lru'.next, lru'.prev, TouchOrder')
        /\ lru'.tail = LastNode(TouchOrder')
    BY <1>12, <1>13, <1>14
  <2>3. Members(TouchOrder') = Allocated' \ BeingTouched'
    BY <1>3, <1>4, <1>14, <1>15, <1>16
  <2>4. QED
    BY <2>1, <2>2, <2>3 DEF OrderInv
<1>18. UseOrder = a
  BY <1>3, <1>6, <1>7, UseOrderIs
<1>19. UseOrder' = Append(b, n)
  <2>1. UseOrder' = TouchOrder' \o SetToSeq(BeingTouched')
    BY DEF UseOrder, TouchOrder
  <2>2. UseOrder' = b \o <<n>>
    BY <1>3, <1>4, <1>14, <2>1, SetToSeqOfOne
  <2>3. QED
    BY <1>5, <1>15, <2>2
<1>20. Uses(n)
  BY <1>2, <1>8, <1>11, <1>16, <1>18, <1>19 DEF Uses
<1>21. QED
  BY <1>4, <1>17, <1>20

\* And appends it where the order of use has it already.
LEMMA TouchAppendMoves ==
    ASSUME LockInv, NodeInv, OrderInv, NEW t \in Threads, TouchAppend(t)
    PROVE  OrderInv' /\ NothingMoves
<1>1. /\ \A u \in Threads : pc'[u] = IF u = t THEN "touch_unlock" ELSE pc[u]
      /\ pc[t] = "touch_append"
  BY DEF TouchAppend, Goto, LockInv, LockTypes
<1>2. /\ UNCHANGED <<current, list, free, store, total_size>>
      /\ lru' = append_lru(lru, current[t])
  BY DEF TouchAppend, callVars
<1>3. BeingTouched = {current[t]} /\ BeingTouched' = {}
  <2>1. \A u \in Threads : pc[u] = "touch_append" => u = t
    BY <1>1 DEF LockInv, ReadersTakeTurns, HoldingReadersLock
  <2>2. QED
    BY <1>1, <1>2, <2>1 DEF BeingTouched
<1>4. PICK n : n = current[t]
  OBVIOUS
<1>5. n \in Allocated /\ n \in Nodes
  BY <1>1, <1>4 DEF NodeInv, Standing, OnAMatch, Allocated
<1>6. PICK a : a = TouchOrder
  OBVIOUS
<1>7. /\ Chain(lru.head, lru.next, lru.prev, a) /\ lru.tail = LastNode(a)
      /\ Members(a) = Allocated \ {n} /\ a \in Seq(Nodes)
  BY <1>3, <1>4, <1>6 DEF OrderInv, Chain
<1>8. n \in Nodes \ Members(a)
  BY <1>5, <1>7
<1>9. PICK r : r = append_lru(lru, n)
  OBVIOUS
<1>10. lru \in LruType
  BY DEF NodeInv, MemoryTypes
<1>11. PICK b : b = Append(a, n)
  OBVIOUS
<1>12. Chain(r.head, r.next, r.prev, b) /\ r.tail = LastNode(b)
  BY <1>7, <1>8, <1>9, <1>10, <1>11, ChainAppendLru
<1>13. r = lru'
  BY <1>2, <1>4, <1>9
<1>14. TouchOrder' = b
  <2>1. Walk(r.head, r.next) = b
    BY <1>12, WalkIs
  <2>2. QED
    BY <1>13, <2>1 DEF TouchOrder
<1>15. UseOrder = b
  BY <1>3, <1>4, <1>5, <1>6, <1>7, <1>11, UseOrderIs
<1>16. b \in Seq(Nodes)
  BY <1>5, <1>7, <1>11
<1>17. UseOrder' = b
  <2>1. UseOrder' = TouchOrder' \o SetToSeq(BeingTouched')
    BY DEF UseOrder, TouchOrder
  <2>2. UseOrder' = b \o <<>>
    BY <1>3, <1>14, <2>1, SetToSeqOfNone
  <2>3. QED
    BY <1>16, <2>2
<1>18. AgeOrder' = AgeOrder /\ Allocated' = Allocated
  BY <1>2 DEF AgeOrder, Allocated
<1>19. OrderInv'
  <2>1. Chain(list'.head, list'.next, list'.prev, AgeOrder')
        /\ Members(AgeOrder') = Allocated'
    BY <1>2, <1>18 DEF OrderInv
  <2>2. /\ Chain(lru'.head, lru'.next, lru'.prev, TouchOrder')
        /\ lru'.tail = LastNode(TouchOrder')
    BY <1>12, <1>13, <1>14
  <2>3. Members(TouchOrder') = Allocated' \ BeingTouched'
    BY <1>3, <1>14, <1>15, <1>18, BothOrders DEF Orders
  <2>4. QED
    BY <2>1, <2>2, <2>3 DEF OrderInv
<1>20. NothingMoves
  BY <1>2, <1>15, <1>17, <1>18 DEF NothingMoves
<1>21. QED
  BY <1>19, <1>20

\* An eviction takes the least recently used node out of both orders.
LEMMA EvictMoves ==
    ASSUME LockInv, NodeInv, OrderInv, NEW t \in Threads, Evict(t)
    PROVE  OrderInv' /\ Evicts
<1>1. PICK n : n = lru.head
  OBVIOUS
<1>2. /\ pc' = pc /\ current' = current /\ pc[t] \in Writing
      /\ list' = remove_item(list, n)
      /\ lru' = remove_lru(lru, n)
      /\ free' = free \cup {n}
      /\ n # Null
      /\ total_size' = total_size - store[n].size /\ store' = store
  BY <1>1 DEF Evict, callVars, Writing
<1>3. BeingTouched = {} /\ BeingTouched' = {}
  <2>1. BeingTouched = {}
    BY <1>2, NoneTouched
  <2>2. QED
    BY <1>2, <2>1 DEF BeingTouched
<1>4. PICK a : a = TouchOrder
  OBVIOUS
<1>5. PICK c : c = AgeOrder
  OBVIOUS
<1>6. /\ Chain(lru.head, lru.next, lru.prev, a) /\ lru.tail = LastNode(a)
      /\ Members(a) = Allocated /\ a \in Seq(Nodes)
      /\ \A i, j \in DOMAIN a : a[i] = a[j] => i = j
  BY <1>3, <1>4 DEF OrderInv, Chain
<1>7. /\ Chain(list.head, list.next, list.prev, c)
      /\ Members(c) = Allocated /\ c \in Seq(Nodes)
      /\ \A i, j \in DOMAIN c : c[i] = c[j] => i = j
  BY <1>5 DEF OrderInv, Chain
<1>8. a # <<>> /\ n = a[1] /\ 1 \in DOMAIN a
  <2>1. a # <<>> /\ n = a[1]
    BY <1>1, <1>2, <1>6 DEF Chain
  <2>2. QED
    BY <1>6, <2>1
<1>9. n \in Allocated /\ n \in Nodes
  BY <1>6, <1>8 DEF Members
<1>10. PICK k \in DOMAIN c : c[k] = n
  BY <1>7, <1>9 DEF Members
<1>11. list \in ListType /\ lru \in LruType
  BY DEF NodeInv, MemoryTypes
<1>12. PICK b : b = Without(a, 1)
  OBVIOUS
<1>13. PICK d : d = Without(c, k)
  OBVIOUS
<1>14. Chain(lru'.head, lru'.next, lru'.prev, b) /\ lru'.tail = LastNode(b)
  <2>1. PICK r : r = remove_lru(lru, n)
    OBVIOUS
  <2>2. Chain(r.head, r.next, r.prev, b) /\ r.tail = LastNode(b)
    BY <1>6, <1>8, <1>11, <1>12, <2>1, ChainRemoveLru
  <2>3. QED
    BY <1>2, <2>1, <2>2
<1>15. Chain(list'.head, list'.next, list'.prev, d)
  <2>1. PICK r : r = remove_item(list, n)
    OBVIOUS
  <2>2. Chain(r.head, r.next, r.prev, d)
    BY <1>7, <1>10, <1>11, <1>13, <2>1, ChainRemoveItem
  <2>3. QED
    BY <1>2, <2>1, <2>2
<1>16. TouchOrder' = b /\ AgeOrder' = d
  <2>1. PICK r : r = lru'
    OBVIOUS
  <2>2. Walk(r.head, r.next) = b
    BY <1>14, <2>1, WalkIs
  <2>3. PICK s : s = list'
    OBVIOUS
  <2>4. Walk(s.head, s.next) = d
    BY <1>15, <2>3, WalkIs
  <2>5. QED
    BY <2>1, <2>2, <2>3, <2>4 DEF TouchOrder, AgeOrder
<1>17. /\ Members(b) = Allocated \ {n} /\ b \in Seq(Nodes)
       /\ Members(d) = Allocated \ {n}
  <2>1. Members(b) = Allocated \ {n} /\ b \in Seq(Nodes)
    BY <1>6, <1>8, <1>12, WithoutMembers, WithoutKeeps
  <2>2. Members(d) = Allocated \ {n}
    BY <1>7, <1>10, <1>13, WithoutMembers
  <2>3. QED
    BY <2>1, <2>2
<1>18. Allocated' = Allocated \ {n}
  BY <1>2 DEF Allocated
<1>19. OrderInv'
  BY <1>3, <1>14, <1>15, <1>16, <1>17, <1>18 DEF OrderInv
<1>20. UseOrder = a
  BY <1>3, <1>4, <1>6, UseOrderIs
<1>21. UseOrder' = b
  <2>1. UseOrder' = TouchOrder' \o SetToSeq(BeingTouched')
    BY DEF UseOrder, TouchOrder
  <2>2. UseOrder' = b \o <<>>
    BY <1>3, <1>16, <2>1, SetToSeqOfNone
  <2>3. QED
    BY <1>17, <2>2
<1>22. Evicts
  <2>1. UseOrder # <<>> /\ UseOrder' = Without(UseOrder, 1) /\ UseOrder[1] = n
    BY <1>8, <1>12, <1>20, <1>21
  <2>2. /\ k \in DOMAIN AgeOrder
        /\ AgeOrder[k] = n /\ AgeOrder' = Without(AgeOrder, k)
    BY <1>5, <1>10, <1>13, <1>16
  <2>3. QED
    BY <1>2, <2>1, <2>2 DEF Evicts
<1>23. QED
  BY <1>19, <1>22

\* An addition puts its node first in age and last in use.
LEMMA InsertMoves ==
    ASSUME LockInv, NodeInv, OrderInv, NEW t \in Threads, Insert(t)
    PROVE  OrderInv' /\ \E n \in free : Inserts(n, body[t])
<1>1. PICK n \in free : /\ free' = free \ {n}
                        /\ store' = [store EXCEPT ![n] = body[t]]
                        /\ list' = prepend_item(list, n)
                        /\ lru' = append_lru(lru, n)
  BY DEF Insert
<1>2. /\ \A u \in Threads : pc'[u] = IF u = t THEN "add_unlock" ELSE pc[u]
      /\ pc[t] \in Writing
      /\ current' = current
      /\ total_size' = total_size + body[t].size
  BY DEF Insert, Goto, LockInv, LockTypes, Writing, callVars
<1>3. BeingTouched = {} /\ BeingTouched' = {}
  <2>1. BeingTouched = {}
    BY <1>2, NoneTouched
  <2>2. QED
    BY <1>2, <2>1 DEF BeingTouched
<1>4. PICK a : a = TouchOrder
  OBVIOUS
<1>5. PICK c : c = AgeOrder
  OBVIOUS
<1>6. /\ Chain(lru.head, lru.next, lru.prev, a) /\ lru.tail = LastNode(a)
      /\ Orders(a, Allocated) /\ a \in Seq(Nodes)
  BY <1>3, <1>4 DEF OrderInv, Chain, Orders
<1>7. /\ Chain(list.head, list.next, list.prev, c)
      /\ Orders(c, Allocated) /\ c \in Seq(Nodes)
  BY <1>5 DEF OrderInv, Chain, Orders
<1>8. /\ n \in Nodes \ Allocated
      /\ Allocated' = Allocated \cup {n}
  BY <1>1 DEF Allocated, NodeInv, MemoryTypes
<1>9. list \in ListType /\ lru \in LruType
  BY DEF NodeInv, MemoryTypes
<1>10. PICK b : b = Append(a, n)
  OBVIOUS
<1>11. PICK d : d = <<n>> \o c
  OBVIOUS
<1>12. Chain(lru'.head, lru'.next, lru'.prev, b) /\ lru'.tail = LastNode(b)
  <2>1. PICK r : r = append_lru(lru, n)
    OBVIOUS
  <2>2. n \in Nodes \ Members(a)
    BY <1>6, <1>8 DEF Orders
  <2>3. Chain(r.head, r.next, r.prev, b) /\ r.tail = LastNode(b)
    BY <1>6, <1>9, <1>10, <2>1, <2>2, ChainAppendLru
  <2>4. QED
    BY <1>1, <2>1, <2>3
<1>13. Chain(list'.head, list'.next, list'.prev, d)
  <2>1. PICK r : r = prepend_item(list, n)
    OBVIOUS
  <2>2. n \in Nodes \ Members(c)
    BY <1>7, <1>8 DEF Orders
  <2>3. Chain(r.head, r.next, r.prev, d)
    BY <1>7, <1>9, <1>11, <2>1, <2>2, ChainPrependItem
  <2>4. QED
    BY <1>1, <2>1, <2>3
<1>14. TouchOrder' = b /\ AgeOrder' = d
  <2>1. PICK r : r = lru'
    OBVIOUS
  <2>2. Walk(r.head, r.next) = b
    BY <1>12, <2>1, WalkIs
  <2>3. PICK s : s = list'
    OBVIOUS
  <2>4. Walk(s.head, s.next) = d
    BY <1>13, <2>3, WalkIs
  <2>5. QED
    BY <2>1, <2>2, <2>3, <2>4 DEF TouchOrder, AgeOrder
<1>15. Members(b) = Allocated' /\ Members(d) = Allocated' /\ b \in Seq(Nodes)
  <2>1. /\ Members(a) = Allocated /\ Members(c) = Allocated
        /\ Len(a) \in Nat /\ DOMAIN a = 1 .. Len(a)
        /\ Len(c) \in Nat /\ DOMAIN c = 1 .. Len(c)
    BY <1>6, <1>7 DEF Orders
  <2>2. /\ DOMAIN b = 1 .. Len(a) + 1 /\ Len(a) + 1 \in DOMAIN b
        /\ b[Len(a) + 1] = n
        /\ \A i \in 1 .. Len(a) : i \in DOMAIN b /\ b[i] = a[i]
        /\ \A i \in DOMAIN b : i # Len(a) + 1 => i \in 1 .. Len(a)
    BY <1>6, <1>8, <1>10, <2>1
  <2>3. Members(b) = Members(a) \cup {n}
    BY <2>1, <2>2 DEF Members
  <2>4. /\ DOMAIN d = 1 .. Len(c) + 1 /\ 1 \in DOMAIN d /\ d[1] = n
        /\ \A i \in 1 .. Len(c) : i + 1 \in DOMAIN d /\ d[i + 1] = c[i]
        /\ \A i \in DOMAIN d : i # 1 => i - 1 \in 1 .. Len(c) /\ d[i] = c[i - 1]
    BY <1>7, <1>8, <1>11, <2>1
  <2>5. Members(d) = Members(c) \cup {n}
    BY <2>1, <2>4 DEF Members
  <2>6. b \in Seq(Nodes)
    BY <1>6, <1>8, <1>10
  <2>7. QED
    BY <1>8, <2>1, <2>3, <2>5, <2>6
<1>16. OrderInv'
  BY <1>3, <1>12, <1>13, <1>14, <1>15 DEF OrderInv
<1>17. UseOrder = a
  BY <1>3, <1>4, <1>6, UseOrderIs
<1>18. UseOrder' = b
  <2>1. UseOrder' = TouchOrder' \o SetToSeq(BeingTouched')
    BY DEF UseOrder, TouchOrder
  <2>2. UseOrder' = b \o <<>>
    BY <1>3, <1>14, <2>1, SetToSeqOfNone
  <2>3. QED
    BY <1>15, <2>2
<1>19. Inserts(n, body[t])
  BY <1>1, <1>2, <1>5, <1>10, <1>11, <1>14, <1>17, <1>18 DEF Inserts
<1>20. QED
  BY <1>16, <1>19

\* The steps that are neither a use nor an eviction nor an insertion.
LEMMA OrderQuiet ==
    ASSUME LockInv, NodeInv, OrderInv, NEW t \in Threads,
           Request(t) \/ Serve(t), ~TouchRemove(t), ~Evict(t), ~Insert(t)
    PROVE  OrderInv' /\ NothingMoves
<1>1. ASSUME NEW to, to # "touch_append",
             pc[t] # "touch_append", GoesTo(t, to), UNCHANGED dataVars,
             \A u \in Threads : u # t => current'[u] = current[u]
      PROVE  OrderInv' /\ NothingMoves
  <2>1. \A u \in Threads : pc'[u] = IF u = t THEN to ELSE pc[u]
    BY <1>1 DEF GoesTo, LockInv, LockTypes
  <2>2. BeingTouched' = BeingTouched
    BY <1>1, <2>1 DEF BeingTouched
  <2>3. QED
    BY <1>1, <2>2, OrderKept
<1>2. CASE ~TouchAppend(t)
  <2>1. /\ UNCHANGED dataVars
        /\ \A u \in Threads : u # t => current'[u] = current[u]
    <3>1. \/ Request(t) \/ Fetch(t) \/ FetchFails(t)
          => UNCHANGED <<dataVars, current>>
      BY DEF Request, Fetch, FetchFails, callVars
    <3>2. EnterWait(t) \/ EnterCount(t) \/ EnterFirst(t) \/ EnterUnlock(t)
             => UNCHANGED <<dataVars, current>>
      BY DEF EnterWait, EnterCount, EnterFirst, EnterUnlock, callVars
    <3>3. LeaveWait(t) \/ LeaveCount(t) \/ LeaveLast(t) \/ LeaveUnlock(t)
             => UNCHANGED <<dataVars, current>>
      BY DEF LeaveWait, LeaveCount, LeaveLast, LeaveUnlock, callVars
    <3>4. ScanEnd(t) \/ ScanHit(t) \/ TouchWait(t) \/ TouchUnlock(t) \/ Copy(t)
             => UNCHANGED <<dataVars, current>>
      BY DEF ScanEnd, ScanHit, TouchWait, TouchUnlock, Copy, callVars
    <3>5. AddWait(t) \/ AddUnlock(t) => UNCHANGED <<dataVars, current>>
      BY DEF AddWait, AddUnlock, callVars
    <3>6. ScanHead(t) \/ ScanNext(t) =>
            /\ UNCHANGED dataVars
            /\ \A u \in Threads : u # t => current'[u] = current[u]
      BY DEF ScanHead, ScanNext, NodeInv, MemoryTypes
    <3>7. QED
      BY <1>2, <3>1, <3>2, <3>3, <3>4, <3>5, <3>6
         DEF Serve, CacheGet, CacheAdd
  <2>2. /\ pc[t] # "touch_append"
        /\ \E to : to # "touch_append" /\ GoesTo(t, to)
    <3>1. Request(t) \/ Fetch(t) \/ FetchFails(t)
             => /\ pc[t] # "touch_append"
                /\ \E to : to # "touch_append" /\ GoesTo(t, to)
      BY DEF Request, Fetch, FetchFails, Goto, GoesTo
    <3>2. EnterWait(t) \/ EnterCount(t) \/ EnterFirst(t) \/ EnterUnlock(t)
             => /\ pc[t] # "touch_append"
                /\ \E to : to # "touch_append" /\ GoesTo(t, to)
      BY DEF EnterWait, EnterCount, EnterFirst, EnterUnlock, Goto, GoesTo
    <3>3. LeaveWait(t) \/ LeaveCount(t) \/ LeaveLast(t) \/ LeaveUnlock(t)
             => /\ pc[t] # "touch_append"
                /\ \E to : to # "touch_append" /\ GoesTo(t, to)
      BY DEF LeaveWait, LeaveCount, LeaveLast, LeaveUnlock, Goto, GoesTo
    <3>4. ScanEnd(t) \/ ScanHit(t) \/ TouchWait(t) \/ TouchUnlock(t) \/ Copy(t)
             => /\ pc[t] # "touch_append"
                /\ \E to : to # "touch_append" /\ GoesTo(t, to)
      BY DEF ScanEnd, ScanHit, TouchWait, TouchUnlock, Copy, Goto, GoesTo
    <3>5. AddWait(t) \/ AddUnlock(t) \/ ScanHead(t)
             => /\ pc[t] # "touch_append"
                /\ \E to : to # "touch_append" /\ GoesTo(t, to)
      BY DEF AddWait, AddUnlock, ScanHead, Goto, GoesTo
    <3>6. ScanNext(t) => /\ pc[t] # "touch_append"
                         /\ \E to : to # "touch_append" /\ GoesTo(t, to)
      <4>1. ScanNext(t) => pc[t] = "scan" /\ pc' = pc
        BY DEF ScanNext
      <4>2. pc' = pc /\ pc[t] = "scan" => GoesTo(t, "scan")
        BY DEF GoesTo, LockInv, LockTypes
      <4>3. QED
        BY <4>1, <4>2
    <3>7. QED
      BY <1>2, <3>1, <3>2, <3>3, <3>4, <3>5, <3>6
         DEF Serve, CacheGet, CacheAdd
  <2>3. QED
    BY <1>1, <2>1, <2>2
<1>3. QED
  BY <1>2, TouchAppendMoves

\* What a step does to the two orders.
LEMMA OrderStep ==
    ASSUME LockInv, NodeInv, OrderInv, [Next]_vars
    PROVE  /\ OrderInv'
           /\ \/ NothingMoves
              \/ \E t \in Threads : TouchRemove(t) /\ Uses(current[t])
              \/ \E t \in Threads : Evict(t) /\ Evicts
              \/ \E t \in Threads :
                    Insert(t) /\ \E n \in free : Inserts(n, body[t])
<1>1. ASSUME NEW t \in Threads, TouchRemove(t)
      PROVE  OrderInv' /\ Uses(current[t])
  BY <1>1, TouchRemoveMoves
<1>2. ASSUME NEW t \in Threads, Evict(t) PROVE OrderInv' /\ Evicts
  BY <1>2, EvictMoves
<1>3. ASSUME NEW t \in Threads, Insert(t)
      PROVE  OrderInv' /\ \E n \in free : Inserts(n, body[t])
  BY <1>3, InsertMoves
<1>4. CASE UNCHANGED vars
  <2>1. BeingTouched' = BeingTouched
    BY <1>4 DEF BeingTouched, vars, callVars
  <2>2. UNCHANGED dataVars
    BY <1>4 DEF vars
  <2>3. QED
    BY <2>1, <2>2, OrderKept
<1>5. QED
  BY <1>1, <1>2, <1>3, <1>4, OrderQuiet DEF Next

-----------------------------------------------------------------------------
(* What the threads hold: the answers, responses and numbers of their        *)
(* requests.                                                                 *)

CallTypes ==
    /\ store \in [Nodes -> Entries \cup {NoEntry}]
    /\ serving \in [Threads -> Requests \cup {NoRequest}]
    /\ answer \in [Threads -> Entries \cup {NoEntry}]
    /\ body \in [Threads -> Entries \cup {NoEntry}]
    /\ requests \in Nat

EntriesStored == \A n \in Allocated : store[n] \in Entries

\* Up to its scan's end or its copy a lookup has no answer, nor has a thread
\* that missed.
Unanswered ==
    {"get_wait", "enter_count", "enter_first", "enter_unlock", "scan_head",
     "scan", "touch_wait", "touch_remove", "touch_append", "touch_unlock",
     "copy", "fetch", "add_wait", "add_room"}
WithResponse == {"add_wait", "add_room"}

Responds(t) ==
    /\ body[t] \in Entries
    /\ body[t].size <= MaxObjectSize
    /\ body[t].stamp = serving[t].number

Calls ==
    \A t \in Threads :
        /\ pc[t] # "idle" => serving[t] # NoRequest
        /\ pc[t] \in Unanswered => answer[t] = NoEntry
        /\ pc[t] \in WithResponse => Responds(t)

CallInv == CallTypes /\ EntriesStored /\ Calls

LEMMA CallInvInit == Init => CallInv
<1> SUFFICES ASSUME Init PROVE CallInv
  OBVIOUS
<1>1. CallTypes
  BY DEF Init, CallTypes
<1>2. EntriesStored
  BY DEF Init, EntriesStored, Allocated
<1>3. Calls
  BY DEF Init, Calls, Unanswered, WithResponse
<1>4. QED
  BY <1>1, <1>2, <1>3 DEF CallInv

\* A step of thread t that changes its label only.
LEMMA CallKept ==
    ASSUME LockInv, CallInv, NEW t \in Threads, NEW to, GoesTo(t, to),
           UNCHANGED <<store, free, serving, answer, body, requests>>,
           to = "idle" \/ pc[t] # "idle",
           to \in Unanswered => pc[t] \in Unanswered \/ answer[t] = NoEntry,
           to \in WithResponse => pc[t] \in WithResponse
    PROVE  CallInv'
<1>1. \A u \in Threads : pc'[u] = IF u = t THEN to ELSE pc[u]
  BY DEF GoesTo, LockInv, LockTypes
<1>2. CallTypes' /\ EntriesStored'
  BY DEF CallInv, CallTypes, EntriesStored, Allocated
<1>3. \A u \in Threads : Responds(u)' <=> Responds(u)
  BY DEF Responds
<1>4. Calls'
  BY <1>1, <1>3 DEF CallInv, Calls
<1>5. QED
  BY <1>2, <1>4 DEF CallInv

\* The thread takes up a request, fetches, copies or inserts.
LEMMA CallRequest ==
    ASSUME LockInv, CallInv, NEW t \in Threads, Request(t) PROVE CallInv'
<1>1. PICK k \in Keys : /\ serving' = [serving EXCEPT ![t] =
                                [key |-> k, number |-> requests + 1]]
                        /\ requests < MaxRequests
                        /\ requests' = requests + 1
                        /\ answer' = [answer EXCEPT ![t] = NoEntry]
                        /\ store' = store /\ free' = free /\ body' = body
  BY DEF Request, dataVars
<1>2. /\ \A u \in Threads : pc'[u] = IF u = t THEN "get_wait" ELSE pc[u]
  BY DEF Request, Goto, LockInv, LockTypes
<1>3. PICK r : r = [key |-> k, number |-> requests + 1]
  OBVIOUS
<1>4. r \in Requests /\ r # NoRequest
  <2>1. requests + 1 \in 1 .. MaxRequests
    BY <1>1, MaxRequestsAssumption DEF CallInv, CallTypes
  <2>2. r \in Requests
    BY <1>3, <2>1 DEF Requests
  <2>3. QED
    BY <2>2, NoneAssumption
<1>5. CallTypes'
  BY <1>1, <1>3, <1>4 DEF CallInv, CallTypes
<1>6. EntriesStored'
  BY <1>1 DEF CallInv, EntriesStored, Allocated
<1>7. \A u \in Threads : /\ serving'[u] = IF u = t THEN r ELSE serving[u]
                         /\ answer'[u] = IF u = t THEN NoEntry ELSE answer[u]
  BY <1>1, <1>3 DEF CallInv, CallTypes
<1>8. \A u \in Threads : u # t => (Responds(u)' <=> Responds(u))
  BY <1>1, <1>7 DEF Responds
<1>9. Calls'
  BY <1>2, <1>4, <1>7, <1>8 DEF CallInv, Calls, WithResponse
<1>10. QED
  BY <1>5, <1>6, <1>9 DEF CallInv

LEMMA CallFetch ==
    ASSUME LockInv, CallInv, NEW t \in Threads, Fetch(t) PROVE CallInv'
<1>1. PICK s \in Sizes :
        /\ body' = [body EXCEPT ![t] = [key |-> serving[t].key, size |-> s,
                                       stamp |-> serving[t].number]]
        /\ pc' = [pc EXCEPT ![t] =
                    IF s > MaxObjectSize THEN "idle" ELSE "add_wait"]
  BY DEF Fetch
<1>2. pc[t] = "fetch" /\ UNCHANGED <<store, free, serving, answer, requests>>
  BY DEF Fetch, dataVars
<1>3. PICK e : e = [key |-> serving[t].key, size |-> s,
                    stamp |-> serving[t].number]
  OBVIOUS
<1>4. e \in Entries
  BY <1>2, <1>3 DEF CallInv, CallTypes, Calls, Entries, Requests
<1>5. \A u \in Threads :
        /\ body'[u] = IF u = t THEN e ELSE body[u]
        /\ u # t => pc'[u] = pc[u]
        /\ pc'[t] = "idle" \/ (pc'[t] = "add_wait" /\ ~(s > MaxObjectSize))
  BY <1>1, <1>3 DEF CallInv, CallTypes, LockInv, LockTypes
<1>6. CallTypes' /\ EntriesStored'
  BY <1>1, <1>2, <1>3, <1>4
     DEF CallInv, CallTypes, EntriesStored, Allocated
<1>7. \A u \in Threads : u # t => (Responds(u)' <=> Responds(u))
  BY <1>2, <1>5 DEF Responds
<1>8. pc'[t] = "add_wait" => Responds(t)'
  <2>1. s \in Nat /\ MaxObjectSize \in Nat
    BY SizesAssumption
  <2>2. e.size = s /\ e.stamp = serving[t].number
    BY <1>3
  <2>3. QED
    BY <1>2, <1>4, <1>5, <2>1, <2>2 DEF Responds
<1>9. Calls'
  BY <1>2, <1>5, <1>7, <1>8
     DEF CallInv, Calls, Unanswered, WithResponse
<1>10. QED
  BY <1>6, <1>9 DEF CallInv

LEMMA CallCopy ==
    ASSUME LockInv, NodeInv, CallInv, NEW t \in Threads, Copy(t) PROVE CallInv'
<1>1. /\ pc[t] = "copy"
      /\ \A u \in Threads : pc'[u] = IF u = t THEN "leave_wait" ELSE pc[u]
      /\ answer' = [answer EXCEPT ![t] = store[current[t]]]
      /\ UNCHANGED <<store, free, serving, body, requests>>
  BY DEF Copy, Goto, LockInv, LockTypes, dataVars
<1>2. store[current[t]] \in Entries
  BY <1>1 DEF NodeInv, Standing, OnAMatch, CallInv, EntriesStored
<1>3. CallTypes' /\ EntriesStored'
  BY <1>1, <1>2 DEF CallInv, CallTypes, EntriesStored, Allocated
<1>4. \A u \in Threads : /\ u # t => answer'[u] = answer[u]
                         /\ Responds(u)' <=> Responds(u)
  BY <1>1 DEF Responds, CallInv, CallTypes
<1>5. Calls'
  BY <1>1, <1>4 DEF CallInv, Calls, Unanswered, WithResponse
<1>6. QED
  BY <1>3, <1>5 DEF CallInv

LEMMA CallInsert ==
    ASSUME LockInv, NodeInv, CallInv, NEW t \in Threads, Insert(t)
    PROVE  CallInv'
<1>1. PICK n \in free : /\ free' = free \ {n}
                        /\ store' = [store EXCEPT ![n] = body[t]]
  BY DEF Insert
<1>2. /\ pc[t] = "add_room"
      /\ \A u \in Threads : pc'[u] = IF u = t THEN "add_unlock" ELSE pc[u]
      /\ UNCHANGED <<serving, answer, body, requests>>
  BY DEF Insert, Goto, LockInv, LockTypes, callVars
<1>3. body[t] \in Entries
  BY <1>2 DEF CallInv, Calls, WithResponse, Responds
<1>4. CallTypes'
  BY <1>1, <1>2, <1>3 DEF CallInv, CallTypes
<1>5. EntriesStored'
  BY <1>1, <1>3 DEF CallInv, CallTypes, EntriesStored, Allocated
<1>6. \A u \in Threads : Responds(u)' <=> Responds(u)
  BY <1>2 DEF Responds
<1>7. Calls'
  BY <1>2, <1>6 DEF CallInv, Calls, Unanswered, WithResponse
<1>8. QED
  BY <1>4, <1>5, <1>7 DEF CallInv

LEMMA CallEvict ==
    ASSUME LockInv, NodeInv, CallInv, NEW t \in Threads, Evict(t)
    PROVE  CallInv'
<1>1. /\ free' = free \cup {lru.head}
      /\ UNCHANGED <<store, serving, answer, body, requests, pc>>
  BY DEF Evict, callVars
<1>2. CallTypes' /\ EntriesStored'
  BY <1>1 DEF CallInv, CallTypes, EntriesStored, Allocated
<1>3. \A u \in Threads : Responds(u)' <=> Responds(u)
  BY <1>1 DEF Responds
<1>4. Calls'
  BY <1>1, <1>3 DEF CallInv, Calls
<1>5. QED
  BY <1>2, <1>4 DEF CallInv

LEMMA CallInvNext == LockInv /\ NodeInv /\ CallInv /\ [Next]_vars => CallInv'
<1> SUFFICES ASSUME LockInv, NodeInv, CallInv, [Next]_vars PROVE CallInv'
  OBVIOUS
<1> USE DEF Goto, GoesTo, Unanswered, WithResponse, dataVars, callVars
<1>1. ASSUME NEW t \in Threads, FetchFails(t) PROVE CallInv'
  BY <1>1, CallKept DEF FetchFails
<1>2. ASSUME NEW t \in Threads, EnterWait(t) PROVE CallInv'
  BY <1>2, CallKept DEF EnterWait
<1>3. ASSUME NEW t \in Threads, EnterCount(t) PROVE CallInv'
  BY <1>3, CallKept DEF EnterCount
<1>4. ASSUME NEW t \in Threads, EnterFirst(t) PROVE CallInv'
  BY <1>4, CallKept DEF EnterFirst
<1>5. ASSUME NEW t \in Threads, EnterUnlock(t) PROVE CallInv'
  BY <1>5, CallKept DEF EnterUnlock
<1>6. ASSUME NEW t \in Threads, ScanHead(t) PROVE CallInv'
  BY <1>6, CallKept DEF ScanHead
<1>7. ASSUME NEW t \in Threads, ScanNext(t) PROVE CallInv'
  <2>1. GoesTo(t, "scan")
    BY <1>7 DEF ScanNext, LockInv, LockTypes
  <2>2. QED
    BY <1>7, <2>1, CallKept DEF ScanNext
<1>8. ASSUME NEW t \in Threads, ScanEnd(t) PROVE CallInv'
  BY <1>8, CallKept DEF ScanEnd
<1>9. ASSUME NEW t \in Threads, ScanHit(t) PROVE CallInv'
  BY <1>9, CallKept DEF ScanHit
<1>10. ASSUME NEW t \in Threads, TouchWait(t) PROVE CallInv'
  BY <1>10, CallKept DEF TouchWait
<1>11. ASSUME NEW t \in Threads, TouchRemove(t) PROVE CallInv'
  BY <1>11, CallKept DEF TouchRemove
<1>12. ASSUME NEW t \in Threads, TouchAppend(t) PROVE CallInv'
  BY <1>12, CallKept DEF TouchAppend
<1>13. ASSUME NEW t \in Threads, TouchUnlock(t) PROVE CallInv'
  BY <1>13, CallKept DEF TouchUnlock
<1>14. ASSUME NEW t \in Threads, LeaveWait(t) PROVE CallInv'
  BY <1>14, CallKept DEF LeaveWait
<1>15. ASSUME NEW t \in Threads, LeaveCount(t) PROVE CallInv'
  BY <1>15, CallKept DEF LeaveCount
<1>16. ASSUME NEW t \in Threads, LeaveLast(t) PROVE CallInv'
  BY <1>16, CallKept DEF LeaveLast
<1>17. ASSUME NEW t \in Threads, LeaveUnlock(t) PROVE CallInv'
  BY <1>17, CallKept DEF LeaveUnlock
<1>18. ASSUME NEW t \in Threads, AddWait(t) PROVE CallInv'
  BY <1>18, CallKept DEF AddWait
<1>19. ASSUME NEW t \in Threads, AddUnlock(t) PROVE CallInv'
  BY <1>19, CallKept DEF AddUnlock
<1>20. CASE UNCHANGED vars
  <2>1. \A u \in Threads : Responds(u)' <=> Responds(u)
    BY <1>20 DEF Responds, vars
  <2>2. QED
    BY <1>20, <2>1
       DEF vars, CallInv, CallTypes, EntriesStored, Allocated, Calls
<1>21. QED
  BY <1>1, <1>2, <1>3, <1>4, <1>5, <1>6, <1>7, <1>8, <1>9, <1>10, <1>11,
     <1>12, <1>13, <1>14, <1>15, <1>16, <1>17, <1>18, <1>19, <1>20,
     CallRequest, CallFetch, CallCopy, CallInsert, CallEvict
     DEF Next, Serve, CacheGet, CacheAdd

-----------------------------------------------------------------------------
(* The size of a sequence of entries: SizeOf is recursive, and is got from   *)
(* any function that satisfies its equation.                                 *)

Sums(f, s) ==
    f = [n \in 0 .. Len(s) |-> IF n = 0 THEN 0 ELSE f[n - 1] + s[n].size]

LEMMA SumsExist ==
    ASSUME NEW s, Len(s) \in Nat
    PROVE  \E f : Sums(f, s)
<1> DEFINE Upto(f, n) ==
                f = [m \in 0 .. n |-> IF m = 0 THEN 0 ELSE f[m - 1] + s[m].size]
           T == {n \in Nat : ~\E f : Upto(f, n)}
<1>1. \E f : Upto(f, 0)
  <2> DEFINE f == [m \in 0 .. 0 |-> 0]
  <2>1. \A m \in 0 .. 0 : m = 0
    OBVIOUS
  <2>2. Upto(f, 0)
    BY <2>1
  <2> HIDE DEF f
  <2>3. QED
    BY <2>2
<1>2. ASSUME NEW n \in Nat, n # 0, NEW f, Upto(f, n - 1)
      PROVE  \E g : Upto(g, n)
  <2> DEFINE g == [m \in 0 .. n |->
                     IF m = n THEN f[n - 1] + s[n].size ELSE f[m]]
  <2>1. \A m \in 0 .. n - 1 :
          f[m] = IF m = 0 THEN 0 ELSE f[m - 1] + s[m].size
    BY <1>2
  <2>2. ASSUME NEW m \in 0 .. n
        PROVE  g[m] = IF m = 0 THEN 0 ELSE g[m - 1] + s[m].size
    <3>1. CASE m = n
      <4>1. n - 1 \in 0 .. n /\ n - 1 # n
        BY <1>2
      <4>2. QED
        BY <1>2, <3>1, <4>1
    <3>2. CASE m # n
      <4>1. m \in 0 .. n - 1 /\ (m # 0 => m - 1 \in 0 .. n /\ m - 1 # n)
        BY <1>2, <3>2
      <4>2. QED
        BY <2>1, <3>2, <4>1
    <3>3. QED
      BY <3>1, <3>2
  <2>3. Upto(g, n)
    BY <2>2
  <2> HIDE DEF g
  <2>4. QED
    BY <2>3
<1> HIDE DEF Upto
<1>3. CASE T # {}
  <2>1. PICK n \in T : \A m \in T : n <= m
    <3>1. T \in SUBSET Nat
      OBVIOUS
    <3> HIDE DEF T
    <3>2. QED
      BY <1>3, <3>1, LeastExists
  <2>2. n \in Nat /\ n # 0 /\ ~\E f : Upto(f, n)
    BY <1>1, <2>1
  <2>3. n - 1 \in Nat /\ ~(n <= n - 1)
    BY <2>2
  <2>4. n - 1 \notin T
    BY <2>1, <2>3
  <2>5. \E f : Upto(f, n - 1)
    BY <2>3, <2>4
  <2>6. QED
    BY <1>2, <2>2, <2>5
<1>4. CASE T = {}
  <2>1. \E f : Upto(f, Len(s))
    BY <1>4
  <2>2. QED
    BY <2>1 DEF Upto, Sums
<1>5. QED
  BY <1>3, <1>4

LEMMA SumsAreUnique ==
    ASSUME NEW s, Len(s) \in Nat, NEW f, NEW g, Sums(f, s), Sums(g, s)
    PROVE  f = g
<1> DEFINE D == 0 .. Len(s)
           T == {n \in D : f[n] # g[n]}
<1>1. /\ f = [n \in D |-> f[n]] /\ g = [n \in D |-> g[n]]
      /\ \A n \in D : f[n] = IF n = 0 THEN 0 ELSE f[n - 1] + s[n].size
      /\ \A n \in D : g[n] = IF n = 0 THEN 0 ELSE g[n - 1] + s[n].size
  BY DEF Sums
<1>2. CASE T # {}
  <2>1. T \in SUBSET Nat
    OBVIOUS
  <2>2. PICK n \in T : \A m \in T : n <= m
    <3> HIDE DEF T
    <3>1. QED
      BY <1>2, <2>1, LeastExists
  <2>3. n \in D /\ f[n] # g[n]
    BY <2>2
  <2>4. n # 0
    BY <1>1, <2>3
  <2>5. n - 1 \in D /\ ~(n <= n - 1)
    BY <2>3, <2>4
  <2>6. n - 1 \notin T
    BY <2>2, <2>5
  <2>7. f[n - 1] = g[n - 1]
    BY <2>5, <2>6
  <2>8. QED
    BY <1>1, <2>3, <2>4, <2>7
<1>3. CASE T = {}
  <2>1. \A n \in D : f[n] = g[n]
    BY <1>3
  <2> HIDE DEF D
  <2>2. [n \in D |-> f[n]] = [n \in D |-> g[n]]
    BY <2>1
  <2>3. QED
    BY <1>1, <2>2
<1>4. QED
  BY <1>2, <1>3

LEMMA SizeOfIs ==
    ASSUME NEW s, Len(s) \in Nat, NEW f, Sums(f, s)
    PROVE  Cache!SizeOf(s) = f[Len(s)]
<1>1. Cache!SizeOf(s) = (CHOOSE g : Sums(g, s))[Len(s)]
  BY Zenon DEF Cache!SizeOf, Sums
<1>2. Sums(CHOOSE g : Sums(g, s), s)
  BY Zenon
<1> DEFINE h == CHOOSE g : Sums(g, s)
<1> HIDE DEF h
<1>3. h = f
  BY <1>2, SumsAreUnique DEF h
<1>4. QED
  BY <1>1, <1>3 DEF h

\* Sequences of things that have a size.
Sized(s) ==
    /\ Len(s) \in Nat /\ DOMAIN s = 1 .. Len(s)
    /\ \A i \in DOMAIN s : s[i].size \in Nat

LEMMA SumsAreNumbers ==
    ASSUME NEW s, Sized(s), NEW f, Sums(f, s)
    PROVE  \A n \in 0 .. Len(s) : f[n] \in Nat
<1> DEFINE D == 0 .. Len(s)
           T == {n \in D : f[n] \notin Nat}
<1>1. \A n \in D : f[n] = IF n = 0 THEN 0 ELSE f[n - 1] + s[n].size
  BY DEF Sums
<1>2. CASE T # {}
  <2>1. T \in SUBSET Nat
    BY DEF Sized
  <2>2. PICK n \in T : \A m \in T : n <= m
    <3> HIDE DEF T
    <3>1. QED
      BY <1>2, <2>1, LeastExists
  <2>3. n \in D /\ f[n] \notin Nat
    BY <2>2
  <2>4. n # 0
    BY <1>1, <2>3
  <2>5. n - 1 \in D /\ ~(n <= n - 1) /\ n \in DOMAIN s
    BY <2>3, <2>4 DEF Sized
  <2>6. n - 1 \notin T
    BY <2>2, <2>5
  <2>7. f[n - 1] \in Nat
    BY <2>5, <2>6
  <2>8. s[n].size \in Nat
    BY <2>5 DEF Sized
  <2>9. QED
    BY <1>1, <2>3, <2>4, <2>7, <2>8
<1>3. QED
  BY <1>2

LEMMA SizeIsNumber ==
    ASSUME NEW s, Sized(s) PROVE Cache!SizeOf(s) \in Nat
<1>1. Len(s) \in Nat /\ Len(s) \in 0 .. Len(s)
  BY DEF Sized
<1>2. PICK f : Sums(f, s)
  BY <1>1, SumsExist
<1>3. QED
  BY <1>1, <1>2, SizeOfIs, SumsAreNumbers

LEMMA SizeOfNone == ASSUME NEW s, Len(s) = 0 PROVE Cache!SizeOf(s) = 0
<1>1. Len(s) \in Nat
  OBVIOUS
<1>2. PICK f : Sums(f, s)
  BY <1>1, SumsExist
<1>3. f[0] = 0
  <2>1. \A n \in 0 .. Len(s) : f[n] = IF n = 0 THEN 0 ELSE f[n - 1] + s[n].size
    BY <1>2 DEF Sums
  <2>2. QED
    BY <2>1
<1>4. QED
  BY <1>1, <1>2, <1>3, SizeOfIs

\* One more entry in front.
LEMMA SizeOfMore ==
    ASSUME NEW s, Sized(s), NEW r, Sized(r), Len(r) = Len(s) + 1,
           \A i \in DOMAIN s : r[i + 1] = s[i]
    PROVE  Cache!SizeOf(r) = Cache!SizeOf(s) + r[1].size
<1> DEFINE len == Len(s)
<1>1. len \in Nat /\ Len(r) \in Nat
  BY DEF Sized
<1>2. PICK f : Sums(f, s)
  BY <1>1, SumsExist
<1>3. \A n \in 0 .. len : f[n] \in Nat
  BY <1>2, SumsAreNumbers
<1>4. \A n \in 0 .. len : f[n] = IF n = 0 THEN 0 ELSE f[n - 1] + s[n].size
  BY <1>2 DEF Sums
<1>5. /\ r[1].size \in Nat
      /\ \A i \in 1 .. len : r[i + 1] = s[i] /\ s[i].size \in Nat
  BY <1>1 DEF Sized
<1> DEFINE g == [n \in 0 .. len + 1 |->
                    IF n = 0 THEN 0 ELSE f[n - 1] + r[1].size]
<1>6. Len(r) = len + 1
  OBVIOUS
<1> HIDE DEF len
<1>7. ASSUME NEW n \in 0 .. len + 1
      PROVE  g[n] = IF n = 0 THEN 0 ELSE g[n - 1] + r[n].size
  <2>1. CASE n = 0
    BY <2>1
  <2>2. CASE n = 1
    <3>1. g[0] = 0 /\ f[0] = 0 /\ g[1] = f[0] + r[1].size
      BY <1>1, <1>4
    <3>2. QED
      BY <1>5, <2>2, <3>1
  <2>3. CASE n # 0 /\ n # 1
    <3>1. PICK m \in 1 .. len : n = m + 1
      <4>1. n - 1 \in 1 .. len /\ n = (n - 1) + 1
        BY <1>1, <2>3
      <4>2. QED
        BY <4>1
    <3>2. /\ m + 1 \in 0 .. len + 1 /\ m \in 0 .. len + 1
          /\ m # 0 /\ m + 1 # 0 /\ m + 1 - 1 = m /\ m \in 0 .. len
          /\ m - 1 \in 0 .. len
      BY <1>1
    <3>3. g[m + 1] = f[m] + r[1].size /\ g[m] = f[m - 1] + r[1].size
      BY <3>2
    <3>4. f[m] = f[m - 1] + s[m].size
      BY <1>4, <3>2
    <3>5. r[m + 1].size = s[m].size /\ s[m].size \in Nat
      BY <1>5
    <3>6. f[m - 1] \in Nat /\ f[m] \in Nat
      BY <1>3, <3>2
    <3>7. g[m + 1] = g[m] + r[m + 1].size
      BY <1>5, <3>3, <3>4, <3>5, <3>6
    <3>8. QED
      BY <2>3, <3>1, <3>2, <3>7
  <2>4. QED
    BY <2>1, <2>2, <2>3
<1>8. Sums(g, r)
  BY <1>6, <1>7 DEF Sums
<1>9. g[len + 1] = f[len] + r[1].size
  BY <1>1
<1> HIDE DEF g
<1>10. Cache!SizeOf(r) = g[len + 1] /\ Cache!SizeOf(s) = f[len]
  BY <1>1, <1>2, <1>6, <1>8, SizeOfIs DEF len
<1>11. QED
  BY <1>9, <1>10

\* One entry less.
LEMMA SizeOfLess ==
    ASSUME NEW s, Sized(s), NEW k \in DOMAIN s, NEW r, Shortens(r, s, k)
    PROVE  Cache!SizeOf(r) = Cache!SizeOf(s) - s[k].size
<1> DEFINE len == Len(s)
<1>1. /\ len \in Nat /\ len - 1 \in Nat /\ Len(r) = len - 1 /\ k \in 1 .. len
      /\ \A i \in 1 .. len - 1 : r[i] = IF i < k THEN s[i] ELSE s[i + 1]
      /\ \A i \in 1 .. len : s[i].size \in Nat
  BY DEF Sized, Shortens
<1>2. PICK f : Sums(f, s)
  BY <1>1, SumsExist
<1>3. \A n \in 0 .. len : f[n] \in Nat
  BY <1>2, SumsAreNumbers
<1>4. \A n \in 0 .. len : f[n] = IF n = 0 THEN 0 ELSE f[n - 1] + s[n].size
  BY <1>2 DEF Sums
<1> DEFINE g == [n \in 0 .. len - 1 |->
                    IF n < k THEN f[n] ELSE f[n + 1] - s[k].size]
<1> HIDE DEF len
<1>5. ASSUME NEW n \in 0 .. len - 1
      PROVE  g[n] = IF n = 0 THEN 0 ELSE g[n - 1] + r[n].size
  <2>1. CASE n = 0
    <3>1. 0 < k /\ 0 \in 0 .. len
      BY <1>1
    <3>2. QED
      BY <1>4, <2>1, <3>1
  <2>2. CASE n # 0 /\ n < k
    <3>1. /\ n \in 1 .. len - 1 /\ n \in 0 .. len /\ n - 1 < k
          /\ n - 1 \in 0 .. len - 1
      BY <1>1, <2>2
    <3>2. g[n] = f[n] /\ g[n - 1] = f[n - 1] /\ r[n] = s[n]
      BY <1>1, <2>2, <3>1
    <3>3. QED
      BY <1>4, <2>2, <3>1, <3>2
  <2>3. CASE n # 0 /\ n >= k
    <3>1. /\ n \in 1 .. len - 1 /\ n \in 0 .. len /\ n + 1 \in 1 .. len
          /\ n + 1 \in 0 .. len /\ n + 1 # 0 /\ n + 1 - 1 = n
          /\ n - 1 \in 0 .. len - 1 /\ ~(n < k) /\ n - 1 + 1 = n
          /\ n - 1 \in 0 .. len
          /\ (n - 1 < k <=> n = k)
      BY <1>1, <2>3
    <3>2. /\ g[n] = f[n + 1] - s[k].size
          /\ g[n - 1] = IF n = k THEN f[n - 1] ELSE f[n] - s[k].size
          /\ r[n] = s[n + 1]
      BY <1>1, <3>1
    <3>3. f[n + 1] = f[n] + s[n + 1].size /\ f[n] = f[n - 1] + s[n].size
      BY <1>4, <2>3, <3>1
    <3>4. /\ f[n] \in Nat /\ f[n - 1] \in Nat /\ f[n + 1] \in Nat
          /\ s[k].size \in Nat /\ s[n].size \in Nat /\ s[n + 1].size \in Nat
      BY <1>1, <1>3, <3>1
    <3>5. CASE n = k
      <4>1. f[n + 1] - s[k].size = f[n - 1] + s[n + 1].size
        BY <3>3, <3>4, <3>5
      <4>2. QED
        BY <2>3, <3>2, <3>5, <4>1
    <3>6. CASE n # k
      <4>1. f[n + 1] - s[k].size = (f[n] - s[k].size) + s[n + 1].size
        BY <3>3, <3>4
      <4>2. QED
        BY <2>3, <3>2, <3>6, <4>1
    <3>7. QED
      BY <3>5, <3>6
  <2>4. QED
    BY <1>1, <2>1, <2>2, <2>3
<1>6. Sums(g, r)
  BY <1>1, <1>5 DEF Sums
<1>7. g[len - 1] = f[len] - s[k].size
  <2>1. /\ len - 1 \in 0 .. len - 1 /\ len - 1 + 1 = len
        /\ (len - 1 < k <=> k = len) /\ len \in 0 .. len /\ len # 0
        /\ len - 1 \in 0 .. len
    BY <1>1
  <2>2. f[len] = f[len - 1] + s[len].size /\ f[len - 1] \in Nat
    BY <1>3, <1>4, <2>1
  <2>3. CASE k = len
    BY <1>1, <2>1, <2>2, <2>3
  <2>4. CASE k # len
    BY <2>1, <2>4
  <2>5. QED
    BY <2>3, <2>4
<1> HIDE DEF g
<1>8. Cache!SizeOf(r) = g[len - 1] /\ Cache!SizeOf(s) = f[len]
  BY <1>1, <1>2, <1>6, SizeOfIs DEF len
<1>9. QED
  BY <1>7, <1>8

-----------------------------------------------------------------------------
(* The size of the cache, and the theorem about its lists.                   *)

\* The entries of the nodes of a sequence, in a given memory.
Held(memory, order) == [i \in DOMAIN order |-> memory[order[i]]]

LEMMA ContentsAreHeld ==
    /\ Contents(AgeOrder) = Held(store, AgeOrder)
    /\ Contents(UseOrder) = Held(store, UseOrder)
BY DEF Contents, Held

LEMMA HeldSized ==
    ASSUME NEW memory, NEW a, NEW S \in SUBSET Nodes, Orders(a, S),
           \A n \in S : memory[n] \in Entries
    PROVE  /\ Sized(Held(memory, a))
           /\ Held(memory, a) \in Seq(Entries)
           /\ Len(Held(memory, a)) = Len(a)
           /\ DOMAIN Held(memory, a) = DOMAIN a
           /\ \A i \in DOMAIN a : Held(memory, a)[i] = memory[a[i]]
<1> DEFINE h == Held(memory, a)
<1>1. a \in Seq(Nodes) /\ Len(a) \in Nat /\ DOMAIN a = 1 .. Len(a)
  BY DEF Orders
<1>2. \A i \in DOMAIN a : memory[a[i]] \in Entries
  BY DEF Orders, Members
<1>3. DOMAIN h = 1 .. Len(a) /\ \A i \in DOMAIN a : h[i] = memory[a[i]]
  BY <1>1 DEF Held
<1>4. h \in [1 .. Len(a) -> Entries]
  BY <1>1, <1>2 DEF Held
<1>5. h \in Seq(Entries) /\ Len(h) = Len(a)
  BY <1>1, <1>4
<1>6. \A e \in Entries : e.size \in Nat
  BY SizesAssumption DEF Entries
<1>7. Sized(h)
  BY <1>1, <1>2, <1>3, <1>5, <1>6 DEF Sized
<1>8. QED
  BY <1>1, <1>3, <1>5, <1>7

LEMMA HeldShorter ==
    ASSUME NEW memory, NEW a, NEW S \in SUBSET Nodes, Orders(a, S),
           \A n \in S : memory[n] \in Entries, NEW k \in DOMAIN a
    PROVE  Shortens(Held(memory, Without(a, k)), Held(memory, a), k)
<1> DEFINE b == Without(a, k)
<1>1. a \in Seq(Nodes)
  BY DEF Orders
<1>2. Shortens(b, a, k) /\ b \in Seq(Nodes)
  BY <1>1, WithoutKeeps
<1>3. /\ Len(Held(memory, a)) = Len(a) /\ DOMAIN Held(memory, a) = DOMAIN a
      /\ \A i \in DOMAIN a : Held(memory, a)[i] = memory[a[i]]
  BY HeldSized
<1> HIDE DEF b
<1>4. /\ Len(Held(memory, b)) = Len(b) /\ DOMAIN Held(memory, b) = DOMAIN b
      /\ \A i \in DOMAIN b : Held(memory, b)[i] = memory[b[i]]
  <2>1. DOMAIN b = 1 .. Len(b) /\ Len(b) \in Nat
    BY <1>2
  <2>2. DOMAIN Held(memory, b) = 1 .. Len(b)
    BY <2>1 DEF Held
  <2>3. \A i \in DOMAIN b : Held(memory, b)[i] = memory[b[i]]
    BY DEF Held
  <2>4. Len(Held(memory, b)) = Len(b)
    BY <2>1, <2>2 DEF Held
  <2>5. QED
    BY <2>1, <2>2, <2>3, <2>4
<1>5. \A i \in DOMAIN b : i < k => i \in DOMAIN a
  BY <1>2 DEF Shortens
<1>6. \A i \in DOMAIN b : ~(i < k) => i + 1 \in DOMAIN a
  BY <1>2 DEF Shortens
<1>7. \A i \in DOMAIN b : memory[b[i]] =
            IF i < k THEN memory[a[i]] ELSE memory[a[i + 1]]
  BY <1>2 DEF Shortens
<1>8. QED
  BY <1>2, <1>3, <1>4, <1>5, <1>6, <1>7 DEF Shortens, b

\* A sequence that a new node is put in front of, and what it holds.
LEMMA HeldMore ==
    ASSUME NEW memory, NEW a, NEW S \in SUBSET Nodes, Orders(a, S),
           NEW n \in Nodes \ S, NEW memory2, memory2[n] \in Entries,
           \A m \in S : memory2[m] = memory[m] /\ memory[m] \in Entries
    PROVE  Held(memory2, <<n>> \o a) = <<memory2[n]>> \o Held(memory, a)
<1> DEFINE h == Held(memory, a)
           e == memory2[n]
<1>1. /\ a \in Seq(Nodes) /\ Len(a) \in Nat /\ DOMAIN a = 1 .. Len(a)
      /\ \A i \in 1 .. Len(a) : memory2[a[i]] = memory[a[i]]
  BY DEF Orders, Members
<1>2. /\ h \in Seq(Entries) /\ Len(h) = Len(a)
      /\ \A i \in 1 .. Len(a) : h[i] = memory[a[i]]
  BY <1>1, HeldSized
<1> HIDE DEF h
<1> DEFINE b == <<n>> \o a
<1>3. /\ DOMAIN b = 1 .. Len(a) + 1
      /\ \A i \in 1 .. Len(a) + 1 : b[i] = IF i = 1 THEN n ELSE a[i - 1]
  BY <1>1
<1>4. <<e>> \o h = [i \in 1 .. Len(a) + 1 |-> IF i = 1 THEN e ELSE h[i - 1]]
  BY <1>1, <1>2
<1>5. \A i \in 1 .. Len(a) + 1 : i # 1 => i - 1 \in 1 .. Len(a)
  BY <1>1
<1> HIDE DEF b
<1>6. Held(memory2, b) = [i \in 1 .. Len(a) + 1 |-> memory2[b[i]]]
  BY <1>3 DEF Held
<1>7. \A i \in 1 .. Len(a) + 1 :
            memory2[b[i]] = IF i = 1 THEN e ELSE h[i - 1]
  BY <1>1, <1>2, <1>3, <1>5
<1>8. QED
  BY <1>4, <1>6, <1>7 DEF b, h

Extended(s, e) == Append(s, e)

\* A sequence that a new node is appended to, and what it holds.
LEMMA HeldAppended ==
    ASSUME NEW memory, NEW a, NEW S \in SUBSET Nodes, Orders(a, S),
           NEW n \in Nodes \ S, NEW memory2, memory2[n] \in Entries,
           \A m \in S : memory2[m] = memory[m] /\ memory[m] \in Entries
    PROVE  Held(memory2, Extended(a, n))
                = Extended(Held(memory, a), memory2[n])
<1> DEFINE h == Held(memory, a)
           e == memory2[n]
           c == Append(a, n)
<1>1. /\ a \in Seq(Nodes) /\ Len(a) \in Nat /\ DOMAIN a = 1 .. Len(a)
      /\ \A i \in 1 .. Len(a) : memory2[a[i]] = memory[a[i]]
  BY DEF Orders, Members
<1>2. /\ h \in Seq(Entries) /\ Len(h) = Len(a)
      /\ \A i \in 1 .. Len(a) : h[i] = memory[a[i]]
  BY <1>1, HeldSized
<1> HIDE DEF h
<1>3. /\ DOMAIN c = 1 .. Len(a) + 1
      /\ \A i \in 1 .. Len(a) + 1 : c[i] = IF i = Len(a) + 1 THEN n ELSE a[i]
  BY <1>1
<1>4. Append(h, e) = [i \in 1 .. Len(a) + 1 |->
                        IF i = Len(a) + 1 THEN e ELSE h[i]]
  BY <1>1, <1>2
<1>5. \A i \in 1 .. Len(a) + 1 : i # Len(a) + 1 => i \in 1 .. Len(a)
  BY <1>1
<1> HIDE DEF c
<1>6. Held(memory2, c) = [i \in 1 .. Len(a) + 1 |-> memory2[c[i]]]
  BY <1>3 DEF Held
<1>7. \A i \in 1 .. Len(a) + 1 :
            memory2[c[i]] = IF i = Len(a) + 1 THEN e ELSE h[i]
  BY <1>1, <1>2, <1>3, <1>5
<1>8. QED
  BY <1>4, <1>6, <1>7 DEF c, h, Extended

SizeInv ==
    /\ total_size = Cache!SizeOf(Contents(AgeOrder))
    /\ total_size <= MaxCacheSize

\* Initially both lists are empty.
LEMMA OrderInvInit == Init => OrderInv /\ SizeInv /\ AgeOrder = <<>>
                                       /\ UseOrder = <<>>
<1> SUFFICES ASSUME Init
             PROVE  OrderInv /\ SizeInv /\ AgeOrder = <<>> /\ UseOrder = <<>>
  OBVIOUS
<1>1. /\ Chain(list.head, list.next, list.prev, <<>>)
      /\ Chain(lru.head, lru.next, lru.prev, <<>>)
      /\ lru.tail = Null
  BY DEF Init, Chain, BackLinked
<1>2. PICK l : l = list
  OBVIOUS
<1>3. PICK r : r = lru
  OBVIOUS
<1>4. Walk(l.head, l.next) = <<>> /\ Walk(r.head, r.next) = <<>>
  BY <1>1, <1>2, <1>3, WalkIs
<1>5. AgeOrder = <<>> /\ TouchOrder = <<>>
  BY <1>2, <1>3, <1>4 DEF AgeOrder, TouchOrder
<1>6. Allocated = {} /\ BeingTouched = {}
  BY DEF Init, Allocated, BeingTouched
<1>7. Members(<<>>) = {}
  BY DEF Members
<1>8. OrderInv
  BY <1>1, <1>5, <1>6, <1>7 DEF OrderInv, LastNode
<1>9. UseOrder = <<>>
  BY <1>5, <1>6, UseOrderIs
<1>10. Cache!SizeOf(Contents(AgeOrder)) = 0
  <2>1. Len(Contents(<<>>)) = 0
    BY DEF Contents
  <2>2. QED
    BY <1>5, <2>1, SizeOfNone
<1>11. SizeInv
  BY <1>10, SizesAssumption DEF Init, SizeInv
<1>12. QED
  BY <1>5, <1>8, <1>9, <1>11

LEMMA SizeInvNext ==
    ASSUME LockInv, NodeInv, OrderInv, CallInv, SizeInv, [Next]_vars
    PROVE  SizeInv'
<1>1. Orders(AgeOrder, Allocated) /\ Orders(UseOrder, Allocated)
  BY BothOrders
<1>2. /\ \A n \in Allocated : store[n] \in Entries
      /\ Allocated \in SUBSET Nodes
  BY DEF CallInv, EntriesStored, Allocated
<1>3. PICK a : a = AgeOrder
  OBVIOUS
<1>4. Held(store, a) = Contents(AgeOrder) /\ Sized(Held(store, a))
  BY <1>1, <1>2, <1>3, ContentsAreHeld, HeldSized
<1>5. Contents(AgeOrder)' = Held(store', AgeOrder')
  BY DEF Contents, Held
<1>6. MaxCacheSize \in Nat
  BY SizesAssumption
<1>7. CASE NothingMoves
  BY <1>3, <1>4, <1>5, <1>7 DEF NothingMoves, SizeInv
<1>8. ASSUME NEW n, Uses(n) PROVE SizeInv'
  BY <1>3, <1>4, <1>5, <1>8 DEF Uses, SizeInv
<1>9. CASE Evicts
  <2>1. PICK k \in DOMAIN a : /\ a[k] = UseOrder[1]
                              /\ AgeOrder' = Without(a, k)
    BY <1>3, <1>9 DEF Evicts
  <2>2. total_size' = total_size - store[a[k]].size /\ store' = store
    BY <1>9, <2>1 DEF Evicts
  <2>3. PICK h : h = Held(store, a)
    OBVIOUS
  <2>4. PICK r : r = Held(store, Without(a, k))
    OBVIOUS
  <2>5. Shortens(r, h, k)
    BY <1>1, <1>2, <1>3, <2>3, <2>4, HeldShorter
  <2>6. Sized(h) /\ k \in DOMAIN h /\ h[k] = store[a[k]]
    BY <1>1, <1>2, <1>3, <2>3, HeldSized
  <2>7. Cache!SizeOf(r) = Cache!SizeOf(h) - h[k].size
    BY <2>5, <2>6, SizeOfLess
  <2>8. Contents(AgeOrder)' = r
    BY <1>5, <2>1, <2>2, <2>4
  <2>9. h[k].size \in Nat /\ Cache!SizeOf(h) \in Nat
    BY <2>6, SizeIsNumber DEF Sized
  <2>10. total_size = Cache!SizeOf(h) /\ total_size <= MaxCacheSize
    BY <1>4, <2>3 DEF SizeInv
  <2>11. total_size' = Cache!SizeOf(Contents(AgeOrder)')
    BY <2>2, <2>6, <2>7, <2>8, <2>10
  <2>12. total_size' <= MaxCacheSize
    BY <1>6, <2>2, <2>6, <2>9, <2>10
  <2>13. QED
    BY <2>11, <2>12 DEF SizeInv
<1>10. ASSUME NEW t \in Threads, Insert(t), NEW n \in free,
              Inserts(n, body[t])
       PROVE  SizeInv'
  <2>1. body[t] \in Entries /\ ~Overfull(t)
    BY <1>10
       DEF Insert, Goto, CallInv, Calls, WithResponse, Responds
  <2>2. /\ n \in Nodes \ Allocated
        /\ store' = [store EXCEPT ![n] = body[t]]
        /\ AgeOrder' = <<n>> \o a
        /\ total_size' = total_size + body[t].size
    BY <1>3, <1>10 DEF Inserts, Allocated, NodeInv, MemoryTypes
  <2>3. /\ store'[n] = body[t]
        /\ \A m \in Allocated : store'[m] = store[m]
    BY <1>2, <2>2 DEF CallInv, CallTypes
  <2>4. PICK memory : memory = store'
    OBVIOUS
  <2>5. PICK h : h = Held(store, a)
    OBVIOUS
  <2>6. PICK e : e = body[t]
    OBVIOUS
  <2>7. Held(memory, <<n>> \o a) = <<e>> \o h
    <3>1. /\ memory[n] \in Entries /\ memory[n] = e
          /\ \A m \in Allocated : memory[m] = store[m] /\ store[m] \in Entries
      BY <1>2, <2>1, <2>3, <2>4, <2>6
    <3>2. Orders(a, Allocated) /\ n \in Nodes \ Allocated
      BY <1>1, <1>3, <2>2
    <3>3. Held(memory, <<n>> \o a) = <<memory[n]>> \o Held(store, a)
      BY <1>2, <3>1, <3>2, HeldMore
    <3>4. QED
      BY <2>5, <3>1, <3>3
  <2>8. h \in Seq(Entries) /\ e \in Entries /\ Sized(h)
    BY <1>1, <1>2, <1>3, <2>1, <2>5, <2>6, HeldSized
  <2>9. PICK r : r = <<e>> \o h
    OBVIOUS
  <2>10. \A d \in Entries : d.size \in Nat
    BY SizesAssumption DEF Entries
  <2>11. /\ r \in Seq(Entries) /\ Len(r) = Len(h) + 1 /\ r[1] = e
         /\ \A i \in DOMAIN h : r[i + 1] = h[i]
    BY <2>8, <2>9
  <2>12. Sized(r)
    BY <2>10, <2>11 DEF Sized
  <2>13. Cache!SizeOf(r) = Cache!SizeOf(h) + e.size
    BY <2>8, <2>11, <2>12, SizeOfMore
  <2>14. Contents(AgeOrder)' = r
    BY <1>5, <2>2, <2>4, <2>7, <2>9
  <2>15. total_size = Cache!SizeOf(h)
    BY <1>4, <2>5 DEF SizeInv
  <2>16. total_size' = Cache!SizeOf(Contents(AgeOrder)')
    BY <2>2, <2>6, <2>13, <2>14, <2>15
  <2>17. total_size' <= MaxCacheSize
    <3>1. Cache!SizeOf(h) \in Nat /\ e.size \in Nat
      BY <2>8, <2>10, SizeIsNumber
    <3>2. ~(total_size + e.size > MaxCacheSize)
      BY <2>1, <2>6 DEF Overfull
    <3>3. QED
      BY <1>6, <2>2, <2>6, <2>15, <3>1, <3>2
  <2>18. QED
    BY <2>16, <2>17 DEF SizeInv
<1>11. QED
  BY <1>7, <1>8, <1>9, <1>10, OrderStep

ListsInv == LockInv /\ NodeInv /\ OrderInv /\ CallInv /\ SizeInv

LEMMA ListsInvHolds == Spec => []ListsInv
<1>1. Init => ListsInv
  BY LockInvInit, NodeInvInit, OrderInvInit, CallInvInit DEF ListsInv
<1>2. ListsInv /\ [Next]_vars => ListsInv'
  BY LockInvNext, NodeInvNext, OrderStep, CallInvNext, SizeInvNext
     DEF ListsInv
<1>3. QED
  BY <1>1, <1>2, PTL DEF Spec

LEMMA RoomIsFound ==
    ASSUME ListsInv, NEW t \in Threads, pc[t] = "add_room", Overfull(t)
    PROVE  lru.head # Null
<1> SUFFICES ASSUME lru.head = Null PROVE FALSE
  OBVIOUS
<1>1. BeingTouched = {}
  BY NoneTouched DEF Writing, ListsInv
<1>2. PICK a : a = AgeOrder
  OBVIOUS
<1>3. PICK b : b = TouchOrder
  OBVIOUS
<1>4. /\ Chain(lru.head, lru.next, lru.prev, b) /\ Members(b) = Allocated
      /\ Members(a) = Allocated /\ a \in Seq(Nodes)
  BY <1>1, <1>2, <1>3 DEF ListsInv, OrderInv, Chain
<1>5. b = <<>>
  <2>1. b # <<>> => b[1] \in Nodes
    BY <1>4 DEF Chain
  <2>2. QED
    BY <1>4, <2>1, NullAssumption DEF Chain
<1>6. Members(a) = {}
  <2>1. Members(<<>>) = {}
    BY DEF Members
  <2>2. QED
    BY <1>4, <1>5, <2>1
<1>7. Len(a) = 0
  <2>1. Len(a) \in Nat /\ DOMAIN a = 1 .. Len(a)
    BY <1>4
  <2>2. Len(a) # 0 => 1 \in DOMAIN a
    BY <2>1
  <2>3. QED
    BY <1>6, <2>1, <2>2 DEF Members
<1>8. total_size = 0
  <2>1. Len(Held(store, a)) = 0
    <3>1. DOMAIN Held(store, a) = 1 .. 0
      BY <1>4, <1>7 DEF Held
    <3>2. QED
      BY <3>1 DEF Held
  <2>2. Cache!SizeOf(Held(store, a)) = 0
    BY <2>1, SizeOfNone
  <2>3. QED
    BY <1>2, <2>2, ContentsAreHeld DEF ListsInv, SizeInv
<1>9. body[t].size \in Nat /\ body[t].size <= MaxObjectSize
  BY SizesAssumption
     DEF ListsInv, CallInv, Calls, WithResponse, Responds, Entries
<1>10. QED
  BY <1>8, <1>9, SizesAssumption DEF Overfull

\* cache.c: whatever the threads do, every stored entry is once in each list,
\* the lists can be walked both ways and end at the tail, and total_size is
\* the sum of the sizes and within the bound.
THEOREM ListsAlwaysAgree == Spec => []ListsAgree
<1>1. ListsInv => ListsAgree
  <2> SUFFICES ASSUME ListsInv PROVE ListsAgree
    OBVIOUS
  <2>1. Orders(AgeOrder, Allocated) /\ Orders(UseOrder, Allocated)
    BY BothOrders DEF ListsInv
  <2>2. /\ Len(AgeOrder) = Cardinality(Allocated)
        /\ Len(UseOrder) = Cardinality(Allocated)
    <3>1. PICK a : a = AgeOrder
      OBVIOUS
    <3>2. PICK b : b = UseOrder
      OBVIOUS
    <3>3. Cardinality(Members(a)) = Len(a) /\ Cardinality(Members(b)) = Len(b)
      BY <2>1, <3>1, <3>2, OrderFits DEF Orders
    <3>4. QED
      BY <2>1, <3>1, <3>2, <3>3 DEF Orders
  <2>3. BackLinked(AgeOrder, list.prev)
    BY DEF ListsInv, OrderInv, Chain
  <2>4. LET order == Walk(lru.head, lru.next) IN
            /\ BackLinked(order, lru.prev)
            /\ lru.tail = IF order = <<>> THEN Null ELSE order[Len(order)]
    BY DEF ListsInv, OrderInv, Chain, TouchOrder, LastNode
  <2>5. \A t \in Threads : pc[t] = "add_room" /\ Overfull(t) => lru.head # Null
    BY RoomIsFound
  <2>6. /\ total_size <= MaxCacheSize
        /\ total_size = Cache!SizeOf(Contents(AgeOrder))
    BY DEF ListsInv, SizeInv
  <2>7. QED
    BY <2>1, <2>2, <2>3, <2>4, <2>5, <2>6 DEF ListsAgree, Orders
<1>2. QED
  BY <1>1, ListsInvHolds, PTL

-----------------------------------------------------------------------------
(* What a lookup knows of the nodes it has passed, and what that says of the *)
(* entries with the same key.                                                *)

\* Node m comes before node n.
Before(order, m, n) ==
    \E k, l \in DOMAIN order : k < l /\ order[k] = m /\ order[l] = n

PassedOver(t) ==
    \A m \in Allocated :
        Before(AgeOrder, m, current[t]) => store[m].key # serving[t].key

\* The nodes a lookup has passed do not have its key; the one it has matched
\* has.
StandsRight(t) ==
    /\ pc[t] = "scan" =>
        /\ PassedOver(t)
        /\ current[t] = Null =>
            \A m \in Allocated : store[m].key # serving[t].key
    /\ pc[t] \in OnAMatch => Matches(t) /\ PassedOver(t)

ScanInv == \A t \in Threads : StandsRight(t)

\* Of two entries with one key the older is the less recently used.
DuplicateInv ==
    \A m, n \in Allocated :
        Before(AgeOrder, m, n) /\ store[m].key = store[n].key =>
            Before(UseOrder, n, m)

\* Thread t changes nothing that is another thread's.
OnlyOwn(t) ==
    \A u \in Threads \ {t} :
        /\ pc'[u] = pc[u] /\ current'[u] = current[u]
        /\ serving'[u] = serving[u] /\ answer'[u] = answer[u]
        /\ body'[u] = body[u]

LEMMA StepsAreOwn ==
    ASSUME LockInv, NodeInv, CallInv, NEW t \in Threads,
           Request(t) \/ Serve(t)
    PROVE  OnlyOwn(t)
<1>1. /\ pc \in [Threads -> Labels] /\ current \in [Threads -> Pointers]
      /\ serving \in [Threads -> Requests \cup {NoRequest}]
      /\ answer \in [Threads -> Entries \cup {NoEntry}]
      /\ body \in [Threads -> Entries \cup {NoEntry}]
  BY DEF LockInv, LockTypes, NodeInv, MemoryTypes, CallInv, CallTypes
<1> USE DEF OnlyOwn, Goto, callVars
<1>2. Request(t) => OnlyOwn(t)
  BY <1>1 DEF Request
<1>3. Fetch(t) \/ FetchFails(t) => OnlyOwn(t)
  BY <1>1 DEF Fetch, FetchFails
<1>4. EnterWait(t) \/ EnterCount(t) \/ EnterFirst(t) \/ EnterUnlock(t)
         => OnlyOwn(t)
  BY <1>1 DEF EnterWait, EnterCount, EnterFirst, EnterUnlock
<1>5. LeaveWait(t) \/ LeaveCount(t) \/ LeaveLast(t) \/ LeaveUnlock(t)
         => OnlyOwn(t)
  BY <1>1 DEF LeaveWait, LeaveCount, LeaveLast, LeaveUnlock
<1>6. ScanHead(t) \/ ScanNext(t) => OnlyOwn(t)
  BY <1>1 DEF ScanHead, ScanNext
<1>7. ScanEnd(t) \/ ScanHit(t) \/ TouchWait(t) \/ TouchUnlock(t) => OnlyOwn(t)
  BY <1>1 DEF ScanEnd, ScanHit, TouchWait, TouchUnlock
<1>8. TouchRemove(t) \/ TouchAppend(t) \/ Copy(t) => OnlyOwn(t)
  BY <1>1 DEF TouchRemove, TouchAppend, Copy
<1>9. AddWait(t) \/ Evict(t) \/ Insert(t) \/ AddUnlock(t) => OnlyOwn(t)
  BY <1>1 DEF AddWait, Evict, Insert, AddUnlock
<1> HIDE DEF OnlyOwn
<1>10. QED
  BY <1>2, <1>3, <1>4, <1>5, <1>6, <1>7, <1>8, <1>9
     DEF Serve, CacheGet, CacheAdd

\* The node behind a node, and the end of the list.
LEMMA BeforeNext ==
    ASSUME NEW a, NEW S \in SUBSET Nodes, Orders(a, S),
           NEW i \in DOMAIN a, NEW m
    PROVE  /\ i = 1 => ~Before(a, m, a[i])
           /\ i + 1 \in DOMAIN a /\ Before(a, m, a[i + 1]) =>
                Before(a, m, a[i]) \/ m = a[i]
           /\ i = Len(a) /\ m \in S => Before(a, m, a[i]) \/ m = a[i]
<1>1. /\ a \in Seq(Nodes) /\ Len(a) \in Nat /\ DOMAIN a = 1 .. Len(a)
      /\ \A j, k \in DOMAIN a : a[j] = a[k] => j = k
      /\ S = Members(a)
  BY DEF Orders
<1>2. ASSUME i = 1, Before(a, m, a[i]) PROVE FALSE
  <2>1. PICK k \in DOMAIN a, l \in DOMAIN a : k < l /\ a[l] = a[i]
    BY <1>2 DEF Before
  <2>2. l = 1
    BY <1>1, <1>2, <2>1
  <2>3. QED
    BY <1>1, <2>1, <2>2
<1>3. ASSUME i + 1 \in DOMAIN a, Before(a, m, a[i + 1])
      PROVE  Before(a, m, a[i]) \/ m = a[i]
  <2>1. PICK k \in DOMAIN a, l \in DOMAIN a :
            k < l /\ a[k] = m /\ a[l] = a[i + 1]
    BY <1>3 DEF Before
  <2>2. l = i + 1
    BY <1>1, <1>3, <2>1
  <2>3. k < i \/ k = i
    BY <1>1, <2>1, <2>2
  <2>4. QED
    BY <2>1, <2>3 DEF Before
<1>4. ASSUME i = Len(a), m \in S PROVE Before(a, m, a[i]) \/ m = a[i]
  <2>1. PICK k \in DOMAIN a : a[k] = m
    BY <1>1, <1>4 DEF Members
  <2>2. k < i \/ k = i
    BY <1>1, <1>4, <2>1
  <2>3. QED
    BY <2>1, <2>2 DEF Before
<1>5. QED
  BY <1>2, <1>3, <1>4

\* A thread that a step of another one leaves on the list as it was.
LEMMA OthersStand ==
    ASSUME ScanInv, NEW t \in Threads, OnlyOwn(t), AgeOrder' = AgeOrder,
           UNCHANGED <<store, free>>, NEW u \in Threads \ {t}
    PROVE  StandsRight(u)'
<1>1. /\ pc'[u] = pc[u] /\ current'[u] = current[u]
      /\ serving'[u] = serving[u]
  BY DEF OnlyOwn
<1>2. Allocated' = Allocated
  BY DEF Allocated
<1>3. PassedOver(u)' <=> PassedOver(u)
  BY <1>1, <1>2 DEF PassedOver
<1>4. Matches(u)' <=> Matches(u)
  BY <1>1 DEF Matches
<1>5. StandsRight(u)
  BY DEF ScanInv
<1>6. QED
  BY <1>1, <1>2, <1>3, <1>4, <1>5 DEF StandsRight

\* The thread whose lookup goes on where it stands.
LEMMA StandsStill ==
    ASSUME LockInv, NodeInv, CallInv, ScanInv, NEW t \in Threads, NEW to,
           GoesTo(t, to), AgeOrder' = AgeOrder,
           UNCHANGED <<store, free>>,
           current'[t] = current[t], serving'[t] = serving[t],
           to # "scan",
           to \in OnAMatch => /\ pc[t] \in OnAMatch \cup {"scan"}
                              /\ Matches(t)
    PROVE  StandsRight(t)'
<1>1. pc'[t] = to
  BY DEF GoesTo, LockInv, LockTypes
<1>2. Allocated' = Allocated
  BY DEF Allocated
<1>3. PassedOver(t)' <=> PassedOver(t)
  BY <1>2 DEF PassedOver
<1>4. Matches(t)' <=> Matches(t)
  BY DEF Matches
<1>5. StandsRight(t)
  BY DEF ScanInv
<1>6. QED
  BY <1>1, <1>3, <1>4, <1>5 DEF StandsRight

LEMMA ScanHeadStands ==
    ASSUME ListsInv, NEW t \in Threads, ScanHead(t) PROVE StandsRight(t)'
<1>1. /\ pc'[t] = "scan"
      /\ current'[t] = list.head
      /\ UNCHANGED <<dataVars, serving>>
  BY DEF ScanHead, ListsInv, LockInv, LockTypes, NodeInv, MemoryTypes, Goto
<1>2. PICK a : a = AgeOrder
  OBVIOUS
<1>3. Orders(a, Allocated) /\ Allocated \in SUBSET Nodes
  BY <1>2, BothOrders DEF ListsInv, Allocated
<1>4. list.head = IF a = <<>> THEN Null ELSE a[1]
  BY <1>2 DEF ListsInv, OrderInv, Chain
<1>5. AgeOrder' = a /\ Allocated' = Allocated /\ store' = store
  BY <1>1, <1>2 DEF dataVars, AgeOrder, Allocated
<1>6. CASE a = <<>>
  <2>1. Members(<<>>) = {}
    BY DEF Members
  <2>2. Allocated = {}
    BY <1>3, <1>6, <2>1 DEF Orders
  <2>3. QED
    BY <1>1, <1>5, <2>2 DEF StandsRight, PassedOver, OnAMatch
<1>7. CASE a # <<>>
  <2>1. 1 \in DOMAIN a
    <3>1. a \in Seq(Nodes)
      BY <1>3 DEF Orders
    <3>2. QED
      BY <1>7, <3>1
  <2>2. \A m : ~Before(a, m, a[1])
    BY <1>3, <2>1, BeforeNext
  <2>3. a[1] \in Nodes
    BY <1>3, <2>1 DEF Orders
  <2>4. current'[t] = a[1] /\ current'[t] # Null
    BY <1>1, <1>4, <1>7, <2>3, NullAssumption
  <2>5. QED
    BY <1>1, <1>5, <2>2, <2>4 DEF StandsRight, PassedOver, OnAMatch
<1>8. QED
  BY <1>6, <1>7

LEMMA ScanNextStands ==
    ASSUME ListsInv, ScanInv, NEW t \in Threads, ScanNext(t)
    PROVE  StandsRight(t)'
<1>1. /\ pc[t] = "scan" /\ pc' = pc
      /\ current[t] # Null
      /\ store[current[t]].key # serving[t].key
      /\ current'[t] = list.next[current[t]]
      /\ UNCHANGED <<dataVars, serving>>
  BY DEF ScanNext, Matches, ListsInv, NodeInv, MemoryTypes
<1>2. PICK a : a = AgeOrder
  OBVIOUS
<1>3. /\ Orders(a, Allocated) /\ Allocated \in SUBSET Nodes
      /\ a \in Seq(Nodes) /\ Len(a) \in Nat /\ DOMAIN a = 1 .. Len(a)
  BY <1>2, BothOrders DEF ListsInv, Allocated, Orders
<1>4. current[t] \in Allocated
  BY <1>1 DEF ListsInv, NodeInv, Standing
<1>5. PICK i \in DOMAIN a : a[i] = current[t]
  BY <1>3, <1>4 DEF Orders, Members
<1>6. list.next[a[i]] = IF i = Len(a) THEN Null ELSE a[i + 1]
  BY <1>2, <1>5 DEF ListsInv, OrderInv, Chain
<1>7. AgeOrder' = a /\ Allocated' = Allocated /\ store' = store
  BY <1>1, <1>2 DEF dataVars, AgeOrder, Allocated
<1>8. \A m \in Allocated :
        Before(a, m, a[i]) \/ m = a[i] => store[m].key # serving[t].key
  BY <1>1, <1>2, <1>5 DEF ScanInv, StandsRight, PassedOver
<1>9. CASE i = Len(a)
  <2>1. current'[t] = Null
    BY <1>1, <1>5, <1>6, <1>9
  <2>2. \A m \in Allocated : store[m].key # serving[t].key
    BY <1>3, <1>5, <1>8, <1>9, BeforeNext
  <2>3. QED
    BY <1>1, <1>7, <2>1, <2>2 DEF StandsRight, PassedOver, OnAMatch
<1>10. CASE i # Len(a)
  <2>1. i + 1 \in DOMAIN a /\ current'[t] = a[i + 1]
    BY <1>1, <1>3, <1>5, <1>6, <1>10
  <2>2. \A m \in Allocated :
            Before(a, m, a[i + 1]) => store[m].key # serving[t].key
    BY <1>3, <1>5, <1>8, <2>1, BeforeNext
  <2>3. a[i + 1] \in Nodes /\ current'[t] # Null
    BY <1>3, <2>1, NullAssumption
  <2>4. QED
    BY <1>1, <1>7, <2>1, <2>2, <2>3 DEF StandsRight, PassedOver, OnAMatch
<1>11. QED
  BY <1>9, <1>10

\* While an entry is evicted or inserted nobody stands on the list.
LEMMA NobodyStands ==
    ASSUME LockInv, NEW t \in Threads, Evict(t) \/ Insert(t) PROVE ScanInv'
<1>1. /\ pc[t] \in Writing
      /\ \A u \in Threads :
            pc'[u] = IF u = t /\ Insert(t) THEN "add_unlock" ELSE pc[u]
  BY DEF Evict, Insert, Goto, Writing, LockInv, LockTypes
<1>2. \A u \in Threads : pc'[u] \notin OnAMatch \cup {"scan"}
  BY <1>1, NoneStanding DEF OnAMatch
<1>3. QED
  BY <1>2 DEF ScanInv, StandsRight

LEMMA ScanInvInit == Init => ScanInv
BY DEF Init, ScanInv, StandsRight, OnAMatch

LEMMA ScanInvNext ==
    ASSUME ListsInv, ScanInv, [Next]_vars PROVE ScanInv'
<1>1. CASE UNCHANGED vars
  <2>1. /\ AgeOrder' = AgeOrder /\ Allocated' = Allocated
        /\ UNCHANGED <<store, pc, current, serving>>
    BY <1>1 DEF vars, dataVars, callVars, AgeOrder, Allocated
  <2>2. \A t \in Threads : /\ PassedOver(t)' <=> PassedOver(t)
                           /\ Matches(t)' <=> Matches(t)
    BY <2>1 DEF PassedOver, Matches
  <2>3. QED
    BY <2>1, <2>2 DEF ScanInv, StandsRight
<1>2. ASSUME NEW t \in Threads, Request(t) \/ Serve(t), ~Evict(t), ~Insert(t)
      PROVE  ScanInv'
  <2>1. AgeOrder' = AgeOrder /\ UNCHANGED <<store, free>>
    <3>1. AgeOrder' = AgeOrder
      BY <1>2
         DEF AgeOrder, Serve, CacheGet, CacheAdd, dataVars, Request, Fetch,
             FetchFails, EnterWait, EnterCount, EnterFirst, EnterUnlock,
             ScanHead, ScanNext, ScanEnd, ScanHit, TouchWait, TouchRemove,
             TouchAppend, TouchUnlock, Copy, LeaveWait, LeaveCount, LeaveLast,
             LeaveUnlock, AddWait, AddUnlock
    <3>2. UNCHANGED <<store, free>>
      BY <1>2
         DEF Serve, CacheGet, CacheAdd, dataVars, Request, Fetch,
             FetchFails, EnterWait, EnterCount, EnterFirst, EnterUnlock,
             ScanHead, ScanNext, ScanEnd, ScanHit, TouchWait, TouchRemove,
             TouchAppend, TouchUnlock, Copy, LeaveWait, LeaveCount, LeaveLast,
             LeaveUnlock, AddWait, AddUnlock
    <3>3. QED
      BY <3>1, <3>2
  <2>2. \A u \in Threads \ {t} : StandsRight(u)'
    BY <1>2, <2>1, StepsAreOwn, OthersStand DEF ListsInv
  <2>3. StandsRight(t)'
    <3>1. CASE ScanHead(t)
      BY <3>1, ScanHeadStands
    <3>2. CASE ScanNext(t)
      BY <3>2, ScanNextStands
    <3>3. ASSUME NEW to, GoesTo(t, to), UNCHANGED <<current, serving>>,
                 to # "scan",
                 to \in OnAMatch => /\ pc[t] \in OnAMatch \cup {"scan"}
                                    /\ Matches(t)
          PROVE  StandsRight(t)'
      BY <2>1, <3>3, StandsStill DEF ListsInv
    <3>4. pc[t] \in OnAMatch => Matches(t)
      BY DEF ScanInv, StandsRight
    <3> USE DEF Goto, GoesTo, callVars, OnAMatch
    <3>5. CASE Request(t)
      <4>1. pc'[t] = "get_wait"
        BY <3>5 DEF Request, ListsInv, LockInv, LockTypes
      <4>2. QED
        BY <4>1 DEF StandsRight
    <3>6. CASE Fetch(t) \/ FetchFails(t)
      BY <3>3, <3>6 DEF Fetch, FetchFails
    <3>7. CASE EnterWait(t) \/ EnterCount(t) \/ EnterFirst(t) \/ EnterUnlock(t)
      BY <3>3, <3>7 DEF EnterWait, EnterCount, EnterFirst, EnterUnlock
    <3>8. CASE LeaveWait(t) \/ LeaveCount(t) \/ LeaveLast(t) \/ LeaveUnlock(t)
      BY <3>3, <3>8 DEF LeaveWait, LeaveCount, LeaveLast, LeaveUnlock
    <3>9. CASE ScanEnd(t) \/ ScanHit(t)
      BY <3>3, <3>9 DEF ScanEnd, ScanHit
    <3>10. CASE TouchWait(t) \/ TouchRemove(t) \/ TouchAppend(t)
      BY <3>3, <3>4, <3>10 DEF TouchWait, TouchRemove, TouchAppend
    <3>11. CASE TouchUnlock(t) \/ Copy(t)
      BY <3>3, <3>4, <3>11 DEF TouchUnlock, Copy
    <3>12. CASE AddWait(t) \/ AddUnlock(t)
      BY <3>3, <3>12 DEF AddWait, AddUnlock
    <3> HIDE DEF Goto, GoesTo, callVars, OnAMatch
    <3>13. QED
      BY <1>2, <3>1, <3>2, <3>5, <3>6, <3>7, <3>8, <3>9, <3>10, <3>11, <3>12
         DEF Serve, CacheGet, CacheAdd
  <2>4. QED
    BY <2>2, <2>3 DEF ScanInv
<1>3. ASSUME NEW t \in Threads, Evict(t) \/ Insert(t) PROVE ScanInv'
  BY <1>3, NobodyStands DEF ListsInv
<1>4. QED
  BY <1>1, <1>2, <1>3 DEF Next

-----------------------------------------------------------------------------
\* How the order of two nodes changes.
LEMMA BeforeWithout ==
    ASSUME NEW a, NEW S \in SUBSET Nodes, Orders(a, S), NEW k \in DOMAIN a,
           NEW m, NEW n
    PROVE  Before(Without(a, k), m, n) <=>
                Before(a, m, n) /\ m # a[k] /\ n # a[k]
<1>1. /\ a \in Seq(Nodes) /\ Len(a) \in Nat /\ DOMAIN a = 1 .. Len(a)
      /\ \A i, j \in DOMAIN a : a[i] = a[j] => i = j
  BY DEF Orders
<1>2. PICK b : b = Without(a, k)
  OBVIOUS
<1>3. /\ DOMAIN b = 1 .. Len(a) - 1
      /\ \A i \in DOMAIN b : b[i] = IF i < k THEN a[i] ELSE a[i + 1]
      /\ \A i \in DOMAIN a : i < k => i \in DOMAIN b /\ b[i] = a[i]
      /\ \A i \in DOMAIN a : i > k => i - 1 \in DOMAIN b /\ b[i - 1] = a[i]
  <2>1. Shortens(b, a, k)
    BY <1>1, <1>2, WithoutKeeps
  <2>2. QED
    BY <1>1, <2>1 DEF Shortens
<1>4. ASSUME Before(b, m, n) PROVE Before(a, m, n) /\ m # a[k] /\ n # a[k]
  <2>1. PICK i \in DOMAIN b, j \in DOMAIN b : i < j /\ b[i] = m /\ b[j] = n
    BY <1>4 DEF Before
  <2>2. PICK p \in DOMAIN a : p = IF i < k THEN i ELSE i + 1
    BY <1>1, <1>3
  <2>3. PICK q \in DOMAIN a : q = IF j < k THEN j ELSE j + 1
    BY <1>1, <1>3
  <2>4. /\ i \in Nat /\ j \in Nat /\ k \in Nat
    BY <1>1, <1>3
  <2>5. p < q /\ p # k /\ q # k
    BY <2>1, <2>2, <2>3, <2>4
  <2>6. a[p] = m /\ a[q] = n
    BY <1>3, <2>1, <2>2, <2>3
  <2>7. QED
    BY <1>1, <2>5, <2>6 DEF Before
<1>5. ASSUME Before(a, m, n), m # a[k], n # a[k] PROVE Before(b, m, n)
  <2>1. PICK p \in DOMAIN a, q \in DOMAIN a : p < q /\ a[p] = m /\ a[q] = n
    BY <1>5 DEF Before
  <2>2. p # k /\ q # k /\ p \in Nat /\ q \in Nat /\ k \in Nat
    BY <1>1, <1>5, <2>1
  <2>3. PICK i \in DOMAIN b : b[i] = m /\ i = IF p < k THEN p ELSE p - 1
    <3>1. p < k \/ p > k
      BY <2>2
    <3>2. QED
      BY <1>3, <2>1, <2>2, <3>1
  <2>4. PICK j \in DOMAIN b : b[j] = n /\ j = IF q < k THEN q ELSE q - 1
    <3>1. q < k \/ q > k
      BY <2>2
    <3>2. QED
      BY <1>3, <2>1, <2>2, <3>1
  <2>5. i < j
    BY <2>1, <2>2, <2>3, <2>4
  <2>6. QED
    BY <2>3, <2>4, <2>5 DEF Before
<1>6. QED
  BY <1>2, <1>4, <1>5

LEMMA BeforeMore ==
    ASSUME NEW a, NEW S \in SUBSET Nodes, Orders(a, S), NEW x \in Nodes,
           NEW m, NEW n
    PROVE  /\ Before(a, m, n) => Before(Append(a, x), m, n)
           /\ m \in S => Before(Append(a, x), m, x)
           /\ Before(<<x>> \o a, m, n) => Before(a, m, n) \/ (m = x /\ n \in S)
<1>1. /\ a \in Seq(Nodes) /\ Len(a) \in Nat /\ DOMAIN a = 1 .. Len(a)
      /\ S = Members(a)
  BY DEF Orders
<1>2. PICK b : b = Append(a, x)
  OBVIOUS
<1>3. /\ DOMAIN b = 1 .. Len(a) + 1 /\ b[Len(a) + 1] = x
      /\ \A i \in 1 .. Len(a) : b[i] = a[i]
  BY <1>1, <1>2
<1>4. Before(a, m, n) => Before(b, m, n)
  BY <1>1, <1>3 DEF Before
<1>5. ASSUME m \in S PROVE Before(b, m, x)
  <2>1. PICK i \in DOMAIN a : a[i] = m
    BY <1>1, <1>5 DEF Members
  <2>2. i \in DOMAIN b /\ Len(a) + 1 \in DOMAIN b /\ i < Len(a) + 1
    BY <1>1, <1>3
  <2>3. QED
    BY <1>1, <1>3, <2>1, <2>2 DEF Before
<1>6. PICK c : c = <<x>> \o a
  OBVIOUS
<1>7. /\ DOMAIN c = 1 .. Len(a) + 1 /\ c[1] = x
      /\ \A i \in DOMAIN c : i # 1 => i - 1 \in DOMAIN a /\ c[i] = a[i - 1]
  BY <1>1, <1>6
<1>8. ASSUME Before(c, m, n) PROVE Before(a, m, n) \/ (m = x /\ n \in S)
  <2>1. PICK i \in DOMAIN c, j \in DOMAIN c : i < j /\ c[i] = m /\ c[j] = n
    BY <1>8 DEF Before
  <2>2. j # 1 /\ i \in Nat /\ j \in Nat
    BY <1>1, <1>7, <2>1
  <2>3. CASE i = 1
    BY <1>1, <1>7, <2>1, <2>2, <2>3 DEF Members
  <2>4. CASE i # 1
    <3>1. /\ i - 1 \in DOMAIN a /\ a[i - 1] = m
          /\ j - 1 \in DOMAIN a /\ a[j - 1] = n /\ i - 1 < j - 1
      BY <1>7, <2>1, <2>2, <2>4
    <3>2. QED
      BY <3>1 DEF Before
  <2>5. QED
    BY <2>3, <2>4
<1>9. QED
  BY <1>2, <1>4, <1>5, <1>6, <1>8

LEMMA DuplicateInvNext ==
    ASSUME ListsInv, ScanInv, DuplicateInv, [Next]_vars PROVE DuplicateInv'
<1>1. PICK a : a = AgeOrder
  OBVIOUS
<1>2. PICK b : b = UseOrder
  OBVIOUS
<1>3. /\ Orders(a, Allocated) /\ Orders(b, Allocated)
      /\ Allocated \in SUBSET Nodes
  BY <1>1, <1>2, BothOrders DEF ListsInv, Allocated
<1>4. \A m, n \in Allocated :
        Before(a, m, n) /\ store[m].key = store[n].key => Before(b, n, m)
  BY <1>1, <1>2 DEF DuplicateInv
<1>5. CASE NothingMoves
  <2>1. Allocated' = Allocated
    BY <1>5 DEF NothingMoves, Allocated
  <2>2. QED
    BY <1>5, <2>1 DEF NothingMoves, DuplicateInv
<1>6. ASSUME NEW t \in Threads, TouchRemove(t), Uses(current[t])
      PROVE  DuplicateInv'
  <2>1. PICK k \in DOMAIN b : /\ b[k] = current[t]
                              /\ UseOrder' = Append(Without(b, k), current[t])
    BY <1>2, <1>6 DEF Uses
  <2>2. AgeOrder' = a /\ store' = store /\ Allocated' = Allocated
    BY <1>1, <1>6 DEF Uses, Allocated
  <2>3. PICK x : x = current[t]
    OBVIOUS
  <2>4. /\ x \in Allocated /\ x \in Nodes
        /\ store[x].key = serving[t].key
        /\ \A m \in Allocated : Before(a, m, x) => store[m].key # serving[t].key
    BY <1>1, <1>3, <1>6, <2>3
       DEF TouchRemove, Goto, ListsInv, NodeInv, Standing, OnAMatch,
           ScanInv, StandsRight, Matches, PassedOver
  <2>5. PICK w : w = Without(b, k)
    OBVIOUS
  <2>6. Orders(w, Allocated \ {x}) /\ Allocated \ {x} \in SUBSET Nodes
    <3>1. b \in Seq(Nodes) /\ \A i, j \in DOMAIN b : b[i] = b[j] => i = j
      BY <1>3 DEF Orders
    <3>2. w \in Seq(Nodes)
      BY <2>5, <3>1, WithoutKeeps
    <3>3. /\ Members(w) = Members(b) \ {b[k]}
          /\ \A i, j \in DOMAIN w : w[i] = w[j] => i = j
      BY <2>5, <3>1, WithoutMembers
    <3>4. QED
      BY <1>3, <2>1, <2>3, <3>2, <3>3 DEF Orders
  <2>7. ASSUME NEW m \in Allocated, NEW n \in Allocated,
               Before(a, m, n), store[m].key = store[n].key
        PROVE  Before(Append(w, x), n, m)
    <3>1. Before(b, n, m)
      BY <1>4, <2>7
    <3>2. n # x
      BY <2>4, <2>7
    <3>3. CASE m = x
      BY <2>4, <2>6, <3>2, <3>3, BeforeMore
    <3>4. CASE m # x
      <4>1. Before(w, n, m)
        BY <1>3, <2>1, <2>3, <2>5, <3>1, <3>2, <3>4, BeforeWithout
      <4>2. QED
        BY <2>4, <2>6, <4>1, BeforeMore
    <3>5. QED
      BY <3>3, <3>4
  <2>8. UseOrder' = Append(w, x)
    BY <2>1, <2>3, <2>5
  <2>9. QED
    BY <2>2, <2>7, <2>8 DEF DuplicateInv
<1>7. CASE Evicts
  <2>1. PICK k \in DOMAIN a : a[k] = b[1] /\ AgeOrder' = Without(a, k)
    BY <1>1, <1>2, <1>7 DEF Evicts
  <2>2. /\ b # <<>> /\ UseOrder' = Without(b, 1) /\ free' = free \cup {b[1]}
        /\ store' = store
    BY <1>2, <1>7 DEF Evicts
  <2>3. 1 \in DOMAIN b
    BY <1>3, <2>2 DEF Orders
  <2>4. Allocated' = Allocated \ {b[1]}
    BY <2>2 DEF Allocated
  <2>5. ASSUME NEW m \in Allocated \ {b[1]}, NEW n \in Allocated \ {b[1]},
               Before(Without(a, k), m, n), store[m].key = store[n].key
        PROVE  Before(Without(b, 1), n, m)
    <3>1. Before(a, m, n)
      BY <1>3, <2>5, BeforeWithout
    <3>2. Before(b, n, m)
      BY <1>4, <2>5, <3>1
    <3>3. QED
      BY <1>3, <2>3, <2>5, <3>2, BeforeWithout
  <2>6. QED
    BY <2>1, <2>2, <2>4, <2>5 DEF DuplicateInv
<1>8. ASSUME NEW t \in Threads, Insert(t), NEW x \in free,
             Inserts(x, body[t])
      PROVE  DuplicateInv'
  <2>1. /\ AgeOrder' = <<x>> \o a /\ UseOrder' = Append(b, x)
        /\ store' = [store EXCEPT ![x] = body[t]]
        /\ free' = free \ {x} /\ x \in Nodes \ Allocated
    BY <1>1, <1>2, <1>8
       DEF Inserts, Allocated, ListsInv, NodeInv, MemoryTypes
  <2>2. Allocated' = Allocated \cup {x}
    BY <2>1 DEF Allocated
  <2>3. \A m \in Allocated : store'[m] = store[m]
    BY <1>3, <2>1 DEF ListsInv, CallInv, CallTypes
  <2>4. ASSUME NEW m \in Allocated \cup {x}, NEW n \in Allocated \cup {x},
               Before(<<x>> \o a, m, n), store'[m].key = store'[n].key
        PROVE  Before(Append(b, x), n, m)
    <3>1. Before(a, m, n) \/ (m = x /\ n \in Allocated)
      BY <1>3, <2>1, <2>4, BeforeMore
    <3>2. CASE m = x /\ n \in Allocated
      BY <1>3, <2>1, <3>2, BeforeMore
    <3>3. CASE Before(a, m, n)
      <4>1. m \in Allocated /\ n \in Allocated
        BY <1>3, <3>3 DEF Before, Orders, Members
      <4>2. Before(b, n, m)
        BY <1>4, <2>3, <2>4, <3>3, <4>1
      <4>3. QED
        BY <1>3, <2>1, <4>2, BeforeMore
    <3>4. QED
      BY <3>1, <3>2, <3>3
  <2>5. QED
    BY <2>1, <2>2, <2>4 DEF DuplicateInv
<1>9. QED
  BY <1>5, <1>6, <1>7, <1>8, OrderStep DEF ListsInv

OrderedInv == ListsInv /\ ScanInv /\ DuplicateInv

LEMMA OrderedInvInit == Init => OrderedInv
<1> SUFFICES ASSUME Init PROVE OrderedInv
  OBVIOUS
<1>1. ListsInv
  BY LockInvInit, NodeInvInit, OrderInvInit, CallInvInit DEF ListsInv
<1>2. Allocated = {}
  BY DEF Init, Allocated
<1>3. DuplicateInv
  BY <1>2 DEF DuplicateInv
<1>4. QED
  BY <1>1, <1>3, ScanInvInit DEF OrderedInv

LEMMA OrderedInvNext == OrderedInv /\ [Next]_vars => OrderedInv'
<1> SUFFICES ASSUME OrderedInv, [Next]_vars PROVE OrderedInv'
  OBVIOUS
<1>1. ListsInv'
  BY LockInvNext, NodeInvNext, OrderStep, CallInvNext, SizeInvNext
     DEF OrderedInv, ListsInv
<1>2. QED
  BY <1>1, ScanInvNext, DuplicateInvNext DEF OrderedInv

\* cache.c: whatever the threads do, of two stored entries with the same key
\* the older is evicted before the newer.
THEOREM OlderDuplicateLeaves == Spec => []OlderDuplicateGoesFirst
<1>1. OrderedInv => OlderDuplicateGoesFirst
  <2> SUFFICES ASSUME OrderedInv, NEW i \in DOMAIN AgeOrder,
                      NEW j \in DOMAIN AgeOrder, i < j,
                      store[AgeOrder[i]].key = store[AgeOrder[j]].key
               PROVE  \E k, l \in DOMAIN UseOrder :
                        /\ k < l
                        /\ UseOrder[k] = AgeOrder[j]
                        /\ UseOrder[l] = AgeOrder[i]
    BY DEF OlderDuplicateGoesFirst
  <2>1. Members(AgeOrder) = Allocated
    BY DEF OrderedInv, ListsInv, OrderInv
  <2>2. AgeOrder[i] \in Allocated /\ AgeOrder[j] \in Allocated
    BY <2>1 DEF Members
  <2>3. Before(AgeOrder, AgeOrder[i], AgeOrder[j])
    BY DEF Before
  <2>4. Before(UseOrder, AgeOrder[j], AgeOrder[i])
    BY <2>2, <2>3 DEF OrderedInv, DuplicateInv
  <2>5. QED
    BY <2>4 DEF Before
<1>2. QED
  BY <1>1, OrderedInvInit, OrderedInvNext, PTL DEF Spec

-----------------------------------------------------------------------------
(* No two entries are the same: each bears the number of its request.        *)

Served == {"add_unlock", "idle"}

\* No request has the number of another, and a stored entry has the number of
\* a request whose response has been stored.
NumbersDiffer ==
    /\ \A t \in Threads :
        serving[t] # NoRequest => serving[t].number <= requests
    /\ \A t, u \in Threads :
        /\ serving[t] # NoRequest /\ serving[u] # NoRequest
        /\ serving[t].number = serving[u].number
        => t = u

StampsDiffer ==
    /\ \A n \in Allocated :
        /\ store[n].stamp <= requests
        /\ \A t \in Threads :
            serving[t] # NoRequest /\ serving[t].number = store[n].stamp =>
                pc[t] \in Served
    /\ \A m, n \in Allocated : store[m].stamp = store[n].stamp => m = n

StampInv == NumbersDiffer /\ StampsDiffer

LEMMA StampInvInit == Init => StampInv
BY DEF Init, StampInv, NumbersDiffer, StampsDiffer, Allocated

\* A step that takes up no request and stores nothing.
LEMMA StampKept ==
    ASSUME LockInv, NodeInv, CallInv, StampInv, NEW t \in Threads, OnlyOwn(t),
           UNCHANGED <<store, serving, requests>>, free \subseteq free',
           pc[t] \in Served => pc'[t] \in Served
    PROVE  StampInv'
<1>1. Allocated' \subseteq Allocated
  BY DEF Allocated
<1>2. \A u \in Threads : pc[u] \in Served => pc'[u] \in Served
  BY DEF OnlyOwn
<1>3. QED
  BY <1>1, <1>2 DEF StampInv, NumbersDiffer, StampsDiffer

LEMMA StampRequest ==
    ASSUME LockInv, NodeInv, CallInv, StampInv, NEW t \in Threads, Request(t)
    PROVE  StampInv'
<1>1. PICK k \in Keys : /\ serving' = [serving EXCEPT ![t] =
                                [key |-> k, number |-> requests + 1]]
                        /\ requests' = requests + 1
                        /\ UNCHANGED <<store, free>>
  BY DEF Request, dataVars
<1>2. PICK r : r = [key |-> k, number |-> requests + 1]
  OBVIOUS
<1>3. r.number = requests + 1 /\ requests \in Nat
  BY <1>2 DEF CallInv, CallTypes
<1>4. \A u \in Threads : serving'[u] = IF u = t THEN r ELSE serving[u]
  BY <1>1, <1>2 DEF CallInv, CallTypes
<1>5. \A u \in Threads \ {t} : pc'[u] = pc[u]
  BY DEF Request, Goto, LockInv, LockTypes
<1>6. Allocated' = Allocated
  BY <1>1 DEF Allocated
<1>7. \A u \in Threads : serving[u] # NoRequest => serving[u].number \in Nat
  BY DEF CallInv, CallTypes, Requests
<1>8. \A n \in Allocated : store[n].stamp \in Nat
  BY DEF CallInv, EntriesStored, Entries
<1>9. NumbersDiffer'
  <2>1. \A u \in Threads :
            serving[u] # NoRequest => /\ serving[u].number <= requests + 1
                                      /\ serving[u].number # requests + 1
    BY <1>3, <1>7 DEF StampInv, NumbersDiffer
  <2>2. QED
    BY <1>1, <1>3, <1>4, <2>1 DEF StampInv, NumbersDiffer
<1>10. StampsDiffer'
  <2>1. \A n \in Allocated : /\ store[n].stamp <= requests + 1
                             /\ store[n].stamp # requests + 1
    BY <1>3, <1>8 DEF StampInv, StampsDiffer
  <2>2. QED
    BY <1>1, <1>3, <1>4, <1>5, <1>6, <2>1 DEF StampInv, StampsDiffer
<1>11. QED
  BY <1>9, <1>10 DEF StampInv

LEMMA StampInsert ==
    ASSUME LockInv, NodeInv, CallInv, StampInv, NEW t \in Threads, Insert(t)
    PROVE  StampInv'
<1>1. PICK n \in free : /\ free' = free \ {n}
                        /\ store' = [store EXCEPT ![n] = body[t]]
  BY DEF Insert
<1>2. /\ pc[t] = "add_room"
      /\ \A u \in Threads : pc'[u] = IF u = t THEN "add_unlock" ELSE pc[u]
      /\ UNCHANGED <<serving, requests>>
  BY DEF Insert, Goto, LockInv, LockTypes, callVars
<1>3. /\ body[t].stamp = serving[t].number /\ serving[t] # NoRequest
  BY <1>2 DEF CallInv, Calls, WithResponse, Responds
<1>4. /\ n \in Nodes \ Allocated /\ Allocated' = Allocated \cup {n}
      /\ \A m \in Allocated : store'[m] = store[m]
      /\ store'[n] = body[t]
  BY <1>1 DEF Allocated, NodeInv, MemoryTypes, CallInv, CallTypes
<1>5. NumbersDiffer'
  BY <1>2 DEF StampInv, NumbersDiffer
<1>6. \A m \in Allocated : store[m].stamp # body[t].stamp
  BY <1>2, <1>3 DEF StampInv, StampsDiffer, Served
<1>7. \A u \in Threads : pc[u] \in Served => pc'[u] \in Served
  BY <1>2 DEF Served
<1>8. ASSUME NEW m \in Allocated \cup {n}
      PROVE  /\ store'[m].stamp <= requests
             /\ \A u \in Threads :
                    /\ serving[u] # NoRequest
                    /\ serving[u].number = store'[m].stamp
                    => pc'[u] \in Served
  <2>1. CASE m = n
    <3>1. \A u \in Threads : serving[u] # NoRequest
                /\ serving[u].number = serving[t].number => u = t
      BY <1>3 DEF StampInv, NumbersDiffer
    <3>2. pc'[t] \in Served
      BY <1>2 DEF Served
    <3>3. QED
      BY <1>3, <1>4, <2>1, <3>1, <3>2 DEF StampInv, NumbersDiffer
  <2>2. CASE m \in Allocated
    BY <1>4, <1>7, <2>2 DEF StampInv, StampsDiffer
  <2>3. QED
    BY <2>1, <2>2
<1>9. \A l, m \in Allocated \cup {n} :
            store'[l].stamp = store'[m].stamp => l = m
  BY <1>4, <1>6 DEF StampInv, StampsDiffer
<1>10. StampsDiffer'
  BY <1>2, <1>4, <1>8, <1>9 DEF StampsDiffer
<1>11. QED
  BY <1>5, <1>10 DEF StampInv

LEMMA StampInvNext ==
    ASSUME LockInv, NodeInv, CallInv, StampInv, [Next]_vars PROVE StampInv'
<1>1. CASE UNCHANGED vars
  BY <1>1
     DEF vars, dataVars, callVars, StampInv, NumbersDiffer, StampsDiffer,
         Allocated
<1>2. ASSUME NEW t \in Threads, Request(t) \/ Serve(t), ~Request(t), ~Insert(t)
      PROVE  StampInv'
  <2>1. OnlyOwn(t)
    BY <1>2, StepsAreOwn
  <2>2. /\ UNCHANGED <<store, serving, requests>>
        /\ free \subseteq free'
    BY <1>2
       DEF Serve, CacheGet, CacheAdd, dataVars, callVars, Fetch,
           FetchFails, EnterWait, EnterCount, EnterFirst, EnterUnlock,
           ScanHead, ScanNext, ScanEnd, ScanHit, TouchWait, TouchRemove,
           TouchAppend, TouchUnlock, Copy, LeaveWait, LeaveCount, LeaveLast,
           LeaveUnlock, AddWait, AddUnlock, Evict
  <2>3. pc[t] \in Served => pc'[t] \in Served
    <3>1. CASE AddUnlock(t)
      BY <3>1 DEF AddUnlock, Goto, Served, LockInv, LockTypes
    <3>2. CASE ~AddUnlock(t)
      BY <1>2, <3>2
         DEF Served, Goto, Serve, CacheGet, CacheAdd, Fetch,
             FetchFails, EnterWait, EnterCount, EnterFirst, EnterUnlock,
             ScanHead, ScanNext, ScanEnd, ScanHit, TouchWait, TouchRemove,
             TouchAppend, TouchUnlock, Copy, LeaveWait, LeaveCount, LeaveLast,
             LeaveUnlock, AddWait, Evict
    <3>3. QED
      BY <3>1, <3>2
  <2>4. QED
    BY <2>1, <2>2, <2>3, StampKept
<1>3. QED
  BY <1>1, <1>2, StampRequest, StampInsert DEF Next

\* Taking an entry out of a sequence of different ones.
LEMMA RemoveFirstIs ==
    ASSUME NEW S, NEW s \in Seq(S), NEW k \in DOMAIN s,
           \A i, j \in DOMAIN s : s[i] = s[j] => i = j
    PROVE  Cache!RemoveFirst(s, s[k]) = Without(s, k)
<1>1. /\ Len(s) \in Nat /\ DOMAIN s = 1 .. Len(s) /\ k \in 1 .. Len(s)
  OBVIOUS
<1>2. {i \in 1 .. Len(s) : s[i] = s[k]} = {k}
  BY <1>1
<1>3. Cache!Min({k}) = k
  BY <1>1 DEF Cache!Min
<1>4. Cache!SelectInSeq(s, LAMBDA v : v = s[k]) = k
  BY <1>2, <1>3 DEF Cache!SelectInSeq
<1>5. Cache!RemoveFirst(s, s[k]) = Cache!RemoveAt(s, k)
  BY <1>1, <1>4 DEF Cache!RemoveFirst
<1>6. Cache!RemoveAt(s, k) = SubSeq(s, 1, k - 1) \o SubSeq(s, k + 1, Len(s))
  BY DEF Cache!RemoveAt
<1>7. SubSeq(s, 1, k - 1) \o SubSeq(s, k + 1, Len(s)) = Without(s, k)
  <2>1. PICK p : p = SubSeq(s, 1, k - 1)
    OBVIOUS
  <2>2. PICK q : q = SubSeq(s, k + 1, Len(s))
    OBVIOUS
  <2>3. k - 1 \in 0 .. Len(s) /\ Len(s) - k \in Nat
    BY <1>1
  <2>4. p \in Seq(S) /\ Len(p) = k - 1 /\ \A i \in 1 .. k - 1 : p[i] = s[i]
    BY <1>1, <2>1
  <2>5. /\ q \in Seq(S) /\ Len(q) = Len(s) - k
        /\ \A i \in 1 .. Len(s) - k : q[i] = s[k + i]
    BY <1>1, <2>2
  <2>6. PICK r : r = p \o q
    OBVIOUS
  <2>7. /\ r \in Seq(S) /\ Len(r) = Len(p) + Len(q)
        /\ \A i \in 1 .. Len(p) + Len(q) :
                r[i] = IF i <= Len(p) THEN p[i] ELSE q[i - Len(p)]
    <3>1. p \in Seq(S) /\ q \in Seq(S)
      BY <2>4, <2>5
    <3>2. QED
      BY <2>6, <3>1
  <2>8. Len(r) = Len(s) - 1
    BY <1>1, <2>4, <2>5, <2>7
  <2>9. ASSUME NEW i \in 1 .. Len(s) - 1
        PROVE  r[i] = IF i < k THEN s[i] ELSE s[i + 1]
    <3>1. i \in 1 .. Len(p) + Len(q) /\ (i <= Len(p) <=> i < k)
      BY <1>1, <2>4, <2>5
    <3>2. CASE i < k
      BY <1>1, <2>4, <2>7, <3>1, <3>2
    <3>3. CASE ~(i < k)
      <4>1. /\ i - Len(p) \in 1 .. Len(s) - k
            /\ k + (i - Len(p)) = i + 1
        BY <1>1, <2>4, <3>3
      <4>2. QED
        BY <2>5, <2>7, <3>1, <3>3, <4>1
    <3>4. QED
      BY <3>2, <3>3
  <2>10. r = [i \in 1 .. Len(s) - 1 |-> r[i]]
    BY <2>7, <2>8
  <2>11. QED
    BY <2>1, <2>2, <2>6, <2>9, <2>10 DEF Without
<1>8. QED
  BY <1>5, <1>6, <1>7

LEMMA TailIs ==
    ASSUME NEW S, NEW s \in Seq(S), s # <<>>
    PROVE  Tail(s) = Without(s, 1)
<1>1. Len(s) \in Nat /\ Len(s) # 0
  OBVIOUS
<1>2. Tail(s) = [i \in 1 .. Len(s) - 1 |-> s[i + 1]]
  <2>1. PICK r : r = Tail(s)
    OBVIOUS
  <2>2. /\ r \in Seq(S) /\ Len(r) = Len(s) - 1
        /\ \A i \in 1 .. Len(s) - 1 : r[i] = s[i + 1]
    BY <1>1, <2>1
  <2>3. r = [i \in 1 .. Len(s) - 1 |-> r[i]]
    BY <2>2
  <2>4. QED
    BY <2>1, <2>2, <2>3
<1>3. \A i \in 1 .. Len(s) - 1 : ~(i < 1)
  BY <1>1
<1>4. QED
  BY <1>2, <1>3 DEF Without

LEMMA HeldWithout ==
    ASSUME NEW memory, NEW a \in Seq(Nodes), NEW k \in DOMAIN a
    PROVE  Held(memory, Without(a, k)) = Without(Held(memory, a), k)
<1>1. Len(a) \in Nat /\ DOMAIN a = 1 .. Len(a) /\ k \in 1 .. Len(a)
  OBVIOUS
<1>2. PICK h : h = Held(memory, a)
  OBVIOUS
<1>3. /\ Len(h) = Len(a)
      /\ \A i \in 1 .. Len(a) : h[i] = memory[a[i]]
  BY <1>1, <1>2 DEF Held
<1>4. Held(memory, Without(a, k)) =
            [i \in 1 .. Len(a) - 1 |->
                memory[IF i < k THEN a[i] ELSE a[i + 1]]]
  BY DEF Held, Without
<1>5. Without(h, k) =
            [i \in 1 .. Len(a) - 1 |-> IF i < k THEN h[i] ELSE h[i + 1]]
  BY <1>3 DEF Without
<1>6. \A i \in 1 .. Len(a) - 1 : i \in 1 .. Len(a) /\ i + 1 \in 1 .. Len(a)
  BY <1>1
<1>7. \A i \in 1 .. Len(a) - 1 :
        memory[IF i < k THEN a[i] ELSE a[i + 1]] =
            IF i < k THEN h[i] ELSE h[i + 1]
  BY <1>3, <1>6
<1>8. QED
  BY <1>2, <1>4, <1>5, <1>7

-----------------------------------------------------------------------------
(* The cache implements LruCache, step by step.                              *)

CacheInv == OrderedInv /\ StampInv

LEMMA CacheInvInit == Init => CacheInv
BY OrderedInvInit, StampInvInit DEF CacheInv

LEMMA CacheInvNext == CacheInv /\ [Next]_vars => CacheInv'
BY OrderedInvNext, StampInvNext DEF CacheInv, OrderedInv, ListsInv

\* What the abstract variables are called here.
Incoming == IF Adding = {} THEN NoEntry ELSE body[CHOOSE t \in Adding : TRUE]
Asked == [t \in Threads |->
            IF serving[t] = NoRequest THEN NoKey ELSE serving[t].key]
Answers == [t \in Threads |-> AnswerOf(t)]

\* Where a lookup has no answer, where it has the node it touched, and where
\* the answer is what it was.
Early == {"get_wait", "enter_count", "enter_first", "enter_unlock",
          "scan_head", "scan", "touch_wait", "touch_remove"}
Touched == {"touch_append", "touch_unlock", "copy"}

LEMMA AnswerIs ==
    ASSUME CallInv, NEW t \in Threads
    PROVE  /\ pc[t] \in Touched => AnswerOf(t) = store[current[t]]
           /\ pc[t] \in Early => AnswerOf(t) = NoEntry
           /\ pc[t] \notin Touched \cup Early =>
                AnswerOf(t) = IF answer[t] # NoEntry THEN answer[t]
                              ELSE IF serving[t] = NoRequest THEN NoEntry
                              ELSE Missed
<1>1. pc[t] \in Early => answer[t] = NoEntry
  BY DEF CallInv, Calls, Unanswered, Early
<1>2. QED
  BY <1>1 DEF AnswerOf, Touched, Early

\* The same in the state after a step.
LEMMA AnswerIsThen ==
    ASSUME CallInv', NEW t \in Threads
    PROVE  /\ pc'[t] \in Touched => AnswerOf(t)' = store'[current'[t]]
           /\ pc'[t] \in Early => AnswerOf(t)' = NoEntry
           /\ pc'[t] \notin Touched \cup Early =>
                AnswerOf(t)' = IF answer'[t] # NoEntry THEN answer'[t]
                               ELSE IF serving'[t] = NoRequest THEN NoEntry
                               ELSE Missed
<1>1. pc'[t] \in Early => answer'[t] = NoEntry
  BY DEF CallInv, Calls, Unanswered, Early
<1>2. QED
  BY <1>1 DEF AnswerOf, Touched, Early

\* A step of thread t changes the answer of no other.
LEMMA OthersAnswers ==
    ASSUME NEW t \in Threads, OnlyOwn(t), NEW u \in Threads \ {t},
           store'[current[u]] = store[current[u]] \/ pc[u] \notin Touched
    PROVE  AnswerOf(u)' = AnswerOf(u)
<1>1. /\ pc'[u] = pc[u] /\ current'[u] = current[u]
      /\ serving'[u] = serving[u] /\ answer'[u] = answer[u]
  BY DEF OnlyOwn
<1>2. QED
  BY <1>1 DEF AnswerOf, Touched

LEMMA AnswersBecome ==
    ASSUME NEW t \in Threads, OnlyOwn(t), NEW v, AnswerOf(t)' = v,
           \A u \in Threads \ {t} :
                store'[current[u]] = store[current[u]] \/ pc[u] \notin Touched
    PROVE  Answers' = [Answers EXCEPT ![t] = v]
<1>1. \A u \in Threads \ {t} : AnswerOf(u)' = AnswerOf(u)
  BY OthersAnswers
<1>2. Answers' = [u \in Threads |-> AnswerOf(u)']
  BY DEF Answers
<1>3. Answers = [u \in Threads |-> AnswerOf(u)]
  BY DEF Answers
<1>4. [Answers EXCEPT ![t] = v] =
            [u \in Threads |-> IF u = t THEN v ELSE AnswerOf(u)]
  BY <1>3
<1>5. QED
  BY <1>1, <1>2, <1>4

\* Nothing is added where no thread is, and what one thread adds where it is.
LEMMA IncomingIs ==
    ASSUME LockInv
    PROVE  /\ (\A t \in Threads : pc[t] # "add_room") => Incoming = NoEntry
           /\ \A t \in Threads : pc[t] = "add_room" => Incoming = body[t]
<1>1. ASSUME \A t \in Threads : pc[t] # "add_room" PROVE Incoming = NoEntry
  BY <1>1 DEF Incoming, Adding
<1>2. ASSUME NEW t \in Threads, pc[t] = "add_room" PROVE Incoming = body[t]
  <2>1. \A u \in Adding : u = t
    BY <1>2 DEF Adding, LockInv, WritersAreAlone, Writing
  <2>2. Adding = {t}
    BY <1>2, <2>1 DEF Adding
  <2>3. QED
    BY <2>2 DEF Incoming
<1>3. QED
  BY <1>1, <1>2

\* What a step that is none of an addition's leaves of the entry being added.
LEMMA IncomingKept ==
    ASSUME LockInv, LockInv', NEW t \in Threads, OnlyOwn(t),
           pc[t] # "add_room", pc'[t] # "add_room"
    PROVE  Incoming' = Incoming
<1>1. CASE \A u \in Threads : pc[u] # "add_room"
  <2>1. \A u \in Threads : pc'[u] # "add_room"
    BY <1>1 DEF OnlyOwn
  <2>2. Adding = {} /\ Adding' = {}
    BY <1>1, <2>1 DEF Adding
  <2>3. QED
    BY <2>2 DEF Incoming
<1>2. CASE \E u \in Threads : pc[u] = "add_room"
  <2>1. PICK u \in Threads : pc[u] = "add_room"
    BY <1>2
  <2>2. u # t /\ pc'[u] = "add_room" /\ body'[u] = body[u]
    BY <2>1 DEF OnlyOwn
  <2>3. \A w \in Adding : w = u
    BY <2>1 DEF Adding, LockInv, WritersAreAlone, Writing
  <2>4. Adding = {u} /\ Adding' = {u}
    BY <2>1, <2>2, <2>3 DEF Adding, OnlyOwn
  <2>5. QED
    BY <2>2, <2>4 DEF Incoming
<1>3. QED
  BY <1>1, <1>2

\* A step that no one sees from outside.
Unseen ==
    /\ Contents(AgeOrder)' = Contents(AgeOrder)
    /\ Contents(UseOrder)' = Contents(UseOrder)
    /\ Incoming' = Incoming /\ Asked' = Asked /\ Answers' = Answers

LEMMA UnseenIs == Unseen => UNCHANGED Cache!lruVars
BY DEF Unseen, Cache!lruVars, Incoming, Asked, Answers

LEMMA UnseenStep ==
    ASSUME LockInv, LockInv', NEW t \in Threads, OnlyOwn(t), NothingMoves,
           pc[t] # "add_room", pc'[t] # "add_room", serving' = serving,
           AnswerOf(t)' = AnswerOf(t)
    PROVE  Unseen
<1>1. Incoming' = Incoming
  BY IncomingKept
<1>2. Asked' = Asked
  BY DEF Asked
<1>3. store' = store /\ AgeOrder' = AgeOrder /\ UseOrder' = UseOrder
  BY DEF NothingMoves
<1>4. Answers' = [Answers EXCEPT ![t] = AnswerOf(t)]
  BY <1>3, AnswersBecome
<1>5. Answers' = Answers
  BY <1>4 DEF Answers
<1>6. QED
  BY <1>1, <1>2, <1>3, <1>5 DEF Unseen, Contents

-----------------------------------------------------------------------------
\* The steps a caller of the cache cannot tell from none.
LEMMA QuietRefines ==
    ASSUME CacheInv, CacheInv', NEW t \in Threads, Request(t) \/ Serve(t),
           ~Request(t), ~ScanEnd(t), ~TouchRemove(t), ~AddWait(t), ~Evict(t),
           ~Insert(t)
    PROVE  Unseen
<1> USE DEF CacheInv, OrderedInv, ListsInv
<1>1. OnlyOwn(t) /\ NothingMoves
  BY StepsAreOwn, OrderQuiet
<1>2. pc[t] # "add_room" /\ pc'[t] # "add_room" /\ serving' = serving
      /\ AnswerOf(t)' = AnswerOf(t)
  <2>1. pc \in [Threads -> Labels]
    BY DEF LockInv, LockTypes
  <2>2. ASSUME pc[t] \in Early, pc'[t] \in Early
        PROVE  AnswerOf(t)' = AnswerOf(t)
    BY <2>2, AnswerIs, AnswerIsThen
  <2>3. ASSUME pc[t] \in Touched, pc'[t] \in Touched, current' = current
        PROVE  AnswerOf(t)' = AnswerOf(t)
    BY <1>1, <2>3, AnswerIs, AnswerIsThen DEF NothingMoves
  <2>4. ASSUME pc[t] \notin Touched \cup Early,
               pc'[t] \notin Touched \cup Early,
               serving' = serving, answer' = answer
        PROVE  AnswerOf(t)' = AnswerOf(t)
    <3>1. AnswerOf(t) = IF answer[t] # NoEntry THEN answer[t]
                        ELSE IF serving[t] = NoRequest THEN NoEntry
                        ELSE Missed
      BY <2>4, AnswerIs
    <3>2. AnswerOf(t)' = IF answer'[t] # NoEntry THEN answer'[t]
                         ELSE IF serving'[t] = NoRequest THEN NoEntry
                         ELSE Missed
      BY <2>4, AnswerIsThen
    <3>3. QED
      BY <2>4, <3>1, <3>2
  <2> USE DEF Goto, callVars
  <2>5. CASE EnterWait(t) \/ EnterCount(t) \/ EnterFirst(t) \/ EnterUnlock(t)
    <3>1. pc[t] \in Early /\ pc'[t] \in Early /\ serving' = serving
      BY <2>1, <2>5
         DEF EnterWait, EnterCount, EnterFirst, EnterUnlock, Early
    <3>2. QED
      BY <2>2, <3>1 DEF Early
  <2>6. CASE ScanHead(t) \/ ScanNext(t) \/ ScanHit(t) \/ TouchWait(t)
    <3>1. pc[t] \in Early /\ pc'[t] \in Early /\ serving' = serving
      BY <2>1, <2>6 DEF ScanHead, ScanNext, ScanHit, TouchWait, Early
    <3>2. QED
      BY <2>2, <3>1 DEF Early
  <2>7. CASE TouchAppend(t) \/ TouchUnlock(t)
    <3>1. pc[t] \in Touched /\ pc'[t] \in Touched /\ current' = current
          /\ serving' = serving
      BY <2>1, <2>7 DEF TouchAppend, TouchUnlock, Touched
    <3>2. QED
      BY <2>3, <3>1 DEF Touched
  <2>8. CASE Copy(t)
    <3>1. /\ pc[t] = "copy" /\ pc'[t] = "leave_wait"
          /\ answer'[t] = store[current[t]] /\ serving' = serving
      BY <2>1, <2>8 DEF Copy, CallInv, CallTypes
    <3>2. store[current[t]] \in Entries
      BY <3>1 DEF NodeInv, Standing, OnAMatch, CallInv, EntriesStored
    <3>3. answer'[t] # NoEntry
      BY <3>1, <3>2, NoneAssumption
    <3>4. AnswerOf(t) = store[current[t]]
      BY <3>1, AnswerIs DEF Touched
    <3>5. AnswerOf(t)' = answer'[t]
      BY <3>1, <3>3, AnswerIsThen DEF Touched, Early
    <3>6. QED
      BY <3>1, <3>4, <3>5
  <2>9. CASE Fetch(t) \/ FetchFails(t) \/ AddUnlock(t)
    <3>1. /\ pc[t] \notin Touched \cup Early
          /\ pc'[t] \notin Touched \cup Early
          /\ serving' = serving /\ answer' = answer
          /\ pc[t] # "add_room" /\ pc'[t] # "add_room"
      BY <2>1, <2>9 DEF Fetch, FetchFails, AddUnlock, Touched, Early
    <3>2. QED
      BY <2>4, <3>1
  <2>10. CASE LeaveWait(t) \/ LeaveCount(t) \/ LeaveLast(t) \/ LeaveUnlock(t)
    <3>1. /\ pc[t] \notin Touched \cup Early
          /\ pc'[t] \notin Touched \cup Early
          /\ serving' = serving /\ answer' = answer
          /\ pc[t] # "add_room" /\ pc'[t] # "add_room"
      BY <2>1, <2>10
         DEF LeaveWait, LeaveCount, LeaveLast, LeaveUnlock, Touched, Early
    <3>2. QED
      BY <2>4, <3>1
  <2> HIDE DEF Goto, callVars
  <2>11. QED
    BY <2>5, <2>6, <2>7, <2>8, <2>9, <2>10 DEF Serve, CacheGet, CacheAdd
<1>3. QED
  BY <1>1, <1>2, UnseenStep

\* A request asks for a key.
LEMMA RequestRefines ==
    ASSUME CacheInv, CacheInv', NEW t \in Threads, Request(t)
    PROVE  \E k \in Keys : Cache!Ask(t, k)
<1> USE DEF CacheInv, OrderedInv, ListsInv
<1>1. PICK k \in Keys : serving' = [serving EXCEPT ![t] =
                                [key |-> k, number |-> requests + 1]]
  BY DEF Request
<1>2. PICK r : r = [key |-> k, number |-> requests + 1]
  OBVIOUS
<1>3. /\ pc[t] = "idle" /\ pc'[t] = "get_wait"
      /\ serving'[t] = r
      /\ \A u \in Threads \ {t} : serving'[u] = serving[u]
  BY <1>1, <1>2
     DEF Request, Goto, LockInv, LockTypes, CallInv, CallTypes
<1>4. r.key = k /\ r # NoRequest
  <2>1. serving'[t] # NoRequest
    BY <1>3 DEF CallInv, Calls
  <2>2. QED
    BY <1>2, <1>3, <2>1
<1>5. OnlyOwn(t) /\ NothingMoves
  <2>1. ~TouchRemove(t) /\ ~Evict(t) /\ ~Insert(t)
    BY <1>3 DEF TouchRemove, Evict, Insert, Goto
  <2>2. QED
    BY <2>1, StepsAreOwn, OrderQuiet
<1>6. Incoming' = Incoming
  BY <1>3, <1>5, IncomingKept
<1>7. Asked' = [Asked EXCEPT ![t] = k]
  <2>1. Asked' = [u \in Threads |-> IF serving'[u] = NoRequest THEN NoKey
                                    ELSE serving'[u].key]
    BY DEF Asked
  <2>2. [Asked EXCEPT ![t] = k] =
            [u \in Threads |-> IF u = t THEN k
                               ELSE IF serving[u] = NoRequest THEN NoKey
                               ELSE serving[u].key]
    BY DEF Asked
  <2>3. \A u \in Threads :
            (IF serving'[u] = NoRequest THEN NoKey ELSE serving'[u].key) =
                IF u = t THEN k
                ELSE IF serving[u] = NoRequest THEN NoKey ELSE serving[u].key
    BY <1>3, <1>4
  <2>4. QED
    BY <2>1, <2>2, <2>3
<1>8. Answers' = [Answers EXCEPT ![t] = NoEntry]
  <2>1. AnswerOf(t)' = NoEntry
    BY <1>3, AnswerIsThen DEF Early
  <2>2. QED
    BY <1>5, <2>1, AnswersBecome DEF NothingMoves
<1>9. /\ Contents(AgeOrder)' = Contents(AgeOrder)
      /\ Contents(UseOrder)' = Contents(UseOrder)
  BY <1>5 DEF NothingMoves, Contents
<1>10. Cache!Ask(t, k)
  BY <1>6, <1>7, <1>8, <1>9 DEF Cache!Ask, Incoming, Asked, Answers
<1>11. QED
  BY <1>10

\* A scan that reaches the end misses.
LEMMA ScanEndRefines ==
    ASSUME CacheInv, CacheInv', NEW t \in Threads, ScanEnd(t)
    PROVE  Cache!Miss(t)
<1> USE DEF CacheInv, OrderedInv, ListsInv
<1>1. /\ pc[t] = "scan" /\ pc'[t] = "leave_wait" /\ current[t] = Null
      /\ UNCHANGED <<serving, answer>>
  BY DEF ScanEnd, Goto, LockInv, LockTypes, callVars
<1>2. OnlyOwn(t) /\ NothingMoves
  <2>1. ~TouchRemove(t) /\ ~Evict(t) /\ ~Insert(t)
    BY <1>1 DEF TouchRemove, Evict, Insert, Goto
  <2>2. Request(t) \/ Serve(t)
    BY DEF Serve, CacheGet
  <2>3. QED
    BY <2>1, <2>2, StepsAreOwn, OrderQuiet
<1>3. serving[t] # NoRequest /\ answer[t] = NoEntry
  BY <1>1 DEF CallInv, Calls, Unanswered
<1>4. Incoming = NoEntry /\ Incoming' = Incoming
  <2>1. \A u \in Threads : pc[u] # "add_room"
    BY <1>1 DEF LockInv, WritersAreAlone, Writing, Reading, Counted
  <2>2. QED
    BY <1>1, <1>2, <2>1, IncomingIs, IncomingKept
<1>5. Answers[t] = NoEntry /\ Answers' = [Answers EXCEPT ![t] = Missed]
  <2>1. AnswerOf(t) = NoEntry
    BY <1>1, AnswerIs DEF Early
  <2>2. AnswerOf(t)' = Missed
    BY <1>1, <1>3, AnswerIsThen DEF Touched, Early
  <2>3. Answers' = [Answers EXCEPT ![t] = Missed]
    BY <1>2, <2>2, AnswersBecome DEF NothingMoves
  <2>4. QED
    BY <2>1, <2>3 DEF Answers
<1>6. Asked[t] = serving[t].key /\ Asked' = Asked
  BY <1>1, <1>3 DEF Asked
<1>7. ~Cache!Holds(Asked[t])
  <2>1. \A m \in Allocated : store[m].key # serving[t].key
    BY <1>1 DEF ScanInv, StandsRight
  <2>2. \A i \in DOMAIN AgeOrder : AgeOrder[i] \in Allocated
    BY BothOrders DEF Orders, Members
  <2>3. \A i \in DOMAIN Contents(AgeOrder) :
            Contents(AgeOrder)[i].key # serving[t].key
    BY <2>1, <2>2 DEF Contents
  <2>4. QED
    BY <1>6, <2>3 DEF Cache!Holds
<1>8. /\ Contents(AgeOrder)' = Contents(AgeOrder)
      /\ Contents(UseOrder)' = Contents(UseOrder)
  BY <1>2 DEF NothingMoves, Contents
<1>9. QED
  BY <1>4, <1>5, <1>6, <1>7, <1>8 DEF Cache!Miss, Incoming, Asked, Answers

\* An addition begins when it has writers_lock.
LEMMA AddWaitRefines ==
    ASSUME CacheInv, CacheInv', NEW t \in Threads, AddWait(t)
    PROVE  \E e \in Entries : Cache!BeginAdd(e)
<1> USE DEF CacheInv, OrderedInv, ListsInv
<1>1. /\ pc[t] = "add_wait" /\ pc'[t] = "add_room"
      /\ UNCHANGED <<serving, answer, body>>
  BY DEF AddWait, Goto, LockInv, LockTypes, callVars
<1>2. OnlyOwn(t) /\ NothingMoves
  <2>1. ~TouchRemove(t) /\ ~Evict(t) /\ ~Insert(t)
    BY <1>1 DEF TouchRemove, Evict, Insert, Goto
  <2>2. Request(t) \/ Serve(t)
    BY DEF Serve, CacheAdd
  <2>3. QED
    BY <2>1, <2>2, StepsAreOwn, OrderQuiet
<1>3. body[t] \in Entries
  BY <1>1 DEF CallInv, Calls, WithResponse, Responds
<1>4. Incoming = NoEntry
  <2>1. \A u \in Threads : pc[u] # "add_room"
    <3>1. \A u \in Threads \ {t} : pc'[u] = pc[u]
      BY <1>2 DEF OnlyOwn
    <3>2. \A u \in Threads : pc'[u] = "add_room" => u = t
      BY <1>1 DEF LockInv, WritersAreAlone, Writing
    <3>3. QED
      BY <1>1, <3>1, <3>2
  <2>2. QED
    BY <2>1, IncomingIs
<1>5. Incoming' = body[t]
  <2>1. \A u \in Threads : pc'[u] = "add_room" => u = t
    BY <1>1 DEF LockInv, WritersAreAlone, Writing
  <2>2. Adding' = {t}
    BY <1>1, <2>1 DEF Adding
  <2>3. QED
    BY <1>1, <2>2 DEF Incoming
<1>6. Asked' = Asked
  BY <1>1 DEF Asked
<1>7. Answers' = Answers
  <2>1. AnswerOf(t)' = AnswerOf(t)
    BY <1>1, AnswerIs, AnswerIsThen DEF Touched, Early
  <2>2. Answers' = [Answers EXCEPT ![t] = AnswerOf(t)]
    BY <1>2, <2>1, AnswersBecome DEF NothingMoves
  <2>3. QED
    BY <2>2 DEF Answers
<1>8. /\ Contents(AgeOrder)' = Contents(AgeOrder)
      /\ Contents(UseOrder)' = Contents(UseOrder)
  BY <1>2 DEF NothingMoves, Contents
<1>9. Cache!BeginAdd(body[t])
  BY <1>4, <1>5, <1>6, <1>7, <1>8
     DEF Cache!BeginAdd, Incoming, Asked, Answers
<1>10. QED
  BY <1>3, <1>9

-----------------------------------------------------------------------------
\* The entries of the two orders: sequences without repetition.
LEMMA ContentsDiffer ==
    ASSUME CacheInv, NEW a, Orders(a, Allocated)
    PROVE  /\ Held(store, a) \in Seq(Entries)
           /\ Len(Held(store, a)) = Len(a)
           /\ DOMAIN Held(store, a) = DOMAIN a
           /\ \A i \in DOMAIN a : Held(store, a)[i] = store[a[i]]
           /\ \A i, j \in DOMAIN Held(store, a) :
                Held(store, a)[i] = Held(store, a)[j] => i = j
<1> USE DEF CacheInv, OrderedInv, ListsInv
<1>1. /\ Allocated \in SUBSET Nodes
      /\ \A n \in Allocated : store[n] \in Entries
  BY DEF Allocated, CallInv, EntriesStored
<1>2. /\ Held(store, a) \in Seq(Entries)
      /\ Len(Held(store, a)) = Len(a)
      /\ DOMAIN Held(store, a) = DOMAIN a
      /\ \A i \in DOMAIN a : Held(store, a)[i] = store[a[i]]
  BY <1>1, HeldSized
<1>3. ASSUME NEW i \in DOMAIN a, NEW j \in DOMAIN a, store[a[i]] = store[a[j]]
      PROVE  i = j
  <2>1. a[i] \in Allocated /\ a[j] \in Allocated
    BY DEF Orders, Members
  <2>2. a[i] = a[j]
    BY <1>3, <2>1 DEF StampInv, StampsDiffer
  <2>3. QED
    BY <2>2 DEF Orders
<1>4. QED
  BY <1>2, <1>3

\* The entry a lookup has matched is the newest for its key.
LEMMA MatchIsNewest ==
    ASSUME CacheInv, NEW t \in Threads, pc[t] = "touch_remove"
    PROVE  /\ Cache!Holds(serving[t].key)
           /\ Cache!Newest(serving[t].key) = store[current[t]]
<1> USE DEF CacheInv, OrderedInv, ListsInv
<1>1. PICK a : a = AgeOrder
  OBVIOUS
<1>2. PICK h : h = Contents(AgeOrder)
  OBVIOUS
<1>3. Orders(a, Allocated) /\ h = Held(store, a)
  BY <1>1, <1>2, BothOrders, ContentsAreHeld
<1>4. /\ DOMAIN h = DOMAIN a /\ \A i \in DOMAIN a : h[i] = store[a[i]]
      /\ DOMAIN a = 1 .. Len(a) /\ Len(a) \in Nat
  BY <1>3, ContentsDiffer DEF Orders
<1>5. current[t] \in Allocated
  BY DEF NodeInv, Standing, OnAMatch
<1>6. PICK i \in DOMAIN a : a[i] = current[t]
  BY <1>3, <1>5 DEF Orders, Members
<1>7. PICK k : k = serving[t].key
  OBVIOUS
<1>8. /\ store[current[t]].key = k
      /\ \A m \in Allocated : Before(a, m, current[t]) => store[m].key # k
  BY <1>1, <1>7 DEF ScanInv, StandsRight, PassedOver, Matches, OnAMatch
<1>9. h[i].key = k /\ \A j \in 1 .. i - 1 : h[j].key # k
  <2>1. h[i].key = k
    BY <1>4, <1>6, <1>8
  <2>2. ASSUME NEW j \in 1 .. i - 1 PROVE h[j].key # k
    <3>1. j \in DOMAIN a /\ j < i
      BY <1>4
    <3>2. Before(a, a[j], a[i]) /\ a[j] \in Allocated
      BY <1>3, <3>1 DEF Before, Orders, Members
    <3>3. QED
      BY <1>4, <1>6, <1>8, <3>1, <3>2
  <2>3. QED
    BY <2>1, <2>2
<1>10. ASSUME NEW j \in DOMAIN h, h[j].key = k,
              \A l \in 1 .. j - 1 : h[l].key # k
       PROVE  j = i
  <2>1. i \in Nat /\ j \in Nat /\ i \in 1 .. Len(a) /\ j \in 1 .. Len(a)
    BY <1>4
  <2>2. CASE j < i
    BY <1>9, <1>10, <2>1, <2>2
  <2>3. CASE i < j
    <3>1. i \in 1 .. j - 1
      BY <2>1, <2>3
    <3>2. QED
      BY <1>9, <1>10, <3>1
  <2>4. QED
    BY <2>1, <2>2, <2>3
<1>11. Cache!Holds(k)
  <2>1. i \in DOMAIN h /\ h[i].key = k
    BY <1>4, <1>9
  <2>2. QED
    BY <1>2, <2>1 DEF Cache!Holds
<1>12. Cache!Newest(k) = h[CHOOSE j \in DOMAIN h :
                    h[j].key = k /\ \A l \in 1 .. j - 1 : h[l].key # k]
  BY <1>2, Zenon DEF Cache!Newest
<1>13. (CHOOSE j \in DOMAIN h :
                    h[j].key = k /\ \A l \in 1 .. j - 1 : h[l].key # k) = i
  <2>1. i \in DOMAIN h
    BY <1>4
  <2>2. QED
    BY <1>9, <1>10, <2>1
<1>14. QED
  BY <1>4, <1>6, <1>7, <1>11, <1>12, <1>13

\* A hit takes effect when it unlinks the node it has matched.
LEMMA TouchRemoveRefines ==
    ASSUME CacheInv, CacheInv', NEW t \in Threads, TouchRemove(t)
    PROVE  Cache!Hit(t)
<1> USE DEF CacheInv, OrderedInv, ListsInv
<1>1. /\ pc[t] = "touch_remove" /\ pc'[t] = "touch_append"
      /\ UNCHANGED <<store, current, serving, answer>>
  BY DEF TouchRemove, Goto, LockInv, LockTypes, callVars
<1>2. OnlyOwn(t)
  BY StepsAreOwn DEF Serve, CacheGet
<1>3. Uses(current[t])
  BY TouchRemoveMoves
<1>4. PICK n : n = current[t]
  OBVIOUS
<1>5. PICK e : e = store[n]
  OBVIOUS
<1>6. PICK b : b = UseOrder
  OBVIOUS
<1>7. /\ Orders(b, Allocated) /\ b \in Seq(Nodes)
      /\ Allocated \in SUBSET Nodes
      /\ n \in Allocated
      /\ \A m \in Allocated : store[m] \in Entries
  BY <1>1, <1>4, <1>6, BothOrders
     DEF Orders, Allocated, NodeInv, Standing, OnAMatch, CallInv, EntriesStored
<1>8. PICK k \in DOMAIN b : b[k] = n /\ UseOrder' = Append(Without(b, k), n)
  BY <1>3, <1>4, <1>6 DEF Uses
<1>9. PICK h : h = Held(store, b)
  OBVIOUS
<1>10. /\ h = Contents(UseOrder) /\ h \in Seq(Entries) /\ k \in DOMAIN h
       /\ h[k] = e
       /\ \A i, j \in DOMAIN h : h[i] = h[j] => i = j
  BY <1>5, <1>6, <1>7, <1>8, <1>9, ContentsDiffer, ContentsAreHeld
<1>11. Contents(UseOrder)' = Append(Cache!RemoveFirst(h, e), e)
  <2>1. PICK w : w = Without(b, k)
    OBVIOUS
  <2>9. PICK S : S = Allocated \ {n}
    OBVIOUS
  <2>10. PICK memory : memory = store
    OBVIOUS
  <2>2. /\ Orders(w, S) /\ S \in SUBSET Nodes
    <3>1. \A i, j \in DOMAIN b : b[i] = b[j] => i = j
      BY <1>7 DEF Orders
    <3>2. w \in Seq(Nodes)
      BY <1>7, <2>1, WithoutKeeps
    <3>3. /\ Members(w) = Members(b) \ {b[k]}
          /\ \A i, j \in DOMAIN w : w[i] = w[j] => i = j
      BY <1>7, <2>1, <3>1, WithoutMembers
    <3>4. QED
      BY <1>7, <1>8, <2>9, <3>2, <3>3 DEF Orders
  <2>3. /\ n \in Nodes \ S /\ memory[n] \in Entries
        /\ \A m \in S : memory[m] = memory[m] /\ memory[m] \in Entries
    BY <1>7, <2>9, <2>10
  <2>11. Held(memory, Extended(w, n)) = Extended(Held(memory, w), memory[n])
    BY <2>2, <2>3, HeldAppended
  <2>4. Held(store, Append(w, n)) = Append(Held(store, w), store[n])
    BY <2>10, <2>11 DEF Extended
  <2>5. Held(store, w) = Without(h, k)
    BY <1>7, <1>9, <2>1, HeldWithout
  <2>6. Cache!RemoveFirst(h, h[k]) = Without(h, k)
    BY <1>10, RemoveFirstIs
  <2>7. Contents(UseOrder)' = Held(store, Append(w, n))
    <3>1. Contents(UseOrder)' = Held(store', UseOrder')
      BY DEF Contents, Held
    <3>2. QED
      BY <1>1, <1>8, <2>1, <3>1
  <2>8. QED
    BY <1>5, <1>10, <2>4, <2>5, <2>6, <2>7
<1>12. Contents(AgeOrder)' = Contents(AgeOrder)
  BY <1>1, <1>3 DEF Uses, Contents
<1>13. Incoming = NoEntry /\ Incoming' = Incoming
  <2>1. \A u \in Threads : pc[u] # "add_room"
    BY <1>1 DEF LockInv, WritersAreAlone, Writing, Reading, Counted
  <2>2. QED
    BY <1>1, <1>2, <2>1, IncomingIs, IncomingKept
<1>14. serving[t] # NoRequest
  BY <1>1 DEF CallInv, Calls
<1>15. Asked[t] = serving[t].key /\ Asked' = Asked
  BY <1>1, <1>14 DEF Asked
<1>16. Answers[t] = NoEntry /\ Answers' = [Answers EXCEPT ![t] = e]
  <2>1. AnswerOf(t) = NoEntry
    BY <1>1, AnswerIs DEF Early
  <2>2. AnswerOf(t)' = e
    BY <1>1, <1>4, <1>5, AnswerIsThen DEF Touched
  <2>3. Answers' = [Answers EXCEPT ![t] = e]
    BY <1>1, <1>2, <2>2, AnswersBecome
  <2>4. QED
    BY <2>1, <2>3 DEF Answers
<1>17. Cache!Holds(Asked[t]) /\ Cache!Newest(Asked[t]) = e
  BY <1>1, <1>4, <1>5, <1>15, MatchIsNewest
<1>18. Contents(UseOrder)' =
            Append(Cache!RemoveFirst(Contents(UseOrder), e), e)
  BY <1>10, <1>11
<1>19. QED
  BY <1>12, <1>13, <1>15, <1>16, <1>17, <1>18
     DEF Cache!Hit, Incoming, Asked, Answers

\* What an eviction or insertion leaves of the answers.
LEMMA AddingAnswers ==
    ASSUME CacheInv, CacheInv', NEW t \in Threads, Evict(t) \/ Insert(t)
    PROVE  /\ Asked' = Asked /\ Answers' = Answers
           /\ pc[t] = "add_room" /\ Incoming = body[t]
           /\ body[t] \in Entries /\ body[t] # NoEntry
<1> USE DEF CacheInv, OrderedInv, ListsInv
<1>1. /\ pc[t] = "add_room" /\ pc'[t] \in Writing
      /\ UNCHANGED <<serving, answer, body>>
  BY DEF Evict, Insert, Goto, LockInv, LockTypes, callVars, Writing
<1>2. OnlyOwn(t)
  BY StepsAreOwn DEF Serve, CacheAdd
<1>3. Asked' = Asked
  BY <1>1 DEF Asked
<1>4. \A u \in Threads : pc[u] \notin Touched
  BY <1>1, NoneStanding DEF Writing, OnAMatch, Touched
<1>5. AnswerOf(t)' = AnswerOf(t)
  BY <1>1, AnswerIs, AnswerIsThen DEF Writing, Touched, Early
<1>6. Answers' = [Answers EXCEPT ![t] = AnswerOf(t)]
  BY <1>2, <1>4, <1>5, AnswersBecome
<1>7. Answers' = Answers
  BY <1>6 DEF Answers
<1>8. Incoming = body[t]
  BY <1>1, IncomingIs
<1>9. body[t] \in Entries
  BY <1>1 DEF CallInv, Calls, WithResponse, Responds
<1>10. QED
  BY <1>1, <1>3, <1>7, <1>8, <1>9, NoneAssumption

LEMMA EvictRefines ==
    ASSUME CacheInv, CacheInv', NEW t \in Threads, Evict(t)
    PROVE  Cache!EvictLeastRecentlyUsed
<1> USE DEF CacheInv, OrderedInv, ListsInv
<1>1. /\ Asked' = Asked /\ Answers' = Answers
      /\ pc[t] = "add_room" /\ Incoming = body[t] /\ Incoming # NoEntry
  BY AddingAnswers
<1>2. Incoming' = Incoming
  <2>1. pc' = pc /\ body' = body
    BY DEF Evict, callVars
  <2>2. Adding' = Adding
    BY <2>1 DEF Adding
  <2>3. QED
    BY <2>1, <2>2 DEF Incoming
<1>3. Evicts
  BY EvictMoves
<1>4. PICK a : a = AgeOrder
  OBVIOUS
<1>5. PICK b : b = UseOrder
  OBVIOUS
<1>6. /\ Orders(a, Allocated) /\ Orders(b, Allocated)
      /\ a \in Seq(Nodes) /\ b \in Seq(Nodes)
  BY <1>4, <1>5, BothOrders DEF Orders
<1>7. PICK k \in DOMAIN a : a[k] = b[1] /\ AgeOrder' = Without(a, k)
  BY <1>3, <1>4, <1>5 DEF Evicts
<1>8. b # <<>> /\ UseOrder' = Without(b, 1) /\ store' = store
  BY <1>3, <1>5 DEF Evicts
<1>9. PICK g : g = Held(store, a)
  OBVIOUS
<1>10. PICK h : h = Held(store, b)
  OBVIOUS
<1>11. /\ g \in Seq(Entries) /\ k \in DOMAIN g /\ g[k] = store[b[1]]
       /\ \A i, j \in DOMAIN g : g[i] = g[j] => i = j
  BY <1>6, <1>7, <1>9, ContentsDiffer
<1>12. 1 \in DOMAIN b
  BY <1>6, <1>8
<1>13. /\ h \in Seq(Entries) /\ h[1] = store[b[1]] /\ h # <<>>
  <2>1. /\ h \in Seq(Entries) /\ DOMAIN h = DOMAIN b /\ h[1] = store[b[1]]
    BY <1>6, <1>10, <1>12, ContentsDiffer
  <2>2. h # <<>>
    BY <1>12, <2>1
  <2>3. QED
    BY <2>1, <2>2
<1>14. Head(h) = g[k]
  BY <1>11, <1>13
<1>15. Cache!RemoveFirst(g, Head(h)) = Held(store, Without(a, k))
  <2>1. Cache!RemoveFirst(g, g[k]) = Without(g, k)
    BY <1>11, RemoveFirstIs
  <2>2. Held(store, Without(a, k)) = Without(g, k)
    BY <1>6, <1>9, HeldWithout
  <2>3. QED
    BY <1>14, <2>1, <2>2
<1>16. Tail(h) = Held(store, Without(b, 1))
  <2>1. Tail(h) = Without(h, 1)
    BY <1>13, TailIs
  <2>2. Held(store, Without(b, 1)) = Without(h, 1)
    BY <1>6, <1>10, <1>12, HeldWithout
  <2>3. QED
    BY <2>1, <2>2
<1>17. g = Contents(AgeOrder) /\ h = Contents(UseOrder)
  BY <1>4, <1>5, <1>9, <1>10, ContentsAreHeld
<1>18. /\ Contents(AgeOrder)' = Held(store', AgeOrder')
       /\ Contents(UseOrder)' = Held(store', UseOrder')
  BY DEF Contents, Held
<1>19. /\ Contents(AgeOrder)' =
            Cache!RemoveFirst(Contents(AgeOrder), Head(Contents(UseOrder)))
       /\ Contents(UseOrder)' = Tail(Contents(UseOrder))
  BY <1>7, <1>8, <1>15, <1>16, <1>17, <1>18
<1>20. Cache!SizeOf(Contents(AgeOrder)) + Incoming.size > MaxCacheSize
  <2>1. total_size + body[t].size > MaxCacheSize
    BY DEF Evict, Overfull
  <2>2. QED
    BY <1>1, <2>1 DEF SizeInv
<1>21. QED
  BY <1>1, <1>2, <1>19, <1>20
     DEF Cache!EvictLeastRecentlyUsed, Cache!Overfull, Incoming, Asked, Answers

LEMMA InsertRefines ==
    ASSUME CacheInv, CacheInv', NEW t \in Threads, Insert(t)
    PROVE  Cache!FinishAdd
<1> USE DEF CacheInv, OrderedInv, ListsInv
<1>1. /\ Asked' = Asked /\ Answers' = Answers
      /\ pc[t] = "add_room" /\ Incoming = body[t] /\ Incoming # NoEntry
      /\ body[t] \in Entries
  BY AddingAnswers
<1>2. Incoming' = NoEntry
  <2>1. pc'[t] = "add_unlock" /\ OnlyOwn(t)
    BY StepsAreOwn DEF Insert, Goto, LockInv, LockTypes, Serve, CacheAdd
  <2>2. \A u \in Threads : pc[u] = "add_room" => u = t
    BY <1>1 DEF LockInv, WritersAreAlone, Writing
  <2>3. \A u \in Threads : pc'[u] # "add_room"
    BY <2>1, <2>2 DEF OnlyOwn
  <2>4. Adding' = {}
    BY <2>3 DEF Adding
  <2>5. QED
    BY <2>4 DEF Incoming
<1>3. PICK n \in free : Inserts(n, body[t])
  BY InsertMoves
<1>4. PICK a : a = AgeOrder
  OBVIOUS
<1>5. PICK b : b = UseOrder
  OBVIOUS
<1>6. PICK e : e = body[t]
  OBVIOUS
<1>7. PICK memory : memory = store'
  OBVIOUS
<1>8. /\ Orders(a, Allocated) /\ Orders(b, Allocated)
      /\ Allocated \in SUBSET Nodes /\ n \in Nodes \ Allocated
  BY <1>4, <1>5, BothOrders DEF Allocated, NodeInv, MemoryTypes
<1>9. /\ memory = [store EXCEPT ![n] = e]
      /\ store \in [Nodes -> Entries \cup {NoEntry}]
  BY <1>3, <1>6, <1>7 DEF Inserts, CallInv, CallTypes
<1>10. /\ memory[n] \in Entries /\ memory[n] = e
       /\ \A m \in Allocated : memory[m] = store[m] /\ store[m] \in Entries
  BY <1>1, <1>6, <1>8, <1>9 DEF CallInv, EntriesStored
<1>18. Held(memory, <<n>> \o a) = <<memory[n]>> \o Held(store, a)
  BY <1>8, <1>10, HeldMore
<1>19. Held(memory, Append(b, n)) = Append(Held(store, b), memory[n])
  <2>1. Held(memory, Extended(b, n)) = Extended(Held(store, b), memory[n])
    BY <1>8, <1>10, HeldAppended
  <2>2. QED
    BY <2>1 DEF Extended
<1>12. AgeOrder' = <<n>> \o a /\ UseOrder' = Append(b, n)
  BY <1>3, <1>4, <1>5 DEF Inserts
<1>13. /\ Contents(AgeOrder)' = Held(store', AgeOrder')
       /\ Contents(UseOrder)' = Held(store', UseOrder')
  BY DEF Contents, Held
<1>14. /\ Contents(AgeOrder) = Held(store, a)
       /\ Contents(UseOrder) = Held(store, b)
  BY <1>4, <1>5, ContentsAreHeld
<1>15. /\ Contents(AgeOrder)' = <<Incoming>> \o Contents(AgeOrder)
       /\ Contents(UseOrder)' = Append(Contents(UseOrder), Incoming)
  BY <1>1, <1>6, <1>7, <1>10, <1>12, <1>13, <1>14, <1>18, <1>19
<1>16. ~(Cache!SizeOf(Contents(AgeOrder)) + Incoming.size > MaxCacheSize)
  <2>1. ~(total_size + body[t].size > MaxCacheSize)
    BY DEF Insert, Overfull
  <2>2. QED
    BY <1>1, <2>1 DEF SizeInv
<1>17. QED
  BY <1>1, <1>2, <1>15, <1>16
     DEF Cache!FinishAdd, Cache!Overfull, Incoming, Asked, Answers

\* Initially the cache is empty and nothing is asked.
LEMMA RefinesInit == Init => Cache!LruInit
<1> SUFFICES ASSUME Init PROVE Cache!LruInit
  OBVIOUS
<1>1. AgeOrder = <<>> /\ UseOrder = <<>>
  BY OrderInvInit
<1>2. Contents(<<>>) = <<>>
  BY DEF Contents
<1>3. Incoming = NoEntry
  <2>1. Adding = {}
    BY DEF Init, Adding
  <2>2. QED
    BY <2>1 DEF Incoming
<1>4. Asked = [t \in Threads |-> NoKey]
  BY DEF Init, Asked
<1>5. Answers = [t \in Threads |-> NoEntry]
  <2>1. \A t \in Threads : AnswerOf(t) = NoEntry
    BY DEF Init, AnswerOf
  <2>2. QED
    BY <2>1 DEF Answers
<1>6. Contents(AgeOrder) = <<>> /\ Contents(UseOrder) = <<>>
  BY <1>1, <1>2
<1>7. QED
  BY <1>3, <1>4, <1>5, <1>6 DEF Cache!LruInit, Incoming, Asked, Answers

LEMMA RefinesNext ==
    ASSUME CacheInv, CacheInv', [Next]_vars
    PROVE  [Cache!LruNext]_Cache!lruVars
<1>1. ASSUME NEW t \in Threads, Request(t) PROVE Cache!LruNext
  <2>1. PICK k \in Keys : Cache!Ask(t, k)
    BY <1>1, RequestRefines
  <2>2. QED
    BY <2>1 DEF Cache!LruNext
<1>2. ASSUME NEW t \in Threads, ScanEnd(t) PROVE Cache!LruNext
  <2>1. Cache!Miss(t)
    BY <1>2, ScanEndRefines
  <2>2. QED
    BY <2>1 DEF Cache!LruNext
<1>3. ASSUME NEW t \in Threads, TouchRemove(t) PROVE Cache!LruNext
  <2>1. Cache!Hit(t)
    BY <1>3, TouchRemoveRefines
  <2>2. QED
    BY <2>1 DEF Cache!LruNext
<1>4. ASSUME NEW t \in Threads, AddWait(t) PROVE Cache!LruNext
  <2>1. PICK e \in Entries : Cache!BeginAdd(e)
    BY <1>4, AddWaitRefines
  <2>2. QED
    BY <2>1 DEF Cache!LruNext
<1>5. ASSUME NEW t \in Threads, Evict(t) PROVE Cache!LruNext
  BY <1>5, EvictRefines DEF Cache!LruNext
<1>6. ASSUME NEW t \in Threads, Insert(t) PROVE Cache!LruNext
  BY <1>6, InsertRefines DEF Cache!LruNext
<1>7. ASSUME NEW t \in Threads, Request(t) \/ Serve(t),
             ~Request(t), ~ScanEnd(t), ~TouchRemove(t), ~AddWait(t), ~Evict(t),
             ~Insert(t)
      PROVE  UNCHANGED Cache!lruVars
  BY <1>7, QuietRefines, UnseenIs
<1>8. CASE UNCHANGED vars
  BY <1>8
     DEF vars, dataVars, callVars, Cache!lruVars, Contents, AgeOrder,
         UseOrder, BeingTouched, Adding, AnswerOf
<1>9. QED
  BY <1>1, <1>2, <1>3, <1>4, <1>5, <1>6, <1>7, <1>8 DEF Next

\* cache.c: with any number of threads, keys and nodes, a lookup hits exactly
\* if its key is stored and returns the newest entry for it, each use moves the
\* entry to the end of the eviction order, and an addition evicts just the
\* least recently used entries it must.
THEOREM CacheIsLru == Spec => RefinesLruCache
<1>1. Init => CacheInv
  BY CacheInvInit
<1>2. CacheInv /\ [Next]_vars => CacheInv'
  BY CacheInvNext
<1>3. Init => Cache!LruInit
  BY RefinesInit
<1>4. CacheInv /\ CacheInv' /\ [Next]_vars => [Cache!LruNext]_Cache!lruVars
  BY RefinesNext
<1>5. QED
  BY <1>1, <1>2, <1>3, <1>4, PTL DEF Spec, RefinesLruCache, Cache!LruSpec
=============================================================================
