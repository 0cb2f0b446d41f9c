------------------------------ MODULE MmProofs ------------------------------
(***************************************************************************)
(* Proofs about the allocator of malloclab.                                *)
(*                                                                         *)
(* A heap is sound (Sound) when there are a set T of addresses that cut it *)
(* into blocks (Cuts), a subset U of them, the blocks in use, with which   *)
(* every tag agrees (Tagged), no two neighbours outside U (Alternates),    *)
(* and the free list runs through T \ U, each block once, in both          *)
(* directions (Lists).  T and U are what the code never has in one place:  *)
(* every function of mm.c is shown to lead from one sound heap to another  *)
(* by naming the new T and U, and to keep the payload of the other blocks  *)
(* (KeptAll).  Between the calls of one function the heap need not be      *)
(* sound: a block being merged is in no list (Loose).                      *)
(***************************************************************************)
EXTENDS Mm, FiniteSetTheorems, SequenceTheorems, FunctionTheorems, TLAPS
-----------------------------------------------------------------------------
(* Natural numbers.                                                          *)

\* Of the numbers in a set there is a least, which stands for an induction.
LEMMA LeastExists ==
    ASSUME NEW T \in SUBSET Nat, T # {}
    PROVE  \E x \in T : \A y \in T : x <= y
<1>1. IsWellFoundedOn(OpToRel(<, Nat), Nat)
  BY NatLessThanWellFounded
<1>2. PICK x \in T : \A y \in T : ~(<<y, x>> \in OpToRel(<, Nat))
  BY <1>1, WFMin
<1>3. ASSUME NEW y \in T PROVE x <= y
  <2>1. ~(<<y, x>> \in OpToRel(<, Nat))
    BY <1>2
  <2>2. QED
    BY <2>1 DEF OpToRel
<1>4. QED
  BY <1>3
-----------------------------------------------------------------------------
(* Tags.                                                                     *)

Word == -1 .. WORD - 1
Heaps == [mem : [Units -> Word], brk : 0 .. MAX_HEAP, free_list_head : Word]

\* What the assumptions on the constants come to.
LEMMA Numbers ==
    /\ MAX_HEAP \in Nat /\ MAX_HEAP >= 24 /\ WORD \in Nat /\ WORD >= 256
    /\ 2 * MAX_HEAP < WORD /\ WORD % 2 = 0 /\ CHUNKSIZE \in Nat
    /\ CHUNKSIZE % 8 = 0 /\ CHUNKSIZE <= MAX_HEAP
BY WordAssumption, HeapAssumption, ChunkAssumption

\* The words of the heap begin at the multiples of eight.
LEMMA UnitsAre ==
    ASSUME NEW p
    PROVE  p \in Units <=> p \in Nat /\ p % 8 = 0 /\ p < MAX_HEAP
BY Numbers DEF Units


\* A footer is the tag of a size.
LEMMA FooterParts ==
    ASSUME NEW size \in Int, size % 8 = 0
    PROVE  PACK_FTR(size) - (PACK_FTR(size) % 8) = size
BY DEF PACK_FTR

\* What setting and clearing the bit of the block before leave as they are.
LEMMA TagBits ==
    ASSUME NEW x \in Int
    PROVE  /\ x % 2 \in {0, 1} /\ (x \div 2) % 2 \in {0, 1}
           /\ (x - (x % 8)) % 8 = 0 /\ x % 8 \in 0 .. 7
OBVIOUS

\* UNSET_PREV_ALLOC changes that bit and no other.
LEMMA ClearBit ==
    ASSUME NEW x \in Int, NEW y, y = x - (2 * ((x \div 2) % 2))
    PROVE  /\ y \in Int /\ y - (y % 8) = x - (x % 8) /\ y % 2 = x % 2
           /\ (y \div 2) % 2 = 0 /\ y >= x - (x % 8) /\ y <= x
OBVIOUS

\* SET_PREV_ALLOC changes that bit and no other.
LEMMA SetBit ==
    ASSUME NEW x \in Int, NEW y, y = x + (2 * (1 - ((x \div 2) % 2)))
    PROVE  /\ y \in Int /\ y - (y % 8) = x - (x % 8) /\ y % 2 = x % 2
           /\ (y \div 2) % 2 = 1 /\ y >= x /\ y <= (x - (x % 8)) + 7
OBVIOUS

\* Writing a word.
LEMMA PutIs ==
    ASSUME NEW h \in Heaps, NEW p \in Units, NEW val \in Word,
           NEW g, g = PUT(h, p, val)
    PROVE  /\ g \in Heaps /\ g.brk = h.brk
           /\ g.free_list_head = h.free_list_head
           /\ g.mem[p] = val
           /\ \A a \in Units : a # p => g.mem[a] = h.mem[a]
BY DEF PUT, Heaps

\* Two heaps that differ in some words only.
SameBut(g, h, words) ==
    /\ g \in Heaps /\ h \in Heaps /\ h.brk = g.brk
    /\ \A a \in Units : a \notin words => h.mem[a] = g.mem[a]
-----------------------------------------------------------------------------
(* The heap is cut into blocks: what matters of the cuts.  A cut is where    *)
(* the payload of a block begins, the last is the end of the heap.           *)

Cuts(T, brk) ==
    /\ T \subseteq 8 .. brk /\ brk <= MAX_HEAP /\ brk \in Nat
    /\ heap_listp \in T /\ 24 \in T /\ brk \in T
    /\ \A t \in T : t % 8 = 0 /\ (t = heap_listp \/ t >= 24)
    /\ \A t, u \in T : t < u /\ t # heap_listp => t + MinBlock <= u

\* Neighbours: the block p ends where q begins.
Adj(T, p, q) ==
    /\ p \in T /\ q \in T /\ p < q
    /\ \A r \in T : r <= p \/ q <= r

\* Every block but the last has a next one.
LEMMA NextExists ==
    ASSUME NEW T, NEW brk, Cuts(T, brk), NEW p \in T, p # brk
    PROVE  \E q : Adj(T, p, q)
<1> DEFINE After == {t \in T : p < t}
<1>1. After \in SUBSET Nat /\ brk \in After
  <2>1. T \subseteq 8 .. brk /\ brk \in T /\ brk \in Nat
    BY DEF Cuts
  <2>2. \A t \in T : t \in Nat /\ t <= brk
    BY <2>1
  <2>3. p < brk
    BY <2>1, <2>2
  <2>4. QED
    BY <2>1, <2>2, <2>3
<1>2. PICK q \in After : \A t \in After : q <= t
  <2> HIDE DEF After
  <2>1. QED
    BY <1>1, LeastExists
<1>3. \A t \in T : t \in Nat /\ p \in Nat /\ q \in Nat
  BY <1>2 DEF Cuts
<1>4. \A r \in T : r <= p \/ q <= r
  BY <1>2, <1>3
<1>5. QED
  BY <1>2, <1>4 DEF Adj

\* Every block but the first has one before it.
LEMMA PreviousExists ==
    ASSUME NEW T, NEW brk, Cuts(T, brk), NEW q \in T, q # heap_listp
    PROVE  \E p : Adj(T, p, q)
<1> DEFINE Before == {n \in Nat : \E t \in T : t < q /\ n = q - t}
<1>1. /\ Before \in SUBSET Nat
      /\ \A t \in T : t \in Nat /\ t <= brk /\ t >= 8
      /\ q \in Nat /\ heap_listp \in T
  BY DEF Cuts
<1>2. q - heap_listp \in Before
  BY <1>1 DEF heap_listp, SIZE_T_SIZE
<1>3. PICK n \in Before : \A m \in Before : n <= m
  <2> HIDE DEF Before
  <2>1. QED
    BY <1>1, <1>2, LeastExists
<1>4. PICK p \in T : p < q /\ n = q - p
  BY <1>3
<1>5. ASSUME NEW r \in T, ~(r <= p), ~(q <= r) PROVE FALSE
  <2>1. q - r \in Before /\ ~(n <= q - r)
    BY <1>1, <1>4, <1>5
  <2>2. QED
    BY <1>3, <2>1
<1>6. QED
  BY <1>4, <1>5 DEF Adj

\* They are unique.
LEMMA NeighboursUnique ==
    ASSUME NEW T, NEW brk, Cuts(T, brk), NEW p, NEW q, Adj(T, p, q), NEW r
    PROVE  (Adj(T, p, r) => r = q) /\ (Adj(T, r, q) => r = p)
<1>1. T \subseteq 8 .. brk /\ brk \in Nat
  BY DEF Cuts
<1>2. \A t \in T : t \in Nat
  BY <1>1
<1>3. QED
  BY <1>2 DEF Adj

\* What is known of two neighbours and a third block, or end of the heap.
LEMMA Spaced ==
    ASSUME NEW T, NEW brk, Cuts(T, brk), NEW p, NEW q, Adj(T, p, q)
    PROVE  /\ p \in Nat /\ q \in Nat /\ p % 8 = 0 /\ q % 8 = 0 /\ p >= 8
           /\ p < q /\ q >= 24 /\ q <= brk /\ brk <= MAX_HEAP /\ brk \in Nat
           /\ p # heap_listp => p >= 24 /\ p + 32 <= q
           /\ p = heap_listp => q = 24
           /\ \A r \in T : r = p \/ r >= q \/ r + 32 <= p
                                           \/ (r = heap_listp /\ r < p)
<1>1. /\ p \in T /\ q \in T /\ p < q /\ \A r \in T : r <= p \/ q <= r
  BY DEF Adj
<1>2. /\ T \subseteq 8 .. brk /\ brk <= MAX_HEAP /\ brk \in Nat
      /\ 24 \in T /\ \A t \in T : t % 8 = 0 /\ (t = 8 \/ t >= 24)
      /\ \A t, u \in T : t < u /\ t # 8 => t + 32 <= u
  BY DEF Cuts, heap_listp, MinBlock, SIZE_T_SIZE, PTR_SIZE
<1>3. \A r \in T : r \in Nat
  BY <1>2
<1>4. QED
  BY <1>1, <1>2, <1>3 DEF heap_listp, SIZE_T_SIZE

\* The words of a block lie in the memory, and no two of them are one.
LEMMA CutWords ==
    ASSUME NEW T, NEW brk, Cuts(T, brk), NEW t \in T
    PROVE  /\ HDRP(t) \in Units /\ HDRP(t) = t - 8
           /\ t # heap_listp => t - 16 \in Units
           /\ t # heap_listp /\ t # brk => t \in Units /\ t + 8 \in Units
           /\ t # brk => t \in Units
           /\ t \in Nat /\ t % 8 = 0 /\ t <= brk /\ t >= 8
<1>1. /\ t \in Nat /\ t % 8 = 0 /\ t <= brk /\ t >= 8 /\ brk <= MAX_HEAP
      /\ brk \in Nat /\ (t = 8 \/ t >= 24) /\ brk \in T
      /\ t < brk /\ t # 8 => t + 32 <= brk
  BY DEF Cuts, heap_listp, MinBlock, SIZE_T_SIZE, PTR_SIZE
<1>2. MAX_HEAP \in Nat /\ MAX_HEAP >= 24
  BY Numbers
<1>3. /\ t - 8 \in Nat /\ (t - 8) % 8 = 0 /\ t - 8 < MAX_HEAP
  BY <1>1, <1>2
<1>4. t # 8 => t - 16 \in Nat /\ (t - 16) % 8 = 0 /\ t - 16 < MAX_HEAP
  BY <1>1, <1>2
<1>5. t # brk => t < MAX_HEAP
  BY <1>1, <1>2
<1>6. t # 8 /\ t # brk => t + 8 \in Nat /\ (t + 8) % 8 = 0 /\ t + 8 < MAX_HEAP
  BY <1>1, <1>2
<1>7. QED
  BY <1>1, <1>3, <1>4, <1>5, <1>6, UnitsAre
  DEF HDRP, SIZE_T_SIZE, heap_listp
-----------------------------------------------------------------------------
(* The free list: its nodes are the free blocks F, the i-th of them L[i].    *)

Listing(h, n, L, F) ==
    /\ n \in Nat /\ L \in [1 .. n -> F]
    /\ \A x \in F : \E i \in 1 .. n : L[i] = x
    /\ \A i, j \in 1 .. n : L[i] = L[j] => i = j
    /\ h.free_list_head = IF n = 0 THEN NULL ELSE L[1]
    /\ \A i \in 1 .. n :
        /\ h.mem[L[i]] = IF i = 1 THEN NULL ELSE L[i - 1]
        /\ h.mem[L[i] + 8] = IF i = n THEN NULL ELSE L[i + 1]

\* The words of their links.
LinkWords(F) == {a \in Units : a \in F \/ a - 8 \in F}

\* Blocks that may be free.
Inner(T, brk) == T \ {heap_listp, brk}

\* The links of two blocks are apart.
LEMMA LinksApart ==
    ASSUME NEW T, NEW brk, Cuts(T, brk), NEW x \in Inner(T, brk)
    PROVE  /\ x \in Units /\ x + 8 \in Units /\ x \in Word /\ x \in Nat
           /\ x # NULL /\ NULL \in Word
           /\ \A y \in Inner(T, brk) : x # y + 8 /\ y \in Nat
<1>1. /\ x \in Units /\ x + 8 \in Units /\ x \in Nat /\ x <= brk /\ x >= 8
  BY CutWords DEF Inner
<1>2. brk <= MAX_HEAP /\ brk \in Nat
  BY DEF Cuts
<1>3. x \in Word /\ NULL \in Word /\ x # NULL
  BY <1>1, <1>2, Numbers DEF Word, NULL
<1>4. ASSUME NEW y \in Inner(T, brk) PROVE x # y + 8 /\ y \in Nat
  <2>1. y \in Nat /\ x \in T /\ y \in T /\ x # 8 /\ y # 8
    BY CutWords DEF Inner, heap_listp, SIZE_T_SIZE
  <2>2. (x < y => x + 32 <= y) /\ (y < x => y + 32 <= x)
    BY <2>1 DEF Cuts, heap_listp, SIZE_T_SIZE, MinBlock, PTR_SIZE
  <2>3. QED
    BY <1>1, <2>1, <2>2
<1>5. QED
  BY <1>1, <1>3, <1>4

\* Links are written, tags are not.
LinksOnly(g, h, F) == SameBut(g, h, LinkWords(F))

\* add_to_free_list puts a block in front of the list.
LEMMA AddLists ==
    ASSUME NEW T, NEW h, h \in Heaps, Cuts(T, h.brk), NEW F, NEW n, NEW L,
           F \subseteq Inner(T, h.brk), Listing(h, n, L, F),
           NEW bp \in Inner(T, h.brk), bp \notin F,
           NEW g, g = add_to_free_list(h, bp)
    PROVE  /\ LinksOnly(h, g, F \cup {bp})
           /\ \E m, M : Listing(g, m, M, F \cup {bp})
<1> DEFINE G == F \cup {bp}
<1>1. \A x \in G :
        /\ x \in Units /\ x + 8 \in Units /\ x \in Word /\ x \in Nat
        /\ x # NULL /\ NULL \in Word
        /\ \A y \in G : x # y + 8 /\ y \in Nat
  BY LinksApart
<1>2. PICK first : first = h.free_list_head
  OBVIOUS
<1>3. /\ n \in Nat /\ L \in [1 .. n -> F]
      /\ first = IF n = 0 THEN NULL ELSE L[1]
      /\ n # 0 => 1 \in 1 .. n
  BY <1>2 DEF Listing
<1>4. (n # 0 => first \in F) /\ (n = 0 => first = NULL) /\ first \in Word
  BY <1>1, <1>3
<1>5. PICK a : a = PUT(h, bp, NULL)
  OBVIOUS
<1>6. PICK b : b = PUT(a, bp + 8, first)
  OBVIOUS
<1>7. PICK c : c = IF first # NULL THEN PUT(b, first, bp) ELSE b
  OBVIOUS
<1>8. g = [c EXCEPT !.free_list_head = bp]
  BY <1>2, <1>5, <1>6, <1>7
  DEF add_to_free_list, PREV_FREEP, NEXT_FREEP, PTR_SIZE
<1>9. /\ a \in Heaps /\ a.brk = h.brk /\ a.mem[bp] = NULL
      /\ \A w \in Units : w # bp => a.mem[w] = h.mem[w]
  <2>1. bp \in Units /\ NULL \in Word
    BY <1>1
  <2>2. QED
    BY <1>5, <2>1, PutIs
<1>10. /\ b \in Heaps /\ b.brk = h.brk /\ b.mem[bp + 8] = first
       /\ \A w \in Units : w # bp + 8 => b.mem[w] = a.mem[w]
  <2>1. PICK p \in Units : p = bp + 8
    BY <1>1
  <2>2. QED
    BY <1>4, <1>6, <1>9, <2>1, PutIs
<1>11. /\ c \in Heaps /\ c.brk = h.brk
       /\ n # 0 => c.mem[first] = bp
       /\ \A w \in Units : n = 0 \/ w # first => c.mem[w] = b.mem[w]
  <2>1. CASE n = 0
    BY <1>4, <1>7, <1>10, <2>1
  <2>2. CASE n # 0
    <3>1. first \in Units /\ bp \in Word /\ c = PUT(b, first, bp)
      BY <1>1, <1>4, <1>7, <2>2
    <3>2. QED
      BY <1>10, <2>2, <3>1, PutIs
  <2>3. QED
    BY <2>1, <2>2
<1>12. /\ g \in Heaps /\ g.brk = h.brk /\ g.free_list_head = bp
       /\ g.mem = c.mem
  BY <1>1, <1>8, <1>11 DEF Heaps
<1>13. /\ g.mem[bp] = NULL /\ g.mem[bp + 8] = first
       /\ n # 0 => g.mem[first] = bp
       /\ \A w \in Units : w # bp /\ w # bp + 8 /\ (n = 0 \/ w # first)
                              => g.mem[w] = h.mem[w]
  BY <1>1, <1>4, <1>9, <1>10, <1>11, <1>12
<1>14. LinksOnly(h, g, G)
  <2>1. \A w \in Units : w \notin LinkWords(G) =>
            w # bp /\ w # bp + 8 /\ (n = 0 \/ w # first)
    BY <1>1, <1>4 DEF LinkWords
  <2>2. QED
    BY <1>12, <1>13, <2>1 DEF LinksOnly, SameBut
<1> DEFINE m == n + 1
           M == [i \in 1 .. m |-> IF i = 1 THEN bp ELSE L[i - 1]]
<1>15. /\ M[1] = bp /\ m \in Nat
       /\ \A i \in 2 .. m : M[i] = L[i - 1] /\ i - 1 \in 1 .. n
                            /\ L[i - 1] \in F
       /\ \A i \in 1 .. m : i = 1 \/ i \in 2 .. m
       /\ \A i \in 1 .. n : L[i] \in F
  BY <1>3
<1>16. M \in [1 .. m -> G]
  BY <1>3
<1> HIDE DEF M
<1>17. \A x \in G : \E i \in 1 .. m : M[i] = x
  <2>1. ASSUME NEW x \in F PROVE \E i \in 1 .. m : M[i] = x
    <3>1. PICK i \in 1 .. n : L[i] = x
      BY DEF Listing
    <3>2. i + 1 \in 2 .. m /\ i + 1 \in 1 .. m /\ (i + 1) - 1 = i
      BY <1>3
    <3>3. QED
      BY <1>15, <3>1, <3>2
  <2>2. 1 \in 1 .. m
    BY <1>3
  <2>3. QED
    BY <1>15, <2>1, <2>2
<1>18. \A i, j \in 1 .. m : M[i] = M[j] => i = j
  <2>1. \A i, j \in 2 .. m : M[i] = M[j] => i = j
    BY <1>3, <1>15 DEF Listing
  <2>2. \A i \in 2 .. m : M[i] # bp
    BY <1>15
  <2>3. QED
    BY <1>15, <2>1, <2>2
<1>19. ASSUME NEW i \in 1 .. m
       PROVE  /\ g.mem[M[i]] = IF i = 1 THEN NULL ELSE M[i - 1]
              /\ g.mem[M[i] + 8] = IF i = m THEN NULL ELSE M[i + 1]
  <2>1. CASE i = 1
    <3>1. n # 0 => 2 \in 2 .. m /\ M[2] = L[1]
      BY <1>3, <1>15
    <3>2. 1 = m <=> n = 0
      BY <1>3
    <3>3. QED
      BY <1>3, <1>13, <1>15, <2>1, <3>1, <3>2
  <2>2. CASE i # 1
    <3>1. /\ i \in 2 .. m /\ i - 1 \in 1 .. n /\ M[i] = L[i - 1]
          /\ L[i - 1] \in F /\ n # 0
      BY <1>3, <1>15, <2>2
    <3>2. PICK x \in F : x = L[i - 1]
      BY <3>1
    <3>3. /\ h.mem[x] = IF i - 1 = 1 THEN NULL ELSE L[(i - 1) - 1]
          /\ h.mem[x + 8] = IF i - 1 = n THEN NULL ELSE L[(i - 1) + 1]
      BY <3>1, <3>2 DEF Listing
    <3>4. /\ x \in Units /\ x + 8 \in Units /\ x # bp /\ x # bp + 8
          /\ x + 8 # bp /\ x + 8 # bp + 8 /\ x + 8 # first
      BY <1>1, <1>4, <3>1
    <3>5. g.mem[x + 8] = h.mem[x + 8]
      BY <1>13, <3>4
    <3>6. g.mem[x + 8] = IF i = m THEN NULL ELSE M[i + 1]
      <4>1. CASE i = m
        BY <1>3, <3>3, <3>5, <4>1
      <4>2. CASE i # m
        <5>1. i + 1 \in 2 .. m /\ (i + 1) - 1 = i /\ i - 1 # n
              /\ (i - 1) + 1 = i
          BY <1>3, <3>1, <4>2
        <5>2. QED
          BY <1>15, <3>3, <3>5, <4>2, <5>1
      <4>3. QED
        BY <4>1, <4>2
    <3>7. g.mem[x] = M[i - 1]
      <4>1. CASE i = 2
        BY <1>3, <1>13, <1>15, <3>1, <3>2, <4>1
      <4>2. CASE i # 2
        <5>1. /\ i - 1 \in 2 .. m /\ (i - 1) - 1 \in 1 .. n /\ i - 1 # 1
              /\ 1 \in 1 .. n
          BY <1>3, <3>1, <4>2
        <5>2. x # first
          BY <1>3, <3>1, <3>2, <5>1 DEF Listing
        <5>3. g.mem[x] = h.mem[x]
          BY <1>13, <3>4, <5>2
        <5>4. QED
          BY <1>15, <3>3, <5>1, <5>3
      <4>3. QED
        BY <4>1, <4>2
    <3>8. QED
      BY <2>2, <3>1, <3>2, <3>6, <3>7
  <2>3. QED
    BY <2>1, <2>2
<1>20. g.free_list_head = IF m = 0 THEN NULL ELSE M[1]
  BY <1>3, <1>12, <1>15
<1>21. Listing(g, m, M, G)
  <2> HIDE DEF m, G
  <2>1. QED
    BY <1>15, <1>16, <1>17, <1>18, <1>19, <1>20 DEF Listing
<1>22. QED
  BY <1>14, <1>21
\* A block leaves the list: its neighbours there become neighbours.
LEMMA RemoveLists ==
    ASSUME NEW T, NEW h, h \in Heaps, Cuts(T, h.brk), NEW F, NEW n, NEW L,
           F \subseteq Inner(T, h.brk), Listing(h, n, L, F),
           NEW bp \in F, NEW g, g = remove_from_free_list(h, bp)
    PROVE  /\ LinksOnly(h, g, F)
           /\ \E m, M : Listing(g, m, M, F \ {bp})
<1>1. \A x \in F :
        /\ x \in Units /\ x + 8 \in Units /\ x \in Word /\ x \in Nat
        /\ x # NULL /\ NULL \in Word
        /\ \A y \in F : x # y + 8 /\ y \in Nat
  BY LinksApart
<1>2. PICK k \in 1 .. n : L[k] = bp
  BY DEF Listing
<1>3. /\ n \in Nat /\ n # 0 /\ k \in Nat /\ L \in [1 .. n -> F]
      /\ \A i \in 1 .. n : L[i] \in F /\ i \in Nat
      /\ \A i, j \in 1 .. n : L[i] = L[j] => i = j
      /\ h.free_list_head = L[1]
      /\ \A i \in 1 .. n :
           /\ h.mem[L[i]] = IF i = 1 THEN NULL ELSE L[i - 1]
           /\ h.mem[L[i] + 8] = IF i = n THEN NULL ELSE L[i + 1]
  BY <1>2 DEF Listing
<1>4. PICK prev : prev = IF k = 1 THEN NULL ELSE L[k - 1]
  OBVIOUS
<1>5. PICK next : next = IF k = n THEN NULL ELSE L[k + 1]
  OBVIOUS
<1>6. /\ GET(h, PREV_FREEP(bp)) = prev /\ GET(h, NEXT_FREEP(bp)) = next
  BY <1>2, <1>3, <1>4, <1>5 DEF GET, PREV_FREEP, NEXT_FREEP, PTR_SIZE
<1>7. /\ k # 1 => k - 1 \in 1 .. n /\ prev \in F /\ prev # NULL
      /\ k = 1 => prev = NULL
      /\ k # n => k + 1 \in 1 .. n /\ next \in F /\ next # NULL
      /\ k = n => next = NULL
      /\ prev \in Word /\ next \in Word
  <2>1. k # 1 => k - 1 \in 1 .. n
    BY <1>2, <1>3
  <2>2. k # n => k + 1 \in 1 .. n
    BY <1>2, <1>3
  <2>3. k # 1 => prev \in F
    BY <1>3, <1>4, <2>1
  <2>4. k # n => next \in F
    BY <1>3, <1>5, <2>2
  <2>5. NULL \in Word
    BY <1>1
  <2>6. QED
    BY <1>1, <1>4, <1>5, <2>1, <2>2, <2>3, <2>4, <2>5
<1>8. PICK a : a = IF prev # NULL THEN PUT(h, NEXT_FREEP(prev), next)
                                  ELSE [h EXCEPT !.free_list_head = next]
  OBVIOUS
<1>9. g = IF next # NULL THEN PUT(a, PREV_FREEP(next), prev) ELSE a
  BY <1>6, <1>8 DEF remove_from_free_list
<1>10. /\ a \in Heaps /\ a.brk = h.brk
       /\ a.free_list_head = IF k = 1 THEN next ELSE h.free_list_head
       /\ k # 1 => a.mem[prev + 8] = next
       /\ \A w \in Units : k = 1 \/ w # prev + 8 => a.mem[w] = h.mem[w]
  <2>1. CASE k = 1
    BY <1>7, <1>8, <2>1 DEF Heaps
  <2>2. CASE k # 1
    <3>1. PICK p \in Units : p = prev + 8
      BY <1>1, <1>7, <2>2
    <3>2. a = PUT(h, p, next)
      BY <1>7, <1>8, <2>2, <3>1 DEF NEXT_FREEP, PTR_SIZE
    <3>3. next \in Word
      BY <1>7
    <3>4. /\ a \in Heaps /\ a.brk = h.brk
          /\ a.free_list_head = h.free_list_head /\ a.mem[p] = next
          /\ \A w \in Units : w # p => a.mem[w] = h.mem[w]
      BY <3>2, <3>3, PutIs
    <3>5. QED
      BY <2>2, <3>1, <3>4
  <2>3. QED
    BY <2>1, <2>2
<1>11. /\ g \in Heaps /\ g.brk = h.brk
       /\ g.free_list_head = IF k = 1 THEN next ELSE h.free_list_head
       /\ k # n => g.mem[next] = prev
       /\ \A w \in Units : k = n \/ w # next => g.mem[w] = a.mem[w]
  <2>1. CASE k = n
    BY <1>7, <1>9, <1>10, <2>1
  <2>2. CASE k # n
    <3>1. next \in Units /\ g = PUT(a, next, prev)
      BY <1>1, <1>7, <1>9, <2>2 DEF PREV_FREEP
    <3>2. QED
      BY <1>7, <1>10, <2>2, <3>1, PutIs, SMTT(30)
  <2>3. QED
    BY <2>1, <2>2
<1>12. k # 1 /\ k # n => prev + 8 # next
  BY <1>1, <1>7
<1>13. /\ k # 1 => g.mem[prev + 8] = next
       /\ \A w \in Units : (k = 1 \/ w # prev + 8) /\ (k = n \/ w # next)
                              => g.mem[w] = h.mem[w]
  <2>1. k # 1 => prev + 8 \in Units
    BY <1>1, <1>7
  <2>2. QED
    BY <1>10, <1>11, <1>12, <2>1
<1>14. LinksOnly(h, g, F)
  <2>1. ASSUME NEW w \in Units, w \notin LinkWords(F)
        PROVE  (k = 1 \/ w # prev + 8) /\ (k = n \/ w # next)
    <3>1. w \notin F /\ w - 8 \notin F
      BY <2>1 DEF LinkWords
    <3>2. k # 1 => (prev + 8) - 8 = prev
      BY <1>1, <1>7
    <3>3. QED
      BY <1>7, <3>1, <3>2
  <2>2. QED
    BY <1>11, <1>13, <2>1 DEF LinksOnly, SameBut
<1> DEFINE m == n - 1
           S(i) == IF i < k THEN i ELSE i + 1
           M == [i \in 1 .. m |-> L[S(i)]]
<1>15. /\ m \in Nat
       /\ \A i \in 1 .. m : /\ S(i) \in 1 .. n /\ S(i) # k /\ i \in Nat
                            /\ (i = 1 /\ k # 1 => S(i) = 1)
                            /\ (i = 1 /\ k = 1 => S(i) = 2)
       /\ \A i, j \in 1 .. m : S(i) = S(j) => i = j
       /\ \A i \in 1 .. n : i # k => \E j \in 1 .. m : S(j) = i
  <2>1. m \in Nat
    BY <1>3
  <2>2. ASSUME NEW i \in 1 .. n, i # k PROVE \E j \in 1 .. m : S(j) = i
    <3>1. CASE i < k
      <4>1. i \in 1 .. m /\ S(i) = i
        BY <1>2, <1>3, <3>1
      <4>2. QED
        BY <4>1
    <3>2. CASE ~(i < k)
      <4>1. i - 1 \in 1 .. m /\ ~(i - 1 < k) /\ (i - 1) + 1 = i
        BY <1>2, <1>3, <2>2, <3>2
      <4>2. S(i - 1) = i
        BY <4>1
      <4>3. QED
        BY <4>1, <4>2
    <3>3. QED
      BY <3>1, <3>2
  <2>3. \A i \in 1 .. m : /\ S(i) \in 1 .. n /\ S(i) # k /\ i \in Nat
                         /\ (i = 1 /\ k # 1 => S(i) = 1)
                         /\ (i = 1 /\ k = 1 => S(i) = 2)
    BY <1>2, <1>3
  <2>4. \A i, j \in 1 .. m : S(i) = S(j) => i = j
    BY <1>2, <1>3
  <2>5. QED
    BY <2>1, <2>2, <2>3, <2>4
<1>16. \A i \in 1 .. m : M[i] = L[S(i)] /\ M[i] \in F /\ M[i] # bp
  BY <1>2, <1>3, <1>15
<1>17. M \in [1 .. m -> F \ {bp}]
  BY <1>16
<1>18. \A x \in F \ {bp} : \E i \in 1 .. m : M[i] = x
  <2> SUFFICES ASSUME NEW x \in F \ {bp} PROVE \E i \in 1 .. m : M[i] = x
    OBVIOUS
  <2>1. PICK i \in 1 .. n : L[i] = x
    BY DEF Listing
  <2>2. i # k
    BY <1>2, <2>1
  <2>3. PICK j \in 1 .. m : S(j) = i
    BY <1>15, <2>2
  <2>4. QED
    BY <1>16, <2>1, <2>3
<1>19. \A i, j \in 1 .. m : M[i] = M[j] => i = j
  <2> HIDE DEF M
  <2>1. \A i, j \in 1 .. m : L[S(i)] = L[S(j)] => S(i) = S(j)
    <3> HIDE DEF S
    <3>1. QED
      BY <1>3, <1>15
  <2> HIDE DEF S
  <2>2. QED
    BY <1>15, <1>16, <2>1
<1> HIDE DEF M
<1>20. ASSUME NEW i \in 1 .. m
       PROVE  g.mem[M[i]] = IF i = 1 THEN NULL ELSE M[i - 1]
  <2>1. PICK s \in 1 .. n : s = S(i)
    BY <1>15
  <2>2. PICK x \in F : x = L[s]
    BY <1>3
  <2>3. M[i] = x /\ x \in Units /\ s # k
    BY <1>1, <1>15, <1>16, <2>1, <2>2
  <2>4. k # 1 => x # prev + 8
    BY <1>1, <1>7
  <2>5. CASE k # n /\ s = k + 1
    <3>1. x = next /\ i = k
      BY <1>2, <1>3, <1>5, <2>1, <2>2, <2>5
    <3>2. g.mem[x] = prev
      BY <1>11, <2>5, <3>1
    <3>3. k # 1 => k - 1 \in 1 .. m /\ S(k - 1) = k - 1
      BY <1>2, <1>3
    <3>4. k # 1 => M[k - 1] = L[k - 1]
      BY <1>16, <3>3
    <3>5. QED
      BY <1>4, <2>3, <3>1, <3>2, <3>4
  <2>6. CASE ~(k # n /\ s = k + 1)
    <3>1. k # n => x # next
      BY <1>3, <1>5, <1>7, <2>2, <2>6
    <3>2. g.mem[x] = IF s = 1 THEN NULL ELSE L[s - 1]
      BY <1>3, <1>13, <2>2, <2>3, <2>4, <3>1, SMTT(30)
    <3>3. CASE i = 1
      <4>1. s = 1
        BY <1>2, <1>3, <2>1, <2>6, <3>3
      <4>2. QED
        BY <2>3, <3>2, <3>3, <4>1
    <3>4. CASE i # 1
      <4>1. i - 1 \in 1 .. m /\ S(i - 1) = s - 1 /\ s # 1
        BY <1>2, <1>3, <2>1, <2>6, <3>4
      <4>2. M[i - 1] = L[s - 1]
        BY <1>16, <4>1
      <4>3. QED
        BY <2>3, <3>2, <3>4, <4>1, <4>2
    <3>5. QED
      BY <3>3, <3>4
  <2>7. QED
    BY <2>5, <2>6
<1>21. ASSUME NEW i \in 1 .. m
       PROVE  g.mem[M[i] + 8] = IF i = m THEN NULL ELSE M[i + 1]
  <2>1. PICK s \in 1 .. n : s = S(i)
    BY <1>15
  <2>2. PICK x \in F : x = L[s]
    BY <1>3
  <2>3. M[i] = x /\ x + 8 \in Units /\ s # k
    BY <1>1, <1>15, <1>16, <2>1, <2>2
  <2>4. k # n => x + 8 # next
    BY <1>1, <1>7
  <2>5. CASE k # 1 /\ s = k - 1
    <3>1. x = prev /\ i = k - 1
      BY <1>2, <1>3, <1>4, <2>1, <2>2, <2>5
    <3>2. g.mem[x + 8] = next
      BY <1>13, <2>5, <3>1
    <3>3. CASE k = n
      BY <1>5, <1>3, <2>3, <3>1, <3>2, <3>3
    <3>4. CASE k # n
      <4>1. i # m /\ k \in 1 .. m /\ S(k) = k + 1 /\ i + 1 = k
        BY <1>2, <1>3, <3>1, <3>4
      <4>2. M[k] = L[k + 1]
        BY <1>16, <4>1
      <4>3. QED
        BY <1>5, <2>3, <3>2, <3>4, <4>1, <4>2
    <3>5. QED
      BY <3>3, <3>4
  <2>6. CASE ~(k # 1 /\ s = k - 1)
    <3>1. k # 1 => x + 8 # prev + 8
      <4>1. k # 1 => x # prev
        BY <1>3, <1>4, <1>7, <2>2, <2>6
      <4>2. k # 1 => prev \in Nat /\ x \in Nat
        BY <1>1, <1>7
      <4>3. QED
        BY <4>1, <4>2
    <3>2. g.mem[x + 8] = IF s = n THEN NULL ELSE L[s + 1]
      <4>1. g.mem[x + 8] = h.mem[x + 8]
        <5> HIDE DEF m, S
        <5>1. QED
          BY <1>13, <2>3, <2>4, <3>1
      <4>2. h.mem[x + 8] = IF s = n THEN NULL ELSE L[s + 1]
        BY <1>3, <2>2
      <4>3. QED
        BY <4>1, <4>2
    <3>3. CASE i = m
      <4>1. s = n
        BY <1>2, <1>3, <2>1, <2>6, <3>3
      <4>2. QED
        BY <2>3, <3>2, <3>3, <4>1
    <3>4. CASE i # m
      <4>1. i + 1 \in 1 .. m /\ S(i + 1) = s + 1 /\ s # n
        BY <1>2, <1>3, <2>1, <2>6, <3>4
      <4>2. M[i + 1] = L[s + 1]
        BY <1>16, <4>1
      <4>3. QED
        BY <2>3, <3>2, <3>4, <4>1, <4>2
    <3>5. QED
      BY <3>3, <3>4
  <2>7. QED
    BY <2>5, <2>6
<1>22. g.free_list_head = IF m = 0 THEN NULL ELSE M[1]
  <2>1. CASE m = 0
    BY <1>2, <1>3, <1>7, <1>11, <2>1
  <2>2. CASE m # 0
    <3>1. 1 \in 1 .. m /\ (k = 1 => k # n)
      BY <1>3, <2>2
    <3>2. M[1] = L[S(1)]
      BY <1>16, <3>1
    <3>3. QED
      BY <1>3, <1>5, <1>11, <1>15, <2>2, <3>1, <3>2
  <2>3. QED
    BY <2>1, <2>2
<1>23. Listing(g, m, M, F \ {bp})
  <2> HIDE DEF m
  <2>1. QED
    BY <1>15, <1>17, <1>18, <1>19, <1>20, <1>21, <1>22 DEF Listing
<1>24. QED
  BY <1>14, <1>23
-----------------------------------------------------------------------------
(* The tags tell the cuts T, and which blocks U are in use.                  *)

SizeAt(h, p) == GET_SIZE(h, HDRP(p))
UsedAt(h, p) == GET_ALLOC(h, HDRP(p)) = 1
UsedBefore(h, q) == GET_PREV_ALLOC(h, HDRP(q)) = 1

Told(h, U, p, q) ==
    /\ SizeAt(h, p) = q - p
    /\ UsedBefore(h, q) <=> p \in U
    /\ p \notin U => GET_SIZE(h, q - 16) = q - p

Tagged(h, T, U) ==
    /\ h \in Heaps /\ Cuts(T, h.brk)
    /\ U \subseteq T /\ heap_listp \in U /\ h.brk \in U
    /\ \A p, q \in T : Adj(T, p, q) => Told(h, U, p, q)
    /\ \A p \in T : UsedAt(h, p) <=> p \in U
    /\ SizeAt(h, h.brk) = 0

\* The size and the contents of a block in use stay.
Kept(g, h, p) ==
    /\ SizeAt(h, p) = SizeAt(g, p)
    /\ \A a \in Units :
        p <= a /\ a < p + SizeAt(g, p) - 8 => h.mem[a] = g.mem[a]

\* What is kept twice is kept.
LEMMA KeptTrans ==
    ASSUME NEW g, NEW h, NEW k, NEW p, Kept(g, h, p), Kept(h, k, p)
    PROVE  Kept(g, k, p)
BY DEF Kept

\* A block is kept where nothing is done.
LEMMA KeptSelf == ASSUME NEW h, NEW p PROVE Kept(h, h, p)
BY DEF Kept

\* What is said of a heap stays true of one with the same tags.
LEMMA TagsSame ==
    ASSUME NEW g, NEW h, NEW T, NEW U, Tagged(g, T, U), NEW W,
           SameBut(g, h, W),
           \A t \in T : t - 8 \notin W /\ (t # heap_listp => t - 16 \notin W)
    PROVE  Tagged(h, T, U)
<1>1. h \in Heaps /\ h.brk = g.brk /\ Cuts(T, g.brk)
  BY DEF SameBut, Tagged
<1>2. \A t \in T : h.mem[HDRP(t)] = g.mem[HDRP(t)]
  BY <1>1, CutWords DEF SameBut
<1>3. \A t \in T : t # heap_listp => h.mem[t - 16] = g.mem[t - 16]
  BY <1>1, CutWords DEF SameBut
<1>4. g.brk \in T
  BY DEF Cuts, Tagged
<1>5. \A p \in T : /\ SizeAt(h, p) = SizeAt(g, p)
                   /\ UsedAt(h, p) <=> UsedAt(g, p)
                   /\ UsedBefore(h, p) <=> UsedBefore(g, p)
  BY <1>2 DEF SizeAt, UsedAt, UsedBefore, GET_SIZE, GET_ALLOC, GET_PREV_ALLOC,
              GET
<1>6. ASSUME NEW p \in T, NEW q \in T, Adj(T, p, q) PROVE Told(h, U, p, q)
  <2>1. Told(g, U, p, q)
    BY <1>6 DEF Tagged
  <2>2. q # heap_listp
    BY <1>1, <1>6, Spaced DEF heap_listp, SIZE_T_SIZE
  <2>3. GET_SIZE(h, q - 16) = GET_SIZE(g, q - 16)
    BY <1>3, <2>2 DEF GET_SIZE, GET
  <2>4. QED
    BY <1>5, <2>1, <2>3 DEF Told
<1>7. QED
  BY <1>1, <1>4, <1>5, <1>6 DEF Tagged

\* A block is kept when nothing is written to its size and payload.
LEMMA KeptSame ==
    ASSUME NEW g, NEW h, NEW T, NEW U, Tagged(g, T, U), NEW W,
           SameBut(g, h, W), NEW p, NEW q, Adj(T, p, q),
           SizeAt(h, p) = SizeAt(g, p),
           \A a \in W : a \in Units => a < p \/ a >= q - 8
    PROVE  Kept(g, h, p)
<1>1. SizeAt(g, p) = q - p /\ p \in Nat /\ q \in Nat
  BY Spaced DEF Tagged, Told, Adj
<1>2. ASSUME NEW a \in Units, p <= a, a < p + SizeAt(g, p) - 8
      PROVE  h.mem[a] = g.mem[a]
  <2>1. a \in Nat
    BY UnitsAre
  <2>2. ~(a < p) /\ ~(a >= q - 8)
    BY <1>1, <1>2, <2>1
  <2>3. QED
    BY <2>2 DEF SameBut
<1>3. QED
  BY <1>2 DEF Kept

\* A size is that of its tag.
LEMMA SizeSame ==
    ASSUME NEW g, NEW h, NEW T, NEW brk, Cuts(T, brk), NEW p \in T, NEW W,
           SameBut(g, h, W), p - 8 \notin W
    PROVE  SizeAt(h, p) = SizeAt(g, p)
<1>1. HDRP(p) \in Units /\ HDRP(p) = p - 8
  BY CutWords
<1>2. QED
  BY <1>1 DEF SizeAt, GET_SIZE, GET, SameBut

\* Links are not tags, and not the contents of a block in use.
LEMMA LinksAreFree ==
    ASSUME NEW T, NEW brk, Cuts(T, brk), NEW F, F \subseteq Inner(T, brk)
    PROVE  /\ \A t \in T : /\ t - 8 \notin LinkWords(F)
                           /\ t # heap_listp => t - 16 \notin LinkWords(F)
           /\ \A p, q : Adj(T, p, q) /\ p \notin F =>
                \A a \in LinkWords(F) : a < p \/ a >= q - 8
<1>1. ASSUME NEW x \in F, NEW t \in T
      PROVE  /\ x \in Nat /\ t \in Nat /\ x >= 24
             /\ x < t => x + 32 <= t
             /\ t < x /\ t # heap_listp => t + 32 <= x
  <2>1. x \in T /\ x # heap_listp
    BY DEF Inner
  <2>2. x \in Nat /\ t \in Nat /\ x >= 24
    BY <2>1 DEF Cuts
  <2>3. QED
    BY <2>1, <2>2 DEF Cuts, MinBlock, SIZE_T_SIZE, PTR_SIZE
<1>2. ASSUME NEW t \in T
      PROVE  /\ t - 8 \notin LinkWords(F)
             /\ t # heap_listp => t - 16 \notin LinkWords(F)
  <2>1. ASSUME NEW x \in F PROVE t - 8 # x /\ t - 8 # x + 8 /\ t - 16 # x
                                 /\ t - 16 # x + 8
    BY <1>1
  <2>2. \A a \in LinkWords(F) : \E x \in F : a = x \/ a = x + 8
    <3>1. \A a \in Units : a = (a - 8) + 8
      BY UnitsAre
    <3>2. QED
      BY <3>1 DEF LinkWords
  <2>3. QED
    BY <2>1, <2>2
<1>3. ASSUME NEW p, NEW q, Adj(T, p, q), p \notin F, NEW a \in LinkWords(F)
      PROVE  a < p \/ a >= q - 8
  <2>1. PICK x \in F : a = x \/ a = x + 8
    <3>1. \A b \in Units : b = (b - 8) + 8
      BY UnitsAre
    <3>2. QED
      BY <3>1 DEF LinkWords
  <2>2. /\ p \in T /\ q \in T /\ x \in T /\ p < q /\ x # p
        /\ x <= p \/ q <= x
    BY <1>3 DEF Adj, Inner
  <2>3. x \in Nat /\ p \in Nat /\ q \in Nat /\ (x < p => x + 32 <= p)
    BY <1>1, <2>2
  <2>4. QED
    BY <2>1, <2>2, <2>3
<1>4. QED
  BY <1>2, <1>3

\* When links are written, the tags stay and so do the blocks in use.
LEMMA LinksKeep ==
    ASSUME NEW g, NEW h, NEW T, NEW U, Tagged(g, T, U), NEW F,
           F \subseteq T \ U, LinksOnly(g, h, F)
    PROVE  /\ Tagged(h, T, U)
           /\ \A p \in U : p # g.brk => Kept(g, h, p)
<1>1. Cuts(T, g.brk) /\ F \subseteq Inner(T, g.brk) /\ U \subseteq T
  BY DEF Tagged, Inner
<1>2. /\ \A t \in T : /\ t - 8 \notin LinkWords(F)
                      /\ t # heap_listp => t - 16 \notin LinkWords(F)
      /\ \A p, q : Adj(T, p, q) /\ p \notin F =>
            \A a \in LinkWords(F) : a < p \/ a >= q - 8
  BY <1>1, LinksAreFree
<1>3. Tagged(h, T, U)
  BY <1>2, TagsSame DEF LinksOnly
<1>4. ASSUME NEW p \in U, p # g.brk PROVE Kept(g, h, p)
  <2>1. PICK q : Adj(T, p, q)
    BY <1>1, <1>4, NextExists
  <2>2. SizeAt(h, p) = SizeAt(g, p)
    BY <1>1, <1>2, SizeSame DEF LinksOnly
  <2>3. \A a \in LinkWords(F) : a < p \/ a >= q - 8
    BY <1>2, <2>1
  <2>4. QED
    BY <2>1, <2>2, <2>3, KeptSame DEF LinksOnly
<1>5. QED
  BY <1>3, <1>4

\* When no links are written, the list stays.
LEMMA ListSame ==
    ASSUME NEW g, NEW h, NEW T, NEW brk, Cuts(T, brk), NEW W,
           SameBut(g, h, W), h.free_list_head = g.free_list_head,
           NEW F, F \subseteq Inner(T, brk), NEW n, NEW L, Listing(g, n, L, F),
           \A x \in F : x \notin W /\ x + 8 \notin W
    PROVE  Listing(h, n, L, F)
<1>1. \A x \in F : x \in Units /\ x + 8 \in Units
  BY LinksApart
<1>2. \A x \in F : h.mem[x] = g.mem[x] /\ h.mem[x + 8] = g.mem[x + 8]
  BY <1>1 DEF SameBut
<1>3. \A i \in 1 .. n : L[i] \in F
  BY DEF Listing
<1>4. \A i \in 1 .. n : /\ h.mem[L[i]] = g.mem[L[i]]
                        /\ h.mem[L[i] + 8] = g.mem[L[i] + 8]
  BY <1>2, <1>3
<1>5. QED
  BY <1>4 DEF Listing
-----------------------------------------------------------------------------
(* Blocks are cut in two and put together.                                   *)

Between(T, p, q) == {t \in T : p < t /\ t < q}

\* The neighbours once the block p is cut at m.
CutAt(T, p, m, q) ==
    /\ Adj(T \cup {m}, p, m) /\ Adj(T \cup {m}, m, q)
    /\ \A r, s : Adj(T \cup {m}, r, s) =>
            \/ r = p /\ s = m
            \/ r = m /\ s = q
            \/ r # p /\ r # m /\ s # m /\ s # q /\ Adj(T, r, s)

\* The neighbours once there are no cuts between p and q.
OneBlock(T, S, p, q) ==
    /\ Adj(S, p, q)
    /\ \A r, s : Adj(S, r, s) =>
            \/ r = p /\ s = q
            \/ r # p /\ s # q /\ Adj(T, r, s)

\* The neighbours once the heap ends at end.
Longer(T, brk, end) ==
    /\ Adj(T \cup {end}, brk, end) /\ end \notin T
    /\ \A r, s : Adj(T \cup {end}, r, s) =>
            \/ r = brk /\ s = end
            \/ r # brk /\ r # end /\ s # end /\ Adj(T, r, s)

\* A block can be cut in two.
LEMMA CutsSplit ==
    ASSUME NEW T, NEW brk, Cuts(T, brk), NEW p, NEW q, Adj(T, p, q),
           p # heap_listp, NEW m \in Nat, m % 8 = 0, p + 32 <= m, m + 32 <= q
    PROVE  Cuts(T \cup {m}, brk) /\ CutAt(T, p, m, q)
<1>1. /\ p \in Nat /\ q \in Nat /\ p >= 24 /\ q <= brk /\ brk \in Nat
      /\ brk <= MAX_HEAP /\ p < q
      /\ \A r \in T : r = p \/ r >= q \/ r + 32 <= p
                                   \/ (r = heap_listp /\ r < p)
  BY Spaced
<1>2. /\ T \subseteq 8 .. brk /\ heap_listp \in T /\ 24 \in T /\ brk \in T
      /\ \A t \in T : t \in Nat /\ t % 8 = 0 /\ (t = heap_listp \/ t >= 24)
      /\ \A t, u \in T : t < u /\ t # heap_listp => t + 32 <= u
  BY DEF Cuts, MinBlock, SIZE_T_SIZE, PTR_SIZE
<1>3. p \in T /\ q \in T /\ \A r \in T : r <= p \/ q <= r
  BY DEF Adj
<1>4. m \in 8 .. brk /\ m >= 24 /\ m < q /\ p < m
  BY <1>1
<1>5. \A t \in T : /\ t < m /\ t # heap_listp => t + 32 <= m
                   /\ m < t => m + 32 <= t
                   /\ t # m
  BY <1>1, <1>2, <1>4
<1>6. Cuts(T \cup {m}, brk)
  <2>1. T \cup {m} \subseteq 8 .. brk
    BY <1>2, <1>4
  <2>2. \A t \in T \cup {m} : t % 8 = 0 /\ (t = heap_listp \/ t >= 24)
    BY <1>2, <1>4
  <2>3. \A t, u \in T \cup {m} : t < u /\ t # heap_listp => t + 32 <= u
    BY <1>2, <1>5
  <2>4. MinBlock = 32
    BY DEF MinBlock, SIZE_T_SIZE, PTR_SIZE
  <2>5. QED
    BY <1>1, <1>2, <2>1, <2>2, <2>3, <2>4 DEF Cuts
<1>7. Adj(T \cup {m}, p, m) /\ Adj(T \cup {m}, m, q)
  BY <1>1, <1>2, <1>3, <1>4 DEF Adj
<1>8. ASSUME NEW r, NEW s, Adj(T \cup {m}, r, s)
      PROVE  \/ r = p /\ s = m
             \/ r = m /\ s = q
             \/ r # p /\ r # m /\ s # m /\ s # q /\ Adj(T, r, s)
  <2>1. /\ r \in T \cup {m} /\ s \in T \cup {m} /\ r < s
        /\ \A x \in T \cup {m} : x <= r \/ s <= x
    BY <1>8 DEF Adj
  <2>2. r \in Nat /\ s \in Nat
    BY <1>2, <2>1
  <2>3. CASE r = p \/ s = m
    BY <1>1, <1>2, <1>3, <1>4, <2>1, <2>2, <2>3
  <2>4. CASE r = m \/ s = q
    BY <1>1, <1>2, <1>3, <1>4, <2>1, <2>2, <2>4
  <2>5. CASE r # p /\ r # m /\ s # m /\ s # q
    BY <2>1, <2>5 DEF Adj
  <2>6. QED
    BY <2>3, <2>4, <2>5
<1>9. QED
  BY <1>6, <1>7, <1>8 DEF CutAt

\* Neighbouring blocks can be made one.
LEMMA CutsMerge ==
    ASSUME NEW T, NEW brk, Cuts(T, brk), NEW p \in T, NEW q \in T, p < q,
           p # heap_listp, NEW S, S = T \ Between(T, p, q)
    PROVE  Cuts(S, brk) /\ OneBlock(T, S, p, q)
<1>1. /\ T \subseteq 8 .. brk /\ heap_listp \in T /\ 24 \in T /\ brk \in T
      /\ \A t \in T : t \in Nat /\ t <= brk /\ t % 8 = 0
                      /\ (t = heap_listp \/ t >= 24)
      /\ \A t, u \in T : t < u /\ t # heap_listp => t + MinBlock <= u
      /\ brk \in Nat /\ brk <= MAX_HEAP /\ heap_listp = 8
  BY DEF Cuts, heap_listp, SIZE_T_SIZE
<1>2. /\ S \subseteq T /\ p \in S /\ q \in S
      /\ \A t \in T : t \in S <=> (t <= p \/ q <= t)
  BY <1>1 DEF Between
<1>3. p >= 24 /\ q <= brk
  BY <1>1
<1>4. Cuts(S, brk)
  <2>1. heap_listp \in S /\ 24 \in S /\ brk \in S
    BY <1>1, <1>2, <1>3
  <2>2. QED
    BY <1>1, <1>2, <2>1 DEF Cuts
<1>5. Adj(S, p, q)
  BY <1>2 DEF Adj
<1>6. ASSUME NEW r, NEW s, Adj(S, r, s)
      PROVE  \/ r = p /\ s = q
             \/ r # p /\ s # q /\ Adj(T, r, s)
  <2>1. /\ r \in S /\ s \in S /\ r < s /\ r \in T /\ s \in T
        /\ \A x \in S : x <= r \/ s <= x
    BY <1>2, <1>6 DEF Adj
  <2>2. r \in Nat /\ s \in Nat /\ p \in Nat /\ q \in Nat
    BY <1>1, <2>1
  <2>3. CASE r = p \/ s = q
    BY <1>2, <2>1, <2>2, <2>3
  <2>4. CASE r # p /\ s # q
    <3>1. s <= p \/ q <= r
      BY <1>2, <2>1, <2>2, <2>4
    <3>2. ASSUME NEW x \in T PROVE x <= r \/ s <= x
      <4>1. CASE x \in S
        BY <2>1, <4>1
      <4>2. CASE x \notin S
        BY <1>1, <1>2, <2>2, <3>1, <4>2
      <4>3. QED
        BY <4>1, <4>2
    <3>3. QED
      BY <2>1, <2>4, <3>2 DEF Adj
  <2>5. QED
    BY <2>3, <2>4
<1>7. QED
  BY <1>4, <1>5, <1>6 DEF OneBlock

\* The heap can get another block at its end.
LEMMA CutsExtend ==
    ASSUME NEW T, NEW brk, Cuts(T, brk), NEW end \in Nat, end % 8 = 0,
           brk + 32 <= end, end <= MAX_HEAP
    PROVE  Cuts(T \cup {end}, end) /\ Longer(T, brk, end)
<1>1. /\ T \subseteq 8 .. brk /\ heap_listp \in T /\ 24 \in T /\ brk \in T
      /\ \A t \in T : t \in Nat /\ t <= brk /\ t >= 8 /\ t % 8 = 0
                      /\ (t = heap_listp \/ t >= 24)
      /\ \A t, u \in T : t < u /\ t # heap_listp => t + 32 <= u
      /\ brk \in Nat /\ MinBlock = 32
  BY DEF Cuts, MinBlock, SIZE_T_SIZE, PTR_SIZE
<1>2. end \notin T /\ end >= 24 /\ brk < end
  BY <1>1
<1>3. Cuts(T \cup {end}, end)
  <2>1. T \cup {end} \subseteq 8 .. end
    BY <1>1, <1>2
  <2>2. \A t \in T \cup {end} : t % 8 = 0 /\ (t = heap_listp \/ t >= 24)
    BY <1>1, <1>2
  <2>3. \A t, u \in T \cup {end} : t < u /\ t # heap_listp => t + 32 <= u
    BY <1>1
  <2>4. QED
    BY <1>1, <2>1, <2>2, <2>3 DEF Cuts
<1>4. Adj(T \cup {end}, brk, end)
  BY <1>1, <1>2 DEF Adj
<1>5. ASSUME NEW r, NEW s, Adj(T \cup {end}, r, s)
      PROVE  \/ r = brk /\ s = end
             \/ r # brk /\ r # end /\ s # end /\ Adj(T, r, s)
  <2>1. /\ r \in T \cup {end} /\ s \in T \cup {end} /\ r < s
        /\ \A x \in T \cup {end} : x <= r \/ s <= x
    BY <1>5 DEF Adj
  <2>2. r \in Nat /\ s \in Nat /\ r # end
    BY <1>1, <2>1
  <2>3. CASE s = end
    BY <1>1, <1>2, <2>1, <2>2, <2>3
  <2>4. CASE s # end
    BY <1>1, <2>1, <2>2, <2>4 DEF Adj
  <2>5. QED
    BY <2>3, <2>4
<1>6. QED
  BY <1>2, <1>3, <1>4, <1>5 DEF Longer
-----------------------------------------------------------------------------
(* Tags are rewritten.                                                       *)

\* What a header and a footer tell.
LEMMA HeaderTells ==
    ASSUME NEW h, NEW p, NEW size \in Int, size % 8 = 0,
           NEW prev_alloc \in {0, 1}, NEW alloc \in {0, 1},
           h.mem[HDRP(p)] = PACK_HDR(size, prev_alloc, alloc)
    PROVE  /\ SizeAt(h, p) = size
           /\ UsedAt(h, p) <=> alloc = 1
           /\ UsedBefore(h, p) <=> prev_alloc = 1
<1>1. PICK x : x = h.mem[HDRP(p)] /\ x = PACK_HDR(size, prev_alloc, alloc)
  OBVIOUS
<1>2. x - (x % 8) = size /\ x % 2 = alloc /\ (x \div 2) % 2 = prev_alloc
  BY <1>1 DEF PACK_HDR
<1>3. QED
  BY <1>1, <1>2 DEF SizeAt, UsedAt, UsedBefore, GET_SIZE, GET_ALLOC,
                    GET_PREV_ALLOC, GET

\* What a footer tells.
LEMMA FooterTells ==
    ASSUME NEW h, NEW a, NEW size \in Int, size % 8 = 0,
           h.mem[a] = PACK_FTR(size)
    PROVE  GET_SIZE(h, a) = size
BY FooterParts DEF GET_SIZE, GET

\* A block is taken into use, or given up: V are the blocks now in use.
LEMMA Retag ==
    ASSUME NEW g, NEW h, NEW T, NEW U, Tagged(g, T, U),
           NEW bp, NEW q, Adj(T, bp, q), bp # heap_listp,
           NEW V, V \subseteq T, V \ {bp} = U \ {bp},
           SameBut(g, h, {bp - 8, q - 16, q - 8}),
           SizeAt(h, bp) = q - bp, UsedBefore(h, bp) <=> UsedBefore(g, bp),
           SizeAt(h, q) = SizeAt(g, q), UsedAt(h, q) <=> UsedAt(g, q),
           UsedAt(h, bp) <=> bp \in V, UsedBefore(h, q) <=> bp \in V,
           bp \notin V => GET_SIZE(h, q - 16) = q - bp
    PROVE  /\ Tagged(h, T, V)
           /\ \A p \in U : p # bp /\ p # g.brk => Kept(g, h, p)
<1> DEFINE W == {bp - 8, q - 16, q - 8}
<1>1. /\ Cuts(T, g.brk) /\ h \in Heaps /\ h.brk = g.brk /\ g.brk \in T
      /\ bp \in T /\ q \in T /\ g.brk \in U /\ heap_listp \in U
  BY DEF Tagged, SameBut, Adj, Cuts
<1>2. /\ bp \in Nat /\ q \in Nat /\ bp >= 24 /\ bp + 32 <= q /\ q <= g.brk
      /\ g.brk \in Nat
      /\ \A r \in T : r = bp \/ r >= q \/ r + 32 <= bp
                                      \/ (r = heap_listp /\ r < bp)
  BY <1>1, Spaced
<1>3. \A t \in T : /\ HDRP(t) \in Units /\ HDRP(t) = t - 8 /\ t \in Nat
                   /\ t >= 8 /\ (t # heap_listp => t - 16 \in Units)
                   /\ (q < t => q + 32 <= t)
                   /\ (t < bp => t = heap_listp \/ t + 32 <= bp)
  <2>1. \A t, u \in T : t < u /\ t # heap_listp => t + 32 <= u
    BY <1>1 DEF Cuts, MinBlock, SIZE_T_SIZE, PTR_SIZE
  <2>2. q # heap_listp
    BY <1>2 DEF heap_listp, SIZE_T_SIZE
  <2>3. QED
    BY <1>1, <2>1, <2>2, CutWords
<1>4. \A t \in T : t # bp /\ t # q => h.mem[HDRP(t)] = g.mem[HDRP(t)]
  <2>1. \A t \in T : t # bp /\ t # q => t - 8 \notin W
    BY <1>2, <1>3
  <2>2. QED
    BY <1>3, <2>1 DEF SameBut
<1>5. \A t \in T : t # heap_listp /\ t # q => h.mem[t - 16] = g.mem[t - 16]
  <2>1. \A t \in T : t # heap_listp /\ t # q => t - 16 \notin W
    <3>1. ASSUME NEW t \in T, t # heap_listp, t # q
          PROVE  t - 16 # bp - 8 /\ t - 16 # q - 16 /\ t - 16 # q - 8
      <4>1. t \in Nat /\ (q < t => q + 32 <= t) /\ (t < bp => t + 32 <= bp)
        BY <1>3, <3>1
      <4>2. t = bp \/ t >= q \/ t < bp
        BY <1>2, <4>1
      <4>3. QED
        BY <1>2, <3>1, <4>1, <4>2
    <3>2. QED
      BY <3>1
  <2>2. QED
    BY <1>3, <2>1 DEF SameBut
<1>6. \A t \in T : /\ t # bp => SizeAt(h, t) = SizeAt(g, t)
                   /\ t # bp => (UsedAt(h, t) <=> UsedAt(g, t))
                   /\ t # q => (UsedBefore(h, t) <=> UsedBefore(g, t))
  <2>1. \A t \in T : t # bp /\ t # q =>
            /\ SizeAt(h, t) = SizeAt(g, t)
            /\ UsedAt(h, t) <=> UsedAt(g, t)
            /\ UsedBefore(h, t) <=> UsedBefore(g, t)
    BY <1>4 DEF SizeAt, UsedAt, UsedBefore, GET_SIZE, GET_ALLOC,
                GET_PREV_ALLOC, GET
  <2>2. QED
    BY <2>1
<1>7. ASSUME NEW r \in T, NEW s \in T, Adj(T, r, s) PROVE Told(h, V, r, s)
  <2>1. Told(g, U, r, s)
    BY <1>7 DEF Tagged
  <2>2. CASE r = bp
    <3>1. s = q
      BY <1>1, <1>7, <2>2, NeighboursUnique
    <3>2. QED
      BY <2>2, <3>1 DEF Told
  <2>3. CASE r # bp
    <3>1. s # q
      BY <1>1, <1>7, <2>3, NeighboursUnique
    <3>2. s # heap_listp
      BY <1>1, <1>7, Spaced DEF heap_listp, SIZE_T_SIZE
    <3>3. GET_SIZE(h, s - 16) = GET_SIZE(g, s - 16)
      BY <1>5, <3>1, <3>2 DEF GET_SIZE, GET
    <3>4. r \in V <=> r \in U
      BY <2>3
    <3>5. QED
      BY <1>6, <2>1, <2>3, <3>1, <3>3, <3>4 DEF Told
  <2>4. QED
    BY <2>2, <2>3
<1>8. \A p \in T : UsedAt(h, p) <=> p \in V
  <2>1. \A p \in T : UsedAt(g, p) <=> p \in U
    BY DEF Tagged
  <2>2. \A p \in T : p # bp => (p \in U <=> p \in V)
    OBVIOUS
  <2>3. QED
    BY <1>6, <2>1, <2>2
<1>9. bp # g.brk
  BY <1>2
<1>10. SizeAt(h, h.brk) = 0
  BY <1>1, <1>6, <1>9 DEF Tagged
<1>11. Tagged(h, T, V)
  <2>1. heap_listp \in V /\ h.brk \in V
    BY <1>1, <1>9
  <2>2. QED
    BY <1>1, <1>7, <1>8, <1>10, <2>1 DEF Tagged
<1>12. ASSUME NEW p \in U, p # bp, p # g.brk PROVE Kept(g, h, p)
  <2>1. p \in T
    BY DEF Tagged
  <2>2. PICK s : Adj(T, p, s)
    BY <1>1, <1>12, <2>1, NextExists
  <2>3. /\ s \in T /\ p \in Nat /\ s \in Nat /\ p < s
        /\ bp <= p \/ s <= bp
        /\ q <= p \/ s <= q
    BY <1>1, <1>3, <2>1, <2>2 DEF Adj
  <2>4. \A a \in W : a < p \/ a >= s - 8
    BY <1>2, <1>12, <2>1, <2>3
  <2>5. SizeAt(h, p) = SizeAt(g, p)
    BY <1>6, <1>12, <2>1
  <2>6. QED
    BY <2>2, <2>4, <2>5, KeptSame
<1>13. QED
  BY <1>11, <1>12
\* The same header tells the same.
LEMMA HeaderSame ==
    ASSUME NEW g, NEW h, NEW t, h.mem[HDRP(t)] = g.mem[HDRP(t)]
    PROVE  /\ SizeAt(h, t) = SizeAt(g, t)
           /\ UsedAt(h, t) <=> UsedAt(g, t)
           /\ UsedBefore(h, t) <=> UsedBefore(g, t)
BY DEF SizeAt, UsedAt, UsedBefore, GET_SIZE, GET_ALLOC, GET_PREV_ALLOC, GET

\* What is known of every cut.
LEMMA CutFacts ==
    ASSUME NEW T, NEW brk, Cuts(T, brk)
    PROVE  \A t \in T : /\ HDRP(t) \in Units /\ HDRP(t) = t - 8 /\ t \in Nat
                        /\ t >= 8 /\ t <= brk /\ t % 8 = 0
                        /\ t = heap_listp \/ (t >= 24 /\ t - 16 \in Units)
                        /\ \A u \in T : u < t /\ u # heap_listp => u + 32 <= t
<1>1. \A t, u \in T : u < t /\ u # heap_listp => u + 32 <= t
  BY DEF Cuts, MinBlock, SIZE_T_SIZE, PTR_SIZE
<1>2. \A t \in T : t = heap_listp \/ t >= 24
  BY DEF Cuts
<1>3. QED
  BY <1>1, <1>2, CutWords

\* Free blocks next to each other become one.
LEMMA RetagMerge ==
    ASSUME NEW g, NEW h, NEW T, NEW U, Tagged(g, T, U),
           NEW p \in T \ U, NEW q \in T, p < q, Between(T, p, q) \cap U = {},
           UsedBefore(g, p), SameBut(g, h, {p - 8, q - 16}),
           SizeAt(h, p) = q - p, ~UsedAt(h, p), UsedBefore(h, p),
           GET_SIZE(h, q - 16) = q - p,
           NEW S, S = T \ Between(T, p, q)
    PROVE  /\ Tagged(h, S, U)
           /\ \A x \in U : x # g.brk => Kept(g, h, x)
<1> DEFINE W == {p - 8, q - 16}
<1>1. /\ Cuts(T, g.brk) /\ h \in Heaps /\ h.brk = g.brk /\ g.brk \in T
      /\ g.brk \in U /\ heap_listp \in U /\ p # heap_listp /\ U \subseteq T
  BY DEF Tagged, SameBut, Cuts
<1>2. \A t \in T : /\ HDRP(t) \in Units /\ HDRP(t) = t - 8 /\ t \in Nat
                   /\ t >= 8 /\ t <= g.brk /\ t % 8 = 0
                   /\ t = heap_listp \/ (t >= 24 /\ t - 16 \in Units)
                   /\ \A u \in T : u < t /\ u # heap_listp => u + 32 <= t
  BY <1>1, CutFacts
<1>3. /\ p \in Nat /\ q \in Nat /\ p >= 24 /\ p + 32 <= q /\ q # heap_listp
  BY <1>1, <1>2 DEF heap_listp, SIZE_T_SIZE
<1>4. /\ Cuts(S, g.brk) /\ Adj(S, p, q)
      /\ \A r, s : Adj(S, r, s) =>
            \/ r = p /\ s = q
            \/ r # p /\ s # q /\ Adj(T, r, s)
  <2>1. p \in T /\ p < q /\ p # heap_listp
    BY <1>1
  <2>2. QED
    <3>1. Cuts(S, g.brk) /\ OneBlock(T, S, p, q)
      BY <1>1, <2>1, CutsMerge
    <3>2. QED
      BY <3>1 DEF OneBlock
<1>5. U \subseteq S /\ S \subseteq T
  BY <1>1 DEF Between
<1>6. \A t \in T : t # p =>
            /\ SizeAt(h, t) = SizeAt(g, t)
            /\ UsedAt(h, t) <=> UsedAt(g, t)
            /\ UsedBefore(h, t) <=> UsedBefore(g, t)
  <2>1. ASSUME NEW t \in T, t # p PROVE t - 8 \notin W
    <3>1. t \in Nat /\ (t < q /\ t # heap_listp => t + 32 <= q)
          /\ heap_listp = 8
      BY <1>2 DEF heap_listp, SIZE_T_SIZE
    <3>2. QED
      BY <1>3, <2>1, <3>1
  <2>2. \A t \in T : t # p => h.mem[HDRP(t)] = g.mem[HDRP(t)]
    BY <1>2, <2>1 DEF SameBut
  <2>3. QED
    BY <2>2, HeaderSame
<1>7. \A t \in T : t # heap_listp /\ t # q => h.mem[t - 16] = g.mem[t - 16]
  <2>1. ASSUME NEW t \in T, t # q, t # heap_listp PROVE t - 16 \notin W
    <3>1. t \in Nat /\ (p < t => p + 32 <= t)
      BY <1>1, <1>2
    <3>2. QED
      BY <1>3, <2>1, <3>1
  <2>2. QED
    BY <1>2, <2>1 DEF SameBut
<1>8. \A r, s \in T : Adj(T, r, s) => Told(g, U, r, s)
  BY DEF Tagged
<1>9. \A t \in T : UsedAt(g, t) <=> t \in U
  BY DEF Tagged
<1>10. ~UsedBefore(g, q)
  <2>1. PICK x : Adj(T, x, q)
    BY <1>1, <1>3, PreviousExists
  <2>2. x \in T /\ x < q /\ p <= x
    BY <1>3, <2>1 DEF Adj
  <2>3. x \notin U
    BY <1>2, <1>3, <2>2 DEF Between
  <2>4. QED
    BY <1>8, <2>1, <2>2, <2>3 DEF Told
<1>11. ASSUME NEW r \in S, NEW s \in S, Adj(S, r, s) PROVE Told(h, U, r, s)
  <2>1. CASE r = p /\ s = q
    <3>1. ~UsedBefore(h, q)
      BY <1>3, <1>6, <1>10
    <3>2. QED
      BY <2>1, <3>1 DEF Told
  <2>2. CASE r # p /\ s # q /\ Adj(T, r, s)
    <3>1. Told(g, U, r, s) /\ r \in T /\ s \in T
      BY <1>5, <1>8, <2>2
    <3>2. s # heap_listp
      BY <1>1, <2>2, Spaced DEF heap_listp, SIZE_T_SIZE
    <3>3. GET_SIZE(h, s - 16) = GET_SIZE(g, s - 16)
      BY <1>7, <2>2, <3>1, <3>2 DEF GET_SIZE, GET
    <3>4. UsedBefore(h, s) <=> UsedBefore(g, s)
      BY <1>6, <3>1
    <3>5. SizeAt(h, r) = SizeAt(g, r)
      BY <1>6, <2>2, <3>1
    <3>6. QED
      BY <3>1, <3>3, <3>4, <3>5 DEF Told
  <2>3. QED
    BY <1>4, <1>11, <2>1, <2>2
<1>12. \A t \in S : UsedAt(h, t) <=> t \in U
  BY <1>5, <1>6, <1>9
<1>13. SizeAt(h, h.brk) = 0
  BY <1>1, <1>6 DEF Tagged
<1>14. Tagged(h, S, U)
  BY <1>1, <1>4, <1>5, <1>11, <1>12, <1>13 DEF Tagged
<1>15. ASSUME NEW x \in U, x # g.brk PROVE Kept(g, h, x)
  <2>1. x \in T /\ x # p
    BY <1>1
  <2>2. PICK s : Adj(T, x, s)
    BY <1>1, <1>15, <2>1, NextExists
  <2>3. /\ s \in T /\ x \in Nat /\ s \in Nat /\ x < s
        /\ p <= x \/ s <= p
        /\ x <= p \/ q <= x
    <3>1. x \notin Between(T, p, q)
      OBVIOUS
    <3>2. x <= p \/ q <= x
      BY <1>2, <1>3, <2>1, <3>1 DEF Between
    <3>3. QED
      BY <1>2, <2>1, <2>2, <3>2 DEF Adj
  <2>4. \A a \in W : a < x \/ a >= s - 8
    BY <1>3, <2>1, <2>3
  <2>5. SizeAt(h, x) = SizeAt(g, x)
    BY <1>6, <2>1
  <2>6. QED
    BY <2>2, <2>4, <2>5, KeptSame
<1>16. QED
  BY <1>14, <1>15
\* A free block becomes one in use and a free one behind it.
LEMMA RetagSplit ==
    ASSUME NEW g, NEW h, NEW T, NEW U, Tagged(g, T, U),
           NEW p, NEW q, Adj(T, p, q), p \notin U,
           NEW m \in Nat, m % 8 = 0, p + 32 <= m, m + 32 <= q,
           NEW F, F \subseteq T \ U, UsedBefore(g, p),
           SameBut(g, h, {p - 8, m - 8, q - 16} \cup LinkWords(F)),
           SizeAt(h, p) = m - p, UsedAt(h, p), UsedBefore(h, p),
           SizeAt(h, m) = q - m, ~UsedAt(h, m), UsedBefore(h, m),
           GET_SIZE(h, q - 16) = q - m
    PROVE  /\ Tagged(h, T \cup {m}, U \cup {p}) /\ m \notin T
           /\ \A x \in U : x # g.brk => Kept(g, h, x)
<1> DEFINE W == {p - 8, m - 8, q - 16} \cup LinkWords(F)
           S == T \cup {m}
           V == U \cup {p}
<1>1. /\ Cuts(T, g.brk) /\ h \in Heaps /\ h.brk = g.brk /\ g.brk \in T
      /\ g.brk \in U /\ heap_listp \in U /\ p # heap_listp /\ U \subseteq T
      /\ p \in T /\ q \in T /\ heap_listp = 8
  BY DEF Tagged, SameBut, Cuts, Adj, heap_listp, SIZE_T_SIZE
<1>2. \A t \in T : /\ HDRP(t) \in Units /\ HDRP(t) = t - 8 /\ t \in Nat
                   /\ t >= 8 /\ t <= g.brk /\ t % 8 = 0
                   /\ t = heap_listp \/ (t >= 24 /\ t - 16 \in Units)
                   /\ \A u \in T : u < t /\ u # heap_listp => u + 32 <= t
  BY <1>1, CutFacts
<1>3. /\ p \in Nat /\ q \in Nat /\ p >= 24 /\ p < q /\ q # heap_listp
  BY <1>1, <1>2
<1>4. /\ Cuts(S, g.brk) /\ Adj(S, p, m) /\ Adj(S, m, q)
      /\ \A r, s : Adj(S, r, s) =>
                \/ r = p /\ s = m
                \/ r = m /\ s = q
                \/ r # p /\ r # m /\ s # m /\ s # q /\ Adj(T, r, s)
  <2>1. Cuts(T, g.brk) /\ Adj(T, p, q) /\ p # heap_listp
    BY <1>1
  <2>2. QED
    <3>1. Cuts(S, g.brk) /\ CutAt(T, p, m, q)
      BY <2>1, CutsSplit
    <3>2. QED
      BY <3>1 DEF CutAt
<1>5. m \notin T
  <2>1. \A r \in T : r \in Nat /\ (r <= p \/ q <= r)
    BY <1>2 DEF Adj
  <2>2. QED
    BY <1>3, <2>1
<1>6. /\ F \subseteq Inner(T, g.brk)
      /\ \A t \in T : /\ t - 8 \notin LinkWords(F)
                      /\ t # heap_listp => t - 16 \notin LinkWords(F)
      /\ \A x, y : Adj(T, x, y) /\ x \notin F =>
            \A a \in LinkWords(F) : a < x \/ a >= y - 8
  <2>1. F \subseteq Inner(T, g.brk)
    BY <1>1 DEF Inner
  <2>2. QED
    BY <1>1, <2>1, LinksAreFree
<1>7. \A t \in T : t # p =>
            /\ SizeAt(h, t) = SizeAt(g, t)
            /\ UsedAt(h, t) <=> UsedAt(g, t)
            /\ UsedBefore(h, t) <=> UsedBefore(g, t)
  <2>1. ASSUME NEW t \in T, t # p PROVE t - 8 \notin W
    <3>1. t \in Nat /\ (t < q /\ t # heap_listp => t + 32 <= q)
      BY <1>1, <1>2
    <3>2. t - 8 # p - 8 /\ t - 8 # m - 8 /\ t - 8 # q - 16
      BY <1>1, <1>3, <1>5, <2>1, <3>1
    <3>3. QED
      BY <1>6, <3>2
  <2>2. \A t \in T : t # p => h.mem[HDRP(t)] = g.mem[HDRP(t)]
    BY <1>2, <2>1 DEF SameBut
  <2>3. QED
    BY <2>2, HeaderSame
<1>8. \A t \in T : t # heap_listp /\ t # q => h.mem[t - 16] = g.mem[t - 16]
  <2>1. ASSUME NEW t \in T, t # q, t # heap_listp PROVE t - 16 \notin W
    <3>1. t \in Nat /\ (p < t => p + 32 <= t) /\ (t <= p \/ q <= t)
          /\ (q < t => q + 32 <= t)
      BY <1>1, <1>2, <1>3 DEF Adj
    <3>2. t - 16 # p - 8 /\ t - 16 # m - 8 /\ t - 16 # q - 16
      BY <1>3, <2>1, <3>1
    <3>3. QED
      BY <1>6, <2>1, <3>2
  <2>2. QED
    BY <1>2, <2>1 DEF SameBut
<1>9. \A r, s \in T : Adj(T, r, s) => Told(g, U, r, s)
  BY DEF Tagged
<1>10. \A t \in T : UsedAt(g, t) <=> t \in U
  BY DEF Tagged
<1>11. ASSUME NEW r \in S, NEW s \in S, Adj(S, r, s) PROVE Told(h, V, r, s)
  <2>1. CASE r = p /\ s = m
    BY <2>1 DEF Told
  <2>2. CASE r = m /\ s = q
    <3>1. ~UsedBefore(g, q)
      BY <1>1, <1>9 DEF Told
    <3>2. ~UsedBefore(h, q)
      BY <1>1, <1>3, <1>7, <3>1
    <3>3. m \notin V
      BY <1>1, <1>5
    <3>4. QED
      BY <2>2, <3>2, <3>3 DEF Told
  <2>3. CASE r # p /\ r # m /\ s # m /\ s # q /\ Adj(T, r, s)
    <3>1. Told(g, U, r, s) /\ r \in T /\ s \in T
      BY <1>9, <2>3 DEF Adj
    <3>2. s # heap_listp
      BY <1>1, <2>3, Spaced
    <3>3. GET_SIZE(h, s - 16) = GET_SIZE(g, s - 16)
      BY <1>8, <2>3, <3>1, <3>2 DEF GET_SIZE, GET
    <3>4. UsedBefore(h, s) <=> UsedBefore(g, s)
      <4>1. CASE s = p
        <5>1. r \in U
          BY <3>1, <4>1 DEF Told
        <5>2. QED
          BY <4>1
      <4>2. CASE s # p
        BY <1>7, <3>1, <4>2
      <4>3. QED
        BY <4>1, <4>2
    <3>5. SizeAt(h, r) = SizeAt(g, r)
      BY <1>7, <2>3, <3>1
    <3>6. r \in V <=> r \in U
      BY <2>3
    <3>7. QED
      BY <3>1, <3>3, <3>4, <3>5, <3>6 DEF Told
  <2>4. QED
    BY <1>4, <1>11, <2>1, <2>2, <2>3
<1>12. ASSUME NEW t \in S PROVE UsedAt(h, t) <=> t \in V
  <2>1. CASE t = p
    BY <2>1
  <2>2. CASE t = m
    BY <1>1, <1>5, <2>2
  <2>3. CASE t # p /\ t # m
    BY <1>7, <1>10, <2>3
  <2>4. QED
    BY <2>1, <2>2, <2>3
<1>13. SizeAt(h, h.brk) = 0
  <2>1. g.brk # p
    BY <1>1
  <2>2. QED
    BY <1>1, <1>7, <2>1 DEF Tagged
<1>14. Tagged(h, S, V)
  <2>1. V \subseteq S /\ heap_listp \in V /\ h.brk \in V
    BY <1>1
  <2>2. QED
    BY <1>1, <1>4, <1>11, <1>12, <1>13, <2>1 DEF Tagged
<1>15. ASSUME NEW x \in U, x # g.brk PROVE Kept(g, h, x)
  <2>1. x \in T /\ x # p /\ x \notin F
    BY <1>1
  <2>2. PICK s : Adj(T, x, s)
    BY <1>1, <1>15, <2>1, NextExists
  <2>3. /\ s \in T /\ x \in Nat /\ s \in Nat /\ x < s
        /\ p <= x \/ s <= p
        /\ x <= p \/ q <= x
    BY <1>1, <1>2, <2>1, <2>2 DEF Adj
  <2>4. \A a \in W : a < x \/ a >= s - 8
    <3>1. \A a \in {p - 8, m - 8, q - 16} : a < x \/ a >= s - 8
      BY <1>3, <2>1, <2>3
    <3>2. \A a \in LinkWords(F) : a < x \/ a >= s - 8
      BY <1>6, <2>1, <2>2
    <3>3. QED
      BY <3>1, <3>2
  <2>5. SizeAt(h, x) = SizeAt(g, x)
    BY <1>7, <2>1
  <2>6. QED
    BY <2>2, <2>4, <2>5, KeptSame
<1>16. QED
  BY <1>5, <1>14, <1>15
\* The words that g and h differ in are the tags of a block that h has more,
\* between brk and end, and the header behind it.
BlockAppended(g, h, T, U, brk, end) ==
    /\ Tagged(g, T, U) /\ brk = g.brk /\ end \in Nat /\ end % 8 = 0
    /\ brk + 32 <= end /\ end <= MAX_HEAP /\ h \in Heaps /\ h.brk = end
    /\ \A a \in Units : a \notin {brk - 8, end - 16, end - 8} =>
            h.mem[a] = g.mem[a]
    /\ SizeAt(h, brk) = end - brk /\ ~UsedAt(h, brk)
    /\ UsedBefore(h, brk) <=> UsedBefore(g, brk)
    /\ GET_SIZE(h, end - 16) = end - brk
    /\ SizeAt(h, end) = 0 /\ UsedAt(h, end) /\ ~UsedBefore(h, end)

\* The heap grows: the old end becomes a free block.
LEMMA RetagExtend ==
    ASSUME NEW g, NEW h, NEW T, NEW U, NEW brk, NEW end,
           BlockAppended(g, h, T, U, brk, end)
    PROVE  /\ Tagged(h, T \cup {end}, (U \ {brk}) \cup {end}) /\ end \notin T
           /\ \A x \in U : x # brk => Kept(g, h, x)
<1> SUFFICES ASSUME Tagged(g, T, U), brk = g.brk, end \in Nat, end % 8 = 0,
                    brk + 32 <= end, end <= MAX_HEAP, h \in Heaps,
                    h.brk = end,
                    \A a \in Units : a \notin {brk - 8, end - 16, end - 8} =>
                        h.mem[a] = g.mem[a],
                    SizeAt(h, brk) = end - brk, ~UsedAt(h, brk),
                    UsedBefore(h, brk) <=> UsedBefore(g, brk),
                    GET_SIZE(h, end - 16) = end - brk,
                    SizeAt(h, end) = 0, UsedAt(h, end), ~UsedBefore(h, end)
             PROVE  /\ Tagged(h, T \cup {end}, (U \ {brk}) \cup {end})
                    /\ end \notin T
                    /\ \A x \in U : x # brk => Kept(g, h, x)
  BY DEF BlockAppended
<1> DEFINE S == T \cup {end}
           V == (U \ {brk}) \cup {end}
<1>1. /\ Cuts(T, brk) /\ brk \in T /\ brk \in U /\ heap_listp \in U
      /\ U \subseteq T /\ heap_listp = 8 /\ brk \in Nat
  BY DEF Tagged, Cuts, heap_listp, SIZE_T_SIZE
<1>2. \A t \in T : /\ HDRP(t) \in Units /\ HDRP(t) = t - 8 /\ t \in Nat
                   /\ t >= 8 /\ t <= brk /\ t % 8 = 0
                   /\ t = heap_listp \/ (t >= 24 /\ t - 16 \in Units)
                   /\ \A u \in T : u < t /\ u # heap_listp => u + 32 <= t
  BY <1>1, CutFacts
<1>3. Cuts(S, end) /\ Longer(T, brk, end)
  BY <1>1, CutsExtend
<1>4. \A t \in T : t # brk =>
            /\ SizeAt(h, t) = SizeAt(g, t)
            /\ UsedAt(h, t) <=> UsedAt(g, t)
            /\ UsedBefore(h, t) <=> UsedBefore(g, t)
  <2>1. \A t \in T : t # brk => t - 8 \notin {brk - 8, end - 16, end - 8}
    BY <1>1, <1>2
  <2>2. \A t \in T : t # brk => h.mem[HDRP(t)] = g.mem[HDRP(t)]
    BY <1>2, <2>1
  <2>3. QED
    BY <2>2, HeaderSame
<1>5. \A t \in T : t # heap_listp => h.mem[t - 16] = g.mem[t - 16]
  <2>1. \A t \in T : t # heap_listp =>
                        t - 16 \notin {brk - 8, end - 16, end - 8}
    BY <1>1, <1>2
  <2>2. QED
    BY <1>2, <2>1
<1>6. \A r, s \in T : Adj(T, r, s) => Told(g, U, r, s)
  BY DEF Tagged
<1>7. \A t \in T : UsedAt(g, t) <=> t \in U
  BY DEF Tagged
<1>8. end \notin T /\ end # brk
  BY <1>1, <1>3 DEF Longer
<1>9. ASSUME NEW r \in S, NEW s \in S, Adj(S, r, s) PROVE Told(h, V, r, s)
  <2>1. CASE r = brk /\ s = end
    BY <1>8, <2>1 DEF Told
  <2>2. CASE r # brk /\ r # end /\ s # end /\ Adj(T, r, s)
    <3>1. Told(g, U, r, s) /\ r \in T /\ s \in T
      BY <1>6, <2>2 DEF Adj
    <3>2. s # heap_listp
      BY <1>1, <2>2, Spaced
    <3>3. GET_SIZE(h, s - 16) = GET_SIZE(g, s - 16)
      BY <1>5, <3>1, <3>2 DEF GET_SIZE, GET
    <3>4. UsedBefore(h, s) <=> UsedBefore(g, s)
      BY <1>4, <3>1
    <3>5. SizeAt(h, r) = SizeAt(g, r)
      BY <1>4, <2>2, <3>1
    <3>6. r \in V <=> r \in U
      BY <2>2
    <3>7. QED
      BY <3>1, <3>3, <3>4, <3>5, <3>6 DEF Told
  <2>3. QED
    BY <1>3, <1>9, <2>1, <2>2 DEF Longer
<1>10. ASSUME NEW t \in S PROVE UsedAt(h, t) <=> t \in V
  <2>1. CASE t = brk
    BY <1>8, <2>1
  <2>2. CASE t = end
    BY <2>2
  <2>3. CASE t # brk /\ t # end
    BY <1>4, <1>7, <2>3
  <2>4. QED
    BY <2>1, <2>2, <2>3
<1>11. Tagged(h, S, V)
  <2>1. V \subseteq S /\ heap_listp \in V /\ h.brk \in V
    <3>1. heap_listp # brk
      <4>1. 24 \in T
        BY <1>1 DEF Cuts
      <4>2. QED
        BY <1>1, <1>2, <4>1
    <3>2. QED
      BY <1>1, <3>1
  <2>2. QED
    BY <1>3, <1>9, <1>10, <2>1 DEF Tagged
<1>12. ASSUME NEW x \in U, x # brk PROVE Kept(g, h, x)
  <2>1. PICK s : Adj(T, x, s)
    BY <1>1, <1>12, NextExists
  <2>2. x \in T /\ s \in T /\ s \in Nat /\ s <= brk /\ x \in Nat /\ x < s
    BY <1>1, <1>2, <2>1 DEF Adj
  <2>3. SizeAt(h, x) = SizeAt(g, x) /\ SizeAt(g, x) = s - x
    BY <1>4, <1>6, <1>12, <2>1, <2>2 DEF Told
  <2>4. ASSUME NEW a \in Units, x <= a, a < x + SizeAt(g, x) - 8
        PROVE  h.mem[a] = g.mem[a]
    <3>1. a \in Nat
      BY UnitsAre
    <3>2. a \notin {brk - 8, end - 16, end - 8}
      BY <1>1, <2>2, <2>3, <2>4, <3>1
    <3>3. QED
      BY <3>2
  <2>5. QED
    BY <2>3, <2>4 DEF Kept
<1>13. QED
  BY <1>8, <1>11, <1>12
-----------------------------------------------------------------------------
(* Writing the two tags of a free block.                                     *)

Written(h, g, p, len, prev_alloc) ==
    /\ SameBut(h, g, {p - 8, p + len - 16})
    /\ g.free_list_head = h.free_list_head
    /\ SizeAt(g, p) = len /\ ~UsedAt(g, p)
    /\ UsedBefore(g, p) <=> prev_alloc = 1
    /\ GET_SIZE(g, p + len - 16) = len

\* What writing a word does.
PutAt(h, g, a, val) ==
    /\ g \in Heaps /\ g.brk = h.brk /\ g.free_list_head = h.free_list_head
    /\ g.mem[a] = val
    /\ \A b \in Units : b # a => g.mem[b] = h.mem[b]

\* Writing a word that is one of the heap's.
LEMMA PutHere ==
    ASSUME NEW h \in Heaps, NEW p, NEW x,
           p \in Units, x \in Word
    PROVE  PutAt(h, PUT(h, p, x), p, x)
<1>1. PICK g : g = PUT(h, p, x)
  OBVIOUS
<1>2. PutAt(h, g, p, x)
  BY <1>1, PutIs DEF PutAt
<1>3. QED
  BY <1>1, <1>2

\* A tag is a word.
LEMMA TagIsWord ==
    ASSUME NEW size \in Nat, size <= MAX_HEAP, NEW prev_alloc \in {0, 1},
           NEW alloc \in {0, 1}
    PROVE  PACK_HDR(size, prev_alloc, alloc) \in Word /\ PACK_FTR(size) \in Word
BY Numbers DEF PACK_HDR, PACK_FTR, Word

\* A block whose header and footer were written.
LEMMA TagsWritten ==
    ASSUME NEW h \in Heaps, NEW p \in Nat, p - 8 \in Units, NEW len \in Nat,
           len % 8 = 0, len >= 32, len <= MAX_HEAP, p + len - 16 \in Units,
           NEW prev_alloc \in {0, 1}, NEW hdr, NEW g,
           hdr = PUT(h, HDRP(p), PACK_HDR(len, prev_alloc, 0)),
           g = PUT(hdr, FTRP(hdr, p), PACK_FTR(len))
    PROVE  Written(h, g, p, len, prev_alloc)
<1>1. HDRP(p) = p - 8 /\ HDRP(p) \in Units
  BY DEF HDRP, SIZE_T_SIZE
<1>2. PICK x : x = PACK_HDR(len, prev_alloc, 0)
  OBVIOUS
<1>3. x \in Word /\ PACK_FTR(len) \in Word
  BY <1>2, TagIsWord
<1>4. PutAt(h, hdr, HDRP(p), x)
  BY <1>1, <1>2, <1>3, PutHere
<1>5. SizeAt(hdr, p) = len
  BY <1>2, <1>4, HeaderTells DEF PutAt
<1>6. FTRP(hdr, p) = p + len - 16
  BY <1>5 DEF FTRP, SizeAt, SIZE_T_SIZE
<1>7. PICK f \in Units : f = p + len - 16
  OBVIOUS
<1>8. PutAt(hdr, g, f, PACK_FTR(len))
  BY <1>3, <1>4, <1>6, <1>7, PutHere DEF PutAt
<1>9. f # HDRP(p)
  BY <1>1, <1>7
<1>10. g.mem[HDRP(p)] = PACK_HDR(len, prev_alloc, 0)
  BY <1>1, <1>2, <1>4, <1>8, <1>9 DEF PutAt
<1>11. /\ SizeAt(g, p) = len
       /\ UsedAt(g, p) <=> 0 = 1
       /\ UsedBefore(g, p) <=> prev_alloc = 1
  BY <1>10, HeaderTells
<1>12. GET_SIZE(g, f) = len
  BY <1>8, FooterTells DEF PutAt
<1>13. SameBut(h, g, {p - 8, p + len - 16})
  <2>1. \A a \in Units : a \notin {p - 8, p + len - 16} => g.mem[a] = h.mem[a]
    BY <1>1, <1>4, <1>7, <1>8 DEF PutAt
  <2>2. QED
    BY <1>4, <1>8, <2>1 DEF SameBut, PutAt
<1>14. QED
  BY <1>4, <1>7, <1>8, <1>11, <1>12, <1>13 DEF Written, PutAt

-----------------------------------------------------------------------------
(* The heap is sound: its tags tell T and U, freeing has merged neighbours   *)
(* and the list has all the free blocks.                                     *)

Lists(h, F) == \E n, L : Listing(h, n, L, F)
Alternates(T, U) == \A p, q : Adj(T, p, q) => p \in U \/ q \in U
Sound(h, T, U) == Tagged(h, T, U) /\ Alternates(T, U) /\ Lists(h, T \ U)

\* All but a free block bp that is to be merged and listed.
Loose(h, T, U, bp) ==
    /\ Tagged(h, T, U) /\ bp \in T \ U /\ Lists(h, (T \ U) \ {bp})
    /\ \A p, q : Adj(T, p, q) => p \in U \/ q \in U \/ p = bp \/ q = bp

KeptAll(g, h, U) == \A x \in U : x # g.brk => Kept(g, h, x)

\* Blocks that are kept twice are kept.
LEMMA KeptAllTrans ==
    ASSUME NEW g, NEW h, NEW k, NEW U, NEW V, KeptAll(g, h, U),
           KeptAll(h, k, V), U \subseteq V, h.brk = g.brk
    PROVE  KeptAll(g, k, U)
<1> SUFFICES ASSUME NEW x \in U, x # g.brk PROVE Kept(g, k, x)
  BY DEF KeptAll
<1>1. Kept(g, h, x) /\ Kept(h, k, x)
  BY DEF KeptAll
<1>2. QED
  BY <1>1, KeptTrans

\* A block leaves or enters the list: nothing else happens.
LEMMA RemoveKeeps ==
    ASSUME NEW h, NEW T, NEW U, Tagged(h, T, U), NEW F, F \subseteq T \ U,
           Lists(h, F), NEW bp \in F, NEW g, g = remove_from_free_list(h, bp)
    PROVE  /\ Tagged(g, T, U) /\ Lists(g, F \ {bp}) /\ KeptAll(h, g, U)
           /\ g.brk = h.brk
<1>1. PICK n, L : Listing(h, n, L, F)
  BY DEF Lists
<1>2. h \in Heaps /\ Cuts(T, h.brk) /\ F \subseteq Inner(T, h.brk)
  BY DEF Tagged, Inner
<1>3. LinksOnly(h, g, F) /\ \E m, M : Listing(g, m, M, F \ {bp})
  BY <1>1, <1>2, RemoveLists
<1>4. QED
  BY <1>3, LinksKeep DEF Lists, KeptAll, LinksOnly, SameBut

\* add_to_free_list changes the list and nothing else.
LEMMA AddKeeps ==
    ASSUME NEW h, NEW T, NEW U, Tagged(h, T, U), NEW F, F \subseteq T \ U,
           Lists(h, F), NEW bp \in T \ U, bp \notin F,
           NEW g, g = add_to_free_list(h, bp)
    PROVE  /\ Tagged(g, T, U) /\ Lists(g, F \cup {bp}) /\ KeptAll(h, g, U)
           /\ g.brk = h.brk
<1>1. PICK n, L : Listing(h, n, L, F)
  BY DEF Lists
<1>2. h \in Heaps /\ Cuts(T, h.brk) /\ F \subseteq Inner(T, h.brk)
      /\ bp \in Inner(T, h.brk)
  BY DEF Tagged, Inner
<1>3. /\ LinksOnly(h, g, F \cup {bp})
      /\ \E m, M : Listing(g, m, M, F \cup {bp})
  BY <1>1, <1>2, AddLists
<1>4. F \cup {bp} \subseteq T \ U
  OBVIOUS
<1>5. QED
  BY <1>3, <1>4, LinksKeep DEF Lists, KeptAll, LinksOnly, SameBut
-----------------------------------------------------------------------------
(* Free neighbours become one block.                                         *)

\* Where no links are written, the list stays.
LEMMA ListsSame ==
    ASSUME NEW g, NEW h, NEW T, NEW U, Tagged(g, T, U), NEW W,
           SameBut(g, h, W), h.free_list_head = g.free_list_head,
           NEW F, F \subseteq T \ U, Lists(g, F),
           \A x \in F : x \notin W /\ x + 8 \notin W
    PROVE  Lists(h, F)
<1>1. Cuts(T, g.brk) /\ F \subseteq Inner(T, g.brk)
  BY DEF Tagged, Inner
<1>2. PICK n, L : Listing(g, n, L, F)
  BY DEF Lists
<1>3. PICK brk : brk = g.brk
  OBVIOUS
<1>4. Cuts(T, brk) /\ F \subseteq Inner(T, brk)
  BY <1>1, <1>3
<1>5. Listing(h, n, L, F)
  BY <1>2, <1>4, ListSame
<1>6. QED
  BY <1>5 DEF Lists

\* The tags of the one block are written, where no free block has its links.
LEMMA MergeKeeps ==
    ASSUME NEW h, NEW T, NEW U, Tagged(h, T, U),
           NEW at \in T \ U, NEW last \in T, at < last,
           Between(T, at, last) \cap U = {}, UsedBefore(h, at),
           NEW S, S = T \ Between(T, at, last),
           NEW F, F = (S \ U) \ {at}, Lists(h, F),
           NEW len, len = last - at, NEW g, g = Merge(h, at, len)
    PROVE  /\ Tagged(g, S, U) /\ Lists(g, F) /\ KeptAll(h, g, U)
           /\ g.brk = h.brk
<1> DEFINE W == {at - 8, last - 16}
<1>1. /\ h \in Heaps /\ Cuts(T, h.brk) /\ U \subseteq T /\ h.brk \in U
      /\ heap_listp \in U /\ at # heap_listp /\ heap_listp = 8
  BY DEF Tagged, heap_listp, SIZE_T_SIZE
<1>2. \A t \in T : /\ HDRP(t) \in Units /\ HDRP(t) = t - 8 /\ t \in Nat
                   /\ t >= 8 /\ t <= h.brk /\ t % 8 = 0
                   /\ t = heap_listp \/ (t >= 24 /\ t - 16 \in Units)
                   /\ \A u \in T : u < t /\ u # heap_listp => u + 32 <= t
  BY <1>1, CutFacts
<1>3. /\ at \in Nat /\ last \in Nat /\ at >= 24 /\ at + 32 <= last
      /\ last # heap_listp /\ last - 16 \in Units /\ at - 8 \in Units
      /\ at % 8 = 0 /\ last % 8 = 0 /\ last <= h.brk
  BY <1>1, <1>2
<1>4. h.brk \in Nat /\ h.brk <= MAX_HEAP /\ MAX_HEAP \in Nat
  BY <1>1, Numbers DEF Cuts
<1>5. len \in Nat /\ len % 8 = 0 /\ len >= 32 /\ len <= MAX_HEAP
      /\ at + len - 16 = last - 16
  BY <1>3, <1>4
<1>6. Written(h, g, at, len, 1)
  <2>1. PICK hdr : hdr = PUT(h, HDRP(at), PACK_HDR(len, 1, 0))
    OBVIOUS
  <2>2. g = PUT(hdr, FTRP(hdr, at), PACK_FTR(len))
    BY <2>1 DEF Merge
  <2>3. at + len - 16 \in Units
    BY <1>3, <1>5
  <2>4. QED
    BY <1>1, <1>3, <1>5, <2>1, <2>2, <2>3, TagsWritten
<1>7. /\ SameBut(h, g, W) /\ g.free_list_head = h.free_list_head
      /\ SizeAt(g, at) = last - at /\ ~UsedAt(g, at) /\ UsedBefore(g, at)
      /\ GET_SIZE(g, last - 16) = last - at
  BY <1>5, <1>6 DEF Written
<1>8. Tagged(g, S, U) /\ \A x \in U : x # h.brk => Kept(h, g, x)
  BY <1>7, RetagMerge
<1>9. F \subseteq Inner(T, h.brk)
  BY <1>1 DEF Inner
<1>10. \A x \in F : x \notin W /\ x + 8 \notin W
  <2>1. ASSUME NEW x \in F PROVE x \notin W /\ x + 8 \notin W
    <3>1. x \in T /\ x # at /\ x # heap_listp /\ x \notin Between(T, at, last)
      BY <1>1
    <3>2. x \in Nat /\ (x < at \/ last <= x)
      BY <1>2, <1>3, <3>1 DEF Between
    <3>3. x < at => x + 32 <= at
      BY <1>2, <3>1
    <3>4. QED
      BY <1>3, <3>2, <3>3
  <2>2. QED
    BY <2>1
<1>11. Lists(g, F)
  <2>1. F \subseteq T \ U
    OBVIOUS
  <2>2. QED
    BY <1>7, <1>10, <2>1, ListsSame
<1>12. QED
  BY <1>7, <1>8, <1>11 DEF KeptAll, SameBut

\* What coalescing promises, of a free block bp.
Coalesced(h, g, at, T, U, bp) ==
    /\ \E S : /\ S \subseteq T /\ Sound(g, S, U) /\ at \in S \ U
              /\ bp \in S => at = bp
    /\ SizeAt(g, at) >= SizeAt(h, bp) /\ g.brk = h.brk /\ KeptAll(h, g, U)

\* The blocks that are put together: from at to last, bp among them.
Run(T, U, bp, at, last) ==
    /\ at \in T \ U /\ last \in U /\ at <= bp /\ bp < last
    /\ Between(T, at, last) \cap U = {}
    /\ \E x \in U : Adj(T, x, at)
    /\ \A x, y : Adj(T, x, y) => \/ x \in U \/ y \in U
                                 \/ at <= x /\ x < last /\ at <= y /\ y < last

\* Once they are one block, no two free blocks are neighbours.
LEMMA RunAlternates ==
    ASSUME NEW T, NEW brk, Cuts(T, brk), NEW U, heap_listp \in U,
           U \subseteq T, NEW bp \in T, NEW at, NEW last,
           Run(T, U, bp, at, last), NEW S, S = T \ Between(T, at, last)
    PROVE  Alternates(S, U) /\ Adj(S, at, last)
<1>1. /\ at \in T \ U /\ last \in U /\ at <= bp /\ bp < last /\ last \in T
      /\ at # heap_listp
      /\ \A x, y : Adj(T, x, y) => \/ x \in U \/ y \in U
                                   \/ at <= x /\ x < last /\ at <= y /\ y < last
  BY DEF Run
<1>2. \A t \in T : t \in Nat
  BY DEF Cuts
<1>3. at < last
  BY <1>1, <1>2
<1>4. OneBlock(T, S, at, last)
  BY <1>1, <1>3, CutsMerge
<1>5. ASSUME NEW x, NEW y, Adj(S, x, y) PROVE x \in U \/ y \in U
  <2>1. CASE x = at /\ y = last
    BY <1>1, <2>1
  <2>2. CASE x # at /\ y # last /\ Adj(T, x, y)
    <3>1. /\ x \in S /\ y \in S /\ x \in T /\ y \in T /\ x < y
      BY <1>5 DEF Adj
    <3>2. /\ x \in Nat /\ y \in Nat /\ at \in Nat /\ last \in Nat
          /\ ~(at < x /\ x < last) /\ ~(at < y /\ y < last)
      BY <1>1, <1>2, <3>1 DEF Between
    <3>3. QED
      BY <1>1, <2>2, <3>1, <3>2
  <2>3. QED
    BY <1>4, <1>5, <2>1, <2>2 DEF OneBlock
<1>6. QED
  BY <1>4, <1>5 DEF Alternates, OneBlock
-----------------------------------------------------------------------------
(* What coalesce finds around a block, and what it makes of it.              *)

\* A block bp between p and q, seen through the tags.
Around(h, T, U, p, bp, q) ==
    /\ Adj(T, p, bp) /\ Adj(T, bp, q)
    /\ NEXT_BLKP(h, bp) = q
    /\ GET_PREV_ALLOC(h, HDRP(bp)) = 1 <=> p \in U
    /\ GET_ALLOC(h, HDRP(q)) = 1 <=> q \in U
    /\ p \notin U => PREV_BLKP(h, bp) = p
    /\ SizeAt(h, bp) = q - bp

\* What coalesce finds around a block.
LEMMA AroundIs ==
    ASSUME NEW h, NEW T, NEW U, Tagged(h, T, U), NEW bp \in T,
           bp # heap_listp, bp # h.brk
    PROVE  \E p, q : Around(h, T, U, p, bp, q)
<1>1. /\ Cuts(T, h.brk) /\ \A t \in T : UsedAt(h, t) <=> t \in U
      /\ \A x, y \in T : Adj(T, x, y) => Told(h, U, x, y)
  BY DEF Tagged
<1>2. PICK q : Adj(T, bp, q)
  BY <1>1, NextExists
<1>3. PICK p : Adj(T, p, bp)
  BY <1>1, PreviousExists
<1>4. p \in T /\ q \in T /\ Told(h, U, p, bp) /\ Told(h, U, bp, q)
  BY <1>1, <1>2, <1>3 DEF Adj
<1>5. p \in Nat /\ bp \in Nat /\ q \in Nat
  BY <1>1, <1>4 DEF Cuts
<1>6. NEXT_BLKP(h, bp) = q /\ SizeAt(h, bp) = q - bp
  BY <1>4, <1>5 DEF NEXT_BLKP, Told, SizeAt
<1>7. p \notin U => PREV_BLKP(h, bp) = p
  <2>1. p \notin U => GET_SIZE(h, bp - 16) = bp - p
    BY <1>4 DEF Told
  <2>2. PREV_BLKP(h, bp) = bp - GET_SIZE(h, bp - 16)
    BY DEF PREV_BLKP, SIZE_T_SIZE
  <2>3. QED
    BY <1>5, <2>1, <2>2
<1>8. GET_PREV_ALLOC(h, HDRP(bp)) = 1 <=> p \in U
  BY <1>4 DEF Told, UsedBefore
<1>9. GET_ALLOC(h, HDRP(q)) = 1 <=> q \in U
  BY <1>1, <1>4 DEF UsedAt
<1>10. QED
  BY <1>2, <1>3, <1>6, <1>7, <1>8, <1>9 DEF Around

\* The run of free blocks around bp.
LEMMA RunIs ==
    ASSUME NEW h, NEW T, NEW U, NEW bp, Loose(h, T, U, bp),
           NEW p, NEW q, Around(h, T, U, p, bp, q),
           NEW at, at = IF p \in U THEN bp ELSE p,
           NEW last, last = q + (IF q \in U THEN 0 ELSE SizeAt(h, q))
    PROVE  /\ Run(T, U, bp, at, last)
           /\ ((T \ U) \ {bp, p, q}) = ((T \ Between(T, at, last)) \ U) \ {at}
<1>1. /\ Cuts(T, h.brk) /\ U \subseteq T /\ heap_listp \in U /\ h.brk \in U
      /\ bp \in T \ U
      /\ \A x, y \in T : Adj(T, x, y) => Told(h, U, x, y)
      /\ \A x, y : Adj(T, x, y) => x \in U \/ y \in U \/ x = bp \/ y = bp
  BY DEF Loose, Tagged
<1>2. Adj(T, p, bp) /\ Adj(T, bp, q)
  BY DEF Around
<1>3. \A t \in T : t \in Nat
  BY <1>1 DEF Cuts
<1>4. /\ p \in T /\ q \in T /\ p < bp /\ bp < q
      /\ \A t \in T : (t <= p \/ bp <= t) /\ (t <= bp \/ q <= t)
      /\ p \in Nat /\ q \in Nat /\ bp \in Nat
  BY <1>2, <1>3 DEF Adj
<1>5. \E x \in U : Adj(T, x, at)
  <2>1. CASE p \in U
    BY <1>2, <2>1
  <2>2. CASE p \notin U
    <3>1. PICK x : Adj(T, x, p)
      BY <1>1, <1>4, <2>2, PreviousExists
    <3>2. x \in U \/ p = bp \/ x = bp
      BY <1>1, <2>2, <3>1
    <3>3. x \in T /\ x < p
      BY <3>1 DEF Adj
    <3>4. QED
      BY <1>3, <1>4, <2>2, <3>1, <3>2, <3>3
  <2>3. QED
    BY <2>1, <2>2
<1>6. /\ last \in U /\ q <= last
      /\ q \in U => last = q
      /\ q \notin U => Adj(T, q, last)
  <2>1. CASE q \in U
    BY <1>4, <2>1
  <2>2. CASE q \notin U
    <3>1. PICK r : Adj(T, q, r)
      BY <1>1, <1>4, <2>2, NextExists
    <3>2. r \in T /\ q < r /\ Told(h, U, q, r)
      BY <1>1, <1>4, <3>1 DEF Adj
    <3>3. SizeAt(h, q) = r - q /\ r \in Nat
      BY <1>3, <3>2 DEF Told
    <3>4. last = r
      BY <1>4, <2>2, <3>3
    <3>5. r \in U
      BY <1>1, <1>3, <1>4, <2>2, <3>1, <3>2
    <3>6. QED
      BY <1>3, <1>4, <2>2, <3>1, <3>2, <3>4, <3>5
  <2>3. QED
    BY <2>1, <2>2
<1>7. /\ last \in Nat /\ last \in T /\ at \in T /\ at \in Nat /\ at \notin U
      /\ at <= bp /\ bp < last /\ p <= at
  BY <1>1, <1>3, <1>4, <1>6
<1>8. ASSUME NEW t \in T, at <= t, t < last
      PROVE  t = at \/ t = bp \/ (t = q /\ q \notin U)
  <2>1. q \notin U => t <= q \/ last <= t
    BY <1>6, <1>8 DEF Adj
  <2>2. QED
    BY <1>3, <1>4, <1>6, <1>7, <1>8, <2>1
<1>9. Between(T, at, last) \cap U = {}
  <2>1. ASSUME NEW t \in Between(T, at, last) PROVE t \notin U
    <3>1. t \in T /\ at < t /\ t < last
      BY DEF Between
    <3>2. at <= t /\ t # at
      BY <1>3, <1>7, <3>1
    <3>3. t = bp \/ (t = q /\ q \notin U)
      BY <1>8, <3>1, <3>2
    <3>4. QED
      BY <1>1, <3>3
  <2>2. QED
    BY <2>1
<1>10. ASSUME NEW x, NEW y, Adj(T, x, y)
       PROVE  \/ x \in U \/ y \in U
              \/ at <= x /\ x < last /\ at <= y /\ y < last
  <2>1. x \in T /\ y \in T /\ x \in Nat /\ y \in Nat /\ x < y
        /\ \A t \in T : t <= x \/ y <= t
    BY <1>3, <1>10 DEF Adj
  <2>2. CASE x = bp
    <3>1. y = q
      BY <1>4, <2>1, <2>2
    <3>2. q \notin U => q < last
      BY <1>6 DEF Adj
    <3>3. QED
      BY <1>4, <1>7, <2>2, <3>1, <3>2
  <2>3. CASE y = bp
    <3>1. x = p
      BY <1>4, <2>1, <2>3
    <3>2. QED
      BY <1>4, <1>7, <2>3, <3>1
  <2>4. QED
    BY <1>1, <1>10, <2>2, <2>3
<1>11. Run(T, U, bp, at, last)
  BY <1>1, <1>5, <1>6, <1>7, <1>9, <1>10 DEF Run
<1>12. ASSUME NEW x \in T, x \notin U
       PROVE  x \in {bp, p, q} <=> x \in Between(T, at, last) \/ x = at
  <2>1. CASE x \in {bp, p, q}
    <3>1. x = q => q < last
      BY <1>6, <1>12 DEF Adj
    <3>2. p \notin U => at = p
      OBVIOUS
    <3>3. QED
      BY <1>3, <1>4, <1>7, <1>12, <2>1, <3>1, <3>2 DEF Between
  <2>2. CASE x \in Between(T, at, last) \/ x = at
    BY <1>3, <1>7, <1>8, <1>12, <2>2 DEF Between
  <2>3. QED
    BY <2>1, <2>2
<1>13. ((T \ U) \ {bp, p, q}) = ((T \ Between(T, at, last)) \ U) \ {at}
  BY <1>12
<1>14. QED
  BY <1>11, <1>13
\* A free block may leave the list, or is in use and not in it.
LEMMA LeaveKeeps ==
    ASSUME NEW h, NEW T, NEW U, Tagged(h, T, U), NEW F, F \subseteq T \ U,
           Lists(h, F), NEW x, x \in F \/ x \in U,
           NEW g, g = IF x \in U THEN h ELSE remove_from_free_list(h, x)
    PROVE  /\ Tagged(g, T, U) /\ Lists(g, F \ {x}) /\ KeptAll(h, g, U)
           /\ g.brk = h.brk
<1>1. CASE x \in U
  <2>1. F \ {x} = F
    BY <1>1
  <2>2. KeptAll(h, h, U)
    BY KeptSelf DEF KeptAll
  <2>3. QED
    BY <1>1, <2>1, <2>2
<1>2. CASE x \notin U
  BY <1>2, RemoveKeeps, SMTT(30)
<1>3. QED
  BY <1>1, <1>2

\* Coalescing keeps the heap sound, and what is in use as it is.
LEMMA CoalesceKeeps ==
    ASSUME NEW h, NEW T, NEW U, NEW bp, Loose(h, T, U, bp),
           NEW res, res = coalesce(h, bp)
    PROVE  Coalesced(h, res.heap, res.bp, T, U, bp)
<1>1. /\ Tagged(h, T, U) /\ Cuts(T, h.brk) /\ U \subseteq T
      /\ heap_listp \in U /\ h.brk \in U /\ bp \in T /\ bp \notin U
      /\ Lists(h, (T \ U) \ {bp})
  BY DEF Loose, Tagged
<1>2. PICK p, q : Around(h, T, U, p, bp, q)
  BY <1>1, AroundIs
<1>3. PICK at : at = IF p \in U THEN bp ELSE p
  OBVIOUS
<1>4. PICK last : last = q + (IF q \in U THEN 0 ELSE SizeAt(h, q))
  OBVIOUS
<1>5. PICK u : u = IF p \in U THEN h ELSE remove_from_free_list(h, p)
  OBVIOUS
<1>6. PICK a : a = IF q \in U THEN u ELSE remove_from_free_list(u, q)
  OBVIOUS
<1>7. PICK m : m = IF p \in U /\ q \in U THEN h ELSE Merge(a, at, last - at)
  OBVIOUS
<1>8. Adj(T, p, bp) /\ Adj(T, bp, q) /\ SizeAt(h, bp) = q - bp
  BY <1>2 DEF Around
<1>9. /\ p \in T /\ q \in T /\ p < bp /\ bp < q
      /\ p \in Nat /\ bp \in Nat /\ q \in Nat
  BY <1>1, <1>8, CutFacts DEF Adj
<1>10. p \notin U => SizeAt(h, p) = bp - p
  BY <1>1, <1>8, <1>9 DEF Tagged, Told
<1>11. Run(T, U, bp, at, last)
       /\ ((T \ U) \ {bp, p, q}) = ((T \ Between(T, at, last)) \ U) \ {at}
  BY <1>2, <1>3, <1>4, RunIs
<1>12. /\ at \in T \ U /\ last \in U /\ last \in T /\ at <= bp /\ bp < last
       /\ Between(T, at, last) \cap U = {} /\ \E x \in U : Adj(T, x, at)
       /\ at \in Nat /\ last \in Nat
  <2>1. /\ at \in T \ U /\ last \in U /\ last \in T /\ at <= bp /\ bp < last
        /\ Between(T, at, last) \cap U = {} /\ \E x \in U : Adj(T, x, at)
    BY <1>1, <1>11 DEF Run
  <2>2. QED
    BY <1>1, <2>1, CutFacts
<1>13. q <= last
  <2>1. \A t \in T : t <= bp \/ q <= t
    BY <1>8 DEF Adj
  <2>2. QED
    BY <1>9, <1>12, <2>1
<1>14. q \notin U => SizeAt(h, q) = last - q
  <2>1. ASSUME q \notin U PROVE SizeAt(h, q) = last - q
    <3>1. PICK r : Adj(T, q, r)
      BY <1>1, <1>9, <2>1, NextExists
    <3>2. r \in T /\ SizeAt(h, q) = r - q
      BY <1>1, <1>9, <3>1 DEF Tagged, Told, Adj
    <3>3. r \in Nat
      BY <1>1, <3>2, CutFacts
    <3>4. QED
      BY <1>4, <1>9, <2>1, <3>2, <3>3
  <2>2. QED
    BY <2>1
<1>15. res.heap = add_to_free_list(m, at) /\ res.bp = at
  <2>1. PICK len : len = SizeAt(h, bp)
                        + (IF p \in U THEN 0 ELSE SizeAt(h, p))
                        + (IF q \in U THEN 0 ELSE SizeAt(h, q))
    OBVIOUS
  <2>2. len = last - at
    <3>1. q \in U => last = q
      BY <1>4, <1>9
    <3>2. QED
      BY <1>3, <1>8, <1>9, <1>10, <1>12, <1>14, <2>1, <3>1
  <2>3. /\ NEXT_BLKP(h, bp) = q
        /\ GET_PREV_ALLOC(h, HDRP(bp)) = 1 <=> p \in U
        /\ GET_ALLOC(h, HDRP(q)) = 1 <=> q \in U
        /\ p \notin U => PREV_BLKP(h, bp) = p
    BY <1>2 DEF Around
  <2>4. res = [heap |-> add_to_free_list(
                            IF p \in U /\ q \in U THEN h
                            ELSE Merge(a, at, len), at),
               bp |-> at]
    <3>1. CASE p \in U /\ q \in U
      BY <1>3, <2>3, <3>1 DEF coalesce
    <3>2. CASE p \in U /\ q \notin U
      BY <1>3, <1>5, <1>6, <2>1, <2>3, <3>2 DEF coalesce, SizeAt
    <3>3. CASE p \notin U /\ q \in U
      BY <1>3, <1>5, <1>6, <2>1, <2>3, <3>3 DEF coalesce, SizeAt
    <3>4. CASE p \notin U /\ q \notin U
      BY <1>3, <1>5, <1>6, <2>1, <2>3, <3>4 DEF coalesce, SizeAt
    <3>5. QED
      BY <3>1, <3>2, <3>3, <3>4
  <2>5. QED
    BY <1>7, <2>2, <2>4
<1> DEFINE S == T \ Between(T, at, last)
           F == (S \ U) \ {at}
<1>16. /\ Tagged(u, T, U) /\ Lists(u, (T \ U) \ {bp, p}) /\ KeptAll(h, u, U)
       /\ u.brk = h.brk
  <2>1. p \in (T \ U) \ {bp} \/ p \in U
    BY <1>9
  <2>2. ((T \ U) \ {bp}) \ {p} = (T \ U) \ {bp, p}
    OBVIOUS
  <2>3. PICK E : E = (T \ U) \ {bp}
    OBVIOUS
  <2>4. E \subseteq T \ U /\ Lists(h, E) /\ (p \in E \/ p \in U)
    BY <1>1, <2>1, <2>3
  <2>5. /\ Tagged(u, T, U) /\ Lists(u, E \ {p}) /\ KeptAll(h, u, U)
        /\ u.brk = h.brk
    BY <1>1, <1>5, <2>4, LeaveKeeps
  <2>6. QED
    BY <2>2, <2>3, <2>5
<1>17. /\ Tagged(a, T, U) /\ Lists(a, (T \ U) \ {bp, p, q})
       /\ KeptAll(u, a, U) /\ a.brk = h.brk
  <2>1. q \in (T \ U) \ {bp, p} \/ q \in U
    BY <1>9
  <2>2. ((T \ U) \ {bp, p}) \ {q} = (T \ U) \ {bp, p, q}
    OBVIOUS
  <2>3. PICK E : E = (T \ U) \ {bp, p}
    OBVIOUS
  <2>4. E \subseteq T \ U /\ Lists(u, E) /\ (q \in E \/ q \in U)
    BY <1>16, <2>1, <2>3
  <2>5. /\ Tagged(a, T, U) /\ Lists(a, E \ {q}) /\ KeptAll(u, a, U)
        /\ a.brk = u.brk
    BY <1>6, <1>16, <2>4, LeaveKeeps
  <2>6. QED
    BY <1>16, <2>2, <2>3, <2>5
<1>18. KeptAll(h, a, U)
  BY <1>16, <1>17, KeptAllTrans
<1>19. /\ Tagged(m, S, U) /\ Lists(m, F) /\ KeptAll(h, m, U) /\ m.brk = h.brk
  <2>1. CASE p \in U /\ q \in U
    <3>1. m = h /\ at = bp /\ last = q
      BY <1>3, <1>4, <1>7, <1>9, <2>1
    <3>2. Between(T, at, last) = {}
      <4>1. \A t \in T : t \in Nat /\ (t <= bp \/ q <= t)
        BY <1>1, <1>8, CutFacts DEF Adj
      <4>2. QED
        <5>1. ASSUME NEW t \in Between(T, at, last) PROVE FALSE
          <6>1. t \in T /\ bp < t /\ t < q
            BY <3>1 DEF Between
          <6>2. QED
            BY <1>9, <4>1, <6>1
        <5>2. QED
          BY <5>1
    <3>3. S = T /\ F = (T \ U) \ {bp}
      BY <3>1, <3>2
    <3>4. KeptAll(h, h, U)
      BY KeptSelf DEF KeptAll
    <3>5. QED
      BY <1>1, <3>1, <3>3, <3>4
  <2>2. CASE ~(p \in U /\ q \in U)
    <3>1. PICK len : len = last - at
      OBVIOUS
    <3>2. m = Merge(a, at, len)
      BY <1>7, <2>2, <3>1
    <3>3. at < last
      BY <1>9, <1>12
    <3>4. UsedBefore(a, at)
      <4>1. PICK x \in U : Adj(T, x, at)
        BY <1>12
      <4>2. QED
        BY <1>1, <1>12, <1>17, <4>1 DEF Tagged, Told
    <3>5. Lists(a, F)
      BY <1>11, <1>17
    <3>6. PICK R, E : R = S /\ E = F
      OBVIOUS
    <3>7. R = T \ Between(T, at, last) /\ E = (R \ U) \ {at} /\ Lists(a, E)
      BY <3>5, <3>6
    <3>8. /\ Tagged(m, R, U) /\ Lists(m, E) /\ KeptAll(a, m, U)
          /\ m.brk = a.brk
      <4>1. /\ Tagged(a, T, U) /\ at \in T \ U /\ last \in T
            /\ Between(T, at, last) \cap U = {}
        BY <1>12, <1>17
      <4> HIDE DEF S, F
      <4>2. QED
        BY <3>1, <3>2, <3>3, <3>4, <3>7, <4>1, MergeKeeps
    <3>9. KeptAll(h, m, U)
      BY <1>17, <1>18, <3>8, KeptAllTrans
    <3>10. QED
      BY <1>17, <3>6, <3>8, <3>9
  <2>3. QED
    BY <2>1, <2>2
<1>20. PICK g : g = res.heap
  OBVIOUS
<1>21. at \in S
  BY <1>12 DEF Between
<1>22. /\ Tagged(g, S, U) /\ Lists(g, S \ U) /\ KeptAll(m, g, U)
       /\ g.brk = m.brk
  <2>1. F \subseteq S \ U /\ at \in S \ U /\ at \notin F /\ F \cup {at} = S \ U
    BY <1>12, <1>21
  <2>2. g = add_to_free_list(m, at)
    BY <1>15, <1>20
  <2>3. PICK R, E : R = S /\ E = F
    OBVIOUS
  <2>4. /\ Tagged(g, R, U) /\ Lists(g, E \cup {at}) /\ KeptAll(m, g, U)
        /\ g.brk = m.brk
    <3>1. /\ Tagged(m, R, U) /\ Lists(m, E) /\ E \subseteq R \ U
          /\ at \in R \ U /\ at \notin E
      BY <1>19, <2>1, <2>3
    <3> HIDE DEF S, F
    <3>2. QED
      BY <2>2, <3>1, AddKeeps
  <2>5. QED
    BY <2>1, <2>3, <2>4
<1>23. Alternates(S, U) /\ Adj(S, at, last)
  BY <1>1, <1>11, RunAlternates
<1>24. KeptAll(h, g, U) /\ g.brk = h.brk
  BY <1>19, <1>22, KeptAllTrans
<1>25. SizeAt(g, at) >= SizeAt(h, bp)
  <2>1. SizeAt(g, at) = last - at
    BY <1>22, <1>23 DEF Tagged, Told, Adj
  <2>2. QED
    BY <1>8, <1>9, <1>12, <1>13, <2>1
<1>26. Sound(g, S, U) /\ at \in S \ U
  BY <1>12, <1>21, <1>22, <1>23 DEF Sound
<1>27. S \subseteq T
  OBVIOUS
<1>28. bp \in S => at = bp
  <2>1. bp \in S => ~(at < bp /\ bp < last)
    BY DEF Between
  <2>2. QED
    BY <1>9, <1>12, <2>1
<1>29. QED
  <2> HIDE DEF S, F
  <2>1. QED
    BY <1>15, <1>20, <1>24, <1>25, <1>26, <1>27, <1>28 DEF Coalesced
-----------------------------------------------------------------------------
(* A block is given back.                                                    *)

\* Its tags, and the bit of the block behind it.
LEMMA FreeTags ==
    ASSUME NEW h, NEW T, NEW U, Tagged(h, T, U),
           NEW bp \in U, bp # heap_listp, NEW q, Adj(T, bp, q),
           NEW size, size = GET_SIZE(h, HDRP(bp)),
           NEW hdr, hdr = PUT(h, HDRP(bp),
                            PACK_HDR(size, GET_PREV_ALLOC(h, HDRP(bp)), 0)),
           NEW ftr, ftr = PUT(hdr, FTRP(hdr, bp), PACK_FTR(size)),
           NEW g, g = UNSET_PREV_ALLOC(ftr, HDRP(NEXT_BLKP(ftr, bp)))
    PROVE  /\ SameBut(h, g, {bp - 8, q - 16, q - 8})
           /\ g.free_list_head = h.free_list_head
           /\ SizeAt(g, bp) = q - bp /\ ~UsedAt(g, bp)
           /\ UsedBefore(g, bp) <=> UsedBefore(h, bp)
           /\ SizeAt(g, q) = SizeAt(h, q)
           /\ UsedAt(g, q) <=> UsedAt(h, q)
           /\ ~UsedBefore(g, q) /\ GET_SIZE(g, q - 16) = q - bp
           /\ NEXT_BLKP(ftr, bp) = q
<1>1. /\ h \in Heaps /\ Cuts(T, h.brk) /\ U \subseteq T
      /\ bp \in T /\ q \in T /\ heap_listp = 8
  BY DEF Tagged, Adj, heap_listp, SIZE_T_SIZE
<1>2. /\ HDRP(bp) \in Units /\ HDRP(bp) = bp - 8 /\ bp \in Nat /\ bp % 8 = 0
      /\ HDRP(q) \in Units /\ HDRP(q) = q - 8 /\ q \in Nat /\ q % 8 = 0
      /\ q <= h.brk /\ (q = heap_listp \/ q - 16 \in Units)
      /\ bp >= 24 /\ bp < q /\ bp + 32 <= q
  BY <1>1, CutFacts DEF Adj
<1>3. size = q - bp
  BY <1>1 DEF Tagged, Told, SizeAt
<1>4. h.brk \in Nat /\ h.brk <= MAX_HEAP /\ MAX_HEAP \in Nat
  BY <1>1, Numbers DEF Cuts
<1>5. /\ size \in Nat /\ size % 8 = 0 /\ size >= 32 /\ size <= MAX_HEAP
      /\ bp - 8 \in Units /\ bp + size - 16 \in Units
      /\ bp + size - 16 = q - 16 /\ bp + size = q
  BY <1>1, <1>2, <1>3, <1>4
<1>6. PICK prev_alloc : prev_alloc = GET_PREV_ALLOC(h, HDRP(bp))
  OBVIOUS
<1>7. prev_alloc \in {0, 1} /\ (UsedBefore(h, bp) <=> prev_alloc = 1)
  <2>1. h.mem[HDRP(bp)] \in Int
    BY <1>1, <1>2, Numbers DEF Heaps, Word
  <2>2. QED
    BY <1>6, <2>1, TagBits DEF GET_PREV_ALLOC, GET, UsedBefore
<1>8. Written(h, ftr, bp, size, prev_alloc)
  BY <1>1, <1>2, <1>5, <1>6, <1>7, TagsWritten
<1>9. /\ SameBut(h, ftr, {bp - 8, q - 16})
      /\ ftr.free_list_head = h.free_list_head
      /\ SizeAt(ftr, bp) = q - bp /\ ~UsedAt(ftr, bp)
      /\ UsedBefore(ftr, bp) <=> prev_alloc = 1
      /\ GET_SIZE(ftr, q - 16) = q - bp
  BY <1>3, <1>5, <1>8 DEF Written
<1>10. NEXT_BLKP(ftr, bp) = q
  BY <1>2, <1>9 DEF NEXT_BLKP, SizeAt
<1>11. PICK a \in Units : a = q - 8 /\ a = HDRP(q)
  BY <1>2
<1>12. ftr.mem[a] = h.mem[a] /\ a # bp - 8 /\ a # q - 16
  BY <1>2, <1>9, <1>11 DEF SameBut
<1>13. PICK x : x = h.mem[a]
  OBVIOUS
<1>14. x \in Word /\ x \in Int
  BY <1>1, <1>13, Numbers DEF Heaps, Word
<1>15. PICK y : y = x - (2 * ((x \div 2) % 2))
  OBVIOUS
<1>16. /\ y \in Int /\ y - (y % 8) = x - (x % 8) /\ y % 2 = x % 2
       /\ (y \div 2) % 2 = 0 /\ y >= x - (x % 8) /\ y <= x
  BY <1>14, <1>15, ClearBit
<1>17. SizeAt(h, q) \in Nat
  <2>1. CASE q = h.brk
    BY <2>1 DEF Tagged
  <2>2. CASE q # h.brk
    <3>1. PICK r : Adj(T, q, r)
      BY <1>1, <2>2, NextExists
    <3>2. r \in T /\ q < r /\ SizeAt(h, q) = r - q
      BY <1>1, <3>1 DEF Tagged, Told, Adj
    <3>3. r \in Nat
      BY <1>1, <3>2, CutFacts
    <3>4. QED
      BY <1>2, <3>2, <3>3
  <2>3. QED
    BY <2>1, <2>2
<1>18. y \in Word
  <2>1. x - (x % 8) >= 0
    BY <1>11, <1>13, <1>14, <1>17 DEF SizeAt, GET_SIZE, GET
  <2>2. QED
    BY <1>14, <1>16, <2>1, Numbers DEF Word
<1>19. g = PUT(ftr, a, y)
  BY <1>10, <1>11, <1>12, <1>13, <1>15
  DEF UNSET_PREV_ALLOC, GET_PREV_ALLOC, GET
<1>20. PutAt(ftr, g, a, y)
  <2>1. ftr \in Heaps
    BY <1>9 DEF SameBut
  <2>2. QED
    BY <1>18, <1>19, <2>1, PutHere
<1>21. SameBut(h, g, {bp - 8, q - 16, q - 8})
  BY <1>9, <1>11, <1>20 DEF SameBut, PutAt
<1>22. /\ g.mem[HDRP(q)] = y /\ h.mem[HDRP(q)] = x
       /\ g.mem[HDRP(bp)] = ftr.mem[HDRP(bp)]
       /\ g.mem[q - 16] = ftr.mem[q - 16]
  <2>1. HDRP(bp) # a /\ q - 16 # a /\ q - 16 \in Units
    BY <1>1, <1>2, <1>11
  <2>2. QED
    BY <1>2, <1>11, <1>13, <1>20, <2>1 DEF PutAt
<1>23. /\ SizeAt(g, q) = SizeAt(h, q)
       /\ UsedAt(g, q) <=> UsedAt(h, q)
       /\ ~UsedBefore(g, q)
  <2>1. y - (y % 8) = x - (x % 8) /\ y % 2 = x % 2 /\ (y \div 2) % 2 # 1
    BY <1>16
  <2>2. g.mem[HDRP(q)] = y /\ h.mem[HDRP(q)] = x
    BY <1>22
  <2>3. SizeAt(g, q) = y - (y % 8) /\ SizeAt(h, q) = x - (x % 8)
    BY <2>2 DEF SizeAt, GET_SIZE, GET
  <2>4. /\ UsedAt(g, q) <=> y % 2 = 1
        /\ UsedAt(h, q) <=> x % 2 = 1
        /\ UsedBefore(g, q) <=> (y \div 2) % 2 = 1
    BY <2>2 DEF UsedAt, UsedBefore, GET_ALLOC, GET_PREV_ALLOC, GET
  <2>5. QED
    BY <2>1, <2>3, <2>4
<1>24. GET_SIZE(g, q - 16) = q - bp
  BY <1>9, <1>22 DEF GET_SIZE, GET
<1>25. g.free_list_head = h.free_list_head
  BY <1>9, <1>20 DEF PutAt
<1>26. QED
  BY <1>7, <1>9, <1>10, <1>21, <1>22, <1>23, <1>24, <1>25, HeaderSame

\* A block that mm_free has given other tags.
Untagged(h, bp) ==
    LET size == GET_SIZE(h, HDRP(bp))
        hdr == PUT(h, HDRP(bp),
                   PACK_HDR(size, GET_PREV_ALLOC(h, HDRP(bp)), 0))
        ftr == PUT(hdr, FTRP(hdr, bp), PACK_FTR(size))
    IN  UNSET_PREV_ALLOC(ftr, HDRP(NEXT_BLKP(ftr, bp)))

\* That is what it gives to coalesce.
LEMMA FreeIs ==
    ASSUME NEW h, NEW bp
    PROVE  mm_free(h, bp) = coalesce(Untagged(h, bp), bp).heap
BY DEF mm_free, Untagged

\* The heap is sound but for that block.
LEMMA FreeLoose ==
    ASSUME NEW h, NEW T, NEW U, Sound(h, T, U),
           NEW bp \in U, bp # heap_listp, bp # h.brk,
           NEW V, V = U \ {bp}, NEW d, d = Untagged(h, bp)
    PROVE  Loose(d, T, V, bp) /\ d.brk = h.brk /\ KeptAll(h, d, V)
<1>1. /\ Tagged(h, T, U) /\ Lists(h, T \ U) /\ Alternates(T, U)
      /\ h \in Heaps /\ Cuts(T, h.brk) /\ U \subseteq T /\ bp \in T
  BY DEF Sound, Tagged
<1>2. PICK q : Adj(T, bp, q)
  BY <1>1, NextExists
<1>3. PICK size : size = GET_SIZE(h, HDRP(bp))
  OBVIOUS
<1>4. PICK hdr : hdr = PUT(h, HDRP(bp),
                            PACK_HDR(size, GET_PREV_ALLOC(h, HDRP(bp)), 0))
  OBVIOUS
<1>5. PICK ftr : ftr = PUT(hdr, FTRP(hdr, bp), PACK_FTR(size))
  OBVIOUS
<1>6. d = UNSET_PREV_ALLOC(ftr, HDRP(NEXT_BLKP(ftr, bp)))
  BY <1>3, <1>4, <1>5 DEF Untagged
<1>7. /\ SameBut(h, d, {bp - 8, q - 16, q - 8})
      /\ d.free_list_head = h.free_list_head
      /\ SizeAt(d, bp) = q - bp /\ ~UsedAt(d, bp)
      /\ UsedBefore(d, bp) <=> UsedBefore(h, bp)
      /\ SizeAt(d, q) = SizeAt(h, q)
      /\ UsedAt(d, q) <=> UsedAt(h, q)
      /\ ~UsedBefore(d, q) /\ GET_SIZE(d, q - 16) = q - bp
  BY <1>1, <1>2, <1>3, <1>4, <1>5, <1>6, FreeTags, SMTT(30)
<1>8. V \subseteq T /\ V \ {bp} = U \ {bp} /\ bp \notin V
  BY <1>1
<1>9. /\ Tagged(d, T, V)
      /\ \A p \in U : p # bp /\ p # h.brk => Kept(h, d, p)
  BY <1>1, <1>2, <1>7, <1>8, Retag
<1>10. Lists(d, T \ U)
  <2>1. PICK W : W = {bp - 8, q - 16, q - 8}
    OBVIOUS
  <2>2. PICK F : F = T \ U
    OBVIOUS
  <2>3. \A x \in F : x \notin W /\ x + 8 \notin W
    <3>1. ASSUME NEW x \in F PROVE x \notin W /\ x + 8 \notin W
      <4>1. /\ x \in T /\ x # bp /\ x # heap_listp /\ bp \in T /\ q \in T
            /\ x <= bp \/ q <= x
        BY <1>1, <1>2, <2>2 DEF Adj, Tagged
      <4>2. /\ x \in Nat /\ bp \in Nat /\ q \in Nat
            /\ x < bp => x + 32 <= bp
            /\ bp + 32 <= q
        BY <1>1, <1>2, <4>1, CutFacts DEF Adj
      <4>3. QED
        BY <2>1, <4>1, <4>2
    <3>2. QED
      BY <3>1
  <2>4. Lists(h, F) /\ F \subseteq T \ U /\ SameBut(h, d, W)
    BY <1>1, <1>7, <2>1, <2>2
  <2>5. Lists(d, F)
    BY <1>1, <1>7, <2>3, <2>4, ListsSame
  <2>6. QED
    BY <2>2, <2>5
<1>11. Loose(d, T, V, bp)
  <2>1. (T \ V) \ {bp} = T \ U
    OBVIOUS
  <2>2. \A p, r : Adj(T, p, r) => p \in V \/ r \in V \/ p = bp \/ r = bp
    BY <1>1 DEF Alternates
  <2>3. QED
    BY <1>1, <1>8, <1>9, <1>10, <2>1, <2>2 DEF Loose
<1>12. d.brk = h.brk
  BY <1>7 DEF SameBut
<1>13. KeptAll(h, d, V)
  BY <1>9 DEF KeptAll
<1>14. QED
  BY <1>11, <1>12, <1>13

\* Given back, it is merged with its free neighbours, and the others stay.
LEMMA FreeKeeps ==
    ASSUME NEW h, NEW T, NEW U, Sound(h, T, U),
           NEW bp \in U, bp # heap_listp, bp # h.brk,
           NEW V, V = U \ {bp}, NEW g, g = mm_free(h, bp)
    PROVE  /\ \E S : S \subseteq T /\ Sound(g, S, V)
           /\ g.brk = h.brk /\ KeptAll(h, g, V)
<1>1. PICK d : d = Untagged(h, bp)
  OBVIOUS
<1>2. Loose(d, T, V, bp) /\ d.brk = h.brk /\ KeptAll(h, d, V)
  BY <1>1, FreeLoose
<1>3. PICK res : res = coalesce(d, bp)
  OBVIOUS
<1>4. g = res.heap
  BY <1>1, <1>3, FreeIs
<1>5. Coalesced(d, g, res.bp, T, V, bp)
  BY <1>2, <1>3, <1>4, CoalesceKeeps
<1>6. KeptAll(h, g, V)
  BY <1>2, <1>5, KeptAllTrans DEF Coalesced
<1>7. QED
  BY <1>2, <1>5, <1>6 DEF Coalesced
-----------------------------------------------------------------------------
(* The heap grows.                                                           *)

\* Lengths that are computed without overflow.
LEMMA NoOverflow ==
    ASSUME NEW size \in Nat, size < WORD \div 2
    PROVE  /\ SizeT(size) = size /\ Int32(size) = size /\ size <= WORD
           /\ size % 8 = 0 => ALIGN(size) = size
<1>1. WORD \in Nat /\ WORD >= 256 /\ WORD % 2 = 0
  BY Numbers
<1>2. size < WORD /\ ~(size >= WORD \div 2)
  BY <1>1
<1>3. SizeT(size) = size
  BY <1>1, <1>2 DEF SizeT
<1>4. Int32(size) = size
  BY <1>2, <1>3 DEF Int32
<1>5. size % 8 = 0 => ALIGN(size) = size
  <2>1. size + 7 < WORD
    BY <1>1
  <2>2. SizeT(size + 7) = size + 7
    BY <1>1, <2>1 DEF SizeT
  <2>3. size % 8 = 0 => (size + 7) % 8 = 7
    OBVIOUS
  <2>4. QED
    BY <2>2, <2>3 DEF ALIGN
<1>6. QED
  <2>1. size <= WORD
    BY <1>1, <1>2
  <2>2. QED
    BY <1>3, <1>4, <1>5, <2>1

\* The old end of the heap becomes a free block, behind it there is a new end.
Extended(h, k, g, brk, end) ==
    /\ SameBut(k, g, {brk - 8, end - 16, end - 8})
    /\ g.free_list_head = h.free_list_head
    /\ SizeAt(g, brk) = end - brk /\ ~UsedAt(g, brk)
    /\ UsedBefore(g, brk) <=> UsedBefore(h, brk)
    /\ GET_SIZE(g, end - 16) = end - brk
    /\ SizeAt(g, end) = 0 /\ UsedAt(g, end) /\ ~UsedBefore(g, end)

\* extend_heap's new block has its tags, and the heap a new end.
LEMMA ExtendTags ==
    ASSUME NEW h, NEW T, NEW U, Tagged(h, T, U), NEW brk, brk = h.brk,
           NEW len \in Nat, len % 8 = 0, len >= 32,
           NEW end, end = brk + len, end <= MAX_HEAP,
           NEW k, k = [h EXCEPT !.brk = end],
           NEW hdr, hdr = PUT(k, HDRP(brk),
                            PACK_HDR(len, GET_PREV_ALLOC(h, HDRP(brk)), 0)),
           NEW ftr, ftr = PUT(hdr, FTRP(hdr, brk), PACK_FTR(len)),
           NEW g, g = PUT(ftr, HDRP(NEXT_BLKP(ftr, brk)), PACK_HDR(0, 0, 1))
    PROVE  Extended(h, k, g, brk, end) /\ HDRP(NEXT_BLKP(ftr, brk)) = end - 8
<1>1. /\ h \in Heaps /\ Cuts(T, brk) /\ brk \in T
  BY DEF Tagged, Cuts
<1>2. /\ HDRP(brk) \in Units /\ HDRP(brk) = brk - 8 /\ brk \in Nat
      /\ brk % 8 = 0 /\ brk >= 24
  BY <1>1, CutFacts DEF Cuts
<1>3. MAX_HEAP \in Nat /\ WORD \in Nat /\ WORD >= 256
  BY Numbers
<1>4. /\ end \in Nat /\ end % 8 = 0 /\ len <= MAX_HEAP
      /\ brk - 8 \in Units /\ brk + len - 16 = end - 16
  BY <1>2, <1>3
<1>5. /\ end - 16 \in Units /\ end - 8 \in Units
  <2>1. /\ end - 16 \in Nat /\ (end - 16) % 8 = 0 /\ end - 16 < MAX_HEAP
        /\ end - 8 \in Nat /\ (end - 8) % 8 = 0 /\ end - 8 < MAX_HEAP
    BY <1>2, <1>3, <1>4
  <2>2. QED
    BY <2>1, UnitsAre
<1>6. k \in Heaps /\ k.mem = h.mem /\ k.free_list_head = h.free_list_head
      /\ k.brk = end
  <2>1. end \in 0 .. MAX_HEAP
    BY <1>4
  <2>2. QED
    BY <1>1, <2>1 DEF Heaps
<1>7. PICK prev_alloc : prev_alloc = GET_PREV_ALLOC(h, HDRP(brk))
  OBVIOUS
<1>8. prev_alloc \in {0, 1} /\ (UsedBefore(h, brk) <=> prev_alloc = 1)
  <2>1. h.mem[HDRP(brk)] \in Int
    BY <1>1, <1>2, Numbers DEF Heaps, Word
  <2>2. QED
    BY <1>7, <2>1, TagBits DEF GET_PREV_ALLOC, GET, UsedBefore
<1>9. Written(k, ftr, brk, len, prev_alloc)
  <2>1. hdr = PUT(k, HDRP(brk), PACK_HDR(len, prev_alloc, 0))
    BY <1>7
  <2>2. brk + len - 16 \in Units
    BY <1>4, <1>5
  <2>3. QED
    BY <1>2, <1>4, <1>6, <1>8, <2>1, <2>2, TagsWritten
<1>10. /\ SameBut(k, ftr, {brk - 8, end - 16})
       /\ ftr.free_list_head = k.free_list_head
       /\ SizeAt(ftr, brk) = end - brk /\ ~UsedAt(ftr, brk)
       /\ UsedBefore(ftr, brk) <=> prev_alloc = 1
       /\ GET_SIZE(ftr, end - 16) = end - brk
  <2>1. len = end - brk
    BY <1>2
  <2>2. QED
    BY <1>4, <1>9, <2>1 DEF Written
<1>11. HDRP(NEXT_BLKP(ftr, brk)) = end - 8 /\ HDRP(end) = end - 8
  BY <1>2, <1>4, <1>10 DEF NEXT_BLKP, SizeAt, HDRP, SIZE_T_SIZE
<1>12. PICK a \in Units : a = end - 8
  BY <1>5
<1>13. PICK x \in Word : x = PACK_HDR(0, 0, 1)
  BY <1>3, TagIsWord
<1>14. PutAt(ftr, g, a, x)
  <2>1. ftr \in Heaps
    BY <1>10 DEF SameBut
  <2>2. g = PUT(ftr, a, x)
    BY <1>11, <1>12, <1>13
  <2>3. QED
    BY <2>1, <2>2, PutHere
<1>15. SameBut(k, g, {brk - 8, end - 16, end - 8})
  BY <1>10, <1>12, <1>14, SMTT(30) DEF SameBut, PutAt
<1>16. /\ g.mem[HDRP(end)] = PACK_HDR(0, 0, 1)
       /\ g.mem[HDRP(brk)] = ftr.mem[HDRP(brk)]
       /\ g.mem[end - 16] = ftr.mem[end - 16]
  <2>1. HDRP(brk) # a /\ end - 16 # a
    BY <1>2, <1>4, <1>12
  <2>2. QED
    BY <1>2, <1>5, <1>11, <1>12, <1>13, <1>14, <2>1, SMTT(30) DEF PutAt
<1>17. SizeAt(g, end) = 0 /\ UsedAt(g, end) /\ ~UsedBefore(g, end)
  <2>1. /\ SizeAt(g, end) = 0
        /\ UsedAt(g, end) <=> 1 = 1
        /\ UsedBefore(g, end) <=> 0 = 1
    BY <1>16, HeaderTells
  <2>2. QED
    BY <2>1
<1>18. GET_SIZE(g, end - 16) = end - brk
  BY <1>10, <1>16 DEF GET_SIZE, GET
<1>19. g.free_list_head = h.free_list_head
  BY <1>6, <1>10, <1>14 DEF PutAt
<1>20. QED
  <2>1. /\ SizeAt(g, brk) = SizeAt(ftr, brk)
        /\ UsedAt(g, brk) <=> UsedAt(ftr, brk)
        /\ UsedBefore(g, brk) <=> UsedBefore(ftr, brk)
    BY <1>16, HeaderSame
  <2>2. /\ UsedBefore(g, brk) <=> UsedBefore(h, brk)
        /\ SizeAt(g, brk) = end - brk /\ ~UsedAt(g, brk)
    BY <1>8, <1>10, <2>1
  <2>3. QED
    BY <1>11, <1>15, <1>17, <1>18, <1>19, <2>2 DEF Extended

\* What growing the heap by size bytes promises: nothing, or a free block.
Grown(h, res, T, U, size) ==
    \/ res.bp = NULL /\ res.heap = h
    \/ /\ res.bp # NULL /\ h.brk <= res.heap.brk
       /\ SizeAt(res.heap, res.bp) >= size
       /\ KeptAll(h, res.heap, U \ {h.brk})
       /\ \E S, V : /\ Sound(res.heap, S, V) /\ res.bp \in S \ V
                    /\ V = (U \ {h.brk}) \cup {res.heap.brk}
                    /\ S \subseteq T \cup {res.heap.brk}

\* What extend_heap makes of a heap before it merges the new block.
Lengthened(h, len) ==
    LET brk == h.brk
        k == [h EXCEPT !.brk = brk + len]
        hdr == PUT(k, HDRP(brk), PACK_HDR(len, GET_PREV_ALLOC(h, HDRP(brk)), 0))
        ftr == PUT(hdr, FTRP(hdr, brk), PACK_FTR(len))
    IN  PUT(ftr, HDRP(NEXT_BLKP(ftr, brk)), PACK_HDR(0, 0, 1))

\* It does so unless the heap would pass its limit.
LEMMA ExtendIs ==
    ASSUME NEW h, h.brk \in Nat, h.brk >= 24, NEW size \in Nat, size % 8 = 0,
           size < WORD \div 2
    PROVE  extend_heap(h, size) =
                IF h.brk + size > MAX_HEAP THEN [heap |-> h, bp |-> NULL]
                ELSE coalesce(Lengthened(h, size), h.brk)
<1>1. PICK brk \in Nat : brk = h.brk /\ brk >= 24
  OBVIOUS
<1>2. brk # NULL
  BY <1>1 DEF NULL
<1>3. ALIGN(size) = size /\ Int32(size) = size
  BY NoOverflow
<1>4. mem_sbrk(h, size) =
        IF brk + size > MAX_HEAP THEN [heap |-> h, bp |-> NULL]
        ELSE [heap |-> [h EXCEPT !.brk = brk + size], bp |-> brk]
  BY <1>1 DEF mem_sbrk
<1>5. CASE brk + size > MAX_HEAP
  BY <1>1, <1>3, <1>4, <1>5 DEF extend_heap
<1>6. CASE ~(brk + size > MAX_HEAP)
  BY <1>1, <1>2, <1>3, <1>4, <1>6 DEF extend_heap, Lengthened
<1>7. QED
  BY <1>1, <1>5, <1>6

\* The longer heap is sound but for that block.
LEMMA ExtendLoose ==
    ASSUME NEW h, NEW T, NEW U, Sound(h, T, U), NEW size \in Nat,
           size % 8 = 0, size >= 32, h.brk + size <= MAX_HEAP
    PROVE  \E d, S, V, brk, end :
              /\ d = Lengthened(h, size) /\ brk = h.brk /\ end = brk + size
              /\ S = T \cup {end} /\ V = (U \ {brk}) \cup {end}
              /\ Loose(d, S, V, brk) /\ end \notin T /\ d.brk = end
              /\ SizeAt(d, brk) = size
              /\ \A x \in U : x # brk => Kept(h, d, x)
<1> PICK brk, end : brk = h.brk /\ end = brk + size
  OBVIOUS
<1> PICK d, S, V : /\ d = Lengthened(h, size)
                     /\ S = T \cup {end} /\ V = (U \ {brk}) \cup {end}
  OBVIOUS
<1>1. /\ Tagged(h, T, U) /\ Lists(h, T \ U) /\ Alternates(T, U)
      /\ h \in Heaps /\ Cuts(T, brk) /\ U \subseteq T /\ brk \in U
      /\ heap_listp \in U
  BY DEF Sound, Tagged
<1>2. brk \in Nat /\ brk >= 24 /\ brk % 8 = 0 /\ brk \in T
  BY <1>1, CutFacts DEF Cuts
<1>3. PICK k : k = [h EXCEPT !.brk = end]
  OBVIOUS
<1>4. PICK hdr : hdr = PUT(k, HDRP(brk),
                          PACK_HDR(size, GET_PREV_ALLOC(h, HDRP(brk)), 0))
  OBVIOUS
<1>5. PICK ftr : ftr = PUT(hdr, FTRP(hdr, brk), PACK_FTR(size))
  OBVIOUS
<1>6. d = PUT(ftr, HDRP(NEXT_BLKP(ftr, brk)), PACK_HDR(0, 0, 1))
  BY <1>3, <1>4, <1>5 DEF Lengthened
<1>7. end \in Nat /\ end % 8 = 0 /\ brk + 32 <= end /\ end <= MAX_HEAP
  BY <1>2, Numbers
<1>8. /\ SameBut(k, d, {brk - 8, end - 16, end - 8})
      /\ d.free_list_head = h.free_list_head
      /\ SizeAt(d, brk) = end - brk /\ ~UsedAt(d, brk)
      /\ UsedBefore(d, brk) <=> UsedBefore(h, brk)
      /\ GET_SIZE(d, end - 16) = end - brk
      /\ SizeAt(d, end) = 0 /\ UsedAt(d, end) /\ ~UsedBefore(d, end)
  <2>1. Extended(h, k, d, brk, end)
    <3>1. Tagged(h, T, U) /\ end <= MAX_HEAP
      BY <1>1, <1>7
    <3>2. QED
      BY <1>3, <1>4, <1>5, <1>6, <3>1, ExtendTags
  <2>2. QED
    BY <2>1 DEF Extended
<1>9. /\ k.mem = h.mem /\ k.brk = end
       /\ k.free_list_head = h.free_list_head
  BY <1>1, <1>3 DEF Heaps
<1>10. /\ d \in Heaps /\ d.brk = end
       /\ \A a \in Units : a \notin {brk - 8, end - 16, end - 8} =>
              d.mem[a] = h.mem[a]
  BY <1>8, <1>9 DEF SameBut
<1>11. /\ Tagged(d, S, V) /\ end \notin T
       /\ \A x \in U : x # brk => Kept(h, d, x)
  <2>1. BlockAppended(h, d, T, U, brk, end)
    BY <1>1, <1>7, <1>8, <1>10 DEF BlockAppended
  <2>2. QED
    BY <2>1, RetagExtend
<1>12. Lists(d, T \ U)
  <2>1. PICK F : F = T \ U
    OBVIOUS
  <2>2. F \subseteq Inner(T, brk)
    BY <1>1, <2>1 DEF Inner
  <2>3. PICK n, L : Listing(h, n, L, F)
    BY <1>1, <2>1 DEF Lists
  <2>4. Listing(k, n, L, F)
    BY <1>9, <2>3 DEF Listing
  <2>5. PICK W : W = {brk - 8, end - 16, end - 8}
    OBVIOUS
  <2>6. \A x \in F : x \notin W /\ x + 8 \notin W
    <3>1. \A x \in F : x \in Nat /\ x + 32 <= brk
      <4>1. ASSUME NEW x \in F PROVE x \in Nat /\ x + 32 <= brk
        <5>1. x \in T /\ x # brk /\ x # heap_listp
          BY <2>2 DEF Inner
        <5>2. x \in Nat /\ x <= brk
          BY <1>1, <5>1, CutFacts
        <5>3. x < brk
          BY <1>2, <5>1, <5>2
        <5>4. QED
          BY <1>1, <1>2, <5>1, <5>2, <5>3, CutFacts
      <4>2. QED
        BY <4>1
    <3>2. QED
      BY <1>2, <1>7, <2>5, <3>1
  <2>7. SameBut(k, d, W) /\ d.free_list_head = k.free_list_head
    BY <1>8, <1>9, <2>5
  <2>8. Listing(d, n, L, F)
    BY <1>1, <2>2, <2>4, <2>6, <2>7, ListSame
  <2>9. QED
    BY <2>1, <2>8 DEF Lists
<1>13. Loose(d, S, V, brk)
  <2>1. brk \in S \ V
    BY <1>2, <1>11
  <2>2. (S \ V) \ {brk} = T \ U
    BY <1>1, <1>11
  <2>3. Longer(T, brk, end)
    BY <1>1, <1>7, CutsExtend
  <2>4. ASSUME NEW p, NEW q, Adj(S, p, q)
        PROVE  p \in V \/ q \in V \/ p = brk \/ q = brk
    <3>1. CASE p = brk
      BY <3>1
    <3>2. CASE p # brk /\ Adj(T, p, q)
      BY <1>1, <3>2 DEF Alternates
    <3>3. QED
      BY <2>3, <2>4, <3>1, <3>2 DEF Longer
  <2>5. Lists(d, (S \ V) \ {brk})
    BY <1>12, <2>2
  <2>6. QED
    BY <1>11, <2>1, <2>4, <2>5 DEF Loose
<1>14. SizeAt(d, brk) = size /\ d.brk = end /\ end \notin T
  BY <1>2, <1>8, <1>10, <1>11
<1>15. \A x \in U : x # brk => Kept(h, d, x)
  BY <1>11
<1>16. QED
  BY <1>13, <1>14, <1>15

\* extend_heap gives one free block at the end, merged with the last.
LEMMA ExtendKeeps ==
    ASSUME NEW h, NEW T, NEW U, Sound(h, T, U), NEW size \in Nat,
           size % 8 = 0, size >= 32, size < WORD \div 2,
           NEW res, res = extend_heap(h, size)
    PROVE  Grown(h, res, T, U, size)
<1>1. PICK brk, end : brk = h.brk /\ end = brk + size
  OBVIOUS
<1>2. /\ brk \in Nat /\ brk >= 24 /\ brk \in U /\ end \in Nat /\ brk <= end
      /\ U \subseteq T
  <2>1. Cuts(T, brk) /\ brk \in T /\ brk \in U /\ 24 \in T /\ brk \in Nat
        /\ U \subseteq T
    BY <1>1 DEF Sound, Tagged, Cuts
  <2>2. 24 <= brk
    BY <2>1, CutFacts
  <2>3. QED
    BY <1>1, <2>1, <2>2
<1>3. res = IF end > MAX_HEAP THEN [heap |-> h, bp |-> NULL]
            ELSE coalesce(Lengthened(h, size), brk)
  BY <1>1, <1>2, ExtendIs
<1>4. CASE end > MAX_HEAP
  BY <1>3, <1>4 DEF Grown
<1>5. CASE ~(end > MAX_HEAP)
  <2>1. h.brk + size <= MAX_HEAP
    BY <1>1, <1>2, <1>5, Numbers
  <2>2. PICK d, S, V :
            /\ d = Lengthened(h, size)
            /\ S = T \cup {end} /\ V = (U \ {brk}) \cup {end}
            /\ Loose(d, S, V, brk) /\ end \notin T /\ d.brk = end
            /\ SizeAt(d, brk) = size
            /\ \A x \in U : x # brk => Kept(h, d, x)
    BY <1>1, <2>1, ExtendLoose
  <2>4. /\ Loose(d, S, V, brk) /\ end \notin T /\ d.brk = end
        /\ SizeAt(d, brk) = size
        /\ \A x \in U : x # brk => Kept(h, d, x)
    BY <2>2
  <2>5. Coalesced(d, res.heap, res.bp, S, V, brk)
    BY <1>3, <1>5, <2>2, <2>4, CoalesceKeeps
  <2>6. /\ res.heap.brk = end /\ SizeAt(res.heap, res.bp) >= size
        /\ KeptAll(d, res.heap, V)
        /\ \E R : /\ Sound(res.heap, R, V) /\ res.bp \in R \ V
                  /\ R \subseteq T \cup {end}
    BY <2>2, <2>4, <2>5 DEF Coalesced
  <2>7. res.bp # NULL
    <3>1. PICK R : Sound(res.heap, R, V) /\ res.bp \in R \ V
      BY <2>6
    <3>2. Cuts(R, res.heap.brk) /\ res.bp \in R
      BY <3>1 DEF Sound, Tagged
    <3>3. res.bp >= 8
      BY <3>2, CutFacts
    <3>4. QED
      BY <3>3 DEF NULL
  <2>8. KeptAll(h, res.heap, U \ {brk})
    <3>1. ASSUME NEW x \in U \ {brk} PROVE Kept(h, res.heap, x)
      <4>1. x \in V /\ x # end /\ x \in U /\ x # brk
        BY <1>2, <2>2, <2>4
      <4>2. Kept(h, d, x) /\ Kept(d, res.heap, x)
        BY <2>4, <2>6, <4>1 DEF KeptAll
      <4>3. QED
        BY <4>2, KeptTrans
    <3>2. QED
      BY <3>1 DEF KeptAll
  <2>9. QED
    BY <1>1, <1>2, <2>2, <2>6, <2>7, <2>8 DEF Grown
<1>6. QED
  BY <1>4, <1>5
-----------------------------------------------------------------------------
(* A block is placed.                                                        *)

\* When links are written, the tags stay and so do the blocks without links.
LEMMA LinksLeave ==
    ASSUME NEW g, NEW h, NEW T, NEW U, Tagged(g, T, U), NEW F,
           F \subseteq Inner(T, g.brk), LinksOnly(g, h, F)
    PROVE  /\ Tagged(h, T, U)
           /\ \A p \in T : p # g.brk /\ p \notin F => Kept(g, h, p)
<1>1. Cuts(T, g.brk)
  BY DEF Tagged
<1>2. /\ \A t \in T : /\ t - 8 \notin LinkWords(F)
                      /\ t # heap_listp => t - 16 \notin LinkWords(F)
      /\ \A p, q : Adj(T, p, q) /\ p \notin F =>
            \A a \in LinkWords(F) : a < p \/ a >= q - 8
  BY <1>1, LinksAreFree
<1>3. Tagged(h, T, U)
  BY <1>2, TagsSame DEF LinksOnly
<1>4. ASSUME NEW p \in T, p # g.brk, p \notin F PROVE Kept(g, h, p)
  <2>1. PICK q : Adj(T, p, q)
    BY <1>1, <1>4, NextExists
  <2>2. SizeAt(h, p) = SizeAt(g, p)
    BY <1>1, <1>2, SizeSame DEF LinksOnly
  <2>3. \A a \in LinkWords(F) : a < p \/ a >= q - 8
    BY <1>2, <1>4, <2>1
  <2>4. QED
    BY <2>1, <2>2, <2>3, KeptSame DEF LinksOnly
<1>5. QED
  BY <1>3, <1>4

\* A free block and what is around it.
LEMMA FreeFacts ==
    ASSUME NEW h, NEW T, NEW U, Sound(h, T, U), NEW p \in T \ U
    PROVE  /\ h \in Heaps /\ Cuts(T, h.brk) /\ U \subseteq T
           /\ p # heap_listp /\ p # h.brk /\ T \ U \subseteq Inner(T, h.brk)
           /\ UsedBefore(h, p)
           /\ \E q \in U : Adj(T, p, q)
<1>1. /\ Tagged(h, T, U) /\ Alternates(T, U)
      /\ h \in Heaps /\ Cuts(T, h.brk) /\ U \subseteq T
      /\ p # heap_listp /\ p # h.brk /\ T \ U \subseteq Inner(T, h.brk)
  BY DEF Sound, Tagged, Inner
<1>2. UsedBefore(h, p)
  <2>1. PICK x : Adj(T, x, p)
    BY <1>1, PreviousExists
  <2>2. x \in U
    BY <1>1, <2>1 DEF Alternates
  <2>3. QED
    BY <1>1, <2>1, <2>2 DEF Tagged, Told
<1>3. \E q \in U : Adj(T, p, q)
  <2>1. PICK q : Adj(T, p, q)
    BY <1>1, NextExists
  <2>2. QED
    BY <1>1, <2>1 DEF Alternates
<1>4. QED
  BY <1>1, <1>2, <1>3

\* What placing a block of at least size bytes at bp promises.
Placed(h, g, T, U, bp, size) ==
    /\ \E S : S \subseteq T \cup {bp + size} /\ Sound(g, S, U \cup {bp})
    /\ SizeAt(g, bp) >= size /\ g.brk = h.brk /\ KeptAll(h, g, U)

\* The header of a block put to use, and the bit of the block behind it.
UseTags(h, g, bp, q) ==
    /\ SameBut(h, g, {bp - 8, q - 16, q - 8})
    /\ g.free_list_head = h.free_list_head
    /\ SizeAt(g, bp) = q - bp /\ UsedAt(g, bp) /\ UsedBefore(g, bp)
    /\ SizeAt(g, q) = SizeAt(h, q)
    /\ UsedAt(g, q) <=> UsedAt(h, q)
    /\ UsedBefore(g, q)

\* What place writes to use a block as a whole.
LEMMA UseTagsIs ==
    ASSUME NEW h, NEW T, NEW U, Tagged(h, T, U),
           NEW bp \in T \ U, NEW q, Adj(T, bp, q),
           NEW size, size = GET_SIZE(h, HDRP(bp)),
           NEW hdr, hdr = PUT(h, HDRP(bp), PACK_HDR(size, 1, 1)),
           NEW g, g = SET_PREV_ALLOC(hdr, HDRP(NEXT_BLKP(hdr, bp)))
    PROVE  UseTags(h, g, bp, q) /\ NEXT_BLKP(hdr, bp) = q
<1>1. /\ h \in Heaps /\ Cuts(T, h.brk) /\ U \subseteq T /\ heap_listp \in U
      /\ bp \in T /\ q \in T /\ heap_listp = 8 /\ bp # heap_listp
  BY DEF Tagged, Adj, heap_listp, SIZE_T_SIZE
<1>2. /\ HDRP(bp) \in Units /\ HDRP(bp) = bp - 8 /\ bp \in Nat /\ bp % 8 = 0
      /\ HDRP(q) \in Units /\ HDRP(q) = q - 8 /\ q \in Nat /\ q % 8 = 0
      /\ q <= h.brk /\ bp >= 24 /\ bp < q /\ bp + 32 <= q
  BY <1>1, CutFacts DEF Adj
<1>3. size = q - bp
  BY <1>1 DEF Tagged, Told, SizeAt
<1>4. h.brk \in Nat /\ h.brk <= MAX_HEAP /\ MAX_HEAP \in Nat
  BY <1>1, Numbers DEF Cuts
<1>5. size \in Nat /\ size % 8 = 0 /\ size <= MAX_HEAP
  BY <1>1, <1>2, <1>3, <1>4
<1>6. PICK v \in Word : v = PACK_HDR(size, 1, 1)
  BY <1>5, TagIsWord
<1>7. PutAt(h, hdr, HDRP(bp), v)
  BY <1>1, <1>2, <1>6, PutHere
<1>8. SizeAt(hdr, bp) = q - bp /\ UsedAt(hdr, bp) /\ UsedBefore(hdr, bp)
  <2>1. hdr.mem[HDRP(bp)] = PACK_HDR(size, 1, 1)
    BY <1>6, <1>7 DEF PutAt
  <2>2. /\ SizeAt(hdr, bp) = size
        /\ UsedAt(hdr, bp) <=> 1 = 1
        /\ UsedBefore(hdr, bp) <=> 1 = 1
    BY <1>5, <2>1, HeaderTells
  <2>3. QED
    BY <1>3, <2>2
<1>9. NEXT_BLKP(hdr, bp) = q
  BY <1>2, <1>8 DEF NEXT_BLKP, SizeAt
<1>10. PICK a \in Units : a = q - 8 /\ a = HDRP(q)
  BY <1>2
<1>11. hdr.mem[a] = h.mem[a] /\ a # HDRP(bp)
  BY <1>2, <1>7, <1>10 DEF PutAt
<1>12. PICK x : x = h.mem[a]
  OBVIOUS
<1>13. x \in Word /\ x \in Int
  BY <1>1, <1>12, Numbers DEF Heaps, Word
<1>14. PICK y : y = x + (2 * (1 - ((x \div 2) % 2)))
  OBVIOUS
<1>15. /\ y \in Int /\ y - (y % 8) = x - (x % 8) /\ y % 2 = x % 2
       /\ (y \div 2) % 2 = 1 /\ y >= x /\ y <= (x - (x % 8)) + 7
  BY <1>13, <1>14, SetBit
<1>16. x - (x % 8) <= MAX_HEAP
  <2>1. SizeAt(h, q) <= MAX_HEAP
    <3>1. CASE q = h.brk
      BY <1>4, <3>1 DEF Tagged
    <3>2. CASE q # h.brk
      <4>1. PICK r : Adj(T, q, r)
        BY <1>1, <3>2, NextExists
      <4>2. r \in T /\ q < r /\ SizeAt(h, q) = r - q
        BY <1>1, <4>1 DEF Tagged, Told, Adj
      <4>3. r \in Nat /\ r <= h.brk
        BY <1>1, <4>2, CutFacts
      <4>4. QED
        BY <1>2, <1>4, <4>2, <4>3
    <3>3. QED
      BY <3>1, <3>2
  <2>2. QED
    BY <1>10, <1>12, <2>1 DEF SizeAt, GET_SIZE, GET
<1>17. y \in Word
  BY <1>4, <1>13, <1>15, <1>16, Numbers DEF Word
<1>18. g = PUT(hdr, a, y)
  BY <1>9, <1>10, <1>11, <1>12, <1>14
  DEF SET_PREV_ALLOC, GET_PREV_ALLOC, GET
<1>19. PutAt(hdr, g, a, y)
  <2>1. hdr \in Heaps
    BY <1>7 DEF PutAt
  <2>2. QED
    BY <1>17, <1>18, <2>1, PutHere
<1>20. SameBut(h, g, {bp - 8, q - 16, q - 8})
  BY <1>1, <1>2, <1>7, <1>10, <1>19 DEF SameBut, PutAt
<1>21. /\ g.mem[HDRP(q)] = y /\ h.mem[HDRP(q)] = x
       /\ g.mem[HDRP(bp)] = hdr.mem[HDRP(bp)]
  BY <1>2, <1>10, <1>11, <1>12, <1>19 DEF PutAt
<1>22. /\ SizeAt(g, q) = SizeAt(h, q)
       /\ UsedAt(g, q) <=> UsedAt(h, q)
       /\ UsedBefore(g, q)
  <2>1. y - (y % 8) = x - (x % 8) /\ y % 2 = x % 2 /\ (y \div 2) % 2 = 1
    BY <1>15
  <2>2. g.mem[HDRP(q)] = y /\ h.mem[HDRP(q)] = x
    BY <1>21
  <2>3. SizeAt(g, q) = y - (y % 8) /\ SizeAt(h, q) = x - (x % 8)
    BY <2>2 DEF SizeAt, GET_SIZE, GET
  <2>4. /\ UsedAt(g, q) <=> y % 2 = 1
        /\ UsedAt(h, q) <=> x % 2 = 1
        /\ UsedBefore(g, q) <=> (y \div 2) % 2 = 1
    BY <2>2 DEF UsedAt, UsedBefore, GET_ALLOC, GET_PREV_ALLOC, GET
  <2>5. QED
    BY <2>1, <2>3, <2>4
<1>23. SizeAt(g, bp) = q - bp /\ UsedAt(g, bp) /\ UsedBefore(g, bp)
  BY <1>8, <1>21, HeaderSame
<1>24. g.free_list_head = h.free_list_head
  BY <1>7, <1>19 DEF PutAt
<1>25. QED
  BY <1>9, <1>20, <1>22, <1>23, <1>24 DEF UseTags

\* A free block is used as a whole.
LEMMA UseWholeKeeps ==
    ASSUME NEW h, NEW T, NEW U, Sound(h, T, U), NEW bp \in T \ U,
           NEW size, SizeAt(h, bp) >= size, NEW g, g = UseWhole(h, bp)
    PROVE  Placed(h, g, T, U, bp, size)
<1>1. /\ h \in Heaps /\ Cuts(T, h.brk) /\ U \subseteq T
      /\ bp # heap_listp /\ bp # h.brk /\ T \ U \subseteq Inner(T, h.brk)
      /\ UsedBefore(h, bp) /\ \E q \in U : Adj(T, bp, q)
  BY FreeFacts
<1>2. PICK q \in U : Adj(T, bp, q)
  BY <1>1
<1>3. Tagged(h, T, U) /\ Lists(h, T \ U) /\ Alternates(T, U)
  BY DEF Sound
<1>4. PICK csize : csize = GET_SIZE(h, HDRP(bp))
  OBVIOUS
<1>5. PICK hdr : hdr = PUT(h, HDRP(bp), PACK_HDR(csize, 1, 1))
  OBVIOUS
<1>6. PICK d : d = SET_PREV_ALLOC(hdr, HDRP(NEXT_BLKP(hdr, bp)))
  OBVIOUS
<1>7. g = remove_from_free_list(d, bp)
  BY <1>4, <1>5, <1>6 DEF UseWhole
<1>8. UseTags(h, d, bp, q)
  BY <1>2, <1>3, <1>4, <1>5, <1>6, UseTagsIs
<1> DEFINE V == U \cup {bp}
<1>9. /\ SameBut(h, d, {bp - 8, q - 16, q - 8})
      /\ d.free_list_head = h.free_list_head
      /\ SizeAt(d, bp) = q - bp /\ UsedAt(d, bp) /\ UsedBefore(d, bp)
      /\ SizeAt(d, q) = SizeAt(h, q)
      /\ UsedAt(d, q) <=> UsedAt(h, q)
      /\ UsedBefore(d, q)
  BY <1>8 DEF UseTags
<1>10. /\ Tagged(d, T, V)
       /\ \A p \in U : p # bp /\ p # h.brk => Kept(h, d, p)
  <2>1. PICK R : R = V
    OBVIOUS
  <2>2. R \subseteq T /\ R \ {bp} = U \ {bp} /\ bp \in R
    BY <1>1, <2>1
  <2>3. /\ Tagged(d, T, R)
        /\ \A p \in U : p # bp /\ p # h.brk => Kept(h, d, p)
    BY <1>1, <1>2, <1>3, <1>9, <2>2, Retag
  <2>4. QED
    BY <2>1, <2>3
<1>11. PICK F : F = T \ U
  OBVIOUS
<1>12. d \in Heaps /\ d.brk = h.brk
  BY <1>9 DEF SameBut
<1>13. Lists(d, F)
  <2>1. PICK W : W = {bp - 8, q - 16, q - 8}
    OBVIOUS
  <2>2. \A x \in F : x \notin W /\ x + 8 \notin W
    <3>1. ASSUME NEW x \in F PROVE x \notin W /\ x + 8 \notin W
      <4>1. /\ x \in T /\ x # heap_listp /\ bp \in T /\ q \in T
            /\ x <= bp \/ q <= x
        BY <1>1, <1>2, <1>3, <1>11 DEF Adj, Tagged
      <4>2. /\ x \in Nat /\ bp \in Nat /\ q \in Nat
            /\ x < bp => x + 32 <= bp
            /\ bp + 32 <= q
        BY <1>1, <1>2, <4>1, CutFacts DEF Adj
      <4>3. QED
        BY <2>1, <4>1, <4>2
    <3>2. QED
      BY <3>1
  <2>3. F \subseteq T \ U /\ Lists(h, F) /\ SameBut(h, d, W)
    BY <1>3, <1>9, <1>11, <2>1
  <2>4. QED
    BY <1>3, <1>9, <2>2, <2>3, ListsSame
<1>14. /\ LinksOnly(d, g, F) /\ Lists(g, F \ {bp})
  <2>1. PICK n, L : Listing(d, n, L, F)
    BY <1>13 DEF Lists
  <2>2. F \subseteq Inner(T, d.brk) /\ Cuts(T, d.brk) /\ bp \in F
    BY <1>1, <1>11, <1>12
  <2>3. LinksOnly(d, g, F) /\ \E m, M : Listing(g, m, M, F \ {bp})
    BY <1>7, <1>12, <2>1, <2>2, RemoveLists
  <2>4. QED
    BY <2>3 DEF Lists
<1>15. /\ Tagged(g, T, V)
       /\ \A p \in T : p # h.brk /\ p \notin F => Kept(d, g, p)
  <2>1. PICK R : R = V
    OBVIOUS
  <2>2. Tagged(d, T, R) /\ F \subseteq Inner(T, d.brk)
    BY <1>1, <1>10, <1>11, <1>12, <2>1
  <2>3. /\ Tagged(g, T, R)
        /\ \A p \in T : p # d.brk /\ p \notin F => Kept(d, g, p)
    BY <1>14, <2>2, LinksLeave
  <2>4. QED
    BY <1>12, <2>1, <2>3
<1>16. KeptAll(h, g, U)
  <2>1. ASSUME NEW p \in U, p # h.brk PROVE Kept(h, g, p)
    <3>1. p \in T /\ p \notin F /\ p # bp
      BY <1>1, <1>11
    <3>2. Kept(h, d, p) /\ Kept(d, g, p)
      BY <1>10, <1>15, <2>1, <3>1
    <3>3. QED
      BY <3>2, KeptTrans
  <2>2. QED
    BY <2>1 DEF KeptAll
<1>17. Sound(g, T, V)
  <2>1. F \ {bp} = T \ V
    BY <1>11
  <2>2. Alternates(T, V)
    BY <1>3 DEF Alternates
  <2>3. QED
    BY <1>14, <1>15, <2>1, <2>2 DEF Sound
<1>18. g.brk = h.brk
  BY <1>12, <1>14 DEF LinksOnly, SameBut
<1>19. SizeAt(g, bp) >= size
  <2>1. SizeAt(h, bp) = q - bp /\ SizeAt(g, bp) = q - bp
    BY <1>2, <1>3, <1>15 DEF Tagged, Told, Adj
  <2>2. QED
    BY <2>1
<1>20. T \subseteq T \cup {bp + size}
  OBVIOUS
<1>21. QED
  BY <1>16, <1>17, <1>18, <1>19, <1>20 DEF Placed

\* A free block is cut in two, one part used and one free.
LEMMA SplitOffKeeps ==
    ASSUME NEW h, NEW T, NEW U, Sound(h, T, U), NEW bp \in T \ U,
           NEW size \in Nat, size % 8 = 0, size >= 32,
           SizeAt(h, bp) >= size + 32, NEW g, g = SplitOff(h, bp, size),
           NEW b, b = remove_from_free_list(
                            PUT(h, HDRP(bp), PACK_HDR(size, 1, 1)), bp)
    PROVE  Placed(h, g, T, U, bp, size) /\ NEXT_BLKP(b, bp) = bp + size
<1>1. /\ h \in Heaps /\ Cuts(T, h.brk) /\ U \subseteq T
      /\ bp # heap_listp /\ bp # h.brk /\ T \ U \subseteq Inner(T, h.brk)
      /\ UsedBefore(h, bp) /\ \E q \in U : Adj(T, bp, q)
  BY FreeFacts
<1>2. PICK q \in U : Adj(T, bp, q)
  BY <1>1
<1>3. Tagged(h, T, U) /\ Lists(h, T \ U) /\ Alternates(T, U)
  BY DEF Sound
<1>4. SizeAt(h, bp) = q - bp
  BY <1>2, <1>3 DEF Tagged, Told, Adj
<1>5. /\ HDRP(bp) \in Units /\ HDRP(bp) = bp - 8 /\ bp \in Nat /\ bp % 8 = 0
      /\ q \in Nat /\ q % 8 = 0 /\ q <= h.brk /\ bp >= 24 /\ q >= 24
      /\ q - 16 \in Units /\ bp \in T /\ q \in T /\ bp < q
      /\ \A t \in T : t <= bp \/ q <= t
  <2>1. bp \in T /\ q \in T /\ bp < q /\ \A t \in T : t <= bp \/ q <= t
    BY <1>2 DEF Adj
  <2>2. heap_listp = 8
    BY DEF heap_listp, SIZE_T_SIZE
  <2>3. \A t \in T : /\ HDRP(t) \in Units /\ HDRP(t) = t - 8 /\ t \in Nat
                     /\ t >= 8 /\ t <= h.brk /\ t % 8 = 0
                     /\ t = heap_listp \/ (t >= 24 /\ t - 16 \in Units)
    BY <1>1, CutFacts
  <2>4. q # heap_listp
    BY <1>1, <2>1, <2>2, <2>3
  <2>5. QED
    BY <1>1, <2>1, <2>3, <2>4
<1>6. PICK m : m = bp + size
  OBVIOUS
<1>7. PICK rest : rest = GET_SIZE(h, HDRP(bp)) - size
  OBVIOUS
<1>8. h.brk \in Nat /\ h.brk <= MAX_HEAP /\ MAX_HEAP \in Nat
  BY <1>1, Numbers DEF Cuts
<1>9. /\ m \in Nat /\ m % 8 = 0 /\ bp + 32 <= m /\ m + 32 <= q
      /\ rest = q - m /\ rest \in Nat /\ rest % 8 = 0 /\ rest >= 32
      /\ rest <= MAX_HEAP /\ m + rest - 16 = q - 16 /\ size <= MAX_HEAP
  BY <1>4, <1>5, <1>6, <1>7, <1>8 DEF SizeAt
<1>10. m - 8 \in Units /\ HDRP(m) = m - 8
  <2>1. m - 8 \in Nat /\ (m - 8) % 8 = 0 /\ m - 8 < MAX_HEAP
    BY <1>5, <1>8, <1>9
  <2>2. QED
    BY <2>1, UnitsAre DEF HDRP, SIZE_T_SIZE
<1>11. PICK a : a = PUT(h, HDRP(bp), PACK_HDR(size, 1, 1))
  OBVIOUS
<1>12. b = remove_from_free_list(a, bp)
  BY <1>11
<1>13. PICK hdr : hdr = PUT(b, HDRP(m), PACK_HDR(rest, 1, 0))
  OBVIOUS
<1>14. PICK d : d = PUT(hdr, FTRP(hdr, m), PACK_FTR(rest))
  OBVIOUS
<1>15. PICK F : F = T \ U
  OBVIOUS
<1>16. PICK v \in Word : v = PACK_HDR(size, 1, 1)
  BY <1>9, TagIsWord
<1>17. PutAt(h, a, HDRP(bp), v)
  BY <1>1, <1>5, <1>11, <1>16, PutHere
<1>18. SizeAt(a, bp) = size /\ UsedAt(a, bp) /\ UsedBefore(a, bp)
  <2>1. a.mem[HDRP(bp)] = PACK_HDR(size, 1, 1)
    BY <1>16, <1>17 DEF PutAt
  <2>2. /\ SizeAt(a, bp) = size
        /\ UsedAt(a, bp) <=> 1 = 1
        /\ UsedBefore(a, bp) <=> 1 = 1
    BY <2>1, HeaderTells
  <2>3. QED
    BY <2>2
<1>19. /\ SameBut(h, a, {bp - 8}) /\ a.free_list_head = h.free_list_head
       /\ a \in Heaps /\ a.brk = h.brk
  BY <1>1, <1>5, <1>17 DEF SameBut, PutAt
<1>20. \A x \in F : /\ x \in T /\ x \in Nat /\ x # heap_listp
                    /\ x < bp => x + 32 <= bp
                    /\ x <= bp \/ q <= x
  <2>1. ASSUME NEW x \in F
        PROVE  /\ x \in T /\ x \in Nat /\ x # heap_listp
               /\ x < bp => x + 32 <= bp
               /\ x <= bp \/ q <= x
    <3>1. x \in T /\ x # heap_listp
      BY <1>1, <1>15 DEF Inner
    <3>2. QED
      BY <1>1, <1>5, <3>1, CutFacts
  <2>2. QED
    BY <2>1
<1>21. PICK n, L : Listing(a, n, L, F)
  <2>1. \A x \in F : x \notin {bp - 8} /\ x + 8 \notin {bp - 8}
    BY <1>5, <1>20
  <2>2. F \subseteq T \ U /\ Lists(h, F)
    BY <1>3, <1>15
  <2>3. Lists(a, F)
    BY <1>3, <1>19, <2>1, <2>2, ListsSame
  <2>4. QED
    BY <2>3 DEF Lists
<1>22. /\ LinksOnly(a, b, F) /\ Lists(b, F \ {bp})
  <2>1. F \subseteq Inner(T, a.brk) /\ Cuts(T, a.brk) /\ bp \in F
    BY <1>1, <1>15, <1>19
  <2>2. LinksOnly(a, b, F) /\ \E k, M : Listing(b, k, M, F \ {bp})
    BY <1>12, <1>19, <1>21, <2>1, RemoveLists
  <2>3. QED
    BY <2>2 DEF Lists
<1>23. b \in Heaps /\ b.brk = h.brk
  BY <1>19, <1>22 DEF LinksOnly, SameBut
<1>24. /\ bp - 8 \notin LinkWords(F)
       /\ b.mem[HDRP(bp)] = a.mem[HDRP(bp)]
  <2>1. F \subseteq Inner(T, h.brk)
    BY <1>1, <1>15
  <2>2. \A t \in T : t - 8 \notin LinkWords(F)
    BY <1>1, <2>1, LinksAreFree
  <2>3. QED
    BY <1>5, <1>22, <2>2 DEF LinksOnly, SameBut
<1>25. SizeAt(b, bp) = size /\ UsedAt(b, bp) /\ UsedBefore(b, bp)
  BY <1>18, <1>24, HeaderSame
<1>26. g = add_to_free_list(d, m) /\ NEXT_BLKP(b, bp) = m
  <2>1. NEXT_BLKP(b, bp) = m
    BY <1>6, <1>25 DEF NEXT_BLKP, SizeAt
  <2>2. QED
    BY <1>7, <1>11, <1>12, <1>13, <1>14, <2>1 DEF SplitOff
<1>27. Written(b, d, m, rest, 1)
  <2>1. m + rest - 16 \in Units
    BY <1>5, <1>9
  <2>2. QED
    BY <1>9, <1>10, <1>13, <1>14, <1>23, <2>1, TagsWritten
<1>28. /\ SameBut(b, d, {m - 8, q - 16}) /\ d.free_list_head = b.free_list_head
       /\ SizeAt(d, m) = q - m /\ ~UsedAt(d, m) /\ UsedBefore(d, m)
       /\ GET_SIZE(d, q - 16) = q - m
  BY <1>9, <1>27 DEF Written
<1>29. SizeAt(d, bp) = m - bp /\ UsedAt(d, bp) /\ UsedBefore(d, bp)
  <2>1. bp - 8 # m - 8 /\ bp - 8 # q - 16 /\ size = m - bp
    BY <1>5, <1>6, <1>9
  <2>2. d.mem[HDRP(bp)] = b.mem[HDRP(bp)]
    BY <1>5, <1>28, <2>1 DEF SameBut
  <2>3. QED
    BY <1>25, <2>1, <2>2, HeaderSame
<1>30. SameBut(h, d, {bp - 8, m - 8, q - 16} \cup LinkWords(F))
  BY <1>19, <1>22, <1>28 DEF SameBut, LinksOnly
<1> DEFINE S == T \cup {m}
           V == U \cup {bp}
<1>31. /\ Tagged(d, S, V) /\ m \notin T
       /\ \A x \in U : x # h.brk => Kept(h, d, x)
  <2>1. bp \notin U /\ F \subseteq T \ U
    BY <1>15
  <2>2. QED
    BY <1>1, <1>2, <1>3, <1>9, <1>28, <1>29, <1>30, <2>1, RetagSplit, ZenonT(60)
<1>32. Lists(d, F \ {bp})
  <2>1. PICK E : E = F \ {bp}
    OBVIOUS
  <2>2. PICK W : W = {m - 8, q - 16}
    OBVIOUS
  <2>3. E \subseteq Inner(T, h.brk)
    BY <1>1, <1>15, <2>1
  <2>4. \A x \in E : x \notin W /\ x + 8 \notin W
    <3>1. ASSUME NEW x \in E PROVE x \notin W /\ x + 8 \notin W
      <4>1. /\ x \in Nat /\ x # bp /\ (x < bp => x + 32 <= bp)
            /\ x <= bp \/ q <= x
        BY <1>20, <2>1
      <4>2. x # m - 8 /\ x # q - 16 /\ x + 8 # m - 8 /\ x + 8 # q - 16
        BY <1>5, <1>9, <4>1
      <4>3. QED
        BY <2>2, <4>2
    <3>2. QED
      BY <3>1
  <2>5. PICK k, M : Listing(b, k, M, E)
    BY <1>22, <2>1 DEF Lists
  <2>6. SameBut(b, d, W)
    BY <1>28, <2>2
  <2>7. Listing(d, k, M, E)
    BY <1>1, <1>28, <2>3, <2>4, <2>5, <2>6, ListSame
  <2>8. QED
    BY <2>1, <2>7 DEF Lists
<1>33. /\ Tagged(g, S, V) /\ Lists(g, S \ V) /\ KeptAll(d, g, V)
       /\ g.brk = d.brk
  <2>1. PICK R, B, E : R = S /\ B = V /\ E = F \ {bp}
    OBVIOUS
  <2>2. E \subseteq R \ B /\ m \in R \ B /\ m \notin E /\ E \cup {m} = R \ B
    BY <1>1, <1>9, <1>15, <1>31, <2>1
  <2>3. /\ Tagged(d, R, B) /\ Lists(d, E)
    BY <1>31, <1>32, <2>1
  <2>4. /\ Tagged(g, R, B) /\ Lists(g, E \cup {m}) /\ KeptAll(d, g, B)
        /\ g.brk = d.brk
    BY <1>26, <2>2, <2>3, AddKeeps
  <2>5. QED
    BY <2>1, <2>2, <2>4
<1>34. Alternates(S, V)
  <2>1. CutAt(T, bp, m, q)
    BY <1>1, <1>2, <1>9, CutsSplit
  <2>2. ASSUME NEW r, NEW s, Adj(S, r, s) PROVE r \in V \/ s \in V
    <3>1. CASE r = bp \/ s = q
      BY <3>1
    <3>2. CASE Adj(T, r, s)
      BY <1>3, <3>2 DEF Alternates
    <3>3. QED
      BY <2>1, <2>2, <3>1, <3>2 DEF CutAt
  <2>3. QED
    BY <2>2 DEF Alternates
<1>35. d.brk = h.brk
  BY <1>23, <1>28 DEF SameBut
<1>36. KeptAll(h, g, U)
  <2>1. KeptAll(h, d, U)
    BY <1>31 DEF KeptAll
  <2>2. PICK B : B = V
    OBVIOUS
  <2>3. U \subseteq B /\ KeptAll(d, g, B)
    BY <1>33, <2>2
  <2>4. QED
    BY <1>35, <2>1, <2>3, KeptAllTrans
<1>37. SizeAt(g, bp) = size
  <2>1. Adj(S, bp, m)
    BY <1>1, <1>2, <1>9, CutsSplit DEF CutAt
  <2>2. SizeAt(g, bp) = m - bp
    BY <1>33, <2>1 DEF Tagged, Told, Adj
  <2>3. QED
    BY <1>5, <1>6, <2>2
<1>38. Sound(g, S, V)
  BY <1>33, <1>34 DEF Sound
<1>39. S \subseteq T \cup {bp + size}
  BY <1>6
<1>40. QED
  <2> HIDE DEF S
  <2>1. QED
    BY <1>6, <1>26, <1>33, <1>35, <1>36, <1>37, <1>38, <1>39 DEF Placed

\* A block is placed in a free one of at least its size.
LEMMA PlaceKeeps ==
    ASSUME NEW h, NEW T, NEW U, Sound(h, T, U), NEW bp \in T \ U,
           NEW size \in Nat, size % 8 = 0, size >= 32, size < WORD \div 2,
           SizeAt(h, bp) >= size, NEW g, g = place(h, bp, size)
    PROVE  Placed(h, g, T, U, bp, size)
<1>1. SizeT(size + MinBlock) = size + 32
  <2>1. WORD \in Nat /\ WORD >= 256 /\ WORD % 2 = 0
    BY Numbers
  <2>2. size + 32 < WORD
    BY <2>1
  <2>3. QED
    BY <2>1, <2>2 DEF SizeT, MinBlock, SIZE_T_SIZE, PTR_SIZE
<1>2. CASE SizeAt(h, bp) >= size + 32
  <2>1. g = SplitOff(h, bp, size)
    BY <1>1, <1>2 DEF place, SizeAt
  <2>2. PICK b : b = remove_from_free_list(
                            PUT(h, HDRP(bp), PACK_HDR(size, 1, 1)), bp)
    OBVIOUS
  <2>3. QED
    BY <1>2, <2>1, <2>2, SplitOffKeeps
<1>3. CASE ~(SizeAt(h, bp) >= size + 32)
  <2>1. g = UseWhole(h, bp)
    BY <1>1, <1>3 DEF place, SizeAt
  <2>2. QED
    BY <2>1, UseWholeKeeps
<1>4. QED
  BY <1>2, <1>3
-----------------------------------------------------------------------------
(* FreeList and Tiling are recursive; they are got from any function that    *)
(* satisfies their equation.                                                 *)

Most == MAX_HEAP \div MinBlock

\* How many blocks a heap can have.
LEMMA MostIs ==
    /\ Most \in Nat /\ 32 * Most <= MAX_HEAP /\ MAX_HEAP < (32 * Most) + 32
    /\ MAX_HEAP \in Nat
BY Numbers DEF Most, MinBlock, SIZE_T_SIZE, PTR_SIZE

Nodes(f, h) ==
    f = [i \in 1 .. MAX_HEAP \div MinBlock |->
            IF i = 1 THEN h.free_list_head
            ELSE LET bp == f[i - 1]
                 IN  IF bp = NULL THEN NULL ELSE GET(h, NEXT_FREEP(bp))]

NodeStep(f, h, i) ==
    f[i] = IF i = 1 THEN h.free_list_head
           ELSE IF f[i - 1] = NULL THEN NULL ELSE h.mem[f[i - 1] + 8]

\* The walk along the list, node by node.
LEMMA NodesAre ==
    ASSUME NEW h, NEW f
    PROVE  Nodes(f, h) <=> /\ f = [i \in 1 .. Most |-> f[i]]
                           /\ \A i \in 1 .. Most : NodeStep(f, h, i)
BY DEF Nodes, NodeStep, Most, GET, NEXT_FREEP, PTR_SIZE

\* There is one such walk.
LEMMA NodesAreUnique ==
    ASSUME NEW h, NEW f, Nodes(f, h), NEW g, Nodes(g, h)
    PROVE  g = f
<1> DEFINE D == {i \in 1 .. Most : g[i] # f[i]}
<1>1. /\ f = [i \in 1 .. Most |-> f[i]] /\ g = [i \in 1 .. Most |-> g[i]]
      /\ \A i \in 1 .. Most : NodeStep(f, h, i) /\ NodeStep(g, h, i)
  BY NodesAre
<1>2. CASE D = {}
  BY <1>1, <1>2
<1>3. CASE D # {}
  <2>1. D \in SUBSET Nat
    BY MostIs
  <2>2. PICK i \in D : \A j \in D : i <= j
    <3> HIDE DEF D
    <3>1. QED
      BY <1>3, <2>1, LeastExists
  <2>3. i \in 1 .. Most /\ NodeStep(f, h, i) /\ NodeStep(g, h, i)
    BY <1>1, <2>2
  <2>4. i # 1 => g[i - 1] = f[i - 1]
    <3>1. i # 1 => i - 1 \in 1 .. Most /\ ~(i <= i - 1)
      BY <2>3, MostIs
    <3>2. QED
      BY <2>2, <3>1
  <2>5. g[i] = f[i]
    BY <2>3, <2>4 DEF NodeStep
  <2>6. QED
    BY <2>2, <2>5
<1>4. QED
  BY <1>2, <1>3

\* FreeList is what that walk finds.
LEMMA FreeListIs ==
    ASSUME NEW h, NEW f, Nodes(f, h)
    PROVE  FreeList(h) = [i \in {j \in 1 .. Most : f[j] # NULL} |-> f[i]]
<1>1. FreeList(h) = LET node == CHOOSE g : Nodes(g, h)
                    IN  [i \in {j \in 1 .. Most : node[j] # NULL} |-> node[i]]
  BY Zenon DEF FreeList, Nodes, Most
<1>2. Nodes(CHOOSE g : Nodes(g, h), h)
  BY Zenon
<1>3. (CHOOSE g : Nodes(g, h)) = f
  BY <1>2, NodesAreUnique
<1>4. QED
  BY <1>1, <1>3

\* The heap has room for the nodes.
LEMMA ListBound ==
    ASSUME NEW T, NEW brk, Cuts(T, brk), NEW F, F \subseteq Inner(T, brk),
           NEW h, NEW n, NEW L, Listing(h, n, L, F)
    PROVE  n <= Most
<1> DEFINE f == [i \in 1 .. n |-> (L[i] + 8) \div 32]
<1>1. n \in Nat /\ \A i \in 1 .. n : L[i] \in F
  BY DEF Listing
<1>2. brk \in Nat /\ brk <= MAX_HEAP
  BY DEF Cuts
<1>3. ASSUME NEW i \in 1 .. n
      PROVE  L[i] \in Nat /\ L[i] >= 24 /\ L[i] + 32 <= brk /\ L[i] \in T
             /\ L[i] # heap_listp
  <2>1. PICK x \in F : x = L[i]
    BY <1>1
  <2>2. x \in T /\ x # heap_listp /\ x # brk
    BY DEF Inner
  <2>3. x \in Nat /\ x <= brk /\ x >= 24
    BY <2>2, CutFacts
  <2>4. brk \in T
    BY DEF Cuts
  <2>5. x < brk
    BY <1>2, <2>2, <2>3
  <2>6. x + 32 <= brk
    BY <2>2, <2>4, <2>5, CutFacts
  <2>7. QED
    BY <2>1, <2>2, <2>3, <2>6
<1>4. \A i \in 1 .. n : f[i] \in 1 .. Most
  <2>1. ASSUME NEW x \in Nat, x >= 24, x + 32 <= brk
        PROVE  (x + 8) \div 32 \in 1 .. Most
    BY <1>2, <2>1, MostIs
  <2>2. QED
    BY <1>3, <2>1
<1>5. ASSUME NEW i \in 1 .. n, NEW j \in 1 .. n, i # j PROVE f[i] # f[j]
  <2>1. PICK x, y : x = L[i] /\ y = L[j]
    OBVIOUS
  <2>2. /\ x \in Nat /\ y \in Nat /\ x \in T /\ y \in T
        /\ x # heap_listp /\ y # heap_listp
    BY <1>3, <2>1
  <2>3. x # y
    BY <1>5, <2>1 DEF Listing
  <2>4. x + 32 <= y \/ y + 32 <= x
    BY <2>2, <2>3, CutFacts
  <2>5. (x + 8) \div 32 # (y + 8) \div 32
    BY <2>2, <2>4
  <2>6. QED
    BY <2>1, <2>5
<1>6. CASE n > Most
  <2>1. /\ IsFiniteSet(1 .. n) /\ Cardinality(1 .. n) = n
        /\ IsFiniteSet(1 .. Most) /\ Cardinality(1 .. Most) = Most
    <3>1. ASSUME NEW k \in Nat
          PROVE  IsFiniteSet(1 .. k) /\ Cardinality(1 .. k) = k
      <4>1. /\ IsFiniteSet(1 .. k)
            /\ Cardinality(1 .. k) = IF 1 > k THEN 0 ELSE k - 1 + 1
        BY FS_Interval
      <4>2. QED
        BY <4>1
    <3>2. QED
      BY <1>1, <3>1, MostIs
  <2>2. f \in [1 .. n -> 1 .. Most]
    BY <1>4
  <2>3. \E i, j \in 1 .. n : i # j /\ f[i] = f[j]
    <3> HIDE DEF f
    <3>1. QED
      BY <1>6, <2>1, <2>2, FS_PigeonHole
  <2>4. QED
    BY <1>5, <2>3
<1>7. QED
  BY <1>1, <1>6, MostIs

\* Walking the links gives the list.
LEMMA FreeListIsList ==
    ASSUME NEW T, NEW h, Cuts(T, h.brk), NEW F, F \subseteq Inner(T, h.brk),
           NEW n, NEW L, Listing(h, n, L, F)
    PROVE  FreeList(h) = L
<1> DEFINE f == [i \in 1 .. Most |-> IF i <= n THEN L[i] ELSE NULL]
<1>1. /\ n \in Nat /\ L \in [1 .. n -> F]
      /\ h.free_list_head = IF n = 0 THEN NULL ELSE L[1]
      /\ \A i \in 1 .. n : h.mem[L[i] + 8] = IF i = n THEN NULL ELSE L[i + 1]
  BY DEF Listing
<1>2. PICK brk : brk = h.brk
  OBVIOUS
<1>3. n <= Most
  <2>1. Cuts(T, brk) /\ F \subseteq Inner(T, brk)
    BY <1>2
  <2>2. QED
    BY <2>1, ListBound
<1>4. \A x \in F : x # NULL
  <2>1. Cuts(T, brk) /\ F \subseteq Inner(T, brk)
    BY <1>2
  <2>2. QED
    BY <2>1, LinksApart
<1>5. ASSUME NEW i \in 1 .. Most PROVE NodeStep(f, h, i)
  <2>1. i \in Nat /\ i >= 1 /\ (i # 1 => i - 1 \in 1 .. Most)
    BY MostIs
  <2>2. f[i] = IF i <= n THEN L[i] ELSE NULL
    OBVIOUS
  <2>3. i # 1 => f[i - 1] = IF i - 1 <= n THEN L[i - 1] ELSE NULL
    BY <2>1
  <2> HIDE DEF f
  <2>4. CASE i = 1
    BY <1>1, <2>2, <2>4 DEF NodeStep
  <2>5. CASE i # 1 /\ i - 1 <= n
    <3>1. i - 1 \in 1 .. n /\ (i - 1) + 1 = i /\ (i - 1 = n <=> ~(i <= n))
      BY <1>1, <2>1, <2>5
    <3>2. f[i - 1] = L[i - 1] /\ f[i - 1] # NULL
      BY <1>1, <1>4, <2>3, <2>5, <3>1
    <3>3. QED
      BY <1>1, <2>2, <2>5, <3>1, <3>2 DEF NodeStep
  <2>6. CASE i # 1 /\ ~(i - 1 <= n)
    <3>1. ~(i <= n)
      BY <1>1, <2>1, <2>6
    <3>2. QED
      BY <2>2, <2>3, <2>6, <3>1 DEF NodeStep
  <2>7. QED
    BY <2>4, <2>5, <2>6
<1>6. Nodes(f, h)
  BY <1>5, NodesAre
<1>7. \A i \in 1 .. Most : f[i] # NULL <=> i \in 1 .. n
  <2>1. \A i \in 1 .. n : L[i] # NULL
    BY <1>1, <1>4
  <2>2. QED
    BY <1>1, <1>3, <2>1, MostIs
<1>8. {j \in 1 .. Most : f[j] # NULL} = 1 .. n
  <2>1. \A i \in 1 .. n : i \in 1 .. Most
    BY <1>1, <1>3, MostIs
  <2> HIDE DEF f
  <2>2. QED
    BY <1>7, <2>1
<1>9. FreeList(h) = [i \in 1 .. n |-> f[i]]
  <2> HIDE DEF f
  <2>1. QED
    BY <1>6, <1>8, FreeListIs, ZenonT(60)
<1>10. \A i \in 1 .. n : f[i] = L[i]
  BY <1>1, <1>3, MostIs
<1>11. QED
  <2> HIDE DEF f
  <2>1. [i \in 1 .. n |-> f[i]] = [i \in 1 .. n |-> L[i]]
    BY <1>10
  <2>2. [i \in 1 .. n |-> L[i]] = L
    BY <1>1
  <2>3. QED
    BY <1>9, <2>1, <2>2
\* The blocks in order of address.
Walks(f, h) ==
    f = [i \in 0 .. (MAX_HEAP \div MinBlock) + 1 |->
            IF i = 0 THEN heap_listp
            ELSE LET bp == f[i - 1]
                 IN  IF bp < h.brk THEN NEXT_BLKP(h, bp) ELSE bp]

WalkStep(f, h, i) ==
    f[i] = IF i = 0 THEN heap_listp
           ELSE IF f[i - 1] < h.brk THEN NEXT_BLKP(h, f[i - 1]) ELSE f[i - 1]

\* The walk from block to block, one by one.
LEMMA WalksAre ==
    ASSUME NEW h, NEW f
    PROVE  Walks(f, h) <=> /\ f = [i \in 0 .. Most + 1 |-> f[i]]
                           /\ \A i \in 0 .. Most + 1 : WalkStep(f, h, i)
BY DEF Walks, WalkStep, Most

\* There is such a walk.
LEMMA WalksExist == ASSUME NEW h PROVE \E f : Walks(f, h)
<1> DEFINE Upto(f, n) == \A i \in 0 .. n : WalkStep(f, h, i)
           D == {n \in Nat : ~\E f : Upto(f, n)}
<1>1. \E f : Upto(f, 0)
  <2> DEFINE f == [i \in {0} |-> heap_listp]
  <2>1. \A i \in 0 .. 0 : i = 0
    OBVIOUS
  <2>2. Upto(f, 0)
    BY <2>1 DEF WalkStep
  <2> HIDE DEF f
  <2>3. QED
    BY <2>2
<1>2. ASSUME NEW n \in Nat, n # 0, NEW f, Upto(f, n - 1)
      PROVE  \E g : Upto(g, n)
  <2> DEFINE v == IF f[n - 1] < h.brk THEN NEXT_BLKP(h, f[n - 1]) ELSE f[n - 1]
             g == [i \in 0 .. n |-> IF i = n THEN v ELSE f[i]]
  <2>1. /\ g[n] = v /\ n - 1 \in 0 .. n /\ n - 1 # n
        /\ \A i \in 0 .. n - 1 : g[i] = f[i]
    BY <1>2
  <2> HIDE DEF g
  <2>2. ASSUME NEW i \in 0 .. n PROVE WalkStep(g, h, i)
    <3>1. CASE i = n
      <4>1. g[n - 1] = f[n - 1]
        BY <1>2, <2>1
      <4>2. QED
        BY <1>2, <2>1, <3>1, <4>1 DEF WalkStep
    <3>2. CASE i # n
      <4>1. /\ i \in 0 .. n - 1 /\ (i # 0 => i - 1 \in 0 .. n - 1)
        BY <1>2, <3>2
      <4>2. g[i] = f[i] /\ (i # 0 => g[i - 1] = f[i - 1])
        BY <2>1, <4>1
      <4>3. WalkStep(f, h, i)
        BY <1>2, <4>1
      <4>4. QED
        BY <4>2, <4>3 DEF WalkStep
    <3>3. QED
      BY <3>1, <3>2
  <2>3. QED
    BY <2>2
<1> HIDE DEF Upto
<1>3. CASE D # {}
  <2>1. PICK n \in D : \A m \in D : n <= m
    <3>1. D \in SUBSET Nat
      OBVIOUS
    <3> HIDE DEF D
    <3>2. QED
      BY <1>3, <3>1, LeastExists
  <2>2. n \in Nat /\ n # 0 /\ ~\E f : Upto(f, n)
    BY <1>1, <2>1
  <2>3. n - 1 \in Nat /\ n - 1 \notin D
    BY <2>1, <2>2
  <2>4. PICK f : Upto(f, n - 1)
    BY <2>3
  <2>5. QED
    BY <1>2, <2>2, <2>4
<1>4. CASE D = {}
  <2>1. Most + 1 \in Nat
    BY MostIs
  <2>2. PICK f : Upto(f, Most + 1)
    BY <1>4, <2>1
  <2> DEFINE g == [i \in 0 .. Most + 1 |-> f[i]]
  <2>3. ASSUME NEW i \in 0 .. Most + 1 PROVE WalkStep(g, h, i)
    <3>1. i # 0 => i - 1 \in 0 .. Most + 1
      BY MostIs
    <3>2. g[i] = f[i] /\ (i # 0 => g[i - 1] = f[i - 1])
      BY <3>1
    <3>3. WalkStep(f, h, i)
      BY <2>2 DEF Upto
    <3> HIDE DEF g
    <3>4. QED
      BY <3>2, <3>3 DEF WalkStep
  <2>4. g = [i \in 0 .. Most + 1 |-> g[i]]
    OBVIOUS
  <2> HIDE DEF g
  <2>5. Walks(g, h)
    BY <2>3, <2>4, WalksAre
  <2>6. QED
    BY <2>5
<1>5. QED
  BY <1>3, <1>4

\* There is only one.
LEMMA WalksAreUnique ==
    ASSUME NEW h, NEW f, Walks(f, h), NEW g, Walks(g, h)
    PROVE  g = f
<1> DEFINE D == {i \in 0 .. Most + 1 : g[i] # f[i]}
<1>1. /\ f = [i \in 0 .. Most + 1 |-> f[i]]
      /\ g = [i \in 0 .. Most + 1 |-> g[i]]
      /\ \A i \in 0 .. Most + 1 : WalkStep(f, h, i) /\ WalkStep(g, h, i)
  BY WalksAre
<1>2. CASE D = {}
  BY <1>1, <1>2
<1>3. CASE D # {}
  <2>1. D \in SUBSET Nat
    BY MostIs
  <2>2. PICK i \in D : \A j \in D : i <= j
    <3> HIDE DEF D
    <3>1. QED
      BY <1>3, <2>1, LeastExists
  <2>3. i \in 0 .. Most + 1 /\ WalkStep(f, h, i) /\ WalkStep(g, h, i)
    BY <1>1, <2>2
  <2>4. i # 0 => g[i - 1] = f[i - 1]
    <3>1. i # 0 => i - 1 \in 0 .. Most + 1 /\ ~(i <= i - 1)
      BY <2>3, MostIs
    <3>2. QED
      BY <2>2, <3>1
  <2>5. g[i] = f[i]
    BY <2>3, <2>4 DEF WalkStep
  <2>6. QED
    BY <2>2, <2>5
<1>4. QED
  BY <1>2, <1>3

\* Tiling is what that walk finds.
LEMMA TilingIs ==
    ASSUME NEW h, NEW f, Walks(f, h)
    PROVE  Tiling(h) = {f[i] : i \in 0 .. Most + 1}
<1>1. Tiling(h) = LET at == CHOOSE g : Walks(g, h)
                  IN  {at[i] : i \in DOMAIN at}
  BY Zenon DEF Tiling, Walks
<1>2. Walks(CHOOSE g : Walks(g, h), h)
  BY Zenon
<1>3. (CHOOSE g : Walks(g, h)) = f
  BY <1>2, WalksAreUnique
<1>4. Tiling(h) = {f[i] : i \in DOMAIN f}
  BY <1>1, <1>3
<1>5. DOMAIN f = 0 .. Most + 1
  BY DEF Walks, Most
<1>6. QED
  BY <1>4, <1>5

\* Walking from block to block visits all of them, and nothing else.
LEMMA TilingIsCuts ==
    ASSUME NEW h, NEW T, NEW U, Tagged(h, T, U)
    PROVE  Tiling(h) = T
<1>1. PICK f : Walks(f, h)
  BY WalksExist
<1>2. PICK brk : brk = h.brk
  OBVIOUS
<1>3. Cuts(T, brk) /\ brk \in T /\ brk \in Nat /\ brk <= MAX_HEAP
      /\ heap_listp \in T /\ 24 \in T /\ heap_listp = 8
  BY <1>2 DEF Tagged, Cuts, heap_listp, SIZE_T_SIZE
<1>4. \A t \in T : t \in Nat /\ t >= 8 /\ t <= brk
                   /\ \A u \in T : u < t /\ u # heap_listp => u + 32 <= t
  BY <1>3, CutFacts
<1>5. \A i \in 0 .. Most + 1 : WalkStep(f, h, i)
  BY <1>1, WalksAre
<1>6. ASSUME NEW p \in T, p # brk
      PROVE  Adj(T, p, NEXT_BLKP(h, p))
  <2>1. PICK q : Adj(T, p, q)
    BY <1>3, <1>6, NextExists
  <2>2. q \in T /\ SizeAt(h, p) = q - p
    BY <2>1 DEF Tagged, Told, Adj
  <2>3. NEXT_BLKP(h, p) = q
    BY <1>4, <2>2 DEF NEXT_BLKP, SizeAt
  <2>4. QED
    BY <2>1, <2>3
<1>7. ASSUME NEW i \in 0 .. Most + 1, i # 0, f[i - 1] \in T
      PROVE  IF f[i - 1] = brk THEN f[i] = brk ELSE Adj(T, f[i - 1], f[i])
  <2>1. f[i] = IF f[i - 1] < brk THEN NEXT_BLKP(h, f[i - 1]) ELSE f[i - 1]
    BY <1>2, <1>5, <1>7 DEF WalkStep
  <2>2. f[i - 1] < brk <=> f[i - 1] # brk
    <3>1. PICK x \in T : x = f[i - 1]
      BY <1>7
    <3>2. x \in Nat /\ x <= brk
      BY <1>4
    <3>3. QED
      BY <1>3, <3>1, <3>2
  <2>3. QED
    BY <1>6, <1>7, <2>1, <2>2
<1>8. f[0] = heap_listp
  <2>1. 0 \in 0 .. Most + 1
    BY MostIs
  <2>2. QED
    BY <1>5, <2>1 DEF WalkStep
<1> DEFINE Far(i) == /\ f[i] \in T
                     /\ i > 0 => f[i] = brk \/ f[i] >= 32 * i - 8
           D == {i \in 0 .. Most + 1 : ~Far(i)}
<1>9. ASSUME NEW i \in 0 .. Most + 1, i # 0, Far(i - 1) PROVE Far(i)
  <2>1. CASE f[i - 1] = brk
    BY <1>3, <1>7, <1>9, <2>1
  <2>2. CASE f[i - 1] # brk
    <3>1. PICK p, q : p = f[i - 1] /\ q = f[i]
      OBVIOUS
    <3>2. Adj(T, p, q)
      BY <1>7, <1>9, <2>2, <3>1
    <3>3. p \in T /\ q \in T /\ p \in Nat /\ q \in Nat /\ p < q
      BY <1>4, <3>2 DEF Adj
    <3>4. CASE i = 1
      <4>1. p = 8 /\ (24 <= 8 \/ q <= 24)
        BY <1>3, <1>8, <3>1, <3>2, <3>4 DEF Adj
      <4>2. q >= 24
        BY <1>3, <3>3, <4>1 DEF Cuts
      <4>3. QED
        BY <3>1, <3>3, <3>4, <4>2
    <3>5. CASE i # 1
      <4>1. i - 1 > 0 /\ i \in Nat
        BY <1>9, <3>5, MostIs
      <4>2. p >= 32 * (i - 1) - 8
        BY <1>9, <2>2, <3>1, <4>1
      <4>3. p # heap_listp
        BY <1>3, <4>1, <4>2
      <4>4. p + 32 <= q
        BY <1>4, <3>3, <4>3
      <4>5. q >= 32 * i - 8
        BY <3>3, <4>1, <4>2, <4>4
      <4>6. QED
        BY <3>1, <3>3, <4>5
    <3>6. QED
      BY <3>4, <3>5
  <2>3. QED
    BY <2>1, <2>2
<1>10. Far(0)
  BY <1>3, <1>8
<1>11. \A i \in 0 .. Most + 1 : Far(i)
  <2> HIDE DEF Far
  <2>1. CASE D = {}
    BY <2>1
  <2>2. CASE D # {}
    <3>1. D \in SUBSET Nat
      BY MostIs
    <3>2. PICK i \in D : \A j \in D : i <= j
      <4> HIDE DEF D
      <4>1. QED
        BY <2>2, <3>1, LeastExists
    <3>3. i \in 0 .. Most + 1 /\ i # 0 /\ ~Far(i)
      BY <1>10, <3>2
    <3>4. i - 1 \in 0 .. Most + 1 /\ ~(i <= i - 1)
      BY <3>3, MostIs
    <3>5. Far(i - 1)
      BY <3>2, <3>4
    <3>6. QED
      BY <1>9, <3>3, <3>5
  <2>3. QED
    BY <2>1, <2>2
<1>12. f[Most + 1] = brk
  <2>1. Most + 1 \in 0 .. Most + 1 /\ Most + 1 > 0
    BY MostIs
  <2>2. f[Most + 1] = brk \/ f[Most + 1] >= 32 * (Most + 1) - 8
    BY <1>11, <2>1
  <2>3. PICK p : p = f[Most + 1]
    OBVIOUS
  <2>4. p \in T
    BY <1>11, <2>1, <2>3
  <2>5. p # brk => p < brk /\ p >= 24 /\ p # heap_listp
    BY <1>3, <1>4, <2>2, <2>3, <2>4, MostIs
  <2>6. p # brk => p + 32 <= brk
    BY <1>3, <1>4, <2>4, <2>5
  <2>7. QED
    BY <1>3, <1>4, <2>2, <2>3, <2>4, <2>6, MostIs
<1>13. ASSUME NEW t \in T PROVE \E i \in 0 .. Most + 1 : f[i] = t
  <2> DEFINE E == {i \in 0 .. Most + 1 : t <= f[i]}
  <2>1. Most + 1 \in E
    BY <1>4, <1>12, MostIs
  <2>2. E \in SUBSET Nat
    BY MostIs
  <2>3. PICK i \in E : \A j \in E : i <= j
    <3> HIDE DEF E
    <3>1. QED
      BY <2>1, <2>2, LeastExists
  <2>4. i \in 0 .. Most + 1 /\ t <= f[i] /\ f[i] \in T
    BY <1>11, <2>3
  <2>5. CASE i = 0
    BY <1>3, <1>4, <1>8, <2>4, <2>5
  <2>6. CASE i # 0
    <3>1. i - 1 \in 0 .. Most + 1 /\ ~(i <= i - 1)
      BY <2>4, <2>6, MostIs
    <3>2. f[i - 1] \in T /\ ~(t <= f[i - 1])
      BY <1>11, <2>3, <3>1
    <3>3. f[i - 1] # brk
      BY <1>4, <3>2
    <3>4. Adj(T, f[i - 1], f[i])
      BY <1>7, <2>4, <2>6, <3>2, <3>3
    <3>5. t <= f[i - 1] \/ f[i] <= t
      BY <3>4 DEF Adj
    <3>6. QED
      BY <1>4, <2>4, <3>2, <3>5
  <2>7. QED
    BY <2>5, <2>6
<1>14. \A i \in 0 .. Most + 1 : f[i] \in T
  BY <1>11
<1>15. Tiling(h) = {f[i] : i \in 0 .. Most + 1}
  BY <1>1, TilingIs
<1>16. QED
  BY <1>13, <1>14, <1>15
-----------------------------------------------------------------------------
(* Allocation.                                                               *)

\* What is found in the free list is a free block of the size, or nothing.
LEMMA FitIs ==
    ASSUME NEW h, NEW T, NEW U, Sound(h, T, U), NEW size,
           NEW r, r = find_fit(h, size)
    PROVE  r = NULL \/ (r \in T \ U /\ SizeAt(h, r) >= size)
<1>1. /\ Cuts(T, h.brk) /\ T \ U \subseteq Inner(T, h.brk)
      /\ Lists(h, T \ U)
  BY DEF Sound, Tagged, Inner
<1>2. PICK F : F = T \ U
  OBVIOUS
<1>3. PICK n, L : Listing(h, n, L, F)
  BY <1>1, <1>2 DEF Lists
<1>4. FreeList(h) = L
  BY <1>1, <1>2, <1>3, FreeListIsList
<1>5. L \in [1 .. n -> F] /\ n \in Nat
  BY <1>3 DEF Listing
<1> DEFINE fits == {i \in 1 .. n : size <= GET_SIZE(h, HDRP(L[i]))}
<1>6. r = IF fits = {} THEN NULL
          ELSE L[CHOOSE i \in fits : \A j \in fits : i <= j]
  BY <1>4, <1>5 DEF find_fit
<1>7. CASE fits # {}
  <2>1. fits \in SUBSET Nat
    BY <1>5
  <2>2. PICK i : i = CHOOSE x \in fits : \A j \in fits : x <= j
    OBVIOUS
  <2>3. i \in fits
    <3> HIDE DEF fits
    <3>1. \E x \in fits : \A j \in fits : x <= j
      BY <1>7, <2>1, LeastExists
    <3>2. QED
      BY <2>2, <3>1
  <2>4. r = L[i]
    BY <1>6, <1>7, <2>2
  <2>5. L[i] \in F /\ size <= SizeAt(h, L[i])
    BY <1>5, <2>3 DEF SizeAt
  <2>6. SizeAt(h, L[i]) \in Int
    <3>1. PICK x \in T \ U : x = L[i]
      BY <1>2, <2>5
    <3>2. /\ h \in Heaps /\ HDRP(x) \in Units
      BY <1>1, <3>1, CutWords DEF Sound, Tagged
    <3>3. h.mem[HDRP(x)] \in Int
      BY <3>2, Numbers DEF Heaps, Word
    <3>4. QED
      BY <3>1, <3>3 DEF SizeAt, GET_SIZE, GET
  <2>7. QED
    BY <1>2, <2>4, <2>5
<1>8. CASE fits = {}
  BY <1>6, <1>8
<1>9. QED
  BY <1>7, <1>8

\* Sizes that the lengths of the code have room for.
Modest(size) == size \in Nat /\ size + 16 <= WORD \div 2

\* A block's size for a request: aligned, and with room for the header.
LEMMA AdjustedIs ==
    ASSUME NEW size, Modest(size), NEW a, a = AdjustedSize(size)
    PROVE  /\ a \in Nat /\ a % 8 = 0 /\ a >= 32 /\ a >= size + 8
           /\ a < WORD \div 2 /\ SizeT(a) = a /\ Int32(a) = a
<1>1. /\ WORD \in Nat /\ WORD >= 256 /\ WORD % 2 = 0
      /\ size \in Nat /\ size + 16 <= WORD \div 2
  BY Numbers DEF Modest
<1>2. size + 8 \in Nat /\ size + 8 < WORD /\ size + 15 < WORD \div 2
      /\ size + 15 < WORD
  BY <1>1
<1>3. SizeT(size + 8) = size + 8
  BY <1>1, <1>2 DEF SizeT
<1>4. SizeT((size + 8) + 7) = size + 15
  BY <1>1, <1>2 DEF SizeT
<1>5. PICK b : b = (size + 15) - ((size + 15) % 8)
  OBVIOUS
<1>6. ALIGN(SizeT(size + SIZE_T_SIZE)) = b
  BY <1>3, <1>4, <1>5 DEF ALIGN, SIZE_T_SIZE
<1>7. b \in Nat /\ b % 8 = 0 /\ b >= size + 8 /\ b < WORD \div 2
  BY <1>1, <1>2, <1>5
<1>8. a = IF b >= 32 THEN b ELSE 32
  BY <1>6 DEF AdjustedSize, Larger, MinBlock, SIZE_T_SIZE, PTR_SIZE
<1>9. a \in Nat /\ a % 8 = 0 /\ a >= 32 /\ a >= size + 8 /\ a < WORD \div 2
  BY <1>1, <1>7, <1>8
<1>10. QED
  BY <1>9, NoOverflow

\* What mm_malloc promises: nothing, or a new block of the size.
Allocated(h, res, T, U, size) ==
    \/ res.bp = NULL /\ res.heap = h
    \/ /\ size # 0 /\ res.bp # NULL /\ h.brk <= res.heap.brk
       /\ SizeAt(res.heap, res.bp) >= AdjustedSize(size)
       /\ KeptAll(h, res.heap, U \ {h.brk})
       /\ res.bp \notin U \ {h.brk} /\ res.bp # res.heap.brk
       /\ \E S : /\ Sound(res.heap, S, ((U \ {h.brk}) \cup {res.heap.brk})
                                            \cup {res.bp})
                 /\ S \subseteq T \cup {res.heap.brk,
                                     res.bp + AdjustedSize(size)}

\* mm_malloc gives a block that was not in use, and keeps the others.
LEMMA MallocKeeps ==
    ASSUME NEW h, NEW T, NEW U, Sound(h, T, U), NEW size, Modest(size),
           NEW res, res = mm_malloc(h, size)
    PROVE  Allocated(h, res, T, U, size)
<1>1. PICK a : a = AdjustedSize(size)
  OBVIOUS
<1>2. /\ a \in Nat /\ a % 8 = 0 /\ a >= 32 /\ a >= size + 8
      /\ a < WORD \div 2 /\ SizeT(a) = a /\ Int32(a) = a
  BY <1>1, AdjustedIs
<1>3. PICK found : found = find_fit(h, a)
  OBVIOUS
<1>4. PICK got : got = fitting_block(h, found, a)
  OBVIOUS
<1>5. res = IF size = 0 THEN [heap |-> h, bp |-> NULL] ELSE in_block(got, a)
  BY <1>1, <1>2, <1>3, <1>4 DEF mm_malloc
<1>6. found = NULL \/ (found \in T \ U /\ SizeAt(h, found) >= a)
  BY <1>3, FitIs
<1>7. Tagged(h, T, U) /\ U \subseteq T /\ h.brk \in U /\ h.brk \in Nat
  BY DEF Sound, Tagged, Cuts
\* Where the block will be.
<1> DEFINE Room(S, V) ==
        /\ Sound(got.heap, S, V) /\ got.bp \in S \ V
        /\ V = (U \ {h.brk}) \cup {got.heap.brk}
        /\ S \subseteq T \cup {got.heap.brk}
<1>8. \/ got.bp = NULL /\ got.heap = h
      \/ /\ got.bp # NULL /\ h.brk <= got.heap.brk
         /\ SizeAt(got.heap, got.bp) >= a
         /\ KeptAll(h, got.heap, U \ {h.brk})
         /\ \E S, V : Room(S, V)
  <2>1. CASE found # NULL
    <3>1. got.heap = h /\ got.bp = found
      BY <1>4, <2>1 DEF fitting_block
    <3>2. found \in T \ U /\ SizeAt(h, found) >= a
      BY <1>6, <2>1
    <3>3. (U \ {h.brk}) \cup {h.brk} = U
      BY <1>7
    <3>4. Room(T, U)
      BY <3>1, <3>2, <3>3
    <3>5. KeptAll(h, h, U \ {h.brk})
      BY KeptSelf DEF KeptAll
    <3>6. QED
      BY <1>7, <2>1, <3>1, <3>2, <3>4, <3>5
  <2>2. CASE found = NULL
    <3>1. PICK len : len = Larger(a, CHUNKSIZE)
      OBVIOUS
    <3>2. /\ len \in Nat /\ len % 8 = 0 /\ len >= 32 /\ len >= a
          /\ len < WORD \div 2
      <4>1. CHUNKSIZE \in Nat /\ CHUNKSIZE % 8 = 0 /\ CHUNKSIZE < WORD \div 2
        BY Numbers, HeapAssumption
      <4>2. len = IF a >= CHUNKSIZE THEN a ELSE CHUNKSIZE
        BY <3>1 DEF Larger
      <4>3. QED
        BY <1>2, <4>1, <4>2
    <3>3. SizeT(len) = len
      BY <3>2, NoOverflow
    <3>4. got = extend_heap(h, len)
      BY <1>4, <2>2, <3>1, <3>3 DEF fitting_block
    <3>5. Grown(h, got, T, U, len)
      BY <3>2, <3>4, ExtendKeeps
    <3>6. CASE got.bp = NULL /\ got.heap = h
      BY <3>6
    <3>7. CASE ~(got.bp = NULL /\ got.heap = h)
      <4>1. /\ got.bp # NULL /\ h.brk <= got.heap.brk
            /\ SizeAt(got.heap, got.bp) >= len
            /\ KeptAll(h, got.heap, U \ {h.brk})
            /\ \E S, V : Room(S, V)
        BY <3>5, <3>7 DEF Grown
      <4>2. SizeAt(got.heap, got.bp) >= a
        <5>1. PICK S, V : Sound(got.heap, S, V) /\ got.bp \in S \ V
          BY <4>1
        <5>2. PICK p \in S : p = got.bp
          BY <5>1
        <5>3. got.heap \in Heaps /\ HDRP(p) \in Units
          BY <5>1, <5>2, CutWords DEF Sound, Tagged
        <5>4. got.heap.mem[HDRP(p)] \in Int
          BY <5>3, Numbers DEF Heaps, Word
        <5>5. SizeAt(got.heap, got.bp) \in Int
          BY <5>2, <5>4 DEF SizeAt, GET_SIZE, GET
        <5>6. QED
          BY <1>2, <3>2, <4>1, <5>5
      <4>3. QED
        BY <4>1, <4>2
    <3>8. QED
      BY <3>6, <3>7
  <2>3. QED
    BY <2>1, <2>2
<1>9. CASE size = 0
  BY <1>5, <1>9 DEF Allocated
<1>10. CASE size # 0 /\ got.bp = NULL
  BY <1>5, <1>8, <1>10 DEF Allocated, in_block
<1>11. CASE size # 0 /\ got.bp # NULL
  <2>1. PICK k, bp : k = got.heap /\ bp = got.bp
    OBVIOUS
  <2>2. PICK S, V : Room(S, V)
    BY <1>8, <1>11
  <2>3. /\ Sound(k, S, V) /\ bp \in S \ V /\ V = (U \ {h.brk}) \cup {k.brk}
        /\ SizeAt(k, bp) >= a /\ S \subseteq T \cup {k.brk}
    BY <1>8, <1>11, <2>1, <2>2
  <2>4. PICK g : g = place(k, bp, a)
    OBVIOUS
  <2>5. res.heap = g /\ res.bp = bp
    BY <1>5, <1>11, <2>1, <2>4 DEF in_block
  <2>6. Placed(k, g, S, V, bp, a)
    BY <1>2, <2>3, <2>4, PlaceKeeps
  <2>7. /\ \E R : R \subseteq S \cup {bp + a} /\ Sound(g, R, V \cup {bp})
        /\ SizeAt(g, bp) >= a /\ g.brk = k.brk /\ KeptAll(k, g, V)
    BY <2>6 DEF Placed
  <2>8. KeptAll(h, g, U \ {h.brk})
    <3>1. ASSUME NEW x \in U \ {h.brk} PROVE Kept(h, g, x)
      <4>1. x \in V /\ KeptAll(h, k, U \ {h.brk})
        BY <1>8, <1>11, <2>1, <2>3
      <4>2. x # k.brk
        <5>1. x \in T /\ x # h.brk /\ h.brk <= k.brk
          BY <1>7, <1>8, <1>11, <2>1
        <5>2. x \in Nat /\ x <= h.brk /\ Cuts(S, k.brk)
          BY <1>7, <2>3, <5>1, CutFacts DEF Tagged, Sound
        <5>3. k.brk \in Nat
          BY <5>2 DEF Cuts
        <5>4. QED
          BY <1>7, <5>1, <5>2, <5>3
      <4>3. Kept(h, k, x) /\ Kept(k, g, x)
        BY <2>7, <4>1, <4>2 DEF KeptAll
      <4>4. QED
        BY <4>3, KeptTrans
    <3>2. QED
      BY <3>1 DEF KeptAll
  <2>9. SizeAt(g, bp) >= AdjustedSize(size)
    BY <1>1, <2>7
  <2>10. bp \notin U \ {h.brk} /\ bp # g.brk /\ h.brk <= g.brk /\ bp # NULL
    BY <1>8, <1>11, <2>1, <2>3, <2>7
  <2>11. V \cup {bp} = ((U \ {h.brk}) \cup {g.brk}) \cup {bp}
    BY <2>3, <2>7
  <2>12. \E R : /\ Sound(g, R, ((U \ {h.brk}) \cup {g.brk}) \cup {bp})
               /\ R \subseteq T \cup {g.brk, bp + AdjustedSize(size)}
    <3>1. PICK R : R \subseteq S \cup {bp + a} /\ Sound(g, R, V \cup {bp})
      BY <2>7
    <3>2. R \subseteq T \cup {g.brk, bp + AdjustedSize(size)}
      BY <1>1, <2>3, <2>7, <3>1
    <3>3. QED
      BY <2>11, <3>1, <3>2
  <2>13. QED
    BY <1>11, <2>5, <2>8, <2>9, <2>10, <2>12 DEF Allocated
<1>12. QED
  BY <1>9, <1>10, <1>11
-----------------------------------------------------------------------------
(* The contents of a block are written.                                      *)

\* The rest stays as it is when block p is written.
Rewritten(h, g, T, U, p) ==
    /\ Sound(g, T, U) /\ g.brk = h.brk /\ SizeAt(g, p) = SizeAt(h, p)
    /\ KeptAll(h, g, U \ {p})

\* Tags, links and the other blocks are not in the payload of a block in use.
LEMMA PayloadKeeps ==
    ASSUME NEW h, NEW T, NEW U, Sound(h, T, U),
           NEW p \in U, p # heap_listp, p # h.brk, NEW W,
           \A a \in W : a \in Nat /\ p <= a /\ a < p + SizeAt(h, p) - 8,
           NEW g, SameBut(h, g, W), g.free_list_head = h.free_list_head
    PROVE  Rewritten(h, g, T, U, p)
<1>1. /\ Tagged(h, T, U) /\ Lists(h, T \ U) /\ Alternates(T, U)
      /\ Cuts(T, h.brk) /\ U \subseteq T /\ p \in T /\ heap_listp = 8
      /\ heap_listp \in U /\ h.brk \in U
  BY DEF Sound, Tagged, heap_listp, SIZE_T_SIZE
<1>2. PICK q : Adj(T, p, q)
  BY <1>1, NextExists
<1>3. /\ q \in T /\ SizeAt(h, p) = q - p /\ p < q
      /\ \A t \in T : t <= p \/ q <= t
  BY <1>1, <1>2 DEF Tagged, Told, Adj
<1>4. \A t \in T : /\ t \in Nat /\ (t = heap_listp \/ t >= 24)
                   /\ t <= h.brk
                   /\ \A u \in T : u < t /\ u # heap_listp => u + 32 <= t
  BY <1>1, CutFacts
<1>5. ASSUME NEW a \in W PROVE a \in Nat /\ p <= a /\ a < q - 8
  <2>1. a \in Nat /\ p <= a /\ a < p + SizeAt(h, p) - 8
    OBVIOUS
  <2>2. p \in Nat /\ q \in Nat /\ SizeAt(h, p) = q - p
    BY <1>1, <1>3, <1>4
  <2>3. QED
    BY <2>1, <2>2
<1>6. ASSUME NEW t \in T PROVE t - 8 \notin W
  <2>1. t \in Nat /\ p \in Nat /\ q \in Nat /\ (t <= p \/ q <= t)
    BY <1>1, <1>3, <1>4
  <2>2. QED
    BY <1>5, <2>1
<1>7. ASSUME NEW t \in T, t # p
      PROVE  t \in Nat /\ p \in Nat /\ q \in Nat /\ (t < p \/ q <= t)
             /\ (t < p /\ t # heap_listp => t + 32 <= p)
  BY <1>1, <1>3, <1>4, <1>7
<1>8. \A t \in T : /\ SizeAt(g, t) = SizeAt(h, t)
                   /\ UsedAt(g, t) <=> UsedAt(h, t)
                   /\ UsedBefore(g, t) <=> UsedBefore(h, t)
  <2>1. \A t \in T : g.mem[HDRP(t)] = h.mem[HDRP(t)]
    BY <1>1, <1>6, CutWords DEF SameBut
  <2>2. QED
    BY <2>1, HeaderSame
<1>9. g \in Heaps /\ g.brk = h.brk
  BY DEF SameBut
<1>10. ASSUME NEW r \in T, NEW s \in T, Adj(T, r, s) PROVE Told(g, U, r, s)
  <2>1. Told(h, U, r, s)
    BY <1>1, <1>10 DEF Tagged
  <2>2. ASSUME r \notin U PROVE GET_SIZE(g, s - 16) = GET_SIZE(h, s - 16)
    <3>1. r # p /\ r # heap_listp
      BY <1>1, <2>2
    <3>2. /\ r \in Nat /\ s \in Nat /\ p \in Nat /\ q \in Nat
          /\ r < s /\ r + 32 <= s /\ (r < p \/ q <= r)
          /\ p <= r \/ s <= p
      BY <1>1, <1>4, <1>7, <1>10, <3>1 DEF Adj
    <3>3. s - 16 \notin W
      BY <1>5, <3>2
    <3>4. s - 16 \in Units
      <4>1. s # heap_listp
        BY <1>1, <1>4, <3>1, <3>2
      <4>2. QED
        BY <1>1, <4>1, CutFacts
    <3>5. QED
      BY <3>3, <3>4 DEF SameBut, GET_SIZE, GET
  <2>3. QED
    BY <1>8, <2>1, <2>2 DEF Told
<1>11. Tagged(g, T, U)
  <2>1. \A t \in T : UsedAt(g, t) <=> t \in U
    BY <1>1, <1>8 DEF Tagged
  <2>2. SizeAt(g, g.brk) = 0
    BY <1>1, <1>8, <1>9 DEF Tagged
  <2>3. QED
    BY <1>1, <1>9, <1>10, <2>1, <2>2 DEF Tagged
<1>12. Lists(g, T \ U)
  <2>1. PICK F : F = T \ U
    OBVIOUS
  <2>2. \A x \in F : x \notin W /\ x + 8 \notin W
    <3>1. ASSUME NEW x \in F PROVE x \notin W /\ x + 8 \notin W
      <4>1. x \in T /\ x # p /\ x # heap_listp
        BY <1>1, <2>1
      <4>2. QED
        BY <1>5, <1>7, <4>1
    <3>2. QED
      BY <3>1
  <2>3. /\ Tagged(h, T, U) /\ F \subseteq T \ U /\ Lists(h, F)
        /\ SameBut(h, g, W) /\ g.free_list_head = h.free_list_head
    BY <1>1, <2>1
  <2>4. Lists(g, F)
    BY <2>2, <2>3, ListsSame
  <2>5. QED
    BY <2>1, <2>4
<1>13. ASSUME NEW x \in U \ {p}, x # h.brk PROVE Kept(h, g, x)
  <2>1. x \in T
    BY <1>1
  <2>2. PICK s : Adj(T, x, s)
    BY <1>1, <1>13, <2>1, NextExists
  <2>3. /\ s \in T /\ x \in Nat /\ s \in Nat /\ p \in Nat /\ q \in Nat
        /\ x < p \/ q <= x
        /\ p <= x \/ s <= p
    BY <1>1, <1>4, <1>7, <2>1, <2>2 DEF Adj
  <2>4. \A a \in W : a < x \/ a >= s - 8
    BY <1>5, <2>3
  <2>5. SizeAt(g, x) = SizeAt(h, x)
    BY <1>8, <2>1
  <2>6. QED
    BY <1>1, <2>2, <2>4, <2>5, KeptSame
<1>14. QED
  BY <1>1, <1>8, <1>9, <1>11, <1>12, <1>13 DEF Sound, KeptAll,
                                                  Rewritten

\* The contents of one block are copied to another, as far as there is room.
LEMMA CopyKeeps ==
    ASSUME NEW h, NEW T, NEW U, Sound(h, T, U),
           NEW to \in U, to # heap_listp, to # h.brk,
           NEW from \in U, from # heap_listp, from # h.brk,
           NEW len \in Nat, len <= SizeAt(h, to) - 8,
           len <= SizeAt(h, from) - 8, NEW g, g = memcpy(h, to, from, len)
    PROVE  /\ Rewritten(h, g, T, U, to)
           /\ \A i \in 0 .. len - 1 :
                to + i \in Units => g.mem[to + i] = h.mem[from + i]
<1>1. /\ h \in Heaps /\ Cuts(T, h.brk) /\ U \subseteq T
      /\ Tagged(h, T, U) /\ to \in T /\ from \in T
  BY DEF Sound, Tagged
<1>2. PICK q : Adj(T, from, q)
  BY <1>1, NextExists
<1>3. /\ q \in T /\ SizeAt(h, from) = q - from /\ from < q
  BY <1>1, <1>2 DEF Tagged, Told, Adj
<1>4. /\ q \in Nat /\ q <= h.brk /\ from \in Nat /\ to \in Nat
      /\ from % 8 = 0 /\ to % 8 = 0
      /\ h.brk \in Nat /\ h.brk <= MAX_HEAP /\ MAX_HEAP \in Nat
  BY <1>1, <1>3, CutFacts, Numbers DEF Cuts
<1> DEFINE W == {a \in Units : to <= a /\ a <= to + len - 1}
<1>5. ASSUME NEW a \in W PROVE from + (a - to) \in Units
  <2>1. a \in Nat /\ a % 8 = 0 /\ to <= a /\ a <= to + len - 1
    BY UnitsAre
  <2>2. PICK b : b = from + (a - to)
    OBVIOUS
  <2>3. b \in Nat /\ b % 8 = 0 /\ b < MAX_HEAP
    BY <1>3, <1>4, <2>1, <2>2
  <2>4. QED
    BY <2>2, <2>3, UnitsAre
<1>6. h.mem \in [Units -> Word] /\ h = [mem |-> h.mem, brk |-> h.brk,
                                       free_list_head |-> h.free_list_head]
  BY <1>1 DEF Heaps
<1> DEFINE m == [a \in Units |->
                    IF a \in W THEN h.mem[from + (a - to)] ELSE h.mem[a]]
<1>7. \A a \in Units : a \in to .. to + len - 1 <=> a \in W
  <2>1. \A a \in Units : a \in Int
    BY UnitsAre
  <2>2. QED
    BY <1>4, <2>1
<1>8. m = [a \in DOMAIN h.mem |->
            IF a \in to .. to + len - 1 THEN h.mem[from + (a - to)]
                                       ELSE h.mem[a]]
  <2>1. DOMAIN h.mem = Units
    BY <1>6
  <2> HIDE DEF W
  <2>2. QED
    BY <1>7, <2>1
<1>9. m \in [Units -> Word]
  <2>1. ASSUME NEW a \in Units
        PROVE  (IF a \in W THEN h.mem[from + (a - to)] ELSE h.mem[a]) \in Word
    <3> HIDE DEF W
    <3>1. QED
      BY <1>5, <1>6
  <2> HIDE DEF W
  <2>2. QED
    BY <2>1
<1>10. /\ \A a \in W : m[a] = h.mem[from + (a - to)]
       /\ \A a \in Units : a \notin W => m[a] = h.mem[a]
  <2>1. \A a \in W : a \in Units
    OBVIOUS
  <2> HIDE DEF W
  <2>2. QED
    BY <2>1
<1> HIDE DEF m, W
<1>11. g = [h EXCEPT !.mem = m]
  BY <1>8 DEF memcpy
<1>12. /\ g \in Heaps /\ g.mem = m /\ g.brk = h.brk
       /\ g.free_list_head = h.free_list_head
  BY <1>1, <1>9, <1>11 DEF Heaps
<1>13. SameBut(h, g, W)
  BY <1>1, <1>10, <1>12 DEF SameBut
<1>14. \A a \in W : a \in Nat /\ to <= a /\ a < to + SizeAt(h, to) - 8
  <2>1. ASSUME NEW a \in W
        PROVE  a \in Nat /\ to <= a /\ a < to + SizeAt(h, to) - 8
    <3>1. a \in Nat /\ to <= a /\ a <= to + len - 1
      BY UnitsAre DEF W
    <3>2. SizeAt(h, to) \in Int
      <4>1. HDRP(to) \in Units
        BY <1>1, CutWords
      <4>2. h.mem[HDRP(to)] \in Int
        BY <1>6, <4>1, Numbers DEF Word
      <4>3. QED
        BY <4>2 DEF SizeAt, GET_SIZE, GET
    <3>3. QED
      BY <1>4, <3>1, <3>2
  <2>2. QED
    BY <2>1
<1>15. Rewritten(h, g, T, U, to)
  BY <1>12, <1>13, <1>14, PayloadKeeps
<1>16. ASSUME NEW i \in 0 .. len - 1, to + i \in Units
       PROVE  g.mem[to + i] = h.mem[from + i]
  <2>1. PICK a : a = to + i
    OBVIOUS
  <2>2. a \in W
    BY <1>4, <1>16, <2>1 DEF W
  <2>3. from + (a - to) = from + i
    BY <1>4, <1>16, <2>1
  <2>4. g.mem[a] = h.mem[from + (a - to)]
    BY <1>10, <1>12, <2>2
  <2>5. QED
    BY <2>1, <2>3, <2>4
<1>17. QED
  BY <1>15, <1>16
-----------------------------------------------------------------------------
(* A block gets another size.                                                *)

\* A larger request gets no smaller a block.
LEMMA AdjustedGrows ==
    ASSUME NEW size, Modest(size), NEW twice, Modest(twice), twice >= size
    PROVE  AdjustedSize(size) <= AdjustedSize(twice)
<1>1. /\ WORD \in Nat /\ WORD >= 256 /\ WORD % 2 = 0
      /\ size \in Nat /\ size + 16 <= WORD \div 2
      /\ twice \in Nat /\ twice + 16 <= WORD \div 2
  BY Numbers DEF Modest
<1>2. ASSUME NEW x \in {size, twice}
      PROVE  ALIGN(SizeT(x + SIZE_T_SIZE)) = (x + 15) - ((x + 15) % 8)
  <2>1. x \in Nat /\ x + 8 < WORD /\ x + 15 < WORD
    BY <1>1
  <2>2. SizeT(x + 8) = x + 8 /\ SizeT((x + 8) + 7) = x + 15
    BY <1>1, <2>1 DEF SizeT
  <2>3. QED
    BY <2>2 DEF ALIGN, SIZE_T_SIZE
<1>3. PICK a, b : /\ a = (size + 15) - ((size + 15) % 8)
                  /\ b = (twice + 15) - ((twice + 15) % 8)
  OBVIOUS
<1>4. a \in Nat /\ b \in Nat /\ a <= b
  BY <1>1, <1>3
<1>5. /\ AdjustedSize(size) = IF a >= 32 THEN a ELSE 32
      /\ AdjustedSize(twice) = IF b >= 32 THEN b ELSE 32
  BY <1>2, <1>3 DEF AdjustedSize, Larger, MinBlock, SIZE_T_SIZE, PTR_SIZE
<1>6. QED
  BY <1>4, <1>5

\* What mm_realloc promises of a block bp in use: it is given back, or stays
\* as nothing else is to be had, or is large enough, or moves.
Released(h, res, U, bp) ==
    /\ res.bp = NULL /\ res.heap.brk = h.brk
    /\ \E S : Sound(res.heap, S, U \ {bp})
    /\ KeptAll(h, res.heap, U \ {bp})

Moved(h, res, U, bp, size) ==
    /\ res.bp # NULL /\ h.brk <= res.heap.brk
    /\ SizeAt(res.heap, res.bp) >= AdjustedSize(size)
    /\ res.bp \notin U \ {h.brk} /\ res.bp # res.heap.brk
    /\ KeptAll(h, res.heap, (U \ {h.brk}) \ {bp})
    /\ \E S : Sound(res.heap, S, (((U \ {h.brk}) \cup {res.heap.brk})
                                        \cup {res.bp}) \ {bp})
    /\ \A i \in 0 .. SizeAt(h, bp) - 9 :
            res.bp + i \in Units => res.heap.mem[res.bp + i] = h.mem[bp + i]

Reallocated(h, res, U, bp, size) ==
    \/ size = 0 /\ Released(h, res, U, bp)
    \/ size # 0 /\ res.bp = NULL /\ res.heap = h
    \/ size # 0 /\ res.bp = bp /\ res.heap = h
                /\ SizeAt(h, bp) >= AdjustedSize(size)
    \/ size # 0 /\ Moved(h, res, U, bp, size)

\* mm_realloc keeps the other blocks, and the contents of its own.
LEMMA ReallocKeeps ==
    ASSUME NEW h, NEW T, NEW U, Sound(h, T, U),
           NEW bp \in U, bp # heap_listp, bp # h.brk,
           NEW size, Modest(size), Modest(size * 2),
           NEW res, res = mm_realloc(h, bp, size)
    PROVE  Reallocated(h, res, U, bp, size)
<1>1. /\ Tagged(h, T, U) /\ Cuts(T, h.brk) /\ U \subseteq T /\ bp \in T
      /\ heap_listp \in U /\ h.brk \in U /\ bp \in Nat /\ bp >= 8 /\ bp # NULL
      /\ bp <= h.brk /\ h.brk \in Nat
  <2>1. /\ Tagged(h, T, U) /\ Cuts(T, h.brk) /\ U \subseteq T /\ bp \in T
        /\ heap_listp \in U /\ h.brk \in U
    BY DEF Sound, Tagged
  <2>2. bp \in Nat /\ bp >= 8 /\ bp <= h.brk /\ h.brk \in Nat
    BY <2>1, CutFacts DEF Cuts
  <2>3. QED
    BY <2>1, <2>2 DEF NULL
<1>2. CASE size = 0
  <2>1. res = [heap |-> mm_free(h, bp), bp |-> NULL]
    BY <1>1, <1>2 DEF mm_realloc
  <2>2. PICK g : g = mm_free(h, bp)
    OBVIOUS
  <2>3. PICK V : V = U \ {bp}
    OBVIOUS
  <2>4. (\E S : Sound(g, S, V)) /\ g.brk = h.brk /\ KeptAll(h, g, V)
    BY <2>2, <2>3, FreeKeeps
  <2>5. res.heap = g /\ res.bp = NULL
    BY <2>1, <2>2
  <2>6. QED
    BY <1>2, <2>3, <2>4, <2>5 DEF Reallocated, Released
<1>3. CASE size # 0 /\ AdjustedSize(size) <= SizeAt(h, bp)
  <2>1. res = [heap |-> h, bp |-> bp]
    BY <1>1, <1>3 DEF mm_realloc, SizeAt
  <2>2. QED
    <3>1. AdjustedSize(size) \in Int
      BY AdjustedIs
    <3>2. h.mem[HDRP(bp)] \in Int
      BY <1>1, CutWords, Numbers DEF Tagged, Heaps, Word
    <3>3. SizeAt(h, bp) \in Int
      BY <3>2 DEF SizeAt, GET_SIZE, GET
    <3>4. SizeAt(h, bp) >= AdjustedSize(size)
      BY <1>3, <3>1, <3>3
    <3>5. QED
      BY <1>3, <2>1, <3>4 DEF Reallocated
<1>4. CASE size # 0 /\ ~(AdjustedSize(size) <= SizeAt(h, bp))
  <2>1. PICK len : len = SizeAt(h, bp) - 8
    OBVIOUS
  <2>2. PICK twice : twice = size * 2
    OBVIOUS
  <2>3. /\ Modest(twice) /\ SizeT(twice) = twice /\ twice >= size /\ twice # 0
    <3>1. size \in Nat /\ twice \in Nat /\ twice + 16 <= WORD \div 2
      BY <2>2 DEF Modest
    <3>2. twice < WORD \div 2
      BY <3>1, Numbers
    <3>3. QED
      BY <1>4, <2>2, <3>1, <3>2, NoOverflow DEF Modest
  <2>4. PICK new : new = mm_malloc(h, twice)
    OBVIOUS
  <2>5. res = moved(new, bp, len)
    BY <1>1, <1>4, <2>1, <2>2, <2>3, <2>4
    DEF mm_realloc, SizeAt, SIZE_T_SIZE
  <2>6. Allocated(h, new, T, U, twice)
    BY <2>3, <2>4, MallocKeeps
  <2>7. CASE new.bp = NULL
    <3>1. res = new
      BY <2>5, <2>7 DEF moved
    <3>2. res.heap = h
      BY <2>6, <2>7, <3>1 DEF Allocated
    <3>3. QED
      BY <1>4, <2>7, <3>1, <3>2 DEF Reallocated
  <2>8. CASE new.bp # NULL
    <3>1. PICK k, to : k = new.heap /\ to = new.bp
      OBVIOUS
    <3>2. PICK V : V = ((U \ {h.brk}) \cup {k.brk}) \cup {to}
      OBVIOUS
    <3>3. /\ h.brk <= k.brk /\ SizeAt(k, to) >= AdjustedSize(twice)
          /\ KeptAll(h, k, U \ {h.brk})
          /\ to \notin U \ {h.brk} /\ to # k.brk
          /\ \E S : Sound(k, S, V)
      BY <2>6, <2>8, <3>1, <3>2 DEF Allocated
    <3>4. PICK S : Sound(k, S, V)
      BY <3>3
    <3>5. PICK d : d = memcpy(k, to, bp, len)
      OBVIOUS
    <3>6. PICK g : g = mm_free(d, bp)
      OBVIOUS
    <3>7. res.heap = g /\ res.bp = to
      BY <2>5, <2>8, <3>1, <3>5, <3>6 DEF moved
    <3>8. /\ bp \in V /\ to \in V /\ bp # to /\ bp # k.brk /\ to # heap_listp
          /\ k \in Heaps /\ Cuts(S, k.brk) /\ k.brk \in Nat
          /\ bp \in S /\ to \in S /\ k.brk \in V /\ heap_listp # k.brk
      <4>1. /\ heap_listp \in V /\ k \in Heaps /\ Cuts(S, k.brk)
            /\ k.brk \in V /\ k.brk \in S /\ 24 \in S /\ k.brk \in Nat
        BY <3>4 DEF Sound, Tagged, Cuts
      <4>2. bp # k.brk
        BY <1>1, <3>3, <4>1
      <4>3. bp \in U \ {h.brk}
        BY <1>1
      <4>4. heap_listp # h.brk
        <5>1. 24 \in T /\ heap_listp = 8
          BY <1>1 DEF Cuts, heap_listp, SIZE_T_SIZE
        <5>2. 24 <= h.brk
          BY <1>1, <5>1, CutFacts
        <5>3. QED
          BY <1>1, <5>1, <5>2
      <4>5. heap_listp \in U \ {h.brk}
        BY <1>1, <4>4
      <4>6. bp \in V /\ to \in V /\ V \subseteq S
        BY <3>2, <3>4, <4>3 DEF Sound, Tagged
      <4>7. heap_listp # k.brk
        <5>1. heap_listp = 8
          BY DEF heap_listp, SIZE_T_SIZE
        <5>2. 24 <= k.brk
          BY <4>1, CutFacts
        <5>3. QED
          BY <4>1, <5>1, <5>2
      <4>8. QED
        BY <3>3, <4>1, <4>2, <4>3, <4>5, <4>6, <4>7
    <3>9. Kept(h, k, bp) /\ SizeAt(k, bp) = SizeAt(h, bp)
      <4>1. bp \in U \ {h.brk} /\ bp # h.brk
        BY <1>1
      <4>2. QED
        BY <3>3, <4>1 DEF KeptAll, Kept
    <3>10. /\ len \in Nat /\ len <= SizeAt(k, bp) - 8
           /\ len <= SizeAt(k, to) - 8
      <4>1. PICK q : Adj(T, bp, q)
        BY <1>1, NextExists
      <4>2. q \in T /\ q \in Nat /\ bp + 32 <= q /\ SizeAt(h, bp) = q - bp
        BY <1>1, <4>1, CutFacts DEF Tagged, Told, Adj
      <4>3. PICK r : Adj(S, to, r)
        BY <3>3, <3>8, NextExists
      <4>4. r \in S /\ r \in Nat /\ to \in Nat /\ SizeAt(k, to) = r - to
        BY <3>4, <3>8, <4>3, CutFacts DEF Sound, Tagged, Told, Adj
      <4>5. /\ AdjustedSize(size) \in Int /\ AdjustedSize(twice) \in Int
            /\ AdjustedSize(size) <= AdjustedSize(twice)
        BY <2>3, AdjustedIs, AdjustedGrows
      <4>6. PICK a, b : a = AdjustedSize(size) /\ b = AdjustedSize(twice)
        OBVIOUS
      <4>7. a \in Int /\ b \in Int /\ a <= b /\ ~(a <= q - bp) /\ r - to >= b
        BY <1>4, <3>3, <4>2, <4>4, <4>5, <4>6
      <4>8. QED
        BY <1>1, <2>1, <3>9, <4>2, <4>4, <4>7
    <3>11. /\ Rewritten(k, d, S, V, to)
           /\ \A i \in 0 .. len - 1 :
                to + i \in Units => d.mem[to + i] = k.mem[bp + i]
      BY <3>3, <3>4, <3>5, <3>8, <3>10, CopyKeeps
    <3>12. /\ Sound(d, S, V) /\ d.brk = k.brk /\ SizeAt(d, to) = SizeAt(k, to)
           /\ KeptAll(k, d, V \ {to})
      BY <3>11 DEF Rewritten
    <3>13. PICK X : X = V \ {bp}
      OBVIOUS
    <3>14. (\E R : Sound(g, R, X)) /\ g.brk = k.brk /\ KeptAll(d, g, X)
      <4>1. bp \in V /\ bp # heap_listp /\ bp # d.brk
        BY <3>8, <3>12
      <4>2. (\E R : Sound(g, R, X)) /\ g.brk = d.brk /\ KeptAll(d, g, X)
        BY <3>6, <3>12, <3>13, <4>1, FreeKeeps
      <4>3. QED
        BY <3>12, <4>2
    <3>15. Kept(d, g, to) /\ SizeAt(g, to) >= AdjustedSize(size)
      <4>1. to \in X /\ to # d.brk
        BY <3>3, <3>8, <3>12, <3>13
      <4>2. Kept(d, g, to)
        BY <3>14, <4>1 DEF KeptAll
      <4>3. SizeAt(g, to) = SizeAt(k, to)
        BY <3>12, <4>2 DEF Kept
      <4>4. /\ AdjustedSize(size) \in Int /\ AdjustedSize(twice) \in Int
            /\ AdjustedSize(size) <= AdjustedSize(twice)
        BY <2>3, AdjustedIs, AdjustedGrows
      <4>5. PICK a, b : a = AdjustedSize(size) /\ b = AdjustedSize(twice)
        OBVIOUS
      <4>6. SizeAt(k, to) \in Int
        <5>1. HDRP(to) \in Units
          BY <3>8, CutWords
        <5>2. k.mem[HDRP(to)] \in Int
          BY <3>8, <5>1, Numbers DEF Heaps, Word
        <5>3. QED
          BY <5>2 DEF SizeAt, GET_SIZE, GET
      <4>7. SizeAt(g, to) >= a
        BY <3>3, <4>3, <4>4, <4>5, <4>6
      <4>8. QED
        BY <4>2, <4>5, <4>7
    <3>16. KeptAll(h, g, (U \ {h.brk}) \ {bp})
      <4>1. ASSUME NEW x \in (U \ {h.brk}) \ {bp} PROVE Kept(h, g, x)
        <5>1. x \in T /\ x \in Nat /\ x <= h.brk /\ x # h.brk
          BY <1>1, CutFacts
        <5>2. x # k.brk
          BY <1>1, <3>3, <3>8, <5>1
        <5>3. x \in U \ {h.brk} /\ x # to /\ x \in V \ {to} /\ x \in X
          BY <3>2, <3>3, <3>13
        <5>4. Kept(h, k, x) /\ Kept(k, d, x) /\ Kept(d, g, x)
          BY <3>3, <3>12, <3>14, <5>1, <5>2, <5>3 DEF KeptAll
        <5>5. QED
          BY <5>4, KeptTrans
      <4>2. QED
        BY <4>1 DEF KeptAll
    <3>17. ASSUME NEW i \in 0 .. SizeAt(h, bp) - 9, to + i \in Units
           PROVE  g.mem[to + i] = h.mem[bp + i]
      <4>1. SizeAt(h, bp) \in Int /\ SizeAt(h, bp) = len + 8
        <5>1. HDRP(bp) \in Units
          BY <1>1, CutWords
        <5>2. h.mem[HDRP(bp)] \in Int
          BY <1>1, <5>1, Numbers DEF Tagged, Heaps, Word
        <5>3. SizeAt(h, bp) \in Int
          BY <5>2 DEF SizeAt, GET_SIZE, GET
        <5>4. QED
          BY <2>1, <5>3
      <4>2. i \in 0 .. len - 1 /\ i \in Nat
        BY <3>10, <3>17, <4>1
      <4>3. d.mem[to + i] = k.mem[bp + i]
        BY <3>11, <3>17, <4>2
      <4>4. to \in Nat /\ to % 8 = 0 /\ bp \in Nat /\ bp % 8 = 0
        BY <1>1, <3>8, CutFacts
      <4>5. PICK a : a = to + i
        OBVIOUS
      <4>6. PICK b : b = bp + i
        OBVIOUS
      <4>7. b \in Units
        <5>1. PICK q : Adj(T, bp, q)
          BY <1>1, NextExists
        <5>2. /\ q \in T /\ q \in Nat /\ SizeAt(h, bp) = q - bp
              /\ q <= h.brk /\ h.brk <= MAX_HEAP
          <6>1. q \in T /\ Told(h, U, bp, q)
            BY <1>1, <5>1 DEF Tagged, Adj
          <6>2. q \in Nat /\ q <= h.brk
            BY <1>1, <6>1, CutFacts
          <6>3. h.brk <= MAX_HEAP
            BY <1>1 DEF Cuts
          <6>4. SizeAt(h, bp) = q - bp
            BY <6>1 DEF Told
          <6>5. QED
            BY <6>1, <6>2, <6>3, <6>4
        <5>3. a \in Nat /\ a % 8 = 0
          BY <3>17, <4>5, UnitsAre
        <5>4. b \in Nat /\ b % 8 = 0
          BY <4>2, <4>4, <4>5, <4>6, <5>3
        <5>5. b < MAX_HEAP
          BY <1>1, <4>1, <4>2, <4>6, <5>2, Numbers
        <5>6. QED
          BY <5>4, <5>5, UnitsAre
      <4>8. k.mem[b] = h.mem[b]
        <5>1. bp <= b /\ b < bp + SizeAt(h, bp) - 8
          BY <1>1, <4>1, <4>2, <4>6
        <5>2. QED
          BY <3>9, <4>7, <5>1 DEF Kept
      <4>9. g.mem[a] = d.mem[a]
        <5>1. SizeAt(d, to) \in Int /\ len <= SizeAt(d, to) - 8
          <6>1. HDRP(to) \in Units
            BY <3>8, CutWords
          <6>2. k.mem[HDRP(to)] \in Int
            BY <3>8, <6>1, Numbers DEF Heaps, Word
          <6>3. SizeAt(k, to) \in Int
            BY <6>2 DEF SizeAt, GET_SIZE, GET
          <6>4. QED
            BY <3>10, <3>12, <6>3
        <5>2. to <= a /\ a < to + SizeAt(d, to) - 8
          BY <3>10, <4>2, <4>4, <4>5, <5>1
        <5>3. a \in Units
          BY <3>17, <4>5
        <5>4. QED
          BY <3>15, <5>2, <5>3 DEF Kept
      <4>10. QED
        BY <4>3, <4>5, <4>6, <4>8, <4>9
    <3>18. Moved(h, res, U, bp, size)
      <4>1. g.brk = k.brk /\ h.brk <= g.brk /\ to # g.brk
        BY <3>3, <3>14
      <4>2. X = (((U \ {h.brk}) \cup {g.brk}) \cup {to}) \ {bp}
        BY <3>2, <3>13, <4>1
      <4>3. \E R : Sound(g, R, (((U \ {h.brk}) \cup {g.brk}) \cup {to}) \ {bp})
        BY <3>14, <4>2
      <4>4. to # NULL
        BY <2>8, <3>1
      <4>5. QED
        BY <3>3, <3>7, <3>15, <3>16, <3>17, <4>1, <4>3, <4>4 DEF Moved
    <3>19. QED
      BY <1>4, <3>18 DEF Reallocated
  <2>9. QED
    BY <2>7, <2>8
<1>5. QED
  BY <1>2, <1>3, <1>4
-----------------------------------------------------------------------------
(* A new heap.                                                               *)

\* mm_init makes a heap of a prologue and an epilogue.
LEMMA InitKeeps ==
    ASSUME NEW mem \in [Units -> Word], NEW head,
           NEW g, g = mm_init(EmptyHeap(mem, head))
    PROVE  /\ Sound(g, {heap_listp, 24}, {heap_listp, 24})
           /\ g.brk = 24 /\ heap_listp # 24
           /\ g.free_list_head = NULL
           /\ g.mem[0] = PACK_HDR(16, 1, 1) /\ g.mem[16] = PACK_HDR(0, 1, 1)
<1> DEFINE T == {heap_listp, 24}
<1>1. heap_listp = 8 /\ HDRP(24) = 16 /\ HDRP(heap_listp) = 0
  BY DEF heap_listp, HDRP, SIZE_T_SIZE
<1>2. /\ MAX_HEAP \in Nat /\ MAX_HEAP >= 24 /\ 0 \in Units /\ 16 \in Units
      /\ WORD \in Nat /\ WORD >= 256
  BY Numbers, UnitsAre
<1>3. PICK h : h = [mem |-> mem, brk |-> 24, free_list_head |-> NULL]
  OBVIOUS
<1>4. h \in Heaps
  BY <1>2, <1>3 DEF Heaps, Word, NULL
<1>5. PICK x : x = PACK_HDR(16, 1, 1)
  OBVIOUS
<1>6. PICK y : y = PACK_HDR(0, 1, 1)
  OBVIOUS
<1>7. x \in Word /\ y \in Word
  BY <1>2, <1>5, <1>6, TagIsWord
<1>8. PICK k : k = PUT(h, 0, x)
  OBVIOUS
<1>9. PICK m : m = PUT(k, 16, y)
  OBVIOUS
<1>10. /\ k \in Heaps /\ k.brk = 24 /\ k.free_list_head = NULL /\ k.mem[0] = x
       /\ m \in Heaps /\ m.brk = 24 /\ m.free_list_head = NULL
       /\ m.mem[0] = x /\ m.mem[16] = y
  <2>1. PutAt(h, k, 0, x)
    BY <1>2, <1>4, <1>7, <1>8, PutHere
  <2>2. PutAt(k, m, 16, y)
    <3>1. k \in Heaps
      BY <2>1 DEF PutAt
    <3>2. QED
      BY <1>2, <1>7, <1>9, <3>1, PutHere
  <2>3. QED
    BY <1>2, <1>3, <2>1, <2>2 DEF PutAt
<1>11. /\ SizeAt(k, heap_listp) = 16 /\ SizeAt(m, heap_listp) = 16
       /\ UsedAt(m, heap_listp) /\ SizeAt(m, 24) = 0 /\ UsedAt(m, 24)
       /\ UsedBefore(m, 24)
  <2>1. k.mem[HDRP(heap_listp)] = PACK_HDR(16, 1, 1)
    BY <1>1, <1>5, <1>10
  <2>2. m.mem[HDRP(heap_listp)] = PACK_HDR(16, 1, 1)
    BY <1>1, <1>5, <1>10
  <2>3. m.mem[HDRP(24)] = PACK_HDR(0, 1, 1)
    BY <1>1, <1>6, <1>10
  <2>4. SizeAt(k, heap_listp) = 16
    BY <2>1, HeaderTells
  <2>5. SizeAt(m, heap_listp) = 16 /\ UsedAt(m, heap_listp)
    BY <2>2, HeaderTells
  <2>6. SizeAt(m, 24) = 0 /\ UsedAt(m, 24) /\ UsedBefore(m, 24)
    BY <2>3, HeaderTells
  <2>7. QED
    BY <2>4, <2>5, <2>6
<1>12. g = m
  <2>1. PICK e : e = EmptyHeap(mem, head)
    OBVIOUS
  <2>2. PICK s : s = mem_sbrk(e, 3 * SIZE_T_SIZE).heap
    OBVIOUS
  <2>3. s = [mem |-> mem, brk |-> 24, free_list_head |-> head]
    BY <1>2, <2>1, <2>2 DEF EmptyHeap, mem_sbrk, SIZE_T_SIZE
  <2>4. PICK r : r = PUT(s, 0, x)
    OBVIOUS
  <2>5. r.mem = k.mem /\ r.brk = 24 /\ r.free_list_head = head
    BY <1>3, <1>8, <2>3, <2>4 DEF PUT
  <2>6. HDRP(NEXT_BLKP(r, heap_listp)) = 16
    <3>1. GET_SIZE(r, HDRP(heap_listp)) = GET_SIZE(k, HDRP(heap_listp))
      BY <2>5 DEF GET_SIZE, GET
    <3>2. NEXT_BLKP(r, heap_listp) = 24
      BY <1>1, <1>11, <3>1 DEF NEXT_BLKP, SizeAt
    <3>3. QED
      BY <1>1, <3>2
  <2>7. PICK t : t = PUT(r, 16, y)
    OBVIOUS
  <2>8. g = [t EXCEPT !.free_list_head = NULL]
    BY <1>5, <1>6, <2>1, <2>2, <2>4, <2>6, <2>7 DEF mm_init, SIZE_T_SIZE
  <2>9. r = [mem |-> k.mem, brk |-> 24, free_list_head |-> head]
    BY <2>3, <2>4, <2>5 DEF PUT
  <2>10. k = [mem |-> k.mem, brk |-> 24, free_list_head |-> NULL]
    BY <1>3, <1>8 DEF PUT
  <2>11. PICK mm : mm = [k.mem EXCEPT ![16] = y]
    OBVIOUS
  <2>12. t = [mem |-> mm, brk |-> 24, free_list_head |-> head]
    BY <2>7, <2>9, <2>11 DEF PUT
  <2>13. m = [mem |-> mm, brk |-> 24, free_list_head |-> NULL]
    BY <1>9, <2>10, <2>11 DEF PUT
  <2>14. QED
    BY <2>8, <2>12, <2>13
<1>13. Cuts(T, 24)
  BY <1>1, <1>2 DEF Cuts, MinBlock, SIZE_T_SIZE, PTR_SIZE
<1>14. ASSUME NEW p, NEW q, Adj(T, p, q) PROVE p = heap_listp /\ q = 24
  BY <1>1, <1>14 DEF Adj
<1>15. Tagged(g, T, T)
  <2>1. Told(g, T, heap_listp, 24)
    BY <1>1, <1>11, <1>12 DEF Told
  <2>2. \A p, q \in T : Adj(T, p, q) => Told(g, T, p, q)
    BY <1>14, <2>1
  <2>3. \A p \in T : UsedAt(g, p) <=> p \in T
    BY <1>11, <1>12
  <2>4. g \in Heaps /\ g.brk = 24 /\ SizeAt(g, g.brk) = 0
    BY <1>10, <1>11, <1>12
  <2>5. QED
    BY <1>13, <2>2, <2>3, <2>4 DEF Tagged
<1>16. Alternates(T, T)
  BY DEF Alternates, Adj
<1>17. Lists(g, T \ T)
  <2> DEFINE L == [i \in 1 .. 0 |-> i]
  <2>1. Listing(g, 0, L, {})
    BY <1>10, <1>12 DEF Listing
  <2>2. T \ T = {}
    OBVIOUS
  <2>3. QED
    BY <2>1, <2>2 DEF Lists
<1>18. QED
  BY <1>1, <1>5, <1>6, <1>10, <1>12, <1>15, <1>16, <1>17 DEF Sound
-----------------------------------------------------------------------------
(* What a sound heap looks like to the checks of a debug build.              *)

\* A block of a sound heap: its neighbour and its tags.
BlockFacts(h, U, bp, q) ==
    /\ bp % 8 = 0 /\ NEXT_BLKP(h, bp) = q
    /\ GET_SIZE(h, HDRP(bp)) >= MinBlock
    /\ GET_PREV_ALLOC(h, HDRP(q)) = GET_ALLOC(h, HDRP(bp))
    /\ IsFree(h, bp) <=> bp \notin U
    /\ IsFree(h, bp) => /\ ~IsFree(h, q)
                        /\ GET_SIZE(h, HDRP(bp)) = GET_SIZE(h, FTRP(h, bp))

\* The bits of a tag that tell of use.
LEMMA Allocs ==
    ASSUME NEW h \in Heaps, NEW p, HDRP(p) \in Units
    PROVE  /\ GET_ALLOC(h, HDRP(p)) \in {0, 1}
           /\ GET_PREV_ALLOC(h, HDRP(p)) \in {0, 1}
           /\ IsFree(h, p) <=> ~UsedAt(h, p)
<1>1. h.mem[HDRP(p)] \in Int
  BY Numbers DEF Heaps, Word
<1>2. PICK x : x = h.mem[HDRP(p)]
  OBVIOUS
<1>3. x % 2 \in {0, 1} /\ (x \div 2) % 2 \in {0, 1}
  BY <1>1, <1>2, TagBits
<1>4. /\ GET_ALLOC(h, HDRP(p)) = x % 2
      /\ GET_PREV_ALLOC(h, HDRP(p)) = (x \div 2) % 2
  BY <1>2 DEF GET_ALLOC, GET_PREV_ALLOC, GET
<1>5. QED
  BY <1>3, <1>4 DEF IsFree, UsedAt

\* Every block has the neighbour and the tags that a debug build checks.
LEMMA BlocksAre ==
    ASSUME NEW h, NEW T, NEW U, Sound(h, T, U), NEW bp \in T,
           bp # heap_listp, bp # h.brk
    PROVE  \E q \in T : BlockFacts(h, U, bp, q)
<1>1. /\ Tagged(h, T, U) /\ Alternates(T, U) /\ Cuts(T, h.brk) /\ h \in Heaps
      /\ U \subseteq T
  BY DEF Sound, Tagged
<1>2. PICK q : Adj(T, bp, q)
  BY <1>1, NextExists
<1>3. /\ q \in T /\ q \in Nat /\ bp \in Nat /\ bp % 8 = 0 /\ bp + 32 <= q
      /\ HDRP(bp) \in Units /\ HDRP(q) \in Units
  BY <1>1, <1>2, CutFacts DEF Adj
<1>4. Told(h, U, bp, q)
  BY <1>1, <1>2, <1>3 DEF Tagged
<1>5. (UsedAt(h, bp) <=> bp \in U) /\ (UsedAt(h, q) <=> q \in U)
  BY <1>1, <1>3 DEF Tagged
<1>6. bp \in U \/ q \in U
  BY <1>1, <1>2 DEF Alternates
<1>7. SizeAt(h, bp) = q - bp /\ (UsedBefore(h, q) <=> bp \in U)
      /\ (bp \notin U => GET_SIZE(h, q - 16) = q - bp)
  BY <1>4 DEF Told
<1>8. NEXT_BLKP(h, bp) = q /\ FTRP(h, bp) = q - 16
      /\ GET_SIZE(h, HDRP(bp)) = q - bp
  BY <1>3, <1>7 DEF NEXT_BLKP, FTRP, SizeAt, SIZE_T_SIZE
<1>9. /\ GET_ALLOC(h, HDRP(bp)) \in {0, 1}
      /\ IsFree(h, bp) <=> ~UsedAt(h, bp)
  BY <1>1, <1>3, Allocs
<1>10. /\ GET_PREV_ALLOC(h, HDRP(q)) \in {0, 1}
       /\ IsFree(h, q) <=> ~UsedAt(h, q)
  BY <1>1, <1>3, Allocs
<1>11. GET_PREV_ALLOC(h, HDRP(q)) = GET_ALLOC(h, HDRP(bp))
  BY <1>5, <1>7, <1>9, <1>10 DEF UsedAt, UsedBefore
<1>12. BlockFacts(h, U, bp, q)
  <2>1. GET_SIZE(h, HDRP(bp)) >= MinBlock
    BY <1>3, <1>8 DEF MinBlock, SIZE_T_SIZE, PTR_SIZE
  <2>2. IsFree(h, bp) <=> bp \notin U
    BY <1>5, <1>9
  <2>3. IsFree(h, bp) => ~IsFree(h, q)
    BY <1>5, <1>6, <1>10, <2>2
  <2>4. IsFree(h, bp) => GET_SIZE(h, HDRP(bp)) = GET_SIZE(h, FTRP(h, bp))
    BY <1>7, <1>8, <2>2
  <2>5. QED
    BY <1>3, <1>8, <1>11, <2>1, <2>2, <2>3, <2>4 DEF BlockFacts
<1>13. QED
  BY <1>3, <1>12

\* The free list and the free blocks.
ListFacts(h, n, L, F) ==
    /\ n \in Nat /\ L \in [1 .. n -> F] /\ FreeList(h) = L
    /\ h.free_list_head = IF n = 0 THEN NULL ELSE L[1]
    /\ \A i \in 1 .. n : h.mem[L[i]] = IF i = 1 THEN NULL ELSE L[i - 1]
    /\ \A bp \in F : /\ h.mem[bp] \in F \cup {NULL}
                     /\ h.mem[bp + 8] \in F \cup {NULL}
                     /\ Cardinality({i \in 1 .. n : L[i] = bp}) = 1

\* FreeList has every free block once.
LEMMA ListIs ==
    ASSUME NEW h, NEW T, NEW U, Sound(h, T, U)
    PROVE  \E n, L : ListFacts(h, n, L, T \ U)
<1>1. PICK F : F = T \ U
  OBVIOUS
<1>2. Cuts(T, h.brk) /\ F \subseteq Inner(T, h.brk) /\ Lists(h, F)
  BY <1>1 DEF Sound, Tagged, Inner
<1>3. PICK n, L : Listing(h, n, L, F)
  BY <1>2 DEF Lists
<1>4. FreeList(h) = L
  BY <1>2, <1>3, FreeListIsList
<1>5. /\ n \in Nat /\ L \in [1 .. n -> F]
      /\ h.free_list_head = IF n = 0 THEN NULL ELSE L[1]
      /\ \A i \in 1 .. n : h.mem[L[i]] = IF i = 1 THEN NULL ELSE L[i - 1]
      /\ \A i \in 1 .. n : h.mem[L[i] + 8] = IF i = n THEN NULL ELSE L[i + 1]
      /\ \A i, j \in 1 .. n : L[i] = L[j] => i = j
      /\ \A x \in F : \E i \in 1 .. n : L[i] = x
  BY <1>3 DEF Listing
<1>6. ASSUME NEW bp \in F
      PROVE  /\ h.mem[bp] \in F \cup {NULL} /\ h.mem[bp + 8] \in F \cup {NULL}
             /\ Cardinality({i \in 1 .. n : L[i] = bp}) = 1
  <2>1. PICK k \in 1 .. n : L[k] = bp
    BY <1>5
  <2>2. h.mem[bp] \in F \cup {NULL}
    <3>1. CASE k = 1
      BY <1>5, <2>1, <3>1
    <3>2. CASE k # 1
      <4>1. k - 1 \in 1 .. n
        BY <1>5, <3>2
      <4>2. h.mem[bp] = L[k - 1]
        BY <1>5, <2>1, <3>2
      <4>3. QED
        BY <1>5, <4>1, <4>2
    <3>3. QED
      BY <3>1, <3>2
  <2>3. h.mem[bp + 8] \in F \cup {NULL}
    <3>1. CASE k = n
      BY <1>5, <2>1, <3>1
    <3>2. CASE k # n
      <4>1. k + 1 \in 1 .. n
        BY <1>5, <3>2
      <4>2. h.mem[bp + 8] = L[k + 1]
        BY <1>5, <2>1, <3>2
      <4>3. QED
        BY <1>5, <4>1, <4>2
    <3>3. QED
      BY <3>1, <3>2
  <2>4. {i \in 1 .. n : L[i] = bp} = {k}
    BY <1>5, <2>1
  <2>5. QED
    BY <2>2, <2>3, <2>4, FS_Singleton
<1>7. ListFacts(h, n, L, F)
  BY <1>4, <1>5, <1>6 DEF ListFacts
<1>8. QED
  BY <1>1, <1>7

\* All that HeapConsistent says of the heap.
ConsistentHeap(h) ==
    /\ h.mem \in [Units -> -1 .. WORD - 1]
    /\ h.brk \in 0 .. MAX_HEAP
    /\ h.free_list_head \in {NULL} \cup {p \in Units : p < h.brk}
    /\ h.brk \in Tiling(h)
    /\ mm_check_heap(h)
    /\ \A bp \in BlocksOf(h) :
        LET next == NEXT_BLKP(h, bp) IN
        /\ bp < h.brk
        /\ GET_SIZE(h, HDRP(bp)) >= MinBlock
        /\ GET_PREV_ALLOC(h, HDRP(next)) = GET_ALLOC(h, HDRP(bp))
        /\ IsFree(h, bp) => ~IsFree(h, next)
        /\ IF IsFree(h, bp) THEN check_free(h, bp) ELSE check_placed(h, bp)
    /\ LET list == FreeList(h) IN
        \A i \in DOMAIN list :
            GET(h, PREV_FREEP(list[i])) = IF i = 1 THEN NULL ELSE list[i - 1]

\* A sound heap passes every check of a debug build.
LEMMA SoundIsConsistent ==
    ASSUME NEW h, NEW T, NEW U, Sound(h, T, U)
    PROVE  ConsistentHeap(h)
<1>1. /\ Tagged(h, T, U) /\ Cuts(T, h.brk) /\ h \in Heaps /\ U \subseteq T
      /\ heap_listp \in U /\ h.brk \in U /\ 24 \in T /\ SizeAt(h, h.brk) = 0
      /\ \A p \in T : UsedAt(h, p) <=> p \in U
  BY DEF Sound, Tagged, Cuts
<1>2. Tiling(h) = T /\ BlocksOf(h) = Inner(T, h.brk)
  BY <1>1, TilingIsCuts DEF BlocksOf, Inner
<1>3. PICK F : F = T \ U
  OBVIOUS
<1>4. F \subseteq Inner(T, h.brk) /\ NULL \notin F
  BY <1>1, <1>3, LinksApart DEF Inner
<1>5. PICK n, L : ListFacts(h, n, L, F)
  BY <1>3, ListIs
<1>6. /\ n \in Nat /\ L \in [1 .. n -> F] /\ FreeList(h) = L
      /\ h.free_list_head = IF n = 0 THEN NULL ELSE L[1]
      /\ \A i \in 1 .. n : h.mem[L[i]] = IF i = 1 THEN NULL ELSE L[i - 1]
      /\ \A bp \in F : /\ h.mem[bp] \in F \cup {NULL}
                       /\ h.mem[bp + 8] \in F \cup {NULL}
                       /\ Cardinality({i \in 1 .. n : L[i] = bp}) = 1
  BY <1>5 DEF ListFacts
<1>7. ASSUME NEW bp \in Inner(T, h.brk)
      PROVE  \E q \in T : BlockFacts(h, U, bp, q)
  BY BlocksAre DEF Inner
<1>8. ASSUME NEW p \in T PROVE IsFree(h, p) <=> p \in F
  <2>1. HDRP(p) \in Units
    BY <1>1, CutWords
  <2>2. QED
    BY <1>1, <1>3, <2>1, Allocs
<1>9. /\ h.mem \in [Units -> -1 .. WORD - 1] /\ h.brk \in 0 .. MAX_HEAP
      /\ h.brk \in Nat
  BY <1>1, Numbers DEF Heaps, Word
<1>10. h.free_list_head \in {NULL} \cup {p \in Units : p < h.brk}
  <2>1. CASE n = 0
    BY <1>6, <2>1
  <2>2. CASE n # 0
    <3>1. PICK p : p = L[1]
      OBVIOUS
    <3>2. p \in F
      BY <1>6, <2>2, <3>1
    <3>3. p \in T /\ p # h.brk
      BY <1>4, <3>2 DEF Inner
    <3>4. p \in Units /\ p <= h.brk /\ p \in Nat
      BY <1>1, <3>3, CutWords
    <3>5. h.free_list_head = p /\ p < h.brk
      BY <1>6, <1>9, <2>2, <3>1, <3>3, <3>4
    <3>6. QED
      BY <3>4, <3>5
  <2>3. QED
    BY <2>1, <2>2
<1>11. ASSUME NEW bp \in Inner(T, h.brk) PROVE check_block(h, bp)
  <2>1. PICK q \in T : BlockFacts(h, U, bp, q)
    BY <1>7
  <2>2. bp % 8 = 0
    BY <2>1 DEF BlockFacts
  <2>3. ASSUME IsFree(h, bp)
        PROVE  /\ GET_SIZE(h, HDRP(bp)) = GET_SIZE(h, FTRP(h, bp))
               /\ \A link \in {GET(h, PREV_FREEP(bp)), GET(h, NEXT_FREEP(bp))}
                                \ {NULL} : IsFree(h, link)
    <3>1. GET_SIZE(h, HDRP(bp)) = GET_SIZE(h, FTRP(h, bp))
      BY <2>1, <2>3 DEF BlockFacts
    <3>2. bp \in F
      BY <1>8, <2>3 DEF Inner
    <3>3. /\ GET(h, PREV_FREEP(bp)) \in F \cup {NULL}
          /\ GET(h, NEXT_FREEP(bp)) \in F \cup {NULL}
      BY <1>6, <3>2 DEF GET, PREV_FREEP, NEXT_FREEP, PTR_SIZE
    <3>4. \A link \in F : IsFree(h, link)
      BY <1>3, <1>8
    <3>5. QED
      BY <3>1, <3>3, <3>4
  <2>4. QED
    BY <2>2, <2>3, Zenon DEF check_block
<1>12. /\ GET_SIZE(h, HDRP(heap_listp)) = 16 /\ heap_listp # h.brk
       /\ heap_listp % 8 = 0
  <2>1. heap_listp = 8 /\ h.brk \in T /\ heap_listp \in T
    BY <1>1 DEF heap_listp, SIZE_T_SIZE
  <2>2. heap_listp # h.brk
    BY <1>1, <1>9, <2>1, CutFacts
  <2>3. PICK q : Adj(T, heap_listp, q)
    BY <1>1, <2>1, <2>2, NextExists
  <2>4. q = 24
    BY <1>1, <2>3, Spaced
  <2>5. Told(h, U, heap_listp, q)
    BY <1>1, <2>3 DEF Tagged, Adj
  <2>6. QED
    BY <2>1, <2>2, <2>4, <2>5 DEF Told, SizeAt
<1>13. mm_check_heap(h)
  <2>1. ~IsFree(h, heap_listp) /\ ~IsFree(h, h.brk)
    BY <1>1, <1>3, <1>8
  <2>2. check_block(h, heap_listp)
    BY <1>12, <2>1 DEF check_block
  <2>3. \A bp \in Tiling(h) \ {h.brk} : check_block(h, bp)
    BY <1>2, <1>11, <2>2 DEF Inner
  <2>4. GET_SIZE(h, HDRP(h.brk)) = 0
    BY <1>1 DEF SizeAt
  <2>5. QED
    BY <1>12, <2>1, <2>3, <2>4 DEF mm_check_heap, SIZE_T_SIZE
<1>14. \A i \in DOMAIN FreeList(h) : IsFree(h, FreeList(h)[i])
  BY <1>3, <1>6, <1>8
<1>15. ASSUME NEW bp \in Inner(T, h.brk)
       PROVE  /\ bp < h.brk
              /\ GET_SIZE(h, HDRP(bp)) >= MinBlock
              /\ GET_PREV_ALLOC(h, HDRP(NEXT_BLKP(h, bp))) =
                                                GET_ALLOC(h, HDRP(bp))
              /\ IsFree(h, bp) => ~IsFree(h, NEXT_BLKP(h, bp))
              /\ IF IsFree(h, bp) THEN check_free(h, bp)
                                  ELSE check_placed(h, bp)
  <2>1. PICK q \in T : BlockFacts(h, U, bp, q)
    BY <1>7
  <2>2. bp \in T /\ bp # h.brk /\ bp \in Nat /\ bp <= h.brk
    BY <1>1, CutFacts DEF Inner
  <2>3. bp < h.brk
    BY <1>9, <2>2
  <2>4. /\ GET_SIZE(h, HDRP(bp)) >= MinBlock /\ NEXT_BLKP(h, bp) = q
        /\ GET_PREV_ALLOC(h, HDRP(q)) = GET_ALLOC(h, HDRP(bp))
        /\ IsFree(h, bp) => ~IsFree(h, q)
    BY <2>1 DEF BlockFacts
  <2>5. DOMAIN FreeList(h) = 1 .. n
    BY <1>6
  <2>6. CASE IsFree(h, bp)
    <3>1. bp \in F
      BY <1>8, <2>2, <2>6
    <3>2. Cardinality({i \in DOMAIN FreeList(h) : FreeList(h)[i] = bp}) = 1
      <4>1. {i \in DOMAIN FreeList(h) : FreeList(h)[i] = bp}
                = {i \in 1 .. n : L[i] = bp}
        BY <1>6, <2>5
      <4>2. Cardinality({i \in 1 .. n : L[i] = bp}) = 1
        BY <1>6, <3>1
      <4>3. QED
        BY <4>1, <4>2
    <3>3. check_free(h, bp)
      BY <1>14, <3>2 DEF check_free, Listed
    <3>4. QED
      BY <2>3, <2>4, <2>6, <3>3
  <2>7. CASE ~IsFree(h, bp)
    <3>1. bp \notin F
      BY <1>8, <2>2, <2>7
    <3>2. {i \in DOMAIN FreeList(h) : FreeList(h)[i] = bp} = {}
      BY <1>6, <2>5, <3>1
    <3>3. Cardinality({i \in DOMAIN FreeList(h) : FreeList(h)[i] = bp}) = 0
      BY <3>2, FS_EmptySet
    <3>4. check_placed(h, bp)
      BY <1>14, <3>3 DEF check_placed, Listed
    <3>5. QED
      BY <2>3, <2>4, <2>7, <3>4
  <2>8. QED
    BY <2>6, <2>7
<1>16. \A i \in DOMAIN FreeList(h) :
            GET(h, PREV_FREEP(FreeList(h)[i])) =
                IF i = 1 THEN NULL ELSE FreeList(h)[i - 1]
  BY <1>6 DEF GET, PREV_FREEP
<1>17. QED
  BY <1>1, <1>2, <1>9, <1>10, <1>13, <1>15, <1>16 DEF ConsistentHeap
-----------------------------------------------------------------------------
(* What the program holds: h is the heap, U the blocks in use, bs what the   *)
(* program knows of its own.                                                 *)

\* A block of the program is one in use, large enough for what it asked.
InPlace(h, U, b) ==
    /\ b \in [bp : Nat, size : Sizes, filled : Nat] /\ b.size # 0
    /\ b.bp \in U /\ b.bp # heap_listp /\ b.bp # h.brk
    /\ AdjustedSize(b.size) <= SizeAt(h, b.bp)
    /\ b.filled <= Words(b.size)

\* The blocks in use are the program's, each of them once.
Owned(h, U, bs) ==
    /\ bs = [id \in Ids |-> bs[id]]
    /\ \A id \in Ids : bs[id] # None => InPlace(h, U, bs[id])
    /\ \A id, other \in Ids :
        id # other /\ bs[id] # None /\ bs[other] # None =>
            bs[id].bp # bs[other].bp
    /\ \A x \in U : \/ x = heap_listp \/ x = h.brk
                    \/ \E id \in Ids : bs[id] # None /\ bs[id].bp = x

WellHeld(h, bs) == \E T, U : Sound(h, T, U) /\ Owned(h, U, bs)

\* The blocks of the program but one.
OthersKept(h, g, bs, id) ==
    \A other \in Ids \ {id} : bs[other] # None => Kept(h, g, bs[other].bp)
OthersIn(g, V, bs, id) ==
    \A other \in Ids \ {id} : bs[other] # None => InPlace(g, V, bs[other])
Apart(bs, id, b) ==
    \A other \in Ids \ {id} :
        b # None /\ bs[other] # None => bs[other].bp # b.bp
Rest(h, U, bs, id) == {x \in U : bs[id] # None => x # bs[id].bp} \ {h.brk}
Covered(g, V, X, b) ==
    \A x \in V \ {heap_listp, g.brk} : x \in X \/ (b # None /\ b.bp = x)

\* A block of the program is a block.
LEMMA BlockIsSome ==
    ASSUME NEW h, NEW U, NEW b, InPlace(h, U, b)
    PROVE  b # None
<1>1. Sizes \subseteq Nat
  BY SizesAssumption, Numbers
<1>2. b \in [bp : Nat, size : Nat, filled : Nat]
  BY <1>1 DEF InPlace
<1>3. QED
  BY <1>2, NoneAssumption

\* A block of the program is one of the heap's.
LEMMA InPlaceFacts ==
    ASSUME NEW h, NEW T, NEW U, Sound(h, T, U), NEW b, InPlace(h, U, b)
    PROVE  /\ b.bp \in Nat /\ b.bp % 8 = 0 /\ b.bp < h.brk /\ h.brk \in Nat
           /\ b.bp >= 24 /\ h.brk <= MAX_HEAP
           /\ SizeAt(h, b.bp) \in Nat /\ b.bp + SizeAt(h, b.bp) <= h.brk
           /\ \A t \in T : t = b.bp \/ t < b.bp \/ b.bp + SizeAt(h, b.bp) <= t
<1>1. PICK p : p = b.bp
  OBVIOUS
<1>2. PICK brk : brk = h.brk
  OBVIOUS
<1>3. /\ Tagged(h, T, U) /\ Cuts(T, brk) /\ p \in T /\ p # heap_listp
      /\ p # brk /\ brk \in Nat /\ brk <= MAX_HEAP
  BY <1>1, <1>2 DEF Sound, Tagged, InPlace, Cuts
<1>4. PICK q : Adj(T, p, q)
  BY <1>3, NextExists
<1>5. /\ q \in T /\ q \in Nat /\ q <= brk /\ p \in Nat /\ p % 8 = 0
      /\ p <= brk /\ p >= 24 /\ \A t \in T : t \in Nat
  BY <1>3, <1>4, CutFacts DEF Adj
<1>6. Told(h, U, p, q)
  BY <1>3, <1>4, <1>5 DEF Tagged
<1>7. SizeAt(h, p) = q - p /\ p < q
  BY <1>4, <1>6 DEF Told, Adj
<1>8. \A t \in T : t = p \/ t < p \/ q <= t
  BY <1>4, <1>5 DEF Adj
<1>9. QED
  BY <1>1, <1>2, <1>3, <1>5, <1>7, <1>8

\* A block that is kept stays in its place.
LEMMA InPlaceKept ==
    ASSUME NEW h, NEW U, NEW b, InPlace(h, U, b), NEW g, Kept(h, g, b.bp),
           NEW V, b.bp \in V, b.bp # g.brk
    PROVE  InPlace(g, V, b)
BY DEF InPlace, Kept

\* One block changes, the others stay where they are.
LEMMA OwnedStep ==
    ASSUME NEW h, NEW U, NEW bs, Owned(h, U, bs), NEW id \in Ids, NEW b,
           NEW cs, cs = [bs EXCEPT ![id] = b], NEW g, NEW V,
           OthersIn(g, V, bs, id), b # None => InPlace(g, V, b),
           Apart(bs, id, b), Covered(g, V, Rest(h, U, bs, id), b)
    PROVE  Owned(g, V, cs)
<1>1. cs = [i \in Ids |-> cs[i]] /\ cs[id] = b
      /\ \A i \in Ids \ {id} : cs[i] = bs[i]
  BY DEF Owned
<1>2. \A i \in Ids : cs[i] # None => InPlace(g, V, cs[i])
  BY <1>1 DEF OthersIn
<1>3. ASSUME NEW i \in Ids, NEW other \in Ids, i # other, cs[i] # None,
             cs[other] # None
      PROVE  cs[i].bp # cs[other].bp
  <2>1. CASE i = id
    BY <1>1, <1>3, <2>1 DEF Apart
  <2>2. CASE other = id
    BY <1>1, <1>3, <2>2 DEF Apart
  <2>3. CASE i # id /\ other # id
    <3>1. cs[i] = bs[i] /\ cs[other] = bs[other]
      BY <1>1, <2>3
    <3>2. QED
      BY <1>3, <3>1 DEF Owned
  <2>4. QED
    BY <2>1, <2>2, <2>3
<1>4. ASSUME NEW x \in V, x # heap_listp, x # g.brk
      PROVE  \E i \in Ids : cs[i] # None /\ cs[i].bp = x
  <2>1. CASE b # None /\ b.bp = x
    BY <1>1, <2>1
  <2>2. CASE x \in Rest(h, U, bs, id)
    <3>1. PICK i \in Ids : bs[i] # None /\ bs[i].bp = x
      BY <1>4, <2>2 DEF Owned, Rest
    <3>2. i # id
      BY <2>2, <3>1 DEF Rest
    <3>3. QED
      BY <1>1, <3>1, <3>2
  <2>3. QED
    BY <1>4, <2>1, <2>2 DEF Covered
<1>5. QED
  BY <1>1, <1>2, <1>3, <1>4 DEF Owned

\* The other blocks keep their places when the heap does not shrink.
LEMMA OthersStay ==
    ASSUME NEW h, NEW T, NEW U, Sound(h, T, U), NEW bs, Owned(h, U, bs),
           NEW id \in Ids, NEW g, NEW V, h.brk <= g.brk, g.brk \in Nat,
           NEW X, X = Rest(h, U, bs, id), X \subseteq V, KeptAll(h, g, X)
    PROVE  OthersIn(g, V, bs, id) /\ OthersKept(h, g, bs, id)
<1>1. ASSUME NEW other \in Ids \ {id}, bs[other] # None
      PROVE  InPlace(g, V, bs[other]) /\ Kept(h, g, bs[other].bp)
  <2>1. PICK b : b = bs[other]
    OBVIOUS
  <2>2. InPlace(h, U, b)
    BY <1>1, <2>1 DEF Owned
  <2>3. b.bp \in Nat /\ b.bp < h.brk /\ h.brk \in Nat
    BY <2>2, InPlaceFacts
  <2>4. b.bp # g.brk /\ b.bp # h.brk
    BY <2>3
  <2>5. bs[id] # None => b.bp # bs[id].bp
    BY <1>1, <2>1 DEF Owned
  <2>6. b.bp \in X
    BY <2>2, <2>4, <2>5 DEF InPlace, Rest
  <2>7. Kept(h, g, b.bp)
    BY <2>4, <2>6 DEF KeptAll
  <2>8. QED
    BY <2>1, <2>2, <2>4, <2>6, <2>7, InPlaceKept
<1>2. QED
  BY <1>1 DEF OthersKept, OthersIn

\* A block is allocated.
LEMMA MallocStep ==
    ASSUME NEW h, NEW T, NEW U, Sound(h, T, U), NEW bs, Owned(h, U, bs),
           NEW id \in Ids, bs[id] = None, NEW size \in Sizes, Modest(size),
           NEW got, got = mm_malloc(h, size), NEW cs,
           cs = IF got.bp = NULL THEN bs
                ELSE [bs EXCEPT ![id] = Block(got.bp, size, 0)]
    PROVE  /\ WellHeld(got.heap, cs) /\ OthersKept(h, got.heap, bs, id)
           /\ got.bp = NULL => got.heap = h
           /\ got.bp # NULL => size # 0 /\ got.bp \in Nat
<1>1. Allocated(h, got, T, U, size)
  BY MallocKeeps
<1>2. CASE got.bp = NULL
  <2>1. got.heap = h /\ cs = bs
    BY <1>1, <1>2 DEF Allocated
  <2>2. OthersKept(h, h, bs, id)
    BY KeptSelf DEF OthersKept
  <2>3. QED
    BY <1>2, <2>1, <2>2 DEF WellHeld
<1>3. CASE got.bp # NULL
  <2>1. PICK g, p : g = got.heap /\ p = got.bp
    OBVIOUS
  <2>2. PICK V : V = ((U \ {h.brk}) \cup {g.brk}) \cup {p}
    OBVIOUS
  <2>3. /\ size # 0 /\ h.brk <= g.brk /\ SizeAt(g, p) >= AdjustedSize(size)
        /\ KeptAll(h, g, U \ {h.brk}) /\ p \notin U \ {h.brk} /\ p # g.brk
        /\ \E S : Sound(g, S, V)
    BY <1>1, <1>3, <2>1, <2>2 DEF Allocated
  <2>4. PICK S : Sound(g, S, V)
    BY <2>3
  <2>5. /\ g.brk \in Nat /\ heap_listp \in U /\ h.brk \in U /\ p \in Nat
        /\ heap_listp # h.brk /\ heap_listp \in V /\ g \in Heaps
        /\ HDRP(p) \in Units
    <3>1. /\ Cuts(S, g.brk) /\ g.brk \in Nat /\ heap_listp \in U
          /\ h.brk \in U /\ p \in S /\ Cuts(T, h.brk) /\ heap_listp \in V
          /\ 24 \in T /\ heap_listp = 8 /\ h.brk \in Nat /\ g \in Heaps
      BY <2>2, <2>4 DEF Sound, Tagged, Cuts, heap_listp, SIZE_T_SIZE
    <3>2. p \in Nat /\ 24 <= h.brk /\ HDRP(p) \in Units
      BY <3>1, CutFacts
    <3>3. QED
      BY <3>1, <3>2
  <2>6. p # heap_listp
    BY <2>3, <2>5
  <2>7. PICK b : b = Block(p, size, 0)
    OBVIOUS
  <2>8. b.bp = p /\ b.size = size /\ b.filled = 0
    BY <2>7 DEF Block
  <2>9. InPlace(g, V, b)
    <3>1. b \in [bp : Nat, size : Sizes, filled : Nat]
      BY <2>5, <2>7 DEF Block
    <3>2. AdjustedSize(size) \in Nat
      BY AdjustedIs
    <3>3. g.mem[HDRP(p)] \in Int
      BY <2>5, Numbers DEF Heaps, Word
    <3>4. SizeAt(g, p) \in Int
      BY <3>3 DEF SizeAt, GET_SIZE, GET
    <3>5. AdjustedSize(size) <= SizeAt(g, p)
      BY <2>3, <3>2, <3>4
    <3>6. 0 <= Words(size)
      BY DEF Words, ALIGNMENT, Modest
    <3>7. QED
      BY <2>2, <2>3, <2>6, <2>8, <3>1, <3>5, <3>6 DEF InPlace
  <2>10. PICK X : X = Rest(h, U, bs, id)
    OBVIOUS
  <2>11. X = U \ {h.brk} /\ X \subseteq V
    BY <2>2, <2>10 DEF Rest
  <2>12. OthersIn(g, V, bs, id) /\ OthersKept(h, g, bs, id)
    BY <2>3, <2>5, <2>10, <2>11, OthersStay
  <2>13. ASSUME NEW other \in Ids \ {id}, bs[other] # None
         PROVE  bs[other].bp # p
    <3>1. InPlace(h, U, bs[other])
      BY <2>13 DEF Owned
    <3>2. QED
      BY <2>3, <3>1 DEF InPlace
  <2>14. cs = [bs EXCEPT ![id] = b]
    BY <1>3, <2>1, <2>7
  <2>15. Covered(g, V, X, b)
    <3>1. b # None
      BY <2>9, BlockIsSome
    <3>2. ASSUME NEW x \in V
          PROVE  x = g.brk \/ x \in X \/ b.bp = x
      BY <2>2, <2>8, <2>11
    <3>3. QED
      BY <3>1, <3>2 DEF Covered
  <2>16. Owned(g, V, cs)
    <3>1. Apart(bs, id, b)
      BY <2>8, <2>13 DEF Apart
    <3>2. QED
      BY <2>9, <2>10, <2>12, <2>14, <2>15, <3>1, OwnedStep
  <2>17. QED
    BY <1>3, <2>1, <2>3, <2>4, <2>5, <2>12, <2>16 DEF WellHeld
<1>4. QED
  BY <1>2, <1>3

\* A block is freed.
LEMMA FreeStep ==
    ASSUME NEW h, NEW T, NEW U, Sound(h, T, U), NEW bs, Owned(h, U, bs),
           NEW id \in Ids, bs[id] # None,
           NEW g, g = mm_free(h, bs[id].bp),
           NEW cs, cs = [bs EXCEPT ![id] = None]
    PROVE  WellHeld(g, cs) /\ OthersKept(h, g, bs, id)
<1>1. PICK b, p : b = bs[id] /\ p = b.bp
  OBVIOUS
<1>2. InPlace(h, U, b)
  BY <1>1 DEF Owned
<1>3. p \in U /\ p # heap_listp /\ p # h.brk
  BY <1>1, <1>2 DEF InPlace
<1>4. PICK V : V = U \ {p}
  OBVIOUS
<1>5. (\E S : Sound(g, S, V)) /\ g.brk = h.brk /\ KeptAll(h, g, V)
  BY <1>1, <1>3, <1>4, FreeKeeps
<1>6. PICK S : Sound(g, S, V)
  BY <1>5
<1>7. h.brk \in Nat /\ h.brk <= g.brk /\ g.brk \in Nat
  BY <1>2, <1>5, InPlaceFacts
<1>8. PICK X : X = Rest(h, U, bs, id)
  OBVIOUS
<1>9. X \subseteq V
  BY <1>1, <1>4, <1>8 DEF Rest
<1>10. KeptAll(h, g, X)
  BY <1>5, <1>9 DEF KeptAll
<1>11. OthersIn(g, V, bs, id) /\ OthersKept(h, g, bs, id)
  BY <1>7, <1>8, <1>9, <1>10, OthersStay
<1>12. Covered(g, V, X, None) /\ Apart(bs, id, None)
  <2>1. ASSUME NEW x \in V PROVE x = g.brk \/ x \in X
    BY <1>1, <1>4, <1>5, <1>8 DEF Rest
  <2>2. Covered(g, V, X, None)
    BY <2>1 DEF Covered
  <2>3. Apart(bs, id, None)
    BY DEF Apart
  <2>4. QED
    BY <2>2, <2>3
<1>13. Owned(g, V, cs)
  BY <1>8, <1>11, <1>12, OwnedStep
<1>14. QED
  BY <1>6, <1>11, <1>13 DEF WellHeld
-----------------------------------------------------------------------------
(* The program resizes a block, fills one, and starts again.                 *)

\* The words of a block of the program lie in its payload.
LEMMA WordsIn ==
    ASSUME NEW h, NEW T, NEW U, Sound(h, T, U), NEW b, InPlace(h, U, b),
           Modest(b.size), NEW i \in 1 .. Words(b.size)
    PROVE  /\ b.bp + 8 * (i - 1) \in Units
           /\ b.bp <= b.bp + 8 * (i - 1)
           /\ b.bp + 8 * (i - 1) < b.bp + SizeAt(h, b.bp) - 8
           /\ b.bp + 8 * (i - 1) \in b.bp .. b.bp + b.size - 1
           /\ 8 * (i - 1) \in 0 .. SizeAt(h, b.bp) - 9
<1>1. PICK p, s, size : p = b.bp /\ s = SizeAt(h, b.bp) /\ size = b.size
  OBVIOUS
<1>2. /\ p \in Nat /\ p % 8 = 0 /\ s \in Nat /\ p + s <= h.brk
      /\ h.brk \in Nat /\ h.brk <= MAX_HEAP /\ MAX_HEAP \in Nat
  BY <1>1, InPlaceFacts, Numbers
<1>3. PICK a : a = AdjustedSize(size)
  OBVIOUS
<1>4. a \in Nat /\ a >= size + 8 /\ a <= s /\ size \in Nat
  BY <1>1, <1>3, AdjustedIs DEF InPlace, Modest
<1>5. /\ i \in Nat /\ i >= 1 /\ i <= (size + 7) \div 8
  BY <1>1, <1>4 DEF Words, ALIGNMENT
<1>6. 8 * (i - 1) <= size - 1 /\ 8 * (i - 1) \in Nat
  BY <1>4, <1>5
<1>7. PICK x : x = 8 * (i - 1)
  OBVIOUS
<1>8. /\ x \in Nat /\ x <= size - 1 /\ x % 8 = 0 /\ x + 8 < s
  <2>1. x \in Nat /\ x <= size - 1
    BY <1>6, <1>7
  <2>2. x % 8 = 0
    BY <1>5, <1>7
  <2>3. x + 8 < s
    BY <1>2, <1>4, <2>1
  <2>4. QED
    BY <2>1, <2>2, <2>3
<1>9. /\ p + x \in Nat /\ (p + x) % 8 = 0 /\ p + x < MAX_HEAP
  BY <1>2, <1>8
<1>10. p + x \in Units
  BY <1>9, UnitsAre
<1>11. p <= p + x /\ p + x < p + s - 8 /\ p + x \in p .. p + size - 1
       /\ x \in 0 .. s - 9
  BY <1>2, <1>4, <1>8
<1>12. QED
  BY <1>1, <1>7, <1>10, <1>11

\* What becomes of a block whose size changes.
Resizing(h, got, old, size, kept) ==
    /\ size # 0 /\ got.bp = NULL => got.heap = h
    /\ size # 0 /\ got.bp # NULL => got.bp \in Nat
    /\ size # 0 /\ got.bp # NULL /\ old.bp # NULL =>
        \A i \in 1 .. kept :
            got.heap.mem[got.bp + 8 * (i - 1)] = h.mem[old.bp + 8 * (i - 1)]

\* A block the program has is resized.
LEMMA ResizeStep ==
    ASSUME NEW h, NEW T, NEW U, Sound(h, T, U), NEW bs, Owned(h, U, bs),
           \A s \in Sizes : Modest(s) /\ Modest(s * 2),
           NEW id \in Ids, bs[id] # None, NEW size \in Sizes,
           NEW old, old = bs[id],
           NEW got, got = mm_realloc(h, old.bp, size), NEW kept,
           kept = IF Words(size) < old.filled THEN Words(size) ELSE old.filled,
           NEW cs, cs = IF size = 0 THEN [bs EXCEPT ![id] = None]
                        ELSE IF got.bp = NULL THEN bs
                        ELSE [bs EXCEPT ![id] = Block(got.bp, size, kept)]
    PROVE  /\ WellHeld(got.heap, cs) /\ OthersKept(h, got.heap, bs, id)
           /\ Resizing(h, got, old, size, kept)
<1>1. InPlace(h, U, old)
  BY DEF Owned
<1>2. PICK bp : bp = old.bp
  OBVIOUS
<1>3. /\ bp \in U /\ bp # heap_listp /\ bp # h.brk /\ bp \in Nat /\ bp >= 24
      /\ bp # NULL /\ h.brk \in Nat
  BY <1>1, <1>2, InPlaceFacts DEF InPlace, NULL
<1>4. Reallocated(h, got, U, bp, size)
  BY <1>2, <1>3, ReallocKeeps
<1>5. /\ size \in Nat /\ old.size \in Nat /\ Words(size) \in Nat
      /\ old.filled \in Nat /\ old.filled <= Words(old.size)
      /\ Modest(size) /\ Modest(old.size) /\ Words(old.size) \in Nat
  <2>1. Modest(size) /\ Modest(old.size)
    BY <1>1 DEF InPlace
  <2>2. size \in Nat /\ old.size \in Nat
    BY <2>1 DEF Modest
  <2>3. QED
    BY <1>1, <2>1, <2>2 DEF InPlace, Words, ALIGNMENT
<1>6. /\ kept \in Nat /\ kept <= Words(size) /\ kept <= old.filled
      /\ kept <= Words(old.size)
  BY <1>5
<1>7. CASE size = 0
  <2>1. Released(h, got, U, bp)
    BY <1>4, <1>7 DEF Reallocated
  <2>2. got.heap = mm_free(h, bp)
    BY <1>2, <1>3, <1>7 DEF mm_realloc
  <2>3. cs = [bs EXCEPT ![id] = None]
    BY <1>7
  <2>4. PICK g : g = got.heap
    OBVIOUS
  <2>5. WellHeld(g, cs) /\ OthersKept(h, g, bs, id)
    <3>1. g = mm_free(h, bs[id].bp)
      BY <1>2, <2>2, <2>4
    <3>2. QED
      BY <2>3, <3>1, FreeStep
  <2>6. QED
    BY <1>7, <2>4, <2>5 DEF Resizing
<1>8. CASE size # 0 /\ got.bp = NULL
  <2>1. got.heap = h
    BY <1>3, <1>4, <1>8 DEF Reallocated, Moved
  <2>2. cs = bs
    BY <1>8
  <2>3. OthersKept(h, h, bs, id)
    BY KeptSelf DEF OthersKept
  <2>4. QED
    BY <1>8, <2>1, <2>2, <2>3 DEF WellHeld, Resizing
<1>9. CASE size # 0 /\ got.bp # NULL
  <2>1. PICK b : b = Block(got.bp, size, kept)
    OBVIOUS
  <2>2. PICK g, to : g = got.heap /\ to = got.bp
    OBVIOUS
  <2>3. b.bp = to /\ b.size = size /\ b.filled = kept
    BY <2>1, <2>2 DEF Block
  <2>4. cs = [bs EXCEPT ![id] = b]
    BY <1>9, <2>1
  <2>5. PICK X : X = Rest(h, U, bs, id)
    OBVIOUS
  <2>6. X = (U \ {h.brk}) \ {bp}
    BY <1>2, <2>5 DEF Rest
  <2>7. CASE got.bp = bp /\ got.heap = h /\ SizeAt(h, bp) >= AdjustedSize(size)
    <3>1. InPlace(h, U, b)
      <4>1. b \in [bp : Nat, size : Sizes, filled : Nat]
        BY <1>3, <1>6, <2>1, <2>7 DEF Block
      <4>2. AdjustedSize(size) \in Nat /\ SizeAt(h, bp) \in Nat
        BY <1>1, <1>2, <1>5, AdjustedIs, InPlaceFacts
      <4>3. AdjustedSize(size) <= SizeAt(h, bp)
        BY <2>7, <4>2
      <4>4. QED
        BY <1>3, <1>6, <1>9, <2>2, <2>3, <2>7, <4>1, <4>3 DEF InPlace
    <3>2. KeptAll(h, h, X)
      BY KeptSelf DEF KeptAll
    <3>3. X \subseteq U /\ h.brk <= h.brk
      BY <1>3, <2>6
    <3>4. OthersIn(h, U, bs, id) /\ OthersKept(h, h, bs, id)
      BY <1>3, <2>5, <3>2, <3>3, OthersStay
    <3>5. Apart(bs, id, b)
      BY <1>2, <2>2, <2>3, <2>7 DEF Apart, Owned
    <3>6. Covered(h, U, X, b)
      <4>1. ASSUME NEW x \in U, x # h.brk PROVE x \in X \/ b.bp = x
        BY <2>2, <2>3, <2>6, <2>7, <4>1
      <4>2. b # None
        BY <3>1, BlockIsSome
      <4>3. QED
        BY <4>1, <4>2 DEF Covered
    <3>7. Owned(h, U, cs)
      BY <2>4, <2>5, <3>1, <3>4, <3>5, <3>6, OwnedStep
    <3>8. Resizing(h, got, old, size, kept)
      BY <1>2, <1>3, <2>7 DEF Resizing
    <3>9. QED
      BY <2>7, <3>4, <3>7, <3>8 DEF WellHeld
  <2>8. CASE Moved(h, got, U, bp, size)
    <3>1. PICK V : V = (((U \ {h.brk}) \cup {g.brk}) \cup {to}) \ {bp}
      OBVIOUS
    <3>2. /\ h.brk <= g.brk /\ SizeAt(g, to) >= AdjustedSize(size)
          /\ to \notin U \ {h.brk} /\ to # g.brk
          /\ KeptAll(h, g, X)
          /\ \E S : Sound(g, S, V)
          /\ \A i \in 0 .. SizeAt(h, bp) - 9 :
                to + i \in Units => g.mem[to + i] = h.mem[bp + i]
      BY <2>2, <2>6, <2>8, <3>1 DEF Moved
    <3>3. PICK S : Sound(g, S, V)
      BY <3>2
    <3>4. to # bp /\ to \in V
      BY <1>3, <3>1, <3>2
    <3>5. /\ g.brk \in Nat /\ to \in Nat /\ HDRP(to) \in Units /\ g \in Heaps
          /\ to # heap_listp
      <4>1. /\ Cuts(S, g.brk) /\ g.brk \in Nat /\ g \in Heaps /\ to \in S
            /\ heap_listp \in U
        BY <3>3, <3>4 DEF Sound, Tagged, Cuts
      <4>2. to \in Nat /\ HDRP(to) \in Units
        BY <4>1, CutFacts
      <4>3. heap_listp # h.brk
        BY <1>1, <1>3, InPlaceFacts DEF heap_listp, SIZE_T_SIZE
      <4>4. QED
        BY <3>2, <4>1, <4>2, <4>3
    <3>6. InPlace(g, V, b)
      <4>1. b \in [bp : Nat, size : Sizes, filled : Nat]
        BY <1>6, <2>1, <2>2, <3>5 DEF Block
      <4>2. g.mem[HDRP(to)] \in Int
        BY <3>5, Numbers DEF Heaps, Word
      <4>3. SizeAt(g, to) \in Int /\ AdjustedSize(size) \in Nat
        <5>1. SizeAt(g, to) \in Int
          BY <4>2 DEF SizeAt, GET_SIZE, GET
        <5>2. AdjustedSize(size) \in Nat
          BY <1>5, AdjustedIs
        <5>3. QED
          BY <5>1, <5>2
      <4>4. AdjustedSize(size) <= SizeAt(g, to)
        BY <3>2, <4>3
      <4>5. QED
        BY <1>6, <1>9, <2>3, <3>2, <3>4, <3>5, <4>1, <4>4 DEF InPlace
    <3>7. X \subseteq V
      BY <2>6, <3>1
    <3>8. OthersIn(g, V, bs, id) /\ OthersKept(h, g, bs, id)
      BY <2>5, <3>2, <3>5, <3>7, OthersStay
    <3>9. Apart(bs, id, b)
      <4>1. ASSUME NEW other \in Ids \ {id}, bs[other] # None
            PROVE  bs[other].bp # to
        <5>1. InPlace(h, U, bs[other])
          BY <4>1 DEF Owned
        <5>2. QED
          BY <3>2, <5>1 DEF InPlace
      <4>2. QED
        BY <2>3, <4>1 DEF Apart
    <3>10. Covered(g, V, X, b)
      <4>1. ASSUME NEW x \in V, x # g.brk PROVE x \in X \/ b.bp = x
        BY <2>3, <2>6, <3>1, <4>1
      <4>2. b # None
        BY <3>6, BlockIsSome
      <4>3. QED
        BY <4>1, <4>2 DEF Covered
    <3>11. Owned(g, V, cs)
      BY <2>4, <2>5, <3>6, <3>8, <3>9, <3>10, OwnedStep
    <3>12. ASSUME NEW i \in 1 .. kept
           PROVE  g.mem[to + 8 * (i - 1)] = h.mem[bp + 8 * (i - 1)]
      <4>1. i \in 1 .. Words(old.size) /\ i \in 1 .. Words(size)
        BY <1>5, <1>6
      <4>2. 8 * (i - 1) \in 0 .. SizeAt(h, bp) - 9
        BY <1>1, <1>2, <1>5, <4>1, WordsIn
      <4>3. to + 8 * (i - 1) \in Units
        BY <1>5, <2>3, <3>3, <3>6, <4>1, WordsIn
      <4>4. QED
        BY <3>2, <4>2, <4>3
    <3>13. Resizing(h, got, old, size, kept)
      BY <1>2, <1>9, <2>2, <3>5, <3>12 DEF Resizing
    <3>14. QED
      BY <2>2, <3>3, <3>8, <3>11, <3>13 DEF WellHeld
  <2>9. QED
    BY <1>4, <1>9, <2>7, <2>8 DEF Reallocated
<1>10. QED
  BY <1>7, <1>8, <1>9

\* A heap in which the program has filled a block.
Filled(h, b, id) ==
    [h EXCEPT !.mem = [p \in Units |-> IF p \in b.bp .. b.bp + b.size - 1
                                       THEN id ELSE h.mem[p]]]

\* Nothing but the payload of the block changes.
FilledIn(h, g, T, U, b) ==
    /\ Rewritten(h, g, T, U, b.bp) /\ g.free_list_head = h.free_list_head
    /\ \A a \in Units : a < b.bp \/ a >= b.bp + SizeAt(h, b.bp) - 8 =>
                            g.mem[a] = h.mem[a]

\* The heap stays sound, and its other blocks keep what is in them.
LEMMA FillKeeps ==
    ASSUME NEW h, NEW T, NEW U, Sound(h, T, U), NEW b, InPlace(h, U, b),
           Modest(b.size), NEW id \in Ids, NEW g, g = Filled(h, b, id)
    PROVE  FilledIn(h, g, T, U, b)
<1>1. InPlace(h, U, b)
  OBVIOUS
<1>2. PICK p, size, s : p = b.bp /\ size = b.size /\ s = SizeAt(h, p)
  OBVIOUS
<1>3. /\ p \in U /\ p # heap_listp /\ p # h.brk /\ p \in Nat /\ s \in Nat
      /\ size \in Nat /\ size + 8 <= s /\ h.brk \in Nat /\ h \in Heaps
  <2>1. /\ p \in U /\ p # heap_listp /\ p # h.brk /\ p \in Nat /\ s \in Nat
        /\ h.brk \in Nat
    BY <1>1, <1>2, InPlaceFacts DEF InPlace
  <2>2. PICK a : a = AdjustedSize(size)
    OBVIOUS
  <2>3. a \in Nat /\ a >= size + 8 /\ a <= s /\ size \in Nat
    BY <1>1, <1>2, <2>2, AdjustedIs DEF InPlace, Modest
  <2>4. QED
    BY <2>1, <2>3 DEF Sound, Tagged
<1>4. PICK W : W = {a \in Units : a \in p .. p + size - 1}
  OBVIOUS
<1>5. ASSUME NEW a \in W PROVE a \in Nat /\ p <= a /\ a < p + s - 8
  <2>1. a \in p .. p + size - 1
    BY <1>4
  <2>2. QED
    BY <1>3, <2>1
<1>6. id \in Word
  BY IdsAssumption, Numbers DEF Word
<1>7. SameBut(h, g, W) /\ g.free_list_head = h.free_list_head /\ g.brk = h.brk
  <2>1. PICK mem : mem = [x \in Units |->
                            IF x \in p .. p + size - 1 THEN id ELSE h.mem[x]]
    OBVIOUS
  <2>2. g = [h EXCEPT !.mem = mem]
    BY <1>2, <2>1 DEF Filled
  <2>3. mem \in [Units -> Word]
    BY <1>3, <1>6, <2>1 DEF Heaps
  <2>4. /\ g \in Heaps /\ g.brk = h.brk /\ g.mem = mem
        /\ g.free_list_head = h.free_list_head
    BY <1>3, <2>2, <2>3 DEF Heaps
  <2>5. \A a \in Units : a \notin W => g.mem[a] = h.mem[a]
    BY <1>4, <2>1, <2>4
  <2>6. QED
    BY <1>3, <2>4, <2>5 DEF SameBut
<1>8. Rewritten(h, g, T, U, p)
  BY <1>2, <1>3, <1>5, <1>7, PayloadKeeps
<1>9. ASSUME NEW a \in Units, a < p \/ a >= p + s - 8
      PROVE  g.mem[a] = h.mem[a]
  <2>1. a \notin p .. p + size - 1
    BY <1>3, <1>9, UnitsAre
  <2>2. a \notin W
    BY <1>4, <2>1
  <2>3. QED
    BY <1>7, <2>2 DEF SameBut
<1>10. QED
  BY <1>2, <1>7, <1>8, <1>9 DEF FilledIn

\* A block is filled.
LEMMA FillStep ==
    ASSUME NEW h, NEW T, NEW U, Sound(h, T, U), NEW bs, Owned(h, U, bs),
           NEW id \in Ids, bs[id] # None, Modest(bs[id].size),
           NEW b, b = bs[id], NEW g, g = Filled(h, b, id),
           NEW cs, cs = [bs EXCEPT ![id].filled = Words(b.size)]
    PROVE  WellHeld(g, cs) /\ OthersKept(h, g, bs, id)
<1>1. InPlace(h, U, b)
  BY DEF Owned
<1>2. PICK p, size, s : p = b.bp /\ size = b.size /\ s = SizeAt(h, p)
  OBVIOUS
<1>3. /\ p \in U /\ p # heap_listp /\ p # h.brk /\ p \in Nat /\ s \in Nat
      /\ size \in Nat /\ size + 8 <= s /\ h.brk \in Nat /\ h \in Heaps
  <2>1. /\ p \in U /\ p # heap_listp /\ p # h.brk /\ p \in Nat /\ s \in Nat
        /\ h.brk \in Nat
    BY <1>1, <1>2, InPlaceFacts DEF InPlace
  <2>2. PICK a : a = AdjustedSize(size)
    OBVIOUS
  <2>3. a \in Nat /\ a >= size + 8 /\ a <= s /\ size \in Nat
    BY <1>1, <1>2, <2>2, AdjustedIs DEF InPlace, Modest
  <2>4. QED
    BY <2>1, <2>3 DEF Sound, Tagged
<1>4. FilledIn(h, g, T, U, b)
  BY <1>1, FillKeeps
<1>5. /\ Sound(g, T, U) /\ SizeAt(g, p) = s /\ KeptAll(h, g, U \ {p})
      /\ g.brk = h.brk
  BY <1>2, <1>4 DEF FilledIn, Rewritten
<1>6. PICK c : c = Block(p, size, Words(size))
  OBVIOUS
<1>7. c.bp = p /\ c.size = size /\ c.filled = Words(size)
  BY <1>6 DEF Block
<1>8. InPlace(g, U, c)
  <2>1. Words(size) \in Nat
    BY <1>3 DEF Words, ALIGNMENT
  <2>2. b \in [bp : Nat, size : Sizes, filled : Nat]
    BY <1>1 DEF InPlace
  <2>3. c \in [bp : Nat, size : Sizes, filled : Nat]
    BY <1>2, <1>6, <2>1, <2>2 DEF Block
  <2>4. c.filled <= Words(c.size)
    BY <1>7, <2>1
  <2>5. QED
    BY <1>1, <1>2, <1>3, <1>5, <1>7, <2>3, <2>4 DEF InPlace
<1>9. cs = [bs EXCEPT ![id] = c]
  <2>1. b = Block(p, size, b.filled)
    BY <1>1, <1>2 DEF InPlace, Block
  <2>2. cs = [bs EXCEPT ![id] = [b EXCEPT !.filled = Words(size)]]
    BY <1>2
  <2>3. [b EXCEPT !.filled = Words(size)] = c
    BY <1>6, <2>1 DEF Block
  <2>4. QED
    BY <2>2, <2>3
<1>10. PICK X : X = Rest(h, U, bs, id)
  OBVIOUS
<1>11. X = (U \ {h.brk}) \ {p}
  BY <1>2, <1>10 DEF Rest
<1>12. KeptAll(h, g, X)
  BY <1>5, <1>11 DEF KeptAll
<1>13. OthersIn(g, U, bs, id) /\ OthersKept(h, g, bs, id)
  <2>1. X \subseteq U /\ h.brk <= g.brk /\ g.brk \in Nat
    BY <1>3, <1>5, <1>11
  <2>2. QED
    BY <1>10, <1>12, <2>1, OthersStay
<1>14. Apart(bs, id, c)
  BY <1>2, <1>7 DEF Apart, Owned
<1>15. Covered(g, U, X, c)
  <2>1. ASSUME NEW x \in U, x # g.brk PROVE x \in X \/ c.bp = x
    BY <1>5, <1>7, <1>11, <2>1
  <2>2. c # None
    BY <1>8, BlockIsSome
  <2>3. QED
    BY <2>1, <2>2 DEF Covered
<1>16. Owned(g, U, cs)
  BY <1>8, <1>9, <1>10, <1>13, <1>14, <1>15, OwnedStep
<1>17. QED
  BY <1>5, <1>13, <1>16 DEF WellHeld

\* A program that starts holds nothing.
LEMMA StartStep ==
    ASSUME NEW mem \in [Units -> Word], NEW head,
           NEW g, g = mm_init(EmptyHeap(mem, head)),
           NEW cs, cs = [id \in Ids |-> None]
    PROVE  WellHeld(g, cs)
<1>1. PICK U : U = {heap_listp, 24}
  OBVIOUS
<1>2. Sound(g, U, U) /\ g.brk = 24
  BY <1>1, InitKeeps
<1>3. Owned(g, U, cs)
  BY <1>1, <1>2 DEF Owned
<1>4. QED
  BY <1>2, <1>3 DEF WellHeld
-----------------------------------------------------------------------------
(* The invariant of the program and its heap.                                *)

\* The code keeps a size in an int, and doubles it when a block grows: sizes
\* for which that overflows are outside of what is proved.
ModestSizes == \A size \in Sizes : Modest(size) /\ Modest(size * 2)

HeapInvariant == WellHeld(heap, blocks)

\* The program starts with a sound heap and no block.
LEMMA InvariantInit == Init => HeapInvariant
<1> SUFFICES ASSUME Init PROVE HeapInvariant
  OBVIOUS
<1>1. PICK mem : mem = [p \in Units |-> Unset]
  OBVIOUS
<1>2. mem \in [Units -> Word]
  BY <1>1, Numbers DEF Word, Unset
<1>3. heap = mm_init(EmptyHeap(mem, NULL)) /\ blocks = [id \in Ids |-> None]
  BY <1>1 DEF Init
<1>4. QED
  BY <1>2, <1>3, StartStep DEF HeapInvariant

\* Whatever the program calls, the heap stays sound.
LEMMA InvariantNext ==
    ASSUME ModestSizes, HeapInvariant, [Next]_vars
    PROVE  HeapInvariant'
<1>1. PICK T, U : Sound(heap, T, U) /\ Owned(heap, U, blocks)
  BY DEF HeapInvariant, WellHeld
<1>2. ASSUME NEW id \in Ids, NEW size \in Sizes, Malloc(id, size)
      PROVE  WellHeld(heap', blocks')
  <2>1. PICK got : got = mm_malloc(heap, size)
    OBVIOUS
  <2>2. /\ blocks[id] = None /\ heap' = got.heap
        /\ blocks' = IF got.bp = NULL THEN blocks
                     ELSE [blocks EXCEPT ![id] = Block(got.bp, size, 0)]
    BY <1>2, <2>1 DEF Malloc, Given
  <2>3. Modest(size)
    BY DEF ModestSizes
  <2>4. PICK cs : cs = IF got.bp = NULL THEN blocks
                       ELSE [blocks EXCEPT ![id] = Block(got.bp, size, 0)]
    OBVIOUS
  <2>5. WellHeld(got.heap, cs)
    BY <1>1, <2>1, <2>2, <2>3, <2>4, MallocStep
  <2>6. QED
    BY <2>2, <2>4, <2>5
<1>3. ASSUME NEW id \in Ids, NEW size \in Sizes, Realloc(id, size)
      PROVE  WellHeld(heap', blocks')
  <2>1. PICK old : old = IF blocks[id] = None THEN Block(NULL, 0, 0)
                         ELSE blocks[id]
    OBVIOUS
  <2>2. PICK got : got = mm_realloc(heap, old.bp, size)
    OBVIOUS
  <2>3. PICK kept : kept = IF Words(size) < old.filled THEN Words(size)
                           ELSE old.filled
    OBVIOUS
  <2>4. PICK cs : cs = IF size = 0 THEN [blocks EXCEPT ![id] = None]
                       ELSE IF got.bp = NULL THEN blocks
                       ELSE [blocks EXCEPT ![id] = Block(got.bp, size, kept)]
    OBVIOUS
  <2>5. heap' = got.heap /\ blocks' = cs
    BY <1>3, <2>1, <2>2, <2>3, <2>4 DEF Realloc, Resized
  <2>6. CASE blocks[id] # None
    <3>1. old = blocks[id]
      BY <2>1, <2>6
    <3>2. WellHeld(got.heap, cs)
      BY <1>1, <2>2, <2>3, <2>4, <2>6, <3>1, ResizeStep DEF ModestSizes
    <3>3. QED
      BY <2>5, <3>2
  <2>7. CASE blocks[id] = None
    <3>1. old.bp = NULL /\ old.filled = 0
      BY <2>1, <2>7 DEF Block
    <3>2. got = mm_malloc(heap, size)
      BY <2>2, <3>1 DEF mm_realloc
    <3>3. Modest(size)
      BY DEF ModestSizes
    <3>4. size = 0 => got.bp = NULL
      BY <3>2 DEF mm_malloc
    <3>5. kept = 0
      <4>1. Words(size) \in Nat
        BY <3>3 DEF Words, ALIGNMENT, Modest
      <4>2. QED
        BY <2>3, <3>1, <4>1
    <3>6. blocks = [blocks EXCEPT ![id] = None]
      BY <1>1, <2>7 DEF Owned
    <3>7. cs = IF got.bp = NULL THEN blocks
               ELSE [blocks EXCEPT ![id] = Block(got.bp, size, 0)]
      BY <2>4, <3>4, <3>5, <3>6
    <3>8. WellHeld(got.heap, cs)
      BY <1>1, <2>7, <3>2, <3>3, <3>7, MallocStep
    <3>9. QED
      BY <2>5, <3>8
  <2>8. QED
    BY <2>6, <2>7
<1>4. ASSUME NEW id \in Ids, Free(id)
      PROVE  WellHeld(heap', blocks')
  <2>1. PICK g, cs : /\ g = mm_free(heap, blocks[id].bp)
                     /\ cs = [blocks EXCEPT ![id] = None]
    OBVIOUS
  <2>2. blocks[id] # None /\ heap' = g /\ blocks' = cs
    BY <1>4, <2>1 DEF Free
  <2>3. WellHeld(g, cs)
    BY <1>1, <2>1, <2>2, FreeStep
  <2>4. QED
    BY <2>2, <2>3
<1>5. ASSUME NEW id \in Ids, Fill(id)
      PROVE  WellHeld(heap', blocks')
  <2>1. PICK b : b = blocks[id]
    OBVIOUS
  <2>2. PICK g : g = Filled(heap, b, id)
    OBVIOUS
  <2>3. PICK cs : cs = [blocks EXCEPT ![id].filled = Words(b.size)]
    OBVIOUS
  <2>4. b # None /\ heap' = g /\ blocks' = cs
    BY <1>5, <2>1, <2>2, <2>3 DEF Fill, Filled
  <2>5. InPlace(heap, U, b)
    BY <1>1, <2>1, <2>4 DEF Owned
  <2>6. Modest(b.size)
    BY <2>5 DEF InPlace, ModestSizes
  <2>7. WellHeld(g, cs)
    <3>1. blocks[id] # None /\ Modest(blocks[id].size)
      BY <2>1, <2>4, <2>6
    <3>2. QED
      BY <1>1, <2>1, <2>2, <2>3, <3>1, FillStep
  <2>8. QED
    BY <2>4, <2>7
<1>6. ASSUME Reset PROVE WellHeld(heap', blocks')
  <2>1. heap.mem \in [Units -> Word]
    BY <1>1 DEF Sound, Tagged, Heaps
  <2>2. PICK mem, head : mem = heap.mem /\ head = heap.free_list_head
    OBVIOUS
  <2>3. PICK g, cs : /\ g = mm_init(EmptyHeap(mem, head))
                     /\ cs = [id \in Ids |-> None]
    OBVIOUS
  <2>4. heap' = g /\ blocks' = cs
    BY <1>6, <2>2, <2>3 DEF Reset
  <2>5. WellHeld(g, cs)
    BY <2>1, <2>2, <2>3, StartStep
  <2>6. QED
    BY <2>4, <2>5
<1>7. CASE UNCHANGED vars
  BY <1>7 DEF vars, HeapInvariant
<1>8. CASE Next
  <2>1. WellHeld(heap', blocks')
    BY <1>2, <1>3, <1>4, <1>5, <1>6, <1>8 DEF Next
  <2>2. QED
    BY <2>1 DEF HeapInvariant
<1>9. QED
  BY <1>7, <1>8

\* In every state the heap is sound and the blocks in use are the program's:
\* the inductive invariant, for heaps, chunks and requests of any size.
THEOREM HeapStaysSound == ASSUME ModestSizes PROVE Spec => []HeapInvariant
<1>1. Init => HeapInvariant
  BY InvariantInit
<1>2. HeapInvariant /\ [Next]_vars => HeapInvariant'
  BY InvariantNext
<1>3. QED
  BY <1>1, <1>2, PTL DEF Spec

\* It says all that mm_check_heap, check_free and check_placed look for.
LEMMA InvariantConsistent ==
    ASSUME ModestSizes, HeapInvariant
    PROVE  HeapConsistent
<1>1. PICK T, U : Sound(heap, T, U) /\ Owned(heap, U, blocks)
  BY DEF HeapInvariant, WellHeld
<1>2. ConsistentHeap(heap)
  BY <1>1, SoundIsConsistent
<1>3. ASSUME NEW id \in Ids, blocks[id] # None
      PROVE  blocks[id] \in [bp : Units, size : Sizes, filled : Nat]
  <2>1. PICK b : b = blocks[id]
    OBVIOUS
  <2>2. InPlace(heap, U, b)
    BY <1>1, <1>3, <2>1 DEF Owned
  <2>3. b.bp \in Units
    <3>1. /\ b.bp \in Nat /\ b.bp % 8 = 0 /\ b.bp < heap.brk
          /\ heap.brk \in Nat /\ heap.brk <= MAX_HEAP
      BY <1>1, <2>2, InPlaceFacts
    <3>2. b.bp < MAX_HEAP
      BY <3>1, Numbers
    <3>3. QED
      BY <3>1, <3>2, UnitsAre
  <2>4. b \in [bp : Units, size : Sizes, filled : Nat]
    BY <2>2, <2>3 DEF InPlace
  <2>5. QED
    BY <2>1, <2>4
<1>4. TypeOK
  BY <1>2, <1>3 DEF TypeOK, ConsistentHeap
<1>5. QED
  BY <1>2, <1>4 DEF HeapConsistent, ConsistentHeap

\* It says that the program holds what is in use.
LEMMA InvariantHeld ==
    ASSUME ModestSizes, HeapInvariant
    PROVE  HeldExactly
<1>1. PICK T, U : Sound(heap, T, U) /\ Owned(heap, U, blocks)
  BY DEF HeapInvariant, WellHeld
<1>2. /\ Tagged(heap, T, U) /\ U \subseteq T /\ Cuts(T, heap.brk)
      /\ heap \in Heaps
  BY <1>1 DEF Sound, Tagged
<1>3. BlocksOf(heap) = T \ {heap_listp, heap.brk}
  BY <1>2, TilingIsCuts DEF BlocksOf
<1>4. ASSUME NEW bp \in T PROVE ~IsFree(heap, bp) <=> bp \in U
  <2>1. HDRP(bp) \in Units
    BY <1>2, CutWords
  <2>2. QED
    BY <1>2, <2>1, Allocs DEF Tagged
<1>5. ASSUME NEW id \in Ids, blocks[id] # None
      PROVE  /\ blocks[id].bp \in U
             /\ blocks[id].bp # heap_listp /\ blocks[id].bp # heap.brk
             /\ blocks[id].size + SIZE_T_SIZE
                    <= GET_SIZE(heap, HDRP(blocks[id].bp))
  <2>1. PICK b : b = blocks[id]
    OBVIOUS
  <2>2. InPlace(heap, U, b)
    BY <1>1, <1>5, <2>1 DEF Owned
  <2>3. PICK a, size, s : /\ a = AdjustedSize(size) /\ size = b.size
                          /\ s = SizeAt(heap, b.bp)
    OBVIOUS
  <2>4. Modest(size) /\ size \in Nat
    BY <2>2, <2>3 DEF InPlace, ModestSizes, Modest
  <2>5. a \in Nat /\ a >= size + 8
    BY <2>3, <2>4, AdjustedIs
  <2>6. s \in Nat /\ a <= s
    BY <1>1, <2>2, <2>3, InPlaceFacts DEF InPlace
  <2>7. size + 8 <= s
    BY <2>4, <2>5, <2>6
  <2>8. QED
    BY <2>1, <2>2, <2>3, <2>7 DEF InPlace, SizeAt, SIZE_T_SIZE
<1>6. PICK held : held = {blocks[id].bp : id \in {i \in Ids : blocks[i] # None}}
  OBVIOUS
<1>7. {bp \in BlocksOf(heap) : ~IsFree(heap, bp)} = held
  <2>1. ASSUME NEW bp \in BlocksOf(heap), ~IsFree(heap, bp)
        PROVE  bp \in held
    <3>1. bp \in U /\ bp # heap_listp /\ bp # heap.brk
      BY <1>3, <1>4, <2>1
    <3>2. PICK id \in Ids : blocks[id] # None /\ blocks[id].bp = bp
      BY <1>1, <3>1 DEF Owned
    <3>3. QED
      BY <1>6, <3>2
  <2>2. ASSUME NEW bp \in held
        PROVE  bp \in BlocksOf(heap) /\ ~IsFree(heap, bp)
    <3>1. PICK id \in Ids : blocks[id] # None /\ blocks[id].bp = bp
      BY <1>6
    <3>2. bp \in U /\ bp # heap_listp /\ bp # heap.brk
      BY <1>5, <3>1
    <3>3. bp \in T
      BY <1>2, <3>2
    <3>4. QED
      BY <1>3, <1>4, <3>2, <3>3
  <2>3. QED
    BY <2>1, <2>2
<1>8. \A id \in Ids : blocks[id] # None =>
        \A other \in Ids \ {id} :
            blocks[other] # None => blocks[other].bp # blocks[id].bp
  BY <1>1 DEF Owned
<1>9. QED
  BY <1>5, <1>6, <1>7, <1>8 DEF HeldExactly

\* After any calls of mm_malloc, mm_free and mm_realloc the tags, the tiling and
\* the free list of mm.c's heap agree.
THEOREM HeapIsConsistent ==
    ASSUME ModestSizes PROVE Spec => []HeapConsistent
<1>1. HeapInvariant => HeapConsistent
  BY InvariantConsistent
<1>2. QED
  BY <1>1, HeapStaysSound, PTL

\* After any calls the blocks in use are those the program holds: mm.c never
\* loses one and never hands one out twice.
THEOREM HeldIsInUse ==
    ASSUME ModestSizes PROVE Spec => []HeldExactly
<1>1. HeapInvariant => HeldExactly
  BY InvariantHeld
<1>2. QED
  BY <1>1, HeapStaysSound, PTL
-----------------------------------------------------------------------------
(* What the program sees of its blocks is what an allocator promises.        *)

LiveBlock(h, b) ==
    [addr |-> b.bp, size |-> b.size,
     data |-> [i \in 1 .. b.filled |-> GET(h, b.bp + 8 * (i - 1))]]
LiveOf(h, bs) ==
    [id \in Ids |-> IF bs[id] = None THEN None ELSE LiveBlock(h, bs[id])]

\* Where a block may lie beside the live ones.
FreePlace(l, addr, size, id) ==
    /\ addr \in Abstract!Addresses /\ addr + size <= MAX_HEAP
    /\ \A other \in Ids \ {id} :
        l[other] # None => \/ addr + size <= l[other].addr
                           \/ l[other].addr + l[other].size <= addr

\* What the program sees, as a function of heap and blocks.
LEMMA LiveIs == live = LiveOf(heap, blocks)
BY DEF live, LiveOf, LiveBlock

\* A block the program has is one it sees.
LEMMA LiveBlockIsSome ==
    ASSUME ModestSizes, NEW h, NEW T, NEW U, Sound(h, T, U), NEW b,
           InPlace(h, U, b)
    PROVE  LiveBlock(h, b) # None
<1>1. b \in [bp : Nat, size : Sizes, filled : Nat] /\ b.filled <= Words(b.size)
  BY DEF InPlace
<1>2. Modest(b.size) /\ b.size \in Nat /\ Words(b.size) \in Nat
  BY <1>1 DEF ModestSizes, Modest, Words, ALIGNMENT
<1>3. PICK n : n = b.filled
  OBVIOUS
<1>4. PICK data : data = [i \in 1 .. n |-> GET(h, b.bp + 8 * (i - 1))]
  OBVIOUS
<1>5. n \in Nat /\ n <= Words(b.size)
  BY <1>1, <1>3
<1>6. ASSUME NEW i \in 1 .. n PROVE GET(h, b.bp + 8 * (i - 1)) \in Int
  <2>1. i \in 1 .. Words(b.size)
    BY <1>2, <1>5
  <2>2. PICK a : a = b.bp + 8 * (i - 1)
    OBVIOUS
  <2>3. a \in Units
    BY <1>2, <2>1, <2>2, WordsIn
  <2>4. h.mem[a] \in Int
    BY <2>3, Numbers DEF Sound, Tagged, Heaps, Word
  <2>5. QED
    BY <2>2, <2>4 DEF GET
<1>7. data \in Seq(Int)
  <2>1. data \in [1 .. n -> Int]
    BY <1>4, <1>6
  <2>2. QED
    BY <1>5, <2>1
<1>8. LiveBlock(h, b) = [addr |-> b.bp, size |-> b.size, data |-> data]
  BY <1>3, <1>4 DEF LiveBlock
<1>9. LiveBlock(h, b) \in [addr : Nat, size : Nat, data : Seq(Int)]
  BY <1>1, <1>2, <1>7, <1>8
<1>10. QED
  BY <1>9, NoneAssumption

\* A block that is kept looks the same.
LEMMA LiveSame ==
    ASSUME ModestSizes, NEW h, NEW T, NEW U, Sound(h, T, U), NEW b,
           InPlace(h, U, b), NEW g, Kept(h, g, b.bp)
    PROVE  LiveBlock(g, b) = LiveBlock(h, b)
<1>1. b \in [bp : Nat, size : Sizes, filled : Nat] /\ b.filled <= Words(b.size)
  BY DEF InPlace
<1>2. Modest(b.size) /\ Words(b.size) \in Nat /\ b.filled \in Nat
  BY <1>1 DEF ModestSizes, Modest, Words, ALIGNMENT
<1>3. ASSUME NEW i \in 1 .. b.filled
      PROVE  GET(g, b.bp + 8 * (i - 1)) = GET(h, b.bp + 8 * (i - 1))
  <2>1. i \in 1 .. Words(b.size)
    BY <1>1, <1>2
  <2>2. PICK a : a = b.bp + 8 * (i - 1)
    OBVIOUS
  <2>3. a \in Units /\ b.bp <= a /\ a < b.bp + SizeAt(h, b.bp) - 8
    BY <1>2, <2>1, <2>2, WordsIn
  <2>4. g.mem[a] = h.mem[a]
    BY <2>3 DEF Kept
  <2>5. QED
    BY <2>2, <2>4 DEF GET
<1>4. QED
  BY <1>3 DEF LiveBlock

\* Two blocks do not overlap.
LEMMA BlocksApart ==
    ASSUME ModestSizes, NEW h, NEW T, NEW U, Sound(h, T, U),
           NEW b, InPlace(h, U, b), NEW c, InPlace(h, U, c), b.bp # c.bp
    PROVE  b.bp + b.size <= c.bp \/ c.bp + c.size <= b.bp
<1>1. ASSUME NEW x, InPlace(h, U, x)
      PROVE  /\ x.bp \in Nat /\ x.size \in Nat /\ x.bp \in T
             /\ SizeAt(h, x.bp) \in Nat /\ x.size + 8 <= SizeAt(h, x.bp)
             /\ \A t \in T : t = x.bp \/ t < x.bp
                                      \/ x.bp + SizeAt(h, x.bp) <= t
  <2>1. Modest(x.size) /\ x.size \in Nat /\ x.bp \in T
    BY <1>1 DEF InPlace, ModestSizes, Modest, Sound, Tagged
  <2>2. PICK a, s : a = AdjustedSize(x.size) /\ s = SizeAt(h, x.bp)
    OBVIOUS
  <2>3. a \in Nat /\ a >= x.size + 8
    BY <2>1, <2>2, AdjustedIs
  <2>4. a <= s
    BY <1>1, <2>2 DEF InPlace
  <2>5. /\ x.bp \in Nat /\ s \in Nat
        /\ \A t \in T : t = x.bp \/ t < x.bp \/ x.bp + s <= t
    BY <1>1, <2>2, InPlaceFacts
  <2>6. x.size + 8 <= s
    BY <2>1, <2>3, <2>4, <2>5
  <2>7. QED
    BY <2>1, <2>2, <2>5, <2>6
<1>2. PICK p, s, m : p = b.bp /\ s = SizeAt(h, b.bp) /\ m = b.size
  OBVIOUS
<1>3. PICK q, t, n : q = c.bp /\ t = SizeAt(h, c.bp) /\ n = c.size
  OBVIOUS
<1>4. /\ p \in Nat /\ m \in Nat /\ p \in T /\ s \in Nat /\ m + 8 <= s
      /\ \A x \in T : x = p \/ x < p \/ p + s <= x
  BY <1>1, <1>2
<1>5. q \in Nat /\ n \in Nat /\ q \in T /\ t \in Nat /\ n + 8 <= t
      /\ \A x \in T : x = q \/ x < q \/ q + t <= x
  BY <1>1, <1>3
<1>6. p + m <= q \/ q + n <= p
  BY <1>2, <1>3, <1>4, <1>5
<1>7. QED
  BY <1>2, <1>3, <1>6

\* What the program sees of one block changes.
Changed(l, m, id, g, b) ==
    m = [l EXCEPT ![id] = IF b = None THEN None ELSE LiveBlock(g, b)]

\* The other blocks look the same after a step.
LEMMA LiveStep ==
    ASSUME ModestSizes, NEW h, NEW T, NEW U, Sound(h, T, U), NEW bs,
           Owned(h, U, bs), NEW id \in Ids, NEW b, NEW g,
           OthersKept(h, g, bs, id), NEW cs, cs = [bs EXCEPT ![id] = b]
    PROVE  Changed(LiveOf(h, bs), LiveOf(g, cs), id, g, b)
<1>1. cs[id] = b /\ \A other \in Ids \ {id} : cs[other] = bs[other]
  BY DEF Owned
<1>2. ASSUME NEW other \in Ids \ {id}, bs[other] # None
      PROVE  LiveBlock(g, bs[other]) = LiveBlock(h, bs[other])
  <2>1. InPlace(h, U, bs[other]) /\ Kept(h, g, bs[other].bp)
    BY <1>2 DEF Owned, OthersKept
  <2>2. QED
    BY <2>1, LiveSame
<1>3. PICK v : v = IF b = None THEN None ELSE LiveBlock(g, b)
  OBVIOUS
<1>4. PICK l, m : l = LiveOf(h, bs) /\ m = LiveOf(g, cs)
  OBVIOUS
<1>5. l = [x \in Ids |-> l[x]] /\ m = [x \in Ids |-> m[x]]
  BY <1>4 DEF LiveOf
<1>6. m[id] = v
  BY <1>1, <1>3, <1>4 DEF LiveOf
<1>7. ASSUME NEW x \in Ids \ {id} PROVE m[x] = l[x]
  BY <1>1, <1>2, <1>4 DEF LiveOf
<1>8. m = [l EXCEPT ![id] = v]
  BY <1>5, <1>6, <1>7
<1>9. QED
  BY <1>3, <1>4, <1>8 DEF Changed

\* A block that got a place lies beside the others.
LEMMA PlaceStep ==
    ASSUME ModestSizes, NEW h, NEW U, NEW bs, Owned(h, U, bs), NEW id \in Ids,
           NEW b, b # None, NEW cs, cs = [bs EXCEPT ![id] = b], NEW g,
           WellHeld(g, cs)
    PROVE  FreePlace(LiveOf(h, bs), b.bp, b.size, id)
<1>1. PICK S, V : Sound(g, S, V) /\ Owned(g, V, cs)
  BY DEF WellHeld
<1>2. cs[id] = b /\ \A other \in Ids \ {id} : cs[other] = bs[other]
  BY DEF Owned
<1>3. InPlace(g, V, b)
  BY <1>1, <1>2 DEF Owned
<1>4. /\ b.bp \in Nat /\ b.bp % 8 = 0 /\ g.brk \in Nat /\ g.brk <= MAX_HEAP
      /\ SizeAt(g, b.bp) \in Nat /\ b.bp + SizeAt(g, b.bp) <= g.brk
  BY <1>1, <1>3, InPlaceFacts
<1>5. b.bp + b.size <= MAX_HEAP /\ b.size \in Nat
  <2>1. Modest(b.size) /\ b.size \in Nat
    BY <1>3 DEF InPlace, ModestSizes, Modest
  <2>2. PICK a, s : a = AdjustedSize(b.size) /\ s = SizeAt(g, b.bp)
    OBVIOUS
  <2>3. a \in Nat /\ a >= b.size + 8 /\ a <= s
    BY <1>3, <2>1, <2>2, AdjustedIs DEF InPlace
  <2>4. QED
    BY <1>4, <2>1, <2>2, <2>3, Numbers
<1>6. b.bp \in Abstract!Addresses
  <2>1. PICK p, i : p = b.bp /\ i = p \div 8
    OBVIOUS
  <2>2. p = 8 * i /\ i \in Nat /\ p <= MAX_HEAP
    <3>1. p \in Nat /\ p % 8 = 0
      BY <1>4, <2>1
    <3>2. p = 8 * (p \div 8) /\ p \div 8 \in Nat
      BY <3>1
    <3>3. p <= MAX_HEAP
      BY <1>4, <1>5, <2>1, Numbers
    <3>4. QED
      BY <2>1, <3>2, <3>3
  <2>3. i \in 0 .. MAX_HEAP \div 8
    BY <2>2, Numbers
  <2>4. QED
    BY <2>1, <2>2, <2>3 DEF Abstract!Addresses, ALIGNMENT
<1>7. ASSUME NEW other \in Ids \ {id}, LiveOf(h, bs)[other] # None
      PROVE  \/ b.bp + b.size <= LiveOf(h, bs)[other].addr
             \/ LiveOf(h, bs)[other].addr + LiveOf(h, bs)[other].size <= b.bp
  <2>1. PICK c : c = bs[other]
    OBVIOUS
  <2>2. c # None /\ LiveOf(h, bs)[other] = LiveBlock(h, c)
    BY <1>7, <2>1 DEF LiveOf
  <2>3. LiveOf(h, bs)[other].addr = c.bp /\ LiveOf(h, bs)[other].size = c.size
    BY <2>2 DEF LiveBlock
  <2>4. cs[other] = c
    BY <1>2, <2>1
  <2>5. InPlace(g, V, c) /\ b.bp # c.bp
    BY <1>1, <1>2, <2>2, <2>4 DEF Owned
  <2>6. b.bp + b.size <= c.bp \/ c.bp + c.size <= b.bp
    BY <1>1, <1>3, <2>5, BlocksApart
  <2>7. QED
    BY <2>3, <2>6
<1>8. QED
  BY <1>5, <1>6, <1>7 DEF FreePlace

\* A free place is one of the abstract allocator's.
LEMMA PlacesAre ==
    ASSUME NEW addr, NEW size, NEW id, FreePlace(live, addr, size, id)
    PROVE  addr \in Abstract!Places(size, id)
BY DEF FreePlace, Abstract!Places
-----------------------------------------------------------------------------
(* Every step of the program is one of an allocator's, or none.              *)

\* The same after a step.
LEMMA LiveNext == live' = LiveOf(heap', blocks')
BY DEF live, LiveOf, LiveBlock

\* mm_malloc allocates, or refuses.
LEMMA NewStep ==
    ASSUME ModestSizes, NEW T, NEW U, Sound(heap, T, U),
           Owned(heap, U, blocks), NEW id \in Ids, blocks[id] = None,
           NEW size \in Sizes, NEW got, got = mm_malloc(heap, size),
           heap' = got.heap,
           blocks' = IF got.bp = NULL THEN blocks
                     ELSE [blocks EXCEPT ![id] = Block(got.bp, size, 0)]
    PROVE  (Abstract!Allocate(id, size) /\ size # 0) \/ live' = live
<1>1. PICK cs : cs = IF got.bp = NULL THEN blocks
                     ELSE [blocks EXCEPT ![id] = Block(got.bp, size, 0)]
  OBVIOUS
<1>2. Modest(size)
  BY DEF ModestSizes
<1>3. /\ WellHeld(got.heap, cs) /\ OthersKept(heap, got.heap, blocks, id)
      /\ got.bp = NULL => got.heap = heap
      /\ got.bp # NULL => size # 0 /\ got.bp \in Nat
  BY <1>1, <1>2, MallocStep
<1>4. CASE got.bp = NULL
  <2>1. heap' = heap /\ blocks' = blocks
    BY <1>3, <1>4
  <2>2. QED
    BY <2>1, LiveIs, LiveNext
<1>5. CASE got.bp # NULL
  <2>1. PICK b, g : b = Block(got.bp, size, 0) /\ g = got.heap
    OBVIOUS
  <2>2. cs = [blocks EXCEPT ![id] = b] /\ b.bp = got.bp /\ b.size = size
        /\ b.filled = 0 /\ heap' = g /\ blocks' = cs
    BY <1>1, <1>5, <2>1 DEF Block
  <2>3. b # None
    <3>1. Sizes \subseteq Nat /\ got.bp \in Nat
      BY <1>3, <1>5, SizesAssumption, Numbers
    <3>2. b \in [bp : Nat, size : Nat, filled : Nat]
      BY <2>1, <3>1 DEF Block
    <3>3. QED
      BY <3>2, NoneAssumption
  <2>4. live' = [live EXCEPT ![id] = LiveBlock(g, b)]
    <3>1. OthersKept(heap, g, blocks, id)
      BY <1>3, <2>1
    <3>2. Changed(LiveOf(heap, blocks), LiveOf(g, cs), id, g, b)
      BY <2>2, <3>1, LiveStep
    <3>3. QED
      BY <2>2, <2>3, <3>2, LiveIs, LiveNext DEF Changed
  <2>5. FreePlace(live, b.bp, b.size, id)
    BY <1>3, <2>1, <2>2, <2>3, LiveIs, PlaceStep
  <2>6. b.bp \in Abstract!Places(size, id)
    BY <2>2, <2>5, PlacesAre
  <2>7. LiveBlock(g, b) = [addr |-> b.bp, size |-> size, data |-> <<>>]
    BY <2>2 DEF LiveBlock
  <2>8. live[id] = None
    BY LiveIs DEF LiveOf
  <2>9. Abstract!Allocate(id, size)
    BY <2>4, <2>6, <2>7, <2>8 DEF Abstract!Allocate
  <2>10. QED
    BY <1>3, <1>5, <2>9
<1>6. QED
  BY <1>4, <1>5

\* mm_realloc resizes, releases, or refuses.
LEMMA ResizedStep ==
    ASSUME ModestSizes, NEW T, NEW U, Sound(heap, T, U),
           Owned(heap, U, blocks), NEW id \in Ids, blocks[id] # None,
           NEW size \in Sizes, NEW old, old = blocks[id],
           NEW got, got = mm_realloc(heap, old.bp, size), NEW kept,
           kept = IF Words(size) < old.filled THEN Words(size) ELSE old.filled,
           NEW cs, cs = IF size = 0 THEN [blocks EXCEPT ![id] = None]
                        ELSE IF got.bp = NULL THEN blocks
                        ELSE [blocks EXCEPT ![id] = Block(got.bp, size, kept)],
           heap' = got.heap, blocks' = cs
    PROVE  \/ Abstract!Release(id)
           \/ (Abstract!Resize(id, size) /\ size # 0)
           \/ live' = live
<1>1. /\ WellHeld(got.heap, cs) /\ OthersKept(heap, got.heap, blocks, id)
      /\ Resizing(heap, got, old, size, kept)
  BY ResizeStep DEF ModestSizes
<1>2. InPlace(heap, U, old)
  BY DEF Owned
<1>3. live[id] = LiveBlock(heap, old)
  BY LiveIs DEF LiveOf
<1>4. live[id] # None
  BY <1>2, <1>3, LiveBlockIsSome
<1>5. CASE size = 0
  <2>1. cs = [blocks EXCEPT ![id] = None]
    BY <1>5
  <2>2. LiveOf(got.heap, cs) = [LiveOf(heap, blocks) EXCEPT ![id] = None]
    <3>1. PICK g : g = got.heap
      OBVIOUS
    <3>2. OthersKept(heap, g, blocks, id)
      BY <1>1, <3>1
    <3>3. Changed(LiveOf(heap, blocks), LiveOf(g, cs), id, g, None)
      BY <2>1, <3>2, LiveStep
    <3>4. QED
      BY <3>1, <3>3 DEF Changed
  <2>3. live' = [live EXCEPT ![id] = None]
    BY <2>2, LiveIs, LiveNext
  <2>4. QED
    BY <1>4, <2>3 DEF Abstract!Release
<1>6. CASE size # 0 /\ got.bp = NULL
  <2>1. heap' = heap /\ blocks' = blocks
    BY <1>1, <1>6 DEF Resizing
  <2>2. QED
    BY <2>1, LiveIs, LiveNext
<1>7. CASE size # 0 /\ got.bp # NULL
  <2>1. PICK b, g : b = Block(got.bp, size, kept) /\ g = got.heap
    OBVIOUS
  <2>2. cs = [blocks EXCEPT ![id] = b] /\ b.bp = got.bp /\ b.size = size
        /\ b.filled = kept /\ heap' = g /\ blocks' = cs
    BY <1>7, <2>1 DEF Block
  <2>3. /\ Words(size) \in Nat /\ old.filled \in Nat /\ kept \in Nat
        /\ kept <= old.filled /\ kept <= Words(size) /\ old.bp \in Nat
        /\ old.bp # NULL
    <3>1. Modest(size)
      BY DEF ModestSizes
    <3>2. Words(size) \in Nat
      BY <3>1 DEF Words, ALIGNMENT, Modest
    <3>3. old.filled \in Nat /\ old.bp \in Nat /\ old.bp >= 24
      BY <1>2, InPlaceFacts DEF InPlace
    <3>4. QED
      BY <3>2, <3>3 DEF NULL
  <2>4. b # None
    <3>1. got.bp \in Nat
      BY <1>1, <1>7 DEF Resizing
    <3>2. Sizes \subseteq Nat
      BY SizesAssumption, Numbers
    <3>3. b \in [bp : Nat, size : Nat, filled : Nat]
      BY <2>1, <2>3, <3>1, <3>2 DEF Block
    <3>4. QED
      BY <3>3, NoneAssumption
  <2>5. live' = [live EXCEPT ![id] = LiveBlock(g, b)]
    <3>1. OthersKept(heap, g, blocks, id)
      BY <1>1, <2>1
    <3>2. Changed(LiveOf(heap, blocks), LiveOf(g, cs), id, g, b)
      BY <2>2, <3>1, LiveStep
    <3>3. QED
      BY <2>2, <2>4, <3>2, LiveIs, LiveNext DEF Changed
  <2>6. FreePlace(live, b.bp, b.size, id)
    BY <1>1, <2>1, <2>2, <2>4, LiveIs, PlaceStep
  <2>7. b.bp \in Abstract!Places(size, id)
    BY <2>2, <2>6, PlacesAre
  <2>8. LiveBlock(g, b) = [addr |-> b.bp, size |-> size,
                           data |-> Abstract!Kept(live[id], size)]
    <3>1. PICK data : data = [i \in 1 .. old.filled |->
                                GET(heap, old.bp + 8 * (i - 1))]
      OBVIOUS
    <3>2. live[id].data = data /\ DOMAIN data = 1 .. old.filled
      BY <1>3, <3>1 DEF LiveBlock
    <3>3. PICK words : words = Abstract!WordsOf(size)
      OBVIOUS
    <3>4. words = Words(size)
      BY <3>3 DEF Abstract!WordsOf, Words
    <3>5. {j \in 1 .. old.filled : j <= words} = 1 .. kept
      BY <2>3, <3>4
    <3>6. Abstract!Kept(live[id], size) = [i \in 1 .. kept |-> data[i]]
      BY <3>2, <3>3, <3>5 DEF Abstract!Kept
    <3>7. ASSUME NEW i \in 1 .. kept
          PROVE  GET(g, b.bp + 8 * (i - 1)) = data[i]
      <4>1. g.mem[b.bp + 8 * (i - 1)] = heap.mem[old.bp + 8 * (i - 1)]
        <5>1. got.heap.mem[got.bp + 8 * (i - 1)]
                = heap.mem[old.bp + 8 * (i - 1)]
          BY <1>1, <1>7, <2>3 DEF Resizing
        <5>2. QED
          BY <2>1, <2>2, <5>1
      <4>2. data[i] = GET(heap, old.bp + 8 * (i - 1))
        BY <2>3, <3>1
      <4>3. QED
        BY <4>1, <4>2 DEF GET
    <3>8. [i \in 1 .. kept |-> GET(g, b.bp + 8 * (i - 1))]
            = [i \in 1 .. kept |-> data[i]]
      BY <3>7
    <3>9. QED
      BY <2>2, <3>6, <3>8 DEF LiveBlock
  <2>9. Abstract!Resize(id, size)
    BY <1>4, <2>5, <2>7, <2>8 DEF Abstract!Resize
  <2>10. QED
    BY <1>7, <2>9
<1>8. QED
  BY <1>5, <1>6, <1>7

\* mm_free releases.
LEMMA FreedStep ==
    ASSUME ModestSizes, NEW T, NEW U, Sound(heap, T, U),
           Owned(heap, U, blocks), NEW id \in Ids, Free(id)
    PROVE  Abstract!Release(id)
<1>1. PICK g, cs : /\ g = mm_free(heap, blocks[id].bp)
                   /\ cs = [blocks EXCEPT ![id] = None]
  OBVIOUS
<1>2. blocks[id] # None /\ heap' = g /\ blocks' = cs
  BY <1>1 DEF Free
<1>3. OthersKept(heap, g, blocks, id)
  BY <1>1, <1>2, FreeStep
<1>4. Changed(LiveOf(heap, blocks), LiveOf(g, cs), id, g, None)
  BY <1>1, <1>3, LiveStep
<1>5. live' = [live EXCEPT ![id] = None]
  BY <1>2, <1>4, LiveIs, LiveNext DEF Changed
<1>6. InPlace(heap, U, blocks[id])
  BY <1>2 DEF Owned
<1>7. live[id] # None
  BY <1>2, <1>6, LiveBlockIsSome, LiveIs DEF LiveOf
<1>8. QED
  BY <1>5, <1>7 DEF Abstract!Release

\* The program writes.
LEMMA FilledStep ==
    ASSUME ModestSizes, NEW T, NEW U, Sound(heap, T, U),
           Owned(heap, U, blocks), NEW id \in Ids, Fill(id)
    PROVE  Abstract!Write(id)
<1>1. PICK b : b = blocks[id]
  OBVIOUS
<1>2. PICK g, cs : /\ g = Filled(heap, b, id)
                   /\ cs = [blocks EXCEPT ![id].filled = Words(b.size)]
  OBVIOUS
<1>3. b # None /\ heap' = g /\ blocks' = cs
  BY <1>1, <1>2 DEF Fill, Filled
<1>4. InPlace(heap, U, b)
  BY <1>1, <1>3 DEF Owned
<1>5. Modest(b.size) /\ b.size \in Nat /\ Words(b.size) \in Nat
  BY <1>4 DEF InPlace, ModestSizes, Modest, Words, ALIGNMENT
<1>6. OthersKept(heap, g, blocks, id)
  <2>1. blocks[id] # None /\ Modest(blocks[id].size)
    BY <1>1, <1>3, <1>5
  <2>2. QED
    BY <1>1, <1>2, <2>1, FillStep
<1>7. PICK c : c = Block(b.bp, b.size, Words(b.size))
  OBVIOUS
<1>8. cs = [blocks EXCEPT ![id] = c]
  <2>1. b = Block(b.bp, b.size, b.filled)
    BY <1>4 DEF InPlace, Block
  <2>2. cs = [blocks EXCEPT ![id] = [b EXCEPT !.filled = Words(b.size)]]
    BY <1>1, <1>2
  <2>3. [b EXCEPT !.filled = Words(b.size)] = c
    BY <1>7, <2>1 DEF Block
  <2>4. QED
    BY <2>2, <2>3
<1>9. c # None
  <2>1. Sizes \subseteq Nat
    BY SizesAssumption, Numbers
  <2>2. c \in [bp : Nat, size : Nat, filled : Nat]
    BY <1>4, <1>5, <1>7, <2>1 DEF InPlace, Block
  <2>3. QED
    BY <2>2, NoneAssumption
<1>10. live' = [live EXCEPT ![id] = LiveBlock(g, c)]
  <2>1. Changed(LiveOf(heap, blocks), LiveOf(g, cs), id, g, c)
    BY <1>6, <1>8, LiveStep
  <2>2. QED
    BY <1>3, <1>9, <2>1, LiveIs, LiveNext DEF Changed
<1>11. PICK old : old = LiveBlock(heap, b)
  OBVIOUS
<1>12. live[id] = old /\ old # None
  BY <1>1, <1>3, <1>4, <1>11, LiveBlockIsSome, LiveIs DEF LiveOf
<1>13. PICK data : data = [i \in 1 .. Words(b.size) |-> id]
  OBVIOUS
<1>14. LiveBlock(g, c) = [addr |-> b.bp, size |-> b.size, data |-> data]
  <2>1. ASSUME NEW i \in 1 .. Words(b.size)
        PROVE  GET(g, b.bp + 8 * (i - 1)) = id
    <3>1. PICK a : a = b.bp + 8 * (i - 1)
      OBVIOUS
    <3>2. a \in Units /\ a \in b.bp .. b.bp + b.size - 1
      BY <1>4, <1>5, <3>1, WordsIn
    <3>3. heap \in Heaps
      BY DEF Sound, Tagged
    <3>4. PICK mem : mem = [p \in Units |->
                                IF p \in b.bp .. b.bp + b.size - 1
                                THEN id ELSE heap.mem[p]]
      OBVIOUS
    <3>5. g.mem = mem
      BY <1>2, <3>3, <3>4 DEF Filled, Heaps
    <3>6. g.mem[a] = id
      BY <3>2, <3>4, <3>5
    <3>7. QED
      BY <3>1, <3>6 DEF GET
  <2>2. [i \in 1 .. Words(b.size) |-> GET(g, b.bp + 8 * (i - 1))] = data
    BY <1>13, <2>1
  <2>3. QED
    BY <1>7, <2>2 DEF LiveBlock, Block
<1>15. live' = [live EXCEPT ![id].data = data]
  <2>1. LiveBlock(g, c) = [old EXCEPT !.data = data]
    BY <1>11, <1>14 DEF LiveBlock
  <2>2. QED
    BY <1>10, <1>12, <2>1
<1>16. [i \in 1 .. Abstract!WordsOf(live[id].size) |-> id] = data
  <2>1. live[id].size = b.size
    BY <1>11, <1>12 DEF LiveBlock
  <2>2. QED
    BY <1>13, <2>1 DEF Abstract!WordsOf, Words
<1>17. QED
  BY <1>12, <1>15, <1>16 DEF Abstract!Write

\* A program that starts again sees nothing.
LEMMA NobodyLives ==
    ASSUME blocks' = [id \in Ids |-> None] PROVE live' = [id \in Ids |-> None]
BY DEF live

\* Every step is a step of the abstract allocator, or none.
LEMMA StepRefines ==
    ASSUME ModestSizes, HeapInvariant, [Next]_vars
    PROVE  [Abstract!AllocatorNext]_live
<1>1. PICK T, U : Sound(heap, T, U) /\ Owned(heap, U, blocks)
  BY DEF HeapInvariant, WellHeld
<1>2. ASSUME NEW id \in Ids, NEW size \in Sizes, Malloc(id, size)
      PROVE  Abstract!AllocatorNext \/ live' = live
  <2>1. PICK got : got = mm_malloc(heap, size)
    OBVIOUS
  <2>2. /\ blocks[id] = None /\ heap' = got.heap
        /\ blocks' = IF got.bp = NULL THEN blocks
                     ELSE [blocks EXCEPT ![id] = Block(got.bp, size, 0)]
    BY <1>2, <2>1 DEF Malloc, Given
  <2>3. (Abstract!Allocate(id, size) /\ size # 0) \/ live' = live
    BY <1>1, <2>1, <2>2, NewStep
  <2>4. QED
    BY <2>3 DEF Abstract!AllocatorNext
<1>3. ASSUME NEW id \in Ids, NEW size \in Sizes, Realloc(id, size)
      PROVE  Abstract!AllocatorNext \/ live' = live
  <2>1. PICK old : old = IF blocks[id] = None THEN Block(NULL, 0, 0)
                         ELSE blocks[id]
    OBVIOUS
  <2>2. PICK got : got = mm_realloc(heap, old.bp, size)
    OBVIOUS
  <2>3. PICK kept : kept = IF Words(size) < old.filled THEN Words(size)
                           ELSE old.filled
    OBVIOUS
  <2>4. PICK cs : cs = IF size = 0 THEN [blocks EXCEPT ![id] = None]
                       ELSE IF got.bp = NULL THEN blocks
                       ELSE [blocks EXCEPT ![id] = Block(got.bp, size, kept)]
    OBVIOUS
  <2>5. heap' = got.heap /\ blocks' = cs
    BY <1>3, <2>1, <2>2, <2>3, <2>4 DEF Realloc, Resized
  <2>6. CASE blocks[id] # None
    <3>1. old = blocks[id]
      BY <2>1, <2>6
    <3>2. \/ Abstract!Release(id)
          \/ (Abstract!Resize(id, size) /\ size # 0)
          \/ live' = live
      BY <1>1, <2>2, <2>3, <2>4, <2>5, <2>6, <3>1, ResizedStep
    <3>3. QED
      BY <3>2 DEF Abstract!AllocatorNext
  <2>7. CASE blocks[id] = None
    <3>1. old.bp = NULL /\ old.filled = 0
      BY <2>1, <2>7 DEF Block
    <3>2. got = mm_malloc(heap, size)
      BY <2>2, <3>1 DEF mm_realloc
    <3>3. Modest(size)
      BY DEF ModestSizes
    <3>4. size = 0 => got.bp = NULL
      BY <3>2 DEF mm_malloc
    <3>5. kept = 0
      <4>1. Words(size) \in Nat
        BY <3>3 DEF Words, ALIGNMENT, Modest
      <4>2. QED
        BY <2>3, <3>1, <4>1
    <3>6. blocks = [blocks EXCEPT ![id] = None]
      BY <1>1, <2>7 DEF Owned
    <3>7. cs = IF got.bp = NULL THEN blocks
               ELSE [blocks EXCEPT ![id] = Block(got.bp, size, 0)]
      BY <2>4, <3>4, <3>5, <3>6
    <3>8. (Abstract!Allocate(id, size) /\ size # 0) \/ live' = live
      BY <1>1, <2>5, <2>7, <3>2, <3>7, NewStep
    <3>9. QED
      BY <3>8 DEF Abstract!AllocatorNext
  <2>8. QED
    BY <2>6, <2>7
<1>4. ASSUME NEW id \in Ids, Free(id) PROVE Abstract!AllocatorNext
  BY <1>1, <1>4, FreedStep DEF Abstract!AllocatorNext
<1>5. ASSUME NEW id \in Ids, Fill(id) PROVE Abstract!AllocatorNext
  BY <1>1, <1>5, FilledStep DEF Abstract!AllocatorNext
<1>6. ASSUME Reset PROVE Abstract!AllocatorNext
  BY <1>6, NobodyLives DEF Reset, Abstract!AllocatorNext, Abstract!StartAgain
<1>7. CASE UNCHANGED vars
  BY <1>7, LiveIs, LiveNext DEF vars
<1>8. CASE Next
  BY <1>2, <1>3, <1>4, <1>5, <1>6, <1>8 DEF Next
<1>9. QED
  BY <1>7, <1>8

\* mm.c's allocator implements the abstract one: aligned, disjoint blocks in the
\* heap whose contents only the program changes, and which realloc takes along.
THEOREM AllocatorImplemented ==
    ASSUME ModestSizes PROVE Spec => RefinesAllocator
<1>1. Init => Abstract!AllocatorInit
  BY DEF Init, live, Abstract!AllocatorInit
<1>2. HeapInvariant /\ [Next]_vars => [Abstract!AllocatorNext]_live
  BY StepRefines
<1>3. QED
  BY <1>1, <1>2, HeapStaysSound, PTL
  DEF Spec, RefinesAllocator, Abstract!AllocatorSpec
=============================================================================
