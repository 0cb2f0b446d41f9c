---------------------------- MODULE MdriverProofs ---------------------------
(***************************************************************************)
(* Proofs about the driver that evaluates the allocator of malloclab: that *)
(* no pass over a trace after the first meets an error, since two heaps    *)
(* that agree in what the allocator reads (Alike) get the same answers;    *)
(* and that its figures are right: the best samples (Sampled), the space   *)
(* that is taken (Taken) and the index (Scored).                           *)
(***************************************************************************)
EXTENDS Mdriver, MmProofs
-----------------------------------------------------------------------------
(* The driver's first pass: its range list.                                  *)

\* The extents of the blocks X, each of them once.
Exact(list, bs, X) ==
    /\ list \in Seq([lo : Int, hi : Int])
    /\ \A id \in X : \E i \in DOMAIN list : list[i] = Extent(bs[id])
    /\ \A i \in DOMAIN list : \E id \in X : list[i] = Extent(bs[id])
    /\ \A i, j \in DOMAIN list : list[i].lo = list[j].lo => i = j

\* What is said of a list depends on where the blocks are only.
LEMMA ExactSame ==
    ASSUME NEW list, NEW bs, NEW X, Exact(list, bs, X), NEW cs,
           \A id \in X : cs[id].bp = bs[id].bp /\ cs[id].size = bs[id].size
    PROVE  Exact(list, cs, X)
<1>1. \A id \in X : Extent(cs[id]) = Extent(bs[id])
  BY DEF Extent
<1>2. QED
  BY <1>1 DEF Exact

\* A block that is freed or moved leaves the list.
LEMMA RemoveExact ==
    ASSUME NEW list, NEW bs, NEW X, Exact(list, bs, X), NEW id \in X,
           \A other \in X : other # id => bs[other].bp # bs[id].bp,
           NEW left, left = remove_range(list, bs[id].bp)
    PROVE  Exact(left, bs, X \ {id})
<1>1. PICK lo : lo = bs[id].bp
  OBVIOUS
<1>2. PICK found : found = {i \in DOMAIN list : list[i].lo = lo}
  OBVIOUS
<1>3. PICK n \in DOMAIN list : list[n] = Extent(bs[id])
  BY DEF Exact
<1>4. list[n].lo = lo
  BY <1>1, <1>3 DEF Extent
<1>5. found = {n}
  BY <1>2, <1>3, <1>4 DEF Exact
<1>6. n \in Int
  BY <1>3 DEF Exact
<1>7. left = RemoveAt(list, n)
  <2>1. (CHOOSE i \in {n} : \A j \in {n} : i <= j) = n
    BY <1>6
  <2>2. QED
    BY <1>1, <1>2, <1>5, <2>1 DEF remove_range
<1>8. PICK m : m = Len(list)
  OBVIOUS
<1>9. /\ list \in Seq([lo : Int, hi : Int]) /\ m \in Nat
      /\ DOMAIN list = 1 .. m /\ n \in 1 .. m
  BY <1>3, <1>8 DEF Exact
<1>17. m \in Nat /\ n \in 1 .. m /\ n \in Int
  BY <1>9
<1>18. ASSUME NEW i \in 1 .. m PROVE list[i] \in [lo : Int, hi : Int]
  <2>1. PICK D : D = [lo : Int, hi : Int]
    OBVIOUS
  <2>2. list \in Seq(D) /\ i \in 1 .. Len(list)
    BY <1>8, <1>9, <2>1
  <2>3. list[i] \in D
    BY <2>2, ElementOfSeq
  <2>4. QED
    BY <2>1, <2>3
<1>19. \A k, l \in DOMAIN list : list[k].lo = list[l].lo => k = l
  BY DEF Exact
<1>10. /\ left \in Seq([lo : Int, hi : Int]) /\ DOMAIN left = 1 .. m - 1
       /\ \A i \in 1 .. m - 1 :
            left[i] = IF i < n THEN list[i] ELSE list[i + 1]
  <2>1. left = SubSeq(list, 1, n - 1) \o SubSeq(list, n + 1, m)
    BY <1>7, <1>8 DEF RemoveAt
  <2>2. PICK s, t : s = SubSeq(list, 1, n - 1) /\ t = SubSeq(list, n + 1, m)
    OBVIOUS
  <2>3. /\ s \in Seq([lo : Int, hi : Int]) /\ Len(s) = n - 1
        /\ \A i \in 1 .. n - 1 : s[i] = list[i]
    <3>1. ASSUME NEW i \in 1 .. n - 1 PROVE list[i] \in [lo : Int, hi : Int]
      <4>1. i \in 1 .. m
        BY <1>17
      <4>2. QED
        BY <1>18, <4>1
    <3>2. n - 1 \in Int /\ 1 \in Int /\ n \in Int
      BY <1>9
    <3>3. /\ s \in Seq([lo : Int, hi : Int])
          /\ Len(s) = IF 1 <= n - 1 THEN (n - 1) - 1 + 1 ELSE 0
          /\ \A i \in 1 .. (n - 1) - 1 + 1 : s[i] = list[1 + i - 1]
      BY <2>2, <3>1, <3>2, SubSeqProperties
    <3>4. ASSUME NEW i \in 1 .. n - 1
          PROVE  i \in 1 .. (n - 1) - 1 + 1 /\ 1 + i - 1 = i
      BY <3>2
    <3>5. Len(s) = n - 1
      BY <1>9, <3>3
    <3>6. QED
      BY <3>3, <3>4, <3>5
  <2>4. /\ t \in Seq([lo : Int, hi : Int]) /\ Len(t) = m - n
        /\ \A i \in 1 .. m - n : t[i] = list[n + i]
    <3>1. ASSUME NEW i \in n + 1 .. m PROVE list[i] \in [lo : Int, hi : Int]
      <4>1. i \in 1 .. m
        BY <1>17
      <4>2. QED
        BY <1>18, <4>1
    <3>2. n + 1 \in Int /\ m \in Int /\ n \in Int
      BY <1>9
    <3>3. /\ t \in Seq([lo : Int, hi : Int])
          /\ Len(t) = IF n + 1 <= m THEN m - (n + 1) + 1 ELSE 0
          /\ \A i \in 1 .. m - (n + 1) + 1 : t[i] = list[(n + 1) + i - 1]
      BY <2>2, <3>1, <3>2, SubSeqProperties
    <3>4. ASSUME NEW i \in 1 .. m - n
          PROVE  i \in 1 .. m - (n + 1) + 1 /\ (n + 1) + i - 1 = n + i
      BY <3>2
    <3>5. Len(t) = m - n
      BY <1>9, <3>3
    <3>6. QED
      BY <3>3, <3>4, <3>5
  <2>5. left = s \o t
    BY <2>1, <2>2
  <2>6. left \in Seq([lo : Int, hi : Int]) /\ Len(left) = m - 1
    BY <1>9, <2>3, <2>4, <2>5
  <2>7. ASSUME NEW i \in 1 .. m - 1
        PROVE  left[i] = IF i < n THEN list[i] ELSE list[i + 1]
    <3>1. CASE i < n
      BY <1>9, <2>3, <2>4, <2>5, <3>1
    <3>2. CASE ~(i < n)
      <4>1. /\ i - (n - 1) \in 1 .. m - n /\ n + (i - (n - 1)) = i + 1
            /\ i > n - 1 /\ i \in 1 .. (n - 1) + (m - n)
        BY <1>17, <3>2
      <4>2. left[i] = t[i - (n - 1)]
        <5>1. PICK D : D = [lo : Int, hi : Int]
          OBVIOUS
        <5>2. s \in Seq(D) /\ t \in Seq(D)
          BY <2>3, <2>4, <5>1
        <5>3. \A k \in 1 .. Len(s) + Len(t) :
                (s \o t)[k] = IF k <= Len(s) THEN s[k] ELSE t[k - Len(s)]
          BY <5>2, ConcatProperties
        <5>4. i \in 1 .. Len(s) + Len(t)
          BY <2>3, <2>4, <4>1
        <5>5. left[i] = IF i <= Len(s) THEN s[i] ELSE t[i - Len(s)]
          BY <2>5, <5>3, <5>4
        <5>6. Len(s) = n - 1 /\ ~(i <= n - 1)
          BY <1>17, <2>3, <4>1
        <5>7. QED
          BY <5>5, <5>6
      <4>3. t[i - (n - 1)] = list[n + (i - (n - 1))]
        BY <2>4, <4>1
      <4>4. QED
        BY <3>2, <4>1, <4>2, <4>3
    <3>3. QED
      BY <3>1, <3>2
  <2>8. QED
    BY <1>9, <2>6, <2>7
<1>11. PICK where : where = [i \in 1 .. m - 1 |-> IF i < n THEN i ELSE i + 1]
  OBVIOUS
<1>12. /\ \A i \in DOMAIN left : /\ where[i] \in DOMAIN list /\ where[i] # n
                                 /\ left[i] = list[where[i]]
       /\ \A i, j \in DOMAIN left : where[i] = where[j] => i = j
       /\ \A k \in DOMAIN list : k # n => \E i \in DOMAIN left : where[i] = k
  <2>1. ASSUME NEW i \in 1 .. m - 1
        PROVE  /\ where[i] \in 1 .. m /\ where[i] # n
               /\ left[i] = list[where[i]]
    <3>1. where[i] = IF i < n THEN i ELSE i + 1
      BY <1>11
    <3>2. left[i] = list[where[i]]
      BY <1>10, <3>1
    <3>3. where[i] \in 1 .. m /\ where[i] # n
      BY <1>17, <3>1
    <3>4. QED
      BY <3>2, <3>3
  <2>2. ASSUME NEW i \in 1 .. m - 1, NEW j \in 1 .. m - 1, where[i] = where[j]
        PROVE  i = j
    <3>1. /\ where[i] = IF i < n THEN i ELSE i + 1
          /\ where[j] = IF j < n THEN j ELSE j + 1
      BY <1>11
    <3>2. (IF i < n THEN i ELSE i + 1) = (IF j < n THEN j ELSE j + 1)
      BY <2>2, <3>1
    <3>3. i \in Int /\ j \in Int /\ n \in Int
      BY <1>17
    <3>4. QED
      BY <3>2, <3>3
  <2>3. ASSUME NEW k \in 1 .. m, k # n
        PROVE  \E i \in 1 .. m - 1 : where[i] = k
    <3>1. PICK i : i = IF k < n THEN k ELSE k - 1
      OBVIOUS
    <3>2. i \in 1 .. m - 1 /\ k = IF i < n THEN i ELSE i + 1
      BY <1>17, <2>3, <3>1
    <3>3. QED
      BY <1>11, <3>2
  <2>4. QED
    BY <1>9, <1>10, <2>1, <2>2, <2>3
<1>13. ASSUME NEW other \in X \ {id}
       PROVE  \E i \in DOMAIN left : left[i] = Extent(bs[other])
  <2>1. PICK k \in DOMAIN list : list[k] = Extent(bs[other])
    BY DEF Exact
  <2>2. list[k].lo # lo
    BY <1>1, <2>1 DEF Extent
  <2>3. QED
    BY <1>4, <1>12, <2>1, <2>2
<1>14. ASSUME NEW i \in DOMAIN left
       PROVE  \E other \in X \ {id} : left[i] = Extent(bs[other])
  <2>1. where[i] \in DOMAIN list /\ where[i] # n /\ left[i] = list[where[i]]
    BY <1>12
  <2>2. PICK other \in X : list[where[i]] = Extent(bs[other])
    BY <2>1 DEF Exact
  <2>3. left[i].lo # lo
    BY <1>3, <1>4, <2>1 DEF Exact
  <2>4. other # id
    BY <1>1, <2>1, <2>2, <2>3 DEF Extent
  <2>5. QED
    BY <2>1, <2>2, <2>4
<1>15. ASSUME NEW i \in DOMAIN left, NEW j \in DOMAIN left,
              left[i].lo = left[j].lo
       PROVE  i = j
  <2>1. list[where[i]].lo = list[where[j]].lo
    BY <1>12, <1>15
  <2>2. where[i] = where[j]
    BY <1>12, <1>19, <2>1
  <2>3. QED
    BY <1>12, <2>2
<1>16. QED
  BY <1>10, <1>13, <1>14, <1>15 DEF Exact

\* A new block enters it.
LEMMA AddExact ==
    ASSUME NEW list, NEW bs, NEW X, Exact(list, bs, X), NEW id, id \notin X,
           bs[id].bp \in Int, bs[id].size \in Int,
           \A other \in X : bs[other].bp # bs[id].bp,
           NEW more, more = add_range(list, bs[id].bp, bs[id].size)
    PROVE  Exact(more, bs, X \cup {id})
<1>1. PICK e : e = Extent(bs[id])
  OBVIOUS
<1>2. /\ e \in [lo : Int, hi : Int] /\ e.lo = bs[id].bp /\ more = <<e>> \o list
      /\ list \in Seq([lo : Int, hi : Int])
  BY <1>1 DEF Extent, add_range, Exact
<1>3. PICK m : m = Len(list)
  OBVIOUS
<1>4. /\ m \in Nat /\ DOMAIN list = 1 .. m /\ DOMAIN more = 1 .. m + 1
      /\ more \in Seq([lo : Int, hi : Int]) /\ more[1] = e
      /\ \A i \in 1 .. m : more[i + 1] = list[i]
  BY <1>2, <1>3
<1>11. m \in Nat
  BY <1>4
<1>5. ASSUME NEW k \in 1 .. m + 1, k # 1
      PROVE  k - 1 \in 1 .. m /\ more[k] = list[k - 1]
  <2>1. k - 1 \in 1 .. m /\ (k - 1) + 1 = k
    BY <1>5, <1>11
  <2>2. QED
    BY <1>4, <2>1
<1>6. \A i \in DOMAIN list : list[i].lo # e.lo
  <2>1. ASSUME NEW i \in DOMAIN list PROVE list[i].lo # e.lo
    <3>1. PICK other \in X : list[i] = Extent(bs[other])
      BY DEF Exact
    <3>2. QED
      BY <1>2, <3>1 DEF Extent
  <2>2. QED
    BY <2>1
<1>7. ASSUME NEW other \in X \cup {id}
      PROVE  \E i \in DOMAIN more : more[i] = Extent(bs[other])
  <2>1. CASE other = id
    <3>1. 1 \in 1 .. m + 1
      BY <1>11
    <3>2. QED
      BY <1>1, <1>4, <2>1, <3>1
  <2>2. CASE other \in X
    <3>1. PICK i \in DOMAIN list : list[i] = Extent(bs[other])
      BY <2>2 DEF Exact
    <3>2. i \in 1 .. m
      BY <1>4
    <3>3. i + 1 \in 1 .. m + 1
      BY <1>11, <3>2
    <3>4. QED
      BY <1>4, <3>1, <3>2, <3>3
  <2>3. QED
    BY <2>1, <2>2
<1>8. ASSUME NEW i \in DOMAIN more
      PROVE  \E other \in X \cup {id} : more[i] = Extent(bs[other])
  <2>1. CASE i = 1
    BY <1>1, <1>4, <2>1
  <2>2. CASE i # 1
    <3>1. i - 1 \in DOMAIN list /\ more[i] = list[i - 1]
      BY <1>4, <1>5, <2>2
    <3>2. QED
      BY <3>1 DEF Exact
  <2>3. QED
    BY <2>1, <2>2
<1>9. ASSUME NEW i \in DOMAIN more, NEW j \in DOMAIN more,
             more[i].lo = more[j].lo
      PROVE  i = j
  <2>1. ASSUME NEW k \in DOMAIN more, k # 1
        PROVE  k - 1 \in DOMAIN list /\ more[k] = list[k - 1]
    BY <1>4, <1>5, <2>1
  <2>2. CASE i = 1 \/ j = 1
    BY <1>4, <1>6, <1>9, <2>1, <2>2, ZenonT(60)
  <2>3. CASE i # 1 /\ j # 1
    <3>1. i - 1 = j - 1
      BY <1>9, <2>1, <2>3 DEF Exact
    <3>2. i \in 1 .. m + 1 /\ j \in 1 .. m + 1
      BY <1>4
    <3>3. QED
      BY <1>11, <3>1, <3>2
  <2>4. QED
    BY <2>2, <2>3
<1>10. QED
  BY <1>4, <1>7, <1>8, <1>9 DEF Exact

\* A new block has nothing the driver would object to.
LEMMA RangeIsGood ==
    ASSUME ModestSizes, NEW h, NEW cs, WellHeld(h, cs),
           NEW id \in Ids, cs[id] # None, NEW list, NEW X, Exact(list, cs, X),
           X \subseteq Ids \ {id}, \A other \in X : cs[other] # None
    PROVE  RangeError(h, list, cs[id].bp, cs[id].size) = None
<1>1. PICK T, U : Sound(h, T, U) /\ Owned(h, U, cs)
  BY DEF WellHeld
<1>2. ASSUME NEW other \in Ids, cs[other] # None,
             NEW p, p = cs[other].bp, NEW size, size = cs[other].size
      PROVE  /\ p \in Nat /\ p % 8 = 0 /\ p >= 24 /\ size \in Nat /\ size > 0
             /\ p + SizeAt(h, p) <= h.brk /\ h.brk \in Nat /\ p \in T
             /\ SizeAt(h, p) \in Nat /\ size + 8 <= SizeAt(h, p)
             /\ \A t \in T : t = p \/ t < p \/ p + SizeAt(h, p) <= t
  <2>1. PICK b : b = cs[other]
    OBVIOUS
  <2>2. InPlace(h, U, b)
    BY <1>1, <1>2, <2>1 DEF Owned
  <2>3. PICK a, s : a = AdjustedSize(size) /\ s = SizeAt(h, p)
    OBVIOUS
  <2>4. Modest(size) /\ size \in Nat /\ size # 0
    BY <1>2, <2>1, <2>2 DEF InPlace, ModestSizes, Modest
  <2>5. a \in Nat /\ a >= size + 8
    BY <2>3, <2>4, AdjustedIs
  <2>6. /\ p \in Nat /\ p % 8 = 0 /\ p >= 24 /\ p + s <= h.brk
        /\ h.brk \in Nat /\ s \in Nat /\ a <= s
        /\ \A t \in T : t = p \/ t < p \/ p + s <= t
    BY <1>1, <1>2, <2>1, <2>2, <2>3, InPlaceFacts DEF InPlace
  <2>7. p \in T
    BY <1>1, <1>2, <2>1, <2>2 DEF InPlace, Sound, Tagged
  <2>8. size + 8 <= s /\ size > 0
    BY <2>4, <2>5, <2>6
  <2>9. QED
    BY <2>3, <2>4, <2>6, <2>7, <2>8
<1>3. PICK p, size, s : p = cs[id].bp /\ size = cs[id].size /\ s = SizeAt(h, p)
  OBVIOUS
<1>4. /\ p \in Nat /\ p % 8 = 0 /\ p >= 24 /\ size \in Nat /\ size > 0
      /\ p + s <= h.brk /\ h.brk \in Nat /\ p \in T
      /\ s \in Nat /\ size + 8 <= s
      /\ \A t \in T : t = p \/ t < p \/ p + s <= t
  BY <1>2, <1>3
<1>5. PICK hi : hi = p + size - 1
  OBVIOUS
<1>6. hi \in Nat /\ p <= hi /\ hi < p + s /\ hi < h.brk
  BY <1>4, <1>5
<1>7. ~Overlaps(list, p, hi)
  <2>1. ASSUME NEW i \in DOMAIN list
        PROVE  ~(p >= list[i].lo /\ p <= list[i].hi)
               /\ ~(hi >= list[i].lo /\ hi <= list[i].hi)
    <3>1. PICK other \in X : list[i] = Extent(cs[other])
      BY DEF Exact
    <3>2. other \in Ids /\ other # id /\ cs[other] # None
      BY <3>1
    <3>3. PICK q, n, t : /\ q = cs[other].bp /\ n = cs[other].size
                         /\ t = SizeAt(h, q)
      OBVIOUS
    <3>4. /\ q \in Nat /\ n \in Nat /\ n > 0 /\ q \in T /\ t \in Nat
          /\ n + 8 <= t
          /\ p = q \/ p < q \/ q + t <= p
      BY <1>2, <1>4, <3>2, <3>3
    <3>5. q # p
      BY <1>1, <1>3, <3>2, <3>3 DEF Owned
    <3>6. q = p \/ q < p \/ p + s <= q
      BY <1>4, <3>4
    <3>7. list[i].lo = q /\ list[i].hi = q + n - 1
      BY <3>1, <3>3 DEF Extent
    <3>8. QED
      BY <1>4, <1>6, <3>4, <3>5, <3>6, <3>7
  <2>2. QED
    BY <2>1 DEF Overlaps
<1>8. {p, hi} \subseteq mem_heap_lo .. mem_heap_hi(h)
  BY <1>4, <1>6 DEF mem_heap_lo, mem_heap_hi
<1>9. RangeError(h, list, p, size) = None
  BY <1>4, <1>5, <1>7, <1>8 DEF RangeError, ALIGNMENT
<1>10. QED
  BY <1>3, <1>9
-----------------------------------------------------------------------------
(* The invariant of the driver.                                              *)

HeldBy(bs) == {id \in Ids : bs[id] # None}

\* What the program has written to a block is its index.
Marked(h, b, id) == \A i \in 1 .. b.filled : h.mem[b.bp + 8 * (i - 1)] = id

\* In the first pass: the range list is exact, and every block is filled, but
\* for the one that memset is about to fill.
Checked(h, bs, list, unfilled) ==
    /\ Exact(list, bs, HeldBy(bs))
    /\ \A id \in HeldBy(bs) :
        /\ Marked(h, bs[id], id)
        /\ id # unfilled => bs[id].filled = Words(bs[id].size)

DriverSound ==
    /\ HeapInvariant
    /\ trace \in Seq(Requests) /\ pos \in Nat
    /\ \A i \in DOMAIN errors : errors[i] = "failed"
    /\ errors \in Seq({"failed"})
    /\ filling # None => phase = "valid" /\ filling \in HeldBy(blocks)
    /\ phase = "valid" => Checked(heap, blocks, ranges, filling)

\* The parts of a request.
LEMMA RequestIs ==
    ASSUME NEW request \in Requests
    PROVE  /\ request.index \in Ids
           /\ request.type \in {"ALLOC", "REALLOC"} =>
                request.size \in Sizes /\ request.size # 0
BY DEF Requests

\* Blocks that are kept keep their contents.
LEMMA MarksStay ==
    ASSUME ModestSizes, NEW h, NEW T, NEW U, Sound(h, T, U), NEW bs,
           Owned(h, U, bs), NEW id, NEW g, OthersKept(h, g, bs, id),
           NEW other \in Ids \ {id}, bs[other] # None,
           Marked(h, bs[other], other)
    PROVE  Marked(g, bs[other], other)
<1>1. PICK b : b = bs[other]
  OBVIOUS
<1>2. InPlace(h, U, b) /\ Kept(h, g, b.bp)
  BY <1>1 DEF Owned, OthersKept
<1>3. Modest(b.size) /\ b.size \in Nat
  BY <1>2 DEF InPlace, ModestSizes, Modest
<1>4. b.filled \in Nat /\ b.filled <= Words(b.size) /\ Words(b.size) \in Nat
  BY <1>2, <1>3 DEF InPlace, Words, ALIGNMENT
<1>5. ASSUME NEW i \in 1 .. b.filled
      PROVE  g.mem[b.bp + 8 * (i - 1)] = h.mem[b.bp + 8 * (i - 1)]
  <2>1. i \in 1 .. Words(b.size)
    BY <1>4
  <2>2. /\ b.bp + 8 * (i - 1) \in Units /\ b.bp <= b.bp + 8 * (i - 1)
        /\ b.bp + 8 * (i - 1) < b.bp + SizeAt(h, b.bp) - 8
    BY <1>2, <1>3, <2>1, WordsIn
  <2>3. QED
    BY <1>2, <2>2 DEF Kept
<1>6. QED
  BY <1>1, <1>5 DEF Marked

\* Of a heap that is too small the driver tells.
LEMMA ErrorSound ==
    ASSUME DriverSound, filling = None, malloc_error("failed"), HeapInvariant'
    PROVE  DriverSound'
<1>1. /\ errors' = Append(errors, "failed") /\ trace' = <<>>
      /\ phase' = "next trace" /\ pos' = pos /\ filling' = None
  BY DEF malloc_error, NoTrace
<1>2. errors' \in Seq({"failed"}) /\ trace' \in Seq(Requests)
  <2>1. PICK D : D = {"failed"}
    OBVIOUS
  <2>2. errors \in Seq(D) /\ "failed" \in D
    BY <2>1 DEF DriverSound
  <2>3. errors' \in Seq(D)
    BY <1>1, <2>2, AppendProperties
  <2>4. PICK R : R = Requests
    OBVIOUS
  <2>5. <<>> \in Seq(R)
    BY EmptySeq
  <2>6. QED
    BY <1>1, <2>1, <2>3, <2>4, <2>5
<1>3. \A i \in DOMAIN errors' : errors'[i] = "failed"
  <2>1. PICK D, s : D = {"failed"} /\ s = errors'
    OBVIOUS
  <2>2. s \in Seq(D)
    BY <1>2, <2>1
  <2>3. \A i \in DOMAIN s : s[i] \in D
    BY <2>2
  <2>4. QED
    BY <2>1, <2>3
<1>4. QED
  BY <1>1, <1>2, <1>3 DEF DriverSound

\* The driver accepts a new block, or the allocator has none.
LEMMA AllocSound ==
    ASSUME ModestSizes, DriverSound, phase = "valid", filling = None,
           NEW request \in Requests, request.type = "ALLOC",
           ValidAlloc(request)
    PROVE  DriverSound'
<1>1. PICK T, U : Sound(heap, T, U) /\ Owned(heap, U, blocks)
  BY DEF DriverSound, HeapInvariant, WellHeld
<1>2. PICK id, size : id = request.index /\ size = request.size
  OBVIOUS
<1>3. id \in Ids /\ size \in Sizes /\ size # 0 /\ Modest(size)
  BY <1>2, RequestIs DEF ModestSizes
<1>4. PICK got : got = mm_malloc(heap, size)
  OBVIOUS
<1>5. PICK cs : cs = IF got.bp = NULL THEN blocks
                     ELSE [blocks EXCEPT ![id] = Block(got.bp, size, 0)]
  OBVIOUS
<1>6. PICK error : error = RangeError(got.heap, ranges, got.bp, size)
  OBVIOUS
<1>7. /\ blocks[id] = None /\ heap' = got.heap /\ blocks' = cs
      /\ IF got.bp = NULL THEN malloc_error("failed") /\ UNCHANGED ranges
         ELSE IF error # None THEN malloc_error(error) /\ UNCHANGED ranges
         ELSE Accepted(request, add_range(ranges, got.bp, size), id)
  BY <1>2, <1>4, <1>5, <1>6 DEF ValidAlloc, Given
<1>8. /\ WellHeld(got.heap, cs) /\ OthersKept(heap, got.heap, blocks, id)
      /\ got.bp = NULL => got.heap = heap
      /\ got.bp # NULL => got.bp \in Nat
  BY <1>1, <1>3, <1>4, <1>5, <1>7, MallocStep
<1>9. CASE got.bp = NULL
  <2>1. malloc_error("failed")
    BY <1>7, <1>9
  <2>2. HeapInvariant'
    BY <1>7, <1>8 DEF HeapInvariant
  <2>3. QED
    BY <2>1, <2>2, ErrorSound
<1>10. CASE got.bp # NULL
  <2>1. PICK b : b = Block(got.bp, size, 0)
    OBVIOUS
  <2>2. b.bp = got.bp /\ b.size = size /\ b.filled = 0
    BY <2>1 DEF Block
  <2>3. cs[id] = b /\ \A other \in Ids : other # id => cs[other] = blocks[other]
    BY <1>1, <1>3, <1>5, <1>10, <2>1 DEF Owned
  <2>4. b # None
    <3>1. b \in [bp : Nat, size : Nat, filled : Nat]
      BY <1>3, <1>8, <1>10, <2>1 DEF Block, Modest
    <3>2. QED
      BY <3>1, NoneAssumption
  <2>5. PICK X : X = HeldBy(blocks)
    OBVIOUS
  <2>6. /\ X \subseteq Ids \ {id} /\ HeldBy(cs) = X \cup {id} /\ id \notin X
        /\ \A other \in X : cs[other] = blocks[other] /\ cs[other] # None
    BY <1>3, <1>7, <2>3, <2>4, <2>5 DEF HeldBy
  <2>7. Exact(ranges, cs, X)
    <3>1. Exact(ranges, blocks, X)
      BY <2>5 DEF DriverSound, Checked
    <3>2. QED
      BY <2>6, <3>1, ExactSame
  <2>8. RangeError(got.heap, ranges, cs[id].bp, cs[id].size) = None
    BY <1>3, <1>8, <2>3, <2>4, <2>6, <2>7, RangeIsGood
  <2>9. Accepted(request, add_range(ranges, got.bp, size), id)
    BY <1>6, <1>7, <1>10, <2>2, <2>3, <2>8
  <2>10. Exact(ranges', cs, HeldBy(cs))
    <3>1. \A other \in X : cs[other].bp # cs[id].bp
      <4>1. PICK S, V : Owned(got.heap, V, cs)
        BY <1>8 DEF WellHeld
      <4>2. QED
        BY <1>3, <2>3, <2>4, <2>6, <4>1 DEF Owned
    <3>2. cs[id].bp \in Int /\ cs[id].size \in Int
      BY <1>3, <1>8, <1>10, <2>2, <2>3 DEF Modest
    <3>3. ranges' = add_range(ranges, cs[id].bp, cs[id].size)
      BY <2>2, <2>3, <2>9 DEF Accepted
    <3>4. Exact(ranges', cs, X \cup {id})
      BY <2>6, <2>7, <3>1, <3>2, <3>3, AddExact
    <3>5. QED
      BY <2>6, <3>4
  <2>11. ASSUME NEW other \in HeldBy(cs)
         PROVE  /\ Marked(got.heap, cs[other], other)
                /\ other # id => cs[other].filled = Words(cs[other].size)
    <3>1. CASE other = id
      BY <2>2, <2>3, <3>1 DEF Marked
    <3>2. CASE other # id
      <4>1. other \in X /\ other \in Ids \ {id} /\ blocks[other] # None
            /\ cs[other] = blocks[other]
        BY <2>3, <2>6, <2>11, <3>2 DEF HeldBy
      <4>2. /\ Marked(heap, blocks[other], other)
            /\ blocks[other].filled = Words(blocks[other].size)
        <5>1. other # filling
          BY <4>1, DriverAssumption
        <5>2. QED
          BY <2>5, <4>1, <5>1 DEF DriverSound, Checked
      <4>3. Marked(got.heap, blocks[other], other)
        BY <1>1, <1>8, <4>1, <4>2, MarksStay
      <4>4. QED
        BY <4>1, <4>2, <4>3
    <3>3. QED
      BY <3>1, <3>2
  <2>12. Checked(heap', blocks', ranges', filling')
    BY <1>7, <2>9, <2>10, <2>11 DEF Checked, Accepted
  <2>13. trace' \in Seq(Requests)
    BY <2>9 DEF Accepted, DriverSound
  <2>14. filling' \in HeldBy(blocks')
    BY <1>7, <2>6, <2>9 DEF Accepted
  <2>15. QED
    BY <1>7, <1>8, <2>9, <2>12, <2>13, <2>14
    DEF Accepted, DriverSound, HeapInvariant
<1>11. QED
  BY <1>9, <1>10

\* Lengths in words are ordered as lengths in bytes are.
LEMMA WordsOrdered ==
    ASSUME NEW m \in Nat, NEW n \in Nat
    PROVE  /\ Words(m) \in Nat /\ Words(n) \in Nat
           /\ m <= n => Words(m) <= Words(n)
BY DEF Words, ALIGNMENT

\* A resized block is in the list once, where it is now, and has kept its marks.
LEMMA ReallocSound ==
    ASSUME ModestSizes, DriverSound, phase = "valid", filling = None,
           NEW request \in Requests, request.type = "REALLOC",
           blocks[request.index] # None, ValidRealloc(request)
    PROVE  DriverSound'
<1>1. PICK T, U : Sound(heap, T, U) /\ Owned(heap, U, blocks)
  BY DEF DriverSound, HeapInvariant, WellHeld
<1>2. PICK id, size : id = request.index /\ size = request.size
  OBVIOUS
<1>3. /\ id \in Ids /\ size \in Sizes /\ size # 0 /\ Modest(size)
      /\ size \in Nat /\ blocks[id] # None
  BY <1>2, RequestIs DEF ModestSizes, Modest
<1>4. PICK old : old = blocks[id]
  OBVIOUS
<1>5. PICK got : got = mm_realloc(heap, old.bp, size)
  OBVIOUS
<1>6. PICK kept : kept = IF Words(size) < old.filled THEN Words(size)
                         ELSE old.filled
  OBVIOUS
<1>7. PICK cs : cs = IF got.bp = NULL THEN blocks
                     ELSE [blocks EXCEPT ![id] = Block(got.bp, size, kept)]
  OBVIOUS
<1>8. PICK left, oldsize : /\ left = remove_range(ranges, old.bp)
                           /\ oldsize = IF size < old.size THEN size
                                        ELSE old.size
  OBVIOUS
<1>9. PICK error : error = RangeError(got.heap, left, got.bp, size)
  OBVIOUS
<1>10. /\ heap' = got.heap /\ blocks' = cs
       /\ IF got.bp = NULL THEN malloc_error("failed") /\ UNCHANGED ranges
          ELSE IF error # None THEN malloc_error(error) /\ ranges' = left
          ELSE IF ~Preserved(got.heap, got.bp, id, oldsize)
          THEN /\ malloc_error("not preserved")
               /\ ranges' = add_range(left, got.bp, size)
          ELSE Accepted(request, add_range(left, got.bp, size),
                        IF size > old.size THEN id ELSE None)
  BY <1>2, <1>3, <1>4, <1>5, <1>6, <1>7, <1>8, <1>9
  DEF ValidRealloc, Resized
<1>11. /\ WellHeld(got.heap, cs) /\ OthersKept(heap, got.heap, blocks, id)
       /\ Resizing(heap, got, old, size, kept)
  <2>1. cs = IF size = 0 THEN [blocks EXCEPT ![id] = None]
             ELSE IF got.bp = NULL THEN blocks
             ELSE [blocks EXCEPT ![id] = Block(got.bp, size, kept)]
    BY <1>3, <1>7
  <2>2. QED
    BY <1>1, <1>3, <1>4, <1>5, <1>6, <2>1, ResizeStep DEF ModestSizes
<1>12. InPlace(heap, U, old)
  BY <1>1, <1>3, <1>4 DEF Owned
<1>13. /\ old.bp \in Nat /\ old.bp >= 24 /\ old.size \in Nat
       /\ old.filled \in Nat /\ Modest(old.size)
  <2>1. old.bp \in Nat /\ old.bp >= 24
    BY <1>1, <1>12, InPlaceFacts
  <2>2. Modest(old.size) /\ old.size \in Nat /\ old.filled \in Nat
    BY <1>12 DEF InPlace, ModestSizes, Modest
  <2>3. QED
    BY <2>1, <2>2
<1>14. PICK X : X = HeldBy(blocks)
  OBVIOUS
<1>15. id \in X /\ id # filling
  BY <1>3, <1>14, DriverAssumption DEF HeldBy
<1>16. Marked(heap, old, id) /\ old.filled = Words(old.size)
  BY <1>4, <1>14, <1>15 DEF DriverSound, Checked
<1>17. /\ kept \in Nat /\ kept = Words(oldsize) /\ oldsize \in Nat
       /\ kept <= old.filled /\ kept <= Words(size)
       /\ size <= old.size => kept = Words(size)
  BY <1>3, <1>6, <1>8, <1>13, <1>16, WordsOrdered
<1>18. CASE got.bp = NULL
  <2>1. HeapInvariant'
    BY <1>10, <1>11 DEF HeapInvariant
  <2>2. malloc_error("failed")
    BY <1>10, <1>18
  <2>3. QED
    BY <2>1, <2>2, ErrorSound
<1>19. CASE got.bp # NULL
  <2>1. PICK b : b = Block(got.bp, size, kept)
    OBVIOUS
  <2>2. b.bp = got.bp /\ b.size = size /\ b.filled = kept
    BY <2>1 DEF Block
  <2>3. cs[id] = b /\ \A other \in Ids : other # id => cs[other] = blocks[other]
    BY <1>1, <1>3, <1>7, <1>19, <2>1 DEF Owned
  <2>4. got.bp \in Nat /\ \A i \in 1 .. kept :
            got.heap.mem[got.bp + 8 * (i - 1)] = heap.mem[old.bp + 8 * (i - 1)]
    BY <1>3, <1>11, <1>13, <1>19 DEF Resizing, NULL
  <2>5. b # None
    <3>1. b \in [bp : Nat, size : Nat, filled : Nat]
      BY <1>3, <1>17, <2>1, <2>4 DEF Block
    <3>2. QED
      BY <3>1, NoneAssumption
  <2>6. PICK Y : Y = X \ {id}
    OBVIOUS
  <2>7. /\ Y \subseteq Ids \ {id} /\ HeldBy(cs) = Y \cup {id} /\ id \notin Y
        /\ \A other \in Y : cs[other] = blocks[other] /\ cs[other] # None
    BY <1>3, <1>14, <2>3, <2>5, <2>6 DEF HeldBy
  <2>8. Exact(left, cs, Y)
    <3>1. Exact(ranges, blocks, X)
      BY <1>14 DEF DriverSound, Checked
    <3>2. \A other \in X : other # id => blocks[other].bp # blocks[id].bp
      BY <1>1, <1>3, <1>14 DEF Owned, HeldBy
    <3>3. Exact(left, blocks, Y)
      BY <1>4, <1>8, <1>15, <2>6, <3>1, <3>2, RemoveExact
    <3>4. QED
      BY <2>7, <3>3, ExactSame
  <2>9. RangeError(got.heap, left, cs[id].bp, cs[id].size) = None
    BY <1>3, <1>11, <2>3, <2>5, <2>7, <2>8, RangeIsGood
  <2>10. Marked(got.heap, b, id)
    <3>1. ASSUME NEW i \in 1 .. kept
          PROVE  got.heap.mem[b.bp + 8 * (i - 1)] = id
      <4>1. i \in 1 .. old.filled
        BY <1>13, <1>17
      <4>2. heap.mem[old.bp + 8 * (i - 1)] = id
        BY <1>16, <4>1 DEF Marked
      <4>3. QED
        BY <2>2, <2>4, <4>2
    <3>2. QED
      BY <2>2, <3>1 DEF Marked
  <2>11. Preserved(got.heap, got.bp, id, oldsize)
    <3>1. ASSUME NEW i \in 0 .. Words(oldsize) - 1
          PROVE  got.heap.mem[got.bp + 8 * i] = id
      <4>1. i + 1 \in 1 .. kept /\ (i + 1) - 1 = i
        BY <1>17
      <4>2. got.heap.mem[b.bp + 8 * ((i + 1) - 1)] = id
        BY <2>2, <2>10, <4>1 DEF Marked
      <4>3. QED
        BY <2>2, <4>1, <4>2
    <3>2. QED
      BY <3>1 DEF Preserved, GET
  <2>12. Accepted(request, add_range(left, got.bp, size),
                  IF size > old.size THEN id ELSE None)
    BY <1>9, <1>10, <1>19, <2>2, <2>3, <2>9, <2>11
  <2>13. Exact(ranges', cs, HeldBy(cs))
    <3>1. \A other \in Y : cs[other].bp # cs[id].bp
      <4>1. PICK S, V : Owned(got.heap, V, cs)
        BY <1>11 DEF WellHeld
      <4>2. QED
        BY <1>3, <2>3, <2>5, <2>7, <4>1 DEF Owned
    <3>2. cs[id].bp \in Int /\ cs[id].size \in Int
      BY <1>3, <2>2, <2>3, <2>4
    <3>3. ranges' = add_range(left, cs[id].bp, cs[id].size)
      BY <2>2, <2>3, <2>12 DEF Accepted
    <3>4. Exact(ranges', cs, Y \cup {id})
      BY <2>7, <2>8, <3>1, <3>2, <3>3, AddExact
    <3>5. QED
      BY <2>7, <3>4
  <2>14. filling' = (IF size > old.size THEN id ELSE None)
    BY <2>12 DEF Accepted
  <2>15. ASSUME NEW other \in HeldBy(cs)
         PROVE  /\ Marked(got.heap, cs[other], other)
                /\ other # filling' => cs[other].filled = Words(cs[other].size)
    <3>1. CASE other = id
      <4>1. other # filling' => size <= old.size
        BY <1>3, <1>13, <2>14, <3>1
      <4>2. QED
        BY <1>17, <2>2, <2>3, <2>10, <3>1, <4>1
    <3>2. CASE other # id
      <4>1. other \in X /\ other \in Ids \ {id} /\ blocks[other] # None
            /\ cs[other] = blocks[other]
        BY <1>14, <2>3, <2>6, <2>7, <2>15, <3>2 DEF HeldBy
      <4>2. /\ Marked(heap, blocks[other], other)
            /\ blocks[other].filled = Words(blocks[other].size)
        <5>1. other # filling
          BY <4>1, DriverAssumption
        <5>2. QED
          BY <1>14, <4>1, <5>1 DEF DriverSound, Checked
      <4>3. Marked(got.heap, blocks[other], other)
        BY <1>1, <1>11, <4>1, <4>2, MarksStay
      <4>4. QED
        BY <4>1, <4>2, <4>3
    <3>3. QED
      BY <3>1, <3>2
  <2>16. Checked(heap', blocks', ranges', filling')
    BY <1>10, <2>13, <2>15 DEF Checked
  <2>17. trace' \in Seq(Requests)
    BY <2>12 DEF Accepted, DriverSound
  <2>18. filling' # None => filling' \in HeldBy(blocks')
    BY <1>10, <2>7, <2>14
  <2>19. QED
    BY <1>10, <1>11, <2>12, <2>16, <2>17, <2>18
    DEF Accepted, DriverSound, HeapInvariant
<1>20. QED
  BY <1>18, <1>19

\* A freed block leaves the list.
LEMMA FreeSound ==
    ASSUME ModestSizes, DriverSound, phase = "valid", filling = None,
           NEW request \in Requests, request.type = "FREE",
           ValidFree(request)
    PROVE  DriverSound'
<1>1. PICK T, U : Sound(heap, T, U) /\ Owned(heap, U, blocks)
  BY DEF DriverSound, HeapInvariant, WellHeld
<1>2. PICK id : id = request.index
  OBVIOUS
<1>3. PICK g, cs : /\ g = mm_free(heap, blocks[id].bp)
                   /\ cs = [blocks EXCEPT ![id] = None]
  OBVIOUS
<1>4. /\ id \in Ids /\ blocks[id] # None /\ heap' = g /\ blocks' = cs
      /\ Accepted(request, remove_range(ranges, blocks[id].bp), None)
  BY <1>2, <1>3, RequestIs DEF ValidFree, Free
<1>5. WellHeld(g, cs) /\ OthersKept(heap, g, blocks, id)
  BY <1>1, <1>3, <1>4, FreeStep
<1>6. PICK X : X = HeldBy(blocks)
  OBVIOUS
<1>7. /\ id \in X /\ HeldBy(cs) = X \ {id}
      /\ \A other \in X \ {id} : cs[other] = blocks[other]
  BY <1>1, <1>3, <1>4, <1>6 DEF Owned, HeldBy
<1>8. Exact(ranges', cs, HeldBy(cs))
  <2>1. Exact(ranges, blocks, X)
    BY <1>6 DEF DriverSound, Checked
  <2>2. \A other \in X : other # id => blocks[other].bp # blocks[id].bp
    BY <1>1, <1>4, <1>6 DEF Owned, HeldBy
  <2>3. ranges' = remove_range(ranges, blocks[id].bp)
    BY <1>4 DEF Accepted
  <2>4. Exact(ranges', blocks, X \ {id})
    BY <1>7, <2>1, <2>2, <2>3, RemoveExact
  <2>5. QED
    BY <1>7, <2>4, ExactSame
<1>9. ASSUME NEW other \in HeldBy(cs)
      PROVE  /\ Marked(g, cs[other], other)
             /\ cs[other].filled = Words(cs[other].size)
  <2>1. other \in X /\ other \in Ids \ {id} /\ blocks[other] # None
        /\ cs[other] = blocks[other]
    BY <1>6, <1>7, <1>9 DEF HeldBy
  <2>2. /\ Marked(heap, blocks[other], other)
        /\ blocks[other].filled = Words(blocks[other].size)
    <3>1. other # filling
      BY <2>1, DriverAssumption
    <3>2. QED
      BY <1>6, <2>1, <3>1 DEF DriverSound, Checked
  <2>3. Marked(g, blocks[other], other)
    BY <1>1, <1>5, <2>1, <2>2, MarksStay
  <2>4. QED
    BY <2>1, <2>2, <2>3
<1>10. Checked(heap', blocks', ranges', filling')
  BY <1>4, <1>8, <1>9 DEF Checked
<1>11. trace' \in Seq(Requests)
  BY <1>4 DEF Accepted, DriverSound
<1>12. QED
  BY <1>4, <1>5, <1>10, <1>11 DEF Accepted, DriverSound, HeapInvariant

\* memset marks the block that was waiting for it.
LEMMA MarkSound ==
    ASSUME ModestSizes, DriverSound, MarkBlock
    PROVE  DriverSound'
<1>1. PICK T, U : Sound(heap, T, U) /\ Owned(heap, U, blocks)
  BY DEF DriverSound, HeapInvariant, WellHeld
<1>2. PICK id, b : id = filling /\ b = blocks[id]
  OBVIOUS
<1>3. /\ phase = "valid" /\ id # None /\ filling' = None /\ phase' = phase
      /\ ranges' = ranges /\ trace' = trace /\ pos' = pos /\ errors' = errors
      /\ IF b.filled < Words(b.size) THEN Fill(id) ELSE UNCHANGED vars
  BY <1>2 DEF MarkBlock
<1>4. id \in Ids /\ b # None /\ id \in HeldBy(blocks)
  BY <1>2, <1>3 DEF DriverSound, HeldBy
<1>5. InPlace(heap, U, b)
  BY <1>1, <1>2, <1>4 DEF Owned
<1>6. /\ Modest(b.size) /\ b.size \in Nat /\ b.filled \in Nat
      /\ Words(b.size) \in Nat /\ b.filled <= Words(b.size)
  BY <1>5, WordsOrdered DEF InPlace, ModestSizes, Modest
<1>7. CASE b.filled < Words(b.size)
  <2>1. PICK g, cs : /\ g = Filled(heap, b, id)
                     /\ cs = [blocks EXCEPT ![id].filled = Words(b.size)]
    OBVIOUS
  <2>2. heap' = g /\ blocks' = cs
    BY <1>2, <1>3, <1>7, <2>1 DEF Fill, Filled
  <2>3. WellHeld(g, cs) /\ OthersKept(heap, g, blocks, id)
    BY <1>1, <1>2, <1>4, <1>6, <2>1, FillStep
  <2>4. PICK c : c = cs[id]
    OBVIOUS
  <2>5. /\ c.bp = b.bp /\ c.size = b.size /\ c.filled = Words(b.size)
        /\ c # None
        /\ \A other \in Ids : other # id => cs[other] = blocks[other]
    <3>1. c = [b EXCEPT !.filled = Words(b.size)]
      BY <1>1, <1>2, <1>4, <2>1, <2>4 DEF Owned
    <3>2. b \in [bp : Nat, size : Sizes, filled : Nat] /\ Sizes \subseteq Nat
      BY <1>5, SizesAssumption, Numbers DEF InPlace
    <3>3. c \in [bp : Nat, size : Nat, filled : Nat] /\ c.bp = b.bp
          /\ c.size = b.size /\ c.filled = Words(b.size)
      BY <1>6, <3>1, <3>2
    <3>4. \A other \in Ids : other # id => cs[other] = blocks[other]
      BY <1>1, <1>4, <2>1 DEF Owned
    <3>5. QED
      BY <3>3, <3>4, NoneAssumption
  <2>6. HeldBy(cs) = HeldBy(blocks)
    BY <1>2, <1>4, <2>4, <2>5 DEF HeldBy
  <2>7. Exact(ranges, cs, HeldBy(cs))
    <3>1. Exact(ranges, blocks, HeldBy(cs))
      BY <1>3, <2>6 DEF DriverSound, Checked
    <3>2. \A other \in HeldBy(cs) : /\ cs[other].bp = blocks[other].bp
                                    /\ cs[other].size = blocks[other].size
      BY <1>2, <2>4, <2>5 DEF HeldBy
    <3>3. QED
      BY <3>1, <3>2, ExactSame
  <2>8. ASSUME NEW other \in HeldBy(cs)
        PROVE  /\ Marked(g, cs[other], other)
               /\ cs[other].filled = Words(cs[other].size)
    <3>1. CASE other = id
      <4>1. ASSUME NEW i \in 1 .. Words(b.size)
            PROVE  g.mem[b.bp + 8 * (i - 1)] = id
        <5>1. PICK a : a = b.bp + 8 * (i - 1)
          OBVIOUS
        <5>2. a \in Units /\ a \in b.bp .. b.bp + b.size - 1
          BY <1>1, <1>5, <1>6, <5>1, WordsIn
        <5>3. heap \in Heaps
          BY <1>1 DEF Sound, Tagged
        <5>4. g.mem = [p \in Units |-> IF p \in b.bp .. b.bp + b.size - 1
                                       THEN id ELSE heap.mem[p]]
          BY <2>1, <5>3 DEF Filled, Heaps
        <5>5. QED
          BY <5>1, <5>2, <5>4
      <4>2. QED
        BY <2>4, <2>5, <3>1, <4>1 DEF Marked
    <3>2. CASE other # id
      <4>1. /\ other \in HeldBy(blocks) /\ other \in Ids \ {id}
            /\ blocks[other] # None /\ cs[other] = blocks[other]
        BY <2>5, <2>6, <3>2 DEF HeldBy
      <4>2. /\ Marked(heap, blocks[other], other)
            /\ blocks[other].filled = Words(blocks[other].size)
        BY <1>2, <1>3, <3>2, <4>1 DEF DriverSound, Checked
      <4>3. Marked(g, blocks[other], other)
        BY <1>1, <2>3, <4>1, <4>2, MarksStay
      <4>4. QED
        BY <4>1, <4>2, <4>3
    <3>3. QED
      BY <3>1, <3>2
  <2>9. Checked(heap', blocks', ranges', filling')
    BY <1>3, <2>2, <2>7, <2>8 DEF Checked
  <2>10. QED
    BY <1>3, <2>2, <2>3, <2>9 DEF DriverSound, HeapInvariant
<1>8. CASE ~(b.filled < Words(b.size))
  <2>1. heap' = heap /\ blocks' = blocks
    BY <1>3, <1>8 DEF vars
  <2>2. b.filled = Words(b.size)
    BY <1>6, <1>8
  <2>3. Checked(heap', blocks', ranges', filling')
    BY <1>2, <1>3, <2>1, <2>2 DEF DriverSound, Checked
  <2>4. QED
    BY <1>3, <2>1, <2>3 DEF DriverSound, HeapInvariant
<1>9. QED
  BY <1>7, <1>8

\* An empty trace, and no error.
LEMMA NothingYet ==
    /\ NoTrace \in Seq(Requests) /\ <<>> \in Seq({"failed"})
    /\ DOMAIN <<>> = {} /\ Len(<<>>) = 0
<1>1. PICK D, R : D = {"failed"} /\ R = Requests
  OBVIOUS
<1>2. <<>> \in Seq(D) /\ <<>> \in Seq(R)
  BY EmptySeq
<1>3. DOMAIN <<>> = {} /\ Len(<<>>) = 0
  OBVIOUS
<1>4. QED
  BY <1>1, <1>2, <1>3 DEF NoTrace

\* The driver starts with a sound heap and no trace.
LEMMA DriverSoundInit == DriverInit => DriverSound
<1> SUFFICES ASSUME DriverInit PROVE DriverSound
  OBVIOUS
<1>1. HeapInvariant
  BY InvariantInit DEF DriverInit
<1>2. /\ trace = NoTrace /\ pos = 0 /\ errors = <<>> /\ filling = None
      /\ phase = "next trace"
  BY DEF DriverInit
<1>3. trace \in Seq(Requests) /\ errors \in Seq({"failed"})
  BY <1>2, NothingYet
<1>4. DOMAIN errors = {}
  BY <1>2, NothingYet
<1>5. QED
  BY <1>1, <1>2, <1>3, <1>4 DEF DriverSound

\* A pass begins: nothing is held, and there are no ranges.
LEMMA BeginSound ==
    ASSUME ModestSizes, DriverSound, Reset,
           errors' = errors, filling = None, filling' = None,
           trace' = NoTrace \/ trace' = trace, pos' = 0,
           phase' = "valid" => ranges' = <<>>
    PROVE  DriverSound'
<1>1. HeapInvariant'
  BY InvariantNext DEF DriverSound, Next
<1>2. trace' \in Seq(Requests)
  BY NothingYet DEF DriverSound
<1>3. HeldBy(blocks') = {}
  BY DEF Reset, HeldBy
<1>4. phase' = "valid" => Checked(heap', blocks', ranges', filling')
  <2>1. <<>> \in Seq([lo : Int, hi : Int]) /\ DOMAIN <<>> = {}
    <3>1. PICK D : D = [lo : Int, hi : Int]
      OBVIOUS
    <3>2. <<>> \in Seq(D)
      BY EmptySeq
    <3>3. QED
      BY <3>1, <3>2
  <2>2. Exact(<<>>, blocks', {})
    BY <2>1 DEF Exact
  <2>3. QED
    BY <1>3, <2>2 DEF Checked
<1>5. QED
  BY <1>1, <1>2, <1>4 DEF DriverSound

\* A step of the later passes is one of the program's.
LEMMA PassIsNext ==
    ASSUME DriverSound, PassStep
    PROVE  /\ Next /\ trace[pos + 1] \in Requests
           /\ Request(trace[pos + 1]) /\ pos' = pos + 1
<1>1. pos \in Nat /\ pos < Len(trace) /\ trace \in Seq(Requests)
      /\ Request(trace[pos + 1]) /\ pos' = pos + 1
  BY DEF PassStep, DriverSound
<1>2. PICK request : request = trace[pos + 1]
  OBVIOUS
<1>3. request \in Requests
  <2>1. PICK R : R = Requests
    OBVIOUS
  <2>2. pos + 1 \in 1 .. Len(trace) /\ trace \in Seq(R)
    BY <1>1, <2>1
  <2>3. trace[pos + 1] \in R
    BY <2>2, ElementOfSeq
  <2>4. QED
    BY <1>2, <2>1, <2>3
<1>4. Next
  <2>1. request.index \in Ids
    BY <1>3, RequestIs
  <2>2. request.type \in {"ALLOC", "REALLOC"} => request.size \in Sizes
    BY <1>3, RequestIs
  <2>3. QED
    BY <1>1, <1>2, <2>1, <2>2 DEF Request, Next
<1>5. QED
  BY <1>1, <1>2, <1>3, <1>4

\* Where memory and blocks stay and the first pass is not on.
LEMMA IdleSound ==
    ASSUME DriverSound, UNCHANGED <<heap, blocks, errors, filling>>,
           trace' = NoTrace \/ trace' = trace, pos' = pos,
           filling = None, phase' # "valid"
    PROVE  DriverSound'
<1>1. trace' \in Seq(Requests)
  BY NothingYet DEF DriverSound
<1>2. HeapInvariant'
  BY DEF DriverSound, HeapInvariant
<1>3. QED
  BY <1>1, <1>2 DEF DriverSound

\* Every step of the driver keeps its invariant.
LEMMA DriverSoundNext ==
    ASSUME ModestSizes, DriverSound, [DriverNext]_<<vars, driverVars>>
    PROVE  DriverSound'
<1>1. CASE UNCHANGED <<vars, driverVars>>
  BY <1>1 DEF DriverSound, HeapInvariant, vars, driverVars
<1>2. phase # "valid" => filling = None
  BY DEF DriverSound
<1>3. CASE NextTrace
  BY <1>2, <1>3, BeginSound DEF NextTrace, BeginPass
<1>4. CASE BogusTrace
  <2>1. /\ heap' = heap /\ blocks' = blocks /\ phase' # "valid"
        /\ errors' = errors /\ filling' = filling /\ trace' = trace
        /\ pos' = pos /\ phase # "valid"
    BY <1>4 DEF BogusTrace, vars
  <2>2. QED
    BY <1>2, <2>1, IdleSound
<1>5. CASE eval_mm_valid
  BY <1>5, AllocSound, ReallocSound, FreeSound DEF eval_mm_valid, Consistent
<1>6. CASE MarkBlock
  BY <1>6, MarkSound
<1>7. CASE Valid
  BY <1>7, BeginSound DEF Valid, BeginPass
<1>8. CASE PassStep
  <2>1. HeapInvariant'
    BY <1>8, PassIsNext, InvariantNext DEF DriverSound
  <2>2. /\ errors' = errors /\ filling' = filling /\ trace' = trace
        /\ pos' = pos + 1 /\ phase' # "valid" /\ phase # "valid"
    BY <1>8 DEF PassStep
  <2>3. QED
    BY <1>2, <2>1, <2>2 DEF DriverSound
<1>9. CASE EndOfUtil
  BY <1>2, <1>9, BeginSound DEF EndOfUtil, BeginPass
<1>10. ASSUME NEW s, NEW done, NEW secs, Measured(s, done, secs),
              phase = "speed"
       PROVE  DriverSound'
  <2>1. CASE done
    <3>1. /\ heap' = heap /\ blocks' = blocks /\ phase' = "next trace"
          /\ errors' = errors /\ filling' = filling /\ trace' = NoTrace
          /\ pos' = pos
      BY <1>10, <2>1 DEF Measured, vars
    <3>2. QED
      BY <1>2, <1>10, <3>1, IdleSound
  <2>2. CASE ~done
    <3>1. /\ Reset /\ pos' = 0 /\ phase' = "speed"
          /\ errors' = errors /\ filling' = filling /\ trace' = trace
      BY <1>10, <2>2 DEF Measured, BeginPass
    <3>2. QED
      BY <1>2, <1>10, <3>1, BeginSound
  <2>3. QED
    BY <2>1, <2>2
<1>11. CASE fcyc
  BY <1>10, <1>11 DEF fcyc
<1>12. CASE ftimer
  BY <1>10, <1>12 DEF ftimer
<1>13. CASE Results
  <2>1. /\ heap' = heap /\ blocks' = blocks /\ phase' # "valid"
        /\ errors' = errors /\ filling' = filling /\ trace' = trace
        /\ pos' = pos /\ phase # "valid"
    BY <1>13 DEF Results, vars
  <2>2. QED
    BY <1>2, <2>1, IdleSound
<1>14. QED
  BY <1>1, <1>3, <1>4, <1>5, <1>6, <1>7, <1>8, <1>9, <1>11, <1>12, <1>13
  DEF DriverNext

\* The range list has as many entries as the program has blocks.
LEMMA ExactCounts ==
    ASSUME NEW list, NEW bs, NEW X, Exact(list, bs, X),
           \A id, other \in X : id # other => bs[id].bp # bs[other].bp
    PROVE  /\ ToSet(list) = {Extent(bs[id]) : id \in X}
           /\ Len(list) = Cardinality(X)
<1>1. ToSet(list) = {Extent(bs[id]) : id \in X}
  BY DEF Exact, ToSet
<1>2. PICK n : n = Len(list)
  OBVIOUS
<1>3. n \in Nat /\ DOMAIN list = 1 .. n
  BY <1>2 DEF Exact
<1>4. PICK f : f = [id \in X |-> CHOOSE i \in 1 .. n :
                                    list[i] = Extent(bs[id])]
  OBVIOUS
<1>5. ASSUME NEW id \in X PROVE f[id] \in 1 .. n /\ list[f[id]] = Extent(bs[id])
  BY <1>3, <1>4 DEF Exact
<1>6. ASSUME NEW id \in X, NEW other \in X, f[id] = f[other]
      PROVE  id = other
  <2>1. Extent(bs[id]) = Extent(bs[other])
    BY <1>5, <1>6
  <2>2. bs[id].bp = bs[other].bp
    BY <2>1 DEF Extent
  <2>3. QED
    BY <2>2
<1>7. ASSUME NEW i \in 1 .. n PROVE \E id \in X : f[id] = i
  <2>1. PICK id \in X : list[i] = Extent(bs[id])
    BY <1>3 DEF Exact
  <2>2. list[f[id]].lo = list[i].lo
    BY <1>5, <2>1
  <2>3. QED
    BY <1>3, <1>5, <2>2 DEF Exact
<1>8. f \in Bijection(X, 1 .. n)
  <2>1. f \in [X -> 1 .. n]
    BY <1>4, <1>5
  <2>2. f \in Injection(X, 1 .. n)
    BY <1>6, <2>1, Fun_IsInj
  <2>3. f \in Surjection(X, 1 .. n)
    BY <1>7, <2>1, Fun_IsSurj
  <2>4. QED
    BY <2>2, <2>3 DEF Bijection
<1>9. Cardinality(X) = n
  <2>1. IsFiniteSet(1 .. n) /\ Cardinality(1 .. n) = n
    BY <1>3, FS_Interval
  <2>2. ExistsBijection(X, 1 .. n)
    BY <1>8, Fun_ExistsBij
  <2>3. ExistsBijection(1 .. n, X)
    BY <2>2, Fun_ExistsBijSymmetric
  <2>4. QED
    BY <2>1, <2>3, FS_Bijection
<1>10. QED
  BY <1>1, <1>2, <1>9
-----------------------------------------------------------------------------
(* Two heaps that agree in what the functions read: how they use them.       *)

Plain == [mem : [Units -> Int], brk : Int, free_list_head : Int]

Agree(h, g, A) ==
    /\ h \in Plain /\ g \in Plain
    /\ g.brk = h.brk /\ g.free_list_head = h.free_list_head
    /\ \A a \in Units : a \in A => g.mem[a] = h.mem[a]

\* A heap is a record of integers.
LEMMA HeapsArePlain == Heaps \subseteq Plain
<1>1. Word \subseteq Int /\ 0 .. MAX_HEAP \subseteq Int
  BY Numbers DEF Word
<1>2. QED
  BY <1>1 DEF Heaps, Plain

\* They agree in any part, too.
LEMMA AgreeLess ==
    ASSUME NEW h, NEW g, NEW A, Agree(h, g, A), NEW B, B \subseteq A
    PROVE  Agree(h, g, B)
BY DEF Agree

\* The same is read from both.
LEMMA AgreeGet ==
    ASSUME NEW h, NEW g, NEW A, Agree(h, g, A), NEW a \in Units, a \in A
    PROVE  /\ GET(g, a) = GET(h, a) /\ GET(h, a) \in Int
           /\ GET_SIZE(g, a) = GET_SIZE(h, a) /\ GET_SIZE(h, a) \in Int
           /\ GET_ALLOC(g, a) = GET_ALLOC(h, a)
           /\ GET_PREV_ALLOC(g, a) = GET_PREV_ALLOC(h, a)
           /\ GET_PREV_ALLOC(h, a) \in {0, 1}
<1>1. GET(g, a) = GET(h, a) /\ GET(h, a) \in Int
  BY DEF Agree, Plain, GET
<1>2. PICK x : x = GET(h, a)
  OBVIOUS
<1>3. x - (x % 8) \in Int /\ (x \div 2) % 2 \in {0, 1}
  BY <1>1, <1>2
<1>4. QED
  BY <1>1, <1>2, <1>3 DEF GET_SIZE, GET_ALLOC, GET_PREV_ALLOC

\* What is written to both, they agree in.
LEMMA AgreePut ==
    ASSUME NEW h, NEW g, NEW A, Agree(h, g, A), NEW p, NEW val \in Int
    PROVE  Agree(PUT(h, p, val), PUT(g, p, val), A \cup {p})
<1>1. ASSUME NEW k \in Plain
      PROVE  /\ PUT(k, p, val) \in Plain /\ PUT(k, p, val).brk = k.brk
             /\ PUT(k, p, val).free_list_head = k.free_list_head
             /\ \A a \in Units : PUT(k, p, val).mem[a] =
                                   IF a = p THEN val ELSE k.mem[a]
  BY DEF PUT, Plain
<1>2. QED
  BY <1>1 DEF Agree

\* The head of the list.
LEMMA AgreeHead ==
    ASSUME NEW h, NEW g, NEW A, Agree(h, g, A), NEW p \in Int
    PROVE  Agree([h EXCEPT !.free_list_head = p],
                 [g EXCEPT !.free_list_head = p], A)
<1>1. ASSUME NEW k \in Plain, NEW l, l = [k EXCEPT !.free_list_head = p]
      PROVE  /\ l \in Plain /\ l.brk = k.brk /\ l.free_list_head = p
             /\ l.mem = k.mem
  <2>1. l = [mem |-> k.mem, brk |-> k.brk, free_list_head |-> p]
    BY <1>1 DEF Plain
  <2>2. k.mem \in [Units -> Int] /\ k.brk \in Int
    BY DEF Plain
  <2>3. QED
    BY <2>1, <2>2 DEF Plain
<1>2. QED
  BY <1>1 DEF Agree

\* The end of the heap.
LEMMA AgreeEnd ==
    ASSUME NEW h, NEW g, NEW A, Agree(h, g, A), NEW p \in Int
    PROVE  Agree([h EXCEPT !.brk = p], [g EXCEPT !.brk = p], A)
<1>1. ASSUME NEW k \in Plain, NEW l, l = [k EXCEPT !.brk = p]
      PROVE  /\ l \in Plain /\ l.brk = p /\ l.mem = k.mem
             /\ l.free_list_head = k.free_list_head
  <2>1. l = [mem |-> k.mem, brk |-> p, free_list_head |-> k.free_list_head]
    BY <1>1 DEF Plain
  <2>2. k.mem \in [Units -> Int] /\ k.free_list_head \in Int
    BY DEF Plain
  <2>3. QED
    BY <2>1, <2>2 DEF Plain
<1>2. QED
  BY <1>1 DEF Agree

\* The functions on the free list do the same to both.
LEMMA AgreeRemove ==
    ASSUME NEW h, NEW g, NEW A, Agree(h, g, A),
           NEW bp \in Units, bp + 8 \in Units, {bp, bp + 8} \subseteq A
    PROVE  Agree(remove_from_free_list(h, bp), remove_from_free_list(g, bp), A)
<1>1. PICK prev : prev = GET(h, PREV_FREEP(bp))
  OBVIOUS
<1>2. PICK next : next = GET(h, NEXT_FREEP(bp))
  OBVIOUS
<1>3. /\ prev = GET(g, PREV_FREEP(bp)) /\ next = GET(g, NEXT_FREEP(bp))
      /\ prev \in Int /\ next \in Int
  BY <1>1, <1>2, AgreeGet DEF PREV_FREEP, NEXT_FREEP, PTR_SIZE
<1> DEFINE Ahead(k) == IF prev # NULL THEN PUT(k, NEXT_FREEP(prev), next)
                                      ELSE [k EXCEPT !.free_list_head = next]
           Whole(k) == IF next # NULL THEN PUT(k, PREV_FREEP(next), prev)
                                      ELSE k
<1>4. Agree(Ahead(h), Ahead(g), A)
  <2>1. CASE prev # NULL
    <3>1. Agree(Ahead(h), Ahead(g), A \cup {NEXT_FREEP(prev)})
      BY <1>3, <2>1, AgreePut
    <3> HIDE DEF Ahead
    <3>2. QED
      BY <3>1, AgreeLess
  <2>2. CASE prev = NULL
    BY <1>3, <2>2, AgreeHead
  <2>3. QED
    BY <2>1, <2>2
<1>5. ASSUME NEW k, NEW l, Agree(k, l, A) PROVE Agree(Whole(k), Whole(l), A)
  <2>1. CASE next # NULL
    <3>1. Agree(Whole(k), Whole(l), A \cup {PREV_FREEP(next)})
      BY <1>3, <1>5, <2>1, AgreePut
    <3> HIDE DEF Whole
    <3>2. QED
      BY <3>1, AgreeLess
  <2>2. CASE next = NULL
    BY <1>5, <2>2
  <2>3. QED
    BY <2>1, <2>2
<1>6. /\ remove_from_free_list(h, bp) = Whole(Ahead(h))
      /\ remove_from_free_list(g, bp) = Whole(Ahead(g))
  BY <1>1, <1>2, <1>3 DEF remove_from_free_list
<1>7. QED
  <2> HIDE DEF Ahead, Whole
  <2>1. QED
    BY <1>4, <1>5, <1>6

\* Putting a block into the free list.
LEMMA AgreeAdd ==
    ASSUME NEW h, NEW g, NEW A, Agree(h, g, A), NEW bp \in Int
    PROVE  Agree(add_to_free_list(h, bp), add_to_free_list(g, bp),
                 A \cup {bp, bp + 8})
<1>1. PICK first : first = h.free_list_head
  OBVIOUS
<1>2. first = g.free_list_head /\ first \in Int /\ NULL \in Int
  BY <1>1 DEF Agree, Plain, NULL
<1> DEFINE Linked(k) == PUT(PUT(k, PREV_FREEP(bp), NULL),
                            NEXT_FREEP(bp), first)
           Back(k) == IF first # NULL THEN PUT(k, PREV_FREEP(first), bp) ELSE k
           B == A \cup {bp, bp + 8}
<1>3. Agree(Linked(h), Linked(g), B)
  <2>1. PICK k, l : k = PUT(h, PREV_FREEP(bp), NULL)
                    /\ l = PUT(g, PREV_FREEP(bp), NULL)
    OBVIOUS
  <2>2. Agree(k, l, A \cup {bp})
    BY <1>2, <2>1, AgreePut DEF PREV_FREEP
  <2>3. PICK C : C = A \cup {bp}
    OBVIOUS
  <2>4. Agree(PUT(k, NEXT_FREEP(bp), first), PUT(l, NEXT_FREEP(bp), first),
              C \cup {NEXT_FREEP(bp)})
    BY <1>2, <2>2, <2>3, AgreePut
  <2>5. C \cup {NEXT_FREEP(bp)} = B
    BY <2>3 DEF NEXT_FREEP, PTR_SIZE
  <2>6. QED
    BY <2>1, <2>4, <2>5
<1>4. ASSUME NEW k, NEW l, Agree(k, l, B) PROVE Agree(Back(k), Back(l), B)
  <2> HIDE DEF B
  <2>1. CASE first # NULL
    <3>1. Agree(Back(k), Back(l), B \cup {PREV_FREEP(first)})
      BY <1>4, <2>1, AgreePut
    <3> HIDE DEF Back
    <3>2. QED
      BY <3>1, AgreeLess
  <2>2. CASE first = NULL
    BY <1>4, <2>2
  <2>3. QED
    BY <2>1, <2>2
<1>5. /\ add_to_free_list(h, bp) =
           [Back(Linked(h)) EXCEPT !.free_list_head = bp]
      /\ add_to_free_list(g, bp) =
           [Back(Linked(g)) EXCEPT !.free_list_head = bp]
  BY <1>1, <1>2 DEF add_to_free_list
<1>6. Agree(Back(Linked(h)), Back(Linked(g)), B)
  <2> HIDE DEF Back, Linked, B
  <2>1. QED
    BY <1>3, <1>4
<1>7. QED
  <2> HIDE DEF Back, Linked
  <2>1. QED
    BY <1>5, <1>6, AgreeHead

\* So does writing the tags of a free block.
LEMMA AgreeMerge ==
    ASSUME NEW h, NEW g, NEW A, Agree(h, g, A),
           NEW at \in Nat, at - 8 \in Units, NEW len \in Int
    PROVE  Agree(Merge(h, at, len), Merge(g, at, len), A \cup {at - 8})
<1>1. PICK k, l : /\ k = PUT(h, HDRP(at), PACK_HDR(len, 1, 0))
                  /\ l = PUT(g, HDRP(at), PACK_HDR(len, 1, 0))
  OBVIOUS
<1>2. PICK B : B = A \cup {at - 8}
  OBVIOUS
<1>3. HDRP(at) = at - 8 /\ PACK_HDR(len, 1, 0) \in Int /\ PACK_FTR(len) \in Int
  BY DEF HDRP, SIZE_T_SIZE, PACK_HDR, PACK_FTR
<1>4. Agree(k, l, B)
  BY <1>1, <1>2, <1>3, AgreePut
<1>5. FTRP(l, at) = FTRP(k, at)
  <2>1. GET_SIZE(l, at - 8) = GET_SIZE(k, at - 8)
    BY <1>2, <1>4, AgreeGet
  <2>2. QED
    BY <1>3, <2>1 DEF FTRP
<1>6. PICK p : p = FTRP(k, at)
  OBVIOUS
<1>7. Agree(PUT(k, p, PACK_FTR(len)), PUT(l, p, PACK_FTR(len)), B \cup {p})
  BY <1>3, <1>4, AgreePut
<1>8. Agree(PUT(k, p, PACK_FTR(len)), PUT(l, p, PACK_FTR(len)), B)
  BY <1>7, AgreeLess
<1>9. QED
  BY <1>1, <1>2, <1>5, <1>6, <1>8 DEF Merge

\* What coalesce does, in terms of the blocks around bp.
Coalescing(h, U, p, bp, q, len) ==
    LET u == IF p \in U THEN h ELSE remove_from_free_list(h, p)
        a == IF q \in U THEN u ELSE remove_from_free_list(u, q)
        at == IF p \in U THEN bp ELSE p
    IN  [heap |-> add_to_free_list(IF p \in U /\ q \in U THEN h
                                   ELSE Merge(a, at, len), at),
         bp |-> at]

\* It is that, of a block whose neighbours are known.
LEMMA CoalescingIs ==
    ASSUME NEW h, NEW T, NEW U, NEW p, NEW bp, NEW q,
           Around(h, T, U, p, bp, q), NEW len,
           len = SizeAt(h, bp) + (IF p \in U THEN 0 ELSE SizeAt(h, p))
                               + (IF q \in U THEN 0 ELSE SizeAt(h, q))
    PROVE  coalesce(h, bp) = Coalescing(h, U, p, bp, q, len)
<1>1. /\ NEXT_BLKP(h, bp) = q
      /\ GET_PREV_ALLOC(h, HDRP(bp)) = 1 <=> p \in U
      /\ GET_ALLOC(h, HDRP(q)) = 1 <=> q \in U
      /\ p \notin U => PREV_BLKP(h, bp) = p
  BY DEF Around
<1>2. CASE p \in U /\ q \in U
  BY <1>1, <1>2 DEF coalesce, Coalescing
<1>3. CASE p \in U /\ q \notin U
  BY <1>1, <1>3 DEF coalesce, Coalescing, SizeAt
<1>4. CASE p \notin U /\ q \in U
  BY <1>1, <1>4 DEF coalesce, Coalescing, SizeAt
<1>5. CASE p \notin U /\ q \notin U
  BY <1>1, <1>5 DEF coalesce, Coalescing, SizeAt
<1>6. QED
  BY <1>2, <1>3, <1>4, <1>5

\* The words the functions read: headers and links.
Core(T, F) == {a \in Units : a + 8 \in T \/ a \in F \/ a - 8 \in F}

\* Where a header or a link is.
LEMMA CoreHas ==
    ASSUME NEW T, NEW brk, Cuts(T, brk), NEW F, F \subseteq Inner(T, brk)
    PROVE  /\ \A t \in T : t - 8 \in Units /\ t - 8 \in Core(T, F)
                           /\ HDRP(t) = t - 8 /\ t \in Nat
           /\ \A x \in F : /\ x \in Units /\ x + 8 \in Units
                           /\ {x, x + 8} \subseteq Core(T, F)
<1>1. ASSUME NEW t \in T
      PROVE  t - 8 \in Units /\ t - 8 \in Core(T, F) /\ HDRP(t) = t - 8
             /\ t \in Nat
  <2>1. t - 8 \in Units /\ t \in Nat /\ HDRP(t) = t - 8
    BY CutWords
  <2>2. (t - 8) + 8 = t
    BY <2>1
  <2>3. QED
    BY <2>1, <2>2 DEF Core
<1>2. ASSUME NEW x \in F
      PROVE  x \in Units /\ x + 8 \in Units /\ {x, x + 8} \subseteq Core(T, F)
  <2>1. x \in Units /\ x + 8 \in Units /\ x \in Nat
    BY CutWords DEF Inner
  <2>2. (x + 8) - 8 = x
    BY <2>1
  <2>3. QED
    BY <2>1, <2>2 DEF Core
<1>3. QED
  BY <1>1, <1>2

\* coalesce does the same to two heaps with the same blocks.
LEMMA AgreeCoalesce ==
    ASSUME NEW h, NEW g, NEW T, NEW U, NEW bp,
           Loose(h, T, U, bp), Loose(g, T, U, bp),
           NEW A, Agree(h, g, A), Core(T, (T \ U) \ {bp}) \subseteq A,
           NEW k, k = coalesce(h, bp), NEW l, l = coalesce(g, bp)
    PROVE  l.bp = k.bp /\ Agree(k.heap, l.heap, A \cup {k.bp, k.bp + 8})
<1>1. /\ Tagged(h, T, U) /\ Tagged(g, T, U) /\ Cuts(T, h.brk)
      /\ bp \in T \ U /\ bp # heap_listp /\ bp # h.brk
      /\ heap_listp \in U /\ h.brk \in U /\ g.brk = h.brk
  BY DEF Loose, Tagged, Agree
<1>2. PICK p, q : Around(h, T, U, p, bp, q)
  BY <1>1, AroundIs
<1>3. Around(g, T, U, p, bp, q)
  <2>1. PICK r, s : Around(g, T, U, r, bp, s)
    BY <1>1, AroundIs
  <2>2. r = p /\ s = q
    BY <1>1, <1>2, <2>1, NeighboursUnique DEF Around
  <2>3. QED
    BY <2>1, <2>2
<1>4. p \in T /\ q \in T /\ p # bp /\ q # bp /\ bp \in Nat /\ p \in Nat
  BY <1>1, <1>2, CutFacts DEF Around, Adj
<1>5. PICK F : F = (T \ U) \ {bp}
  OBVIOUS
<1>6. F \subseteq Inner(T, h.brk)
  BY <1>1, <1>5 DEF Inner
<1>7. /\ \A t \in T : t - 8 \in Units /\ t - 8 \in A /\ HDRP(t) = t - 8
      /\ \A x \in F : x \in Units /\ x + 8 \in Units /\ {x, x + 8} \subseteq A
  BY <1>1, <1>5, <1>6, CoreHas
<1>8. \A t \in T : SizeAt(g, t) = SizeAt(h, t) /\ SizeAt(h, t) \in Int
  BY <1>7, AgreeGet DEF SizeAt
<1>9. PICK len : len = SizeAt(h, bp)
                         + (IF p \in U THEN 0 ELSE SizeAt(h, p))
                         + (IF q \in U THEN 0 ELSE SizeAt(h, q))
  OBVIOUS
<1>10. len = SizeAt(g, bp) + (IF p \in U THEN 0 ELSE SizeAt(g, p))
                           + (IF q \in U THEN 0 ELSE SizeAt(g, q))
       /\ len \in Int
  BY <1>1, <1>4, <1>8, <1>9
<1>11. /\ k = Coalescing(h, U, p, bp, q, len)
       /\ l = Coalescing(g, U, p, bp, q, len)
  BY <1>2, <1>3, <1>9, <1>10, CoalescingIs
<1> DEFINE Left(j) == IF p \in U THEN j ELSE remove_from_free_list(j, p)
           Both(j) == IF q \in U THEN Left(j)
                      ELSE remove_from_free_list(Left(j), q)
           at == IF p \in U THEN bp ELSE p
           Merged(j) == IF p \in U /\ q \in U THEN j
                        ELSE Merge(Both(j), at, len)
<1>12. Agree(Left(h), Left(g), A)
  <2>1. CASE p \in U
    BY <2>1
  <2>2. CASE p \notin U
    <3>1. p \in F
      BY <1>4, <1>5, <2>2
    <3>2. QED
      BY <1>7, <2>2, <3>1, AgreeRemove
  <2>3. QED
    BY <2>1, <2>2
<1>13. Agree(Both(h), Both(g), A)
  <2> HIDE DEF Left
  <2>1. CASE q \in U
    BY <1>12, <2>1
  <2>2. CASE q \notin U
    <3>1. q \in F
      BY <1>4, <1>5, <2>2
    <3>2. QED
      BY <1>7, <1>12, <2>2, <3>1, AgreeRemove
  <2>3. QED
    BY <2>1, <2>2
<1>14. at \in Nat /\ at - 8 \in Units /\ at - 8 \in A
       /\ (at = bp \/ (at \in F))
  BY <1>1, <1>4, <1>5, <1>7
<1>15. Agree(Merged(h), Merged(g), A)
  <2>1. CASE p \in U /\ q \in U
    BY <2>1
  <2>2. CASE ~(p \in U /\ q \in U)
    <3> HIDE DEF Both, at
    <3>1. Agree(Merged(h), Merged(g), A \cup {at - 8})
      BY <1>10, <1>13, <1>14, <2>2, AgreeMerge
    <3> HIDE DEF Merged
    <3>2. QED
      BY <3>1, AgreeLess
  <2>3. QED
    BY <2>1, <2>2
<1>16. /\ k = [heap |-> add_to_free_list(Merged(h), at), bp |-> at]
       /\ l = [heap |-> add_to_free_list(Merged(g), at), bp |-> at]
  BY <1>11 DEF Coalescing
<1>18. Agree(add_to_free_list(Merged(h), at), add_to_free_list(Merged(g), at),
             A \cup {at, at + 8})
  <2> HIDE DEF Merged, at
  <2>1. QED
    BY <1>14, <1>15, AgreeAdd
<1>19. QED
  <2> HIDE DEF Merged, at
  <2>1. /\ k.bp = at /\ k.heap = add_to_free_list(Merged(h), at)
        /\ l.bp = at /\ l.heap = add_to_free_list(Merged(g), at)
    BY <1>16
  <2>2. QED
    BY <1>18, <2>1
-----------------------------------------------------------------------------
(* Two heaps with the same headers have the same blocks.                     *)

\* The cuts of the one are cuts of the other.
LEMMA CutsWithin ==
    ASSUME NEW h, NEW S, NEW V, Tagged(h, S, V),
           NEW g, NEW R, NEW W, Tagged(g, R, W), g.brk = h.brk,
           \A x \in S \cap R : g.mem[x - 8] = h.mem[x - 8]
    PROVE  S \subseteq R
<1>1. Cuts(S, h.brk) /\ Cuts(R, h.brk) /\ heap_listp \in R
  BY DEF Tagged, Cuts
<1>2. SUFFICES ASSUME NEW b \in S, b \notin R PROVE FALSE
  OBVIOUS
<1>3. PICK D : D = S \ R
  OBVIOUS
<1>4. D \in SUBSET Nat /\ b \in D
  BY <1>1, <1>2, <1>3, CutFacts
<1>5. PICK d \in D : \A t \in D : d <= t
  BY <1>4, LeastExists
<1>6. d \in S /\ d \notin R /\ d \in Nat /\ d <= h.brk /\ h.brk \in Nat
  BY <1>1, <1>3, <1>4, <1>5, CutFacts DEF Cuts
<1>7. PICK p : Adj(S, p, d)
  BY <1>1, <1>6, PreviousExists
<1>8. p \in S /\ p < d /\ p \in Nat
  BY <1>1, <1>7, CutFacts DEF Adj
<1>9. p \in R /\ p # h.brk
  BY <1>3, <1>4, <1>5, <1>6, <1>8
<1>10. PICK q : Adj(R, p, q)
  BY <1>1, <1>9, NextExists
<1>11. q \in R /\ q \in Nat
  BY <1>1, <1>10, CutFacts DEF Adj
<1>12. SizeAt(h, p) = d - p /\ SizeAt(g, p) = q - p
  BY <1>6, <1>7, <1>8, <1>9, <1>10, <1>11 DEF Tagged, Told
<1>13. SizeAt(g, p) = SizeAt(h, p)
  <2>1. HDRP(p) = p - 8 /\ g.mem[p - 8] = h.mem[p - 8]
    BY <1>1, <1>8, <1>9, CutFacts
  <2>2. QED
    BY <2>1, HeaderSame
<1>14. QED
  BY <1>6, <1>8, <1>11, <1>12, <1>13

\* So the cuts are the same, and the blocks in use.
LEMMA CutsSame ==
    ASSUME NEW h, NEW S, NEW V, Tagged(h, S, V),
           NEW g, NEW R, NEW W, Tagged(g, R, W), g.brk = h.brk,
           \A x \in S \cap R : g.mem[x - 8] = h.mem[x - 8]
    PROVE  R = S /\ W = V
<1>1. S \subseteq R
  BY CutsWithin
<1>2. R \subseteq S
  <2>1. \A x \in R \cap S : h.mem[x - 8] = g.mem[x - 8]
    OBVIOUS
  <2>2. QED
    BY <2>1, CutsWithin
<1>3. R = S
  BY <1>1, <1>2
<1>4. Cuts(S, h.brk) /\ V \subseteq S /\ W \subseteq S
  BY <1>3 DEF Tagged
<1>5. ASSUME NEW x \in S PROVE x \in W <=> x \in V
  <2>1. HDRP(x) = x - 8 /\ g.mem[x - 8] = h.mem[x - 8]
    BY <1>3, <1>4, CutFacts
  <2>2. UsedAt(g, x) <=> UsedAt(h, x)
    BY <2>1, HeaderSame
  <2>3. QED
    BY <1>3, <2>2 DEF Tagged
<1>6. QED
  BY <1>3, <1>4, <1>5

\* Two sound heaps that differ in the contents of blocks in use, and in what
\* nothing reads, only.
Alike(h, g, T, U) ==
    Sound(h, T, U) /\ Sound(g, T, U) /\ Agree(h, g, Core(T, T \ U))

\* It is enough that they agree in the headers and links of one of them.
LEMMA AlikeFrom ==
    ASSUME NEW h, NEW g, NEW A, Agree(h, g, A),
           NEW S, NEW V, Sound(h, S, V), NEW R, NEW W, Sound(g, R, W),
           Core(S, S \ V) \subseteq A
    PROVE  R = S /\ W = V /\ Alike(h, g, S, V)
<1>1. Tagged(h, S, V) /\ Tagged(g, R, W) /\ Cuts(S, h.brk)
  BY DEF Sound, Tagged
<1>2. g.brk = h.brk
  BY DEF Agree
<1>3. \A x \in S \cap R : g.mem[x - 8] = h.mem[x - 8]
  <2>1. ASSUME NEW x \in S PROVE x - 8 \in Units /\ x - 8 \in A
    <3>1. x - 8 \in Units /\ x \in Nat
      BY <1>1, CutFacts
    <3>2. (x - 8) + 8 = x
      BY <3>1
    <3>3. QED
      BY <3>1, <3>2 DEF Core
  <2>2. QED
    BY <2>1 DEF Agree
<1>4. R = S /\ W = V
  BY <1>1, <1>2, <1>3, CutsSame
<1>5. Agree(h, g, Core(S, S \ V))
  BY AgreeLess
<1>6. QED
  BY <1>4, <1>5 DEF Alike

\* What is in the memory between two alike heaps.
LEMMA AlikeFacts ==
    ASSUME NEW h, NEW g, NEW T, NEW U, Alike(h, g, T, U)
    PROVE  /\ Sound(h, T, U) /\ Sound(g, T, U) /\ Tagged(h, T, U)
           /\ Tagged(g, T, U) /\ Cuts(T, h.brk) /\ g.brk = h.brk
           /\ U \subseteq T /\ heap_listp \in U /\ h.brk \in U
           /\ h \in Heaps /\ g \in Heaps
           /\ g.free_list_head = h.free_list_head
           /\ T \ U \subseteq Inner(T, h.brk)
           /\ \A t \in T : /\ SizeAt(g, t) = SizeAt(h, t)
                           /\ SizeAt(h, t) \in Int
                           /\ HDRP(t) = t - 8 /\ t \in Nat
                           /\ t - 8 \in Units /\ t - 8 \in Core(T, T \ U)
                           /\ g.mem[t - 8] = h.mem[t - 8]
<1>1. /\ Sound(h, T, U) /\ Sound(g, T, U) /\ Tagged(h, T, U)
      /\ Tagged(g, T, U) /\ Cuts(T, h.brk) /\ g.brk = h.brk
      /\ U \subseteq T /\ heap_listp \in U /\ h.brk \in U
      /\ h \in Heaps /\ g \in Heaps
      /\ g.free_list_head = h.free_list_head
  BY DEF Alike, Sound, Tagged, Agree
<1>2. T \ U \subseteq Inner(T, h.brk)
  BY <1>1 DEF Inner
<1>3. \A t \in T : /\ HDRP(t) = t - 8 /\ t \in Nat
                   /\ t - 8 \in Units /\ t - 8 \in Core(T, T \ U)
  <2>1. PICK F : F = T \ U
    OBVIOUS
  <2>2. \A t \in T : t - 8 \in Units /\ t - 8 \in Core(T, F)
                     /\ HDRP(t) = t - 8 /\ t \in Nat
    <3>1. Cuts(T, h.brk) /\ F \subseteq Inner(T, h.brk)
      BY <1>1, <1>2, <2>1
    <3>2. QED
      BY <3>1, CoreHas
  <2>3. QED
    BY <2>1, <2>2
<1>4. ASSUME NEW t \in T
      PROVE  /\ SizeAt(g, t) = SizeAt(h, t) /\ SizeAt(h, t) \in Int
             /\ g.mem[t - 8] = h.mem[t - 8]
  <2>1. Agree(h, g, Core(T, T \ U))
    BY DEF Alike
  <2>2. QED
    BY <1>3, <2>1, AgreeGet, SMTT(30) DEF SizeAt, Agree
<1>5. QED
  BY <1>1, <1>2, <1>3, <1>4
-----------------------------------------------------------------------------
(* The functions keep two alike heaps alike.                                 *)

\* Writing to a word they agree in.
LEMMA AgreeWrite ==
    ASSUME NEW h, NEW g, NEW A, Agree(h, g, A), NEW p \in A, NEW val \in Int
    PROVE  Agree(PUT(h, p, val), PUT(g, p, val), A)
<1>1. Agree(PUT(h, p, val), PUT(g, p, val), A \cup {p})
  BY AgreePut
<1>2. QED
  BY <1>1, AgreeLess

\* Writing anywhere.
LEMMA AgreeAnywhere ==
    ASSUME NEW h, NEW g, NEW A, Agree(h, g, A), NEW p, NEW val \in Int
    PROVE  Agree(PUT(h, p, val), PUT(g, p, val), A)
<1>1. Agree(PUT(h, p, val), PUT(g, p, val), A \cup {p})
  BY AgreePut
<1>2. QED
  BY <1>1, AgreeLess

\* The block behind one that mm_free has given other tags.
LEMMA NextOfFreed ==
    ASSUME NEW h, NEW T, NEW U, Tagged(h, T, U),
           NEW bp \in U, bp # heap_listp, NEW q, Adj(T, bp, q),
           NEW size, size = GET_SIZE(h, HDRP(bp)),
           NEW hdr, hdr = PUT(h, HDRP(bp),
                            PACK_HDR(size, GET_PREV_ALLOC(h, HDRP(bp)), 0)),
           NEW ftr, ftr = PUT(hdr, FTRP(hdr, bp), PACK_FTR(size))
    PROVE  NEXT_BLKP(ftr, bp) = q
<1>1. PICK g : g = UNSET_PREV_ALLOC(ftr, HDRP(NEXT_BLKP(ftr, bp)))
  OBVIOUS
<1>2. /\ SameBut(h, g, {bp - 8, q - 16, q - 8})
      /\ g.free_list_head = h.free_list_head
      /\ SizeAt(g, bp) = q - bp /\ ~UsedAt(g, bp)
      /\ UsedBefore(g, bp) <=> UsedBefore(h, bp)
      /\ SizeAt(g, q) = SizeAt(h, q)
      /\ UsedAt(g, q) <=> UsedAt(h, q)
      /\ ~UsedBefore(g, q) /\ GET_SIZE(g, q - 16) = q - bp
      /\ NEXT_BLKP(ftr, bp) = q
  BY <1>1, FreeTags
<1>3. QED
  BY <1>2

\* mm_free rewrites the same tags.
LEMMA AgreeUntagged ==
    ASSUME NEW h, NEW g, NEW T, NEW U, Tagged(h, T, U), Tagged(g, T, U),
           NEW A, Agree(h, g, A), \A t \in T : t - 8 \in A,
           NEW bp \in U, bp # heap_listp, bp # h.brk
    PROVE  Agree(Untagged(h, bp), Untagged(g, bp), A)
<1>1. /\ Cuts(T, h.brk) /\ U \subseteq T /\ bp \in T
  BY DEF Tagged
<1>2. PICK q : Adj(T, bp, q)
  BY <1>1, NextExists
<1>3. /\ HDRP(bp) \in Units /\ HDRP(bp) \in A /\ bp \in Nat
      /\ HDRP(q) \in Units /\ HDRP(q) \in A
  BY <1>1, <1>2, CutFacts DEF Adj
<1>4. PICK size : size = GET_SIZE(h, HDRP(bp))
  OBVIOUS
<1>5. PICK v : v = PACK_HDR(size, GET_PREV_ALLOC(h, HDRP(bp)), 0)
  OBVIOUS
<1>6. size = GET_SIZE(g, HDRP(bp)) /\ size \in Int
      /\ v = PACK_HDR(size, GET_PREV_ALLOC(g, HDRP(bp)), 0) /\ v \in Int
      /\ PACK_FTR(size) \in Int
  BY <1>3, <1>4, <1>5, AgreeGet DEF PACK_HDR, PACK_FTR
<1>7. PICK a, b : a = PUT(h, HDRP(bp), v) /\ b = PUT(g, HDRP(bp), v)
  OBVIOUS
<1>8. Agree(a, b, A)
  BY <1>3, <1>6, <1>7, AgreeWrite
<1>9. FTRP(b, bp) = FTRP(a, bp)
  <2>1. GET_SIZE(b, HDRP(bp)) = GET_SIZE(a, HDRP(bp))
    BY <1>3, <1>8, AgreeGet
  <2>2. QED
    BY <2>1 DEF FTRP
<1>10. PICK c, d : /\ c = PUT(a, FTRP(a, bp), PACK_FTR(size))
                   /\ d = PUT(b, FTRP(b, bp), PACK_FTR(size))
  OBVIOUS
<1>11. Agree(c, d, A)
  BY <1>6, <1>8, <1>9, <1>10, AgreeAnywhere
<1>12. NEXT_BLKP(c, bp) = q
  <2>1. a = PUT(h, HDRP(bp),
                PACK_HDR(size, GET_PREV_ALLOC(h, HDRP(bp)), 0))
    BY <1>4, <1>5, <1>7
  <2>2. c = PUT(a, FTRP(a, bp), PACK_FTR(size))
    BY <1>10
  <2>3. size = GET_SIZE(h, HDRP(bp))
    BY <1>4, <1>6
  <2>4. QED
    BY <1>2, <2>1, <2>2, <2>3, NextOfFreed
<1>13. NEXT_BLKP(d, bp) = q
  <2>1. b = PUT(g, HDRP(bp),
                PACK_HDR(size, GET_PREV_ALLOC(g, HDRP(bp)), 0))
    BY <1>5, <1>6, <1>7
  <2>2. d = PUT(b, FTRP(b, bp), PACK_FTR(size))
    BY <1>10
  <2>3. size = GET_SIZE(g, HDRP(bp))
    BY <1>4, <1>6
  <2>4. QED
    BY <1>2, <2>1, <2>2, <2>3, NextOfFreed
<1>14. PICK x : x = GET(c, HDRP(q)) - 2 * GET_PREV_ALLOC(c, HDRP(q))
  OBVIOUS
<1>15. x = GET(d, HDRP(q)) - 2 * GET_PREV_ALLOC(d, HDRP(q)) /\ x \in Int
  BY <1>3, <1>11, <1>14, AgreeGet
<1>16. Agree(PUT(c, HDRP(q), x), PUT(d, HDRP(q), x), A)
  BY <1>3, <1>11, <1>15, AgreeWrite
<1>17. /\ Untagged(h, bp) = UNSET_PREV_ALLOC(c, HDRP(NEXT_BLKP(c, bp)))
       /\ Untagged(g, bp) = UNSET_PREV_ALLOC(d, HDRP(NEXT_BLKP(d, bp)))
  BY <1>4, <1>5, <1>6, <1>7, <1>10 DEF Untagged
<1>18. QED
  BY <1>12, <1>13, <1>14, <1>15, <1>16, <1>17 DEF UNSET_PREV_ALLOC

\* A block is merged and listed in both.
LEMMA AlikeCoalesce ==
    ASSUME NEW h, NEW g, NEW T, NEW U, NEW bp,
           Loose(h, T, U, bp), Loose(g, T, U, bp),
           NEW A, Agree(h, g, A), Core(T, (T \ U) \ {bp}) \subseteq A,
           NEW k, k = coalesce(h, bp), NEW l, l = coalesce(g, bp)
    PROVE  /\ l.bp = k.bp
           /\ \E S : /\ S \subseteq T /\ k.bp \in S \ U
                     /\ Alike(k.heap, l.heap, S, U)
<1>1. PICK at : at = k.bp
  OBVIOUS
<1>2. l.bp = at /\ Agree(k.heap, l.heap, A \cup {at, at + 8})
  BY <1>1, AgreeCoalesce
<1>3. PICK S : /\ S \subseteq T /\ Sound(k.heap, S, U) /\ at \in S \ U
               /\ bp \in S => at = bp
  BY <1>1, CoalesceKeeps DEF Coalesced
<1>4. PICK R : Sound(l.heap, R, U)
  BY <1>2, CoalesceKeeps DEF Coalesced
<1>5. PICK B : B = A \cup {at, at + 8}
  OBVIOUS
<1>6. Core(S, S \ U) \subseteq B
  <2>1. ASSUME NEW a \in Core(S, S \ U) PROVE a \in B
    <3>1. a \in Units /\ (a + 8 \in S \/ a \in S \ U \/ a - 8 \in S \ U)
      BY <2>1 DEF Core
    <3>2. a \in Nat
      BY <3>1, UnitsAre
    <3>3. at \in Int
      BY <1>3, CutFacts DEF Sound, Tagged
    <3>4. CASE a + 8 \in T
      BY <1>5, <3>1, <3>4 DEF Core
    <3>5. CASE a \in S \ U
      <4>1. CASE a = bp
        BY <1>3, <1>5, <3>5, <4>1
      <4>2. CASE a # bp
        <5>1. a \in (T \ U) \ {bp}
          BY <1>3, <3>5, <4>2
        <5>2. QED
          BY <1>5, <3>1, <5>1 DEF Core
      <4>3. QED
        BY <4>1, <4>2
    <3>6. CASE a - 8 \in S \ U
      <4>1. CASE a - 8 = bp
        <5>1. a = at + 8
          BY <1>3, <3>2, <3>3, <3>6, <4>1
        <5>2. QED
          BY <1>5, <5>1
      <4>2. CASE a - 8 # bp
        <5>1. a - 8 \in (T \ U) \ {bp}
          BY <1>3, <3>6, <4>2
        <5>2. QED
          BY <1>5, <3>1, <5>1 DEF Core
      <4>3. QED
        BY <4>1, <4>2
    <3>7. QED
      BY <1>3, <3>1, <3>4, <3>5, <3>6
  <2>2. QED
    BY <2>1
<1>7. Alike(k.heap, l.heap, S, U)
  BY <1>2, <1>3, <1>4, <1>5, <1>6, AlikeFrom
<1>8. QED
  BY <1>1, <1>2, <1>3, <1>7

\* A block is given back in both.
LEMMA AlikeFree ==
    ASSUME NEW h, NEW g, NEW T, NEW U, Alike(h, g, T, U),
           NEW bp \in U, bp # heap_listp, bp # h.brk,
           NEW V, V = U \ {bp}
    PROVE  \E S : S \subseteq T /\ Alike(mm_free(h, bp), mm_free(g, bp), S, V)
<1>1. PICK A : A = Core(T, T \ U)
  OBVIOUS
<1>2. /\ Sound(h, T, U) /\ Sound(g, T, U) /\ Tagged(h, T, U)
      /\ Tagged(g, T, U) /\ g.brk = h.brk /\ Agree(h, g, A)
      /\ \A t \in T : t - 8 \in A
  BY <1>1, AlikeFacts DEF Alike
<1>3. PICK d, e : d = Untagged(h, bp) /\ e = Untagged(g, bp)
  OBVIOUS
<1>4. Loose(d, T, V, bp) /\ Loose(e, T, V, bp)
  BY <1>2, <1>3, FreeLoose
<1>5. Agree(d, e, A)
  BY <1>2, <1>3, AgreeUntagged
<1>6. (T \ V) \ {bp} = T \ U
  OBVIOUS
<1>7. Core(T, (T \ V) \ {bp}) \subseteq A
  BY <1>1, <1>6
<1>8. PICK k, l : k = coalesce(d, bp) /\ l = coalesce(e, bp)
  OBVIOUS
<1>9. \E S : S \subseteq T /\ Alike(k.heap, l.heap, S, V)
  BY <1>4, <1>5, <1>7, <1>8, AlikeCoalesce
<1>10. mm_free(h, bp) = k.heap /\ mm_free(g, bp) = l.heap
  BY <1>3, <1>8, FreeIs
<1>11. QED
  BY <1>9, <1>10
-----------------------------------------------------------------------------

\* The end that extend_heap writes behind the new block.
LEMMA NextOfExtended ==
    ASSUME NEW h, NEW T, NEW U, Tagged(h, T, U), NEW brk, brk = h.brk,
           NEW len \in Nat, len % 8 = 0, len >= 32,
           NEW end, end = brk + len, end <= MAX_HEAP,
           NEW k, k = [h EXCEPT !.brk = end],
           NEW hdr, hdr = PUT(k, HDRP(brk),
                            PACK_HDR(len, GET_PREV_ALLOC(h, HDRP(brk)), 0)),
           NEW ftr, ftr = PUT(hdr, FTRP(hdr, brk), PACK_FTR(len))
    PROVE  HDRP(NEXT_BLKP(ftr, brk)) = end - 8
<1>1. PICK g : g = PUT(ftr, HDRP(NEXT_BLKP(ftr, brk)), PACK_HDR(0, 0, 1))
  OBVIOUS
<1>2. Extended(h, k, g, brk, end) /\ HDRP(NEXT_BLKP(ftr, brk)) = end - 8
  BY <1>1, ExtendTags
<1>3. QED
  BY <1>2

\* extend_heap writes the same tags.
LEMMA AgreeLengthened ==
    ASSUME NEW h, NEW g, NEW T, NEW U, Tagged(h, T, U), Tagged(g, T, U),
           NEW A, Agree(h, g, A), \A t \in T : t - 8 \in A,
           NEW len \in Nat, len % 8 = 0, len >= 32, NEW brk, brk = h.brk,
           NEW end, end = brk + len, end <= MAX_HEAP
    PROVE  Agree(Lengthened(h, len), Lengthened(g, len), A \cup {end - 8})
<1>1. brk \in T /\ g.brk = brk /\ Cuts(T, brk)
  BY DEF Tagged, Agree
<1>2. /\ HDRP(brk) \in Units /\ HDRP(brk) \in A /\ brk \in Nat /\ end \in Int
  BY <1>1, CutFacts
<1>3. PICK k, l : k = [h EXCEPT !.brk = end] /\ l = [g EXCEPT !.brk = end]
  OBVIOUS
<1>4. Agree(k, l, A)
  BY <1>2, <1>3, AgreeEnd
<1>5. PICK v : v = PACK_HDR(len, GET_PREV_ALLOC(h, HDRP(brk)), 0)
  OBVIOUS
<1>6. v = PACK_HDR(len, GET_PREV_ALLOC(g, HDRP(brk)), 0) /\ v \in Int
      /\ PACK_FTR(len) \in Int /\ PACK_HDR(0, 0, 1) \in Int
  BY <1>2, <1>5, AgreeGet DEF PACK_HDR, PACK_FTR
<1>7. PICK a, b : a = PUT(k, HDRP(brk), v) /\ b = PUT(l, HDRP(brk), v)
  OBVIOUS
<1>8. Agree(a, b, A)
  BY <1>2, <1>4, <1>6, <1>7, AgreeWrite
<1>9. FTRP(b, brk) = FTRP(a, brk)
  <2>1. GET_SIZE(b, HDRP(brk)) = GET_SIZE(a, HDRP(brk))
    BY <1>2, <1>8, AgreeGet
  <2>2. QED
    BY <2>1 DEF FTRP
<1>10. PICK c, d : /\ c = PUT(a, FTRP(a, brk), PACK_FTR(len))
                   /\ d = PUT(b, FTRP(b, brk), PACK_FTR(len))
  OBVIOUS
<1>11. Agree(c, d, A)
  BY <1>6, <1>8, <1>9, <1>10, AgreeAnywhere
<1>12. HDRP(NEXT_BLKP(c, brk)) = end - 8
  <2>1. a = PUT(k, HDRP(brk), PACK_HDR(len, GET_PREV_ALLOC(h, HDRP(brk)), 0))
    BY <1>5, <1>7
  <2>2. c = PUT(a, FTRP(a, brk), PACK_FTR(len))
    BY <1>10
  <2>3. k = [h EXCEPT !.brk = end]
    BY <1>3
  <2>4. QED
    BY <2>1, <2>2, <2>3, NextOfExtended
<1>13. HDRP(NEXT_BLKP(d, brk)) = end - 8
  <2>1. b = PUT(l, HDRP(brk), PACK_HDR(len, GET_PREV_ALLOC(g, HDRP(brk)), 0))
    BY <1>6, <1>7
  <2>2. d = PUT(b, FTRP(b, brk), PACK_FTR(len))
    BY <1>10
  <2>3. l = [g EXCEPT !.brk = end] /\ brk = g.brk
    BY <1>1, <1>3
  <2>4. QED
    BY <2>1, <2>2, <2>3, NextOfExtended
<1>14. PICK x : x = PACK_HDR(0, 0, 1)
  OBVIOUS
<1>15. Agree(PUT(c, end - 8, x), PUT(d, end - 8, x), A \cup {end - 8})
  BY <1>6, <1>11, <1>14, AgreePut
<1>16. /\ Lengthened(h, len) = PUT(c, end - 8, x)
       /\ Lengthened(g, len) = PUT(d, end - 8, x)
  BY <1>1, <1>3, <1>5, <1>6, <1>7, <1>10, <1>12, <1>13, <1>14 DEF Lengthened
<1>17. QED
  BY <1>15, <1>16

\* Both heaps grow, or none.
LEMMA AlikeExtend ==
    ASSUME NEW h, NEW g, NEW T, NEW U, Alike(h, g, T, U), NEW size \in Nat,
           size % 8 = 0, size >= 32, size < WORD \div 2,
           NEW res, res = extend_heap(h, size),
           NEW ret, ret = extend_heap(g, size)
    PROVE  /\ ret.bp = res.bp
           /\ IF res.bp = NULL THEN res.heap = h /\ ret.heap = g
              ELSE \E S, V : /\ Alike(res.heap, ret.heap, S, V)
                             /\ res.bp \in S \ V
<1>1. PICK A : A = Core(T, T \ U)
  OBVIOUS
<1>2. PICK brk, end : brk = h.brk /\ end = brk + size
  OBVIOUS
<1>3. /\ Sound(h, T, U) /\ Sound(g, T, U) /\ Tagged(h, T, U)
      /\ Tagged(g, T, U) /\ g.brk = brk /\ Agree(h, g, A)
      /\ \A t \in T : t - 8 \in A
      /\ brk \in Nat /\ brk >= 24 /\ brk \in U /\ brk \in T
  <2>1. /\ Sound(h, T, U) /\ Sound(g, T, U) /\ Tagged(h, T, U)
        /\ Tagged(g, T, U) /\ g.brk = brk /\ Agree(h, g, A)
        /\ \A t \in T : t - 8 \in A
        /\ Cuts(T, brk) /\ brk \in U
    BY <1>1, <1>2, AlikeFacts DEF Alike
  <2>2. brk \in T /\ 24 \in T /\ brk \in Nat
    BY <2>1 DEF Cuts
  <2>3. 24 <= brk
    BY <2>1, <2>2, CutFacts
  <2>4. QED
    BY <2>1, <2>2, <2>3
<1>4. /\ res = IF end > MAX_HEAP THEN [heap |-> h, bp |-> NULL]
               ELSE coalesce(Lengthened(h, size), brk)
      /\ ret = IF end > MAX_HEAP THEN [heap |-> g, bp |-> NULL]
               ELSE coalesce(Lengthened(g, size), brk)
  BY <1>2, <1>3, ExtendIs
<1>5. CASE end > MAX_HEAP
  BY <1>4, <1>5
<1>6. CASE ~(end > MAX_HEAP)
  <2>1. PICK d, e : d = Lengthened(h, size) /\ e = Lengthened(g, size)
    OBVIOUS
  <2>2. end <= MAX_HEAP
    BY <1>2, <1>3, <1>6, Numbers
  <2>3. PICK S, V : S = T \cup {end} /\ V = (U \ {brk}) \cup {end}
    OBVIOUS
  <2>4. Loose(d, S, V, brk) /\ end \notin T
    <3>1. h.brk + size <= MAX_HEAP
      BY <1>2, <2>2
    <3>2. PICK dd, SS, VV, bb, ee :
              /\ dd = Lengthened(h, size) /\ bb = h.brk /\ ee = bb + size
              /\ SS = T \cup {ee} /\ VV = (U \ {bb}) \cup {ee}
              /\ Loose(dd, SS, VV, bb) /\ ee \notin T
      BY <1>3, <3>1, ExtendLoose
    <3>3. dd = d /\ SS = S /\ VV = V /\ bb = brk /\ ee = end
      BY <1>2, <2>1, <2>3, <3>2
    <3>4. QED
      BY <3>2, <3>3
  <2>5. Loose(e, S, V, brk)
    <3>1. g.brk + size <= MAX_HEAP
      BY <1>2, <1>3, <2>2
    <3>2. PICK dd, SS, VV, bb, ee :
              /\ dd = Lengthened(g, size) /\ bb = g.brk /\ ee = bb + size
              /\ SS = T \cup {ee} /\ VV = (U \ {bb}) \cup {ee}
              /\ Loose(dd, SS, VV, bb) /\ ee \notin T
      BY <1>3, <3>1, ExtendLoose
    <3>3. dd = e /\ SS = S /\ VV = V /\ bb = brk
      BY <1>2, <1>3, <2>1, <2>3, <3>2
    <3>4. QED
      BY <3>2, <3>3
  <2>6. PICK B : B = A \cup {end - 8}
    OBVIOUS
  <2>7. Agree(d, e, B)
    BY <1>2, <1>3, <2>1, <2>2, <2>6, AgreeLengthened
  <2>8. (S \ V) \ {brk} = T \ U
    BY <1>3, <2>3, <2>4
  <2>9. Core(S, (S \ V) \ {brk}) \subseteq B
    <3>1. ASSUME NEW a \in Core(S, T \ U) PROVE a \in B
      <4>1. /\ a \in Units /\ a \in Nat
            /\ a + 8 \in S \/ a \in T \ U \/ a - 8 \in T \ U
        BY <3>1, UnitsAre DEF Core
      <4>2. CASE a + 8 = end
        BY <2>6, <4>1, <4>2
      <4>3. CASE a + 8 # end
        BY <1>1, <2>3, <2>6, <4>1, <4>3 DEF Core
      <4>4. QED
        BY <4>2, <4>3
    <3>2. QED
      BY <2>8, <3>1
  <2>10. PICK k, l : k = coalesce(d, brk) /\ l = coalesce(e, brk)
    OBVIOUS
  <2>11. /\ l.bp = k.bp
         /\ \E R : /\ R \subseteq S /\ k.bp \in R \ V
                   /\ Alike(k.heap, l.heap, R, V)
    <3>1. k = coalesce(d, brk)
      BY <2>10
    <3>2. l = coalesce(e, brk)
      BY <2>10
    <3>3. Loose(d, S, V, brk)
      BY <2>4
    <3>4. Loose(e, S, V, brk)
      BY <2>5
    <3>5. Agree(d, e, B)
      BY <2>7
    <3>6. Core(S, (S \ V) \ {brk}) \subseteq B
      BY <2>9
    <3>7. l.bp = k.bp
      BY <3>1, <3>2, <3>3, <3>4, <3>5, <3>6, AlikeCoalesce
    <3>8. \E R : /\ R \subseteq S /\ k.bp \in R \ V
                 /\ Alike(k.heap, l.heap, R, V)
      BY <3>1, <3>2, <3>3, <3>4, <3>5, <3>6, AlikeCoalesce
    <3>9. QED
      BY <3>7, <3>8
  <2>12. res = k /\ ret = l
    BY <1>4, <1>6, <2>1, <2>10
  <2>13. res.bp # NULL
    <3>1. PICK R : k.bp \in R /\ Alike(k.heap, l.heap, R, V)
      BY <2>11
    <3>2. Cuts(R, k.heap.brk)
      BY <3>1, AlikeFacts
    <3>3. k.bp >= 8
      BY <3>1, <3>2, CutFacts
    <3>4. QED
      BY <2>12, <3>3 DEF NULL
  <2>14. QED
    BY <2>11, <2>12, <2>13
<1>7. QED
  BY <1>5, <1>6
-----------------------------------------------------------------------------

\* The block behind one that place has given its tags.
LEMMA NextOfUsed ==
    ASSUME NEW h, NEW T, NEW U, Tagged(h, T, U),
           NEW bp \in T \ U, NEW q, Adj(T, bp, q),
           NEW size, size = GET_SIZE(h, HDRP(bp)),
           NEW hdr, hdr = PUT(h, HDRP(bp), PACK_HDR(size, 1, 1))
    PROVE  NEXT_BLKP(hdr, bp) = q
<1>1. PICK g : g = SET_PREV_ALLOC(hdr, HDRP(NEXT_BLKP(hdr, bp)))
  OBVIOUS
<1>2. UseTags(h, g, bp, q) /\ NEXT_BLKP(hdr, bp) = q
  BY <1>1, UseTagsIs
<1>3. QED
  BY <1>2

\* A block is used as a whole in both.
LEMMA AlikeUseWhole ==
    ASSUME NEW h, NEW g, NEW T, NEW U, Alike(h, g, T, U), NEW bp \in T \ U
    PROVE  \E S, V : Alike(UseWhole(h, bp), UseWhole(g, bp), S, V)
<1>1. PICK A : A = Core(T, T \ U)
  OBVIOUS
<1>2. PICK F : F = T \ U
  OBVIOUS
<1>3. /\ Sound(h, T, U) /\ Sound(g, T, U) /\ Tagged(h, T, U)
      /\ Tagged(g, T, U) /\ Cuts(T, h.brk) /\ g.brk = h.brk /\ Agree(h, g, A)
      /\ F \subseteq Inner(T, h.brk) /\ bp # h.brk
      /\ \A t \in T : t - 8 \in A /\ t - 8 \in Units /\ HDRP(t) = t - 8
  BY <1>1, <1>2, AlikeFacts DEF Alike
<1>4. bp \in Units /\ bp + 8 \in Units /\ {bp, bp + 8} \subseteq A
  BY <1>1, <1>2, <1>3, CoreHas
<1>5. PICK q : Adj(T, bp, q)
  BY <1>3, NextExists
<1>6. /\ HDRP(bp) \in Units /\ HDRP(bp) \in A /\ bp \in Nat /\ q \in Nat
      /\ HDRP(q) \in Units /\ HDRP(q) \in A /\ q \in T
  BY <1>3, <1>5, CutFacts DEF Adj
<1>7. PICK size : size = GET_SIZE(h, HDRP(bp))
  OBVIOUS
<1>8. size = GET_SIZE(g, HDRP(bp)) /\ size \in Int
      /\ PACK_HDR(size, 1, 1) \in Int
  BY <1>3, <1>6, <1>7, AgreeGet DEF PACK_HDR
<1>9. size = q - bp
  BY <1>3, <1>5, <1>6, <1>7 DEF Tagged, Told, SizeAt
<1>10. PICK a : a = PUT(h, HDRP(bp), PACK_HDR(size, 1, 1))
  OBVIOUS
<1>11. PICK b : b = PUT(g, HDRP(bp), PACK_HDR(size, 1, 1))
  OBVIOUS
<1>12. Agree(a, b, A)
  BY <1>3, <1>6, <1>8, <1>10, <1>11, AgreeWrite
<1>13. NEXT_BLKP(a, bp) = q
  BY <1>3, <1>5, <1>7, <1>10, NextOfUsed
<1>14. NEXT_BLKP(b, bp) = q
  BY <1>3, <1>5, <1>8, <1>11, NextOfUsed
<1>15. PICK x : x = GET(a, HDRP(q)) + 2 * (1 - GET_PREV_ALLOC(a, HDRP(q)))
  OBVIOUS
<1>16. x = GET(b, HDRP(q)) + 2 * (1 - GET_PREV_ALLOC(b, HDRP(q))) /\ x \in Int
  BY <1>6, <1>12, <1>15, AgreeGet
<1>17. PICK c, d : c = PUT(a, HDRP(q), x) /\ d = PUT(b, HDRP(q), x)
  OBVIOUS
<1>18. Agree(c, d, A)
  BY <1>6, <1>12, <1>16, <1>17, AgreeWrite
<1>19. PICK k, l : /\ k = remove_from_free_list(c, bp)
                   /\ l = remove_from_free_list(d, bp)
  OBVIOUS
<1>20. Agree(k, l, A)
  BY <1>4, <1>18, <1>19, AgreeRemove
<1>21. k = UseWhole(h, bp) /\ l = UseWhole(g, bp)
  <2>1. c = SET_PREV_ALLOC(a, HDRP(NEXT_BLKP(a, bp)))
    BY <1>13, <1>15, <1>17 DEF SET_PREV_ALLOC
  <2>2. d = SET_PREV_ALLOC(b, HDRP(NEXT_BLKP(b, bp)))
    BY <1>14, <1>16, <1>17 DEF SET_PREV_ALLOC
  <2>3. k = UseWhole(h, bp)
    BY <1>7, <1>10, <1>19, <2>1 DEF UseWhole
  <2>4. l = UseWhole(g, bp)
    BY <1>8, <1>11, <1>19, <2>2 DEF UseWhole
  <2>5. QED
    BY <2>3, <2>4
<1>22. SizeAt(h, bp) >= size /\ SizeAt(g, bp) >= size
  BY <1>7, <1>8 DEF SizeAt
<1>23. PICK V : V = U \cup {bp}
  OBVIOUS
<1>24. PICK S : S \subseteq T \cup {bp + size} /\ Sound(k, S, V)
  BY <1>3, <1>21, <1>22, <1>23, UseWholeKeeps DEF Placed
<1>25. PICK R : Sound(l, R, V)
  BY <1>3, <1>21, <1>22, <1>23, UseWholeKeeps DEF Placed
<1>26. S \subseteq T
  BY <1>6, <1>9, <1>24
<1>27. Core(S, S \ V) \subseteq A
  BY <1>1, <1>23, <1>26 DEF Core
<1>28. Alike(k, l, S, V)
  BY <1>20, <1>24, <1>25, <1>27, AlikeFrom
<1>29. QED
  BY <1>21, <1>28

\* Where the second part of a block that is cut in two begins.
LEMMA NextOfSplit ==
    ASSUME NEW h, NEW T, NEW U, Sound(h, T, U), NEW bp \in T \ U,
           NEW size \in Nat, size % 8 = 0, size >= 32,
           SizeAt(h, bp) >= size + 32,
           NEW b, b = remove_from_free_list(
                            PUT(h, HDRP(bp), PACK_HDR(size, 1, 1)), bp)
    PROVE  /\ Placed(h, SplitOff(h, bp, size), T, U, bp, size)
           /\ NEXT_BLKP(b, bp) = bp + size
<1>1. PICK g : g = SplitOff(h, bp, size)
  OBVIOUS
<1>2. Placed(h, g, T, U, bp, size) /\ NEXT_BLKP(b, bp) = bp + size
  BY <1>1, SplitOffKeeps
<1>3. QED
  BY <1>1, <1>2

\* A block is cut in two in both.
LEMMA AlikeSplitOff ==
    ASSUME NEW h, NEW g, NEW T, NEW U, Alike(h, g, T, U), NEW bp \in T \ U,
           NEW size \in Nat, size % 8 = 0, size >= 32,
           SizeAt(h, bp) >= size + 32
    PROVE  \E S, V : Alike(SplitOff(h, bp, size), SplitOff(g, bp, size), S, V)
<1>1. PICK A : A = Core(T, T \ U)
  OBVIOUS
<1>2. PICK F : F = T \ U
  OBVIOUS
<1>3. /\ Sound(h, T, U) /\ Sound(g, T, U) /\ Tagged(h, T, U)
      /\ Tagged(g, T, U) /\ Cuts(T, h.brk) /\ g.brk = h.brk /\ Agree(h, g, A)
      /\ F \subseteq Inner(T, h.brk) /\ bp # h.brk
      /\ \A t \in T : /\ t - 8 \in A /\ t - 8 \in Units /\ HDRP(t) = t - 8
                      /\ t \in Nat /\ SizeAt(g, t) = SizeAt(h, t)
  BY <1>1, <1>2, AlikeFacts DEF Alike
<1>4. bp \in Units /\ bp + 8 \in Units /\ {bp, bp + 8} \subseteq A
  BY <1>1, <1>2, <1>3, CoreHas
<1>5. HDRP(bp) \in Units /\ HDRP(bp) \in A /\ bp \in Nat /\ bp >= 8
  BY <1>3, CutFacts
<1>6. PICK rest : rest = GET_SIZE(h, HDRP(bp)) - size
  OBVIOUS
<1>7. /\ rest = GET_SIZE(g, HDRP(bp)) - size /\ rest \in Int
      /\ PACK_HDR(size, 1, 1) \in Int /\ PACK_HDR(rest, 1, 0) \in Int
      /\ PACK_FTR(rest) \in Int
  BY <1>3, <1>5, <1>6, AgreeGet DEF PACK_HDR, PACK_FTR
<1>8. PICK a : a = PUT(h, HDRP(bp), PACK_HDR(size, 1, 1))
  OBVIOUS
<1>9. PICK b : b = PUT(g, HDRP(bp), PACK_HDR(size, 1, 1))
  OBVIOUS
<1>10. Agree(a, b, A)
  BY <1>3, <1>5, <1>7, <1>8, <1>9, AgreeWrite
<1>11. PICK c : c = remove_from_free_list(a, bp)
  OBVIOUS
<1>12. PICK d : d = remove_from_free_list(b, bp)
  OBVIOUS
<1>13. Agree(c, d, A)
  BY <1>4, <1>10, <1>11, <1>12, AgreeRemove
<1>14. PICK m : m = bp + size
  OBVIOUS
<1>15. Placed(h, SplitOff(h, bp, size), T, U, bp, size) /\ NEXT_BLKP(c, bp) = m
  BY <1>3, <1>8, <1>11, <1>14, NextOfSplit
<1>16. Placed(g, SplitOff(g, bp, size), T, U, bp, size) /\ NEXT_BLKP(d, bp) = m
  <2>1. SizeAt(g, bp) >= size + 32
    BY <1>3
  <2>2. QED
    BY <1>3, <1>9, <1>12, <1>14, <2>1, NextOfSplit
<1>17. PICK S, V : /\ S \subseteq T \cup {m} /\ V = U \cup {bp}
                   /\ Sound(SplitOff(h, bp, size), S, V)
  BY <1>14, <1>15 DEF Placed
<1>18. PICK R : Sound(SplitOff(g, bp, size), R, V)
  BY <1>16, <1>17 DEF Placed
<1>19. m \in Nat /\ m - 8 \in Units /\ HDRP(m) = m - 8
  <2>1. PICK q : Adj(T, bp, q)
    BY <1>3, NextExists
  <2>2. /\ q \in Nat /\ q - 8 \in Units /\ bp % 8 = 0 /\ q <= h.brk
        /\ SizeAt(h, bp) = q - bp
    BY <1>3, <2>1, CutFacts DEF Adj, Tagged, Told
  <2>3. m \in Nat /\ m - 8 \in Nat /\ (m - 8) % 8 = 0 /\ m - 8 <= q - 8
    BY <1>5, <1>14, <2>2
  <2>4. q - 8 < MAX_HEAP /\ MAX_HEAP \in Nat
    BY <2>2, UnitsAre, Numbers
  <2>5. m - 8 < MAX_HEAP
    BY <2>2, <2>3, <2>4
  <2>6. QED
    BY <2>3, <2>5, UnitsAre DEF HDRP, SIZE_T_SIZE
<1>20. PICK B : B = A \cup {m - 8}
  OBVIOUS
<1>21. PICK e, f : /\ e = PUT(c, HDRP(m), PACK_HDR(rest, 1, 0))
                   /\ f = PUT(d, HDRP(m), PACK_HDR(rest, 1, 0))
  OBVIOUS
<1>22. Agree(e, f, B)
  BY <1>7, <1>13, <1>19, <1>20, <1>21, AgreePut
<1>23. FTRP(f, m) = FTRP(e, m)
  <2>1. GET_SIZE(f, HDRP(m)) = GET_SIZE(e, HDRP(m))
    BY <1>19, <1>20, <1>22, AgreeGet
  <2>2. QED
    BY <2>1 DEF FTRP
<1>24. PICK i, j : /\ i = PUT(e, FTRP(e, m), PACK_FTR(rest))
                   /\ j = PUT(f, FTRP(f, m), PACK_FTR(rest))
  OBVIOUS
<1>25. Agree(i, j, B)
  BY <1>7, <1>22, <1>23, <1>24, AgreeAnywhere
<1>26. PICK k, l : k = add_to_free_list(i, m) /\ l = add_to_free_list(j, m)
  OBVIOUS
<1>27. Agree(k, l, B \cup {m, m + 8})
  BY <1>19, <1>25, <1>26, AgreeAdd
<1>28. k = SplitOff(h, bp, size)
  BY <1>6, <1>8, <1>11, <1>15, <1>21, <1>24, <1>26 DEF SplitOff
<1>29. l = SplitOff(g, bp, size)
  BY <1>7, <1>9, <1>12, <1>16, <1>21, <1>24, <1>26 DEF SplitOff
<1>30. PICK C : C = B \cup {m, m + 8}
  OBVIOUS
<1>31. Core(S, S \ V) \subseteq C
  <2>1. ASSUME NEW w \in Core(S, S \ V) PROVE w \in C
    <3>1. /\ w \in Units /\ w \in Nat
          /\ w + 8 \in S \/ w \in S \ V \/ w - 8 \in S \ V
      BY <2>1, UnitsAre DEF Core
    <3>2. CASE w + 8 = m \/ w = m \/ w - 8 = m
      BY <1>19, <1>20, <1>30, <3>1, <3>2
    <3>3. CASE w + 8 # m /\ w # m /\ w - 8 # m
      BY <1>1, <1>17, <1>20, <1>30, <3>1, <3>3 DEF Core
    <3>4. QED
      BY <3>2, <3>3
  <2>2. QED
    BY <2>1
<1>32. Alike(k, l, S, V)
  BY <1>17, <1>18, <1>27, <1>28, <1>29, <1>30, <1>31, AlikeFrom
<1>33. QED
  BY <1>28, <1>29, <1>32

\* The sizes of its blocks are the same.
LEMMA AlikeSizes ==
    ASSUME NEW h, NEW g, NEW T, NEW U, Alike(h, g, T, U), NEW t \in T
    PROVE  SizeAt(g, t) = SizeAt(h, t)
<1>1. Tagged(h, T, U) /\ Agree(h, g, Core(T, T \ U))
  BY DEF Alike, Sound
<1>2. t - 8 \in Units /\ HDRP(t) = t - 8 /\ (t - 8) + 8 = t
  <2>1. Cuts(T, h.brk)
    BY <1>1 DEF Tagged
  <2>2. QED
    BY <2>1, CutFacts
<1>3. t - 8 \in Core(T, T \ U)
  BY <1>2 DEF Core
<1>4. QED
  BY <1>1, <1>2, <1>3, AgreeGet DEF SizeAt

\* A block is placed in both.
LEMMA AlikePlace ==
    ASSUME NEW h, NEW g, NEW T, NEW U, Alike(h, g, T, U), NEW bp \in T \ U,
           NEW size \in Nat, size % 8 = 0, size >= 32, size < WORD \div 2
    PROVE  \E S, V : Alike(place(h, bp, size), place(g, bp, size), S, V)
<1>1. SizeT(size + MinBlock) = size + 32
  <2>1. WORD \in Nat /\ WORD >= 256 /\ WORD % 2 = 0
    BY Numbers
  <2>2. size + 32 < WORD
    BY <2>1
  <2>3. QED
    BY <2>1, <2>2 DEF SizeT, MinBlock, SIZE_T_SIZE, PTR_SIZE
<1>2. SizeAt(g, bp) = SizeAt(h, bp)
  BY AlikeSizes
<1>3. CASE SizeAt(h, bp) >= size + 32
  <2>1. /\ place(h, bp, size) = SplitOff(h, bp, size)
        /\ place(g, bp, size) = SplitOff(g, bp, size)
    BY <1>1, <1>2, <1>3 DEF place, SizeAt
  <2>2. QED
    BY <1>3, <2>1, AlikeSplitOff
<1>4. CASE ~(SizeAt(h, bp) >= size + 32)
  <2>1. /\ place(h, bp, size) = UseWhole(h, bp)
        /\ place(g, bp, size) = UseWhole(g, bp)
    BY <1>1, <1>2, <1>4 DEF place, SizeAt
  <2>2. QED
    BY <2>1, AlikeUseWhole
<1>5. QED
  BY <1>3, <1>4
-----------------------------------------------------------------------------
(* mm_malloc gives the same block of two alike heaps.                        *)

\* They have the same free list.
LEMMA AlikeLists ==
    ASSUME NEW h, NEW g, NEW T, NEW U, Alike(h, g, T, U),
           NEW n, NEW L, Listing(h, n, L, T \ U)
    PROVE  Listing(g, n, L, T \ U)
<1>1. PICK F : F = T \ U
  OBVIOUS
<1>2. Listing(h, n, L, F) /\ Agree(h, g, Core(T, F))
  BY <1>1 DEF Alike
<1>3. Cuts(T, h.brk) /\ F \subseteq Inner(T, h.brk)
  BY <1>1, AlikeFacts
<1>4. \A x \in F : /\ x \in Units /\ x + 8 \in Units
                   /\ x \in Core(T, F) /\ x + 8 \in Core(T, F)
  BY <1>3, CoreHas
<1>5. \A x \in F : g.mem[x] = h.mem[x] /\ g.mem[x + 8] = h.mem[x + 8]
  BY <1>2, <1>4 DEF Agree
<1>6. \A i \in 1 .. n : L[i] \in F
  BY <1>2 DEF Listing
<1>7. g.free_list_head = h.free_list_head
  BY <1>2 DEF Agree
<1>8. Listing(g, n, L, F)
  BY <1>2, <1>5, <1>6, <1>7 DEF Listing
<1>9. QED
  BY <1>1, <1>8

\* So find_fit finds the same block.
LEMMA AlikeFind ==
    ASSUME NEW h, NEW g, NEW T, NEW U, Alike(h, g, T, U), NEW size
    PROVE  find_fit(g, size) = find_fit(h, size)
<1>1. PICK F : F = T \ U
  OBVIOUS
<1>2. /\ Cuts(T, h.brk) /\ Cuts(T, g.brk) /\ Lists(h, F)
      /\ F \subseteq Inner(T, h.brk) /\ F \subseteq Inner(T, g.brk)
      /\ \A t \in T : SizeAt(g, t) = SizeAt(h, t)
  <2>1. /\ Cuts(T, h.brk) /\ g.brk = h.brk /\ F \subseteq Inner(T, h.brk)
        /\ Sound(h, T, U)
    BY <1>1, AlikeFacts
  <2>2. Lists(h, F)
    BY <1>1, <2>1 DEF Sound
  <2>3. \A t \in T : SizeAt(g, t) = SizeAt(h, t)
    BY AlikeSizes
  <2>4. QED
    BY <2>1, <2>2, <2>3
<1>3. PICK n, L : Listing(h, n, L, F)
  BY <1>2 DEF Lists
<1>4. Listing(g, n, L, F)
  BY <1>1, <1>3, AlikeLists
<1>5. FreeList(h) = L /\ FreeList(g) = L
  <2>1. FreeList(h) = L
    BY <1>2, <1>3, FreeListIsList
  <2>2. FreeList(g) = L
    BY <1>2, <1>4, FreeListIsList
  <2>3. QED
    BY <2>1, <2>2
<1>6. \A i \in DOMAIN L :
        GET_SIZE(g, HDRP(L[i])) = GET_SIZE(h, HDRP(L[i]))
  <2>1. L \in [1 .. n -> F]
    BY <1>3 DEF Listing
  <2>2. \A i \in DOMAIN L : L[i] \in T
    BY <1>1, <2>1
  <2>3. QED
    BY <1>2, <2>2 DEF SizeAt
<1> DEFINE fits(k) == {i \in DOMAIN L : size <= GET_SIZE(k, HDRP(L[i]))}
           found(s) == IF s = {} THEN NULL
                       ELSE L[CHOOSE i \in s : \A j \in s : i <= j]
<1>7. fits(g) = fits(h)
  BY <1>6
<1>8. find_fit(h, size) = found(fits(h)) /\ find_fit(g, size) = found(fits(g))
  BY <1>5 DEF find_fit
<1> HIDE DEF fits, found
<1>9. QED
  BY <1>7, <1>8

\* fitting_block gives the same block of both, and they stay alike.
LEMMA AlikeBlock ==
    ASSUME NEW h, NEW g, NEW T, NEW U, Alike(h, g, T, U), NEW a \in Nat,
           a % 8 = 0, a >= 32, a < WORD \div 2,
           NEW got, got = fitting_block(h, find_fit(h, a), a),
           NEW gat, gat = fitting_block(g, find_fit(g, a), a)
    PROVE  /\ gat.bp = got.bp
           /\ IF got.bp = NULL THEN got.heap = h /\ gat.heap = g
              ELSE \E S, V : /\ Alike(got.heap, gat.heap, S, V)
                             /\ got.bp \in S \ V
<1>1. PICK found : found = find_fit(h, a)
  OBVIOUS
<1>2. found = find_fit(g, a)
  BY <1>1, AlikeFind
<1>3. found = NULL \/ found \in T \ U
  <2>1. Sound(h, T, U)
    BY DEF Alike
  <2>2. QED
    BY <1>1, <2>1, FitIs
<1>4. CASE found # NULL
  <2>1. /\ got.heap = h /\ got.bp = found
        /\ gat.heap = g /\ gat.bp = found
    BY <1>1, <1>2, <1>4 DEF fitting_block
  <2>2. Alike(got.heap, gat.heap, T, U) /\ got.bp \in T \ U
    BY <1>3, <1>4, <2>1
  <2>3. QED
    BY <1>4, <2>1, <2>2
<1>5. CASE found = NULL
  <2>1. PICK len : len = Larger(a, CHUNKSIZE)
    OBVIOUS
  <2>2. len \in Nat /\ len % 8 = 0 /\ len >= 32 /\ len < WORD \div 2
    <3>1. CHUNKSIZE \in Nat /\ CHUNKSIZE % 8 = 0 /\ CHUNKSIZE < WORD \div 2
      BY Numbers, HeapAssumption
    <3>2. len = IF a >= CHUNKSIZE THEN a ELSE CHUNKSIZE
      BY <2>1 DEF Larger
    <3>3. QED
      BY <3>1, <3>2
  <2>3. SizeT(len) = len
    BY <2>2, NoOverflow
  <2>4. got = extend_heap(h, len) /\ gat = extend_heap(g, len)
    BY <1>1, <1>2, <1>5, <2>1, <2>3 DEF fitting_block
  <2>5. QED
    BY <2>2, <2>4, AlikeExtend
<1>6. QED
  BY <1>4, <1>5

\* mm_malloc answers alike, and leaves the heaps alike.
LEMMA AlikeMalloc ==
    ASSUME NEW h, NEW g, NEW T, NEW U, Alike(h, g, T, U),
           NEW size, Modest(size),
           NEW res, res = mm_malloc(h, size),
           NEW ret, ret = mm_malloc(g, size)
    PROVE  /\ ret.bp = res.bp
           /\ \E S, V : Alike(res.heap, ret.heap, S, V)
<1>1. PICK a : a = AdjustedSize(size)
  OBVIOUS
<1>2. /\ a \in Nat /\ a % 8 = 0 /\ a >= 32
      /\ a < WORD \div 2 /\ SizeT(a) = a /\ Int32(a) = a
  BY <1>1, AdjustedIs
<1>3. PICK got, gat : /\ got = fitting_block(h, find_fit(h, a), a)
                      /\ gat = fitting_block(g, find_fit(g, a), a)
  OBVIOUS
<1>4. /\ res = IF size = 0 THEN [heap |-> h, bp |-> NULL] ELSE in_block(got, a)
      /\ ret = IF size = 0 THEN [heap |-> g, bp |-> NULL] ELSE in_block(gat, a)
  BY <1>1, <1>2, <1>3 DEF mm_malloc
<1>5. /\ gat.bp = got.bp
      /\ IF got.bp = NULL THEN got.heap = h /\ gat.heap = g
         ELSE \E S, V : /\ Alike(got.heap, gat.heap, S, V)
                        /\ got.bp \in S \ V
  BY <1>2, <1>3, AlikeBlock
<1>6. CASE size = 0
  BY <1>4, <1>6
<1>7. CASE size # 0 /\ got.bp = NULL
  BY <1>4, <1>5, <1>7 DEF in_block
<1>8. CASE size # 0 /\ got.bp # NULL
  <2>1. PICK k, l, bp : k = got.heap /\ l = gat.heap /\ bp = got.bp
    OBVIOUS
  <2>2. PICK S, V : Alike(k, l, S, V) /\ bp \in S \ V
    BY <1>5, <1>8, <2>1
  <2>3. /\ res.heap = place(k, bp, a) /\ res.bp = bp
        /\ ret.heap = place(l, bp, a) /\ ret.bp = bp
    BY <1>4, <1>5, <1>8, <2>1 DEF in_block
  <2>4. \E R, W : Alike(place(k, bp, a), place(l, bp, a), R, W)
    BY <1>2, <2>2, AlikePlace
  <2>5. QED
    BY <2>3, <2>4
<1>9. QED
  BY <1>6, <1>7, <1>8
-----------------------------------------------------------------------------
(* mm_realloc gives the same block of two alike heaps.                       *)

\* Only one set of blocks is told by a heap.
LEMMA SoundUnique ==
    ASSUME NEW h, NEW S, NEW V, Sound(h, S, V),
           NEW R, NEW W, Sound(h, R, W)
    PROVE  R = S /\ W = V
<1>1. Tagged(h, S, V) /\ Tagged(h, R, W)
  BY DEF Sound
<1>2. \A x \in S \cap R : h.mem[x - 8] = h.mem[x - 8]
  OBVIOUS
<1>3. QED
  BY <1>1, <1>2, CutsSame

\* Heaps that are alike are so in either order.
LEMMA AlikeBack ==
    ASSUME NEW h, NEW g, NEW T, NEW U, Alike(h, g, T, U)
    PROVE  Alike(g, h, T, U)
BY DEF Alike, Agree

\* It carries over from one heap to the next.
LEMMA AlikeTrans ==
    ASSUME NEW h, NEW g, NEW k, NEW T, NEW U,
           Alike(h, g, T, U), Alike(g, k, T, U)
    PROVE  Alike(h, k, T, U)
BY DEF Alike, Agree

\* A sound heap is alike itself.
LEMMA AlikeSelf ==
    ASSUME NEW h, NEW T, NEW U, Sound(h, T, U) PROVE Alike(h, h, T, U)
BY HeapsArePlain DEF Alike, Agree, Sound, Tagged

\* Writing the payload of a block in use leaves a heap alike.
LEMMA AlikeWritten ==
    ASSUME NEW h, NEW k, NEW T, NEW U, Sound(h, T, U), Sound(k, T, U),
           k.brk = h.brk, k.free_list_head = h.free_list_head,
           NEW p \in U, p # heap_listp, p # h.brk,
           \A a \in Units : a < p \/ a >= p + SizeAt(h, p) - 8 =>
                                k.mem[a] = h.mem[a]
    PROVE  Alike(h, k, T, U)
<1>1. /\ Tagged(h, T, U) /\ Cuts(T, h.brk) /\ U \subseteq T /\ p \in T
      /\ heap_listp = 8 /\ heap_listp \in U
  BY DEF Sound, Tagged, heap_listp, SIZE_T_SIZE
<1>2. PICK q : Adj(T, p, q)
  BY <1>1, NextExists
<1>3. /\ q \in T /\ SizeAt(h, p) = q - p /\ p < q
      /\ \A t \in T : t <= p \/ q <= t
  BY <1>1, <1>2 DEF Tagged, Told, Adj
<1>4. \A t \in T : /\ t \in Nat
                   /\ \A u \in T : u < t /\ u # heap_listp => u + 32 <= t
  BY <1>1, CutFacts
<1>5. ASSUME NEW a \in Units, a < p \/ a >= q - 8
      PROVE  k.mem[a] = h.mem[a]
  <2>1. p + SizeAt(h, p) - 8 = q - 8
    BY <1>1, <1>3, <1>4
  <2>2. QED
    BY <1>5, <2>1
<1>6. PICK F : F = T \ U
  OBVIOUS
<1>7. ASSUME NEW a \in Units, a \in Core(T, F) PROVE k.mem[a] = h.mem[a]
  <2>1. a \in Nat /\ p \in Nat /\ q \in Nat
    BY <1>1, <1>3, <1>4, UnitsAre
  <2>2. CASE a + 8 \in T
    <3>1. a + 8 <= p \/ q <= a + 8
      BY <1>3, <2>2
    <3>2. QED
      BY <1>5, <2>1, <3>1
  <2>3. CASE a \in F
    <3>1. a \in T /\ a # p
      BY <1>6, <2>3
    <3>2. a <= p \/ q <= a
      BY <1>3, <3>1
    <3>3. QED
      BY <1>5, <2>1, <3>1, <3>2
  <2>4. CASE a - 8 \in F
    <3>1. PICK x : x = a - 8
      OBVIOUS
    <3>2. x \in T /\ x # p /\ x # heap_listp
      BY <1>1, <1>6, <2>4, <3>1
    <3>3. (x <= p \/ q <= x) /\ x \in Nat
      BY <1>3, <1>4, <3>2
    <3>4. x < p => x + 32 <= p
      BY <1>1, <1>4, <3>2
    <3>5. QED
      BY <1>5, <2>1, <3>1, <3>2, <3>3, <3>4
  <2>5. QED
    BY <1>7, <2>2, <2>3, <2>4 DEF Core
<1>8. h \in Plain /\ k \in Plain
  BY HeapsArePlain DEF Sound, Tagged
<1>9. Agree(h, k, Core(T, F))
  BY <1>7, <1>8 DEF Agree
<1>10. QED
  BY <1>6, <1>9 DEF Alike

\* So does memcpy to such a block.
LEMMA AlikeCopy ==
    ASSUME NEW h, NEW T, NEW U, Sound(h, T, U),
           NEW to \in U, to # heap_listp, to # h.brk,
           NEW from \in U, from # heap_listp, from # h.brk,
           NEW len \in Nat, len <= SizeAt(h, to) - 8,
           len <= SizeAt(h, from) - 8, NEW g, g = memcpy(h, to, from, len)
    PROVE  Alike(h, g, T, U)
<1>1. Rewritten(h, g, T, U, to)
  BY CopyKeeps
<1>2. /\ h \in Heaps /\ to \in Nat /\ HDRP(to) \in Units
      /\ Sound(g, T, U) /\ g.brk = h.brk
  BY <1>1, CutFacts DEF Sound, Tagged, Rewritten
<1>3. SizeAt(h, to) \in Int
  <2>1. h.mem[HDRP(to)] \in Int
    BY <1>2, Numbers DEF Heaps, Word
  <2>2. QED
    BY <2>1 DEF SizeAt, GET_SIZE, GET
<1>4. /\ g.free_list_head = h.free_list_head
      /\ g.mem = [p \in Units |->
                    IF p \in to .. to + len - 1 THEN h.mem[from + (p - to)]
                                                ELSE h.mem[p]]
  BY <1>2 DEF memcpy, Heaps
<1>5. ASSUME NEW a \in Units, a < to \/ a >= to + SizeAt(h, to) - 8
      PROVE  g.mem[a] = h.mem[a]
  <2>1. a \notin to .. to + len - 1
    BY <1>2, <1>3, <1>5, UnitsAre
  <2>2. QED
    BY <1>4, <2>1
<1>6. QED
  BY <1>2, <1>4, <1>5, AlikeWritten

\* And it does the same to two heaps.
LEMMA AlikeCopies ==
    ASSUME NEW h, NEW g, NEW T, NEW U, Alike(h, g, T, U),
           NEW to \in U, to # heap_listp, to # h.brk,
           NEW from \in U, from # heap_listp, from # h.brk,
           NEW len \in Nat, len <= SizeAt(h, to) - 8,
           len <= SizeAt(h, from) - 8,
           NEW k, k = memcpy(h, to, from, len),
           NEW l, l = memcpy(g, to, from, len)
    PROVE  Alike(k, l, T, U)
<1>1. Sound(h, T, U) /\ Sound(g, T, U) /\ g.brk = h.brk /\ U \subseteq T
  BY AlikeFacts
<1>2. SizeAt(g, to) = SizeAt(h, to) /\ SizeAt(g, from) = SizeAt(h, from)
  BY <1>1, AlikeSizes
<1>3. Alike(h, k, T, U)
  BY <1>1, AlikeCopy
<1>4. Alike(g, l, T, U)
  <2>1. /\ to # g.brk /\ from # g.brk /\ len <= SizeAt(g, to) - 8
        /\ len <= SizeAt(g, from) - 8
    BY <1>1, <1>2
  <2>2. QED
    BY <1>1, <2>1, AlikeCopy
<1>5. QED
  BY <1>3, <1>4, AlikeBack, AlikeTrans

\* What mm_realloc has when it copies block bp to a new one of k, at to.
Roomy(h, k, to, U, bp) ==
    LET V == ((U \ {h.brk}) \cup {k.brk}) \cup {to}
        len == SizeAt(h, bp) - 8
    IN  /\ KeptAll(h, k, U \ {h.brk}) /\ h.brk <= k.brk
        /\ to \notin U \ {h.brk} /\ to # k.brk
        /\ bp \in V /\ to \in V /\ bp # to /\ bp # k.brk
        /\ to # heap_listp
        /\ k \in Heaps /\ k.brk \in Nat /\ k.brk \in V /\ heap_listp # k.brk
        /\ Kept(h, k, bp) /\ SizeAt(k, bp) = SizeAt(h, bp)
        /\ len \in Nat /\ len <= SizeAt(k, bp) - 8
        /\ len <= SizeAt(k, to) - 8
        /\ \E S : Sound(k, S, V) /\ Cuts(S, k.brk) /\ bp \in S /\ to \in S

\* When mm_realloc moves a block, there is room in the new one for the old.
LEMMA RoomToMove ==
    ASSUME NEW h, NEW T, NEW U, Sound(h, T, U),
           NEW bp \in U, bp # heap_listp, bp # h.brk,
           NEW size, ~(AdjustedSize(size) <= SizeAt(h, bp)),
           NEW twice, AdjustedSize(size) <= AdjustedSize(twice),
           AdjustedSize(size) \in Int, AdjustedSize(twice) \in Int,
           NEW new, Allocated(h, new, T, U, twice), new.bp # NULL
    PROVE  Roomy(h, new.heap, new.bp, U, bp)
<1> PICK k, to : k = new.heap /\ to = new.bp
  OBVIOUS
<1> PICK V : V = ((U \ {h.brk}) \cup {k.brk}) \cup {to}
  OBVIOUS
<1> PICK len : len = SizeAt(h, bp) - 8
  OBVIOUS
<1>1. /\ Tagged(h, T, U) /\ Cuts(T, h.brk) /\ U \subseteq T /\ bp \in T
      /\ heap_listp \in U /\ h.brk \in U /\ bp \in Nat
      /\ bp <= h.brk /\ h.brk \in Nat
  <2>1. /\ Tagged(h, T, U) /\ Cuts(T, h.brk) /\ U \subseteq T /\ bp \in T
        /\ heap_listp \in U /\ h.brk \in U
    BY DEF Sound, Tagged
  <2>2. bp \in Nat /\ bp <= h.brk /\ h.brk \in Nat
    BY <2>1, CutFacts DEF Cuts
  <2>3. QED
    BY <2>1, <2>2
<1>3. /\ h.brk <= k.brk /\ SizeAt(k, to) >= AdjustedSize(twice)
      /\ KeptAll(h, k, U \ {h.brk})
      /\ to \notin U \ {h.brk} /\ to # k.brk
      /\ \E S : Sound(k, S, V)
  BY DEF Allocated
<1>4. PICK S : Sound(k, S, V)
  BY <1>3
<1>5. /\ bp \in V /\ to \in V /\ bp # to /\ bp # k.brk /\ to # heap_listp
      /\ k \in Heaps /\ Cuts(S, k.brk) /\ k.brk \in Nat
      /\ bp \in S /\ to \in S /\ k.brk \in V /\ heap_listp # k.brk
  <2>1. /\ heap_listp \in V /\ k \in Heaps /\ Cuts(S, k.brk)
        /\ k.brk \in V /\ k.brk \in S /\ 24 \in S /\ k.brk \in Nat
    BY <1>4 DEF Sound, Tagged, Cuts
  <2>2. bp # k.brk
    BY <1>1, <1>3, <2>1
  <2>3. bp \in U \ {h.brk}
    BY <1>1
  <2>4. heap_listp # h.brk
    <3>1. 24 \in T /\ heap_listp = 8
      BY <1>1 DEF Cuts, heap_listp, SIZE_T_SIZE
    <3>2. 24 <= h.brk
      BY <1>1, <3>1, CutFacts
    <3>3. QED
      BY <1>1, <3>1, <3>2
  <2>5. heap_listp \in U \ {h.brk}
    BY <1>1, <2>4
  <2>6. bp \in V /\ to \in V /\ V \subseteq S
    BY <1>4, <2>3 DEF Sound, Tagged
  <2>7. heap_listp # k.brk
    <3>1. heap_listp = 8
      BY DEF heap_listp, SIZE_T_SIZE
    <3>2. 24 <= k.brk
      BY <2>1, CutFacts
    <3>3. QED
      BY <2>1, <3>1, <3>2
  <2>8. QED
    BY <1>3, <2>1, <2>2, <2>3, <2>5, <2>6, <2>7
<1>6. Kept(h, k, bp) /\ SizeAt(k, bp) = SizeAt(h, bp)
  <2>1. bp \in U \ {h.brk} /\ bp # h.brk
    BY <1>1
  <2>2. QED
    BY <1>3, <2>1 DEF KeptAll, Kept
<1>7. /\ len \in Nat /\ len <= SizeAt(k, bp) - 8
      /\ len <= SizeAt(k, to) - 8
  <2>1. PICK q : Adj(T, bp, q)
    BY <1>1, NextExists
  <2>2. q \in T /\ q \in Nat /\ bp + 32 <= q /\ SizeAt(h, bp) = q - bp
    BY <1>1, <2>1, CutFacts DEF Tagged, Told, Adj
  <2>3. PICK r : Adj(S, to, r)
    BY <1>3, <1>5, NextExists
  <2>4. r \in S /\ r \in Nat /\ to \in Nat /\ SizeAt(k, to) = r - to
    BY <1>4, <1>5, <2>3, CutFacts DEF Sound, Tagged, Told, Adj
  <2>6. PICK a, b : a = AdjustedSize(size) /\ b = AdjustedSize(twice)
    OBVIOUS
  <2>7. a \in Int /\ b \in Int /\ a <= b /\ ~(a <= q - bp) /\ r - to >= b
    BY <1>3, <2>2, <2>4, <2>6
  <2>8. QED
    BY <1>1, <1>6, <2>2, <2>4, <2>7
<1>8. QED
  BY <1>3, <1>4, <1>5, <1>6, <1>7 DEF Roomy

\* mm_realloc answers alike, and leaves the heaps alike.
LEMMA AlikeRealloc ==
    ASSUME NEW h, NEW g, NEW T, NEW U, Alike(h, g, T, U),
           NEW bp \in U, bp # heap_listp, bp # h.brk,
           NEW size, Modest(size), Modest(size * 2),
           NEW res, res = mm_realloc(h, bp, size),
           NEW ret, ret = mm_realloc(g, bp, size)
    PROVE  /\ ret.bp = res.bp
           /\ \E S, V : Alike(res.heap, ret.heap, S, V)
<1>1. /\ Sound(h, T, U) /\ Sound(g, T, U) /\ g.brk = h.brk /\ bp \in T
      /\ bp # NULL /\ SizeAt(g, bp) = SizeAt(h, bp)
  <2>1. /\ Sound(h, T, U) /\ Sound(g, T, U) /\ g.brk = h.brk /\ U \subseteq T
        /\ Cuts(T, h.brk)
    BY AlikeFacts
  <2>2. bp \in T /\ bp \in Nat /\ bp >= 8
    BY <2>1, CutFacts
  <2>3. SizeAt(g, bp) = SizeAt(h, bp)
    BY <2>2, AlikeSizes
  <2>4. QED
    BY <2>1, <2>2, <2>3 DEF NULL
<1>2. CASE size = 0
  <2>1. PICK V : V = U \ {bp}
    OBVIOUS
  <2>2. \E S \in SUBSET T : Alike(mm_free(h, bp), mm_free(g, bp), S, V)
    BY <2>1, AlikeFree
  <2>3. /\ res = [heap |-> mm_free(h, bp), bp |-> NULL]
        /\ ret = [heap |-> mm_free(g, bp), bp |-> NULL]
    BY <1>1, <1>2 DEF mm_realloc
  <2>4. QED
    BY <2>2, <2>3
<1>3. CASE size # 0 /\ AdjustedSize(size) <= SizeAt(h, bp)
  <2>1. res = [heap |-> h, bp |-> bp] /\ ret = [heap |-> g, bp |-> bp]
    BY <1>1, <1>3 DEF mm_realloc, SizeAt
  <2>2. QED
    BY <2>1
<1>4. CASE size # 0 /\ ~(AdjustedSize(size) <= SizeAt(h, bp))
  <2>1. PICK len : len = SizeAt(h, bp) - 8
    OBVIOUS
  <2>2. PICK twice : twice = size * 2
    OBVIOUS
  <2>3. Modest(twice) /\ SizeT(twice) = twice
    <3>1. twice \in Nat /\ twice + 16 <= WORD \div 2
      BY <2>2 DEF Modest
    <3>2. twice < WORD \div 2
      BY <3>1, Numbers
    <3>3. QED
      BY <2>2, <3>1, <3>2, NoOverflow
  <2>4. PICK new, net : new = mm_malloc(h, twice) /\ net = mm_malloc(g, twice)
    OBVIOUS
  <2>5. res = moved(new, bp, len) /\ ret = moved(net, bp, len)
    BY <1>1, <1>4, <2>1, <2>2, <2>3, <2>4
    DEF mm_realloc, SizeAt, SIZE_T_SIZE
  <2>6. /\ net.bp = new.bp
        /\ \E S, V : Alike(new.heap, net.heap, S, V)
    BY <2>3, <2>4, AlikeMalloc
  <2>7. CASE new.bp = NULL
    BY <2>5, <2>6, <2>7 DEF moved
  <2>8. CASE new.bp # NULL
    <3>1. ~(AdjustedSize(size) <= SizeAt(h, bp)) /\ Sound(h, T, U)
      BY <1>1, <1>4
    <3>2. /\ AdjustedSize(size) \in Int /\ AdjustedSize(twice) \in Int
          /\ AdjustedSize(size) <= AdjustedSize(twice)
      <4>1. twice >= size
        BY <2>2 DEF Modest
      <4>2. QED
        BY <2>3, <4>1, AdjustedIs, AdjustedGrows
    <3>3. Allocated(h, new, T, U, twice)
      BY <2>3, <2>4, <3>1, MallocKeeps
    <3>4. Roomy(h, new.heap, new.bp, U, bp)
      BY <2>8, <3>1, <3>2, <3>3, RoomToMove
    <3>5. PICK k, to, V, P :
             /\ k = new.heap /\ to = new.bp
             /\ to # k.brk /\ bp \in V /\ to \in V /\ bp # k.brk
             /\ to # heap_listp
             /\ len \in Nat /\ len <= SizeAt(k, bp) - 8
             /\ len <= SizeAt(k, to) - 8
             /\ Sound(k, P, V)
      BY <2>1, <3>4 DEF Roomy
    <3> PICK l : l = net.heap
      OBVIOUS
    <3>6. PICK S : Alike(k, l, S, V)
      <4>1. PICK R, W : Alike(k, l, R, W)
        BY <2>6, <3>5
      <4>2. R = P /\ W = V
        BY <3>5, <4>1, SoundUnique DEF Alike
      <4>3. QED
        BY <4>1, <4>2
    <3>7. PICK d, e : d = memcpy(k, to, bp, len) /\ e = memcpy(l, to, bp, len)
      OBVIOUS
    <3>8. Alike(d, e, S, V)
      BY <3>5, <3>6, <3>7, AlikeCopies
    <3>9. d.brk = k.brk
      BY <3>7 DEF memcpy
    <3>10. PICK X : X = V \ {bp}
      OBVIOUS
    <3>11. \E R \in SUBSET S : Alike(mm_free(d, bp), mm_free(e, bp), R, X)
      BY <3>5, <3>8, <3>9, <3>10, AlikeFree
    <3>12. /\ res.heap = mm_free(d, bp) /\ res.bp = to
           /\ ret.heap = mm_free(e, bp) /\ ret.bp = to
      BY <2>5, <2>6, <2>8, <3>5, <3>7 DEF moved
    <3>13. QED
      BY <3>11, <3>12
  <2>9. QED
    BY <2>7, <2>8
<1>5. QED
  BY <1>2, <1>3, <1>4
-----------------------------------------------------------------------------
(* Heaps that are alike for some blocks.                                     *)

Akin(h, g) == \E T, U : Alike(h, g, T, U)

\* In either order.
LEMMA AkinBack == ASSUME NEW h, NEW g, Akin(h, g) PROVE Akin(g, h)
<1>1. PICK T, U : Alike(h, g, T, U)
  BY DEF Akin
<1>2. Alike(g, h, T, U)
  BY <1>1, AlikeBack
<1>3. QED
  BY <1>2 DEF Akin

\* It carries over from one heap to the next.
LEMMA AkinTrans ==
    ASSUME NEW h, NEW g, NEW k, Akin(h, g), Akin(g, k)
    PROVE  Akin(h, k)
<1>1. PICK T, U : Alike(h, g, T, U)
  BY DEF Akin
<1>2. PICK S, V : Alike(g, k, S, V)
  BY DEF Akin
<1>3. Sound(g, T, U) /\ Sound(g, S, V)
  BY <1>1, <1>2 DEF Alike
<1>4. S = T /\ V = U
  BY <1>3, SoundUnique
<1>5. Alike(h, k, T, U)
  BY <1>1, <1>2, <1>4, AlikeTrans
<1>6. QED
  BY <1>5 DEF Akin


\* Every pass starts alike, whatever the memory has in it.
LEMMA AkinStart ==
    ASSUME NEW mem \in [Units -> Word], NEW head,
           NEW mem2 \in [Units -> Word], NEW head2,
           NEW h, h = mm_init(EmptyHeap(mem, head)),
           NEW g, g = mm_init(EmptyHeap(mem2, head2))
    PROVE  Akin(h, g)
<1>1. PICK T : T = {heap_listp, 24}
  OBVIOUS
<1>2. /\ Sound(h, T, T) /\ h.brk = 24 /\ h.free_list_head = NULL
      /\ h.mem[0] = PACK_HDR(16, 1, 1) /\ h.mem[16] = PACK_HDR(0, 1, 1)
  BY <1>1, InitKeeps
<1>3. /\ Sound(g, T, T) /\ g.brk = 24 /\ g.free_list_head = NULL
      /\ g.mem[0] = PACK_HDR(16, 1, 1) /\ g.mem[16] = PACK_HDR(0, 1, 1)
  BY <1>1, InitKeeps
<1>4. ASSUME NEW a \in Units, a \in Core(T, T \ T) PROVE g.mem[a] = h.mem[a]
  <2>1. a + 8 \in T /\ a \in Nat
    BY <1>4, UnitsAre DEF Core
  <2>2. a = 0 \/ a = 16
    BY <1>1, <2>1 DEF heap_listp, SIZE_T_SIZE
  <2>3. QED
    BY <1>2, <1>3, <2>2
<1>5. h \in Plain /\ g \in Plain
  BY <1>2, <1>3, HeapsArePlain DEF Sound, Tagged
<1>6. Agree(h, g, Core(T, T \ T))
  BY <1>2, <1>3, <1>4, <1>5 DEF Agree
<1>7. Alike(h, g, T, T)
  BY <1>2, <1>3, <1>6 DEF Alike
<1>8. QED
  BY <1>7 DEF Akin

\* A block that is filled leaves the heap alike.
LEMMA AkinFilled ==
    ASSUME ModestSizes, NEW h, NEW bs, WellHeld(h, bs),
           NEW id \in Ids, bs[id] # None
    PROVE  Akin(h, Filled(h, bs[id], id))
<1>1. PICK T, U : Sound(h, T, U) /\ Owned(h, U, bs)
  BY DEF WellHeld
<1>2. PICK b, p : b = bs[id] /\ p = b.bp
  OBVIOUS
<1>3. InPlace(h, U, b)
  BY <1>1, <1>2 DEF Owned
<1>4. Modest(b.size) /\ p \in U /\ p # heap_listp /\ p # h.brk
  BY <1>2, <1>3 DEF InPlace, ModestSizes
<1>5. PICK g : g = Filled(h, b, id)
  OBVIOUS
<1>6. /\ Sound(g, T, U) /\ g.brk = h.brk
      /\ g.free_list_head = h.free_list_head
      /\ \A a \in Units : a < p \/ a >= p + SizeAt(h, p) - 8 =>
                            g.mem[a] = h.mem[a]
  <2>1. FilledIn(h, g, T, U, b)
    BY <1>1, <1>3, <1>4, <1>5, FillKeeps
  <2>2. QED
    BY <1>2, <2>1 DEF FilledIn, Rewritten
<1>7. Alike(h, g, T, U)
  BY <1>1, <1>4, <1>6, AlikeWritten
<1>8. QED
  BY <1>2, <1>5, <1>7 DEF Akin
-----------------------------------------------------------------------------
(* A state s of the program is its heap and its blocks; similar states get   *)
(* the same answers.                                                         *)

Similar(s, t) ==
    /\ Akin(s.heap, t.heap)
    /\ \A id \in Ids :
        /\ s.blocks[id] = None <=> t.blocks[id] = None
        /\ s.blocks[id] # None => t.blocks[id].bp = s.blocks[id].bp

\* A request is answered by a heap and a pointer.
Answer(s, request) ==
    IF request.type = "ALLOC" THEN mm_malloc(s.heap, request.size)
    ELSE IF request.type = "REALLOC"
    THEN mm_realloc(s.heap, s.blocks[request.index].bp, request.size)
    ELSE [heap |-> mm_free(s.heap, s.blocks[request.index].bp), bp |-> NULL]

Ready(s, request) == s.blocks[request.index] = None <=> request.type = "ALLOC"

\* A state like t comes of s by a request that is granted.
Answered(s, request, t) ==
    LET answer == Answer(s, request)
        now == t.blocks[request.index]
    IN  /\ Ready(s, request) /\ Akin(answer.heap, t.heap)
        /\ now = None <=> request.type = "FREE"
        /\ request.type # "FREE" => answer.bp # NULL /\ now.bp = answer.bp
        /\ \A id \in Ids \ {request.index} :
            /\ s.blocks[id] = None <=> t.blocks[id] = None
            /\ s.blocks[id] # None => t.blocks[id].bp = s.blocks[id].bp

\* A block of the program can be freed and resized.
LEMMA HeldBlock ==
    ASSUME NEW h, NEW bs, WellHeld(h, bs), NEW id \in Ids, bs[id] # None,
           NEW T, NEW U, Sound(h, T, U)
    PROVE  bs[id].bp \in U /\ bs[id].bp # heap_listp /\ bs[id].bp # h.brk
<1>1. PICK S, V : Sound(h, S, V) /\ Owned(h, V, bs)
  BY DEF WellHeld
<1>2. S = T /\ V = U
  BY <1>1, SoundUnique
<1>3. QED
  BY <1>1, <1>2 DEF Owned, InPlace

\* The same request is answered alike in similar states.
LEMMA SimilarAnswer ==
    ASSUME ModestSizes, NEW s, NEW t, Similar(s, t),
           WellHeld(s.heap, s.blocks),
           NEW request \in Requests, Ready(s, request)
    PROVE  /\ Ready(t, request)
           /\ Answer(t, request).bp = Answer(s, request).bp
           /\ Akin(Answer(s, request).heap, Answer(t, request).heap)
<1>1. PICK h, g, id : h = s.heap /\ g = t.heap /\ id = request.index
  OBVIOUS
<1>2. /\ id \in Ids /\ request.type \in {"ALLOC", "REALLOC", "FREE"}
      /\ request.type # "FREE" => request.size \in Sizes
  BY <1>1, RequestIs DEF Requests
<1>3. PICK T, U : Alike(h, g, T, U)
  BY <1>1 DEF Similar, Akin
<1>4. Sound(h, T, U)
  BY <1>3 DEF Alike
<1>5. Ready(t, request)
  BY <1>1, <1>2 DEF Similar, Ready
<1>6. CASE request.type = "ALLOC"
  <2>1. PICK size, res, ret : /\ size = request.size
                              /\ res = mm_malloc(h, size)
                              /\ ret = mm_malloc(g, size)
    OBVIOUS
  <2>2. Modest(size)
    BY <1>2, <1>6, <2>1 DEF ModestSizes
  <2>3. ret.bp = res.bp /\ \E S, V : Alike(res.heap, ret.heap, S, V)
    BY <1>3, <2>1, <2>2, AlikeMalloc
  <2>4. Answer(s, request) = res /\ Answer(t, request) = ret
    BY <1>1, <1>6, <2>1 DEF Answer
  <2>5. QED
    BY <1>5, <2>3, <2>4 DEF Akin
<1>7. CASE request.type # "ALLOC"
  <2>1. PICK bp : bp = s.blocks[id].bp
    OBVIOUS
  <2>2. s.blocks[id] # None /\ t.blocks[id].bp = bp
    BY <1>1, <1>2, <1>7, <2>1 DEF Ready, Similar
  <2>3. bp \in U /\ bp # heap_listp /\ bp # h.brk
    BY <1>1, <1>2, <1>4, <2>1, <2>2, HeldBlock
  <2>4. CASE request.type = "REALLOC"
    <3>1. PICK size, res, ret : /\ size = request.size
                                /\ res = mm_realloc(h, bp, size)
                                /\ ret = mm_realloc(g, bp, size)
      OBVIOUS
    <3>2. Modest(size) /\ Modest(size * 2)
      BY <1>2, <2>4, <3>1 DEF ModestSizes
    <3>3. ret.bp = res.bp /\ \E S, V : Alike(res.heap, ret.heap, S, V)
      BY <1>3, <2>3, <3>1, <3>2, AlikeRealloc
    <3>4. Answer(s, request) = res /\ Answer(t, request) = ret
      BY <1>1, <2>1, <2>2, <2>4, <3>1 DEF Answer
    <3>5. QED
      BY <1>5, <3>3, <3>4 DEF Akin
  <2>5. CASE request.type = "FREE"
    <3>1. PICK k, l : k = mm_free(h, bp) /\ l = mm_free(g, bp)
      OBVIOUS
    <3>2. PICK V : V = U \ {bp}
      OBVIOUS
    <3>3. \E S : Alike(k, l, S, V)
      BY <1>3, <2>3, <3>1, <3>2, AlikeFree
    <3>4. /\ Answer(s, request) = [heap |-> k, bp |-> NULL]
          /\ Answer(t, request) = [heap |-> l, bp |-> NULL]
      BY <1>1, <2>1, <2>2, <2>5, <3>1 DEF Answer
    <3>5. QED
      BY <1>5, <3>3, <3>4 DEF Akin
  <2>6. QED
    BY <1>2, <1>7, <2>4, <2>5
<1>8. QED
  BY <1>6, <1>7

\* What comes of a state by a request comes of a similar one, too.
LEMMA AnsweredToo ==
    ASSUME ModestSizes, NEW s, NEW t, Similar(s, t),
           WellHeld(s.heap, s.blocks),
           NEW request \in Requests, NEW x, Answered(t, request, x)
    PROVE  Answered(s, request, x)
<1>1. PICK id : id = request.index
  OBVIOUS
<1>2. id \in Ids
  BY <1>1, RequestIs
<1>3. Ready(s, request)
  BY <1>1, <1>2 DEF Answered, Ready, Similar
<1>4. PICK res, ret : res = Answer(s, request) /\ ret = Answer(t, request)
  OBVIOUS
<1>5. ret.bp = res.bp /\ Akin(res.heap, ret.heap)
  BY <1>3, <1>4, SimilarAnswer
<1>6. Akin(ret.heap, x.heap)
  BY <1>4 DEF Answered
<1>7. Akin(res.heap, x.heap)
  BY <1>5, <1>6, AkinTrans
<1>8. /\ x.blocks[id] = None <=> request.type = "FREE"
      /\ request.type # "FREE" => res.bp # NULL /\ x.blocks[id].bp = res.bp
  BY <1>1, <1>4, <1>5 DEF Answered
<1>9. \A other \in Ids \ {id} :
        /\ t.blocks[other] = None <=> x.blocks[other] = None
        /\ t.blocks[other] # None => x.blocks[other].bp = t.blocks[other].bp
  BY <1>1 DEF Answered
<1>10. \A other \in Ids \ {id} :
        /\ s.blocks[other] = None <=> x.blocks[other] = None
        /\ s.blocks[other] # None => x.blocks[other].bp = s.blocks[other].bp
  BY <1>9 DEF Similar
<1>11. QED
  BY <1>1, <1>3, <1>4, <1>7, <1>8, <1>10 DEF Answered

\* What comes of one state by the same request is similar.
LEMMA AnsweredSimilar ==
    ASSUME NEW s, NEW request \in Requests, NEW x, NEW y,
           Answered(s, request, x), Answered(s, request, y)
    PROVE  Similar(x, y)
<1>1. PICK id, res : id = request.index /\ res = Answer(s, request)
  OBVIOUS
<1>2. Akin(x.heap, y.heap)
  <2>1. Akin(res.heap, x.heap) /\ Akin(res.heap, y.heap)
    BY <1>1 DEF Answered
  <2>2. Akin(x.heap, res.heap)
    BY <2>1, AkinBack
  <2>3. QED
    BY <2>1, <2>2, AkinTrans
<1>3. /\ x.blocks[id] = None <=> y.blocks[id] = None
      /\ x.blocks[id] # None => y.blocks[id].bp = x.blocks[id].bp
  BY <1>1 DEF Answered
<1>4. ASSUME NEW other \in Ids \ {id}
      PROVE  /\ x.blocks[other] = None <=> y.blocks[other] = None
             /\ x.blocks[other] # None =>
                    y.blocks[other].bp = x.blocks[other].bp
  BY <1>1, <1>4 DEF Answered
<1>5. QED
  BY <1>2, <1>3, <1>4 DEF Similar
-----------------------------------------------------------------------------
(* The first pass of a trace is remembered: a state before each request, and *)
(* one at the end.                                                           *)

Now == [heap |-> heap, blocks |-> blocks]

Fresh(s) ==
    /\ \E mem, head : /\ mem \in [Units -> Word]
                      /\ s.heap = mm_init(EmptyHeap(mem, head))
    /\ \A id \in Ids : s.blocks[id] = None

Story(past, n, requests) ==
    /\ Fresh(past[0])
    /\ \A k \in 0 .. n : WellHeld(past[k].heap, past[k].blocks)
    /\ \A k \in 0 .. n - 1 : Answered(past[k], requests[k + 1], past[k + 1])

\* The driver does to the requests up to i what it did to them at first.
Retold(s, i, requests) ==
    \E past : Story(past, Len(requests), requests) /\ Similar(past[i], s)

\* New heaps are similar.
LEMMA FreshSimilar ==
    ASSUME NEW s, NEW t, Fresh(s), Fresh(t) PROVE Similar(s, t)
<1>1. PICK mem, head : /\ mem \in [Units -> Word]
                      /\ s.heap = mm_init(EmptyHeap(mem, head))
  BY DEF Fresh
<1>2. PICK mem2, head2 : /\ mem2 \in [Units -> Word]
                        /\ t.heap = mm_init(EmptyHeap(mem2, head2))
  BY DEF Fresh
<1>3. Akin(s.heap, t.heap)
  BY <1>1, <1>2, AkinStart
<1>4. QED
  BY <1>3 DEF Fresh, Similar

\* So is every sound state to itself.
LEMMA SimilarSelf ==
    ASSUME NEW s, WellHeld(s.heap, s.blocks) PROVE Similar(s, s)
<1>1. PICK T, U : Sound(s.heap, T, U)
  BY DEF WellHeld
<1>2. Alike(s.heap, s.heap, T, U)
  BY <1>1, AlikeSelf
<1>3. QED
  BY <1>2 DEF Similar, Akin

\* And to one whose heap is akin and whose blocks are where they were.
LEMMA SimilarMore ==
    ASSUME NEW s, NEW t, NEW x, Similar(s, t), Akin(t.heap, x.heap),
           \A id \in Ids : /\ t.blocks[id] = None <=> x.blocks[id] = None
                           /\ t.blocks[id] # None =>
                                x.blocks[id].bp = t.blocks[id].bp
    PROVE  Similar(s, x)
<1>1. Akin(s.heap, x.heap)
  BY AkinTrans DEF Similar
<1>2. QED
  BY <1>1 DEF Similar

\* A new trace.
LEMMA StoryBegins ==
    ASSUME NEW s, Fresh(s), WellHeld(s.heap, s.blocks)
    PROVE  Retold(s, 0, <<>>)
<1>1. PICK past : past = [k \in {0} |-> s]
  OBVIOUS
<1>2. past[0] = s /\ Len(<<>>) = 0
  BY <1>1
<1>3. Story(past, 0, <<>>)
  BY <1>2 DEF Story
<1>4. Similar(past[0], s)
  BY <1>2, SimilarSelf
<1>5. QED
  BY <1>2, <1>3, <1>4 DEF Retold

\* Another pass through the same trace.
LEMMA StoryAgain ==
    ASSUME NEW requests, NEW t, NEW i, Retold(t, i, requests), NEW s, Fresh(s)
    PROVE  Retold(s, 0, requests)
<1>1. PICK past : Story(past, Len(requests), requests)
  BY DEF Retold
<1>2. Similar(past[0], s)
  BY <1>1, FreshSimilar DEF Story
<1>3. QED
  BY <1>1, <1>2 DEF Retold

\* A request of the first pass is added to what is remembered.
LEMMA StoryGrows ==
    ASSUME ModestSizes, NEW requests \in Seq(Requests), NEW s,
           Retold(s, Len(requests), requests), NEW request \in Requests,
           NEW t, Answered(s, request, t), WellHeld(t.heap, t.blocks),
           NEW more, more = Append(requests, request)
    PROVE  Retold(t, Len(more), more)
<1>1. PICK n : n = Len(requests)
  OBVIOUS
<1>2. PICK past : Story(past, n, requests) /\ Similar(past[n], s)
  BY <1>1 DEF Retold
<1>3. /\ n \in Nat /\ Len(more) = n + 1 /\ more[n + 1] = request
      /\ \A k \in 0 .. n - 1 : more[k + 1] = requests[k + 1]
  <2>1. PICK R : R = Requests
    OBVIOUS
  <2>2. requests \in Seq(R) /\ request \in R
    BY <2>1
  <2>3. n \in Nat /\ Len(more) = n + 1 /\ more[n + 1] = request
    BY <1>1, <2>2, AppendProperties
  <2>4. ASSUME NEW k \in 0 .. n - 1 PROVE more[k + 1] = requests[k + 1]
    <3>1. k + 1 \in 1 .. n
      BY <2>3
    <3>2. QED
      BY <1>1, <2>2, <3>1, AppendProperties
  <2>5. QED
    BY <2>3, <2>4
<1>4. PICK new : new = [k \in 0 .. n + 1 |-> IF k = n + 1 THEN t ELSE past[k]]
  OBVIOUS
<1>5. new[n + 1] = t /\ \A k \in 0 .. n : new[k] = past[k]
  BY <1>3, <1>4
<1>6. \A k \in 0 .. n : WellHeld(past[k].heap, past[k].blocks)
  BY <1>2 DEF Story
<1>7. Answered(past[n], request, t)
  BY <1>2, <1>3, <1>6, AnsweredToo
<1>8. \A k \in 0 .. n : Answered(new[k], more[k + 1], new[k + 1])
  <2>1. ASSUME NEW k \in 0 .. n - 1
        PROVE  Answered(new[k], more[k + 1], new[k + 1])
    <3>1. Answered(past[k], requests[k + 1], past[k + 1])
      BY <1>2 DEF Story
    <3>2. k \in 0 .. n /\ k + 1 \in 0 .. n
      BY <1>3
    <3>3. QED
      BY <1>3, <1>5, <3>1, <3>2
  <2>2. new[n] = past[n]
    BY <1>3, <1>5
  <2>3. Answered(new[n], more[n + 1], new[n + 1])
    BY <1>3, <1>5, <1>7, <2>2
  <2>4. QED
    BY <1>3, <2>1, <2>3
<1>9. \A k \in 0 .. n + 1 : WellHeld(new[k].heap, new[k].blocks)
  BY <1>3, <1>5, <1>6
<1>10. Fresh(new[0])
  <2>1. new[0] = past[0]
    BY <1>3, <1>5
  <2>2. QED
    BY <1>2, <2>1 DEF Story
<1>11. Story(new, n + 1, more)
  <2>1. (n + 1) - 1 = n
    BY <1>3
  <2>2. QED
    BY <1>8, <1>9, <1>10, <2>1 DEF Story
<1>12. Similar(new[n + 1], t)
  BY <1>5, SimilarSelf
<1>13. QED
  BY <1>3, <1>11, <1>12 DEF Retold

\* A request of a later pass is granted, as it was in the first.
LEMMA StoryGoesOn ==
    ASSUME ModestSizes, NEW requests \in Seq(Requests), NEW s,
           NEW i \in Nat, i < Len(requests), Retold(s, i, requests),
           NEW request, request = requests[i + 1]
    PROVE  /\ Ready(s, request)
           /\ request.type # "FREE" => Answer(s, request).bp # NULL
           /\ \A t : Answered(s, request, t) => Retold(t, i + 1, requests)
<1>1. PICK n : n = Len(requests)
  OBVIOUS
<1>2. n \in Nat /\ i \in 0 .. n - 1 /\ i \in 0 .. n /\ request \in Requests
  <2>1. PICK R : R = Requests
    OBVIOUS
  <2>2. requests \in Seq(R)
    BY <2>1
  <2>3. n \in Nat /\ i + 1 \in 1 .. n
    BY <1>1, <2>2, LenProperties
  <2>4. requests[i + 1] \in R
    BY <1>1, <2>2, <2>3, ElementOfSeq
  <2>5. QED
    BY <2>1, <2>3, <2>4
<1>3. PICK past : Story(past, n, requests) /\ Similar(past[i], s)
  BY <1>1 DEF Retold
<1>4. PICK old, next : old = past[i] /\ next = past[i + 1]
  OBVIOUS
<1>5. /\ Answered(old, request, next) /\ WellHeld(old.heap, old.blocks)
      /\ Similar(old, s)
  BY <1>2, <1>3, <1>4 DEF Story
<1>6. Ready(old, request)
  BY <1>5 DEF Answered
<1>7. Ready(s, request) /\ Answer(s, request).bp = Answer(old, request).bp
  BY <1>2, <1>5, <1>6, SimilarAnswer
<1>8. request.type # "FREE" => Answer(s, request).bp # NULL
  BY <1>5, <1>7 DEF Answered
<1>9. ASSUME NEW t, Answered(s, request, t) PROVE Retold(t, i + 1, requests)
  <2>1. Answered(old, request, t)
    BY <1>2, <1>5, <1>9, AnsweredToo
  <2>2. Similar(next, t)
    BY <1>2, <1>5, <2>1, AnsweredSimilar
  <2>3. QED
    BY <1>1, <1>3, <1>4, <2>2 DEF Retold
<1>10. QED
  BY <1>7, <1>8, <1>9
-----------------------------------------------------------------------------
(* The driver's invariant.                                                   *)

DriverInvariant ==
    /\ DriverSound
    /\ phase # "application error"
    /\ phase = "valid" => Retold(Now, Len(trace), trace)
    /\ phase \in {"util", "speed"} =>
        pos <= Len(trace) /\ Retold(Now, pos, trace)

\* A block is not None.
LEMMA NewBlock ==
    ASSUME NEW bp \in Nat, NEW size \in Nat, NEW filled \in Nat
    PROVE  Block(bp, size, filled) # None /\ Block(bp, size, filled).bp = bp
BY NoneAssumption DEF Block

\* A step of the program answers its request.
LEMMA RequestAnswers ==
    ASSUME ModestSizes, HeapInvariant, HeapInvariant',
           NEW request \in Requests, Request(request), Ready(Now, request),
           request.type # "FREE" => Answer(Now, request).bp # NULL
    PROVE  Answered(Now, request, Now')
<1>1. PICK T, U : Sound(heap, T, U) /\ Owned(heap, U, blocks)
  BY DEF HeapInvariant, WellHeld
<1>2. PICK id, size : id = request.index /\ size = request.size
  OBVIOUS
<1>3. /\ id \in Ids /\ request.type \in {"ALLOC", "REALLOC", "FREE"}
      /\ request.type # "FREE" => size \in Sizes /\ size # 0 /\ size \in Nat
                                  /\ Modest(size)
  <2>1. /\ id \in Ids /\ request.type \in {"ALLOC", "REALLOC", "FREE"}
        /\ request.type # "FREE" => size \in Sizes /\ size # 0
    BY <1>2, RequestIs DEF Requests
  <2>2. \A x \in Sizes : Modest(x) /\ x \in Nat
    BY DEF ModestSizes, Modest
  <2>3. QED
    BY <2>1, <2>2
<1>4. /\ Now.heap = heap /\ Now.blocks = blocks
      /\ Now'.heap = heap' /\ Now'.blocks = blocks'
      /\ blocks = [i \in Ids |-> blocks[i]]
  BY <1>1 DEF Now, Owned
<1>5. Akin(heap', heap')
  <2>1. PICK S, V : Sound(heap', S, V)
    BY DEF HeapInvariant, WellHeld
  <2>2. Alike(heap', heap', S, V)
    BY <2>1, AlikeSelf
  <2>3. QED
    BY <2>2 DEF Akin
<1>6. PICK answer : answer = Answer(Now, request)
  OBVIOUS
<1>7. /\ answer.heap = heap'
      /\ IF request.type = "FREE" THEN blocks' = [blocks EXCEPT ![id] = None]
         ELSE \E b : /\ blocks' = [blocks EXCEPT ![id] = b] /\ b # None
                     /\ b.bp = answer.bp
  <2>1. CASE request.type = "ALLOC"
    <3>1. answer = mm_malloc(heap, size) /\ answer.bp # NULL
      BY <1>2, <1>4, <1>6, <2>1 DEF Answer
    <3>2. /\ blocks[id] = None /\ heap' = answer.heap
          /\ blocks' = [blocks EXCEPT ![id] = Block(answer.bp, size, 0)]
      BY <1>2, <2>1, <3>1 DEF Request, Malloc, Given
    <3>3. answer.bp \in Nat
      <4>1. PICK cs : cs = IF answer.bp = NULL THEN blocks
                      ELSE [blocks EXCEPT ![id] = Block(answer.bp, size, 0)]
        OBVIOUS
      <4>2. id \in Ids /\ size \in Sizes /\ Modest(size)
        BY <1>3, <2>1
      <4>3. blocks[id] = None /\ answer = mm_malloc(heap, size)
        BY <3>1, <3>2
      <4>4. answer.bp # NULL => size # 0 /\ answer.bp \in Nat
        BY <1>1, <4>1, <4>2, <4>3, MallocStep
      <4>5. QED
        BY <3>1, <4>4
    <3>4. PICK b : b = Block(answer.bp, size, 0)
      OBVIOUS
    <3>5. b # None /\ b.bp = answer.bp
      BY <1>3, <2>1, <3>3, <3>4, NewBlock
    <3>6. QED
      BY <2>1, <3>2, <3>4, <3>5
  <2>2. CASE request.type = "REALLOC"
    <3>1. PICK old : old = blocks[id]
      OBVIOUS
    <3>2. blocks[id] # None
      BY <1>2, <1>4, <2>2 DEF Ready
    <3>3. answer = mm_realloc(heap, old.bp, size) /\ answer.bp # NULL
      BY <1>2, <1>4, <1>6, <2>2, <3>1 DEF Answer
    <3>4. PICK kept : kept = IF Words(size) < old.filled THEN Words(size)
                             ELSE old.filled
      OBVIOUS
    <3>5. /\ heap' = answer.heap
          /\ blocks' = [blocks EXCEPT ![id] = Block(answer.bp, size, kept)]
      BY <1>2, <1>3, <2>2, <3>1, <3>2, <3>3, <3>4 DEF Request, Realloc, Resized
    <3>6. kept \in Nat
      <4>1. old.filled \in Nat
        BY <1>1, <1>3, <3>1, <3>2 DEF Owned, InPlace
      <4>2. Words(size) \in Nat
        BY <1>3, <2>2 DEF Words, ALIGNMENT
      <4>3. QED
        BY <3>4, <4>1, <4>2
    <3>7. answer.bp \in Nat
      <4>1. PICK cs : cs = IF size = 0 THEN [blocks EXCEPT ![id] = None]
                           ELSE IF answer.bp = NULL THEN blocks
                           ELSE [blocks EXCEPT
                                    ![id] = Block(answer.bp, size, kept)]
        OBVIOUS
      <4>2. /\ WellHeld(answer.heap, cs)
            /\ OthersKept(heap, answer.heap, blocks, id)
            /\ Resizing(heap, answer, old, size, kept)
        BY <1>1, <1>3, <2>2, <3>1, <3>2, <3>3, <3>4, <4>1, ResizeStep
        DEF ModestSizes
      <4>3. QED
        BY <1>3, <2>2, <3>3, <4>2 DEF Resizing
    <3>8. PICK b : b = Block(answer.bp, size, kept)
      OBVIOUS
    <3>9. b # None /\ b.bp = answer.bp
      BY <1>3, <2>2, <3>6, <3>7, <3>8, NewBlock
    <3>10. QED
      BY <2>2, <3>5, <3>8, <3>9
  <2>3. CASE request.type = "FREE"
    <3>1. answer.heap = mm_free(heap, blocks[id].bp)
      BY <1>2, <1>4, <1>6, <2>3 DEF Answer
    <3>2. /\ heap' = mm_free(heap, blocks[id].bp)
          /\ blocks' = [blocks EXCEPT ![id] = None]
      BY <1>2, <2>3 DEF Request, Free
    <3>3. QED
      BY <2>3, <3>1, <3>2
  <2>4. QED
    BY <1>3, <2>1, <2>2, <2>3
<1>8. /\ blocks'[id] = None <=> request.type = "FREE"
      /\ request.type # "FREE" => blocks'[id].bp = answer.bp
      /\ \A other \in Ids \ {id} : blocks'[other] = blocks[other]
  <2>1. CASE request.type = "FREE"
    <3>1. blocks' = [blocks EXCEPT ![id] = None]
      BY <1>7, <2>1
    <3>2. blocks'[id] = None
      BY <1>3, <1>4, <3>1
    <3>3. \A other \in Ids \ {id} : blocks'[other] = blocks[other]
      BY <1>4, <3>1
    <3>4. QED
      BY <2>1, <3>2, <3>3
  <2>2. CASE request.type # "FREE"
    <3>1. PICK b : /\ blocks' = [blocks EXCEPT ![id] = b] /\ b # None
                   /\ b.bp = answer.bp
      BY <1>7, <2>2
    <3>2. blocks'[id] = b
      BY <1>3, <1>4, <3>1
    <3>3. \A other \in Ids \ {id} : blocks'[other] = blocks[other]
      BY <1>4, <3>1
    <3>4. QED
      BY <2>2, <3>1, <3>2, <3>3
  <2>3. QED
    BY <2>1, <2>2
<1>9. request.type # "FREE" => answer.bp # NULL
  BY <1>6
<1>10. PICK s, t : s = Now /\ t = Now'
  OBVIOUS
<1>11. /\ s.blocks = blocks /\ t.blocks = blocks' /\ t.heap = heap'
       /\ answer = Answer(s, request) /\ Ready(s, request)
  BY <1>4, <1>6, <1>10
<1>12. Answered(s, request, t)
  BY <1>2, <1>5, <1>7, <1>8, <1>9, <1>11 DEF Answered
<1>13. QED
  BY <1>10, <1>12

\* The heap of a new pass is fresh.
LEMMA ResetFresh ==
    ASSUME HeapInvariant, Reset PROVE Fresh(Now')
<1>1. heap.mem \in [Units -> Word]
  BY DEF HeapInvariant, WellHeld, Sound, Tagged, Heaps
<1>2. PICK mem, head : mem = heap.mem /\ head = heap.free_list_head
  OBVIOUS
<1>3. heap' = mm_init(EmptyHeap(mem, head)) /\ blocks' = [id \in Ids |-> None]
  BY <1>2 DEF Reset
<1>4. PICK s : s = Now'
  OBVIOUS
<1>5. s.heap = heap' /\ s.blocks = blocks'
  BY <1>4 DEF Now
<1>6. Fresh(s)
  BY <1>1, <1>2, <1>3, <1>5 DEF Fresh
<1>7. QED
  BY <1>4, <1>6

\* The first pass of a trace begins.
LEMMA FirstPass ==
    ASSUME DriverInvariant, DriverSound', Reset, phase' = "valid",
           trace' = NoTrace
    PROVE  DriverInvariant'
<1>1. HeapInvariant /\ HeapInvariant'
  BY DEF DriverInvariant, DriverSound
<1>2. Fresh(Now')
  BY <1>1, ResetFresh
<1>3. WellHeld(Now'.heap, Now'.blocks)
  BY <1>1 DEF HeapInvariant, Now
<1>4. PICK s : s = Now'
  OBVIOUS
<1>5. Retold(s, 0, <<>>)
  BY <1>2, <1>3, <1>4, StoryBegins
<1>6. Len(trace') = 0 /\ trace' = <<>>
  BY NothingYet DEF NoTrace
<1>7. Retold(Now', Len(trace'), trace')
  BY <1>4, <1>5, <1>6
<1>8. QED
  BY <1>7 DEF DriverInvariant

\* So does a later pass.
LEMMA LaterPass ==
    ASSUME DriverInvariant, DriverSound', Reset, trace' = trace, pos' = 0,
           phase \in {"valid", "util", "speed"}, phase' \in {"util", "speed"}
    PROVE  DriverInvariant'
<1>1. HeapInvariant /\ trace \in Seq(Requests)
  BY DEF DriverInvariant, DriverSound
<1>2. Fresh(Now')
  BY <1>1, ResetFresh
<1>3. PICK s : s = Now'
  OBVIOUS
<1>4. Retold(s, 0, trace)
  BY <1>2, <1>3, StoryAgain DEF DriverInvariant
<1>5. Len(trace) \in Nat
  <2>1. PICK R : R = Requests
    OBVIOUS
  <2>2. trace \in Seq(R)
    BY <1>1, <2>1
  <2>3. QED
    BY <2>2, LenProperties
<1>6. pos' <= Len(trace') /\ Retold(Now', pos', trace')
  BY <1>3, <1>4, <1>5
<1>7. QED
  BY <1>6 DEF DriverInvariant

\* The first pass accepts an answer.
LEMMA PassAccepts ==
    ASSUME ModestSizes, DriverInvariant, DriverSound', phase = "valid",
           NEW request \in Requests, Request(request), Ready(Now, request),
           request.type # "FREE" => Answer(Now, request).bp # NULL,
           NEW list, NEW fill, Accepted(request, list, fill)
    PROVE  DriverInvariant'
<1>1. HeapInvariant /\ HeapInvariant' /\ trace \in Seq(Requests)
      /\ Retold(Now, Len(trace), trace)
  BY DEF DriverInvariant, DriverSound
<1>2. phase' = "valid" /\ trace' = Append(trace, request)
  BY DEF Accepted
<1>3. Answered(Now, request, Now')
  BY <1>1, RequestAnswers
<1>4. WellHeld(Now'.heap, Now'.blocks)
  BY <1>1 DEF HeapInvariant, Now
<1>5. PICK t, more : t = Now' /\ more = Append(trace, request)
  OBVIOUS
<1>6. Retold(t, Len(more), more)
  BY <1>1, <1>3, <1>4, <1>5, StoryGrows
<1>7. Retold(Now', Len(trace'), trace')
  BY <1>2, <1>5, <1>6
<1>8. QED
  BY <1>2, <1>7 DEF DriverInvariant

\* A later pass does what the first one did.
LEMMA PassRepeats ==
    ASSUME ModestSizes, DriverInvariant, DriverSound', PassStep
    PROVE  DriverInvariant'
<1>1. /\ HeapInvariant /\ HeapInvariant' /\ trace \in Seq(Requests)
      /\ pos \in Nat /\ pos < Len(trace) /\ Retold(Now, pos, trace)
      /\ phase \in {"util", "speed"}
  BY DEF DriverInvariant, DriverSound, PassStep
<1>2. PICK request : request = trace[pos + 1]
  OBVIOUS
<1>3. /\ request \in Requests /\ Request(request) /\ pos' = pos + 1
      /\ trace' = trace
      /\ phase' = IF Refused(request) THEN "application error" ELSE phase
  BY <1>2, PassIsNext DEF PassStep, DriverInvariant
<1>4. PICK s : s = Now
  OBVIOUS
<1>5. /\ Ready(s, request)
      /\ request.type # "FREE" => Answer(s, request).bp # NULL
      /\ \A t : Answered(s, request, t) => Retold(t, pos + 1, trace)
  BY <1>1, <1>2, <1>4, StoryGoesOn
<1>6. Answered(s, request, Now')
  BY <1>1, <1>3, <1>4, <1>5, RequestAnswers
<1>7. Retold(Now', pos', trace')
  BY <1>3, <1>5, <1>6
<1>8. ~Refused(request)
  BY <1>4, <1>5 DEF Refused, Answer, Now
<1>9. pos' <= Len(trace')
  <2>1. PICK R : R = Requests
    OBVIOUS
  <2>2. trace \in Seq(R)
    BY <1>1, <2>1
  <2>3. Len(trace) \in Nat
    BY <2>2, LenProperties
  <2>4. PICK n, i : n = Len(trace) /\ i = pos
    OBVIOUS
  <2>5. n \in Nat /\ i \in Nat /\ i < n
    BY <1>1, <2>3, <2>4
  <2>6. Len(trace') = n /\ pos' = i + 1
    BY <1>3, <2>4
  <2>7. QED
    BY <2>5, <2>6
<1>10. QED
  BY <1>1, <1>3, <1>7, <1>8, <1>9 DEF DriverInvariant

\* memset leaves all answers as they are.
LEMMA PassMarks ==
    ASSUME ModestSizes, DriverInvariant, DriverSound', MarkBlock
    PROVE  DriverInvariant'
<1>1. /\ HeapInvariant /\ HeapInvariant' /\ phase = "valid"
      /\ filling \in Ids /\ blocks[filling] # None
      /\ Retold(Now, Len(trace), trace)
  BY DEF DriverInvariant, DriverSound, MarkBlock, HeldBy
<1>2. /\ phase' = phase /\ trace' = trace
      /\ IF blocks[filling].filled < Words(blocks[filling].size)
         THEN Fill(filling) ELSE UNCHANGED vars
  BY DEF MarkBlock
<1>3. PICK s, t : s = Now /\ t = Now'
  OBVIOUS
<1>4. /\ s.heap = heap /\ s.blocks = blocks
      /\ t.heap = heap' /\ t.blocks = blocks'
  BY <1>3 DEF Now
<1>5. /\ Akin(s.heap, t.heap)
      /\ \A id \in Ids : /\ s.blocks[id] = None <=> t.blocks[id] = None
                         /\ s.blocks[id] # None =>
                                t.blocks[id].bp = s.blocks[id].bp
  <2>1. CASE Fill(filling)
    <3>1. PICK id, b, n : id = filling /\ b = blocks[id] /\ n = Words(b.size)
      OBVIOUS
    <3>2. /\ heap' = Filled(heap, b, id)
          /\ blocks' = [blocks EXCEPT ![id].filled = n]
      BY <2>1, <3>1 DEF Fill, Filled
    <3>3. Akin(heap, heap')
      BY <1>1, <3>1, <3>2, AkinFilled DEF HeapInvariant
    <3>4. PICK T, U : Owned(heap, U, blocks)
      BY <1>1 DEF HeapInvariant, WellHeld
    <3>5. /\ blocks = [i \in Ids |-> blocks[i]]
          /\ b \in [bp : Nat, size : Sizes, filled : Nat]
      BY <1>1, <3>1, <3>4 DEF Owned, InPlace
    <3>6. PICK c : c = [b EXCEPT !.filled = n]
      OBVIOUS
    <3>7. c # None /\ c.bp = b.bp
      <4>1. b.bp \in Nat /\ b.size \in Nat
        BY <3>5 DEF ModestSizes, Modest
      <4>2. n \in Nat
        BY <3>1, <4>1 DEF Words, ALIGNMENT
      <4>3. c = Block(b.bp, b.size, n)
        BY <3>5, <3>6 DEF Block
      <4>4. QED
        BY <4>1, <4>2, <4>3, NewBlock
    <3>8. blocks' = [blocks EXCEPT ![id] = c]
      BY <3>1, <3>2, <3>6
    <3>9. /\ blocks'[id] = c /\ id \in Ids /\ blocks[id] # None
          /\ \A other \in Ids \ {id} : blocks'[other] = blocks[other]
      BY <1>1, <3>1, <3>5, <3>8
    <3>10. QED
      BY <1>4, <3>1, <3>3, <3>7, <3>9
  <2>2. CASE UNCHANGED vars
    <3>1. heap' = heap /\ blocks' = blocks
      BY <2>2 DEF vars
    <3>2. PICK T, U : Sound(heap, T, U)
      BY <1>1 DEF HeapInvariant, WellHeld
    <3>3. Alike(heap, heap, T, U)
      BY <3>2, AlikeSelf
    <3>4. QED
      BY <1>4, <3>1, <3>3 DEF Akin
  <2>3. QED
    BY <1>2, <2>1, <2>2
<1>6. Retold(t, Len(trace), trace)
  <2>1. PICK past : /\ Story(past, Len(trace), trace)
                    /\ Similar(past[Len(trace)], s)
    BY <1>1, <1>3 DEF Retold
  <2>2. Similar(past[Len(trace)], t)
    BY <1>5, <2>1, SimilarMore
  <2>3. QED
    BY <2>1, <2>2 DEF Retold
<1>7. Retold(Now', Len(trace'), trace')
  BY <1>2, <1>3, <1>6
<1>8. QED
  BY <1>1, <1>2, <1>7 DEF DriverInvariant

\* The driver starts well.
LEMMA DriverInvariantInit == DriverInit => DriverInvariant
<1> SUFFICES ASSUME DriverInit PROVE DriverInvariant
  OBVIOUS
<1>1. DriverSound
  BY DriverSoundInit
<1>2. phase = "next trace"
  BY DEF DriverInit
<1>3. QED
  BY <1>1, <1>2 DEF DriverInvariant

\* Every step keeps the driver's invariant.
LEMMA DriverInvariantNext ==
    ASSUME ModestSizes, DriverInvariant, [DriverNext]_<<vars, driverVars>>
    PROVE  DriverInvariant'
<1>1. DriverSound'
  BY DriverSoundNext DEF DriverInvariant
<1>2. CASE UNCHANGED <<vars, driverVars>>
  <2>1. Now' = Now /\ trace' = trace /\ pos' = pos /\ phase' = phase
    BY <1>2 DEF vars, driverVars, Now
  <2>2. QED
    BY <1>1, <2>1 DEF DriverInvariant
<1>3. CASE NextTrace
  BY <1>1, <1>3, FirstPass DEF NextTrace, BeginPass
<1>4. CASE BogusTrace
  <2>1. phase' = "bogus trace"
    BY <1>4 DEF BogusTrace
  <2>2. QED
    BY <1>1, <2>1 DEF DriverInvariant
<1>5. ASSUME NEW request \in Requests, phase = "valid", Consistent(request),
             \/ request.type = "ALLOC" /\ ValidAlloc(request)
             \/ request.type = "REALLOC" /\ ValidRealloc(request)
             \/ request.type = "FREE" /\ ValidFree(request)
      PROVE  DriverInvariant'
  <2>1. PICK id, size : id = request.index /\ size = request.size
    OBVIOUS
  <2>2. Now.heap = heap /\ Now.blocks = blocks
    BY DEF Now
  <2>3. ASSUME NEW error, malloc_error(error) PROVE DriverInvariant'
    <3>1. phase' = "next trace"
      BY <2>3 DEF malloc_error
    <3>2. QED
      BY <1>1, <3>1 DEF DriverInvariant
  <2>4. CASE request.type = "ALLOC"
    <3>1. PICK got : got = mm_malloc(heap, size)
      OBVIOUS
    <3>2. /\ blocks[id] = None /\ Given(id, size, got)
          /\ \/ \E error : malloc_error(error)
             \/ got.bp # NULL /\ \E list, fill : Accepted(request, list, fill)
      BY <1>5, <2>1, <2>4, <3>1 DEF ValidAlloc
    <3>3. Request(request)
      BY <2>1, <2>4, <3>1, <3>2 DEF Request, Malloc
    <3>4. Ready(Now, request) /\ Answer(Now, request) = got
      BY <2>1, <2>2, <2>4, <3>1, <3>2 DEF Ready, Answer
    <3>5. QED
      BY <1>1, <1>5, <2>3, <3>2, <3>3, <3>4, PassAccepts
  <2>5. CASE request.type = "REALLOC"
    <3>1. PICK got : got = mm_realloc(heap, blocks[id].bp, size)
      OBVIOUS
    <3>2. /\ Resized(id, blocks[id], size, got)
          /\ \/ \E error : malloc_error(error)
             \/ got.bp # NULL /\ \E list, fill : Accepted(request, list, fill)
      BY <1>5, <2>1, <2>5, <3>1 DEF ValidRealloc
    <3>3. blocks[id] # None
      BY <1>5, <2>1, <2>5 DEF Consistent
    <3>4. Request(request)
      BY <2>1, <2>5, <3>1, <3>2, <3>3 DEF Request, Realloc
    <3>5. Ready(Now, request) /\ Answer(Now, request) = got
      BY <2>1, <2>2, <2>5, <3>1, <3>3 DEF Ready, Answer
    <3>6. QED
      BY <1>1, <1>5, <2>3, <3>2, <3>4, <3>5, PassAccepts
  <2>6. CASE request.type = "FREE"
    <3>1. Free(id) /\ \E list, fill : Accepted(request, list, fill)
      BY <1>5, <2>1, <2>6 DEF ValidFree
    <3>2. Request(request)
      BY <2>1, <2>6, <3>1 DEF Request
    <3>3. Ready(Now, request)
      BY <2>1, <2>2, <2>6, <3>1 DEF Ready, Free
    <3>4. QED
      BY <1>1, <1>5, <2>6, <3>1, <3>2, <3>3, PassAccepts
  <2>7. QED
    BY <1>5, <2>4, <2>5, <2>6
<1>6. CASE eval_mm_valid
  BY <1>5, <1>6 DEF eval_mm_valid
<1>7. CASE MarkBlock
  BY <1>1, <1>7, PassMarks
<1>8. CASE Valid
  BY <1>1, <1>8, LaterPass DEF Valid, BeginPass
<1>9. CASE PassStep
  BY <1>1, <1>9, PassRepeats
<1>10. CASE EndOfUtil
  BY <1>1, <1>10, LaterPass DEF EndOfUtil, BeginPass
<1>11. ASSUME NEW s, NEW done, NEW secs, Measured(s, done, secs),
              phase = "speed"
       PROVE  DriverInvariant'
  <2>1. CASE done
    <3>1. phase' = "next trace"
      BY <1>11, <2>1 DEF Measured
    <3>2. QED
      BY <1>1, <3>1 DEF DriverInvariant
  <2>2. CASE ~done
    BY <1>1, <1>11, <2>2, LaterPass DEF Measured, BeginPass
  <2>3. QED
    BY <2>1, <2>2
<1>12. CASE fcyc
  BY <1>11, <1>12 DEF fcyc
<1>13. CASE ftimer
  BY <1>11, <1>13 DEF ftimer
<1>14. CASE Results
  <2>1. phase' = "results"
    BY <1>14 DEF Results
  <2>2. QED
    BY <1>1, <2>1 DEF DriverInvariant
<1>15. QED
  BY <1>2, <1>3, <1>4, <1>6, <1>7, <1>8, <1>9, <1>10, <1>12, <1>13, <1>14
  DEF DriverNext

\* What the driver says of this allocator is right: it reports no error but a
\* heap that is too small, its later passes never meet one, and its range list
\* is exact.
THEOREM DriverIsRight ==
    ASSUME ModestSizes PROVE DriverSpec => []VerdictsAreRight
<1>1. DriverInit => DriverInvariant
  BY DriverInvariantInit
<1>2. DriverInvariant /\ [DriverNext]_<<vars, driverVars>> => DriverInvariant'
  BY DriverInvariantNext
<1>3. DriverInvariant => VerdictsAreRight
  <2> SUFFICES ASSUME DriverInvariant PROVE VerdictsAreRight
    OBVIOUS
  <2>1. ToSet(errors) \subseteq {"failed"}
    BY DEF DriverInvariant, DriverSound, ToSet
  <2>2. ASSUME phase = "valid"
        PROVE  /\ ToSet(ranges) = {Extent(blocks[id]) : id \in HeldBy(blocks)}
               /\ Len(ranges) = Cardinality(HeldBy(blocks))
    <3>1. Exact(ranges, blocks, HeldBy(blocks))
      BY <2>2 DEF DriverInvariant, DriverSound, Checked
    <3>2. PICK T, U : Owned(heap, U, blocks)
      BY DEF DriverInvariant, DriverSound, HeapInvariant, WellHeld
    <3>3. \A id, other \in HeldBy(blocks) :
            id # other => blocks[id].bp # blocks[other].bp
      BY <3>2 DEF Owned, HeldBy
    <3>4. QED
      BY <3>1, <3>3, ExactCounts
  <2>3. QED
    BY <2>1, <2>2 DEF DriverInvariant, VerdictsAreRight, HeldBy
<1>4. QED
  BY <1>1, <1>2, <1>3, PTL DEF DriverSpec

\* In every pass over every trace, on memory that an earlier pass has left as it
\* was, the heap is consistent and its blocks in use are those the driver holds.
THEOREM DriverHeapIsRight ==
    ASSUME ModestSizes PROVE DriverSpec => [](HeapConsistent /\ HeldExactly)
<1>1. DriverInit => DriverInvariant
  BY DriverInvariantInit
<1>2. DriverInvariant /\ [DriverNext]_<<vars, driverVars>> => DriverInvariant'
  BY DriverInvariantNext
<1>3. DriverInvariant => HeapConsistent /\ HeldExactly
  BY InvariantConsistent, InvariantHeld DEF DriverInvariant, DriverSound
<1>4. QED
  BY <1>1, <1>2, <1>3, PTL DEF DriverSpec
-----------------------------------------------------------------------------
(* Sums of numbers: FoldLeft takes the last of them first, and is recursive. *)

Folds(g, s) ==
    g = [S \in SUBSET DOMAIN s |->
            IF S = {} THEN 0
            ELSE LET i == Max(S) IN g[S \ {i}] + s[i]]

FoldStep(g, s, S) == g[S] = IF S = {} THEN 0 ELSE g[S \ {Max(S)}] + s[Max(S)]

\* The greatest of some numbers.
LEMMA MaxIs ==
    ASSUME NEW n \in Nat, NEW S \in SUBSET (1 .. n), S # {}
    PROVE  Max(S) \in S /\ \A x \in S : x <= Max(S)
<1>1. PICK T : T = {n - x : x \in S}
  OBVIOUS
<1>2. T \in SUBSET Nat /\ T # {}
  <2>1. ASSUME NEW x \in S PROVE n - x \in Nat
    <3>1. x \in 1 .. n
      OBVIOUS
    <3>2. QED
      BY <3>1
  <2>2. QED
    BY <1>1, <2>1
<1>3. PICK y \in T : \A z \in T : y <= z
  BY <1>2, LeastExists
<1>4. PICK x \in S : y = n - x
  BY <1>1, <1>3
<1>5. \A z \in S : z <= x
  <2>1. ASSUME NEW z \in S PROVE z <= x
    <3>1. n - z \in T
      BY <1>1
    <3>2. QED
      BY <1>3, <1>4, <3>1
  <2>2. QED
    BY <2>1
<1>6. QED
  BY <1>5, Zenon DEF Max

\* The last of the first n numbers.
LEMMA MaxOfAll ==
    ASSUME NEW n \in Nat, NEW S \in SUBSET (1 .. n), n \in S
    PROVE  Max(S) = n
<1>1. PICK i : i = Max(S) /\ i \in S /\ n <= i
  BY MaxIs
<1>2. i \in 1 .. n
  BY <1>1
<1>3. QED
  BY <1>1, <1>2

\* What satisfies the definition of the fold, set by set.
LEMMA FoldsAre ==
    ASSUME NEW s, NEW g
    PROVE  Folds(g, s) <=> /\ g = [S \in SUBSET DOMAIN s |-> g[S]]
                           /\ \A S \in SUBSET DOMAIN s : FoldStep(g, s, S)
BY DEF Folds, FoldStep

\* There is such a function.
LEMMA FoldsExist ==
    ASSUME NEW n \in Nat, NEW s, DOMAIN s = 1 .. n
    PROVE  \E g : Folds(g, s)
<1> DEFINE Upto(g, k) == \A S \in SUBSET (1 .. k) : FoldStep(g, s, S)
           D == {k \in Nat : ~\E g : Upto(g, k)}
<1>1. \E g : Upto(g, 0)
  <2> DEFINE g == [S \in {{}} |-> 0]
  <2>1. \A S \in SUBSET (1 .. 0) : S = {}
    OBVIOUS
  <2>2. Upto(g, 0)
    BY <2>1 DEF FoldStep
  <2> HIDE DEF g
  <2>3. QED
    BY <2>2
<1>2. ASSUME NEW k \in Nat, k # 0, NEW f, Upto(f, k - 1)
      PROVE  \E g : Upto(g, k)
  <2> DEFINE g == [S \in SUBSET (1 .. k) |->
                     IF k \in S THEN f[S \ {k}] + s[k] ELSE f[S]]
  <2>1. \A S \in SUBSET (1 .. k) :
            g[S] = IF k \in S THEN f[S \ {k}] + s[k] ELSE f[S]
    OBVIOUS
  <2> HIDE DEF g
  <2>2. ASSUME NEW S \in SUBSET (1 .. k) PROVE FoldStep(g, s, S)
    <3>1. CASE k \in S
      <4>1. Max(S) = k
        BY <1>2, <3>1, MaxOfAll
      <4>2. S \ {k} \in SUBSET (1 .. k) /\ k \notin S \ {k} /\ S # {}
        BY <3>1
      <4>3. g[S \ {k}] = f[S \ {k}] /\ g[S] = f[S \ {k}] + s[k]
        BY <2>1, <3>1, <4>2
      <4>4. QED
        BY <4>1, <4>2, <4>3 DEF FoldStep
    <3>2. CASE k \notin S
      <4>1. S \in SUBSET (1 .. k - 1)
        BY <1>2, <3>2
      <4>2. FoldStep(f, s, S) /\ g[S] = f[S]
        BY <1>2, <2>1, <3>2, <4>1
      <4>3. CASE S = {}
        BY <4>2, <4>3 DEF FoldStep
      <4>4. CASE S # {}
        <5>1. PICK i : i = Max(S)
          OBVIOUS
        <5>2. S \ {i} \in SUBSET (1 .. k) /\ k \notin S \ {i}
          BY <3>2
        <5>3. g[S \ {i}] = f[S \ {i}]
          BY <2>1, <5>2
        <5>4. QED
          BY <4>2, <4>4, <5>1, <5>3 DEF FoldStep
      <4>5. QED
        BY <4>3, <4>4
    <3>3. QED
      BY <3>1, <3>2
  <2>3. QED
    BY <2>2
<1> HIDE DEF Upto
<1>3. CASE D # {}
  <2>1. PICK k \in D : \A m \in D : k <= m
    <3>1. D \in SUBSET Nat
      OBVIOUS
    <3> HIDE DEF D
    <3>2. QED
      BY <1>3, <3>1, LeastExists
  <2>2. k \in Nat /\ k # 0 /\ ~\E g : Upto(g, k)
    BY <1>1, <2>1
  <2>3. k - 1 \in Nat /\ k - 1 \notin D
    BY <2>1, <2>2
  <2>4. PICK f : Upto(f, k - 1)
    BY <2>3
  <2>5. QED
    BY <1>2, <2>2, <2>4
<1>4. CASE D = {}
  <2>1. PICK f : Upto(f, n)
    BY <1>4
  <2> DEFINE g == [S \in SUBSET (1 .. n) |-> f[S]]
  <2>2. /\ g = [S \in SUBSET (1 .. n) |-> g[S]]
        /\ \A S \in SUBSET (1 .. n) : g[S] = f[S]
    OBVIOUS
  <2> HIDE DEF g
  <2>3. ASSUME NEW S \in SUBSET (1 .. n) PROVE FoldStep(g, s, S)
    <3>1. FoldStep(f, s, S)
      BY <2>1 DEF Upto
    <3>2. PICK i : i = Max(S)
      OBVIOUS
    <3>3. S \ {i} \in SUBSET (1 .. n)
      OBVIOUS
    <3>4. g[S] = f[S] /\ g[S \ {i}] = f[S \ {i}]
      BY <2>2, <3>3
    <3>5. QED
      BY <3>1, <3>2, <3>4 DEF FoldStep
  <2>4. Folds(g, s)
    BY <2>2, <2>3, FoldsAre
  <2>5. QED
    BY <2>4
<1>5. QED
  BY <1>3, <1>4

\* FoldLeft is what such a function has for all of the numbers.
LEMMA SumIs ==
    ASSUME NEW n \in Nat, NEW s, DOMAIN s = 1 .. n
    PROVE  \E g : /\ \A S \in SUBSET (1 .. n) : FoldStep(g, s, S)
                  /\ FoldLeft(+, 0, s) = g[1 .. n]
<1>1. FoldLeft(+, 0, s) = (CHOOSE g : Folds(g, s))[DOMAIN s]
  BY Zenon DEF FoldLeft, MapThenFoldSet, Folds
<1>2. PICK g : Folds(g, s) /\ FoldLeft(+, 0, s) = g[1 .. n]
  <2>1. \E g : Folds(g, s)
    BY FoldsExist
  <2>2. Folds(CHOOSE g : Folds(g, s), s)
    BY <2>1, Zenon
  <2>3. QED
    BY <1>1, <2>2, Zenon
<1>3. \A S \in SUBSET (1 .. n) : FoldStep(g, s, S)
  BY <1>2, FoldsAre, Zenon
<1>4. QED
  BY <1>2, <1>3, Zenon

\* The first k numbers are the first k - 1 of them, and one more.
LEMMA FoldMore ==
    ASSUME NEW n \in Nat, NEW s, NEW g, NEW k \in 1 .. n,
           \A S \in SUBSET (1 .. n) : FoldStep(g, s, S)
    PROVE  g[1 .. k] = g[1 .. k - 1] + s[k]
<1>1. PICK S : S = 1 .. k
  OBVIOUS
<1>2. S \in SUBSET (1 .. n) /\ k \in S /\ S # {}
  BY <1>1
<1>3. S \ {k} = 1 .. k - 1
  BY <1>1
<1>4. Max(S) = k
  <2>1. S \in SUBSET (1 .. k) /\ k \in Nat
    BY <1>1
  <2>2. QED
    BY <1>2, <2>1, MaxOfAll
<1>5. g[S] = g[S \ {k}] + s[k]
  BY <1>2, <1>4 DEF FoldStep
<1>6. QED
  BY <1>1, <1>3, <1>5

\* The sum of natural numbers is one, and of n of at most 100 at most 100 n.
LEMMA FoldBounds ==
    ASSUME NEW n \in Nat, NEW s, \A i \in 1 .. n : s[i] \in Nat, NEW g,
           \A S \in SUBSET (1 .. n) : FoldStep(g, s, S)
    PROVE  /\ g[1 .. n] \in Nat
           /\ (\A i \in 1 .. n : s[i] <= 100) => g[1 .. n] <= 100 * n
<1> DEFINE Small == \A i \in 1 .. n : s[i] <= 100
           Bounded(k) == g[1 .. k] \in Nat /\ (Small => g[1 .. k] <= 100 * k)
           D == {k \in 0 .. n : ~Bounded(k)}
<1>1. Bounded(0)
  <2>1. 1 .. 0 = {}
    OBVIOUS
  <2>2. g[{}] = 0
    BY DEF FoldStep
  <2>3. QED
    BY <2>1, <2>2
<1>2. ASSUME NEW k \in 1 .. n, Bounded(k - 1) PROVE Bounded(k)
  <2>1. PICK x, y : x = g[1 .. k - 1] /\ y = g[1 .. k]
    OBVIOUS
  <2>2. y = x + s[k]
    <3>1. g[1 .. k] = g[1 .. k - 1] + s[k]
      <4> HIDE DEF Bounded, D
      <4>1. QED
        BY ONLY FoldMore, n \in Nat, k \in 1 .. n,
                \A S \in SUBSET (1 .. n) : FoldStep(g, s, S), Zenon
    <3>2. QED
      BY <2>1, <3>1
  <2>3. s[k] \in Nat /\ (Small => s[k] <= 100)
    OBVIOUS
  <2>4. x \in Nat /\ (Small => x <= 100 * (k - 1))
    BY <1>2, <2>1
  <2> HIDE DEF Small
  <2>5. y \in Nat /\ (Small => y <= 100 * k)
    BY <2>2, <2>3, <2>4
  <2>6. QED
    BY <2>1, <2>5
<1> HIDE DEF Bounded
<1>3. D \in SUBSET Nat
  OBVIOUS
<1>4. CASE D # {}
  <2>1. PICK k \in D : \A m \in D : k <= m
    <3> HIDE DEF D
    <3>1. QED
      BY <1>3, <1>4, LeastExists
  <2>2. k \in 1 .. n /\ k - 1 \in 0 .. n /\ ~Bounded(k)
    BY <1>1, <2>1
  <2>3. ~(k <= k - 1)
    BY <2>2
  <2>4. k - 1 \notin D
    BY <2>1, <2>3
  <2>5. Bounded(k - 1)
    BY <2>2, <2>4
  <2>6. QED
    BY <1>2, <2>2, <2>5
<1>5. CASE D = {}
  BY <1>5 DEF Bounded
<1>6. QED
  BY <1>4, <1>5

\* So it is with what FoldLeft gives.
LEMMA SumBounds ==
    ASSUME NEW n \in Nat, NEW s, DOMAIN s = 1 .. n,
           \A i \in 1 .. n : s[i] \in Nat
    PROVE  /\ FoldLeft(+, 0, s) \in Nat
           /\ (\A i \in 1 .. n : s[i] <= 100) =>
                FoldLeft(+, 0, s) <= 100 * n
<1>1. PICK g : /\ \A S \in SUBSET (1 .. n) : FoldStep(g, s, S)
               /\ FoldLeft(+, 0, s) = g[1 .. n]
  BY SumIs, Zenon
<1>2. /\ g[1 .. n] \in Nat
      /\ (\A i \in 1 .. n : s[i] <= 100) => g[1 .. n] <= 100 * n
  BY <1>1, FoldBounds, Zenon
<1>3. QED
  BY <1>1, <1>2, Zenon
-----------------------------------------------------------------------------
(* The cycle counter.                                                        *)

\* Quotient and remainder are told by the equation they satisfy.
LEMMA DivideIs ==
    ASSUME NEW n \in Nat, n # 0, NEW x \in Int
    PROVE  /\ x = n * (x \div n) + (x % n) /\ x \div n \in Int
           /\ x % n \in 0 .. n - 1
OBVIOUS

\* Within a range of n numbers, or next to it, the remainder is known.
LEMMA NoWrap ==
    ASSUME NEW n \in Nat, NEW r \in 0 .. n - 1
    PROVE  /\ r % n = r /\ (r - n) % n = r /\ (r + n) % n = r
OBVIOUS

\* The difference of two readings is the number of cycles between them, as long
\* as the counter has not gone round once: whether its lower half has wrapped
\* or not, and wherever it started.
LEMMA CounterIsRight ==
    ASSUME NEW start \in Nat, NEW cycles \in Nat, cycles < HALF * HALF
    PROVE  get_counter(start, start + cycles) = cycles
<1>1. PICK n : n = HALF
  OBVIOUS
<1>2. n \in Nat /\ n # 0
  BY <1>1, DriverAssumption
<1>3. PICK now : now = start + cycles /\ now \in Nat
  OBVIOUS
<1>4. PICK a, b, c, d : /\ a = start \div n /\ b = start % n
                        /\ c = now \div n /\ d = now % n
  OBVIOUS
<1>5. /\ a \in Int /\ b \in 0 .. n - 1 /\ start = n * a + b
      /\ c \in Int /\ d \in 0 .. n - 1 /\ now = n * c + d
  <2>1. start \in Int /\ now \in Int
    BY <1>3
  <2>2. /\ start = n * (start \div n) + (start % n) /\ start \div n \in Int
        /\ start % n \in 0 .. n - 1
    BY <1>2, <2>1, DivideIs
  <2>3. /\ now = n * (now \div n) + (now % n) /\ now \div n \in Int
        /\ now % n \in 0 .. n - 1
    BY <1>2, <2>1, DivideIs
  <2>4. QED
    BY <1>4, <2>2, <2>3
<1>6. cycles = n * (c - a) + (d - b)
  <2>1. n * (c - a) = n * c - n * a
    BY <1>2, <1>5
  <2>2. QED
    BY <1>2, <1>3, <1>5, <2>1
<1>7. cycles < n * n
  BY <1>1
<1>8. CASE b <= d
  <2>1. PICK lo : lo = d - b /\ lo \in 0 .. n - 1 /\ lo <= d
    BY <1>2, <1>5, <1>8
  <2>2. (d - b) % n = lo
    BY <1>2, <2>1, NoWrap
  <2>3. PICK hi : hi = c - a /\ hi \in Int /\ cycles = n * hi + lo
    BY <1>5, <1>6, <2>1
  <2>4. hi \in 0 .. n - 1
    <3>1. ASSUME hi < 0 PROVE FALSE
      <4>1. n * hi <= n * (-1)
        BY <1>2, <2>3, <3>1
      <4>2. QED
        BY <1>2, <2>1, <2>3, <4>1
    <3>2. ASSUME hi >= n PROVE FALSE
      <4>1. n * hi >= n * n
        BY <1>2, <2>3, <3>2
      <4>2. QED
        BY <1>2, <1>7, <2>1, <2>3, <4>1
    <3>3. QED
      BY <1>2, <2>3, <3>1, <3>2
  <2>5. (c - a - 0) % n = hi
    <3>1. c - a - 0 = hi
      BY <1>5, <2>3
    <3>2. QED
      BY <1>2, <2>4, <3>1, NoWrap
  <2>6. get_counter(start, now) = hi * n + lo
    BY <1>1, <1>2, <1>4, <1>5, <2>1, <2>2, <2>5 DEF get_counter
  <2>7. QED
    BY <1>2, <1>3, <2>1, <2>3, <2>4, <2>6
<1>9. CASE ~(b <= d)
  <2>1. PICK lo : lo = d - b + n /\ lo \in 0 .. n - 1 /\ lo > d
    BY <1>2, <1>5, <1>9
  <2>2. (d - b) % n = lo
    <3>1. d - b = lo - n
      BY <1>2, <1>5, <2>1
    <3>2. QED
      BY <1>2, <2>1, <3>1, NoWrap
  <2>3. PICK hi : hi = c - a - 1 /\ hi \in Int
    BY <1>5
  <2>4. cycles = n * hi + lo
    <3>1. n * (c - a) = n * hi + n
      BY <1>2, <1>5, <2>3
    <3>2. QED
      BY <1>2, <1>5, <1>6, <2>1, <2>3, <3>1
  <2>5. hi \in 0 .. n - 1
    <3>1. ASSUME hi < 0 PROVE FALSE
      <4>1. n * hi <= n * (-1)
        BY <1>2, <2>3, <3>1
      <4>2. QED
        BY <1>2, <2>1, <2>3, <2>4, <4>1
    <3>2. ASSUME hi >= n PROVE FALSE
      <4>1. n * hi >= n * n
        BY <1>2, <2>3, <3>2
      <4>2. QED
        BY <1>2, <1>7, <2>1, <2>3, <2>4, <4>1
    <3>3. QED
      BY <1>2, <2>3, <3>1, <3>2
  <2>6. (c - a - 1) % n = hi
    BY <1>2, <1>5, <2>3, <2>5, NoWrap
  <2>7. get_counter(start, now) = hi * n + lo
    BY <1>1, <1>2, <1>4, <1>5, <2>1, <2>2, <2>6 DEF get_counter
  <2>8. QED
    BY <1>2, <1>3, <2>1, <2>4, <2>5, <2>7
<1>10. QED
  BY <1>5, <1>8, <1>9
-----------------------------------------------------------------------------
(* The K best samples.                                                       *)

\* The values are samples, in order; the others are not better.  Sample at[i] is
\* value i.
Chosen(values, samples, at) ==
    /\ values \in Seq(Int) /\ samples \in Seq(Int)
    /\ \A i, j \in 1 .. Len(values) : i < j => values[i] <= values[j]
    /\ at \in [1 .. Len(values) -> 1 .. Len(samples)]
    /\ \A i, j \in 1 .. Len(values) : at[i] = at[j] => i = j
    /\ \A i \in 1 .. Len(values) : values[i] = samples[at[i]]
    /\ \A j \in 1 .. Len(samples) :
        \/ \E i \in 1 .. Len(values) : at[i] = j
        \/ \A i \in 1 .. Len(values) : values[i] <= samples[j]

\* What has been inserted is at its place p.
PutIn(r, values, val, p) ==
    /\ r \in Seq(Int) /\ Len(r) = Len(values) + 1
    /\ p \in 1 .. Len(values) + 1 /\ r[p] = val
    /\ \A i \in 1 .. Len(values) :
        IF i < p THEN r[i] = values[i] /\ values[i] <= val
        ELSE r[i + 1] = values[i] /\ values[i] > val

\* Inserted puts the value behind those that are not greater.
LEMMA InsertedIsPlaced ==
    ASSUME NEW values \in Seq(Int), NEW val \in Int,
           \A i, j \in 1 .. Len(values) : i < j => values[i] <= values[j]
    PROVE  \E p : PutIn(Inserted(values, val), values, val, p)
<1>1. PICK n \in Nat : n = Len(values)
  OBVIOUS
<1>2. PICK r : r = Inserted(values, val)
  OBVIOUS
<1>3. r = [i \in 1 .. n + 1 |->
              IF i <= n /\ values[i] <= val THEN values[i]
              ELSE IF i = 1 \/ values[i - 1] <= val THEN val
              ELSE values[i - 1]]
  BY <1>1, <1>2 DEF Inserted
<1>4. PICK T : T = {i \in 1 .. n + 1 : i = n + 1 \/ ~(values[i] <= val)}
  OBVIOUS
<1>5. T \in SUBSET Nat /\ n + 1 \in T
  BY <1>4
<1>6. PICK p \in T : \A i \in T : p <= i
  BY <1>5, LeastExists
<1>7. \A i \in 1 .. n : values[i] \in Int
  BY <1>1
<1>8. p \in 1 .. n + 1 /\ (p = n + 1 \/ ~(values[p] <= val))
  BY <1>4, <1>6
<1>9. ASSUME NEW i \in 1 .. n, i < p PROVE values[i] <= val
  BY <1>4, <1>6, <1>9
<1>10. ASSUME NEW i \in 1 .. n, ~(i < p) PROVE values[i] > val
  <2>1. p \in 1 .. n /\ values[p] > val
    BY <1>7, <1>8, <1>10
  <2>2. i = p \/ values[p] <= values[i]
    BY <1>1, <1>10, <2>1
  <2>3. QED
    BY <1>7, <2>1, <2>2
<1>11. ASSUME NEW i \in 1 .. n + 1 PROVE r[i] \in Int
  BY <1>3, <1>7, <1>11
<1>12. r \in Seq(Int) /\ Len(r) = n + 1
  BY <1>3, <1>11
<1>13. r[p] = val
  <2>1. p = 1 \/ values[p - 1] <= val
    BY <1>8, <1>9
  <2>2. ~(p <= n /\ values[p] <= val)
    BY <1>8
  <2>3. QED
    BY <1>3, <1>8, <2>1, <2>2
<1>14. ASSUME NEW i \in 1 .. n
       PROVE  IF i < p THEN r[i] = values[i] /\ values[i] <= val
              ELSE r[i + 1] = values[i] /\ values[i] > val
  <2>1. CASE i < p
    BY <1>3, <1>9, <2>1
  <2>2. CASE ~(i < p)
    <3>1. values[i] > val /\ (i + 1 <= n => values[i + 1] > val)
      BY <1>8, <1>10, <2>2
    <3>2. /\ ~(i + 1 <= n /\ values[i + 1] <= val)
          /\ ~(i + 1 = 1 \/ values[(i + 1) - 1] <= val)
      BY <1>7, <3>1
    <3>3. i + 1 \in 1 .. n + 1 /\ (i + 1) - 1 = i
      OBVIOUS
    <3>4. r[i + 1] = values[i]
      BY <1>3, <3>2, <3>3
    <3>5. QED
      BY <2>2, <3>1, <3>4
  <2>3. QED
    BY <2>1, <2>2
<1>15. QED
  BY <1>1, <1>2, <1>8, <1>12, <1>13, <1>14 DEF PutIn

\* No sample that is left out is better than val.
NoneBetter(values, samples, at, val) ==
    \A j \in 1 .. Len(samples) :
        (\A i \in 1 .. Len(values) : at[i] # j) => val <= samples[j]

\* The samples of at and a new one have been taken.
TakenToo(values, samples, at, to) ==
    /\ \A i \in 1 .. Len(values) :
        \E k \in 1 .. Len(values) + 1 : to[k] = at[i]
    /\ \E k \in 1 .. Len(values) + 1 : to[k] = Len(samples) + 1

\* Such a sample is inserted.
LEMMA InsertedIsChosen ==
    ASSUME NEW values, NEW samples, NEW at, Chosen(values, samples, at),
           NEW val \in Int, NoneBetter(values, samples, at, val)
    PROVE  /\ Inserted(values, val) \in Seq(Int)
           /\ Len(Inserted(values, val)) = Len(values) + 1
           /\ \E to : /\ Chosen(Inserted(values, val), Append(samples, val), to)
                      /\ TakenToo(values, samples, at, to)
<1>1. PICK n, m : n = Len(values) /\ m = Len(samples)
  OBVIOUS
<1>2. PICK r : r = Inserted(values, val)
  OBVIOUS
<1>3. PICK l : l = Append(samples, val)
  OBVIOUS
<1>4. /\ values \in Seq(Int) /\ samples \in Seq(Int) /\ n \in Nat /\ m \in Nat
      /\ \A i, j \in 1 .. n : i < j => values[i] <= values[j]
      /\ at \in [1 .. n -> 1 .. m]
      /\ \A i, j \in 1 .. n : at[i] = at[j] => i = j
      /\ \A i \in 1 .. n : values[i] = samples[at[i]] /\ values[i] \in Int
      /\ \A j \in 1 .. m : \/ \E i \in 1 .. n : at[i] = j
                           \/ \A i \in 1 .. n : values[i] <= samples[j]
  BY <1>1 DEF Chosen
<1>5. PICK p : PutIn(r, values, val, p)
  BY <1>2, <1>4, <1>1, InsertedIsPlaced
<1>6. /\ r \in Seq(Int) /\ Len(r) = n + 1 /\ p \in 1 .. n + 1 /\ r[p] = val
      /\ \A i \in 1 .. n : i < p => r[i] = values[i] /\ values[i] <= val
      /\ \A i \in 1 .. n : ~(i < p) => r[i + 1] = values[i] /\ values[i] > val
  BY <1>1, <1>5 DEF PutIn
<1>7. /\ l \in Seq(Int) /\ Len(l) = m + 1 /\ l[m + 1] = val
      /\ \A j \in 1 .. m : l[j] = samples[j] /\ samples[j] \in Int
  BY <1>1, <1>3, <1>4
<1>8. PICK to : to = [i \in 1 .. n + 1 |-> IF i < p THEN at[i]
                         ELSE IF i = p THEN m + 1 ELSE at[i - 1]]
  OBVIOUS
<1>9. /\ to[p] = m + 1
      /\ \A i \in 1 .. n : i < p => to[i] = at[i]
      /\ \A i \in 1 .. n : ~(i < p) => to[i + 1] = at[i]
  BY <1>4, <1>6, <1>8
<1>10. ASSUME NEW k \in 1 .. n + 1, k # p
       PROVE  \E i \in 1 .. n : /\ to[k] = at[i] /\ r[k] = values[i]
                                /\ IF i < p THEN k = i /\ r[k] <= val
                                   ELSE k = i + 1 /\ r[k] > val
  <2>1. CASE k < p
    <3>1. k \in 1 .. n
      BY <1>4, <1>6, <2>1
    <3>2. QED
      BY <1>6, <1>9, <2>1, <3>1
  <2>2. CASE ~(k < p)
    <3>1. k - 1 \in 1 .. n /\ ~(k - 1 < p) /\ (k - 1) + 1 = k
      BY <1>4, <1>6, <1>10, <2>2
    <3>2. /\ to[k] = at[k - 1] /\ r[k] = values[k - 1] /\ values[k - 1] > val
      BY <1>6, <1>9, <3>1
    <3>3. QED
      BY <3>1, <3>2
  <2>3. QED
    BY <2>1, <2>2
<1>11. to \in [1 .. n + 1 -> 1 .. m + 1]
  <2>1. ASSUME NEW k \in 1 .. n + 1 PROVE to[k] \in 1 .. m + 1
    <3>1. CASE k = p
      BY <1>4, <1>9, <3>1
    <3>2. CASE k # p
      <4>1. PICK i \in 1 .. n : to[k] = at[i]
        BY <1>10, <3>2
      <4>2. at[i] \in 1 .. m
        BY <1>4
      <4>3. QED
        BY <1>4, <4>1, <4>2
    <3>3. QED
      BY <3>1, <3>2
  <2>2. QED
    BY <1>8, <2>1
<1>12. ASSUME NEW k \in 1 .. n + 1 PROVE r[k] = l[to[k]]
  <2>1. CASE k = p
    BY <1>6, <1>7, <1>9, <2>1
  <2>2. CASE k # p
    <3>1. PICK i \in 1 .. n : to[k] = at[i] /\ r[k] = values[i]
      BY <1>10, <2>2
    <3>2. at[i] \in 1 .. m /\ values[i] = samples[at[i]]
      BY <1>4
    <3>3. QED
      BY <1>7, <3>1, <3>2
  <2>3. QED
    BY <2>1, <2>2
<1>13. ASSUME NEW k \in 1 .. n + 1, NEW j \in 1 .. n + 1, to[k] = to[j]
       PROVE  k = j
  <2>1. \A i \in 1 .. n : at[i] # m + 1
    BY <1>4
  <2>2. CASE k = p \/ j = p
    BY <1>9, <1>10, <1>13, <2>1, <2>2
  <2>3. CASE k # p /\ j # p
    <3>1. PICK i \in 1 .. n : /\ to[k] = at[i]
                              /\ IF i < p THEN k = i ELSE k = i + 1
      BY <1>10, <2>3
    <3>2. PICK h \in 1 .. n : /\ to[j] = at[h]
                              /\ IF h < p THEN j = h ELSE j = h + 1
      BY <1>10, <2>3
    <3>3. i = h
      BY <1>4, <1>13, <3>1, <3>2
    <3>4. QED
      BY <3>1, <3>2, <3>3
  <2>4. QED
    BY <2>2, <2>3
<1>14. ASSUME NEW k \in 1 .. n + 1, NEW j \in 1 .. n + 1, k < j
       PROVE  r[k] <= r[j]
  <2>1. CASE k = p
    <3>1. PICK i \in 1 .. n : /\ r[j] = values[i]
                              /\ IF i < p THEN j = i ELSE r[j] > val
      BY <1>10, <1>14, <2>1
    <3>2. ~(i < p)
      BY <1>6, <1>14, <2>1, <3>1
    <3>3. QED
      BY <1>4, <1>6, <2>1, <3>1, <3>2
  <2>2. CASE j = p
    <3>1. PICK i \in 1 .. n : /\ r[k] = values[i]
                              /\ IF i < p THEN r[k] <= val ELSE k = i + 1
      BY <1>10, <1>14, <2>2
    <3>2. i < p
      BY <1>6, <1>14, <2>2, <3>1
    <3>3. QED
      BY <1>6, <2>2, <3>1, <3>2
  <2>3. CASE k # p /\ j # p
    <3>1. PICK i \in 1 .. n : /\ r[k] = values[i]
                              /\ IF i < p THEN k = i ELSE k = i + 1
      BY <1>10, <2>3
    <3>2. PICK h \in 1 .. n : /\ r[j] = values[h]
                              /\ IF h < p THEN j = h ELSE j = h + 1
      BY <1>10, <2>3
    <3>3. i < h
      BY <1>6, <1>14, <2>3, <3>1, <3>2
    <3>4. QED
      BY <1>4, <3>1, <3>2, <3>3
  <2>4. QED
    BY <2>1, <2>2, <2>3
<1>15. ASSUME NEW i \in 1 .. n PROVE \E k \in 1 .. n + 1 : to[k] = at[i]
  <2>1. i \in 1 .. n + 1 /\ i + 1 \in 1 .. n + 1
    BY <1>4
  <2>2. QED
    BY <1>9, <2>1
<1>16. ASSUME NEW j \in 1 .. m + 1
       PROVE  \/ \E k \in 1 .. n + 1 : to[k] = j
              \/ \A k \in 1 .. n + 1 : r[k] <= l[j]
  <2>1. CASE j = m + 1
    BY <1>6, <1>9, <2>1
  <2>2. CASE j # m + 1 /\ \E i \in 1 .. n : at[i] = j
    BY <1>15, <2>2
  <2>3. CASE j # m + 1 /\ ~\E i \in 1 .. n : at[i] = j
    <3>1. j \in 1 .. m /\ l[j] = samples[j]
      BY <1>4, <1>7, <2>3
    <3>2. val <= l[j] /\ \A i \in 1 .. n : values[i] <= l[j]
      BY <1>1, <1>4, <2>3, <3>1 DEF NoneBetter
    <3>3. ASSUME NEW k \in 1 .. n + 1 PROVE r[k] <= l[j]
      BY <1>6, <1>10, <3>2
    <3>4. QED
      BY <3>3
  <2>4. QED
    BY <2>1, <2>2, <2>3
<1>17. Chosen(r, l, to)
  BY <1>6, <1>7, <1>11, <1>12, <1>13, <1>14, <1>16 DEF Chosen
<1>18. QED
  BY <1>1, <1>2, <1>3, <1>6, <1>9, <1>15, <1>17 DEF TakenToo

\* What add_sample keeps: the K best of the samples, or all that there are.
Sampled(values, samples) ==
    \E at : /\ Chosen(values, samples, at)
            /\ Len(values) = IF Len(samples) < K THEN Len(samples) ELSE K
            /\ Len(samples) <= K =>
                \A j \in 1 .. Len(samples) :
                    \E i \in 1 .. Len(values) : at[i] = j

\* They are the best of them.
LEMMA SampledBest ==
    ASSUME NEW values, NEW samples, Sampled(values, samples)
    PROVE  Best(values, samples)
<1>1. PICK at : /\ Chosen(values, samples, at)
                /\ Len(values) = IF Len(samples) < K THEN Len(samples) ELSE K
  BY DEF Sampled
<1>2. /\ DOMAIN values = 1 .. Len(values) /\ DOMAIN samples = 1 .. Len(samples)
      /\ at \in [DOMAIN values -> DOMAIN samples]
  <2>1. /\ values \in Seq(Int) /\ samples \in Seq(Int)
        /\ at \in [1 .. Len(values) -> 1 .. Len(samples)]
    BY <1>1 DEF Chosen
  <2>2. DOMAIN values = 1 .. Len(values) /\ DOMAIN samples = 1 .. Len(samples)
    BY <2>1
  <2>3. QED
    BY <2>1, <2>2
<1>3. at \in Injection(DOMAIN values, DOMAIN samples)
  BY <1>1, <1>2 DEF Chosen, Injection, IsInjective
<1>4. ASSUME NEW j \in DOMAIN samples \ Range(at), NEW i \in DOMAIN values
      PROVE  values[i] <= samples[j]
  <2>1. \A k \in DOMAIN values : at[k] # j
    BY <1>2 DEF Range
  <2>2. QED
    BY <1>1, <1>2, <2>1 DEF Chosen
<1>5. \A i \in DOMAIN values : values[i] = samples[at[i]]
  BY <1>1, <1>2 DEF Chosen
<1>6. \A i, j \in DOMAIN values : i < j => values[i] <= values[j]
  BY <1>1, <1>2 DEF Chosen
<1>7. QED
  BY <1>1, <1>3, <1>4, <1>5, <1>6 DEF Best

\* The first of them is the least sample.
LEMMA SampledLeast ==
    ASSUME NEW values, NEW samples, Sampled(values, samples),
           Len(samples) # 0
    PROVE  /\ values[1] \in ToSet(samples)
           /\ \A cyc \in ToSet(samples) : values[1] <= cyc
<1>1. PICK at : /\ Chosen(values, samples, at)
                /\ Len(values) = IF Len(samples) < K THEN Len(samples) ELSE K
  BY DEF Sampled
<1>2. PICK n, m : n = Len(values) /\ m = Len(samples)
  OBVIOUS
<1>3. /\ values \in Seq(Int) /\ samples \in Seq(Int)
      /\ \A i, j \in 1 .. n : i < j => values[i] <= values[j]
      /\ at \in [1 .. n -> 1 .. m]
      /\ \A i \in 1 .. n : values[i] = samples[at[i]]
      /\ \A j \in 1 .. m : \/ \E i \in 1 .. n : at[i] = j
                           \/ \A i \in 1 .. n : values[i] <= samples[j]
  BY <1>1, <1>2 DEF Chosen
<1>4. n \in Nat /\ m \in Nat /\ 1 \in 1 .. n /\ 1 \in 1 .. m
  <2>1. n \in Nat /\ m \in Nat /\ m # 0
    BY <1>2, <1>3
  <2>2. K \in Nat /\ K # 0
    BY DriverAssumption
  <2>3. QED
    BY <1>1, <1>2, <2>1, <2>2
<1>5. values[1] \in ToSet(samples)
  <2>1. at[1] \in 1 .. m /\ values[1] = samples[at[1]]
    BY <1>3, <1>4
  <2>2. QED
    BY <1>2, <1>3, <2>1 DEF ToSet
<1>6. ASSUME NEW j \in 1 .. m PROVE values[1] <= samples[j]
  <2>1. CASE \E i \in 1 .. n : at[i] = j
    <3>1. PICK i \in 1 .. n : at[i] = j
      BY <2>1
    <3>2. i = 1 \/ values[1] <= values[i]
      BY <1>3, <1>4
    <3>3. values[1] \in Int /\ values[i] = samples[j]
      BY <1>2, <1>3, <1>4, <3>1
    <3>4. QED
      BY <3>2, <3>3
  <2>2. CASE ~\E i \in 1 .. n : at[i] = j
    BY <1>3, <1>4, <2>2
  <2>3. QED
    BY <2>1, <2>2
<1>7. QED
  BY <1>2, <1>3, <1>5, <1>6 DEF ToSet

\* All but the last value, when there is one more to come that is better.
LEMMA FrontChosen ==
    ASSUME NEW values, NEW samples, NEW at, Chosen(values, samples, at),
           NEW n, n = Len(values), n # 0, NEW val \in Int, val < values[n],
           NEW f, f = [i \in 1 .. n - 1 |-> at[i]]
    PROVE  /\ Chosen(Front(values), samples, f) /\ Len(Front(values)) = n - 1
           /\ NoneBetter(Front(values), samples, f, val)
<1>1. PICK m : m = Len(samples)
  OBVIOUS
<1>2. /\ values \in Seq(Int) /\ samples \in Seq(Int) /\ n \in Nat /\ m \in Nat
      /\ \A i, j \in 1 .. n : i < j => values[i] <= values[j]
      /\ at \in [1 .. n -> 1 .. m]
      /\ \A i, j \in 1 .. n : at[i] = at[j] => i = j
      /\ \A i \in 1 .. n : values[i] = samples[at[i]] /\ values[i] \in Int
      /\ \A j \in 1 .. m : \/ \E i \in 1 .. n : at[i] = j
                           \/ \A i \in 1 .. n : values[i] <= samples[j]
  BY <1>1 DEF Chosen
<1>3. PICK r : r = Front(values)
  OBVIOUS
<1>4. /\ r \in Seq(Int) /\ Len(r) = n - 1 /\ n \in 1 .. n
      /\ \A i \in 1 .. n - 1 : r[i] = values[i] /\ f[i] = at[i] /\ i \in 1 .. n
  BY <1>2, <1>3 DEF Front
<1>5. ASSUME NEW j \in 1 .. m, \A i \in 1 .. n - 1 : f[i] # j
      PROVE  \A i \in 1 .. n : values[i] <= samples[j]
  <2>1. CASE at[n] = j
    <3>1. values[n] = samples[j]
      BY <1>2, <1>4, <2>1
    <3>2. ASSUME NEW i \in 1 .. n PROVE values[i] <= samples[j]
      <4>1. i = n \/ i < n
        BY <1>2
      <4>2. values[i] <= values[n]
        BY <1>2, <1>4, <4>1
      <4>3. QED
        BY <3>1, <4>2
    <3>3. QED
      BY <3>2
  <2>2. CASE at[n] # j
    <3>1. ASSUME NEW i \in 1 .. n PROVE at[i] # j
      <4>1. i = n \/ i \in 1 .. n - 1
        BY <1>2
      <4>2. QED
        BY <1>4, <1>5, <2>2, <4>1
    <3>2. QED
      BY <1>2, <3>1
  <2>3. QED
    BY <2>1, <2>2
<1>6. ASSUME NEW j \in 1 .. m, \A i \in 1 .. n - 1 : f[i] # j
      PROVE  val <= samples[j]
  <2>1. values[n] <= samples[j] /\ values[n] \in Int
    BY <1>2, <1>4, <1>5, <1>6
  <2>2. samples[j] \in Int
    BY <1>1, <1>2
  <2>3. QED
    BY <2>1, <2>2
<1>7. Chosen(r, samples, f)
  <2>1. \A i, j \in 1 .. n - 1 : i < j => r[i] <= r[j]
    BY <1>2, <1>4
  <2>2. f \in [1 .. n - 1 -> 1 .. m]
    BY <1>2, <1>4
  <2>3. \A i, j \in 1 .. n - 1 : f[i] = f[j] => i = j
    BY <1>2, <1>4
  <2>4. \A i \in 1 .. n - 1 : r[i] = samples[f[i]]
    BY <1>2, <1>4
  <2>5. \A j \in 1 .. m : \/ \E i \in 1 .. n - 1 : f[i] = j
                          \/ \A i \in 1 .. n - 1 : r[i] <= samples[j]
    BY <1>4, <1>5
  <2>6. QED
    BY <1>1, <1>2, <1>4, <2>1, <2>2, <2>3, <2>4, <2>5 DEF Chosen
<1>8. QED
  BY <1>1, <1>3, <1>4, <1>6, <1>7 DEF NoneBetter

Samplers ==
    [samples : Seq(Int), values : Seq(Int), timer : {None, "fcyc", "ftimer"}]

\* A sample that is worse than the K best is left out.
LEMMA WorseIsLeftOut ==
    ASSUME NEW values, NEW samples, NEW at, Chosen(values, samples, at),
           NEW n, n = Len(values), n # 0, NEW val \in Int, ~(val < values[n])
    PROVE  Chosen(values, Append(samples, val), at)
<1>1. PICK m : m = Len(samples)
  OBVIOUS
<1>2. PICK l : l = Append(samples, val)
  OBVIOUS
<1>3. /\ values \in Seq(Int) /\ samples \in Seq(Int) /\ n \in Nat /\ m \in Nat
      /\ \A i, j \in 1 .. n : i < j => values[i] <= values[j]
      /\ at \in [1 .. n -> 1 .. m]
      /\ \A i, j \in 1 .. n : at[i] = at[j] => i = j
      /\ \A i \in 1 .. n : values[i] = samples[at[i]] /\ values[i] \in Int
      /\ \A j \in 1 .. m : \/ \E i \in 1 .. n : at[i] = j
                           \/ \A i \in 1 .. n : values[i] <= samples[j]
  BY <1>1 DEF Chosen
<1>4. /\ l \in Seq(Int) /\ Len(l) = m + 1 /\ l[m + 1] = val
      /\ \A j \in 1 .. m : l[j] = samples[j]
  BY <1>1, <1>2, <1>3
<1>5. ASSUME NEW i \in 1 .. n PROVE values[i] <= val
  <2>1. n \in 1 .. n /\ (i = n \/ i < n)
    BY <1>3
  <2>2. values[i] <= values[n] /\ values[n] \in Int /\ values[i] \in Int
    BY <1>3, <2>1
  <2>3. QED
    BY <2>2
<1>6. at \in [1 .. n -> 1 .. m + 1]
  BY <1>3
<1>7. \A i \in 1 .. n : values[i] = l[at[i]]
  BY <1>3, <1>4
<1>8. \A j \in 1 .. m + 1 : \/ \E i \in 1 .. n : at[i] = j
                            \/ \A i \in 1 .. n : values[i] <= l[j]
  <2>1. ASSUME NEW j \in 1 .. m + 1
        PROVE  \/ \E i \in 1 .. n : at[i] = j
               \/ \A i \in 1 .. n : values[i] <= l[j]
    <3>1. j = m + 1 \/ j \in 1 .. m
      BY <1>3
    <3>2. QED
      BY <1>3, <1>4, <1>5, <3>1
  <2>2. QED
    BY <2>1
<1>9. QED
  BY <1>2, <1>3, <1>4, <1>6, <1>7, <1>8 DEF Chosen

\* add_sample keeps the best.
LEMMA SampledMore ==
    ASSUME NEW s \in Samplers, Sampled(s.values, s.samples), NEW val \in Int,
           NEW t, t = add_sample(s, val, val)
    PROVE  /\ t \in Samplers /\ Sampled(t.values, t.samples)
           /\ t.samples = Append(s.samples, val) /\ t.timer = s.timer
<1>1. PICK values, samples : values = s.values /\ samples = s.samples
  OBVIOUS
<1>2. PICK n, m : n = Len(values) /\ m = Len(samples)
  OBVIOUS
<1>3. PICK at : /\ Chosen(values, samples, at)
                /\ n = IF m < K THEN m ELSE K
                /\ m <= K => \A j \in 1 .. m : \E i \in 1 .. n : at[i] = j
  BY <1>1, <1>2 DEF Sampled
<1>4. /\ values \in Seq(Int) /\ samples \in Seq(Int) /\ n \in Nat /\ m \in Nat
      /\ K \in Nat /\ K # 0
  BY <1>1, <1>2, DriverAssumption DEF Samplers
<1>5. PICK l : l = Append(samples, val)
  OBVIOUS
<1>6. l \in Seq(Int) /\ Len(l) = m + 1
  BY <1>2, <1>4, <1>5
<1>7. PICK r : r = IF m < K THEN Inserted(values, val)
                   ELSE IF val < values[K] THEN Inserted(Front(values), val)
                   ELSE values
  OBVIOUS
<1>8. t = [s EXCEPT !.samples = l, !.values = r]
  BY <1>1, <1>2, <1>5, <1>7 DEF add_sample
<1>9. t.samples = l /\ t.values = r /\ t.timer = s.timer
  BY <1>8 DEF Samplers
<1>10. r \in Seq(Int) /\ Sampled(r, l)
  <2>1. CASE m < K
    <3>1. r = Inserted(values, val) /\ n = m
      BY <1>3, <1>7, <2>1
    <3>2. NoneBetter(values, samples, at, val)
      <4>1. m <= K
        BY <1>4, <2>1
      <4>2. \A j \in 1 .. m : \E i \in 1 .. n : at[i] = j
        BY <1>3, <4>1
      <4>3. QED
        BY <1>2, <4>2 DEF NoneBetter
    <3>3. /\ r \in Seq(Int) /\ Len(r) = n + 1
          /\ \E to : Chosen(r, l, to) /\ TakenToo(values, samples, at, to)
      <4>1. Chosen(values, samples, at)
        BY <1>3
      <4>2. QED
        BY <1>2, <1>5, <3>1, <3>2, <4>1, InsertedIsChosen
    <3>4. PICK to : /\ Chosen(r, l, to)
                    /\ \A i \in 1 .. n : \E k \in 1 .. n + 1 : to[k] = at[i]
                    /\ \E k \in 1 .. n + 1 : to[k] = m + 1
      BY <1>2, <3>3 DEF TakenToo
    <3>5. ASSUME NEW j \in 1 .. m + 1 PROVE \E k \in 1 .. n + 1 : to[k] = j
      <4>1. CASE j = m + 1
        BY <3>4, <4>1
      <4>2. CASE j # m + 1
        <5>1. j \in 1 .. m /\ m <= K
          BY <1>4, <2>1, <4>2
        <5>2. PICK i \in 1 .. n : at[i] = j
          BY <1>3, <5>1
        <5>3. QED
          BY <3>4, <5>2
      <4>3. QED
        BY <4>1, <4>2
    <3>6. Len(r) = IF m + 1 < K THEN m + 1 ELSE K
      BY <1>4, <2>1, <3>1, <3>3
    <3>7. QED
      BY <1>6, <3>3, <3>4, <3>5, <3>6 DEF Sampled
  <2>2. CASE ~(m < K) /\ val < values[K]
    <3>1. r = Inserted(Front(values), val) /\ n = K /\ ~(m + 1 <= K)
      BY <1>3, <1>4, <1>7, <2>2
    <3>2. PICK f : f = [i \in 1 .. n - 1 |-> at[i]]
      OBVIOUS
    <3>3. n = Len(values) /\ n # 0 /\ val < values[n]
      BY <1>2, <1>4, <2>2, <3>1
    <3>4. /\ Chosen(Front(values), samples, f) /\ Len(Front(values)) = n - 1
          /\ NoneBetter(Front(values), samples, f, val)
      <4>1. Chosen(values, samples, at)
        BY <1>3
      <4>2. QED
        BY <3>2, <3>3, <4>1, FrontChosen
    <3>5. /\ r \in Seq(Int) /\ Len(r) = (n - 1) + 1 /\ \E to : Chosen(r, l, to)
      BY <1>5, <3>1, <3>4, InsertedIsChosen
    <3>6. Len(r) = IF m + 1 < K THEN m + 1 ELSE K
      BY <1>4, <2>2, <3>1, <3>5
    <3>7. QED
      BY <1>6, <3>1, <3>5, <3>6 DEF Sampled
  <2>3. CASE ~(m < K) /\ ~(val < values[K])
    <3>1. r = values /\ n = K /\ ~(m + 1 <= K) /\ ~(m + 1 < K)
      BY <1>3, <1>4, <1>7, <2>3
    <3>2. Chosen(r, l, at)
      BY <1>2, <1>3, <1>4, <1>5, <2>3, <3>1, WorseIsLeftOut
    <3>3. QED
      BY <1>2, <1>4, <1>6, <3>1, <3>2 DEF Sampled
  <2>4. QED
    BY <2>1, <2>2, <2>3
<1>11. t \in Samplers
  BY <1>6, <1>8, <1>10 DEF Samplers
<1>12. QED
  BY <1>1, <1>5, <1>9, <1>10, <1>11

\* There is nothing to keep in the beginning.
LEMMA SampledNone == Sampled(<<>>, <<>>)
<1>1. K \in Nat /\ K # 0 /\ <<>> \in Seq(Int) /\ Len(<<>>) = 0
  BY DriverAssumption
<1>2. PICK at : at = [i \in 1 .. 0 |-> 1]
  OBVIOUS
<1>3. at \in [1 .. 0 -> 1 .. 0]
  BY <1>2
<1>4. Chosen(<<>>, <<>>, at)
  BY <1>1, <1>3 DEF Chosen
<1>5. QED
  BY <1>1, <1>4 DEF Sampled
-----------------------------------------------------------------------------
(* The use of space.                                                         *)

\* The bytes of the payloads of blocks.
Payload(b) == b.bp .. b.bp + b.size - 1
Taken(bs, X) == UNION {Payload(bs[id]) : id \in X}

\* The payloads lie in the heap, one apart from the other.
LEMMA PayloadsApart ==
    ASSUME ModestSizes, NEW h, NEW bs, WellHeld(h, bs),
           NEW id \in HeldBy(bs), NEW p, p = bs[id].bp,
           NEW size, size = bs[id].size
    PROVE  /\ p \in Nat /\ size \in Nat /\ h.brk \in Nat /\ p + size <= h.brk
           /\ \A other \in HeldBy(bs) : \A x \in Payload(bs[other]) :
                other # id => x \notin p .. p + size - 1
<1>1. PICK T, U : Sound(h, T, U) /\ Owned(h, U, bs)
  BY DEF WellHeld
<1>2. ASSUME NEW other \in HeldBy(bs),
             NEW q, q = bs[other].bp, NEW n, n = bs[other].size
      PROVE  /\ q \in Nat /\ n \in Nat /\ h.brk \in Nat /\ q \in T
             /\ SizeAt(h, q) \in Nat /\ n <= SizeAt(h, q)
             /\ q + SizeAt(h, q) <= h.brk
             /\ \A t \in T : t = q \/ t < q \/ q + SizeAt(h, q) <= t
  <2>1. PICK b : b = bs[other]
    OBVIOUS
  <2>2. InPlace(h, U, b)
    BY <1>1, <2>1 DEF Owned, HeldBy
  <2>3. PICK a, s : a = AdjustedSize(n) /\ s = SizeAt(h, q)
    OBVIOUS
  <2>4. Modest(n) /\ n \in Nat
    BY <1>2, <2>1, <2>2 DEF InPlace, ModestSizes, Modest
  <2>5. a \in Nat /\ a >= n + 8
    BY <2>3, <2>4, AdjustedIs
  <2>6. /\ q \in Nat /\ h.brk \in Nat /\ s \in Nat /\ a <= s /\ q + s <= h.brk
        /\ \A t \in T : t = q \/ t < q \/ q + s <= t
    BY <1>1, <1>2, <2>1, <2>2, <2>3, InPlaceFacts DEF InPlace
  <2>7. q \in T
    BY <1>1, <1>2, <2>1, <2>2 DEF InPlace, Sound, Tagged
  <2>8. n <= s
    BY <2>4, <2>5, <2>6
  <2>9. QED
    BY <2>3, <2>4, <2>6, <2>7, <2>8
<1>3. PICK s : s = SizeAt(h, p)
  OBVIOUS
<1>4. /\ p \in Nat /\ size \in Nat /\ h.brk \in Nat /\ p \in T /\ s \in Nat
      /\ size <= s /\ p + s <= h.brk
      /\ \A t \in T : t = p \/ t < p \/ p + s <= t
  BY <1>2, <1>3
<1>5. ASSUME NEW other \in HeldBy(bs), other # id,
             NEW x \in Payload(bs[other])
      PROVE  x \notin p .. p + size - 1
  <2>1. PICK q, n, t : q = bs[other].bp /\ n = bs[other].size
                       /\ t = SizeAt(h, q)
    OBVIOUS
  <2>2. /\ q \in Nat /\ n \in Nat /\ q \in T /\ t \in Nat /\ n <= t
        /\ p = q \/ p < q \/ q + t <= p
    BY <1>2, <1>4, <2>1
  <2>3. q # p
    BY <1>1, <1>5, <2>1 DEF Owned, HeldBy
  <2>4. q = p \/ q < p \/ p + s <= q
    BY <1>4, <2>2
  <2>5. x \in q .. q + n - 1
    BY <2>1 DEF Payload
  <2>6. QED
    BY <1>4, <2>2, <2>3, <2>4, <2>5
<1>6. p + size <= h.brk
  BY <1>4
<1>7. QED
  BY <1>4, <1>5, <1>6

\* So they take no more than there is.
LEMMA TakenFits ==
    ASSUME ModestSizes, NEW h, NEW bs, WellHeld(h, bs),
           NEW X \in SUBSET HeldBy(bs)
    PROVE  /\ IsFiniteSet(Taken(bs, X)) /\ Cardinality(Taken(bs, X)) \in Nat
           /\ h.brk \in Nat /\ Cardinality(Taken(bs, X)) <= h.brk
<1>1. PICK brk, all : brk = h.brk /\ all = Taken(bs, X)
  OBVIOUS
<1>2. brk \in Nat
  BY <1>1 DEF WellHeld, Sound, Tagged, Cuts
<1>3. ASSUME NEW x \in all PROVE x \in 0 .. brk - 1
  <2>1. PICK id \in X : x \in Payload(bs[id])
    BY <1>1 DEF Taken
  <2>2. PICK p, size : p = bs[id].bp /\ size = bs[id].size
    OBVIOUS
  <2>3. p \in Nat /\ size \in Nat /\ p + size <= brk
    BY <1>1, <2>2, PayloadsApart
  <2>4. x \in p .. p + size - 1
    BY <2>1, <2>2 DEF Payload
  <2>5. QED
    BY <1>2, <2>3, <2>4
<1>4. IsFiniteSet(0 .. brk - 1) /\ Cardinality(0 .. brk - 1) = brk
  <2>1. PICK top : top = brk - 1
    OBVIOUS
  <2>2. 0 \in Int /\ top \in Int /\ top - 0 + 1 = brk /\ (0 > top => brk = 0)
    BY <1>2, <2>1
  <2>3. /\ IsFiniteSet(0 .. top)
        /\ Cardinality(0 .. top) = IF 0 > top THEN 0 ELSE top - 0 + 1
    BY <2>2, FS_Interval
  <2>4. QED
    BY <2>1, <2>2, <2>3
<1>5. all \subseteq 0 .. brk - 1
  BY <1>3
<1>6. IsFiniteSet(all) /\ Cardinality(all) <= brk
  BY <1>4, <1>5, FS_Subset
<1>7. Cardinality(all) \in Nat
  BY <1>6, FS_CardinalityType
<1>8. QED
  BY <1>1, <1>2, <1>6, <1>7

\* One block of them takes its size.
LEMMA TakenSplit ==
    ASSUME ModestSizes, NEW h, NEW bs, WellHeld(h, bs),
           NEW X, X = HeldBy(bs), NEW id \in X
    PROVE  /\ Cardinality(Taken(bs, X)) =
                Cardinality(Taken(bs, X \ {id})) + bs[id].size
           /\ bs[id].size \in Nat
<1>1. PICK p, size : p = bs[id].bp /\ size = bs[id].size
  OBVIOUS
<1>2. /\ p \in Nat /\ size \in Nat
      /\ \A other \in X : \A x \in Payload(bs[other]) :
            other # id => x \notin p .. p + size - 1
  BY <1>1, PayloadsApart
<1>3. PICK all, rest, own : /\ all = Taken(bs, X)
                            /\ rest = Taken(bs, X \ {id})
                            /\ own = p .. p + size - 1
  OBVIOUS
<1>4. all = rest \cup own
  <2>1. Payload(bs[id]) = own
    BY <1>1, <1>3 DEF Payload
  <2>2. QED
    BY <1>3, <2>1 DEF Taken
<1>5. rest \cap own = {}
  BY <1>2, <1>3 DEF Taken
<1>6. IsFiniteSet(own) /\ Cardinality(own) = size
  <2>1. PICK top : top = p + size - 1
    OBVIOUS
  <2>2. /\ p \in Int /\ top \in Int /\ top - p + 1 = size
        /\ (p > top => size = 0)
    BY <1>2, <2>1
  <2>3. /\ IsFiniteSet(p .. top)
        /\ Cardinality(p .. top) = IF p > top THEN 0 ELSE top - p + 1
    BY <2>2, FS_Interval
  <2>4. QED
    BY <1>3, <2>1, <2>2, <2>3
<1>7. IsFiniteSet(rest) /\ Cardinality(rest) \in Nat
  <2>1. X \ {id} \in SUBSET HeldBy(bs)
    OBVIOUS
  <2>2. QED
    BY <1>3, <2>1, TakenFits
<1>8. /\ IsFiniteSet(all)
      /\ Cardinality(all) =
            Cardinality(rest) + Cardinality(own) - Cardinality(rest \cap own)
  BY <1>4, <1>6, <1>7, FS_Union
<1>9. Cardinality(rest \cap own) = 0
  BY <1>5, FS_EmptySet
<1>10. QED
  BY <1>1, <1>2, <1>3, <1>6, <1>7, <1>8, <1>9

\* Where the blocks are the same, they take the same.
LEMMA TakenSame ==
    ASSUME NEW bs, NEW cs, NEW X, \A id \in X : cs[id] = bs[id]
    PROVE  Taken(cs, X) = Taken(bs, X)
BY DEF Taken

\* A change of one block changes what is taken by its sizes.
LEMMA TakenChange ==
    ASSUME ModestSizes, NEW h, NEW bs, WellHeld(h, bs),
           NEW g, NEW cs, WellHeld(g, cs), NEW id \in Ids,
           \A other \in Ids \ {id} : cs[other] = bs[other],
           NEW old, old = IF bs[id] = None THEN 0 ELSE bs[id].size,
           NEW new, new = IF cs[id] = None THEN 0 ELSE cs[id].size,
           NEW before, before = Cardinality(Taken(bs, HeldBy(bs))),
           NEW after, after = Cardinality(Taken(cs, HeldBy(cs)))
    PROVE  after = before + (new - old)
<1>1. PICK X : X = HeldBy(bs) \ {id}
  OBVIOUS
<1>2. X = HeldBy(cs) \ {id} /\ X \in SUBSET HeldBy(bs)
  BY <1>1 DEF HeldBy
<1>3. Taken(cs, X) = Taken(bs, X)
  BY <1>1, TakenSame DEF HeldBy
<1>4. PICK rest : rest = Cardinality(Taken(bs, X))
  OBVIOUS
<1>5. rest \in Nat
  BY <1>2, <1>4, TakenFits
<1>6. before = rest + old /\ old \in Nat
  <2>1. CASE bs[id] = None
    <3>1. HeldBy(bs) = X
      BY <1>1, <2>1 DEF HeldBy
    <3>2. QED
      BY <1>4, <1>5, <2>1, <3>1
  <2>2. CASE bs[id] # None
    <3>1. id \in HeldBy(bs)
      BY <2>2 DEF HeldBy
    <3>2. QED
      BY <1>1, <1>4, <2>2, <3>1, TakenSplit
  <2>3. QED
    BY <2>1, <2>2
<1>7. after = rest + new /\ new \in Nat
  <2>1. CASE cs[id] = None
    <3>1. HeldBy(cs) = X
      BY <1>2, <2>1 DEF HeldBy
    <3>2. QED
      BY <1>3, <1>4, <1>5, <2>1, <3>1
  <2>2. CASE cs[id] # None
    <3>1. id \in HeldBy(cs)
      BY <2>2 DEF HeldBy
    <3>2. QED
      BY <1>2, <1>3, <1>4, <2>2, <3>1, TakenSplit
  <2>3. QED
    BY <2>1, <2>2
<1>8. QED
  BY <1>5, <1>6, <1>7

\* A request that is granted changes what is taken as the driver counts, and
\* the heap does not shrink.
LEMMA RequestRoom ==
    ASSUME ModestSizes, HeapInvariant, HeapInvariant',
           NEW request \in Requests, Request(request), Ready(Now, request),
           request.type # "FREE" => Answer(Now, request).bp # NULL,
           NEW before, before = Cardinality(Taken(blocks, HeldBy(blocks))),
           NEW after, after = Cardinality(Taken(blocks', HeldBy(blocks')))
    PROVE  heap.brk <= heap'.brk /\ after = before + Change(request)
<1>1. PICK T, U : Sound(heap, T, U) /\ Owned(heap, U, blocks)
  BY DEF HeapInvariant, WellHeld
<1>2. PICK id, size : id = request.index /\ size = request.size
  OBVIOUS
<1>3. /\ id \in Ids /\ request.type \in {"ALLOC", "REALLOC", "FREE"}
      /\ request.type = "FREE" => size = 0
      /\ request.type # "FREE" => size # 0 /\ Modest(size) /\ Modest(size * 2)
  <2>1. /\ id \in Ids /\ request.type \in {"ALLOC", "REALLOC", "FREE"}
        /\ request.type # "FREE" => size \in Sizes /\ size # 0
        /\ request.type = "FREE" => size = 0
    BY <1>2, RequestIs DEF Requests
  <2>2. \A x \in Sizes : Modest(x) /\ Modest(x * 2)
    BY DEF ModestSizes
  <2>3. QED
    BY <2>1, <2>2
<1>4. PICK answer, bs, cs : /\ answer = Answer(Now, request)
                            /\ bs = blocks /\ cs = blocks'
  OBVIOUS
<1>5. /\ bs = [i \in Ids |-> bs[i]]
      /\ bs[id] = None <=> request.type = "ALLOC"
  BY <1>1, <1>2, <1>4 DEF Owned, Ready, Now
<1>6. cs[id] = None <=> request.type = "FREE"
  <2>1. Answered(Now, request, Now')
    BY RequestAnswers
  <2>2. QED
    BY <1>2, <1>4, <2>1 DEF Answered, Now
<1>7. /\ heap.brk <= heap'.brk
      /\ \A other \in Ids \ {id} : cs[other] = bs[other]
      /\ request.type # "FREE" => cs[id].size = size
  <2>1. CASE request.type = "ALLOC"
    <3>1. answer = mm_malloc(heap, size) /\ answer.bp # NULL
      BY <1>2, <1>4, <2>1 DEF Answer, Now
    <3>2. PICK b : b = Block(answer.bp, size, 0)
      OBVIOUS
    <3>3. heap' = answer.heap /\ cs = [bs EXCEPT ![id] = b]
      BY <1>2, <1>4, <2>1, <3>1, <3>2 DEF Request, Malloc, Given
    <3>4. cs[id] = b /\ \A other \in Ids \ {id} : cs[other] = bs[other]
      BY <1>3, <1>5, <3>3
    <3>5. b.size = size
      BY <3>2 DEF Block
    <3>6. heap.brk <= answer.heap.brk
      <4>1. Allocated(heap, answer, T, U, size)
        BY <1>1, <1>3, <2>1, <3>1, MallocKeeps
      <4>2. QED
        BY <3>1, <4>1 DEF Allocated
    <3>7. QED
      BY <3>3, <3>4, <3>5, <3>6
  <2>2. CASE request.type = "REALLOC"
    <3>1. PICK old : old = blocks[id]
      OBVIOUS
    <3>2. old # None
      BY <1>4, <1>5, <2>2, <3>1
    <3>3. answer = mm_realloc(heap, old.bp, size) /\ answer.bp # NULL
      BY <1>2, <1>4, <2>2, <3>1 DEF Answer, Now
    <3>4. PICK kept : kept = IF Words(size) < old.filled THEN Words(size)
                             ELSE old.filled
      OBVIOUS
    <3>5. PICK b : b = Block(answer.bp, size, kept)
      OBVIOUS
    <3>6. heap' = answer.heap /\ cs = [bs EXCEPT ![id] = b]
      BY <1>2, <1>3, <1>4, <2>2, <3>1, <3>2, <3>3, <3>4, <3>5
      DEF Request, Realloc, Resized
    <3>7. cs[id] = b /\ \A other \in Ids \ {id} : cs[other] = bs[other]
      BY <1>3, <1>5, <3>6
    <3>8. b.size = size
      BY <3>5 DEF Block
    <3>9. heap.brk <= answer.heap.brk
      <4>1. PICK bp : bp = old.bp
        OBVIOUS
      <4>2. bp \in U /\ bp # heap_listp /\ bp # heap.brk
        BY <1>1, <1>3, <3>1, <3>2, <4>1 DEF Owned, InPlace
      <4>3. Reallocated(heap, answer, U, bp, size)
        BY <1>1, <1>3, <2>2, <3>3, <4>1, <4>2, ReallocKeeps
      <4>4. heap.brk \in Nat
        BY <1>1 DEF Sound, Tagged, Cuts
      <4>5. QED
        BY <1>3, <2>2, <3>3, <4>3, <4>4 DEF Reallocated, Moved
    <3>10. QED
      BY <3>6, <3>7, <3>8, <3>9
  <2>3. CASE request.type = "FREE"
    <3>1. PICK bp : bp = blocks[id].bp
      OBVIOUS
    <3>2. heap' = mm_free(heap, bp) /\ cs = [bs EXCEPT ![id] = None]
      BY <1>2, <1>4, <2>3, <3>1 DEF Request, Free
    <3>3. \A other \in Ids \ {id} : cs[other] = bs[other]
      BY <1>5, <3>2
    <3>4. bp \in U /\ bp # heap_listp /\ bp # heap.brk
      BY <1>1, <1>3, <1>4, <1>5, <2>3, <3>1 DEF Owned, InPlace
    <3>5. PICK V, g : V = U \ {bp} /\ g = mm_free(heap, bp)
      OBVIOUS
    <3>6. g.brk = heap.brk
      BY <1>1, <3>4, <3>5, FreeKeeps
    <3>7. heap.brk \in Nat
      BY <1>1 DEF Sound, Tagged, Cuts
    <3>8. QED
      BY <2>3, <3>2, <3>3, <3>5, <3>6, <3>7
  <2>4. QED
    BY <1>3, <2>1, <2>2, <2>3
<1>8. PICK old, new : /\ old = IF bs[id] = None THEN 0 ELSE bs[id].size
                      /\ new = IF cs[id] = None THEN 0 ELSE cs[id].size
  OBVIOUS
<1>9. after = before + (new - old)
  <2>1. WellHeld(heap, bs) /\ WellHeld(heap', cs)
    BY <1>4 DEF HeapInvariant
  <2>2. PICK h, g : h = heap /\ g = heap'
    OBVIOUS
  <2>3. /\ before = Cardinality(Taken(bs, HeldBy(bs)))
        /\ after = Cardinality(Taken(cs, HeldBy(cs)))
    BY <1>4
  <2>4. QED
    BY <1>3, <1>7, <1>8, <2>1, <2>2, <2>3, TakenChange
<1>10. new - old = Change(request)
  BY <1>2, <1>3, <1>4, <1>5, <1>6, <1>7, <1>8 DEF Change
<1>11. QED
  BY <1>7, <1>9, <1>10

\* While the use of space is evaluated, the driver knows what is taken, and the
\* most that was taken fits the heap.
RoomSound ==
    /\ phase = "valid" => space = [total |-> 0, max |-> 0]
    /\ phase = "util" =>
        /\ space.total = Cardinality(Taken(blocks, HeldBy(blocks)))
        /\ space.max \in Nat /\ space.max <= heap.brk

\* It does at first.
LEMMA RoomBegins ==
    ASSUME DriverInvariant', Reset, space = [total |-> 0, max |-> 0],
           space' = space
    PROVE  /\ space'.total = Cardinality(Taken(blocks', HeldBy(blocks')))
           /\ space'.max \in Nat /\ space'.max <= heap'.brk
<1>1. blocks' = [id \in Ids |-> None]
  BY DEF Reset
<1>2. PICK bs : bs = blocks'
  OBVIOUS
<1>3. HeldBy(bs) = {}
  BY <1>1, <1>2 DEF HeldBy
<1>4. Taken(bs, HeldBy(bs)) = {}
  BY <1>3 DEF Taken
<1>5. Cardinality(Taken(bs, HeldBy(bs))) = 0
  BY <1>4, FS_EmptySet
<1>6. heap'.brk \in Nat
  BY DEF DriverInvariant, DriverSound, HeapInvariant, WellHeld, Sound, Tagged,
         Cuts
<1>7. QED
  BY <1>2, <1>5, <1>6

\* A request of the pass changes both.
LEMMA RoomChanges ==
    ASSUME ModestSizes, DriverInvariant, DriverInvariant', RoomSound, PassStep,
           phase = "util"
    PROVE  /\ space'.total = Cardinality(Taken(blocks', HeldBy(blocks')))
           /\ space'.max \in Nat /\ space'.max <= heap'.brk
<1>1. /\ HeapInvariant /\ HeapInvariant' /\ trace \in Seq(Requests)
      /\ pos \in Nat /\ pos < Len(trace) /\ Retold(Now, pos, trace)
  BY DEF DriverInvariant, DriverSound, PassStep
<1>2. PICK request : request = trace[pos + 1]
  OBVIOUS
<1>3. PICK total : total = space.total + Change(request)
  OBVIOUS
<1>4. /\ request \in Requests /\ Request(request)
      /\ space' = [total |-> total, max |-> Larger(space.max, total)]
  BY <1>2, <1>3, PassIsNext DEF PassStep, DriverInvariant
<1>5. PICK s : s = Now
  OBVIOUS
<1>6. /\ Ready(s, request)
      /\ request.type # "FREE" => Answer(s, request).bp # NULL
  BY <1>1, <1>2, <1>5, StoryGoesOn
<1>7. PICK before, after :
        /\ before = Cardinality(Taken(blocks, HeldBy(blocks)))
        /\ after = Cardinality(Taken(blocks', HeldBy(blocks')))
  OBVIOUS
<1>8. heap.brk <= heap'.brk /\ after = before + Change(request)
  BY <1>1, <1>4, <1>5, <1>6, <1>7, RequestRoom
<1>9. /\ space.total = before /\ space.max \in Nat /\ space.max <= heap.brk
  BY <1>7 DEF RoomSound
<1>10. heap.brk \in Nat /\ heap'.brk \in Nat /\ after \in Nat
       /\ after <= heap'.brk
  <2>1. PICK h, g, cs : h = heap /\ g = heap' /\ cs = blocks'
    OBVIOUS
  <2>2. WellHeld(h, blocks) /\ WellHeld(g, cs)
    BY <1>1, <2>1 DEF HeapInvariant
  <2>3. h.brk \in Nat
    BY <2>2, TakenFits
  <2>4. g.brk \in Nat /\ after \in Nat /\ after <= g.brk
    BY <1>7, <2>1, <2>2, TakenFits
  <2>5. QED
    BY <2>1, <2>3, <2>4
<1>11. total = after
  BY <1>3, <1>8, <1>9
<1>12. /\ Larger(space.max, total) \in Nat
       /\ Larger(space.max, total) <= heap'.brk
  BY <1>8, <1>9, <1>10, <1>11 DEF Larger
<1>13. QED
  BY <1>4, <1>7, <1>11, <1>12

\* The driver starts with nothing.
LEMMA RoomSoundInit == DriverInit => RoomSound
BY DEF DriverInit, RoomSound

\* Every step keeps the sums.
LEMMA RoomSoundNext ==
    ASSUME ModestSizes, DriverInvariant, DriverInvariant', RoomSound,
           [DriverNext]_<<vars, driverVars>>
    PROVE  RoomSound'
<1>1. CASE UNCHANGED <<vars, driverVars>>
  BY <1>1 DEF vars, driverVars, RoomSound
<1>2. CASE NextTrace
  BY <1>2 DEF NextTrace, RoomSound
<1>3. CASE BogusTrace \/ Results
  BY <1>3 DEF BogusTrace, Results, RoomSound
<1>4. CASE eval_mm_valid
  <2>1. phase = "valid" /\ phase' \in {"valid", "next trace"} /\ space' = space
    BY <1>4 DEF eval_mm_valid, ValidAlloc, ValidRealloc, ValidFree,
                malloc_error, Accepted
  <2>2. QED
    BY <2>1 DEF RoomSound
<1>5. CASE MarkBlock
  BY <1>5 DEF MarkBlock, RoomSound
<1>6. CASE Valid
  BY <1>6, RoomBegins DEF Valid, BeginPass, RoomSound
<1>7. CASE PassStep
  <2>1. CASE phase = "util"
    <3>1. phase' \in {"util", "application error"}
      BY <1>7, <2>1 DEF PassStep
    <3>2. QED
      BY <1>7, <2>1, <3>1, RoomChanges DEF RoomSound
  <2>2. CASE phase # "util"
    <3>1. phase' \in {"speed", "application error"}
      BY <1>7, <2>2 DEF PassStep
    <3>2. QED
      BY <3>1 DEF RoomSound
  <2>3. QED
    BY <2>1, <2>2
<1>8. CASE EndOfUtil
  BY <1>8 DEF EndOfUtil, RoomSound
<1>9. ASSUME NEW s, NEW done, NEW secs, Measured(s, done, secs)
      PROVE  RoomSound'
  <2>1. phase' \in {"next trace", "speed"}
    BY <1>9 DEF Measured
  <2>2. QED
    BY <2>1 DEF RoomSound
<1>10. CASE fcyc \/ ftimer
  BY <1>9, <1>10 DEF fcyc, ftimer
<1>11. QED
  BY <1>1, <1>2, <1>3, <1>4, <1>5, <1>6, <1>7, <1>8, <1>10 DEF DriverNext
-----------------------------------------------------------------------------
(* The performance index.                                                    *)

Stats == [ops : Nat, valid : BOOLEAN, util : 0 .. 100, secs : Int]

\* A quotient is not more than c when the dividend is not more than c divisors.
LEMMA QuotientBounds ==
    ASSUME NEW n \in Nat, n # 0, NEW c \in Nat, NEW x \in Nat, x <= c * n
    PROVE  x \div n \in 0 .. c
<1>1. PICK q, r : q = x \div n /\ r = x % n
  OBVIOUS
<1>2. x = n * q + r /\ q \in Int /\ r \in 0 .. n - 1
  BY <1>1, DivideIs
<1>3. q >= 0
  <2>1. SUFFICES ASSUME q <= -1 PROVE FALSE
    BY <1>2
  <2>2. PICK p : p = -1 - q
    OBVIOUS
  <2>3. p \in Nat /\ q = -1 - p
    BY <1>2, <2>1, <2>2
  <2>4. n * q = -n - n * p /\ n * p \in Nat
    BY <2>3
  <2>5. QED
    BY <1>2, <2>4
<1>4. q <= c
  <2>1. SUFFICES ASSUME q >= c + 1 PROVE FALSE
    BY <1>2
  <2>2. PICK p : p = q - c - 1
    OBVIOUS
  <2>3. p \in Nat /\ q = p + c + 1
    BY <1>2, <2>1, <2>2
  <2>4. n * q = n * p + c * n + n /\ n * p \in Nat /\ c * n \in Nat
    BY <2>3
  <2>5. QED
    BY <1>2, <2>4
<1>5. QED
  BY <1>1, <1>2, <1>3, <1>4

\* The columns of the table.
LEMMA Columns ==
    ASSUME NEW table \in Seq(Stats), NEW n, n = Len(table)
    PROVE  /\ n \in Nat
           /\ [i \in DOMAIN table |-> table[i]["util"]]
                = [i \in 1 .. n |-> table[i].util]
           /\ [i \in DOMAIN table |-> table[i]["ops"]]
                = [i \in 1 .. n |-> table[i].ops]
           /\ [i \in DOMAIN table |-> table[i]["secs"]]
                = [i \in 1 .. n |-> table[i].secs]
           /\ \A i \in 1 .. n : /\ table[i].util \in Nat /\ table[i].util <= 100
                                /\ table[i].ops \in Nat /\ table[i].secs \in Int
<1>1. PICK R : R = Stats
  OBVIOUS
<1>2. table \in Seq(R)
  BY <1>1
<1>3. n \in Nat /\ DOMAIN table = 1 .. n
  BY <1>2
<1>4. ASSUME NEW i \in 1 .. n
      PROVE  /\ table[i].util \in Nat /\ table[i].util <= 100
             /\ table[i].ops \in Nat /\ table[i].secs \in Int
  <2>1. table[i] \in R
    BY <1>2, <1>3
  <2>2. PICK stat \in Stats : stat = table[i]
    BY <1>1, <2>1
  <2>3. stat.util \in 0 .. 100 /\ stat.ops \in Nat /\ stat.secs \in Int
    BY DEF Stats
  <2>4. \A x \in 0 .. 100 : x \in Nat /\ x <= 100
    OBVIOUS
  <2>5. QED
    BY <2>2, <2>3, <2>4
<1>5. QED
  BY <1>3, <1>4

\* The two parts of the index.
LEMMA PointsBounds ==
    ASSUME NEW util \in 0 .. 100, NEW fast \in 0 .. 40
    PROVE  (60 * util) \div 100 + fast \in 0 .. 100
<1>1. 60 * util \in Nat /\ 60 * util <= 60 * 100
  OBVIOUS
<1>2. PICK used : used = (60 * util) \div 100
  OBVIOUS
<1>3. used \in 0 .. 60
  BY <1>1, <1>2, QuotientBounds
<1>4. QED
  BY <1>2, <1>3

\* The index is a number of points, when no time is negative.
LEMMA PerfIndexBounds ==
    ASSUME stats \in Seq(Stats), stats # <<>>,
           \A i \in DOMAIN stats : stats[i].secs >= 0
    PROVE  PerfIndex \in 0 .. 100
<1>1. PICK table, n : table = stats /\ n = Len(table)
  OBVIOUS
<1>2. table \in Seq(Stats) /\ table # <<>>
  BY <1>1
<1>3. n \in Nat /\ n # 0
  BY <1>1, <1>2, Columns, EmptySeq
<1>4. PICK utils, opss, secss :
        /\ utils = [i \in 1 .. n |-> table[i].util]
        /\ opss = [i \in 1 .. n |-> table[i].ops]
        /\ secss = [i \in 1 .. n |-> table[i].secs]
  OBVIOUS
<1>0. DOMAIN table = 1 .. n /\ \A i \in 1 .. n : table[i].secs >= 0
  BY <1>1, <1>2
<1>5. /\ DOMAIN utils = 1 .. n /\ \A i \in 1 .. n : utils[i] \in Nat
      /\ DOMAIN opss = 1 .. n /\ \A i \in 1 .. n : opss[i] \in Nat
      /\ DOMAIN secss = 1 .. n /\ \A i \in 1 .. n : secss[i] \in Nat
      /\ \A i \in 1 .. n : utils[i] <= 100
  BY <1>0, <1>1, <1>2, <1>4, Columns
<1>6. PICK u, o, c : /\ u = FoldLeft(+, 0, utils) /\ o = FoldLeft(+, 0, opss)
                     /\ c = FoldLeft(+, 0, secss)
  OBVIOUS
<1>7. u \in Nat /\ u <= 100 * n
  BY <1>3, <1>5, <1>6, SumBounds
<1>8. o \in Nat /\ c \in Nat
  BY <1>3, <1>5, <1>6, SumBounds
<1>9. SumOf("util") = u /\ SumOf("ops") = o /\ SumOf("secs") = c
  <2>1. /\ [i \in DOMAIN stats |-> stats[i]["util"]] = utils
        /\ [i \in DOMAIN stats |-> stats[i]["ops"]] = opss
        /\ [i \in DOMAIN stats |-> stats[i]["secs"]] = secss
    BY <1>1, <1>2, <1>4, Columns
  <2>2. QED
    BY <1>6, <2>1, Zenon DEF SumOf
<1>10. PICK util : util = u \div n
  OBVIOUS
<1>11. util \in 0 .. 100
  BY <1>3, <1>7, <1>10, QuotientBounds
<1>13. PICK throughput : throughput = Throughput(o, c)
  OBVIOUS
<1>14. ASSUME c # 0 PROVE throughput \in Nat
  <2>1. PICK most : most = 1000 * o
    OBVIOUS
  <2>2. c > 0 /\ c # 0 /\ c \in Nat /\ most \in Nat
    BY <1>8, <1>14, <2>1
  <2>3. most <= most * c
    BY <2>2
  <2>4. throughput = most \div c
    BY <1>13, <2>1, <2>2 DEF Throughput
  <2>5. throughput \in 0 .. most
    BY <2>2, <2>3, <2>4, QuotientBounds
  <2>6. QED
    BY <2>2, <2>5
<1>15. LIBC \in Nat /\ LIBC # 0
  BY DriverAssumption
<1>16. PICK fast : fast = IF c = 0 \/ throughput > LIBC THEN 40
                          ELSE (40 * throughput) \div LIBC
  OBVIOUS
<1>17. fast \in 0 .. 40
  <2>1. CASE c = 0 \/ throughput > LIBC
    BY <1>16, <2>1
  <2>2. CASE c # 0 /\ ~(throughput > LIBC)
    <3>1. 40 * throughput \in Nat /\ 40 * throughput <= 40 * LIBC
      BY <1>14, <1>15, <2>2
    <3>2. QED
      BY <1>15, <1>16, <2>2, <3>1, QuotientBounds
  <2>3. QED
    BY <2>1, <2>2
<1>20. PerfIndex = (60 * util) \div 100 + fast
  BY <1>1, <1>9, <1>10, <1>13, <1>16 DEF PerfIndex
<1>22. QED
  BY <1>11, <1>17, <1>20, PointsBounds
-----------------------------------------------------------------------------
(* The table of results.                                                     *)

\* The counter does not go round in one pass.
ModestCycles == \A cycles \in Cycles : cycles < HALF * HALF

\* A trace that is not valid was reported.
TableSound ==
    /\ stats \in Seq(Stats)
    /\ phase = "speed" => stats # <<>>
    /\ errors = <<>> => \A i \in DOMAIN stats : stats[i].valid

\* fcyc has the best of its samples, and their least is the time of the trace.
SamplerSound ==
    /\ sampler \in Samplers
    /\ sampler.timer = "ftimer" => sampler.samples \in Seq(Nat)
    /\ phase = "valid" => sampler.timer = None
    /\ phase \in {"speed", "next trace"} /\ sampler.timer = "fcyc" =>
        Sampled(sampler.values, sampler.samples)
    /\ phase = "next trace" /\ sampler.timer = "fcyc" =>
        /\ Len(sampler.samples) # 0 /\ stats # <<>>
        /\ stats[Len(stats)].secs = sampler.values[1]

\* What main prints is about the whole table.
ScoreSound ==
    score # None =>
        /\ phase = "results"
        /\ (\A i \in DOMAIN stats : stats[i].secs >= 0) =>
                score.perfindex \in 0 .. 100
        /\ score.perfindex # 0 => score.numcorrect = Len(stats)

\* What the driver reads off the counter are the cycles that went by, less what
\* it takes off for the ticks.
LEMMA CyclesAreRight ==
    ASSUME ModestCycles, NEW start \in Starts, NEW cycles \in Cycles,
           NEW ticks \in 0 .. 1, NEW now, now = start + cycles
    PROVE  /\ get_comp_counter(start, now, ticks)
                    = cycles - ticks * cyc_per_tick
           /\ cycles - ticks * cyc_per_tick \in Int
<1>1. PICK cost : cost = cyc_per_tick
  OBVIOUS
<1>2. /\ start \in Nat /\ cycles \in Nat /\ cost \in Nat
      /\ cycles < HALF * HALF
  BY <1>1, DriverAssumption DEF ModestCycles
<1>3. get_counter(start, now) = cycles
  BY <1>2, CounterIsRight
<1>4. get_comp_counter(start, now, ticks) = cycles - ticks * cyc_per_tick
  BY <1>3, Zenon DEF get_comp_counter
<1>5. ticks * cost \in Int
  BY <1>2
<1>6. cycles - ticks * cost \in Int
  BY <1>2, <1>5
<1>7. QED
  BY <1>1, <1>4, <1>6

\* A row is added.
LEMMA RowAdded ==
    ASSUME NEW table \in Seq(Stats), NEW row \in Stats,
           NEW more, more = Append(table, row)
    PROVE  /\ more \in Seq(Stats) /\ more # <<>>
           /\ row.valid /\ (\A i \in DOMAIN table : table[i].valid) =>
                \A i \in DOMAIN more : more[i].valid
<1>1. PICK R, n : R = Stats /\ n = Len(table)
  OBVIOUS
<1>2. /\ more \in Seq(R) /\ n \in Nat /\ Len(more) = n + 1
      /\ DOMAIN table = 1 .. n /\ more[n + 1] = row
      /\ \A i \in 1 .. n : more[i] = table[i]
  BY <1>1, AppendProperties
<1>3. more # <<>>
  BY <1>2, EmptySeq
<1>4. ASSUME row.valid, \A i \in DOMAIN table : table[i].valid,
             NEW i \in DOMAIN more
      PROVE  more[i].valid
  <2>1. i \in 1 .. n + 1
    BY <1>2
  <2>2. CASE i = n + 1
    BY <1>2, <1>4, <2>2
  <2>3. CASE i # n + 1
    <3>1. i \in 1 .. n
      BY <1>2, <2>1, <2>3
    <3>2. QED
      BY <1>2, <1>4, <3>1
  <2>4. QED
    BY <2>2, <2>3
<1>5. QED
  BY <1>1, <1>2, <1>3, <1>4

\* The time is put in the last row.
LEMMA RowTimed ==
    ASSUME NEW table \in Seq(Stats), table # <<>>, NEW secs \in Int,
           NEW timed, timed = [table EXCEPT ![Len(table)].secs = secs]
    PROVE  /\ timed \in Seq(Stats) /\ timed # <<>> /\ Len(timed) = Len(table)
           /\ timed[Len(timed)].secs = secs
           /\ (\A i \in DOMAIN table : table[i].valid) =>
                \A i \in DOMAIN timed : timed[i].valid
<1>1. PICK R, n : R = Stats /\ n = Len(table)
  OBVIOUS
<1>2. table \in Seq(R) /\ n \in Nat /\ DOMAIN table = 1 .. n
  BY <1>1
<1>3. n \in 1 .. n
  BY <1>1, <1>2, EmptySeq
<1>4. PICK row : row = table[n]
  OBVIOUS
<1>5. row \in Stats
  BY <1>1, <1>2, <1>3, <1>4
<1>6. PICK late : late = [row EXCEPT !.secs = secs]
  OBVIOUS
<1>7. late \in Stats /\ late.secs = secs /\ late.valid = row.valid
  BY <1>5, <1>6 DEF Stats
<1>8. timed = [table EXCEPT ![n] = late]
  BY <1>1, <1>4, <1>6
<1>9. timed \in Seq(R) /\ Len(timed) = n /\ DOMAIN timed = 1 .. n
  BY <1>1, <1>2, <1>3, <1>7, <1>8
<1>10. timed[n] = late /\ \A i \in 1 .. n : i # n => timed[i] = table[i]
  BY <1>2, <1>3, <1>8
<1>11. timed # <<>>
  BY <1>3, <1>9, EmptySeq
<1>12. (\A i \in DOMAIN table : table[i].valid) =>
            \A i \in DOMAIN timed : timed[i].valid
  BY <1>2, <1>3, <1>4, <1>7, <1>9, <1>10
<1>13. QED
  BY <1>1, <1>7, <1>9, <1>10, <1>11, <1>12

Scored == TableSound /\ SamplerSound /\ ScoreSound

\* The driver starts with nothing.
LEMMA ScoredInit == DriverInit => Scored
<1> SUFFICES ASSUME DriverInit PROVE Scored
  OBVIOUS
<1>1. /\ phase = "next trace" /\ stats = <<>> /\ score = None
      /\ sampler = [samples |-> <<>>, values |-> <<>>, timer |-> None]
  BY DEF DriverInit, init_sampler
<1>2. <<>> \in Seq(Stats) /\ <<>> \in Seq(Int) /\ <<>> \in Seq(Nat)
  <2>1. PICK R : R = Stats
    OBVIOUS
  <2>2. <<>> \in Seq(R) /\ <<>> \in Seq(Int) /\ <<>> \in Seq(Nat)
    BY EmptySeq
  <2>3. QED
    BY <2>1, <2>2
<1>3. DOMAIN stats = {}
  BY <1>1, NothingYet
<1>4. TableSound
  BY <1>1, <1>2, <1>3 DEF TableSound
<1>5. sampler.timer # "fcyc"
  BY <1>1, DriverAssumption
<1>6. SamplerSound
  BY <1>1, <1>2, <1>5 DEF SamplerSound, Samplers
<1>7. QED
  BY <1>1, <1>4, <1>6 DEF Scored, ScoreSound

\* Where neither the table nor the sampler changes, and no time is told.
LEMMA ScoredStays ==
    ASSUME Scored, stats' = stats, errors' = errors, score' = score,
           sampler' = sampler, phase # "results",
           phase' \notin {"next trace", "results"},
           phase' = phase \/ phase' \notin {"valid", "speed"}
    PROVE  Scored'
<1>1. TableSound'
  BY DEF Scored, TableSound
<1>2. SamplerSound'
  BY DEF Scored, SamplerSound
<1>3. score = None
  BY DEF Scored, ScoreSound
<1>4. QED
  BY <1>1, <1>2, <1>3 DEF Scored, ScoreSound

\* A trace that is not valid gets a row, and the error is kept.
LEMMA ScoredError ==
    ASSUME Scored, DriverInvariant, phase = "valid", NEW error,
           malloc_error(error)
    PROVE  Scored'
<1>1. PICK row : row = Stat(Len(trace) + 1, FALSE, 0, 0)
  OBVIOUS
<1>2. /\ errors' = Append(errors, error) /\ stats' = Append(stats, row)
      /\ phase' = "next trace" /\ sampler' = sampler /\ score' = score
  BY <1>1 DEF malloc_error
<1>3. row \in Stats
  <2>1. Len(trace) \in Nat
    <3>1. PICK R : R = Requests
      OBVIOUS
    <3>2. trace \in Seq(R)
      BY <3>1 DEF DriverInvariant, DriverSound
    <3>3. QED
      BY <3>2
  <2>2. QED
    BY <1>1, <2>1 DEF Stat, Stats
<1>4. stats' \in Seq(Stats)
  BY <1>2, <1>3, RowAdded DEF Scored, TableSound
<1>5. errors' # <<>>
  <2>1. PICK D : D = {"failed", error}
    OBVIOUS
  <2>2. errors \in Seq(D) /\ error \in D
    <3>1. errors \in Seq({"failed"})
      BY DEF DriverInvariant, DriverSound
    <3>2. QED
      BY <2>1, <3>1
  <2>3. /\ Append(errors, error) \in Seq(D) /\ Len(errors) \in Nat
        /\ Len(Append(errors, error)) = Len(errors) + 1
    BY <2>2, AppendProperties
  <2>4. Append(errors, error) # <<>>
    BY <2>3, NothingYet
  <2>5. QED
    BY <1>2, <2>4
<1>6. TableSound'
  BY <1>2, <1>4, <1>5 DEF TableSound
<1>7. sampler.timer # "fcyc"
  BY DriverAssumption DEF Scored, SamplerSound
<1>8. SamplerSound'
  BY <1>2, <1>7 DEF Scored, SamplerSound
<1>9. score = None
  BY DEF Scored, ScoreSound
<1>10. QED
  BY <1>2, <1>6, <1>8, <1>9 DEF Scored, ScoreSound

\* A new trace, and a new sampler.
LEMMA ScoredNew ==
    ASSUME Scored, NextTrace PROVE Scored'
<1>1. /\ phase = "next trace" /\ phase' = "valid" /\ stats' = stats
      /\ errors' = errors /\ score' = score
      /\ sampler' = [samples |-> <<>>, values |-> <<>>, timer |-> None]
  BY DEF NextTrace, init_sampler
<1>2. <<>> \in Seq(Int) /\ <<>> \in Seq(Nat)
  BY EmptySeq
<1>3. TableSound'
  BY <1>1 DEF Scored, TableSound
<1>4. SamplerSound'
  BY <1>1, <1>2 DEF SamplerSound, Samplers
<1>5. score = None
  BY <1>1 DEF Scored, ScoreSound
<1>6. QED
  BY <1>1, <1>3, <1>4, <1>5 DEF Scored, ScoreSound

\* The use of space is a percentage.
LEMMA ScoredUtil ==
    ASSUME Scored, DriverInvariant, RoomSound, EndOfUtil PROVE Scored'
<1>1. PICK util : util = (100 * space.max) \div mem_heapsize(heap)
  OBVIOUS
<1>2. PICK row : row = Stat(Len(trace), TRUE, util, 0)
  OBVIOUS
<1>3. /\ phase = "util" /\ phase' = "speed" /\ stats' = Append(stats, row)
      /\ errors' = errors /\ score' = score
  BY <1>1, <1>2 DEF EndOfUtil
<1>4. PICK timer \in {"fcyc", "ftimer"} :
        sampler' = [samples |-> <<>>, values |-> <<>>, timer |-> timer]
  BY DEF EndOfUtil, init_sampler
<1>5. util \in 0 .. 100
  <2>1. PICK brk, max : brk = heap.brk /\ max = space.max
    OBVIOUS
  <2>2. PICK T, U : Sound(heap, T, U)
    BY DEF DriverInvariant, DriverSound, HeapInvariant, WellHeld
  <2>3. brk \in Nat /\ brk \in T /\ T \subseteq 8 .. brk
    BY <2>1, <2>2 DEF Sound, Tagged, Cuts
  <2>4. brk # 0
    BY <2>3
  <2>5. max \in Nat /\ max <= brk
    BY <1>3, <2>1 DEF RoomSound
  <2>6. 100 * max \in Nat /\ 100 * max <= 100 * brk
    BY <2>3, <2>5
  <2>7. util = (100 * max) \div brk
    BY <1>1, <2>1 DEF mem_heapsize
  <2>8. QED
    BY <2>3, <2>4, <2>6, <2>7, QuotientBounds
<1>6. row \in Stats
  <2>1. Len(trace) \in Nat
    <3>1. PICK R : R = Requests
      OBVIOUS
    <3>2. trace \in Seq(R)
      BY <3>1 DEF DriverInvariant, DriverSound
    <3>3. QED
      BY <3>2
  <2>2. QED
    BY <1>2, <1>5, <2>1 DEF Stat, Stats
<1>7. row.valid
  BY <1>2 DEF Stat
<1>8. TableSound'
  BY <1>3, <1>6, <1>7, RowAdded DEF Scored, TableSound
<1>9. <<>> \in Seq(Int) /\ <<>> \in Seq(Nat)
  BY EmptySeq
<1>10. SamplerSound'
  BY <1>3, <1>4, <1>9, SampledNone DEF SamplerSound, Samplers
<1>11. score = None
  BY <1>3 DEF Scored, ScoreSound
<1>12. QED
  BY <1>3, <1>8, <1>10, <1>11 DEF Scored, ScoreSound

\* The end of a measurement tells the time of the trace.
LEMMA MeasuredKeeps ==
    ASSUME Scored, phase = "speed", NEW s, NEW done, NEW secs \in Int,
           Measured(s, done, secs)
    PROVE  /\ TableSound' /\ ScoreSound' /\ sampler' = s
           /\ phase' = IF done THEN "next trace" ELSE "speed"
           /\ done => stats' # <<>> /\ stats'[Len(stats')].secs = secs
<1>1. /\ sampler' = s /\ errors' = errors /\ score' = score
      /\ phase' = IF done THEN "next trace" ELSE "speed"
  BY DEF Measured
<1>2. /\ stats \in Seq(Stats) /\ stats # <<>> /\ score = None
      /\ errors = <<>> => \A i \in DOMAIN stats : stats[i].valid
  BY DEF Scored, TableSound, ScoreSound
<1>3. CASE done
  <2>1. PICK table, timed : /\ table = stats
                            /\ timed = [table EXCEPT ![Len(table)].secs = secs]
    OBVIOUS
  <2>2. stats' = timed
    BY <1>3, <2>1 DEF Measured
  <2>3. /\ timed \in Seq(Stats) /\ timed # <<>>
        /\ timed[Len(timed)].secs = secs
        /\ (\A i \in DOMAIN table : table[i].valid) =>
                \A i \in DOMAIN timed : timed[i].valid
    BY <1>2, <2>1, RowTimed
  <2>4. TableSound'
    BY <1>1, <1>2, <1>3, <2>1, <2>2, <2>3 DEF TableSound
  <2>5. QED
    BY <1>1, <1>2, <2>2, <2>3, <2>4 DEF ScoreSound
<1>4. CASE ~done
  <2>1. stats' = stats
    BY <1>4 DEF Measured
  <2>2. TableSound'
    BY <1>1, <1>2, <2>1 DEF TableSound
  <2>3. QED
    BY <1>1, <1>2, <1>4, <2>2 DEF ScoreSound
<1>5. QED
  BY <1>3, <1>4

\* A sample of fcyc.
LEMMA ScoredSample ==
    ASSUME ModestCycles, Scored, fcyc PROVE Scored'
<1>1. PICK start \in Starts, cycles \in Cycles, ticks \in 0 .. 1 :
        \E now, taken, s, done :
            /\ now = start + cycles
            /\ taken = cycles - ticks * cyc_per_tick
            /\ s = add_sample(sampler, get_comp_counter(start, now, ticks),
                              taken)
            /\ Measured(s, done, s.values[1])
  BY DEF fcyc
<1>2. PICK taken \in Int :
        /\ taken = cycles - ticks * cyc_per_tick
        /\ \A now : now = start + cycles =>
                get_comp_counter(start, now, ticks) = taken
  BY CyclesAreRight
<1>3. PICK s, done : /\ s = add_sample(sampler, taken, taken)
                     /\ Measured(s, done, s.values[1])
  BY <1>1, <1>2
<1>4. phase = "speed" /\ sampler.timer = "fcyc"
  BY DEF fcyc
<1>5. sampler \in Samplers /\ Sampled(sampler.values, sampler.samples)
  BY <1>4 DEF Scored, SamplerSound
<1>6. PICK old : old = sampler
  OBVIOUS
<1>7. /\ s \in Samplers /\ Sampled(s.values, s.samples)
      /\ s.samples = Append(old.samples, taken) /\ s.timer = "fcyc"
  <2>1. s = add_sample(old, taken, taken)
    BY <1>3, <1>6
  <2>2. QED
    BY <1>4, <1>5, <1>6, <2>1, SampledMore
<1>8. s.samples \in Seq(Int) /\ Len(s.samples) # 0
  <2>1. PICK list, more : list = old.samples /\ more = s.samples
    OBVIOUS
  <2>2. list \in Seq(Int) /\ more = Append(list, taken)
    BY <1>5, <1>6, <1>7, <2>1 DEF Samplers
  <2>3. more \in Seq(Int) /\ Len(more) = Len(list) + 1 /\ Len(list) \in Nat
    BY <2>2, AppendProperties
  <2>4. QED
    BY <2>1, <2>3
<1>9. s.values[1] \in Int
  <2>1. PICK list, values : list = s.samples /\ values = s.values
    OBVIOUS
  <2>2. list \in Seq(Int) /\ Len(list) # 0 /\ Sampled(values, list)
    BY <1>7, <1>8, <2>1
  <2>3. values[1] \in ToSet(list)
    BY <2>2, SampledLeast
  <2>4. ToSet(list) \subseteq Int
    BY <2>2 DEF ToSet
  <2>5. QED
    BY <2>1, <2>3, <2>4
<1>10. PICK secs : secs = s.values[1]
  OBVIOUS
<1>11. /\ TableSound' /\ ScoreSound' /\ sampler' = s
       /\ phase' = IF done THEN "next trace" ELSE "speed"
       /\ done => stats' # <<>> /\ stats'[Len(stats')].secs = secs
  <2>1. secs \in Int /\ Measured(s, done, secs)
    BY <1>3, <1>9, <1>10
  <2>2. QED
    BY <1>4, <2>1, MeasuredKeeps
<1>12. SamplerSound'
  BY <1>7, <1>8, <1>10, <1>11 DEF SamplerSound
<1>13. QED
  BY <1>11, <1>12 DEF Scored

\* A pass of ftimer.
LEMMA ScoredAverage ==
    ASSUME Scored, ftimer PROVE Scored'
<1>1. PICK cycles, samples, s, done :
        /\ cycles \in Cycles /\ samples = Append(sampler.samples, cycles)
        /\ s = [sampler EXCEPT !.samples = samples]
        /\ Measured(s, done, FoldLeft(+, 0, samples) \div TimerRuns)
  BY Zenon DEF ftimer
<1>2. /\ phase = "speed" /\ sampler.timer = "ftimer"
      /\ sampler \in Samplers /\ sampler.samples \in Seq(Nat)
  BY DEF ftimer, Scored, SamplerSound
<1>3. cycles \in Nat
  <2>1. cycles \in Cycles
    BY <1>1, Zenon
  <2>2. QED
    BY <2>1, DriverAssumption
<1>4. samples \in Seq(Nat)
  <2>1. PICK list : list = sampler.samples
    OBVIOUS
  <2>2. list \in Seq(Nat) /\ samples = Append(list, cycles)
    BY <1>1, <1>2, <2>1, Zenon
  <2>3. QED
    BY <1>3, <2>2, AppendProperties
<1>5. PICK sum, secs : /\ sum = FoldLeft(+, 0, samples)
                       /\ secs = sum \div TimerRuns
  OBVIOUS
<1>6. sum \in Nat
  <2>1. PICK n : n = Len(samples)
    OBVIOUS
  <2>2. /\ n \in Nat /\ DOMAIN samples = 1 .. n
        /\ \A i \in 1 .. n : samples[i] \in Nat
    BY <1>4, <2>1
  <2>3. FoldLeft(+, 0, samples) \in Nat
    BY <2>2, SumBounds
  <2>4. QED
    BY <1>5, <2>3, Zenon
<1>7. secs \in Nat
  <2>1. TimerRuns \in Nat /\ TimerRuns # 0
    BY DriverAssumption
  <2>2. sum <= sum * TimerRuns
    BY <1>6, <2>1
  <2>3. PICK q : q = sum \div TimerRuns
    OBVIOUS
  <2>4. q \in 0 .. sum
    BY <1>6, <2>1, <2>2, <2>3, QuotientBounds
  <2>5. q \in Nat
    BY <1>6, <2>4
  <2>6. QED
    BY <1>5, <2>3, <2>5, Zenon
<1>8. Measured(s, done, secs)
  BY <1>1, <1>5, Zenon
<1>9. /\ TableSound' /\ ScoreSound' /\ sampler' = s
      /\ phase' = IF done THEN "next trace" ELSE "speed"
      /\ done => stats' # <<>> /\ stats'[Len(stats')].secs = secs
  <2>1. phase = "speed" /\ secs \in Int
    BY <1>2, <1>7
  <2>2. QED
    BY <1>8, <2>1, MeasuredKeeps
<1>10. /\ s \in Samplers /\ s.samples = samples /\ s.timer = "ftimer"
  <2>1. s = [sampler EXCEPT !.samples = samples]
    BY <1>1, Zenon
  <2>2. samples \in Seq(Int)
    BY <1>4
  <2>3. QED
    BY <1>2, <2>1, <2>2 DEF Samplers
<1>11. SamplerSound'
  BY <1>4, <1>9, <1>10 DEF SamplerSound
<1>12. QED
  BY <1>9, <1>11 DEF Scored

\* What main prints.
LEMMA ScoredResults ==
    ASSUME Scored, Results PROVE Scored'
<1>1. PICK valid : valid = {i \in DOMAIN stats : stats[i].valid}
  OBVIOUS
<1>2. /\ phase' = "results" /\ stats' = stats /\ errors' = errors
      /\ sampler' = sampler /\ stats # <<>>
      /\ score' = [numcorrect |-> Cardinality(valid),
                   perfindex |-> IF errors = <<>> THEN PerfIndex ELSE 0]
  BY <1>1 DEF Results
<1>3. TableSound'
  BY <1>2 DEF Scored, TableSound
<1>4. SamplerSound'
  BY <1>2 DEF Scored, SamplerSound
<1>5. PICK points : points = IF errors = <<>> THEN PerfIndex ELSE 0
  OBVIOUS
<1>6. ASSUME \A i \in DOMAIN stats : stats[i].secs >= 0
      PROVE  points \in 0 .. 100
  <2>1. PerfIndex \in 0 .. 100
    BY <1>2, <1>6, PerfIndexBounds DEF Scored, TableSound
  <2>2. 0 \in 0 .. 100
    OBVIOUS
  <2>3. QED
    BY <1>5, <2>1, <2>2
<1>7. ASSUME errors = <<>> PROVE Cardinality(valid) = Len(stats)
  <2>1. PICK table, n : table = stats /\ n = Len(table)
    OBVIOUS
  <2>2. n \in Nat /\ DOMAIN table = 1 .. n
    BY <2>1, Columns DEF Scored, TableSound
  <2>3. valid = 1 .. n
    BY <1>1, <1>7, <2>1, <2>2 DEF Scored, TableSound
  <2>4. Cardinality(1 .. n) = IF 1 > n THEN 0 ELSE n - 1 + 1
    BY <2>2, FS_Interval
  <2>5. QED
    BY <2>1, <2>2, <2>3, <2>4
<1>8. score'.perfindex = points /\ score'.numcorrect = Cardinality(valid)
  BY <1>2, <1>5
<1>9. points # 0 => Cardinality(valid) = Len(stats)
  BY <1>5, <1>7
<1>10. ScoreSound'
  BY <1>2, <1>6, <1>8, <1>9 DEF ScoreSound
<1>11. QED
  BY <1>3, <1>4, <1>10 DEF Scored

\* Every step of the driver keeps its books right.
LEMMA ScoredNext ==
    ASSUME ModestCycles, Scored, DriverInvariant, RoomSound,
           [DriverNext]_<<vars, driverVars>>
    PROVE  Scored'
<1>1. CASE UNCHANGED <<vars, driverVars>>
  BY <1>1 DEF driverVars, Scored, TableSound, SamplerSound, ScoreSound
<1>2. CASE NextTrace
  BY <1>2, ScoredNew
<1>3. CASE BogusTrace
  BY <1>3, ScoredStays DEF BogusTrace
<1>4. CASE eval_mm_valid
  <2>1. /\ phase = "valid"
        /\ \/ \E error : malloc_error(error)
           \/ \E request, list, fill : Accepted(request, list, fill)
    BY <1>4 DEF eval_mm_valid, ValidAlloc, ValidRealloc, ValidFree
  <2>2. CASE \E error : malloc_error(error)
    BY <2>1, <2>2, ScoredError
  <2>3. CASE \E request, list, fill : Accepted(request, list, fill)
    <3>1. UNCHANGED <<phase, errors, sampler, stats, score>>
      BY <2>3 DEF Accepted
    <3>2. QED
      BY <2>1, <3>1, ScoredStays
  <2>4. QED
    BY <2>1, <2>2, <2>3
<1>5. CASE MarkBlock
  BY <1>5, ScoredStays DEF MarkBlock
<1>6. CASE Valid
  BY <1>6, ScoredStays DEF Valid
<1>7. CASE PassStep
  <2>1. /\ phase \in {"util", "speed"}
        /\ phase' \in {phase, "application error"}
        /\ UNCHANGED <<errors, sampler, stats, score>>
    BY <1>7 DEF PassStep
  <2>2. QED
    BY <2>1, ScoredStays
<1>8. CASE EndOfUtil
  BY <1>8, ScoredUtil
<1>9. CASE fcyc
  BY <1>9, ScoredSample
<1>10. CASE ftimer
  BY <1>10, ScoredAverage
<1>11. CASE Results
  BY <1>11, ScoredResults
<1>12. QED
  BY <1>1, <1>2, <1>3, <1>4, <1>5, <1>6, <1>7, <1>8, <1>9, <1>10, <1>11
  DEF DriverNext

\* The books say what was asked.
LEMMA ScoredIsBest == Scored => BestIsScored
<1> SUFFICES ASSUME Scored PROVE BestIsScored
  OBVIOUS
<1>1. ASSUME phase \in {"speed", "next trace"}, sampler.timer = "fcyc"
      PROVE  /\ Best(sampler.values, sampler.samples)
             /\ phase = "next trace" =>
                    LET secs == stats[Len(stats)].secs
                    IN  /\ secs \in ToSet(sampler.samples)
                        /\ \A cyc \in ToSet(sampler.samples) : secs <= cyc
  <2>1. PICK values, samples :
            values = sampler.values /\ samples = sampler.samples
    OBVIOUS
  <2>2. Sampled(values, samples)
    BY <1>1, <2>1 DEF Scored, SamplerSound
  <2>3. Best(values, samples)
    BY <2>2, SampledBest
  <2>4. ASSUME phase = "next trace"
        PROVE  /\ stats[Len(stats)].secs \in ToSet(samples)
               /\ \A cyc \in ToSet(samples) : stats[Len(stats)].secs <= cyc
    <3>1. Len(samples) # 0 /\ stats[Len(stats)].secs = values[1]
      BY <1>1, <2>1, <2>4 DEF Scored, SamplerSound
    <3>2. /\ values[1] \in ToSet(samples)
          /\ \A cyc \in ToSet(samples) : values[1] <= cyc
      BY <2>2, <3>1, SampledLeast
    <3>3. QED
      BY <3>1, <3>2
  <2>5. QED
    BY <2>1, <2>3, <2>4
<1>2. ASSUME NEW i \in DOMAIN stats PROVE stats[i].util \in 0 .. 100
  <2>1. PICK R : R = Stats
    OBVIOUS
  <2>2. stats \in Seq(R)
    BY <2>1 DEF Scored, TableSound
  <2>3. PICK stat \in Stats : stat = stats[i]
    BY <2>1, <2>2
  <2>4. QED
    BY <2>3 DEF Stats
<1>3. QED
  BY <1>1, <1>2 DEF BestIsScored, Scored, ScoreSound

\* What fcyc decides by are the best of all passes, each taken for the cycles
\* that went by less the estimate for its ticks, and the least is the time of
\* the trace; no trace uses more space than the heap has; the index is a number
\* of points if no time is negative, and 0 after an error.
THEOREM DriverScoresRight ==
    ASSUME ModestSizes, ModestCycles PROVE DriverSpec => []BestIsScored
<1>1. DriverInit => DriverInvariant /\ RoomSound /\ Scored
  BY DriverInvariantInit, RoomSoundInit, ScoredInit
<1>2. /\ DriverInvariant /\ RoomSound /\ Scored
      /\ [DriverNext]_<<vars, driverVars>>
      => (DriverInvariant /\ RoomSound /\ Scored)'
  BY DriverInvariantNext, RoomSoundNext, ScoredNext
<1>3. DriverInvariant /\ RoomSound /\ Scored => BestIsScored
  BY ScoredIsBest
<1>4. QED
  BY <1>1, <1>2, <1>3, PTL DEF DriverSpec
=============================================================================
