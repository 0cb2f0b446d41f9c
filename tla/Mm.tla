--------------------------------- MODULE Mm ---------------------------------
(***************************************************************************)
(* The memory allocator of malloclab (mm.c, on the simulated heap of       *)
(* memlib.c): blocks with boundary tags, an explicit list of the free      *)
(* ones, first fit, splitting and immediate coalescing.  The program that  *)
(* uses it does what the driver's eval_mm_valid does with a trace.         *)
(*                                                                         *)
(* Addresses are byte offsets from the start of the heap, and memory is    *)
(* kept by the eight-byte unit (SIZE_T_SIZE and PTR_SIZE are both 8).      *)
(* A unit holds an integer, as in the program: a tag, a pointer or data.   *)
(* Lengths are C integers of WORD values.                                  *)
(*                                                                         *)
(* The functions of mm.c are operators from a heap, a record [mem, brk,    *)
(* free_list_head], to a heap, or to a heap and the pointer they return.   *)
(***************************************************************************)
EXTENDS Integers, Sequences, FiniteSets

CONSTANTS
    Ids,        \* indices of a trace's blocks; what the program writes to them
    Sizes,      \* sizes it asks for
    WORD,       \* number of values of a size_t, and of an int: 2^32 in C
    CHUNKSIZE,  \* least number of bytes by which the heap grows
    MAX_HEAP,   \* most bytes it can have
    None        \* a block the program does not have

ASSUME WordAssumption == WORD \in Nat /\ WORD >= 256 /\ WORD % 2 = 0
ASSUME ChunkAssumption == CHUNKSIZE \in Nat /\ CHUNKSIZE % 8 = 0
ASSUME HeapAssumption ==
    /\ MAX_HEAP \in 24 .. WORD \div 2 - 1
    /\ CHUNKSIZE <= MAX_HEAP
ASSUME SizesAssumption == Sizes \subseteq 0 .. WORD - 1
ASSUME NoneAssumption ==
    /\ None \notin [bp : Nat, size : Nat, filled : Nat]
    /\ None \notin [addr : Nat, size : Nat, data : Seq(Int)]
ASSUME IdsAssumption == Ids \subseteq 0 .. WORD - 1

VARIABLES
    heap,   \* the memory, its end and the head of the free list
    blocks  \* those the program holds: pointer, size, words it has written

vars == <<heap, blocks>>

ALIGNMENT == 8
SIZE_T_SIZE == 8
PTR_SIZE == 8
NULL == 0       \* offset 0 holds the first tag, no block begins there
heap_listp == SIZE_T_SIZE   \* as mm_init leaves it

MinBlock == (2 * SIZE_T_SIZE) + (2 * PTR_SIZE)
Units == {8 * i : i \in 0 .. (MAX_HEAP - 1) \div 8}

Larger(x, y) == IF x >= y THEN x ELSE y

\* Conversion to size_t, and to int.
SizeT(x) == x % WORD
Int32(x) == IF SizeT(x) >= WORD \div 2 THEN SizeT(x) - WORD ELSE SizeT(x)

ALIGN(size) == SizeT(size + 7) - (SizeT(size + 7) % 8)
-----------------------------------------------------------------------------
\* Tags

GET(h, p) == h.mem[p]
PUT(h, p, val) == [h EXCEPT !.mem[p] = val]

GET_SIZE(h, p) == GET(h, p) - (GET(h, p) % 8)
GET_ALLOC(h, p) == GET(h, p) % 2
GET_PREV_ALLOC(h, p) == (GET(h, p) \div 2) % 2
UNSET_PREV_ALLOC(h, p) == PUT(h, p, GET(h, p) - (2 * GET_PREV_ALLOC(h, p)))
SET_PREV_ALLOC(h, p) == PUT(h, p, GET(h, p) + 2 * (1 - GET_PREV_ALLOC(h, p)))

PACK_HDR(size, prev_alloc, alloc) == size + 2 * prev_alloc + alloc
PACK_FTR(size) == size

HDRP(bp) == bp - SIZE_T_SIZE
FTRP(h, bp) == bp + GET_SIZE(h, HDRP(bp)) - (2 * SIZE_T_SIZE)
NEXT_BLKP(h, bp) == bp + GET_SIZE(h, HDRP(bp))
PREV_BLKP(h, bp) == bp - GET_SIZE(h, bp - (2 * SIZE_T_SIZE))

PREV_FREEP(bp) == bp
NEXT_FREEP(bp) == bp + PTR_SIZE

\* The nodes of the free list from its head on, as many as can be in the heap.
FreeList(h) ==
    LET most == MAX_HEAP \div MinBlock
        node[i \in 1 .. most] ==
            IF i = 1 THEN h.free_list_head
            ELSE LET bp == node[i - 1]
                 IN  IF bp = NULL THEN NULL ELSE GET(h, NEXT_FREEP(bp))
    IN  [i \in {j \in 1 .. most : node[j] # NULL} |-> node[i]]
-----------------------------------------------------------------------------
\* The free list

add_to_free_list(h, bp) ==
    LET first  == h.free_list_head
        linked == PUT(PUT(h, PREV_FREEP(bp), NULL), NEXT_FREEP(bp), first)
        back   == IF first # NULL THEN PUT(linked, PREV_FREEP(first), bp)
                                  ELSE linked
    IN  [back EXCEPT !.free_list_head = bp]

remove_from_free_list(h, bp) ==
    LET prev  == GET(h, PREV_FREEP(bp))
        next  == GET(h, NEXT_FREEP(bp))
        ahead == IF prev # NULL THEN PUT(h, NEXT_FREEP(prev), next)
                                ELSE [h EXCEPT !.free_list_head = next]
    IN  IF next # NULL THEN PUT(ahead, PREV_FREEP(next), prev) ELSE ahead

find_fit(h, asize) ==
    LET list == FreeList(h)
        fits == {i \in DOMAIN list : asize <= GET_SIZE(h, HDRP(list[i]))}
    IN  IF fits = {} THEN NULL
        ELSE list[CHOOSE i \in fits : \A j \in fits : i <= j]
-----------------------------------------------------------------------------
\* Merging and splitting

\* A block and its free neighbours become one free block at address at.
Merge(h, at, len) ==
    LET hdr == PUT(h, HDRP(at), PACK_HDR(len, 1, 0))
    IN  PUT(hdr, FTRP(hdr, at), PACK_FTR(len))

coalesce(h, bp) ==
    LET prev_alloc == GET_PREV_ALLOC(h, HDRP(bp)) = 1
        next_alloc == GET_ALLOC(h, HDRP(NEXT_BLKP(h, bp))) = 1
        prev == PREV_BLKP(h, bp)
        next == NEXT_BLKP(h, bp)
        prev_size == IF prev_alloc THEN 0 ELSE GET_SIZE(h, HDRP(prev))
        next_size == IF next_alloc THEN 0 ELSE GET_SIZE(h, HDRP(next))
        unlinked == IF prev_alloc THEN h ELSE remove_from_free_list(h, prev)
        alone == IF next_alloc THEN unlinked
                 ELSE remove_from_free_list(unlinked, next)
        at == IF prev_alloc THEN bp ELSE prev
        merged == IF prev_alloc /\ next_alloc THEN h
                  ELSE Merge(alone, at, GET_SIZE(h, HDRP(bp))
                                            + prev_size + next_size)
    IN  [heap |-> add_to_free_list(merged, at), bp |-> at]

\* A free block is cut in two, and the rest of it is free.
SplitOff(h, bp, asize) ==
    LET rest == GET_SIZE(h, HDRP(bp)) - asize
        g == remove_from_free_list(
                PUT(h, HDRP(bp), PACK_HDR(asize, 1, 1)), bp)
        next == NEXT_BLKP(g, bp)
        hdr == PUT(g, HDRP(next), PACK_HDR(rest, 1, 0))
    IN  add_to_free_list(PUT(hdr, FTRP(hdr, next), PACK_FTR(rest)), next)

\* A free block is used as a whole.
UseWhole(h, bp) ==
    LET csize == GET_SIZE(h, HDRP(bp))
        g == PUT(h, HDRP(bp), PACK_HDR(csize, 1, 1))
    IN  remove_from_free_list(
            SET_PREV_ALLOC(g, HDRP(NEXT_BLKP(g, bp))), bp)

\* A faulty variant: a remainder too short to be a block is split off.
place_splits_too_much(h, bp, asize) ==
    IF GET_SIZE(h, HDRP(bp)) >= SizeT(asize + (2 * SIZE_T_SIZE))
    THEN SplitOff(h, bp, asize) ELSE UseWhole(h, bp)

place(h, bp, asize) ==
    IF GET_SIZE(h, HDRP(bp)) >= SizeT(asize + MinBlock)
    THEN SplitOff(h, bp, asize) ELSE UseWhole(h, bp)
-----------------------------------------------------------------------------
\* Growing

\* mem_sbrk gives the old end of the heap, or NULL (in C, -1) when it cannot.
mem_sbrk(h, incr) ==
    IF incr < 0 \/ h.brk + incr > MAX_HEAP
    THEN [heap |-> h, bp |-> NULL]
    ELSE [heap |-> [h EXCEPT !.brk = h.brk + incr], bp |-> h.brk]

extend_heap(h, size) ==
    LET asize == ALIGN(size)
        got == mem_sbrk(h, Int32(asize))
        bp  == got.bp
        hdr == PUT(got.heap, HDRP(bp),
                   PACK_HDR(asize, GET_PREV_ALLOC(h, HDRP(bp)), 0))
        ftr == PUT(hdr, FTRP(hdr, bp), PACK_FTR(asize))
    IN  IF bp = NULL THEN got
        ELSE coalesce(PUT(ftr, HDRP(NEXT_BLKP(ftr, bp)), PACK_HDR(0, 0, 1)), bp)
-----------------------------------------------------------------------------
\* The functions a program calls

Unset == -1     \* memory that was never written

\* An empty heap, as mem_init and mem_reset_brk leave it.
EmptyHeap(mem, head) == [mem |-> mem, brk |-> 0, free_list_head |-> head]

mm_init(h) ==
    LET g == mem_sbrk(h, 3 * SIZE_T_SIZE).heap
        prologue == PUT(g, 0, PACK_HDR(2 * SIZE_T_SIZE, 1, 1))
        epilogue == PUT(prologue, HDRP(NEXT_BLKP(prologue, heap_listp)),
                        PACK_HDR(0, 1, 1))
    IN  [epilogue EXCEPT !.free_list_head = NULL]

\* A faulty variant: the size of the header is not asked for.
AdjustedSize_no_header(size) == Larger(ALIGN(size), MinBlock)

AdjustedSize(size) == Larger(ALIGN(SizeT(size + SIZE_T_SIZE)), MinBlock)

\* A free block of the heap, or a new one at its end, or no block.
fitting_block(h, found, asize) ==
    IF found # NULL THEN [heap |-> h, bp |-> found]
    ELSE extend_heap(h, SizeT(Larger(asize, CHUNKSIZE)))

in_block(got, asize) ==
    IF got.bp = NULL THEN got
    ELSE [heap |-> place(got.heap, got.bp, asize), bp |-> got.bp]

mm_malloc(h, size) ==
    LET asize == Int32(AdjustedSize(size))
        found == find_fit(h, SizeT(asize))
    IN  IF size = 0 THEN [heap |-> h, bp |-> NULL]
        ELSE in_block(fitting_block(h, found, asize), SizeT(asize))

mm_free(h, bp) ==
    LET size == GET_SIZE(h, HDRP(bp))
        hdr == PUT(h, HDRP(bp),
                   PACK_HDR(size, GET_PREV_ALLOC(h, HDRP(bp)), 0))
        ftr == PUT(hdr, FTRP(hdr, bp), PACK_FTR(size))
    IN  coalesce(UNSET_PREV_ALLOC(ftr, HDRP(NEXT_BLKP(ftr, bp))), bp).heap

memcpy(h, to, from, len) ==
    [h EXCEPT !.mem =
        [p \in DOMAIN h.mem |->
            IF p \in to .. to + len - 1 THEN h.mem[from + (p - to)]
                                        ELSE h.mem[p]]]

\* A faulty variant: the old block is freed before it is copied.
moved_frees_first(new, bp, len) ==
    IF new.bp = NULL THEN new
    ELSE [heap |-> memcpy(mm_free(new.heap, bp), new.bp, bp, len),
          bp |-> new.bp]

\* The new block gets the old one's contents, and the old one is freed.
moved(new, bp, len) ==
    IF new.bp = NULL THEN new
    ELSE [heap |-> mm_free(memcpy(new.heap, new.bp, bp, len), bp),
          bp |-> new.bp]

mm_realloc(h, bp, size) ==
    LET csize == GET_SIZE(h, HDRP(bp))
    IN  IF bp = NULL THEN mm_malloc(h, size)
        ELSE IF size = 0 THEN [heap |-> mm_free(h, bp), bp |-> NULL]
        ELSE IF AdjustedSize(size) <= csize THEN [heap |-> h, bp |-> bp]
        ELSE moved(mm_malloc(h, SizeT(size * 2)), bp, csize - SIZE_T_SIZE)
-----------------------------------------------------------------------------
\* The checks of a debug build

IsFree(h, bp) == GET_ALLOC(h, HDRP(bp)) = 0

\* The blocks of the heap in order of address; the last has size zero.
Tiling(h) ==
    LET at[i \in 0 .. (MAX_HEAP \div MinBlock) + 1] ==
            IF i = 0 THEN heap_listp
            ELSE LET bp == at[i - 1]
                 IN  IF bp < h.brk THEN NEXT_BLKP(h, bp) ELSE bp
    IN  {at[i] : i \in DOMAIN at}

check_block(h, bp) ==
    /\ bp % 8 = 0
    /\ IsFree(h, bp) =>
        /\ GET_SIZE(h, HDRP(bp)) = GET_SIZE(h, FTRP(h, bp))
        /\ LET links == {GET(h, PREV_FREEP(bp)), GET(h, NEXT_FREEP(bp))}
           IN  \A link \in links \ {NULL} : IsFree(h, link)

mm_check_heap(h) ==
    /\ GET_SIZE(h, HDRP(heap_listp)) = 2 * SIZE_T_SIZE
    /\ ~IsFree(h, heap_listp)
    /\ \A bp \in Tiling(h) \ {h.brk} : check_block(h, bp)
    /\ GET_SIZE(h, HDRP(h.brk)) = 0
    /\ ~IsFree(h, h.brk)

\* How often a block is in the free list, all of whose nodes must be free.
Listed(h, bp, times) ==
    LET list == FreeList(h) IN
    /\ \A i \in DOMAIN list : IsFree(h, list[i])
    /\ Cardinality({i \in DOMAIN list : list[i] = bp}) = times

check_free(h, freed) == Listed(h, freed, 1)
check_placed(h, placed) == Listed(h, placed, 0)
-----------------------------------------------------------------------------
\* The program

Words(size) == (size + ALIGNMENT - 1) \div ALIGNMENT

Init ==
    /\ heap = mm_init(EmptyHeap([p \in Units |-> Unset], NULL))
    /\ blocks = [id \in Ids |-> None]

Block(bp, size, filled) == [bp |-> bp, size |-> size, filled |-> filled]

Given(id, size, got) ==
    /\ heap' = got.heap
    /\ blocks' = IF got.bp = NULL THEN blocks
                 ELSE [blocks EXCEPT ![id] = Block(got.bp, size, 0)]

Malloc(id, size) == blocks[id] = None /\ Given(id, size, mm_malloc(heap, size))

Free(id) ==
    /\ blocks[id] # None
    /\ heap' = mm_free(heap, blocks[id].bp)
    /\ blocks' = [blocks EXCEPT ![id] = None]

\* The program keeps its block when a larger one is refused.
Resized(id, old, size, got) ==
    LET kept == IF Words(size) < old.filled THEN Words(size) ELSE old.filled
    IN  /\ heap' = got.heap
        /\ blocks' = IF size = 0 THEN [blocks EXCEPT ![id] = None]
                     ELSE IF got.bp = NULL THEN blocks
                     ELSE [blocks EXCEPT ![id] = Block(got.bp, size, kept)]

Realloc(id, size) ==
    LET old == IF blocks[id] = None THEN Block(NULL, 0, 0) ELSE blocks[id]
    IN  Resized(id, old, size, mm_realloc(heap, old.bp, size))

\* The program writes the mark of the block to the whole of it.
Fill(id) ==
    LET block == blocks[id] IN
    /\ block # None
    /\ block.filled < Words(block.size)
    /\ heap' = [heap EXCEPT !.mem =
                    [p \in Units |->
                        IF p \in block.bp .. block.bp + block.size - 1
                        THEN id ELSE heap.mem[p]]]
    /\ blocks' = [blocks EXCEPT ![id].filled = Words(block.size)]

\* mem_reset_brk and mm_init: the next trace begins.
Reset ==
    /\ heap' = mm_init(EmptyHeap(heap.mem, heap.free_list_head))
    /\ blocks' = [id \in Ids |-> None]

Next ==
    \/ \E id \in Ids, size \in Sizes : Malloc(id, size) \/ Realloc(id, size)
    \/ \E id \in Ids : Free(id) \/ Fill(id)
    \/ Reset

Spec == Init /\ [][Next]_vars
-----------------------------------------------------------------------------
\* Properties

BlocksOf(h) == Tiling(h) \ {heap_listp, h.brk}

\* The heap and what the program holds have the expected form.
TypeOK ==
    /\ heap.mem \in [Units -> -1 .. WORD - 1]
    /\ heap.brk \in 0 .. MAX_HEAP
    /\ heap.free_list_head \in {NULL} \cup {p \in Units : p < heap.brk}
    /\ \A id \in Ids : blocks[id] # None =>
        blocks[id] \in [bp : Units, size : Sizes, filled : Nat]

\* The blocks cover the heap from its prologue to its epilogue without a gap
\* and stand what mm_check_heap asks of each; none is too short for the two
\* pointers and two tags of a free one.  Every header tells the truth about
\* the block before it, the only warrant for reading a footer there, and no
\* two neighbours are both free: freeing merged them (coalesce).  The free
\* list holds every free block once and nothing else, and can be walked
\* backwards too: a block misplaced in it would be handed out twice or never
\* again (check_free, check_placed).
HeapConsistent ==
    /\ TypeOK
    /\ heap.brk \in Tiling(heap)
    /\ mm_check_heap(heap)
    /\ \A bp \in BlocksOf(heap) :
        LET next == NEXT_BLKP(heap, bp) IN
        /\ bp < heap.brk
        /\ GET_SIZE(heap, HDRP(bp)) >= MinBlock
        /\ GET_PREV_ALLOC(heap, HDRP(next)) = GET_ALLOC(heap, HDRP(bp))
        /\ IsFree(heap, bp) => ~IsFree(heap, next)
        /\ IF IsFree(heap, bp) THEN check_free(heap, bp)
                               ELSE check_placed(heap, bp)
    /\ LET list == FreeList(heap) IN
        \A i \in DOMAIN list :
            GET(heap, PREV_FREEP(list[i])) = IF i = 1 THEN NULL ELSE list[i - 1]

\* The blocks in use are those the program holds, each large enough for what it
\* asked: after any sequence of calls nothing has leaked and nothing is shared.
HeldExactly ==
    /\ {bp \in BlocksOf(heap) : ~IsFree(heap, bp)} =
            {blocks[id].bp : id \in {i \in Ids : blocks[i] # None}}
    /\ \A id \in Ids : blocks[id] # None =>
        /\ blocks[id].size + SIZE_T_SIZE <= GET_SIZE(heap, HDRP(blocks[id].bp))
        /\ \A other \in Ids \ {id} :
            blocks[other] # None => blocks[other].bp # blocks[id].bp

\* What the program sees of its blocks.
live ==
    [id \in Ids |->
        IF blocks[id] = None THEN None
        ELSE [addr |-> blocks[id].bp,
              size |-> blocks[id].size,
              data |-> [i \in 1 .. blocks[id].filled |->
                            GET(heap, blocks[id].bp + 8 * (i - 1))]]]

Abstract == INSTANCE Allocator

\* Whatever the calls, the program's blocks lie in the heap, are aligned and
\* disjoint, keep their contents, and take them along when they move
\* (eval_mm_valid's checks of every trace).
RefinesAllocator == Abstract!AllocatorSpec
=============================================================================
