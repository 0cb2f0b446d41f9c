----------------------------- MODULE Allocator -----------------------------
(***************************************************************************)
(* What a dynamic memory allocator promises to the program that uses it:   *)
(* blocks that lie in the heap, are aligned and do not overlap, and whose  *)
(* contents nobody but the program changes; a block that is resized keeps  *)
(* its contents as far as both sizes go.  Mm implements it.                *)
(***************************************************************************)
EXTENDS Integers, Sequences

CONSTANTS
    Ids,        \* what the program calls its blocks
    Sizes,      \* sizes it asks for, in bytes
    ALIGNMENT,  \* of a block, in bytes; also the size of a word
    MAX_HEAP,   \* bytes
    None        \* a block the program does not have

VARIABLE live   \* the blocks: address, size and the words written to them

AllocatorInit == live = [id \in Ids |-> None]

WordsOf(size) == (size + ALIGNMENT - 1) \div ALIGNMENT

Addresses == {ALIGNMENT * i : i \in 0 .. MAX_HEAP \div ALIGNMENT}

\* Where a block of some size may lie, beside those in use by others.
Places(size, id) ==
    LET others == {live[other] : other \in Ids \ {id}} \ {None}
    IN  {addr \in Addresses :
            /\ addr + size <= MAX_HEAP
            /\ \A other \in others :
                \/ addr + size <= other.addr
                \/ other.addr + other.size <= addr}

Allocate(id, size) ==
    /\ live[id] = None
    /\ \E addr \in Places(size, id) :
        live' = [live EXCEPT
                    ![id] = [addr |-> addr, size |-> size, data |-> <<>>]]

Release(id) ==
    /\ live[id] # None
    /\ live' = [live EXCEPT ![id] = None]

\* The words written to the block that a block of another size keeps.
Kept(block, size) ==
    [i \in {j \in DOMAIN block.data : j <= WordsOf(size)} |-> block.data[i]]

Resize(id, size) ==
    /\ live[id] # None
    /\ \E addr \in Places(size, id) :
        live' = [live EXCEPT ![id] = [addr |-> addr, size |-> size,
                                      data |-> Kept(live[id], size)]]

\* The program fills its block.
Write(id) ==
    /\ live[id] # None
    /\ live' = [live EXCEPT
                    ![id].data = [i \in 1 .. WordsOf(live[id].size) |-> id]]

\* The program starts again with an empty heap.
StartAgain == live' = [id \in Ids |-> None]

AllocatorNext ==
    \/ \E id \in Ids, size \in Sizes \ {0} :
        Allocate(id, size) \/ Resize(id, size)
    \/ \E id \in Ids : Release(id) \/ Write(id)
    \/ StartAgain

AllocatorSpec == AllocatorInit /\ [][AllocatorNext]_live
=============================================================================
