-------------------------------- MODULE MCMm --------------------------------
(* Two jobs: a program that calls the allocator in any order, and the driver *)
(* with every short trace.                                                   *)
EXTENDS Mdriver

ProgramJob ==
    /\ Init
    /\ phase = "program" /\ trace = NoTrace /\ pos = 0 /\ filling = None
    /\ ranges = <<>> /\ errors = <<>> /\ stats = <<>> /\ score = None
    /\ space = [total |-> 0, max |-> 0] /\ sampler = init_sampler

\* The driver has ended.
Exited ==
    /\ phase \in {"bogus trace", "application error", "results"}
    /\ UNCHANGED <<vars, driverVars>>

MCInit == ProgramJob \/ DriverInit
MCNext ==
    \/ phase = "program" /\ Next /\ UNCHANGED driverVars
    \/ phase # "program" /\ DriverNext
    \/ Exited
MCSpec == MCInit /\ [][MCNext]_<<vars, driverVars>>

\* The words something is still to be read from: tags, the links of the free
\* list, and what the program has written to its blocks.
Meaningful ==
    LET all == BlocksOf(heap)
        free == {bp \in all : IsFree(heap, bp)}
    IN  {0, HDRP(heap_listp), HDRP(heap.brk)}
            \cup {HDRP(bp) : bp \in all}
            \cup UNION {{PREV_FREEP(bp), NEXT_FREEP(bp), FTRP(heap, bp)} :
                            bp \in free}
            \cup UNION {{blocks[id].bp + 8 * (i - 1) :
                            i \in 1 .. blocks[id].filled} :
                            id \in {j \in Ids : blocks[j] # None}}

\* States that differ in other words only are one state to TLC.
MCView ==
    <<[p \in Units |-> IF p \in Meaningful THEN heap.mem[p] ELSE Unset],
      heap.brk, heap.free_list_head, blocks, driverVars>>
=============================================================================
