------------------------------- MODULE Mdriver -------------------------------
(***************************************************************************)
(* The driver of malloclab (mdriver.c): it runs every trace of requests    *)
(* against mm.c, once to check the blocks it gets (eval_mm_valid), once    *)
(* for the use of space (eval_mm_util), and as often as the K-best scheme  *)
(* of fcyc.c asks for to measure the time (eval_mm_speed).  Its requests   *)
(* are the steps of Mm's program; here they come from a trace, and the     *)
(* driver keeps ranges, errors and statistics beside them.                 *)
(*                                                                         *)
(* The lines of a trace are chosen as the first pass comes to them.        *)
(* Cycles are counted in two halves of HALF values each, as rdtsc does.    *)
(* Percentages are integers.                                               *)
(***************************************************************************)
EXTENDS Mm, SequencesExt

CONSTANTS
    Lines,      \* most lines of all traces together
    Traces,     \* most traces
    HALF,       \* 2^32 in the program
    Starts,     \* values of the cycle counter when a measurement starts
    Cycles,     \* cycles that can go by in a pass, interrupts and all
    cyc_per_tick,   \* what callibrate estimates a timer interrupt to take
    K, MAXSAMPLES, EPSILON,     \* of the K-best scheme; EPSILON in percent
    TimerRuns,  \* passes of which ftimer.c takes the average
    LIBC        \* operations per thousand cycles of libc's malloc

ASSUME DriverAssumption ==
    /\ {Lines, Traces, HALF, cyc_per_tick, K, EPSILON, TimerRuns, LIBC}
            \subseteq Nat
    /\ 0 \notin {HALF, K, TimerRuns, LIBC}
    /\ MAXSAMPLES \in Nat /\ MAXSAMPLES >= K
    /\ Cycles \subseteq Nat /\ Starts \subseteq Nat
    /\ None \notin Ids /\ None \notin {"fcyc", "ftimer"}

VARIABLES
    phase,      \* what main is about to do
    trace,      \* requests of the trace: type, index, size
    pos,        \* how many of them the pass has done
    filling,    \* the block that memset is to fill, or None
    ranges,     \* extents of the allocated payloads, the newest first
    errors,     \* what malloc_error was told, one per failed trace
    space,      \* total_size and max_total_size
    sampler,    \* cycles of the passes so far, and the K best of them
    stats,      \* mm_stats
    score       \* what main prints in the end

driverVars ==
    <<phase, trace, pos, filling, ranges, errors, space, sampler, stats, score>>

NoTrace == <<>>
-----------------------------------------------------------------------------
\* The range list

mem_heap_lo == 0
mem_heap_hi(h) == h.brk - 1
mem_heapsize(h) == h.brk

\* A payload from lo to hi touches one the list has, if either of its ends
\* lies in it.
Overlaps(list, lo, hi) ==
    \E i \in DOMAIN list :
        \/ lo >= list[i].lo /\ lo <= list[i].hi
        \/ hi >= list[i].lo /\ hi <= list[i].hi

\* What add_range has against a payload, or None.
RangeError(h, list, lo, size) ==
    LET hi == lo + size - 1 IN
    IF lo % ALIGNMENT # 0 THEN "not aligned"
    ELSE IF {lo, hi} \subseteq mem_heap_lo .. mem_heap_hi(h)
    THEN IF Overlaps(list, lo, hi) THEN "overlaps" ELSE None
    ELSE "outside heap"

add_range(list, lo, size) == <<[lo |-> lo, hi |-> lo + size - 1]>> \o list

\* A faulty variant: it takes the newest range for that of the block.
remove_range_first(list, lo) == IF list = <<>> THEN list ELSE Tail(list)

\* Only the first range of the list that begins there goes.
remove_range(list, lo) ==
    LET found == {i \in DOMAIN list : list[i].lo = lo}
    IN  IF found = {} THEN list
        ELSE RemoveAt(list, CHOOSE i \in found : \A j \in found : i <= j)
-----------------------------------------------------------------------------
\* The K-best scheme

\* A faulty variant: no borrow from the upper half.
get_counter_no_borrow(start, now) ==
    (((now \div HALF) - (start \div HALF)) % HALF) * HALF
        + (((now % HALF) - (start % HALF)) % HALF)

\* Cycles from start to now: each half is an unsigned number, and the lower
\* one borrows when the difference is more than what it was taken from.
get_counter(start, now) ==
    LET lo == ((now % HALF) - (start % HALF)) % HALF
        borrow == IF lo > now % HALF THEN 1 ELSE 0
        hi == ((now \div HALF) - (start \div HALF) - borrow) % HALF
    IN  hi * HALF + lo

\* The clock ticks that times has counted are taken off, each at the estimate:
\* less than nothing can be left.
get_comp_counter(start, now, ticks) ==
    get_counter(start, now) - ticks * cyc_per_tick

init_sampler == [samples |-> <<>>, values |-> <<>>, timer |-> None]

\* The value bubbles from the end to its place among the K best.
Inserted(values, val) ==
    [i \in 1 .. Len(values) + 1 |->
        IF i <= Len(values) /\ values[i] <= val THEN values[i]
        ELSE IF i = 1 \/ values[i - 1] <= val THEN val
        ELSE values[i - 1]]

add_sample(s, val, cyc) ==
    [s EXCEPT
        !.samples = Append(s.samples, cyc),
        !.values = IF Len(s.samples) < K THEN Inserted(s.values, val)
                   ELSE IF val < s.values[K] THEN Inserted(Front(s.values), val)
                   ELSE s.values]

has_converged(s) ==
    /\ Len(s.samples) >= K
    /\ (100 + EPSILON) * s.values[1] >= 100 * s.values[K]
-----------------------------------------------------------------------------
\* main, from one trace to the next

Requests ==
    [type : {"ALLOC", "REALLOC"}, index : Ids, size : Sizes \ {0}]
        \cup [type : {"FREE"}, index : Ids, size : {0}]

Stat(ops, valid, util, secs) ==
    [ops |-> ops, valid |-> valid, util |-> util, secs |-> secs]

\* mem_reset_brk and mm_init at the start of each pass.
BeginPass ==
    /\ Reset
    /\ pos' = 0

DriverInit ==
    /\ Init
    /\ phase = "next trace" /\ trace = NoTrace /\ pos = 0 /\ filling = None
    /\ ranges = <<>> /\ errors = <<>> /\ stats = <<>>
    /\ space = [total |-> 0, max |-> 0] /\ sampler = init_sampler
    /\ score = None

LinesLeft ==
    Lines - Len(trace)
        - FoldLeft(LAMBDA n, stat : n + stat.ops, 0, stats)

\* The next trace is read, and eval_mm_valid begins.
NextTrace ==
    /\ phase = "next trace" /\ Len(stats) < Traces /\ LinesLeft > 0
    /\ BeginPass
    /\ phase' = "valid" /\ ranges' = <<>> /\ trace' = NoTrace
    /\ space' = [total |-> 0, max |-> 0] /\ sampler' = init_sampler
    /\ UNCHANGED <<filling, errors, stats, score>>

\* read_trace ends the program when there is no such file, on a line of another
\* type, and when the header does not agree with the lines.
BogusTrace ==
    /\ phase = "next trace" /\ Len(stats) < Traces
    /\ phase' = "bogus trace"
    /\ UNCHANGED <<vars, trace, pos, filling, ranges, errors, space, sampler,
                   stats, score>>

\* Each index stands for one block, and they are numbered in order; a trace
\* frees and resizes what it has allocated.
Consistent(request) ==
    IF request.type = "ALLOC"
    THEN LET used == {trace[i].index : i \in DOMAIN trace}
         IN  /\ request.index \notin used
             /\ \A id \in Ids \ used : request.index <= id
    ELSE blocks[request.index] # None
-----------------------------------------------------------------------------
\* eval_mm_valid

\* The request is wrongly answered: the trace is not valid.
malloc_error(error) ==
    /\ errors' = Append(errors, error)
    /\ stats' = Append(stats, Stat(Len(trace) + 1, FALSE, 0, 0))
    /\ phase' = "next trace" /\ trace' = NoTrace
    /\ UNCHANGED <<pos, filling, space, sampler, score>>

Accepted(request, list, fill) ==
    /\ ranges' = list /\ filling' = fill
    /\ trace' = Append(trace, request)
    /\ UNCHANGED <<phase, pos, errors, space, sampler, stats, score>>

ValidAlloc(request) ==
    LET id == request.index IN
    /\ blocks[id] = None
    /\ \E got \in {mm_malloc(heap, request.size)} :
        LET error == RangeError(got.heap, ranges, got.bp, request.size) IN
        /\ Given(id, request.size, got)
        /\ IF got.bp = NULL THEN malloc_error("failed") /\ UNCHANGED ranges
           ELSE IF error # None THEN malloc_error(error) /\ UNCHANGED ranges
           ELSE Accepted(request, add_range(ranges, got.bp, request.size), id)

\* The block that was resized has kept what the shorter of the two held.
Preserved(h, bp, id, len) ==
    \A i \in 0 .. Words(len) - 1 : GET(h, bp + 8 * i) = id

ValidRealloc(request) ==
    LET id == request.index
        old == blocks[id]
        size == request.size
        left == remove_range(ranges, old.bp)
        oldsize == IF size < old.size THEN size ELSE old.size
    IN  \E got \in {mm_realloc(heap, old.bp, size)} :
        LET error == RangeError(got.heap, left, got.bp, size) IN
        /\ Resized(id, old, size, got)
        /\ IF got.bp = NULL THEN malloc_error("failed") /\ UNCHANGED ranges
           ELSE IF error # None THEN malloc_error(error) /\ ranges' = left
           ELSE IF ~Preserved(got.heap, got.bp, id, oldsize)
           THEN /\ malloc_error("not preserved")
                /\ ranges' = add_range(left, got.bp, size)
           ELSE Accepted(request, add_range(left, got.bp, size),
                         IF size > old.size THEN id ELSE None)

ValidFree(request) ==
    /\ Free(request.index)
    /\ Accepted(request, remove_range(ranges, blocks[request.index].bp), None)

\* memset marks a new block, and what a resized one has gained.
MarkBlock ==
    /\ phase = "valid" /\ filling # None
    /\ IF blocks[filling].filled < Words(blocks[filling].size)
       THEN Fill(filling) ELSE UNCHANGED vars
    /\ filling' = None
    /\ UNCHANGED <<phase, trace, pos, ranges, errors, space, sampler, stats,
                   score>>

eval_mm_valid ==
    /\ phase = "valid" /\ filling = None /\ LinesLeft > 0
    /\ \E request \in Requests :
        /\ Consistent(request)
        /\ \/ request.type = "ALLOC" /\ ValidAlloc(request)
           \/ request.type = "REALLOC" /\ ValidRealloc(request)
           \/ request.type = "FREE" /\ ValidFree(request)

\* The whole trace was answered well, and eval_mm_util begins.
Valid ==
    /\ phase = "valid" /\ filling = None /\ trace # NoTrace
    /\ BeginPass
    /\ phase' = "util"
    /\ UNCHANGED <<trace, filling, ranges, errors, space, sampler, stats,
                   score>>
-----------------------------------------------------------------------------
\* eval_mm_util and eval_mm_speed

\* The next request of the trace, by Mm's program.
Request(request) ==
    \/ request.type = "ALLOC" /\ Malloc(request.index, request.size)
    \/ request.type = "REALLOC" /\ Realloc(request.index, request.size)
    \/ request.type = "FREE" /\ Free(request.index)

Refused(request) ==
    \/ request.type = "ALLOC" /\ mm_malloc(heap, request.size).bp = NULL
    \/ request.type = "REALLOC"
        /\ mm_realloc(heap, blocks[request.index].bp, request.size).bp = NULL

\* By how much the payload of all blocks grows.
Change(request) ==
    request.size
        - (IF request.type = "ALLOC" THEN 0 ELSE blocks[request.index].size)

PassStep ==
    LET request == trace[pos + 1]
        total == space.total + Change(request)
    IN  /\ phase \in {"util", "speed"} /\ pos < Len(trace)
        /\ Request(request)
        /\ pos' = pos + 1
        /\ phase' = IF Refused(request) THEN "application error" ELSE phase
        /\ space' = IF phase = "speed" THEN space
                    ELSE [total |-> total, max |-> Larger(space.max, total)]
        /\ UNCHANGED <<trace, filling, ranges, errors, sampler, stats, score>>

\* The space used is set against the heap, and fsecs measures the time with
\* one of two timers; which one is settled when the driver is built.
EndOfUtil ==
    /\ phase = "util" /\ pos = Len(trace)
    /\ BeginPass
    /\ phase' = "speed"
    /\ \E timer \in {"fcyc", "ftimer"} :
        sampler' = [init_sampler EXCEPT !.timer = timer]
    /\ LET util == (100 * space.max) \div mem_heapsize(heap)
       IN  stats' = Append(stats, Stat(Len(trace), TRUE, util, 0))
    /\ UNCHANGED <<trace, filling, ranges, errors, space, score>>

\* Another pass, or the end of the measurement.
Measured(s, done, secs) ==
    /\ sampler' = s
    /\ phase' = IF done THEN "next trace" ELSE "speed"
    /\ IF done
       THEN /\ stats' = [stats EXCEPT ![Len(stats)].secs = secs]
            /\ trace' = NoTrace
            /\ UNCHANGED <<vars, pos>>
       ELSE BeginPass /\ UNCHANGED <<stats, trace>>
    /\ UNCHANGED <<filling, ranges, errors, space, score>>

\* A sample is taken: the loop of fcyc goes on until the K best agree.  Whether
\* a tick is counted and what went by in the pass have no tie here: the clock
\* of times is coarse and the cost of a tick no more than an estimate.
fcyc ==
    /\ phase = "speed" /\ pos = Len(trace) /\ sampler.timer = "fcyc"
    /\ \E start \in Starts, cycles \in Cycles, ticks \in 0 .. 1 :
        LET now == start + cycles
            s == add_sample(sampler, get_comp_counter(start, now, ticks),
                            cycles - ticks * cyc_per_tick)
        IN  Measured(s, has_converged(s) \/ Len(s.samples) = MAXSAMPLES,
                     s.values[1])

\* The average of a fixed number of passes.
ftimer ==
    /\ phase = "speed" /\ pos = Len(trace) /\ sampler.timer = "ftimer"
    /\ \E cycles \in Cycles :
        LET samples == Append(sampler.samples, cycles)
        IN  Measured([sampler EXCEPT !.samples = samples],
                     Len(samples) = TimerRuns,
                     FoldLeft(+, 0, samples) \div TimerRuns)
-----------------------------------------------------------------------------
\* The performance index

SumOf(field) == FoldLeft(+, 0, [i \in DOMAIN stats |-> stats[i][field]])

\* Operations per thousand cycles; secs is not 0.
Throughput(ops, secs) ==
    IF secs > 0 THEN (1000 * ops) \div secs ELSE -((1000 * ops) \div (-secs))

\* Of 100: 60 for the use of space, 40 for the speed up to that of libc, which
\* an infinite one passes.
PerfIndex ==
    LET util == SumOf("util") \div Len(stats)
        ops == SumOf("ops")
        secs == SumOf("secs")
        fast == secs = 0 \/ Throughput(ops, secs) > LIBC
    IN  (60 * util) \div 100
            + (IF fast THEN 40 ELSE (40 * Throughput(ops, secs)) \div LIBC)

Results ==
    /\ phase = "next trace" /\ stats # <<>>
    /\ phase' = "results"
    /\ score' = [numcorrect |-> Cardinality({i \in DOMAIN stats :
                                                stats[i].valid}),
                 perfindex |-> IF errors = <<>> THEN PerfIndex ELSE 0]
    /\ UNCHANGED <<vars, trace, pos, filling, ranges, errors, space, sampler,
                   stats>>

DriverNext ==
    \/ NextTrace \/ BogusTrace
    \/ eval_mm_valid \/ MarkBlock \/ Valid
    \/ PassStep \/ EndOfUtil \/ fcyc \/ ftimer
    \/ Results

DriverSpec == DriverInit /\ [][DriverNext]_<<vars, driverVars>>
-----------------------------------------------------------------------------
\* Properties

Extent(block) == [lo |-> block.bp, hi |-> block.bp + block.size - 1]

\* The driver's verdict on this allocator is right: no error is reported but a
\* heap that is too small, the passes after the first one never meet an error
\* of their own, and the range list is exact, so nothing is missed either
\* (add_range, remove_range, clear_ranges in all passes).
VerdictsAreRight ==
    /\ phase # "application error"
    /\ ToSet(errors) \subseteq {"failed"}
    /\ phase = "valid" =>
        LET held == {id \in Ids : blocks[id] # None} IN
        /\ ToSet(ranges) = {Extent(blocks[id]) : id \in held}
        /\ Len(ranges) = Cardinality(held)

\* In order, the best of the samples: each is one of them, all of them are
\* taken while there are fewer than K, and those left out are not better.
Best(values, samples) ==
    /\ Len(values) = IF Len(samples) < K THEN Len(samples) ELSE K
    /\ \A i, j \in DOMAIN values : i < j => values[i] <= values[j]
    /\ \E at \in Injection(DOMAIN values, DOMAIN samples) :
        /\ \A i \in DOMAIN values : values[i] = samples[at[i]]
        /\ \A i \in DOMAIN values : \A j \in DOMAIN samples \ Range(at) :
            values[i] <= samples[j]

\* The values fcyc decides by are the best of all passes, in order, and the
\* time of a trace is the best one.  A pass is taken for the cycles that went by
\* in it, whatever the counter wraps around to, less the estimate for each tick
\* that times counted; how near that is to the cycles of the pass alone depends
\* on the estimate, and is not said here (add_sample, get_comp_counter).
\* No trace uses more space than there is, and a driver that has seen an error
\* gives no points.  The index is a number of points out of 100, unless a trace
\* is left with a negative time (eval_mm_util, main).
BestIsScored ==
    /\ phase \in {"speed", "next trace"} /\ sampler.timer = "fcyc" =>
        /\ Best(sampler.values, sampler.samples)
        /\ phase = "next trace" =>
            LET secs == stats[Len(stats)].secs
            IN  /\ secs \in ToSet(sampler.samples)
                /\ \A cyc \in ToSet(sampler.samples) : secs <= cyc
    /\ \A i \in DOMAIN stats : stats[i].util \in 0 .. 100
    /\ score # None =>
        /\ (\A i \in DOMAIN stats : stats[i].secs >= 0) =>
                score.perfindex \in 0 .. 100
        /\ score.perfindex # 0 => score.numcorrect = Len(stats)
=============================================================================
