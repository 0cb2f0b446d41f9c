-------------------------------- MODULE Csim --------------------------------
(* The cache simulator, cachelab/csim.c: a set is a list of tags, the head   *)
(* the least recently used one, and an address is cut into tag, set number   *)
(* and block offset.  The main loop reads the lines of a trace.              *)
EXTENDS Integers, Sequences

CONSTANTS
    CommandLines, \* sequences of options: [name, value]
    Commands,     \* the letters of the data accesses of a trace
    Addresses,    \* of the lines, below 2^31
    MaxLines      \* bound: lines of a trace

ASSUME AddressAssumption == Addresses \subseteq Nat

LOCAL INSTANCE FiniteSets
LOCAL INSTANCE SequencesExt

VARIABLES
    geometry,     \* dCacheSetBits, dCacheAssociativity, dCacheBlockBits
    dCache,       \* dCacheSets, hits, misses, evictions; has it crashed?
    lines         \* the lines read so far

csimVars == <<geometry, dCache, lines>>

Tags(set) == {set[k] : k \in DOMAIN set}

initializeDCache(g) ==
    [sets |-> [n \in 0 .. 2 ^ g.s - 1 |-> << >>],
     hits |-> 0, misses |-> 0, evictions |-> 0, crashed |-> FALSE]

setNumberOf(g, address) == (address \div (2 ^ g.b)) % (2 ^ g.s)
tagOf(g, address) == (address \div (2 ^ g.b)) \div (2 ^ g.s)

isFull(g, set) == Len(set) = g.E

load(g, set, tag) == Append(IF isFull(g, set) THEN Tail(set) ELSE set, tag)

\* A faulty variant: a line that hits keeps its place in the list.
TouchedStays(set, tag) == set

(* isCached moves the line that hits to the tail.                            *)
Touched(set, tag) == Append(SelectSeq(set, LAMBDA t : t # tag), tag)

(* A set for no line at all is full and has no head that evict could free.    *)
dCacheOperate(g, c, n, tag) ==
    LET set == c.sets[n] IN
    IF g.E = 0 THEN [c EXCEPT !.crashed = TRUE]
    ELSE IF tag \in Tags(set)
      THEN [c EXCEPT !.hits = @ + 1, !.sets[n] = Touched(set, tag)]
      ELSE [c EXCEPT !.misses = @ + 1,
                     !.evictions = IF isFull(g, set) THEN @ + 1 ELSE @,
                     !.sets[n] = load(g, set, tag)]

dCacheSimulate(g, c, command, address) ==
    LET n == setNumberOf(g, address)
        Operate(d) == dCacheOperate(g, d, n, tagOf(g, address))
    IN  CASE command \in {"S", "L"} -> Operate(c)
          [] command = "M" -> Operate(Operate(c))
          [] OTHER -> c

-----------------------------------------------------------------------------
(* The options are read in order, and the last of a kind counts.  Help, and   *)
(* what getopt or parseIntegerOption refuses ("?"), end the program.          *)
TakeOption(options, o) ==
    IF options.ended \/ o.name = "v" THEN options
    ELSE CASE o.name \in {"s", "E", "b"} ->
                [options EXCEPT ![o.name] = o.value]
           [] o.name = "t" -> [options EXCEPT !.trace = TRUE]
           [] OTHER -> [options EXCEPT !.ended = TRUE]

(* A number that is missing is 0: main says so and goes on.  Without a trace  *)
(* there is nothing to open.                                                  *)
Geometries ==
    LET none == [s |-> 0, E |-> 0, b |-> 0, trace |-> FALSE, ended |-> FALSE]
        read == {FoldLeft(TakeOption, none, line) : line \in CommandLines}
    IN  {[s |-> g.s, E |-> g.E, b |-> g.b] :
           g \in {h \in read : h.trace /\ ~h.ended}}

CsimInit ==
    /\ geometry \in Geometries
    /\ dCache = initializeDCache(geometry)
    /\ lines = << >>

(* A line whose first character is no space is an instruction fetch.         *)
ReadLine(command, address) ==
    /\ ~dCache.crashed /\ Len(lines) < MaxLines
    /\ lines' = Append(lines, [command |-> command, address |-> address])
    /\ dCache' = IF command = "I" THEN dCache
                 ELSE dCacheSimulate(geometry, dCache, command, address)
    /\ UNCHANGED geometry

CsimNext ==
    \/ ReadLine("I", 0)
    \/ \E command \in Commands, address \in Addresses :
         ReadLine(command, address)

-----------------------------------------------------------------------------
(* The blocks that the lines touch, one by one; M touches its block twice.   *)
Block(address) == address \div (2 ^ geometry.b)
Touches ==
    FlattenSeq([k \in DOMAIN lines |->
      LET block == Block(lines[k].address) IN
      CASE lines[k].command \in {"S", "L"} -> <<block>>
        [] lines[k].command = "M" -> <<block, block>>
        [] OTHER -> << >>])

(* Where a least recently used set of E lines hits: a touch of the same      *)
(* block comes before, and fewer than E other blocks of its set in between.  *)
SameSet(x, y) == x % (2 ^ geometry.s) = y % (2 ^ geometry.s)
HitAt(touches, k) ==
    \E j \in 1 .. k - 1 :
      /\ touches[j] = touches[k]
      /\ LET between == {touches[i] : i \in j + 1 .. k - 1} \ {touches[k]}
         IN  Cardinality({x \in between : SameSet(x, touches[k])})
               < geometry.E

\* The three counters are those of least recently used sets, told from the
\* order of the touches alone: a hit is a block with fewer than E others of
\* its set since its last touch, and every miss but the first E of a set
\* evicts (csim.c isCached, load, evict, parseAddress).  Without -E it crashes
\* at the first touch, which is where the missing option is noticed (main).
CountsMatchTrace ==
    LET touches == Touches
        hit == {k \in DOMAIN touches : HitAt(touches, k)}
        missed(n) == {k \in DOMAIN touches \ hit :
                        touches[k] % (2 ^ geometry.s) = n}
        Beyond(n) == IF n > geometry.E THEN n - geometry.E ELSE 0
        evicted == [n \in 1 .. 2 ^ geometry.s |->
                      Beyond(Cardinality(missed(n - 1)))]
    IN  IF geometry.E = 0 THEN dCache.crashed = (touches # << >>)
        ELSE
        /\ dCache.hits = Cardinality(hit)
        /\ dCache.misses = Len(touches) - Cardinality(hit)
        /\ dCache.evictions = FoldLeft(LAMBDA a, e : a + e, 0, evicted)
=============================================================================
