----------------------------- MODULE MCCachelab -----------------------------
(* Two jobs: the simulator alone on every short trace, and the evaluation of *)
(* the transpositions with the cache of test-trans, whose s, E and b are 5,  *)
(* 1 and 5.                                                                  *)
EXTENDS TestTrans

CONSTANTS NoJob, SmallDims

Opt(name, value) == [name |-> name, value |-> value]
Options(s, E, b) ==
    <<Opt("s", s), Opt("E", E), Opt("b", b), Opt("t", 0)>>

(* Three caches, one of them from an option given twice and one from options *)
(* that are missing; one without lines; and what ends the program.           *)
MCCommandLines ==
    {Options(1, 1, 1), <<Opt("v", 0), Opt("E", 1)>> \o Options(1, 2, 1),
     Tail(Options(0, 3, 2)), Options(1, 0, 1),
     SubSeq(Options(1, 1, 1), 1, 3), Options(2, 1, 1) \o <<Opt("h", 0)>>,
     <<Opt("?", 0)>> \o Options(2, 1, 1)}

MCSizes == {<<32, 32>>, <<64, 64>>, <<61, 67>>, <<32, 64>>, <<0, 8>>,
            <<8, 257>>}
             \cup (SmallDims \X SmallDims)

TraceJob ==
    /\ CsimInit
    /\ size = NoJob /\ phase = NoJob /\ at = NoJob /\ B = NoJob
    /\ results = NoJob

TransJob ==
    /\ geometry = [s |-> 5, E |-> 1, b |-> 5]
    /\ dCache = initializeDCache(geometry) /\ lines = << >>
    /\ TransInit

MCInit == TraceJob \/ TransJob
MCNext == IF size = NoJob THEN CsimNext /\ UNCHANGED transVars ELSE TransNext
MCSpec == MCInit /\ [][MCNext]_<<csimVars, transVars>>

\* The simulator alone counts what CountsMatchTrace says (csim.c); in the other
\* job the lines are those of a transposition and are not kept.
TraceCounts == size = NoJob => CountsMatchTrace
=============================================================================
