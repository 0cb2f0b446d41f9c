------------------------------ MODULE TestTrans ------------------------------
(* The transpositions of cachelab/trans.c, run by tracegen.c, and their       *)
(* evaluation by test-trans.c: the accesses to the two matrices go to the     *)
(* cache simulator, and count when B is what correctTrans makes of A.  A      *)
(* step is one iteration of the loop over i.                                  *)
EXTENDS Csim

CONSTANTS
    Sizes         \* the options -M and -N, 0 when missing: <<M, N>>

ASSUME SizeAssumption == Sizes \subseteq Nat \X Nat

LOCAL INSTANCE SequencesExt

VARIABLES
    size,         \* <<M, N>>: A is N by M and B is M by N
    phase,        \* "tracegen", "timeout" or "done"
    at,           \* the loop variables [fourthI, fourthJ, sub, i]
    B,            \* where in A each element of B comes from, or Garbage
    results       \* of test-trans: [correct, misses]

transVars == <<size, phase, at, B, results>>

M == size[1]
N == size[2]
Garbage == -1
INT_MAX == 2147483647
MAXN == 256

(* The address of an element: A and B are static arrays of 256 by 256 ints.  *)
AddressOfA(i, j) == 4 * (i * M + j)
AddressOfB(i, j) == 4 * (MAXN * MAXN + (i * N + j))
Load(address) == [command |-> "L", address |-> address]
Store(address) == [command |-> "S", address |-> address]

(* transpose_submit *)
trans32 == M = 32 /\ N = 32
trans64 == M = 64 /\ N = 64
transX == ~trans32 /\ ~trans64

Least(x, y) == IF x < y THEN x ELSE y
Columns == IF trans32 THEN 8 ELSE 4
LastSub == IF trans32 THEN 0 ELSE 4
RowEnd == IF transX THEN Least(at.fourthI + 8, N) ELSE at.fourthI + 8
FirstColumn == at.fourthJ + at.sub
ColumnEnd == IF transX THEN Least(FirstColumn + Columns, M)
                       ELSE FirstColumn + Columns
Cells == SelectSeq([k \in 1 .. Columns |-> FirstColumn + (k - 1)],
                   LAMBDA k : k < ColumnEnd)

OneByOne(columns, i) ==
    FlattenSeq([c \in DOMAIN columns |->
                  <<Load(AddressOfA(i, columns[c])),
                    Store(AddressOfB(columns[c], i))>>])

(* trans32 and trans64 read a part of a row into locals before they store.   *)
AllLoadsFirst(columns, i) ==
    [c \in DOMAIN columns |-> Load(AddressOfA(i, columns[c]))]
      \o [c \in DOMAIN columns |-> Store(AddressOfB(columns[c], i))]

\* A faulty variant: every transposition stores an element once it is read.
AccessesOneByOne(columns, i) == OneByOne(columns, i)

Accesses(columns, i) ==
    IF transX THEN OneByOne(columns, i) ELSE AllLoadsFirst(columns, i)

Transposed(columns, i) ==
    FoldLeft(LAMBDA b, k : [b EXCEPT ![k][i] = M * i + k], B, columns)

-----------------------------------------------------------------------------
(* main refuses a missing size, and one that the arrays have no room for.     *)
AcceptedSizes == {s \in Sizes : {s[1], s[2]} \subseteq 1 .. MAXN}

TransInit ==
    /\ size \in AcceptedSizes
    /\ phase = "tracegen"
    /\ at = [fourthI |-> 0, fourthJ |-> 0, sub |-> 0, i |-> 0]
    /\ B = [j \in 0 .. M - 1 |-> [i \in 0 .. N - 1 |-> Garbage]]
    /\ results = [correct |-> 0, misses |-> INT_MAX]

Finished == at.fourthI >= N

Advanced ==
    IF at.i + 1 < RowEnd THEN [at EXCEPT !.i = @ + 1]
    ELSE IF at.sub < LastSub
      THEN [at EXCEPT !.sub = @ + 4, !.i = at.fourthI]
    ELSE IF at.fourthJ + 8 < M
      THEN [at EXCEPT !.fourthJ = @ + 8, !.sub = 0, !.i = at.fourthI]
    ELSE [fourthI |-> at.fourthI + 8, fourthJ |-> 0, sub |-> 0,
          i |-> at.fourthI + 8]

Simulated(c, accesses) ==
    FoldLeft(LAMBDA d, access :
               dCacheSimulate(geometry, d, access.command, access.address),
             c, accesses)

(* One iteration over i, traced by valgrind and simulated by csim.           *)
TransposeRow ==
    /\ phase = "tracegen" /\ ~Finished
    /\ B' = Transposed(Cells, at.i)
    /\ dCache' = Simulated(dCache, Accesses(Cells, at.i))
    /\ at' = Advanced
    /\ UNCHANGED <<size, phase, results, geometry, lines>>

correctTrans == [j \in 0 .. M - 1 |-> [i \in 0 .. N - 1 |-> M * i + j]]
Validated == B = correctTrans

Evaluate ==
    /\ phase = "tracegen" /\ Finished
    /\ phase' = "done"
    /\ results' = IF Validated
                    THEN [correct |-> 1, misses |-> dCache.misses]
                    ELSE results
    /\ UNCHANGED <<size, at, B, geometry, dCache, lines>>

(* sigalrm_handler: two minutes are over.                                    *)
TimeOut ==
    /\ phase = "tracegen"
    /\ phase' = "timeout"
    /\ results' = [correct |-> 0, misses |-> 0]
    /\ UNCHANGED <<size, at, B, geometry, dCache, lines>>

TransNext == TransposeRow \/ Evaluate \/ TimeOut

-----------------------------------------------------------------------------
(* driver.py computeMissScore, in tenths of a point.                         *)
MissScore(lower, upper, full) ==
    LET miss == results.misses
        tenths == (20 * full * (upper - miss)) \div (upper - lower)
    IN  CASE miss <= lower -> 10 * full
          [] miss >= upper -> 0
          [] OTHER -> (tenths + 1) \div 2

Score ==
    results.correct * (CASE trans32 -> MissScore(300, 600, 8)
                         [] trans64 -> MissScore(1300, 2000, 8)
                         [] OTHER -> MissScore(2000, 3000, 10))

RecordedScore ==
    CASE trans32 -> 80 [] trans64 -> 40 [] OTHER -> 94

\* Whatever the size, also one that is no multiple of the blocks, the result
\* is the transpose of A; and the three sizes of the driver score what
\* solution/final_results.jpg shows (trans.c, csim.c, test-trans.c).
SubmissionScores ==
    phase = "done" =>
      /\ results.correct = 1
      /\ size \in {<<32, 32>>, <<64, 64>>, <<61, 67>>} => Score = RecordedScore
=============================================================================
