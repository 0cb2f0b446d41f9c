------------------------------ MODULE MCBtest ------------------------------
(* The harness, and beside it one word that takes every value, for the       *)
(* comparisons that the harness leaves to the ranges between its samples.    *)
EXTENDS Btest

CONSTANT OtherWords   \* second and third arguments of conditional

VARIABLE probe

NoOptions == [arg \in 0 .. 2 |-> NoArg]
MCGivenChoices == {NoOptions, [NoOptions EXCEPT ![1] = 2 ^ Top]}

MCInit == Init /\ probe \in Word
MCNext == probe = 0 /\ Next /\ UNCHANGED probe
MCSpec == MCInit /\ [][MCNext]_<<vars, probe>>

\* Every puzzle gives what its reference function gives, for every word it
\* can be given (bits.c, tests.c).
PuzzlesCorrect ==
    puzzle = 1 /\ at = <<1, 1, 1>> =>
      \A t \in {test_set[i] : i \in DOMAIN test_set} :
        CASE t.args <= 1 -> ~Differs(t, probe, 0, 0)
          [] t.args = 2 -> \A y \in Word : ~Differs(t, probe, y, 0)
          [] OTHER -> \A y, z \in OtherWords : ~Differs(t, probe, y, z)
=============================================================================
