------------------------------- MODULE Y86Tty -------------------------------
(* What the simulators do around the machines: the command line (sim_main of *)
(* psim.c and of ssim.c), the run and its check against the instruction set  *)
(* (run_tty_sim, -t), and yis.  The machine of psim is Y86Pipe, which runs   *)
(* cycle by cycle; ssim and yis run their program here as a whole.           *)
EXTENDS Y86Pipe, Y86Seq, Sequences, SequencesExt

CONSTANT DefaultLimit   \* instr_limit, and max_steps of yis

Option(flag, value) == [flag |-> flag, value |-> value]

Defaults ==
    [instr_limit |-> DefaultLimit, verbosity |-> 2, do_check |-> FALSE,
     gui_mode |-> FALSE, files |-> 0, exit |-> "none"]

\* One option; an option that exits is the last one.
getopt(options, option) ==
    IF options.exit # "none" THEN options
    ELSE CASE option.flag = "l" ->
                [options EXCEPT !.instr_limit = option.value]
           [] option.flag = "v" /\ option.value \in 0 .. 2 ->
                [options EXCEPT !.verbosity = option.value]
           [] option.flag = "t" -> [options EXCEPT !.do_check = TRUE]
           [] option.flag = "g" -> [options EXCEPT !.gui_mode = TRUE]
           [] option.flag = "file" -> [options EXCEPT !.files = @ + 1]
           [] OTHER -> [options EXCEPT !.exit = "usage"]

\* Built without HAS_GUI.
sim_main(argv) ==
    LET options == FoldLeft(getopt, Defaults, argv)
    IN  IF options.exit # "none" THEN options
        ELSE IF options.files > 1 THEN [options EXCEPT !.exit = "usage"]
        ELSE IF options.gui_mode THEN [options EXCEPT !.exit = "no GUI"]
        ELSE options
-----------------------------------------------------------------------------
diff_mem(oldm, newm) ==
    \E pos \in DOMAIN oldm :
        /\ pos % WordBytes = 0
        /\ GetWord(oldm, pos) # GetWord(newm, pos)

diff_reg(oldr, newr) == \E id \in Regs : oldr[id] # newr[id]

\* What the check at the end of a run says.
match(s, r, m, result_cc) ==
    ~diff_reg(s.r, r) /\ ~diff_mem(s.m, m) /\ s.cc = result_cc

\* The first n numbers, for the loops below.
Turns(n) == [i \in 1 .. n |-> i]

\* The loop of the check, and of yis.
step_loop(run, i) ==
    IF run.s.st # "AOK" THEN run ELSE [s |-> StepState(run.s), step |-> i]

yis(image, max_steps) ==
    FoldLeft(step_loop, [s |-> NewState(image), step |-> 0], Turns(max_steps))

\* A faulty variant: the last instruction is not counted.
sim_run_counts_late(run, i) ==
    IF run.s.st # "AOK" THEN run
    ELSE LET s == SeqCycle(run.s)
         IN  [seen |-> run.s, s |-> s,
              icount |-> IF s.st = "AOK" THEN i ELSE run.icount]

\* What a cycle computes is stored when the next one begins: seen is what is
\* there after the cycle.
sim_run_loop(run, i) ==
    IF run.s.st # "AOK" THEN run
    ELSE [seen |-> run.s, s |-> SeqCycle(run.s), icount |-> i]

sim_run(image, max_instr) ==
    LET start == NewState(image)
    IN  FoldLeft(sim_run_loop, [seen |-> start, s |-> start, icount |-> 0],
                 Turns(max_instr))

\* ssim -t, and psim -t at the end of its run.
ssim_match(image, run, instr_limit) ==
    match(yis(image, instr_limit).s, run.seen.r, run.seen.m, run.seen.cc)

psim_match(image, instr_limit) ==
    match(yis(image, instr_limit).s, reg, mem, cc)
-----------------------------------------------------------------------------
\* One cycle of the sequential processor does what one step of isa.c does: the
\* same status, and, unless that is a fault, the same state (ssim.c, isa.c).
SequentialMatchesIsa ==
    (icount > 0 /\ isa.st = "AOK" /\ ~selfmod) =>
      \A seq \in {SeqCycle(isa)}, ref \in {StepState(isa)} :
        seq.st = ref.st /\ (ref.st = "AOK" => seq = ref)
=============================================================================
