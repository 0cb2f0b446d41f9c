------------------------------ MODULE Y86Pipe ------------------------------
(* The five-stage pipelined processor: archlab/sim/pipe/psim.c under         *)
(* pipe-std.hcl.  The signals are state functions that keep their HCL names; *)
(* a capital first letter names a field of the pipeline register in front of *)
(* that stage, a small one a signal computed in the stage during this cycle. *)
(*                                                                           *)
(* One step is one cycle: the stages, the answer of sim_step_pipe to the     *)
(* loop of sim_run_pipe, and, when the loop goes on, what the next call      *)
(* begins with: update_state and update_pipes.                               *)
(*                                                                           *)
(* Beside the pipeline runs the machine that psim -t compares it with: isa   *)
(* takes one step of isa.c for every instruction that leaves write-back.     *)
EXTENDS Y86Isa

CONSTANTS
    InstrLimit,   \* the bound of a run: -l of psim, counted in cycles
    CodeEnd       \* bytes from CodeEnd on are data

ASSUME LimitAssumption == InstrLimit \in Nat /\ CodeEnd \in Nat

VARIABLES
    F,            \* predicted pc
    D, E, M, W,   \* the pipeline registers in front of the stages
    reg, mem, cc, \* what a program sees
    cc_in,        \* condition codes computed in the execute stage
    status, icount,
    isa,          \* the reference machine, one step per instruction retired
    selfmod,      \* has a store changed the code?
    starting_up,  \* has nothing reached write-back yet?
    idle          \* cycles since an instruction was in write-back

vars == <<F, D, E, M, W, reg, mem, cc, cc_in, status, icount, isa, selfmod,
          starting_up, idle>>

Hcl == INSTANCE Y86Control WITH Extra <- {}

BubbleD == [icode |-> INOP, ifun |-> 0, rA |-> RNONE, rB |-> RNONE,
            valC |-> 0, valP |-> 0, stat |-> "BUB", pc |-> 0]
BubbleE == [icode |-> INOP, ifun |-> 0, valC |-> 0, valA |-> 0, valB |-> 0,
            dstE |-> RNONE, dstM |-> RNONE, stat |-> "BUB", pc |-> 0]
BubbleM == [icode |-> INOP, Cnd |-> FALSE, valE |-> 0, valA |-> 0,
            dstE |-> RNONE, dstM |-> RNONE, stat |-> "BUB", pc |-> 0]
BubbleW == [icode |-> INOP, valE |-> 0, valM |-> 0,
            dstE |-> RNONE, dstM |-> RNONE, stat |-> "BUB", pc |-> 0]

-----------------------------------------------------------------------------
(* Fetch.  The test of the longest instruction reads the byte 5 further on,  *)
(* as it did for the 6-byte instructions of the 32-bit machine: here it is   *)
(* the last byte of the longest instruction but WordBytes - 4, and at least  *)
(* the first byte after the instruction code.                                *)
FetchProbe == 1 + (WordBytes \div 2)

f_pc ==
    IF M.icode = IJXX /\ ~M.Cnd THEN M.valA
    ELSE IF W.icode = IRET THEN W.valM
    ELSE F

imem_error == ~HasByte(mem, f_pc) \/ ~HasByte(mem, Plus(f_pc, FetchProbe))

FetchStage ==
    LET instr == IF imem_error THEN 16 * INOP ELSE GetByte(mem, f_pc)
        icode == HighNibble(instr)
        p1    == Plus(f_pc, 1)
        has   == Hcl!need_regids(icode) /\ HasByte(mem, p1)
        p2    == IF Hcl!need_regids(icode) THEN Plus(p1, 1) ELSE p1
    IN  [icode |-> icode, ifun |-> LowNibble(instr),
         rA |-> IF has THEN HighNibble(GetByte(mem, p1)) ELSE RNONE,
         rB |-> IF has THEN LowNibble(GetByte(mem, p1)) ELSE RNONE,
         valC |-> IF Hcl!need_valC(icode) THEN GetWord(mem, p2) ELSE 0,
         valP |-> IF Hcl!need_valC(icode) THEN Plus(p2, WordBytes) ELSE p2,
         stat |-> CASE imem_error -> "ADR"
                    [] ~Hcl!instr_valid(icode) -> "INS"
                    [] icode = IHALT -> "HLT"
                    [] OTHER -> "AOK",
         pc |-> f_pc]

f_predPC(f) == IF f.icode \in {IJXX, ICALL} THEN f.valC ELSE f.valP

-----------------------------------------------------------------------------
(* Memory.                                                                   *)
m_addr == Hcl!mem_addr(M.icode, M.valE, M.valA)
m_read == Hcl!mem_read(M.icode)
m_write == Hcl!mem_write(M.icode)
dmem_error == (m_read \/ m_write) /\ ~HasWord(mem, m_addr)
m_valM == IF m_read THEN GetWord(mem, m_addr) ELSE 0
m_stat == IF dmem_error THEN "ADR" ELSE M.stat

MemoryStage ==
    [icode |-> M.icode, valE |-> M.valE, valM |-> m_valM,
     dstE |-> M.dstE, dstM |-> M.dstM, stat |-> m_stat, pc |-> M.pc]

(* Execute.  Condition codes change only while no instruction further on has *)
(* faulted.                                                                  *)
e_Cnd == CondHolds(cc, E.ifun)
e_fun == Hcl!alufun(E.icode, E.ifun)
e_aluA == Hcl!aluA(E.icode, E.valA, E.valC)
e_aluB == Hcl!aluB(E.icode, E.valB)
e_valE == ComputeAlu(e_fun, e_aluA, e_aluB)
e_dstE == IF E.icode = IRRMOVQ /\ ~e_Cnd THEN RNONE ELSE E.dstE

\* A faulty variant: condition codes set under a fault in the memory stage.
SetCcDespiteMemoryFault == Hcl!sets_cc(E.icode) /\ W.stat \notin Faults

set_cc ==
    Hcl!sets_cc(E.icode) /\ m_stat \notin Faults /\ W.stat \notin Faults

ExecuteStage ==
    [icode |-> E.icode, Cnd |-> e_Cnd, valE |-> e_valE, valA |-> E.valA,
     dstE |-> e_dstE, dstM |-> E.dstM, stat |-> E.stat, pc |-> E.pc]

(* Decode.  A source takes the youngest value on its way to the register.    *)
d_srcA == Hcl!srcA(D.icode, D.rA)
d_srcB == Hcl!srcB(D.icode, D.rB)

Forwarded(src) ==
    IF src = e_dstE THEN e_valE
    ELSE IF src = M.dstM THEN m_valM
    ELSE IF src = M.dstE THEN M.valE
    ELSE IF src = W.dstM THEN W.valM
    ELSE IF src = W.dstE THEN W.valE
    ELSE GetReg(reg, src)

DecodeStage ==
    [icode |-> D.icode, ifun |-> D.ifun, valC |-> D.valC,
     valA |-> IF D.icode \in {ICALL, IJXX} THEN D.valP ELSE Forwarded(d_srcA),
     valB |-> Forwarded(d_srcB),
     dstE |-> Hcl!dstE(D.icode, D.rB), dstM |-> Hcl!dstM(D.icode, D.rA),
     stat |-> D.stat, pc |-> D.pc]

Stat == IF W.stat = "BUB" THEN "AOK" ELSE W.stat

-----------------------------------------------------------------------------
(* Pipeline control: which register keeps its contents and which is emptied. *)
LoadUse == E.icode \in {IMRMOVQ, IPOPQ} /\ E.dstM \in {d_srcA, d_srcB}
Mispredicted == E.icode = IJXX /\ ~e_Cnd

ReturnPassing == IRET \in {D.icode, E.icode, M.icode}

F_stall == LoadUse \/ ReturnPassing
D_stall == LoadUse

\* A faulty variant: a return behind a load empties the register it is in.
DBubbleDespiteLoadUse == Mispredicted \/ ReturnPassing
D_bubble == Mispredicted \/ (~LoadUse /\ ReturnPassing)
E_bubble == Mispredicted \/ LoadUse
M_bubble == m_stat \in Faults \/ W.stat \in Faults
W_stall == W.stat \in Faults

(* What a pipeline register does at the clock edge, and what it then holds:  *)
(* stall and bubble together leave a bubble with status PIP.                 *)
pipe_cntl(stall, bubble) ==
    IF stall THEN IF bubble THEN "P_ERROR" ELSE "P_STALL"
             ELSE IF bubble THEN "P_BUBBLE" ELSE "P_LOAD"

update_pipe(op, current, next, empty) ==
    CASE op = "P_ERROR" -> [empty EXCEPT !.stat = "PIP"]
      [] op = "P_STALL" -> current
      [] op = "P_BUBBLE" -> empty
      [] op = "P_LOAD" -> next

update_mem == (IF W.stat = "BUB" THEN 0 ELSE 1) < InstrLimit - (icount + 1)
update_cc ==
    (IF W.stat = "BUB" THEN 0 ELSE 1) + (IF m_stat = "BUB" THEN 0 ELSE 1)
      < InstrLimit - (icount + 1)

-----------------------------------------------------------------------------
RegisterFile == [Regs -> Word]
Memory == [0 .. (MemSize - 1) -> Byte]

\* Two memories with the same code.
SameCode(m, n) == \A a \in 0 .. (MemSize - 1) : a < CodeEnd => m[a] = n[a]

(* sim_reset, after load_mem has filled the memory.                          *)
Start(image) ==
    /\ F = 0
    /\ D = BubbleD /\ E = BubbleE /\ M = BubbleM /\ W = BubbleW
    /\ reg = ClearedRegisters
    /\ mem = image
    /\ cc = DEFAULT_CC /\ cc_in = DEFAULT_CC
    /\ status = "AOK" /\ icount = 0
    /\ isa = NewState(image)
    /\ selfmod = FALSE
    /\ starting_up = TRUE /\ idle = 0

Init == \E image \in Memory : Start(image)

(* The step of the reference machine.  pipe-std.hcl has no iaddq, so here    *)
(* the instruction is invalid as it was before isa.c got it.                 *)
IsaStep(s) ==
    IF HasByte(s.m, s.pc) /\ HighNibble(GetByte(s.m, s.pc)) = IIADDQ
      THEN Stopped(s, "INS") ELSE StepState(s)

Running == status = "AOK" /\ icount < InstrLimit

(* update_state and update_pipes; an instruction in write-back is retired.   *)
ClockEdge ==
    LET f == FetchStage
        m == MemoryStage
        e == ExecuteStage
        d == DecodeStage
        newcc == IF set_cc THEN ComputeCc(e_fun, e_aluA, e_aluB) ELSE cc_in
        stores == m_write /\ update_mem
    IN  /\ reg' = SetReg(SetReg(reg, W.dstE, W.valE), W.dstM, W.valM)
        /\ mem' = IF stores THEN SetWord(mem, m_addr, M.valA) ELSE mem
        /\ selfmod' = (selfmod \/ ~SameCode(mem, mem'))
        /\ cc_in' = newcc
        /\ cc' = IF update_cc THEN newcc ELSE cc
        /\ F' = IF F_stall THEN F ELSE f_predPC(f)
        /\ D' = update_pipe(pipe_cntl(D_stall, D_bubble), D, f, BubbleD)
        /\ E' = update_pipe(pipe_cntl(FALSE, E_bubble), E, d, BubbleE)
        /\ M' = update_pipe(pipe_cntl(FALSE, M_bubble), M, e, BubbleM)
        /\ W' = update_pipe(pipe_cntl(W_stall, FALSE), W, m, BubbleW)

sim_step_pipe ==
    /\ Running
    /\ icount' = icount + 1
    /\ status' = Stat
    /\ isa' = IF W.stat = "BUB" THEN isa ELSE IsaStep(isa)
    /\ starting_up' = (starting_up /\ W.stat = "BUB")
    /\ idle' = IF W.stat = "BUB" /\ ~starting_up THEN idle + 1 ELSE 0
    /\ IF Stat = "AOK" /\ icount + 1 < InstrLimit
         THEN ClockEdge
         ELSE UNCHANGED <<F, D, E, M, W, reg, mem, cc, cc_in, selfmod>>

(* The run is over; what is left is the report of run_tty_sim.               *)
Done == ~Running /\ UNCHANGED vars

Next == sim_step_pipe \/ Done

Spec == Init /\ [][Next]_vars
-----------------------------------------------------------------------------
(* Conflicting orders to a pipeline register: psim.c:1580-1592 answers them   *)
(* with status PIP, pipe-std.hcl says of every register that at most one of  *)
(* its two signals may be true.                                              *)
NoConflictingControl ==
    /\ ~(D_stall /\ D_bubble)
    /\ "PIP" \notin {D.stat, E.stat, M.stat, W.stat, status}

(* The instructions in write-back, memory and execute are the next three of  *)
(* the reference machine; registers, memory and condition codes are those    *)
(* the machine has after the instructions that have written them: registers  *)
(* change when an instruction leaves write-back, memory when it enters it,   *)
(* condition codes when it enters the memory stage.  So nothing fetched      *)
(* along a wrong path, and nothing behind a faulting instruction, leaves a   *)
(* trace.  One of any four cycles retires an instruction, once the first has *)
(* reached write-back: a return costs three bubbles, and the penalties of a  *)
(* return, a misprediction and a load/use hazard never add up to more.       *)
After(stage, s) ==
    IF stage.stat = "BUB" \/ s.st # "AOK" THEN s ELSE IsaStep(s)
Matches(stage, s) ==
    stage.stat = "BUB" \/ s.st # "AOK"
      \/ (stage.pc = s.pc /\ stage.stat \in {"AOK", IsaStep(s).st})

PipelineMatchesIsa ==
    /\ idle <= 3
    /\ (status = "AOK" /\ icount + 3 < InstrLimit /\ ~selfmod) =>
      LET s1 == After(W, isa)
          s2 == After(M, s1)
      IN  /\ Matches(W, isa) /\ Matches(M, s1)
          /\ W.stat # "BUB" => W.stat = s1.st
          /\ reg = isa.r
          /\ mem = s1.m
          /\ cc = s2.cc
-----------------------------------------------------------------------------
(* What is asked of a program.                                               *)
Machine ==
    [pc : Word, r : RegisterFile, m : Memory, cc : ConditionCodes, st : Status]

NeedsRa == {IRRMOVQ, IRMMOVQ, IMRMOVQ, IOPQ, IPUSHQ, IPOPQ}
NeedsRb == {IRRMOVQ, IIRMOVQ, IRMMOVQ, IMRMOVQ, IOPQ, IIADDQ}

Length(i) ==
    1 + (IF i.icode \in HasRegids THEN 1 ELSE 0)
      + (IF i.icode \in HasImmediate THEN WordBytes ELSE 0)

\* The instruction at pc lies in memory as a whole and names the registers it
\* works with.
Complete(s) ==
    LET i == Fetched(s) IN
    HasByte(s.m, s.pc) =>
        /\ i.ok1 /\ i.okc
        /\ i.icode \in NeedsRa => i.ra \in Regs
        /\ i.icode \in NeedsRb => i.rb \in Regs

\* It is part of the code, and so far from the end of memory that the probe of
\* the pipeline finds a byte.
Fetchable(s) ==
    HasByte(s.m, s.pc) =>
        /\ HasByte(s.m, Plus(s.pc, FetchProbe))
        /\ s.pc + Length(Fetched(s)) <= CodeEnd

\* A set of states that the program does not leave before it stops, with such
\* an instruction in each.
RunsIn(S) ==
    /\ S \subseteq Machine
    /\ \A s \in S : s.st = "AOK" =>
         Complete(s) /\ Fetchable(s) /\ IsaStep(s) \in S
=============================================================================
