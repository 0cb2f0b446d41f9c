------------------------------- MODULE Y86Seq -------------------------------
(* The sequential processor: one call of sim_step of archlab/sim/seq/ssim.c  *)
(* under seq-full.hcl, and the update of the state that the next call begins *)
(* with.  A faulting instruction has no effect: sim_run stops at its status  *)
(* and the update never happens.                                             *)
EXTENDS Y86Isa

Full == INSTANCE Y86Control WITH Extra <- {IIADDQ}

(* The fetch: a field that lies outside memory reads as no register or 0,    *)
(* and the STAT_ADR which sim_step notes for it is overwritten by gen_Stat.  *)
SeqFetch(s) ==
    LET error == ~HasByte(s.m, s.pc)
        instr == IF error THEN 16 * INOP ELSE GetByte(s.m, s.pc)
        icode == HighNibble(instr)
        p1    == Plus(s.pc, 1)
        has   == Full!need_regids(icode) /\ HasByte(s.m, p1)
        p2    == IF Full!need_regids(icode) THEN Plus(p1, 1) ELSE p1
    IN  [error |-> error, icode |-> icode, ifun |-> LowNibble(instr),
         ra |-> IF has THEN HighNibble(GetByte(s.m, p1)) ELSE RNONE,
         rb |-> IF has THEN LowNibble(GetByte(s.m, p1)) ELSE RNONE,
         valc |-> IF Full!need_valC(icode) THEN GetWord(s.m, p2) ELSE 0,
         valp |-> IF Full!need_valC(icode) THEN Plus(p2, WordBytes) ELSE p2]

\* A faulty variant: the two results written back in the other order.
WritebackMThenE(r, destM, valM, destE, valE) ==
    SetReg(SetReg(r, destM, valM), destE, valE)

(* Write-back: the result of the ALU first, then the value from memory, so   *)
(* that popq %rsp leaves the value popped.                                   *)
Writeback(r, destM, valM, destE, valE) ==
    SetReg(SetReg(r, destE, valE), destM, valM)

SeqStat(f, dmem_error) ==
    CASE f.error \/ dmem_error -> "ADR"
      [] ~Full!instr_valid(f.icode) -> "INS"
      [] f.icode = IHALT -> "HLT"
      [] OTHER -> "AOK"

new_pc(f, cnd, valM) ==
    CASE f.icode = ICALL -> f.valc
      [] f.icode = IJXX /\ cnd -> f.valc
      [] f.icode = IRET -> valM
      [] OTHER -> f.valp

Cycled(s, f) ==
    LET vala == GetReg(s.r, Full!srcA(f.icode, f.ra))
        valb == GetReg(s.r, Full!srcB(f.icode, f.rb))
        cnd  == CondHolds(s.cc, f.ifun)
        a    == Full!aluA(f.icode, vala, f.valc)
        b    == Full!aluB(f.icode, valb)
        fun  == Full!alufun(f.icode, f.ifun)
        vale == ComputeAlu(fun, a, b)
        destE == IF f.icode = IRRMOVQ /\ ~cnd THEN RNONE
                                              ELSE Full!dstE(f.icode, f.rb)
        addr  == Full!mem_addr(f.icode, vale, vala)
        data  == IF f.icode = ICALL THEN f.valp ELSE vala
        valm  == IF Full!mem_read(f.icode) THEN GetWord(s.m, addr) ELSE 0
        touch == Full!mem_read(f.icode) \/ Full!mem_write(f.icode)
        stat  == SeqStat(f, touch /\ ~HasWord(s.m, addr))
    IN  IF stat # "AOK"
          THEN Stopped(s, stat)
          ELSE [pc |-> new_pc(f, cnd, valm),
                r  |-> Writeback(s.r, Full!dstM(f.icode, f.ra), valm,
                                 destE, vale),
                m  |-> IF Full!mem_write(f.icode) THEN SetWord(s.m, addr, data)
                                             ELSE s.m,
                cc |-> IF Full!sets_cc(f.icode) THEN ComputeCc(fun, a, b)
                                               ELSE s.cc,
                st |-> "AOK"]

SeqCycle(s) == Cycled(s, SeqFetch(s))
=============================================================================
