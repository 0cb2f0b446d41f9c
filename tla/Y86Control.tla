----------------------------- MODULE Y86Control -----------------------------
(* The control logic that the HCL descriptions of the sequential and the     *)
(* pipelined processor have in common (sim/seq/seq-*.hcl, pipe/pipe-std.hcl): *)
(* which fields an instruction has, which registers it reads and writes,     *)
(* what goes into the ALU, which address goes to memory.                     *)
(*                                                                           *)
(* Extra is {} for the -std descriptions and {IIADDQ} for seq-full.hcl,      *)
(* which adds that instruction to the tables below.                          *)
EXTENDS Y86Isa

CONSTANT Extra

instr_valid(icode) == icode \in (IHALT .. IPOPQ) \cup Extra

need_regids(icode) ==
    icode \in {IRRMOVQ, IOPQ, IPUSHQ, IPOPQ, IIRMOVQ, IRMMOVQ, IMRMOVQ}
              \cup Extra

need_valC(icode) ==
    icode \in {IIRMOVQ, IRMMOVQ, IMRMOVQ, IJXX, ICALL} \cup Extra

srcA(icode, rA) ==
    CASE icode \in {IRRMOVQ, IRMMOVQ, IOPQ, IPUSHQ} -> rA
      [] icode \in {IPOPQ, IRET} -> RRSP
      [] OTHER -> RNONE

srcB(icode, rB) ==
    CASE icode \in {IOPQ, IRMMOVQ, IMRMOVQ} \cup Extra -> rB
      [] icode \in {IPUSHQ, IPOPQ, ICALL, IRET} -> RRSP
      [] OTHER -> RNONE

dstE(icode, rB) ==
    CASE icode \in {IRRMOVQ, IIRMOVQ, IOPQ} \cup Extra -> rB
      [] icode \in {IPUSHQ, IPOPQ, ICALL, IRET} -> RRSP
      [] OTHER -> RNONE

dstM(icode, rA) == IF icode \in {IMRMOVQ, IPOPQ} THEN rA ELSE RNONE

aluA(icode, valA, valC) ==
    CASE icode \in {IRRMOVQ, IOPQ} -> valA
      [] icode \in {IIRMOVQ, IRMMOVQ, IMRMOVQ} \cup Extra -> valC
      [] icode \in {ICALL, IPUSHQ} -> Wrap(-WordBytes)
      [] icode \in {IRET, IPOPQ} -> WordBytes
      [] OTHER -> 0

aluB(icode, valB) ==
    IF icode \in {IRMMOVQ, IMRMOVQ, IOPQ, ICALL, IPUSHQ, IRET, IPOPQ} \cup Extra
      THEN valB ELSE 0

alufun(icode, ifun) == IF icode = IOPQ THEN ifun ELSE ALUADD

sets_cc(icode) == icode \in {IOPQ} \cup Extra

mem_addr(icode, valE, valA) ==
    CASE icode \in {IRMMOVQ, IPUSHQ, ICALL, IMRMOVQ} -> valE
      [] icode \in {IPOPQ, IRET} -> valA
      [] OTHER -> 0

mem_read(icode) == icode \in {IMRMOVQ, IPOPQ, IRET}
mem_write(icode) == icode \in {IRMMOVQ, IPUSHQ, ICALL}
=============================================================================
