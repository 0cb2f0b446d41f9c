---------------------------- MODULE Y86PipeProofs ----------------------------
(* The pipelined and the sequential processor do what isa.c does, for every  *)
(* program that keeps to its code, whatever the size of words and memory.    *)
(*                                                                           *)
(* The heart of the argument is the inductive invariant IInv: the            *)
(* instructions in write-back, memory, execute and decode, and the one that  *)
(* is fetched next, are the next instructions of the reference machine, and  *)
(* each stage holds of its instruction what the stages before it have to     *)
(* compute (InStep, InOrder).  It is kept because a stage hands on what the  *)
(* next one needs, because forwarding finds the value a register will have,  *)
(* and because control logic leaves a register empty only for a return, a    *)
(* misprediction or a load/use hazard that is still in flight (Bubbles,      *)
(* Retiring).                                                                *)
EXTENDS Y86Tty, TLAPS
-----------------------------------------------------------------------------
(* An instruction f at the state s, as the stages of the pipeline treat it.  *)
FetchOf(m, pc) ==
    LET error == ~HasByte(m, pc) \/ ~HasByte(m, Plus(pc, FetchProbe))
        instr == IF error THEN 16 * INOP ELSE GetByte(m, pc)
        icode == HighNibble(instr)
        p1    == Plus(pc, 1)
        has   == Hcl!need_regids(icode) /\ HasByte(m, p1)
        p2    == IF Hcl!need_regids(icode) THEN Plus(p1, 1) ELSE p1
    IN  [icode |-> icode, ifun |-> LowNibble(instr),
         rA |-> IF has THEN HighNibble(GetByte(m, p1)) ELSE RNONE,
         rB |-> IF has THEN LowNibble(GetByte(m, p1)) ELSE RNONE,
         valC |-> IF Hcl!need_valC(icode) THEN GetWord(m, p2) ELSE 0,
         valP |-> IF Hcl!need_valC(icode) THEN Plus(p2, WordBytes) ELSE p2,
         stat |-> CASE error -> "ADR"
                    [] ~Hcl!instr_valid(icode) -> "INS"
                    [] icode = IHALT -> "HLT"
                    [] OTHER -> "AOK",
         pc |-> pc]

Instr(s) == FetchOf(s.m, s.pc)

SrcA(f) == Hcl!srcA(f.icode, f.rA)
SrcB(f) == Hcl!srcB(f.icode, f.rB)
DstE(s, f) ==
    IF f.icode = IRRMOVQ /\ ~CondHolds(s.cc, f.ifun) THEN RNONE
    ELSE Hcl!dstE(f.icode, f.rB)
DstM(f) == Hcl!dstM(f.icode, f.rA)
ValA(s, f) ==
    IF f.icode \in {ICALL, IJXX} THEN f.valP ELSE GetReg(s.r, SrcA(f))
ValB(s, f) == GetReg(s.r, SrcB(f))
Fun(f) == Hcl!alufun(f.icode, f.ifun)
InA(s, f) == Hcl!aluA(f.icode, ValA(s, f), f.valC)
InB(s, f) == Hcl!aluB(f.icode, ValB(s, f))
ValE(s, f) == ComputeAlu(Fun(f), InA(s, f), InB(s, f))
Addr(s, f) == Hcl!mem_addr(f.icode, ValE(s, f), ValA(s, f))
Reads(f) == Hcl!mem_read(f.icode)
Writes(f) == Hcl!mem_write(f.icode)
ValM(s, f) == IF Reads(f) THEN GetWord(s.m, Addr(s, f)) ELSE 0
StatOf(s, f) ==
    IF (Reads(f) \/ Writes(f)) /\ ~HasWord(s.m, Addr(s, f)) THEN "ADR"
    ELSE f.stat
NextPc(s, f) ==
    CASE f.icode = ICALL -> f.valC
      [] f.icode = IJXX /\ CondHolds(s.cc, f.ifun) -> f.valC
      [] f.icode = IRET -> ValM(s, f)
      [] OTHER -> f.valP
NextRegs(s, f) ==
    SetReg(SetReg(s.r, DstE(s, f), ValE(s, f)), DstM(f), ValM(s, f))
NextMem(s, f) ==
    IF Writes(f) THEN SetWord(s.m, Addr(s, f), ValA(s, f)) ELSE s.m
NextCc(s, f) ==
    IF Hcl!sets_cc(f.icode) THEN ComputeCc(Fun(f), InA(s, f), InB(s, f))
    ELSE s.cc
-----------------------------------------------------------------------------
(* The instructions in flight.                                               *)
S1 == After(W, isa)
S2 == After(M, S1)
S3 == After(E, S2)
S4 == After(D, S3)

AtD(stage, s) == stage = Instr(s)
AtE(stage, s) ==
    LET f == Instr(s) IN
    /\ stage.icode = f.icode /\ stage.ifun = f.ifun /\ stage.valC = f.valC
    /\ stage.dstE = Hcl!dstE(f.icode, f.rB) /\ stage.dstM = DstM(f)
    /\ stage.stat = f.stat /\ stage.pc = f.pc
    /\ (f.icode \in {ICALL, IJXX} \/ SrcA(f) # RNONE) => stage.valA = ValA(s, f)
    /\ SrcB(f) # RNONE => stage.valB = ValB(s, f)
AtM(stage, s) ==
    LET f == Instr(s) IN
    /\ stage.icode = f.icode /\ stage.Cnd = CondHolds(s.cc, f.ifun)
    /\ stage.valE = ValE(s, f)
    /\ stage.dstE = DstE(s, f) /\ stage.dstM = DstM(f)
    /\ stage.stat = f.stat /\ stage.pc = f.pc
    /\ (f.icode \in {ICALL, IJXX} \/ SrcA(f) # RNONE) => stage.valA = ValA(s, f)
AtW(stage, s) ==
    LET f == Instr(s) IN
    /\ stage.icode = f.icode /\ stage.valE = ValE(s, f)
    /\ stage.valM = ValM(s, f)
    /\ stage.dstE = DstE(s, f) /\ stage.dstM = DstM(f)
    /\ stage.stat = StatOf(s, f) /\ stage.pc = f.pc

Empty(stage) == stage.stat = "BUB"
Misled(stage, s) ==
    /\ ~Empty(stage) /\ stage.icode = IJXX
    /\ ~CondHolds(s.cc, stage.ifun)

InStep ==
    /\ isa.st = "AOK"
    /\ reg = isa.r /\ mem = S1.m /\ cc = S2.cc /\ cc_in = cc
    /\ ~Empty(W) => AtW(W, isa)
    /\ S1.st = "AOK" /\ ~Empty(M) => AtM(M, S1)
InOrder ==
    /\ S2.st = "AOK" /\ SameCode(S2.m, mem) /\ ~Empty(E) => AtE(E, S2)
    /\ S3.st = "AOK" /\ SameCode(S2.m, mem) /\ SameCode(S3.m, mem)
         /\ ~Empty(D) /\ ~Misled(E, S2) => AtD(D, S3)
    /\ S4.st = "AOK" /\ SameCode(S2.m, mem) /\ SameCode(S3.m, mem)
         /\ SameCode(S4.m, mem) /\ ~Misled(E, S2) /\ ~Misled(D, S3)
         /\ IRET \notin {D.icode, E.icode, M.icode} => f_pc = S4.pc

Bubbles ==
    /\ Empty(D) => D.icode = INOP /\ D.rA = RNONE /\ D.rB = RNONE
    /\ Empty(E) => E.icode = INOP /\ E.dstE = RNONE /\ E.dstM = RNONE
    /\ Empty(M) => M.icode = INOP /\ M.dstE = RNONE /\ M.dstM = RNONE
    /\ Empty(W) => W.icode = INOP /\ W.dstE = RNONE /\ W.dstM = RNONE
    /\ E.icode = IRET => Empty(D)
    /\ M.icode = IRET \/ (M.icode = IJXX /\ ~M.Cnd) => Empty(D) /\ Empty(E)
    /\ W.icode = IRET => Empty(D) /\ Empty(E) /\ Empty(M)

Retiring ==
    W.stat \notin Faults =>
        /\ Empty(W) => idle <= 2
        /\ Empty(W) /\ Empty(M) => idle <= 1
        /\ Empty(W) /\ Empty(M) /\ Empty(E) => idle = 0
        /\ Empty(W) /\ Empty(M) /\ Empty(E) /\ Empty(D) => starting_up
        /\ Empty(D) /\ ~Empty(E) => E.icode = IRET
        /\ Empty(D) /\ Empty(E) /\ ~Empty(M) =>
             M.icode = IRET \/ (M.icode = IJXX /\ ~M.Cnd)
        /\ Empty(D) /\ Empty(E) /\ Empty(M) /\ ~Empty(W) => W.icode = IRET
-----------------------------------------------------------------------------
(* Words.                                                                    *)

\* A machine has a register, which holds a word: there is one.
LEMMA ModulusPositive ==
    ASSUME NEW s \in Machine PROVE Modulus \in Nat /\ Modulus > 0
<1>1. s.r[RRSP] \in 0 .. (Modulus - 1)
  BY MachineAssumption DEF Machine, RegisterFile, Word
<1>2. Modulus \in Int
  <2>1. 8 * WordBytes \in Nat
    BY MachineAssumption
  <2>2. QED
    BY <2>1 DEF Modulus
<1>3. QED
  BY <1>1, <1>2

\* A word is its own remainder.
LEMMA WordIsWrapped ==
    ASSUME Modulus \in Nat, Modulus > 0, NEW w \in Word
    PROVE  Wrap(w) = w /\ Plus(w, 0) = w /\ Plus(0, w) = w
BY DEF Word, Wrap, Plus

\* Two numbers a multiple of n apart have one remainder.
LEMMA SameRemainder ==
    ASSUME NEW n \in Nat, n > 0, NEW a \in Int, NEW k \in Int
    PROVE  (a + k * n) % n = a % n
<1> DEFINE q == a \div n  r == a % n  b == a + k * n
           p == b \div n  t == b % n
<1>1. q \in Int /\ r \in 0 .. (n - 1) /\ a = n * q + r
  OBVIOUS
<1>2. b \in Int
  OBVIOUS
<1>3. p \in Int /\ t \in 0 .. (n - 1) /\ b = n * p + t
  BY <1>2
<1> DEFINE d == p - q - k
<1>4. d \in Int
  BY <1>1, <1>3
<1>5. r - t = n * d
  BY <1>1, <1>3
<1>6. r - t < n /\ r - t > -n
  BY <1>1, <1>3
<1> HIDE DEF q, r, p, t, d, b
<1>7. d = 0
  <2>1. CASE d >= 1
    <3>1. n * d >= n
      BY <1>4, <2>1
    <3>2. QED
      BY <3>1, <1>5, <1>6, <1>1, <1>3
  <2>2. CASE d <= -1
    <3>1. n * d <= -n
      BY <1>4, <2>2
    <3>2. QED
      BY <3>1, <1>5, <1>6, <1>1, <1>3
  <2>3. QED
    BY <1>4, <2>1, <2>2
<1>8. r = t
  BY <1>5, <1>7, <1>1, <1>3
<1>9. QED
  BY <1>8 DEF r, t, b

\* The processors add the negative of a word's length, isa.c subtracts it.
LEMMA StackDown ==
    ASSUME Modulus \in Nat, Modulus > 0, NEW w \in Word
    PROVE  Plus(Wrap(-WordBytes), w) = Minus(w, WordBytes)
<1>1. WordBytes \in Int /\ w \in Int
  BY MachineAssumption DEF Word
<1> DEFINE n == Modulus  a == -WordBytes  q == a \div n
<1>2. q \in Int /\ a % n \in Int /\ a = n * q + (a % n)
  BY <1>1
<1>3. (a % n) + w = (a + w) + (-q) * n
  BY <1>1, <1>2
<1>4. ((a + w) + (-q) * n) % n = (a + w) % n
  <2>1. a + w \in Int /\ -q \in Int
    BY <1>1, <1>2
  <2> HIDE DEF n, a, q
  <2>2. n \in Nat /\ n > 0
    BY DEF n
  <2>3. QED
    BY <2>1, <2>2, SameRemainder
<1>5. a + w = w - WordBytes
  BY <1>1
<1>6. QED
  BY <1>3, <1>4, <1>5 DEF Plus, Minus, Wrap
-----------------------------------------------------------------------------
(* Fetch.                                                                    *)

\* The part of isa.c's fetch that the pipeline's shares.
LEMMA FetchInside ==
    ASSUME NEW s, HasByte(s.m, s.pc), Complete(s), Fetchable(s),
           NEW f, f = Instr(s), NEW i, i = Fetched(s)
    PROVE  /\ f.icode = i.icode /\ f.ifun = i.ifun /\ f.pc = s.pc
           /\ f.stat = (IF f.icode \notin 0 .. 11 THEN "INS"
                        ELSE IF f.icode = IHALT THEN "HLT" ELSE "AOK")
           /\ f.icode \in {2, 3, 4, 5, 6, 10, 11} =>
                f.rA = i.ra /\ f.rB = i.rb
           /\ f.icode \in {3, 4, 5, 7, 8} => f.valC = i.valc
           /\ f.icode \in 0 .. 11 => f.valP = i.valp
<1> DEFINE byte0 == GetByte(s.m, s.pc)  code == HighNibble(byte0)
           p1 == Plus(s.pc, 1)
<1>1. HasByte(s.m, Plus(s.pc, FetchProbe))
  BY DEF Fetchable
<1>2. i.ok1
  BY DEF Complete
<1>3. i.icode = code /\ i.ifun = LowNibble(byte0)
  BY DEF Fetched
<1>4. f.icode = code /\ f.ifun = LowNibble(byte0) /\ f.pc = s.pc
  BY <1>1 DEF Instr, FetchOf
<1>5. f.stat = (IF f.icode \notin 0 .. 11 THEN "INS"
                ELSE IF f.icode = IHALT THEN "HLT" ELSE "AOK")
  <2>1. f.stat = (CASE ~Hcl!instr_valid(code) -> "INS"
                    [] code = IHALT -> "HLT"
                    [] OTHER -> "AOK")
    BY <1>1 DEF Instr, FetchOf
  <2>2. Hcl!instr_valid(code) <=> code \in 0 .. 11
    BY DEF Hcl!instr_valid, Hcl!IHALT, Hcl!IPOPQ, IHALT, IPOPQ
  <2>3. QED
    BY <2>1, <2>2, <1>4 DEF IHALT
<1>6. Hcl!need_regids(code) <=> code \in {2, 3, 4, 5, 6, 10, 11}
  BY DEF Hcl!need_regids, IRRMOVQ, IOPQ, IPUSHQ, IPOPQ, IIRMOVQ, IRMMOVQ,
         IMRMOVQ, Hcl!IRRMOVQ, Hcl!IOPQ, Hcl!IPUSHQ, Hcl!IPOPQ, Hcl!IIRMOVQ,
         Hcl!IRMMOVQ, Hcl!IMRMOVQ
<1>7. Hcl!need_valC(code) <=> code \in {3, 4, 5, 7, 8}
  BY DEF Hcl!need_valC, Hcl!IIRMOVQ, Hcl!IRMMOVQ, Hcl!IMRMOVQ, Hcl!IJXX,
         Hcl!ICALL
<1>8. code \in HasRegids <=> code \in {2, 3, 4, 5, 6, 10, 11, 12}
  BY DEF HasRegids, IRRMOVQ, IOPQ, IPUSHQ, IPOPQ, IIRMOVQ, IRMMOVQ, IMRMOVQ,
         IIADDQ
<1>9. code \in HasImmediate <=> code \in {3, 4, 5, 7, 8, 12}
  BY DEF HasImmediate, IIRMOVQ, IRMMOVQ, IMRMOVQ, IJXX, ICALL, IIADDQ
<1>10. code \in HasRegids => HasByte(s.m, p1)
  BY <1>2 DEF Fetched
<1> HIDE DEF code, p1, byte0
<1>11. ASSUME f.icode \in {2, 3, 4, 5, 6, 10, 11}
       PROVE  f.rA = i.ra /\ f.rB = i.rb
  <2>1. /\ i.ra = HighNibble(GetByte(s.m, p1))
        /\ i.rb = LowNibble(GetByte(s.m, p1))
    BY <1>11, <1>4, <1>8 DEF Fetched, code, p1, byte0
  <2>2. Hcl!need_regids(code) /\ HasByte(s.m, p1)
    BY <1>11, <1>4, <1>6, <1>8, <1>10
  <2>3. /\ f.rA = HighNibble(GetByte(s.m, p1))
        /\ f.rB = LowNibble(GetByte(s.m, p1))
    BY <2>2, <1>1 DEF Instr, FetchOf, code, p1, byte0
  <2>4. QED
    BY <2>1, <2>3
<1>12. ASSUME f.icode \in {3, 4, 5, 7, 8}
       PROVE  f.valC = i.valc
  <2> DEFINE p2 == IF code \in {3, 4, 5} THEN Plus(p1, 1) ELSE p1
  <2>1. i.valc = GetWord(s.m, p2)
    BY <1>12, <1>4, <1>8, <1>9 DEF Fetched, code, p1, byte0
  <2>2. f.valC = GetWord(s.m, p2)
    BY <1>12, <1>4, <1>1, <1>6, <1>7 DEF Instr, FetchOf, code, p1, byte0
  <2>3. QED
    BY <2>1, <2>2
<1>13. ASSUME f.icode \in 0 .. 11
       PROVE  f.valP = i.valp
  <2>1. code \in HasRegids <=> Hcl!need_regids(code)
    BY <1>13, <1>4, <1>6, <1>8
  <2>2. code \in HasImmediate <=> Hcl!need_valC(code)
    BY <1>13, <1>4, <1>7, <1>9
  <2> DEFINE p2 == IF code \in HasRegids THEN Plus(p1, 1) ELSE p1
             p3 == IF code \in HasImmediate THEN Plus(p2, WordBytes) ELSE p2
  <2>3. i.valp = p3
    BY DEF Fetched, code, p1, byte0
  <2>4. f.valP = p3
    BY <1>1, <2>1, <2>2 DEF Instr, FetchOf, code, p1, byte0
  <2>5. QED
    BY <2>3, <2>4
<1>14. QED
  BY <1>3, <1>4, <1>5, <1>11, <1>12, <1>13

\* Both find that there is nothing at a pc outside memory.
LEMMA FetchOutside ==
    ASSUME NEW s, ~HasByte(s.m, s.pc), NEW f, f = Instr(s)
    PROVE  f.icode = INOP /\ f.stat = "ADR" /\ f.pc = s.pc
<1>1. HighNibble(16 * INOP) = INOP
  BY DEF HighNibble, INOP
<1>2. Hcl!instr_valid(INOP) /\ INOP # IHALT
  BY DEF Hcl!instr_valid, Hcl!IHALT, Hcl!IPOPQ, IHALT, INOP
<1>3. f.icode = INOP /\ f.pc = s.pc
  BY <1>1 DEF Instr, FetchOf
<1>4. f.stat = (CASE TRUE -> "ADR"
                  [] ~Hcl!instr_valid(INOP) -> "INS"
                  [] INOP = IHALT -> "HLT"
                  [] OTHER -> "AOK")
  BY <1>1 DEF Instr, FetchOf
<1>5. QED
  BY <1>2, <1>3, <1>4
-----------------------------------------------------------------------------
(* The tables of the control logic, and the step of isa.c by them.           *)

\* The tables of pipe-std.hcl by the numbers of the instructions.
LEMMA Tables ==
    ASSUME NEW c, NEW a, NEW b, NEW v
    PROVE  /\ Hcl!srcA(c, a) = (IF c \in {2, 4, 6, 10} THEN a
                                ELSE IF c \in {9, 11} THEN 4 ELSE 15)
           /\ Hcl!srcB(c, b) = (IF c \in {4, 5, 6} THEN b
                                ELSE IF c \in {8, 9, 10, 11} THEN 4 ELSE 15)
           /\ Hcl!dstE(c, b) = (IF c \in {2, 3, 6} THEN b
                                ELSE IF c \in {8, 9, 10, 11} THEN 4 ELSE 15)
           /\ Hcl!dstM(c, a) = (IF c \in {5, 11} THEN a ELSE 15)
           /\ Hcl!aluA(c, a, v) = (IF c \in {2, 6} THEN a
                                   ELSE IF c \in {3, 4, 5} THEN v
                                   ELSE IF c \in {8, 10} THEN Wrap(-WordBytes)
                                   ELSE IF c \in {9, 11} THEN WordBytes ELSE 0)
           /\ Hcl!aluB(c, b) = (IF c \in {4, 5, 6, 8, 9, 10, 11} THEN b ELSE 0)
           /\ Hcl!alufun(c, v) = (IF c = 6 THEN v ELSE ALUADD)
           /\ Hcl!sets_cc(c) <=> c = 6
           /\ Hcl!mem_addr(c, v, a) = (IF c \in {4, 5, 8, 10} THEN v
                                       ELSE IF c \in {9, 11} THEN a ELSE 0)
           /\ Hcl!mem_read(c) <=> c \in {5, 9, 11}
           /\ Hcl!mem_write(c) <=> c \in {4, 8, 10}
<1> USE DEF Hcl!IHALT, Hcl!INOP, Hcl!IRRMOVQ, Hcl!IIRMOVQ, Hcl!IRMMOVQ,
            Hcl!IMRMOVQ, Hcl!IOPQ, Hcl!IJXX, Hcl!ICALL, Hcl!IRET, Hcl!IPUSHQ,
            Hcl!IPOPQ, Hcl!RRSP, Hcl!RNONE, Hcl!ALUADD, ALUADD, Hcl!Wrap, Wrap,
            Hcl!Modulus, Modulus
<1>1. Hcl!srcA(c, a) = (IF c \in {2, 4, 6, 10} THEN a
                        ELSE IF c \in {9, 11} THEN 4 ELSE 15)
  BY DEF Hcl!srcA
<1>2. Hcl!srcB(c, b) = (IF c \in {4, 5, 6} THEN b
                        ELSE IF c \in {8, 9, 10, 11} THEN 4 ELSE 15)
  BY DEF Hcl!srcB
<1>3. Hcl!dstE(c, b) = (IF c \in {2, 3, 6} THEN b
                        ELSE IF c \in {8, 9, 10, 11} THEN 4 ELSE 15)
  BY DEF Hcl!dstE
<1>4. Hcl!dstM(c, a) = (IF c \in {5, 11} THEN a ELSE 15)
  BY DEF Hcl!dstM
<1>5. Hcl!aluA(c, a, v) = (IF c \in {2, 6} THEN a
                           ELSE IF c \in {3, 4, 5} THEN v
                           ELSE IF c \in {8, 10} THEN Wrap(-WordBytes)
                           ELSE IF c \in {9, 11} THEN WordBytes ELSE 0)
  BY DEF Hcl!aluA
<1>6. Hcl!aluB(c, b) = (IF c \in {4, 5, 6, 8, 9, 10, 11} THEN b ELSE 0)
  BY DEF Hcl!aluB
<1>7. Hcl!alufun(c, v) = (IF c = 6 THEN v ELSE ALUADD)
  BY DEF Hcl!alufun
<1>8. Hcl!sets_cc(c) <=> c = 6
  BY DEF Hcl!sets_cc
<1>9. Hcl!mem_addr(c, v, a) = (IF c \in {4, 5, 8, 10} THEN v
                               ELSE IF c \in {9, 11} THEN a ELSE 0)
  BY DEF Hcl!mem_addr
<1>10. Hcl!mem_read(c) <=> c \in {5, 9, 11}
  BY DEF Hcl!mem_read
<1>11. Hcl!mem_write(c) <=> c \in {4, 8, 10}
  BY DEF Hcl!mem_write
<1>12. QED
  BY <1>1, <1>2, <1>3, <1>4, <1>5, <1>6, <1>7, <1>8, <1>9, <1>10, <1>11

\* The same for an instruction that has been fetched.
LEMMA Parts ==
    ASSUME NEW s, NEW f
    PROVE  /\ SrcA(f) = (IF f.icode \in {2, 4, 6, 10} THEN f.rA
                         ELSE IF f.icode \in {9, 11} THEN 4 ELSE 15)
           /\ SrcB(f) = (IF f.icode \in {4, 5, 6} THEN f.rB
                         ELSE IF f.icode \in {8, 9, 10, 11} THEN 4 ELSE 15)
           /\ DstE(s, f) = (IF f.icode = 2 /\ ~CondHolds(s.cc, f.ifun) THEN 15
                            ELSE IF f.icode \in {2, 3, 6} THEN f.rB
                            ELSE IF f.icode \in {8, 9, 10, 11} THEN 4 ELSE 15)
           /\ DstM(f) = (IF f.icode \in {5, 11} THEN f.rA ELSE 15)
           /\ ValA(s, f) = (IF f.icode \in {7, 8} THEN f.valP
                            ELSE GetReg(s.r, SrcA(f)))
           /\ Fun(f) = (IF f.icode = 6 THEN f.ifun ELSE ALUADD)
           /\ InA(s, f) = (IF f.icode \in {2, 6} THEN ValA(s, f)
                           ELSE IF f.icode \in {3, 4, 5} THEN f.valC
                           ELSE IF f.icode \in {8, 10} THEN Wrap(-WordBytes)
                           ELSE IF f.icode \in {9, 11} THEN WordBytes ELSE 0)
           /\ InB(s, f) = (IF f.icode \in {4, 5, 6, 8, 9, 10, 11}
                           THEN GetReg(s.r, SrcB(f)) ELSE 0)
           /\ Addr(s, f) = (IF f.icode \in {4, 5, 8, 10} THEN ValE(s, f)
                            ELSE IF f.icode \in {9, 11} THEN ValA(s, f) ELSE 0)
           /\ (Reads(f) <=> f.icode \in {5, 9, 11})
           /\ (Writes(f) <=> f.icode \in {4, 8, 10})
           /\ NextPc(s, f) = (IF f.icode = 8
                                \/ (f.icode = 7 /\ CondHolds(s.cc, f.ifun))
                              THEN f.valC
                              ELSE IF f.icode = 9 THEN ValM(s, f) ELSE f.valP)
           /\ NextCc(s, f) =
                (IF f.icode = 6 THEN ComputeCc(Fun(f), InA(s, f), InB(s, f))
                 ELSE s.cc)
<1>1. SrcA(f) = (IF f.icode \in {2, 4, 6, 10} THEN f.rA
                 ELSE IF f.icode \in {9, 11} THEN 4 ELSE 15)
  BY Tables DEF SrcA
<1>2. SrcB(f) = (IF f.icode \in {4, 5, 6} THEN f.rB
                 ELSE IF f.icode \in {8, 9, 10, 11} THEN 4 ELSE 15)
  BY Tables DEF SrcB
<1>3. DstE(s, f) = (IF f.icode = 2 /\ ~CondHolds(s.cc, f.ifun) THEN 15
                    ELSE IF f.icode \in {2, 3, 6} THEN f.rB
                    ELSE IF f.icode \in {8, 9, 10, 11} THEN 4 ELSE 15)
  <2>1. Hcl!dstE(f.icode, f.rB)
          = (IF f.icode \in {2, 3, 6} THEN f.rB
             ELSE IF f.icode \in {8, 9, 10, 11} THEN 4 ELSE 15)
    BY Tables
  <2>2. QED
    BY <2>1 DEF DstE, IRRMOVQ, RNONE
<1>4. DstM(f) = (IF f.icode \in {5, 11} THEN f.rA ELSE 15)
  BY Tables DEF DstM
<1>5. ValA(s, f) = (IF f.icode \in {7, 8} THEN f.valP
                    ELSE GetReg(s.r, SrcA(f)))
  BY DEF ValA, ICALL, IJXX
<1>6. Fun(f) = (IF f.icode = 6 THEN f.ifun ELSE ALUADD)
  BY Tables DEF Fun
<1>7. InA(s, f) = (IF f.icode \in {2, 6} THEN ValA(s, f)
                   ELSE IF f.icode \in {3, 4, 5} THEN f.valC
                   ELSE IF f.icode \in {8, 10} THEN Wrap(-WordBytes)
                   ELSE IF f.icode \in {9, 11} THEN WordBytes ELSE 0)
  BY Tables DEF InA
<1>8. InB(s, f) = (IF f.icode \in {4, 5, 6, 8, 9, 10, 11}
                   THEN GetReg(s.r, SrcB(f)) ELSE 0)
  BY Tables DEF InB, ValB
<1>9. Addr(s, f) = (IF f.icode \in {4, 5, 8, 10} THEN ValE(s, f)
                    ELSE IF f.icode \in {9, 11} THEN ValA(s, f) ELSE 0)
  BY Tables DEF Addr
<1>10. (Reads(f) <=> f.icode \in {5, 9, 11})
  BY Tables DEF Reads
<1>11. (Writes(f) <=> f.icode \in {4, 8, 10})
  BY Tables DEF Writes
<1>12. NextPc(s, f) = (IF f.icode = 8
                         \/ (f.icode = 7 /\ CondHolds(s.cc, f.ifun))
                       THEN f.valC
                       ELSE IF f.icode = 9 THEN ValM(s, f) ELSE f.valP)
  <2>1. NextPc(s, f) = (CASE f.icode = 8 -> f.valC
                          [] f.icode = 7 /\ CondHolds(s.cc, f.ifun) -> f.valC
                          [] f.icode = 9 -> ValM(s, f)
                          [] OTHER -> f.valP)
    BY Zenon DEF NextPc, ICALL, IJXX, IRET
  <2>2. QED
    BY <2>1
<1>13. NextCc(s, f) =
         (IF f.icode = 6 THEN ComputeCc(Fun(f), InA(s, f), InB(s, f))
          ELSE s.cc)
  BY Tables DEF NextCc
<1>14. QED
  BY <1>1, <1>2, <1>3, <1>4, <1>5, <1>6, <1>7, <1>8, <1>9, <1>10, <1>11,
     <1>12, <1>13
\* What a step of isa.c makes of a state, in the terms above; a fault leaves
\* the memory and the condition codes alone.
StepsTo(s, f, n) ==
    /\ n.st = StatOf(s, f)
    /\ n.st = "AOK" => n = [pc |-> NextPc(s, f), r |-> NextRegs(s, f),
                            m |-> NextMem(s, f), cc |-> NextCc(s, f),
                            st |-> "AOK"]
    /\ n.st # "AOK" => n.m = s.m /\ n.cc = s.cc

\* An instruction that works is one of the twelve.
LEMMA StepOf ==
    ASSUME NEW s \in Machine, s.st = "AOK", Complete(s), Fetchable(s),
           IsaStep(s) \in Machine
    PROVE  StepsTo(s, Instr(s), IsaStep(s))
<1> DEFINE f == Instr(s)  i == Fetched(s)  n == IsaStep(s)
<1>0. Modulus \in Nat /\ Modulus > 0
  BY ModulusPositive
<1>m. s = [pc |-> s.pc, r |-> s.r, m |-> s.m, cc |-> s.cc, st |-> "AOK"]
  BY DEF Machine
<1>r. s.r \in [Regs -> Word] /\ 4 \in Regs /\ 15 \notin Regs
  BY MachineAssumption DEF Machine, RegisterFile, RRSP
<1>1. CASE ~HasByte(s.m, s.pc)
  <2>1. f.icode = INOP /\ f.stat = "ADR"
    BY <1>1, FetchOutside
  <2>2. n = Stopped(s, "ADR")
    BY <1>1 DEF IsaStep, StepState, Stepped
  <2>3. StatOf(s, f) = "ADR"
    BY <2>1 DEF StatOf
  <2>4. QED
    BY <2>2, <2>3 DEF StepsTo, Stopped, State
<1>2. CASE HasByte(s.m, s.pc)
  <2>1. /\ f.icode = i.icode /\ f.ifun = i.ifun /\ f.pc = s.pc
        /\ f.stat = (IF f.icode \notin 0 .. 11 THEN "INS"
                     ELSE IF f.icode = IHALT THEN "HLT" ELSE "AOK")
        /\ f.icode \in {2, 3, 4, 5, 6, 10, 11} => f.rA = i.ra /\ f.rB = i.rb
        /\ f.icode \in {3, 4, 5, 7, 8} => f.valC = i.valc
        /\ f.icode \in 0 .. 11 => f.valP = i.valp
    BY <1>2, FetchInside
  <2>2. /\ i.ok1 /\ i.okc
        /\ i.icode \in {2, 4, 5, 6, 10, 11} => i.ra \in Regs
        /\ i.icode \in {2, 3, 4, 5, 6, 12} => i.rb \in Regs
    BY <1>2 DEF Complete, NeedsRa, NeedsRb, IRRMOVQ, IRMMOVQ, IMRMOVQ, IOPQ,
                IPUSHQ, IPOPQ, IIRMOVQ, IIADDQ
  <2>3. NamesRegisters(i)
    BY <2>2, <1>r DEF NamesRegisters, IRRMOVQ, IRMMOVQ, IMRMOVQ, IPUSHQ, IPOPQ,
                      IIRMOVQ, IIADDQ, RNONE
  <2>4. HighNibble(GetByte(s.m, s.pc)) = i.icode
    BY DEF Fetched
  <2>5. n = (IF i.icode = 12 THEN Stopped(s, "INS") ELSE Executed(s, i))
    BY <1>2, <2>2, <2>3, <2>4 DEF IsaStep, StepState, Stepped, IIADDQ
  <2> SUFFICES StepsTo(s, f, n)
    OBVIOUS
  <2> HIDE DEF f, i, n
  <2> DEFINE rsp == s.r[4]  valA == GetReg(s.r, i.ra)
             valB == GetReg(s.r, i.rb)  addr == Plus(i.valc, valB)
             up == Plus(rsp, WordBytes)  down == Minus(rsp, WordBytes)
  <2>6. GetReg(s.r, RRSP) = rsp /\ rsp \in Word
    BY <1>r DEF GetReg, RRSP
  <2> HIDE DEF rsp
  <2> USE DEF IHALT, INOP, IRRMOVQ, IIRMOVQ, IRMMOVQ, IMRMOVQ, IOPQ, IJXX,
              ICALL, IRET, IPUSHQ, IPOPQ, IIADDQ, RRSP
  <2>7. i.icode = 0 =>
            n = State(s.pc, s.r, s.m, s.cc, "HLT")
    BY <2>5, <2>6 DEF Executed, Stopped
  <2>8. i.icode = 1 =>
            n = State(i.valp, s.r, s.m, s.cc, "AOK")
    BY <2>5, <2>6 DEF Executed, Stopped
  <2>9. i.icode = 2 =>
            n = State(i.valp, IF CondHolds(s.cc, i.ifun)
                               THEN SetReg(s.r, i.rb, valA) ELSE s.r,
                       s.m, s.cc, "AOK")
    BY <2>5, <2>6 DEF Executed, Stopped
  <2>10. i.icode = 3 =>
            n = State(i.valp, SetReg(s.r, i.rb, i.valc), s.m, s.cc, "AOK")
    BY <2>5, <2>6 DEF Executed, Stopped
  <2>11. i.icode = 4 =>
            n = (IF HasWord(s.m, addr)
               THEN State(i.valp, s.r, SetWord(s.m, addr, valA), s.cc, "AOK")
               ELSE State(s.pc, s.r, s.m, s.cc, "ADR"))
    BY <2>5, <2>6 DEF Executed, Stopped
  <2>12. i.icode = 5 =>
            n = (IF HasWord(s.m, addr)
               THEN State(i.valp, SetReg(s.r, i.ra, GetWord(s.m, addr)), s.m,
                          s.cc, "AOK")
               ELSE State(s.pc, s.r, s.m, s.cc, "ADR"))
    BY <2>5, <2>6 DEF Executed, Stopped
  <2>13. i.icode = 6 =>
            n = State(i.valp, SetReg(s.r, i.rb, ComputeAlu(i.ifun, valA, valB)),
                       s.m, ComputeCc(i.ifun, valA, valB), "AOK")
    BY <2>5, <2>6 DEF Executed, Stopped
  <2>14. i.icode = 7 =>
            n = State(IF CondHolds(s.cc, i.ifun) THEN i.valc ELSE i.valp,
                       s.r, s.m, s.cc, "AOK")
    BY <2>5, <2>6 DEF Executed, Stopped
  <2>15. i.icode = 8 =>
            n = (IF HasWord(s.m, down)
               THEN State(i.valc, SetReg(s.r, 4, down),
                          SetWord(s.m, down, i.valp), s.cc, "AOK")
               ELSE State(s.pc, SetReg(s.r, 4, down), s.m, s.cc, "ADR"))
    BY <2>5, <2>6 DEF Executed, Stopped
  <2>16. i.icode = 9 =>
            n = (IF HasWord(s.m, rsp)
               THEN State(GetWord(s.m, rsp), SetReg(s.r, 4, up), s.m, s.cc,
                          "AOK")
               ELSE State(s.pc, s.r, s.m, s.cc, "ADR"))
    BY <2>5, <2>6 DEF Executed, Stopped
  <2>17. i.icode = 10 =>
            n = (IF HasWord(s.m, down)
               THEN State(i.valp, SetReg(s.r, 4, down),
                          SetWord(s.m, down, valA), s.cc, "AOK")
               ELSE State(s.pc, SetReg(s.r, 4, down), s.m, s.cc, "ADR"))
    BY <2>5, <2>6 DEF Executed, Stopped
  <2>18. i.icode = 11 =>
            n = (IF HasWord(s.m, rsp)
               THEN State(i.valp, SetReg(SetReg(s.r, 4, up), i.ra,
                                         GetWord(s.m, rsp)),
                          s.m, s.cc, "AOK")
               ELSE State(s.pc, SetReg(s.r, 4, up), s.m, s.cc, "ADR"))
    BY <2>5, <2>6 DEF Executed, Stopped
  <2>19. i.icode \notin 0 .. 11 => n = State(s.pc, s.r, s.m, s.cc, "INS")
    BY <2>5 DEF Executed, Stopped
  <2>20. /\ valA \in Word /\ valB \in Word /\ 0 \in Word
         /\ \A r, w : SetReg(r, 15, w) = r
         /\ GetReg(s.r, 15) = 0 /\ GetReg(s.r, 4) = rsp
    <3>1. 0 \in Word
      BY <1>0 DEF Word
    <3>2. QED
      BY <3>1, <1>r, <2>6 DEF GetReg, SetReg
  <2>21. \A a, b : ComputeAlu(ALUADD, a, b) = Plus(a, b)
    BY DEF ComputeAlu, ALUADD, ALUSUB, ALUAND, ALUXOR
  <2> HIDE DEF valA, valB, addr, up, down
  <2> USE <2>1, <2>20, <2>21, Parts
  <2>22. CASE i.icode = 0
    <3>1. ~Reads(f) /\ ~Writes(f) /\ f.stat = "HLT"
      BY <2>22
    <3>2. QED
      BY <2>7, <2>22, <3>1 DEF StepsTo, State, StatOf, NextRegs, NextMem
  <2>23. CASE i.icode = 1
    <3>1. ~Reads(f) /\ ~Writes(f) /\ f.stat = "AOK"
      BY <2>23
    <3>2. /\ DstE(s, f) = 15 /\ DstM(f) = 15
          /\ NextPc(s, f) = i.valp /\ NextCc(s, f) = s.cc
      BY <2>23
    <3>3. QED
      BY <2>8, <2>23, <3>1, <3>2 DEF StepsTo, State, StatOf, NextRegs, NextMem
  <2>24. CASE i.icode = 2
    <3>1. ~Reads(f) /\ ~Writes(f) /\ f.stat = "AOK"
      BY <2>24
    <3>2. DstM(f) = 15 /\ NextPc(s, f) = i.valp /\ NextCc(s, f) = s.cc
      BY <2>24
    <3>3. DstE(s, f) = IF CondHolds(s.cc, i.ifun) THEN i.rb ELSE 15
      BY <2>24
    <3>4. ValA(s, f) = valA
      BY <2>24 DEF valA
    <3>5. Fun(f) = ALUADD /\ InA(s, f) = valA /\ InB(s, f) = 0
      BY <2>24, <3>4
    <3>6. ValE(s, f) = valA
      BY <3>5, <1>0, WordIsWrapped DEF ValE
    <3>7. QED
      BY <2>9, <2>24, <3>1, <3>2, <3>3, <3>4, <3>5, <3>6
       DEF StepsTo, State, StatOf, NextRegs, NextMem
  <2>25. CASE i.icode = 3
    <3>1. ~Reads(f) /\ ~Writes(f) /\ f.stat = "AOK"
      BY <2>25
    <3>2. /\ DstE(s, f) = i.rb /\ DstM(f) = 15
          /\ NextPc(s, f) = i.valp /\ NextCc(s, f) = s.cc
      BY <2>25
    <3>3. Fun(f) = ALUADD /\ InA(s, f) = i.valc /\ InB(s, f) = 0
      BY <2>25
    <3>4. i.valc \in Word
      <4>1. n.r = SetReg(s.r, i.rb, i.valc) /\ n.r \in [Regs -> Word]
        BY <2>10, <2>25 DEF State, Machine, RegisterFile, n
      <4>2. i.rb \in Regs
        BY <2>2, <2>25
      <4>3. n.r[i.rb] = i.valc
        BY <4>1, <4>2, <1>r DEF SetReg
      <4>4. QED
        BY <4>1, <4>2, <4>3
    <3>5. ValE(s, f) = i.valc
      BY <3>3, <3>4, <1>0, WordIsWrapped DEF ValE
    <3>6. QED
      BY <2>10, <2>25, <3>1, <3>2, <3>3, <3>4, <3>5
       DEF StepsTo, State, StatOf, NextRegs, NextMem
  <2>26. CASE i.icode = 4
    <3>1. ~Reads(f) /\ Writes(f) /\ f.stat = "AOK"
      BY <2>26
    <3>2. /\ DstE(s, f) = 15 /\ DstM(f) = 15
          /\ NextPc(s, f) = i.valp /\ NextCc(s, f) = s.cc
      BY <2>26
    <3>3. Fun(f) = ALUADD /\ InA(s, f) = i.valc /\ InB(s, f) = valB
      BY <2>26 DEF valB
    <3>4. ValE(s, f) = addr
      BY <3>3 DEF ValE, addr
    <3>5. Addr(s, f) = addr
      BY <3>4, <2>26
    <3>6. ValA(s, f) = valA
      BY <2>26 DEF valA
    <3>7. QED
      BY <2>11, <2>26, <3>1, <3>2, <3>3, <3>4, <3>5, <3>6
       DEF StepsTo, State, StatOf, NextRegs, NextMem
  <2>27. CASE i.icode = 5
    <3>1. Reads(f) /\ ~Writes(f) /\ f.stat = "AOK"
      BY <2>27
    <3>2. /\ DstE(s, f) = 15 /\ DstM(f) = i.ra
          /\ NextPc(s, f) = i.valp /\ NextCc(s, f) = s.cc
      BY <2>27
    <3>3. Fun(f) = ALUADD /\ InA(s, f) = i.valc /\ InB(s, f) = valB
      BY <2>27 DEF valB
    <3>4. ValE(s, f) = addr
      BY <3>3 DEF ValE, addr
    <3>5. Addr(s, f) = addr
      BY <3>4, <2>27
    <3>6. ValM(s, f) = GetWord(s.m, addr)
      BY <3>1, <3>5 DEF ValM
    <3>7. QED
      BY <2>12, <2>27, <3>1, <3>2, <3>3, <3>4, <3>5, <3>6
       DEF StepsTo, State, StatOf, NextRegs, NextMem
  <2>28. CASE i.icode = 6
    <3>1. ~Reads(f) /\ ~Writes(f) /\ f.stat = "AOK"
      BY <2>28
    <3>2. DstE(s, f) = i.rb /\ DstM(f) = 15 /\ NextPc(s, f) = i.valp
      BY <2>28
    <3>3. ValA(s, f) = valA
      BY <2>28 DEF valA
    <3>4. Fun(f) = i.ifun /\ InA(s, f) = valA /\ InB(s, f) = valB
      BY <2>28, <3>3 DEF valB
    <3>5. ValE(s, f) = ComputeAlu(i.ifun, valA, valB)
      BY <3>4 DEF ValE
    <3>6. NextCc(s, f) = ComputeCc(i.ifun, valA, valB)
      BY <3>4, <2>28
    <3>7. QED
      BY <2>13, <2>28, <3>1, <3>2, <3>3, <3>4, <3>5, <3>6
       DEF StepsTo, State, StatOf, NextRegs, NextMem
  <2>29. CASE i.icode = 7
    <3>1. ~Reads(f) /\ ~Writes(f) /\ f.stat = "AOK"
      BY <2>29
    <3>2. DstE(s, f) = 15 /\ DstM(f) = 15 /\ NextCc(s, f) = s.cc
      BY <2>29
    <3>3. NextPc(s, f) = IF CondHolds(s.cc, i.ifun) THEN i.valc ELSE i.valp
      BY <2>29
    <3>4. QED
      BY <2>14, <2>29, <3>1, <3>2, <3>3
       DEF StepsTo, State, StatOf, NextRegs, NextMem
  <2>30. CASE i.icode = 8
    <3>1. ~Reads(f) /\ Writes(f) /\ f.stat = "AOK"
      BY <2>30
    <3>2. DstE(s, f) = 4 /\ DstM(f) = 15 /\ NextCc(s, f) = s.cc
      BY <2>30
    <3>3. NextPc(s, f) = i.valc
      BY <2>30
    <3>4. Fun(f) = ALUADD /\ InA(s, f) = Wrap(-WordBytes) /\ InB(s, f) = rsp
      BY <2>30
    <3>5. ValE(s, f) = down
      BY <3>4, <1>0, <2>6, StackDown DEF ValE, down
    <3>6. Addr(s, f) = down
      BY <3>5, <2>30
    <3>7. ValA(s, f) = i.valp
      BY <2>30 DEF valA
    <3>8. QED
      BY <2>15, <2>30, <3>1, <3>2, <3>3, <3>4, <3>5, <3>6, <3>7
       DEF StepsTo, State, StatOf, NextRegs, NextMem
  <2>31. CASE i.icode = 10
    <3>1. ~Reads(f) /\ Writes(f) /\ f.stat = "AOK"
      BY <2>31
    <3>2. DstE(s, f) = 4 /\ DstM(f) = 15 /\ NextCc(s, f) = s.cc
      BY <2>31
    <3>3. NextPc(s, f) = i.valp
      BY <2>31
    <3>4. Fun(f) = ALUADD /\ InA(s, f) = Wrap(-WordBytes) /\ InB(s, f) = rsp
      BY <2>31
    <3>5. ValE(s, f) = down
      BY <3>4, <1>0, <2>6, StackDown DEF ValE, down
    <3>6. Addr(s, f) = down
      BY <3>5, <2>31
    <3>7. ValA(s, f) = valA
      BY <2>31 DEF valA
    <3>8. QED
      BY <2>17, <2>31, <3>1, <3>2, <3>3, <3>4, <3>5, <3>6, <3>7
       DEF StepsTo, State, StatOf, NextRegs, NextMem
  <2>32. CASE i.icode = 9
    <3>1. Reads(f) /\ ~Writes(f) /\ f.stat = "AOK"
      BY <2>32
    <3>2. DstE(s, f) = 4 /\ NextCc(s, f) = s.cc
      BY <2>32
    <3>3. DstM(f) = 15
      BY <2>32
    <3>4. Fun(f) = ALUADD /\ InA(s, f) = WordBytes /\ InB(s, f) = rsp
      BY <2>32
    <3>5. Plus(WordBytes, rsp) = up
      <4>1. WordBytes + rsp = rsp + WordBytes
        BY <2>6, MachineAssumption DEF Word
      <4>2. QED
        BY <4>1 DEF Plus, up
    <3>6. ValE(s, f) = up
      BY <3>4, <3>5 DEF ValE
    <3>7. ValA(s, f) = rsp
      BY <2>32
    <3>8. Addr(s, f) = rsp
      BY <3>7, <2>32
    <3>9. ValM(s, f) = GetWord(s.m, rsp)
      BY <3>1, <3>8 DEF ValM
    <3>10. NextPc(s, f) = GetWord(s.m, rsp)
      BY <3>9, <2>32
    <3>11. QED
      BY <2>16, <2>32, <3>1, <3>2, <3>3, <3>4, <3>5, <3>6, <3>7, <3>8, <3>9,
         <3>10
       DEF StepsTo, State, StatOf, NextRegs, NextMem
  <2>33. CASE i.icode = 11
    <3>1. Reads(f) /\ ~Writes(f) /\ f.stat = "AOK"
      BY <2>33
    <3>2. DstE(s, f) = 4 /\ NextCc(s, f) = s.cc
      BY <2>33
    <3>3. DstM(f) = i.ra
      BY <2>33
    <3>4. Fun(f) = ALUADD /\ InA(s, f) = WordBytes /\ InB(s, f) = rsp
      BY <2>33
    <3>5. Plus(WordBytes, rsp) = up
      <4>1. WordBytes + rsp = rsp + WordBytes
        BY <2>6, MachineAssumption DEF Word
      <4>2. QED
        BY <4>1 DEF Plus, up
    <3>6. ValE(s, f) = up
      BY <3>4, <3>5 DEF ValE
    <3>7. ValA(s, f) = rsp
      BY <2>33
    <3>8. Addr(s, f) = rsp
      BY <3>7, <2>33
    <3>9. ValM(s, f) = GetWord(s.m, rsp)
      BY <3>1, <3>8 DEF ValM
    <3>10. NextPc(s, f) = i.valp
      BY <3>9, <2>33
    <3>11. QED
      BY <2>18, <2>33, <3>1, <3>2, <3>3, <3>4, <3>5, <3>6, <3>7, <3>8, <3>9,
         <3>10
       DEF StepsTo, State, StatOf, NextRegs, NextMem
  <2>34. CASE i.icode \notin 0 .. 11
    <3>1. ~Reads(f) /\ ~Writes(f) /\ f.stat = "INS"
      BY <2>34
    <3>2. QED
      BY <2>19, <2>34, <3>1 DEF StepsTo, State, StatOf
  <2>35. QED
    BY <2>22, <2>23, <2>24, <2>25, <2>26, <2>27, <2>28, <2>29, <2>30,
       <2>32, <2>31, <2>33, <2>34 DEF f, n
<1>3. QED
  BY <1>1, <1>2
-----------------------------------------------------------------------------
(* The code in memory.                                                       *)

\* A position in memory and the next one do not wrap.
LEMMA NoWrap ==
    ASSUME Modulus \in Nat, Modulus > 0, NEW m, NEW pos \in Word,
           HasByte(m, pos)
    PROVE  /\ Plus(pos, 1) = pos + 1 /\ pos + 1 \in Word
           /\ pos \in 0 .. (MemSize - 1)
<1>1. pos \in Nat /\ pos < Modulus \div 2 /\ pos < MemSize
  BY DEF HasByte, Negative, Word
<1>2. pos + 1 < Modulus
  BY <1>1
<1>3. QED
  BY <1>1, <1>2, MachineAssumption DEF Plus, Wrap, Word

\* Two memories with the same code agree on every byte of it.
LEMMA SameByte ==
    ASSUME NEW m, NEW n, SameCode(m, n), NEW a \in Nat, a < CodeEnd
    PROVE  GetByte(m, a) = GetByte(n, a) /\ HasByte(m, a) = HasByte(n, a)
BY MachineAssumption DEF SameCode, GetByte, HasByte

\* They agree on every word that lies in the code.
LEMMA SameWord ==
    ASSUME NEW m, NEW n, SameCode(m, n), NEW a \in Nat,
           a + WordBytes <= CodeEnd
    PROVE  GetWord(m, a) = GetWord(n, a)
<1>1. HasWord(m, a) = HasWord(n, a)
  BY DEF HasWord
<1>2. CASE ~HasWord(m, a)
  BY <1>1, <1>2 DEF GetWord
<1>3. CASE HasWord(m, a)
  <2>1. a + WordBytes <= MemSize
    BY <1>3 DEF HasWord
  <2>2. ASSUME NEW i \in 0 .. (WordBytes - 1) PROVE m[a + i] = n[a + i]
    <3>1. a + i \in 0 .. (MemSize - 1) /\ a + i < CodeEnd
      BY <2>1, MachineAssumption, LimitAssumption
    <3>2. QED
      BY <3>1 DEF SameCode
  <2>3. [i \in 0 .. (WordBytes - 1) |-> m[a + i]]
          = [i \in 0 .. (WordBytes - 1) |-> n[a + i]]
    BY <2>2
  <2>4. QED
    BY <1>1, <1>3, <2>3, Zenon DEF GetWord
<1>4. QED
  BY <1>2, <1>3

\* An instruction reads the same from two memories with the same code.
LEMMA FetchSame ==
    ASSUME NEW s \in Machine, Complete(s), Fetchable(s),
           NEW n, SameCode(s.m, n)
    PROVE  FetchOf(n, s.pc) = Instr(s)
<1> DEFINE pc == s.pc  m == s.m  code == HighNibble(GetByte(m, pc))
           p1 == Plus(pc, 1)
           p2 == IF Hcl!need_regids(code) THEN Plus(p1, 1) ELSE p1
<1>0. Modulus \in Nat /\ Modulus > 0 /\ pc \in Word
  BY ModulusPositive DEF Machine
<1>1. \A a : HasByte(m, a) = HasByte(n, a)
  BY DEF HasByte
<1>2. CASE ~HasByte(m, pc)
  <2>1. HighNibble(16 * INOP) = INOP
    BY DEF HighNibble, INOP
  <2>2. ~Hcl!need_regids(INOP) /\ ~Hcl!need_valC(INOP)
    BY DEF Hcl!need_regids, Hcl!need_valC, INOP, IRRMOVQ, IOPQ, IPUSHQ, IPOPQ,
           IIRMOVQ, IRMMOVQ, IMRMOVQ, Hcl!IRRMOVQ, Hcl!IOPQ, Hcl!IPUSHQ,
           Hcl!IPOPQ, Hcl!IIRMOVQ, Hcl!IRMMOVQ, Hcl!IMRMOVQ, Hcl!IJXX,
           Hcl!ICALL
  <2>3. QED
    BY <1>1, <1>2, <2>1, <2>2 DEF Instr, FetchOf
<1>3. CASE HasByte(m, pc)
  <2>1. /\ Fetched(s).ok1 /\ Fetched(s).okc
        /\ pc + Length(Fetched(s)) <= CodeEnd
    BY <1>3 DEF Complete, Fetchable
  <2>2. Fetched(s).icode = code
    BY DEF Fetched
  <2>3. /\ p1 = pc + 1 /\ p1 \in Word /\ pc \in Nat
    BY <1>0, <1>3, NoWrap
  <2>4. Length(Fetched(s)) =
          1 + (IF code \in HasRegids THEN 1 ELSE 0)
            + (IF code \in HasImmediate THEN WordBytes ELSE 0)
    BY <2>2 DEF Length
  <2> HIDE DEF code, p1
  <2>5. Hcl!need_regids(code) => code \in HasRegids
    BY DEF Hcl!need_regids, HasRegids, IRRMOVQ, IOPQ, IPUSHQ, IPOPQ, IIRMOVQ,
           IRMMOVQ, IMRMOVQ, IIADDQ, Hcl!IRRMOVQ, Hcl!IOPQ, Hcl!IPUSHQ,
           Hcl!IPOPQ, Hcl!IIRMOVQ, Hcl!IRMMOVQ, Hcl!IMRMOVQ
  <2>6. Hcl!need_valC(code) =>
          /\ code \in HasImmediate
          /\ Hcl!need_regids(code) <=> code \in HasRegids
    BY DEF Hcl!need_valC, Hcl!need_regids, HasRegids, HasImmediate, IRRMOVQ,
           IOPQ, IPUSHQ, IPOPQ, IIRMOVQ, IRMMOVQ, IMRMOVQ, IIADDQ, IJXX, ICALL,
           Hcl!IRRMOVQ, Hcl!IOPQ, Hcl!IPUSHQ, Hcl!IPOPQ, Hcl!IIRMOVQ,
           Hcl!IRMMOVQ, Hcl!IMRMOVQ, Hcl!IJXX, Hcl!ICALL
  <2>7. GetByte(n, pc) = GetByte(m, pc)
    <3>1. pc < CodeEnd
      BY <2>1, <2>3, <2>4, MachineAssumption, LimitAssumption
    <3>2. QED
      BY <3>1, <2>3, SameByte
  <2>8. Hcl!need_regids(code) => GetByte(n, p1) = GetByte(m, p1)
    <3> SUFFICES ASSUME Hcl!need_regids(code)
                 PROVE  GetByte(n, p1) = GetByte(m, p1)
      OBVIOUS
    <3>1. p1 < CodeEnd
      BY <2>1, <2>3, <2>4, <2>5, MachineAssumption, LimitAssumption
    <3>2. p1 \in Nat
      BY <2>3
    <3>3. QED
      BY <3>1, <3>2, SameByte
  <2>9. Hcl!need_valC(code) => GetWord(n, p2) = GetWord(m, p2)
    <3> SUFFICES ASSUME Hcl!need_valC(code)
                 PROVE  GetWord(n, p2) = GetWord(m, p2)
      OBVIOUS
    <3>1. CASE code \in HasRegids
      <4>1. HasByte(m, p1)
        BY <2>1, <3>1 DEF Fetched, code, p1
      <4>2. Plus(p1, 1) = p1 + 1
        BY <4>1, <1>0, <2>3, NoWrap
      <4>3. p2 = pc + 2
        BY <4>2, <2>3, <2>6, <3>1
      <4>4. p2 \in Nat /\ p2 + WordBytes <= CodeEnd
        BY <4>3, <3>1, <2>1, <2>3, <2>4, <2>6, MachineAssumption,
           LimitAssumption
      <4>5. QED
        BY <4>4, SameWord
    <3>2. CASE code \notin HasRegids
      <4>1. p2 = pc + 1
        BY <2>3, <2>6, <3>2
      <4>2. p2 \in Nat /\ p2 + WordBytes <= CodeEnd
        BY <4>1, <3>2, <2>1, <2>3, <2>4, <2>6, MachineAssumption,
           LimitAssumption
      <4>3. QED
        BY <4>2, SameWord
    <3>3. QED
      BY <3>1, <3>2
  <2>10. HasByte(m, Plus(pc, FetchProbe))
    BY <1>3 DEF Fetchable
  <2>11. QED
    BY <1>1, <1>3, <2>7, <2>8, <2>9, <2>10 DEF Instr, FetchOf, code, p1
<1>4. QED
  BY <1>2, <1>3

\* A load/use hazard and a misprediction need different instructions in the
\* execute stage, and a return behind a load waits: at most one of stall and
\* bubble holds of each register.
LEMMA SignalsExclude == ~(D_stall /\ D_bubble)
<1>1. LoadUse => E.icode \in {IMRMOVQ, IPOPQ}
  BY DEF LoadUse
<1>2. Mispredicted => E.icode = IJXX
  BY DEF Mispredicted
<1>3. IJXX \notin {IMRMOVQ, IPOPQ}
  BY DEF IJXX, IMRMOVQ, IPOPQ
<1>4. QED
  BY <1>1, <1>2, <1>3 DEF D_stall, D_bubble

\* No pipeline register, nor what is reported, has the status of a conflict.
NoPipelineError == "PIP" \notin {D.stat, E.stat, M.stat, W.stat, status}

\* A register that is not told both takes its own contents, those of the stage
\* before it, or a bubble.
LEMMA PipeHolds ==
    ASSUME NEW stall \in BOOLEAN, NEW bubble \in BOOLEAN, ~(stall /\ bubble),
           NEW current, NEW next, NEW empty
    PROVE  update_pipe(pipe_cntl(stall, bubble), current, next, empty)
             \in {current, next, empty}
BY DEF update_pipe, pipe_cntl

LEMMA StepKeeps ==
    ASSUME NoPipelineError, sim_step_pipe PROVE NoPipelineError'
<1>1. status' # "PIP"
  BY DEF NoPipelineError, sim_step_pipe, Stat
<1>2. CASE UNCHANGED <<D, E, M, W>>
  BY <1>1, <1>2 DEF NoPipelineError
<1>3. CASE ClockEdge
  <2>1. D'.stat # "PIP"
    <3>1. FetchStage.stat # "PIP"
      BY DEF FetchStage
    <3>2. BubbleD.stat # "PIP"
      BY DEF BubbleD
    <3>3. D' \in {D, FetchStage, BubbleD}
      <4>1. D_stall \in BOOLEAN /\ D_bubble \in BOOLEAN
        BY DEF D_stall, D_bubble, LoadUse, Mispredicted, ReturnPassing
      <4>2. D' = update_pipe(pipe_cntl(D_stall, D_bubble), D, FetchStage,
                             BubbleD)
        BY <1>3 DEF ClockEdge
      <4>3. QED
        BY <4>1, <4>2, SignalsExclude, PipeHolds
    <3>4. QED
      BY <3>1, <3>2, <3>3 DEF NoPipelineError
  <2>2. E'.stat # "PIP"
    <3>1. DecodeStage.stat = D.stat
      BY DEF DecodeStage
    <3>2. BubbleE.stat # "PIP"
      BY DEF BubbleE
    <3>3. E' \in {E, DecodeStage, BubbleE}
      <4>1. E_bubble \in BOOLEAN
        BY DEF E_bubble, LoadUse, Mispredicted
      <4>2. E' = update_pipe(pipe_cntl(FALSE, E_bubble), E, DecodeStage,
                             BubbleE)
        BY <1>3 DEF ClockEdge
      <4>3. QED
        BY <4>1, <4>2, PipeHolds
    <3>4. QED
      BY <3>1, <3>2, <3>3 DEF NoPipelineError
  <2>3. M'.stat # "PIP"
    <3>1. ExecuteStage.stat = E.stat
      BY DEF ExecuteStage
    <3>2. BubbleM.stat # "PIP"
      BY DEF BubbleM
    <3>3. M' \in {M, ExecuteStage, BubbleM}
      <4>1. M_bubble \in BOOLEAN
        BY DEF M_bubble
      <4>2. M' = update_pipe(pipe_cntl(FALSE, M_bubble), M, ExecuteStage,
                             BubbleM)
        BY <1>3 DEF ClockEdge
      <4>3. QED
        BY <4>1, <4>2, PipeHolds
    <3>4. QED
      BY <3>1, <3>2, <3>3 DEF NoPipelineError
  <2>4. W'.stat # "PIP"
    <3>1. MemoryStage.stat # "PIP"
      BY DEF MemoryStage, m_stat, NoPipelineError
    <3>2. BubbleW.stat # "PIP"
      BY DEF BubbleW
    <3>3. W' \in {W, MemoryStage, BubbleW}
      <4>1. W_stall \in BOOLEAN
        BY DEF W_stall
      <4>2. W' = update_pipe(pipe_cntl(W_stall, FALSE), W, MemoryStage,
                             BubbleW)
        BY <1>3 DEF ClockEdge
      <4>3. QED
        BY <4>1, <4>2, PipeHolds
    <3>4. QED
      BY <3>1, <3>2, <3>3 DEF NoPipelineError
  <2>5. QED
    BY <1>1, <2>1, <2>2, <2>3, <2>4 DEF NoPipelineError
<1>4. QED
  BY <1>2, <1>3 DEF sim_step_pipe

\* For every program no pipeline register is ever told to stall and to be
\* emptied in the same cycle (pipe_cntl), and so none holds the bubble with
\* which psim.c marks that.
THEOREM NeverConflicting == Spec => []NoConflictingControl
<1>1. Init => NoPipelineError
  BY DEF Init, Start, NoPipelineError, BubbleD, BubbleE, BubbleM, BubbleW
<1>2. NoPipelineError /\ [Next]_vars => NoPipelineError'
  <2> SUFFICES ASSUME NoPipelineError, [Next]_vars PROVE NoPipelineError'
    OBVIOUS
  <2>1. CASE sim_step_pipe
    BY <2>1, StepKeeps
  <2>2. CASE UNCHANGED vars
    BY <2>2 DEF vars, NoPipelineError
  <2>3. QED
    BY <2>1, <2>2 DEF Next, Done
<1>3. NoPipelineError => NoConflictingControl
  BY SignalsExclude DEF NoPipelineError, NoConflictingControl
<1>4. QED
  BY <1>1, <1>2, <1>3, PTL DEF Spec
-----------------------------------------------------------------------------
(* The clock edge.                                                           *)

\* A register that is not told both takes its own contents, a bubble, or what
\* the stage before it has computed.
LEMMA PipeIs ==
    ASSUME NEW stall \in BOOLEAN, NEW bubble \in BOOLEAN, ~(stall /\ bubble),
           NEW current, NEW next, NEW empty
    PROVE  update_pipe(pipe_cntl(stall, bubble), current, next, empty)
             = IF stall THEN current ELSE IF bubble THEN empty ELSE next
BY DEF update_pipe, pipe_cntl

\* An instruction that reaches write-back with a fault ends the run, so the
\* edges are those with none there.
Edge == ClockEdge /\ Stat = "AOK"

\* What the registers hold after such an edge.
LEMMA EdgeIs ==
    ASSUME Edge
    PROVE  /\ W.stat \in {"BUB", "AOK"}
           /\ D' = (IF LoadUse THEN D ELSE IF D_bubble THEN BubbleD
                    ELSE FetchStage)
           /\ E' = (IF E_bubble THEN BubbleE ELSE DecodeStage)
           /\ M' = (IF m_stat \in Faults THEN BubbleM ELSE ExecuteStage)
           /\ W' = MemoryStage
<1>1. W.stat \in {"BUB", "AOK"} /\ W.stat \notin Faults
  BY DEF Edge, Stat, Faults
<1>2. /\ D_stall \in BOOLEAN /\ D_bubble \in BOOLEAN /\ E_bubble \in BOOLEAN
      /\ M_bubble \in BOOLEAN /\ W_stall \in BOOLEAN /\ LoadUse \in BOOLEAN
  BY DEF D_stall, D_bubble, E_bubble, M_bubble, W_stall, LoadUse, Mispredicted,
         ReturnPassing
<1>3. D' = (IF LoadUse THEN D ELSE IF D_bubble THEN BubbleD ELSE FetchStage)
  <2>1. D' = update_pipe(pipe_cntl(D_stall, D_bubble), D, FetchStage, BubbleD)
    BY DEF Edge, ClockEdge
  <2>2. QED
    BY <2>1, <1>2, SignalsExclude, PipeIs DEF D_stall
<1>4. E' = (IF E_bubble THEN BubbleE ELSE DecodeStage)
  <2>1. E' = update_pipe(pipe_cntl(FALSE, E_bubble), E, DecodeStage, BubbleE)
    BY DEF Edge, ClockEdge
  <2>2. QED
    BY <2>1, <1>2 DEF update_pipe, pipe_cntl
<1>5. M' = (IF m_stat \in Faults THEN BubbleM ELSE ExecuteStage)
  <2>1. M' = update_pipe(pipe_cntl(FALSE, M_bubble), M, ExecuteStage, BubbleM)
    BY DEF Edge, ClockEdge
  <2>2. M_bubble <=> m_stat \in Faults
    BY <1>1 DEF M_bubble
  <2>3. QED
    BY <2>1, <2>2, <1>2 DEF update_pipe, pipe_cntl
<1>6. W' = MemoryStage
  <2>1. W' = update_pipe(pipe_cntl(W_stall, FALSE), W, MemoryStage, BubbleW)
    BY DEF Edge, ClockEdge
  <2>2. W_stall = FALSE
    BY <1>1 DEF W_stall
  <2>3. QED
    BY <2>1, <2>2 DEF update_pipe, pipe_cntl
<1>7. QED
  BY <1>1, <1>3, <1>4, <1>5, <1>6

\* What a stage hands on from an empty register is empty.
LEMMA EmptyStages ==
    ASSUME Bubbles
    PROVE  /\ ~Empty(FetchStage)
           /\ Empty(DecodeStage) => Empty(D)
           /\ Empty(D) => /\ Empty(DecodeStage) /\ DecodeStage.icode = INOP
                          /\ DecodeStage.dstE = RNONE
                          /\ DecodeStage.dstM = RNONE
           /\ Empty(ExecuteStage) => Empty(E)
           /\ Empty(E) => /\ Empty(ExecuteStage) /\ ExecuteStage.icode = INOP
                          /\ ExecuteStage.dstE = RNONE
                          /\ ExecuteStage.dstM = RNONE
           /\ Empty(MemoryStage) => Empty(M)
           /\ Empty(M) => /\ Empty(MemoryStage) /\ MemoryStage.icode = INOP
                          /\ MemoryStage.dstE = RNONE
                          /\ MemoryStage.dstM = RNONE
                          /\ m_stat = "BUB"
<1>1. ~Empty(FetchStage)
  BY DEF FetchStage, Empty
<1>2. Empty(DecodeStage) <=> Empty(D)
  BY DEF DecodeStage, Empty
<1>3. ASSUME Empty(D)
      PROVE  /\ DecodeStage.icode = INOP /\ DecodeStage.dstE = RNONE
             /\ DecodeStage.dstM = RNONE
  <2>1. D.icode = 1
    BY <1>3 DEF Bubbles, INOP
  <2>2. Hcl!dstE(D.icode, D.rB) = 15 /\ Hcl!dstM(D.icode, D.rA) = 15
    BY <2>1, Tables
  <2>3. QED
    BY <2>1, <2>2 DEF DecodeStage, RNONE, INOP
<1>4. Empty(ExecuteStage) <=> Empty(E)
  BY DEF ExecuteStage, Empty
<1>5. ASSUME Empty(E)
      PROVE  /\ ExecuteStage.icode = INOP /\ ExecuteStage.dstE = RNONE
             /\ ExecuteStage.dstM = RNONE
  BY <1>5 DEF Bubbles, ExecuteStage, e_dstE
<1>6. Empty(MemoryStage) => Empty(M)
  BY DEF MemoryStage, m_stat, Empty
<1>7. ASSUME Empty(M)
      PROVE  /\ Empty(MemoryStage) /\ MemoryStage.icode = INOP
             /\ MemoryStage.dstE = RNONE /\ MemoryStage.dstM = RNONE
             /\ m_stat = "BUB"
  <2>1. M.icode = 1 /\ M.dstE = RNONE /\ M.dstM = RNONE
    BY <1>7 DEF Bubbles, INOP
  <2>2. ~m_read /\ ~m_write
    BY <2>1, Tables DEF m_read, m_write
  <2>3. m_stat = "BUB"
    BY <2>2, <1>7 DEF m_stat, dmem_error, Empty
  <2>4. QED
    BY <2>1, <2>3 DEF MemoryStage, Empty, INOP
<1>8. QED
  BY <1>1, <1>2, <1>3, <1>4, <1>5, <1>6, <1>7

\* A register is emptied for a reason, and the reason moves on with it.
LEMMA BubblesKept ==
    ASSUME Bubbles, Edge PROVE Bubbles'
<1> USE EdgeIs, EmptyStages
<1>0. Empty(BubbleD) /\ Empty(BubbleE) /\ Empty(BubbleM)
  BY DEF Empty, BubbleD, BubbleE, BubbleM
<1>1. LoadUse => E.icode \in {5, 11}
  BY DEF LoadUse, IMRMOVQ, IPOPQ
<1>2. Mispredicted => E.icode = 7
  BY DEF Mispredicted, IJXX
<1>3. Empty(D') => D'.icode = INOP /\ D'.rA = RNONE /\ D'.rB = RNONE
  BY DEF Bubbles, BubbleD
<1>4. Empty(E') => E'.icode = INOP /\ E'.dstE = RNONE /\ E'.dstM = RNONE
  BY DEF Bubbles, BubbleE
<1>5. Empty(M') => M'.icode = INOP /\ M'.dstE = RNONE /\ M'.dstM = RNONE
  BY DEF Bubbles, BubbleM
<1>6. Empty(W') => W'.icode = INOP /\ W'.dstE = RNONE /\ W'.dstM = RNONE
  BY DEF Bubbles
<1>7. E'.icode = IRET => Empty(D')
  <2> SUFFICES ASSUME E'.icode = IRET PROVE Empty(D')
    OBVIOUS
  <2>1. ~E_bubble /\ D.icode = IRET
    BY DEF BubbleE, INOP, IRET, DecodeStage
  <2>2. ~LoadUse /\ D_bubble
    BY <2>1 DEF E_bubble, D_bubble, ReturnPassing
  <2>3. QED
    BY <2>2, <1>0
<1>8. M'.icode = IRET \/ (M'.icode = IJXX /\ ~M'.Cnd) => Empty(D') /\ Empty(E')
  <2> SUFFICES ASSUME M'.icode = IRET \/ (M'.icode = IJXX /\ ~M'.Cnd)
               PROVE  Empty(D') /\ Empty(E')
    OBVIOUS
  <2>1. M'.icode # INOP
    BY DEF IRET, IJXX, INOP
  <2>2. M' = ExecuteStage
    BY <2>1 DEF BubbleM
  <2>3. CASE E.icode = IRET
    <3>1. Empty(D)
      BY <2>3 DEF Bubbles
    <3>2. ~LoadUse /\ ~Mispredicted /\ ReturnPassing
      BY <2>3, <1>1, <1>2 DEF ReturnPassing, IRET
    <3>3. QED
      BY <3>1, <3>2, <1>0 DEF D_bubble, E_bubble
  <2>4. CASE E.icode = IJXX /\ ~e_Cnd
    <3>1. Mispredicted /\ ~LoadUse
      BY <2>4, <1>1 DEF Mispredicted, IJXX
    <3>2. QED
      BY <3>1, <1>0 DEF D_bubble, E_bubble
  <2>5. QED
    BY <2>2, <2>3, <2>4 DEF ExecuteStage
<1>9. W'.icode = IRET => Empty(D') /\ Empty(E') /\ Empty(M')
  <2> SUFFICES ASSUME M.icode = IRET PROVE Empty(D') /\ Empty(E') /\ Empty(M')
    BY DEF MemoryStage
  <2>1. Empty(D) /\ Empty(E) /\ E.icode = 1
    BY DEF Bubbles, INOP
  <2>2. ~LoadUse /\ ~Mispredicted /\ ReturnPassing
    BY <2>1, <1>1, <1>2 DEF ReturnPassing
  <2>3. QED
    BY <2>1, <2>2, <1>0 DEF D_bubble, E_bubble
<1>10. QED
  BY <1>3, <1>4, <1>5, <1>6, <1>7, <1>8, <1>9 DEF Bubbles, Empty

\* No gap is left behind that those reasons do not account for.
LEMMA RetiringKept ==
    ASSUME Bubbles, Edge, Retiring, idle \in Nat, starting_up \in BOOLEAN,
           idle' = (IF W.stat = "BUB" /\ ~starting_up THEN idle + 1 ELSE 0),
           starting_up' = (starting_up /\ W.stat = "BUB")
    PROVE  Retiring'
<1> SUFFICES ASSUME W'.stat \notin Faults
             PROVE  /\ Empty(W') => idle' <= 2
                    /\ Empty(W') /\ Empty(M') => idle' <= 1
                    /\ Empty(W') /\ Empty(M') /\ Empty(E') => idle' = 0
                    /\ Empty(W') /\ Empty(M') /\ Empty(E') /\ Empty(D') =>
                         starting_up'
                    /\ Empty(D') /\ ~Empty(E') => E'.icode = IRET
                    /\ Empty(D') /\ Empty(E') /\ ~Empty(M') =>
                         M'.icode = IRET \/ (M'.icode = IJXX /\ ~M'.Cnd)
                    /\ Empty(D') /\ Empty(E') /\ Empty(M') /\ ~Empty(W') =>
                         W'.icode = IRET
  BY DEF Retiring, Empty
<1> USE EdgeIs, EmptyStages
<1>0. Empty(BubbleD) /\ Empty(BubbleE) /\ Empty(BubbleM)
  BY DEF Empty, BubbleD, BubbleE, BubbleM
<1>1. LoadUse => E.icode \in {5, 11}
  BY DEF LoadUse, IMRMOVQ, IPOPQ
<1>2. Mispredicted => E.icode = 7 /\ ~e_Cnd
  BY DEF Mispredicted, IJXX
<1>3. m_stat \notin Faults /\ M' = ExecuteStage
  BY DEF MemoryStage
<1>4. (Empty(M') <=> Empty(E)) /\ (Empty(W') <=> Empty(M))
  BY <1>3
<1>5. Empty(E) => ~LoadUse /\ ~Mispredicted
  BY <1>1, <1>2 DEF Bubbles, INOP
<1>6. Empty(E') <=> E_bubble \/ Empty(D)
  BY <1>0
<1>7. (Empty(W) <=> W.stat = "BUB") /\ W.stat \notin Faults
  BY DEF Empty, Faults
<1>8. /\ Empty(W) => idle <= 2
      /\ Empty(W) /\ Empty(M) => idle <= 1
      /\ Empty(W) /\ Empty(M) /\ Empty(E) => idle = 0
      /\ Empty(W) /\ Empty(M) /\ Empty(E) /\ Empty(D) => starting_up
      /\ Empty(D) /\ ~Empty(E) => E.icode = IRET
      /\ Empty(D) /\ Empty(E) /\ ~Empty(M) =>
           M.icode = IRET \/ (M.icode = IJXX /\ ~M.Cnd)
  BY <1>7 DEF Retiring
<1>9. Empty(W') => idle' <= 2
  BY <1>4, <1>7, <1>8
<1>10. Empty(W') /\ Empty(M') => idle' <= 1
  BY <1>4, <1>7, <1>8
<1>11. Empty(E) /\ Empty(E') => Empty(D)
  BY <1>5, <1>6 DEF E_bubble
<1>12. Empty(W') /\ Empty(M') /\ Empty(E') => idle' = 0
  BY <1>4, <1>7, <1>8, <1>11
<1>13. ASSUME Empty(D'), ~LoadUse PROVE D_bubble
  BY <1>13
<1>14. ~(Empty(W') /\ Empty(M') /\ Empty(E') /\ Empty(D'))
  <2> SUFFICES ASSUME Empty(M), Empty(E), Empty(D), Empty(D') PROVE FALSE
    BY <1>4, <1>11
  <2>1. D.icode = INOP /\ E.icode = INOP /\ M.icode = INOP
    BY DEF Bubbles
  <2>2. ~ReturnPassing
    BY <2>1 DEF ReturnPassing, INOP, IRET
  <2>3. QED
    BY <2>2, <1>5, <1>13 DEF D_bubble
<1>15. Empty(D') /\ ~Empty(E') => E'.icode = IRET
  <2> SUFFICES ASSUME Empty(D'), ~Empty(E') PROVE E'.icode = IRET
    OBVIOUS
  <2>1. ~LoadUse /\ ~Mispredicted /\ ~Empty(D)
    BY <1>6 DEF E_bubble
  <2>2. ReturnPassing
    BY <2>1, <1>13 DEF D_bubble
  <2>3. D.icode = IRET
    BY <2>1, <2>2 DEF ReturnPassing, Bubbles
  <2>4. QED
    BY <2>1, <2>3 DEF E_bubble, DecodeStage
<1>16. Empty(D') /\ Empty(E') /\ ~Empty(M') =>
         M'.icode = IRET \/ (M'.icode = IJXX /\ ~M'.Cnd)
  <2> SUFFICES ASSUME Empty(D'), Empty(E'), ~Empty(E)
               PROVE  M'.icode = IRET \/ (M'.icode = IJXX /\ ~M'.Cnd)
    BY <1>4
  <2>1. M'.icode = E.icode /\ M'.Cnd = e_Cnd
    BY <1>3 DEF ExecuteStage
  <2>2. CASE Mispredicted
    BY <2>1, <2>2 DEF Mispredicted
  <2>3. CASE ~Mispredicted
    <3>1. Empty(D)
      BY <2>3, <1>6 DEF E_bubble
    <3>2. QED
      BY <3>1, <2>1, <1>8
  <2>4. QED
    BY <2>2, <2>3
<1>17. Empty(D') /\ Empty(E') /\ Empty(M') /\ ~Empty(W') => W'.icode = IRET
  <2> SUFFICES ASSUME Empty(D'), Empty(E'), Empty(E), ~Empty(M)
               PROVE  M.icode = IRET
    BY <1>4 DEF MemoryStage
  <2>1. Empty(D)
    BY <1>11
  <2>2. ReturnPassing
    BY <1>5, <1>13 DEF D_bubble
  <2>3. D.icode # IRET /\ E.icode # IRET
    BY <2>1 DEF Bubbles, INOP, IRET
  <2>4. QED
    BY <2>2, <2>3 DEF ReturnPassing
<1>18. QED
  BY <1>9, <1>10, <1>12, <1>14, <1>15, <1>16, <1>17
-----------------------------------------------------------------------------
(* What a stage computes for an instruction that is where it should be.      *)

\* A state of the program that is as RunsIn asks, and its step.
Good(s) ==
    /\ s \in Machine
    /\ s.st = "AOK" => /\ Complete(s) /\ Fetchable(s)
                       /\ StepsTo(s, Instr(s), IsaStep(s))

\* The registers an instruction names, and the statuses it can be fetched with.
LEMMA Named ==
    ASSUME NEW s, Good(s), s.st = "AOK", NEW f, f = Instr(s)
    PROVE  /\ f.icode \in {2, 4, 5, 6, 10, 11} => f.rA \in Regs
           /\ f.icode \in {2, 3, 4, 5, 6} => f.rB \in Regs
           /\ f.stat \in {"ADR", "INS", "HLT", "AOK"}
           /\ f.icode \in 2 .. 11 => f.stat = "AOK"
           /\ f.pc = s.pc
           /\ 4 \in Regs /\ 15 \notin Regs
<1>1. Complete(s) /\ Fetchable(s)
  BY DEF Good
<1>2. 4 \in Regs /\ 15 \notin Regs
  BY MachineAssumption DEF RRSP
<1>3. CASE ~HasByte(s.m, s.pc)
  BY <1>2, <1>3, FetchOutside DEF INOP
<1>4. CASE HasByte(s.m, s.pc)
  <2> DEFINE i == Fetched(s)
  <2>1. /\ f.icode = i.icode /\ f.pc = s.pc
        /\ f.stat = (IF f.icode \notin 0 .. 11 THEN "INS"
                     ELSE IF f.icode = IHALT THEN "HLT" ELSE "AOK")
        /\ f.icode \in {2, 3, 4, 5, 6, 10, 11} => f.rA = i.ra /\ f.rB = i.rb
    BY <1>1, <1>4, FetchInside
  <2>2. /\ i.icode \in {2, 4, 5, 6, 10, 11} => i.ra \in Regs
        /\ i.icode \in {2, 3, 4, 5, 6, 12} => i.rb \in Regs
    BY <1>1, <1>4 DEF Complete, NeedsRa, NeedsRb, IRRMOVQ, IRMMOVQ, IMRMOVQ,
                      IOPQ, IPUSHQ, IPOPQ, IIRMOVQ, IIADDQ
  <2> HIDE DEF i
  <2>3. QED
    BY <1>2, <2>1, <2>2 DEF IHALT
<1>5. QED
  BY <1>3, <1>4

\* The execute stage.
LEMMA ExecuteIs ==
    ASSUME NEW s, Good(s), s.st = "AOK", NEW f, f = Instr(s), AtE(E, s)
    PROVE  /\ e_fun = Fun(f) /\ e_aluA = InA(s, f) /\ e_aluB = InB(s, f)
           /\ e_valE = ValE(s, f)
<1>1. /\ E.icode = f.icode /\ E.ifun = f.ifun /\ E.valC = f.valC
      /\ (f.icode \in {ICALL, IJXX} \/ SrcA(f) # RNONE) => E.valA = ValA(s, f)
      /\ SrcB(f) # RNONE => E.valB = ValB(s, f)
  BY DEF AtE
<1>2. /\ f.icode \in {2, 6} => SrcA(f) # RNONE
      /\ f.icode \in {4, 5, 6, 8, 9, 10, 11} => SrcB(f) # RNONE
  BY Named, Parts DEF RNONE
<1>3. e_fun = Fun(f)
  BY <1>1 DEF e_fun, Fun
<1>4. e_aluA = InA(s, f)
  BY <1>1, <1>2, Tables DEF e_aluA, InA
<1>5. e_aluB = InB(s, f)
  BY <1>1, <1>2, Tables DEF e_aluB, InB
<1>6. QED
  BY <1>3, <1>4, <1>5 DEF e_valE, ValE

\* The memory stage.
LEMMA MemoryIs ==
    ASSUME NEW s, Good(s), s.st = "AOK", NEW f, f = Instr(s), AtM(M, s),
           mem = s.m
    PROVE  /\ m_valM = ValM(s, f) /\ m_stat = StatOf(s, f)
           /\ (m_write <=> Writes(f))
           /\ Writes(f) => m_addr = Addr(s, f) /\ M.valA = ValA(s, f)
<1>1. /\ M.icode = f.icode /\ M.valE = ValE(s, f) /\ M.stat = f.stat
      /\ (f.icode \in {ICALL, IJXX} \/ SrcA(f) # RNONE) => M.valA = ValA(s, f)
  BY DEF AtM
<1>2. f.icode \in {4, 9, 10, 11} => SrcA(f) # RNONE
  BY Named, Parts DEF RNONE
<1>3. f.icode \in {4, 8, 9, 10, 11} => M.valA = ValA(s, f)
  BY <1>1, <1>2 DEF ICALL
<1>4. (m_write <=> Writes(f)) /\ (m_read <=> Reads(f))
  BY <1>1 DEF m_write, Writes, m_read, Reads
<1>5. Writes(f) \/ Reads(f) => m_addr = Addr(s, f)
  <2>1. /\ Writes(f) <=> f.icode \in {4, 8, 10}
        /\ Reads(f) <=> f.icode \in {5, 9, 11}
    BY Parts
  <2>2. m_addr = (IF f.icode \in {4, 5, 8, 10} THEN M.valE
                  ELSE IF f.icode \in {9, 11} THEN M.valA ELSE 0)
    BY <1>1, Tables DEF m_addr
  <2>3. Addr(s, f) = (IF f.icode \in {4, 5, 8, 10} THEN ValE(s, f)
                      ELSE IF f.icode \in {9, 11} THEN ValA(s, f) ELSE 0)
    BY Parts
  <2>4. QED
    BY <1>1, <1>3, <2>1, <2>2, <2>3
<1>6. m_valM = ValM(s, f)
  BY <1>4, <1>5 DEF m_valM, ValM
<1>7. m_stat = StatOf(s, f)
  BY <1>1, <1>4, <1>5 DEF m_stat, dmem_error, StatOf
<1>8. Writes(f) => M.valA = ValA(s, f)
  BY <1>3, Parts
<1>9. QED
  BY <1>4, <1>5, <1>6, <1>7, <1>8
-----------------------------------------------------------------------------
(* One cycle, while nothing that is told by the limit of the run is held     *)
(* back and no store has changed the code.                                   *)
Cycle ==
    /\ Edge /\ Bubbles /\ InStep /\ InOrder
    /\ icount \in Nat /\ icount + 4 < InstrLimit
    /\ ~selfmod'
    /\ isa' = (IF W.stat = "BUB" THEN isa ELSE IsaStep(isa))
    /\ Good(isa) /\ Good(S1) /\ Good(S2) /\ Good(S3) /\ Good(S4)

\* What leaves write-back.
LEMMA RetiredIs ==
    ASSUME Cycle
    PROVE  /\ isa' = S1 /\ S1.st = "AOK" /\ reg' = S1.r
           /\ \A src \in Regs :
                S1.r[src] = (IF src = W.dstM THEN W.valM
                             ELSE IF src = W.dstE THEN W.valE ELSE reg[src])
<1>1. isa.st = "AOK" /\ reg = isa.r /\ (~Empty(W) => AtW(W, isa))
  BY DEF Cycle, InStep
<1>2. isa' = S1
  BY <1>1 DEF Cycle, S1, After
<1>3. W.stat \in {"BUB", "AOK"}
  BY EdgeIs DEF Cycle
<1>4. reg' = SetReg(SetReg(reg, W.dstE, W.valE), W.dstM, W.valM)
  BY DEF Cycle, Edge, ClockEdge
<1>5. reg \in [Regs -> Word] /\ 15 \notin Regs
  BY <1>1, MachineAssumption DEF Cycle, Good, Machine, RegisterFile
<1>6. CASE Empty(W)
  <2>1. S1 = isa
    BY <1>6 DEF S1, After, Empty
  <2>2. W.dstE = 15 /\ W.dstM = 15
    BY <1>6 DEF Cycle, Bubbles, RNONE
  <2>3. QED
    BY <1>1, <1>2, <1>4, <1>5, <2>1, <2>2 DEF SetReg
<1>7. CASE ~Empty(W)
  <2> DEFINE f == Instr(isa)
  <2>1. S1 = IsaStep(isa)
    BY <1>1, <1>7 DEF S1, After, Empty
  <2>2. /\ W.valE = ValE(isa, f) /\ W.valM = ValM(isa, f)
        /\ W.dstE = DstE(isa, f) /\ W.dstM = DstM(f)
        /\ W.stat = StatOf(isa, f)
    BY <1>1, <1>7 DEF AtW
  <2>3. StepsTo(isa, f, S1)
    BY <1>1, <2>1 DEF Cycle, Good
  <2> HIDE DEF f
  <2>4. S1.st = "AOK"
    BY <1>3, <1>7, <2>2, <2>3 DEF StepsTo, Empty
  <2>5. S1.r = NextRegs(isa, f)
    BY <2>3, <2>4 DEF StepsTo
  <2>6. S1.r = SetReg(SetReg(reg, W.dstE, W.valE), W.dstM, W.valM)
    BY <1>1, <2>2, <2>5 DEF NextRegs
  <2>7. QED
    BY <1>2, <1>4, <1>5, <2>4, <2>6 DEF SetReg
<1>8. QED
  BY <1>6, <1>7

\* What enters it.
LEMMA StoredIs ==
    ASSUME Cycle
    PROVE  /\ S1' = S2 /\ mem' = S2.m
           /\ (Empty(M) => S2 = S1)
           /\ ~Empty(W') => AtW(W', S1)
           /\ (S2.st = "AOK" <=> m_stat \notin Faults)
           /\ S2.st = "AOK" =>
                \A src \in Regs :
                  S2.r[src] = (IF src = M.dstM THEN m_valM
                               ELSE IF src = M.dstE THEN M.valE
                               ELSE S1.r[src])
<1>1. isa' = S1 /\ S1.st = "AOK" /\ mem = S1.m /\ (~Empty(M) => AtM(M, S1))
  BY RetiredIs DEF Cycle, InStep
<1>2. W' = MemoryStage /\ (Empty(W') <=> Empty(M))
  BY EdgeIs, EmptyStages DEF Cycle
<1>3. S1' = S2
  BY <1>1, <1>2 DEF S1, S2, After, Empty
<1>4. mem' = IF m_write THEN SetWord(mem, m_addr, M.valA) ELSE mem
  <2>1. update_mem
    BY LimitAssumption DEF Cycle, update_mem
  <2>2. QED
    BY <2>1 DEF Cycle, Edge, ClockEdge
<1>5. S1.r \in [Regs -> Word] /\ 15 \notin Regs
  BY MachineAssumption DEF Cycle, Good, Machine, RegisterFile
<1>6. CASE Empty(M)
  <2>1. S2 = S1
    BY <1>6 DEF S2, After, Empty
  <2>2. M.icode = 1 /\ M.dstE = 15 /\ M.dstM = 15
    BY <1>6 DEF Cycle, Bubbles, RNONE, INOP
  <2>3. ~m_write
    BY <2>2, Tables DEF m_write
  <2>4. m_stat = "BUB"
    BY <1>6, EmptyStages DEF Cycle
  <2>5. QED
    BY <1>1, <1>2, <1>3, <1>4, <1>5, <1>6, <2>1, <2>2, <2>3, <2>4 DEF Faults
<1>7. CASE ~Empty(M)
  <2> DEFINE f == Instr(S1)
  <2>1. S2 = IsaStep(S1)
    BY <1>1, <1>7 DEF S2, After, Empty
  <2>2. Good(S1) /\ StepsTo(S1, f, S2) /\ AtM(M, S1)
    BY <1>1, <1>7, <2>1 DEF Cycle, Good
  <2>3. /\ m_valM = ValM(S1, f) /\ m_stat = StatOf(S1, f)
        /\ (m_write <=> Writes(f))
        /\ Writes(f) => m_addr = Addr(S1, f) /\ M.valA = ValA(S1, f)
    BY <1>1, <2>2, MemoryIs
  <2>4. /\ f.stat \in {"ADR", "INS", "HLT", "AOK"} /\ f.pc = S1.pc
        /\ f.icode \in 2 .. 11 => f.stat = "AOK"
    BY <1>1, <2>2, Named
  <2> HIDE DEF f
  <2>5. S2.st = StatOf(S1, f)
    BY <2>2 DEF StepsTo
  <2>6. StatOf(S1, f) = "AOK" <=> m_stat \notin Faults
    BY <2>3, <2>4 DEF StatOf, Faults
  <2>7. Writes(f) => f.stat = "AOK"
    BY <2>4, Parts
  <2>8. mem' = S2.m
    <3>1. CASE S2.st = "AOK"
      <4>1. S2.m = NextMem(S1, f)
        BY <2>2, <3>1 DEF StepsTo
      <4>2. QED
        BY <4>1, <1>1, <1>4, <2>3 DEF NextMem
    <3>2. CASE S2.st # "AOK"
      <4>1. S2.m = S1.m
        BY <2>2, <3>2 DEF StepsTo
      <4>2. Writes(f) => ~HasWord(S1.m, Addr(S1, f))
        BY <2>5, <2>7, <3>2 DEF StatOf
      <4>3. m_write => SetWord(mem, m_addr, M.valA) = mem
        BY <1>1, <2>3, <4>2 DEF SetWord
      <4>4. QED
        BY <1>1, <1>4, <4>1, <4>3
    <3>3. QED
      BY <3>1, <3>2
  <2>9. AtW(W', S1)
    <3>1. /\ M.icode = f.icode /\ M.valE = ValE(S1, f)
          /\ M.dstE = DstE(S1, f) /\ M.dstM = DstM(f) /\ M.pc = f.pc
      BY <2>2 DEF AtM, f
    <3>2. QED
      BY <1>2, <2>3, <3>1 DEF AtW, MemoryStage, f
  <2>10. ASSUME S2.st = "AOK", NEW src \in Regs
         PROVE  S2.r[src] = (IF src = M.dstM THEN m_valM
                             ELSE IF src = M.dstE THEN M.valE
                             ELSE S1.r[src])
    <3>1. S2.r = NextRegs(S1, f)
      BY <2>2, <2>10 DEF StepsTo
    <3>2. M.valE = ValE(S1, f) /\ M.dstE = DstE(S1, f) /\ M.dstM = DstM(f)
      BY <2>2 DEF AtM, f
    <3>3. S2.r = SetReg(SetReg(S1.r, M.dstE, M.valE), M.dstM, m_valM)
      BY <2>3, <3>1, <3>2 DEF NextRegs
    <3>4. QED
      BY <1>5, <3>3 DEF SetReg
  <2>11. QED
    BY <1>3, <1>7, <2>5, <2>6, <2>8, <2>9, <2>10
<1>8. QED
  BY <1>6, <1>7

\* Having the same code is symmetric and transitive.
LEMMA SameCodeOrder ==
    /\ \A m, n : SameCode(m, n) => SameCode(n, m)
    /\ \A m, n, k : SameCode(m, n) /\ SameCode(n, k) => SameCode(m, k)
BY DEF SameCode

\* What enters the memory stage.
LEMMA ExecutedIs ==
    ASSUME Cycle
    PROVE  /\ S2' = (IF S2.st = "AOK" THEN S3 ELSE S2)
           /\ cc' = S2'.cc /\ cc_in' = cc'
           /\ SameCode(S2.m, mem)
           /\ (Misled(E, S2) <=> Mispredicted)
           /\ (Empty(E) => S3 = S2)
           /\ S2.st = "AOK" =>
                /\ M' = ExecuteStage
                /\ ~Empty(E) => AtE(E, S2) /\ AtM(M', S2)
                /\ S3.st = "AOK" => \A src \in Regs :
                     (E.icode \in {IMRMOVQ, IPOPQ} => src # E.dstM) =>
                       S3.r[src] = (IF src = e_dstE THEN e_valE ELSE S2.r[src])
<1>1. /\ S1' = S2 /\ mem' = S2.m /\ (S2.st = "AOK" <=> m_stat \notin Faults)
  BY StoredIs
<1>2. cc = S2.cc /\ cc_in = cc
  BY DEF Cycle, InStep
<1>3. Edge /\ Bubbles
  BY DEF Cycle
<1>4. M' = (IF m_stat \in Faults THEN BubbleM ELSE ExecuteStage)
  BY <1>3, EdgeIs
<1>5. Empty(ExecuteStage) <=> Empty(E)
  BY <1>3, EmptyStages
<1>6. Empty(E) => S3 = S2
  BY DEF S3, After, Empty
<1>7. S2' = After(M', S2)
  BY <1>1 DEF S2
<1>8. S2' = (IF S2.st = "AOK" THEN S3 ELSE S2)
  <2>1. CASE S2.st # "AOK"
    BY <2>1, <1>7 DEF After
  <2>2. CASE S2.st = "AOK"
    <3>1. Empty(M') <=> Empty(E)
      BY <2>2, <1>1, <1>4, <1>5
    <3>2. QED
      BY <2>2, <3>1, <1>7 DEF After, S3, Empty
  <2>3. QED
    BY <2>1, <2>2
<1>9. SameCode(S2.m, mem)
  <2>1. SameCode(mem, mem')
    BY DEF Cycle, Edge, ClockEdge
  <2>2. QED
    BY <1>1, <2>1, SameCodeOrder
<1>10. Misled(E, S2) <=> Mispredicted
  <2>1. Empty(E) => E.icode # IJXX
    BY <1>3 DEF Bubbles, INOP, IJXX
  <2>2. QED
    BY <1>2, <2>1 DEF Misled, Mispredicted, e_Cnd
<1>11. /\ cc_in' = (IF set_cc THEN ComputeCc(e_fun, e_aluA, e_aluB) ELSE cc)
       /\ cc' = cc_in'
  <2>1. update_cc
    BY LimitAssumption DEF Cycle, update_cc
  <2>2. QED
    BY <1>2, <2>1 DEF Cycle, Edge, ClockEdge
<1>12. set_cc <=> E.icode = 6 /\ m_stat \notin Faults
  <2>1. W.stat \notin Faults
    BY <1>3, EdgeIs DEF Faults
  <2>2. QED
    BY <2>1, Tables DEF set_cc
<1>13. CASE S2.st # "AOK"
  BY <1>1, <1>2, <1>6, <1>8, <1>9, <1>10, <1>11, <1>12, <1>13
<1>14. CASE S2.st = "AOK" /\ Empty(E)
  <2>1. E.icode = 1 /\ E.dstE = 15 /\ E.dstM = 15
    BY <1>3, <1>14 DEF Bubbles, RNONE, INOP
  <2>2. ~set_cc
    BY <2>1, <1>12
  <2>3. M' = ExecuteStage
    BY <1>1, <1>4, <1>14
  <2>4. e_dstE = 15
    BY <2>1 DEF e_dstE, RNONE
  <2>5. 15 \notin Regs
    BY MachineAssumption
  <2>6. \A src \in Regs :
          S3.r[src] = (IF src = e_dstE THEN e_valE ELSE S2.r[src])
    BY <2>4, <2>5, <1>6, <1>14
  <2>7. QED
    BY <1>2, <1>6, <1>8, <1>9, <1>10, <1>11, <1>14, <2>2, <2>3, <2>6
<1>15. CASE S2.st = "AOK" /\ ~Empty(E)
  <2> DEFINE f == Instr(S2)
  <2>1. S3 = IsaStep(S2)
    BY <1>15 DEF S3, After, Empty
  <2>2. Good(S2) /\ StepsTo(S2, f, S3)
    BY <1>15, <2>1 DEF Cycle, Good
  <2>3. AtE(E, S2)
    BY <1>9, <1>15 DEF Cycle, InOrder
  <2>4. /\ e_fun = Fun(f) /\ e_aluA = InA(S2, f) /\ e_aluB = InB(S2, f)
        /\ e_valE = ValE(S2, f)
    BY <1>15, <2>2, <2>3, ExecuteIs
  <2>5. /\ E.icode = f.icode /\ E.ifun = f.ifun /\ E.stat = f.stat
        /\ E.pc = f.pc /\ E.dstM = DstM(f) /\ E.dstE = Hcl!dstE(f.icode, f.rB)
        /\ (f.icode \in {ICALL, IJXX} \/ SrcA(f) # RNONE) =>
             E.valA = ValA(S2, f)
    BY <2>3 DEF AtE
  <2>6. f.icode \in 2 .. 11 => f.stat = "AOK"
    BY <1>15, <2>2, Named
  <2>7. e_Cnd = CondHolds(S2.cc, f.ifun)
    BY <1>2, <2>5 DEF e_Cnd
  <2>8. e_dstE = DstE(S2, f)
    BY <2>5, <2>7 DEF e_dstE, DstE
  <2>9. M' = ExecuteStage
    BY <1>1, <1>4, <1>15
  <2> HIDE DEF f
  <2>10. AtM(M', S2)
    BY <2>4, <2>5, <2>7, <2>8, <2>9 DEF AtM, ExecuteStage, f
  <2>11. cc' = S3.cc
    <3>1. cc' = NextCc(S2, f)
      BY <1>1, <1>2, <1>11, <1>12, <1>15, <2>4, <2>5, Parts
    <3>2. CASE S3.st = "AOK"
      BY <2>2, <3>1, <3>2 DEF StepsTo
    <3>3. CASE S3.st # "AOK"
      <4>1. S3.cc = S2.cc /\ StatOf(S2, f) # "AOK"
        BY <2>2, <3>3 DEF StepsTo
      <4>2. f.icode = 6 => StatOf(S2, f) = "AOK"
        BY <2>6, Parts DEF StatOf
      <4>3. NextCc(S2, f) = S2.cc
        BY <4>1, <4>2, Parts
      <4>4. QED
        BY <3>1, <4>1, <4>3
    <3>4. QED
      BY <3>2, <3>3
  <2>12. ASSUME S3.st = "AOK", NEW src \in Regs,
                E.icode \in {IMRMOVQ, IPOPQ} => src # E.dstM
         PROVE  S3.r[src] = (IF src = e_dstE THEN e_valE ELSE S2.r[src])
    <3>1. S3.r = SetReg(SetReg(S2.r, e_dstE, e_valE), E.dstM, ValM(S2, f))
      BY <2>2, <2>4, <2>5, <2>8, <2>12 DEF StepsTo, NextRegs
    <3>2. src # E.dstM
      <4>1. DstM(f) = (IF f.icode \in {5, 11} THEN f.rA ELSE 15)
        BY Parts
      <4>2. 15 \notin Regs
        BY MachineAssumption
      <4>3. QED
        BY <4>1, <4>2, <2>5, <2>12 DEF IMRMOVQ, IPOPQ
    <3>3. S2.r \in [Regs -> Word]
      BY DEF Cycle, Good, Machine, RegisterFile
    <3>4. QED
      BY <3>1, <3>2, <3>3 DEF SetReg
  <2>13. QED
    BY <1>6, <1>8, <1>9, <1>10, <1>11, <1>15, <2>3, <2>9, <2>10, <2>11, <2>12
<1>16. QED
  BY <1>13, <1>14, <1>15
-----------------------------------------------------------------------------
\* A source that is not loaded by the instruction in front has, on its way,
\* the value that the register will have.
LEMMA ForwardedIs ==
    ASSUME Cycle, S2.st = "AOK", S3.st = "AOK", NEW src \in Regs,
           E.icode \in {IMRMOVQ, IPOPQ} => src # E.dstM
    PROVE  Forwarded(src) = GetReg(S3.r, src)
<1>1. S3.r[src] = (IF src = e_dstE THEN e_valE ELSE S2.r[src])
  BY ExecutedIs
<1>2. S2.r[src] = (IF src = M.dstM THEN m_valM
                   ELSE IF src = M.dstE THEN M.valE ELSE S1.r[src])
  BY StoredIs
<1>3. S1.r[src] = (IF src = W.dstM THEN W.valM
                   ELSE IF src = W.dstE THEN W.valE ELSE reg[src])
  BY RetiredIs
<1>4. Forwarded(src) = (IF src = e_dstE THEN e_valE
                        ELSE IF src = M.dstM THEN m_valM
                        ELSE IF src = M.dstE THEN M.valE
                        ELSE IF src = W.dstM THEN W.valM
                        ELSE IF src = W.dstE THEN W.valE
                        ELSE reg[src])
  BY DEF Forwarded, GetReg
<1>5. QED
  BY <1>1, <1>2, <1>3, <1>4 DEF GetReg

\* What is decoded.
LEMMA DecodedIs ==
    ASSUME Cycle, S2.st = "AOK", S3.st = "AOK", SameCode(S3.m, S2.m),
           ~Mispredicted, ~Empty(D)
    PROVE  D = Instr(S3) /\ (~LoadUse => AtE(DecodeStage, S3))
<1> DEFINE f == Instr(S3)
<1>1. SameCode(S2.m, mem) /\ SameCode(S3.m, mem) /\ ~Misled(E, S2)
  BY ExecutedIs, SameCodeOrder
<1>2. D = f
  BY <1>1 DEF Cycle, InOrder, AtD
<1>3. Good(S3)
  BY DEF Cycle
<1>4. /\ SrcA(f) \in Regs \cup {15} /\ SrcB(f) \in Regs \cup {15}
  <2>1. /\ f.icode \in {2, 4, 5, 6, 10, 11} => f.rA \in Regs
        /\ f.icode \in {2, 3, 4, 5, 6} => f.rB \in Regs
        /\ 4 \in Regs
    BY <1>3, Named
  <2> HIDE DEF f
  <2>2. QED
    BY <2>1, Parts
<1>5. d_srcA = SrcA(f) /\ d_srcB = SrcB(f)
  BY <1>2 DEF d_srcA, d_srcB, SrcA, SrcB
<1>6. ASSUME ~LoadUse PROVE AtE(DecodeStage, S3)
  <2>1. E.icode \in {IMRMOVQ, IPOPQ} => E.dstM # SrcA(f) /\ E.dstM # SrcB(f)
    BY <1>5, <1>6 DEF LoadUse
  <2>2. SrcA(f) # 15 => Forwarded(SrcA(f)) = GetReg(S3.r, SrcA(f))
    BY <1>4, <2>1, ForwardedIs
  <2>3. SrcB(f) # 15 => Forwarded(SrcB(f)) = ValB(S3, f)
    BY <1>4, <2>1, ForwardedIs DEF ValB
  <2> DEFINE e == DecodeStage
  <2>4. /\ e.icode = f.icode /\ e.ifun = f.ifun /\ e.valC = f.valC
        /\ e.dstE = Hcl!dstE(f.icode, f.rB) /\ e.dstM = DstM(f)
        /\ e.stat = f.stat /\ e.pc = f.pc
    BY <1>2 DEF DecodeStage, DstM
  <2>5. e.valB = Forwarded(SrcB(f))
    BY <1>5 DEF DecodeStage
  <2>6. e.valA = (IF f.icode \in {ICALL, IJXX} THEN f.valP
                  ELSE Forwarded(SrcA(f)))
    BY <1>2, <1>5 DEF DecodeStage
  <2> HIDE DEF e, f
  <2>7. f.icode \in {ICALL, IJXX} \/ SrcA(f) # 15 => e.valA = ValA(S3, f)
    BY <2>2, <2>6 DEF ValA
  <2>8. QED
    BY <2>3, <2>4, <2>5, <2>7 DEF AtE, RNONE, e, f
<1>7. QED
  BY <1>2, <1>6

\* What is fetched.
LEMMA FetchedIs ==
    ASSUME Cycle, S2.st = "AOK", S3.st = "AOK", S4.st = "AOK",
           SameCode(S3.m, S2.m), SameCode(S4.m, S2.m),
           ~Mispredicted, ~Misled(D, S3), ~ReturnPassing
    PROVE  f_pc = S4.pc /\ FetchStage = Instr(S4)
<1>1. /\ SameCode(S2.m, mem) /\ SameCode(S3.m, mem) /\ SameCode(S4.m, mem)
      /\ ~Misled(E, S2)
  BY ExecutedIs, SameCodeOrder
<1>2. f_pc = S4.pc
  BY <1>1 DEF Cycle, InOrder, ReturnPassing
<1>3. S4 \in Machine /\ Complete(S4) /\ Fetchable(S4)
  BY DEF Cycle, Good
<1>4. FetchOf(mem, S4.pc) = Instr(S4)
  BY <1>1, <1>3, FetchSame
<1>5. FetchStage = FetchOf(mem, f_pc)
  BY DEF FetchStage, FetchOf, imem_error
<1>6. QED
  BY <1>2, <1>4, <1>5

\* The registers of the next cycle.
LEMMA NextIs ==
    ASSUME Cycle, S2.st = "AOK"
    PROVE  /\ S2' = S3 /\ S3' = After(E', S3) /\ S4' = After(D', S3')
           /\ mem' = S2.m /\ Bubbles'
           /\ D' = (IF LoadUse THEN D ELSE IF D_bubble THEN BubbleD
                    ELSE FetchStage)
           /\ E' = (IF E_bubble THEN BubbleE ELSE DecodeStage)
           /\ M' = ExecuteStage /\ W' = MemoryStage
           /\ (LoadUse => ~Mispredicted)
           /\ (Misled(E, S2) <=> Mispredicted)
           /\ Empty(BubbleD) /\ Empty(BubbleE)
           /\ ~Empty(FetchStage) /\ (Empty(DecodeStage) <=> Empty(D))
<1>1. S2' = S3 /\ M' = ExecuteStage /\ (Misled(E, S2) <=> Mispredicted)
  BY ExecutedIs
<1>2. S3' = After(E', S3) /\ S4' = After(D', S3')
  BY <1>1 DEF S3, S4
<1>3. mem' = S2.m
  BY StoredIs
<1>4. /\ D' = (IF LoadUse THEN D ELSE IF D_bubble THEN BubbleD
               ELSE FetchStage)
      /\ E' = (IF E_bubble THEN BubbleE ELSE DecodeStage)
      /\ W' = MemoryStage
  BY EdgeIs DEF Cycle
<1>5. LoadUse => ~Mispredicted
  BY DEF LoadUse, Mispredicted, IMRMOVQ, IPOPQ, IJXX
<1>6. Empty(BubbleD) /\ Empty(BubbleE)
  BY DEF Empty, BubbleD, BubbleE
<1>7. ~Empty(FetchStage) /\ (Empty(DecodeStage) <=> Empty(D))
  BY EmptyStages DEF Cycle
<1>8. Bubbles'
  BY BubblesKept DEF Cycle
<1>9. QED
  BY <1>1, <1>2, <1>3, <1>4, <1>5, <1>6, <1>7, <1>8

\* What enters the execute stage is the next instruction but two.
LEMMA ExecuteInOrder ==
    ASSUME Cycle, S2'.st = "AOK", SameCode(S2'.m, mem'), ~Empty(E')
    PROVE  AtE(E', S2')
<1>1. S2.st = "AOK" /\ S2' = S3
  BY ExecutedIs
<1>2. E' = DecodeStage /\ ~E_bubble /\ ~Empty(D) /\ mem' = S2.m
  BY <1>1, NextIs
<1>3. QED
  BY <1>1, <1>2, DecodedIs DEF E_bubble

\* What enters the decode stage is the next instruction but three, unless the
\* one before it jumps elsewhere.
LEMMA DecodeInOrder ==
    ASSUME Cycle, S3'.st = "AOK", SameCode(S2'.m, mem'), SameCode(S3'.m, mem'),
           ~Empty(D'), ~Misled(E', S2')
    PROVE  D' = Instr(S3')
<1>1. S2'.st = "AOK"
  BY DEF S3, After
<1>2. S2.st = "AOK" /\ S2' = S3 /\ S3.st = "AOK"
  BY <1>1, ExecutedIs
<1>3. mem' = S2.m /\ SameCode(S3.m, S2.m)
  BY <1>2, NextIs
<1>4. CASE LoadUse
  <2>1. D' = D /\ E' = BubbleE /\ ~Mispredicted
    BY <1>2, <1>4, NextIs DEF E_bubble
  <2>2. S3' = S3
    BY <1>2, <2>1, NextIs DEF After, BubbleE
  <2>3. ~Empty(D)
    BY <2>1 DEF Empty
  <2>4. QED
    BY <1>2, <1>3, <2>1, <2>2, <2>3, DecodedIs
<1>5. CASE ~LoadUse
  <2>1. ~D_bubble /\ D' = FetchStage
    BY <1>2, <1>5, NextIs
  <2>2. ~Mispredicted /\ ~ReturnPassing
    BY <1>5, <2>1 DEF D_bubble
  <2>3. E' = DecodeStage
    BY <1>2, <1>5, <2>2, NextIs DEF E_bubble
  <2>4. S3' = S4
    BY <1>2, <2>3, NextIs DEF After, S4, Empty
  <2>5. ~Misled(D, S3)
    BY <1>2, <2>3 DEF Misled, DecodeStage, Empty
  <2>6. FetchStage = Instr(S4)
    BY <1>2, <1>3, <2>2, <2>4, <2>5, FetchedIs
  <2>7. QED
    BY <2>1, <2>4, <2>6
<1>6. QED
  BY <1>4, <1>5

\* What is fetched next is the instruction behind those in flight.
LEMMA FetchInOrder ==
    ASSUME Cycle, S4'.st = "AOK", SameCode(S2'.m, mem'), SameCode(S3'.m, mem'),
           SameCode(S4'.m, mem'), ~Misled(E', S2'), ~Misled(D', S3'),
           IRET \notin {D'.icode, E'.icode, M'.icode}
    PROVE  f_pc' = S4'.pc
<1>1. S3'.st = "AOK" /\ S2'.st = "AOK"
  BY DEF S4, S3, After
<1>2. S2.st = "AOK" /\ S2' = S3 /\ S3.st = "AOK"
  BY <1>1, ExecutedIs
<1>3. /\ S3' = After(E', S3) /\ S4' = After(D', S3')
      /\ mem' = S2.m /\ Bubbles'
      /\ D' = (IF LoadUse THEN D ELSE IF D_bubble THEN BubbleD ELSE FetchStage)
      /\ E' = (IF E_bubble THEN BubbleE ELSE DecodeStage)
      /\ M' = ExecuteStage /\ W' = MemoryStage
      /\ (LoadUse => ~Mispredicted)
      /\ Empty(BubbleD) /\ Empty(BubbleE)
  BY <1>2, NextIs
<1>4. Bubbles
  BY DEF Cycle
<1>5. f_pc' = IF M'.icode = IJXX /\ ~M'.Cnd THEN M'.valA
              ELSE IF W'.icode = IRET THEN W'.valM ELSE F'
  BY DEF f_pc
<1>6. M'.icode = E.icode /\ M'.Cnd = e_Cnd /\ M'.valA = E.valA
  BY <1>3 DEF ExecuteStage
<1>7. W'.icode = M.icode /\ W'.valM = m_valM
  BY <1>3 DEF MemoryStage
<1>8. M'.icode = IJXX /\ ~M'.Cnd <=> Mispredicted
  BY <1>6 DEF Mispredicted
<1>9. CASE Mispredicted
  <2>1. D' = BubbleD /\ E' = BubbleE
    BY <1>3, <1>9 DEF D_bubble, E_bubble
  <2>2. S4' = S3
    BY <1>3, <2>1 DEF After, BubbleD, BubbleE
  <2>3. W'.icode # IRET
    <3>1. M.icode = IRET => E.icode = INOP
      BY <1>4 DEF Bubbles
    <3>2. QED
      BY <3>1, <1>7, <1>9 DEF Mispredicted, INOP, IJXX
  <2>4. f_pc' = E.valA
    BY <1>5, <1>6, <1>8, <1>9, <2>3
  <2> DEFINE f == Instr(S2)
  <2>5. E.icode = IJXX /\ ~Empty(E) /\ ~CondHolds(S2.cc, E.ifun)
    <3>1. Misled(E, S2)
      BY <1>2, <1>9, NextIs
    <3>2. QED
      BY <3>1 DEF Misled
  <2>6. AtE(E, S2)
    BY <1>2, <2>5, ExecutedIs
  <2>7. f.icode = 7 /\ E.valA = f.valP /\ ~CondHolds(S2.cc, f.ifun)
    BY <2>5, <2>6 DEF AtE, ValA, IJXX
  <2>8. S3 = IsaStep(S2)
    BY <1>2, <2>5 DEF S3, After, Empty
  <2>9. S3.pc = NextPc(S2, f)
    BY <1>2, <2>8 DEF Cycle, Good, StepsTo
  <2>10. NextPc(S2, f) = f.valP
    BY <2>7, Parts
  <2>11. QED
    BY <2>2, <2>4, <2>7, <2>9, <2>10
<1>10. CASE ~Mispredicted /\ M.icode = IRET
  <2>1. Empty(D) /\ Empty(E) /\ Empty(E') /\ Empty(D')
    BY <1>3, <1>4, <1>7, <1>10 DEF Bubbles
  <2>2. S4' = S3 /\ S3 = S2
    BY <1>2, <1>3, <2>1, ExecutedIs DEF After, Empty
  <2>3. f_pc' = m_valM
    BY <1>5, <1>7, <1>8, <1>10
  <2> DEFINE f == Instr(S1)
  <2>4. ~Empty(M) /\ S1.st = "AOK" /\ mem = S1.m
    <3>1. Empty(M) => M.icode = INOP
      BY <1>4 DEF Bubbles
    <3>2. QED
      BY <3>1, <1>10, RetiredIs DEF Cycle, InStep, INOP, IRET
  <2>5. AtM(M, S1)
    BY <2>4 DEF Cycle, InStep
  <2>6. Good(S1) /\ S2 = IsaStep(S1)
    BY <2>4 DEF Cycle, S2, After, Empty
  <2>7. m_valM = ValM(S1, f) /\ f.icode = 9
    BY <2>4, <2>5, <2>6, <1>10, MemoryIs DEF AtM, IRET
  <2>8. S2.pc = NextPc(S1, f)
    BY <1>2, <2>4, <2>6 DEF Good, StepsTo
  <2>9. NextPc(S1, f) = ValM(S1, f)
    BY <2>7, Parts
  <2>10. QED
    BY <2>2, <2>3, <2>7, <2>8, <2>9
<1>11. CASE ~Mispredicted /\ M.icode # IRET
  <2>1. f_pc' = F'
    BY <1>5, <1>7, <1>8, <1>11
  <2>2. ~ReturnPassing
    <3>1. E.icode # IRET
      BY <1>6
    <3>2. D.icode # IRET
      <4>1. CASE LoadUse
        BY <4>1, <1>3
      <4>2. CASE ~LoadUse
        BY <4>2, <1>3, <1>11 DEF E_bubble, DecodeStage
      <4>3. QED
        BY <4>1, <4>2
    <3>3. QED
      BY <3>1, <3>2, <1>11 DEF ReturnPassing
  <2>3. SameCode(S3.m, S2.m)
    BY <1>2, <1>3
  <2>4. F' = (IF LoadUse THEN F ELSE f_predPC(FetchStage))
    <3>1. F' = IF F_stall THEN F ELSE f_predPC(FetchStage)
      BY DEF Cycle, Edge, ClockEdge
    <3>2. QED
      BY <3>1, <2>2 DEF F_stall
  <2>5. CASE LoadUse
    <3>1. D' = D /\ E' = BubbleE
      BY <1>3, <2>5 DEF E_bubble
    <3>2. S3' = S3 /\ S4' = S4
      <4>1. S3' = S3
        BY <1>3, <3>1 DEF After, BubbleE
      <4>2. QED
        BY <1>3, <3>1, <4>1 DEF S4
    <3>3. ~Misled(D, S3) /\ S4.st = "AOK" /\ SameCode(S4.m, S2.m)
      BY <1>3, <3>1, <3>2
    <3>4. f_pc = S4.pc
      BY <1>2, <1>11, <2>2, <2>3, <3>3, FetchedIs
    <3>5. E.icode \in {5, 11}
      BY <2>5 DEF LoadUse, IMRMOVQ, IPOPQ
    <3>6. W.icode # IRET /\ ~(M.icode = IJXX /\ ~M.Cnd)
      BY <1>4, <3>5 DEF Bubbles, INOP
    <3>7. f_pc = F
      BY <3>6 DEF f_pc
    <3>8. QED
      BY <2>1, <2>4, <2>5, <3>2, <3>4, <3>7
  <2>6. CASE ~LoadUse
    <3>1. D' = FetchStage /\ E' = DecodeStage
      BY <1>3, <1>11, <2>2, <2>6 DEF D_bubble, E_bubble
    <3>2. S3' = S4
      BY <1>2, <1>3, <3>1, NextIs DEF After, S4, Empty
    <3>3. ~Misled(D, S3)
      BY <1>2, <3>1 DEF Misled, DecodeStage, Empty
    <3> DEFINE f == Instr(S4)
    <3>4. S4.st = "AOK" /\ SameCode(S4.m, S2.m) /\ FetchStage = f
      BY <1>1, <1>2, <1>3, <1>11, <2>2, <2>3, <3>2, <3>3, FetchedIs
    <3>5. ~Empty(D')
      BY <1>2, <3>1, NextIs
    <3>6. S4' = IsaStep(S4)
      BY <1>3, <3>2, <3>4, <3>5 DEF After, Empty
    <3>7. S4'.pc = NextPc(S4, f)
      BY <3>4, <3>6 DEF Cycle, Good, StepsTo
    <3>8. f.icode = 7 => CondHolds(S4.cc, f.ifun)
      BY <3>1, <3>2, <3>4, <3>5 DEF Misled, IJXX
    <3>9. f.icode # 9
      BY <3>1, <3>4 DEF IRET
    <3>10. F' = (IF f.icode \in {7, 8} THEN f.valC ELSE f.valP)
      BY <2>4, <2>6, <3>4 DEF f_predPC, IJXX, ICALL
    <3> HIDE DEF f
    <3>11. NextPc(S4, f) = (IF f.icode \in {7, 8} THEN f.valC ELSE f.valP)
      BY <3>8, <3>9, Parts
    <3>12. QED
      BY <2>1, <3>7, <3>10, <3>11
  <2>7. QED
    BY <2>5, <2>6
<1>12. QED
  BY <1>9, <1>10, <1>11

\* The chain is kept: the next cycle has the next instructions, in order.
LEMMA ChainKept ==
    ASSUME Cycle, Stat = "AOK" PROVE InStep' /\ InOrder'
<1>1. isa'.st = "AOK" /\ reg' = isa'.r
  BY RetiredIs
<1>2. mem' = S1'.m /\ (~Empty(W') => AtW(W', isa'))
  BY RetiredIs, StoredIs
<1>3. cc' = S2'.cc /\ cc_in' = cc'
  BY ExecutedIs
<1>4. ASSUME S1'.st = "AOK", ~Empty(M') PROVE AtM(M', S1')
  <2>1. S1' = S2 /\ S2.st = "AOK"
    BY <1>4, StoredIs
  <2>2. M' = ExecuteStage
    BY <2>1, ExecutedIs
  <2>3. ~Empty(E)
    BY <1>4, <2>2, EmptyStages DEF Cycle
  <2>4. QED
    BY <2>1, <2>3, ExecutedIs
<1>5. InStep'
  BY <1>1, <1>2, <1>3, <1>4 DEF InStep
<1>6. InOrder'
  <2>1. S2'.st = "AOK" /\ SameCode(S2'.m, mem') /\ ~Empty(E') => AtE(E', S2')
    BY ExecuteInOrder
  <2>2. S3'.st = "AOK" /\ SameCode(S2'.m, mem') /\ SameCode(S3'.m, mem')
         /\ ~Empty(D') /\ ~Misled(E', S2') => D' = Instr(S3')
    BY DecodeInOrder
  <2>3. S4'.st = "AOK" /\ SameCode(S2'.m, mem') /\ SameCode(S3'.m, mem')
         /\ SameCode(S4'.m, mem') /\ ~Misled(E', S2') /\ ~Misled(D', S3')
         /\ IRET \notin {D'.icode, E'.icode, M'.icode} => f_pc' = S4'.pc
    BY FetchInOrder
  <2>4. QED
    BY <2>1, <2>2, <2>3 DEF InOrder, AtD
<1>7. QED
  BY <1>5, <1>6
-----------------------------------------------------------------------------
(* The machines side by side.                                                *)

\* isa.c never turns the status of a machine that has stopped back.
LEMMA StoppedForGood ==
    ASSUME NEW s, s.st # "AOK" PROVE IsaStep(s).st # "AOK"
<1>1. \A st : Stopped(s, st).st = st
  BY DEF Stopped, State
<1>2. Executed(s, Fetched(s)).st \in {s.st, "HLT", "ADR", "INS"}
  <2> DEFINE i == Fetched(s)
  <2> HIDE DEF i
  <2>1. Executed(s, i).st \in {s.st, "HLT", "ADR", "INS"}
    BY <1>1 DEF Executed, State, IHALT, INOP, IRRMOVQ, IIRMOVQ, IRMMOVQ,
           IMRMOVQ, IOPQ, IJXX, ICALL, IRET, IPUSHQ, IPOPQ, IIADDQ
  <2>2. QED
    BY <2>1 DEF i
<1>3. QED
  BY <1>1, <1>2 DEF IsaStep, StepState, Stepped

\* Each state of the program is as its step needs it.
LEMMA GoodIs ==
    ASSUME NEW S, RunsIn(S), NEW s \in S PROVE Good(s)
<1>1. s \in Machine
  BY DEF RunsIn
<1>2. ASSUME s.st = "AOK"
      PROVE  Complete(s) /\ Fetchable(s) /\ StepsTo(s, Instr(s), IsaStep(s))
  <2>1. Complete(s) /\ Fetchable(s) /\ IsaStep(s) \in Machine
    BY <1>2 DEF RunsIn
  <2>2. QED
    BY <1>1, <1>2, <2>1, StepOf
<1>3. QED
  BY <1>1, <1>2 DEF Good

\* A program stays among its states.
LEMMA AfterIn ==
    ASSUME NEW S, RunsIn(S), NEW s \in S, NEW stage PROVE After(stage, s) \in S
BY DEF RunsIn, After

\* What holds of every program.  A register without an instruction was emptied
\* for a return, a misprediction or a load/use hazard that is still in flight,
\* so write-back is idle for three cycles at most.
Steady ==
    /\ icount \in Nat /\ idle \in Nat /\ idle <= 3 /\ starting_up \in BOOLEAN
    /\ Bubbles
    /\ Running => Retiring

\* It holds at the start,
LEMMA SteadyStarts == Init => Steady
<1> SUFFICES ASSUME Init PROVE Steady
  OBVIOUS
<1>1. /\ D = BubbleD /\ E = BubbleE /\ M = BubbleM /\ W = BubbleW
      /\ icount = 0 /\ starting_up = TRUE /\ idle = 0
  BY DEF Init, Start
<1>2. Bubbles
  BY <1>1 DEF Bubbles, BubbleD, BubbleE, BubbleM, BubbleW, IRET, IJXX, INOP
<1>3. Retiring
  <2>1. Empty(D) /\ Empty(E) /\ Empty(M) /\ Empty(W)
    BY <1>1 DEF Empty, BubbleD, BubbleE, BubbleM, BubbleW
  <2>2. QED
    BY <1>1, <2>1 DEF Retiring
<1>4. QED
  BY <1>1, <1>2, <1>3 DEF Steady

\* after a cycle,
LEMMA SteadyKept ==
    ASSUME Steady, sim_step_pipe PROVE Steady'
<1>1. /\ icount \in Nat /\ idle \in Nat /\ starting_up \in BOOLEAN
      /\ Bubbles /\ Retiring /\ Running
  BY DEF Steady, sim_step_pipe
<1>2. /\ icount' = icount + 1 /\ status' = Stat
      /\ starting_up' = (starting_up /\ W.stat = "BUB")
      /\ idle' = (IF W.stat = "BUB" /\ ~starting_up THEN idle + 1 ELSE 0)
      /\ IF Stat = "AOK" /\ icount + 1 < InstrLimit
           THEN ClockEdge
           ELSE UNCHANGED <<F, D, E, M, W, reg, mem, cc, cc_in, selfmod>>
  BY DEF sim_step_pipe
<1>3. icount' \in Nat /\ idle' \in Nat /\ idle' <= 3 /\ starting_up' \in BOOLEAN
  <2>1. W.stat = "BUB" => idle <= 2
    BY <1>1 DEF Retiring, Empty, Faults
  <2>2. QED
    BY <1>1, <1>2, <2>1
<1>4. CASE ~(Stat = "AOK" /\ icount + 1 < InstrLimit)
  <2>1. UNCHANGED <<F, D, E, M, W, reg, mem, cc, cc_in, selfmod>>
    BY <1>2, <1>4
  <2>2. Bubbles'
    BY <1>1, <2>1 DEF Bubbles, Empty
  <2>3. ~Running'
    BY <1>1, <1>2, <1>4, LimitAssumption DEF Running
  <2>4. QED
    BY <1>3, <2>2, <2>3 DEF Steady
<1>5. CASE Stat = "AOK" /\ icount + 1 < InstrLimit
  <2>1. Edge
    BY <1>2, <1>5 DEF Edge
  <2>2. Bubbles'
    BY <1>1, <2>1, BubblesKept
  <2>3. Retiring'
    BY <1>1, <1>2, <2>1, RetiringKept
  <2>4. QED
    BY <1>3, <2>2, <2>3 DEF Steady
<1>6. QED
  BY <1>4, <1>5

\* and when nothing happens.
LEMMA SteadyStutters ==
    ASSUME Steady, UNCHANGED vars PROVE Steady'
<1>1. UNCHANGED <<D, E, M, W, status, icount, starting_up, idle>>
  BY DEF vars
<1>2. Bubbles' = Bubbles
  BY <1>1 DEF Bubbles, Empty
<1>3. Retiring' = Retiring
  BY <1>1 DEF Retiring, Empty
<1>4. QED
  BY <1>1, <1>2, <1>3 DEF Steady, Running

\* Whatever the program does, once the first instruction has reached write-back
\* no more than three cycles in a row go by in which none does (pipe-std.hcl:
\* the conditions of the stalls and bubbles).
THEOREM NeverIdleForLong == Spec => [](idle <= 3)
<1>1. Init => Steady
  BY SteadyStarts
<1>2. Steady /\ [Next]_vars => Steady'
  BY SteadyKept, SteadyStutters DEF Next, Done
<1>3. Steady => idle <= 3
  BY DEF Steady
<1>4. QED
  BY <1>1, <1>2, <1>3, PTL DEF Spec

\* The inductive invariant: the instructions in flight are the next ones of the
\* program, wherever their stages have got to.
IInv(S) ==
    /\ Steady
    /\ isa \in S \/ isa.st # "AOK"
    /\ status = "AOK" /\ icount + 3 < InstrLimit /\ ~selfmod =>
         InStep /\ InOrder

\* The machines start alike,
LEMMA IInvStarts ==
    ASSUME NEW S, Init, isa \in S PROVE IInv(S)
<1>1. PICK image \in Memory : Start(image)
  BY DEF Init
<1>2. /\ F = 0
      /\ D = BubbleD /\ E = BubbleE /\ M = BubbleM /\ W = BubbleW
      /\ reg = ClearedRegisters /\ mem = image
      /\ cc = DEFAULT_CC /\ cc_in = DEFAULT_CC /\ isa = NewState(image)
  BY <1>1 DEF Start
<1>3. Empty(D) /\ Empty(E) /\ Empty(M) /\ Empty(W)
  BY <1>2 DEF Empty, BubbleD, BubbleE, BubbleM, BubbleW
<1>4. S1 = isa /\ S2 = isa /\ S3 = isa /\ S4 = isa
  BY <1>3 DEF S1, S2, S3, S4, After, Empty
<1>5. InStep
  BY <1>2, <1>3, <1>4 DEF InStep, NewState
<1>6. f_pc = S4.pc
  <2>1. M.icode # IJXX /\ W.icode # IRET
    BY <1>2 DEF BubbleM, BubbleW, INOP, IJXX, IRET
  <2>2. QED
    BY <1>2, <1>4, <2>1 DEF f_pc, NewState
<1>7. InOrder
  BY <1>3, <1>6 DEF InOrder
<1>8. QED
  BY <1>5, <1>7, SteadyStarts DEF IInv

\* a cycle keeps them in step,
LEMMA IInvKept ==
    ASSUME NEW S, RunsIn(S), IInv(S), sim_step_pipe PROVE IInv(S)'
<1>1. Steady /\ Steady' /\ icount \in Nat /\ Bubbles /\ Retiring /\ Running
  BY SteadyKept DEF IInv, Steady, sim_step_pipe
<1>2. /\ icount' = icount + 1 /\ status' = Stat
      /\ isa' = (IF W.stat = "BUB" THEN isa ELSE IsaStep(isa))
      /\ Stat = "AOK" /\ icount + 1 < InstrLimit => ClockEdge
  BY DEF sim_step_pipe
<1>3. isa' \in S \/ isa'.st # "AOK"
  <2>1. CASE isa.st # "AOK"
    BY <1>2, <2>1, StoppedForGood
  <2>2. CASE isa.st = "AOK" /\ isa \in S
    BY <1>2, <2>2 DEF RunsIn
  <2>3. QED
    BY <2>1, <2>2 DEF IInv
<1>4. ASSUME status' = "AOK", icount' + 3 < InstrLimit, ~selfmod'
      PROVE  InStep' /\ InOrder'
  <2>1. /\ icount + 1 < InstrLimit /\ icount + 3 < InstrLimit
        /\ icount + 4 < InstrLimit
    BY <1>1, <1>2, <1>4, LimitAssumption
  <2>2. Edge
    BY <1>2, <1>4, <2>1 DEF Edge
  <2>3. ~selfmod
    BY <2>2, <1>4 DEF Edge, ClockEdge
  <2>4. InStep /\ InOrder
    BY <1>1, <2>1, <2>3 DEF IInv, Running
  <2>5. isa \in S
    BY <2>4 DEF IInv, InStep
  <2>6. S1 \in S /\ S2 \in S /\ S3 \in S /\ S4 \in S
    <3>1. S1 \in S
      BY <2>5, AfterIn DEF S1
    <3>2. S2 \in S
      BY <3>1, AfterIn DEF S2
    <3>3. S3 \in S
      BY <3>2, AfterIn DEF S3
    <3>4. QED
      BY <3>1, <3>2, <3>3, AfterIn DEF S4
  <2>7. Good(isa) /\ Good(S1) /\ Good(S2) /\ Good(S3) /\ Good(S4)
    BY <2>5, <2>6, GoodIs
  <2>8. Cycle
    BY <1>1, <1>2, <1>4, <2>1, <2>2, <2>4, <2>7 DEF Cycle
  <2>9. QED
    BY <2>2, <2>8, ChainKept DEF Edge
<1>5. QED
  BY <1>1, <1>3, <1>4 DEF IInv

\* and in step they match.
LEMMA IInvMatches ==
    ASSUME NEW S, RunsIn(S), IInv(S) PROVE PipelineMatchesIsa
<1>1. idle <= 3
  BY DEF IInv, Steady
<1> SUFFICES ASSUME status = "AOK", icount + 3 < InstrLimit, ~selfmod
             PROVE  /\ Matches(W, isa) /\ Matches(M, S1)
                    /\ W.stat # "BUB" => W.stat = S1.st
                    /\ reg = isa.r /\ mem = S1.m /\ cc = S2.cc
  BY <1>1, Zenon DEF PipelineMatchesIsa, S1, S2
<1>2. InStep /\ isa \in S /\ isa.st = "AOK"
  BY DEF IInv, InStep
<1>3. Good(isa) /\ Good(S1)
  BY <1>2, GoodIs, AfterIn DEF S1
<1>4. Matches(W, isa) /\ (W.stat # "BUB" => W.stat = S1.st)
  <2> SUFFICES ASSUME ~Empty(W) PROVE Matches(W, isa) /\ W.stat = S1.st
    BY DEF Empty, Matches
  <2> DEFINE f == Instr(isa)
  <2>1. S1 = IsaStep(isa)
    BY <1>2 DEF S1, After, Empty
  <2>2. W.stat = StatOf(isa, f) /\ W.pc = f.pc
    BY <1>2 DEF InStep, AtW
  <2>3. S1.st = StatOf(isa, f)
    BY <1>2, <1>3, <2>1 DEF Good, StepsTo
  <2>4. f.pc = isa.pc
    BY <1>2, <1>3, Named
  <2>5. QED
    BY <2>1, <2>2, <2>3, <2>4 DEF Matches
<1>5. Matches(M, S1)
  <2> SUFFICES ASSUME ~Empty(M), S1.st = "AOK" PROVE Matches(M, S1)
    BY DEF Empty, Matches
  <2> DEFINE f == Instr(S1)
  <2>1. M.stat = f.stat /\ M.pc = f.pc
    BY <1>2 DEF InStep, AtM
  <2>2. IsaStep(S1).st = StatOf(S1, f)
    BY <1>3 DEF Good, StepsTo
  <2>3. f.pc = S1.pc /\ (f.icode \in 2 .. 11 => f.stat = "AOK")
    BY <1>3, Named
  <2> HIDE DEF f
  <2>4. f.stat = "AOK" \/ StatOf(S1, f) = f.stat
    BY <2>3, Parts DEF StatOf
  <2>5. QED
    BY <2>1, <2>2, <2>3, <2>4 DEF Matches
<1>6. QED
  BY <1>2, <1>4, <1>5 DEF InStep

\* For every program that runs in memory it names as it should, whatever its
\* length and the sizes of words and memory: until a store changes the code, the
\* pipeline retires the instructions of isa.c in their order, and the registers,
\* the memory and the condition codes a program sees are those isa.c computes
\* (psim.c, pipe-std.hcl against isa.c).
THEOREM PipelineIsRight ==
    ASSUME NEW S, RunsIn(S)
    PROVE  Spec /\ isa \in S => []PipelineMatchesIsa
<1>1. Init /\ isa \in S => IInv(S)
  BY IInvStarts
<1>2. IInv(S) /\ [Next]_vars => IInv(S)'
  <2> SUFFICES ASSUME IInv(S), [Next]_vars PROVE IInv(S)'
    OBVIOUS
  <2>1. CASE sim_step_pipe
    BY <2>1, IInvKept
  <2>2. CASE UNCHANGED vars
    <3>1. UNCHANGED <<F, D, E, M, W, mem, reg, cc, cc_in, status, icount, isa,
                      selfmod>>
      BY <2>2 DEF vars
    <3>2. Steady'
      BY <2>2, SteadyStutters DEF IInv
    <3>3. S1' = S1 /\ S2' = S2 /\ S3' = S3 /\ S4' = S4
      BY <3>1 DEF S1, S2, S3, S4
    <3>4. InStep' = InStep
      BY <3>1, <3>3 DEF InStep
    <3>5. f_pc' = f_pc
      BY <3>1 DEF f_pc
    <3>6. InOrder' = InOrder
      BY <3>1, <3>3, <3>5 DEF InOrder, Misled, Empty
    <3>7. QED
      BY <3>1, <3>2, <3>4, <3>6 DEF IInv
  <2>3. QED
    BY <2>1, <2>2 DEF Next, Done
<1>3. IInv(S) => PipelineMatchesIsa
  BY IInvMatches
<1>4. QED
  BY <1>1, <1>2, <1>3, PTL DEF Spec
-----------------------------------------------------------------------------
(* The sequential processor.                                                 *)

\* The tables of seq-full.hcl by the numbers of the instructions.
LEMMA FullTables ==
    ASSUME NEW c, NEW a, NEW b, NEW v
    PROVE  /\ Full!instr_valid(c) <=> c \in 0 .. 12
           /\ Full!need_regids(c) <=> c \in {2, 3, 4, 5, 6, 10, 11, 12}
           /\ Full!need_valC(c) <=> c \in {3, 4, 5, 7, 8, 12}
           /\ Full!srcA(c, a) = (IF c \in {2, 4, 6, 10} THEN a
                                 ELSE IF c \in {9, 11} THEN 4 ELSE 15)
           /\ Full!srcB(c, b) = (IF c \in {4, 5, 6, 12} THEN b
                                 ELSE IF c \in {8, 9, 10, 11} THEN 4 ELSE 15)
           /\ Full!dstE(c, b) = (IF c \in {2, 3, 6, 12} THEN b
                                 ELSE IF c \in {8, 9, 10, 11} THEN 4 ELSE 15)
           /\ Full!dstM(c, a) = (IF c \in {5, 11} THEN a ELSE 15)
           /\ Full!aluA(c, a, v) =
                (IF c \in {2, 6} THEN a
                 ELSE IF c \in {3, 4, 5, 12} THEN v
                 ELSE IF c \in {8, 10} THEN Wrap(-WordBytes)
                 ELSE IF c \in {9, 11} THEN WordBytes ELSE 0)
           /\ Full!aluB(c, b) =
                (IF c \in {4, 5, 6, 8, 9, 10, 11, 12} THEN b ELSE 0)
           /\ Full!alufun(c, v) = (IF c = 6 THEN v ELSE ALUADD)
           /\ Full!sets_cc(c) <=> c \in {6, 12}
           /\ Full!mem_addr(c, v, a) = (IF c \in {4, 5, 8, 10} THEN v
                                        ELSE IF c \in {9, 11} THEN a ELSE 0)
           /\ Full!mem_read(c) <=> c \in {5, 9, 11}
           /\ Full!mem_write(c) <=> c \in {4, 8, 10}
<1> USE DEF Full!IHALT, Full!INOP, Full!IRRMOVQ, Full!IIRMOVQ, Full!IRMMOVQ,
        Full!IMRMOVQ, Full!IOPQ, Full!IJXX, Full!ICALL, Full!IRET,
        Full!IPUSHQ, Full!IPOPQ, Full!RRSP, Full!RNONE, Full!ALUADD, ALUADD,
        Full!Wrap, Wrap, Full!Modulus, Modulus, IIADDQ
<1>1. Full!instr_valid(c) <=> c \in 0 .. 12
  BY DEF Full!instr_valid
<1>2. Full!need_regids(c) <=> c \in {2, 3, 4, 5, 6, 10, 11, 12}
  BY DEF Full!need_regids
<1>3. Full!need_valC(c) <=> c \in {3, 4, 5, 7, 8, 12}
  BY DEF Full!need_valC
<1>4. Full!srcA(c, a) = (IF c \in {2, 4, 6, 10} THEN a
                         ELSE IF c \in {9, 11} THEN 4 ELSE 15)
  BY DEF Full!srcA
<1>5. Full!srcB(c, b) = (IF c \in {4, 5, 6, 12} THEN b
                         ELSE IF c \in {8, 9, 10, 11} THEN 4 ELSE 15)
  BY DEF Full!srcB
<1>6. Full!dstE(c, b) = (IF c \in {2, 3, 6, 12} THEN b
                         ELSE IF c \in {8, 9, 10, 11} THEN 4 ELSE 15)
  BY DEF Full!dstE
<1>7. Full!dstM(c, a) = (IF c \in {5, 11} THEN a ELSE 15)
  BY DEF Full!dstM
<1>8. Full!aluA(c, a, v) =
        (IF c \in {2, 6} THEN a
         ELSE IF c \in {3, 4, 5, 12} THEN v
         ELSE IF c \in {8, 10} THEN Wrap(-WordBytes)
         ELSE IF c \in {9, 11} THEN WordBytes ELSE 0)
  BY DEF Full!aluA
<1>9. Full!aluB(c, b) = (IF c \in {4, 5, 6, 8, 9, 10, 11, 12} THEN b ELSE 0)
  BY DEF Full!aluB
<1>10. Full!alufun(c, v) = (IF c = 6 THEN v ELSE ALUADD)
  BY DEF Full!alufun
<1>11. Full!sets_cc(c) <=> c \in {6, 12}
  BY DEF Full!sets_cc
<1>12. Full!mem_addr(c, v, a) = (IF c \in {4, 5, 8, 10} THEN v
                                 ELSE IF c \in {9, 11} THEN a ELSE 0)
  BY DEF Full!mem_addr
<1>13. Full!mem_read(c) <=> c \in {5, 9, 11}
  BY DEF Full!mem_read
<1>14. Full!mem_write(c) <=> c \in {4, 8, 10}
  BY DEF Full!mem_write
<1>15. QED
  BY <1>1, <1>2, <1>3, <1>4, <1>5, <1>6, <1>7, <1>8, <1>9, <1>10, <1>11,
     <1>12, <1>13, <1>14

\* Its fetch and that of isa.c find the same.
LEMMA SeqFetchIs ==
    ASSUME NEW s, HasByte(s.m, s.pc), Complete(s),
           NEW f, f = SeqFetch(s), NEW i, i = Fetched(s)
    PROVE  /\ ~f.error /\ f.icode = i.icode /\ f.ifun = i.ifun
           /\ f.icode \in {2, 3, 4, 5, 6, 10, 11, 12} =>
                f.ra = i.ra /\ f.rb = i.rb
           /\ f.valc = i.valc /\ f.valp = i.valp
<1> DEFINE byte0 == GetByte(s.m, s.pc)  code == HighNibble(byte0)
           p1 == Plus(s.pc, 1)
<1>1. i.ok1
  BY DEF Complete
<1>2. i.icode = code /\ i.ifun = LowNibble(byte0)
  BY DEF Fetched
<1>3. ~f.error /\ f.icode = code /\ f.ifun = LowNibble(byte0)
  BY DEF SeqFetch
<1>4. Full!need_regids(code) <=> code \in {2, 3, 4, 5, 6, 10, 11, 12}
  BY FullTables
<1>5. Full!need_valC(code) <=> code \in {3, 4, 5, 7, 8, 12}
  BY FullTables
<1>6. code \in HasRegids <=> Full!need_regids(code)
  BY <1>4 DEF HasRegids, IRRMOVQ, IOPQ, IPUSHQ, IPOPQ, IIRMOVQ, IRMMOVQ,
              IMRMOVQ, IIADDQ
<1>7. code \in HasImmediate <=> Full!need_valC(code)
  BY <1>5 DEF HasImmediate, IIRMOVQ, IRMMOVQ, IMRMOVQ, IJXX, ICALL, IIADDQ
<1>8. code \in HasRegids => HasByte(s.m, p1)
  BY <1>1 DEF Fetched
<1> HIDE DEF code, p1, byte0
<1>9. ASSUME f.icode \in {2, 3, 4, 5, 6, 10, 11, 12}
      PROVE  f.ra = i.ra /\ f.rb = i.rb
  <2>1. code \in HasRegids /\ Full!need_regids(code) /\ HasByte(s.m, p1)
    BY <1>3, <1>4, <1>6, <1>8, <1>9
  <2>2. /\ i.ra = HighNibble(GetByte(s.m, p1))
        /\ i.rb = LowNibble(GetByte(s.m, p1))
    BY <2>1 DEF Fetched, code, p1, byte0
  <2>3. /\ f.ra = HighNibble(GetByte(s.m, p1))
        /\ f.rb = LowNibble(GetByte(s.m, p1))
    BY <2>1 DEF SeqFetch, code, p1, byte0
  <2>4. QED
    BY <2>2, <2>3
<1> DEFINE p2 == IF code \in HasRegids THEN Plus(p1, 1) ELSE p1
<1>10. f.valc = i.valc
  <2>1. i.valc = (IF code \in HasImmediate THEN GetWord(s.m, p2) ELSE 0)
    BY DEF Fetched, code, p1, byte0
  <2>2. f.valc = (IF code \in HasImmediate THEN GetWord(s.m, p2) ELSE 0)
    BY <1>6, <1>7 DEF SeqFetch, code, p1, byte0
  <2>3. QED
    BY <2>1, <2>2
<1>11. f.valp = i.valp
  <2>1. i.valp = (IF code \in HasImmediate THEN Plus(p2, WordBytes) ELSE p2)
    BY DEF Fetched, code, p1, byte0
  <2>2. f.valp = (IF code \in HasImmediate THEN Plus(p2, WordBytes) ELSE p2)
    BY <1>6, <1>7 DEF SeqFetch, code, p1, byte0
  <2>3. QED
    BY <2>1, <2>2
<1>12. QED
  BY <1>2, <1>3, <1>9, <1>10, <1>11

\* The cycle from its parts.
SeqA(s, f) == GetReg(s.r, Full!srcA(f.icode, f.ra))
SeqB(s, f) == GetReg(s.r, Full!srcB(f.icode, f.rb))
SeqInA(s, f) == Full!aluA(f.icode, SeqA(s, f), f.valc)
SeqInB(s, f) == Full!aluB(f.icode, SeqB(s, f))
SeqFun(f) == Full!alufun(f.icode, f.ifun)
SeqE(s, f) == ComputeAlu(SeqFun(f), SeqInA(s, f), SeqInB(s, f))
SeqDstE(s, f) ==
    IF f.icode = IRRMOVQ /\ ~CondHolds(s.cc, f.ifun) THEN RNONE
    ELSE Full!dstE(f.icode, f.rb)
SeqAddr(s, f) == Full!mem_addr(f.icode, SeqE(s, f), SeqA(s, f))
SeqData(s, f) == IF f.icode = ICALL THEN f.valp ELSE SeqA(s, f)
SeqM(s, f) ==
    IF Full!mem_read(f.icode) THEN GetWord(s.m, SeqAddr(s, f)) ELSE 0
SeqSt(s, f) ==
    SeqStat(f, (Full!mem_read(f.icode) \/ Full!mem_write(f.icode))
                 /\ ~HasWord(s.m, SeqAddr(s, f)))
SeqRegs(s, f) ==
    SetReg(SetReg(s.r, SeqDstE(s, f), SeqE(s, f)),
           Full!dstM(f.icode, f.ra), SeqM(s, f))
SeqMem(s, f) ==
    IF Full!mem_write(f.icode) THEN SetWord(s.m, SeqAddr(s, f), SeqData(s, f))
    ELSE s.m
SeqCc(s, f) ==
    IF Full!sets_cc(f.icode)
      THEN ComputeCc(SeqFun(f), SeqInA(s, f), SeqInB(s, f)) ELSE s.cc

\* A cycle ends with those parts, or stopped where it began.
LEMMA CycledIs ==
    ASSUME NEW s, NEW f
    PROVE  Cycled(s, f) =
             IF SeqSt(s, f) # "AOK" THEN Stopped(s, SeqSt(s, f))
             ELSE State(new_pc(f, CondHolds(s.cc, f.ifun), SeqM(s, f)),
                        SeqRegs(s, f), SeqMem(s, f), SeqCc(s, f), "AOK")
BY DEF Cycled, Writeback, State, SeqA, SeqB, SeqInA, SeqInB, SeqFun, SeqE,
       SeqDstE, SeqAddr, SeqData, SeqM, SeqSt, SeqRegs, SeqMem, SeqCc
-----------------------------------------------------------------------------
(* The sequential processor against isa.c.                                   *)

\* The state at the end of a cycle without a fault.
SeqNext(s, f) ==
    State(new_pc(f, CondHolds(s.cc, f.ifun), SeqM(s, f)),
          SeqRegs(s, f), SeqMem(s, f), SeqCc(s, f), "AOK")

\* The state of isa.c and that of the processor agree.
SameStep(seq, ref) == seq.st = ref.st /\ (ref.st = "AOK" => seq = ref)

\* The status of a cycle.
LEMMA SeqStIs ==
    ASSUME NEW s, NEW f, ~f.error
    PROVE  SeqSt(s, f) =
             IF f.icode \in {4, 5, 8, 9, 10, 11} /\ ~HasWord(s.m, SeqAddr(s, f))
               THEN "ADR"
             ELSE IF f.icode \notin 0 .. 12 THEN "INS"
             ELSE IF f.icode = 0 THEN "HLT" ELSE "AOK"
<1> DEFINE bad == /\ Full!mem_read(f.icode) \/ Full!mem_write(f.icode)
                  /\ ~HasWord(s.m, SeqAddr(s, f))
           ok == Full!instr_valid(f.icode)
<1>1. SeqSt(s, f) = CASE f.error \/ bad -> "ADR"
                      [] ~ok -> "INS"
                      [] f.icode = IHALT -> "HLT"
                      [] OTHER -> "AOK"
  BY Zenon DEF SeqSt, SeqStat
<1>2. bad <=> /\ f.icode \in {4, 5, 8, 9, 10, 11}
              /\ ~HasWord(s.m, SeqAddr(s, f))
  <2>1. /\ Full!mem_read(f.icode) <=> f.icode \in {5, 9, 11}
        /\ Full!mem_write(f.icode) <=> f.icode \in {4, 8, 10}
    BY FullTables
  <2>2. QED
    BY <2>1
<1>3. ok <=> f.icode \in 0 .. 12
  BY FullTables
<1> HIDE DEF bad, ok
<1>4. f.icode \in {4, 5, 8, 9, 10, 11} => f.icode \in 0 .. 12 /\ f.icode # IHALT
  BY DEF IHALT
<1>5. QED
  BY <1>1, <1>2, <1>3, <1>4 DEF IHALT

\* The parts of a cycle by the numbers of the instructions.
LEMMA SeqParts ==
    ASSUME NEW s, NEW f
    PROVE  /\ SeqA(s, f) =
                GetReg(s.r, IF f.icode \in {2, 4, 6, 10} THEN f.ra
                            ELSE IF f.icode \in {9, 11} THEN 4 ELSE 15)
           /\ SeqB(s, f) =
                GetReg(s.r, IF f.icode \in {4, 5, 6, 12} THEN f.rb
                            ELSE IF f.icode \in {8, 9, 10, 11} THEN 4 ELSE 15)
           /\ SeqInA(s, f) =
                (IF f.icode \in {2, 6} THEN SeqA(s, f)
                 ELSE IF f.icode \in {3, 4, 5, 12} THEN f.valc
                 ELSE IF f.icode \in {8, 10} THEN Wrap(-WordBytes)
                 ELSE IF f.icode \in {9, 11} THEN WordBytes ELSE 0)
           /\ SeqInB(s, f) = (IF f.icode \in {4, 5, 6, 8, 9, 10, 11, 12}
                              THEN SeqB(s, f) ELSE 0)
           /\ SeqFun(f) = (IF f.icode = 6 THEN f.ifun ELSE ALUADD)
           /\ SeqDstE(s, f) =
                (IF f.icode = 2 /\ ~CondHolds(s.cc, f.ifun) THEN 15
                 ELSE IF f.icode \in {2, 3, 6, 12} THEN f.rb
                 ELSE IF f.icode \in {8, 9, 10, 11} THEN 4 ELSE 15)
           /\ SeqAddr(s, f) =
                (IF f.icode \in {4, 5, 8, 10} THEN SeqE(s, f)
                 ELSE IF f.icode \in {9, 11} THEN SeqA(s, f) ELSE 0)
           /\ SeqM(s, f) = (IF f.icode \in {5, 9, 11}
                            THEN GetWord(s.m, SeqAddr(s, f)) ELSE 0)
           /\ SeqMem(s, f) =
                (IF f.icode \in {4, 8, 10}
                 THEN SetWord(s.m, SeqAddr(s, f), SeqData(s, f)) ELSE s.m)
           /\ SeqCc(s, f) =
                (IF f.icode \in {6, 12}
                 THEN ComputeCc(SeqFun(f), SeqInA(s, f), SeqInB(s, f))
                 ELSE s.cc)
           /\ Full!dstM(f.icode, f.ra) =
                (IF f.icode \in {5, 11} THEN f.ra ELSE 15)
<1> DEFINE c == f.icode
<1>1. \A a, b, v :
        /\ Full!srcA(c, a) = (IF c \in {2, 4, 6, 10} THEN a
                              ELSE IF c \in {9, 11} THEN 4 ELSE 15)
        /\ Full!srcB(c, b) = (IF c \in {4, 5, 6, 12} THEN b
                              ELSE IF c \in {8, 9, 10, 11} THEN 4 ELSE 15)
        /\ Full!dstE(c, b) = (IF c \in {2, 3, 6, 12} THEN b
                              ELSE IF c \in {8, 9, 10, 11} THEN 4 ELSE 15)
        /\ Full!dstM(c, a) = (IF c \in {5, 11} THEN a ELSE 15)
        /\ Full!alufun(c, v) = (IF c = 6 THEN v ELSE ALUADD)
  BY FullTables
<1>2. \A a, b, v :
        /\ Full!aluA(c, a, v) =
             (IF c \in {2, 6} THEN a
              ELSE IF c \in {3, 4, 5, 12} THEN v
              ELSE IF c \in {8, 10} THEN Wrap(-WordBytes)
              ELSE IF c \in {9, 11} THEN WordBytes ELSE 0)
        /\ Full!aluB(c, b) =
             (IF c \in {4, 5, 6, 8, 9, 10, 11, 12} THEN b ELSE 0)
        /\ Full!mem_addr(c, v, a) = (IF c \in {4, 5, 8, 10} THEN v
                                     ELSE IF c \in {9, 11} THEN a ELSE 0)
  BY FullTables
<1>3. /\ Full!sets_cc(c) <=> c \in {6, 12}
      /\ Full!mem_read(c) <=> c \in {5, 9, 11}
      /\ Full!mem_write(c) <=> c \in {4, 8, 10}
  BY FullTables
<1>4. SeqA(s, f) = GetReg(s.r, IF c \in {2, 4, 6, 10} THEN f.ra
                               ELSE IF c \in {9, 11} THEN 4 ELSE 15)
  BY <1>1 DEF SeqA
<1>5. SeqB(s, f) = GetReg(s.r, IF c \in {4, 5, 6, 12} THEN f.rb
                               ELSE IF c \in {8, 9, 10, 11} THEN 4 ELSE 15)
  BY <1>1 DEF SeqB
<1>6. SeqInA(s, f) = (IF c \in {2, 6} THEN SeqA(s, f)
                      ELSE IF c \in {3, 4, 5, 12} THEN f.valc
                      ELSE IF c \in {8, 10} THEN Wrap(-WordBytes)
                      ELSE IF c \in {9, 11} THEN WordBytes ELSE 0)
  BY <1>2 DEF SeqInA
<1>7. SeqInB(s, f) =
        (IF c \in {4, 5, 6, 8, 9, 10, 11, 12} THEN SeqB(s, f) ELSE 0)
  BY <1>2 DEF SeqInB
<1>8. SeqFun(f) = (IF c = 6 THEN f.ifun ELSE ALUADD)
  BY <1>1 DEF SeqFun
<1>9. SeqDstE(s, f) = (IF c = 2 /\ ~CondHolds(s.cc, f.ifun) THEN 15
                       ELSE IF c \in {2, 3, 6, 12} THEN f.rb
                       ELSE IF c \in {8, 9, 10, 11} THEN 4 ELSE 15)
  <2>1. Full!dstE(c, f.rb) = (IF c \in {2, 3, 6, 12} THEN f.rb
                              ELSE IF c \in {8, 9, 10, 11} THEN 4 ELSE 15)
    BY <1>1
  <2>2. QED
    BY <2>1 DEF SeqDstE, IRRMOVQ, RNONE
<1>10. SeqAddr(s, f) = (IF c \in {4, 5, 8, 10} THEN SeqE(s, f)
                        ELSE IF c \in {9, 11} THEN SeqA(s, f) ELSE 0)
  BY <1>2 DEF SeqAddr
<1>11. SeqM(s, f) =
         (IF c \in {5, 9, 11} THEN GetWord(s.m, SeqAddr(s, f)) ELSE 0)
  BY <1>3 DEF SeqM
<1>12. SeqMem(s, f) =
         (IF c \in {4, 8, 10}
          THEN SetWord(s.m, SeqAddr(s, f), SeqData(s, f)) ELSE s.m)
  BY <1>3 DEF SeqMem
<1>13. SeqCc(s, f) =
         (IF c \in {6, 12}
          THEN ComputeCc(SeqFun(f), SeqInA(s, f), SeqInB(s, f)) ELSE s.cc)
  BY <1>3 DEF SeqCc
<1>14. Full!dstM(c, f.ra) = (IF c \in {5, 11} THEN f.ra ELSE 15)
  BY <1>1
<1>15. QED
  BY <1>4, <1>5, <1>6, <1>7, <1>8, <1>9, <1>10, <1>11, <1>12, <1>13, <1>14

\* For the instructions of pipe-std.hcl the two processors compute the same.
LEMMA SeqPartsAre ==
    ASSUME NEW s, NEW f, NEW g, f.icode \in 0 .. 11,
           f.icode = g.icode, f.ifun = g.ifun,
           f.icode \in {2, 3, 4, 5, 6, 10, 11} => f.ra = g.rA /\ f.rb = g.rB,
           f.icode \in {3, 4, 5, 7, 8} => f.valc = g.valC,
           f.valp = g.valP
    PROVE  /\ SeqAddr(s, f) = Addr(s, g)
           /\ SeqRegs(s, f) = NextRegs(s, g)
           /\ SeqMem(s, f) = NextMem(s, g)
           /\ SeqCc(s, f) = NextCc(s, g)
           /\ new_pc(f, CondHolds(s.cc, f.ifun), SeqM(s, f)) = NextPc(s, g)
<1>0. f.icode # 12
  OBVIOUS
<1>1. SeqFun(f) = Fun(g)
  BY SeqParts, Parts
<1>2. SeqB(s, f) = ValB(s, g)
  BY <1>0, SeqParts, Parts DEF ValB
<1>3. f.icode \notin {7, 8} => SeqA(s, f) = ValA(s, g)
  BY <1>0, SeqParts, Parts
<1>4. SeqInA(s, f) = InA(s, g)
  BY <1>0, <1>3, SeqParts, Parts
<1>5. SeqInB(s, f) = InB(s, g)
  BY <1>0, <1>2, SeqParts, Parts DEF ValB
<1>6. SeqE(s, f) = ValE(s, g)
  BY <1>1, <1>4, <1>5 DEF SeqE, ValE
<1>7. SeqAddr(s, f) = Addr(s, g)
  BY <1>3, <1>6, SeqParts, Parts
<1>8. SeqM(s, f) = ValM(s, g)
  BY <1>7, SeqParts, Parts DEF ValM
<1>9. SeqDstE(s, f) = DstE(s, g)
  BY <1>0, SeqParts, Parts
<1>10. Full!dstM(f.icode, f.ra) = DstM(g)
  BY SeqParts, Parts
<1>11. SeqMem(s, f) = NextMem(s, g)
  <2>1. SeqMem(s, f) = IF f.icode \in {4, 8, 10}
                         THEN SetWord(s.m, SeqAddr(s, f), SeqData(s, f))
                         ELSE s.m
    BY SeqParts
  <2>2. f.icode \in {4, 8, 10} => SeqData(s, f) = ValA(s, g)
    BY <1>3, Parts DEF SeqData, ICALL
  <2>3. Writes(g) <=> f.icode \in {4, 8, 10}
    BY Parts
  <2>4. QED
    BY <1>7, <2>1, <2>2, <2>3 DEF NextMem
<1>12. SeqCc(s, f) = NextCc(s, g)
  BY <1>0, <1>1, <1>4, <1>5, SeqParts, Parts
<1>13. new_pc(f, CondHolds(s.cc, f.ifun), SeqM(s, f)) = NextPc(s, g)
  <2> DEFINE cnd == CondHolds(s.cc, f.ifun)  valm == SeqM(s, f)
  <2>1. new_pc(f, cnd, valm) = (CASE f.icode = 8 -> f.valc
                                  [] f.icode = 7 /\ cnd -> f.valc
                                  [] f.icode = 9 -> valm
                                  [] OTHER -> f.valp)
    BY Zenon DEF new_pc, ICALL, IJXX, IRET
  <2> HIDE DEF cnd, valm
  <2>2. new_pc(f, cnd, valm) = (IF f.icode = 8 \/ (f.icode = 7 /\ cnd)
                                THEN f.valc
                                ELSE IF f.icode = 9 THEN valm ELSE f.valp)
    BY <2>1
  <2>3. QED
    BY <2>2, <1>8, Parts DEF cnd, valm
<1>14. SeqRegs(s, f) = NextRegs(s, g)
  BY <1>6, <1>8, <1>9, <1>10 DEF SeqRegs, NextRegs
<1>15. QED
  BY <1>7, <1>11, <1>12, <1>13, <1>14

\* iaddq, which seq-full.hcl adds to the tables.
LEMMA SeqIaddq ==
    ASSUME NEW s, s.st = "AOK", NEW f, ~f.error, NEW i,
           f.icode = 12, i.icode = 12, f.ifun = i.ifun, f.rb = i.rb,
           f.valc = i.valc, f.valp = i.valp, i.rb \in Regs
    PROVE  Cycled(s, f) = Executed(s, i)
<1> USE DEF IHALT, INOP, IRRMOVQ, IIRMOVQ, IRMMOVQ, IMRMOVQ, IOPQ, IJXX, ICALL,
        IRET, IPUSHQ, IPOPQ, IIADDQ
<1>1. SeqSt(s, f) = "AOK"
  BY SeqStIs
<1>2. SeqFun(f) = ALUADD /\ SeqInA(s, f) = i.valc
  BY SeqParts
<1>3. SeqInB(s, f) = GetReg(s.r, i.rb)
  BY SeqParts
<1>4. SeqE(s, f) = Plus(i.valc, GetReg(s.r, i.rb))
  BY <1>2, <1>3 DEF SeqE, ComputeAlu, ALUADD, ALUSUB, ALUAND, ALUXOR
<1>5. SeqDstE(s, f) = i.rb
  BY SeqParts
<1>6. Full!dstM(f.icode, f.ra) = 15 /\ 15 \notin Regs
  BY SeqParts, MachineAssumption
<1>7. SeqRegs(s, f) = SetReg(s.r, i.rb, Plus(i.valc, GetReg(s.r, i.rb)))
  BY <1>4, <1>5, <1>6 DEF SeqRegs, SetReg
<1>8. SeqMem(s, f) = s.m
  BY SeqParts
<1>9. SeqCc(s, f) = ComputeCc(ALUADD, i.valc, GetReg(s.r, i.rb))
  BY <1>2, <1>3, SeqParts
<1>10. new_pc(f, CondHolds(s.cc, f.ifun), SeqM(s, f)) = i.valp
  BY DEF new_pc
<1>11. Cycled(s, f) =
         State(i.valp, SetReg(s.r, i.rb, Plus(i.valc, GetReg(s.r, i.rb))),
               s.m, ComputeCc(ALUADD, i.valc, GetReg(s.r, i.rb)), "AOK")
  BY <1>1, <1>7, <1>8, <1>9, <1>10, CycledIs
<1>12. QED
  BY <1>11 DEF Executed

\* One cycle of ssim.c and one step of isa.c do the same.
LEMMA SeqStepOf ==
    ASSUME NEW s \in Machine, s.st = "AOK", Complete(s), Fetchable(s),
           IsaStep(s) \in Machine
    PROVE  SameStep(SeqCycle(s), StepState(s))
<1> DEFINE f == SeqFetch(s)  g == Instr(s)  i == Fetched(s)
<1>1. CASE ~HasByte(s.m, s.pc)
  <2>1. StepState(s) = Stopped(s, "ADR")
    BY <1>1 DEF StepState, Stepped
  <2>2. f.error
    BY <1>1 DEF SeqFetch
  <2>3. \A b : SeqStat(f, b) = "ADR"
    <3>0. f.icode = INOP
      BY <1>1 DEF SeqFetch, HighNibble, INOP
    <3>1. Full!instr_valid(f.icode) /\ f.icode # IHALT
      BY <3>0, FullTables DEF INOP, IHALT
    <3>2. QED
      BY <2>2, <3>1 DEF SeqStat
  <2>4. SeqSt(s, f) = "ADR"
    BY <2>3 DEF SeqSt
  <2>5. SeqCycle(s) = Stopped(s, "ADR")
    BY <2>4, CycledIs DEF SeqCycle
  <2>6. QED
    BY <2>1, <2>5 DEF SameStep
<1>2. CASE HasByte(s.m, s.pc)
  <2>1. /\ ~f.error /\ f.icode = i.icode /\ f.ifun = i.ifun
        /\ f.icode \in {2, 3, 4, 5, 6, 10, 11, 12} => f.ra = i.ra /\ f.rb = i.rb
        /\ f.valc = i.valc /\ f.valp = i.valp
    BY <1>2, SeqFetchIs
  <2>2. /\ g.icode = i.icode /\ g.ifun = i.ifun
        /\ g.stat = (IF g.icode \notin 0 .. 11 THEN "INS"
                     ELSE IF g.icode = IHALT THEN "HLT" ELSE "AOK")
        /\ g.icode \in {2, 3, 4, 5, 6, 10, 11} => g.rA = i.ra /\ g.rB = i.rb
        /\ g.icode \in {3, 4, 5, 7, 8} => g.valC = i.valc
        /\ g.icode \in 0 .. 11 => g.valP = i.valp
    BY <1>2, FetchInside
  <2>3. /\ i.ok1 /\ i.okc
        /\ i.icode \in {2, 4, 5, 6, 10, 11} => i.ra \in Regs
        /\ i.icode \in {2, 3, 4, 5, 6, 12} => i.rb \in Regs
    BY <1>2 DEF Complete, NeedsRa, NeedsRb, IRRMOVQ, IRMMOVQ, IMRMOVQ, IOPQ,
                IPUSHQ, IPOPQ, IIRMOVQ, IIADDQ
  <2>4. HighNibble(GetByte(s.m, s.pc)) = i.icode
    BY DEF Fetched
  <2>5. NamesRegisters(i)
    BY <2>3, MachineAssumption DEF NamesRegisters, IRRMOVQ, IRMMOVQ, IMRMOVQ,
       IPUSHQ, IPOPQ, IIRMOVQ, IIADDQ, RNONE
  <2>6. StepState(s) = Executed(s, i)
    BY <1>2, <2>3, <2>5 DEF StepState, Stepped
  <2>7. SeqCycle(s) = Cycled(s, f)
    BY DEF SeqCycle
  <2>8. Cycled(s, f) = IF SeqSt(s, f) # "AOK" THEN Stopped(s, SeqSt(s, f))
                       ELSE SeqNext(s, f)
    BY CycledIs DEF SeqNext
  <2>9. StepsTo(s, g, IsaStep(s))
    BY StepOf
  <2>10. i.icode # 12 => IsaStep(s) = StepState(s)
    BY <2>4 DEF IsaStep, IIADDQ
  <2>11. i.icode \notin 0 .. 12 => Executed(s, i) = Stopped(s, "INS")
    BY DEF Executed, IHALT, INOP, IRRMOVQ, IIRMOVQ, IRMMOVQ, IMRMOVQ, IOPQ,
           IJXX, ICALL, IRET, IPUSHQ, IPOPQ, IIADDQ
  <2> HIDE DEF f, g, i
  <2>12. CASE i.icode \in 0 .. 11
    <3>1. /\ SeqAddr(s, f) = Addr(s, g)
          /\ SeqNext(s, f) = State(NextPc(s, g), NextRegs(s, g),
                                   NextMem(s, g), NextCc(s, g), "AOK")
      BY <2>1, <2>2, <2>12, SeqPartsAre DEF SeqNext
    <3>2. SeqSt(s, f) = StatOf(s, g)
      BY <2>1, <2>2, <2>12, <3>1, SeqStIs, Parts DEF StatOf, IHALT
    <3>3. StepState(s) = IsaStep(s)
      BY <2>10, <2>12
    <3>4. QED
      BY <2>7, <2>8, <2>9, <3>1, <3>2, <3>3
      DEF StepsTo, SameStep, Stopped, State
  <2>13. CASE i.icode = 12
    <3>1. Cycled(s, f) = Executed(s, i)
      BY <2>1, <2>3, <2>13, SeqIaddq
    <3>2. QED
      BY <2>6, <2>7, <3>1 DEF SameStep
  <2>14. CASE i.icode \notin 0 .. 12
    <3>1. SeqSt(s, f) = "INS"
      BY <2>1, <2>14, SeqStIs
    <3>2. Cycled(s, f) = Stopped(s, "INS") /\ StepState(s) = Stopped(s, "INS")
      BY <2>6, <2>8, <2>11, <2>14, <3>1
    <3>3. QED
      BY <2>7, <3>2 DEF SameStep
  <2>15. QED
    BY <2>12, <2>13, <2>14
<1>3. QED
  BY <1>1, <1>2

\* For every such program the sequential processor of seq-full.hcl does in one
\* cycle what isa.c does in one step: the same status, and the same state unless
\* that is a fault (ssim.c, seq-full.hcl against isa.c).
THEOREM SequentialIsRight ==
    ASSUME NEW S, RunsIn(S)
    PROVE  Spec /\ isa \in S => []SequentialMatchesIsa
<1> DEFINE In == isa \in S \/ isa.st # "AOK"
<1>1. isa \in S => In
  OBVIOUS
<1>2. In /\ [Next]_vars => In'
  <2> SUFFICES ASSUME In, [Next]_vars PROVE In'
    OBVIOUS
  <2>1. CASE UNCHANGED isa
    BY <2>1
  <2>2. CASE isa' = IsaStep(isa)
    <3>1. CASE isa.st # "AOK"
      BY <2>2, <3>1, StoppedForGood
    <3>2. CASE isa.st = "AOK"
      BY <2>2, <3>2 DEF RunsIn
    <3>3. QED
      BY <3>1, <3>2
  <2>3. UNCHANGED isa \/ isa' = IsaStep(isa)
    BY DEF Next, Done, sim_step_pipe, vars
  <2>4. QED
    BY <2>1, <2>2, <2>3
<1>3. In => SequentialMatchesIsa
  <2> SUFFICES ASSUME isa \in S, isa.st = "AOK"
               PROVE  SameStep(SeqCycle(isa), StepState(isa))
    BY DEF SequentialMatchesIsa, SameStep
  <2>1. /\ isa \in Machine /\ Complete(isa) /\ Fetchable(isa)
        /\ IsaStep(isa) \in Machine
    BY DEF RunsIn
  <2>2. QED
    BY <2>1, SeqStepOf
<1>4. QED
  BY <1>1, <1>2, <1>3, PTL DEF Spec
=============================================================================
