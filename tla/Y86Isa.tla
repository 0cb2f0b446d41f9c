------------------------------- MODULE Y86Isa -------------------------------
(* The Y86-64 machine at the level of instructions: memory, registers,       *)
(* condition codes and the step function of archlab/sim/misc/isa.c, the      *)
(* reference that yis runs and that both processor simulators are checked    *)
(* against.                                                                  *)
(*                                                                           *)
(* A word has WordBytes bytes where the code has 8, so an instruction with   *)
(* an immediate is 1 or 2 bytes longer than a word, and the stack moves by   *)
(* WordBytes.  Memory and the register file are functions, bytes and words   *)
(* are numbers.                                                              *)
EXTENDS Integers, Sequences

CONSTANTS
    WordBytes,   \* bytes in a word: 8 in the code
    MemSize,     \* bytes of memory: MEM_SIZE, 2^13 in the code
    Regs         \* the register identifiers the programs name

INSTANCE Words WITH Width <- 8 * WordBytes

Byte == 0 .. 255

IHALT == 0
INOP == 1
IRRMOVQ == 2
IIRMOVQ == 3
IRMMOVQ == 4
IMRMOVQ == 5
IOPQ == 6
IJXX == 7
ICALL == 8
IRET == 9
IPUSHQ == 10
IPOPQ == 11
IIADDQ == 12

ALUADD == 0
ALUSUB == 1
ALUAND == 2
ALUXOR == 3

RRSP == 4
RNONE == 15

ASSUME MachineAssumption ==
    /\ WordBytes \in Nat \ {0}
    /\ MemSize \in Nat \ {0}
    /\ RRSP \in Regs
    /\ Regs \subseteq 0 .. 14

Status == {"BUB", "AOK", "HLT", "ADR", "INS", "PIP"}
Faults == {"ADR", "INS", "HLT"}

ConditionCodes == [z : BOOLEAN, s : BOOLEAN, o : BOOLEAN]
DEFAULT_CC == [z |-> TRUE, s |-> FALSE, o |-> FALSE]

-----------------------------------------------------------------------------
(* Memory.  An access outside it fails and changes nothing; a word is stored *)
(* with its lowest byte first.  The code computes pos + 8 in a signed word,  *)
(* which overflows for a position within 8 bytes of the largest one: the     *)
(* model reads it as unbounded.                                              *)
HasByte(m, pos) == ~Negative(pos) /\ pos < MemSize
HasWord(m, pos) == ~Negative(pos) /\ pos + WordBytes <= MemSize

GetByte(m, pos) == IF HasByte(m, pos) THEN m[pos] ELSE 0
WordOf(bytes) == MapThenSumSet(LAMBDA i : bytes[i] * (256 ^ i), DOMAIN bytes)
GetWord(m, pos) ==
    IF HasWord(m, pos)
      THEN WordOf([i \in 0 .. (WordBytes - 1) |-> m[pos + i]])
      ELSE 0

SetWord(m, pos, w) ==
    IF HasWord(m, pos)
      THEN [a \in DOMAIN m |->
              IF a \in pos .. (pos + WordBytes - 1)
                THEN (w \div (256 ^ (a - pos))) % 256
                ELSE m[a]]
      ELSE m

ClearedMemory == [a \in 0 .. (MemSize - 1) |-> 0]
ClearedRegisters == [id \in Regs |-> 0]

(* Reading no register gives 0, writing none has no effect.                  *)
GetReg(r, id) == IF id \in Regs THEN r[id] ELSE 0
SetReg(r, id, w) == IF id \in Regs THEN [r EXCEPT ![id] = w] ELSE r

HighNibble(b) == b \div 16
LowNibble(b) == b % 16

-----------------------------------------------------------------------------
ComputeAlu(op, a, b) ==
    CASE op = ALUADD -> Plus(a, b)
      [] op = ALUSUB -> Minus(b, a)
      [] op = ALUAND -> And(a, b)
      [] op = ALUXOR -> Xor(a, b)
      [] OTHER -> 0

ComputeCc(op, a, b) ==
    LET val == ComputeAlu(op, a, b)
    IN  [z |-> val = 0,
         s |-> Negative(val),
         o |-> \/ /\ op = ALUADD
                  /\ Negative(a) = Negative(b)
                  /\ Negative(val) # Negative(a)
               \/ /\ op = ALUSUB
                  /\ (Signed(a) > 0) = Negative(b)
                  /\ Negative(val) # Negative(b)]

CondHolds(cc, cond) ==
    LET less == cc.s # cc.o
    IN  CASE cond = 0 -> TRUE
          [] cond = 1 -> less \/ cc.z
          [] cond = 2 -> less
          [] cond = 3 -> cc.z
          [] cond = 4 -> ~cc.z
          [] cond = 5 -> ~less
          [] cond = 6 -> ~less /\ ~cc.z
          [] OTHER -> FALSE

-----------------------------------------------------------------------------
(* The state of the machine and the fields of the instruction at its pc.     *)
NewState(m) ==
    [pc |-> 0, r |-> ClearedRegisters, m |-> m, cc |-> DEFAULT_CC,
     st |-> "AOK"]

HasRegids == {IRRMOVQ, IOPQ, IPUSHQ, IPOPQ, IIRMOVQ, IRMMOVQ, IMRMOVQ, IIADDQ}
HasImmediate == {IIRMOVQ, IRMMOVQ, IMRMOVQ, IJXX, ICALL, IIADDQ}

Fetched(s) ==
    LET byte0  == GetByte(s.m, s.pc)
        icode  == HighNibble(byte0)
        atRegs == Plus(s.pc, 1)
        byte1  == GetByte(s.m, atRegs)
        regids == icode \in HasRegids
        atImm  == IF regids THEN Plus(atRegs, 1) ELSE atRegs
        imm    == icode \in HasImmediate
    IN  [icode |-> icode, ifun |-> LowNibble(byte0),
         ok1  |-> regids => HasByte(s.m, atRegs),
         ra   |-> IF regids THEN HighNibble(byte1) ELSE RNONE,
         rb   |-> IF regids THEN LowNibble(byte1) ELSE RNONE,
         okc  |-> imm => HasWord(s.m, atImm),
         valc |-> IF imm THEN GetWord(s.m, atImm) ELSE 0,
         valp |-> IF imm THEN Plus(atImm, WordBytes) ELSE atImm]

(* The registers an instruction must name.                                   *)
NamesRegisters(i) ==
    /\ i.icode \in {IRRMOVQ, IRMMOVQ, IMRMOVQ, IPUSHQ, IPOPQ} => i.ra # RNONE
    /\ i.icode \in {IRRMOVQ, IIRMOVQ, IIADDQ} => i.rb # RNONE

State(pc, r, m, cc, st) ==
    [pc |-> pc, r |-> r, m |-> m, cc |-> cc, st |-> st]
Stopped(s, st) == State(s.pc, s.r, s.m, s.cc, st)

(* An instruction whose fields are in order.  A push, pop or call moves %rsp *)
(* before its access to the stack is tried.                                  *)
Executed(s, i) ==
    LET rsp   == GetReg(s.r, RRSP)
        down  == Minus(rsp, WordBytes)
        up    == Plus(rsp, WordBytes)
        valA  == GetReg(s.r, i.ra)
        valB  == GetReg(s.r, i.rb)
        addr  == Plus(i.valc, valB)
        moved(w)         == SetReg(s.r, RRSP, w)
        goes(pc, r, m)   == State(pc, r, m, s.cc, s.st)
        next(r, m)       == goes(i.valp, r, m)
        computes(r, cc)  == State(i.valp, r, s.m, cc, s.st)
        faults(r)        == State(s.pc, r, s.m, s.cc, "ADR")
    IN  CASE i.icode = INOP -> next(s.r, s.m)
          [] i.icode = IHALT -> Stopped(s, "HLT")
          [] i.icode = IRRMOVQ ->
               IF CondHolds(s.cc, i.ifun)
                 THEN next(SetReg(s.r, i.rb, valA), s.m)
                 ELSE next(s.r, s.m)
          [] i.icode = IIRMOVQ -> next(SetReg(s.r, i.rb, i.valc), s.m)
          [] i.icode = IRMMOVQ ->
               IF HasWord(s.m, addr) THEN next(s.r, SetWord(s.m, addr, valA))
                                     ELSE faults(s.r)
          [] i.icode = IMRMOVQ ->
               IF HasWord(s.m, addr)
                 THEN next(SetReg(s.r, i.ra, GetWord(s.m, addr)), s.m)
                 ELSE faults(s.r)
          [] i.icode = IOPQ ->
               computes(SetReg(s.r, i.rb, ComputeAlu(i.ifun, valA, valB)),
                        ComputeCc(i.ifun, valA, valB))
          [] i.icode = IJXX ->
               IF CondHolds(s.cc, i.ifun) THEN goes(i.valc, s.r, s.m)
                                          ELSE next(s.r, s.m)
          [] i.icode = ICALL ->
               IF HasWord(s.m, down)
                 THEN goes(i.valc, moved(down), SetWord(s.m, down, i.valp))
                 ELSE faults(moved(down))
          [] i.icode = IRET ->
               IF HasWord(s.m, rsp)
                 THEN goes(GetWord(s.m, rsp), moved(up), s.m)
                 ELSE faults(s.r)
          [] i.icode = IPUSHQ ->
               IF HasWord(s.m, down)
                 THEN next(moved(down), SetWord(s.m, down, valA))
                 ELSE faults(moved(down))
          [] i.icode = IPOPQ ->
               IF HasWord(s.m, rsp)
                 THEN next(SetReg(moved(up), i.ra, GetWord(s.m, rsp)), s.m)
                 ELSE faults(moved(up))
          [] i.icode = IIADDQ ->
               computes(SetReg(s.r, i.rb, Plus(i.valc, valB)),
                        ComputeCc(ALUADD, i.valc, valB))
          [] OTHER -> Stopped(s, "INS")

Stepped(s, i) ==
    IF ~HasByte(s.m, s.pc) \/ ~i.ok1 THEN Stopped(s, "ADR")
    ELSE IF ~i.okc
      THEN Stopped(s, IF i.icode \in {IJXX, ICALL} THEN "ADR" ELSE "INS")
    ELSE IF ~NamesRegisters(i) THEN Stopped(s, "INS")
    ELSE Executed(s, i)

StepState(s) == Stepped(s, Fetched(s))
=============================================================================
