------------------------------- MODULE Y86Asm -------------------------------
(* The assembler (archlab/sim/misc/yas.c) and the loader of its output       *)
(* (load_mem of isa.c).  A program is a sequence of lines; a line has an     *)
(* optional label and a statement, whose tokens are abstracted to a mnemonic *)
(* and at most two arguments.  Pass 1 gives the labels their addresses, pass *)
(* 2 writes the bytes of each line at the line's address.                    *)
EXTENDS Y86Isa, SequencesExt

NoLabel == "none"

(* Arguments as get_reg, get_num and get_mem take them; the displacement of  *)
(* a memory reference is a number or a symbol.                               *)
NoArg == [kind |-> "none"]
RegArg(id) == [kind |-> "reg", reg |-> id]
NumArg(n) == [kind |-> "num", num |-> n]
SymArg(name) == [kind |-> "sym", sym |-> name]
MemArg(disp, id) == [kind |-> "mem", disp |-> disp, reg |-> id]

Line(label, name, arg1, arg2) ==
    [label |-> label, name |-> name, args |-> <<arg1, arg2>>]

(* The table of mnemonics: code byte, length, the kind of token each argument *)
(* is, and which half of the register byte it goes to: a memory reference    *)
(* puts its base in the low half.  The constant of a datum goes where other  *)
(* lines have their code byte; .word and .long lie between .byte and .quad.  *)
Entry(icode, ifun, bytes, kinds, halves) ==
    [code |-> 16 * icode + ifun, bytes |-> bytes, kinds |-> kinds,
     halves |-> halves]

Plain(icode) == Entry(icode, 0, 1, <<"none", "none">>, <<"-", "-">>)
OneReg(icode) == Entry(icode, 0, 2, <<"reg", "none">>, <<"hi", "-">>)
TwoRegs(icode, ifun) ==
    Entry(icode, ifun, 2, <<"reg", "reg">>, <<"hi", "lo">>)
Jump(icode, cond) ==
    Entry(icode, cond, 1 + WordBytes, <<"num", "none">>, <<"-", "-">>)
ImmReg(icode) ==
    Entry(icode, 0, 2 + WordBytes, <<"num", "reg">>, <<"-", "lo">>)
Data(bytes) == Entry(0, 0, bytes, <<"num", "none">>, <<"-", "-">>)

InstructionSet ==
    [nop |-> Plain(INOP), halt |-> Plain(IHALT), ret |-> Plain(IRET),
     rrmovq |-> TwoRegs(IRRMOVQ, 0), cmovle |-> TwoRegs(IRRMOVQ, 1),
     cmovl |-> TwoRegs(IRRMOVQ, 2), cmove |-> TwoRegs(IRRMOVQ, 3),
     cmovne |-> TwoRegs(IRRMOVQ, 4), cmovge |-> TwoRegs(IRRMOVQ, 5),
     cmovg |-> TwoRegs(IRRMOVQ, 6),
     irmovq |-> ImmReg(IIRMOVQ), iaddq |-> ImmReg(IIADDQ),
     rmmovq |-> Entry(IRMMOVQ, 0, 2 + WordBytes, <<"reg", "mem">>,
                      <<"hi", "lo">>),
     mrmovq |-> Entry(IMRMOVQ, 0, 2 + WordBytes, <<"mem", "reg">>,
                      <<"lo", "hi">>),
     addq |-> TwoRegs(IOPQ, ALUADD), subq |-> TwoRegs(IOPQ, ALUSUB),
     andq |-> TwoRegs(IOPQ, ALUAND), xorq |-> TwoRegs(IOPQ, ALUXOR),
     jmp |-> Jump(IJXX, 0), jle |-> Jump(IJXX, 1), jl |-> Jump(IJXX, 2),
     je |-> Jump(IJXX, 3), jne |-> Jump(IJXX, 4), jge |-> Jump(IJXX, 5),
     jg |-> Jump(IJXX, 6), call |-> Jump(ICALL, 0),
     pushq |-> OneReg(IPUSHQ), popq |-> OneReg(IPOPQ),
     byte |-> Data(1), quad |-> Data(WordBytes)]

IsInstruction(line) == line.name \in DOMAIN InstructionSet
IsData(line) == line.name \in {"byte", "quad"}

-----------------------------------------------------------------------------
(* The address after a line that stands at pos; a directive moves it.        *)
AlignUp(pos, a) == ((pos + (a - 1)) \div a) * a

NextPos(line, pos) ==
    CASE line.name = "pos" -> line.args[1].num
      [] line.name = "align" -> AlignUp(pos, line.args[1].num)
      [] line.name = "empty" -> pos
      [] OTHER -> pos + InstructionSet[line.name].bytes

(* Positions(lines)[i] is the address of line i.                             *)
Positions(lines) ==
    FoldLeft(LAMBDA at, line : Append(at, NextPos(line, Last(at))),
             <<0>>, lines)

(* The symbol table after pass 1.  A label that is defined twice is found    *)
(* with its first address, as find_symbol searches from the start.           *)
Labelled(lines, name) == {i \in DOMAIN lines : lines[i].label = name}

\* A faulty variant: a label stands for the address after its line.
FindSymbolAfterLine(lines, at, name) ==
    LET where == Labelled(lines, name)
    IN  IF where = {} THEN Wrap(-1)
        ELSE at[(CHOOSE i \in where : \A j \in where : i <= j) + 1]

FindSymbol(lines, at, name) ==
    LET where == Labelled(lines, name)
    IN  IF where = {} THEN Wrap(-1)
        ELSE at[CHOOSE i \in where : \A j \in where : i <= j]

-----------------------------------------------------------------------------
(* Pass 2: the bytes of a line.  The two halves of the register byte start   *)
(* as absent registers, a missing displacement is 0.                         *)
RegisterIn(half, line) ==
    LET places == {k \in 1 .. 2 :
                     InstructionSet[line.name].halves[k] = half}
    IN  IF places = {} THEN RNONE
        ELSE line.args[CHOOSE k \in places : TRUE].reg

RegisterByte(line) == 16 * RegisterIn("hi", line) + RegisterIn("lo", line)

Value(arg, lines, at) ==
    LET n == IF arg.kind = "mem" THEN arg.disp ELSE arg
    IN  IF n.kind = "sym" THEN FindSymbol(lines, at, n.sym) ELSE n.num

ConstantOf(line, lines, at) ==
    LET args == {k \in 1 .. 2 :
                   InstructionSet[line.name].kinds[k] \in {"num", "mem"}}
    IN  Value(line.args[CHOOSE k \in args : TRUE], lines, at)

LittleEndian(w, n) == [k \in 1 .. n |-> (w \div (256 ^ (k - 1))) % 256]

Encode(line, lines, at) ==
    LET e == InstructionSet[line.name]
        const(n) == LittleEndian(ConstantOf(line, lines, at), n)
    IN  IF IsData(line) THEN const(e.bytes)
        ELSE CASE e.bytes = 1 -> <<e.code>>
               [] e.bytes = 2 /\ e.halves[1] # "-" ->
                    <<e.code, RegisterByte(line)>>
               [] e.halves = <<"-", "-">> -> <<e.code>> \o const(WordBytes)
               [] OTHER ->
                    <<e.code, RegisterByte(line)>> \o const(WordBytes)

(* The assembler's verdict: every argument is of the kind its mnemonic wants *)
(* and every symbol is defined, that of a displacement too.                  *)
Defined(arg, lines) == arg.kind = "sym" => Labelled(lines, arg.sym) # {}

AcceptsLine(line, lines) ==
    IsInstruction(line) =>
      \A k \in 1 .. 2 :
        LET kind == InstructionSet[line.name].kinds[k]
            arg == line.args[k]
        IN  /\ arg.kind = kind \/ (arg.kind = "sym" /\ kind = "num")
            /\ Defined(IF kind = "mem" THEN arg.disp ELSE arg, lines)

Accepts(lines) == \A i \in DOMAIN lines : AcceptsLine(lines[i], lines)

-----------------------------------------------------------------------------
(* The loader: the bytes of each line in turn, at the line's address.  A     *)
(* byte outside memory ends the load with an error.                          *)
Placed(image, pos, bytes) ==
    [a \in DOMAIN image |->
       IF a - pos \in 0 .. (Len(bytes) - 1) THEN bytes[(a - pos) + 1]
                                            ELSE image[a]]

Load(lines) ==
    LET at == Positions(lines)
    IN  FoldLeft(LAMBDA image, i :
                   IF IsInstruction(lines[i])
                     THEN Placed(image, at[i], Encode(lines[i], lines, at))
                     ELSE image,
                 ClearedMemory, [i \in 1 .. Len(lines) |-> i])

Loads(lines) ==
    LET at == Positions(lines)
    IN  \A i \in DOMAIN lines :
          IsInstruction(lines[i]) =>
            at[i] + InstructionSet[lines[i].name].bytes <= MemSize

(* What the assembler must give: the fetch of the instruction-level machine  *)
(* finds at the address of each line the instruction that the line names,    *)
(* its registers, and its constant, a label standing for the address of the  *)
(* line that carries it.                                                     *)
DecodesAs(line, lines, at, i) ==
    LET e == InstructionSet[line.name]
        Holds(k) ==
          LET arg == line.args[k]
          IN  CASE e.kinds[k] = "reg" ->
                     arg.reg = IF e.halves[k] = "hi" THEN i.ra ELSE i.rb
                [] e.kinds[k] = "num" ->
                     IF arg.kind = "num" THEN i.valc = arg.num
                     ELSE \E j \in DOMAIN lines :
                            lines[j].label = arg.sym /\ i.valc = at[j]
                [] e.kinds[k] = "mem" ->
                     i.rb = arg.reg /\ i.valc = Value(arg, lines, at)
                [] OTHER -> TRUE
    IN  16 * i.icode + i.ifun = e.code /\ Holds(1) /\ Holds(2)
=============================================================================
