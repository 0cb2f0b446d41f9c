------------------------------- MODULE MCY86 -------------------------------
(* Two jobs: short expressions for the compiler of the control language, and *)
(* programs for the machines: a prologue that sets the stack pointer, a      *)
(* body of BodyLen statements chosen freely, a halt, a subroutine, and a     *)
(* word below the stack that holds the address of the halt.  Registers 0 and *)
(* 3 are %rax and %rbx.                                                      *)
EXTENDS Y86Pipe, Y86Asm, Y86Tty, Hcl

CONSTANTS Statements, BodyLen

rax == 0
rbx == 3
R(id) == RegArg(id)
Disp(n, id) == MemArg(NumArg(n), id)
Stmt(name, arg1, arg2) == Line(NoLabel, name, arg1, arg2)
At(label, name, arg1, arg2) == Line(label, name, arg1, arg2)
Op(name, a, b) == Stmt(name, R(a), R(b))
One(name, a) == Stmt(name, R(a), NoArg)
Imm(name, n, a) == Stmt(name, NumArg(n), R(a))
To(name, label) == Stmt(name, SymArg(label), NoArg)
Bare(name) == Stmt(name, NoArg, NoArg)

(* The statements a body is made of, by number.                              *)
Catalogue ==
    <<Imm("irmovq", 255, rax),                                       \*  1
      One("pushq", rax), One("popq", rbx), One("popq", RRSP),        \*  2-4
      To("jne", "sub"), To("call", "sub"), Bare("ret"),             \*  5-7
      Op("subq", rax, rbx), Op("cmovne", rax, rbx),                  \*  8, 9
      Stmt("mrmovq", Disp(0, RRSP), R(rax)),                   \* 10
      Stmt("rmmovq", R(rbx), Disp(255, RRSP)),                 \* 11
      Stmt("mrmovq", Disp(0, rax), R(rbx)),                    \* 12
      Stmt("byte", NumArg(240), NoArg),                      \* 13
      Op("addq", rbx, rax), One("pushq", RRSP), To("je", "end"),     \* 14-16
      Imm("iaddq", 1, rbx),                                          \* 17
      Stmt("rmmovq", R(RRSP), Disp(24, RNONE))>>               \* 18

Stack == MemSize - 4

Program(body) ==
    <<Stmt("irmovq", SymArg("stack"), R(RRSP))>>
    \o [k \in 1 .. BodyLen |-> Catalogue[body[k]]]
    \o <<At("end", "halt", NoArg, NoArg),
         At("sub", "addq", R(rax), R(rbx)),
         Bare("ret"),
         Stmt("align", NumArg(4), NoArg),
         Stmt("pos", NumArg(Stack), NoArg),
         At("stack", "quad", SymArg("end"), NoArg)>>

VARIABLE body   \* the statements of the program that runs

\* A word and a Boolean; the second declaration of the word is never found.
MCDeclarations ==
    {<<[name |-> "a", isbool |-> FALSE], [name |-> "p", isbool |-> TRUE],
       [name |-> "a", isbool |-> TRUE]>>}

\* Nothing, or the first case of a case expression, has been read.
MCStarts ==
    {<<>>,
     <<Parsed("cases",
             <<Node("case", FALSE, ":", Leaf("var", "p"), Leaf("var", "a"))>>,
             <<<<[op |-> "var", sval |-> "p"],
                 [op |-> "var", sval |-> "a"]>>>>)>>}

Unread == [kind |-> "unread"]

ProgramJob ==
    /\ body \in [1 .. BodyLen -> Statements]
    /\ symbols = <<>> /\ stack = <<Unread>>
    /\ steps = 0 /\ errors = FALSE /\ output = NotYet

HclJob ==
    /\ body = [k \in 1 .. BodyLen |-> 1]
    /\ HclInit

MCInit ==
    /\ ProgramJob \/ HclJob
    /\ Start(Load(Program(body)))

MCNext ==
    \/ stack = <<Unread>> /\ Next /\ UNCHANGED <<body, hclVars>>
    \/ stack # <<Unread>> /\ HclNext /\ UNCHANGED <<body, vars>>

MCSpec == MCInit /\ [][MCNext]_<<vars, body, hclVars>>

\* The states isa.c passes through, with iaddq refused as in the pipeline.
Passed(image) ==
    ToSet(FoldLeft(LAMBDA passed, i :
                     IF Last(passed).st = "AOK"
                       THEN Append(passed, IsaStep(Last(passed))) ELSE passed,
                   <<NewState(image)>>, Turns(DefaultLimit)))

\* Each statement occurs in a program of which the premise of the theorems in
\* Y86PipeProofs is true.
ASSUME ProgramsRun ==
    \A k \in Statements : \E chosen \in [1 .. BodyLen -> Statements] :
        /\ k \in {chosen[j] : j \in 1 .. BodyLen}
        /\ RunsIn(Passed(Load(Program(chosen))))

\* The assembler accepts every program, and the fetch of isa.c finds at the
\* address of every line what the line says (yas.c, isa.c load_mem).
AssemblerRoundTrip ==
    icount = 1 =>
      LET p  == Program(body)
          at == Positions(p)
      IN  /\ Accepts(p) /\ Loads(p)
          /\ \A i \in DOMAIN p :
               IsInstruction(p[i]) /\ ~IsData(p[i]) =>
                 DecodesAs(p[i], p, at, Fetched([isa EXCEPT !.pc = at[i]]))

\* The command lines of the check: every order of a few options.
CommandLines ==
    {<<Option("t", 0), Option("file", 0)>>,
     <<Option("v", 0), Option("t", 0), Option("l", 4), Option("file", 0)>>,
     <<Option("v", 3), Option("h", 0), Option("file", 0)>>,
     <<Option("file", 0), Option("t", 0), Option("file", 0)>>,
     <<Option("g", 0), Option("file", 0)>>}

\* An instruction that moves %rsp in isa.c although its access fails.
MovesStackFirst(icode) == icode \in {ICALL, IPUSHQ, IPOPQ}

\* What a run of ssim and one of yis have in common, unless code was
\* overwritten.
RunsAgree(image, limit, run, isa_run) ==
    (\A a \in 0 .. (CodeEnd - 1) : isa_run.s.m[a] = image[a]) =>
        /\ run.icount = isa_run.step /\ run.s.st = isa_run.s.st
        /\ run.s.st # "AOK" =>
            \/ MovesStackFirst(Fetched(run.s).icode)
            \/ ssim_match(image, run, limit)
        /\ run.s.st = "AOK" => run.seen = yis(image, limit - 1).s

\* The check of -t succeeds whenever a run ends by itself, unless by a fault of
\* an instruction that moves %rsp; ssim and yis count the same instructions and
\* stop with the same status, and a run that its limit ended has stored all but
\* its last instruction (run_tty_sim, sim_run, yis.c).
CheckSucceeds ==
    /\ icount = 1 =>
        \A image \in {Load(Program(body))},
           options \in {sim_main(argv) : argv \in CommandLines} :
          options.exit = "none" /\ options.do_check =>
            RunsAgree(image, options.instr_limit,
                      sim_run(image, options.instr_limit),
                      yis(image, options.instr_limit))
    /\ status \notin {"AOK", "BUB"} /\ ~selfmod =>
        \/ W.icode = IIADDQ \/ MovesStackFirst(W.icode)
        \/ psim_match(Load(Program(body)), DefaultLimit)
=============================================================================
