--------------------------------- MODULE Hcl ---------------------------------
(***************************************************************************)
(* The compiler of the hardware control language, hcl2c: the actions of    *)
(* its grammar (hcl.y), the checks and the code of node.c, and the line    *)
(* breaking of outgen.c.  One definition is compiled: each action below is *)
(* a reduction of the parser, whose stack holds, beside the nodes of the   *)
(* program, the expression that was written (source).                      *)
(*                                                                         *)
(* A list of nodes linked by next is a sequence, and so is what is made    *)
(* from a single node.  The code that comes out is a sequence of tokens,   *)
(* in the part of C that the compiler uses.                                *)
(***************************************************************************)
EXTENDS Integers, Sequences, SequencesExt, FiniteSetsExt

CONSTANTS
    Declarations,   \* what is declared: sequences of name, isbool
    Names,          \* of the variables of an expression
    WordValues,     \* of a variable that is no Boolean
    Starts,         \* stacks to begin with: what the parser has read already
    Depth,          \* most further reductions
    SYM_LIM,        \* entries of the symbol table
    MAXERRLEN,      \* where the text of an error is cut off
    VarWidth,       \* columns of a variable's C expression in parentheses
    MaxColumn, FirstIndent, OtherIndents    \* of outgen_init

ASSUME HclAssumption ==
    /\ {Depth, SYM_LIM, MAXERRLEN, VarWidth, MaxColumn, FirstIndent,
        OtherIndents} \subseteq Nat
    /\ WordValues \subseteq Nat

VARIABLES
    symbols,    \* sym_tab: name and isbool, the oldest first
    stack,      \* of the parser: kind, nodes, source
    steps,      \* reductions so far
    errors,     \* has yyerror been called
    output      \* what gen_funct has written, or NotYet

hclVars == <<symbols, stack, steps, errors, output>>

NotYet == <<>>
NULL == <<>>

Node(type, isbool, sval, arg1, arg2) ==
    [type |-> type, isbool |-> isbool, sval |-> sval, arg1 |-> arg1,
     arg2 |-> arg2]

Leaf(type, sval) == <<Node(type, FALSE, sval, NULL, NULL)>>
-----------------------------------------------------------------------------
\* The symbol table

\* What is declared when the table is full is an error.
add_symbol(table, symbol) ==
    IF Len(table.entries) >= SYM_LIM THEN [table EXCEPT !.error = TRUE]
    ELSE [table EXCEPT !.entries = Append(table.entries, symbol)]

\* The entries of a name, of which the first one counts.
find_symbol(name) ==
    SelectSeq(symbols, LAMBDA symbol : symbol.name = name)

Declared(name) == find_symbol(name) # <<>>

\* The text of an error is written into expr_buf: how far, when it began at
\* errlen.  The test before a part is written leaves the rest of it out.
RECURSIVE show_expr_helper(_, _)
show_expr_helper(list, errlen) ==
    LET expr == list[1]
        Room(at) == at < MAXERRLEN
        Show(at, arg) == IF arg = NULL THEN at ELSE show_expr_helper(arg, at)
        ShowIf(at, before, arg, after) ==
            IF Room(at) THEN Show(at + before, arg) + after ELSE at
        Binary(between) ==
            ShowIf(ShowIf(errlen, 1, expr.arg1, between), 0, expr.arg2, 1)
        Member(at, i) ==
            ShowIf(at, 0, SubSeq(expr.arg2, i, Len(expr.arg2)),
                   IF i < Len(expr.arg2) THEN 2 ELSE 0)
        Case(at, one) ==
            IF Room(at) THEN Show(Show(at, one.arg1) + 3, one.arg2) ELSE at
        Indices(seq) == [i \in DOMAIN seq |-> i]
    IN  CASE expr.type \in {"var", "num"} ->
                IF Room(errlen + 1) THEN errlen + 1 ELSE errlen
          [] expr.type \in {"and", "or"} -> Binary(3)
          [] expr.type = "comp" -> Binary(4)
          [] expr.type = "not" -> ShowIf(errlen, 1, expr.arg1, 0)
          [] expr.type = "ele" ->
                ShowIf(FoldLeft(Member, ShowIf(errlen, 1, expr.arg1, 5),
                                Indices(expr.arg2)),
                       2, NULL, 0)
          [] expr.type = "case" ->
                ShowIf(FoldLeft(Case, ShowIf(errlen, 2, NULL, 0), list),
                       2, NULL, 0)

\* The zero at the end, behind the dots if the text was cut off.
show_expr(expr) ==
    LET errlen == show_expr_helper(expr, 0)
    IN  errlen + (IF errlen >= MAXERRLEN THEN 3 ELSE 0) + 1

\* Is the first node of a list of the type that is wanted?
check_arg(arg, wantbool) ==
    /\ arg # NULL
    /\ LET node == arg[1] IN
        CASE node.type = "var" ->
                /\ Declared(node.sval)
                /\ find_symbol(node.sval)[1].isbool = wantbool
          [] node.type = "num" -> wantbool => node.sval \in {"0", "1"}
          [] OTHER -> node.isbool = wantbool
-----------------------------------------------------------------------------
\* The reductions

Parsed(kind, nodes, source) ==
    [kind |-> kind, nodes |-> nodes, source |-> source]

\* The i-th of the topmost n entries.
Top(n, i) == stack[Len(stack) - n + i]

OnTop(kinds) ==
    /\ output = NotYet /\ steps < Depth
    /\ Len(stack) >= Len(kinds)
    /\ \A i \in DOMAIN kinds : Top(Len(kinds), i).kind = kinds[i]

\* The topmost n entries become one; an argument may be found wrong.  Depth
\* leaves room for what is still to be joined.
Reduce(n, entry, ok) ==
    /\ steps + Len(stack) - n < Depth
    /\ stack' = Append(SubSeq(stack, 1, Len(stack) - n), entry)
    /\ errors' = (errors \/ ~ok)
    /\ steps' = steps + 1
    /\ UNCHANGED <<symbols, output>>

\* make_var and make_num
MakeLeaf(type, sval) ==
    /\ OnTop(<<>>)
    /\ Reduce(0, Parsed("expr", Leaf(type, sval), [op |-> type, sval |-> sval]),
              TRUE)

make_not ==
    /\ OnTop(<<"expr">>)
    /\ LET arg == Top(1, 1) IN
        Reduce(1, Parsed("expr", <<Node("not", TRUE, "!", arg.nodes, NULL)>>,
                        [op |-> "not", arg1 |-> arg.source]),
               check_arg(arg.nodes, TRUE))

\* make_and, make_or and make_comp
MakeBinary(type, sval, wantbool) ==
    /\ OnTop(<<"expr", "expr">>)
    /\ LET arg1 == Top(2, 1)
           arg2 == Top(2, 2)
       IN  Reduce(2, Parsed("expr", <<Node(type, TRUE, sval, arg1.nodes,
                                          arg2.nodes)>>,
                           [op |-> type, sval |-> sval, arg1 |-> arg1.source,
                            arg2 |-> arg2.source]),
                  /\ check_arg(arg1.nodes, wantbool)
                  /\ check_arg(arg2.nodes, wantbool))

concat(n1, n2) == n1 \o n2

\* The members of a set are linked to one another.
FirstMember ==
    /\ OnTop(<<"expr", "expr">>)
    /\ LET member == Top(1, 1) IN
        Reduce(1, Parsed("members", member.nodes, <<member.source>>), TRUE)

NextMember ==
    /\ OnTop(<<"members", "expr">>)
    /\ LET list == Top(2, 1)
           member == Top(2, 2)
       IN  Reduce(2, Parsed("members", concat(list.nodes, member.nodes),
                           Append(list.source, member.source)), TRUE)

\* The loop that is to check the members goes over the element once more.
make_ele ==
    /\ OnTop(<<"expr", "members">>)
    /\ LET element == Top(2, 1)
           members == Top(2, 2)
       IN  Reduce(2, Parsed("expr", <<Node("ele", TRUE, "in", element.nodes,
                                          members.nodes)>>,
                           [op |-> "ele", arg1 |-> element.source,
                            members |-> members.source]),
                  check_arg(element.nodes, FALSE))

NoCases ==
    /\ OnTop(<<>>)
    /\ Reduce(0, Parsed("cases", NULL, <<>>), TRUE)

make_case ==
    /\ OnTop(<<"cases", "expr", "expr">>)
    /\ LET list == Top(3, 1)
           guard == Top(3, 2)
           value == Top(3, 3)
       IN  Reduce(3, Parsed("cases",
                           concat(list.nodes,
                                  <<Node("case", FALSE, ":", guard.nodes,
                                         value.nodes)>>),
                           Append(list.source, <<guard.source, value.source>>)),
                  /\ check_arg(guard.nodes, TRUE)
                  /\ check_arg(value.nodes, FALSE))

CaseExpression ==
    /\ OnTop(<<"cases">>)
    /\ LET list == Top(1, 1) IN
        Reduce(1, Parsed("expr", list.nodes,
                        [op |-> "case", cases |-> list.source]), TRUE)
-----------------------------------------------------------------------------
\* The code

\* What outgen_print writes, what is written past it, and what changes the
\* indentation.
Token(kind, text, width) == <<[kind |-> kind, text |-> text, width |-> width]>>
Text(text, width) == Token("text", text, width)
Parenthesised(code) ==
    Text("(", 1) \o Token("indent", "", OtherIndents) \o code
        \o Text(")", 1) \o Token("indent", "", -OtherIndents)

\* gen_expr follows a null pointer.
Crash == Token("crash", "", 0)

\* A guard that always holds is the last one.
Default(guard) == guard # NULL /\ guard[1].type = "num" /\ guard[1].sval = "1"

\* A faulty variant: without a guard that holds the last value is taken.
NoCaseLeft_value_missing == Text("1", 1)
NoCaseLeft == Text("0", 1)

RECURSIVE gen_expr(_)
RECURSIVE gen_members(_, _)
RECURSIVE gen_cases(_)

gen_members(element, members) ==
    IF members = NULL THEN <<>> ELSE
    gen_expr(element) \o Text("==", 4) \o gen_expr(members)
        \o (IF Len(members) = 1 THEN <<>>
            ELSE Text("||", 4) \o gen_members(element, Tail(members)))

\* The nodes behind a case are taken for cases, whatever they are.
gen_cases(list) ==
    IF list = NULL THEN NoCaseLeft
    ELSE IF Default(list[1].arg1) THEN gen_expr(list[1].arg2)
    ELSE gen_expr(list[1].arg1) \o Text("?", 3) \o gen_expr(list[1].arg2)
            \o Text(":", 3) \o gen_cases(Tail(list))

gen_expr(list) ==
    IF list = NULL THEN Crash
    ELSE LET expr == list[1] IN
      CASE expr.type = "var" ->
            IF Declared(expr.sval) THEN Text(expr.sval, VarWidth)
            ELSE Token("undeclared", "", 0)
        [] expr.type = "num" -> Token("number", expr.sval, 1)
        [] expr.type = "not" -> Text("!", 1) \o gen_expr(expr.arg1)
        [] expr.type \in {"and", "or", "comp"} ->
            Parenthesised(gen_expr(expr.arg1)
                \o Text(expr.sval, IF expr.type = "comp" THEN 4 ELSE 3)
                \o gen_expr(expr.arg2))
        [] expr.type = "ele" -> Parenthesised(gen_members(expr.arg1, expr.arg2))
        [] expr.type = "case" -> Parenthesised(gen_cases(list))

\* The whole definition is there: its type is checked, and code written for it.
gen_funct(isbool) ==
    /\ output = NotYet /\ Len(stack) = 1 /\ stack[1].kind = "expr"
    /\ LET expr == stack[1].nodes
           code == IF expr = NULL THEN <<>>
                   ELSE Text("    return ", 11) \o gen_expr(expr)
                            \o Text(";", 1)
       IN  /\ output' = <<[isbool |-> isbool, code |-> code]>>
           /\ errors' = \/ errors
                        \/ ~check_arg(expr, isbool)
                        \/ \E i \in DOMAIN code : code[i].kind = "undeclared"
    /\ UNCHANGED <<symbols, stack, steps>>

HclInit ==
    /\ \E declared \in Declarations :
        LET table == FoldLeft(add_symbol, [entries |-> <<>>, error |-> FALSE],
                              declared)
        IN  symbols = table.entries /\ errors = table.error
    /\ stack \in Starts
    /\ steps = 0 /\ output = NotYet

HclNext ==
    \/ \E name \in Names : MakeLeaf("var", name)
    \/ \E num \in {"1", "2"} : MakeLeaf("num", num)
    \/ make_not
    \/ MakeBinary("and", "&", TRUE) \/ MakeBinary("or", "|", TRUE)
    \/ MakeBinary("comp", "==", FALSE)
    \/ FirstMember \/ NextMember \/ make_ele
    \/ NoCases \/ make_case \/ CaseExpression
    \/ \E isbool \in BOOLEAN : gen_funct(isbool)
-----------------------------------------------------------------------------
\* The lines

\* A token that does not fit begins a line; numbers are not counted.
print_token(line, token) ==
    LET broken == token.kind = "text" /\ token.width + line.cur_pos > MaxColumn
        at == IF broken THEN line.indent ELSE line.column
    IN  IF token.kind = "indent"
        THEN [line EXCEPT !.indent = line.indent + token.width]
        ELSE [line EXCEPT
                !.cur_pos = (IF broken THEN line.indent ELSE line.cur_pos)
                                + (IF token.kind = "text" THEN token.width
                                                          ELSE 0),
                !.column = at + token.width,
                !.longest = IF at + token.width > line.longest
                            THEN at + token.width ELSE line.longest]

Lines(code) ==
    FoldLeft(print_token,
             [cur_pos |-> 0, column |-> 0, longest |-> 0,
              indent |-> FirstIndent],
             code)
-----------------------------------------------------------------------------
\* What a definition means

Num(sval) == CASE sval = "0" -> 0 [] sval = "1" -> 1 [] sval = "2" -> 2
Truth(p) == IF p THEN 1 ELSE 0

RECURSIVE Meaning(_, _)
Meaning(source, env) ==
    CASE source.op = "var" -> env[source.sval]
      [] source.op = "num" -> Num(source.sval)
      [] source.op = "not" -> 1 - Meaning(source.arg1, env)
      [] source.op = "ele" ->
            Truth(\E i \in DOMAIN source.members :
                    Meaning(source.arg1, env) = Meaning(source.members[i], env))
      [] source.op = "case" ->
            LET holds == {i \in DOMAIN source.cases :
                            Meaning(source.cases[i][1], env) = 1}
            IN  IF holds = {} THEN 0
                ELSE Meaning(source.cases[Min(holds)][2], env)
      [] OTHER ->
            LET x == Meaning(source.arg1, env)
                y == Meaning(source.arg2, env)
            IN  Truth(CASE source.sval = "&" -> x = 1 /\ y = 1
                        [] source.sval = "|" -> x = 1 \/ y = 1
                        [] source.sval = "==" -> x = y)

\* Is it well typed?  The members of a set may be of either type.
RECURSIVE Typed(_, _)
Typed(source, isbool) ==
    CASE source.op = "var" ->
            /\ Declared(source.sval)
            /\ find_symbol(source.sval)[1].isbool = isbool
      [] source.op = "num" -> isbool => source.sval # "2"
      [] source.op = "not" -> isbool /\ Typed(source.arg1, TRUE)
      [] source.op = "ele" ->
            /\ isbool /\ Typed(source.arg1, FALSE)
            /\ \A i \in DOMAIN source.members :
                \E either \in BOOLEAN : Typed(source.members[i], either)
      [] source.op = "case" ->
            /\ ~isbool /\ source.cases # <<>>
            /\ \A i \in DOMAIN source.cases :
                /\ Typed(source.cases[i][1], TRUE)
                /\ Typed(source.cases[i][2], FALSE)
      [] OTHER ->
            LET words == source.op = "comp"
            IN  /\ isbool
                /\ Typed(source.arg1, ~words) /\ Typed(source.arg2, ~words)

\* A case expression among the members of a set.
RECURSIVE CaseInSet(_)
CaseInSet(source) ==
    CASE source.op \in {"var", "num"} -> FALSE
      [] source.op = "not" -> CaseInSet(source.arg1)
      [] source.op = "ele" ->
            \/ CaseInSet(source.arg1)
            \/ \E i \in DOMAIN source.members :
                source.members[i].op = "case" \/ CaseInSet(source.members[i])
      [] source.op = "case" ->
            \E i \in DOMAIN source.cases, j \in 1 .. 2 :
                CaseInSet(source.cases[i][j])
      [] OTHER -> CaseInSet(source.arg1) \/ CaseInSet(source.arg2)
-----------------------------------------------------------------------------
\* C

\* Operators by precedence, the weakest first; all associate to the left.
Operators == <<{"||"}, {"|"}, {"&"}, {"=="}>>

Apply(op, x, y) ==
    CASE op = "||" -> Truth(x # 0 \/ y # 0)
      [] op \in {"|", "&"} -> Truth(IF op = "|" THEN x + y > 0 ELSE x * y > 0)
      [] op = "==" -> Truth(x = y)

\* The value of an expression, given as the texts of its tokens.
RECURSIVE CValue(_, _)
CValue(code, env) ==
    LET n == Len(code)
        level[i \in 0 .. n] ==
            IF i = 0 THEN 0
            ELSE level[i - 1] + (CASE code[i] = "(" -> 1 [] code[i] = ")" -> -1
                                   [] OTHER -> 0)
        At(texts) == {i \in 1 .. n : level[i] = 0 /\ code[i] \in texts}
        Value(i, j) == CValue(SubSeq(code, i, j), env)
        used == {k \in DOMAIN Operators : At(Operators[k]) # {}}
    IN  IF At({"?"}) # {}
        THEN LET q == Min(At({"?"}))
                 c == Min({i \in At({":"}) : i > q})
             IN  IF Value(1, q - 1) # 0 THEN Value(q + 1, c - 1)
                                        ELSE Value(c + 1, n)
        ELSE IF used # {}
        THEN LET i == Max(At(Operators[Min(used)]))
             IN  Apply(code[i], Value(1, i - 1), Value(i + 1, n))
        ELSE IF code[1] = "!" THEN Truth(Value(2, n) = 0)
        ELSE IF code[1] = "(" THEN Value(2, n - 1)
        ELSE IF code[1] \in Names THEN env[code[1]] ELSE Num(code[1])

Texts(code) ==
    LET written == SelectSeq(code, LAMBDA token : token.kind # "indent")
    IN  [i \in 1 .. Len(written) - 2 |-> written[i + 1].text]

\* Values of the variables, by the type they are declared with.
Environments ==
    {env \in [Names -> WordValues \cup {0, 1}] :
        \A name \in Names : Declared(name) =>
            env[name] \in IF find_symbol(name)[1].isbool THEN {0, 1}
                                                        ELSE WordValues}
-----------------------------------------------------------------------------
\* Properties

\* Where all that was declared is in the symbol table, a definition is refused
\* exactly when it is badly typed, and the compiler does not fail without a
\* word (check_arg, gen_funct); what it writes has in C the value the
\* definition has, with a first guard that holds, 0 when none does, and members
\* of either type (gen_expr); while it writes no numbers, its lines keep to
\* their width and end with the indentation they began with (print_token); and
\* the text of an error stays in its buffer, which has more than twelve times
\* the room of the text that is cut off (show_expr).
CompiledAsWritten ==
    output # NotYet =>
        LET source == stack[1].source
            code == output[1].code
            lines == Lines(code)
            regular == ~CaseInSet(source)
        IN  /\ regular => errors = ~Typed(source, output[1].isbool)
            /\ ~errors /\ regular =>
                /\ \A i \in DOMAIN code : code[i].kind # "crash"
                /\ \A env \in Environments :
                    CValue(Texts(code), env) = Meaning(source, env)
            /\ lines.indent = FirstIndent
            /\ (\A i \in DOMAIN code : code[i].kind # "number") =>
                lines.longest <= MaxColumn
            /\ stack[1].nodes # NULL =>
                show_expr(stack[1].nodes) <= 12 * MAXERRLEN
=============================================================================
