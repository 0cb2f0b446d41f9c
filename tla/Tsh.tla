-------------------------------- MODULE Tsh --------------------------------
(***************************************************************************)
(* The tiny shell (shlab/tsh.c): its main loop, its three signal handlers, *)
(* the processes it starts and the kernel between them.                    *)
(*                                                                         *)
(* The shell is one thread.  Its handlers run on a stack: the top frame    *)
(* executes, main executes when the stack is empty, and the kernel may     *)
(* push the handler of a pending signal before any step, unless the signal *)
(* is blocked or its handler is already running.  Pending signals are a    *)
(* set: a signal sent twice before it is delivered is delivered once.      *)
(***************************************************************************)
EXTENDS JobList, Integers, Sequences, SequencesExt

CONSTANTS
    CommandLines,   \* what the user types: characters, of which a word that
                    \* means nothing letter by letter is one
    MaxCommands,    \* bound on the number of command lines
    MaxKeys         \* bound on the number of ctrl-c and ctrl-z

ASSUME CommandsAssumption == \A line \in CommandLines : line \in Seq(STRING)
ASSUME BoundsAssumption == MaxCommands \in Nat /\ MaxKeys \in Nat

VARIABLES
    pc,         \* next statement of main
    bg,         \* the command line asks for a background job (do_bgfg: is bg)
    pid,        \* eval: the child just forked
    job,        \* do_bgfg and waitfg: slot the pointer job points to
    wpid,       \* argument of waitfg
    blocked,    \* SIGCHLD is blocked
    stack,      \* frames of the handlers that are running, the last on top
    pending,    \* signals sent to the shell and not delivered yet
    proc,       \* state of each process the shell has forked
    held,       \* stopped processes with a SIGINT to act on when continued
    unreported, \* stopped processes that waitpid has not reported yet
    commands, keys

mainVars == <<pc, bg, pid, job, wpid, blocked>>
procVars == <<proc, held, unreported>>
boundVars == <<commands, keys>>
vars == <<jobs, nextjid, mainVars, stack, pending, procVars, boundVars>>

SIGCHLD == "SIGCHLD"
SIGINT  == "SIGINT"
SIGTSTP == "SIGTSTP"

\* A child is started before it has called setpgid, in its own process group
\* but still running the shell's program until execve, then running.
Alive  == {"started", "grouped", "running", "stopped"}

\* Processes that a kill of the process group -p reaches.
HasGroup(p) == p >= 1 /\ proc[p] \in {"grouped", "running", "stopped", "zombie"}
-----------------------------------------------------------------------------
\* What the kernel does to process p.

\* p becomes a zombie, its parent is told.
Terminates(p) ==
    /\ proc' = [proc EXCEPT ![p] = "zombie"]
    /\ held' = held \ {p}
    /\ unreported' = unreported \ {p}
    /\ pending' = pending \cup {SIGCHLD}

Stops(p) ==
    /\ proc' = [proc EXCEPT ![p] = "stopped"]
    /\ unreported' = unreported \cup {p}
    /\ pending' = pending \cup {SIGCHLD}
    /\ UNCHANGED held

\* A stop that was not reported before the process went on is never reported.
Continues(p) ==
    /\ proc' = [proc EXCEPT ![p] = "running"]
    /\ unreported' = unreported \ {p}
    /\ pending' = pending \cup {SIGCHLD}
    /\ UNCHANGED held

NoEffect == UNCHANGED <<procVars, pending>>

\* kill(-p, sig) by the shell.  Until execve the child has the handlers of the
\* shell, which find no foreground job in its copy of the job list.
killInt(p) ==
    CASE HasGroup(p) /\ proc[p] = "running" -> Terminates(p)
      [] HasGroup(p) /\ proc[p] = "stopped" ->
            held' = held \cup {p} /\ UNCHANGED <<proc, unreported, pending>>
      [] OTHER -> NoEffect

killTstp(p) ==
    IF HasGroup(p) /\ proc[p] = "running" THEN Stops(p) ELSE NoEffect

killCont(p) ==
    IF HasGroup(p) /\ proc[p] = "stopped"
    THEN IF p \in held THEN Terminates(p) ELSE Continues(p)
    ELSE NoEffect
-----------------------------------------------------------------------------
Init ==
    /\ JobListInit
    /\ pc = "prompt"
    /\ bg = FALSE
    /\ pid = 0
    /\ job = 0
    /\ wpid = 0
    /\ blocked = FALSE
    /\ stack = <<>>
    /\ pending = {}
    /\ proc = [p \in Pids |-> "none"]
    /\ held = {}
    /\ unreported = {}
    /\ commands = 0
    /\ keys = 0

Forked == Cardinality({p \in Pids : proc[p] # "none"})
Up == pc \notin {"exited", "crashed"}
Running(sig) == \E i \in DOMAIN stack : stack[i].sig = sig
Top == stack[Len(stack)]
Below == SubSeq(stack, 1, Len(stack) - 1)
-----------------------------------------------------------------------------
\* Faulty variants of actions defined below, used to show that the properties
\* can tell a wrong shell from this one.

\* eval does not block SIGCHLD around fork and addjob.
BlockForgotten ==
    /\ stack = <<>>
    /\ pc = "block"
    /\ pc' = "fork"
    /\ UNCHANGED <<jobs, nextjid, bg, pid, job, wpid, blocked, stack, pending,
                   procVars, boundVars>>

\* waitfg returns after its first sleep.
SleepOnlyOnce ==
    /\ stack = <<>>
    /\ pc = "sleep"
    /\ pc' = "prompt"
    /\ UNCHANGED <<jobs, nextjid, bg, pid, job, wpid, blocked, stack, pending,
                   procVars, boundVars>>

\* waitfg waits while the job is not in the foreground.
WaitTestInverted ==
    /\ stack = <<>>
    /\ pc = "wait_test"
    /\ pc' = IF jobs[job].state = FG THEN "prompt" ELSE "sleep"
    /\ UNCHANGED <<jobs, nextjid, bg, pid, job, wpid, blocked, stack, pending,
                   procVars, boundVars>>

\* eval waits for the background jobs and not for the foreground ones.
UnblockInverted ==
    /\ stack = <<>>
    /\ pc = "unblock"
    /\ pc' = IF bg THEN "wait_find" ELSE "prompt"
    /\ blocked' = FALSE
    /\ wpid' = pid
    /\ UNCHANGED <<jobs, nextjid, bg, pid, job, stack, pending, procVars,
                   boundVars>>

\* The handler reaps one child per signal: "if" in place of "while".
ChldDeleteOnlyOne ==
    /\ Up /\ stack # <<>>
    /\ Top.sig = SIGCHLD /\ Top.at = "deletejob"
    /\ deletejob(Top.pid)
    /\ stack' = Below
    /\ UNCHANGED <<mainVars, pending, procVars, boundVars>>

\* The handler does not take note of stopped children.
ChldStoppedIgnored ==
    /\ Up /\ stack # <<>>
    /\ Top.sig = SIGCHLD /\ Top.at = "stopped"
    /\ stack' = [stack EXCEPT ![Len(stack)].at = "waitpid"]
    /\ UNCHANGED <<jobs, nextjid, mainVars, pending, procVars, boundVars>>
-----------------------------------------------------------------------------
\* main: what the user types.

Main(from, to) ==
    /\ stack = <<>>
    /\ pc = from
    /\ pc' = to

\* The words between spaces or quotes; one that no delimiter ends is dropped.
\* The newline at the end of a line has become a space.
parseline(cmdline) ==
    LET Scan(s, c) ==
            IF s.in = "spaces"
              THEN CASE c = " " -> s
                     [] c = "'" -> [s EXCEPT !.in = "quotes"]
                     [] OTHER -> [s EXCEPT !.in = "word", !.word = <<c>>]
            ELSE IF c = (IF s.in = "word" THEN " " ELSE "'")
              THEN [in |-> "spaces", word |-> <<>>,
                    argv |-> Append(s.argv, s.word)]
            ELSE [s EXCEPT !.word = Append(@, c)]
        argv == FoldLeft(Scan, [in |-> "spaces", word |-> <<>>, argv |-> <<>>],
                         Append(cmdline, " ")).argv
        ampersand == argv # <<>> /\ Last(argv) # <<>> /\ Last(argv)[1] = "&"
    IN  [argv |-> IF ampersand THEN Front(argv) ELSE argv,
         bg |-> argv = <<>> \/ ampersand]

Typed == {parseline(line) : line \in CommandLines}
Builtin == {<<"quit">>, <<"jobs">>, <<"fg">>, <<"bg">>}

\* The number a word begins with.
Number(word) == CASE word[1] = "1" -> 1 [] word[1] = "2" -> 2 [] OTHER -> 0
IsNumber(word) == word # <<>> /\ word[1] \in {"0", "1", "2"}

\* The job an argument names.  sscanf gives -1, which is not 0, for a word that
\* ends before the number, and jid is then whatever was in its place.
JobOf(word) ==
    IF word \in {<<>>, <<"%">>}
    THEN {getjobjid(jobs, jid) : jid \in 0 .. MAXJOBS}
    ELSE IF word[1] = "%" /\ IsNumber(Tail(word))
    THEN {getjobjid(jobs, Number(Tail(word)))}
    ELSE IF IsNumber(word) THEN {getjobpid(jobs, Number(word))}
    ELSE {0}

TypeCommand(to) ==
    /\ Main("prompt", to)
    /\ commands < MaxCommands
    /\ commands' = commands + 1
    /\ UNCHANGED <<nextjid, pid, wpid, blocked, stack, pending, procVars, keys>>

ReadRun(cmd) ==
    /\ cmd.argv # <<>> /\ Head(cmd.argv) \notin Builtin
    /\ TypeCommand("block")
    /\ Forked < MaxPid
    /\ bg' = cmd.bg
    /\ UNCHANGED <<jobs, job>>

\* do_bgfg looks the job up by its job ID or by its process ID.
ReadBgfg(cmd) ==
    /\ cmd.argv # <<>> /\ Head(cmd.argv) \in {<<"fg">>, <<"bg">>}
    /\ job' \in IF Len(cmd.argv) = 1 THEN {0} ELSE JobOf(cmd.argv[2])
    /\ TypeCommand(IF job' = 0 THEN "prompt" ELSE "set_state")
    /\ bg' = (Head(cmd.argv) = <<"bg">>)
    /\ UNCHANGED jobs

\* listjobs changes nothing.
ReadJobs(cmd) ==
    /\ cmd.argv # <<>> /\ Head(cmd.argv) = <<"jobs">>
    /\ TypeCommand("prompt")
    /\ UNCHANGED <<jobs, bg, job>>

\* parseline returns with argv[0] = NULL, which builtin_cmd passes to strcmp.
ReadBlank(cmd) ==
    /\ cmd.argv = <<>>
    /\ TypeCommand("crashed")
    /\ UNCHANGED <<jobs, bg, job>>

ReadQuit(cmd) ==
    /\ cmd.argv # <<>> /\ Head(cmd.argv) = <<"quit">>
    /\ TypeCommand("exited")
    /\ UNCHANGED <<jobs, bg, job>>

\* eval

Block ==
    /\ Main("block", "fork")
    /\ blocked' = TRUE
    /\ UNCHANGED <<jobs, nextjid, bg, pid, job, wpid, stack, pending, procVars,
                   boundVars>>

Fork ==
    /\ Main("fork", "addjob")
    /\ pid' = Forked + 1
    /\ proc' = [proc EXCEPT ![Forked + 1] = "started"]
    /\ UNCHANGED <<jobs, nextjid, bg, job, wpid, blocked, stack, pending, held,
                   unreported, boundVars>>

AddJob ==
    /\ Main("addjob", "unblock")
    /\ addjob(pid, IF bg THEN BG ELSE FG)
    /\ UNCHANGED <<bg, pid, job, wpid, blocked, stack, pending, procVars,
                   boundVars>>

Unblock ==
    /\ Main("unblock", IF bg THEN "prompt" ELSE "wait_find")
    /\ blocked' = FALSE
    /\ wpid' = pid
    /\ UNCHANGED <<jobs, nextjid, bg, pid, job, stack, pending, procVars,
                   boundVars>>

\* do_bgfg goes on with the pointer it has looked up.

SetState ==
    /\ Main("set_state", "cont")
    /\ jobs' = [jobs EXCEPT ![job].state = IF bg THEN BG ELSE FG]
    /\ UNCHANGED <<nextjid, bg, pid, job, wpid, blocked, stack, pending,
                   procVars, boundVars>>

Cont ==
    /\ Main("cont", IF bg THEN "prompt" ELSE "call_waitfg")
    /\ killCont(jobs[job].pid)
    /\ UNCHANGED <<jobs, nextjid, bg, pid, job, wpid, blocked, stack,
                   boundVars>>

CallWaitfg ==
    /\ Main("call_waitfg", "wait_find")
    /\ wpid' = jobs[job].pid
    /\ UNCHANGED <<jobs, nextjid, bg, pid, job, blocked, stack, pending,
                   procVars, boundVars>>

\* waitfg

WaitFind ==
    /\ job' = getjobpid(jobs, wpid)
    /\ Main("wait_find", IF job' = 0 THEN "prompt" ELSE "wait_test")
    /\ UNCHANGED <<jobs, nextjid, bg, pid, wpid, blocked, stack, pending,
                   procVars, boundVars>>

WaitTest ==
    /\ Main("wait_test", IF jobs[job].state = FG THEN "sleep" ELSE "prompt")
    /\ UNCHANGED <<jobs, nextjid, bg, pid, job, wpid, blocked, stack, pending,
                   procVars, boundVars>>

\* sleep returns after a signal or after its five seconds.
Sleep ==
    /\ Main("sleep", "wait_find")
    /\ UNCHANGED <<jobs, nextjid, bg, pid, job, wpid, blocked, stack, pending,
                   procVars, boundVars>>
-----------------------------------------------------------------------------
\* Signal handlers

Deliver(sig) ==
    /\ Up
    /\ sig \in pending
    /\ sig = SIGCHLD => ~blocked
    /\ ~Running(sig)
    /\ pending' = pending \ {sig}
    /\ stack' = Append(stack,
            [sig |-> sig, pid |-> 0,
             at |-> IF sig = SIGCHLD THEN "waitpid" ELSE "fgpid"])
    /\ UNCHANGED <<jobs, nextjid, mainVars, procVars, boundVars>>

\* The handler of sig, on top of the stack, executes the statement at.
Handler(sigs, at) ==
    /\ Up
    /\ stack # <<>>
    /\ Top.sig \in sigs
    /\ Top.at = at

GoOn(at, p) ==
    stack' = [stack EXCEPT ![Len(stack)].at = at, ![Len(stack)].pid = p]
Return == stack' = Below

ChldReap ==
    /\ Handler({SIGCHLD}, "waitpid")
    /\ \E p \in Pids :
        /\ proc[p] = "zombie"
        /\ proc' = [proc EXCEPT ![p] = "reaped"]
        /\ GoOn("deletejob", p)
    /\ UNCHANGED <<jobs, nextjid, mainVars, pending, held, unreported,
                   boundVars>>

ChldReport ==
    /\ Handler({SIGCHLD}, "waitpid")
    /\ \E p \in unreported :
        /\ unreported' = unreported \ {p}
        /\ GoOn("stopped", p)
    /\ UNCHANGED <<jobs, nextjid, mainVars, pending, proc, held, boundVars>>

ChldDone ==
    /\ Handler({SIGCHLD}, "waitpid")
    /\ unreported = {}
    /\ \A p \in Pids : proc[p] # "zombie"
    /\ Return
    /\ UNCHANGED <<jobs, nextjid, mainVars, pending, procVars, boundVars>>

ChldDelete ==
    /\ Handler({SIGCHLD}, "deletejob")
    /\ deletejob(Top.pid)
    /\ GoOn("waitpid", 0)
    /\ UNCHANGED <<mainVars, pending, procVars, boundVars>>

\* A stopped child that is not in the list ends the shell.
ChldStopped ==
    /\ Handler({SIGCHLD}, "stopped")
    /\ LET s == getjobpid(jobs, Top.pid) IN
        IF s = 0
        THEN /\ pc' = "exited"
             /\ UNCHANGED <<jobs, stack>>
        ELSE /\ jobs' = [jobs EXCEPT ![s].state = ST]
             /\ GoOn("waitpid", 0)
             /\ UNCHANGED pc
    /\ UNCHANGED <<nextjid, bg, pid, job, wpid, blocked, pending, procVars,
                   boundVars>>

KeyFgpid ==
    /\ Handler({SIGINT, SIGTSTP}, "fgpid")
    /\ IF fgpid(jobs) > 0 THEN GoOn("kill", fgpid(jobs)) ELSE Return
    /\ UNCHANGED <<jobs, nextjid, mainVars, pending, procVars, boundVars>>

KeyKill ==
    /\ Handler({SIGINT, SIGTSTP}, "kill")
    /\ IF Top.sig = SIGINT THEN killInt(Top.pid) ELSE killTstp(Top.pid)
    /\ Return
    /\ UNCHANGED <<jobs, nextjid, mainVars, boundVars>>
-----------------------------------------------------------------------------
\* The rest of the world

\* The user types ctrl-c or ctrl-z.
Key(sig) ==
    /\ Up
    /\ keys < MaxKeys
    /\ keys' = keys + 1
    /\ pending' = pending \cup {sig}
    /\ UNCHANGED <<jobs, nextjid, mainVars, stack, procVars, commands>>

Unaffected == UNCHANGED <<jobs, nextjid, mainVars, stack, boundVars>>

\* The child runs eval's code up to execve, which may fail.
Setpgid(p) ==
    /\ proc[p] = "started"
    /\ proc' = [proc EXCEPT ![p] = "grouped"]
    /\ UNCHANGED <<held, unreported, pending>>
    /\ Unaffected

Exec(p) ==
    /\ proc[p] = "grouped"
    /\ \/ /\ proc' = [proc EXCEPT ![p] = "running"]
          /\ UNCHANGED <<held, unreported, pending>>
       \/ Terminates(p)
    /\ Unaffected

\* The job's program ends, or stops itself as mystop does.
Exit(p) == proc[p] = "running" /\ Terminates(p) /\ Unaffected
StopSelf(p) == proc[p] = "running" /\ Stops(p) /\ Unaffected
-----------------------------------------------------------------------------
Command ==
    \/ \E cmd \in Typed :
        \/ ReadRun(cmd) \/ ReadBgfg(cmd) \/ ReadJobs(cmd)
        \/ ReadBlank(cmd) \/ ReadQuit(cmd)

MainStep ==
    \/ Block \/ Fork \/ AddJob \/ Unblock
    \/ SetState \/ Cont \/ CallWaitfg
    \/ WaitFind \/ WaitTest \/ Sleep

HandlerStep ==
    ChldReap \/ ChldReport \/ ChldDone \/ ChldDelete \/ ChldStopped
    \/ KeyFgpid \/ KeyKill

ProcessStarts(p) == Setpgid(p) \/ Exec(p)

Next ==
    \/ Command
    \/ MainStep
    \/ HandlerStep
    \/ \E sig \in {SIGCHLD, SIGINT, SIGTSTP} : Deliver(sig)
    \/ \E sig \in {SIGINT, SIGTSTP} : Key(sig)
    \/ \E p \in Pids : ProcessStarts(p) \/ Exit(p) \/ StopSelf(p)

Spec == Init /\ [][Next]_vars

\* The shell runs when it can, and the kernel delivers what it can.  Users
\* need not type, and programs need neither end nor stop.
FairSpec ==
    /\ Spec
    /\ WF_vars(MainStep \/ HandlerStep)
    /\ \A sig \in {SIGCHLD, SIGINT, SIGTSTP} : WF_vars(Deliver(sig))
    /\ \A p \in Pids : WF_vars(ProcessStarts(p))
-----------------------------------------------------------------------------
\* Slots of the jobs in a state.
InState(state) == {s \in Slots : jobs[s].pid # 0 /\ jobs[s].state = state}

Children == {p \in Pids : proc[p] \in Alive \cup {"zombie"}}

\* A process whose entry the shell is about to make or to delete.
InTransit ==
    {stack[i].pid : i \in {j \in DOMAIN stack : stack[j].at = "deletejob"}}
        \cup (IF pc = "addjob" THEN {pid} ELSE {})

\* tsh.c:30, "At most 1 job can be in the FG state", whatever signals arrive
\* while fg and the handlers change states.
AtMostOneForeground == Cardinality(InState(FG)) <= 1

\* tsh.c, eval: "If the job is running in the foreground, wait for it to
\* terminate and then return"; waitfg returns early for no signal.
PromptWithoutForeground == pc = "prompt" => InState(FG) = {}

\* tsh.c, eval and sigchld_handler: a child is in the job list from its fork
\* until it is reaped, once, and nothing else is; the handler cannot come
\* between fork and addjob.
JobListMatchesChildren ==
    /\ Listed \ InTransit = Children \ InTransit
    /\ \A r, s \in Slots :
            jobs[r].pid = jobs[s].pid /\ jobs[r].pid # 0 => r = s

\* tsh.c:23-29, the table of job state transitions, of which the stop of a
\* background job by a signal from elsewhere is missing.
StateTransitions ==
    {<<FG, ST>>, <<ST, FG>>, <<ST, BG>>, <<BG, FG>>, <<BG, ST>>}

StatesFollowTable ==
    [][\A s \in Slots :
        jobs[s].pid # 0 /\ jobs'[s].pid = jobs[s].pid
            /\ jobs'[s].state # jobs[s].state
        => <<jobs[s].state, jobs'[s].state>> \in StateTransitions]_vars

\* tsh.c, sigchld_handler: "The handler reaps all available zombie children",
\* though the signals of several children may be delivered as one.
ZombiesAreReaped ==
    \A p \in Pids : proc[p] = "zombie" ~> (proc[p] = "reaped" \/ ~Up)

\* tsh.c, waitfg: "Block until process pid is no longer the foreground
\* process", and no longer: once it has ended or stopped, main returns to the
\* prompt, although waitfg checks and then sleeps.
ShellComesBack ==
    \A p \in Pids :
        (pc \in {"wait_find", "wait_test", "sleep"} /\ wpid = p
            /\ proc[p] \notin Alive \ {"stopped"})
        ~> (pc = "prompt" \/ ~Up)
-----------------------------------------------------------------------------
\* What a comment of tsh.c says and its code does not do.

\* tsh.c:536, "fgpid - Return PID of current foreground job", on which ctrl-c
\* and ctrl-z rely.
FgpidFindsForeground == \A s \in InState(FG) : fgpid(jobs) = jobs[s].pid
=============================================================================
