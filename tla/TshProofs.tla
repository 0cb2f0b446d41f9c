------------------------------ MODULE TshProofs ------------------------------
(***************************************************************************)
(* The job list of the shell, for any size of the table, any number of     *)
(* processes and whatever the user types.  There is at most one foreground *)
(* job, and none while the shell is at its prompt.                         *)
(*                                                                         *)
(* A signal handler may run between any two steps of main, but it makes no *)
(* job a foreground job: all it can do is delete or stop one.  So it is    *)
(* enough to know, at each statement of main, which entry may be the       *)
(* foreground job's.  waitfg looks that entry up by its process ID, which  *)
(* finds it only if no two entries have the same one.                      *)
(*                                                                         *)
(* The second part is about the list as a whole: it is that of the         *)
(* children, but for one that eval is about to add and one that the        *)
(* handler of SIGCHLD is about to delete.                                  *)
(***************************************************************************)
EXTENDS Tsh, FiniteSetTheorems, WellFoundedInduction, TLAPS

\* An entry that is in use is in the foreground, in the background or stopped.
JobsShape ==
    /\ jobs = [s \in Slots |-> [pid |-> jobs[s].pid, jid |-> jobs[s].jid,
                                state |-> jobs[s].state]]
    /\ \A s \in Slots : jobs[s].pid # 0 => jobs[s].state \in {FG, BG, ST}

\* Process IDs are given out in order, and one is left for a new job.
ForksInOrder ==
    /\ proc = [p \in Pids |-> proc[p]]
    /\ \E n \in 0 .. MaxPid : \A p \in Pids : proc[p] # "none" <=> p <= n
    /\ pc \in {"block", "fork"} => \E p \in Pids : proc[p] = "none"

\* An entry is that of a process that was forked, and of no other entry.
ListedOnce ==
    /\ \A s \in Slots :
        jobs[s].pid # 0 => jobs[s].pid \in Pids /\ proc[jobs[s].pid] # "none"
    /\ \A r, s \in Slots :
        jobs[r].pid = jobs[s].pid /\ jobs[r].pid # 0 => r = s
    /\ pc = "addjob" => /\ pid \in Pids /\ proc[pid] # "none"
                        /\ \A s \in Slots : jobs[s].pid # pid

\* What main knows of the foreground job at each of its statements.
ForegroundKnown ==
    /\ pc \in {"prompt", "block", "fork", "addjob", "set_state"} =>
            InState(FG) = {}
    /\ pc \in {"unblock", "cont"} /\ bg => InState(FG) = {}
    /\ \A s \in InState(FG) :
        /\ pc = "unblock" => jobs[s].pid = pid
        /\ pc \in {"cont", "call_waitfg", "wait_test"} => s = job
        /\ pc \in {"wait_find", "wait_test", "sleep"} => jobs[s].pid = wpid
    /\ \A r, s \in InState(FG) : r = s

ShellInv == JobsShape /\ ForksInOrder /\ ListedOnce /\ ForegroundKnown

\* No job is listed and no process forked when the shell starts.
LEMMA InitShellInv == Init => ShellInv
<1> SUFFICES ASSUME Init PROVE ShellInv
  OBVIOUS
<1>1. JobsShape /\ ListedOnce /\ ForegroundKnown
  BY DEF Init, JobListInit, initjobs, clearjob, JobsShape, ListedOnce,
         ForegroundKnown, InState, Slots, FG, UNDEF
<1>2. ForksInOrder
  <2>1. proc = [p \in Pids |-> proc[p]] /\ pc = "prompt"
    BY DEF Init
  <2>2. 0 \in 0 .. MaxPid /\ \A p \in Pids : proc[p] # "none" <=> p <= 0
    BY MaxPidAssumption DEF Init, Pids
  <2>3. QED
    BY <2>1, <2>2 DEF ForksInOrder
<1>3. QED
  BY <1>1, <1>2 DEF ShellInv
\* The number of processes forked is the last process ID given out.
LEMMA ForkedInOrder ==
    ASSUME NEW n \in 0 .. MaxPid,
           \A p \in Pids : proc[p] # "none" <=> p <= n
    PROVE  Forked = n
<1>1. {p \in Pids : proc[p] # "none"} = 1 .. n
  BY MaxPidAssumption DEF Pids
<1>2. Cardinality(1 .. n) = n
  BY MaxPidAssumption, FS_Interval
<1>3. QED
  BY <1>1, <1>2 DEF Forked
-----------------------------------------------------------------------------
\* What may happen between two steps of main: the shell may end, entries may
\* be deleted or stopped, processes may change but none is forked.
Interruption ==
    /\ pc' \in {pc, "exited"}
    /\ UNCHANGED <<bg, pid, job, wpid>>
    /\ JobsShape'
    /\ \A s \in Slots : jobs'[s].pid \in {0, jobs[s].pid}
    /\ InState(FG)' \subseteq InState(FG)
    /\ proc' = [q \in Pids |-> proc'[q]]
    /\ \A p \in Pids : proc'[p] = "none" <=> proc[p] = "none"

LEMMA InterruptionKeeps ==
    ASSUME ShellInv, Interruption PROVE ShellInv'
<1>1. ForksInOrder'
  BY DEF ShellInv, Interruption, ForksInOrder
<1>2. ListedOnce'
  <2>1. \A s \in Slots : jobs'[s].pid # 0 => jobs'[s].pid = jobs[s].pid
    BY DEF Interruption
  <2>2. \A s \in Slots : jobs'[s].pid # 0 =>
            jobs'[s].pid \in Pids /\ proc'[jobs'[s].pid] # "none"
    BY <2>1 DEF ShellInv, Interruption, ListedOnce
  <2>3. \A r, s \in Slots :
            jobs'[r].pid = jobs'[s].pid /\ jobs'[r].pid # 0 => r = s
    BY <2>1 DEF ShellInv, ListedOnce
  <2>4. CASE pc' = "addjob"
    <3>1. /\ pid' \in Pids /\ proc[pid'] # "none" /\ pid' # 0
          /\ \A s \in Slots : jobs[s].pid # pid'
      BY <2>4, MaxPidAssumption
      DEF ShellInv, Interruption, ListedOnce, Pids
    <3>2. proc'[pid'] # "none" /\ \A s \in Slots : jobs'[s].pid # pid'
      BY <2>1, <3>1 DEF Interruption
    <3>3. QED
      BY <2>2, <2>3, <3>1, <3>2 DEF ListedOnce
  <2>5. QED
    BY <2>2, <2>3, <2>4 DEF ListedOnce
<1>3. ForegroundKnown'
  <2>1. \A s \in InState(FG)' : jobs'[s].pid = jobs[s].pid
    BY DEF Interruption, InState
  <2>2. QED
    BY <2>1 DEF ShellInv, Interruption, ForegroundKnown
<1>4. QED
  BY <1>1, <1>2, <1>3 DEF ShellInv, Interruption

\* Where the list does not change, an interruption is one of the processes.
LEMMA ListUntouched ==
    ASSUME ShellInv, UNCHANGED jobs, pc' \in {pc, "exited"},
           UNCHANGED <<bg, pid, job, wpid>>,
           proc' = [q \in Pids |-> proc'[q]],
           \A p \in Pids : proc'[p] = "none" <=> proc[p] = "none"
    PROVE  ShellInv'
BY InterruptionKeeps DEF Interruption, ShellInv, JobsShape, InState

\* A process that exists changes its state.
LEMMA ProcessChanges ==
    ASSUME ShellInv, NEW p, proc[p] # "none",
           NEW state, state # "none",
           proc' = [proc EXCEPT ![p] = state]
    PROVE  /\ proc' = [q \in Pids |-> proc'[q]]
           /\ \A q \in Pids : proc'[q] = "none" <=> proc[q] = "none"
BY DEF ShellInv, ForksInOrder

\* The effects of a signal or of the end of a process are of that kind.
LEMMA KernelKeepsProcesses ==
    ASSUME ShellInv, NEW p,
           \/ proc[p] # "none" /\ (Terminates(p) \/ Stops(p) \/ Continues(p))
           \/ killInt(p) \/ killTstp(p) \/ killCont(p) \/ NoEffect
    PROVE  /\ proc' = [q \in Pids |-> proc'[q]]
           /\ \A q \in Pids : proc'[q] = "none" <=> proc[q] = "none"
<1>1. ASSUME proc' = proc
      PROVE  /\ proc' = [q \in Pids |-> proc'[q]]
             /\ \A q \in Pids : proc'[q] = "none" <=> proc[q] = "none"
  BY <1>1 DEF ShellInv, ForksInOrder
<1>2. CASE proc[p] # "none" /\ Terminates(p)
  BY <1>2, ProcessChanges DEF Terminates
<1>3. CASE proc[p] # "none" /\ Stops(p)
  BY <1>3, ProcessChanges DEF Stops
<1>4. CASE proc[p] # "none" /\ Continues(p)
  BY <1>4, ProcessChanges DEF Continues
<1>5. CASE NoEffect
  BY <1>1, <1>5 DEF NoEffect, procVars
<1>6. CASE killInt(p)
  BY <1>1, <1>2, <1>5, <1>6 DEF killInt
<1>7. CASE killTstp(p)
  BY <1>3, <1>5, <1>7 DEF killTstp
<1>8. CASE killCont(p)
  BY <1>2, <1>4, <1>5, <1>8 DEF killCont
<1>9. QED
  BY <1>2, <1>3, <1>4, <1>5, <1>6, <1>7, <1>8

\* An entry is given another state.
StateGiven(s, state) ==
    /\ JobsShape'
    /\ \A r \in Slots :
        /\ jobs'[r].pid = jobs[r].pid
        /\ jobs'[r].state = IF r = s THEN state ELSE jobs[r].state

LEMMA StateChanges ==
    ASSUME JobsShape, NEW s, NEW state \in {FG, BG, ST},
           jobs' = [r \in Slots |->
                    IF r = s THEN [jobs[r] EXCEPT !.state = state] ELSE jobs[r]]
    PROVE  StateGiven(s, state)
<1>1. \A r \in Slots :
        jobs[r] = [pid |-> jobs[r].pid, jid |-> jobs[r].jid,
                   state |-> jobs[r].state]
  BY DEF JobsShape
<1>2. \A r \in Slots :
        jobs'[r] = [pid |-> jobs[r].pid, jid |-> jobs[r].jid,
                    state |-> IF r = s THEN state ELSE jobs[r].state]
  <2>1. jobs' = [r \in Slots |->
                    IF r = s THEN [jobs[r] EXCEPT !.state = state] ELSE jobs[r]]
    OBVIOUS
  <2>2. QED
    BY <1>1, <2>1
<1>3. /\ jobs' = [r \in Slots |-> jobs'[r]]
      /\ \A r \in Slots :
            /\ jobs'[r].pid = jobs[r].pid
            /\ jobs'[r].state = IF r = s THEN state ELSE jobs[r].state
            /\ jobs'[r] = [pid |-> jobs'[r].pid, jid |-> jobs'[r].jid,
                           state |-> jobs'[r].state]
  <2>1. jobs' = [r \in Slots |-> jobs'[r]]
    OBVIOUS
  <2>2. ASSUME NEW r \in Slots
        PROVE  /\ jobs'[r].pid = jobs[r].pid
               /\ jobs'[r].state = IF r = s THEN state ELSE jobs[r].state
               /\ jobs'[r] = [pid |-> jobs'[r].pid, jid |-> jobs'[r].jid,
                              state |-> jobs'[r].state]
    BY <1>2
  <2>3. QED
    BY <2>1, <2>2
<1>4. JobsShape'
  BY <1>3 DEF JobsShape
<1>5. QED
  BY <1>3, <1>4 DEF StateGiven
-----------------------------------------------------------------------------
\* Each step of main keeps the invariant: commands first.
LEMMA CommandKeeps ==
    ASSUME ShellInv, NEW cmd,
           \/ ReadRun(cmd) \/ ReadBgfg(cmd) \/ ReadJobs(cmd)
           \/ ReadBlank(cmd) \/ ReadQuit(cmd)
    PROVE  ShellInv'
<1>1. /\ pc = "prompt"
      /\ pc' \in {"prompt", "block", "set_state", "crashed", "exited"}
      /\ UNCHANGED <<jobs, proc>>
  BY DEF ReadRun, ReadBgfg, ReadJobs, ReadBlank, ReadQuit, TypeCommand, Main,
         procVars
<1>2. JobsShape' /\ ListedOnce' /\ ForegroundKnown'
  BY <1>1 DEF ShellInv, JobsShape, ListedOnce, ForegroundKnown, InState
<1>3. ForksInOrder'
  <2>1. CASE pc' # "block"
    BY <1>1, <2>1 DEF ShellInv, ForksInOrder
  <2>2. CASE ReadRun(cmd)
    <3>1. \E p \in Pids : proc[p] = "none"
      <4>1. PICK n \in 0 .. MaxPid :
                \A p \in Pids : proc[p] # "none" <=> p <= n
        BY DEF ShellInv, ForksInOrder
      <4>2. n < MaxPid
        BY <2>2, <4>1, ForkedInOrder DEF ReadRun
      <4>3. n + 1 \in Pids /\ proc[n + 1] = "none"
        BY <4>1, <4>2, MaxPidAssumption DEF Pids
      <4>4. QED
        BY <4>3
    <3>2. QED
      BY <1>1, <3>1 DEF ShellInv, ForksInOrder
  <2>3. QED
    BY <2>1, <2>2
    DEF ReadBgfg, ReadJobs, ReadBlank, ReadQuit, TypeCommand, Main
<1>4. QED
  BY <1>2, <1>3 DEF ShellInv

LEMMA BlockKeeps == ASSUME ShellInv, Block PROVE ShellInv'
<1>1. pc = "block" /\ pc' = "fork" /\ UNCHANGED <<jobs, proc>>
  BY DEF Block, Main, procVars
<1>2. JobsShape' /\ ForksInOrder' /\ ListedOnce' /\ ForegroundKnown'
  BY <1>1 DEF ShellInv, JobsShape, ForksInOrder, ListedOnce, ForegroundKnown,
              InState
<1>3. QED
  BY <1>2 DEF ShellInv

LEMMA ForkKeeps == ASSUME ShellInv, Fork PROVE ShellInv'
<1>1. /\ pc = "fork" /\ pc' = "addjob" /\ pid' = Forked + 1
      /\ proc' = [proc EXCEPT ![pid'] = "started"]
      /\ UNCHANGED jobs
  BY DEF Fork, Main
<1>2. PICK n \in 0 .. MaxPid : \A p \in Pids : proc[p] # "none" <=> p <= n
  BY DEF ShellInv, ForksInOrder
<1>3. Forked = n
  BY <1>2, ForkedInOrder DEF ShellInv
<1>4. pid' = n + 1 /\ n + 1 \in Pids /\ proc[n + 1] = "none"
  BY <1>1, <1>2, <1>3, MaxPidAssumption DEF ShellInv, ForksInOrder, Pids
<1>5. /\ proc' = [q \in Pids |-> proc'[q]]
      /\ \A p \in Pids : proc'[p] # "none" <=> p <= n + 1
      /\ n + 1 \in 0 .. MaxPid
  BY <1>1, <1>2, <1>4, MaxPidAssumption DEF ShellInv, ForksInOrder, Pids
<1>6. ForksInOrder'
  BY <1>1, <1>5 DEF ForksInOrder
<1>7. JobsShape' /\ ForegroundKnown'
  BY <1>1 DEF ShellInv, JobsShape, ForegroundKnown, InState
<1>8. ListedOnce'
  BY <1>1, <1>4, <1>5 DEF ShellInv, ListedOnce, ForksInOrder
<1>9. QED
  BY <1>6, <1>7, <1>8 DEF ShellInv

LEMMA AddJobKeeps == ASSUME ShellInv, AddJob PROVE ShellInv'
<1>1. pc = "addjob" /\ pc' = "unblock" /\ UNCHANGED <<bg, pid, proc>>
  BY DEF AddJob, Main, procVars
<1>2. /\ InState(FG) = {} /\ pid \in Pids /\ proc[pid] # "none"
      /\ \A s \in Slots : jobs[s].pid # pid
  BY <1>1 DEF ShellInv, ForegroundKnown, ListedOnce
<1>3. ForksInOrder'
  BY <1>1 DEF ShellInv, ForksInOrder
<1>4. CASE UNCHANGED jobs
  BY <1>1, <1>2, <1>3, <1>4
  DEF ShellInv, JobsShape, ListedOnce, ForegroundKnown, InState
<1>5. CASE ~ UNCHANGED jobs
  <2>1. PICK s : jobs' = [jobs EXCEPT ![s] =
                    [pid |-> pid, jid |-> nextjid,
                     state |-> IF bg THEN BG ELSE FG]]
    BY <1>5 DEF AddJob, addjob
  <2>2. \A r \in Slots : \/ r # s /\ jobs'[r] = jobs[r]
                         \/ /\ r = s /\ jobs'[r].pid = pid
                            /\ jobs'[r].state = IF bg THEN BG ELSE FG
    BY <2>1 DEF ShellInv, JobsShape
  <2>3. JobsShape'
    BY <2>1 DEF ShellInv, JobsShape
  <2>4. ListedOnce'
    BY <1>1, <1>2, <2>2 DEF ShellInv, ListedOnce
  <2>5. \A r \in InState(FG)' : r = s /\ jobs'[r].pid = pid /\ ~bg
    BY <1>2, <2>2 DEF InState, FG, BG
  <2>6. ForegroundKnown'
    BY <1>1, <2>5 DEF ForegroundKnown, InState
  <2>7. QED
    BY <1>3, <2>3, <2>4, <2>6 DEF ShellInv
<1>6. QED
  BY <1>4, <1>5

LEMMA UnblockKeeps == ASSUME ShellInv, Unblock PROVE ShellInv'
<1>1. /\ pc = "unblock" /\ pc' = IF bg THEN "prompt" ELSE "wait_find"
      /\ wpid' = pid /\ UNCHANGED <<jobs, bg, pid, proc>>
  BY DEF Unblock, Main, procVars
<1>2. JobsShape' /\ ForksInOrder' /\ ListedOnce'
  BY <1>1 DEF ShellInv, JobsShape, ForksInOrder, ListedOnce
<1>3. ForegroundKnown'
  BY <1>1 DEF ShellInv, ForegroundKnown, InState
<1>4. QED
  BY <1>2, <1>3 DEF ShellInv

\* do_bgfg writes to the slot it has looked up.
LEMMA SetStateGives ==
    ASSUME ShellInv, SetState PROVE StateGiven(job, IF bg THEN BG ELSE FG)
<1> DEFINE state == IF bg THEN BG ELSE FG
<1>1. JobsShape /\ DOMAIN jobs = Slots
  BY DEF ShellInv, JobsShape
<1>2. jobs' = [jobs EXCEPT ![job].state = state]
  BY DEF SetState
<1>3. jobs' = [r \in Slots |->
                IF r = job THEN [jobs[r] EXCEPT !.state = state] ELSE jobs[r]]
  BY <1>1, <1>2
<1>4. state \in {FG, BG, ST}
  OBVIOUS
<1> HIDE DEF state
<1>5. StateGiven(job, state)
  BY <1>1, <1>3, <1>4, StateChanges
<1>6. QED
  BY <1>5 DEF state

LEMMA SetStateKeeps == ASSUME ShellInv, SetState PROVE ShellInv'
<1>1. pc = "set_state" /\ pc' = "cont" /\ UNCHANGED <<bg, job, proc>>
  BY DEF SetState, Main, procVars
<1>2. InState(FG) = {}
  BY <1>1 DEF ShellInv, ForegroundKnown
<1>3. StateGiven(job, IF bg THEN BG ELSE FG)
  BY SetStateGives
<1>4. ForksInOrder' /\ ListedOnce'
  BY <1>1, <1>3 DEF ShellInv, ForksInOrder, ListedOnce, StateGiven
<1>5. \A r \in InState(FG)' : r = job /\ ~bg
  BY <1>2, <1>3 DEF StateGiven, InState, FG, BG
<1>6. ForegroundKnown'
  BY <1>1, <1>5 DEF ForegroundKnown, InState
<1>7. QED
  BY <1>3, <1>4, <1>6 DEF ShellInv, StateGiven

LEMMA ContKeeps == ASSUME ShellInv, Cont PROVE ShellInv'
<1>1. /\ pc = "cont" /\ pc' = IF bg THEN "prompt" ELSE "call_waitfg"
      /\ killCont(jobs[job].pid)
      /\ UNCHANGED <<jobs, bg, pid, job, wpid>>
  BY DEF Cont, Main
<1>2. /\ proc' = [q \in Pids |-> proc'[q]]
      /\ \A q \in Pids : proc'[q] = "none" <=> proc[q] = "none"
  BY <1>1, KernelKeepsProcesses
<1>3. JobsShape' /\ ForksInOrder' /\ ListedOnce'
  BY <1>1, <1>2 DEF ShellInv, JobsShape, ForksInOrder, ListedOnce
<1>4. ForegroundKnown'
  BY <1>1 DEF ShellInv, ForegroundKnown, InState
<1>5. QED
  BY <1>3, <1>4 DEF ShellInv

LEMMA CallWaitfgKeeps == ASSUME ShellInv, CallWaitfg PROVE ShellInv'
<1>1. /\ pc = "call_waitfg" /\ pc' = "wait_find" /\ wpid' = jobs[job].pid
      /\ UNCHANGED <<jobs, bg, pid, job, proc>>
  BY DEF CallWaitfg, Main, procVars
<1>2. JobsShape' /\ ForksInOrder' /\ ListedOnce'
  BY <1>1 DEF ShellInv, JobsShape, ForksInOrder, ListedOnce
<1>3. ForegroundKnown'
  BY <1>1 DEF ShellInv, ForegroundKnown, InState
<1>4. QED
  BY <1>2, <1>3 DEF ShellInv

\* waitfg finds the foreground job if there is one: no other entry has its
\* process ID.
LEMMA WaitFindKeeps == ASSUME ShellInv, WaitFind PROVE ShellInv'
<1>1. /\ pc = "wait_find" /\ job' = getjobpid(jobs, wpid)
      /\ pc' = IF job' = 0 THEN "prompt" ELSE "wait_test"
      /\ UNCHANGED <<jobs, bg, pid, wpid, proc>>
  BY DEF WaitFind, Main, procVars
<1>2. \A s \in InState(FG) : job' = s /\ s # 0
  <2> SUFFICES ASSUME NEW s \in InState(FG) PROVE job' = s /\ s # 0
    OBVIOUS
  <2>1. s \in Slots /\ jobs[s].pid = wpid /\ wpid # 0 /\ wpid \in Pids
    BY <1>1 DEF ShellInv, ForegroundKnown, ListedOnce, InState
  <2>2. s \in Nat /\ s # 0 /\ wpid >= 1
    BY <2>1, MAXJOBSAssumption, MaxPidAssumption DEF Slots, Pids
  <2>3. {r \in Slots : wpid >= 1 /\ jobs[r].pid = wpid} = {s}
    BY <2>1, <2>2 DEF ShellInv, ListedOnce
  <2>4. First({s}) = s
    BY <2>2 DEF First
  <2>5. QED
    BY <1>1, <2>2, <2>3, <2>4 DEF getjobpid
<1>3. JobsShape' /\ ForksInOrder' /\ ListedOnce'
  BY <1>1 DEF ShellInv, JobsShape, ForksInOrder, ListedOnce
<1>4. ForegroundKnown'
  BY <1>1, <1>2 DEF ShellInv, ForegroundKnown, InState
<1>5. QED
  BY <1>3, <1>4 DEF ShellInv

LEMMA WaitTestKeeps == ASSUME ShellInv, WaitTest PROVE ShellInv'
<1>1. /\ pc = "wait_test"
      /\ pc' = IF jobs[job].state = FG THEN "sleep" ELSE "prompt"
      /\ UNCHANGED <<jobs, bg, pid, job, wpid, proc>>
  BY DEF WaitTest, Main, procVars
<1>2. JobsShape' /\ ForksInOrder' /\ ListedOnce'
  BY <1>1 DEF ShellInv, JobsShape, ForksInOrder, ListedOnce
<1>3. ForegroundKnown'
  BY <1>1 DEF ShellInv, ForegroundKnown, InState
<1>4. QED
  BY <1>2, <1>3 DEF ShellInv

LEMMA SleepKeeps == ASSUME ShellInv, Sleep PROVE ShellInv'
<1>1. /\ pc = "sleep" /\ pc' = "wait_find"
      /\ UNCHANGED <<jobs, bg, pid, job, wpid, proc>>
  BY DEF Sleep, Main, procVars
<1>2. JobsShape' /\ ForksInOrder' /\ ListedOnce'
  BY <1>1 DEF ShellInv, JobsShape, ForksInOrder, ListedOnce
<1>3. ForegroundKnown'
  BY <1>1 DEF ShellInv, ForegroundKnown, InState
<1>4. QED
  BY <1>2, <1>3 DEF ShellInv
-----------------------------------------------------------------------------
\* The handlers.

LEMMA ChldDeleteKeeps == ASSUME ShellInv, ChldDelete PROVE ShellInv'
<1>1. UNCHANGED <<pc, bg, pid, job, wpid, proc>>
  BY DEF ChldDelete, mainVars, procVars
<1>2. CASE UNCHANGED jobs
  BY <1>1, <1>2, ListUntouched DEF ShellInv, ForksInOrder
<1>3. CASE ~ UNCHANGED jobs
  <2>1. PICK s : jobs' = [jobs EXCEPT ![s] = clearjob]
    BY <1>3 DEF ChldDelete, deletejob
  <2>2. \A r \in Slots : jobs'[r] = jobs[r] \/ jobs'[r].pid = 0
    BY <2>1 DEF ShellInv, JobsShape, clearjob
  <2>3. JobsShape'
    BY <2>1 DEF ShellInv, JobsShape, clearjob
  <2>4. InState(FG)' \subseteq InState(FG)
    BY <2>2 DEF InState
  <2>5. Interruption
    BY <1>1, <2>2, <2>3, <2>4 DEF Interruption, ShellInv, ForksInOrder
  <2>6. QED
    BY <2>5, InterruptionKeeps
<1>4. QED
  BY <1>2, <1>3

\* A stopped child that is in the list is marked as stopped there.
LEMMA ChldStoppedGives ==
    ASSUME ShellInv, ChldStopped, ~ UNCHANGED jobs
    PROVE  \E s : StateGiven(s, ST)
<1>1. PICK s : jobs' = [jobs EXCEPT ![s].state = ST]
  BY DEF ChldStopped
<1>2. JobsShape /\ DOMAIN jobs = Slots
  BY DEF ShellInv, JobsShape
<1>3. jobs' = [r \in Slots |->
                IF r = s THEN [jobs[r] EXCEPT !.state = ST] ELSE jobs[r]]
  BY <1>1, <1>2
<1>4. StateGiven(s, ST)
  BY <1>2, <1>3, StateChanges
<1>5. QED
  BY <1>4

LEMMA ChldStoppedKeeps == ASSUME ShellInv, ChldStopped PROVE ShellInv'
<1>1. pc' \in {pc, "exited"} /\ UNCHANGED <<bg, pid, job, wpid, proc>>
  BY DEF ChldStopped, procVars
<1>2. CASE UNCHANGED jobs
  BY <1>1, <1>2, ListUntouched DEF ShellInv, ForksInOrder
<1>3. CASE ~ UNCHANGED jobs
  <2>1. PICK s : StateGiven(s, ST)
    BY <1>3, ChldStoppedGives
  <2>2. InState(FG)' \subseteq InState(FG)
    BY <2>1 DEF StateGiven, InState, FG, ST
  <2>3. Interruption
    BY <1>1, <2>1, <2>2 DEF Interruption, StateGiven, ShellInv, ForksInOrder
  <2>4. QED
    BY <2>3, InterruptionKeeps
<1>4. QED
  BY <1>2, <1>3

LEMMA HandlerKeeps == ASSUME ShellInv, HandlerStep PROVE ShellInv'
<1>1. CASE ChldReap
  <2>1. PICK p \in Pids : /\ proc[p] = "zombie"
                          /\ proc' = [proc EXCEPT ![p] = "reaped"]
    BY <1>1 DEF ChldReap
  <2>2. QED
    BY <1>1, <2>1, ProcessChanges, ListUntouched DEF ChldReap, mainVars
<1>2. CASE ChldReport \/ ChldDone \/ KeyFgpid
  BY <1>2, ListUntouched
  DEF ChldReport, ChldDone, KeyFgpid, mainVars, procVars, ShellInv,
      ForksInOrder
<1>3. CASE ChldDelete
  BY <1>3, ChldDeleteKeeps
<1>4. CASE ChldStopped
  BY <1>4, ChldStoppedKeeps
<1>5. CASE KeyKill
  <2>1. killInt(Top.pid) \/ killTstp(Top.pid)
    BY <1>5 DEF KeyKill
  <2>2. QED
    BY <1>5, <2>1, KernelKeepsProcesses, ListUntouched DEF KeyKill, mainVars
<1>6. QED
  BY <1>1, <1>2, <1>3, <1>4, <1>5 DEF HandlerStep

\* Processes run between any two steps, and change nothing the shell knows.
LEMMA ProcessKeeps ==
    ASSUME ShellInv, NEW p \in Pids,
           ProcessStarts(p) \/ Exit(p) \/ StopSelf(p)
    PROVE  ShellInv'
<1>1. UNCHANGED <<jobs, pc, bg, pid, job, wpid>>
  BY DEF ProcessStarts, Setpgid, Exec, Exit, StopSelf, Unaffected, mainVars
<1>2. CASE Setpgid(p)
  BY <1>1, <1>2, ProcessChanges, ListUntouched DEF Setpgid
<1>3. CASE Exec(p) /\ proc' = [proc EXCEPT ![p] = "running"]
  BY <1>1, <1>3, ProcessChanges, ListUntouched DEF Exec
<1>4. CASE proc[p] # "none" /\ (Terminates(p) \/ Stops(p))
  BY <1>1, <1>4, KernelKeepsProcesses, ListUntouched
<1>5. QED
  BY <1>2, <1>3, <1>4 DEF ProcessStarts, Exec, Exit, StopSelf
-----------------------------------------------------------------------------
LEMMA MainKeeps == ASSUME ShellInv, MainStep PROVE ShellInv'
BY BlockKeeps, ForkKeeps, AddJobKeeps, UnblockKeeps, SetStateKeeps, ContKeeps,
   CallWaitfgKeeps, WaitFindKeeps, WaitTestKeeps, SleepKeeps DEF MainStep

LEMMA NextKeeps == ShellInv /\ [Next]_vars => ShellInv'
<1> SUFFICES ASSUME ShellInv, [Next]_vars PROVE ShellInv'
  OBVIOUS
<1>1. CASE Command
  BY <1>1, CommandKeeps DEF Command
<1>2. CASE MainStep
  BY <1>2, MainKeeps
<1>3. CASE HandlerStep
  BY <1>3, HandlerKeeps
<1>4. CASE \E sig \in {SIGCHLD, SIGINT, SIGTSTP} : Deliver(sig)
  BY <1>4, ListUntouched
  DEF Deliver, mainVars, procVars, ShellInv, ForksInOrder
<1>5. CASE \E sig \in {SIGINT, SIGTSTP} : Key(sig)
  BY <1>5, ListUntouched DEF Key, mainVars, procVars, ShellInv, ForksInOrder
<1>6. CASE \E p \in Pids : ProcessStarts(p) \/ Exit(p) \/ StopSelf(p)
  BY <1>6, ProcessKeeps
<1>7. CASE UNCHANGED vars
  BY <1>7, ListUntouched DEF vars, mainVars, procVars, ShellInv, ForksInOrder
<1>8. QED
  BY <1>1, <1>2, <1>3, <1>4, <1>5, <1>6, <1>7 DEF Next

\* The shell knows at every statement which entry may be the foreground job's.
THEOREM ShellInvariant == Spec => []ShellInv
BY InitShellInv, NextKeeps, PTL DEF Spec

\* At most one job is in the foreground (tsh.c:30), whatever signals arrive
\* while main and the handlers change the list.
THEOREM OneForeground == Spec => []AtMostOneForeground
<1>1. ShellInv => AtMostOneForeground
  <2> SUFFICES ASSUME ShellInv PROVE AtMostOneForeground
    OBVIOUS
  <2>1. CASE InState(FG) = {}
    BY <2>1, FS_EmptySet DEF AtMostOneForeground
  <2>2. CASE InState(FG) # {}
    <3>1. PICK s : InState(FG) = {s}
      BY <2>2 DEF ShellInv, ForegroundKnown
    <3>2. Cardinality(InState(FG)) = 1
      BY <3>1, FS_Singleton
    <3>3. QED
      BY <3>2 DEF AtMostOneForeground
  <2>3. QED
    BY <2>1, <2>2
<1>2. QED
  BY <1>1, ShellInvariant, PTL

\* While a job is listed its state changes as the table at tsh.c:23-29 says: no
\* command and no signal moves a job from the foreground to the background.
THEOREM TransitionsFollowTable == Spec => StatesFollowTable
<1>1. ASSUME ShellInv, [Next]_vars
      PROVE  [\A s \in Slots :
                jobs[s].pid # 0 /\ jobs'[s].pid = jobs[s].pid
                    /\ jobs'[s].state # jobs[s].state
                => <<jobs[s].state, jobs'[s].state>> \in StateTransitions]_vars
  <2>1. SUFFICES ASSUME Next, NEW s \in Slots,
                        jobs[s].pid # 0, jobs'[s].pid = jobs[s].pid,
                        jobs'[s].state # jobs[s].state
                 PROVE  <<jobs[s].state, jobs'[s].state>> \in StateTransitions
    BY <1>1
  <2>2. jobs[s].state \in {FG, BG, ST}
    BY <1>1, <2>1 DEF ShellInv, JobsShape
  <2>3. AddJob \/ SetState \/ ChldDelete \/ ChldStopped
    BY <2>1 DEF Next, Command, ReadRun, ReadBgfg, ReadJobs, ReadBlank, ReadQuit,
        MainStep, Block, Fork, Unblock, Cont, CallWaitfg, WaitFind, WaitTest,
        Sleep, HandlerStep, ChldReap, ChldReport, ChldDone, KeyFgpid, KeyKill,
        Deliver, Key, ProcessStarts, Setpgid, Exec, Exit, StopSelf, Unaffected
  <2>4. CASE AddJob
    <3>1. PICK t : jobs' = [jobs EXCEPT ![t] =
                    [pid |-> pid, jid |-> nextjid,
                     state |-> IF bg THEN BG ELSE FG]]
      BY <2>1, <2>4 DEF AddJob, addjob
    <3>2. jobs'[s] = jobs[s] \/ jobs'[s].pid = pid
      BY <1>1, <3>1 DEF ShellInv, JobsShape
    <3>3. jobs[s].pid # pid
      BY <1>1, <2>4 DEF AddJob, Main, ShellInv, ListedOnce
    <3>4. QED
      BY <2>1, <3>2, <3>3
  <2>5. CASE SetState
    <3>1. InState(FG) = {}
      BY <1>1, <2>5 DEF SetState, Main, ShellInv, ForegroundKnown
    <3>2. jobs[s].state \in {BG, ST}
      BY <2>1, <2>2, <3>1 DEF InState
    <3>3. StateGiven(job, IF bg THEN BG ELSE FG)
      BY <1>1, <2>5, SetStateGives
    <3>4. jobs'[s].state \in {BG, FG}
      BY <2>1, <3>3 DEF StateGiven
    <3>5. QED
      BY <2>1, <3>2, <3>4 DEF StateTransitions
  <2>6. CASE ChldDelete
    <3>1. PICK t : jobs' = [jobs EXCEPT ![t] = clearjob]
      BY <2>1, <2>6 DEF ChldDelete, deletejob
    <3>2. jobs'[s] = jobs[s] \/ jobs'[s].pid = 0
      BY <1>1, <3>1 DEF ShellInv, JobsShape, clearjob
    <3>3. QED
      BY <2>1, <3>2
  <2>7. CASE ChldStopped
    <3>1. PICK t : StateGiven(t, ST)
      BY <1>1, <2>1, <2>7, ChldStoppedGives
    <3>2. jobs'[s].state = ST
      BY <2>1, <3>1 DEF StateGiven
    <3>3. QED
      BY <2>1, <2>2, <3>2 DEF StateTransitions
  <2>8. QED
    BY <2>3, <2>4, <2>5, <2>6, <2>7
<1>2. QED
  BY <1>1, ShellInvariant, PTL DEF Spec, StatesFollowTable

\* The shell prompts only when no job is in the foreground: waitfg does not
\* return before the job it waits for has ended or stopped.
THEOREM PromptMeansNoForeground == Spec => []PromptWithoutForeground
<1>1. ShellInv => PromptWithoutForeground
  BY DEF ShellInv, ForegroundKnown, PromptWithoutForeground
<1>2. QED
  BY <1>1, ShellInvariant, PTL
-----------------------------------------------------------------------------
(* The job list and the children.  A child may be missing from the list only *)
(* between its fork and addjob, and a process that is gone may be in it only *)
(* between its waitpid and deletejob: in that time the handler of SIGCHLD,   *)
(* of which there is one at most, is where it deletes this very process.     *)

Frame == [sig : {SIGCHLD, SIGINT, SIGTSTP}, pid : 0 .. MaxPid,
          at : {"waitpid", "deletejob", "stopped", "fgpid", "kill"}]

\* A handler is not run again before it has returned.
FramesShape ==
    /\ stack \in Seq(Frame)
    /\ \A i, j \in DOMAIN stack :
        stack[i].sig = SIGCHLD /\ stack[j].sig = SIGCHLD => i = j

\* The handler of SIGCHLD does not run while eval forks and adds the job.
ChldBlocked ==
    pc \in {"fork", "addjob", "unblock"} => blocked /\ ~Running(SIGCHLD)

\* The handler is about to delete the entry of p.
Deleting(p) ==
    \E i \in DOMAIN stack : stack[i].at = "deletejob" /\ stack[i].pid = p

\* An entry is a child's or about to be deleted, and only a process that was
\* reaped has its entry deleted.
EntriesAreChildren ==
    /\ \A i \in DOMAIN stack : stack[i].at = "deletejob" =>
        /\ stack[i].sig = SIGCHLD
        /\ stack[i].pid \in Pids
        /\ proc[stack[i].pid] = "reaped"
    /\ \A s \in Slots : \/ jobs[s].pid \in Children \cup {0}
                        \/ Deleting(jobs[s].pid)
    /\ pc = "addjob" => pid \in Children

\* Only processes stop.
StopsReported == unreported \subseteq Pids

ListInv == FramesShape /\ StopsReported /\ ChldBlocked /\ EntriesAreChildren

\* addjob finds a free slot.
RoomForJob == pc = "addjob" => \E s \in Slots : jobs[s].pid = 0

\* A child is in the list, or just about to be added.
ChildrenListed ==
    \A p \in Children : \/ \E s \in Slots : jobs[s].pid = p
                        \/ pc = "addjob" /\ p = pid

\* No handler runs and no process exists when the shell starts.
LEMMA InitListInv == Init => ListInv /\ ChildrenListed
<1> SUFFICES ASSUME Init PROVE ListInv /\ ChildrenListed
  OBVIOUS
<1>1. stack = <<>> /\ stack \in Seq(Frame) /\ DOMAIN stack = {}
  BY DEF Init
<1>2. FramesShape /\ StopsReported /\ ChldBlocked
  BY <1>1 DEF Init, FramesShape, StopsReported, ChldBlocked
<1>3. Children = {}
  BY DEF Init, Children, Alive
<1>4. EntriesAreChildren /\ ChildrenListed
  BY <1>1, <1>3
  DEF Init, JobListInit, initjobs, clearjob, EntriesAreChildren, ChildrenListed
<1>5. QED
  BY <1>2, <1>4 DEF ListInv

\* First finds a slot if there is one.
LEMMA FirstFound ==
    ASSUME NEW S \in SUBSET Slots, S # {} PROVE First(S) \in S
<1>1. S \in SUBSET Nat
  BY MAXJOBSAssumption DEF Slots
<1>2. IsWellFoundedOn(OpToRel(<, Nat), Nat)
  BY NatLessThanWellFounded
<1>3. PICK s \in S : \A r \in S : ~(<<r, s>> \in OpToRel(<, Nat))
  BY <1>1, <1>2, WFMin
<1>4. ASSUME NEW r \in S PROVE s <= r
  <2>1. ~(<<r, s>> \in OpToRel(<, Nat))
    BY <1>3
  <2>2. QED
    BY <1>1, <2>1 DEF OpToRel
<1>5. QED
  BY <1>4 DEF First

\* getjobpid finds the entry of a process if it has one.
LEMMA EntryFound ==
    ASSUME ShellInv, NEW s \in Slots, jobs[s].pid # 0
    PROVE  getjobpid(jobs, jobs[s].pid) = s /\ s # 0
<1>1. jobs[s].pid \in Pids /\ jobs[s].pid >= 1 /\ s # 0
  BY MAXJOBSAssumption, MaxPidAssumption DEF ShellInv, ListedOnce, Pids, Slots
<1>2. {r \in Slots : jobs[s].pid >= 1 /\ jobs[r].pid = jobs[s].pid} = {s}
  BY <1>1 DEF ShellInv, ListedOnce
<1>3. First({s}) \in {s}
  BY FirstFound
<1>4. QED
  BY <1>1, <1>2, <1>3 DEF getjobpid

\* The process ID that fgpid returns is an entry's.
LEMMA FgpidIsPid == ASSUME ShellInv PROVE fgpid(jobs) \in 0 .. MaxPid
<1> DEFINE S == {r \in Slots : jobs[r].state = FG}
<1>1. CASE S = {}
  BY <1>1, MaxPidAssumption DEF fgpid, First
<1>2. CASE S # {}
  <2>1. First(S) \in Slots /\ First(S) # 0
    BY <1>2, FirstFound, MAXJOBSAssumption DEF Slots
  <2>2. jobs[First(S)].pid \in 0 .. MaxPid
    BY <2>1, MaxPidAssumption DEF ShellInv, ListedOnce, Pids
  <2>3. QED
    BY <2>1, <2>2 DEF fgpid
<1>3. QED
  BY <1>1, <1>2
-----------------------------------------------------------------------------
\* The stack of the handlers.

\* The top frame goes on; nothing else changes.
LEMMA FrameGoesOn ==
    ASSUME FramesShape, stack # <<>>, NEW p \in 0 .. MaxPid,
           NEW at \in {"waitpid", "deletejob", "stopped", "fgpid", "kill"},
           GoOn(at, p)
    PROVE  /\ FramesShape'
           /\ DOMAIN stack' = DOMAIN stack /\ Len(stack) \in DOMAIN stack
           /\ \A i \in DOMAIN stack : stack'[i].sig = stack[i].sig
           /\ \A i \in DOMAIN stack : i # Len(stack) => stack'[i] = stack[i]
           /\ stack'[Len(stack)].at = at /\ stack'[Len(stack)].pid = p
<1> DEFINE n == Len(stack)
           top == [stack[n] EXCEPT !.at = at, !.pid = p]
<1>1. n \in DOMAIN stack /\ stack \in Seq(Frame)
  BY DEF FramesShape
<1>2. stack[n] \in Frame
  BY <1>1
<1>3. top \in Frame /\ top.at = at /\ top.pid = p /\ top.sig = stack[n].sig
  BY <1>2 DEF Frame
<1>4. stack' = [stack EXCEPT ![n] = top]
  BY <1>1 DEF GoOn
<1> HIDE DEF top
<1>5. /\ stack' \in Seq(Frame) /\ DOMAIN stack' = DOMAIN stack
      /\ \A i \in DOMAIN stack : stack'[i] = IF i = n THEN top ELSE stack[i]
  BY <1>1, <1>3, <1>4
<1>6. \A i \in DOMAIN stack : stack'[i].sig = stack[i].sig
  BY <1>3, <1>5
<1>7. FramesShape'
  BY <1>5, <1>6 DEF FramesShape
<1>8. QED
  BY <1>1, <1>3, <1>5, <1>6, <1>7

\* The top frame returns.
LEMMA FrameReturns ==
    ASSUME FramesShape, stack # <<>>, Return
    PROVE  /\ FramesShape'
           /\ \A i \in DOMAIN stack' :
                i \in DOMAIN stack /\ stack'[i] = stack[i]
           /\ \A i \in DOMAIN stack : i # Len(stack) => i \in DOMAIN stack'
<1>1. stack' = SubSeq(stack, 1, Len(stack) - 1) /\ stack \in Seq(Frame)
  BY DEF Return, Below, FramesShape
<1>2. Len(stack) \in Nat /\ Len(stack) >= 1
  BY <1>1
<1>3. /\ stack' \in Seq(Frame) /\ Len(stack') = Len(stack) - 1
      /\ \A i \in 1 .. Len(stack) - 1 : stack'[i] = stack[i]
  <2> DEFINE n == Len(stack) - 1
  <2>1. n \in Nat /\ n <= Len(stack)
    BY <1>2
  <2> HIDE DEF n
  <2>2. Len(SubSeq(stack, 1, n)) = n
    BY <1>1, <2>1
  <2>3. \A i \in 1 .. n : SubSeq(stack, 1, n)[i] = stack[i]
    BY <1>1, <2>1
  <2>4. SubSeq(stack, 1, n) \in Seq(Frame)
    BY <1>1, <2>1
  <2>5. QED
    BY <1>1, <2>2, <2>3, <2>4 DEF n
<1>4. /\ \A i \in DOMAIN stack' : i \in DOMAIN stack /\ stack'[i] = stack[i]
      /\ \A i \in DOMAIN stack : i # Len(stack) => i \in DOMAIN stack'
  BY <1>1, <1>2, <1>3
<1>5. QED
  BY <1>3, <1>4 DEF FramesShape

\* A handler starts, which was not running.
LEMMA FrameStarts ==
    ASSUME FramesShape, NEW sig \in {SIGCHLD, SIGINT, SIGTSTP}, Deliver(sig)
    PROVE  /\ FramesShape'
           /\ \A i \in DOMAIN stack :
                i \in DOMAIN stack' /\ stack'[i] = stack[i]
           /\ \A i \in DOMAIN stack' : i \notin DOMAIN stack =>
                stack'[i].sig = sig /\ stack'[i].at # "deletejob"
<1> DEFINE frame == [sig |-> sig, pid |-> 0,
                     at |-> IF sig = SIGCHLD THEN "waitpid" ELSE "fgpid"]
<1>1. frame \in Frame /\ frame.sig = sig /\ frame.at # "deletejob"
  BY MaxPidAssumption DEF Frame
<1>2. stack' = Append(stack, frame) /\ ~Running(sig) /\ stack \in Seq(Frame)
  BY DEF Deliver, FramesShape
<1> HIDE DEF frame
<1>3. /\ stack' \in Seq(Frame) /\ DOMAIN stack' = 1 .. Len(stack) + 1
      /\ DOMAIN stack = 1 .. Len(stack) /\ Len(stack) \in Nat
      /\ \A i \in DOMAIN stack : stack'[i] = stack[i]
      /\ stack'[Len(stack) + 1] = frame
  BY <1>1, <1>2
<1>4. \A i \in DOMAIN stack' : i \notin DOMAIN stack => i = Len(stack) + 1
  BY <1>3
<1>5. \A i, j \in DOMAIN stack' :
        stack'[i].sig = SIGCHLD /\ stack'[j].sig = SIGCHLD => i = j
  BY <1>1, <1>2, <1>3, <1>4 DEF FramesShape, Running
<1>6. FramesShape'
  BY <1>3, <1>5 DEF FramesShape
<1>7. QED
  BY <1>1, <1>3, <1>4, <1>6
-----------------------------------------------------------------------------
\* While SIGCHLD is blocked its handler does not come to run.

LEMMA BlockedUntilUnblocked ==
    ASSUME ChldBlocked, UNCHANGED blocked,
           Running(SIGCHLD)' => Running(SIGCHLD),
           pc' \in {"fork", "addjob", "unblock"} =>
                pc \in {"fork", "addjob", "unblock"}
    PROVE  ChldBlocked'
BY DEF ChldBlocked

LEMMA MainKeepsBlocked ==
    ASSUME FramesShape, ChldBlocked, MainStep
    PROVE  ChldBlocked' /\ UNCHANGED stack
<1>1. stack = <<>> /\ UNCHANGED stack
  BY DEF MainStep, Main, Block, Fork, AddJob, Unblock, SetState, Cont,
         CallWaitfg, WaitFind, WaitTest, Sleep
<1>2. ~Running(SIGCHLD)'
  BY <1>1 DEF Running
<1>3. CASE Block
  BY <1>2, <1>3 DEF Block, ChldBlocked
<1>4. CASE Unblock
  BY <1>4 DEF Unblock, Main, ChldBlocked
<1>5. CASE Fork \/ AddJob
  BY <1>2, <1>5, BlockedUntilUnblocked DEF Fork, AddJob, Main
<1>6. CASE SetState \/ Cont \/ CallWaitfg \/ WaitFind \/ WaitTest \/ Sleep
  BY <1>2, <1>6, BlockedUntilUnblocked
  DEF SetState, Cont, CallWaitfg, WaitFind, WaitTest, Sleep, Main
<1>7. QED
  BY <1>1, <1>3, <1>4, <1>5, <1>6 DEF MainStep

\* What a step leaves alone when it neither adds nor deletes an entry, and
\* neither makes nor reaps a child.
NothingMoves ==
    /\ FramesShape' /\ StopsReported' /\ ChldBlocked'
    /\ UNCHANGED <<pid, Children>>
    /\ \A p \in Pids : proc[p] = "reaped" => proc'[p] = "reaped"
    /\ \A s \in Slots : jobs'[s].pid = jobs[s].pid
    /\ \A i \in DOMAIN stack' : stack'[i].at = "deletejob" =>
            /\ i \in DOMAIN stack
            /\ stack'[i].sig = stack[i].sig
            /\ stack'[i].at = stack[i].at
            /\ stack'[i].pid = stack[i].pid
    /\ \A i \in DOMAIN stack : stack[i].at = "deletejob" =>
            /\ i \in DOMAIN stack'
            /\ stack'[i].at = stack[i].at
            /\ stack'[i].pid = stack[i].pid
    /\ pc' = "addjob" <=> pc = "addjob"

LEMMA NothingMovesKeeps ==
    ASSUME ListInv, NothingMoves
    PROVE  ListInv' /\ (ChildrenListed => ChildrenListed')
<1>1. \A p : Deleting(p) => Deleting(p)'
  BY DEF NothingMoves, Deleting
<1>2. \A i \in DOMAIN stack' : stack'[i].at = "deletejob" =>
        /\ stack'[i].sig = SIGCHLD
        /\ stack'[i].pid \in Pids
        /\ proc'[stack'[i].pid] = "reaped"
  BY DEF NothingMoves, ListInv, EntriesAreChildren
<1>3. \A s \in Slots : \/ jobs'[s].pid \in Children' \cup {0}
                       \/ Deleting(jobs[s].pid)'
  <2> SUFFICES ASSUME NEW s \in Slots
               PROVE  \/ jobs'[s].pid \in Children' \cup {0}
                      \/ Deleting(jobs[s].pid)'
    OBVIOUS
  <2>1. PICK p : p = jobs[s].pid
    OBVIOUS
  <2>2. jobs'[s].pid = p /\ (p \in Children' \cup {0} \/ Deleting(p))
    BY <2>1 DEF NothingMoves, ListInv, EntriesAreChildren
  <2>3. Deleting(p) => Deleting(p)'
    BY <1>1
  <2>4. QED
    BY <2>2, <2>3 DEF Deleting
<1>4. EntriesAreChildren'
  BY <1>2, <1>3 DEF NothingMoves, ListInv, EntriesAreChildren
<1>5. ChildrenListed => ChildrenListed'
  BY DEF NothingMoves, ChildrenListed
<1>6. QED
  BY <1>4, <1>5 DEF NothingMoves, ListInv

\* A process that lives on, or is a zombie, remains a child.
LEMMA ChildrenStay ==
    ASSUME ShellInv, NEW p, NEW state,
           proc[p] \in Alive \cup {"zombie"}, state \in Alive \cup {"zombie"},
           proc' = [proc EXCEPT ![p] = state]
    PROVE  /\ UNCHANGED Children
           /\ \A q \in Pids : proc[q] = "reaped" => proc'[q] = "reaped"
BY DEF ShellInv, ForksInOrder, Children, Alive

\* The effects of a signal or of the end of a process are of that kind.
LEMMA KernelKeepsChildren ==
    ASSUME ShellInv, NEW p,
           \/ proc[p] \in Alive /\ (Terminates(p) \/ Stops(p) \/ Continues(p))
           \/ killInt(p) \/ killTstp(p) \/ killCont(p) \/ NoEffect
    PROVE  /\ UNCHANGED Children
           /\ \A q \in Pids : proc[q] = "reaped" => proc'[q] = "reaped"
<1>1. CASE UNCHANGED proc
  BY <1>1 DEF Children
<1>2. CASE proc[p] \in Alive /\ (Terminates(p) \/ Stops(p) \/ Continues(p))
  BY <1>2, ChildrenStay DEF Terminates, Stops, Continues, Alive
<1>3. CASE NoEffect
  BY <1>1, <1>3 DEF NoEffect, procVars
<1>4. CASE killInt(p)
  BY <1>1, <1>2, <1>3, <1>4 DEF killInt, Alive
<1>5. CASE killTstp(p)
  BY <1>2, <1>3, <1>5 DEF killTstp, Alive
<1>6. CASE killCont(p)
  BY <1>2, <1>3, <1>6 DEF killCont, Alive
<1>7. QED
  BY <1>2, <1>3, <1>4, <1>5, <1>6
-----------------------------------------------------------------------------
\* The steps that make or delete an entry, or make or reap a child.

LEMMA ForkKeepsList ==
    ASSUME ShellInv, ListInv, Fork
    PROVE  ListInv' /\ (ChildrenListed => ChildrenListed')
<1>1. /\ pc = "fork" /\ pc' = "addjob" /\ pid' = Forked + 1
      /\ proc' = [proc EXCEPT ![pid'] = "started"]
      /\ stack = <<>> /\ UNCHANGED <<jobs, stack, unreported>>
  BY DEF Fork, Main
<1>2. PICK n \in 0 .. MaxPid : \A p \in Pids : proc[p] # "none" <=> p <= n
  BY DEF ShellInv, ForksInOrder
<1>3. pid' \in Pids /\ proc[pid'] = "none"
  <2>1. pid' = n + 1
    BY <1>1, <1>2, ForkedInOrder
  <2>2. QED
    BY <1>1, <1>2, <2>1, MaxPidAssumption DEF ShellInv, ForksInOrder, Pids
<1>4. Children' = Children \cup {pid'}
  BY <1>1, <1>3 DEF ShellInv, ForksInOrder, Children, Alive
<1>5. DOMAIN stack = {} /\ \A p : ~Deleting(p)
  BY <1>1 DEF Deleting
<1>6. FramesShape' /\ StopsReported' /\ ChldBlocked'
  BY <1>1, MainKeepsBlocked DEF ListInv, FramesShape, StopsReported, MainStep
<1>7. EntriesAreChildren'
  BY <1>1, <1>4, <1>5 DEF ListInv, EntriesAreChildren
<1>8. ChildrenListed => ChildrenListed'
  BY <1>1, <1>4 DEF ChildrenListed
<1>9. QED
  BY <1>6, <1>7, <1>8 DEF ListInv

LEMMA AddJobKeepsList ==
    ASSUME ShellInv, ListInv, AddJob
    PROVE  ListInv' /\ (RoomForJob /\ ChildrenListed => ChildrenListed')
<1> DEFINE free == {r \in Slots : jobs[r].pid = 0}
<1>1. /\ pc = "addjob" /\ pc' = "unblock" /\ addjob(pid, IF bg THEN BG ELSE FG)
      /\ stack = <<>> /\ UNCHANGED <<pid, stack, proc, unreported>>
  BY DEF AddJob, Main, procVars
<1>2. pid \in Children /\ UNCHANGED Children
  BY <1>1 DEF ListInv, EntriesAreChildren, Children
<1>3. FramesShape' /\ StopsReported' /\ ChldBlocked'
  BY <1>1, MainKeepsBlocked DEF ListInv, FramesShape, StopsReported, MainStep
<1>4. DOMAIN stack = {}
  BY <1>1
<1>5. CASE free = {}
  <2>1. UNCHANGED jobs
    BY <1>1, <1>5 DEF addjob, First
  <2>2. EntriesAreChildren' /\ ~RoomForJob
    BY <1>1, <1>2, <1>5, <2>1
    DEF ListInv, EntriesAreChildren, RoomForJob, Deleting
  <2>3. QED
    BY <1>3, <2>2 DEF ListInv
<1>6. CASE free # {}
  <2>1. PICK s : s = First(free)
    OBVIOUS
  <2>2. s \in Slots /\ jobs[s].pid = 0 /\ s # 0
    BY <1>6, <2>1, FirstFound, MAXJOBSAssumption DEF Slots
  <2>3. jobs' = [jobs EXCEPT ![s] = [pid |-> pid, jid |-> nextjid,
                                     state |-> IF bg THEN BG ELSE FG]]
    BY <1>1, <2>1, <2>2 DEF addjob
  <2>4. \A r \in Slots : jobs'[r].pid = IF r = s THEN pid ELSE jobs[r].pid
    BY <2>3 DEF ShellInv, JobsShape
  <2>5. EntriesAreChildren'
    BY <1>1, <1>2, <1>4, <2>4 DEF ListInv, EntriesAreChildren, Deleting
  <2>6. ChildrenListed => ChildrenListed'
    BY <1>1, <1>2, <2>2, <2>4, MaxPidAssumption
    DEF ChildrenListed, Children, Pids
  <2>7. QED
    BY <1>3, <2>5, <2>6 DEF ListInv
<1>7. QED
  BY <1>5, <1>6

\* waitpid reaps a child: its entry is the next the handler deletes.
LEMMA ReapKeepsList ==
    ASSUME ShellInv, ListInv, ChldReap
    PROVE  ListInv' /\ (ChildrenListed => ChildrenListed')
<1>1. PICK p \in Pids :
        /\ proc[p] = "zombie" /\ proc' = [proc EXCEPT ![p] = "reaped"]
        /\ GoOn("deletejob", p)
  BY DEF ChldReap
<1>2. /\ stack # <<>> /\ Top.sig = SIGCHLD /\ Top.at = "waitpid"
      /\ UNCHANGED <<jobs, pc, pid, blocked, unreported>>
  BY DEF ChldReap, Handler, mainVars
<1>3. /\ FramesShape'
      /\ DOMAIN stack' = DOMAIN stack /\ Len(stack) \in DOMAIN stack
      /\ \A i \in DOMAIN stack : stack'[i].sig = stack[i].sig
      /\ \A i \in DOMAIN stack : i # Len(stack) => stack'[i] = stack[i]
      /\ stack'[Len(stack)].at = "deletejob" /\ stack'[Len(stack)].pid = p
  <2>1. p \in 0 .. MaxPid
    BY MaxPidAssumption DEF Pids
  <2>2. QED
    BY <1>1, <1>2, <2>1, FrameGoesOn DEF ListInv
<1>4. Running(SIGCHLD) /\ Running(SIGCHLD)'
  BY <1>2, <1>3 DEF Running, Top
<1>5. ChldBlocked' /\ pc # "addjob"
  BY <1>2, <1>4 DEF ListInv, ChldBlocked
<1>6. /\ Children' = Children \ {p}
      /\ \A q \in Pids : proc'[q] = IF q = p THEN "reaped" ELSE proc[q]
  BY <1>1 DEF ShellInv, ForksInOrder, Children, Alive
<1>7. \A q : (q = p \/ Deleting(q)) => Deleting(q)'
  BY <1>2, <1>3 DEF Deleting, Top
<1>8. \A i \in DOMAIN stack' : stack'[i].at = "deletejob" =>
        /\ stack'[i].sig = SIGCHLD
        /\ stack'[i].pid \in Pids
        /\ proc'[stack'[i].pid] = "reaped"
  BY <1>2, <1>3, <1>6 DEF ListInv, EntriesAreChildren, Top
<1>9. ASSUME NEW s \in Slots
      PROVE  \/ jobs'[s].pid \in Children' \cup {0}
             \/ Deleting(jobs[s].pid)'
  <2>1. PICK q : q = jobs[s].pid
    OBVIOUS
  <2>2. q \in Children \cup {0} \/ Deleting(q)
    BY <2>1 DEF ListInv, EntriesAreChildren
  <2>3. q \in Children' \cup {0} \/ Deleting(q)'
    BY <1>6, <1>7, <2>2
  <2>4. QED
    BY <1>2, <2>1, <2>3 DEF Deleting
<1>10. EntriesAreChildren'
  BY <1>2, <1>5, <1>8, <1>9 DEF EntriesAreChildren
<1>11. ChildrenListed => ChildrenListed'
  BY <1>2, <1>6 DEF ChildrenListed
<1>12. QED
  BY <1>2, <1>3, <1>5, <1>10, <1>11 DEF ListInv, StopsReported

\* deletejob takes the entry of the process that was reaped, and only this one.
LEMMA DeleteKeepsList ==
    ASSUME ShellInv, ListInv, ChldDelete
    PROVE  ListInv' /\ (ChildrenListed => ChildrenListed')
<1>1. /\ stack # <<>> /\ Top.sig = SIGCHLD /\ Top.at = "deletejob"
      /\ deletejob(Top.pid) /\ GoOn("waitpid", 0)
      /\ UNCHANGED <<pc, pid, blocked, proc, unreported>>
  BY DEF ChldDelete, Handler, mainVars, procVars
<1>2. /\ FramesShape'
      /\ DOMAIN stack' = DOMAIN stack /\ Len(stack) \in DOMAIN stack
      /\ \A i \in DOMAIN stack : stack'[i].sig = stack[i].sig
      /\ \A i \in DOMAIN stack : i # Len(stack) => stack'[i] = stack[i]
      /\ stack'[Len(stack)].at = "waitpid"
  <2>1. 0 \in 0 .. MaxPid
    BY MaxPidAssumption
  <2>2. QED
    BY <1>1, <2>1, FrameGoesOn DEF ListInv
<1>3. Running(SIGCHLD) /\ Running(SIGCHLD)' /\ UNCHANGED Children
  BY <1>1, <1>2 DEF Running, Top, Children
<1>4. ChldBlocked' /\ pc # "addjob"
  BY <1>1, <1>3 DEF ListInv, ChldBlocked
<1>5. PICK p : p = Top.pid
  OBVIOUS
<1>6. p \in Pids /\ proc[p] = "reaped" /\ p \notin Children /\ p # 0
  BY <1>1, <1>2, <1>5, MaxPidAssumption
  DEF ListInv, EntriesAreChildren, Top, Pids, Children, Alive
<1>7. \A i \in DOMAIN stack : stack[i].at = "deletejob" => i = Len(stack)
  BY <1>1, <1>2 DEF ListInv, EntriesAreChildren, FramesShape, Top
<1>8. \A q : Deleting(q) => q = p
  BY <1>5, <1>7 DEF Deleting, Top
<1>9. \A s \in Slots : jobs'[s].pid = IF jobs[s].pid = p THEN 0 ELSE jobs[s].pid
  <2>1. CASE \E s \in Slots : jobs[s].pid = p
    <3>1. PICK s \in Slots : jobs[s].pid = p
      BY <2>1
    <3>2. getjobpid(jobs, p) = s /\ s # 0
      BY <1>6, <3>1, EntryFound
    <3>3. jobs' = [jobs EXCEPT ![s] = clearjob]
      BY <1>1, <1>5, <3>2 DEF deletejob
    <3>4. \A r \in Slots : jobs'[r] = IF r = s THEN clearjob ELSE jobs[r]
      BY <3>3 DEF ShellInv, JobsShape
    <3>5. \A r \in Slots : jobs[r].pid = p <=> r = s
      BY <1>6, <3>1 DEF ShellInv, ListedOnce
    <3>6. clearjob.pid = 0
      BY DEF clearjob
    <3>7. QED
      BY <3>4, <3>5, <3>6
  <2>2. CASE \A s \in Slots : jobs[s].pid # p
    <3>1. getjobpid(jobs, p) = 0
      BY <2>2 DEF getjobpid, First
    <3>2. UNCHANGED jobs
      BY <1>1, <1>5, <3>1 DEF deletejob
    <3>3. QED
      BY <2>2, <3>2
  <2>3. QED
    BY <2>1, <2>2
<1>10. ASSUME NEW s \in Slots
       PROVE  jobs'[s].pid \in Children' \cup {0}
  <2>1. PICK q : q = jobs[s].pid
    OBVIOUS
  <2>2. q \in Children \cup {0} \/ q = p
    BY <1>8, <2>1 DEF ListInv, EntriesAreChildren
  <2>3. QED
    BY <1>3, <1>9, <2>1, <2>2
<1>11. \A i \in DOMAIN stack' : stack'[i].at # "deletejob"
  BY <1>2, <1>7
<1>12. EntriesAreChildren'
  BY <1>1, <1>4, <1>10, <1>11 DEF EntriesAreChildren
<1>13. ChildrenListed => ChildrenListed'
  BY <1>1, <1>3, <1>6, <1>9 DEF ChildrenListed
<1>14. QED
  BY <1>1, <1>2, <1>4, <1>12, <1>13 DEF ListInv, StopsReported
-----------------------------------------------------------------------------
\* All other steps.

LEMMA MainMovesNothing ==
    ASSUME ShellInv, ListInv,
           \/ Block \/ Unblock \/ SetState \/ Cont \/ CallWaitfg
           \/ WaitFind \/ WaitTest \/ Sleep
    PROVE  NothingMoves
<1>1. UNCHANGED stack /\ ChldBlocked' /\ FramesShape'
  BY MainKeepsBlocked DEF MainStep, ListInv, FramesShape
<1>2. StopsReported'
  <2>1. unreported' \subseteq unreported
    BY DEF Block, Unblock, SetState, Cont, CallWaitfg, WaitFind, WaitTest,
           Sleep, procVars, killCont, Terminates, Continues, NoEffect
  <2>2. QED
    BY <2>1 DEF ListInv, StopsReported
<1>3. UNCHANGED pid /\ (pc' = "addjob" <=> pc = "addjob")
  BY DEF Block, Unblock, SetState, Cont, CallWaitfg, WaitFind, WaitTest, Sleep,
         Main
<1>4. /\ UNCHANGED Children
      /\ \A q \in Pids : proc[q] = "reaped" => proc'[q] = "reaped"
  <2>1. CASE UNCHANGED proc
    BY <2>1 DEF Children
  <2>2. CASE Cont
    BY <2>2, KernelKeepsChildren DEF Cont
  <2>3. QED
    BY <2>1, <2>2 DEF Block, Unblock, SetState, CallWaitfg, WaitFind, WaitTest,
        Sleep, procVars
<1>5. \A s \in Slots : jobs'[s].pid = jobs[s].pid
  <2>1. CASE UNCHANGED jobs
    BY <2>1
  <2>2. CASE SetState
    BY <2>2, SetStateGives DEF StateGiven
  <2>3. QED
    BY <2>1, <2>2 DEF Block, Unblock, Cont, CallWaitfg, WaitFind, WaitTest,
        Sleep
<1>6. QED
  BY <1>1, <1>2, <1>3, <1>4, <1>5 DEF NothingMoves

\* A command line changes neither list nor processes.
LEMMA CommandMovesNothing ==
    ASSUME ListInv, NEW cmd,
           \/ ReadRun(cmd) \/ ReadBgfg(cmd) \/ ReadJobs(cmd)
           \/ ReadBlank(cmd) \/ ReadQuit(cmd)
    PROVE  NothingMoves
<1>1. /\ pc = "prompt"
      /\ pc' \in {"prompt", "block", "set_state", "crashed", "exited"}
      /\ UNCHANGED <<jobs, proc, pid, stack, unreported>>
  BY DEF ReadRun, ReadBgfg, ReadJobs, ReadBlank, ReadQuit, TypeCommand, Main,
         procVars
<1>2. FramesShape' /\ StopsReported' /\ ChldBlocked' /\ UNCHANGED Children
  BY <1>1 DEF ListInv, FramesShape, StopsReported, ChldBlocked, Children
<1>3. QED
  BY <1>1, <1>2 DEF NothingMoves

\* The rest of the handlers: no frame comes to a deletejob or leaves one.
FramesStay ==
    /\ FramesShape'
    /\ Running(SIGCHLD)' => Running(SIGCHLD)
    /\ \A i \in DOMAIN stack' : stack'[i].at = "deletejob" =>
            /\ i \in DOMAIN stack
            /\ stack'[i].sig = stack[i].sig
            /\ stack'[i].at = stack[i].at
            /\ stack'[i].pid = stack[i].pid
    /\ \A i \in DOMAIN stack : stack[i].at = "deletejob" =>
            /\ i \in DOMAIN stack'
            /\ stack'[i].at = stack[i].at
            /\ stack'[i].pid = stack[i].pid

LEMMA GoesOnElsewhere ==
    ASSUME FramesShape, stack # <<>>, Top.at # "deletejob",
           NEW p \in 0 .. MaxPid, NEW at \in {"waitpid", "stopped", "kill"},
           GoOn(at, p)
    PROVE  FramesStay
<1>1. /\ FramesShape'
      /\ DOMAIN stack' = DOMAIN stack /\ Len(stack) \in DOMAIN stack
      /\ \A i \in DOMAIN stack : stack'[i].sig = stack[i].sig
      /\ \A i \in DOMAIN stack : i # Len(stack) => stack'[i] = stack[i]
      /\ stack'[Len(stack)].at = at
  BY FrameGoesOn
<1>2. \A i \in DOMAIN stack : i = Len(stack) =>
        stack'[i].at # "deletejob" /\ stack[i].at # "deletejob"
  BY <1>1 DEF Top
<1>3. QED
  BY <1>1, <1>2 DEF FramesStay, Running

LEMMA ReturnsElsewhere ==
    ASSUME FramesShape, stack # <<>>, Top.at # "deletejob", Return
    PROVE  FramesStay
BY FrameReturns DEF FramesStay, Running, Top

LEMMA HandlerFramesStay ==
    ASSUME ShellInv, ListInv,
           ChldReport \/ ChldDone \/ ChldStopped \/ KeyFgpid \/ KeyKill
    PROVE  FramesStay
<1>1. stack # <<>> /\ Top.at # "deletejob" /\ FramesShape
  BY DEF ChldReport, ChldDone, ChldStopped, KeyFgpid, KeyKill, Handler, ListInv
<1>2. CASE UNCHANGED stack
  BY <1>1, <1>2 DEF FramesStay, FramesShape, Running
<1>3. CASE Return
  BY <1>1, <1>3, ReturnsElsewhere
<1>4. CASE ChldReport
  <2>1. PICK p \in unreported : GoOn("stopped", p)
    BY <1>4 DEF ChldReport
  <2>2. p \in 0 .. MaxPid
    BY MaxPidAssumption DEF ListInv, StopsReported, Pids
  <2>3. QED
    BY <1>1, <2>1, <2>2, GoesOnElsewhere
<1>5. CASE ChldStopped
  <2>1. 0 \in 0 .. MaxPid
    BY MaxPidAssumption
  <2>2. UNCHANGED stack \/ GoOn("waitpid", 0)
    BY <1>5 DEF ChldStopped
  <2>3. QED
    BY <1>1, <1>2, <2>1, <2>2, GoesOnElsewhere
<1>6. CASE KeyFgpid
  <2>1. Return \/ GoOn("kill", fgpid(jobs))
    BY <1>6 DEF KeyFgpid
  <2>2. fgpid(jobs) \in 0 .. MaxPid
    BY FgpidIsPid
  <2>3. QED
    BY <1>1, <1>3, <2>1, <2>2, GoesOnElsewhere
<1>7. QED
  BY <1>3, <1>4, <1>5, <1>6 DEF ChldDone, KeyKill

LEMMA HandlerMovesNothing ==
    ASSUME ShellInv, ListInv,
           ChldReport \/ ChldDone \/ ChldStopped \/ KeyFgpid \/ KeyKill
    PROVE  NothingMoves
<1>1. stack # <<>> /\ UNCHANGED <<pid, blocked>> /\ pc' \in {pc, "exited"}
  BY DEF ChldReport, ChldDone, ChldStopped, KeyFgpid, KeyKill, Handler, mainVars
<1>2. pc' = "addjob" <=> pc = "addjob"
  <2>1. CASE UNCHANGED pc
    BY <2>1
  <2>2. CASE ChldStopped
    <3>1. Running(SIGCHLD)
      <4>1. Top.sig = SIGCHLD /\ Len(stack) \in DOMAIN stack
        BY <1>1, <2>2 DEF ChldStopped, Handler, ListInv, FramesShape
      <4>2. QED
        BY <4>1 DEF Running, Top
    <3>2. pc # "addjob"
      BY <3>1 DEF ListInv, ChldBlocked
    <3>3. QED
      BY <1>1, <3>2
  <2>3. QED
    BY <2>1, <2>2 DEF ChldReport, ChldDone, KeyFgpid, KeyKill, mainVars
<1>3. FramesStay
  BY HandlerFramesStay
<1>4. ChldBlocked'
  BY <1>1, <1>3, BlockedUntilUnblocked DEF FramesStay, ListInv
<1>5. \A s \in Slots : jobs'[s].pid = jobs[s].pid
  <2>1. CASE UNCHANGED jobs
    BY <2>1
  <2>2. CASE ChldStopped
    BY <2>1, <2>2, ChldStoppedGives DEF StateGiven
  <2>3. QED
    BY <2>1, <2>2 DEF ChldReport, ChldDone, KeyFgpid, KeyKill
<1>6. /\ UNCHANGED Children
      /\ \A q \in Pids : proc[q] = "reaped" => proc'[q] = "reaped"
  <2>1. CASE UNCHANGED proc
    BY <2>1 DEF Children
  <2>2. CASE KeyKill
    BY <2>2, KernelKeepsChildren DEF KeyKill
  <2>3. QED
    BY <2>1, <2>2 DEF ChldReport, ChldDone, ChldStopped, KeyFgpid, procVars
<1>7. StopsReported'
  <2>1. CASE unreported' \subseteq unreported
    BY <2>1 DEF ListInv, StopsReported
  <2>2. CASE KeyKill
    <3>1. stack \in Seq(Frame) /\ Len(stack) \in DOMAIN stack
      BY <1>1 DEF ListInv, FramesShape
    <3>2. Top \in Frame
      BY <3>1 DEF Top
    <3>3. Top.pid >= 1 => Top.pid \in Pids
      BY <3>2, MaxPidAssumption DEF Frame, Pids
    <3>4. killInt(Top.pid) => unreported' \subseteq unreported
      BY DEF killInt, Terminates, NoEffect, procVars
    <3>5. killTstp(Top.pid) => unreported' \subseteq unreported \cup Pids
      BY <3>3 DEF killTstp, HasGroup, Stops, NoEffect, procVars
    <3>6. QED
      BY <2>1, <2>2, <3>4, <3>5 DEF KeyKill, ListInv, StopsReported
  <2>3. QED
    BY <2>1, <2>2 DEF ChldReport, ChldDone, ChldStopped, KeyFgpid, procVars
<1>8. QED
  BY <1>1, <1>2, <1>3, <1>4, <1>5, <1>6, <1>7 DEF NothingMoves, FramesStay

LEMMA DeliverMovesNothing ==
    ASSUME ListInv, NEW sig \in {SIGCHLD, SIGINT, SIGTSTP}, Deliver(sig)
    PROVE  NothingMoves
<1>1. /\ UNCHANGED <<jobs, pc, pid, blocked, proc, unreported>>
      /\ sig = SIGCHLD => ~blocked
  BY DEF Deliver, mainVars, procVars
<1>2. /\ FramesShape'
      /\ \A i \in DOMAIN stack : i \in DOMAIN stack' /\ stack'[i] = stack[i]
      /\ \A i \in DOMAIN stack' : i \notin DOMAIN stack =>
            stack'[i].sig = sig /\ stack'[i].at # "deletejob"
  BY FrameStarts DEF ListInv
<1>3. ChldBlocked'
  BY <1>1, <1>2 DEF ListInv, ChldBlocked, Running
<1>4. StopsReported' /\ UNCHANGED Children
  BY <1>1 DEF ListInv, StopsReported, Children
<1>5. QED
  BY <1>1, <1>2, <1>3, <1>4 DEF NothingMoves

\* The kernel, the users and the processes.
LEMMA WorldMovesNothing ==
    ASSUME ShellInv, ListInv,
           UNCHANGED <<jobs, pc, pid, blocked, stack, Children>>,
           \A q \in Pids : proc[q] = "reaped" => proc'[q] = "reaped",
           StopsReported'
    PROVE  NothingMoves
<1>1. FramesShape' /\ ChldBlocked'
  BY DEF ListInv, FramesShape, ChldBlocked, Running
<1>2. QED
  BY <1>1 DEF NothingMoves

LEMMA ProcessMovesNothing ==
    ASSUME ShellInv, ListInv, NEW p \in Pids,
           ProcessStarts(p) \/ Exit(p) \/ StopSelf(p)
    PROVE  NothingMoves
<1>1. UNCHANGED <<jobs, pc, pid, blocked, stack>>
  BY DEF ProcessStarts, Setpgid, Exec, Exit, StopSelf, Unaffected, mainVars
<1>2. /\ UNCHANGED Children
      /\ \A q \in Pids : proc[q] = "reaped" => proc'[q] = "reaped"
  <2>1. CASE Setpgid(p)
    BY <2>1, ChildrenStay DEF Setpgid, Alive
  <2>2. CASE Exec(p)
    BY <2>2, ChildrenStay DEF Exec, Terminates, Alive
  <2>3. CASE Exit(p) \/ StopSelf(p)
    BY <2>3, ChildrenStay DEF Exit, StopSelf, Terminates, Stops, Alive
  <2>4. QED
    BY <2>1, <2>2, <2>3 DEF ProcessStarts
<1>3. StopsReported'
  BY DEF ListInv, StopsReported, ProcessStarts, Setpgid, Exec, Exit, StopSelf,
         Terminates, Stops
<1>4. QED
  BY <1>1, <1>2, <1>3, WorldMovesNothing
-----------------------------------------------------------------------------
LEMMA NextKeepsList ==
    ASSUME ShellInv, ListInv, [Next]_vars
    PROVE  ListInv' /\ (RoomForJob /\ ChildrenListed => ChildrenListed')
<1>1. CASE Command
  BY <1>1, CommandMovesNothing, NothingMovesKeeps DEF Command
<1>2. CASE MainStep
  BY <1>2, ForkKeepsList, AddJobKeepsList, MainMovesNothing, NothingMovesKeeps
  DEF MainStep
<1>3. CASE HandlerStep
  BY <1>3, ReapKeepsList, DeleteKeepsList, HandlerMovesNothing,
     NothingMovesKeeps DEF HandlerStep
<1>4. CASE \E sig \in {SIGCHLD, SIGINT, SIGTSTP} : Deliver(sig)
  BY <1>4, DeliverMovesNothing, NothingMovesKeeps
<1>5. CASE \E p \in Pids : ProcessStarts(p) \/ Exit(p) \/ StopSelf(p)
  BY <1>5, ProcessMovesNothing, NothingMovesKeeps
<1>6. CASE \/ \E sig \in {SIGINT, SIGTSTP} : Key(sig)
           \/ UNCHANGED vars
  <2>1. UNCHANGED <<jobs, pc, pid, blocked, stack, proc, unreported>>
    BY <1>6 DEF Key, vars, mainVars, procVars
  <2>2. UNCHANGED Children /\ StopsReported'
    BY <2>1 DEF Children, ListInv, StopsReported
  <2>3. QED
    BY <2>1, <2>2, WorldMovesNothing, NothingMovesKeeps
<1>7. QED
  BY <1>1, <1>2, <1>3, <1>4, <1>5, <1>6 DEF Next

\* Every entry is a child's or about to be deleted, however many processes
\* were forked and whether or not the table was ever full.
THEOREM ListInvariant == Spec => []ListInv
BY InitListInv, NextKeepsList, ShellInvariant, PTL DEF Spec

\* What the invariants say of the list.
LEMMA ListMatches ==
    ASSUME ShellInv, ListInv, ChildrenListed PROVE JobListMatchesChildren
<1>1. \A p : p \in InTransit <=> Deleting(p) \/ (pc = "addjob" /\ p = pid)
  BY DEF InTransit, Deleting
<1>2. \A p \in Listed : p \in Children \/ p \in InTransit
  BY <1>1 DEF Listed, ListInv, EntriesAreChildren
<1>3. \A p \in Children : p \in Listed \/ p \in InTransit
  BY <1>1, MaxPidAssumption DEF Listed, ChildrenListed, Children, Pids
<1>4. QED
  BY <1>2, <1>3 DEF JobListMatchesChildren, ShellInv, ListedOnce

\* The job list is the list of the children (tsh.c, eval and sigchld_handler)
\* as long as every addjob finds a free slot, for a table of any size, any
\* number of processes and whatever signals come between two steps.
THEOREM ListMatchesWhileRoom ==
    Spec /\ []RoomForJob => []JobListMatchesChildren
<1>1. Init => ChildrenListed
  BY InitListInv
<1>2. /\ ShellInv /\ ListInv /\ RoomForJob /\ ChildrenListed /\ [Next]_vars
      => ChildrenListed'
  BY NextKeepsList
<1>3. ShellInv /\ ListInv /\ ChildrenListed => JobListMatchesChildren
  BY ListMatches
<1>4. QED
  BY <1>1, <1>2, <1>3, ShellInvariant, ListInvariant, PTL DEF Spec

\* While there are not more processes than slots addjob finds a free one:
\* the entries are those of other processes than the one to be added.
LEMMA FewProcessesHaveRoom ==
    ASSUME MaxPid <= MAXJOBS, ShellInv PROVE RoomForJob
<1> SUFFICES ASSUME pc = "addjob", \A s \in Slots : jobs[s].pid # 0
             PROVE  FALSE
  BY DEF RoomForJob
<1> DEFINE others == Pids \ {pid}
           pidOf == [s \in Slots |-> jobs[s].pid]
<1>1. pidOf \in Injection(Slots, others)
  BY DEF ShellInv, ListedOnce, Injection, IsInjective
<1>2. /\ IsFiniteSet(Pids) /\ Cardinality(Pids) = MaxPid
      /\ IsFiniteSet(Slots) /\ Cardinality(Slots) = MAXJOBS
  BY FS_Interval, MaxPidAssumption, MAXJOBSAssumption DEF Pids, Slots
<1>3. IsFiniteSet(others) /\ Cardinality(others) = MaxPid - 1
  BY <1>2, FS_RemoveElement DEF ShellInv, ListedOnce
<1>4. Cardinality(Slots) <= Cardinality(others)
  BY <1>1, <1>3, FS_Injection
<1>5. QED
  BY <1>2, <1>3, <1>4, MaxPidAssumption, MAXJOBSAssumption

\* A table with a slot for every process always is the list of the children.
THEOREM ListMatchesFewProcesses ==
    MaxPid <= MAXJOBS => (Spec => []JobListMatchesChildren)
<1> SUFFICES ASSUME MaxPid <= MAXJOBS
             PROVE  Spec => []JobListMatchesChildren
  OBVIOUS
<1>1. ShellInv => RoomForJob
  BY FewProcessesHaveRoom
<1>2. QED
  BY <1>1, ShellInvariant, ListMatchesWhileRoom, PTL
=============================================================================
