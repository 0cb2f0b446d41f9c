------------------------------ MODULE JobList ------------------------------
(***************************************************************************)
(* The job list of the shell (shlab/tsh.c, "Helper routines that           *)
(* manipulate the job list"): a table of MAXJOBS slots, searched from the  *)
(* first to the last, and the counter that job IDs are taken from.         *)
(***************************************************************************)
EXTENDS Naturals, FiniteSets

CONSTANTS
    MAXJOBS,  \* slots of the table
    MaxPid    \* process IDs are 1 .. MaxPid: bound on the number of forks

ASSUME MAXJOBSAssumption == MAXJOBS \in Nat \ {0}
ASSUME MaxPidAssumption == MaxPid \in Nat

VARIABLES jobs, nextjid

UNDEF == "UNDEF"
FG == "FG"
BG == "BG"
ST == "ST"

Pids  == 1 .. MaxPid
Slots == 1 .. MAXJOBS

\* A slot of the table; pid 0 marks a free one.
clearjob == [pid |-> 0, jid |-> 0, state |-> UNDEF]
initjobs == [s \in Slots |-> clearjob]

\* The first slot of a set, 0 (the C code's NULL) if there is none.
First(S) == IF S = {} THEN 0 ELSE CHOOSE s \in S : \A r \in S : s <= r

getjobpid(table, pid) ==
    First({s \in Slots : pid >= 1 /\ table[s].pid = pid})

getjobjid(table, jid) ==
    First({s \in Slots : jid >= 1 /\ table[s].jid = jid})

fgpid(table) ==
    LET s == First({r \in Slots : table[r].state = FG})
    IN  IF s = 0 THEN 0 ELSE table[s].pid

maxjid(table) ==
    CHOOSE m \in {0} \cup {table[s].jid : s \in Slots} :
        \A s \in Slots : table[s].jid <= m

\* addjob: the first free slot; a full table leaves everything as it is.
addjob(pid, state) ==
    LET s == First({r \in Slots : jobs[r].pid = 0})
    IN  IF s = 0 THEN UNCHANGED <<jobs, nextjid>>
        ELSE /\ jobs' = [jobs EXCEPT ![s] =
                            [pid |-> pid, jid |-> nextjid, state |-> state]]
             /\ nextjid' = IF nextjid + 1 > MAXJOBS THEN 1 ELSE nextjid + 1

deletejob(pid) ==
    LET s == getjobpid(jobs, pid)
    IN  IF s = 0 THEN UNCHANGED <<jobs, nextjid>>
        ELSE /\ jobs' = [jobs EXCEPT ![s] = clearjob]
             /\ nextjid' = maxjid(jobs') + 1
-----------------------------------------------------------------------------
JobListInit == jobs = initjobs /\ nextjid = 1

Listed == {jobs[s].pid : s \in Slots} \ {0}
=============================================================================
