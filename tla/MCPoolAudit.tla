---------------------------- MODULE MCPoolAudit ----------------------------
(***************************************************************************)
(* The thread pool, and the memory audit that is a task of such a pool.      *)
(* MemoryMonitor counts on nothing but that a stop joins the task, so a      *)
(* behaviour works on one of the two and the states are a sum.               *)
(***************************************************************************)
EXTENDS ThreadPool, MemoryMonitor

CONSTANTS w1, w2, s1, s2, t1, t2, t3, c1

TwoWorkers    == {w1, w2}
TwoSubmitters == {s1, s2}
ThreeTasks    == {t1, t2, t3}
Waits         == {TRUE}

(* Repairs end where they find no backup: only tampering makes a region     *)
(* tampered, and clean again.                                               *)
OneClient == {c1}
Watching  == {"audit", "add", "fix"}
Cells01   == {0, 1}
AllZero   == [a \in Cells01 |-> 0]
TwoCells  == {[base |-> 0, size |-> 1], [base |-> 1, size |-> 1]}

VARIABLE part   \* what this behaviour works on

PartInit == part \in {"pool", "audit"} /\ Init /\ MonitorInit

PartNext ==
    /\ UNCHANGED part
    /\ \/ part = "pool" /\ Next /\ UNCHANGED monitorVars
       \/ part = "audit" /\ MonitorNext /\ UNCHANGED vars

(* Fairness of ThreadPool and MemoryMonitor, of the part that runs.         *)
PartFairness ==
    /\ \A w \in Workers : WF_vars(part = "pool" /\ Worker(w))
    /\ \A s \in Submitters : WF_vars(Submitter(s))
    /\ WF_vars(Owner)
    /\ MonitorFairness

PartSpec == PartInit /\ [][PartNext]_<<part, vars, monitorVars>> /\ PartFairness
=============================================================================
