----------------------------- MODULE MCAdvanced -----------------------------
(***************************************************************************)
(* Small instances of Advanced and StateSync.  The auditor and the callbacks *)
(* share only the calls that start and stop both, and the synchronisation    *)
(* shares nothing with them, so a behaviour uses one of the three.           *)
(***************************************************************************)
EXTENDS Advanced, StateSync

CONSTANTS main, other, w1, w2, b1, b2, n1, n2, n3, t1, t2, s1, s2, s3, s4

TwoClients == {main, other}
TwoWorkers == {w1, w2}
TwoBlocks  == {b1, b2}
ThreeNodes == {n1, n2, n3}
TwoNames   == {"code", "data"}
TwoThreads  == {t1, t2}
FourSockets == {s1, s2, s3, s4}

VARIABLE part   \* what this behaviour uses

partVars == <<part, advancedVars, vars>>

PartInit ==
    /\ part \in {"auditor", "callbacks", "sync"}
    /\ Init /\ SyncInit
    /\ part = "sync" => recursive

PartNext ==
    /\ UNCHANGED part
    /\ \/ part = "auditor" /\ AuditorNext /\ UNCHANGED <<links, checks, vars>>
       \/ part = "callbacks" /\ FreeRegions /\ UNCHANGED <<links, checks, vars>>
       \/ part = "callbacks" /\ (\E c \in Clients : Callbacks(c)) /\ UNCHANGED vars
       \/ part \in {"auditor", "callbacks"} /\ Whole /\ UNCHANGED vars
       \/ part = "sync" /\ SyncNext /\ UNCHANGED advancedVars

PartSpec == PartInit /\ [][PartNext]_partVars /\ AuditorFairness /\ Fairness
=============================================================================
