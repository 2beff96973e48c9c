------------------------------ MODULE MCRepair ------------------------------
(***************************************************************************)
(* Small instances of MemoryMonitor and FileRepair: what the repair system   *)
(* does to memory and to files.  They share no state, so a behaviour works    *)
(* on one of the two.                                                       *)
(***************************************************************************)
EXTENDS MemoryMonitor, FileRepair, TLC

CONSTANTS t1, t2, engine, engineDll, d1, d2

TwoThreads == {t1, t2}   \* clients, or repairers

(* The audit and its clients over one cell that holds 0 or 1.               *)
OneCell    == {[base |-> 0, size |-> 1]}
Cells0     == {0}
Cells01    == {0, 1}
Zero0      == [a \in Cells0 |-> 0]
AllCalls   == Calls

(* Two files, the first one's name part of the second one's, of two blocks. *)
TwoFiles == {engine, engineDll}
Nested   == {<<engine, engine>>, <<engineDll, engineDll>>, <<engine, engineDll>>}
TwoDirs  == {d1, d2}
FewTorn  == Cardinality(torn) <= 1

VARIABLE part   \* what this behaviour works on

PartInit == part \in {"memory", "files"} /\ MonitorInit /\ FilesInit

PartNext ==
    /\ UNCHANGED part
    /\ \/ part = "memory" /\ MonitorNext /\ UNCHANGED filesVars
       \/ part = "files" /\ FilesNext /\ UNCHANGED monitorVars

PartSpec == PartInit /\ [][PartNext]_<<part, monitorVars, filesVars>>

Symmetry == Permutations(TwoThreads)
=============================================================================
