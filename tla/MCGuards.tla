------------------------------ MODULE MCGuards ------------------------------
(***************************************************************************)
(* Small instances of SessionManager, Driver and Detectors.  They share no   *)
(* state, nor do the driver's protected ranges and its event log but for the  *)
(* driver being loaded, so a behaviour works on one of the four.             *)
(***************************************************************************)
EXTENDS SessionManager, Driver, Detectors, TLC

CONSTANTS t1, t2, n1, n2, p1, p2

TwoThreads == {t1, t2}   \* of the sessions, or callers of the driver
OneTimeout == {0}

(* Pages of two addresses, the last of which has other rights than the      *)
(* first two, and regions that touch two pages: one begins inside a page,   *)
(* the other one has mixed rights.                                          *)
TwoCpus    == {n1, n2}
TwoProcs   == {p1, p2}
ThreePages == 0..2
MixedPages ==
    [p \in TwoProcs |-> [a \in ThreePages |-> IF a = 2 THEN {"r", "x"} ELSE {"r", "w"}]]
TwoRegions == {[base |-> 1, size |-> 2], [base |-> 2, size |-> 4]}
SomeFlags  == {{"r"}, {"guard"}}
OneKind    == {"process"}

VARIABLE part   \* what this behaviour works on

PartInit ==
    /\ part \in {"sessions", "ranges", "events", "code"}
    /\ Init /\ DriverInit /\ ScanInit
    /\ part # "code" => size = 0

RangesNext ==
    \/ Load \/ UnloadGuard \/ UnloadWatcher
    \/ \E c \in Callers : Request(c) /\ UNCHANGED watch
    \/ \E p \in Procs, a \in Pages, f \in FlagSets :
          Reprotect(p, a, Convert(f)) \/ Reprotect(p, a, Given[p][a])
EventsNext ==
    \/ Load \/ UnloadGuard \/ UnloadWatcher
    \/ \E c \in Callers : Request(c) /\ UNCHANGED guard
    \/ \E n \in Cpus : Notice(n)

PartNext ==
    /\ UNCHANGED part
    /\ \/ part = "sessions" /\ Next /\ UNCHANGED <<driverVars, scanVars>>
       \/ part = "ranges" /\ RangesNext /\ UNCHANGED <<vars, scanVars>>
       \/ part = "events" /\ EventsNext /\ UNCHANGED <<vars, scanVars>>
       \/ part = "code" /\ ScanNext /\ UNCHANGED <<vars, driverVars>>

PartSpec == PartInit /\ [][PartNext]_<<part, vars, driverVars, scanVars>>

Symmetry == Permutations(TwoThreads) \cup Permutations(TwoProcs)
=============================================================================
