------------------------------ MODULE MCDriver ------------------------------
(* A small instance of Driver: one request at a time, two pages.            *)
EXTENDS Driver

CONSTANTS t1, n1, p1
OneCaller == {t1}
OneCpu    == {n1}
OneProc   == {p1}
TwoPages  == 0..1
AllWrite  == [p \in OneProc |-> [a \in TwoPages |-> {"r", "w"}]]
OneRegion == {[base |-> 0, size |-> 2]}
SomeFlags == {{"r"}, {"guard"}}
OneKind   == {"process"}
=============================================================================
