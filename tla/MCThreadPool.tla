---------------------------- MODULE MCThreadPool ----------------------------
(* A small instance of ThreadPool: two workers and one task.                *)
EXTENDS ThreadPool

CONSTANTS w1, w2, s1, t1

TwoWorkers   == {w1, w2}
OneSubmitter == {s1}
OneTask      == {t1}
Waits        == {TRUE}
=============================================================================
