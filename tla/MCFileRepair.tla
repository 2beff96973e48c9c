---------------------------- MODULE MCFileRepair ----------------------------
(* A small instance of FileRepair: one thread, and two files, the first one's *)
(* name part of the second one's.                                           *)
EXTENDS FileRepair

CONSTANTS t1, engine, engineDll, d1
OneThread == {t1}
TwoFiles  == {engine, engineDll}
Nested    == {<<engine, engine>>, <<engineDll, engineDll>>, <<engine, engineDll>>}
OneDir    == {d1}
=============================================================================
