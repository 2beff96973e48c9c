-------------------------- MODULE MCSessionManager --------------------------
(* Small instances of SessionManager, with one thread.                      *)
EXTENDS SessionManager

CONSTANT c1
OneThread == {c1}
Shipped   == {1}   \* with ConfigTimeout = 1: both are 3600 seconds
=============================================================================
