--------------------------- MODULE MCStateRoller ---------------------------
(* Small instances of StateRoller.                                          *)
EXTENDS StateRoller, TLC

CONSTANTS c1, c2
TwoClients == {c1, c2}
Symmetry   == Permutations(TwoClients)
ZeroToThree   == 0..3
WithZero      == {0, 1}
=============================================================================
