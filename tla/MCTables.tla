------------------------------ MODULE MCTables ------------------------------
(***************************************************************************)
(* Small instances of Server, HashDatabase, ChecksumDb and StateRoller.      *)
(* Their tables share nothing but the server's clock, so a behaviour works on *)
(* one of them, chosen at the start, and the states are a sum and not a       *)
(* product.                                                                 *)
(***************************************************************************)
EXTENDS Server, HashDatabase, ChecksumDb, StateRoller, TLC

CONSTANTS k1, k2, l1, l2, b1, b2, p1, p2, v1, v2

TwoThreads == {k1, k2}
TwoLabels  == {l1, l2}
TwoBlocks  == {b1, b2}
TwoPaths   == {p1, p2}
TwoHashes  == {v1, v2}
Pair       == {1, 2}
OneToThree == {1, 2, 3}
ZeroAndOne  == {0, 1}
TwoOrThree  == {2, 3}

VARIABLE part   \* the table this behaviour works on

tables == <<part, vars, dbVars, sumVars, rollerVars>>

TablesInit ==
    /\ part \in {"users", "bans", "sessions", "clients", "hashes", "checksums", "checkpoints"}
    /\ Init /\ DbInit /\ SumInit /\ RollerInit

Works(p) == part = p /\ UNCHANGED part

TablesNext ==
    \/ Works("users") /\ (UserNext \/ Tick) /\ UNCHANGED <<dbVars, sumVars, rollerVars>>
    \/ Works("bans") /\ (BanNext \/ Tick) /\ UNCHANGED <<dbVars, sumVars, rollerVars>>
    \/ Works("sessions") /\ SessionNext /\ UNCHANGED <<dbVars, sumVars, rollerVars>>
    \/ Works("clients") /\ ClientNext /\ UNCHANGED <<dbVars, sumVars, rollerVars>>
    \/ Works("hashes") /\ DbNext /\ UNCHANGED <<vars, sumVars, rollerVars>>
    \/ Works("checksums") /\ SumNext /\ UNCHANGED <<vars, dbVars, rollerVars>>
    \/ Works("checkpoints") /\ RollerNext /\ UNCHANGED <<vars, dbVars, sumVars>>

TablesSpec == TablesInit /\ [][TablesNext]_tables

Symmetry ==
    Permutations(TwoThreads) \cup Permutations(TwoLabels) \cup Permutations(TwoPaths)
=============================================================================
