----------------------------- MODULE Detectors -----------------------------
(***************************************************************************)
(* What core/advanced/hook_detector.c and tamper_detector.c say about the   *)
(* same piece of code: the scan for hooks and the search for a run of NOPs, *)
(* loop by loop, and then the checks of the first byte and of the middle.   *)
(* A byte is the kind of instruction it begins.                             *)
(***************************************************************************)
EXTENDS Integers, FiniteSets

CONSTANTS Reach,      \* bytes of a near jump, and of the shortest sled (5)
          Margin,     \* bytes at either end that inline checks skip (8)
          MaxSize     \* bound on the size of the region

ASSUME DetectorsAssumption ==
    Reach \in Nat \ {0} /\ Margin \in Nat \ {0} /\ MaxSize \in Nat

Jumps == {"jmp", "call", "short"}                  \* 0xE9, 0xE8, 0xEB
Bytes == Jumps \cup {"nop", "indirect", "other"}   \* 0x90, 0xFF

VARIABLES size, code,   \* the region
          stage,        \* which loop is under way
          offset, nops, \* i; nop_count or consecutive_nops
          hooks,        \* hooks_found
          sled          \* what ps14_tamper_check_nop_sled returns

scanVars == <<size, code, stage, offset, nops, hooks, sled>>

(* ps14_hook_scan_region does not look at less than Reach bytes.            *)
ScanInit ==
    /\ size \in 0..MaxSize /\ code \in [0..(size - 1) -> Bytes]
    /\ stage = IF size < Reach THEN "check" ELSE "scan"
    /\ offset = 0 /\ nops = 0 /\ hooks = 0 /\ sled = FALSE

-----------------------------------------------------------------------------
(* ps14_hook_scan_region *)

Scanning == stage = "scan" /\ offset < size - Reach

ScanByte ==
    /\ Scanning /\ code[offset] # "nop"
    /\ hooks' = IF code[offset] \in Jumps THEN hooks + 1 ELSE hooks
    /\ offset' = offset + 1
    /\ UNCHANGED <<size, code, stage, nops, sled>>

EnterSled ==
    /\ Scanning /\ code[offset] = "nop"
    /\ stage' = "nops" /\ nops' = 0
    /\ UNCHANGED <<size, code, offset, hooks, sled>>

InSled == stage = "nops" /\ offset < size /\ code[offset] = "nop"
CountNop ==
    /\ InSled /\ nops' = nops + 1 /\ offset' = offset + 1
    /\ UNCHANGED <<size, code, stage, hooks, sled>>

\* Mutant: only a longer run is a sled.
LeaveSledLate ==
    /\ stage = "nops" /\ ~InSled
    /\ hooks' = IF nops > Reach THEN hooks + 1 ELSE hooks
    /\ stage' = "scan" /\ offset' = offset + 1 /\ nops' = 0
    /\ UNCHANGED <<size, code, sled>>
(* The byte that ends the run is not looked at: the outer loop counts on.   *)
LeaveSled ==
    /\ stage = "nops" /\ ~InSled
    /\ hooks' = IF nops >= Reach THEN hooks + 1 ELSE hooks
    /\ stage' = "scan" /\ offset' = offset + 1 /\ nops' = 0
    /\ UNCHANGED <<size, code, sled>>

EndScan ==
    /\ stage = "scan" /\ ~Scanning
    /\ stage' = "check" /\ offset' = 0
    /\ UNCHANGED <<size, code, nops, hooks, sled>>

-----------------------------------------------------------------------------
(* ps14_tamper_check_nop_sled *)

Checking == stage = "check" /\ size >= Reach /\ offset < size

\* Mutant: a byte that is no NOP does not end the run.
CheckByteOn ==
    /\ Checking
    /\ nops' = IF code[offset] = "nop" THEN nops + 1 ELSE nops
    /\ sled' = (nops' >= Reach)
    /\ stage' = IF sled' THEN "done" ELSE "check"
    /\ offset' = offset + 1
    /\ UNCHANGED <<size, code, hooks>>
CheckByte ==
    /\ Checking
    /\ nops' = IF code[offset] = "nop" THEN nops + 1 ELSE 0
    /\ sled' = (nops' >= Reach)
    /\ stage' = IF sled' THEN "done" ELSE "check"
    /\ offset' = offset + 1
    /\ UNCHANGED <<size, code, hooks>>

EndCheck ==
    /\ stage = "check" /\ ~Checking /\ stage' = "done"
    /\ UNCHANGED <<size, code, offset, nops, hooks, sled>>

ScanNext ==
    \/ ScanByte \/ EnterSled \/ CountNop \/ LeaveSled \/ EndScan
    \/ CheckByte \/ EndCheck

ScanSpec == ScanInit /\ [][ScanNext]_scanVars

-----------------------------------------------------------------------------
(* The checks that look for one byte *)

CheckFunction == size > 0 /\ code[0] \in Jumps
CheckDetour   == size > 0 /\ code[0] = "jmp"
CheckJmpHook  == size > 0 /\ code[0] \in {"jmp", "short"}
CheckCallHook == size > 0 /\ code[0] = "call"

Inside == Margin .. (size - Margin - 1)
HookInline   == size >= 2 * Margin /\ \E j \in Inside : code[j] \in {"jmp", "call"}
TamperInline == size >= 2 * Margin /\ \E j \in Inside : code[j] \in Jumps
UnexpectedJumps ==
    size >= 2 * Margin /\ \E j \in 0..(size - 1) : code[j] \in Jumps \cup {"indirect"}

-----------------------------------------------------------------------------
(* Properties *)

ScanTypeOK ==
    /\ size \in 0..MaxSize /\ code \in [0..(size - 1) -> Bytes]
    /\ stage \in {"scan", "nops", "check", "done"}
    /\ offset \in Nat /\ nops \in Nat /\ hooks \in Nat /\ sled \in BOOLEAN

(* The jumps in the part that is scanned, all but the last Reach bytes, and *)
(* the runs of Reach NOPs or more that begin in it before place k.          *)
Scanned  == 0..(size - Reach - 1)
JumpsAt  == {j \in Scanned : code[j] \in Jumps}
Behind(j) == j > 0 /\ code[j - 1] = "nop"
Starts(k) == {j \in Scanned : j < k /\ ~Behind(j)}
LongRun(j) == j + Reach <= size /\ \A m \in j..(j + Reach - 1) : code[m] = "nop"
Sleds(k)  == {j \in Starts(k) : LongRun(j)}

(* The count stands for what is in the region: no byte is counted twice or  *)
(* for what it is not, whatever the two loops do to the offset they share,  *)
(* and the count is complete unless a jump follows a NOP.                   *)
NothingInvented == stage \in {"check", "done"} =>
    LET there == Cardinality(JumpsAt) + Cardinality(Sleds(size))
    IN  /\ hooks <= there
        /\ (\A j \in JumpsAt : ~Behind(j)) => hooks = there

(* "Scan a memory region for hooks", "NOP sleds - often used before hooks": *)
(* a region in which the scan finds nothing has no jump where it looks.     *)
HooksFound == stage \in {"check", "done"} /\ hooks = 0 => JumpsAt = {}

(* When every detector has looked at the region: the search for NOPs finds  *)
(* a run wherever it is, a region that the scan clears can only be condemned *)
(* by the inline check for jumps behind NOPs, and the checks of the first    *)
(* byte and of the middle include each other as their names say.            *)
Agreement == stage = "done" =>
    /\ sled <=> \E j \in 0..(size - 1) : LongRun(j)
    /\ hooks = 0 /\ Margin >= Reach =>
          \A j \in Inside : size >= 2 * Margin /\ code[j] \in Jumps => Behind(j)
    /\ hooks = 0 /\ size > Reach => ~CheckFunction
    /\ CheckFunction <=> CheckJmpHook \/ CheckCallHook
    /\ CheckDetour => CheckJmpHook
    /\ HookInline => TamperInline
    /\ TamperInline => UnexpectedJumps
=============================================================================
