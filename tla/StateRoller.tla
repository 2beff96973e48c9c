---------------------------- MODULE StateRoller ----------------------------
(***************************************************************************)
(* The checkpoint list of core/repair_system/state_roller.c, used by several *)
(* threads.  The list holds the numbers of the checkpoints in it, newest     *)
(* first; checkpoint n is the n-th one created since the last shutdown and   *)
(* log[n] its sequence.  What a function does under g_checkpoints_mutex is   *)
(* one step; what it does before and after is another, and a pointer it took *)
(* out of the list may dangle by then.                                       *)
(***************************************************************************)
EXTENDS Integers, Sequences, FiniteSets

CONSTANTS Clients,
          Sequences,     \* the sequence numbers callers use
          Limits,        \* values of config->repair.max_backups
          DefaultLimit,  \* g_max_checkpoints before the first init (100)
          Resident,      \* TRUE: initialised before the threads start, never shut down
          MaxCreates     \* bound on the history

ASSUME RollerAssumption ==
    /\ Sequences \subseteq Nat
    /\ Limits \subseteq Nat /\ Limits # {}
    /\ DefaultLimit \in Nat
    /\ Resident \in BOOLEAN
    /\ MaxCreates \in Nat

VARIABLES list,      \* g_checkpoints
          limit,     \* g_max_checkpoints
          inited,    \* g_state_roller_initialized
          freed,     \* checkpoints whose memory was freed
          crashed,   \* a null pointer was dereferenced
          log,       \* history: the sequence of every checkpoint created
          raced,     \* history: an initialisation overlapped another or a create
          pc, op,    \* per client: place in the call, which call
          seq,       \* per client: the sequence it works with
          taken,     \* per client: the pointer find_checkpoint_by_sequence returned
          mark,      \* history: Len(log) when rollback_to_last_good looked
          result     \* per client: outcome of its last call

shared     == <<list, limit, inited, freed, crashed, log, raced>>
local      == <<pc, op, seq, taken, mark, result>>
rollerVars == <<shared, local>>

RollerInit ==
    /\ list = <<>> /\ freed = {} /\ crashed = FALSE /\ log = <<>> /\ raced = FALSE
    /\ inited = Resident
    /\ IF Resident THEN limit \in Limits ELSE limit = DefaultLimit
    /\ pc = [c \in Clients |-> "idle"] /\ op = [c \in Clients |-> "none"]
    /\ seq = [c \in Clients |-> 0] /\ taken = [c \in Clients |-> 0]
    /\ mark = [c \in Clients |-> 0] /\ result = [c \in Clients |-> "none"]

At(c, place) == ~crashed /\ pc[c] = place
Goto(c, place) == pc' = [pc EXCEPT ![c] = place]
Return(c, r) ==
    /\ Goto(c, "idle") /\ result' = [result EXCEPT ![c] = r]
    /\ seq' = [seq EXCEPT ![c] = 0] /\ taken' = [taken EXCEPT ![c] = 0]

-----------------------------------------------------------------------------
(* ps14_repair_create_checkpoint *)

CreateCall(c, s) ==
    /\ At(c, "idle") /\ Len(log) < MaxCreates
    /\ Goto(c, IF inited THEN "insert" ELSE "init")
    /\ op' = [op EXCEPT ![c] = "create"] /\ seq' = [seq EXCEPT ![c] = s]
    /\ mark' = [mark EXCEPT ![c] = 0]
    /\ UNCHANGED <<shared, taken, result>>

(* ps14_repair_init_state_roller tests its flag, resets the list, sets the  *)
(* flag and reads the limit, without a lock.  create ignores its result.    *)
InitTest(c) ==
    /\ At(c, "init")
    /\ Goto(c, IF inited THEN "insert" ELSE "reset")
    /\ UNCHANGED <<shared, op, seq, taken, mark, result>>

InitReset(c) ==
    /\ At(c, "reset") /\ Goto(c, "configure")
    /\ list' = <<>> /\ inited' = TRUE
    /\ raced' = (raced \/ inited)
    /\ UNCHANGED <<limit, freed, crashed, log, op, seq, taken, mark, result>>

InitLimit(c) ==
    /\ At(c, "configure") /\ Goto(c, "insert")
    /\ limit' \in Limits
    /\ UNCHANGED <<list, inited, freed, crashed, log, raced, op, seq, taken, mark, result>>

(* The trimming loop frees the last node while more than limit are left, by *)
(* way of the node before it; it starts at the second node, so a list of    *)
(* two has no such node and its last one's null next is dereferenced.       *)
\* Mutant: trimming one late.
TrimmedLate(l) == IF Len(l) > limit + 1 THEN SubSeq(l, 1, limit + 1) ELSE l
Trimmed(l) == IF Len(l) > limit THEN SubSeq(l, 1, limit) ELSE l
TrimCrashes(l) == limit < 2 /\ Len(l) >= 2

Insert(c) ==
    /\ At(c, "insert")
    /\ log' = Append(log, seq[c])
    /\ raced' = (raced \/ \E d \in Clients : pc[d] \in {"reset", "configure"})
    /\ LET l == <<Len(log) + 1>> \o list
       IN  IF TrimCrashes(l)
           THEN /\ crashed' = TRUE /\ list' = SubSeq(l, 1, 2) /\ UNCHANGED <<freed, pc, result, seq, taken>>
           ELSE /\ list' = IF limit = 0 THEN l ELSE Trimmed(l)
                /\ freed' = freed \cup {l[i] : i \in Len(list') + 1 .. Len(l)}
                /\ Return(c, "success") /\ UNCHANGED crashed
    /\ UNCHANGED <<limit, inited, op, mark>>

-----------------------------------------------------------------------------
(* ps14_repair_rollback_to_sequence and ps14_repair_rollback_to_last_good *)

RollbackCall(c, s) ==
    /\ At(c, "idle") /\ Goto(c, "find")
    /\ op' = [op EXCEPT ![c] = "rollback"] /\ seq' = [seq EXCEPT ![c] = s]
    /\ mark' = [mark EXCEPT ![c] = 0]
    /\ UNCHANGED <<shared, taken, result>>

LastSequence == IF list = <<>> THEN 0 ELSE log[list[1]]

(* The sequence 0 of an empty list and a checkpoint's own 0 look the same.  *)
GetLast(c) ==
    /\ At(c, "idle")
    /\ op' = [op EXCEPT ![c] = "last"]
    /\ mark' = [mark EXCEPT ![c] = Len(log)]
    /\ IF LastSequence = 0
       THEN Return(c, "empty")
       ELSE /\ Goto(c, "find") /\ seq' = [seq EXCEPT ![c] = LastSequence]
            /\ UNCHANGED <<taken, result>>
    /\ UNCHANGED shared

SequenceAt(s) == {i \in DOMAIN list : log[list[i]] = s}
\* Mutant: the oldest match.
LastMatch(i, s) == i \in SequenceAt(s) /\ \A j \in SequenceAt(s) : i >= j
FirstMatch(i, s) == i \in SequenceAt(s) /\ \A j \in SequenceAt(s) : i <= j

FindSequence(c) ==
    /\ At(c, "find")
    /\ IF SequenceAt(seq[c]) = {}
       THEN Return(c, "missing")
       ELSE /\ \E i \in DOMAIN list :
                  FirstMatch(i, seq[c]) /\ taken' = [taken EXCEPT ![c] = list[i]]
            /\ Goto(c, "use") /\ UNCHANGED <<seq, result>>
    /\ UNCHANGED <<shared, op, mark>>

(* The mutex is released: taken[c] is read, freed or not.                   *)
Use(c) ==
    /\ At(c, "use") /\ Return(c, "success")
    /\ UNCHANGED <<shared, op, mark>>

-----------------------------------------------------------------------------
(* ps14_repair_shutdown_state_roller, called when no other call is under way *)

Shutdown ==
    /\ ~Resident /\ inited /\ ~crashed
    /\ \A c \in Clients : pc[c] = "idle"
    /\ list' = <<>> /\ freed' = {} /\ log' = <<>> /\ inited' = FALSE /\ raced' = FALSE
    /\ mark' = [c \in Clients |-> 0]
    /\ result' = [c \in Clients |-> "none"]
    /\ UNCHANGED <<limit, crashed, pc, op, seq, taken>>

RollerClient(c) ==
    \/ \E s \in Sequences : CreateCall(c, s) \/ RollbackCall(c, s)
    \/ InitTest(c) \/ InitReset(c) \/ InitLimit(c) \/ Insert(c)
    \/ GetLast(c) \/ FindSequence(c) \/ Use(c)

RollerNext == Shutdown \/ \E c \in Clients : RollerClient(c)

RollerSpec == RollerInit /\ [][RollerNext]_rollerVars

-----------------------------------------------------------------------------
(* Properties *)

RollerTypeOK ==
    /\ list \in Seq(Nat \ {0}) /\ log \in Seq(Sequences)
    /\ \A i \in DOMAIN list : list[i] <= Len(log)
    /\ limit \in Nat /\ {inited, crashed, raced} \subseteq BOOLEAN
    /\ freed \subseteq Nat \ {0}
    /\ pc \in [Clients -> {"idle", "init", "reset", "configure", "insert", "find", "use"}]
    /\ op \in [Clients -> {"none", "create", "rollback", "last"}]
    /\ seq \in [Clients -> Sequences \cup {0}]
    /\ taken \in [Clients -> Nat] /\ mark \in [Clients -> Nat]
    /\ result \in [Clients -> {"none", "success", "empty", "missing"}]

(* Initialisation is lazy and takes no lock: while it overlaps a create, or *)
(* another initialisation, checkpoints are lost and the limit is stale.     *)
(* What follows holds of every history without such an overlap.             *)
Sound == ~raced /\ ~crashed /\ limit >= 2

(* The list is exactly the newest checkpoints, newest first, as many as the *)
(* limit allows: create never loses one that should stay, whatever threads  *)
(* create at once, and everything else has been freed.                      *)
KeptCount == IF Len(log) < limit THEN Len(log) ELSE limit
NewestKept == Sound =>
    /\ list = [i \in 1..KeptCount |-> Len(log) + 1 - i]
    /\ freed = 1..(Len(log) - KeptCount)

(* rollback_to_last_good uses its checkpoint after the mutex is released and *)
(* searches for it after a second lock.  It can miss, or read freed memory,  *)
(* only if at least limit newer checkpoints were created meanwhile.          *)
LastGoodWindow == Sound =>
    \A c \in Clients : op[c] = "last" =>
        /\ pc[c] = "use" /\ taken[c] \in freed => Len(log) - mark[c] >= limit
        /\ pc[c] = "use" => taken[c] >= mark[c] /\ log[taken[c]] = seq[c]
        /\ pc[c] = "idle" /\ result[c] = "missing" => Len(log) - mark[c] >= limit

(* g_max_checkpoints is the maximum number of checkpoints to keep, and        *)
(* creating one trims the list if it exceeds the limit: no thread ever finds  *)
(* more, and the trimming itself follows no null pointer.                    *)
WithinLimit == ~raced => ~crashed /\ Len(list) <= limit
=============================================================================
