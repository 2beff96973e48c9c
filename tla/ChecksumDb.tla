----------------------------- MODULE ChecksumDb -----------------------------
(***************************************************************************)
(* The checksum database of core/integrity_check/checksum_db.c: a static    *)
(* array of paths and hashes, initialised by the first call that needs it,  *)
(* used without a lock.  A search of the array is a step, what the thread   *)
(* then reads or writes is another.  The source ends in the middle of the   *)
(* load: here the file it loads from cannot be opened.  A hash stands for   *)
(* the contents it is the hash of; a file may be read with any contents.    *)
(***************************************************************************)
EXTENDS Integers, FiniteSets, FiniteSetsExt

CONSTANTS Threads,
          Paths,       \* of files
          Versions,    \* contents of a file
          Slots,       \* indices of the array (1024)
          Absent       \* an empty path, no hash

ASSUME ChecksumAssumption ==
    /\ Slots \subseteq Nat \ {0} /\ IsFiniteSet(Slots)
    /\ Absent \notin Paths \cup Versions

VARIABLES ready,     \* g_checksum_db_initialized
          table,     \* g_checksum_db
          stage,     \* per thread: where it is in its call
          goal,      \* per thread: the path and the hash it works with
          slot,      \* per thread: the index its search ended at
          alone,     \* history: no two calls have written at once
          known,     \* history: the hash each path was added with last
          wrong      \* history: threads that got a wrong verdict

sumVars == <<ready, table, stage, goal, slot, alone, known, wrong>>

Empty  == [path |-> Absent, hash |-> Absent, valid |-> FALSE]
NoGoal == [path |-> Absent, hash |-> Absent, verify |-> FALSE]

SumInit ==
    /\ ready = FALSE /\ table = [i \in Slots |-> Empty]
    /\ stage = [t \in Threads |-> "idle"] /\ goal = [t \in Threads |-> NoGoal]
    /\ slot = [t \in Threads |-> 0]
    /\ alone = TRUE /\ known = [p \in Paths |-> Absent] /\ wrong = {}

(* The stages in which a thread is bound to write to the array, or has      *)
(* decided from it what it will write.                                      *)
Writing == {"wipe", "search", "claim", "name", "fill"}

Moves(t, from, to) ==
    /\ stage[t] = from /\ stage' = [stage EXCEPT ![t] = to]
    /\ alone' = (alone /\ ~(to \in Writing /\ \E u \in Threads \ {t} : stage[u] \in Writing))
Ends(t, from) ==
    /\ Moves(t, from, "idle")
    /\ goal' = [goal EXCEPT ![t] = NoGoal] /\ slot' = [slot EXCEPT ![t] = 0]

-----------------------------------------------------------------------------
(* ps14_checksum_db_add and ps14_checksum_db_verify initialise first.       *)

Search(verify) == IF verify THEN "look" ELSE "search"

SumCall(t, p, h, verify) ==
    /\ Moves(t, "idle", IF ready THEN Search(verify) ELSE "clear")
    /\ goal' = [goal EXCEPT ![t] = [path |-> p, hash |-> h, verify |-> verify]]
    /\ UNCHANGED <<ready, table, slot, known, wrong>>

\* Mutant: init does not look at its flag.
ClearBlind(t) ==
    /\ Moves(t, "clear", "wipe")
    /\ UNCHANGED <<ready, table, goal, slot, known, wrong>>
Clear(t) ==
    /\ Moves(t, "clear", IF ready THEN Search(goal[t].verify) ELSE "wipe")
    /\ UNCHANGED <<ready, table, goal, slot, known, wrong>>

Wipe(t) ==
    /\ Moves(t, "wipe", Search(goal[t].verify))
    /\ table' = [i \in Slots |-> Empty] /\ ready' = TRUE
    /\ UNCHANGED <<goal, slot, known, wrong>>

First(Test(_)) == Min({i \in Slots : Test(table[i])})

Existing(t) ==
    /\ Moves(t, "search", "fill")
    /\ \E i \in Slots : table[i].path = goal[t].path
    /\ slot' = [slot EXCEPT ![t] = First(LAMBDA e : e.path = goal[t].path)]
    /\ UNCHANGED <<ready, table, goal, known, wrong>>

NotThere(t) ==
    /\ Moves(t, "search", "claim")
    /\ \A i \in Slots : table[i].path # goal[t].path
    /\ UNCHANGED <<ready, table, goal, slot, known, wrong>>

Claim(t) ==
    /\ Moves(t, "claim", "name")
    /\ \E i \in Slots : table[i].path = Absent
    /\ slot' = [slot EXCEPT ![t] = First(LAMBDA e : e.path = Absent)]
    /\ UNCHANGED <<ready, table, goal, known, wrong>>

Full(t) ==
    /\ Ends(t, "claim")
    /\ \A i \in Slots : table[i].path # Absent
    /\ UNCHANGED <<ready, table, known, wrong>>

Name(t) ==
    /\ Moves(t, "name", "fill")
    /\ table' = [table EXCEPT ![slot[t]].path = goal[t].path]
    /\ UNCHANGED <<ready, goal, slot, known, wrong>>

Fill(t) ==
    /\ Ends(t, "fill")
    /\ table' = [table EXCEPT ![slot[t]].hash = goal[t].hash, ![slot[t]].valid = TRUE]
    /\ known' = [known EXCEPT ![goal[t].path] = goal[t].hash]
    /\ UNCHANGED <<ready, wrong>>

-----------------------------------------------------------------------------
(* ps14_checksum_db_verify *)

ValidSlots(p) == {i \in Slots : table[i].path = p /\ table[i].valid}

(* While another thread copies a hash into the slot the verdict says nothing.*)
Copied(i) == \E u \in Threads : stage[u] = "fill" /\ slot[u] = i
Judged(t, verdict, truth) ==
    wrong' = IF verdict = truth \/ Copied(slot[t]) THEN wrong ELSE wrong \cup {t}

Missing(t) ==
    /\ Ends(t, "look") /\ ValidSlots(goal[t].path) = {}
    /\ Judged(t, FALSE, known[goal[t].path] # Absent)
    /\ UNCHANGED <<ready, table, known>>

(* The hash of the file is computed, if it can be read, ...                 *)
Digest(t, v) ==
    /\ Moves(t, "look", "judge")
    /\ ValidSlots(goal[t].path) # {}
    /\ slot' = [slot EXCEPT ![t] = Min(ValidSlots(goal[t].path))]
    /\ goal' = [goal EXCEPT ![t].hash = v]
    /\ UNCHANGED <<ready, table, known, wrong>>

Unreadable(t) ==
    /\ Ends(t, "look")
    /\ ValidSlots(goal[t].path) # {}
    /\ UNCHANGED <<ready, table, known, wrong>>

(* ... and compared with the one in the array.                              *)
Judge(t) ==
    /\ Ends(t, "judge")
    /\ Judged(t, goal[t].hash = table[slot[t]].hash, goal[t].hash = known[goal[t].path])
    /\ UNCHANGED <<ready, table, known>>

(* ps14_checksum_db_shutdown saves to the file and clears the flag.         *)
ShutdownSums ==
    /\ ready /\ \A t \in Threads : stage[t] = "idle"
    /\ ready' = FALSE /\ known' = [p \in Paths |-> Absent]
    /\ UNCHANGED <<table, stage, goal, slot, alone, wrong>>

-----------------------------------------------------------------------------
SumThread(t) ==
    \/ \E p \in Paths : SumCall(t, p, Absent, TRUE)
    \/ \E p \in Paths, v \in Versions : SumCall(t, p, v, FALSE)
    \/ Clear(t) \/ Wipe(t)
    \/ Existing(t) \/ NotThere(t) \/ Claim(t) \/ Full(t) \/ Name(t) \/ Fill(t)
    \/ Missing(t) \/ (\E v \in Versions : Digest(t, v)) \/ Unreadable(t) \/ Judge(t)

SumNext ==
    \/ ShutdownSums \/ \E t \in Threads : SumThread(t)

SumSpec == SumInit /\ [][SumNext]_sumVars

-----------------------------------------------------------------------------
(* Properties *)

SumTypeOK ==
    /\ ready \in BOOLEAN /\ alone \in BOOLEAN /\ wrong \subseteq Threads
    /\ table \in [Slots -> [path : Paths \cup {Absent}, hash : Versions \cup {Absent}, valid : BOOLEAN]]
    /\ known \in [Paths -> Versions \cup {Absent}]
    /\ stage \in [Threads -> {"idle", "clear", "look", "judge"} \cup Writing]
    /\ goal \in [Threads -> [path : Paths \cup {Absent}, hash : Versions \cup {Absent}, verify : BOOLEAN]]
    /\ slot \in [Threads -> Slots \cup {0}]

(* As long as no two calls have written to the array at once, whatever else *)
(* runs beside them: the array holds every path that was added, once, with   *)
(* the hash of its last add, and verifications say what these hashes say.   *)
SumsRight ==
    alone =>
        /\ \A p \in Paths : known[p] # Absent =>
              \E i \in Slots : ValidSlots(p) = {i} /\ table[i].hash = known[p]
        /\ wrong = {}
=============================================================================
