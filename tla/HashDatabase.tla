---------------------------- MODULE HashDatabase ----------------------------
(***************************************************************************)
(* The hash database of core/memory_monitor/hash_database.c: a list of      *)
(* named entries under g_hash_db_mutex.  A verification finds its entry     *)
(* under the mutex and reads it afterwards, field by field, while others    *)
(* update, remove and free.  An extent is an address with a size; the hash  *)
(* of some bytes is the algorithm with those bytes, and the memory may hold *)
(* any bytes when it is read.                                               *)
(***************************************************************************)
EXTENDS Integers, Sequences, FiniteSets, SequencesExt

CONSTANTS Callers,     \* threads
          Labels,      \* names of entries
          Extents,     \* pieces of memory
          Algorithms,
          Contents,    \* what the bytes of an extent can be
          Blocks,      \* heap blocks for entries
          Nil

ASSUME HashDbAssumption == Nil \notin Blocks \cup Algorithms

VARIABLES chain,      \* g_hash_db: the blocks in the list, newest first
          block,      \* the entry written in each block
          place,      \* per caller: where it is in its call
          asked,      \* per caller: the arguments of its call
          made,       \* per caller: the hash it computed
          at,         \* per caller: the pointer hash_db_find_entry returned
          quiet,      \* history: nobody has changed the entry it verifies
          recorded,   \* history: the entry of each name as it was added last
          misjudged,  \* history: callers an undisturbed verification told a lie
          misused     \* history: callers that read a freed block

dbVars == <<chain, block, place, asked, made, at, quiet, recorded, misjudged, misused>>

Hash(alg, bytes) == [alg |-> alg, bytes |-> bytes]
HashValues == [alg : Algorithms, bytes : Contents]
Calls      == [name : Labels, extent : Extents, alg : Algorithms]
Entries    == [name : Labels, extent : Extents, alg : Algorithms, hash : HashValues]

NoCall  == [name |-> Nil, extent |-> Nil, alg |-> Nil]
NoHash  == Hash(Nil, Nil)
NoEntry == [name |-> Nil, extent |-> Nil, alg |-> Nil, hash |-> NoHash]

DbInit ==
    /\ chain = <<>> /\ block = [n \in Blocks |-> NoEntry]
    /\ place = [c \in Callers |-> "idle"] /\ asked = [c \in Callers |-> NoCall]
    /\ made = [c \in Callers |-> NoHash] /\ at = [c \in Callers |-> Nil]
    /\ quiet = [c \in Callers |-> TRUE]
    /\ recorded = [n \in Labels |-> NoEntry] /\ misjudged = {} /\ misused = {}

Listed == Range(chain)
Named(name) == SelectInSeq(chain, LAMBDA n : block[n].name = name)

(* A change to an entry disturbs those who verify it.                       *)
Verifying(c) == place[c] \in {"check", "compute", "compare"}
Disturb(name) ==
    quiet' = [d \in Callers |-> quiet[d] /\ ~(Verifying(d) /\ asked[d].name = name)]

Idle(c) == misused = {} /\ place[c] = "idle"
Goes(c, to) == place' = [place EXCEPT ![c] = to]
Returns(c) ==
    /\ Goes(c, "idle")
    /\ asked' = [asked EXCEPT ![c] = NoCall] /\ made' = [made EXCEPT ![c] = NoHash]

-----------------------------------------------------------------------------
(* ps14_hash_db_add_entry hashes before it locks, then updates the entry of *)
(* that name or makes one.                                                  *)
AddCall(c, call, bytes) ==
    /\ Idle(c) /\ Goes(c, "add")
    /\ asked' = [asked EXCEPT ![c] = call]
    /\ made' = [made EXCEPT ![c] = Hash(call.alg, bytes)]
    /\ UNCHANGED <<chain, block, at, quiet, recorded, misjudged, misused>>

EntryOf(c) == [name |-> asked[c].name, extent |-> asked[c].extent,
               alg |-> asked[c].alg, hash |-> made[c]]

\* Mutant: an update leaves the algorithm as it was.
UpdatedHash(c, n) == [block EXCEPT ![n].extent = asked[c].extent, ![n].hash = made[c]]
Updated(c, n) == [block EXCEPT ![n] = EntryOf(c)]

(* malloc returns any block that is not in use, a freed one for instance,   *)
(* or nothing.                                                              *)
Add(c) ==
    /\ misused = {} /\ place[c] = "add" /\ Returns(c)
    /\ IF Named(asked[c].name) # 0
       THEN block' = Updated(c, chain[Named(asked[c].name)]) /\ UNCHANGED chain
       ELSE \E n \in Blocks \ Listed :
               chain' = <<n>> \o chain /\ block' = [block EXCEPT ![n] = EntryOf(c)]
    /\ recorded' = [recorded EXCEPT ![asked[c].name] = EntryOf(c)]
    /\ Disturb(asked[c].name)
    /\ UNCHANGED <<at, misjudged, misused>>

OutOfMemory(c) ==
    /\ misused = {} /\ place[c] = "add" /\ Returns(c)
    /\ Named(asked[c].name) = 0
    /\ UNCHANGED <<chain, block, at, quiet, recorded, misjudged, misused>>

(* ps14_hash_db_remove_entry unlinks and frees under the mutex.  Nothing    *)
(* tells what a freed block holds.                                          *)
Without(i) == RemoveAt(chain, i)
Kept(list) == [n \in Blocks |-> IF n \in Range(list) THEN block[n] ELSE NoEntry]

RemoveEntry(c, name) ==
    /\ Idle(c) /\ Named(name) # 0
    /\ chain' = Without(Named(name))
    /\ block' = Kept(chain')
    /\ recorded' = [recorded EXCEPT ![name] = NoEntry]
    /\ Disturb(name)
    /\ UNCHANGED <<place, asked, made, at, misjudged, misused>>

(* ps14_hash_db_shutdown, when no call is under way.                        *)
ShutdownDb ==
    /\ \A c \in Callers : Idle(c)
    /\ chain' = <<>> /\ block' = Kept(<<>>) /\ recorded' = [n \in Labels |-> NoEntry]
    /\ UNCHANGED <<place, asked, made, at, quiet, misjudged, misused>>

-----------------------------------------------------------------------------
(* ps14_hash_db_verify_region *)

(* What it should find: the extent recorded last under that name, with the  *)
(* bytes it held then.                                                      *)
Truth(c) ==
    LET entry == recorded[asked[c].name]
    IN  entry.extent = asked[c].extent /\ (made[c] = NoHash \/ entry.hash.bytes = made[c].bytes)

Verdict(c, v) ==
    /\ Returns(c) /\ at' = [at EXCEPT ![c] = Nil]
    /\ misjudged' = IF quiet[c] /\ v # Truth(c) THEN misjudged \cup {c} ELSE misjudged
    /\ quiet' = [quiet EXCEPT ![c] = TRUE]
    /\ UNCHANGED <<chain, block, recorded, misused>>

(* ps14_hash_db_find_entry, under the mutex; there is nothing to verify     *)
(* against if it returns NULL.                                              *)
Find(c, name, extent) ==
    /\ Idle(c) /\ Named(name) # 0
    /\ Goes(c, "check") /\ at' = [at EXCEPT ![c] = chain[Named(name)]]
    /\ asked' = [asked EXCEPT ![c] = [NoCall EXCEPT !.name = name, !.extent = extent]]
    /\ UNCHANGED <<chain, block, made, quiet, recorded, misjudged, misused>>

FindNothing(c, name) ==
    /\ Idle(c) /\ Named(name) = 0
    /\ misjudged' = IF recorded[name] = NoEntry THEN misjudged ELSE misjudged \cup {c}
    /\ UNCHANGED <<chain, block, place, asked, made, at, quiet, recorded, misused>>

(* From here on the entry is read through the pointer; its block may have   *)
(* been freed.                                                              *)
Reading(c, from) == misused = {} /\ place[c] = from /\ at[c] \in Listed

Dangling(c) ==
    /\ misused = {} /\ Verifying(c) /\ at[c] \notin Listed
    /\ misused' = {c}
    /\ UNCHANGED <<chain, block, place, asked, made, at, quiet, recorded, misjudged>>

Matches(c) == block[at[c]].extent = asked[c].extent
Mismatch(c) == Reading(c, "check") /\ ~Matches(c) /\ Verdict(c, FALSE)
Check(c) ==
    /\ Reading(c, "check") /\ Matches(c) /\ Goes(c, "compute")
    /\ UNCHANGED <<chain, block, asked, made, at, quiet, recorded, misjudged, misused>>

Compute(c, bytes) ==
    /\ Reading(c, "compute") /\ Goes(c, "compare")
    /\ made' = [made EXCEPT ![c] = Hash(block[at[c]].alg, bytes)]
    /\ UNCHANGED <<chain, block, asked, at, quiet, recorded, misjudged, misused>>

Compare(c) == Reading(c, "compare") /\ Verdict(c, made[c] = block[at[c]].hash)

-----------------------------------------------------------------------------
DbCaller(c) ==
    \/ \E call \in Calls, bytes \in Contents : AddCall(c, call, bytes)
    \/ Add(c) \/ OutOfMemory(c)
    \/ \E name \in Labels : RemoveEntry(c, name) \/ FindNothing(c, name)
    \/ \E name \in Labels, e \in Extents : Find(c, name, e)
    \/ Dangling(c) \/ Mismatch(c) \/ Check(c)
    \/ (\E bytes \in Contents : Compute(c, bytes)) \/ Compare(c)

DbNext == ShutdownDb \/ \E c \in Callers : DbCaller(c)

DbSpec == DbInit /\ [][DbNext]_dbVars

-----------------------------------------------------------------------------
(* Properties *)

DbTypeOK ==
    /\ chain \in Seq(Blocks) /\ IsInjective(chain)
    /\ block \in [Blocks -> Entries \cup {NoEntry}]
    /\ \A n \in Listed : block[n] \in Entries
    /\ place \in [Callers -> {"idle", "add", "check", "compute", "compare"}]
    /\ asked \in [Callers -> [name : Labels \cup {Nil}, extent : Extents \cup {Nil},
                             alg : Algorithms \cup {Nil}]]
    /\ made \in [Callers -> HashValues \cup {NoHash}]
    /\ at \in [Callers -> Blocks \cup {Nil}]
    /\ quiet \in [Callers -> BOOLEAN]
    /\ recorded \in [Labels -> Entries \cup {NoEntry}]
    /\ misjudged \subseteq Callers /\ misused \subseteq Callers

(* A verification whose entry nobody changes meanwhile returns what it       *)
(* should: good exactly if the extent is the one recorded last under that   *)
(* name and holds the bytes it held then, whatever happens to other entries *)
(* and however freed blocks are used again; and it never reads a freed one. *)
VerdictRight == misjudged = {} /\ \A c \in misused : ~quiet[c]
=============================================================================
