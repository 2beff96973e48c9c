----------------------------- MODULE FileRepair -----------------------------
(***************************************************************************)
(* core/repair_system/file_restorer.c and backup_manager.c: copies of files   *)
(* into a directory and back, block by block, without a lock around them.      *)
(*                                                                         *)
(* A file's content is a sequence of blocks, each written by some version of   *)
(* some file.  The program (or whoever tampers) replaces a file as a whole.   *)
(* A crash ends every call where it is; what was written stays.              *)
(* A call that cannot open its files changes nothing and is left out.        *)
(***************************************************************************)
EXTENDS Integers, Sequences, FiniteSets

CONSTANTS Repairers, Files,
          Blocks,        \* blocks of a file: each is a buffer of 4096 bytes
          Contains,      \* pairs of files: the first one's name is part of the
                         \* second one's (a name is a part of itself)
          Dirs, Default, \* backup directories; "backups"
          MaxVersion, MaxTick, MaxCopies

Idle  == [kind |-> "idle"]
Names == [file : Files, dir : Dirs, at : 0..MaxTick]   \* of copies

ASSUME FileAssumption ==
    /\ Blocks \in Nat \ {0} /\ Default \in Dirs
    /\ Contains \subseteq Files \X Files /\ \A f \in Files : <<f, f>> \in Contains
    /\ \A p, q \in Contains : p[2] = q[1] => <<p[1], q[2]>> \in Contains
    /\ Names \cap Files = {}   \* nobody backs up a copy
    /\ MaxVersion \in Nat /\ MaxTick \in Nat /\ MaxCopies \in Nat

VARIABLES disk,        \* the files' contents
          version,     \* the last version that the program wrote
          copies,      \* the backups on disk by name: file name, directory, tick
          tick,        \* ps14_thread_get_tick_count
          put, search, \* the two g_backup_dir: the restorer's, the manager's
          job,         \* per thread: what it copies, from where to where
          torn         \* history: what a crash or another call cut into, and copies of it

filesVars == <<disk, version, copies, tick, put, search, job, torn>>

Whole(f, v) == [i \in 1..Blocks |-> <<f, v>>]

FilesInit ==
    /\ disk = [f \in Files |-> Whole(f, 0)] /\ version = 0
    /\ copies = <<>> /\ tick = 0 /\ put = Default /\ search = Default
    /\ job = [t \in Repairers |-> Idle] /\ torn = {}

Open   == {t \in Repairers : job[t] # Idle}
Reads(j)  == IF j.kind = "backup" THEN j.file ELSE j.name
Writes(j) == IF j.kind = "backup" THEN j.name ELSE j.file
CutBy(j, k) == Writes(k) \in {Reads(j), Writes(j)}   \* k writes under j's copy
Begin(t, j) ==
    /\ job' = [job EXCEPT ![t] = j]
    /\ torn' = (torn \ {Writes(j)})
                 \cup (IF Reads(j) \in torn \/ \E u \in Open : CutBy(j, job[u]) THEN {Writes(j)} ELSE {})
                 \cup {Writes(job[u]) : u \in {v \in Open : CutBy(job[v], j)}}

-----------------------------------------------------------------------------
\* Mutant: the name leaves out the time.
BackupUntimed(t, f) ==
    LET name == [file |-> f, dir |-> put, at |-> 0]
    IN  /\ job[t] = Idle
        /\ name \in DOMAIN copies \/ Cardinality(DOMAIN copies) < MaxCopies
        /\ copies' = [n \in DOMAIN copies \cup {name} |-> IF n = name THEN <<>> ELSE copies[n]]
        /\ Begin(t, [kind |-> "backup", file |-> f, name |-> name, pos |-> 1])
        /\ UNCHANGED <<disk, version, tick, put, search>>
(* ps14_repair_backup_file, and ps14_repair_verify_and_fix_file, which hashes *)
(* the file, compares the hash with nothing, and makes a backup: the copy is  *)
(* named by the file's name and the time, and starts empty.                  *)
BackupCall(t, f) ==
    LET name == [file |-> f, dir |-> put, at |-> tick]
    IN  /\ job[t] = Idle
        /\ name \in DOMAIN copies \/ Cardinality(DOMAIN copies) < MaxCopies
        /\ copies' = [n \in DOMAIN copies \cup {name} |-> IF n = name THEN <<>> ELSE copies[n]]
        /\ Begin(t, [kind |-> "backup", file |-> f, name |-> name, pos |-> 1])
        /\ UNCHANGED <<disk, version, tick, put, search>>

(* ps14_backup_list: every copy in the manager's directory whose name        *)
(* contains that of the file; ps14_backup_get_best takes the first one, in    *)
(* the order of the directory.                                              *)
\* Mutant: the names are not compared.
ListAnything(f) == {n \in DOMAIN copies : n.dir = search}
List(f) == {n \in DOMAIN copies : n.dir = search /\ <<f, n.file>> \in Contains}

(* ps14_repair_restore_file: the file is emptied before it is filled.        *)
RestoreFile(t, f) ==
    /\ job[t] = Idle
    /\ \E n \in List(f) : Begin(t, [kind |-> "restore", file |-> f, name |-> n, pos |-> 1])
    /\ disk' = [disk EXCEPT ![f] = <<>>]
    /\ UNCHANGED <<version, copies, tick, put, search>>

Source(j) == IF j.kind = "backup" THEN disk[j.file] ELSE copies[j.name]
(* Writing a block behind the end of a file that was emptied meanwhile: the  *)
(* gap reads as another content than any version's.                          *)
Gap == <<"gap", "gap">>
\* Mutant: every block is appended.
PutLast(s, i, b) == Append(s, b)
Put(s, i, b) == [k \in 1..(IF Len(s) < i THEN i ELSE Len(s)) |->
                     IF k = i THEN b ELSE IF k <= Len(s) THEN s[k] ELSE Gap]

CopyBlocks(t) ==
    /\ job[t] # Idle /\ job[t].pos <= Len(Source(job[t]))
    /\ LET j == job[t]
           b == Source(j)[j.pos]
       IN  IF j.kind = "backup"
           THEN copies' = [copies EXCEPT ![j.name] = Put(@, j.pos, b)] /\ UNCHANGED disk
           ELSE disk' = [disk EXCEPT ![j.file] = Put(@, j.pos, b)] /\ UNCHANGED copies
    /\ job' = [job EXCEPT ![t].pos = @ + 1]
    /\ UNCHANGED <<version, tick, put, search, torn>>

\* Mutant: a copy ends with its first block.
CloseEarly(t) ==
    /\ job[t] # Idle /\ job[t].pos > 1
    /\ job' = [job EXCEPT ![t] = Idle]
    /\ UNCHANGED <<disk, version, copies, tick, put, search, torn>>
Close(t) ==
    /\ job[t] # Idle /\ job[t].pos > Len(Source(job[t]))
    /\ job' = [job EXCEPT ![t] = Idle]
    /\ UNCHANGED <<disk, version, copies, tick, put, search, torn>>

-----------------------------------------------------------------------------
(* Around the calls *)

SetDirectory(d) ==   \* ps14_backup_set_directory
    /\ put' = d /\ UNCHANGED <<disk, version, copies, tick, search, job, torn>>
BackupInit(d) ==     \* ps14_backup_init
    /\ search' = d /\ UNCHANGED <<disk, version, copies, tick, put, job, torn>>

Replace(f) ==
    /\ version < MaxVersion /\ version' = version + 1
    /\ disk' = [disk EXCEPT ![f] = Whole(f, version')]
    /\ torn' = (torn \ {f}) \cup {Writes(job[t]) : t \in {u \in Open : job[u].file = f}}
    /\ UNCHANGED <<copies, tick, put, search, job>>

Tick == /\ tick < MaxTick /\ tick' = tick + 1
        /\ UNCHANGED <<disk, version, copies, put, search, job, torn>>

Crash ==
    /\ job' = [t \in Repairers |-> Idle] /\ put' = Default /\ search' = Default
    /\ torn' = torn \cup {Writes(job[t]) : t \in Open}
    /\ UNCHANGED <<disk, version, copies, tick>>

FilesNext ==
    \/ \E t \in Repairers, f \in Files : BackupCall(t, f) \/ RestoreFile(t, f)
    \/ \E t \in Repairers : CopyBlocks(t) \/ Close(t)
    \/ \E d \in Dirs : SetDirectory(d) \/ BackupInit(d)
    \/ \E f \in Files : Replace(f)
    \/ Tick \/ Crash

FilesSpec == FilesInit /\ [][FilesNext]_filesVars

-----------------------------------------------------------------------------
(* Properties *)

Block   == (Files \X (0..MaxVersion)) \cup {Gap}
FileContent == UNION {[1..n -> Block] : n \in 0..Blocks}
Jobs    == [kind : {"backup", "restore"}, file : Files, name : Names, pos : 1..(Blocks + 1)]
FilesTypeOK ==
    /\ disk \in [Files -> FileContent]
    /\ DOMAIN copies \subseteq Names /\ \A n \in DOMAIN copies : copies[n] \in FileContent
    /\ tick \in 0..MaxTick /\ put \in Dirs /\ search \in Dirs
    /\ job \in [Repairers -> Jobs \cup {Idle}]
    /\ torn \subseteq Files \cup DOMAIN copies /\ version \in 0..MaxVersion
    /\ \A t \in Open : job[t].name \in DOMAIN copies

(* Whatever is backed up, replaced and restored, in whichever order and by  *)
(* several threads: what nobody is writing is some version as a whole, but   *)
(* for what a crash or another call cut into and for copies of that.  A file *)
(* that a crash left half written is whole again after its restoration.     *)
IsWhole(c) == \E f \in Files, v \in 0..version : c = Whole(f, v)
Settled(S) == {x \in S \ torn : \A t \in Open : Writes(job[t]) # x}
WholeCopies ==
    /\ \A f \in Settled(Files) : IsWhole(disk[f])
    /\ \A n \in Settled(DOMAIN copies) : IsWhole(copies[n])

(* The backups that are searched to restore a file are those of this specific *)
(* file: torn or not, a file is made of blocks of itself.                    *)
OwnFile ==
    \A f \in Files : \A i \in DOMAIN disk[f] : disk[f][i] = Gap \/ disk[f][i][1] = f

(* A finished backup stays as it is: only a backup of the same file in the  *)
(* same tick writes over it, and nothing removes it.                        *)
BackupsStay ==
    [][\A n \in DOMAIN copies :
         n.at # tick /\ (\A t \in Open : Writes(job[t]) # n)
             => n \in DOMAIN copies' /\ copies'[n] = copies[n]]_filesVars
=============================================================================
