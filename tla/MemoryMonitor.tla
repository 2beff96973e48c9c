--------------------------- MODULE MemoryMonitor ---------------------------
(***************************************************************************)
(* core/memory_monitor/memory_scanner.c and core/repair_system/              *)
(* memory_repair.c, which share the regions: the audit task that a thread     *)
(* pool runs, the thread that starts and stops it (one: start and stop test   *)
(* g_audit_running without a lock), and client threads that add, remove, back  *)
(* up and repair.  Someone else writes the memory they watch.                 *)
(*                                                                         *)
(* A hash is the content it was computed from: collisions are left out.       *)
(* A region is its number, its name too; a region or a backup is "gone" once   *)
(* it is freed, and the model ends (misused) when one is touched after that.   *)
(***************************************************************************)
EXTENDS Integers, Sequences, FiniteSets

CONSTANTS Clients, Audit,
          Ops,          \* which calls the program makes
          Extents,      \* [base, size] of what is watched and backed up
          Addrs, Values,
          Clean,        \* the bytes the program itself put at each address
          Careful,      \* only clean bytes are added and backed up
          Tampering,    \* somebody changes the memory
          ScanLimit,    \* results[64]
          MaxRegions, MaxBackups

Threads == Clients \cup {Audit}
NoOne   == "no_one"
Calls == {"add", "remove", "backup", "free", "restore", "fix", "fix_all",
          "audit"}

ASSUME MonitorAssumption ==
    /\ Audit \notin Clients /\ NoOne \notin Threads /\ Ops \subseteq Calls
    /\ Extents \subseteq [base : Int, size : Nat \ {0}]
    /\ \A x \in Extents : x.base..(x.base + x.size - 1) \subseteq Addrs
    /\ Clean \in [Addrs -> Values]
    /\ Careful \in BOOLEAN /\ Tampering \in BOOLEAN
    /\ ScanLimit \in Nat \ {0} /\ MaxRegions \in Nat /\ MaxBackups \in Nat

VARIABLES mem,                    \* the watched memory
          region, list, gone,     \* regions by number, g_regions, the freed ones
          backup, saved, bgone,   \* backups by number, g_memory_backups, the freed ones
          holder,                 \* owner of g_regions_mutex
          running, pool,          \* g_audit_running, g_thread_pool # NULL
          ctl,                    \* the thread that starts and stops
          pc, cursor, found, ptr, bak,  \* per thread: place, scan position,
                                        \* results left, region, backup
          misused,                \* something freed was touched
          removed                 \* history: a client has removed a region or
                                  \* freed a backup

regions == <<region, list, gone>>
backups == <<backup, saved, bgone>>
control == <<running, pool, ctl>>
local   == <<cursor, found, ptr, bak>>
monitorVars    == <<mem, regions, backups, holder, control, pc, local, misused, removed>>

MonitorInit ==
    /\ mem = Clean
    /\ region = <<>> /\ list = <<>> /\ gone = {}
    /\ backup = <<>> /\ saved = <<>> /\ bgone = {}
    /\ holder = NoOne /\ running = FALSE /\ pool = FALSE /\ ctl = "idle"
    /\ pc = [t \in Threads |-> IF t = Audit THEN "none" ELSE "idle"]
    /\ cursor = [t \in Threads |-> 0] /\ found = [t \in Threads |-> <<>>]
    /\ ptr = [t \in Threads |-> 0] /\ bak = [t \in Threads |-> 0]
    /\ misused = FALSE /\ removed = FALSE

Cells(x) == x.base..(x.base + x.size - 1)
Content(m, x) == [a \in Cells(x) |-> m[a]]
(* ps14_memory_scan_region *)
Tampered(r) == Content(mem, region[r]) # region[r].good

At(t, place)   == ~misused /\ pc[t] = place
MoveTo(t, place) == pc' = [pc EXCEPT ![t] = place]
Touch(t)       == misused' = (ptr[t] \in gone)
Listed(s)      == {s[i] : i \in DOMAIN s}
(* The unlinking loops stop at the node that they find, if they find it.    *)
Unlinked(s, n) ==
    IF n \in Listed(s)
    THEN {[j \in 1..(Len(s) - 1) |-> s[IF j < i THEN j ELSE j + 1]] : i \in {k \in DOMAIN s : s[k] = n}}
    ELSE {s}

Tamper(a, v) ==
    /\ Tampering /\ ~misused /\ v # mem[a] /\ mem' = [mem EXCEPT ![a] = v]
    /\ UNCHANGED <<regions, backups, holder, control, pc, local, misused, removed>>

-----------------------------------------------------------------------------
(* Regions *)

Allowed(x) == Careful => Content(mem, x) = Content(Clean, x)

AddRegion(c, x) ==
    /\ At(c, "idle") /\ "add" \in Ops /\ Len(region) < MaxRegions /\ holder = NoOne
    /\ Allowed(x)
    /\ region' = Append(region, [base |-> x.base, size |-> x.size, good |-> Content(mem, x)])
    /\ list' = <<Len(region')>> \o list
    /\ UNCHANGED <<mem, gone, backups, holder, control, pc, local, misused, removed>>

(* ps14_memory_find_region, for a caller that goes on with the pointer.     *)
FindRegion(c, r, use) ==
    /\ At(c, "idle") /\ holder = NoOne /\ r \in Listed(list)
    /\ ptr' = [ptr EXCEPT ![c] = r] /\ MoveTo(c, use)
    /\ UNCHANGED <<mem, regions, backups, holder, control, cursor, found, bak, misused, removed>>
RemoveCall(c, r)  == "remove" \in Ops /\ FindRegion(c, r, "unlink")
RestoreCall(c, r) == "restore" \in Ops /\ FindRegion(c, r, "look_up")
FixCall(c, r)     == "fix" \in Ops /\ FindRegion(c, r, "fix")

\* Mutant: the list is changed without the mutex.
UnlinkUnlocked(c) ==
    /\ At(c, "unlink")
    /\ list' \in Unlinked(list, ptr[c]) /\ MoveTo(c, "free")
    /\ UNCHANGED <<mem, region, gone, backups, holder, control, local, misused, removed>>
Unlink(c) ==
    /\ At(c, "unlink") /\ holder = NoOne
    /\ list' \in Unlinked(list, ptr[c]) /\ MoveTo(c, "free")
    /\ UNCHANGED <<mem, region, gone, backups, holder, control, local, misused, removed>>

FreeRegion(c) ==
    /\ At(c, "free") /\ Touch(c)
    /\ gone' = gone \cup {ptr[c]} /\ MoveTo(c, "idle") /\ ptr' = [ptr EXCEPT ![c] = 0]
    /\ removed' = TRUE
    /\ UNCHANGED <<mem, region, list, backups, holder, control, cursor, found, bak>>

-----------------------------------------------------------------------------
(* ps14_memory_scan_all: under the mutex, one region after the other, until *)
(* the list or the room for results ends                                    *)

First == IF list = <<>> THEN 0 ELSE list[1]
(* region->next; the last one has none.                                     *)
Follows(n, r) == \/ \E i \in DOMAIN list : i > 1 /\ list[i - 1] = r /\ n = list[i]
                 \/ n = 0 /\ \A i \in DOMAIN list : i > 1 => list[i - 1] # r

BeginScan(t) ==
    /\ holder = NoOne /\ holder' = t /\ MoveTo(t, "scan")
    /\ cursor' = [cursor EXCEPT ![t] = First] /\ found' = [found EXCEPT ![t] = <<>>]
    /\ UNCHANGED <<mem, regions, backups, control, ptr, bak, misused, removed>>

\* Mutant: room for one result less.
ScanningShort(t) == cursor[t] # 0 /\ Len(found[t]) + 1 < ScanLimit
Scanning(t) == cursor[t] # 0 /\ Len(found[t]) < ScanLimit

ScanOne(t) ==
    /\ At(t, "scan") /\ Scanning(t)
    /\ misused' = (cursor[t] \in gone)
    /\ found' = [found EXCEPT ![t] = IF Tampered(cursor[t]) THEN Append(@, cursor[t]) ELSE @]
    /\ \E n \in Listed(list) \cup {0} :
          Follows(n, cursor[t]) /\ cursor' = [cursor EXCEPT ![t] = n]
    /\ UNCHANGED <<mem, regions, backups, holder, control, pc, ptr, bak, removed>>

EndScan(t) ==
    /\ At(t, "scan") /\ ~Scanning(t)
    /\ holder' = NoOne /\ cursor' = [cursor EXCEPT ![t] = 0]
    /\ MoveTo(t, IF t = Audit THEN "notify" ELSE "next")
    /\ UNCHANGED <<mem, regions, backups, control, found, ptr, bak, misused, removed>>

-----------------------------------------------------------------------------
(* The audit task: scan, tell the callbacks, sleep, while g_audit_running *)

TakeTask ==   \* a pool worker takes the task
    /\ At(Audit, "queued") /\ MoveTo(Audit, "loop")
    /\ UNCHANGED <<mem, regions, backups, holder, control, local, misused, removed>>
\* Mutant: the flag is not read again.
AuditEndless ==
    /\ At(Audit, "loop") /\ MoveTo(Audit, "lock")
    /\ UNCHANGED <<mem, regions, backups, holder, control, local, misused, removed>>
AuditCheck ==
    /\ At(Audit, "loop") /\ MoveTo(Audit, IF running THEN "lock" ELSE "none")
    /\ UNCHANGED <<mem, regions, backups, holder, control, local, misused, removed>>
AuditScan == At(Audit, "lock") /\ BeginScan(Audit)

(* The callbacks get the pointer that scan_all found before it let go of    *)
(* the mutex.                                                               *)
Reporting(r) == pc[Audit] = "notify" /\ found[Audit] # <<>> /\ Head(found[Audit]) = r
Notify ==
    /\ At(Audit, "notify") /\ found[Audit] # <<>>
    /\ misused' = (Head(found[Audit]) \in gone)
    /\ found' = [found EXCEPT ![Audit] = Tail(@)]
    /\ UNCHANGED <<mem, regions, backups, holder, control, pc, cursor, ptr, bak, removed>>
AuditSleep ==
    /\ At(Audit, "notify") /\ found[Audit] = <<>> /\ MoveTo(Audit, "loop")
    /\ UNCHANGED <<mem, regions, backups, holder, control, local, misused, removed>>

-----------------------------------------------------------------------------
(* Starting, stopping, shutting down: one thread *)

Start ==
    /\ ~misused /\ ctl = "idle" /\ "audit" \in Ops /\ ~running
    /\ \/ running' = TRUE /\ pool' = TRUE /\ MoveTo(Audit, "queued")
       \/ ~pool /\ UNCHANGED <<running, pool, pc>>              \* no pool
       \/ pool' = TRUE /\ UNCHANGED <<running, pc>>             \* submit fails
    /\ UNCHANGED <<mem, regions, backups, holder, ctl, local, misused, removed>>

Stop(next) ==
    /\ running /\ running' = FALSE /\ ctl' = next
    /\ UNCHANGED <<mem, regions, backups, holder, pool, pc, local, misused, removed>>
StopCall == ~misused /\ ctl = "idle" /\ Stop("join")

\* Mutant: stop does not wait for the audit.
JoinNothing ==
    /\ ~misused /\ ctl \in {"join", "join_exit"}
    /\ pool' = FALSE /\ ctl' = (IF ctl = "join" THEN "idle" ELSE "freeing")
    /\ UNCHANGED <<mem, regions, backups, holder, running, pc, local, misused, removed>>
(* ps14_thread_pool_shutdown(pool, true): the task has ended, or is dropped *)
(* from the queue.                                                          *)
Join ==
    /\ ~misused /\ ctl \in {"join", "join_exit"} /\ pc[Audit] \in {"none", "queued"}
    /\ MoveTo(Audit, "none")
    /\ pool' = FALSE /\ ctl' = (IF ctl = "join" THEN "idle" ELSE "freeing")
    /\ UNCHANGED <<mem, regions, backups, holder, running, local, misused, removed>>

ShutdownCall ==
    /\ ~misused /\ ctl = "idle"
    /\ \/ Stop("join_exit")
       \/ /\ ~running /\ ctl' = "freeing"
          /\ UNCHANGED <<mem, regions, backups, holder, running, pool, pc, local, misused, removed>>

ClientsIdle == \A c \in Clients : pc[c] = "idle"

(* The mutexes are destroyed with the list: no client is in a call.         *)
FreeRegions ==
    /\ ~misused /\ ctl = "freeing" /\ ClientsIdle /\ holder = NoOne
    /\ list' = <<>> /\ gone' = gone \cup Listed(list) /\ ctl' = "idle"
    /\ UNCHANGED <<mem, region, backups, holder, running, pool, pc, local, misused, removed>>

-----------------------------------------------------------------------------
(* memory_repair.c *)

Backup(c, x) ==
    /\ At(c, "idle") /\ "backup" \in Ops /\ Len(backup) < MaxBackups
    /\ Allowed(x)
    /\ backup' = Append(backup, [base |-> x.base, data |-> Content(mem, x)])
    /\ saved' = <<Len(backup')>> \o saved
    /\ UNCHANGED <<mem, regions, bgone, holder, control, pc, local, misused, removed>>

FreeBackup(c, b) ==
    /\ At(c, "idle") /\ "free" \in Ops /\ b \in Listed(saved)
    /\ saved' \in Unlinked(saved, b) /\ bgone' = bgone \cup {b}
    /\ removed' = TRUE
    /\ UNCHANGED <<mem, regions, backup, holder, control, pc, local, misused>>

ShutdownRepair ==
    /\ ~misused /\ ClientsIdle /\ saved # <<>>
    /\ saved' = <<>> /\ bgone' = bgone \cup Listed(saved)
    /\ UNCHANGED <<mem, regions, backup, holder, control, pc, local, misused, removed>>

Done(c) ==
    /\ MoveTo(c, "next") /\ ptr' = [ptr EXCEPT ![c] = 0] /\ bak' = [bak EXCEPT ![c] = 0]

(* ps14_repair_check_and_fix_all: what scan_all found, one by one.          *)
FixAllCall(c) == At(c, "idle") /\ "fix_all" \in Ops /\ BeginScan(c)
FixNext(c) ==
    /\ At(c, "next")
    /\ IF found[c] = <<>> THEN MoveTo(c, "idle") /\ UNCHANGED <<found, ptr>>
       ELSE /\ MoveTo(c, "fix") /\ ptr' = [ptr EXCEPT ![c] = Head(found[c])]
            /\ found' = [found EXCEPT ![c] = Tail(@)]
    /\ UNCHANGED <<mem, regions, backups, holder, control, cursor, bak, misused, removed>>

(* ps14_repair_attempt_auto_fix: scanned again, without the mutex.          *)
Fix(c) ==
    /\ At(c, "fix") /\ Touch(c)
    /\ IF Tampered(ptr[c]) THEN MoveTo(c, "look_up") /\ UNCHANGED <<ptr, bak>> ELSE Done(c)
    /\ UNCHANGED <<mem, regions, backups, holder, control, cursor, found, removed>>

(* ps14_repair_restore_memory *)
Newest(i, base) == /\ backup[saved[i]].base = base
                   /\ \A j \in 1..(i - 1) : backup[saved[j]].base # base
LookUp(c) ==
    /\ At(c, "look_up") /\ Touch(c)
    /\ LET Hit(i) == Newest(i, region[ptr[c]].base)
       IN  \/ (\A i \in DOMAIN saved : ~Hit(i)) /\ Done(c)
           \/ \E i \in DOMAIN saved :
                /\ Hit(i) /\ MoveTo(c, "copy")
                /\ bak' = [bak EXCEPT ![c] = saved[i]] /\ UNCHANGED ptr
    /\ UNCHANGED <<mem, regions, backups, holder, control, cursor, found, removed>>

TouchBoth(c) == misused' = (ptr[c] \in gone \/ bak[c] \in bgone)

Copy(c) ==
    /\ At(c, "copy") /\ TouchBoth(c) /\ MoveTo(c, "bless")
    /\ LET data == backup[bak[c]].data
       IN  mem' = [a \in Addrs |-> IF a \in DOMAIN data THEN data[a] ELSE mem[a]]
    /\ UNCHANGED <<regions, backups, holder, control, local, removed>>

\* Mutant: the trusted hash is computed from the memory after the copy.
BlessMemory(c) ==
    /\ At(c, "bless") /\ TouchBoth(c) /\ Done(c)
    /\ region' = [region EXCEPT ![ptr[c]].good = Content(mem, region[ptr[c]])]
    /\ UNCHANGED <<mem, list, gone, backups, holder, control, cursor, found, removed>>
Bless(c) ==
    /\ At(c, "bless") /\ TouchBoth(c) /\ Done(c)
    /\ region' = [region EXCEPT ![ptr[c]].good = backup[bak[c]].data]
    /\ UNCHANGED <<mem, list, gone, backups, holder, control, cursor, found, removed>>

-----------------------------------------------------------------------------

Client(c) ==
    \/ \E x \in Extents : AddRegion(c, x) \/ Backup(c, x)
    \/ \E r \in Listed(list) : RemoveCall(c, r) \/ RestoreCall(c, r) \/ FixCall(c, r)
    \/ Unlink(c) \/ FreeRegion(c)
    \/ \E b \in Listed(saved) : FreeBackup(c, b)
    \/ FixAllCall(c) \/ FixNext(c) \/ Fix(c) \/ LookUp(c) \/ Copy(c) \/ Bless(c)
Scan  == \E t \in Threads : ScanOne(t) \/ EndScan(t)
Audits == TakeTask \/ AuditCheck \/ AuditScan \/ Notify \/ AuditSleep
Control == Start \/ StopCall \/ Join \/ ShutdownCall \/ FreeRegions \/ ShutdownRepair

MonitorNext == \/ \E a \in Addrs, v \in Values : Tamper(a, v)
               \/ \E c \in Clients : Client(c)
               \/ Scan \/ Audits \/ Control

MonitorSpec == MonitorInit /\ [][MonitorNext]_monitorVars

(* The pool's worker goes on, and a mutex that is not held for ever is      *)
(* given to it; a stop that has begun goes on.                              *)
AuditStep == Audits \/ ScanOne(Audit) \/ EndScan(Audit)
MonitorFairness  == WF_monitorVars(AuditStep) /\ WF_monitorVars(Join)
MonitorLiveSpec  == MonitorSpec /\ MonitorFairness

-----------------------------------------------------------------------------
(* Properties *)

Datas == UNION {[Cells(x) -> Values] : x \in Extents}
MonitorTypeOK ==
    /\ mem \in [Addrs -> Values]
    /\ region \in Seq([base : Int, size : Nat, good : Datas])
    /\ list \in Seq(DOMAIN region) /\ gone \subseteq DOMAIN region
    /\ backup \in Seq([base : Int, data : Datas])
    /\ saved \in Seq(DOMAIN backup) /\ bgone \subseteq DOMAIN backup
    /\ holder \in Threads \cup {NoOne} /\ running \in BOOLEAN /\ pool \in BOOLEAN
    /\ ctl \in {"idle", "join", "join_exit", "freeing"}
    /\ misused \in BOOLEAN /\ removed \in BOOLEAN
    /\ pc \in [Threads -> {"none", "queued", "loop", "lock", "scan", "notify", "idle", "unlink",
                           "free", "next", "fix", "look_up", "copy", "bless"}]
    /\ cursor \in [Threads -> DOMAIN region \cup {0}] /\ found \in [Threads -> Seq(DOMAIN region)]
    /\ ptr \in [Threads -> DOMAIN region \cup {0}]
    /\ bak \in [Threads -> DOMAIN backup \cup {0}]

(* However tampering, repairs and audits interleave, the monitor never      *)
(* comes to trust bytes the program did not put there, as long as the        *)
(* regions and the backups were taken of clean memory: the hash a repair    *)
(* installs is the backup's and not that of the memory just written.  That   *)
(* an address begins regions and backups of one size only is a condition:   *)
(* with others, a repair blesses a hash that fits no scan of the region.     *)
TrustKept == \A r \in DOMAIN region : region[r].good = Content(Clean, region[r])

(* A scan never runs into a region that was freed under it, although frees  *)
(* happen outside the mutex.                                                *)
ScanSafe == \A t \in Threads :
                pc[t] = "scan" => cursor[t] \notin gone

(* As long as no client has removed a region or freed a backup, nothing     *)
(* freed is touched, whatever is started, stopped, shut down and restarted:  *)
(* stop has joined the audit before shutdown frees the list.                *)
NoMisuse == misused => removed

(* The audit reports a region that stays tampered, provided the results it  *)
(* hands over hold it: ScanLimit tampered regions ahead of it in the list    *)
(* fill them, and then it may never be looked at.                           *)
Ahead(r) == {list[i] : i \in {j \in DOMAIN list : \E k \in DOMAIN list : list[k] = r /\ j < k}}
Room(r)  == Cardinality({q \in Ahead(r) : Tampered(q)}) < ScanLimit
Due(r)   == r \in Listed(list) /\ running /\ Tampered(r) /\ Room(r)
Reported == \A r \in 1..MaxRegions : Due(r) ~> (Reporting(r) \/ ~Due(r))

(* A stop ends, whatever the audit was doing: the task it waits for does.   *)
(* That the pool's workers then leave is a question to ThreadPool.           *)
StopEnds == ctl \in {"join", "join_exit"} ~> ctl \in {"idle", "freeing"}
=============================================================================
