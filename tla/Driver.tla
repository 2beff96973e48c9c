------------------------------- MODULE Driver -------------------------------
(***************************************************************************)
(* The kernel driver: src/kernel/driver.c loads, dispatches requests and     *)
(* unloads; memory_guard.c changes page protections and puts them back;        *)
(* process_watcher.c logs what the notify routines tell it.                   *)
(*                                                                         *)
(* A request runs in the process that sent it, and several run at once.  A    *)
(* spin-locked section is one step.  Addresses are numbers, PageSize of them   *)
(* to a page, and every process has the same ones.  A page's protection is the *)
(* set of its rights; Given is what the processes gave their pages.  Windows   *)
(* is external: it protects whole pages and rounds the address it is handed,   *)
(* no request is in the driver when it is unloaded, and a notify routine stays *)
(* registered until it is removed.                                           *)
(***************************************************************************)
EXTENDS Integers, Sequences, FiniteSets

CONSTANTS Callers, Cpus,     \* threads with a request; where notify routines run
          Procs, Pages, PageSize, Given,
          Regions,           \* [base, size], which a process may ask for
          FlagSets,          \* the protection flags it may ask for
          Kinds,             \* process, thread and image notify routines
          MaxLog,            \* MAX_EVENT_LOG
          MaxEntries, MaxLoads

Flags   == {"r", "w", "x", "guard", "noaccess"}
NoEntry == [proc |-> "none"]

PageOf(addr)     == addr \div PageSize
Rounded(addr)    == PageSize * PageOf(addr)
Span(addr, size) == {a \in Pages : PageOf(addr) <= a /\ a <= PageOf(addr + size - 1)}

ASSUME DriverAssumption ==
    /\ PageSize \in Nat \ {0} /\ Pages \subseteq Nat
    /\ Given \in [Procs -> [Pages -> SUBSET Flags]]
    /\ Regions \subseteq [base : Nat, size : Nat \ {0}]
    /\ \A r \in Regions : PageOf(r.base) \in Pages
    /\ FlagSets \subseteq SUBSET Flags
    /\ MaxLog \in Nat \ {0} /\ MaxEntries \in Nat /\ MaxLoads \in Nat

VARIABLES driver, loads,    \* where the driver is in its life, how often loaded
          prot,             \* the pages' protections
          listed, refs,     \* g_protected_regions_list, references to processes
          place, work,      \* per caller: place, the request it works on
          hooked, handles,  \* routines that Windows calls; g_*_callback # NULL
          enabled, log,     \* g_monitoring_enabled, g_event_log
          noting,           \* per cpu: a routine has passed the test
          spoiled,          \* history: per process, pages for which the one
                            \* protection kept of their region, or its size, is wrong
          late              \* history: per cpu, events logged since the watch
                            \* was switched off

guard == <<prot, listed, refs, place, work, spoiled>>
watch == <<hooked, handles, enabled, log, noting, late>>
driverVars == <<driver, loads, guard, watch>>

DriverInit ==
    /\ driver = "unloaded" /\ loads = 0
    /\ prot = Given /\ listed = <<>> /\ refs = [p \in Procs |-> 0]
    /\ place = [c \in Callers |-> "idle"] /\ work = [c \in Callers |-> NoEntry]
    /\ hooked = {} /\ handles = {} /\ enabled = FALSE /\ log = <<>>
    /\ noting = [n \in Cpus |-> FALSE] /\ spoiled = [p \in Procs |-> {}]
    /\ late = [n \in Cpus |-> 0]

-----------------------------------------------------------------------------
(* memory_guard.c *)

(* ps14_convert_flags: no access wins, writing includes reading, and nothing *)
(* at all is a guarded read.                                                *)
Rights(flags) == (IF "w" \in flags THEN {"r", "w"} ELSE flags \cap {"r"})
                     \cup (flags \cap {"x", "guard"})
Convert(flags) == IF "noaccess" \in flags THEN {"noaccess"}
                  ELSE IF Rights(flags) = {} THEN {"r", "guard"} ELSE Rights(flags)
(* A guard modifies a protection: Windows takes none by itself.             *)
Valid(p) == p # {"guard"}

(* ZwProtectVirtualMemory gives all the pages one protection.               *)
SetPages(p, pages, to) ==
    prot' = [prot EXCEPT ![p] = [a \in Pages |-> IF a \in pages THEN to ELSE @[a]]]

Ready(c) == driver = "loaded" /\ place[c] = "idle"
GoOn(c, to) == place' = [place EXCEPT ![c] = to]

(* The code asks for the protection of the region's first page and puts it   *)
(* back on all of them: those that were given another one are spoiled.       *)
Unlike(p, first, span) == {a \in span : Given[p][a] # prot[p][first]}
Spoil(p, pages) == spoiled' = [spoiled EXCEPT ![p] = @ \cup pages]

(* ps14_memory_guard_protect: ask for the protection, change it, list it.   *)
Query(c, p, r, flags) ==
    LET first == PageOf(r.base)
        span  == Span(r.base, r.size)
    IN  /\ Ready(c) /\ Len(listed) + Cardinality({d \in Callers : place[d] # "idle"}) < MaxEntries
        /\ work' = [work EXCEPT ![c] = [proc |-> p, base |-> r.base, size |-> r.size,
                                        span |-> span, flags |-> flags,
                                        original |-> prot[p][first], old |-> prot[p][first]]]
        /\ Spoil(p, Unlike(p, first, span))
        /\ GoOn(c, "protect")
        /\ UNCHANGED <<driver, loads, prot, listed, refs, watch>>

\* Mutant: the protection is asked for after it was changed.
ProtectThenQuery(c) ==
    /\ place[c] = "protect"
    /\ LET w == work[c]
           first == PageOf(w.base)
       IN  IF Valid(Convert(w.flags))
           THEN /\ SetPages(w.proc, w.span, Convert(w.flags)) /\ GoOn(c, "insert")
                /\ work' = [work EXCEPT ![c].base = Rounded(w.base), ![c].old = prot[w.proc][first],
                                        ![c].original = Convert(w.flags)]
                /\ Spoil(w.proc, Unlike(w.proc, first, w.span))
           ELSE GoOn(c, "idle") /\ work' = [work EXCEPT ![c] = NoEntry] /\ UNCHANGED <<prot, spoiled>>
    /\ UNCHANGED <<driver, loads, listed, refs, watch>>
(* Windows rounds the address in the request itself (and the size in a copy  *)
(* of its own) and answers with the first page's protection.                *)
Protect(c) ==
    /\ place[c] = "protect"
    /\ LET w == work[c]
           first == PageOf(w.base)
       IN  IF Valid(Convert(w.flags))
           THEN /\ SetPages(w.proc, w.span, Convert(w.flags)) /\ GoOn(c, "insert")
                /\ work' = [work EXCEPT ![c].base = Rounded(w.base), ![c].old = prot[w.proc][first]]
                /\ Spoil(w.proc, Unlike(w.proc, first, w.span))
           ELSE GoOn(c, "idle") /\ work' = [work EXCEPT ![c] = NoEntry] /\ UNCHANGED <<prot, spoiled>>
    /\ UNCHANGED <<driver, loads, listed, refs, watch>>

(* The entry has the rounded address and the size asked for: what lies behind *)
(* is not put back.  Without memory for it, all the pages are at once.       *)
Insert(c) ==
    /\ place[c] = "insert" /\ GoOn(c, "idle") /\ work' = [work EXCEPT ![c] = NoEntry]
    /\ LET w == work[c]
       IN  \/ /\ listed' = Append(listed, [proc |-> w.proc, base |-> w.base, size |-> w.size,
                                           original |-> w.original])
              /\ refs' = [refs EXCEPT ![w.proc] = @ + 1]
              /\ Spoil(w.proc, w.span \ Span(w.base, w.size)) /\ UNCHANGED prot
           \/ SetPages(w.proc, w.span, w.old) /\ UNCHANGED <<listed, refs, spoiled>>
    /\ UNCHANGED <<driver, loads, watch>>

Covers(e, p, a) == e.proc = p /\ a \in Span(e.base, e.size)

\* Mutant: the reference to the process is kept.
UnprotectLeaks(c, addr) ==
    /\ Ready(c)
    /\ \E i \in DOMAIN listed :
         /\ listed[i].base = addr /\ \A j \in 1..(i - 1) : listed[j].base # addr
         /\ SetPages(listed[i].proc, Span(addr, listed[i].size), listed[i].original)
         /\ listed' = [j \in 1..(Len(listed) - 1) |-> listed[IF j < i THEN j ELSE j + 1]]
    /\ UNCHANGED <<driver, loads, refs, place, work, spoiled, watch>>
(* ps14_memory_guard_unprotect: the first entry at the address, whichever    *)
(* process it is of.  The address is not rounded before it is looked for.    *)
Unprotect(c, addr) ==
    /\ Ready(c)
    /\ \E i \in DOMAIN listed :
         /\ listed[i].base = addr /\ \A j \in 1..(i - 1) : listed[j].base # addr
         /\ SetPages(listed[i].proc, Span(addr, listed[i].size), listed[i].original)
         /\ listed' = [j \in 1..(Len(listed) - 1) |-> listed[IF j < i THEN j ELSE j + 1]]
         /\ refs' = [refs EXCEPT ![listed[i].proc] = @ - 1]
    /\ UNCHANGED <<driver, loads, place, work, spoiled, watch>>

(* A page that is listed gets another protection from its own process: one  *)
(* of those it may ask for, or the one it had.                              *)
Reprotect(p, a, to) ==
    /\ \E i \in DOMAIN listed : Covers(listed[i], p, a)
    /\ Valid(to) /\ to # prot[p][a] /\ SetPages(p, {a}, to)
    /\ UNCHANGED <<driver, loads, listed, refs, place, work, spoiled, watch>>

-----------------------------------------------------------------------------
(* process_watcher.c *)

\* Mutant: the flag is not tested.
TestNothing(n) ==
    /\ hooked # {} /\ driver # "unloaded" /\ ~noting[n]
    /\ noting' = [noting EXCEPT ![n] = TRUE]
    /\ UNCHANGED <<driver, loads, guard, hooked, handles, enabled, log, late>>
(* A notify routine tests the flag, and logs under the lock what fits.      *)
Test(n) ==
    /\ hooked # {} /\ driver # "unloaded" /\ ~noting[n]
    /\ noting' = [noting EXCEPT ![n] = enabled]
    /\ UNCHANGED <<driver, loads, guard, hooked, handles, enabled, log, late>>
Note(n) ==
    /\ noting[n] /\ noting' = [noting EXCEPT ![n] = FALSE]
    /\ IF Len(log) < MaxLog
       THEN log' = Append(log, n) /\ late' = [late EXCEPT ![n] = IF enabled THEN @ ELSE @ + 1]
       ELSE UNCHANGED <<log, late>>
    /\ UNCHANGED <<driver, loads, guard, hooked, handles, enabled>>

(* Requests to monitor a process, whichever it is, and to stop.             *)
Monitor(c, on) ==
    /\ Ready(c) /\ enabled' = on /\ late' = [n \in Cpus |-> 0]
    /\ UNCHANGED <<driver, loads, guard, hooked, handles, log, noting>>

-----------------------------------------------------------------------------
(* driver.c *)

(* The device and its link may fail, and then nothing is left; else the      *)
(* subsystems start.  What Windows answers to a registration is kept as the  *)
(* routine's handle: NULL is success.                                       *)
Load ==
    /\ driver = "unloaded" /\ loads < MaxLoads /\ hooked = {}
    /\ driver' = "loaded" /\ loads' = loads + 1
    /\ listed' = <<>> /\ log' = <<>> /\ enabled' = TRUE /\ late' = [n \in Cpus |-> 0]
    /\ \E done \in SUBSET Kinds : hooked' = done /\ handles' = Kinds \ done
    /\ UNCHANGED <<prot, refs, place, work, spoiled, noting>>

(* ps14_memory_guard_shutdown, entry by entry in the order of the list: the *)
(* last one to cover a page decides.                                        *)
PutBack(p, a) ==
    LET covering == {i \in DOMAIN listed : Covers(listed[i], p, a)}
    IN  IF covering = {} THEN prot[p][a]
        ELSE listed[CHOOSE i \in covering : \A k \in covering : k <= i].original
UnloadGuard ==
    /\ driver = "loaded" /\ \A c \in Callers : place[c] = "idle"
    /\ driver' = "unloading"
    /\ prot' = [p \in Procs |-> [a \in Pages |-> PutBack(p, a)]]
    /\ refs' = [p \in Procs |-> refs[p] - Cardinality({i \in DOMAIN listed : listed[i].proc = p})]
    /\ listed' = <<>>
    /\ UNCHANGED <<loads, place, work, spoiled, watch>>

(* ps14_process_watcher_shutdown removes the routines that have a handle;    *)
(* to remove one waits for its calls.                                       *)
UnloadWatcher ==
    /\ driver = "unloading" /\ driver' = "unloaded"
    /\ enabled' = FALSE /\ log' = <<>>
    /\ hooked' = hooked \ handles /\ handles' = {} /\ late' = [n \in Cpus |-> 0]
    /\ UNCHANGED <<loads, guard, noting>>

-----------------------------------------------------------------------------

Request(c) ==
    \/ \E p \in Procs, r \in Regions, f \in FlagSets : Query(c, p, r, f)
    \/ Protect(c) \/ Insert(c)
    \/ \E r \in Regions : Unprotect(c, r.base) \/ Unprotect(c, Rounded(r.base))
    \/ \E on \in BOOLEAN : Monitor(c, on)
Notice(n) == Test(n) \/ Note(n)

DriverNext ==
    \/ Load \/ UnloadGuard \/ UnloadWatcher
    \/ \E c \in Callers : Request(c)
    \/ \E n \in Cpus : Notice(n)
    \/ \E p \in Procs, a \in Pages, f \in FlagSets : Reprotect(p, a, Convert(f)) \/ Reprotect(p, a, Given[p][a])

DriverSpec == DriverInit /\ [][DriverNext]_driverVars

-----------------------------------------------------------------------------
(* Properties *)

Entries == [proc : Procs, base : Nat, size : Nat \ {0}, original : SUBSET Flags]
Requests    == [proc : Procs, base : Nat, size : Nat \ {0}, span : SUBSET Pages,
                flags : FlagSets, original : SUBSET Flags, old : SUBSET Flags]
DriverTypeOK ==
    /\ driver \in {"unloaded", "loaded", "unloading"} /\ loads \in 0..MaxLoads
    /\ prot \in [Procs -> [Pages -> SUBSET Flags]]
    /\ listed \in Seq(Entries) /\ refs \in [Procs -> Int]
    /\ place \in [Callers -> {"idle", "protect", "insert"}]
    /\ work \in [Callers -> Requests \cup {NoEntry}]
    /\ hooked \subseteq Kinds /\ handles \subseteq Kinds /\ enabled \in BOOLEAN
    /\ log \in Seq(Cpus) /\ Len(log) <= MaxLog
    /\ noting \in [Cpus -> BOOLEAN] /\ spoiled \in [Procs -> SUBSET Pages]
    /\ late \in [Cpus -> Nat]

(* Whatever requests overlap, fail, or are never undone, whoever undoes them, *)
(* and whatever a process does to its pages meanwhile: a page that no entry   *)
(* covers, and that no request has just changed, has the protection its       *)
(* process gave it, in that process.  The exceptions are pages that were      *)
(* protected as part of a region whose first page had another protection     *)
(* then (mixed regions, and regions that begin in one already protected), and *)
(* pages behind the size of a region that begins inside a page.             *)
Released ==
    \A p \in Procs, a \in Pages :
        \/ prot[p][a] = Given[p][a]
        \/ a \in spoiled[p]
        \/ \E i \in DOMAIN listed : Covers(listed[i], p, a)
        \/ \E c \in Callers : place[c] = "insert" /\ work[c].proc = p /\ a \in work[c].span

(* The driver holds a process object exactly as long as it lists a region   *)
(* of it: no entry outlives its process, and an unload lets go of all.       *)
Referenced ==
    \A p \in Procs : refs[p] = Cardinality({i \in DOMAIN listed : listed[i].proc = p})

(* After a stop, only the routines that had already seen the flag log their *)
(* event.                                                                   *)
StopDrains == \A n \in Cpus : late[n] <= 1

(* Nothing that Windows still calls is left behind by an unload.            *)
Unhooked == driver = "unloaded" => hooked = {}
=============================================================================
