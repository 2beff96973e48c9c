---------------------------- MODULE AsyncAuditor ----------------------------
(***************************************************************************)
(* core/advanced/async_auditor.c: a list of regions under g_regions_mutex   *)
(* and a pool whose threads walk it again and again until they are told to  *)
(* stop.  The thread that finds a region tampered with locks the mutex it   *)
(* already holds: a Windows critical section lets it in, a default POSIX    *)
(* mutex never does.  One thread starts, stops and shuts down.  When two    *)
(* first calls initialise the auditor at once, the second takes the list    *)
(* and the mutex away from the first; the model ends there.                 *)
(***************************************************************************)
EXTENDS Integers, Sequences, FiniteSets, SequencesExt

CONSTANTS Clients, Controller,   \* callers; the one that starts and stops
          Workers,               \* tasks of the pool, one thread each
          Names,                 \* of regions
          Blocks,                \* heap blocks for regions
          Null

Reasons == {"start", "stop", "shutdown", "advanced"}   \* why the list is reset or freed

ASSUME AuditorAssumption ==
    /\ Controller \in Clients
    /\ Null \notin Blocks \cup Workers \cup Names \cup Reasons
    /\ Names \cap Reasons = {}

VARIABLES recursive,   \* what kind of mutex the platform has
          ready,       \* g_auditor_initialized
          running,     \* g_auditor_running
          regions,     \* g_regions: block and name, newest first
          allocated,   \* blocks that are not freed
          owner,       \* who holds g_regions_mutex
          violations,  \* g_violations_found > 0
          worker,      \* per task: where it is
          cursor,      \* per task: the block it looks at
          call, arg,   \* per client: where it is in its call, its argument
          raced        \* history: initialised a second time under other calls

auditor     == <<ready, running, regions, allocated, owner, violations, raced>>
auditorVars == <<recursive, auditor, worker, cursor, call, arg>>

AuditorInit ==
    /\ recursive \in BOOLEAN
    /\ ready = FALSE /\ running = FALSE /\ regions = <<>> /\ allocated = {}
    /\ owner = Null /\ violations = FALSE /\ raced = FALSE
    /\ worker = [w \in Workers |-> "none"] /\ cursor = [w \in Workers |-> Null]
    /\ call = [c \in Clients |-> "idle"] /\ arg = [c \in Clients |-> Null]

(* While a shutdown is under way nobody else makes a call.                  *)
ClosingCall == arg[Controller] \in {"shutdown", "advanced"}
Idle(c) == call[c] = "idle" /\ ~ClosingCall
Calls(c, place, a) ==
    call' = [call EXCEPT ![c] = place] /\ arg' = [arg EXCEPT ![c] = a]
Returns(c) == Calls(c, "idle", Null)

-----------------------------------------------------------------------------
(* The audit threads *)

Goes(w, from, to) == worker[w] = from /\ worker' = [worker EXCEPT ![w] = to]

(* The task of a pool that is shut down is still run: it stops here.        *)
TestRunning(w) ==
    /\ Goes(w, "test", IF running THEN "lock" ELSE "done")
    /\ UNCHANGED <<recursive, auditor, cursor, call, arg>>

Lock(w) ==
    /\ Goes(w, "lock", "scan") /\ owner = Null
    /\ owner' = w
    /\ cursor' = [cursor EXCEPT ![w] = IF regions = <<>> THEN Null ELSE regions[1].block]
    /\ UNCHANGED <<recursive, ready, running, regions, allocated, violations, raced, call, arg>>

After(b) ==
    LET at == {i \in 1..(Len(regions) - 1) : regions[i].block = b}
    IN  IF at = {} THEN Null ELSE regions[1 + CHOOSE i \in at : TRUE].block

(* The region handed to the scan has no trusted hash: it may or may not     *)
(* look tampered with.                                                      *)
ScanClean(w) ==
    /\ worker[w] = "scan" /\ cursor[w] # Null
    /\ cursor' = [cursor EXCEPT ![w] = After(cursor[w])]
    /\ UNCHANGED <<recursive, auditor, worker, call, arg>>

ScanTampered(w) ==
    /\ Goes(w, "scan", "relock") /\ cursor[w] # Null
    /\ UNCHANGED <<recursive, auditor, cursor, call, arg>>

Count(w) ==
    /\ recursive /\ Goes(w, "relock", "scan")
    /\ violations' = TRUE
    /\ cursor' = [cursor EXCEPT ![w] = After(cursor[w])]
    /\ UNCHANGED <<recursive, ready, running, regions, allocated, owner, raced, call, arg>>

(* Then it sleeps.                                                          *)
Unlock(w) ==
    /\ Goes(w, "scan", "test") /\ cursor[w] = Null
    /\ owner' = Null
    /\ UNCHANGED <<recursive, ready, running, regions, allocated, violations, raced, cursor, call, arg>>

Work(w) ==
    TestRunning(w) \/ Lock(w) \/ ScanClean(w) \/ ScanTampered(w) \/ Count(w) \/ Unlock(w)

-----------------------------------------------------------------------------
(* The calls *)

(* init, called by itself, by start, by add_region or by advanced_init: the *)
(* flag is tested, then everything is set without a lock.                   *)
Reset(c, next) ==
    /\ call[c] = "reset" /\ call' = [call EXCEPT ![c] = next]
    /\ ready' = TRUE /\ regions' = <<>> /\ owner' = Null /\ violations' = FALSE
    /\ raced' = (raced \/ ready)
    /\ UNCHANGED <<recursive, running, allocated, worker, cursor, arg>>

AddCall(c, n) ==
    /\ Idle(c) /\ Calls(c, IF ready THEN "link" ELSE "reset", n)
    /\ UNCHANGED <<recursive, auditor, worker, cursor>>
AddReset(c) == arg[c] \in Names /\ Reset(c, "link")

(* malloc may return a block that was freed.                                *)
Link(c, b) ==
    /\ call[c] = "link" /\ owner = Null /\ b \notin allocated
    /\ allocated' = allocated \cup {b}
    /\ regions' = <<[block |-> b, name |-> arg[c]]>> \o regions
    /\ Returns(c)
    /\ UNCHANGED <<recursive, ready, running, owner, violations, raced, worker, cursor>>

(* The newest region of that name goes.                                     *)
Unlink(n) ==
    \E i \in DOMAIN regions :
        /\ regions[i].name = n /\ \A j \in 1..(i - 1) : regions[j].name # n
        /\ regions' = RemoveAt(regions, i)
        /\ allocated' = allocated \ {regions[i].block}

\* Mutant: the mutex is not taken.
RemoveUnlocked(c, n) ==
    /\ Idle(c) /\ ready /\ Unlink(n)
    /\ UNCHANGED <<recursive, ready, running, owner, violations, raced, worker, cursor, call, arg>>
RemoveRegion(c, n) ==
    /\ Idle(c) /\ ready /\ owner = Null /\ Unlink(n)
    /\ UNCHANGED <<recursive, ready, running, owner, violations, raced, worker, cursor, call, arg>>

StartCall ==
    /\ Idle(Controller) /\ Calls(Controller, IF ready THEN "launch" ELSE "reset", "start")
    /\ UNCHANGED <<recursive, auditor, worker, cursor>>
StartReset == arg[Controller] = "start" /\ Reset(Controller, "launch")

(* One task per thread is submitted; a failed submit goes unnoticed.        *)
Launch ==
    /\ call[Controller] = "launch" /\ Returns(Controller)
    /\ ~running /\ running' = TRUE
    /\ \E submitted \in SUBSET Workers :
          worker' = [w \in Workers |-> IF w \in submitted THEN "test" ELSE "none"]
    /\ UNCHANGED <<recursive, ready, regions, allocated, owner, violations, raced, cursor>>

(* It runs already, or there is no pool to be had.                          *)
LaunchFails ==
    /\ call[Controller] = "launch" /\ Returns(Controller)
    /\ UNCHANGED <<recursive, auditor, worker, cursor>>

\* Mutant: the flag stays up while the pool is shut down.
StopRunning(a) ==
    /\ Calls(Controller, IF running THEN "join" ELSE "free", a)
    /\ UNCHANGED <<recursive, auditor, worker, cursor>>
StopCall(a) ==
    /\ running' = FALSE /\ Calls(Controller, IF running THEN "join" ELSE "free", a)
    /\ UNCHANGED <<recursive, ready, regions, allocated, owner, violations, raced, worker, cursor>>

Stop == Idle(Controller) /\ running /\ StopCall("stop")

(* shutdown stops first; nobody else is inside a call then.                 *)
Shutdown ==
    /\ ready /\ \A c \in Clients : Idle(c)
    /\ StopCall("shutdown")

Join ==
    /\ call[Controller] = "join"
    /\ \A w \in Workers : worker[w] \in {"none", "done"}
    /\ worker' = [w \in Workers |-> "none"]
    /\ IF arg[Controller] = "stop" THEN Returns(Controller)
       ELSE call' = [call EXCEPT ![Controller] = "free"] /\ UNCHANGED arg
    /\ UNCHANGED <<recursive, auditor, cursor>>

FreeRegions ==
    /\ call[Controller] = "free" /\ owner = Null
    /\ allocated' = allocated \ {regions[i].block : i \in DOMAIN regions}
    /\ regions' = <<>> /\ ready' = FALSE
    /\ IF arg[Controller] = "shutdown" THEN Returns(Controller)
       ELSE call' = [call EXCEPT ![Controller] = "callbacks"] /\ UNCHANGED arg
    /\ UNCHANGED <<recursive, running, owner, violations, raced, worker, cursor>>

Control ==
    \/ StartCall \/ StartReset \/ Launch \/ LaunchFails
    \/ Stop \/ Shutdown \/ Join \/ FreeRegions

ClientCalls(c) ==
    \/ \E n \in Names : AddCall(c, n) \/ RemoveRegion(c, n)
    \/ AddReset(c) \/ \E b \in Blocks : Link(c, b)

AuditorNext ==
    ~raced /\ (Control \/ (\E c \in Clients : ClientCalls(c)) \/ (\E w \in Workers : Work(w)))

(* Threads that can go on do so; nobody has to call anything.               *)
AuditorFairness ==
    /\ \A w \in Workers : WF_auditorVars(~raced /\ Work(w))
    /\ WF_auditorVars(~raced /\ (StartReset \/ Launch \/ LaunchFails \/ Join \/ FreeRegions))

AuditorSpec == AuditorInit /\ [][AuditorNext]_auditorVars /\ AuditorFairness

-----------------------------------------------------------------------------
(* Properties *)

AuditorTypeOK ==
    /\ recursive \in BOOLEAN /\ ready \in BOOLEAN /\ running \in BOOLEAN
    /\ violations \in BOOLEAN /\ raced \in BOOLEAN
    /\ regions \in Seq([block : Blocks, name : Names]) /\ allocated \subseteq Blocks
    /\ owner \in Workers \cup {Null}
    /\ worker \in [Workers -> {"none", "test", "lock", "scan", "relock", "done"}]
    /\ cursor \in [Workers -> Blocks \cup {Null}]
    /\ call \in [Clients -> {"idle", "reset", "link", "launch", "join", "free", "callbacks"}]
    /\ arg \in [Clients -> Names \cup Reasons \cup {Null}]

(* Unless two first calls initialised it at once, an audit thread only ever *)
(* looks at a region that is in the list and allocated, whoever removes     *)
(* regions or shuts down meanwhile, and at most one is among the regions.   *)
AuditSafe ==
    ~raced =>
        /\ \A w \in Workers : worker[w] \in {"scan", "relock"} =>
              /\ owner = w
              /\ cursor[w] # Null => \E i \in DOMAIN regions : regions[i].block = cursor[w]
        /\ \A i \in DOMAIN regions : regions[i].block \in allocated

(* A thread that has locked itself out.                                     *)
Stuck(w) == worker[w] = "relock" /\ ~recursive

(* Stopping waits for every audit thread, and ends unless one of them has    *)
(* locked itself out, which a recursive mutex rules out.                    *)
StopReturns ==
    (call[Controller] = "join") ~> (call[Controller] # "join" \/ raced \/ \E w \in Workers : Stuck(w))
=============================================================================
