------------------------------ MODULE StateSync ------------------------------
(***************************************************************************)
(* core/auth_gateway/state_sync.c on the sockets of shared/network.c: the     *)
(* one connection to the state server, that every caller may open and use    *)
(* while another one shuts the synchronizer down and starts it again.        *)
(*                                                                         *)
(* The mutex guards opening and closing; the tests before it and the transfer *)
(* after it read the same variables without it.                            *)
(***************************************************************************)
EXTENDS Integers, FiniteSets

CONSTANTS Threads,      \* callers of send_update and receive_update
          Owner,        \* the caller of init and shutdown
          Sockets,      \* handles that the system gives out
          None,         \* PS14_INVALID_SOCKET, and nobody
          MaxRestarts

ASSUME SyncAssumption ==
    /\ Owner \notin Threads /\ None \notin Threads \cup Sockets \cup {Owner}
    /\ IsFiniteSet(Threads) /\ IsFiniteSet(Sockets) /\ MaxRestarts \in Nat

VARIABLES socket, syncing,  \* g_state_sync
          mutex, destroyed, \* the mutex's holder; ps14_mutex_destroy was called
          state,            \* of each handle
          pc, handle,       \* of each caller
          restarts,
          late              \* history: calls that a shutdown overtook

vars == <<socket, syncing, mutex, destroyed, state, pc, handle, restarts, late>>

Opened == {s \in Sockets : state[s] # "closed"}

SyncInit ==
    /\ socket = None /\ syncing = TRUE /\ mutex = None /\ destroyed = FALSE
    /\ state = [s \in Sockets |-> "closed"]
    /\ pc = [t \in Threads \cup {Owner} |-> "idle"] /\ handle = [t \in Threads |-> None]
    /\ restarts = 0 /\ late = 0

Forget(t) == handle' = [handle EXCEPT ![t] = None]
Goto(t, place) == pc' = [pc EXCEPT ![t] = place]
Close(s) == IF s = None THEN state' = state ELSE state' = [state EXCEPT ![s] = "closed"]
(* A destroyed mutex excludes nobody; whoever unlocks it frees it.           *)
CanLock == mutex = None \/ destroyed

-----------------------------------------------------------------------------
(* ps14_state_send_update and ps14_state_receive_update.  Arguments out of   *)
(* range and a disabled synchronizer return at once and are left out.       *)

\* Mutant: a call does not ask whether the synchronizer is enabled.
CallAnyway(t) ==
    /\ pc[t] = "idle" /\ Goto(t, "ensure")
    /\ UNCHANGED <<socket, syncing, mutex, destroyed, state, handle, restarts, late>>
Call(t) ==
    /\ pc[t] = "idle" /\ syncing /\ Goto(t, "ensure")
    /\ UNCHANGED <<socket, syncing, mutex, destroyed, state, handle, restarts, late>>

Ensure(t) ==
    /\ pc[t] = "ensure" /\ Goto(t, IF socket = None THEN "connect" ELSE "use")
    /\ UNCHANGED <<socket, syncing, mutex, destroyed, state, handle, restarts, late>>

(* state_sync_connect under the mutex: another caller has connected         *)
(* meanwhile, or there is no socket to be had, or there is one.             *)
Found(t) ==
    /\ pc[t] = "connect" /\ CanLock /\ socket # None /\ Goto(t, "use")
    /\ UNCHANGED <<socket, syncing, mutex, destroyed, state, handle, restarts, late>>
NoSocket(t) ==
    /\ pc[t] = "connect" /\ CanLock /\ socket = None /\ Goto(t, "idle")
    /\ UNCHANGED <<socket, syncing, mutex, destroyed, state, handle, restarts, late>>
\* Mutant: the socket is not looked at again under the mutex.
CreateAgain(t) ==
    /\ pc[t] = "connect" /\ CanLock /\ mutex' = t
    /\ \E s \in Sockets \ Opened :
         /\ state' = [state EXCEPT ![s] = "created"]
         /\ socket' = s /\ handle' = [handle EXCEPT ![t] = s]
    /\ Goto(t, "dial")
    /\ UNCHANGED <<syncing, destroyed, restarts, late>>
Create(t) ==
    /\ pc[t] = "connect" /\ CanLock /\ socket = None /\ mutex' = t
    /\ \E s \in Sockets \ Opened :
         /\ state' = [state EXCEPT ![s] = "created"]
         /\ socket' = s /\ handle' = [handle EXCEPT ![t] = s]
    /\ Goto(t, "dial")
    /\ UNCHANGED <<syncing, destroyed, restarts, late>>

(* The mutex is held while the connection is made, 5 seconds at most.        *)
Connected(t) ==
    /\ pc[t] = "dial" /\ state[handle[t]] = "created"
    /\ state' = [state EXCEPT ![handle[t]] = "connected"]
    /\ mutex' = None /\ Goto(t, "use") /\ Forget(t)
    /\ UNCHANGED <<socket, syncing, destroyed, restarts, late>>
\* Mutant: the mutex stays locked when the server cannot be reached.
RefusedLocked(t) ==
    /\ pc[t] = "dial" /\ Close(socket) /\ socket' = None
    /\ Goto(t, "idle") /\ Forget(t)
    /\ UNCHANGED <<syncing, mutex, destroyed, restarts, late>>
Refused(t) ==
    /\ pc[t] = "dial" /\ Close(socket) /\ socket' = None
    /\ mutex' = None /\ Goto(t, "idle") /\ Forget(t)
    /\ UNCHANGED <<syncing, destroyed, restarts, late>>

(* The handle is read once more, and used.  Whatever is transferred, the     *)
(* call ends with an error: the status of ps14_socket_send and _receive, 0   *)
(* or negative, is compared with the size of the packet.  The sequence       *)
(* numbers are therefore never stored, and no packet's body is ever read.    *)
Use(t) ==
    /\ pc[t] = "use" /\ handle' = [handle EXCEPT ![t] = socket] /\ Goto(t, "transfer")
    /\ UNCHANGED <<socket, syncing, mutex, destroyed, state, restarts, late>>
Transfer(t) ==
    /\ pc[t] = "transfer" /\ Goto(t, "idle") /\ Forget(t)
    /\ UNCHANGED <<socket, syncing, mutex, destroyed, state, restarts, late>>

-----------------------------------------------------------------------------
(* ps14_state_sync_shutdown and ps14_state_sync_init *)

SyncShutdown ==
    /\ pc[Owner] = "idle" /\ ~destroyed /\ mutex = None /\ mutex' = Owner
    /\ Close(socket) /\ Goto(Owner, "clear")
    /\ UNCHANGED <<socket, syncing, destroyed, handle, restarts, late>>

Overtaken == {t \in Threads : pc[t] \in {"ensure", "connect"}}
Clear ==
    /\ pc[Owner] = "clear" /\ socket' = None /\ syncing' = FALSE /\ mutex' = None
    /\ late' = late + Cardinality(Overtaken) /\ Goto(Owner, "destroy")
    /\ UNCHANGED <<destroyed, state, handle, restarts>>
Destroy ==
    /\ pc[Owner] = "destroy" /\ destroyed' = TRUE /\ Goto(Owner, "idle")
    /\ UNCHANGED <<socket, syncing, mutex, state, handle, restarts, late>>

Restart ==
    /\ pc[Owner] = "idle" /\ destroyed /\ restarts < MaxRestarts /\ restarts' = restarts + 1
    /\ socket' = None /\ syncing' = TRUE /\ mutex' = None /\ destroyed' = FALSE
    /\ UNCHANGED <<state, pc, handle, late>>

Step(t) == \/ Ensure(t) \/ Found(t) \/ NoSocket(t) \/ Create(t)
           \/ Connected(t) \/ Refused(t) \/ Use(t) \/ Transfer(t)
SyncNext == \/ \E t \in Threads : Call(t) \/ Step(t)
            \/ SyncShutdown \/ Clear \/ Destroy \/ Restart

(* A call that has begun goes on: connecting and transferring have timeouts. *)
(* Nothing makes anybody call, shut down or restart.                        *)
Fairness == (\A t \in Threads : WF_vars(Step(t))) /\ WF_vars(Clear \/ Destroy)
SyncSpec == SyncInit /\ [][SyncNext]_vars /\ Fairness

-----------------------------------------------------------------------------
(* Properties *)

SyncTypeOK ==
    /\ socket \in Sockets \cup {None} /\ syncing \in BOOLEAN /\ destroyed \in BOOLEAN
    /\ mutex \in Threads \cup {Owner, None}
    /\ state \in [Sockets -> {"closed", "created", "connected"}]
    /\ pc \in [Threads \cup {Owner} -> {"idle", "ensure", "connect", "dial", "use",
                                        "transfer", "clear", "destroy"}]
    /\ handle \in [Threads -> Sockets \cup {None}]
    /\ restarts \in 0..MaxRestarts /\ late \in Nat

(* However many callers find no connection at once, one socket is opened:   *)
(* the handle of an open socket is lost only after a shutdown overtook a     *)
(* call between its test and the mutex, and then by a stop or a start, which *)
(* loses one.                                                              *)
OneSocket ==
    /\ late = 0 => Opened \subseteq {socket}
    /\ Cardinality(Opened \ {socket}) <= 2 * restarts

(* A shutdown that overtook no call is final: what was open is closed, and   *)
(* nobody opens a socket until the next start.                              *)
ShutdownFinal ==
    ~syncing /\ late = 0 =>
        Opened = {} /\ \A t \in Threads : pc[t] \in {"idle", "use", "transfer"}

(* Whoever holds the mutex gives it back, on every path through a failed    *)
(* connection and through a shutdown (whom it then goes to is not said).     *)
LockReleased == \A t \in Threads \cup {Owner} : mutex = t ~> mutex # t
=============================================================================
