--------------------------- MODULE SessionManager ---------------------------
(***************************************************************************)
(* The sessions of core/auth_gateway: session_manager.c and the calls of     *)
(* auth_client.c that drive it, on several threads.  A session is a number   *)
(* (its malloc'ed node); node[n] is its contents.  session_find returns the  *)
(* node itself after it has released the mutex, and every caller goes on     *)
(* with that pointer: those are the steps between "find" and "idle".  The    *)
(* model ends where memory is misused: a node is read, written or freed      *)
(* after it was freed.                                                       *)
(***************************************************************************)
EXTENDS Integers, Sequences, FiniteSets

CONSTANTS Threads,
          Timeouts,       \* timeout_seconds of session_create (login: 3600)
          ConfigTimeout,  \* config->auth.session_timeout_seconds (3600)
          Crowded,        \* TRUE: two sessions may be created in one second
          MaxSessions, MaxTime

ASSUME SessionAssumption ==
    /\ Timeouts \subseteq Nat /\ ConfigTimeout \in Nat
    /\ Crowded \in BOOLEAN
    /\ MaxSessions \in Nat /\ MaxTime \in Nat

VARIABLES now,        \* time(NULL)
          connected,  \* g_connected
          list,       \* g_sessions, newest first
          node,       \* contents of the sessions, by number
          freed,      \* sessions whose memory was freed
          misused,    \* a freed session was touched
          pc, sid, ptr, stamp,  \* per thread: place, id argument, pointer, time it read
          refused,    \* history: ids banned, invalidated or found expired
          warned,     \* history: per thread, it validates an id refused before
          overlap     \* history: two calls ran at once since a thread was last alone

sessions == <<list, node, freed>>
local    == <<pc, sid, ptr, stamp, warned>>
vars     == <<now, connected, sessions, misused, local, refused, overlap>>

Ids == 0..MaxTime

Init ==
    /\ now = 0 /\ connected = FALSE /\ list = <<>> /\ node = <<>> /\ freed = {}
    /\ misused = FALSE /\ refused = {} /\ overlap = FALSE
    /\ pc = [c \in Threads |-> "idle"] /\ sid = [c \in Threads |-> 0]
    /\ ptr = [c \in Threads |-> 0] /\ stamp = [c \in Threads |-> 0]
    /\ warned = [c \in Threads |-> FALSE]

Tick ==
    /\ now < MaxTime /\ now' = now + 1
    /\ UNCHANGED <<connected, sessions, misused, local, refused, overlap>>

At(c, place) == ~misused /\ pc[c] = place
Goto(c, place) ==
    /\ pc' = [pc EXCEPT ![c] = place]
    /\ overlap' = \/ \E d \in Threads \ {c} : pc[d] # "idle"
                  \/ overlap /\ pc[c] # "idle"
Return(c) ==
    /\ Goto(c, "idle") /\ warned' = [warned EXCEPT ![c] = FALSE]
    /\ sid' = [sid EXCEPT ![c] = 0] /\ ptr' = [ptr EXCEPT ![c] = 0]
    /\ stamp' = [stamp EXCEPT ![c] = 0]

(* ps14_auth_connect: an existing connection is believed, a new one may fail *)
Connect == \/ connected /\ UNCHANGED connected
           \/ ~connected /\ connected' = TRUE
ConnectFails == ~connected /\ UNCHANGED connected

Disconnect ==
    /\ connected /\ ~misused /\ connected' = FALSE
    /\ UNCHANGED <<now, sessions, misused, local, refused, overlap>>

-----------------------------------------------------------------------------
(* ps14_auth_login and ps14_session_create *)

(* generate_session_id seeds rand() with the time: the id is a function of  *)
(* the second in which it was generated.                                    *)
Login(c) ==
    /\ At(c, "idle") /\ Len(node) + Cardinality({d \in Threads : pc[d] = "create"}) < MaxSessions
    /\ ~Crowded => /\ \A n \in DOMAIN node : node[n].id # now
                   /\ \A d \in Threads : pc[d] = "create" => stamp[d] # now
    /\ Connect
    /\ Goto(c, "create") /\ stamp' = [stamp EXCEPT ![c] = now]
    /\ UNCHANGED <<now, sessions, misused, sid, ptr, warned, refused>>

Create(c, timeout) ==
    /\ At(c, "create")
    /\ node' = Append(node, [id |-> stamp[c], state |-> "ACTIVE",
                             created |-> now, expires |-> now + timeout])
    /\ list' = <<Len(node')>> \o list
    /\ Return(c)
    /\ UNCHANGED <<now, connected, freed, misused, refused>>

-----------------------------------------------------------------------------
(* session_find, then what its callers do with the pointer *)

Matches(id) == {i \in DOMAIN list : node[list[i]].id = id}
\* Mutant: the search compares nothing.
AnyMatch(i, id) == i \in DOMAIN list
FirstMatch(i, id) == i \in Matches(id) /\ \A j \in Matches(id) : i <= j

Uses == {"state", "refresh", "ban", "invalidate", "unlink"}

FindFor(c, id, use) ==
    /\ At(c, "idle")
    /\ \/ /\ Matches(id) = {} /\ Return(c)
       \/ \E i \in DOMAIN list :
            /\ FirstMatch(i, id) /\ Goto(c, use)
            /\ ptr' = [ptr EXCEPT ![c] = list[i]] /\ sid' = [sid EXCEPT ![c] = id]
            /\ warned' = [warned EXCEPT ![c] = use = "state" /\ id \in refused]
            /\ UNCHANGED stamp
    /\ UNCHANGED <<now, sessions, misused, refused>>

ValidateCall(c, id)   == FindFor(c, id, "state") /\ UNCHANGED connected
RefreshCall(c, id)    == FindFor(c, id, "refresh") /\ UNCHANGED connected
BanCall(c, id)        == FindFor(c, id, "ban") /\ UNCHANGED connected
InvalidateCall(c, id) == FindFor(c, id, "invalidate") /\ UNCHANGED connected
LogoutCall(c, id)     == FindFor(c, id, "unlink") /\ Connect

(* Login and logout without a server: nothing else happens.                 *)
NoServer(c) ==
    /\ At(c, "idle") /\ ConnectFails /\ Return(c)
    /\ UNCHANGED <<now, sessions, misused, refused>>

Touch(c) == misused' = (ptr[c] \in freed)
Put(c, field, v) == node' = [node EXCEPT ![ptr[c]][field] = v]
Refuse(c) == refused' = refused \cup {sid[c]}

(* session_is_valid: the state, then the clock.                             *)
CheckState(c) ==
    /\ At(c, "state") /\ Touch(c)
    /\ IF node[ptr[c]].state = "ACTIVE"
       THEN Goto(c, "expiry") /\ UNCHANGED <<sid, ptr, stamp, warned>>
       ELSE Return(c)
    /\ UNCHANGED <<now, connected, sessions, refused>>

Expire(c) ==
    /\ At(c, "expiry") /\ now > node[ptr[c]].expires /\ Touch(c)
    /\ Put(c, "state", "EXPIRED") /\ Refuse(c) /\ Return(c)
    /\ UNCHANGED <<now, connected, list, freed>>

Accept(c) ==
    /\ At(c, "expiry") /\ now <= node[ptr[c]].expires /\ Touch(c)
    /\ Return(c)
    /\ UNCHANGED <<now, connected, sessions, refused>>

Refresh(c) ==
    /\ At(c, "refresh") /\ Touch(c)
    /\ Put(c, "expires", node[ptr[c]].created + ConfigTimeout)
    /\ Return(c)
    /\ UNCHANGED <<now, connected, list, freed, refused>>

Ban(c) ==
    /\ At(c, "ban") /\ Touch(c)
    /\ Put(c, "state", "BANNED") /\ Return(c) /\ Refuse(c)
    /\ UNCHANGED <<now, connected, list, freed>>

Invalidate(c) ==
    /\ At(c, "invalidate") /\ Touch(c)
    /\ Put(c, "state", "INVALID") /\ Return(c) /\ Refuse(c)
    /\ UNCHANGED <<now, connected, list, freed>>

(* The sessions of S that are in the list, in their order.                  *)
Listed == {list[i] : i \in DOMAIN list}
Only(S) ==
    LET kept[i \in 0..Len(list)] ==
            IF i = 0 THEN <<>>
            ELSE IF list[i] \in S THEN Append(kept[i - 1], list[i]) ELSE kept[i - 1]
    IN  kept[Len(list)]

(* session_destroy: unlink under the mutex if it is still there, free it    *)
(* after the mutex is released in any case.                                 *)

\* Mutant: free before unlinking.
UnlinkFreesFirst(c) ==
    /\ At(c, "unlink") /\ UNCHANGED misused
    /\ freed' = freed \cup {ptr[c]} /\ Goto(c, "free")
    /\ UNCHANGED <<now, connected, list, node, sid, ptr, stamp, warned, refused>>
Unlink(c) ==
    /\ At(c, "unlink") /\ UNCHANGED misused
    /\ list' = Only(Listed \ {ptr[c]}) /\ Goto(c, "free")
    /\ UNCHANGED <<now, connected, node, freed, sid, ptr, stamp, warned, refused>>

Free(c) ==
    /\ At(c, "free") /\ Touch(c)
    /\ freed' = freed \cup {ptr[c]} /\ Return(c)
    /\ UNCHANGED <<now, connected, list, node, refused>>

-----------------------------------------------------------------------------
(* ps14_session_cleanup_expired: the clock is read before the mutex *)

CleanupCall(c) ==
    /\ At(c, "idle") /\ Goto(c, "cleanup") /\ stamp' = [stamp EXCEPT ![c] = now]
    /\ UNCHANGED <<now, connected, sessions, misused, sid, ptr, warned, refused>>

\* Mutant: the expired nodes are freed and stay linked.
CleanupKeepsLinks(c) ==
    /\ At(c, "cleanup")
    /\ freed' = freed \cup {n \in DOMAIN node : stamp[c] > node[n].expires}
    /\ Return(c)
    /\ UNCHANGED <<now, connected, list, node, misused, refused>>
Cleanup(c) ==
    /\ At(c, "cleanup")
    /\ LET Old(n) == stamp[c] > node[n].expires
       IN  /\ list' = Only({n \in Listed : ~Old(n)})
           /\ freed' = freed \cup {n \in Listed : Old(n)}
    /\ Return(c)
    /\ UNCHANGED <<now, connected, node, misused, refused>>

(* ps14_session_manager_shutdown and init again, between calls: the mutex is *)
(* destroyed, so the program must not be in one.                            *)
Shutdown ==
    /\ \A c \in Threads : At(c, "idle")
    /\ list' = <<>> /\ freed' = freed \cup Listed
    /\ UNCHANGED <<now, connected, node, misused, local, refused, overlap>>

Thread(c) ==
    \/ Login(c) \/ NoServer(c) \/ CleanupCall(c) \/ Cleanup(c)
    \/ \E t \in Timeouts : Create(c, t)
    \/ \E id \in Ids : \/ ValidateCall(c, id) \/ RefreshCall(c, id) \/ BanCall(c, id)
                       \/ InvalidateCall(c, id) \/ LogoutCall(c, id)
    \/ CheckState(c) \/ Expire(c) \/ Accept(c) \/ Refresh(c) \/ Ban(c) \/ Invalidate(c)
    \/ Unlink(c) \/ Free(c)

Next == Tick \/ Disconnect \/ Shutdown \/ \E c \in Threads : Thread(c)

Spec == Init /\ [][Next]_vars

-----------------------------------------------------------------------------
(* Properties *)

TypeOK ==
    /\ now \in 0..MaxTime /\ connected \in BOOLEAN /\ misused \in BOOLEAN
    /\ node \in Seq([id : Ids, created : Ids, expires : Nat,
                     state : {"ACTIVE", "EXPIRED", "BANNED", "INVALID"}])
    /\ list \in Seq(DOMAIN node) /\ freed \subseteq DOMAIN node
    /\ pc \in [Threads -> {"idle", "create", "expiry", "free", "cleanup"} \cup Uses]
    /\ sid \in [Threads -> Ids] /\ stamp \in [Threads -> Ids]
    /\ ptr \in [Threads -> DOMAIN node \cup {0}]
    /\ overlap \in BOOLEAN /\ refused \subseteq Ids /\ warned \in [Threads -> BOOLEAN]

(* Whatever the threads do, up to the first use of a dangling pointer the   *)
(* list itself is sound: well-formed sessions, no freed node and no node     *)
(* twice, so that the loops under the mutex (find, count, cleanup) never run *)
(* into freed memory.                                                       *)
ListIntact ==
    /\ TypeOK
    /\ \A i \in DOMAIN list : list[i] \notin freed
    /\ \A i, j \in DOMAIN list : list[i] = list[j] => i = j

(* A refusal is final: a validation that begins after its id was banned,   *)
(* invalidated or found expired never succeeds, though refresh, expiry and   *)
(* cleanup write the same node without a lock.                              *)
RefusalHolds == [][\A c \in Threads : Accept(c) => ~warned[c]]_vars

(* A pointer outlives its session only where two calls run at once: taken   *)
(* one after the other, on whichever threads, no sequence of logins, logouts *)
(* and cleanups leaves one behind.                                          *)
NoMisuse == misused => overlap

(* "Generate unique session ID": two sessions never answer to the same id.  *)
UniqueIds == \A i, j \in DOMAIN list : node[list[i]].id = node[list[j]].id => i = j

(* "Extend expiration": a refresh after the second of the login leaves the  *)
(* session a later end than it had.                                         *)
RefreshExtends ==
    [][\A c \in Threads : Refresh(c) /\ ~misused' /\ now > node[ptr[c]].created
          => node'[ptr[c]].expires > node[ptr[c]].expires]_vars
=============================================================================
