------------------------------- MODULE Server -------------------------------
(***************************************************************************)
(* The tables of the ps14_server program: users and their tokens            *)
(* (server/auth_server.c), banned addresses (ban_manager.c), sessions       *)
(* (session_store.c) and the state of the game clients (state_validator.c). *)
(* Each is a fixed array with a count, searched from the front, without     *)
(* locks: the calls come one after the other.  A table is the sequence of   *)
(* its live entries, except for the sessions, whose array is kept whole     *)
(* because callers hold pointers into it.                                   *)
(***************************************************************************)
EXTENDS Integers, Sequences, SequencesExt

CONSTANTS Names, Passwords,     \* of registered users
          Addresses, Spans,     \* banned addresses, durations of bans
          Ids,                  \* session ids and ids of game clients
          Hashes,               \* state hashes a client reports
          Lifetime,             \* of a token (3600 s)
          Capacity,             \* of every table (1024)
          MaxTime               \* bound on the clock

ASSUME ServerAssumption ==
    /\ Spans \subseteq Nat
    /\ Lifetime \in Nat \ {0}
    /\ Capacity \in Nat \ {0}
    /\ MaxTime \in Nat
    /\ 0 \notin Hashes   \* which stands for no hash below

None == 0

VARIABLES now,        \* time(NULL)
          users,      \* g_users[0 .. g_user_count - 1]
          lifetimes,  \* history: when the last token of each name runs out
          bans,       \* g_bans[0 .. g_ban_count - 1]
          answer,     \* what the ban manager's last call returned
          slots,      \* g_sessions, the whole array
          count,      \* g_session_count
          held,       \* the pointer ps14_session_store_get returned last
          clients,    \* g_client_states[0 .. g_client_count - 1]
          reported    \* history: the hash each client is known by

userVars    == <<users, lifetimes>>
banVars     == <<bans, answer>>
sessionVars == <<slots, count, held>>
clientVars  == <<clients, reported>>
vars        == <<now, userVars, banVars, sessionVars, clientVars>>

NoPointer == [slot |-> 0, id |-> None, owner |-> None, moved |-> FALSE]

Init ==
    /\ now = 0
    /\ users = <<>> /\ lifetimes = [n \in Names |-> 0]
    /\ bans = <<>> /\ answer = FALSE
    /\ slots = [i \in 1..Capacity |-> [id |-> None, owner |-> None]]
    /\ count = 0 /\ held = NoPointer
    /\ clients = <<>> /\ reported = [i \in Ids |-> None]

Tick ==
    /\ now < MaxTime /\ now' = now + 1
    /\ UNCHANGED <<userVars, banVars, sessionVars, clientVars>>

-----------------------------------------------------------------------------
(* auth_server.c.  A password is compared by its hash and a token is the    *)
(* hash of the user's name: both stand for what they are made of.           *)

(* A name that is already registered gets one more entry.                   *)
Register(n, p) ==
    /\ Len(users) < Capacity
    /\ users' = Append(users, [name |-> n, password |-> p, expiry |-> 0])
    /\ UNCHANGED <<now, lifetimes, banVars, sessionVars, clientVars>>

(* The digest of the password is 32 bytes in an array of 64 whose rest is   *)
(* not set, and the comparison may read on into it: then no entry matches.  *)
Login(n, p) ==
    LET i == SelectInSeq(users, LAMBDA u : u.name = n /\ u.password = p)
    IN  /\ i # 0
        /\ users' = [users EXCEPT ![i].expiry = now + Lifetime]
        /\ lifetimes' = [lifetimes EXCEPT ![n] = now + Lifetime]
        /\ UNCHANGED <<now, banVars, sessionVars, clientVars>>

\* Mutant: the search ends at the first entry that has the token.
ValidTokenFirst(n) ==
    LET i == SelectInSeq(users, LAMBDA u : u.name = n /\ u.expiry > 0)
    IN  i # 0 /\ users[i].expiry > now
ValidToken(n) == \E i \in DOMAIN users : users[i].name = n /\ users[i].expiry > now

-----------------------------------------------------------------------------
(* ban_manager.c *)

BanIp(a, span) ==
    /\ IF Len(bans) < Capacity
       THEN bans' = Append(bans, [ip |-> a, since |-> now, span |-> span]) /\ answer' = TRUE
       ELSE UNCHANGED bans /\ answer' = FALSE
    /\ UNCHANGED <<now, userVars, sessionVars, clientVars>>

\* Mutant: the last entry fills the gap.
LiftedSwap(a) ==
    LET i == SelectInSeq(bans, LAMBDA b : b.ip = a)
    IN  IF i = 0 THEN bans ELSE Front([bans EXCEPT ![i] = Last(bans)])
Lifted(a) == RemoveFirstMatch(bans, LAMBDA b : b.ip = a)

UnbanIp(a) ==
    /\ bans' = Lifted(a)
    /\ answer' = (\E i \in DOMAIN bans : bans[i].ip = a)
    /\ UNCHANGED <<now, userVars, sessionVars, clientVars>>

IsBanned(a) ==
    /\ answer' = (\E i \in DOMAIN bans : bans[i].ip = a /\ now - bans[i].since < bans[i].span)
    /\ UNCHANGED <<now, bans, userVars, sessionVars, clientVars>>

-----------------------------------------------------------------------------
(* session_store.c.  Nothing reads the times of a session.                  *)

CreateSession(owner, id) ==
    /\ count < Capacity
    /\ slots' = [slots EXCEPT ![count + 1] = [id |-> id, owner |-> owner]]
    /\ count' = count + 1
    /\ UNCHANGED <<now, held, userVars, banVars, clientVars>>

Session(id) == SelectInSubSeq(slots, 1, count, LAMBDA s : s.id = id)

\* Mutant: the shift begins one entry early.
ClosedEarly(i) == [j \in 1..Capacity |-> IF i - 1 <= j /\ j < count THEN slots[j + 1] ELSE slots[j]]
(* The entries behind the destroyed one move up; the last stays where it is. *)
Closed(i) == [j \in 1..Capacity |-> IF i <= j /\ j < count THEN slots[j + 1] ELSE slots[j]]

DestroySession(id) ==
    /\ Session(id) # 0
    /\ slots' = Closed(Session(id)) /\ count' = count - 1
    /\ held' = [held EXCEPT !.moved = @ \/ Session(id) <= held.slot]
    /\ UNCHANGED <<now, userVars, banVars, clientVars>>

(* The caller keeps a pointer into the array.                               *)
GetSession(id) ==
    /\ held' = IF Session(id) = 0 THEN NoPointer
               ELSE [slot |-> Session(id), id |-> id, owner |-> slots[Session(id)].owner,
                     moved |-> FALSE]
    /\ UNCHANGED <<now, slots, count, userVars, banVars, clientVars>>

-----------------------------------------------------------------------------
(* state_validator.c *)

Client(id) == SelectInSeq(clients, LAMBDA c : c.id = id)

(* A client that is already registered gets one more entry, never found.    *)
RegisterClient(id, h) ==
    /\ Len(clients) < Capacity
    /\ clients' = Append(clients, [id |-> id, hash |-> h])
    /\ reported' = IF Client(id) = 0 THEN [reported EXCEPT ![id] = h] ELSE reported
    /\ UNCHANGED <<now, userVars, banVars, sessionVars>>

UpdateClient(id, h) ==
    /\ Client(id) # 0
    /\ clients' = [clients EXCEPT ![Client(id)].hash = h]
    /\ reported' = [reported EXCEPT ![id] = h]
    /\ UNCHANGED <<now, userVars, banVars, sessionVars>>

ValidState(id, h) == Client(id) # 0 /\ clients[Client(id)].hash = h

-----------------------------------------------------------------------------
UserNext    == \E n \in Names, p \in Passwords : Register(n, p) \/ Login(n, p)
BanNext     == \E a \in Addresses : \/ \E span \in Spans : BanIp(a, span)
                                    \/ UnbanIp(a) \/ IsBanned(a)
SessionNext == \E id \in Ids : \/ \E owner \in Names : CreateSession(owner, id)
                               \/ DestroySession(id) \/ GetSession(id)
ClientNext  == \E id \in Ids, h \in Hashes : RegisterClient(id, h) \/ UpdateClient(id, h)

Next == Tick \/ UserNext \/ BanNext \/ SessionNext \/ ClientNext

Spec == Init /\ [][Next]_vars

-----------------------------------------------------------------------------
(* Properties *)

TypeOK ==
    /\ now \in 0..MaxTime
    /\ users \in Seq([name : Names, password : Passwords, expiry : 0..(MaxTime + Lifetime)])
    /\ lifetimes \in [Names -> 0..(MaxTime + Lifetime)]
    /\ bans \in Seq([ip : Addresses, since : 0..MaxTime, span : Spans])
    /\ answer \in BOOLEAN
    /\ slots \in [1..Capacity -> [id : Ids \cup {None}, owner : Names \cup {None}]]
    /\ count \in 0..Capacity
    /\ held \in [slot : 0..Capacity, id : Ids \cup {None}, owner : Names \cup {None}, moved : BOOLEAN]
    /\ clients \in Seq([id : Ids, hash : Hashes])
    /\ reported \in [Ids -> Hashes \cup {None}]

(* A token is valid exactly as long as some login under its name is younger *)
(* than the lifetime, even when the name is registered several times with   *)
(* different passwords and an expired entry comes first.                    *)
TokenLife == \A n \in Names : ValidToken(n) <=> lifetimes[n] > now

(* Unless a session at or before it was destroyed since, the pointer that   *)
(* session_store_get returned shows the session it was asked for, with the  *)
(* owner it had then.                                                       *)
HeldSession ==
    held.slot # 0 /\ ~held.moved =>
        held.slot <= count /\ slots[held.slot] = [id |-> held.id, owner |-> held.owner]

(* A client is judged by its last update, or by its first registration:     *)
(* registering it again changes nothing.                                    *)
LastReported == \A id \in Ids, h \in Hashes : ValidState(id, h) <=> reported[id] = h

(* Neither table refuses a name or an id it already holds, and neither is    *)
(* misled by the copies.                                                    *)
DuplicatesHarmless == TokenLife /\ LastReported

(* The ban manager implements the registry of bans: what every call returns *)
(* is what the registry would answer.                                       *)
Runs(P) ==   \* through P, from the front
    CHOOSE m \in [1..Cardinality(P) -> P] : \A i, j \in DOMAIN m : i < j => m[i] < m[j]
Due(a) ==
    LET own == Runs({i \in DOMAIN bans : bans[i].ip = a})
    IN  [k \in DOMAIN own |-> bans[own[k]].since + bans[own[k]].span]

Registry == INSTANCE BanRegistry WITH due <- [a \in Addresses |-> Due(a)]
Bans == Registry!Init /\ [][Registry!Next]_<<Registry!registry>>
=============================================================================
