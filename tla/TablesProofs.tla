---------------------------- MODULE TablesProofs ----------------------------
(***************************************************************************)
(* The tables of the server for any number of users, sessions and clients   *)
(* and any capacity: copies of a name or an id mislead no search, a session  *)
(* pointer holds until an entry at or before it is destroyed, and the ban    *)
(* manager is a queue of bans per address.  The hash database and the        *)
(* checksum database for any number of threads: what undisturbed calls       *)
(* answer follows what was recorded last.                                    *)
(***************************************************************************)
EXTENDS Server, HashDatabase, ChecksumDb, FiniteSetTheorems, WellFoundedInduction, TLAPS

-----------------------------------------------------------------------------
(* Searching from the front *)

(* A set of numbers has a least one.                                        *)
LEMMA LeastOf ==
    ASSUME NEW I, I \subseteq Nat, I # {}
    PROVE  Min(I) \in I /\ \A j \in I : Min(I) <= j
<1> DEFINE Less == {p \in Nat \X Nat : p[1] < p[2]}
<1>1. IsWellFoundedOn(Less, Nat)
  BY NatLessThanWellFounded DEF OpToRel
<1>2. PICK m \in I : \A j \in I : ~(<<j, m>> \in Less)
  <2> HIDE DEF Less
  <2> QED BY <1>1, WFMin, Zenon
<1>3. \A j \in I : m <= j
  <2> SUFFICES ASSUME NEW j \in I PROVE m <= j
    OBVIOUS
  <2>1. <<j, m>> \notin Less /\ j \in Nat /\ m \in Nat
    BY <1>2
  <2> QED BY <2>1
<1>4. QED BY <1>3 DEF Min

LEMMA FoundSession ==
    ASSUME TypeOK, NEW id, Session(id) # 0
    PROVE  Session(id) \in 1..count /\ slots[Session(id)].id = id
<1> DEFINE I == {i \in 1..count : slots[i].id = id}
<1>1. Session(id) = IF I # {} THEN Min(I) ELSE 0
  BY DEF Session, SelectInSubSeq
<1>2. I \subseteq Nat
  OBVIOUS
<1>3. I # {} /\ Session(id) = Min(I)
  BY <1>1
<1> HIDE DEF I
<1>4. Session(id) \in I
  BY <1>2, <1>3, LeastOf
<1>5. QED BY <1>4 DEF I

(* What a search of the client states ends at.                              *)
Earliest(i, id) ==
    /\ i \in 1..Len(clients) /\ clients[i].id = id
    /\ \A j \in 1..Len(clients) : j < i => clients[j].id # id

LEMMA FoundClient ==
    ASSUME TypeOK, NEW id
    PROVE  \/ Client(id) = 0 /\ \A i \in 1..Len(clients) : clients[i].id # id
           \/ Earliest(Client(id), id)
<1> DEFINE I == {i \in 1..Len(clients) : clients[i].id = id}
<1>1. Client(id) = IF I # {} THEN Min(I) ELSE 0
  BY DEF Client, SelectInSeq
<1>2. Len(clients) \in Nat /\ I \subseteq Nat
  BY DEF TypeOK
<1>3. CASE I = {}
  BY <1>1, <1>3
<1>4. CASE I # {}
  <2>1. Client(id) = Min(I)
    BY <1>1, <1>4
  <2> HIDE DEF I
  <2>2. Client(id) \in I /\ \A j \in I : Client(id) <= j
    BY <1>2, <1>4, <2>1, LeastOf
  <2>3. QED BY <1>2, <2>2 DEF I, Earliest
<1>5. QED BY <1>3, <1>4

(* What is left of a sequence without one of its entries.                   *)
LEMMA WithoutOne ==
    ASSUME NEW S, NEW s \in Seq(S), NEW k \in 1..Len(s)
    PROVE  /\ RemoveAt(s, k) \in Seq(S) /\ Len(RemoveAt(s, k)) = Len(s) - 1
           /\ \A i \in 1..(Len(s) - 1) : RemoveAt(s, k)[i] = IF i < k THEN s[i] ELSE s[i + 1]
<1> DEFINE a == SubSeq(s, 1, k - 1)
           b == SubSeq(s, k + 1, Len(s))
<1>0. Len(s) \in Nat /\ k \in Nat /\ 1 <= k /\ k <= Len(s)
  OBVIOUS
<1>1. a \in Seq(S) /\ Len(a) = k - 1 /\ \A i \in 1..(k - 1) : a[i] = s[i]
  BY <1>0
<1>2. b \in Seq(S) /\ Len(b) = Len(s) - k /\ \A i \in 1..(Len(s) - k) : b[i] = s[k + i]
  BY <1>0
<1>3. RemoveAt(s, k) = a \o b
  BY DEF RemoveAt
<1> HIDE DEF a, b
<1>4. Len(a \o b) = Len(s) - 1 /\ a \o b \in Seq(S)
  <2>1. a \in Seq(S) /\ b \in Seq(S)
    BY <1>1, <1>2
  <2>2. a \o b \in Seq(S)
    BY <2>1
  <2>3. Len(a \o b) = Len(a) + Len(b)
    BY <2>1
  <2>4. QED BY <1>0, <1>1, <1>2, <2>2, <2>3
<1>5. ASSUME NEW i \in 1..(Len(s) - 1) PROVE (a \o b)[i] = IF i < k THEN s[i] ELSE s[i + 1]
  <2>1. CASE i < k
    BY <1>0, <1>1, <1>2, <2>1
  <2>2. CASE ~(i < k)
    <3>1. (a \o b)[i] = b[i - (k - 1)] /\ i - (k - 1) \in 1..(Len(s) - k)
      BY <1>0, <1>1, <1>2, <2>2
    <3>2. b[i - (k - 1)] = s[k + (i - (k - 1))] /\ k + (i - (k - 1)) = i + 1
      BY <1>0, <1>2, <3>1
    <3>3. QED BY <2>2, <3>1, <3>2
  <2>3. QED BY <2>1, <2>2
<1>6. QED BY <1>3, <1>4, <1>5

(* So has one in which one of them was replaced.                            *)
LEMMA OneReplaced ==
    ASSUME NEW S, NEW s \in Seq(S), NEW i, NEW x, i \in 1..Len(s) => x \in S
    PROVE  [s EXCEPT ![i] = x] \in Seq(S)
<1> DEFINE t == [s EXCEPT ![i] = x]
<1>1. Len(s) \in Nat /\ s \in [1..Len(s) -> S]
  OBVIOUS
<1>2. t \in [1..Len(s) -> S]
  BY <1>1, Zenon
<1>3. QED BY <1>1, <1>2

LEMMA LiftedType ==
    ASSUME NEW S, bans \in Seq(S), NEW a
    PROVE  Lifted(a) \in Seq(S)
<1> DEFINE I == {i \in 1..Len(bans) : bans[i].ip = a}
<1>1. CASE I = {}
  BY <1>1 DEF Lifted, RemoveFirstMatch
<1>2. CASE I # {}
  <2>1. Lifted(a) = RemoveAt(bans, Min(I))
    BY <1>2 DEF Lifted, RemoveFirstMatch, SelectInSeq
  <2>2. I \subseteq 1..Len(bans) /\ I \subseteq Nat
    OBVIOUS
  <2> HIDE DEF I
  <2>3. Min(I) \in 1..Len(bans)
    BY <1>2, <2>2, LeastOf
  <2>4. QED BY <2>1, <2>3, WithoutOne
<1>3. QED BY <1>1, <1>2

-----------------------------------------------------------------------------
(* Types *)

Users   == [name : Names, password : Passwords, expiry : 0..(MaxTime + Lifetime)]
BanEntries   == [ip : Addresses, since : 0..MaxTime, span : Spans]
Reports == [id : Ids, hash : Hashes]

LEMMA TypeInit == Init => TypeOK
<1> SUFFICES ASSUME Init PROVE TypeOK
  OBVIOUS
<1> USE ServerAssumption DEF ServerAssumption, Init, NoPointer, None
<1>1. now \in 0..MaxTime /\ count \in 0..Capacity
  OBVIOUS
<1>7. answer \in BOOLEAN
  OBVIOUS
<1>2. users \in Seq(Users) /\ bans \in Seq(BanEntries) /\ clients \in Seq(Reports)
  OBVIOUS
<1>3. lifetimes \in [Names -> 0..(MaxTime + Lifetime)] /\ reported \in [Ids -> Hashes \cup {None}]
  OBVIOUS
<1>4. slots \in [1..Capacity -> [id : Ids \cup {None}, owner : Names \cup {None}]]
  OBVIOUS
<1>5. held \in [slot : 0..Capacity, id : Ids \cup {None}, owner : Names \cup {None}, moved : BOOLEAN]
  OBVIOUS
<1>6. QED BY <1>1, <1>2, <1>3, <1>4, <1>5, <1>7 DEF TypeOK, Users, BanEntries, Reports

LEMMA TypeStep == TypeOK /\ [Next]_vars => TypeOK'
<1> SUFFICES ASSUME TypeOK, [Next]_vars PROVE TypeOK'
  OBVIOUS
<1> USE ServerAssumption DEF ServerAssumption, None
<1>1. ASSUME NEW n \in Names, NEW p \in Passwords, Register(n, p) PROVE TypeOK'
  <2>1. [name |-> n, password |-> p, expiry |-> 0]
           \in [name : Names, password : Passwords, expiry : 0..(MaxTime + Lifetime)]
    OBVIOUS
  <2>2. QED BY <1>1, <2>1 DEF Register, TypeOK, banVars, sessionVars, clientVars
<1>2. ASSUME NEW n \in Names, NEW p \in Passwords, Login(n, p) PROVE TypeOK'
  <2> DEFINE i == SelectInSeq(users, LAMBDA u : u.name = n /\ u.password = p)
             x == [users[i] EXCEPT !.expiry = now + Lifetime]
  <2>1. users' = [users EXCEPT ![i] = x]
        /\ lifetimes' = [lifetimes EXCEPT ![n] = now + Lifetime]
        /\ UNCHANGED <<now, banVars, sessionVars, clientVars>>
    BY <1>2 DEF Login
  <2>2. now + Lifetime \in 0..(MaxTime + Lifetime)
    BY DEF TypeOK
  <2> HIDE DEF i
  <2>3. users' \in Seq(Users)
    <3>1. users \in Seq(Users)
      BY DEF TypeOK, Users
    <3>2. i \in 1..Len(users) => x \in Users
      <4>1. i \in 1..Len(users) => users[i] \in Users
        BY <3>1
      <4>2. QED BY <2>2, <4>1 DEF Users
    <3> HIDE DEF x
    <3>3. QED BY <2>1, <3>1, <3>2, OneReplaced
  <2>4. QED BY <2>1, <2>2, <2>3 DEF TypeOK, Users, banVars, sessionVars, clientVars
<1>3. ASSUME NEW a \in Addresses, NEW span \in Spans, BanIp(a, span) PROVE TypeOK'
  <2>1. [ip |-> a, since |-> now, span |-> span] \in BanEntries
    BY DEF TypeOK, BanEntries
  <2>2. bans' \in Seq(BanEntries)
    <3>1. bans \in Seq(BanEntries)
      BY DEF TypeOK, BanEntries
    <3>2. bans' = bans \/ bans' = Append(bans, [ip |-> a, since |-> now, span |-> span])
      BY <1>3 DEF BanIp
    <3>3. QED BY <2>1, <3>1, <3>2
  <2>4. answer' \in BOOLEAN
    BY <1>3 DEF BanIp
  <2>3. QED BY <1>3, <2>2, <2>4 DEF BanIp, TypeOK, BanEntries, userVars, sessionVars, clientVars
<1>4. ASSUME NEW a \in Addresses, UnbanIp(a) PROVE TypeOK'
  BY <1>4, LiftedType DEF UnbanIp, TypeOK, userVars, sessionVars, clientVars
<1>5. ASSUME NEW a \in Addresses, IsBanned(a) PROVE TypeOK'
  BY <1>5 DEF IsBanned, TypeOK, userVars, sessionVars, clientVars
<1>6. ASSUME NEW id \in Ids, NEW owner \in Names, CreateSession(owner, id) PROVE TypeOK'
  BY <1>6 DEF CreateSession, TypeOK, userVars, banVars, clientVars
<1>7. ASSUME NEW id \in Ids, DestroySession(id) PROVE TypeOK'
  <2>1. Session(id) \in 1..count
    BY <1>7, FoundSession DEF DestroySession
  <2>2. slots' \in [1..Capacity -> [id : Ids \cup {None}, owner : Names \cup {None}]]
    BY <1>7, <2>1 DEF DestroySession, Closed, TypeOK
  <2>3. count' \in 0..Capacity /\ held' = [held EXCEPT !.moved = @ \/ Session(id) <= held.slot]
    BY <1>7, <2>1 DEF DestroySession, TypeOK
  <2>4. held' \in [slot : 0..Capacity, id : Ids \cup {None}, owner : Names \cup {None}, moved : BOOLEAN]
    BY <2>3, Zenon DEF TypeOK
  <2>5. QED BY <1>7, <2>2, <2>3, <2>4 DEF DestroySession, TypeOK, userVars, banVars, clientVars
<1>8. ASSUME NEW id \in Ids, GetSession(id) PROVE TypeOK'
  BY <1>8, FoundSession DEF GetSession, NoPointer, TypeOK, userVars, banVars, clientVars
<1>9. ASSUME NEW id \in Ids, NEW h \in Hashes, RegisterClient(id, h) PROVE TypeOK'
  BY <1>9 DEF RegisterClient, TypeOK, userVars, banVars, sessionVars
<1>10. ASSUME NEW id \in Ids, NEW h \in Hashes, UpdateClient(id, h) PROVE TypeOK'
  <2> DEFINE e == clients[Client(id)]
             x == [e EXCEPT !.hash = h]
  <2>1. Client(id) \in 1..Len(clients) => x \in Reports
    <3>1. Client(id) \in 1..Len(clients) => e \in Reports
      <4>1. clients \in Seq(Reports)
        BY DEF TypeOK, Reports
      <4>2. \A i \in 1..Len(clients) : clients[i] \in Reports
        BY <4>1
      <4>3. QED BY <4>2, Zenon
    <3> HIDE DEF e
    <3>2. e \in Reports => x \in Reports
      BY DEF Reports
    <3>3. QED BY <3>1, <3>2
  <2>2. clients' = [clients EXCEPT ![Client(id)] = x] /\ clients \in Seq(Reports)
    BY <1>10 DEF UpdateClient, TypeOK, Reports
  <2> HIDE DEF x
  <2>3. clients' \in Seq(Reports)
    BY <2>1, <2>2, OneReplaced
  <2>4. QED BY <1>10, <2>3 DEF UpdateClient, TypeOK, Reports, userVars, banVars, sessionVars
<1>11. CASE Tick
  BY <1>11 DEF Tick, TypeOK, userVars, banVars, sessionVars, clientVars
<1>12. CASE UNCHANGED vars
  BY <1>12 DEF TypeOK, vars, userVars, banVars, sessionVars, clientVars
<1>13. QED
  BY <1>1, <1>2, <1>3, <1>4, <1>5, <1>6, <1>7, <1>8, <1>9, <1>10, <1>11, <1>12
  DEF Next, UserNext, BanNext, SessionNext, ClientNext

(* The tables hold entries of their kind only, for any capacity.            *)
THEOREM ServerTypeCorrect == Spec => []TypeOK
BY TypeInit, TypeStep, PTL DEF Spec

-----------------------------------------------------------------------------
(* Copies of a name, copies of an id *)

(* lifetimes is what the youngest entry of each name carries.               *)
TokenInv ==
    /\ \A i \in DOMAIN users : users[i].expiry <= lifetimes[users[i].name]
    /\ \A n \in Names :
          /\ lifetimes[n] <= now + Lifetime
          /\ lifetimes[n] > 0 => \E i \in DOMAIN users : users[i].name = n /\ users[i].expiry = lifetimes[n]

(* What an id is known by is in its first entry.                            *)
ReportInv == \A id \in Ids :
    \/ reported[id] = None /\ \A i \in 1..Len(clients) : clients[i].id # id
    \/ \E i \in 1..Len(clients) : Earliest(i, id) /\ clients[i].hash = reported[id]

LEMMA EntryTypes ==
    ASSUME TypeOK
    PROVE  /\ now \in Nat /\ lifetimes \in [Names -> Nat]
           /\ DOMAIN users = 1..Len(users) /\ Len(users) \in Nat
           /\ \A j \in 1..Len(users) : users[j] \in Users /\ users[j].name \in Names /\ users[j].expiry \in Nat
<1> USE ServerAssumption DEF ServerAssumption
<1>1. now \in Nat /\ users \in Seq(Users)
  BY DEF TypeOK, Users
<1>2. ASSUME NEW n \in Names PROVE lifetimes[n] \in Nat
  BY DEF TypeOK
<1>3. lifetimes \in [Names -> Nat]
  BY <1>2 DEF TypeOK
<1>4. ASSUME NEW j \in 1..Len(users) PROVE users[j] \in Users
  BY <1>1
<1>5. ASSUME NEW u \in Users PROVE u.name \in Names /\ u.expiry \in Nat
  BY DEF Users
<1>6. DOMAIN users = 1..Len(users) /\ Len(users) \in Nat
  BY <1>1
<1>7. QED BY <1>1, <1>3, <1>4, <1>5, <1>6, Zenon

LEMMA TokenStep == TypeOK /\ TokenInv /\ [Next]_vars => TokenInv'
<1> SUFFICES ASSUME TypeOK, TokenInv, [Next]_vars PROVE TokenInv'
  OBVIOUS
<1> USE ServerAssumption DEF ServerAssumption
<1>1. ASSUME NEW n \in Names, NEW p \in Passwords, Register(n, p) PROVE TokenInv'
  <2>1. /\ users' = Append(users, [name |-> n, password |-> p, expiry |-> 0])
        /\ UNCHANGED <<lifetimes, now>>
    BY <1>1 DEF Register
  <2>2. \A i \in DOMAIN users : i \in DOMAIN users' /\ users'[i] = users[i]
    BY <2>1 DEF TypeOK
  <2>3. \A i \in DOMAIN users' : users'[i].expiry <= lifetimes[users'[i].name]
    <3>1. /\ DOMAIN users' = 1..(Len(users) + 1)
          /\ users'[Len(users) + 1] = [name |-> n, password |-> p, expiry |-> 0]
      BY <2>1, EntryTypes DEF TypeOK
    <3>2. users'[Len(users) + 1].expiry <= lifetimes'[users'[Len(users) + 1].name]
      BY <2>1, <3>1, EntryTypes
    <3>3. QED BY <2>1, <2>2, <3>1, <3>2, EntryTypes DEF TokenInv
  <2>4. QED BY <2>1, <2>2, <2>3 DEF TokenInv
<1>2. ASSUME NEW n \in Names, NEW p \in Passwords, Login(n, p) PROVE TokenInv'
  <2> DEFINE i == SelectInSeq(users, LAMBDA u : u.name = n /\ u.password = p)
             I == {j \in 1..Len(users) : users[j].name = n /\ users[j].password = p}
  <2>1. /\ users' = [users EXCEPT ![i].expiry = now + Lifetime]
        /\ lifetimes' = [lifetimes EXCEPT ![n] = now + Lifetime]
        /\ UNCHANGED now /\ i # 0
    BY <1>2 DEF Login
  <2>2. i \in 1..Len(users) /\ users[i].name = n
    <3>1. i = IF I # {} THEN Min(I) ELSE 0
      BY DEF SelectInSeq
    <3>2. I # {} /\ i = Min(I) /\ I \subseteq Nat
      BY <2>1, <3>1
    <3> HIDE DEF I, i
    <3>3. i \in I
      BY <3>2, LeastOf
    <3>4. QED BY <3>3 DEF I
  <2> HIDE DEF i, I
  <2>3. DOMAIN users' = DOMAIN users /\ DOMAIN users = 1..Len(users)
    BY <2>1 DEF TypeOK
  <2>4. \A j \in DOMAIN users :
           /\ users'[j].name = users[j].name
           /\ users'[j].expiry = IF j = i THEN now + Lifetime ELSE users[j].expiry
           /\ users[j].name \in Names
    <3> SUFFICES ASSUME NEW j \in 1..Len(users)
                 PROVE  /\ users'[j].name = users[j].name
                        /\ users'[j].expiry = IF j = i THEN now + Lifetime ELSE users[j].expiry
      BY EntryTypes
    <3>1. users[j] \in Users
      BY EntryTypes
    <3>2. users'[j] = IF j = i THEN [users[j] EXCEPT !.expiry = now + Lifetime] ELSE users[j]
      BY <2>1, EntryTypes DEF TypeOK
    <3>3. QED BY <3>1, <3>2 DEF Users
  <2>5. \A m \in Names : lifetimes'[m] = IF m = n THEN now + Lifetime ELSE lifetimes[m]
    BY <2>1 DEF TypeOK
  <2>6. now \in Nat /\ lifetimes \in [Names -> Nat] /\ \A j \in DOMAIN users : users[j].expiry \in Nat
    BY EntryTypes
  <2>7. \A j \in DOMAIN users' : users'[j].expiry <= lifetimes'[users'[j].name]
    BY <2>2, <2>3, <2>4, <2>5, <2>6 DEF TokenInv
  <2>8. ASSUME NEW m \in Names
        PROVE  /\ lifetimes'[m] <= now' + Lifetime
               /\ lifetimes'[m] > 0 => \E j \in DOMAIN users' : users'[j].name = m /\ users'[j].expiry = lifetimes'[m]
    <3>1. CASE m = n
      BY <3>1, <2>1, <2>2, <2>3, <2>4, <2>5, <2>6
    <3>2. CASE m # n
      <4>1. lifetimes[m] > 0 => \E j \in DOMAIN users : users[j].name = m /\ users[j].expiry = lifetimes[m]
        BY DEF TokenInv
      <4>2. \A j \in DOMAIN users : users[j].name = m => j # i
        BY <2>2, <3>2
      <4>3. QED BY <3>2, <4>1, <4>2, <2>1, <2>3, <2>4, <2>5, <2>6 DEF TokenInv
    <3>3. QED BY <3>1, <3>2
  <2>9. QED BY <2>7, <2>8 DEF TokenInv
<1>3. CASE UNCHANGED userVars /\ (now' = now \/ now' = now + 1)
  BY <1>3 DEF TokenInv, TypeOK, userVars
<1>4. QED
  BY <1>1, <1>2, <1>3
  DEF Next, UserNext, BanNext, SessionNext, ClientNext, Tick, BanIp, UnbanIp, IsBanned,
      CreateSession, DestroySession, GetSession, RegisterClient, UpdateClient, vars

LEMMA ReportStep == TypeOK /\ ReportInv /\ [Next]_vars => ReportInv'
<1> SUFFICES ASSUME TypeOK, ReportInv, [Next]_vars PROVE ReportInv'
  OBVIOUS
<1>1. ASSUME NEW k \in Ids, NEW h \in Hashes, RegisterClient(k, h) PROVE ReportInv'
  <2> DEFINE e == [id |-> k, hash |-> h]
  <2>1. clients' = Append(clients, e)
        /\ reported' = IF Client(k) = 0 THEN [reported EXCEPT ![k] = h] ELSE reported
    BY <1>1 DEF RegisterClient
  <2>2. /\ Len(clients) \in Nat /\ Len(clients') = Len(clients) + 1
        /\ clients'[Len(clients) + 1] = e
        /\ \A i \in 1..Len(clients) : clients'[i] = clients[i]
    BY <2>1 DEF TypeOK
  <2> SUFFICES ASSUME NEW id \in Ids
               PROVE  \/ reported'[id] = None /\ \A i \in 1..Len(clients') : clients'[i].id # id
                      \/ \E i \in 1..Len(clients') : Earliest(i, id)' /\ clients'[i].hash = reported'[id]
    BY DEF ReportInv
  <2>3. CASE \E i \in 1..Len(clients) : Earliest(i, id) /\ clients[i].hash = reported[id]
    <3>1. PICK i \in 1..Len(clients) : Earliest(i, id) /\ clients[i].hash = reported[id]
      BY <2>3
    <3>2. id = k => Client(k) # 0
      BY <3>1, <2>2, FoundClient DEF Earliest
    <3>3. reported'[id] = reported[id]
      BY <2>1, <3>2 DEF TypeOK
    <3>4. Earliest(i, id)'
      BY <2>2, <3>1 DEF Earliest
    <3>5. QED BY <2>2, <3>1, <3>3, <3>4
  <2>4. CASE reported[id] = None /\ \A i \in 1..Len(clients) : clients[i].id # id
    <3>1. CASE id = k
      <4>1. Client(k) = 0
        BY <2>4, <3>1, FoundClient DEF Earliest
      <4>2. reported'[k] = h
        BY <2>1, <4>1 DEF TypeOK
      <4>3. PICK q \in Nat : q = Len(clients) + 1
        BY <2>2
      <4>4. q \in 1..Len(clients') /\ clients'[q].id = k /\ clients'[q].hash = h
        BY <2>2, <4>3
      <4>5. \A j \in 1..Len(clients') : j < q => clients'[j].id # k
        <5> HIDE DEF e
        <5>1. \A j \in 1..Len(clients') : j < q => j \in 1..Len(clients)
          BY <2>2, <4>3
        <5>2. QED BY <2>2, <2>4, <3>1, <5>1
      <4>6. Earliest(q, k)'
        BY <4>4, <4>5 DEF Earliest
      <4>7. QED BY <3>1, <4>2, <4>4, <4>6
    <3>2. CASE id # k
      <4>1. reported'[id] = reported[id]
        BY <2>1, <3>2 DEF TypeOK
      <4>2. \A i \in 1..Len(clients') : clients'[i].id # id
        BY <2>2, <2>4, <3>2
      <4>3. QED BY <2>4, <4>1, <4>2
    <3>3. QED BY <3>1, <3>2
  <2>5. QED BY <2>3, <2>4 DEF ReportInv
<1>2. ASSUME NEW k \in Ids, NEW h \in Hashes, UpdateClient(k, h) PROVE ReportInv'
  <2> DEFINE c == Client(k)
  <2>1. /\ clients' = [clients EXCEPT ![c].hash = h] /\ reported' = [reported EXCEPT ![k] = h]
        /\ c # 0
    BY <1>2 DEF UpdateClient
  <2>2. Earliest(c, k)
    BY <2>1, FoundClient
  <2> HIDE DEF c
  <2>3. /\ Len(clients') = Len(clients) /\ Len(clients) \in Nat
        /\ \A i \in 1..Len(clients) :
              /\ clients'[i].id = clients[i].id
              /\ clients'[i].hash = IF i = c THEN h ELSE clients[i].hash
    BY <2>1 DEF TypeOK
  <2>4. \A i, id : Earliest(i, id)' <=> Earliest(i, id)
    BY <2>3 DEF Earliest
  <2> SUFFICES ASSUME NEW id \in Ids
               PROVE  \/ reported'[id] = None /\ \A i \in 1..Len(clients') : clients'[i].id # id
                      \/ \E i \in 1..Len(clients') : Earliest(i, id)' /\ clients'[i].hash = reported'[id]
    BY DEF ReportInv
  <2>5. CASE id = k
    <3>1. reported'[k] = h /\ clients'[c].hash = h /\ c \in 1..Len(clients')
      BY <2>1, <2>2, <2>3 DEF TypeOK, Earliest
    <3>2. QED BY <2>2, <2>4, <2>5, <3>1
  <2>6. CASE id # k
    <3>1. reported'[id] = reported[id]
      BY <2>1, <2>6 DEF TypeOK
    <3>2. CASE reported[id] = None /\ \A i \in 1..Len(clients) : clients[i].id # id
      BY <2>3, <3>1, <3>2
    <3>3. CASE \E i \in 1..Len(clients) : Earliest(i, id) /\ clients[i].hash = reported[id]
      <4>1. PICK i \in 1..Len(clients) : Earliest(i, id) /\ clients[i].hash = reported[id]
        BY <3>3
      <4>2. i # c
        BY <2>2, <2>6, <4>1 DEF Earliest
      <4>3. QED BY <2>3, <2>4, <3>1, <4>1, <4>2
    <3>4. QED BY <3>2, <3>3 DEF ReportInv
  <2>7. QED BY <2>5, <2>6
<1>3. CASE UNCHANGED clientVars
  BY <1>3 DEF ReportInv, Earliest, clientVars
<1>4. QED
  BY <1>1, <1>2, <1>3
  DEF Next, UserNext, BanNext, SessionNext, ClientNext, Tick, Register, Login, BanIp, UnbanIp, IsBanned,
      CreateSession, DestroySession, GetSession, vars

LEMMA LookupsSuffice == TypeOK /\ TokenInv /\ ReportInv => DuplicatesHarmless
<1> SUFFICES ASSUME TypeOK, TokenInv, ReportInv PROVE DuplicatesHarmless
  OBVIOUS
<1> USE ServerAssumption DEF ServerAssumption
<1>1. TokenLife
  <2> SUFFICES ASSUME NEW n \in Names PROVE ValidToken(n) <=> lifetimes[n] > now
    BY DEF TokenLife
  <2>1. now \in Nat /\ lifetimes[n] \in Nat /\ \A i \in DOMAIN users : users[i].expiry \in Nat
    BY EntryTypes
  <2>2. QED BY <2>1 DEF ValidToken, TokenInv
<1>2. LastReported
  <2> SUFFICES ASSUME NEW id \in Ids, NEW h \in Hashes PROVE ValidState(id, h) <=> reported[id] = h
    BY DEF LastReported
  <2>1. h # None
    BY DEF None
  <2>2. CASE reported[id] = None /\ \A i \in 1..Len(clients) : clients[i].id # id
    BY <2>1, <2>2, FoundClient DEF ValidState, Earliest
  <2>3. CASE \E i \in 1..Len(clients) : Earliest(i, id) /\ clients[i].hash = reported[id]
    <3>1. PICK i \in 1..Len(clients) : Earliest(i, id) /\ clients[i].hash = reported[id]
      BY <2>3
    <3>2. Earliest(Client(id), id)
      BY <3>1, FoundClient DEF Earliest
    <3>3. Client(id) = i
      BY <3>1, <3>2 DEF Earliest
    <3>4. QED BY <3>1, <3>3 DEF ValidState
  <2>4. QED BY <2>2, <2>3 DEF ReportInv
<1>3. QED BY <1>1, <1>2 DEF DuplicatesHarmless

(* However often a name or an id is registered, a token is valid exactly as *)
(* long as a login under its name is younger than the lifetime, and a client *)
(* is judged by its last update.                                            *)
THEOREM ServerLookups == Spec => []DuplicatesHarmless
<1>1. Init => TokenInv /\ ReportInv
  BY ServerAssumption DEF ServerAssumption, Init, TokenInv, ReportInv, None
<1>2. QED BY <1>1, ServerTypeCorrect, TokenStep, ReportStep, LookupsSuffice, PTL DEF Spec

-----------------------------------------------------------------------------
(* Pointers into the array of sessions *)

LEMMA HeldStep == TypeOK /\ HeldSession /\ [Next]_vars => HeldSession'
<1> SUFFICES ASSUME TypeOK, HeldSession, [Next]_vars PROVE HeldSession'
  OBVIOUS
<1>0. count \in Nat /\ held.slot \in Nat /\ count <= Capacity /\ Capacity \in Nat
  BY ServerAssumption DEF ServerAssumption, TypeOK
<1>1. ASSUME NEW id \in Ids, NEW owner \in Names, CreateSession(owner, id) PROVE HeldSession'
  BY <1>0, <1>1 DEF CreateSession, HeldSession, TypeOK
<1>2. ASSUME NEW id \in Ids, DestroySession(id) PROVE HeldSession'
  <2>1. Session(id) \in 1..count
    BY <1>2, FoundSession DEF DestroySession
  <2>2. /\ slots' = Closed(Session(id)) /\ count' = count - 1
        /\ held' = [held EXCEPT !.moved = @ \/ Session(id) <= held.slot]
    BY <1>2 DEF DestroySession
  <2>3. /\ held'.slot = held.slot /\ held'.id = held.id /\ held'.owner = held.owner
        /\ ~held'.moved => ~held.moved /\ ~(Session(id) <= held.slot)
    BY <2>2 DEF TypeOK
  <2>4. ASSUME held'.slot # 0, ~held'.moved
        PROVE  held'.slot <= count' /\ slots'[held'.slot] = slots[held.slot]
    BY <1>0, <2>1, <2>2, <2>3, <2>4 DEF Closed
  <2>5. QED BY <2>3, <2>4 DEF HeldSession
<1>3. ASSUME NEW id \in Ids, GetSession(id) PROVE HeldSession'
  <2>1. CASE Session(id) = 0
    BY <1>3, <2>1 DEF GetSession, HeldSession, NoPointer
  <2>2. CASE Session(id) # 0
    <3>1. Session(id) \in 1..count /\ slots[Session(id)].id = id
      BY <2>2, FoundSession
    <3>2. slots[Session(id)] = [id |-> id, owner |-> slots[Session(id)].owner]
      BY <1>0, <3>1 DEF TypeOK
    <3>3. QED BY <1>0, <1>3, <2>2, <3>1, <3>2 DEF GetSession, HeldSession
  <2>3. QED BY <2>1, <2>2
<1>4. CASE UNCHANGED sessionVars
  BY <1>4 DEF HeldSession, sessionVars
<1>5. QED
  BY <1>1, <1>2, <1>3, <1>4
  DEF Next, UserNext, BanNext, SessionNext, ClientNext, Tick, Register, Login, BanIp, UnbanIp, IsBanned,
      RegisterClient, UpdateClient, vars

(* A pointer that session_store_get returned shows the session it was asked *)
(* for until an entry at or before it is destroyed, whatever is created and *)
(* destroyed behind it.                                                     *)
THEOREM ServerHoldsSessions == Spec => []HeldSession
<1>1. Init => HeldSession
  BY DEF Init, HeldSession, NoPointer
<1>2. QED BY <1>1, ServerTypeCorrect, HeldStep, PTL DEF Spec

-----------------------------------------------------------------------------
(* The bans of an address, oldest first *)

Mine(s, a)    == {i \in 1..Len(s) : s[i].ip = a}
DueOf(s, m)   == [k \in DOMAIN m |-> s[m[k]].since + s[m[k]].span]
Through(m, n, P) ==
    /\ n \in Nat /\ m \in [1..n -> P]
    /\ \A i, j \in 1..n : i < j => m[i] < m[j]
    /\ \A p \in P : \E k \in 1..n : m[k] = p

(* Only one function runs through a set of numbers from the front.           *)
LEMMA NotBehind ==
    ASSUME NEW P, P \subseteq Nat, NEW n, NEW m, NEW o, Through(m, n, P), Through(o, n, P),
           NEW k \in 1..n, \A l \in 1..n : l < k => m[l] = o[l]
    PROVE  ~(m[k] < o[k])
<1> SUFFICES ASSUME m[k] < o[k] PROVE FALSE
  OBVIOUS
<1>1. m[k] \in P /\ n \in Nat /\ m[k] \in Nat /\ o[k] \in Nat
  BY DEF Through
<1>2. PICK l \in 1..n : o[l] = m[k]
  BY <1>1 DEF Through
<1>3. l < k
  <2>1. CASE k < l
    <3>1. o[k] < o[l]
      BY <2>1 DEF Through
    <3>2. QED BY <1>1, <1>2, <3>1
  <2>2. CASE k = l
    BY <1>1, <1>2, <2>2
  <2>3. QED BY <1>1, <2>1, <2>2
<1>4. m[l] = m[k] /\ m[l] < m[k]
  BY <1>2, <1>3 DEF Through
<1>5. QED BY <1>1, <1>4

LEMMA OneWay ==
    ASSUME NEW P, P \subseteq Nat, NEW n, NEW m, NEW o, Through(m, n, P), Through(o, n, P)
    PROVE  m = o
<1> DEFINE I == {k \in 1..n : m[k] # o[k]}
<1>1. n \in Nat /\ m \in [1..n -> P] /\ o \in [1..n -> P]
  BY DEF Through
<1>2. I = {}
  <2> SUFFICES ASSUME I # {} PROVE FALSE
    OBVIOUS
  <2>1. I \subseteq Nat
    BY <1>1
  <2>2. Min(I) \in I /\ \A j \in I : Min(I) <= j
    <3> HIDE DEF I
    <3> QED BY <2>1, LeastOf
  <2>3. PICK k : k = Min(I)
    OBVIOUS
  <2>4. k \in 1..n /\ m[k] # o[k]
    BY <2>2, <2>3
  <2>5. ASSUME NEW l \in 1..n, l < k PROVE m[l] = o[l]
    <3>1. l \in I => k <= l
      BY <2>2, <2>3
    <3>2. ~(k <= l)
      BY <1>1, <2>4, <2>5
    <3>3. QED BY <3>1, <3>2
  <2> HIDE DEF I
  <2>6. ~(m[k] < o[k]) /\ ~(o[k] < m[k])
    BY <2>4, <2>5, NotBehind
  <2>7. m[k] \in Nat /\ o[k] \in Nat
    BY <1>1, <2>4
  <2>8. QED BY <2>4, <2>6, <2>7
<1>3. QED BY <1>1, <1>2

LEMMA RunsThrough ==
    ASSUME NEW P, P \subseteq Nat, NEW n, NEW m, Through(m, n, P)
    PROVE  Runs(P) = m /\ DOMAIN m = 1..n
<1>1. n \in Nat /\ m \in [1..n -> P] /\ P \subseteq Nat
  BY DEF Through
<1>2. m \in Bijection(1..n, P)
  <2>1. ASSUME NEW i \in 1..n, NEW j \in 1..n, m[i] = m[j] PROVE i = j
    <3>1. m[i] \in Nat /\ i \in Nat /\ j \in Nat
      <4>1. m[i] \in P /\ P \subseteq Nat
        BY <1>1
      <4>2. m[i] \in Nat
        BY <4>1, Zenon
      <4>3. i \in Nat /\ j \in Nat
        BY <1>1
      <4>4. QED BY <4>2, <4>3
    <3>2. (i < j => m[i] < m[j]) /\ (j < i => m[j] < m[i])
      BY DEF Through
    <3>3. QED BY <2>1, <3>1, <3>2
  <2>2. m \in Injection(1..n, P)
    BY <1>1, <2>1 DEF Injection, IsInjective
  <2>3. m \in Surjection(1..n, P)
    BY <1>1 DEF Surjection, Through
  <2>4. QED BY <2>2, <2>3 DEF Bijection
<1>3. IsFiniteSet(1..n) /\ Cardinality(1..n) = n
  BY <1>1, FS_Interval
<1>4. IsFiniteSet(P) /\ Cardinality(P) = n
  BY <1>2, <1>3, FS_Bijection DEF ExistsBijection
<1>5. ASSUME NEW o \in [1..n -> P], \A i, j \in 1..n : i < j => o[i] < o[j] PROVE o = m
  <2>1. ASSUME NEW i \in 1..n, NEW j \in 1..n, o[i] = o[j] PROVE i = j
    <3>1. o[i] \in Nat /\ i \in Nat /\ j \in Nat
      <4>1. o[i] \in P /\ P \subseteq Nat
        BY <1>1
      <4>2. o[i] \in Nat
        BY <4>1, Zenon
      <4>3. i \in Nat /\ j \in Nat
        BY <1>1
      <4>4. QED BY <4>2, <4>3
    <3>2. (i < j => o[i] < o[j]) /\ (j < i => o[j] < o[i])
      BY <1>5
    <3>3. QED BY <2>1, <3>1, <3>2
  <2>2. o \in Injection(1..n, P)
    BY <2>1 DEF Injection, IsInjective
  <2>3. o \in Surjection(1..n, P)
    BY <1>3, <1>4, <2>2, FS_Injection
  <2>4. Through(o, n, P)
    BY <1>1, <1>5, <2>3 DEF Through, Surjection
  <2>5. QED BY <2>4, OneWay
<1>6. DOMAIN m = 1..n /\ \A o \in [1..n -> P] : DOMAIN o = 1..n
  BY <1>1
<1>7. m \in [1..Cardinality(P) -> P] /\ \A i, j \in DOMAIN m : i < j => m[i] < m[j]
  BY <1>1, <1>4, <1>6 DEF Through
<1>8. /\ Runs(P) \in [1..Cardinality(P) -> P]
      /\ \A i, j \in DOMAIN Runs(P) : i < j => Runs(P)[i] < Runs(P)[j]
  BY <1>7 DEF Runs
<1>9. QED BY <1>4, <1>5, <1>6, <1>8

(* That one exists is an invariant: there is a way through the bans of every  *)
(* address.  The registry's queue is what it passes.                         *)
WayInv == \A a \in Addresses : \E n, m : Through(m, n, Mine(bans, a))

LEMMA BansType ==
    ASSUME TypeOK
    PROVE  /\ bans \in Seq(BanEntries) /\ Len(bans) \in Nat /\ DOMAIN bans = 1..Len(bans)
           /\ \A i \in 1..Len(bans) : bans[i].since \in Nat /\ bans[i].span \in Nat
           /\ now \in Nat
<1> USE ServerAssumption DEF ServerAssumption
<1>1. bans \in Seq(BanEntries) /\ now \in Nat
  BY DEF TypeOK, BanEntries
<1>2. Len(bans) \in Nat /\ DOMAIN bans = 1..Len(bans)
  BY <1>1
<1>3. ASSUME NEW i \in 1..Len(bans) PROVE bans[i].since \in Nat /\ bans[i].span \in Nat
  <2>1. bans[i] \in BanEntries
    BY <1>1
  <2>2. ASSUME NEW e \in BanEntries PROVE e.since \in Nat /\ e.span \in Nat
    <3>1. e.since \in 0..MaxTime /\ e.span \in Spans
      BY DEF BanEntries
    <3>2. \A v \in 0..MaxTime : v \in Nat
      OBVIOUS
    <3>3. \A v \in Spans : v \in Nat
      OBVIOUS
    <3>4. QED BY <3>1, <3>2, <3>3, Zenon
  <2>3. QED BY <2>1, <2>2
<1>4. QED BY <1>1, <1>2, <1>3

LEMMA DueIs ==
    ASSUME TypeOK, NEW a, NEW n, NEW m, Through(m, n, Mine(bans, a))
    PROVE  Due(a) = DueOf(bans, m) /\ DOMAIN m = 1..n
<1>1. Mine(bans, a) \subseteq Nat /\ Mine(bans, a) = {i \in DOMAIN bans : bans[i].ip = a}
  BY BansType DEF Mine
<1>2. Runs(Mine(bans, a)) = m /\ DOMAIN m = 1..n
  BY <1>1, RunsThrough
<1>3. QED BY <1>1, <1>2 DEF Due, DueOf

LEMMA DueIsNext ==
    ASSUME TypeOK', NEW a, NEW n, NEW m, Through(m, n, Mine(bans', a))
    PROVE  Due(a)' = DueOf(bans', m) /\ DOMAIN m = 1..n
<1>0. bans' \in Seq(BanEntries)
  BY DEF TypeOK, BanEntries
<1>1. Mine(bans', a) \subseteq Nat /\ Mine(bans', a) = {i \in DOMAIN bans' : bans'[i].ip = a}
  BY <1>0 DEF Mine
<1>2. Runs(Mine(bans', a)) = m /\ DOMAIN m = 1..n
  BY <1>1, RunsThrough
<1>3. QED BY <1>1, <1>2 DEF Due, DueOf

LEMMA DueSeq ==
    ASSUME TypeOK, NEW a, NEW n, NEW m, Through(m, n, Mine(bans, a))
    PROVE  /\ Due(a) \in Seq(Nat) /\ Len(Due(a)) = n
           /\ \A k \in 1..n : /\ Due(a)[k] = bans[m[k]].since + bans[m[k]].span
                              /\ m[k] \in 1..Len(bans) /\ bans[m[k]].ip = a
<1>1. n \in Nat /\ m \in [1..n -> Mine(bans, a)]
  BY DEF Through
<1>2. ASSUME NEW k \in 1..n PROVE m[k] \in 1..Len(bans) /\ bans[m[k]].ip = a
  <2>1. m[k] \in Mine(bans, a)
    BY <1>1
  <2>2. QED BY <2>1 DEF Mine
<1>3. \A k \in 1..n : bans[m[k]].since \in Nat /\ bans[m[k]].span \in Nat
  BY <1>2, BansType
<1>4. Due(a) = [k \in 1..n |-> bans[m[k]].since + bans[m[k]].span]
  <2>1. Due(a) = DueOf(bans, m) /\ DOMAIN m = 1..n
    BY DueIs
  <2>2. QED BY <2>1 DEF DueOf
<1>5. \A k \in 1..n : Due(a)[k] = bans[m[k]].since + bans[m[k]].span
  BY <1>4
<1>6. Due(a) \in Seq(Nat) /\ Len(Due(a)) = n
  BY <1>1, <1>3, <1>4
<1>7. QED BY <1>2, <1>5, <1>6

(* One more ban of an address is the last of its queue.                     *)
LEMMA BanAdds ==
    ASSUME TypeOK, TypeOK', WayInv, NEW a \in Addresses, NEW e, e.ip = a, bans' = Append(bans, e),
           e.since \in Nat, e.span \in Nat
    PROVE  /\ WayInv'
           /\ \A b \in Addresses : Due(b)' = IF b = a THEN Append(Due(b), e.since + e.span) ELSE Due(b)
<1>1. PICK L : L = Len(bans)
  OBVIOUS
<1>2. /\ L \in Nat /\ Len(bans') = L + 1 /\ bans'[L + 1] = e
      /\ \A i \in 1..L : bans'[i] = bans[i]
  BY <1>1, BansType
<1>3. ASSUME NEW b \in Addresses
      PROVE  /\ \E n, m : Through(m, n, Mine(bans', b))
             /\ Due(b)' = IF b = a THEN Append(Due(b), e.since + e.span) ELSE Due(b)
  <2>1. PICK n, m : Through(m, n, Mine(bans, b))
    BY DEF WayInv
  <2>2. /\ n \in Nat /\ m \in [1..n -> Mine(bans, b)] /\ Due(b) \in Seq(Nat) /\ Len(Due(b)) = n
        /\ \A k \in 1..n : /\ Due(b)[k] = bans[m[k]].since + bans[m[k]].span
                           /\ m[k] \in 1..L /\ bans[m[k]].ip = b
    <3>1. n \in Nat /\ m \in [1..n -> Mine(bans, b)]
      BY <2>1 DEF Through
    <3>2. /\ Due(b) \in Seq(Nat) /\ Len(Due(b)) = n
          /\ \A k \in 1..n : /\ Due(b)[k] = bans[m[k]].since + bans[m[k]].span
                             /\ m[k] \in 1..Len(bans) /\ bans[m[k]].ip = b
      BY <2>1, DueSeq
    <3>3. QED BY <1>1, <3>1, <3>2
  <2>3. CASE b # a
    <3>1. Mine(bans', b) = Mine(bans, b)
      BY <1>1, <1>2, <2>3 DEF Mine
    <3>2. Through(m, n, Mine(bans', b))
      BY <2>1, <3>1
    <3>3. Due(b)' = DueOf(bans', m) /\ DOMAIN m = 1..n /\ Due(b) = DueOf(bans, m)
      BY <2>1, <3>2, DueIs, DueIsNext
    <3>4. DueOf(bans', m) = DueOf(bans, m)
      BY <1>2, <2>2, <3>3 DEF DueOf
    <3>5. QED BY <2>3, <3>2, <3>3, <3>4
  <2>4. CASE b = a
    <3> DEFINE o == [k \in 1..(n + 1) |-> IF k = n + 1 THEN L + 1 ELSE m[k]]
    <3>1. Mine(bans', b) = Mine(bans, b) \cup {L + 1}
      BY <1>1, <1>2, <2>4 DEF Mine
    <3>2. /\ o \in [1..(n + 1) -> Mine(bans', b)] /\ n + 1 \in Nat /\ o[n + 1] = L + 1
          /\ \A k \in 1..n : o[k] = m[k]
      BY <2>2, <3>1
    <3> HIDE DEF o
    <3>3. \A i, j \in 1..(n + 1) : i < j => o[i] < o[j]
      <4>1. ASSUME NEW i \in 1..(n + 1), NEW j \in 1..(n + 1), i < j PROVE o[i] < o[j]
        <5>1. i \in 1..n /\ o[i] = m[i] /\ m[i] \in 1..L
          BY <2>2, <3>2, <4>1
        <5>2. CASE j = n + 1
          BY <1>2, <3>2, <5>1, <5>2
        <5>3. CASE j # n + 1
          <6>1. j \in 1..n /\ o[j] = m[j]
            BY <2>2, <3>2, <5>3
          <6>2. m[i] < m[j]
            BY <2>1, <4>1, <5>1, <6>1 DEF Through
          <6>3. QED BY <5>1, <6>1, <6>2
        <5>4. QED BY <5>2, <5>3
      <4>2. QED BY <4>1
    <3>4. ASSUME NEW q \in Mine(bans', b) PROVE \E k \in 1..(n + 1) : o[k] = q
      <4>1. CASE q = L + 1
        BY <2>2, <3>2, <4>1
      <4>2. CASE q \in Mine(bans, b)
        <5>1. PICK k \in 1..n : m[k] = q
          BY <2>1, <4>2 DEF Through
        <5>2. k \in 1..(n + 1) /\ o[k] = q
          BY <2>2, <3>2, <5>1
        <5>3. QED BY <5>2
      <4>3. QED BY <3>1, <4>1, <4>2
    <3>5. Through(o, n + 1, Mine(bans', b))
      BY <3>2, <3>3, <3>4 DEF Through
    <3>6. Due(b)' = DueOf(bans', o) /\ DOMAIN o = 1..(n + 1)
      BY <3>5, DueIsNext
    <3>7. ASSUME NEW k \in 1..(n + 1)
          PROVE  DueOf(bans', o)[k] = IF k = n + 1 THEN e.since + e.span ELSE Due(b)[k]
      <4>1. DueOf(bans', o)[k] = bans'[o[k]].since + bans'[o[k]].span
        BY <3>6 DEF DueOf
      <4>2. CASE k = n + 1
        BY <1>2, <3>2, <4>1, <4>2
      <4>3. CASE k # n + 1
        <5>1. k \in 1..n
          BY <2>2, <4>3
        <5>2. o[k] = m[k] /\ bans'[m[k]] = bans[m[k]]
          BY <1>2, <2>2, <3>2, <5>1
        <5>3. QED BY <2>2, <4>1, <4>3, <5>1, <5>2
      <4>4. QED BY <4>2, <4>3
    <3>8. PICK x, d : x = e.since + e.span /\ d = Due(b)
      OBVIOUS
    <3>9. /\ x \in Nat /\ d \in Seq(Nat) /\ Len(d) = n
          /\ DueOf(bans', o) = [k \in 1..(n + 1) |-> IF k = n + 1 THEN x ELSE d[k]]
      <4>1. x \in Nat /\ d \in Seq(Nat) /\ Len(d) = n
        BY <2>2, <3>8
      <4>2. \A k \in 1..(n + 1) : DueOf(bans', o)[k] = IF k = n + 1 THEN x ELSE d[k]
        BY <3>7, <3>8
      <4>3. DueOf(bans', o) = [k \in 1..(n + 1) |-> DueOf(bans', o)[k]]
        BY <3>6 DEF DueOf
      <4>4. QED BY <4>1, <4>2, <4>3
    <3>10. Append(d, x) = [k \in 1..(n + 1) |-> IF k = n + 1 THEN x ELSE d[k]]
      <4>1. /\ Append(d, x) \in Seq(Nat) /\ Len(Append(d, x)) = n + 1
            /\ \A k \in 1..(n + 1) : Append(d, x)[k] = IF k = n + 1 THEN x ELSE d[k]
        BY <2>2, <3>9
      <4>2. Append(d, x) = [k \in 1..(n + 1) |-> Append(d, x)[k]]
        <5>1. PICK y : y = Append(d, x)
          OBVIOUS
        <5>2. y \in Seq(Nat) /\ Len(y) = n + 1
          BY <4>1, <5>1
        <5>3. y \in [1..Len(y) -> Nat]
          BY <5>2
        <5>4. y = [k \in 1..(n + 1) |-> y[k]]
          BY <5>2, <5>3
        <5>5. QED BY <5>1, <5>4
      <4>3. QED BY <4>1, <4>2
    <3>11. QED BY <2>4, <3>5, <3>6, <3>8, <3>9, <3>10
  <2>5. QED BY <2>3, <2>4
<1>4. QED BY <1>3 DEF WayInv

(* Taking out the ban at p moves those behind it one place ahead.            *)
Ahead(p, q) == IF q < p THEN q ELSE q - 1

LEMMA LiftedFirst ==
    ASSUME NEW S, bans \in Seq(S), NEW a, NEW n, NEW m, Through(m, n, Mine(bans, a)), n # 0
    PROVE  m[1] \in 1..Len(bans) /\ Lifted(a) = RemoveAt(bans, m[1])
<1>1. n \in Nat /\ 1 \in 1..n /\ m \in [1..n -> Mine(bans, a)]
  BY DEF Through
<1>2. m[1] \in Mine(bans, a) /\ Mine(bans, a) \subseteq Nat
  BY <1>1 DEF Mine
<1>3. Lifted(a) = RemoveAt(bans, Min(Mine(bans, a)))
  BY <1>2 DEF Lifted, RemoveFirstMatch, SelectInSeq, Mine
<1>4. Min(Mine(bans, a)) \in Mine(bans, a) /\ \A j \in Mine(bans, a) : Min(Mine(bans, a)) <= j
  BY <1>2, LeastOf
<1>5. PICK k \in 1..n : m[k] = Min(Mine(bans, a))
  BY <1>4 DEF Through
<1>6. k = 1
  <2>1. k \in Nat /\ 1 <= k /\ m[1] \in Nat /\ m[k] \in Nat /\ m[k] <= m[1]
    BY <1>1, <1>2, <1>4, <1>5
  <2>2. 1 < k => m[1] < m[k]
    BY <1>1 DEF Through
  <2>3. QED BY <2>1, <2>2
<1>7. QED BY <1>2, <1>3, <1>5, <1>6 DEF Mine

LEMMA LiftedNone ==
    ASSUME bans \in Seq(BanEntries), NEW a, NEW m, Through(m, 0, Mine(bans, a))
    PROVE  Lifted(a) = bans /\ \A i \in 1..Len(bans) : bans[i].ip # a
<1>1. Mine(bans, a) = {}
  BY DEF Through
<1>2. QED BY <1>1 DEF Lifted, RemoveFirstMatch, Mine

(* How the places of the other addresses, and of the rest of this one, move.  *)
LEMMA LiftMoves ==
    ASSUME TypeOK, NEW p \in 1..Len(bans), bans' = RemoveAt(bans, p)
    PROVE  /\ Len(bans') = Len(bans) - 1
           /\ \A q \in 1..Len(bans) : q # p =>
                 Ahead(p, q) \in 1..Len(bans') /\ bans'[Ahead(p, q)] = bans[q]
           /\ \A q, r \in 1..Len(bans) : q # p /\ r # p /\ q < r => Ahead(p, q) < Ahead(p, r)
           /\ \A i \in 1..Len(bans') : \E q \in 1..Len(bans) : q # p /\ Ahead(p, q) = i
<1>1. bans \in Seq(BanEntries) /\ Len(bans) \in Nat
  BY BansType
<1>2. /\ Len(bans') = Len(bans) - 1
      /\ \A i \in 1..(Len(bans) - 1) : bans'[i] = IF i < p THEN bans[i] ELSE bans[i + 1]
  BY <1>1, WithoutOne
<1>3. ASSUME NEW q \in 1..Len(bans), q # p
      PROVE  Ahead(p, q) \in 1..Len(bans') /\ bans'[Ahead(p, q)] = bans[q]
  <2>1. CASE q < p
    <3>1. Ahead(p, q) = q /\ q \in 1..(Len(bans) - 1)
      BY <1>1, <2>1 DEF Ahead
    <3>2. QED BY <1>2, <2>1, <3>1
  <2>2. CASE ~(q < p)
    <3>1. Ahead(p, q) = q - 1 /\ q - 1 \in 1..(Len(bans) - 1) /\ ~(q - 1 < p) /\ (q - 1) + 1 = q
      BY <1>1, <1>3, <2>2 DEF Ahead
    <3>2. QED BY <1>2, <3>1
  <2>3. QED BY <2>1, <2>2
<1>4. \A q, r \in 1..Len(bans) : q # p /\ r # p /\ q < r => Ahead(p, q) < Ahead(p, r)
  BY <1>1 DEF Ahead
<1>5. ASSUME NEW i \in 1..Len(bans') PROVE \E q \in 1..Len(bans) : q # p /\ Ahead(p, q) = i
  <2>1. CASE i < p
    <3>1. i \in 1..Len(bans) /\ i # p /\ Ahead(p, i) = i
      BY <1>1, <1>2, <2>1 DEF Ahead
    <3>2. QED BY <3>1
  <2>2. CASE ~(i < p)
    <3>1. i + 1 \in 1..Len(bans) /\ i + 1 # p /\ Ahead(p, i + 1) = i
      BY <1>1, <1>2, <2>2 DEF Ahead
    <3>2. QED BY <3>1
  <2>3. QED BY <2>1, <2>2
<1>6. QED BY <1>2, <1>3, <1>4, <1>5

(* The oldest ban of the address is gone, and no other.                      *)
LEMMA LiftKeeps ==
    ASSUME TypeOK, TypeOK', WayInv, NEW a \in Addresses, bans' = Lifted(a)
    PROVE  /\ WayInv'
           /\ \A b \in Addresses : Due(b)' = IF b = a /\ Due(b) # <<>> THEN Tail(Due(b)) ELSE Due(b)
<1>0. PICK n, m : Through(m, n, Mine(bans, a))
  BY DEF WayInv
<1>1. /\ bans \in Seq(BanEntries) /\ Len(bans) \in Nat /\ n \in Nat /\ m \in [1..n -> Mine(bans, a)]
      /\ \A i, j \in 1..n : i < j => m[i] < m[j]
  BY <1>0, BansType DEF Through
<1>2. /\ Due(a) \in Seq(Nat) /\ Len(Due(a)) = n
      /\ \A k \in 1..n : /\ Due(a)[k] = bans[m[k]].since + bans[m[k]].span
                         /\ m[k] \in 1..Len(bans) /\ bans[m[k]].ip = a
  BY <1>0, DueSeq
<1>3. CASE n = 0
  <2>1. bans' = bans
    BY <1>0, <1>1, <1>3, LiftedNone
  <2>2. Due(a) = <<>>
    BY <1>2, <1>3
  <2>3. \A b \in Addresses : Due(b)' = Due(b)
    BY <2>1 DEF Due
  <2>4. WayInv'
    BY <2>1 DEF WayInv
  <2>5. QED BY <2>2, <2>3, <2>4
<1>4. CASE n # 0
  <2>1. PICK p : p = m[1]
    OBVIOUS
  <2>2. 1 \in 1..n /\ p \in 1..Len(bans) /\ bans' = RemoveAt(bans, p) /\ bans[p].ip = a
    BY <1>0, <1>1, <1>2, <1>4, <2>1, LiftedFirst
  <2>3. /\ \A q \in 1..Len(bans) : q # p =>
              Ahead(p, q) \in 1..Len(bans') /\ bans'[Ahead(p, q)] = bans[q]
        /\ \A q, r \in 1..Len(bans) : q # p /\ r # p /\ q < r => Ahead(p, q) < Ahead(p, r)
        /\ \A i \in 1..Len(bans') : \E q \in 1..Len(bans) : q # p /\ Ahead(p, q) = i
    BY <2>2, LiftMoves
  <2>4. ASSUME NEW b \in Addresses, b # a
        PROVE  (\E l, o : Through(o, l, Mine(bans', b))) /\ Due(b)' = Due(b)
    <3>1. PICK l, o : Through(o, l, Mine(bans, b))
      BY DEF WayInv
    <3>2. /\ l \in Nat /\ o \in [1..l -> Mine(bans, b)] /\ \A i, j \in 1..l : i < j => o[i] < o[j]
          /\ \A q \in Mine(bans, b) : \E k \in 1..l : o[k] = q
      BY <3>1 DEF Through
    <3>3. \A k \in 1..l : o[k] \in 1..Len(bans) /\ bans[o[k]].ip = b /\ o[k] # p
      BY <2>2, <2>4, <3>2 DEF Mine
    <3> DEFINE w == [k \in 1..l |-> Ahead(p, o[k])]
    <3>4. \A k \in 1..l : w[k] = Ahead(p, o[k])
      OBVIOUS
    <3>5. w \in [1..l -> Mine(bans', b)]
      <4>1. \A k \in 1..l : Ahead(p, o[k]) \in Mine(bans', b)
        BY <2>3, <3>3 DEF Mine
      <4>2. QED BY <4>1
    <3> HIDE DEF w
    <3>6. \A i, j \in 1..l : i < j => w[i] < w[j]
      BY <2>3, <3>2, <3>3, <3>4
    <3>7. ASSUME NEW i \in Mine(bans', b) PROVE \E k \in 1..l : w[k] = i
      <4>1. PICK q \in 1..Len(bans) : q # p /\ Ahead(p, q) = i
        BY <2>3 DEF Mine
      <4>2. q \in Mine(bans, b)
        BY <2>3, <4>1 DEF Mine
      <4>3. PICK k \in 1..l : o[k] = q
        BY <3>2, <4>2
      <4>4. QED BY <3>4, <4>1, <4>3
    <3>8. Through(w, l, Mine(bans', b))
      BY <3>2, <3>5, <3>6, <3>7 DEF Through
    <3>9. Due(b) = DueOf(bans, o) /\ Due(b)' = DueOf(bans', w) /\ DOMAIN o = 1..l /\ DOMAIN w = 1..l
      BY <3>1, <3>8, DueIs, DueIsNext
    <3>10. \A k \in 1..l : bans'[w[k]] = bans[o[k]]
      BY <2>3, <3>3, <3>4
    <3>11. DueOf(bans', w) = DueOf(bans, o)
      BY <3>9, <3>10 DEF DueOf
    <3>12. QED BY <3>8, <3>9, <3>11
  <2>5. (\E l, o : Through(o, l, Mine(bans', a))) /\ Due(a)' = Tail(Due(a))
    <3> DEFINE w == [k \in 1..(n - 1) |-> Ahead(p, m[k + 1])]
    <3>1. n - 1 \in Nat /\ \A k \in 1..(n - 1) : k + 1 \in 1..n /\ 1 < k + 1
      BY <1>1, <1>4
    <3>2. \A k \in 1..(n - 1) : m[k + 1] \in 1..Len(bans) /\ bans[m[k + 1]].ip = a /\ m[k + 1] # p
      <4>1. ASSUME NEW k \in 1..(n - 1) PROVE m[k + 1] \in 1..Len(bans) /\ bans[m[k + 1]].ip = a /\ m[k + 1] # p
        <5>1. k + 1 \in 1..n /\ 1 < k + 1 /\ m[1] < m[k + 1]
          BY <1>1, <2>2, <3>1, <4>1
        <5>2. m[k + 1] \in 1..Len(bans) /\ bans[m[k + 1]].ip = a
          BY <1>2, <5>1
        <5>3. QED BY <1>1, <2>1, <2>2, <5>1, <5>2
      <4>2. QED BY <4>1
    <3>3. \A k \in 1..(n - 1) : w[k] = Ahead(p, m[k + 1])
      OBVIOUS
    <3>4. w \in [1..(n - 1) -> Mine(bans', a)]
      <4>1. \A k \in 1..(n - 1) : Ahead(p, m[k + 1]) \in Mine(bans', a)
        BY <2>3, <3>2 DEF Mine
      <4>2. QED BY <4>1
    <3> HIDE DEF w
    <3>5. \A i, j \in 1..(n - 1) : i < j => w[i] < w[j]
      <4>1. ASSUME NEW i \in 1..(n - 1), NEW j \in 1..(n - 1), i < j PROVE w[i] < w[j]
        <5>1. m[i + 1] < m[j + 1]
          <6>1. i + 1 \in 1..n /\ j + 1 \in 1..n /\ i + 1 < j + 1
            BY <1>1, <3>1, <4>1
          <6>2. QED BY <1>1, <6>1
        <5>2. QED BY <2>3, <3>2, <3>3, <5>1
      <4>2. QED BY <4>1
    <3>6. ASSUME NEW i \in Mine(bans', a) PROVE \E k \in 1..(n - 1) : w[k] = i
      <4>1. PICK q \in 1..Len(bans) : q # p /\ Ahead(p, q) = i
        BY <2>3 DEF Mine
      <4>2. q \in Mine(bans, a)
        BY <2>3, <4>1 DEF Mine
      <4>3. PICK k \in 1..n : m[k] = q
        BY <1>0, <4>2 DEF Through
      <4>4. k # 1
        BY <2>1, <4>1, <4>3
      <4>5. k - 1 \in 1..(n - 1) /\ (k - 1) + 1 = k
        BY <1>1, <4>4
      <4>6. w[k - 1] = i
        BY <3>3, <4>1, <4>3, <4>5
      <4>7. QED BY <4>5, <4>6
    <3>7. Through(w, n - 1, Mine(bans', a))
      BY <3>1, <3>4, <3>5, <3>6 DEF Through
    <3>8. Due(a)' = DueOf(bans', w) /\ DOMAIN w = 1..(n - 1)
      BY <3>7, DueIsNext
    <3>9. PICK d : d = Due(a)
      OBVIOUS
    <3>10. d \in Seq(Nat) /\ Len(d) = n
      BY <1>2, <3>9
    <3>11. ASSUME NEW k \in 1..(n - 1) PROVE bans'[w[k]].since + bans'[w[k]].span = d[k + 1]
      <4>1. bans'[w[k]] = bans[m[k + 1]]
        BY <2>3, <3>2, <3>3
      <4>2. d[k + 1] = bans[m[k + 1]].since + bans[m[k + 1]].span
        BY <1>2, <3>1, <3>9, <3>11
      <4>3. QED BY <4>1, <4>2
    <3>12. DueOf(bans', w) = [k \in 1..(n - 1) |-> d[k + 1]]
      BY <3>8, <3>11 DEF DueOf
    <3>13. Tail(d) = [k \in 1..(n - 1) |-> d[k + 1]]
      <4>1. PICK y : y = Tail(d)
        OBVIOUS
      <4>2. y \in Seq(Nat) /\ Len(y) = n - 1 /\ \A k \in 1..(n - 1) : y[k] = d[k + 1]
        BY <1>1, <1>4, <3>10, <4>1
      <4>3. y \in [1..Len(y) -> Nat]
        BY <4>2
      <4>4. y = [k \in 1..(n - 1) |-> y[k]]
        BY <4>2, <4>3
      <4>5. QED BY <4>1, <4>2, <4>4
    <3>14. QED BY <3>7, <3>8, <3>9, <3>12, <3>13
  <2>6. Due(a) # <<>>
    BY <1>2, <1>4
  <2>7. QED BY <2>4, <2>5, <2>6 DEF WayInv
<1>5. QED BY <1>3, <1>4

-----------------------------------------------------------------------------
(* The ban manager implements the registry *)

LEMMA RegistryStep ==
    ASSUME TypeOK, TypeOK', WayInv, [Next]_vars
    PROVE  WayInv' /\ [Registry!Next]_<<Registry!registry>>
<1> DEFINE queues == [a \in Addresses |-> Due(a)]
<1>1. ASSUME UNCHANGED bans PROVE WayInv' /\ UNCHANGED queues
  <2>1. WayInv'
    BY <1>1 DEF WayInv
  <2>2. \A a \in Addresses : Due(a)' = Due(a)
    BY <1>1 DEF Due
  <2>3. QED BY <2>1, <2>2
<1>2. ASSUME NEW a \in Addresses, NEW span \in Spans, BanIp(a, span)
      PROVE  WayInv' /\ (Registry!Ban(a, span) \/ Registry!Refuse)
  <2>1. CASE Len(bans) < Capacity
    <3>1. PICK e : e = [ip |-> a, since |-> now, span |-> span]
      OBVIOUS
    <3>2. bans' = Append(bans, e) /\ answer' = TRUE /\ now' = now
      BY <1>2, <2>1, <3>1 DEF BanIp
    <3>3. e.ip = a /\ e.since = now /\ e.span = span /\ e.since \in Nat /\ e.span \in Nat
      BY <3>1, BansType, ServerAssumption DEF ServerAssumption
    <3>4. /\ WayInv'
          /\ \A b \in Addresses : Due(b)' = IF b = a THEN Append(Due(b), now + span) ELSE Due(b)
      BY <3>2, <3>3, BanAdds
    <3>5. queues' = [queues EXCEPT ![a] = Append(queues[a], now + span)]
      BY <3>4
    <3>6. QED BY <3>2, <3>4, <3>5 DEF Registry!Ban
  <2>2. CASE ~(Len(bans) < Capacity)
    BY <1>1, <1>2, <2>2 DEF BanIp, Registry!Refuse
  <2>3. QED BY <2>1, <2>2
<1>3. ASSUME NEW a \in Addresses, UnbanIp(a) PROVE WayInv' /\ Registry!Unban(a)
  <2>1. bans' = Lifted(a) /\ now' = now /\ answer' = (\E i \in DOMAIN bans : bans[i].ip = a)
    BY <1>3 DEF UnbanIp
  <2>2. /\ WayInv'
        /\ \A b \in Addresses : Due(b)' = IF b = a /\ Due(b) # <<>> THEN Tail(Due(b)) ELSE Due(b)
    BY <2>1, LiftKeeps
  <2>3. queues' = IF queues[a] = <<>> THEN queues ELSE [queues EXCEPT ![a] = Tail(queues[a])]
    BY <2>2
  <2>4. (\E i \in DOMAIN bans : bans[i].ip = a) <=> Due(a) # <<>>
    <3>1. PICK n, m : Through(m, n, Mine(bans, a))
      BY DEF WayInv
    <3>2. /\ n \in Nat /\ \A p \in Mine(bans, a) : \E k \in 1..n : m[k] = p
          /\ DOMAIN bans = 1..Len(bans)
      BY <3>1, BansType DEF Through
    <3>3. Len(Due(a)) = n /\ Due(a) \in Seq(Nat) /\ \A k \in 1..n : m[k] \in 1..Len(bans) /\ bans[m[k]].ip = a
      BY <3>1, DueSeq
    <3>4. Due(a) # <<>> <=> n # 0
      BY <3>2, <3>3
    <3>5. (\E i \in DOMAIN bans : bans[i].ip = a) <=> n # 0
      BY <3>2, <3>3 DEF Mine
    <3>6. QED BY <3>4, <3>5
  <2>5. queues[a] = Due(a)
    OBVIOUS
  <2> HIDE DEF queues
  <2>6. answer' = (queues[a] # <<>>)
    BY <2>1, <2>4, <2>5, Zenon
  <2>7. QED BY <2>1, <2>2, <2>3, <2>6 DEF Registry!Unban, queues
<1>4. ASSUME NEW a \in Addresses, IsBanned(a) PROVE WayInv' /\ Registry!Ask(a)
  <2>1. /\ UNCHANGED <<now, bans>>
        /\ answer' = (\E i \in DOMAIN bans : bans[i].ip = a /\ now - bans[i].since < bans[i].span)
    BY <1>4 DEF IsBanned
  <2>2. (\E i \in DOMAIN bans : bans[i].ip = a /\ now - bans[i].since < bans[i].span)
          <=> \E k \in DOMAIN Due(a) : Due(a)[k] > now
    <3>1. PICK n, m : Through(m, n, Mine(bans, a))
      BY DEF WayInv
    <3>2. /\ n \in Nat /\ \A p \in Mine(bans, a) : \E k \in 1..n : m[k] = p
          /\ DOMAIN bans = 1..Len(bans) /\ now \in Nat
          /\ \A i \in 1..Len(bans) : bans[i].since \in Nat /\ bans[i].span \in Nat
      BY <3>1, BansType DEF Through
    <3>3. /\ Due(a) \in Seq(Nat) /\ Len(Due(a)) = n
          /\ \A k \in 1..n : /\ Due(a)[k] = bans[m[k]].since + bans[m[k]].span
                             /\ m[k] \in 1..Len(bans) /\ bans[m[k]].ip = a
      BY <3>1, DueSeq
    <3>4. DOMAIN Due(a) = 1..n
      BY <3>3
    <3>5. \A i \in 1..Len(bans) : now - bans[i].since < bans[i].span <=> bans[i].since + bans[i].span > now
      BY <3>2
    <3>6. \A i \in 1..Len(bans) : bans[i].ip = a => \E k \in 1..n : m[k] = i
      BY <3>2 DEF Mine
    <3>7. ASSUME NEW i \in DOMAIN bans, bans[i].ip = a, now - bans[i].since < bans[i].span
          PROVE  \E k \in DOMAIN Due(a) : Due(a)[k] > now
      <4>1. PICK k \in 1..n : m[k] = i
        BY <3>2, <3>6, <3>7
      <4>2. Due(a)[k] > now
        BY <3>2, <3>3, <3>5, <3>7, <4>1
      <4>3. QED BY <3>4, <4>2
    <3>8. ASSUME NEW k \in DOMAIN Due(a), Due(a)[k] > now
          PROVE  m[k] \in DOMAIN bans /\ bans[m[k]].ip = a /\ now - bans[m[k]].since < bans[m[k]].span
      BY <3>2, <3>3, <3>4, <3>5, <3>8
    <3>9. QED BY <3>7, <3>8
  <2>3. queues[a] = Due(a)
    OBVIOUS
  <2>4. WayInv' /\ UNCHANGED queues
    BY <1>1, <2>1
  <2> HIDE DEF queues
  <2>5. answer' = (\E k \in DOMAIN queues[a] : queues[a][k] > now)
    BY <2>1, <2>2, <2>3, Zenon
  <2>6. QED BY <2>1, <2>4, <2>5 DEF Registry!Ask, Registry!Banned, queues
<1>5. CASE Tick
  <2>1. now' = now + 1 /\ UNCHANGED <<bans, answer>>
    BY <1>5 DEF Tick, banVars
  <2>2. WayInv' /\ Registry!Tick
    BY <1>1, <2>1 DEF Registry!Tick
  <2>3. QED BY <2>2 DEF Registry!Next
<1>6. ASSUME UNCHANGED <<now, banVars>> PROVE WayInv' /\ UNCHANGED Registry!registry
  BY <1>1, <1>6 DEF banVars, Registry!registry
<1>7. CASE UserNext
  BY <1>6, <1>7 DEF UserNext, Register, Login
<1>8. CASE SessionNext
  BY <1>6, <1>8 DEF SessionNext, CreateSession, DestroySession, GetSession
<1>9. CASE ClientNext
  BY <1>6, <1>9 DEF ClientNext, RegisterClient, UpdateClient
<1>10. CASE UNCHANGED vars
  BY <1>6, <1>10 DEF vars
<1>11. CASE BanNext
  <2>1. CASE \E a \in Addresses, span \in Spans : BanIp(a, span)
    BY <1>2, <2>1 DEF Registry!Next
  <2>2. CASE \E a \in Addresses : UnbanIp(a) \/ IsBanned(a)
    BY <1>3, <1>4, <2>2 DEF Registry!Next
  <2>3. QED BY <1>11, <2>1, <2>2 DEF BanNext
<1>12. QED BY <1>5, <1>7, <1>8, <1>9, <1>10, <1>11 DEF Next, Registry!Next

LEMMA RegistryStart == Init => WayInv /\ Registry!Init
<1> SUFFICES ASSUME Init PROVE WayInv /\ Registry!Init
  OBVIOUS
<1>1. TypeOK /\ bans = <<>> /\ now = 0 /\ answer = FALSE
  BY TypeInit DEF Init
<1>2. \A a : Mine(bans, a) = {}
  BY <1>1 DEF Mine
<1>3. \A a : Through(<<>>, 0, Mine(bans, a))
  BY <1>2 DEF Through
<1>4. \A a : Due(a) = <<>>
  <2>1. ASSUME NEW a PROVE Due(a) = <<>>
    <3>1. Due(a) \in Seq(Nat) /\ Len(Due(a)) = 0
      BY <1>1, <1>3, DueSeq
    <3>2. QED BY <3>1
  <2>2. QED BY <2>1
<1>5. WayInv
  BY <1>3 DEF WayInv
<1>6. QED BY <1>1, <1>4, <1>5 DEF Registry!Init

(* For any capacity, clock and durations the ban manager is the registry of   *)
(* bans: each call answers what a queue per address would.                   *)
THEOREM ServerBans == Spec => Bans
BY TypeInit, TypeStep, RegistryStart, RegistryStep, PTL DEF Spec, Bans

-----------------------------------------------------------------------------
(* The hash database *)

(* The list holds blocks once each, and every block in it an entry.         *)
ChainOK ==
    /\ chain \in Seq(Blocks)
    /\ \A i, j \in 1..Len(chain) : chain[i] = chain[j] => i = j
    /\ block \in [Blocks -> Entries \cup {NoEntry}]
    /\ \A n \in Listed : block[n] \in Entries

(* What a call holds of its arguments and of its hash.                      *)
CallsOK ==
    /\ place \in [Callers -> {"idle", "add", "check", "compute", "compare"}]
    /\ asked \in [Callers -> [name : Labels \cup {Nil}, extent : Extents \cup {Nil},
                              alg : Algorithms \cup {Nil}]]
    /\ made \in [Callers -> HashValues \cup {NoHash}]
    /\ at \in [Callers -> Blocks \cup {Nil}]
    /\ \A c \in Callers :
          /\ place[c] = "add" => asked[c] \in Calls /\ made[c] \in HashValues /\ made[c].alg = asked[c].alg
          /\ Verifying(c) => asked[c].name \in Labels
          /\ place[c] \in {"idle", "check", "compute"} => made[c] = NoHash
          /\ place[c] = "compare" => made[c] \in HashValues

HistoryOK ==
    /\ quiet \in [Callers -> BOOLEAN]
    /\ recorded \in [Labels -> Entries \cup {NoEntry}]

(* The entries in the list are the ones recorded, each name's once.          *)
RecordsListed ==
    /\ \A n \in Listed : recorded[block[n].name] = block[n] /\ block[n].hash.alg = block[n].alg
    /\ \A m, n \in Listed : block[m].name = block[n].name => m = n
    /\ \A name \in Labels : recorded[name] # NoEntry => \E n \in Listed : block[n].name = name

(* A verification that was left in peace points at the entry of its name,    *)
(* and what it has found of it so far is still so.                          *)
InPeace(c) ==
    /\ at[c] \in Listed /\ block[at[c]].name = asked[c].name
    /\ place[c] \in {"compute", "compare"} => block[at[c]].extent = asked[c].extent
    /\ place[c] = "compare" => made[c].alg = block[at[c]].alg

PeaceHolds == \A c \in Callers : Verifying(c) /\ quiet[c] => InPeace(c)

DbInv == ChainOK /\ CallsOK /\ HistoryOK /\ RecordsListed /\ PeaceHolds /\ VerdictRight

LEMMA ListedAt ==
    ASSUME chain \in Seq(Blocks)
    PROVE  \A n : n \in Listed <=> \E i \in 1..Len(chain) : chain[i] = n
<1>1. DOMAIN chain = 1..Len(chain)
  OBVIOUS
<1>2. QED BY <1>1 DEF Listed, Range

LEMMA FoundName ==
    ASSUME ChainOK, NEW name
    PROVE  \/ Named(name) = 0 /\ \A n \in Listed : block[n].name # name
           \/ Named(name) \in 1..Len(chain) /\ block[chain[Named(name)]].name = name
<1> DEFINE I == {i \in 1..Len(chain) : block[chain[i]].name = name}
<1>1. Named(name) = IF I # {} THEN Min(I) ELSE 0
  BY DEF Named, SelectInSeq
<1>2. I \subseteq Nat /\ chain \in Seq(Blocks)
  BY DEF ChainOK
<1>3. CASE I = {}
  BY <1>1, <1>2, <1>3, ListedAt
<1>4. CASE I # {}
  <2>1. Named(name) = Min(I)
    BY <1>1, <1>4
  <2> HIDE DEF I
  <2>2. Named(name) \in I
    BY <1>2, <1>4, <2>1, LeastOf
  <2>3. QED BY <2>2 DEF I
<1>5. QED BY <1>3, <1>4

(* An entry is written over the one of its name or into a block of its own.  *)
LEMMA AddWrites ==
    ASSUME DbInv, NEW c \in Callers, Add(c)
    PROVE  \E m \in Blocks :
              /\ block' = [block EXCEPT ![m] = EntryOf(c)] /\ Listed' = Listed \cup {m}
              /\ \A n \in Listed : block[n].name = asked[c].name <=> n = m
              /\ chain' \in Seq(Blocks)
              /\ \A i, j \in 1..Len(chain') : chain'[i] = chain'[j] => i = j
<1> USE DEF DbInv, ChainOK
<1>0. chain \in Seq(Blocks) /\ Len(chain) \in Nat
  OBVIOUS
<1>1. CASE Named(asked[c].name) # 0
  <2> DEFINE m == chain[Named(asked[c].name)]
  <2>1. Named(asked[c].name) \in 1..Len(chain) /\ block[m].name = asked[c].name
    BY <1>1, FoundName
  <2>2. m \in Blocks /\ m \in Listed
    BY <1>0, <2>1, ListedAt
  <2>3. block' = [block EXCEPT ![m] = EntryOf(c)] /\ chain' = chain
    BY <1>1 DEF Add, Updated
  <2>4. Listed' = Listed
    BY <2>3 DEF Listed
  <2>5. \A n \in Listed : block[n].name = asked[c].name <=> n = m
    BY <2>1, <2>2 DEF RecordsListed
  <2>6. \A i, j \in 1..Len(chain') : chain'[i] = chain'[j] => i = j
    BY <2>3
  <2> HIDE DEF m
  <2>7. Listed' = Listed \cup {m}
    BY <2>2, <2>4, Zenon
  <2>8. chain' \in Seq(Blocks)
    BY <1>0, <2>3, Zenon
  <2>9. QED BY <2>2, <2>3, <2>5, <2>6, <2>7, <2>8, Zenon
<1>2. CASE Named(asked[c].name) = 0
  <2>1. PICK m \in Blocks \ Listed : chain' = <<m>> \o chain /\ block' = [block EXCEPT ![m] = EntryOf(c)]
    BY <1>2 DEF Add
  <2>2. \A n \in Listed : block[n].name # asked[c].name
    BY <1>2, FoundName
  <2>3. /\ chain' \in Seq(Blocks) /\ Len(chain') = Len(chain) + 1 /\ chain'[1] = m
        /\ \A i \in 1..Len(chain) : chain'[i + 1] = chain[i]
        /\ \A i \in 2..Len(chain') : i - 1 \in 1..Len(chain) /\ chain'[i] = chain[i - 1]
    BY <1>0, <2>1
  <2>4. \A i \in 1..Len(chain) : chain[i] \in Listed /\ chain[i] # m
    BY <1>0, <2>1, ListedAt
  <2>5. Listed' = Listed \cup {m}
    <3>1. \A n : n \in Listed' <=> \E i \in 1..Len(chain') : chain'[i] = n
      <4>1. DOMAIN chain' = 1..Len(chain')
        BY <2>3
      <4>2. QED BY <4>1 DEF Listed, Range
    <3>2. \A n : n \in Listed => n \in Listed'
      <4> SUFFICES ASSUME NEW n \in Listed PROVE n \in Listed'
        OBVIOUS
      <4>1. PICK i \in 1..Len(chain) : chain[i] = n
        BY <1>0, ListedAt
      <4>2. i + 1 \in 1..Len(chain') /\ chain'[i + 1] = n
        BY <1>0, <2>3, <4>1
      <4>3. QED BY <3>1, <4>2
    <3>3. m \in Listed'
      <4>1. 1 \in 1..Len(chain')
        BY <1>0, <2>3
      <4>2. QED BY <2>3, <3>1, <4>1
    <3>4. \A n : n \in Listed' => n \in Listed \cup {m}
      <4> SUFFICES ASSUME NEW n \in Listed', n # m PROVE n \in Listed
        OBVIOUS
      <4>1. PICK i \in 1..Len(chain') : chain'[i] = n
        BY <3>1
      <4>2. i - 1 \in 1..Len(chain) /\ chain[i - 1] = n
        BY <1>0, <2>3, <4>1
      <4>3. QED BY <2>4, <4>2
    <3>5. QED BY <3>2, <3>3, <3>4
  <2>6. \A i, j \in 1..Len(chain') : chain'[i] = chain'[j] => i = j
    <3> SUFFICES ASSUME NEW i \in 1..Len(chain'), NEW j \in 1..Len(chain'), chain'[i] = chain'[j]
                 PROVE  i = j
      OBVIOUS
    <3>1. CASE i = 1 \/ j = 1
      BY <1>0, <2>3, <2>4, <3>1
    <3>2. CASE i # 1 /\ j # 1
      <4>1. i \in 2..Len(chain') /\ j \in 2..Len(chain')
        BY <1>0, <2>3, <3>2
      <4>2. chain[i - 1] = chain[j - 1] /\ i - 1 \in 1..Len(chain) /\ j - 1 \in 1..Len(chain)
        BY <2>3, <4>1
      <4>3. i - 1 = j - 1
        BY <4>2
      <4>4. QED BY <4>1, <4>3
    <3>3. QED BY <3>1, <3>2
  <2>7. QED BY <2>1, <2>2, <2>3, <2>5, <2>6
<1>3. QED BY <1>1, <1>2

LEMMA RemoveWrites ==
    ASSUME DbInv, NEW c \in Callers, NEW name \in Labels, RemoveEntry(c, name)
    PROVE  \E m \in Listed :
              /\ block[m].name = name /\ Listed' = Listed \ {m}
              /\ block' \in [Blocks -> Entries \cup {NoEntry}]
              /\ \A n \in Listed' : block'[n] = block[n]
              /\ chain' \in Seq(Blocks)
              /\ \A i, j \in 1..Len(chain') : chain'[i] = chain'[j] => i = j
<1> USE DEF DbInv, ChainOK
<1> DEFINE k == Named(name)
           m == chain[k]
<1>0. chain \in Seq(Blocks) /\ Len(chain) \in Nat
  OBVIOUS
<1>1. k \in 1..Len(chain) /\ block[m].name = name
  BY FoundName DEF RemoveEntry
<1>2. chain' = RemoveAt(chain, k) /\ block' = Kept(chain')
  BY DEF RemoveEntry, Without
<1> HIDE DEF k
<1>3. chain' \in Seq(Blocks) /\ Len(chain') = Len(chain) - 1
  BY <1>0, <1>1, <1>2, WithoutOne
<1>4. \A i \in 1..Len(chain') : chain'[i] = IF i < k THEN chain[i] ELSE chain[i + 1]
  BY <1>0, <1>1, <1>2, <1>3, WithoutOne
<1>5. m \in Listed
  BY <1>0, <1>1, ListedAt
<1>6. \A n : n \in Listed' <=> \E i \in 1..Len(chain') : chain'[i] = n
  <2>1. DOMAIN chain' = 1..Len(chain')
    BY <1>3
  <2>2. QED BY <2>1 DEF Listed, Range
<1>7. ASSUME NEW n \in Listed' PROVE n \in Listed /\ n # m
  <2>1. PICK i \in 1..Len(chain') : chain'[i] = n
    BY <1>6
  <2>2. PICK j \in 1..Len(chain) : j # k /\ chain[j] = n
    <3>1. CASE i < k
      BY <1>0, <1>1, <1>3, <1>4, <2>1, <3>1
    <3>2. CASE ~(i < k)
      <4>1. i + 1 \in 1..Len(chain) /\ i + 1 # k /\ chain[i + 1] = n
        BY <1>0, <1>1, <1>3, <1>4, <2>1, <3>2
      <4>2. QED BY <4>1
    <3>3. QED BY <3>1, <3>2
  <2>3. n \in Listed
    BY <1>0, <2>2, ListedAt
  <2>4. n # m
    BY <1>1, <2>2
  <2>5. QED BY <2>3, <2>4
<1>8. ASSUME NEW n \in Listed, n # m PROVE n \in Listed'
  <2>1. PICK j \in 1..Len(chain) : chain[j] = n
    BY <1>0, ListedAt
  <2>2. CASE j < k
    <3>1. j \in 1..Len(chain') /\ chain'[j] = n
      BY <1>0, <1>1, <1>3, <1>4, <2>1, <2>2
    <3>2. QED BY <1>6, <3>1
  <2>3. CASE ~(j < k)
    <3>0. j # k
      BY <1>8, <2>1
    <3>1. j - 1 \in 1..Len(chain') /\ ~(j - 1 < k) /\ (j - 1) + 1 = j
      BY <1>0, <1>1, <1>3, <2>1, <2>3, <3>0
    <3>2. chain'[j - 1] = n
      BY <1>4, <2>1, <3>1
    <3>3. QED BY <1>6, <3>1, <3>2
  <2>4. QED BY <2>2, <2>3
<1>9. Listed' = Listed \ {m}
  BY <1>7, <1>8, Zenon
<1>10. \A i, j \in 1..Len(chain') : chain'[i] = chain'[j] => i = j
  <2> SUFFICES ASSUME NEW i \in 1..Len(chain'), NEW j \in 1..Len(chain'), chain'[i] = chain'[j]
               PROVE  i = j
    OBVIOUS
  <2> DEFINE p == IF i < k THEN i ELSE i + 1
             q == IF j < k THEN j ELSE j + 1
  <2>1. p \in 1..Len(chain) /\ q \in 1..Len(chain)
    BY <1>0, <1>1, <1>3
  <2>2. chain[p] = chain[q]
    BY <1>4
  <2>3. p = q
    <3> HIDE DEF p, q
    <3> QED BY <2>1, <2>2
  <2>4. QED BY <1>1, <2>3
<1>11. \A n \in Blocks : block'[n] = IF n \in Listed' THEN block[n] ELSE NoEntry
  BY <1>2 DEF Kept, Listed
<1>12. block' \in [Blocks -> Entries \cup {NoEntry}]
  <2>1. block' = [n \in Blocks |-> IF n \in Listed' THEN block[n] ELSE NoEntry]
    BY <1>2 DEF Kept, Listed
  <2>2. QED BY <2>1
<1>13. \A n \in Listed' : block'[n] = block[n]
  <2>1. Listed \subseteq Blocks
    BY <1>0, ListedAt
  <2>2. QED BY <1>9, <1>11, <2>1
<1>14. QED BY <1>1, <1>3, <1>5, <1>9, <1>10, <1>12, <1>13

LEMMA AddKeeps == ASSUME DbInv, NEW c \in Callers, Add(c) PROVE DbInv'
<1> DEFINE e == EntryOf(c)
           name == asked[c].name
<1>1. PICK m \in Blocks :
              /\ block' = [block EXCEPT ![m] = e] /\ Listed' = Listed \cup {m}
              /\ \A n \in Listed : block[n].name = name <=> n = m
              /\ chain' \in Seq(Blocks)
              /\ \A i, j \in 1..Len(chain') : chain'[i] = chain'[j] => i = j
  BY AddWrites
<1>2. /\ place[c] = "add" /\ place' = [place EXCEPT ![c] = "idle"]
      /\ asked' = [asked EXCEPT ![c] = NoCall] /\ made' = [made EXCEPT ![c] = NoHash]
      /\ recorded' = [recorded EXCEPT ![name] = e]
      /\ quiet' = [d \in Callers |-> quiet[d] /\ ~(Verifying(d) /\ asked[d].name = name)]
      /\ at' = at /\ misjudged' = misjudged /\ misused' = misused /\ misused = {}
  BY DEF Add, Returns, Goes, Disturb
<1>3. asked[c] \in Calls /\ made[c] \in HashValues /\ made[c].alg = asked[c].alg
  BY <1>2 DEF DbInv, CallsOK
<1>4. e \in Entries /\ e.name = name /\ e.hash.alg = e.alg /\ name \in Labels
  BY <1>3 DEF EntryOf, Entries, Calls
<1> HIDE DEF e
<1>5. \A n \in Blocks : block'[n] = IF n = m THEN e ELSE block[n]
  BY <1>1 DEF DbInv, ChainOK
<1>6. Listed \subseteq Blocks
  BY ListedAt DEF DbInv, ChainOK
<1>7. ChainOK'
  <2>1. block' \in [Blocks -> Entries \cup {NoEntry}]
    BY <1>1, <1>4 DEF DbInv, ChainOK
  <2>2. \A n \in Listed' : block'[n] \in Entries
    BY <1>1, <1>4, <1>5, <1>6 DEF DbInv, ChainOK
  <2>3. QED BY <1>1, <2>1, <2>2 DEF ChainOK
<1>8. CallsOK'
  BY <1>2 DEF DbInv, CallsOK, NoCall, Verifying
<1>9. HistoryOK'
  <2>1. quiet' \in [Callers -> BOOLEAN]
    BY <1>2
  <2>2. recorded' \in [Labels -> Entries \cup {NoEntry}]
    BY <1>2, <1>4 DEF DbInv, HistoryOK
  <2>3. QED BY <2>1, <2>2 DEF HistoryOK
<1>10. RecordsListed'
  <2>0. \A l \in Labels : recorded'[l] = IF l = name THEN e ELSE recorded[l]
    BY <1>2 DEF DbInv, HistoryOK
  <2>1. \A n \in Listed : block[n].name \in Labels
    BY DEF DbInv, ChainOK, Entries
  <2>2. \A n \in Listed' : n # m => n \in Listed /\ block'[n] = block[n] /\ block[n].name # name
    BY <1>1, <1>5, <1>6
  <2>3. block'[m] = e /\ m \in Listed'
    BY <1>1, <1>5
  <2>4. \A n \in Listed' : recorded'[block'[n].name] = block'[n] /\ block'[n].hash.alg = block'[n].alg
    BY <1>4, <2>0, <2>1, <2>2, <2>3 DEF DbInv, RecordsListed
  <2>5. \A k, n \in Listed' : block'[k].name = block'[n].name => k = n
    BY <1>4, <2>2, <2>3 DEF DbInv, RecordsListed
  <2>6. ASSUME NEW l \in Labels, recorded'[l] # NoEntry PROVE \E n \in Listed' : block'[n].name = l
    <3>1. CASE l = name
      BY <1>4, <2>3, <3>1
    <3>2. CASE l # name
      <4>1. PICK n \in Listed : block[n].name = l
        BY <2>0, <2>6, <3>2 DEF DbInv, RecordsListed
      <4>2. n # m
        BY <1>1, <3>2, <4>1
      <4>3. QED BY <1>1, <1>5, <1>6, <4>1, <4>2
    <3>3. QED BY <3>1, <3>2
  <2>7. QED BY <2>4, <2>5, <2>6 DEF RecordsListed
<1>11. PeaceHolds'
  <2> SUFFICES ASSUME NEW d \in Callers, Verifying(d)', quiet'[d] PROVE InPeace(d)'
    BY DEF PeaceHolds
  <2>1. /\ d # c /\ place'[d] = place[d] /\ asked'[d] = asked[d] /\ made'[d] = made[d]
        /\ Verifying(d)
    BY <1>2 DEF DbInv, CallsOK, Verifying
  <2>2. quiet[d] /\ asked[d].name # name
    <3>1. quiet'[d] = (quiet[d] /\ ~(Verifying(d) /\ asked[d].name = name))
      BY <1>2, Zenon
    <3>2. QED BY <2>1, <3>1, Zenon
  <2>3. InPeace(d)
    BY <2>1, <2>2, Zenon DEF DbInv, PeaceHolds
  <2>4. at[d] \in Listed /\ at[d] # m /\ block'[at[d]] = block[at[d]]
    BY <1>1, <1>5, <1>6, <2>2, <2>3 DEF InPeace
  <2>5. QED BY <1>1, <1>2, <2>1, <2>3, <2>4 DEF InPeace
<1>12. VerdictRight'
  BY <1>2 DEF DbInv, VerdictRight
<1>13. QED BY <1>7, <1>8, <1>9, <1>10, <1>11, <1>12 DEF DbInv

LEMMA RemoveKeeps ==
    ASSUME DbInv, NEW c \in Callers, NEW name \in Labels, RemoveEntry(c, name) PROVE DbInv'
<1>1. PICK m \in Listed :
              /\ block[m].name = name /\ Listed' = Listed \ {m}
              /\ block' \in [Blocks -> Entries \cup {NoEntry}]
              /\ \A n \in Listed' : block'[n] = block[n]
              /\ chain' \in Seq(Blocks)
              /\ \A i, j \in 1..Len(chain') : chain'[i] = chain'[j] => i = j
  BY RemoveWrites
<1>2. /\ recorded' = [recorded EXCEPT ![name] = NoEntry]
      /\ quiet' = [d \in Callers |-> quiet[d] /\ ~(Verifying(d) /\ asked[d].name = name)]
      /\ UNCHANGED <<place, asked, made, at, misjudged, misused>> /\ misused = {}
  BY DEF RemoveEntry, Idle, Disturb
<1>3. ChainOK'
  BY <1>1 DEF DbInv, ChainOK
<1>4. CallsOK'
  BY <1>2 DEF DbInv, CallsOK, Verifying
<1>5. HistoryOK'
  <2>1. quiet' \in [Callers -> BOOLEAN]
    BY <1>2
  <2>2. recorded' \in [Labels -> Entries \cup {NoEntry}]
    BY <1>2 DEF DbInv, HistoryOK
  <2>3. QED BY <2>1, <2>2 DEF HistoryOK
<1>6. RecordsListed'
  <2>0. \A l \in Labels : recorded'[l] = IF l = name THEN NoEntry ELSE recorded[l]
    BY <1>2 DEF DbInv, HistoryOK
  <2>1. \A n \in Listed : block[n].name \in Labels
    BY DEF DbInv, ChainOK, Entries
  <2>2. \A n \in Listed' : n \in Listed /\ block'[n] = block[n] /\ block[n].name # name
    BY <1>1 DEF DbInv, RecordsListed
  <2>3. \A n \in Listed' : recorded'[block'[n].name] = block'[n] /\ block'[n].hash.alg = block'[n].alg
    BY <2>0, <2>1, <2>2 DEF DbInv, RecordsListed
  <2>4. \A k, n \in Listed' : block'[k].name = block'[n].name => k = n
    BY <2>2 DEF DbInv, RecordsListed
  <2>5. ASSUME NEW l \in Labels, recorded'[l] # NoEntry PROVE \E n \in Listed' : block'[n].name = l
    <3>1. l # name /\ recorded[l] # NoEntry
      BY <2>0, <2>5
    <3>2. PICK n \in Listed : block[n].name = l
      BY <3>1 DEF DbInv, RecordsListed
    <3>3. QED BY <1>1, <3>1, <3>2
  <2>6. QED BY <2>3, <2>4, <2>5 DEF RecordsListed
<1>7. PeaceHolds'
  <2> SUFFICES ASSUME NEW d \in Callers, Verifying(d)', quiet'[d] PROVE InPeace(d)'
    BY DEF PeaceHolds
  <2>1. Verifying(d)
    BY <1>2 DEF Verifying
  <2>2. quiet[d] /\ asked[d].name # name
    <3>1. quiet'[d] = (quiet[d] /\ ~(Verifying(d) /\ asked[d].name = name))
      BY <1>2, Zenon
    <3>2. QED BY <2>1, <3>1, Zenon
  <2>3. InPeace(d)
    BY <2>1, <2>2, Zenon DEF DbInv, PeaceHolds
  <2>4. at[d] \in Listed' /\ block'[at[d]] = block[at[d]]
    BY <1>1, <2>2, <2>3 DEF InPeace
  <2>5. QED BY <1>2, <2>3, <2>4 DEF InPeace
<1>8. VerdictRight'
  BY <1>2 DEF DbInv, VerdictRight
<1>9. QED BY <1>3, <1>4, <1>5, <1>6, <1>7, <1>8 DEF DbInv

LEMMA ShutdownKeeps == ASSUME DbInv, ShutdownDb PROVE DbInv'
<1>1. /\ chain' = <<>> /\ block' = Kept(<<>>) /\ recorded' = [n \in Labels |-> NoEntry]
      /\ UNCHANGED <<place, asked, made, at, quiet, misjudged, misused>>
      /\ \A c \in Callers : place[c] = "idle"
  BY DEF ShutdownDb, Idle
<1>2. Listed' = {}
  BY <1>1 DEF Listed, Range
<1>3. block' = [n \in Blocks |-> NoEntry]
  BY <1>1 DEF Kept, Range
<1>4. ChainOK'
  BY <1>1, <1>2, <1>3 DEF ChainOK
<1>5. CallsOK' /\ VerdictRight'
  BY <1>1 DEF DbInv, CallsOK, Verifying, VerdictRight
<1>6. HistoryOK'
  BY <1>1 DEF DbInv, HistoryOK
<1>7. RecordsListed'
  BY <1>1, <1>2 DEF RecordsListed
<1>8. PeaceHolds'
  BY <1>1 DEF PeaceHolds, Verifying
<1>9. QED BY <1>4, <1>5, <1>6, <1>7, <1>8 DEF DbInv

(* A call that writes nothing into the database keeps what it holds.         *)
LEMMA DatabaseKept ==
    ASSUME DbInv, UNCHANGED <<chain, block, recorded>>
    PROVE  ChainOK' /\ RecordsListed' /\ Listed' = Listed
BY DEF DbInv, ChainOK, RecordsListed, Listed

(* The verifications of the others are what they were.                       *)
LEMMA OthersInPeace ==
    ASSUME DbInv, UNCHANGED <<chain, block>>, NEW d \in Callers,
           place'[d] = place[d], asked'[d] = asked[d], made'[d] = made[d], at'[d] = at[d],
           quiet'[d] = quiet[d], Verifying(d)', quiet'[d]
    PROVE  InPeace(d)'
<1>1. Verifying(d) /\ quiet[d]
  BY Zenon DEF Verifying
<1>2. InPeace(d)
  BY <1>1, Zenon DEF DbInv, PeaceHolds
<1>3. QED BY <1>2 DEF InPeace, Listed

LEMMA AddCallKeeps ==
    ASSUME DbInv, NEW c \in Callers, NEW call \in Calls, NEW bytes \in Contents,
           AddCall(c, call, bytes)
    PROVE  DbInv'
<1>1. /\ place' = [place EXCEPT ![c] = "add"] /\ asked' = [asked EXCEPT ![c] = call]
      /\ made' = [made EXCEPT ![c] = Hash(call.alg, bytes)]
      /\ UNCHANGED <<chain, block, at, quiet, recorded, misjudged, misused>>
  BY DEF AddCall, Goes
<1>2. Hash(call.alg, bytes) \in HashValues /\ Hash(call.alg, bytes).alg = call.alg
  BY DEF Calls, Hash, HashValues
<1>3. call \in [name : Labels \cup {Nil}, extent : Extents \cup {Nil}, alg : Algorithms \cup {Nil}]
  BY DEF Calls
<1>4. CallsOK'
  <2>1. asked' \in [Callers -> [name : Labels \cup {Nil}, extent : Extents \cup {Nil}, alg : Algorithms \cup {Nil}]]
    BY <1>1, <1>3 DEF DbInv, CallsOK
  <2>2. QED BY <1>1, <1>2, <2>1 DEF DbInv, CallsOK, Verifying
<1>5. PeaceHolds'
  <2> SUFFICES ASSUME NEW d \in Callers, Verifying(d)', quiet'[d] PROVE InPeace(d)'
    BY DEF PeaceHolds
  <2>1. d # c /\ place'[d] = place[d] /\ asked'[d] = asked[d] /\ made'[d] = made[d]
    BY <1>1 DEF DbInv, CallsOK, Verifying
  <2>2. QED BY <1>1, <2>1, OthersInPeace
<1>6. HistoryOK' /\ VerdictRight'
  BY <1>1 DEF DbInv, HistoryOK, VerdictRight
<1>7. QED BY <1>1, <1>4, <1>5, <1>6, DatabaseKept DEF DbInv

LEMMA OutOfMemoryKeeps == ASSUME DbInv, NEW c \in Callers, OutOfMemory(c) PROVE DbInv'
<1>1. /\ place' = [place EXCEPT ![c] = "idle"] /\ asked' = [asked EXCEPT ![c] = NoCall]
      /\ made' = [made EXCEPT ![c] = NoHash]
      /\ UNCHANGED <<chain, block, at, quiet, recorded, misjudged, misused>>
  BY DEF OutOfMemory, Returns, Goes
<1>2. CallsOK'
  BY <1>1 DEF DbInv, CallsOK, NoCall, Verifying
<1>3. PeaceHolds'
  <2> SUFFICES ASSUME NEW d \in Callers, Verifying(d)', quiet'[d] PROVE InPeace(d)'
    BY DEF PeaceHolds
  <2>1. d # c /\ place'[d] = place[d] /\ asked'[d] = asked[d] /\ made'[d] = made[d]
    BY <1>1 DEF DbInv, CallsOK, Verifying
  <2>2. QED BY <1>1, <2>1, OthersInPeace
<1>4. HistoryOK' /\ VerdictRight'
  BY <1>1 DEF DbInv, HistoryOK, VerdictRight
<1>5. QED BY <1>1, <1>2, <1>3, <1>4, DatabaseKept DEF DbInv

LEMMA FindKeeps ==
    ASSUME DbInv, NEW c \in Callers, NEW name \in Labels, NEW extent \in Extents, Find(c, name, extent)
    PROVE  DbInv'
<1> DEFINE n == chain[Named(name)]
           call == [NoCall EXCEPT !.name = name, !.extent = extent]
<1>1. /\ place[c] = "idle" /\ place' = [place EXCEPT ![c] = "check"]
      /\ asked' = [asked EXCEPT ![c] = call] /\ at' = [at EXCEPT ![c] = n]
      /\ UNCHANGED <<chain, block, made, quiet, recorded, misjudged, misused>>
  BY DEF Find, Idle, Goes
<1>2. n \in Listed /\ block[n].name = name /\ n \in Blocks
  <2>1. Named(name) \in 1..Len(chain) /\ block[n].name = name
    BY FoundName DEF Find, DbInv
  <2>2. chain \in Seq(Blocks)
    BY DEF DbInv, ChainOK
  <2>3. QED BY <2>1, <2>2, ListedAt
<1>3. /\ call \in [name : Labels \cup {Nil}, extent : Extents \cup {Nil}, alg : Algorithms \cup {Nil}]
      /\ call.name = name
  BY DEF NoCall
<1> HIDE DEF n, call
<1>4. CallsOK'
  <2>1. asked' \in [Callers -> [name : Labels \cup {Nil}, extent : Extents \cup {Nil}, alg : Algorithms \cup {Nil}]]
    BY <1>1, <1>3 DEF DbInv, CallsOK
  <2>2. at' \in [Callers -> Blocks \cup {Nil}] /\ asked'[c].name = name
    BY <1>1, <1>2, <1>3 DEF DbInv, CallsOK
  <2>3. QED BY <1>1, <2>1, <2>2 DEF DbInv, CallsOK, Verifying
<1>5. PeaceHolds'
  <2> SUFFICES ASSUME NEW d \in Callers, Verifying(d)', quiet'[d] PROVE InPeace(d)'
    BY DEF PeaceHolds
  <2>1. CASE d = c
    <3>1. place'[c] = "check" /\ asked'[c].name = name /\ at'[c] = n
      BY <1>1, <1>3 DEF DbInv, CallsOK
    <3>2. QED BY <1>1, <1>2, <2>1, <3>1, DatabaseKept DEF InPeace
  <2>2. CASE d # c
    <3>1. place'[d] = place[d] /\ asked'[d] = asked[d] /\ made'[d] = made[d] /\ at'[d] = at[d]
      BY <1>1, <2>2 DEF DbInv, CallsOK
    <3>2. QED BY <1>1, <3>1, OthersInPeace
  <2>3. QED BY <2>1, <2>2
<1>6. HistoryOK' /\ VerdictRight'
  BY <1>1 DEF DbInv, HistoryOK, VerdictRight
<1>7. QED BY <1>1, <1>4, <1>5, <1>6, DatabaseKept DEF DbInv

LEMMA FindNothingKeeps ==
    ASSUME DbInv, NEW c \in Callers, NEW name \in Labels, FindNothing(c, name)
    PROVE  DbInv'
<1>1. UNCHANGED <<chain, block, place, asked, made, at, quiet, recorded, misused>>
  BY DEF FindNothing
<1>2. \A n \in Listed : block[n].name # name
  <2>1. chain \in Seq(Blocks) /\ 0 \notin 1..Len(chain)
    BY DEF DbInv, ChainOK
  <2>2. QED BY <2>1, FoundName DEF FindNothing, DbInv
<1>3. recorded[name] = NoEntry
  BY <1>2 DEF DbInv, RecordsListed
<1>4. VerdictRight'
  BY <1>1, <1>3 DEF FindNothing, DbInv, VerdictRight
<1>5. PeaceHolds'
  BY <1>1 DEF DbInv, PeaceHolds, InPeace, Verifying, Listed
<1>6. CallsOK' /\ HistoryOK'
  BY <1>1 DEF DbInv, CallsOK, HistoryOK, Verifying
<1>7. QED BY <1>1, <1>4, <1>5, <1>6, DatabaseKept DEF DbInv

LEMMA DanglingKeeps == ASSUME DbInv, NEW c \in Callers, Dangling(c) PROVE DbInv'
<1>1. /\ UNCHANGED <<chain, block, place, asked, made, at, quiet, recorded, misjudged>>
      /\ Verifying(c) /\ at[c] \notin Listed /\ misused' = {c}
  BY DEF Dangling
<1>2. ~quiet[c]
  <2>1. ~InPeace(c)
    BY <1>1 DEF InPeace
  <2>2. QED BY <1>1, <2>1, Zenon DEF DbInv, PeaceHolds
<1>3. VerdictRight'
  <2>1. \A d \in misused' : d = c
    BY <1>1
  <2>2. misjudged' = {} /\ quiet' = quiet
    BY <1>1 DEF DbInv, VerdictRight
  <2>3. QED BY <1>2, <2>1, <2>2, Zenon DEF VerdictRight
<1>4. PeaceHolds'
  BY <1>1 DEF DbInv, PeaceHolds, InPeace, Verifying, Listed
<1>5. CallsOK' /\ HistoryOK'
  BY <1>1 DEF DbInv, CallsOK, HistoryOK, Verifying
<1>6. QED BY <1>1, <1>3, <1>4, <1>5, DatabaseKept DEF DbInv

(* A verdict of one left in peace is true.                                   *)
LEMMA VerdictKeeps ==
    ASSUME DbInv, NEW c \in Callers, NEW v, Verdict(c, v), misused = {}, quiet[c] => v = Truth(c)
    PROVE  DbInv'
<1>1. /\ place' = [place EXCEPT ![c] = "idle"] /\ asked' = [asked EXCEPT ![c] = NoCall]
      /\ made' = [made EXCEPT ![c] = NoHash] /\ at' = [at EXCEPT ![c] = Nil]
      /\ quiet' = [quiet EXCEPT ![c] = TRUE]
      /\ UNCHANGED <<chain, block, recorded, misused>>
  BY DEF Verdict, Returns, Goes
<1>2. misjudged' = misjudged
  <2>1. misjudged' = IF quiet[c] /\ v # Truth(c) THEN misjudged \cup {c} ELSE misjudged
    BY DEF Verdict
  <2>2. ~(quiet[c] /\ v # Truth(c))
    BY Zenon
  <2>3. QED BY <2>1, <2>2, Zenon
<1>3. CallsOK'
  BY <1>1 DEF DbInv, CallsOK, NoCall, Verifying
<1>4. PeaceHolds'
  <2> SUFFICES ASSUME NEW d \in Callers, Verifying(d)', quiet'[d] PROVE InPeace(d)'
    BY DEF PeaceHolds
  <2>1. d # c
    BY <1>1 DEF DbInv, CallsOK, Verifying
  <2>2. place'[d] = place[d] /\ asked'[d] = asked[d] /\ made'[d] = made[d] /\ at'[d] = at[d]
    BY <1>1, <2>1 DEF DbInv, CallsOK
  <2>3. quiet'[d] = quiet[d]
    BY <1>1, <2>1, Zenon DEF DbInv, HistoryOK
  <2>4. QED BY <1>1, <2>2, <2>3, OthersInPeace
<1>5. HistoryOK'
  BY <1>1 DEF DbInv, HistoryOK
<1>6. VerdictRight'
  BY <1>1, <1>2 DEF DbInv, VerdictRight
<1>7. QED BY <1>1, <1>3, <1>4, <1>5, <1>6, DatabaseKept DEF DbInv

(* What it points at is the entry recorded under its name.                   *)
LEMMA PointsAtRecord ==
    ASSUME DbInv, NEW c \in Callers, Verifying(c), quiet[c]
    PROVE  recorded[asked[c].name] = block[at[c]] /\ InPeace(c)
<1>1. InPeace(c)
  BY Zenon DEF DbInv, PeaceHolds
<1>2. recorded[block[at[c]].name] = block[at[c]]
  BY <1>1 DEF InPeace, DbInv, RecordsListed
<1>3. QED BY <1>1, <1>2 DEF InPeace

LEMMA MismatchKeeps == ASSUME DbInv, NEW c \in Callers, Mismatch(c) PROVE DbInv'
<1>1. misused = {} /\ place[c] = "check" /\ block[at[c]].extent # asked[c].extent /\ Verdict(c, FALSE)
  BY DEF Mismatch, Reading, Matches
<1>2. ASSUME quiet[c] PROVE FALSE = Truth(c)
  <2>1. Verifying(c)
    BY <1>1 DEF Verifying
  <2>2. recorded[asked[c].name] = block[at[c]]
    BY <1>2, <2>1, PointsAtRecord
  <2>3. ~Truth(c)
    BY <1>1, <2>2 DEF Truth
  <2>4. QED BY <2>3 DEF Truth
<1>3. QED BY <1>1, <1>2, VerdictKeeps

LEMMA CompareKeeps == ASSUME DbInv, NEW c \in Callers, Compare(c) PROVE DbInv'
<1> DEFINE v == made[c] = block[at[c]].hash
<1>1. misused = {} /\ place[c] = "compare" /\ Verdict(c, v)
  BY DEF Compare, Reading
<1>2. ASSUME quiet[c] PROVE v = Truth(c)
  <2>1. Verifying(c)
    BY <1>1 DEF Verifying
  <2>2. recorded[asked[c].name] = block[at[c]] /\ InPeace(c)
    BY <1>2, <2>1, PointsAtRecord
  <2>3. /\ block[at[c]] \in Entries /\ block[at[c]].extent = asked[c].extent
        /\ made[c] \in HashValues /\ made[c].alg = block[at[c]].hash.alg
    BY <1>1, <2>2 DEF InPeace, DbInv, ChainOK, CallsOK, RecordsListed
  <2>4. block[at[c]].hash \in HashValues
    BY <2>3 DEF Entries
  <2>5. made[c] # NoHash
    BY <2>3, HashDbAssumption DEF HashDbAssumption, NoHash, Hash, HashValues
  <2>6. made[c] = block[at[c]].hash <=> made[c].bytes = block[at[c]].hash.bytes
    BY <2>3, <2>4 DEF HashValues
  <2>7. Truth(c) <=> block[at[c]].hash.bytes = made[c].bytes
    BY <2>2, <2>3, <2>5 DEF Truth
  <2>8. v <=> Truth(c)
    BY <2>6, <2>7
  <2>9. QED BY <2>8 DEF Truth
<1> HIDE DEF v
<1>3. QED BY <1>1, <1>2, VerdictKeeps

LEMMA CheckKeeps == ASSUME DbInv, NEW c \in Callers, Check(c) PROVE DbInv'
<1>1. /\ place[c] = "check" /\ block[at[c]].extent = asked[c].extent
      /\ place' = [place EXCEPT ![c] = "compute"]
      /\ UNCHANGED <<chain, block, asked, made, at, quiet, recorded, misjudged, misused>>
  BY DEF Check, Reading, Matches, Goes
<1>2. CallsOK'
  BY <1>1 DEF DbInv, CallsOK, Verifying
<1>3. PeaceHolds'
  <2> SUFFICES ASSUME NEW d \in Callers, Verifying(d)', quiet'[d] PROVE InPeace(d)'
    BY DEF PeaceHolds
  <2>1. CASE d = c
    <3>1. Verifying(c) /\ quiet[c]
      BY <1>1, <2>1, Zenon DEF Verifying
    <3>2. InPeace(c)
      BY <3>1, PointsAtRecord
    <3>3. QED BY <1>1, <2>1, <3>2 DEF InPeace, Listed, DbInv, CallsOK
  <2>2. CASE d # c
    <3>1. place'[d] = place[d]
      BY <1>1, <2>2 DEF DbInv, CallsOK
    <3>2. QED BY <1>1, <3>1, OthersInPeace
  <2>3. QED BY <2>1, <2>2
<1>4. HistoryOK' /\ VerdictRight'
  BY <1>1 DEF DbInv, HistoryOK, VerdictRight
<1>5. QED BY <1>1, <1>2, <1>3, <1>4, DatabaseKept DEF DbInv

LEMMA ComputeKeeps ==
    ASSUME DbInv, NEW c \in Callers, NEW bytes \in Contents, Compute(c, bytes) PROVE DbInv'
<1> DEFINE h == Hash(block[at[c]].alg, bytes)
<1>1. /\ place[c] = "compute" /\ at[c] \in Listed
      /\ place' = [place EXCEPT ![c] = "compare"] /\ made' = [made EXCEPT ![c] = h]
      /\ UNCHANGED <<chain, block, asked, at, quiet, recorded, misjudged, misused>>
  BY DEF Compute, Reading, Goes
<1>2. h \in HashValues /\ h.alg = block[at[c]].alg
  <2>1. block[at[c]] \in Entries
    BY <1>1 DEF DbInv, ChainOK
  <2>2. QED BY <2>1 DEF Entries, Hash, HashValues
<1> HIDE DEF h
<1>3. CallsOK'
  BY <1>1, <1>2 DEF DbInv, CallsOK, Verifying
<1>4. PeaceHolds'
  <2> SUFFICES ASSUME NEW d \in Callers, Verifying(d)', quiet'[d] PROVE InPeace(d)'
    BY DEF PeaceHolds
  <2>1. CASE d = c
    <3>1. Verifying(c) /\ quiet[c]
      BY <1>1, <2>1, Zenon DEF Verifying
    <3>2. InPeace(c)
      BY <3>1, PointsAtRecord
    <3>3. QED BY <1>1, <1>2, <2>1, <3>2 DEF InPeace, Listed, DbInv, CallsOK
  <2>2. CASE d # c
    <3>1. place'[d] = place[d] /\ made'[d] = made[d]
      BY <1>1, <2>2 DEF DbInv, CallsOK
    <3>2. QED BY <1>1, <3>1, OthersInPeace
  <2>3. QED BY <2>1, <2>2
<1>5. HistoryOK' /\ VerdictRight'
  BY <1>1 DEF DbInv, HistoryOK, VerdictRight
<1>6. QED BY <1>1, <1>3, <1>4, <1>5, DatabaseKept DEF DbInv

LEMMA DbStep == DbInv /\ [DbNext]_dbVars => DbInv'
<1> SUFFICES ASSUME DbInv, [DbNext]_dbVars PROVE DbInv'
  OBVIOUS
<1>1. ASSUME NEW c \in Callers, DbCaller(c) PROVE DbInv'
  BY <1>1, AddCallKeeps, AddKeeps, OutOfMemoryKeeps, RemoveKeeps, FindNothingKeeps, FindKeeps,
     DanglingKeeps, MismatchKeeps, CheckKeeps, ComputeKeeps, CompareKeeps, Zenon DEF DbCaller
<1>2. CASE UNCHANGED dbVars
  <2>1. UNCHANGED <<chain, block, place, asked, made, at, quiet, recorded, misjudged, misused>>
    BY <1>2 DEF dbVars
  <2>2. CallsOK' /\ HistoryOK' /\ VerdictRight'
    BY <2>1 DEF DbInv, CallsOK, HistoryOK, VerdictRight, Verifying
  <2>3. PeaceHolds'
    BY <2>1 DEF DbInv, PeaceHolds, InPeace, Verifying, Listed
  <2>4. QED BY <2>1, <2>2, <2>3, DatabaseKept DEF DbInv
<1>3. QED BY <1>1, <1>2, ShutdownKeeps, Zenon DEF DbNext

LEMMA DbStart == DbInit => DbInv
<1> SUFFICES ASSUME DbInit PROVE DbInv
  OBVIOUS
<1>1. Listed = {}
  BY DEF DbInit, Listed, Range
<1>2. ChainOK /\ RecordsListed
  BY <1>1 DEF DbInit, ChainOK, RecordsListed
<1>3. CallsOK /\ HistoryOK /\ PeaceHolds /\ VerdictRight
  BY DEF DbInit, CallsOK, HistoryOK, PeaceHolds, VerdictRight, Verifying, NoCall
<1>4. QED BY <1>2, <1>3 DEF DbInv

(* A verification of the hash database whose entry nobody changes meanwhile  *)
(* tells the truth about it and reads no freed block, whatever other threads *)
(* add, update, remove and free, and however blocks are used again.          *)
THEOREM HashVerdicts == DbSpec => []VerdictRight
<1>1. DbInv => VerdictRight
  BY DEF DbInv
<1>2. QED BY <1>1, DbStart, DbStep, PTL DEF DbSpec

-----------------------------------------------------------------------------
(* The checksum database *)

(* What a call has in its hands at each stage, and where it may be while the *)
(* array is not initialised.                                                *)
StagesOK ==
    /\ \A t \in Threads :
          /\ stage[t] # "idle" => goal[t].path \in Paths
          /\ stage[t] \in {"search", "claim", "name", "fill"} => ~goal[t].verify
          /\ stage[t] \notin {"idle", "look", "judge"} /\ ~goal[t].verify => goal[t].hash \in Versions
          /\ stage[t] = "wipe" => ~ready
          /\ ~ready => stage[t] \in {"idle", "clear", "wipe"}
    /\ ~ready => \A p \in Paths : known[p] = Absent

OneWriter == \A t, u \in Threads : stage[t] \in Writing /\ stage[u] \in Writing => t = u

(* Once initialised, the array holds each path once, and the valid entries   *)
(* are what is known.                                                       *)
ArrayOK ==
    ready =>
        /\ \A i, j \in Slots : table[i].path = table[j].path /\ table[i].path # Absent => i = j
        /\ \A i \in Slots : table[i].valid =>
              table[i].path # Absent /\ table[i].hash = known[table[i].path] /\ table[i].hash # Absent
        /\ \A p \in Paths : known[p] # Absent => \E i \in Slots : table[i].path = p /\ table[i].valid

(* What a search found stays so until the call has used it.                  *)
SearchHolds == \A t \in Threads :
    /\ stage[t] \in {"claim", "name"} => \A i \in Slots : table[i].path # goal[t].path
    /\ stage[t] = "name" => slot[t] \in Slots /\ table[slot[t]].path = Absent
    /\ stage[t] = "fill" => slot[t] \in Slots /\ table[slot[t]].path = goal[t].path
    /\ stage[t] = "judge" =>
          slot[t] \in Slots /\ table[slot[t]].path = goal[t].path /\ table[slot[t]].valid

Peaceful == StagesOK /\ OneWriter /\ ArrayOK /\ SearchHolds /\ wrong = {}

SumInv == SumTypeOK /\ (alone => Peaceful)

SlotEntries == [path : Paths \cup {Absent}, hash : Versions \cup {Absent}, valid : BOOLEAN]
Goals == [path : Paths \cup {Absent}, hash : Versions \cup {Absent}, verify : BOOLEAN]

LEMMA LeastSlot ==
    ASSUME NEW I, I \subseteq Slots, I # {}
    PROVE  Min(I) \in I
BY LeastOf, ChecksumAssumption DEF ChecksumAssumption

LEMMA MovesTypes ==
    ASSUME SumTypeOK, NEW t \in Threads, NEW from, NEW to, Moves(t, from, to),
           to \in {"idle", "clear", "look", "judge"} \cup Writing
    PROVE  /\ stage' \in [Threads -> {"idle", "clear", "look", "judge"} \cup Writing]
           /\ alone' \in BOOLEAN
<1>1. stage' \in [Threads -> {"idle", "clear", "look", "judge"} \cup Writing]
  BY DEF SumTypeOK, Moves
<1>2. alone' \in BOOLEAN
  BY DEF Moves
<1>3. QED BY <1>1, <1>2

LEMMA EndsTypes ==
    ASSUME SumTypeOK, NEW t \in Threads, NEW from, Ends(t, from)
    PROVE  /\ stage' \in [Threads -> {"idle", "clear", "look", "judge"} \cup Writing]
           /\ alone' \in BOOLEAN /\ goal' \in [Threads -> Goals] /\ slot' \in [Threads -> Slots \cup {0}]
<1>1. Moves(t, from, "idle")
  BY DEF Ends
<1>2. NoGoal \in Goals
  BY DEF NoGoal, Goals
<1>3. goal' \in [Threads -> Goals] /\ slot' \in [Threads -> Slots \cup {0}]
  BY <1>2 DEF Ends, SumTypeOK, Goals
<1>4. QED BY <1>1, <1>3, MovesTypes

LEMMA FoundSlots ==
    ASSUME SumTypeOK, NEW t \in Threads
    PROVE  /\ Existing(t) => /\ slot' = [slot EXCEPT ![t] = slot'[t]] /\ slot'[t] \in Slots
                             /\ table[slot'[t]].path = goal[t].path
           /\ Claim(t) => /\ slot' = [slot EXCEPT ![t] = slot'[t]] /\ slot'[t] \in Slots
                          /\ table[slot'[t]].path = Absent
           /\ \A v : Digest(t, v) =>
                 /\ slot' = [slot EXCEPT ![t] = slot'[t]] /\ slot'[t] \in Slots
                 /\ table[slot'[t]].path = goal[t].path /\ table[slot'[t]].valid
<1>1. ASSUME Existing(t)
      PROVE  /\ slot' = [slot EXCEPT ![t] = slot'[t]] /\ slot'[t] \in Slots
             /\ table[slot'[t]].path = goal[t].path
  <2> DEFINE I == {i \in Slots : table[i].path = goal[t].path}
  <2>1. I # {} /\ slot' = [slot EXCEPT ![t] = Min(I)]
    BY <1>1 DEF Existing, First
  <2>2. Min(I) \in I
    <3>1. I \subseteq Slots
      OBVIOUS
    <3> HIDE DEF I
    <3> QED BY <2>1, <3>1, LeastSlot
  <2>3. slot'[t] = Min(I)
    BY <2>1 DEF SumTypeOK
  <2>4. QED BY <2>1, <2>2, <2>3
<1>2. ASSUME Claim(t)
      PROVE  /\ slot' = [slot EXCEPT ![t] = slot'[t]] /\ slot'[t] \in Slots
             /\ table[slot'[t]].path = Absent
  <2> DEFINE I == {i \in Slots : table[i].path = Absent}
  <2>1. I # {} /\ slot' = [slot EXCEPT ![t] = Min(I)]
    BY <1>2 DEF Claim, First
  <2>2. Min(I) \in I
    <3>1. I \subseteq Slots
      OBVIOUS
    <3> HIDE DEF I
    <3> QED BY <2>1, <3>1, LeastSlot
  <2>3. slot'[t] = Min(I)
    BY <2>1 DEF SumTypeOK
  <2>4. QED BY <2>1, <2>2, <2>3
<1>3. ASSUME NEW v, Digest(t, v)
      PROVE  /\ slot' = [slot EXCEPT ![t] = slot'[t]] /\ slot'[t] \in Slots
             /\ table[slot'[t]].path = goal[t].path /\ table[slot'[t]].valid
  <2> DEFINE I == ValidSlots(goal[t].path)
  <2>1. I # {} /\ slot' = [slot EXCEPT ![t] = Min(I)]
    BY <1>3 DEF Digest
  <2>2. Min(I) \in I
    <3>1. I \subseteq Slots
      BY DEF ValidSlots
    <3> HIDE DEF I
    <3> QED BY <2>1, <3>1, LeastSlot
  <2>3. slot'[t] = Min(I)
    BY <2>1 DEF SumTypeOK
  <2>4. slot' = [slot EXCEPT ![t] = slot'[t]] /\ slot'[t] \in I
    BY <2>1, <2>2, <2>3
  <2>5. QED BY <2>4 DEF ValidSlots
<1>4. QED BY <1>1, <1>2, <1>3

LEMMA SumTypesStep == SumTypeOK /\ [SumNext]_sumVars => SumTypeOK'
<1> SUFFICES ASSUME SumTypeOK, [SumNext]_sumVars PROVE SumTypeOK'
  OBVIOUS
<1>0. /\ table \in [Slots -> SlotEntries] /\ goal \in [Threads -> Goals]
      /\ Empty \in SlotEntries
  BY DEF SumTypeOK, SlotEntries, Goals, Empty
<1> DEFINE Parts == /\ ready' \in BOOLEAN /\ alone' \in BOOLEAN /\ wrong' \subseteq Threads
                    /\ table' \in [Slots -> SlotEntries]
                    /\ known' \in [Paths -> Versions \cup {Absent}]
                    /\ stage' \in [Threads -> {"idle", "clear", "look", "judge"} \cup Writing]
                    /\ goal' \in [Threads -> Goals]
                    /\ slot' \in [Threads -> Slots \cup {0}]
<1>00. Parts => SumTypeOK'
  BY DEF SumTypeOK, SlotEntries, Goals
<1>a. Search(TRUE) \in {"look", "search"} /\ Search(FALSE) \in {"look", "search"}
      /\ \A g \in Goals : Search(g.verify) \in {"look", "search"}
  BY DEF Search
<1>b. \A t, x : Judged(t, x, x) => wrong' = wrong
  BY DEF Judged
<1>1. ASSUME NEW t \in Threads, NEW p \in Paths, NEW h \in Versions \cup {Absent}, NEW b \in BOOLEAN,
             SumCall(t, p, h, b)
      PROVE  Parts
  <2> DEFINE to == IF ready THEN Search(b) ELSE "clear"
             g == [path |-> p, hash |-> h, verify |-> b]
  <2>1. to \in {"idle", "clear", "look", "judge"} \cup Writing
    BY DEF Search, Writing
  <2>2. g \in Goals
    BY DEF Goals
  <2>3. Moves(t, "idle", to) /\ goal' = [goal EXCEPT ![t] = g] /\ UNCHANGED <<ready, table, slot, known, wrong>>
    BY <1>1 DEF SumCall
  <2> HIDE DEF to, g
  <2>4. QED BY <1>0, <2>1, <2>2, <2>3, MovesTypes DEF SumTypeOK
<1>2. ASSUME NEW t \in Threads, Clear(t) PROVE Parts
  <2> DEFINE to == IF ready THEN Search(goal[t].verify) ELSE "wipe"
  <2>1. to \in {"idle", "clear", "look", "judge"} \cup Writing
    BY DEF Search, Writing
  <2>2. Moves(t, "clear", to) /\ UNCHANGED <<ready, table, goal, slot, known, wrong>>
    BY <1>2 DEF Clear
  <2> HIDE DEF to
  <2>3. QED BY <1>0, <2>1, <2>2, MovesTypes DEF SumTypeOK
<1>3. ASSUME NEW t \in Threads, Wipe(t) PROVE Parts
  <2> DEFINE to == Search(goal[t].verify)
  <2>1. to \in {"idle", "clear", "look", "judge"} \cup Writing
    BY DEF Search, Writing
  <2>2. /\ Moves(t, "wipe", to) /\ UNCHANGED <<goal, slot, known, wrong>>
        /\ table' = [i \in Slots |-> Empty] /\ ready' = TRUE
    BY <1>3 DEF Wipe
  <2> HIDE DEF to
  <2>3. QED BY <1>0, <2>1, <2>2, MovesTypes DEF SumTypeOK
<1>4. ASSUME NEW t \in Threads, Existing(t) \/ NotThere(t) \/ Claim(t) PROVE Parts
  <2>1. UNCHANGED <<ready, table, goal, known, wrong>>
    BY <1>4 DEF Existing, NotThere, Claim
  <2>2. slot' \in [Threads -> Slots \cup {0}]
    BY <1>4, FoundSlots DEF NotThere, SumTypeOK
  <2>3. stage' \in [Threads -> {"idle", "clear", "look", "judge"} \cup Writing] /\ alone' \in BOOLEAN
    <3>1. \E from, to : Moves(t, from, to) /\ to \in Writing
      BY <1>4 DEF Existing, NotThere, Claim, Writing
    <3>2. QED BY <3>1, MovesTypes
  <2>4. QED BY <1>0, <2>1, <2>2, <2>3 DEF SumTypeOK
<1>5. ASSUME NEW t \in Threads, Name(t) PROVE Parts
  <2>1. "fill" \in Writing
    BY DEF Writing
  <2>2. table' \in [Slots -> SlotEntries]
    <3>1. goal[t].path \in Paths \cup {Absent}
      BY <1>0 DEF Goals
    <3>2. \A i \in Slots : [table[i] EXCEPT !.path = goal[t].path] \in SlotEntries
      BY <1>0, <3>1 DEF SlotEntries
    <3>3. QED BY <1>0, <1>5, <3>2 DEF Name
  <2>3. QED BY <1>0, <1>5, <2>1, <2>2, MovesTypes DEF Name, SumTypeOK
<1>6. ASSUME NEW t \in Threads, Fill(t) PROVE Parts
  <2>1. goal[t].hash \in Versions \cup {Absent}
    BY <1>0 DEF Goals
  <2>2. table' \in [Slots -> SlotEntries]
    <3>1. \A i \in Slots : [table[i] EXCEPT !.hash = goal[t].hash, !.valid = TRUE] \in SlotEntries
      BY <1>0, <2>1 DEF SlotEntries
    <3>2. table' = [table EXCEPT ![slot[t]] = [table[slot[t]] EXCEPT !.hash = goal[t].hash, !.valid = TRUE]]
      BY <1>0, <1>6 DEF Fill, SlotEntries
    <3>3. QED BY <1>0, <3>1, <3>2
  <2>3. known' \in [Paths -> Versions \cup {Absent}]
    BY <1>6, <2>1 DEF Fill, SumTypeOK
  <2>4. QED BY <1>6, <2>2, <2>3, EndsTypes DEF Fill, SumTypeOK
<1>7. ASSUME NEW t \in Threads, Full(t) \/ Missing(t) \/ Unreadable(t) \/ Judge(t) PROVE Parts
  <2>1. wrong' \subseteq Threads
    BY <1>7 DEF Full, Missing, Unreadable, Judge, Judged, SumTypeOK
  <2>2. QED BY <1>0, <1>7, <2>1, EndsTypes DEF Full, Missing, Unreadable, Judge, SumTypeOK
<1>8. ASSUME NEW t \in Threads, NEW v \in Versions, Digest(t, v) PROVE Parts
  <2>1. goal' \in [Threads -> Goals]
    <3>1. [goal[t] EXCEPT !.hash = v] \in Goals
      BY <1>0 DEF Goals
    <3>2. QED BY <1>0, <1>8, <3>1 DEF Digest
  <2>2. slot' \in [Threads -> Slots \cup {0}]
    BY <1>8, FoundSlots DEF SumTypeOK
  <2>3. QED BY <1>0, <1>8, <2>1, <2>2, MovesTypes DEF Digest, SumTypeOK
<1>9. CASE ShutdownSums
  BY <1>0, <1>9 DEF ShutdownSums, SumTypeOK
<1>10. CASE UNCHANGED sumVars
  BY <1>0, <1>10 DEF sumVars, SumTypeOK
<1>11. QED
  <2>1. ASSUME NEW t \in Threads, SumThread(t) PROVE Parts
    <3>1. TRUE \in BOOLEAN /\ FALSE \in BOOLEAN /\ Absent \in Versions \cup {Absent}
          /\ \A v \in Versions : v \in Versions \cup {Absent}
      OBVIOUS
    <3> HIDE DEF Parts
    <3>2. QED BY <2>1, <3>1, <1>1, <1>2, <1>3, <1>4, <1>5, <1>6, <1>7, <1>8, Zenon DEF SumThread
  <2> HIDE DEF Parts
  <2>2. QED BY <1>00, <1>9, <1>10, <2>1, Zenon DEF SumNext

(* A thread that moves where it writes is the only one to write.             *)
LEMMA Moved ==
    ASSUME SumTypeOK, OneWriter, NEW t \in Threads, NEW from, NEW to, Moves(t, from, to), alone'
    PROVE  /\ stage[t] = from /\ stage'[t] = to
           /\ \A u \in Threads : u # t => stage'[u] = stage[u]
           /\ to \in Writing => \A u \in Threads : u # t => stage[u] \notin Writing
           /\ OneWriter'
<1>1. stage[t] = from /\ stage' = [stage EXCEPT ![t] = to]
  BY DEF Moves
<1>2. stage'[t] = to /\ \A u \in Threads : u # t => stage'[u] = stage[u]
  BY <1>1 DEF SumTypeOK
<1>3. to \in Writing => \A u \in Threads : u # t => stage[u] \notin Writing
  <2>1. ~(to \in Writing /\ \E u \in Threads \ {t} : stage[u] \in Writing)
    BY Zenon DEF Moves
  <2>2. QED BY <2>1
<1>4. OneWriter'
  BY <1>2, <1>3 DEF OneWriter, Writing
<1>5. QED BY <1>1, <1>2, <1>3, <1>4

LEMMA EndsMoved ==
    ASSUME SumTypeOK, NEW t \in Threads, NEW from, Ends(t, from)
    PROVE  /\ Moves(t, from, "idle")
           /\ \A u \in Threads : u # t => goal'[u] = goal[u] /\ slot'[u] = slot[u]
BY DEF Ends, SumTypeOK

(* A step that only moves t on, and neither writes the array nor judges.     *)
LEMMA ArrayKept ==
    ASSUME ArrayOK, UNCHANGED <<ready, table, known>> PROVE ArrayOK'
BY DEF ArrayOK

LEMMA PeaceStart ==
    ASSUME SumTypeOK, Peaceful, alone', NEW t \in Threads
    PROVE  /\ \A p \in Paths, h \in Versions \cup {Absent}, b \in BOOLEAN :
                 SumCall(t, p, h, b) /\ (~b => h \in Versions) => Peaceful'
           /\ Clear(t) => Peaceful'
<1>0. ASSUME NEW b \in BOOLEAN
      PROVE  Search(b) \in {"look", "search"} /\ (Search(b) = "search" => ~b) /\ (Search(b) = "look" => b)
  BY DEF Search
<1>1. ASSUME NEW p \in Paths, NEW h \in Versions \cup {Absent}, NEW b \in BOOLEAN,
             SumCall(t, p, h, b), ~b => h \in Versions
      PROVE  Peaceful'
  <2> DEFINE to == IF ready THEN Search(b) ELSE "clear"
             g == [path |-> p, hash |-> h, verify |-> b]
  <2>1. /\ Moves(t, "idle", to) /\ goal' = [goal EXCEPT ![t] = g]
        /\ UNCHANGED <<ready, table, slot, known, wrong>>
    BY <1>1 DEF SumCall
  <2>2. /\ to \in {"clear", "look", "search"} /\ (to = "search" => ~b) /\ (~ready => to = "clear")
    BY <1>0
  <2>3. g.path = p /\ g.hash = h /\ g.verify = b
    OBVIOUS
  <2> HIDE DEF to, g
  <2>4. goal'[t] = g /\ \A u \in Threads : u # t => goal'[u] = goal[u]
    BY <2>1 DEF SumTypeOK
  <2>5. /\ stage'[t] = to /\ \A u \in Threads : u # t => stage'[u] = stage[u]
        /\ OneWriter'
    BY <2>1, Moved DEF Peaceful
  <2>6. StagesOK'
    BY <1>1, <2>1, <2>2, <2>3, <2>4, <2>5 DEF Peaceful, StagesOK
  <2>7. SearchHolds'
    BY <2>1, <2>2, <2>4, <2>5 DEF Peaceful, SearchHolds
  <2>8. QED BY <2>1, <2>5, <2>6, <2>7, ArrayKept DEF Peaceful
<1>2. ASSUME Clear(t) PROVE Peaceful'
  <2> DEFINE to == IF ready THEN Search(goal[t].verify) ELSE "wipe"
  <2>1. Moves(t, "clear", to) /\ UNCHANGED <<ready, table, goal, slot, known, wrong>>
    BY <1>2 DEF Clear
  <2>2. goal[t].verify \in BOOLEAN
    BY DEF SumTypeOK
  <2>3. /\ to \in {"wipe", "look", "search"} /\ (to = "search" => ~goal[t].verify)
        /\ (~ready <=> to = "wipe")
    BY <1>0, <2>2
  <2> HIDE DEF to
  <2>5. /\ stage[t] = "clear" /\ stage'[t] = to /\ \A u \in Threads : u # t => stage'[u] = stage[u]
        /\ OneWriter'
    BY <2>1, Moved DEF Peaceful
  <2>6. StagesOK'
    BY <2>1, <2>3, <2>5 DEF Peaceful, StagesOK
  <2>7. SearchHolds'
    BY <2>1, <2>3, <2>5 DEF Peaceful, SearchHolds
  <2>8. QED BY <2>1, <2>5, <2>6, <2>7, ArrayKept DEF Peaceful
<1>3. QED BY <1>1, <1>2

LEMMA PeaceWipe ==
    ASSUME SumTypeOK, Peaceful, alone', NEW t \in Threads, Wipe(t) PROVE Peaceful'
<1> DEFINE to == Search(goal[t].verify)
<1>1. /\ Moves(t, "wipe", to) /\ UNCHANGED <<goal, slot, known, wrong>>
      /\ table' = [i \in Slots |-> Empty] /\ ready' = TRUE
  BY DEF Wipe
<1>2. to \in {"look", "search"} /\ (to = "search" => ~goal[t].verify)
  <2>1. goal[t].verify \in BOOLEAN
    BY DEF SumTypeOK
  <2>2. QED BY <2>1 DEF Search
<1> HIDE DEF to
<1>3. /\ stage[t] = "wipe" /\ stage'[t] = to /\ \A u \in Threads : u # t => stage'[u] = stage[u]
      /\ OneWriter'
  BY <1>1, Moved DEF Peaceful
<1>4. ~ready /\ \A p \in Paths : known[p] = Absent
  BY <1>3 DEF Peaceful, StagesOK
<1>5. \A u \in Threads : u # t => stage[u] \in {"idle", "clear"}
  BY <1>3, <1>4 DEF Peaceful, StagesOK, OneWriter, Writing
<1>6. StagesOK'
  BY <1>1, <1>2, <1>3, <1>5 DEF Peaceful, StagesOK
<1>7. SearchHolds'
  BY <1>1, <1>2, <1>3, <1>5 DEF Peaceful, SearchHolds
<1>8. ArrayOK'
  BY <1>1, <1>4 DEF ArrayOK, Empty
<1>9. QED BY <1>1, <1>3, <1>6, <1>7, <1>8 DEF Peaceful

LEMMA PeaceSearch ==
    ASSUME SumTypeOK, Peaceful, alone', NEW t \in Threads, Existing(t) \/ NotThere(t) \/ Claim(t)
    PROVE  Peaceful'
<1>1. UNCHANGED <<ready, table, goal, known, wrong>>
  BY DEF Existing, NotThere, Claim
<1>2. \A u \in Threads : u # t => slot'[u] = slot[u]
  BY FoundSlots DEF NotThere, SumTypeOK
<1>3. PICK from, to : /\ Moves(t, from, to)
                      /\ \/ Existing(t) /\ from = "search" /\ to = "fill"
                         \/ NotThere(t) /\ from = "search" /\ to = "claim"
                         \/ Claim(t) /\ from = "claim" /\ to = "name"
  BY DEF Existing, NotThere, Claim
<1>4. /\ stage[t] = from /\ stage'[t] = to /\ \A u \in Threads : u # t => stage'[u] = stage[u]
      /\ OneWriter'
  BY <1>3, Moved DEF Peaceful
<1>5. StagesOK'
  BY <1>1, <1>3, <1>4 DEF Peaceful, StagesOK
<1>6. SearchHolds'
  <2>1. to = "fill" => slot'[t] \in Slots /\ table[slot'[t]].path = goal[t].path
    BY <1>3, FoundSlots
  <2>2. to = "name" => slot'[t] \in Slots /\ table[slot'[t]].path = Absent
    BY <1>3, FoundSlots
  <2>3. to \in {"claim", "name"} => \A i \in Slots : table[i].path # goal[t].path
    BY <1>3, <1>4 DEF NotThere, Peaceful, SearchHolds
  <2>4. ASSUME NEW u \in Threads, u # t
        PROVE  slot'[u] = slot[u] /\ stage'[u] = stage[u]
    BY <1>2, <1>4, <2>4
  <2>5. QED BY <1>1, <1>3, <1>4, <2>1, <2>2, <2>3, <2>4 DEF Peaceful, SearchHolds
<1>7. QED BY <1>1, <1>4, <1>5, <1>6, ArrayKept DEF Peaceful

LEMMA PeaceName ==
    ASSUME SumTypeOK, Peaceful, alone', NEW t \in Threads, Name(t) PROVE Peaceful'
<1>1. /\ Moves(t, "name", "fill") /\ UNCHANGED <<ready, goal, slot, known, wrong>>
      /\ table' = [table EXCEPT ![slot[t]].path = goal[t].path]
  BY DEF Name
<1>2. /\ stage[t] = "name" /\ stage'[t] = "fill" /\ \A u \in Threads : u # t => stage'[u] = stage[u]
      /\ \A u \in Threads : u # t => stage[u] \notin Writing
      /\ OneWriter'
  <2>1. "fill" \in Writing
    BY DEF Writing
  <2>2. QED BY <1>1, <2>1, Moved DEF Peaceful
<1>3. /\ slot[t] \in Slots /\ table[slot[t]].path = Absent /\ goal[t].path \in Paths
      /\ \A i \in Slots : table[i].path # goal[t].path
      /\ goal[t].path # Absent
  BY <1>2, ChecksumAssumption DEF ChecksumAssumption, Peaceful, SearchHolds, StagesOK
<1>4. \A i \in Slots :
         /\ table'[i].path = IF i = slot[t] THEN goal[t].path ELSE table[i].path
         /\ table'[i].valid = table[i].valid /\ table'[i].hash = table[i].hash
  BY <1>1, <1>3 DEF SumTypeOK
<1>5. StagesOK'
  BY <1>1, <1>2 DEF Peaceful, StagesOK
<1>6. SearchHolds'
  <2>1. \A u \in Threads : u # t => stage'[u] \notin {"claim", "name", "fill"}
    BY <1>2 DEF Writing
  <2>2. ASSUME NEW u \in Threads, stage'[u] = "judge"
        PROVE  slot'[u] \in Slots /\ table'[slot'[u]].path = goal'[u].path /\ table'[slot'[u]].valid
    <3>1. u # t /\ stage[u] = "judge"
      BY <1>2, <2>2
    <3>2. /\ slot[u] \in Slots /\ table[slot[u]].path = goal[u].path /\ table[slot[u]].valid
          /\ goal[u].path \in Paths
      BY <3>1 DEF Peaceful, SearchHolds, StagesOK
    <3>3. slot[u] # slot[t]
      BY <1>3, <3>2, ChecksumAssumption DEF ChecksumAssumption
    <3>4. QED BY <1>1, <1>4, <3>2, <3>3
  <2>3. stage'[t] = "fill" /\ slot'[t] \in Slots /\ table'[slot'[t]].path = goal'[t].path
    BY <1>1, <1>2, <1>3, <1>4
  <2>4. QED BY <2>1, <2>2, <2>3 DEF SearchHolds
<1>7. ArrayOK'
  BY <1>1, <1>3, <1>4 DEF Peaceful, ArrayOK
<1>8. QED BY <1>1, <1>2, <1>5, <1>6, <1>7 DEF Peaceful

LEMMA PeaceFill ==
    ASSUME SumTypeOK, Peaceful, alone', NEW t \in Threads, Fill(t) PROVE Peaceful'
<1>1. /\ Ends(t, "fill") /\ UNCHANGED <<ready, wrong>>
      /\ table' = [table EXCEPT ![slot[t]].hash = goal[t].hash, ![slot[t]].valid = TRUE]
      /\ known' = [known EXCEPT ![goal[t].path] = goal[t].hash]
  BY DEF Fill
<1>2. /\ stage[t] = "fill" /\ stage'[t] = "idle" /\ \A u \in Threads : u # t => stage'[u] = stage[u]
      /\ OneWriter'
      /\ \A u \in Threads : u # t => goal'[u] = goal[u] /\ slot'[u] = slot[u]
  BY <1>1, EndsMoved, Moved DEF Peaceful
<1>3. /\ slot[t] \in Slots /\ table[slot[t]].path = goal[t].path /\ goal[t].path \in Paths
      /\ goal[t].path # Absent /\ goal[t].hash \in Versions /\ goal[t].hash # Absent /\ ready
  BY <1>2, ChecksumAssumption DEF ChecksumAssumption, Peaceful, SearchHolds, StagesOK
<1>4. \A i \in Slots :
         /\ table'[i].path = table[i].path
         /\ table'[i].hash = IF i = slot[t] THEN goal[t].hash ELSE table[i].hash
         /\ i # slot[t] => table'[i].valid = table[i].valid
         /\ i = slot[t] => table'[i].valid
  BY <1>1, <1>3 DEF SumTypeOK
<1>5. \A p \in Paths : known'[p] = IF p = goal[t].path THEN goal[t].hash ELSE known[p]
  BY <1>1 DEF SumTypeOK
<1>6. StagesOK'
  BY <1>1, <1>2, <1>3 DEF Peaceful, StagesOK
<1>7. SearchHolds'
  <2>1. ASSUME NEW u \in Threads, stage'[u] \in {"claim", "name", "fill", "judge"}
        PROVE  stage[u] = stage'[u] /\ u # t /\ slot'[u] = slot[u] /\ goal'[u] = goal[u]
    BY <1>2, <2>1
  <2>2. QED BY <1>4, <2>1 DEF Peaceful, SearchHolds
<1>8. ArrayOK'
  <2> DEFINE s == slot[t]
  <2>1. \A i, j \in Slots : table[i].path = table[j].path /\ table[i].path # Absent => i = j
    BY <1>3 DEF Peaceful, ArrayOK
  <2>2. \A i, j \in Slots : table'[i].path = table'[j].path /\ table'[i].path # Absent => i = j
    BY <1>4, <2>1
  <2>3. ASSUME NEW i \in Slots, table'[i].valid
        PROVE  table'[i].path # Absent /\ table'[i].hash = known'[table'[i].path] /\ table'[i].hash # Absent
    <3>1. CASE i = s
      BY <1>3, <1>4, <1>5, <3>1
    <3>2. CASE i # s
      <4>1. table[i].valid
        BY <1>4, <2>3, <3>2
      <4>2. table[i].path # Absent /\ table[i].hash = known[table[i].path] /\ table[i].hash # Absent
        BY <1>3, <4>1 DEF Peaceful, ArrayOK
      <4>3. table[i].path \in Paths /\ table[i].path # goal[t].path
        BY <1>3, <2>1, <3>2, <4>2 DEF SumTypeOK
      <4>4. QED BY <1>4, <1>5, <3>2, <4>2, <4>3
    <3>3. QED BY <3>1, <3>2
  <2>4. ASSUME NEW p \in Paths, known'[p] # Absent
        PROVE  \E i \in Slots : table'[i].path = p /\ table'[i].valid
    <3>1. CASE p = goal[t].path
      BY <1>3, <1>4, <3>1
    <3>2. CASE p # goal[t].path
      <4>1. PICK i \in Slots : table[i].path = p /\ table[i].valid
        BY <1>3, <1>5, <2>4, <3>2 DEF Peaceful, ArrayOK
      <4>2. i # s
        BY <1>3, <3>2, <4>1
      <4>3. QED BY <1>4, <4>1, <4>2
    <3>3. QED BY <3>1, <3>2
  <2>5. QED BY <2>2, <2>3, <2>4 DEF ArrayOK
<1>9. QED BY <1>1, <1>2, <1>6, <1>7, <1>8 DEF Peaceful

LEMMA PeaceDigest ==
    ASSUME SumTypeOK, Peaceful, alone', NEW t \in Threads, NEW v \in Versions, Digest(t, v)
    PROVE  Peaceful'
<1>1. /\ Moves(t, "look", "judge") /\ goal' = [goal EXCEPT ![t].hash = v]
      /\ UNCHANGED <<ready, table, known, wrong>>
  BY DEF Digest
<1>2. /\ stage[t] = "look" /\ stage'[t] = "judge" /\ \A u \in Threads : u # t => stage'[u] = stage[u]
      /\ OneWriter'
  BY <1>1, Moved DEF Peaceful
<1>3. /\ \A u \in Threads : u # t => slot'[u] = slot[u] /\ goal'[u] = goal[u]
      /\ goal'[t].path = goal[t].path /\ slot'[t] \in Slots
      /\ table[slot'[t]].path = goal[t].path /\ table[slot'[t]].valid
  <2>1. slot' = [slot EXCEPT ![t] = slot'[t]] /\ slot'[t] \in Slots
        /\ table[slot'[t]].path = goal[t].path /\ table[slot'[t]].valid
    BY FoundSlots
  <2>2. \A u \in Threads : u # t => slot'[u] = slot[u] /\ goal'[u] = goal[u]
    BY <1>1, <2>1 DEF SumTypeOK
  <2>3. goal'[t].path = goal[t].path
    BY <1>1 DEF SumTypeOK
  <2>4. QED BY <2>1, <2>2, <2>3
<1>4. StagesOK'
  BY <1>1, <1>2, <1>3 DEF Peaceful, StagesOK
<1>5. SearchHolds'
  BY <1>1, <1>2, <1>3 DEF Peaceful, SearchHolds
<1>6. QED BY <1>1, <1>2, <1>4, <1>5, ArrayKept DEF Peaceful

(* The verdicts are those of the known hashes.                               *)
LEMMA PeaceEnd ==
    ASSUME SumTypeOK, Peaceful, alone', NEW t \in Threads,
           Full(t) \/ Missing(t) \/ Unreadable(t) \/ Judge(t)
    PROVE  Peaceful'
<1>1. PICK from \in {"claim", "look", "judge"} : Ends(t, from)
  BY DEF Full, Missing, Unreadable, Judge
<1>2. UNCHANGED <<ready, table, known>>
  BY DEF Full, Missing, Unreadable, Judge
<1>3. /\ stage[t] = from /\ stage'[t] = "idle" /\ \A u \in Threads : u # t => stage'[u] = stage[u]
      /\ OneWriter'
      /\ \A u \in Threads : u # t => goal'[u] = goal[u] /\ slot'[u] = slot[u]
  BY <1>1, EndsMoved, Moved DEF Peaceful
<1>4. ready /\ goal[t].path \in Paths
  BY <1>1, <1>3 DEF Peaceful, StagesOK
<1>5. StagesOK'
  BY <1>2, <1>3 DEF Peaceful, StagesOK
<1>6. SearchHolds'
  BY <1>2, <1>3 DEF Peaceful, SearchHolds
<1>7. wrong' = wrong
  <2>1. CASE Full(t) \/ Unreadable(t)
    BY <2>1 DEF Full, Unreadable
  <2>2. CASE Missing(t)
    <3>1. ValidSlots(goal[t].path) = {} /\ Judged(t, FALSE, known[goal[t].path] # Absent)
      BY <2>2 DEF Missing
    <3>2. known[goal[t].path] = Absent
      BY <1>4, <3>1 DEF ValidSlots, Peaceful, ArrayOK
    <3>3. QED BY <3>1, <3>2 DEF Judged
  <2>3. CASE Judge(t)
    <3>1. Judged(t, goal[t].hash = table[slot[t]].hash, goal[t].hash = known[goal[t].path])
      BY <2>3 DEF Judge
    <3>2. stage[t] = "judge"
      BY <2>3 DEF Judge, Ends, Moves
    <3>3. slot[t] \in Slots /\ table[slot[t]].path = goal[t].path /\ table[slot[t]].valid
      BY <3>2 DEF Peaceful, SearchHolds
    <3>4. table[slot[t]].hash = known[goal[t].path]
      BY <1>4, <3>3 DEF Peaceful, ArrayOK
    <3>5. QED BY <3>1, <3>4 DEF Judged
  <2>4. QED BY <2>1, <2>2, <2>3
<1>8. QED BY <1>2, <1>3, <1>5, <1>6, <1>7, ArrayKept DEF Peaceful

LEMMA SumStep == SumInv /\ [SumNext]_sumVars => SumInv'
<1> SUFFICES ASSUME SumInv, [SumNext]_sumVars PROVE SumInv'
  OBVIOUS
<1>1. SumTypeOK /\ SumTypeOK'
  BY SumTypesStep DEF SumInv
<1>2. ASSUME alone' PROVE Peaceful'
  <2>1. alone
    <3>1. ASSUME NEW t \in Threads, SumThread(t) PROVE alone
      <4>1. \E from, to : Moves(t, from, to)
        BY <3>1 DEF SumThread, SumCall, Clear, Wipe, Existing, NotThere, Claim, Full, Name, Fill,
                    Missing, Digest, Unreadable, Judge, Ends
      <4>2. QED BY <1>2, <4>1, Zenon DEF Moves
    <3>2. QED BY <1>2, <3>1, Zenon DEF SumNext, ShutdownSums, sumVars
  <2>2. Peaceful
    BY <2>1, Zenon DEF SumInv
  <2>3. ASSUME NEW t \in Threads, SumThread(t) PROVE Peaceful'
    <3>1. CASE \E p \in Paths : SumCall(t, p, Absent, TRUE)
      <4>1. Absent \in Versions \cup {Absent} /\ TRUE \in BOOLEAN
        OBVIOUS
      <4>2. QED BY <1>1, <1>2, <2>2, <3>1, <4>1, PeaceStart, Zenon
    <3>2. CASE \E p \in Paths, v \in Versions : SumCall(t, p, v, FALSE)
      <4>1. FALSE \in BOOLEAN /\ \A v \in Versions : v \in Versions \cup {Absent}
        OBVIOUS
      <4>2. QED BY <1>1, <1>2, <2>2, <3>2, <4>1, PeaceStart, Zenon
    <3>3. QED BY <1>1, <1>2, <2>2, <2>3, <3>1, <3>2, PeaceStart, PeaceWipe, PeaceSearch, PeaceName,
                 PeaceFill, PeaceDigest, PeaceEnd, Zenon DEF SumThread
  <2>4. CASE ShutdownSums
    <3>1. /\ ready' = FALSE /\ known' = [p \in Paths |-> Absent]
          /\ UNCHANGED <<table, stage, goal, slot, alone, wrong>>
          /\ \A t \in Threads : stage[t] = "idle"
      BY <2>4 DEF ShutdownSums
    <3>2. StagesOK' /\ SearchHolds' /\ OneWriter'
      BY <3>1 DEF StagesOK, SearchHolds, OneWriter, Writing
    <3>3. ArrayOK'
      BY <3>1 DEF ArrayOK
    <3>4. QED BY <2>2, <3>1, <3>2, <3>3 DEF Peaceful
  <2>5. CASE UNCHANGED sumVars
    BY <2>2, <2>5 DEF sumVars, Peaceful, StagesOK, SearchHolds, OneWriter, ArrayOK
  <2>6. QED BY <2>3, <2>4, <2>5, Zenon DEF SumNext
<1>3. QED BY <1>1, <1>2, Zenon DEF SumInv

LEMMA SumStart == SumInit => SumInv
<1> SUFFICES ASSUME SumInit PROVE SumInv
  OBVIOUS
<1>1. SumTypeOK
  BY DEF SumInit, SumTypeOK, Empty, NoGoal
<1>2. Peaceful
  BY DEF SumInit, Peaceful, StagesOK, SearchHolds, OneWriter, ArrayOK, Writing
<1>3. QED BY <1>1, <1>2, Zenon DEF SumInv

LEMMA SumsFollow == SumInv => SumsRight
<1> SUFFICES ASSUME SumTypeOK, Peaceful, NEW p \in Paths, known[p] # Absent
             PROVE  \E i \in Slots : ValidSlots(p) = {i} /\ table[i].hash = known[p]
  BY Zenon DEF SumInv, SumsRight, Peaceful
<1>1. ready /\ p # Absent
  BY ChecksumAssumption DEF ChecksumAssumption, Peaceful, StagesOK
<1>2. PICK i \in Slots : table[i].path = p /\ table[i].valid
  BY <1>1 DEF Peaceful, ArrayOK
<1>3. \A j \in Slots : table[j].path = p => j = i
  BY <1>1, <1>2 DEF Peaceful, ArrayOK
<1>4. ValidSlots(p) = {i}
  BY <1>2, <1>3 DEF ValidSlots
<1>5. QED BY <1>1, <1>2, <1>4 DEF Peaceful, ArrayOK

(* As long as no two calls have written to the array of checksums at once,   *)
(* it holds every path added once, with the hash of its last add, and the    *)
(* verifications beside them say what these hashes say; for any number of    *)
(* threads, paths and slots.                                                *)
THEOREM ChecksumsRight == SumSpec => []SumsRight
BY SumStart, SumStep, SumsFollow, PTL DEF SumSpec
=============================================================================
